----------------------------- MODULE Evaluation -----------------------------
(***************************************************************************)
(* Experiments (experiment/): Evaluate runs every candidate on every input, *)
(* some at a time, and ABTest runs two agents one after the other, round by *)
(* round.  A judge scores what they say, if there is one.                  *)
(***************************************************************************)
EXTENDS Naturals, Sequences, FiniteSets, SequencesExt

CONSTANTS
  Trials       \* Trials: the experiments: [how, works, atOnce, judged]

(* The semaphore has a token at least; without it works are one by one.    *)
ASSUME TrialsAssumption ==
  \A t \in Trials :
    /\ t.how \in {"evaluate", "ab"} /\ t.works \in Nat
    /\ t.atOnce \in Nat \ {0} /\ (t.how = "ab" => t.atOnce = 1)

VARIABLES
  trial,       \* trial: the experiment
  lab,         \* lab: the loop that starts the works
  bench,       \* bench: the goroutine of each work
  records      \* records: the runs that are recorded, in order

trialVars == <<trial, lab, bench, records>>

Works == 1..trial.works
AtWork == {w \in Works : bench[w] \in {"running", "judging"}}

TrialInit ==
  /\ trial \in Trials
  /\ lab = [next |-> 1, firstError |-> 0, result |-> "none"]
  /\ bench = [w \in Works |-> "waiting"]
  /\ records = <<>>

Ended_(result) == [lab EXCEPT !.result = result]

HasPlace == Cardinality(AtWork) < trial.atOnce

(* The loop takes a token of the semaphore, never less than one, and       *)
(* starts a goroutine.  ABTest has no semaphore and stops at an error.     *)
StartWork ==
  /\ lab.result = "none"
  /\ lab.next \in Works
  /\ HasPlace
  /\ trial.how = "ab" => lab.firstError = 0
  /\ bench' = [bench EXCEPT ![lab.next] = "running"]
  /\ lab' = [lab EXCEPT !.next = @ + 1]
  /\ UNCHANGED <<trial, records>>

Recorded(w, score) == records' = Append(records, [work |-> w, score |-> score])

(* The first error, in time, is the one that is reported.                  *)
Broken(w) ==
  /\ lab' = [lab EXCEPT !.firstError = IF @ = 0 THEN w ELSE @]
  /\ bench' = [bench EXCEPT ![w] = "failed"]
  /\ UNCHANGED <<trial, records>>

RunWork(w) ==
  /\ bench[w] = "running"
  /\ \/ Broken(w)
     \/ /\ IF trial.judged
           THEN bench' = [bench EXCEPT ![w] = "judging"] /\ UNCHANGED records
           ELSE bench' = [bench EXCEPT ![w] = "recorded"] /\ Recorded(w, 0)
        /\ UNCHANGED <<trial, lab>>

(* A judge that fails is an error of ABTest; for Evaluate it is a score of *)
(* nothing, which counts in the average.                                   *)
JudgeWork(w) ==
  /\ bench[w] = "judging"
  /\ \/ /\ \E score \in 1..2 : Recorded(w, score)
        /\ bench' = [bench EXCEPT ![w] = "recorded"]
        /\ UNCHANGED <<trial, lab>>
     \/ /\ trial.how = "ab"
        /\ Broken(w)
     \/ /\ trial.how = "evaluate"
        /\ Recorded(w, 0)
        /\ bench' = [bench EXCEPT ![w] = "recorded"]
        /\ UNCHANGED <<trial, lab>>

(* Mutant of AllDone: the end of the loop does not wait.                   *)
AllDoneAtOnce == lab.next > trial.works

AllDone == lab.next > trial.works /\ AtWork = {}

ReturnTrial ==
  /\ lab.result = "none"
  /\ AllDone \/ (trial.how = "ab" /\ lab.firstError # 0)
  /\ lab' = Ended_(IF lab.firstError # 0 THEN "error" ELSE "ok")
  /\ UNCHANGED <<trial, bench, records>>

TrialNext ==
  \/ StartWork \/ ReturnTrial
  \/ \E w \in Works : RunWork(w) \/ JudgeWork(w)

-----------------------------------------------------------------------------
(* Properties.                                                             *)

(* Results are returned only when every work has exactly one record and    *)
(* none is still at work; an error only when a work failed, the first one; *)
(* and never are more at work than were allowed (evaluate.go:131-176).     *)
TrialFaithful ==
  /\ lab.result = "ok" =>
       /\ Len(records) = trial.works
       /\ {records[i].work : i \in DOMAIN records} = Works
  /\ lab.result # "none" => AtWork = {}
  /\ lab.result = "error" => bench[lab.firstError] = "failed"
  /\ Cardinality(AtWork) <= trial.atOnce
  /\ trial.how = "ab" => \A i \in DOMAIN records : records[i].work = i
=============================================================================
