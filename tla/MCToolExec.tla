----------------------------- MODULE MCToolExec -----------------------------
(* The instances of ToolExec that TLC checks.                              *)
EXTENDS ToolExec

(* Every pair of calls under every mode; the limit of two never makes one  *)
(* of two calls wait.  The approver matters when a call needs one.         *)
PairCases ==
  {case \in [cfg : [limit : {0, 1, 2}, failFast : BOOLEAN,
                    approver : {"none", "deaf", "ctx"}],
             call : [1..2 -> CallTypes]] :
     \/ case.cfg.approver = "ctx"
     \/ \E c \in 1..2 : case.call[c].kind = "approval"}

(* Three calls that run a tool, one of them perhaps after an approval,     *)
(* through a semaphore of two: one call has to wait.  Parallel calls are   *)
(* interchangeable, so one order of each triple is enough.                 *)
Rank(t) == (IF t.kind = "plain" THEN 0 ELSE 2) + (IF t.timed THEN 1 ELSE 0)

QueueCases ==
  [cfg : [limit : {2}, failFast : BOOLEAN, approver : {"ctx"}],
   call : {s \in [1..3 -> [kind : RunKinds, timed : BOOLEAN]] :
             /\ Rank(s[1]) <= Rank(s[2])
             /\ Rank(s[2]) <= Rank(s[3])
             /\ s[2].kind = "plain"}]

MCCases == PairCases \union QueueCases
=============================================================================
