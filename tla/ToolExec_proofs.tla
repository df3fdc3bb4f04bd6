-------------------------- MODULE ToolExec_proofs --------------------------
(***************************************************************************)
(* Proofs about ToolExec, for every list of calls and every configuration  *)
(* in Cases: the type invariant, the safety invariants of the runs, and    *)
(* the refinement of ToolBatch.                                            *)
(***************************************************************************)
EXTENDS ToolExec, FiniteSetTheorems, TLAPS

(* Before the batch returns, only an error has cancelled it.               *)
CancelledByError ==
  execDone /\ ~returned =>
    FailFast /\ \E d \in Calls : pc[d] = "done" /\ IsError(results[d])

AllDoneOnReturn == returned => \A c \in Calls : pc[c] = "done"

-----------------------------------------------------------------------------
(* The calls that hold a token are finitely many.                          *)
LEMMA HoldersFinite ==
  ASSUME call \in Seq(CallTypes)
  PROVE  IsFiniteSet(Holders) /\ Cardinality(Holders) \in Nat
<1>1. Len(call) \in Nat
  OBVIOUS
<1>2. IsFiniteSet(Calls)
  BY <1>1, FS_Interval DEF Calls
<1>3. Holders \in SUBSET Calls
  BY DEF Holders
<1>4. QED
  BY <1>2, <1>3, FS_Subset, FS_CardinalityType

(* The outcomes of a kind are outcomes, and never the empty slot.          *)
LEMMA OutcomesOfType ==
  ASSUME cfg \in Configs, NEW k \in RefusedKinds \union RunKinds
  PROVE  /\ OutcomesOf(k) \subseteq Outcomes
         /\ Empty \notin Outcomes
         /\ k # "plain" => Verdict(k) \in Outcomes
BY DEF Configs, RefusedKinds, RunKinds, OutcomesOf, Verdict, Outcomes, Empty

LEMMA KindOfCall ==
  ASSUME call \in Seq(CallTypes), NEW c \in Calls
  PROVE  call[c].kind \in RefusedKinds \union RunKinds
<1>1. call[c] \in CallTypes
  BY DEF Calls
<1>2. QED
  BY <1>1 DEF CallTypes

-----------------------------------------------------------------------------
(* The type invariant and the account of the semaphore are inductive only  *)
(* together: a release keeps the counter a natural number because the call *)
(* that releases is one of the holders counted.                            *)
SemInv == TypeOK /\ SemaphoreCounts

LEMMA InitSemInv == Init => SemInv
<1> SUFFICES ASSUME Init PROVE SemInv
  OBVIOUS
<1>1. PICK case \in Cases : cfg = case.cfg /\ call = case.call
  BY DEF Init
<1>2. cfg \in Configs /\ call \in Seq(CallTypes)
  BY <1>1, CasesAssumption
<1>3. TypeOK
  BY <1>2 DEF Init, TypeOK, Stages, Empty
<1>4. Holders = {}
  BY DEF Init, Holders
<1>5. SemaphoreCounts
  BY <1>2, <1>4, FS_EmptySet DEF Init, SemaphoreCounts, Limited, Configs
<1>6. QED
  BY <1>3, <1>5 DEF SemInv

(* A call that starts to wait adds itself to the holders.                  *)
LEMMA HoldKeepsSemInv ==
  ASSUME SemInv, NEW c \in Calls, NEW s \in {"approving", "running"},
         CanStart(c), Hold(c, s), UNCHANGED fixed
  PROVE  sem' \in Nat /\ pc' \in [Calls -> Stages] /\ SemaphoreCounts'
<1> USE DEF SemInv, TypeOK, fixed
<1>1. pc' \in [Calls -> Stages] /\ sem' \in Nat
  BY DEF Hold, Stages
<1>2. Calls' = Calls /\ Limited' = Limited
  BY DEF Calls, Limited, Sequential
<1>3. Holders' = Holders \union {c} /\ c \notin Holders
  BY <1>2 DEF Holders, Hold, CanStart
<1>4. Cardinality(Holders') = Cardinality(Holders) + 1
  BY <1>3, HoldersFinite, FS_AddElement
<1>5. Limited => sem' = Cardinality(Holders') /\ sem' <= cfg.limit
  BY <1>4 DEF SemaphoreCounts, Hold, CanStart, Configs, Limited
<1>6. QED
  BY <1>1, <1>2, <1>5 DEF SemaphoreCounts

(* A holder that settles is no longer one of them.                         *)
LEMMA ReleaseKeepsSemInv ==
  ASSUME SemInv, NEW c \in Calls, NEW o, pc[c] \in {"approving", "running"},
         Settle(c, o), Release, UNCHANGED fixed
  PROVE  sem' \in Nat /\ pc' \in [Calls -> Stages] /\ SemaphoreCounts'
<1> USE DEF SemInv, TypeOK, fixed
<1>1. pc' \in [Calls -> Stages]
  BY DEF Settle, Stages
<1>2. Calls' = Calls /\ Limited' = Limited
  BY DEF Calls, Limited, Sequential
<1>3. Holders' = Holders \ {c} /\ c \in Holders
  BY <1>2 DEF Holders, Settle
<1>4. /\ Cardinality(Holders') = Cardinality(Holders) - 1
      /\ Cardinality(Holders') \in Nat
  BY <1>3, HoldersFinite, FS_RemoveElement, FS_CardinalityType
<1>5. Limited => sem' = Cardinality(Holders') /\ sem' <= cfg.limit
  BY <1>4 DEF SemaphoreCounts, Release, Configs, Limited
<1>6. sem' \in Nat
  BY <1>4, <1>5 DEF Release
<1>7. QED
  BY <1>1, <1>2, <1>5, <1>6 DEF SemaphoreCounts

(* A step that changes neither the holders nor the counter.                *)
LEMMA SameHoldersKeepSemInv ==
  ASSUME SemInv, UNCHANGED <<fixed, sem>>, Holders' = Holders
  PROVE  sem' \in Nat /\ SemaphoreCounts'
BY DEF SemInv, TypeOK, fixed, SemaphoreCounts, Limited, Sequential

LEMMA NextSemInv == SemInv /\ [Next]_vars => SemInv'
<1> SUFFICES ASSUME SemInv, [Next]_vars PROVE SemInv'
  OBVIOUS
<1>0. UNCHANGED fixed /\ Calls' = Calls
  BY DEF Next, vars, fixed, Calls, RefuseOrHandoff, AskApproval, RunPlain, Approve,
         Deny, ApproverFails, ReceiveResult, GiveUpOnBody, BodyReturns,
         DeadlinePasses, Return, CancelRun
<1> USE <1>0 DEF SemInv, TypeOK
<1>a. cfg' = cfg /\ call' = call
  BY DEF fixed
<1> USE <1>a
<1>1. ASSUME NEW c \in Calls, RefuseOrHandoff(c) PROVE SemInv'
  <2>1. Verdict(call[c].kind) \in Outcomes
    BY <1>1, KindOfCall, OutcomesOfType DEF RefuseOrHandoff
  <2>2. Holders' = Holders
    BY <1>1 DEF RefuseOrHandoff, CanStart, Settle, Holders
  <2>3. QED
    BY <1>1, <2>1, <2>2, SameHoldersKeepSemInv DEF RefuseOrHandoff, Settle, Stages
<1>2. ASSUME NEW c \in Calls, AskApproval(c) PROVE SemInv'
  BY <1>2, HoldKeepsSemInv DEF AskApproval
<1>3. ASSUME NEW c \in Calls, RunPlain(c) PROVE SemInv'
  BY <1>3, HoldKeepsSemInv DEF RunPlain
<1>4. ASSUME NEW c \in Calls, Approve(c) PROVE SemInv'
  <2>1. Holders' = Holders
    BY <1>4 DEF Approve, Holders
  <2>2. QED
    BY <1>4, <2>1, SameHoldersKeepSemInv DEF Approve, Stages
<1>5. ASSUME NEW c \in Calls, Deny(c) PROVE SemInv'
  <2>1. /\ pc[c] \in {"approving", "running"}
        /\ Settle(c, "approvalDenied")
        /\ Release
    BY <1>5 DEF Deny
  <2>2. sem' \in Nat /\ pc' \in [Calls -> Stages] /\ SemaphoreCounts'
    BY <2>1, ReleaseKeepsSemInv
  <2>3. "approvalDenied" \in Outcomes
    BY <1>5 DEF Deny, Outcomes
  <2>4. QED
    BY <1>5, <2>2, <2>3 DEF Deny, Settle
<1>6. ASSUME NEW c \in Calls, ApproverFails(c) PROVE SemInv'
  <2>1. /\ pc[c] \in {"approving", "running"}
        /\ Settle(c, "approvalError")
        /\ Release
    BY <1>6 DEF ApproverFails
  <2>2. sem' \in Nat /\ pc' \in [Calls -> Stages] /\ SemaphoreCounts'
    BY <2>1, ReleaseKeepsSemInv
  <2>3. "approvalError" \in Outcomes
    BY <1>6 DEF ApproverFails, Outcomes
  <2>4. QED
    BY <1>6, <2>2, <2>3 DEF ApproverFails, Settle
<1>7. ASSUME NEW c \in Calls, ReceiveResult(c) PROVE SemInv'
  <2>1. /\ pc[c] \in {"approving", "running"}
        /\ Settle(c, body[c])
        /\ Release
    BY <1>7 DEF ReceiveResult
  <2>2. sem' \in Nat /\ pc' \in [Calls -> Stages] /\ SemaphoreCounts'
    BY <2>1, ReleaseKeepsSemInv
  <2>3. body[c] \in Outcomes
    BY <1>7 DEF ReceiveResult, Outcomes
  <2>4. QED
    BY <1>7, <2>2, <2>3 DEF ReceiveResult, Settle
<1>8. ASSUME NEW c \in Calls, GiveUpOnBody(c) PROVE SemInv'
  <2>1. /\ pc[c] \in {"approving", "running"}
        /\ Settle(c, "timeout")
        /\ Release
    BY <1>8 DEF GiveUpOnBody
  <2>2. sem' \in Nat /\ pc' \in [Calls -> Stages] /\ SemaphoreCounts'
    BY <2>1, ReleaseKeepsSemInv
  <2>3. "timeout" \in Outcomes
    BY <1>8 DEF GiveUpOnBody, Outcomes
  <2>4. QED
    BY <1>8, <2>2, <2>3 DEF GiveUpOnBody, Settle
<1>9. ASSUME NEW c \in Calls, BodyReturns(c) PROVE SemInv'
  <2>1. Holders' = Holders
    BY <1>9 DEF BodyReturns, Holders
  <2>2. QED
    BY <1>9, <2>1, SameHoldersKeepSemInv DEF BodyReturns
<1>10. ASSUME NEW c \in Calls, DeadlinePasses(c) PROVE SemInv'
  <2>1. Holders' = Holders
    BY <1>10 DEF DeadlinePasses, Holders
  <2>2. QED
    BY <1>10, <2>1, SameHoldersKeepSemInv DEF DeadlinePasses
<1>11. CASE Return \/ CancelRun \/ UNCHANGED vars
  <2>1. Holders' = Holders
    BY <1>11 DEF Return, CancelRun, vars, Holders
  <2>2. QED
    BY <1>11, <2>1, SameHoldersKeepSemInv DEF Return, CancelRun, vars
<1>12. QED
  BY <1>1, <1>2, <1>3, <1>4, <1>5, <1>6, <1>7, <1>8, <1>9, <1>10, <1>11 DEF Next

(* Every variable keeps its type.                                          *)
THEOREM TypeCorrect == Spec => []TypeOK
<1>1. SemInv => TypeOK
  BY DEF SemInv
<1>2. QED
  BY <1>1, InitSemInv, NextSemInv, PTL DEF Spec

(* With a limit of n, the semaphore holds one token for each of the calls  *)
(* between acquisition and release, at most n, for every n and every       *)
(* number of calls.                                                        *)
THEOREM SemaphoreCorrect == Spec => []SemaphoreCounts
<1>1. SemInv => SemaphoreCounts
  BY DEF SemInv
<1>2. QED
  BY <1>1, InitSemInv, NextSemInv, PTL DEF Spec

-----------------------------------------------------------------------------
(* The invariants about the causes of an outcome.  They speak of one call  *)
(* at a time, so a step is described by what it does to the call it is     *)
(* about and by what it leaves alone.                                      *)
(* A slot is filled exactly when its supervisor is done; an unfinished     *)
(* approval belongs to a call that needs one; a supervised or abandoned    *)
(* body was vetted.                                                        *)
SlotOK(c) ==
  /\ results[c] # Empty <=> pc[c] = "done"
  /\ pc[c] = "approving" => NeedsApproval(c)
  /\ pc[c] = "running" => body[c] # "none"
  /\ pc[c] \in {"idle", "approving"} => body[c] = "none"
  /\ body[c] # "none" => call[c].kind = "plain" \/ NeedsApproval(c)
  /\ body[c] # "none" /\ call[c].kind # "plain" => answer[c] = "yes"
  /\ results[c] # Empty => results[c] \in OutcomesOf(call[c].kind)

SlotInv == \A c \in Calls : SlotOK(c)

LEMMA InitSlotInv == Init => SlotInv
BY DEF Init, SlotInv, SlotOK, Empty

(* No step undoes the end of a supervisor or touches its slot again.       *)
LEMMA DoneIsForever ==
  ASSUME TypeOK, SlotInv, [Next]_vars
  PROVE  \A c \in Calls :
           results[c] # Empty => pc'[c] = pc[c] /\ results'[c] = results[c]
<1> SUFFICES ASSUME NEW c \in Calls, results[c] # Empty
             PROVE  pc'[c] = pc[c] /\ results'[c] = results[c]
  OBVIOUS
<1>1. pc[c] = "done"
  BY DEF SlotInv, SlotOK
<1>2. QED
  BY <1>1 DEF TypeOK, Next, vars, RefuseOrHandoff, AskApproval, RunPlain, Approve,
       Deny, ApproverFails, ReceiveResult, GiveUpOnBody, BodyReturns, DeadlinePasses,
       Return, CancelRun, CanStart, Hold, Settle

LEMMA NextSlotInv == TypeOK /\ SlotInv /\ [Next]_vars => SlotInv'
<1> SUFFICES ASSUME TypeOK, SlotInv, [Next]_vars, NEW d \in Calls' PROVE SlotOK(d)'
  BY DEF SlotInv
<1>0. UNCHANGED fixed /\ Calls' = Calls
  BY DEF Next, vars, fixed, Calls, RefuseOrHandoff, AskApproval, RunPlain, Approve,
         Deny, ApproverFails, ReceiveResult, GiveUpOnBody, BodyReturns,
         DeadlinePasses, Return, CancelRun
<1>a. cfg' = cfg /\ call' = call /\ d \in Calls /\ SlotOK(d)
  BY <1>0 DEF fixed, SlotInv
<1>b. /\ NeedsApproval(d)' = NeedsApproval(d)
      /\ OutcomesOf(call[d].kind)' = OutcomesOf(call[d].kind)
  BY <1>a DEF NeedsApproval, OutcomesOf
<1>c. call[d].kind \in RefusedKinds \union RunKinds /\ cfg \in Configs
  BY <1>a, KindOfCall DEF TypeOK
<1>d. OutcomesOf(call[d].kind) \subseteq Outcomes /\ Empty \notin Outcomes
  BY <1>c, OutcomesOfType
<1>e. ASSUME NEW c \in Calls, c # d,
             \/ RefuseOrHandoff(c) \/ AskApproval(c) \/ RunPlain(c) \/ Approve(c)
             \/ Deny(c) \/ ApproverFails(c) \/ ReceiveResult(c)
             \/ GiveUpOnBody(c) \/ BodyReturns(c) \/ DeadlinePasses(c)
      PROVE  SlotOK(d)'
  <2>1. /\ pc'[d] = pc[d] /\ body'[d] = body[d]
        /\ answer'[d] = answer[d] /\ results'[d] = results[d]
    BY <1>e, <1>a DEF TypeOK, RefuseOrHandoff, AskApproval, RunPlain, Approve, Deny,
         ApproverFails, ReceiveResult, GiveUpOnBody, BodyReturns, DeadlinePasses,
         Hold, Settle
  <2>2. QED
    BY <2>1, <1>a, <1>b DEF SlotOK
<1> USE <1>a, <1>b DEF SlotOK, TypeOK
<1>1. CASE RefuseOrHandoff(d)
  <2>1. Verdict(call[d].kind) \in OutcomesOf(call[d].kind)
    BY <1>1, <1>c DEF RefuseOrHandoff, NeedsApproval, OutcomesOf, RefusedKinds, RunKinds
  <2>2. QED
    BY <1>1, <2>1, <1>d DEF RefuseOrHandoff, CanStart, Settle
<1>2. CASE AskApproval(d)
  BY <1>2 DEF AskApproval, CanStart, Hold
<1>3. CASE RunPlain(d)
  BY <1>3 DEF RunPlain, CanStart, Hold
<1>4. CASE Approve(d)
  BY <1>4 DEF Approve
<1>5. CASE Deny(d)
  <2>1. "approvalDenied" \in OutcomesOf(call[d].kind) /\ "approvalDenied" # Empty
    BY <1>5 DEF Deny, NeedsApproval, OutcomesOf, Empty
  <2>2. QED
    BY <1>5, <2>1 DEF Deny, Settle
<1>6. CASE ApproverFails(d)
  <2>1. "approvalError" \in OutcomesOf(call[d].kind) /\ "approvalError" # Empty
    BY <1>6 DEF ApproverFails, NeedsApproval, OutcomesOf, Empty
  <2>2. QED
    BY <1>6, <2>1 DEF ApproverFails, Settle
<1>7. CASE ReceiveResult(d)
  <2>1. body[d] \in OutcomesOf(call[d].kind) /\ body[d] # Empty
    BY <1>7 DEF ReceiveResult, NeedsApproval, OutcomesOf, Empty
  <2>2. QED
    BY <1>7, <2>1 DEF ReceiveResult, Settle
<1>8. CASE GiveUpOnBody(d)
  <2>1. "timeout" \in OutcomesOf(call[d].kind) /\ "timeout" # Empty
    BY <1>8 DEF GiveUpOnBody, NeedsApproval, OutcomesOf, Empty
  <2>2. QED
    BY <1>8, <2>1 DEF GiveUpOnBody, Settle
<1>9. CASE BodyReturns(d)
  BY <1>9 DEF BodyReturns
<1>10. CASE DeadlinePasses(d)
  BY <1>10 DEF DeadlinePasses
<1>11. CASE Return \/ CancelRun \/ UNCHANGED vars
  BY <1>11 DEF Return, CancelRun, vars
<1>12. QED
  BY <1>e, <1>1, <1>2, <1>3, <1>4, <1>5, <1>6, <1>7, <1>8, <1>9, <1>10, <1>11 DEF Next

-----------------------------------------------------------------------------
CauseInv == CancelledByError /\ AllDoneOnReturn /\ TimeoutHasCause

LEMMA InitCauseInv == Init => CauseInv
BY DEF Init, CauseInv, CancelledByError, AllDoneOnReturn, TimeoutHasCause, Empty

LEMMA NextCauseInv == TypeOK /\ SlotInv /\ CauseInv /\ [Next]_vars => CauseInv'
<1> SUFFICES ASSUME TypeOK, SlotInv, CauseInv, [Next]_vars PROVE CauseInv'
  OBVIOUS
<1>0. UNCHANGED fixed
  BY DEF Next, vars, fixed, RefuseOrHandoff, AskApproval, RunPlain, Approve,
         Deny, ApproverFails, ReceiveResult, GiveUpOnBody, BodyReturns,
         DeadlinePasses, Return, CancelRun
<1>a. cfg' = cfg /\ call' = call /\ Calls' = Calls /\ FailFast' = FailFast
  BY <1>0 DEF fixed, Calls, FailFast, Sequential
<1>b. \A c \in Calls : pc[c] = "done" => pc'[c] = "done" /\ results'[c] = results[c]
  BY DoneIsForever DEF SlotInv, SlotOK
<1>c. (runDone => runDone') /\ expired \subseteq expired'
  BY DEF TypeOK, Next, vars, RefuseOrHandoff, AskApproval, RunPlain, Approve,
         Deny, ApproverFails, ReceiveResult, GiveUpOnBody, BodyReturns,
         DeadlinePasses, Return, CancelRun
<1>d. (returned' => returned) \/ Return
  BY DEF Next, vars, RefuseOrHandoff, AskApproval, RunPlain, Approve,
         Deny, ApproverFails, ReceiveResult, GiveUpOnBody, BodyReturns,
         DeadlinePasses, CancelRun
<1>1. CancelledByError'
  <2> SUFFICES ASSUME execDone', ~returned'
               PROVE  FailFast /\ \E d \in Calls : pc'[d] = "done" /\ IsError(results'[d])
    BY <1>a DEF CancelledByError, IsError
  <2>0. ~returned
    BY DEF TypeOK, Next, vars, RefuseOrHandoff, AskApproval, RunPlain, Approve,
         Deny, ApproverFails, ReceiveResult, GiveUpOnBody, BodyReturns,
         DeadlinePasses, Return, CancelRun
  <2>1. CASE execDone
    BY <2>0, <2>1, <1>b DEF CauseInv, CancelledByError
  <2>2. ASSUME ~execDone, NEW c \in Calls, NEW o, Settle(c, o)
        PROVE  FailFast /\ \E d \in Calls : pc'[d] = "done" /\ IsError(results'[d])
    BY <2>2 DEF TypeOK, Settle
  <2>3. CASE ~execDone
    BY <2>2, <2>3 DEF Next, vars, RefuseOrHandoff, AskApproval, RunPlain, Approve,
         Deny, ApproverFails, ReceiveResult, GiveUpOnBody, BodyReturns,
         DeadlinePasses, Return, CancelRun
  <2>4. QED
    BY <2>1, <2>3
<1>2. AllDoneOnReturn'
  BY <1>a, <1>b, <1>d DEF CauseInv, AllDoneOnReturn, Return
<1>3. TimeoutHasCause'
  <2> SUFFICES ASSUME NEW c \in Calls, results'[c] = "timeout"
               PROVE  \/ c \in expired'
                      \/ runDone'
                      \/ FailFast /\ \E d \in Calls \ {c} :
                                       pc'[d] = "done" /\ IsError(results'[d])
    BY <1>a DEF TimeoutHasCause, IsError
  <2>1. CASE results[c] = "timeout"
    BY <2>1, <1>b, <1>c DEF CauseInv, TimeoutHasCause
  <2>2. CASE results[c] # "timeout"
    <3>1. \A d \in Calls : Settle(d, Verdict(call[d].kind)) => d # c \/ call[d].kind = "plain"
      <4> SUFFICES ASSUME Settle(c, Verdict(call[c].kind)), call[c].kind # "plain"
                   PROVE  FALSE
        OBVIOUS
      <4>1. call[c].kind \in RefusedKinds \union RunKinds
        BY KindOfCall DEF TypeOK
      <4>2. Verdict(call[c].kind) # "timeout"
        BY <4>1 DEF Verdict, RefusedKinds, RunKinds
      <4>3. QED
        BY <4>2 DEF Settle, TypeOK
    <3>2. GiveUpOnBody(c)
      BY <2>2, <3>1 DEF TypeOK, Next, vars, RefuseOrHandoff, AskApproval, RunPlain,
           Approve, Deny, ApproverFails, ReceiveResult, GiveUpOnBody, BodyReturns,
           DeadlinePasses, Return, CancelRun, Settle
    <3>3. pc[c] = "running" /\ ~returned
      BY <3>2 DEF GiveUpOnBody, CauseInv, AllDoneOnReturn
    <3>4. runDone \/ c \in expired \/ (FailFast /\ execDone)
      BY <3>2 DEF GiveUpOnBody, ToolCtxDone, CtxDone
    <3>5. QED
      BY <3>3, <3>4, <1>b, <1>c DEF CauseInv, CancelledByError
  <2>3. QED
    BY <2>1, <2>2
<1>4. QED
  BY <1>1, <1>2, <1>3 DEF CauseInv

-----------------------------------------------------------------------------
IInv == SemInv /\ SlotInv /\ CauseInv

THEOREM Inductive == Spec => []IInv
<1>1. Init => IInv
  BY InitSemInv, InitSlotInv, InitCauseInv DEF IInv
<1>2. IInv /\ [Next]_vars => IInv'
  BY NextSemInv, NextSlotInv, NextCauseInv DEF IInv, SemInv
<1>3. QED
  BY <1>1, <1>2, PTL DEF Spec

(* No tool runs that was not permitted, found and, if it has to be,        *)
(* approved.                                                               *)
THEOREM Vetted == Spec => []OnlyVettedBodies
<1>1. IInv => OnlyVettedBodies
  BY DEF IInv, SlotInv, SlotOK, OnlyVettedBodies, NeedsApproval
<1>2. QED
  BY <1>1, Inductive, PTL

(* A timeout is reported for a deadline, a cancellation by the caller or,  *)
(* under fail-fast, the error of another call.                             *)
THEOREM TimeoutsHaveCauses == Spec => []TimeoutHasCause
<1>1. IInv => TimeoutHasCause
  BY DEF IInv, CauseInv
<1>2. QED
  BY <1>1, Inductive, PTL

-----------------------------------------------------------------------------
(* The goroutines implement the promise made to the runner: in every mode  *)
(* and interleaving a step settles one unsettled call by an outcome of its *)
(* kind, or delivers complete results, or changes neither.                 *)
LEMMA InitRefines == Init => Promise!BatchInit
<1> SUFFICES ASSUME Init PROVE Promise!BatchInit
  OBVIOUS
<1>1. TypeOK
  BY InitSemInv DEF SemInv
<1>2. \A c \in Calls : OutcomesOf(call[c].kind) \in SUBSET Outcomes
  BY <1>1, KindOfCall, OutcomesOfType DEF TypeOK
<1>3. [c \in Calls |-> OutcomesOf(call[c].kind)] \in Seq(SUBSET Outcomes)
  BY <1>1, <1>2 DEF TypeOK, Calls
<1>4. QED
  BY <1>3 DEF Init, Promise!BatchInit, Promise!Batch, Promise!Unsettled, Empty

LEMMA NextRefines == IInv /\ [Next]_vars => [Promise!BatchNext]_(Promise!batchVars)
<1> SUFFICES ASSUME IInv, SlotInv', [Next]_vars
             PROVE  [Promise!BatchNext]_(Promise!batchVars)
  BY NextSlotInv DEF IInv, SemInv
<1> DEFINE possible == [c \in Calls |-> OutcomesOf(call[c].kind)]
<1>0. cfg' = cfg /\ call' = call
  BY DEF Next, vars, fixed, RefuseOrHandoff, AskApproval, RunPlain, Approve,
         Deny, ApproverFails, ReceiveResult, GiveUpOnBody, BodyReturns,
         DeadlinePasses, Return, CancelRun
<1>a. possible' = possible /\ Calls' = Calls
  BY <1>0 DEF Calls, OutcomesOf, Verdict
<1>b. Promise!Batch = Calls
  BY DEF Promise!Batch
<1>1. ASSUME NEW c \in Calls, NEW o, Settle(c, o), pc[c] # "done", UNCHANGED returned
      PROVE  Promise!Settle(c)
  <2>1. results[c] = Empty
    BY <1>1 DEF IInv, SlotInv, SlotOK
  <2>2. ~returned
    BY <1>1 DEF IInv, CauseInv, AllDoneOnReturn
  <2>3. results'[c] = o /\ pc'[c] = "done"
    BY <1>1 DEF Settle, IInv, SemInv, TypeOK
  <2>4. o \in OutcomesOf(call[c].kind)
    BY <2>3, <1>a, <1>0 DEF SlotInv, SlotOK, OutcomesOf
  <2>5. o \in possible[c]
    BY <2>4
  <2>6. QED
    BY <1>1, <1>a, <2>1, <2>2, <2>5 DEF Promise!Settle, Promise!Unsettled, Empty, Settle
<1>2. CASE Return
  <2>1. \A c \in Calls : results[c] # Empty
    BY <1>2 DEF Return, IInv, SlotInv, SlotOK
  <2>2. Promise!Deliver
    BY <1>2, <1>a, <1>b, <2>1 DEF Return, Promise!Deliver, Promise!Unsettled, Empty
  <2>3. QED
    BY <2>2 DEF Promise!BatchNext
<1>3. CASE UNCHANGED <<results, returned>>
  BY <1>3, <1>a DEF Promise!batchVars
<1>4. CASE \E c \in Calls :
             \/ RefuseOrHandoff(c) \/ Deny(c) \/ ApproverFails(c)
             \/ ReceiveResult(c) \/ GiveUpOnBody(c)
  <2>1. \E c \in Calls : Promise!Settle(c)
    BY <1>4, <1>1 DEF RefuseOrHandoff, CanStart, Deny, ApproverFails, ReceiveResult,
         GiveUpOnBody
  <2>2. QED
    BY <2>1, <1>b DEF Promise!BatchNext
<1>5. CASE \E c \in Calls :
             \/ AskApproval(c) \/ RunPlain(c) \/ Approve(c)
             \/ BodyReturns(c) \/ DeadlinePasses(c)
  BY <1>5, <1>3 DEF AskApproval, RunPlain, Approve, BodyReturns, DeadlinePasses
<1>6. CASE CancelRun \/ UNCHANGED vars
  BY <1>6, <1>3 DEF CancelRun, vars
<1>7. QED
  BY <1>2, <1>4, <1>5, <1>6 DEF Next

THEOREM RefinesToolBatch == Spec => ImplementsToolBatch
BY InitRefines, NextRefines, Inductive, PTL DEF Spec, ImplementsToolBatch, Promise!BatchSpec

=============================================================================
