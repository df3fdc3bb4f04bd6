------------------------------ MODULE ToolExec ------------------------------
(***************************************************************************)
(* The execution of the tool calls of one LLM response: executeToolCalls   *)
(* and executeSingleTool of runner.go, and Tool.Run of tool.go.            *)
(*                                                                         *)
(* Each call has a supervisor (executeSingleTool, in the runner's own      *)
(* goroutine when execution is sequential, in a goroutine per call         *)
(* otherwise) and, once Tool.Run is reached, a body: the goroutine that    *)
(* runs the tool's function and puts its result in a channel of capacity   *)
(* one.  The supervisor waits for that channel or for its context, so it   *)
(* may leave a body behind that still runs.                                *)
(*                                                                         *)
(* Time is abstracted to "the deadline of this call has passed".           *)
(***************************************************************************)
EXTENDS Naturals, Sequences, FiniteSets

(* Kinds that are answered without running anything, and those that run.   *)
RefusedKinds == {"handoff", "handoffDenied", "handoffUnknown", "denied", "unknown"}
RunKinds == {"approval", "plain"}

(* A deadline matters to the calls that run a tool only.                   *)
CallTypes == [kind : RefusedKinds, timed : {FALSE}] \union [kind : RunKinds, timed : BOOLEAN]

(* limit is parallelism(): 0 is unlimited, 1 is sequential.  There is no    *)
(* approver, one that ignores its context, as a console prompt does, or one *)
(* that answers with an error once its context is done.                     *)
Configs == [limit : Nat, failFast : BOOLEAN, approver : {"none", "deaf", "ctx"}]

(* The configurations and the lists of calls to consider.                  *)
CONSTANT Cases

ASSUME CasesAssumption == Cases \subseteq [cfg : Configs, call : Seq(CallTypes)]

VARIABLES
  cfg,         \* the agent's and the run's configuration, fixed
  call,        \* call[c]: kind of the call and whether a deadline applies, fixed
  pc,          \* pc[c]: where the supervisor of call c is
  sem,         \* tokens in the semaphore channel of the limited mode
  answer,      \* answer[c]: what the approver said
  body,        \* body[c]: the goroutine Tool.Run started
  expired,     \* calls whose own deadline has passed
  runDone,     \* the context of the run is done
  execDone,    \* the child context of the batch was cancelled
  results,     \* results[c]: the slot of the results slice
  returned     \* executeToolCalls has returned

vars == <<cfg, call, pc, sem, answer, body, expired, runDone, execDone,
          results, returned>>

fixed == <<cfg, call>>

Calls == 1..Len(call)

(* Where a supervisor may be between two steps.                            *)
Stages == {"idle", "approving", "running", "done"}

Empty == "unsettled"

Outcomes == {"handoff", "notPermitted", "notFound", "noApprover",
             "approvalError", "approvalDenied", "timeout", "failed", "ok"}

(* record.IsError of the outcomes.                                         *)
IsError(o) == o \notin {"handoff", "ok", Empty}

(* One tool at a time, in the runner's goroutine.                          *)
Sequential == cfg.limit = 1 \/ Len(call) = 1

Limited == ~Sequential /\ cfg.limit > 0

(* The fail-fast context exists in the parallel modes only.                *)
FailFast == ~Sequential /\ cfg.failFast

(* ctx.Done() as an approver and, with its own deadline, a tool sees it.   *)
CtxDone == runDone \/ (FailFast /\ execDone)

ToolCtxDone(c) == CtxDone \/ c \in expired

Init ==
  /\ \E case \in Cases : cfg = case.cfg /\ call = case.call
  /\ pc = [c \in Calls |-> "idle"]
  /\ sem = 0
  /\ answer = [c \in Calls |-> "none"]
  /\ body = [c \in Calls |-> "none"]
  /\ expired = {}
  /\ runDone = FALSE
  /\ execDone = FALSE
  /\ results = [c \in Calls |-> Empty]
  /\ returned = FALSE

-----------------------------------------------------------------------------
(* The supervisor of a call.                                               *)

(* Mutant of CanStart: the semaphore admits one call too many.              *)
CanStartOneMore(c) ==
  /\ pc[c] = "idle"
  /\ Sequential => \A d \in 1..(c - 1) : pc[d] = "done"
  /\ Limited => sem <= cfg.limit

(* A sequential call starts when the one before it has its result; with a  *)
(* limit the goroutine first sends to the semaphore, a send that no        *)
(* context interrupts; otherwise the goroutine just starts.                *)
CanStart(c) ==
  /\ pc[c] = "idle"
  /\ Sequential => \A d \in 1..(c - 1) : pc[d] = "done"
  /\ Limited => sem < cfg.limit

(* The supervisor goes on to wait in stage s and holds its token.          *)
Hold(c, s) ==
  /\ pc' = [pc EXCEPT ![c] = s]
  /\ sem' = IF Limited THEN sem + 1 ELSE sem

(* Mutant of Settle: whatever the outcome, the others are cancelled.        *)
SettleAlwaysCancels(c, o) ==
  /\ results' = [results EXCEPT ![c] = o]
  /\ pc' = [pc EXCEPT ![c] = "done"]
  /\ execDone' = (execDone \/ FailFast)

(* Mutant of Settle: an error does not cancel the others.                   *)
SettleNeverCancels(c, o) ==
  /\ results' = [results EXCEPT ![c] = o]
  /\ pc' = [pc EXCEPT ![c] = "done"]
  /\ UNCHANGED execDone

(* executeSingleTool returns o: the slot is filled, an error cancels the   *)
(* batch under fail-fast, and only then is the token given back.           *)
Settle(c, o) ==
  /\ results' = [results EXCEPT ![c] = o]
  /\ pc' = [pc EXCEPT ![c] = "done"]
  /\ execDone' = (execDone \/ (FailFast /\ IsError(o)))

(* Mutant of Release: the token is given back in every mode.                *)
ReleaseAlways == sem' = sem - 1

Release == sem' = IF Limited THEN sem - 1 ELSE sem

(* The outcome of a call that is refused or handed off without running.    *)
Verdict(k) ==
  CASE k = "handoff"        -> "handoff"
    [] k = "handoffDenied"  -> "notPermitted"
    [] k = "handoffUnknown" -> "notFound"
    [] k = "denied"         -> "notPermitted"
    [] k = "unknown"        -> "notFound"
    [] k = "approval"       -> "noApprover"

NeedsApproval(c) == call[c].kind = "approval" /\ cfg.approver # "none"

(* The token is taken and given back within the step.                      *)
RefuseOrHandoff(c) ==
  /\ CanStart(c)
  /\ call[c].kind # "plain"
  /\ ~NeedsApproval(c)
  /\ Settle(c, Verdict(call[c].kind))
  /\ UNCHANGED <<fixed, sem, answer, body, expired, runDone, returned>>

AskApproval(c) ==
  /\ CanStart(c)
  /\ NeedsApproval(c)
  /\ Hold(c, "approving")
  /\ UNCHANGED <<fixed, answer, body, expired, runDone, execDone, results, returned>>

(* Tool.Run starts the body whatever the state of the context.             *)
RunPlain(c) ==
  /\ CanStart(c)
  /\ call[c].kind = "plain"
  /\ Hold(c, "running")
  /\ body' = [body EXCEPT ![c] = "running"]
  /\ UNCHANGED <<fixed, answer, expired, runDone, execDone, results, returned>>

Approve(c) ==
  /\ pc[c] = "approving"
  /\ answer' = [answer EXCEPT ![c] = "yes"]
  /\ pc' = [pc EXCEPT ![c] = "running"]
  /\ body' = [body EXCEPT ![c] = "running"]
  /\ UNCHANGED <<fixed, sem, expired, runDone, execDone, results, returned>>

(* Mutant of Deny: the error of Approve is checked, its answer is not.      *)
DenyIgnored(c) ==
  /\ pc[c] = "approving"
  /\ answer' = [answer EXCEPT ![c] = "no"]
  /\ pc' = [pc EXCEPT ![c] = "running"]
  /\ body' = [body EXCEPT ![c] = "running"]
  /\ UNCHANGED <<fixed, sem, expired, runDone, execDone, results, returned>>

Deny(c) ==
  /\ pc[c] = "approving"
  /\ answer' = [answer EXCEPT ![c] = "no"]
  /\ Settle(c, "approvalDenied")
  /\ Release
  /\ UNCHANGED <<fixed, body, expired, runDone, returned>>

ApproverFails(c) ==
  /\ pc[c] = "approving"
  /\ answer' = [answer EXCEPT ![c] = "error"]
  /\ Settle(c, "approvalError")
  /\ Release
  /\ UNCHANGED <<fixed, body, expired, runDone, returned>>

(* The two cases of the select in Tool.Run; when both are ready either     *)
(* may be taken.                                                           *)
ReceiveResult(c) ==
  /\ pc[c] = "running"
  /\ body[c] \in {"ok", "failed"}
  /\ Settle(c, body[c])
  /\ Release
  /\ UNCHANGED <<fixed, answer, body, expired, runDone, returned>>

GiveUpOnBody(c) ==
  /\ pc[c] = "running"
  /\ ToolCtxDone(c)
  /\ Settle(c, "timeout")
  /\ Release
  /\ UNCHANGED <<fixed, answer, body, expired, runDone, returned>>

(* wg.Wait() is over; the deferred cancelExec runs.                        *)
Return ==
  /\ ~returned
  /\ \A c \in Calls : pc[c] = "done"
  /\ returned' = TRUE
  /\ execDone' = (execDone \/ FailFast)
  /\ UNCHANGED <<fixed, pc, sem, answer, body, expired, runDone, results>>

-----------------------------------------------------------------------------
(* The tool's function, the clock and the caller.                          *)

(* Mutant of BodyReturns: the function's goroutine writes to the slot of    *)
(* the call instead of a channel of its own.                                *)
BodyWritesSlot(c) ==
  /\ body[c] = "running"
  /\ \E o \in {"ok", "failed"} :
       /\ body' = [body EXCEPT ![c] = o]
       /\ results' = [results EXCEPT ![c] = o]
  /\ UNCHANGED <<fixed, pc, sem, answer, expired, runDone, execDone, returned>>

(* The function returns and its goroutine puts the result in the channel,  *)
(* which has room whether or not anybody still listens.                    *)
BodyReturns(c) ==
  /\ body[c] = "running"
  /\ \E o \in {"ok", "failed"} : body' = [body EXCEPT ![c] = o]
  /\ UNCHANGED <<fixed, pc, sem, answer, expired, runDone, execDone, results, returned>>

(* The tool's own timeout or the agent's default: it starts when the tool  *)
(* is run, so it does not cover the approval.                              *)
DeadlinePasses(c) ==
  /\ call[c].timed
  /\ pc[c] = "running"
  /\ c \notin expired
  /\ expired' = expired \union {c}
  /\ UNCHANGED <<fixed, pc, sem, answer, body, runDone, execDone, results, returned>>

CancelRun ==
  /\ ~runDone
  /\ ~returned
  /\ runDone' = TRUE
  /\ UNCHANGED <<fixed, pc, sem, answer, body, expired, execDone, results, returned>>

-----------------------------------------------------------------------------
(* Steps the scheduler owes to call c.                                     *)
Supervise(c) ==
  \/ RefuseOrHandoff(c)
  \/ AskApproval(c)
  \/ RunPlain(c)
  \/ ReceiveResult(c)
  \/ GiveUpOnBody(c)

ApproverHearsCtx(c) ==
  /\ cfg.approver = "ctx"
  /\ CtxDone
  /\ ApproverFails(c)

Next ==
  \/ \E c \in Calls :
       \/ RefuseOrHandoff(c)
       \/ AskApproval(c)
       \/ RunPlain(c)
       \/ Approve(c)
       \/ Deny(c)
       \/ ApproverFails(c)
       \/ ReceiveResult(c)
       \/ GiveUpOnBody(c)
       \/ BodyReturns(c)
       \/ DeadlinePasses(c)
  \/ Return
  \/ CancelRun

Spec == Init /\ [][Next]_vars

(* The Go scheduler runs every goroutine that can run and timers fire.     *)
(* An approver of kind "ctx" hears its context.  Nothing else obliges an   *)
(* approver to answer, a tool's function to return or a caller to cancel.  *)
Fairness ==
  /\ \A c \in UNION {DOMAIN case.call : case \in Cases} :
       /\ WF_vars(c \in Calls /\ Supervise(c))
       /\ WF_vars(c \in Calls /\ ApproverHearsCtx(c))
       /\ WF_vars(c \in Calls /\ DeadlinePasses(c))
  /\ WF_vars(Return)

FairSpec == Spec /\ Fairness

-----------------------------------------------------------------------------
(* Type invariant.                                                         *)
TypeOK ==
  /\ cfg \in Configs
  /\ call \in Seq(CallTypes)
  /\ pc \in [Calls -> Stages]
  /\ sem \in Nat
  /\ answer \in [Calls -> {"none", "yes", "no", "error"}]
  /\ body \in [Calls -> {"none", "running", "ok", "failed"}]
  /\ expired \subseteq Calls
  /\ runDone \in BOOLEAN
  /\ execDone \in BOOLEAN
  /\ results \in [Calls -> Outcomes \union {Empty}]
  /\ returned \in BOOLEAN

(* A tool's function runs only for a call that passed the permission check *)
(* and the look-up, and, when the tool requires it, only after an approver *)
(* said yes to that very call, in every interleaving of the approvals of   *)
(* the batch (executeSingleTool).                                          *)
OnlyVettedBodies ==
  \A c \in Calls : body[c] # "none" =>
    \/ call[c].kind = "plain"
    \/ call[c].kind = "approval" /\ answer[c] = "yes"

(* With ParallelN(n), no more than n calls are between the acquisition and *)
(* the release of the semaphore, and the channel holds exactly their       *)
(* tokens, so no release can block and none is lost on an error path.      *)
Holders == {c \in Calls : pc[c] \in {"approving", "running"}}

SemaphoreCounts ==
  Limited => /\ sem = Cardinality(Holders)
             /\ sem <= cfg.limit

(* A call is only reported as timed out for a reason: its own deadline, the *)
(* caller's cancellation, or, under fail-fast, another call of the batch    *)
(* that ended in an error before.  The cancellation deferred to the return  *)
(* of executeToolCalls is never the reason.                                 *)
TimeoutHasCause ==
  \A c \in Calls : results[c] = "timeout" =>
    \/ c \in expired
    \/ runDone
    \/ FailFast /\ \E d \in Calls \ {c} : pc[d] = "done" /\ IsError(results[d])

(* The outcomes a call of a kind may have under a configuration.           *)
OutcomesOf(k) ==
  IF k = "plain" THEN {"ok", "failed", "timeout"}
  ELSE IF k = "approval" /\ cfg.approver # "none"
       THEN {"ok", "failed", "timeout", "approvalDenied", "approvalError"}
       ELSE {Verdict(k)}

(* The goroutines implement what the runner's loop relies on: each call is *)
(* settled once, by an outcome of its kind, the results are returned when  *)
(* complete, and a body left behind never touches them.                    *)
Promise == INSTANCE ToolBatch
  WITH outcome <- results, delivered <- returned,
       Outcome <- Outcomes,
       possible <- [c \in Calls |-> OutcomesOf(call[c].kind)]

ImplementsToolBatch == Promise!BatchSpec

(* A run that is cancelled gets out of executeToolCalls even if no tool    *)
(* ever returns, unless it waits for an approver that ignores its context. *)
CancelledBatchReturns == (runDone /\ cfg.approver # "deaf") ~> returned

(* With fail-fast, one error is enough to get out of a parallel batch,     *)
(* although queued calls are still started and no other tool returns.      *)
FailFastReturns ==
  (FailFast /\ cfg.approver # "deaf" /\ \E c \in Calls :
     pc[c] = "done" /\ IsError(results[c])) ~> returned

(* Deadlines alone get the run out of a batch whose tools all hang, as     *)
(* long as nobody has to be asked.                                         *)
DeadlinesReturn ==
  (\A c \in Calls : call[c].timed /\ ~NeedsApproval(c)) ~> returned

(* A batch comes to an end for each of the three reasons the code gives it  *)
(* (runner.go, executeToolCalls and executeSingleTool; tool.go, Run): its   *)
(* context is done, a call failed under fail-fast, or the deadlines of the  *)
(* tools pass.                                                              *)
BatchReturns == CancelledBatchReturns /\ FailFastReturns /\ DeadlinesReturn

=============================================================================
