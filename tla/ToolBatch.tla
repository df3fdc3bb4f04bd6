------------------------------ MODULE ToolBatch ------------------------------
(***************************************************************************)
(* What a caller of executeToolCalls is promised, whatever the concurrency *)
(* mode: every tool call of the response is settled exactly once, with an  *)
(* outcome its kind allows, and the slice of results is handed over only   *)
(* when it is complete and never changes afterwards.                       *)
(*                                                                         *)
(* The runner's loop relies on this and on nothing else.  ToolExec, the    *)
(* detailed model of the goroutines, is shown to implement it.             *)
(***************************************************************************)
EXTENDS Sequences

CONSTANT Outcome    \* the outcomes a call may have

VARIABLES
  possible,   \* possible[c]: the outcomes call c of the response may have, fixed
  outcome,    \* outcome[c]: the settled outcome of call c, or Unsettled
  delivered   \* the runner holds the results

batchVars == <<possible, outcome, delivered>>

Batch == DOMAIN possible

Unsettled == "unsettled"

BatchInit ==
  /\ possible \in Seq(SUBSET Outcome)
  /\ outcome = [c \in Batch |-> Unsettled]
  /\ delivered = FALSE

Settle(c) ==
  /\ ~delivered
  /\ outcome[c] = Unsettled
  /\ \E o \in possible[c] : outcome' = [outcome EXCEPT ![c] = o]
  /\ UNCHANGED <<possible, delivered>>

Deliver ==
  /\ ~delivered
  /\ \A c \in Batch : outcome[c] # Unsettled
  /\ delivered' = TRUE
  /\ UNCHANGED <<possible, outcome>>

BatchNext ==
  \/ \E c \in Batch : Settle(c)
  \/ Deliver

BatchSpec == BatchInit /\ [][BatchNext]_batchVars

=============================================================================
