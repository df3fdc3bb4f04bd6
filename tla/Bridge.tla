------------------------------- MODULE Bridge -------------------------------
(***************************************************************************)
(* Bridge of bridge/bridge.go: it starts the connectors, merges their      *)
(* channels, and has a pool of goroutines run the agent on every message   *)
(* and send the answer back.  The goroutines share the conversations.      *)
(*                                                                         *)
(* A run of the agent (AgentRun) succeeds or fails here, and so does       *)
(* Send.  Of a connector there is what the bridge sees of it: a channel    *)
(* it fills, and usually closes when the context is cancelled.             *)
(***************************************************************************)
EXTENDS Naturals, Sequences, FiniteSets, Functions

CONSTANT Setups   \* the bridges, connectors and messages to consider

(* overflow: whether a message waits for room in the channel, is dropped   *)
(* when there is none, as those of most webhooks, or may be dropped at any *)
(* time, as those of a WebSocket, whose request context has ended.         *)
(* start: Start ends with its context ("ok"), can fail before its loop     *)
(* ("mayFail", the channel stays open), can end by itself later            *)
(* ("mayEnd"), or leaves the channel open for good ("forever").            *)
Connector == [overflow : {"wait", "drop", "mayDrop"},
              start : {"ok", "mayFail", "mayEnd", "forever"}]

(* Messages are numbered in the order in which they reach their connector. *)
(* convo: the session ID made of platform, sender and channel, buffer: the *)
(* capacity of every channel, 64 in the code, expires: whether a history   *)
(* can be older than the TTL.                                              *)
IsSetup(s) ==
  /\ s.connector \in [DOMAIN s.connector -> Connector]
  /\ s.message \in Seq([via : DOMAIN s.connector, convo : STRING])
  /\ s.concurrency \in Nat
  /\ s.maxHistory \in Nat
  /\ s.buffer \in Nat
  /\ s.expires \in BOOLEAN

ASSUME SetupsAssumption == \A s \in Setups : IsSetup(s)

VARIABLES
  setup,      \* the bridge and what it is connected to, fixed
  cancelled,  \* the context of Run is done
  conn,       \* conn[k]: where Start of connector k is
  inbox,      \* inbox[k]: the channel of connector k
  merged,     \* the channel all messages go through
  stage,      \* stage[m]: where message m is
  sem,        \* tokens in the semaphore channel
  convos,     \* the conversations, by session ID
  old,        \* those whose lastSeen is longer ago than the TTL
  returned    \* Run has returned

vars == <<setup, cancelled, conn, inbox, merged, stage, sem, convos, old, returned>>

Messages == DOMAIN setup.message
Connectors == DOMAIN setup.connector
Via(m) == setup.message[m].via
Convo(m) == setup.message[m].convo

(* A message is on its platform ("out"), in its connector's channel, in    *)
(* the hand of the goroutine that merges, in the merged channel, in the    *)
(* hand of the dispatcher, or with a goroutine of its own.                 *)
Handling == {"started", "running", "sending", "sent"}
Settled == {"dropped", "replied", "failed"}
Stages == {"out", "inbox", "forwarding", "merged", "dispatching"} \union Handling \union Settled

In(s) == {m \in Messages : stage[m] \in s}

Move(m, s) == stage' = [stage EXCEPT ![m] = s]

Entry(role, m) == [role |-> role, id |-> m]

Init ==
  /\ setup \in Setups
  /\ cancelled = FALSE
  /\ conn = [k \in Connectors |-> "starting"]
  /\ inbox = [k \in Connectors |-> <<>>]
  /\ merged = <<>>
  /\ stage = [m \in Messages |-> "out"]
  /\ sem = 0
  /\ convos = <<>>
  /\ old = {}
  /\ returned = FALSE

-----------------------------------------------------------------------------
(* The connectors.                                                         *)

Open(k) ==
  /\ conn[k] = "starting"
  /\ conn' = [conn EXCEPT ![k] = "open"]
  /\ UNCHANGED <<setup, cancelled, inbox, merged, stage, sem, convos, old, returned>>

(* Start returns an error, which nobody reads, and the channel stays open. *)
FailToStart(k) ==
  /\ conn[k] = "starting"
  /\ setup.connector[k].start = "mayFail"
  /\ conn' = [conn EXCEPT ![k] = "broken"]
  /\ UNCHANGED <<setup, cancelled, inbox, merged, stage, sem, convos, old, returned>>

Close(k) ==
  /\ conn[k] = "open"
  /\ \/ cancelled /\ setup.connector[k].start # "forever"
     \/ setup.connector[k].start = "mayEnd"
  /\ conn' = [conn EXCEPT ![k] = "closed"]
  /\ UNCHANGED <<setup, cancelled, inbox, merged, stage, sem, convos, old, returned>>

Arrives(m) ==
  /\ stage[m] = "out"
  /\ conn[Via(m)] = "open"
  /\ \A n \in 1..(m - 1) : Via(n) = Via(m) => stage[n] # "out"

Receive(m) ==
  /\ Arrives(m)
  /\ Len(inbox[Via(m)]) < setup.buffer
  /\ inbox' = [inbox EXCEPT ![Via(m)] = Append(@, m)]
  /\ Move(m, "inbox")
  /\ UNCHANGED <<setup, cancelled, conn, merged, sem, convos, old, returned>>

Drop(m) ==
  /\ Arrives(m)
  /\ \/ setup.connector[Via(m)].overflow = "drop" /\ Len(inbox[Via(m)]) = setup.buffer
     \/ setup.connector[Via(m)].overflow = "mayDrop"
  /\ Move(m, "dropped")
  /\ UNCHANGED <<setup, cancelled, conn, inbox, merged, sem, convos, old, returned>>

-----------------------------------------------------------------------------
(* The goroutines that merge the channels, and the dispatcher.             *)

Forwarding(k) == {m \in In({"forwarding"}) : Via(m) = k}

TakeFromInbox(k) ==
  /\ inbox[k] # <<>>
  /\ Forwarding(k) = {}
  /\ Move(Head(inbox[k]), "forwarding")
  /\ inbox' = [inbox EXCEPT ![k] = Tail(@)]
  /\ UNCHANGED <<setup, cancelled, conn, merged, sem, convos, old, returned>>

Forward(m) ==
  /\ stage[m] = "forwarding"
  /\ Len(merged) < setup.buffer
  /\ merged' = Append(merged, m)
  /\ Move(m, "merged")
  /\ UNCHANGED <<setup, cancelled, conn, inbox, sem, convos, old, returned>>

(* The merged channel is closed when every connector's channel is closed   *)
(* and emptied.                                                            *)
MergedClosed ==
  \A k \in Connectors : conn[k] = "closed" /\ inbox[k] = <<>> /\ Forwarding(k) = {}

TakeFromMerged ==
  /\ merged # <<>>
  /\ In({"dispatching"}) = {}
  /\ Move(Head(merged), "dispatching")
  /\ merged' = Tail(merged)
  /\ UNCHANGED <<setup, cancelled, conn, inbox, sem, convos, old, returned>>

(* Mutant of HasRoom: one goroutine less than allowed.                      *)
HasRoomToSpare == sem + 1 < setup.concurrency

HasRoom == sem < setup.concurrency

Dispatch(m) ==
  /\ stage[m] = "dispatching"
  /\ HasRoom
  /\ sem' = sem + 1
  /\ Move(m, "started")
  /\ UNCHANGED <<setup, cancelled, conn, inbox, merged, convos, old, returned>>

(* Mutant of Return: Run does not wait for the goroutines of the pool.      *)
ReturnAtOnce ==
  /\ ~returned
  /\ MergedClosed /\ merged = <<>> /\ In({"dispatching"}) = {}
  /\ returned' = TRUE
  /\ UNCHANGED <<setup, cancelled, conn, inbox, merged, stage, sem, convos, old>>

(* procWg.Wait is over.  Stop finds connectors that have ended.            *)
Return ==
  /\ ~returned
  /\ MergedClosed /\ merged = <<>> /\ In({"dispatching"} \union Handling) = {}
  /\ returned' = TRUE
  /\ UNCHANGED <<setup, cancelled, conn, inbox, merged, stage, sem, convos, old>>

-----------------------------------------------------------------------------
(* handleMessage                                                           *)

History(c) == IF c \in DOMAIN convos THEN convos[c] ELSE <<>>

SetHistory(c, h) ==
  convos' = [d \in DOMAIN convos \union {c} |-> IF d = c THEN h ELSE convos[d]]

(* Mutant of Trim: the history is not trimmed.                              *)
TrimNothing(h) == h

Trim(h) ==
  IF Len(h) <= setup.maxHistory THEN h
  ELSE SubSeq(h, Len(h) - setup.maxHistory + 1, Len(h))

(* The message joins the conversation, and the agent is run.               *)
Record(m) ==
  /\ stage[m] = "started"
  /\ SetHistory(Convo(m), Trim(Append(History(Convo(m)), Entry("user", m))))
  /\ old' = old \ {Convo(m)}
  /\ Move(m, "running")
  /\ UNCHANGED <<setup, cancelled, conn, inbox, merged, sem, returned>>

RunSucceeds(m) ==
  /\ stage[m] = "running"
  /\ Move(m, "sending")
  /\ UNCHANGED <<setup, cancelled, conn, inbox, merged, sem, convos, old, returned>>

(* Mutant of Fail: the early return does not give the token back.           *)
FailKeepsToken(m) ==
  /\ stage[m] \in {"running", "sending"}
  /\ Move(m, "failed")
  /\ UNCHANGED <<setup, cancelled, conn, inbox, merged, sem, convos, old, returned>>

(* Mutant of Fail: the early return gives the token back, so does the defer. *)
FailReleasesTwice(m) ==
  /\ stage[m] \in {"running", "sending"}
  /\ sem' = sem - 2
  /\ Move(m, "failed")
  /\ UNCHANGED <<setup, cancelled, conn, inbox, merged, convos, old, returned>>

(* The run or the sending of its answer fails: the error handler is told.  *)
Fail(m) ==
  /\ stage[m] \in {"running", "sending"}
  /\ sem' = sem - 1
  /\ Move(m, "failed")
  /\ UNCHANGED <<setup, cancelled, conn, inbox, merged, convos, old, returned>>

(* Mutant of SendReply: the slot is free before the answer is recorded.     *)
SendReplyAndRelease(m) ==
  /\ stage[m] = "sending"
  /\ sem' = sem - 1
  /\ Move(m, "sent")
  /\ UNCHANGED <<setup, cancelled, conn, inbox, merged, convos, old, returned>>

SendReply(m) ==
  /\ stage[m] = "sending"
  /\ Move(m, "sent")
  /\ UNCHANGED <<setup, cancelled, conn, inbox, merged, sem, convos, old, returned>>

(* Mutant of Answered: the question is recorded with its answer.            *)
AnsweredWithQuestion(m) == <<Entry("user", m), Entry("answer", m)>>

Answered(m) == <<Entry("answer", m)>>

(* The answer joins the conversation, unless that has expired meanwhile;   *)
(* nothing is trimmed.                                                     *)
StoreAnswer(m) ==
  /\ stage[m] = "sent"
  /\ IF Convo(m) \in DOMAIN convos
     THEN SetHistory(Convo(m), convos[Convo(m)] \o Answered(m))
     ELSE UNCHANGED convos
  /\ sem' = sem - 1
  /\ Move(m, "replied")
  /\ UNCHANGED <<setup, cancelled, conn, inbox, merged, old, returned>>

-----------------------------------------------------------------------------
(* The context and the clock.                                              *)

Cancel ==
  /\ ~cancelled
  /\ cancelled' = TRUE
  /\ UNCHANGED <<setup, conn, inbox, merged, stage, sem, convos, old, returned>>

GrowOld(c) ==
  /\ setup.expires
  /\ c \notin old
  /\ old' = old \union {c}
  /\ UNCHANGED <<setup, cancelled, conn, inbox, merged, stage, sem, convos, returned>>

(* The ticker of cleanupLoop may still be heard after the context is done. *)
Cleanup ==
  /\ old # {}
  /\ convos' = Restrict(convos, DOMAIN convos \ old)
  /\ old' = {}
  /\ UNCHANGED <<setup, cancelled, conn, inbox, merged, stage, sem, returned>>

-----------------------------------------------------------------------------
Handle(m) == Record(m) \/ RunSucceeds(m) \/ Fail(m) \/ SendReply(m) \/ StoreAnswer(m)

Next ==
  \/ \E k \in Connectors :
       \/ Open(k)
       \/ FailToStart(k)
       \/ Close(k)
       \/ TakeFromInbox(k)
  \/ \E m \in Messages :
       \/ Receive(m)
       \/ Drop(m)
       \/ Forward(m)
       \/ Dispatch(m)
       \/ Record(m)
       \/ RunSucceeds(m)
       \/ Fail(m)
       \/ SendReply(m)
       \/ StoreAnswer(m)
  \/ TakeFromMerged
  \/ Return
  \/ Cancel
  \/ \E c \in DOMAIN convos : GrowOld(c)
  \/ Cleanup

Spec == Init /\ [][Next]_vars

(* The scheduler runs every goroutine that can run; runs of the agent and  *)
(* calls of Send end, well or not; a connector hears its context.  Nobody  *)
(* owes the bridge a message, a cancellation or the end of a connector.    *)
Fairness ==
  /\ \A k \in UNION {DOMAIN s.connector : s \in Setups} :
       /\ WF_vars(k \in Connectors /\ (Open(k) \/ FailToStart(k)))
       /\ WF_vars(k \in Connectors /\ cancelled /\ Close(k))
       /\ WF_vars(k \in Connectors /\ TakeFromInbox(k))
  /\ \A m \in UNION {DOMAIN s.message : s \in Setups} :
       /\ WF_vars(m \in Messages /\ Forward(m))
       /\ WF_vars(m \in Messages /\ Dispatch(m))
       /\ WF_vars(m \in Messages /\ Handle(m))
  /\ WF_vars(TakeFromMerged)
  /\ WF_vars(Return)

FairSpec == Spec /\ Fairness

-----------------------------------------------------------------------------
(* Type invariant.                                                         *)
TypeOK ==
  /\ setup \in Setups
  /\ cancelled \in BOOLEAN
  /\ conn \in [Connectors -> {"starting", "open", "broken", "closed"}]
  /\ inbox \in [Connectors -> Seq(Messages)]
  /\ merged \in Seq(Messages)
  /\ stage \in [Messages -> Stages]
  /\ sem \in Nat
  /\ DOMAIN convos \subseteq {Convo(m) : m \in Messages}
  /\ \A c \in DOMAIN convos : convos[c] \in Seq([role : {"user", "answer"}, id : Messages])
  /\ old \subseteq DOMAIN convos
  /\ returned \in BOOLEAN

(* The semaphore holds the tokens of the messages that have a goroutine, on *)
(* whichever of its early returns one leaves, and no more than             *)
(* WithConcurrency allows (Run, handleMessage).                            *)
PoolCounts ==
  /\ sem = Cardinality(In(Handling))
  /\ sem <= setup.concurrency

(* The history of a conversation exceeds WithMaxHistory by the answers to   *)
(* messages that were handled at the same time, and by no more: a message  *)
(* trims it, an answer does not.                                           *)
Answering(c) == {m \in In(Handling \ {"started"}) : Convo(m) = c}

HistoryBounded ==
  \A c \in DOMAIN convos :
    Len(convos[c]) + Cardinality(Answering(c)) <= setup.maxHistory + setup.concurrency

(* However handlers interleave and histories expire, a conversation holds   *)
(* no question and no answer twice, none of another conversation, and no   *)
(* answer that was not sent.                                               *)
ConversationsConsistent ==
  \A c \in DOMAIN convos :
    /\ \A i, j \in DOMAIN convos[c] : convos[c][i] = convos[c][j] => i = j
    /\ \A i \in DOMAIN convos[c] :
         LET e == convos[c][i]
         IN  /\ Convo(e.id) = c
             /\ e.role = "user" => stage[e.id] \in {"running", "sending", "sent", "replied", "failed"}
             /\ e.role = "answer" => stage[e.id] = "replied"

(* With a concurrency of one, a conversation is a conversation: the         *)
(* messages of a connector in the order they came, and every answer right  *)
(* after its question.                                                     *)
SerialConversations ==
  setup.concurrency = 1 =>
    \A c \in DOMAIN convos : \A i \in DOMAIN convos[c] :
      LET e == convos[c][i]
      IN  /\ e.role = "answer" /\ i > 1 => convos[c][i - 1] = Entry("user", e.id)
          /\ \A j \in 1..(i - 1) :
               Via(convos[c][j].id) = Via(e.id) => convos[c][j].id <= e.id

(* The bridge implements the delivery of each message: taken once, settled  *)
(* once, and everything taken is settled when Run returns.                 *)
Status(s) ==
  CASE s = "out"                -> "out"
    [] s = "dropped"            -> "refused"
    [] s \in {"sent", "replied"} -> "replied"
    [] s = "failed"             -> "failed"
    [] OTHER                    -> "taken"

Promise == INSTANCE Delivery
  WITH status <- [m \in Messages |-> Status(stage[m])], ended <- returned

ImplementsDelivery == Promise!DeliverySpec

(* A message in a connector's channel is answered or reported, even when    *)
(* the context is cancelled first or another connector never starts.       *)
TakenIsSettled ==
  \A m \in UNION {DOMAIN s.message : s \in Setups} :
    (m \in Messages /\ stage[m] = "inbox" /\ setup.concurrency > 0)
      ~> (m \in Messages /\ stage[m] \in Settled)

(* A bridge ends once its context is done, if its connectors all started    *)
(* and heed their context: no full channel, pool or hand-over between the  *)
(* goroutines of Run holds it up.                                          *)
StopsWhenCancelled ==
  (cancelled /\ setup.concurrency > 0 /\ \A k \in Connectors : setup.connector[k].start \in {"ok", "mayEnd"})
    ~> returned

(* What the bridge has taken in it settles, and when it is told to stop it  *)
(* does (bridge.go, Run and handleMessage).                                 *)
BridgeCompletes == TakenIsSettled /\ StopsWhenCancelled

(* bridge.go, Run: "Blocks until ctx is cancelled", and no longer.          *)
BlocksUntilCancelled == cancelled ~> returned
=============================================================================
