---------------------------- MODULE Bridge_proofs ----------------------------
(* Proofs about Bridge, for any connectors, messages and bounds.           *)
EXTENDS Bridge, FiniteSetTheorems, TLAPS

(***************************************************************************)
(* What the setup fixes.                                                   *)
(***************************************************************************)
LEMMA ElementOf ==
  ASSUME NEW S, NEW s \in Seq(S), NEW i \in DOMAIN s
  PROVE  s[i] \in S
PROOF OBVIOUS

LEMMA SetupFacts ==
  ASSUME setup \in Setups
  PROVE  /\ Messages = 1..Len(setup.message)
         /\ Len(setup.message) \in Nat
         /\ IsFiniteSet(Messages)
         /\ \A m \in Messages : Via(m) \in Connectors /\ m \in Nat
         /\ setup.concurrency \in Nat /\ setup.maxHistory \in Nat /\ setup.buffer \in Nat
PROOF
  <1>1. IsSetup(setup)
    BY SetupsAssumption
  <1>2. /\ setup.message \in Seq([via : Connectors, convo : STRING])
        /\ setup.concurrency \in Nat /\ setup.maxHistory \in Nat /\ setup.buffer \in Nat
    BY <1>1 DEF IsSetup, Connectors
  <1>3. Messages = 1..Len(setup.message) /\ Len(setup.message) \in Nat
    BY <1>2 DEF Messages
  <1>4. IsFiniteSet(Messages)
    BY <1>3, FS_Interval
  <1>5. ASSUME NEW m \in Messages PROVE Via(m) \in Connectors /\ m \in Nat
    <2>1. setup.message[m] \in [via : Connectors, convo : STRING]
      <3> DEFINE S == [via : Connectors, convo : STRING]
      <3>1. setup.message \in Seq(S) /\ m \in DOMAIN setup.message
        BY <1>2 DEF Messages
      <3> HIDE DEF S
      <3>2. setup.message[m] \in S
        BY <3>1, ElementOf
      <3>3. QED BY <3>2 DEF S
    <2>2. QED BY <2>1, <1>3 DEF Via
  <1>6. QED BY <1>2, <1>3, <1>4, <1>5

LEMMA SameSetup == Next => UNCHANGED setup
PROOF
  BY DEF Next, Open, FailToStart, Close, TakeFromInbox, Receive, Drop, Forward, Dispatch,
         Record, RunSucceeds, Fail, SendReply, StoreAnswer, TakeFromMerged, Return,
         Cancel, GrowOld, Cleanup

(***************************************************************************)
(* Every action is a step of the connectors or the clock, which moves no   *)
(* message, or it moves one.                                               *)
(***************************************************************************)
Aside ==
  \/ \E k \in Connectors : Open(k) \/ FailToStart(k) \/ Close(k)
  \/ Cancel
  \/ \E c \in DOMAIN convos : GrowOld(c)
  \/ Cleanup

LEMMA AsideEffect == Aside => UNCHANGED <<setup, inbox, merged, stage, sem, returned>>
PROOF BY DEF Aside, Open, FailToStart, Close, Cancel, GrowOld, Cleanup

LEMMA NextCases ==
  Next <=> \/ Aside
           \/ Return
           \/ \E k \in Connectors : TakeFromInbox(k)
           \/ TakeFromMerged
           \/ \E m \in Messages :
                \/ Receive(m) \/ Drop(m) \/ Forward(m) \/ Dispatch(m) \/ Handle(m)
PROOF BY DEF Next, Aside, Handle

(***************************************************************************)
(* The queues: what they hold is in the stage of their messages, once.     *)
(***************************************************************************)
Injective(s) == \A i, j \in DOMAIN s : s[i] = s[j] => i = j

Holds(s, m) == \E i \in DOMAIN s : s[i] = m

QueueTypes ==
  /\ setup \in Setups
  /\ conn \in [Connectors -> {"starting", "open", "broken", "closed"}]
  /\ inbox \in [Connectors -> Seq(Messages)]
  /\ merged \in Seq(Messages)
  /\ stage \in [Messages -> Stages]
  /\ returned \in BOOLEAN

QueuesAgree ==
  /\ \A k \in Connectors :
       /\ Injective(inbox[k])
       /\ \A m \in Messages : Holds(inbox[k], m) <=> stage[m] = "inbox" /\ Via(m) = k
  /\ Injective(merged)
  /\ \A m \in Messages : Holds(merged, m) <=> stage[m] = "merged"

(* Once Run has returned, nothing is left to be done.                      *)
NothingLeft ==
  returned => /\ \A k \in Connectors : conn[k] = "closed"
              /\ \A m \in Messages : stage[m] \in {"out"} \union Settled

QueueInv == QueueTypes /\ QueuesAgree /\ NothingLeft

LEMMA AppendQueue ==
  ASSUME NEW S, NEW s \in Seq(S), NEW e \in S, Injective(s), ~Holds(s, e)
  PROVE  /\ Append(s, e) \in Seq(S)
         /\ Injective(Append(s, e))
         /\ \A x \in S : Holds(Append(s, e), x) <=> Holds(s, x) \/ x = e
PROOF
  <1>1. /\ Append(s, e) \in Seq(S)
        /\ DOMAIN Append(s, e) = 1..(Len(s) + 1)
        /\ DOMAIN s = 1..Len(s) /\ Len(s) \in Nat
        /\ \A i \in 1..Len(s) : Append(s, e)[i] = s[i]
        /\ Append(s, e)[Len(s) + 1] = e
    OBVIOUS
  <1>2. Injective(Append(s, e))
    BY <1>1 DEF Injective, Holds
  <1>3. ASSUME NEW x \in S PROVE Holds(Append(s, e), x) <=> Holds(s, x) \/ x = e
    <2>1. Len(s) + 1 \in 1..(Len(s) + 1)
      BY <1>1
    <2>2. QED BY <2>1, <1>1 DEF Holds
  <1>4. QED BY <1>1, <1>2, <1>3

LEMMA TailQueue ==
  ASSUME NEW S, NEW s \in Seq(S), s # <<>>, Injective(s)
  PROVE  /\ Tail(s) \in Seq(S)
         /\ Head(s) \in S
         /\ Holds(s, Head(s))
         /\ Injective(Tail(s))
         /\ \A x \in S : Holds(Tail(s), x) <=> Holds(s, x) /\ x # Head(s)
PROOF
  <1>1. /\ Tail(s) \in Seq(S)
        /\ Len(s) \in Nat \ {0}
        /\ DOMAIN s = 1..Len(s)
        /\ DOMAIN Tail(s) = 1..(Len(s) - 1)
        /\ \A i \in 1..(Len(s) - 1) : Tail(s)[i] = s[i + 1]
        /\ Head(s) = s[1]
        /\ Head(s) \in S
    OBVIOUS
  <1>2. Holds(s, Head(s))
    BY <1>1 DEF Holds
  <1>3. Injective(Tail(s))
    BY <1>1 DEF Injective
  <1>4. ASSUME NEW x \in S PROVE Holds(Tail(s), x) <=> Holds(s, x) /\ x # Head(s)
    <2>1. ASSUME Holds(Tail(s), x) PROVE Holds(s, x) /\ x # Head(s)
      <3>1. PICK i \in 1..(Len(s) - 1) : s[i + 1] = x
        BY <2>1, <1>1 DEF Holds
      <3>2. i + 1 \in DOMAIN s /\ i + 1 # 1 /\ 1 \in DOMAIN s
        BY <1>1
      <3>3. QED BY <3>1, <3>2, <1>1 DEF Holds, Injective
    <2>2. ASSUME Holds(s, x), x # Head(s) PROVE Holds(Tail(s), x)
      <3>1. PICK i \in 1..Len(s) : s[i] = x
        BY <2>2, <1>1 DEF Holds
      <3>2. i # 1
        BY <3>1, <2>2, <1>1
      <3>3. i - 1 \in 1..(Len(s) - 1) /\ (i - 1) + 1 = i
        BY <3>2, <1>1
      <3>4. Tail(s)[i - 1] = x
        BY <3>1, <3>3, <1>1
      <3>5. QED BY <3>3, <3>4, <1>1 DEF Holds
    <2>3. QED BY <2>1, <2>2
  <1>5. QED BY <1>1, <1>2, <1>3, <1>4

LEMMA InitQueueInv == Init => QueueInv
PROOF
  <1> SUFFICES ASSUME Init PROVE QueueInv
    OBVIOUS
  <1>1. QueueTypes
    <2>1. stage \in [Messages -> Stages]
      BY DEF Init, Stages
    <2>2. inbox \in [Connectors -> Seq(Messages)] /\ merged \in Seq(Messages)
      BY DEF Init
    <2>3. QED BY <2>1, <2>2 DEF Init, QueueTypes
  <1>2. QueuesAgree
    BY <1>1 DEF Init, QueuesAgree, QueueTypes, Injective, Holds
  <1>3. NothingLeft
    BY DEF Init, NothingLeft
  <1>4. QED BY <1>1, <1>2, <1>3 DEF QueueInv

(* Only the connectors that are open receive, so none does when Run has    *)
(* returned, and nothing else is on the way.                               *)
LEMMA BusyNotReturned ==
  ASSUME QueueInv, NEW m \in Messages,
         \/ stage[m] \in {"inbox", "forwarding", "merged", "dispatching"} \union Handling
         \/ conn[Via(m)] = "open"
  PROVE  ~returned
PROOF
  BY SetupFacts DEF QueueInv, QueueTypes, NothingLeft, Handling, Settled

LEMMA ReceiveKeeps ==
  ASSUME QueueInv, NEW m \in Messages, Receive(m)
  PROVE  QueueInv'
PROOF
  <1> DEFINE k == Via(m)
  <1>1. k \in Connectors /\ ~returned
    BY BusyNotReturned, SetupFacts DEF QueueInv, QueueTypes, Receive, Arrives
  <1>2. /\ inbox[k] \in Seq(Messages)
        /\ Injective(inbox[k])
        /\ ~Holds(inbox[k], m)
    BY <1>1 DEF QueueInv, QueueTypes, QueuesAgree, Receive, Arrives
  <1>3. /\ Append(inbox[k], m) \in Seq(Messages)
        /\ Injective(Append(inbox[k], m))
        /\ \A x \in Messages : Holds(Append(inbox[k], m), x) <=> Holds(inbox[k], x) \/ x = m
    BY <1>2, AppendQueue
  <1>4. /\ inbox' = [inbox EXCEPT ![k] = Append(inbox[k], m)]
        /\ stage' = [stage EXCEPT ![m] = "inbox"]
        /\ UNCHANGED <<setup, conn, merged, returned>>
    BY DEF Receive, Move
  <1>5. Messages' = Messages /\ Connectors' = Connectors /\ \A x : Via(x)' = Via(x)
    BY <1>4 DEF Messages, Connectors, Via
  <1> HIDE DEF k
  <1>6. QueueTypes'
    BY <1>1, <1>3, <1>4, <1>5 DEF QueueInv, QueueTypes, Stages
  <1>7. stage[m] = "out" /\ Via(m) = k
    BY DEF Receive, Arrives, k
  <1>8. QueuesAgree'
    BY <1>1, <1>3, <1>4, <1>5, <1>7 DEF QueueInv, QueueTypes, QueuesAgree
  <1>9. NothingLeft'
    BY <1>1, <1>4 DEF NothingLeft
  <1>10. QED BY <1>6, <1>8, <1>9 DEF QueueInv

LEMMA TakeFromInboxKeeps ==
  ASSUME QueueInv, NEW k \in Connectors, TakeFromInbox(k)
  PROVE  QueueInv'
PROOF
  <1> DEFINE m == Head(inbox[k])
  <1>1. inbox[k] \in Seq(Messages) /\ Injective(inbox[k]) /\ inbox[k] # <<>>
    BY DEF QueueInv, QueueTypes, QueuesAgree, TakeFromInbox
  <1>2. /\ Tail(inbox[k]) \in Seq(Messages)
        /\ m \in Messages
        /\ Holds(inbox[k], m)
        /\ Injective(Tail(inbox[k]))
        /\ \A x \in Messages : Holds(Tail(inbox[k]), x) <=> Holds(inbox[k], x) /\ x # m
    BY <1>1, TailQueue
  <1>3. stage[m] = "inbox" /\ Via(m) = k
    BY <1>2 DEF QueueInv, QueuesAgree
  <1>4. /\ inbox' = [inbox EXCEPT ![k] = Tail(inbox[k])]
        /\ stage' = [stage EXCEPT ![m] = "forwarding"]
        /\ UNCHANGED <<setup, conn, merged, returned>>
    BY DEF TakeFromInbox, Move
  <1>5. Messages' = Messages /\ Connectors' = Connectors /\ \A x : Via(x)' = Via(x)
    BY <1>4 DEF Messages, Connectors, Via
  <1>6. ~returned
    BY <1>2, <1>3, BusyNotReturned
  <1> HIDE DEF m
  <1>7. QueueTypes'
    BY <1>2, <1>4, <1>5 DEF QueueInv, QueueTypes, Stages
  <1>8. QueuesAgree'
    BY <1>2, <1>3, <1>4, <1>5 DEF QueueInv, QueueTypes, QueuesAgree
  <1>9. NothingLeft'
    BY <1>6, <1>4 DEF NothingLeft
  <1>10. QED BY <1>7, <1>8, <1>9 DEF QueueInv

LEMMA ForwardKeeps ==
  ASSUME QueueInv, NEW m \in Messages, Forward(m)
  PROVE  QueueInv'
PROOF
  <1>1. ~returned
    BY BusyNotReturned DEF Forward
  <1>2. merged \in Seq(Messages) /\ Injective(merged) /\ ~Holds(merged, m)
    BY DEF QueueInv, QueueTypes, QueuesAgree, Forward
  <1>3. /\ Append(merged, m) \in Seq(Messages)
        /\ Injective(Append(merged, m))
        /\ \A x \in Messages : Holds(Append(merged, m), x) <=> Holds(merged, x) \/ x = m
    BY <1>2, AppendQueue
  <1>4. /\ merged' = Append(merged, m)
        /\ stage' = [stage EXCEPT ![m] = "merged"]
        /\ stage[m] = "forwarding"
        /\ UNCHANGED <<setup, conn, inbox, returned>>
    BY DEF Forward, Move
  <1>5. Messages' = Messages /\ Connectors' = Connectors /\ \A x : Via(x)' = Via(x)
    BY <1>4 DEF Messages, Connectors, Via
  <1>6. QueueTypes'
    BY <1>3, <1>4, <1>5 DEF QueueInv, QueueTypes, Stages
  <1>7. QueuesAgree'
    BY <1>3, <1>4, <1>5 DEF QueueInv, QueueTypes, QueuesAgree
  <1>8. NothingLeft'
    BY <1>1, <1>4 DEF NothingLeft
  <1>9. QED BY <1>6, <1>7, <1>8 DEF QueueInv

LEMMA TakeFromMergedKeeps ==
  ASSUME QueueInv, TakeFromMerged
  PROVE  QueueInv'
PROOF
  <1> DEFINE m == Head(merged)
  <1>1. merged \in Seq(Messages) /\ Injective(merged) /\ merged # <<>>
    BY DEF QueueInv, QueueTypes, QueuesAgree, TakeFromMerged
  <1>2. /\ Tail(merged) \in Seq(Messages)
        /\ m \in Messages
        /\ Holds(merged, m)
        /\ Injective(Tail(merged))
        /\ \A x \in Messages : Holds(Tail(merged), x) <=> Holds(merged, x) /\ x # m
    BY <1>1, TailQueue
  <1>3. stage[m] = "merged"
    BY <1>2 DEF QueueInv, QueuesAgree
  <1>4. /\ merged' = Tail(merged)
        /\ stage' = [stage EXCEPT ![m] = "dispatching"]
        /\ UNCHANGED <<setup, conn, inbox, returned>>
    BY DEF TakeFromMerged, Move
  <1>5. Messages' = Messages /\ Connectors' = Connectors /\ \A x : Via(x)' = Via(x)
    BY <1>4 DEF Messages, Connectors, Via
  <1>6. ~returned
    BY <1>2, <1>3, BusyNotReturned
  <1> HIDE DEF m
  <1>7. QueueTypes'
    BY <1>2, <1>4, <1>5 DEF QueueInv, QueueTypes, Stages
  <1>8. QueuesAgree'
    BY <1>2, <1>3, <1>4, <1>5 DEF QueueInv, QueueTypes, QueuesAgree
  <1>9. NothingLeft'
    BY <1>6, <1>4 DEF NothingLeft
  <1>10. QED BY <1>7, <1>8, <1>9 DEF QueueInv

(* The remaining steps of a message touch no queue.                        *)
LEMMA OffQueueKeeps ==
  ASSUME QueueInv, NEW m \in Messages, ~returned,
         stage[m] \notin {"inbox", "merged"},
         NEW s \in Stages \ {"inbox", "merged"},
         stage' = [stage EXCEPT ![m] = s],
         UNCHANGED <<setup, conn, inbox, merged, returned>>
  PROVE  QueueInv'
PROOF
  <1>1. Messages' = Messages /\ Connectors' = Connectors /\ \A x : Via(x)' = Via(x)
    BY DEF Messages, Connectors, Via
  <1>2. QueueTypes'
    BY <1>1 DEF QueueInv, QueueTypes
  <1>3. QueuesAgree'
    BY <1>1 DEF QueueInv, QueueTypes, QueuesAgree
  <1>4. NothingLeft'
    BY DEF NothingLeft
  <1>5. QED BY <1>2, <1>3, <1>4 DEF QueueInv

(* What moves a message from a to b without touching the queues.           *)
LEMMA OffQueueSteps ==
  ASSUME NEW m, Drop(m) \/ Dispatch(m) \/ Handle(m)
  PROVE  /\ \/ stage[m] = "out" /\ conn[Via(m)] = "open"
            \/ stage[m] \in {"dispatching"} \union Handling
         /\ \E s \in Handling \union Settled : stage' = [stage EXCEPT ![m] = s]
         /\ UNCHANGED <<setup, conn, inbox, merged, returned>>
PROOF
  BY DEF Drop, Arrives, Dispatch, Handle, Record, RunSucceeds, Fail, SendReply,
         StoreAnswer, Move, Handling, Settled

LEMMA ReturnKeeps ==
  ASSUME QueueInv, Return
  PROVE  QueueInv'
PROOF
  <1>1. /\ UNCHANGED <<setup, conn, inbox, merged, stage>>
        /\ returned' = TRUE
        /\ MergedClosed /\ merged = <<>>
        /\ \A m \in Messages : stage[m] \notin {"dispatching"} \union Handling
    BY DEF Return, In
  <1>2. Messages' = Messages /\ Connectors' = Connectors /\ \A x : Via(x)' = Via(x)
    BY <1>1 DEF Messages, Connectors, Via
  <1>3. ASSUME NEW m \in Messages PROVE stage[m] \in {"out"} \union Settled
    <2>1. Via(m) \in Connectors
      BY SetupFacts DEF QueueInv, QueueTypes
    <2>2. stage[m] # "inbox"
      BY <2>1, <1>1 DEF QueueInv, QueuesAgree, MergedClosed, Holds
    <2>3. stage[m] # "forwarding"
      BY <2>1, <1>1 DEF MergedClosed, Forwarding, In
    <2>4. stage[m] # "merged"
      BY <1>1 DEF QueueInv, QueuesAgree, Holds
    <2>5. QED BY <1>1, <2>2, <2>3, <2>4 DEF QueueInv, QueueTypes, Stages
  <1>4. QueueTypes' /\ QueuesAgree'
    BY <1>1, <1>2 DEF QueueInv, QueueTypes, QueuesAgree
  <1>5. NothingLeft'
    BY <1>1, <1>2, <1>3 DEF NothingLeft, MergedClosed
  <1>6. QED BY <1>4, <1>5 DEF QueueInv

LEMMA AsideKeeps ==
  ASSUME QueueInv, Aside
  PROVE  QueueInv'
PROOF
  <1>1. UNCHANGED <<setup, inbox, merged, stage, returned>>
    BY AsideEffect
  <1>2. Messages' = Messages /\ Connectors' = Connectors /\ \A x : Via(x)' = Via(x)
    BY <1>1 DEF Messages, Connectors, Via
  <1>3. conn' \in [Connectors -> {"starting", "open", "broken", "closed"}]
    BY DEF QueueInv, QueueTypes, Aside, Open, FailToStart, Close, Cancel, GrowOld, Cleanup
  <1>4. returned => conn' = conn
    BY DEF QueueInv, QueueTypes, NothingLeft, Aside, Open, FailToStart, Close, Cancel, GrowOld, Cleanup
  <1>5. QED BY <1>1, <1>2, <1>3, <1>4 DEF QueueInv, QueueTypes, QueuesAgree, NothingLeft

LEMMA NextQueueInv == QueueInv /\ [Next]_vars => QueueInv'
PROOF
  <1> SUFFICES ASSUME QueueInv, [Next]_vars PROVE QueueInv'
    OBVIOUS
  <1>1. CASE Aside
    BY <1>1, AsideKeeps
  <1>2. CASE Return
    BY <1>2, ReturnKeeps
  <1>3. CASE \E k \in Connectors : TakeFromInbox(k)
    BY <1>3, TakeFromInboxKeeps
  <1>4. CASE TakeFromMerged
    BY <1>4, TakeFromMergedKeeps
  <1>5. ASSUME NEW m \in Messages, Receive(m) PROVE QueueInv'
    BY <1>5, ReceiveKeeps
  <1>6. ASSUME NEW m \in Messages, Forward(m) PROVE QueueInv'
    BY <1>6, ForwardKeeps
  <1>7. ASSUME NEW m \in Messages, Drop(m) \/ Dispatch(m) \/ Handle(m) PROVE QueueInv'
    <2>1. /\ \/ stage[m] = "out" /\ conn[Via(m)] = "open"
             \/ stage[m] \in {"dispatching"} \union Handling
          /\ UNCHANGED <<setup, conn, inbox, merged, returned>>
      BY <1>7, OffQueueSteps
    <2>2. PICK s \in Handling \union Settled : stage' = [stage EXCEPT ![m] = s]
      BY <1>7, OffQueueSteps
    <2>3. s \in Stages \ {"inbox", "merged"} /\ stage[m] \notin {"inbox", "merged"}
      BY <2>1, <2>2 DEF Stages, Handling, Settled
    <2>4. ~returned
      BY <2>1, BusyNotReturned
    <2>5. QED BY <2>1, <2>2, <2>3, <2>4, OffQueueKeeps
  <1>8. CASE UNCHANGED vars
    <2>1. UNCHANGED <<setup, conn, inbox, merged, stage, returned>>
      BY <1>8 DEF vars
    <2>2. Messages' = Messages /\ Connectors' = Connectors /\ \A x : Via(x)' = Via(x)
      BY <2>1 DEF Messages, Connectors, Via
    <2>3. QED BY <2>1, <2>2 DEF QueueInv, QueueTypes, QueuesAgree, NothingLeft
  <1>9. QED BY <1>1, <1>2, <1>3, <1>4, <1>5, <1>6, <1>7, <1>8, NextCases

(***************************************************************************)
(* The pool: the semaphore counts the messages that have a goroutine.      *)
(***************************************************************************)
PoolInv == sem \in Nat /\ PoolCounts

LEMMA HandlingFinite ==
  ASSUME QueueInv
  PROVE  IsFiniteSet(In(Handling)) /\ Cardinality(In(Handling)) \in Nat
PROOF
  <1>1. IsFiniteSet(Messages) /\ In(Handling) \subseteq Messages
    BY SetupFacts DEF QueueInv, QueueTypes, In
  <1>2. QED BY <1>1, FS_Subset, FS_CardinalityType

(* Which messages have a goroutine after one of them moved.                *)
LEMMA HandlingMoves ==
  ASSUME QueueInv, NEW m \in Messages, NEW s,
         stage' = [stage EXCEPT ![m] = s], UNCHANGED setup
  PROVE  /\ s \in Handling => In(Handling)' = In(Handling) \union {m}
         /\ s \notin Handling => In(Handling)' = In(Handling) \ {m}
PROOF
  <1>1. Messages' = Messages /\ Handling' = Handling
    BY DEF Messages, Handling
  <1>2. \A n \in Messages : stage'[n] = IF n = m THEN s ELSE stage[n]
    BY DEF QueueInv, QueueTypes
  <1>3. QED BY <1>1, <1>2 DEF In

LEMMA NextPoolInv == QueueInv /\ PoolInv /\ [Next]_vars => PoolInv'
PROOF
  <1> SUFFICES ASSUME QueueInv, PoolInv, [Next]_vars PROVE PoolInv'
    OBVIOUS
  <1> USE DEF PoolInv, PoolCounts
  <1>1. IsFiniteSet(In(Handling)) /\ Cardinality(In(Handling)) \in Nat
    BY HandlingFinite
  <1>2. setup.concurrency \in Nat /\ setup' = setup
    BY SetupFacts, SameSetup DEF QueueInv, QueueTypes, vars
  <1>3. ASSUME UNCHANGED <<stage, sem>> PROVE PoolInv'
    BY <1>2, <1>3 DEF In, Messages, Handling
  <1>4. ASSUME NEW m \in Messages, NEW s, stage' = [stage EXCEPT ![m] = s],
               s \notin Handling, stage[m] \notin Handling, UNCHANGED sem
        PROVE  PoolInv'
    <2>1. In(Handling)' = In(Handling) \ {m}
      BY <1>2, <1>4, HandlingMoves
    <2>2. m \notin In(Handling)
      BY <1>4 DEF In
    <2>3. QED BY <1>2, <1>4, <2>1, <2>2
  <1>5. ASSUME NEW m \in Messages, NEW s \in Handling, stage' = [stage EXCEPT ![m] = s],
               stage[m] \in Handling, UNCHANGED sem
        PROVE  PoolInv'
    <2>1. In(Handling)' = In(Handling) \union {m}
      BY <1>2, <1>5, HandlingMoves
    <2>2. m \in In(Handling)
      BY <1>5 DEF In
    <2>3. QED BY <1>2, <1>5, <2>1, <2>2
  <1>6. ASSUME NEW m \in Messages, Dispatch(m) PROVE PoolInv'
    <2>1. In(Handling)' = In(Handling) \union {m} /\ m \notin In(Handling)
      BY <1>2, <1>6, HandlingMoves DEF Dispatch, Move, Handling, In
    <2>2. Cardinality(In(Handling)') = Cardinality(In(Handling)) + 1
      BY <1>1, <2>1, FS_AddElement
    <2>3. QED BY <1>1, <1>2, <1>6, <2>1, <2>2 DEF Dispatch, HasRoom
  <1>7. ASSUME NEW m \in Messages, Fail(m) \/ StoreAnswer(m) PROVE PoolInv'
    <2>1. PICK s \in {"failed", "replied"} : stage' = [stage EXCEPT ![m] = s]
      BY <1>7 DEF Fail, StoreAnswer, Move
    <2>2. s \notin Handling /\ m \in In(Handling)
      BY <1>7 DEF Fail, StoreAnswer, Handling, In
    <2>3. In(Handling)' = In(Handling) \ {m}
      BY <1>2, <2>1, <2>2, HandlingMoves
    <2>4. /\ IsFiniteSet(In(Handling)')
          /\ Cardinality(In(Handling)') = Cardinality(In(Handling)) - 1
      BY <1>1, <2>2, <2>3, FS_RemoveElement
    <2>5. Cardinality(In(Handling)') \in Nat
      BY <2>4, FS_CardinalityType
    <2>6. sem' = sem - 1
      BY <1>7 DEF Fail, StoreAnswer
    <2>7. QED BY <1>1, <1>2, <2>4, <2>5, <2>6
  <1>8. ASSUME NEW m \in Messages, Record(m) \/ RunSucceeds(m) \/ SendReply(m) PROVE PoolInv'
    BY <1>5, <1>8 DEF Record, RunSucceeds, SendReply, Move, Handling
  <1>9. ASSUME NEW m \in Messages, Receive(m) \/ Drop(m) \/ Forward(m) PROVE PoolInv'
    BY <1>4, <1>9 DEF Receive, Drop, Forward, Arrives, Move, Handling
  <1>10. ASSUME NEW k \in Connectors, TakeFromInbox(k) PROVE PoolInv'
    <2>1. inbox[k] \in Seq(Messages) /\ inbox[k] # <<>> /\ Injective(inbox[k])
      BY <1>10 DEF TakeFromInbox, QueueInv, QueueTypes, QueuesAgree
    <2>2. Head(inbox[k]) \in Messages /\ Holds(inbox[k], Head(inbox[k]))
      BY <2>1, TailQueue
    <2>3. stage[Head(inbox[k])] = "inbox"
      BY <2>2 DEF QueueInv, QueuesAgree
    <2>4. QED BY <1>4, <1>10, <2>2, <2>3 DEF TakeFromInbox, Move, Handling
  <1>11. CASE TakeFromMerged
    <2>1. merged \in Seq(Messages) /\ merged # <<>> /\ Injective(merged)
      BY <1>11 DEF TakeFromMerged, QueueInv, QueueTypes, QueuesAgree
    <2>2. Head(merged) \in Messages /\ Holds(merged, Head(merged))
      BY <2>1, TailQueue
    <2>3. stage[Head(merged)] = "merged"
      BY <2>2 DEF QueueInv, QueuesAgree
    <2>4. QED BY <1>4, <1>11, <2>2, <2>3 DEF TakeFromMerged, Move, Handling
  <1>12. CASE Aside \/ Return \/ UNCHANGED vars
    BY <1>3, <1>12, AsideEffect DEF Return, vars
  <1>13. QED BY <1>6, <1>7, <1>8, <1>9, <1>10, <1>11, <1>12, NextCases DEF Handle

(***************************************************************************)
(* The conversations.                                                      *)
(***************************************************************************)
Entries == [role : {"user", "answer"}, id : Messages]

ConvoTypes ==
  /\ cancelled \in BOOLEAN
  /\ DOMAIN convos \subseteq {Convo(m) : m \in Messages}
  /\ \A c \in DOMAIN convos : convos[c] \in Seq(Entries)
  /\ old \subseteq DOMAIN convos

ConvoInv == ConvoTypes /\ HistoryBounded /\ ConversationsConsistent

Recorded == {"running", "sending", "sent", "replied", "failed"}

(* The entry belongs to conversation c and is no earlier than its message. *)
Fits(st, e, c) ==
  /\ Convo(e.id) = c
  /\ e.role = "user" => st[e.id] \in Recorded
  /\ e.role = "answer" => st[e.id] = "replied"

FitsAll(st, h, c) == Injective(h) /\ \A i \in DOMAIN h : Fits(st, h[i], c)

LEMMA ConsistentNow ==
  ConversationsConsistent <=> \A c \in DOMAIN convos : FitsAll(stage, convos[c], c)
PROOF BY DEF ConversationsConsistent, Injective, Fits, FitsAll, Recorded

LEMMA ConsistentNext ==
  ASSUME setup' = setup, \A c \in DOMAIN convos' : FitsAll(stage', convos'[c], c)
  PROVE  ConversationsConsistent'
PROOF
  <1>1. \A m : Convo(m)' = Convo(m)
    BY DEF Convo
  <1>2. QED BY <1>1 DEF ConversationsConsistent, Injective, Fits, FitsAll, Recorded

(* A message that was recorded, or answered, stays so.                     *)
LEMMA StagesOnward ==
  ASSUME QueueInv, [Next]_vars, NEW m \in Messages
  PROVE  /\ stage[m] \in Recorded => stage'[m] \in Recorded
         /\ stage[m] = "replied" => stage'[m] = "replied"
PROOF
  <1> USE DEF Recorded
  <1>1. \A k \in Connectors : TakeFromInbox(k) => stage[Head(inbox[k])] = "inbox" /\ Head(inbox[k]) \in Messages
    BY TailQueue DEF TakeFromInbox, QueueInv, QueueTypes, QueuesAgree
  <1>2. TakeFromMerged => stage[Head(merged)] = "merged" /\ Head(merged) \in Messages
    BY TailQueue DEF TakeFromMerged, QueueInv, QueueTypes, QueuesAgree
  <1>3. stage \in [Messages -> Stages]
    BY DEF QueueInv, QueueTypes
  <1>4. CASE \E k \in Connectors : TakeFromInbox(k)
    BY <1>1, <1>3, <1>4 DEF TakeFromInbox, Move
  <1>5. CASE TakeFromMerged
    BY <1>2, <1>3, <1>5 DEF TakeFromMerged, Move
  <1>6. CASE Aside \/ Return \/ UNCHANGED vars
    BY <1>6, AsideEffect DEF Return, vars
  <1>7. ASSUME NEW n \in Messages, Receive(n) \/ Drop(n) \/ Forward(n) \/ Dispatch(n)
        PROVE  /\ stage[m] \in Recorded => stage'[m] \in Recorded
               /\ stage[m] = "replied" => stage'[m] = "replied"
    BY <1>3, <1>7 DEF Receive, Drop, Arrives, Forward, Dispatch, Move
  <1>8. ASSUME NEW n \in Messages, Handle(n)
        PROVE  /\ stage[m] \in Recorded => stage'[m] \in Recorded
               /\ stage[m] = "replied" => stage'[m] = "replied"
    BY <1>3, <1>8 DEF Handle, Record, RunSucceeds, Fail, SendReply, StoreAnswer, Move
  <1>9. QED BY <1>4, <1>5, <1>6, <1>7, <1>8, NextCases

LEMMA FitsOnward ==
  ASSUME QueueInv, [Next]_vars, NEW c, NEW h \in Seq(Entries), FitsAll(stage, h, c)
  PROVE  FitsAll(stage', h, c)
PROOF
  <1>1. ASSUME NEW i \in DOMAIN h PROVE Fits(stage', h[i], c)
    <2>1. h[i] \in Entries
      BY <1>1, ElementOf
    <2>2. h[i].id \in Messages
      BY <2>1 DEF Entries
    <2>3. /\ stage[h[i].id] \in Recorded => stage'[h[i].id] \in Recorded
          /\ stage[h[i].id] = "replied" => stage'[h[i].id] = "replied"
      BY <2>2, StagesOnward
    <2>4. QED BY <1>1, <2>3 DEF Fits, FitsAll
  <1>2. QED BY <1>1 DEF FitsAll

(* A trimmed history is the end of the history.                            *)
LEMMA TrimFacts ==
  ASSUME setup \in Setups, NEW S, NEW h \in Seq(S)
  PROVE  /\ Trim(h) \in Seq(S)
         /\ Len(Trim(h)) <= setup.maxHistory
         /\ Injective(h) => Injective(Trim(h))
         /\ \A i \in DOMAIN Trim(h) : \E j \in DOMAIN h : Trim(h)[i] = h[j]
PROOF
  <1> DEFINE n == setup.maxHistory
             d == Len(h) - n
  <1>1. n \in Nat /\ Len(h) \in Nat
    BY SetupFacts
  <1>2. CASE Len(h) <= n
    <2>1. Trim(h) = h
      BY <1>2 DEF Trim
    <2>2. QED BY <1>2, <2>1
  <1>3. CASE ~(Len(h) <= n)
    <2>1. d \in Nat /\ d + n = Len(h)
      BY <1>1, <1>3
    <2>2. Trim(h) = SubSeq(h, d + 1, Len(h))
      BY <1>3 DEF Trim
    <2> HIDE DEF d, n
    <2>3. /\ Trim(h) \in Seq(S)
          /\ Len(Trim(h)) = n
          /\ DOMAIN Trim(h) = 1..n
          /\ \A i \in 1..n : Trim(h)[i] = h[i + d]
      BY <1>1, <2>1, <2>2
    <2>4. \A i \in 1..n : i + d \in DOMAIN h
      BY <1>1, <2>1
    <2>5. Injective(h) => Injective(Trim(h))
      BY SMTT(40), <1>1, <2>1, <2>3, <2>4 DEF Injective
    <2>6. Len(Trim(h)) <= setup.maxHistory
      BY <1>1, <2>3 DEF n
    <2>7. QED BY <2>3, <2>4, <2>5, <2>6
  <1>4. QED BY <1>2, <1>3

(* Messages enter Answering only when they are recorded.                   *)
LEMMA AnsweringKept ==
  ASSUME QueueInv, NEW m \in Messages, NEW s,
         stage' = [stage EXCEPT ![m] = s], UNCHANGED setup,
         s \notin Handling \ {"started"} \/ stage[m] \in Handling \ {"started"},
         NEW c
  PROVE  /\ Answering(c)' \subseteq Answering(c)
         /\ s \notin Handling => m \notin Answering(c)'
PROOF
  <1>1. Messages' = Messages /\ Handling' = Handling /\ \A n : Convo(n)' = Convo(n)
    BY DEF Messages, Handling, Convo
  <1>2. \A n \in Messages : stage'[n] = IF n = m THEN s ELSE stage[n]
    BY DEF QueueInv, QueueTypes
  <1>3. QED BY <1>1, <1>2 DEF Answering, In

LEMMA AnsweringFinite ==
  ASSUME QueueInv, PoolInv, NEW c
  PROVE  /\ IsFiniteSet(Answering(c))
         /\ Cardinality(Answering(c)) \in Nat
         /\ Cardinality(Answering(c)) <= setup.concurrency
PROOF
  <1>1. Answering(c) \subseteq In(Handling)
    BY DEF Answering, In
  <1>2. IsFiniteSet(In(Handling)) /\ Cardinality(In(Handling)) \in Nat
    BY HandlingFinite
  <1>3. IsFiniteSet(Answering(c)) /\ Cardinality(Answering(c)) <= Cardinality(In(Handling))
    BY <1>1, <1>2, FS_Subset
  <1>4. Cardinality(Answering(c)) \in Nat
    BY <1>3, FS_CardinalityType
  <1>5. setup.concurrency \in Nat
    BY SetupFacts DEF QueueInv, QueueTypes
  <1>6. QED BY <1>2, <1>3, <1>4, <1>5 DEF PoolInv, PoolCounts

(* The conversations stay consistent when some are dropped, and when one is *)
(* replaced by a consistent history that is short enough.                  *)
LEMMA ConvosKept ==
  ASSUME QueueInv, PoolInv, ConvoInv, [Next]_vars,
         QueueInv', PoolInv',
         DOMAIN convos' \subseteq DOMAIN convos,
         \A c \in DOMAIN convos' : convos'[c] = convos[c],
         \A c \in DOMAIN convos' : Answering(c)' \subseteq Answering(c),
         old' \subseteq DOMAIN convos', cancelled' \in BOOLEAN
  PROVE  ConvoInv'
PROOF
  <1>1. setup' = setup
    BY SameSetup DEF vars
  <1>2. Messages' = Messages /\ Entries' = Entries /\ \A m : Convo(m)' = Convo(m)
    BY <1>1 DEF Messages, Entries, Convo
  <1>3. ConvoTypes'
    BY <1>2 DEF ConvoInv, ConvoTypes
  <1>4. ASSUME NEW c \in DOMAIN convos'
        PROVE  Len(convos'[c]) + Cardinality(Answering(c)') <= setup'.maxHistory + setup'.concurrency
    <2>1. IsFiniteSet(Answering(c)) /\ Cardinality(Answering(c)) \in Nat
      BY AnsweringFinite
    <2>2. Cardinality(Answering(c)') \in Nat /\ Cardinality(Answering(c)') <= Cardinality(Answering(c))
      BY <2>1, <1>4, FS_Subset, FS_CardinalityType
    <2>3. Len(convos[c]) + Cardinality(Answering(c)) <= setup.maxHistory + setup.concurrency
      BY <1>4 DEF ConvoInv, HistoryBounded
    <2>4. Len(convos[c]) \in Nat
      BY <1>4 DEF ConvoInv, ConvoTypes
    <2>5. convos'[c] = convos[c]
      BY <1>4
    <2>6. setup.maxHistory + setup.concurrency \in Nat
      BY SetupFacts DEF QueueInv, QueueTypes
    <2>7. QED BY <2>1, <2>2, <2>3, <2>4, <2>5, <2>6, <1>1
  <1>5. HistoryBounded'
    BY <1>4 DEF HistoryBounded
  <1>6. ASSUME NEW c \in DOMAIN convos' PROVE FitsAll(stage', convos'[c], c)
    <2>1. c \in DOMAIN convos /\ convos'[c] = convos[c] /\ convos[c] \in Seq(Entries)
      BY <1>6 DEF ConvoInv, ConvoTypes
    <2>2. FitsAll(stage, convos[c], c)
      BY <2>1, ConsistentNow DEF ConvoInv
    <2>3. FitsAll(stage', convos[c], c)
      BY <2>1, <2>2, FitsOnward
    <2>4. QED BY <2>1, <2>3
  <1>7. ConversationsConsistent'
    BY <1>1, <1>6, ConsistentNext
  <1>8. QED BY <1>3, <1>5, <1>7 DEF ConvoInv

LEMMA ConvoReplaced ==
  ASSUME QueueInv, PoolInv, ConvoInv, [Next]_vars,
         QueueInv', PoolInv',
         NEW m \in Messages, NEW d, d = Convo(m),
         NEW h \in Seq(Entries), SetHistory(d, h),
         FitsAll(stage', h, d),
         Len(h) + Cardinality(Answering(d)') <= setup.maxHistory + setup.concurrency,
         \A c \in DOMAIN convos' \ {d} : Answering(c)' \subseteq Answering(c),
         old' \subseteq old, cancelled' = cancelled
  PROVE  ConvoInv'
PROOF
  <1>1. setup' = setup
    BY SameSetup DEF vars
  <1>2. Messages' = Messages /\ Entries' = Entries /\ \A n : Convo(n)' = Convo(n)
    BY <1>1 DEF Messages, Entries, Convo
  <1>3. /\ DOMAIN convos' = DOMAIN convos \union {d}
        /\ convos'[d] = h
        /\ \A c \in DOMAIN convos \ {d} : convos'[c] = convos[c]
    BY DEF SetHistory
  <1>4. ConvoTypes'
    <2>1. \A c \in DOMAIN convos' : convos'[c] \in Seq(Entries)
      BY <1>3 DEF ConvoInv, ConvoTypes
    <2>2. DOMAIN convos' \subseteq {Convo(n) : n \in Messages}
      BY <1>3 DEF ConvoInv, ConvoTypes
    <2>3. old' \subseteq DOMAIN convos' /\ cancelled' \in BOOLEAN
      BY <1>3 DEF ConvoInv, ConvoTypes
    <2>4. QED BY <2>1, <2>2, <2>3, <1>2 DEF ConvoTypes
  <1>5. ASSUME NEW c \in DOMAIN convos'
        PROVE  Len(convos'[c]) + Cardinality(Answering(c)') <= setup'.maxHistory + setup'.concurrency
    <2>1. CASE c = d
      BY <2>1, <1>1, <1>3
    <2>2. CASE c # d
      <3>1. IsFiniteSet(Answering(c)) /\ Cardinality(Answering(c)) \in Nat
        BY AnsweringFinite
      <3>2. Cardinality(Answering(c)') \in Nat /\ Cardinality(Answering(c)') <= Cardinality(Answering(c))
        BY <3>1, <2>2, <1>5, FS_Subset, FS_CardinalityType
      <3>3. c \in DOMAIN convos /\ convos'[c] = convos[c]
        BY <2>2, <1>3, <1>5
      <3>4. Len(convos[c]) + Cardinality(Answering(c)) <= setup.maxHistory + setup.concurrency
        BY <3>3 DEF ConvoInv, HistoryBounded
      <3>5. Len(convos[c]) \in Nat
        BY <3>3 DEF ConvoInv, ConvoTypes
      <3>6. setup.maxHistory + setup.concurrency \in Nat
        BY SetupFacts DEF QueueInv, QueueTypes
      <3>7. QED BY <3>1, <3>2, <3>3, <3>4, <3>5, <3>6, <1>1
    <2>3. QED BY <2>1, <2>2
  <1>6. HistoryBounded'
    BY <1>5 DEF HistoryBounded
  <1>7. ASSUME NEW c \in DOMAIN convos' PROVE FitsAll(stage', convos'[c], c)
    <2>1. CASE c = d
      BY <2>1, <1>3
    <2>2. CASE c # d
      <3>1. c \in DOMAIN convos /\ convos'[c] = convos[c] /\ convos[c] \in Seq(Entries)
        BY <2>2, <1>3, <1>7 DEF ConvoInv, ConvoTypes
      <3>2. FitsAll(stage, convos[c], c)
        BY <3>1, ConsistentNow DEF ConvoInv
      <3>3. FitsAll(stage', convos[c], c)
        BY <3>1, <3>2, FitsOnward
      <3>4. QED BY <3>1, <3>3
    <2>3. QED BY <2>1, <2>2
  <1>8. ConversationsConsistent'
    BY <1>1, <1>7, ConsistentNext
  <1>9. QED BY <1>4, <1>6, <1>8 DEF ConvoInv

LEMMA RecordKeeps ==
  ASSUME QueueInv, PoolInv, ConvoInv, [Next]_vars, QueueInv', PoolInv',
         NEW m \in Messages, Record(m)
  PROVE  ConvoInv'
PROOF
  <1> DEFINE e == Entry("user", m)
  <1>1. PICK d : d = Convo(m)
    OBVIOUS
  <1> DEFINE g == History(d)
             h == Trim(Append(g, e))
  <1>2. /\ stage[m] = "started"
        /\ stage' = [stage EXCEPT ![m] = "running"]
        /\ SetHistory(d, h)
        /\ old' \subseteq old /\ cancelled' = cancelled /\ setup' = setup
    BY <1>1 DEF Record, Move
  <1>3. g \in Seq(Entries) /\ FitsAll(stage, g, d)
    <2>1. CASE d \in DOMAIN convos
      BY <2>1, ConsistentNow DEF History, ConvoInv, ConvoTypes
    <2>2. CASE d \notin DOMAIN convos
      <3>1. g = <<>>
        BY <2>2 DEF History
      <3>2. QED BY <3>1 DEF FitsAll, Injective
    <2>3. QED BY <2>1, <2>2
  <1>4. e \in Entries /\ ~Holds(g, e)
    <2>1. e \in Entries
      BY DEF Entry, Entries
    <2>2. ASSUME NEW i \in DOMAIN g, g[i] = e PROVE FALSE
      <3>1. Fits(stage, e, d)
        BY <1>3, <2>2 DEF FitsAll
      <3>2. stage[m] \in Recorded
        BY <3>1 DEF Fits, Entry
      <3>3. QED BY <3>2, <1>2 DEF Recorded
    <2>3. QED BY <2>1, <2>2 DEF Holds
  <1>5. FitsAll(stage', g, d)
    BY <1>3, FitsOnward
  <1>6. Fits(stage', e, d)
    <2>1. stage'[m] = "running"
      BY <1>2 DEF QueueInv, QueueTypes
    <2>2. QED BY <2>1, <1>1 DEF Fits, Entry, Recorded
  <1> HIDE DEF e, g
  <1>7. Append(g, e) \in Seq(Entries) /\ Injective(Append(g, e))
    BY <1>3, <1>4, AppendQueue DEF FitsAll
  <1>8. ASSUME NEW i \in DOMAIN Append(g, e) PROVE Fits(stage', Append(g, e)[i], d)
    <2>1. (i \in DOMAIN g /\ Append(g, e)[i] = g[i]) \/ Append(g, e)[i] = e
      BY <1>3, <1>4, <1>8
    <2>2. QED BY <2>1, <1>5, <1>6 DEF FitsAll
  <1>9. /\ h \in Seq(Entries)
        /\ Len(h) <= setup.maxHistory
        /\ Injective(h)
        /\ \A i \in DOMAIN h : \E j \in DOMAIN Append(g, e) : h[i] = Append(g, e)[j]
    BY <1>7, TrimFacts DEF QueueInv, QueueTypes
  <1>10. FitsAll(stage', h, d)
    BY <1>8, <1>9 DEF FitsAll
  <1> HIDE DEF h
  <1>11. Len(h) + Cardinality(Answering(d)') <= setup.maxHistory + setup.concurrency
    <2>1. /\ Cardinality(Answering(d)') \in Nat
          /\ Cardinality(Answering(d)') <= setup'.concurrency
      <3>1. Messages' = Messages /\ IsFiniteSet(Messages)
        BY <1>2, SetupFacts DEF Messages, QueueInv, QueueTypes
      <3>2. Answering(d)' \subseteq In(Handling)' /\ In(Handling)' \subseteq Messages
        BY <3>1 DEF Answering, In, Handling
      <3>3. IsFiniteSet(In(Handling)') /\ Cardinality(In(Handling)') \in Nat
        BY <3>1, <3>2, FS_Subset, FS_CardinalityType
      <3>4. /\ Cardinality(Answering(d)') \in Nat
            /\ Cardinality(Answering(d)') <= Cardinality(In(Handling)')
        BY <3>2, <3>3, FS_Subset, FS_CardinalityType
      <3>5. Cardinality(In(Handling)') <= setup'.concurrency /\ setup'.concurrency \in Nat
        BY <1>2, SetupFacts DEF PoolInv, PoolCounts, QueueInv, QueueTypes
      <3>6. QED BY <3>3, <3>4, <3>5
    <2>2. setup.maxHistory \in Nat /\ setup.concurrency \in Nat /\ Len(h) \in Nat
      BY <1>9, SetupFacts DEF QueueInv, QueueTypes
    <2>3. QED BY <1>2, <1>9, <2>1, <2>2
  <1>12. ASSUME NEW c \in DOMAIN convos' \ {d} PROVE Answering(c)' \subseteq Answering(c)
    <2>1. Messages' = Messages /\ Handling' = Handling /\ \A n : Convo(n)' = Convo(n)
      BY <1>2 DEF Messages, Handling, Convo
    <2>2. \A n \in Messages : n # m => stage'[n] = stage[n]
      BY <1>2 DEF QueueInv, QueueTypes
    <2>3. QED BY <1>1, <1>12, <2>1, <2>2 DEF Answering, In
  <1>13. QED BY <1>1, <1>2, <1>9, <1>10, <1>11, <1>12, ConvoReplaced

LEMMA StoreAnswerKeeps ==
  ASSUME QueueInv, PoolInv, ConvoInv, [Next]_vars, QueueInv', PoolInv',
         NEW m \in Messages, StoreAnswer(m)
  PROVE  ConvoInv'
PROOF
  <1> DEFINE e == Entry("answer", m)
  <1>1. PICK d : d = Convo(m)
    OBVIOUS
  <1>2. /\ stage[m] = "sent"
        /\ stage' = [stage EXCEPT ![m] = "replied"]
        /\ old' = old /\ cancelled' = cancelled /\ setup' = setup
    BY DEF StoreAnswer, Move
  <1>3. "replied" \notin Handling /\ stage[m] \in Handling \ {"started"}
    BY <1>2 DEF Handling
  <1>4. \A c : Answering(c)' \subseteq Answering(c) /\ m \notin Answering(c)'
    BY <1>2, <1>3, AnsweringKept
  <1>5. CASE d \notin DOMAIN convos
    <2>1. convos' = convos
      BY <1>1, <1>5 DEF StoreAnswer
    <2>2. old' \subseteq DOMAIN convos' /\ cancelled' \in BOOLEAN
      BY <2>1, <1>2 DEF ConvoInv, ConvoTypes
    <2>3. QED BY <2>1, <2>2, <1>4, ConvosKept
  <1>6. CASE d \in DOMAIN convos
    <2> DEFINE g == convos[d]
               h == Append(g, e)
    <2>1. g \in Seq(Entries) /\ FitsAll(stage, g, d)
      BY <1>6, ConsistentNow DEF ConvoInv, ConvoTypes
    <2>2. SetHistory(d, h)
      <3>1. SetHistory(d, g \o <<e>>)
        BY <1>1, <1>6 DEF StoreAnswer, Answered
      <3>2. g \o <<e>> = h
        BY <2>1
      <3>3. QED BY <3>1, <3>2
    <2>3. e \in Entries /\ ~Holds(g, e)
      <3>1. e \in Entries
        BY DEF Entry, Entries
      <3>2. ASSUME NEW i \in DOMAIN g, g[i] = e PROVE FALSE
        <4>1. Fits(stage, e, d)
          BY <2>1, <3>2 DEF FitsAll
        <4>2. stage[m] = "replied"
          BY <4>1 DEF Fits, Entry
        <4>3. QED BY <4>2, <1>2
      <3>3. QED BY <3>1, <3>2 DEF Holds
    <2>4. FitsAll(stage', g, d)
      BY <2>1, FitsOnward
    <2>5. Fits(stage', e, d)
      <3>1. stage'[m] = "replied"
        BY <1>2 DEF QueueInv, QueueTypes
      <3>2. QED BY <3>1, <1>1 DEF Fits, Entry
    <2>6. Len(g) + Cardinality(Answering(d)) <= setup.maxHistory + setup.concurrency
      BY <1>6 DEF ConvoInv, HistoryBounded
    <2> HIDE DEF e, g
    <2>7. h \in Seq(Entries) /\ Injective(h) /\ Len(h) = Len(g) + 1
      BY <2>1, <2>3, AppendQueue DEF FitsAll
    <2>8. ASSUME NEW i \in DOMAIN h PROVE Fits(stage', h[i], d)
      <3>1. (i \in DOMAIN g /\ h[i] = g[i]) \/ h[i] = e
        BY <2>1, <2>3, <2>8
      <3>2. QED BY <3>1, <2>4, <2>5 DEF FitsAll
    <2>9. FitsAll(stage', h, d)
      BY <2>7, <2>8 DEF FitsAll
    <2> HIDE DEF h
    <2>10. Len(h) + Cardinality(Answering(d)') <= setup.maxHistory + setup.concurrency
      <3>1. m \in Answering(d)
        BY <1>1, <1>3 DEF Answering, In
      <3>2. IsFiniteSet(Answering(d)) /\ Cardinality(Answering(d)) \in Nat
        BY AnsweringFinite
      <3>3. /\ IsFiniteSet(Answering(d) \ {m})
            /\ Cardinality(Answering(d) \ {m}) = Cardinality(Answering(d)) - 1
        BY <3>1, <3>2, FS_RemoveElement
      <3>4. Answering(d)' \subseteq Answering(d) \ {m}
        BY <1>4
      <3>5. /\ Cardinality(Answering(d)') <= Cardinality(Answering(d)) - 1
            /\ Cardinality(Answering(d)') \in Nat
        BY <3>3, <3>4, FS_Subset, FS_CardinalityType
      <3>6. setup.maxHistory + setup.concurrency \in Nat /\ Len(g) \in Nat
        BY <2>1, SetupFacts DEF QueueInv, QueueTypes
      <3>7. QED BY <2>6, <2>7, <3>2, <3>5, <3>6
    <2>11. QED BY <1>1, <1>2, <1>4, <2>2, <2>7, <2>9, <2>10, ConvoReplaced
  <1>7. QED BY <1>5, <1>6

(* What neither records nor answers a message leaves the conversations.    *)
LEMMA OthersKeep ==
  ASSUME QueueInv, PoolInv, ConvoInv, [Next]_vars, QueueInv', PoolInv',
         UNCHANGED <<convos, old>>, cancelled' \in BOOLEAN,
         \A c : Answering(c)' \subseteq Answering(c)
  PROVE  ConvoInv'
PROOF BY ConvosKept DEF ConvoInv, ConvoTypes

(* ... and so does what moves a message that is not being answered.        *)
LEMMA MovesKeep ==
  ASSUME QueueInv, PoolInv, ConvoInv, [Next]_vars, QueueInv', PoolInv',
         UNCHANGED <<convos, old, cancelled>>,
         NEW m \in Messages, NEW s, stage' = [stage EXCEPT ![m] = s],
         s \notin Handling \ {"started"} \/ stage[m] \in Handling \ {"started"}
  PROVE  ConvoInv'
PROOF
  <1>1. setup' = setup
    BY SameSetup DEF vars
  <1>2. \A c : Answering(c)' \subseteq Answering(c)
    BY <1>1, AnsweringKept
  <1>3. cancelled' \in BOOLEAN
    BY DEF ConvoInv, ConvoTypes
  <1>4. QED BY <1>2, <1>3, OthersKeep

LEMMA AsideKeepsConvos ==
  ASSUME QueueInv, PoolInv, ConvoInv, [Next]_vars, QueueInv', PoolInv',
         Aside \/ Return \/ UNCHANGED vars
  PROVE  ConvoInv'
PROOF
  <1>1. UNCHANGED <<setup, stage>>
    BY AsideEffect DEF Return, vars
  <1>2. \A c : Answering(c)' \subseteq Answering(c)
    BY <1>1 DEF Answering, In, Messages, Convo, Handling
  <1>3. cancelled \in BOOLEAN /\ old \subseteq DOMAIN convos
    BY DEF ConvoInv, ConvoTypes
  <1>4. cancelled' \in BOOLEAN
    BY <1>3 DEF Aside, Open, FailToStart, Close, Cancel, GrowOld, Cleanup, Return, vars
  <1>5. CASE Cleanup
    <2>1. /\ DOMAIN convos' = DOMAIN convos \ old
          /\ \A c \in DOMAIN convos' : convos'[c] = convos[c]
          /\ old' = {}
      BY <1>5 DEF Cleanup, Restrict
    <2>2. QED BY <2>1, <1>2, <1>4, ConvosKept
  <1>6. CASE \E c \in DOMAIN convos : GrowOld(c)
    <2>1. convos' = convos /\ old' \subseteq DOMAIN convos'
      BY <1>3, <1>6 DEF GrowOld
    <2>2. QED BY <2>1, <1>2, <1>4, ConvosKept
  <1>7. CASE ~Cleanup /\ ~(\E c \in DOMAIN convos : GrowOld(c))
    <2>1. UNCHANGED <<convos, old>>
      BY <1>7 DEF Aside, Open, FailToStart, Close, Cancel, Return, vars
    <2>2. QED BY <2>1, <1>2, <1>4, OthersKeep
  <1>8. QED BY <1>5, <1>6, <1>7

LEMMA NextConvoInv ==
  ASSUME QueueInv, PoolInv, ConvoInv, [Next]_vars, QueueInv', PoolInv'
  PROVE  ConvoInv'
PROOF
  <1>1. CASE Aside \/ Return \/ UNCHANGED vars
    BY <1>1, AsideKeepsConvos
  <1>2. ASSUME NEW k \in Connectors, TakeFromInbox(k) PROVE ConvoInv'
    <2>1. inbox[k] \in Seq(Messages) /\ inbox[k] # <<>>
      BY <1>2 DEF TakeFromInbox, QueueInv, QueueTypes
    <2>2. Head(inbox[k]) \in Messages
      BY <2>1
    <2>3. QED BY <1>2, <2>2, MovesKeep DEF TakeFromInbox, Move, Handling
  <1>3. CASE TakeFromMerged
    <2>1. merged \in Seq(Messages) /\ merged # <<>>
      BY <1>3 DEF TakeFromMerged, QueueInv, QueueTypes
    <2>2. Head(merged) \in Messages
      BY <2>1
    <2>3. QED BY <1>3, <2>2, MovesKeep DEF TakeFromMerged, Move, Handling
  <1>4. ASSUME NEW m \in Messages, Receive(m) \/ Drop(m) \/ Forward(m) \/ Dispatch(m)
        PROVE  ConvoInv'
    BY <1>4, MovesKeep DEF Receive, Drop, Forward, Dispatch, Move, Handling
  <1>5. ASSUME NEW m \in Messages, RunSucceeds(m) \/ Fail(m) \/ SendReply(m) PROVE ConvoInv'
    BY <1>5, MovesKeep DEF RunSucceeds, Fail, SendReply, Move, Handling
  <1>6. ASSUME NEW m \in Messages, Record(m) PROVE ConvoInv'
    BY <1>6, RecordKeeps
  <1>7. ASSUME NEW m \in Messages, StoreAnswer(m) PROVE ConvoInv'
    BY <1>7, StoreAnswerKeeps
  <1>8. QED BY <1>1, <1>2, <1>3, <1>4, <1>5, <1>6, <1>7, NextCases DEF Handle

(***************************************************************************)
(* The theorems.                                                           *)
(***************************************************************************)
LEMMA InitPoolInv == Init => PoolInv
PROOF
  <1> SUFFICES ASSUME Init PROVE PoolInv
    OBVIOUS
  <1>1. In(Handling) = {}
    BY DEF Init, In, Handling
  <1>2. setup.concurrency \in Nat
    BY SetupFacts DEF Init
  <1>3. QED BY <1>1, <1>2, FS_EmptySet DEF Init, PoolInv, PoolCounts

LEMMA InitConvoInv == Init => ConvoInv
PROOF
  <1> SUFFICES ASSUME Init PROVE ConvoInv
    OBVIOUS
  <1>1. DOMAIN convos = {} /\ old = {} /\ cancelled = FALSE
    BY DEF Init
  <1>2. ConvoTypes
    BY <1>1 DEF ConvoTypes
  <1>3. HistoryBounded /\ ConversationsConsistent
    BY <1>1 DEF HistoryBounded, ConversationsConsistent
  <1>4. QED BY <1>2, <1>3 DEF ConvoInv

(* The inductive invariant: the queues agree with the stages of the        *)
(* messages, the semaphore counts the handlers, and the histories hold     *)
(* what the handlers recorded.  None of the parts is inductive alone.      *)
IInv == QueueInv /\ PoolInv /\ ConvoInv

THEOREM Inductive == Spec => []IInv
PROOF
  <1>1. Init => IInv
    BY InitQueueInv, InitPoolInv, InitConvoInv DEF IInv
  <1>2. IInv /\ [Next]_vars => IInv'
    <2> SUFFICES ASSUME IInv, [Next]_vars PROVE IInv'
      OBVIOUS
    <2>1. QueueInv /\ PoolInv /\ ConvoInv
      BY DEF IInv
    <2>2. QueueInv'
      BY <2>1, NextQueueInv
    <2>3. PoolInv'
      BY <2>1, NextPoolInv
    <2>4. ConvoInv'
      BY <2>1, <2>2, <2>3, NextConvoInv
    <2>5. QED BY <2>2, <2>3, <2>4 DEF IInv
  <1>3. QED BY <1>1, <1>2, PTL DEF Spec

(* Every variable keeps its type, whatever the connectors do.              *)
THEOREM TypeCorrect == Spec => []TypeOK
PROOF
  <1>1. IInv => TypeOK
    BY DEF IInv, QueueInv, QueueTypes, PoolInv, ConvoInv, ConvoTypes, Entries, TypeOK
  <1>2. QED BY <1>1, Inductive, PTL

(* The semaphore of Run holds the tokens of the handlers and never more     *)
(* than WithConcurrency allows.                                            *)
THEOREM PoolIsCounted == Spec => []PoolCounts
PROOF
  <1>1. IInv => PoolCounts
    BY DEF IInv, PoolInv
  <1>2. QED BY <1>1, Inductive, PTL

(* The history of a conversation is never longer than WithMaxHistory and   *)
(* WithConcurrency together.                                               *)
THEOREM HistoriesBounded == Spec => []HistoryBounded
PROOF
  <1>1. IInv => HistoryBounded
    BY DEF IInv, ConvoInv
  <1>2. QED BY <1>1, Inductive, PTL

(* Interleaved handlers and the cleanup never mix up conversations, repeat  *)
(* a message in one, or record an answer that was not sent.                *)
THEOREM ConversationsAreConsistent == Spec => []ConversationsConsistent
PROOF
  <1>1. IInv => ConversationsConsistent
    BY DEF IInv, ConvoInv
  <1>2. QED BY <1>1, Inductive, PTL

(***************************************************************************)
(* The order of conversations, when handlers are not concurrent.  Of two   *)
(* messages of a connector the earlier is ahead, and what is in a queue is *)
(* in the order in which it came.                                          *)
(***************************************************************************)
Far(s) ==
  CASE s = "out" -> 0
    [] s = "inbox" -> 1
    [] s = "forwarding" -> 2
    [] s = "merged" -> 3
    [] s = "dispatching" -> 4
    [] s \in Handling -> 5
    [] OTHER -> 6

(* Where there can be more than one of them.                               *)
Roomy == {0, 1, 3, 6}

Behind(s, t) == Far(s) <= Far(t) /\ (Far(s) = Far(t) => Far(t) \in Roomy)

InOrder ==
  \A n, m \in Messages :
    n < m /\ Via(n) = Via(m) /\ stage[n] # "dropped" /\ stage[m] # "dropped" =>
      Behind(stage[m], stage[n])

QueuesInOrder ==
  /\ \A k \in Connectors : \A i, j \in DOMAIN inbox[k] : i < j => inbox[k][i] < inbox[k][j]
  /\ \A i, j \in DOMAIN merged :
       i < j /\ Via(merged[i]) = Via(merged[j]) => merged[i] < merged[j]

(* The question that is being answered is the last entry.                  *)
Pending ==
  \A m \in Messages :
    /\ stage[m] \in Handling \ {"started"}
    /\ Convo(m) \in DOMAIN convos /\ convos[Convo(m)] # <<>>
    => convos[Convo(m)][Len(convos[Convo(m)])] = Entry("user", m)

Ascending(h) ==
  \A i \in DOMAIN h : \A j \in 1..(i - 1) : Via(h[j].id) = Via(h[i].id) => h[j].id <= h[i].id
Paired(h) ==
  \A i \in DOMAIN h : h[i].role = "answer" /\ i > 1 => h[i - 1] = Entry("user", h[i].id)
Orderly(h) == Ascending(h) /\ Paired(h)

Serial == setup.concurrency = 1

SerialInv ==
  Serial => InOrder /\ QueuesInOrder /\ Pending /\ \A c \in DOMAIN convos : Orderly(convos[c])

LEMMA FarFacts ==
  /\ Far("out") = 0 /\ Far("inbox") = 1 /\ Far("forwarding") = 2
  /\ Far("merged") = 3 /\ Far("dispatching") = 4
  /\ \A s \in Handling : Far(s) = 5
  /\ \A s \in Settled : Far(s) = 6
  /\ \A s \in Stages :
       /\ Far(s) \in 0..6
       /\ Far(s) = 0 => s = "out"
       /\ Far(s) = 1 => s = "inbox"
       /\ Far(s) = 2 => s = "forwarding"
       /\ Far(s) = 3 => s = "merged"
       /\ Far(s) = 4 => s = "dispatching"
       /\ Far(s) = 5 => s \in Handling
PROOF BY DEF Far, Stages, Handling, Settled

(* With a concurrency of one, one message has the goroutine.               *)
LEMMA OneHandler ==
  ASSUME QueueInv, PoolInv, Serial
  PROVE  /\ \A m, n \in Messages : stage[m] \in Handling /\ stage[n] \in Handling => m = n
         /\ HasRoom => \A m \in Messages : stage[m] \notin Handling
PROOF
  <1>1. IsFiniteSet(In(Handling)) /\ Cardinality(In(Handling)) \in Nat
    BY HandlingFinite
  <1>2. Cardinality(In(Handling)) <= 1 /\ (HasRoom => Cardinality(In(Handling)) = 0)
    BY <1>1 DEF PoolInv, PoolCounts, Serial, HasRoom
  <1>3. ASSUME NEW m \in Messages, NEW n \in Messages,
               stage[m] \in Handling, stage[n] \in Handling, m # n
        PROVE  FALSE
    <2>1. m \in In(Handling) /\ n \in In(Handling) \ {m}
      BY <1>3 DEF In
    <2>2. /\ IsFiniteSet(In(Handling) \ {m})
          /\ Cardinality(In(Handling) \ {m}) = Cardinality(In(Handling)) - 1
      BY <1>1, <2>1, FS_RemoveElement
    <2>3. Cardinality(In(Handling) \ {m}) \in Nat
      BY <2>2, FS_CardinalityType
    <2>4. In(Handling) \ {m} = {}
      BY <1>1, <1>2, <2>2, <2>3, FS_EmptySet
    <2>5. QED BY <2>1, <2>4
  <1>4. ASSUME HasRoom, NEW m \in Messages, stage[m] \in Handling PROVE FALSE
    <2>1. In(Handling) = {}
      BY <1>1, <1>2, <1>4, FS_EmptySet
    <2>2. QED BY <1>4, <2>1 DEF In
  <1>5. QED BY <1>3, <1>4

(* A message goes on in order when those before it are further.            *)
LEMMA MoveInOrder ==
  ASSUME QueueInv, InOrder, NEW m \in Messages, NEW s \in Stages,
         stage' = [stage EXCEPT ![m] = s], UNCHANGED setup,
         stage[m] # "dropped", s # "dropped" => Far(stage[m]) <= Far(s),
         \A n \in Messages :
           n < m /\ Via(n) = Via(m) /\ stage[n] # "dropped" /\ s # "dropped" => Behind(s, stage[n])
  PROVE  InOrder'
PROOF
  <1>1. Messages' = Messages /\ \A n : Via(n)' = Via(n)
    BY DEF Messages, Via
  <1>2. stage \in [Messages -> Stages] /\ \A n \in Messages : n \in Nat
    BY SetupFacts DEF QueueInv, QueueTypes
  <1>3. \A n \in Messages : stage'[n] = IF n = m THEN s ELSE stage[n]
    BY <1>2
  <1>4. ASSUME NEW n \in Messages, NEW o \in Messages, n < o, Via(n) = Via(o),
               stage'[n] # "dropped", stage'[o] # "dropped"
        PROVE  Behind(stage'[o], stage'[n])
    <2>1. CASE o = m
      <3>1. n # m
        BY <2>1, <1>2, <1>4
      <3>2. QED BY <2>1, <3>1, <1>3, <1>4
    <2>2. CASE o # m /\ n # m
      BY <2>2, <1>3, <1>4 DEF InOrder
    <2>3. CASE o # m /\ n = m
      <3>1. Behind(stage[o], stage[m]) /\ Far(stage[m]) <= Far(s)
        BY <2>3, <1>3, <1>4 DEF InOrder
      <3>2. Far(stage[o]) \in Nat /\ Far(stage[m]) \in Nat /\ Far(s) \in Nat
        BY <1>2, FarFacts
      <3>3. Behind(stage[o], s)
        BY <3>1, <3>2 DEF Behind
      <3>4. QED BY <2>3, <3>3, <1>3
    <2>4. QED BY <2>1, <2>2, <2>3
  <1>5. QED BY <1>1, <1>4 DEF InOrder

(* Appending what is behind everything keeps a queue in order, and so does  *)
(* taking the first, which is ahead of everything that is left.            *)
LEMMA NotYetIn ==
  ASSUME QueueInv, InOrder, NEW m \in Messages, NEW n \in Messages, Via(n) = Via(m),
         stage[n] \in {"inbox", "merged"}, stage[m] \in Stages \ {"dropped"},
         Far(stage[m]) < Far(stage[n])
  PROVE  n < m
PROOF
  <1>1. n \in Nat /\ m \in Nat
    BY SetupFacts DEF QueueInv, QueueTypes
  <1>2. Far(stage[m]) \in Nat /\ Far(stage[n]) \in Nat /\ stage[n] # "dropped"
    BY FarFacts DEF Stages
  <1>3. ~(m < n)
    <2>1. ASSUME m < n PROVE Behind(stage[n], stage[m])
      BY <1>2, <2>1 DEF InOrder
    <2>2. QED BY <1>2, <2>1 DEF Behind
  <1>4. n # m
    BY <1>2
  <1>5. QED BY <1>1, <1>3, <1>4

LEMMA ReceiveInOrder ==
  ASSUME QueueInv, InOrder, QueuesInOrder, NEW m \in Messages, Receive(m)
  PROVE  InOrder' /\ QueuesInOrder'
PROOF
  <1> DEFINE k == Via(m)
  <1>1. /\ stage[m] = "out" /\ k \in Connectors
        /\ stage' = [stage EXCEPT ![m] = "inbox"]
        /\ inbox' = [inbox EXCEPT ![k] = Append(inbox[k], m)]
        /\ UNCHANGED <<setup, merged>>
        /\ \A n \in 1..(m - 1) : Via(n) = Via(m) => stage[n] # "out"
    BY SetupFacts DEF Receive, Arrives, Move, QueueInv, QueueTypes
  <1>2. InOrder'
    <2>1. ASSUME NEW n \in Messages, n < m, Via(n) = Via(m) PROVE Behind("inbox", stage[n])
      <3>1. n \in 1..(m - 1)
        BY <2>1, SetupFacts DEF QueueInv, QueueTypes
      <3>2. stage[n] # "out" /\ stage[n] \in Stages
        BY <3>1, <1>1, <2>1 DEF QueueInv, QueueTypes
      <3>3. QED BY <3>2, FarFacts DEF Behind, Roomy
    <2>2. "inbox" \in Stages /\ Far("out") <= Far("inbox")
      BY FarFacts DEF Stages
    <2>3. QED BY <1>1, <2>1, <2>2, MoveInOrder
  <1>3. inbox[k] \in Seq(Messages) /\ inbox \in [Connectors -> Seq(Messages)]
    BY <1>1 DEF QueueInv, QueueTypes
  <1>4. ASSUME NEW i \in DOMAIN inbox[k] PROVE inbox[k][i] < m
    <2>1. inbox[k][i] \in Messages
      BY <1>3, <1>4, ElementOf
    <2>2. stage[inbox[k][i]] = "inbox" /\ Via(inbox[k][i]) = k
      BY <1>1, <1>4, <2>1 DEF QueueInv, QueuesAgree, Holds
    <2>3. QED BY <1>1, <2>1, <2>2, FarFacts, NotYetIn DEF Stages
  <1>5. ASSUME NEW i \in DOMAIN Append(inbox[k], m), NEW j \in DOMAIN Append(inbox[k], m), i < j
        PROVE  Append(inbox[k], m)[i] < Append(inbox[k], m)[j]
    <2>1. /\ DOMAIN inbox[k] = 1..Len(inbox[k]) /\ Len(inbox[k]) \in Nat
          /\ i \in 1..(Len(inbox[k]) + 1) /\ j \in 1..(Len(inbox[k]) + 1)
          /\ \A l \in DOMAIN inbox[k] : Append(inbox[k], m)[l] = inbox[k][l]
          /\ Append(inbox[k], m)[Len(inbox[k]) + 1] = m
      BY <1>3, <1>5
    <2>2. CASE j \in DOMAIN inbox[k]
      BY <1>1, <1>5, <2>1, <2>2 DEF QueuesInOrder
    <2>3. CASE j = Len(inbox[k]) + 1
      BY <1>4, <1>5, <2>1, <2>3
    <2>4. QED BY <2>1, <2>2, <2>3
  <1> HIDE DEF k
  <1>6. Connectors' = Connectors /\ \A n : Via(n)' = Via(n)
    BY <1>1 DEF Connectors, Via
  <1>7. QueuesInOrder'
    BY <1>1, <1>3, <1>5, <1>6 DEF QueuesInOrder
  <1>8. QED BY <1>2, <1>7

LEMMA DropInOrder ==
  ASSUME QueueInv, InOrder, QueuesInOrder, NEW m \in Messages, Drop(m)
  PROVE  InOrder' /\ QueuesInOrder'
PROOF
  <1>1. stage[m] = "out" /\ stage' = [stage EXCEPT ![m] = "dropped"] /\ UNCHANGED <<setup, inbox, merged>>
    BY DEF Drop, Arrives, Move
  <1>2. InOrder'
    BY <1>1, MoveInOrder DEF Stages, Settled
  <1>3. QueuesInOrder'
    BY <1>1 DEF QueuesInOrder, Connectors, Via
  <1>4. QED BY <1>2, <1>3

LEMMA TakeFromInboxInOrder ==
  ASSUME QueueInv, InOrder, QueuesInOrder, NEW k \in Connectors, TakeFromInbox(k)
  PROVE  InOrder' /\ QueuesInOrder'
PROOF
  <1> DEFINE m == Head(inbox[k])
             q == inbox[k]
  <1>1. /\ q \in Seq(Messages) /\ Injective(q) /\ q # <<>> /\ Forwarding(k) = {}
        /\ stage' = [stage EXCEPT ![m] = "forwarding"]
        /\ inbox' = [inbox EXCEPT ![k] = Tail(q)]
        /\ UNCHANGED <<setup, merged>>
    BY DEF TakeFromInbox, Move, QueueInv, QueueTypes, QueuesAgree
  <1>2. m \in Messages /\ Holds(q, m)
    BY <1>1, TailQueue
  <1>3. stage[m] = "inbox" /\ Via(m) = k
    BY <1>2 DEF QueueInv, QueuesAgree
  <1>4. /\ Len(q) \in Nat \ {0} /\ DOMAIN q = 1..Len(q) /\ m = q[1]
        /\ DOMAIN Tail(q) = 1..(Len(q) - 1)
        /\ \A i \in 1..(Len(q) - 1) : Tail(q)[i] = q[i + 1]
    BY <1>1
  <1>5. \A i, j \in DOMAIN q : i < j => q[i] < q[j]
    BY DEF QueuesInOrder
  <1>6. inbox \in [Connectors -> Seq(Messages)] /\ \A n \in Messages : n \in Nat /\ stage[n] \in Stages
    BY SetupFacts DEF QueueInv, QueueTypes
  <1> HIDE DEF m
  <1>7. ASSUME NEW n \in Messages, n < m, Via(n) = Via(m), stage[n] # "dropped"
        PROVE  Behind("forwarding", stage[n])
    <2>1. Behind("inbox", stage[n])
      BY <1>2, <1>3, <1>7 DEF InOrder
    <2>2. stage[n] # "inbox"
      <3>1. ASSUME Holds(q, n) PROVE FALSE
        <4>1. PICK i \in DOMAIN q : q[i] = n
          BY <3>1 DEF Holds
        <4>2. i = 1 \/ 1 < i
          BY <1>4
        <4>3. QED BY <4>1, <4>2, <1>2, <1>4, <1>5, <1>6, <1>7
      <3>2. Holds(q, n) <=> stage[n] = "inbox" /\ Via(n) = k
        BY DEF QueueInv, QueuesAgree
      <3>3. QED BY <3>1, <3>2, <1>3, <1>7
    <2>3. stage[n] # "forwarding"
      BY <1>1, <1>3, <1>7 DEF Forwarding, In
    <2>4. QED BY <2>1, <2>2, <2>3, <1>6, FarFacts DEF Behind, Roomy
  <1>8. InOrder'
    <2>1. "forwarding" \in Stages /\ Far("inbox") <= Far("forwarding")
      BY FarFacts DEF Stages
    <2>2. QED BY <1>1, <1>2, <1>3, <1>7, <2>1, MoveInOrder
  <1>9. Connectors' = Connectors /\ \A n : Via(n)' = Via(n)
    BY <1>1 DEF Connectors, Via
  <1>10. ASSUME NEW i \in DOMAIN Tail(q), NEW j \in DOMAIN Tail(q), i < j PROVE Tail(q)[i] < Tail(q)[j]
    <2>1. i + 1 \in DOMAIN q /\ j + 1 \in DOMAIN q /\ i + 1 < j + 1
      BY <1>4, <1>10
    <2>2. QED BY <2>1, <1>4, <1>5, <1>10
  <1> HIDE DEF q
  <1>11. QueuesInOrder'
    BY <1>1, <1>6, <1>9, <1>10 DEF QueuesInOrder
  <1>12. QED BY <1>8, <1>11

LEMMA ForwardInOrder ==
  ASSUME QueueInv, InOrder, QueuesInOrder, NEW m \in Messages, Forward(m)
  PROVE  InOrder' /\ QueuesInOrder'
PROOF
  <1>1. /\ stage[m] = "forwarding"
        /\ stage' = [stage EXCEPT ![m] = "merged"]
        /\ merged' = Append(merged, m)
        /\ UNCHANGED <<setup, inbox>>
    BY DEF Forward, Move
  <1>2. merged \in Seq(Messages) /\ \A n \in Messages : n \in Nat /\ stage[n] \in Stages
    BY SetupFacts DEF QueueInv, QueueTypes
  <1>3. InOrder'
    <2>1. ASSUME NEW n \in Messages, n < m, Via(n) = Via(m), stage[n] # "dropped"
          PROVE  Behind("merged", stage[n])
      <3>1. Behind("forwarding", stage[n])
        BY <1>1, <2>1 DEF InOrder
      <3>2. QED BY <3>1, <1>2, FarFacts DEF Behind, Roomy
    <2>2. "merged" \in Stages /\ Far("forwarding") <= Far("merged")
      BY FarFacts DEF Stages
    <2>3. QED BY <1>1, <2>1, <2>2, MoveInOrder
  <1>4. ASSUME NEW i \in DOMAIN merged, Via(merged[i]) = Via(m) PROVE merged[i] < m
    <2>1. merged[i] \in Messages
      BY <1>2, <1>4, ElementOf
    <2>2. stage[merged[i]] = "merged"
      BY <1>4, <2>1 DEF QueueInv, QueuesAgree, Holds
    <2>3. QED BY <1>1, <1>4, <2>1, <2>2, FarFacts, NotYetIn DEF Stages
  <1>5. ASSUME NEW i \in DOMAIN Append(merged, m), NEW j \in DOMAIN Append(merged, m), i < j,
               Via(Append(merged, m)[i]) = Via(Append(merged, m)[j])
        PROVE  Append(merged, m)[i] < Append(merged, m)[j]
    <2>1. /\ DOMAIN merged = 1..Len(merged) /\ Len(merged) \in Nat
          /\ i \in 1..(Len(merged) + 1) /\ j \in 1..(Len(merged) + 1)
          /\ \A l \in DOMAIN merged : Append(merged, m)[l] = merged[l]
          /\ Append(merged, m)[Len(merged) + 1] = m
      BY <1>2, <1>5
    <2>2. CASE j \in DOMAIN merged
      BY <1>5, <2>1, <2>2 DEF QueuesInOrder
    <2>3. CASE j = Len(merged) + 1
      BY <1>4, <1>5, <2>1, <2>3
    <2>4. QED BY <2>1, <2>2, <2>3
  <1>6. Connectors' = Connectors /\ \A n : Via(n)' = Via(n)
    BY <1>1 DEF Connectors, Via
  <1>7. QueuesInOrder'
    BY <1>1, <1>5, <1>6 DEF QueuesInOrder
  <1>8. QED BY <1>3, <1>7

LEMMA TakeFromMergedInOrder ==
  ASSUME QueueInv, InOrder, QueuesInOrder, TakeFromMerged
  PROVE  InOrder' /\ QueuesInOrder'
PROOF
  <1> DEFINE m == Head(merged)
  <1>1. /\ merged \in Seq(Messages) /\ Injective(merged) /\ merged # <<>>
        /\ In({"dispatching"}) = {}
        /\ stage' = [stage EXCEPT ![m] = "dispatching"]
        /\ merged' = Tail(merged)
        /\ UNCHANGED <<setup, inbox>>
    BY DEF TakeFromMerged, Move, QueueInv, QueueTypes, QueuesAgree
  <1>2. m \in Messages /\ Holds(merged, m)
    BY <1>1, TailQueue
  <1>3. stage[m] = "merged"
    BY <1>2 DEF QueueInv, QueuesAgree
  <1>4. /\ Len(merged) \in Nat \ {0} /\ DOMAIN merged = 1..Len(merged) /\ m = merged[1]
        /\ DOMAIN Tail(merged) = 1..(Len(merged) - 1)
        /\ \A i \in 1..(Len(merged) - 1) : Tail(merged)[i] = merged[i + 1]
    BY <1>1
  <1>5. \A i, j \in DOMAIN merged : i < j /\ Via(merged[i]) = Via(merged[j]) => merged[i] < merged[j]
    BY DEF QueuesInOrder
  <1>6. \A n \in Messages : n \in Nat /\ stage[n] \in Stages
    BY SetupFacts DEF QueueInv, QueueTypes
  <1> HIDE DEF m
  <1>7. ASSUME NEW n \in Messages, n < m, Via(n) = Via(m), stage[n] # "dropped"
        PROVE  Behind("dispatching", stage[n])
    <2>1. Behind("merged", stage[n])
      BY <1>2, <1>3, <1>7 DEF InOrder
    <2>2. stage[n] # "merged"
      <3>1. ASSUME Holds(merged, n) PROVE FALSE
        <4>1. PICK i \in DOMAIN merged : merged[i] = n
          BY <3>1 DEF Holds
        <4>2. i = 1 \/ 1 < i
          BY <1>4
        <4>3. QED BY <4>1, <4>2, <1>2, <1>4, <1>5, <1>6, <1>7
      <3>2. QED BY <3>1 DEF QueueInv, QueuesAgree
    <2>3. stage[n] # "dispatching"
      BY <1>1 DEF In
    <2>4. QED BY <2>1, <2>2, <2>3, <1>6, FarFacts DEF Behind, Roomy
  <1>8. InOrder'
    <2>1. "dispatching" \in Stages /\ Far("merged") <= Far("dispatching")
      BY FarFacts DEF Stages
    <2>2. QED BY <1>1, <1>2, <1>3, <1>7, <2>1, MoveInOrder
  <1>9. Connectors' = Connectors /\ \A n : Via(n)' = Via(n)
    BY <1>1 DEF Connectors, Via
  <1>10. ASSUME NEW i \in DOMAIN Tail(merged), NEW j \in DOMAIN Tail(merged), i < j,
                Via(Tail(merged)[i]) = Via(Tail(merged)[j])
         PROVE  Tail(merged)[i] < Tail(merged)[j]
    <2>1. i + 1 \in DOMAIN merged /\ j + 1 \in DOMAIN merged /\ i + 1 < j + 1
      BY <1>4, <1>10
    <2>2. QED BY <2>1, <1>4, <1>5, <1>10
  <1>11. QueuesInOrder'
    BY <1>1, <1>9, <1>10 DEF QueuesInOrder
  <1>12. QED BY <1>8, <1>11

LEMMA HandleInOrder ==
  ASSUME QueueInv, PoolInv, Serial, InOrder, QueuesInOrder, NEW m \in Messages, Dispatch(m) \/ Handle(m)
  PROVE  InOrder' /\ QueuesInOrder'
PROOF
  <1>1. UNCHANGED <<setup, inbox, merged>>
    BY DEF Dispatch, Handle, Record, RunSucceeds, Fail, SendReply, StoreAnswer
  <1>2. \A n \in Messages : n \in Nat /\ stage[n] \in Stages
    BY SetupFacts DEF QueueInv, QueueTypes
  <1>3. \E s \in Handling \union {"replied", "failed"} :
           /\ stage' = [stage EXCEPT ![m] = s]
           /\ \/ stage[m] = "dispatching" /\ s = "started" /\ HasRoom
              \/ stage[m] \in Handling
    BY DEF Dispatch, Handle, Record, RunSucceeds, Fail, SendReply, StoreAnswer, Move, Handling
  <1>4. PICK s \in Handling \union {"replied", "failed"} :
           /\ stage' = [stage EXCEPT ![m] = s]
           /\ \/ stage[m] = "dispatching" /\ s = "started" /\ HasRoom
              \/ stage[m] \in Handling
    BY <1>3
  <1>5. ASSUME NEW n \in Messages, n < m, Via(n) = Via(m), stage[n] # "dropped"
        PROVE  Behind(s, stage[n])
    <2>1. Behind(stage[m], stage[n])
      BY <1>4, <1>5 DEF InOrder, Handling
    <2>2. n # m
      BY <1>2, <1>5
    <2>3. stage[n] \notin Handling
      BY <1>4, <2>2, OneHandler
    <2>4. Far(stage[n]) = 6
      BY <2>1, <2>3, <1>2, <1>4, FarFacts DEF Behind, Roomy
    <2>5. Far(s) \in 0..6
      BY <1>4, FarFacts DEF Stages, Settled
    <2>6. QED BY <2>4, <2>5 DEF Behind, Roomy
  <1>6. s \in Stages /\ Far(stage[m]) <= Far(s) /\ stage[m] # "dropped"
    BY <1>4, FarFacts DEF Stages, Settled, Handling
  <1>7. InOrder'
    BY <1>1, <1>4, <1>5, <1>6, MoveInOrder
  <1>8. QueuesInOrder'
    BY <1>1 DEF QueuesInOrder, Connectors, Via
  <1>9. QED BY <1>7, <1>8

(* The end of an orderly history is orderly, and so is one to which an     *)
(* entry is added that is no earlier than the others of its connector.     *)
LEMMA TrimIsEnd ==
  ASSUME setup \in Setups, NEW S, NEW h \in Seq(S)
  PROVE  \E d \in Nat :
           /\ Len(Trim(h)) + d = Len(h)
           /\ \A i \in 1..Len(Trim(h)) : Trim(h)[i] = h[i + d]
PROOF
  <1> DEFINE n == setup.maxHistory
             e == Len(h) - n
  <1>1. n \in Nat /\ Len(h) \in Nat
    BY SetupFacts
  <1>2. CASE Len(h) <= n
    <2>1. Trim(h) = h
      BY <1>2 DEF Trim
    <2>2. Len(h) + 0 = Len(h) /\ \A i \in 1..Len(h) : h[i] = h[i + 0]
      BY <1>1
    <2>3. QED BY <2>1, <2>2
  <1>3. CASE ~(Len(h) <= n)
    <2>1. e \in Nat /\ e + n = Len(h)
      BY <1>1, <1>3
    <2>2. Trim(h) = SubSeq(h, e + 1, Len(h))
      BY <1>3 DEF Trim
    <2> HIDE DEF e, n
    <2>3. Len(Trim(h)) = n /\ \A i \in 1..n : Trim(h)[i] = h[i + e]
      BY <1>1, <2>1, <2>2
    <2>4. Len(Trim(h)) + e = Len(h)
      BY <1>1, <2>1, <2>3
    <2>5. QED BY <2>1, <2>3, <2>4
  <1>4. QED BY <1>2, <1>3

LEMMA TrimOrderly ==
  ASSUME setup \in Setups, NEW h \in Seq(Entries), Orderly(h)
  PROVE  /\ Orderly(Trim(h))
         /\ Trim(h) # <<>> => h # <<>> /\ Trim(h)[Len(Trim(h))] = h[Len(h)]
PROOF
  <1> DEFINE g == Trim(h)
  <1>1. g \in Seq(Entries)
    BY TrimFacts
  <1>2. PICK d \in Nat : Len(g) + d = Len(h) /\ \A i \in 1..Len(g) : g[i] = h[i + d]
    BY TrimIsEnd
  <1> HIDE DEF g
  <1>3. /\ DOMAIN g = 1..Len(g) /\ DOMAIN h = 1..Len(h)
        /\ Len(g) \in Nat /\ Len(h) \in Nat
    BY <1>1
  <1>4. ASSUME NEW i \in DOMAIN g, NEW j \in 1..(i - 1), Via(g[j].id) = Via(g[i].id)
        PROVE  g[j].id <= g[i].id
    <2>1. i + d \in DOMAIN h /\ j + d \in 1..((i + d) - 1) /\ g[i] = h[i + d] /\ g[j] = h[j + d]
      BY SMTT(40), <1>2, <1>3, <1>4
    <2>2. QED BY <2>1, <1>4 DEF Orderly, Ascending
  <1>5. ASSUME NEW i \in DOMAIN g, g[i].role = "answer", i > 1
        PROVE  g[i - 1] = Entry("user", g[i].id)
    <2>1. /\ i + d \in DOMAIN h /\ i + d > 1 /\ g[i] = h[i + d]
          /\ g[i - 1] = h[(i - 1) + d] /\ (i - 1) + d = (i + d) - 1
      BY <1>2, <1>3, <1>5
    <2>2. h[(i + d) - 1] = Entry("user", h[i + d].id)
      BY <2>1, <1>5 DEF Orderly, Paired
    <2>3. QED BY <2>1, <2>2
  <1>6. ASSUME g # <<>> PROVE h # <<>> /\ g[Len(g)] = h[Len(h)]
    <2>1. Len(g) > 0
      BY <1>1, <1>6
    <2>2. Len(g) \in 1..Len(g) /\ Len(h) > 0
      BY <2>1, <1>2, <1>3
    <2>3. QED BY <2>2, <1>2
  <1>7. QED BY <1>4, <1>5, <1>6 DEF Orderly, Ascending, Paired, g

LEMMA AppendOrderly ==
  ASSUME NEW h \in Seq(Entries), NEW e \in Entries, Orderly(h),
         \A i \in DOMAIN h : Via(h[i].id) = Via(e.id) => h[i].id <= e.id,
         e.role = "answer" /\ h # <<>> => h[Len(h)] = Entry("user", e.id)
  PROVE  Orderly(Append(h, e))
PROOF
  <1> DEFINE g == Append(h, e)
             l == Len(h)
  <1>1. /\ DOMAIN g = 1..(l + 1) /\ DOMAIN h = 1..l /\ l \in Nat
        /\ \A i \in 1..l : g[i] = h[i]
        /\ g[l + 1] = e
    OBVIOUS
  <1>2. l > 0 => h # <<>>
    OBVIOUS
  <1> HIDE DEF g, l
  <1>3. ASSUME NEW i \in DOMAIN g, NEW j \in 1..(i - 1), Via(g[j].id) = Via(g[i].id)
        PROVE  g[j].id <= g[i].id
    <2>1. CASE i \in 1..l
      BY <2>1, <1>1, <1>3 DEF Orderly, Ascending
    <2>2. CASE i = l + 1
      BY <2>2, <1>1, <1>3
    <2>3. QED BY <2>1, <2>2, <1>1
  <1>4. ASSUME NEW i \in DOMAIN g, g[i].role = "answer", i > 1
        PROVE  g[i - 1] = Entry("user", g[i].id)
    <2>1. CASE i \in 1..l
      BY <2>1, <1>1, <1>4 DEF Orderly, Paired
    <2>2. CASE i = l + 1
      <3>1. l > 0 /\ l \in 1..l /\ i - 1 = l
        BY <2>2, <1>1, <1>4
      <3>2. h[l] = Entry("user", e.id)
        BY <3>1, <2>2, <1>1, <1>2, <1>4 DEF l
      <3>3. QED BY <3>1, <3>2, <2>2, <1>1
    <2>3. QED BY <2>1, <2>2, <1>1
  <1>5. QED BY <1>3, <1>4 DEF Orderly, Ascending, Paired, g

LEMMA EntryFacts ==
  ASSUME NEW m \in Messages
  PROVE  /\ Entry("user", m) \in Entries /\ Entry("answer", m) \in Entries
         /\ Entry("user", m).id = m /\ Entry("user", m).role = "user"
         /\ Entry("answer", m).id = m /\ Entry("answer", m).role = "answer"
PROOF BY DEF Entry, Entries

(* What is in a conversation is not later than the message of its connector *)
(* that is being handled.                                                  *)
LEMMA NoneLater ==
  ASSUME QueueInv, PoolInv, Serial, InOrder, NEW m \in Messages, stage[m] \in Handling,
         NEW c, NEW h \in Seq(Entries), FitsAll(stage, h, c),
         NEW i \in DOMAIN h, Via(h[i].id) = Via(m)
  PROVE  h[i].id <= m
PROOF
  <1> DEFINE n == h[i].id
  <1>1. h[i] \in Entries
    BY ElementOf
  <1>2. n \in Messages /\ n \in Nat /\ m \in Nat
    BY <1>1, SetupFacts DEF Entries, QueueInv, QueueTypes
  <1>3. stage[n] \in Recorded
    BY <1>1 DEF FitsAll, Fits, Entries, Recorded
  <1> HIDE DEF n
  <1>4. ASSUME m < n PROVE FALSE
    <2>1. stage[n] \notin Handling
      BY <1>2, <1>4, OneHandler
    <2>2. Far(stage[n]) = 6 /\ Far(stage[m]) = 5
      BY <1>3, <2>1, FarFacts DEF Recorded, Handling, Settled
    <2>3. stage[n] # "dropped" /\ stage[m] # "dropped"
      BY <1>3 DEF Recorded, Handling
    <2>4. Behind(stage[n], stage[m])
      BY <1>2, <1>4, <2>3 DEF InOrder, n
    <2>5. QED BY <2>2, <2>4 DEF Behind
  <1>5. QED BY <1>2, <1>4 DEF n

(* The conversations are in order when nothing is added to them.           *)
ConvosInOrder == Pending /\ \A c \in DOMAIN convos : Orderly(convos[c])

LEMMA SameOrder ==
  ASSUME UNCHANGED setup
  PROVE  /\ Messages' = Messages /\ \A m : Via(m)' = Via(m) /\ Convo(m)' = Convo(m)
         /\ \A r, m : Entry(r, m)' = Entry(r, m)
         /\ (\A c \in DOMAIN convos' : Orderly(convos'[c])) => (\A c \in DOMAIN convos : Orderly(convos[c]))'
PROOF BY DEF Messages, Via, Convo, Entry, Orderly, Ascending, Paired

LEMMA UntouchedConvos ==
  ASSUME QueueInv, ConvosInOrder, UNCHANGED setup,
         DOMAIN convos' \subseteq DOMAIN convos,
         \A c \in DOMAIN convos' : convos'[c] = convos[c],
         \A m \in Messages : stage'[m] \in Handling \ {"started"} => stage[m] \in Handling \ {"started"}
  PROVE  ConvosInOrder'
PROOF
  <1>1. Handling' = Handling
    BY DEF Handling
  <1>2. Pending'
    BY <1>1, SameOrder DEF ConvosInOrder, Pending
  <1>3. \A c \in DOMAIN convos' : Orderly(convos'[c])
    BY DEF ConvosInOrder
  <1>4. QED BY <1>2, <1>3, SameOrder DEF ConvosInOrder

LEMMA RecordInOrder ==
  ASSUME QueueInv, PoolInv, ConvoInv, Serial, InOrder, ConvosInOrder,
         NEW m \in Messages, Record(m)
  PROVE  ConvosInOrder'
PROOF
  <1> DEFINE e == Entry("user", m)
  <1>1. PICK d : d = Convo(m)
    OBVIOUS
  <1> DEFINE g == History(d)
             h == Trim(Append(g, e))
  <1>2. /\ stage[m] = "started" /\ setup \in Setups
        /\ stage' = [stage EXCEPT ![m] = "running"]
        /\ SetHistory(d, h) /\ setup' = setup
    BY <1>1 DEF Record, Move, QueueInv, QueueTypes
  <1>3. g \in Seq(Entries) /\ FitsAll(stage, g, d) /\ Orderly(g)
    <2>1. CASE d \in DOMAIN convos
      BY <2>1, ConsistentNow DEF History, ConvoInv, ConvoTypes, ConvosInOrder
    <2>2. CASE d \notin DOMAIN convos
      <3>1. g = <<>>
        BY <2>2 DEF History
      <3>2. QED BY <3>1 DEF FitsAll, Injective, Orderly, Ascending, Paired
    <2>3. QED BY <2>1, <2>2
  <1>4. e \in Entries /\ e.id = m /\ e.role = "user"
    BY EntryFacts
  <1>5. \A i \in DOMAIN g : Via(g[i].id) = Via(e.id) => g[i].id <= e.id
    BY <1>2, <1>3, <1>4, NoneLater DEF Handling
  <1> HIDE DEF e, g
  <1>6. Append(g, e) \in Seq(Entries) /\ Orderly(Append(g, e))
    BY <1>3, <1>4, <1>5, AppendOrderly
  <1>7. Append(g, e)[Len(Append(g, e))] = e
    BY <1>3, <1>4
  <1>8. Orderly(h) /\ (h # <<>> => h[Len(h)] = e)
    BY <1>2, <1>6, <1>7, TrimOrderly
  <1> HIDE DEF h
  <1>9. /\ DOMAIN convos' = DOMAIN convos \union {d}
        /\ convos'[d] = h
        /\ \A c \in DOMAIN convos \ {d} : convos'[c] = convos[c]
    BY <1>2 DEF SetHistory
  <1>10. \A c \in DOMAIN convos' : Orderly(convos'[c])
    BY <1>8, <1>9 DEF ConvosInOrder
  <1>11. ASSUME NEW n \in Messages, stage'[n] \in Handling PROVE n = m
    <2>1. \A o \in Messages : stage'[o] = IF o = m THEN "running" ELSE stage[o]
      BY <1>2 DEF QueueInv, QueueTypes
    <2>2. stage[n] \in Handling
      BY <2>1, <1>2, <1>11 DEF Handling
    <2>3. QED BY <2>2, <1>2, OneHandler DEF Handling
  <1>12. Pending'
    <2>1. Messages' = Messages /\ Handling' = Handling /\ Convo(m)' = d /\ Entry("user", m)' = e
      BY <1>1, <1>2, SameOrder DEF Handling, e
    <2>2. ASSUME NEW n \in Messages, stage'[n] \in Handling \ {"started"},
                 Convo(n)' \in DOMAIN convos', convos'[Convo(n)'] # <<>>
          PROVE  convos'[Convo(n)'][Len(convos'[Convo(n)'])] = Entry("user", n)'
      BY <2>1, <2>2, <1>8, <1>9, <1>11
    <2>3. QED BY <2>1, <2>2 DEF Pending
  <1>13. QED BY <1>2, <1>10, <1>12, SameOrder DEF ConvosInOrder

LEMMA StoreAnswerInOrder ==
  ASSUME QueueInv, PoolInv, ConvoInv, Serial, InOrder, ConvosInOrder,
         NEW m \in Messages, StoreAnswer(m)
  PROVE  ConvosInOrder'
PROOF
  <1> DEFINE e == Entry("answer", m)
  <1>1. PICK d : d = Convo(m)
    OBVIOUS
  <1>2. /\ stage[m] = "sent" /\ setup' = setup
        /\ stage' = [stage EXCEPT ![m] = "replied"]
    BY DEF StoreAnswer, Move
  <1>3. \A n \in Messages : stage'[n] = IF n = m THEN "replied" ELSE stage[n]
    BY <1>2 DEF QueueInv, QueueTypes
  <1>4. \A n \in Messages : stage'[n] \notin Handling
    BY <1>2, <1>3, OneHandler DEF Handling
  <1>5. Pending'
    BY <1>2, <1>4 DEF Pending, Messages, Handling
  <1>6. CASE d \notin DOMAIN convos
    <2>1. convos' = convos
      BY <1>1, <1>6 DEF StoreAnswer
    <2>2. QED BY <2>1, <1>2, <1>5, SameOrder DEF ConvosInOrder
  <1>7. CASE d \in DOMAIN convos
    <2> DEFINE g == convos[d]
               h == Append(g, e)
    <2>1. g \in Seq(Entries) /\ FitsAll(stage, g, d) /\ Orderly(g)
      BY <1>7, ConsistentNow DEF ConvoInv, ConvoTypes, ConvosInOrder
    <2>2. SetHistory(d, h)
      <3>1. SetHistory(d, g \o <<e>>)
        BY <1>1, <1>7 DEF StoreAnswer, Answered
      <3>2. g \o <<e>> = h
        BY <2>1
      <3>3. QED BY <3>1, <3>2
    <2>3. e \in Entries /\ e.id = m
      BY EntryFacts
    <2>4. \A i \in DOMAIN g : Via(g[i].id) = Via(e.id) => g[i].id <= e.id
      BY <1>2, <2>1, <2>3, NoneLater DEF Handling
    <2>5. g # <<>> => g[Len(g)] = Entry("user", m)
      BY <1>1, <1>2, <1>7 DEF ConvosInOrder, Pending, Handling
    <2> HIDE DEF e, g
    <2>6. Orderly(h)
      BY <2>1, <2>3, <2>4, <2>5, AppendOrderly
    <2> HIDE DEF h
    <2>7. /\ DOMAIN convos' = DOMAIN convos \union {d}
          /\ convos'[d] = h
          /\ \A c \in DOMAIN convos \ {d} : convos'[c] = convos[c]
      BY <2>2 DEF SetHistory
    <2>8. \A c \in DOMAIN convos' : Orderly(convos'[c])
      BY <2>6, <2>7 DEF ConvosInOrder
    <2>9. QED BY <2>8, <1>2, <1>5, SameOrder DEF ConvosInOrder
  <1>8. QED BY <1>6, <1>7

LEMMA NextSerialInv ==
  ASSUME QueueInv, PoolInv, ConvoInv, SerialInv, [Next]_vars
  PROVE  SerialInv'
PROOF
  <1> SUFFICES ASSUME Serial'
               PROVE  /\ InOrder' /\ QueuesInOrder'
                      /\ ConvosInOrder'
    BY DEF SerialInv, ConvosInOrder
  <1>1. setup' = setup
    BY SameSetup DEF vars
  <1>2. Serial /\ InOrder /\ QueuesInOrder /\ ConvosInOrder
    BY <1>1 DEF Serial, SerialInv, ConvosInOrder
  <1>3. stage \in [Messages -> Stages]
    BY DEF QueueInv, QueueTypes
  <1>4. CASE Aside \/ Return \/ UNCHANGED vars
    <2>1. UNCHANGED <<setup, stage, inbox, merged>>
      BY <1>4, AsideEffect DEF Return, vars
    <2>2. InOrder' /\ QueuesInOrder'
      BY <2>1, <1>2 DEF InOrder, QueuesInOrder, Messages, Connectors, Via
    <2>3. DOMAIN convos' \subseteq DOMAIN convos /\ \A c \in DOMAIN convos' : convos'[c] = convos[c]
      BY <1>4 DEF Aside, Open, FailToStart, Close, Cancel, GrowOld, Cleanup, Restrict, Return, vars
    <2>4. QED BY <2>1, <2>2, <2>3, <1>2, UntouchedConvos
  <1>5. ASSUME NEW m \in Messages, NEW s, stage' = [stage EXCEPT ![m] = s], UNCHANGED convos,
               s \notin Handling \ {"started"} \/ stage[m] \in Handling \ {"started"}
        PROVE  ConvosInOrder'
    <2>1. \A n \in Messages : stage'[n] = IF n = m THEN s ELSE stage[n]
      BY <1>3, <1>5
    <2>2. \A n \in Messages : stage'[n] \in Handling \ {"started"} => stage[n] \in Handling \ {"started"}
      BY <2>1, <1>5
    <2>3. QED BY <2>2, <1>1, <1>2, <1>5, UntouchedConvos
  <1>6. ASSUME NEW k \in Connectors, TakeFromInbox(k)
        PROVE  InOrder' /\ QueuesInOrder' /\ ConvosInOrder'
    <2>1. inbox[k] \in Seq(Messages) /\ inbox[k] # <<>>
      BY <1>6 DEF TakeFromInbox, QueueInv, QueueTypes
    <2>2. Head(inbox[k]) \in Messages
      BY <2>1
    <2>3. ConvosInOrder'
      BY <1>5, <1>6, <2>2 DEF TakeFromInbox, Move, Handling
    <2>4. QED BY <2>3, <1>2, <1>6, TakeFromInboxInOrder
  <1>7. CASE TakeFromMerged
    <2>1. merged \in Seq(Messages) /\ merged # <<>>
      BY <1>7 DEF TakeFromMerged, QueueInv, QueueTypes
    <2>2. Head(merged) \in Messages
      BY <2>1
    <2>3. ConvosInOrder'
      BY <1>5, <1>7, <2>2 DEF TakeFromMerged, Move, Handling
    <2>4. QED BY <2>3, <1>2, <1>7, TakeFromMergedInOrder
  <1>8. ASSUME NEW m \in Messages, Receive(m) \/ Drop(m) \/ Forward(m)
        PROVE  InOrder' /\ QueuesInOrder' /\ ConvosInOrder'
    <2>1. ConvosInOrder'
      BY <1>5, <1>8 DEF Receive, Drop, Forward, Move, Handling
    <2>2. QED BY <2>1, <1>2, <1>8, ReceiveInOrder, DropInOrder, ForwardInOrder
  <1>9. ASSUME NEW m \in Messages, Dispatch(m) \/ RunSucceeds(m) \/ Fail(m) \/ SendReply(m)
        PROVE  InOrder' /\ QueuesInOrder' /\ ConvosInOrder'
    <2>1. ConvosInOrder'
      BY <1>5, <1>9 DEF Dispatch, RunSucceeds, Fail, SendReply, Move, Handling
    <2>2. QED BY <2>1, <1>2, <1>9, HandleInOrder DEF Handle
  <1>10. ASSUME NEW m \in Messages, Record(m) \/ StoreAnswer(m)
         PROVE  InOrder' /\ QueuesInOrder' /\ ConvosInOrder'
    BY <1>2, <1>10, HandleInOrder, RecordInOrder, StoreAnswerInOrder DEF Handle
  <1>11. QED BY <1>4, <1>6, <1>7, <1>8, <1>9, <1>10, NextCases DEF Handle

LEMMA InitSerialInv == Init => SerialInv
PROOF
  <1> SUFFICES ASSUME Init PROVE SerialInv
    OBVIOUS
  <1>1. DOMAIN convos = {} /\ merged = <<>> /\ DOMAIN merged = {}
        /\ \A k \in Connectors : DOMAIN inbox[k] = {}
    BY DEF Init
  <1>2. \A m \in Messages : stage[m] = "out"
    BY DEF Init
  <1>3. InOrder
    BY <1>2, FarFacts DEF InOrder, Behind, Roomy
  <1>4. QueuesInOrder /\ Pending /\ \A c \in DOMAIN convos : Orderly(convos[c])
    BY <1>1 DEF QueuesInOrder, Pending
  <1>5. QED BY <1>3, <1>4 DEF SerialInv

(* With a concurrency of one, a conversation holds the messages of a        *)
(* connector in the order in which they came, and an answer right after    *)
(* its question, whatever is dropped, fails or expires in between.         *)
THEOREM ConversationsAreSerial == Spec => []SerialConversations
PROOF
  <1>1. Init => SerialInv
    BY InitSerialInv
  <1>2. IInv /\ SerialInv /\ [Next]_vars => SerialInv'
    BY NextSerialInv DEF IInv
  <1>3. IInv /\ SerialInv => SerialConversations
    BY DEF SerialInv, Serial, Orderly, Ascending, Paired, SerialConversations
  <1>4. QED BY <1>1, <1>2, <1>3, Inductive, PTL DEF Spec

(***************************************************************************)
(* The refinement.                                                         *)
(***************************************************************************)
StatusOf == [m \in Messages |-> Status(stage[m])]

LEMMA StatusMoves ==
  ASSUME QueueInv, setup' = setup, NEW m \in Messages, NEW s,
         stage' = [stage EXCEPT ![m] = s]
  PROVE  StatusOf' = [StatusOf EXCEPT ![m] = Status(s)]
PROOF
  <1>1. Messages' = Messages
    BY DEF Messages
  <1>2. stage \in [Messages -> Stages]
    BY DEF QueueInv, QueueTypes
  <1>3. QED BY <1>1, <1>2 DEF StatusOf, Status

LEMMA StatusStays ==
  ASSUME QueueInv, setup' = setup, NEW m \in Messages, NEW s,
         stage' = [stage EXCEPT ![m] = s], Status(s) = Status(stage[m])
  PROVE  StatusOf' = StatusOf
PROOF
  <1>1. StatusOf' = [StatusOf EXCEPT ![m] = Status(s)]
    BY StatusMoves
  <1>2. StatusOf[m] = Status(s)
    BY DEF StatusOf
  <1>3. [StatusOf EXCEPT ![m] = StatusOf[m]] = StatusOf
    BY DEF StatusOf
  <1>4. QED BY <1>1, <1>2, <1>3

LEMMA DeliverySteps ==
  ASSUME QueueInv, [Next]_vars
  PROVE  [Promise!DeliveryNext]_<<[m \in Messages |-> Status(stage[m])], returned>>
PROOF
  <1> DEFINE Goal == [Promise!DeliveryNext]_<<[m \in Messages |-> Status(stage[m])], returned>>
  <1>1. setup' = setup
    BY SameSetup DEF vars
  <1>2. DOMAIN StatusOf = Messages /\ \A m \in Messages : StatusOf[m] = Status(stage[m])
    BY DEF StatusOf
  <1>3. ASSUME StatusOf' = StatusOf, returned' = returned PROVE Goal
    BY <1>3 DEF StatusOf
  <1>4. ASSUME NEW m \in Messages, NEW s, stage' = [stage EXCEPT ![m] = s],
               Status(s) = Status(stage[m]), returned' = returned
        PROVE  Goal
    BY <1>1, <1>3, <1>4, StatusStays
  <1>5. ASSUME NEW m \in Messages, NEW s, stage' = [stage EXCEPT ![m] = s],
               Status(stage[m]) = "out", Status(s) \in {"taken", "refused"},
               ~returned, returned' = returned
        PROVE  Goal
    <2>1. Promise!Take(m)
      BY <1>1, <1>2, <1>5, StatusMoves DEF Promise!Take, Promise!Becomes, StatusOf
    <2>2. QED BY <2>1 DEF Promise!DeliveryNext
  <1>6. ASSUME NEW m \in Messages, NEW s, stage' = [stage EXCEPT ![m] = s],
               Status(stage[m]) = "taken", Status(s) \in {"replied", "failed"},
               ~returned, returned' = returned
        PROVE  Goal
    <2>1. Promise!Settle(m)
      BY <1>1, <1>2, <1>6, StatusMoves DEF Promise!Settle, Promise!Becomes, StatusOf
    <2>2. QED BY <2>1 DEF Promise!DeliveryNext
  <1> HIDE DEF Goal
  <1>7. CASE Aside \/ UNCHANGED vars
    <2>1. UNCHANGED <<stage, returned>>
      BY <1>7, AsideEffect DEF vars
    <2>2. StatusOf' = StatusOf
      BY <1>1, <2>1 DEF StatusOf, Messages, Status
    <2>3. Goal
      BY <2>1, <2>2, <1>3
    <2>4. QED BY <2>3 DEF Goal
  <1>8. CASE Return
    <2>1. /\ ~returned /\ returned' = TRUE /\ stage' = stage /\ NothingLeft'
      BY <1>8, NextQueueInv DEF Return, QueueInv
    <2>2. \A m \in Messages : stage[m] \in {"out"} \union Settled
      BY <1>1, <2>1 DEF NothingLeft, Messages, Settled
    <2>3. \A m \in Messages : Status(stage[m]) # "taken"
      BY <2>2 DEF Status, Settled
    <2>4. StatusOf' = StatusOf
      BY <1>1, <2>1 DEF StatusOf, Messages, Status
    <2>5. Promise!End
      BY <1>2, <2>1, <2>3, <2>4 DEF Promise!End, StatusOf
    <2>6. QED BY <2>5 DEF Promise!DeliveryNext
  <1>9. ASSUME NEW k \in Connectors, TakeFromInbox(k) PROVE Goal
    <2>1. inbox[k] \in Seq(Messages) /\ Injective(inbox[k]) /\ inbox[k] # <<>>
      BY <1>9 DEF QueueInv, QueueTypes, QueuesAgree, TakeFromInbox
    <2>2. Head(inbox[k]) \in Messages /\ Holds(inbox[k], Head(inbox[k]))
      BY <2>1, TailQueue
    <2>3. stage[Head(inbox[k])] = "inbox"
      BY <2>2 DEF QueueInv, QueuesAgree
    <2>4. /\ stage' = [stage EXCEPT ![Head(inbox[k])] = "forwarding"]
          /\ returned' = returned
      BY <1>9 DEF TakeFromInbox, Move
    <2>5. QED BY <1>4, <2>2, <2>3, <2>4 DEF Status
  <1>10. CASE TakeFromMerged
    <2>1. merged \in Seq(Messages) /\ Injective(merged) /\ merged # <<>>
      BY <1>10 DEF QueueInv, QueueTypes, QueuesAgree, TakeFromMerged
    <2>2. Head(merged) \in Messages /\ Holds(merged, Head(merged))
      BY <2>1, TailQueue
    <2>3. stage[Head(merged)] = "merged"
      BY <2>2 DEF QueueInv, QueuesAgree
    <2>4. /\ stage' = [stage EXCEPT ![Head(merged)] = "dispatching"]
          /\ returned' = returned
      BY <1>10 DEF TakeFromMerged, Move
    <2>5. Goal
      BY <1>4, <2>2, <2>3, <2>4 DEF Status
    <2>6. QED BY <2>5 DEF Goal
  <1>11. ASSUME NEW m \in Messages, Receive(m) \/ Drop(m) PROVE Goal
    <2>1. /\ stage[m] = "out" /\ returned' = returned
          /\ conn[Via(m)] = "open"
      BY <1>11 DEF Receive, Drop, Arrives
    <2>2. PICK s \in {"inbox", "dropped"} : stage' = [stage EXCEPT ![m] = s]
      BY <1>11 DEF Receive, Drop, Move
    <2>3. ~returned
      BY <2>1, BusyNotReturned
    <2>4. QED BY <1>5, <2>1, <2>2, <2>3 DEF Status
  <1>12. ASSUME NEW m \in Messages, Forward(m) \/ Dispatch(m) \/ Record(m) \/ RunSucceeds(m)
         PROVE  Goal
    <2>1. /\ stage[m] \in {"forwarding", "dispatching", "started", "running"}
          /\ returned' = returned
      BY <1>12 DEF Forward, Dispatch, Record, RunSucceeds
    <2>2. PICK s \in {"merged", "started", "running", "sending"} : stage' = [stage EXCEPT ![m] = s]
      BY <1>12 DEF Forward, Dispatch, Record, RunSucceeds, Move
    <2>3. QED BY <1>4, <2>1, <2>2 DEF Status
  <1>13. ASSUME NEW m \in Messages, Fail(m) \/ SendReply(m) PROVE Goal
    <2>1. stage[m] \in {"running", "sending"} /\ returned' = returned
      BY <1>13 DEF Fail, SendReply
    <2>2. PICK s \in {"failed", "sent"} : stage' = [stage EXCEPT ![m] = s]
      BY <1>13 DEF Fail, SendReply, Move
    <2>3. ~returned
      BY <2>1, BusyNotReturned DEF Handling
    <2>4. QED BY <1>6, <2>1, <2>2, <2>3 DEF Status
  <1>14. ASSUME NEW m \in Messages, StoreAnswer(m) PROVE Goal
    <2>1. stage[m] = "sent" /\ stage' = [stage EXCEPT ![m] = "replied"] /\ returned' = returned
      BY <1>14 DEF StoreAnswer, Move
    <2>2. QED BY <1>4, <2>1 DEF Status
  <1>15. Goal
    BY <1>7, <1>8, <1>9, <1>10, <1>11, <1>12, <1>13, <1>14, NextCases DEF Handle, Goal
  <1>16. QED BY <1>15 DEF Goal

(* The bridge implements the delivery it promises: each message is taken or *)
(* refused once, settled once, and Run returns with nothing unsettled.     *)
THEOREM RefinesDelivery == Spec => ImplementsDelivery
PROOF
  <1>1. Init => Promise!DeliveryInit
    BY DEF Init, Promise!DeliveryInit, Status
  <1>2. IInv /\ [Next]_vars
          => [Promise!DeliveryNext]_<<[m \in Messages |-> Status(stage[m])], returned>>
    BY DeliverySteps DEF IInv
  <1>3. QED BY <1>1, <1>2, Inductive, PTL DEF Spec, ImplementsDelivery, Promise!DeliverySpec
=============================================================================
