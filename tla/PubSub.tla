------------------------------- MODULE PubSub -------------------------------
(***************************************************************************)
(* The message bus of agents (pubsub/bus.go): a publisher copies the       *)
(* subscribers of its topic and sends an envelope for each into a bounded  *)
(* channel; the routing loop starts a run for every envelope.              *)
(***************************************************************************)
EXTENDS Naturals, Sequences, SequencesExt

CONSTANT Agents      \* Agents: the agents that may subscribe

VARIABLES
  subs,        \* subs: the subscribers of the topic, in order
  envelopes,   \* envelopes: the channel of the bus
  publisher,   \* publisher: the subscribers a Publish has yet to send to
  bus          \* bus: whether Start's loop runs

busVars == <<subs, envelopes, publisher, bus>>

BusInit(initial) ==
  /\ subs = initial
  /\ envelopes = <<>>
  /\ publisher = <<>>
  /\ bus = "running"

Subscribe(a) ==
  /\ subs' = Append(subs, a)
  /\ UNCHANGED <<envelopes, publisher, bus>>

(* One subscription of the agent goes, the first.                          *)
Unsubscribe(a) ==
  /\ a \in Range(subs)
  /\ subs' = RemoveFirst(subs, a)
  /\ UNCHANGED <<envelopes, publisher, bus>>

(* Without subscribers Publish returns an error.                           *)
Publish ==
  /\ publisher = <<>>
  /\ subs # <<>>
  /\ publisher' = subs
  /\ UNCHANGED <<subs, envelopes, bus>>

(* Mutant of HasRoom: the channel takes one more than it holds.            *)
HasRoomForOneMore(capacity) == Len(envelopes) <= capacity

HasRoom(capacity) == Len(envelopes) < capacity

Send(capacity) ==
  /\ publisher # <<>>
  /\ HasRoom(capacity)
  /\ envelopes' = Append(envelopes, Head(publisher))
  /\ publisher' = Tail(publisher)
  /\ UNCHANGED <<subs, bus>>

(* The publisher's context is done: the rest is not sent.                  *)
GiveUpPublishing ==
  /\ publisher # <<>>
  /\ publisher' = <<>>
  /\ UNCHANGED <<subs, envelopes, bus>>

Deliver ==
  /\ bus = "running"
  /\ envelopes # <<>>
  /\ envelopes' = Tail(envelopes)
  /\ UNCHANGED <<subs, publisher, bus>>

StopBus ==
  /\ bus = "running"
  /\ bus' = "stopped"
  /\ UNCHANGED <<subs, envelopes, publisher>>

BusTypeOK(capacity) ==
  /\ subs \in Seq(Agents)
  /\ envelopes \in Seq(Agents)
  /\ Len(envelopes) <= capacity
  /\ publisher \in Seq(Agents)
  /\ bus \in {"running", "stopped"}
=============================================================================
