------------------------------ MODULE MCBridge ------------------------------
(* The bridges that TLC checks.                                            *)
EXTENDS Bridge

Link(overflow, start) == [overflow |-> overflow, start |-> start]

(* Two messages of one conversation and one of another, two connectors.    *)
Pooled(concurrency, maxHistory) ==
  [connector |-> [k \in {"poll", "hook"} |->
                    IF k = "poll" THEN Link("wait", "ok") ELSE Link("drop", "mayEnd")],
   message |-> <<[via |-> "poll", convo |-> "c"], [via |-> "poll", convo |-> "c"],
                 [via |-> "hook", convo |-> "d"]>>,
   concurrency |-> concurrency, maxHistory |-> maxHistory, buffer |-> 1,
   expires |-> FALSE]

(* Three messages of one conversation that may expire at any time.         *)
Expiring(concurrency, maxHistory) ==
  [connector |-> [k \in {"hook"} |-> Link("drop", "ok")],
   message |-> [m \in 1..3 |-> [via |-> "hook", convo |-> "c"]],
   concurrency |-> concurrency, maxHistory |-> maxHistory, buffer |-> 2,
   expires |-> TRUE]

(* A connector that may not start, next to one that does.                  *)
Broken ==
  [connector |-> [k \in {"poll", "mail"} |->
                    IF k = "poll" THEN Link("wait", "ok") ELSE Link("drop", "mayFail")],
   message |-> <<[via |-> "poll", convo |-> "c"], [via |-> "mail", convo |-> "d"]>>,
   concurrency |-> 1, maxHistory |-> 2, buffer |-> 1, expires |-> FALSE]

(* A WebSocket: messages may be lost, and the channel is never closed.     *)
Socket ==
  [connector |-> [k \in {"ws"} |-> Link("mayDrop", "forever")],
   message |-> <<[via |-> "ws", convo |-> "c"], [via |-> "ws", convo |-> "d"]>>,
   concurrency |-> 2, maxHistory |-> 2, buffer |-> 1, expires |-> FALSE]

MCSetups ==
  {Pooled(1, 3), Pooled(2, 1), Pooled(2, 4),
   Expiring(1, 3), Expiring(2, 1), Expiring(3, 2), Broken, Socket}

SocketOnly == {Socket}
=============================================================================
