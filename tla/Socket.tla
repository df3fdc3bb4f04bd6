------------------------------- MODULE Socket -------------------------------
(***************************************************************************)
(* Agents behind WebSockets: the connector, which passes the text frames   *)
(* of its clients on to a bridge (ws/connector.go), and the server, which  *)
(* runs an agent for each of them (ws/server.go, ws/conn.go).  Frames are  *)
(* whole: framing and masking are left out.  That net/http cancels the     *)
(* context of a request when its handler returns is external.              *)
(***************************************************************************)
EXTENDS Naturals, Sequences, FiniteSets

CONSTANTS
  Clients,     \* the clients
  MaxFrames,   \* bound: the frames a client sends
  ChannelCap   \* capacity of the connector's channel (64 in the code)

VARIABLES
  mode,        \* mode: connector or server
  conns,       \* conns: the connections
  registry,    \* registry: the connections the connector can send to
  inFlight,    \* inFlight: frames the clients have sent and nobody has read
  msgs,        \* msgs: the connector's channel
  runs,        \* runs: the goroutines of handleMessage
  written      \* written: what the clients have been sent

socketVars == <<mode, conns, registry, inFlight, msgs, runs, written>>

Frame == {"text", "ping", "close"}

SocketInit ==
  /\ mode \in {"connector", "server"}
  /\ conns = [c \in Clients |-> [stage |-> "new", requestDone |-> FALSE, session |-> 0,
                                 sent |-> 0, left |-> FALSE]]
  /\ registry = {}
  /\ inFlight = [c \in Clients |-> <<>>]
  /\ msgs = <<>>
  /\ runs = {}
  /\ written = [c \in Clients |-> <<>>]

(* A handshake: the connection is stored and its goroutine started.        *)
Upgrade(c) ==
  /\ conns[c].stage = "new"
  /\ conns' = [conns EXCEPT ![c].stage = "serving"]
  /\ registry' = registry \cup {c}
  /\ UNCHANGED <<mode, inFlight, msgs, runs, written>>

HandlerReturns(c) ==
  /\ conns[c].stage = "serving"
  /\ ~conns[c].requestDone
  /\ conns' = [conns EXCEPT ![c].requestDone = TRUE]
  /\ UNCHANGED <<mode, registry, inFlight, msgs, runs, written>>

(* The client sends a frame; a text frame to the server may name a session. *)
ClientSends(c) ==
  /\ conns[c].stage = "serving"
  /\ conns[c].sent < MaxFrames /\ ~conns[c].left
  /\ \E type \in Frame : \E session \in IF type = "text" /\ mode = "server" THEN 0..2 ELSE {0} :
       /\ inFlight' = [inFlight EXCEPT ![c] = Append(@, [type |-> type, session |-> session])]
       /\ conns' = [conns EXCEPT ![c].sent = @ + 1, ![c].left = type = "close"]
  /\ UNCHANGED <<mode, registry, msgs, runs, written>>

ClientVanishes(c) ==
  /\ conns[c].stage = "serving"
  /\ ~conns[c].left
  /\ conns' = [conns EXCEPT ![c].left = TRUE]
  /\ UNCHANGED <<mode, registry, inFlight, msgs, runs, written>>

Closing(c) ==
  /\ conns' = [conns EXCEPT ![c].stage = "closed"]
  /\ registry' = registry \ {c}

Write(c, what) == written' = [written EXCEPT ![c] = Append(@, what)]

FrameOf(c, type) ==
  /\ conns[c].stage = "serving"
  /\ inFlight[c] # <<>> /\ Head(inFlight[c]).type = type
  /\ inFlight' = [inFlight EXCEPT ![c] = Tail(@)]

ReadControl(c) ==
  /\ \/ FrameOf(c, "ping") /\ Write(c, "pong") /\ UNCHANGED <<conns, registry>>
     \/ FrameOf(c, "close") /\ Write(c, "close") /\ Closing(c)
  /\ UNCHANGED <<mode, msgs, runs>>

(* The connector's text frame waits for room or ends the connection when   *)
(* the request's context is done: both may be the case at once.            *)
ForwardText(c) ==
  /\ mode = "connector"
  /\ FrameOf(c, "text")
  /\ \/ Len(msgs) < ChannelCap /\ msgs' = Append(msgs, c) /\ UNCHANGED <<conns, registry>>
     \/ conns[c].requestDone /\ Closing(c) /\ UNCHANGED msgs
  /\ UNCHANGED <<mode, runs, written>>

(* The server's text frame sets the session of the connection and starts a *)
(* goroutine, which reads the session later.                               *)
StartRun(c) ==
  /\ mode = "server"
  /\ FrameOf(c, "text")
  /\ LET named == Head(inFlight[c]).session IN
     /\ conns' = [conns EXCEPT ![c].session = IF named = 0 THEN @ ELSE named]
     /\ runs' = runs \cup {[conn |-> c, n |-> conns[c].sent - Len(inFlight[c]), asked |-> named,
                            stage |-> "starting", session |-> 0]}
  /\ UNCHANGED <<mode, registry, msgs, written>>

ReadSession(run) ==
  /\ run.stage = "starting"
  /\ runs' = (runs \ {run}) \cup
       {[run EXCEPT !.stage = "running", !.session = conns[run.conn].session]}
  /\ UNCHANGED <<mode, conns, registry, inFlight, msgs, written>>

(* A run under a context that is done fails at its first request.          *)
FinishRun(run) ==
  /\ run.stage = "running"
  /\ runs' = runs \ {run}
  /\ \/ conns[run.conn].stage = "closed" /\ UNCHANGED written
     \/ /\ conns[run.conn].stage = "serving"
        /\ \/ Write(run.conn, "error")
           \/ ~conns[run.conn].requestDone /\ Write(run.conn, "done")
  /\ UNCHANGED <<mode, conns, registry, inFlight, msgs>>

ReadFails(c) ==
  /\ conns[c].stage = "serving"
  /\ inFlight[c] = <<>> /\ conns[c].left
  /\ Closing(c)
  /\ UNCHANGED <<mode, inFlight, msgs, runs, written>>

(* The bridge takes a message and sends its answer to the session.         *)
Reply ==
  /\ msgs # <<>>
  /\ msgs' = Tail(msgs)
  /\ IF Head(msgs) \in registry THEN Write(Head(msgs), "done") ELSE UNCHANGED written
  /\ UNCHANGED <<mode, conns, registry, inFlight, runs>>

SocketNext ==
  \/ \E c \in Clients :
       \/ Upgrade(c) \/ HandlerReturns(c) \/ ClientSends(c) \/ ClientVanishes(c)
       \/ ReadControl(c) \/ ForwardText(c) \/ StartRun(c) \/ ReadFails(c)
  \/ \E run \in runs : ReadSession(run) \/ FinishRun(run)
  \/ Reply

SocketSpec == SocketInit /\ [][SocketNext]_socketVars

-----------------------------------------------------------------------------
(* The connector says that "incoming WebSocket text frames are forwarded   *)
(* to Messages()" (ws/connector.go:18): a connection ends only when its    *)
(* client has left.                                                        *)
FramesForwarded ==
  mode = "connector" => \A c \in Clients : conns[c].stage = "closed" => conns[c].left
=============================================================================
