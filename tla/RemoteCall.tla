----------------------------- MODULE RemoteCall -----------------------------
(***************************************************************************)
(* The Model Context Protocol: the client that turns the tools of a server *)
(* into tools of an agent (mcp/mcp.go), and a server (mcp/server.go).  The *)
(* requests of one connection go through one mutex, which over stdio is    *)
(* held while the pipe is read up to the answer with the request's id.     *)
(***************************************************************************)
EXTENDS Naturals, Sequences, FiniteSets

CONSTANTS
  ToolCalls    \* the calls of tools that agents make, concurrently

ASSUME ToolCallsAssumption == "connect" \notin ToolCalls /\ "free" \notin ToolCalls

VARIABLES
  wire,        \* wire: the transport, and whether the server is silent or gone
  lock,        \* lock: who holds the mutex of the transport
  lastId,      \* lastId: the client's counter of requests
  requests,    \* requests: what the server has still to read
  replies,     \* replies: what the client has still to read
  calls        \* calls: the callers

remoteVars == <<wire, lock, lastId, requests, replies, calls>>

Callers == ToolCalls \cup {"connect"}

(* Connecting is a handshake and the list of tools.                        *)
Program(c) == IF c = "connect" THEN <<"initialize", "initialized", "tools/list">>
              ELSE <<"tools/call">>

IsNotification(method) == method = "initialized"

RemoteInit ==
  /\ wire \in [transport : {"stdio", "http"}, silent : BOOLEAN, gone : {FALSE}]
  /\ lock = "free"
  /\ lastId = 0
  /\ requests = <<>>
  /\ replies = <<>>
  /\ calls = [c \in Callers |-> [stage |-> "idle", step |-> 1, id |-> 0, got |-> <<>>,
                                 cancelled |-> FALSE]]

Method(c) == Program(c)[calls[c].step]

(* The id is taken before the mutex.                                       *)
BeginCall(c) ==
  /\ calls[c].stage = "idle"
  /\ c # "connect" => calls["connect"].stage = "done"
  /\ LET id == IF IsNotification(Method(c)) THEN 0 ELSE lastId + 1 IN
     /\ calls' = [calls EXCEPT ![c] = [calls[c] EXCEPT !.stage = "waiting", !.id = id]]
     /\ lastId' = IF id = 0 THEN lastId ELSE id
  /\ UNCHANGED <<wire, lock, requests, replies>>

(* A call that ends: a caller goes on to its next request or is done; what *)
(* fails is done, the failure of a notification aside, and a handshake     *)
(* that fails stops the server.                                            *)
Ended(c, reply, ok) ==
  LET k == [calls[c] EXCEPT !.got = Append(@, reply)]
      last == calls[c].step = Len(Program(c)) IN
  [calls EXCEPT ![c] = IF ok /\ ~last THEN [k EXCEPT !.stage = "idle", !.step = @ + 1]
                       ELSE [k EXCEPT !.stage = IF ok THEN "done" ELSE "failed"]]

WireAfterFailure(c) ==
  IF c = "connect" /\ calls[c].step = 1 /\ wire.transport = "stdio"
  THEN [wire EXCEPT !.gone = TRUE] ELSE wire

Nothing == [id |-> 0, to |-> "connect", method |-> "nothing"]

WriteRequest(c) ==
  /\ calls[c].stage = "waiting"
  /\ lock = "free"
  /\ \/ /\ ~wire.gone
        /\ requests' = Append(requests, [id |-> calls[c].id, to |-> c, method |-> Method(c)])
        /\ IF IsNotification(Method(c))
           THEN /\ calls' = Ended(c, Nothing, TRUE)
                /\ UNCHANGED lock
           ELSE /\ calls' = [calls EXCEPT ![c].stage = "reading"]
                /\ lock' = c
        /\ UNCHANGED wire
     \/ /\ wire.gone
        /\ calls' = Ended(c, Nothing, IsNotification(Method(c)))
        /\ wire' = WireAfterFailure(c)
        /\ UNCHANGED <<lock, requests>>
  /\ UNCHANGED <<lastId, replies>>

(* The server answers one request after another, unless it is silent; it   *)
(* may write a line that is no answer, and may answer a notification.      *)
ServerAnswers ==
  /\ requests # <<>>
  /\ ~wire.gone
  /\ LET request == Head(requests) IN
     \E noise \in {<<>>, <<Nothing>>} :
       /\ wire.transport = "http" => noise = <<>>
       /\ wire.silent => IsNotification(request.method)
       /\ replies' = IF IsNotification(request.method)
                     THEN replies \o noise ELSE replies \o noise \o <<request>>
  /\ requests' = Tail(requests)
  /\ UNCHANGED <<wire, lock, lastId, calls>>

(* Mutant of Matches: the first line is taken for the answer.              *)
MatchesAny(c, reply) == reply.id \in Nat

Matches(c, reply) == reply.id = calls[c].id

(* An answer may be an error of the protocol, for the whole call to fail.  *)
ReadReply(c) ==
  /\ lock = c
  /\ replies # <<>>
  /\ replies' = Tail(replies)
  /\ IF Matches(c, Head(replies))
     THEN \E ok \in BOOLEAN :
            /\ calls' = Ended(c, Head(replies), ok)
            /\ wire' = IF ok THEN wire ELSE WireAfterFailure(c)
            /\ lock' = "free"
     ELSE UNCHANGED <<calls, wire, lock>>
  /\ UNCHANGED <<lastId, requests>>

(* Mutant of ReadBreaks: the mutex is not given back.                      *)
ReadBreaksLocked(c) ==
  /\ lock = c
  /\ calls[c].stage = "reading"
  /\ wire.gone /\ replies = <<>>
  /\ calls' = Ended(c, Nothing, FALSE)
  /\ UNCHANGED <<wire, lock, lastId, requests, replies>>

(* The server is gone, or a request over http is cancelled.                *)
ReadBreaks(c) ==
  /\ lock = c
  /\ \/ wire.gone /\ replies = <<>>
     \/ wire.transport = "http" /\ calls[c].cancelled
  /\ calls' = Ended(c, Nothing, FALSE)
  /\ wire' = WireAfterFailure(c)
  /\ lock' = "free"
  /\ requests' = <<>>
  /\ replies' = <<>>
  /\ UNCHANGED lastId

(* A caller's context is done: over stdio nobody looks.                    *)
CancelCall(c) ==
  /\ calls[c].stage \in {"waiting", "reading"}
  /\ ~calls[c].cancelled
  /\ calls' = [calls EXCEPT ![c].cancelled = TRUE]
  /\ UNCHANGED <<wire, lock, lastId, requests, replies>>

(* The process ends, by itself or because Connect's context is done.       *)
ServerEnds ==
  /\ wire.transport = "stdio"
  /\ ~wire.gone
  /\ wire' = [wire EXCEPT !.gone = TRUE]
  /\ requests' = <<>>
  /\ UNCHANGED <<lock, lastId, replies, calls>>

CallStep(c) == BeginCall(c) \/ WriteRequest(c) \/ ReadReply(c) \/ ReadBreaks(c)
RemoteNext ==
  \/ \E c \in Callers : CallStep(c) \/ CancelCall(c)
  \/ ServerAnswers \/ ServerEnds

-----------------------------------------------------------------------------
(* Properties.                                                             *)

RemoteTypeOK ==
  /\ lock \in Callers \cup {"free"}
  /\ \A c \in Callers : calls[c].stage \in {"idle", "waiting", "reading", "done", "failed"}
  /\ \A c \in Callers : calls[c].stage = "reading" <=> lock = c

(* What a call returns is the server's answer to that very request, however *)
(* the calls of a batch interleave, and what the server writes in between   *)
(* and answers to notifications go to nobody (mcp.go:295-327).             *)
AnswersMatch ==
  \A c \in Callers : \A n \in DOMAIN calls[c].got :
    calls[c].got[n] = Nothing
    \/ (calls[c].got[n].to = c /\ calls[c].got[n].method = Program(c)[n])

(* A call of a server that answers or ends returns.                        *)
CallsReturn ==
  \A c \in Callers :
    (calls[c].stage # "idle" /\ ~wire.silent) ~> calls[c].stage \in {"idle", "done", "failed"}
=============================================================================
