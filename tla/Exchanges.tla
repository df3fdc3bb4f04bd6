----------------------------- MODULE Exchanges ------------------------------
(***************************************************************************)
(* The exchanges of a program with what is outside of it: requests to      *)
(* model services and their streams, the form the conversation takes on    *)
(* the wire, the messages of the platforms, and the tools of an MCP server. *)
(* They share no state, so a behaviour is about one of them at a time.     *)
(***************************************************************************)
EXTENDS ProviderClient, ProviderStream, Wire, Feed, RemoteCall

CONSTANTS
  Stacks,      \* the providers that are called
  Scripts      \* what the services stream

(* A provider has members, and a member clients.                           *)
ASSUME StacksAssumption ==
  /\ Stacks # {}
  /\ \A s \in Stacks :
       /\ s \in Seq(MemberKinds) /\ s # <<>>
       /\ \A m \in DOMAIN s : s[m].clients # <<>>

(* More of a call comes after its first fragment, only from the services   *)
(* that stream fragments; whole calls are told apart by their place.       *)
StreamEvents ==
  [type : {"text", "call", "delta", "error", "refused"}, words : Seq(STRING), index : Nat]
ASSUME ScriptsAssumption ==
  /\ Scripts # {}
  /\ \A s \in Scripts :
       /\ s.service \in {"openai", "anthropic", "google", "ollama"}
       /\ s.events \in Seq(StreamEvents)
       /\ s.ending \in {"complete", "cut", "broken"}
       /\ s.capacity \in Nat \ {0} /\ s.mayCancel \in BOOLEAN
       /\ \A e \in Range(s.events) : e.type # "text" => e.words = <<>>
       /\ s.service = "openai" =>
            \A e \in Range(s.events) :
              e.type = "delta" => CallPart(e.index) \in Range(s.events)
       /\ s.service \in {"google", "ollama"} =>
            /\ IsInjective(CallsOf(s.events))
            /\ \A e \in Range(s.events) : e.type # "delta"

VARIABLE about \* about: which exchange a behaviour is about

vars == <<about, clientVars, streamVars, wireVars, feedVars, remoteVars>>

Subjects == {"client", "stream", "wire", "feed", "remote"}

AStack == CHOOSE s \in Stacks : TRUE
AScript == CHOOSE s \in Scripts : TRUE

Init ==
  /\ about \in Subjects
  /\ IF about = "client" THEN stack \in Stacks ELSE stack = AStack
  /\ ClientInit
  /\ IF about = "stream" THEN script \in Scripts ELSE script = AScript
  /\ StreamInit
  /\ WireInit
  /\ about # "wire" => service = "openai"
  /\ IF about = "feed" THEN kind \in Pollers \cup Hooks ELSE kind = "slack"
  /\ FeedInit
  /\ RemoteInit
  /\ about # "remote" => wire = [transport |-> "http", silent |-> FALSE, gone |-> FALSE]

Client_ == about = "client" /\ UNCHANGED <<about, streamVars, wireVars, feedVars, remoteVars>>
Stream_ == about = "stream" /\ UNCHANGED <<about, clientVars, wireVars, feedVars, remoteVars>>
Wire_ == about = "wire" /\ UNCHANGED <<about, clientVars, streamVars, feedVars, remoteVars>>
Feed_ == about = "feed" /\ UNCHANGED <<about, clientVars, streamVars, wireVars, remoteVars>>
Remote_ == about = "remote" /\ UNCHANGED <<about, clientVars, streamVars, wireVars, feedVars>>

Next ==
  \/ (ClientStep \/ AbandonChat) /\ Client_
  \/ (ReaderStep \/ Consume \/ CancelStream) /\ Stream_
  \/ WireNext /\ Wire_
  \/ FeedNext /\ Feed_
  \/ RemoteNext /\ Remote_

Spec == Init /\ [][Next]_vars

(* What runs goes on running: the client, the goroutine that reads and the *)
(* one that consumes, the connector and the bridge, and an MCP server that *)
(* is not silent.  Nobody has to cancel, publish, fail or end; a mutex is  *)
(* given to everyone who waits for it (sync.Mutex does not starve).        *)
Fairness ==
  /\ WF_vars(ClientStep /\ Client_)
  /\ WF_vars(ReaderStep /\ Stream_) /\ WF_vars(Consume /\ Stream_)
  /\ WF_vars((Poll \/ Send \/ EnqueueCancelled \/ EndPoll \/ Handle) /\ Feed_)
  /\ WF_vars(CloseFeed /\ Feed_) /\ WF_vars(TakeItem /\ Feed_)
  /\ WF_vars(ServerAnswers /\ Remote_)
  /\ \A c \in Callers : /\ WF_vars((BeginCall(c) \/ ReadReply(c) \/ ReadBreaks(c)) /\ Remote_)
                        /\ SF_vars(WriteRequest(c) /\ Remote_)

FairSpec == Spec /\ Fairness

-----------------------------------------------------------------------------
(* Properties.                                                             *)

TypeOK ==
  /\ about \in Subjects
  /\ ClientTypeOK /\ StreamTypeOK /\ WireTypeOK /\ FeedTypeOK /\ RemoteTypeOK

(* Every exchange ends: a call of a provider has an answer or an error, a  *)
(* stream a response, a feed that hears it shall end closes its channel,   *)
(* and a call of a server that answers or ends returns.                    *)
ExchangesEnd ==
  /\ about = "client" ~> call.stage = "done"
  /\ reader.stage # "idle" ~> got.result # "none"
  /\ FeedsClose
  /\ CallsReturn
=============================================================================
