-------------------------------- MODULE Wire --------------------------------
(***************************************************************************)
(* A conversation as it goes over the wire: what the clients make of the   *)
(* messages before they send them (provider/openai, anthropic, google,     *)
(* ollama), while agents with different services answer in turn.           *)
(*   A message has a role, whether it has text, its calls or the call it   *)
(* answers, and the service and the way the calls came in.                 *)
(*   An agent hands a conversation over from the middle of the results of  *)
(* its calls: the call that hands over and those after it have no result,  *)
(* and what comes next is the user message of the target with the reason   *)
(* (runner.go:263-349, 133-137).  The history given along is the whole     *)
(* one; the last messages of it, and the prompts of the targets, which go  *)
(* in front of the first, are left out.                                    *)
(***************************************************************************)
EXTENDS Naturals, Sequences, FiniteSets, SequencesExt, Selection

CONSTANTS
  Names,       \* names of tools
  MaxMessages  \* bound: the messages of a conversation

ASSUME WireBounds == MaxMessages \in Nat \ {0}

VARIABLES
  conv,        \* conv: the conversation
  pending,     \* pending: the calls that wait for their results
  service,     \* service: the service of the agent in charge
  unanswered   \* where hand-offs left calls without a result: <<message, call>>

wireVars == <<conv, pending, service, unanswered>>

WireServices == {"openai", "anthropic", "google", "ollama"}

Message(role, text, calls, answers, from) ==
  [role |-> role, text |-> text, calls |-> calls, answers |-> answers, from |-> from]

(* The id of a call: openai and anthropic make one up, google has none and *)
(* the client takes the name, with the index when it streams, and ollama's *)
(* calls are numbered in each answer.                                      *)
GoogleCallId(way, name, i) == IF way = "chat" THEN <<name>> ELSE <<name, i>>
OllamaCallId(i) == <<"call", i>>
CallId(s, way, name, i, fresh) ==
  CASE s = "google" -> GoogleCallId(way, name, i)
    [] s = "ollama" -> OllamaCallId(i)
    [] OTHER -> <<"id", fresh, i>>

WireInit ==
  /\ conv = <<Message("system", TRUE, <<>>, <<>>, "none")>>
  /\ pending = <<>>
  /\ service \in WireServices
  /\ unanswered = {}

Growing == Len(conv) < MaxMessages

Say ==
  /\ pending = <<>> /\ Growing
  /\ conv' = Append(conv, Message("user", TRUE, <<>>, <<>>, "none"))
  /\ UNCHANGED <<pending, service, unanswered>>

Answers(way, text, names) ==
  /\ pending = <<>> /\ Growing
  /\ Last(conv).role \in {"user", "tool"}
  /\ LET calls == [i \in DOMAIN names |->
                     [name |-> names[i], id |-> CallId(service, way, names[i], i - 1, Len(conv))]]
     IN /\ conv' = Append(conv, Message("assistant", text, calls, <<>>, service))
        /\ pending' = [i \in DOMAIN calls |-> calls[i].id]
  /\ UNCHANGED <<service, unanswered>>

Return ==
  /\ pending # <<>> /\ Growing
  /\ conv' = Append(conv, Message("tool", TRUE, <<>>, Head(pending), "none"))
  /\ pending' = Tail(pending)
  /\ UNCHANGED <<service, unanswered>>

(* The first call that waits hands the conversation over, to an agent with *)
(* the same service or another: it and the calls after it stay without a   *)
(* result, and the reason follows as the message of a user.                *)
CallPlaces == UNION {{i} \X DOMAIN conv[i].calls : i \in DOMAIN conv}
WaitingPlaces == {x \in CallPlaces : x[1] + x[2] > Len(conv)}

HandOff(s) ==
  /\ pending # <<>> /\ Growing
  /\ unanswered' = unanswered \cup WaitingPlaces
  /\ conv' = Append(conv, Message("user", TRUE, <<>>, <<>>, "none"))
  /\ pending' = <<>>
  /\ service' = s

(* Between two requests a fallback answers, or another agent goes on.      *)
TakeOver(s) ==
  /\ pending = <<>>
  /\ s # service
  /\ service' = s
  /\ UNCHANGED <<conv, pending, unanswered>>

WireNext ==
  \/ Say \/ Return
  \/ \E way \in {"chat", "stream"}, text \in BOOLEAN, names \in UNION {[1..n -> Names] : n \in 0..2} :
       Answers(way, text, names)
  \/ \E s \in WireServices : HandOff(s) \/ TakeOver(s)

-----------------------------------------------------------------------------
(* The conversions.                                                        *)

(* A part of a message: text, a call or a result, and what it refers to.   *)
Part(type, ref) == [type |-> type, ref |-> ref]
Content(role, parts) == [role |-> role, parts |-> parts]
NoText == Part("text", <<>>)

TextParts(m) == IF m.text THEN <<NoText>> ELSE <<>>
OrNoText(parts) == IF parts = <<>> THEN <<NoText>> ELSE parts

RequestToolCall(c) == Part("call", c.id)
ToolUse(c) == Part("call", c.id)
FunctionCall(c) == Part("call", <<c.name>>)     \* there is no id
OllamaToolCall(c) == Part("call", <<>>)         \* and no reference to one

OpenAIMessage(m) ==
  Content(m.role, IF m.role = "tool" THEN <<Part("result", m.answers)>>
                  ELSE OrNoText(TextParts(m) \o [i \in DOMAIN m.calls |-> RequestToolCall(m.calls[i])]))

AnthropicMessage(m) ==
  IF m.role = "tool" THEN Content("user", <<Part("result", m.answers)>>)
  ELSE Content(m.role, OrNoText(TextParts(m) \o [i \in DOMAIN m.calls |-> ToolUse(m.calls[i])]))

GoogleMessage(m) ==
  CASE m.role = "tool" -> Content("user", <<Part("result", m.answers)>>)
    [] m.role = "user" -> Content("user", <<NoText>>)
    [] m.role = "assistant" ->
         Content("model", OrNoText(TextParts(m) \o [i \in DOMAIN m.calls |-> FunctionCall(m.calls[i])]))

OllamaMessage(m) ==
  Content(m.role, IF m.role = "tool" THEN <<Part("result", <<>>)>>
                  ELSE OrNoText(TextParts(m) \o [i \in DOMAIN m.calls |-> OllamaToolCall(m.calls[i])]))

(* Mutant of MergeConsecutive: the messages are sent as they are.          *)
KeepApart(wire) == wire

(* A message is added to the turn it continues, or begins one.             *)
MergeInto(turns, w) ==
  IF turns # <<>> /\ Last(turns).role = w.role
  THEN [turns EXCEPT ![Len(turns)].parts = @ \o w.parts]
  ELSE Append(turns, w)

MergeConsecutive(wire) ==
  LET turns[n \in 0..Len(wire)] == IF n = 0 THEN <<>> ELSE MergeInto(turns[n - 1], wire[n])
  IN turns[Len(wire)]

(* What is sent.  The system prompt goes first or in a field of its own.   *)
InConversation(m) == m.role # "system"
Conversation(msgs) == Selected(msgs, InConversation)

OpenAIRequest(msgs) == [i \in DOMAIN msgs |-> OpenAIMessage(msgs[i])]
AnthropicContents(msgs) ==
  LET m == Conversation(msgs) IN [i \in DOMAIN m |-> AnthropicMessage(m[i])]
AnthropicRequest(msgs) == MergeConsecutive(AnthropicContents(msgs))
GoogleContents(msgs) ==
  LET m == Conversation(msgs) IN [i \in DOMAIN m |-> GoogleMessage(m[i])]
GoogleRequest(msgs) == MergeConsecutive(GoogleContents(msgs))
OllamaRequest(msgs) == [i \in DOMAIN msgs |-> OllamaMessage(msgs[i])]

-----------------------------------------------------------------------------
(* Properties.                                                             *)

WireTypeOK ==
  /\ service \in WireServices
  /\ Len(conv) <= MaxMessages
  /\ unanswered \subseteq CallPlaces
  /\ \A i \in DOMAIN conv : conv[i].role \in {"system", "user", "assistant", "tool"}

(* Where references mean what the service takes them to mean: ids unique   *)
(* for anthropic and openai, names for google.                             *)
AnswersFrom(services) == \A i \in DOMAIN conv : conv[i].from \in services \cup {"none"}
References(s) ==
  IF s = "google"
  THEN /\ AnswersFrom({"google"})
       /\ \A i \in DOMAIN conv : \A k \in DOMAIN conv[i].calls : Len(conv[i].calls[k].id) = 1
  ELSE AnswersFrom({"openai", "anthropic"})

CallsIn(w) == {w.parts[k].ref : k \in {j \in DOMAIN w.parts : w.parts[j].type = "call"}}
ResultsIn(w) == {w.parts[k].ref : k \in {j \in DOMAIN w.parts : w.parts[j].type = "result"}}
PartsOf(wire) == FlattenSeq([i \in DOMAIN wire |-> wire[i].parts])

UnansweredIds == {conv[x[1]].calls[x[2]].id : x \in unanswered}

(* The results of a turn stand together and answer calls of the turn       *)
(* before, all of them but those that a hand-off left.                     *)
TurnsAnswered(wire) ==
  \A i \in DOMAIN wire : CallsIn(wire[i]) # {} /\ i < Len(wire) =>
    /\ ResultsIn(wire[i + 1]) \subseteq CallsIn(wire[i])
    /\ CallsIn(wire[i]) \ UnansweredIds \subseteq ResultsIn(wire[i + 1])

(* Without references the order has to do: a result follows for each call, *)
(* up to a hand-off.                                                       *)
ResultsFollow(wire) ==
  \A i \in DOMAIN wire : \A k \in 1..Len(Selected(wire[i].parts, LAMBDA p : p.type = "call")) :
    <<i, k>> \in unanswered \/ (i + k \in DOMAIN wire /\ ResultsIn(wire[i + k]) # {})

Alternating(wire) == \A i \in 1..(Len(wire) - 1) : wire[i].role # wire[i + 1].role

(* Merging keeps every part of the conversation in its order, and the      *)
(* roles of a request to anthropic and google alternate as their APIs      *)
(* require.  The results of a turn are of calls of the turn before when    *)
(* the ids are the service's own, for openai in messages of their own, and *)
(* for ollama follow the calls.  The calls without a result are those that *)
(* a hand-off left, which every later request of the conversation goes on  *)
(* carrying (anthropic.go:347-398, google.go:262-295, 398-412,             *)
(* openai.go:262-285, ollama.go:163-187, runner.go:303-349).               *)
WireFaithful ==
  CASE service = "anthropic" ->
         /\ PartsOf(AnthropicRequest(conv)) = PartsOf(AnthropicContents(conv))
         /\ Alternating(AnthropicRequest(conv))
         /\ pending = <<>> /\ References(service) => TurnsAnswered(AnthropicRequest(conv))
    [] service = "google" ->
         /\ PartsOf(GoogleRequest(conv)) = PartsOf(GoogleContents(conv))
         /\ Alternating(GoogleRequest(conv))
         /\ pending = <<>> /\ References(service) => TurnsAnswered(GoogleRequest(conv))
    [] service = "openai" ->
         pending = <<>> /\ References(service) => TurnsAnswered(MergeConsecutive(OpenAIRequest(conv)))
    [] service = "ollama" -> pending = <<>> => ResultsFollow(OllamaRequest(conv))
=============================================================================
