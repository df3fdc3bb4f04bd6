--------------------------- MODULE ProviderClient ---------------------------
(***************************************************************************)
(* A call of a provider: the clients of the model services, their retries  *)
(* with waits in between (provider/openai, anthropic, google, ollama), and *)
(* the providers that choose among others (provider/provider.go).          *)
(*   A stack is a sequence of members tried in order (Fallback, CostRouter *)
(* or, with one member, that member alone); a member is a client, or a     *)
(* Fallback or RoundRobin of several.                                      *)
(***************************************************************************)
EXTENDS Naturals, Sequences, FiniteSets, SequencesExt

VARIABLES
  stack,       \* stack: the members of the provider that is called
  call,        \* call: where the call is
  answers,     \* answers: what the services have answered, in order
  turn,        \* turn: the counters of the round robins
  abandoned    \* abandoned: whether the caller's context is done

clientVars == <<stack, call, answers, turn, abandoned>>

(* What becomes of a request, the answers with an error in their body, no  *)
(* choices in it, or something that is not JSON included.                  *)
Outcomes == {"ok", "bodyError", "empty", "garbled",
             "unauthorized", "limited", "down", "overloaded", "noAnswer"}

HttpStatus(outcome) ==
  CASE outcome = "noAnswer" -> 0
    [] outcome = "unauthorized" -> 401
    [] outcome = "limited" -> 429
    [] outcome = "down" -> 503
    [] outcome = "overloaded" -> 529
    [] OTHER -> 200

(* A client: its service, how often it retries, and on which statuses.     *)
OpenAI(retries) ==
  [service |-> "openai", retries |-> retries, retryOn |-> {429, 500, 502, 503}]
Anthropic(retries) ==
  [service |-> "anthropic", retries |-> retries, retryOn |-> {429, 500, 502, 503, 529}]
Google(retries) ==
  [service |-> "google", retries |-> retries, retryOn |-> {429, 500, 502, 503}]
Ollama == [service |-> "ollama", retries |-> 0, retryOn |-> {}]

ClientKinds ==
  [service : {"openai", "anthropic", "google", "ollama"}, retries : Nat, retryOn : SUBSET Nat]
MemberKinds == [how : {"alone", "fallback", "roundRobin"}, clients : Seq(ClientKinds)]

(* What doChat returns: a response or an error, and the status that decides *)
(* on a retry.  A "final" error is a ProviderError that is not Retryable,  *)
(* a "retryable" one is one that is, a "plain" one is no ProviderError.    *)
Verdict(kind, status) == [kind |-> kind, status |-> status]

Refusal(outcome) ==
  Verdict(IF HttpStatus(outcome) = 429 \/ HttpStatus(outcome) >= 500
          THEN "retryable" ELSE "final", HttpStatus(outcome))

Unreadable(outcome) == outcome \in {"noAnswer", "garbled"}
Refused(outcome) == HttpStatus(outcome) \notin {0, 200}

OpenAIChat(outcome) ==
  CASE Unreadable(outcome) -> Verdict("plain", HttpStatus(outcome))
    [] Refused(outcome) -> Refusal(outcome)
    [] outcome \in {"bodyError", "empty"} -> Verdict("final", 200)
    [] OTHER -> Verdict("response", 200)

(* No content is an empty response.                                        *)
AnthropicChat(outcome) ==
  CASE Unreadable(outcome) -> Verdict("plain", HttpStatus(outcome))
    [] Refused(outcome) -> Refusal(outcome)
    [] outcome = "bodyError" -> Verdict("final", 200)
    [] OTHER -> Verdict("response", 200)

(* An error in the body has a code of its own, on which it is retried.     *)
GoogleChat(outcome) ==
  CASE Unreadable(outcome) -> Verdict("plain", HttpStatus(outcome))
    [] Refused(outcome) -> Refusal(outcome)
    [] outcome = "bodyError" -> Verdict("final", 503)
    [] outcome = "empty" -> Verdict("final", 200)
    [] OTHER -> Verdict("response", 200)

(* Too many requests are final here.                                       *)
OllamaChat(outcome) ==
  CASE Unreadable(outcome) -> Verdict("plain", 0)
    [] Refused(outcome) -> Verdict(IF HttpStatus(outcome) >= 500 THEN "retryable" ELSE "final", 0)
    [] outcome = "bodyError" -> Verdict("final", 0)
    [] OTHER -> Verdict("response", 0)

Chat(service, outcome) ==
  CASE service = "openai" -> OpenAIChat(outcome)
    [] service = "anthropic" -> AnthropicChat(outcome)
    [] service = "google" -> GoogleChat(outcome)
    [] service = "ollama" -> OllamaChat(outcome)

(* Mutant of ShouldRetry: whatever is not a success is tried again.        *)
ShouldRetryAlways(client, verdict) == verdict.kind # "response"

ShouldRetry(client, verdict) == verdict.status \in client.retryOn

Idle == [stage |-> "idle", member |-> 1, client |-> 1, attempt |-> 0, result |-> "none"]

ClientInit ==
  /\ call = Idle
  /\ answers = <<>>
  /\ turn = [m \in DOMAIN stack |-> 0]
  /\ abandoned = FALSE

Member == stack[call.member]
Client == Member.clients[call.client]

(* A round robin takes the client whose turn it is.                        *)
FirstClient(m) ==
  IF stack[m].how = "roundRobin" THEN (turn[m] % Len(stack[m].clients)) + 1 ELSE 1

TurnTaken(m) == IF stack[m].how = "roundRobin" THEN [turn EXCEPT ![m] = @ + 1] ELSE turn

Try(m) ==
  /\ call' = [Idle EXCEPT !.stage = "trying", !.member = m, !.client = FirstClient(m)]
  /\ turn' = TurnTaken(m)

StartChat ==
  /\ call.stage = "idle"
  /\ Try(1)
  /\ UNCHANGED <<stack, answers, abandoned>>

Done(result) ==
  /\ call' = [call EXCEPT !.stage = "done", !.result = result]
  /\ UNCHANGED turn

(* The client has given up: the member's next client, the next member, or  *)
(* the caller gets the error.  A member that wraps hides what is final.    *)
Wraps(m) == stack[m].how = "fallback" /\ Len(stack[m].clients) > 1

NextClient == Wraps(call.member) /\ call.client < Len(Member.clients)

GiveUp(final) ==
  IF NextClient /\ ~abandoned /\ ~final
  THEN /\ call' = [call EXCEPT !.client = @ + 1, !.attempt = 0, !.stage = "trying"]
       /\ UNCHANGED turn
  ELSE IF call.member < Len(stack) /\ ~abandoned /\ (final => Wraps(call.member))
  THEN Try(call.member + 1)
  ELSE Done("error")

(* A request and its answer.  It is not sent when the context is done.     *)
Exchange(outcome) ==
  /\ call.stage = "trying"
  /\ ~abandoned
  /\ LET verdict == Chat(Client.service, outcome) IN
     /\ answers' = Append(answers, [member |-> call.member, client |-> call.client,
                                    verdict |-> verdict])
     /\ \/ /\ verdict.kind = "response"
           /\ Done("ok")
        \/ /\ verdict.kind # "response"
           /\ IF ShouldRetry(Client, verdict) /\ call.attempt < Client.retries
              THEN /\ call' = [call EXCEPT !.stage = "waiting", !.attempt = @ + 1]
                   /\ UNCHANGED turn
              ELSE GiveUp(verdict.kind = "final")
  /\ UNCHANGED <<stack, abandoned>>

Unsent ==
  /\ call.stage \in {"trying", "waiting"}
  /\ abandoned
  /\ GiveUp(FALSE)
  /\ UNCHANGED <<stack, answers, abandoned>>

Waited ==
  /\ call.stage = "waiting"
  /\ call' = [call EXCEPT !.stage = "trying"]
  /\ UNCHANGED <<stack, answers, turn, abandoned>>

AbandonChat ==
  /\ call.stage \in {"trying", "waiting"}
  /\ ~abandoned
  /\ abandoned' = TRUE
  /\ UNCHANGED <<stack, call, answers, turn>>

ClientStep == StartChat \/ (\E o \in Outcomes : Exchange(o)) \/ Unsent \/ Waited

-----------------------------------------------------------------------------
(* Properties.                                                             *)

ClientTypeOK ==
  /\ call.stage \in {"idle", "trying", "waiting", "done"}
  /\ call.member \in DOMAIN stack
  /\ call.client \in DOMAIN Member.clients
  /\ call.attempt \in 0..Client.retries
  /\ call.result \in {"none", "ok", "error"}
  /\ turn \in [DOMAIN stack -> Nat]

Same(a, b) == a.member = b.member /\ a.client = b.client

(* The client that got answer a, and its answers.                          *)
Asker(a) == stack[a.member].clients[a.client]
Asked(a) == {i \in DOMAIN answers : Same(answers[i], a)}

(* A service is asked again only after an answer that its client is to try *)
(* again on, and no more often than its retries allow; nothing is asked after a success, so *)
(* that a completion is not paid for twice (openai.go:233-260).            *)
RetriesJustified ==
  /\ \A i \in 1..(Len(answers) - 1) : answers[i].verdict.kind # "response"
  /\ \A i, j \in DOMAIN answers :
       i < j /\ Same(answers[i], answers[j]) =>
         answers[i].verdict.status \in Asker(answers[i]).retryOn
  /\ \A i \in DOMAIN answers :
       Cardinality(Asked(answers[i])) <= Asker(answers[i]).retries + 1

(* A call that fails and was not abandoned has asked every member in turn, *)
(* unless one answered with an error that no other could help; and a call  *)
(* succeeds when and only when its last answer did (provider.go:34-56).    *)
FailoverComplete ==
  call.stage = "done" =>
    /\ call.result = "ok" <=> (answers # <<>> /\ Last(answers).verdict.kind = "response")
    /\ call.result = "error" /\ ~abandoned =>
         \/ \A m \in DOMAIN stack : \E i \in DOMAIN answers : answers[i].member = m
         \/ Last(answers).verdict.kind = "final"

(* Every request of a call has a reason, and every failure too.            *)
CallsJustified == RetriesJustified /\ FailoverComplete
=============================================================================
