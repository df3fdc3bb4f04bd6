---------------------------- MODULE MCExchanges -----------------------------
(* The stacks of providers and the streams that TLC explores.              *)
EXTENDS Exchanges

Alone(client) == [how |-> "alone", clients |-> <<client>>]

MCStacks ==
  { <<Alone(Anthropic(2))>>,
    <<Alone(OpenAI(1)), Alone(Ollama)>>,
    <<Alone(Google(1)), Alone(OpenAI(0))>>,
    <<[how |-> "fallback", clients |-> <<OpenAI(1), Google(0)>>], Alone(Ollama)>>,
    <<[how |-> "roundRobin", clients |-> <<OpenAI(0), Google(0)>>], Alone(Anthropic(0))>> }

(* Texts between the fragments of two calls, a call missing, whole calls,  *)
(* text that is calls, an error and a refusal.                             *)
Fragments == <<Text("a"), CallPart(0), Text("b"), CallPart(1), CallDelta(0)>>
Gap == <<CallPart(0), Text("a"), CallPart(2)>>
PlainCalls == <<Text("a"), CallPart(0), Text("b"), CallPart(1)>>
Written == <<Text("call"), Text("call"), Text("a")>>
Unnamed == <<Text("call"), Text("object")>>
Interrupted == <<Text("a"), ErrorEvent>>

Streams(s) ==
  {Interrupted, <<RefusedEvent>>} \union
  CASE s \in {"openai", "anthropic"} -> {Fragments, Gap}
    [] s = "google" -> {PlainCalls}
    [] s = "ollama" -> {PlainCalls, Written, Unnamed}

MCScripts ==
  UNION {[service : {s}, events : Streams(s), ending : {"complete", "cut", "broken"},
          capacity : {1, 2}, mayCancel : BOOLEAN] :
         s \in {"openai", "anthropic", "google", "ollama"}}

(* Selected and SelectSeq are the same.                                    *)
ASSUME SelectionAssumption ==
  LET IsEven(n) == n % 2 = 0 IN
  \A n \in 0..5 : \A s \in [1..n -> 0..2] : Selected(s, IsEven) = SelectSeq(s, IsEven)
=============================================================================
