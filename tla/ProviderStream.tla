--------------------------- MODULE ProviderStream ---------------------------
(***************************************************************************)
(* A streamed answer: the goroutine of ChatStream reads the events of the  *)
(* service and sends chunks into a bounded channel that consumeStream      *)
(* (runner.go:394-424) reads until it is closed.                           *)
(***************************************************************************)
EXTENDS Naturals, Sequences, FiniteSets, SequencesExt, Selection

VARIABLES
  script,      \* script: what the service will send and how it ends
  reader,      \* reader: the goroutine that reads the events
  chunks,      \* chunks: the channel
  got,         \* got: what consumeStream has and what it returned
  cancelled    \* cancelled: whether the run's context is done

streamVars == <<script, reader, chunks, got, cancelled>>

(* An event of the service or a chunk of the channel: words of text, the   *)
(* first fragment of a call, more of one, an error, or, in place of a      *)
(* stream, no connection or a status that is not 200.  The word "call" is  *)
(* the text of a JSON object that names a tool, "object" of another one.   *)
Chunk(type, words, index) == [type |-> type, words |-> words, index |-> index]
Text(word) == Chunk("text", <<word>>, 0)
CallPart(index) == Chunk("call", <<>>, index)
CallDelta(index) == Chunk("delta", <<>>, index)
ErrorEvent == Chunk("error", <<>>, 0)
RefusedEvent == Chunk("refused", <<>>, 0)
ErrorChunk == ErrorEvent

StreamInit ==
  /\ reader = [stage |-> "idle", at |-> 1, texts |-> <<>>, calls |-> <<>>, out |-> <<>>]
  /\ chunks = <<>>
  /\ got = [texts |-> <<>>, calls |-> <<>>, result |-> "none"]
  /\ cancelled = FALSE

IsCall(e) == e.type = "call"
TextsOf(events) == FlattenSeq([i \in DOMAIN events |-> events[i].words])
CallsOf(events) == Selected(events, IsCall)

(* Fragments of one call have one index; a call is kept at its first.      *)
Accumulated(calls, call) == IF call \in Range(calls) THEN calls ELSE Append(calls, call)

StartStream ==
  /\ reader.stage = "idle"
  /\ reader' = [reader EXCEPT !.stage = "reading"]
  /\ UNCHANGED <<script, chunks, got, cancelled>>

(* What the goroutine does about an event, r being where it is.            *)
Onward(r) == [r EXCEPT !.at = @ + 1]
Sending(r, e) == [Onward(r) EXCEPT !.stage = "sending", !.out = <<e>>]
Failing(r) == [r EXCEPT !.stage = "failing", !.out = <<>>]

(* An error in the stream has no choices and is passed over.               *)
OpenAIReads(r, e) ==
  CASE e.type = "refused" -> Failing(r)
    [] e.type = "text" -> Sending(r, e)
    [] e.type \in {"call", "delta"} ->
         [Onward(r) EXCEPT !.calls = Accumulated(@, CallPart(e.index))]
    [] OTHER -> Onward(r)

(* So it is here: only two types of events are looked at.                  *)
AnthropicReads(r, e) ==
  CASE e.type = "refused" -> Failing(r)
    [] e.type = "text" -> Sending(r, e)
    [] e.type = "call" -> [Onward(r) EXCEPT !.calls = Accumulated(@, e)]
    [] OTHER -> Onward(r)

(* Calls come whole.                                                       *)
GoogleReads(r, e) ==
  CASE e.type \in {"refused", "error"} -> Failing(r)
    [] e.type = "text" -> Sending(r, e)
    [] e.type = "call" -> [Onward(r) EXCEPT !.calls = Append(@, e)]

(* All text is held back.                                                  *)
OllamaReads(r, e) ==
  CASE e.type \in {"refused", "error"} -> Failing(r)
    [] e.type = "text" -> [Onward(r) EXCEPT !.texts = @ \o e.words]
    [] e.type = "call" -> [Onward(r) EXCEPT !.calls = Append(@, e)]

Event == script.events[reader.at]

ReadEvent ==
  /\ reader.stage = "reading"
  /\ reader.at <= Len(script.events)
  /\ reader' = CASE script.service = "openai" -> OpenAIReads(reader, Event)
                 [] script.service = "anthropic" -> AnthropicReads(reader, Event)
                 [] script.service = "google" -> GoogleReads(reader, Event)
                 [] script.service = "ollama" -> OllamaReads(reader, Event)
  /\ UNCHANGED <<script, chunks, got, cancelled>>

(* What may be sent once the events are read.  OpenAI's loop counts to the  *)
(* number of calls and looks their indexes up, from 0: a call whose index  *)
(* is not below their number is lost.                                      *)
OpenAIEmits(r) ==
  {Selected([i \in 1..Len(r.calls) |-> CallPart(i - 1)], LAMBDA c : c \in Range(r.calls))}

(* The blocks are a map, sent in any order.                                *)
AnthropicEmits(r) == SetToSeqs(Range(r.calls))

GoogleEmits(r) == {r.calls}

(* The calls that a model wrote as text: the objects the text begins with, *)
(* if each of them names a tool.  What follows them is dropped.            *)
Extracted(words) ==
  LET Leading == {k \in DOMAIN words : \A i \in 1..k : words[i] \in {"call", "object"}} IN
  IF \A k \in Leading : words[k] = "call"
  THEN [k \in 1..Cardinality(Leading) |-> CallPart(k - 1)] ELSE <<>>

OllamaEmits(r) ==
  IF r.calls = <<>> /\ Extracted(r.texts) # <<>> THEN {Extracted(r.texts)}
  ELSE IF r.texts = <<>> THEN {r.calls}
  ELSE {<<Chunk("text", r.texts, 0)>> \o r.calls}

Emissions(service, r) ==
  CASE service = "openai" -> OpenAIEmits(r)
    [] service = "anthropic" -> AnthropicEmits(r)
    [] service = "google" -> GoogleEmits(r)
    [] service = "ollama" -> OllamaEmits(r)

(* The body ends: complete, cut off, which looks the same, or with an      *)
(* error of the connection.  A done context is such an error too.          *)
ReadEnd ==
  /\ reader.stage = "reading"
  /\ reader.at > Len(script.events)
  /\ script.ending \in {"complete", "cut"}
  /\ \E out \in Emissions(script.service, reader) :
       reader' = [reader EXCEPT !.stage = "emitting", !.out = out]
  /\ UNCHANGED <<script, chunks, got, cancelled>>

ReadFails ==
  /\ reader.stage = "reading"
  /\ cancelled \/ (script.ending = "broken" /\ reader.at > Len(script.events))
  /\ reader' = Failing(reader)
  /\ UNCHANGED <<script, chunks, got, cancelled>>

SendChunk ==
  /\ reader.stage \in {"sending", "emitting"}
  /\ reader.out # <<>>
  /\ Len(chunks) < script.capacity
  /\ chunks' = Append(chunks, Head(reader.out))
  /\ reader' = [reader EXCEPT !.out = Tail(@),
                              !.stage = IF @ = "sending" THEN "reading" ELSE @]
  /\ UNCHANGED <<script, got, cancelled>>

SendCancelled ==
  /\ reader.stage \in {"sending", "emitting"}
  /\ reader.out # <<>>
  /\ cancelled
  /\ reader' = Failing(reader)
  /\ UNCHANGED <<script, chunks, got, cancelled>>

(* The error is sent, or, when the context is done, perhaps not.           *)
ReportError ==
  /\ reader.stage = "failing"
  /\ \/ Len(chunks) < script.capacity /\ chunks' = Append(chunks, ErrorChunk)
     \/ cancelled /\ UNCHANGED chunks
  /\ reader' = [reader EXCEPT !.stage = "closed"]
  /\ UNCHANGED <<script, got, cancelled>>

CloseStream ==
  /\ reader.stage = "emitting"
  /\ reader.out = <<>>
  /\ reader' = [reader EXCEPT !.stage = "closed"]
  /\ UNCHANGED <<script, chunks, got, cancelled>>

(* Mutant of Take: only the last call is kept.                             *)
TakeLastCall(chunk) ==
  CASE chunk.type = "text" -> [got EXCEPT !.texts = @ \o chunk.words]
    [] IsCall(chunk) -> [got EXCEPT !.calls = <<chunk>>]
    [] OTHER -> [got EXCEPT !.result = "error"]

Take(chunk) ==
  CASE chunk.type = "text" -> [got EXCEPT !.texts = @ \o chunk.words]
    [] IsCall(chunk) -> [got EXCEPT !.calls = Append(@, chunk)]
    [] OTHER -> [got EXCEPT !.result = "error"]

Consume ==
  /\ reader.stage # "idle"
  /\ got.result = "none"
  /\ \/ /\ chunks # <<>>
        /\ got' = Take(Head(chunks))
        /\ chunks' = Tail(chunks)
     \/ /\ chunks = <<>>
        /\ reader.stage = "closed"
        /\ got' = [got EXCEPT !.result = "ok"]
        /\ UNCHANGED chunks
  /\ UNCHANGED <<script, reader, cancelled>>

CancelStream ==
  /\ script.mayCancel
  /\ reader.stage # "idle"
  /\ ~cancelled
  /\ cancelled' = TRUE
  /\ UNCHANGED <<script, reader, chunks, got>>

ReaderStep ==
  \/ StartStream \/ ReadEvent \/ ReadEnd \/ ReadFails
  \/ SendChunk \/ SendCancelled \/ ReportError \/ CloseStream

-----------------------------------------------------------------------------
(* Properties.                                                             *)

StreamTypeOK ==
  /\ reader.stage \in {"idle", "reading", "sending", "emitting", "failing", "closed"}
  /\ Len(chunks) <= script.capacity
  /\ got.result \in {"none", "ok", "error"}
  /\ cancelled \in BOOLEAN

WholeText == got.texts = TextsOf(script.events)
WholeCalls ==
  /\ Range(got.calls) = Range(CallsOf(script.events))
  /\ IsInjective(got.calls)

(* OpenAI's calls have the indexes 0, 1, ... up to their number.           *)
Contiguous ==
  LET n == Cardinality(Range(CallsOf(script.events))) IN
  {c.index : c \in Range(CallsOf(script.events))} = 0..(n - 1)

(* Whether ollama's client takes the text itself for calls.                *)
TextIsCalls ==
  /\ script.service = "ollama" /\ CallsOf(script.events) = <<>>
  /\ Extracted(TextsOf(script.events)) # <<>>

Has(type) == \E i \in DOMAIN script.events : script.events[i].type = type

(* The text received is at all times the beginning of what the service     *)
(* sent; a response to a run that was not cancelled, of a stream that was  *)
(* not cut off, has all the text and every call once, whatever order they  *)
(* come in, if OpenAI's indexes have no gap and ollama's text is no call;  *)
(* and a refusal is an error to all, an error in the stream to two of the  *)
(* four (openai.go:517-588, anthropic.go:524-616, google.go:560-624).      *)
StreamFaithful ==
  /\ IsPrefix(got.texts, TextsOf(script.events))
  /\ got.result = "ok" /\ ~cancelled =>
       /\ ~Has("refused")
       /\ Has("error") => script.service \in {"openai", "anthropic"}
  /\ got.result = "ok" /\ ~cancelled /\ script.ending # "cut" =>
       IF TextIsCalls
       THEN got.texts = <<>> /\ got.calls = Extracted(TextsOf(script.events))
       ELSE /\ WholeText
            /\ (script.service = "openai" => Contiguous) => WholeCalls
=============================================================================
