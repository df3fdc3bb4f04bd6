----------------------------- MODULE Transcript -----------------------------
(***************************************************************************)
(* What the runner does to a conversation: the token estimate and the two  *)
(* ways of making it fit the context window (context_mgmt.go), the copy    *)
(* handed to another agent (handoff.go) and the form that is persisted     *)
(* (runner.go, memory/sliding.go).                                         *)
(*                                                                         *)
(* A message is its role, who it belongs to, a number that tells it from   *)
(* the others, and its size: the characters of its content and of the      *)
(* arguments of its calls.                                                 *)
(***************************************************************************)
EXTENDS Integers, Sequences, SequencesExt, FiniteSetsExt, Selection

(* An assistant message is a call when it carries tool calls, a summary     *)
(* when it replaces older messages, an answer otherwise.                   *)
Roles == {"system", "user", "answer", "call", "tool", "summary"}

Messages(Names) == [role : Roles, by : Names, id : Nat, size : Nat]

Chars(msgs) == FoldLeft(LAMBDA n, m : n + m.size, 0, msgs)

(* About four characters to a token; the division rounds down.             *)
CharTokens(msgs) == Chars(msgs) \div 4

HasSystem(msgs) == msgs # <<>> /\ msgs[1].role = "system"

(* The messages from index i on fit the budget when each is counted alone. *)
SuffixTokens(body, i) ==
  FoldLeft(LAMBDA n, m : n + CharTokens(<<m>>), 0, SubSeq(body, i, Len(body)))

(* Keep the system prompt and as many of the newest messages as fit, the   *)
(* newest one even if it does not.                                         *)
SlidingWindowTrim(msgs, limit) ==
  LET system == IF HasSystem(msgs) THEN SubSeq(msgs, 1, 1) ELSE <<>>
      body   == IF HasSystem(msgs) THEN Tail(msgs) ELSE msgs
      budget == limit - CharTokens(system)
      fits   == {i \in 1..Len(body) : SuffixTokens(body, i) <= budget}
      first  == Min(fits \union {Len(body)})
  IN  IF Len(msgs) < 2 THEN msgs
      ELSE IF budget <= 0 THEN SubSeq(msgs, 1, 1)
      ELSE system \o SubSeq(body, first, Len(body))

(* The newest messages a summary leaves alone.                             *)
SummarizeKeepRecent == 4

CanSummarize(msgs) ==
  Len(msgs) - (IF HasSystem(msgs) THEN 1 ELSE 0) > SummarizeKeepRecent

(* What a successful summarizeOldMessages returns.                         *)
Summarized(msgs, summary) ==
  (IF HasSystem(msgs) THEN SubSeq(msgs, 1, 1) ELSE <<>>)
    \o <<summary>>
    \o SubSeq(msgs, Len(msgs) - SummarizeKeepRecent + 1, Len(msgs))

Overflows(msgs, limit) == CharTokens(msgs) > limit

(* count is HandoffHistory.count(): 0 for a full history and -1 for a      *)
(* summary, which nothing summarizes, else how many messages to hand over. *)
PrepareHandoffHistory(msgs, count) ==
  IF count <= 0 THEN msgs
  ELSE SubSeq(msgs, Max({1, Len(msgs) - count + 1}), Len(msgs))

(* The system prompt is rebuilt by every run and never persisted.          *)
IsPersisted(m) == m.role # "system"

WithoutSystem(msgs) == Selected(msgs, IsPersisted)

(* The sliding memory keeps the last n of what is persisted.               *)
LastPersisted(msgs, n) ==
  LET kept == WithoutSystem(msgs)
  IN  SubSeq(kept, Max({1, Len(kept) - n + 1}), Len(kept))

(* Every tool result comes after the call it answers, in the same prompt:  *)
(* what the providers' APIs require of a conversation.                     *)
ResultsHaveCalls(msgs) ==
  \A i \in DOMAIN msgs : msgs[i].role = "tool" =>
    \E j \in 1..(i - 1) : msgs[j].role = "call" /\ msgs[j].id = msgs[i].id
=============================================================================
