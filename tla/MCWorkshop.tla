----------------------------- MODULE MCWorkshop -----------------------------
(* The workflows, experiments, trainings, memories and approvers that TLC  *)
(* explores.                                                               *)
EXTENDS Workshop

a == <<"a">>
b == <<"b">>
ab == <<"a", "b">>

(* A workflow; what it does not use is empty.                              *)
Flow(how, agents) ==
  [how |-> how, agents |-> agents, labels |-> <<>>, splits |-> {},
   transitions |-> <<>>, limit |-> 0]

(* A machine with a cycle, a state that leads nowhere, one that is not     *)
(* defined, and an event that is in every output.                          *)
Machine(limit) ==
  [Flow("fsm", <<"s">>) EXCEPT !.limit = limit, !.transitions =
     ("s" :> <<[event |-> ab, target |-> "t"], [event |-> a, target |-> "s"]>>
      @@ "t" :> <<[event |-> b, target |-> "end"], [event |-> a, target |-> "nowhere"]>>
      @@ "end" :> <<>>)]

MCWords == {<<>>, a, b, ab}

MCPlans ==
  { Flow("chain", <<>>), Flow("chain", <<"x", "y", "x">>),
    Flow("parallel", <<>>), Flow("parallel", <<"x", "y", "x">>),
    [Flow("router", <<"x", "y">>) EXCEPT !.labels = <<b, ab>>],
    [Flow("router", <<"x", "y">>) EXCEPT !.labels = <<ab, a>>],
    [Flow("orchestrator", <<"x", "y">>) EXCEPT
       !.splits = {<<>>, <<"x">>, <<"x", "z", "x">>, <<"z", "y">>}],
    Machine(1), Machine(3) }

MCTrials ==
  [how : {"evaluate"}, works : {3}, atOnce : {1, 2}, judged : BOOLEAN]
  \cup [how : {"ab"}, works : {2}, atOnce : {1}, judged : BOOLEAN]

(* One sample that is ready to be evaluated, put there by hand.            *)
Given == <<[format |-> "openai", messages |-> 2, lines |-> 1]>>

MCSchedules ==
  {[timed |-> FALSE, threshold |-> 2, minTurns |-> 1, updates |-> 1,
    format |-> "sharegpt", given |-> <<>>],
   [timed |-> FALSE, threshold |-> 1, minTurns |-> 2, updates |-> 2,
    format |-> "openai", given |-> Given],
   [timed |-> TRUE, threshold |-> 1, minTurns |-> 1, updates |-> 2,
    format |-> "chatml", given |-> Given]}

Backend(kind, n) == [kind |-> kind, n |-> n]
MCMinds ==
  { <<Backend("sliding", 3)>>, <<Backend("summary", 4)>>, <<Backend("vector", 1)>>,
    <<Backend("sliding", 2), Backend("vector", 2)>>,
    <<Backend("summary", 3), Backend("sliding", 2)>> }

(* Three runs of one session, or two; one of each where they share a store *)
(* or are cheap.                                                           *)
Most(p, q) == "p" :> p @@ "q" :> q
MCMaxTold ==
  [m \in MCMinds |->
     CASE Len(m) = 1 /\ m[1].kind # "vector" -> {Most(3, 0), Most(1, 1)}
       [] Len(m) = 2 /\ m[2].kind = "vector" -> {Most(2, 0)}
       [] OTHER -> {Most(2, 0), Most(1, 1)}]

Worded(len, sep) == [len |-> len, sep |-> sep]
Story == <<Worded(2, 4), Worded(1, 3), Worded(3, 2), Worded(1, 1), Worded(7, 4), Worded(1, 4)>>
Edited == <<Worded(2, 4), Worded(1, 3), Worded(4, 2), Worded(1, 1), Worded(1, 4)>>
MCLibrary == {[source |-> "f", text |-> Story], [source |-> "f", text |-> Edited],
              [source |-> "g", text |-> <<Worded(1, 4)>>], [source |-> "h", text |-> <<>>]}
MCChunkers ==
  {[how |-> "fixed", size |-> 5, overlap |-> 0], [how |-> "paragraph", size |-> 0, overlap |-> 0],
   [how |-> "recursive", size |-> 6, overlap |-> 1]}

Rule(allow, tools) == [allow |-> allow, tools |-> tools]
MCPolicies ==
  {[rules |-> <<>>, limited |-> TRUE],
   [rules |-> <<Rule(TRUE, {"q1"}), Rule(FALSE, {"q1", "q2"}), Rule(TRUE, {"q2"})>>,
    limited |-> FALSE]}

(* Answers that say yes, no or nothing.                                    *)
MCAnswers == {<<"y">>, <<"y", "e", "s">>, <<"n">>, <<>>}

(* The fields of an expression.                                            *)
Every == <<[kind |-> "every"]>>
EveryStep(n) == <<[kind |-> "step", step |-> n]>>
FromTo(from, to, n) == <<[kind |-> "range", from |-> from, to |-> to, step |-> n]>>
Only(v) == <<[kind |-> "value", value |-> v]>>
Junk == <<[kind |-> "junk"]>>

(* Steps, lists and ranges, days that few months have, and no day at all.  *)
Expressions ==
  { <<EveryStep(20), Every, Every, Every, Every>>,                  \* */20 * * * *
    <<EveryStep(30), FromTo(9, 17, 2), Every, Every, FromTo(1, 5, 1)>>,
    <<Only(0), Only(0), Only(1), Only(1), Every>>,                  \* 0 0 1 1 *
    <<Only(59), Only(23), Only(31), Every, Every>>,                 \* 59 23 31 * *
    <<Only(30), Only(4), Only(1) \o Only(15), Every, Only(5)>>,     \* 30 4 1,15 * 5
    <<Only(5), Only(0), Every, Only(2) \o Only(12), Only(0)>>,      \* 5 0 * 2,12 0
    <<Only(0), Only(0), Only(29), Only(2), Every>>,                 \* 0 0 29 2 *
    <<Only(0), Only(12), Only(29), Only(2), Only(1)>>,              \* 0 12 29 2 1
    <<Only(0), Only(0), Only(30), Only(2), Every>> }                \* 0 0 30 2 *

(* Fields that are refused, and ranges that go beyond their limits.        *)
BadExpressions ==
  { <<Only(60), Every, Every, Every, Every>>,                       \* 60 * * * *
    <<EveryStep(0), Every, Every, Every, FromTo(5, 7, 1)>>,         \* */0 * * * 5-7
    <<Only(0), Only(0), Every, FromTo(10, 13, 1), Junk>>,           \* 0 0 * 10-13 x
    <<Only(0), Only(12), FromTo(0, 5, 5), Every, Every>> }          \* 0 12 0-5/5 * *

Time(y, mo, d, h, mi) == [year |-> y, month |-> mo, day |-> d, hour |-> h, minute |-> mi]

(* Around the ends of units, and around leap days.                         *)
CallTimes ==
  { Time(2023, 12, 31, 23, 59), Time(2024, 1, 31, 10, 7), Time(2024, 2, 28, 23, 59),
    Time(2024, 2, 29, 0, 0), Time(2025, 2, 28, 23, 40), Time(2023, 6, 30, 17, 0) }

MCQueries ==
  [expr : Expressions, start : CallTimes]
  \cup [expr : BadExpressions, start : {Time(2024, 2, 28, 23, 59)}]
=============================================================================
