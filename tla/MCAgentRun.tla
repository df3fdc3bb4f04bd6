----------------------------- MODULE MCAgentRun -----------------------------
(* The setups of AgentRun that TLC checks, each for what it is named after. *)
EXTENDS AgentRun

Agents == {"A", "B", "C"}

(* An agent that answers or calls tools, twice, and hands off to nobody.   *)
Plain ==
  [handoffs |-> {}, allowed |-> Agents, maxTurns |-> 2, depthLimit |-> 0,
   history |-> 0, provider |-> TRUE, store |-> FALSE, memory |-> 0,
   rateLimit |-> 0, strategy |-> "error", window |-> 100, prompt |-> 4]

Basic ==
  [agent |-> [a \in Agents |-> Plain], root |-> "A", session |-> FALSE,
   history |-> <<>>, maxTurns |-> 0, batches |-> {<<Tool>>}, sizes |-> {4},
   size |-> 4, faults |-> {}]

Batches == {<<Tool>>, <<"A">>, <<Tool, "B", Tool>>, <<"C", "B">>}

(* A and B hand off to each other, only A has a limit; everything fails.   *)
Cycle ==
  [Basic EXCEPT
    !.agent["A"] = [Plain EXCEPT !.handoffs = {"B"}, !.depthLimit = 1],
    !.agent["B"] = [Plain EXCEPT !.handoffs = {"A", "C"}, !.allowed = {"A"},
                                 !.provider = FALSE, !.prompt = 0],
    !.batches = Batches,
    !.faults = Faults]

(* Two limits in one cycle, with an agent without a limit between them.    *)
TwoLimits ==
  [Basic EXCEPT
    !.agent["A"] = [Plain EXCEPT !.handoffs = {"B"}, !.depthLimit = 2, !.maxTurns = 1],
    !.agent["B"] = [Plain EXCEPT !.handoffs = {"C"}, !.maxTurns = 1],
    !.agent["C"] = [Plain EXCEPT !.handoffs = {"A"}, !.depthLimit = 3, !.maxTurns = 1],
    !.batches = {<<"A">>, <<"B">>, <<"C">>},
    !.faults = {"provider"}]

(* The root has no provider.                                               *)
NoProvider == [Basic EXCEPT !.agent["A"] = [Plain EXCEPT !.provider = FALSE]]

(* A session persisted by a store and remembered by a shorter memory.      *)
Remembering ==
  [Basic EXCEPT
    !.agent["A"] = [Plain EXCEPT !.store = TRUE, !.memory = 3],
    !.session = TRUE,
    !.faults = {"outputGuard", "provider", "save"}]

(* Two agents that share a store; the second gets the last two messages.   *)
SharedStore(history) ==
  [Basic EXCEPT
    !.agent["A"] = [Plain EXCEPT !.store = TRUE, !.handoffs = {"B"}, !.history = history],
    !.agent["B"] = [Plain EXCEPT !.store = TRUE],
    !.session = TRUE,
    !.batches = {<<Tool>>, <<Tool, "B">>},
    !.faults = {"outputGuard", "inputGuard"}]

(* A memory that is handed a history, and a store that cannot be read.     *)
GivenHistory ==
  [SharedStore(0) EXCEPT
    !.agent["B"] = [Plain EXCEPT !.memory = 2],
    !.history = <<Message("user", "A", 0, 4), Message("answer", "A", 0, 4)>>,
    !.faults = {"load"}]

(* A window that overflows after a tool result or two.                     *)
Trimming(strategy, window) ==
  [Basic EXCEPT
    !.agent["A"] = [Plain EXCEPT !.store = TRUE, !.strategy = strategy,
                                 !.window = window, !.maxTurns = 3, !.memory = 9],
    !.session = TRUE,
    !.sizes = {4, 12},
    !.faults = {"summary"}]

(* The third call within a minute has to wait, a batch of three always.    *)
RateLimited ==
  [Basic EXCEPT
    !.agent["A"] = [Plain EXCEPT !.rateLimit = 2],
    !.maxTurns = 3,
    !.batches = {<<Tool>>, <<Tool, Tool, Tool>>},
    !.faults = {"cancel"}]

MCSetups ==
  {Cycle, TwoLimits, NoProvider, Remembering, SharedStore(0), SharedStore(2),
   GivenHistory, Trimming("slide", 4), Trimming("slide", 1),
   Trimming("summarize", 6), RateLimited}

(* A has a limit of one, B and C have none: A hands off to B, B to C.      *)
Unlimited ==
  {[Basic EXCEPT
     !.agent["A"] = [Plain EXCEPT !.handoffs = {"B"}, !.depthLimit = 1],
     !.agent["B"] = [Plain EXCEPT !.handoffs = {"C"}],
     !.batches = {<<Tool>>, <<"B">>, <<"C">>}]}

Defaults == {Trimming("slide", 4)}
=============================================================================
