------------------------------ MODULE Workflow ------------------------------
(***************************************************************************)
(* The ways to put agents together (workflow/): a chain, tasks in parallel, *)
(* a router, a boss with workers, and a finite state machine of agents.    *)
(*   A run of an agent is one step that answers or fails (AgentRun has the *)
(* rest); what it says, a label and an event are words, sequences of       *)
(* letters, already trimmed and in lower case.                             *)
(***************************************************************************)
EXTENDS Naturals, Sequences, FiniteSets, SequencesExt

CONSTANTS
  Plans,       \* Plans: the workflows that are explored
  Words        \* Words: what agents may say

Hows == {"chain", "parallel", "router", "orchestrator", "fsm"}

(* Names of agents and of states are strings; the caller's two agents have *)
(* names of their own, and a router has a label for each agent.            *)
ASSUME PlansAssumption ==
  \A p \in Plans :
    /\ p.how \in Hows
    /\ p.agents \in Seq(STRING) /\ {"boss", "triage"} \cap Range(p.agents) = {}
    /\ p.labels \in Seq(Seq(STRING)) /\ Len(p.labels) <= Len(p.agents)
    /\ p.splits \subseteq Seq(STRING)
    /\ "none" \notin DOMAIN p.transitions
    /\ \A state \in DOMAIN p.transitions :
         p.transitions[state] \in Seq([event : Seq(STRING), target : STRING])
    /\ p.limit \in Nat

VARIABLES
  plan,        \* plan: the workflow
  flow,        \* flow: where it is
  runs         \* runs: the runs of agents so far, in the order they ended

flowVars == <<plan, flow, runs>>

(* What a run says, or that it fails.                                      *)
Replies == [ok : {TRUE}, said : Words] \cup {[ok |-> FALSE, said |-> <<>>]}

FlowInit ==
  /\ plan \in Plans
  /\ flow = [stage |-> "idle", agent |-> "none", slots |-> <<>>, result |-> "none"]
  /\ runs = <<>>

(* An input is the output of an earlier run, or, as 0, the caller's.       *)
RunOf(agent, input, reply) ==
  runs' = Append(runs, [agent |-> agent, input |-> input, ok |-> reply.ok, said |-> reply.said])

Over(result) == [flow EXCEPT !.stage = "done", !.result = result]
GoTo(stage, agent) == [flow EXCEPT !.stage = stage, !.agent = agent]

(* A slot of the results for each task, and its own index in all of them.  *)
Open(tasks) == [i \in DOMAIN tasks |-> [agent |-> tasks[i], state |-> "open", run |-> 0]]

Starter ==
  CASE plan.how = "router" -> "triage"
    [] plan.how = "orchestrator" -> "boss"
    [] OTHER -> plan.agents[1]

BeginFlow ==
  /\ flow.stage = "idle"
  /\ flow' = IF plan.how = "parallel"
             THEN [flow EXCEPT !.stage = "joining", !.slots = Open(plan.agents)]
             ELSE IF plan.agents = <<>> THEN Over("error")
             ELSE GoTo("running", Starter)
  /\ UNCHANGED <<plan, runs>>

Running(how) == plan.how = how /\ flow.stage = "running"

(* A chain gives each agent the output of the one before.                  *)
ChainStep ==
  /\ Running("chain")
  /\ \E reply \in Replies :
       /\ RunOf(flow.agent, Len(runs), reply)
       /\ flow' = IF ~reply.ok THEN Over("error")
                  ELSE IF Len(runs) + 1 = Len(plan.agents) THEN Over("ok")
                  ELSE GoTo("running", plan.agents[Len(runs) + 2])
  /\ UNCHANGED plan

Within(part, text) ==
  \E i \in 0..(Len(text) - Len(part)) : SubSeq(text, i + 1, i + Len(part)) = part

(* The label that is the word, or else the first that has it or is in it.  *)
Exact(word) == SelectInSeq(plan.labels, LAMBDA l : l = word)
Closest(word) == SelectInSeq(plan.labels, LAMBDA l : Within(l, word) \/ Within(word, l))
Chosen(word) == IF Exact(word) # 0 THEN Exact(word) ELSE Closest(word)

Triage ==
  /\ Running("router") /\ flow.agent = "triage"
  /\ \E reply \in Replies :
       /\ RunOf("triage", 0, reply)
       /\ flow' = IF reply.ok /\ Chosen(reply.said) # 0
                  THEN GoTo("running", plan.agents[Chosen(reply.said)]) ELSE Over("error")
  /\ UNCHANGED plan

RouteStep ==
  /\ Running("router") /\ flow.agent # "triage"
  /\ \E reply \in Replies :
       /\ RunOf(flow.agent, 0, reply)
       /\ flow' = Over(IF reply.ok THEN "ok" ELSE "error")
  /\ UNCHANGED plan

(* The boss names the workers of the subtasks, or none; what is not JSON   *)
(* is like none.                                                           *)
Decompose ==
  /\ Running("orchestrator") /\ runs = <<>>
  /\ \/ \E tasks \in plan.splits :
          /\ RunOf("boss", 0, [ok |-> TRUE, said |-> <<>>])
          /\ flow' = IF tasks = <<>> THEN Over("error")
                     ELSE [flow EXCEPT !.stage = "joining", !.slots = Open(tasks)]
     \/ /\ RunOf("boss", 0, [ok |-> FALSE, said |-> <<>>])
        /\ flow' = Over("error")
  /\ UNCHANGED plan

Known(agent) == plan.how = "parallel" \/ agent \in Range(plan.agents)

Settled(i, state, run) == [flow EXCEPT !.slots[i] = [@ EXCEPT !.state = state, !.run = run]]

(* The goroutine of a task runs its agent, or finds that there is none.    *)
SettleTask(i) ==
  /\ flow.stage = "joining"
  /\ flow.slots[i].state = "open"
  /\ IF Known(flow.slots[i].agent)
     THEN \E reply \in Replies :
            /\ RunOf(flow.slots[i].agent, IF plan.how = "parallel" THEN 0 ELSE 1, reply)
            /\ flow' = Settled(i, IF reply.ok THEN "answered" ELSE "failed", Len(runs) + 1)
     ELSE flow' = Settled(i, "unknown", 0) /\ UNCHANGED runs
  /\ UNCHANGED plan

(* Mutant of Joined: a task that fails is not counted as done.             *)
JoinedAnswered == \A i \in DOMAIN flow.slots : flow.slots[i].state \in {"answered", "unknown"}

Joined == \A i \in DOMAIN flow.slots : flow.slots[i].state # "open"

(* Parallel returns results and errors; the boss puts them together.       *)
Join ==
  /\ flow.stage = "joining"
  /\ Joined
  /\ IF plan.how = "parallel"
     THEN flow' = Over("ok") /\ UNCHANGED runs
     ELSE \E reply \in Replies :
            /\ RunOf("boss", Len(runs), reply)
            /\ flow' = Over(IF reply.ok THEN "ok" ELSE "error")
  /\ UNCHANGED plan

(* The first transition of the state whose event is in the output.         *)
Follows(state, said) ==
  SelectInSeq(plan.transitions[state], LAMBDA t : Within(t.event, said))

(* A state runs while fewer than the limit have; its target, which may not *)
(* be defined, is entered by the next step of the loop.                    *)
EnterState ==
  /\ Running("fsm")
  /\ IF Len(runs) = plan.limit \/ flow.agent \notin DOMAIN plan.transitions
     THEN flow' = Over("error") /\ UNCHANGED runs
     ELSE \E reply \in Replies :
            LET next == Follows(flow.agent, reply.said) IN
            /\ RunOf(flow.agent, Len(runs), reply)
            /\ flow' = IF ~reply.ok THEN Over("error")
                       ELSE IF next = 0 THEN Over("ok")
                       ELSE GoTo("running", plan.transitions[flow.agent][next].target)
  /\ UNCHANGED plan

FlowNext ==
  \/ BeginFlow \/ ChainStep \/ Triage \/ RouteStep \/ Decompose \/ Join \/ EnterState
  \/ \E i \in DOMAIN flow.slots : SettleTask(i)

-----------------------------------------------------------------------------
(* Properties, of the runs that were made.                                 *)

AllOk == \A i \in DOMAIN runs : runs[i].ok
FeedsOn == \A i \in DOMAIN runs : runs[i].input = i - 1

ChainFaithful ==
  plan.how = "chain" =>
    /\ FeedsOn
    /\ IsPrefix([i \in DOMAIN runs |-> runs[i].agent], plan.agents)
    /\ flow.result = "ok" <=> runs # <<>> /\ AllOk /\ Len(runs) = Len(plan.agents)

(* The handler's label is the word, or holds it or is held by it and no    *)
(* label is the word.                                                      *)
RouterFaithful ==
  plan.how = "router" /\ Len(runs) = 2 =>
    \E i \in DOMAIN plan.labels :
      LET word == runs[1].said IN
      /\ runs[2].agent = plan.agents[i] /\ runs[2].input = 0
      /\ \/ plan.labels[i] = word
         \/ /\ word \notin Range(plan.labels)
            /\ Within(plan.labels[i], word) \/ Within(word, plan.labels[i])

(* Every task has its own run or has none because there is no such worker; *)
(* and the boss runs again only after all of them.                         *)
TasksFaithful ==
  LET ran == {i \in DOMAIN flow.slots : flow.slots[i].run # 0} IN
  /\ \A i \in ran : runs[flow.slots[i].run].agent = flow.slots[i].agent
                    /\ runs[flow.slots[i].run].ok = (flow.slots[i].state = "answered")
  /\ \A i, j \in ran : flow.slots[i].run = flow.slots[j].run => i = j
  /\ flow.stage = "done" /\ flow.slots # <<>> =>
       \A i \in DOMAIN flow.slots : i \in ran <=> Known(flow.slots[i].agent)
  /\ plan.how = "orchestrator" =>
       Cardinality({i \in DOMAIN runs : runs[i].agent = "boss"}) <= 2

(* The path is one of the machine's, each state got the output of the one  *)
(* before, and a result is the answer of a state that leads nowhere.  A    *)
(* machine whose states are defined and whose agents answer ends without   *)
(* one only when it ran as often as the limit says.                        *)
FsmFaithful ==
  plan.how = "fsm" =>
    /\ FeedsOn /\ Len(runs) <= plan.limit
    /\ \A i \in 1..(Len(runs) - 1) :
         \E t \in Range(plan.transitions[runs[i].agent]) :
           t.target = runs[i + 1].agent /\ Within(t.event, runs[i].said)
    /\ flow.result = "ok" =>
         \A t \in Range(plan.transitions[Last(runs).agent]) : ~Within(t.event, Last(runs).said)
    /\ flow.result = "error" /\ AllOk /\ flow.agent \in DOMAIN plan.transitions =>
         Len(runs) = plan.limit

(* What a workflow ran is what its plan and the answers called for.        *)
WorkflowFaithful == ChainFaithful /\ RouterFaithful /\ TasksFaithful /\ FsmFaithful
=============================================================================
