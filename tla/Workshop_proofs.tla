--------------------------- MODULE Workshop_proofs ---------------------------
(***************************************************************************)
(* Proofs about Workshop.  For workflows of any length, experiments with   *)
(* any number of works, any samples and processes, any memories and        *)
(* documents, any rules and answers and any schedules: a run has the input *)
(* that its place in the workflow gives it, a work is recorded once, a     *)
(* training starts when it is due and is reported once, a memory recalls   *)
(* what it was told and no more, a document is cut and stored without      *)
(* loss, a call is approved by an answer of its own, and a job is due at   *)
(* the first time of its schedule.                                         *)
(***************************************************************************)
EXTENDS Workshop, SequenceLemmas

(***************************************************************************)
(* Workflows.                                                              *)
(***************************************************************************)
Name == STRING \cup {"none", "triage", "boss"}
Made == [agent : Name, input : Nat, ok : BOOLEAN, said : Words \cup {<<>>}]
Slot == [agent : Name, state : {"open", "answered", "failed", "unknown"}, run : Nat]

FlowTyped ==
  /\ plan \in Plans
  /\ runs \in Seq(Made)
  /\ flow \in [stage : {"idle", "running", "joining", "done"}, agent : Name,
               slots : Seq(Slot), result : {"none", "ok", "error"}]
  /\ flow.stage = "done" <=> flow.result # "none"
  /\ flow.stage = "idle" => runs = <<>> /\ flow.agent = "none"
  /\ flow.stage \in {"idle", "running"} => flow.slots = <<>>
  /\ plan.how \in {"chain", "router", "fsm"} => flow.slots = <<>> /\ flow.stage # "joining"
  /\ plan.how = "parallel" => flow.stage # "running"

(* The runs of a chain are those of its first agents, and all of them      *)
(* answered while it goes on.                                              *)
ChainInv ==
  plan.how = "chain" =>
    /\ Len(runs) <= Len(plan.agents) /\ FeedsOn
    /\ \A i \in DOMAIN runs : runs[i].agent = plan.agents[i]
    /\ flow.stage = "running" =>
         Len(runs) < Len(plan.agents) /\ flow.agent = plan.agents[Len(runs) + 1] /\ AllOk
    /\ flow.result = "ok" <=> runs # <<>> /\ AllOk /\ Len(runs) = Len(plan.agents)

(* After triage comes the agent that was chosen.                           *)
RouterInv ==
  plan.how = "router" =>
    /\ flow.stage = "running" /\ flow.agent = "triage" => runs = <<>>
    /\ flow.stage = "running" /\ flow.agent # "triage" =>
         Len(runs) = 1 /\ Chosen(runs[1].said) # 0
         /\ flow.agent = plan.agents[Chosen(runs[1].said)]
    /\ Len(runs) = 2 =>
         Chosen(runs[1].said) # 0 /\ runs[2].input = 0
         /\ runs[2].agent = plan.agents[Chosen(runs[1].said)]

(* A slot that is settled has the run of its task, or has an agent that    *)
(* nobody knows; the boss ran before the tasks, and after them.            *)
SettledFor(slot) ==
  /\ slot.run = 0 <=> slot.state \in {"open", "unknown"}
  /\ slot.state = "unknown" => ~Known(slot.agent)
  /\ slot.run # 0 =>
       /\ slot.run \in DOMAIN runs /\ Known(slot.agent)
       /\ runs[slot.run].agent = slot.agent
       /\ runs[slot.run].ok = (slot.state = "answered")
SlotsApart ==
  \A i, j \in DOMAIN flow.slots :
    flow.slots[i].run = flow.slots[j].run /\ flow.slots[i].run # 0 => i = j
BossTwice ==
  plan.how = "orchestrator" =>
    /\ flow.stage = "running" => runs = <<>>
    /\ \A i \in DOMAIN runs :
         runs[i].agent = "boss" => i = 1 \/ (flow.stage = "done" /\ i = Len(runs))
TasksInv ==
  /\ \A i \in DOMAIN flow.slots : SettledFor(flow.slots[i])
  /\ SlotsApart
  /\ flow.stage = "done" => Joined
  /\ BossTwice

(* The path of a machine so far, and that it goes on from its last state.  *)
Path ==
  \A i \in 1..(Len(runs) - 1) :
    \E t \in Range(plan.transitions[runs[i].agent]) :
      t.target = runs[i + 1].agent /\ Within(t.event, runs[i].said)
FsmInv ==
  plan.how = "fsm" =>
    /\ FeedsOn /\ Len(runs) <= plan.limit /\ Path
    /\ flow.stage = "running" =>
         /\ AllOk
         /\ runs # <<>> =>
              \E t \in Range(plan.transitions[runs[Len(runs)].agent]) :
                t.target = flow.agent /\ Within(t.event, runs[Len(runs)].said)
    /\ flow.result = "ok" =>
         /\ runs # <<>>
         /\ \A t \in Range(plan.transitions[runs[Len(runs)].agent]) :
              ~Within(t.event, runs[Len(runs)].said)
    /\ flow.result = "error" /\ AllOk /\ flow.agent \in DOMAIN plan.transitions =>
         Len(runs) = plan.limit

WorkflowInv == FlowTyped /\ ChainInv /\ RouterInv /\ TasksInv /\ FsmInv

(* The label that is chosen is the word, or is like it and none is it.     *)
LEMMA ChosenIs ==
  ASSUME plan \in Plans, NEW word, NEW c, c = Chosen(word)
  PROVE  /\ c \in 0..Len(plan.labels) /\ c \in 0..Len(plan.agents)
         /\ c # 0 =>
              \/ plan.labels[c] = word
              \/ /\ word \notin Range(plan.labels)
                 /\ Within(plan.labels[c], word) \/ Within(word, plan.labels[c])
PROOF
  <1> DEFINE Same == {l \in Range(plan.labels) : l = word}
             Like == {l \in Range(plan.labels) : Within(l, word) \/ Within(word, l)}
  <1>1. /\ plan.labels \in Seq(Seq(STRING)) /\ plan.agents \in Seq(STRING)
        /\ Len(plan.labels) <= Len(plan.agents)
    BY PlansAssumption
  <1>2. plan.labels \in Seq(Range(plan.labels)) /\ Len(plan.labels) \in Nat
        /\ Range(plan.labels) = {plan.labels[i] : i \in 1..Len(plan.labels)}
    BY <1>1, RangeOf
  <1>3. \A i \in 1..Len(plan.labels) : plan.labels[i] \in Range(plan.labels)
    BY <1>2
  <1>4. Exact(word) = FirstIn(plan.labels, Same)
    <2>1. {i \in 1..Len(plan.labels) : plan.labels[i] = word}
            = {i \in 1..Len(plan.labels) : plan.labels[i] \in Same}
      BY <1>3
    <2>2. QED BY <2>1, Zenon DEF Exact, FirstIn, SelectInSeq
  <1>5. Closest(word) = FirstIn(plan.labels, Like)
    <2>1. {i \in 1..Len(plan.labels) : Within(plan.labels[i], word) \/ Within(word, plan.labels[i])}
            = {i \in 1..Len(plan.labels) : plan.labels[i] \in Like}
      BY <1>3, Zenon
    <2>2. QED BY <2>1, Zenon DEF Closest, FirstIn, SelectInSeq
  <1> HIDE DEF Same, Like
  <1>6. /\ Exact(word) \in 0..Len(plan.labels)
        /\ Exact(word) # 0 => plan.labels[Exact(word)] \in Same
        /\ Exact(word) = 0 => \A i \in 1..Len(plan.labels) : plan.labels[i] \notin Same
    BY <1>2, <1>4, FirstInIs
  <1>7. /\ Closest(word) \in 0..Len(plan.labels)
        /\ Closest(word) # 0 => plan.labels[Closest(word)] \in Like
    BY <1>2, <1>5, FirstInIs
  <1>8. CASE Exact(word) # 0
    BY <1>1, <1>6, <1>8 DEF Chosen, Same
  <1>9. CASE Exact(word) = 0
    <2>1. word \notin Range(plan.labels)
      BY <1>2, <1>6, <1>9 DEF Same
    <2>2. c = Closest(word)
      BY <1>9 DEF Chosen
    <2>3. c # 0 => Within(plan.labels[c], word) \/ Within(word, plan.labels[c])
      BY <1>7, <2>2 DEF Like
    <2>4. c \in 0..Len(plan.labels) /\ c \in 0..Len(plan.agents)
      BY <1>1, <1>7, <2>2
    <2>5. QED BY <2>1, <2>3, <2>4
  <1>10. QED BY <1>8, <1>9

(* The transition that is taken is one of the state's whose event is in    *)
(* the output; there is none only if no event is.                          *)
LEMMA FollowsIs ==
  ASSUME plan \in Plans, NEW state \in DOMAIN plan.transitions, NEW said,
         NEW n, n = Follows(state, said)
  PROVE  /\ n # 0 => /\ plan.transitions[state][n] \in Range(plan.transitions[state])
                     /\ plan.transitions[state][n].target \in STRING
                     /\ Within(plan.transitions[state][n].event, said)
         /\ n = 0 => \A t \in Range(plan.transitions[state]) : ~Within(t.event, said)
PROOF
  <1> DEFINE s == plan.transitions[state]
             R == [event : Seq(STRING), target : STRING]
             Hits == {t \in R : Within(t.event, said)}
  <1>1. s \in Seq(R)
    BY PlansAssumption
  <1>2. Len(s) \in Nat /\ (\A i \in 1..Len(s) : s[i] \in R)
        /\ Range(s) = {s[i] : i \in 1..Len(s)} /\ \A t \in R : t.target \in STRING
    <2>1. \A t \in R : t.target \in STRING
      OBVIOUS
    <2> HIDE DEF s, R
    <2>2. QED BY <1>1, <2>1, RangeOf
  <1>3. n = FirstIn(s, Hits)
    <2>1. {i \in 1..Len(s) : Within(s[i].event, said)} = {i \in 1..Len(s) : s[i] \in Hits}
      <3> HIDE DEF R, s
      <3>1. QED BY <1>2
    <2>2. Follows(state, said) = FirstIn(s, Hits)
      BY <2>1, Zenon DEF Follows, FirstIn, SelectInSeq
    <2>3. QED BY <2>2
  <1> HIDE DEF s, R, Hits
  <1>4. /\ n \in 0..Len(s)
        /\ n # 0 => s[n] \in Hits /\ \A i \in 1..(n - 1) : s[i] \notin Hits
        /\ n = 0 => \A i \in 1..Len(s) : s[i] \notin Hits
    BY <1>1, <1>3, FirstInIs
  <1>5. n # 0 => s[n] \in Range(s) /\ s[n].target \in STRING /\ Within(s[n].event, said)
    BY <1>2, <1>4 DEF Hits
  <1>6. n = 0 => \A t \in Range(s) : ~Within(t.event, said)
    BY <1>2, <1>4 DEF Hits
  <1>7. QED BY <1>5, <1>6 DEF s

(* What a run of an agent does to the runs.                                *)
LEMMA RunAdds ==
  ASSUME FlowTyped, NEW agent \in Name, NEW input \in Nat, NEW reply,
         reply.ok \in BOOLEAN, reply.said \in Words \cup {<<>>}, RunOf(agent, input, reply)
  PROVE  /\ runs' \in Seq(Made) /\ Len(runs) \in Nat /\ Len(runs') = Len(runs) + 1
         /\ DOMAIN runs = 1..Len(runs) /\ DOMAIN runs' = 1..(Len(runs) + 1)
         /\ \A i \in 1..Len(runs) : runs'[i] = runs[i]
         /\ runs'[Len(runs) + 1].agent = agent /\ runs'[Len(runs) + 1].input = input
         /\ runs'[Len(runs) + 1].ok = reply.ok /\ runs'[Len(runs) + 1].said = reply.said
         /\ runs' # <<>>
PROOF
  <1> DEFINE m == [agent |-> agent, input |-> input, ok |-> reply.ok, said |-> reply.said]
  <1>1. m \in Made /\ runs \in Seq(Made) /\ runs' = Append(runs, m)
    BY DEF FlowTyped, RunOf, Made
  <1>2. m.agent = agent /\ m.input = input /\ m.ok = reply.ok /\ m.said = reply.said
    OBVIOUS
  <1> HIDE DEF m
  <1>3. QED BY <1>1, <1>2

(* The replies and the plan are what they should be.                       *)
LEMMA ReplyIs ==
  ASSUME NEW reply \in Replies
  PROVE  reply.ok \in BOOLEAN /\ reply.said \in Words \cup {<<>>}
PROOF
  <1>1. CASE reply \in [ok : {TRUE}, said : Words]
    <2>1. reply.ok \in {TRUE} /\ reply.said \in Words
      BY <1>1
    <2>2. QED BY <2>1
  <1>2. CASE reply = [ok |-> FALSE, said |-> <<>>]
    <2>1. reply.ok = FALSE /\ reply.said = <<>>
      BY <1>2
    <2>2. QED BY <2>1
  <1>3. QED BY <1>1, <1>2 DEF Replies

LEMMA PlanIs ==
  ASSUME plan \in Plans
  PROVE  /\ plan.how \in Hows /\ plan.agents \in Seq(STRING) /\ Len(plan.agents) \in Nat
         /\ \A i \in 1..Len(plan.agents) : plan.agents[i] \in STRING
         /\ "boss" \notin Range(plan.agents) /\ "triage" \notin Range(plan.agents)
         /\ plan.splits \subseteq Seq(STRING) /\ plan.limit \in Nat
         /\ "none" \notin DOMAIN plan.transitions
PROOF
  <1>1. /\ plan.how \in Hows /\ plan.agents \in Seq(STRING)
        /\ {"boss", "triage"} \cap Range(plan.agents) = {}
        /\ plan.splits \subseteq Seq(STRING) /\ plan.limit \in Nat
        /\ "none" \notin DOMAIN plan.transitions
    BY PlansAssumption, Zenon
  <1>2. "boss" \notin Range(plan.agents) /\ "triage" \notin Range(plan.agents)
    BY <1>1, Zenon
  <1>3. Len(plan.agents) \in Nat /\ \A i \in 1..Len(plan.agents) : plan.agents[i] \in STRING
    BY <1>1
  <1>4. QED BY <1>1, <1>2, <1>3, Zenon

(* Slots that are opened are of their tasks and have no run.               *)
LEMMA OpenSlots ==
  ASSUME NEW tasks \in Seq(STRING)
  PROVE  /\ Open(tasks) \in Seq(Slot)
         /\ \A i \in DOMAIN Open(tasks) :
              Open(tasks)[i].run = 0 /\ Open(tasks)[i].state = "open"
PROOF
  <1>1. DOMAIN tasks = 1..Len(tasks) /\ Len(tasks) \in Nat
        /\ \A i \in 1..Len(tasks) : tasks[i] \in STRING
    OBVIOUS
  <1>2. Open(tasks) = [i \in 1..Len(tasks) |-> [agent |-> tasks[i], state |-> "open", run |-> 0]]
    BY <1>1 DEF Open
  <1>3. \A i \in 1..Len(tasks) : [agent |-> tasks[i], state |-> "open", run |-> 0] \in Slot
    BY <1>1 DEF Slot, Name
  <1>4. QED BY <1>1, <1>2, <1>3

LEMMA FlowStarts == FlowInit => WorkflowInv
PROOF
  <1> SUFFICES ASSUME FlowInit PROVE WorkflowInv
    OBVIOUS
  <1>1. runs = <<>> /\ plan \in Plans
        /\ flow = [stage |-> "idle", agent |-> "none", slots |-> <<>>, result |-> "none"]
    BY DEF FlowInit
  <1>2. FlowTyped
    <2>1. <<>> \in Seq(Slot) /\ <<>> \in Seq(Made)
      OBVIOUS
    <2>2. flow \in [stage : {"idle", "running", "joining", "done"}, agent : Name,
                   slots : Seq(Slot), result : {"none", "ok", "error"}]
      <3>1. ASSUME NEW e \in Seq(Slot)
            PROVE  [stage |-> "idle", agent |-> "none", slots |-> e, result |-> "none"]
                     \in [stage : {"idle", "running", "joining", "done"}, agent : Name,
                          slots : Seq(Slot), result : {"none", "ok", "error"}]
        BY DEF Name
      <3>2. QED BY <1>1, <2>1, <3>1, Zenon
    <2>3. flow.stage = "idle" /\ flow.slots = <<>> /\ flow.agent = "none" /\ flow.result = "none"
      BY <1>1
    <2>4. runs \in Seq(Made)
      BY <1>1, <2>1
    <2>5. QED BY <1>1, <2>2, <2>3, <2>4, Zenon DEF FlowTyped
  <1>3. Len(runs) = 0 /\ DOMAIN runs = {} /\ DOMAIN flow.slots = {}
    BY <1>1
  <1>4. plan.agents \in Seq(STRING) /\ Len(plan.agents) \in Nat /\ plan.limit \in Nat
    BY <1>1, PlanIs
  <1>5. ChainInv
    BY <1>1, <1>3, <1>4 DEF ChainInv, FeedsOn, AllOk
  <1>6. RouterInv /\ TasksInv
    BY <1>1, <1>3 DEF RouterInv, TasksInv, SlotsApart, BossTwice, Joined
  <1>7. FsmInv
    BY <1>1, <1>3, <1>4 DEF FsmInv, FeedsOn, Path, AllOk
  <1>8. QED BY <1>2, <1>5, <1>6, <1>7 DEF WorkflowInv

LEMMA BeginKeeps == WorkflowInv /\ BeginFlow => WorkflowInv'
PROOF
  <1> SUFFICES ASSUME WorkflowInv, BeginFlow PROVE WorkflowInv'
    OBVIOUS
  <1>1. /\ flow.stage = "idle" /\ runs = <<>> /\ flow.slots = <<>> /\ flow.agent = "none"
        /\ plan' = plan /\ runs' = runs /\ plan \in Plans
        /\ flow.result = "none"
    BY DEF BeginFlow, WorkflowInv, FlowTyped
  <1>2. /\ plan.how \in Hows /\ plan.agents \in Seq(STRING) /\ plan.limit \in Nat
        /\ "none" \notin DOMAIN plan.transitions /\ "triage" \notin Range(plan.agents)
        /\ \A i \in 1..Len(plan.agents) : plan.agents[i] \in STRING
    BY <1>1, PlanIs
  <1>3. Len(runs) = 0 /\ DOMAIN runs = {} /\ DOMAIN <<>> = {}
    BY <1>1
  <1>4. flow \in [stage : {"idle", "running", "joining", "done"}, agent : Name,
                  slots : Seq(Slot), result : {"none", "ok", "error"}]
    BY DEF WorkflowInv, FlowTyped
  <1>5. \/ /\ plan.how = "parallel"
           /\ flow' = [flow EXCEPT !.stage = "joining", !.slots = Open(plan.agents)]
        \/ plan.how # "parallel" /\ plan.agents = <<>> /\ flow' = Over("error")
        \/ plan.how # "parallel" /\ plan.agents # <<>> /\ flow' = GoTo("running", Starter)
    BY Zenon DEF BeginFlow
  <1>6. CASE plan.how = "parallel" /\ flow' = [flow EXCEPT !.stage = "joining", !.slots = Open(plan.agents)]
    <2>1. Open(plan.agents) \in Seq(Slot)
          /\ \A i \in DOMAIN Open(plan.agents) :
               Open(plan.agents)[i].run = 0 /\ Open(plan.agents)[i].state = "open"
      BY <1>2, OpenSlots
    <2>2. flow'.slots = Open(plan.agents) /\ flow'.stage = "joining" /\ flow'.result = "none"
      BY <1>1, <1>4, <1>6
    <2>3. FlowTyped'
      BY <1>1, <1>3, <1>4, <1>6, <2>1, <2>2 DEF FlowTyped, WorkflowInv
    <2>4. TasksInv'
      BY <1>1, <1>6, <2>1, <2>2 DEF TasksInv, SettledFor, SlotsApart, BossTwice
    <2>5. QED BY <1>1, <1>6, <2>3, <2>4 DEF WorkflowInv, ChainInv, RouterInv, FsmInv
  <1>7. CASE plan.how # "parallel" /\ plan.agents = <<>> /\ flow' = Over("error")
    <2>1. flow'.stage = "done" /\ flow'.slots = <<>> /\ flow'.result = "error"
          /\ flow'.agent = "none"
      BY <1>1, <1>4, <1>7 DEF Over
    <2>2. FlowTyped'
      BY <1>1, <1>4, <1>7, <2>1 DEF FlowTyped, WorkflowInv, Over
    <2>3. ChainInv' /\ RouterInv'
      BY <1>1, <1>2, <1>3, <1>7, <2>1 DEF ChainInv, RouterInv, FeedsOn, WorkflowInv
    <2>4. TasksInv'
      BY <1>1, <1>3, <2>1 DEF TasksInv, SlotsApart, BossTwice, Joined
    <2>5. FsmInv'
      BY <1>1, <1>2, <1>3, <2>1 DEF FsmInv, FeedsOn, Path
    <2>6. QED BY <2>2, <2>3, <2>4, <2>5 DEF WorkflowInv
  <1>8. ASSUME NEW agent \in Name, plan.how # "parallel", plan.agents # <<>>,
               flow' = GoTo("running", agent),
               plan.how \in {"chain", "fsm"} => agent = plan.agents[1],
               plan.how = "router" => agent = "triage"
        PROVE  WorkflowInv'
    <2>1. flow'.stage = "running" /\ flow'.slots = <<>> /\ flow'.result = "none"
          /\ flow'.agent = agent
      BY <1>1, <1>4, <1>8 DEF GoTo
    <2>2. FlowTyped'
      BY <1>1, <1>4, <1>8, <2>1 DEF FlowTyped, WorkflowInv, GoTo
    <2>3. Len(plan.agents) \in Nat /\ 0 < Len(plan.agents)
      BY <1>2, <1>8
    <2>4. ChainInv' /\ RouterInv'
      BY <1>1, <1>2, <1>3, <1>8, <2>1, <2>3 DEF ChainInv, RouterInv, FeedsOn, AllOk, WorkflowInv
    <2>5. TasksInv'
      BY <1>1, <1>3, <2>1 DEF TasksInv, SlotsApart, BossTwice, Joined
    <2>6. FsmInv'
      BY <1>1, <1>2, <1>3, <2>1 DEF FsmInv, FeedsOn, Path, AllOk
    <2>7. QED BY <2>2, <2>4, <2>5, <2>6 DEF WorkflowInv
  <1>9. CASE plan.how # "parallel" /\ plan.agents # <<>> /\ flow' = GoTo("running", Starter)
    <2>1. /\ Starter \in Name /\ (plan.how = "router" => Starter = "triage")
          /\ plan.how \in {"chain", "fsm"} => Starter = plan.agents[1]
      <3>1. plan.agents[1] \in STRING
        BY <1>2, <1>9
      <3>2. QED BY <3>1 DEF Starter, Name
    <2>2. QED BY <1>8, <1>9, <2>1, Zenon
  <1>10. QED BY <1>5, <1>6, <1>7, <1>9, Zenon

(* Where a workflow without tasks goes on or ends, for its type.           *)
LEMMA FlowGoes ==
  ASSUME FlowTyped, flow.stage = "running", flow.slots = <<>>,
         runs' \in Seq(Made), plan' = plan,
         \/ \E agent \in Name : flow' = GoTo("running", agent)
         \/ \E result \in {"ok", "error"} : flow' = Over(result)
  PROVE  /\ FlowTyped' /\ flow'.slots = <<>>
         /\ \/ flow'.stage = "running" /\ flow'.result = "none"
               /\ flow'.agent \in Name /\ flow' = GoTo("running", flow'.agent)
            \/ /\ flow'.stage = "done" /\ flow'.result \in {"ok", "error"}
               /\ flow'.agent = flow.agent /\ flow' = Over(flow'.result)
PROOF
  <1>1. /\ flow \in [stage : {"idle", "running", "joining", "done"}, agent : Name,
                     slots : Seq(Slot), result : {"none", "ok", "error"}]
        /\ flow.result = "none" /\ plan \in Plans
        /\ plan.how = "parallel" => flow.stage # "running"
    BY DEF FlowTyped
  <1>2. ASSUME NEW agent \in Name, flow' = GoTo("running", agent)
        PROVE  /\ flow' \in [stage : {"idle", "running", "joining", "done"}, agent : Name,
                             slots : Seq(Slot), result : {"none", "ok", "error"}]
               /\ flow'.stage = "running" /\ flow'.result = "none" /\ flow'.slots = <<>>
               /\ flow'.agent = agent
    BY <1>1, <1>2 DEF GoTo
  <1>3. ASSUME NEW result \in {"ok", "error"}, flow' = Over(result)
        PROVE  /\ flow' \in [stage : {"idle", "running", "joining", "done"}, agent : Name,
                             slots : Seq(Slot), result : {"none", "ok", "error"}]
               /\ flow'.stage = "done" /\ flow'.result = result /\ flow'.slots = <<>>
               /\ flow'.agent = flow.agent
    BY <1>1, <1>3 DEF Over
  <1>4. CASE \E agent \in Name : flow' = GoTo("running", agent)
    <2>1. PICK agent \in Name : flow' = GoTo("running", agent)
      BY <1>4, Zenon
    <2>2. QED BY <1>1, <1>2, <2>1 DEF FlowTyped
  <1>5. CASE \E result \in {"ok", "error"} : flow' = Over(result)
    <2>1. PICK result \in {"ok", "error"} : flow' = Over(result)
      BY <1>5, Zenon
    <2>2. QED BY <1>1, <1>3, <2>1 DEF FlowTyped
  <1>6. QED BY <1>4, <1>5, Zenon

LEMMA NoTasks ==
  ASSUME flow.slots = <<>>, plan.how # "orchestrator"
  PROVE  TasksInv
PROOF
  <1>1. DOMAIN flow.slots = {}
    OBVIOUS
  <1>2. QED BY <1>1 DEF TasksInv, SlotsApart, BossTwice, Joined

LEMMA ChainKeeps == WorkflowInv /\ ChainStep => WorkflowInv'
PROOF
  <1> SUFFICES ASSUME WorkflowInv, ChainStep PROVE WorkflowInv'
    OBVIOUS
  <1>1. /\ FlowTyped /\ plan.how = "chain" /\ flow.stage = "running" /\ flow.slots = <<>>
        /\ plan' = plan /\ plan \in Plans
    BY DEF ChainStep, Running, WorkflowInv, FlowTyped
  <1>2. /\ Len(runs) < Len(plan.agents) /\ flow.agent = plan.agents[Len(runs) + 1]
        /\ AllOk /\ FeedsOn
        /\ \A i \in DOMAIN runs : runs[i].agent = plan.agents[i]
    BY <1>1 DEF WorkflowInv, ChainInv
  <1>3. PICK reply \in Replies :
          /\ RunOf(flow.agent, Len(runs), reply)
          /\ flow' = IF ~reply.ok THEN Over("error")
                     ELSE IF Len(runs) + 1 = Len(plan.agents) THEN Over("ok")
                     ELSE GoTo("running", plan.agents[Len(runs) + 2])
    BY DEF ChainStep
  <1>4. Len(runs) \in Nat /\ flow.agent \in Name
    BY <1>1 DEF FlowTyped
  <1>5. /\ runs' \in Seq(Made) /\ Len(runs') = Len(runs) + 1 /\ runs' # <<>>
        /\ DOMAIN runs = 1..Len(runs) /\ DOMAIN runs' = 1..(Len(runs) + 1)
        /\ \A i \in 1..Len(runs) : runs'[i] = runs[i]
        /\ runs'[Len(runs) + 1].agent = flow.agent /\ runs'[Len(runs) + 1].input = Len(runs)
        /\ runs'[Len(runs) + 1].ok = reply.ok
    BY <1>1, <1>3, <1>4, ReplyIs, RunAdds
  <1>6. Len(plan.agents) \in Nat /\ \A i \in 1..Len(plan.agents) : plan.agents[i] \in STRING
    BY <1>1, PlanIs
  <1>7. \/ reply.ok = FALSE /\ flow' = Over("error")
        \/ reply.ok = TRUE /\ Len(runs) + 1 = Len(plan.agents) /\ flow' = Over("ok")
        \/ /\ reply.ok = TRUE /\ Len(runs) + 1 # Len(plan.agents)
           /\ flow' = GoTo("running", plan.agents[Len(runs) + 2])
    BY <1>3, ReplyIs
  <1>8. Len(runs) + 1 # Len(plan.agents) =>
          Len(runs) + 2 \in 1..Len(plan.agents) /\ plan.agents[Len(runs) + 2] \in Name
    BY <1>2, <1>4, <1>6 DEF Name
  <1>9. /\ FlowTyped' /\ flow'.slots = <<>>
        /\ \/ flow'.stage = "running" /\ flow'.result = "none"
              /\ flow'.agent \in Name /\ flow' = GoTo("running", flow'.agent)
           \/ /\ flow'.stage = "done" /\ flow'.result \in {"ok", "error"}
              /\ flow'.agent = flow.agent /\ flow' = Over(flow'.result)
    <2>1. \/ \E agent \in Name : flow' = GoTo("running", agent)
          \/ \E result \in {"ok", "error"} : flow' = Over(result)
      BY <1>7, <1>8
    <2>2. QED BY <1>1, <1>5, <2>1, FlowGoes
  <1>10. (\A i \in DOMAIN runs' : runs'[i].input = i - 1)
         /\ \A i \in DOMAIN runs' : runs'[i].agent = plan.agents[i]
    BY SMTT(40), <1>2, <1>4, <1>5 DEF FeedsOn
  <1>11. (\A i \in DOMAIN runs' : runs'[i].ok) <=> reply.ok
    BY <1>2, <1>4, <1>5 DEF AllOk
  <1>12. flow \in [stage : {"idle", "running", "joining", "done"}, agent : Name,
                   slots : Seq(Slot), result : {"none", "ok", "error"}]
         /\ flow.result = "none"
    BY <1>1 DEF FlowTyped
  <1>13. /\ flow'.stage = "running" =>
              reply.ok /\ Len(runs') < Len(plan.agents) /\ flow'.agent = plan.agents[Len(runs') + 1]
         /\ flow'.result = "ok" <=> reply.ok /\ Len(runs') = Len(plan.agents)
    <2>1. CASE reply.ok = FALSE /\ flow' = Over("error")
      <3>1. flow'.stage = "done" /\ flow'.result = "error"
        BY <1>12, <2>1 DEF Over
      <3>2. QED BY <2>1, <3>1
    <2>2. CASE reply.ok = TRUE /\ Len(runs) + 1 = Len(plan.agents) /\ flow' = Over("ok")
      <3>1. flow'.stage = "done" /\ flow'.result = "ok"
        BY <1>12, <2>2 DEF Over
      <3>2. QED BY <1>5, <2>2, <3>1
    <2>3. CASE /\ reply.ok = TRUE /\ Len(runs) + 1 # Len(plan.agents)
               /\ flow' = GoTo("running", plan.agents[Len(runs) + 2])
      <3>1. flow'.stage = "running" /\ flow'.result = "none"
            /\ flow'.agent = plan.agents[Len(runs) + 2]
        BY <1>12, <2>3 DEF GoTo
      <3>2. QED BY <1>2, <1>4, <1>5, <1>6, <2>3, <3>1
    <2>4. QED BY <1>7, <2>1, <2>2, <2>3, Zenon
  <1>14. ChainInv'
    <2>1. Len(runs') <= Len(plan.agents)
      BY <1>2, <1>4, <1>5, <1>6
    <2>2. FeedsOn' /\ (AllOk' <=> reply.ok)
      BY <1>10, <1>11 DEF FeedsOn, AllOk
    <2>3. QED BY <1>1, <1>5, <1>10, <1>13, <2>1, <2>2, Zenon DEF ChainInv
  <1>15. TasksInv'
    BY <1>1, <1>9, NoTasks DEF TasksInv, SlotsApart, BossTwice, Joined, SettledFor, Known
  <1>16. QED BY <1>1, <1>9, <1>14, <1>15 DEF WorkflowInv, RouterInv, FsmInv

LEMMA TriageKeeps == WorkflowInv /\ Triage => WorkflowInv'
PROOF
  <1> SUFFICES ASSUME WorkflowInv, Triage PROVE WorkflowInv'
    OBVIOUS
  <1>1. /\ FlowTyped /\ plan.how = "router" /\ flow.stage = "running" /\ flow.slots = <<>>
        /\ flow.agent = "triage" /\ plan' = plan /\ plan \in Plans
    BY DEF Triage, Running, WorkflowInv, FlowTyped
  <1>2. runs = <<>> /\ Len(runs) = 0
    BY <1>1 DEF WorkflowInv, RouterInv
  <1>3. PICK reply \in Replies :
          /\ RunOf("triage", 0, reply)
          /\ flow' = IF reply.ok /\ Chosen(reply.said) # 0
                     THEN GoTo("running", plan.agents[Chosen(reply.said)]) ELSE Over("error")
    BY DEF Triage
  <1>4. runs' \in Seq(Made) /\ Len(runs') = 1 /\ runs'[1].said = reply.said
    <2>1. "triage" \in Name /\ 0 \in Nat
      BY DEF Name
    <2>2. QED BY <1>1, <1>2, <1>3, <2>1, ReplyIs, RunAdds
  <1>5. /\ \A i \in 1..Len(plan.agents) : plan.agents[i] \in Name /\ plan.agents[i] # "triage"
        /\ Chosen(reply.said) # 0 => Chosen(reply.said) \in 1..Len(plan.agents)
    <2>1. /\ plan.agents \in Seq(STRING) /\ Len(plan.agents) \in Nat
          /\ "triage" \notin Range(plan.agents)
      BY <1>1, PlanIs
    <2>2. \A i \in 1..Len(plan.agents) :
            plan.agents[i] \in STRING /\ plan.agents[i] \in Range(plan.agents)
      BY <2>1, RangeOf
    <2>3. Chosen(reply.said) \in 0..Len(plan.agents)
      BY <1>1, ChosenIs
    <2>4. QED BY <2>1, <2>2, <2>3 DEF Name
  <1>6. \/ reply.ok /\ Chosen(reply.said) # 0
           /\ flow' = GoTo("running", plan.agents[Chosen(reply.said)])
        \/ flow' = Over("error")
    BY <1>3, Zenon
  <1>7. /\ FlowTyped' /\ flow'.slots = <<>>
        /\ \/ flow'.stage = "running" /\ flow'.result = "none"
              /\ flow'.agent \in Name /\ flow' = GoTo("running", flow'.agent)
           \/ /\ flow'.stage = "done" /\ flow'.result \in {"ok", "error"}
              /\ flow'.agent = flow.agent /\ flow' = Over(flow'.result)
    <2>1. \/ \E agent \in Name : flow' = GoTo("running", agent)
          \/ \E result \in {"ok", "error"} : flow' = Over(result)
      BY <1>5, <1>6
    <2>2. QED BY <1>1, <1>4, <2>1, FlowGoes
  <1>8. flow \in [stage : {"idle", "running", "joining", "done"}, agent : Name,
                  slots : Seq(Slot), result : {"none", "ok", "error"}]
    BY <1>1 DEF FlowTyped
  <1>9. flow'.stage = "running" =>
          Chosen(reply.said) # 0 /\ flow'.agent = plan.agents[Chosen(reply.said)]
          /\ flow'.agent # "triage"
    <2>1. CASE flow' = Over("error")
      BY <1>8, <2>1 DEF Over
    <2>2. CASE Chosen(reply.said) # 0 /\ flow' = GoTo("running", plan.agents[Chosen(reply.said)])
      <3>1. flow'.agent = plan.agents[Chosen(reply.said)]
        BY <1>8, <2>2 DEF GoTo
      <3>2. QED BY <1>5, <2>2, <3>1
    <2>3. QED BY <1>6, <2>1, <2>2, Zenon
  <1>10. Chosen(reply.said)' = Chosen(reply.said)
    BY <1>1, Zenon DEF Chosen, Exact, Closest, SelectInSeq
  <1>11. RouterInv'
    <2>1. Chosen(runs[1].said)' = Chosen(runs'[1].said)
      BY <1>1, Zenon DEF Chosen, Exact, Closest, SelectInSeq
    <2>2. QED BY <1>1, <1>4, <1>9, <2>1 DEF RouterInv
  <1>12. TasksInv'
    BY <1>1, <1>7, NoTasks DEF TasksInv, SlotsApart, BossTwice, Joined, SettledFor, Known
  <1>13. QED BY <1>1, <1>7, <1>11, <1>12 DEF WorkflowInv, ChainInv, FsmInv

LEMMA RouteKeeps == WorkflowInv /\ RouteStep => WorkflowInv'
PROOF
  <1> SUFFICES ASSUME WorkflowInv, RouteStep PROVE WorkflowInv'
    OBVIOUS
  <1>1. /\ FlowTyped /\ plan.how = "router" /\ flow.stage = "running" /\ flow.slots = <<>>
        /\ flow.agent # "triage" /\ plan' = plan /\ plan \in Plans
        /\ flow.agent \in Name
    BY DEF RouteStep, Running, WorkflowInv, FlowTyped
  <1>2. /\ Len(runs) = 1 /\ Chosen(runs[1].said) # 0
        /\ flow.agent = plan.agents[Chosen(runs[1].said)]
    BY <1>1 DEF WorkflowInv, RouterInv
  <1>3. PICK reply \in Replies :
          RunOf(flow.agent, 0, reply) /\ flow' = Over(IF reply.ok THEN "ok" ELSE "error")
    BY DEF RouteStep
  <1>4. /\ runs' \in Seq(Made) /\ Len(runs') = 2 /\ runs'[1] = runs[1]
        /\ runs'[2].agent = flow.agent /\ runs'[2].input = 0
    <2>1. /\ runs' \in Seq(Made) /\ Len(runs') = Len(runs) + 1
          /\ \A i \in 1..Len(runs) : runs'[i] = runs[i]
          /\ runs'[Len(runs) + 1].agent = flow.agent /\ runs'[Len(runs) + 1].input = 0
      BY <1>1, <1>3, ReplyIs, RunAdds
    <2>2. 1 \in 1..1 /\ 1 + 1 = 2
      OBVIOUS
    <2>3. QED BY <1>2, <2>1, <2>2
  <1>5. \E result \in {"ok", "error"} : flow' = Over(result)
    BY <1>3
  <1>6. FlowTyped' /\ flow'.slots = <<>> /\ flow'.stage \in {"running", "done"}
    BY <1>1, <1>4, <1>5, FlowGoes
  <1>7. flow'.stage = "done"
    <2>1. flow \in [stage : {"idle", "running", "joining", "done"}, agent : Name,
                    slots : Seq(Slot), result : {"none", "ok", "error"}]
      BY <1>1 DEF FlowTyped
    <2>2. QED BY <1>5, <2>1 DEF Over
  <1>8. RouterInv'
    <2>1. Chosen(runs[1].said)' = Chosen(runs'[1].said)
      BY <1>1, Zenon DEF Chosen, Exact, Closest, SelectInSeq
    <2>2. QED BY <1>1, <1>2, <1>4, <1>7, <2>1 DEF RouterInv
  <1>9. TasksInv'
    BY <1>1, <1>6, NoTasks DEF TasksInv, SlotsApart, BossTwice, Joined, SettledFor, Known
  <1>10. QED BY <1>1, <1>6, <1>8, <1>9 DEF WorkflowInv, ChainInv, FsmInv

LEMMA EnterKeeps == WorkflowInv /\ EnterState => WorkflowInv'
PROOF
  <1> SUFFICES ASSUME WorkflowInv, EnterState PROVE WorkflowInv'
    OBVIOUS
  <1>1. /\ FlowTyped /\ plan.how = "fsm" /\ flow.stage = "running" /\ flow.slots = <<>>
        /\ plan' = plan /\ plan \in Plans /\ flow.agent \in Name /\ Len(runs) \in Nat
        /\ runs \in Seq(Made)
    BY DEF EnterState, Running, WorkflowInv, FlowTyped
  <1>2. /\ FeedsOn /\ AllOk /\ Len(runs) <= plan.limit /\ Path /\ plan.limit \in Nat
        /\ runs # <<>> =>
             \E t \in Range(plan.transitions[runs[Len(runs)].agent]) :
               t.target = flow.agent /\ Within(t.event, runs[Len(runs)].said)
    BY <1>1, PlanIs DEF WorkflowInv, FsmInv
  <1>3. /\ flow \in [stage : {"idle", "running", "joining", "done"}, agent : Name,
                    slots : Seq(Slot), result : {"none", "ok", "error"}]
        /\ flow.result = "none"
    BY <1>1 DEF FlowTyped
  <1>4. CASE /\ Len(runs) = plan.limit \/ flow.agent \notin DOMAIN plan.transitions
             /\ flow' = Over("error") /\ runs' = runs
    <2>1. FlowTyped' /\ flow'.slots = <<>>
      <3>1. \E result \in {"ok", "error"} : flow' = Over(result)
        BY <1>4
      <3>2. QED BY <1>1, <1>4, <3>1, FlowGoes
    <2>2. flow'.stage = "done" /\ flow'.result = "error" /\ flow'.agent = flow.agent
      BY <1>3, <1>4 DEF Over
    <2>3. FsmInv'
      BY <1>1, <1>2, <1>4, <2>2 DEF FsmInv, FeedsOn, AllOk, Path
    <2>4. TasksInv'
      BY <1>1, <2>1, NoTasks DEF TasksInv, SlotsApart, BossTwice, Joined, SettledFor, Known
    <2>5. QED BY <1>1, <2>1, <2>3, <2>4 DEF WorkflowInv, ChainInv, RouterInv
  <1>5. ASSUME Len(runs) # plan.limit, flow.agent \in DOMAIN plan.transitions,
               NEW reply \in Replies, NEW next, next = Follows(flow.agent, reply.said),
               RunOf(flow.agent, Len(runs), reply),
               flow' = IF ~reply.ok THEN Over("error")
                       ELSE IF next = 0 THEN Over("ok")
                       ELSE GoTo("running", plan.transitions[flow.agent][next].target)
        PROVE  WorkflowInv'
    <2> DEFINE ways == plan.transitions[flow.agent]
               n == Len(runs) + 1
    <2>1. /\ runs' \in Seq(Made) /\ Len(runs') = n /\ runs' # <<>> /\ n \in Nat /\ n >= 1
          /\ DOMAIN runs = 1..Len(runs) /\ DOMAIN runs' = 1..n
          /\ \A i \in 1..Len(runs) : runs'[i] = runs[i]
          /\ runs'[n].agent = flow.agent /\ runs'[n].input = Len(runs)
          /\ runs'[n].ok = reply.ok /\ runs'[n].said = reply.said
      BY <1>1, <1>5, ReplyIs, RunAdds
    <2>2. /\ next # 0 => /\ ways[next] \in Range(ways) /\ ways[next].target \in Name
                         /\ Within(ways[next].event, reply.said)
          /\ next = 0 => \A t \in Range(ways) : ~Within(t.event, reply.said)
      BY <1>1, <1>5, FollowsIs DEF Name
    <2>3. reply.ok \in BOOLEAN
      BY ReplyIs
    <2>4. \/ reply.ok = FALSE /\ flow' = Over("error")
          \/ reply.ok = TRUE /\ next = 0 /\ flow' = Over("ok")
          \/ reply.ok = TRUE /\ next # 0 /\ flow' = GoTo("running", ways[next].target)
      BY <1>5, <2>3
    <2> HIDE DEF ways, n
    <2>5. FlowTyped' /\ flow'.slots = <<>>
      <3>1. \/ \E agent \in Name : flow' = GoTo("running", agent)
            \/ \E result \in {"ok", "error"} : flow' = Over(result)
        BY <2>2, <2>4
      <3>2. QED BY <1>1, <2>1, <3>1, FlowGoes
    <2>6. /\ flow'.stage = "running" =>
               reply.ok = TRUE /\ next # 0 /\ flow'.agent = ways[next].target
          /\ flow'.result = "ok" => next = 0
          /\ flow'.result = "error" => reply.ok = FALSE
      <3>1. CASE reply.ok = FALSE /\ flow' = Over("error")
        BY <1>3, <3>1 DEF Over
      <3>2. CASE reply.ok = TRUE /\ next = 0 /\ flow' = Over("ok")
        BY <1>3, <3>2 DEF Over
      <3>3. CASE reply.ok = TRUE /\ next # 0 /\ flow' = GoTo("running", ways[next].target)
        BY <1>3, <3>3 DEF GoTo
      <3>4. QED BY <2>4, <3>1, <3>2, <3>3, Zenon
    <2>7. FeedsOn' /\ Len(runs') <= plan.limit
      BY SMTT(40), <1>1, <1>2, <1>5, <2>1 DEF FeedsOn, n
    <2>8. AllOk' <=> reply.ok = TRUE
      <3>1. \A i \in 1..Len(runs) : runs'[i].ok
        BY <1>2, <2>1 DEF AllOk
      <3>2. (\A i \in 1..n : runs'[i].ok) <=> runs'[n].ok
        BY <1>1, <2>1, <3>1 DEF n
      <3>3. QED BY <2>1, <2>3, <3>2 DEF AllOk
    <2>9. Path'
      <3>1. ASSUME NEW i \in 1..(n - 1)
            PROVE  \E t \in Range(plan.transitions[runs'[i].agent]) :
                     t.target = runs'[i + 1].agent /\ Within(t.event, runs'[i].said)
        <4>1. i \in 1..Len(runs) /\ runs'[i] = runs[i]
          BY <1>1, <2>1 DEF n
        <4>2. CASE i = Len(runs)
          <5>1. i + 1 = n /\ runs # <<>>
            BY <1>1, <4>1, <4>2 DEF n
          <5>2. QED BY <1>2, <2>1, <4>1, <4>2, <5>1
        <4>3. CASE i # Len(runs)
          <5>1. i \in 1..(Len(runs) - 1) /\ i + 1 \in 1..Len(runs)
            BY <1>1, <4>1, <4>3
          <5>2. runs'[i + 1] = runs[i + 1]
            BY <2>1, <5>1
          <5>3. QED BY <1>2, <4>1, <5>1, <5>2 DEF Path
        <4>4. QED BY <4>2, <4>3
      <3>2. QED BY <1>1, <2>1, <3>1 DEF Path
    <2>10. FsmInv'
      <3>1. plan.transitions[runs'[n].agent] = ways
        BY <2>1 DEF ways
      <3>2. flow'.stage = "running" =>
              \E t \in Range(ways) : t.target = flow'.agent /\ Within(t.event, runs'[n].said)
        BY <2>1, <2>2, <2>6
      <3>3. flow'.result = "ok" => \A t \in Range(ways) : ~Within(t.event, runs'[n].said)
        BY <2>1, <2>2, <2>6
      <3>4. QED BY <1>1, <2>1, <2>6, <2>7, <2>8, <2>9, <3>1, <3>2, <3>3 DEF FsmInv
    <2>11. TasksInv'
      BY <1>1, <2>5, NoTasks DEF TasksInv, SlotsApart, BossTwice, Joined, SettledFor, Known
    <2>12. QED BY <1>1, <2>5, <2>10, <2>11 DEF WorkflowInv, ChainInv, RouterInv
  <1>6. \/ /\ Len(runs) = plan.limit \/ flow.agent \notin DOMAIN plan.transitions
           /\ flow' = Over("error") /\ runs' = runs
        \/ /\ Len(runs) # plan.limit /\ flow.agent \in DOMAIN plan.transitions
           /\ \E reply \in Replies :
                /\ RunOf(flow.agent, Len(runs), reply)
                /\ flow' = IF ~reply.ok THEN Over("error")
                           ELSE IF Follows(flow.agent, reply.said) = 0 THEN Over("ok")
                           ELSE GoTo("running", plan.transitions[flow.agent]
                                                  [Follows(flow.agent, reply.said)].target)
    BY Zenon DEF EnterState
  <1>7. QED BY <1>4, <1>5, <1>6, Zenon

(* A task is settled with a run of its own.                                *)
LEMMA SettleKeeps ==
  WorkflowInv /\ (\E i \in DOMAIN flow.slots : SettleTask(i)) => WorkflowInv'
PROOF
  <1> SUFFICES ASSUME WorkflowInv, NEW i \in DOMAIN flow.slots, SettleTask(i)
      PROVE  WorkflowInv'
    OBVIOUS
  <1> DEFINE slot == flow.slots[i]
  <1>1. /\ FlowTyped /\ TasksInv /\ flow.stage = "joining" /\ slot.state = "open"
        /\ plan' = plan /\ plan \in Plans /\ runs \in Seq(Made) /\ Len(runs) \in Nat
        /\ DOMAIN runs = 1..Len(runs)
    <2>1. FlowTyped /\ TasksInv /\ flow.stage = "joining" /\ slot.state = "open" /\ plan' = plan
      BY DEF SettleTask, WorkflowInv
    <2>2. plan \in Plans /\ runs \in Seq(Made)
      BY <2>1 DEF FlowTyped
    <2>3. QED BY <2>1, <2>2
  <1>2. /\ flow \in [stage : {"idle", "running", "joining", "done"}, agent : Name,
                    slots : Seq(Slot), result : {"none", "ok", "error"}]
        /\ flow.result = "none" /\ plan.how \notin {"chain", "router", "fsm"}
    BY <1>1 DEF FlowTyped
  <1>3. /\ flow.slots \in Seq(Slot) /\ DOMAIN flow.slots = 1..Len(flow.slots)
        /\ slot \in Slot /\ Len(flow.slots) \in Nat
        /\ \A j \in DOMAIN flow.slots : flow.slots[j] \in Slot /\ flow.slots[j].run \in Nat
    <2>1. flow.slots \in Seq(Slot)
      BY <1>2
    <2>2. \A j \in DOMAIN flow.slots : flow.slots[j] \in Slot
      BY <2>1
    <2>3. QED BY <2>1, <2>2 DEF Slot
  <1>4. slot.run = 0
    BY <1>1, <1>3 DEF TasksInv, SettledFor
  <1> HIDE DEF slot
  <1>5. ASSUME NEW state \in {"answered", "failed", "unknown"}, NEW run \in Nat,
               flow' = Settled(i, state, run), run = 0 => runs' = runs,
               runs' \in Seq(Made), DOMAIN runs \subseteq DOMAIN runs',
               \A j \in DOMAIN runs : runs'[j] = runs[j],
               \A j \in DOMAIN runs' : j \notin DOMAIN runs => runs'[j].agent = slot.agent,
               run = 0 <=> state = "unknown",
               state = "unknown" <=> ~Known(slot.agent),
               run # 0 => /\ run = Len(runs) + 1 /\ run \in DOMAIN runs'
                          /\ runs'[run].ok = (state = "answered")
        PROVE  WorkflowInv'
    <2>1. /\ flow'.slots = [flow.slots EXCEPT ![i] = [slot EXCEPT !.state = state, !.run = run]]
          /\ flow'.stage = "joining" /\ flow'.result = "none" /\ flow'.agent = flow.agent
      BY <1>1, <1>2, <1>3, <1>5 DEF slot, Settled
    <2>2. [slot EXCEPT !.state = state, !.run = run] \in Slot
      BY <1>3, <1>5 DEF Slot
    <2>3. /\ DOMAIN flow'.slots = DOMAIN flow.slots /\ flow'.slots \in Seq(Slot)
          /\ flow'.slots[i] = [slot EXCEPT !.state = state, !.run = run]
          /\ \A j \in DOMAIN flow.slots : j # i => flow'.slots[j] = flow.slots[j]
      BY <1>3, <2>1, <2>2
    <2>4. /\ flow'.slots[i].agent = slot.agent /\ flow'.slots[i].state = state
          /\ flow'.slots[i].run = run
      BY <1>3, <2>3 DEF Slot
    <2>5. flow' \in [stage : {"idle", "running", "joining", "done"}, agent : Name,
                     slots : Seq(Slot), result : {"none", "ok", "error"}]
      <3>1. flow' = [flow EXCEPT !.slots = flow'.slots]
        BY <1>2, <1>5, <2>1 DEF Settled
      <3>2. QED BY <1>2, <2>3, <3>1
    <2>6. FlowTyped'
      BY <1>1, <1>2, <1>5, <2>1, <2>5 DEF FlowTyped
    <2>7. \A agent : Known(agent)' = Known(agent)
      BY <1>1 DEF Known
    <2>8. \A j \in DOMAIN flow.slots : flow.slots[j].run \in {0} \cup DOMAIN runs
      BY <1>1 DEF TasksInv, SettledFor
    <2>9. ASSUME NEW j \in DOMAIN flow'.slots PROVE SettledFor(flow.slots[j])'
      <3>1. CASE j = i
        <4>1. /\ flow'.slots[j].agent = slot.agent /\ flow'.slots[j].state = state
              /\ flow'.slots[j].run = run
          BY <2>4, <3>1
        <4>2. run # 0 => runs'[run].agent = slot.agent /\ Known(slot.agent) /\ run \in DOMAIN runs'
                         /\ runs'[run].ok = (state = "answered")
          BY <1>1, <1>5
        <4>3. run = 0 <=> state \in {"open", "unknown"}
          BY <1>5
        <4>4. QED BY <1>5, <2>7, <4>1, <4>2, <4>3 DEF SettledFor
      <3>2. CASE j # i
        <4>1. flow'.slots[j] = flow.slots[j] /\ SettledFor(flow.slots[j])
          BY <1>1, <2>3, <3>2 DEF TasksInv
        <4>2. flow.slots[j].run # 0 => flow.slots[j].run \in DOMAIN runs
                /\ flow.slots[j].run \in DOMAIN runs'
                /\ runs'[flow.slots[j].run] = runs[flow.slots[j].run]
          <5>1. flow.slots[j].run \in {0} \cup DOMAIN runs
            BY <2>3, <2>8
          <5>2. QED BY <1>5, <5>1
        <4>3. QED BY <2>7, <4>1, <4>2 DEF SettledFor
      <3>3. QED BY <3>1, <3>2
    <2>10. SlotsApart'
      <3>1. ASSUME NEW j \in DOMAIN flow.slots, NEW k \in DOMAIN flow.slots,
                   flow'.slots[j].run = flow'.slots[k].run, flow'.slots[j].run # 0
            PROVE  j = k
        <4>1. \A l \in DOMAIN flow.slots : flow.slots[l].run # Len(runs) + 1
          BY <1>1, <2>8
        <4>2. CASE j = i
          <5>1. run = Len(runs) + 1 /\ flow'.slots[k].run = run
            BY <1>5, <2>4, <3>1, <4>2
          <5>2. CASE k # i
            BY <2>3, <4>1, <5>1, <5>2
          <5>3. QED BY <4>2, <5>2
        <4>2a. CASE k = i
          <5>1. run = Len(runs) + 1 /\ flow'.slots[j].run = run
            BY <1>5, <2>4, <3>1, <4>2a
          <5>2. CASE j # i
            BY <2>3, <4>1, <5>1, <5>2
          <5>3. QED BY <4>2a, <5>2
        <4>3. CASE j # i /\ k # i
          <5>1. flow'.slots[j] = flow.slots[j] /\ flow'.slots[k] = flow.slots[k]
            BY <2>3, <4>3
          <5>2. QED BY <1>1, <3>1, <5>1 DEF TasksInv, SlotsApart
        <4>4. QED BY <4>2, <4>2a, <4>3
      <3>2. QED BY <2>3, <3>1 DEF SlotsApart
    <2>11. BossTwice'
      <3>1. ASSUME plan.how = "orchestrator", NEW j \in DOMAIN runs', runs'[j].agent = "boss"
            PROVE  j = 1
        <4>1. CASE j \in DOMAIN runs
          BY <1>1, <1>5, <3>1, <4>1 DEF TasksInv, BossTwice
        <4>2. CASE j \notin DOMAIN runs
          <5>1. slot.agent = "boss"
            BY <1>5, <3>1, <4>2
          <5>2. ~Known("boss")
            BY <1>1, <3>1, PlanIs DEF Known
          <5>3. DOMAIN runs' = DOMAIN runs
            <6>1. state = "unknown" /\ run = 0
              BY <1>5, <5>1, <5>2
            <6>2. QED BY <1>5, <6>1
          <5>4. QED BY <4>2, <5>3
        <4>3. QED BY <4>1, <4>2
      <3>2. QED BY <1>1, <2>1, <3>1 DEF BossTwice
    <2>12. TasksInv'
      BY <2>1, <2>9, <2>10, <2>11 DEF TasksInv
    <2>13. QED BY <1>1, <1>2, <2>6, <2>12 DEF WorkflowInv, ChainInv, RouterInv, FsmInv
  <1>6. CASE Known(slot.agent)
    <2>1. PICK reply \in Replies :
            /\ RunOf(slot.agent, IF plan.how = "parallel" THEN 0 ELSE 1, reply)
            /\ flow' = Settled(i, IF reply.ok THEN "answered" ELSE "failed", Len(runs) + 1)
      BY <1>6, Zenon DEF SettleTask, slot
    <2> DEFINE input == IF plan.how = "parallel" THEN 0 ELSE 1
               state == IF reply.ok THEN "answered" ELSE "failed"
               run == Len(runs) + 1
    <2>2. /\ input \in Nat /\ slot.agent \in Name /\ run \in Nat /\ run # 0
          /\ state \in {"answered", "failed", "unknown"} /\ state # "unknown"
      BY <1>1, <1>3 DEF Slot
    <2>3. RunOf(slot.agent, input, reply) /\ flow' = Settled(i, state, run)
      BY <2>1, Zenon
    <2>4. reply.ok = (state = "answered")
      BY ReplyIs
    <2> HIDE DEF input, state
    <2>5. /\ runs' \in Seq(Made) /\ DOMAIN runs' = 1..run
          /\ \A j \in 1..Len(runs) : runs'[j] = runs[j]
          /\ runs'[run].agent = slot.agent /\ runs'[run].ok = reply.ok
      BY <1>1, <2>2, <2>3, ReplyIs, RunAdds
    <2>6. /\ DOMAIN runs \subseteq DOMAIN runs' /\ run \in DOMAIN runs'
          /\ \A j \in DOMAIN runs' : j \notin DOMAIN runs => j = run
      BY <1>1, <2>5
    <2> HIDE DEF run
    <2>7. QED BY <1>1, <1>5, <1>6, <2>2, <2>3, <2>4, <2>5, <2>6 DEF run
  <1>7. CASE ~Known(slot.agent)
    <2>1. flow' = Settled(i, "unknown", 0) /\ runs' = runs
      BY <1>7, Zenon DEF SettleTask, slot
    <2>2. QED BY <1>1, <1>5, <1>7, <2>1
  <1>8. QED BY <1>6, <1>7

LEMMA DecomposeKeeps == WorkflowInv /\ Decompose => WorkflowInv'
PROOF
  <1> SUFFICES ASSUME WorkflowInv, Decompose PROVE WorkflowInv'
    OBVIOUS
  <1>1. /\ FlowTyped /\ plan.how = "orchestrator" /\ flow.stage = "running" /\ runs = <<>>
        /\ plan' = plan /\ plan \in Plans /\ flow.slots = <<>> /\ Len(runs) = 0
        /\ "boss" \in Name
    BY DEF Decompose, Running, WorkflowInv, FlowTyped, Name
  <1>2. /\ flow \in [stage : {"idle", "running", "joining", "done"}, agent : Name,
                    slots : Seq(Slot), result : {"none", "ok", "error"}]
        /\ flow.result = "none"
    BY <1>1 DEF FlowTyped
  <1>3. \/ \E tasks \in plan.splits :
             /\ RunOf("boss", 0, [ok |-> TRUE, said |-> <<>>])
             /\ flow' = IF tasks = <<>> THEN Over("error")
                        ELSE [flow EXCEPT !.stage = "joining", !.slots = Open(tasks)]
        \/ RunOf("boss", 0, [ok |-> FALSE, said |-> <<>>]) /\ flow' = Over("error")
    BY DEF Decompose
  <1>4. runs' \in Seq(Made) /\ Len(runs') = 1 /\ DOMAIN runs' = 1..1
    <2>1. PICK reply : /\ reply.ok \in BOOLEAN /\ reply.said \in Words \cup {<<>>}
                       /\ RunOf("boss", 0, reply)
      <3> DEFINE Says(ok) == [ok |-> ok, said |-> <<>>]
      <3>1. ASSUME NEW ok \in BOOLEAN
            PROVE  Says(ok).ok \in BOOLEAN /\ Says(ok).said \in Words \cup {<<>>}
        OBVIOUS
      <3>2. RunOf("boss", 0, Says(TRUE)) \/ RunOf("boss", 0, Says(FALSE))
        BY <1>3
      <3> HIDE DEF Says
      <3>3. QED BY <3>1, <3>2
    <2>2. runs' \in Seq(Made) /\ Len(runs') = Len(runs) + 1 /\ DOMAIN runs' = 1..(Len(runs) + 1)
      BY <1>1, <2>1, RunAdds
    <2>3. QED BY <1>1, <2>2
  <1>5. flow'.stage # "running" => BossTwice'
    BY <1>1, <1>4 DEF BossTwice
  <1>6. CASE flow' = Over("error")
    <2>1. flow'.stage = "done" /\ flow'.slots = <<>> /\ FlowTyped'
      <3>1. \E result \in {"ok", "error"} : flow' = Over(result)
        BY <1>6
      <3>2. FlowTyped' /\ flow'.slots = <<>>
        BY <1>1, <1>4, <3>1, FlowGoes
      <3>3. QED BY <1>2, <1>6, <3>2 DEF Over
    <2>2. DOMAIN flow'.slots = {}
      BY <2>1
    <2>3. TasksInv'
      BY <1>5, <2>1, <2>2 DEF TasksInv, SlotsApart, Joined
    <2>4. QED BY <1>1, <2>1, <2>3 DEF WorkflowInv, ChainInv, RouterInv, FsmInv
  <1>7. ASSUME NEW tasks \in plan.splits,
               flow' = [flow EXCEPT !.stage = "joining", !.slots = Open(tasks)]
        PROVE  WorkflowInv'
    <2>1. /\ Open(tasks) \in Seq(Slot)
          /\ \A i \in DOMAIN Open(tasks) :
               Open(tasks)[i].run = 0 /\ Open(tasks)[i].state = "open"
      <3>1. tasks \in Seq(STRING)
        BY <1>1, PlanIs
      <3>2. QED BY <3>1, OpenSlots
    <2>2. /\ flow'.slots = Open(tasks) /\ flow'.stage = "joining" /\ flow'.result = "none"
          /\ flow' \in [stage : {"idle", "running", "joining", "done"}, agent : Name,
                        slots : Seq(Slot), result : {"none", "ok", "error"}]
      BY <1>2, <1>7, <2>1
    <2>3. FlowTyped'
      BY <1>1, <1>4, <2>2 DEF FlowTyped
    <2>4. \A i \in DOMAIN flow'.slots : flow'.slots[i].run = 0 /\ flow'.slots[i].state = "open"
      BY <2>1, <2>2
    <2>5. \A i \in DOMAIN flow'.slots : SettledFor(flow.slots[i])'
      BY <2>4 DEF SettledFor
    <2>6. SlotsApart'
      BY <2>4 DEF SlotsApart
    <2>7. TasksInv'
      BY <1>5, <2>2, <2>5, <2>6 DEF TasksInv
    <2>8. QED BY <1>1, <2>3, <2>7 DEF WorkflowInv, ChainInv, RouterInv, FsmInv
  <1>8. QED BY <1>3, <1>6, <1>7, Zenon

LEMMA JoinKeeps == WorkflowInv /\ Join => WorkflowInv'
PROOF
  <1> SUFFICES ASSUME WorkflowInv, Join PROVE WorkflowInv'
    OBVIOUS
  <1>1. /\ FlowTyped /\ TasksInv /\ flow.stage = "joining" /\ Joined
        /\ plan' = plan /\ plan \in Plans /\ Len(runs) \in Nat /\ runs \in Seq(Made)
        /\ DOMAIN runs = 1..Len(runs) /\ "boss" \in Name
    <2>1. /\ FlowTyped /\ TasksInv /\ flow.stage = "joining" /\ Joined
          /\ plan' = plan /\ plan \in Plans /\ runs \in Seq(Made)
      BY DEF Join, WorkflowInv, FlowTyped
    <2>2. QED BY <2>1 DEF Name
  <1>2. /\ flow \in [stage : {"idle", "running", "joining", "done"}, agent : Name,
                    slots : Seq(Slot), result : {"none", "ok", "error"}]
        /\ flow.result = "none" /\ plan.how \notin {"chain", "router", "fsm"}
    BY <1>1 DEF FlowTyped
  <1>3. ASSUME NEW result \in {"ok", "error"}, flow' = Over(result),
               runs' \in Seq(Made), DOMAIN runs \subseteq DOMAIN runs',
               \A j \in DOMAIN runs : runs'[j] = runs[j],
               \A j \in DOMAIN runs' : j \in DOMAIN runs \/ j = Len(runs'),
               plan.how = "orchestrator" => Len(runs') = Len(runs) + 1
        PROVE  WorkflowInv'
    <2>1. /\ flow'.slots = flow.slots /\ flow'.stage = "done" /\ flow'.result = result
          /\ flow' \in [stage : {"idle", "running", "joining", "done"}, agent : Name,
                        slots : Seq(Slot), result : {"none", "ok", "error"}]
      BY <1>2, <1>3 DEF Over
    <2>2. FlowTyped'
      BY <1>1, <1>2, <1>3, <2>1 DEF FlowTyped
    <2>3. \A agent : Known(agent)' = Known(agent)
      BY <1>1 DEF Known
    <2>4. ASSUME NEW i \in DOMAIN flow'.slots PROVE SettledFor(flow.slots[i])'
      <3>1. flow'.slots[i] = flow.slots[i] /\ SettledFor(flow.slots[i])
        BY <1>1, <2>1 DEF TasksInv
      <3>2. flow.slots[i].run # 0 => flow.slots[i].run \in DOMAIN runs'
              /\ runs'[flow.slots[i].run] = runs[flow.slots[i].run]
        BY <1>3, <3>1 DEF SettledFor
      <3>3. QED BY <2>3, <3>1, <3>2 DEF SettledFor
    <2>5. SlotsApart' /\ Joined'
      BY <1>1, <2>1 DEF TasksInv, SlotsApart, Joined
    <2>6. BossTwice'
      <3>1. ASSUME plan.how = "orchestrator", NEW j \in DOMAIN runs', runs'[j].agent = "boss"
            PROVE  j = 1 \/ j = Len(runs')
        <4>1. CASE j \in DOMAIN runs
          BY <1>1, <1>3, <3>1, <4>1 DEF TasksInv, BossTwice
        <4>2. QED BY <1>3, <4>1
      <3>2. QED BY <1>1, <2>1, <3>1 DEF BossTwice
    <2>7. TasksInv'
      BY <2>4, <2>5, <2>6 DEF TasksInv
    <2>8. QED BY <1>1, <1>2, <2>2, <2>7 DEF WorkflowInv, ChainInv, RouterInv, FsmInv
  <1>4. CASE plan.how = "parallel"
    <2>1. flow' = Over("ok") /\ runs' = runs
      BY <1>4 DEF Join
    <2>2. QED BY <1>1, <1>3, <1>4, <2>1
  <1>5. CASE plan.how # "parallel"
    <2>1. PICK reply \in Replies :
            /\ RunOf("boss", Len(runs), reply)
            /\ flow' = Over(IF reply.ok THEN "ok" ELSE "error")
      BY <1>5, Zenon DEF Join
    <2>2. /\ runs' \in Seq(Made) /\ Len(runs') = Len(runs) + 1
          /\ DOMAIN runs' = 1..(Len(runs) + 1)
          /\ \A j \in 1..Len(runs) : runs'[j] = runs[j]
      BY <1>1, <2>1, ReplyIs, RunAdds
    <2>3. \E result \in {"ok", "error"} : flow' = Over(result)
      BY <2>1
    <2>4. /\ DOMAIN runs \subseteq DOMAIN runs'
          /\ \A j \in DOMAIN runs' : j \in DOMAIN runs \/ j = Len(runs')
      BY <1>1, <2>2
    <2>5. QED BY <1>1, <1>3, <2>2, <2>3, <2>4
  <1>6. QED BY <1>4, <1>5

LEMMA FlowKeeps == WorkflowInv /\ [FlowNext]_flowVars => WorkflowInv'
PROOF
  <1>1. WorkflowInv /\ UNCHANGED flowVars => WorkflowInv'
    <2> SUFFICES ASSUME WorkflowInv, UNCHANGED flowVars PROVE WorkflowInv'
      OBVIOUS
    <2>1. plan' = plan /\ flow' = flow /\ runs' = runs
      BY DEF flowVars
    <2>2. FlowTyped'
      BY <2>1 DEF WorkflowInv, FlowTyped
    <2>3. ChainInv' /\ FsmInv'
      BY <2>1 DEF WorkflowInv, ChainInv, FsmInv, FeedsOn, AllOk, Path
    <2>4. RouterInv'
      <3>1. Chosen(runs[1].said)' = Chosen(runs[1].said)
        BY <2>1, Zenon DEF Chosen, Exact, Closest, SelectInSeq
      <3>2. QED BY <2>1, <3>1 DEF WorkflowInv, RouterInv
    <2>5. TasksInv'
      BY <2>1 DEF WorkflowInv, TasksInv, SettledFor, SlotsApart, Joined, BossTwice, Known
    <2>6. QED BY <2>2, <2>3, <2>4, <2>5 DEF WorkflowInv
  <1>2. QED BY <1>1, BeginKeeps, ChainKeeps, TriageKeeps, RouteKeeps, DecomposeKeeps,
               SettleKeeps, JoinKeeps, EnterKeeps, Zenon DEF FlowNext

LEMMA TwoAtMost ==
  ASSUME NEW A, NEW B, IsFiniteSet(A), IsFiniteSet(B), Cardinality(A) = 1, Cardinality(B) = 1,
         NEW S, S \subseteq A \cup B
  PROVE  Cardinality(S) <= 2
PROOF
  <1> DEFINE a == Cardinality(A)
             b == Cardinality(B)
             u == Cardinality(A \cup B)
             n == Cardinality(A \cap B)
             s == Cardinality(S)
  <1>1. IsFiniteSet(A \cup B) /\ IsFiniteSet(A \cap B) /\ u = a + b - n
    BY FS_Union, FS_Intersection
  <1>2. IsFiniteSet(S) /\ s <= u
    BY <1>1, FS_Subset
  <1>3. u \in Nat /\ n \in Nat /\ s \in Nat /\ a = 1 /\ b = 1
    BY <1>1, <1>2, FS_CardinalityType
  <1> HIDE DEF a, b, u, n, s
  <1>4. s <= 2
    BY <1>1, <1>2, <1>3
  <1>5. QED BY <1>4 DEF s

LEMMA FlowMeets == WorkflowInv => WorkflowFaithful
PROOF
  <1> SUFFICES ASSUME WorkflowInv PROVE WorkflowFaithful
    OBVIOUS
  <1>1. /\ plan \in Plans /\ runs \in Seq(Made) /\ Len(runs) \in Nat
        /\ DOMAIN runs = 1..Len(runs)
        /\ flow.stage = "done" <=> flow.result # "none"
        /\ plan.how \in {"chain", "router", "fsm"} => flow.slots = <<>>
    <2>1. plan \in Plans /\ runs \in Seq(Made)
      BY DEF WorkflowInv, FlowTyped
    <2>2. QED BY <2>1 DEF WorkflowInv, FlowTyped
  <1>2. plan.agents \in Seq(STRING) /\ Len(plan.agents) \in Nat
    BY <1>1, PlanIs
  <1>3. ChainFaithful
    <2>1. SUFFICES ASSUME plan.how = "chain" PROVE ChainFaithful
      BY DEF ChainFaithful
    <2>2. /\ Len(runs) <= Len(plan.agents) /\ FeedsOn
          /\ \A i \in DOMAIN runs : runs[i].agent = plan.agents[i]
          /\ flow.result = "ok" <=> runs # <<>> /\ AllOk /\ Len(runs) = Len(plan.agents)
      BY <2>1 DEF WorkflowInv, ChainInv
    <2> DEFINE names == [i \in DOMAIN runs |-> runs[i].agent]
    <2>3. IsPrefix(names, plan.agents)
      <3>1. \A i \in 1..Len(runs) : names[i] = plan.agents[i] /\ names[i] \in STRING
        BY <1>1, <1>2, <2>2
      <3>2. names \in Seq(STRING) /\ Len(names) = Len(runs)
        BY <1>1, <3>1
      <3> HIDE DEF names
      <3>3. /\ SubSeq(names, 1, Len(names)) \in Seq(STRING)
            /\ SubSeq(plan.agents, 1, Len(names)) \in Seq(STRING)
            /\ Len(SubSeq(names, 1, Len(names))) = Len(names)
            /\ Len(SubSeq(plan.agents, 1, Len(names))) = Len(names)
            /\ \A i \in 1..Len(names) :
                 SubSeq(names, 1, Len(names))[i] = SubSeq(plan.agents, 1, Len(names))[i]
        BY <1>1, <1>2, <2>2, <3>1, <3>2
      <3>4. QED BY <2>2, <3>2, <3>3, SeqEqual DEF IsPrefix
    <2>4. QED BY <2>2, <2>3 DEF ChainFaithful
  <1>4. RouterFaithful
    <2>1. SUFFICES ASSUME plan.how = "router", Len(runs) = 2 PROVE RouterFaithful
      BY DEF RouterFaithful
    <2> DEFINE word == runs[1].said
               c == Chosen(word)
    <2>2. c # 0 /\ runs[2].input = 0 /\ runs[2].agent = plan.agents[c]
      BY <2>1 DEF WorkflowInv, RouterInv
    <2>3. /\ c \in 0..Len(plan.labels)
          /\ \/ plan.labels[c] = word
             \/ /\ word \notin Range(plan.labels)
                /\ Within(plan.labels[c], word) \/ Within(word, plan.labels[c])
      BY <1>1, <2>2, ChosenIs
    <2>4. c \in DOMAIN plan.labels
      <3>1. plan.labels \in Seq(Seq(STRING))
        BY <1>1, PlansAssumption
      <3>2. DOMAIN plan.labels = 1..Len(plan.labels) /\ Len(plan.labels) \in Nat
        BY <3>1
      <3> HIDE DEF c
      <3>3. QED BY <2>2, <2>3, <3>2
    <2> HIDE DEF c
    <2>5. QED BY <2>2, <2>3, <2>4 DEF RouterFaithful
  <1>5. TasksFaithful
    <2> DEFINE ran == {i \in DOMAIN flow.slots : flow.slots[i].run # 0}
    <2>1. \A i \in DOMAIN flow.slots : SettledFor(flow.slots[i])
      BY DEF WorkflowInv, TasksInv
    <2>2. \A i \in ran : runs[flow.slots[i].run].agent = flow.slots[i].agent
                         /\ runs[flow.slots[i].run].ok = (flow.slots[i].state = "answered")
      BY <2>1 DEF SettledFor
    <2>3. \A i, j \in ran : flow.slots[i].run = flow.slots[j].run => i = j
      BY DEF WorkflowInv, TasksInv, SlotsApart
    <2>4. ASSUME flow.stage = "done", NEW i \in DOMAIN flow.slots
          PROVE  i \in ran <=> Known(flow.slots[i].agent)
      <3>1. flow.slots[i].state # "open"
        BY <2>4 DEF WorkflowInv, TasksInv, Joined
      <3>2. QED BY <2>1, <3>1 DEF SettledFor
    <2>5. ASSUME plan.how = "orchestrator"
          PROVE  Cardinality({i \in DOMAIN runs : runs[i].agent = "boss"}) <= 2
      <3> DEFINE boss == {i \in DOMAIN runs : runs[i].agent = "boss"}
      <3>1. boss \subseteq {1} \cup {Len(runs)}
        BY <2>5 DEF WorkflowInv, TasksInv, BossTwice
      <3>2. /\ IsFiniteSet({1}) /\ Cardinality({1}) = 1
            /\ IsFiniteSet({Len(runs)}) /\ Cardinality({Len(runs)}) = 1
        BY FS_Singleton
      <3>3. QED BY <3>1, <3>2, TwoAtMost
    <2> HIDE DEF ran
    <2>6. QED BY <2>2, <2>3, <2>4, <2>5 DEF TasksFaithful, ran
  <1>6. FsmFaithful
    <2>1. SUFFICES ASSUME plan.how = "fsm" PROVE FsmFaithful
      BY DEF FsmFaithful
    <2>2. runs # <<>> => Last(runs) = runs[Len(runs)]
      BY DEF Last
    <2>3. QED BY <2>1, <2>2 DEF WorkflowInv, FsmInv, FsmFaithful, Path
  <1>7. QED BY <1>3, <1>4, <1>5, <1>6 DEF WorkflowFaithful

(***************************************************************************)
(* Experiments.                                                            *)
(***************************************************************************)
RecordedWorks == {w \in Works : bench[w] = "recorded"}

LabTyped ==
  /\ trial \in Trials
  /\ lab \in [next : 1..(trial.works + 1), firstError : 0..trial.works,
              result : {"none", "ok", "error"}]
  /\ bench \in [Works -> {"waiting", "running", "judging", "failed", "recorded"}]
  /\ records \in Seq([work : Works, score : 0..2])

(* A work waits until its turn, has one record when it is recorded, and    *)
(* one that failed is the first error or came after it.                    *)
BenchInv ==
  /\ \A w \in Works : bench[w] = "waiting" <=> w >= lab.next
  /\ {records[i].work : i \in DOMAIN records} = RecordedWorks
  /\ Len(records) = Cardinality(RecordedWorks)
  /\ IF lab.firstError = 0 THEN \A w \in Works : bench[w] # "failed"
     ELSE bench[lab.firstError] = "failed"
  /\ lab.result # "none" => AtWork = {}
  /\ lab.result = "ok" => lab.firstError = 0 /\ lab.next > trial.works
  /\ lab.result = "error" => lab.firstError # 0
  /\ Cardinality(AtWork) <= trial.atOnce

(* One after the other: all before the last that was started have records. *)
InTurn ==
  trial.how = "ab" =>
    /\ \A i \in DOMAIN records : records[i].work = i
    /\ \A w \in Works : w + 1 < lab.next => bench[w] = "recorded"
    /\ lab.firstError # 0 => lab.next = lab.firstError + 1

TrialInv == LabTyped /\ BenchInv /\ InTurn

LEMMA TrialIs ==
  ASSUME trial \in Trials
  PROVE  /\ trial.how \in {"evaluate", "ab"} /\ trial.works \in Nat
         /\ trial.atOnce \in Nat /\ trial.atOnce >= 1 /\ (trial.how = "ab" => trial.atOnce = 1)
  BY TrialsAssumption

(* The works that are at work, and those that are recorded, are finite.    *)
LEMMA WorksFinite ==
  ASSUME trial \in Trials
  PROVE  /\ IsFiniteSet(Works) /\ Cardinality(Works) = trial.works
         /\ \A S \in SUBSET Works : IsFiniteSet(S) /\ Cardinality(S) \in Nat
PROOF
  <1>1. trial.works \in Nat
    BY TrialIs
  <1>2. IsFiniteSet(1..trial.works) /\ Cardinality(1..trial.works) = trial.works
    <2> DEFINE n == trial.works
    <2>1. /\ IsFiniteSet(1..n)
          /\ Cardinality(1..n) = IF 1 > n THEN 0 ELSE n - 1 + 1
      BY SMTT(40), <1>1, FS_Interval
    <2>2. n \in Nat
      BY <1>1
    <2> HIDE DEF n
    <2>3. Cardinality(1..n) = n
      BY <2>1, <2>2
    <2>4. QED BY <2>1, <2>3 DEF n
  <1>3. \A S \in SUBSET Works : IsFiniteSet(S)
    BY <1>2, FS_Subset DEF Works
  <1>4. QED BY <1>2, <1>3, FS_CardinalityType DEF Works

LEMMA TrialStarts == TrialInit => TrialInv
PROOF
  <1> SUFFICES ASSUME TrialInit PROVE TrialInv
    OBVIOUS
  <1>1. /\ trial \in Trials /\ lab = [next |-> 1, firstError |-> 0, result |-> "none"]
        /\ bench = [w \in Works |-> "waiting"] /\ records = <<>>
    BY DEF TrialInit
  <1>2. trial.works \in Nat /\ trial.atOnce \in Nat
    BY <1>1, TrialIs
  <1>3. LabTyped
    <2>1. records \in Seq([work : Works, score : 0..2])
      BY <1>1
    <2>2. QED BY <1>1, <1>2, <2>1 DEF LabTyped
  <1>4. AtWork = {} /\ RecordedWorks = {} /\ DOMAIN records = {} /\ Len(records) = 0
    BY <1>1 DEF AtWork, RecordedWorks
  <1>5. BenchInv
    <2>1. Cardinality(AtWork) = 0 /\ Cardinality(RecordedWorks) = 0
      BY <1>4, FS_EmptySet
    <2>2. \A w \in Works : bench[w] = "waiting" /\ w >= 1
      BY <1>1, <1>2 DEF Works
    <2>3. QED BY <1>1, <1>2, <1>4, <2>1, <2>2 DEF BenchInv
  <1>6. InTurn
    BY <1>1, <1>2, <1>4 DEF InTurn, Works
  <1>7. QED BY <1>3, <1>5, <1>6 DEF TrialInv

(* A set of works with one element more or less.                           *)
LEMMA OneMore ==
  ASSUME trial \in Trials, NEW S \in SUBSET Works, NEW w \in Works, w \notin S
  PROVE  Cardinality(S \cup {w}) = Cardinality(S) + 1
  BY WorksFinite, FS_AddElement

LEMMA OneLess ==
  ASSUME trial \in Trials, NEW S \in SUBSET Works, NEW R \in SUBSET S
  PROVE  Cardinality(R) <= Cardinality(S)
  BY WorksFinite, FS_Subset

(* At most one is at work in an A/B test.                                  *)
LEMMA OnlyOne ==
  ASSUME trial \in Trials, NEW S \in SUBSET Works, Cardinality(S) <= 1, NEW v \in S, NEW w \in S
  PROVE  v = w
PROOF
  <1>1. SUFFICES ASSUME v # w PROVE FALSE
    OBVIOUS
  <1> DEFINE one == Cardinality({v})
             two == Cardinality({v} \cup {w})
             all == Cardinality(S)
  <1>2. two = one + 1 /\ one = 1
    BY <1>1, OneMore, FS_Singleton
  <1>3. two <= all /\ all <= 1 /\ two \in Nat /\ all \in Nat
    BY OneLess, WorksFinite
  <1> HIDE DEF one, two, all
  <1>4. QED BY <1>2, <1>3

LEMMA StartWorkKeeps == TrialInv /\ StartWork => TrialInv'
PROOF
  <1> SUFFICES ASSUME TrialInv, StartWork PROVE TrialInv'
    OBVIOUS
  <1> DEFINE n == lab.next
  <1>1. /\ LabTyped /\ BenchInv /\ InTurn /\ trial \in Trials /\ trial' = trial /\ records' = records
        /\ lab.result = "none" /\ n \in Works /\ Cardinality(AtWork) < trial.atOnce
        /\ trial.how = "ab" => lab.firstError = 0
        /\ bench' = [bench EXCEPT ![n] = "running"]
        /\ lab' = [lab EXCEPT !.next = n + 1]
    BY DEF StartWork, TrialInv, LabTyped, HasPlace
  <1>2. /\ trial.works \in Nat /\ trial.atOnce \in Nat
        /\ trial.how = "ab" => trial.atOnce = 1
    BY <1>1, TrialIs
  <1>3. /\ lab \in [next : 1..(trial.works + 1), firstError : 0..trial.works,
                    result : {"none", "ok", "error"}]
        /\ bench \in [Works -> {"waiting", "running", "judging", "failed", "recorded"}]
        /\ Works' = Works /\ Works = 1..trial.works /\ n \in 1..trial.works
    BY <1>1 DEF LabTyped, Works
  <1>4. lab'.next = n + 1 /\ lab'.firstError = lab.firstError /\ lab'.result = "none"
    BY <1>1, <1>3
  <1>5. \A w \in Works : bench'[w] = IF w = n THEN "running" ELSE bench[w]
    BY <1>1, <1>3
  <1>6. bench[n] = "waiting"
    BY <1>1, <1>2, <1>3 DEF BenchInv
  <1> HIDE DEF n
  <1>7. LabTyped'
    BY SMTT(40), <1>1, <1>2, <1>3 DEF LabTyped
  <1>8. RecordedWorks' = RecordedWorks
    BY <1>3, <1>5, <1>6 DEF RecordedWorks
  <1>9. AtWork' = AtWork \cup {n} /\ n \notin AtWork /\ AtWork \in SUBSET Works
    BY <1>1, <1>3, <1>5, <1>6 DEF AtWork
  <1>10. Cardinality(AtWork') <= trial.atOnce
    <2>1. Cardinality(AtWork') = Cardinality(AtWork) + 1 /\ Cardinality(AtWork) \in Nat
      BY <1>1, <1>9, OneMore, WorksFinite
    <2>2. QED BY <1>1, <1>2, <2>1
  <1>11. BenchInv'
    <2>1. \A w \in Works : bench'[w] = "waiting" <=> w >= n + 1
      BY <1>1, <1>2, <1>3, <1>5 DEF BenchInv, n
    <2>2. lab.firstError # 0 => bench'[lab.firstError] = "failed"
      <3>1. SUFFICES ASSUME lab.firstError # 0 PROVE bench'[lab.firstError] = "failed"
        OBVIOUS
      <3>2. lab.firstError \in Works /\ bench[lab.firstError] = "failed"
        BY <1>1, <1>2, <1>3, <3>1 DEF BenchInv
      <3>3. QED BY <1>5, <1>6, <3>2
    <2>3. lab.firstError = 0 => \A w \in Works : bench'[w] # "failed"
      BY <1>1, <1>5 DEF BenchInv
    <2>4. QED BY <1>1, <1>3, <1>4, <1>8, <1>10, <2>1, <2>2, <2>3 DEF BenchInv
  <1>12. InTurn'
    <2>1. SUFFICES ASSUME trial.how = "ab"
                   PROVE  \A w \in Works : w + 1 < n + 1 => bench'[w] = "recorded"
      BY <1>1, <1>3, <1>4 DEF InTurn
    <2>2. AtWork = {}
      <3>1. Cardinality(AtWork) = 0
        BY <1>1, <1>2, <1>9, <2>1, WorksFinite
      <3>2. QED BY <1>1, <1>9, <3>1, WorksFinite, FS_EmptySet
    <2>3. ASSUME NEW w \in Works, w + 1 < n + 1 PROVE bench'[w] = "recorded"
      <3>1. w \in Nat /\ w < n /\ bench[w] # "waiting" /\ w # n
        BY <1>1, <1>2, <1>3, <2>3 DEF BenchInv, n
      <3>2. bench[w] \notin {"running", "judging"}
        BY <2>2 DEF AtWork
      <3>3. bench[w] # "failed"
        BY <1>1, <2>1 DEF BenchInv
      <3>4. bench[w] = "recorded"
        BY <1>3, <3>1, <3>2, <3>3
      <3>5. QED BY <1>5, <3>1, <3>4
    <2>4. QED BY <2>3
  <1>13. QED BY <1>7, <1>11, <1>12 DEF TrialInv

(* A work that is at work is the last one started, in an A/B test.         *)
LEMMA LastStarted ==
  ASSUME TrialInv, trial.how = "ab", NEW w \in AtWork
  PROVE  /\ w + 1 = lab.next /\ AtWork = {w} /\ lab.firstError = 0
         /\ \A v \in Works : bench[v] = "recorded" <=> v < w
         /\ Len(records) = w - 1
PROOF
  <1>1. /\ LabTyped /\ BenchInv /\ InTurn /\ trial \in Trials
    BY DEF TrialInv, LabTyped
  <1>2. trial.works \in Nat /\ trial.atOnce = 1
    BY <1>1, TrialIs
  <1>3. /\ w \in Works /\ bench[w] \in {"running", "judging"} /\ AtWork \in SUBSET Works
        /\ Works = 1..trial.works
    BY DEF AtWork, Works
  <1>4. lab.next \in 1..(trial.works + 1) /\ lab.firstError \in 0..trial.works
    BY <1>1 DEF LabTyped
  <1>5. w < lab.next /\ ~(w + 1 < lab.next)
    BY <1>1, <1>2, <1>3, <1>4 DEF BenchInv, InTurn
  <1>6. w + 1 = lab.next
    BY <1>2, <1>3, <1>4, <1>5
  <1>7. AtWork = {w}
    <2>1. Cardinality(AtWork) <= 1
      BY <1>1, <1>2 DEF BenchInv
    <2>2. ASSUME NEW v \in AtWork PROVE v = w
      BY <1>1, <1>3, <2>1, OnlyOne
    <2>3. QED BY <2>2
  <1>8. lab.firstError = 0
    <2>1. SUFFICES ASSUME lab.firstError # 0 PROVE FALSE
      OBVIOUS
    <2>2. lab.next = lab.firstError + 1 /\ bench[lab.firstError] = "failed"
      BY <1>1, <2>1 DEF BenchInv, InTurn
    <2>3. lab.firstError = w
      BY <1>2, <1>3, <1>4, <1>6, <2>2
    <2>4. QED BY <1>3, <2>2, <2>3
  <1>9. \A v \in Works : bench[v] = "recorded" <=> v < w
    <2>1. ASSUME NEW v \in Works, v < w PROVE bench[v] = "recorded"
      BY <1>1, <1>2, <1>3, <1>6, <2>1 DEF InTurn
    <2>2. ASSUME NEW v \in Works, ~(v < w) PROVE bench[v] # "recorded"
      <3>1. v = w \/ v >= lab.next
        BY <1>2, <1>3, <1>6, <2>2
      <3>2. QED BY <1>1, <1>3, <3>1 DEF BenchInv
    <2>3. QED BY <2>1, <2>2
  <1>10. Len(records) = w - 1
    <2> DEFINE k == w - 1
    <2>1. RecordedWorks = 1..k /\ k \in Nat
      BY <1>2, <1>3, <1>9 DEF RecordedWorks
    <2>2. Cardinality(1..k) = IF 1 > k THEN 0 ELSE k - 1 + 1
      BY SMTT(40), <2>1, FS_Interval
    <2>3. Len(records) = Cardinality(RecordedWorks)
      BY <1>1 DEF BenchInv
    <2> HIDE DEF k
    <2>4. Cardinality(1..k) = k
      BY <2>1, <2>2
    <2>5. QED BY <2>1, <2>3, <2>4 DEF k
  <1>11. QED BY <1>6, <1>7, <1>8, <1>9, <1>10

(* A work that is at work goes on to its judge.                            *)
LEMMA JudgingKeeps ==
  ASSUME TrialInv, NEW w \in AtWork, trial' = trial, lab' = lab, records' = records,
         bench' = [bench EXCEPT ![w] = "judging"]
  PROVE  TrialInv'
PROOF
  <1>1. /\ LabTyped /\ BenchInv /\ InTurn /\ trial \in Trials
        /\ w \in Works /\ bench[w] \in {"running", "judging"} /\ Works' = Works
        /\ bench \in [Works -> {"waiting", "running", "judging", "failed", "recorded"}]
    BY DEF TrialInv, LabTyped, AtWork, Works
  <1>2. \A v \in Works : bench'[v] = IF v = w THEN "judging" ELSE bench[v]
    BY <1>1
  <1>3. LabTyped'
    BY <1>1 DEF LabTyped
  <1>4. AtWork' = AtWork /\ RecordedWorks' = RecordedWorks
    BY <1>1, <1>2 DEF AtWork, RecordedWorks
  <1>5. /\ \A v \in Works : bench'[v] = "waiting" <=> bench[v] = "waiting"
        /\ \A v \in Works : bench'[v] = "failed" <=> bench[v] = "failed"
        /\ \A v \in Works : bench'[v] = "recorded" <=> bench[v] = "recorded"
    BY <1>1, <1>2
  <1>6. lab.firstError # 0 => lab.firstError \in Works
    <2>1. lab.firstError \in 0..trial.works /\ trial.works \in Nat
      BY <1>1, TrialIs DEF LabTyped
    <2>2. QED BY <2>1 DEF Works
  <1>7. BenchInv'
    BY <1>1, <1>4, <1>5, <1>6 DEF BenchInv
  <1>8. InTurn'
    BY <1>1, <1>5 DEF InTurn
  <1>9. QED BY <1>3, <1>7, <1>8 DEF TrialInv

(* It fails.                                                               *)
LEMMA BrokenKeeps ==
  ASSUME TrialInv, NEW w \in AtWork, Broken(w)
  PROVE  TrialInv'
PROOF
  <1>1. /\ LabTyped /\ BenchInv /\ InTurn /\ trial \in Trials /\ trial' = trial
        /\ w \in Works /\ bench[w] \in {"running", "judging"} /\ Works' = Works
        /\ bench \in [Works -> {"waiting", "running", "judging", "failed", "recorded"}]
        /\ bench' = [bench EXCEPT ![w] = "failed"] /\ records' = records
        /\ lab' = [lab EXCEPT !.firstError = IF @ = 0 THEN w ELSE @]
    BY DEF Broken, TrialInv, LabTyped, AtWork, Works
  <1>2. \A v \in Works : bench'[v] = IF v = w THEN "failed" ELSE bench[v]
    BY <1>1
  <1>3. trial.works \in Nat /\ Works = 1..trial.works /\ trial.atOnce \in Nat
    BY <1>1, TrialIs DEF Works
  <1>4. /\ lab'.next = lab.next /\ lab'.result = lab.result
        /\ lab'.firstError = IF lab.firstError = 0 THEN w ELSE lab.firstError
        /\ lab' \in [next : 1..(trial.works + 1), firstError : 0..trial.works,
                     result : {"none", "ok", "error"}]
        /\ lab.firstError \in 0..trial.works
    <2>1. lab \in [next : 1..(trial.works + 1), firstError : 0..trial.works,
                    result : {"none", "ok", "error"}] /\ w \in 0..trial.works
      BY <1>1, <1>3 DEF LabTyped
    <2>2. QED BY <1>1, <2>1
  <1>5. LabTyped'
    BY <1>1, <1>4 DEF LabTyped
  <1>6. AtWork' = AtWork \ {w} /\ RecordedWorks' = RecordedWorks /\ AtWork \in SUBSET Works
    BY <1>1, <1>2 DEF AtWork, RecordedWorks
  <1>7. /\ \A v \in Works : bench'[v] = "waiting" <=> bench[v] = "waiting"
        /\ \A v \in Works : bench'[v] = "recorded" <=> bench[v] = "recorded"
    BY <1>1, <1>2
  <1>8. Cardinality(AtWork') <= trial.atOnce
    <2>1. Cardinality(AtWork') <= Cardinality(AtWork) /\ AtWork' \in SUBSET Works
      BY <1>1, <1>6, OneLess
    <2>2. Cardinality(AtWork') \in Nat /\ Cardinality(AtWork) \in Nat
      BY <1>1, <1>6, <2>1, WorksFinite
    <2>3. Cardinality(AtWork) <= trial.atOnce
      BY <1>1 DEF BenchInv
    <2>4. QED BY <1>3, <2>1, <2>2, <2>3
  <1>9. lab'.firstError # 0 /\ bench'[lab'.firstError] = "failed"
    <2>1. CASE lab.firstError = 0
      BY <1>1, <1>2, <1>3, <1>4, <2>1
    <2>2. CASE lab.firstError # 0
      <3>1. bench[lab.firstError] = "failed" /\ lab.firstError \in Works
        BY <1>1, <1>3, <1>4, <2>2 DEF BenchInv
      <3>2. QED BY <1>1, <1>2, <1>4, <2>2, <3>1
    <2>3. QED BY <2>1, <2>2
  <1>10. lab.result = "none"
    BY <1>1 DEF BenchInv
  <1>11. BenchInv'
    BY <1>1, <1>4, <1>6, <1>7, <1>8, <1>9, <1>10 DEF BenchInv
  <1>12. InTurn'
    BY <1>1, <1>4, <1>7, LastStarted DEF InTurn
  <1>13. QED BY <1>5, <1>11, <1>12 DEF TrialInv

(* It is recorded.                                                         *)
LEMMA RecordedKeeps ==
  ASSUME TrialInv, NEW w \in AtWork, NEW score \in 0..2, Recorded(w, score),
         trial' = trial, lab' = lab, bench' = [bench EXCEPT ![w] = "recorded"]
  PROVE  TrialInv'
PROOF
  <1>1. /\ LabTyped /\ BenchInv /\ InTurn /\ trial \in Trials
        /\ w \in Works /\ bench[w] \in {"running", "judging"} /\ Works' = Works
        /\ bench \in [Works -> {"waiting", "running", "judging", "failed", "recorded"}]
        /\ records \in Seq([work : Works, score : 0..2])
        /\ records' = Append(records, [work |-> w, score |-> score])
    BY DEF Recorded, TrialInv, LabTyped, AtWork, Works
  <1>2. \A v \in Works : bench'[v] = IF v = w THEN "recorded" ELSE bench[v]
    BY <1>1
  <1>3. trial.works \in Nat /\ Works = 1..trial.works /\ trial.atOnce \in Nat
        /\ lab.firstError \in 0..trial.works /\ lab.next \in 1..(trial.works + 1)
    BY <1>1, TrialIs DEF Works, LabTyped
  <1>4. /\ [work |-> w, score |-> score] \in [work : Works, score : 0..2]
        /\ [work |-> w, score |-> score].work = w
    BY <1>1
  <1>5. /\ records' \in Seq([work : Works, score : 0..2]) /\ Len(records') = Len(records) + 1
        /\ Len(records) \in Nat /\ DOMAIN records = 1..Len(records)
        /\ DOMAIN records' = 1..(Len(records) + 1)
        /\ \A i \in 1..Len(records) : records'[i] = records[i]
        /\ records'[Len(records) + 1].work = w
    BY <1>1, <1>4
  <1>6. LabTyped'
    BY <1>1, <1>5 DEF LabTyped
  <1>7. /\ AtWork' = AtWork \ {w} /\ RecordedWorks' = RecordedWorks \cup {w}
        /\ AtWork \in SUBSET Works /\ w \notin RecordedWorks /\ RecordedWorks \in SUBSET Works
    BY <1>1, <1>2 DEF AtWork, RecordedWorks
  <1>8. Cardinality(AtWork') <= trial.atOnce
    <2>1. Cardinality(AtWork') <= Cardinality(AtWork) /\ AtWork' \in SUBSET Works
      BY <1>1, <1>7, OneLess
    <2>2. Cardinality(AtWork') \in Nat /\ Cardinality(AtWork) \in Nat
      BY <1>1, <1>7, <2>1, WorksFinite
    <2>3. Cardinality(AtWork) <= trial.atOnce
      BY <1>1 DEF BenchInv
    <2>4. QED BY <1>3, <2>1, <2>2, <2>3
  <1>9. Len(records') = Cardinality(RecordedWorks')
    <2>1. Cardinality(RecordedWorks') = Cardinality(RecordedWorks) + 1
      BY <1>1, <1>7, OneMore
    <2>2. QED BY <1>1, <1>5, <2>1 DEF BenchInv
  <1>10. {records'[i].work : i \in DOMAIN records'} = RecordedWorks'
    <2>1. {records'[i].work : i \in DOMAIN records'}
            = {records[i].work : i \in DOMAIN records} \cup {w}
      BY SMTT(40), <1>5
    <2>2. QED BY <1>1, <1>7, <2>1 DEF BenchInv
  <1>11. lab.result = "none"
    BY <1>1 DEF BenchInv
  <1>12. /\ \A v \in Works : bench'[v] = "waiting" <=> bench[v] = "waiting"
         /\ \A v \in Works : bench'[v] = "failed" <=> bench[v] = "failed"
         /\ \A v \in Works : bench[v] = "recorded" => bench'[v] = "recorded"
         /\ lab.firstError # 0 => lab.firstError \in Works
    BY <1>1, <1>2, <1>3
  <1>13. BenchInv'
    BY <1>1, <1>8, <1>9, <1>10, <1>11, <1>12 DEF BenchInv
  <1>14. InTurn'
    <2>1. SUFFICES ASSUME trial.how = "ab" PROVE \A i \in DOMAIN records' : records'[i].work = i
      BY <1>1, <1>12 DEF InTurn
    <2>2. Len(records) = w - 1
      BY <2>1, LastStarted
    <2>3. Len(records) + 1 = w
      BY <1>3, <1>1, <2>2
    <2>4. \A i \in DOMAIN records : records[i].work = i
      BY <1>1, <2>1 DEF InTurn
    <2>5. QED BY <1>5, <2>3, <2>4
  <1>15. QED BY <1>6, <1>13, <1>14 DEF TrialInv

LEMMA ReturnKeeps == TrialInv /\ ReturnTrial => TrialInv'
PROOF
  <1> SUFFICES ASSUME TrialInv, ReturnTrial PROVE TrialInv'
    OBVIOUS
  <1>1. /\ LabTyped /\ BenchInv /\ InTurn /\ trial \in Trials /\ trial' = trial
        /\ AllDone \/ (trial.how = "ab" /\ lab.firstError # 0)
        /\ lab' = [lab EXCEPT !.result = IF lab.firstError # 0 THEN "error" ELSE "ok"]
        /\ bench' = bench /\ records' = records
    BY DEF ReturnTrial, Ended_, TrialInv, LabTyped
  <1>2. /\ lab \in [next : 1..(trial.works + 1), firstError : 0..trial.works,
                    result : {"none", "ok", "error"}]
    BY <1>1 DEF LabTyped
  <1>3. /\ lab'.next = lab.next /\ lab'.firstError = lab.firstError
        /\ lab'.result = IF lab.firstError # 0 THEN "error" ELSE "ok"
        /\ lab' \in [next : 1..(trial.works + 1), firstError : 0..trial.works,
                     result : {"none", "ok", "error"}]
    BY <1>1, <1>2
  <1>4. AtWork = {}
    <2>1. CASE AllDone
      BY <2>1 DEF AllDone
    <2>2. CASE trial.how = "ab" /\ lab.firstError # 0
      <3>1. \A w : w \notin AtWork
        BY <2>2, LastStarted
      <3>2. QED BY <3>1
    <2>3. QED BY <1>1, <2>1, <2>2
  <1>5. LabTyped'
    BY <1>1, <1>3 DEF LabTyped, Works
  <1>6. Works' = Works /\ AtWork' = AtWork /\ RecordedWorks' = RecordedWorks
    BY <1>1 DEF Works, AtWork, RecordedWorks
  <1>7. BenchInv'
    BY <1>1, <1>3, <1>4, <1>6 DEF BenchInv, AllDone
  <1>8. InTurn'
    BY <1>1, <1>3, <1>6 DEF InTurn
  <1>9. QED BY <1>5, <1>7, <1>8 DEF TrialInv

LEMMA TrialKeeps == TrialInv /\ [TrialNext]_trialVars => TrialInv'
PROOF
  <1>1. ASSUME TrialInv, NEW w \in Works, RunWork(w) PROVE TrialInv'
    <2>1. w \in AtWork
      BY <1>1 DEF RunWork, AtWork
    <2>2. \/ Broken(w)
          \/ /\ bench' = [bench EXCEPT ![w] = "judging"] /\ records' = records
             /\ trial' = trial /\ lab' = lab
          \/ /\ bench' = [bench EXCEPT ![w] = "recorded"] /\ Recorded(w, 0)
             /\ trial' = trial /\ lab' = lab
      BY <1>1 DEF RunWork
    <2>3. 0 \in 0..2
      OBVIOUS
    <2>4. QED BY <1>1, <2>1, <2>2, <2>3, BrokenKeeps, JudgingKeeps, RecordedKeeps
  <1>2. ASSUME TrialInv, NEW w \in Works, JudgeWork(w) PROVE TrialInv'
    <2>1. w \in AtWork
      BY <1>2 DEF JudgeWork, AtWork
    <2>2. \/ Broken(w)
          \/ \E score \in 0..2 : /\ bench' = [bench EXCEPT ![w] = "recorded"]
                                /\ Recorded(w, score) /\ trial' = trial /\ lab' = lab
      BY <1>2 DEF JudgeWork
    <2>3. QED BY <1>2, <2>1, <2>2, BrokenKeeps, RecordedKeeps
  <1>3. ASSUME TrialInv, UNCHANGED trialVars PROVE TrialInv'
    <2>1. trial' = trial /\ lab' = lab /\ bench' = bench /\ records' = records
      BY <1>3 DEF trialVars
    <2>2. Works' = Works /\ AtWork' = AtWork /\ RecordedWorks' = RecordedWorks
      BY <2>1 DEF Works, AtWork, RecordedWorks
    <2>3. LabTyped'
      BY <1>3, <2>1, <2>2 DEF LabTyped, TrialInv
    <2>4. BenchInv'
      BY <1>3, <2>1, <2>2 DEF BenchInv, TrialInv
    <2>5. InTurn'
      BY <1>3, <2>1, <2>2 DEF InTurn, TrialInv
    <2>6. QED BY <2>3, <2>4, <2>5 DEF TrialInv
  <1>4. QED BY <1>1, <1>2, <1>3, StartWorkKeeps, ReturnKeeps DEF TrialNext

LEMMA TrialMeets == TrialInv => TrialFaithful
PROOF
  <1> SUFFICES ASSUME TrialInv PROVE TrialFaithful
    OBVIOUS
  <1>1. /\ LabTyped /\ BenchInv /\ InTurn /\ trial \in Trials
    BY DEF TrialInv, LabTyped
  <1>2. ASSUME lab.result = "ok"
        PROVE  Len(records) = trial.works /\ {records[i].work : i \in DOMAIN records} = Works
    <2>1. RecordedWorks = Works
      <3>1. trial.works \in Nat
        BY <1>1, TrialIs
      <3>2. ASSUME NEW w \in Works PROVE bench[w] = "recorded"
        <4>1. bench[w] \in {"waiting", "running", "judging", "failed", "recorded"}
          BY <1>1 DEF LabTyped
        <4>2. bench[w] # "waiting"
          <5>1. lab.next \in 1..(trial.works + 1) /\ lab.next > trial.works /\ w \in 1..trial.works
            BY <1>1, <1>2 DEF LabTyped, BenchInv, Works
          <5>2. QED BY <1>1, <3>1, <5>1 DEF BenchInv
        <4>3. bench[w] \notin {"running", "judging"}
          BY <1>1, <1>2 DEF BenchInv, AtWork
        <4>4. bench[w] # "failed"
          BY <1>1, <1>2 DEF BenchInv
        <4>5. QED BY <4>1, <4>2, <4>3, <4>4
      <3>3. QED BY <3>2 DEF RecordedWorks
    <2>2. Cardinality(Works) = trial.works
      BY <1>1, WorksFinite
    <2>3. QED BY <1>1, <2>1, <2>2 DEF BenchInv
  <1>3. QED BY <1>1, <1>2 DEF BenchInv, InTurn, TrialFaithful

(***************************************************************************)
(* Training.                                                               *)
(***************************************************************************)
SampleOf == [format : STRING, messages : Nat, lines : Nat]

(* What can be evaluated was given: the collector writes no such sample.   *)
AskedFor == \E i \in DOMAIN options.given : Asks(options.given[i])
Sourced == {s \in SampleOf : Asks(s) => AskedFor}

Jobs == [stage : {"none", "running", "exited"}, written : Nat, pipe : Nat,
         reader : {"reading", "sending"}, progress : Nat, ok : BOOLEAN]

TrainingTyped ==
  /\ options \in Schedules
  /\ collector \in [ended : Nat, count : Nat, files : Seq(SampleOf)]
  /\ schedule \in [stage : {"waiting", "training", "ended"}, last : Nat, cancelled : BOOLEAN]
  /\ job \in Jobs
  /\ dataset \in [stage : {"none", "split", "evaluated"}, train : Seq(SampleOf),
                  test : Seq(SampleOf), answered : Nat, correct : Nat]
  /\ begun \in Seq(Nat)
  /\ reports \in Seq([said : {"complete", "error"}, ok : BOOLEAN])

(* The scheduler remembers the count of the last training it began.        *)
BegunInv ==
  /\ schedule.last = IF begun = <<>> THEN 0 ELSE begun[Len(begun)]
  /\ options.timed \/ \A i \in DOMAIN begun :
       begun[i] >= options.threshold + (IF i = 1 THEN 0 ELSE begun[i - 1])

(* Each training is under way or reported.                                 *)
ReportsInv ==
  /\ \A i \in DOMAIN reports : reports[i].said = "complete" <=> reports[i].ok
  /\ Len(reports) + (IF schedule.stage = "training" THEN 1 ELSE 0) = Len(begun)
  /\ schedule.stage = "training" <=> job.stage # "none"
  /\ job.stage = "none" => job = NoJob
  /\ job.progress <= ProgressCap

FilesInv == Len(collector.files) <= collector.count /\ collector.count <= collector.ended

AnswersInv ==
  /\ collector.files \in Seq(Sourced) /\ dataset.test \in Seq(Sourced)
  /\ dataset.stage # "evaluated" => dataset.answered = 0
  /\ dataset.answered > 0 => AskedFor

TrainingInv == TrainingTyped /\ BegunInv /\ ReportsInv /\ FilesInv /\ AnswersInv

LEMMA FilteredIs ==
  ASSUME NEW S, S \subseteq SampleOf, NEW samples \in Seq(S), NEW minTurns
  PROVE  Filtered(samples, minTurns) \in Seq(S)
PROOF
  <1> DEFINE T == {s \in S : s.messages >= minTurns}
  <1>1. \A i \in DOMAIN samples : samples[i] \in S
    BY Zenon, ElementOfSeq, LenProperties
  <1>2. [i \in DOMAIN samples |-> IF samples[i].messages >= minTurns THEN <<samples[i]>> ELSE <<>>]
          = [i \in DOMAIN samples |-> IF samples[i] \in T THEN <<samples[i]>> ELSE <<>>]
    BY <1>1
  <1> HIDE DEF T
  <1>3. Filtered(samples, minTurns) = Among(samples, T)
    BY <1>2, Zenon DEF Filtered, Selected, Among
  <1>4. QED BY <1>3, AmongTyped

LEMMA LinesAre ==
  ASSUME NEW S, S \subseteq SampleOf, NEW samples \in Seq(S)
  PROVE  Lines(samples) \in Seq(S)
PROOF
  <1> DEFINE L(i) == [l \in 1..samples[i].lines |-> samples[i]]
             s == [i \in DOMAIN samples |-> L(i)]
             V == Seq(S)
  <1>1. /\ Len(samples) \in Nat /\ DOMAIN samples = 1..Len(samples)
        /\ \A i \in 1..Len(samples) : samples[i] \in S /\ samples[i].lines \in Nat
    <2>1. \A i \in 1..Len(samples) : samples[i] \in S
      OBVIOUS
    <2>2. \A e \in S : e.lines \in Nat
      BY DEF SampleOf
    <2>3. QED BY <2>1, <2>2
  <1>2. ASSUME NEW i \in 1..Len(samples) PROVE L(i) \in V
    <2> DEFINE n == samples[i].lines
               e == samples[i]
    <2>1. n \in Nat /\ e \in S
      BY <1>1
    <2> HIDE DEF e, n
    <2>2. [l \in 1..n |-> e] \in Seq(S)
      BY <2>1
    <2>3. QED BY <2>2 DEF e, n
  <1> HIDE DEF L, V
  <1>3. s \in Seq(V)
    BY <1>1, <1>2
  <1> HIDE DEF s
  <1>4. FlattenSeq(s) \in Seq(S)
    BY <1>3, FlattenIn DEF V
  <1>5. Lines(samples) = FlattenSeq(s)
    BY DEF Lines, s, L
  <1>6. QED BY <1>4, <1>5

(* What is evaluated was asked for.                                        *)
LEMMA EvaluableIs ==
  ASSUME dataset.test \in Seq(Sourced)
  PROVE  Evaluable \in Nat /\ (Evaluable > 0 => AskedFor)
PROOF
  <1> DEFINE T == {l \in Sourced : Asks(l)}
             s == Lines(dataset.test)
  <1>1. s \in Seq(Sourced)
    BY LinesAre DEF Sourced
  <1> HIDE DEF s
  <1>2. \A i \in DOMAIN s : s[i] \in Sourced
    BY <1>1, Zenon, ElementOfSeq, LenProperties
  <1>3. \A i \in DOMAIN s : Asks(s[i]) <=> s[i] \in T
    BY <1>2
  <1>4. ~AskedFor => T = {}
    BY DEF Sourced
  <1> HIDE DEF T
  <1>5. [i \in DOMAIN s |-> IF Asks(s[i]) THEN <<s[i]>> ELSE <<>>]
          = [i \in DOMAIN s |-> IF s[i] \in T THEN <<s[i]>> ELSE <<>>]
    BY <1>3, Zenon
  <1>6. Evaluable = Len(Among(s, T))
    BY <1>5, Zenon DEF Evaluable, Selected, Among, s
  <1>7. Among(s, T) \in Seq(Sourced)
    BY <1>1, AmongTyped
  <1>8. ASSUME ~AskedFor PROVE Among(s, T) = <<>>
    <2>1. Range(s) \cap T = {}
      BY <1>4, <1>8
    <2>2. QED BY <1>1, <2>1, AmongNone
  <1>9. QED BY <1>6, <1>7, <1>8

LEMMA TrainingStarts == TrainingInit => TrainingInv
PROOF
  <1> SUFFICES ASSUME TrainingInit PROVE TrainingInv
    OBVIOUS
  <1>1. /\ options \in Schedules
        /\ collector = [ended |-> 0, count |-> 0, files |-> <<>>]
        /\ schedule = [stage |-> "waiting", last |-> 0, cancelled |-> FALSE]
        /\ job = NoJob /\ begun = <<>> /\ reports = <<>>
        /\ dataset = [stage |-> "none", train |-> <<>>, test |-> <<>>, answered |-> 0,
                      correct |-> 0]
    BY DEF TrainingInit
  <1>2. TrainingTyped
    BY <1>1 DEF TrainingTyped, NoJob, Jobs
  <1>3. BegunInv
    BY <1>1 DEF BegunInv
  <1>4. ReportsInv
    BY <1>1, SchedulesAssumption DEF ReportsInv, NoJob
  <1>5. FilesInv
    BY <1>1 DEF FilesInv
  <1>6. AnswersInv
    BY <1>1 DEF AnswersInv
  <1>7. QED BY <1>2, <1>3, <1>4, <1>5, <1>6 DEF TrainingInv

LEMMA CaptureKeeps ==
  ASSUME TrainingInv, NEW turns \in 0..2, NEW saved \in {"ok", "noDirectory", "full"},
         Capture(turns, saved)
  PROVE  TrainingInv'
PROOF
  <1>1. /\ TrainingTyped /\ BegunInv /\ ReportsInv /\ FilesInv /\ AnswersInv
        /\ options' = options /\ schedule' = schedule /\ job' = job /\ dataset' = dataset
        /\ begun' = begun /\ reports' = reports
    BY DEF TrainingInv, Capture
  <1> DEFINE s == Sample(turns)
  <1>2. s \in SampleOf /\ s \in Sourced
    <2>1. s \in SampleOf
      BY <1>1, SchedulesAssumption DEF Sample, SampleOf, TrainingTyped
    <2>2. ~Asks(s)
      BY DEF Sample, Asks
    <2> HIDE DEF s
    <2>3. QED BY <2>1, <2>2 DEF Sourced
  <1> HIDE DEF s
  <1>3. \/ collector' = [collector EXCEPT !.ended = @ + 1]
        \/ collector' = [collector EXCEPT !.ended = @ + 1, !.count = @ + 1]
        \/ collector' = [collector EXCEPT !.ended = @ + 1, !.count = @ + 1,
                                          !.files = Append(@, s)]
    BY Zenon DEF Capture, s
  <1>4. collector \in [ended : Nat, count : Nat, files : Seq(SampleOf)]
    BY <1>1 DEF TrainingTyped
  <1>5. collector' \in [ended : Nat, count : Nat, files : Seq(SampleOf)] /\ FilesInv'
    <2>1. collector.files \in Seq(SampleOf) /\ Append(collector.files, s) \in Seq(SampleOf)
          /\ Len(Append(collector.files, s)) = Len(collector.files) + 1
          /\ Len(collector.files) \in Nat /\ collector.count \in Nat /\ collector.ended \in Nat
          /\ Len(collector.files) <= collector.count /\ collector.count <= collector.ended
      BY <1>1, <1>2, <1>4 DEF FilesInv
    <2> DEFINE e == collector.ended + 1
               c == collector.count + 1
               f == Append(collector.files, s)
    <2>2. e \in Nat /\ c \in Nat /\ f \in Seq(SampleOf)
      BY <2>1
    <2>3. \/ collector' = [collector EXCEPT !.ended = e]
          \/ collector' = [collector EXCEPT !.ended = e, !.count = c]
          \/ collector' = [collector EXCEPT !.ended = e, !.count = c, !.files = f]
      BY <1>3
    <2> HIDE DEF e, c, f
    <2>4. /\ collector' \in [ended : Nat, count : Nat, files : Seq(SampleOf)]
          /\ collector'.ended = e
          /\ \/ collector'.count = collector.count /\ collector'.files = collector.files
             \/ collector'.count = c /\ collector'.files \in {collector.files, f}
      BY <1>4, <2>2, <2>3
    <2>5. FilesInv'
      BY SMTT(40), <2>1, <2>4 DEF e, c, f, FilesInv
    <2>6. QED BY <2>4, <2>5
  <1>6. TrainingTyped'
    BY <1>1, <1>5 DEF TrainingTyped
  <1>7. BegunInv' /\ ReportsInv'
    BY <1>1 DEF BegunInv, ReportsInv, NoJob
  <1>8. AnswersInv'
    <2>1. collector'.files \in {collector.files, Append(collector.files, s)}
      BY <1>3, <1>4
    <2>2. collector'.files \in Seq(Sourced)
      <3>1. collector.files \in Seq(Sourced)
        BY <1>1 DEF AnswersInv
      <3>2. Append(collector.files, s) \in Seq(Sourced)
        BY <1>2, <3>1, AppendedIs
      <3>3. QED BY <2>1, <3>1, <3>2
    <2>3. Sourced' = Sourced /\ (AskedFor' <=> AskedFor)
      BY <1>1 DEF Sourced, AskedFor
    <2>4. QED BY <1>1, <2>2, <2>3 DEF AnswersInv
  <1>9. QED BY <1>5, <1>6, <1>7, <1>8 DEF TrainingInv

LEMMA StartTrainingKeeps == TrainingInv /\ StartTraining => TrainingInv'
PROOF
  <1> SUFFICES ASSUME TrainingInv, StartTraining PROVE TrainingInv'
    OBVIOUS
  <1> DEFINE n == collector.count
  <1>1. /\ TrainingTyped /\ BegunInv /\ ReportsInv /\ FilesInv /\ AnswersInv
        /\ options' = options /\ collector' = collector /\ dataset' = dataset
        /\ begun' = Append(begun, n) /\ schedule.stage = "waiting" /\ Enough
    BY DEF TrainingInv, StartTraining
  <1>2. \/ /\ schedule' = [schedule EXCEPT !.last = n, !.stage = "training"]
           /\ job' = [NoJob EXCEPT !.stage = "running"] /\ reports' = reports
        \/ /\ schedule' = [schedule EXCEPT !.last = n] /\ job' = job
           /\ reports' = Append(reports, [said |-> "error", ok |-> FALSE])
    BY DEF StartTraining
  <1>3. /\ n \in Nat /\ begun \in Seq(Nat) /\ job \in Jobs
        /\ schedule \in [stage : {"waiting", "training", "ended"}, last : Nat, cancelled : BOOLEAN]
        /\ reports \in Seq([said : {"complete", "error"}, ok : BOOLEAN])
    BY <1>1 DEF TrainingTyped
  <1>4. /\ begun' \in Seq(Nat) /\ Len(begun') = Len(begun) + 1 /\ Len(begun) \in Nat
        /\ DOMAIN begun' = 1..(Len(begun) + 1) /\ DOMAIN begun = 1..Len(begun)
        /\ (\A i \in 1..Len(begun) : begun'[i] = begun[i] /\ begun[i] \in Nat)
        /\ begun'[Len(begun) + 1] = n
    BY <1>1, <1>3
  <1>5. schedule'.last = n
    BY <1>2, <1>3
  <1>6. BegunInv'
    <2>1. begun' # <<>>
      BY <1>4
    <2>2. ASSUME ~options.timed, NEW i \in DOMAIN begun'
          PROVE  begun'[i] >= options.threshold + (IF i = 1 THEN 0 ELSE begun'[i - 1])
      <3>1. options.threshold \in Nat /\ schedule.last \in Nat
        BY <1>1, <1>3, SchedulesAssumption DEF TrainingTyped
      <3>2. n - schedule.last >= options.threshold
        BY <1>1, <2>2 DEF Enough
      <3>3. CASE i = Len(begun) + 1
        <4>1. schedule.last = IF i = 1 THEN 0 ELSE begun'[i - 1]
          <5>1. CASE begun = <<>>
            BY <1>1, <3>3, <5>1 DEF BegunInv
          <5>2. CASE begun # <<>>
            <6>1. Len(begun) >= 1
              BY <1>3, <5>2
            <6>2. begun'[i - 1] = begun[Len(begun)] /\ i # 1
              BY <1>4, <3>3, <6>1
            <6>3. QED BY <1>1, <5>2, <6>2 DEF BegunInv
          <5>3. QED BY <5>1, <5>2
        <4>2. QED BY <1>3, <1>4, <3>1, <3>2, <3>3, <4>1
      <3>4. CASE i \in 1..Len(begun)
        <4>1. begun[i] >= options.threshold + (IF i = 1 THEN 0 ELSE begun[i - 1])
          BY <1>1, <1>4, <2>2, <3>4 DEF BegunInv
        <4>2. i # 1 => begun'[i - 1] = begun[i - 1]
          BY <1>4, <3>4
        <4>3. QED BY <1>4, <3>4, <4>1, <4>2
      <3>5. QED BY <1>4, <3>3, <3>4
    <2>3. QED BY <1>1, <1>4, <1>5, <2>1, <2>2 DEF BegunInv
  <1>7. CASE /\ schedule' = [schedule EXCEPT !.last = n, !.stage = "training"]
             /\ job' = [NoJob EXCEPT !.stage = "running"] /\ reports' = reports
    <2>1. /\ schedule'.stage = "training"
          /\ schedule' \in [stage : {"waiting", "training", "ended"}, last : Nat,
                            cancelled : BOOLEAN]
      BY <1>3, <1>7
    <2>2. job' \in Jobs /\ job'.stage = "running" /\ job'.progress = 0
      BY <1>7 DEF NoJob, Jobs
    <2>3. ReportsInv'
      BY <1>1, <1>3, <1>4, <1>7, <2>1, <2>2, SchedulesAssumption DEF ReportsInv
    <2>4. TrainingTyped'
      BY <1>1, <1>4, <1>7, <2>1, <2>2 DEF TrainingTyped
    <2>5. QED BY <1>1, <1>6, <2>3, <2>4 DEF TrainingInv, FilesInv, AnswersInv, Sourced, AskedFor
  <1>8. CASE /\ schedule' = [schedule EXCEPT !.last = n] /\ job' = job
             /\ reports' = Append(reports, [said |-> "error", ok |-> FALSE])
    <2> DEFINE r == [said |-> "error", ok |-> FALSE]
    <2>1. /\ schedule'.stage = "waiting"
          /\ schedule' \in [stage : {"waiting", "training", "ended"}, last : Nat,
                            cancelled : BOOLEAN]
      BY <1>1, <1>3, <1>8
    <2>2. r \in [said : {"complete", "error"}, ok : BOOLEAN] /\ (r.said = "complete" <=> r.ok)
      OBVIOUS
    <2> HIDE DEF r
    <2>3. reports' = Append(reports, r)
      BY <1>8 DEF r
    <2>4. /\ reports' \in Seq([said : {"complete", "error"}, ok : BOOLEAN])
          /\ Len(reports') = Len(reports) + 1 /\ Len(reports) \in Nat
          /\ DOMAIN reports' = 1..(Len(reports) + 1) /\ DOMAIN reports = 1..Len(reports)
          /\ (\A i \in 1..Len(reports) : reports'[i] = reports[i])
          /\ reports'[Len(reports) + 1] = r
      <3>1. reports' \in Seq([said : {"complete", "error"}, ok : BOOLEAN])
        BY <1>3, <2>2, <2>3, AppendedIs
      <3>2. QED BY <1>3, <2>2, <2>3, <3>1, AppendedIs
    <2>5. \A i \in DOMAIN reports' : reports'[i].said = "complete" <=> reports'[i].ok
      <3>1. ASSUME NEW i \in DOMAIN reports'
            PROVE  reports'[i].said = "complete" <=> reports'[i].ok
        <4>1. CASE i \in 1..Len(reports)
          BY <1>1, <2>4, <4>1 DEF ReportsInv
        <4>2. CASE i = Len(reports) + 1
          BY <2>2, <2>4, <4>2
        <4>3. QED BY <2>4, <4>1, <4>2
      <3>2. QED BY <3>1
    <2>6. ReportsInv'
      <3>1. schedule.stage = "waiting" /\ Len(reports) = Len(begun)
        BY <1>1, <1>4, <2>4 DEF ReportsInv
      <3>2. job'.stage = "none"
        BY <1>1, <1>8 DEF ReportsInv
      <3>3. QED BY <1>1, <1>4, <1>8, <2>1, <2>4, <2>5, <3>1, <3>2 DEF ReportsInv
    <2>7. TrainingTyped'
      BY <1>1, <1>4, <1>8, <2>1, <2>4 DEF TrainingTyped
    <2>8. QED BY <1>1, <1>6, <2>6, <2>7 DEF TrainingInv, FilesInv, AnswersInv, Sourced, AskedFor
  <1>9. QED BY <1>2, <1>7, <1>8

(* A step of the process or of its reader.                                 *)
LEMMA JobKeeps ==
  ASSUME TrainingInv, job' \in Jobs, job'.stage # "none", job.stage # "none",
         job'.progress <= ProgressCap,
         options' = options, collector' = collector, schedule' = schedule, dataset' = dataset,
         begun' = begun, reports' = reports
  PROVE  TrainingInv'
PROOF
  <1>1. TrainingTyped'
    BY DEF TrainingInv, TrainingTyped
  <1>2. BegunInv' /\ FilesInv' /\ AnswersInv'
    BY DEF TrainingInv, BegunInv, FilesInv, AnswersInv, Sourced, AskedFor
  <1>3. ReportsInv'
    BY DEF TrainingInv, ReportsInv
  <1>4. QED BY <1>1, <1>2, <1>3 DEF TrainingInv

LEMMA FinishTrainingKeeps == TrainingInv /\ FinishTraining => TrainingInv'
PROOF
  <1> SUFFICES ASSUME TrainingInv, FinishTraining PROVE TrainingInv'
    OBVIOUS
  <1> DEFINE r == [said |-> Understood, ok |-> job.ok]
  <1>1. /\ TrainingTyped /\ BegunInv /\ ReportsInv /\ FilesInv /\ AnswersInv
        /\ options' = options /\ collector' = collector /\ dataset' = dataset /\ begun' = begun
        /\ job.stage = "exited" /\ job' = NoJob
        /\ schedule' = [schedule EXCEPT !.stage = "waiting"]
        /\ reports' = Append(reports, r)
    BY DEF TrainingInv, FinishTraining
  <1>2. /\ schedule \in [stage : {"waiting", "training", "ended"}, last : Nat, cancelled : BOOLEAN]
        /\ reports \in Seq([said : {"complete", "error"}, ok : BOOLEAN]) /\ job.ok \in BOOLEAN
        /\ begun \in Seq(Nat)
    BY <1>1 DEF TrainingTyped, Jobs
  <1>3. /\ schedule'.stage = "waiting" /\ schedule'.last = schedule.last
        /\ schedule' \in [stage : {"waiting", "training", "ended"}, last : Nat,
                          cancelled : BOOLEAN]
    BY <1>1, <1>2
  <1>4. r \in [said : {"complete", "error"}, ok : BOOLEAN] /\ (r.said = "complete" <=> r.ok)
    BY <1>2 DEF Understood
  <1> HIDE DEF r
  <1>5. /\ reports' \in Seq([said : {"complete", "error"}, ok : BOOLEAN])
        /\ Len(reports') = Len(reports) + 1 /\ Len(reports) \in Nat
        /\ DOMAIN reports' = 1..(Len(reports) + 1) /\ DOMAIN reports = 1..Len(reports)
        /\ (\A i \in 1..Len(reports) : reports'[i] = reports[i])
        /\ reports'[Len(reports) + 1] = r
    BY <1>1, <1>2, <1>4, AppendedIs
  <1>6. ASSUME NEW i \in DOMAIN reports'
        PROVE  reports'[i].said = "complete" <=> reports'[i].ok
    <2>1. CASE i \in 1..Len(reports)
      BY <1>1, <1>5, <2>1 DEF ReportsInv
    <2>2. CASE i = Len(reports) + 1
      BY <1>4, <1>5, <2>2
    <2>3. QED BY <1>5, <2>1, <2>2
  <1>7. ReportsInv'
    <2>1. schedule.stage = "training" /\ Len(reports) + 1 = Len(begun)
      BY <1>1, <1>5 DEF ReportsInv
    <2>2. ProgressCap \in Nat
      BY SchedulesAssumption
    <2>3. QED BY <1>1, <1>3, <1>5, <1>6, <2>1, <2>2 DEF ReportsInv, NoJob
  <1>8. TrainingTyped'
    BY <1>1, <1>3, <1>5 DEF TrainingTyped, NoJob, Jobs
  <1>9. BegunInv' /\ FilesInv' /\ AnswersInv'
    BY <1>1, <1>3 DEF BegunInv, FilesInv, AnswersInv, Sourced, AskedFor
  <1>10. QED BY <1>7, <1>8, <1>9 DEF TrainingInv

LEMMA SplitKeeps == TrainingInv /\ Split => TrainingInv'
PROOF
  <1> SUFFICES ASSUME TrainingInv, Split PROVE TrainingInv'
    OBVIOUS
  <1>1. /\ TrainingTyped /\ BegunInv /\ ReportsInv /\ FilesInv /\ AnswersInv
        /\ options' = options /\ collector' = collector /\ schedule' = schedule /\ job' = job
        /\ begun' = begun /\ reports' = reports /\ dataset.stage = "none"
    BY DEF TrainingInv, Split
  <1>2. PICK minTurns \in 0..3 :
          LET kept == Filtered(options.given \o collector.files, minTurns)
              n == Len(kept) \div 2 IN
          dataset' = [dataset EXCEPT !.stage = "split", !.train = SubSeq(kept, 1, n),
                                     !.test = SubSeq(kept, n + 1, Len(kept))]
    BY DEF Split
  <1> DEFINE kept == Filtered(options.given \o collector.files, minTurns)
             n == Len(kept) \div 2
  <1>3. kept \in Seq(Sourced)
    <2>1. options.given \in Seq(SampleOf)
      BY <1>1, SchedulesAssumption DEF TrainingTyped, SampleOf
    <2>2. \A i \in 1..Len(options.given) : options.given[i] \in Sourced
      BY <2>1 DEF Sourced, AskedFor
    <2>3. options.given \in Seq(Sourced)
      BY <2>1, <2>2
    <2>4. options.given \o collector.files \in Seq(Sourced)
      BY <1>1, <2>3 DEF AnswersInv
    <2>5. Sourced \subseteq SampleOf
      BY DEF Sourced
    <2>6. QED BY <2>4, <2>5, FilteredIs
  <1> HIDE DEF kept
  <1>4. n \in Nat /\ n <= Len(kept) /\ Len(kept) \in Nat
    BY <1>3
  <1> HIDE DEF n
  <1> DEFINE train == SubSeq(kept, 1, n)
             test == SubSeq(kept, n + 1, Len(kept))
  <1>5. /\ train \in Seq(Sourced) /\ test \in Seq(Sourced)
        /\ train \in Seq(SampleOf) /\ test \in Seq(SampleOf)
    <2>1. train \in Seq(Sourced) /\ test \in Seq(Sourced)
      BY <1>3, <1>4
    <2>2. Sourced \subseteq SampleOf
      BY DEF Sourced
    <2> HIDE DEF train, test
    <2>3. QED BY <2>1, <2>2, SeqWithin
  <1> HIDE DEF train, test
  <1>6. dataset' = [dataset EXCEPT !.stage = "split", !.train = train, !.test = test]
    BY <1>2 DEF train, test, n, kept
  <1>7. dataset \in [stage : {"none", "split", "evaluated"}, train : Seq(SampleOf),
                     test : Seq(SampleOf), answered : Nat, correct : Nat]
    BY <1>1 DEF TrainingTyped
  <1>8. /\ dataset' \in [stage : {"none", "split", "evaluated"}, train : Seq(SampleOf),
                         test : Seq(SampleOf), answered : Nat, correct : Nat]
        /\ dataset'.test = test /\ dataset'.answered = dataset.answered
        /\ dataset'.correct = dataset.correct
    BY <1>5, <1>6, <1>7
  <1>9. TrainingTyped'
    BY <1>1, <1>8 DEF TrainingTyped
  <1>10. AnswersInv'
    <2>1. dataset.answered = 0
      BY <1>1 DEF AnswersInv
    <2>2. Sourced' = Sourced /\ (AskedFor' <=> AskedFor)
      BY <1>1 DEF Sourced, AskedFor
    <2>3. QED BY <1>1, <1>5, <1>8, <2>1, <2>2 DEF AnswersInv
  <1>11. BegunInv' /\ ReportsInv' /\ FilesInv'
    BY <1>1 DEF BegunInv, ReportsInv, FilesInv
  <1>12. QED BY <1>9, <1>10, <1>11 DEF TrainingInv

LEMMA EvaluateKeeps == TrainingInv /\ Evaluate => TrainingInv'
PROOF
  <1> SUFFICES ASSUME TrainingInv, Evaluate PROVE TrainingInv'
    OBVIOUS
  <1>1. /\ TrainingTyped /\ BegunInv /\ ReportsInv /\ FilesInv /\ AnswersInv
        /\ options' = options /\ collector' = collector /\ schedule' = schedule /\ job' = job
        /\ begun' = begun /\ reports' = reports
    BY DEF TrainingInv, Evaluate
  <1>2. PICK answered \in 0..Evaluable : \E correct \in 0..answered :
          dataset' = [dataset EXCEPT !.stage = "evaluated", !.answered = answered,
                                     !.correct = correct]
    BY DEF Evaluate
  <1>3. PICK correct \in 0..answered :
          dataset' = [dataset EXCEPT !.stage = "evaluated", !.answered = answered,
                                     !.correct = correct]
    BY <1>2
  <1>4. dataset \in [stage : {"none", "split", "evaluated"}, train : Seq(SampleOf),
                     test : Seq(SampleOf), answered : Nat, correct : Nat]
    BY <1>1 DEF TrainingTyped
  <1>5. Evaluable \in Nat /\ (Evaluable > 0 => AskedFor)
    BY <1>1, EvaluableIs DEF AnswersInv
  <1>6. answered \in Nat /\ correct \in Nat /\ correct <= answered /\ answered <= Evaluable
    BY <1>5
  <1>7. /\ dataset' \in [stage : {"none", "split", "evaluated"}, train : Seq(SampleOf),
                         test : Seq(SampleOf), answered : Nat, correct : Nat]
        /\ dataset'.test = dataset.test /\ dataset'.answered = answered
        /\ dataset'.correct = correct /\ dataset'.stage = "evaluated"
    BY <1>3, <1>4, <1>6
  <1>8. TrainingTyped'
    BY <1>1, <1>7 DEF TrainingTyped
  <1>9. AnswersInv'
    <2>1. Sourced' = Sourced /\ (AskedFor' <=> AskedFor)
      BY <1>1 DEF Sourced, AskedFor
    <2>2. QED BY <1>1, <1>5, <1>6, <1>7, <2>1 DEF AnswersInv
  <1>10. BegunInv' /\ ReportsInv' /\ FilesInv'
    BY <1>1 DEF BegunInv, ReportsInv, FilesInv
  <1>11. QED BY <1>8, <1>9, <1>10 DEF TrainingInv

LEMMA TrainingKeeps == TrainingInv /\ [TrainingNext]_trainingVars => TrainingInv'
PROOF
  <1>1. ASSUME TrainingInv
        PROVE  /\ job \in Jobs /\ job.progress <= ProgressCap /\ ProgressCap \in Nat
               /\ job.stage = "none" => job = NoJob
               /\ schedule \in [stage : {"waiting", "training", "ended"}, last : Nat,
                                cancelled : BOOLEAN]
    BY <1>1, SchedulesAssumption DEF TrainingInv, TrainingTyped, ReportsInv
  <1>2. ASSUME TrainingInv, PrintUpdate PROVE TrainingInv'
    <2>1. job' = [job EXCEPT !.written = @ + 1, !.pipe = @ + 1] /\ job.stage = "running"
      BY <1>2 DEF PrintUpdate
    <2>2. job' \in Jobs /\ job'.stage = "running" /\ job'.progress = job.progress
      <3> DEFINE w == job.written + 1
                 p == job.pipe + 1
      <3>1. w \in Nat /\ p \in Nat
        BY <1>1, <1>2 DEF Jobs
      <3>2. job' = [job EXCEPT !.written = w, !.pipe = p]
        BY <2>1
      <3> HIDE DEF w, p
      <3>3. QED BY <1>1, <1>2, <2>1, <3>1, <3>2 DEF Jobs
    <2>3. QED BY <1>1, <1>2, <2>1, <2>2, JobKeeps DEF PrintUpdate
  <1>3. ASSUME TrainingInv, ProcessEnds PROVE TrainingInv'
    <2>1. PICK ok \in BOOLEAN : job' = [job EXCEPT !.stage = "exited", !.ok = ok]
      BY <1>3 DEF ProcessEnds
    <2>2. job' \in Jobs /\ job'.stage = "exited" /\ job'.progress = job.progress
      BY <1>1, <1>3, <2>1 DEF Jobs
    <2>3. QED BY <1>1, <1>3, <2>2, JobKeeps DEF ProcessEnds
  <1>4. ASSUME TrainingInv, ReadPipe PROVE TrainingInv'
    <2>1. /\ job' = [job EXCEPT !.pipe = 0, !.reader = IF job.pipe = 1 THEN "sending" ELSE @]
          /\ job.pipe > 0
      BY <1>4 DEF ReadPipe
    <2>2. job.stage # "none"
      BY <1>1, <1>4, <2>1 DEF NoJob
    <2>3. job' \in Jobs /\ job'.stage = job.stage /\ job'.progress = job.progress
      BY <1>1, <1>4, <2>1 DEF Jobs
    <2>4. QED BY <1>1, <1>4, <2>2, <2>3, JobKeeps DEF ReadPipe
  <1>5. ASSUME TrainingInv, SendProgress PROVE TrainingInv'
    <2>1. /\ job' = [job EXCEPT !.progress = @ + 1, !.reader = "reading"]
          /\ job.reader = "sending" /\ job.progress < ProgressCap
      BY <1>5 DEF SendProgress
    <2>2. job.stage # "none"
      BY <1>1, <1>5, <2>1 DEF NoJob
    <2>3. job' \in Jobs /\ job'.stage = job.stage /\ job'.progress = job.progress + 1
          /\ job.progress \in Nat
      <3> DEFINE p == job.progress + 1
      <3>1. p \in Nat /\ job.progress \in Nat
        BY <1>1, <1>5 DEF Jobs
      <3>2. job' = [job EXCEPT !.progress = p, !.reader = "reading"]
        BY <2>1
      <3> HIDE DEF p
      <3>3. job' \in Jobs /\ job'.stage = job.stage /\ job'.progress = p
        BY <1>1, <1>5, <3>1, <3>2 DEF Jobs
      <3>4. QED BY <3>1, <3>3 DEF p
    <2>4. job'.progress <= ProgressCap
      BY <1>1, <1>5, <2>1, <2>3
    <2>5. QED BY <1>5, <2>2, <2>3, <2>4, JobKeeps DEF SendProgress
  <1>6. ASSUME TrainingInv, CancelSchedule \/ EndSchedule PROVE TrainingInv'
    <2>1. /\ schedule' \in [stage : {"waiting", "training", "ended"}, last : Nat,
                            cancelled : BOOLEAN]
          /\ schedule'.last = schedule.last
          /\ schedule'.stage = "training" <=> schedule.stage = "training"
      BY <1>1, <1>6 DEF CancelSchedule, EndSchedule
    <2>2. /\ options' = options /\ collector' = collector /\ job' = job /\ dataset' = dataset
          /\ begun' = begun /\ reports' = reports
      BY <1>6 DEF CancelSchedule, EndSchedule
    <2>3. TrainingTyped'
      BY <1>6, <2>1, <2>2 DEF TrainingInv, TrainingTyped
    <2>4. BegunInv' /\ FilesInv' /\ AnswersInv'
      BY <1>6, <2>1, <2>2 DEF TrainingInv, BegunInv, FilesInv, AnswersInv, Sourced, AskedFor
    <2>5. ReportsInv'
      BY <1>6, <2>1, <2>2 DEF TrainingInv, ReportsInv, NoJob
    <2>6. QED BY <2>3, <2>4, <2>5 DEF TrainingInv
  <1>7. ASSUME TrainingInv, UNCHANGED trainingVars PROVE TrainingInv'
    <2>1. /\ options' = options /\ collector' = collector /\ schedule' = schedule /\ job' = job
          /\ dataset' = dataset /\ begun' = begun /\ reports' = reports
      BY <1>7 DEF trainingVars
    <2>2. QED BY <1>7, <2>1
          DEF TrainingInv, TrainingTyped, BegunInv, ReportsInv, FilesInv, AnswersInv, Sourced, AskedFor, NoJob
  <1>8. QED BY <1>2, <1>3, <1>4, <1>5, <1>6, <1>7, CaptureKeeps, StartTrainingKeeps,
               FinishTrainingKeeps, SplitKeeps, EvaluateKeeps
            DEF TrainingNext, ScheduleStep

LEMMA TrainingMeets == TrainingInv => TrainingFaithful
  BY DEF TrainingInv, BegunInv, ReportsInv, FilesInv, AnswersInv, AskedFor, TrainingFaithful

(***************************************************************************)
(* Approvals.                                                              *)
(***************************************************************************)
Asking == [stage : {"idle", "shown", "approved", "denied", "timedOut"},
           reader : {"none", "reading", "done"}, word : Seq(STRING), by : Nat]
Remainder == [letters : Seq(STRING), of : Nat]

AskedTyped ==
  /\ policy \in Policies
  /\ asked \in [Questions -> Asking]
  /\ typed \in Seq(Answers)
  /\ unread \in Seq(Remainder)

(* The first letter of a yes is there until somebody has it, and nobody    *)
(* else can have it then.                                                  *)
SaysYes(letters) == \E k \in DOMAIN letters : letters[k] = "y"
Affirms(q) == asked[q].word # <<>> /\ asked[q].word[1] = "y"
AnswersApart ==
  /\ \A i \in DOMAIN unread : unread[i].of \in 1..Len(typed)
  /\ \A i, j \in DOMAIN unread : unread[i].of = unread[j].of => i = j
  /\ \A q \in Questions : asked[q].by \in 0..Len(typed)
  /\ \A i \in DOMAIN unread : SaysYes(unread[i].letters) =>
       /\ unread[i].letters = typed[unread[i].of]
       /\ \A q \in Questions : asked[q].by # unread[i].of
  /\ \A q \in Questions : Affirms(q) => asked[q].by # 0 /\ typed[asked[q].by] \in Yeses
  /\ \A q, r \in Questions : Affirms(q) /\ Affirms(r) /\ asked[q].by = asked[r].by => q = r

(* Who is approved has read a yes, or a rule allows it.                    *)
AllowedBy(q) ==
  \E i \in DOMAIN policy.rules :
    /\ policy.rules[i].allow /\ q \in policy.rules[i].tools
    /\ \A j \in 1..(i - 1) : q \notin policy.rules[j].tools
ApprovedIs(q) ==
  /\ asked[q].reader # "none" => policy.rules = <<>> /\ asked[q].stage # "idle"
  /\ policy.rules = <<>> /\ asked[q].stage = "approved" =>
       asked[q].reader = "done" /\ asked[q].word \in Yeses
  /\ policy.rules # <<>> /\ asked[q].stage = "approved" => AllowedBy(q)
ApprovedInv == \A q \in Questions : ApprovedIs(q)

ApprovalInv == AskedTyped /\ AnswersApart /\ ApprovedInv

LEMMA ApprovalStarts == ApprovalInit => ApprovalInv
PROOF
  <1> SUFFICES ASSUME ApprovalInit PROVE ApprovalInv
    OBVIOUS
  <1> DEFINE idle == [stage |-> "idle", reader |-> "none", word |-> <<>>, by |-> 0]
  <1>1. /\ policy \in Policies /\ typed = <<>> /\ unread = <<>>
        /\ asked = [q \in Questions |-> idle]
    BY DEF ApprovalInit
  <1>2. idle \in Asking
    BY DEF Asking
  <1>3. \A q \in Questions : asked[q].by = 0 /\ asked[q].word = <<>>
          /\ asked[q].reader = "none" /\ asked[q].stage = "idle"
    BY <1>1
  <1>4. Len(typed) = 0 /\ DOMAIN unread = {} /\ 0 \in 0..0
    BY <1>1
  <1>5. AskedTyped
    <2> HIDE DEF idle
    <2>1. QED BY <1>1, <1>2 DEF AskedTyped
  <1>6. AnswersApart
    BY <1>3, <1>4 DEF AnswersApart, Affirms
  <1>7. ApprovedInv
    BY <1>3 DEF ApprovedInv, ApprovedIs
  <1>8. QED BY <1>5, <1>6, <1>7 DEF ApprovalInv

(* One question goes on, and nothing is read.                              *)
LEMMA AskedKeeps ==
  ASSUME ApprovalInv, NEW q \in Questions, policy' = policy, typed' = typed, unread' = unread,
         asked' \in [Questions -> Asking],
         \A r \in Questions : r # q => asked'[r] = asked[r],
         asked'[q].by = asked[q].by, asked'[q].word = asked[q].word,
         ApprovedIs(q)'
  PROVE  ApprovalInv'
PROOF
  <1>1. /\ AskedTyped /\ AnswersApart /\ ApprovedInv
    BY DEF ApprovalInv
  <1>2. \A r \in Questions : asked'[r].by = asked[r].by /\ asked'[r].word = asked[r].word
    OBVIOUS
  <1>3. AskedTyped'
    BY <1>1 DEF AskedTyped
  <1>4. \A r \in Questions : Affirms(r)' <=> Affirms(r)
    BY <1>2 DEF Affirms
  <1>5. AnswersApart'
    BY <1>1, <1>2, <1>4 DEF AnswersApart
  <1>6. \A r \in Questions : r # q => ApprovedIs(r)'
    BY <1>1 DEF ApprovedInv, ApprovedIs, AllowedBy
  <1>7. ApprovedInv'
    BY <1>6 DEF ApprovedInv
  <1>8. QED BY <1>3, <1>5, <1>7 DEF ApprovalInv

LEMMA TypeKeeps == ApprovalInv /\ Type => ApprovalInv'
PROOF
  <1> SUFFICES ASSUME ApprovalInv, Type PROVE ApprovalInv'
    OBVIOUS
  <1>1. /\ AskedTyped /\ AnswersApart /\ ApprovedInv /\ policy' = policy /\ asked' = asked
    BY DEF ApprovalInv, Type
  <1>2. PICK answer \in Answers :
          /\ typed' = Append(typed, answer)
          /\ unread' = Append(unread, [letters |-> answer, of |-> Len(typed) + 1])
    BY DEF Type
  <1> DEFINE n == Len(typed)
             m == Len(unread)
             e == [letters |-> answer, of |-> n + 1]
  <1>3. typed \in Seq(Answers) /\ unread \in Seq(Remainder) /\ n \in Nat /\ m \in Nat
        /\ DOMAIN unread = 1..m
    BY <1>1 DEF AskedTyped
  <1>4. e \in Remainder /\ e.of = n + 1 /\ e.letters = answer
    BY <1>3, AnswersAssumption DEF Remainder
  <1>5. /\ typed' \in Seq(Answers) /\ Len(typed') = n + 1
        /\ (\A i \in 1..n : typed'[i] = typed[i]) /\ typed'[n + 1] = answer
    BY <1>2, <1>3, AppendedIs
  <1> HIDE DEF e
  <1>6. /\ unread' \in Seq(Remainder) /\ DOMAIN unread' = 1..(m + 1)
        /\ (\A i \in 1..m : unread'[i] = unread[i]) /\ unread'[m + 1] = e
    BY <1>2, <1>3, <1>4, AppendedIs DEF e
  <1>7. AskedTyped'
    BY <1>1, <1>5, <1>6 DEF AskedTyped
  <1>8. /\ \A q \in Questions : asked[q].by \in 0..n
        /\ \A i \in 1..m : unread[i].of \in 1..n
    BY <1>1, <1>3 DEF AnswersApart
  <1> HIDE DEF n, m
  <1>9. \A i \in 1..(m + 1) : i \in 1..m \/ i = m + 1
    BY <1>3
  <1>10. AnswersApart'
    <2>1. \A i \in DOMAIN unread' : unread'[i].of \in 1..Len(typed')
      BY <1>3, <1>4, <1>5, <1>6, <1>8, <1>9
    <2>2. ASSUME NEW i \in DOMAIN unread', NEW j \in DOMAIN unread', unread'[i].of = unread'[j].of
          PROVE  i = j
      <3>1. CASE i \in 1..m /\ j \in 1..m
        BY <1>1, <1>3, <1>6, <2>2, <3>1 DEF AnswersApart
      <3>2. CASE ~(i \in 1..m /\ j \in 1..m)
        BY <1>3, <1>4, <1>6, <1>8, <1>9, <2>2, <3>2
      <3>3. QED BY <3>1, <3>2
    <2>3. \A q \in Questions : asked'[q].by \in 0..Len(typed')
      BY <1>1, <1>3, <1>5, <1>8
    <2>4. ASSUME NEW i \in DOMAIN unread', SaysYes(unread'[i].letters)
          PROVE  /\ unread'[i].letters = typed'[unread'[i].of]
                 /\ \A q \in Questions : asked'[q].by # unread'[i].of
      <3>1. CASE i \in 1..m
        <4>1. unread'[i] = unread[i] /\ i \in DOMAIN unread
          BY <1>3, <1>6, <3>1
        <4>2. unread[i].of \in 1..n /\ typed'[unread[i].of] = typed[unread[i].of]
          BY <1>5, <1>8, <3>1
        <4>3. QED BY <1>1, <2>4, <4>1, <4>2 DEF AnswersApart
      <3>2. CASE i = m + 1
        BY <1>1, <1>3, <1>4, <1>5, <1>6, <1>8, <3>2
      <3>3. QED BY <1>6, <1>9, <3>1, <3>2
    <2>5. \A q \in Questions : Affirms(q)' <=> Affirms(q)
      BY <1>1 DEF Affirms
    <2>6. \A q \in Questions : Affirms(q) => typed'[asked[q].by] = typed[asked[q].by]
      BY <1>1, <1>3, <1>5, <1>8 DEF AnswersApart
    <2>7. /\ \A q \in Questions : Affirms(q)' => asked'[q].by # 0 /\ typed'[asked'[q].by] \in Yeses
          /\ \A q, r \in Questions : Affirms(q)' /\ Affirms(r)' /\ asked'[q].by = asked'[r].by => q = r
      BY <1>1, <2>5, <2>6 DEF AnswersApart
    <2>8. QED BY <2>1, <2>2, <2>3, <2>4, <2>7 DEF AnswersApart
  <1>11. ApprovedInv'
    BY <1>1 DEF ApprovedInv, ApprovedIs, AllowedBy
  <1>12. QED BY <1>7, <1>10, <1>11 DEF ApprovalInv

(* A letter is taken from the front of one word and put at the end of      *)
(* another.                                                                *)
LEMMA LetterTaken ==
  ASSUME NEW S, NEW s \in Seq(S), s # <<>>
  PROVE  /\ Head(s) = s[1] /\ 1 \in DOMAIN s /\ Head(s) \in S
         /\ Tail(s) \in Seq(S) /\ DOMAIN Tail(s) = 1..(Len(s) - 1)
         /\ Len(s) \in Nat /\ DOMAIN s = 1..Len(s)
         /\ \A k \in DOMAIN Tail(s) : Tail(s)[k] = s[k + 1]
  OBVIOUS

LEMMA LetterPut ==
  ASSUME NEW S, NEW s \in Seq(S), NEW e \in S
  PROVE  /\ Append(s, e) \in Seq(S) /\ Append(s, e) # <<>>
         /\ s = <<>> => Append(s, e)[1] = e
         /\ s # <<>> => Append(s, e)[1] = s[1]
  OBVIOUS

LEMMA ReadLetterKeeps ==
  ASSUME ApprovalInv, NEW q \in Questions, ReadLetter(q)
  PROVE  ApprovalInv'
PROOF
  <1> DEFINE e == unread[1]
             letter == Head(e.letters)
             left == Tail(e.letters)
             word == Append(asked[q].word, letter)
             by == IF asked[q].word = <<>> THEN e.of ELSE asked[q].by
  <1>1. /\ AskedTyped /\ AnswersApart /\ ApprovedInv /\ policy' = policy /\ typed' = typed
        /\ asked[q].reader = "reading" /\ unread # <<>> /\ e.letters # <<>>
        /\ asked' = [asked EXCEPT ![q].word = word, ![q].by = by]
        /\ unread' = [unread EXCEPT ![1].letters = left]
    BY DEF ApprovalInv, ReadLetter, Reading
  <1>2. asked \in [Questions -> Asking] /\ unread \in Seq(Remainder) /\ typed \in Seq(Answers)
    BY <1>1 DEF AskedTyped
  <1>3. /\ DOMAIN unread = 1..Len(unread) /\ Len(unread) \in Nat /\ 1 \in DOMAIN unread
        /\ e \in Remainder
    BY <1>1, <1>2
  <1>4. /\ e.letters \in Seq(STRING) /\ e.of \in Nat /\ asked[q].word \in Seq(STRING)
        /\ asked[q].by \in Nat
    BY <1>2, <1>3 DEF Remainder, Asking
  <1>5. /\ letter = e.letters[1] /\ 1 \in DOMAIN e.letters /\ letter \in STRING
        /\ left \in Seq(STRING) /\ DOMAIN left = 1..(Len(e.letters) - 1)
        /\ Len(e.letters) \in Nat /\ DOMAIN e.letters = 1..Len(e.letters)
        /\ \A k \in DOMAIN left : left[k] = e.letters[k + 1]
    BY <1>1, <1>4, LetterTaken
  <1>6. /\ word \in Seq(STRING) /\ word # <<>> /\ by \in Nat
        /\ asked[q].word = <<>> => word[1] = letter /\ by = e.of
        /\ asked[q].word # <<>> => word[1] = asked[q].word[1] /\ by = asked[q].by
    <2> HIDE DEF letter
    <2>1. /\ word \in Seq(STRING) /\ word # <<>>
          /\ asked[q].word = <<>> => word[1] = letter
          /\ asked[q].word # <<>> => word[1] = asked[q].word[1]
      BY SMTT(40), <1>4, <1>5, LetterPut
    <2>2. /\ by \in Nat
          /\ asked[q].word = <<>> => by = e.of
          /\ asked[q].word # <<>> => by = asked[q].by
      BY <1>4
    <2>3. QED BY <2>1, <2>2
  <1> HIDE DEF left, word, by, letter
  <1>7. /\ \A r \in Questions : r # q => asked'[r] = asked[r]
        /\ asked'[q].stage = asked[q].stage /\ asked'[q].reader = "reading"
        /\ asked'[q].word = word /\ asked'[q].by = by
        /\ asked' \in [Questions -> Asking]
    BY ZenonT(60), <1>1, <1>2, <1>6 DEF Asking
  <1>8. /\ unread' \in Seq(Remainder) /\ DOMAIN unread' = DOMAIN unread
        /\ unread'[1].letters = left /\ unread'[1].of = e.of
        /\ \A i \in DOMAIN unread : unread'[i].of = unread[i].of /\ (i # 1 => unread'[i] = unread[i])
    <2>1. [e EXCEPT !.letters = left] \in Remainder
      BY <1>3, <1>5 DEF Remainder
    <2>2. unread' = [unread EXCEPT ![1] = [e EXCEPT !.letters = left]]
      BY <1>1
    <2> DEFINE f == [e EXCEPT !.letters = left]
    <2>3. f.letters = left /\ f.of = e.of
      BY <1>3 DEF Remainder
    <2> HIDE DEF f
    <2>4. unread' \in Seq(Remainder) /\ DOMAIN unread' = DOMAIN unread
          /\ unread'[1] = f /\ \A i \in DOMAIN unread : i # 1 => unread'[i] = unread[i]
      BY <1>2, <1>3, <2>1, <2>2 DEF f
    <2>5. QED BY <2>3, <2>4
  <1>9. AskedTyped'
    BY <1>1, <1>7, <1>8 DEF AskedTyped
  <1>10. e.of \in 1..Len(typed) /\ Len(typed) \in Nat
         /\ \A r \in Questions : asked[r].by \in 0..Len(typed)
    <2>1. e.of \in 1..Len(typed) /\ \A r \in Questions : asked[r].by \in 0..Len(typed)
      BY <1>1, <1>3 DEF AnswersApart
    <2>2. Len(typed) \in Nat
      BY <1>2
    <2>3. QED BY <2>1, <2>2
  <1>11. by \in 0..Len(typed)
    BY <1>6, <1>10
  (* The letter that was read may be the first of a yes, and none is left. *)
  <1>12. SaysYes(e.letters) =>
           /\ e.letters \in Answers /\ typed[e.of] = e.letters
           /\ \A r \in Questions : asked[r].by # e.of
    BY SMTT(40), <1>1, <1>2, <1>3, <1>10 DEF AnswersApart
  <1>13. letter = "y" => SaysYes(e.letters) /\ e.letters \in Yeses
    <2>1. letter = "y" => SaysYes(e.letters)
      BY <1>5 DEF SaysYes
    <2>2. QED BY <1>5, <1>12, <2>1, AnswersAssumption
  <1>14. ~SaysYes(left)
    <2>1. ASSUME NEW k \in DOMAIN left, left[k] = "y" PROVE FALSE
      <3>1. k \in Nat /\ k >= 1 /\ k + 1 \in DOMAIN e.letters /\ e.letters[k + 1] = "y"
        BY <1>5, <2>1
      <3>2. SaysYes(e.letters)
        BY <3>1 DEF SaysYes
      <3>3. k + 1 = 1
        BY <1>12, <3>1, <3>2, AnswersAssumption
      <3>4. QED BY <3>1, <3>3
    <2>2. QED BY <2>1 DEF SaysYes
  <1>15. /\ \A r \in Questions : r # q => (Affirms(r)' <=> Affirms(r))
         /\ Affirms(q)' <=> word[1] = "y"
    BY <1>6, <1>7 DEF Affirms
  <1>16. word[1] = "y" =>
           /\ by # 0 /\ typed[by] \in Yeses
           /\ \A r \in Questions : r # q /\ Affirms(r) => asked[r].by # by
    <2>1. CASE asked[q].word = <<>>
      <3>1. word[1] = letter /\ by = e.of
        BY <1>6, <2>1
      <3>2. by # 0
        BY <1>10, <3>1
      <3>3. QED BY <1>12, <1>13, <3>1, <3>2
    <2>2. CASE asked[q].word # <<>>
      <3>1. word[1] = asked[q].word[1] /\ by = asked[q].by
        BY <1>6, <2>2
      <3>2. word[1] = "y" => Affirms(q)
        BY <2>2, <3>1 DEF Affirms
      <3>3. QED BY <1>1, <3>1, <3>2 DEF AnswersApart
    <2>3. QED BY <2>1, <2>2
  <1>17. AnswersApart'
    <2>1. \A i \in DOMAIN unread' : unread'[i].of \in 1..Len(typed')
      BY <1>1, <1>8 DEF AnswersApart
    <2>2. \A i, j \in DOMAIN unread' : unread'[i].of = unread'[j].of => i = j
      BY <1>1, <1>8 DEF AnswersApart
    <2>3. \A r \in Questions : asked'[r].by \in 0..Len(typed')
      BY <1>1, <1>7, <1>10, <1>11
    <2>4. ASSUME NEW i \in DOMAIN unread', SaysYes(unread'[i].letters)
          PROVE  /\ unread'[i].letters = typed'[unread'[i].of]
                 /\ \A r \in Questions : asked'[r].by # unread'[i].of
      <3>1. i # 1 /\ i \in DOMAIN unread /\ unread'[i] = unread[i]
        BY <1>8, <1>14, <2>4
      <3>2. /\ unread[i].letters = typed[unread[i].of]
            /\ \A r \in Questions : asked[r].by # unread[i].of
        BY <1>1, <2>4, <3>1 DEF AnswersApart
      <3>3. e.of # unread[i].of
        BY <1>1, <1>3, <3>1 DEF AnswersApart
      <3>4. by # unread[i].of
        BY <1>6, <3>2, <3>3
      <3>5. QED BY <1>1, <1>7, <3>1, <3>2, <3>4
    <2>5. \A r \in Questions : Affirms(r)' => asked'[r].by # 0 /\ typed'[asked'[r].by] \in Yeses
      BY <1>1, <1>7, <1>15, <1>16 DEF AnswersApart
    <2>6. \A r, s \in Questions : Affirms(r)' /\ Affirms(s)' /\ asked'[r].by = asked'[s].by => r = s
      BY <1>1, <1>7, <1>15, <1>16 DEF AnswersApart
    <2>7. QED BY <2>1, <2>2, <2>3, <2>4, <2>5, <2>6 DEF AnswersApart
  <1>18. ApprovedInv'
    <2>1. \A r \in Questions : r # q => ApprovedIs(r)'
      BY <1>1, <1>7 DEF ApprovedInv, ApprovedIs, AllowedBy
    <2>2. ApprovedIs(q)'
      BY <1>1, <1>7 DEF ApprovedInv, ApprovedIs
    <2>3. QED BY <2>1, <2>2 DEF ApprovedInv
  <1>19. QED BY <1>9, <1>17, <1>18 DEF ApprovalInv

LEMMA ReadLineEndKeeps ==
  ASSUME ApprovalInv, NEW q \in Questions, ReadLineEnd(q)
  PROVE  ApprovalInv'
PROOF
  <1>1. /\ AskedTyped /\ AnswersApart /\ ApprovedInv /\ policy' = policy /\ typed' = typed
        /\ asked[q].reader = "reading" /\ unread # <<>> /\ unread' = Tail(unread)
        /\ asked' \in {asked, [asked EXCEPT ![q].reader = "done"]}
    BY DEF ApprovalInv, ReadLineEnd, Reading
  <1>2. asked \in [Questions -> Asking] /\ unread \in Seq(Remainder)
    BY <1>1 DEF AskedTyped
  <1>3. /\ Len(unread) \in Nat /\ DOMAIN unread = 1..Len(unread) /\ unread' \in Seq(Remainder)
        /\ DOMAIN unread' = 1..(Len(unread) - 1)
        /\ \A i \in DOMAIN unread' : i + 1 \in DOMAIN unread /\ unread'[i] = unread[i + 1]
    BY <1>1, <1>2
  <1>4. /\ \A r \in Questions :
             /\ asked'[r].stage = asked[r].stage /\ asked'[r].by = asked[r].by
             /\ asked'[r].word = asked[r].word
             /\ (r # q => asked'[r] = asked[r])
        /\ asked'[q].reader \in {"reading", "done"}
        /\ asked' \in [Questions -> Asking]
    <2>1. CASE asked' = asked
      BY <1>1, <1>2, <2>1
    <2>2. CASE asked' = [asked EXCEPT ![q].reader = "done"]
      BY ZenonT(60), <1>2, <2>2 DEF Asking
    <2>3. QED BY <1>1, <2>1, <2>2
  <1>5. AskedTyped'
    BY <1>1, <1>3, <1>4 DEF AskedTyped
  <1>6. \A r \in Questions : Affirms(r)' <=> Affirms(r)
    BY <1>4 DEF Affirms
  <1>7. AnswersApart'
    <2>1. \A i \in DOMAIN unread' : unread'[i].of \in 1..Len(typed')
      BY <1>1, <1>3 DEF AnswersApart
    <2>2. ASSUME NEW i \in DOMAIN unread', NEW j \in DOMAIN unread', unread'[i].of = unread'[j].of
          PROVE  i = j
      <3>1. i + 1 = j + 1
        BY <1>1, <1>3, <2>2 DEF AnswersApart
      <3>2. i \in Nat /\ j \in Nat
        BY <1>3
      <3>3. QED BY <3>1, <3>2
    <2>3. \A i \in DOMAIN unread' : SaysYes(unread'[i].letters) =>
            /\ unread'[i].letters = typed'[unread'[i].of]
            /\ \A r \in Questions : asked'[r].by # unread'[i].of
      BY <1>1, <1>3, <1>4 DEF AnswersApart
    <2>4. /\ \A r \in Questions : asked'[r].by \in 0..Len(typed')
          /\ \A r \in Questions : Affirms(r)' => asked'[r].by # 0 /\ typed'[asked'[r].by] \in Yeses
          /\ \A r, s \in Questions : Affirms(r)' /\ Affirms(s)' /\ asked'[r].by = asked'[s].by => r = s
      BY <1>1, <1>4, <1>6 DEF AnswersApart
    <2>5. QED BY <2>1, <2>2, <2>3, <2>4 DEF AnswersApart
  <1>8. ApprovedInv'
    <2>1. \A r \in Questions : r # q => ApprovedIs(r)'
      BY <1>1, <1>4 DEF ApprovedInv, ApprovedIs, AllowedBy
    <2>2. ApprovedIs(q)'
      BY <1>1, <1>4 DEF ApprovedInv, ApprovedIs
    <2>3. QED BY <2>1, <2>2 DEF ApprovedInv
  <1>9. QED BY <1>5, <1>7, <1>8 DEF ApprovalInv

(* What the policy's first rule about a tool says.                         *)
LEMMA FirstMatchIs ==
  ASSUME policy \in Policies, NEW q \in Questions, NEW rule, rule = FirstMatch(q),
         rule # 0, policy.rules[rule].allow
  PROVE  AllowedBy(q)
PROOF
  <1> DEFINE R == [allow : BOOLEAN, tools : SUBSET Questions]
             T == {r \in R : q \in r.tools}
  <1>1. policy.rules \in Seq(R)
    BY PoliciesAssumption
  <1>2. DOMAIN policy.rules = 1..Len(policy.rules) /\ Len(policy.rules) \in Nat
        /\ \A i \in 1..Len(policy.rules) : policy.rules[i] \in R
    <2> HIDE DEF R
    <2>1. QED BY <1>1
  <1>3. rule = FirstIn(policy.rules, T)
    <2>1. {i \in 1..Len(policy.rules) : q \in policy.rules[i].tools}
            = {i \in 1..Len(policy.rules) : policy.rules[i] \in T}
      BY <1>2
    <2> HIDE DEF T
    <2>2. QED BY <2>1, Zenon DEF FirstMatch, FirstIn, SelectInSeq
  <1>4. /\ rule \in 0..Len(policy.rules) /\ policy.rules[rule] \in T
        /\ \A i \in 1..(rule - 1) : policy.rules[i] \notin T
    <2> HIDE DEF T, R
    <2>1. QED BY <1>1, <1>3, FirstInIs
  <1>5. rule \in 1..Len(policy.rules) /\ q \in policy.rules[rule].tools
    BY <1>2, <1>4
  <1>6. \A i \in 1..(rule - 1) : q \notin policy.rules[i].tools
    BY <1>2, <1>4, <1>5
  <1>7. QED BY <1>2, <1>5, <1>6 DEF AllowedBy

(* One question gets another stage.                                        *)
LEMMA StageKeeps ==
  ASSUME ApprovalInv, NEW q \in Questions, policy' = policy, typed' = typed, unread' = unread,
         NEW stage \in {"shown", "approved", "denied", "timedOut"},
         asked' = [asked EXCEPT ![q].stage = stage],
         policy.rules = <<>> /\ stage = "approved" =>
           asked[q].reader = "done" /\ asked[q].word \in Yeses,
         policy.rules # <<>> /\ stage = "approved" => AllowedBy(q)
  PROVE  ApprovalInv'
PROOF
  <1>1. asked \in [Questions -> Asking] /\ ApprovedIs(q)
    BY DEF ApprovalInv, AskedTyped, ApprovedInv
  <1>2. /\ \A r \in Questions : r # q => asked'[r] = asked[r]
        /\ asked'[q].stage = stage /\ asked'[q].by = asked[q].by /\ asked'[q].word = asked[q].word
        /\ asked'[q].reader = asked[q].reader /\ asked' \in [Questions -> Asking]
    BY <1>1 DEF Asking
  <1>3. ApprovedIs(q)'
    BY <1>1, <1>2 DEF ApprovedIs, AllowedBy
  <1>4. QED BY <1>2, <1>3, AskedKeeps

LEMMA ApprovalKeeps == ApprovalInv /\ [ApprovalNext]_approvalVars => ApprovalInv'
PROOF
  <1>1. ASSUME ApprovalInv
        PROVE  policy \in Policies /\ asked \in [Questions -> Asking]
    BY <1>1 DEF ApprovalInv, AskedTyped
  <1>3. ASSUME ApprovalInv, NEW q \in Questions, AskPolicy(q) PROVE ApprovalInv'
    <2> DEFINE rule == FirstMatch(q)
               allowed == rule # 0 /\ policy.rules[rule].allow
               stage == IF allowed THEN "approved" ELSE "denied"
    <2>1. /\ policy.rules # <<>> /\ policy' = policy /\ typed' = typed /\ unread' = unread
          /\ asked' = [asked EXCEPT ![q].stage = stage]
      BY <1>3, Zenon DEF AskPolicy
    <2>2. stage = "approved" => AllowedBy(q)
      <3>1. stage = "approved" => rule # 0 /\ policy.rules[rule].allow
        OBVIOUS
      <3>2. policy \in Policies
        BY <1>1, <1>3
      <3> HIDE DEF stage
      <3>3. QED BY <3>1, <3>2, FirstMatchIs
    <2>3. stage \in {"shown", "approved", "denied", "timedOut"}
      OBVIOUS
    <2> HIDE DEF stage
    <2>4. QED BY <1>3, <2>1, <2>2, <2>3, StageKeeps
  <1>4. ASSUME ApprovalInv, NEW q \in Questions, AskConsole(q) PROVE ApprovalInv'
    <2>1. /\ asked \in [Questions -> Asking] /\ policy.rules = <<>>
          /\ policy' = policy /\ typed' = typed /\ unread' = unread
          /\ asked' = [asked EXCEPT ![q].stage = "shown", ![q].reader = "reading"]
      BY <1>1, <1>4 DEF AskConsole
    <2>2. /\ \A r \in Questions : r # q => asked'[r] = asked[r]
          /\ asked'[q].stage = "shown" /\ asked'[q].by = asked[q].by
          /\ asked'[q].word = asked[q].word /\ asked' \in [Questions -> Asking]
      BY ZenonT(60), <2>1 DEF Asking
    <2>3. ApprovedIs(q)'
      BY <2>1, <2>2 DEF ApprovedIs
    <2>4. QED BY <1>4, <2>1, <2>2, <2>3, AskedKeeps
  <1>5. ASSUME ApprovalInv, NEW q \in Questions, Decide(q) PROVE ApprovalInv'
    <2> DEFINE stage == Decision(q)
    <2>1. stage \in {"shown", "approved", "denied", "timedOut"}
          /\ (stage = "approved" => asked[q].word \in Yeses)
      BY DEF Decision
    <2>2. /\ asked[q].stage = "shown" /\ asked[q].reader = "done"
          /\ policy' = policy /\ typed' = typed /\ unread' = unread
          /\ asked' = [asked EXCEPT ![q].stage = stage]
      BY <1>5 DEF Decide
    <2>3. policy.rules = <<>>
      BY <1>5, <2>2 DEF ApprovalInv, ApprovedInv, ApprovedIs
    <2> HIDE DEF stage
    <2>4. QED BY <1>5, <2>1, <2>2, <2>3, StageKeeps
  <1>6. ASSUME ApprovalInv, NEW q \in Questions, TimeOut(q) PROVE ApprovalInv'
    BY <1>6, StageKeeps DEF TimeOut
  <1>7. ASSUME ApprovalInv, UNCHANGED approvalVars PROVE ApprovalInv'
    <2>1. policy' = policy /\ asked' = asked /\ typed' = typed /\ unread' = unread
      BY <1>7 DEF approvalVars
    <2>2. QED BY <1>7, <2>1
          DEF ApprovalInv, AskedTyped, AnswersApart, Affirms, ApprovedInv, ApprovedIs, AllowedBy
  <1>8. QED BY <1>3, <1>4, <1>5, <1>6, <1>7, TypeKeeps, ReadLetterKeeps,
               ReadLineEndKeeps DEF ApprovalNext

LEMMA ApprovalMeets == ApprovalInv => ApprovalsFaithful
PROOF
  <1> SUFFICES ASSUME ApprovalInv PROVE ApprovalsFaithful
    OBVIOUS
  <1>1. AskedTyped /\ AnswersApart /\ ApprovedInv
    BY DEF ApprovalInv
  <1>2. ASSUME policy.rules = <<>>, NEW q \in Questions, asked[q].stage = "approved"
        PROVE  Affirms(q)
    <2>1. asked[q].word \in Yeses
      BY <1>1, <1>2 DEF ApprovedInv, ApprovedIs
    <2>2. QED BY <2>1 DEF Affirms, Yeses
  <1>3. QED BY <1>1, <1>2 DEF AnswersApart, ApprovedInv, ApprovedIs, AllowedBy, ApprovalsFaithful

(***************************************************************************)
(* The calendar.                                                           *)
(***************************************************************************)
Dates == [year : Nat, month : 1..12, day : 1..31]
Times == [year : Nat, month : 1..12, day : 1..31, hour : 0..23, minute : 0..59]

Long == <<31, 28, 31, 30, 31, 30, 31, 31, 30, 31, 30, 31>>
Before == <<0, 31, 59, 90, 120, 151, 181, 212, 243, 273, 304, 334>>
Extra(y) == IF Leap(y) THEN 1 ELSE 0
LeapsTo(y) == {k \in 2000..y - 1 : Leap(k)}
YearStart(y) == 365 * (y - 2000) + Cardinality(LeapsTo(y))
MonthStart(y, m) == YearStart(y) + Before[m] + (IF m > 2 /\ Leap(y) THEN 1 ELSE 0)

LEMMA TableIs ==
  /\ Before[1] = 0 /\ Before[2] = 31 /\ Before[3] = 59 /\ Before[4] = 90
  /\ Before[5] = 120 /\ Before[6] = 151 /\ Before[7] = 181 /\ Before[8] = 212
  /\ Before[9] = 243 /\ Before[10] = 273 /\ Before[11] = 304 /\ Before[12] = 334
  /\ Long[1] = 31 /\ Long[2] = 28 /\ Long[3] = 31 /\ Long[4] = 30
  /\ Long[5] = 31 /\ Long[6] = 30 /\ Long[7] = 31 /\ Long[8] = 31
  /\ Long[9] = 30 /\ Long[10] = 31 /\ Long[11] = 30 /\ Long[12] = 31
  BY DEF Before, Long

LEMMA LeapsAre ==
  ASSUME NEW y \in Nat
  PROVE  IsFiniteSet(LeapsTo(y)) /\ Cardinality(LeapsTo(y)) \in Nat
PROOF
  <1>1. IsFiniteSet(2000..y - 1)
    <2> DEFINE z == y - 1
    <2>1. z \in Int /\ 2000 \in Int
      OBVIOUS
    <2> HIDE DEF z
    <2>2. IsFiniteSet(2000..z)
      BY <2>1, FS_Interval
    <2>3. QED BY <2>2 DEF z
  <1>2. LeapsTo(y) \in SUBSET (2000..y - 1)
    BY DEF LeapsTo
  <1>3. QED BY <1>1, <1>2, FS_Subset, FS_CardinalityType

(* A year ends where the next begins.                                      *)
LEMMA YearNext ==
  ASSUME NEW y \in Nat, y >= 2000
  PROVE  /\ YearStart(y) \in Nat
         /\ YearStart(y + 1) = YearStart(y) + 365 + Extra(y)
PROOF
  <1>1. LeapsTo(y + 1) = IF Leap(y) THEN LeapsTo(y) \cup {y} ELSE LeapsTo(y)
    <2>1. \A k : k \in 2000..(y + 1) - 1 <=> k \in 2000..y - 1 \/ k = y
      OBVIOUS
    <2>2. QED BY <2>1 DEF LeapsTo
  <1>2. y \notin LeapsTo(y)
    BY DEF LeapsTo
  <1> DEFINE a == Cardinality(LeapsTo(y))
             b == Cardinality(LeapsTo(y + 1))
  <1>3. a \in Nat /\ b = a + Extra(y)
    <2>1. CASE Leap(y)
      BY <1>1, <1>2, <2>1, LeapsAre, FS_AddElement DEF Extra
    <2>2. CASE ~Leap(y)
      BY <1>1, <2>2, LeapsAre DEF Extra
    <2>3. QED BY <2>1, <2>2
  <1> HIDE DEF a, b
  <1>4. YearStart(y) = 365 * (y - 2000) + a /\ YearStart(y + 1) = 365 * ((y + 1) - 2000) + b
    BY DEF YearStart, a, b
  <1>5. Extra(y) \in {0, 1}
    BY DEF Extra
  <1> HIDE DEF Extra
  <1>6. QED BY <1>3, <1>4, <1>5

LEMMA YearsApart ==
  ASSUME NEW y \in Nat, NEW z \in Nat, 2000 <= y, y < z
  PROVE  YearStart(y) + 365 + Extra(y) <= YearStart(z)
PROOF
  <1>1. LeapsTo(y + 1) \in SUBSET LeapsTo(z)
    <2>1. \A k \in 2000..(y + 1) - 1 : k \in 2000..z - 1
      OBVIOUS
    <2>2. QED BY <2>1 DEF LeapsTo
  <1> DEFINE a == Cardinality(LeapsTo(y + 1))
             b == Cardinality(LeapsTo(z))
  <1>2. a <= b /\ a \in Nat /\ b \in Nat
    <2>1. y + 1 \in Nat
      OBVIOUS
    <2>2. QED BY <1>1, <2>1, LeapsAre, FS_Subset
  <1> HIDE DEF a, b
  <1>3. YearStart(y + 1) = 365 * ((y + 1) - 2000) + a /\ YearStart(z) = 365 * (z - 2000) + b
    BY DEF YearStart, a, b
  <1>4. YearStart(y + 1) <= YearStart(z)
    BY <1>2, <1>3
  <1>5. QED BY <1>4, YearNext

(* A month ends where the next begins.                                     *)
LEMMA MonthIs ==
  ASSUME NEW y \in Nat, 2000 <= y, NEW m \in 1..12
  PROVE  /\ DaysIn(y, m) \in 28..31 /\ MonthStart(y, m) \in Nat /\ YearStart(y) \in Nat
         /\ YearStart(y) <= MonthStart(y, m)
         /\ MonthStart(y, m) + DaysIn(y, m) <= YearStart(y) + 365 + Extra(y)
         /\ m = 12 => MonthStart(y + 1, 1) = MonthStart(y, m) + DaysIn(y, m)
         /\ m # 12 => MonthStart(y, m + 1) = MonthStart(y, m) + DaysIn(y, m)
         /\ \A n \in 1..12 : m < n => MonthStart(y, m) + DaysIn(y, m) <= MonthStart(y, n)
PROOF
  <1> DEFINE s == YearStart(y)
             e == Extra(y)
  <1>1. s \in Nat /\ e \in {0, 1} /\ YearStart(y + 1) = s + 365 + e
    BY YearNext DEF Extra
  <1>2. DaysIn(y, m) = IF m = 2 /\ e = 1 THEN 29 ELSE Long[m]
    BY DEF DaysIn, Long, Extra
  <1>3. \A n \in 1..12 : MonthStart(y, n) = s + Before[n] + (IF n > 2 /\ e = 1 THEN 1 ELSE 0)
    BY DEF MonthStart, Extra
  <1>4. MonthStart(y + 1, 1) = s + 365 + e + Before[1]
    BY <1>1, TableIs DEF MonthStart
  <1> HIDE DEF s, e
  <1>5. m \in {1, 2, 3, 4, 5, 6, 7, 8, 9, 10, 11, 12}
    OBVIOUS
  <1>6. DaysIn(y, m) \in 28..31
    BY <1>1, <1>2, <1>5, TableIs
  <1>7. /\ MonthStart(y, m) \in Nat /\ s <= MonthStart(y, m)
        /\ MonthStart(y, m) + DaysIn(y, m) <= s + 365 + e
    BY <1>1, <1>2, <1>3, <1>5, TableIs
  <1>8. m = 12 => MonthStart(y + 1, 1) = MonthStart(y, m) + DaysIn(y, m)
    BY <1>1, <1>2, <1>3, <1>4, TableIs
  <1>9. m # 12 => MonthStart(y, m + 1) = MonthStart(y, m) + DaysIn(y, m)
    BY <1>1, <1>2, <1>3, <1>5, TableIs
  <1>10. ASSUME NEW n \in 1..12, m < n
         PROVE  MonthStart(y, m) + DaysIn(y, m) <= MonthStart(y, n)
    <2>1. n \in {1, 2, 3, 4, 5, 6, 7, 8, 9, 10, 11, 12}
      OBVIOUS
    <2>2. QED BY <1>1, <1>2, <1>3, <1>5, <1>10, <2>1, TableIs
  <1>11. QED BY <1>1, <1>6, <1>7, <1>8, <1>9, <1>10 DEF s, e

LEMMA MonthBounds ==
  ASSUME NEW y \in Nat, 2000 <= y, NEW m \in 1..12
  PROVE  MonthStart(y, m) \in Nat /\ DaysIn(y, m) \in Nat /\ DaysIn(y, m) <= 31
         /\ 28 <= DaysIn(y, m)
PROOF
  <1>1. DaysIn(y, m) \in 28..31 /\ MonthStart(y, m) \in Nat
    BY MonthIs
  <1>2. QED BY <1>1

(* Two months are the same, or one ends before the other begins.           *)
LEMMA MonthsApart ==
  ASSUME NEW y \in Nat, 2000 <= y, NEW m \in 1..12, NEW z \in Nat, 2000 <= z, NEW n \in 1..12
  PROVE  \/ y = z /\ m = n
         \/ MonthStart(y, m) + DaysIn(y, m) <= MonthStart(z, n)
         \/ MonthStart(z, n) + DaysIn(z, n) <= MonthStart(y, m)
PROOF
  <1>1. CASE y = z
    BY <1>1, MonthIs
  <1>2. CASE y < z
    <2>1. YearStart(y) + 365 + Extra(y) <= YearStart(z) /\ Extra(y) \in {0, 1}
      BY <1>2, YearsApart DEF Extra
    <2> HIDE DEF Extra
    <2>2. QED BY <2>1, MonthIs
  <1>3. CASE z < y
    <2>1. YearStart(z) + 365 + Extra(z) <= YearStart(y) /\ Extra(z) \in {0, 1}
      BY <1>3, YearsApart DEF Extra
    <2>2. QED BY <2>1, MonthIs
  <1>4. QED BY <1>1, <1>2, <1>3

IsDate(d) == d.year \in Nat /\ 2000 <= d.year /\ d.month \in 1..12 /\ d.day \in 1..31
             /\ d.day <= DaysIn(d.year, d.month)

LEMMA DayIs ==
  ASSUME NEW d, IsDate(d)
  PROVE  /\ DayNumber(d) = MonthStart(d.year, d.month) + d.day - 1
         /\ DayNumber(d) \in Nat /\ d.day \in Nat
         /\ MonthStart(d.year, d.month) <= DayNumber(d)
         /\ DayNumber(d) < MonthStart(d.year, d.month) + DaysIn(d.year, d.month)
PROOF
  <1>1. DayNumber(d) = MonthStart(d.year, d.month) + d.day - 1
    BY DEF DayNumber, MonthStart, YearStart, LeapsTo, Before
  <1>2. MonthStart(d.year, d.month) \in Nat /\ DaysIn(d.year, d.month) \in 28..31
        /\ d.day \in 1..31 /\ d.day <= DaysIn(d.year, d.month)
    BY SMTT(40), MonthIs DEF IsDate
  <1>3. QED BY <1>1, <1>2

(* Days with the same number are one day; those in the month of a day are  *)
(* in its year and month.                                                  *)
LEMMA SameMonth ==
  ASSUME NEW d, IsDate(d), NEW y \in Nat, 2000 <= y, NEW m \in 1..12,
         MonthStart(y, m) <= DayNumber(d), DayNumber(d) < MonthStart(y, m) + DaysIn(y, m)
  PROVE  d.year = y /\ d.month = m
PROOF
  <1> DEFINE z == d.year
             n == d.month
             x == DayNumber(d)
  <1>1. z \in Nat /\ 2000 <= z /\ n \in 1..12
    BY DEF IsDate
  <1>2. x \in Nat /\ MonthStart(z, n) <= x /\ x < MonthStart(z, n) + DaysIn(z, n)
    BY DayIs
  <1>3. MonthStart(y, m) <= x /\ x < MonthStart(y, m) + DaysIn(y, m)
    OBVIOUS
  <1> HIDE DEF x, z, n
  <1>4. /\ MonthStart(z, n) \in Nat /\ DaysIn(z, n) \in Nat
        /\ MonthStart(y, m) \in Nat /\ DaysIn(y, m) \in Nat
    BY <1>1, MonthBounds
  <1>5. z = y /\ n = m
    BY SMTT(40), <1>1, <1>2, <1>3, <1>4, MonthsApart
  <1>6. QED BY <1>5 DEF z, n

LEMMA SameDay ==
  ASSUME NEW d, IsDate(d), NEW t, IsDate(t), DayNumber(d) = DayNumber(t)
  PROVE  d.year = t.year /\ d.month = t.month /\ d.day = t.day
PROOF
  <1>1. d.year = t.year /\ d.month = t.month
    <2>1. /\ t.year \in Nat /\ 2000 <= t.year /\ t.month \in 1..12
          /\ MonthStart(t.year, t.month) <= DayNumber(d)
          /\ DayNumber(d) < MonthStart(t.year, t.month) + DaysIn(t.year, t.month)
      BY DayIs DEF IsDate
    <2> DEFINE y == t.year
               m == t.month
    <2> HIDE DEF y, m
    <2>2. d.year = y /\ d.month = m
      BY <2>1, SameMonth DEF y, m
    <2>3. QED BY <2>2 DEF y, m
  <1> DEFINE s == MonthStart(t.year, t.month)
  <1>2. DayNumber(d) = s + d.day - 1 /\ DayNumber(t) = s + t.day - 1
        /\ d.day \in Nat /\ t.day \in Nat
    BY <1>1, DayIs
  <1>3. s \in Nat
    BY MonthBounds DEF IsDate
  <1> DEFINE a == d.day
             b == t.day
             x == DayNumber(d)
  <1>4. x = s + a - 1 /\ x = s + b - 1 /\ a \in Nat /\ b \in Nat
    BY <1>2
  <1> HIDE DEF s, a, b, x
  <1>5. a = b
    BY <1>3, <1>4
  <1>6. QED BY <1>1, <1>5 DEF a, b

(* The number of a minute.                                                 *)
Minute(n, h, m) == (n * 24 + h) * 60 + m

LEMMA TimeIs ==
  ASSUME NEW t, IsTime(t)
  PROVE  /\ IsDate(t) /\ t \in Times /\ DayNumber(t) \in Nat
         /\ t.year \in Nat /\ 2000 <= t.year /\ t.month \in 1..12 /\ t.day \in 1..31
         /\ t.day <= DaysIn(t.year, t.month) /\ t.hour \in 0..23 /\ t.minute \in 0..59
         /\ MinuteNumber(t) = Minute(DayNumber(t), t.hour, t.minute)
         /\ MinuteNumber(t) \in Nat
PROOF
  <1>1. /\ t \in Times /\ t.year \in Nat /\ 2000 <= t.year /\ t.month \in 1..12
        /\ t.day \in 1..31 /\ t.day <= DaysIn(t.year, t.month)
        /\ t.hour \in 0..23 /\ t.minute \in 0..59
    BY DEF IsTime, Times
  <1>2. IsDate(t)
    BY <1>1 DEF IsDate
  <1>3. DayNumber(t) \in Nat
    BY <1>2, DayIs
  <1>4. MinuteNumber(t) = Minute(DayNumber(t), t.hour, t.minute)
    BY DEF MinuteNumber, Minute
  <1> DEFINE n == DayNumber(t)
             h == t.hour
             m == t.minute
  <1>5. n \in Nat /\ h \in 0..23 /\ m \in 0..59
    BY <1>1, <1>3
  <1> HIDE DEF n, h, m
  <1>6. Minute(n, h, m) \in Nat
    BY <1>5 DEF Minute
  <1>7. QED BY <1>1, <1>2, <1>3, <1>4, <1>6 DEF n, h, m

(* A time that has its parts.                                              *)
LEMMA StampIs ==
  ASSUME NEW t \in Times, NEW y, NEW m, NEW d, NEW h, NEW i, t.year = y, t.month = m,
         t.day = d, t.hour = h, t.minute = i, 2000 <= y, d <= DaysIn(y, m)
  PROVE  IsTime(t) /\ MinuteNumber(t) = Minute(MonthStart(y, m) + d - 1, h, i)
PROOF
  <1>1. IsTime(t)
    BY DEF IsTime, Times
  <1>2. DayNumber(t) = MonthStart(y, m) + d - 1
    BY <1>1, TimeIs, DayIs
  <1>3. QED BY <1>1, <1>2, TimeIs

(* A time with another hour or minute.                                     *)
LEMMA WithHour ==
  ASSUME NEW t \in Times, NEW h \in 0..23, NEW u, u = [t EXCEPT !.hour = h]
  PROVE  /\ u \in Times /\ u.year = t.year /\ u.month = t.month /\ u.day = t.day
         /\ u.hour = h /\ u.minute = t.minute
  BY DEF Times

LEMMA WithMinute ==
  ASSUME NEW t \in Times, NEW i \in 0..59, NEW u, u = [t EXCEPT !.minute = i]
  PROVE  /\ u \in Times /\ u.year = t.year /\ u.month = t.month /\ u.day = t.day
         /\ u.hour = t.hour /\ u.minute = i
  BY DEF Times

LEMMA NextMonthIs ==
  ASSUME NEW t, IsTime(t)
  PROVE  /\ IsTime(NextMonth(t))
         /\ MinuteNumber(NextMonth(t)) =
              Minute(MonthStart(t.year, t.month) + DaysIn(t.year, t.month), 0, 0)
PROOF
  <1> DEFINE y == t.year
             m == t.month
             z == IF m = 12 THEN y + 1 ELSE y
             n == IF m = 12 THEN 1 ELSE m + 1
             u == [year |-> z, month |-> n, day |-> 1, hour |-> 0, minute |-> 0]
  <1>1. y \in Nat /\ 2000 <= y /\ m \in 1..12
    BY TimeIs
  <1>2. NextMonth(t) = u
    BY DEF NextMonth
  <1> HIDE DEF y, m
  <1>3. z \in Nat /\ 2000 <= z /\ n \in 1..12
    BY <1>1
  <1>4. MonthStart(z, n) = MonthStart(y, m) + DaysIn(y, m)
    BY <1>1, MonthIs
  <1>5. MonthStart(y, m) \in Nat /\ DaysIn(y, m) \in Nat
    BY <1>1, MonthBounds
  <1> HIDE DEF z, n
  <1>6. 1 <= DaysIn(z, n)
    BY <1>3, MonthBounds
  <1>10. u \in Times /\ u.year = z /\ u.month = n /\ u.day = 1 /\ u.hour = 0 /\ u.minute = 0
    BY <1>3 DEF Times
  <1> HIDE DEF u
  <1>7. IsTime(u) /\ MinuteNumber(u) = Minute(MonthStart(z, n) + 1 - 1, 0, 0)
    BY <1>3, <1>6, <1>10, StampIs
  <1>8. MonthStart(z, n) + 1 - 1 = MonthStart(y, m) + DaysIn(y, m)
    BY <1>4, <1>5
  <1>9. QED BY <1>2, <1>7, <1>8 DEF y, m

LEMMA NextDayIs ==
  ASSUME NEW t, IsTime(t)
  PROVE  /\ IsTime(NextDay(t))
         /\ MinuteNumber(NextDay(t)) = Minute(DayNumber(t) + 1, 0, 0)
PROOF
  <1> DEFINE y == t.year
             m == t.month
             d == t.day
             k == DayNumber(t)
  <1>1. /\ y \in Nat /\ 2000 <= y /\ m \in 1..12 /\ d \in 1..31 /\ d <= DaysIn(y, m)
        /\ t \in Times
    BY TimeIs
  <1>2. k = MonthStart(y, m) + d - 1
    BY DayIs, TimeIs
  <1>3. MonthStart(y, m) \in Nat /\ DaysIn(y, m) \in Nat /\ DaysIn(y, m) <= 31
    BY <1>1, MonthBounds
  <1>4. CASE d = DaysIn(y, m)
    <2>1. NextDay(t) = NextMonth(t)
      BY <1>4 DEF NextDay
    <2>2. MinuteNumber(NextMonth(t)) = Minute(MonthStart(y, m) + DaysIn(y, m), 0, 0)
          /\ IsTime(NextMonth(t))
      BY NextMonthIs
    <2> HIDE DEF y, m, d, k
    <2>3. MonthStart(y, m) + DaysIn(y, m) = k + 1
      BY <1>2, <1>3, <1>4
    <2>4. QED BY <2>1, <2>2, <2>3 DEF k
  <1>5. CASE d # DaysIn(y, m)
    <2> DEFINE e == d + 1
               u == [t EXCEPT !.day = e, !.hour = 0, !.minute = 0]
    <2>1. NextDay(t) = u
      BY <1>5 DEF NextDay
    <2>2. e \in 1..31 /\ e <= DaysIn(y, m)
      <3> HIDE DEF y, m, d, k
      <3>1. QED BY <1>1, <1>3, <1>5
    <2> HIDE DEF e
    <2> DEFINE v == [t EXCEPT !.day = e]
               w == [v EXCEPT !.hour = 0]
    <2>7. u = [w EXCEPT !.minute = 0] /\ 0 \in 0..59 /\ 0 \in 0..23
      OBVIOUS
    <2>6. u \in Times /\ u.year = y /\ u.month = m /\ u.day = e /\ u.hour = 0 /\ u.minute = 0
      <3>1. v \in Times /\ v.year = y /\ v.month = m /\ v.day = e
        BY <1>1, <2>2 DEF Times
      <3> HIDE DEF v
      <3>2. w \in Times /\ w.year = y /\ w.month = m /\ w.day = e /\ w.hour = 0
        BY <2>7, <3>1, WithHour
      <3> HIDE DEF u, w
      <3>3. QED BY <2>7, <3>2, WithMinute
    <2> HIDE DEF u, y, m, d, k
    <2>3. IsTime(u) /\ MinuteNumber(u) = Minute(MonthStart(y, m) + e - 1, 0, 0)
      BY <1>1, <2>2, <2>6, StampIs
    <2>4. MonthStart(y, m) + e - 1 = k + 1
      BY <1>1, <1>2, <1>3 DEF e
    <2>5. QED BY <2>1, <2>3, <2>4 DEF k
  <1>6. QED BY <1>4, <1>5

LEMMA NextHourIs ==
  ASSUME NEW t, IsTime(t)
  PROVE  /\ IsTime(NextHour(t))
         /\ MinuteNumber(NextHour(t)) = Minute(DayNumber(t), t.hour + 1, 0)
PROOF
  <1> DEFINE y == t.year
             m == t.month
             d == t.day
             h == t.hour
             k == DayNumber(t)
  <1>1. /\ y \in Nat /\ 2000 <= y /\ m \in 1..12 /\ d \in 1..31 /\ d <= DaysIn(y, m)
        /\ h \in 0..23 /\ t \in Times /\ k \in Nat
    BY TimeIs
  <1>2. k = MonthStart(y, m) + d - 1
    BY DayIs, TimeIs
  <1>3. CASE h = 23
    <2>1. NextHour(t) = NextDay(t)
      BY <1>3 DEF NextHour
    <2>2. IsTime(NextDay(t)) /\ MinuteNumber(NextDay(t)) = Minute(k + 1, 0, 0)
      BY NextDayIs
    <2> HIDE DEF h, k
    <2>3. Minute(k + 1, 0, 0) = Minute(k, h + 1, 0)
      BY <1>1, <1>3 DEF Minute
    <2>4. QED BY <2>1, <2>2, <2>3 DEF h, k
  <1>4. CASE h # 23
    <2> DEFINE e == h + 1
               u == [t EXCEPT !.hour = e, !.minute = 0]
    <2>1. NextHour(t) = u
      BY <1>4 DEF NextHour
    <2>2. e \in 0..23
      <3> HIDE DEF y, m, d, h, k
      <3>1. QED BY <1>1, <1>4
    <2> HIDE DEF e
    <2> DEFINE v == [t EXCEPT !.hour = e]
    <2>5. u = [v EXCEPT !.minute = 0] /\ 0 \in 0..59
      OBVIOUS
    <2>6. u \in Times /\ u.year = y /\ u.month = m /\ u.day = d /\ u.hour = e /\ u.minute = 0
      <3>1. v \in Times /\ v.year = y /\ v.month = m /\ v.day = d /\ v.hour = e
        BY <1>1, <2>2, WithHour
      <3> HIDE DEF u, v
      <3>2. QED BY <2>5, <3>1, WithMinute
    <2> HIDE DEF u, y, m, d, h, k
    <2>3. IsTime(u) /\ MinuteNumber(u) = Minute(MonthStart(y, m) + d - 1, e, 0)
      BY <1>1, <2>2, <2>6, StampIs
    <2>4. QED BY <1>2, <2>1, <2>3 DEF e, h, k
  <1>5. QED BY <1>3, <1>4

LEMMA NextMinuteIs ==
  ASSUME NEW t, IsTime(t)
  PROVE  /\ IsTime(NextMinute(t))
         /\ MinuteNumber(NextMinute(t)) = MinuteNumber(t) + 1
PROOF
  <1> DEFINE y == t.year
             m == t.month
             d == t.day
             h == t.hour
             i == t.minute
             k == DayNumber(t)
  <1>1. /\ y \in Nat /\ 2000 <= y /\ m \in 1..12 /\ d \in 1..31 /\ d <= DaysIn(y, m)
        /\ h \in 0..23 /\ i \in 0..59 /\ t \in Times /\ k \in Nat
        /\ MinuteNumber(t) = Minute(k, h, i)
    BY TimeIs
  <1>2. k = MonthStart(y, m) + d - 1
    BY DayIs, TimeIs
  <1>3. CASE i = 59
    <2>1. NextMinute(t) = NextHour(t)
      BY <1>3 DEF NextMinute
    <2>2. IsTime(NextHour(t)) /\ MinuteNumber(NextHour(t)) = Minute(k, h + 1, 0)
      BY NextHourIs
    <2> HIDE DEF h, i, k
    <2>3. Minute(k, h + 1, 0) = Minute(k, h, i) + 1
      BY <1>1, <1>3 DEF Minute
    <2>4. QED BY <1>1, <2>1, <2>2, <2>3
  <1>4. CASE i # 59
    <2> DEFINE e == i + 1
               u == [t EXCEPT !.minute = e]
    <2>1. NextMinute(t) = u
      BY <1>4 DEF NextMinute
    <2>2. e \in 0..59
      <3> HIDE DEF y, m, d, h, i, k
      <3>1. QED BY <1>1, <1>4
    <2> HIDE DEF e
    <2>6. u \in Times /\ u.year = y /\ u.month = m /\ u.day = d /\ u.hour = h /\ u.minute = e
      BY <1>1, <2>2 DEF Times
    <2> HIDE DEF u, y, m, d, h, i, k
    <2>3. IsTime(u) /\ MinuteNumber(u) = Minute(MonthStart(y, m) + d - 1, h, e)
      BY <1>1, <2>2, <2>6, StampIs
    <2>4. Minute(k, h, e) = Minute(k, h, i) + 1
      BY <1>1 DEF Minute, e
    <2>5. QED BY <1>1, <1>2, <2>1, <2>3, <2>4
  <1>5. QED BY <1>3, <1>4

LEMMA MinuteIs ==
  ASSUME NEW n \in Nat, NEW h \in 0..23, NEW i \in 0..59
  PROVE  Minute(n, h, i) \in Nat
  BY DEF Minute

(***************************************************************************)
(* The values of the fields.                                               *)
(***************************************************************************)
LEMMA LimitsAre ==
  /\ \A f \in Fields : Limits[f].min \in Nat /\ Limits[f].max \in Nat /\ Limits[f].size \in Nat
  /\ Hours \in Fields /\ Limits[Hours].size = 24
  /\ Minutes \in Fields /\ Limits[Minutes].size = 60
  BY DEF Fields, Hours, Minutes, Limits

LEMMA PartIs ==
  ASSUME NEW part \in Part
  PROVE  /\ part.kind \in {"every", "junk", "step", "range", "value"}
         /\ part.kind = "step" => part.step \in Int
         /\ part.kind = "range" => part.from \in Nat /\ part.to \in Int /\ part.step \in Int
         /\ part.kind = "value" => part.value \in Nat
  BY DEF Part

LEMMA ValuesOfPart ==
  ASSUME NEW part \in Part, NEW f \in Fields, ~MalformedPart(part, Limits[f])
  PROVE  PartValues(part, Limits[f]) \subseteq Nat
PROOF
  <1> DEFINE limit == Limits[f]
  <1>1. limit.min \in Nat /\ limit.max \in Nat
    BY LimitsAre
  <1> HIDE DEF limit
  <1>2. ~MalformedPart(part, limit)
    BY DEF limit
  <1>3. \A s : \A a \in Nat, b \in Int : Stepped(a, b, s) \subseteq Nat
    BY DEF Stepped
  <1>4. CASE part.kind = "every"
    <2>1. PartValues(part, limit) = limit.min..limit.max
      BY <1>4 DEF PartValues
    <2>2. QED BY <1>1, <2>1 DEF limit
  <1>5. CASE part.kind = "step"
    <2>1. PartValues(part, limit) = Stepped(limit.min, limit.max, part.step)
      BY <1>5 DEF PartValues
    <2>2. QED BY <1>1, <1>3, <2>1 DEF limit
  <1>6. CASE part.kind = "range"
    <2>1. PartValues(part, limit) = Stepped(part.from, part.to, part.step)
      BY <1>6 DEF PartValues
    <2>2. QED BY <1>3, <1>6, <2>1, PartIs DEF limit
  <1>7. CASE part.kind = "value"
    <2>1. PartValues(part, limit) = {part.value}
      BY <1>7 DEF PartValues
    <2>2. QED BY <1>7, <2>1, PartIs DEF limit
  <1>8. part.kind # "junk"
    BY <1>2 DEF MalformedPart
  <1>9. QED BY <1>4, <1>5, <1>6, <1>7, <1>8, PartIs

LEMMA ValuesAre ==
  ASSUME query \in Queries, NEW f \in Fields, ~Malformed(f), ~Overruns(f)
  PROVE  FieldValues(f) \subseteq Nat /\ \A v \in FieldValues(f) : v < Limits[f].size
PROOF
  <1>1. query.expr[f] \in Seq(Part)
    BY QueriesAssumption
  <1>2. \A part \in Parts(f) : part \in Part
    BY <1>1 DEF Parts
  <1>3. \A part \in Parts(f) : PartValues(part, Limits[f]) \subseteq Nat
    BY <1>2, ValuesOfPart DEF Malformed
  <1>4. FieldValues(f) \subseteq Nat
    BY <1>3 DEF FieldValues
  <1>5. \A v \in FieldValues(f) : ~(v >= Limits[f].size)
    BY DEF Overruns
  <1>6. QED BY <1>4, <1>5, LimitsAre

(***************************************************************************)
(* The search.                                                             *)
(***************************************************************************)
Scheduled(d, h, i) ==
  /\ d \in Dates /\ query.start.year <= d.year /\ d.day <= DaysIn(d.year, d.month)
  /\ d.month \in search.schedule[Months] /\ d.day \in search.schedule[Days]
  /\ Weekday(d) \in search.schedule[Weekdays]
  /\ h \in search.schedule[Hours] /\ i \in search.schedule[Minutes]

(* No time of the schedule is after the start and before this.             *)
NoneTo(end) ==
  \A d \in Dates, h \in 0..23, i \in 0..59 :
    Scheduled(d, h, i) =>
      ~(MinuteNumber(query.start) < Minute(DayNumber(d), h, i)
         /\ Minute(DayNumber(d), h, i) < end)

NoneFrom(from, end) ==
  \A d \in Dates, h \in 0..23, i \in 0..59 :
    Scheduled(d, h, i) =>
      ~(from <= Minute(DayNumber(d), h, i) /\ Minute(DayNumber(d), h, i) < end)

SearchTyped ==
  /\ query \in Queries
  /\ search \in [stage : {"parse", "rejected", "panicked", "search", "found", "gaveUp"},
                 schedule : [Fields -> SUBSET Int], at : Times]

CameTo ==
  /\ search.schedule[Hours] \subseteq 0..23 /\ search.schedule[Minutes] \subseteq 0..59
  /\ IsTime(search.at) /\ MinuteNumber(query.start) < MinuteNumber(search.at)
  /\ NoneTo(MinuteNumber(search.at))

CronInv ==
  /\ SearchTyped
  /\ search.stage \in {"search", "found", "gaveUp"} => CameTo
  /\ search.stage = "found" => HasMonth /\ HasDay /\ HasHour /\ HasMinute
  /\ search.stage = "gaveUp" => Deadline <= MinuteNumber(search.at)

LEMMA StartIs ==
  ASSUME query \in Queries
  PROVE  /\ IsTime(query.start) /\ query.start \in Times
         /\ MinuteNumber(query.start) \in Nat /\ Deadline \in Int
PROOF
  <1>1. IsTime(query.start)
    BY QueriesAssumption
  <1>2. /\ query.start \in Times /\ MinuteNumber(query.start) \in Nat
        /\ MinuteNumber(NextMinute(query.start)) = MinuteNumber(query.start) + 1
    BY <1>1, TimeIs, NextMinuteIs
  <1> DEFINE n == MinuteNumber(NextMinute(query.start))
  <1>3. n \in Nat
    BY <1>2
  <1>4. Deadline = n + 4 * 365 * 24 * 60
    BY DEF Deadline, SearchMinutes
  <1> HIDE DEF n
  <1>5. QED BY <1>1, <1>2, <1>3, <1>4

LEMMA ScheduledIs ==
  ASSUME CameTo, query \in Queries, NEW d, NEW h, NEW i, Scheduled(d, h, i)
  PROVE  h \in 0..23 /\ i \in 0..59 /\ IsDate(d) /\ DayNumber(d) \in Nat
PROOF
  <1>1. h \in 0..23 /\ i \in 0..59
    BY DEF CameTo, Scheduled
  <1>2. d.year \in Nat /\ d.month \in 1..12 /\ d.day \in 1..31 /\ query.start.year <= d.year
        /\ d.day <= DaysIn(d.year, d.month)
    BY DEF Scheduled, Dates
  <1>3. query.start.year \in Nat /\ 2000 <= query.start.year
    BY StartIs, TimeIs
  <1>4. IsDate(d)
    BY <1>2, <1>3 DEF IsDate
  <1>5. QED BY <1>1, <1>4, DayIs

LEMMA CronStarts == query \in Queries /\ ScheduleInit => CronInv
PROOF
  <1> SUFFICES ASSUME query \in Queries, ScheduleInit PROVE CronInv
    OBVIOUS
  <1>1. search = [stage |-> "parse", schedule |-> [f \in Fields |-> {}], at |-> query.start]
    BY DEF ScheduleInit
  <1>2. SearchTyped
    BY <1>1, StartIs DEF SearchTyped
  <1>3. QED BY <1>1, <1>2 DEF CronInv

LEMMA AcceptKeeps == CronInv /\ AcceptExpression => CronInv'
PROOF
  <1> SUFFICES ASSUME CronInv, AcceptExpression PROVE CronInv'
    OBVIOUS
  <1> DEFINE t == NextMinute(query.start)
             s == [f \in Fields |-> FieldValues(f)]
  <1>1. /\ query \in Queries /\ query' = query
        /\ \A f \in Fields : ~Malformed(f) /\ ~Overruns(f)
        /\ search' = [stage |-> "search", schedule |-> s, at |-> t]
    BY DEF CronInv, SearchTyped, AcceptExpression
  <1>2. /\ IsTime(t) /\ t \in Times
        /\ MinuteNumber(t) = MinuteNumber(query.start) + 1 /\ MinuteNumber(query.start) \in Nat
    BY <1>1, StartIs, NextMinuteIs, TimeIs
  <1>3. \A f \in Fields : FieldValues(f) \subseteq Nat /\ \A v \in FieldValues(f) : v < Limits[f].size
    BY <1>1, ValuesAre
  <1>4. s \in [Fields -> SUBSET Int]
    BY <1>3
  <1>5. s[Hours] \subseteq 0..23 /\ s[Minutes] \subseteq 0..59
    <2>1. s[Hours] = FieldValues(Hours) /\ s[Minutes] = FieldValues(Minutes)
      BY LimitsAre
    <2>2. \A v \in FieldValues(Hours) : v \in Nat /\ v < 24
      BY <1>3, LimitsAre
    <2>3. \A v \in FieldValues(Minutes) : v \in Nat /\ v < 60
      BY <1>3, LimitsAre
    <2>4. QED BY <2>1, <2>2, <2>3
  <1> HIDE DEF t, s
  <1>6. search'.stage = "search" /\ search'.schedule = s /\ search'.at = t
    BY <1>1
  <1>7. SearchTyped'
    BY <1>1, <1>2, <1>4 DEF SearchTyped
  <1>8. NoneTo(MinuteNumber(search.at))'
    <2>1. ASSUME NEW d \in Dates, NEW h \in 0..23, NEW i \in 0..59, Scheduled(d, h, i)'
          PROVE  ~(MinuteNumber(query'.start) < Minute(DayNumber(d), h, i)
                    /\ Minute(DayNumber(d), h, i) < MinuteNumber(search'.at))
      <3>1. query.start.year <= d.year /\ d.day <= DaysIn(d.year, d.month) /\ d.year \in Nat
            /\ d.month \in 1..12 /\ d.day \in 1..31
        BY <1>1, <2>1 DEF Scheduled, Dates
      <3>2. query.start.year \in Nat /\ 2000 <= query.start.year
        BY <1>1, StartIs, TimeIs
      <3>3. DayNumber(d) \in Nat
        <4>1. IsDate(d)
          BY <3>1, <3>2 DEF IsDate
        <4>2. QED BY <4>1, DayIs
      <3> DEFINE x == Minute(DayNumber(d), h, i)
                 y == MinuteNumber(query.start)
      <3>4. x \in Nat
        BY <3>3, MinuteIs
      <3> HIDE DEF x, y
      <3>5. ~(y < x /\ x < y + 1)
        BY <1>2, <3>4 DEF y
      <3>6. QED BY <1>1, <1>2, <1>6, <3>5 DEF x, y
    <2>2. QED BY <2>1, Zenon DEF NoneTo
  <1>9. CameTo'
    BY <1>1, <1>2, <1>5, <1>6, <1>8 DEF CameTo
  <1>10. QED BY <1>6, <1>7, <1>9 DEF CronInv

(* The search goes on to a later time, with none that it wants in between. *)
LEMMA StepKeeps ==
  ASSUME CronInv, search.stage = "search", NEW t, IsTime(t),
         search' = [search EXCEPT !.at = t], query' = query,
         MinuteNumber(search.at) <= MinuteNumber(t),
         NoneFrom(MinuteNumber(search.at), MinuteNumber(t))
  PROVE  CronInv'
PROOF
  <1>1. /\ query \in Queries /\ CameTo /\ t \in Times
        /\ search \in [stage : {"parse", "rejected", "panicked", "search", "found", "gaveUp"},
                       schedule : [Fields -> SUBSET Int], at : Times]
    BY TimeIs DEF CronInv, SearchTyped
  <1>2. /\ search'.stage = "search" /\ search'.schedule = search.schedule /\ search'.at = t
        /\ search' \in [stage : {"parse", "rejected", "panicked", "search", "found", "gaveUp"},
                        schedule : [Fields -> SUBSET Int], at : Times]
    BY <1>1
  <1>3. SearchTyped'
    BY <1>1, <1>2 DEF SearchTyped
  <1> DEFINE y == MinuteNumber(query.start)
             z == MinuteNumber(search.at)
             e == MinuteNumber(t)
  <1>4. y \in Nat /\ z \in Nat /\ e \in Nat /\ y < z /\ z <= e
    BY <1>1, StartIs, TimeIs DEF CameTo
  <1>5. NoneTo(MinuteNumber(search.at))'
    <2>1. ASSUME NEW d \in Dates, NEW h \in 0..23, NEW i \in 0..59, Scheduled(d, h, i)'
          PROVE  ~(MinuteNumber(query'.start) < Minute(DayNumber(d), h, i)
                    /\ Minute(DayNumber(d), h, i) < MinuteNumber(search'.at))
      <3> DEFINE x == Minute(DayNumber(d), h, i)
      <3>1. Scheduled(d, h, i)
        BY SMTT(40), <1>2, <2>1 DEF Scheduled
      <3>2. x \in Nat
        BY ZenonT(60), <1>1, <3>1, ScheduledIs, MinuteIs
      <3>3. ~(y < x /\ x < z)
        BY <1>1, <3>1 DEF CameTo, NoneTo
      <3>4. ~(z <= x /\ x < e)
        BY <3>1 DEF NoneFrom
      <3> HIDE DEF x, y, z, e
      <3>5. ~(y < x /\ x < e)
        BY <1>4, <3>2, <3>3, <3>4
      <3>6. QED BY <1>2, <3>5 DEF x, y, z, e
    <2>2. QED BY <2>1, Zenon DEF NoneTo
  <1>6. MinuteNumber(query.start) < MinuteNumber(t)
    <2> HIDE DEF y, z, e
    <2>1. y < e
      BY <1>4
    <2>2. QED BY <2>1 DEF y, e
  <1>7. CameTo'
    BY <1>1, <1>2, <1>5, <1>6 DEF CameTo
  <1>8. QED BY <1>2, <1>3, <1>7 DEF CronInv

(* The minutes of one day, and the minute of a day, are of that day alone. *)
LEMMA DayOfMinute ==
  \A n \in Nat, g \in 0..23, j \in 0..59, k \in Nat, h \in 0..23, i \in 0..59 :
    /\ Minute(n, g, j) <= Minute(k, h, i) /\ Minute(k, h, i) < Minute(n + 1, 0, 0) => k = n
    /\ Minute(n, g, j) = Minute(k, h, i) => i = j
PROOF
  <1> TAKE n \in Nat, g \in 0..23, j \in 0..59, k \in Nat, h \in 0..23, i \in 0..59
  <1>1. Minute(n, g, j) = 1440 * n + 60 * g + j /\ Minute(k, h, i) = 1440 * k + 60 * h + i
        /\ Minute(n + 1, 0, 0) = 1440 * n + 1440
    BY DEF Minute
  <1>2. ASSUME k < n PROVE Minute(k, h, i) < Minute(n, g, j)
    <2>1. 1440 * k + 1440 <= 1440 * n
      BY <1>2
    <2>2. QED BY <1>1, <2>1
  <1>3. ASSUME n < k
        PROVE  Minute(n + 1, 0, 0) <= Minute(k, h, i) /\ Minute(n, g, j) < Minute(k, h, i)
    <2>1. 1440 * n + 1440 <= 1440 * k
      BY <1>3
    <2>2. QED BY <1>1, <2>1
  <1>4. ASSUME Minute(n, g, j) <= Minute(k, h, i), Minute(k, h, i) < Minute(n + 1, 0, 0)
        PROVE  k = n
    <2>1. Minute(n, g, j) \in Int /\ Minute(k, h, i) \in Int /\ Minute(n + 1, 0, 0) \in Int
      BY <1>1
    <2>2. ~(k < n) /\ ~(n < k)
      BY <1>2, <1>3, <1>4, <2>1
    <2>3. QED BY <2>2
  <1>5. ASSUME Minute(n, g, j) = Minute(k, h, i)
        PROVE  i = j
    <2>1. k = n
      BY <1>1, <1>2, <1>3, <1>5
    <2>2. QED BY <1>1, <1>5, <2>1
  <1>6. QED BY SMTT(40), <1>4, <1>5

(* What the four ways to go on skip.                                       *)
LEMMA SkipsKeep ==
  ASSUME CronInv, SkipMonth \/ SkipDay \/ SkipHour \/ SkipMinute
  PROVE  CronInv'
PROOF
  <1> DEFINE at == search.at
             n == DayNumber(at)
             g == at.hour
             j == at.minute
  <1>1. /\ query \in Queries /\ CameTo /\ search.stage = "search" /\ IsTime(at) /\ IsDate(at)
        /\ n \in Nat /\ g \in 0..23 /\ j \in 0..59 /\ MinuteNumber(at) = Minute(n, g, j)
        /\ at.year \in Nat /\ 2000 <= at.year /\ at.month \in 1..12
    <2>1. query \in Queries /\ search.stage = "search"
      BY DEF CronInv, SearchTyped, SkipMonth, SkipDay, SkipHour, SkipMinute, Searching
    <2>2. CameTo
      BY <2>1 DEF CronInv
    <2>3. IsTime(at)
      BY <2>2 DEF CameTo
    <2>4. QED BY <2>1, <2>2, <2>3, TimeIs
  <1>2. ASSUME NEW d \in Dates, NEW h \in 0..23, NEW i \in 0..59, Scheduled(d, h, i)
        PROVE  IsDate(d) /\ DayNumber(d) \in Nat
    BY <1>1, <1>2, ScheduledIs
  <1>3. CASE SkipMonth
    <2> DEFINE s == MonthStart(at.year, at.month)
               k == s + DaysIn(at.year, at.month)
               t == NextMonth(at)
    <2>1. /\ at.month \notin search.schedule[Months] /\ query' = query
          /\ search' = [search EXCEPT !.at = t]
      BY <1>3 DEF SkipMonth, HasMonth, StepTo
    <2>2. IsTime(t) /\ MinuteNumber(t) = Minute(k, 0, 0)
      BY <1>1, NextMonthIs
    <2>3. k \in Nat /\ s <= n /\ n < k
      <3>1. s \in Nat /\ DaysIn(at.year, at.month) \in Nat
        BY <1>1, MonthBounds
      <3>2. s <= n /\ n < k
        BY <1>1, DayIs
      <3>3. QED BY <3>1, <3>2
    <2>4. MinuteNumber(at) <= MinuteNumber(t)
      <3> HIDE DEF n, k, g, j
      <3>1. Minute(n, g, j) <= Minute(k, 0, 0)
        BY <1>1, <2>3 DEF Minute
      <3>2. QED BY <1>1, <2>2, <3>1
    <2>5. ASSUME NEW d \in Dates, NEW h \in 0..23, NEW i \in 0..59, Scheduled(d, h, i),
                 Minute(n, g, j) <= Minute(DayNumber(d), h, i),
                 Minute(DayNumber(d), h, i) < Minute(k, 0, 0)
          PROVE  FALSE
      <3>1. DayNumber(d) \in Nat /\ IsDate(d)
        BY <1>2, <2>5
      <3>2. n <= DayNumber(d) /\ DayNumber(d) < k
        <4> DEFINE q == DayNumber(d)
        <4>1. q \in Nat
          BY <3>1
        <4> HIDE DEF n, k, g, j, q
        <4>2. n <= q /\ q < k
          BY <1>1, <2>3, <2>5, <4>1 DEF Minute, q
        <4>3. QED BY <4>2 DEF q
      <3>3. s <= DayNumber(d)
        <4>1. s \in Nat
          BY <1>1, MonthBounds
        <4> HIDE DEF s, n, k
        <4>2. QED BY <1>1, <2>3, <3>1, <3>2, <4>1
      <3>4. d.month = at.month
        BY <1>1, <3>1, <3>2, <3>3, SameMonth
      <3>5. QED BY <2>1, <2>5, <3>4 DEF Scheduled
    <2>6. NoneFrom(MinuteNumber(at), MinuteNumber(t))
      <3>1. NoneFrom(Minute(n, g, j), Minute(k, 0, 0))
        BY <2>5, Zenon DEF NoneFrom
      <3>2. QED BY <1>1, <2>2, <3>1
    <2> HIDE DEF t, k, n, g, j
    <2>7. QED BY <1>1, <2>1, <2>2, <2>4, <2>6, StepKeeps
  <1>4. CASE SkipDay
    <2> DEFINE t == NextDay(at)
    <2>1. /\ ~HasDay /\ HasMonth /\ query' = query /\ search' = [search EXCEPT !.at = t]
      BY <1>4 DEF SkipDay, StepTo
    <2>2. IsTime(t) /\ MinuteNumber(t) = Minute(n + 1, 0, 0)
      BY <1>1, NextDayIs
    <2>3. MinuteNumber(at) <= MinuteNumber(t)
      <3> HIDE DEF n, g, j
      <3>1. Minute(n, g, j) <= Minute(n + 1, 0, 0)
        BY <1>1 DEF Minute
      <3>2. QED BY <1>1, <2>2, <3>1
    <2>4. ASSUME NEW d \in Dates, NEW h \in 0..23, NEW i \in 0..59, Scheduled(d, h, i),
                 Minute(n, g, j) <= Minute(DayNumber(d), h, i),
                 Minute(DayNumber(d), h, i) < Minute(n + 1, 0, 0)
          PROVE  FALSE
      <3>1. DayNumber(d) \in Nat /\ IsDate(d)
        BY SMTT(40), <1>2, <2>4
      <3>2. DayNumber(d) = n
        <4> DEFINE k == DayNumber(d)
        <4>1. k \in Nat
          BY <3>1
        <4> HIDE DEF k, n, g, j
        <4>2. Minute(n, g, j) <= Minute(k, h, i) /\ Minute(k, h, i) < Minute(n + 1, 0, 0)
          BY SMTT(40), <2>4 DEF k
        <4>3. k = n
          <5>1. n \in Nat /\ g \in 0..23 /\ j \in 0..59 /\ k \in Nat /\ h \in 0..23 /\ i \in 0..59
            BY <1>1, <2>4, <4>1
          <5>2. QED BY <4>2, <5>1, DayOfMinute
        <4>4. QED BY <4>3 DEF k
      <3>3. d.day = at.day
        BY <1>1, <3>1, <3>2, SameDay
      <3>4. Weekday(d) = Weekday(at)
        BY <3>2 DEF Weekday
      <3>5. QED BY <2>1, <2>4, <3>3, <3>4 DEF Scheduled, HasDay
    <2>5. NoneFrom(MinuteNumber(at), MinuteNumber(t))
      <3>1. NoneFrom(Minute(n, g, j), Minute(n + 1, 0, 0))
        BY <2>4, Zenon DEF NoneFrom
      <3>2. QED BY <1>1, <2>2, <3>1
    <2> HIDE DEF t, n, g, j
    <2>6. QED BY <1>1, <2>1, <2>2, <2>3, <2>5, StepKeeps
  <1>5. CASE SkipHour
    <2> DEFINE t == NextHour(at)
    <2>1. /\ g \notin search.schedule[Hours] /\ query' = query
          /\ search' = [search EXCEPT !.at = t]
      BY <1>5 DEF SkipHour, HasHour, StepTo
    <2>2. IsTime(t) /\ MinuteNumber(t) = Minute(n, g + 1, 0)
      BY <1>1, NextHourIs
    <2>3. MinuteNumber(at) <= MinuteNumber(t)
      <3> HIDE DEF n, g, j
      <3>1. Minute(n, g, j) <= Minute(n, g + 1, 0)
        BY <1>1 DEF Minute
      <3>2. QED BY <1>1, <2>2, <3>1
    <2>4. ASSUME NEW d \in Dates, NEW h \in 0..23, NEW i \in 0..59, Scheduled(d, h, i),
                 Minute(n, g, j) <= Minute(DayNumber(d), h, i),
                 Minute(DayNumber(d), h, i) < Minute(n, g + 1, 0)
          PROVE  FALSE
      <3> DEFINE k == DayNumber(d)
      <3>1. k \in Nat
        BY <1>2, <2>4
      <3> HIDE DEF k, n, g, j
      <3>2. k = n
        BY <1>1, <2>4, <3>1 DEF Minute, k
      <3>3. h = g
        BY <1>1, <2>4, <3>1, <3>2 DEF Minute, k
      <3>4. QED BY <2>1, <2>4, <3>3 DEF Scheduled
    <2>5. NoneFrom(MinuteNumber(at), MinuteNumber(t))
      <3>1. NoneFrom(Minute(n, g, j), Minute(n, g + 1, 0))
        BY <2>4, Zenon DEF NoneFrom
      <3>2. QED BY <1>1, <2>2, <3>1
    <2> HIDE DEF t, n, g, j
    <2>6. QED BY <1>1, <2>1, <2>2, <2>3, <2>5, StepKeeps
  <1>6. CASE SkipMinute
    <2> DEFINE t == NextMinute(at)
    <2>1. /\ j \notin search.schedule[Minutes] /\ query' = query
          /\ search' = [search EXCEPT !.at = t]
      BY <1>6 DEF SkipMinute, HasMinute, StepTo
    <2>2. IsTime(t) /\ MinuteNumber(t) = MinuteNumber(at) + 1 /\ MinuteNumber(at) \in Nat
      BY <1>1, NextMinuteIs, TimeIs
    <2>3. MinuteNumber(at) <= MinuteNumber(t)
      BY <2>2
    <2>4. ASSUME NEW d \in Dates, NEW h \in 0..23, NEW i \in 0..59, Scheduled(d, h, i),
                 MinuteNumber(at) <= Minute(DayNumber(d), h, i),
                 Minute(DayNumber(d), h, i) < MinuteNumber(t)
          PROVE  FALSE
      <3> DEFINE k == DayNumber(d)
                 x == Minute(k, h, i)
                 z == MinuteNumber(at)
      <3>1. k \in Nat
        BY SMTT(40), <1>2, <2>4
      <3>2. x = z
        <4>1. x \in Nat
          BY <3>1, MinuteIs
        <4>2. z \in Nat /\ z <= x /\ x < z + 1
          BY SMTT(40), <2>2, <2>4
        <4> HIDE DEF x, z
        <4>3. QED BY <4>1, <4>2
      <3> HIDE DEF k, n, g, j
      <3>3. i = j
        <4>1. Minute(n, g, j) = Minute(k, h, i)
          BY <1>1, <3>2
        <4>2. n \in Nat /\ g \in 0..23 /\ j \in 0..59 /\ k \in Nat /\ h \in 0..23 /\ i \in 0..59
          BY <1>1, <2>4, <3>1
        <4>3. QED BY <4>1, <4>2, DayOfMinute
      <3>4. QED BY <2>1, <2>4, <3>3 DEF Scheduled
    <2>5. NoneFrom(MinuteNumber(at), MinuteNumber(t))
      BY <2>4, Zenon DEF NoneFrom
    <2> HIDE DEF t, n, g, j
    <2>6. QED BY <1>1, <2>1, <2>2, <2>3, <2>5, StepKeeps
  <1>7. QED BY <1>3, <1>4, <1>5, <1>6

LEMMA CronKeeps == CronInv /\ [ScheduleNext]_scheduleVars => CronInv'
PROOF
  <1>1. ASSUME CronInv, NEW f \in Fields, RejectField(f) \/ PanicAtField(f) PROVE CronInv'
    <2>1. PICK stage \in {"rejected", "panicked"} :
            search' = [search EXCEPT !.stage = stage] /\ query' = query
      BY <1>1 DEF RejectField, PanicAtField, Ended
    <2>2. SearchTyped' /\ search'.stage = stage
      BY <1>1, <2>1 DEF CronInv, SearchTyped
    <2>3. QED BY <2>2 DEF CronInv
  <1>2. ASSUME CronInv, search.stage = "search", NEW stage \in {"found", "gaveUp"},
               search' = [search EXCEPT !.stage = stage], query' = query
        PROVE  /\ SearchTyped' /\ CameTo' /\ search'.stage = stage
               /\ search'.at = search.at /\ search'.schedule = search.schedule
    <2>1. SearchTyped' /\ search'.stage = stage /\ search'.at = search.at
          /\ search'.schedule = search.schedule
      BY SMTT(40), <1>2 DEF CronInv, SearchTyped
    <2>2. CameTo
      BY SMTT(40), <1>2 DEF CronInv
    <2>3. \A d, h, i : Scheduled(d, h, i)' <=> Scheduled(d, h, i)
      BY SMTT(40), <1>2, <2>1 DEF Scheduled
    <2>4. NoneTo(MinuteNumber(search.at))' <=> NoneTo(MinuteNumber(search.at))
      BY <1>2, <2>1, <2>3 DEF NoneTo
    <2>5. QED BY <1>2, <2>1, <2>2, <2>4 DEF CameTo
  <1>3. ASSUME CronInv, Find PROVE CronInv'
    <2>1. /\ search.stage = "search" /\ HasMonth /\ HasDay /\ HasHour /\ HasMinute
          /\ search' = [search EXCEPT !.stage = "found"] /\ query' = query
      BY <1>3 DEF Find, Searching, Ended
    <2>2. /\ SearchTyped' /\ CameTo' /\ search'.stage = "found"
          /\ search'.at = search.at /\ search'.schedule = search.schedule
      BY <1>2, <1>3, <2>1
    <2>3. HasMonth' /\ HasDay' /\ HasHour' /\ HasMinute'
      BY <2>1, <2>2 DEF HasMonth, HasDay, HasHour, HasMinute
    <2>4. QED BY <2>2, <2>3 DEF CronInv
  <1>4. ASSUME CronInv, GiveUpSearch PROVE CronInv'
    <2>1. /\ search.stage = "search" /\ ~Searching
          /\ search' = [search EXCEPT !.stage = "gaveUp"] /\ query' = query
      BY <1>4 DEF GiveUpSearch, Ended
    <2>2. /\ SearchTyped' /\ CameTo' /\ search'.stage = "gaveUp" /\ search'.at = search.at
      BY <1>2, <1>4, <2>1
    <2>3. Deadline <= MinuteNumber(search.at)
      <3>1. Deadline \in Int /\ MinuteNumber(search.at) \in Nat
        BY <1>4, <2>1, StartIs, TimeIs DEF CronInv, SearchTyped, CameTo
      <3>2. ~(MinuteNumber(search.at) < Deadline)
        BY <2>1 DEF Searching
      <3>3. QED BY <3>1, <3>2
    <2>4. Deadline' = Deadline
      BY <2>1 DEF Deadline
    <2>5. Deadline' <= MinuteNumber(search'.at)
      BY <2>2, <2>3, <2>4
    <2>6. QED BY <2>2, <2>5 DEF CronInv
  <1>5. ASSUME CronInv, UNCHANGED scheduleVars PROVE CronInv'
    <2>1. query' = query /\ search' = search
      BY SMTT(40), <1>5 DEF scheduleVars
    <2>2. \A d, h, i : Scheduled(d, h, i)' <=> Scheduled(d, h, i)
      BY SMTT(40), <2>1 DEF Scheduled
    <2>3. CameTo' <=> CameTo
      BY <2>1, <2>2 DEF CameTo, NoneTo
    <2>4. (HasMonth /\ HasDay /\ HasHour /\ HasMinute)' <=> HasMonth /\ HasDay /\ HasHour /\ HasMinute
      BY <2>1 DEF HasMonth, HasDay, HasHour, HasMinute
    <2>5. Deadline' = Deadline
      BY <2>1 DEF Deadline
    <2>6. SearchTyped'
      BY <1>5, <2>1 DEF CronInv, SearchTyped
    <2>7. QED BY <1>5, <2>1, <2>3, <2>4, <2>5, <2>6 DEF CronInv
  <1>6. QED BY <1>1, <1>3, <1>4, <1>5, AcceptKeeps, SkipsKeep DEF ScheduleNext

(* What has none before it has none of the dates that there are.           *)
LEMMA NoneBefore ==
  ASSUME query \in Queries, CameTo, NEW end \in Int, end <= MinuteNumber(search.at), NEW last
  PROVE  ~HasTimeBefore(end, last)
PROOF
  <1>1. SUFFICES ASSUME HasTimeBefore(end, last) PROVE FALSE
    OBVIOUS
  <1>2. PICK d \in DatesBetween(query.start.year, last),
             h \in search.schedule[Hours], i \in search.schedule[Minutes] :
          /\ MinuteNumber(query.start) < (DayNumber(d) * 24 + h) * 60 + i
          /\ (DayNumber(d) * 24 + h) * 60 + i < end
    BY <1>1 DEF HasTimeBefore
  <1>3. IsTime(query.start)
    BY StartIs
  <1>4. /\ d.year \in query.start.year..last /\ d.month \in 1..12 /\ d.day \in 1..31
        /\ d.month \in search.schedule[Months] /\ d.day \in search.schedule[Days]
        /\ d.day <= DaysIn(d.year, d.month) /\ Weekday(d) \in search.schedule[Weekdays]
        /\ d = [year |-> d.year, month |-> d.month, day |-> d.day]
    BY DEF DatesBetween
  <1>5. query.start.year \in Nat
    BY <1>3, TimeIs
  <1>6. d.year \in Nat /\ query.start.year <= d.year
    BY <1>4, <1>5
  <1>7. Scheduled(d, h, i)
    BY <1>4, <1>6 DEF Scheduled, Dates
  <1>8. h \in 0..23 /\ i \in 0..59 /\ DayNumber(d) \in Nat /\ d \in Dates
    BY SMTT(40), <1>7, ScheduledIs DEF Scheduled
  <1> DEFINE x == Minute(DayNumber(d), h, i)
             z == MinuteNumber(search.at)
  <1>9. x \in Nat /\ z \in Nat
    <2>1. x \in Nat
      BY ZenonT(60), <1>8, MinuteIs
    <2>2. z \in Nat
      BY TimeIs DEF CameTo
    <2>3. QED BY <2>1, <2>2
  <1>10. MinuteNumber(query.start) < x /\ x < end
    BY SMTT(40), <1>2 DEF Minute
  <1>11. ~(MinuteNumber(query.start) < x /\ x < z)
    BY <1>7, <1>8 DEF CameTo, NoneTo
  <1> HIDE DEF x, z
  <1>12. end <= z
    BY DEF z
  <1>13. QED BY <1>9, <1>10, <1>11, <1>12

LEMMA CronMeets == CronInv => NextIsFirst
PROOF
  <1> SUFFICES ASSUME CronInv PROVE NextIsFirst
    OBVIOUS
  <1>1. query \in Queries
    BY DEF CronInv, SearchTyped
  <1>2. ASSUME search.stage = "found"
        PROVE  /\ MinuteNumber(search.at) > MinuteNumber(query.start)
               /\ search.at.day <= DaysIn(search.at.year, search.at.month)
               /\ HasMonth /\ HasDay /\ HasHour /\ HasMinute
               /\ ~HasTimeBefore(MinuteNumber(search.at), search.at.year)
    <2>1. CameTo /\ HasMonth /\ HasDay /\ HasHour /\ HasMinute
      BY <1>2 DEF CronInv
    <2>2. IsTime(search.at) /\ MinuteNumber(search.at) \in Nat
          /\ MinuteNumber(query.start) < MinuteNumber(search.at)
          /\ MinuteNumber(query.start) \in Nat
          /\ search.at.day <= DaysIn(search.at.year, search.at.month)
      BY <1>1, <2>1, StartIs, TimeIs DEF CameTo
    <2>3. ~HasTimeBefore(MinuteNumber(search.at), search.at.year)
      <3> DEFINE z == MinuteNumber(search.at)
      <3>1. z \in Int /\ z <= MinuteNumber(search.at)
        BY <2>2
      <3> HIDE DEF z
      <3>2. ~HasTimeBefore(z, search.at.year)
        BY <1>1, <2>1, <3>1, NoneBefore
      <3>3. QED BY <3>2 DEF z
    <2>4. QED BY <2>1, <2>2, <2>3
  <1>3. ASSUME search.stage = "gaveUp"
        PROVE  ~HasTimeBefore(Deadline, query.start.year + 4)
    <2>1. CameTo /\ Deadline <= MinuteNumber(search.at) /\ Deadline \in Int
      BY <1>1, <1>3, StartIs DEF CronInv
    <2>2. QED BY <1>1, <2>1, NoneBefore
  <1>4. QED BY <1>2, <1>3 DEF NextIsFirst

(***************************************************************************)
(* Memories.  First what the operators on messages return.                 *)
(***************************************************************************)
LEMMA WithoutTable ==
  ASSUME NEW S, NEW msgs \in Seq(S), NEW known \in Seq(S)
  PROVE  \E f \in [0..Len(msgs) -> Seq(S)] :
           /\ f[0] = known
           /\ \A i \in 1..Len(msgs) :
                f[i] = IF msgs[i] \in Range(f[i - 1]) THEN f[i - 1]
                       ELSE Append(f[i - 1], msgs[i])
           /\ Without(msgs, known) = f[Len(msgs)]
PROOF
  <1> DEFINE n == Len(msgs)
             V == Seq(S)
             Next1(out, m) == IF m \in Range(out) THEN out ELSE Append(out, m)
             step == [i \in 1..n |-> [v \in V |-> Next1(v, msgs[i])]]
             Is(g) == g = [s \in SUBSET DOMAIN msgs |->
                             IF s = {} THEN known
                             ELSE LET x == Max(s) IN Next1(g[s \ {x}], msgs[x])]
             fold == CHOOSE g : Is(g)
  <1>1. Without(msgs, known) = fold[DOMAIN msgs]
    BY DEF Without, FoldLeft, MapThenFoldSet
  <1>2. /\ n \in Nat /\ DOMAIN msgs = 1..n /\ known \in V
        /\ \A i \in 1..n, v \in V : Next1(v, msgs[i]) \in V
    OBVIOUS
  <1> HIDE DEF n, V, Next1
  <1>3. step \in [1..n -> [V -> V]] /\ \A i \in 1..n, v \in V : step[i][v] = Next1(v, msgs[i])
    BY <1>2
  <1>4. Is(fold)
    <2> HIDE DEF step
    <2>1. PICK g \in [SUBSET (1..n) -> V] : IsSetTable(g, n, known, step)
      <3>1. n \in Nat /\ known \in V /\ step \in [1..n -> [V -> V]]
        BY <1>2, <1>3
      <3>2. QED BY <3>1, SetTable
    <2>2. ASSUME NEW t \in SUBSET (1..n)
          PROVE  g[t] = IF t = {} THEN known ELSE Next1(g[t \ {Max(t)}], msgs[Max(t)])
      <3>1. CASE t = {}
        BY <2>1, <3>1 DEF IsSetTable
      <3>2. CASE t # {}
        <4>1. Max(t) \in t /\ t \ {Max(t)} \in SUBSET (1..n)
          BY <1>2, <3>2, MaxUpTo
        <4>2. Max(t) \in 1..n /\ g[t \ {Max(t)}] \in V
          BY <4>1
        <4>3. QED BY <1>3, <2>1, <3>2, <4>2 DEF IsSetTable
      <3>3. QED BY <3>1, <3>2
    <2>3. Is(g)
      BY <1>2, <2>2
    <2> HIDE DEF Is
    <2>4. QED BY <2>3
  <1>5. \A t \in SUBSET (1..n) :
          fold[t] = IF t = {} THEN known ELSE Next1(fold[t \ {Max(t)}], msgs[Max(t)])
    <2> DEFINE F(t) == IF t = {} THEN known ELSE Next1(fold[t \ {Max(t)}], msgs[Max(t)])
    <2>1. fold = [t \in SUBSET (1..n) |-> F(t)]
      BY <1>2, <1>4
    <2> HIDE DEF fold, F
    <2>2. \A t \in SUBSET (1..n) : fold[t] = F(t)
      BY <2>1
    <2>3. QED BY <2>2 DEF F
  <1> HIDE DEF fold, step
  <1>6. fold[{}] = known
    BY <1>5
  <1>7. ASSUME NEW k \in 1..n, fold[1..(k - 1)] \in V
        PROVE  fold[1..k] = step[k][fold[1..(k - 1)]]
    <2>1. /\ 1..k \in SUBSET (1..n) /\ 1..k # {}
          /\ Max(1..k) = k /\ (1..k) \ {k} = 1..(k - 1)
      BY <1>2, FirstPlaces
    <2>2. fold[1..k] = Next1(fold[1..(k - 1)], msgs[k])
      BY <1>5, <2>1
    <2>3. QED BY <1>3, <1>7, <2>2
  <1>8. PICK f \in [0..n -> V] : IsTable(f, n, known, step) /\ fold[1..n] = f[n]
    <2>1. /\ n \in Nat /\ known \in V /\ step \in [1..n -> [V -> V]]
          /\ IsFold(fold, n, V, known, step)
      BY <1>2, <1>3, <1>6, <1>7 DEF IsFold
    <2>2. QED BY <2>1, FoldTable
  <1>9. \A i \in 1..n : i - 1 \in 0..n
    BY <1>2
  <1>10. /\ f[0] = known /\ Without(msgs, known) = f[n]
         /\ \A i \in 1..n : f[i] = Next1(f[i - 1], msgs[i])
    BY <1>1, <1>2, <1>3, <1>8, <1>9 DEF IsTable
  <1>11. QED BY <1>10 DEF n, V, Next1

(* Without keeps what is known, and of the rest the first of equal ones.   *)
LEMMA WithoutIs ==
  ASSUME NEW S, NEW msgs \in Seq(S), NEW known \in Seq(S)
  PROVE  /\ Without(msgs, known) \in Seq(S)
         /\ Range(Without(msgs, known)) = Range(known) \cup Range(msgs)
         /\ IsInjective(known) => IsInjective(Without(msgs, known))
PROOF
  <1> DEFINE n == Len(msgs)
  <1>1. PICK f \in [0..n -> Seq(S)] :
               /\ f[0] = known
               /\ \A i \in 1..n :
                    f[i] = IF msgs[i] \in Range(f[i - 1]) THEN f[i - 1]
                           ELSE Append(f[i - 1], msgs[i])
               /\ Without(msgs, known) = f[n]
    BY SMTT(40), WithoutTable
  <1> DEFINE Has(k) == /\ Range(f[k]) = Range(known) \cup {msgs[j] : j \in 1..k}
                       /\ IsInjective(known) => IsInjective(f[k])
             N == {k \in 0..n : Has(k)}
  <1>2. n \in Nat /\ \A i \in 1..n : msgs[i] \in S
    OBVIOUS
  <1>3. Has(0)
    BY <1>1
  <1>4. ASSUME NEW k \in Nat, k < n, Has(k) PROVE Has(k + 1)
    <2> DEFINE i == k + 1
    <2>1. i \in 1..n /\ i - 1 = k /\ f[k] \in Seq(S) /\ msgs[i] \in S
      BY <1>2, <1>4
    <2>2. {msgs[j] : j \in 1..i} = {msgs[j] : j \in 1..k} \cup {msgs[i]}
      BY <1>2, <1>4
    <2> HIDE DEF i
    <2>3. Range(f[k]) = Range(known) \cup {msgs[j] : j \in 1..k}
      BY <1>4
    <2>4. CASE msgs[i] \in Range(f[k])
      <3>1. f[i] = f[k]
        BY <1>1, <2>1, <2>4
      <3>2. Has(i)
        BY <1>4, <2>2, <2>3, <2>4, <3>1
      <3>3. QED BY <3>2 DEF i
    <2>5. CASE msgs[i] \notin Range(f[k])
      <3>1. f[i] = Append(f[k], msgs[i])
        BY <1>1, <2>1, <2>5
      <3>2. Range(f[i]) = Range(f[k]) \cup {msgs[i]}
        BY <2>1, <3>1, RangeAppend
      <3>3. IsInjective(f[k]) => IsInjective(f[i])
        BY <2>1, <2>5, <3>1, InjectiveAppend
      <3>4. Has(i)
        BY <1>4, <2>2, <2>3, <3>2, <3>3
      <3>5. QED BY <3>4 DEF i
    <2>6. QED BY <2>4, <2>5
  <1> HIDE DEF Has
  <1>5. \A k \in 0..n : k \in N
    <2>1. 0 \in N /\ \A k \in Nat : k < n /\ k \in N => k + 1 \in N
      BY <1>2, <1>3, <1>4
    <2> HIDE DEF N, n
    <2>2. QED BY <1>2, <2>1, Induction
  <1>6. Has(n) /\ f[n] \in Seq(S) /\ DOMAIN msgs = 1..n
    <2>1. n \in 0..n
      BY <1>2
    <2>2. QED BY <1>5, <2>1
  <1>7. QED BY ZenonT(60), <1>1, <1>6 DEF Has, Range

(* The last of a sequence, and its first.                                  *)
LEMMA LastOnes ==
  ASSUME NEW S, NEW x \in Seq(S), NEW n \in Nat \ {0}, n <= Len(x)
  PROVE  /\ AtMost(n, x) \in Seq(S) /\ Len(AtMost(n, x)) = n
         /\ \A i \in 1..n : AtMost(n, x)[i] = x[Len(x) - n + i] /\ Len(x) - n + i \in 1..Len(x)
PROOF
  <1> DEFINE m == Len(x) - n + 1
  <1>1. m \in 1..Len(x) /\ Len(x) \in Nat /\ Len(x) = m + n - 1
    OBVIOUS
  <1>2. CASE Len(x) > n
    <2>1. AtMost(n, x) = SubSeq(x, m, Len(x))
      BY <1>2 DEF AtMost
    <2> HIDE DEF m
    <2>2. /\ SubSeq(x, m, Len(x)) \in Seq(S) /\ Len(SubSeq(x, m, Len(x))) = n
          /\ \A i \in 1..n : SubSeq(x, m, Len(x))[i] = x[m + i - 1] /\ m + i - 1 \in 1..Len(x)
      BY <1>1
    <2>3. \A i \in 1..n : m + i - 1 = Len(x) - n + i
      BY <1>1
    <2>4. QED BY <2>1, <2>2, <2>3
  <1>3. CASE Len(x) = n
    <2>1. AtMost(n, x) = x
      BY <1>1, <1>3 DEF AtMost
    <2>2. QED BY <1>1, <1>3, <2>1
  <1>4. Len(x) > n \/ Len(x) = n
    <2> DEFINE l == Len(x)
    <2>1. l \in Nat /\ n \in Nat /\ n <= l
      OBVIOUS
    <2> HIDE DEF l
    <2>2. l > n \/ l = n
      BY <2>1
    <2>3. QED BY <2>2 DEF l
  <1>5. QED BY <1>2, <1>3, <1>4

LEMMA AtMostIs ==
  ASSUME NEW S, NEW x \in Seq(S), NEW n \in Nat
  PROVE  /\ AtMost(n, x) \in Seq(S) /\ Range(AtMost(n, x)) \subseteq Range(x)
         /\ n > 0 => Len(AtMost(n, x)) <= n
         /\ First(n, x) \in Seq(S)
         /\ n > 0 => Len(First(n, x)) <= n
PROOF
  <1>1. CASE n > 0 /\ Len(x) > n
    <2>1. /\ AtMost(n, x) \in Seq(S) /\ Len(AtMost(n, x)) = n
          /\ \A i \in 1..n : AtMost(n, x)[i] = x[Len(x) - n + i] /\ Len(x) - n + i \in 1..Len(x)
      <3>1. n \in Nat \ {0} /\ n <= Len(x)
        BY <1>1
      <3>2. QED BY <3>1, LastOnes
    <2>2. First(n, x) \in Seq(S) /\ Len(First(n, x)) = n
      BY <1>1 DEF First
    <2>3. Range(AtMost(n, x)) \subseteq Range(x)
      <3> DEFINE z == AtMost(n, x)
      <3> HIDE DEF z
      <3>1. DOMAIN z = 1..n /\ DOMAIN x = 1..Len(x)
        BY <2>1 DEF z
      <3>2. \A i \in DOMAIN z : \E j \in DOMAIN x : z[i] = x[j]
        BY <2>1, <3>1 DEF z
      <3>3. Range(z) \subseteq Range(x)
        BY <3>2 DEF Range
      <3>4. QED BY <3>3 DEF z
    <2>4. QED BY <2>1, <2>2, <2>3
  <1>2. CASE ~(n > 0 /\ Len(x) > n)
    <2>1. AtMost(n, x) = x /\ First(n, x) = x /\ Len(x) \in Nat
      BY <1>2 DEF AtMost, First
    <2>2. QED BY <1>2, <2>1
  <1>3. QED BY <1>1, <1>2

LEMMA AtMostTwice ==
  ASSUME NEW S, NEW x \in Seq(S), NEW y \in Seq(S), NEW n \in Nat
  PROVE  AtMost(n, AtMost(n, x) \o y) = AtMost(n, x \o y)
PROOF
  <1>1. CASE n > 0 /\ Len(x) > n
    <2> DEFINE a == AtMost(n, x)
               ay == a \o y
               xy == x \o y
               u == AtMost(n, ay)
               w == AtMost(n, xy)
    <2>1. /\ Len(x) \in Nat /\ Len(y) \in Nat /\ n \in Nat \ {0}
          /\ n <= Len(x) /\ n <= n + Len(y) /\ n <= Len(x) + Len(y)
      BY <1>1
    <2>2. /\ a \in Seq(S) /\ Len(a) = n
          /\ \A i \in 1..n : a[i] = x[Len(x) - n + i]
      BY <2>1, LastOnes
    <2>3. /\ xy \in Seq(S) /\ Len(xy) = Len(x) + Len(y)
          /\ \A i \in 1..Len(x) : xy[i] = x[i]
          /\ \A i \in 1..Len(y) : xy[Len(x) + i] = y[i]
      OBVIOUS
    <2> HIDE DEF a, xy
    <2>4. /\ ay \in Seq(S) /\ Len(ay) = n + Len(y)
          /\ \A i \in 1..n : ay[i] = a[i]
          /\ \A i \in 1..Len(y) : ay[n + i] = y[i]
      <3>1. /\ ay \in Seq(S) /\ Len(ay) = Len(a) + Len(y)
            /\ \A i \in 1..Len(a) : ay[i] = a[i]
            /\ \A i \in 1..Len(y) : ay[Len(a) + i] = y[i]
        <4>1. a \in Seq(S)
          BY <2>2
        <4>2. QED BY <4>1
      <3>2. QED BY <2>2, <3>1
    <2> HIDE DEF ay
    <2>5. /\ u \in Seq(S) /\ Len(u) = n
          /\ \A i \in 1..n : u[i] = ay[n + Len(y) - n + i]
      <3>1. n \in Nat \ {0} /\ ay \in Seq(S) /\ n <= Len(ay)
        BY <2>1, <2>4
      <3>2. /\ u \in Seq(S) /\ Len(u) = n
            /\ \A i \in 1..n : u[i] = ay[Len(ay) - n + i]
        BY <3>1, LastOnes
      <3> HIDE DEF u
      <3>3. QED BY <2>4, <3>2
    <2>6. /\ w \in Seq(S) /\ Len(w) = n
          /\ \A i \in 1..n : w[i] = xy[Len(x) + Len(y) - n + i]
      <3>1. n \in Nat \ {0} /\ xy \in Seq(S) /\ n <= Len(xy)
        BY <2>1, <2>3
      <3>2. /\ w \in Seq(S) /\ Len(w) = n
            /\ \A i \in 1..n : w[i] = xy[Len(xy) - n + i]
        BY <3>1, LastOnes
      <3> HIDE DEF w
      <3>3. QED BY <2>3, <3>2
    <2> HIDE DEF u, w
    <2>7. ASSUME NEW i \in 1..n PROVE u[i] = w[i]
      <3> DEFINE j == n + Len(y) - n + i
                 k == Len(x) + Len(y) - n + i
      <3>1. u[i] = ay[j] /\ w[i] = xy[k]
        BY <2>5, <2>6
      <3>2. CASE Len(y) + i <= n
        <4>1. j \in 1..n /\ k \in 1..Len(x) /\ k = Len(x) - n + j
          BY <2>1, <3>2
        <4> HIDE DEF j, k
        <4>2. QED BY <2>2, <2>3, <2>4, <3>1, <4>1
      <3>3. CASE Len(y) + i > n
        <4> DEFINE l == Len(y) + i - n
        <4>1. l \in 1..Len(y) /\ j = n + l /\ k = Len(x) + l
          BY <2>1, <3>3
        <4> HIDE DEF j, k, l
        <4>2. QED BY <2>3, <2>4, <3>1, <4>1
      <3>4. QED BY <2>1, <3>2, <3>3
    <2>8. u = w
      BY <2>5, <2>6, <2>7, SeqEqual
    <2>9. QED BY <2>8 DEF u, w, a, ay, xy
  <1>2. CASE ~(n > 0 /\ Len(x) > n)
    <2>1. AtMost(n, x) = x
      BY <1>2 DEF AtMost
    <2>2. QED BY <2>1
  <1>3. QED BY <1>1, <1>2

(* What is told and held, and the invariant.                               *)
Utter == [role : {"user", "assistant"}, text : Texts]
Told == Utter \cup {Said("system", "summary")}
Session == [recent : Seq(Utter), summary : SUBSET Utter, counter : Nat]
Shelving == [session : People, msg : Utter]

(* A call is idle, or a run or a clear at one of the backends.             *)
MemoryCall ==
  [stage : {"idle", "running", "saving", "clearing", "deleting"}, who : People \cup {"nobody"},
   text : Texts \cup {"nothing"}, heard : Seq(Seq(Told)), at : Nat, msgs : Seq(Utter),
   left : Seq(Utter), found : SUBSET Told]

MemoryTyped ==
  /\ mind \in Minds
  /\ held \in [DOMAIN mind -> [People -> Session]]
  /\ shelf \in Seq(Shelving)
  /\ told \in [DOMAIN mind -> [People -> Seq(Utter)]]
  /\ ever \in [People -> Seq(Utter)]
  /\ caller \in [Callers -> MemoryCall]

(* What a session has.                                                     *)
Has(sess) == sess.summary \cup Range(sess.recent)

(* What a backend holds of a session was said in it, and has what it was   *)
(* given; all of it, and that only, if it is alone and calls kept apart.   *)
HeldIs(b, s) ==
  /\ Has(held[b][s]) \subseteq Range(ever[s])
  /\ mind[b].kind = "sliding" => AtMost(1, held[b][s].recent) = AtMost(1, told[b][s])
  /\ mind[b].kind = "summary" => Range(told[b][s]) \subseteq Has(held[b][s])
  /\ s \notin overlapped /\ Alone("sliding") =>
       held[b][s].recent = AtMost(mind[b].n, told[b][s])
  /\ s \notin overlapped /\ Alone("summary") => Has(held[b][s]) = Range(told[b][s])

(* What a run heard was said, and what it gives back ends with its turn.   *)
Hearing(call, past) ==
  call.stage = "running" =>
    /\ call.text \in Texts /\ call.heard # <<>>
    /\ \A i \in DOMAIN call.heard : \A m \in Range(call.heard[i]) : Spoken(m) => m \in past
Giving(call, past) ==
  call.stage = "saving" =>
    /\ call.text \in Texts /\ call.left # <<>>
    /\ Range(call.msgs) \subseteq past /\ Range(call.left) \subseteq past
    /\ \E pre \in Seq(Utter) : call.msgs = pre \o Turn(call.text)

(* What it heard of a memory that is alone is what that memory has.        *)
Fresh(call, sess) ==
  /\ call.stage = "running" =>
       /\ Alone("sliding") => call.heard[1] = sess.recent
       /\ Alone("summary") => call.heard[1] = Summed(sess) \o sess.recent
  /\ call.stage = "saving" =>
       /\ Alone("sliding") => call.msgs = sess.recent \o Turn(call.text)
       /\ Alone("summary") => Range(call.msgs) \subseteq Has(sess) \cup Range(Turn(call.text))

CallIs(c) ==
  caller[c].stage # "idle" =>
    /\ caller[c].who \in People
    /\ caller[c].at \in DOMAIN mind
    /\ Hearing(caller[c], Range(ever[caller[c].who]))
    /\ Giving(caller[c], Range(ever[caller[c].who]))
    /\ caller[c].who \notin overlapped => Fresh(caller[c], held[1][caller[c].who])

(* Two calls of a session that never overlapped are one.                   *)
Apart ==
  \A c, d \in Callers :
    caller[c].stage # "idle" /\ caller[d].stage # "idle" /\ caller[c].who = caller[d].who
      => caller[c].who \in overlapped \/ c = d

(* What is in the store for a session was said in it, each message once.   *)
ShelfIs ==
  IsInjective(shelf) /\ \A e \in Range(shelf) : e.msg \in Range(ever[e.session])

MemoryInv ==
  /\ MemoryTyped
  /\ \A b \in DOMAIN mind, s \in People : HeldIs(b, s)
  /\ ShelfIs
  /\ \A c \in Callers : CallIs(c)
  /\ Apart

LEMMA MindIs ==
  ASSUME mind \in Minds
  PROVE  /\ mind \in Seq(Backends) /\ Len(mind) \in Nat /\ DOMAIN mind = 1..Len(mind)
         /\ 1 \in DOMAIN mind
         /\ \A b \in DOMAIN mind :
              mind[b].kind \in {"sliding", "summary", "vector"} /\ mind[b].n \in Nat \ {0}
PROOF
  <1>1. mind \in Seq(Backends) /\ mind # <<>>
    BY MindsAssumption
  <1>2. /\ Len(mind) \in Nat /\ DOMAIN mind = 1..Len(mind) /\ 1 \in 1..Len(mind)
        /\ \A b \in 1..Len(mind) : mind[b] \in Backends
    BY <1>1
  <1>3. \A m \in Backends : m.kind \in {"sliding", "summary", "vector"} /\ m.n \in Nat \ {0}
    BY DEF Backends
  <1>4. QED BY <1>1, <1>2, <1>3

LEMMA BlankIs == Blank \in Session /\ Has(Blank) = {} /\ Blank.recent = <<>>
PROOF BY DEF Blank, Session, Has, Range

(* The empty sequence has nothing, and nothing comes last in it.           *)
LEMMA NoneIs == Range(<<>>) = {} /\ IsInjective(<<>>) /\ \A k \in Nat : AtMost(k, <<>>) = <<>>
PROOF BY DEF Range, IsInjective, AtMost

LEMMA IdleIs == Idle \in MemoryCall /\ Idle.stage = "idle" /\ Idle.at = 1
PROOF
  <1>1. <<>> \in Seq(Utter) /\ <<>> \in Seq(Seq(Told)) /\ {} \in SUBSET Told /\ 1 \in Nat
    OBVIOUS
  <1>2. QED BY <1>1 DEF Idle, MemoryCall

(* What was cleared is as at the start.                                    *)
LEMMA ClearedIs ==
  ASSUME NEW b \in DOMAIN mind, NEW s \in People, mind[b].n \in Nat,
         held[b][s] = Blank, told[b][s] = <<>>
  PROVE  HeldIs(b, s)
PROOF
  <1>1. 1 \in Nat
    OBVIOUS
  <1>2. AtMost(1, Blank.recent) = AtMost(1, <<>>)
        /\ Blank.recent = AtMost(mind[b].n, <<>>) /\ Has(Blank) = Range(<<>>)
    BY <1>1, NoneIs, BlankIs
  <1>3. QED BY <1>2, NoneIs, BlankIs DEF HeldIs

LEMMA MemoryStarts == MemoryInit => MemoryInv
PROOF
  <1> SUFFICES ASSUME MemoryInit PROVE MemoryInv
    OBVIOUS
  <1>1. mind \in Minds /\ \A b \in DOMAIN mind : mind[b].n \in Nat
    BY MindIs DEF MemoryInit
  <1>2. MemoryTyped
    BY BlankIs, IdleIs DEF MemoryTyped, MemoryInit
  <1>3. \A b \in DOMAIN mind, s \in People : held[b][s] = Blank /\ told[b][s] = <<>>
    BY DEF MemoryInit
  <1>4. \A b \in DOMAIN mind, s \in People : HeldIs(b, s)
    BY <1>1, <1>3, ClearedIs
  <1>5. shelf = <<>> /\ \A c \in Callers : caller[c].stage = "idle"
    BY IdleIs DEF MemoryInit
  <1>6. ShelfIs
    BY <1>5, NoneIs DEF ShelfIs
  <1>7. (\A c \in Callers : CallIs(c)) /\ Apart
    BY <1>5 DEF CallIs, Apart
  <1>8. QED BY <1>2, <1>4, <1>6, <1>7 DEF MemoryInv

(* What a memory knows of a session: messages of it, and a summary.        *)
Heard(s) == {m \in Told : Spoken(m) => m \in Range(ever[s])}

LEMMA HeldIsHeard ==
  ASSUME MemoryInv, NEW b \in DOMAIN mind, NEW s \in People
  PROVE  /\ held[b][s] \in Session
         /\ held[b][s].recent \in Seq(Utter) /\ held[b][s].summary \subseteq Utter
         /\ held[b][s].recent \in Seq(Heard(s))
         /\ Summed(held[b][s]) \in Seq(Heard(s))
PROOF
  <1>1. held[b][s] \in Session
    BY DEF MemoryInv, MemoryTyped
  <1>2. held[b][s].recent \in Seq(Utter) /\ held[b][s].summary \subseteq Utter
    BY <1>1 DEF Session
  <1>3. Range(held[b][s].recent) \subseteq Heard(s)
    BY SMTT(40), <1>2, RangeOf DEF MemoryInv, HeldIs, Has, Heard, Told
  <1>4. Said("system", "summary") \in Heard(s)
    BY DEF Heard, Told, Spoken, Said
  <1>5. QED BY <1>1, <1>2, <1>3, <1>4, SeqWithin DEF Summed

(* The entries that are picked are no fewer than the messages in them.     *)
LEMMA MineIs ==
  ASSUME MemoryInv, NEW s \in People, NEW k \in Nat, NEW picks \in Nearest(k)
  PROVE  /\ Mine(s, picks) \subseteq Heard(s) /\ IsFiniteSet(Mine(s, picks))
         /\ Cardinality(Mine(s, picks)) \in Nat /\ Cardinality(Mine(s, picks)) <= k
PROOF
  <1> DEFINE D == DOMAIN shelf
             T == {j \in picks : shelf[j].session = s}
             f == [i \in T |-> shelf[i].msg]
             M == Mine(s, picks)
  <1>1. shelf \in Seq(Shelving) /\ D = 1..Len(shelf) /\ Len(shelf) \in Nat
    BY DEF MemoryInv, MemoryTyped
  <1>2. picks \in SUBSET D /\ Cardinality(picks) = IF k < Len(shelf) THEN k ELSE Len(shelf)
    BY DEF Nearest
  <1>3. IsFiniteSet(D)
    BY <1>1, FS_Interval
  <1>4. IsFiniteSet(picks) /\ Cardinality(picks) \in Nat
    BY <1>2, <1>3, FS_Subset, FS_CardinalityType
  <1>5. Cardinality(picks) <= k
    BY <1>1, <1>2
  <1>6. IsFiniteSet(T) /\ Cardinality(T) <= Cardinality(picks) /\ Cardinality(T) \in Nat
    <2>1. T \in SUBSET picks
      OBVIOUS
    <2>2. QED BY <1>4, <2>1, FS_Subset, FS_CardinalityType
  <1>7. f \in Surjection(T, M)
    BY DEF Surjection, Mine
  <1>8. IsFiniteSet(M) /\ Cardinality(M) <= Cardinality(T) /\ Cardinality(M) \in Nat
    <2> HIDE DEF f, T, M
    <2>1. QED BY <1>6, <1>7, FS_Surjection, FS_CardinalityType
  <1>9. M \subseteq Heard(s)
    <2>1. ASSUME NEW i \in T PROVE shelf[i].msg \in Heard(s)
      <3>1. shelf[i] \in Range(shelf) /\ shelf[i] \in Shelving /\ shelf[i].session = s
        BY <1>1, <1>2 DEF Range
      <3>2. shelf[i].msg \in Range(ever[s]) /\ shelf[i].msg \in Utter
        BY <3>1 DEF MemoryInv, ShelfIs, Shelving
      <3>3. QED BY <3>2 DEF Heard, Told
    <2>2. QED BY <2>1 DEF Mine
  <1> HIDE DEF T, M, f
  <1>10. Cardinality(M) <= k
    BY <1>4, <1>5, <1>6, <1>8
  <1>11. QED BY <1>8, <1>9, <1>10 DEF M

LEMMA RecallsAre ==
  ASSUME MemoryInv, NEW b \in DOMAIN mind, NEW s \in People, NEW sought \in BOOLEAN,
         NEW limit \in Nat, NEW found \in Recalls(b, s, sought, limit)
  PROVE  found \in Seq(Heard(s)) /\ (limit > 0 => Len(found) <= limit)
PROOF
  <1>1. mind[b].kind \in {"sliding", "summary", "vector"} /\ mind[b].n \in Nat \ {0}
    BY MindIs DEF MemoryInv, MemoryTyped
  <1>2. held[b][s].recent \in Seq(Heard(s)) /\ Summed(held[b][s]) \in Seq(Heard(s))
    BY HeldIsHeard
  <1>3. CASE mind[b].kind = "sliding"
    <2>1. found = AtMost(limit, held[b][s].recent)
      BY <1>3 DEF Recalls
    <2>2. QED BY <1>2, <2>1, AtMostIs
  <1>4. CASE mind[b].kind = "summary"
    <2> DEFINE all == Summed(held[b][s]) \o held[b][s].recent
    <2>1. found = AtMost(limit, all)
      BY <1>4 DEF Recalls
    <2>2. all \in Seq(Heard(s))
      BY <1>2
    <2> HIDE DEF all
    <2>3. QED BY <2>1, <2>2, AtMostIs
  <1>5. CASE mind[b].kind = "vector"
    <2>1. found \in IF ~sought THEN {<<>>}
                    ELSE {SetToSeq(Mine(s, picks)) : picks \in Nearest(TopK(b, limit))}
      BY <1>5 DEF Recalls
    <2>2. CASE ~sought
      <3>1. found = <<>>
        BY <2>1, <2>2
      <3>2. QED BY <3>1
    <2>3. CASE sought
      <3>1. PICK picks \in Nearest(TopK(b, limit)) : found = SetToSeq(Mine(s, picks))
        BY <2>1, <2>3
      <3>2. TopK(b, limit) \in Nat /\ (limit > 0 => TopK(b, limit) <= limit)
        BY <1>1 DEF TopK
      <3>3. /\ Mine(s, picks) \subseteq Heard(s) /\ IsFiniteSet(Mine(s, picks))
            /\ Cardinality(Mine(s, picks)) \in Nat
            /\ Cardinality(Mine(s, picks)) <= TopK(b, limit)
        BY <3>1, <3>2, MineIs
      <3>4. found \in Seq(Heard(s)) /\ Len(found) = Cardinality(Mine(s, picks))
        BY <3>1, <3>3, SetToSeqIs
      <3>5. QED BY <3>2, <3>3, <3>4
    <2>4. QED BY <2>2, <2>3
  <1>6. QED BY <1>1, <1>3, <1>4, <1>5

LEMMA AnswersAre ==
  ASSUME MemoryInv, NEW s \in People, NEW sought \in BOOLEAN,
         NEW limit \in Nat, NEW found \in Answered(s, sought, limit)
  PROVE  /\ found \in Seq(Heard(s)) /\ (limit > 0 => Len(found) <= limit)
         /\ Len(mind) = 1 => found \in Recalls(1, s, sought, limit)
PROOF
  <1>1. PICK answers :
          /\ answers \in [DOMAIN mind -> UNION {Recalls(b, s, sought, limit) : b \in DOMAIN mind}]
          /\ \A b \in DOMAIN mind : answers[b] \in Recalls(b, s, sought, limit)
          /\ found = IF Len(mind) = 1 THEN answers[1] ELSE First(limit, Merged(answers))
    BY DEF Answered
  <1>2. Len(mind) \in Nat /\ DOMAIN mind = 1..Len(mind)
    BY MindIs DEF MemoryInv, MemoryTyped
  <1> DEFINE S == Heard(s)
  <1>3. \A b \in DOMAIN mind : answers[b] \in Seq(S)
    BY <1>1, RecallsAre
  <1>4. CASE Len(mind) = 1
    <2>1. 1 \in DOMAIN mind /\ found = answers[1]
      BY <1>1, <1>2, <1>4
    <2>2. found \in Recalls(1, s, sought, limit)
      BY <1>1, <2>1
    <2>3. QED BY <2>1, <2>2, RecallsAre
  <1>5. CASE Len(mind) # 1
    <2>1. answers \in Seq(Seq(S))
      <3> HIDE DEF S
      <3>1. DOMAIN answers = 1..Len(mind) /\ answers = [b \in DOMAIN answers |-> answers[b]]
        BY <1>1, <1>2
      <3>2. \A b \in 1..Len(mind) : answers[b] \in Seq(S)
        BY <1>2, <1>3
      <3>3. QED BY <1>2, <3>1, <3>2
    <2> HIDE DEF S
    <2>2. FlattenSeq(answers) \in Seq(S) /\ <<>> \in Seq(S)
      BY <2>1, FlattenAppend
    <2>3. Merged(answers) \in Seq(S)
      BY <2>2, WithoutIs DEF Merged
    <2>4. found = First(limit, Merged(answers))
      BY <1>1, <1>5
    <2>5. found \in Seq(S) /\ (limit > 0 => Len(found) <= limit)
      BY <2>3, <2>4, AtMostIs
    <2>6. QED BY <1>5, <2>5 DEF S
  <1>6. QED BY <1>4, <1>5

(* What is not of the system is selected.                                  *)
LEMMA SpokenIs ==
  ASSUME NEW x \in Seq(Told)
  PROVE  /\ Selected(x, Spoken) \in Seq(Utter)
         /\ Range(Selected(x, Spoken)) = Range(x) \cap Utter
         /\ Range(x) \subseteq Utter => Selected(x, Spoken) = x
         /\ \A y \in Seq(Told) :
              Selected(x \o y, Spoken) = Selected(x, Spoken) \o Selected(y, Spoken)
PROOF
  <1>1. \A m \in Told : Spoken(m) <=> m \in Utter
    BY DEF Told, Utter, Spoken, Said
  <1>2. \A y \in Seq(Told) : Selected(y, Spoken) = Among(y, Utter)
    <2> SUFFICES ASSUME NEW y \in Seq(Told) PROVE Selected(y, Spoken) = Among(y, Utter)
      OBVIOUS
    <2> DEFINE f == [i \in DOMAIN y |-> IF Spoken(y[i]) THEN <<y[i]>> ELSE <<>>]
               g == [i \in DOMAIN y |-> IF y[i] \in Utter THEN <<y[i]>> ELSE <<>>]
    <2>1. Selected(y, Spoken) = FlattenSeq(f) /\ Among(y, Utter) = FlattenSeq(g)
      BY DEF Among, Selected
    <2>2. \A i \in DOMAIN y : y[i] \in Told
      OBVIOUS
    <2>3. f = g
      BY <1>1, <2>2
    <2> HIDE DEF f, g
    <2>4. QED BY <2>1, <2>3
  <1>3. Among(x, Utter) \in Seq(Told) /\ Range(Among(x, Utter)) = Range(x) \cap Utter
    BY AmongTyped, AmongRange
  <1>4. Among(x, Utter) \in Seq(Utter)
    BY <1>3, SeqWithin
  <1>5. Range(x) \subseteq Utter => Among(x, Utter) = x
    BY AmongAll
  <1>6. ASSUME NEW y \in Seq(Told)
        PROVE  Selected(x \o y, Spoken) = Selected(x, Spoken) \o Selected(y, Spoken)
    <2>1. x \o y \in Seq(Told)
      OBVIOUS
    <2>2. Among(x \o y, Utter) = Among(x, Utter) \o Among(y, Utter)
      BY AmongConcat
    <2>3. QED BY <1>2, <2>1, <2>2
  <1>7. QED BY <1>2, <1>3, <1>4, <1>5, <1>6

(* Nothing is lost of what a summary has when it is made anew.             *)
LEMMA CompressedIs ==
  ASSUME NEW sess \in Session, Len(sess.recent) > 2
  PROVE  Compressed(sess) \in Session /\ Has(Compressed(sess)) = Has(sess)
PROOF
  <1> DEFINE r == sess.recent
             l == Len(r)
             keep == AtMost(2, r)
             old == SubSeq(r, 1, l - 2)
  <1>1. r \in Seq(Utter) /\ l \in Nat /\ l > 2 /\ DOMAIN r = 1..l /\ sess.summary \subseteq Utter
    BY DEF Session
  <1>2. /\ keep \in Seq(Utter) /\ Len(keep) = 2
        /\ \A i \in 1..2 : keep[i] = r[l - 2 + i]
    <2> DEFINE n == 2
    <2>1. n \in Nat \ {0} /\ n <= Len(r) /\ r \in Seq(Utter)
      BY <1>1
    <2> HIDE DEF r, n
    <2>2. /\ AtMost(n, r) \in Seq(Utter) /\ Len(AtMost(n, r)) = n
          /\ \A i \in 1..n : AtMost(n, r)[i] = r[Len(r) - n + i]
      BY <2>1, LastOnes
    <2>3. QED BY <2>2 DEF n
  <1> HIDE DEF r
  <1>3. old \in Seq(Utter) /\ Len(old) = l - 2 /\ \A i \in 1..(l - 2) : old[i] = r[i]
    <2> DEFINE k == l - 2
    <2>1. k \in Nat /\ k <= l /\ l = Len(r) /\ \A i \in 1..k : r[i] \in Utter
      BY <1>1
    <2> HIDE DEF k, l
    <2>2. SubSeq(r, 1, k) \in Seq(Utter) /\ Len(SubSeq(r, 1, k)) = k
          /\ \A i \in 1..k : SubSeq(r, 1, k)[i] = r[i]
      BY <1>1, <2>1
    <2>3. QED BY <2>2 DEF k
  <1> HIDE DEF keep, old, l
  <1>4. DOMAIN keep = 1..2 /\ DOMAIN old = 1..(l - 2)
    BY <1>2, <1>3
  <1>5. Range(keep) \cup Range(old) = Range(r)
    <2>1. ASSUME NEW i \in 1..l PROVE r[i] \in Range(keep) \cup Range(old)
      <3>1. CASE i <= l - 2
        <4>1. i \in 1..(l - 2)
          BY <1>1, <3>1
        <4>2. QED BY <1>3, <1>4, <4>1 DEF Range
      <3>2. CASE i > l - 2
        <4> DEFINE j == i - (l - 2)
        <4>1. j \in 1..2 /\ i = l - 2 + j
          BY <1>1, <3>2
        <4> HIDE DEF j
        <4>2. QED BY <1>2, <1>4, <4>1 DEF Range
      <3>3. QED BY <1>1, <3>1, <3>2
    <2>2. ASSUME NEW i \in 1..2 PROVE keep[i] \in Range(r)
      <3>1. l - 2 + i \in 1..l
        BY <1>1
      <3>2. QED BY <1>1, <1>2, <3>1 DEF Range
    <2>3. ASSUME NEW i \in 1..(l - 2) PROVE old[i] \in Range(r)
      <3>1. i \in 1..l
        BY <1>1
      <3>2. QED BY <1>1, <1>3, <3>1 DEF Range
    <2>4. Range(r) \subseteq Range(keep) \cup Range(old)
      BY <1>1, <2>1 DEF Range
    <2>5. Range(keep) \subseteq Range(r) /\ Range(old) \subseteq Range(r)
      BY <1>4, <2>2, <2>3 DEF Range
    <2>6. QED BY <2>4, <2>5
  <1>6. Range(old) \subseteq Utter
    BY <1>3, RangeOf
  <1>7. Compressed(sess) = [recent |-> keep, summary |-> sess.summary \cup Range(old), counter |-> 0]
    BY DEF Compressed, keep, old, l, r
  <1>8. Compressed(sess) \in Session
    BY <1>1, <1>2, <1>6, <1>7 DEF Session
  <1>9. Has(sess) = sess.summary \cup Range(r)
    BY DEF Has, r
  <1>10. Has(Compressed(sess)) = sess.summary \cup Range(old) \cup Range(keep)
    BY <1>7 DEF Has
  <1>11. QED BY <1>5, <1>8, <1>9, <1>10

LEMMA AppendedHas ==
  ASSUME NEW sess \in Session, NEW msgs \in Seq(Utter)
  PROVE  /\ Appended(sess, msgs) \in Session
         /\ Has(Appended(sess, msgs)) = Has(sess) \cup Range(msgs)
PROOF
  <1> DEFINE r == sess.recent \o msgs
             c == sess.counter + Len(msgs)
             more == [[sess EXCEPT !.recent = r] EXCEPT !.counter = c]
  <1>1. Appended(sess, msgs) = more
    BY DEF Appended, Session
  <1>2. sess.recent \in Seq(Utter) /\ sess.counter \in Nat /\ Len(msgs) \in Nat
    BY DEF Session
  <1>3. r \in Seq(Utter) /\ Range(r) = Range(sess.recent) \cup Range(msgs)
    BY <1>2, RangeConcat
  <1>4. c \in Nat
    BY <1>2
  <1> HIDE DEF r, c
  <1>5. more \in Session /\ more.recent = r /\ more.summary = sess.summary
    BY <1>3, <1>4 DEF Session
  <1> HIDE DEF more
  <1>6. QED BY <1>1, <1>3, <1>5 DEF Has

LEMMA KeptIs ==
  ASSUME mind \in Minds, NEW b \in DOMAIN mind, NEW sess \in Session, NEW msgs \in Seq(Utter),
         NEW fails \in BOOLEAN
  PROVE  /\ Kept(b, sess, msgs, fails) \in Session
         /\ Has(Kept(b, sess, msgs, fails)) \subseteq Has(sess) \cup Range(msgs)
         /\ mind[b].kind = "sliding" =>
              Kept(b, sess, msgs, fails).recent = AtMost(mind[b].n, msgs)
         /\ mind[b].kind = "summary" =>
              Has(Kept(b, sess, msgs, fails)) = Has(sess) \cup Range(msgs)
PROOF
  <1>1. mind[b].kind \in {"sliding", "summary", "vector"} /\ mind[b].n \in Nat \ {0}
    BY MindIs
  <1>2. CASE mind[b].kind = "sliding"
    <2> DEFINE last == AtMost(mind[b].n, msgs)
    <2>1. last \in Seq(Utter) /\ Range(last) \subseteq Range(msgs)
      BY <1>1, AtMostIs
    <2>2. Kept(b, sess, msgs, fails) = [sess EXCEPT !.recent = last]
      BY <1>2 DEF Kept
    <2> HIDE DEF last
    <2>3. /\ [sess EXCEPT !.recent = last] \in Session
          /\ [sess EXCEPT !.recent = last].recent = last
          /\ [sess EXCEPT !.recent = last].summary = sess.summary
      BY <2>1 DEF Session
    <2>4. QED BY <1>2, <2>1, <2>2, <2>3 DEF Has, last
  <1>3. CASE mind[b].kind = "summary"
    <2> DEFINE more == Appended(sess, msgs)
    <2>1. more \in Session /\ Has(more) = Has(sess) \cup Range(msgs)
      BY AppendedHas
    <2>2. Kept(b, sess, msgs, fails) =
            IF Due(more, mind[b].n) /\ ~fails THEN Compressed(more) ELSE more
      BY <1>3 DEF Kept
    <2> HIDE DEF more
    <2>3. CASE Due(more, mind[b].n) /\ ~fails
      <3>1. Len(more.recent) > 2
        BY <2>3 DEF Due
      <3>2. Compressed(more) \in Session /\ Has(Compressed(more)) = Has(more)
        BY <2>1, <3>1, CompressedIs
      <3>3. QED BY <1>3, <2>1, <2>2, <2>3, <3>2
    <2>4. CASE ~(Due(more, mind[b].n) /\ ~fails)
      BY <1>3, <2>1, <2>2, <2>4
    <2>5. QED BY <2>3, <2>4
  <1>4. CASE mind[b].kind = "vector"
    <2>1. Kept(b, sess, msgs, fails) = sess
      BY <1>4 DEF Kept
    <2>2. QED BY <1>4, <2>1
  <1>5. QED BY <1>1, <1>2, <1>3, <1>4

(* The entries of a session have what is stored, and each still once.      *)
LEMMA ShelvedIs ==
  ASSUME MemoryInv, NEW s \in People, NEW stored \in Seq(Utter)
  PROVE  /\ Shelved(s, stored) \in Seq(Shelving) /\ IsInjective(Shelved(s, stored))
         /\ \A e \in Range(Shelved(s, stored)) :
              e \in Range(shelf) \/ (e.session = s /\ e.msg \in Range(stored))
PROOF
  <1> DEFINE new == [i \in DOMAIN stored |-> [session |-> s, msg |-> stored[i]]]
  <1>1. DOMAIN stored = 1..Len(stored) /\ Len(stored) \in Nat
        /\ \A i \in DOMAIN stored : stored[i] \in Utter /\ stored[i] \in Range(stored)
    BY DEF Range
  <1>2. \A i \in DOMAIN stored : [session |-> s, msg |-> stored[i]] \in Shelving
    BY <1>1 DEF Shelving
  <1>3. new \in Seq(Shelving)
    BY <1>1, <1>2
  <1>4. \A e \in Range(new) : e.session = s /\ e.msg \in Range(stored)
    BY <1>1 DEF Range
  <1>5. shelf \in Seq(Shelving) /\ IsInjective(shelf) /\ Shelved(s, stored) = Without(new, shelf)
    BY DEF MemoryInv, MemoryTyped, ShelfIs, Shelved
  <1> HIDE DEF new
  <1>6. /\ Without(new, shelf) \in Seq(Shelving) /\ IsInjective(Without(new, shelf))
        /\ Range(Without(new, shelf)) = Range(shelf) \cup Range(new)
    BY <1>3, <1>5, WithoutIs
  <1>7. QED BY <1>4, <1>5, <1>6

(* What a run gives its memory: what it has of the session, and the turn.  *)
LEMMA GivenIs ==
  ASSUME MemoryInv, NEW s \in People, NEW turn \in Seq(Utter), NEW history \in Seq(Heard(s))
  PROVE  /\ Selected(history \o turn, Spoken) \in Seq(Utter)
         /\ \E pre \in Seq(Utter) : Selected(history \o turn, Spoken) = pre \o turn
         /\ Range(Selected(history \o turn, Spoken)) \subseteq Range(ever[s]) \cup Range(turn)
         /\ \A b \in DOMAIN mind :
              /\ history = held[b][s].recent =>
                   Selected(history \o turn, Spoken) = held[b][s].recent \o turn
              /\ history = Summed(held[b][s]) \o held[b][s].recent =>
                   Range(Selected(history \o turn, Spoken)) \subseteq Has(held[b][s]) \cup Range(turn)
PROOF
  <1> DEFINE mine == Selected(history, Spoken)
             msgs == Selected(history \o turn, Spoken)
  <1>1. history \in Seq(Heard(s))
    OBVIOUS
  <1>2. history \in Seq(Told) /\ Range(history) \subseteq Heard(s)
    <2>1. Range(history) \subseteq Heard(s)
      BY <1>1, RangeOf
    <2>2. Heard(s) \subseteq Told
      BY DEF Heard
    <2>3. QED BY <1>1, <2>1, <2>2, SeqWithin
  <1>3. turn \in Seq(Told) /\ Range(turn) \subseteq Utter
    <2>1. Range(turn) \subseteq Utter /\ Utter \subseteq Told
      BY RangeOf DEF Told
    <2>2. QED BY <2>1, SeqWithin
  <1>4. msgs = mine \o turn /\ mine \in Seq(Utter) /\ Range(mine) = Range(history) \cap Utter
    <2>1. /\ mine \in Seq(Utter) /\ Range(mine) = Range(history) \cap Utter
          /\ \A y \in Seq(Told) : Selected(history \o y, Spoken) = mine \o Selected(y, Spoken)
      BY <1>2, SpokenIs
    <2>2. Selected(turn, Spoken) = turn
      BY <1>3, SpokenIs
    <2>3. QED BY <1>3, <2>1, <2>2
  <1>5. msgs \in Seq(Utter) /\ Range(msgs) = Range(mine) \cup Range(turn)
    BY <1>4, RangeConcat
  <1>6. Range(mine) \subseteq Range(ever[s])
    <2>1. \A m \in Utter : Spoken(m)
      BY DEF Utter, Spoken
    <2>2. QED BY <1>2, <1>4, <2>1 DEF Heard
  <1>7. ASSUME NEW b \in DOMAIN mind PROVE held[b][s].recent \in Seq(Utter)
    BY HeldIsHeard
  <1>8. ASSUME NEW b \in DOMAIN mind, history = held[b][s].recent
        PROVE  msgs = held[b][s].recent \o turn
    <2>1. history = held[b][s].recent
      BY <1>8
    <2>2. Range(history) \subseteq Utter
      BY <1>7, <2>1, RangeOf
    <2>3. mine = history
      BY <1>2, <2>2, SpokenIs
    <2>4. QED BY <1>4, <2>1, <2>3
  <1>9. ASSUME NEW b \in DOMAIN mind, history = Summed(held[b][s]) \o held[b][s].recent
        PROVE  Range(mine) \subseteq Has(held[b][s])
    <2> DEFINE sum == Summed(held[b][s])
               rec == held[b][s].recent
    <2>1. history = sum \o rec
      BY <1>9
    <2>2. sum = <<>> \/ sum = <<Said("system", "summary")>>
      BY DEF Summed
    <2>3. Said("system", "summary") \in Told /\ Said("system", "summary") \notin Utter
      BY DEF Told, Utter, Said
    <2>4. rec \in Seq(Utter)
      BY <1>7
    <2> HIDE DEF sum, rec
    <2>5. sum \in Seq(Told) /\ Range(sum) \cap Utter = {}
      <3>1. CASE sum = <<>>
        BY <3>1 DEF Range
      <3>2. CASE sum = <<Said("system", "summary")>>
        <4> DEFINE m == Said("system", "summary")
        <4>1. sum = <<m>> /\ m \in Told /\ m \notin Utter
          BY <2>3, <3>2
        <4> HIDE DEF m
        <4>2. <<m>> \in Seq(Told) /\ Range(<<m>>) = {m}
          BY <4>1 DEF Range
        <4>3. QED BY <4>1, <4>2
      <3>3. QED BY <2>2, <3>1, <3>2
    <2>6. rec \in Seq(Told)
      <3>1. Range(rec) \subseteq Utter /\ Utter \subseteq Told
        BY <2>4, RangeOf DEF Told
      <3>2. QED BY <2>4, <3>1, SeqWithin
    <2>7. Range(history) = Range(sum) \cup Range(rec)
      BY <2>1, <2>5, <2>6, RangeConcat
    <2>8. QED BY <1>4, <2>5, <2>7 DEF Has, rec
  <1> HIDE DEF mine, msgs
  <1>10. mine \in Seq(Utter) /\ msgs = mine \o turn
    BY <1>4
  <1>11. QED BY <1>5, <1>6, <1>8, <1>9, <1>10 DEF msgs


LEMMA TwoMore ==
  ASSUME NEW S, NEW x \in Seq(S), NEW t \in Seq(S)
  PROVE  Len(t) = 2 =>
           /\ x \o t \in Seq(S) /\ x \o t # <<>> /\ Len(x \o t) \in Nat \ {0}
           /\ (x \o t)[Len(x \o t)] = t[2]
PROOF
  <1>1. x \o t \in Seq(S) /\ Len(x \o t) = Len(x) + Len(t) /\ Len(x) \in Nat
    OBVIOUS
  <1>2. \A i \in 1..Len(t) : (x \o t)[Len(x) + i] = t[i]
    OBVIOUS
  <1>3. QED BY <1>1, <1>2

(* A turn is two messages, and its answer is the last of what ends with it. *)
LEMMA TurnIs ==
  ASSUME NEW text \in Texts
  PROVE  /\ Turn(text) \in Seq(Utter) /\ Len(Turn(text)) = 2
         /\ \A x \in Seq(Utter) : x \o Turn(text) # <<>>
PROOF
  <1>1. Said("user", text) \in Utter /\ Said("assistant", text) \in Utter
    BY DEF Said, Utter
  <1>2. Turn(text) \in Seq(Utter) /\ Len(Turn(text)) = 2
    BY <1>1 DEF Turn
  <1>3. ASSUME NEW x \in Seq(Utter) PROVE x \o Turn(text) # <<>>
    <2> DEFINE t == Turn(text)
    <2> HIDE DEF t
    <2>1. t \in Seq(Utter) /\ Len(t) = 2
      BY <1>2 DEF t
    <2>2. x \o t # <<>>
      BY <2>1, TwoMore
    <2>3. QED BY <2>2 DEF t
  <1>4. QED BY <1>2, <1>3

(* The last of a sequence is the last of its last n.                       *)
LEMMA LastOne ==
  ASSUME NEW x \in Seq(Utter), x # <<>>
  PROVE  AtMost(1, x) = <<x[Len(x)]>>
PROOF
  <1> DEFINE n == 1
             y == AtMost(n, x)
  <1>1. Len(x) \in Nat \ {0} /\ n \in Nat \ {0} /\ n <= Len(x) /\ n \in 1..n /\ Len(x) - n + n = Len(x)
    OBVIOUS
  <1> HIDE DEF n
  <1>2. y \in Seq(Utter) /\ Len(y) = n /\ \A i \in 1..n : y[i] = x[Len(x) - n + i]
    BY <1>1, LastOnes
  <1> HIDE DEF y
  <1>3. y[n] = x[Len(x)]
    BY <1>1, <1>2
  <1>4. y = <<x[Len(x)]>>
    BY <1>2, <1>3 DEF n
  <1>5. QED BY <1>4 DEF y, n

LEMMA LastOfLast ==
  ASSUME NEW x \in Seq(Utter), NEW y \in Seq(Utter), NEW text \in Texts, NEW n \in Nat \ {0}
  PROVE  AtMost(1, AtMost(n, x \o Turn(text))) = AtMost(1, y \o Turn(text))
PROOF
  <1> DEFINE t == Turn(text)
             xt == x \o t
             yt == y \o t
             last == AtMost(n, xt)
  <1>1. t \in Seq(Utter) /\ Len(t) = 2
    BY TurnIs
  <1> HIDE DEF t
  <1>2. /\ xt \in Seq(Utter) /\ xt # <<>> /\ Len(xt) \in Nat \ {0} /\ xt[Len(xt)] = t[2]
        /\ yt \in Seq(Utter) /\ yt # <<>> /\ yt[Len(yt)] = t[2]
    BY <1>1, TwoMore
  <1> HIDE DEF xt, yt
  <1>3. last \in Seq(Utter) /\ last # <<>> /\ last[Len(last)] = t[2]
    <2>1. CASE n <= Len(xt)
      <3>1. /\ last \in Seq(Utter) /\ Len(last) = n
            /\ \A i \in 1..n : last[i] = xt[Len(xt) - n + i]
        BY <1>2, <2>1, LastOnes
      <3>2. n \in 1..n /\ Len(xt) - n + n = Len(xt)
        BY <1>2
      <3> HIDE DEF last
      <3>3. last[n] = xt[Len(xt)]
        BY <3>1, <3>2
      <3>4. QED BY <1>2, <3>1, <3>3
    <2>2. CASE ~(n <= Len(xt))
      <3>1. last = xt
        BY <1>2, <2>2 DEF AtMost
      <3>2. QED BY <1>2, <3>1
    <2>3. QED BY <2>1, <2>2
  <1> HIDE DEF last
  <1>4. AtMost(1, last) = <<t[2]>> /\ AtMost(1, yt) = <<t[2]>>
    BY <1>2, <1>3, LastOne
  <1>5. QED BY <1>4 DEF last, xt, yt, t

(* The calls that a step leaves as they were stay in order if it loses     *)
(* nothing that was said, and touches no session that is theirs alone.     *)
LEMMA CallStays ==
  ASSUME NEW c \in Callers, CallIs(c), mind' = mind, caller'[c] = caller[c],
         overlapped \subseteq overlapped',
         \A p \in People : Range(ever[p]) \subseteq Range(ever'[p]),
         caller[c].stage # "idle" /\ caller[c].who \notin overlapped' =>
           held'[1][caller[c].who] = held[1][caller[c].who]
  PROVE  CallIs(c)'
PROOF
  <1> DEFINE s == caller[c].who
             past == Range(ever[s])
             now == Range(ever'[s])
             mine == held[1][s]
  <1>1. CASE caller[c].stage = "idle"
    BY <1>1 DEF CallIs
  <1>2. CASE caller[c].stage # "idle"
    <2>1. /\ s \in People /\ caller[c].at \in DOMAIN mind
          /\ Hearing(caller[c], past) /\ Giving(caller[c], past)
          /\ s \notin overlapped => Fresh(caller[c], mine)
      BY <1>2 DEF CallIs
    <2>2. past \subseteq now /\ (s \notin overlapped' => s \notin overlapped /\ held'[1][s] = mine)
      BY <1>2, <2>1
    <2> HIDE DEF past, now
    <2>3. Hearing(caller[c], now)
      BY <2>1, <2>2 DEF Hearing
    <2>4. Giving(caller[c], now)
      BY SMTT(40), <2>1, <2>2 DEF Giving
    <2>5. s \notin overlapped' => Fresh(caller[c], mine)
      BY <2>1, <2>2
    <2>6. Hearing(caller[c], Range(ever[s]))'
      BY <2>3 DEF Hearing, now
    <2>7. Giving(caller[c], Range(ever[s]))'
      BY SMTT(40), <2>4 DEF Giving, now
    <2>8. (s \notin overlapped => Fresh(caller[c], held[1][s]))'
      BY <2>2, <2>5 DEF Fresh, Alone
    <2>9. (s \in People /\ caller[c].at \in DOMAIN mind)'
      BY <2>1
    <2>10. QED BY <2>6, <2>7, <2>8, <2>9 DEF CallIs
  <1>3. QED BY <1>1, <1>2

(* A step of a call leaves the others as they were.                        *)
Steps(c) ==
  /\ caller' \in [Callers -> MemoryCall] /\ mind' = mind /\ overlapped' = overlapped
  /\ \A d \in Callers \ {c} : caller'[d] = caller[d]
  /\ caller[c].stage # "idle"
  /\ caller'[c].stage = "idle" \/ caller'[c].who = caller[c].who

LEMMA CallsStay ==
  ASSUME MemoryInv, NEW c \in Callers, Steps(c), CallIs(c)',
         \A p \in People : Range(ever[p]) \subseteq Range(ever'[p]),
         \A p \in People \ {caller[c].who} : held'[1][p] = held[1][p]
  PROVE  (\A d \in Callers : CallIs(d)') /\ Apart'
PROOF
  <1>1. ASSUME NEW d \in Callers \ {c} PROVE CallIs(d)'
    <2>1. CallIs(d)
      BY DEF MemoryInv
    <2>2. caller[d].stage # "idle" => caller[d].who \in People
      BY <2>1 DEF CallIs
    <2>3. caller[d].stage # "idle" /\ caller[d].who \notin overlapped
            => caller[d].who # caller[c].who
      BY DEF MemoryInv, Apart, Steps
    <2>4. mind' = mind /\ caller'[d] = caller[d] /\ overlapped \subseteq overlapped'
          /\ (caller[d].stage # "idle" /\ caller[d].who \notin overlapped' =>
                held'[1][caller[d].who] = held[1][caller[d].who])
      BY <2>2, <2>3 DEF Steps
    <2>5. QED BY <2>1, <2>4, CallStays
  <1>2. Apart'
    <2>1. Apart
      BY DEF MemoryInv
    <2>2. /\ overlapped' = overlapped
          /\ \A d \in Callers : caller'[d].stage # "idle" =>
               caller[d].stage # "idle" /\ caller'[d].who = caller[d].who
      BY DEF Steps
    <2>3. ASSUME NEW d \in Callers, NEW e \in Callers,
                 caller'[d].stage # "idle", caller'[e].stage # "idle",
                 caller'[d].who = caller'[e].who, caller'[d].who \notin overlapped'
          PROVE  d = e
      BY <2>1, <2>2, <2>3 DEF Apart
    <2>4. QED BY <2>3 DEF Apart
  <1>3. QED BY <1>1, <1>2

(* What is held stays in order when it and what was said are left alone.   *)
LEMMA HeldStays ==
  ASSUME NEW b \in DOMAIN mind, NEW s \in People, HeldIs(b, s), mind' = mind,
         held'[b][s] = held[b][s], told'[b][s] = told[b][s],
         overlapped \subseteq overlapped', Range(ever[s]) \subseteq Range(ever'[s])
  PROVE  HeldIs(b, s)'
PROOF
  <1>1. (mind[b].kind = "sliding" => AtMost(1, held[b][s].recent) = AtMost(1, told[b][s]))'
    BY DEF HeldIs
  <1>2. (mind[b].kind = "summary" => Range(told[b][s]) \subseteq Has(held[b][s]))'
    BY DEF HeldIs, Has
  <1>3. (Has(held[b][s]) \subseteq Range(ever[s]))'
    BY DEF HeldIs, Has
  <1>4. (s \notin overlapped /\ Alone("sliding") =>
           held[b][s].recent = AtMost(mind[b].n, told[b][s]))'
    BY DEF HeldIs, Alone
  <1>5. (s \notin overlapped /\ Alone("summary") => Has(held[b][s]) = Range(told[b][s]))'
    BY DEF HeldIs, Alone, Has
  <1>6. QED BY <1>1, <1>2, <1>3, <1>4, <1>5 DEF HeldIs

(* A step that gives a memory nothing and takes nothing from it but what   *)
(* is in the store.                                                        *)
LEMMA MemoryLeft ==
  ASSUME MemoryInv, NEW c \in Callers, Steps(c), CallIs(c)',
         held' = held, told' = told, ever' \in [People -> Seq(Utter)], shelf' \in Seq(Shelving),
         \A p \in People : Range(ever[p]) \subseteq Range(ever'[p]), ShelfIs'
  PROVE  MemoryInv'
PROOF
  <1>1. (\A d \in Callers : CallIs(d)') /\ Apart'
    BY CallsStay
  <1>2. mind' = mind /\ overlapped \subseteq overlapped'
    BY DEF Steps
  <1>3. ASSUME NEW b \in DOMAIN mind, NEW s \in People PROVE HeldIs(b, s)'
    <2>1. HeldIs(b, s) /\ held'[b][s] = held[b][s] /\ told'[b][s] = told[b][s]
          /\ Range(ever[s]) \subseteq Range(ever'[s])
      BY DEF MemoryInv
    <2>2. QED BY <1>2, <2>1, HeldStays
  <1>4. MemoryTyped'
    BY DEF MemoryInv, MemoryTyped, Steps
  <1>5. \A b \in DOMAIN mind', s \in People : HeldIs(b, s)'
    BY <1>2, <1>3
  <1>6. QED BY <1>1, <1>4, <1>5 DEF MemoryInv

(* A call that ends, or goes on to the next backend.                       *)
LEMMA EndsIs ==
  ASSUME MemoryTyped, NEW c \in Callers, caller[c].stage # "idle", Ends(c),
         mind' = mind, overlapped' = overlapped
  PROVE  Steps(c) /\ CallIs(c)'
PROOF
  <1>1. caller' = [caller EXCEPT ![c] = Idle] /\ caller \in [Callers -> MemoryCall]
        /\ Idle \in MemoryCall /\ Idle.stage = "idle"
    BY IdleIs DEF Ends, MemoryTyped
  <1> DEFINE none == Idle
  <1> HIDE DEF none
  <1>2. caller' = [caller EXCEPT ![c] = none] /\ none \in MemoryCall /\ none.stage = "idle"
    BY <1>1 DEF none
  <1>3. caller' \in [Callers -> MemoryCall] /\ caller'[c].stage = "idle"
        /\ \A d \in Callers \ {c} : caller'[d] = caller[d]
    BY <1>1, <1>2
  <1>4. Steps(c)
    BY <1>3 DEF Steps
  <1>5. CallIs(c)'
    BY <1>3 DEF CallIs
  <1>6. QED BY <1>4, <1>5

(* A step that makes a call another.                                       *)
LEMMA BecomesIs ==
  ASSUME MemoryTyped, NEW c \in Callers, caller[c].stage # "idle", NEW next \in MemoryCall,
         caller' = [caller EXCEPT ![c] = next], mind' = mind, overlapped' = overlapped,
         next.who = caller[c].who
  PROVE  Steps(c) /\ caller'[c] = next
PROOF BY DEF MemoryTyped, Steps

(* What a call must be to stay in order.                                   *)
LEMMA CallIsSo ==
  ASSUME NEW c \in Callers, mind' = mind, NEW next, caller'[c] = next, NEW s \in People,
         next.who = s, next.at \in DOMAIN mind,
         Hearing(next, Range(ever'[s])), Giving(next, Range(ever'[s])),
         NEW sess, held'[1][s] = sess, s \notin overlapped' => Fresh(next, sess)
  PROVE  CallIs(c)'
PROOF
  <1>1. Hearing(caller[c], Range(ever[caller[c].who]))'
    BY DEF Hearing
  <1>2. Giving(caller[c], Range(ever[caller[c].who]))'
    BY DEF Giving
  <1>3. (caller[c].who \notin overlapped => Fresh(caller[c], held[1][caller[c].who]))'
    BY DEF Fresh, Alone
  <1>4. (caller[c].who \in People /\ caller[c].at \in DOMAIN mind)'
    OBVIOUS
  <1>5. QED BY <1>1, <1>2, <1>3, <1>4 DEF CallIs

LEMMA GoesOnIs ==
  ASSUME MemoryTyped, NEW c \in Callers, CallIs(c), caller[c].stage \in {"saving", "clearing"},
         GoesOn(c), mind' = mind, overlapped' = overlapped, ever' = ever
  PROVE  Steps(c) /\ CallIs(c)'
PROOF
  <1> DEFINE call == caller[c]
             next == [[call EXCEPT !.at = call.at + 1] EXCEPT !.left = call.msgs]
  <1>1. /\ call \in MemoryCall /\ call.who \in People /\ call.at \in DOMAIN mind
        /\ DOMAIN mind = 1..Len(mind) /\ Len(mind) \in Nat
        /\ Giving(call, Range(ever[call.who]))
    BY MindIs DEF MemoryTyped, CallIs
  <1>2. CASE call.at = Len(mind)
    <2>1. Ends(c)
      BY <1>2 DEF GoesOn, Ends
    <2>2. caller[c].stage # "idle"
      OBVIOUS
    <2>3. QED BY <2>1, <2>2, EndsIs
  <1>3. CASE call.at # Len(mind)
    <2>1. caller' = [caller EXCEPT ![c] = next]
      BY <1>3 DEF GoesOn
    <2>2. call.at + 1 \in DOMAIN mind /\ call.at + 1 \in Nat /\ Len(mind) # 1
      BY <1>1, <1>3
    <2>3. /\ next \in MemoryCall /\ next.who = call.who /\ next.at = call.at + 1
          /\ next.stage = call.stage /\ next.left = call.msgs /\ next.msgs = call.msgs
          /\ next.text = call.text
      BY <1>1, <2>2 DEF MemoryCall
    <2>4. Giving(next, Range(ever[call.who]))
      <3>1. CASE call.stage = "saving"
        <4>1. /\ call.text \in Texts /\ Range(call.msgs) \subseteq Range(ever[call.who])
              /\ \E pre \in Seq(Utter) : call.msgs = pre \o Turn(call.text)
          BY ZenonT(60), <1>1, <3>1 DEF Giving
        <4>2. call.msgs # <<>>
          BY <4>1, TurnIs
        <4>3. QED BY <2>3, <4>1, <4>2 DEF Giving
      <3>2. CASE call.stage # "saving"
        BY SMTT(40), <2>3, <3>2 DEF Giving
      <3>3. QED BY <3>1, <3>2
    <2> HIDE DEF next
    <2>5. Hearing(next, Range(ever[call.who])) /\ Fresh(next, held'[1][call.who])
      BY <2>2, <2>3 DEF Hearing, Fresh, Alone
    <2>6. Steps(c) /\ caller'[c] = next
      BY <2>1, <2>3, BecomesIs
    <2>7. /\ next.who = call.who /\ next.at \in DOMAIN mind
          /\ Hearing(next, Range(ever'[call.who])) /\ Giving(next, Range(ever'[call.who]))
      BY <2>2, <2>3, <2>4, <2>5
    <2> HIDE DEF call
    <2>8. call.who \in People
      BY <1>1
    <2>9. CallIs(c)'
      BY <2>5, <2>6, <2>7, <2>8, CallIsSo
    <2>10. QED BY <2>6, <2>9
  <1>4. QED BY <1>2, <1>3

LEMMA GiveUpKeeps ==
  ASSUME MemoryInv, NEW c \in Callers, GiveUp(c)
  PROVE  MemoryInv'
PROOF
  <1>1. /\ mind' = mind /\ overlapped' = overlapped /\ held' = held /\ told' = told
        /\ shelf' = shelf /\ ever' = ever /\ Ends(c) /\ caller[c].stage # "idle"
    BY DEF GiveUp, Conversing
  <1>2. MemoryTyped /\ ShelfIs
    BY DEF MemoryInv
  <1>3. Steps(c) /\ CallIs(c)'
    BY <1>1, <1>2, EndsIs
  <1>4. ever' \in [People -> Seq(Utter)] /\ shelf' \in Seq(Shelving) /\ ShelfIs'
        /\ \A p \in People : Range(ever[p]) \subseteq Range(ever'[p])
    BY <1>1, <1>2 DEF MemoryTyped, ShelfIs
  <1>5. QED BY <1>1, <1>3, <1>4, MemoryLeft

(* A step that changes nothing but where the call is.                      *)
LEMMA MemoryRead ==
  ASSUME MemoryInv, NEW c \in Callers, Steps(c), CallIs(c)',
         UNCHANGED <<mind, held, shelf, told, ever, overlapped>>
  PROVE  MemoryInv'
PROOF
  <1>1. ever' \in [People -> Seq(Utter)] /\ shelf' \in Seq(Shelving) /\ ShelfIs'
        /\ \A p \in People : Range(ever[p]) \subseteq Range(ever'[p])
    BY DEF MemoryInv, MemoryTyped, ShelfIs
  <1>2. QED BY <1>1, MemoryLeft

LEMMA AskKeeps ==
  ASSUME MemoryInv, NEW c \in Callers, Ask(c)
  PROVE  MemoryInv'
PROOF
  <1> DEFINE call == caller[c]
             s == call.who
             b == Len(call.heard) + 1
             past == Range(ever[s])
  <1>1. /\ call \in MemoryCall /\ s \in People /\ call.at \in DOMAIN mind
        /\ call.stage = "running" /\ b \in DOMAIN mind
        /\ Hearing(call, past)
        /\ s \notin overlapped => Fresh(call, held[1][s])
        /\ UNCHANGED <<mind, held, shelf, told, ever, overlapped>>
    BY DEF MemoryInv, MemoryTyped, CallIs, Ask, Conversing
  <1>2. PICK msgs \in Recalls(b, s, FALSE, 0) :
               caller' = [caller EXCEPT ![c].heard = Append(@, msgs)]
    BY DEF Ask
  <1> DEFINE said == Append(call.heard, msgs)
             next == [call EXCEPT !.heard = said]
  <1>3. msgs \in Seq(Told) /\ \A m \in Range(msgs) : Spoken(m) => m \in past
    <2>1. 0 \in Nat /\ FALSE \in BOOLEAN
      OBVIOUS
    <2>2. msgs \in Seq(Heard(s))
      BY <1>1, <1>2, <2>1, RecallsAre
    <2>3. Range(msgs) \subseteq Heard(s)
      BY <2>2, RangeOf
    <2>4. QED BY <2>2, <2>3, SeqWithin DEF Heard
  <1>4. /\ call.heard \in Seq(Seq(Told)) /\ call.heard # <<>>
        /\ call.text \in Texts
        /\ \A i \in DOMAIN call.heard : \A m \in Range(call.heard[i]) : Spoken(m) => m \in past
    BY <1>1 DEF MemoryCall, Hearing
  <1>5. /\ said \in Seq(Seq(Told)) /\ said # <<>> /\ said[1] = call.heard[1]
        /\ \A i \in DOMAIN said : said[i] = msgs \/ (i \in DOMAIN call.heard /\ said[i] = call.heard[i])
    <2> DEFINE h == call.heard
               S == Seq(Told)
    <2>1. h \in Seq(S) /\ msgs \in S /\ h # <<>>
      BY <1>3, <1>4
    <2> HIDE DEF h, S
    <2>2. /\ Append(h, msgs) \in Seq(S) /\ Append(h, msgs) # <<>> /\ Append(h, msgs)[1] = h[1]
          /\ \A i \in DOMAIN Append(h, msgs) :
               Append(h, msgs)[i] = msgs \/ (i \in DOMAIN h /\ Append(h, msgs)[i] = h[i])
      <3>1. /\ Append(h, msgs) \in Seq(S) /\ DOMAIN Append(h, msgs) = 1..(Len(h) + 1)
            /\ Len(Append(h, msgs)) = Len(h) + 1 /\ Append(h, msgs)[Len(h) + 1] = msgs
            /\ Len(h) \in Nat \ {0} /\ DOMAIN h = 1..Len(h)
            /\ \A i \in 1..Len(h) : Append(h, msgs)[i] = h[i]
        BY <2>1, AppendedIs
      <3>2. QED BY <3>1
    <2>3. QED BY <2>2 DEF h, S
  <1>6. caller' = [caller EXCEPT ![c] = next]
    BY <1>2
  <1> HIDE DEF said
  <1>7. /\ next \in MemoryCall /\ next.who = s /\ next.heard = said /\ next.at = call.at
        /\ next.stage = "running" /\ next.text = call.text
    BY <1>1, <1>5 DEF MemoryCall
  <1> HIDE DEF next
  <1>8. Hearing(next, past) /\ Giving(next, past)
    BY <1>3, <1>4, <1>5, <1>7 DEF Hearing, Giving
  <1>9. s \notin overlapped => Fresh(next, held[1][s])
    BY <1>1, <1>5, <1>7 DEF Fresh
  <1>10. MemoryTyped /\ caller[c].stage # "idle"
    BY <1>1 DEF MemoryInv
  <1>11. Steps(c) /\ caller'[c] = next
    BY <1>1, <1>6, <1>7, <1>10, BecomesIs
  <1>12. /\ Hearing(next, Range(ever'[s])) /\ Giving(next, Range(ever'[s]))
         /\ s \notin overlapped' => Fresh(next, held'[1][s])
    BY <1>1, <1>8, <1>9
  <1> HIDE DEF call, s
  <1>13. CallIs(c)'
    <2>1. mind' = mind /\ next.at \in DOMAIN mind /\ s \in People /\ next.who = s
      BY <1>1, <1>7
    <2>2. QED BY <1>11, <1>12, <2>1, CallIsSo
  <1>14. QED BY <1>1, <1>11, <1>13, MemoryRead

(* What the backends answered, put together, was said in the session.      *)
LEMMA HistoryIs ==
  ASSUME MemoryInv, NEW s \in People, NEW heard \in Seq(Seq(Told)), heard # <<>>,
         \A i \in DOMAIN heard : \A m \in Range(heard[i]) : Spoken(m) => m \in Range(ever[s])
  PROVE  heard[1] \in Seq(Heard(s)) /\ Merged(heard) \in Seq(Heard(s))
PROOF
  <1>1. \A i \in DOMAIN heard : heard[i] \in Seq(Told)
    OBVIOUS
  <1>2. ASSUME NEW i \in DOMAIN heard PROVE heard[i] \in Seq(Heard(s))
    <2>1. heard[i] \in Seq(Told)
      BY <1>1
    <2>2. Range(heard[i]) \subseteq Heard(s)
      <3>1. Range(heard[i]) \subseteq Told
        BY <2>1, RangeOf
      <3>2. QED BY <3>1 DEF Heard
    <2>3. QED BY <2>1, <2>2, SeqWithin
  <1> DEFINE S == Heard(s)
             V == Seq(S)
  <1>3. Range(heard) \subseteq V
    BY <1>2 DEF Range
  <1> HIDE DEF V, S
  <1>4. heard \in Seq(V)
    BY <1>3, SeqWithin
  <1>5. FlattenSeq(heard) \in Seq(S) /\ <<>> \in Seq(S)
    <2>1. heard \in Seq(Seq(S)) /\ <<>> \in Seq(S)
      BY <1>4 DEF V
    <2>2. QED BY <2>1, FlattenAppend
  <1>6. Merged(heard) \in Seq(S)
    BY <1>5, WithoutIs DEF Merged
  <1>7. 1 \in DOMAIN heard
    OBVIOUS
  <1>8. QED BY <1>2, <1>6, <1>7 DEF S

LEMMA AnswerKeeps ==
  ASSUME MemoryInv, NEW c \in Callers, Answer(c)
  PROVE  MemoryInv'
PROOF
  <1> DEFINE call == caller[c]
             s == call.who
             heard == call.heard
             history == IF Len(mind) = 1 THEN heard[1] ELSE Merged(heard)
             turn == Turn(call.text)
             msgs == Selected(history \o turn, Spoken)
             next == [[[[call EXCEPT !.stage = "saving"] EXCEPT !.heard = <<>>]
                         EXCEPT !.msgs = msgs] EXCEPT !.left = msgs]
  <1>1. /\ call \in MemoryCall /\ s \in People /\ call.at \in DOMAIN mind
        /\ call.stage = "running" /\ Hearing(call, Range(ever[s]))
        /\ s \notin overlapped => Fresh(call, held[1][s])
        /\ ever \in [People -> Seq(Utter)] /\ MemoryTyped /\ ShelfIs
    BY DEF MemoryInv, MemoryTyped, CallIs, Answer, Conversing
  <1>2. /\ caller' = [caller EXCEPT ![c] = next]
        /\ ever' = [ever EXCEPT ![s] = @ \o turn]
        /\ UNCHANGED <<mind, held, shelf, told, overlapped>>
    BY DEF Answer
  <1>3. call.text \in Texts /\ turn \in Seq(Utter)
    <2>1. call.text \in Texts
      BY <1>1 DEF Hearing
    <2>2. QED BY <2>1, TurnIs
  <1>4. heard[1] \in Seq(Heard(s)) /\ history \in Seq(Heard(s))
    <2>1. /\ heard \in Seq(Seq(Told)) /\ heard # <<>>
          /\ \A i \in DOMAIN heard : \A m \in Range(heard[i]) : Spoken(m) => m \in Range(ever[s])
      BY <1>1 DEF MemoryCall, Hearing
    <2> HIDE DEF heard, s
    <2>2. heard[1] \in Seq(Heard(s)) /\ Merged(heard) \in Seq(Heard(s))
      BY <1>1, <2>1, HistoryIs
    <2>3. QED BY <2>2
  <1> HIDE DEF history, turn
  <1>5. 1 \in DOMAIN mind
    BY <1>1, MindIs DEF MemoryTyped
  <1>6. /\ msgs \in Seq(Utter)
        /\ \E pre \in Seq(Utter) : msgs = pre \o turn
        /\ Range(msgs) \subseteq Range(ever[s]) \cup Range(turn)
        /\ history = held[1][s].recent => msgs = held[1][s].recent \o turn
        /\ history = Summed(held[1][s]) \o held[1][s].recent =>
             Range(msgs) \subseteq Has(held[1][s]) \cup Range(turn)
    <2> HIDE DEF s
    <2>1. s \in People
      BY SMTT(40), <1>1
    <2>2. QED BY <1>3, <1>4, <1>5, <2>1, GivenIs
  <1> HIDE DEF msgs
  <1>7. /\ next \in MemoryCall /\ next.who = s /\ next.at = call.at /\ next.stage = "saving"
        /\ next.text = call.text /\ next.msgs = msgs /\ next.left = msgs
    <2>1. <<>> \in Seq(Seq(Told))
      OBVIOUS
    <2>2. QED BY <1>1, <1>6, <2>1 DEF MemoryCall
  <1> HIDE DEF next
  <1>8. /\ ever' \in [People -> Seq(Utter)] /\ ever'[s] = ever[s] \o turn
        /\ Range(ever'[s]) = Range(ever[s]) \cup Range(turn)
        /\ \A p \in People : Range(ever[p]) \subseteq Range(ever'[p])
    <2>1. ever[s] \in Seq(Utter)
      BY SMTT(40), <1>1
    <2>2. ever[s] \o turn \in Seq(Utter) /\ Range(ever[s] \o turn) = Range(ever[s]) \cup Range(turn)
      BY SMTT(40), <1>3, <2>1, RangeConcat
    <2>3. QED BY SMTT(40), <1>1, <1>2, <2>2
  <1>9. Hearing(next, Range(ever'[s])) /\ Giving(next, Range(ever'[s]))
    <2>1. msgs # <<>>
      BY <1>3, <1>6, TurnIs DEF turn
    <2>2. QED BY <1>3, <1>6, <1>7, <1>8, <2>1 DEF Hearing, Giving, turn
  <1>10. s \notin overlapped => Fresh(next, held[1][s])
    <2>1. ASSUME s \notin overlapped PROVE Fresh(next, held[1][s])
      <3>1. /\ Alone("sliding") => heard[1] = held[1][s].recent
            /\ Alone("summary") => heard[1] = Summed(held[1][s]) \o held[1][s].recent
        BY <1>1, <2>1 DEF Fresh
      <3>2. /\ Alone("sliding") => history = held[1][s].recent
            /\ Alone("summary") => history = Summed(held[1][s]) \o held[1][s].recent
        BY <3>1 DEF Alone, history
      <3>3. QED BY ZenonT(60), <1>6, <1>7, <3>2 DEF Fresh, turn
    <2>2. QED BY SMTT(40), <2>1
  <1>11. caller[c].stage # "idle" /\ next.who = caller[c].who
    BY <1>1, <1>7
  <1>12. Steps(c) /\ caller'[c] = next
    BY <1>1, <1>2, <1>7, <1>11, BecomesIs
  <1> HIDE DEF call, s
  <1>13. CallIs(c)'
    <2>1. /\ mind' = mind /\ next.at \in DOMAIN mind /\ s \in People /\ next.who = s
          /\ s \notin overlapped' => Fresh(next, held'[1][s])
      BY <1>1, <1>2, <1>7, <1>10
    <2>2. QED BY <1>9, <1>12, <2>1, CallIsSo
  <1>14. ShelfIs'
    <2>1. ASSUME NEW e \in Range(shelf) PROVE e.msg \in Range(ever'[e.session])
      <3>1. e \in Shelving /\ e.msg \in Range(ever[e.session])
        BY <1>1, RangeOf DEF MemoryTyped, ShelfIs
      <3>2. e.session \in People
        BY <3>1 DEF Shelving
      <3>3. QED BY <1>8, <3>1, <3>2
    <2>2. QED BY <1>1, <1>2, <2>1 DEF ShelfIs
  <1>15. held' = held /\ told' = told /\ shelf' \in Seq(Shelving)
    BY <1>1, <1>2 DEF MemoryTyped
  <1>16. QED BY <1>8, <1>12, <1>13, <1>14, <1>15, MemoryLeft

LEMMA LookUpKeeps ==
  ASSUME MemoryInv, NEW c \in Callers, LookUp(c)
  PROVE  MemoryInv'
PROOF
  <1> DEFINE call == caller[c]
             s == call.who
  <1>1. /\ call \in MemoryCall /\ call.stage = "clearing" /\ s \in People
        /\ call.at \in DOMAIN mind /\ MemoryTyped /\ CallIs(c)
        /\ UNCHANGED <<mind, held, shelf, told, ever, overlapped>>
    BY DEF MemoryInv, MemoryTyped, CallIs, LookUp
  <1>2. CASE Ends(c)
    BY <1>1, <1>2, EndsIs, MemoryRead
  <1>3. ASSUME NEW picks \in Nearest(ReachFactor * mind[call.at].n),
               caller' = [caller EXCEPT ![c].stage = "deleting", ![c].found = Mine(s, picks)]
        PROVE  MemoryInv'
    <2> DEFINE mine == Mine(s, picks)
               next == [[call EXCEPT !.stage = "deleting"] EXCEPT !.found = mine]
    <2>1. mine \in SUBSET Told
      <3>1. picks \subseteq DOMAIN shelf
        BY DEF Nearest
      <3>2. \A i \in DOMAIN shelf : shelf[i] \in Shelving
        BY <1>1 DEF MemoryTyped
      <3>3. \A i \in DOMAIN shelf : shelf[i].msg \in Utter
        BY <3>2 DEF Shelving
      <3>4. QED BY <3>1, <3>3 DEF Mine, Told
    <2> HIDE DEF mine
    <2>2. caller' = [caller EXCEPT ![c] = next]
      BY <1>1, <1>3 DEF MemoryTyped, mine
    <2>3. /\ next \in MemoryCall /\ next.who = s /\ next.at = call.at /\ next.stage = "deleting"
      BY <1>1, <2>1 DEF MemoryCall
    <2> HIDE DEF next
    <2>4. caller[c].stage # "idle" /\ next.who = caller[c].who
      BY <1>1, <2>3
    <2>5. Steps(c) /\ caller'[c] = next
      BY <1>1, <2>2, <2>3, <2>4, BecomesIs
    <2>6. Hearing(next, Range(ever'[s])) /\ Giving(next, Range(ever'[s]))
          /\ Fresh(next, held'[1][s])
      BY <2>3 DEF Hearing, Giving, Fresh
    <2> HIDE DEF call, s
    <2>7. mind' = mind /\ next.at \in DOMAIN mind /\ s \in People /\ next.who = s
      BY <1>1, <2>3
    <2>8. CallIs(c)'
      BY <2>5, <2>6, <2>7, CallIsSo
    <2>9. QED BY <1>1, <2>5, <2>8, MemoryRead
  <1>4. CASE GoesOn(c)
    <2>1. caller[c].stage \in {"saving", "clearing"}
      BY <1>1
    <2>2. QED BY <1>1, <1>4, <2>1, GoesOnIs, MemoryRead
  <1>5. \/ Ends(c) \/ GoesOn(c)
        \/ \E picks \in Nearest(ReachFactor * mind[call.at].n) :
             caller' = [caller EXCEPT ![c].stage = "deleting", ![c].found = Mine(s, picks)]
    BY DEF LookUp
  <1>6. QED BY <1>2, <1>3, <1>4, <1>5

(* What a clear leaves in the store is of it, in its order.                *)
LEMMA RestIs ==
  ASSUME MemoryInv, NEW s, NEW found
  PROVE  /\ Remaining(s, found) \in Seq(Shelving) /\ IsInjective(Remaining(s, found))
         /\ Range(Remaining(s, found)) \subseteq Range(shelf)
PROOF
  <1> DEFINE Stays(e) == e.session # s \/ e.msg \notin found
             rest == Remaining(s, found)
             T == {e \in Shelving : Stays(e)}
             f == [i \in DOMAIN shelf |-> IF Stays(shelf[i]) THEN <<shelf[i]>> ELSE <<>>]
             g == [i \in DOMAIN shelf |-> IF shelf[i] \in T THEN <<shelf[i]>> ELSE <<>>]
  <1>1. shelf \in Seq(Shelving) /\ IsInjective(shelf)
    BY DEF MemoryInv, MemoryTyped, ShelfIs
  <1>2. rest = FlattenSeq(f) /\ Among(shelf, T) = FlattenSeq(g)
    BY DEF Among, Selected, Remaining
  <1>3. \A i \in DOMAIN shelf : shelf[i] \in Shelving
    BY <1>1
  <1>4. f = g
    <2> HIDE DEF Stays
    <2>1. QED BY <1>3
  <1> HIDE DEF f, g
  <1>5. rest = Among(shelf, T)
    BY <1>2, <1>4
  <1> HIDE DEF T
  <1>6. /\ Among(shelf, T) \in Seq(Shelving) /\ IsInjective(Among(shelf, T))
        /\ Range(Among(shelf, T)) = Range(shelf) \cap T
    BY <1>1, AmongTyped, AmongInjective, AmongRange
  <1>7. rest \in Seq(Shelving) /\ IsInjective(rest) /\ Range(rest) \subseteq Range(shelf)
    <2> HIDE DEF rest
    <2>1. QED BY <1>5, <1>6
  <1>8. QED BY <1>7

LEMMA DeleteKeeps ==
  ASSUME MemoryInv, NEW c \in Callers, Delete(c)
  PROVE  MemoryInv'
PROOF
  <1> DEFINE call == caller[c]
             s == call.who
  <1>1. /\ call \in MemoryCall /\ call.stage = "deleting" /\ s \in People
        /\ call.at \in DOMAIN mind /\ MemoryTyped
        /\ DOMAIN mind = 1..Len(mind) /\ Len(mind) \in Nat
        /\ UNCHANGED <<mind, held, told, ever, overlapped>>
    BY MindIs DEF MemoryInv, MemoryTyped, CallIs, Delete
  <1>2. shelf' = Remaining(s, call.found)
    BY DEF Delete
  <1>3. /\ shelf' \in Seq(Shelving) /\ IsInjective(shelf') /\ Range(shelf') \subseteq Range(shelf)
    BY <1>2, RestIs
  <1>4. ShelfIs' /\ ever' \in [People -> Seq(Utter)] /\ held' = held /\ told' = told
        /\ \A p \in People : Range(ever[p]) \subseteq Range(ever'[p])
    BY <1>1, <1>3 DEF MemoryInv, MemoryTyped, ShelfIs
  <1>5. Steps(c) /\ CallIs(c)'
    <2> DEFINE next == [[[call EXCEPT !.at = call.at + 1] EXCEPT !.stage = "clearing"]
                          EXCEPT !.found = {}]
    <2>1. CASE Ends(c)
      BY <1>1, <2>1, EndsIs
    <2>2. CASE caller' = [caller EXCEPT ![c] = IF call.at = Len(mind) THEN Idle ELSE next]
      <3>1. CASE call.at = Len(mind)
        <4>1. Ends(c)
          BY <2>2, <3>1 DEF Ends
        <4>2. QED BY <1>1, <4>1, EndsIs
      <3>2. CASE call.at # Len(mind)
        <4>1. caller' = [caller EXCEPT ![c] = next]
          BY <2>2, <3>2
        <4>2. call.at + 1 \in DOMAIN mind /\ call.at + 1 \in Nat
          BY <1>1, <3>2
        <4>3. /\ next \in MemoryCall /\ next.who = s /\ next.at = call.at + 1
              /\ next.stage = "clearing"
          BY <1>1, <4>2 DEF MemoryCall
        <4> HIDE DEF next
        <4>4. caller[c].stage # "idle" /\ next.who = caller[c].who
          BY <1>1, <4>3
        <4>5. Steps(c) /\ caller'[c] = next
          BY <1>1, <4>1, <4>3, <4>4, BecomesIs
        <4>6. Hearing(next, Range(ever'[s])) /\ Giving(next, Range(ever'[s]))
              /\ Fresh(next, held'[1][s])
          BY <4>3 DEF Hearing, Giving, Fresh
        <4> HIDE DEF call, s
        <4>7. mind' = mind /\ next.at \in DOMAIN mind /\ s \in People /\ next.who = s
          BY <1>1, <4>2, <4>3
        <4>8. CallIs(c)'
          BY <4>5, <4>6, <4>7, CallIsSo
        <4>9. QED BY <4>5, <4>8
      <3>3. QED BY <3>1, <3>2
    <2>3. Ends(c) \/ caller' = [caller EXCEPT ![c] = IF call.at = Len(mind) THEN Idle ELSE next]
      BY DEF Delete
    <2>4. QED BY <2>1, <2>2, <2>3
  <1>6. QED BY <1>3, <1>4, <1>5, MemoryLeft

LEMMA ShorterIs ==
  ASSUME NEW S, NEW x \in Seq(S), x # <<>>
  PROVE  Head(x) \in S /\ Tail(x) \in Seq(S) /\ (Len(x) # 1 => Tail(x) # <<>>)
PROOF
  <1>1. Len(x) \in Nat \ {0} /\ Tail(x) \in Seq(S) /\ Len(Tail(x)) = Len(x) - 1
    OBVIOUS
  <1>2. Head(x) = x[1] /\ 1 \in 1..Len(x) /\ x[1] \in S
    OBVIOUS
  <1>3. Len(x) # 1 => Tail(x) # <<>>
    BY <1>1
  <1>4. QED BY <1>1, <1>2, <1>3

LEMMA SaveMessageKeeps ==
  ASSUME MemoryInv, NEW c \in Callers, SaveMessage(c)
  PROVE  MemoryInv'
PROOF
  <1> DEFINE call == caller[c]
             s == call.who
             head == <<Head(call.left)>>
  <1>1. /\ call \in MemoryCall /\ call.stage = "saving" /\ s \in People
        /\ call.at \in DOMAIN mind /\ MemoryTyped /\ ShelfIs /\ CallIs(c)
        /\ Giving(call, Range(ever[s]))
        /\ s \notin overlapped => Fresh(call, held[1][s])
        /\ UNCHANGED <<mind, held, told, ever, overlapped>>
    BY DEF MemoryInv, MemoryTyped, CallIs, SaveMessage
  <1>2. /\ call.left \in Seq(Utter) /\ call.left # <<>> /\ call.text \in Texts
        /\ Range(call.left) \subseteq Range(ever[s])
    BY <1>1 DEF MemoryCall, Giving
  <1>3. /\ Head(call.left) \in Utter /\ head \in Seq(Utter) /\ Range(head) \subseteq Range(ever[s])
        /\ Len(call.left) # 1 => Tail(call.left) \in Seq(Utter) /\ Tail(call.left) # <<>>
        /\ Range(Tail(call.left)) \subseteq Range(ever[s])
    <2> DEFINE x == call.left
               S == Utter
    <2>1. x \in Seq(S) /\ x # <<>> /\ Range(x) \subseteq Range(ever[s])
      BY <1>2
    <2> HIDE DEF x, S
    <2>2. /\ Head(x) \in S /\ Tail(x) \in Seq(S) /\ (Len(x) # 1 => Tail(x) # <<>>)
      BY <2>1, ShorterIs
    <2> DEFINE h == Head(x)
    <2> HIDE DEF h
    <2>5. <<h>> \in Seq(S) /\ Range(<<h>>) = {h}
      BY <2>2 DEF Range, h
    <2>3. Range(x) = Range(Tail(x)) \cup {Head(x)}
      BY <2>1, RangeTail
    <2>4. QED BY <2>1, <2>2, <2>3, <2>5 DEF x, S, h
  <1> HIDE DEF head
  <1>4. shelf' = shelf \/ shelf' = Shelved(s, head)
    BY DEF SaveMessage, head
  <1>5. shelf' \in Seq(Shelving) /\ ShelfIs'
    <2>1. CASE shelf' = shelf
      BY <1>1, <2>1 DEF MemoryTyped, ShelfIs
    <2>2. CASE shelf' = Shelved(s, head)
      <3> DEFINE now == Shelved(s, head)
      <3>1. /\ now \in Seq(Shelving) /\ IsInjective(now)
            /\ \A e \in Range(now) : e \in Range(shelf) \/ (e.session = s /\ e.msg \in Range(head))
        BY <1>1, <1>3, ShelvedIs
      <3> HIDE DEF now
      <3>2. \A e \in Range(now) : e.msg \in Range(ever[e.session])
        BY <1>1, <1>3, <3>1 DEF ShelfIs
      <3>3. shelf' = now /\ ever' = ever
        BY <1>1, <2>2 DEF now
      <3>4. QED BY <3>1, <3>2, <3>3 DEF ShelfIs
    <2>3. QED BY <1>4, <2>1, <2>2
  <1>6. Steps(c) /\ CallIs(c)'
    <2> DEFINE rest == Tail(call.left)
               next == [call EXCEPT !.left = rest]
    <2>1. CASE Ends(c)
      BY <1>1, <2>1, EndsIs
    <2>2. CASE GoesOn(c)
      BY <1>1, <2>2, GoesOnIs
    <2>3. CASE Len(call.left) # 1 /\ caller' = [caller EXCEPT ![c].left = rest]
      <3> HIDE DEF rest
      <3>1. rest \in Seq(Utter) /\ rest # <<>> /\ Range(rest) \subseteq Range(ever[s])
        BY <1>3, <2>3 DEF rest
      <3>2. caller' = [caller EXCEPT ![c] = next]
        BY <1>1, <2>3 DEF MemoryTyped
      <3>3. /\ next \in MemoryCall /\ next.who = s /\ next.at = call.at /\ next.stage = "saving"
            /\ next.text = call.text /\ next.msgs = call.msgs /\ next.left = rest
        BY <1>1, <3>1 DEF MemoryCall
      <3> HIDE DEF next
      <3>4. caller[c].stage # "idle" /\ next.who = caller[c].who
        BY <1>1, <3>3
      <3>5. Steps(c) /\ caller'[c] = next
        BY ZenonT(60), <1>1, <3>2, <3>3, <3>4, BecomesIs
      <3>6. /\ Hearing(next, Range(ever'[s])) /\ Giving(next, Range(ever'[s]))
            /\ s \notin overlapped' => Fresh(next, held'[1][s])
        <4>1. Hearing(next, Range(ever[s])) /\ Giving(next, Range(ever[s]))
          BY <1>1, <3>1, <3>3 DEF Hearing, Giving
        <4>2. s \notin overlapped => Fresh(next, held[1][s])
          BY <1>1, <3>3 DEF Fresh
        <4>3. QED BY <1>1, <4>1, <4>2
      <3> HIDE DEF call, s
      <3>7. mind' = mind /\ next.at \in DOMAIN mind /\ s \in People /\ next.who = s
        BY <1>1, <3>3
      <3>8. CallIs(c)'
        BY <3>5, <3>6, <3>7, CallIsSo
      <3>9. QED BY <3>5, <3>8
    <2>4. Ends(c) \/ GoesOn(c)
          \/ (Len(call.left) # 1 /\ caller' = [caller EXCEPT ![c].left = rest])
      BY DEF SaveMessage
    <2>5. QED BY <2>1, <2>2, <2>3, <2>4
  <1>7. /\ held' = held /\ told' = told /\ ever' \in [People -> Seq(Utter)]
        /\ \A p \in People : Range(ever[p]) \subseteq Range(ever'[p])
    BY <1>1 DEF MemoryTyped
  <1>8. QED BY <1>5, <1>6, <1>7, MemoryLeft

(* A step that gives one backend something of one session, or clears it.   *)
LEMMA MemoryGiven ==
  ASSUME MemoryInv, NEW c \in Callers, Steps(c), CallIs(c)',
         NEW b \in DOMAIN mind, NEW s \in People, s = caller[c].who,
         NEW sess \in Session, NEW turns \in Seq(Utter),
         held' = [held EXCEPT ![b][s] = sess], told' = [told EXCEPT ![b][s] = turns],
         ever' = ever, shelf' = shelf,
         held'[b][s] = sess /\ told'[b][s] = turns => HeldIs(b, s)'
  PROVE  MemoryInv'
PROOF
  <1>1. /\ held \in [DOMAIN mind -> [People -> Session]]
        /\ told \in [DOMAIN mind -> [People -> Seq(Utter)]]
        /\ mind' = mind /\ overlapped' = overlapped
    BY DEF MemoryInv, MemoryTyped, Steps
  <1>2. /\ held' \in [DOMAIN mind -> [People -> Session]]
        /\ held'[b][s] = sess
        /\ \A d \in DOMAIN mind, p \in People : d # b \/ p # s => held'[d][p] = held[d][p]
    BY <1>1
  <1>3. /\ told' \in [DOMAIN mind -> [People -> Seq(Utter)]]
        /\ told'[b][s] = turns
        /\ \A d \in DOMAIN mind, p \in People : d # b \/ p # s => told'[d][p] = told[d][p]
    <2> DEFINE S == Seq(Utter)
    <2> HIDE DEF S
    <2>1. told \in [DOMAIN mind -> [People -> S]] /\ turns \in S
      BY <1>1 DEF S
    <2>2. QED BY <2>1 DEF S
  <1>4. ASSUME NEW d \in DOMAIN mind, NEW p \in People PROVE HeldIs(d, p)'
    <2>1. CASE d = b /\ p = s
      BY <1>2, <1>3, <2>1
    <2>2. CASE d # b \/ p # s
      <3>1. /\ HeldIs(d, p) /\ held'[d][p] = held[d][p] /\ told'[d][p] = told[d][p]
            /\ mind' = mind /\ overlapped \subseteq overlapped'
            /\ Range(ever[p]) \subseteq Range(ever'[p])
        BY <1>1, <1>2, <1>3, <2>2 DEF MemoryInv
      <3>2. QED BY <3>1, HeldStays
    <2>3. QED BY <2>1, <2>2
  <1>5. (\A d \in Callers : CallIs(d)') /\ Apart'
    <2>1. 1 \in DOMAIN mind
      BY MindIs DEF MemoryInv, MemoryTyped
    <2>2. /\ \A p \in People \ {caller[c].who} : held'[1][p] = held[1][p]
          /\ \A p \in People : Range(ever[p]) \subseteq Range(ever'[p])
      BY <1>2, <2>1
    <2>3. QED BY <2>2, CallsStay
  <1>6. MemoryTyped' /\ ShelfIs'
    BY <1>1, <1>2, <1>3 DEF MemoryInv, MemoryTyped, ShelfIs, Steps
  <1>7. \A d \in DOMAIN mind', p \in People : HeldIs(d, p)'
    BY <1>1, <1>4
  <1>8. QED BY <1>5, <1>6, <1>7 DEF MemoryInv

LEMMA SaveHeldKeeps ==
  ASSUME MemoryInv, NEW c \in Callers, SaveHeld(c)
  PROVE  MemoryInv'
PROOF
  <1>0. PICK b \in DOMAIN mind, s \in People : caller[c].at = b /\ caller[c].who = s
    BY DEF MemoryInv, CallIs, SaveHeld
  <1> DEFINE call == caller[c]
             turn == Turn(call.text)
             turns == told[b][s] \o turn
             before == held[b][s]
  <1>1. /\ call \in MemoryCall /\ call.stage = "saving" /\ MemoryTyped /\ CallIs(c)
        /\ Giving(call, Range(ever[s]))
        /\ s \notin overlapped => Fresh(call, held[1][s])
        /\ HeldIs(b, s) /\ ~Vector(b)
        /\ UNCHANGED <<mind, shelf, ever, overlapped>>
        /\ told' = [told EXCEPT ![b][s] = @ \o turn]
    BY <1>0 DEF MemoryInv, MemoryTyped, CallIs, SaveHeld
  <1>2. PICK fails \in BOOLEAN :
               /\ held' = [held EXCEPT ![b][s] = Kept(b, @, call.msgs, fails)]
               /\ IF fails THEN Ends(c) ELSE GoesOn(c)
    BY <1>0 DEF SaveHeld
  <1> DEFINE after == Kept(b, before, call.msgs, fails)
             past == Range(ever[s])
  <1>3. /\ call.text \in Texts /\ turn \in Seq(Utter) /\ call.msgs \in Seq(Utter)
        /\ Range(call.msgs) \subseteq past
        /\ \E pre \in Seq(Utter) : call.msgs = pre \o turn
    <2>1. /\ call.text \in Texts /\ call.msgs \in Seq(Utter) /\ Range(call.msgs) \subseteq past
          /\ \E pre \in Seq(Utter) : call.msgs = pre \o turn
      BY <1>1 DEF MemoryCall, Giving
    <2>2. QED BY <2>1, TurnIs
  <1>4. before \in Session /\ told[b][s] \in Seq(Utter)
    <2>1. held \in [DOMAIN mind -> [People -> Session]]
          /\ told \in [DOMAIN mind -> [People -> Seq(Utter)]]
      BY <1>1 DEF MemoryTyped
    <2>2. QED BY <1>1, <2>1
  <1>5. /\ mind \in Minds /\ mind[b].n \in Nat \ {0}
        /\ mind[b].kind \in {"sliding", "summary"}
        /\ Len(mind) = 1 => b = 1
    BY <1>1, MindIs DEF MemoryTyped, Vector
  <1>6. /\ after \in Session
        /\ Has(after) \subseteq Has(before) \cup Range(call.msgs)
        /\ mind[b].kind = "sliding" => after.recent = AtMost(mind[b].n, call.msgs)
        /\ mind[b].kind = "summary" => Has(after) = Has(before) \cup Range(call.msgs)
    <2> DEFINE msgs == call.msgs
    <2>1. msgs \in Seq(Utter)
      BY <1>3
    <2> HIDE DEF before, call, msgs
    <2>2. QED BY <1>4, <1>5, <2>1, KeptIs DEF msgs
  <1>7. held' = [held EXCEPT ![b][s] = after] /\ told' = [told EXCEPT ![b][s] = turns]
    BY <1>1, <1>2
  <1>8. turns \in Seq(Utter) /\ Range(turns) = Range(told[b][s]) \cup Range(turn)
    <2> HIDE DEF turn
    <2>1. QED BY <1>3, <1>4, RangeConcat
  <1>9. Range(turn) \subseteq Range(call.msgs)
    <2>1. PICK pre \in Seq(Utter) : call.msgs = pre \o turn
      BY <1>3
    <2> HIDE DEF turn
    <2>2. QED BY <1>3, <2>1, RangeConcat
  <1> HIDE DEF after, past
  <1>10. Has(after) \subseteq past
    BY <1>1, <1>3, <1>6 DEF HeldIs, past
  <1>11. ASSUME mind[b].kind = "sliding" PROVE AtMost(1, after.recent) = AtMost(1, turns)
    <2>1. PICK pre \in Seq(Utter) : call.msgs = pre \o turn
      BY <1>3
    <2> DEFINE n == mind[b].n
               given == told[b][s]
    <2>2. AtMost(1, AtMost(n, pre \o Turn(call.text))) = AtMost(1, given \o Turn(call.text))
      <3>1. n \in Nat \ {0} /\ given \in Seq(Utter) /\ call.text \in Texts
        BY <1>3, <1>4, <1>5
      <3> HIDE DEF n, given, call
      <3>2. QED BY <3>1, LastOfLast
    <2>3. after.recent = AtMost(n, pre \o turn)
      BY <1>6, <1>11, <2>1
    <2>4. QED BY <2>2, <2>3
  <1>12. ASSUME mind[b].kind = "summary" PROVE Range(turns) \subseteq Has(after)
    BY <1>1, <1>6, <1>8, <1>9, <1>12 DEF HeldIs
  <1>13. ASSUME s \notin overlapped, Alone("sliding") PROVE after.recent = AtMost(mind[b].n, turns)
    <2>1. b = 1 /\ mind[b].kind = "sliding"
      BY <1>1, <1>5, <1>13 DEF Alone
    <2>2. call.msgs = before.recent \o turn
      BY <1>1, <1>13, <2>1 DEF Fresh
    <2>3. before.recent = AtMost(mind[b].n, told[b][s])
      BY <1>1, <1>13 DEF HeldIs
    <2> DEFINE n == mind[b].n
               given == told[b][s]
    <2>4. n \in Nat /\ given \in Seq(Utter) /\ turn \in Seq(Utter)
      BY <1>3, <1>4, <1>5
    <2>5. after.recent = AtMost(n, AtMost(n, given) \o turn)
      BY <1>6, <2>1, <2>2, <2>3
    <2>6. AtMost(n, AtMost(n, given) \o turn) = AtMost(n, given \o turn)
      <3> HIDE DEF n, given, turn
      <3>1. QED BY <2>4, AtMostTwice
    <2>7. QED BY <2>5, <2>6
  <1>14. ASSUME s \notin overlapped, Alone("summary") PROVE Has(after) = Range(turns)
    <2>1. b = 1 /\ mind[b].kind = "summary"
      BY <1>1, <1>5, <1>14 DEF Alone
    <2>2. Range(call.msgs) \subseteq Has(before) \cup Range(turn)
      BY <1>1, <1>14, <2>1 DEF Fresh
    <2>3. Has(before) = Range(told[b][s])
      BY <1>1, <1>14 DEF HeldIs
    <2>4. QED BY <1>6, <1>8, <1>9, <2>1, <2>2, <2>3
  <1>15. Steps(c) /\ CallIs(c)'
    <2>1. caller[c].stage # "idle" /\ caller[c].stage \in {"saving", "clearing"}
      BY <1>1
    <2>2. CASE fails
      BY <1>1, <1>2, <2>1, <2>2, EndsIs
    <2>3. CASE ~fails
      BY <1>1, <1>2, <2>1, <2>3, GoesOnIs
    <2>4. QED BY <2>2, <2>3
  <1> HIDE DEF turns
  <1>16. ASSUME held'[b][s] = after, told'[b][s] = turns PROVE HeldIs(b, s)'
    <2>1. mind' = mind /\ overlapped' = overlapped /\ ever' = ever
      BY <1>1
    <2>2. (Has(held[b][s]) \subseteq Range(ever[s]))'
      BY <1>10, <1>16, <2>1 DEF Has, past
    <2>3. (mind[b].kind = "sliding" => AtMost(1, held[b][s].recent) = AtMost(1, told[b][s]))'
      BY <1>11, <1>16, <2>1
    <2>4. (mind[b].kind = "summary" => Range(told[b][s]) \subseteq Has(held[b][s]))'
      BY <1>12, <1>16, <2>1 DEF Has
    <2>5. (s \notin overlapped /\ Alone("sliding") =>
             held[b][s].recent = AtMost(mind[b].n, told[b][s]))'
      BY <1>13, <1>16, <2>1 DEF Alone
    <2>6. (s \notin overlapped /\ Alone("summary") => Has(held[b][s]) = Range(told[b][s]))'
      BY <1>14, <1>16, <2>1 DEF Alone, Has
    <2>7. QED BY <2>2, <2>3, <2>4, <2>5, <2>6 DEF HeldIs
  <1>17. /\ s = caller[c].who /\ after \in Session /\ turns \in Seq(Utter)
         /\ held' = [held EXCEPT ![b][s] = after] /\ told' = [told EXCEPT ![b][s] = turns]
         /\ ever' = ever /\ shelf' = shelf
    BY <1>0, <1>1, <1>6, <1>7, <1>8
  <1> HIDE DEF call
  <1>18. QED BY <1>15, <1>16, <1>17, MemoryGiven

LEMMA ClearHeldKeeps ==
  ASSUME MemoryInv, NEW c \in Callers, ClearHeld(c)
  PROVE  MemoryInv'
PROOF
  <1>0. PICK b \in DOMAIN mind, s \in People : caller[c].at = b /\ caller[c].who = s
    BY DEF MemoryInv, CallIs, ClearHeld
  <1> DEFINE none == Blank
             nothing == <<>>
  <1>1. /\ caller[c].stage = "clearing" /\ MemoryTyped /\ CallIs(c) /\ GoesOn(c)
        /\ UNCHANGED <<mind, shelf, ever, overlapped>>
        /\ told' = [told EXCEPT ![b][s] = nothing] /\ held' = [held EXCEPT ![b][s] = none]
    BY <1>0 DEF MemoryInv, ClearHeld
  <1>2. none \in Session /\ nothing \in Seq(Utter)
    BY BlankIs
  <1>3. Steps(c) /\ CallIs(c)'
    <2>1. caller[c].stage \in {"saving", "clearing"}
      BY <1>1
    <2>2. QED BY <1>1, <2>1, GoesOnIs
  <1>4. /\ AtMost(1, none.recent) = AtMost(1, nothing) /\ Has(none) = {} /\ Range(nothing) = {}
        /\ none.recent = AtMost(mind[b].n, nothing)
    <2>1. mind[b].n \in Nat /\ 1 \in Nat
      BY <1>1, MindIs DEF MemoryTyped
    <2>2. QED BY <2>1, NoneIs, BlankIs
  <1> HIDE DEF none, nothing
  <1>5. ASSUME held'[b][s] = none, told'[b][s] = nothing PROVE HeldIs(b, s)'
    <2>1. mind' = mind /\ overlapped' = overlapped /\ ever' = ever
      BY <1>1
    <2>2. (Has(held[b][s]) \subseteq Range(ever[s]))'
      BY <1>4, <1>5 DEF Has
    <2>3. (mind[b].kind = "sliding" => AtMost(1, held[b][s].recent) = AtMost(1, told[b][s]))'
      BY <1>4, <1>5
    <2>4. (mind[b].kind = "summary" => Range(told[b][s]) \subseteq Has(held[b][s]))'
      BY <1>4, <1>5 DEF Has
    <2>5. (s \notin overlapped /\ Alone("sliding") =>
             held[b][s].recent = AtMost(mind[b].n, told[b][s]))'
      BY <1>4, <1>5, <2>1
    <2>6. (s \notin overlapped /\ Alone("summary") => Has(held[b][s]) = Range(told[b][s]))'
      BY <1>4, <1>5 DEF Has
    <2>7. QED BY <2>2, <2>3, <2>4, <2>5, <2>6 DEF HeldIs
  <1>6. s = caller[c].who /\ ever' = ever /\ shelf' = shelf
    BY <1>0, <1>1
  <1>7. QED BY <1>1, <1>2, <1>3, <1>5, <1>6, MemoryGiven

(* A call that begins finds none of its session under way, or the two      *)
(* overlap from then on.                                                   *)
LEMMA EntersKeeps ==
  ASSUME MemoryInv, NEW c \in Callers, NEW call \in MemoryCall, NEW s \in People,
         call.who = s, call.at = 1, Enters(c, call),
         Hearing(call, Range(ever[s])), Giving(call, Range(ever[s])), Fresh(call, held[1][s]),
         UNCHANGED <<mind, held, shelf, told, ever>>
  PROVE  MemoryInv'
PROOF
  <1>1. MemoryTyped /\ Apart /\ ShelfIs
    BY DEF MemoryInv
  <1>2. /\ caller' \in [Callers -> MemoryCall] /\ caller'[c] = call
        /\ \A d \in Callers \ {c} : caller'[d] = caller[d]
    BY <1>1 DEF MemoryTyped, Enters
  <1>3. /\ overlapped \subseteq overlapped'
        /\ s \notin overlapped' => \A d \in Callers : caller[d].who # s
    BY DEF Enters
  <1>4. /\ mind' = mind /\ held' = held /\ told' = told /\ ever' = ever /\ shelf' = shelf
        /\ call.at \in DOMAIN mind
    BY <1>1, MindIs DEF MemoryTyped
  <1>5. ASSUME NEW d \in Callers PROVE CallIs(d)'
    <2>1. CASE d = c
      <3>1. /\ caller'[c] = call /\ Hearing(call, Range(ever'[s])) /\ Giving(call, Range(ever'[s]))
            /\ s \notin overlapped' => Fresh(call, held'[1][s])
        BY <1>2, <1>4
      <3>2. CallIs(c)'
        BY <1>4, <3>1, CallIsSo
      <3>3. QED BY <2>1, <3>2
    <2>2. CASE d # c
      <3>1. CallIs(d) /\ caller'[d] = caller[d] /\ held'[1][caller[d].who] = held[1][caller[d].who]
            /\ \A p \in People : Range(ever[p]) \subseteq Range(ever'[p])
        BY <1>2, <1>4, <2>2 DEF MemoryInv
      <3>2. QED BY <1>3, <1>4, <3>1, CallStays
    <2>3. QED BY <2>1, <2>2
  <1>6. Apart'
    <2>1. ASSUME NEW d \in Callers, NEW e \in Callers,
                 caller'[d].stage # "idle", caller'[e].stage # "idle",
                 caller'[d].who = caller'[e].who, caller'[d].who \notin overlapped'
          PROVE  d = e
      <3>1. CASE d # c /\ e # c
        <4>1. caller'[d] = caller[d] /\ caller'[e] = caller[e]
          BY <1>2, <3>1
        <4>2. QED BY <1>1, <1>3, <2>1, <4>1 DEF Apart
      <3>2. CASE d = c /\ e # c
        <4>1. caller'[d].who = s /\ caller'[e] = caller[e]
          BY <1>2, <3>2
        <4>2. QED BY <1>3, <2>1, <4>1
      <3>3. CASE d # c /\ e = c
        <4>1. caller'[e].who = s /\ caller'[d] = caller[d]
          BY <1>2, <3>3
        <4>2. QED BY <1>3, <2>1, <4>1
      <3>4. QED BY <3>1, <3>2, <3>3
    <2>2. QED BY <2>1 DEF Apart
  <1>7. ASSUME NEW b \in DOMAIN mind, NEW p \in People PROVE HeldIs(b, p)'
    <2>1. /\ HeldIs(b, p) /\ held'[b][p] = held[b][p] /\ told'[b][p] = told[b][p]
          /\ Range(ever[p]) \subseteq Range(ever'[p])
      BY <1>4 DEF MemoryInv
    <2>2. QED BY <1>3, <1>4, <2>1, HeldStays
  <1>8. MemoryTyped' /\ ShelfIs' /\ \A b \in DOMAIN mind', p \in People : HeldIs(b, p)'
    BY <1>1, <1>2, <1>4, <1>7 DEF MemoryTyped, ShelfIs
  <1>9. QED BY <1>5, <1>6, <1>8 DEF MemoryInv

LEMMA ConverseKeeps ==
  ASSUME MemoryInv, NEW c \in Callers, NEW s \in People, NEW text \in Texts, Begin(c, s, text)
  PROVE  MemoryInv'
PROOF
  <1>1. PICK msgs \in Recalls(1, s, FALSE, 0) :
               Enters(c, [Idle EXCEPT !.stage = "running", !.who = s, !.text = text,
                                      !.heard = <<msgs>>])
    BY DEF Begin
  <1>2. UNCHANGED <<mind, held, shelf, told, ever>>
    BY DEF Begin
  <1> DEFINE said == <<msgs>>
             call == [[[[Idle EXCEPT !.stage = "running"] EXCEPT !.who = s]
                        EXCEPT !.text = text] EXCEPT !.heard = said]
  <1>3. Enters(c, call)
    BY <1>1
  <1>4. msgs \in Seq(Heard(s)) /\ 1 \in DOMAIN mind
    <2>1. 0 \in Nat /\ FALSE \in BOOLEAN /\ 1 \in DOMAIN mind
      BY MindIs DEF MemoryInv, MemoryTyped
    <2>2. QED BY <2>1, RecallsAre
  <1>5. msgs \in Seq(Told) /\ \A m \in Range(msgs) : Spoken(m) => m \in Range(ever[s])
    <2>1. Range(msgs) \subseteq Heard(s)
      BY <1>4, RangeOf
    <2>2. QED BY <1>4, <2>1, SeqWithin DEF Heard
  <1>6. said \in Seq(Seq(Told)) /\ said # <<>> /\ said[1] = msgs /\ DOMAIN said = {1}
    <2> DEFINE S == Seq(Told)
    <2> HIDE DEF S
    <2>1. msgs \in S
      BY <1>5 DEF S
    <2>2. <<msgs>> \in Seq(S) /\ <<msgs>> # <<>> /\ <<msgs>>[1] = msgs /\ DOMAIN <<msgs>> = {1}
      BY <2>1
    <2>3. QED BY <2>2 DEF S
  <1> HIDE DEF said
  <1>7. /\ call \in MemoryCall /\ call.who = s /\ call.at = 1 /\ call.stage = "running"
        /\ call.text = text /\ call.heard = said
    BY <1>6, IdleIs DEF MemoryCall
  <1> HIDE DEF call
  <1>8. Hearing(call, Range(ever[s])) /\ Giving(call, Range(ever[s]))
    BY <1>5, <1>6, <1>7 DEF Hearing, Giving
  <1>9. Fresh(call, held[1][s])
    <2>1. Alone("sliding") => msgs = AtMost(0, held[1][s].recent)
      BY <1>1 DEF Alone, Recalls
    <2>2. Alone("summary") => msgs = AtMost(0, Summed(held[1][s]) \o held[1][s].recent)
      BY <1>1 DEF Alone, Recalls
    <2>3. \A x : AtMost(0, x) = x
      BY DEF AtMost
    <2>4. QED BY <1>6, <1>7, <2>1, <2>2, <2>3 DEF Fresh
  <1>10. QED BY <1>2, <1>3, <1>7, <1>8, <1>9, EntersKeeps

LEMMA ClearKeeps ==
  ASSUME MemoryInv, NEW c \in Callers, NEW s \in People, Clear(c, s)
  PROVE  MemoryInv'
PROOF
  <1> DEFINE call == [[Idle EXCEPT !.stage = "clearing"] EXCEPT !.who = s]
  <1>1. Enters(c, call) /\ UNCHANGED <<mind, held, shelf, told, ever>>
    BY DEF Clear
  <1>2. call \in MemoryCall /\ call.who = s /\ call.at = 1 /\ call.stage = "clearing"
    BY IdleIs DEF MemoryCall
  <1> HIDE DEF call
  <1>3. Hearing(call, Range(ever[s])) /\ Giving(call, Range(ever[s])) /\ Fresh(call, held[1][s])
    BY <1>2 DEF Hearing, Giving, Fresh
  <1>4. QED BY <1>1, <1>2, <1>3, EntersKeeps

LEMMA MemoryKeeps == MemoryInv /\ [MemoryNext]_memoryVars => MemoryInv'
PROOF
  <1> SUFFICES ASSUME MemoryInv, [MemoryNext]_memoryVars PROVE MemoryInv'
    OBVIOUS
  <1>1. CASE UNCHANGED memoryVars
    <2>1. /\ mind' = mind /\ held' = held /\ shelf' = shelf /\ caller' = caller /\ told' = told
          /\ ever' = ever /\ overlapped' = overlapped
      BY <1>1 DEF memoryVars
    <2>2. MemoryTyped' /\ ShelfIs' /\ Apart'
      BY <2>1 DEF MemoryInv, MemoryTyped, ShelfIs, Apart
    <2>3. ASSUME NEW b \in DOMAIN mind, NEW s \in People PROVE HeldIs(b, s)'
      <3>1. /\ HeldIs(b, s) /\ held'[b][s] = held[b][s] /\ told'[b][s] = told[b][s]
            /\ overlapped \subseteq overlapped' /\ Range(ever[s]) \subseteq Range(ever'[s])
        BY <2>1 DEF MemoryInv
      <3>2. QED BY <2>1, <3>1, HeldStays
    <2>4. ASSUME NEW c \in Callers PROVE CallIs(c)'
      <3>1. /\ CallIs(c) /\ caller'[c] = caller[c] /\ overlapped \subseteq overlapped'
            /\ \A p \in People : Range(ever[p]) \subseteq Range(ever'[p])
            /\ held'[1][caller[c].who] = held[1][caller[c].who]
        BY <2>1 DEF MemoryInv
      <3>2. QED BY <2>1, <3>1, CallStays
    <2>5. \A b \in DOMAIN mind', s \in People : HeldIs(b, s)'
      BY <2>1, <2>3
    <2>6. QED BY <2>2, <2>4, <2>5 DEF MemoryInv
  <1>2. CASE MemoryNext
    <2>1. PICK c \in Callers :
            \/ \E s \in People : (\E text \in Texts : Begin(c, s, text)) \/ Clear(c, s)
            \/ Ask(c) \/ Answer(c) \/ GiveUp(c) \/ SaveHeld(c) \/ SaveMessage(c)
            \/ ClearHeld(c) \/ LookUp(c) \/ Delete(c)
      BY <1>2 DEF MemoryNext
    <2>2. CASE \E s \in People : (\E text \in Texts : Begin(c, s, text)) \/ Clear(c, s)
      BY <2>2, ConverseKeeps, ClearKeeps
    <2>3. CASE Ask(c) \/ Answer(c) \/ GiveUp(c)
      BY <2>3, AskKeeps, AnswerKeeps, GiveUpKeeps
    <2>4. CASE SaveHeld(c) \/ SaveMessage(c)
      BY <2>4, SaveHeldKeeps, SaveMessageKeeps
    <2>5. CASE ClearHeld(c) \/ LookUp(c) \/ Delete(c)
      BY <2>5, ClearHeldKeeps, LookUpKeeps, DeleteKeeps
    <2>6. QED BY <2>1, <2>2, <2>3, <2>4, <2>5
  <1>3. QED BY <1>1, <1>2

LEMMA MemoryMeets == MemoryInv => MemoriesFaithful
PROOF
  <1> SUFFICES ASSUME MemoryInv PROVE MemoriesFaithful
    OBVIOUS
  <1>1. ASSUME NEW s \in People, NEW limit \in 0..2, NEW found \in Answered(s, TRUE, limit)
        PROVE  /\ \A m \in Range(found) : Spoken(m) => m \in Range(ever[s])
               /\ limit > 0 => Len(found) <= limit
    <2>1. limit \in Nat /\ TRUE \in BOOLEAN
      OBVIOUS
    <2>2. found \in Seq(Heard(s)) /\ (limit > 0 => Len(found) <= limit)
      BY <2>1, AnswersAre
    <2>3. Range(found) \subseteq Heard(s)
      BY <2>2, RangeOf
    <2>4. QED BY <2>2, <2>3 DEF Heard
  <1>2. ASSUME NEW s \in People, NEW b \in DOMAIN mind PROVE HeldIs(b, s)
    BY DEF MemoryInv
  <1>3. IsInjective(shelf)
    BY DEF MemoryInv, ShelfIs
  <1>4. QED BY <1>1, <1>2, <1>3 DEF MemoriesFaithful, HeldIs, Has

(***************************************************************************)
(* Cutting a text.  A word joins the part before it if the two are in J.   *)
(***************************************************************************)
Passage == Seq(Word) \ {<<>>}

GroupStep(parts, w, J) ==
  IF parts # <<>> /\ <<Last(parts), w>> \in J
  THEN [parts EXCEPT ![Len(parts)] = Append(@, w)]
  ELSE Append(parts, <<w>>)

LEMMA GroupStepIs ==
  ASSUME NEW parts \in Seq(Passage), NEW w \in Word, NEW J
  PROVE  GroupStep(parts, w, J) \in Seq(Passage)
PROOF
  <1>1. <<w>> \in Passage
    BY DEF Passage
  <1>2. CASE parts # <<>> /\ <<Last(parts), w>> \in J
    <2>1. Last(parts) \in Passage /\ Len(parts) \in Nat \ {0}
      BY <1>1, <1>2, LastPart
    <2>2. Append(Last(parts), w) \in Passage
      BY SMTT(40), <2>1 DEF Passage
    <2>3. parts[Len(parts)] = Last(parts)
      BY DEF Last
    <2>4. [parts EXCEPT ![Len(parts)] = Append(Last(parts), w)] \in Seq(Passage)
      <3> DEFINE p == Append(Last(parts), w)
      <3> HIDE DEF p
      <3>1. p \in Passage
        BY <2>2 DEF p
      <3>2. [parts EXCEPT ![Len(parts)] = p] \in Seq(Passage)
        BY <2>1, <3>1
      <3>3. QED BY <3>2 DEF p
    <2>5. QED BY <1>2, <2>3, <2>4 DEF GroupStep
  <1>3. CASE ~(parts # <<>> /\ <<Last(parts), w>> \in J)
    BY <1>1, <1>3 DEF GroupStep
  <1>4. QED BY <1>2, <1>3

(* There is a table of the steps, and a fold that takes them is it.        *)
LEMMA GroupSetTable ==
  ASSUME NEW text \in Seq(Word), NEW J
  PROVE  \E g \in [SUBSET (1..Len(text)) -> Seq(Passage)] :
           \A t \in SUBSET (1..Len(text)) :
             g[t] = IF t = {} THEN <<>>
                    ELSE GroupStep(g[t \ {Max(t)}], text[Max(t)], J)
PROOF
  <1> DEFINE n == Len(text)
             V == Seq(Passage)
             none == <<>>
             step == [i \in 1..n |-> [v \in V |-> GroupStep(v, text[i], J)]]
  <1>1. n \in Nat /\ none \in V /\ \A i \in 1..n : text[i] \in Word
    OBVIOUS
  <1>2. \A i \in 1..n, v \in V : GroupStep(v, text[i], J) \in V
    BY <1>1, GroupStepIs
  <1> HIDE DEF n, V, none
  <1>3. step \in [1..n -> [V -> V]] /\ \A i \in 1..n, v \in V : step[i][v] = GroupStep(v, text[i], J)
    BY <1>2
  <1> HIDE DEF step
  <1>4. PICK g \in [SUBSET (1..n) -> V] : IsSetTable(g, n, none, step)
    <2>1. n \in Nat /\ none \in V /\ step \in [1..n -> [V -> V]]
      BY <1>1, <1>3
    <2>2. QED BY <2>1, SetTable
  <1>5. ASSUME NEW t \in SUBSET (1..n)
        PROVE  g[t] = IF t = {} THEN none ELSE GroupStep(g[t \ {Max(t)}], text[Max(t)], J)
    <2>1. CASE t = {}
      BY <1>4, <2>1 DEF IsSetTable
    <2>2. CASE t # {}
      <3>1. Max(t) \in t /\ t \ {Max(t)} \in SUBSET (1..n)
        BY <1>1, <2>2, MaxUpTo
      <3>2. Max(t) \in 1..n /\ g[t \ {Max(t)}] \in V
        BY <3>1
      <3>3. QED BY <1>3, <1>4, <2>2, <3>2 DEF IsSetTable
    <2>3. QED BY <2>1, <2>2
  <1>6. QED BY <1>5 DEF n, V, none

IsGrouping(f, text, J) ==
  /\ f \in [0..Len(text) -> Seq(Passage)]
  /\ f[0] = <<>>
  /\ \A i \in 1..Len(text) : f[i] = GroupStep(f[i - 1], text[i], J)

LEMMA GroupFold ==
  ASSUME NEW text \in Seq(Word), NEW J, NEW fold, fold[{}] = <<>>,
         \A k \in 1..Len(text) :
           fold[1..(k - 1)] \in Seq(Passage) =>
             fold[1..k] = GroupStep(fold[1..(k - 1)], text[k], J)
  PROVE  \E f : IsGrouping(f, text, J) /\ fold[1..Len(text)] = f[Len(text)]
PROOF
  <1> DEFINE n == Len(text)
             V == Seq(Passage)
             none == <<>>
             step == [i \in 1..n |-> [v \in V |-> GroupStep(v, text[i], J)]]
  <1>1. n \in Nat /\ none \in V /\ \A i \in 1..n : text[i] \in Word
    OBVIOUS
  <1>2. \A i \in 1..n, v \in V : GroupStep(v, text[i], J) \in V
    BY <1>1, GroupStepIs
  <1>3. \A k \in 1..n :
          fold[1..(k - 1)] \in V => fold[1..k] = GroupStep(fold[1..(k - 1)], text[k], J)
    OBVIOUS
  <1>4. fold[{}] = none
    OBVIOUS
  <1> HIDE DEF n, V, none
  <1>5. step \in [1..n -> [V -> V]] /\ \A i \in 1..n, v \in V : step[i][v] = GroupStep(v, text[i], J)
    BY <1>2
  <1> HIDE DEF step
  <1>6. PICK f \in [0..n -> V] : IsTable(f, n, none, step) /\ fold[1..n] = f[n]
    <2>1. /\ n \in Nat /\ none \in V /\ step \in [1..n -> [V -> V]]
          /\ IsFold(fold, n, V, none, step)
      BY <1>1, <1>3, <1>4, <1>5 DEF IsFold
    <2>2. QED BY <2>1, FoldTable
  <1>7. \A i \in 1..n : f[i - 1] \in V
    BY <1>1, <1>6
  <1>8. f[0] = none /\ \A i \in 1..n : f[i] = GroupStep(f[i - 1], text[i], J)
    BY <1>5, <1>6, <1>7 DEF IsTable
  <1>9. IsGrouping(f, text, J)
    BY <1>6, <1>8 DEF IsGrouping, n, V, none
  <1>10. QED BY <1>6, <1>9 DEF n

LEMMA SpacedIs ==
  ASSUME NEW text \in Seq(Word)
  PROVE  Spaced(text) \in Seq(Word) /\ Bare(Spaced(text)) = Bare(text)
PROOF
  <1> DEFINE n == Len(text)
  <1>1. n \in Nat /\ DOMAIN text = 1..n /\ \A i \in 1..n : text[i] \in Word
    OBVIOUS
  <1>2. \A w \in Word : [w EXCEPT !.sep = 4] \in Word /\ [w EXCEPT !.sep = 4].len = w.len
    BY DEF Word
  <1> HIDE DEF n
  <1>3. Spaced(text) = [i \in 1..n |-> [text[i] EXCEPT !.sep = 4]]
    BY <1>1 DEF Spaced
  <1>4. Spaced(text) \in Seq(Word)
    BY SMTT(40), <1>1, <1>2, <1>3
  <1>5. DOMAIN Spaced(text) = 1..n /\ \A i \in 1..n : Spaced(text)[i].len = text[i].len
    BY <1>1, <1>2, <1>3
  <1>6. Bare(Spaced(text)) = Bare(text)
    BY <1>1, <1>5 DEF Bare
  <1>7. QED BY <1>4, <1>6

(* The words that fit after a part, and those that come within a rank.     *)
Fits(size) == {x \in Passage \X Word : Size(Append(x[1], x[2])) <= size}
InRank(rank) == {x \in Passage \X Word : Last(x[1]).sep # rank}

LEMMA FixedGroups ==
  ASSUME NEW given \in Seq(Word), NEW size
  PROVE  \E f : /\ IsGrouping(f, Spaced(given), Fits(size))
                /\ Fixed(given, size) = f[Len(Spaced(given))]
PROOF
  <1> DEFINE text == Spaced(given)
             n == Len(text)
             V == Seq(Passage)
             J == Fits(size)
             JoinedTo(parts, w) ==
               IF parts # <<>> /\ Size(Append(Last(parts), w)) <= size
               THEN [parts EXCEPT ![Len(parts)] = Append(@, w)]
               ELSE Append(parts, <<w>>)
             Is(g) == g = [s \in SUBSET DOMAIN text |->
                             IF s = {} THEN <<>>
                             ELSE LET x == Max(s) IN JoinedTo(g[s \ {x}], text[x])]
             fold == CHOOSE g : Is(g)
             all == Fixed(given, size)
  <1>1. all = fold[DOMAIN text]
    BY DEF Fixed, Grouped, FoldLeft, MapThenFoldSet
  <1>0. text \in Seq(Word)
    BY SpacedIs
  <1> HIDE DEF text
  <1>2. n \in Nat /\ DOMAIN text = 1..n /\ \A i \in 1..n : text[i] \in Word
    BY <1>0
  <1>3. \A v \in V, w \in Word : JoinedTo(v, w) = GroupStep(v, w, J)
    <2> SUFFICES ASSUME NEW v \in V, NEW w \in Word PROVE JoinedTo(v, w) = GroupStep(v, w, J)
      OBVIOUS
    <2>1. v # <<>> => Last(v) \in Passage
      <3>1. \A p \in Passage : v # <<>> => Last(v) \in Passage
        BY LastPart
      <3>2. <<w>> \in Passage
        BY DEF Passage
      <3>3. QED BY <3>1, <3>2
    <2>2. v # <<>> => (<<Last(v), w>> \in J <=> Size(Append(Last(v), w)) <= size)
      BY <2>1 DEF Fits
    <2>3. QED BY <2>2 DEF GroupStep
  <1>4. PICK g \in [SUBSET (1..n) -> V] :
               \A t \in SUBSET (1..n) :
                 g[t] = IF t = {} THEN <<>> ELSE GroupStep(g[t \ {Max(t)}], text[Max(t)], J)
    BY <1>0, GroupSetTable
  <1> HIDE DEF n, V, J, JoinedTo, all
  <1>5. Is(fold)
    <2>1. ASSUME NEW t \in SUBSET (1..n)
          PROVE  g[t] = IF t = {} THEN <<>> ELSE JoinedTo(g[t \ {Max(t)}], text[Max(t)])
      <3>1. CASE t # {}
        <4>1. Max(t) \in t /\ t \ {Max(t)} \in SUBSET (1..n)
          BY <1>2, <3>1, MaxUpTo
        <4>2. text[Max(t)] \in Word /\ g[t \ {Max(t)}] \in V
          BY <1>2, <4>1
        <4>3. QED BY <1>3, <1>4, <3>1, <4>2
      <3>2. QED BY <1>4, <3>1
    <2>2. Is(g)
      BY <1>2, <2>1
    <2> HIDE DEF Is
    <2>3. QED BY <2>2
  <1>6. \A t \in SUBSET (1..n) :
          fold[t] = IF t = {} THEN <<>> ELSE JoinedTo(fold[t \ {Max(t)}], text[Max(t)])
    <2> DEFINE F(t) == IF t = {} THEN <<>> ELSE JoinedTo(fold[t \ {Max(t)}], text[Max(t)])
    <2>1. fold = [t \in SUBSET (1..n) |-> F(t)]
      BY <1>2, <1>5
    <2> HIDE DEF fold, F
    <2>2. \A t \in SUBSET (1..n) : fold[t] = F(t)
      BY <2>1
    <2>3. QED BY <2>2 DEF F
  <1> HIDE DEF fold
  <1>7. ASSUME NEW k \in 1..n, fold[1..(k - 1)] \in V
        PROVE  fold[1..k] = GroupStep(fold[1..(k - 1)], text[k], J)
    <2>1. /\ 1..k \in SUBSET (1..n) /\ 1..k # {}
          /\ Max(1..k) = k /\ (1..k) \ {k} = 1..(k - 1)
      BY <1>2, FirstPlaces
    <2>2. fold[1..k] = JoinedTo(fold[1..(k - 1)], text[k])
      BY <1>6, <2>1
    <2>3. QED BY <1>2, <1>3, <1>7, <2>2
  <1>8. fold[{}] = <<>>
    BY <1>6
  <1>9. \E f : IsGrouping(f, text, J) /\ fold[1..n] = f[n]
    BY <1>0, <1>7, <1>8, GroupFold DEF n, V
  <1>10. QED BY <1>1, <1>2, <1>9 DEF n, J, all, text

LEMMA SplitGroups ==
  ASSUME NEW text \in Seq(Word), NEW rank
  PROVE  \E f : /\ IsGrouping(f, text, InRank(rank))
                /\ SplitAt(text, rank) = f[Len(text)]
PROOF
  <1> DEFINE n == Len(text)
             V == Seq(Passage)
             J == InRank(rank)
             JoinedTo(parts, w) ==
               IF parts # <<>> /\ Last(Last(parts)).sep # rank
               THEN [parts EXCEPT ![Len(parts)] = Append(@, w)]
               ELSE Append(parts, <<w>>)
             Is(g) == g = [s \in SUBSET DOMAIN text |->
                             IF s = {} THEN <<>>
                             ELSE LET x == Max(s) IN JoinedTo(g[s \ {x}], text[x])]
             fold == CHOOSE g : Is(g)
             all == SplitAt(text, rank)
  <1>1. all = fold[DOMAIN text]
    BY DEF SplitAt, Grouped, FoldLeft, MapThenFoldSet
  <1>2. n \in Nat /\ DOMAIN text = 1..n /\ \A i \in 1..n : text[i] \in Word
    OBVIOUS
  <1>3. \A v \in V, w \in Word : JoinedTo(v, w) = GroupStep(v, w, J)
    <2> SUFFICES ASSUME NEW v \in V, NEW w \in Word PROVE JoinedTo(v, w) = GroupStep(v, w, J)
      OBVIOUS
    <2>1. v # <<>> => Last(v) \in Passage
      <3>1. \A p \in Passage : v # <<>> => Last(v) \in Passage
        BY LastPart
      <3>2. <<w>> \in Passage
        BY DEF Passage
      <3>3. QED BY <3>1, <3>2
    <2>2. v # <<>> => (<<Last(v), w>> \in J <=> Last(Last(v)).sep # rank)
      BY <2>1 DEF InRank
    <2>3. QED BY <2>2 DEF GroupStep
  <1>4. PICK g \in [SUBSET (1..n) -> V] :
               \A t \in SUBSET (1..n) :
                 g[t] = IF t = {} THEN <<>> ELSE GroupStep(g[t \ {Max(t)}], text[Max(t)], J)
    BY GroupSetTable
  <1> HIDE DEF n, V, J, JoinedTo, all
  <1>5. Is(fold)
    <2>1. ASSUME NEW t \in SUBSET (1..n)
          PROVE  g[t] = IF t = {} THEN <<>> ELSE JoinedTo(g[t \ {Max(t)}], text[Max(t)])
      <3>1. CASE t # {}
        <4>1. Max(t) \in t /\ t \ {Max(t)} \in SUBSET (1..n)
          BY <1>2, <3>1, MaxUpTo
        <4>2. text[Max(t)] \in Word /\ g[t \ {Max(t)}] \in V
          BY <1>2, <4>1
        <4>3. QED BY <1>3, <1>4, <3>1, <4>2
      <3>2. QED BY <1>4, <3>1
    <2>2. Is(g)
      BY <1>2, <2>1
    <2> HIDE DEF Is
    <2>3. QED BY <2>2
  <1>6. \A t \in SUBSET (1..n) :
          fold[t] = IF t = {} THEN <<>> ELSE JoinedTo(fold[t \ {Max(t)}], text[Max(t)])
    <2> DEFINE F(t) == IF t = {} THEN <<>> ELSE JoinedTo(fold[t \ {Max(t)}], text[Max(t)])
    <2>1. fold = [t \in SUBSET (1..n) |-> F(t)]
      BY <1>2, <1>5
    <2> HIDE DEF fold, F
    <2>2. \A t \in SUBSET (1..n) : fold[t] = F(t)
      BY <2>1
    <2>3. QED BY <2>2 DEF F
  <1> HIDE DEF fold
  <1>7. ASSUME NEW k \in 1..n, fold[1..(k - 1)] \in V
        PROVE  fold[1..k] = GroupStep(fold[1..(k - 1)], text[k], J)
    <2>1. /\ 1..k \in SUBSET (1..n) /\ 1..k # {}
          /\ Max(1..k) = k /\ (1..k) \ {k} = 1..(k - 1)
      BY <1>2, FirstPlaces
    <2>2. fold[1..k] = JoinedTo(fold[1..(k - 1)], text[k])
      BY <1>6, <2>1
    <2>3. QED BY <1>2, <1>3, <1>7, <2>2
  <1>8. fold[{}] = <<>>
    BY <1>6
  <1>9. \E f : IsGrouping(f, text, J) /\ fold[1..n] = f[n]
    BY <1>7, <1>8, GroupFold DEF n, V
  <1>10. QED BY <1>1, <1>2, <1>9 DEF n, J, all

(* In G, the word may join the last part.                                  *)
JoinsIn(parts, w, J, G) ==
  parts # <<>> /\ <<Last(parts), w>> \in J => Append(Last(parts), w) \in G

LEMMA GroupStepMeets ==
  ASSUME NEW G \in SUBSET Passage, NEW J, NEW parts \in Seq(G), NEW w \in Word, <<w>> \in G,
         JoinsIn(parts, w, J, G)
  PROVE  /\ GroupStep(parts, w, J) \in Seq(G)
         /\ FlattenSeq(GroupStep(parts, w, J)) = Append(FlattenSeq(parts), w)
         /\ GroupStep(parts, w, J) # <<>>
         /\ Last(Last(GroupStep(parts, w, J))) = w
PROOF
  <1>1. G \subseteq Seq(Word) /\ <<w>> \in Seq(Word) /\ parts \in Seq(Seq(Word))
    BY DEF Passage
  <1>2. CASE parts # <<>> /\ <<Last(parts), w>> \in J
    <2> DEFINE front == SubSeq(parts, 1, Len(parts) - 1)
               p == Append(Last(parts), w)
    <2>1. p \in G
      BY <1>2 DEF JoinsIn
    <2>2. /\ Last(parts) \in G /\ front \in Seq(G)
          /\ parts = Append(front, Last(parts))
          /\ [parts EXCEPT ![Len(parts)] = p] = Append(front, p)
      <3> HIDE DEF p
      <3>1. QED BY <1>2, <2>1, LastPart
    <2>3. GroupStep(parts, w, J) = [parts EXCEPT ![Len(parts)] = p]
      <3>1. parts[Len(parts)] = Last(parts)
        BY DEF Last
      <3>2. QED BY <1>2, <3>1 DEF GroupStep
    <2>4. Last(parts) \in Seq(Word) /\ p \in Seq(Word) /\ front \in Seq(Seq(Word))
      <3> HIDE DEF front, p
      <3>1. QED BY <1>1, <2>1, <2>2
    <2>5. Last(p) = w
      BY <2>4, LastAppended
    <2>6. FlattenSeq(front) \in Seq(Word)
          /\ FlattenSeq(Append(front, Last(parts))) = FlattenSeq(front) \o Last(parts)
          /\ FlattenSeq(Append(front, p)) = FlattenSeq(front) \o p
      <3> HIDE DEF front, p
      <3>1. QED BY <2>4, FlattenAppend
    <2>7. FlattenSeq(front) \o p = Append(FlattenSeq(front) \o Last(parts), w)
      <3> DEFINE a == FlattenSeq(front)
                 b == Last(parts)
      <3>1. a \in Seq(Word) /\ b \in Seq(Word)
        BY <2>4, <2>6
      <3> HIDE DEF a, b
      <3>2. a \o Append(b, w) = Append(a \o b, w)
        BY <3>1
      <3>3. QED BY <3>2 DEF a, b
    <2> HIDE DEF p, front
    <2>8. Append(front, p) \in Seq(G) /\ Last(Append(front, p)) = p /\ Append(front, p) # <<>>
      BY <2>1, <2>2, LastAppended
    <2>9. QED BY <2>2, <2>3, <2>5, <2>6, <2>7, <2>8
  <1>3. CASE ~(parts # <<>> /\ <<Last(parts), w>> \in J)
    <2>1. GroupStep(parts, w, J) = Append(parts, <<w>>)
      BY <1>3 DEF GroupStep
    <2>2. FlattenSeq(parts) \in Seq(Word)
          /\ FlattenSeq(Append(parts, <<w>>)) = FlattenSeq(parts) \o <<w>>
      BY <1>1, FlattenAppend
    <2>3. FlattenSeq(parts) \o <<w>> = Append(FlattenSeq(parts), w)
      BY <2>2, AppendedIs
    <2>4. /\ Append(parts, <<w>>) \in Seq(G) /\ Last(Append(parts, <<w>>)) = <<w>>
          /\ Append(parts, <<w>>) # <<>>
      BY LastAppended
    <2>5. Last(<<w>>) = w
      BY DEF Last
    <2>6. QED BY <2>1, <2>2, <2>3, <2>4, <2>5
  <1>4. QED BY <1>2, <1>3

(* The parts are what joins up, and hold the words of the text in order.   *)
LEMMA GroupsMeet ==
  ASSUME NEW text \in Seq(Word), NEW G \in SUBSET Passage, NEW J, NEW f,
         IsGrouping(f, text, J),
         \A w \in Word : <<w>> \in G,
         \A k \in 1..Len(text) : \A p \in G :
           k > 1 /\ Last(p) = text[k - 1] /\ <<p, text[k]>> \in J => Append(p, text[k]) \in G
  PROVE  f[Len(text)] \in Seq(G) /\ FlattenSeq(f[Len(text)]) = text
PROOF
  <1> DEFINE n == Len(text)
             Good(k) == /\ f[k] \in Seq(G)
                        /\ FlattenSeq(f[k]) = SubSeq(text, 1, k)
                        /\ f[k] # <<>> => k > 0 /\ Last(Last(f[k])) = text[k]
             N == {k \in 0..n : Good(k)}
  <1>1. n \in Nat /\ \A i \in 1..n : text[i] \in Word
    OBVIOUS
  <1>2. f[0] = <<>> /\ \A i \in 1..n : f[i] = GroupStep(f[i - 1], text[i], J)
    BY DEF IsGrouping
  <1>3. Good(0)
    <2>1. SubSeq(text, 1, 0) = <<>>
      BY SubSeqEmpty
    <2>2. f[0] = <<>>
      BY <1>2
    <2>3. f[0] \in Seq(G)
      BY <2>2
    <2>4. FlattenSeq(f[0]) = SubSeq(text, 1, 0)
      BY <2>1, <2>2, FlattenEmpty
    <2>5. QED BY <2>2, <2>3, <2>4
  <1>4. ASSUME NEW k \in Nat, k < n, Good(k) PROVE Good(k + 1)
    <2> DEFINE parts == f[k]
               w == text[k + 1]
    <2>1. k + 1 \in 1..n /\ w \in Word /\ parts \in Seq(G) /\ f[k + 1] = GroupStep(parts, w, J)
      <3>1. k + 1 \in 1..n /\ (k + 1) - 1 = k
        BY <1>1, <1>4
      <3>2. QED BY <1>1, <1>2, <1>4, <3>1
    <2>2. parts # <<>> /\ <<Last(parts), w>> \in J => Append(Last(parts), w) \in G
      <3> SUFFICES ASSUME parts # <<>>, <<Last(parts), w>> \in J
                   PROVE  Append(Last(parts), w) \in G
        OBVIOUS
      <3>1. k > 0 /\ Last(Last(parts)) = text[k]
        BY <1>4
      <3>2. Last(parts) \in G
        <4>1. \A p \in G : Last(parts) \in G
          BY <2>1, LastPart
        <4>2. <<w>> \in G
          BY <2>1
        <4>3. QED BY <4>1, <4>2
      <3>3. k + 1 > 1 /\ (k + 1) - 1 = k
        BY <3>1
      <3> HIDE DEF parts
      <3>4. QED BY <2>1, <3>1, <3>2, <3>3
    <2>3. <<w>> \in G
      BY <2>1
    <2>4. /\ f[k + 1] \in Seq(G)
          /\ FlattenSeq(f[k + 1]) = Append(FlattenSeq(parts), w)
          /\ Last(Last(f[k + 1])) = w
      <3> HIDE DEF parts, w
      <3>1. /\ parts \in Seq(G) /\ w \in Word /\ <<w>> \in G
            /\ JoinsIn(parts, w, J, G)
        BY <2>1, <2>2, <2>3 DEF JoinsIn
      <3>2. /\ GroupStep(parts, w, J) \in Seq(G)
            /\ FlattenSeq(GroupStep(parts, w, J)) = Append(FlattenSeq(parts), w)
            /\ Last(Last(GroupStep(parts, w, J))) = w
        BY <3>1, GroupStepMeets
      <3>3. QED BY <2>1, <3>2
    <2>5. Append(SubSeq(text, 1, k), w) = SubSeq(text, 1, k + 1)
      <3> DEFINE a == SubSeq(text, 1, k)
                 b == SubSeq(text, 1, k + 1)
      <3>1. /\ a \in Seq(Word) /\ Len(a) = k /\ \A i \in 1..k : a[i] = text[i]
            /\ b \in Seq(Word) /\ Len(b) = k + 1 /\ \A i \in 1..(k + 1) : b[i] = text[i]
        BY <1>1, <1>4
      <3> HIDE DEF a, b
      <3>2. /\ Append(a, w) \in Seq(Word) /\ Len(Append(a, w)) = k + 1
            /\ \A i \in 1..k : Append(a, w)[i] = a[i]
            /\ Append(a, w)[k + 1] = w
        BY <2>1, <3>1, AppendedIs
      <3>3. \A i \in 1..(k + 1) : Append(a, w)[i] = b[i]
        <4>1. \A i \in 1..(k + 1) : i \in 1..k \/ i = k + 1
          BY <1>4
        <4> HIDE DEF w
        <4>2. \A i \in 1..k : Append(a, w)[i] = b[i]
          BY <3>1, <3>2
        <4>3. Append(a, w)[k + 1] = b[k + 1]
          <5>1. k + 1 \in 1..(k + 1)
            BY <1>4
          <5>2. QED BY <3>1, <3>2, <5>1 DEF w
        <4>4. QED BY <4>1, <4>2, <4>3
      <3>4. QED BY <3>1, <3>2, <3>3, SeqEqual DEF a, b
    <2>6. QED BY <1>4, <2>4, <2>5
  <1> HIDE DEF Good
  <1>5. 0 \in N /\ \A k \in Nat : k < n /\ k \in N => k + 1 \in N
    BY <1>1, <1>3, <1>4
  <1>6. Good(n)
    <2> HIDE DEF n, N
    <2>1. \A k \in 0..n : k \in N
      BY <1>1, <1>5, Induction
    <2>2. n \in 0..n
      BY <1>1
    <2>3. QED BY <2>1, <2>2 DEF N
  <1>7. SubSeq(text, 1, n) = text
    <2>1. /\ SubSeq(text, 1, n) \in Seq(Word) /\ Len(SubSeq(text, 1, n)) = n
          /\ \A i \in 1..n : SubSeq(text, 1, n)[i] = text[i]
      BY <1>1
    <2>2. QED BY <2>1, SeqEqual
  <1>8. QED BY <1>6, <1>7 DEF Good

(* What is a single word or fits, and what is split by every rank below    *)
(* one or fits.                                                            *)
Small(size) == {p \in Passage : Len(p) = 1 \/ Size(p) <= size}
Inner(text) == {text[i].sep : i \in 1..(Len(text) - 1)}
Fine(rank, size) == {p \in Passage : Size(p) <= size \/ Inner(p) \subseteq rank..4}

LEMMA FixedIs ==
  ASSUME NEW text \in Seq(Word), NEW size
  PROVE  /\ Fixed(text, size) \in Seq(Small(size))
         /\ Bare(FlattenSeq(Fixed(text, size))) = Bare(text)
PROOF
  <1> DEFINE t == Spaced(text)
             G == Small(size)
             J == Fits(size)
  <1>1. t \in Seq(Word) /\ Bare(t) = Bare(text)
    BY SpacedIs
  <1> HIDE DEF t
  <1>2. PICK f : IsGrouping(f, t, J) /\ Fixed(text, size) = f[Len(t)]
    BY FixedGroups DEF t
  <1>3. Fixed(text, size) = f[Len(t)]
    BY <1>2
  <1>4. G \in SUBSET Passage /\ \A w \in Word : <<w>> \in G
    BY DEF Small, Passage
  <1>5. \A k \in 1..Len(t) : \A p \in G :
          k > 1 /\ Last(p) = t[k - 1] /\ <<p, t[k]>> \in J => Append(p, t[k]) \in G
    <2> SUFFICES ASSUME NEW k \in 1..Len(t), NEW p \in G, <<p, t[k]>> \in J
                 PROVE  Append(p, t[k]) \in G
      OBVIOUS
    <2>1. t[k] \in Word
      BY <1>1
    <2>2. Size(Append(p, t[k])) <= size
      BY DEF Fits
    <2>3. Append(p, t[k]) \in Passage
      BY <1>4, <2>1 DEF Passage
    <2>4. QED BY <2>2, <2>3 DEF Small
  <1>6. f[Len(t)] \in Seq(G) /\ FlattenSeq(f[Len(t)]) = t
    <2> HIDE DEF G, J
    <2>1. QED BY <1>1, <1>2, <1>4, <1>5, GroupsMeet
  <1>7. QED BY <1>1, <1>3, <1>6

LEMMA InnerIs ==
  ASSUME NEW p \in Passage, NEW w \in Word
  PROVE  /\ Inner(<<w>>) = {}
         /\ Inner(Append(p, w)) = Inner(p) \cup {Last(p).sep}
         /\ Inner(p) = {} => Len(p) = 1
         /\ Inner(p) \subseteq 1..4
PROOF
  <1> DEFINE n == Len(p)
             a == Append(p, w)
  <1>1. n \in Nat \ {0} /\ \A i \in 1..n : p[i] \in Word
    BY DEF Passage
  <1>2. /\ Len(a) = n + 1 /\ \A i \in 1..n : a[i] = p[i]
    <2>1. p \in Seq(Word)
      BY DEF Passage
    <2>2. QED BY <2>1, AppendedIs
  <1>3. Last(p) = p[n]
    BY DEF Last
  <1> HIDE DEF n, a
  <1>4. Inner(a) = Inner(p) \cup {Last(p).sep}
    <2>1. Inner(a) = {a[i].sep : i \in 1..n}
      <3>1. (n + 1) - 1 = n
        BY <1>1
      <3>2. QED BY <1>2, <3>1 DEF Inner
    <2>2. Inner(p) = {p[i].sep : i \in 1..(n - 1)}
      BY DEF Inner, n
    <2>3. \A i \in 1..n : i \in 1..(n - 1) \/ i = n
      BY <1>1
    <2>4. n \in 1..n /\ \A i \in 1..(n - 1) : i \in 1..n
      BY <1>1
    <2>5. QED BY <1>2, <1>3, <2>1, <2>2, <2>3, <2>4
  <1>5. Inner(<<w>>) = {}
    BY DEF Inner
  <1>6. Inner(p) = {} => n = 1
    <2>1. n # 1 => 1 \in 1..(n - 1)
      BY <1>1
    <2>2. 1 \in 1..(n - 1) => p[1].sep \in Inner(p)
      BY DEF Inner, n
    <2>3. QED BY <2>1, <2>2
  <1>7. Inner(p) \subseteq 1..4
    <2>1. \A i \in 1..(n - 1) : p[i] \in Word
      <3>1. \A i \in 1..(n - 1) : i \in 1..n
        BY <1>1
      <3>2. QED BY <1>1, <3>1
    <2>2. \A v \in Word : v.sep \in 1..4
      BY DEF Word
    <2>3. QED BY <2>1, <2>2 DEF Inner, n
  <1>8. QED BY <1>4, <1>5, <1>6, <1>7 DEF n, a

LEMMA SplitAtIs ==
  ASSUME NEW text \in Seq(Word), NEW rank
  PROVE  /\ SplitAt(text, rank) \in Seq({p \in Passage : Inner(p) \subseteq Inner(text) \ {rank}})
         /\ FlattenSeq(SplitAt(text, rank)) = text
PROOF
  <1> DEFINE G == {p \in Passage : Inner(p) \subseteq Inner(text) \ {rank}}
             J == InRank(rank)
  <1>1. PICK f : IsGrouping(f, text, J) /\ SplitAt(text, rank) = f[Len(text)]
    BY SplitGroups
  <1>2. SplitAt(text, rank) = f[Len(text)]
    BY <1>1
  <1>3. G \in SUBSET Passage
    OBVIOUS
  <1>4. \A w \in Word : <<w>> \in G
    <2> SUFFICES ASSUME NEW w \in Word PROVE <<w>> \in G
      OBVIOUS
    <2>1. <<w>> \in Passage
      BY DEF Passage
    <2>2. Inner(<<w>>) = {}
      BY <2>1, InnerIs
    <2>3. QED BY <2>1, <2>2
  <1>5. \A k \in 1..Len(text) : \A p \in G :
          k > 1 /\ Last(p) = text[k - 1] /\ <<p, text[k]>> \in J => Append(p, text[k]) \in G
    <2> SUFFICES ASSUME NEW k \in 1..Len(text), NEW p \in G, k > 1, Last(p) = text[k - 1],
                        <<p, text[k]>> \in J
                 PROVE  Append(p, text[k]) \in G
      OBVIOUS
    <2>1. text[k] \in Word /\ p \in Passage /\ Append(p, text[k]) \in Passage
      BY SMTT(40) DEF Passage
    <2>2. Last(p).sep # rank
      BY DEF InRank
    <2>3. Last(p).sep \in Inner(text)
      <3>1. k - 1 \in 1..(Len(text) - 1)
        OBVIOUS
      <3>2. QED BY <3>1 DEF Inner
    <2>4. Inner(Append(p, text[k])) = Inner(p) \cup {Last(p).sep}
      BY <2>1, InnerIs
    <2>5. QED BY <2>1, <2>2, <2>3, <2>4
  <1>6. f[Len(text)] \in Seq(G) /\ FlattenSeq(f[Len(text)]) = text
    <2> HIDE DEF G, J
    <2>1. QED BY <1>1, <1>3, <1>4, <1>5, GroupsMeet
  <1>7. QED BY <1>2, <1>6

LEMMA CutIs ==
  ASSUME NEW rank \in 1..4, NEW size, NEW part \in Fine(rank, size)
  PROVE  /\ Cut(part, rank, size) \in Seq(Fine(rank + 1, size))
         /\ FlattenSeq(Cut(part, rank, size)) = part
PROOF
  <1>1. part \in Passage /\ part \in Seq(Word)
    BY DEF Fine, Passage
  <1>2. CASE Size(part) <= size
    <2>1. part \in Fine(rank + 1, size)
      BY <1>1, <1>2 DEF Fine
    <2>2. Cut(part, rank, size) = <<part>>
      BY <1>2 DEF Cut
    <2>3. FlattenSeq(<<part>>) = part
      BY <1>1, FlattenOne
    <2>4. QED BY <2>1, <2>2, <2>3
  <1>3. CASE ~(Size(part) <= size)
    <2> DEFINE G == {p \in Passage : Inner(p) \subseteq Inner(part) \ {rank}}
    <2>1. Cut(part, rank, size) = SplitAt(part, rank)
      BY <1>3 DEF Cut
    <2>2. Inner(part) \subseteq rank..4
      BY <1>3 DEF Fine
    <2>3. \A x \in rank..4 : x = rank \/ x \in (rank + 1)..4
      OBVIOUS
    <2>4. G \subseteq Fine(rank + 1, size)
      BY <2>2, <2>3 DEF Fine
    <2>5. SplitAt(part, rank) \in Seq(G) /\ FlattenSeq(SplitAt(part, rank)) = part
      BY <1>1, SplitAtIs
    <2> HIDE DEF G
    <2>6. SplitAt(part, rank) \in Seq(Fine(rank + 1, size))
      BY <2>4, <2>5
    <2>7. QED BY <2>1, <2>5, <2>6
  <1>4. QED BY <1>2, <1>3

LEMMA SplitMoreIs ==
  ASSUME NEW rank \in 1..4, NEW size, NEW parts \in Seq(Fine(rank, size))
  PROVE  /\ SplitMore(parts, rank, size) \in Seq(Fine(rank + 1, size))
         /\ FlattenSeq(SplitMore(parts, rank, size)) = FlattenSeq(parts)
PROOF
  <1> DEFINE n == Len(parts)
             G == Fine(rank + 1, size)
             cuts == [i \in DOMAIN parts |-> Cut(parts[i], rank, size)]
  <1>1. n \in Nat /\ DOMAIN parts = 1..n /\ \A i \in 1..n : parts[i] \in Fine(rank, size)
    OBVIOUS
  <1>2. \A i \in 1..n : /\ Cut(parts[i], rank, size) \in Seq(G)
                        /\ FlattenSeq(Cut(parts[i], rank, size)) = parts[i]
    BY <1>1, CutIs
  <1>3. G \subseteq Seq(Word)
    BY DEF Fine, Passage
  <1> HIDE DEF n, G
  <1>4. /\ cuts \in Seq(Seq(G)) /\ cuts \in Seq(Seq(Seq(Word)))
        /\ DOMAIN cuts = 1..n
        /\ \A i \in 1..n : FlattenSeq(cuts[i]) = parts[i]
    <2>1. \A v \in Seq(G) : v \in Seq(Seq(Word))
      BY <1>3
    <2>2. DOMAIN cuts = 1..n /\ \A i \in 1..n : cuts[i] = Cut(parts[i], rank, size)
      BY <1>1
    <2> DEFINE A == Seq(G)
               B == Seq(Seq(Word))
    <2>3. cuts = [i \in 1..n |-> Cut(parts[i], rank, size)]
      BY <1>1
    <2>4. \A i \in 1..n : Cut(parts[i], rank, size) \in A /\ Cut(parts[i], rank, size) \in B
      BY <1>2, <2>1
    <2> HIDE DEF A, B, cuts
    <2>5. cuts \in Seq(A) /\ cuts \in Seq(B)
      BY <1>1, <2>3, <2>4
    <2>6. QED BY <1>2, <2>2, <2>5 DEF A, B
  <1>5. SplitMore(parts, rank, size) = FlattenSeq(cuts)
    BY DEF SplitMore
  <1> HIDE DEF cuts
  <1>6. FlattenSeq(cuts) \in Seq(G)
    BY <1>4, FlattenIn
  <1>7. FlattenSeq(FlattenSeq(cuts)) = FlattenSeq([i \in DOMAIN cuts |-> FlattenSeq(cuts[i])])
    BY <1>4, FlattenTwice
  <1>8. [i \in DOMAIN cuts |-> FlattenSeq(cuts[i])] = parts
    <2>1. parts = [i \in 1..n |-> parts[i]]
      BY <1>1
    <2>2. [i \in DOMAIN cuts |-> FlattenSeq(cuts[i])] = [i \in 1..n |-> parts[i]]
      BY <1>4
    <2>3. QED BY <2>1, <2>2
  <1>9. QED BY <1>5, <1>6, <1>7, <1>8 DEF G

LEMMA RecursivelyIs ==
  ASSUME NEW text \in Passage, NEW size
  PROVE  /\ Recursively(text, size) \in Seq(Small(size))
         /\ FlattenSeq(Recursively(text, size)) = text
PROOF
  <1> DEFINE p1 == SplitMore(<<text>>, 1, size)
             p2 == SplitMore(p1, 2, size)
             p3 == SplitMore(p2, 3, size)
             p4 == SplitMore(p3, 4, size)
  <1>1. text \in Seq(Word)
    BY DEF Passage
  <1>2. <<text>> \in Seq(Fine(1, size)) /\ FlattenSeq(<<text>>) = text
    <2>1. PICK w \in Word : TRUE
      <3>1. Len(text) \in Nat \ {0} /\ 1 \in 1..Len(text)
        BY DEF Passage
      <3>2. text[1] \in Word
        BY <1>1, <3>1
      <3>3. QED BY <3>2
    <2>2. Inner(text) \subseteq 1..4
      BY <2>1, InnerIs
    <2>3. text \in Fine(1, size)
      BY <2>2 DEF Fine
    <2>4. QED BY <1>1, <2>3, FlattenOne
  <1>3. p1 \in Seq(Fine(2, size)) /\ FlattenSeq(p1) = text
    <2> DEFINE r == 1
               s == <<text>>
    <2>1. r \in 1..4 /\ s \in Seq(Fine(r, size)) /\ r + 1 = 2
      BY <1>2
    <2> HIDE DEF r, s
    <2>2. SplitMore(s, r, size) \in Seq(Fine(r + 1, size))
          /\ FlattenSeq(SplitMore(s, r, size)) = FlattenSeq(s)
      BY <2>1, SplitMoreIs
    <2>3. QED BY <1>2, <2>1, <2>2 DEF r, s
  <1> HIDE DEF p1
  <1>4. p2 \in Seq(Fine(3, size)) /\ FlattenSeq(p2) = text
    <2> DEFINE r == 2
    <2>1. r \in 1..4 /\ p1 \in Seq(Fine(r, size)) /\ r + 1 = 3
      BY <1>3
    <2> HIDE DEF r
    <2>2. SplitMore(p1, r, size) \in Seq(Fine(r + 1, size))
          /\ FlattenSeq(SplitMore(p1, r, size)) = FlattenSeq(p1)
      BY <2>1, SplitMoreIs
    <2>3. QED BY <1>3, <2>1, <2>2 DEF r
  <1> HIDE DEF p2
  <1>5. p3 \in Seq(Fine(4, size)) /\ FlattenSeq(p3) = text
    <2> DEFINE r == 3
    <2>1. r \in 1..4 /\ p2 \in Seq(Fine(r, size)) /\ r + 1 = 4
      BY <1>4
    <2> HIDE DEF r
    <2>2. SplitMore(p2, r, size) \in Seq(Fine(r + 1, size))
          /\ FlattenSeq(SplitMore(p2, r, size)) = FlattenSeq(p2)
      BY <2>1, SplitMoreIs
    <2>3. QED BY <1>4, <2>1, <2>2 DEF r
  <1> HIDE DEF p3
  <1>6. p4 \in Seq(Fine(5, size)) /\ FlattenSeq(p4) = text
    <2> DEFINE r == 4
    <2>1. r \in 1..4 /\ p3 \in Seq(Fine(r, size)) /\ r + 1 = 5
      BY <1>5
    <2> HIDE DEF r
    <2>2. SplitMore(p3, r, size) \in Seq(Fine(r + 1, size))
          /\ FlattenSeq(SplitMore(p3, r, size)) = FlattenSeq(p3)
      BY <2>1, SplitMoreIs
    <2>3. QED BY <1>5, <2>1, <2>2 DEF r
  <1>7. Fine(5, size) \subseteq Small(size)
    <2>1. PICK w \in Word : TRUE
      <3>1. Len(text) \in Nat \ {0} /\ 1 \in 1..Len(text)
        BY DEF Passage
      <3>2. text[1] \in Word
        BY <1>1, <3>1
      <3>3. QED BY <3>2
    <2>2. ASSUME NEW p \in Fine(5, size) PROVE p \in Small(size)
      <3>1. p \in Passage /\ (Size(p) <= size \/ Inner(p) \subseteq 5..4)
        BY DEF Fine
      <3>2. 5..4 = {}
        OBVIOUS
      <3>3. Inner(p) = {} => Len(p) = 1
        BY <2>1, <3>1, InnerIs
      <3>4. QED BY <3>1, <3>2, <3>3 DEF Small
    <2>3. QED BY <2>2
  <1>8. Recursively(text, size) = p4
    BY DEF Recursively, p1, p2, p3
  <1> HIDE DEF p4
  <1>9. p4 \in Seq(Small(size))
    BY <1>6, <1>7
  <1>10. QED BY <1>6, <1>8, <1>9

(***************************************************************************)
(* The knowledge base.                                                     *)
(***************************************************************************)
Chunk == [head : Seq(Word), text : Passage]

LEMMA OverlappedIs ==
  ASSUME NEW parts \in Seq(Passage), NEW overlap
  PROVE  /\ Overlapped(parts, overlap) \in Seq(Chunk)
         /\ Len(Overlapped(parts, overlap)) = Len(parts)
         /\ \A i \in 1..Len(parts) : Overlapped(parts, overlap)[i].text = parts[i]
         /\ WordsOf(Overlapped(parts, overlap)) = FlattenSeq(parts)
PROOF
  <1> DEFINE n == Len(parts)
             H(i) == IF i = 1 \/ overlap = 0 THEN <<>> ELSE parts[i - 1]
             C(i) == [head |-> H(i), text |-> parts[i]]
             o == Overlapped(parts, overlap)
  <1>1. n \in Nat /\ DOMAIN parts = 1..n /\ \A i \in 1..n : parts[i] \in Passage
    OBVIOUS
  <1>2. o = [i \in 1..n |-> C(i)]
    BY <1>1 DEF Overlapped
  <1>3. \A i \in 1..n : C(i) \in Chunk /\ C(i).text = parts[i]
    <2> SUFFICES ASSUME NEW i \in 1..n PROVE C(i) \in Chunk /\ C(i).text = parts[i]
      OBVIOUS
    <2>1. <<>> \in Seq(Word) /\ Passage \subseteq Seq(Word)
      BY DEF Passage
    <2>2. i # 1 => i - 1 \in 1..n
      BY <1>1
    <2>3. H(i) \in Seq(Word)
      BY <1>1, <2>1, <2>2
    <2> HIDE DEF H
    <2>4. QED BY <1>1, <2>3 DEF Chunk
  <1> HIDE DEF o, n, C
  <1>4. o \in Seq(Chunk) /\ Len(o) = n /\ DOMAIN o = 1..n
    BY <1>1, <1>2, <1>3
  <1>5. \A i \in 1..n : o[i].text = parts[i]
    BY <1>2, <1>3
  <1>6. WordsOf(o) = FlattenSeq(parts)
    <2>1. [i \in DOMAIN o |-> o[i].text] = [i \in 1..n |-> parts[i]]
      BY <1>4, <1>5
    <2>2. [i \in 1..n |-> parts[i]] = parts
      BY <1>1
    <2>3. QED BY <2>1, <2>2 DEF WordsOf
  <1>7. QED BY <1>4, <1>5, <1>6 DEF o, n

(* The chunks of a text hold its words, each once and in their order; but  *)
(* for paragraphs they are single words or fit.                            *)
LEMMA ChunksAre ==
  ASSUME NEW text \in Seq(Word), chunker \in Chunkers
  PROVE  /\ Chunks(text) \in Seq(Chunk)
         /\ Bare(WordsOf(Chunks(text))) = Bare(text)
         /\ chunker.how # "paragraph" =>
              \A i \in 1..Len(Chunks(text)) : Chunks(text)[i].text \in Small(chunker.size)
PROOF
  <1> DEFINE how == chunker.how
             size == chunker.size
  <1>1. CASE text = <<>>
    <2> DEFINE none == <<>>
    <2>1. Chunks(text) = none
      BY <1>1 DEF Chunks
    <2>2. none \in Seq(Chunk) /\ Len(none) = 0
      OBVIOUS
    <2>3. WordsOf(none) = <<>>
      <3>1. [i \in DOMAIN none |-> none[i].text] = <<>>
        OBVIOUS
      <3>2. QED BY <3>1, FlattenEmpty DEF WordsOf
    <2>4. \A i \in 1..Len(none) : FALSE
      BY <2>2
    <2> HIDE DEF none
    <2>5. QED BY <1>1, <2>1, <2>2, <2>3, <2>4
  <1>2. CASE text # <<>> /\ how = "fixed"
    <2> DEFINE parts == Fixed(text, size)
    <2>1. parts \in Seq(Small(size)) /\ Bare(FlattenSeq(parts)) = Bare(text)
      BY FixedIs
    <2>2. parts \in Seq(Passage)
      <3>1. Small(size) \subseteq Passage
        BY DEF Small
      <3> HIDE DEF parts
      <3>2. QED BY <2>1, <3>1
    <2>3. Chunks(text) = Overlapped(parts, 0)
      BY <1>2 DEF Chunks
    <2> HIDE DEF parts
    <2>4. /\ Overlapped(parts, 0) \in Seq(Chunk)
          /\ Len(Overlapped(parts, 0)) = Len(parts)
          /\ \A i \in 1..Len(parts) : Overlapped(parts, 0)[i].text = parts[i]
          /\ WordsOf(Overlapped(parts, 0)) = FlattenSeq(parts)
      BY <2>2, OverlappedIs
    <2>5. \A i \in 1..Len(parts) : parts[i] \in Small(size)
      BY <2>1
    <2>6. QED BY <2>1, <2>3, <2>4, <2>5
  <1>3. CASE text # <<>> /\ how = "paragraph"
    <2> DEFINE parts == SplitAt(text, 1)
    <2>1. /\ parts \in Seq({p \in Passage : Inner(p) \subseteq Inner(text) \ {1}})
          /\ FlattenSeq(parts) = text
      BY SplitAtIs
    <2>2. parts \in Seq(Passage)
      <3> HIDE DEF parts
      <3>1. QED BY <2>1
    <2>3. Chunks(text) = Overlapped(parts, 0)
      BY <1>3 DEF Chunks
    <2> HIDE DEF parts
    <2>4. /\ Overlapped(parts, 0) \in Seq(Chunk)
          /\ WordsOf(Overlapped(parts, 0)) = FlattenSeq(parts)
      BY <2>2, OverlappedIs
    <2>5. QED BY <1>3, <2>1, <2>3, <2>4
  <1>4. CASE text # <<>> /\ how # "fixed" /\ how # "paragraph"
    <2> DEFINE parts == Recursively(text, size)
               o == Overlapped(parts, chunker.overlap)
    <2>1. text \in Passage
      BY <1>4 DEF Passage
    <2>2. parts \in Seq(Small(size)) /\ FlattenSeq(parts) = text
      BY <2>1, RecursivelyIs
    <2>3. parts \in Seq(Passage)
      <3>1. Small(size) \subseteq Passage
        BY DEF Small
      <3> HIDE DEF parts
      <3>2. QED BY <2>2, <3>1
    <2>4. Chunks(text) = o
      BY <1>4 DEF Chunks
    <2> HIDE DEF parts
    <2>5. /\ o \in Seq(Chunk) /\ Len(o) = Len(parts)
          /\ \A i \in 1..Len(parts) : o[i].text = parts[i]
          /\ WordsOf(o) = FlattenSeq(parts)
      BY <2>3, OverlappedIs
    <2>6. \A i \in 1..Len(parts) : parts[i] \in Small(size)
      BY <2>2
    <2> HIDE DEF o
    <2>7. QED BY <2>2, <2>4, <2>5, <2>6
  <1>5. QED BY <1>1, <1>2, <1>3, <1>4

(* What is stored is what the chunker makes of the documents.              *)
Cuts == [doc \in Library |-> Chunks(doc.text)]
EntryAt(cuts, doc, at) == [source |-> doc.source, at |-> at, chunk |-> cuts[doc][at]]
StoredTo(cuts, doc, last, stored) ==
  \A at \in 1..last : EntryAt(cuts, doc, at) \in Range(stored)

LibraryEntry == [source : {doc.source : doc \in Library}, at : Nat \ {0}, chunk : Chunk]
Ingest == [doc : Library, at : Nat \ {0}, stage : {"storing", "writing", "done", "failed"}]

KnowledgeTyped ==
  /\ chunker \in Chunkers
  /\ entries \in Seq(LibraryEntry)
  /\ disk \in [whole : BOOLEAN, entries : Seq(LibraryEntry)]
  /\ ingests \in Seq(Ingest)
  /\ finished \in SUBSET Library

(* An ingest at work has stored the chunks before its place, and the one   *)
(* there while the file is written; an entry is of an ingest that has come *)
(* as far.                                                                 *)
Underway(cuts, m, stored) ==
  /\ m.stage = "storing" => m.at \in DOMAIN cuts[m.doc] /\ StoredTo(cuts, m.doc, m.at - 1, stored)
  /\ m.stage = "writing" => m.at \in DOMAIN cuts[m.doc] /\ StoredTo(cuts, m.doc, m.at, stored)
ComesFrom(cuts, e, m) ==
  /\ e.source = m.doc.source /\ e.at \in DOMAIN cuts[m.doc] /\ e.at <= m.at
  /\ e.chunk = cuts[m.doc][e.at]

(* A file that is whole begins the store and has what was finished.        *)
Begins(s, t) == Len(s) <= Len(t) /\ \A i \in 1..Len(s) : s[i] = t[i]
Saved(cuts, file, stored, docs) ==
  file.whole => /\ Begins(file.entries, stored)
                /\ \A doc \in docs : StoredTo(cuts, doc, Len(cuts[doc]), file.entries)

KnowledgeInv ==
  /\ KnowledgeTyped
  /\ IsInjective(entries)
  /\ Saved(Cuts, disk, entries, finished)
  /\ \A doc \in finished : StoredTo(Cuts, doc, Len(Cuts[doc]), entries)
  /\ \A n \in DOMAIN ingests : Underway(Cuts, ingests[n], entries)
  /\ \A e \in Range(entries) : \E n \in DOMAIN ingests : ComesFrom(Cuts, e, ingests[n])

LEMMA CutsAre ==
  ASSUME chunker \in Chunkers
  PROVE  /\ \A doc \in Library : Cuts[doc] = Chunks(doc.text)
         /\ Cuts \in [Library -> Seq(Chunk)]
         /\ \A doc \in Library : \A at : EntryOf(doc, at) = EntryAt(Cuts, doc, at)
PROOF
  <1>1. \A doc \in Library : Cuts[doc] = Chunks(doc.text)
    BY DEF Cuts
  <1>2. \A doc \in Library : Chunks(doc.text) \in Seq(Chunk)
    BY ChunksAre, LibraryAssumption
  <1>3. Cuts \in [Library -> Seq(Chunk)]
    BY <1>2 DEF Cuts
  <1>4. \A doc \in Library : \A at : EntryOf(doc, at) = EntryAt(Cuts, doc, at)
    BY <1>1 DEF EntryOf, EntryAt
  <1>5. QED BY <1>1, <1>3, <1>4

(* The cuts stay the same: no step changes the chunker.                    *)
LEMMA CutsStay ==
  ASSUME UNCHANGED chunker
  PROVE  Cuts' = Cuts
PROOF
  <1>2. \A doc \in Library : Chunks(doc.text)' = Chunks(doc.text)
    BY DEF Chunks
  <1>3. QED BY <1>2 DEF Cuts

(* Nothing that is stored is lost as more is.                              *)
LEMMA StillStored ==
  ASSUME NEW cuts, NEW stored, NEW more, Range(stored) \subseteq Range(more)
  PROVE  /\ \A doc, last : StoredTo(cuts, doc, last, stored) => StoredTo(cuts, doc, last, more)
         /\ \A m : Underway(cuts, m, stored) => Underway(cuts, m, more)
PROOF
  <1>1. \A doc, last : StoredTo(cuts, doc, last, stored) => StoredTo(cuts, doc, last, more)
    BY DEF StoredTo
  <1>2. QED BY <1>1 DEF Underway

LEMMA PutIs ==
  ASSUME entries \in Seq(LibraryEntry), IsInjective(entries), NEW e \in LibraryEntry
  PROVE  /\ Put(e) \in Seq(LibraryEntry) /\ IsInjective(Put(e))
         /\ Range(Put(e)) = Range(entries) \cup {e}
PROOF
  <1>1. CASE e \in Range(entries)
    BY <1>1 DEF Put
  <1>2. CASE e \notin Range(entries)
    <2>1. IsInjective(Append(entries, e))
      BY <1>2, InjectiveAppend
    <2>2. /\ Append(entries, e) \in Seq(LibraryEntry)
          /\ Range(Append(entries, e)) = Range(entries) \cup {e}
      BY RangeAppend
    <2>3. Put(e) = Append(entries, e)
      BY <1>2 DEF Put
    <2>4. QED BY <2>1, <2>2, <2>3
  <1>3. QED BY <1>1, <1>2

LEMMA BeginsIs ==
  ASSUME NEW s \in Seq(LibraryEntry), NEW t \in Seq(LibraryEntry), Begins(s, t)
  PROVE  /\ IsPrefix(s, t) /\ Range(s) \subseteq Range(t)
         /\ IsInjective(t) => IsInjective(s)
         /\ \A e \in LibraryEntry : Begins(s, Append(t, e))
PROOF
  <1>1. /\ Len(s) \in Nat /\ Len(t) \in Nat /\ Len(s) <= Len(t)
        /\ DOMAIN s = 1..Len(s) /\ DOMAIN t = 1..Len(t)
        /\ \A i \in 1..Len(s) : i \in 1..Len(t) /\ s[i] = t[i]
    BY DEF Begins
  <1>2. IsPrefix(s, t)
    <2>1. /\ SubSeq(s, 1, Len(s)) = [i \in 1..Len(s) |-> s[i]]
          /\ SubSeq(t, 1, Len(s)) = [i \in 1..Len(s) |-> t[i]]
      BY <1>1
    <2>2. QED BY <1>1, <2>1 DEF IsPrefix
  <1>3. Range(s) \subseteq Range(t)
    BY <1>1 DEF Range
  <1>4. IsInjective(t) => IsInjective(s)
    BY <1>1 DEF IsInjective
  <1>5. ASSUME NEW e \in LibraryEntry PROVE Begins(s, Append(t, e))
    <2>1. Len(Append(t, e)) = Len(t) + 1 /\ \A i \in 1..Len(t) : Append(t, e)[i] = t[i]
      BY AppendedIs
    <2>2. QED BY <1>1, <2>1 DEF Begins
  <1>6. QED BY <1>2, <1>3, <1>4, <1>5

LEMMA PutBegins ==
  ASSUME entries \in Seq(LibraryEntry), NEW s \in Seq(LibraryEntry), Begins(s, entries),
         NEW e \in LibraryEntry
  PROVE  Begins(s, Put(e))
PROOF
  <1>1. Begins(s, Append(entries, e))
    BY BeginsIs
  <1>2. QED BY <1>1 DEF Put

LEMMA KnowledgeStarts ==
  ASSUME KnowledgeInit
  PROVE  KnowledgeInv
PROOF
  <1>1. chunker \in Chunkers /\ entries = <<>> /\ ingests = <<>> /\ finished = {}
        /\ disk = [whole |-> TRUE, entries |-> <<>>]
    BY DEF KnowledgeInit
  <1>2. <<>> \in Seq(LibraryEntry) /\ <<>> \in Seq(Ingest)
    OBVIOUS
  <1>3. KnowledgeTyped
    BY <1>1, <1>2 DEF KnowledgeTyped
  <1>4. IsInjective(entries) /\ Range(entries) = {}
    BY <1>1 DEF IsInjective, Range
  <1>5. Saved(Cuts, disk, entries, finished)
    <2>1. Begins(disk.entries, entries)
      BY <1>1 DEF Begins
    <2>2. QED BY <1>1, <2>1 DEF Saved
  <1>6. DOMAIN ingests = {}
    BY <1>1
  <1>7. QED BY <1>1, <1>3, <1>4, <1>5, <1>6 DEF KnowledgeInv

LEMMA StartKeeps ==
  ASSUME KnowledgeInv, NEW doc \in Library, StartIngest(doc)
  PROVE  KnowledgeInv'
PROOF
  <1> DEFINE none == Chunks(doc.text) = <<>>
             m == [doc |-> doc, at |-> 1, stage |-> IF none THEN "done" ELSE "storing"]
             l == Len(ingests)
  <1>1. /\ KnowledgeTyped /\ IsInjective(entries) /\ Saved(Cuts, disk, entries, finished)
        /\ \A d \in finished : StoredTo(Cuts, d, Len(Cuts[d]), entries)
        /\ \A n \in DOMAIN ingests : Underway(Cuts, ingests[n], entries)
        /\ \A e \in Range(entries) : \E n \in DOMAIN ingests : ComesFrom(Cuts, e, ingests[n])
    BY DEF KnowledgeInv
  <1>2. /\ ingests' = Append(ingests, m)
        /\ finished' = (IF none THEN finished \cup {doc} ELSE finished)
        /\ chunker' = chunker /\ entries' = entries /\ disk' = disk
    BY DEF StartIngest
  <1>3. Cuts' = Cuts
    BY <1>2, CutsStay
  <1>4. /\ chunker \in Chunkers /\ entries \in Seq(LibraryEntry)
        /\ disk \in [whole : BOOLEAN, entries : Seq(LibraryEntry)]
        /\ ingests \in Seq(Ingest) /\ finished \in SUBSET Library
    BY <1>1 DEF KnowledgeTyped
  <1>5. Cuts[doc] = Chunks(doc.text) /\ Cuts[doc] \in Seq(Chunk)
    BY <1>4, CutsAre
  <1>6. /\ m \in Ingest /\ m.doc = doc /\ m.at = 1
        /\ m.stage # "writing" /\ (m.stage = "storing" => ~none)
    BY DEF Ingest
  <1> HIDE DEF m
  <1>7. /\ DOMAIN ingests' = 1..(l + 1) /\ DOMAIN ingests = 1..l /\ l \in Nat
        /\ ingests' \in Seq(Ingest)
        /\ \A n \in 1..l : ingests'[n] = ingests[n]
        /\ ingests'[l + 1] = m
    BY <1>2, <1>4, <1>6, AppendedIs
  <1>8. KnowledgeTyped'
    <2>1. finished' \in SUBSET Library
      BY <1>2, <1>4
    <2>2. QED BY <1>2, <1>4, <1>7, <2>1 DEF KnowledgeTyped
  <1>a. \A stored : none => StoredTo(Cuts, doc, Len(Cuts[doc]), stored)
    <2> SUFFICES ASSUME none, NEW stored PROVE StoredTo(Cuts, doc, Len(Cuts[doc]), stored)
      OBVIOUS
    <2>1. Len(Cuts[doc]) = 0 /\ 1..0 = {}
      BY <1>5
    <2>2. QED BY <2>1 DEF StoredTo
  <1>9. \A d \in finished' : StoredTo(Cuts, d, Len(Cuts[d]), entries)
    BY <1>1, <1>2, <1>a
  <1>b. Saved(Cuts, disk, entries, finished')
    BY <1>1, <1>2, <1>a DEF Saved
  <1>10. Underway(Cuts, m, entries)
    <2>1. m.stage = "storing" => 1 \in DOMAIN Cuts[doc] /\ StoredTo(Cuts, doc, 1 - 1, entries)
      <3> SUFFICES ASSUME m.stage = "storing"
                   PROVE  1 \in DOMAIN Cuts[doc] /\ StoredTo(Cuts, doc, 1 - 1, entries)
        OBVIOUS
      <3>1. Cuts[doc] # <<>>
        BY <1>5, <1>6
      <3>2. Len(Cuts[doc]) \in Nat \ {0} /\ DOMAIN Cuts[doc] = 1..Len(Cuts[doc])
        BY <1>5, <3>1
      <3>3. 1..(1 - 1) = {}
        OBVIOUS
      <3>4. StoredTo(Cuts, doc, 1 - 1, entries)
        BY <3>3 DEF StoredTo
      <3>5. QED BY <3>2, <3>4
    <2>2. QED BY <1>6, <2>1 DEF Underway
  <1>11. \A n \in DOMAIN ingests' : Underway(Cuts, ingests'[n], entries)
    <2>1. \A n \in 1..(l + 1) : n \in 1..l \/ n = l + 1
      BY <1>7
    <2>2. QED BY <1>1, <1>7, <1>10, <2>1
  <1>12. \A e \in Range(entries) : \E n \in DOMAIN ingests' : ComesFrom(Cuts, e, ingests'[n])
    <2>1. \A n \in 1..l : n \in 1..(l + 1)
      BY <1>7
    <2>2. QED BY <1>1, <1>7, <2>1
  <1>13. QED BY <1>1, <1>2, <1>3, <1>8, <1>9, <1>11, <1>12, <1>b DEF KnowledgeInv

LEMMA StoreKeeps ==
  ASSUME KnowledgeInv, NEW n \in DOMAIN ingests, StoreChunk(n) \/ CreateFails(n)
  PROVE  KnowledgeInv'
PROOF
  <1> DEFINE m == ingests[n]
             doc == m.doc
             e == EntryAt(Cuts, doc, m.at)
             stage == IF StoreChunk(n) THEN "writing" ELSE "failed"
  <1>1. /\ KnowledgeTyped /\ IsInjective(entries) /\ Saved(Cuts, disk, entries, finished)
        /\ \A d \in finished : StoredTo(Cuts, d, Len(Cuts[d]), entries)
        /\ \A k \in DOMAIN ingests : Underway(Cuts, ingests[k], entries)
        /\ \A x \in Range(entries) : \E k \in DOMAIN ingests : ComesFrom(Cuts, x, ingests[k])
    BY DEF KnowledgeInv
  <1>2. /\ chunker \in Chunkers /\ entries \in Seq(LibraryEntry)
        /\ disk \in [whole : BOOLEAN, entries : Seq(LibraryEntry)]
        /\ ingests \in Seq(Ingest) /\ finished \in SUBSET Library
    BY <1>1 DEF KnowledgeTyped
  <1>3. m \in Ingest /\ doc \in Library /\ m.at \in Nat \ {0} /\ m.stage = "storing"
    <2>1. m \in Ingest
      BY <1>2
    <2>2. QED BY <2>1 DEF Ingest, StoreChunk, CreateFails
  <1>4. e = EntryOf(doc, m.at) /\ Cuts[doc] \in Seq(Chunk)
    BY <1>2, <1>3, CutsAre
  <1>5. m.at \in DOMAIN Cuts[doc] /\ StoredTo(Cuts, doc, m.at - 1, entries)
    <2>1. Underway(Cuts, m, entries)
      BY <1>1
    <2>2. QED BY <1>3, <2>1 DEF Underway
  <1>6. e \in LibraryEntry
    <2>1. Cuts[doc][m.at] \in Chunk
      BY <1>4, <1>5
    <2>2. QED BY <1>3, <2>1 DEF LibraryEntry, EntryAt
  <1>7. /\ entries' = Put(e) /\ chunker' = chunker /\ finished' = finished
        /\ disk' = disk \/ disk' = [disk EXCEPT !.whole = FALSE]
        /\ ingests' = [ingests EXCEPT ![n].stage = stage]
    <2>1. CASE StoreChunk(n)
      BY <1>4, <2>1 DEF StoreChunk
    <2>2. CASE ~StoreChunk(n)
      BY <1>4, <2>2 DEF CreateFails
    <2>3. QED BY <2>1, <2>2
  <1>a. stage \in {"writing", "failed"}
    OBVIOUS
  <1>8. Cuts' = Cuts
    BY <1>7, CutsStay
  <1>9. ComesFrom(Cuts, e, m)
    BY <1>3, <1>5 DEF ComesFrom, EntryAt
  <1> HIDE DEF e, stage
  <1>10. /\ entries' \in Seq(LibraryEntry) /\ IsInjective(entries')
         /\ Range(entries') = Range(entries) \cup {e}
    BY <1>1, <1>2, <1>6, <1>7, PutIs
  <1>11. /\ DOMAIN ingests' = DOMAIN ingests /\ ingests' \in Seq(Ingest)
         /\ ingests'[n].doc = doc /\ ingests'[n].at = m.at /\ ingests'[n].stage \in {"writing", "failed"}
         /\ \A k \in DOMAIN ingests : k # n => ingests'[k] = ingests[k]
    <2> DEFINE x == [m EXCEPT !.stage = stage]
    <2>1. ingests' = [ingests EXCEPT ![n] = x]
      BY <1>7
    <2>2. x \in Ingest /\ x.doc = doc /\ x.at = m.at /\ x.stage \in {"writing", "failed"}
      BY <1>3, <1>a DEF Ingest
    <2> HIDE DEF x
    <2>3. ingests' \in Seq(Ingest) /\ DOMAIN ingests' = DOMAIN ingests /\ ingests'[n] = x
      BY <1>2, <2>1, <2>2
    <2>4. \A k \in DOMAIN ingests : k # n => ingests'[k] = ingests[k]
      BY <2>1
    <2>5. QED BY <2>2, <2>3, <2>4
  <1>12. KnowledgeTyped'
    <2>1. disk' \in [whole : BOOLEAN, entries : Seq(LibraryEntry)]
      BY <1>2, <1>7
    <2>2. QED BY <1>2, <1>7, <1>10, <1>11, <2>1 DEF KnowledgeTyped
  <1>13. Saved(Cuts, disk', entries', finished)
    <2>1. CASE disk' = disk
      <3>1. disk.entries \in Seq(LibraryEntry)
        BY <1>2
      <3>2. disk.whole => Begins(disk.entries, entries')
        BY <1>1, <1>2, <1>6, <1>7, <3>1, PutBegins DEF Saved
      <3>3. QED BY <1>1, <2>1, <3>2 DEF Saved
    <2>2. CASE disk' = [disk EXCEPT !.whole = FALSE]
      <3>1. ~disk'.whole
        BY <1>2, <2>2
      <3>2. QED BY <3>1 DEF Saved
    <2>3. QED BY <1>7, <2>1, <2>2
  <1>14. \A d \in finished : StoredTo(Cuts, d, Len(Cuts[d]), entries')
    BY <1>1, <1>10, StillStored
  <1>15. StoredTo(Cuts, doc, m.at, entries')
    <2>1. \A at \in 1..m.at : at \in 1..(m.at - 1) \/ at = m.at
      BY <1>3
    <2>2. QED BY <1>5, <1>10, <2>1 DEF StoredTo, e
  <1>16. \A k \in DOMAIN ingests' : Underway(Cuts, ingests'[k], entries')
    <2>1. Underway(Cuts, ingests'[n], entries')
      BY <1>5, <1>11, <1>15 DEF Underway
    <2>2. \A k \in DOMAIN ingests : Underway(Cuts, ingests[k], entries')
      BY <1>1, <1>10, StillStored
    <2>3. QED BY <1>11, <2>1, <2>2
  <1>17. \A x \in Range(entries') : \E k \in DOMAIN ingests' : ComesFrom(Cuts, x, ingests'[k])
    <2>1. \A x, k : k \in DOMAIN ingests /\ ComesFrom(Cuts, x, ingests[k])
                      => ComesFrom(Cuts, x, ingests'[k])
      BY <1>11 DEF ComesFrom
    <2>2. ComesFrom(Cuts, e, ingests[n])
      BY <1>9
    <2>3. \A x \in Range(entries') : \E k \in DOMAIN ingests : ComesFrom(Cuts, x, ingests[k])
      BY <1>1, <1>10, <2>2
    <2>4. QED BY <1>11, <2>1, <2>3
  <1>18. QED BY <1>7, <1>8, <1>10, <1>12, <1>13, <1>14, <1>16, <1>17 DEF KnowledgeInv

LEMMA WriteKeeps ==
  ASSUME KnowledgeInv, NEW n \in DOMAIN ingests, WriteStore(n)
  PROVE  KnowledgeInv'
PROOF
  <1> DEFINE m == ingests[n]
             doc == m.doc
             more == m.at < Len(Cuts[doc])
             x == IF more THEN [m EXCEPT !.stage = "storing", !.at = @ + 1]
                  ELSE [m EXCEPT !.stage = "done"]
  <1>1. /\ KnowledgeTyped /\ IsInjective(entries)
        /\ \A d \in finished : StoredTo(Cuts, d, Len(Cuts[d]), entries)
        /\ \A k \in DOMAIN ingests : Underway(Cuts, ingests[k], entries)
        /\ \A e \in Range(entries) : \E k \in DOMAIN ingests : ComesFrom(Cuts, e, ingests[k])
    BY DEF KnowledgeInv
  <1>2. /\ chunker \in Chunkers /\ entries \in Seq(LibraryEntry)
        /\ ingests \in Seq(Ingest) /\ finished \in SUBSET Library
    BY <1>1 DEF KnowledgeTyped
  <1>3. m \in Ingest /\ doc \in Library /\ m.at \in Nat \ {0} /\ m.stage = "writing"
    <2>1. m \in Ingest
      BY <1>2
    <2>2. QED BY <2>1 DEF Ingest, WriteStore
  <1>4. Cuts[doc] = Chunks(doc.text) /\ Cuts[doc] \in Seq(Chunk)
    BY <1>2, <1>3, CutsAre
  <1>5. m.at \in DOMAIN Cuts[doc] /\ StoredTo(Cuts, doc, m.at, entries)
    <2>1. Underway(Cuts, m, entries)
      BY <1>1
    <2>2. QED BY <1>3, <2>1 DEF Underway
  <1>6. Len(Cuts[doc]) \in Nat /\ DOMAIN Cuts[doc] = 1..Len(Cuts[doc])
    BY <1>4
  <1>7. /\ entries' = entries /\ chunker' = chunker
        /\ disk' = [whole |-> TRUE, entries |-> entries]
        /\ finished' = (IF more THEN finished ELSE finished \cup {doc})
        /\ ingests' = [ingests EXCEPT ![n] = x]
    <2>1. /\ entries' = entries /\ chunker' = chunker
          /\ disk' = [whole |-> TRUE, entries |-> entries]
      BY DEF WriteStore
    <2>2. CASE more
      BY <1>4, <2>2 DEF WriteStore
    <2>3. CASE ~more
      BY <1>4, <2>3 DEF WriteStore
    <2>4. QED BY <2>1, <2>2, <2>3
  <1>8. Cuts' = Cuts
    BY <1>7, CutsStay
  <1>9. /\ x \in Ingest /\ x.doc = doc
        /\ more => x.at = m.at + 1 /\ x.stage = "storing"
        /\ ~more => x.at = m.at /\ x.stage = "done"
    <2> DEFINE next == [m EXCEPT !.stage = "storing", !.at = @ + 1]
               done == [m EXCEPT !.stage = "done"]
               Stages == {"storing", "writing", "done", "failed"}
    <2>1. m \in [doc : Library, at : Nat \ {0}, stage : Stages] /\ m.at + 1 \in Nat \ {0}
      BY <1>3 DEF Ingest
    <2>2. /\ next \in [doc : Library, at : Nat \ {0}, stage : Stages]
          /\ next.doc = doc /\ next.at = m.at + 1 /\ next.stage = "storing"
      BY <2>1
    <2>3. /\ done \in [doc : Library, at : Nat \ {0}, stage : Stages]
          /\ done.doc = doc /\ done.at = m.at /\ done.stage = "done"
      BY <2>1
    <2>4. x = IF more THEN next ELSE done
      OBVIOUS
    <2> HIDE DEF next, done, x
    <2>5. QED BY <2>2, <2>3, <2>4 DEF Ingest
  <1> HIDE DEF x
  <1>10. /\ DOMAIN ingests' = DOMAIN ingests /\ ingests' \in Seq(Ingest) /\ ingests'[n] = x
         /\ \A k \in DOMAIN ingests : k # n => ingests'[k] = ingests[k]
    BY <1>2, <1>7, <1>9
  <1>11. KnowledgeTyped'
    <2>1. disk' \in [whole : BOOLEAN, entries : Seq(LibraryEntry)] /\ finished' \in SUBSET Library
      BY <1>2, <1>3, <1>7
    <2>2. QED BY <1>2, <1>7, <1>10, <2>1 DEF KnowledgeTyped
  <1>12. disk'.entries = entries
    BY <1>7
  <1>a. Begins(entries, entries)
    <2>1. Len(entries) \in Nat
      BY <1>2
    <2>2. QED BY <2>1 DEF Begins
  <1>13. \A d \in finished' : StoredTo(Cuts, d, Len(Cuts[d]), entries)
    <2>1. ~more => m.at = Len(Cuts[doc])
      BY <1>5, <1>6
    <2>2. ~more => StoredTo(Cuts, doc, Len(Cuts[doc]), entries)
      BY <1>5, <2>1
    <2>3. QED BY <1>1, <1>7, <2>2
  <1>14. \A k \in DOMAIN ingests' : Underway(Cuts, ingests'[k], entries)
    <2>1. Underway(Cuts, x, entries)
      <3>1. more => m.at + 1 \in DOMAIN Cuts[doc] /\ (m.at + 1) - 1 = m.at
        BY <1>3, <1>6
      <3>2. QED BY <1>5, <1>9, <3>1 DEF Underway
    <2>2. QED BY <1>1, <1>10, <2>1
  <1>15. \A e \in Range(entries) : \E k \in DOMAIN ingests' : ComesFrom(Cuts, e, ingests'[k])
    <2>1. \A e : ComesFrom(Cuts, e, m) => ComesFrom(Cuts, e, x)
      <3> SUFFICES ASSUME NEW e, ComesFrom(Cuts, e, m) PROVE ComesFrom(Cuts, e, x)
        OBVIOUS
      <3>1. e.at \in Nat /\ e.at <= m.at
        BY <1>6 DEF ComesFrom
      <3>2. e.at <= x.at
        BY <1>3, <1>9, <3>1
      <3>3. QED BY <1>9, <3>2 DEF ComesFrom
    <2>2. \A e, k : k \in DOMAIN ingests /\ ComesFrom(Cuts, e, ingests[k])
                      => ComesFrom(Cuts, e, ingests'[k])
      BY <1>10, <2>1
    <2>3. QED BY <1>1, <1>10, <2>2
  <1>b. Saved(Cuts, disk', entries, finished')
    BY <1>12, <1>13, <1>a DEF Saved
  <1>16. QED BY <1>1, <1>7, <1>8, <1>11, <1>13, <1>14, <1>15, <1>b DEF KnowledgeInv

LEMMA FailKeeps ==
  ASSUME KnowledgeInv, NEW n \in DOMAIN ingests, IngestFails(n)
  PROVE  KnowledgeInv'
PROOF
  <1> DEFINE m == ingests[n]
             x == [m EXCEPT !.stage = "failed"]
  <1>1. /\ KnowledgeTyped /\ IsInjective(entries) /\ Saved(Cuts, disk, entries, finished)
        /\ \A d \in finished : StoredTo(Cuts, d, Len(Cuts[d]), entries)
        /\ \A k \in DOMAIN ingests : Underway(Cuts, ingests[k], entries)
        /\ \A e \in Range(entries) : \E k \in DOMAIN ingests : ComesFrom(Cuts, e, ingests[k])
    BY DEF KnowledgeInv
  <1>2. /\ entries' = entries /\ chunker' = chunker /\ disk' = disk /\ finished' = finished
        /\ ingests' = [ingests EXCEPT ![n] = x]
    BY DEF IngestFails
  <1>3. ingests \in Seq(Ingest) /\ m \in Ingest
    BY <1>1 DEF KnowledgeTyped
  <1>4. Cuts' = Cuts
    BY <1>2, CutsStay
  <1>5. x \in Ingest /\ x.doc = m.doc /\ x.at = m.at /\ x.stage = "failed"
    BY <1>3 DEF Ingest
  <1> HIDE DEF x
  <1>6. /\ DOMAIN ingests' = DOMAIN ingests /\ ingests' \in Seq(Ingest) /\ ingests'[n] = x
        /\ \A k \in DOMAIN ingests : k # n => ingests'[k] = ingests[k]
    BY <1>2, <1>3, <1>5
  <1>7. KnowledgeTyped'
    BY <1>1, <1>2, <1>6 DEF KnowledgeTyped
  <1>8. \A k \in DOMAIN ingests' : Underway(Cuts, ingests'[k], entries)
    <2>1. Underway(Cuts, x, entries)
      BY <1>5 DEF Underway
    <2>2. QED BY <1>1, <1>6, <2>1
  <1>9. \A e \in Range(entries) : \E k \in DOMAIN ingests' : ComesFrom(Cuts, e, ingests'[k])
    <2>1. \A e, k : k \in DOMAIN ingests /\ ComesFrom(Cuts, e, ingests[k])
                      => ComesFrom(Cuts, e, ingests'[k])
      BY <1>5, <1>6 DEF ComesFrom
    <2>2. QED BY <1>1, <1>6, <2>1
  <1>10. QED BY <1>1, <1>2, <1>4, <1>7, <1>8, <1>9 DEF KnowledgeInv

LEMMA CrashKeeps ==
  ASSUME KnowledgeInv, CrashStore
  PROVE  KnowledgeInv'
PROOF
  <1> DEFINE X(k) == IF ingests[k].stage \in {"storing", "writing"}
                     THEN [ingests[k] EXCEPT !.stage = "failed"] ELSE ingests[k]
  <1>1. /\ KnowledgeTyped /\ IsInjective(entries) /\ Saved(Cuts, disk, entries, finished)
        /\ \A d \in finished : StoredTo(Cuts, d, Len(Cuts[d]), entries)
        /\ \A e \in Range(entries) : \E k \in DOMAIN ingests : ComesFrom(Cuts, e, ingests[k])
    BY DEF KnowledgeInv
  <1>2. /\ chunker \in Chunkers /\ entries \in Seq(LibraryEntry)
        /\ disk \in [whole : BOOLEAN, entries : Seq(LibraryEntry)]
        /\ ingests \in Seq(Ingest) /\ finished \in SUBSET Library
    BY <1>1 DEF KnowledgeTyped
  <1>3. /\ chunker' = chunker
        /\ entries' = (IF disk.whole THEN disk.entries ELSE <<>>)
        /\ finished' = (IF disk.whole THEN finished ELSE {})
        /\ disk' = [disk EXCEPT !.whole = TRUE, !.entries = entries']
        /\ ingests' = [k \in DOMAIN ingests |-> X(k)]
    BY DEF CrashStore
  <1>4. Cuts' = Cuts
    BY <1>3, CutsStay
  <1>5. \A k \in DOMAIN ingests : /\ X(k) \in Ingest /\ X(k).doc = ingests[k].doc
                                  /\ X(k).at = ingests[k].at
                                  /\ X(k).stage # "storing" /\ X(k).stage # "writing"
    <2> SUFFICES ASSUME NEW k \in DOMAIN ingests
                 PROVE  /\ X(k) \in Ingest /\ X(k).doc = ingests[k].doc
                        /\ X(k).at = ingests[k].at
                        /\ X(k).stage # "storing" /\ X(k).stage # "writing"
      OBVIOUS
    <2>1. ingests[k] \in Ingest
      BY <1>2
    <2>2. QED BY <2>1 DEF Ingest
  <1> HIDE DEF X
  <1>6. /\ DOMAIN ingests' = DOMAIN ingests
        /\ \A k \in DOMAIN ingests : ingests'[k] = X(k)
    BY <1>3
  <1>7. ingests' \in Seq(Ingest)
    <2>1. DOMAIN ingests = 1..Len(ingests) /\ Len(ingests) \in Nat
      BY <1>2
    <2>2. ingests' = [k \in 1..Len(ingests) |-> X(k)]
      BY <1>3, <2>1
    <2>3. QED BY <1>5, <2>1, <2>2
  <1>9. <<>> \in Seq(LibraryEntry) /\ IsInjective(<<>>) /\ Range(<<>>) = {}
    BY DEF IsInjective, Range
  <1>8. /\ IsInjective(entries') /\ Range(entries') \subseteq Range(entries)
        /\ entries' \in Seq(LibraryEntry) /\ finished' \subseteq finished
        /\ \A d \in finished' : StoredTo(Cuts, d, Len(Cuts[d]), entries')
    <2>1. CASE disk.whole
      <3>1. entries' = disk.entries /\ disk.entries \in Seq(LibraryEntry) /\ finished' = finished
        BY <1>2, <1>3, <2>1
      <3>2. Begins(disk.entries, entries)
            /\ \A d \in finished : StoredTo(Cuts, d, Len(Cuts[d]), disk.entries)
        BY <1>1, <2>1 DEF Saved
      <3>3. IsInjective(disk.entries) /\ Range(disk.entries) \subseteq Range(entries)
        BY <1>1, <1>2, <3>1, <3>2, BeginsIs
      <3>4. QED BY <3>1, <3>2, <3>3
    <2>2. CASE ~disk.whole
      <3>1. entries' = <<>> /\ finished' = {}
        BY <1>3, <2>2
      <3>2. QED BY <1>9, <3>1
    <2>3. QED BY <2>1, <2>2
  <1>10. entries' \in Seq(LibraryEntry) /\ finished' \in SUBSET Library
    BY <1>2, <1>8
  <1>11. disk' \in [whole : BOOLEAN, entries : Seq(LibraryEntry)] /\ disk'.entries = entries'
    <2> DEFINE s == entries'
    <2>1. s \in Seq(LibraryEntry) /\ disk' = [disk EXCEPT !.whole = TRUE, !.entries = s]
      BY <1>3, <1>10
    <2> HIDE DEF s
    <2>2. disk' \in [whole : BOOLEAN, entries : Seq(LibraryEntry)] /\ disk'.entries = s
      BY <1>2, <2>1
    <2>3. QED BY <2>2 DEF s
  <1>12. KnowledgeTyped'
    BY <1>2, <1>3, <1>7, <1>10, <1>11 DEF KnowledgeTyped
  <1>13. Saved(Cuts, disk', entries', finished')
    <2>1. Begins(entries', entries')
      <3>1. Len(entries') \in Nat
        BY <1>10
      <3>2. QED BY <3>1 DEF Begins
    <2>2. QED BY <1>8, <1>11, <2>1 DEF Saved
  <1>15. \A k \in DOMAIN ingests' : Underway(Cuts, ingests'[k], entries')
    BY <1>5, <1>6 DEF Underway
  <1>16. \A e \in Range(entries') : \E k \in DOMAIN ingests' : ComesFrom(Cuts, e, ingests'[k])
    <2>1. Range(entries') \subseteq Range(entries)
      BY <1>8
    <2>2. \A e, k : k \in DOMAIN ingests /\ ComesFrom(Cuts, e, ingests[k])
                      => ComesFrom(Cuts, e, ingests'[k])
      BY <1>5, <1>6 DEF ComesFrom
    <2>3. QED BY <1>1, <1>6, <2>1, <2>2
  <1>17. QED BY <1>4, <1>8, <1>12, <1>13, <1>15, <1>16 DEF KnowledgeInv

LEMMA KnowledgeKeeps ==
  ASSUME KnowledgeInv, [KnowledgeNext]_knowledgeVars
  PROVE  KnowledgeInv'
PROOF
  <1>1. CASE UNCHANGED knowledgeVars
    <2>1. /\ chunker' = chunker /\ entries' = entries /\ disk' = disk
          /\ ingests' = ingests /\ finished' = finished
      BY <1>1 DEF knowledgeVars
    <2>2. Cuts' = Cuts
      BY <2>1, CutsStay
    <2>3. KnowledgeTyped'
      BY <2>1 DEF KnowledgeInv, KnowledgeTyped
    <2>4. QED BY <2>1, <2>2, <2>3 DEF KnowledgeInv
  <1>2. ASSUME NEW doc \in Library, StartIngest(doc) PROVE KnowledgeInv'
    BY <1>2, StartKeeps
  <1>3. ASSUME NEW n \in DOMAIN ingests,
               StoreChunk(n) \/ CreateFails(n) \/ WriteStore(n) \/ IngestFails(n)
        PROVE  KnowledgeInv'
    BY <1>3, StoreKeeps, WriteKeeps, FailKeeps
  <1>4. CASE CrashStore
    BY <1>4, CrashKeeps
  <1>5. QED BY <1>1, <1>2, <1>3, <1>4 DEF KnowledgeNext

LEMMA KnowledgeMeets ==
  ASSUME KnowledgeInv
  PROVE  KnowledgeFaithful
PROOF
  <1>1. /\ IsInjective(entries) /\ Saved(Cuts, disk, entries, finished)
        /\ \A doc \in finished : StoredTo(Cuts, doc, Len(Cuts[doc]), entries)
        /\ \A e \in Range(entries) : \E n \in DOMAIN ingests : ComesFrom(Cuts, e, ingests[n])
    BY DEF KnowledgeInv
  <1>2. chunker \in Chunkers /\ ingests \in Seq(Ingest) /\ finished \in SUBSET Library
    BY DEF KnowledgeInv, KnowledgeTyped
  <1>3. \A n \in DOMAIN ingests : ingests[n].doc \in Library
    <2>1. \A n \in DOMAIN ingests : ingests[n] \in Ingest
      BY <1>2
    <2>2. QED BY <2>1 DEF Ingest
  <1>4. \A doc \in Library : Cuts[doc] = Chunks(doc.text)
    BY <1>2, CutsAre
  <1>5. ASSUME NEW n \in DOMAIN ingests
        PROVE  /\ Bare(WordsOf(Chunks(ingests[n].doc.text))) = Bare(ingests[n].doc.text)
               /\ chunker.how # "paragraph" =>
                    \A i \in DOMAIN Chunks(ingests[n].doc.text) :
                      \/ Len(Chunks(ingests[n].doc.text)[i].text) = 1
                      \/ Size(Chunks(ingests[n].doc.text)[i].text) <= chunker.size
    <2> DEFINE text == ingests[n].doc.text
               chunks == Chunks(text)
    <2>1. text \in Seq(Word)
      BY <1>3, LibraryAssumption
    <2> HIDE DEF text
    <2>2. /\ chunks \in Seq(Chunk) /\ Bare(WordsOf(chunks)) = Bare(text)
          /\ chunker.how # "paragraph" =>
               \A i \in 1..Len(chunks) : chunks[i].text \in Small(chunker.size)
      BY <1>2, <2>1, ChunksAre
    <2>3. DOMAIN chunks = 1..Len(chunks)
      BY <2>2
    <2> HIDE DEF chunks
    <2>4. chunker.how # "paragraph" =>
            \A i \in DOMAIN chunks :
              Len(chunks[i].text) = 1 \/ Size(chunks[i].text) <= chunker.size
      BY <2>2, <2>3 DEF Small
    <2>5. QED BY <2>2, <2>4 DEF chunks, text
  <1>6. ASSUME NEW doc \in finished, NEW at \in DOMAIN Chunks(doc.text)
        PROVE  /\ EntryOf(doc, at) \in Range(entries)
               /\ disk.whole => EntryOf(doc, at) \in Range(disk.entries)
    <2>1. doc \in Library
      BY <1>2
    <2>2. Cuts[doc] \in Seq(Chunk) /\ EntryOf(doc, at) = EntryAt(Cuts, doc, at)
      BY <1>2, <2>1, CutsAre
    <2>3. at \in 1..Len(Cuts[doc])
      BY <1>4, <2>1, <2>2
    <2>4. disk.whole => StoredTo(Cuts, doc, Len(Cuts[doc]), disk.entries)
      BY <1>1 DEF Saved
    <2>5. QED BY <1>1, <2>2, <2>3, <2>4 DEF StoredTo
  <1>7. \A e \in Range(entries) : \E n \in DOMAIN ingests :
          /\ e.source = ingests[n].doc.source
          /\ e.at <= ingests[n].at /\ e.chunk = Chunks(ingests[n].doc.text)[e.at]
    BY <1>1, <1>3, <1>4 DEF ComesFrom
  <1>8. disk.whole => IsPrefix(disk.entries, entries)
    <2>1. disk.entries \in Seq(LibraryEntry) /\ entries \in Seq(LibraryEntry)
      BY DEF KnowledgeInv, KnowledgeTyped
    <2>2. QED BY <1>1, <2>1, BeginsIs DEF Saved
  <1>9. QED BY <1>1, <1>5, <1>6, <1>7, <1>8 DEF KnowledgeFaithful

(***************************************************************************)
(* Together.  Only the calendar that a behaviour is about starts from a    *)
(* query: another subject leaves the search where it was.                  *)
(***************************************************************************)
WorkshopInv ==
  /\ WorkflowInv
  /\ TrialInv
  /\ TrainingInv
  /\ ApprovalInv
  /\ MemoryInv
  /\ KnowledgeInv
  /\ subject = "schedule" => CronInv
  /\ subject # "schedule" => search.stage = "parse"

LEMMA WorkshopStarts == Init => WorkshopInv
PROOF
  <1> SUFFICES ASSUME Init PROVE WorkshopInv
    OBVIOUS
  <1>1. WorkflowInv /\ TrialInv /\ TrainingInv /\ ApprovalInv
    BY FlowStarts, TrialStarts, TrainingStarts, ApprovalStarts DEF Init
  <1>0. MemoryInv /\ KnowledgeInv
    BY MemoryStarts, KnowledgeStarts DEF Init
  <1>2. subject = "schedule" => CronInv
    BY CronStarts DEF Init, StartOf
  <1>3. search.stage = "parse"
    BY DEF Init, ScheduleInit
  <1>4. QED BY <1>0, <1>1, <1>2, <1>3 DEF WorkshopInv

(* Every step is one of its subject, and leaves the others as they were.   *)
LEMMA WorkshopGoes ==
  ASSUME [Next]_vars
  PROVE  /\ [FlowNext]_flowVars /\ [TrialNext]_trialVars /\ [TrainingNext]_trainingVars
         /\ [ApprovalNext]_approvalVars /\ [ScheduleNext]_scheduleVars
         /\ [MemoryNext]_memoryVars /\ [KnowledgeNext]_knowledgeVars
         /\ subject' = subject
         /\ subject = "schedule" \/ UNCHANGED scheduleVars
PROOF
  <1>1. CASE UNCHANGED vars
    BY <1>1 DEF vars
  <1>2. CASE FlowNext /\ Flow_
    BY <1>2 DEF Flow_
  <1>3. CASE TrialNext /\ Trial_
    BY <1>3 DEF Trial_
  <1>4. CASE TrainingNext /\ Training_
    BY <1>4 DEF Training_
  <1>5. CASE MemoryNext /\ Memory_
    BY <1>5 DEF Memory_
  <1>6. CASE KnowledgeNext /\ Knowledge_
    BY <1>6 DEF Knowledge_
  <1>7. CASE ApprovalNext /\ Approval_
    BY <1>7 DEF Approval_
  <1>8. CASE ScheduleNext /\ Schedule_
    BY <1>8 DEF Schedule_
  <1>9. QED BY <1>1, <1>2, <1>3, <1>4, <1>5, <1>6, <1>7, <1>8 DEF Next

LEMMA WorkshopKeeps == WorkshopInv /\ [Next]_vars => WorkshopInv'
PROOF
  <1> SUFFICES ASSUME WorkshopInv, [Next]_vars PROVE WorkshopInv'
    OBVIOUS
  <1>1. /\ [FlowNext]_flowVars /\ [TrialNext]_trialVars /\ [TrainingNext]_trainingVars
        /\ [ApprovalNext]_approvalVars /\ [ScheduleNext]_scheduleVars
        /\ [MemoryNext]_memoryVars /\ [KnowledgeNext]_knowledgeVars
        /\ subject' = subject
        /\ subject = "schedule" \/ UNCHANGED scheduleVars
    BY WorkshopGoes
  <1>2. WorkflowInv' /\ TrialInv' /\ TrainingInv' /\ ApprovalInv'
    BY <1>1, FlowKeeps, TrialKeeps, TrainingKeeps, ApprovalKeeps DEF WorkshopInv
  <1>0. MemoryInv' /\ KnowledgeInv'
    BY <1>1, MemoryKeeps, KnowledgeKeeps DEF WorkshopInv
  <1>3. CASE subject = "schedule"
    <2>1. CronInv'
      BY <1>1, <1>3, CronKeeps DEF WorkshopInv
    <2>2. QED BY <1>0, <1>1, <1>2, <1>3, <2>1 DEF WorkshopInv
  <1>4. CASE subject # "schedule"
    <2>1. search.stage = "parse" /\ search' = search
      BY <1>1, <1>4 DEF WorkshopInv, scheduleVars
    <2>2. QED BY <1>0, <1>1, <1>2, <1>4, <2>1 DEF WorkshopInv
  <1>5. QED BY <1>3, <1>4

LEMMA WorkshopMeets == WorkshopInv => FlowsFaithful
PROOF
  <1> SUFFICES ASSUME WorkshopInv PROVE FlowsFaithful
    OBVIOUS
  <1>1. WorkflowFaithful /\ TrialFaithful /\ TrainingFaithful /\ ApprovalsFaithful
    BY FlowMeets, TrialMeets, TrainingMeets, ApprovalMeets DEF WorkshopInv
  <1>2. NextIsFirst
    <2>1. CASE subject = "schedule"
      BY <2>1, CronMeets DEF WorkshopInv
    <2>2. CASE subject # "schedule"
      BY <2>2 DEF WorkshopInv, NextIsFirst
    <2>3. QED BY <2>1, <2>2
  <1>3. QED BY <1>1, <1>2 DEF FlowsFaithful

(* What is built on runs does what it says, whatever the agents, the       *)
(* training process and the terminal do and in whatever order: workflows   *)
(* (Chain, Parallel, Router, Orchestrator, FSM) run whom the plan and the  *)
(* answers call for; Evaluate and ABTest return with one record of each    *)
(* work and none still at work; Scheduler.Start begins no training early   *)
(* and reports each once; an approver approves only after a yes that no    *)
(* other call has, or by its first rule; and Schedule.Next skips no time.  *)
THEOREM FlowsAreFaithful == Spec => []FlowsFaithful
PROOF
  <1>1. Init => WorkshopInv
    BY WorkshopStarts
  <1>2. WorkshopInv /\ [Next]_vars => WorkshopInv'
    BY WorkshopKeeps
  <1>3. WorkshopInv => FlowsFaithful
    BY WorkshopMeets
  <1>4. QED BY <1>1, <1>2, <1>3, PTL DEF Spec

(* What was remembered or ingested is found, and nothing else.  A memory   *)
(* of any backends recalls what was said in its session and only that,     *)
(* through any retention, compression and clearing, whatever runs and      *)
(* clears of the session are under way at once, one's save after the       *)
(* other's reading included; its window ends with the last turn it was     *)
(* given, and holds exactly the last that was said while no two calls of   *)
(* the session overlapped.  The chunks of a document, however cut, are its *)
(* words once each and in order, and are all in the store when             *)
(* IngestDocument has returned, whatever is ingested beside it, until a    *)
(* crash tears the file; a file that is whole may be behind the store,     *)
(* after a write that could not begin, but lacks nothing of what was       *)
(* ingested.                                                               *)
THEOREM StoresAreFaithful == Spec => []StoresFaithful
PROOF
  <1>1. Init => WorkshopInv
    BY WorkshopStarts
  <1>2. WorkshopInv /\ [Next]_vars => WorkshopInv'
    BY WorkshopKeeps
  <1>3. WorkshopInv => StoresFaithful
    BY MemoryMeets, KnowledgeMeets DEF WorkshopInv, StoresFaithful
  <1>4. QED BY <1>1, <1>2, <1>3, PTL DEF Spec
=============================================================================
