------------------------------ MODULE AgentRun ------------------------------
(***************************************************************************)
(* The run of an agent: run of runner.go, its loop of LLM calls and tool   *)
(* batches, and the hand-off to another agent, which is a recursive call   *)
(* of run made in the middle of a batch.                                   *)
(*                                                                         *)
(* stack is the Go stack of run calls.  The loop of the last frame is the  *)
(* one that moves; the frames below it wait for its result.  How the calls *)
(* of a batch are executed is ToolExec; here a batch is one step.          *)
(***************************************************************************)
EXTENDS Transcript

CONSTANTS
  Setups,      \* the agents and the options of Run to consider
  MaxRuns,     \* bound: calls of Run, one after the other
  MaxFrames    \* bound: depth of the Go stack

(* The name of every ordinary tool.                                        *)
Tool == "tool"

Strategies == {"slide", "summarize", "error"}

(* What may fail in the environment of a run.                              *)
Faults == {"hook", "prompt", "inputGuard", "outputGuard", "provider",
           "summary", "cancel", "load", "save"}

(* Agents are those of DOMAIN agent.  handoffs: WithHandoffs, allowed: the *)
(* targets its permissions let through, history: HandoffHistory.count(),   *)
(* memory: the size of its sliding memory, 0 for none, window: its context *)
(* limit in tokens, prompt: the size of its system prompt, 0 for none.     *)
AgentConfigs(Agents) ==
  [handoffs : SUBSET Agents, allowed : SUBSET Agents, maxTurns : Nat,
   depthLimit : Nat, history : Int, provider : BOOLEAN, store : BOOLEAN,
   memory : Nat, rateLimit : Nat, strategy : Strategies, window : Nat,
   prompt : Nat]

(* session: WithSession was given, history: WithHistory, maxTurns: the     *)
(* run's own, 0 for none, batches: the lists of calls an LLM may answer    *)
(* with, each an agent to hand off to or Tool, sizes: of tool results,     *)
(* size: of every other message.                                           *)
IsSetup(s) ==
  /\ s.agent \in [DOMAIN s.agent -> AgentConfigs(DOMAIN s.agent)]
  /\ Tool \notin DOMAIN s.agent
  /\ s.root \in DOMAIN s.agent
  /\ s.session \in BOOLEAN
  /\ s.history \in Seq(Messages(DOMAIN s.agent))
  /\ s.maxTurns \in Nat
  /\ s.batches \subseteq Seq(DOMAIN s.agent \union {Tool}) \ {<<>>}
  /\ s.sizes # {} /\ s.sizes \subseteq Nat
  /\ s.size \in Nat
  /\ s.faults \subseteq Faults

ASSUME SetupsAssumption == \A s \in Setups : IsSetup(s)

ASSUME BoundsAssumption == MaxRuns \in Nat /\ MaxFrames \in Nat \ {0}

VARIABLES
  setup,    \* the agents and the options, fixed
  runs,     \* calls of Run made so far
  stack,    \* the frames of run
  ret,      \* what the innermost run returned, while it goes up the stack
  store,    \* the session store: what was saved, by session
  memory,   \* the conversation memory, by session
  sessions, \* session IDs generated so far; 0 is the one given by the caller
  llm,      \* LLM calls made so far; numbers the messages
  log       \* the callbacks of this call of Run, in order

vars == <<setup, runs, stack, ret, store, memory, sessions, llm, log>>

NoResult == [status |-> "none", reason |-> "", agent |-> "", session |-> 0, from |-> ""]

Running == stack # <<>> /\ ret.status = "none"

Top == Last(stack)

Config(f) == setup.agent[f.agent]

Fails(fault) == fault \in setup.faults

(* Whether an operation that may fail succeeds.                            *)
Succeeds(fault) == IF Fails(fault) THEN BOOLEAN ELSE {TRUE}

(* The innermost run is in stage s.                                        *)
At(s) == Running /\ Top.stage = s

SetTop(f) == stack' = [stack EXCEPT ![Len(stack)] = f]

(* run returns an error.                                                   *)
ReturnError(reason) ==
  ret' = [NoResult EXCEPT !.status = "error", !.reason = reason, !.agent = Top.agent]

Message(role, by, id, size) == [role |-> role, by |-> by, id |-> id, size |-> size]

(* The callbacks that fired: "pre" and "post", the hooks of Run's caller,   *)
(* and "ended", the agent's WithOnConversationEnd.                         *)
Event(what, agent) == [what |-> what, agent |-> agent]

(* Nothing is saved for a session that does not exist yet.                 *)
Saved(where, s) == IF s \in DOMAIN where THEN where[s] ELSE <<>>

Save(where, s, msgs) ==
  [t \in DOMAIN where \union {s} |-> IF t = s THEN msgs ELSE where[t]]

Init ==
  /\ setup \in Setups
  /\ runs = 0
  /\ stack = <<>>
  /\ ret = NoResult
  /\ store = <<>>
  /\ memory = <<>>
  /\ sessions = 0
  /\ llm = 0
  /\ log = <<>>

-----------------------------------------------------------------------------
(* Entering run.                                                           *)

(* A call of run with an input, an external history and the hand-off depth *)
(* found in its context.                                                   *)
Frame(agent, history, depth) ==
  [agent |-> agent, stage |-> "entering", session |-> 0, msgs |-> history,
   turn |-> 0, depth |-> depth, calls |-> 0, batch |-> <<>>]

Run ==
  /\ stack = <<>>
  /\ runs < MaxRuns
  /\ runs' = runs + 1
  /\ stack' = <<Frame(setup.root, setup.history, 0)>>
  /\ ret' = NoResult
  /\ log' = <<>>
  /\ UNCHANGED <<setup, store, memory, sessions, llm>>

(* A target without a provider was given that of the agent handing off.    *)
HasProvider == Config(Top).provider \/ Len(stack) > 1

(* The pre-run hook refuses, and nothing else happened yet.                *)
RefuseByHook ==
  /\ At("entering")
  /\ Fails("hook")
  /\ ReturnError("hook")
  /\ UNCHANGED <<setup, runs, stack, store, memory, sessions, llm, log>>

(* The pre-run hook passed.  A session ID is generated for every run call  *)
(* unless the caller gave one.                                             *)
EnterRun ==
  /\ log' = Append(log, Event("pre", Top.agent))
  /\ sessions' = IF setup.session THEN sessions ELSE sessions + 1

(* The early returns before the loop: no provider, then a context function *)
(* or, after the history was loaded, an input guard that fails.            *)
Refuse ==
  /\ At("entering")
  /\ EnterRun
  /\ \/ ~HasProvider /\ ReturnError("noProvider")
     \/ HasProvider /\ Fails("prompt") /\ ReturnError("prompt")
     \/ HasProvider /\ Fails("inputGuard") /\ ReturnError("inputGuard")
  /\ UNCHANGED <<setup, runs, stack, store, memory, llm>>

SystemPrompt ==
  IF Config(Top).prompt = 0 THEN <<>>
  ELSE <<Message("system", Top.agent, 0, Config(Top).prompt)>>

(* Mutant of Recalled: the memory takes precedence over the store.          *)
RecalledFirst(s, readable) ==
  LET recalled == IF Config(Top).memory > 0 THEN Saved(memory, s) ELSE <<>>
      stored   == IF Config(Top).store /\ readable THEN Saved(store, s) ELSE <<>>
  IN  IF recalled # <<>> THEN recalled ELSE stored

(* The store's history, unless it is empty or cannot be read, else the     *)
(* memory's.                                                               *)
Recalled(s, readable) ==
  LET recalled == IF Config(Top).memory > 0 THEN Saved(memory, s) ELSE <<>>
      stored   == IF Config(Top).store /\ readable THEN Saved(store, s) ELSE <<>>
  IN  IF stored # <<>> THEN stored ELSE recalled

(* An external history is ignored by an agent that has a memory.           *)
External == IF Config(Top).memory = 0 THEN Top.msgs ELSE <<>>

Begin ==
  /\ At("entering")
  /\ HasProvider
  /\ EnterRun
  /\ \E readable \in Succeeds("load") :
       LET s == IF setup.session THEN 0 ELSE sessions'
       IN  SetTop([Top EXCEPT
             !.stage = "turn",
             !.session = s,
             !.msgs = SystemPrompt \o Recalled(s, readable) \o External
                        \o <<Message("user", Top.agent, llm, setup.size)>>])
  /\ UNCHANGED <<setup, runs, ret, store, memory, llm>>

-----------------------------------------------------------------------------
(* The loop.                                                               *)

MaxTurnsOf(f) ==
  LET own == IF setup.maxTurns > 0 THEN setup.maxTurns ELSE Config(f).maxTurns
  IN  IF own > 0 THEN own ELSE 25

(* manageContext would ask the LLM for a summary of the messages.          *)
AsksSummary(f) ==
  /\ Config(f).strategy = "summarize"
  /\ Overflows(f.msgs, Config(f).window)
  /\ CanSummarize(f.msgs)

(* A summary that fails or is still too long gives way to the trimming of  *)
(* the original messages.                                                  *)
ManageContext(f, summarized) ==
  LET limit   == Config(f).window
      summary == Summarized(f.msgs, Message("summary", f.agent, llm, setup.size))
  IN  IF Config(f).strategy = "error" \/ ~Overflows(f.msgs, limit) THEN f.msgs
      ELSE IF AsksSummary(f) /\ summarized /\ ~Overflows(summary, limit) THEN summary
      ELSE SlidingWindowTrim(f.msgs, limit)

(* Mutant of CanTurn: the loop makes one turn too many.                     *)
CanTurnOnceMore(f) == f.turn <= MaxTurnsOf(f)

CanTurn(f) == f.turn < MaxTurnsOf(f)

(* The managed messages replace the conversation and go to the provider.   *)
SendPrompt ==
  /\ At("turn")
  /\ CanTurn(Top)
  /\ \E summarized \in Succeeds("summary") :
       SetTop([Top EXCEPT !.stage = "asked", !.msgs = ManageContext(Top, summarized)])
  /\ llm' = llm + (IF AsksSummary(Top) THEN 2 ELSE 1)
  /\ UNCHANGED <<setup, runs, ret, store, memory, sessions, log>>

(* The partial result goes to the agent's callback, not to the post hook.  *)
ExceedTurns ==
  /\ At("turn")
  /\ ~CanTurn(Top)
  /\ log' = Append(log, Event("ended", Top.agent))
  /\ ReturnError("maxTurns")
  /\ UNCHANGED <<setup, runs, stack, store, memory, sessions, llm>>

ProviderFails ==
  /\ At("asked")
  /\ Fails("provider")
  /\ ReturnError("provider")
  /\ UNCHANGED <<setup, runs, stack, store, memory, sessions, llm, log>>

Answered == Append(Top.msgs, Message("answer", Top.agent, llm, setup.size))

(* Mutant of OutputRefused: the conversation is saved before the guards run. *)
OutputRefusedAfterSave ==
  /\ At("asked")
  /\ Fails("outputGuard")
  /\ ReturnError("outputGuard")
  /\ store' = IF Config(Top).store
              THEN Save(store, Top.session, WithoutSystem(Answered)) ELSE store
  /\ UNCHANGED <<setup, runs, stack, memory, sessions, llm, log>>

OutputRefused ==
  /\ At("asked")
  /\ Fails("outputGuard")
  /\ ReturnError("outputGuard")
  /\ UNCHANGED <<setup, runs, stack, store, memory, sessions, llm, log>>

(* No tool call: the conversation with its answer goes to the memory and,  *)
(* without system messages, to the store; an error of either is ignored.   *)
FinalAnswer ==
  /\ At("asked")
  /\ memory' = IF Config(Top).memory > 0
               THEN Save(memory, Top.session, LastPersisted(Answered, Config(Top).memory))
               ELSE memory
  /\ \E written \in Succeeds("save") :
       store' = IF Config(Top).store /\ written
                THEN Save(store, Top.session, WithoutSystem(Answered)) ELSE store
  /\ SetTop([Top EXCEPT !.msgs = Answered])
  /\ ret' = [NoResult EXCEPT !.status = "ok", !.agent = Top.agent, !.session = Top.session]
  /\ log' = log \o <<Event("ended", Top.agent), Event("post", Top.agent)>>
  /\ UNCHANGED <<setup, runs, sessions, llm>>

-----------------------------------------------------------------------------
(* Tool calls.                                                             *)

(* Mutant of Requested: the assistant's message is not kept.                *)
RequestedUnrecorded == Top.msgs

Requested == Append(Top.msgs, Message("call", Top.agent, llm, setup.size))

(* The calls are counted before they are allowed; when they exceed the     *)
(* limit the run waits for the minute to be over.  Without a limit nothing *)
(* is counted and the clock does not matter.                               *)
RequestTools ==
  /\ At("asked")
  /\ \E batch \in setup.batches, minuteOver \in BOOLEAN :
       LET limit == Config(Top).rateLimit
           calls == (IF minuteOver THEN 0 ELSE Top.calls) + Len(batch)
       IN  /\ limit = 0 => minuteOver
           /\ SetTop([Top EXCEPT
                !.stage = IF limit > 0 /\ calls > limit THEN "throttled" ELSE "batch",
                !.calls = IF limit > 0 THEN calls ELSE 0,
                !.batch = batch,
                !.msgs  = Requested])
  /\ UNCHANGED <<setup, runs, ret, store, memory, sessions, llm, log>>

MinutePasses ==
  /\ At("throttled")
  /\ SetTop([Top EXCEPT !.stage = "batch", !.calls = Len(Top.batch)])
  /\ UNCHANGED <<setup, runs, ret, store, memory, sessions, llm, log>>

CancelledWhileThrottled ==
  /\ At("throttled")
  /\ Fails("cancel")
  /\ ReturnError("cancelled")
  /\ UNCHANGED <<setup, runs, stack, store, memory, sessions, llm, log>>

(* The calls that executeSingleTool turns into a hand-off; a target that   *)
(* is not permitted or not found becomes an error result like any other.   *)
Handoffs(f) ==
  {k \in DOMAIN f.batch : f.batch[k] \in Config(f).allowed \intersect Config(f).handoffs}

Results(f, n, size) == [i \in 1..n |-> Message("tool", f.agent, llm, size)]

ExecuteBatch ==
  /\ At("batch")
  /\ Handoffs(Top) = {}
  /\ \E size \in setup.sizes :
       SetTop([Top EXCEPT
         !.stage = "turn",
         !.turn  = Top.turn + 1,
         !.batch = <<>>,
         !.msgs  = Top.msgs \o Results(Top, Len(Top.batch), size)])
  /\ UNCHANGED <<setup, runs, ret, store, memory, sessions, llm, log>>

(* Mutant of DepthExceeded: the limit itself is let through.                *)
DepthExceededLate(f) == Config(f).depthLimit > 0 /\ f.depth > Config(f).depthLimit

(* The agent that hands off checks its own limit, if it has one.           *)
DepthExceeded(f) == Config(f).depthLimit > 0 /\ f.depth >= Config(f).depthLimit

ExceedDepth ==
  /\ At("batch")
  /\ Handoffs(Top) # {}
  /\ DepthExceeded(Top)
  /\ ReturnError("depth")
  /\ UNCHANGED <<setup, runs, stack, store, memory, sessions, llm, log>>

(* Mutant of NextDepth: the hand-off is not counted.                        *)
NextDepthForgotten(f) == f.depth

(* Only an agent with a limit counts its hand-off.                         *)
NextDepth(f) == IF Config(f).depthLimit > 0 THEN f.depth + 1 ELSE f.depth

(* Mutant of HandedOver: the target gets the caller's history only.         *)
HandedOverNothing(msgs, count) == setup.history

(* WithHistory(handoffMsgs) comes before the caller's options, so that a   *)
(* history of the caller's replaces it.                                    *)
HandedOver(msgs, count) ==
  IF setup.history # <<>> THEN setup.history ELSE PrepareHandoffHistory(msgs, count)

(* The first hand-off of the batch leaves the loop: the results before it  *)
(* are kept, those after it are lost, its own call is never answered.      *)
HandOff ==
  /\ At("batch")
  /\ Handoffs(Top) # {}
  /\ ~DepthExceeded(Top)
  /\ Len(stack) < MaxFrames
  /\ \E k \in Handoffs(Top), size \in setup.sizes :
       LET msgs == Top.msgs \o Results(Top, k - 1, size)
       IN  /\ \A j \in Handoffs(Top) : k <= j
           /\ stack' = Append(
                [stack EXCEPT ![Len(stack)] =
                   [Top EXCEPT !.stage = "handedOff", !.msgs = msgs]],
                Frame(Top.batch[k], HandedOver(msgs, Config(Top).history), NextDepth(Top)))
  /\ UNCHANGED <<setup, runs, ret, store, memory, sessions, llm, log>>

(* Mutant of Unwound: a hand-off that failed is reported like the others.   *)
UnwoundAlways(caller) == <<Event("ended", caller.agent), Event("post", caller.agent)>>

(* An error goes up as it is; a result goes through the callbacks of every *)
(* run it leaves.                                                          *)
Unwound(caller) ==
  IF ret.status = "ok"
  THEN <<Event("ended", caller.agent), Event("post", caller.agent)>>
  ELSE <<>>

(* run returns to the run that handed off to it, or to Run's caller.       *)
Return ==
  /\ stack # <<>>
  /\ ret.status # "none"
  /\ stack' = Front(stack)
  /\ IF Len(stack) = 1
     THEN UNCHANGED <<ret, log>>
     ELSE LET caller == stack[Len(stack) - 1]
          IN  /\ ret' = IF ret.status = "ok" THEN [ret EXCEPT !.from = caller.agent] ELSE ret
              /\ log' = log \o Unwound(caller)
  /\ UNCHANGED <<setup, runs, store, memory, sessions, llm>>

-----------------------------------------------------------------------------
(* A step of the goroutine that called Run.                                *)
Step ==
  \/ RefuseByHook
  \/ Refuse
  \/ Begin
  \/ SendPrompt
  \/ ExceedTurns
  \/ ProviderFails
  \/ OutputRefused
  \/ FinalAnswer
  \/ RequestTools
  \/ MinutePasses
  \/ CancelledWhileThrottled
  \/ ExecuteBatch
  \/ ExceedDepth
  \/ HandOff
  \/ Return

Next == Run \/ Step

Spec == Init /\ [][Next]_vars

(* Providers, tools, guards and hooks return, so the goroutine goes on.    *)
FairSpec == Spec /\ WF_vars(Step)
-----------------------------------------------------------------------------
(* Type invariant.  No loop makes more turns than it may, and no stack of  *)
(* runs is deeper than the bound of the model.                             *)
Stages == {"entering", "turn", "asked", "throttled", "batch", "handedOff"}

Conversations == Seq(Messages(DOMAIN setup.agent))

RunFrames ==
  [agent : DOMAIN setup.agent, stage : Stages, session : 0..sessions,
   msgs : Conversations, turn : Nat, depth : Nat, calls : Nat,
   batch : setup.batches \union {<<>>}]

Returns ==
  [status : {"none", "error", "ok"},
   reason : {"", "hook", "noProvider", "prompt", "inputGuard", "maxTurns",
             "provider", "outputGuard", "cancelled", "depth"},
   agent : DOMAIN setup.agent \union {""}, session : 0..sessions,
   from : DOMAIN setup.agent \union {""}]

Callbacks == [what : {"pre", "ended", "post"}, agent : DOMAIN setup.agent]

IsHistory(where) ==
  /\ DOMAIN where \subseteq 0..sessions
  /\ \A s \in DOMAIN where : where[s] \in Conversations

TypeOK ==
  /\ setup \in Setups
  /\ runs \in 0..MaxRuns
  /\ stack \in Seq(RunFrames)
  /\ Len(stack) <= MaxFrames
  /\ \A i \in DOMAIN stack : stack[i].turn <= MaxTurnsOf(stack[i])
  /\ ret \in Returns
  /\ IsHistory(store)
  /\ IsHistory(memory)
  /\ sessions \in Nat
  /\ llm \in Nat
  /\ log \in Seq(Callbacks)

(* An agent with a limit of m only hands off when less than m of the       *)
(* hand-offs that led to it were made by agents with a limit, whatever     *)
(* agents without one are in between (runner.go, the depth check).         *)
LimitedBelow(i) == {j \in 1..(i - 1) : Config(stack[j]).depthLimit > 0}

DepthBounded ==
  \A i \in 1..(Len(stack) - 1) :
    LET limit == Config(stack[i]).depthLimit
    IN  limit > 0 => Cardinality(LimitedBelow(i)) < limit

(* The callbacks of a run that succeeds are those of a well-nested          *)
(* recursion: a pre hook for every run entered, then, from the innermost   *)
(* outwards, the agent's own callback and the post hook of the same run.   *)
WellNested(l) ==
  \E n \in 1..Len(l) :
    /\ Len(l) = 3 * n
    /\ \A i \in 1..n :
         /\ l[i].what = "pre"
         /\ l[3 * n - 2 * i + 1] = Event("ended", l[i].agent)
         /\ l[3 * n - 2 * i + 2] = Event("post", l[i].agent)

(* The hooks of Run, on which the quotas of a tenant rest, see a success as *)
(* a well-nested sequence and a failure as pre hooks with no post hook: a   *)
(* run deep in the hand-offs that fails is charged at no level.            *)
CallbacksNest ==
  stack = <<>> =>
    /\ ret.status = "ok" => WellNested(log)
    /\ ret.status = "error" => \A i \in DOMAIN log : log[i].what # "post"

(* No agent of the setup drops messages of the conversation.               *)
Untrimmed ==
  \A a \in DOMAIN setup.agent :
    /\ setup.agent[a].strategy = "error"
    /\ setup.agent[a].history <= 0
    /\ setup.agent[a].memory = 0

(* Every prompt of an agent that has instructions starts with them and not  *)
(* with those of the agent that handed off to it, however much is trimmed  *)
(* or summarized.                                                          *)
InstructionsLead ==
  \A i \in DOMAIN stack :
    stack[i].stage = "asked" /\ Config(stack[i]).prompt > 0 =>
      /\ stack[i].msgs[1].role = "system"
      /\ stack[i].msgs[1].by = stack[i].agent

(* What goes to a provider starts with the agent's own instructions, and    *)
(* never holds a tool result without its call, even after a hand-off in    *)
(* the middle of a batch, after a history read back from the store, and    *)
(* across runs, as long as nothing is trimmed and the caller's own history *)
(* holds none (runner.go, run; context_mgmt.go).                            *)
PromptsWellFormed ==
  /\ InstructionsLead
  /\ Untrimmed /\ ResultsHaveCalls(setup.history) => \A i \in DOMAIN stack :
       stack[i].stage = "asked" => ResultsHaveCalls(stack[i].msgs)

IsInfix(s, t) ==
  \E k \in 0..(Len(t) - Len(s)) : SubSeq(t, k + 1, k + Len(s)) = s

(* options.go, HandoffHistory: "FullHistory sends the complete conversation *)
(* history (default)": a target without a memory of its own sees all of    *)
(* what was said before the hand-off.                                      *)
HandoffCarriesConversation ==
  \A i \in 1..(Len(stack) - 1) :
    LET target == stack[i + 1]
    IN  /\ Config(stack[i]).history = 0
        /\ Config(target).memory = 0
        /\ Config(target).strategy = "error"
        /\ target.stage # "entering"
        => IsInfix(stack[i].msgs, target.msgs)

(* So it is when Run was called without a history.                         *)
HandoffKeepsConversation == setup.history = <<>> => HandoffCarriesConversation

(* options.go, SessionStore: "Unlike Memory (which may truncate or         *)
(* summarize), SessionStore always persists the raw []Message slice":      *)
(* what was persisted of a session stays, and only grows.                  *)
Grows(s) == s \in DOMAIN store' /\ IsPrefix(store[s], store'[s])

StoreNeverForgets == [][\A s \in DOMAIN store : Grows(s)]_vars

(* So it is when no agent trims and the store can be read: a second run, a *)
(* hand-off between agents that share the store, a failed save or a run    *)
(* that fails half-way lose nothing of what was saved.                     *)
ReadableUntrimmed ==
  /\ \A a \in DOMAIN setup.agent : setup.agent[a].strategy = "error"
  /\ ~Fails("load")

StoreKeepsHistory ==
  [][ReadableUntrimmed => \A s \in DOMAIN store : Grows(s)]_vars

(* Run implements the atomic update of one session's history, in the store *)
(* and in the memory.                                                      *)
Phase ==
  IF stack # <<>> THEN (IF ret.status = "ok" THEN "saved" ELSE "running")
  ELSE CASE ret.status = "none"  -> "idle"
         [] ret.status = "ok"    -> "ok"
         [] ret.status = "error" -> "failed"

StoreLog  == INSTANCE SessionLog WITH saved <- store, phase <- Phase
MemoryLog == INSTANCE SessionLog WITH saved <- memory, phase <- Phase

ImplementsSessionLog == StoreLog!LogSpec /\ MemoryLog!LogSpec

(* options.go, WithMaxHandoffDepth: "limits how many consecutive handoffs  *)
(* can happen in a single Run() call": the limit of the agent Run was      *)
(* called with bounds the chain of hand-offs.                              *)
RootLimitsHandoffs ==
  LET limit == setup.agent[setup.root].depthLimit
  IN  limit > 0 => Len(stack) - 1 <= limit

(* Run returns: the turns of every loop are bounded and, where every cycle *)
(* of hand-offs goes through an agent with a limit, so are the hand-offs.  *)
RunReturns == stack # <<>> ~> stack = <<>>

=============================================================================
