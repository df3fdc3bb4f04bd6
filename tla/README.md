# A verification project for daneel

TLA+ models of the concurrent and stateful parts of the daneel library (Go),
TLC configurations that check them on small instances, and TLAPS proofs of what
matters most for every instance.  Everything is read off the code; file and line
references are to the repository root, and `PROJECT.json` maps every definition
to the lines it stands for.

Contents: 1 the system, 2 the modules, 3 tool execution, 4 the agent run,
5 the circuit breaker and the bridge, 6 the services around a run, 7 the
exchanges with the outside, 8 WebSockets, 9 the workshop, 10 the runs, 11 the
proofs, 12 disagreements between code and documentation, 13 what is not
modelled, 14 the plan.

## 1. The system

daneel runs LLM agents inside a Go process.  `daneel.Run` drives an agent: it
sends a conversation to a provider, executes the tools the LLM asks for, hands
off to another agent when told to, and returns the final answer.  Around it are
things that call Run (bridge, cron, pubsub, workflows, the MCP and WebSocket
servers), things Run calls (providers, tools, memories, session stores,
approvers) and things hooked into it (tenant quotas, billing, tracing).

| component | state it keeps | operations | interacts by | hard behaviour | what makes it correct |
|---|---|---|---|---|---|
| agent run (`runner.go`) | the conversation, turn, rate window, hand-off depth in the context; all local to a call | `run`, its loop, hand-off | recursive call; calls to provider, guards, hooks, store, memory | a hand-off recurses in the middle of a batch; faults at every step; hooks at every level | the prompt is well formed and starts with the agent's instructions; persistence is all or nothing; hooks nest; it returns |
| conversation (`context_mgmt.go`, `handoff.go`) | none | trim, summarize, copy for hand-off | called by run | budgets of zero, oversized messages | the system prompt survives; nothing is dropped unless it must be |
| tool execution (`runner.go`, `tool.go`) | results slice, semaphore channel, child context, one result channel per tool | `executeToolCalls`, `executeSingleTool`, `Tool.Run` | goroutines, channels, contexts, approver | four modes, fail-fast, deadlines, abandoned functions | each call settled once and for a reason; only vetted tools run; the batch ends |
| permissions (`permission.go`) | rules, fixed | `checkTool`, `checkHandoff` | called per call | order of allow and deny | deny wins |
| circuit breaker (`provider/circuitbreaker.go`) | state, two counters, time of opening, under a lock | `allow`, `record` | wraps a provider shared by callers | results arrive in a later state than the call left | opens, tries and closes for the right results |
| provider combinators (`provider/provider.go`) | round-robin counter | `Fallback`, `RoundRobin`, `CostRouter` | wrap providers | which errors go on to the next | a failed call has tried everyone that could help |
| provider clients (`provider/*`) | HTTP client | `Chat`, `ChatStream` | network, a goroutine and a channel per stream | retries, errors in bodies and streams, fragments, cut streams, roles and references on the wire | nothing paid for twice; what arrives is what was sent |
| memory (`memory/`) | messages per session | `Save`, `Retrieve`, `Clear` | called by run | LLM call under a lock, composite partial failure | a bounded, faithful recollection |
| session store (`session/`) | one file or map entry per session | `Save`, `Load`, `List`, cleanup | called by run, cleanup goroutine | rename, expiry while in use, last writer wins | a session is the last saved one, whole |
| tenant quotas (`tenant/`) | usage and windows per tenant, under a lock | check before, count after a run | hooks of run | check and count are two steps | quota, up to the runs in flight |
| billing (`billing/`) | records, fired alerts | `record`, `checkAlerts` | conversation-end callback | alert judged outside the lock | an alert fires once when due |
| bridge (`bridge/`) | conversation per session, semaphore | `Run`, `handleMessage`, `cleanup` | connectors' channels, run | concurrent messages of one conversation, expiry, full pool, stop | every message is answered once, to its sender, with its conversation |
| connectors, ws (`connector/`, `ws/`) | offset or queue, connections | poll, webhook, `Send`, `Stop` | network, channels | full queue, restart, hijacked connections | no loss without notice |
| MCP (`mcp/`) | request id, pipes, under a lock | `send`, server loop | child process | answer that never comes | answer matches request |
| pubsub (`pubsub/`) | subscribers, buffered channel | `Publish`, `Start`, `Stop` | run | stop while publishing, partial delivery | each subscriber once |
| cron (`cron/`) | jobs with next run time, each under a lock | `Start`, `runJob`, `Stop` | run | due job started before its next time is set | a job runs once per due time |
| workflow (`workflow/`) | the state of a call | chain, parallel, router, orchestrator, FSM | run | joins, transition limit, fuzzy labels | the path is the one the answers call for; terminates |
| approval (`approval/`) | pending requests, a console | `Approve`, web handler | tool execution | answer after the time is over, several readers of one console | only a yes approves, one call at most |
| fine-tuning (`finetune/`) | a count, files, a training under way | collect, schedule, train, split, evaluate | run, a child process, channels | a full channel of progress, failed writes | trained when due, reported once, counted as written |
| knowledge (`knowledge/`, `memory/store`) | entries and their file | `Ingest`, `Search` | embedders | concurrent ingests, torn file, recursive cutting | no word lost, nothing stored twice |
| experiment (`experiment/`) | results under a lock | `Evaluate`, `ABTest` | run, judges | semaphore, first error | one record per work, errors reported |
| trace, config, platform tools, cmd | files, counters | - | HTTP | - | - |

`PROJECT.json` lists under "hazards" what in this code is hard to test, each at
its line, and the properties that cover it.

## 2. The modules

    ToolBatch  <--refines--  ToolExec        <- MCToolExec, ToolExec_proofs
    SessionLog <--refines--  AgentRun        <- MCAgentRun, AgentRun_proofs
                             Transcript (operators of AgentRun)
                             CircuitBreaker  <- CircuitBreaker_proofs
    Delivery   <--refines--  Bridge          <- MCBridge, Bridge_proofs

    SessionFiles, Tenancy, Billing, CronJobs, PubSub
                 --put together in-->  Operations  <- MCOperations, Operations_proofs
    ProviderClient, ProviderStream, Wire, Feed, RemoteCall
                 --side by side in-->  Exchanges   <- MCExchanges, Exchanges_proofs
    Workflow, Evaluation, Training, Memories, Knowledge, Approvals, CronSchedule
                 --side by side in-->  Workshop    <- MCWorkshop, Workshop_proofs
    Socket

    Selection       the elements of a sequence that pass a test (Transcript, Feed,
                    Wire, ProviderStream, Training, Memories)
    SequenceLemmas  what Selected and FlattenSeq do to any sequence (the proofs of
                    AgentRun, Operations, Exchanges and Workshop)

How they fit.  ToolBatch is what AgentRun assumes of ToolExec: in AgentRun a
batch of tool calls is one step that appends one result per call, which is what
a caller of the abstract batch sees.  AgentRun in turn sees a provider as a
call that answers or fails, which is what CircuitBreaker's callers see and what
ProviderClient shows to become of a call.  Bridge, Operations, Workflow,
Evaluation and Socket see a run of the agent as a step that succeeds or fails:
AgentRun's `RunReturns` says that it ends.  Bridge sees a connector as a channel
that may fill, close or stay open; Feed shows what a connector puts into it, and
`FeedsClose` there is the fairness that Bridge assumes of connectors that close.
Transcript cuts conversations down to size before Wire puts them on the wire.
CronJobs has the calendar of a job as a set of times; CronSchedule is how the
code gets from an expression to the next one of them, and its `gaveUp` is
CronJobs' `Never`.

Operations is a composition: its five components act on one another, because a
run goes through all of them.  Exchanges and Workshop are not: their parts share
no state, so each behaviour is about one of them (`about`, `subject`) and the
others stay where they start.  They are in one module so that one run checks
what belongs together.

## 3. Tool execution: ToolBatch, ToolExec

*State.*  `cfg` and `call` fix the mode and the calls; `pc[c]` is where
`executeSingleTool` is for call c, `sem` the length of the semaphore channel,
`body[c]` the goroutine started by `Tool.Run` together with its channel of
capacity one, `results` the slice, `execDone` the child context of fail-fast,
`runDone` the context of Run, `expired` the deadlines that passed.

*Actions.*  `RefuseOrHandoff`, `AskApproval` and `RunPlain` are the ways
`executeSingleTool` goes up to where it waits; `Approve`, `Deny`,
`ApproverFails` are the answers of `Approver.Approve`; `ReceiveResult` and
`GiveUpOnBody` are the two cases of the `select` in `Tool.Run`, both possible
when both are ready; `BodyReturns` is the tool's function, which goes on when
nobody waits for it any more; `Return` is `wg.Wait` and the deferred cancel.
A batch of one call is sequential whatever the mode, as in the code.  A step
between two waits is atomic: what it touches is local or its own slot.

*Abstraction.*  Arguments and texts are left out; a call is its kind (what the
permission rules, the look-up and the tool's flag make of it) and whether some
deadline applies to it.  Time is "the deadline has passed".

*Promise.*  ToolBatch: a call is settled once, with an outcome its kind allows,
and the results are delivered when complete and stay as they are.
`ImplementsToolBatch` is that refinement.  `BatchReturns` says what gets a run
out of a batch whose tools hang: a cancelled context, fail-fast, or deadlines; an
approver that ignores its context is the one thing that does not yield, which is
why it is in the hypotheses.

*Fairness.*  Weak fairness on the supervisor of every call, on `Return`, on
deadlines (timers fire) and on an approver that hears its context.  Not on
tools, approvers or the caller.

## 4. The agent run: Transcript, SessionLog, AgentRun

*State.*  `stack` is the Go stack of `run` calls, the last frame the active
one.  A frame has the agent, the stage, the session ID, the conversation
`msgs`, the turn, the hand-off depth found in the context and the calls of the
current rate window.  `ret` is the result on its way up.  `store` and `memory`
are what is persisted by session, `log` the callbacks that fired.

*Actions.*  `Refuse*` are the early returns, `Begin` is everything from the
hook to the first turn, `SendPrompt` the turn check with `manageContext`,
`ProviderFails`, `OutputRefused` and `FinalAnswer` the ends of a turn without
tool calls, `RequestTools`, `MinutePasses` and `CancelledWhileThrottled` the
rate limit, `ExecuteBatch` and `HandOff` the two things a batch can do,
`ExceedTurns` and `ExceedDepth` the limits, `Return` the way up the stack,
through the callbacks of each level.  `HandOff` leaves the batch at the first
hand-off as the loop over the results does: what came before is kept.

*Data.*  A message is its role, owner, number and size, because trimming
depends on sizes and the properties on who said what.  `Transcript` translates
the token estimate (four characters a token, rounding down), the window, the
summary and the copy for the target.  Providers with a token counter of their
own are not modelled: the estimate is what the code uses without one.

*Faults.*  Each setup names what may fail in it: hook, context function,
guards, provider, summary, load, save, cancellation while throttled.

*Promise.*  SessionLog: a run that fails leaves the persisted histories alone,
one that succeeds touches one session at most and once.  AgentRun implements it
for the store and for the memory (`ImplementsSessionLog`), also when a run
deep in the hand-offs is the one that saves.

*Fairness.*  Weak fairness on the steps of the goroutine inside Run: providers,
tools, guards and hooks return.  Nobody is obliged to call Run.  `RunReturns`
rests on the turn limits and, in setups with cyclic hand-offs, on an agent with
a depth limit on the cycle.

## 5. The circuit breaker and the bridge

### CircuitBreaker

`allow` is `Reject`, `PassThrough` or `HalfOpen`; `record` is `RecordFailure`
or `RecordSuccess`; between them `pc[c]` is "calling" and the lock is free, so
results are recorded in any state.  `age` is the time since `openedAt`, capped
at the open timeout, since nothing tells longer times apart.  `failed` and
`passed` are history variables: the results recorded since the last one of the
other sort.  They are what the properties measure the breaker's own counters
by, and they are not read by any action.

*Fairness.*  The clock ticks, calls to the provider end, and each caller calls
again: the breaker has no goroutine and changes only when called.

### Delivery, Bridge

*State.*  `setup` fixes the connectors, the messages and the options.
`conn[k]` is where `Start` of connector k is, `inbox[k]` its channel, `merged`
the channel of `Run`, `sem` the length of the semaphore channel, `convos` the
map of conversations, `old` those that the next cleanup will find expired, and
`stage[m]` where message m is: on its platform, in a channel, in the hand of a
goroutine between two channels, or at a point of `handleMessage`.

*Actions.*  `TakeFromInbox` and `Forward` are the two halves of the loop that
merges a connector's channel, `TakeFromMerged` and `Dispatch` those of the loop
in `Run`, which waits at the semaphore with a message in its hand.  `Record` is
the locked block that adds the message to its conversation and trims it,
`StoreAnswer` the one that adds the answer if the conversation is still there;
between them the lock is free (`RunSucceeds`, `SendReply`, or `Fail`, which
covers both early returns).  `Return` is the end of `Run`; its condition is that
the merged channel was closed, which takes every connector's channel closed and
emptied.  `Cleanup` deletes what is old.

*Connectors.*  Not one connector but the ways in which they differ for the
bridge.  Telegram, Slack, Twitter and the GitHub poller wait for room in their
channel, email, WhatsApp and the GitHub webhook drop the message, and the
WebSocket connector may drop it at any time, because the context in its
`select` is that of a request which is over.  Email and Twitter can fail before
their loop and then leave the channel open, a webhook's server can end by
itself, and the WebSocket connector never closes its channel.  A message that
arrives at a connector that is not open stays where it is.

*Abstraction.*  Texts, times and metrics are left out.  A history holds who
spoke and on which message.  Time is "lastSeen is older than the TTL".

*Promise.*  Delivery: a message is taken or refused once; what is taken is
settled once, by a reply or a report to the error handler; Run does not end
while something taken is unsettled.  Whether an answer is recorded is not part
of it: a conversation that expires while its message is being answered begins
anew without question and answer, as in the code.

*Fairness.*  Weak fairness on every goroutine of `Run` (the scheduler), on
handlers (runs and sends end, well or not), on the start of a connector and on
its close once the context is done, for those that close.  Nobody owes the
bridge a message, a cancellation, the end of a connector or a cleanup.

## 6. The services around a run: Operations

*State.*  `run[r]` is the run that goroutine r is in: its stage, who started it,
its tenant and session, and what it has read so far.  Each service keeps its own
variables: the files of SessionFiles (`named`, `temp`, the open files `fd`), the
`usage` of Tenancy, `spent`, `fired` and `armed` of Billing, `job` of CronJobs,
`subs`, `envelopes` and `publisher` of PubSub.

*Actions.*  The stages follow the order of calls in `run` (`runner.go:22-261`):
`Enter` is the tenant's hook (check and roll-over under one lock), `LoadSession`,
`Answer` or `Fail`, then the save in four steps, because two runs of a session
share its temporary file: `ReadExisting`, `OpenTemp`, `WriteTemp`, `RenameTemp`.
`RecordCost`, `Summarize` and `CheckAlerts` are the three locks that the cost
tracker takes in turn, `CountRun` the second lock of the tenant manager, `Finish`
the end, or the next try of a job.  `Call`, `Tick` with `Begin`, and `Route` are
what starts runs; between `Tick` and `Begin` the job is still due and the next
tick starts it again.  `Expire` and `Cleanup` are the two steps of the cleanup,
which reads a file's time and then removes it by name.

*Abstraction.*  A history is the sequence of the runs that added to it.  A file
is missing, empty, torn or whole; a process keeps the file that it has open when
the name moves on.  Time is a number, an hour, a day and a month a few units of
it; the calendar of a job is a set of times.

*Faults.*  A write that fails, a run that fails, a process that dies between any
two steps: files stay, everything else begins anew (`Crash`).

*Promise.*  `QuotaOverrunBounded`: check and count are two steps, so a quota can
be overrun, by less than the number of runs at once.  `AlertsTrackSpending`: an
alert is based on a total read under another lock, and is right all the same.
`SessionsReadable` and `SerialRunsKeepHistory`: a session that runs use one at a
time is whole and only grows, through failed writes, expiry and crashes; for
sessions that runs share neither holds (`contended` is what tells them apart),
since the last writer wins and the shared temporary file may be torn.
`ServicesProgress`: due jobs are started, publishers get rid of what they have,
runs end.

*Fairness.*  Runs come to an end, the loops of the scheduler and of the bus take
what is there, a publisher that can send does.  Nobody has to call, to stop or to
expire anything, and time need not pass.

## 7. The exchanges with the outside: Exchanges

**ProviderClient** is a call of a provider: members tried in order, each a
client or several (`Fallback`, `RoundRobin`, `CostRouter`).  `Exchange` is a
request and its answer; what `doChat` makes of it (`OpenAIChat`, ...) is a
response or an error with the status that decides on a retry, and the sort of
error that decides on a fallback; they differ from service to service, which is
what the module is about.  `CallsJustified`: nothing is asked after a success,
no service more often than its retries allow, and a call fails only when
everyone that could help was asked.

**ProviderStream** is `ChatStream`: the goroutine that reads events
(`ReadEvent`), waits for room in its channel (`SendChunk`) and, at the end of the
body (`ReadEnd`), sends the calls it has put together, and the consumer's loop in
the run (`Consume`).  A
body may be complete, cut off without a sign, or end in an error; the context may
be done at any time.  `StreamFaithful`: the text is always a beginning of what
was sent, and a response has all of it and every call once, under the
hypotheses that the code needs (section 12).

**Wire** builds conversations as runs do and translates them into each service's
messages: roles, the merging of neighbours of one role, the references between
calls and results.  `HandOff` is what the loop over the results of a batch does
when one of them is a hand-off (`runner.go:263-349`): the turn with the calls is
in the conversation, the results before the hand-off too, the call that hands
over and those after it have no result and never get one, and the next message
is the reason, as a user's (`runner.go:133-137`).  `unanswered` is the places of
those calls.  `TakeOver` changes the service between two requests, as a fallback
does.  `WireFaithful`: merging loses nothing, roles alternate where the API wants
it, and results are of calls of the turn before.  What it says of the other
direction is what the code does: every call has its result, but for those that a
hand-off left, and a request of the target has these too, although the services'
APIs ask for a result to each call.  The history given along is the whole one
(`handoff.go:67-86`); `LastN`, which may begin it with results whose calls were
cut off, and the prompts of the targets are left out here (AgentRun has both).

**Feed** is the receiving side of a connector: the poll with its cursor, the
page it gets (newest first or not, with a limit), the channel and what becomes of
an item that finds no room, webhooks, stop and restart.  `FeedFaithful` says
which connectors neither repeat nor skip, and that an update is gone from
Telegram only if it was taken, is in the channel, or was there when the process
ended: this is the loss that the code accepts.  `FeedsClose` says that a
connector that hears of the end closes its channel.

**RemoteCall** is the MCP client: concurrent calls over one pipe (or HTTP), a
mutex held from the write to the answer, ids taken before the mutex, a server
that may be silent, may write lines that are no answers, or may end.
`AnswersMatch`: a call returns the answer to its own request.  The lines that are
no answers have no id; a server's own request with the id of a call under way,
which `mcp.go:323` would take for the answer, is not tried.  `CallsReturn`,
for servers that answer or end: over stdio nobody looks at the context while
the pipe is read, so a silent server holds everyone up.

`ExchangesEnd` joins the liveness of all of them.  *Fairness* is on the client,
the reader and the consumer of a stream, the connector and who takes from its
channel, a server that is not silent, and strongly on the mutex, which does not
starve (`sync.Mutex`).  Nobody has to cancel, publish, fail or end.

## 8. WebSockets: Socket

Connections with the frames in flight, the connector's registry and channel,
and the server's goroutines, which read the session of the connection after
they were started.  That `net/http` cancels the context of a request when its
handler returns is external; the handlers hand that context on to what outlives
them, which is the disagreement the run `ws_forward` shows.  Until that is
different there is little to say about what such connections promise, so
Socket has no passing run; Bridge has the connector in it as the code has it.

## 9. The workshop: Workshop

**Workflow**: a chain, tasks in parallel, a router (exact label, then one that
contains the answer or is contained in it), an orchestrator whose first agent
splits the work, and a machine of agents with a limit on its transitions.  A run
is one step that answers with a word or fails.  **Evaluation**: `Evaluate`, whose
loop takes a token before each goroutine, and `ABTest`.  **Training**: the
collector with its count and its files, the scheduler, a child process, its
pipe and the reader with a bounded channel that nobody reads, then the data set.
The filter of the data set counts messages, of which samples in ChatML and Alpaca
have none (`dataset.go:43-56`).
**Memories**: sliding, summary and vector memories and several of them together,
with providers and embedders that fail, over a store that all sessions share.
Runs and clears of a session interleave: a run asks backend by backend
(`Begin`, `Ask`; `runner.go:103`), has its answer or fails (`Answer`, `GiveUp`),
and saves the conversation it has backend by backend (`SaveHeld`,
`SaveMessage`; `runner.go:225`); a clear goes the same way (`Clear`,
`ClearHeld`, `LookUp`, `Delete`).  Each of these steps is one under the lock of a
backend, but for a vector memory, which is locked over all messages of a save
(`Locked`) and not at all over a clear.  So a save may replace what another run
saved after the reading (`memory/sliding.go:52`), and bring back what was cleared.
**Knowledge**: the chunkers on texts with separators of four ranks, documents
without words among them, concurrent ingests, the store's file through files
that cannot be made anew (`CreateFails`), failed writes and crashes.
**Approvals**: a policy, and a console with a time limit that several calls share
and late readers go on reading.  The terminal is read letter by letter
(`ReadLetter`, `ReadLineEnd`), "y" and "yes" are both a yes, and a late reader and
the current one may share an answer.

**CronSchedule** is the function behind a cron job: `Parse`, one step that
accepts, refuses or panics, and the loop of `Next`, one action for each way
through its body, on the calendar with its leap years (external: package `time`,
in UTC).  A part of a field is a record of the numbers in its text.

`FlowsFaithful` is what workflows, experiments, trainings and approvals have to
do: the runs are those the plan and the answers call for, each result is that of
its own task, errors are those that happened, a training starts when due and is
reported once, only a yes approves, and one call at most.  `StoresFaithful` is
what memories and the knowledge base have to keep: nothing of another session,
nothing twice, no word lost.  Of a sliding window it says, whatever overlaps,
that it ends with the last turn it was given, and that it holds exactly the last
of what was said only while no two calls of the session overlapped
(`overlapped`); with the lost update more does not hold.  Of a summary it says
that it has every turn it was given since it was last cleared, and nothing else
unless calls overlapped.  Of a chunk it says that it is within the size or a
single word; of the file, that when it is whole it is a beginning of what the
store has, and has all of what was completely ingested: after a file that
could not be made anew it is behind.

`NextIsFirst`, a part of `FlowsFaithful`, compares what the search for the
next time finds with the set of all dates of the schedule, which is defined
without the loop: nothing is skipped, and the loop gives up only when the years
it searches have nothing.

Two assumptions narrow what is shown.  Approvals takes it that in what people
answer a "y" stands only at the beginning of a yes (`AnswersAssumption`): a late
reader that takes the "den" of "deny" would leave the "y" to the next call and so
approve it.  Memories takes it that a memory has a backend (`MindsAssumption`);
`Composite` with none remembers nothing.

`WorkshopEnds` says that workflows, experiments, such searches and trainings end,
with one exception that is in the property: a training whose reader has filled
the channel of progress waits for ever, because the scheduler reads no progress
(`finetune/scheduler.go:84-100`).  That deadlock is therefore allowed by
`WorkshopEnds`, not excluded by it.

*Fairness.*  Agents answer or fail, goroutines, the child process and the search
go on.  Nobody has to converse, ingest, type, cancel or end a conversation.

## 10. The runs

| run | states | shows | bounds and why they are enough |
|---|---|---|---|
| toolexec | 196,714 | the promise, vetting, semaphore, causes of timeouts, that a batch returns | every pair of calls in every mode, and triples through a semaphore of two so that one call waits; a pair is enough for every conflict between calls (fail-fast, deadline, approval) |
| agentrun | 20,449 | every property of the run | setups each made for one behaviour (cycles of hand-offs with one and two limits, shared store, memory, trimming, summary, rate limit); two calls of Run, so that a second one reads what the first saved; `MaxFrames` is never reached, or `RunReturns` would fail |
| breaker | 8,300 | counters, transitions, and that the breaker follows its provider: it stays open no longer than it must, recovers, and cuts off a dead one | three callers: one to trip, one late, one trial; two failures and two successes make "one less" differ from "none" |
| bridge | 47,879 | delivery, pool, histories, conversations, that messages drain and Run ends | two connectors with channels of one, so that every queue fills; three messages of one or two conversations through pools of one, two and three; expiry at any time; a failed start and a WebSocket next to it.  A buffer of 64 behaves like one of 1 or 2: all that counts is whether it is full |
| services | 40,065 | quotas, alerts, sessions, progress | two goroutines, so that every pair of steps of two runs interleaves; up to four runs, so that a quota of one is overrun and counted after its window turned; an hour of two units, a day of three and a month of two, so that each turns while a run is under way; one crash; a bus channel of one for three subscriptions.  Seven programs, each made for one way in which services meet |
| exchanges | 104,026 | calls, streams, wire, feeds, tool servers | clients with none, one and two retries, alone and in fallbacks, round robins and routers; streams of up to five events through channels of one and two; conversations of six messages, enough for a hand-off in the middle of two calls, a second turn with two calls and a service that takes over in between; three items, a page of two and a channel of two, so that pages overflow and channels fill; a connect and two calls at once |
| workshop | 91,030 | workflows, experiments, training, approvals, memories, knowledge, schedules | workflows of up to three tasks over words of which some contain others; three works, two at a time; three conversations and two trainings with a channel of progress of one; two calls of two sessions at once, three runs of one session or one of each through windows of one to four messages (two runs where several backends make a run long); four documents of which two have one source and one has no words; two questions at a console and two answers of "y", "yes", "n" or an empty line, so that a late reader and the current one share one; nine schedules (steps, lists, ranges, a day that few months have, days together with weekdays, rare dates, none) asked about at the ends of an hour, day, month and year and around a leap day, on real months and years, since the search counts days |
| agentrun_depth, agentrun_store, breaker_trial, bridge_stop, ws_forward | - | the disagreements of section 12 | the smallest setup with the behaviour |

Deadlock is checked for the breaker, which goes on for ever.  Batches, series of
runs, searches, bridges whose messages are used up, exchanges and workflows end,
so the others say `CHECK_DEADLOCK FALSE`; that they do not stop half-way is what
their liveness properties check.

Every property has a mutant, an operator next to the definition it changes,
named and commented as such; with it in place TLC finds the property violated.

## 11. The proofs

Checked by TLAPS with Z3, Zenon and LS4, for every value of the constants that
satisfies the named assumptions.

**ToolExec_proofs** (from `CasesAssumption`).  The invariant `IInv` joins types
and `SemaphoreCounts`, the agreement of stage and result slot (a slot is filled
exactly when its supervisor is done) and the cause of a cancelled child
context.  The slot invariant is what the refinement needs: without it a second
write to a slot could not be excluded.  `SemaphoreCounts` is proved by the
change of the set of holders in each step, with the cardinality theorems.
Results: `TypeCorrect`, `SemaphoreCorrect`, `Vetted`, `TimeoutsHaveCauses`,
`RefinesToolBatch`.

**AgentRun_proofs** (from `SetupsAssumption`: the history given to Run is
any sequence of messages; `BoundsAssumption`).  `IInv` says
that the stack has the shape of a recursion (frames below the last have handed
off), that the depth of a frame is the number of agents with a limit below it,
and that the callbacks logged so far are the pre hooks of the frames entered,
then, while a result goes up, the closing pairs from the innermost outwards.
Each conjunct is needed: `DepthBounded` is not inductive without the exact
depth, `CallbacksNest` not without the half-unwound log.  Results:
`HandoffsBounded`, `ChainsWithinLimit` (when every agent has a limit of at most
m, no chain is longer than m), `CallbacksAreNested`, `RefinesSessionLog`.

`ConversationInv` is about what is said.  A frame that has begun has its own
agent's instructions first (`Led`).  When nothing is trimmed and the caller's
history is sound, every result in a frame comes after its call; for that the
call about to be answered must be in the conversation (`Pending`), and what the
store holds must be sound in the same way (`KeptOK`), because a second run reads
it back.  A frame whose caller handed over everything and that drops nothing
has the caller's conversation within its own (`Carries`); a step of the last
frame keeps that because it only appends.  `GrowInv` adds that the store holds
no system message and that, when nothing is trimmed, what a run would save
begins with what is saved: so from `Begin`, which reads the store, to
`FinalAnswer`, which writes it.
`PromptsWellFormed` had been stated without
the hypothesis on the caller's own history: the attempt to prove it showed
that a history with a result nobody asked for goes to the provider as it is.
Results: `Conversing` (the invariant), `RunsTyped`, `PromptsAreWellFormed`,
`HandoffsKeepConversation`, `StoresKeepHistory`.

**CircuitBreaker_proofs** (from `OptionsAssumption`: the options are any
natural numbers, zero included, as the code does not check them).  `IInv` is
the type invariant and `CountersJustified`; `Transitions` follows from it step
by step.  Results: `Inductive`, `TypeCorrect`, `CountersAreJustified`,
`TransitionsAreJustified`.

**Bridge_proofs** (from `SetupsAssumption`: any connectors, any sequence of
messages, any natural numbers as bounds).  `IInv` has three parts.  `QueueInv`
ties the channels to the stages: a channel holds exactly the messages in its
stage, each once, and once Run has returned nothing is on its way.  `PoolInv` is
the count of the semaphore.  `ConvoInv` is the bound and the consistency of the
histories; it needs the pool (no more handlers can be answering than there are
tokens) and the queues (a message is recorded once because it is handed out
once).  `HistoryBounded` is stated with the answers still to come, since the
plain bound on lengths is not inductive.  The refinement needs `QueueInv` for
the step that ends Run.  Results: `Inductive`, `TypeCorrect`, `PoolIsCounted`,
`HistoriesBounded`, `ConversationsAreConsistent`,
`ConversationsAreSerial`, `RefinesDelivery`.  The
last but one needs an invariant of its own, `SerialInv`: of two messages of a
connector the earlier is ahead on the way from the platform to the handler
(`InOrder`), what waits in a channel waits in order, and a question that is being
answered is the last entry of its conversation.

**Operations_proofs** (from `SlotsAssumption`: finitely many goroutines,
`TenantsAssumption`, `SetupsAssumption`, `ProgramsAssumption`: what a program
registers, calls and subscribes is there, `HourAssumption`: no window is empty,
`SpendingAssumption`: prices, budgets and alerts are naturals and no alert is at
zero, `MonthAssumption`).  Most steps of the composition are steps of one
goroutine, so they are shown once to change one run and what that run does
(`StepEffect`, `GoEffect`); the invariants are then taken one service at a time.

- `QuotaInv` is the types of runs and entries and, for each tenant, the bound
  that the property states: the hour's count and the runs under way together
  stay below the quota and the number of goroutines.  It is the sum that is
  inductive: neither part is bounded by the quota alone, `CountRun` moves one
  from the second to the first, and `Enter` adds one to the second only when the
  first is below the quota, where all the other goroutines make up the rest.
  Results: `TenancyTyped`, `QuotaBound`, for any number of tenants, goroutines,
  any quota, any length of the windows.
- `Calm` says of a session that was never contended: its file is whole or
  missing; one run at most owns it, from its load to its rename; a temporary
  file that is open belongs to the owner and is still empty; what the owner has
  in hand extends the file, and at the rename the temporary file holds just
  that.  A second owner takes the session out of the claim in the step in which
  it appears, because `contended` is updated in that step.  Results:
  `SessionsStayReadable`, also across crashes, and `HistoriesGrow`, the action
  property that a file is only ever replaced by one that begins with it.
- `AlertInv` says that what a run saw of a month is no more than what is
  recorded, that an alert which fired had been reached, that nothing is recorded
  for a month to come, and, the part that is needed because recording, summing
  and firing are three steps under two locks, that an alert which is due and did
  not fire is in the hands of a run that is still to check it.  Result:
  `AlertsAreTracked`, for any number of runs.
- `ServicesInv` ties the types of the services to the stages of the runs: a
  goroutine that writes is one that a call of the program started, it has the
  temporary file of its own session open, its job or subscription is
  registered, and the channel of the bus holds no more than its capacity.
  Result: `ServicesTyped`.

**Exchanges_proofs** (from `ToolCallsAssumption`: the names of the two roles are
not those of calls).  `RemoteInv` says that a pipe has at most one reader and
who it is, that the requests under way have ids of their own, that every line of
the server is a request's answer or nobody's, and that what a caller has got is
what it asked for, step by step.  The uniqueness of ids is needed because a
caller that is cancelled leaves an answer behind that a later one reads.
Results: `OneReader`, `AnswersAreTheirs`, for any number of concurrent calls.
From `StacksAssumption` (a provider has members, a member has clients; how often
and on which statuses they retry is left open) `CallInv` says that a call under
way has had no response, that its answers are from where it is or was, that
those from where it is are as many as its attempts, each a reason to retry, and
that no member was passed over.  A call only moves on, to a client it has not
been at, which is why the count of one client's requests is that of its
attempts.  Result: `CallsAreJustified`, for any stack of providers.  From
`WireBounds`, `RequestsAreFaithful` says of the conversion of conversations, for
conversations of any length, with hand-offs in the middle of any batch, that
merging neighbours of one role loses and reorders no part, that roles alternate
where they must, and that results answer calls; merging is shown by induction
over the conversation, and `WireInv` says that the calls of a turn are answered
in the next one but for those that still wait and those that a hand-off left
(`unanswered` holds just these), and how many messages later a result comes.
`ExchangesTyped` puts the types of the five parts together.

The two parts of it that come in pieces have invariants of their own.  From
`FeedBounds` (pages and channels of any length) `FeedInv` ties
the cursor of a connector to what it has passed on: the batch in hand is new
(`FreshOK`), what was passed on is not above the cursor, so that the next poll
does not bring it again (`CursorOK`), and for the platforms that list in order
what was passed on is all the messages up to the place reached, and the batch
goes on from there (`GaplessOK`).  They need one another: that a poll brings
nothing twice rests on the cursor, that the cursor moves without a gap on the
batch.  Result: `FeedsAreFaithful`.
From `ScriptsAssumption` (which service sends which kinds of events) `StreamInv`
compares what was received, waits in the channel and is about to be
sent with what the reader has seen.  The texts are together a beginning of the
text of the script (`PrefixOK`); while it reads all text seen has passed, and
the calls are held back, each once, under the index of their fragments
(`ReadingOK`, `CallsKept`); when it has read the end nothing is missing, and
when it failed an error is on its way, unless the context is done (`EndOK`,
`Complete`).
Result: `StreamsAreFaithful`.

**Workshop_proofs** (from `PlansAssumption`: agents, labels, tasks and
transitions of any number, the caller's two agents have names of their own;
`TrialsAssumption`: a semaphore has a token at least; `SchedulesAssumption`:
thresholds and turns are naturals; `PoliciesAssumption`: rules are a sequence;
`QueriesAssumption`: five fields, and a start that is a time of the calendar
from 2000 on; `MindsAssumption`: a memory is of any number of backends of the
three kinds, each for one message at least; `LibraryAssumption`: a text is any
sequence of words).  The subjects share no state, so `WorkshopInv` is one invariant
for each, and a step of one subject leaves the others as they are.

- `WorkflowInv` has a part for each kind of workflow.  What a router does rests
  on the label that it chose (`ChosenIs`: it is in the list, equal or alike), what
  tasks do on slots that are apart and have the run of their own agent
  (`SettledFor`, `SlotsApart`), what a machine does on the transition that led to
  where it is (`FsmInv`): for a state machine the property speaks of the runs
  that were made, the invariant also of the state that is to run next.
- `TrialInv` counts: as many records as works that are recorded, one for each,
  works start in order, and those at work are no more than the tokens.  That a
  record is of one work only follows from the two counts together.
- `TrainingInv` ties the reports to the trainings begun, with the one under way,
  and says of every sample in the files and in the test half of the data set that
  it is of the collector (no question on one line) or was given.
- `ApprovalInv` says where the letters of an answer are: in the terminal or in
  the words of its readers, each once.  Only one reader can therefore have the
  "y" of a yes, without which one answer could approve two calls.
- `CronInv` says that the search has come to a time of the calendar after the
  start and that no time of the schedule lies between (`CameTo`).  A step of the
  search keeps it because what it skips, the rest of a minute, an hour, a day or a
  month, has no such time.  That rests on the order of the calendar: a
  year, a month and a day end where the next begins (`YearNext`, `MonthIs`,
  `NextDayIs`), two months are the same or one ends before the other begins
  (`MonthsApart`), so that a day number has one date (`SameDay`).  The leap years
  are those of the model, and the number of those before a year is a cardinality.

- `MemoryInv` says that what a backend holds of a session, what the store has for
  it and what a run of it has heard, saves or is to clear was said in that
  session (`HeldIs`, `ShelfIs`, `Hearing`, `Giving`), whoever else is under way.
  A run saves what it recalled together with what is new, so that what is
  recalled may not come from elsewhere for what is saved to be the session's own.
  While calls of a session never overlapped, the run that is under way has
  heard what is held now (`Fresh`): only with that does a window, cut and given
  more, stay the window of all.  That two calls of such a session are never
  under way is `Apart`, which `Enters` keeps by recording the overlap in the step
  in which it begins.
- `KnowledgeInv` says of an ingest under way that the chunks before its place are
  in the store, and the one at its place while the file is written
  (`Underway`), which is what makes a document complete when the last is
  written; of an entry, which ingest it comes from; and that a whole file is a
  beginning of the store with all that is finished in it.  That a text is cut without loss is shown for each chunker: cutting
  is a fold that puts a word into the last part or begins a new one (`GroupsMeet`,
  by induction over the text), so that the parts flatten to the text; a part that
  was split at a rank has no separator of it inside (`SplitAtIs`), so that after
  all four ranks what does not fit is a single word (`RecursivelyIs`).  The measure
  of a text (`Size`) needs no property for that.

Results: `FlowsAreFaithful`, `StoresAreFaithful`.

**SequenceLemmas** (no assumption).  What selecting from, flattening and folding
a sequence does, by induction over sequences.  The induction theorems of the
library take an operator as a parameter, which the provers here cannot
instantiate; so the principle is stated with sets (`Induction`: a set of
naturals with 0 and with k + 1 for each of its k is all of them, from the
theorem that the order of the naturals is well founded; `SeqInduction`: the same
for sequences and a last element), and a function defined by recursion is shown
to exist as a set of pairs (`Table`). From these come `FlattenConcat`,
`FlattenTwice`, `AmongConcat`, `AmongRange`, `AmongInjective` and so on.
`FoldLeft` recurs over sets of places, so its function exists by `SetTable`, and
`FoldTable` says that a fold which takes one place after the other is the table
of its steps.  `SelectSeq` is not an operator the provers have a definition for,
so the modules that are proved about use `Selected` of Selection; the assumption
`SelectionAssumption` of MCExchanges, which TLC evaluates, compares the two on
small sequences.

Only model-checked: every liveness property (`BatchReturns`, `RunReturns`,
`FollowsProvider`, `BridgeCompletes`, `ServicesProgress`, `ExchangesEnd`,
`WorkshopEnds`), which is out of reach of the provers.  Of the properties that hold,
every invariant and every action property is stated by a theorem.

## 12. Where code and documentation disagree

1. `agentrun_depth`: the depth limit is counted only by agents that have one
   (`runner.go:311`), so the first agent's limit does not limit "how many
   consecutive handoffs can happen in a single Run() call" (`options.go:723`).
   What does hold is `DepthBounded`.
2. `agentrun_store`: what is saved is the conversation as trimmed for the last
   prompt (`runner.go:187`), not "the raw []Message slice" (`options.go:75`).
   Without trimming `StoreKeepsHistory` holds.
3. `breaker_trial`: half-open lets all calls through
   (`provider/circuitbreaker.go:120`), not "one trial request" (line 113).
   `Transitions` and `FollowsProvider` hold all the same.
4. `bridge_stop`: Run "blocks until ctx is cancelled" (`bridge/bridge.go:101`),
   but what ends it are the connectors' channels (line 131), and the WebSocket
   connector never closes its own (`ws/connector.go:52-71`); a connector whose
   `Start` fails does not either, and the error goes into a channel nobody
   reads (line 117).  `BridgeCompletes` says what holds: with connectors that
   close Run ends, and what was taken is settled with any.
5. `ws_forward`: "incoming WebSocket text frames are forwarded to Messages()"
   (`ws/connector.go:18`), but the connection is served under the context of a
   request that is over (lines 97 and 121), so a live connection may be closed
   and its frame lost.  The server starts its agents with such a context as
   well (`ws/server.go:101`).

Met on the way, and in the models as the code has it, without a run:

- A history given to Run replaces the one handed over (`runner.go:334`), so a
  target does not get the complete conversation history of `options.go:273`;
  `HandoffKeepsConversation` has that as its hypothesis.
- `ContextSlidingWindow` is said to keep the first user message
  (`options.go:214`); `slidingWindowTrim` does not (`context_mgmt.go:90-124`).
- An error event in a stream of OpenAI or Anthropic is passed over, so the
  response counts as complete (`provider/openai/openai.go:535`); an OpenAI call
  whose index leaves a gap is lost (line 569); text that follows calls which an
  Ollama model wrote as text is dropped.  `StreamFaithful` has these as
  hypotheses.
- An error in the body of a Google answer is retried by the client and yet final
  for a fallback (`provider/google/google.go:362`).
- The cost quotas of a tenant are compared but never counted
  (`tenant/manager.go:134`); an alert fires once and is not armed again in a
  later month (`billing/tracker.go:111`).
- "Next returns the next time after t that matches the schedule"
  (`cron/parser.go:117`), but the search is four times 365 days long (line 121),
  a day less than from one 29 February to the next: a job for that day runs once,
  then has the zero time and is never due again (`cron/cron.go:69`).
  `NextIsFirst` has the length of the search as the code has it.
- The bounds of a range in a cron field are not compared with the limits of the
  field (`cron/parser.go:101`) as those of a value are (line 111): 5-7 as
  weekdays makes Parse panic, 0-5 as days is accepted (`PanicAtField`); with
  swapped bounds (22-2) a range is empty.
- `Export` writes indented JSON where lines are read back
  (`finetune/dataset.go:116`), and a sample on one line is ChatML's, which the
  evaluator does not understand: nothing the collector wrote is ever evaluated
  (`TrainingFaithful`).  `MinTurns` of a data set counts messages
  (`finetune/dataset.go:43-56`), `MinTurns` of the collector turns of a run.
- A hand-off leaves its own call, and those after it, without a result, and the
  target's requests carry them (`runner.go:303-349`); OpenAI's and Anthropic's APIs
  ask for a result to every call.  `WireFaithful` and `PromptsWellFormed` have the
  calls without a result as the code leaves them.
- A memory keeps the last of a conversation (`memory/sliding.go:38-39`), but a run
  reads at its beginning and replaces at its end, so of two overlapping runs of a
  session the later save drops the other's turn (line 52), and a clear during a
  run is undone by its save.  `MemoriesFaithful` has `overlapped` for that.
- Of `FixedSize` it is said that "each chunk contains at most maxRunes Unicode
  code-points" (`knowledge/chunker.go:25-26`),
  but a word that is longer is a chunk of its own (lines 29-47).
- When the file of the vector store cannot be made anew (`memory/store/memory.go:124`),
  the chunk is in the store, the ingest has failed, and the old file stays.
- A console that timed out goes on reading (`approval/approval.go:252`), and
  `fmt.Fscan` takes its input a byte at a time (line 80): it may take the next
  answer, or a part of it, so that a yes is read as a no, and the last letter of
  a "deny" as a yes (which `AnswersAssumption` leaves out of the runs).
- "Publish sends a message to the bus (non-blocking)" (`pubsub/bus.go:55`), but with
  the channel full it waits for room or the end of its context (lines 69-75), as
  `PubSub` has it.

## 13. What is not modelled

- **RunStructured, response formats, images, tracing, usage counters**: they do
  not influence the control of the loop.  Runs that share a store, quotas or
  costs are in Operations; they share nothing else.
- **Typed arguments of tools and the evaluation of permission rules**: what
  comes out of them is an input of ToolExec and AgentRun.  Both are functions
  without state.
- **The text of cron expressions and local time**: CronSchedule begins with the
  numbers of a field; the hours that a local time skips or repeats are left out.
- **Framing, masking and the handshake of WebSockets; `Send` of the connectors;
  the server side of MCP beyond its answers; tool schemas and model lists of the
  providers**: encodings and single requests.
- **The in-memory session store, `List`, the tenant's prefix of session keys,
  the other periods of billing reports, statistics of experiments and metrics of
  texts, document readers, ranking of search results, the script that a training
  runs**: sequential functions of what the models have.
- **The webhook and callback approvers**: ToolExec knows an approver by whether
  it answers, fails or ignores its context, which covers them.
- **Trace, configuration and registry, platform tools, command line, content,
  examples, test doubles**: entry points, tables under one lock, single
  requests.

## 14. The plan

The order was: what every program uses first (the run and its tools), then what
is shared between runs (breaker, bridge, services), then the edges of the
program (exchanges, sockets), then what is built on top (workshop).  Left:

1. The webhook approver's table of pending requests, next to the console.
2. Permission rules as operators against a reference definition over bounded
   inputs; the search of CronSchedule in a local time.
3. Socket with a context that outlives the handshake, composed with Bridge, once
   the code has one.
