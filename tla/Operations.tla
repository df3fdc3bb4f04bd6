----------------------------- MODULE Operations -----------------------------
(***************************************************************************)
(* The services around a run, put together: runs that the scheduler, the   *)
(* message bus and callers start, under the quotas of tenants, over the    *)
(* file store of sessions and with the cost tracker as their callback.     *)
(* The order of a run's calls is that of run (runner.go:22-261); the run   *)
(* itself, in AgentRun, is here one step that answers or fails.            *)
(***************************************************************************)
EXTENDS Naturals, Sequences, FiniteSets, SequencesExt,
        SessionFiles, Tenancy, Billing, CronJobs, PubSub

CONSTANTS
  Setups       \* Setups: the programs that are explored, each with the bounds
               \*   maxTime and maxCalls of its clock and of what callers start

ASSUME SlotsAssumption == IsFiniteSet(Slots)
ASSUME TenantsAssumption == Nobody \notin Tenants
ASSUME SetupsAssumption == \A s \in Setups : s.quota.hour \in Nat

(* An alert at nothing would be reached before anything is recorded.       *)
ASSUME SpendingAssumption ==
  \A s \in Setups :
    /\ s.payer \in Payers \union {Nobody}
    /\ s.cost \in Nat /\ s.budget \in Nat
    /\ s.alert.percent \in BOOLEAN /\ s.alert.at \in Nat \ {0}
    /\ s.maxTime \in Nat /\ s.maxTime \div Month <= MaxMonth

(* What is registered, called and subscribed is there.                     *)
ASSUME ProgramsAssumption ==
  \A s \in Setups :
    /\ s.callers \subseteq Tenants \union {Nobody}
    /\ s.session \in Sessions \union {Nobody}
    /\ DOMAIN s.jobs \subseteq Jobs
    /\ \A j \in DOMAIN s.jobs :
         /\ s.jobs[j].interval \in Nat /\ s.jobs[j].times \subseteq Nat
         /\ s.jobs[j].session \in Sessions \union {Nobody}
         /\ s.jobs[j].retries \in Nat
    /\ s.subs \in Seq(Agents) /\ s.capacity \in Nat /\ s.maxCalls \in Nat

VARIABLES
  setup,       \* setup: the program's options
  now,         \* now: the time
  calls,       \* calls: how many runs have been started
  run,         \* run: the run each goroutine is in
  contended,   \* contended: the sessions that two runs have been in at once
  crashes      \* crashes: how often the process may still die

vars == <<setup, now, calls, run, contended, crashes,
          fileVars, usage, billingVars, cronVars, busVars>>

services == <<fileVars, usage, billingVars, cronVars, busVars>>

Free == [stage |-> "free", who |-> Nobody, tenant |-> Nobody, session |-> Nobody,
         turns |-> <<>>, count |-> 0, total |-> 0, month |-> 0, left |-> 0, ok |-> TRUE]

Init ==
  /\ setup \in Setups
  /\ now = 0
  /\ calls = 0
  /\ run = [r \in Slots |-> Free]
  /\ contended = {}
  /\ crashes = setup.crashes
  /\ FilesInit
  /\ usage = NoUsage
  /\ BillingInit
  /\ CronInit(setup.jobs, 0)
  /\ BusInit(setup.subs)

-----------------------------------------------------------------------------
(* A run, from its hooks to its callbacks.                                 *)

At(r, stage) == run[r].stage = stage

Step(r, rec) == run' = [run EXCEPT ![r] = rec]
Go(r, stage) == Step(r, [run[r] EXCEPT !.stage = stage])

(* The runs between loading a session and having saved it.                 *)
InSession == {"loading", "asked", "saving", "opening", "writing", "renaming"}
Using(s) == {r \in Slots : run[r].session = s /\ run[r].stage \in InSession}

HasSession(rec) == setup.store /\ rec.session # Nobody

Entered(rec) == IF HasSession(rec) THEN "loading" ELSE "asked"
AfterAnswer(rec) == IF HasSession(rec) THEN "saving" ELSE "ended"
AfterSave(rec) == IF rec.tenant # Nobody THEN "post" ELSE "finished"

Started(who) == [Free EXCEPT !.who = who, !.stage = "hook"]

(* run begins with the hook of WithTenant: the check of the quota.         *)
Enter(r) ==
  /\ At(r, "hook")
  /\ LET rec == run[r] IN
     IF rec.tenant = Nobody
     THEN /\ Go(r, Entered(rec))
          /\ UNCHANGED usage
     ELSE /\ CheckQuota(rec.tenant, now)
          /\ IF Admits(rec.tenant, now, setup.quota)
             THEN Go(r, Entered(rec))
             ELSE Step(r, [rec EXCEPT !.stage = "finished", !.ok = FALSE])
  /\ UNCHANGED <<setup, now, calls, contended, crashes, fileVars, billingVars, cronVars, busVars>>

(* An error of the load is dropped: the run starts without the history.    *)
LoadSession(r) ==
  /\ At(r, "loading")
  /\ LET s == run[r].session
         loaded == Load(s) IN
     /\ Step(r, [run[r] EXCEPT !.stage = "asked", !.turns = loaded.turns])
     /\ contended' = IF Using(s) # {r} THEN contended \union {s} ELSE contended
  /\ UNCHANGED <<setup, now, calls, crashes, services>>

(* The agent answers, and its turn is added to the conversation, or fails. *)
Answer(r) ==
  /\ At(r, "asked")
  /\ Step(r, [run[r] EXCEPT !.stage = AfterAnswer(run[r]), !.turns = Append(@, r)])
  /\ UNCHANGED <<setup, now, calls, contended, crashes, services>>

Fail(r) ==
  /\ At(r, "asked")
  /\ setup.fails
  /\ Step(r, [run[r] EXCEPT !.stage = "finished", !.ok = FALSE])
  /\ UNCHANGED <<setup, now, calls, contended, crashes, services>>

(* The adapter reads the metadata of the session that it replaces.         *)
ReadExisting(r) ==
  /\ At(r, "saving")
  /\ Step(r, [run[r] EXCEPT !.stage = "opening", !.count = ExistingCount(run[r].session)])
  /\ UNCHANGED <<setup, now, calls, contended, crashes, services>>

OpenTemp(r) ==
  /\ At(r, "opening")
  /\ Open(r, run[r].session)
  /\ Go(r, "writing")
  /\ UNCHANGED <<setup, now, calls, contended, crashes, usage, billingVars, cronVars, busVars>>

(* A failed write ends the save; run drops its error.                      *)
WriteTemp(r) ==
  /\ At(r, "writing")
  /\ \/ /\ Write(r, Data(run[r].turns, run[r].count + 1))
        /\ Go(r, "renaming")
     \/ /\ setup.fails
        /\ WriteFails(r)
        /\ Go(r, "ended")
  /\ UNCHANGED <<setup, now, calls, contended, crashes, usage, billingVars, cronVars, busVars>>

RenameTemp(r) ==
  /\ At(r, "renaming")
  /\ Rename(run[r].session)
  /\ Go(r, "ended")
  /\ UNCHANGED <<setup, now, calls, contended, crashes, usage, billingVars, cronVars, busVars>>

(* Mutant of RecordCost: the alerts are checked on the costs before.       *)
RecordCostLate(r) ==
  /\ At(r, "ended")
  /\ IF setup.payer = Nobody
     THEN Go(r, AfterSave(run[r])) /\ UNCHANGED billingVars
     ELSE /\ Step(r, [run[r] EXCEPT !.stage = "summed", !.total = Summary(setup.payer, now),
                                                      !.month = now \div Month])
          /\ Record(setup.payer, now, setup.cost)
  /\ UNCHANGED <<setup, now, calls, contended, crashes, fileVars, usage, cronVars, busVars>>

(* OnConversationEnd: the tracker appends the record of the run.           *)
RecordCost(r) ==
  /\ At(r, "ended")
  /\ IF setup.payer = Nobody
     THEN Go(r, AfterSave(run[r])) /\ UNCHANGED billingVars
     ELSE Go(r, "alert") /\ Record(setup.payer, now, setup.cost)
  /\ UNCHANGED <<setup, now, calls, contended, crashes, fileVars, usage, cronVars, busVars>>

Summarize(r) ==
  /\ At(r, "alert")
  /\ Step(r, [run[r] EXCEPT !.stage = "summed", !.total = Summary(setup.payer, now),
                                                !.month = now \div Month])
  /\ UNCHANGED <<setup, now, calls, contended, crashes, services>>

CheckAlerts(r) ==
  /\ At(r, "summed")
  /\ CheckAlert(setup.payer, run[r].total, run[r].month, setup.alert, setup.budget)
  /\ Go(r, AfterSave(run[r]))
  /\ UNCHANGED <<setup, now, calls, contended, crashes, fileVars, usage, cronVars, busVars>>

(* The hook after a successful run counts it.                              *)
CountRun(r) ==
  /\ At(r, "post")
  /\ RecordUsage(run[r].tenant)
  /\ Go(r, "finished")
  /\ UNCHANGED <<setup, now, calls, contended, crashes, fileVars, billingVars, cronVars, busVars>>

(* A job that failed runs again while it has retries, then it is counted.  *)
Finish(r) ==
  /\ At(r, "finished")
  /\ IF run[r].who \notin Jobs
     THEN Step(r, Free) /\ UNCHANGED job
     ELSE IF ~run[r].ok /\ run[r].left > 0
     THEN Step(r, [Started(run[r].who) EXCEPT !.session = run[r].session,
                                              !.left = run[r].left - 1])
          /\ UNCHANGED job
     ELSE Step(r, Free) /\ FinishJob(run[r].who, run[r].ok)
  /\ UNCHANGED <<setup, now, calls, contended, crashes, fileVars, usage, billingVars,
                 scheduler, busVars>>

-----------------------------------------------------------------------------
(* What starts runs: a caller, the scheduler, the bus.                     *)

Call(r, t) ==
  /\ At(r, "free")
  /\ t \in setup.callers
  /\ calls < setup.maxCalls
  /\ calls' = calls + 1
  /\ Step(r, [Started("caller") EXCEPT !.tenant = t, !.session = setup.session])
  /\ UNCHANGED <<setup, now, contended, crashes, services>>

(* A tick starts one goroutine for each job that is due.                   *)
Tick ==
  /\ scheduler = "running"
  /\ Due(now) # {}
  /\ \E slot \in [Due(now) -> {r \in Slots : At(r, "free")}] :
       /\ \A i, j \in Due(now) : slot[i] = slot[j] => i = j
       /\ run' = [r \in Slots |->
                   IF \E j \in Due(now) : slot[j] = r
                   THEN LET j == CHOOSE j \in Due(now) : slot[j] = r IN
                        [Started(j) EXCEPT !.stage = "due",
                                           !.session = setup.jobs[j].session,
                                           !.left = setup.jobs[j].retries]
                   ELSE run[r]]
  /\ UNCHANGED <<setup, now, calls, contended, crashes, services>>

Begin(r) ==
  /\ At(r, "due")
  /\ BeginJob(run[r].who, setup.jobs[run[r].who], now)
  /\ Go(r, "hook")
  /\ UNCHANGED <<setup, now, calls, contended, crashes, fileVars, usage, billingVars,
                 scheduler, busVars>>

Route(r) ==
  /\ At(r, "free")
  /\ Deliver
  /\ Step(r, Started("bus"))
  /\ UNCHANGED <<setup, now, calls, contended, crashes, fileVars, usage, billingVars, cronVars>>

Publishing ==
  /\ \/ Publish /\ calls < setup.maxCalls /\ calls' = calls + 1
     \/ Send(setup.capacity) /\ UNCHANGED calls
  /\ UNCHANGED <<setup, now, run, contended, crashes, fileVars, usage, billingVars, cronVars>>

-----------------------------------------------------------------------------
(* What else happens: time, registrations, stops, the death of the process. *)

PassTime ==
  /\ now < setup.maxTime
  /\ now' = now + 1
  /\ UNCHANGED <<setup, calls, run, contended, crashes, services>>

RegisterTenant(t) ==
  /\ t \in setup.callers \ {Nobody}
  /\ usage[t].registered => setup.reregisters
  /\ Register(t, now)
  /\ UNCHANGED <<setup, now, calls, run, contended, crashes, fileVars, billingVars, cronVars, busVars>>

Expire(s) ==
  /\ setup.ttl
  /\ GrowOld(s) \/ Condemn(s)
  /\ UNCHANGED <<setup, now, calls, run, contended, crashes, usage, billingVars, cronVars, busVars>>

Cleanup ==
  /\ RemoveExpired
  /\ UNCHANGED <<setup, now, calls, run, contended, crashes, usage, billingVars, cronVars, busVars>>

ChangeBus ==
  \/ StopBus \/ GiveUpPublishing
  \/ \E a \in Agents : Unsubscribe(a) \/ (a \notin Range(subs) /\ Subscribe(a))

Stop ==
  /\ setup.stops
  /\ \/ setup.jobs # <<>> /\ StopScheduler /\ UNCHANGED busVars
     \/ setup.subs # <<>> /\ ChangeBus /\ UNCHANGED cronVars
  /\ UNCHANGED <<setup, now, calls, run, contended, crashes, fileVars, usage, billingVars>>

(* Quotas, costs, alerts and jobs are kept in memory; sessions survive.    *)
Crash ==
  /\ crashes > 0
  /\ crashes' = crashes - 1
  /\ UNCHANGED <<setup, now, calls, contended>>
  /\ run' = [r \in Slots |-> Free]
  /\ FilesCrash
  /\ usage' = NoUsage
  /\ spent' = NoCosts /\ fired' = NoAlerts /\ armed' = Payers
  /\ scheduler' = "running" /\ job' = Registered(setup.jobs, now)
  /\ subs' = setup.subs /\ envelopes' = <<>> /\ publisher' = <<>> /\ bus' = "running"

RunStep(r) ==
  \/ Enter(r) \/ LoadSession(r) \/ Answer(r) \/ Fail(r) \/ ReadExisting(r)
  \/ OpenTemp(r) \/ WriteTemp(r) \/ RenameTemp(r)
  \/ RecordCost(r) \/ Summarize(r) \/ CheckAlerts(r) \/ CountRun(r) \/ Finish(r)
  \/ Begin(r)

Environment ==
  \/ \E r \in Slots, t \in setup.callers : Call(r, t)
  \/ PassTime \/ Stop \/ Cleanup \/ Crash
  \/ \E t \in setup.callers : RegisterTenant(t)
  \/ \E s \in Sessions : Expire(s)

Next ==
  \/ \E r \in Slots : RunStep(r) \/ Route(r)
  \/ Tick \/ Publishing
  \/ Environment

Spec == Init /\ [][Next]_vars

(* Runs come to an end (deadlines, in ToolExec and the clients of the      *)
(* providers, see to that); the loops of the scheduler and of the bus take *)
(* what is there, and a publisher that can send does.  Nobody has to call  *)
(* or to stop anything, and nothing has to expire.                         *)
FairSpec ==
  /\ Spec
  /\ \A r \in Slots : WF_vars(RunStep(r))
  /\ WF_vars(Tick)
  /\ WF_vars(\E r \in Slots : Route(r))
  /\ WF_vars(Publishing)

-----------------------------------------------------------------------------
(* Properties.                                                             *)

RunStages == InSession \union
  {"free", "due", "hook", "ended", "alert", "summed", "post", "finished"}

(* Every service and every run keeps its type.                             *)
TypeOK ==
  /\ FilesTypeOK /\ TenancyTypeOK /\ BillingTypeOK /\ CronTypeOK
  /\ BusTypeOK(setup.capacity)
  /\ setup \in Setups /\ now \in 0..setup.maxTime /\ calls \in 0..setup.maxCalls
  /\ contended \subseteq Sessions
  /\ \A r \in Slots :
       /\ run[r].stage \in RunStages
       /\ run[r].tenant \in Tenants \union {Nobody}
       /\ run[r].session \in Sessions \union {Nobody}
       /\ run[r].stage = "writing" => fd[r].name # "closed" /\ fd[r].session = run[r].session

(* The runs of a tenant that were admitted and are not yet counted.        *)
InFlight(t) ==
  {r \in Slots : run[r].tenant = t
                 /\ run[r].stage \in InSession \union {"ended", "alert", "summed", "post"}}

(* The quota of a tenant is checked before a run and the run counted after *)
(* it: what is counted and what is under way exceed the quota by less than *)
(* the number of runs that can be under way at once (manager.go:97-155).   *)
QuotaOverrunBounded ==
  \A t \in Tenants :
    setup.quota.hour > 0 =>
      usage[t].hour + Cardinality(InFlight(t)) < setup.quota.hour + Cardinality(Slots)

(* The alert of a payer fires only in a month whose costs reach it, once;  *)
(* and when the costs of the month reach it and no check is outstanding,   *)
(* it has fired, though the costs and the check are under different locks  *)
(* (tracker.go:91-119).  It does not fire again in a later month.          *)
AlertsTrackSpending ==
  \A p \in Payers :
    /\ Cardinality(fired[p]) <= 1
    /\ \A m \in fired[p] : Reached(setup.alert, spent[p][m], setup.budget)
    /\ \A m \in 0..MaxMonth :
         Reached(setup.alert, spent[p][m], setup.budget) /\ m = now \div Month =>
           \/ fired[p] # {}
           \/ p # setup.payer
           \/ \E r \in Slots : run[r].stage \in {"alert", "summed"}

(* A session that runs use one at a time has a complete file at all times, *)
(* through failed writes, expiry and the death of the process              *)
(* (file.go:46-60).                                                        *)
SessionsReadable ==
  \A s \in Sessions \ contended : named[s] = Missing \/ Readable(named[s])

(* The file of such a session only ever grows by the turn of the run that  *)
(* saved it, or goes because it had expired (runner.go:110-125, 228-239).  *)
SerialRunsKeepHistory ==
  [][\A s \in Sessions \ contended' :
       \/ named'[s] = named[s]
       \/ named'[s] = Missing /\ condemned = s
       \/ IsPrefix(named[s].turns, named'[s].turns)
       ]_vars

(* A job that is due is started and rescheduled unless the scheduler has   *)
(* stopped; a publisher gets rid of its envelopes unless the bus has       *)
(* stopped (bus.go:69-75); a run comes to an end.                          *)
ServicesProgress ==
  /\ \A j \in Jobs : j \in Due(now) ~> (j \notin Due(now) \/ scheduler = "stopped")
  /\ publisher # <<>> ~> (publisher = <<>> \/ bus = "stopped")
  /\ \A r \in Slots : ~At(r, "free") ~> At(r, "free")
=============================================================================
