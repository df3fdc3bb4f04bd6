-------------------------- MODULE Operations_proofs --------------------------
(***************************************************************************)
(* Proofs about Operations, for any goroutines, tenants, sessions, payers, *)
(* jobs, agents and programs:                                              *)
(* - however the checks of a quota and the counts of the runs interleave,  *)
(*   the overrun is bounded by what can be under way at once;              *)
(* - what a session that runs use one at a time has on disk stays whole    *)
(*   and only grows;                                                       *)
(* - the summary of costs and the firing of an alert are under different   *)
(*   locks, and no alert is lost or fires without a reason for that;       *)
(* - every service and every run keeps its type.                           *)
(* Each has an invariant of its own; the last one rests on the others.     *)
(***************************************************************************)
EXTENDS Operations, SequenceLemmas, FiniteSetTheorems, TLAPS

(***************************************************************************)
(* Runs.  A run is a record, and a step of a goroutine replaces its own.   *)
(***************************************************************************)
IsRun(rec) ==
  {"stage", "who", "tenant", "session", "turns", "count", "total", "month", "left", "ok"}
    \subseteq DOMAIN rec

RunsAre == run = [r \in Slots |-> run[r]] /\ \A r \in Slots : IsRun(run[r])

LEMMA StepEffect ==
  ASSUME RunsAre, NEW r \in Slots, NEW rec, Step(r, rec), IsRun(rec)
  PROVE  RunsAre' /\ run'[r] = rec /\ \A q \in Slots : q # r => run'[q] = run[q]
PROOF BY DEF RunsAre, Step

LEMMA GoIsStep ==
  ASSUME RunsAre, NEW r \in Slots, NEW stage
  PROVE  LET rec == [run[r] EXCEPT !.stage = stage] IN
         /\ IsRun(rec) /\ rec.stage = stage /\ rec.tenant = run[r].tenant
         /\ rec.session = run[r].session /\ rec.turns = run[r].turns
         /\ Go(r, stage) => Step(r, rec)
PROOF
  <1>1. IsRun(run[r])
    BY DEF RunsAre
  <1>2. QED BY <1>1 DEF IsRun, Go

LEMMA GoEffect ==
  ASSUME RunsAre, NEW r \in Slots, NEW stage, Go(r, stage)
  PROVE  /\ IsRun(run'[r]) /\ run'[r].stage = stage /\ RunsAre'
         /\ \A q \in Slots : q # r => run'[q] = run[q]
PROOF
  <1> DEFINE rec == [run[r] EXCEPT !.stage = stage]
  <1>1. IsRun(rec) /\ rec.stage = stage /\ Step(r, rec)
    BY GoIsStep
  <1> HIDE DEF rec
  <1>2. QED BY <1>1, StepEffect

LEMMA FreshRun ==
  ASSUME NEW who
  PROVE  /\ IsRun(Free) /\ Free.stage = "free"
         /\ IsRun(Started(who)) /\ Started(who).stage = "hook"
PROOF
  <1>1. IsRun(Free) /\ Free.stage = "free"
    BY DEF Free, IsRun
  <1> DEFINE rec == [Free EXCEPT !.who = who, !.stage = "hook"]
  <1>2. IsRun(rec) /\ rec.stage = "hook"
    BY <1>1 DEF IsRun
  <1>3. QED BY <1>1, <1>2 DEF Started

(* A tick starts runs in goroutines that have none, and leaves the rest.   *)
LEMMA TickEffect ==
  ASSUME RunsAre, Tick
  PROVE  /\ RunsAre'
         /\ \A r \in Slots : run'[r] # run[r] =>
              /\ IsRun(run'[r]) /\ run'[r].stage = "due" /\ run[r].stage = "free"
              /\ \E j \in Due(now) :
                   run'[r] = [Started(j) EXCEPT !.stage = "due",
                                                !.session = setup.jobs[j].session,
                                                !.left = setup.jobs[j].retries]
PROOF
  <1>1. PICK slot \in [Due(now) -> {r \in Slots : At(r, "free")}] :
          run' = [r \in Slots |->
                   IF \E j \in Due(now) : slot[j] = r
                   THEN LET j == CHOOSE j \in Due(now) : slot[j] = r IN
                        [Started(j) EXCEPT !.stage = "due",
                                           !.session = setup.jobs[j].session,
                                           !.left = setup.jobs[j].retries]
                   ELSE run[r]]
    BY DEF Tick
  <1>2. ASSUME NEW r \in Slots, run'[r] # run[r]
        PROVE  /\ IsRun(run'[r]) /\ run'[r].stage = "due" /\ run[r].stage = "free"
               /\ \E j \in Due(now) :
                    run'[r] = [Started(j) EXCEPT !.stage = "due",
                                                 !.session = setup.jobs[j].session,
                                                 !.left = setup.jobs[j].retries]
    <2> DEFINE j == CHOOSE k \in Due(now) : slot[k] = r
               rec == [Started(j) EXCEPT !.stage = "due", !.session = setup.jobs[j].session,
                                         !.left = setup.jobs[j].retries]
    <2>1. run'[r] = rec /\ j \in Due(now) /\ slot[j] = r
      BY <1>1, <1>2
    <2>2. IsRun(rec) /\ rec.stage = "due"
      BY SMTT(40), FreshRun DEF IsRun
    <2>3. \E k \in Due(now) :
            run'[r] = [Started(k) EXCEPT !.stage = "due", !.session = setup.jobs[k].session,
                                         !.left = setup.jobs[k].retries]
      BY ZenonT(60), <2>1
    <2> HIDE DEF rec, j
    <2>4. run[r].stage = "free"
      BY ZenonT(60), <1>1, <2>1 DEF At
    <2>5. QED BY ZenonT(60), <2>1, <2>2, <2>3, <2>4
  <1>3. RunsAre'
    BY ZenonT(60), <1>1, <1>2 DEF RunsAre
  <1>4. QED BY ZenonT(60), <1>2, <1>3

-----------------------------------------------------------------------------
(***************************************************************************)
(* Quotas.                                                                 *)
(***************************************************************************)
(* The stages of a run that was admitted and is not yet counted.           *)
Admitted == InSession \union {"ended", "alert", "summed", "post"}
Live(rec, t) == rec.tenant = t /\ rec.stage \in Admitted

(* Nobody's run becomes one that was admitted.                             *)
NoneAdmitted == \A t \in Tenants : InFlight(t)' \subseteq InFlight(t)

(***************************************************************************)
(* The strengthening: types, and the bound.                                *)
(***************************************************************************)
QuotaTyped == setup \in Setups /\ now \in Nat /\ TenancyTypeOK /\ RunsAre

Bounded(t) ==
  setup.quota.hour > 0 =>
    usage[t].hour + Cardinality(InFlight(t)) < setup.quota.hour + Cardinality(Slots)

QuotaInv == QuotaTyped /\ \A t \in Tenants : Bounded(t)

LEMMA DivIsNat ==
  ASSUME NEW n \in Nat, NEW d \in Nat \ {0}
  PROVE  n \div d \in Nat
PROOF OBVIOUS

LEMMA InFlightFinite ==
  ASSUME NEW t
  PROVE  /\ InFlight(t) \subseteq Slots /\ IsFiniteSet(InFlight(t))
         /\ Cardinality(InFlight(t)) \in Nat /\ Cardinality(InFlight(t)) <= Cardinality(Slots)
         /\ Cardinality(Slots) \in Nat
PROOF
  <1>1. InFlight(t) \subseteq Slots
    BY DEF InFlight
  <1>2. QED BY <1>1, SlotsAssumption, FS_Subset, FS_CardinalityType

LEMMA InFlightLater ==
  ASSUME NEW t
  PROVE  /\ InFlight(t)' \subseteq Slots /\ IsFiniteSet(InFlight(t)')
         /\ Cardinality(InFlight(t)') \in Nat /\ Cardinality(InFlight(t)') <= Cardinality(Slots)
PROOF
  <1>1. InFlight(t)' \subseteq Slots
    BY DEF InFlight
  <1>2. QED BY <1>1, SlotsAssumption, FS_Subset, FS_CardinalityType

(***************************************************************************)
(* One goroutine's run is replaced by another record.                      *)
(***************************************************************************)
LEMMA QuotaQuietStep ==
  ASSUME RunsAre, NEW r \in Slots, NEW rec, Step(r, rec), IsRun(rec),
         \A t \in Tenants : Live(rec, t) => Live(run[r], t)
  PROVE  RunsAre' /\ NoneAdmitted
PROOF
  <1>1. RunsAre' /\ run'[r] = rec /\ \A q \in Slots : q # r => run'[q] = run[q]
    BY StepEffect
  <1>2. QED BY <1>1 DEF NoneAdmitted, InFlight, Live, Admitted

(* A run that was admitted goes on, or a run ends or is not yet checked.   *)
LEMMA QuotaQuietGo ==
  ASSUME RunsAre, NEW r \in Slots, NEW stage, Go(r, stage),
         stage \in Admitted => run[r].stage \in Admitted
  PROVE  RunsAre' /\ NoneAdmitted
PROOF
  <1> DEFINE rec == [run[r] EXCEPT !.stage = stage]
  <1>1. IsRun(rec) /\ rec.stage = stage /\ rec.tenant = run[r].tenant /\ Step(r, rec)
    BY GoIsStep
  <1>2. \A t \in Tenants : Live(rec, t) => Live(run[r], t)
    BY <1>1 DEF Live
  <1> HIDE DEF rec
  <1>3. QED BY <1>1, <1>2, QuotaQuietStep

LEMMA NotLive ==
  ASSUME NEW rec, rec.stage \in {"free", "hook", "due", "finished"}, NEW t
  PROVE  ~Live(rec, t)
PROOF BY DEF Live, Admitted, InSession

(***************************************************************************)
(* The steps of a run that leave the usage alone.                          *)
(***************************************************************************)
QuotaRunOnly(r) ==
  \/ LoadSession(r) \/ Answer(r) \/ Fail(r) \/ ReadExisting(r)
  \/ OpenTemp(r) \/ WriteTemp(r) \/ RenameTemp(r)
  \/ RecordCost(r) \/ Summarize(r) \/ CheckAlerts(r) \/ Finish(r) \/ Begin(r)

QuotaKept == UNCHANGED <<setup, now, usage>>

LEMMA RunOnlyQuiet ==
  ASSUME RunsAre, NEW r \in Slots, QuotaRunOnly(r)
  PROVE  RunsAre' /\ NoneAdmitted /\ QuotaKept
PROOF
  <1> USE DEF At, QuotaKept, services
  <1>0. IsRun(run[r])
    BY DEF RunsAre
  <1>1. CASE LoadSession(r)
    <2> DEFINE rec == [run[r] EXCEPT !.stage = "asked", !.turns = Load(run[r].session).turns]
    <2>1. Step(r, rec) /\ run[r].stage = "loading" /\ QuotaKept
      BY <1>1 DEF LoadSession
    <2>2. IsRun(rec) /\ rec.stage = "asked" /\ rec.tenant = run[r].tenant
      BY <1>0 DEF IsRun
    <2>3. \A t \in Tenants : Live(rec, t) => Live(run[r], t)
      BY <2>1, <2>2 DEF Live, Admitted, InSession
    <2> HIDE DEF rec
    <2>4. QED BY <2>1, <2>2, <2>3, QuotaQuietStep
  <1>2. CASE Answer(r)
    <2> DEFINE rec == [run[r] EXCEPT !.stage = AfterAnswer(run[r]), !.turns = Append(@, r)]
    <2>1. Step(r, rec) /\ run[r].stage = "asked" /\ QuotaKept
      BY <1>2 DEF Answer
    <2>2. IsRun(rec) /\ rec.tenant = run[r].tenant
      BY <1>0 DEF IsRun
    <2>3. \A t \in Tenants : Live(rec, t) => Live(run[r], t)
      BY <2>1, <2>2 DEF Live, Admitted, InSession
    <2> HIDE DEF rec
    <2>4. QED BY <2>1, <2>2, <2>3, QuotaQuietStep
  <1>3. CASE Fail(r)
    <2> DEFINE rec == [run[r] EXCEPT !.stage = "finished", !.ok = FALSE]
    <2>1. Step(r, rec) /\ QuotaKept
      BY <1>3 DEF Fail
    <2>2. IsRun(rec) /\ rec.stage = "finished"
      BY <1>0 DEF IsRun
    <2> HIDE DEF rec
    <2>3. \A t \in Tenants : ~Live(rec, t)
      BY <2>2, NotLive
    <2>4. QED BY <2>1, <2>2, <2>3, QuotaQuietStep
  <1>4. CASE ReadExisting(r)
    <2> DEFINE rec == [run[r] EXCEPT !.stage = "opening", !.count = ExistingCount(run[r].session)]
    <2>1. Step(r, rec) /\ run[r].stage = "saving" /\ QuotaKept
      BY <1>4 DEF ReadExisting
    <2>2. IsRun(rec) /\ rec.stage = "opening" /\ rec.tenant = run[r].tenant
      BY <1>0 DEF IsRun
    <2>3. \A t \in Tenants : Live(rec, t) => Live(run[r], t)
      BY <2>1, <2>2 DEF Live, Admitted, InSession
    <2> HIDE DEF rec
    <2>4. QED BY <2>1, <2>2, <2>3, QuotaQuietStep
  <1>5. CASE OpenTemp(r)
    BY <1>5, QuotaQuietGo DEF OpenTemp, Admitted, InSession
  <1>6. CASE WriteTemp(r)
    BY <1>6, QuotaQuietGo DEF WriteTemp, Admitted, InSession
  <1>7. CASE RenameTemp(r)
    BY <1>7, QuotaQuietGo DEF RenameTemp, Admitted, InSession
  <1>8. CASE RecordCost(r)
    <2>1. QuotaKept /\ run[r].stage = "ended"
      BY <1>8 DEF RecordCost
    <2>2. \/ Go(r, "alert") \/ Go(r, AfterSave(run[r]))
      BY <1>8 DEF RecordCost
    <2>3. QED BY <2>1, <2>2, QuotaQuietGo DEF Admitted
  <1>9. CASE Summarize(r)
    <2> DEFINE rec == [run[r] EXCEPT !.stage = "summed",
                                     !.total = Summary(setup.payer, now),
                                     !.month = now \div Month]
    <2>1. Step(r, rec) /\ run[r].stage = "alert" /\ QuotaKept
      BY <1>9 DEF Summarize
    <2>2. IsRun(rec) /\ rec.stage = "summed" /\ rec.tenant = run[r].tenant
      BY <1>0 DEF IsRun
    <2>3. \A t \in Tenants : Live(rec, t) => Live(run[r], t)
      BY <2>1, <2>2 DEF Live, Admitted
    <2> HIDE DEF rec
    <2>4. QED BY <2>1, <2>2, <2>3, QuotaQuietStep
  <1>10. CASE CheckAlerts(r)
    <2>1. QuotaKept /\ run[r].stage = "summed" /\ Go(r, AfterSave(run[r]))
      BY <1>10 DEF CheckAlerts
    <2>2. QED BY <2>1, QuotaQuietGo DEF Admitted
  <1>11. CASE Finish(r)
    <2> DEFINE again == [Started(run[r].who) EXCEPT !.session = run[r].session,
                                                    !.left = run[r].left - 1]
    <2>1. QuotaKept /\ (Step(r, Free) \/ Step(r, again))
      BY <1>11 DEF Finish
    <2>2. IsRun(Free) /\ \A t \in Tenants : ~Live(Free, t)
      BY FreshRun, NotLive
    <2>3. IsRun(again) /\ again.stage = "hook"
      BY FreshRun DEF IsRun
    <2> HIDE DEF again
    <2>4. \A t \in Tenants : ~Live(again, t)
      BY <2>3, NotLive
    <2>5. QED BY <2>1, <2>2, <2>3, <2>4, QuotaQuietStep
  <1>12. CASE Begin(r)
    <2>1. QuotaKept /\ Go(r, "hook")
      BY SMTT(40), <1>12 DEF Begin
    <2>2. QED BY <2>1, QuotaQuietGo DEF Admitted, InSession
  <1>13. QED
    BY <1>1, <1>2, <1>3, <1>4, <1>5, <1>6, <1>7, <1>8, <1>9, <1>10, <1>11, <1>12 DEF QuotaRunOnly

(***************************************************************************)
(* The steps of callers, the scheduler, the bus and the rest.              *)
(***************************************************************************)
LEMMA TickQuiet ==
  ASSUME RunsAre, Tick
  PROVE  RunsAre' /\ NoneAdmitted /\ QuotaKept
PROOF
  <1>1. ASSUME NEW r \in Slots, NEW t \in Tenants, Live(run'[r], t)
        PROVE  Live(run[r], t)
    <2>1. CASE run'[r] = run[r]
      BY <1>1, <2>1
    <2>2. CASE run'[r] # run[r]
      <3>1. run'[r].stage = "due"
        BY <2>2, TickEffect
      <3>2. QED BY <1>1, <3>1, NotLive
    <2>3. QED BY <2>1, <2>2
  <1>2. NoneAdmitted
    BY <1>1 DEF NoneAdmitted, InFlight, Live, Admitted
  <1>3. QED BY <1>2, TickEffect DEF Tick, QuotaKept, services

LEMMA CallQuiet ==
  ASSUME RunsAre, NEW r \in Slots, NEW t \in setup.callers, Call(r, t)
  PROVE  RunsAre' /\ NoneAdmitted /\ QuotaKept
PROOF
  <1> DEFINE rec == [Started("caller") EXCEPT !.tenant = t, !.session = setup.session]
  <1>1. Step(r, rec)
    BY DEF Call
  <1>2. IsRun(rec) /\ rec.stage = "hook"
    BY FreshRun DEF IsRun
  <1> HIDE DEF rec
  <1>3. \A u \in Tenants : ~Live(rec, u)
    BY <1>2, NotLive
  <1>4. RunsAre' /\ NoneAdmitted
    BY <1>1, <1>2, <1>3, QuotaQuietStep
  <1>5. QED BY <1>4 DEF Call, QuotaKept, services

LEMMA RouteQuiet ==
  ASSUME RunsAre, NEW r \in Slots, Route(r)
  PROVE  RunsAre' /\ NoneAdmitted /\ QuotaKept
PROOF
  <1>1. Step(r, Started("bus"))
    BY DEF Route
  <1>2. IsRun(Started("bus")) /\ Started("bus").stage = "hook"
    BY FreshRun
  <1>3. \A u \in Tenants : ~Live(Started("bus"), u)
    BY <1>2, NotLive
  <1>4. RunsAre' /\ NoneAdmitted
    BY <1>1, <1>2, <1>3, QuotaQuietStep
  <1>5. QED BY <1>4 DEF Route, QuotaKept

LEMMA RunsKept ==
  ASSUME RunsAre, UNCHANGED run
  PROVE  RunsAre' /\ NoneAdmitted
PROOF BY DEF RunsAre, NoneAdmitted, InFlight

(* What neither starts nor ends a run, nor touches what is counted.        *)
QuotaElsewhere ==
  Publishing \/ Stop \/ Cleanup \/ \E s \in Sessions : Expire(s)

LEMMA ElsewhereQuiet ==
  ASSUME RunsAre, QuotaElsewhere
  PROVE  RunsAre' /\ NoneAdmitted /\ QuotaKept
PROOF
  <1>1. UNCHANGED run /\ QuotaKept
    BY DEF QuotaElsewhere, Publishing, Stop, Cleanup, Expire, QuotaKept
  <1>2. QED BY <1>1, RunsKept

(***************************************************************************)
(* What does not admit a run keeps the bound.                              *)
(***************************************************************************)
LEMMA QuotaQuietKeeps ==
  ASSUME QuotaInv, RunsAre', NoneAdmitted, QuotaKept
  PROVE  QuotaInv'
PROOF
  <1>1. QuotaTyped'
    BY DEF QuotaInv, QuotaTyped, QuotaKept, TenancyTypeOK
  <1>2. ASSUME NEW t \in Tenants PROVE Bounded(t)'
    <2>1. Cardinality(InFlight(t)') <= Cardinality(InFlight(t))
      BY InFlightFinite, FS_Subset DEF NoneAdmitted
    <2>2. usage' = usage /\ setup' = setup /\ usage[t].hour \in Nat /\ setup.quota.hour \in Nat
      BY SetupsAssumption DEF QuotaKept, QuotaInv, QuotaTyped, TenancyTypeOK
    <2>3. Bounded(t)
      BY DEF QuotaInv
    <2>4. QED BY <2>1, <2>2, <2>3, InFlightFinite, InFlightLater DEF Bounded
  <1>3. QED BY <1>1, <1>2 DEF QuotaInv

(***************************************************************************)
(* The steps that change what is counted.                                  *)
(***************************************************************************)
Entries == [registered : BOOLEAN, hour : Nat, today : Nat, hourStart : Nat, day : Nat]

LEMMA HourRolledOver ==
  ASSUME NEW u \in Entries, now \in Nat
  PROVE  HourRolled(u, now) \in Entries /\ HourRolled(u, now).hour <= u.hour
PROOF
  <1>1. u.hour \in Nat
    BY DEF Entries
  <1>2. CASE now - u.hourStart >= Hour
    <2> DEFINE v == [u EXCEPT !.hour = 0, !.hourStart = now]
    <2>1. v \in Entries /\ v.hour = 0
      BY DEF Entries
    <2>2. QED BY <1>1, <1>2, <2>1 DEF HourRolled
  <1>3. CASE ~(now - u.hourStart >= Hour)
    BY <1>1, <1>3 DEF HourRolled
  <1>4. QED BY <1>2, <1>3

LEMMA RolledOver ==
  ASSUME NEW u \in Entries, now \in Nat
  PROVE  Rolled(u, now) \in Entries /\ Rolled(u, now).hour <= u.hour
PROOF
  <1> DEFINE v == HourRolled(u, now)
  <1>1. v \in Entries /\ v.hour <= u.hour
    BY HourRolledOver
  <1>2. now \div Day \in Nat
    BY HourAssumption, DivIsNat
  <1>3. Rolled(u, now) = IF now \div Day > v.day THEN [v EXCEPT !.today = 0, !.day = now \div Day]
                         ELSE v
    BY DEF Rolled
  <1> HIDE DEF v
  <1>4. CASE now \div Day > v.day
    <2> DEFINE w == [v EXCEPT !.today = 0, !.day = now \div Day]
    <2>1. w \in Entries /\ w.hour = v.hour
      BY <1>1, <1>2 DEF Entries
    <2>2. QED BY <1>1, <1>3, <1>4, <2>1
  <1>5. CASE ~(now \div Day > v.day)
    BY <1>1, <1>3, <1>5
  <1>6. QED BY <1>4, <1>5

LEMMA TenancyAsEntries == TenancyTypeOK <=> usage \in [Tenants -> Entries]
PROOF BY DEF TenancyTypeOK, Entries

(* When a quota is checked, what is counted does not grow.                 *)
LEMMA CheckEffect ==
  ASSUME TenancyTypeOK, now \in Nat, NEW t, CheckQuota(t, now)
  PROVE  TenancyTypeOK' /\ \A u \in Tenants : usage'[u].hour <= usage[u].hour
PROOF
  <1>1. usage \in [Tenants -> Entries]
    BY TenancyAsEntries
  <1>2. \A u \in Tenants : Rolled(usage[u], now) \in Entries
                           /\ Rolled(usage[u], now).hour <= usage[u].hour
    BY <1>1, RolledOver
  <1>3. \A u \in Tenants : usage[u].hour \in Nat
    BY <1>1 DEF Entries
  <1>4. usage' \in [Tenants -> Entries]
    BY <1>1, <1>2 DEF CheckQuota
  <1>5. \A u \in Tenants : usage'[u].hour <= usage[u].hour
    BY <1>1, <1>2, <1>3 DEF CheckQuota
  <1>6. QED BY <1>4, <1>5 DEF TenancyTypeOK, Entries

(* What is under way and what is counted can only go down together.        *)
LEMMA FewerKeep ==
  ASSUME QuotaInv, NEW t \in Tenants, setup' = setup, usage'[t].hour \in Nat,
         usage'[t].hour <= usage[t].hour, InFlight(t)' \subseteq InFlight(t)
  PROVE  Bounded(t)'
PROOF
  <1>1. Cardinality(InFlight(t)') <= Cardinality(InFlight(t))
    BY InFlightFinite, FS_Subset
  <1>2. usage[t].hour \in Nat /\ setup.quota.hour \in Nat /\ Bounded(t)
    BY SetupsAssumption DEF QuotaInv, QuotaTyped, TenancyTypeOK
  <1>3. QED BY <1>1, <1>2, InFlightFinite, InFlightLater DEF Bounded

(* The admission of a run: what is counted is below the quota.             *)
LEMMA QuotaEnterKeeps ==
  ASSUME QuotaInv, NEW r \in Slots, Enter(r)
  PROVE  QuotaInv'
PROOF
  <1> PICK t : t = run[r].tenant
    OBVIOUS
  <1>0. RunsAre /\ TenancyTypeOK /\ setup \in Setups /\ now \in Nat /\ setup.quota.hour \in Nat
    BY SetupsAssumption DEF QuotaInv, QuotaTyped
  <1>1. UNCHANGED <<setup, now>> /\ run[r].stage = "hook"
    BY DEF Enter, At
  <1>2. PICK rec : /\ IsRun(rec) /\ rec.tenant = t /\ Step(r, rec)
                   /\ \/ t = Nobody /\ UNCHANGED usage
                      \/ t # Nobody /\ CheckQuota(t, now)
                         /\ (Admits(t, now, setup.quota) \/ rec.stage = "finished")
    <2>1. ASSUME t = Nobody, Go(r, Entered(run[r])), UNCHANGED usage
          PROVE  IsRun([run[r] EXCEPT !.stage = Entered(run[r])])
                 /\ [run[r] EXCEPT !.stage = Entered(run[r])].tenant = t
                 /\ Step(r, [run[r] EXCEPT !.stage = Entered(run[r])])
      BY <1>0, <2>1, GoIsStep
    <2>2. ASSUME Go(r, Entered(run[r]))
          PROVE  IsRun([run[r] EXCEPT !.stage = Entered(run[r])])
                 /\ [run[r] EXCEPT !.stage = Entered(run[r])].tenant = t
                 /\ Step(r, [run[r] EXCEPT !.stage = Entered(run[r])])
      BY <1>0, <2>2, GoIsStep
    <2> DEFINE refused == [run[r] EXCEPT !.stage = "finished", !.ok = FALSE]
    <2>3. IsRun(refused) /\ refused.tenant = t /\ refused.stage = "finished"
      BY <1>0 DEF RunsAre, IsRun
    <2>4. \/ t = Nobody /\ Go(r, Entered(run[r])) /\ UNCHANGED usage
          \/ t # Nobody /\ CheckQuota(t, now) /\ Admits(t, now, setup.quota)
             /\ Go(r, Entered(run[r]))
          \/ t # Nobody /\ CheckQuota(t, now) /\ Step(r, refused)
      BY DEF Enter
    <2> HIDE DEF refused
    <2>5. QED BY <2>2, <2>3, <2>4
  <1>3. RunsAre' /\ run'[r] = rec /\ \A q \in Slots : q # r => run'[q] = run[q]
    BY <1>0, <1>2, StepEffect
  <1>4. TenancyTypeOK' /\ \A u \in Tenants : usage'[u].hour \in Nat /\ usage'[u].hour <= usage[u].hour
    <2>1. CASE UNCHANGED usage
      BY <1>0, <2>1 DEF TenancyTypeOK
    <2>2. CASE CheckQuota(t, now)
      BY <1>0, <2>2, CheckEffect DEF TenancyTypeOK
    <2>3. QED BY <1>2, <2>1, <2>2
  <1>5. ASSUME NEW u \in Tenants, u # t \/ rec.stage = "finished" PROVE Bounded(u)'
    <2>1. InFlight(u)' \subseteq InFlight(u)
      BY <1>2, <1>3, <1>5 DEF InFlight, InSession
    <2>2. QED BY <1>1, <1>4, <2>1, FewerKeep
  <1>6. ASSUME t \in Tenants, Admits(t, now, setup.quota), CheckQuota(t, now) PROVE Bounded(t)'
    <2>1. usage'[t].hour < setup.quota.hour \/ ~(setup.quota.hour > 0)
      BY <1>0, <1>6 DEF Admits, WithinQuota, CheckQuota, TenancyTypeOK
    <2>2. QED BY <1>0, <1>1, <1>4, <1>6, <2>1, InFlightLater, InFlightFinite DEF Bounded
  <1>7. \A u \in Tenants : Bounded(u)'
    BY <1>2, <1>5, <1>6, TenantsAssumption
  <1>8. QED BY <1>0, <1>1, <1>3, <1>4, <1>7 DEF QuotaInv, QuotaTyped

LEMMA OneMore ==
  ASSUME NEW u \in Entries
  PROVE  Counted(u) \in Entries /\ Counted(u).hour = u.hour + 1
PROOF
  <1>1. u.hour + 1 \in Nat /\ u.today + 1 \in Nat
    BY DEF Entries
  <1>2. \A m, n \in Nat : [u EXCEPT !.hour = m, !.today = n] \in Entries
                          /\ [u EXCEPT !.hour = m, !.today = n].hour = m
    <2> TAKE m, n \in Nat
    <2>1. QED BY DEF Entries
  <1>3. QED BY <1>1, <1>2 DEF Counted

(* The count of a run: one more is counted, one less is under way.         *)
LEMMA CountKeeps ==
  ASSUME QuotaInv, NEW r \in Slots, CountRun(r)
  PROVE  QuotaInv'
PROOF
  <1> PICK t : t = run[r].tenant
    OBVIOUS
  <1> DEFINE rec == [run[r] EXCEPT !.stage = "finished"]
  <1>0. RunsAre /\ TenancyTypeOK /\ setup \in Setups /\ now \in Nat /\ setup.quota.hour \in Nat
    BY SetupsAssumption DEF QuotaInv, QuotaTyped
  <1>1. UNCHANGED <<setup, now>> /\ run[r].stage = "post" /\ Go(r, "finished") /\ RecordUsage(t)
    BY DEF CountRun, At
  <1>2. IsRun(rec) /\ rec.stage = "finished" /\ rec.tenant = t /\ Step(r, rec)
    BY <1>0, <1>1, GoIsStep
  <1> HIDE DEF rec
  <1>3. RunsAre' /\ run'[r] = rec /\ \A q \in Slots : q # r => run'[q] = run[q]
    BY <1>0, <1>2, StepEffect
  <1>4. usage \in [Tenants -> Entries] /\ \A u \in Tenants : usage[u].hour \in Nat
    BY <1>0, TenancyAsEntries DEF Entries
  <1> DEFINE e == IF usage[t].registered THEN Counted(usage[t]) ELSE usage[t]
  <1>5. usage' = [usage EXCEPT ![t] = e]
    BY <1>1 DEF RecordUsage
  <1>6. t \in Tenants => e \in Entries /\ e.hour \in {usage[t].hour, usage[t].hour + 1}
    BY <1>4, OneMore
  <1> HIDE DEF e
  <1>7. TenancyTypeOK'
    BY <1>4, <1>5, <1>6 DEF TenancyTypeOK, Entries
  <1>8. \A u \in Tenants :
          /\ u # t => usage'[u].hour = usage[u].hour
          /\ u = t => usage'[u].hour \in {usage[u].hour, usage[u].hour + 1}
    BY <1>4, <1>5, <1>6
  <1>9. ASSUME NEW u \in Tenants PROVE Bounded(u)'
    <2>1. CASE u # t
      <3>1. InFlight(u)' \subseteq InFlight(u)
        BY <1>2, <1>3, <2>1 DEF InFlight
      <3>2. QED BY <1>1, <1>4, <1>8, <2>1, <3>1, FewerKeep
    <2>2. CASE u = t
      <3>1. r \in InFlight(u) /\ InFlight(u)' = InFlight(u) \ {r}
        BY <1>1, <1>2, <1>3, <2>2 DEF InFlight, InSession
      <3>2. Cardinality(InFlight(u)') = Cardinality(InFlight(u)) - 1
        BY <3>1, InFlightFinite, FS_RemoveElement
      <3>3. Bounded(u)
        BY DEF QuotaInv
      <3>4. QED
        BY <1>0, <1>1, <1>4, <1>8, <2>2, <3>2, <3>3, InFlightFinite DEF Bounded
    <2>3. QED BY <2>1, <2>2
  <1>10. QED BY <1>0, <1>1, <1>3, <1>9, <1>7 DEF QuotaInv, QuotaTyped

LEMMA QuotaPassTimeKeeps ==
  ASSUME QuotaInv, PassTime
  PROVE  QuotaInv'
PROOF
  <1>1. UNCHANGED <<setup, run, usage>> /\ now' = now + 1
    BY DEF PassTime, services
  <1>2. QuotaTyped' /\ NoneAdmitted
    BY <1>1, RunsKept DEF QuotaInv, QuotaTyped, TenancyTypeOK
  <1>3. ASSUME NEW t \in Tenants PROVE Bounded(t)'
    <2>1. usage'[t].hour \in Nat /\ usage'[t].hour <= usage[t].hour
      BY <1>1 DEF QuotaInv, QuotaTyped, TenancyTypeOK
    <2>2. QED BY <1>1, <1>2, <2>1, FewerKeep DEF NoneAdmitted
  <1>4. QED BY <1>2, <1>3 DEF QuotaInv

LEMMA EntryFacts ==
  ASSUME NEW n \in Nat
  PROVE  /\ Entry(n) \in Entries /\ Entry(n).hour = 0
         /\ Unregistered \in Entries /\ Unregistered.hour = 0
PROOF
  <1>1. n \div Day \in Nat /\ 0 \div Day \in Nat
    BY HourAssumption, DivIsNat
  <1>2. Entry(n) \in Entries /\ Entry(n).hour = 0 /\ Entry(0) \in Entries /\ Entry(0).hour = 0
    BY <1>1 DEF Entry, Entries
  <1>3. QED BY <1>2 DEF Unregistered, Entries

(* Register forgets what is counted, and what is under way is no more than *)
(* the goroutines.                                                         *)
LEMMA RegisterKeeps ==
  ASSUME QuotaInv, NEW t, RegisterTenant(t)
  PROVE  QuotaInv'
PROOF
  <1>1. UNCHANGED <<setup, now, run>> /\ usage' = [usage EXCEPT ![t] = Entry(now)]
    BY DEF RegisterTenant, Register
  <1>2. usage \in [Tenants -> Entries] /\ now \in Nat
    BY TenancyAsEntries DEF QuotaInv, QuotaTyped
  <1>3. Entry(now) \in Entries /\ Entry(now).hour = 0
    BY <1>2, EntryFacts
  <1>4. TenancyTypeOK' /\ \A u \in Tenants : usage'[u].hour \in Nat /\ usage'[u].hour <= usage[u].hour
    <2>1. \A u \in Tenants : usage[u].hour \in Nat
      BY <1>2 DEF Entries
    <2>2. usage' \in [Tenants -> Entries]
      BY <1>1, <1>2, <1>3
    <2>3. \A u \in Tenants : usage'[u].hour = usage[u].hour \/ usage'[u].hour = 0
      BY <1>1, <1>2, <1>3
    <2>4. QED BY <2>1, <2>2, <2>3 DEF TenancyTypeOK, Entries
  <1>5. RunsAre' /\ NoneAdmitted
    BY <1>1, RunsKept DEF QuotaInv, QuotaTyped
  <1>6. \A u \in Tenants : Bounded(u)'
    BY <1>1, <1>4, <1>5, FewerKeep DEF NoneAdmitted
  <1>7. QED BY <1>1, <1>4, <1>5, <1>6 DEF QuotaInv, QuotaTyped

(* At the start, and after the process died, nothing is counted or under way. *)
QuotaFresh == run = [r \in Slots |-> Free] /\ usage = NoUsage

QuotaAfresh == QuotaFresh /\ setup \in Setups /\ now \in Nat

LEMMA QuotaFreshIs == QuotaAfresh => QuotaInv
PROOF
  <1> SUFFICES ASSUME QuotaAfresh PROVE QuotaInv
    OBVIOUS
  <1> USE DEF QuotaAfresh
  <1>1. QuotaTyped
    BY FreshRun, EntryFacts DEF QuotaFresh, QuotaTyped, TenancyTypeOK, NoUsage, Entries, RunsAre
  <1>2. ASSUME NEW t \in Tenants PROVE Bounded(t)
    <2>1. InFlight(t) = {}
      BY FreshRun DEF QuotaFresh, InFlight, InSession
    <2>2. usage[t].hour = 0
      BY EntryFacts DEF QuotaFresh, NoUsage
    <2>3. Cardinality(InFlight(t)) = 0
      BY <2>1, FS_EmptySet
    <2>4. QED BY <2>2, <2>3, SetupsAssumption, InFlightFinite DEF Bounded
  <1>3. QED BY <1>1, <1>2 DEF QuotaInv

LEMMA InitQuota == Init => QuotaInv
PROOF BY QuotaFreshIs DEF Init, QuotaFresh, QuotaAfresh

LEMMA QuotaCrashKeeps == QuotaInv /\ Crash => QuotaInv'
PROOF
  <1>1. QuotaInv /\ Crash => QuotaAfresh'
    BY DEF Crash, QuotaFresh, QuotaAfresh, QuotaInv, QuotaTyped
  <1>2. QED BY <1>1, QuotaFreshIs, PTL

LEMMA NextQuota == QuotaInv /\ [Next]_vars => QuotaInv'
PROOF
  <1> SUFFICES ASSUME QuotaInv, [Next]_vars PROVE QuotaInv'
    OBVIOUS
  <1>0. RunsAre
    BY DEF QuotaInv, QuotaTyped
  <1>1. CASE QuotaElsewhere
    BY <1>0, <1>1, ElsewhereQuiet, QuotaQuietKeeps
  <1>2. ASSUME NEW r \in Slots, QuotaRunOnly(r) PROVE QuotaInv'
    BY <1>0, <1>2, RunOnlyQuiet, QuotaQuietKeeps
  <1>3. ASSUME NEW r \in Slots, RunStep(r) PROVE QuotaInv'
    BY <1>2, <1>3, QuotaEnterKeeps, CountKeeps DEF RunStep, QuotaRunOnly
  <1>4. ASSUME NEW r \in Slots, Route(r) PROVE QuotaInv'
    BY <1>0, <1>4, RouteQuiet, QuotaQuietKeeps
  <1>5. CASE Tick
    BY <1>0, <1>5, TickQuiet, QuotaQuietKeeps
  <1>6. CASE Environment
    <2>1. ASSUME NEW r \in Slots, NEW t \in setup.callers, Call(r, t) PROVE QuotaInv'
      BY <1>0, <2>1, CallQuiet, QuotaQuietKeeps
    <2>2. ASSUME NEW t, RegisterTenant(t) PROVE QuotaInv'
      BY <2>2, RegisterKeeps
    <2>3. QED
      BY <1>1, <1>6, <2>1, <2>2, QuotaPassTimeKeeps, QuotaCrashKeeps DEF Environment, QuotaElsewhere
  <1>7. CASE UNCHANGED vars
    <2>1. UNCHANGED run /\ QuotaKept
      BY <1>7 DEF vars, QuotaKept
    <2>2. QED BY <1>0, <2>1, RunsKept, QuotaQuietKeeps
  <1>8. QED BY <1>1, <1>3, <1>4, <1>5, <1>6, <1>7 DEF Next, QuotaElsewhere

(* However many goroutines there are and whatever the quotas, the runs of  *)
(* a tenant that are counted and under way exceed the quota of an hour by  *)
(* less than the number of goroutines, through registrations, failures and *)
(* the death of the process (manager.go:97-155).                           *)
THEOREM QuotaBound == Spec => []QuotaOverrunBounded
PROOF
  <1>1. Init => QuotaInv
    BY InitQuota
  <1>2. QuotaInv /\ [Next]_vars => QuotaInv'
    BY NextQuota
  <1>3. QuotaInv => QuotaOverrunBounded
    BY DEF QuotaInv, QuotaOverrunBounded, Bounded
  <1>4. QED BY <1>1, <1>2, <1>3, PTL DEF Spec

(* An entry keeps its type, whoever registers, checks and counts.          *)
THEOREM TenancyTyped == Spec => []TenancyTypeOK
PROOF
  <1>1. Init => QuotaInv
    BY InitQuota
  <1>2. QuotaInv /\ [Next]_vars => QuotaInv'
    BY NextQuota
  <1>3. QuotaInv => TenancyTypeOK
    BY DEF QuotaInv, QuotaTyped
  <1>4. QED BY <1>1, <1>2, <1>3, PTL DEF Spec

-----------------------------------------------------------------------------
(***************************************************************************)
(* The files of sessions.                                                  *)
(***************************************************************************)
(***************************************************************************)
(* Beginnings of sequences.                                                *)
(***************************************************************************)
LEMMA PrefixByElement ==
  ASSUME NEW S, NEW s \in Seq(S), NEW t \in Seq(S)
  PROVE  IsPrefix(s, t) <=> Len(s) <= Len(t) /\ \A i \in 1..Len(s) : s[i] = t[i]
PROOF BY DEF IsPrefix

LEMMA PrefixFacts ==
  ASSUME NEW S, NEW s \in Seq(S)
  PROVE  /\ IsPrefix(<<>>, s) /\ IsPrefix(s, s)
         /\ \A t \in Seq(S), e \in S : IsPrefix(s, t) => IsPrefix(s, Append(t, e))
PROOF
  <1>1. <<>> \in Seq(S) /\ Len(<<>>) = 0 /\ Len(s) \in Nat
    OBVIOUS
  <1>2. IsPrefix(<<>>, s) /\ IsPrefix(s, s)
    <2> DEFINE none == <<>>
    <2>1. Len(none) <= Len(s) /\ \A i \in 1..Len(none) : none[i] = s[i]
      BY <1>1
    <2>2. none \in Seq(S)
      BY <1>1
    <2> HIDE DEF none
    <2>3. IsPrefix(none, s)
      BY <2>1, <2>2, PrefixByElement
    <2>4. IsPrefix(s, s)
      BY PrefixByElement
    <2>5. QED BY <2>3, <2>4 DEF none
  <1>3. ASSUME NEW t \in Seq(S), NEW e \in S, IsPrefix(s, t)
        PROVE  IsPrefix(s, Append(t, e))
    <2>1. Append(t, e) \in Seq(S) /\ Len(Append(t, e)) = Len(t) + 1
          /\ \A i \in 1..Len(t) : Append(t, e)[i] = t[i]
      OBVIOUS
    <2>2. Len(s) <= Len(t) /\ \A i \in 1..Len(s) : s[i] = t[i]
      BY <1>3, PrefixByElement
    <2>3. Len(s) <= Len(Append(t, e)) /\ \A i \in 1..Len(s) : s[i] = Append(t, e)[i]
      BY <2>1, <2>2
    <2>4. QED BY <2>1, <2>3, PrefixByElement
  <1>4. QED BY <1>2, <1>3

(***************************************************************************)
(* The strengthening.  A run owns its session from its load to its rename; *)
(* a session that was never contended has one owner at most, who alone has *)
(* its temporary file open, still empty, and fills it before the rename.   *)
(***************************************************************************)
Owning == {"asked", "saving", "opening", "writing", "renaming"}
Owns(rec, s) == rec.stage \in Owning /\ HasSession(rec) /\ rec.session = s
OneOwner(s) ==
  \A q, r \in Slots : Owns(run[q], s) /\ Owns(run[r], s) => q = r

FilesAre ==
  /\ named = [s \in Sessions |-> named[s]] /\ temp = [s \in Sessions |-> temp[s]]
  /\ fd = [r \in Slots |-> fd[r]]
  /\ \A r \in Slots : fd[r] = [name |-> fd[r].name, session |-> fd[r].session]

Opened(r) == fd[r].name # "closed"

WritersOpen ==
  \A r \in Slots :
    /\ Opened(r) <=> run[r].stage = "writing"
    /\ Opened(r) => fd[r].session = run[r].session
    /\ run[r].stage \in Owning \ {"asked"} => HasSession(run[r])

Calm(s) ==
  /\ named[s] = Missing \/ Readable(named[s])
  /\ named[s].turns \in Seq(Slots)
  /\ OneOwner(s)
  /\ \A r \in Slots :
       /\ Opened(r) /\ fd[r].session = s => fd[r].name = "temp" /\ temp[s] = Empty
       /\ Owns(run[r], s) =>
            run[r].turns \in Seq(Slots) /\ IsPrefix(named[s].turns, run[r].turns)
       /\ Owns(run[r], s) /\ run[r].stage = "renaming" =>
            Readable(temp[s]) /\ temp[s].turns = run[r].turns

FilesInv ==
  /\ RunsAre /\ FilesAre /\ WritersOpen
  /\ \A s \in Sessions \ contended : Calm(s)

(* What a step does to the file of a session that is not shared.           *)
KeepsHistory ==
  \A s \in Sessions \ contended' :
    \/ named'[s] = named[s]
    \/ named'[s] = Missing /\ condemned = s
    \/ IsPrefix(named[s].turns, named'[s].turns)

(***************************************************************************)
(* Steps that leave the files alone.                                       *)
(***************************************************************************)
Untouched == UNCHANGED <<setup, named, temp, fd>> /\ contended \subseteq contended'

LEMMA FileQuietKeeps ==
  ASSUME FilesInv, Untouched, UNCHANGED run
  PROVE  FilesInv' /\ KeepsHistory
PROOF
  <1> USE DEF Untouched
  <1>1. RunsAre' /\ FilesAre' /\ WritersOpen'
    BY DEF FilesInv, RunsAre, FilesAre, WritersOpen, Opened, HasSession
  <1>2. \A s \in Sessions \ contended' : Calm(s)'
    BY DEF FilesInv, Calm, OneOwner, Owns, Opened, HasSession
  <1>3. QED BY <1>1, <1>2 DEF FilesInv, KeepsHistory

(* A run goes on without its file: it may give its session up, keep it, or, *)
(* if nobody else has it, get it.                                          *)
MayOwn(r, rec) ==
  \A s \in Sessions \ contended' :
    Owns(rec, s) =>
      /\ \A q \in Slots : Owns(run[q], s) => q = r
      /\ rec.turns \in Seq(Slots) /\ IsPrefix(named[s].turns, rec.turns)

LEMMA RunKeeps ==
  ASSUME FilesInv, Untouched, NEW r \in Slots, NEW rec, Step(r, rec), IsRun(rec),
         run[r].stage # "writing", rec.stage \notin {"writing", "renaming"},
         rec.stage \in {"saving", "opening"} => HasSession(rec),
         MayOwn(r, rec)
  PROVE  FilesInv' /\ KeepsHistory
PROOF
  <1> USE DEF Untouched
  <1>0. RunsAre' /\ run'[r] = rec /\ \A q \in Slots : q # r => run'[q] = run[q]
    BY StepEffect DEF FilesInv
  <1>1. FilesAre'
    BY DEF FilesInv, FilesAre
  <1>2. WritersOpen'
    BY <1>0 DEF FilesInv, WritersOpen, Opened, HasSession, Owning
  <1>3. ASSUME NEW s \in Sessions \ contended' PROVE Calm(s)'
    <2>0. Calm(s)
      BY DEF FilesInv
    <2>1. \A q \in Slots : \A t : Owns(run[q], t)' <=> Owns(run'[q], t)
      BY DEF Owns, HasSession
    <2>2. OneOwner(s)'
      BY <1>0, <2>0, <2>1 DEF OneOwner, Calm, MayOwn
    <2>3. \A q \in Slots : Owns(run'[q], s) =>
            run'[q].turns \in Seq(Slots) /\ IsPrefix(named[s].turns, run'[q].turns)
      BY <1>0, <2>0 DEF Calm, MayOwn
    <2>4. \A q \in Slots : Owns(run'[q], s) /\ run'[q].stage = "renaming" =>
            Readable(temp[s]) /\ temp[s].turns = run'[q].turns
      BY <1>0, <2>0 DEF Calm
    <2>5. QED BY <2>0, <2>1, <2>2, <2>3, <2>4 DEF Calm, Opened
  <1>4. QED BY <1>0, <1>1, <1>2, <1>3 DEF FilesInv, KeepsHistory

(***************************************************************************)
(* Runs that do not use a file.                                            *)
(***************************************************************************)
(* A run that does not own a session.                                      *)
Away == {"free", "due", "hook", "loading", "ended", "alert", "summed", "post", "finished"}

LEMMA AwayKeeps ==
  ASSUME FilesInv, Untouched, NEW r \in Slots, NEW rec, Step(r, rec), IsRun(rec),
         run[r].stage # "writing", rec.stage \in Away
  PROVE  FilesInv' /\ KeepsHistory
PROOF
  <1>1. MayOwn(r, rec)
    BY DEF MayOwn, Owns, Owning, Away
  <1>2. QED BY <1>1, RunKeeps DEF Away

LEMMA GoAway ==
  ASSUME FilesInv, Untouched, NEW r \in Slots, NEW stage, Go(r, stage),
         run[r].stage # "writing", stage \in Away
  PROVE  FilesInv' /\ KeepsHistory
PROOF
  <1> DEFINE rec == [run[r] EXCEPT !.stage = stage]
  <1>1. RunsAre
    BY DEF FilesInv
  <1>2. IsRun(rec) /\ rec.stage = stage /\ Step(r, rec)
    BY <1>1, GoIsStep
  <1> HIDE DEF rec
  <1>3. QED BY <1>2, AwayKeeps

(* A run goes on owning what it owns, with what it has read or more.       *)
LEMMA OwnerKeeps ==
  ASSUME FilesInv, Untouched, NEW r \in Slots, NEW rec, Step(r, rec), IsRun(rec),
         run[r].stage \in {"asked", "saving", "opening"},
         rec.stage \in {"saving", "opening"}, HasSession(rec),
         rec.session = run[r].session,
         run[r].turns \in Seq(Slots) =>
           /\ rec.turns \in Seq(Slots)
           /\ \A s \in Seq(Slots) : IsPrefix(s, run[r].turns) => IsPrefix(s, rec.turns)
  PROVE  FilesInv' /\ KeepsHistory
PROOF
  <1>1. ASSUME NEW s \in Sessions \ contended', Owns(rec, s)
        PROVE  /\ \A q \in Slots : Owns(run[q], s) => q = r
               /\ rec.turns \in Seq(Slots) /\ IsPrefix(named[s].turns, rec.turns)
    <2>1. Calm(s)
      BY DEF FilesInv, Untouched
    <2>2. Owns(run[r], s)
      BY <1>1 DEF Owns, Owning, HasSession
    <2>3. QED BY <2>1, <2>2 DEF Calm, OneOwner
  <1>2. MayOwn(r, rec)
    BY <1>1 DEF MayOwn
  <1>3. QED BY <1>2, RunKeeps

(***************************************************************************)
(* Between the hook and the save.                                          *)
(***************************************************************************)
LEMMA FileEnterKeeps ==
  ASSUME FilesInv, NEW r \in Slots, Enter(r)
  PROVE  FilesInv' /\ KeepsHistory
PROOF
  <1>0. Untouched /\ run[r].stage = "hook" /\ IsRun(run[r])
    BY DEF Enter, At, Untouched, fileVars, FilesInv, RunsAre
  <1>1. CASE Go(r, Entered(run[r]))
    <2>1. CASE HasSession(run[r])
      BY <1>0, <1>1, <2>1, GoAway DEF Entered, Away
    <2>2. CASE ~HasSession(run[r])
      <3> DEFINE rec == [run[r] EXCEPT !.stage = "asked"]
      <3>1. IsRun(rec) /\ rec.stage = "asked" /\ rec.session = run[r].session /\ Step(r, rec)
        BY <1>1, <2>2, GoIsStep DEF Entered, FilesInv
      <3> HIDE DEF rec
      <3>2. MayOwn(r, rec)
        BY <2>2, <3>1 DEF MayOwn, Owns, HasSession
      <3>3. QED BY <1>0, <3>1, <3>2, RunKeeps
    <2>3. QED BY <2>1, <2>2
  <1>2. CASE Step(r, [run[r] EXCEPT !.stage = "finished", !.ok = FALSE])
    <2> DEFINE rec == [run[r] EXCEPT !.stage = "finished", !.ok = FALSE]
    <2>1. IsRun(rec) /\ rec.stage = "finished" /\ Step(r, rec)
      BY <1>0, <1>2 DEF IsRun
    <2> HIDE DEF rec
    <2>2. QED BY <1>0, <2>1, AwayKeeps DEF Away
  <1>3. QED BY <1>1, <1>2 DEF Enter

LEMMA LoadKeeps ==
  ASSUME FilesInv, NEW r \in Slots, LoadSession(r)
  PROVE  FilesInv' /\ KeepsHistory
PROOF
  <1> DEFINE s == run[r].session
             rec == [run[r] EXCEPT !.stage = "asked", !.turns = Load(s).turns]
  <1>1. /\ Untouched /\ run[r].stage = "loading" /\ IsRun(run[r]) /\ Step(r, rec)
        /\ Using(s) # {r} => s \in contended'
    BY DEF LoadSession, At, Untouched, services, fileVars, FilesInv, RunsAre
  <1>2. IsRun(rec) /\ rec.stage = "asked" /\ rec.session = s /\ rec.turns = Load(s).turns
    BY <1>1 DEF IsRun
  <1>3. ASSUME NEW t \in Sessions \ contended', Owns(rec, t)
        PROVE  /\ \A q \in Slots : Owns(run[q], t) => q = r
               /\ rec.turns \in Seq(Slots) /\ IsPrefix(named[t].turns, rec.turns)
    <2>1. t = s /\ s \in Sessions /\ s \notin contended'
      BY <1>2, <1>3 DEF Owns
    <2>2. Using(s) = {r}
      BY <1>1, <2>1
    <2>3. \A q \in Slots : Owns(run[q], s) => q \in Using(s)
      BY DEF Owns, Owning, Using, InSession
    <2>4. Calm(s)
      BY <1>1, <2>1 DEF FilesInv, Untouched
    <2>5. rec.turns = named[s].turns
      BY <1>2 DEF Load, Data, Missing, Mark
    <2>6. named[s].turns \in Seq(Slots)
      BY <2>4 DEF Calm
    <2>7. IsPrefix(named[s].turns, named[s].turns)
      BY <2>6, PrefixFacts
    <2>8. QED BY <2>1, <2>2, <2>3, <2>5, <2>6, <2>7
  <1> HIDE DEF rec, s
  <1>4. MayOwn(r, rec)
    BY <1>3 DEF MayOwn
  <1>5. QED BY <1>1, <1>2, <1>4, RunKeeps

LEMMA AnswerKeeps ==
  ASSUME FilesInv, NEW r \in Slots, Answer(r)
  PROVE  FilesInv' /\ KeepsHistory
PROOF
  <1> DEFINE rec == [run[r] EXCEPT !.stage = AfterAnswer(run[r]), !.turns = Append(@, r)]
  <1>1. Untouched /\ run[r].stage = "asked" /\ IsRun(run[r]) /\ Step(r, rec)
    BY DEF Answer, At, Untouched, services, fileVars, FilesInv, RunsAre
  <1>2. /\ IsRun(rec) /\ rec.stage = AfterAnswer(run[r]) /\ rec.session = run[r].session
        /\ rec.turns = Append(run[r].turns, r)
    BY <1>1 DEF IsRun
  <1>3. run[r].turns \in Seq(Slots) =>
          /\ rec.turns \in Seq(Slots)
          /\ \A s \in Seq(Slots) : IsPrefix(s, run[r].turns) => IsPrefix(s, rec.turns)
    BY <1>2, PrefixFacts
  <1> HIDE DEF rec
  <1>4. CASE HasSession(run[r])
    <2>1. rec.stage = "saving" /\ HasSession(rec)
      BY <1>2, <1>4 DEF AfterAnswer, HasSession
    <2>2. QED BY <1>1, <1>2, <1>3, <2>1, OwnerKeeps
  <1>5. CASE ~HasSession(run[r])
    BY <1>1, <1>2, <1>5, AwayKeeps DEF AfterAnswer, Away
  <1>6. QED BY <1>4, <1>5

LEMMA ReadExistingKeeps ==
  ASSUME FilesInv, NEW r \in Slots, ReadExisting(r)
  PROVE  FilesInv' /\ KeepsHistory
PROOF
  <1> DEFINE rec == [run[r] EXCEPT !.stage = "opening", !.count = ExistingCount(run[r].session)]
  <1>1. Untouched /\ run[r].stage = "saving" /\ IsRun(run[r]) /\ Step(r, rec)
    BY DEF ReadExisting, At, Untouched, services, fileVars, FilesInv, RunsAre
  <1>2. /\ IsRun(rec) /\ rec.stage = "opening" /\ rec.session = run[r].session
        /\ rec.turns = run[r].turns
    BY <1>1 DEF IsRun
  <1> HIDE DEF rec
  <1>3. HasSession(rec)
    BY <1>1, <1>2 DEF FilesInv, WritersOpen, Owning, HasSession
  <1>4. QED BY <1>1, <1>2, <1>3, OwnerKeeps

(***************************************************************************)
(* The save.                                                               *)
(***************************************************************************)
(* The owner r of a session goes on with its save.                         *)
Saves(r, rec) ==
  /\ Step(r, rec) /\ IsRun(rec)
  /\ rec.session = run[r].session /\ rec.turns = run[r].turns
  /\ run[r].stage \in Owning /\ HasSession(run[r])
  /\ rec.stage \in {"writing", "renaming", "ended"}
  /\ UNCHANGED <<setup, contended>>

(* It leaves what others have open to them, and other sessions alone.      *)
Minds(r, rec) ==
  /\ FilesAre'
  /\ \A q \in Slots : q # r => (Opened(q)' <=> Opened(q)) /\ fd'[q].session = fd[q].session
  /\ Opened(r)' <=> rec.stage = "writing"
  /\ Opened(r)' => fd'[r].session = run[r].session
  /\ \A s \in Sessions : s # run[r].session =>
       /\ named'[s] = named[s] /\ temp'[s] = temp[s]
       /\ \A q \in Slots : q # r /\ fd[q].session = s => fd'[q] = fd[q]

(* Its own session, if nobody else has it, is replaced when all is written. *)
Replaces(r, rec, s) ==
  /\ \/ named'[s] = named[s]
     \/ rec.stage = "ended" /\ Readable(named'[s]) /\ named'[s].turns = run[r].turns
  /\ rec.stage = "writing" => fd'[r].name = "temp" /\ temp'[s] = Empty
  /\ rec.stage = "renaming" => Readable(temp'[s]) /\ temp'[s].turns = run[r].turns

LEMMA SaveKeeps ==
  ASSUME FilesInv, NEW r \in Slots, NEW rec, Saves(r, rec), Minds(r, rec),
         run[r].session \in Sessions \ contended => Replaces(r, rec, run[r].session)
  PROVE  FilesInv' /\ KeepsHistory
PROOF
  <1>0. RunsAre' /\ run'[r] = rec /\ \A q \in Slots : q # r => run'[q] = run[q]
    BY StepEffect DEF FilesInv, Saves
  <1>1. WritersOpen'
    BY <1>0 DEF FilesInv, WritersOpen, HasSession, Owning, Opened, Saves, Minds
  <1>2. \A q \in Slots : \A t : Owns(run[q], t)' <=> Owns(run'[q], t)
    BY DEF Owns, HasSession, Saves
  <1>3. \A t : Owns(rec, t) => Owns(run[r], t)
    BY DEF Owns, HasSession, Saves
  <1>4. ASSUME NEW s \in Sessions \ contended, s # run[r].session PROVE Calm(s)'
    <2>1. Calm(s)
      BY DEF FilesInv
    <2>2. ~Owns(rec, s) /\ ~Owns(run[r], s)
      BY <1>4 DEF Owns, Saves
    <2>3. OneOwner(s)'
      BY <1>0, <1>2, <2>1, <2>2 DEF OneOwner, Calm
    <2>4. ASSUME NEW q \in Slots, Opened(q)', fd'[q].session = s
          PROVE  fd'[q].name = "temp" /\ temp'[s] = Empty
      <3>1. q # r
        BY <2>4, <1>4 DEF Minds
      <3>2. fd'[q] = fd[q] /\ Opened(q)
        BY <2>4, <3>1, <1>4 DEF Opened, Minds
      <3>3. QED BY <2>1, <2>4, <3>2, <1>4 DEF Calm, Minds
    <2>5. QED BY SMTT(40), <1>0, <1>2, <1>4, <2>1, <2>2, <2>3, <2>4 DEF Calm, Minds
  <1>5. ASSUME NEW s \in Sessions \ contended, s = run[r].session
        PROVE  /\ Calm(s)'
               /\ named'[s] = named[s] \/ IsPrefix(named[s].turns, named'[s].turns)
    <2>1. Calm(s) /\ Owns(run[r], s)
      BY <1>5 DEF FilesInv, Owns, Saves
    <2>2. \A q \in Slots : Owns(run[q], s) => q = r
      BY <2>1 DEF Calm, OneOwner
    <2>3. \A q \in Slots : Owns(run'[q], s) => q = r /\ rec.stage # "ended"
      BY <1>0, <2>2 DEF Owns, Owning
    <2>4. OneOwner(s)'
      BY <1>2, <2>3 DEF OneOwner
    <2>5. ASSUME NEW q \in Slots, Opened(q)', fd'[q].session = s
          PROVE  fd'[q].name = "temp" /\ temp'[s] = Empty
      <3>1. CASE q = r
        BY <2>5, <3>1, <1>5 DEF Minds, Replaces
      <3>2. CASE q # r
        <4>1. Opened(q) /\ fd[q].session = s
          BY <2>5, <3>2 DEF Minds
        <4>2. Owns(run[q], s)
          BY <4>1, <2>1 DEF FilesInv, WritersOpen, Owns, Owning
        <4>3. QED BY <4>2, <2>2, <3>2
      <3>3. QED BY <3>1, <3>2
    <2>6. run[r].turns \in Seq(Slots) /\ IsPrefix(named[s].turns, run[r].turns)
      BY <2>1 DEF Calm
    <2>7. /\ named'[s] = Missing \/ Readable(named'[s])
          /\ named'[s].turns \in Seq(Slots)
          /\ named'[s] = named[s] \/ IsPrefix(named[s].turns, named'[s].turns)
      BY <1>5, <2>1, <2>6 DEF Calm, Replaces
    <2>8. ASSUME NEW q \in Slots, Owns(run'[q], s)
          PROVE  /\ run'[q].turns \in Seq(Slots) /\ IsPrefix(named'[s].turns, run'[q].turns)
                 /\ run'[q].stage = "renaming" =>
                      Readable(temp'[s]) /\ temp'[s].turns = run'[q].turns
      <3>1. q = r /\ rec.stage # "ended" /\ run'[q] = rec
        BY <1>0, <2>3, <2>8
      <3>2. named'[s] = named[s]
        BY <1>5, <3>1 DEF Replaces
      <3>3. QED BY <1>5, <2>6, <3>1, <3>2 DEF Replaces, Saves
    <2>9. QED BY <1>2, <2>4, <2>5, <2>7, <2>8 DEF Calm
  <1>6. \A s \in Sessions \ contended : Calm(s)'
    BY <1>4, <1>5
  <1>7. KeepsHistory
    BY <1>5 DEF KeepsHistory, Minds, Saves
  <1>8. QED BY <1>0, <1>1, <1>6, <1>7 DEF FilesInv, Minds, Saves

LEMMA OpenTempKeeps ==
  ASSUME FilesInv, NEW r \in Slots, OpenTemp(r)
  PROVE  FilesInv' /\ KeepsHistory
PROOF
  <1> DEFINE rec == [run[r] EXCEPT !.stage = "writing"]
             s == run[r].session
  <1>1. /\ run[r].stage = "opening" /\ Go(r, "writing") /\ UNCHANGED <<setup, contended>>
        /\ named' = named /\ temp' = [temp EXCEPT ![s] = Empty]
        /\ fd' = [fd EXCEPT ![r] = [name |-> "temp", session |-> s]]
    BY DEF OpenTemp, Open, At
  <1>2. /\ IsRun(rec) /\ rec.stage = "writing" /\ Step(r, rec)
        /\ rec.session = s /\ rec.turns = run[r].turns
    BY <1>1, GoIsStep DEF FilesInv
  <1>3. HasSession(run[r]) /\ run[r].stage \in Owning /\ ~Opened(r)
    BY <1>1 DEF FilesInv, WritersOpen, Owning
  <1>4. FilesAre'
    BY <1>1 DEF FilesInv, FilesAre
  <1>5. fd'[r] = [name |-> "temp", session |-> s] /\ \A q \in Slots : q # r => fd'[q] = fd[q]
    BY <1>1 DEF FilesInv, FilesAre
  <1>6. \A t \in Sessions : temp'[t] = IF t = s THEN Empty ELSE temp[t]
    BY <1>1 DEF FilesInv, FilesAre
  <1>7. \A t \in Sessions : t # s =>
          /\ named'[t] = named[t] /\ temp'[t] = temp[t]
          /\ \A q \in Slots : q # r /\ fd[q].session = t => fd'[q] = fd[q]
    BY <1>1, <1>5, <1>6
  <1> HIDE DEF rec
  <1>8. Saves(r, rec)
    BY <1>1, <1>2, <1>3 DEF Saves
  <1>9. Minds(r, rec)
    BY <1>2, <1>4, <1>5, <1>7 DEF Minds, Opened
  <1>10. s \in Sessions => Replaces(r, rec, s)
    BY <1>1, <1>2, <1>5, <1>6 DEF Replaces
  <1>11. QED BY <1>8, <1>9, <1>10, SaveKeeps

LEMMA WriteTempKeeps ==
  ASSUME FilesInv, NEW r \in Slots, WriteTemp(r)
  PROVE  FilesInv' /\ KeepsHistory
PROOF
  <1> DEFINE s == run[r].session
             data == Data(run[r].turns, run[r].count + 1)
  <1>1. /\ run[r].stage = "writing" /\ UNCHANGED <<setup, contended>>
        /\ Opened(r) /\ fd[r].session = s
        /\ HasSession(run[r]) /\ run[r].stage \in Owning /\ Owns(run[r], s)
    BY DEF WriteTemp, At, FilesInv, WritersOpen, Owning, Owns
  <1>2. fd' = [fd EXCEPT ![r].name = "closed"]
    BY DEF WriteTemp, Write, WriteFails
  <1>3. /\ fd'[r] = [name |-> "closed", session |-> s]
        /\ \A q \in Slots : q # r => fd'[q] = fd[q]
        /\ fd' = [q \in Slots |-> fd'[q]]
    BY <1>1, <1>2 DEF FilesInv, FilesAre
  <1>4. \A q \in Slots : fd'[q] = [name |-> fd'[q].name, session |-> fd'[q].session]
    BY <1>3 DEF FilesInv, FilesAre
  <1>5. \A q \in Slots : q # r => (Opened(q)' <=> Opened(q)) /\ fd'[q].session = fd[q].session
    BY <1>3 DEF Opened
  <1>6. ~Opened(r)'
    BY <1>3 DEF Opened
  <1>7. s \in Sessions \ contended => fd[r].name = "temp" /\ temp[s] = Empty
    BY <1>1 DEF FilesInv, Calm
  <1>8. CASE Write(r, data) /\ Go(r, "renaming")
    <2> DEFINE rec == [run[r] EXCEPT !.stage = "renaming"]
    <2>1. /\ IsRun(rec) /\ rec.stage = "renaming" /\ Step(r, rec)
          /\ rec.session = s /\ rec.turns = run[r].turns
      BY <1>8, GoIsStep DEF FilesInv
    <2>2. /\ \/ named' = named \/ \E c : named' = [named EXCEPT ![s] = c]
          /\ \/ temp' = temp \/ \E c : temp' = [temp EXCEPT ![s] = c]
      BY <1>1, <1>8 DEF Write
    <2>3. /\ named' = [t \in Sessions |-> named'[t]] /\ temp' = [t \in Sessions |-> temp'[t]]
          /\ \A t \in Sessions : t # s => named'[t] = named[t] /\ temp'[t] = temp[t]
      BY <2>2 DEF FilesInv, FilesAre
    <2>4. FilesAre'
      BY <1>3, <1>4, <2>3 DEF FilesAre
    <2>5. ASSUME s \in Sessions \ contended
          PROVE  named'[s] = named[s] /\ temp'[s] = data
      <3>1. named' = named /\ \E c \in Over(temp[s], data) : temp' = [temp EXCEPT ![s] = c]
        BY <1>1, <1>7, <1>8, <2>5 DEF Write
      <3>2. Over(temp[s], data) = {data}
        BY <1>7, <2>5 DEF Over
      <3>3. temp' = [temp EXCEPT ![s] = data]
        BY <3>1, <3>2
      <3>4. QED BY <2>5, <3>1, <3>3 DEF FilesInv, FilesAre
    <2>6. Readable(data) /\ data.turns = run[r].turns
      BY DEF Readable, Data
    <2> HIDE DEF rec, data
    <2>7. Saves(r, rec)
      BY <1>1, <2>1 DEF Saves
    <2>8. Minds(r, rec)
      BY <1>3, <1>5, <1>6, <2>1, <2>3, <2>4 DEF Minds
    <2>9. s \in Sessions \ contended => Replaces(r, rec, s)
      BY <2>1, <2>5, <2>6 DEF Replaces
    <2>10. QED BY <2>7, <2>8, <2>9, SaveKeeps
  <1>9. CASE WriteFails(r) /\ Go(r, "ended")
    <2> DEFINE rec == [run[r] EXCEPT !.stage = "ended"]
    <2>1. /\ IsRun(rec) /\ rec.stage = "ended" /\ Step(r, rec)
          /\ rec.session = s /\ rec.turns = run[r].turns
      BY <1>9, GoIsStep DEF FilesInv
    <2>2. UNCHANGED <<named, temp>>
      BY <1>9 DEF WriteFails
    <2>3. FilesAre'
      BY <1>3, <1>4, <2>2 DEF FilesInv, FilesAre
    <2> HIDE DEF rec
    <2>4. Saves(r, rec)
      BY <1>1, <2>1 DEF Saves
    <2>5. Minds(r, rec)
      BY <1>3, <1>5, <1>6, <2>1, <2>2, <2>3 DEF Minds
    <2>6. Replaces(r, rec, s)
      BY <2>1, <2>2 DEF Replaces
    <2>7. QED BY <2>4, <2>5, <2>6, SaveKeeps
  <1>10. QED BY <1>8, <1>9 DEF WriteTemp

LEMMA RenameTempKeeps ==
  ASSUME FilesInv, NEW r \in Slots, RenameTemp(r)
  PROVE  FilesInv' /\ KeepsHistory
PROOF
  <1> DEFINE s == run[r].session
             rec == [run[r] EXCEPT !.stage = "ended"]
  <1>1. /\ run[r].stage = "renaming" /\ UNCHANGED <<setup, contended>>
        /\ Rename(s) /\ Go(r, "ended")
        /\ HasSession(run[r]) /\ run[r].stage \in Owning /\ Owns(run[r], s) /\ ~Opened(r)
    BY DEF RenameTemp, At, FilesInv, WritersOpen, Owning, Owns
  <1>2. /\ IsRun(rec) /\ rec.stage = "ended" /\ Step(r, rec)
        /\ rec.session = s /\ rec.turns = run[r].turns
    BY <1>1, GoIsStep DEF FilesInv
  <1> HIDE DEF rec
  <1>3. Saves(r, rec)
    BY <1>1, <1>2 DEF Saves
  <1>4. CASE temp[s] = Missing
    <2>1. UNCHANGED <<named, temp, fd>>
      BY <1>1, <1>4 DEF Rename
    <2>2. FilesAre' /\ \A q \in Slots : Opened(q)' <=> Opened(q)
      BY <2>1 DEF FilesInv, FilesAre, Opened
    <2>3. Minds(r, rec)
      BY <1>1, <1>2, <2>1, <2>2 DEF Minds
    <2>4. Replaces(r, rec, s)
      BY <1>2, <2>1 DEF Replaces
    <2>5. QED BY <1>3, <2>3, <2>4, SaveKeeps
  <1>5. CASE temp[s] # Missing
    <2>1. /\ named' = [named EXCEPT ![s] = temp[s]]
          /\ temp' = [temp EXCEPT ![s] = Missing]
          /\ fd' = [q \in Slots |->
                     IF fd[q] = [name |-> "temp", session |-> s]
                     THEN [fd[q] EXCEPT !.name = "named"] ELSE Unlinked(s)[q]]
      BY <1>1, <1>5 DEF Rename
    <2>2. ASSUME NEW q \in Slots
          PROVE  /\ fd'[q] = [name |-> fd'[q].name, session |-> fd'[q].session]
                 /\ fd'[q].session = fd[q].session
                 /\ fd[q].name = "closed" <=> fd'[q].name = "closed"
                 /\ fd'[q] # fd[q] => fd[q].session = s
      <3>1. fd[q] = [name |-> fd[q].name, session |-> fd[q].session]
        BY DEF FilesInv, FilesAre
      <3>2. CASE fd[q] = [name |-> "temp", session |-> s]
        <4>1. fd'[q] = [fd[q] EXCEPT !.name = "named"]
          BY <2>1, <3>2
        <4>2. QED BY <3>1, <3>2, <4>1
      <3>3. CASE fd[q] = [name |-> "named", session |-> s]
        <4>1. fd'[q] = [fd[q] EXCEPT !.name = "gone"]
          BY <2>1, <3>3 DEF Unlinked
        <4>2. QED BY <3>1, <3>3, <4>1
      <3>4. CASE fd[q] # [name |-> "temp", session |-> s] /\ fd[q] # [name |-> "named", session |-> s]
        <4>1. fd'[q] = fd[q]
          BY <2>1, <3>4 DEF Unlinked
        <4>2. QED BY <3>1, <4>1
      <3>5. QED BY <3>2, <3>3, <3>4
    <2>3. \A q \in Slots : fd'[q].session = fd[q].session /\ (Opened(q)' <=> Opened(q))
      <3>1. \A q \in Slots : fd'[q].session = fd[q].session
        BY <2>2
      <3>2. \A q \in Slots : Opened(q)' <=> Opened(q)
        BY <2>2 DEF Opened
      <3>3. QED BY <3>1, <3>2
    <2>4. FilesAre'
      BY <2>1, <2>2, <2>3 DEF FilesInv, FilesAre
    <2>5. \A t \in Sessions :
            /\ named'[t] = IF t = s THEN temp[s] ELSE named[t]
            /\ t # s => temp'[t] = temp[t]
      BY <2>1 DEF FilesInv, FilesAre
    <2>6. s \in Sessions \ contended => Readable(temp[s]) /\ temp[s].turns = run[r].turns
      BY <1>1 DEF FilesInv, Calm
    <2>7. Minds(r, rec)
      BY <1>1, <1>2, <2>2, <2>3, <2>4, <2>5 DEF Minds
    <2>8. s \in Sessions \ contended => Replaces(r, rec, s)
      BY <1>2, <2>5, <2>6 DEF Replaces
    <2>9. QED BY <1>3, <2>7, <2>8, SaveKeeps
  <1>6. QED BY <1>4, <1>5

(***************************************************************************)
(* The steps of a run after its save, and its beginning.                   *)
(***************************************************************************)
FileRunOnly(r) ==
  Fail(r) \/ RecordCost(r) \/ Summarize(r) \/ CheckAlerts(r) \/ CountRun(r)
  \/ Finish(r) \/ Begin(r)

LEMMA FileRunOnlyKeeps ==
  ASSUME FilesInv, NEW r \in Slots, FileRunOnly(r)
  PROVE  FilesInv' /\ KeepsHistory
PROOF
  <1> USE DEF At, Untouched, services, fileVars
  <1>0. IsRun(run[r])
    BY DEF FilesInv, RunsAre
  <1>1. CASE Fail(r)
    <2> DEFINE rec == [run[r] EXCEPT !.stage = "finished", !.ok = FALSE]
    <2>1. Untouched /\ run[r].stage # "writing" /\ Step(r, rec)
      BY <1>1 DEF Fail
    <2>2. IsRun(rec) /\ rec.stage \in Away
      BY <1>0 DEF IsRun, Away
    <2> HIDE DEF rec
    <2>3. QED BY <2>1, <2>2, AwayKeeps
  <1>2. CASE RecordCost(r)
    <2>1. Untouched /\ run[r].stage # "writing"
      BY <1>2 DEF RecordCost
    <2>2. Go(r, "alert") \/ Go(r, "post") \/ Go(r, "finished")
      BY <1>2 DEF RecordCost, AfterSave
    <2>3. QED BY <2>1, <2>2, GoAway DEF Away
  <1>3. CASE Summarize(r)
    <2> DEFINE rec == [run[r] EXCEPT !.stage = "summed",
                                     !.total = Summary(setup.payer, now),
                                     !.month = now \div Month]
    <2>1. Untouched /\ run[r].stage # "writing" /\ Step(r, rec)
      BY <1>3 DEF Summarize
    <2>2. IsRun(rec) /\ rec.stage \in Away
      BY <1>0 DEF IsRun, Away
    <2> HIDE DEF rec
    <2>3. QED BY <2>1, <2>2, AwayKeeps
  <1>4. CASE CheckAlerts(r)
    <2>1. Untouched /\ run[r].stage # "writing"
      BY <1>4 DEF CheckAlerts
    <2>2. Go(r, "post") \/ Go(r, "finished")
      BY <1>4 DEF CheckAlerts, AfterSave
    <2>3. QED BY <2>1, <2>2, GoAway DEF Away
  <1>5. CASE CountRun(r)
    <2>1. Untouched /\ run[r].stage # "writing" /\ Go(r, "finished")
      BY <1>5 DEF CountRun
    <2>2. QED BY <2>1, GoAway DEF Away
  <1>6. CASE Finish(r)
    <2> DEFINE again == [Started(run[r].who) EXCEPT !.session = run[r].session,
                                                    !.left = run[r].left - 1]
    <2>1. Untouched /\ run[r].stage # "writing" /\ (Step(r, Free) \/ Step(r, again))
      BY <1>6 DEF Finish
    <2>2. IsRun(Free) /\ Free.stage \in Away /\ IsRun(again) /\ again.stage \in Away
      BY FreshRun DEF IsRun, Away
    <2> HIDE DEF again
    <2>3. QED BY <2>1, <2>2, AwayKeeps
  <1>7. CASE Begin(r)
    <2>1. Untouched /\ run[r].stage # "writing" /\ Go(r, "hook")
      BY <1>7 DEF Begin
    <2>2. QED BY <2>1, GoAway DEF Away
  <1>8. QED BY <1>1, <1>2, <1>3, <1>4, <1>5, <1>6, <1>7 DEF FileRunOnly

(***************************************************************************)
(* What starts runs.                                                       *)
(***************************************************************************)
LEMMA FileStartKeeps ==
  ASSUME FilesInv, NEW r \in Slots,
         Route(r) \/ \E t \in setup.callers : Call(r, t)
  PROVE  FilesInv' /\ KeepsHistory
PROOF
  <1>1. CASE Route(r)
    <2>1. Untouched /\ run[r].stage # "writing" /\ Step(r, Started("bus"))
      BY <1>1 DEF Route, At, Untouched, fileVars
    <2>2. IsRun(Started("bus")) /\ Started("bus").stage \in Away
      BY FreshRun DEF Away
    <2>3. QED BY <2>1, <2>2, AwayKeeps
  <1>2. ASSUME NEW t \in setup.callers, Call(r, t)
        PROVE  FilesInv' /\ KeepsHistory
    <2> DEFINE rec == [Started("caller") EXCEPT !.tenant = t, !.session = setup.session]
    <2>1. Untouched /\ run[r].stage # "writing" /\ Step(r, rec)
      BY <1>2 DEF Call, At, Untouched, services, fileVars
    <2>2. IsRun(rec) /\ rec.stage \in Away
      BY FreshRun DEF IsRun, Away
    <2> HIDE DEF rec
    <2>3. QED BY <2>1, <2>2, AwayKeeps
  <1>3. QED BY <1>1, <1>2

LEMMA FileTickKeeps ==
  ASSUME FilesInv, Tick
  PROVE  FilesInv' /\ KeepsHistory
PROOF
  <1>2. \A r \in Slots : run'[r] # run[r] =>
          IsRun(run'[r]) /\ run'[r].stage = "due" /\ run[r].stage = "free"
    BY ZenonT(60), TickEffect DEF FilesInv
  <1>3. Untouched
    BY DEF Tick, Untouched, services, fileVars
  <1>4. RunsAre'
    BY TickEffect DEF FilesInv
  <1>5. FilesAre'
    BY <1>3 DEF Untouched, FilesInv, FilesAre
  <1>6. WritersOpen'
    BY <1>2, <1>3 DEF Untouched, FilesInv, WritersOpen, Opened, HasSession, Owning
  <1>7. \A r \in Slots : \A s : Owns(run[r], s)' => Owns(run[r], s) /\ run'[r] = run[r]
    BY <1>2, <1>3 DEF Owns, Owning, HasSession, Untouched
  <1>8. ASSUME NEW s \in Sessions \ contended' PROVE Calm(s)'
    <2>1. Calm(s)
      BY <1>3 DEF FilesInv, Untouched
    <2>2. OneOwner(s)'
      BY <1>7, <2>1 DEF OneOwner, Calm
    <2>3. \A r \in Slots : Owns(run[r], s)' /\ run'[r].stage = "renaming" =>
            Owns(run[r], s) /\ run[r].stage = "renaming"
      BY <1>7
    <2>4. QED BY <1>3, <1>7, <2>1, <2>2, <2>3 DEF Calm, Opened, Untouched
  <1>9. QED BY <1>3, <1>4, <1>5, <1>6, <1>8 DEF FilesInv, KeepsHistory, Untouched

(***************************************************************************)
(* The cleanup, the death of the process, and the rest.                    *)
(***************************************************************************)
LEMMA CleanupKeeps ==
  ASSUME FilesInv, Cleanup
  PROVE  FilesInv' /\ KeepsHistory
PROOF
  <1> DEFINE s == condemned
  <1>1. /\ named' = [named EXCEPT ![s] = Missing] /\ fd' = Unlinked(s)
        /\ UNCHANGED <<setup, run, contended, temp>>
    BY DEF Cleanup, RemoveExpired
  <1>2. ASSUME NEW q \in Slots
        PROVE  /\ fd'[q] = [name |-> fd'[q].name, session |-> fd'[q].session]
               /\ fd'[q].session = fd[q].session
               /\ fd[q].name = "closed" <=> fd'[q].name = "closed"
               /\ fd[q].name # "named" => fd'[q] = fd[q]
    <2>1. fd[q] = [name |-> fd[q].name, session |-> fd[q].session]
      BY DEF FilesInv, FilesAre
    <2>2. CASE fd[q] = [name |-> "named", session |-> s]
      <3>1. fd'[q] = [fd[q] EXCEPT !.name = "gone"]
        BY <1>1, <2>2 DEF Unlinked
      <3>2. QED BY <2>1, <2>2, <3>1
    <2>3. CASE fd[q] # [name |-> "named", session |-> s]
      <3>1. fd'[q] = fd[q]
        BY <1>1, <2>3 DEF Unlinked
      <3>2. QED BY <2>1, <3>1
    <2>4. QED BY <2>2, <2>3
  <1>3. \A q \in Slots : fd'[q].session = fd[q].session
    BY <1>2
  <1>4. \A q \in Slots : Opened(q)' <=> Opened(q)
    BY <1>2 DEF Opened
  <1>5. fd' = [q \in Slots |-> fd'[q]]
    BY <1>1 DEF Unlinked
  <1>6. \A t \in Sessions : named'[t] = IF t = s THEN Missing ELSE named[t]
    BY <1>1 DEF FilesInv, FilesAre
  <1>7. named' = [t \in Sessions |-> named'[t]]
    BY <1>1 DEF FilesInv, FilesAre
  <1>8. RunsAre' /\ FilesAre'
    BY <1>1, <1>2, <1>3, <1>5, <1>7 DEF FilesInv, RunsAre, FilesAre, IsRun
  <1>9. WritersOpen'
    <2>1. ASSUME NEW q \in Slots
          PROVE  /\ Opened(q)' <=> run'[q].stage = "writing"
                 /\ Opened(q)' => fd'[q].session = run'[q].session
                 /\ run'[q].stage \in Owning \ {"asked"} => HasSession(run[q])'
      BY <1>1, <1>3, <1>4 DEF FilesInv, WritersOpen, HasSession
    <2>2. QED BY <2>1 DEF WritersOpen
  <1>10. ASSUME NEW t \in Sessions \ contended PROVE Calm(t)'
    <2>1. Calm(t)
      BY DEF FilesInv
    <2>2. OneOwner(t)' /\ \A q \in Slots : Owns(run[q], t)' <=> Owns(run[q], t)
      BY <1>1, <2>1 DEF Calm, OneOwner, Owns, HasSession
    <2>3. Missing.turns = <<>> /\ <<>> \in Seq(Slots)
      BY DEF Missing, Mark
    <2>4. /\ named'[t] = Missing \/ Readable(named'[t])
          /\ named'[t].turns \in Seq(Slots)
      BY <1>6, <2>1, <2>3 DEF Calm
    <2>5. ASSUME NEW q \in Slots, Owns(run[q], t)
          PROVE  run[q].turns \in Seq(Slots) /\ IsPrefix(named'[t].turns, run[q].turns)
      <3>1. run[q].turns \in Seq(Slots) /\ IsPrefix(named[t].turns, run[q].turns)
        BY <2>1, <2>5 DEF Calm
      <3>2. IsPrefix(<<>>, run[q].turns)
        BY <3>1, PrefixFacts
      <3>3. QED BY <1>6, <2>3, <3>1, <3>2
    <2>6. ASSUME NEW q \in Slots, Opened(q)', fd'[q].session = t
          PROVE  fd'[q].name = "temp" /\ temp'[t] = Empty
      <3>1. Opened(q) /\ fd[q].session = t
        BY <1>3, <1>4, <2>6
      <3>2. fd[q].name = "temp" /\ temp[t] = Empty
        BY <2>1, <3>1 DEF Calm
      <3>3. QED BY <1>1, <1>2, <3>2
    <2>7. QED BY <1>1, <2>1, <2>2, <2>4, <2>5, <2>6 DEF Calm
  <1>11. KeepsHistory
    BY <1>6 DEF KeepsHistory
  <1>12. QED BY <1>1, <1>8, <1>9, <1>10, <1>11 DEF FilesInv

LEMMA FileCrashKeeps ==
  ASSUME FilesInv, Crash
  PROVE  FilesInv' /\ KeepsHistory
PROOF
  <1>1. /\ run' = [r \in Slots |-> Free] /\ UNCHANGED <<setup, contended, named, temp>>
        /\ fd' = [r \in Slots |-> [name |-> "closed", session |-> Nobody]]
    BY DEF Crash, FilesCrash
  <1>2. \A r \in Slots : run'[r].stage = "free" /\ IsRun(run'[r]) /\ ~Opened(r)'
    BY <1>1, FreshRun DEF Opened
  <1>3. RunsAre' /\ FilesAre' /\ WritersOpen'
    BY <1>1, <1>2 DEF RunsAre, FilesInv, FilesAre, WritersOpen, Owning
  <1>4. \A r \in Slots : \A s : ~Owns(run[r], s)'
    BY <1>2 DEF Owns, Owning
  <1>5. \A s \in Sessions \ contended : Calm(s)'
    BY <1>1, <1>2, <1>4 DEF FilesInv, Calm, OneOwner
  <1>6. QED BY <1>1, <1>3, <1>5 DEF FilesInv, KeepsHistory

(* What touches neither runs nor files.                                    *)
FileElsewhere ==
  \/ Publishing \/ Stop \/ PassTime
  \/ \E t : RegisterTenant(t)
  \/ \E s \in Sessions : Expire(s)

LEMMA FileElsewhereKeeps ==
  ASSUME FilesInv, FileElsewhere
  PROVE  FilesInv' /\ KeepsHistory
PROOF
  <1>1. Untouched /\ UNCHANGED run
    BY DEF FileElsewhere, Publishing, Stop, PassTime, RegisterTenant, Expire, GrowOld, Condemn,
           Untouched, services, fileVars
  <1>2. QED BY <1>1, FileQuietKeeps

LEMMA InitFiles == Init => FilesInv
PROOF
  <1> SUFFICES ASSUME Init PROVE FilesInv
    OBVIOUS
  <1>1. /\ run = [r \in Slots |-> Free]
        /\ named = [s \in Sessions |-> Missing] /\ temp = [s \in Sessions |-> Missing]
        /\ fd = [r \in Slots |-> [name |-> "closed", session |-> Nobody]]
    BY DEF Init, FilesInit
  <1>2. \A r \in Slots : run[r].stage = "free" /\ IsRun(run[r]) /\ ~Opened(r)
    BY <1>1, FreshRun DEF Opened
  <1>3. RunsAre /\ FilesAre /\ WritersOpen
    BY <1>1, <1>2 DEF RunsAre, FilesAre, WritersOpen, Owning
  <1>4. \A r \in Slots : \A s : ~Owns(run[r], s)
    BY <1>2 DEF Owns, Owning
  <1>5. Missing.turns = <<>> /\ <<>> \in Seq(Slots)
    BY DEF Missing, Mark
  <1>6. \A s \in Sessions \ contended : Calm(s)
    BY <1>1, <1>2, <1>4, <1>5 DEF Calm, OneOwner
  <1>7. QED BY <1>3, <1>6 DEF FilesInv

LEMMA NextFiles == FilesInv /\ [Next]_vars => FilesInv' /\ KeepsHistory
PROOF
  <1> SUFFICES ASSUME FilesInv, [Next]_vars PROVE FilesInv' /\ KeepsHistory
    OBVIOUS
  <1>1. ASSUME NEW r \in Slots, RunStep(r) \/ Route(r)
        PROVE  FilesInv' /\ KeepsHistory
    BY <1>1, FileEnterKeeps, LoadKeeps, AnswerKeeps, ReadExistingKeeps, OpenTempKeeps,
       WriteTempKeeps, RenameTempKeeps, FileRunOnlyKeeps, FileStartKeeps DEF RunStep, FileRunOnly
  <1>2. CASE Environment
    BY <1>2, FileStartKeeps, FileElsewhereKeeps, CleanupKeeps, FileCrashKeeps DEF Environment, FileElsewhere
  <1>3. CASE UNCHANGED vars
    <2>1. Untouched /\ UNCHANGED run
      BY <1>3 DEF vars, Untouched, fileVars
    <2>2. QED BY <2>1, FileQuietKeeps
  <1>4. QED BY <1>1, <1>2, <1>3, FileTickKeeps, FileElsewhereKeeps DEF Next, FileElsewhere

(* A session that runs use one at a time has no file or a complete one,    *)
(* whatever fails, expires or dies, for any number of runs and sessions    *)
(* (file.go:46-60).                                                        *)
THEOREM SessionsStayReadable == Spec => []SessionsReadable
PROOF
  <1>1. FilesInv /\ [Next]_vars => FilesInv'
    BY NextFiles
  <1>2. FilesInv => SessionsReadable
    BY DEF FilesInv, SessionsReadable, Calm
  <1>3. QED BY InitFiles, <1>1, <1>2, PTL DEF Spec

(* Its file only grows by the turn of the run that saves it, or goes       *)
(* because it had expired (runner.go:110-125, 228-239).                    *)
THEOREM HistoriesGrow == Spec => SerialRunsKeepHistory
PROOF
  <1>1. FilesInv /\ [Next]_vars => FilesInv' /\ KeepsHistory
    BY NextFiles
  <1>2. KeepsHistory =>
          \A s \in Sessions \ contended' :
            \/ named'[s] = named[s]
            \/ named'[s] = Missing /\ condemned = s
            \/ IsPrefix(named[s].turns, named'[s].turns)
    BY DEF KeepsHistory
  <1>3. QED BY InitFiles, <1>1, <1>2, PTL DEF Spec, SerialRunsKeepHistory

-----------------------------------------------------------------------------
(***************************************************************************)
(* Alerts.                                                                 *)
(***************************************************************************)
(***************************************************************************)
(* Numbers.                                                                *)
(***************************************************************************)
MonthOf(t) == t \div Month

LEMMA MonthsApart ==
  ASSUME NEW t \in Nat, NEW u \in Nat, t <= u
  PROVE  MonthOf(t) \in Nat /\ MonthOf(t) <= MonthOf(u)
PROOF BY MonthAssumption DEF MonthOf

LEMMA PositiveProduct ==
  ASSUME NEW a \in Nat \ {0}, NEW b \in Nat \ {0}
  PROVE  a * b > 0 /\ a * b \in Nat
PROOF OBVIOUS

(* An alert is not reached by nothing, and by more if it is by less.       *)
LEMMA ReachedFacts ==
  ASSUME NEW alert, alert.percent \in BOOLEAN, alert.at \in Nat \ {0}, NEW budget \in Nat
  PROVE  /\ ~Reached(alert, 0, budget)
         /\ \A m, n \in Nat : m <= n /\ Reached(alert, m, budget) => Reached(alert, n, budget)
PROOF
  <1>1. budget > 0 => alert.at * budget > 0 /\ alert.at * budget \in Nat
    BY PositiveProduct
  <1>2. ~Reached(alert, 0, budget)
    BY <1>1 DEF Reached, AtPercent, AtAmount
  <1>3. ASSUME NEW m \in Nat, NEW n \in Nat, m <= n, Reached(alert, m, budget)
        PROVE  Reached(alert, n, budget)
    BY <1>1, <1>3 DEF Reached, AtPercent, AtAmount
  <1>4. QED BY <1>2, <1>3

(***************************************************************************)
(* The strengthening.  A run between its record and its check either has   *)
(* yet to look at the total or has seen no more than there is; an alert    *)
(* that is due and did not fire is in the hands of such a run.             *)
(***************************************************************************)
AlertTyped ==
  /\ setup \in Setups /\ now \in Nat /\ now <= setup.maxTime
  /\ RunsAre /\ BillingTypeOK

Checking == {"alert", "summed"}

DueIn(total) == Reached(setup.alert, total, setup.budget)

SeenIsThere ==
  \A r \in Slots :
    /\ run[r].stage \in Checking => setup.payer \in Payers
    /\ run[r].stage = "summed" =>
         /\ run[r].month \in 0..MaxMonth /\ run[r].total \in Nat
         /\ run[r].total <= spent[setup.payer][run[r].month]

FiredOnce ==
  \A p \in Payers :
    /\ p \in armed => fired[p] = {}
    /\ p \notin armed => \E m \in 0..MaxMonth : fired[p] = {m}
    /\ \A m \in fired[p] : DueIn(spent[p][m])

NothingAhead == \A p \in Payers, m \in 0..MaxMonth : m > MonthOf(now) => spent[p][m] = 0

InHand(r) ==
  \/ run[r].stage = "alert"
  \/ run[r].stage = "summed" /\ run[r].month = MonthOf(now) /\ DueIn(run[r].total)

NoneLost ==
  setup.payer \in armed /\ DueIn(spent[setup.payer][MonthOf(now)]) => \E r \in Slots : InHand(r)

AlertInv == AlertTyped /\ SeenIsThere /\ FiredOnce /\ NothingAhead /\ NoneLost

(* What the constants say of the program that runs.                        *)
LEMMA ProgramFacts ==
  ASSUME AlertTyped
  PROVE  /\ setup.payer \in Payers \union {Nobody} /\ setup.cost \in Nat
         /\ MonthOf(now) \in 0..MaxMonth
         /\ ~DueIn(0)
         /\ \A m, n \in Nat : m <= n /\ DueIn(m) => DueIn(n)
PROOF
  <1>1. /\ setup.payer \in Payers \union {Nobody} /\ setup.cost \in Nat /\ setup.budget \in Nat
        /\ setup.alert.percent \in BOOLEAN /\ setup.alert.at \in Nat \ {0}
        /\ setup.maxTime \in Nat /\ MonthOf(setup.maxTime) <= MaxMonth
    BY SpendingAssumption DEF AlertTyped, MonthOf
  <1>2. MonthOf(now) \in 0..MaxMonth
    BY <1>1, MonthAssumption, MonthsApart DEF AlertTyped
  <1>3. QED BY <1>1, <1>2, ReachedFacts DEF DueIn

(***************************************************************************)
(* Steps that neither record nor check.                                    *)
(***************************************************************************)
AlertKept == UNCHANGED <<setup, now, billingVars>>

AlertQuietAt(r) ==
  \/ run'[r] = run[r]
  \/ run[r].stage \notin Checking /\ run'[r].stage \notin Checking

LEMMA AlertQuietKeeps ==
  ASSUME AlertInv, AlertKept, RunsAre', \A r \in Slots : AlertQuietAt(r)
  PROVE  AlertInv'
PROOF
  <1> USE DEF AlertKept, billingVars
  <1>1. AlertTyped'
    BY DEF AlertInv, AlertTyped, BillingTypeOK
  <1>2. SeenIsThere'
    BY DEF AlertInv, SeenIsThere, AlertQuietAt, Checking
  <1>3. FiredOnce' /\ NothingAhead'
    BY DEF AlertInv, FiredOnce, NothingAhead, DueIn
  <1>4. \A r \in Slots : InHand(r) => InHand(r)'
    BY DEF AlertQuietAt, Checking, InHand, DueIn
  <1>5. NoneLost'
    BY <1>4 DEF AlertInv, NoneLost, DueIn
  <1>6. QED BY <1>1, <1>2, <1>3, <1>5 DEF AlertInv

LEMMA AlertQuietStep ==
  ASSUME AlertInv, AlertKept, NEW r \in Slots, NEW rec, Step(r, rec), IsRun(rec),
         run[r].stage \notin Checking, rec.stage \notin Checking
  PROVE  AlertInv'
PROOF
  <1>1. RunsAre' /\ run'[r] = rec /\ \A q \in Slots : q # r => run'[q] = run[q]
    BY StepEffect DEF AlertInv, AlertTyped
  <1>2. ASSUME NEW q \in Slots PROVE AlertQuietAt(q)
    <2>1. CASE q = r
      BY <1>1, <2>1 DEF AlertQuietAt
    <2>2. CASE q # r
      BY <1>1, <2>2 DEF AlertQuietAt
    <2>3. QED BY <2>1, <2>2
  <1>3. QED BY <1>1, <1>2, AlertQuietKeeps

LEMMA AlertQuietGo ==
  ASSUME AlertInv, AlertKept, NEW r \in Slots, NEW stage, Go(r, stage),
         run[r].stage \notin Checking, stage \notin Checking
  PROVE  AlertInv'
PROOF
  <1>1. /\ run'[r].stage = stage /\ RunsAre'
        /\ \A q \in Slots : q # r => run'[q] = run[q]
    BY GoEffect DEF AlertInv, AlertTyped
  <1>2. ASSUME NEW q \in Slots PROVE AlertQuietAt(q)
    <2>1. CASE q = r
      BY <1>1, <2>1 DEF AlertQuietAt
    <2>2. CASE q # r
      BY <1>1, <2>2 DEF AlertQuietAt
    <2>3. QED BY <2>1, <2>2
  <1>3. QED BY <1>1, <1>2, AlertQuietKeeps

(***************************************************************************)
(* The steps of the tracker.                                               *)
(***************************************************************************)
LEMMA RecordKeeps ==
  ASSUME AlertInv, NEW r \in Slots, RecordCost(r)
  PROVE  AlertInv'
PROOF
  <1> USE DEF At
  <1>1. CASE setup.payer = Nobody
    <2>1. AlertKept /\ run[r].stage \notin Checking
      BY <1>1 DEF RecordCost, AlertKept, Checking
    <2>2. Go(r, "post") \/ Go(r, "finished")
      BY <1>1 DEF RecordCost, AfterSave
    <2>3. QED BY <2>1, <2>2, AlertQuietGo DEF Checking
  <1>2. CASE setup.payer # Nobody
    <2> DEFINE p == setup.payer
               n == MonthOf(now)
    <2>1. /\ run[r].stage = "ended" /\ Go(r, "alert") /\ UNCHANGED <<setup, now, fired, armed>>
          /\ spent' = [spent EXCEPT ![p][n] = @ + setup.cost]
      BY <1>2 DEF RecordCost, Record, MonthOf
    <2>2. /\ p \in Payers /\ n \in 0..MaxMonth /\ setup.cost \in Nat
          /\ \A i, j \in Nat : i <= j /\ DueIn(i) => DueIn(j)
      BY <1>2, ProgramFacts DEF AlertInv
    <2>3. /\ run'[r].stage = "alert" /\ RunsAre'
          /\ \A q \in Slots : q # r => run'[q] = run[q]
      BY <2>1, GoEffect DEF AlertInv, AlertTyped
    <2>4. /\ spent \in [Payers -> [0..MaxMonth -> Nat]]
          /\ spent' \in [Payers -> [0..MaxMonth -> Nat]]
          /\ \A q \in Payers, m \in 0..MaxMonth :
               /\ spent[q][m] <= spent'[q][m]
               /\ m # n => spent'[q][m] = spent[q][m]
      <3>1. spent \in [Payers -> [0..MaxMonth -> Nat]]
        BY DEF AlertInv, AlertTyped, BillingTypeOK
      <3> HIDE DEF n, p
      <3>2. spent[p] \in [0..MaxMonth -> Nat] /\ spent[p][n] + setup.cost \in Nat
        <4>1. spent[p] \in [0..MaxMonth -> Nat]
          BY <2>2, <3>1
        <4>2. spent[p][n] \in Nat
          BY <2>2, <4>1
        <4>3. QED BY <2>2, <4>1, <4>2
      <3>3. spent' = [spent EXCEPT ![p] = [spent[p] EXCEPT ![n] = spent[p][n] + setup.cost]]
        BY <2>1
      <3>4. spent' \in [Payers -> [0..MaxMonth -> Nat]]
        BY <3>1, <3>2, <3>3
      <3>5. ASSUME NEW q \in Payers, NEW m \in 0..MaxMonth
            PROVE  /\ spent[q][m] <= spent'[q][m]
                   /\ m # n => spent'[q][m] = spent[q][m]
        <4>1. spent[q][m] \in Nat /\ spent[q] \in [0..MaxMonth -> Nat]
          BY <3>1
        <4>2. CASE q = p
          <5>1. spent'[q] = [spent[q] EXCEPT ![n] = spent[q][n] + setup.cost]
            BY <2>2, <3>1, <3>3, <4>2
          <5>2. QED BY <2>2, <4>1, <5>1
        <4>3. CASE q # p
          BY <3>1, <3>3, <4>1, <4>3
        <4>4. QED BY <4>2, <4>3
      <3>6. QED BY <3>1, <3>4, <3>5
    <2> HIDE DEF n
    <2>5. AlertTyped'
      BY <2>1, <2>3, <2>4 DEF AlertInv, AlertTyped, BillingTypeOK
    <2>6. SeenIsThere'
      <3>1. ASSUME NEW q \in Slots, run'[q].stage \in Checking
            PROVE  /\ setup.payer \in Payers
                   /\ run'[q].stage = "summed" =>
                        /\ run'[q].month \in 0..MaxMonth /\ run'[q].total \in Nat
                        /\ run'[q].total <= spent'[p][run'[q].month]
        <4>1. CASE q = r
          BY <2>2, <2>3, <4>1
        <4>2. CASE q # r /\ run'[q].stage = "summed"
          <5>1. /\ run[q].month \in 0..MaxMonth /\ run[q].total \in Nat
                /\ run[q].total <= spent[p][run[q].month] /\ run'[q] = run[q]
            BY <2>3, <4>2 DEF AlertInv, SeenIsThere
          <5>2. /\ spent[p][run[q].month] \in Nat /\ spent'[p][run[q].month] \in Nat
                /\ spent[p][run[q].month] <= spent'[p][run[q].month]
            BY <2>2, <2>4, <5>1
          <5>3. QED BY <2>2, <5>1, <5>2
        <4>3. QED BY <2>2, <4>1, <4>2
      <3>2. QED BY <2>1, <3>1 DEF SeenIsThere, Checking
    <2>7. FiredOnce'
      <3>1. ASSUME NEW q \in Payers, NEW m \in fired[q] PROVE DueIn(spent'[q][m])
        <4>1. m \in 0..MaxMonth /\ DueIn(spent[q][m])
          BY DEF AlertInv, FiredOnce, AlertTyped, BillingTypeOK
        <4>2. spent[q][m] \in Nat /\ spent'[q][m] \in Nat /\ spent[q][m] <= spent'[q][m]
          BY <2>4, <4>1
        <4>3. QED BY <2>2, <4>1, <4>2
      <3>2. QED BY <2>1, <3>1 DEF AlertInv, FiredOnce, DueIn
    <2>8. NothingAhead'
      BY <2>1, <2>2, <2>4 DEF AlertInv, NothingAhead, n
    <2>9. NoneLost'
      BY <2>3 DEF NoneLost, InHand
    <2>10. QED BY <2>5, <2>6, <2>7, <2>8, <2>9 DEF AlertInv
  <1>3. QED BY <1>1, <1>2

LEMMA SummarizeKeeps ==
  ASSUME AlertInv, NEW r \in Slots, Summarize(r)
  PROVE  AlertInv'
PROOF
  <1> DEFINE p == setup.payer
             n == MonthOf(now)
             rec == [run[r] EXCEPT !.stage = "summed", !.total = Summary(p, now),
                                   !.month = now \div Month]
  <1>1. run[r].stage = "alert" /\ Step(r, rec) /\ UNCHANGED <<setup, now, spent, fired, armed>>
    BY DEF Summarize, At, services, billingVars
  <1>2. IsRun(rec) /\ rec.stage = "summed" /\ rec.total = spent[p][n] /\ rec.month = n
    BY DEF AlertInv, AlertTyped, RunsAre, IsRun, Summary, MonthOf
  <1> HIDE DEF rec
  <1>3. RunsAre' /\ run'[r] = rec /\ \A q \in Slots : q # r => run'[q] = run[q]
    BY <1>1, <1>2, StepEffect DEF AlertInv, AlertTyped
  <1>4. p \in Payers /\ n \in 0..MaxMonth
    BY <1>1, ProgramFacts DEF AlertInv, SeenIsThere, Checking
  <1>5. spent[p][n] \in Nat
    BY <1>4 DEF AlertInv, AlertTyped, BillingTypeOK
  <1>6. AlertTyped'
    BY <1>1, <1>3 DEF AlertInv, AlertTyped, BillingTypeOK
  <1> HIDE DEF n
  <1>7. SeenIsThere'
    BY <1>1, <1>2, <1>3, <1>4, <1>5 DEF AlertInv, SeenIsThere
  <1>8. FiredOnce' /\ NothingAhead'
    BY <1>1 DEF AlertInv, FiredOnce, NothingAhead, DueIn
  <1>9. NoneLost'
    BY <1>1, <1>2, <1>3 DEF NoneLost, InHand, DueIn, n
  <1>10. QED BY <1>6, <1>7, <1>8, <1>9 DEF AlertInv

LEMMA CheckAlertsKeeps ==
  ASSUME AlertInv, NEW r \in Slots, CheckAlerts(r)
  PROVE  AlertInv'
PROOF
  <1> DEFINE p == setup.payer
             n == MonthOf(now)
             seen == run[r].total
             month == run[r].month
  <1>1. /\ run[r].stage = "summed" /\ UNCHANGED <<setup, now, spent>>
        /\ Go(r, "post") \/ Go(r, "finished")
        /\ CheckAlert(p, seen, month, setup.alert, setup.budget)
    BY DEF CheckAlerts, At, AfterSave, CheckAlert
  <1>2. /\ run'[r].stage \notin Checking /\ RunsAre'
        /\ \A q \in Slots : q # r => run'[q] = run[q]
    BY <1>1, GoEffect DEF AlertInv, AlertTyped, Checking
  <1>3. /\ p \in Payers /\ month \in 0..MaxMonth /\ seen \in Nat
        /\ seen <= spent[p][month] /\ spent[p][month] \in Nat
    BY <1>1 DEF AlertInv, SeenIsThere, Checking, AlertTyped, BillingTypeOK
  <1>4. \A i, j \in Nat : i <= j /\ DueIn(i) => DueIn(j)
    BY ProgramFacts DEF AlertInv
  <1>5. NothingAhead'
    BY <1>1 DEF AlertInv, NothingAhead
  <1>6. SeenIsThere'
    BY <1>1, <1>2 DEF AlertInv, SeenIsThere, Checking
  <1>7. CASE p \in armed /\ DueIn(seen)
    <2>1. armed' = armed \ {p} /\ fired' = [fired EXCEPT ![p] = @ \union {month}]
      BY <1>1, <1>7 DEF CheckAlert, DueIn
    <2>2. fired[p] = {} /\ fired \in [Payers -> SUBSET (0..MaxMonth)]
      BY <1>3, <1>7 DEF AlertInv, FiredOnce, AlertTyped, BillingTypeOK
    <2>3. \A q \in Payers : fired'[q] = IF q = p THEN {month} ELSE fired[q]
      BY <2>1, <2>2
    <2>4. AlertTyped'
      BY <1>1, <1>2, <1>3, <2>1, <2>2 DEF AlertInv, AlertTyped, BillingTypeOK
    <2>5. DueIn(spent[p][month])
      BY <1>3, <1>4, <1>7
    <2>6. FiredOnce'
      BY <1>1, <1>3, <2>1, <2>3, <2>5 DEF AlertInv, FiredOnce, DueIn
    <2>7. NoneLost'
      BY <1>1, <2>1 DEF NoneLost
    <2>8. QED BY <1>5, <1>6, <2>4, <2>6, <2>7 DEF AlertInv
  <1>8. CASE ~(p \in armed /\ DueIn(seen))
    <2>1. UNCHANGED <<armed, fired>>
      BY <1>1, <1>8 DEF CheckAlert, DueIn
    <2>2. AlertTyped' /\ FiredOnce'
      BY <1>1, <1>2, <2>1 DEF AlertInv, AlertTyped, BillingTypeOK, FiredOnce, DueIn
    <2>3. p \in armed => \A q \in Slots : InHand(q) => q # r
      BY <1>1, <1>8 DEF InHand
    <2>4. \A q \in Slots : InHand(q) /\ q # r => InHand(q)'
      BY <1>1, <1>2 DEF InHand, DueIn
    <2>5. NoneLost'
      BY <1>1, <2>1, <2>3, <2>4 DEF AlertInv, NoneLost, DueIn
    <2>6. QED BY <1>5, <1>6, <2>2, <2>5 DEF AlertInv
  <1>9. QED BY <1>7, <1>8

(* In a new month nothing is spent yet.                                    *)
LEMMA AlertPassTimeKeeps ==
  ASSUME AlertInv, PassTime
  PROVE  AlertInv'
PROOF
  <1>1. /\ now < setup.maxTime /\ now' = now + 1
        /\ UNCHANGED <<setup, run, spent, fired, armed>>
    BY DEF PassTime, services, billingVars
  <1>2. now \in Nat /\ setup.maxTime \in Nat
    BY SpendingAssumption DEF AlertInv, AlertTyped
  <1>3. now' \in Nat /\ now' <= setup'.maxTime
    BY <1>1, <1>2
  <1>4. AlertTyped'
    BY <1>1, <1>3 DEF AlertInv, AlertTyped, RunsAre, IsRun, BillingTypeOK
  <1>5. /\ MonthOf(now) \in Nat /\ MonthOf(now') \in Nat /\ MonthOf(now) <= MonthOf(now')
        /\ MonthOf(now') \in 0..MaxMonth
    <2>1. MonthOf(now') \in 0..MaxMonth
      BY <1>1, <1>2, <1>3, MonthsApart, MonthAssumption, SpendingAssumption
         DEF AlertInv, AlertTyped, MonthOf
    <2>2. now <= now'
      BY <1>1, <1>2
    <2>3. QED BY <1>2, <1>3, <2>1, <2>2, MonthsApart
  <1>6. SeenIsThere' /\ FiredOnce'
    BY <1>1 DEF AlertInv, SeenIsThere, FiredOnce, DueIn
  <1>7. NothingAhead'
    <2>1. ASSUME NEW p \in Payers, NEW m \in 0..MaxMonth, m > MonthOf(now')
          PROVE  spent'[p][m] = 0
      <3>1. m > MonthOf(now)
        BY <1>5, <2>1
      <3>2. QED BY <1>1, <3>1 DEF AlertInv, NothingAhead
    <2>2. QED BY <2>1 DEF NothingAhead, MonthOf
  <1>8. NoneLost'
    <2>1. CASE MonthOf(now') = MonthOf(now)
      BY <1>1, <2>1 DEF AlertInv, NoneLost, InHand, DueIn, MonthOf
    <2>2. CASE MonthOf(now') > MonthOf(now)
      <3>1. ASSUME setup.payer \in armed PROVE ~DueIn(spent[setup.payer][MonthOf(now')])
        <4>1. setup.payer \in Payers
          BY <3>1 DEF AlertInv, AlertTyped, BillingTypeOK
        <4>2. spent[setup.payer][MonthOf(now')] = 0
          BY <1>5, <2>2, <4>1 DEF AlertInv, NothingAhead
        <4>3. QED BY <4>2, ProgramFacts DEF AlertInv
      <3>2. QED BY <1>1, <3>1 DEF NoneLost, DueIn, MonthOf
    <2>3. QED BY <1>5, <2>1, <2>2
  <1>9. QED BY <1>4, <1>6, <1>7, <1>8 DEF AlertInv

(***************************************************************************)
(* The other steps.                                                        *)
(***************************************************************************)
(* A run on the way to its record, or after its check.                     *)
AlertRunOnly(r) ==
  \/ Enter(r) \/ LoadSession(r) \/ Answer(r) \/ Fail(r) \/ ReadExisting(r)
  \/ OpenTemp(r) \/ WriteTemp(r) \/ RenameTemp(r)
  \/ CountRun(r) \/ Finish(r) \/ Begin(r)

LEMMA AlertRunOnlyKeeps ==
  ASSUME AlertInv, NEW r \in Slots, AlertRunOnly(r)
  PROVE  AlertInv'
PROOF
  <1> USE DEF At, AlertKept, services, Checking
  <1>0. IsRun(run[r])
    BY DEF AlertInv, AlertTyped, RunsAre
  <1>1. CASE Enter(r)
    <2> DEFINE rec == [run[r] EXCEPT !.stage = "finished", !.ok = FALSE]
    <2>1. AlertKept /\ run[r].stage \notin Checking
      BY <1>1 DEF Enter
    <2>2. Go(r, "loading") \/ Go(r, "asked") \/ Step(r, rec)
      BY <1>1 DEF Enter, Entered
    <2>3. IsRun(rec) /\ rec.stage \notin Checking
      BY <1>0 DEF IsRun
    <2> HIDE DEF rec
    <2>4. QED BY <2>1, <2>2, <2>3, AlertQuietGo, AlertQuietStep
  <1>2. CASE LoadSession(r)
    <2> DEFINE rec == [run[r] EXCEPT !.stage = "asked", !.turns = Load(run[r].session).turns]
    <2>1. AlertKept /\ run[r].stage \notin Checking /\ Step(r, rec)
      BY <1>2 DEF LoadSession
    <2>2. IsRun(rec) /\ rec.stage \notin Checking
      BY <1>0 DEF IsRun
    <2> HIDE DEF rec
    <2>3. QED BY <2>1, <2>2, AlertQuietStep
  <1>3. CASE Answer(r)
    <2> DEFINE rec == [run[r] EXCEPT !.stage = AfterAnswer(run[r]), !.turns = Append(@, r)]
    <2>1. AlertKept /\ run[r].stage \notin Checking /\ Step(r, rec)
      BY <1>3 DEF Answer
    <2>2. IsRun(rec) /\ rec.stage \notin Checking
      BY <1>0 DEF IsRun, AfterAnswer
    <2> HIDE DEF rec
    <2>3. QED BY <2>1, <2>2, AlertQuietStep
  <1>4. CASE Fail(r)
    <2> DEFINE rec == [run[r] EXCEPT !.stage = "finished", !.ok = FALSE]
    <2>1. AlertKept /\ run[r].stage \notin Checking /\ Step(r, rec)
      BY <1>4 DEF Fail
    <2>2. IsRun(rec) /\ rec.stage \notin Checking
      BY <1>0 DEF IsRun
    <2> HIDE DEF rec
    <2>3. QED BY <2>1, <2>2, AlertQuietStep
  <1>5. CASE ReadExisting(r)
    <2> DEFINE rec == [run[r] EXCEPT !.stage = "opening", !.count = ExistingCount(run[r].session)]
    <2>1. AlertKept /\ run[r].stage \notin Checking /\ Step(r, rec)
      BY <1>5 DEF ReadExisting
    <2>2. IsRun(rec) /\ rec.stage \notin Checking
      BY <1>0 DEF IsRun
    <2> HIDE DEF rec
    <2>3. QED BY <2>1, <2>2, AlertQuietStep
  <1>6. CASE OpenTemp(r) \/ WriteTemp(r) \/ RenameTemp(r)
    <2>1. AlertKept /\ run[r].stage \notin Checking
      BY <1>6 DEF OpenTemp, WriteTemp, RenameTemp
    <2>2. Go(r, "writing") \/ Go(r, "renaming") \/ Go(r, "ended")
      BY <1>6 DEF OpenTemp, WriteTemp, RenameTemp
    <2>3. QED BY <2>1, <2>2, AlertQuietGo
  <1>7. CASE CountRun(r)
    <2>1. AlertKept /\ run[r].stage \notin Checking /\ Go(r, "finished")
      BY <1>7 DEF CountRun
    <2>2. QED BY <2>1, AlertQuietGo
  <1>8. CASE Finish(r)
    <2> DEFINE again == [Started(run[r].who) EXCEPT !.session = run[r].session,
                                                    !.left = run[r].left - 1]
    <2>1. AlertKept /\ run[r].stage \notin Checking /\ (Step(r, Free) \/ Step(r, again))
      BY <1>8 DEF Finish
    <2>2. /\ IsRun(Free) /\ Free.stage \notin Checking
          /\ IsRun(again) /\ again.stage \notin Checking
      BY FreshRun DEF IsRun
    <2> HIDE DEF again
    <2>3. QED BY <2>1, <2>2, AlertQuietStep
  <1>9. CASE Begin(r)
    <2>1. AlertKept /\ run[r].stage \notin Checking /\ Go(r, "hook")
      BY <1>9 DEF Begin
    <2>2. QED BY <2>1, AlertQuietGo
  <1>10. QED
    BY <1>1, <1>2, <1>3, <1>4, <1>5, <1>6, <1>7, <1>8, <1>9 DEF AlertRunOnly

LEMMA AlertStartKeeps ==
  ASSUME AlertInv, NEW r \in Slots,
         Route(r) \/ \E t \in setup.callers : Call(r, t)
  PROVE  AlertInv'
PROOF
  <1> USE DEF At, AlertKept, Checking
  <1>1. CASE Route(r)
    <2>1. AlertKept /\ run[r].stage \notin Checking /\ Step(r, Started("bus"))
      BY <1>1 DEF Route
    <2>2. IsRun(Started("bus")) /\ Started("bus").stage \notin Checking
      BY FreshRun
    <2>3. QED BY <2>1, <2>2, AlertQuietStep
  <1>2. ASSUME NEW t \in setup.callers, Call(r, t)
        PROVE  AlertInv'
    <2> DEFINE rec == [Started("caller") EXCEPT !.tenant = t, !.session = setup.session]
    <2>1. AlertKept /\ run[r].stage \notin Checking /\ Step(r, rec)
      BY <1>2 DEF Call, services
    <2>2. IsRun(rec) /\ rec.stage \notin Checking
      BY FreshRun DEF IsRun
    <2> HIDE DEF rec
    <2>3. QED BY <2>1, <2>2, AlertQuietStep
  <1>3. QED BY <1>1, <1>2

LEMMA AlertTickKeeps ==
  ASSUME AlertInv, Tick
  PROVE  AlertInv'
PROOF
  <1>1. AlertKept
    BY DEF Tick, AlertKept, services
  <1>2. RunsAre' /\ \A r \in Slots : AlertQuietAt(r)
    BY TickEffect DEF AlertInv, AlertTyped, AlertQuietAt, Checking
  <1>3. QED BY SMTT(40), <1>1, <1>2, AlertQuietKeeps

AlertElsewhere ==
  \/ Publishing \/ Stop \/ Cleanup
  \/ \E t : RegisterTenant(t)
  \/ \E s \in Sessions : Expire(s)

LEMMA AlertStillKeeps ==
  ASSUME AlertInv, AlertKept, UNCHANGED run
  PROVE  AlertInv'
PROOF
  <1>1. RunsAre' /\ \A r \in Slots : AlertQuietAt(r)
    BY DEF AlertInv, AlertTyped, RunsAre, IsRun, AlertQuietAt
  <1>2. QED BY <1>1, AlertQuietKeeps

LEMMA AlertElsewhereKeeps ==
  ASSUME AlertInv, AlertElsewhere
  PROVE  AlertInv'
PROOF
  <1>1. AlertKept /\ UNCHANGED run
    BY DEF AlertElsewhere, Publishing, Stop, RegisterTenant, Expire, Cleanup, AlertKept, services
  <1>2. QED BY <1>1, AlertStillKeeps

(* At the start, and when the process has died, nothing is recorded.       *)
AlertAfresh ==
  /\ run = [r \in Slots |-> Free] /\ spent = NoCosts /\ fired = NoAlerts /\ armed = Payers
  /\ setup \in Setups /\ now \in Nat /\ now <= setup.maxTime

LEMMA AlertFreshIs == AlertAfresh => AlertInv
PROOF
  <1> SUFFICES ASSUME AlertAfresh PROVE AlertInv
    OBVIOUS
  <1> USE DEF AlertAfresh
  <1>1. RunsAre /\ \A r \in Slots : run[r].stage = "free"
    BY FreshRun DEF RunsAre
  <1>2. BillingTypeOK
    BY DEF BillingTypeOK, NoCosts, NoAlerts
  <1>3. AlertTyped
    BY <1>1, <1>2 DEF AlertTyped
  <1>4. SeenIsThere
    BY <1>1 DEF SeenIsThere, Checking
  <1>5. FiredOnce
    BY DEF FiredOnce, NoAlerts
  <1>6. NothingAhead
    BY DEF NothingAhead, NoCosts
  <1>7. NoneLost
    <2>1. MonthOf(now) \in 0..MaxMonth /\ ~DueIn(0)
      BY <1>3, ProgramFacts
    <2>2. setup.payer \in armed => spent[setup.payer][MonthOf(now)] = 0
      BY <2>1 DEF NoCosts
    <2>3. QED BY <2>1, <2>2 DEF NoneLost
  <1>8. QED BY <1>3, <1>4, <1>5, <1>6, <1>7 DEF AlertInv

LEMMA InitAlerts == Init => AlertInv
PROOF
  <1>1. Init => AlertAfresh
    BY SpendingAssumption DEF Init, BillingInit, AlertAfresh
  <1>2. QED BY <1>1, AlertFreshIs

LEMMA AlertCrashKeeps == AlertInv /\ Crash => AlertInv'
PROOF
  <1>1. AlertInv /\ Crash => AlertAfresh'
    BY DEF Crash, AlertAfresh, AlertInv, AlertTyped
  <1>2. QED BY <1>1, AlertFreshIs, PTL

LEMMA NextAlerts == AlertInv /\ [Next]_vars => AlertInv'
PROOF
  <1> SUFFICES ASSUME AlertInv, [Next]_vars PROVE AlertInv'
    OBVIOUS
  <1>1. ASSUME NEW r \in Slots, RunStep(r) \/ Route(r)
        PROVE  AlertInv'
    BY <1>1, AlertRunOnlyKeeps, RecordKeeps, SummarizeKeeps, CheckAlertsKeeps, AlertStartKeeps
       DEF RunStep, AlertRunOnly
  <1>2. CASE Environment
    BY <1>2, AlertStartKeeps, AlertElsewhereKeeps, AlertPassTimeKeeps, AlertCrashKeeps DEF Environment, AlertElsewhere
  <1>3. CASE UNCHANGED vars
    <2>1. AlertKept /\ UNCHANGED run
      BY <1>3 DEF vars, AlertKept
    <2>2. QED BY <2>1, AlertStillKeeps
  <1>4. QED BY <1>1, <1>2, <1>3, AlertTickKeeps, AlertElsewhereKeeps DEF Next, AlertElsewhere

(* An alert fires once, in a month whose costs reach it, and one that is   *)
(* due has fired or is in the hands of a run that is about to check it,    *)
(* whatever the runs, prices and months (tracker.go:91-119).               *)
THEOREM AlertsAreTracked == Spec => []AlertsTrackSpending
PROOF
  <1>1. AlertInv => AlertsTrackSpending
    <2> SUFFICES ASSUME AlertInv, NEW p \in Payers
                 PROVE  /\ Cardinality(fired[p]) <= 1
                        /\ \A m \in fired[p] : DueIn(spent[p][m])
                        /\ \A m \in 0..MaxMonth :
                             DueIn(spent[p][m]) /\ m = MonthOf(now) =>
                               \/ fired[p] # {}
                               \/ p # setup.payer
                               \/ \E r \in Slots : run[r].stage \in {"alert", "summed"}
      BY DEF AlertsTrackSpending, DueIn, MonthOf
    <2>1. fired[p] = {} \/ \E m : fired[p] = {m}
      BY DEF AlertInv, FiredOnce
    <2>2. Cardinality(fired[p]) <= 1
      <3>1. CASE fired[p] = {}
        <4>1. Cardinality(fired[p]) = 0
          BY <3>1, FS_EmptySet
        <4>2. QED BY <4>1
      <3>2. CASE \E m : fired[p] = {m}
        <4>1. PICK m : fired[p] = {m}
          BY <3>2
        <4>2. Cardinality({m}) = 1
          BY FS_Singleton
        <4>3. QED BY <4>1, <4>2
      <3>3. QED BY <2>1, <3>1, <3>2
    <2>3. \A m \in fired[p] : DueIn(spent[p][m])
      BY DEF AlertInv, FiredOnce
    <2>4. ASSUME DueIn(spent[p][MonthOf(now)]), fired[p] = {}, p = setup.payer
          PROVE  \E r \in Slots : run[r].stage \in {"alert", "summed"}
      <3>1. p \in armed
        BY <2>4 DEF AlertInv, FiredOnce
      <3>2. QED BY <2>4, <3>1 DEF AlertInv, NoneLost, InHand
    <2>5. QED BY <2>2, <2>3, <2>4
  <1>2. QED BY InitAlerts, NextAlerts, <1>1, PTL DEF Spec

-----------------------------------------------------------------------------
(***************************************************************************)
(* Types.                                                                  *)
(***************************************************************************)
Whos == Jobs \union {Nobody, "caller", "bus"}
Runs ==
  [stage : RunStages, who : Whos, tenant : Tenants \union {Nobody},
   session : Sessions \union {Nobody}, turns : Seq(Slots), count : Nat,
   total : Nat, month : Nat, left : Nat, ok : BOOLEAN]

(* A run that has yet to begin is that of a registered job, and one that   *)
(* loads a session has one.                                                *)
Proper(rec) ==
  /\ rec \in Runs
  /\ rec.stage = "due" => rec.who \in DOMAIN setup.jobs
  /\ rec.stage = "loading" => HasSession(rec)

RunsTyped == run \in [Slots -> Runs] /\ \A r \in Slots : Proper(run[r])

JobsTyped == CronTypeOK /\ \A j \in Jobs \ DOMAIN setup.jobs : job[j].next = Never

CallsTyped == calls \in 0..setup.maxCalls /\ contended \subseteq Sessions

ServicesInv ==
  FilesTypeOK /\ JobsTyped /\ BusTypeOK(setup.capacity) /\ CallsTyped /\ RunsTyped

(* What the other invariants say.                                          *)
Established == QuotaInv /\ FilesInv /\ AlertInv

LEMMA ProgramIs ==
  ASSUME Established
  PROVE  /\ setup \in Setups /\ now \in Nat
         /\ setup.callers \subseteq Tenants \union {Nobody}
         /\ setup.session \in Sessions \union {Nobody}
         /\ DOMAIN setup.jobs \subseteq Jobs
         /\ \A j \in DOMAIN setup.jobs :
              /\ setup.jobs[j].interval \in Nat /\ setup.jobs[j].times \subseteq Nat
              /\ setup.jobs[j].session \in Sessions \union {Nobody}
              /\ setup.jobs[j].retries \in Nat
         /\ setup.subs \in Seq(Agents) /\ setup.capacity \in Nat /\ setup.maxCalls \in Nat
PROOF BY ProgramsAssumption DEF Established, QuotaInv, QuotaTyped

(***************************************************************************)
(* The jobs.                                                               *)
(***************************************************************************)
(* The next time of a job is one, or there is none.                        *)
LEMMA NextIsTime ==
  ASSUME NEW spec, spec.interval \in Nat, spec.times \subseteq Nat, NEW n \in Nat
  PROVE  ComputeNext(spec, n) \in Nat
PROOF
  <1>1. CASE spec.interval > 0
    BY <1>1 DEF ComputeNext
  <1>2. CASE ~(spec.interval > 0) /\ \E t \in spec.times : t > n
    <2> DEFINE T == {t \in spec.times : t > n}
    <2>1. T \subseteq Nat /\ T # {}
      BY <1>2
    <2> HIDE DEF T
    <2>2. \E t \in T : \A u \in T : t <= u
      BY <2>1, LeastNatural
    <2>3. \E t \in spec.times : t > n /\ \A u \in spec.times : u > n => t <= u
      BY <2>2 DEF T
    <2> DEFINE Is(t) == t > n /\ \A u \in spec.times : u > n => t <= u
    <2>4. (CHOOSE t \in spec.times : Is(t)) \in spec.times
      BY <2>3
    <2>5. ComputeNext(spec, n) = CHOOSE t \in spec.times : Is(t)
      BY <1>2 DEF ComputeNext
    <2> HIDE DEF Is
    <2>6. QED BY <2>4, <2>5
  <1>3. CASE ~(spec.interval > 0) /\ ~\E t \in spec.times : t > n
    BY <1>3 DEF ComputeNext, Never
  <1>4. QED BY <1>1, <1>2, <1>3

LEMMA RegisteredTyped ==
  ASSUME NEW specs, NEW n \in Nat,
         \A j \in DOMAIN specs : specs[j].interval \in Nat /\ specs[j].times \subseteq Nat
  PROVE  /\ Registered(specs, n) \in [Jobs -> [next : Nat, failed : BOOLEAN]]
         /\ \A j \in Jobs \ DOMAIN specs : Registered(specs, n)[j].next = Never
PROOF
  <1>1. \A j \in DOMAIN specs : ComputeNext(specs[j], n) \in Nat
    BY NextIsTime
  <1>2. QED BY <1>1 DEF Registered, Never

LEMMA JobsKept ==
  ASSUME JobsTyped, UNCHANGED <<setup, cronVars>>
  PROVE  JobsTyped'
PROOF BY DEF JobsTyped, CronTypeOK, cronVars

LEMMA BeginTyped ==
  ASSUME Established, JobsTyped, RunsTyped, NEW r \in Slots, Begin(r)
  PROVE  JobsTyped'
PROOF
  <1> DEFINE j == run[r].who
             next == ComputeNext(setup.jobs[j], now)
  <1>1. /\ run[r].stage = "due" /\ job' = [job EXCEPT ![j].next = next]
        /\ UNCHANGED <<setup, scheduler>>
    BY DEF Begin, At, BeginJob
  <1>2. j \in DOMAIN setup.jobs
    BY <1>1 DEF RunsTyped, Proper
  <1>3. next \in Nat
    BY <1>2, ProgramIs, NextIsTime
  <1> HIDE DEF j, next
  <1>4. job \in [Jobs -> [next : Nat, failed : BOOLEAN]]
    BY DEF JobsTyped, CronTypeOK
  <1>5. job' \in [Jobs -> [next : Nat, failed : BOOLEAN]]
    BY <1>1, <1>3, <1>4
  <1>6. \A k \in Jobs \ DOMAIN setup.jobs : job'[k] = job[k]
    BY <1>1, <1>2, <1>4
  <1>7. QED BY <1>1, <1>5, <1>6 DEF JobsTyped, CronTypeOK

LEMMA FinishTyped ==
  ASSUME JobsTyped, RunsTyped, NEW r \in Slots, Finish(r)
  PROVE  JobsTyped'
PROOF
  <1> DEFINE j == run[r].who
             ok == run[r].ok
  <1>1. UNCHANGED <<setup, scheduler>> /\ (UNCHANGED job \/ job' = [job EXCEPT ![j].failed = ~ok])
    BY DEF Finish, FinishJob
  <1>2. job \in [Jobs -> [next : Nat, failed : BOOLEAN]] /\ (~ok) \in BOOLEAN
    BY DEF JobsTyped, CronTypeOK
  <1> HIDE DEF j, ok
  <1>3. /\ job' \in [Jobs -> [next : Nat, failed : BOOLEAN]]
        /\ \A k \in Jobs : job'[k].next = job[k].next
    <2>1. CASE UNCHANGED job
      BY <1>2, <2>1
    <2>2. CASE job' = [job EXCEPT ![j].failed = ~ok]
      <3>1. job' = [job EXCEPT ![j] = [job[j] EXCEPT !.failed = ~ok]]
        BY <2>2
      <3>2. j \in Jobs => [job[j] EXCEPT !.failed = ~ok] \in [next : Nat, failed : BOOLEAN]
                          /\ [job[j] EXCEPT !.failed = ~ok].next = job[j].next
        BY <1>2
      <3>3. QED BY <1>2, <3>1, <3>2
    <2>3. QED BY <1>1, <2>1, <2>2
  <1>4. QED BY <1>1, <1>3 DEF JobsTyped, CronTypeOK

(***************************************************************************)
(* The bus.                                                                *)
(***************************************************************************)
LEMMA RemovedFirst ==
  ASSUME NEW S, NEW s \in Seq(S), NEW e
  PROVE  RemoveFirst(s, e) \in Seq(S)
PROOF
  <1> DEFINE I == {i \in 1..Len(s) : s[i] = e}
  <1>1. CASE \E i \in 1..Len(s) : s[i] = e
    <2>1. I \in SUBSET (1..Len(s)) /\ I # {} /\ Len(s) \in Nat
      BY <1>1
    <2>2. RemoveFirst(s, e) = SubSeq(s, 1, Min(I) - 1) \o SubSeq(s, Min(I) + 1, Len(s))
      BY <1>1, <2>1 DEF RemoveFirst, RemoveAt, SelectInSeq
    <2> HIDE DEF I
    <2>3. Min(I) \in I
      BY <2>1, MinUpTo
    <2>4. Min(I) \in 1..Len(s)
      BY <2>1, <2>3
    <2>5. SubSeq(s, 1, Min(I) - 1) \in Seq(S) /\ SubSeq(s, Min(I) + 1, Len(s)) \in Seq(S)
      BY <2>4
    <2>6. QED BY <2>2, <2>5
  <1>2. CASE ~\E i \in 1..Len(s) : s[i] = e
    BY <1>2 DEF RemoveFirst
  <1>3. QED BY <1>1, <1>2

LEMMA Dropped ==
  ASSUME NEW S, NEW s \in Seq(S), s # <<>>
  PROVE  Head(s) \in S /\ Tail(s) \in Seq(S) /\ Len(Tail(s)) <= Len(s)
PROOF OBVIOUS

LEMMA BusKept ==
  ASSUME BusTypeOK(setup.capacity), UNCHANGED <<setup, busVars>>
  PROVE  BusTypeOK(setup.capacity)'
PROOF BY DEF BusTypeOK, busVars

LEMMA PublishingTyped ==
  ASSUME Established, BusTypeOK(setup.capacity), Publishing
  PROVE  BusTypeOK(setup.capacity)'
PROOF
  <1>0. UNCHANGED setup /\ setup.capacity \in Nat
    BY ProgramIs DEF Publishing
  <1>1. CASE Publish
    BY <1>0, <1>1 DEF Publish, BusTypeOK
  <1>2. CASE Send(setup.capacity)
    <2>1. /\ publisher # <<>> /\ publisher \in Seq(Agents) /\ envelopes \in Seq(Agents)
          /\ Len(envelopes) < setup.capacity /\ UNCHANGED <<subs, bus>>
          /\ envelopes' = Append(envelopes, Head(publisher)) /\ publisher' = Tail(publisher)
      BY <1>2 DEF Send, HasRoom, BusTypeOK
    <2>2. Head(publisher) \in Agents /\ Tail(publisher) \in Seq(Agents)
      BY <2>1, Dropped
    <2>3. /\ Append(envelopes, Head(publisher)) \in Seq(Agents)
          /\ Len(Append(envelopes, Head(publisher))) = Len(envelopes) + 1
      BY <2>1, <2>2, AppendedIs
    <2>4. Len(envelopes') <= setup.capacity
      BY <1>0, <2>1, <2>3
    <2>5. QED BY <1>0, <2>1, <2>2, <2>3, <2>4 DEF BusTypeOK
  <1>3. QED BY <1>1, <1>2 DEF Publishing

LEMMA RouteTyped ==
  ASSUME Established, BusTypeOK(setup.capacity), NEW r \in Slots, Route(r)
  PROVE  BusTypeOK(setup.capacity)'
PROOF
  <1>1. /\ envelopes # <<>> /\ envelopes \in Seq(Agents) /\ Len(envelopes) <= setup.capacity
        /\ envelopes' = Tail(envelopes) /\ UNCHANGED <<setup, subs, publisher, bus>>
    BY DEF Route, Deliver, BusTypeOK
  <1>2. Tail(envelopes) \in Seq(Agents) /\ Len(Tail(envelopes)) <= Len(envelopes)
    BY <1>1, Dropped
  <1>3. Len(envelopes) \in Nat /\ Len(Tail(envelopes)) \in Nat /\ setup.capacity \in Nat
    BY <1>1, <1>2, ProgramIs
  <1>4. Len(envelopes') <= setup.capacity
    BY <1>1, <1>2, <1>3
  <1>5. QED BY <1>1, <1>2, <1>4 DEF BusTypeOK

LEMMA ChangeBusTyped ==
  ASSUME BusTypeOK(setup.capacity), ChangeBus, UNCHANGED setup
  PROVE  BusTypeOK(setup.capacity)'
PROOF
  <1>0. subs \in Seq(Agents)
    BY DEF BusTypeOK
  <1>1. CASE StopBus
    BY <1>1 DEF StopBus, BusTypeOK
  <1>2. CASE GiveUpPublishing
    BY <1>2 DEF GiveUpPublishing, BusTypeOK
  <1>3. ASSUME NEW a \in Agents, Unsubscribe(a)
        PROVE  BusTypeOK(setup.capacity)'
    <2>1. RemoveFirst(subs, a) \in Seq(Agents)
      BY <1>0, RemovedFirst
    <2>2. QED BY <1>3, <2>1 DEF Unsubscribe, BusTypeOK
  <1>4. ASSUME NEW a \in Agents, Subscribe(a)
        PROVE  BusTypeOK(setup.capacity)'
    <2>1. Append(subs, a) \in Seq(Agents)
      BY <1>0, AppendedIs
    <2>2. QED BY <1>4, <2>1 DEF Subscribe, BusTypeOK
  <1>5. QED BY <1>1, <1>2, <1>3, <1>4 DEF ChangeBus

(***************************************************************************)
(* The files.                                                              *)
(***************************************************************************)
Descriptors == [name : {"closed", "temp", "named", "gone"}, session : Sessions \union {Nobody}]

LEMMA FilesAsSets ==
  FilesTypeOK <=>
    /\ named \in [Sessions -> Contents] /\ temp \in [Sessions -> Contents]
    /\ fd \in [Slots -> Descriptors]
    /\ stale \subseteq Sessions /\ condemned \in Sessions \union {Nobody}
PROOF BY DEF FilesTypeOK, Descriptors

LEMMA Marks ==
  /\ Missing \in Contents /\ Empty \in Contents /\ Torn \in Contents
  /\ \A s \in Seq(Slots), n \in Nat : Data(s, n) \in Contents
PROOF
  <1>1. <<>> \in Seq(Slots)
    OBVIOUS
  <1>2. QED BY <1>1 DEF Missing, Empty, Torn, Mark, Data, Contents

LEMMA NamedFd ==
  ASSUME NEW d \in Descriptors, NEW name \in {"closed", "temp", "named", "gone"}
  PROVE  [d EXCEPT !.name = name] \in Descriptors
PROOF BY DEF Descriptors

LEMMA UnlinkedTyped ==
  ASSUME FilesTypeOK, NEW s
  PROVE  Unlinked(s) \in [Slots -> Descriptors]
PROOF
  <1>1. \A r \in Slots : fd[r] \in Descriptors /\ [fd[r] EXCEPT !.name = "gone"] \in Descriptors
    BY FilesAsSets, NamedFd
  <1>2. QED BY <1>1 DEF Unlinked

LEMMA FilesKept ==
  ASSUME FilesTypeOK, UNCHANGED fileVars
  PROVE  FilesTypeOK'
PROOF BY DEF FilesTypeOK, fileVars

LEMMA SaveTyped ==
  ASSUME FilesTypeOK, RunsTyped, NEW r \in Slots,
         OpenTemp(r) \/ WriteTemp(r) \/ RenameTemp(r)
  PROVE  FilesTypeOK'
PROOF
  <1> DEFINE s == run[r].session
             closed == [fd EXCEPT ![r].name = "closed"]
  <1>0. /\ named \in [Sessions -> Contents] /\ temp \in [Sessions -> Contents]
        /\ fd \in [Slots -> Descriptors]
        /\ stale \subseteq Sessions /\ condemned \in Sessions \union {Nobody}
    BY FilesAsSets
  <1>1. /\ s \in Sessions \union {Nobody}
        /\ run[r].turns \in Seq(Slots) /\ run[r].count + 1 \in Nat
    BY DEF RunsTyped, Proper, Runs
  <1>2. closed \in [Slots -> Descriptors]
    <2>1. fd[r] \in Descriptors
      BY <1>0
    <2>2. [fd[r] EXCEPT !.name = "closed"] \in Descriptors
      BY <2>1, NamedFd
    <2>3. closed = [fd EXCEPT ![r] = [fd[r] EXCEPT !.name = "closed"]]
      OBVIOUS
    <2>4. QED BY <1>0, <2>2, <2>3
  <1>3. CASE OpenTemp(r)
    <2>1. /\ temp' = [temp EXCEPT ![s] = Empty]
          /\ fd' = [fd EXCEPT ![r] = [name |-> "temp", session |-> s]]
          /\ UNCHANGED <<named, stale, condemned>>
      BY <1>3 DEF OpenTemp, Open
    <2>2. [name |-> "temp", session |-> s] \in Descriptors
      BY <1>1 DEF Descriptors
    <2> HIDE DEF s
    <2>3. temp' \in [Sessions -> Contents] /\ fd' \in [Slots -> Descriptors]
      BY <1>0, <2>1, <2>2, Marks
    <2>4. QED BY <1>0, <2>1, <2>3 DEF FilesTypeOK, Descriptors
  <1>4. CASE WriteTemp(r)
    <2> DEFINE data == Data(run[r].turns, run[r].count + 1)
               t == fd[r].session
    <2>1. /\ fd' = closed /\ UNCHANGED <<stale, condemned>>
          /\ \/ \E c \in Over(temp[t], data) : temp' = [temp EXCEPT ![t] = c] /\ UNCHANGED named
             \/ \E c \in Over(named[t], data) : named' = [named EXCEPT ![t] = c] /\ UNCHANGED temp
             \/ UNCHANGED <<named, temp>>
      BY <1>4 DEF WriteTemp, Write, WriteFails
    <2>2. data \in Contents
      BY <1>1, Marks
    <2> HIDE DEF data, t, closed
    <2>3. \A old : Over(old, data) \subseteq Contents
      BY <2>2, Marks DEF Over
    <2>4. named' \in [Sessions -> Contents] /\ temp' \in [Sessions -> Contents]
      BY <1>0, <2>1, <2>3
    <2>5. QED BY <1>0, <1>2, <2>1, <2>4 DEF FilesTypeOK, Descriptors
  <1>5. CASE RenameTemp(r)
    <2>1. Rename(s)
      BY <1>5 DEF RenameTemp
    <2> HIDE DEF s
    <2>2. CASE temp[s] = Missing
      BY <2>1, <2>2 DEF Rename, FilesTypeOK
    <2>3. CASE temp[s] # Missing
      <3>1. /\ named' = [named EXCEPT ![s] = temp[s]] /\ temp' = [temp EXCEPT ![s] = Missing]
            /\ fd' = [q \in Slots |->
                       IF fd[q] = [name |-> "temp", session |-> s]
                       THEN [fd[q] EXCEPT !.name = "named"] ELSE Unlinked(s)[q]]
            /\ stale' = stale \ {s} /\ UNCHANGED condemned
        BY <2>1, <2>3 DEF Rename
      <3>2. \A q \in Slots : [fd[q] EXCEPT !.name = "named"] \in Descriptors
        BY <1>0, NamedFd
      <3>3. Unlinked(s) \in [Slots -> Descriptors]
        BY UnlinkedTyped
      <3>4. fd' \in [Slots -> Descriptors]
        BY <3>1, <3>2, <3>3
      <3>5. s \in Sessions => temp[s] \in Contents
        BY <1>0
      <3>6. named' \in [Sessions -> Contents] /\ temp' \in [Sessions -> Contents]
        BY <1>0, <3>1, <3>5, Marks
      <3>7. QED BY <1>0, <3>1, <3>4, <3>6 DEF FilesTypeOK, Descriptors
    <2>4. QED BY <2>2, <2>3
  <1>6. QED BY <1>3, <1>4, <1>5

LEMMA ExpiryTyped ==
  ASSUME FilesTypeOK, Cleanup \/ \E s \in Sessions : Expire(s)
  PROVE  FilesTypeOK'
PROOF
  <1>1. CASE Cleanup
    <2>1. /\ named' = [named EXCEPT ![condemned] = Missing] /\ fd' = Unlinked(condemned)
          /\ stale' = stale \ {condemned} /\ condemned' = Nobody /\ UNCHANGED temp
      BY <1>1 DEF Cleanup, RemoveExpired
    <2>2. fd' \in [Slots -> Descriptors]
      BY <2>1, UnlinkedTyped
    <2>3. named' \in [Sessions -> Contents]
      BY <2>1, Marks DEF FilesTypeOK
    <2>4. QED BY <2>1, <2>2, <2>3 DEF FilesTypeOK, Descriptors
  <1>2. ASSUME NEW s \in Sessions, Expire(s)
        PROVE  FilesTypeOK'
    BY <1>2 DEF Expire, GrowOld, Condemn, FilesTypeOK
  <1>3. QED BY <1>1, <1>2

LEMMA DeathTyped ==
  ASSUME FilesTypeOK, FilesCrash
  PROVE  FilesTypeOK'
PROOF BY DEF FilesTypeOK, FilesCrash

(***************************************************************************)
(* The runs.                                                               *)
(***************************************************************************)
LEMMA StepTyped ==
  ASSUME RunsTyped, NEW r \in Slots, NEW rec, Step(r, rec), Proper(rec), UNCHANGED setup
  PROVE  RunsTyped'
PROOF
  <1>1. run' \in [Slots -> Runs] /\ \A q \in Slots : run'[q] = IF q = r THEN rec ELSE run[q]
    BY DEF RunsTyped, Proper, Step
  <1>2. ASSUME NEW q \in Slots PROVE Proper(run[q])'
    <2>1. CASE q = r
      BY <1>1, <2>1 DEF Proper, HasSession
    <2>2. CASE q # r
      BY <1>1, <2>2 DEF RunsTyped, Proper, HasSession
    <2>3. QED BY <2>1, <2>2
  <1>3. QED BY <1>1, <1>2 DEF RunsTyped

LEMMA Restaged ==
  ASSUME NEW rec \in Runs, NEW stage \in RunStages
  PROVE  LET next == [rec EXCEPT !.stage = stage] IN
         next \in Runs /\ next.stage = stage /\ next.session = rec.session
PROOF BY DEF Runs

LEMMA GoTyped ==
  ASSUME RunsTyped, NEW r \in Slots, NEW stage \in RunStages, Go(r, stage), UNCHANGED setup,
         stage # "due", stage = "loading" => HasSession(run[r])
  PROVE  RunsTyped'
PROOF
  <1> DEFINE rec == [run[r] EXCEPT !.stage = stage]
  <1>1. run[r] \in Runs
    BY DEF RunsTyped
  <1>2. rec \in Runs /\ rec.stage = stage /\ rec.session = run[r].session
    BY <1>1, Restaged
  <1>3. Step(r, rec)
    BY DEF Go
  <1> HIDE DEF rec
  <1>4. Proper(rec)
    BY <1>2 DEF Proper, HasSession
  <1>5. QED BY <1>3, <1>4, StepTyped

LEMMA FreshTyped ==
  ASSUME NEW who \in Whos
  PROVE  /\ Free \in Runs /\ Proper(Free)
         /\ Started(who) \in Runs /\ Started(who).stage = "hook"
PROOF
  <1>1. <<>> \in Seq(Slots)
    OBVIOUS
  <1>2. Free \in Runs /\ Free.stage = "free"
    BY <1>1 DEF Free, Runs, RunStages, Whos
  <1> DEFINE rec == [Free EXCEPT !.who = who, !.stage = "hook"]
  <1>3. rec \in Runs /\ rec.stage = "hook"
    BY <1>2 DEF Runs, RunStages
  <1>4. QED BY <1>2, <1>3 DEF Proper, Started

(* The steps of a run that only go on, under Restaged.                     *)
LEMMA GoersTyped ==
  ASSUME RunsTyped, NEW r \in Slots,
         \/ OpenTemp(r) \/ WriteTemp(r) \/ RenameTemp(r)
         \/ RecordCost(r) \/ CheckAlerts(r) \/ CountRun(r) \/ Begin(r)
  PROVE  RunsTyped'
PROOF
  <1>1. PICK stage \in {"writing", "renaming", "ended", "alert", "post", "finished", "hook"} :
          Go(r, stage) /\ UNCHANGED setup
    BY DEF OpenTemp, WriteTemp, RenameTemp, RecordCost, CheckAlerts, CountRun, Begin, AfterSave
  <1>2. stage \in RunStages
    BY DEF RunStages, InSession
  <1>3. QED BY <1>1, <1>2, GoTyped

LEMMA EnterTyped ==
  ASSUME RunsTyped, NEW r \in Slots, Enter(r)
  PROVE  RunsTyped'
PROOF
  <1> DEFINE refused == [run[r] EXCEPT !.stage = "finished", !.ok = FALSE]
  <1>0. run[r] \in Runs /\ UNCHANGED setup
    BY DEF RunsTyped, Enter
  <1>1. CASE Go(r, Entered(run[r]))
    <2>1. Entered(run[r]) \in {"loading", "asked"}
          /\ (Entered(run[r]) = "loading" => HasSession(run[r]))
      BY DEF Entered
    <2>2. Entered(run[r]) \in RunStages /\ Entered(run[r]) # "due"
      BY <2>1 DEF RunStages, InSession
    <2>3. QED BY <1>0, <1>1, <2>1, <2>2, GoTyped
  <1>2. CASE Step(r, refused)
    <2>1. refused \in Runs /\ refused.stage = "finished"
      BY <1>0 DEF Runs, RunStages
    <2> HIDE DEF refused
    <2>2. Proper(refused)
      BY <2>1 DEF Proper
    <2>3. QED BY <1>0, <1>2, <2>2, StepTyped
  <1>3. QED BY <1>1, <1>2 DEF Enter

LEMMA LoadTyped ==
  ASSUME FilesTypeOK, RunsTyped, CallsTyped, NEW r \in Slots, LoadSession(r)
  PROVE  RunsTyped' /\ contended' \subseteq Sessions
PROOF
  <1> DEFINE s == run[r].session
             turns == Load(s).turns
             rec == [run[r] EXCEPT !.stage = "asked", !.turns = turns]
  <1>1. run[r] \in Runs /\ Step(r, rec) /\ UNCHANGED setup /\ run[r].stage = "loading"
    BY DEF RunsTyped, LoadSession, At
  <1>2. s \in Sessions
    BY <1>1 DEF RunsTyped, Proper, HasSession, Runs
  <1>3. named[s] \in Contents /\ Data(<<>>, 0) \in Contents
    <2>1. <<>> \in Seq(Slots)
      OBVIOUS
    <2>2. QED BY <1>2, <2>1, FilesAsSets, Marks
  <1>4. turns \in Seq(Slots)
    BY <1>3 DEF Load, Contents
  <1> HIDE DEF turns
  <1>5. rec \in Runs /\ rec.stage = "asked"
    BY <1>1, <1>4 DEF Runs, RunStages, InSession
  <1> HIDE DEF rec
  <1>6. Proper(rec)
    BY <1>5 DEF Proper
  <1>7. RunsTyped'
    BY <1>1, <1>6, StepTyped
  <1>8. contended' \subseteq Sessions
    BY <1>2 DEF LoadSession, CallsTyped
  <1>9. QED BY <1>7, <1>8

LEMMA AnswerTyped ==
  ASSUME RunsTyped, NEW r \in Slots, Answer(r) \/ Fail(r)
  PROVE  RunsTyped'
PROOF
  <1>0. run[r] \in Runs /\ UNCHANGED setup
    BY DEF RunsTyped, Answer, Fail
  <1>1. CASE Answer(r)
    <2> DEFINE stage == AfterAnswer(run[r])
               turns == Append(run[r].turns, r)
               rec == [run[r] EXCEPT !.stage = stage, !.turns = turns]
    <2>1. Step(r, rec)
      BY <1>1 DEF Answer
    <2>2. stage \in {"saving", "ended"}
      BY DEF AfterAnswer
    <2>3. run[r].turns \in Seq(Slots)
      BY <1>0 DEF Runs
    <2>4. turns \in Seq(Slots)
      BY <2>3, AppendedIs
    <2> HIDE DEF stage, turns
    <2>5. rec \in Runs /\ rec.stage = stage
      BY <1>0, <2>2, <2>4 DEF Runs, RunStages, InSession
    <2> HIDE DEF rec
    <2>6. Proper(rec)
      BY <2>2, <2>5 DEF Proper
    <2>7. QED BY <1>0, <2>1, <2>6, StepTyped
  <1>2. CASE Fail(r)
    <2> DEFINE rec == [run[r] EXCEPT !.stage = "finished", !.ok = FALSE]
    <2>1. Step(r, rec)
      BY <1>2 DEF Fail
    <2>2. rec \in Runs /\ rec.stage = "finished"
      BY <1>0 DEF Runs, RunStages
    <2> HIDE DEF rec
    <2>3. Proper(rec)
      BY <2>2 DEF Proper
    <2>4. QED BY <1>0, <2>1, <2>3, StepTyped
  <1>3. QED BY <1>1, <1>2

LEMMA ReadExistingTyped ==
  ASSUME Established, FilesTypeOK, RunsTyped, NEW r \in Slots, ReadExisting(r)
  PROVE  RunsTyped'
PROOF
  <1> DEFINE s == run[r].session
             count == ExistingCount(s)
             rec == [run[r] EXCEPT !.stage = "opening", !.count = count]
  <1>1. run[r] \in Runs /\ Step(r, rec) /\ UNCHANGED setup /\ run[r].stage = "saving"
    BY DEF RunsTyped, ReadExisting, At
  <1>2. s \in Sessions
    <2>1. HasSession(run[r])
      BY <1>1 DEF Established, FilesInv, WritersOpen, Owning
    <2>2. QED BY <1>1, <2>1 DEF HasSession, Runs
  <1>3. count \in Nat
    <2>1. named[s] \in Contents
      BY <1>2, FilesAsSets
    <2>2. QED BY <2>1 DEF ExistingCount, Contents
  <1> HIDE DEF count
  <1>4. rec \in Runs /\ rec.stage = "opening"
    BY <1>1, <1>3 DEF Runs, RunStages, InSession
  <1> HIDE DEF rec
  <1>5. Proper(rec)
    BY <1>4 DEF Proper
  <1>6. QED BY <1>1, <1>5, StepTyped

LEMMA SummarizeTyped ==
  ASSUME Established, RunsTyped, NEW r \in Slots, Summarize(r)
  PROVE  RunsTyped'
PROOF
  <1> DEFINE total == Summary(setup.payer, now)
             month == now \div Month
             rec == [run[r] EXCEPT !.stage = "summed", !.total = total, !.month = month]
  <1>1. run[r] \in Runs /\ Step(r, rec) /\ UNCHANGED setup /\ run[r].stage = "alert"
    BY DEF RunsTyped, Summarize, At
  <1>2. month \in Nat /\ month \in 0..MaxMonth /\ setup.payer \in Payers
    BY <1>1, ProgramFacts DEF Established, AlertInv, SeenIsThere, Checking, MonthOf
  <1>3. total \in Nat
    BY <1>2 DEF Established, AlertInv, AlertTyped, BillingTypeOK, Summary
  <1> HIDE DEF total, month
  <1>4. rec \in Runs /\ rec.stage = "summed"
    BY <1>1, <1>2, <1>3 DEF Runs, RunStages
  <1> HIDE DEF rec
  <1>5. Proper(rec)
    BY <1>4 DEF Proper
  <1>6. QED BY <1>1, <1>5, StepTyped

LEMMA FinishRunTyped ==
  ASSUME RunsTyped, NEW r \in Slots, Finish(r)
  PROVE  RunsTyped'
PROOF
  <1> DEFINE who == run[r].who
             fresh == Started(who)
             again == [fresh EXCEPT !.session = run[r].session, !.left = run[r].left - 1]
  <1>1. /\ run[r] \in Runs /\ UNCHANGED setup
        /\ Step(r, Free) \/ (run[r].left > 0 /\ Step(r, again))
    BY DEF RunsTyped, Finish
  <1>2. who \in Whos /\ run[r].session \in Sessions \union {Nobody} /\ run[r].left \in Nat
    BY <1>1 DEF Runs
  <1>3. Proper(Free) /\ fresh \in Runs /\ fresh.stage = "hook"
    BY <1>2, FreshTyped
  <1>4. CASE Step(r, Free)
    BY <1>1, <1>3, <1>4, StepTyped
  <1>5. CASE run[r].left > 0 /\ Step(r, again)
    <2>1. run[r].left - 1 \in Nat
      BY <1>2, <1>5
    <2> HIDE DEF fresh
    <2>2. again \in Runs /\ again.stage = "hook"
      BY <1>2, <1>3, <2>1 DEF Runs
    <2> HIDE DEF again
    <2>3. Proper(again)
      BY <2>2 DEF Proper
    <2>4. QED BY <1>1, <1>5, <2>3, StepTyped
  <1>6. QED BY <1>1, <1>4, <1>5

LEMMA StartTyped ==
  ASSUME Established, RunsTyped, NEW r \in Slots,
         Route(r) \/ \E t \in setup.callers : Call(r, t)
  PROVE  RunsTyped'
PROOF
  <1>1. CASE Route(r)
    <2>1. Step(r, Started("bus")) /\ UNCHANGED setup
      BY <1>1 DEF Route
    <2>2. "bus" \in Whos
      BY DEF Whos
    <2>3. Proper(Started("bus"))
      BY <2>2, FreshTyped DEF Proper
    <2>4. QED BY <2>1, <2>3, StepTyped
  <1>2. ASSUME NEW t \in setup.callers, Call(r, t)
        PROVE  RunsTyped'
    <2> DEFINE fresh == Started("caller")
               rec == [fresh EXCEPT !.tenant = t, !.session = setup.session]
    <2>1. Step(r, rec) /\ UNCHANGED setup
      BY <1>2 DEF Call
    <2>2. "caller" \in Whos
      BY DEF Whos
    <2>3. fresh \in Runs /\ fresh.stage = "hook"
      BY <2>2, FreshTyped
    <2>4. t \in Tenants \union {Nobody} /\ setup.session \in Sessions \union {Nobody}
      BY ProgramIs
    <2> HIDE DEF fresh
    <2>5. rec \in Runs /\ rec.stage = "hook"
      BY <2>3, <2>4 DEF Runs
    <2> HIDE DEF rec
    <2>6. Proper(rec)
      BY <2>5 DEF Proper
    <2>7. QED BY <2>1, <2>6, StepTyped
  <1>3. QED BY <1>1, <1>2

LEMMA TickTyped ==
  ASSUME Established, JobsTyped, RunsTyped, Tick
  PROVE  RunsTyped'
PROOF
  <1>0. RunsAre /\ UNCHANGED setup
    BY DEF Established, FilesInv, Tick
  <1>1. ASSUME NEW j \in Due(now)
        PROVE  LET fresh == Started(j)
                   rec == [fresh EXCEPT !.stage = "due", !.session = setup.jobs[j].session,
                                        !.left = setup.jobs[j].retries]
               IN Proper(rec)
    <2> DEFINE fresh == Started(j)
               session == setup.jobs[j].session
               left == setup.jobs[j].retries
               rec == [fresh EXCEPT !.stage = "due", !.session = session, !.left = left]
    <2>1. j \in Jobs /\ j \in DOMAIN setup.jobs
      BY DEF Due, JobsTyped
    <2>2. session \in Sessions \union {Nobody} /\ left \in Nat
      BY <2>1, ProgramIs
    <2>3. j \in Whos
      BY <2>1 DEF Whos
    <2>4. fresh \in Runs /\ fresh.who = j
      <3>1. fresh \in Runs
        BY <2>3, FreshTyped
      <3>2. fresh.who = j
        BY DEF Started, Free
      <3>3. QED BY <3>1, <3>2
    <2> HIDE DEF fresh, session, left
    <2>5. rec \in Runs /\ rec.stage = "due" /\ rec.who = j
      BY <2>2, <2>4 DEF Runs, RunStages
    <2>6. Proper(rec)
      BY <2>1, <2>5 DEF Proper
    <2>7. QED BY <2>6 DEF fresh, session, left
  <1>2. /\ RunsAre'
        /\ \A r \in Slots : run'[r] # run[r] =>
             \E j \in Due(now) :
               run'[r] = [Started(j) EXCEPT !.stage = "due",
                                            !.session = setup.jobs[j].session,
                                            !.left = setup.jobs[j].retries]
    BY <1>0, TickEffect
  <1>3. \A r \in Slots : Proper(run'[r])
    <2> SUFFICES ASSUME NEW r \in Slots PROVE Proper(run'[r])
      OBVIOUS
    <2>1. CASE run'[r] = run[r]
      BY <2>1 DEF RunsTyped
    <2>2. CASE run'[r] # run[r]
      <3>1. PICK j \in Due(now) :
               run'[r] = [Started(j) EXCEPT !.stage = "due",
                                            !.session = setup.jobs[j].session,
                                            !.left = setup.jobs[j].retries]
        BY <1>2, <2>2
      <3>2. QED BY <1>1, <3>1
    <2>3. QED BY <2>1, <2>2
  <1>4. run' = [r \in Slots |-> run'[r]]
    BY <1>2 DEF RunsAre
  <1>5. run' \in [Slots -> Runs]
    BY <1>3, <1>4 DEF Proper
  <1>6. \A r \in Slots : Proper(run[r])'
    BY <1>0, <1>3 DEF Proper, HasSession
  <1>7. QED BY <1>5, <1>6 DEF RunsTyped

LEMMA RunsKeptTyped ==
  ASSUME RunsTyped, UNCHANGED <<setup, run>>
  PROVE  RunsTyped'
PROOF BY DEF RunsTyped, Proper, HasSession

(***************************************************************************)
(* Every step.                                                             *)
(***************************************************************************)
LEMMA CallsKept ==
  ASSUME CallsTyped, UNCHANGED <<setup, calls, contended>>
  PROVE  CallsTyped'
PROOF BY DEF CallsTyped

LEMMA OneMoreCall ==
  ASSUME Established, CallsTyped, calls < setup.maxCalls, calls' = calls + 1,
         UNCHANGED <<setup, contended>>
  PROVE  CallsTyped'
PROOF
  <1>1. setup.maxCalls \in Nat
    BY ProgramIs
  <1>2. QED BY <1>1 DEF CallsTyped

LEMMA RunStepTyped ==
  ASSUME Established, ServicesInv, NEW r \in Slots, RunStep(r)
  PROVE  ServicesInv'
PROOF
  <1> USE DEF ServicesInv
  <1>1. RunsTyped'
    BY EnterTyped, LoadTyped, AnswerTyped, ReadExistingTyped, SummarizeTyped, GoersTyped,
       FinishRunTyped DEF RunStep
  <1>2. FilesTypeOK'
    <2>1. CASE OpenTemp(r) \/ WriteTemp(r) \/ RenameTemp(r)
      BY <2>1, SaveTyped
    <2>2. CASE ~(OpenTemp(r) \/ WriteTemp(r) \/ RenameTemp(r))
      <3>1. UNCHANGED fileVars
        BY <2>2 DEF RunStep, Enter, LoadSession, Answer, Fail, ReadExisting, RecordCost,
                    Summarize, CheckAlerts, CountRun, Finish, Begin, services
      <3>2. QED BY <3>1, FilesKept
    <2>3. QED BY <2>1, <2>2
  <1>3. JobsTyped'
    <2>1. CASE Begin(r)
      BY <2>1, BeginTyped
    <2>2. CASE Finish(r)
      BY <2>2, FinishTyped
    <2>3. CASE ~Begin(r) /\ ~Finish(r)
      <3>1. UNCHANGED <<setup, cronVars>>
        BY <2>3 DEF RunStep, Enter, LoadSession, Answer, Fail, ReadExisting, OpenTemp,
                    WriteTemp, RenameTemp, RecordCost, Summarize, CheckAlerts, CountRun,
                    services
      <3>2. QED BY <3>1, JobsKept
    <2>4. QED BY <2>1, <2>2, <2>3
  <1>4. BusTypeOK(setup.capacity)'
    <2>1. UNCHANGED <<setup, busVars>>
      BY DEF RunStep, Enter, LoadSession, Answer, Fail, ReadExisting, OpenTemp,
             WriteTemp, RenameTemp, RecordCost, Summarize, CheckAlerts, CountRun,
             Finish, Begin, services
    <2>2. QED BY <2>1, BusKept
  <1>5. CallsTyped'
    <2>1. CASE LoadSession(r)
      <3>1. contended' \subseteq Sessions
        BY <2>1, LoadTyped
      <3>2. UNCHANGED <<setup, calls>>
        BY <2>1 DEF LoadSession
      <3>3. QED BY <3>1, <3>2 DEF CallsTyped
    <2>2. CASE ~LoadSession(r)
      <3>1. UNCHANGED <<setup, calls, contended>>
        BY <2>2 DEF RunStep, Enter, Answer, Fail, ReadExisting, OpenTemp, WriteTemp,
                    RenameTemp, RecordCost, Summarize, CheckAlerts, CountRun, Finish, Begin
      <3>2. QED BY <3>1, CallsKept
    <2>3. QED BY <2>1, <2>2
  <1>6. QED BY <1>1, <1>2, <1>3, <1>4, <1>5

LEMMA BeginningTyped ==
  ASSUME Established, ServicesInv,
         Tick \/ \E r \in Slots : Route(r) \/ \E t \in setup.callers : Call(r, t)
  PROVE  ServicesInv'
PROOF
  <1> USE DEF ServicesInv
  <1>1. CASE Tick
    <2>1. UNCHANGED <<setup, calls, contended, fileVars, cronVars, busVars>>
      BY <1>1 DEF Tick, services
    <2>2. QED BY SMTT(40), <1>1, <2>1, TickTyped, FilesKept, JobsKept, BusKept, CallsKept
  <1>2. ASSUME NEW r \in Slots, Route(r)
        PROVE  ServicesInv'
    <2>1. UNCHANGED <<setup, calls, contended, fileVars, cronVars>>
      BY <1>2 DEF Route
    <2>2. QED BY <1>2, <2>1, StartTyped, FilesKept, JobsKept, RouteTyped, CallsKept
  <1>3. ASSUME NEW r \in Slots, NEW t \in setup.callers, Call(r, t)
        PROVE  ServicesInv'
    <2>1. UNCHANGED <<setup, contended, fileVars, cronVars, busVars>>
          /\ calls < setup.maxCalls /\ calls' = calls + 1
      BY <1>3 DEF Call, services
    <2>2. CallsTyped'
      BY <2>1, OneMoreCall
    <2>3. QED BY <1>3, <2>1, <2>2, StartTyped, FilesKept, JobsKept, BusKept
  <1>4. QED BY <1>1, <1>2, <1>3

LEMMA PublishTyped ==
  ASSUME Established, ServicesInv, Publishing
  PROVE  ServicesInv'
PROOF
  <1> USE DEF ServicesInv
  <1>1. UNCHANGED <<setup, run, contended, fileVars, cronVars>>
        /\ (UNCHANGED calls \/ (calls < setup.maxCalls /\ calls' = calls + 1))
    BY DEF Publishing
  <1>2. CallsTyped'
    BY <1>1, CallsKept, OneMoreCall
  <1>3. QED BY <1>1, <1>2, FilesKept, JobsKept, PublishingTyped, RunsKeptTyped

LEMMA StopTyped ==
  ASSUME Established, ServicesInv, Stop
  PROVE  ServicesInv'
PROOF
  <1> USE DEF ServicesInv
  <1>1. UNCHANGED <<setup, run, calls, contended, fileVars>>
    BY DEF Stop
  <1>2. JobsTyped' /\ BusTypeOK(setup.capacity)'
    <2>1. CASE StopScheduler /\ UNCHANGED busVars
      BY <1>1, <2>1, BusKept DEF StopScheduler, JobsTyped, CronTypeOK
    <2>2. CASE ChangeBus /\ UNCHANGED cronVars
      BY <1>1, <2>2, JobsKept, ChangeBusTyped
    <2>3. QED BY <2>1, <2>2 DEF Stop
  <1>3. QED BY <1>1, <1>2, FilesKept, RunsKeptTyped, CallsKept

LEMMA RestTyped ==
  ASSUME Established, ServicesInv,
         \/ PassTime \/ Cleanup \/ UNCHANGED vars
         \/ \E t : RegisterTenant(t)
         \/ \E s \in Sessions : Expire(s)
  PROVE  ServicesInv'
PROOF
  <1> USE DEF ServicesInv
  <1>1. UNCHANGED <<setup, run, calls, contended, cronVars, busVars>>
    BY DEF PassTime, Cleanup, RegisterTenant, Expire, vars, services
  <1>2. FilesTypeOK'
    <2>1. CASE Cleanup \/ \E s \in Sessions : Expire(s)
      BY <2>1, ExpiryTyped
    <2>2. CASE ~(Cleanup \/ \E s \in Sessions : Expire(s))
      <3>1. UNCHANGED fileVars
        BY <2>2 DEF PassTime, RegisterTenant, vars, services
      <3>2. QED BY <3>1, FilesKept
    <2>3. QED BY <2>1, <2>2
  <1>3. QED BY <1>1, <1>2, RunsKeptTyped, JobsKept, BusKept, CallsKept

LEMMA CrashTyped ==
  ASSUME Established, ServicesInv, Crash
  PROVE  ServicesInv'
PROOF
  <1> USE DEF ServicesInv
  <1>0. UNCHANGED <<setup, calls, contended>> /\ run' = [r \in Slots |-> Free]
    BY DEF Crash
  <1>1. FilesTypeOK'
    BY DeathTyped DEF Crash
  <1>2. JobsTyped'
    <2>1. /\ Registered(setup.jobs, now) \in [Jobs -> [next : Nat, failed : BOOLEAN]]
          /\ \A j \in Jobs \ DOMAIN setup.jobs : Registered(setup.jobs, now)[j].next = Never
      BY ProgramIs, RegisteredTyped
    <2>2. scheduler' = "running" /\ job' = Registered(setup.jobs, now)
      BY DEF Crash
    <2>3. QED BY <1>0, <2>1, <2>2 DEF JobsTyped, CronTypeOK
  <1>3. BusTypeOK(setup.capacity)'
    <2>1. subs' = setup.subs /\ envelopes' = <<>> /\ publisher' = <<>> /\ bus' = "running"
      BY DEF Crash
    <2>2. <<>> \in Seq(Agents) /\ Len(<<>>) = 0 /\ setup.subs \in Seq(Agents) /\ setup.capacity \in Nat
      BY ProgramIs
    <2>3. QED BY <1>0, <2>1, <2>2 DEF BusTypeOK
  <1>4. RunsTyped'
    <2>1. Nobody \in Whos
      BY DEF Whos
    <2>2. Proper(Free)
      BY <2>1, FreshTyped
    <2>3. QED BY <1>0, <2>2 DEF RunsTyped, Proper, HasSession
  <1>5. CallsTyped'
    BY <1>0, CallsKept
  <1>6. QED BY <1>1, <1>2, <1>3, <1>4, <1>5

LEMMA InitServices == Init => ServicesInv
PROOF
  <1> SUFFICES ASSUME Init PROVE ServicesInv
    OBVIOUS
  <1>0. Established
    BY InitQuota, InitFiles, InitAlerts DEF Established
  <1>1. FilesTypeOK
    <2>1. named = [s \in Sessions |-> Missing] /\ temp = [s \in Sessions |-> Missing]
          /\ fd = [r \in Slots |-> [name |-> "closed", session |-> Nobody]]
          /\ stale = {} /\ condemned = Nobody
      BY DEF Init, FilesInit
    <2>2. QED BY <2>1, Marks DEF FilesTypeOK
  <1>2. JobsTyped
    <2>1. /\ Registered(setup.jobs, 0) \in [Jobs -> [next : Nat, failed : BOOLEAN]]
          /\ \A j \in Jobs \ DOMAIN setup.jobs : Registered(setup.jobs, 0)[j].next = Never
      BY <1>0, ProgramIs, RegisteredTyped
    <2>2. QED BY <2>1 DEF Init, CronInit, JobsTyped, CronTypeOK
  <1>3. BusTypeOK(setup.capacity)
    <2>1. <<>> \in Seq(Agents) /\ Len(<<>>) = 0 /\ setup.subs \in Seq(Agents) /\ setup.capacity \in Nat
      BY <1>0, ProgramIs
    <2>2. QED BY <2>1 DEF Init, BusInit, BusTypeOK
  <1>4. CallsTyped
    <2>1. setup.maxCalls \in Nat
      BY <1>0, ProgramIs
    <2>2. QED BY <2>1 DEF Init, CallsTyped
  <1>5. RunsTyped
    <2>1. Nobody \in Whos
      BY DEF Whos
    <2>2. Proper(Free)
      BY <2>1, FreshTyped
    <2>3. run = [r \in Slots |-> Free]
      BY DEF Init
    <2>4. QED BY <2>2, <2>3 DEF RunsTyped, Proper
  <1>6. QED BY <1>1, <1>2, <1>3, <1>4, <1>5 DEF ServicesInv

LEMMA NextServices == Established /\ ServicesInv /\ [Next]_vars => ServicesInv'
PROOF
  <1> SUFFICES ASSUME Established, ServicesInv, [Next]_vars PROVE ServicesInv'
    OBVIOUS
  <1>1. ASSUME NEW r \in Slots, RunStep(r)
        PROVE  ServicesInv'
    BY <1>1, RunStepTyped
  <1>2. CASE Tick \/ \E r \in Slots : Route(r) \/ \E t \in setup.callers : Call(r, t)
    BY <1>2, BeginningTyped
  <1>3. CASE Publishing
    BY <1>3, PublishTyped
  <1>4. CASE Stop
    BY <1>4, StopTyped
  <1>5. CASE Crash
    BY <1>5, CrashTyped
  <1>6. CASE \/ PassTime \/ Cleanup \/ UNCHANGED vars
             \/ \E t : RegisterTenant(t)
             \/ \E s \in Sessions : Expire(s)
    BY <1>6, RestTyped
  <1>7. QED BY <1>1, <1>2, <1>3, <1>4, <1>5, <1>6 DEF Next, Environment

(* Every service and every run keeps its type, whatever the programs, and  *)
(* a goroutine that writes has the temporary file of its own session open; *)
(* the channel of the bus holds no more than its capacity                  *)
(* (runner.go:22-261, bus.go:69-75, cron.go:96-131).                       *)
THEOREM ServicesTyped == Spec => []TypeOK
PROOF
  <1>1. Init => Established /\ ServicesInv
    BY InitQuota, InitFiles, InitAlerts, InitServices DEF Established
  <1>2. Established /\ ServicesInv /\ [Next]_vars => Established' /\ ServicesInv'
    BY NextQuota, NextFiles, NextAlerts, NextServices DEF Established
  <1>3. Established /\ ServicesInv => TypeOK
    <2> SUFFICES ASSUME Established, ServicesInv PROVE TypeOK
      OBVIOUS
    <2>1. FilesTypeOK /\ TenancyTypeOK /\ BillingTypeOK /\ CronTypeOK
          /\ BusTypeOK(setup.capacity)
      BY DEF Established, QuotaInv, QuotaTyped, AlertInv, AlertTyped, ServicesInv, JobsTyped
    <2>2. setup \in Setups /\ calls \in 0..setup.maxCalls /\ contended \subseteq Sessions
      BY ProgramIs DEF ServicesInv, CallsTyped
    <2>3. now \in 0..setup.maxTime
      <3>1. now \in Nat /\ now <= setup.maxTime
        BY DEF Established, AlertInv, AlertTyped
      <3>2. setup.maxTime \in Nat
        BY <2>2, SpendingAssumption
      <3>3. QED BY <3>1, <3>2
    <2>4. ASSUME NEW r \in Slots
          PROVE  /\ run[r].stage \in RunStages
                 /\ run[r].tenant \in Tenants \union {Nobody}
                 /\ run[r].session \in Sessions \union {Nobody}
                 /\ run[r].stage = "writing" =>
                      fd[r].name # "closed" /\ fd[r].session = run[r].session
      <3>1. run[r] \in Runs
        BY DEF ServicesInv, RunsTyped
      <3>2. run[r].stage = "writing" =>
              fd[r].name # "closed" /\ fd[r].session = run[r].session
        BY DEF Established, FilesInv, WritersOpen, Opened
      <3>3. QED BY <3>1, <3>2 DEF Runs
    <2>5. QED BY <2>1, <2>2, <2>3, <2>4 DEF TypeOK
  <1>4. QED BY <1>1, <1>2, <1>3, PTL DEF Spec
=============================================================================
