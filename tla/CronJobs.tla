------------------------------ MODULE CronJobs ------------------------------
(***************************************************************************)
(* The scheduler of agent runs (cron/cron.go, cron/job.go).  A tick starts *)
(* a goroutine for every job that is due; only the goroutine computes when *)
(* the job is due again, so that a tick in between starts it once more.    *)
(***************************************************************************)
EXTENDS Naturals

CONSTANT Jobs        \* Jobs: the jobs that may be registered

VARIABLES
  scheduler,   \* scheduler: whether Start's loop runs
  job          \* job: when each job is due, and what its last run came to

cronVars == <<scheduler, job>>

(* A time after every time: the schedule has no next one (a zero NextRun). *)
Never == 0

(* Mutant of ComputeNext: the next time may be the time of the run itself. *)
ComputeNextInclusive(spec, now) ==
  IF spec.interval > 0 THEN now + spec.interval
  ELSE IF \E t \in spec.times : t >= now
       THEN CHOOSE t \in spec.times : t >= now /\ \A u \in spec.times : u >= now => t <= u
       ELSE Never

(* A job has a fixed interval, or (interval 0) a set of times.             *)
ComputeNext(spec, now) ==
  IF spec.interval > 0 THEN now + spec.interval
  ELSE IF \E t \in spec.times : t > now
       THEN CHOOSE t \in spec.times : t > now /\ \A u \in spec.times : u > now => t <= u
       ELSE Never

Registered(specs, now) ==
  [j \in Jobs |-> [next |-> IF j \in DOMAIN specs THEN ComputeNext(specs[j], now) ELSE Never,
                   failed |-> FALSE]]

CronInit(specs, now) == scheduler = "running" /\ job = Registered(specs, now)

Due(now) == {j \in Jobs : job[j].next # Never /\ job[j].next <= now}

(* The goroutine of a run begins: the next run counts from now.            *)
BeginJob(j, spec, now) ==
  job' = [job EXCEPT ![j].next = ComputeNext(spec, now)]

(* What the last run came to is kept; the counts of runs are left out.     *)
FinishJob(j, ok) == job' = [job EXCEPT ![j].failed = ~ok]

StopScheduler ==
  /\ scheduler = "running"
  /\ scheduler' = "stopped"
  /\ UNCHANGED job

CronTypeOK ==
  /\ scheduler \in {"running", "stopped"}
  /\ job \in [Jobs -> [next : Nat, failed : BOOLEAN]]
=============================================================================
