--------------------------- MODULE CircuitBreaker ---------------------------
(***************************************************************************)
(* The circuit breaker around a provider: circuitBreaker of                *)
(* provider/circuitbreaker.go, shared by concurrent callers.               *)
(*                                                                         *)
(* Chat holds the lock in allow and again in record, not while it waits    *)
(* for the provider, so a result may be recorded in another state than the *)
(* one that let its call through.                                          *)
(*                                                                         *)
(* Time is kept as age, the time since openedAt, which stops at the open   *)
(* timeout because nothing tells longer times apart.                       *)
(***************************************************************************)
EXTENDS Naturals

CONSTANTS
  Callers,           \* the goroutines that call Chat
  MaxFailures,       \* cfg.maxFailures
  OpenTimeout,       \* cfg.openTimeout
  HalfOpenRequests   \* cfg.halfOpenRequests

(* The options are not checked: zero is a setting.                         *)
ASSUME OptionsAssumption ==
  /\ MaxFailures \in Nat
  /\ OpenTimeout \in Nat
  /\ HalfOpenRequests \in Nat

VARIABLES
  state,             \* the breaker's state
  consecutiveFails,
  halfOpenSuccesses,
  age,               \* time.Since(openedAt), up to OpenTimeout
  pc,                \* pc[c]: where the call of c is
  up,                \* the provider answers (true) or fails
  failed,            \* history: failures recorded since the last success
  passed             \* history: successes recorded since the last failure

breaker == <<state, consecutiveFails, halfOpenSuccesses, age>>
history == <<failed, passed>>
vars == <<breaker, pc, up, history>>

BreakerStates == {"closed", "open", "halfOpen"}

Places == {"idle", "calling", "succeeded", "failed", "rejected"}

(* The history counts up to what the properties tell apart.                *)
PassedBound == HalfOpenRequests + 1

Least(m, n) == IF m <= n THEN m ELSE n

Init ==
  /\ state = "closed"
  /\ consecutiveFails = 0
  /\ halfOpenSuccesses = 0
  /\ age = 0
  /\ pc = [c \in Callers |-> "idle"]
  /\ up \in BOOLEAN
  /\ failed = 0
  /\ passed = 0

Move(c, place) == pc' = [pc EXCEPT ![c] = place]

-----------------------------------------------------------------------------
(* allow                                                                   *)

Elapsed == age >= OpenTimeout

Reject(c) ==
  /\ pc[c] = "idle"
  /\ state = "open"
  /\ ~Elapsed
  /\ Move(c, "rejected")
  /\ UNCHANGED <<breaker, up, history>>

(* Mutant of PassThrough: a half-open breaker lets only its trial through.  *)
PassThroughClosedOnly(c) ==
  /\ pc[c] = "idle"
  /\ state = "closed"
  /\ Move(c, "calling")
  /\ UNCHANGED <<breaker, up, history>>

(* A closed and a half-open breaker let every call through.                *)
PassThrough(c) ==
  /\ pc[c] = "idle"
  /\ state # "open"
  /\ Move(c, "calling")
  /\ UNCHANGED <<breaker, up, history>>

(* Mutant of HalfOpen: the successes of the last trial are kept.            *)
HalfOpenKeepsCount(c) ==
  /\ pc[c] = "idle"
  /\ state = "open"
  /\ Elapsed
  /\ state' = "halfOpen"
  /\ Move(c, "calling")
  /\ UNCHANGED <<consecutiveFails, halfOpenSuccesses, age, up, history>>

(* The first call after the open timeout begins the trial.                 *)
HalfOpen(c) ==
  /\ pc[c] = "idle"
  /\ state = "open"
  /\ Elapsed
  /\ state' = "halfOpen"
  /\ halfOpenSuccesses' = 0
  /\ Move(c, "calling")
  /\ UNCHANGED <<consecutiveFails, age, up, history>>

-----------------------------------------------------------------------------
(* record                                                                  *)

Trip ==
  /\ state' = "open"
  /\ age' = 0
  /\ consecutiveFails' = 0
  /\ UNCHANGED halfOpenSuccesses

Trips == state = "halfOpen" \/ consecutiveFails + 1 >= MaxFailures

(* In any state: the failure of a call let through long ago counts too,    *)
(* and may trip a breaker that is open, again.                             *)
RecordFailure(c) ==
  /\ pc[c] = "failed"
  /\ IF Trips THEN Trip
     ELSE /\ consecutiveFails' = consecutiveFails + 1
          /\ UNCHANGED <<state, halfOpenSuccesses, age>>
  /\ Move(c, "idle")
  /\ failed' = Least(failed + 1, MaxFailures)
  /\ passed' = 0
  /\ UNCHANGED up

(* Mutant of CountTrial: the breaker closes without forgetting failures.    *)
CountTrialKeepsFailures ==
  /\ halfOpenSuccesses' = halfOpenSuccesses + 1
  /\ state' = IF halfOpenSuccesses + 1 >= HalfOpenRequests THEN "closed" ELSE state
  /\ UNCHANGED consecutiveFails

CountTrial ==
  /\ halfOpenSuccesses' = halfOpenSuccesses + 1
  /\ IF halfOpenSuccesses + 1 >= HalfOpenRequests
     THEN state' = "closed" /\ consecutiveFails' = 0
     ELSE UNCHANGED <<state, consecutiveFails>>

(* A late success leaves an open breaker open.                             *)
ForgetFailures ==
  /\ consecutiveFails' = 0
  /\ UNCHANGED <<state, halfOpenSuccesses>>

RecordSuccess(c) ==
  /\ pc[c] = "succeeded"
  /\ IF state = "halfOpen" THEN CountTrial ELSE ForgetFailures
  /\ Move(c, "idle")
  /\ failed' = 0
  /\ passed' = Least(passed + 1, PassedBound)
  /\ UNCHANGED <<age, up>>

-----------------------------------------------------------------------------
(* The provider, the clock and the callers.                                *)

Serve(c) ==
  /\ pc[c] = "calling"
  /\ Move(c, IF up THEN "succeeded" ELSE "failed")
  /\ UNCHANGED <<breaker, up, history>>

(* Chat returned ErrCircuitOpen.                                           *)
Retry(c) ==
  /\ pc[c] = "rejected"
  /\ Move(c, "idle")
  /\ UNCHANGED <<breaker, up, history>>

ProviderChanges ==
  /\ up' = ~up
  /\ UNCHANGED <<breaker, pc, history>>

Tick ==
  /\ state = "open"
  /\ age < OpenTimeout
  /\ age' = age + 1
  /\ UNCHANGED <<state, consecutiveFails, halfOpenSuccesses, pc, up, history>>

-----------------------------------------------------------------------------
Call(c) == Reject(c) \/ PassThrough(c) \/ HalfOpen(c)

Next ==
  \/ \E c \in Callers :
       \/ Reject(c)
       \/ PassThrough(c)
       \/ HalfOpen(c)
       \/ Serve(c)
       \/ RecordFailure(c)
       \/ RecordSuccess(c)
       \/ Retry(c)
  \/ ProviderChanges
  \/ Tick

Spec == Init /\ [][Next]_vars

(* Time passes, the provider answers or fails every call (a client has its *)
(* timeout), and the callers keep calling: the breaker itself has no       *)
(* goroutine and only moves when it is called.                             *)
Fairness ==
  /\ WF_vars(Tick)
  /\ \A c \in Callers :
       /\ WF_vars(Serve(c))
       /\ WF_vars(RecordFailure(c) \/ RecordSuccess(c))
       /\ WF_vars(Retry(c))
       /\ WF_vars(Call(c))

FairSpec == Spec /\ Fairness

-----------------------------------------------------------------------------
(* Type invariant.                                                         *)
TypeOK ==
  /\ state \in BreakerStates
  /\ consecutiveFails \in Nat
  /\ halfOpenSuccesses \in Nat
  /\ age \in 0..OpenTimeout
  /\ pc \in [Callers -> Places]
  /\ up \in BOOLEAN
  /\ failed \in 0..MaxFailures
  /\ passed \in 0..PassedBound

(* The counters stay below what would have moved the breaker, and count no  *)
(* result that a later one has made void, although a result may come from  *)
(* a call that was let through before the last trip or the last recovery   *)
(* (record).  During a trial old failures may still be counted.            *)
CountersJustified ==
  /\ MaxFailures > 0 => consecutiveFails < MaxFailures
  /\ state # "halfOpen" => consecutiveFails <= failed
  /\ state = "halfOpen" =>
       /\ halfOpenSuccesses <= passed
       /\ HalfOpenRequests > 0 => halfOpenSuccesses < HalfOpenRequests

(* The breaker opens on MaxFailures failures with no success recorded in    *)
(* between, whoever called and when, or on the failure of a trial; it      *)
(* leaves that state only through a trial, after the open timeout, and     *)
(* closes only on HalfOpenRequests successes with no failure in between.   *)
Transition ==
  /\ state = "closed"   => \/ state' = "closed"
                           \/ state' = "open" /\ failed' = MaxFailures
  /\ state = "open"     => \/ state' = "open"
                           \/ state' = "halfOpen" /\ age = OpenTimeout
  /\ state = "halfOpen" => \/ state' = "halfOpen" /\ passed' >= passed
                           \/ state' = "open" /\ passed' = 0
                           \/ state' = "closed" /\ passed' >= HalfOpenRequests

Transitions == [][Transition]_vars

(* The breaker does not stay open, although late failures of calls let     *)
(* through before may restart its timeout.                                 *)
OpenEnds == state = "open" ~> state # "open"

(* Once the provider is well again for good, so is the breaker, whatever   *)
(* failures were still to be recorded.                                     *)
Recovers == <>[]up => <>[](state = "closed")

(* A provider that is down for good is cut off for good: the breaker does  *)
(* not close again.                                                        *)
CutsOff == <>[]~up => <>[](state # "closed")

(* In the end the breaker is what its provider is: it gives a dead one up,  *)
(* tries it again after every timeout and takes it back when it is well     *)
(* (circuitbreaker.go, allow and record).                                   *)
FollowsProvider == OpenEnds /\ Recovers /\ CutsOff

(* circuitbreaker.go, allow: "Transition to half-open -- let one trial      *)
(* request through."  While that call waits for the provider, the          *)
(* half-open breaker lets no other through.                                *)
OneTrial ==
  [][\A c, d \in Callers :
       state = "halfOpen" /\ pc[d] = "calling" /\ pc[c] = "idle"
         => pc'[c] # "calling"]_vars
=============================================================================
