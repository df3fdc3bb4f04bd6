------------------------ MODULE CircuitBreaker_proofs ------------------------
(***************************************************************************)
(* The circuit breaker opens, half-opens and closes for a reason, for      *)
(* every number of callers and every setting of the options.               *)
(*                                                                         *)
(* The type invariant and CountersJustified are inductive together: a      *)
(* counter is judged against the history of the results recorded, and the  *)
(* history stops counting where the counters have long been reset.         *)
(***************************************************************************)
EXTENDS CircuitBreaker, TLAPS

IInv == TypeOK /\ CountersJustified

(* A call only ever moves to another place.                                *)
LEMMA MoveTypes ==
  ASSUME NEW c \in Callers, NEW place \in Places,
         pc \in [Callers -> Places], Move(c, place)
  PROVE  pc' \in [Callers -> Places]
BY DEF Move

LEMMA InitIInv == Init => IInv
<1> SUFFICES ASSUME Init PROVE IInv
  OBVIOUS
<1> USE OptionsAssumption DEF Init
<1>1. TypeOK
  BY DEF TypeOK, BreakerStates, Places, PassedBound
<1>2. CountersJustified
  BY DEF CountersJustified
<1> QED
  BY <1>1, <1>2 DEF IInv

-----------------------------------------------------------------------------
(* A recorded failure.                                                     *)
LEMMA FailureKeepsIInv ==
  ASSUME IInv, NEW c \in Callers, RecordFailure(c)
  PROVE  IInv' /\ Transition
<1> USE OptionsAssumption
<1>1. TypeOK /\ CountersJustified
  BY DEF IInv
<1>2. consecutiveFails \in Nat /\ halfOpenSuccesses \in Nat /\ age \in 0..OpenTimeout
      /\ failed \in 0..MaxFailures /\ passed \in 0..PassedBound
      /\ state \in BreakerStates /\ up \in BOOLEAN
  BY <1>1 DEF TypeOK
<1>3. failed' = Least(failed + 1, MaxFailures) /\ passed' = 0 /\ up' = up
  BY DEF RecordFailure
<1>4. failed' \in 0..MaxFailures
      /\ (failed + 1 <= MaxFailures => failed' = failed + 1)
      /\ (MaxFailures <= failed + 1 => failed' = MaxFailures)
  BY <1>2, <1>3 DEF Least
<1>5. pc' \in [Callers -> Places]
  BY <1>1, MoveTypes DEF RecordFailure, TypeOK, Places
<1>6. CASE Trips
  <2>1. state' = "open" /\ age' = 0 /\ consecutiveFails' = 0
        /\ halfOpenSuccesses' = halfOpenSuccesses
    BY <1>6 DEF RecordFailure, Trip
  <2>2. TypeOK'
    BY <2>1, <1>2, <1>3, <1>4, <1>5 DEF TypeOK, BreakerStates, PassedBound
  <2>3. CountersJustified'
    BY <2>1, <1>4 DEF CountersJustified
  <2>4. state = "closed" => failed' = MaxFailures
    BY <1>1, <1>2, <1>4, <1>6 DEF Trips, CountersJustified
  <2>5. Transition
    BY <2>1, <2>4, <1>3 DEF Transition
  <2> QED
    BY <2>2, <2>3, <2>5 DEF IInv
<1>7. CASE ~Trips
  <2>1. consecutiveFails' = consecutiveFails + 1 /\ state' = state
        /\ halfOpenSuccesses' = halfOpenSuccesses /\ age' = age
    BY <1>7 DEF RecordFailure
  <2>2. state # "halfOpen" /\ consecutiveFails + 1 < MaxFailures
    BY <1>2, <1>7 DEF Trips
  <2>3. TypeOK'
    BY <2>1, <1>2, <1>3, <1>4, <1>5 DEF TypeOK, PassedBound
  <2>4. consecutiveFails <= failed
    BY <2>2, <1>1 DEF CountersJustified
  <2>5. CountersJustified'
    BY <2>1, <2>2, <2>4, <1>2, <1>4 DEF CountersJustified
  <2>6. Transition
    BY <2>1, <2>2 DEF Transition
  <2> QED
    BY <2>3, <2>5, <2>6 DEF IInv
<1> QED
  BY <1>6, <1>7

(* A recorded success.                                                     *)
LEMMA SuccessKeepsIInv ==
  ASSUME IInv, NEW c \in Callers, RecordSuccess(c)
  PROVE  IInv' /\ Transition
<1> USE OptionsAssumption
<1>1. TypeOK /\ CountersJustified
  BY DEF IInv
<1>2. consecutiveFails \in Nat /\ halfOpenSuccesses \in Nat /\ age \in 0..OpenTimeout
      /\ failed \in 0..MaxFailures /\ passed \in 0..PassedBound
      /\ state \in BreakerStates /\ up \in BOOLEAN
      /\ PassedBound = HalfOpenRequests + 1
  BY <1>1 DEF TypeOK, PassedBound
<1>3. failed' = 0 /\ passed' = Least(passed + 1, PassedBound)
      /\ age' = age /\ up' = up
  BY DEF RecordSuccess
<1>4. passed' \in 0..PassedBound
      /\ (passed + 1 <= PassedBound => passed' = passed + 1)
      /\ (PassedBound <= passed + 1 => passed' = PassedBound)
  BY <1>2, <1>3 DEF Least
<1>5. pc' \in [Callers -> Places]
  BY <1>1, MoveTypes DEF RecordSuccess, TypeOK, Places
<1>6. CASE state # "halfOpen"
  <2>1. consecutiveFails' = 0 /\ state' = state
        /\ halfOpenSuccesses' = halfOpenSuccesses
    BY <1>6 DEF RecordSuccess, ForgetFailures
  <2>2. TypeOK'
    BY <2>1, <1>2, <1>3, <1>4, <1>5 DEF TypeOK, PassedBound
  <2>3. CountersJustified'
    BY <2>1, <1>3, <1>6 DEF CountersJustified
  <2>4. Transition
    BY <2>1, <1>6 DEF Transition
  <2> QED
    BY <2>2, <2>3, <2>4 DEF IInv
<1>7. CASE state = "halfOpen"
  <2>1. halfOpenSuccesses <= passed
    BY <1>1, <1>7 DEF CountersJustified
  <2>2. halfOpenSuccesses' = halfOpenSuccesses + 1
    BY <1>7 DEF RecordSuccess, CountTrial
  <2>3. CASE halfOpenSuccesses + 1 >= HalfOpenRequests
    <3>1. state' = "closed" /\ consecutiveFails' = 0
      BY <1>7, <2>3 DEF RecordSuccess, CountTrial
    <3>2. TypeOK'
      BY <3>1, <2>2, <1>2, <1>3, <1>4, <1>5 DEF TypeOK, PassedBound, BreakerStates
    <3>3. CountersJustified'
      BY <3>1, <1>3 DEF CountersJustified
    <3>4. passed' >= HalfOpenRequests
      BY <2>1, <2>3, <1>2, <1>4
    <3>5. Transition
      BY <3>1, <3>4, <1>7 DEF Transition
    <3> QED
      BY <3>2, <3>3, <3>5 DEF IInv
  <2>4. CASE halfOpenSuccesses + 1 < HalfOpenRequests
    <3>1. state' = state /\ consecutiveFails' = consecutiveFails
      BY <1>2, <1>7, <2>4 DEF RecordSuccess, CountTrial
    <3>2. TypeOK'
      BY <3>1, <2>2, <1>2, <1>3, <1>4, <1>5 DEF TypeOK, PassedBound
    <3>3. halfOpenSuccesses' <= passed'
      BY <2>1, <2>2, <2>4, <1>2, <1>4
    <3>4. CountersJustified'
      BY <3>1, <3>3, <2>2, <2>4, <1>1, <1>7 DEF CountersJustified
    <3>5. passed' >= passed
      BY <1>2, <1>4
    <3>6. Transition
      BY <3>1, <3>5, <1>7 DEF Transition
    <3> QED
      BY <3>2, <3>4, <3>6 DEF IInv
  <2> QED
    BY <1>2, <2>3, <2>4
<1> QED
  BY <1>6, <1>7

-----------------------------------------------------------------------------
(* The first call after the timeout.                                       *)
LEMMA HalfOpenKeepsIInv ==
  ASSUME IInv, NEW c \in Callers, HalfOpen(c)
  PROVE  IInv' /\ Transition
<1> USE OptionsAssumption
<1>1. TypeOK /\ CountersJustified
  BY DEF IInv
<1>2. /\ state = "open" /\ state' = "halfOpen" /\ halfOpenSuccesses' = 0
      /\ consecutiveFails' = consecutiveFails /\ age' = age /\ up' = up
      /\ failed' = failed /\ passed' = passed /\ age >= OpenTimeout
  BY DEF HalfOpen, Elapsed, history
<1>3. pc' \in [Callers -> Places]
  BY <1>1, MoveTypes DEF HalfOpen, TypeOK, Places
<1>4. TypeOK'
  BY <1>1, <1>2, <1>3 DEF TypeOK, BreakerStates, PassedBound
<1>5. CountersJustified'
  BY <1>1, <1>2 DEF CountersJustified, TypeOK
<1>6. Transition
  BY <1>1, <1>2 DEF Transition, TypeOK
<1> QED
  BY <1>4, <1>5, <1>6 DEF IInv

(* Every step keeps the invariant, and changes the breaker's state only as *)
(* Transition allows.                                                      *)
LEMMA NextIInv ==
  ASSUME IInv, [Next]_vars
  PROVE  IInv' /\ Transition
<1> USE OptionsAssumption
<1>1. TypeOK /\ CountersJustified
  BY DEF IInv
<1>2. ASSUME UNCHANGED <<breaker, history>>, up' \in BOOLEAN, pc' \in [Callers -> Places]
      PROVE  IInv' /\ Transition
  <2>1. TypeOK'
    BY <1>1, <1>2 DEF TypeOK, breaker, history, PassedBound
  <2>2. CountersJustified'
    BY <1>1, <1>2 DEF CountersJustified, breaker, history
  <2>3. passed' = passed /\ passed \in Nat /\ state' = state
    BY <1>1, <1>2 DEF TypeOK, breaker, history, PassedBound
  <2>4. Transition
    BY <2>3, <1>1 DEF Transition, TypeOK, BreakerStates
  <2> QED
    BY <2>1, <2>2, <2>4 DEF IInv
<1>3. ASSUME NEW c \in Callers, Reject(c) \/ PassThrough(c) \/ Serve(c) \/ Retry(c)
      PROVE  IInv' /\ Transition
  <2>1. pc' \in [Callers -> Places]
    BY <1>1, <1>3, MoveTypes DEF Reject, PassThrough, Serve, Retry, TypeOK, Places
  <2>2. UNCHANGED <<breaker, history>> /\ up' = up
    BY <1>3 DEF Reject, PassThrough, Serve, Retry
  <2> QED
    BY <2>1, <2>2, <1>1, <1>2 DEF TypeOK
<1>4. ASSUME NEW c \in Callers, HalfOpen(c) PROVE IInv' /\ Transition
  BY <1>4, HalfOpenKeepsIInv
<1>5. ASSUME NEW c \in Callers, RecordFailure(c) PROVE IInv' /\ Transition
  BY <1>5, FailureKeepsIInv
<1>6. ASSUME NEW c \in Callers, RecordSuccess(c) PROVE IInv' /\ Transition
  BY <1>6, SuccessKeepsIInv
<1>7. CASE ProviderChanges
  BY <1>1, <1>2, <1>7 DEF ProviderChanges, TypeOK
<1>8. CASE Tick
  <2>1. /\ state = "open" /\ state' = state /\ age' = age + 1 /\ age < OpenTimeout
        /\ consecutiveFails' = consecutiveFails /\ halfOpenSuccesses' = halfOpenSuccesses
        /\ pc' = pc /\ up' = up /\ failed' = failed /\ passed' = passed
    BY <1>8 DEF Tick, history
  <2>2. TypeOK'
    BY <2>1, <1>1 DEF TypeOK, PassedBound
  <2>3. CountersJustified'
    BY <2>1, <1>1 DEF CountersJustified
  <2>4. Transition
    BY <2>1 DEF Transition
  <2> QED
    BY <2>2, <2>3, <2>4 DEF IInv
<1>9. CASE UNCHANGED vars
  BY <1>1, <1>2, <1>9 DEF vars, TypeOK
<1> QED
  BY <1>3, <1>4, <1>5, <1>6, <1>7, <1>8, <1>9 DEF Next

-----------------------------------------------------------------------------
(* The inductive invariant holds in every state.                           *)
THEOREM Inductive == Spec => []IInv
<1>1. IInv /\ [Next]_vars => IInv'
  BY NextIInv
<1> QED
  BY InitIInv, <1>1, PTL DEF Spec

(* Every variable keeps its type, for any options and number of callers.   *)
THEOREM TypeCorrect == Spec => []TypeOK
<1>1. IInv => TypeOK
  BY DEF IInv
<1> QED
  BY Inductive, <1>1, PTL

(* Whatever late results are recorded, the counters stay below what would  *)
(* have moved the breaker and count nothing a later result made void       *)
(* (record).                                                               *)
THEOREM CountersAreJustified == Spec => []CountersJustified
<1>1. IInv => CountersJustified
  BY DEF IInv
<1> QED
  BY Inductive, <1>1, PTL

(* The breaker opens, half-opens and closes only for the reasons given:    *)
(* enough failures in a row, the timeout, enough successes in a row        *)
(* (allow, record).                                                        *)
THEOREM TransitionsAreJustified == Spec => Transitions
<1>1. IInv /\ [Next]_vars => [Transition]_vars
  BY NextIInv
<1> QED
  BY Inductive, <1>1, PTL DEF Spec, Transitions
=============================================================================
