------------------------ MODULE CircuitBreakerProofs ------------------------
(***************************************************************************)
(* TripsAtThreshold holds for every configuration of the breaker and any   *)
(* number of requests; RefusesOnlyOpen for every configuration that can    *)
(* count FailureThreshold failures before it runs out of retries.          *)
(***************************************************************************)
EXTENDS CircuitBreaker, TLAPS

(* The inductive invariant: while closed, FailureCount, RetryCount and the *)
(* streak agree below the threshold; while half-open there is no retry     *)
(* counted, and no long streak whose cooldown is not over.                 *)
BreakerInv ==
  /\ TypeOK
  /\ entry.state = "closed" =>
       entry.failures = streak /\ entry.retries = streak /\ streak < FailureThreshold
  /\ entry.state = "half-open" =>
       entry.retries = 0 /\ (streak >= FailureThreshold => cooled)

(* What RecordSuccess makes of the entry: not open, and without retries.   *)
LEMMA SucceededFacts ==
  ASSUME TypeOK
  PROVE  /\ Succeeded \in [state: {"closed", "half-open"},
                           failures: Nat, successes: Nat, retries: {0}]
         /\ Succeeded.state = "closed" => Succeeded.failures = 0
<1>1. CASE entry.state = "half-open"
  BY <1>1, BreakerAssumption DEF TypeOK, Succeeded, Entry
<1>2. CASE entry.state = "open"
  BY <1>2 DEF TypeOK, Succeeded, Entry
<1>3. CASE entry.state = "closed"
  BY <1>3 DEF TypeOK, Succeeded, Entry
<1>. QED  BY <1>1, <1>2, <1>3 DEF TypeOK

(* What RecordFailure makes of it: open, unless it was closed and stays    *)
(* below the threshold with one more failure and one more retry.           *)
LEMMA FailedFacts ==
  ASSUME TypeOK
  PROVE  /\ Failed \in [state: {"closed", "open"},
                        failures: Nat, successes: Nat, retries: Nat]
         /\ Failed.state = "closed" =>
              /\ entry.state = "closed"
              /\ Failed.failures = entry.failures + 1
              /\ Failed.retries = entry.retries + 1
              /\ Failed.failures < FailureThreshold
  BY BreakerAssumption DEF TypeOK, Failed, Entry

(* Every method of the breaker keeps the inductive invariant.              *)
THEOREM BreakerInvariant == Spec => []BreakerInv
<1>1. Init => BreakerInv
  BY BreakerAssumption DEF Init, Fresh, Entry, BreakerInv, TypeOK
<1>2. BreakerInv /\ [Next]_vars => BreakerInv'
  <2>. SUFFICES ASSUME BreakerInv, [Next]_vars PROVE BreakerInv'
    OBVIOUS
  <2>. USE BreakerAssumption
  <2>1. ASSUME NEW c \in Callers, CanAttempt(c) PROVE BreakerInv'
    BY <2>1 DEF BreakerInv, TypeOK, CanAttempt, Admissible, Probe
  <2>2. ASSUME NEW c \in Callers, RecordSuccess(c) PROVE BreakerInv'
    <3>1. TypeOK /\ entry' = Succeeded /\ streak' = 0
      BY <2>2 DEF BreakerInv, RecordSuccess
    <3>2. TypeOK'
      BY <2>2, <3>1, SucceededFacts DEF TypeOK, RecordSuccess
    <3>3. entry'.retries = 0 /\ (entry'.state = "closed" => entry'.failures = 0)
      BY <3>1, SucceededFacts
    <3>. QED  BY <3>1, <3>2, <3>3 DEF BreakerInv
  <2>3. ASSUME NEW c \in Callers, RecordFailure(c) PROVE BreakerInv'
    <3>1. TypeOK /\ entry' = Failed /\ streak' = streak + 1
      BY <2>3 DEF BreakerInv, RecordFailure
    <3>2. TypeOK'
      <4>1. entry' \in [state: {"closed", "open", "half-open"},
                        failures: Nat, successes: Nat, retries: Nat]
        BY <3>1, FailedFacts
      <4>2. cooled' \in BOOLEAN /\ trying' \subseteq Callers
        BY <2>3, <3>1 DEF TypeOK, RecordFailure
      <4>3. streak' \in Nat /\ records' \in Nat
        BY <2>3, <3>1 DEF TypeOK, RecordFailure
      <4>. QED  BY <4>1, <4>2, <4>3 DEF TypeOK
    <3>3. entry'.state # "half-open"
      BY <3>1, FailedFacts
    <3>4. entry'.state = "closed" =>
            entry'.failures = streak' /\ entry'.retries = streak' /\ streak' < FailureThreshold
      BY <3>1, FailedFacts DEF BreakerInv
    <3>. QED  BY <3>2, <3>3, <3>4 DEF BreakerInv
  <2>4. ASSUME NEW c \in Callers, Abandon(c) PROVE BreakerInv'
    BY <2>4 DEF BreakerInv, TypeOK, Abandon
  <2>5. CASE CoolDown
    BY <2>5 DEF BreakerInv, TypeOK, CoolDown
  <2>6. CASE Reset
    BY <2>6 DEF BreakerInv, TypeOK, Reset, Fresh, Entry
  <2>7. CASE UNCHANGED vars
    BY <2>7 DEF BreakerInv, TypeOK, vars
  <2>. QED  BY <2>1, <2>2, <2>3, <2>4, <2>5, <2>6, <2>7 DEF Next
<1>. QED  BY <1>1, <1>2, PTL DEF Spec

(* After FailureThreshold failures in a row nothing is admitted before the *)
(* cooldown is over, whatever the configuration and however the methods    *)
(* interleave (CanAttempt, RecordFailure).                                 *)
THEOREM BreakerTrips == Spec => []TripsAtThreshold
<1>1. BreakerInv => TripsAtThreshold
  BY BreakerAssumption DEF BreakerInv, TypeOK, TripsAtThreshold, Admissible
<1>. QED  BY <1>1, BreakerInvariant, PTL

(* Where MaxRetries is not below FailureThreshold, as for the failover     *)
(* breaker (5 and 2), CanAttempt refuses only while the breaker is open.   *)
THEOREM BreakerRefusesOnlyOpen ==
  ASSUME FailureThreshold <= MaxRetries
  PROVE  Spec => []RefusesOnlyOpen
<1>1. BreakerInv => RefusesOnlyOpen
  BY BreakerAssumption DEF BreakerInv, TypeOK, RefusesOnlyOpen, Admissible
<1>. QED  BY <1>1, BreakerInvariant, PTL

=============================================================================
