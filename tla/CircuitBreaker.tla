--------------------------- MODULE CircuitBreaker ---------------------------
(***************************************************************************)
(* The circuit breaker in front of NodeService.FailoverNode                *)
(* (services/circuit_breaker.go), as several requests for one node see it. *)
(* Each method holds the mutex, but the work between CanAttempt and        *)
(* RecordSuccess or RecordFailure does not: results arrive late and in any *)
(* order, also after the breaker has opened or has been reset.  Keys share *)
(* only the mutex, so the module has one entry; a missing entry is Fresh.  *)
(***************************************************************************)
EXTENDS Naturals

CONSTANTS Callers,            \* requests that may be under way at once
          FailureThreshold,
          SuccessThreshold,
          MaxRetries,
          MaxRecords          \* bound: results recorded

ASSUME BreakerAssumption ==
  /\ FailureThreshold \in Nat \ {0} /\ SuccessThreshold \in Nat \ {0}
  /\ MaxRetries \in Nat \ {0} /\ MaxRecords \in Nat

VARIABLES entry,    \* State, FailureCount, SuccessCount and RetryCount
          cooled,   \* CooldownPeriod has passed since LastFailureAt
          trying,   \* callers between CanAttempt and the record
          streak,   \* history: failures recorded since a success or a reset
          records   \* results recorded so far

vars == <<entry, cooled, trying, streak, records>>

Entry(state, failures, successes, retries) ==
  [state |-> state, failures |-> failures, successes |-> successes, retries |-> retries]

(* The entry getEntry and the methods make for a key that has none.        *)
Fresh == Entry("closed", 0, 0, 0)

Init ==
  /\ entry = Fresh
  /\ cooled = TRUE
  /\ trying = {}
  /\ streak = 0 /\ records = 0

(* Mutant: the retries of the last closed period count against the probe.  *)
ProbeKeepsRetries == [entry EXCEPT !.state = "half-open", !.successes = 0]

(* An open entry whose cooldown is over becomes half-open.                 *)
Probe == [entry EXCEPT !.state = "half-open", !.successes = 0, !.retries = 0]

(* Mutant: nothing leads out of the open state.                            *)
AdmissibleUnlessOpen == entry.state # "open" /\ entry.retries < MaxRetries

(* CanAttempt returns nil.                                                 *)
Admissible == IF entry.state = "open" THEN cooled ELSE entry.retries < MaxRetries

CanAttempt(c) ==
  /\ c \notin trying
  /\ Admissible
  /\ entry' = IF entry.state = "open" THEN Probe ELSE entry
  /\ trying' = trying \cup {c}
  /\ UNCHANGED <<cooled, streak, records>>

(* The three branches of RecordSuccess.                                    *)
Succeeded ==
  LET count == entry.successes + 1
  IN  IF entry.state = "open" THEN Entry("half-open", entry.failures, 1, 0)
      ELSE IF entry.state = "closed" THEN Entry("closed", 0, count, 0)
      ELSE IF count < SuccessThreshold THEN Entry("half-open", entry.failures, count, 0)
      ELSE Entry("closed", 0, 0, 0)

RecordSuccess(c) ==
  /\ c \in trying /\ records < MaxRecords
  /\ entry' = Succeeded
  /\ streak' = 0 /\ records' = records + 1
  /\ trying' = trying \ {c}
  /\ UNCHANGED cooled

(* Mutant: a failed probe counts, but does not open the breaker again.     *)
FailedProbeIgnored ==
  LET count == entry.failures + 1
  IN  IF entry.state = "half-open" \/ (entry.state = "closed" /\ count < FailureThreshold)
        THEN Entry(entry.state, count, entry.successes, entry.retries + 1)
        ELSE Entry("open", count, 0, entry.retries + 1)

(* The three branches of RecordFailure.                                    *)
Failed ==
  LET count == entry.failures + 1
  IN  IF entry.state = "closed" /\ count < FailureThreshold
        THEN Entry("closed", count, entry.successes, entry.retries + 1)
        ELSE Entry("open", count, 0, entry.retries + 1)

RecordFailure(c) ==
  /\ c \in trying /\ records < MaxRecords
  /\ entry' = Failed
  /\ cooled' = FALSE
  /\ streak' = streak + 1 /\ records' = records + 1
  /\ trying' = trying \ {c}

(* FailoverNode returns an error before it has a result to record.         *)
Abandon(c) ==
  /\ c \in trying
  /\ trying' = trying \ {c}
  /\ UNCHANGED <<entry, cooled, streak, records>>

(* The cooldown passes.                                                    *)
CoolDown ==
  /\ ~cooled
  /\ cooled' = TRUE
  /\ UNCHANGED <<entry, trying, streak, records>>

(* Mutant: the entry is cleared in place, to Go's zero value.              *)
ResetInPlace ==
  /\ entry # Fresh
  /\ entry' = [Fresh EXCEPT !.state = ""] /\ streak' = 0
  /\ cooled' = TRUE
  /\ UNCHANGED <<trying, records>>

(* Reset and ResetAll delete the entry under the requests' feet.           *)
Reset ==
  /\ entry # Fresh
  /\ entry' = Fresh /\ streak' = 0
  /\ cooled' = TRUE
  /\ UNCHANGED <<trying, records>>

Next ==
  \/ \E c \in Callers : CanAttempt(c) \/ RecordSuccess(c) \/ RecordFailure(c) \/ Abandon(c)
  \/ CoolDown
  \/ Reset

Spec == Init /\ [][Next]_vars

(* Time passes.                                                            *)
FairSpec == Spec /\ WF_vars(CoolDown)

-----------------------------------------------------------------------------

(* entry, cooled, trying and the histories are what they are declared as.  *)
TypeOK ==
  /\ entry \in [state: {"closed", "open", "half-open"},
                failures: Nat, successes: Nat, retries: Nat]
  /\ cooled \in BOOLEAN /\ trying \subseteq Callers
  /\ streak \in Nat /\ records \in Nat

(* "the number of consecutive failures before opening"                     *)
(* (circuit_breaker.go:27): once FailureThreshold failures have come in    *)
(* without a success or a reset between them, no request gets past         *)
(* CanAttempt until the cooldown since the last failure is over, however   *)
(* late the results of earlier requests arrive.                            *)
TripsAtThreshold == streak >= FailureThreshold /\ ~cooled => ~Admissible

(* "Returns an error if the circuit is open or in cooldown"                *)
(* (circuit_breaker.go:94), and for no other reason: MaxRetries never      *)
(* shuts a breaker that is not open, from where only Reset would free it.  *)
RefusesOnlyOpen == ~Admissible => entry.state = "open"

(* A breaker that refuses a node's failover admits one again, by itself.   *)
(* A late failure only starts the cooldown anew, and there are finitely    *)
(* many of them while nothing is admitted.                                 *)
AdmitsAgain == []<>Admissible

=============================================================================
