------------------------------- MODULE Breaker -------------------------------
(***************************************************************************)
(* CircuitBreaker (gateway/breaker.py): the value of one breaker and what  *)
(* each of its methods does to it.  Methods do not await, so each is       *)
(* atomic in its process.                                                  *)
(***************************************************************************)
EXTENDS Integers

CONSTANTS
  BreakerEnabled,  \* settings.breaker_enabled
  Threshold,       \* settings.breaker_fail_threshold
  Reset,           \* settings.breaker_reset_timeout_s, in ticks
  Probes,          \* settings.breaker_half_open_probes
  Cap              \* bound of this model: counters that only grow stop at Cap

ASSUME BreakerConstantsOK ==
  /\ BreakerEnabled \in BOOLEAN
  /\ Threshold \in Nat \ {0} /\ Probes \in Nat \ {0} /\ Reset \in Nat
  /\ Cap \in Nat /\ Cap >= Threshold

States == {"closed", "open", "half_open"}

\* "cooling" is what is left of the reset timeout counted from opened_at.
Breakers == [state : States, failures : 0..Cap, successes : 0..Probes,
             trips : 0..Cap, cooling : 0..Reset]

NewBreaker == [state |-> "closed", failures |-> 0, successes |-> 0,
               trips |-> 0, cooling |-> 0]

Bump(n) == IF n < Cap THEN n + 1 ELSE n

\* What allows() returns, and what it does to the breaker.
AllowsBeforeReset(b) == TRUE
Allows(b) == ~BreakerEnabled \/ b.state # "open" \/ b.cooling = 0
AfterAllows(b) ==
  IF BreakerEnabled /\ b.state = "open" /\ b.cooling = 0
  THEN [b EXCEPT !.state = "half_open", !.successes = 0]
  ELSE b

Open(b) ==
  [b EXCEPT !.state = "open", !.cooling = Reset,
            !.trips = IF b.state = "open" THEN @ ELSE Bump(@)]

CloseKeepingCount(b) == [b EXCEPT !.state = "closed", !.successes = 0]
Close(b) == [b EXCEPT !.state = "closed", !.failures = 0, !.successes = 0]

RecordSuccessUncounted(b) == IF b.state = "half_open" THEN b ELSE Close(b)
RecordSuccessOnlyHalfOpen(b) ==
  IF b.state # "half_open" THEN b
  ELSE IF b.successes + 1 >= Probes THEN Close(b)
  ELSE [b EXCEPT !.successes = @ + 1]
RecordSuccessStillProbing(b) ==
  IF b.state # "half_open" THEN Close(b) ELSE [b EXCEPT !.successes = @ + 1]
RecordSuccess(b) ==
  IF b.state # "half_open" \/ b.successes + 1 >= Probes THEN Close(b)
  ELSE [b EXCEPT !.successes = @ + 1]

RecordFailureOnce(b) == Open([b EXCEPT !.failures = Bump(@)])
RecordFailure(b) ==
  LET counted == [b EXCEPT !.failures = Bump(@)]
  IN  IF b.state = "half_open" \/ counted.failures >= Threshold
      THEN Open(counted) ELSE counted

\* Time passes.
Cooled(b) == [b EXCEPT !.cooling = IF @ > 0 THEN @ - 1 ELSE 0]
=============================================================================
