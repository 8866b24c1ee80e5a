----------------------------- MODULE ProviderPool -----------------------------
(***************************************************************************)
(* ProviderPool.complete (gateway/providers.py) in one gateway process:    *)
(* ordered failover over providers guarded by one breaker each.  A request *)
(* gives up the event loop only while a provider works on its call, so a   *)
(* step is: record the outcome of a call, and go on to the next provider   *)
(* that is allowed, or return.  Calls of many requests overlap: an outcome *)
(* may be recorded long after the breaker left the state it was called in. *)
(***************************************************************************)
EXTENDS Breaker

CONSTANTS
  Slot,       \* places for concurrent calls of complete(), used again and again
  N           \* number of providers, tried in the order 1..N

Provider == 1..N

ASSUME PoolConstantsOK == N \in Nat \ {0}

VARIABLES
  at,         \* provider a slot awaits, 0 if the slot is idle
  result,     \* how the last call of complete() in the slot ended
  breaker,    \* provider.breaker
  calls,      \* provider.calls
  failovers,  \* pool.failovers
  reliable,   \* providers that never raise, which the environment fixes
  streak      \* history: failures recorded since the last recorded success

vars == <<at, result, breaker, calls, failovers, reliable, streak>>

TypeOK ==
  /\ at \in [Slot -> 0..N]
  /\ result \in [Slot -> {"none", "completion", "UpstreamError"}]
  /\ breaker \in [Provider -> Breakers]
  /\ calls \in [Provider -> 0..Cap]
  /\ failovers \in 0..Cap
  /\ reliable \subseteq Provider
  /\ streak \in [Provider -> 0..Cap]

Init ==
  /\ at = [s \in Slot |-> 0]
  /\ result = [s \in Slot |-> "none"]
  /\ breaker = [i \in Provider |-> NewBreaker]
  /\ calls = [i \in Provider |-> 0]
  /\ failovers = 0
  /\ reliable \in SUBSET Provider
  /\ streak = [i \in Provider |-> 0]
-----------------------------------------------------------------------------
\* The loop of complete() from provider `first` on, the breakers being brk: the
\* first provider that is allowed is called.
CallFrom(s, first, brk) ==
  \E i \in first..N :
    /\ Allows(brk[i]) /\ \A j \in first..(i - 1) : ~Allows(brk[j])
    /\ at' = [at EXCEPT ![s] = i]
    /\ breaker' = [brk EXCEPT ![i] = AfterAllows(@)]
    /\ calls' = [calls EXCEPT ![i] = Bump(@)]
    /\ UNCHANGED result

\* No provider is left: UpstreamError is raised.
RaiseFrom(s, first, brk) ==
  /\ \A i \in first..N : ~Allows(brk[i])
  /\ at' = [at EXCEPT ![s] = 0]
  /\ result' = [result EXCEPT ![s] = "UpstreamError"]
  /\ breaker' = brk
  /\ UNCHANGED calls

TryFrom(s, first, brk) == CallFrom(s, first, brk) \/ RaiseFrom(s, first, brk)

Start(s) ==
  /\ at[s] = 0
  /\ TryFrom(s, 1, breaker)
  /\ UNCHANGED <<failovers, reliable, streak>>

\* The awaited provider returns a completion.
Succeed(s) ==
  /\ at[s] # 0
  /\ at' = [at EXCEPT ![s] = 0]
  /\ result' = [result EXCEPT ![s] = "completion"]
  /\ breaker' = [breaker EXCEPT ![at[s]] = RecordSuccess(@)]
  /\ failovers' = IF at[s] > 1 THEN Bump(failovers) ELSE failovers
  /\ streak' = [streak EXCEPT ![at[s]] = 0]
  /\ UNCHANGED <<calls, reliable>>

\* Where the loop goes on after a failed provider.
NextInLineNone(s) == N + 1
NextInLine(s) == at[s] + 1

\* The awaited provider raises: an error status, a timeout, an unusable body.
Fail(s) ==
  /\ at[s] # 0 /\ at[s] \notin reliable
  /\ TryFrom(s, NextInLine(s), [breaker EXCEPT ![at[s]] = RecordFailure(@)])
  /\ streak' = [streak EXCEPT ![at[s]] = Bump(@)]
  /\ UNCHANGED <<failovers, reliable>>

Tick ==
  /\ \E i \in Provider : breaker[i].cooling > 0
  /\ breaker' = [i \in Provider |-> Cooled(breaker[i])]
  /\ UNCHANGED <<at, result, calls, failovers, reliable, streak>>

Next == (\E s \in Slot : Start(s) \/ Succeed(s) \/ Fail(s)) \/ Tick

Spec == Init /\ [][Next]_vars

\* Calls end (httpx gives them a timeout) and time passes; and, what clients and
\* not the code provide, requests keep coming.
Fairness ==
  /\ \A s \in Slot : WF_vars(Start(s)) /\ WF_vars(Succeed(s) \/ Fail(s))
  /\ WF_vars(Tick)

FairSpec == Spec /\ Fairness
-----------------------------------------------------------------------------
(* Properties.                                                              *)

\* State and counters of a breaker agree whatever outcomes arrive late: it is
\* closed iff it has counted fewer failures than the threshold, and half-open
\* only while it still waits for probes (breaker.py:30-67).
Agrees(b) == /\ b.state = "closed" <=> b.failures < Threshold
             /\ b.state = "half_open" => b.successes < Probes
CountersAgree == \A i \in Provider : Agrees(breaker[i])

\* A closed breaker opens only after Threshold failures with no success between
\* them ("Consecutive failures before opening", README.md:209).
TripNeedsStreak ==
  [][\A i \in Provider :
       breaker[i].state = "closed" /\ breaker'[i].state = "open"
       => streak'[i] >= Threshold]_vars

\* While some provider never raises, no request ends in UpstreamError, however
\* the others fail (ARCHITECTURE.md:118-119, providers.py:113-127).
ReliableServes ==
  reliable # {} => \A s \in Slot : result[s] # "UpstreamError"

\* Once the first provider stops failing, its breaker closes for good: it cannot
\* stay open or half-open while requests come (breaker.py:30-49).
PrimaryReturns ==
  <>[][\A s \in Slot : at[s] = 1 => ~Fail(s)]_vars
  => <>[](breaker[1].state = "closed")

\* What ARCHITECTURE.md:121-122 says: recovery takes Probes successful probes, so
\* an open breaker never closes without having been half-open.
NoDirectClose ==
  [][\A i \in Provider :
       breaker[i].state = "open" => breaker'[i].state # "closed"]_vars
=============================================================================
