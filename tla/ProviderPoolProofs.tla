-------------------------- MODULE ProviderPoolProofs --------------------------
(* Theorems about ProviderPool, for any providers, slots and thresholds.     *)
EXTENDS ProviderPool, TLAPS

\* A closed breaker has seen each failure it counts since the last success.
CountIsStreak ==
  \A i \in Provider : breaker[i].state = "closed" => breaker[i].failures <= streak[i]

\* A provider that never raises keeps its breaker closed, so no slot ever gets
\* past it.
ReliableFirst ==
  \A p \in reliable : /\ breaker[p].state = "closed" /\ breaker[p].failures = 0
                      /\ \A s \in Slot : at[s] <= p

BreakerInv == TypeOK /\ CountersAgree /\ CountIsStreak

-----------------------------------------------------------------------------
(* What each method of a breaker does to it.                                *)

LEMMA BumpRange ==
  ASSUME NEW n \in 0..Cap PROVE Bump(n) \in 0..Cap /\ n <= Bump(n)
BY BreakerConstantsOK DEF Bump

LEMMA FieldValues ==
  /\ 0 \in 0..Cap /\ 0 \in 0..Probes /\ Reset \in 0..Reset
  /\ {"closed", "open", "half_open"} \subseteq States
BY BreakerConstantsOK DEF States

LEMMA AfterAllowsKeeps ==
  ASSUME NEW b \in Breakers, Agrees(b)
  PROVE  /\ AfterAllows(b) \in Breakers /\ Agrees(AfterAllows(b))
         /\ AfterAllows(b).state = "closed" <=> b.state = "closed"
         /\ AfterAllows(b).failures = b.failures
<1>1. CASE BreakerEnabled /\ b.state = "open" /\ b.cooling = 0
  <2>1. AfterAllows(b) = [b EXCEPT !.state = "half_open", !.successes = 0]
    BY <1>1 DEF AfterAllows
  <2>2. AfterAllows(b) \in Breakers
    BY <2>1, FieldValues DEF Breakers
  <2>3. /\ AfterAllows(b).state = "half_open" /\ AfterAllows(b).successes = 0
        /\ AfterAllows(b).failures = b.failures
    BY <2>1 DEF Breakers
  <2> QED
    BY <1>1, <2>2, <2>3, BreakerConstantsOK DEF Agrees
<1>2. CASE ~(BreakerEnabled /\ b.state = "open" /\ b.cooling = 0)
  BY <1>2 DEF AfterAllows
<1> QED
  BY <1>1, <1>2

LEMMA CloseMakes ==
  ASSUME NEW b \in Breakers
  PROVE  /\ Close(b) \in Breakers /\ Close(b).state = "closed" /\ Close(b).failures = 0
         /\ Agrees(Close(b))
<1>1. Close(b) \in Breakers
  BY FieldValues DEF Close, Breakers
<1>2. Close(b).state = "closed" /\ Close(b).failures = 0
  BY DEF Close, Breakers
<1> QED
  BY <1>1, <1>2, BreakerConstantsOK DEF Agrees

LEMMA OpenMakes ==
  ASSUME NEW b \in Breakers
  PROVE  Open(b) \in Breakers /\ Open(b).state = "open" /\ Open(b).failures = b.failures
<1>1. (IF b.state = "open" THEN b.trips ELSE Bump(b.trips)) \in 0..Cap
  BY BumpRange DEF Breakers
<1>2. Open(b) \in Breakers
  BY <1>1, FieldValues DEF Open, Breakers
<1> QED
  BY <1>2 DEF Open, Breakers

LEMMA RecordSuccessKeeps ==
  ASSUME NEW b \in Breakers, Agrees(b)
  PROVE  /\ RecordSuccess(b) \in Breakers /\ Agrees(RecordSuccess(b))
         /\ RecordSuccess(b).state = "closed" => RecordSuccess(b).failures = 0
         /\ RecordSuccess(b).state # "open"
<1>1. CASE b.state # "half_open" \/ b.successes + 1 >= Probes
  <2>1. RecordSuccess(b) = Close(b)
    BY <1>1 DEF RecordSuccess
  <2> QED
    BY <2>1, CloseMakes
<1>2. CASE ~(b.state # "half_open" \/ b.successes + 1 >= Probes)
  <2>1. RecordSuccess(b) = [b EXCEPT !.successes = @ + 1]
    BY <1>2 DEF RecordSuccess
  <2>2. b.successes \in Nat /\ b.successes + 1 < Probes
    BY <1>2, BreakerConstantsOK DEF Breakers
  <2>3. /\ RecordSuccess(b) \in Breakers /\ RecordSuccess(b).state = "half_open"
        /\ RecordSuccess(b).successes < Probes /\ RecordSuccess(b).failures = b.failures
    BY <1>2, <2>1, <2>2, BreakerConstantsOK DEF Breakers
  <2> QED
    BY <1>2, <2>3 DEF Agrees
<1> QED
  BY <1>1, <1>2

LEMMA RecordFailureKeeps ==
  ASSUME NEW b \in Breakers, Agrees(b)
  PROVE  /\ RecordFailure(b) \in Breakers /\ Agrees(RecordFailure(b))
         /\ RecordFailure(b).failures = Bump(b.failures)
         /\ b.state = "closed" /\ RecordFailure(b).state = "open"
              => Bump(b.failures) >= Threshold
         /\ RecordFailure(b).state = "closed" => b.state = "closed"
<1>1. Bump(b.failures) \in 0..Cap /\ b.failures <= Bump(b.failures)
  BY BumpRange DEF Breakers
<1> DEFINE c == [b EXCEPT !.failures = Bump(@)]
<1>3. c \in Breakers /\ c.state = b.state /\ c.failures = Bump(b.failures)
  BY <1>1 DEF Breakers
<1>4. CASE b.state = "half_open" \/ c.failures >= Threshold
  <2>1. RecordFailure(b) = Open(c)
    BY <1>3, <1>4 DEF RecordFailure
  <2> QED
    <3>1. /\ RecordFailure(b) \in Breakers /\ RecordFailure(b).state = "open"
          /\ RecordFailure(b).failures = Bump(b.failures)
      BY <1>3, <2>1, OpenMakes
    <3>2. b.failures \in Nat /\ (b.state = "half_open" => b.failures >= Threshold)
      BY BreakerConstantsOK DEF Agrees, Breakers
    <3>3. Bump(b.failures) >= Threshold
      BY <1>1, <1>3, <1>4, <3>2, BreakerConstantsOK
    <3> QED
      BY <1>1, <3>1, <3>3, BreakerConstantsOK DEF Agrees
<1>5. CASE ~(b.state = "half_open" \/ c.failures >= Threshold)
  <2>1. RecordFailure(b) = c
    BY <1>3, <1>5 DEF RecordFailure
  <2> QED
    BY <1>1, <1>3, <1>5, <2>1, BreakerConstantsOK DEF Breakers, States, Agrees
<1> QED
  BY <1>4, <1>5

LEMMA CooledKeeps ==
  ASSUME NEW b \in Breakers
  PROVE  /\ Cooled(b) \in Breakers /\ Cooled(b).state = b.state
         /\ Cooled(b).failures = b.failures /\ Cooled(b).successes = b.successes
BY BreakerConstantsOK DEF Cooled, Breakers
-----------------------------------------------------------------------------
(* Types, and the counters of every breaker.                                *)

\* The loop of complete() only asks breakers whether they allow a call.
LEMMA TryFromKeeps ==
  ASSUME TypeOK, NEW s \in Slot, NEW first \in 1..(N + 1),
         NEW brk \in [Provider -> Breakers], \A i \in Provider : Agrees(brk[i]),
         TryFrom(s, first, brk)
  PROVE  /\ at' \in [Slot -> 0..N]
         /\ result' \in [Slot -> {"none", "completion", "UpstreamError"}]
         /\ breaker' \in [Provider -> Breakers] /\ calls' \in [Provider -> 0..Cap]
         /\ CountersAgree'
         /\ \A i \in Provider : /\ breaker'[i].state = "closed" <=> brk[i].state = "closed"
                               /\ breaker'[i].failures = brk[i].failures
<1>1. CASE CallFrom(s, first, brk)
  <2>1. PICK i \in first..N :
          /\ at' = [at EXCEPT ![s] = i]
          /\ breaker' = [brk EXCEPT ![i] = AfterAllows(brk[i])]
          /\ calls' = [calls EXCEPT ![i] = Bump(calls[i])]
          /\ UNCHANGED result
    BY <1>1 DEF CallFrom
  <2>2. i \in Provider /\ i \in 0..N
    BY PoolConstantsOK DEF Provider
  <2>3. Bump(calls[i]) \in 0..Cap
    BY <2>2, BumpRange DEF TypeOK
  <2>4. \A j \in Provider : breaker'[j] \in {brk[j], AfterAllows(brk[j])}
    BY <2>1, <2>2
  <2>5. breaker' \in [Provider -> Breakers]
    BY <2>1, <2>2, AfterAllowsKeeps
  <2>6. \A j \in Provider : /\ Agrees(breaker'[j])
                            /\ breaker'[j].state = "closed" <=> brk[j].state = "closed"
                            /\ breaker'[j].failures = brk[j].failures
    BY <2>4, AfterAllowsKeeps
  <2> QED
    BY <2>1, <2>2, <2>3, <2>5, <2>6 DEF TypeOK, CountersAgree, Agrees
<1>2. CASE RaiseFrom(s, first, brk)
  <2>1. 0 \in 0..N
    BY PoolConstantsOK
  <2> QED
    BY <1>2, <2>1 DEF RaiseFrom, TypeOK, CountersAgree, Agrees
<1> QED
  BY <1>1, <1>2 DEF TryFrom

LEMMA BreakerStep == BreakerInv /\ [Next]_vars => BreakerInv'
<1> SUFFICES ASSUME BreakerInv, [Next]_vars PROVE BreakerInv'
  OBVIOUS
<1>0. /\ TypeOK /\ CountersAgree /\ CountIsStreak
      /\ breaker \in [Provider -> Breakers] /\ \A i \in Provider : Agrees(breaker[i])
      /\ streak \in [Provider -> 0..Cap] /\ at \in [Slot -> 0..N]
  BY DEF BreakerInv, TypeOK, CountersAgree
<1>1. ASSUME NEW s \in Slot, Start(s) PROVE BreakerInv'
  <2>1. 1 \in 1..(N + 1) /\ TryFrom(s, 1, breaker) /\ UNCHANGED <<failovers, reliable, streak>>
    BY <1>1, PoolConstantsOK DEF Start
  <2> QED
    BY <1>0, <2>1, TryFromKeeps DEF BreakerInv, TypeOK, CountIsStreak
<1>2. ASSUME NEW s \in Slot, Succeed(s) PROVE BreakerInv'
  <2>1. at[s] \in Provider /\ 0 \in 0..N /\ 0 \in 0..Cap
    BY <1>0, <1>2, PoolConstantsOK, BreakerConstantsOK DEF Succeed, Provider
  <2>2. breaker' = [breaker EXCEPT ![at[s]] = RecordSuccess(breaker[at[s]])]
        /\ streak' = [streak EXCEPT ![at[s]] = 0]
    BY <1>2 DEF Succeed
  <2>3. breaker' \in [Provider -> Breakers] /\ streak' \in [Provider -> 0..Cap]
    BY <1>0, <2>1, <2>2, RecordSuccessKeeps
  <2>4. CountersAgree'
    BY <1>0, <2>1, <2>2, RecordSuccessKeeps DEF CountersAgree, Agrees
  <2>5. CountIsStreak'
    BY <1>0, <2>1, <2>2, RecordSuccessKeeps DEF CountIsStreak
  <2>6. failovers' \in 0..Cap
    BY <1>0, <1>2, BumpRange DEF Succeed, TypeOK
  <2>7. TypeOK'
    BY <1>2, <2>1, <2>3, <2>6 DEF Succeed, TypeOK, BreakerInv
  <2> QED
    BY <2>4, <2>5, <2>7 DEF BreakerInv
<1>3. ASSUME NEW s \in Slot, Fail(s) PROVE BreakerInv'
  <2> DEFINE recorded == [breaker EXCEPT ![at[s]] = RecordFailure(breaker[at[s]])]
  <2>1. at[s] \in Provider /\ NextInLine(s) \in 1..(N + 1)
    BY <1>0, <1>3, PoolConstantsOK DEF Fail, NextInLine, Provider
  <2>2. TryFrom(s, NextInLine(s), recorded) /\ streak' = [streak EXCEPT ![at[s]] = Bump(@)]
        /\ UNCHANGED <<failovers, reliable>>
    BY <1>3 DEF Fail
  <2>3. recorded \in [Provider -> Breakers] /\ \A i \in Provider : Agrees(recorded[i])
    BY <1>0, <2>1, RecordFailureKeeps
  <2>4. Bump(streak[at[s]]) \in 0..Cap
    BY <1>0, <2>1, BumpRange
  <2>5. /\ breaker' \in [Provider -> Breakers] /\ CountersAgree'
        /\ \A i \in Provider : /\ breaker'[i].state = "closed" <=> recorded[i].state = "closed"
                              /\ breaker'[i].failures = recorded[i].failures
        /\ at' \in [Slot -> 0..N] /\ calls' \in [Provider -> 0..Cap]
        /\ result' \in [Slot -> {"none", "completion", "UpstreamError"}]
    <3> HIDE DEF recorded
    <3> QED
      BY <1>0, <2>1, <2>2, <2>3, TryFromKeeps
  <2>6. TypeOK'
    BY <1>0, <2>1, <2>2, <2>4, <2>5 DEF TypeOK
  <2>7. ASSUME NEW i \in Provider, breaker'[i].state = "closed"
        PROVE  breaker'[i].failures <= streak'[i]
    <3>1. CASE i # at[s]
      BY <1>0, <2>1, <2>2, <2>5, <2>7, <3>1 DEF CountIsStreak
    <3>2. CASE i = at[s]
      <4>1. breaker[i].state = "closed" /\ breaker'[i].failures = Bump(breaker[i].failures)
        BY <1>0, <2>1, <2>5, <2>7, <3>2, RecordFailureKeeps
      <4>2. streak'[i] = Bump(streak[i]) /\ breaker[i].failures <= streak[i]
            /\ streak[i] \in 0..Cap /\ breaker[i].failures \in 0..Cap
        BY <1>0, <2>1, <2>2, <3>2, <4>1 DEF CountIsStreak, Breakers
      <4> QED
        BY <4>1, <4>2, BreakerConstantsOK DEF Bump
    <3> QED
      BY <3>1, <3>2
  <2> QED
    BY <2>5, <2>6, <2>7 DEF BreakerInv, CountIsStreak
<1>4. CASE Tick
  <2>1. breaker' = [i \in Provider |-> Cooled(breaker[i])]
        /\ UNCHANGED <<at, result, calls, failovers, reliable, streak>>
    BY <1>4 DEF Tick
  <2>2. breaker' \in [Provider -> Breakers]
    BY <1>0, <2>1, CooledKeeps
  <2>3. CountersAgree' /\ CountIsStreak'
    BY <1>0, <2>1, CooledKeeps DEF CountersAgree, Agrees, CountIsStreak
  <2> QED
    BY <1>0, <2>1, <2>2, <2>3 DEF BreakerInv, TypeOK
<1>5. CASE UNCHANGED vars
  BY <1>5 DEF vars, BreakerInv, TypeOK, CountersAgree, Agrees, CountIsStreak
<1> QED
  BY <1>1, <1>2, <1>3, <1>4, <1>5 DEF Next

LEMMA BreakerInvariant == Spec => []BreakerInv
<1>1. Init => BreakerInv
  BY PoolConstantsOK, BreakerConstantsOK
  DEF Init, BreakerInv, TypeOK, CountersAgree, Agrees, CountIsStreak, NewBreaker,
      Breakers, States, Provider
<1> QED
  BY <1>1, BreakerStep, PTL DEF Spec

\* Types: in particular no breaker leaves its three states.
THEOREM TypeCorrect == Spec => []TypeOK
<1>1. BreakerInv => TypeOK
  BY DEF BreakerInv
<1> QED
  BY <1>1, BreakerInvariant, PTL

\* A breaker is closed iff it has counted fewer failures than the threshold, and
\* half-open only while probes are missing (breaker.py), for any overlap of calls.
THEOREM CountersSafe == Spec => []CountersAgree
<1>1. BreakerInv => CountersAgree
  BY DEF BreakerInv
<1> QED
  BY <1>1, BreakerInvariant, PTL
-----------------------------------------------------------------------------
(* A trip takes a streak of failures.                                       *)

\* A step that starts with a closed breaker counts no failure that does not
\* belong to the streak.
LEMMA CountedInStreak ==
  ASSUME BreakerInv, [Next]_vars, NEW i \in Provider, breaker[i].state = "closed"
  PROVE  breaker'[i].failures <= streak'[i] \/ breaker'[i].state = "closed"
<1>0. /\ breaker \in [Provider -> Breakers] /\ \A j \in Provider : Agrees(breaker[j])
      /\ streak \in [Provider -> 0..Cap] /\ at \in [Slot -> 0..N] /\ TypeOK
      /\ breaker[i].failures <= streak[i]
  BY DEF BreakerInv, TypeOK, CountersAgree, CountIsStreak
<1>1. ASSUME NEW s \in Slot, Start(s) PROVE breaker'[i].state = "closed"
  <2>1. 1 \in 1..(N + 1) /\ TryFrom(s, 1, breaker)
    BY <1>1, PoolConstantsOK DEF Start
  <2> QED
    BY <1>0, <2>1, TryFromKeeps
<1>2. ASSUME NEW s \in Slot, Succeed(s) PROVE breaker'[i].state = "closed"
  <2>1. breaker'[i] \in {breaker[i], RecordSuccess(breaker[i])}
    BY <1>0, <1>2 DEF Succeed
  <2>2. RecordSuccess(breaker[i]) = Close(breaker[i])
    BY DEF RecordSuccess
  <2> QED
    BY <1>0, <2>1, <2>2, CloseMakes
<1>3. ASSUME NEW s \in Slot, Fail(s)
      PROVE  breaker'[i].failures <= streak'[i] \/ breaker'[i].state = "closed"
  <2> DEFINE recorded == [breaker EXCEPT ![at[s]] = RecordFailure(breaker[at[s]])]
  <2>1. at[s] \in Provider /\ NextInLine(s) \in 1..(N + 1)
    BY <1>0, <1>3, PoolConstantsOK DEF Fail, NextInLine, Provider
  <2>2. TryFrom(s, NextInLine(s), recorded) /\ streak' = [streak EXCEPT ![at[s]] = Bump(@)]
    BY <1>3 DEF Fail
  <2>3. recorded \in [Provider -> Breakers] /\ \A j \in Provider : Agrees(recorded[j])
    BY <1>0, <2>1, RecordFailureKeeps
  <2>4. /\ breaker'[i].state = "closed" <=> recorded[i].state = "closed"
        /\ breaker'[i].failures = recorded[i].failures
    <3> HIDE DEF recorded
    <3> QED
      BY <1>0, <2>1, <2>2, <2>3, TryFromKeeps
  <2>5. CASE i # at[s]
    BY <1>0, <2>4, <2>5
  <2>6. CASE i = at[s]
    <3>1. breaker'[i].failures = Bump(breaker[i].failures) /\ streak'[i] = Bump(streak[i])
      BY <1>0, <2>1, <2>2, <2>4, <2>6, RecordFailureKeeps
    <3>2. breaker[i].failures \in 0..Cap /\ streak[i] \in 0..Cap
      BY <1>0 DEF Breakers
    <3> QED
      BY <1>0, <3>1, <3>2, BreakerConstantsOK DEF Bump
  <2> QED
    BY <2>5, <2>6
<1>4. CASE Tick
  BY <1>0, <1>4, CooledKeeps DEF Tick
<1>5. CASE UNCHANGED vars
  BY <1>5 DEF vars
<1> QED
  BY <1>1, <1>2, <1>3, <1>4, <1>5 DEF Next

\* "Consecutive failures before opening" (README.md:209): a closed breaker opens
\* only on the last of Threshold failures with no success between them.
THEOREM TripsNeedStreaks == Spec => TripNeedsStreak
<1> DEFINE Trip == \A i \in Provider : breaker[i].state = "closed" /\ breaker'[i].state = "open"
                                       => streak'[i] >= Threshold
<1>1. BreakerInv /\ [Next]_vars => Trip
  <2> SUFFICES ASSUME BreakerInv, [Next]_vars, NEW i \in Provider,
                      breaker[i].state = "closed", breaker'[i].state = "open"
               PROVE  streak'[i] >= Threshold
    OBVIOUS
  <2>1. breaker'[i].failures <= streak'[i]
    BY CountedInStreak
  <2>2. BreakerInv'
    BY BreakerStep
  <2>3. breaker'[i].failures \in 0..Cap /\ streak'[i] \in 0..Cap /\ Agrees(breaker'[i])
    BY <2>2 DEF BreakerInv, TypeOK, CountersAgree, Agrees, Breakers
  <2> QED
    BY <2>1, <2>3, BreakerConstantsOK DEF Agrees
<1>2. BreakerInv /\ [Next]_vars => [Trip]_vars
  BY <1>1
<1> QED
  BY <1>2, BreakerInvariant, PTL DEF Spec, TripNeedsStreak
-----------------------------------------------------------------------------
(* A provider that never raises serves everyone.                            *)

\* The loop never goes past a provider whose breaker is closed.
LEMMA StopsAtClosed ==
  ASSUME TypeOK, NEW s \in Slot, NEW first \in 1..(N + 1),
         NEW brk \in [Provider -> Breakers], NEW p \in Provider, first <= p,
         brk[p].state = "closed", TryFrom(s, first, brk)
  PROVE  /\ breaker'[p] = brk[p] /\ UNCHANGED result
         /\ \A t \in Slot \ {s} : at'[t] = at[t]
         /\ at'[s] <= p
<1>1. Allows(brk[p]) /\ AfterAllows(brk[p]) = brk[p]
  BY DEF Allows, AfterAllows
<1>2. PICK i \in first..N :
        /\ \A j \in first..(i - 1) : ~Allows(brk[j])
        /\ at' = [at EXCEPT ![s] = i]
        /\ breaker' = [brk EXCEPT ![i] = AfterAllows(brk[i])]
        /\ UNCHANGED result
  BY <1>1, PoolConstantsOK DEF TryFrom, CallFrom, RaiseFrom, Provider
<1>3. i <= p
  BY <1>1, <1>2, PoolConstantsOK DEF Provider
<1> QED
  BY <1>1, <1>2, <1>3 DEF TypeOK

LEMMA ServiceStep == BreakerInv /\ ReliableFirst /\ ReliableServes /\ [Next]_vars
                     => (ReliableFirst /\ ReliableServes)'
<1> SUFFICES ASSUME BreakerInv, ReliableFirst, ReliableServes, [Next]_vars
             PROVE  (ReliableFirst /\ ReliableServes)'
  OBVIOUS
<1>0. /\ breaker \in [Provider -> Breakers] /\ at \in [Slot -> 0..N]
      /\ result \in [Slot -> {"none", "completion", "UpstreamError"}]
      /\ reliable \subseteq Provider /\ N \in Nat \ {0} /\ TypeOK /\ reliable' = reliable
      /\ \A i \in Provider : Agrees(breaker[i])
  BY PoolConstantsOK
  DEF BreakerInv, TypeOK, CountersAgree, Next, vars, Start, Succeed, Fail, Tick
<1>1. ASSUME NEW s \in Slot, Start(s) PROVE (ReliableFirst /\ ReliableServes)'
  <2>1. 1 \in 1..(N + 1) /\ TryFrom(s, 1, breaker) /\ \A p \in Provider : 1 <= p
    BY <1>0, <1>1 DEF Start, Provider
  <2>2. ASSUME NEW p \in reliable
        PROVE  /\ breaker'[p] = breaker[p] /\ UNCHANGED result
               /\ \A t \in Slot : at'[t] <= p
    BY <1>0, <2>1, StopsAtClosed DEF ReliableFirst
  <2> QED
    BY <1>0, <2>2 DEF ReliableFirst, ReliableServes
<1>2. ASSUME NEW s \in Slot, Succeed(s) PROVE (ReliableFirst /\ ReliableServes)'
  <2>1. /\ at' = [at EXCEPT ![s] = 0] /\ result' = [result EXCEPT ![s] = "completion"]
        /\ breaker' = [breaker EXCEPT ![at[s]] = RecordSuccess(breaker[at[s]])]
    BY <1>2 DEF Succeed
  <2>2. ReliableServes'
    BY <1>0, <2>1 DEF ReliableServes
  <2>3. ASSUME NEW p \in reliable
        PROVE  breaker'[p].state = "closed" /\ breaker'[p].failures = 0
    <3>1. breaker'[p] \in {breaker[p], RecordSuccess(breaker[p])} /\ breaker[p] \in Breakers
      BY <1>0, <2>1
    <3>2. RecordSuccess(breaker[p]) = Close(breaker[p])
      BY DEF ReliableFirst, RecordSuccess
    <3> QED
      BY <3>1, <3>2, CloseMakes DEF ReliableFirst
  <2>4. \A p \in reliable, t \in Slot : at'[t] <= p
    BY <1>0, <2>1 DEF ReliableFirst, Provider
  <2> QED
    BY <1>0, <2>2, <2>3, <2>4 DEF ReliableFirst
<1>3. ASSUME NEW s \in Slot, Fail(s) PROVE (ReliableFirst /\ ReliableServes)'
  <2> DEFINE recorded == [breaker EXCEPT ![at[s]] = RecordFailure(breaker[at[s]])]
  <2>1. /\ at[s] \in Provider /\ at[s] \notin reliable
        /\ NextInLine(s) \in 1..(N + 1) /\ NextInLine(s) = at[s] + 1
    BY <1>0, <1>3 DEF Fail, NextInLine, Provider
  <2>2. TryFrom(s, NextInLine(s), recorded)
    BY <1>3 DEF Fail
  <2>3. recorded \in [Provider -> Breakers]
    BY <1>0, <2>1, RecordFailureKeeps
  <2>4. ASSUME NEW p \in reliable
        PROVE  /\ breaker'[p] = breaker[p] /\ UNCHANGED result
               /\ \A t \in Slot : at'[t] <= p
    <3>1. recorded[p] = breaker[p] /\ recorded[p].state = "closed" /\ NextInLine(s) <= p
      BY <1>0, <2>1 DEF ReliableFirst, Provider
    <3> HIDE DEF recorded
    <3> QED
      BY <1>0, <2>1, <2>2, <2>3, <3>1, StopsAtClosed DEF ReliableFirst
  <2> QED
    BY <1>0, <2>4 DEF ReliableFirst, ReliableServes
<1>4. CASE Tick
  BY <1>0, <1>4, CooledKeeps DEF Tick, ReliableFirst, ReliableServes
<1>5. CASE UNCHANGED vars
  BY <1>5 DEF vars, ReliableFirst, ReliableServes
<1> QED
  BY <1>1, <1>2, <1>3, <1>4, <1>5 DEF Next

\* One provider that never raises, wherever it stands in the order, is enough for
\* complete() never to raise UpstreamError ("100% request availability with the
\* primary failing 100% of requests", ARCHITECTURE.md:118-119).
THEOREM ReliableProviderServes == Spec => []ReliableServes
<1>1. Init => ReliableFirst /\ ReliableServes
  BY PoolConstantsOK DEF Init, ReliableFirst, ReliableServes, NewBreaker, Provider
<1> QED
  BY <1>1, ServiceStep, BreakerInvariant, PTL DEF Spec
-----------------------------------------------------------------------------
(* Recovery, where no two calls overlap.                                     *)

\* The provider a slot awaits was allowed, and nothing has happened to its breaker
\* but time.
AllowedStill == \A s \in Slot : at[s] # 0 => breaker[at[s]].state # "open"

LEMMA CallsAllowed ==
  ASSUME BreakerEnabled, TypeOK, NEW s \in Slot, NEW first \in 1..(N + 1),
         NEW brk \in [Provider -> Breakers], TryFrom(s, first, brk)
  PROVE  at'[s] # 0 => breaker'[at'[s]].state # "open"
<1>1. CASE CallFrom(s, first, brk)
  <2>1. PICK i \in first..N :
          /\ Allows(brk[i]) /\ at' = [at EXCEPT ![s] = i]
          /\ breaker' = [brk EXCEPT ![i] = AfterAllows(brk[i])]
    BY <1>1 DEF CallFrom
  <2>2. i \in Provider /\ at'[s] = i /\ breaker'[i] = AfterAllows(brk[i]) /\ brk[i] \in Breakers
    BY <2>1, PoolConstantsOK DEF Provider, TypeOK
  <2>3. CASE brk[i].state = "open"
    <3>1. AfterAllows(brk[i]) = [brk[i] EXCEPT !.state = "half_open", !.successes = 0]
      BY <2>1, <2>3 DEF Allows, AfterAllows
    <3> QED
      BY <2>2, <3>1 DEF Breakers
  <2>4. CASE brk[i].state # "open"
    BY <2>2, <2>4 DEF AfterAllows
  <2> QED
    BY <2>3, <2>4
<1>2. CASE RaiseFrom(s, first, brk)
  BY <1>2 DEF RaiseFrom, TypeOK
<1> QED
  BY <1>1, <1>2 DEF TryFrom

LEMMA RecoveryStep ==
  ASSUME BreakerEnabled, \A s, t \in Slot : s = t, BreakerInv, AllowedStill, [Next]_vars
  PROVE  /\ AllowedStill'
         /\ \A i \in Provider : breaker[i].state = "open" => breaker'[i].state # "closed"
<1>0. /\ breaker \in [Provider -> Breakers] /\ \A i \in Provider : Agrees(breaker[i])
      /\ at \in [Slot -> 0..N] /\ TypeOK
  BY DEF BreakerInv, TypeOK, CountersAgree
<1>1. ASSUME NEW s \in Slot, Start(s)
      PROVE  /\ AllowedStill'
             /\ \A i \in Provider : breaker[i].state = "open" => breaker'[i].state # "closed"
  <2>1. 1 \in 1..(N + 1) /\ TryFrom(s, 1, breaker)
    BY <1>1, PoolConstantsOK DEF Start
  <2>2. at'[s] # 0 => breaker'[at'[s]].state # "open"
    BY <1>0, <2>1, CallsAllowed
  <2>3. \A i \in Provider : breaker'[i].state = "closed" <=> breaker[i].state = "closed"
    BY <1>0, <2>1, TryFromKeeps
  <2> QED
    BY <2>2, <2>3 DEF AllowedStill
<1>2. ASSUME NEW s \in Slot, Succeed(s)
      PROVE  /\ AllowedStill'
             /\ \A i \in Provider : breaker[i].state = "open" => breaker'[i].state # "closed"
  <2>1. /\ at[s] # 0 /\ at'[s] = 0
        /\ \A i \in Provider : i # at[s] => breaker'[i] = breaker[i]
    BY <1>0, <1>2 DEF Succeed
  <2>2. AllowedStill'
    BY <2>1 DEF AllowedStill
  <2> QED
    BY <2>1, <2>2 DEF AllowedStill
<1>3. ASSUME NEW s \in Slot, Fail(s)
      PROVE  /\ AllowedStill'
             /\ \A i \in Provider : breaker[i].state = "open" => breaker'[i].state # "closed"
  <2> DEFINE recorded == [breaker EXCEPT ![at[s]] = RecordFailure(breaker[at[s]])]
  <2>1. at[s] \in Provider /\ NextInLine(s) \in 1..(N + 1)
    BY <1>0, <1>3, PoolConstantsOK DEF Fail, NextInLine, Provider
  <2>2. TryFrom(s, NextInLine(s), recorded)
    BY <1>3 DEF Fail
  <2>3. recorded \in [Provider -> Breakers] /\ \A i \in Provider : Agrees(recorded[i])
    BY <1>0, <2>1, RecordFailureKeeps
  <2>4. \A i \in Provider : recorded[i].state = "closed" => breaker[i].state = "closed"
    BY <1>0, <2>1, RecordFailureKeeps
  <2> HIDE DEF recorded
  <2>5. at'[s] # 0 => breaker'[at'[s]].state # "open"
    BY <1>0, <2>1, <2>2, <2>3, CallsAllowed
  <2>6. \A i \in Provider : breaker'[i].state = "closed" <=> recorded[i].state = "closed"
    BY <1>0, <2>1, <2>2, <2>3, TryFromKeeps
  <2> QED
    BY <2>4, <2>5, <2>6 DEF AllowedStill
<1>4. CASE Tick
  <2>1. \A i \in Provider : breaker'[i].state = breaker[i].state
    BY <1>0, <1>4, CooledKeeps DEF Tick
  <2>2. at' = at /\ \A s \in Slot : at[s] # 0 => at[s] \in Provider
    BY <1>0, <1>4, PoolConstantsOK DEF Tick, Provider
  <2> QED
    BY <2>1, <2>2 DEF AllowedStill
<1>5. CASE UNCHANGED vars
  BY <1>5 DEF vars, AllowedStill
<1> QED
  BY <1>1, <1>2, <1>3, <1>4, <1>5 DEF Next

\* What ARCHITECTURE.md:121-122 says of recovery does hold of requests that come one
\* at a time, for any providers, threshold, timeout and number of probes: an open
\* breaker never closes without having been half-open.
THEOREM RecoveryTakesProbes ==
  ASSUME BreakerEnabled, \A s, t \in Slot : s = t
  PROVE  Spec => NoDirectClose
<1> DEFINE Kept == \A i \in Provider : breaker[i].state = "open" => breaker'[i].state # "closed"
<1>1. Init => AllowedStill
  BY DEF Init, AllowedStill
<1>2. BreakerInv /\ AllowedStill /\ [Next]_vars => AllowedStill' /\ [Kept]_vars
  BY RecoveryStep
<1> QED
  BY <1>1, <1>2, BreakerInvariant, PTL DEF Spec, NoDirectClose
=============================================================================
