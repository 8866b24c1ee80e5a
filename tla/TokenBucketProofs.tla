-------------------------- MODULE TokenBucketProofs --------------------------
(* Theorems about TokenBucket, for any calls, clients, costs and TTLs.       *)
EXTENDS TokenBucket, TLAPS

\* No call has read a clock that is ahead.
NowIsPast == \A r \in Req : now[r] <= clock

\* A call that is about to write leaves the bucket at least empty by now.
LeavesNoDebt == \A r \in Req : pc[r] = "set" => left[r] + (clock - now[r]) >= 0

\* A stored bucket has refilled since its last write, whatever was written then.
RefilledSince ==
  \A c \in Client : bucket[c].ttl > 0 =>
    bucket[c].tokens + (clock - bucket[c].ts) >= BucketTTL - bucket[c].ttl

\* When the wait is over that its last writer was told of, a stored bucket holds the
\* price of a request.
WorthTheWait ==
  \A c \in Client : \A due \in told[c] :
    bucket[c].ttl > 0 => bucket[c].tokens + (due - bucket[c].ts) >= Cost

DebtInv == TypeOK /\ NowIsPast /\ LeavesNoDebt /\ RefilledSince /\ WorthTheWait

-----------------------------------------------------------------------------
LEMMA LevelType ==
  ASSUME NEW b \in Buckets, NEW t \in Nat
  PROVE  /\ Level(b, t) \in Int /\ Level(b, t) <= Burst
         /\ b.ttl = 0 => Level(b, t) = Burst
         /\ b.ttl # 0 => \/ Level(b, t) = Burst
                         \/ Level(b, t) = b.tokens + (t - b.ts)
         /\ b.ttl # 0 => Level(b, t) <= b.tokens + (t - b.ts)
BY BucketConstantsOK DEF Level, Lower, Buckets

LEMMA AgedType ==
  ASSUME NEW b \in Buckets
  PROVE  /\ Aged(b) \in Buckets
         /\ Aged(b).ttl > 0 => /\ b.ttl > 0 /\ Aged(b).ttl = b.ttl - 1
                               /\ Aged(b).tokens = b.tokens /\ Aged(b).ts = b.ts
<1>1. CASE b.ttl <= 1
  BY <1>1, BucketConstantsOK DEF Aged, Buckets, NoBucket
<1>2. CASE b.ttl > 1
  <2>1. Aged(b) = [b EXCEPT !.ttl = b.ttl - 1] /\ b.ttl - 1 \in 0..BucketTTL
    BY <1>2, BucketConstantsOK DEF Aged, Buckets
  <2> QED
    BY <1>2, <2>1 DEF Buckets
<1> QED
  BY <1>1, <1>2, BucketConstantsOK DEF Buckets

LEMMA StoredType ==
  ASSUME TypeOK, NEW r \in Req
  PROVE  /\ Stored(r) \in Buckets
         /\ Stored(r).tokens = left[r] /\ Stored(r).ts = now[r] /\ Stored(r).ttl = BucketTTL
BY BucketConstantsOK DEF Stored, Buckets, TypeOK

LEMMA DebtStep == DebtInv /\ [Next]_vars => DebtInv'
<1> SUFFICES ASSUME DebtInv, [Next]_vars PROVE DebtInv'
  OBVIOUS
<1>0. /\ TypeOK /\ NowIsPast /\ LeavesNoDebt /\ RefilledSince /\ WorthTheWait
      /\ clock \in Nat /\ bucket \in [Client -> Buckets] /\ client \in [Req -> Client]
      /\ pc \in [Req -> {"idle", "get", "set", "done", "failed"}]
      /\ now \in [Req -> Nat] /\ left \in [Req -> Int] /\ told \in [Client -> SUBSET Int]
  BY DEF DebtInv, TypeOK
<1>1. ASSUME NEW r \in Req, Begin(r) PROVE DebtInv'
  <2>1. TypeOK'
    BY <1>0, <1>1 DEF Begin, TypeOK, MidwayFor
  <2>2. (NowIsPast /\ LeavesNoDebt /\ RefilledSince /\ WorthTheWait)'
    BY <1>0, <1>1 DEF Begin, NowIsPast, LeavesNoDebt, RefilledSince,
     WorthTheWait
  <2> QED
    BY <2>1, <2>2 DEF DebtInv
<1>2. ASSUME NEW r \in Req, Get(r) PROVE DebtInv'
  <2> DEFINE b == bucket[client[r]]
             level == Level(b, now[r])
  <2>1. b \in Buckets /\ now[r] \in Nat /\ now[r] <= clock
    BY <1>0 DEF NowIsPast
  <2>2. level \in Int /\ Remaining(level) \in Int
    BY <2>1, LevelType, BucketConstantsOK DEF Remaining
  <2>3. TypeOK'
    BY <1>0, <1>2, <2>2 DEF Get, TypeOK, histVars
  <2>4. Remaining(level) + (clock - now[r]) >= 0
    <3>1. CASE level >= Cost
      BY <1>0, <2>1, <2>2, <3>1, BucketConstantsOK DEF Remaining
    <3>2. CASE level < Cost
      <4>1. Remaining(level) = level
        BY <2>2, <3>2, BucketConstantsOK DEF Remaining
      <4>2. CASE level = Burst
        BY <1>0, <2>1, <4>1, <4>2, BucketConstantsOK
      <4>3. CASE b.ttl # 0 /\ level = b.tokens + (now[r] - b.ts)
        <5>1. b.tokens + (clock - b.ts) >= 0
          BY <1>0, <2>1, <4>3, BucketConstantsOK DEF RefilledSince, Buckets
        <5> QED
          BY <1>0, <2>1, <4>1, <4>3, <5>1 DEF Buckets
      <4> QED
        BY <2>1, <4>2, <4>3, LevelType
    <3> QED
      BY <2>2, <3>1, <3>2, BucketConstantsOK
  <2>5. LeavesNoDebt'
    BY <1>0, <1>2, <2>4 DEF Get, LeavesNoDebt
  <2> QED
    BY <1>0, <1>2, <2>3, <2>5 DEF Get, histVars, DebtInv, NowIsPast, RefilledSince,
       WorthTheWait
<1>3. ASSUME NEW r \in Req, pc[r] = "set", pc' \in [Req -> {"idle", "get", "set", "done", "failed"}],
             \A s \in Req : pc'[s] = "set" => pc[s] = "set",
             bucket' = [bucket EXCEPT ![client[r]] = Stored(r)],
             UNCHANGED <<clock, now, left>>, told' \in [Client -> SUBSET Int],
             \A c \in Client \ {client[r]} : told'[c] = told[c],
             told'[client[r]] \subseteq {now[r] + (Cost - left[r])}
      PROVE  bucket' \in [Client -> Buckets] /\ (NowIsPast /\ LeavesNoDebt /\ RefilledSince /\ WorthTheWait)'
  <2>1. bucket' \in [Client -> Buckets]
    BY <1>0, <1>3, StoredType
  <2>2. ASSUME NEW c \in Client, bucket'[c].ttl > 0
        PROVE  bucket'[c].tokens + (clock - bucket'[c].ts) >= BucketTTL - bucket'[c].ttl
    <3>1. CASE c = client[r]
      <4>1. bucket'[c] = Stored(r)
        BY <1>0, <1>3, <3>1
      <4>2. left[r] + (clock - now[r]) >= 0
        BY <1>0, <1>3 DEF LeavesNoDebt
      <4> QED
        BY <1>0, <4>1, <4>2, StoredType, BucketConstantsOK
    <3>2. CASE c # client[r]
      BY <1>0, <1>3, <2>2, <3>2 DEF RefilledSince
    <3> QED
      BY <3>1, <3>2
  <2>3. ASSUME NEW c \in Client, NEW due \in told'[c], bucket'[c].ttl > 0
        PROVE  bucket'[c].tokens + (due - bucket'[c].ts) >= Cost
    <3>1. CASE c = client[r]
      <4>1. bucket'[c] = Stored(r) /\ due = now[r] + (Cost - left[r])
        BY <1>0, <1>3, <2>3, <3>1
      <4> QED
        BY <1>0, <4>1, StoredType, BucketConstantsOK
    <3>2. CASE c # client[r]
      BY <1>0, <1>3, <2>3, <3>2 DEF WorthTheWait
    <3> QED
      BY <3>1, <3>2
  <2>4. WorthTheWait'
    BY <2>3 DEF WorthTheWait
  <2> QED
    BY <1>0, <1>3, <2>1, <2>2, <2>4 DEF NowIsPast, LeavesNoDebt, RefilledSince
<1>4. ASSUME NEW r \in Req, Set(r) PROVE DebtInv'
  <2>1. /\ pc[r] = "set" /\ pc' = [pc EXCEPT ![r] = "done"]
        /\ bucket' = [bucket EXCEPT ![client[r]] = Stored(r)]
        /\ shared' = shared \ {r}
        /\ UNCHANGED <<clock, backend, client, now, left, allowed, rejected, mark>>
    BY <1>4 DEF Set
  <2>2. /\ told' \in [Client -> SUBSET Int]
        /\ \A c \in Client \ {client[r]} : told'[c] = told[c]
        /\ told'[client[r]] \subseteq {now[r] + (Cost - left[r])}
    BY <1>0, <1>4, BucketConstantsOK DEF Set, RetryAfter
  <2>3. bucket' \in [Client -> Buckets] /\ (NowIsPast /\ LeavesNoDebt /\ RefilledSince /\ WorthTheWait)'
    BY <1>0, <1>3, <2>1, <2>2
  <2>4. spent' \in [Client -> Nat] /\ overlap' \in [Client -> Nat]
    BY <1>0, <1>4, BucketConstantsOK DEF Set, TypeOK, Paid
  <2>5. TypeOK'
    BY <1>0, <2>1, <2>3, <2>4, <2>2 DEF TypeOK
  <2> QED
    BY <2>3, <2>5 DEF DebtInv
<1>5. ASSUME NEW r \in Req, Abort(r) PROVE DebtInv'
  <2>1. /\ pc' = [pc EXCEPT ![r] = "failed"] /\ shared' = shared \ {r}
        /\ UNCHANGED <<clock, backend, client, now, left, allowed, rejected, mark, spent, overlap>>
    BY <1>5 DEF Abort
  <2>2. CASE UNCHANGED <<bucket, told>>
    BY <1>0, <2>1, <2>2 DEF DebtInv, TypeOK, NowIsPast, LeavesNoDebt, RefilledSince,
     WorthTheWait
  <2>3. CASE /\ pc[r] = "set" /\ bucket' = [bucket EXCEPT ![client[r]] = Stored(r)]
             /\ told' = [told EXCEPT ![client[r]] = {}]
    <3>0. /\ told' \in [Client -> SUBSET Int] /\ told'[client[r]] = {}
          /\ \A c \in Client \ {client[r]} : told'[c] = told[c]
      BY <1>0, <2>3
    <3>1. bucket' \in [Client -> Buckets] /\ (NowIsPast /\ LeavesNoDebt /\ RefilledSince /\ WorthTheWait)'
      BY <1>0, <1>3, <2>1, <2>3, <3>0
    <3> QED
      BY <1>0, <2>1, <3>0, <3>1 DEF DebtInv, TypeOK
  <2> QED
    BY <1>5, <2>2, <2>3 DEF Abort
<1>6. CASE Tick
  <2>1. /\ clock' = clock + 1 /\ bucket' = [c \in Client |-> Aged(bucket[c])]
        /\ UNCHANGED <<pc, backend, client, now, left, allowed, rejected, mark, spent, overlap,
                       told>>
        /\ shared' \subseteq shared \cup Req
    BY <1>6 DEF Tick
  <2>2. TypeOK'
    BY <1>0, <2>1, AgedType DEF TypeOK
  <2>3. ASSUME NEW c \in Client, bucket'[c].ttl > 0
        PROVE  bucket'[c].tokens + (clock' - bucket'[c].ts) >= BucketTTL - bucket'[c].ttl
    <3>1. /\ bucket[c].ttl > 0 /\ bucket'[c].ttl = bucket[c].ttl - 1
          /\ bucket'[c].tokens = bucket[c].tokens /\ bucket'[c].ts = bucket[c].ts
      BY <1>0, <2>1, <2>3, AgedType
    <3>2. bucket[c].tokens + (clock - bucket[c].ts) >= BucketTTL - bucket[c].ttl
      BY <1>0, <3>1 DEF RefilledSince
    <3>3. bucket[c] \in Buckets
      BY <1>0
    <3> QED
      BY <1>0, <2>1, <3>1, <3>2, <3>3, BucketConstantsOK DEF Buckets
  <2>4. (NowIsPast /\ LeavesNoDebt)'
    BY <1>0, <2>1 DEF NowIsPast, LeavesNoDebt
  <2>5. WorthTheWait'
    BY <1>0, <2>1, AgedType DEF WorthTheWait
  <2> QED
    BY <2>2, <2>3, <2>4, <2>5 DEF DebtInv, RefilledSince
<1>7. CASE Observe
  BY <1>0, <1>7 DEF Observe, DebtInv, TypeOK, NowIsPast, LeavesNoDebt, RefilledSince,
     WorthTheWait
<1>8. CASE UNCHANGED vars
  BY <1>0, <1>8 DEF vars, histVars, DebtInv, TypeOK, NowIsPast, LeavesNoDebt, RefilledSince,
     WorthTheWait
<1> QED
  BY <1>1, <1>2, <1>4, <1>5, <1>6, <1>7, <1>8 DEF Next, Quiet

LEMMA DebtInvariant == Spec => []DebtInv
<1>1. Init => DebtInv
  BY BucketConstantsOK DEF Init, DebtInv, TypeOK, NowIsPast, LeavesNoDebt, RefilledSince,
     WorthTheWait,
     NoBucket, Buckets
<1> QED
  BY <1>1, DebtStep, PTL DEF Spec

\* Types, over either store.
THEOREM TypeCorrect == Spec => []TypeOK
<1>1. DebtInv => TypeOK
  BY DEF DebtInv
<1> QED
  BY <1>1, DebtInvariant, PTL

\* However reads and writes of a bucket interleave (limiter.py:23-46), it is never
\* worth less than nothing.
THEOREM NoDebt == Spec => []NeverInDebt
<1>1. DebtInv => NeverInDebt
  <2> SUFFICES ASSUME DebtInv, NEW c \in Client, bucket[c].ttl > 0
               PROVE  bucket[c].tokens + (clock - bucket[c].ts) >= 0
    BY DEF NeverInDebt
  <2>1. bucket[c] \in Buckets /\ clock \in Nat
    BY DEF DebtInv, TypeOK
  <2> QED
    BY <2>1, BucketConstantsOK DEF DebtInv, RefilledSince, Buckets
<1> QED
  BY <1>1, DebtInvariant, PTL

\* A refusal keeps its word (limiter.py:44-47): whoever comes when the announced wait
\* is over is allowed unless the bucket was written again, and no wait ends later
\* than the price of a request from now.
THEOREM WaitsAreEnough == Spec => WaitIsEnough
<1> DEFINE Served(r) == Get(r) /\ (\E due \in told[client[r]] : now[r] >= due) /\ Burst >= Cost
                          => allowed'[r]
           Bounded(r) == Set(r) /\ ~allowed[r] => now[r] + RetryAfter(r) <= clock + Cost
           Honest == \A r \in Req : /\ Served(r)
                                    /\ Bounded(r)
<1>1. ASSUME DebtInv, NEW r \in Req PROVE Served(r)
  <2> SUFFICES ASSUME Get(r), NEW due \in told[client[r]], now[r] >= due, Burst >= Cost
               PROVE  allowed'[r]
    OBVIOUS
  <2> DEFINE b == bucket[client[r]]
  <2>1. /\ b \in Buckets /\ now[r] \in Nat /\ client[r] \in Client /\ due \in Int
        /\ allowed \in [Req -> BOOLEAN]
    BY <1>1 DEF DebtInv, TypeOK
  <2>2. Level(b, now[r]) >= Cost
    <3>1. CASE Level(b, now[r]) = Burst
      BY <3>1
    <3>2. CASE b.ttl # 0 /\ Level(b, now[r]) = b.tokens + (now[r] - b.ts)
      <4>1. b.tokens + (due - b.ts) >= Cost
        BY <1>1, <2>1, <3>2 DEF DebtInv, WorthTheWait, Buckets
      <4> QED
        BY <2>1, <3>2, <4>1, BucketConstantsOK DEF Buckets
    <3> QED
      BY <2>1, <3>1, <3>2, LevelType
  <2> QED
    BY <2>1, <2>2 DEF Get
<1>2. ASSUME DebtInv, NEW r \in Req PROVE Bounded(r)
  <2> SUFFICES ASSUME Set(r) PROVE now[r] + RetryAfter(r) <= clock + Cost
    OBVIOUS
  <2>1. left[r] \in Int /\ now[r] \in Nat /\ clock \in Nat
    BY <1>2 DEF DebtInv, TypeOK
  <2>2. left[r] + (clock - now[r]) >= 0
    BY <1>2 DEF Set, DebtInv, LeavesNoDebt
  <2> QED
    BY <2>1, <2>2, BucketConstantsOK DEF RetryAfter
<1>3. DebtInv /\ [Next]_vars => [Honest]_vars
  <2> HIDE DEF Served, Bounded
  <2> QED
    BY <1>1, <1>2
<1> QED
  BY <1>3, DebtInvariant, PTL DEF Spec, WaitIsEnough
-----------------------------------------------------------------------------
(* The budget.                                                              *)

\* What client c was granted outside overlapping calls.
Charged(c) == spent[c] - overlap[c]

\* It and what is left of the bucket by now fit the burst and the refill.
Covered(c) == Charged(c) + Level(bucket[c], clock) <= Burst + (clock - mark)

\* They fit also once call r has written.
Pending(c, r) ==
  Charged(c) + Lower(Burst, left[r] + (clock - now[r])) <= Burst + (clock - mark)

\* A call that nothing overlapped is its client's only one, and what it may grant
\* fits what there was at its clock reading.
Own(c, r) ==
  /\ \A s \in MidwayFor(c) : s = r
  /\ mark <= now[r]
  /\ pc[r] = "get" => Charged(c) + Level(bucket[c], now[r]) <= Burst + (now[r] - mark)
  /\ pc[r] = "set" => Charged(c) + left[r] + Paid(r) <= Burst + (now[r] - mark)

Accounted(c) ==
  /\ Covered(c)
  /\ \A r \in MidwayFor(c) : pc[r] = "set" => Pending(c, r)
  /\ \A r \in MidwayFor(c) \ shared : Own(c, r)

BudgetInv == mark <= clock /\ \A c \in Client : Accounted(c)

\* A call writes no more than the level it found, brought up to date.
LEMMA LevelFrom ==
  ASSUME NEW b \in Buckets, NEW t \in Nat, NEW u \in Nat, t <= u,
         NEW x \in Int, x <= Level(b, t)
  PROVE  Lower(Burst, x + (u - t)) <= Level(b, u)
BY BucketConstantsOK DEF Level, Lower, Buckets

LEMMA LevelAges ==
  ASSUME DebtInv, BucketTTL >= Burst, NEW c \in Client
  PROVE  Level(Aged(bucket[c]), clock + 1) <= Level(bucket[c], clock) + 1
<1>1. bucket[c] \in Buckets /\ clock \in Nat
  BY DEF DebtInv, TypeOK
<1>2. bucket[c].ttl # 0 => bucket[c].tokens + (clock - bucket[c].ts) >= BucketTTL - bucket[c].ttl
  BY <1>1 DEF DebtInv, RefilledSince, Buckets
<1>3. CASE bucket[c].ttl <= 1
  <2>1. Aged(bucket[c]).ttl = 0
    BY <1>3 DEF Aged, NoBucket
  <2>2. Level(Aged(bucket[c]), clock + 1) = Burst
    BY <2>1 DEF Level
  <2> QED
    BY <1>1, <1>2, <1>3, <2>2, BucketConstantsOK DEF Level, Lower, Buckets
<1>4. CASE bucket[c].ttl > 1
  <2>1. Aged(bucket[c]).ttl > 0 /\ Aged(bucket[c]).tokens = bucket[c].tokens
        /\ Aged(bucket[c]).ts = bucket[c].ts
    BY <1>1, <1>4 DEF Aged, Buckets
  <2> QED
    BY <1>1, <1>4, <2>1, BucketConstantsOK DEF Level, Lower, Buckets
<1> QED
  BY <1>1, <1>3, <1>4 DEF Buckets

\* A bucket that does not expire now keeps its level at any given time.
LEMMA LevelKept ==
  ASSUME NEW b \in Buckets, b.ttl # 1, NEW t \in Nat
  PROVE  Level(Aged(b), t) = Level(b, t)
<1>1. CASE b.ttl = 0
  <2>1. Aged(b).ttl = 0
    BY <1>1 DEF Aged, NoBucket
  <2> QED
    BY <1>1, <2>1 DEF Level
<1>2. CASE b.ttl > 1
  <2>1. Aged(b).ttl > 0 /\ Aged(b).tokens = b.tokens /\ Aged(b).ts = b.ts
    BY <1>2 DEF Aged, Buckets
  <2> QED
    BY <1>2, <2>1 DEF Level
<1> QED
  BY <1>1, <1>2 DEF Buckets

\* What a call decides adds up to the level it found.
LEMMA Decision ==
  ASSUME NEW level \in Int
  PROVE  /\ Remaining(level) \in Int /\ Remaining(level) <= level
         /\ Remaining(level) + (IF level >= Cost THEN Cost ELSE 0) = level
<1>1. CASE level >= Cost
  BY <1>1, BucketConstantsOK DEF Remaining
<1>2. CASE ~(level >= Cost)
  BY <1>2, BucketConstantsOK DEF Remaining
<1> QED
  BY <1>1, <1>2

LEMMA BudgetTypes ==
  ASSUME DebtInv, NEW c \in Client
  PROVE  /\ clock \in Nat /\ mark \in Nat /\ Burst \in Nat /\ Cost \in Nat
         /\ Charged(c) \in Int /\ spent[c] \in Nat /\ overlap[c] \in Nat
         /\ bucket[c] \in Buckets
         /\ \A t \in Nat : Level(bucket[c], t) \in Int
         /\ \A r \in Req : /\ now[r] \in Nat /\ now[r] <= clock /\ left[r] \in Int
                           /\ Paid(r) \in Nat /\ client[r] \in Client
                           /\ Lower(Burst, left[r] + (clock - now[r])) \in Int
<1>1. /\ clock \in Nat /\ mark \in Nat /\ Burst \in Nat /\ Cost \in Nat
      /\ spent[c] \in Nat /\ overlap[c] \in Nat /\ bucket[c] \in Buckets
      /\ \A r \in Req : now[r] \in Nat /\ now[r] <= clock /\ left[r] \in Int /\ client[r] \in Client
  BY BucketConstantsOK DEF DebtInv, TypeOK, NowIsPast
<1>2. \A t \in Nat : Level(bucket[c], t) \in Int
  BY <1>1, LevelType
<1>3. Charged(c) \in Int
  BY <1>1 DEF Charged
<1>4. \A r \in Req : Paid(r) \in Nat /\ Lower(Burst, left[r] + (clock - now[r])) \in Int
  <2> TAKE r \in Req
  <2>1. Paid(r) \in Nat
    BY <1>1 DEF Paid
  <2>2. left[r] + (clock - now[r]) \in Int
    BY <1>1
  <2> QED
    BY <1>1, <2>1, <2>2 DEF Lower
<1> QED
  BY <1>1, <1>2, <1>3, <1>4

\* Calls of other clients do not matter.
LEMMA Frame ==
  ASSUME NEW c \in Client, Accounted(c), UNCHANGED <<clock, backend, client, mark>>,
         bucket'[c] = bucket[c], spent'[c] = spent[c], overlap'[c] = overlap[c],
         \A s \in Req : client[s] = c =>
           /\ pc'[s] = pc[s] /\ now'[s] = now[s] /\ (s \in shared' <=> s \in shared)
           /\ left'[s] = left[s] /\ allowed'[s] = allowed[s]
  PROVE  Accounted(c)'
<1>1. MidwayFor(c)' = MidwayFor(c)
  BY DEF MidwayFor, Midway
<1>2. \A s \in MidwayFor(c) : /\ pc'[s] = pc[s] /\ now'[s] = now[s] /\ (s \in shared' <=> s \in shared)
                              /\ left'[s] = left[s] /\ Paid(s)' = Paid(s)
  BY DEF MidwayFor, Paid
<1>3. Charged(c)' = Charged(c)
  BY DEF Charged
<1>4. Covered(c)'
  BY <1>3 DEF Accounted, Covered
<1>5. \A s \in MidwayFor(c)' : pc'[s] = "set" => Pending(c, s)'
  BY <1>1, <1>2, <1>3 DEF Accounted, Pending
<1>6. \A s \in (MidwayFor(c) \ shared)' : Own(c, s)'
  BY <1>1, <1>2, <1>3 DEF Accounted, Own
<1> QED
  BY <1>4, <1>5, <1>6 DEF Accounted

\* So is the end of one of its calls that neither wrote nor was granted anything.
LEMMA Gone ==
  ASSUME NEW c \in Client, Accounted(c), NEW r \in Req, pc' = [pc EXCEPT ![r] = "failed"],
         TypeOK, shared' = shared \ {r},
         UNCHANGED <<clock, bucket, backend, client, now, left, allowed, mark, spent, overlap>>
  PROVE  Accounted(c)'
<1>1. MidwayFor(c)' = MidwayFor(c) \ {r} /\ \A s \in Req \ {r} : pc'[s] = pc[s]
  BY DEF MidwayFor, Midway, TypeOK
<1>2. Charged(c)' = Charged(c) /\ Covered(c)'
  BY DEF Charged, Accounted, Covered
<1>3. \A s \in MidwayFor(c)' : s \in Req \ {r}
  BY <1>1 DEF MidwayFor
<1>4. \A s \in MidwayFor(c)' : pc'[s] = "set" => Pending(c, s)'
  BY <1>1, <1>2, <1>3 DEF Accounted, Pending
<1>5. \A s \in (MidwayFor(c) \ shared)' : Own(c, s)'
  BY <1>1, <1>2, <1>3 DEF Accounted, Own, Paid
<1> QED
  BY <1>2, <1>4, <1>5 DEF Accounted

LEMMA BeginAccounted ==
  ASSUME DebtInv, BudgetInv, NEW r \in Req, Begin(r), NEW c \in Client
  PROVE  Accounted(c)'
<1>0. TypeOK /\ mark <= clock /\ Accounted(c)
  BY DEF DebtInv, BudgetInv
<1>1. /\ pc[r] = "idle" /\ pc' = [pc EXCEPT ![r] = "get"] /\ now' = [now EXCEPT ![r] = clock]
      /\ shared' = IF MidwayFor(client[r]) = {} THEN shared
                   ELSE shared \cup MidwayFor(client[r]) \cup {r}
      /\ UNCHANGED <<clock, bucket, backend, client, left, allowed, rejected, mark, spent, overlap>>
  BY DEF Begin
<1>2. CASE c # client[r]
  <2>1. \A s \in Req : client[s] = c => s # r /\ (s \in shared' <=> s \in shared)
    BY <1>1, <1>2 DEF MidwayFor
  <2> QED
    BY <1>0, <1>1, <2>1, Frame DEF TypeOK
<1>3. CASE c = client[r]
  <2>1. /\ MidwayFor(c)' = MidwayFor(c) \cup {r} /\ r \notin MidwayFor(c)
        /\ pc'[r] = "get" /\ now'[r] = clock
        /\ \A s \in MidwayFor(c) : pc'[s] = pc[s] /\ now'[s] = now[s]
    BY <1>0, <1>1, <1>3 DEF MidwayFor, Midway, TypeOK
  <2>2. Charged(c)' = Charged(c) /\ Covered(c) /\ Covered(c)'
    BY <1>0, <1>1 DEF Charged, Accounted, Covered
  <2>3. \A s \in MidwayFor(c)' : pc'[s] = "set" => Pending(c, s)'
    BY <1>0, <1>1, <2>1, <2>2 DEF Accounted, Pending
  <2>4. ASSUME NEW s \in (MidwayFor(c) \ shared)' PROVE Own(c, s)'
    <3>1. MidwayFor(c) = {} /\ s = r
      BY <1>1, <1>3, <2>1, <2>4
    <3> QED
      BY <1>0, <1>1, <2>1, <2>2, <3>1 DEF Own, Covered
  <2> QED
    BY <2>2, <2>3, <2>4 DEF Accounted
<1> QED
  BY <1>2, <1>3

LEMMA GetAccounted ==
  ASSUME DebtInv, BudgetInv, NEW r \in Req, Get(r), NEW c \in Client
  PROVE  Accounted(c)'
<1> DEFINE level == Level(bucket[client[r]], now[r])
<1>0. TypeOK /\ Accounted(c)
  BY DEF DebtInv, BudgetInv
<1>1. /\ pc[r] = "get" /\ pc' = [pc EXCEPT ![r] = "set"]
      /\ left' = [left EXCEPT ![r] = Remaining(level)]
      /\ allowed' = [allowed EXCEPT ![r] = level >= Cost]
      /\ UNCHANGED <<clock, bucket, backend, client, now, mark, spent, shared, overlap>>
  BY DEF Get, histVars
<1> HIDE DEF level
<1>2. CASE c # client[r]
  BY <1>0, <1>1, <1>2, Frame DEF TypeOK
<1>3. CASE c = client[r]
  <2>1. /\ MidwayFor(c)' = MidwayFor(c) /\ r \in MidwayFor(c) /\ pc'[r] = "set"
        /\ \A s \in MidwayFor(c) \ {r} : /\ pc'[s] = pc[s] /\ left'[s] = left[s]
                                         /\ Paid(s)' = Paid(s)
    BY <1>0, <1>1, <1>3 DEF MidwayFor, Midway, TypeOK, Paid
  <2>2. Charged(c)' = Charged(c) /\ Covered(c) /\ Covered(c)'
    BY <1>0, <1>1 DEF Charged, Accounted, Covered
  <2>3. level = Level(bucket[c], now[r]) /\ level \in Int
    BY <1>3, BudgetTypes DEF level
  <2>4. /\ left'[r] = Remaining(level) /\ Paid(r)' = IF level >= Cost THEN Cost ELSE 0
    BY <1>0, <1>1 DEF Paid, TypeOK
  <2>5. /\ left'[r] \in Int /\ left'[r] <= level /\ Paid(r)' \in Int
        /\ left'[r] + Paid(r)' = level
    BY <2>3, <2>4, Decision, BucketConstantsOK
  <2>6. Pending(c, r)'
    <3>1. Lower(Burst, left'[r] + (clock - now[r])) <= Level(bucket[c], clock)
      BY <2>3, <2>5, LevelFrom, BudgetTypes
    <3>2. Lower(Burst, left'[r] + (clock - now[r])) \in Int
      BY <2>5, BudgetTypes DEF Lower
    <3>3. Charged(c) + Lower(Burst, left'[r] + (clock - now[r])) <= Burst + (clock - mark)
      BY <2>2, <3>1, <3>2, BudgetTypes DEF Covered
    <3> QED
      BY <1>1, <2>2, <3>3 DEF Pending
  <2>7. \A s \in MidwayFor(c)' : pc'[s] = "set" => Pending(c, s)'
    BY <1>0, <1>1, <2>1, <2>2, <2>6 DEF Accounted, Pending
  <2>8. ASSUME NEW s \in (MidwayFor(c) \ shared)' PROVE Own(c, s)'
    <3>1. s \in MidwayFor(c) \ shared /\ Own(c, s)
      BY <1>0, <1>1, <2>1 DEF Accounted
    <3>2. s = r
      BY <2>1, <3>1 DEF Own
    <3>3. Charged(c) + level <= Burst + (now[r] - mark)
      BY <1>1, <2>3, <3>1, <3>2 DEF Own
    <3>4. Charged(c) + left'[r] + Paid(r)' <= Burst + (now[r] - mark)
      BY <2>3, <2>5, <3>3, BudgetTypes
    <3> QED
      BY <1>1, <2>1, <2>2, <3>1, <3>2, <3>4 DEF Own
  <2> QED
    BY <2>2, <2>7, <2>8 DEF Accounted
<1> QED
  BY <1>2, <1>3

\* A call has written what it left, and is granted what it paid, if anything.
LEMMA WriteAccounted ==
  ASSUME DebtInv, BudgetInv, NEW r \in Req, pc[r] = "set", NEW c \in Client,
         client[r] = c, NEW paid \in {0, Paid(r)},
         pc' = [pc EXCEPT ![r] = "done"] \/ pc' = [pc EXCEPT ![r] = "failed"],
         bucket' = [bucket EXCEPT ![c] = Stored(r)], spent'[c] = spent[c] + paid,
         overlap'[c] = overlap[c] + (IF r \in shared THEN paid ELSE 0),
         shared' = shared \ {r},
         UNCHANGED <<clock, backend, client, now, left, allowed, mark>>
  PROVE  Accounted(c)'
<1>0. TypeOK /\ Accounted(c) /\ r \in MidwayFor(c) /\ paid \in Nat /\ paid <= Paid(r)
  BY BudgetTypes DEF DebtInv, BudgetInv, MidwayFor, Midway
<1>1. /\ MidwayFor(c)' = MidwayFor(c) \ {r} /\ \A s \in MidwayFor(c)' : pc'[s] = pc[s]
  BY <1>0 DEF MidwayFor, Midway, TypeOK
<1>2. bucket'[c] = Stored(r)
  BY <1>0 DEF TypeOK
<1>3. /\ Level(Stored(r), clock) \in Int
      /\ Level(Stored(r), clock) = Lower(Burst, left[r] + (clock - now[r]))
      /\ Level(Stored(r), clock) <= left[r] + (clock - now[r])
  BY <1>0, StoredType, LevelType, BucketConstantsOK, BudgetTypes DEF Level, Lower
<1>4. CASE r \in shared
  <2>1. Charged(c)' = Charged(c)
    BY <1>0, <1>4, BudgetTypes DEF Charged
  <2>2. Pending(c, r)
    BY <1>0 DEF Accounted
  <2>3. Covered(c)'
    BY <1>2, <1>3, <2>1, <2>2 DEF Covered, Pending
  <2>4. \A s \in MidwayFor(c)' : pc'[s] = "set" => Pending(c, s)'
    BY <1>0, <1>1, <2>1 DEF Accounted, Pending
  <2>5. (MidwayFor(c) \ shared)' = {}
    BY <1>0, <1>1, <1>4 DEF Accounted, Own
  <2> QED
    BY <2>3, <2>4, <2>5 DEF Accounted
<1>5. CASE r \notin shared
  <2>1. Own(c, r) /\ MidwayFor(c)' = {}
    BY <1>0, <1>1, <1>5 DEF Accounted, Own
  <2>2. Charged(c)' = Charged(c) + paid
    BY <1>0, <1>5, BudgetTypes DEF Charged
  <2>3. Charged(c) + left[r] + Paid(r) <= Burst + (now[r] - mark)
    BY <2>1 DEF Own
  <2>4. Charged(c) + paid + Level(Stored(r), clock) <= Burst + (clock - mark)
    BY <1>0, <1>3, <2>3, BudgetTypes
  <2>5. Covered(c)'
    BY <1>2, <2>2, <2>4 DEF Covered
  <2> QED
    BY <2>1, <2>5 DEF Accounted
<1> QED
  BY <1>4, <1>5

LEMMA SetAccounted ==
  ASSUME DebtInv, BudgetInv, NEW r \in Req, Set(r), NEW c \in Client
  PROVE  Accounted(c)'
<1>0. TypeOK /\ Accounted(c)
  BY DEF DebtInv, BudgetInv
<1>1. /\ pc[r] = "set" /\ pc' = [pc EXCEPT ![r] = "done"]
      /\ bucket' = [bucket EXCEPT ![client[r]] = Stored(r)]
      /\ spent' = [spent EXCEPT ![client[r]] = @ + Paid(r)]
      /\ overlap' = [overlap EXCEPT ![client[r]] = @ + (IF r \in shared THEN Paid(r) ELSE 0)]
      /\ shared' = shared \ {r}
      /\ UNCHANGED <<clock, backend, client, now, left, allowed, rejected, mark>>
  BY DEF Set
<1>2. CASE c # client[r]
  BY <1>0, <1>1, <1>2, Frame DEF TypeOK
<1>3. CASE c = client[r]
  <2>1. /\ spent'[c] = spent[c] + Paid(r)
        /\ overlap'[c] = overlap[c] + (IF r \in shared THEN Paid(r) ELSE 0)
    BY <1>0, <1>1, <1>3 DEF TypeOK
  <2> QED
    BY <1>1, <1>3, <2>1, WriteAccounted
<1> QED
  BY <1>2, <1>3

LEMMA AbortAccounted ==
  ASSUME DebtInv, BudgetInv, NEW r \in Req, Abort(r), NEW c \in Client
  PROVE  Accounted(c)'
<1>0. TypeOK /\ Accounted(c)
  BY DEF DebtInv, BudgetInv
<1>1. /\ pc' = [pc EXCEPT ![r] = "failed"] /\ shared' = shared \ {r}
      /\ UNCHANGED <<clock, backend, client, now, left, allowed, rejected, mark, spent, overlap>>
  BY DEF Abort
<1>2. CASE UNCHANGED bucket
  BY <1>0, <1>1, <1>2, Gone
<1>3. CASE pc[r] = "set" /\ bucket' = [bucket EXCEPT ![client[r]] = Stored(r)]
  <2>1. CASE c # client[r]
    BY <1>0, <1>1, <1>3, <2>1, Frame DEF TypeOK
  <2>2. CASE c = client[r]
    <3>1. /\ spent'[c] = spent[c] + 0
          /\ overlap'[c] = overlap[c] + (IF r \in shared THEN 0 ELSE 0)
      BY <1>1, BudgetTypes
    <3> QED
      BY <1>1, <1>3, <2>2, <3>1, WriteAccounted
  <2> QED
    BY <2>1, <2>2
<1> QED
  BY <1>2, <1>3 DEF Abort

LEMMA TickAccounted ==
  ASSUME BucketTTL >= Burst, DebtInv, BudgetInv, Tick, NEW c \in Client
  PROVE  Accounted(c)'
<1>0. TypeOK /\ Accounted(c)
  BY DEF DebtInv, BudgetInv
<1>1. /\ clock' = clock + 1 /\ bucket'[c] = Aged(bucket[c])
      /\ shared' = shared \cup {r \in Req : Midway(r) /\ bucket[client[r]].ttl = 1}
      /\ UNCHANGED <<pc, backend, client, now, left, allowed, rejected, mark, spent, overlap>>
  BY DEF Tick
<1>2. MidwayFor(c)' = MidwayFor(c) /\ Charged(c)' = Charged(c)
  BY <1>1 DEF MidwayFor, Midway, Charged
<1>3. Covered(c)'
  <2>1. Aged(bucket[c]) \in Buckets
    BY BudgetTypes, AgedType
  <2>2. /\ Level(Aged(bucket[c]), clock + 1) <= Level(bucket[c], clock) + 1
        /\ Level(Aged(bucket[c]), clock + 1) \in Int
    BY <2>1, LevelAges, LevelType, BudgetTypes
  <2>3. Charged(c) + Level(Aged(bucket[c]), clock + 1) <= Burst + ((clock + 1) - mark)
    BY <1>0, <2>2, BudgetTypes DEF Accounted, Covered
  <2> QED
    BY <1>1, <1>2, <2>3 DEF Covered
<1>4. ASSUME NEW r \in MidwayFor(c), pc[r] = "set" PROVE Pending(c, r)'
  <2>1. r \in Req /\ Pending(c, r)
    BY <1>0, <1>4 DEF Accounted, MidwayFor
  <2>2. Lower(Burst, left[r] + ((clock + 1) - now[r]))
          <= Lower(Burst, left[r] + (clock - now[r])) + 1
    BY <2>1, BudgetTypes DEF Lower
  <2>3. Lower(Burst, left[r] + ((clock + 1) - now[r])) \in Int
    BY <2>1, BudgetTypes DEF Lower
  <2>4. Charged(c) + Lower(Burst, left[r] + ((clock + 1) - now[r])) <= Burst + ((clock + 1) - mark)
    BY <2>1, <2>2, <2>3, BudgetTypes DEF Pending
  <2> QED
    BY <1>1, <1>2, <2>4 DEF Pending
<1>5. ASSUME NEW r \in MidwayFor(c), r \notin shared' PROVE Own(c, r)'
  <2>1. Own(c, r) /\ bucket[c].ttl # 1 /\ now[r] \in Nat
    BY <1>0, <1>1, <1>5, BudgetTypes DEF Accounted, MidwayFor
  <2>2. Level(bucket'[c], now[r]) = Level(bucket[c], now[r])
    BY <1>1, <2>1, LevelKept, BudgetTypes
  <2> QED
    BY <1>1, <1>2, <2>1, <2>2 DEF Own, Paid
<1> QED
  BY <1>1, <1>2, <1>3, <1>4, <1>5 DEF Accounted

LEMMA ObserveAccounted ==
  ASSUME DebtInv, Observe, NEW c \in Client
  PROVE  Accounted(c)'
<1>1. /\ mark' = clock /\ spent'[c] = 0 /\ overlap'[c] = 0
      /\ shared' = {r \in Req : Midway(r)}
      /\ UNCHANGED <<clock, bucket, pc, backend, client, now, left, allowed, rejected>>
  BY DEF Observe
<1>2. Charged(c)' = 0 /\ MidwayFor(c)' = MidwayFor(c) /\ (MidwayFor(c) \ shared)' = {}
  BY <1>1 DEF Charged, MidwayFor, Midway
<1>3. Level(bucket[c], clock) \in Int /\ Level(bucket[c], clock) <= Burst
  BY BudgetTypes, LevelType
<1>4. Covered(c)'
  BY <1>1, <1>2, <1>3, BudgetTypes DEF Covered
<1>5. ASSUME NEW r \in MidwayFor(c) PROVE Pending(c, r)'
  <2>1. Lower(Burst, left[r] + (clock - now[r])) <= Burst
        /\ Lower(Burst, left[r] + (clock - now[r])) \in Int
    BY BudgetTypes DEF MidwayFor, Lower
  <2> QED
    BY <1>1, <1>2, <2>1, BudgetTypes DEF Pending
<1> QED
  BY <1>2, <1>4, <1>5 DEF Accounted

LEMMA BudgetStep ==
  ASSUME BucketTTL >= Burst, DebtInv, BudgetInv, [Next]_vars
  PROVE  BudgetInv'
<1>1. (mark <= clock)'
  <2>1. mark \in Nat /\ clock \in Nat /\ mark <= clock
    BY DEF DebtInv, TypeOK, BudgetInv
  <2>2. \/ UNCHANGED <<mark, clock>>
        \/ clock' = clock + 1 /\ UNCHANGED mark
        \/ mark' = clock /\ UNCHANGED clock
    BY DEF Next, Begin, Get, Set, Abort, Tick, Observe, Quiet, vars, histVars
  <2> QED
    BY <2>1, <2>2
<1>2. ASSUME NEW c \in Client PROVE Accounted(c)'
  <2>1. ASSUME NEW r \in Req, Begin(r) \/ Get(r) \/ Set(r) \/ Abort(r)
        PROVE  Accounted(c)'
    BY <2>1, BeginAccounted, GetAccounted, SetAccounted, AbortAccounted
  <2>2. CASE Tick
    BY <2>2, TickAccounted
  <2>3. CASE Observe
    BY <2>3, ObserveAccounted
  <2>4. CASE UNCHANGED vars
    BY <2>4, Frame DEF vars, histVars, BudgetInv
  <2> QED
    BY <2>1, <2>2, <2>3, <2>4 DEF Next, Quiet
<1> QED
  BY <1>1, <1>2 DEF BudgetInv

\* Over either store, and if buckets are kept at least as long as they take to refill,
\* a client gets more than a burst and the refill in no stretch of time but by what
\* was granted to overlapping calls of it, even if calls fail midway (limiter.py:21-48).
THEOREM BudgetKept ==
  ASSUME BucketTTL >= Burst
  PROVE  Spec => []BudgetAlone
<1>1. Init => BudgetInv
  <2>1. Init => mark <= clock
    BY DEF Init
  <2> SUFFICES ASSUME Init, NEW c \in Client PROVE Accounted(c)
    BY <2>1 DEF BudgetInv
  <2>2. MidwayFor(c) = {}
    BY DEF Init, MidwayFor, Midway
  <2>3. Covered(c)
    BY BucketConstantsOK DEF Init, Charged, Covered, Level, NoBucket
  <2> QED
    BY <2>2, <2>3 DEF Accounted
<1>2. DebtInv /\ BudgetInv => BudgetAlone
  <2> SUFFICES ASSUME DebtInv, BudgetInv, NEW c \in Client
               PROVE  spent[c] - overlap[c] <= Burst + (clock - mark)
    BY DEF BudgetAlone
  <2>1. Level(bucket[c], clock) >= 0
    BY BudgetTypes, BucketConstantsOK DEF DebtInv, RefilledSince, Level, Lower, Buckets
  <2> QED
    BY <2>1, BudgetTypes DEF BudgetInv, Accounted, Covered, Charged
<1>3. DebtInv /\ BudgetInv /\ [Next]_vars => BudgetInv'
  BY BudgetStep
<1> QED
  BY <1>1, <1>2, <1>3, DebtInvariant, PTL DEF Spec
-----------------------------------------------------------------------------
(* One process with its own store.                                          *)

\* Where no call of allow() suspends, no two are under way, nothing happens during
\* one, and none ever overlaps anything.
NothingShared ==
  /\ shared = {} /\ \A c \in Client : overlap[c] = 0
  /\ \A r, s \in Req : Midway(r) /\ Midway(s) => r = s

LEMMA NothingSharedStep ==
  ASSUME ~OnRedis, TypeOK, NothingShared, [Next]_vars
  PROVE  NothingShared'
<1>0. pc \in [Req -> {"idle", "get", "set", "done", "failed"}]
  BY DEF TypeOK
<1>1. ASSUME NEW r \in Req, Begin(r) PROVE NothingShared'
  <2>1. \A s \in Req : ~Midway(s)
    BY <1>1 DEF Begin, Undisturbed, Midway
  <2>2. shared' = {} /\ overlap' = overlap
    BY <1>1, <2>1 DEF Begin, MidwayFor, NothingShared
  <2>3. \A s \in Req : Midway(s)' => s = r
    BY <1>0, <1>1, <2>1 DEF Begin, Midway
  <2> QED
    BY <2>2, <2>3 DEF NothingShared
<1>2. ASSUME NEW r \in Req, Get(r) PROVE NothingShared'
  BY <1>0, <1>2 DEF Get, NothingShared, Midway, histVars
<1>3. ASSUME NEW r \in Req, Set(r) PROVE NothingShared'
  <2>1. \A c \in Client : overlap'[c] = 0
    BY <1>3, BucketConstantsOK DEF Set, NothingShared, TypeOK
  <2>2. shared' = {} /\ \A s \in Req : Midway(s)' => Midway(s)
    BY <1>0, <1>3 DEF Set, NothingShared, Midway
  <2> QED
    BY <2>1, <2>2 DEF NothingShared
<1>4. ASSUME NEW r \in Req, Abort(r) PROVE NothingShared'
  BY <1>4 DEF Abort
<1>5. CASE Tick \/ Observe
  BY <1>5 DEF Tick, Observe, Interruptible, NothingShared, Midway
<1>6. CASE UNCHANGED vars
  BY <1>6 DEF vars, histVars, NothingShared, Midway
<1> QED
  BY <1>1, <1>2, <1>3, <1>4, <1>5, <1>6 DEF Next, Quiet

\* No step changes the store.
LEMMA StoreKept == [Next]_vars => (OnRedis' <=> OnRedis)
BY DEF Next, Begin, Get, Set, Abort, Tick, Observe, Quiet, vars, histVars, OnRedis

\* What limiter.py:2-3 promises does hold of one process with a MemoryStore, whose
\* calls never suspend between reading and writing the bucket.
THEOREM BudgetKeptInMemory ==
  ASSUME BucketTTL >= Burst
  PROVE  Spec => []BudgetInMemory
<1> DEFINE Inv == ~OnRedis => NothingShared
<1>1. Init => Inv
  BY DEF Init, NothingShared, Midway
<1>2. TypeOK /\ Inv /\ [Next]_vars => Inv'
  BY NothingSharedStep, StoreKept
<1>3. TypeOK /\ Inv /\ BudgetAlone => BudgetInMemory
  BY DEF NothingShared, BudgetAlone, BudgetInMemory, Budget, TypeOK
<1> QED
  BY <1>1, <1>2, <1>3, TypeCorrect, BudgetKept, PTL DEF Spec

\* Of a call under way, the clock has not moved since it read it, and what it is
\* about to write is no more than a burst.
Prompt ==
  \A r \in Req : Midway(r) => /\ now[r] = clock
                              /\ pc[r] = "set" => left[r] <= Burst

MeterInv == DebtInv /\ NothingShared /\ Prompt

LEMMA PromptStep ==
  ASSUME ~OnRedis, MeterInv, [Next]_vars
  PROVE  Prompt'
<1>0. /\ DebtInv /\ NothingShared /\ Prompt
      /\ pc \in [Req -> {"idle", "get", "set", "done", "failed"}]
      /\ now \in [Req -> Nat] /\ left \in [Req -> Int] /\ client \in [Req -> Client]
  BY DEF MeterInv, DebtInv, TypeOK
<1>1. ASSUME NEW r \in Req, Begin(r) PROVE Prompt'
  <2>1. \A s \in Req : ~Midway(s)
    BY <1>1 DEF Begin, Undisturbed, Midway
  <2>2. \A s \in Req : Midway(s)' => s = r /\ pc'[s] = "get" /\ now'[s] = clock'
    BY <1>0, <1>1, <2>1 DEF Begin, Midway
  <2> QED
    BY <2>2 DEF Prompt
<1>2. ASSUME NEW r \in Req, Get(r) PROVE Prompt'
  <2>1. Level(bucket[client[r]], now[r]) \in Int /\ Level(bucket[client[r]], now[r]) <= Burst
    BY <1>0, BudgetTypes, LevelType
  <2>2. left'[r] \in Int /\ left'[r] <= Burst
    BY <1>0, <1>2, <2>1, Decision, BucketConstantsOK DEF Get
  <2>3. \A s \in Req : Midway(s)' => s = r
    BY <1>0, <1>2 DEF Get, NothingShared, Midway
  <2> QED
    BY <1>0, <1>2, <2>2, <2>3 DEF Get, Prompt, Midway
<1>3. ASSUME NEW r \in Req, Set(r) PROVE Prompt'
  BY <1>0, <1>3 DEF Set, Prompt, Midway
<1>4. ASSUME NEW r \in Req, Abort(r) PROVE Prompt'
  BY <1>4 DEF Abort
<1>5. CASE Tick \/ Observe
  BY <1>5 DEF Tick, Observe, Interruptible, Prompt, Midway
<1>6. CASE UNCHANGED vars
  BY <1>0, <1>6 DEF vars, Prompt, Midway
<1> QED
  BY <1>1, <1>2, <1>3, <1>4, <1>5, <1>6 DEF Next, Quiet

\* The meter of a client is the level of its bucket by now, unless a call of it has
\* decided and not yet written: then it is what that call leaves.
LEMMA MeterReads ==
  ASSUME NEW c \in Client
  PROVE  /\ (\A r \in Req : pc[r] = "set" => client[r] # c) => Metered[c] = Level(bucket[c], clock)
         /\ \A r \in Req : /\ NothingShared /\ pc[r] = "set" /\ client[r] = c
                           => Metered[c] = left[r]
<1>1. ASSUME \A r \in Req : pc[r] = "set" => client[r] # c
      PROVE  Metered[c] = Level(bucket[c], clock)
  <2>1. Deciding(c) = {}
    BY <1>1 DEF Deciding, MidwayFor
  <2> QED
    BY <2>1 DEF Metered
<1>2. ASSUME NEW r \in Req, NothingShared, pc[r] = "set", client[r] = c
      PROVE  Metered[c] = left[r]
  <2>1. Deciding(c) = {r}
    BY <1>2 DEF Deciding, MidwayFor, NothingShared, Midway
  <2> QED
    BY <2>1 DEF Metered
<1> QED
  BY <1>1, <1>2

\* In a tick, a bucket refills by one unit up to a burst, also one that expires.
LEMMA LevelRefills ==
  ASSUME DebtInv, BucketTTL >= Burst, NEW c \in Client
  PROVE  LET level == Level(bucket[c], clock) IN
         Level(Aged(bucket[c]), clock + 1) = IF level < Burst THEN level + 1 ELSE level
<1> DEFINE b == bucket[c]
<1>1. b \in Buckets /\ clock \in Nat /\ Burst \in Nat /\ Level(b, clock) \in Int
  BY BudgetTypes
<1>2. b.ttl # 0 => b.tokens + (clock - b.ts) >= BucketTTL - b.ttl
  BY <1>1 DEF DebtInv, RefilledSince, Buckets
<1>3. CASE b.ttl <= 1
  <2>1. Level(Aged(b), clock + 1) = Burst
    BY <1>3 DEF Aged, NoBucket, Level
  <2>2. Level(b, clock) = Burst \/ Level(b, clock) = Burst - 1
    <3>1. CASE b.ttl = 0
      BY <3>1 DEF Level
    <3>2. CASE b.ttl = 1
      <4>1. b.tokens + (clock - b.ts) >= Burst - 1 /\ b.tokens + (clock - b.ts) \in Int
        BY <1>1, <1>2, <3>2, BucketConstantsOK DEF Buckets
      <4> QED
        BY <1>1, <3>2, <4>1 DEF Level, Lower
    <3> QED
      BY <1>1, <1>3, <3>1, <3>2 DEF Buckets
  <2> QED
    BY <1>1, <2>1, <2>2
<1>4. CASE b.ttl > 1
  <2>1. Aged(b).ttl > 0 /\ Aged(b).tokens = b.tokens /\ Aged(b).ts = b.ts
    BY <1>1, <1>4 DEF Aged, Buckets
  <2> QED
    BY <1>1, <1>4, <2>1, BucketConstantsOK DEF Level, Lower, Buckets
<1> QED
  BY <1>1, <1>3, <1>4 DEF Buckets

\* Every step of allow() is one of the ideal bucket's, or changes none of its meters
\* and verdicts.
LEMMA MeterStep ==
  ASSUME ~OnRedis, BucketTTL >= Burst, MeterInv, MeterInv', [Next]_vars
  PROVE  [Ideal!Next]_(Ideal!vars)
<1>0. /\ DebtInv /\ NothingShared /\ Prompt /\ NothingShared'
      /\ pc \in [Req -> {"idle", "get", "set", "done", "failed"}]
      /\ now \in [Req -> Nat] /\ left \in [Req -> Int] /\ client \in [Req -> Client]
      /\ bucket \in [Client -> Buckets] /\ allowed \in [Req -> BOOLEAN] /\ clock \in Nat
  BY DEF MeterInv, DebtInv, TypeOK
<1>a. ASSUME \A c \in Client : Metered'[c] = Metered[c], Verdict' = Verdict, client' = client
      PROVE  [Ideal!Next]_(Ideal!vars)
  <2>1. Metered' = Metered
    BY <1>a DEF Metered
  <2> QED
    BY <1>a, <2>1 DEF Ideal!vars
<1>1. ASSUME NEW r \in Req, Begin(r) PROVE [Ideal!Next]_(Ideal!vars)
  <2>1. /\ pc[r] = "idle" /\ pc' = [pc EXCEPT ![r] = "get"]
        /\ UNCHANGED <<clock, bucket, backend, client, left, allowed>>
        /\ \A s \in Req : ~Midway(s)
    BY <1>1 DEF Begin, Undisturbed, Midway
  <2>2. (\A s \in Req : pc[s] # "set") /\ (\A s \in Req : pc'[s] # "set")
    BY <1>0, <2>1 DEF Midway
  <2>3. \A c \in Client : /\ Metered[c] = Level(bucket[c], clock)
                          /\ Metered'[c] = Level(bucket'[c], clock')
    <3>1. \A c \in Client : Deciding(c) = {} /\ Deciding(c)' = {}
      BY <2>2 DEF Deciding, MidwayFor
    <3> QED
      BY <3>1 DEF Metered
  <2>4. Verdict' = Verdict
    BY <1>0, <2>1 DEF Verdict
  <2> QED
    BY <1>a, <2>1, <2>3, <2>4
<1>2. ASSUME NEW r \in Req, Get(r) PROVE Ideal!Next
  <2> DEFINE d == client[r]
             level == Level(bucket[d], clock)
  <2>1. /\ pc[r] = "get" /\ pc' = [pc EXCEPT ![r] = "set"]
        /\ left' = [left EXCEPT ![r] = Remaining(level)]
        /\ allowed' = [allowed EXCEPT ![r] = level >= Cost]
        /\ UNCHANGED <<clock, bucket, backend, client>>
    <3>1. now[r] = clock
      BY <1>0, <1>2 DEF Get, Prompt, Midway
    <3> QED
      BY <1>2, <3>1 DEF Get
  <2>2. d \in Client /\ level \in Int /\ Cost \in Nat
    BY <1>0, BudgetTypes
  <2> HIDE DEF level
  <2>3. (\A s \in Req : pc[s] # "set") /\ (\A s \in Req : pc'[s] = "set" => s = r)
    BY <1>0, <2>1 DEF NothingShared, Midway
  <2>4. \A c \in Client : Metered[c] = Level(bucket[c], clock)
    BY <2>3, MeterReads
  <2>5. Metered[d] = level
    BY <2>2, <2>4 DEF level
  <2>6. \A c \in Client \ {d} : Metered'[c] = Metered[c]
    <3> TAKE c \in Client \ {d}
    <3>1. \A s \in Req : pc'[s] = "set" => client'[s] # c
      BY <2>1, <2>3
    <3>2. Deciding(c)' = {}
      BY <3>1 DEF Deciding, MidwayFor
    <3> QED
      BY <2>1, <2>4, <3>2 DEF Metered
  <2>7. Metered'[d] = Remaining(level)
    <3>1. Deciding(d)' = {r}
      BY <1>0, <2>1, <2>3 DEF Deciding, MidwayFor, Midway
    <3>2. Metered'[d] = left'[r]
      BY <2>1, <2>2, <3>1 DEF Metered
    <3> QED
      BY <1>0, <2>1, <3>2
  <2>8. Metered' = [Metered EXCEPT ![d] = Remaining(level)]
    BY <2>2, <2>6, <2>7 DEF Metered
  <2>9. /\ Verdict[r] = "none"
        /\ Verdict' = [Verdict EXCEPT ![r] = IF level >= Cost THEN "granted" ELSE "refused"]
    BY <1>0, <2>1 DEF Verdict
  <2>10. CASE level >= Cost
    <3>1. Remaining(level) = Metered[d] - Cost
      BY <2>5, <2>10 DEF Remaining
    <3>2. Ideal!Grant(r)
      BY <2>1, <2>5, <2>8, <2>9, <2>10, <3>1 DEF Ideal!Grant
    <3> QED
      BY <3>2 DEF Ideal!Next
  <2>11. CASE ~(level >= Cost)
    <3>1. Metered' = Metered
      BY <2>5, <2>8, <2>11 DEF Remaining, Metered
    <3>2. Ideal!Refuse(r)
      BY <2>1, <2>2, <2>5, <2>9, <2>11, <3>1 DEF Ideal!Refuse
    <3> QED
      BY <3>2 DEF Ideal!Next
  <2> QED
    BY <2>10, <2>11
<1>3. ASSUME NEW r \in Req, Set(r) PROVE [Ideal!Next]_(Ideal!vars)
  <2> DEFINE d == client[r]
  <2>1. /\ pc[r] = "set" /\ pc' = [pc EXCEPT ![r] = "done"]
        /\ bucket' = [bucket EXCEPT ![d] = Stored(r)]
        /\ UNCHANGED <<clock, backend, client, now, left, allowed>>
    BY <1>3 DEF Set
  <2>2. (\A s \in Req : pc[s] = "set" => s = r) /\ (\A s \in Req : pc'[s] # "set")
    BY <1>0, <2>1 DEF NothingShared, Midway
  <2>3. \A c \in Client : Deciding(c)' = {}
    BY <2>2 DEF Deciding, MidwayFor
  <2>4. \A c \in Client : Metered'[c] = Level(bucket'[c], clock)
    BY <2>1, <2>3 DEF Metered
  <2>5. \A c \in Client \ {d} : Metered'[c] = Metered[c]
    BY <1>0, <2>1, <2>2, <2>4, MeterReads
  <2>6. Metered'[d] = Metered[d]
    <3>1. Metered[d] = left[r]
      BY <1>0, <2>1, MeterReads
    <3>2. Metered'[d] = Level(Stored(r), clock)
      BY <1>0, <2>1, <2>4
    <3>3. now[r] = clock /\ left[r] <= Burst /\ left[r] \in Int
      BY <1>0, <2>1 DEF Prompt, Midway
    <3>4. Stored(r).ttl # 0 /\ Stored(r).tokens = left[r] /\ Stored(r).ts = now[r]
      BY <1>0, StoredType, BucketConstantsOK DEF DebtInv
    <3>5. Level(Stored(r), clock) = left[r]
      BY <1>0, <3>3, <3>4, BucketConstantsOK DEF Level, Lower
    <3> QED
      BY <3>1, <3>2, <3>5
  <2>7. Verdict' = Verdict
    BY <1>0, <2>1 DEF Verdict
  <2> QED
    BY <1>a, <2>1, <2>5, <2>6, <2>7
<1>4. ASSUME NEW r \in Req, Abort(r) PROVE [Ideal!Next]_(Ideal!vars)
  BY <1>4 DEF Abort
<1>5. CASE Tick
  <2>1. /\ clock' = clock + 1 /\ bucket' = [c \in Client |-> Aged(bucket[c])]
        /\ UNCHANGED <<pc, backend, client, left, allowed>>
        /\ \A r \in Req : pc[r] # "set" /\ pc'[r] # "set"
    BY <1>5 DEF Tick, Interruptible, Midway
  <2>2. \A c \in Client : Deciding(c) = {} /\ Deciding(c)' = {}
    BY <2>1 DEF Deciding, MidwayFor
  <2>3. \A c \in Client : /\ Metered[c] = Level(bucket[c], clock)
                          /\ Metered'[c] = Level(Aged(bucket[c]), clock + 1)
    BY <2>1, <2>2 DEF Metered
  <2>4. \A c \in Client :
          Metered'[c] = IF Metered[c] < Burst THEN Metered[c] + 1 ELSE Metered[c]
    BY <1>0, <2>3, LevelRefills
  <2>5. Metered' = [c \in Client |-> IF Metered[c] < Burst THEN Metered[c] + 1 ELSE Metered[c]]
    BY <2>4 DEF Metered
  <2>6. Verdict' = Verdict
    BY <2>1 DEF Verdict
  <2> QED
    BY <2>1, <2>5, <2>6 DEF Ideal!Next, Ideal!Refill
<1>6. CASE Observe
  <2>1. UNCHANGED <<clock, bucket, pc, backend, client, left, allowed>>
    BY <1>6 DEF Observe
  <2>2. Metered' = Metered /\ Verdict' = Verdict
    BY <2>1 DEF Metered, Verdict, Deciding, MidwayFor, Midway
  <2> QED
    BY <1>a, <2>1, <2>2
<1>7. CASE UNCHANGED vars
  <2>1. UNCHANGED <<clock, bucket, pc, backend, client, left, allowed>>
    BY <1>7 DEF vars
  <2>2. Metered' = Metered /\ Verdict' = Verdict
    BY <2>1 DEF Metered, Verdict, Deciding, MidwayFor, Midway
  <2> QED
    BY <1>a, <2>1, <2>2
<1> QED
  BY <1>1, <1>2, <1>3, <1>4, <1>5, <1>6, <1>7 DEF Next, Quiet

\* One process with a MemoryStore, and buckets kept at least as long as they take to
\* refill: whatever the calls and their clients, allow() decides as the ideal token
\* bucket does (limiter.py:21-48).
THEOREM MeterInMemory ==
  ASSUME BucketTTL >= Burst
  PROVE  Spec => ActsAsMeter
<1> DEFINE Inv == ~OnRedis => NothingShared /\ Prompt
<1>1. Init => Ideal!Init
  <2> SUFFICES ASSUME Init PROVE Ideal!Init
    OBVIOUS
  <2>1. \A c \in Client : Deciding(c) = {}
    BY DEF Init, Deciding, MidwayFor, Midway
  <2>2. \A c \in Client : Level(bucket[c], clock) = Burst
    BY DEF Init, Level, NoBucket
  <2>3. Metered = [c \in Client |-> Burst] /\ Verdict = [r \in Req |-> "none"]
    BY <2>1, <2>2 DEF Init, Metered, Verdict
  <2> QED
    BY <2>3 DEF Init, Ideal!Init
<1>2. Init => Inv
  BY DEF Init, NothingShared, Prompt, Midway
<1>3. DebtInv /\ Inv /\ [Next]_vars => Inv'
  BY NothingSharedStep, PromptStep, StoreKept DEF MeterInv, DebtInv
<1>4. DebtInv /\ Inv /\ DebtInv' /\ Inv' /\ [Next]_vars
      => [~OnRedis => Ideal!Next]_(Ideal!vars)
  BY MeterStep, StoreKept DEF MeterInv
<1> QED
  BY <1>1, <1>2, <1>3, <1>4, DebtInvariant, PTL DEF Spec, ActsAsMeter
=============================================================================
