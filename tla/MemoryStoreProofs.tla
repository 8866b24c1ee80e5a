-------------------------- MODULE MemoryStoreProofs --------------------------
(* Theorems about MemoryStore, for any keys, values and times to live.       *)
EXTENDS MemoryStore, TLAPS

Value == Text \cup Int \cup {None}

\* What an entry of the dictionary is worth at time t.
Live(e, t) == e.value # None /\ ~(e.expires # 0 /\ e.expires < t)
Image(e, t) ==
  [value |-> IF Live(e, t) THEN e.value ELSE None,
   left  |-> IF Live(e, t) /\ e.expires # 0 THEN e.expires - t ELSE -1]

\* Counters hold numbers, and never expire.
CountersLast ==
  \A k \in Counter : kv[k].value \in Int \cup {None} /\ kv[k].expires = 0

\* When every key that incr() is called on is a counter and nothing else.
StoreInv == TypeOK /\ (Stored \cap Counter = {} => CountersLast)
-----------------------------------------------------------------------------
LEMMA EntriesImage == Entries = [k \in Key |-> Image(kv[k], clock)]
BY DEF Entries, Entry, Image, Live, Present, Expired

\* Replacing one entry of the dictionary replaces its image.
LEMMA ImageExcept ==
  ASSUME TypeOK, NEW k \in Key, NEW e,
         kv' = [kv EXCEPT ![k] = e], UNCHANGED clock
  PROVE  Entries' = [Entries EXCEPT ![k] = Image(e, clock)]
<1>1. Entries = [j \in Key |-> Image(kv[j], clock)]
  BY EntriesImage
<1>2. Entries' = [j \in Key |-> Image(kv'[j], clock)]
  BY DEF Entries, Entry, Image, Live, Present, Expired
<1>3. \A j \in Key : kv'[j] = IF j = k THEN e ELSE kv[j]
  BY DEF TypeOK
<1> QED
  BY <1>1, <1>2, <1>3

LEMMA EntriesKept == UNCHANGED <<kv, clock>> => Entries' = Entries
BY DEF Entries, Entry, Present, Expired

LEMMA AbsentImage == \A t : Image(Absent, t) = Redis!Gone
BY DEF Image, Live, Absent, Redis!Gone, Redis!Never

\* An entry with a deadline in the future is live until then.
LEMMA DeadlineImage ==
  ASSUME TypeOK, NEW v \in Text \cup Int, NEW ttl \in 0..MaxTTL
  PROVE  /\ Image([value |-> v, expires |-> Deadline(ttl)], clock)
              = [value |-> v, left |-> ttl]
         /\ Image([value |-> v, expires |-> 0], clock)
              = [value |-> v, left |-> Redis!Never]
BY MemoryConstantsOK DEF Image, Live, Deadline, TypeOK, Redis!Never

\* As a tick passes, the image of an entry ages as Redis ages its keys.
LEMMA AgedImage ==
  ASSUME NEW t \in Nat \ {0}, NEW e \in [value : Value, expires : Nat]
  PROVE  Image(e, t + 1) = Redis!Aged(Image(e, t))
<1>1. CASE ~Live(e, t)
  <2>1. ~Live(e, t + 1)
    BY <1>1 DEF Live
  <2> QED
    BY <1>1, <2>1 DEF Image, Redis!Aged, Redis!Never
<1>2. CASE Live(e, t) /\ e.expires = 0
  <2>1. Live(e, t + 1)
    BY <1>2 DEF Live
  <2> QED
    BY <1>2, <2>1 DEF Image, Redis!Aged, Redis!Never
<1>3. CASE Live(e, t) /\ e.expires = t
  <2>1. ~Live(e, t + 1)
    BY <1>3 DEF Live
  <2> QED
    BY <1>3, <2>1 DEF Image, Redis!Aged, Redis!Never, Redis!Gone
<1>4. CASE Live(e, t) /\ e.expires > t
  <2>1. Live(e, t + 1)
    BY <1>4 DEF Live
  <2> QED
    BY <1>4, <2>1 DEF Image, Redis!Aged, Redis!Never
<1> QED
  BY <1>1, <1>2, <1>3, <1>4 DEF Live
-----------------------------------------------------------------------------
LEMMA StoreInit == Init => StoreInv
BY MemoryConstantsOK DEF Init, StoreInv, TypeOK, CountersLast, Absent, Key

LEMMA StoreStep == StoreInv /\ [Next]_vars => StoreInv'
<1> SUFFICES ASSUME StoreInv, [Next]_vars PROVE StoreInv'
  OBVIOUS
<1>0. /\ TypeOK /\ clock \in Nat \ {0} /\ MaxTTL \in Nat
      /\ kv \in [Key -> [value : Text \cup Int \cup {None}, expires : 0..(clock + MaxTTL)]]
      /\ reply \in [ok : BOOLEAN, value : Text \cup Int \cup {None}]
      /\ Stored \cap Counter = {} => CountersLast
  BY MemoryConstantsOK DEF StoreInv, TypeOK
<1>1. ASSUME NEW k \in Key, NEW e \in [value : Text \cup Int \cup {None},
                                       expires : 0..(clock + MaxTTL)],
             kv' = [kv EXCEPT ![k] = e], UNCHANGED clock,
             reply' \in [ok : BOOLEAN, value : Text \cup Int \cup {None}],
             k \in Counter => \/ e.value \in Int \cup {None} /\ e.expires = 0
                              \/ k \in Stored
      PROVE  StoreInv'
  BY <1>0, <1>1 DEF StoreInv, TypeOK, CountersLast, Key
<1>2. ASSUME UNCHANGED <<kv, clock>>,
             reply' \in [ok : BOOLEAN, value : Text \cup Int \cup {None}]
      PROVE  StoreInv'
  BY <1>0, <1>2 DEF StoreInv, TypeOK, CountersLast
<1>3. Absent \in [value : Text \cup Int \cup {None}, expires : 0..(clock + MaxTTL)]
  BY <1>0 DEF Absent
<1>4. ASSUME NEW k \in Key, Get(k) PROVE StoreInv'
  <2>1. reply' \in [ok : BOOLEAN, value : Text \cup Int \cup {None}]
    <3>1. kv[k].value \in Text \cup Int \cup {None}
      BY <1>0
    <3>2. \/ reply' = [ok |-> TRUE, value |-> kv[k].value]
          \/ reply' = [ok |-> TRUE, value |-> None]
      BY <1>4 DEF Get, Returns
    <3>3. \A v \in Text \cup Int \cup {None} :
            [ok |-> TRUE, value |-> v] \in [ok : BOOLEAN, value : Text \cup Int \cup {None}]
      OBVIOUS
    <3> QED
      BY <3>1, <3>2, <3>3, Zenon
  <2> QED
    BY <1>1, <1>2, <1>3, <1>4, <2>1 DEF Get, Absent
<1>5. ASSUME NEW k \in Key, Delete(k) PROVE StoreInv'
  BY <1>1, <1>3, <1>5 DEF Delete, Returns, Absent
<1>6. ASSUME NEW k \in Stored, NEW v \in Text \cup Number, NEW ttl \in 0..MaxTTL,
             Set(k, v, ttl)
      PROVE  StoreInv'
  <2>1. k \in Key /\ v \in Text \cup Int \cup {None}
    BY MemoryConstantsOK DEF Key
  <2>2. (IF ttl = 0 THEN 0 ELSE Deadline(ttl)) \in 0..(clock + MaxTTL)
    BY <1>0 DEF Deadline
  <2> QED
    BY <1>1, <1>6, <2>1, <2>2 DEF Set, Returns
<1>7. ASSUME NEW k \in Stored, NEW v \in Text \cup Number, NEW ttl \in 1..MaxTTL,
             SetNX(k, v, ttl)
      PROVE  StoreInv'
  <2>1. k \in Key /\ v \in Text \cup Int \cup {None}
    BY MemoryConstantsOK DEF Key
  <2>2. Deadline(ttl) \in 0..(clock + MaxTTL)
    BY <1>0 DEF Deadline
  <2>3. CASE Vacant(k)
    <3>1. /\ kv' = [kv EXCEPT ![k] = [value |-> v, expires |-> Deadline(ttl)]]
          /\ reply' = [ok |-> TRUE, value |-> None] /\ UNCHANGED clock
      BY <1>7, <2>3 DEF SetNX, Returns
    <3>2. reply' \in [ok : BOOLEAN, value : Text \cup Int \cup {None}]
      BY <3>1
    <3> QED
      BY <1>1, <2>1, <2>2, <3>1, <3>2
  <2>4. CASE ~Vacant(k)
    <3>1. reply' = [ok |-> FALSE, value |-> None] /\ UNCHANGED <<kv, clock>>
      BY <1>7, <2>4 DEF SetNX, Refuses
    <3>2. reply' \in [ok : BOOLEAN, value : Text \cup Int \cup {None}]
      BY <3>1
    <3> QED
      BY <1>2, <3>1, <3>2
  <2> QED
    BY <2>3, <2>4
<1>8. ASSUME NEW k \in Counter, NEW n \in Number, Incr(k, n) PROVE StoreInv'
  <2> DEFINE old == IF kv[k].value \in Int THEN kv[k].value ELSE 0
  <2>1. k \in Key /\ old + n \in Int
    BY MemoryConstantsOK DEF Key
  <2>2. /\ kv' = [kv EXCEPT ![k] = [value |-> old + n, expires |-> 0]]
        /\ reply' = [ok |-> TRUE, value |-> old + n] /\ UNCHANGED clock
    BY <1>8 DEF Incr, Returns
  <2> HIDE DEF old
  <2>3. [value |-> old + n, expires |-> 0]
          \in [value : Text \cup Int \cup {None}, expires : 0..(clock + MaxTTL)]
    BY <1>0, <2>1
  <2>4. reply' \in [ok : BOOLEAN, value : Text \cup Int \cup {None}]
    BY <2>1, <2>2
  <2> QED
    BY <1>1, <2>1, <2>2, <2>3, <2>4
<1>9. ASSUME Tick PROVE StoreInv'
  <2>1. clock' \in Nat \ {0} /\ clock' = clock + 1 /\ UNCHANGED <<kv, reply>>
    BY <1>0, <1>9 DEF Tick
  <2>2. \A k \in Key : kv[k].expires \in 0..(clock' + MaxTTL)
    BY <1>0, <2>1
  <2>3. kv' \in [Key -> [value : Text \cup Int \cup {None}, expires : 0..(clock' + MaxTTL)]]
    BY <1>0, <2>1, <2>2
  <2>4. TypeOK'
    BY <1>0, <2>1, <2>3 DEF TypeOK
  <2> QED
    BY <1>0, <2>1, <2>4 DEF StoreInv, CountersLast
<1>10. CASE UNCHANGED vars
  BY <1>0, <1>2, <1>10 DEF vars
<1> QED
  BY <1>4, <1>5, <1>6, <1>7, <1>8, <1>9, <1>10 DEF Next

\* Every variable keeps its type, and no entry outlives the longest TTL.
THEOREM TypeCorrect == Spec => []TypeOK
<1>1. StoreInv => TypeOK
  BY DEF StoreInv
<1> QED
  BY StoreInit, StoreStep, <1>1, PTL DEF Spec
-----------------------------------------------------------------------------
LEMMA RefinementInit == Init => Redis!Init
<1> SUFFICES ASSUME Init PROVE Redis!Init
  OBVIOUS
<1>1. Entries = [k \in Key |-> Redis!Gone]
  BY EntriesImage, AbsentImage DEF Init
<1> QED
  BY <1>1 DEF Init, Redis!Init, Redis!Key, Key

LEMMA RefinementStep ==
  ASSUME Stored \cap Counter = {}, StoreInv, [Next]_vars
  PROVE  [Redis!Next]_(Redis!vars)
<1>0. /\ TypeOK /\ CountersLast /\ clock \in Nat \ {0} /\ MaxTTL \in Nat
      /\ kv \in [Key -> [value : Text \cup Int \cup {None}, expires : 0..(clock + MaxTTL)]]
  BY MemoryConstantsOK DEF StoreInv, TypeOK
<1>1. /\ Entries = [k \in Key |-> Image(kv[k], clock)]
      /\ \A k \in Key : Entries[k] = Image(kv[k], clock)
  BY EntriesImage
<1>2. Redis!Key = Key
  BY DEF Key, Redis!Key
<1>3. \A k \in Key : (Present(k) /\ ~Expired(k)) <=> Live(kv[k], clock)
  BY DEF Present, Expired, Live
<1>4. ASSUME NEW k \in Key, Get(k) PROVE Redis!Next
  <2>1. CASE Live(kv[k], clock)
    <3>1. Entries' = Entries /\ reply' = [ok |-> TRUE, value |-> kv[k].value]
      BY <1>3, <1>4, <2>1, EntriesKept DEF Get, Returns
    <3>2. Entries[k].value = kv[k].value
      BY <1>1, <2>1 DEF Image
    <3>3. Redis!Get(k)
      BY <3>1, <3>2 DEF Redis!Get, Redis!Returns
    <3> QED
      BY <1>2, <3>3 DEF Redis!Next
  <2>2. CASE ~Live(kv[k], clock)
    <3>1. Entries' = [Entries EXCEPT ![k] = Redis!Gone]
      BY <1>0, <1>3, <1>4, <2>2, ImageExcept, AbsentImage DEF Get
    <3>2. Entries[k] = Redis!Gone
      BY <1>1, <2>2 DEF Image, Redis!Gone, Redis!Never
    <3>3. Entries' = Entries
      BY <1>1, <3>1, <3>2
    <3>4. reply' = [ok |-> TRUE, value |-> None]
      BY <1>3, <1>4, <2>2 DEF Get, Returns
    <3>5. Redis!Get(k)
      BY <3>2, <3>3, <3>4 DEF Redis!Get, Redis!Returns, Redis!Gone
    <3> QED
      BY <1>2, <3>5 DEF Redis!Next
  <2> QED
    BY <2>1, <2>2
<1>5. ASSUME NEW k \in Key, Delete(k) PROVE Redis!Next
  <2>1. Entries' = [Entries EXCEPT ![k] = Redis!Gone]
    BY <1>0, <1>5, ImageExcept, AbsentImage DEF Delete
  <2> QED
    BY <1>2, <1>5, <2>1 DEF Delete, Returns, Redis!Next, Redis!Delete, Redis!Returns
<1>6. ASSUME NEW k \in Stored, NEW v \in Text \cup Number, NEW ttl \in 0..MaxTTL,
             Set(k, v, ttl)
      PROVE  Redis!Next
  <2> DEFINE e == [value |-> v, expires |-> IF ttl = 0 THEN 0 ELSE Deadline(ttl)]
  <2>1. k \in Key /\ v \in Text \cup Int
    BY MemoryConstantsOK DEF Key
  <2>2. Image(e, clock) = [value |-> v, left |-> IF ttl = 0 THEN Redis!Never ELSE ttl]
    BY <1>0, <2>1, DeadlineImage
  <2>3. Entries' = [Entries EXCEPT ![k] = Image(e, clock)]
    BY <1>0, <1>6, <2>1, ImageExcept DEF Set
  <2>4. Redis!Set(k, v, ttl)
    BY <1>6, <2>2, <2>3 DEF Set, Returns, Redis!Set, Redis!Returns
  <2> QED
    BY <2>4 DEF Redis!Next
<1>7. ASSUME NEW k \in Stored, NEW v \in Text \cup Number, NEW ttl \in 1..MaxTTL,
             SetNX(k, v, ttl)
      PROVE  Redis!Next
  <2> DEFINE e == [value |-> v, expires |-> Deadline(ttl)]
  <2>1. k \in Key /\ v \in Text \cup Int
    BY MemoryConstantsOK DEF Key
  <2>0. ttl \in 0..MaxTTL
    BY MemoryConstantsOK
  <2>2. Vacant(k) <=> ~Live(kv[k], clock)
    BY DEF Vacant, Present, Expired, Live
  <2>3. CASE ~Live(kv[k], clock)
    <3>1. Entries[k] = Redis!Gone
      BY <1>1, <2>1, <2>3 DEF Image, Redis!Gone, Redis!Never
    <3>2. Image(e, clock) = [value |-> v, left |-> ttl]
      BY <1>0, <2>0, <2>1, DeadlineImage
    <3>3. Entries' = [Entries EXCEPT ![k] = Image(e, clock)]
      BY <1>0, <1>7, <2>1, <2>2, <2>3, ImageExcept DEF SetNX
    <3>4. Redis!SetNX(k, v, ttl)
      BY <1>7, <2>2, <2>3, <3>1, <3>2, <3>3
         DEF SetNX, Returns, Redis!SetNX, Redis!Returns
    <3> QED
      BY <3>4 DEF Redis!Next
  <2>4. CASE Live(kv[k], clock)
    <3>1. Entries[k].value = kv[k].value /\ kv[k].value # None
      BY <1>1, <2>1, <2>4 DEF Image, Live
    <3>2. Entries[k] # Redis!Gone
      BY <3>1 DEF Redis!Gone
    <3>3. Entries' = Entries
      BY <1>7, <2>2, <2>4, EntriesKept DEF SetNX
    <3>4. Redis!SetNX(k, v, ttl)
      BY <1>7, <2>2, <2>4, <3>2, <3>3 DEF SetNX, Refuses, Redis!SetNX, Redis!Refuses
    <3> QED
      BY <3>4 DEF Redis!Next
  <2> QED
    BY <2>3, <2>4
<1>8. ASSUME NEW k \in Counter, NEW n \in Number, Incr(k, n) PROVE Redis!Next
  <2> DEFINE old == IF kv[k].value \in Int THEN kv[k].value ELSE 0
             e   == [value |-> old + n, expires |-> 0]
  <2>1. k \in Key /\ old \in Int /\ n \in Int /\ old + n \in Int /\ 0 \in 0..MaxTTL
    BY <1>0, MemoryConstantsOK DEF Key
  <2>2. kv' = [kv EXCEPT ![k] = e] /\ reply' = [ok |-> TRUE, value |-> old + n]
        /\ UNCHANGED clock
    BY <1>8 DEF Incr, Returns
  <2>3. kv[k].value \in Int \cup {None} /\ kv[k].expires = 0
    BY DEF CountersLast, StoreInv
  <2>4. Image(e, clock) = [value |-> old + n, left |-> Redis!Never]
    <3> HIDE DEF old
    <3> QED
      BY <1>0, <2>1, DeadlineImage
  <2>5. Entries' = [Entries EXCEPT ![k] = Image(e, clock)]
    <3> HIDE DEF e
    <3> QED
      BY <1>0, <2>1, <2>2, ImageExcept
  <2>6. CASE kv[k].value = None
    <3>1. old = 0 /\ old + n = n
      BY <2>1, <2>6, MemoryConstantsOK
    <3>2. Entries[k].value = None
      BY <1>1, <2>1, <2>6 DEF Image, Live
    <3> HIDE DEF old, e
    <3>3. Redis!Incr(k, n)
      BY <2>2, <2>4, <2>5, <3>1, <3>2 DEF Redis!Incr, Redis!Returns
    <3> QED
      BY <3>3 DEF Redis!Next
  <2>7. CASE kv[k].value \in Int
    <3>1. old = kv[k].value
      BY <2>7
    <3>2. Entries[k] = [value |-> old, left |-> Redis!Never]
      BY <1>1, <2>1, <2>3, <2>7, MemoryConstantsOK DEF Image, Live, Redis!Never
    <3> HIDE DEF old, e
    <3>3. [Entries[k] EXCEPT !.value = old + n] = [value |-> old + n, left |-> Redis!Never]
      BY <3>2
    <3>4. Entries' = [Entries EXCEPT ![k].value = old + n]
      BY <2>4, <2>5, <3>3
    <3>5. Redis!Incr(k, n)
      BY <2>1, <2>2, <3>2, <3>4 DEF Redis!Incr, Redis!Returns
    <3> QED
      BY <3>5 DEF Redis!Next
  <2> QED
    BY <2>3, <2>6, <2>7
<1>9. ASSUME Tick PROVE Redis!Next
  <2>1. kv' = kv /\ reply' = reply /\ clock' = clock + 1
    BY <1>9 DEF Tick
  <2>2. Entries' = [k \in Key |-> Image(kv[k], clock + 1)]
    BY <2>1 DEF Entries, Entry, Image, Live, Present, Expired
  <2>3. \A k \in Key : Image(kv[k], clock + 1) = Redis!Aged(Image(kv[k], clock))
    BY <1>0, AgedImage DEF Value
  <2>4. Entries' = [k \in Key |-> Redis!Aged(Entries[k])]
    BY <1>1, <2>2, <2>3
  <2> QED
    BY <1>2, <2>1, <2>4 DEF Redis!Next, Redis!Tick
<1>10. CASE UNCHANGED vars
  BY <1>10, EntriesKept DEF vars, Redis!vars
<1> QED
  BY <1>4, <1>5, <1>6, <1>7, <1>8, <1>9, <1>10 DEF Next

\* A gateway on MemoryStore gets the replies it would get from Redis, as long as
\* no key is both set and incremented (store.py:22-75).
THEOREM StandIn ==
  ASSUME Stored \cap Counter = {}
  PROVE  Spec => StandsInForRedis
<1>1. StoreInv /\ [Next]_vars => [Redis!Next]_(Redis!vars)
  BY RefinementStep
<1> QED
  BY StoreInit, StoreStep, RefinementInit, <1>1, PTL
     DEF Spec, StandsInForRedis, Redis!Spec
=============================================================================
