----------------------------- MODULE MemoryStore -----------------------------
(***************************************************************************)
(* MemoryStore (gateway/store.py), the in-process stand-in for Redis: a    *)
(* dictionary of values and expiry times under one asyncio.Lock, so that   *)
(* each operation is one step.  Expired entries stay in the dictionary     *)
(* until a get() finds them.                                               *)
(***************************************************************************)
EXTENDS Integers

CONSTANTS
  Stored,    \* keys that set and setnx are called on
  Counter,   \* keys that incr is called on
  Text,      \* values that are not the decimal form of a number
  Number,    \* values that are, as far as operations are called with them
  None,      \* absence of a value
  MaxTTL,    \* the longest TTL an operation asks for, in ticks
  MaxClock,  \* bound of this model: the clock stops here
  MaxCount   \* bound of this model: no counter is raised beyond

Key == Stored \cup Counter

ASSUME MemoryConstantsOK ==
  /\ None \notin Text \cup Int /\ Text \cap Int = {} /\ Number \subseteq Int
  /\ MaxTTL \in Nat \ {0} /\ MaxClock \in Nat /\ MaxCount \in Int

VARIABLES
  kv,     \* MemoryStore._kv: value and expiry time (0: none) per key
  clock,  \* time.time()
  reply   \* what the last operation returned or raised

vars == <<kv, clock, reply>>

Absent == [value |-> None, expires |-> 0]

TypeOK ==
  /\ clock \in Nat \ {0}
  /\ kv \in [Key -> [value : Text \cup Int \cup {None}, expires : 0..(clock + MaxTTL)]]
  /\ reply \in [ok : BOOLEAN, value : Text \cup Int \cup {None}]

Init ==
  /\ kv = [k \in Key |-> Absent]
  /\ clock = 1
  /\ reply = [ok |-> TRUE, value |-> None]
-----------------------------------------------------------------------------
Returns(v) == reply' = [ok |-> TRUE, value |-> v]
Refuses == reply' = [ok |-> FALSE, value |-> None]

Present(k) == kv[k].value # None
Expired(k) == kv[k].expires # 0 /\ kv[k].expires < clock

Get(k) ==
  /\ IF Present(k) /\ ~Expired(k)
     THEN Returns(kv[k].value) /\ UNCHANGED kv
     ELSE Returns(None) /\ kv' = [kv EXCEPT ![k] = Absent]
  /\ UNCHANGED clock

\* time.time() + ttl_s
DeadlineMillis(ttl) == clock + 1000 * ttl
Deadline(ttl) == clock + ttl

Set(k, v, ttl) ==
  /\ kv' = [kv EXCEPT ![k] = [value   |-> v,
                              expires |-> IF ttl = 0 THEN 0 ELSE Deadline(ttl)]]
  /\ Returns(None)
  /\ UNCHANGED clock

\* Nothing is stored under the key, or only an entry that has expired.
VacantOnceDeleted(k) == ~Present(k)
Vacant(k) == ~Present(k) \/ Expired(k)

SetNX(k, v, ttl) ==
  /\ IF Vacant(k)
     THEN kv' = [kv EXCEPT ![k] = [value |-> v, expires |-> Deadline(ttl)]] /\ Returns(None)
     ELSE Refuses /\ UNCHANGED kv
  /\ UNCHANGED clock

Delete(k) == kv' = [kv EXCEPT ![k] = Absent] /\ Returns(None) /\ UNCHANGED clock

\* The expiry of the old entry is neither looked at nor kept.
Incr(k, n) ==
  LET old == IF kv[k].value \in Int THEN kv[k].value ELSE 0 IN
  /\ old + n <= MaxCount
  /\ kv' = [kv EXCEPT ![k] = [value |-> old + n, expires |-> 0]]
  /\ Returns(old + n)
  /\ UNCHANGED clock

Tick == clock < MaxClock /\ clock' = clock + 1 /\ UNCHANGED <<kv, reply>>

Next ==
  \/ \E k \in Key : Get(k) \/ Delete(k)
  \/ \E k \in Stored, v \in Text \cup Number :
       \/ \E ttl \in 0..MaxTTL : Set(k, v, ttl)
       \/ \E ttl \in 1..MaxTTL : SetNX(k, v, ttl)
  \/ \E k \in Counter, n \in Number : Incr(k, n)
  \/ Tick

Spec == Init /\ [][Next]_vars
-----------------------------------------------------------------------------
\* MemoryStore answers every operation as Redis would, expired entries it still
\* holds included ("stand-in for Redis", store.py:23), as long as incr() is not
\* called on a key that set() or setnx() is called on (store.py:22-75).
Entry(k) ==
  [value |-> IF Present(k) /\ ~Expired(k) THEN kv[k].value ELSE None,
   left  |-> IF Present(k) /\ ~Expired(k) /\ kv[k].expires # 0
             THEN kv[k].expires - clock ELSE -1]
Entries == [k \in Key |-> Entry(k)]
Redis == INSTANCE KVStore WITH entry <- Entries
StandsInForRedis == Redis!Spec
=============================================================================
