------------------------------- MODULE KVStore -------------------------------
(***************************************************************************)
(* What the gateway uses of Redis through RedisStore (gateway/store.py):   *)
(* keys with a time to live, and operations that are one command each.     *)
(* Redis itself is not part of the repository: the effect of its commands  *)
(* is modelled from the way the gateway calls them.                        *)
(***************************************************************************)
EXTENDS Integers

\* None, Text and Number are disjoint, and MaxTTL is positive: MemoryStore, which
\* instantiates this module, assumes it.
CONSTANTS
  Stored,   \* keys that set and setnx are called on
  Counter,  \* keys that incr is called on
  Text,     \* values that are not the decimal form of a number
  Number,   \* values that are, as far as operations are called with them
  None,     \* absence of a value
  MaxTTL    \* the longest TTL an operation asks for, in ticks

Key == Stored \cup Counter

VARIABLES
  entry,  \* per key: value, and ticks left before it is gone
  reply   \* what the last operation returned or raised

vars == <<entry, reply>>

Never == -1                                \* ticks left of a key without a TTL
Gone  == [value |-> None, left |-> Never]

Returns(v) == reply' = [ok |-> TRUE, value |-> v]
Refuses == reply' = [ok |-> FALSE, value |-> None]

Init == entry = [k \in Key |-> Gone] /\ reply = [ok |-> TRUE, value |-> None]

Get(k) == Returns(entry[k].value) /\ UNCHANGED entry

\* SETEX, or SET when there is no TTL.
Set(k, v, ttl) ==
  /\ entry' = [entry EXCEPT ![k] = [value |-> v, left |-> IF ttl = 0 THEN Never ELSE ttl]]
  /\ Returns(None)

\* SET NX EX
SetNX(k, v, ttl) ==
  \/ /\ entry[k] = Gone
     /\ entry' = [entry EXCEPT ![k] = [value |-> v, left |-> ttl]]
     /\ Returns(None)
  \/ entry[k] # Gone /\ Refuses /\ UNCHANGED entry

Delete(k) == entry' = [entry EXCEPT ![k] = Gone] /\ Returns(None)

\* INCRBY keeps the TTL, and refuses what is not a number.
Incr(k, n) ==
  LET old == entry[k].value IN
  \/ old = None /\ entry' = [entry EXCEPT ![k] = [value |-> n, left |-> Never]]
                /\ Returns(n)
  \/ old \in Int /\ entry' = [entry EXCEPT ![k].value = old + n] /\ Returns(old + n)
  \/ old \in Text /\ Refuses /\ UNCHANGED entry

\* Time passes: a key outlives the last tick of its TTL by less than a tick.
Aged(e) == IF e.left = Never THEN e
           ELSE IF e.left = 0 THEN Gone ELSE [e EXCEPT !.left = @ - 1]
Tick == entry' = [k \in Key |-> Aged(entry[k])] /\ UNCHANGED reply

Next ==
  \/ \E k \in Key : Get(k) \/ Delete(k)
  \/ \E k \in Stored, v \in Text \cup Number :
       \/ \E ttl \in 0..MaxTTL : Set(k, v, ttl)
       \/ \E ttl \in 1..MaxTTL : SetNX(k, v, ttl)
  \/ \E k \in Counter, n \in Number : Incr(k, n)
  \/ Tick

Spec == Init /\ [][Next]_vars
=============================================================================
