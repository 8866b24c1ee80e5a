------------------------------ MODULE Coalescer ------------------------------
(***************************************************************************)
(* Cross-replica single-flight: Coalescer.run (gateway/coalesce.py) with   *)
(* the part of the /v1/complete handler that feeds it (gateway/main.py),   *)
(* over the stores that hold the cached payloads and the locks: Redis, or  *)
(* the process itself where build_store (gateway/store.py) fell back to it *)
(* when the process started.                                               *)
(*                                                                         *)
(* A step of a request is the code between two awaits.  With RedisStore    *)
(* every store call suspends the coroutine, so each is a step of its own;  *)
(* with MemoryStore no store call ever suspends (its asyncio.Lock is never *)
(* contended), so a coroutine keeps the event loop until it sleeps, calls  *)
(* the provider or returns: "running" is the request that has the loop.    *)
(*                                                                         *)
(* Deadlines and TTLs are timers that count down to 0 at each Tick.  The   *)
(* semantic tier is off (settings.semantic_enabled = False): a cache read  *)
(* is one store read of the exact key.                                     *)
(***************************************************************************)
EXTENDS Integers, FiniteSets

CONSTANTS
  Req,              \* requests, each served at most once
  Key,              \* exact cache keys; a lock key is "ig:lock:" + exact key
  Process,          \* gateway worker processes
  None,             \* absence of a value
  Redis,            \* the store that processes share
  Backends,         \* what build_store may choose when a process starts
  Caching,          \* processes with settings.cache_enabled
  Coalescing,       \* processes with settings.coalesce_enabled
  LockTTL,          \* settings.coalesce_lock_ttl_s, in ticks
  WaitLimit,        \* settings.upstream_timeout_s, in ticks
  Faults            \* what the environment may do: see FaultKinds

\* "slow": timers run while requests are served; "upstream": all providers may
\* fail; "store": a Redis call may raise, its effect applied or not; "crash": a
\* process may die; "expiry": a cached payload may reach its TTL.
FaultKinds == {"slow", "upstream", "store", "crash", "expiry"}

Store == Process \cup {Redis}
Slot  == Store \X Key                  \* where a payload and its lock are

ASSUME ConstantsOK ==
  /\ None \notin Req \cup Slot \cup Process \cup {"unavailable", "error"}
  /\ Req \cap {"unavailable", "error"} = {}
  /\ Redis \notin Process
  /\ Backends \subseteq {"redis", "memory"}
  /\ Caching \subseteq Process /\ Coalescing \subseteq Process
  /\ LockTTL \in Nat \ {0} /\ WaitLimit \in Nat \ {0}
  /\ Faults \subseteq FaultKinds

VARIABLES
  pc,               \* where each request's coroutine is suspended
  backend,          \* the store build_store chose for each process
  running,          \* MemoryStore only: the request that has the process's loop
  home,             \* process serving the request
  key,              \* the store of that process with the exact_key of the request
  role,             \* "leader", "follower" or "direct" (value of run())
  fetched,          \* requests whose own upstream call returned a completion
  answer,           \* what the request answers: whose payload, or which error
  wait,             \* ticks left before a follower's deadline
  lock,             \* per slot: who set it (the stored value is just "1"), ttl
  cache,            \* per slot: the request whose payload is stored
  leaderCalls,      \* Coalescer.leader_calls of each process
  followersServed,  \* Coalescer.followers_served of each process
  lapsed            \* history: slots whose lock expired under a live leader

vars == <<pc, backend, running, home, key, role, fetched, answer, wait, lock,
          cache, leaderCalls, followersServed, lapsed>>

Labels == {"idle", "lookup", "setnx", "upstream", "put", "delete", "poll",
           "check", "done", "dead"}
Errors == {"unavailable", "error"}      \* HTTP 503 and HTTP 500
Locks  == [by : Req \cup {None}, ttl : 0..LockTTL]
Free   == [by |-> None, ttl |-> 0]
Held(r) == [by |-> r, ttl |-> LockTTL]

Active(r)  == pc[r] \notin {"idle", "done", "dead"}
Leading(r) == role[r] = "leader" /\ pc[r] \in {"upstream", "put", "delete"}
Called(r)  == role[r] \in {"leader", "direct"}     \* has entered do_upstream

TypeOK ==
  /\ pc \in [Req -> Labels]
  /\ backend \in [Process -> {"redis", "memory"}]
  /\ running \in [Process -> Req \cup {None}]
  /\ home \in [Req -> Process \cup {None}]
  /\ key \in [Req -> Slot \cup {None}]
  /\ role \in [Req -> {None, "leader", "follower", "direct"}]
  /\ fetched \subseteq Req
  /\ answer \in [Req -> Req \cup Errors \cup {None}]
  /\ wait \in [Req -> 0..WaitLimit]
  /\ lock \in [Slot -> Locks]
  /\ cache \in [Slot -> Req \cup {None}]
  /\ leaderCalls \in [Process -> Nat]
  /\ followersServed \in [Process -> Nat]
  /\ lapsed \subseteq Slot

Init ==
  /\ pc = [r \in Req |-> "idle"]
  /\ backend \in [Process -> Backends]
  /\ running = [p \in Process |-> None]
  /\ home = [r \in Req |-> None]
  /\ key = [r \in Req |-> None]
  /\ role = [r \in Req |-> None]
  /\ fetched = {}
  /\ answer = [r \in Req |-> None]
  /\ wait = [r \in Req |-> 0]
  /\ lock = [k \in Slot |-> Free]
  /\ cache = [k \in Slot |-> None]
  /\ leaderCalls = [p \in Process |-> 0]
  /\ followersServed = [p \in Process |-> 0]
  /\ lapsed = {}
-----------------------------------------------------------------------------
(* The event loop and the store.                                            *)

\* Awaits that give the loop to another coroutine even with MemoryStore.
SuspendedAlsoBeforeLock == {"setnx", "upstream", "poll", "done"}
Suspended == {"upstream", "poll", "done"}

OnRedis(p) == backend[p] = "redis"
StoreOf(p) == IF OnRedis(p) THEN Redis ELSE p

\* r, served by p, runs on to its next await.
Resume(r, p, label) ==
  /\ OnRedis(p) \/ running[p] \in {None, r}
  /\ pc' = [pc EXCEPT ![r] = label]
  /\ running' = [running EXCEPT ![p] = IF OnRedis(p) \/ label \in Suspended THEN None
                                                                           ELSE r]
  /\ UNCHANGED backend

Goto(r, label) == Resume(r, home[r], label)

\* ResponseCache.get, exact tier: `if raw` on the stored payload.
Hit(r) == home[r] \in Caching /\ cache[key[r]] # None

\* SET NX succeeds iff no live lock is stored.
AcquirableAlways(k) == TRUE
Acquirable(k) == lock[k].ttl = 0

\* The key a payload is stored under.
PutKeyAny(r) == CHOOSE k \in Slot : TRUE
PutKey(r) == key[r]
-----------------------------------------------------------------------------
(* One request: main.complete around Coalescer.run.                         *)

\* The handler has admitted the request and reaches `await cache.get`.
Arrive(r, p, k) ==
  /\ pc[r] = "idle"
  /\ Resume(r, p, "lookup")
  /\ home' = [home EXCEPT ![r] = p]
  /\ key' = [key EXCEPT ![r] = <<StoreOf(p), k>>]
  /\ UNCHANGED <<role, fetched, answer, wait, lock, cache, leaderCalls,
                 followersServed, lapsed>>

\* self.leader_calls += 1; await do_work()
Call(r, as) ==
  /\ Goto(r, "upstream")
  /\ role' = [role EXCEPT ![r] = as]
  /\ leaderCalls' = [leaderCalls EXCEPT ![home[r]] = @ + 1]

\* The first cache.get of the handler; on a miss, run() is entered.
Lookup(r) ==
  /\ pc[r] = "lookup"
  /\ \/ /\ Hit(r)
        /\ Goto(r, "done")
        /\ answer' = [answer EXCEPT ![r] = cache[key[r]]]
        /\ UNCHANGED <<role, leaderCalls>>
     \/ /\ ~Hit(r) /\ home[r] \in Coalescing
        /\ Goto(r, "setnx")
        /\ UNCHANGED <<role, leaderCalls, answer>>
     \/ /\ ~Hit(r) /\ home[r] \notin Coalescing
        /\ Call(r, "direct")
        /\ UNCHANGED answer
  /\ UNCHANGED <<home, key, fetched, wait, lock, cache, followersServed, lapsed>>

\* got_lock = await store.setnx(lock_key, "1", coalesce_lock_ttl_s)
SetNX(r) ==
  /\ pc[r] = "setnx"
  /\ \/ /\ Acquirable(key[r])
        /\ lock' = [lock EXCEPT ![key[r]] = Held(r)]
        /\ Call(r, "leader")
        /\ UNCHANGED wait
     \/ /\ ~Acquirable(key[r])
        /\ role' = [role EXCEPT ![r] = "follower"]
        /\ wait' = [wait EXCEPT ![r] = WaitLimit]
        /\ Goto(r, "poll")
        /\ UNCHANGED <<lock, leaderCalls>>
  /\ UNCHANGED <<home, key, fetched, answer, cache, followersServed, lapsed>>

\* do_work is over with answer a: a leader still has its `finally` to run.
Finish(r, a) ==
  /\ answer' = [answer EXCEPT ![r] = a]
  /\ Goto(r, IF role[r] = "leader" THEN "delete" ELSE "done")

\* pool.complete returns a completion; cache.put stores it unless disabled.
UpstreamOk(r) ==
  /\ pc[r] = "upstream"
  /\ fetched' = fetched \cup {r}
  /\ IF home[r] \in Caching
     THEN Goto(r, "put") /\ UNCHANGED answer
     ELSE Finish(r, r)
  /\ UNCHANGED <<home, key, role, wait, lock, cache, leaderCalls,
                 followersServed, lapsed>>

\* pool.complete raises UpstreamError.
UpstreamRaises(r) ==
  /\ "upstream" \in Faults
  /\ pc[r] = "upstream"
  /\ Finish(r, "unavailable")
  /\ UNCHANGED <<home, key, role, fetched, wait, lock, cache, leaderCalls,
                 followersServed, lapsed>>

\* await store.set(key, payload, cache_ttl_s)
Put(r) ==
  /\ pc[r] = "put"
  /\ cache' = [cache EXCEPT ![PutKey(r)] = r]
  /\ Finish(r, r)
  /\ UNCHANGED <<home, key, role, fetched, wait, lock, leaderCalls,
                 followersServed, lapsed>>

\* finally: await store.delete(lock_key), whoever set the lock.
Delete(r) ==
  /\ pc[r] = "delete"
  /\ lock' = [lock EXCEPT ![key[r]] = Free]
  /\ Goto(r, "done")
  /\ UNCHANGED <<home, key, role, fetched, answer, wait, cache, leaderCalls,
                 followersServed, lapsed>>

\* Follower, after asyncio.sleep: cached = await read_cache()
Poll(r) ==
  /\ pc[r] = "poll"
  /\ \/ /\ Hit(r)
        /\ followersServed' = [followersServed EXCEPT ![home[r]] = @ + 1]
        /\ answer' = [answer EXCEPT ![r] = cache[key[r]]]
        /\ Goto(r, "done")
     \/ /\ ~Hit(r)
        /\ Goto(r, "check")
        /\ UNCHANGED <<followersServed, answer>>
  /\ UNCHANGED <<home, key, role, fetched, wait, lock, cache, leaderCalls, lapsed>>

\* The lock is gone (`break`), or the `while` test fails.
GivesUpNever(r) == FALSE
GivesUp(r) == lock[key[r]].ttl = 0 \/ wait[r] = 0

\* Follower: `if await store.get(lock_key) is None: break`, then the loop test.
Check(r) ==
  /\ pc[r] = "check"
  /\ \/ /\ GivesUp(r)
        /\ Call(r, "direct")
     \/ /\ ~GivesUp(r)
        /\ Goto(r, "poll")
        /\ UNCHANGED <<role, leaderCalls>>
  /\ UNCHANGED <<home, key, fetched, answer, wait, lock, cache,
                 followersServed, lapsed>>
-----------------------------------------------------------------------------
(* The environment.                                                         *)

\* A Redis call of r raises, before or after it took effect.  The handler only
\* catches UpstreamError, so the request ends in a 500, a leader whose cache.put
\* raised running its `finally` first.
StoreRaises(r) ==
  /\ "store" \in Faults
  /\ pc[r] \in {"lookup", "setnx", "put", "delete", "poll", "check"}
  /\ OnRedis(home[r])
  /\ \/ UNCHANGED <<lock, cache>>
     \/ /\ pc[r] = "setnx" /\ Acquirable(key[r])
        /\ lock' = [lock EXCEPT ![key[r]] = Held(r)]
        /\ UNCHANGED cache
     \/ /\ pc[r] = "delete"
        /\ lock' = [lock EXCEPT ![key[r]] = Free]
        /\ UNCHANGED cache
     \/ /\ pc[r] = "put"
        /\ cache' = [cache EXCEPT ![PutKey(r)] = r]
        /\ UNCHANGED lock
  /\ IF pc[r] = "put"
     THEN Finish(r, "error")
     ELSE answer' = [answer EXCEPT ![r] = "error"] /\ Goto(r, "done")
  /\ UNCHANGED <<home, key, role, fetched, wait, leaderCalls, followersServed,
                 lapsed>>

\* A process dies with its requests, its counters and, if private, its store;
\* a fresh one takes its place, with the store that build_store then chooses.
Crash(p) ==
  /\ "crash" \in Faults
  /\ \E r \in Req : home[r] = p /\ Active(r)
  /\ pc' = [r \in Req |-> IF home[r] = p /\ Active(r) THEN "dead" ELSE pc[r]]
  /\ running' = [running EXCEPT ![p] = None]
  /\ \E b \in Backends : backend' = [backend EXCEPT ![p] = b]
  /\ leaderCalls' = [leaderCalls EXCEPT ![p] = 0]
  /\ followersServed' = [followersServed EXCEPT ![p] = 0]
  /\ lock' = [k \in Slot |-> IF k[1] = p THEN Free ELSE lock[k]]
  /\ cache' = [k \in Slot |-> IF k[1] = p THEN None ELSE cache[k]]
  /\ UNCHANGED <<home, key, role, fetched, answer, wait, lapsed>>

\* A stored payload reaches settings.cache_ttl_s.
Expire(k) ==
  /\ "expiry" \in Faults
  /\ cache[k] # None
  /\ cache' = [cache EXCEPT ![k] = None]
  /\ UNCHANGED <<pc, backend, running, home, key, role, fetched, answer, wait, lock,
                 leaderCalls, followersServed, lapsed>>

\* A lock whose TTL runs out is gone.
AgedForever(l) == l
AgedPastZero(l) == [l EXCEPT !.ttl = @ - 1]
Aged(l) == IF l.ttl <= 1 THEN Free ELSE [l EXCEPT !.ttl = @ - 1]

Waiting(r) == pc[r] \in {"poll", "check"}

Tick ==
  /\ "slow" \in Faults
  /\ \/ \E k \in Slot : lock[k].ttl > 0
     \/ \E r \in Req : Waiting(r) /\ wait[r] > 0
  /\ lock' = [k \in Slot |-> Aged(lock[k])]
  /\ wait' = [r \in Req |-> IF Waiting(r) /\ wait[r] > 0 THEN wait[r] - 1
                                                         ELSE wait[r]]
  /\ lapsed' = lapsed \cup {k \in Slot : /\ lock[k].ttl = 1
                                         /\ \E r \in Req : lock[k].by = r /\ Leading(r)}
  /\ UNCHANGED <<pc, backend, running, home, key, role, fetched, answer, cache,
                 leaderCalls, followersServed>>

\* Every request is over: the only way the system comes to rest.
Quiet ==
  /\ \A r \in Req : ~Active(r) /\ pc[r] # "idle"
  /\ UNCHANGED vars
-----------------------------------------------------------------------------
Step(r) ==
  \/ Lookup(r) \/ SetNX(r) \/ UpstreamOk(r) \/ UpstreamRaises(r)
  \/ Put(r) \/ Delete(r) \/ Poll(r) \/ Check(r)

Next ==
  \/ \E r \in Req, p \in Process, k \in Key : Arrive(r, p, k)
  \/ \E r \in Req : Step(r) \/ StoreRaises(r)
  \/ \E p \in Process : Crash(p)
  \/ \E k \in Slot : Expire(k)
  \/ Tick
  \/ Quiet

Spec == Init /\ [][Next]_vars

\* The event loops and Redis make progress, an upstream call ends (httpx gives
\* it a timeout) and time passes.  Nothing obliges a request to arrive, a
\* process to crash or a store call to fail.
Fairness == (\A r \in Req : WF_vars(Step(r))) /\ WF_vars(Tick)

FairSpec == Spec /\ Fairness
-----------------------------------------------------------------------------
(* Properties.                                                              *)

\* As long as no lock of a key expired under a leader that was still working
\* (coalesce.py:43-53), every request that works as leader of the key holds its
\* lock in the store of its process: the unconditional delete in `finally` never
\* takes the lock of another.
LeaderHoldsLock ==
  \A r \in Req : Leading(r) /\ key[r] \notin lapsed =>
    lock[key[r]].by = r /\ lock[key[r]].ttl > 0

\* With a store whose calls never suspend (MemoryStore), an upstream call is made
\* only when needed: nothing is published for the key at that moment, and no
\* leader of the key is at work unless the caller waited in vain until its
\* deadline or a lock of the key lapsed (main.py:128-177, coalesce.py:43-67).
NoNeedlessCall ==
  [][\A r \in Req : ~Called(r) /\ Called(r)' /\ ~OnRedis(home[r]) =>
       /\ ~Hit(r)
       /\ \/ role[r] = "follower" /\ wait[r] = 0
          \/ key[r] \in lapsed
          \/ \A s \in Req : Leading(s) => key[s] # key[r]]_vars

\* Every request is answered unless its process dies: no follower waits forever
\* on a leader, be it slow, failed, crashed or deprived of its lock
\* (coalesce.py:9-13, "cannot deadlock" of ARCHITECTURE.md:90).
EveryRequestEnds ==
  \A r \in Req : Active(r) ~> pc[r] \in {"done", "dead"}

\* A lock is released or expires, even if its holder crashed or failed to delete
\* it, so a key is never closed to new leaders for good.
LockComesFree == \A k \in Slot : lock[k].ttl > 0 ~> lock[k].ttl = 0

\* Answers respect SingleFlight, the promise on payloads, store by store.
Reply == [r \in Req |-> IF pc[r] = "done" THEN answer[r] ELSE None]
Promise == INSTANCE SingleFlight WITH Key <- Slot, asked <- key, reply <- Reply
AnswersArePromised == Promise!Spec
=============================================================================
