----------------------------- MODULE TokenBucket -----------------------------
(***************************************************************************)
(* TokenBucket.allow (gateway/limiter.py): the token bucket of each API    *)
(* key, kept in the store as "tokens|ts" and updated by a read and a write *)
(* that nothing makes one step.  With RedisStore requests of all replicas  *)
(* interleave between the two; with MemoryStore neither suspends, so a     *)
(* call of allow() runs from its clock reading to its write undisturbed.   *)
(*                                                                         *)
(* One tick of the clock refills one unit; a request costs Cost units, so  *)
(* Cost > 1 stands for the fractions of a token the code's floats hold.    *)
(* All replicas read the same clock, and the limiter is enabled.           *)
(***************************************************************************)
EXTENDS Integers

CONSTANTS
  Req,          \* calls of allow(), each made at most once
  Client,       \* API keys
  Backends,     \* the stores build_store may choose: "redis", "memory"
  Burst,        \* settings.limiter_burst, in units
  Cost,         \* the cost of a request, in units
  BucketTTL,    \* the TTL of a stored bucket (3600 s), in ticks
  MaxClock      \* bound of this model: the clock stops here

ASSUME BucketConstantsOK ==
  /\ Backends \subseteq {"redis", "memory"}
  /\ Burst \in Nat /\ Cost \in Nat \ {0} /\ BucketTTL \in Nat \ {0}
  /\ MaxClock \in Nat

VARIABLES
  backend,   \* the store of the limiter, chosen at startup
  clock,     \* time.time()
  bucket,    \* what the store holds per client: tokens, ts, remaining ttl
  pc,        \* where each call is
  client,    \* api_key of the call
  now,       \* the call's clock reading
  left,      \* the tokens the call will store
  allowed,   \* what the call will return
  rejected,  \* TokenBucket.rejected, over all replicas
  mark,      \* history: when the current observation of the clients began
  spent,     \* history: per client, units granted since then
  shared,    \* history: calls under way that overlapped another event
  overlap,   \* history: per client, units granted to such calls since then
  told       \* history: per client, when the wait is over that was announced to
             \* the last one that wrote its bucket, if it was refused

histVars == <<mark, spent, shared, overlap, told>>
vars == <<backend, clock, bucket, pc, client, now, left, allowed, rejected, histVars>>

Buckets  == [tokens : Int, ts : Nat, ttl : 0..BucketTTL]
NoBucket == [tokens |-> 0, ts |-> 0, ttl |-> 0]

TypeOK ==
  /\ backend \in Backends
  /\ clock \in Nat
  /\ bucket \in [Client -> Buckets]
  /\ pc \in [Req -> {"idle", "get", "set", "done", "failed"}]
  /\ client \in [Req -> Client]
  /\ now \in [Req -> Nat]
  /\ left \in [Req -> Int]
  /\ allowed \in [Req -> BOOLEAN]
  /\ rejected \in Nat
  /\ mark \in Nat
  /\ spent \in [Client -> Nat] /\ overlap \in [Client -> Nat]
  /\ shared \subseteq Req /\ told \in [Client -> SUBSET Int]

Init ==
  /\ backend \in Backends
  /\ clock = 0
  /\ bucket = [c \in Client |-> NoBucket]
  /\ pc = [r \in Req |-> "idle"]
  /\ client \in [Req -> Client]
  /\ now = [r \in Req |-> 0]
  /\ left = [r \in Req |-> 0]
  /\ allowed = [r \in Req |-> FALSE]
  /\ rejected = 0
  /\ mark = 0
  /\ spent = [c \in Client |-> 0] /\ overlap = [c \in Client |-> 0]
  /\ shared = {} /\ told = [c \in Client |-> {}]
-----------------------------------------------------------------------------
OnRedis == backend = "redis"

Midway(r) == pc[r] \in {"get", "set"}

\* The calls of client c under way.
MidwayFor(c) == {r \in Req : Midway(r) /\ client[r] = c}

\* With MemoryStore a call of allow() keeps the event loop until it returns.
AnyTime(r) == TRUE
Undisturbed(r) == OnRedis \/ \A s \in Req \ {r} : ~Midway(s)

\* The refilled level of a stored bucket b at time t; a missing one is full.
Lower(m, n) == IF m <= n THEN m ELSE n
LevelUncapped(b, t) == IF b.ttl = 0 THEN Burst ELSE b.tokens + (t - b.ts)
Level(b, t) == IF b.ttl = 0 THEN Burst ELSE Lower(Burst, b.tokens + (t - b.ts))

\* now = time.time()
Begin(r) ==
  /\ pc[r] = "idle" /\ Undisturbed(r)
  /\ pc' = [pc EXCEPT ![r] = "get"]
  /\ now' = [now EXCEPT ![r] = clock]
  /\ LET others == MidwayFor(client[r]) IN
     shared' = IF others = {} THEN shared ELSE shared \cup others \cup {r}
  /\ UNCHANGED <<clock, bucket, backend, client, left, allowed, rejected, mark, spent,
                 overlap, told>>

\* The tokens a call stores, having found level units: a refused one pays nothing.
RemainingOfAll(level) == level - Cost
Remaining(level) == IF level >= Cost THEN level - Cost ELSE level

\* raw = await store.get(key), refill and decision
Get(r) ==
  LET level == Level(bucket[client[r]], now[r]) IN
  /\ pc[r] = "get" /\ Undisturbed(r)
  /\ pc' = [pc EXCEPT ![r] = "set"]
  /\ left' = [left EXCEPT ![r] = Remaining(level)]
  /\ allowed' = [allowed EXCEPT ![r] = level >= Cost]
  /\ rejected' = IF level >= Cost THEN rejected ELSE rejected + 1
  /\ UNCHANGED <<clock, bucket, backend, client, now, histVars>>

\* What the call writes back, and what it is granted when it returns.
Stored(r) == [tokens |-> left[r], ts |-> now[r], ttl |-> BucketTTL]
Paid(r) == IF allowed[r] THEN Cost ELSE 0

\* retry_after of a refused call, which leaves the level it found.
RetryAfterWhole(r) == ((Cost - left[r]) \div Cost) * Cost
RetryAfter(r) == Cost - left[r]

\* await store.set(key, f"{tokens}|{now}", 3600); return
Set(r) ==
  /\ pc[r] = "set" /\ Undisturbed(r)
  /\ pc' = [pc EXCEPT ![r] = "done"]
  /\ bucket' = [bucket EXCEPT ![client[r]] = Stored(r)]
  /\ spent' = [spent EXCEPT ![client[r]] = @ + Paid(r)]
  /\ overlap' = [overlap EXCEPT ![client[r]] = @ + (IF r \in shared THEN Paid(r) ELSE 0)]
  /\ shared' = shared \ {r}
  /\ told' = [told EXCEPT ![client[r]] =
                IF allowed[r] THEN {} ELSE {now[r] + RetryAfter(r)}]
  /\ UNCHANGED <<clock, backend, client, now, left, allowed, rejected, mark>>

\* The Redis call of r raises or its replica dies, before or after the call took
\* effect: the request is not served.
Abort(r) ==
  /\ OnRedis /\ Midway(r)
  /\ pc' = [pc EXCEPT ![r] = "failed"]
  /\ \/ UNCHANGED <<bucket, told>>
     \/ /\ pc[r] = "set"
        /\ bucket' = [bucket EXCEPT ![client[r]] = Stored(r)]
        /\ told' = [told EXCEPT ![client[r]] = {}]
  /\ shared' = shared \ {r}
  /\ UNCHANGED <<clock, backend, client, now, left, allowed, rejected, mark, spent, overlap>>

\* A bucket whose TTL runs out is gone.
AgedPastZero(b) == [b EXCEPT !.ttl = @ - 1]
Aged(b) == IF b.ttl <= 1 THEN NoBucket ELSE [b EXCEPT !.ttl = @ - 1]

\* Where no call of allow() suspends, nothing happens during one.
Interruptible == OnRedis \/ \A r \in Req : ~Midway(r)

\* Time passes.
Tick ==
  /\ clock < MaxClock /\ Interruptible
  /\ clock' = clock + 1
  /\ bucket' = [c \in Client |-> Aged(bucket[c])]
  /\ shared' = shared \cup {r \in Req : Midway(r) /\ bucket[client[r]].ttl = 1}
  /\ UNCHANGED <<pc, backend, client, now, left, allowed, rejected, mark, spent, overlap,
                 told>>

\* History only: what clients spend is observed from now on.
Observe ==
  /\ mark # clock /\ Interruptible
  /\ mark' = clock
  /\ spent' = [c \in Client |-> 0] /\ overlap' = [c \in Client |-> 0]
  /\ shared' = {r \in Req : Midway(r)}
  /\ UNCHANGED <<clock, bucket, pc, backend, client, now, left, allowed, rejected, told>>

Quiet ==
  /\ clock = MaxClock /\ mark = clock
  /\ \A r \in Req : pc[r] \in {"done", "failed"}
  /\ UNCHANGED vars

Next ==
  \/ \E r \in Req : Begin(r) \/ Get(r) \/ Set(r) \/ Abort(r)
  \/ Tick \/ Observe \/ Quiet

Spec == Init /\ [][Next]_vars
-----------------------------------------------------------------------------
(* Properties.                                                              *)

\* A token bucket: in any stretch of time a client is granted at most a burst and
\* what refills meanwhile, over all replicas ("the budget is global",
\* limiter.py:2-3).
Budget == \A c \in Client : spent[c] <= Burst + (clock - mark)

\* A client exceeds that by no more than what was granted to calls of it that
\* overlapped: that began during another one, or were under way when another began,
\* when the stretch did, or when their bucket expired.  Whatever such calls wrote,
\* the others are charged to the bucket in full, whichever replicas they reached,
\* however long each took and wherever one failed (limiter.py:21-48).
BudgetAlone ==
  \A c \in Client : spent[c] - overlap[c] <= Burst + (clock - mark)

\* Where no call of allow() suspends, no two of them overlap, and the promise holds:
\* one process with a MemoryStore keeps the budget itself (limiter.py:21-48).
BudgetInMemory == ~OnRedis => Budget

\* More than that: there allow() is Meter, the ideal token bucket, to its callers.
\* Reading and writing the bucket in two steps, refilling it only when it is read,
\* and forgetting it when it expires make no difference to any verdict.
Deciding(c) == {r \in MidwayFor(c) : pc[r] = "set"}
Metered ==
  [c \in Client |-> IF Deciding(c) = {} THEN Level(bucket[c], clock)
                    ELSE left[CHOOSE r \in Deciding(c) : TRUE]]
Verdict ==
  [r \in Req |-> IF pc[r] \notin {"set", "done"} THEN "none"
                 ELSE IF allowed[r] THEN "granted" ELSE "refused"]
Ideal == INSTANCE Meter WITH level <- Metered, verdict <- Verdict
ActsAsMeter ==
  (~OnRedis => Ideal!Init) /\ [][~OnRedis => Ideal!Next]_(Ideal!vars)

\* Refused and overlapping requests never put a client in debt: a stored bucket is
\* worth at least nothing by now, though requests compute refills with old clock
\* readings and write them in any order (limiter.py:23-46).
NeverInDebt ==
  \A c \in Client : bucket[c].ttl > 0 => bucket[c].tokens + (clock - bucket[c].ts) >= 0

\* A refusal keeps its word.  Unless its client's bucket is written again, a request
\* that reads its clock when the announced wait is over is allowed; and the wait is
\* over at most the price of a request after the client is told, however old the
\* clock reading it counts from and whatever was written meanwhile
\* (limiter.py:23-48).
WaitIsEnough ==
  [][\A r \in Req :
       /\ Get(r) /\ (\E due \in told[client[r]] : now[r] >= due) /\ Burst >= Cost
            => allowed'[r]
       /\ Set(r) /\ ~allowed[r] => now[r] + RetryAfter(r) <= clock + Cost]_vars
=============================================================================
