------------------------------- MODULE Gateway -------------------------------
(***************************************************************************)
(* The handler of POST /v1/complete (gateway/main.py) from admission to    *)
(* answer in one gateway process, with every counter kept around it:       *)
(* Stats (gateway/metrics.py), the coalescer's, the pool's, the providers' *)
(* and the limiter's, and /stats, /admin/reset and restarts of the process.*)
(*                                                                         *)
(* A step is the code between two awaits that suspend over RedisStore; an  *)
(* await that does not (MemoryStore) only removes interleavings.  What the *)
(* limiter, the cache, the coalescer and the breakers decide is left open: *)
(* TokenBucket, ResponseCache, Coalescer and ProviderPool model that.      *)
(***************************************************************************)
EXTENDS Integers, FiniteSets

CONSTANTS
  Req,      \* places for requests under way, used again and again
  N,        \* number of providers, tried in the order 1..N
  Faults    \* what may go wrong: see FaultKinds

\* "store": a Redis command may raise; "upstream": a provider may fail or be
\* skipped; "crash": the process may die.
FaultKinds == {"store", "upstream", "crash"}

ASSUME GatewayConstantsOK ==
  /\ IsFiniteSet(Req)
  /\ N \in Nat \ {0}
  /\ Faults \subseteq FaultKinds

VARIABLES
  pc,        \* the await a request is suspended at
  reply,     \* what the client is sent
  provider,  \* provider whose completion a request awaits, 0 for none
  count,     \* every counter /stats reports, by its name in the code
  calls,     \* provider.calls
  stale,     \* history: requests in each stage at the last /admin/reset
  failed     \* history: requests that failed in each stage since then

gatewayVars == <<pc, reply, provider, count, calls, stale, failed>>

\* A counted request looks its answer up, enters Coalescer.run, calls a provider.
Stage   == {"lookup", "coalesce", "upstream"}
Labels  == Stage \cup {"idle", "admit", "refuse", "put", "release", "done"}
Replies == {"none", "exact_hits", "semantic_hits", "follower", "upstream",
            "rate_limited", "unavailable", "error", "lost"}
Counter == {"total", "exact_hits", "semantic_hits", "misses", "leader_calls",
            "followers_served", "upstream_calls", "failovers", "rejected"}
Provider == 1..N

GatewayTypeOK ==
  /\ pc \in [Req -> Labels]
  /\ reply \in [Req -> Replies]
  /\ provider \in [Req -> 0..N]
  /\ count \in [Counter -> Nat]
  /\ calls \in [Provider -> Nat]
  /\ stale \in [Stage -> Nat] /\ failed \in [Stage -> Nat]

Zero(S) == [c \in S |-> 0]

GatewayInit ==
  /\ pc = [r \in Req |-> "idle"]
  /\ reply = [r \in Req |-> "none"]
  /\ provider = [r \in Req |-> 0]
  /\ count = Zero(Counter) /\ calls = Zero(Provider)
  /\ stale = Zero(Stage) /\ failed = Zero(Stage)

In(stage) == {r \in Req : pc[r] = stage}
-----------------------------------------------------------------------------
(* One request.                                                             *)

Goto(r, label) == pc' = [pc EXCEPT ![r] = label] /\ UNCHANGED reply
Answer(r, a) == /\ pc' = [pc EXCEPT ![r] = "done"]
                /\ reply' = [reply EXCEPT ![r] = a]
Bump(c) == count' = [count EXCEPT ![c] = @ + 1]
FailIn(stage) == failed' = [failed EXCEPT ![stage] = @ + 1]

Arrive(r) ==
  /\ pc[r] = "idle"
  /\ Goto(r, "admit")
  /\ UNCHANGED <<provider, count, calls, stale, failed>>

\* allowed, retry_after = await limiter.allow(x_api_key): a refusal is counted
\* before the limiter writes the bucket back.
Admit(r) ==
  /\ pc[r] = "admit"
  /\ \/ Goto(r, "lookup") /\ Bump("total")
     \/ Goto(r, "refuse") /\ Bump("rejected")
  /\ UNCHANGED <<provider, calls, stale, failed>>

\* hit = await cache.get(...)
Lookup(r) ==
  /\ pc[r] = "lookup"
  /\ \/ \E tier \in {"exact_hits", "semantic_hits"} : Answer(r, tier) /\ Bump(tier)
     \/ Goto(r, "coalesce") /\ Bump("misses")
  /\ UNCHANGED <<provider, calls, stale, failed>>

\* coalescer.run: a leader's payload is read from the cache.
Follow(r) ==
  /\ pc[r] = "coalesce"
  /\ Answer(r, "follower") /\ Bump("followers_served")
  /\ UNCHANGED <<provider, calls, stale, failed>>

\* pool.complete, from provider `first` on: one that its breaker allows is
\* called, or UpstreamError is raised.
RestOneTooMany(first) == first..(N + 1)
Rest(first) == first..N
TryFrom(r, first) ==
  \/ \E i \in Rest(first) :
       /\ i = first \/ "upstream" \in Faults
       /\ Goto(r, "upstream")
       /\ provider' = [provider EXCEPT ![r] = i]
       /\ calls' = [calls EXCEPT ![i] = @ + 1]
       /\ UNCHANGED failed
  \/ /\ "upstream" \in Faults
     /\ Goto(r, "release") /\ FailIn("upstream")
     /\ provider' = [provider EXCEPT ![r] = 0]
     /\ UNCHANGED calls

\* coalescer.run: the request does the work itself.
Lead(r) ==
  /\ pc[r] = "coalesce"
  /\ Bump("leader_calls") /\ TryFrom(r, 1)
  /\ UNCHANGED stale

\* The awaited provider returns: what do_upstream counts, up to cache.put.
Counted(i) == IF i > 1 THEN {"upstream_calls", "failovers"} ELSE {"upstream_calls"}
Succeed(r) ==
  /\ pc[r] = "upstream"
  /\ count' = [c \in Counter |-> IF c \in Counted(provider[r]) THEN count[c] + 1
                                                               ELSE count[c]]
  /\ provider' = [provider EXCEPT ![r] = 0]
  /\ Goto(r, "put")
  /\ UNCHANGED <<calls, stale, failed>>

\* The awaited provider raises.
Fail(r) ==
  /\ pc[r] = "upstream" /\ "upstream" \in Faults
  /\ TryFrom(r, provider[r] + 1)
  /\ UNCHANGED <<count, stale>>

\* The last writes are over: of the bucket, of the payload and then the lock, of
\* the lock alone.
Finish(r) ==
  /\ \/ pc[r] = "refuse" /\ Answer(r, "rate_limited")
     \/ pc[r] = "put" /\ Answer(r, "upstream")
     \/ pc[r] = "release" /\ Answer(r, "unavailable")
  /\ UNCHANGED <<provider, count, calls, stale, failed>>

\* A Redis command raises: HTTP 500, as the handler catches UpstreamError only.
StoreRaises(r) ==
  /\ "store" \in Faults
  /\ pc[r] \notin {"idle", "upstream", "done"}
  /\ Answer(r, "error")
  /\ IF pc[r] \in Stage THEN FailIn(pc[r]) ELSE UNCHANGED failed
  /\ UNCHANGED <<provider, count, calls, stale>>

\* Requests that were answered make room for others.
Forget ==
  /\ pc' = [r \in Req |-> IF pc[r] = "done" THEN "idle" ELSE pc[r]]
  /\ reply' = [r \in Req |-> IF pc[r] = "done" THEN "none" ELSE reply[r]]
  /\ UNCHANGED <<provider, count, calls, stale, failed>>

Serve(r) == \/ Admit(r) \/ Lookup(r) \/ Follow(r) \/ Lead(r) \/ Succeed(r)
            \/ Fail(r) \/ Finish(r) \/ StoreRaises(r)
-----------------------------------------------------------------------------
(* The process.                                                             *)

\* POST /admin/reset, which leaves limiter.rejected alone.
ResetCountersNotRuns == Counter \ {"rejected", "followers_served", "leader_calls"}
ResetCounters == Counter \ {"rejected"}
ResetStats ==
  /\ count' = [c \in Counter |-> IF c \in ResetCounters THEN 0 ELSE count[c]]
  /\ calls' = Zero(Provider)
  /\ stale' = [stage \in Stage |-> Cardinality(In(stage))]
  /\ failed' = Zero(Stage)
  /\ UNCHANGED <<pc, reply, provider>>

\* The process dies with its requests; lifespan starts a fresh one.
Restart ==
  LET dying == {r \in Req : pc[r] \notin {"idle", "done"}} IN
  /\ "crash" \in Faults /\ dying # {}
  /\ pc' = [r \in Req |-> IF r \in dying THEN "done" ELSE pc[r]]
  /\ reply' = [r \in Req |-> IF r \in dying THEN "lost" ELSE reply[r]]
  /\ provider' = Zero(Req)
  /\ count' = Zero(Counter) /\ calls' = Zero(Provider)
  /\ stale' = Zero(Stage) /\ failed' = Zero(Stage)

GatewayNext == (\E r \in Req : Arrive(r) \/ Serve(r)) \/ Forget \/ ResetStats \/ Restart

GatewaySpec == GatewayInit /\ [][GatewayNext]_gatewayVars
-----------------------------------------------------------------------------
(* What /stats derives from the counters.                                   *)

Hits(c) == c["exact_hits"] + c["semantic_hits"]
AvoidedAsMisses(c) == c["misses"] - c["upstream_calls"]
Avoided(c) == IF c["total"] > c["upstream_calls"]
              THEN c["total"] - c["upstream_calls"] ELSE 0

\* What counts the requests that enter a stage, and those that leave it served.
Entered == [lookup |-> count["total"], coalesce |-> count["misses"],
            upstream |-> count["leader_calls"]]
Served  == [lookup   |-> Hits(count) + count["misses"],
            coalesce |-> count["followers_served"] + count["leader_calls"],
            upstream |-> count["upstream_calls"]]

\* The counters balance: what entered a stage left it, failed in it or is in it,
\* the requests that a reset found there being the only debt.  So the hit rate
\* of metrics.py:56-57 exceeds 1 only by lookups a reset overtook, and followers
\* and leaders exceed misses only by runs it overtook (main.py:86-177).
CountersBalance ==
  \A stage \in Stage :
    Entered[stage] + stale[stage]
      = Served[stage] + failed[stage] + Cardinality(In(stage))

\* upstream_calls_avoided of a process at rest: what the cache and the leaders
\* answered, and, which its name hides, every request that failed (metrics.py:72).
AvoidedAccounted ==
  (\A stage \in Stage : In(stage) = {} /\ stale[stage] = 0)
  => Avoided(count) = Hits(count) + count["followers_served"]
       + failed["lookup"] + failed["coalesce"] + failed["upstream"]
=============================================================================
