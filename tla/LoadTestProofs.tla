--------------------------- MODULE LoadTestProofs ---------------------------
(* Theorems about the counters of a gateway process, for any number of       *)
(* requests in flight, any providers and any faults; then about the reports  *)
(* of the load test that drives it, for any plan of scenarios, any number of *)
(* permits and any latencies.                                                *)
EXTENDS LoadTest, FiguresProofs, SequenceTheorems

Size(stage) == Cardinality(In(stage))

\* CountersBalance, stage by stage.
Balance ==
  /\ count["total"] + stale["lookup"]
       = count["exact_hits"] + count["semantic_hits"] + count["misses"]
           + failed["lookup"] + Size("lookup")
  /\ count["misses"] + stale["coalesce"]
       = count["followers_served"] + count["leader_calls"]
           + failed["coalesce"] + Size("coalesce")
  /\ count["leader_calls"] + stale["upstream"]
       = count["upstream_calls"] + failed["upstream"] + Size("upstream")

LedgerInv == GatewayTypeOK /\ Balance
-----------------------------------------------------------------------------
LEMMA SizeType ==
  ASSUME NEW stage
  PROVE  IsFiniteSet(In(stage)) /\ Size(stage) \in Nat
<1>1. In(stage) \subseteq Req
  BY DEF In
<1>2. IsFiniteSet(In(stage))
  BY <1>1, GatewayConstantsOK, FS_Subset
<1> QED
  BY <1>2, FS_CardinalityType DEF Size

\* Request r goes on to the given label.
Moved(r, label) == pc' = [pc EXCEPT ![r] = label]

\* A request that moves leaves one stage and enters another.
LEMMA Moves ==
  ASSUME GatewayTypeOK, NEW r \in Req, NEW label, NEW stage \in Stage,
         Moved(r, label)
  PROVE  Size(stage)' = Size(stage) - (IF pc[r] = stage THEN 1 ELSE 0)
                                    + (IF label = stage THEN 1 ELSE 0)
<1>0. /\ pc \in [Req -> Labels] /\ pc' = [pc EXCEPT ![r] = label]
      /\ Size(stage) \in Nat /\ IsFiniteSet(In(stage))
  BY SizeType DEF GatewayTypeOK, Moved
<1>1. CASE (pc[r] = stage) <=> (label = stage)
  <2>1. In(stage)' = In(stage)
    BY <1>0, <1>1 DEF In
  <2> QED
    BY <1>0, <1>1, <2>1 DEF Size
<1>2. CASE pc[r] = stage /\ label # stage
  <2>1. In(stage)' = In(stage) \ {r} /\ r \in In(stage)
    BY <1>0, <1>2 DEF In
  <2>2. Cardinality(In(stage) \ {r}) = Size(stage) - 1
    BY <1>0, <2>1, FS_RemoveElement DEF Size
  <2> QED
    BY <1>0, <1>2, <2>1, <2>2 DEF Size
<1>3. CASE pc[r] # stage /\ label = stage
  <2>1. In(stage)' = In(stage) \cup {r} /\ r \notin In(stage)
    BY <1>0, <1>3 DEF In
  <2>2. Cardinality(In(stage) \cup {r}) = Size(stage) + 1
    BY <1>0, <2>1, FS_AddElement DEF Size
  <2> QED
    BY <1>0, <1>3, <2>1, <2>2 DEF Size
<1> QED
  BY <1>1, <1>2, <1>3

LEMMA Stays ==
  ASSUME NEW stage, UNCHANGED pc
  PROVE  Size(stage)' = Size(stage)
BY DEF Size, In

\* The balance, as CountersBalance states it.
LEMMA BalanceMeaning == CountersBalance <=> Balance
<1>1. Balance <=> /\ Entered["lookup"] + stale["lookup"]
                       = Served["lookup"] + failed["lookup"] + Cardinality(In("lookup"))
                  /\ Entered["coalesce"] + stale["coalesce"]
                       = Served["coalesce"] + failed["coalesce"] + Cardinality(In("coalesce"))
                  /\ Entered["upstream"] + stale["upstream"]
                       = Served["upstream"] + failed["upstream"] + Cardinality(In("upstream"))
  BY DEF Balance, Entered, Served, Hits, Size
<1> QED
  BY <1>1 DEF CountersBalance, Stage
-----------------------------------------------------------------------------
LEMMA LedgerInit == GatewayInit => LedgerInv
<1> SUFFICES ASSUME GatewayInit PROVE LedgerInv
  OBVIOUS
<1>1. GatewayTypeOK
  BY GatewayConstantsOK DEF GatewayInit, GatewayTypeOK, Zero, Labels, Replies, Stage
<1>2. \A stage \in Stage : Size(stage) = 0
  <2>1. \A stage \in Stage : In(stage) = {}
    BY DEF GatewayInit, In, Stage
  <2> QED
    BY <2>1, FS_EmptySet DEF Size
<1> QED
  BY <1>1, <1>2 DEF LedgerInv, Balance, GatewayInit, Zero, Counter, Stage

\* The counters, and what the requests under way are worth, in numbers.
LEMMA Numbers ==
  ASSUME GatewayTypeOK
  PROVE  /\ \A c \in Counter : count[c] \in Nat
         /\ \A stage \in Stage :
              stale[stage] \in Nat /\ failed[stage] \in Nat /\ Size(stage) \in Nat
BY SizeType DEF GatewayTypeOK

\* What a request that goes on to the providers, from the first or after one
\* raised, does to calls and failures.
LEMMA Tried ==
  ASSUME GatewayTypeOK, NEW r \in Req, NEW first \in Nat \ {0}, TryFrom(r, first)
  PROVE  /\ provider' \in [Req -> 0..N] /\ calls' \in [Provider -> Nat]
         /\ failed' \in [Stage -> Nat]
         /\ UNCHANGED reply
         /\ \/ pc' = [pc EXCEPT ![r] = "upstream"] /\ UNCHANGED failed
            \/ /\ pc' = [pc EXCEPT ![r] = "release"]
               /\ failed' = [failed EXCEPT !["upstream"] = @ + 1]
<1>0. /\ provider \in [Req -> 0..N] /\ calls \in [Provider -> Nat]
      /\ failed \in [Stage -> Nat] /\ N \in Nat \ {0}
  BY GatewayConstantsOK DEF GatewayTypeOK
<1>1. ASSUME NEW i \in Rest(first),
             Goto(r, "upstream"), provider' = [provider EXCEPT ![r] = i],
             calls' = [calls EXCEPT ![i] = @ + 1], UNCHANGED failed
      PROVE  /\ provider' \in [Req -> 0..N] /\ calls' \in [Provider -> Nat]
             /\ pc' = [pc EXCEPT ![r] = "upstream"] /\ UNCHANGED <<reply, failed>>
  <2>1. i \in Provider /\ i \in 0..N
    BY <1>0 DEF Rest, Provider
  <2> QED
    BY <1>0, <1>1, <2>1 DEF Goto
<1>2. CASE /\ Goto(r, "release") /\ FailIn("upstream")
           /\ provider' = [provider EXCEPT ![r] = 0]
           /\ UNCHANGED calls
  BY <1>0, <1>2 DEF Goto, FailIn, Stage
<1> QED
  BY <1>0, <1>1, <1>2 DEF TryFrom

LEMMA LedgerStep == LedgerInv /\ [GatewayNext]_gatewayVars => LedgerInv'
<1> SUFFICES ASSUME LedgerInv, [GatewayNext]_gatewayVars PROVE LedgerInv'
  OBVIOUS
<1>0. /\ GatewayTypeOK /\ Balance
      /\ pc \in [Req -> Labels] /\ reply \in [Req -> Replies]
      /\ provider \in [Req -> 0..N] /\ count \in [Counter -> Nat]
      /\ calls \in [Provider -> Nat]
      /\ stale \in [Stage -> Nat] /\ failed \in [Stage -> Nat]
  BY DEF LedgerInv, GatewayTypeOK
<1> USE DEF Goto, Answer, Bump, FailIn
<1>1. ASSUME NEW r \in Req, Arrive(r) PROVE LedgerInv'
  <2>0. Moved(r, "admit")
    BY <1>1 DEF Arrive, Moved
  <2>1. GatewayTypeOK'
    BY <1>0, <1>1 DEF Arrive, GatewayTypeOK, Labels, Stage
  <2>2. \A stage \in Stage : Size(stage)' = Size(stage)
    BY <1>0, <1>1, <2>0, Moves, Numbers DEF Arrive, Stage
  <2>3. UNCHANGED <<count, stale, failed>>
    BY <1>1 DEF Arrive
  <2> QED
    BY <1>0, <2>1, <2>2, <2>3 DEF LedgerInv, Balance, Stage
<1>2. ASSUME NEW r \in Req, Admit(r) PROVE LedgerInv'
  <2>1. GatewayTypeOK'
    BY <1>0, <1>2 DEF Admit, GatewayTypeOK, Labels, Stage, Counter
  <2>2. CASE Goto(r, "lookup") /\ Bump("total")
    <3>0. Moved(r, "lookup")
      BY <1>2, <2>2 DEF Admit, Moved
    <3>1. /\ Size("lookup")' = Size("lookup") + 1
          /\ Size("coalesce")' = Size("coalesce") /\ Size("upstream")' = Size("upstream")
      BY <1>0, <1>2, <2>2, <3>0, Moves, Numbers DEF Admit, Stage
    <3> QED
      BY <1>0, <1>2, <2>1, <2>2, <3>1, Numbers
         DEF Admit, LedgerInv, Balance, Counter, Stage
  <2>3. CASE Goto(r, "refuse") /\ Bump("rejected")
    <3>0. Moved(r, "refuse")
      BY <1>2, <2>3 DEF Admit, Moved
    <3>1. \A stage \in Stage : Size(stage)' = Size(stage)
      BY <1>0, <1>2, <2>3, <3>0, Moves, Numbers DEF Admit, Stage
    <3> QED
      BY <1>0, <1>2, <2>1, <2>3, <3>1
         DEF Admit, LedgerInv, Balance, Counter, Stage
  <2> QED
    BY <1>2, <2>2, <2>3 DEF Admit
<1>3. ASSUME NEW r \in Req, Lookup(r) PROVE LedgerInv'
  <2>0. Moved(r, "done") \/ Moved(r, "coalesce")
    BY <1>3 DEF Lookup, Moved
  <2>1. GatewayTypeOK'
    BY <1>0, <1>3 DEF Lookup, GatewayTypeOK, Labels, Stage, Counter, Replies
  <2>2. Size("lookup")' = Size("lookup") - 1 /\ Size("upstream")' = Size("upstream")
    BY <1>0, <1>3, <2>0, Moves, Numbers DEF Lookup, Stage
  <2>3. ASSUME NEW tier \in {"exact_hits", "semantic_hits"}, Answer(r, tier), Bump(tier)
        PROVE  LedgerInv'
    <3>0. Moved(r, "done")
      BY <1>3, <2>3 DEF Lookup, Moved
    <3>1. Size("coalesce")' = Size("coalesce")
      BY <1>0, <1>3, <2>3, <3>0, Moves, Numbers DEF Lookup, Stage
    <3> QED
      BY <1>0, <1>3, <2>1, <2>2, <2>3, <3>1, Numbers
         DEF Lookup, LedgerInv, Balance, Counter, Stage
  <2>4. CASE Goto(r, "coalesce") /\ Bump("misses")
    <3>0. Moved(r, "coalesce")
      BY <1>3, <2>4 DEF Lookup, Moved
    <3>1. Size("coalesce")' = Size("coalesce") + 1
      BY <1>0, <1>3, <2>4, <3>0, Moves, Numbers DEF Lookup, Stage
    <3> QED
      BY <1>0, <1>3, <2>1, <2>2, <2>4, <3>1, Numbers
         DEF Lookup, LedgerInv, Balance, Counter, Stage
  <2> QED
    BY <1>3, <2>3, <2>4 DEF Lookup
<1>4. ASSUME NEW r \in Req, Follow(r) PROVE LedgerInv'
  <2>0. Moved(r, "done")
    BY <1>4 DEF Follow, Moved
  <2>1. GatewayTypeOK'
    BY <1>0, <1>4 DEF Follow, GatewayTypeOK, Labels, Counter, Replies
  <2>2. /\ Size("coalesce")' = Size("coalesce") - 1
        /\ Size("lookup")' = Size("lookup") /\ Size("upstream")' = Size("upstream")
    BY <1>0, <1>4, <2>0, Moves, Numbers DEF Follow, Stage
  <2> QED
    BY <1>0, <1>4, <2>1, <2>2, Numbers
       DEF Follow, LedgerInv, Balance, Counter, Stage
<1>5. ASSUME NEW r \in Req, Lead(r) PROVE LedgerInv'
  <2>0. TryFrom(r, 1) /\ 1 \in Nat \ {0}
    BY <1>5 DEF Lead
  <2>1. GatewayTypeOK'
    BY <1>0, <1>5, <2>0, Tried DEF Lead, GatewayTypeOK, Labels, Stage, Counter
  <2>2. CASE pc' = [pc EXCEPT ![r] = "upstream"] /\ UNCHANGED failed
    <3>0. Moved(r, "upstream")
      BY <1>5, <2>2 DEF Lead, Moved
    <3>1. /\ Size("coalesce")' = Size("coalesce") - 1
          /\ Size("lookup")' = Size("lookup") /\ Size("upstream")' = Size("upstream") + 1
      BY <1>0, <1>5, <2>2, <3>0, Moves, Numbers DEF Lead, Stage
    <3> QED
      BY <1>0, <1>5, <2>1, <2>2, <3>1, Numbers
         DEF Lead, LedgerInv, Balance, Counter, Stage
  <2>3. CASE /\ pc' = [pc EXCEPT ![r] = "release"]
             /\ failed' = [failed EXCEPT !["upstream"] = @ + 1]
    <3>0. Moved(r, "release")
      BY <1>5, <2>3 DEF Lead, Moved
    <3>1. /\ Size("coalesce")' = Size("coalesce") - 1
          /\ Size("lookup")' = Size("lookup") /\ Size("upstream")' = Size("upstream")
      BY <1>0, <1>5, <2>3, <3>0, Moves, Numbers DEF Lead, Stage
    <3> QED
      BY <1>0, <1>5, <2>1, <2>3, <3>1, Numbers
         DEF Lead, LedgerInv, Balance, Counter, Stage
  <2> QED
    BY <1>0, <2>0, <2>2, <2>3, Tried
<1>6. ASSUME NEW r \in Req, Succeed(r) PROVE LedgerInv'
  <2>0. Moved(r, "put")
    BY <1>6 DEF Succeed, Moved
  <2>1. GatewayTypeOK'
    <3>1. count' \in [Counter -> Nat]
      BY <1>0, <1>6 DEF Succeed
    <3>2. provider' \in [Req -> 0..N]
      BY <1>0, <1>6, GatewayConstantsOK DEF Succeed
    <3> QED
      BY <1>0, <1>6, <3>1, <3>2 DEF Succeed, GatewayTypeOK, Labels
  <2>2. /\ Size("upstream")' = Size("upstream") - 1
        /\ Size("lookup")' = Size("lookup") /\ Size("coalesce")' = Size("coalesce")
    BY <1>0, <1>6, <2>0, Moves, Numbers DEF Succeed, Stage
  <2>3. /\ count'["upstream_calls"] = count["upstream_calls"] + 1
        /\ \A c \in Counter \ {"upstream_calls", "failovers"} : count'[c] = count[c]
    BY <1>0, <1>6 DEF Succeed, Counted, Counter
  <2>4. UNCHANGED <<stale, failed>>
    BY <1>6 DEF Succeed
  <2> QED
    BY <1>0, <2>1, <2>2, <2>3, <2>4, Numbers DEF LedgerInv, Balance, Counter, Stage
<1>7. ASSUME NEW r \in Req, Fail(r) PROVE LedgerInv'
  <2>0. TryFrom(r, provider[r] + 1) /\ provider[r] + 1 \in Nat \ {0}
    BY <1>0, <1>7, GatewayConstantsOK DEF Fail
  <2>1. GatewayTypeOK'
    BY <1>0, <1>7, <2>0, Tried DEF Fail, GatewayTypeOK, Labels, Stage
  <2>2. CASE pc' = [pc EXCEPT ![r] = "upstream"] /\ UNCHANGED failed
    <3>0. Moved(r, "upstream")
      BY <1>7, <2>2 DEF Fail, Moved
    <3>1. \A stage \in Stage : Size(stage)' = Size(stage)
      BY <1>0, <1>7, <2>2, <3>0, Moves, Numbers DEF Fail
    <3> QED
      BY <1>0, <1>7, <2>1, <2>2, <3>1
         DEF Fail, LedgerInv, Balance, Stage
  <2>3. CASE /\ pc' = [pc EXCEPT ![r] = "release"]
             /\ failed' = [failed EXCEPT !["upstream"] = @ + 1]
    <3>0. Moved(r, "release")
      BY <1>7, <2>3 DEF Fail, Moved
    <3>1. /\ Size("upstream")' = Size("upstream") - 1
          /\ Size("lookup")' = Size("lookup") /\ Size("coalesce")' = Size("coalesce")
      BY <1>0, <1>7, <2>3, <3>0, Moves, Numbers DEF Fail, Stage
    <3> QED
      BY <1>0, <1>7, <2>1, <2>3, <3>1, Numbers
         DEF Fail, LedgerInv, Balance, Counter, Stage
  <2> QED
    BY <1>0, <2>0, <2>2, <2>3, Tried
<1>8. ASSUME NEW r \in Req, Finish(r) PROVE LedgerInv'
  <2>0. Moved(r, "done")
    BY <1>8 DEF Finish, Moved
  <2>1. GatewayTypeOK'
    BY <1>0, <1>8 DEF Finish, GatewayTypeOK, Labels, Replies
  <2>2. \A stage \in Stage : Size(stage)' = Size(stage)
    BY <1>0, <1>8, <2>0, Moves, Numbers DEF Finish, Stage
  <2>3. UNCHANGED <<count, stale, failed>>
    BY <1>8 DEF Finish
  <2> QED
    BY <1>0, <2>1, <2>2, <2>3 DEF LedgerInv, Balance, Stage
<1>9. ASSUME NEW r \in Req, StoreRaises(r) PROVE LedgerInv'
  <2>0. Moved(r, "done")
    BY <1>9 DEF StoreRaises, Moved
  <2>1. GatewayTypeOK'
    BY <1>0, <1>9 DEF StoreRaises, GatewayTypeOK, Labels, Replies
  <2>2. \A stage \in Stage : Size(stage)' = Size(stage) - (IF pc[r] = stage THEN 1 ELSE 0)
    BY <1>0, <1>9, <2>0, Moves, Numbers DEF StoreRaises, Stage
  <2>3. \A stage \in Stage :
          failed'[stage] = failed[stage] + (IF pc[r] = stage THEN 1 ELSE 0)
    BY <1>0, <1>9, Numbers DEF StoreRaises, Stage
  <2>4. \A stage \in Stage :
          failed'[stage] + Size(stage)' = failed[stage] + Size(stage)
    BY <1>0, <2>2, <2>3, Numbers
  <2>5. UNCHANGED <<count, stale>>
    BY <1>9 DEF StoreRaises
  <2>6. \A stage \in Stage : failed'[stage] \in Nat /\ Size(stage)' \in Int
    BY <1>0, <2>1, <2>2, Numbers DEF GatewayTypeOK
  <2> QED
    BY <1>0, <2>1, <2>4, <2>5, <2>6, Numbers
       DEF LedgerInv, Balance, Counter, Stage
<1>10. CASE Forget
  <2>1. GatewayTypeOK'
    BY <1>0, <1>10 DEF Forget, GatewayTypeOK, Labels, Replies
  <2>2. \A stage \in Stage : Size(stage)' = Size(stage)
    <3>1. \A stage \in Stage : In(stage)' = In(stage)
      BY <1>0, <1>10 DEF Forget, In, Stage
    <3> QED
      BY <3>1 DEF Size
  <2> QED
    BY <1>0, <1>10, <2>1, <2>2 DEF Forget, LedgerInv, Balance, Stage
<1>11. CASE ResetStats
  <2>1. /\ stale' = [stage \in Stage |-> Size(stage)]
        /\ failed' = [stage \in Stage |-> 0]
        /\ \A c \in Counter \ {"rejected"} : count'[c] = 0
        /\ UNCHANGED <<pc, reply, provider>>
    BY <1>11 DEF ResetStats, ResetCounters, Size, Zero
  <2>2. GatewayTypeOK'
    <3>1. count' \in [Counter -> Nat] /\ calls' \in [Provider -> Nat]
      BY <1>0, <1>11 DEF ResetStats, Zero
    <3>2. stale' \in [Stage -> Nat] /\ failed' \in [Stage -> Nat]
      BY <1>0, <2>1, Numbers
    <3> QED
      BY <1>0, <2>1, <3>1, <3>2 DEF GatewayTypeOK
  <2>3. \A stage \in Stage : Size(stage)' = Size(stage) /\ Size(stage) \in Nat
    BY <1>0, <2>1, Stays, Numbers
  <2> QED
    BY <2>1, <2>2, <2>3 DEF LedgerInv, Balance, Counter, Stage
<1>12. CASE Restart
  <2>1. GatewayTypeOK'
    BY <1>0, <1>12, GatewayConstantsOK DEF Restart, GatewayTypeOK, Zero, Labels, Replies
  <2>2. \A stage \in Stage : Size(stage)' = 0
    <3>1. \A stage \in Stage : In(stage)' = {}
      BY <1>0, <1>12 DEF Restart, In, Stage
    <3> QED
      BY <3>1, FS_EmptySet DEF Size
  <2> QED
    BY <1>12, <2>1, <2>2
       DEF Restart, LedgerInv, Balance, Zero, Counter, Stage
<1>13. CASE UNCHANGED gatewayVars
  <2>1. \A stage \in Stage : Size(stage)' = Size(stage)
    BY <1>13, Stays DEF gatewayVars
  <2> QED
    BY <1>0, <1>13, <2>1
       DEF gatewayVars, LedgerInv, GatewayTypeOK, Balance, Stage
<1> QED
  BY <1>1, <1>2, <1>3, <1>4, <1>5, <1>6, <1>7, <1>8, <1>9, <1>10, <1>11, <1>12, <1>13
     DEF GatewayNext, Serve

LEMMA Ledger == GatewaySpec => []LedgerInv
BY LedgerInit, LedgerStep, PTL DEF GatewaySpec
-----------------------------------------------------------------------------
\* Every counter and every request keeps its type.
THEOREM GatewayTypes == GatewaySpec => []GatewayTypeOK
<1>1. LedgerInv => GatewayTypeOK
  BY DEF LedgerInv
<1> QED
  BY Ledger, <1>1, PTL

\* Whatever is counted balances, whenever /admin/reset comes and however requests
\* overlap or fail (main.py:86-177, metrics.py:39-76), for any number of requests
\* in flight and of providers.
THEOREM CountersBalanced == GatewaySpec => []CountersBalance
<1>1. LedgerInv => CountersBalance
  BY BalanceMeaning DEF LedgerInv
<1> QED
  BY Ledger, <1>1, PTL

\* At rest upstream_calls_avoided (metrics.py:72) is what the cache and leaders
\* answered and what failed: a consequence of the balance.
THEOREM AvoidedExplained == GatewaySpec => []AvoidedAccounted
<1>1. LedgerInv => AvoidedAccounted
  <2> SUFFICES ASSUME LedgerInv, \A stage \in Stage : In(stage) = {} /\ stale[stage] = 0
               PROVE  Avoided(count) = Hits(count) + count["followers_served"]
                        + failed["lookup"] + failed["coalesce"] + failed["upstream"]
    BY DEF AvoidedAccounted
  <2>1. \A stage \in Stage : Size(stage) = 0 /\ stale[stage] = 0
    BY FS_EmptySet DEF Size
  <2>2. GatewayTypeOK /\ Balance
    BY DEF LedgerInv
  <2>3. /\ count["total"] = Hits(count) + count["misses"] + failed["lookup"]
        /\ count["misses"] = count["followers_served"] + count["leader_calls"]
                               + failed["coalesce"]
        /\ count["leader_calls"] = count["upstream_calls"] + failed["upstream"]
    BY <2>1, <2>2, Numbers DEF Balance, Hits, Counter, Stage
  <2>4. /\ Hits(count) \in Nat
        /\ \A c \in {"total", "misses", "followers_served", "leader_calls",
                      "upstream_calls"} : count[c] \in Nat
        /\ \A stage \in Stage : failed[stage] \in Nat
    BY <2>2, Numbers DEF Hits, Counter
  <2> HIDE DEF Hits
  <2> QED
    BY <2>3, <2>4 DEF Avoided, Stage
<1> QED
  BY Ledger, <1>1, PTL
-----------------------------------------------------------------------------
\* The scenarios of the benchmark drive the gateway only by what any client may
\* do: requests, answers awaited or not, and resets (loadtest.py:56-175).
THEOREM LoadDrivesGateway == LoadSpec => GatewaySpec
<1>1. LoadInit => GatewayInit
  BY DEF LoadInit
<1>2. [LoadNext]_loadVars => [GatewayNext]_gatewayVars
  <2> SUFFICES ASSUME [LoadNext]_loadVars PROVE GatewayNext \/ UNCHANGED gatewayVars
    OBVIOUS
  <2>1. ASSUME NEW r \in Req, ServeRequest(r) \/ Send(r)
        PROVE  GatewayNext \/ UNCHANGED gatewayVars
    BY <2>1 DEF ServeRequest, Send, GatewayNext
  <2>2. CASE ResetGateway \/ NextScenario \/ Crash
    BY <2>2 DEF ResetGateway, NextScenario, Crash, GatewayNext
  <2>3. ASSUME NEW r \in Req, Receive(r) \/ GiveUp(r) \/ MockReceives(r)
        PROVE  UNCHANGED gatewayVars
    BY <2>3 DEF Receive, GiveUp, MockReceives
  <2>4. CASE \/ ResetMock \/ Break \/ Gathered \/ Restore \/ ReadHealth
             \/ ReadStats \/ ReadCalls \/ MockReceivesLate
    BY <2>4 DEF ResetMock, Break, Gathered, Restore, ReadHealth, ReadStats, ReadCalls,
                MockReceivesLate
  <2>5. CASE Over \/ UNCHANGED loadVars
    BY <2>5 DEF Over, loadVars
  <2> QED
    BY <2>1, <2>2, <2>3, <2>4, <2>5 DEF LoadNext, Harness, Drive, Servers
<1> QED
  BY <1>1, <1>2, PTL DEF LoadSpec, GatewaySpec

\* So the counters balance under every sequence of scenarios, also where requests
\* of one scenario live on into the next.
THEOREM ScenariosBalance == LoadSpec => []CountersBalance
BY LoadDrivesGateway, CountersBalanced, PTL
-----------------------------------------------------------------------------
(* The reports of the load test.                                            *)

With(state) == {r \in Req : client[r] = state}
By(replies) == {r \in Req : reply[r] \in replies}

\* Requests whose completion was counted, and those the gateway admitted or not.
Paid == {r \in Req : pc[r] = "put" \/ reply[r] = "upstream"}
Past == {r \in Req : pc[r] \notin {"idle", "admit"}}

CacheTiers == {"exact_hits", "semantic_hits"}
Settled == {"ok", "error"}

\* A request is answered when it is done, awaits a provider in its stage only, and
\* its call of the first mock is on its way or doomed while it awaits that.
Bare ==
  /\ \A r \in Req : /\ pc[r] # "done" => reply[r] = "none"
                    /\ provider[r] # 0 <=> pc[r] = "upstream"
  /\ \A r \in posted \cup doomed : provider[r] = 1
  /\ phase # "next" => report.source = "nobody"

\* No client gave up, and no request of the load test's own raised.
Live == ~disturbed /\ phase # "raised"

\* Then nobody is about before the reset, and after it every place is a request of
\* the batch, whose client knows how far it is.
Alone ==
  IF phase = "reset"
  THEN latencies = <<>> /\ \A r \in Req : pc[r] = "idle" /\ client[r] = "none"
  ELSE \A r \in Req :
         /\ client[r] # "none"
         /\ client[r] = "queued" => pc[r] = "idle"
         /\ pc[r] = "idle" => client[r] \in {"queued", "error"}
         /\ client[r] = "ok" => pc[r] = "done" /\ IsOk(reply[r])
         /\ client[r] = "error" => pc[r] \in {"idle", "done"} /\ ~IsOk(reply[r])

\* The batch waits before it is fired, and is over afterwards, if it was fired.
Phased ==
  /\ phase # "reset" => at \in Scenario
  /\ phase \in {"mock_reset", "break"} => \A r \in Req : client[r] = "queued"
  /\ phase \in {"restore", "health", "stats", "calls"} =>
       \A r \in Req : client[r] \in Settled
  /\ phase = "next" =>
       \A r \in Req : client[r] \in (IF report.clean THEN Settled
                                                    ELSE Settled \cup {"queued"})

\* The counters are those of the batch.
Tally ==
  phase # "reset" =>
    /\ Len(latencies) = Cardinality(With("ok"))
    /\ Hits(count) = Cardinality(By(CacheTiers))
    /\ count["followers_served"] = Cardinality(By({"follower"}))
    /\ count["upstream_calls"] >= Cardinality(Paid)
    /\ count["total"] <= Cardinality(Past)

\* Unless a call was lost on the way or the reset was, the mock has counted, or is
\* about to, the calls the gateway made of it since both were reset.
MockAgrees ==
  /\ phase = "mock_reset" => calls[1] = 0 /\ posted = {}
  /\ phase \notin {"reset", "mock_reset"} /\ ~unheard =>
       mockCalls + Cardinality(posted) = calls[1] /\ astray = 0

\* What the report says of the first provider.
Noted ==
  /\ \/ phase \in {"stats", "calls"}
     \/ phase = "next" /\ report.clean
     => (Plan[at].kind = "failover" => report.primary = calls[1])
  /\ phase = "next" /\ report.source = "mock" /\ ~unheard => report.observed = calls[1]

\* In a failover scenario the first mock fails the calls it has and will have, and
\* every completion counted is another provider's.
Forced ==
  phase # "reset" /\ Plan[at].kind = "failover" =>
    /\ count["failovers"] = count["upstream_calls"]
    /\ phase = "fire" =>
         failing /\ \A r \in Req : provider[r] = 1 => r \in posted \cup doomed

\* A clean report was written in this scenario, and nothing happened since.
Clean ==
  report.clean =>
    /\ ~disturbed /\ phase \in {"calls", "next"}
    /\ report.ok = Len(latencies) /\ report.errors = Cardinality(With("error"))
    /\ report.count = count

Scene == Alone /\ Phased
Books == Tally /\ MockAgrees /\ Noted /\ Forced
ReportInv == TypeOK /\ Bare /\ Clean /\ (Live => Scene /\ Books)
-----------------------------------------------------------------------------
(* Types.                                                                   *)

LEMMA PlanFacts ==
  ASSUME at \in Scenario
  PROVE  Plan[at] \in [kind : {"load", "herd", "failover"}, permits : Nat \ {0}]
BY LoadConstantsOK, ElementOfSeq DEF Scenario

LEMMA EnterTypes ==
  ASSUME NEW p \in Phases, Enter(p)
  PROVE  phase' \in Phases /\ at \in Scenario /\ phase = p
BY DEF Enter, After, Phases

LEMMA BatchSizes ==
  /\ \A state : IsFiniteSet(With(state)) /\ Cardinality(With(state)) \in Nat
  /\ Cardinality({r \in Batch : client[r] = "error"}) \in Nat
<1>1. ASSUME NEW S \in SUBSET Req PROVE IsFiniteSet(S) /\ Cardinality(S) \in Nat
  BY GatewayConstantsOK, FS_Subset, FS_CardinalityType
<1>2. {r \in Batch : client[r] = "error"} \in SUBSET Req
  BY DEF Batch
<1>3. \A state : With(state) \in SUBSET Req
  BY DEF With
<1> QED
  BY <1>1, <1>2, <1>3

LEMMA LoadTypesInit == LoadInit => TypeOK
<1> SUFFICES ASSUME LoadInit PROVE TypeOK
  OBVIOUS
<1>1. GatewayTypeOK
  BY LedgerInit DEF LoadInit, LedgerInv
<1>2. NoReport \in Report
  BY DEF NoReport, Report, Zero
<1>3. at \in 1..(Len(Plan) + 1)
  BY LoadConstantsOK DEF LoadInit
<1>4. /\ client \in [Req -> {"none", "queued", "sent", "ok", "error"}]
      /\ latencies \in Seq(Nat) /\ doomed \subseteq Req /\ posted \subseteq Req
      /\ phase \in Phases /\ mockCalls \in Nat /\ astray \in Nat
  BY DEF LoadInit, Phases
<1> QED
  BY <1>1, <1>2, <1>3, <1>4 DEF LoadInit, TypeOK

\* Types of what is not the gateway's.
DriverTypes ==
  /\ at \in 1..(Len(Plan) + 1) /\ phase \in Phases
  /\ client \in [Req -> {"none", "queued", "sent", "ok", "error"}]
  /\ latencies \in Seq(Nat)
  /\ report \in Report
  /\ disturbed \in BOOLEAN
  /\ mockCalls \in Nat /\ failing \in BOOLEAN
  /\ posted \subseteq Req /\ astray \in Nat /\ doomed \subseteq Req
  /\ unheard \in BOOLEAN

LEMMA PostTypes ==
  ASSUME Post, DriverTypes, UNCHANGED <<at, phase, client, latencies, report>>,
         disturbed' \in BOOLEAN
  PROVE  DriverTypes'
<1> DEFINE dropped == {r \in posted : provider'[r] # 1}
<1>1. Cardinality(dropped) \in Nat
  <2>1. dropped \subseteq Req
    BY DEF DriverTypes
  <2> QED
    BY <2>1, GatewayConstantsOK, FS_Subset, FS_CardinalityType
<1>2. astray' \in astray..(astray + Cardinality(dropped))
  BY DEF Post
<1>3. astray' \in Nat
  BY <1>1, <1>2 DEF DriverTypes
<1>4. posted' \subseteq Req /\ doomed' \subseteq Req /\ unheard' \in BOOLEAN
  BY DEF Post, DriverTypes
<1> QED
  BY <1>3, <1>4 DEF Post, DriverTypes

\* A request that raises changes the phase.
LEMMA RaiseTypes ==
  ASSUME NEW p, NEW server, Raise(p, server)
  PROVE  /\ phase' \in Phases /\ phase' = "raised" /\ phase = p
         /\ UNCHANGED <<at, client, latencies, report, disturbed>>
BY DEF Raise, Phases

LEMMA DriverStep ==
  ASSUME GatewayTypeOK, DriverTypes, [LoadNext]_loadVars
  PROVE  DriverTypes'
<1> USE DEF DriverTypes
<1>1. ASSUME NEW r \in Req, ServeRequest(r) PROVE DriverTypes'
  <2>1. Post /\ UNCHANGED driverVars
    BY <1>1 DEF ServeRequest
  <2> QED
    BY <2>1, PostTypes DEF driverVars
<1>2. CASE Crash
  BY <1>2, PostTypes DEF Crash
<1>3. ASSUME NEW r \in Req, Send(r) PROVE DriverTypes'
  BY <1>3 DEF Send, MockIdle, mockVars
<1>4. ASSUME NEW r \in Req, Receive(r) PROVE DriverTypes'
  <2>1. Latency[r] \in Nat
    BY LoadConstantsOK
  <2>2. /\ latencies' \in Seq(Nat)
        /\ client' \in [Req -> {"none", "queued", "sent", "ok", "error"}]
    <3>1. CASE IsOk(reply[r])
      <4>1. latencies' = Append(latencies, Latency[r]) /\ latencies \in Seq(Nat)
        BY <1>4, <3>1 DEF Receive
      <4>2. latencies' \in Seq(Nat)
        BY <2>1, <4>1, AppendProperties
      <4> QED
        BY <1>4, <3>1, <4>2 DEF Receive
    <3>2. CASE ~IsOk(reply[r])
      BY <1>4, <3>2 DEF Receive
    <3> QED
      BY <3>1, <3>2
  <2>3. UNCHANGED <<at, phase, report, disturbed, mockVars>>
    BY <1>4 DEF Receive, MockIdle
  <2> QED
    BY <2>2, <2>3 DEF mockVars
<1>5. ASSUME NEW r \in Req, GiveUp(r) PROVE DriverTypes'
  BY <1>5 DEF GiveUp, MockIdle, mockVars
<1>6. CASE ResetGateway
  <2>1. CASE Enter("reset") /\ UNCHANGED <<at, latencies, report, disturbed>>
             /\ client' = [r \in Req |-> IF pc[r] = "idle" THEN "queued" ELSE "none"]
    BY <1>6, <2>1, EnterTypes DEF ResetGateway, MockIdle, mockVars, Phases
  <2>2. CASE Raise("reset", "gateway")
    BY <1>6, <2>2, RaiseTypes DEF ResetGateway, MockIdle, mockVars
  <2> QED
    BY <1>6, <2>1, <2>2 DEF ResetGateway
<1>7. CASE ResetMock
  <2>1. unheard' = (astray # 0) \/ unheard' = TRUE
    BY <1>7 DEF ResetMock
  <2>2. unheard' \in BOOLEAN
    BY <2>1, Zenon
  <2>3. mockCalls' \in Nat
    BY <1>7 DEF ResetMock, AfterFailure
  <2> QED
    BY <1>7, <2>2, <2>3, EnterTypes DEF ResetMock, Phases
<1>8. CASE Break
  <2>1. failing' \in BOOLEAN
    BY <1>8 DEF Break, AfterFailure
  <2> QED
    BY <1>8, <2>1, EnterTypes DEF Break, Phases
<1>9. CASE Gathered
  BY <1>9, EnterTypes DEF Gathered, MockIdle, mockVars, Phases
<1>10. CASE Restore
  <2>1. failing' \in BOOLEAN
    BY <1>10 DEF Restore, AfterFailure
  <2> QED
    BY <1>10, <2>1, EnterTypes, RaiseTypes DEF Restore, Phases
<1>11. CASE ReadHealth
  <2>1. calls[1] \in Nat
    BY GatewayConstantsOK DEF GatewayTypeOK, Provider
  <2>2. report' \in Report
    BY <1>11, <2>1, RaiseTypes DEF ReadHealth, Report
  <2> QED
    BY <1>11, <2>2, EnterTypes, RaiseTypes DEF ReadHealth, MockIdle, mockVars, Phases
<1>12. CASE ReadStats
  <2>1. /\ count \in [Counter -> Nat] /\ Len(latencies) \in Nat
        /\ Cardinality({r \in Batch : client[r] = "error"}) \in Nat
    BY BatchSizes DEF GatewayTypeOK
  <2>2. report' \in Report
    BY <1>12, <2>1, RaiseTypes DEF ReadStats, Report
  <2> QED
    BY <1>12, <2>2, EnterTypes, RaiseTypes DEF ReadStats, MockIdle, mockVars, Phases
<1>13. CASE ReadCalls
  <2>1. report.count["upstream_calls"] \in Nat
    BY DEF Report, Counter
  <2>2. report' \in Report
    BY <1>13, <2>1 DEF ReadCalls, Report
  <2> QED
    BY <1>13, <2>2 DEF ReadCalls, MockIdle, mockVars, Phases
<1>14. CASE NextScenario
  <2>1. NoReport \in Report
    BY DEF NoReport, Report, Zero
  <2>2. at + 1 \in 1..(Len(Plan) + 1)
    BY <1>14, LoadConstantsOK DEF NextScenario, Scenario
  <2> QED
    BY <1>14, <2>1, <2>2 DEF NextScenario, MockIdle, mockVars, Phases
<1>15. ASSUME NEW r \in Req, MockReceives(r) PROVE DriverTypes'
  BY <1>15 DEF MockReceives, driverVars
<1>16. CASE MockReceivesLate
  BY <1>16 DEF MockReceivesLate, driverVars
<1>17. CASE Over \/ UNCHANGED loadVars
  BY <1>17 DEF Over, loadVars, driverVars, mockVars
<1> QED
  BY <1>1, <1>2, <1>3, <1>4, <1>5, <1>6, <1>7, <1>8, <1>9, <1>10, <1>11, <1>12,
     <1>13, <1>14, <1>15, <1>16, <1>17 DEF LoadNext, Harness, Drive, Servers

\* The load test keeps the types of the gateway's variables and of its own,
\* whatever the plan (loadtest.py:56-226).
THEOREM LoadTypes == LoadSpec => []TypeOK
<1>1. LoadSpec => []GatewayTypeOK
  BY LoadDrivesGateway, GatewayTypes, PTL
<1>2. LoadInit => DriverTypes
  BY LoadTypesInit DEF TypeOK, DriverTypes
<1>3. GatewayTypeOK /\ DriverTypes /\ [LoadNext]_loadVars => DriverTypes'
  BY DriverStep
<1>4. GatewayTypeOK /\ DriverTypes => TypeOK
  BY DEF TypeOK, DriverTypes
<1> QED
  BY <1>1, <1>2, <1>3, <1>4, PTL DEF LoadSpec
-----------------------------------------------------------------------------
(* Sets of requests, which a step changes at one request.                   *)

LEMMA Sizes ==
  ASSUME NEW S \in SUBSET Req
  PROVE  IsFiniteSet(S) /\ Cardinality(S) \in Nat
BY GatewayConstantsOK, FS_Subset, FS_CardinalityType

LEMMA OneMore ==
  ASSUME NEW S \in SUBSET Req, NEW T \in SUBSET Req, NEW r \in Req,
         \A s \in Req \ {r} : s \in T <=> s \in S
  PROVE  Cardinality(T) = Cardinality(S) - (IF r \in S THEN 1 ELSE 0)
                                         + (IF r \in T THEN 1 ELSE 0)
<1>0. IsFiniteSet(S) /\ Cardinality(S) \in Nat
  BY Sizes
<1>1. CASE r \in S <=> r \in T
  <2>1. S = T
    BY <1>1
  <2> QED
    BY <1>0, <2>1
<1>2. CASE r \in S /\ r \notin T
  <2>1. T = S \ {r}
    BY <1>2
  <2> QED
    BY <1>0, <1>2, <2>1, FS_RemoveElement
<1>3. CASE r \notin S /\ r \in T
  <2>1. T = S \cup {r}
    BY <1>3
  <2>2. Cardinality(S \cup {r}) = Cardinality(S) + 1
    BY <1>0, <1>3, FS_AddElement
  <2> QED
    BY <1>0, <1>3, <2>1, <2>2
<1> QED
  BY <1>1, <1>2, <1>3

LEMMA SetsOfRequests ==
  /\ \A state : With(state) \in SUBSET Req
  /\ \A replies : By(replies) \in SUBSET Req
  /\ Paid \in SUBSET Req /\ Past \in SUBSET Req
BY DEF With, By, Paid, Past

\* What does not touch a request keeps the sets.
LEMMA SameSets ==
  /\ UNCHANGED client => \A state : With(state)' = With(state)
  /\ UNCHANGED reply => \A replies : By(replies)' = By(replies)
  /\ UNCHANGED <<pc, reply>> => Paid' = Paid /\ Past' = Past
BY DEF With, By, Paid, Past
-----------------------------------------------------------------------------
(* What a step of the handler is worth.                                     *)

One(condition) == IF condition THEN 1 ELSE 0

\* Request r, which was sent no answer, goes to label, is sent a if that is the
\* end, and then awaits provider i.
Serves(r, label, a, i) ==
  /\ pc[r] \notin {"idle", "done"} /\ label \notin {"idle", "admit"}
  /\ pc' = [pc EXCEPT ![r] = label]
  /\ reply' = [reply EXCEPT ![r] = a]
  /\ provider' = [provider EXCEPT ![r] = i]
  /\ a # "none" <=> label = "done"
  /\ i # 0 <=> label = "upstream"

Counts(r, label, a) ==
  /\ Hits(count') = Hits(count) + One(a \in CacheTiers)
  /\ count'["followers_served"] = count["followers_served"] + One(a = "follower")
  /\ count'["upstream_calls"] = count["upstream_calls"] + One(label = "put")
  /\ count'["failovers"] = count["failovers"] + One(label = "put" /\ provider[r] # 1)
  /\ count'["total"] = count["total"] + One(label = "lookup")
  /\ label = "lookup" => pc[r] = "admit"
  /\ a = "upstream" => pc[r] = "put"

\* The first provider is called when a request that did not await it comes to it.
Calls(r, i) == calls'[1] = calls[1] + One(i = 1 /\ provider[r] # 1)

LEMMA Tries ==
  ASSUME GatewayTypeOK, NEW r \in Req, NEW first \in Nat \ {0}, TryFrom(r, first),
         reply[r] = "none", pc[r] \notin {"idle", "done"},
         provider[r] = 0 \/ first > 1
  PROVE  \E label \in {"upstream", "release"}, i \in 0..N :
           Serves(r, label, "none", i) /\ Calls(r, i)
<1>0. /\ reply \in [Req -> Replies] /\ provider \in [Req -> 0..N]
      /\ calls \in [Provider -> Nat] /\ N \in Nat \ {0}
  BY GatewayConstantsOK DEF GatewayTypeOK
<1>1. reply = [reply EXCEPT ![r] = "none"]
  BY <1>0
<1>2. ASSUME NEW i \in Rest(first), Goto(r, "upstream"),
             provider' = [provider EXCEPT ![r] = i],
             calls' = [calls EXCEPT ![i] = @ + 1]
      PROVE  i \in 0..N /\ Serves(r, "upstream", "none", i) /\ Calls(r, i)
  <2>1. i \in Provider /\ i \in 0..N /\ i # 0 /\ i >= first
    BY <1>0 DEF Rest, Provider
  <2>2. Serves(r, "upstream", "none", i)
    BY <1>1, <1>2, <2>1 DEF Goto, Serves
  <2>3. calls'[1] = calls[1] + One(i = 1)
    BY <1>0, <1>2, <2>1 DEF Provider, One
  <2>4. i = 1 => provider[r] # 1
    BY <2>1
  <2> QED
    BY <2>1, <2>2, <2>3, <2>4 DEF Calls, One
<1>3. CASE Goto(r, "release") /\ provider' = [provider EXCEPT ![r] = 0] /\ UNCHANGED calls
  <2>1. Serves(r, "release", "none", 0)
    BY <1>1, <1>3 DEF Goto, Serves
  <2>2. Calls(r, 0)
    BY <1>0, <1>3 DEF Calls, One, Provider
  <2> QED
    BY <1>0, <2>1, <2>2
<1> QED
  BY <1>2, <1>3 DEF TryFrom

LEMMA ServeEffect ==
  ASSUME GatewayTypeOK, Bare, NEW r \in Req, Serve(r)
  PROVE  \E label \in Labels, a \in Replies, i \in 0..N :
           Serves(r, label, a, i) /\ Counts(r, label, a) /\ Calls(r, i)
<1>0. /\ pc \in [Req -> Labels] /\ reply \in [Req -> Replies]
      /\ provider \in [Req -> 0..N] /\ count \in [Counter -> Nat]
      /\ calls \in [Provider -> Nat] /\ N \in Nat \ {0}
  BY GatewayConstantsOK DEF GatewayTypeOK
<1>1. pc[r] \notin {"idle", "done"}
  BY DEF Serve, Admit, Lookup, Follow, Lead, Succeed, Fail, Finish, StoreRaises
<1>2. /\ reply[r] = "none" /\ reply = [reply EXCEPT ![r] = "none"]
      /\ provider[r] # 0 <=> pc[r] = "upstream"
  BY <1>0, <1>1 DEF Bare
<1>3. /\ calls[1] \in Nat /\ Hits(count) \in Nat
      /\ \A c \in {"followers_served", "upstream_calls", "failovers", "total"} :
           count[c] \in Nat
  BY <1>0 DEF Provider, Hits, Counter
<1>4. ASSUME UNCHANGED provider, pc[r] # "upstream" PROVE provider' = [provider EXCEPT ![r] = 0]
  BY <1>0, <1>2, <1>4
<1>5. ASSUME UNCHANGED calls PROVE Calls(r, 0)
  BY <1>3, <1>5 DEF Calls, One
<1>6. ASSUME NEW label \in Labels, NEW a \in Replies, NEW i \in 0..N,
             Serves(r, label, a, i), Counts(r, label, a), Calls(r, i)
      PROVE  \E l \in Labels, b \in Replies, j \in 0..N :
               Serves(r, l, b, j) /\ Counts(r, l, b) /\ Calls(r, j)
  BY <1>6
<1>7. 0 \in 0..N /\ Labels = {"lookup", "coalesce", "upstream", "idle", "admit", "refuse",
                              "put", "release", "done"}
  BY <1>0 DEF Labels, Stage
<1> USE DEF Goto, Answer, Bump
<1>a. CASE Admit(r)
  <2>1. CASE Goto(r, "lookup") /\ Bump("total")
    <3>1. Serves(r, "lookup", "none", 0)
      BY <1>1, <1>2, <1>4, <1>a, <2>1 DEF Admit, Serves
    <3>2. Counts(r, "lookup", "none")
      BY <1>0, <1>3, <1>a, <2>1 DEF Admit, Counts, Counter, Hits, CacheTiers, One
    <3>3. Calls(r, 0)
      BY <1>5, <1>a DEF Admit
    <3> QED
      BY <1>6, <1>7, <3>1, <3>2, <3>3 DEF Replies
  <2>2. CASE Goto(r, "refuse") /\ Bump("rejected")
    <3>1. Serves(r, "refuse", "none", 0)
      BY <1>1, <1>2, <1>4, <1>a, <2>2 DEF Admit, Serves
    <3>2. Counts(r, "refuse", "none")
      BY <1>0, <1>3, <1>a, <2>2 DEF Admit, Counts, Counter, Hits, CacheTiers, One
    <3>3. Calls(r, 0)
      BY <1>5, <1>a DEF Admit
    <3> QED
      BY <1>6, <1>7, <3>1, <3>2, <3>3 DEF Replies
  <2> QED
    BY <1>a, <2>1, <2>2 DEF Admit
<1>b. CASE Lookup(r)
  <2>0. Calls(r, 0)
    BY <1>5, <1>b DEF Lookup
  <2>1. ASSUME NEW tier \in {"exact_hits", "semantic_hits"}, Answer(r, tier), Bump(tier)
        PROVE  Serves(r, "done", tier, 0) /\ Counts(r, "done", tier)
    <3>1. Serves(r, "done", tier, 0)
      BY <1>1, <1>2, <1>4, <1>b, <2>1 DEF Lookup, Serves
    <3>2. Counts(r, "done", tier)
      BY <1>0, <1>3, <2>1 DEF Counts, Counter, Hits, CacheTiers, One
    <3> QED
      BY <3>1, <3>2
  <2>2. ASSUME Goto(r, "coalesce"), Bump("misses")
        PROVE  Serves(r, "coalesce", "none", 0) /\ Counts(r, "coalesce", "none")
    <3>1. Serves(r, "coalesce", "none", 0)
      BY <1>1, <1>2, <1>4, <1>b, <2>2 DEF Lookup, Serves
    <3>2. Counts(r, "coalesce", "none")
      BY <1>0, <1>3, <2>2 DEF Counts, Counter, Hits, CacheTiers, One
    <3> QED
      BY <3>1, <3>2
  <2>3. \/ \E tier \in {"exact_hits", "semantic_hits"} : Answer(r, tier) /\ Bump(tier)
        \/ Goto(r, "coalesce") /\ Bump("misses")
    BY <1>b DEF Lookup
  <2> QED
    BY <1>6, <1>7, <2>0, <2>1, <2>2, <2>3 DEF Replies
<1>c. CASE Follow(r)
  <2>1. Serves(r, "done", "follower", 0)
    BY <1>1, <1>2, <1>4, <1>c DEF Follow, Serves
  <2>2. Counts(r, "done", "follower")
    BY <1>0, <1>3, <1>c DEF Follow, Counts, Counter, Hits, CacheTiers, One
  <2>3. Calls(r, 0)
    BY <1>5, <1>c DEF Follow
  <2> QED
    BY <1>6, <1>7, <2>1, <2>2, <2>3 DEF Replies
<1>d. CASE Lead(r)
  <2>1. PICK label \in {"upstream", "release"}, i \in 0..N :
          Serves(r, label, "none", i) /\ Calls(r, i)
    <3>1. provider[r] = 0 /\ TryFrom(r, 1) /\ 1 \in Nat \ {0}
      BY <1>2, <1>d DEF Lead
    <3> QED
      BY <1>1, <1>2, <3>1, Tries
  <2>2. Counts(r, label, "none")
    BY <1>0, <1>3, <1>d DEF Lead, Counts, Counter, Hits, CacheTiers, One
  <2> QED
    BY <1>6, <1>7, <2>1, <2>2 DEF Replies
<1>e. CASE Succeed(r)
  <2>1. Serves(r, "put", "none", 0)
    BY <1>1, <1>2, <1>e DEF Succeed, Serves
  <2>2. /\ count'["upstream_calls"] = count["upstream_calls"] + 1
        /\ count'["failovers"] = count["failovers"] + One(provider[r] # 1)
        /\ \A c \in {"exact_hits", "semantic_hits", "followers_served", "total"} :
             count'[c] = count[c]
    <3>1. provider[r] \in 0..N /\ provider[r] # 0
      BY <1>0, <1>2, <1>e DEF Succeed
    <3> QED
      BY <1>0, <1>3, <1>e, <3>1 DEF Succeed, Counted, Counter, One
  <2>3. Counts(r, "put", "none")
    BY <1>3, <2>2 DEF Counts, Hits, CacheTiers, One
  <2>4. Calls(r, 0)
    BY <1>5, <1>e DEF Succeed
  <2> QED
    BY <1>6, <1>7, <2>1, <2>3, <2>4 DEF Replies
<1>f. CASE Fail(r)
  <2>1. PICK label \in {"upstream", "release"}, i \in 0..N :
          Serves(r, label, "none", i) /\ Calls(r, i)
    <3>1. /\ provider[r] \in Nat \ {0} /\ TryFrom(r, provider[r] + 1)
          /\ provider[r] + 1 \in Nat \ {0} /\ provider[r] + 1 > 1
      BY <1>0, <1>2, <1>f DEF Fail
    <3> QED
      BY <1>1, <1>2, <3>1, Tries
  <2>2. Counts(r, label, "none")
    BY <1>0, <1>3, <1>f DEF Fail, Counts, CacheTiers, One
  <2> QED
    BY <1>6, <1>7, <2>1, <2>2 DEF Replies
<1>g. CASE Finish(r)
  <2>0. Calls(r, 0) /\ UNCHANGED <<provider, count>> /\ pc[r] # "upstream"
    BY <1>5, <1>g DEF Finish
  <2>1. PICK a \in {"rate_limited", "upstream", "unavailable"} :
          Answer(r, a) /\ (a = "upstream" => pc[r] = "put")
    BY <1>g DEF Finish
  <2>2. Serves(r, "done", a, 0)
    BY <1>1, <1>2, <1>4, <2>0, <2>1 DEF Serves
  <2>3. Counts(r, "done", a)
    BY <1>0, <1>3, <2>0, <2>1 DEF Counts, CacheTiers, One
  <2> QED
    BY <1>6, <1>7, <2>0, <2>2, <2>3 DEF Replies
<1>h. CASE StoreRaises(r)
  <2>1. Serves(r, "done", "error", 0)
    BY <1>1, <1>2, <1>4, <1>h DEF StoreRaises, Serves
  <2>2. Counts(r, "done", "error")
    BY <1>0, <1>3, <1>h DEF StoreRaises, Counts, CacheTiers, One
  <2>3. Calls(r, 0)
    BY <1>5, <1>h DEF StoreRaises
  <2> QED
    BY <1>6, <1>7, <2>1, <2>2, <2>3 DEF Replies
<1> QED
  BY <1>a, <1>b, <1>c, <1>d, <1>e, <1>f, <1>g, <1>h DEF Serve
-----------------------------------------------------------------------------
(* The gateway at work.                                                     *)

\* A request is under way in the gateway only while its batch is fired.
LEMMA Busy ==
  ASSUME TypeOK, Live, Scene, NEW r \in Req, pc[r] \notin {"idle", "done"}
  PROVE  client[r] = "sent" /\ phase = "fire"
<1>1. phase \in Phases /\ client[r] \in {"none", "queued", "sent", "ok", "error"}
  BY DEF TypeOK
<1>2. phase # "reset"
  BY DEF Scene, Alone
<1>3. client[r] \notin {"none", "queued", "ok", "error"}
  BY <1>2 DEF Scene, Alone
<1>4. phase \notin {"mock_reset", "break", "restore", "health", "stats", "calls", "next"}
  BY <1>3 DEF Scene, Phased, Settled
<1> QED
  BY <1>1, <1>2, <1>3, <1>4 DEF Phases, Live

\* Nothing is under way once a clean report is written.
LEMMA Quiet ==
  ASSUME ReportInv, report.clean
  PROVE  /\ \A r \in Req : pc[r] \in {"idle", "done"} /\ client[r] \in Settled
         /\ Scene /\ Books
<1>1. Live /\ phase \in {"calls", "next"} /\ Scene /\ Books
  BY DEF ReportInv, Clean, Live
<1> QED
  BY <1>1 DEF Scene, Alone, Phased, Settled

LEMMA ServeBare ==
  ASSUME GatewayTypeOK, Bare, NEW r \in Req, NEW label, NEW a, NEW i,
         Serves(r, label, a, i), Post, UNCHANGED <<phase, report>>
  PROVE  Bare'
<1>1. \A s \in (posted \cup doomed)' : provider'[s] = 1
  BY DEF Post
<1> QED
  BY <1>1 DEF GatewayTypeOK, Bare, Serves

LEMMA ServeTally ==
  ASSUME GatewayTypeOK, Bare, Tally, phase = "fire", UNCHANGED <<client, latencies>>,
         NEW r \in Req, NEW label \in Labels, NEW a \in Replies, NEW i,
         Serves(r, label, a, i), Counts(r, label, a)
  PROVE  Tally'
<1>0. /\ pc \in [Req -> Labels] /\ reply \in [Req -> Replies] /\ reply[r] = "none"
      /\ count \in [Counter -> Nat]
  BY DEF GatewayTypeOK, Bare, Serves
<1>1. /\ Hits(count) \in Nat
      /\ \A c \in {"followers_served", "upstream_calls", "total"} : count[c] \in Nat
  BY <1>0 DEF Hits, Counter
<1>2. ASSUME NEW replies, "none" \notin replies
      PROVE  /\ Cardinality(By(replies))' = Cardinality(By(replies)) + One(a \in replies)
             /\ Cardinality(By(replies)) \in Nat
  <2>1. By(replies) \in SUBSET Req /\ By(replies)' \in SUBSET Req
    BY DEF By
  <2>2. \A s \in Req \ {r} : s \in By(replies)' <=> s \in By(replies)
    BY <1>0 DEF By, Serves
  <2>3. r \notin By(replies) /\ (r \in By(replies)' <=> a \in replies)
    BY <1>0, <1>2 DEF By, Serves
  <2> QED
    BY <2>1, <2>2, <2>3, OneMore, Sizes DEF One
<1>3. /\ Cardinality(Paid)' = Cardinality(Paid) - One(pc[r] = "put")
                                + One(label = "put" \/ a = "upstream")
      /\ Cardinality(Paid) \in Nat
  <2>1. Paid \in SUBSET Req /\ Paid' \in SUBSET Req
    BY DEF Paid
  <2>2. \A s \in Req \ {r} : s \in Paid' <=> s \in Paid
    BY <1>0 DEF Paid, Serves
  <2>3. /\ r \in Paid <=> pc[r] = "put"
        /\ r \in Paid' <=> label = "put" \/ a = "upstream"
    BY <1>0 DEF Paid, Serves
  <2> QED
    BY <2>1, <2>2, <2>3, OneMore, Sizes DEF One
<1>4. /\ Cardinality(Past)' = Cardinality(Past) + One(pc[r] = "admit")
      /\ Cardinality(Past) \in Nat
  <2>1. Past \in SUBSET Req /\ Past' \in SUBSET Req
    BY DEF Past
  <2>2. \A s \in Req \ {r} : s \in Past' <=> s \in Past
    BY <1>0 DEF Past, Serves
  <2>3. (r \in Past <=> pc[r] # "admit") /\ r \in Past'
    BY <1>0 DEF Past, Serves
  <2> QED
    BY <2>1, <2>2, <2>3, OneMore, Sizes DEF One
<1>5. Len(latencies)' = Cardinality(With("ok"))'
  BY SameSets DEF Tally
<1>6. Hits(count)' = Cardinality(By(CacheTiers))'
  BY <1>1, <1>2 DEF Tally, Counts, CacheTiers, Hits
<1>7. count["followers_served"]' = Cardinality(By({"follower"}))'
  BY <1>1, <1>2 DEF Tally, Counts, One
<1>8. count["upstream_calls"]' >= Cardinality(Paid)'
  BY <1>1, <1>3 DEF Tally, Counts, Serves, One
<1>9. count["total"]' <= Cardinality(Past)'
  BY <1>1, <1>4 DEF Tally, Counts, One
<1> QED
  BY <1>5, <1>6, <1>7, <1>8, <1>9 DEF Tally

\* Unless one is dropped, the calls on their way are those there were and the one
\* the gateway makes.
LEMMA ServeMock ==
  ASSUME TypeOK, Bare, MockAgrees, phase = "fire", UNCHANGED phase, Post,
         NEW r \in Req, NEW label, NEW a, NEW i \in 0..N,
         Serves(r, label, a, i), Calls(r, i)
  PROVE  MockAgrees'
<1> DEFINE calling == {s \in Req : provider'[s] = 1 /\ provider[s] # 1}
           dropped == {s \in posted : provider'[s] # 1}
<1>0. /\ provider \in [Req -> 0..N] /\ posted \subseteq Req /\ astray \in Nat
      /\ mockCalls \in Nat
  BY DEF TypeOK, GatewayTypeOK
<1> SUFFICES ASSUME ~unheard'
             PROVE  mockCalls' + Cardinality(posted)' = calls'[1] /\ astray' = 0
  BY DEF MockAgrees
<1>1. /\ ~unheard /\ dropped = {} /\ posted' = posted \cup calling
      /\ UNCHANGED mockCalls
      /\ astray' \in astray..(astray + Cardinality(dropped))
  BY DEF Post
<1>2. mockCalls + Cardinality(posted) = calls[1] /\ astray = 0
  BY <1>1 DEF MockAgrees
<1>3. astray' = 0
  <2>1. Cardinality(dropped) = 0
    BY <1>1, FS_EmptySet
  <2> QED
    BY <1>1, <1>2, <2>1
<1>4. calling = IF i = 1 /\ provider[r] # 1 THEN {r} ELSE {}
  BY <1>0 DEF Serves
<1>5. /\ posted \in SUBSET Req /\ posted' \in SUBSET Req
      /\ \A s \in Req \ {r} : s \in posted' <=> s \in posted
  BY <1>0, <1>1, <1>4
<1>6. Cardinality(posted)' = Cardinality(posted) + One(i = 1 /\ provider[r] # 1)
  <2>1. r \in posted => provider[r] = 1
    BY DEF Bare
  <2>2. r \in posted' <=> r \in posted \/ (i = 1 /\ provider[r] # 1)
    BY <1>1, <1>4
  <2>3. /\ Cardinality(posted') = Cardinality(posted) - (IF r \in posted THEN 1 ELSE 0)
                                     + (IF r \in posted' THEN 1 ELSE 0)
        /\ Cardinality(posted) \in Nat
    BY <1>5, OneMore, Sizes
  <2> QED
    BY <2>1, <2>2, <2>3 DEF One
<1>7. Cardinality(posted) \in Nat
  BY <1>5, Sizes
<1> QED
  BY <1>0, <1>1, <1>2, <1>3, <1>6, <1>7 DEF Calls, One

\* No completion of the failing mock is counted, and its calls stay doomed.
LEMMA ServeForced ==
  ASSUME TypeOK, Bare, Forced, phase = "fire", UNCHANGED <<phase, at>>, Post,
         NEW r \in Req, NEW label, NEW a, NEW i \in 0..N,
         r \in posted \cup doomed => pc'[r] # "put",
         Serves(r, label, a, i), Counts(r, label, a)
  PROVE  Forced'
<1> SUFFICES ASSUME Plan[at].kind = "failover" PROVE Forced'
  BY DEF Forced
<1>0. /\ pc \in [Req -> Labels] /\ provider \in [Req -> 0..N]
      /\ count["failovers"] \in Nat /\ count["upstream_calls"] \in Nat
  BY DEF TypeOK, GatewayTypeOK, Counter
<1>1. /\ count["failovers"] = count["upstream_calls"] /\ failing
      /\ \A s \in Req : provider[s] = 1 => s \in posted \cup doomed
  BY DEF Forced
<1>2. label = "put" => provider[r] # 1
  BY <1>0, <1>1 DEF Serves
<1>3. count'["failovers"] = count'["upstream_calls"]
  BY <1>0, <1>1, <1>2 DEF Counts, One
<1>4. \A s \in Req : provider'[s] = 1 => s \in posted' \cup doomed'
  BY <1>1 DEF Post
<1>5. failing'
  BY <1>1 DEF Post
<1> QED
  BY <1>3, <1>4, <1>5 DEF Forced

LEMMA ReportServe ==
  ASSUME ReportInv, NEW r \in Req, ServeRequest(r)
  PROVE  Bare' /\ Clean' /\ (Live => Scene /\ Books)'
<1>0. /\ GatewayTypeOK /\ TypeOK /\ Bare /\ Serve(r) /\ Post /\ UNCHANGED driverVars
      /\ r \in posted \cup doomed => pc'[r] # "put"
  BY DEF ReportInv, TypeOK, ServeRequest
<1>1. PICK label \in Labels, a \in Replies, i \in 0..N :
        Serves(r, label, a, i) /\ Counts(r, label, a) /\ Calls(r, i)
  BY <1>0, ServeEffect
<1>2. UNCHANGED <<at, phase, client, latencies, report, disturbed>>
  BY <1>0 DEF driverVars
<1>3. Bare'
  BY <1>0, <1>1, <1>2, ServeBare
<1>4. ~report.clean
  <2>1. pc[r] \notin {"idle", "done"}
    BY <1>1 DEF Serves
  <2> QED
    BY <2>1, Quiet
<1>5. ASSUME Live PROVE (Scene /\ Books)'
  <2>0. Scene /\ Books
    BY <1>5 DEF ReportInv
  <2>1. pc[r] \notin {"idle", "done"}
    BY <1>1 DEF Serves
  <2>2. client[r] = "sent" /\ phase = "fire"
    BY <1>0, <1>5, <2>0, <2>1, Busy
  <2>4. Alone'
    BY <1>0, <1>1, <1>2, <2>0, <2>2 DEF Scene, Alone, Serves, GatewayTypeOK
  <2>5. Phased'
    BY <1>2, <2>0, <2>2 DEF Scene, Phased, Scenario
  <2>6. Tally'
    BY <1>0, <1>1, <1>2, <2>0, <2>2, ServeTally DEF Books
  <2>7. MockAgrees'
    BY <1>0, <1>1, <1>2, <2>0, <2>2, ServeMock DEF Books
  <2>8. Noted'
    BY <1>2, <2>2 DEF Noted
  <2>9. Forced'
    BY <1>0, <1>1, <1>2, <2>0, <2>2, ServeForced DEF Books
  <2> QED
    BY <2>4, <2>5, <2>6, <2>7, <2>8, <2>9 DEF Scene, Books
<1> QED
  BY <1>2, <1>3, <1>4, <1>5 DEF Live, Clean

LEMMA ReportCrash ==
  ASSUME ReportInv, Crash
  PROVE  Bare' /\ Clean' /\ (Live => Scene /\ Books)'
<1>1. Bare'
  <2>1. \A s \in (posted \cup doomed)' : provider'[s] = 1
    BY DEF Crash, Post
  <2> QED
    BY <2>1 DEF ReportInv, TypeOK, GatewayTypeOK, Bare, Crash, Restart, Zero
<1>2. ~report.clean
  BY Quiet DEF Crash, Restart
<1>3. UNCHANGED report /\ disturbed'
  BY DEF Crash
<1> QED
  BY <1>1, <1>2, <1>3 DEF Clean, Live

\* The mock hears of a call.
LEMMA ReportMockReceives ==
  ASSUME ReportInv, NEW r \in Req, MockReceives(r)
  PROVE  Bare' /\ Clean' /\ (Live => Scene /\ Books)'
<1>0. /\ r \in posted /\ posted' = posted \ {r} /\ mockCalls' = mockCalls + 1
      /\ provider[r] = 1 /\ pc[r] = "upstream"
      /\ UNCHANGED <<pc, reply, provider, count, calls, at, phase, client, latencies,
                     report, disturbed, failing, astray, unheard>>
  BY DEF ReportInv, Bare, MockReceives, gatewayVars, driverVars
<1>1. Bare'
  <2>1. doomed' \subseteq doomed \cup {r}
    BY DEF MockReceives
  <2> QED
    BY <1>0, <2>1 DEF ReportInv, Bare
<1>2. Clean'
  BY <1>0, Quiet DEF ReportInv, Clean
<1>3. ASSUME Live PROVE (Scene /\ Books)'
  <2>0. Scene /\ Books /\ TypeOK
    BY <1>3 DEF ReportInv
  <2>1. phase = "fire"
    BY <1>0, <1>3, <2>0, Busy
  <2>2. Alone' /\ Phased'
    BY <1>0, <2>0, <2>1 DEF Scene, Alone, Phased, Scenario
  <2>3. Tally'
    BY <1>0, <2>0, SameSets DEF Books, Tally
  <2>4. MockAgrees'
    <3>1. Cardinality(posted)' = Cardinality(posted) - 1 /\ Cardinality(posted) \in Nat
      <4>1. posted \in SUBSET Req
        BY <2>0 DEF TypeOK
      <4> QED
        BY <1>0, <4>1, Sizes, FS_RemoveElement
    <3>2. mockCalls \in Nat
      BY <2>0 DEF TypeOK
    <3> QED
      BY <1>0, <2>0, <2>1, <3>1, <3>2 DEF Books, MockAgrees
  <2>5. Noted'
    BY <1>0, <2>1 DEF Noted
  <2>6. Forced'
    <3>1. failing => doomed' = doomed \cup {r}
      BY DEF MockReceives, Injects
    <3> QED
      BY <1>0, <2>0, <2>1, <3>1 DEF Books, Forced
  <2> QED
    BY <2>2, <2>3, <2>4, <2>5, <2>6 DEF Scene, Books
<1> QED
  BY <1>0, <1>1, <1>2, <1>3 DEF Live

LEMMA ReportMockLate ==
  ASSUME ReportInv, MockReceivesLate
  PROVE  Bare' /\ Clean' /\ (Live => Scene /\ Books)'
<1>0. /\ astray > 0 /\ astray \in Nat
      /\ UNCHANGED <<pc, reply, provider, count, calls, at, phase, client, latencies,
                     report, disturbed, failing, posted, doomed, unheard>>
  BY DEF ReportInv, TypeOK, MockReceivesLate, gatewayVars, driverVars
<1>1. Bare'
  BY <1>0 DEF ReportInv, Bare
<1>2. Clean'
  BY <1>0, SameSets DEF ReportInv, Clean
<1>3. ASSUME Live PROVE (Scene /\ Books)'
  <2>0. Scene /\ Books
    BY <1>3 DEF ReportInv
  <2>1. phase \notin {"reset", "mock_reset"} => unheard
    BY <1>0, <2>0 DEF Books, MockAgrees
  <2>2. Alone' /\ Phased'
    BY <1>0, <2>0 DEF Scene, Alone, Phased, Scenario
  <2>3. Tally'
    BY <1>0, <2>0, SameSets DEF Books, Tally
  <2>4. MockAgrees' /\ Noted'
    BY <1>0, <2>0, <2>1 DEF Books, MockAgrees, Noted
  <2>5. Forced'
    BY <1>0, <2>0 DEF Books, Forced
  <2> QED
    BY <2>2, <2>3, <2>4, <2>5 DEF Scene, Books
<1> QED
  BY <1>0, <1>1, <1>2, <1>3 DEF Live
-----------------------------------------------------------------------------
(* The clients at work.                                                     *)

LEMMA ReportSend ==
  ASSUME ReportInv, NEW r \in Req, Send(r)
  PROVE  Bare' /\ Clean' /\ (Live => Scene /\ Books)'
<1>0. /\ GatewayTypeOK /\ phase = "fire" /\ client[r] = "queued"
      /\ \/ /\ pc[r] = "idle" /\ pc' = [pc EXCEPT ![r] = "admit"]
            /\ client' = [client EXCEPT ![r] = "sent"]
         \/ UNCHANGED pc /\ client' = [client EXCEPT ![r] = "error"]
      /\ client \in [Req -> {"none", "queued", "sent", "ok", "error"}]
      /\ UNCHANGED <<reply, provider, count, calls, at, phase, latencies, report,
                     disturbed, mockVars>>
  BY DEF ReportInv, TypeOK, Send, Arrive, Goto, MockIdle, gatewayVars
<1>1. Bare'
  BY <1>0 DEF ReportInv, Bare, GatewayTypeOK, mockVars
<1>2. Clean'
  BY <1>0 DEF ReportInv, Clean
<1>3. ASSUME Live PROVE (Scene /\ Books)'
  <2>0. Alone /\ Phased /\ Tally /\ MockAgrees /\ Forced /\ Bare
    BY <1>3 DEF ReportInv, Scene, Books
  <2>1. Alone'
    <3>1. pc[r] = "idle" /\ reply[r] = "none"
      BY <1>0, <2>0 DEF Alone, Bare
    <3> QED
      BY <1>0, <2>0, <3>1 DEF Alone, GatewayTypeOK, IsOk
  <2>2. Phased'
    BY <1>0, <2>0 DEF Phased, Scenario
  <2>3. /\ With("ok")' = With("ok") /\ Paid' = Paid /\ Past' = Past
        /\ \A replies : By(replies)' = By(replies)
    BY <1>0 DEF With, By, Paid, Past, GatewayTypeOK
  <2>4. Tally'
    BY <1>0, <2>0, <2>3 DEF Tally
  <2>5. MockAgrees' /\ Noted' /\ Forced'
    BY <1>0, <2>0 DEF MockAgrees, Noted, Forced, mockVars
  <2> QED
    BY <2>1, <2>2, <2>4, <2>5 DEF Scene, Books
<1> QED
  BY <1>0, <1>1, <1>2, <1>3 DEF Live

LEMMA ReportReceive ==
  ASSUME ReportInv, NEW r \in Req, Receive(r)
  PROVE  Bare' /\ Clean' /\ (Live => Scene /\ Books)'
<1>0. /\ client[r] = "sent" /\ pc[r] = "done"
      /\ client \in [Req -> {"none", "queued", "sent", "ok", "error"}]
      /\ latencies \in Seq(Nat) /\ Latency[r] \in Nat
      /\ UNCHANGED <<pc, reply, provider, count, calls, at, phase, report, disturbed,
                     mockVars>>
  BY LoadConstantsOK DEF ReportInv, TypeOK, Receive, gatewayVars, MockIdle
<1>1. Bare'
  BY <1>0 DEF ReportInv, Bare, mockVars
<1>2. Clean'
  BY <1>0, Quiet DEF ReportInv, Clean, Settled
<1>3. ASSUME Live PROVE (Scene /\ Books)'
  <2>0. Alone /\ Phased /\ Tally /\ MockAgrees /\ Forced /\ phase # "reset"
    BY <1>0, <1>3 DEF ReportInv, Scene, Books, Alone
  <2>1. phase \notin {"restore", "health", "stats", "calls", "next", "mock_reset", "break"}
    BY <1>0, <2>0 DEF Phased, Settled
  <2>2. client' = [client EXCEPT ![r] = IF IsOk(reply[r]) THEN "ok" ELSE "error"]
    BY DEF Receive
  <2>3. Alone'
    BY <1>0, <2>0, <2>2 DEF Alone, IsOk
  <2>4. Phased'
    BY <1>0, <2>0, <2>1 DEF Phased, Scenario
  <2>5. Len(latencies)' = Cardinality(With("ok"))'
    <3>0. With("ok") \in SUBSET Req /\ With("ok")' \in SUBSET Req /\ r \notin With("ok")
      BY <1>0 DEF With
    <3>1. \A s \in Req \ {r} : s \in With("ok")' <=> s \in With("ok")
      BY <1>0, <2>2 DEF With
    <3>2. r \in With("ok")' <=> IsOk(reply[r])
      BY <1>0, <2>2 DEF With
    <3>3. Cardinality(With("ok"))' = Cardinality(With("ok")) + One(IsOk(reply[r]))
      BY <3>0, <3>1, <3>2, OneMore, Sizes DEF One
    <3>4. CASE IsOk(reply[r])
      <4>1. latencies' = Append(latencies, Latency[r])
        BY <3>4 DEF Receive
      <4>2. Len(latencies') = Len(latencies) + 1
        BY <1>0, <4>1, AppendProperties
      <4> QED
        BY <2>0, <3>3, <3>4, <4>2 DEF Tally, One
    <3>5. CASE ~IsOk(reply[r])
      <4>1. UNCHANGED latencies
        BY <3>5 DEF Receive
      <4> QED
        BY <2>0, <3>0, <3>3, <3>5, <4>1, Sizes DEF Tally, One
    <3> QED
      BY <3>4, <3>5
  <2>6. Tally'
    BY <1>0, <2>0, <2>5, SameSets DEF Tally
  <2>7. MockAgrees' /\ Noted' /\ Forced'
    BY <1>0, <2>0, <2>1 DEF MockAgrees, Noted, Forced, mockVars
  <2> QED
    BY <2>3, <2>4, <2>6, <2>7 DEF Scene, Books
<1> QED
  BY <1>0, <1>1, <1>2, <1>3 DEF Live

LEMMA ReportGiveUp ==
  ASSUME ReportInv, NEW r \in Req, GiveUp(r)
  PROVE  Bare' /\ Clean' /\ (Live => Scene /\ Books)'
<1>1. Bare'
  BY DEF ReportInv, Bare, GiveUp, gatewayVars, MockIdle, mockVars
<1>2. ~report.clean
  BY Quiet DEF GiveUp, Settled
<1>3. UNCHANGED report /\ disturbed'
  BY DEF GiveUp
<1> QED
  BY <1>1, <1>2, <1>3 DEF Clean, Live
-----------------------------------------------------------------------------
(* A scenario goes on.                                                      *)

\* A request of the load test's own raises.
LEMMA ReportRaise ==
  ASSUME ReportInv, NEW p \in {"reset", "restore", "health", "stats"}, NEW server,
         Raise(p, server), UNCHANGED <<pc, reply, provider, posted, doomed>>
  PROVE  Bare' /\ Clean' /\ ~Live'
<1>0. /\ phase = p /\ phase' = "raised"
      /\ UNCHANGED <<at, client, latencies, report, disturbed>>
  BY RaiseTypes
<1> QED
  BY <1>0 DEF ReportInv, Bare, Clean, Live

LEMMA ReportReset ==
  ASSUME ReportInv, ResetGateway, phase' # "raised"
  PROVE  Bare' /\ Clean' /\ (Live => Scene /\ Books)'
<1>0. /\ phase = "reset" /\ at \in Scenario /\ phase' = "mock_reset"
      /\ client' = [s \in Req |-> IF pc[s] = "idle" THEN "queued" ELSE "none"]
      /\ UNCHANGED <<pc, reply, provider, at, latencies, report, disturbed, mockVars>>
      /\ \A c \in Counter \ {"rejected"} : count'[c] = 0
      /\ calls'[1] = 0
  <2>0. Enter("reset") /\ ResetStats /\ MockIdle
    BY RaiseTypes DEF ResetGateway
  <2>1. calls'[1] = 0
    BY <2>0, GatewayConstantsOK DEF ResetStats, Zero, Provider
  <2> QED
    BY <2>0, <2>1, RaiseTypes DEF ResetGateway, ResetStats, ResetCounters, Enter, After,
                                  MockIdle
<1>1. Bare'
  BY <1>0 DEF ReportInv, Bare, mockVars
<1>2. Clean'
  BY <1>0 DEF ReportInv, Clean
<1>3. ASSUME Live PROVE (Scene /\ Books)'
  <2>0. latencies = <<>> /\ \A s \in Req : pc[s] = "idle" /\ reply[s] = "none"
    BY <1>0, <1>3 DEF ReportInv, Scene, Alone, Bare
  <2>1. Alone' /\ Phased'
    BY <1>0, <2>0 DEF Alone, Phased, Scenario, IsOk
  <2>2. /\ With("ok")' = {} /\ Paid' = {} /\ Past' = {}
        /\ By(CacheTiers)' = {} /\ By({"follower"})' = {}
    BY <1>0, <2>0 DEF With, By, Paid, Past, CacheTiers
  <2>3. /\ count'["exact_hits"] = 0 /\ count'["semantic_hits"] = 0
        /\ count'["followers_served"] = 0 /\ count'["upstream_calls"] = 0
        /\ count'["total"] = 0 /\ count'["failovers"] = 0
    BY <1>0 DEF Counter
  <2>4. Hits(count)' = 0 /\ Cardinality({}) = 0 /\ Len(latencies)' = 0
    BY <1>0, <2>0, <2>3, FS_EmptySet DEF Hits
  <2>5. Tally'
    <3>1. /\ Cardinality(With("ok"))' = 0 /\ Cardinality(By(CacheTiers))' = 0
          /\ Cardinality(By({"follower"}))' = 0
          /\ Cardinality(Paid)' = 0 /\ Cardinality(Past)' = 0
      BY <2>2, <2>4
    <3> QED
      BY <2>3, <2>4, <3>1 DEF Tally
  <2>6. MockAgrees' /\ Noted' /\ Forced'
    <3>1. posted = {}
      BY <2>0 DEF ReportInv, TypeOK, Bare
    <3> QED
      BY <1>0, <2>3, <3>1 DEF MockAgrees, Noted, Forced, mockVars
  <2> QED
    BY <2>1, <2>5, <2>6 DEF Scene, Books
<1> QED
  BY <1>0, <1>1, <1>2, <1>3 DEF Live

LEMMA Nexts ==
  ASSUME NEW p \in Phases, Enter(p)
  PROVE  /\ phase = p /\ at \in Scenario
         /\ p = "mock_reset" => phase' \in {"break", "fire"}
         /\ p = "break" => phase' = "fire"
         /\ p = "fire" => phase' \in {"restore", "stats"}
         /\ p = "restore" => phase' = "health"
         /\ p = "health" => phase' = "stats"
         /\ p = "stats" => /\ phase' \in {"next", "calls"}
                           /\ phase' = "next" => Plan[at].kind = "failover"
BY DEF Enter, After

\* Outside fire no call of the batch is on its way.
LEMMA NothingPosted ==
  ASSUME ReportInv, Live, phase # "fire"
  PROVE  posted = {} /\ \A r \in Req : provider[r] = 0
<1>1. \A r \in Req : provider[r] = 0
  BY Busy DEF ReportInv, Bare
<1> QED
  BY <1>1 DEF ReportInv, TypeOK, Bare

\* Steps of a scenario that leave the gateway and the clients alone, and enter a
\* phase these may be in.
LEMMA Passes ==
  ASSUME ReportInv, phase \notin {"reset", "next", "raised"}, phase' # "reset",
         Live => Phased', report'.source = report.source \/ phase' = "next",
         UNCHANGED <<pc, reply, provider, count, client, latencies, disturbed, posted,
                     doomed>>
  PROVE  Bare' /\ (Live => Scene /\ Tally)'
<1>0. Live' => Live
  BY DEF Live
<1>1. Bare'
  BY DEF ReportInv, Bare
<1>2. ASSUME Live PROVE Alone' /\ Tally'
  <2>0. Alone /\ Tally
    BY <1>2 DEF ReportInv, Scene, Books
  <2>1. Alone'
    BY <2>0 DEF Alone
  <2>2. Tally'
    BY <2>0, SameSets DEF Tally
  <2> QED
    BY <2>1, <2>2
<1> QED
  BY <1>0, <1>1, <1>2 DEF Scene

LEMMA ReportMock ==
  ASSUME ReportInv, ResetMock
  PROVE  Bare' /\ Clean' /\ (Live => Scene /\ Books)'
<1>0. /\ phase = "mock_reset" /\ at \in Scenario /\ phase' \in {"break", "fire"}
      /\ phase' = "fire" => Plan[at].kind # "failover"
      /\ UNCHANGED <<pc, reply, provider, count, calls, at, client, latencies, report,
                     disturbed, posted, astray, doomed>>
      /\ ~unheard' => mockCalls' = 0 /\ astray = 0
  <2>1. ~unheard' => mockCalls' = 0 /\ unheard' = (astray # 0)
    BY DEF ResetMock
  <2>2. ~unheard' => astray = 0
    BY <2>1, Zenon
  <2> QED
    BY <2>1, <2>2 DEF ResetMock, gatewayVars, Enter, After
<1>1. Live => Phased'
  BY <1>0 DEF ReportInv, Scene, Phased, Scenario
<1>2. Bare' /\ (Live => Scene /\ Tally)'
  BY <1>0, <1>1, Passes
<1>3. ASSUME Live PROVE (MockAgrees /\ Noted /\ Forced)'
  <2>0. calls[1] = 0 /\ posted = {} /\ Forced /\ astray \in Nat
    BY <1>0, <1>3 DEF ReportInv, TypeOK, Books, MockAgrees
  <2>1. Cardinality(posted)' = 0
    BY <1>0, <2>0, FS_EmptySet
  <2>2. MockAgrees'
    BY <1>0, <2>0, <2>1 DEF MockAgrees
  <2> QED
    BY <1>0, <2>0, <2>2 DEF Noted, Forced
<1>4. Clean'
  BY <1>0 DEF ReportInv, Clean
<1> QED
  BY <1>0, <1>2, <1>3, <1>4 DEF Books, Live

LEMMA ReportBreak ==
  ASSUME ReportInv, Break
  PROVE  Bare' /\ Clean' /\ (Live => Scene /\ Books)'
<1>0. /\ phase = "break" /\ at \in Scenario
      /\ (phase' = "fire" /\ failing') \/ phase' = "next"
      /\ UNCHANGED <<pc, reply, provider, count, calls, at, client, latencies, report,
                     disturbed, mockCalls, posted, astray, doomed, unheard>>
  BY DEF Break, gatewayVars, Enter, After
<1>1. report.source = "nobody" /\ ~report.clean
  BY <1>0 DEF ReportInv, Bare, Clean
<1>2. Live => Phased'
  BY <1>0, <1>1 DEF ReportInv, Scene, Phased, Scenario
<1>3. Bare' /\ (Live => Scene /\ Tally)'
  BY <1>0, <1>2, Passes
<1>4. Live => (MockAgrees /\ Noted /\ Forced)'
  BY <1>0, <1>1, NothingPosted DEF ReportInv, Books, MockAgrees, Noted, Forced
<1>5. Clean'
  BY <1>0, <1>1 DEF Clean
<1> QED
  BY <1>0, <1>3, <1>4, <1>5 DEF Books, Live

LEMMA ReportGoesOn ==
  ASSUME ReportInv, Restore \/ Gathered, phase' # "raised"
  PROVE  Bare' /\ Clean' /\ (Live => Scene /\ Books)'
<1>0. /\ at \in Scenario
      /\ \/ phase = "restore" /\ phase' = "health"
         \/ /\ phase = "fire" /\ phase' \in {"restore", "stats"}
            /\ phase' = "stats" => Plan[at].kind # "failover"
            /\ \A r \in Batch : client[r] \in Settled
      /\ UNCHANGED <<pc, reply, provider, count, calls, at, client, latencies, report,
                     disturbed, mockCalls, posted, astray, doomed, unheard>>
  <2>1. CASE Gathered
    BY <2>1 DEF Gathered, gatewayVars, MockIdle, mockVars, Enter, After, Settled
  <2>2. CASE Restore
    <3>1. Enter("restore") /\ UNCHANGED <<at, client, latencies, report, disturbed>>
      BY <2>2, RaiseTypes DEF Restore
    <3> QED
      BY <2>2, <3>1 DEF Restore, gatewayVars, Enter, After
  <2> QED
    BY <2>1, <2>2
<1>1. Live => Phased'
  BY <1>0 DEF ReportInv, Scene, Alone, Phased, Scenario, Batch
<1>2. Bare' /\ (Live => Scene /\ Tally)'
  BY <1>0, <1>1, Passes
<1>3. Live => (MockAgrees /\ Noted /\ Forced)'
  BY <1>0 DEF ReportInv, Books, MockAgrees, Noted, Forced
<1>4. Clean'
  BY <1>0 DEF ReportInv, Clean
<1> QED
  BY <1>0, <1>2, <1>3, <1>4 DEF Books, Live

LEMMA ReportRead ==
  ASSUME ReportInv, ReadHealth \/ ReadStats \/ ReadCalls, phase' # "raised"
  PROVE  Bare' /\ Clean' /\ (Live => Scene /\ Books)'
<1>0. /\ at \in Scenario /\ report \in Report
      /\ UNCHANGED <<pc, reply, provider, count, calls, at, client, latencies, disturbed,
                     mockVars>>
      /\ \/ /\ phase = "health" /\ phase' = "stats"
            /\ report' = [report EXCEPT !.primary = calls[1]]
         \/ /\ phase = "stats" /\ phase' \in {"next", "calls"}
            /\ phase' = "next" <=> Plan[at].kind = "failover"
            /\ report' = [report EXCEPT !.ok = Len(latencies),
                            !.errors = Cardinality({r \in Batch : client[r] = "error"}),
                            !.count = count, !.clean = ~disturbed]
         \/ /\ phase = "calls" /\ phase' = "next"
            /\ \/ report' = [report EXCEPT !.observed = mockCalls, !.source = "mock"]
               \/ report' = report
               \/ report' = [report EXCEPT !.observed = report.count["upstream_calls"],
                                           !.source = "gateway"]
  <2>1. CASE ReadHealth
    BY <2>1, RaiseTypes DEF ReportInv, TypeOK, ReadHealth, gatewayVars, MockIdle, Enter, After
  <2>2. CASE ReadStats
    BY <2>2, RaiseTypes DEF ReportInv, TypeOK, ReadStats, gatewayVars, MockIdle, Enter, After
  <2>3. CASE ReadCalls
    BY <2>3 DEF ReportInv, TypeOK, ReadCalls, gatewayVars, MockIdle
  <2> QED
    BY <2>1, <2>2, <2>3
<1>1. ~disturbed <=> Live
  BY <1>0 DEF Live
<1>2. Live => Phased'
  BY <1>0 DEF ReportInv, Scene, Phased, Scenario
<1>3. Bare' /\ (Live => Scene /\ Tally)'
  <2>1. phase' \in {"stats", "calls", "next"} /\ phase \notin {"reset", "next", "raised"}
    BY <1>0
  <2>2. report'.source = report.source \/ phase' = "next"
    BY <1>0 DEF Report
  <2> QED
    BY <1>0, <1>2, <2>1, <2>2, Passes DEF mockVars
<1>4. ASSUME Live PROVE (MockAgrees /\ Noted /\ Forced)'
  <2>0. MockAgrees /\ Noted /\ Forced /\ report.source \in {"nobody", "mock", "gateway"}
    BY <1>0, <1>4 DEF ReportInv, Books, Report
  <2>1. MockAgrees' /\ Forced'
    BY <1>0, <2>0 DEF MockAgrees, Forced, mockVars
  <2>2. ASSUME phase \in {"health", "stats"} PROVE Noted'
    <3>1. report.source = "nobody" /\ report'.source = "nobody"
      BY <1>0, <2>2 DEF ReportInv, Bare, Report
    <3>2. CASE phase = "health"
      <4>1. phase' = "stats" /\ report'.primary = calls[1] /\ UNCHANGED <<at, calls>>
        BY <1>0, <3>2 DEF Report
      <4> QED
        BY <4>1 DEF Noted
    <3>3. CASE phase = "stats"
      <4>1. /\ phase' \in {"next", "calls"} /\ report'.primary = report.primary
            /\ UNCHANGED <<at, calls>>
        BY <1>0, <3>3 DEF Report
      <4> QED
        BY <2>0, <3>1, <3>3, <4>1 DEF Noted
    <3> QED
      BY <2>2, <3>2, <3>3
  <2>3. ASSUME phase = "calls" PROVE Noted'
    <3>1. posted = {} /\ Cardinality(posted) = 0 /\ mockCalls \in Nat
      BY <1>4, <2>3, NothingPosted, FS_EmptySet DEF ReportInv, TypeOK
    <3>2. report.source = "nobody"
      BY <2>3 DEF ReportInv, Bare
    <3>3. report'.primary = report.primary /\ report'.clean = report.clean
      BY <1>0, <2>3 DEF Report
    <3>4. report'.source = "mock" => report'.observed = mockCalls
      BY <1>0, <2>3, <3>2 DEF Report
    <3>5. ~unheard => mockCalls = calls[1]
      BY <2>0, <2>3, <3>1 DEF MockAgrees
    <3>6. phase' = "next" /\ UNCHANGED <<at, calls, unheard>>
      BY <1>0, <2>3 DEF mockVars
    <3> QED
      BY <2>0, <2>3, <3>3, <3>4, <3>5, <3>6 DEF Noted
  <2> QED
    BY <1>0, <2>1, <2>2, <2>3
<1>5. Clean'
  <2>1. CASE phase = "stats"
    <3>1. {r \in Batch : client[r] = "error"} = With("error")
      BY DEF Batch, With
    <3>2. /\ phase' \in {"calls", "next"} /\ report'.clean = ~disturbed
          /\ report'.ok = Len(latencies) /\ report'.count = count
          /\ report'.errors = Cardinality(With("error"))
      BY <1>0, <2>1, <3>1 DEF Report
    <3>3. With("error")' = With("error")
      BY <1>0, SameSets
    <3> QED
      BY <1>0, <3>2, <3>3 DEF Clean
  <2>2. CASE phase \in {"health", "calls"}
    BY <1>0, <2>2, SameSets DEF ReportInv, Clean, Report
  <2> QED
    BY <1>0, <2>1, <2>2
<1> QED
  BY <1>0, <1>1, <1>3, <1>4, <1>5 DEF Books, Live

LEMMA ReportNext ==
  ASSUME ReportInv, NextScenario
  PROVE  Bare' /\ Clean' /\ (Live => Scene /\ Books)'
<1>0. /\ phase = "next" /\ phase' = "reset" /\ latencies' = <<>>
      /\ client' = [r \in Req |-> "none"] /\ report' = NoReport
      /\ pc' = [r \in Req |-> IF pc[r] = "done" THEN "idle" ELSE pc[r]]
      /\ reply' = [r \in Req |-> IF pc[r] = "done" THEN "none" ELSE reply[r]]
      /\ UNCHANGED <<provider, disturbed, posted, doomed>>
  BY DEF NextScenario, Forget, MockIdle, mockVars
<1>1. Bare'
  BY <1>0 DEF ReportInv, Bare, NoReport
<1>2. Clean'
  BY <1>0 DEF Clean, NoReport
<1>3. ASSUME Live PROVE (Scene /\ Books)'
  <2>1. \A r \in Req : pc[r] \in {"idle", "done"}
    BY <1>0, <1>3, Busy DEF ReportInv
  <2>2. Alone' /\ Phased'
    BY <1>0, <2>1 DEF Alone, Phased
  <2>3. Books'
    BY <1>0 DEF Books, Tally, MockAgrees, Noted, Forced
  <2> QED
    BY <2>2, <2>3 DEF Scene
<1> QED
  BY <1>0, <1>1, <1>2, <1>3 DEF Live
-----------------------------------------------------------------------------

LEMMA ReportInit == LoadInit => ReportInv
<1> SUFFICES ASSUME LoadInit PROVE ReportInv
  OBVIOUS
<1>1. TypeOK
  BY LoadTypesInit
<1>2. Bare /\ Clean /\ Alone /\ Phased
  BY DEF LoadInit, GatewayInit, NoReport, Bare, Clean, Alone, Phased
<1>3. Books
  BY DEF LoadInit, Books, Tally, MockAgrees, Noted, Forced
<1> QED
  BY <1>1, <1>2, <1>3 DEF ReportInv, Scene

LEMMA ReportStep ==
  ASSUME ReportInv, [LoadNext]_loadVars
  PROVE  Bare' /\ Clean' /\ (Live => Scene /\ Books)'
<1>1. CASE Over \/ UNCHANGED loadVars
  <2>1. UNCHANGED loadVars
    BY <1>1 DEF Over
  <2>2. UNCHANGED <<gatewayVars, driverVars, mockVars>>
    BY <2>1 DEF loadVars
  <2> QED
    BY <2>2, SameSets
       DEF ReportInv, Bare, Clean, Live, Scene, Books, Alone, Phased, Tally, MockAgrees,
           Noted, Forced, Scenario, gatewayVars, driverVars, mockVars
<1>2. CASE Servers
  BY <1>2, ReportServe, ReportCrash, ReportMockReceives, ReportMockLate DEF Servers
<1>3. ASSUME NEW r \in Req, Send(r) \/ Receive(r) \/ GiveUp(r)
      PROVE  Bare' /\ Clean' /\ (Live => Scene /\ Books)'
  BY <1>3, ReportSend, ReportReceive, ReportGiveUp
<1>4. CASE phase' = "raised" /\ (ResetGateway \/ Restore \/ ReadHealth \/ ReadStats)
  <2>1. \E p \in {"reset", "restore", "health", "stats"}, server \in {"gateway", "mock"} :
          Raise(p, server)
    BY <1>4 DEF ResetGateway, Restore, ReadHealth, ReadStats, Enter, After
  <2>2. UNCHANGED <<pc, reply, provider, posted, doomed>>
    BY <1>4 DEF ResetGateway, ResetStats, Restore, ReadHealth, ReadStats, MockIdle,
                mockVars, gatewayVars
  <2> QED
    BY <2>1, <2>2, ReportRaise
<1>5. CASE Drive /\ ~(phase' = "raised" /\ (ResetGateway \/ Restore \/ ReadHealth \/ ReadStats))
  <2>1. (Gathered \/ ReadCalls) => phase' # "raised"
    BY DEF Gathered, ReadCalls, Enter, After
  <2> QED
    BY <1>5, <2>1, ReportReset, ReportMock, ReportBreak, ReportGoesOn, ReportRead, ReportNext
       DEF Drive
<1> QED
  BY <1>1, <1>2, <1>3, <1>4, <1>5 DEF LoadNext, Harness

LEMMA ReportInvariant == LoadSpec => []ReportInv
<1>1. ReportInv /\ TypeOK' /\ [LoadNext]_loadVars => ReportInv'
  BY ReportStep DEF ReportInv
<1> QED
  BY <1>1, ReportInit, LoadTypes, PTL DEF LoadSpec

\* A clean report is about the requests of its own scenario.
LEMMA CleanReports ==
  ASSUME ReportInv, phase = "next", report.clean
  PROVE  /\ report.ok + report.errors = Cardinality(Batch)
         /\ report.ok = Answered({"exact_hits", "semantic_hits", "follower", "upstream"})
         /\ Hits(report.count) = Answered({"exact_hits", "semantic_hits"})
         /\ report.count["followers_served"] = Answered({"follower"})
         /\ report.count["upstream_calls"] >= Answered({"upstream"})
         /\ report.count["total"] <= Cardinality(Batch)
         /\ Plan[at].kind = "failover" => report.primary = calls[1]
         /\ report.source = "mock" /\ ~unheard => report.observed = calls[1]
<1>1. /\ Alone /\ Phased /\ Tally /\ MockAgrees /\ Noted
      /\ report.ok = Len(latencies) /\ report.errors = Cardinality(With("error"))
      /\ report.count = count /\ Bare
  BY Quiet DEF ReportInv, Clean, Scene, Books
<1>2. \A r \in Req : /\ pc[r] \in {"idle", "done"} /\ client[r] \in Settled
                     /\ pc[r] = "idle" => reply[r] = "none"
  BY <1>1, Quiet DEF Bare
<1>3. Batch = Req /\ Past \subseteq Req
  BY <1>2 DEF Batch, Past, Settled
<1>4. \A replies : Answered(replies) = Cardinality(By(replies))
  BY <1>3 DEF Answered, By
<1>5. report.ok + report.errors = Cardinality(Batch)
  <2>1. With("ok") \cup With("error") = Req /\ With("ok") \cap With("error") = {}
    BY <1>2 DEF With, Settled
  <2>2. With("ok") \in SUBSET Req /\ With("error") \in SUBSET Req
    BY SetsOfRequests
  <2>3. Cardinality(With("ok") \cup With("error"))
          = Cardinality(With("ok")) + Cardinality(With("error"))
    BY <2>1, <2>2, Sizes, FS_Union, FS_EmptySet
  <2> QED
    BY <1>1, <1>3, <2>1, <2>3 DEF Tally
<1>6. With("ok") = By({"exact_hits", "semantic_hits", "follower", "upstream"})
  BY <1>1, <1>2 DEF With, By, Alone, IsOk, Settled
<1>7. Paid = By({"upstream"})
  BY <1>2 DEF Paid, By
<1>8. report.count["total"] <= Cardinality(Batch)
  <2>1. Cardinality(Past) \in Nat /\ Cardinality(Req) \in Nat
    BY <1>3, Sizes
  <2>2. Cardinality(Past) <= Cardinality(Req)
    BY <1>3, GatewayConstantsOK, FS_Subset
  <2>3. count["total"] \in Nat
    BY DEF ReportInv, TypeOK, GatewayTypeOK, Counter
  <2> QED
    BY <1>1, <1>3, <2>1, <2>2, <2>3 DEF Tally
<1>9. /\ Plan[at].kind = "failover" => report.primary = calls[1]
      /\ report.source = "mock" /\ ~unheard => report.observed = calls[1]
  BY <1>1 DEF Noted
<1> QED
  BY <1>1, <1>3, <1>4, <1>5, <1>6, <1>7, <1>8, <1>9 DEF Tally, CacheTiers

\* A scenario reports on its own requests, as loadtest.py:4-5 says, as long as no
\* client gave up and the gateway did not restart, for any plan, batch and number of
\* permits: the gateway's numbers and the clients' whatever fails, what the mock
\* says of its calls if its reset got through and no call ended on its way there.
THEOREM ReportsAreTrue == LoadSpec => []ReportsTellTheTruth
<1>1. ReportInv => ReportsTellTheTruth
  BY CleanReports DEF ReportsTellTheTruth
<1> QED
  BY <1>1, ReportInvariant, PTL

\* What a failover scenario reports is failover, for any number of providers and of
\* requests: its injected failures reach every call of the first mock, whenever that
\* hears of it (loadtest.py:152-175, mock_upstream.py:33-39, providers.py:110-126).
THEOREM FailoversForced == LoadSpec => []FailoverIsForced
<1>1. ReportInv => FailoverIsForced
  <2> SUFFICES ASSUME ReportInv, phase = "next", report.clean, Plan[at].kind = "failover"
               PROVE  report.count["failovers"] = report.count["upstream_calls"]
    BY DEF FailoverIsForced
  <2>1. report.count = count /\ Forced
    BY Quiet DEF ReportInv, Clean, Books
  <2> QED
    BY <2>1 DEF Forced
<1> QED
  BY <1>1, ReportInvariant, PTL

\* The percentiles a scenario reports are ordered, lie between the least and the
\* greatest latency of its batch, and the 50th is the median, for any latencies.
THEOREM PercentilesInOrder == LoadSpec => []PercentilesOrdered
<1>1. ASSUME TypeOK, latencies # <<>> PROVE Family(latencies) /\ Samples(latencies) # 0
  <2>1. Len(latencies) \in Nat \ {0} /\ DOMAIN latencies = 1..Len(latencies)
    BY <1>1, EmptySeq, LenProperties DEF TypeOK
  <2>2. IsFiniteSet(1..Len(latencies)) /\ Cardinality(1..Len(latencies)) = Len(latencies)
    BY <2>1, FS_Interval
  <2>3. latencies \in [1..Len(latencies) -> Int]
    BY <1>1, LenProperties DEF TypeOK
  <2> QED
    BY <2>1, <2>2, <2>3 DEF Family, Samples
<1>2. TypeOK => PercentilesOrdered
  BY <1>1, PercentilesOf DEF PercentilesOrdered
<1> QED
  BY <1>2, LoadTypes, PTL
=============================================================================
