------------------------------- MODULE LoadTest -------------------------------
(***************************************************************************)
(* The scenarios of bench/loadtest.py, run one after the other against one *)
(* gateway process and the mock providers behind it                        *)
(* (bench/mock_upstream.py).  A scenario resets counters, fires its batch  *)
(* through a semaphore and reports what it measured and what /stats says.  *)
(* A request the client gave up on lives on in the gateway, and a call the *)
(* gateway gave up on may still reach the mock, into the scenarios after.  *)
(***************************************************************************)
EXTENDS Gateway, Figures

CONSTANTS
  Plan,         \* the scenarios in order, with the permits of their semaphores
  Latency,      \* what the client measures for each request, in ms
  Survivors,    \* bound: requests that go on when their client has given up
  Unreachable   \* servers a request of the scenarios may fail to get through to

Scenario == 1..Len(Plan)

ASSUME LoadConstantsOK ==
  /\ Plan \in Seq([kind : {"load", "herd", "failover"}, permits : Nat \ {0}])
  /\ Latency \in [Req -> Nat]
  /\ Survivors \subseteq Req
  /\ Unreachable \subseteq {"gateway", "mock"}

VARIABLES
  at,         \* the scenario under way, Len(Plan) + 1 at the end
  phase,      \* what it does next; "raised" if an exception ended the load test
  client,     \* the client's side of the requests of the scenario
  latencies,  \* of the answers with status 200, in order of arrival
  report,     \* what the scenario reports
  disturbed,  \* history: a client gave up or the gateway restarted
  mockCalls,  \* STATE["calls"] of the first mock; nobody reads the other's
  failing,    \* STATE["fail_rate"] of the first mock is 1
  posted,     \* requests whose call of that mock is on its way
  astray,     \* calls on their way that no request waits for any more
  doomed,     \* requests whose call that mock is going to fail
  unheard     \* history: the reset of the mock failed, or it may have heard more
              \* or less since then than was posted in the meantime

driverVars == <<at, phase, client, latencies, report, disturbed>>
mockVars == <<mockCalls, failing, posted, astray, doomed, unheard>>
loadVars == <<gatewayVars, driverVars, mockVars>>

Phases == {"reset", "mock_reset", "break", "fire", "restore", "health", "stats",
           "calls", "next", "raised"}
Report == [ok : Nat, errors : Nat, count : [Counter -> Nat], primary : Nat,
           observed : Nat, source : {"nobody", "mock", "gateway"}, clean : BOOLEAN]
NoReport == [ok |-> 0, errors |-> 0, count |-> Zero(Counter), primary |-> 0,
             observed |-> 0, source |-> "nobody", clean |-> FALSE]

TypeOK ==
  /\ GatewayTypeOK
  /\ at \in 1..(Len(Plan) + 1) /\ phase \in Phases
  /\ client \in [Req -> {"none", "queued", "sent", "ok", "error"}]
  /\ latencies \in Seq(Nat)
  /\ report \in Report
  /\ disturbed \in BOOLEAN
  /\ mockCalls \in Nat /\ failing \in BOOLEAN
  /\ posted \subseteq Req /\ astray \in Nat /\ doomed \subseteq Req
  /\ unheard \in BOOLEAN

LoadInit ==
  /\ GatewayInit
  /\ at = 1 /\ phase = "reset"
  /\ client = [r \in Req |-> "none"]
  /\ latencies = <<>> /\ report = NoReport /\ disturbed = FALSE
  /\ mockCalls = 0 /\ failing = FALSE
  /\ posted = {} /\ astray = 0 /\ doomed = {} /\ unheard = FALSE
-----------------------------------------------------------------------------
(* The calls of the first mock.  HttpProvider counts a call and posts it; the *)
(* mock counts it and draws its outcome when it comes in.  An injected failure *)
(* is a JSON list, which HttpProvider.complete cannot read.                    *)

MockIdle == UNCHANGED mockVars

\* What a step of the gateway does to its calls.  One that ends before the mock has
\* it, by a timeout, an error or the gateway's death, is lost or still arrives.
Post ==
  LET calling == {r \in Req : provider'[r] = 1 /\ provider[r] # 1}
      dropped == {r \in posted : provider'[r] # 1} IN
  /\ posted' = (posted \ dropped) \cup calling
  /\ astray' \in astray..(astray + Cardinality(dropped))
  /\ doomed' = {r \in doomed : provider'[r] = 1}
  /\ unheard' = (unheard \/ dropped # {})
  /\ UNCHANGED <<mockCalls, failing>>

InjectsNothing == FALSE
Injects == failing

MockReceives(r) ==
  /\ r \in posted
  /\ posted' = posted \ {r}
  /\ mockCalls' = mockCalls + 1
  /\ doomed' = doomed \cup (IF Injects THEN {r} ELSE {})
  /\ UNCHANGED <<gatewayVars, driverVars, failing, astray, unheard>>

MockReceivesLate ==
  /\ astray > 0
  /\ astray' = astray - 1
  /\ mockCalls' = mockCalls + 1
  /\ UNCHANGED <<gatewayVars, driverVars, failing, posted, doomed, unheard>>

ServeRequest(r) ==
  /\ client[r] = "sent" \/ r \in Survivors
  /\ Serve(r)
  /\ r \in posted \cup doomed => pc'[r] # "put"
  /\ Post
  /\ UNCHANGED driverVars

Crash ==
  /\ Restart
  /\ Post
  /\ disturbed' = TRUE
  /\ UNCHANGED <<at, phase, client, latencies, report>>
-----------------------------------------------------------------------------
(* fire: the requests of the batch, each with a permit of the semaphore.   *)

Batch == {r \in Req : client[r] # "none"}
HoldsPermitForGood(r) == client[r] \in {"sent", "error"}
HoldsPermit(r) == client[r] = "sent"

\* client.post: the gateway gets the request, or the client an exception.
Send(r) ==
  /\ phase = "fire" /\ at \in Scenario
  /\ client[r] = "queued"
  /\ Cardinality({s \in Batch : HoldsPermit(s)}) < Plan[at].permits
  /\ \/ Arrive(r) /\ client' = [client EXCEPT ![r] = "sent"]
     \/ /\ "gateway" \in Unreachable
        /\ client' = [client EXCEPT ![r] = "error"]
        /\ UNCHANGED gatewayVars
  /\ UNCHANGED <<at, phase, latencies, report, disturbed>> /\ MockIdle

\* status_code == 200
IsOkAlsoRefused(a) == a \notin {"unavailable", "error", "lost"}
IsOk(a) == a \in {"exact_hits", "semantic_hits", "follower", "upstream"}

Receive(r) ==
  /\ client[r] = "sent" /\ pc[r] = "done"
  /\ IF IsOk(reply[r])
     THEN /\ client' = [client EXCEPT ![r] = "ok"]
          /\ latencies' = Append(latencies, Latency[r])
     ELSE client' = [client EXCEPT ![r] = "error"] /\ UNCHANGED latencies
  /\ UNCHANGED <<gatewayVars, at, phase, report, disturbed>> /\ MockIdle

\* The client's timeout, or its connection breaks; the gateway goes on with the
\* request.
GiveUp(r) ==
  /\ client[r] = "sent"
  /\ client' = [client EXCEPT ![r] = "error"]
  /\ disturbed' = TRUE
  /\ UNCHANGED <<gatewayVars, at, phase, latencies, report>> /\ MockIdle
-----------------------------------------------------------------------------
(* A scenario.  Where a request of its own fails, httpx raises.             *)

\* The next step of the scenario after phase p.
After(p) ==
  CASE p = "reset"      -> "mock_reset"
    [] p = "mock_reset" -> IF Plan[at].kind = "failover" THEN "break" ELSE "fire"
    [] p = "break"      -> "fire"
    [] p = "fire"       -> IF Plan[at].kind = "failover" THEN "restore" ELSE "stats"
    [] p = "restore"    -> "health"
    [] p = "health"     -> "stats"
    [] OTHER            -> IF Plan[at].kind = "failover" THEN "next" ELSE "calls"

Enter(p) == at \in Scenario /\ phase = p /\ phase' = After(p)

\* The request of phase p fails and no `try` is around it: the load test is over.
Raise(p, server) ==
  /\ at \in Scenario /\ phase = p /\ server \in Unreachable
  /\ phase' = "raised"
  /\ UNCHANGED <<at, client, latencies, report, disturbed>>

\* What a request to the mock leaves in a variable that it should change from `old`
\* to `new` when httpx raises, before or after it took effect.
AfterFailure(old, new) == IF "mock" \in Unreachable THEN {old, new} ELSE {}

\* reset_all: POST /admin/reset of the gateway, then /reset of the first mock
\* only.  The batch is as many requests as there is room for.
ResetGateway ==
  /\ \/ /\ Enter("reset")
        /\ ResetStats
        /\ client' = [r \in Req |-> IF pc[r] = "idle" THEN "queued" ELSE "none"]
        /\ UNCHANGED <<at, latencies, report, disturbed>>
     \/ Raise("reset", "gateway") /\ (ResetStats \/ UNCHANGED gatewayVars)
  /\ MockIdle

\* An exception is swallowed, and the mock may keep the count it has.
ResetMock ==
  /\ Enter("mock_reset")
  /\ \/ mockCalls' = 0 /\ unheard' = (astray # 0)
     \/ mockCalls' \in AfterFailure(mockCalls, 0) /\ unheard' = TRUE
  /\ UNCHANGED <<gatewayVars, at, client, latencies, report, disturbed>>
  /\ UNCHANGED <<failing, posted, astray, doomed>>

\* POST /configure with a fail_rate of 1.0; after an exception the scenario reports
\* that it was skipped.
Break ==
  /\ \/ Enter("break") /\ failing' = TRUE
     \/ /\ at \in Scenario /\ phase = "break" /\ phase' = "next"
        /\ failing' \in AfterFailure(failing, TRUE)
  /\ UNCHANGED <<gatewayVars, at, client, latencies, report, disturbed>>
  /\ UNCHANGED <<mockCalls, posted, astray, doomed, unheard>>

\* asyncio.gather returns.
Gathered ==
  /\ Enter("fire")
  /\ \A r \in Batch : client[r] \in {"ok", "error"}
  /\ UNCHANGED <<gatewayVars, at, client, latencies, report, disturbed>> /\ MockIdle

\* POST /configure with a fail_rate of 0.0.
Restore ==
  /\ \/ /\ Enter("restore") /\ failing' = FALSE
        /\ UNCHANGED <<at, client, latencies, report, disturbed>>
     \/ Raise("restore", "mock") /\ failing' \in AfterFailure(failing, FALSE)
  /\ UNCHANGED <<gatewayVars, mockCalls, posted, astray, doomed, unheard>>

\* GET /health after a failover: ProviderPool.snapshot tells provider.calls.
ReadHealth ==
  /\ \/ /\ Enter("health")
        /\ report' = [report EXCEPT !.primary = calls[1]]
        /\ UNCHANGED <<at, client, latencies, disturbed>>
     \/ Raise("health", "gateway")
  /\ UNCHANGED gatewayVars /\ MockIdle

\* GET /stats, and what summarise makes of the batch.
ReadStats ==
  /\ \/ /\ Enter("stats")
        /\ report' = [report EXCEPT !.ok = Len(latencies),
                        !.errors = Cardinality({r \in Batch : client[r] = "error"}),
                        !.count = count, !.clean = ~disturbed]
        /\ UNCHANGED <<at, client, latencies, disturbed>>
     \/ Raise("stats", "gateway")
  /\ UNCHANGED gatewayVars /\ MockIdle

\* GET /calls of the first mock after a load or a herd; after an exception a load
\* reports no number, a herd the completions the gateway counted.
ReadCalls ==
  /\ at \in Scenario /\ phase = "calls" /\ phase' = "next"
  /\ \/ report' = [report EXCEPT !.observed = mockCalls, !.source = "mock"]
     \/ /\ "mock" \in Unreachable
        /\ report' = IF Plan[at].kind = "load" THEN report
                     ELSE [report EXCEPT !.observed = report.count["upstream_calls"],
                                         !.source = "gateway"]
  /\ UNCHANGED <<gatewayVars, at, client, latencies, disturbed>> /\ MockIdle

\* The scenario has returned its report; the next one may begin.
NextScenario ==
  /\ at \in Scenario /\ phase = "next"
  /\ Forget
  /\ at' = at + 1 /\ phase' = "reset" /\ latencies' = <<>>
  /\ client' = [r \in Req |-> "none"] /\ report' = NoReport
  /\ UNCHANGED disturbed /\ MockIdle

Drive == ResetGateway \/ ResetMock \/ Break \/ Gathered \/ Restore \/ ReadHealth
         \/ ReadStats \/ ReadCalls \/ NextScenario

Ended == at > Len(Plan) \/ phase = "raised"
Over == Ended /\ UNCHANGED loadVars

Harness == Drive \/ \E r \in Req : Send(r) \/ Receive(r) \/ GiveUp(r)

\* What the servers do once the load test is over is left to Gateway.
Servers == ~Ended /\ \/ \E r \in Req : ServeRequest(r) \/ MockReceives(r)
                     \/ MockReceivesLate \/ Crash

LoadNext == Harness \/ Servers \/ Over

LoadSpec == LoadInit /\ [][LoadNext]_loadVars

\* The harness goes on, and httpx ends each of its requests, of fire after 60
\* seconds: nothing is asked of the gateway and the mock.
FairLoadSpec == LoadSpec /\ WF_loadVars(Harness)
-----------------------------------------------------------------------------
(* Properties.                                                              *)

Answered(replies) == Cardinality({r \in Batch : reply[r] \in replies})

\* What a scenario reports is about its own requests, as loadtest.py:4-5 says,
\* as long as no client gave up and the gateway did not restart: its counters are
\* those of the answers its clients got, and the calls /health reports, or the mock
\* itself unless its reset failed or a call ended on its way there, are those the
\* gateway made in it.  It does not hold of limiter.rejected, which no reset clears.
ReportsTellTheTruth ==
  phase = "next" /\ report.clean =>
    /\ report.ok + report.errors = Cardinality(Batch)
    /\ report.ok = Answered({"exact_hits", "semantic_hits", "follower", "upstream"})
    /\ Hits(report.count) = Answered({"exact_hits", "semantic_hits"})
    /\ report.count["followers_served"] = Answered({"follower"})
    /\ report.count["upstream_calls"] >= Answered({"upstream"})
    /\ report.count["total"] <= Cardinality(Batch)
    /\ Plan[at].kind = "failover" => report.primary = calls[1]
    /\ report.source = "mock" /\ ~unheard => report.observed = calls[1]

\* A failover scenario measures failover: as long as no client gave up and the
\* gateway did not restart, no completion it reports came from the first provider,
\* which it forced to fail, whatever calls were on their way when it did
\* (loadtest.py:152-175).
FailoverIsForced ==
  phase = "next" /\ report.clean /\ Plan[at].kind = "failover" =>
    report.count["failovers"] = report.count["upstream_calls"]

\* Interpolated percentiles of any latencies are ordered, lie between the least
\* and the greatest of them, and the 50th is their median (loadtest.py:33-53).
PercentilesOrdered ==
  latencies # <<>> =>
    /\ 100 * Nth(latencies, 1) <= Pct(latencies, 50)
    /\ Pct(latencies, 50) <= Pct(latencies, 95)
    /\ Pct(latencies, 95) <= Pct(latencies, 99)
    /\ Pct(latencies, 99) <= 100 * Highest(latencies)
    /\ Pct(latencies, 50) = Median(latencies)

\* The load test ends, with a report of every scenario or by the exception of a
\* request that no `try` is around, though the gateway and the mock may never do
\* anything: each way a request of fire ends gives its permit back
\* (loadtest.py:56-66, 76-94, 98-175).
LoadTestEnds == <>Ended
=============================================================================
