--------------------------- MODULE BenchmarkProofs ---------------------------
(* Theorems about the orchestrator of the benchmark, for any number of       *)
(* repetitions and invocations, any measurements and any faults.             *)
EXTENDS Benchmark, FiguresProofs, SequenceTheorems

\* The steps before a control arm is measured, and before any arm is.
BeforeLoad == {"primary", "fallback", "wait_primary", "wait_fallback", "flush",
               "spawn", "wait_gateway", "load"}
Serves == {"load", "failover", "restore"}

\* A repetition appends one run, when its control was measured.
RunsInStep ==
  arm = "control" /\ pc \in BeforeLoad => Len(runs) < rep

\* Who holds a port as a child is a child that is up, and the children a step
\* may meet are those of the steps before it.
ChildrenKnown ==
  /\ \A p \in Ports : holder[p] = "child" => child[p] = "up"
  /\ child["gateway"] # "none" => pc \in Serves \cup {"wait_gateway", "stop_gateway"}
  /\ child["primary"] # "none" => pc \notin {"idle", "primary", "stop_fallback"}
  /\ child["fallback"] # "none" => pc \notin {"idle", "primary", "fallback"}

\* As long as every gateway about is the invocation's own, the one that serves
\* was started for the arm under way.
OwnGateway ==
  ~stray =>
    /\ holder["gateway"] # "stranger" /\ late["gateway"] = "none"
    /\ pc \in Serves => holder["gateway"] = "child"
    /\ holder["gateway"] = "child" => config = arm

\* Nothing fills Redis between a flush and the load after it.
FlushHolds == pc \in {"spawn", "wait_gateway", "load"} /\ flushed => ~warm

\* A mock of the invocation fails only inside the failover, which is the treatment's,
\* and on the way from there to its end.
MockHealthy ==
  /\ pc \in {"failover", "restore"} => arm = "treatment"
  /\ holder["primary"] = "child" /\ failing =>
       \/ pc = "restore"
       \/ pc \in {"stop_gateway", "stop_primary"} /\ (aborting \/ arm = "treatment")

TypeInv == TypeOK /\ RunsInStep
CleanInv ==
  TypeOK /\ ChildrenKnown /\ OwnGateway /\ FlushHolds /\ MockHealthy /\ LoadsAreClean
-----------------------------------------------------------------------------
LEMMA TypeInit == Init => TypeInv
<1> SUFFICES ASSUME Init PROVE TypeInv
  OBVIOUS
<1>1. runs \in Seq(Run) /\ Len(runs) = 0
  BY DEF Init
<1>2. /\ holder \in [Ports -> {"none", "child", "stranger", "dying"}]
      /\ child \in [Ports -> {"none", "starting", "up", "exited"}]
      /\ late \in [Ports -> Arms \cup {"none"}]
  BY DEF Init
<1>3. aborting \in BOOLEAN /\ failing \in BOOLEAN /\ warm \in BOOLEAN /\ flushed \in BOOLEAN
  BY DEF Init
<1>4. stray \in BOOLEAN
  BY DEF Init
<1>5. /\ pc \in Places /\ launched \in 0..Invocations /\ rep \in 1..Repeat
      /\ arm \in Arms /\ config \in Arms /\ measured \subseteq Row /\ Len(runs) < rep
  BY <1>1, BenchmarkConstantsOK DEF Init, Places, Arms
<1> QED
  BY <1>1, <1>2, <1>3, <1>4, <1>5, BenchmarkConstantsOK DEF TypeInv, TypeOK, RunsInStep

LEMMA TypeStep ==
  ASSUME TypeInv, [Next]_vars
  PROVE  TypeInv'
<1>0. TypeOK /\ RunsInStep /\ Repeat \in Nat \ {0} /\ Invocations \in Nat
  BY BenchmarkConstantsOK DEF TypeInv
<1> USE DEF TypeInv, TypeOK, RunsInStep, Places, Ports, Mocks, Arms, BeforeLoad,
            procVars, dataVars
<1>1. CASE Launch
  <2>1. <<>> \in Seq(Run) /\ Len(<<>>) = 0
    OBVIOUS
  <2>2. runs' \in Seq(Run) /\ Len(runs') < rep' /\ rep' \in 1..Repeat
    BY <1>0, <1>1, <2>1 DEF Launch
  <2>3. pc' \in Places /\ launched' \in 0..Invocations /\ arm' \in Arms
    BY <1>0, <1>1 DEF Launch
  <2>4. aborting' \in BOOLEAN
    BY <1>1 DEF Launch
  <2>5. UNCHANGED <<procVars, failing, warm, flushed, measured>>
    BY <1>1 DEF Launch
  <2> QED
    BY <1>0, <2>2, <2>3, <2>4, <2>5
<1>2. ASSUME NEW p \in Mocks, SpawnMock(p) PROVE TypeInv'
  BY <1>0, <1>2 DEF SpawnMock, Go, Spawn
<1>3. ASSUME NEW p \in Mocks, StopMock(p) PROVE TypeInv'
  BY <1>0, <1>3 DEF StopMock, Go, Stop, Last
<1>4. CASE WaitMocks
  <2>1. CASE Abandon
    <3>1. /\ child' \in [Ports -> {"none", "starting", "up", "exited"}]
          /\ holder' \in [Ports -> {"none", "child", "stranger", "dying"}]
          /\ late' \in [Ports -> Arms \cup {"none"}]
      BY <1>0, <2>1 DEF Abandon
    <3>2. stray' \in BOOLEAN
      BY <1>0, <2>1 DEF Abandon
    <3>3. UNCHANGED <<config, dataVars, launched, rep, arm>>
      BY <1>4, <2>1 DEF WaitMocks, WaitMock, Go, Unwind, Abandon
    <3>4. /\ pc' \in {"idle", "wait_fallback", "flush"} /\ aborting' \in BOOLEAN
          /\ pc \in {"wait_primary", "wait_fallback"}
      BY <1>0, <1>4 DEF WaitMocks, WaitMock, Go, Unwind
    <3> QED
      BY <1>0, <3>1, <3>2, <3>3, <3>4
  <2>2. CASE UNCHANGED procVars
    BY <1>0, <1>4, <2>2 DEF WaitMocks, WaitMock, Go, Unwind
  <2> QED
    BY <1>4, <2>1, <2>2 DEF WaitMocks, WaitMock
<1>5. CASE Flush
  BY <1>0, <1>5 DEF Flush, Go
<1>6. CASE SpawnGateway
  BY <1>0, <1>6 DEF SpawnGateway, Go, Spawn
<1>7. CASE WaitGateway
  <2>1. CASE Go("load") /\ UNCHANGED procVars
    BY <1>0, <1>7, <2>1 DEF WaitGateway, Go
  <2>2. CASE Unwind("stop_primary") /\ Stop("gateway")
    BY <1>0, <1>7, <2>2 DEF WaitGateway, Unwind, Stop
  <2> QED
    BY <1>7, <2>1, <2>2 DEF WaitGateway
<1>8. ASSUME NEW n \in Calls, Load(n) PROVE TypeInv'
  <2>1. measured' \subseteq Row
    <3>1. (holder["primary"] = "child") \in BOOLEAN
      OBVIOUS
    <3> QED
      BY <1>0, <1>8, <3>1 DEF Load, Row
  <2>2. warm' \in BOOLEAN
    BY <1>0, <1>8 DEF Load
  <2>3. /\ runs' \in Seq(Run) /\ Len(runs') <= rep
        /\ (arm = "control" /\ Len(runs) < rep) \/ arm = "treatment"
    <3>1. CASE arm = "control"
      <4>1. [before |-> n, after |-> 0] \in Run
        BY DEF Run
      <4>2. runs' = Append(runs, [before |-> n, after |-> 0])
        BY <1>8, <3>1 DEF Load
      <4> HIDE DEF Run
      <4> QED
        BY <1>0, <1>8, <3>1, <4>1, <4>2 DEF Load
    <3>2. CASE arm = "treatment"
      <4>1. runs' = [runs EXCEPT ![rep].after = n]
        BY <1>8, <3>2 DEF Load
      <4>2. CASE rep \in 1..Len(runs)
        <5>1. runs[rep] \in Run
          BY <1>0, <4>2
        <5>2. [runs[rep] EXCEPT !.after = n] \in Run
          BY <5>1 DEF Run
        <5>3. runs' = [runs EXCEPT ![rep] = [runs[rep] EXCEPT !.after = n]]
          BY <4>1
        <5> QED
          BY <1>0, <3>2, <4>2, <5>2, <5>3
      <4>3. CASE rep \notin 1..Len(runs)
        <5>1. runs' = runs
          BY <1>0, <4>1, <4>3
        <5> QED
          BY <1>0, <3>2, <5>1
      <4> QED
        BY <4>2, <4>3
    <3> QED
      BY <1>0, <3>1, <3>2
  <2>4. pc' \in {"stop_gateway", "failover"}
        /\ UNCHANGED <<launched, rep, arm, aborting, procVars, failing, flushed>>
    BY <1>8 DEF Load, Go
  <2> QED
    BY <1>0, <2>1, <2>2, <2>3, <2>4
<1>9. CASE Failover
  BY <1>0, <1>9 DEF Failover, Go
<1>10. CASE Raise
  BY <1>0, <1>10 DEF Raise, Unwind, UnwindTo
<1>11. CASE StopGateway
  BY <1>0, <1>11 DEF StopGateway, Stop, Go
<1>12. ASSUME NEW p \in Ports, Bind(p) PROVE TypeInv'
  <2>1. failing' \in BOOLEAN
    BY <1>0, <1>12 DEF Bind, Bound
  <2>2. /\ child' \in [Ports -> {"none", "starting", "up", "exited"}]
        /\ holder' \in [Ports -> {"none", "child", "stranger", "dying"}]
        /\ config' \in Arms
    BY <1>0, <1>12 DEF Bind, Bound
  <2> QED
    BY <1>0, <1>12, <2>1, <2>2 DEF Bind
<1>13. ASSUME NEW p \in Ports, BindLate(p) PROVE TypeInv'
  <2>1. failing' \in BOOLEAN
    BY <1>0, <1>13 DEF BindLate, Bound
  <2>2. /\ late' \in [Ports -> Arms \cup {"none"}]
        /\ holder' \in [Ports -> {"none", "child", "stranger", "dying"}]
        /\ config' \in Arms
    BY <1>0, <1>13 DEF BindLate, Bound
  <2> QED
    BY <1>0, <1>13, <2>1, <2>2 DEF BindLate
<1>14. ASSUME NEW p \in Ports, Reap(p) PROVE TypeInv'
  BY <1>0, <1>14 DEF Reap
<1>15. CASE Interrupt
  BY <1>0, <1>15 DEF Interrupt, Unwind, Abandon
<1>16. CASE Rest \/ UNCHANGED vars
  BY <1>0, <1>16 DEF Rest, vars
<1> QED
  BY <1>1, <1>2, <1>3, <1>4, <1>5, <1>6, <1>7, <1>8, <1>9,
     <1>10, <1>11, <1>12, <1>13, <1>14, <1>15, <1>16
     DEF Next, Orchestrate, Server

-----------------------------------------------------------------------------
LEMMA CleanInit == Init => CleanInv
BY TypeInit DEF Init, TypeInv, CleanInv, ChildrenKnown, OwnGateway, FlushHolds, MockHealthy,
   LoadsAreClean, Ports, Mocks, Serves

LEMMA CleanStep ==
  ASSUME CleanInv, TypeOK', [Next]_vars
  PROVE  CleanInv'
<1>0. /\ TypeOK /\ ChildrenKnown /\ OwnGateway /\ FlushHolds /\ MockHealthy
      /\ LoadsAreClean /\ TypeOK'
  BY DEF CleanInv
<1> USE DEF CleanInv, TypeOK, ChildrenKnown, OwnGateway, FlushHolds, MockHealthy,
            LoadsAreClean, Ports, Mocks, Serves, procVars, dataVars
<1>1. CASE Launch
  BY <1>0, <1>1 DEF Launch
<1>2. ASSUME NEW p \in Mocks, SpawnMock(p) PROVE CleanInv'
  BY <1>0, <1>2 DEF SpawnMock, Go, Spawn
<1>3. ASSUME NEW p \in Mocks, StopMock(p) PROVE CleanInv'
  BY <1>0, <1>3 DEF StopMock, Go, Stop, Last
<1>4. CASE WaitMocks
  BY <1>0, <1>4 DEF WaitMocks, WaitMock, Go, Unwind, Abandon, TimesOut, Answers
<1>5. CASE Flush
  BY <1>0, <1>5 DEF Flush, Go
<1>6. CASE SpawnGateway
  BY <1>0, <1>6 DEF SpawnGateway, Go, Spawn
<1>7. CASE WaitGateway
  BY <1>0, <1>7 DEF WaitGateway, Go, Unwind, Stop, Answers
<1>8. ASSUME NEW n \in Calls, Load(n) PROVE CleanInv'
  <2>1. ~stray => config = arm
    BY <1>0, <1>8 DEF Load
  <2>2. flushed => ~warm
    BY <1>0, <1>8 DEF Load
  <2>3. holder["primary"] = "child" => ~failing
    BY <1>0, <1>8 DEF Load
  <2>4. LoadsAreClean'
    BY <1>8, <2>1, <2>2, <2>3 DEF Load
  <2>5. (ChildrenKnown /\ OwnGateway /\ FlushHolds /\ MockHealthy)'
    <3>1. CASE arm = "control"
      BY <1>0, <1>8, <2>3, <3>1 DEF Load, Go
    <3>2. CASE arm = "treatment"
      BY <1>0, <1>8, <2>3, <3>2 DEF Load, Go
    <3> QED
      BY <1>0, <3>1, <3>2 DEF Arms
  <2> QED
    BY <1>0, <2>4, <2>5
<1>9. CASE Failover
  BY <1>0, <1>9 DEF Failover, Go
<1>10. CASE Raise
  BY <1>0, <1>10 DEF Raise, Unwind, UnwindTo
<1>11. CASE StopGateway
  BY <1>0, <1>11 DEF StopGateway, Stop, Go
<1>12. ASSUME NEW p \in Ports, Bind(p) PROVE CleanInv'
  BY <1>0, <1>12 DEF Bind, Bound, Free
<1>13. ASSUME NEW p \in Ports, BindLate(p) PROVE CleanInv'
  BY <1>0, <1>13 DEF BindLate, Bound, Free
<1>14. ASSUME NEW p \in Ports, Reap(p) PROVE CleanInv'
  BY <1>0, <1>14 DEF Reap
<1>15. CASE Interrupt
  BY <1>0, <1>15 DEF Interrupt, Unwind, Abandon
<1>16. CASE Rest \/ UNCHANGED vars
  BY <1>0, <1>16 DEF Rest, vars
<1> QED
  BY <1>1, <1>2, <1>3, <1>4, <1>5, <1>6, <1>7, <1>8, <1>9,
     <1>10, <1>11, <1>12, <1>13, <1>14, <1>15, <1>16
     DEF Next, Orchestrate, Server
-----------------------------------------------------------------------------
\* Every variable of the orchestrator and of the processes keeps its type.
THEOREM TypeCorrect == Spec => []TypeOK
<1>1. TypeInv => TypeOK
  BY DEF TypeInv
<1> QED
  BY TypeInit, TypeStep, <1>1, PTL DEF Spec

LEMMA CleanInvariant == Spec => []CleanInv
BY TypeCorrect, CleanInit, CleanStep, PTL DEF Spec

\* Unless gateways the invocation did not start are about, each load meets the
\* gateway its arm asked for and, if its flush succeeded, a store with nothing
\* cached; a mock the invocation started is never left failing, whatever exits,
\* raises, is skipped or hangs in earlier repetitions (run_all.py:154-204).
THEOREM LoadsClean == Spec => []LoadsAreClean
<1>1. CleanInv => LoadsAreClean
  BY DEF CleanInv
<1> QED
  BY CleanInvariant, <1>1, PTL

\* However an invocation ends, it leaves no gateway of its own behind, unless it is
\* killed (run_all.py:94-96, 172-173, 194-195).
THEOREM GatewaysEnd == Spec => []NoGatewayOutlives
<1>1. CleanInv => NoGatewayOutlives
  BY DEF CleanInv, ChildrenKnown, OwnGateway, NoGatewayOutlives, Answers, TypeOK, Ports,
         Mocks, Serves
<1> QED
  BY CleanInvariant, <1>1, PTL

\* What ARCHITECTURE.md:159-164 promises does hold where its reason does: when others
\* hold none of the ports and no invocation is killed, every load meets the gateway
\* its arm asked for, whatever else exits, raises, hangs or fails to flush.
THEOREM MeasuresOwnAlone ==
  ASSUME {"stranger", "interrupt"} \cap Faults = {}
  PROVE  Spec => []MeasuresItsOwn
<1>1. Init => ~stray
  BY DEF Init
<1>2. ASSUME CleanInv, ~stray, [Next]_vars PROVE ~stray'
  <2>1. ChildrenKnown
    BY <1>2 DEF CleanInv
  <2>2. ~Interrupt
    BY DEF Interrupt
  <2>3. ASSUME Abandon, pc \in {"wait_primary", "wait_fallback"} PROVE ~stray'
    BY <1>2, <2>1, <2>3 DEF Abandon, ChildrenKnown, Serves
  <2> QED
    BY <1>2, <2>2, <2>3
       DEF Next, Orchestrate, Server, Launch, SpawnMock, StopMock, WaitMocks, WaitMock,
           Flush, SpawnGateway, WaitGateway, Load, Failover, Raise, StopGateway, Bind,
           BindLate, Reap, Rest, Spawn, Stop, procVars, vars
<1>3. CleanInv /\ ~stray => MeasuresItsOwn
  BY DEF CleanInv, LoadsAreClean, MeasuresItsOwn
<1> QED
  BY <1>1, <1>2, <1>3, CleanInvariant, PTL DEF Spec
-----------------------------------------------------------------------------
LEMMA ReductionFacts ==
  ASSUME TypeOK, Compared # {}
  PROVE  /\ Family(Reductions) /\ Samples(Reductions) # 0
         /\ DOMAIN Reductions = Compared
         /\ \A i \in Compared :
              /\ Reductions[i] \in Int
              /\ Reductions[i] > 0 => runs[i].after < runs[i].before
              /\ Reductions[i] < 0 => runs[i].after > runs[i].before
<1>1. \A i \in Compared : runs[i].before \in Nat \ {0} /\ runs[i].after \in Nat
  <2>1. \A i \in 1..Len(runs) : runs[i] \in Run
    BY ElementOfSeq DEF TypeOK
  <2>2. ASSUME NEW run \in Run PROVE run.before \in Nat /\ run.after \in Nat
    <3>1. run.before \in Calls /\ run.after \in Calls \cup {0}
      BY DEF Run
    <3>2. Calls \subseteq Nat /\ 0 \in Nat
      BY BenchmarkConstantsOK
    <3> QED
      BY <3>1, <3>2, Zenon
  <2> QED
    BY <2>1, <2>2 DEF Compared
<1>2. \A i \in Compared : Reductions[i] = Drop(runs[i].before, runs[i].after)
  BY DEF Reductions
<1>3. \A i \in Compared :
        /\ Reductions[i] \in Int
        /\ Reductions[i] > 0 => runs[i].after < runs[i].before
        /\ Reductions[i] < 0 => runs[i].after > runs[i].before
  BY <1>1, <1>2, DropSign
<1>4. IsFiniteSet(Compared) /\ Cardinality(Compared) # 0
  <2>1. Len(runs) \in Nat
    BY LenProperties DEF TypeOK
  <2>2. IsFiniteSet(1..Len(runs))
    BY <2>1, FS_Interval
  <2>3. IsFiniteSet(Compared)
    BY <2>2, FS_Subset DEF Compared
  <2> QED
    BY <2>3, FS_EmptySet
<1>5. DOMAIN Reductions = Compared
  BY DEF Reductions
<1>6. Reductions \in [Compared -> Int]
  BY <1>1, DropSign DEF Reductions
<1> QED
  BY <1>3, <1>4, <1>5, <1>6 DEF Family, Samples

\* The published headline lies between what repetitions measured, and claims a
\* reduction or an increase only if some repetition showed one (run_all.py:207-211,
\* 251-261), for any number of repetitions, measurements and faults.
THEOREM HeadlineEarned == Spec => []HeadlineIsEarned
<1>1. TypeOK => HeadlineIsEarned
  <2> SUFFICES ASSUME TypeOK, Compared # {} PROVE HeadlineIsEarned
    BY DEF HeadlineIsEarned
  <2> DEFINE headline == Median(Reductions)
             low == Nth(Reductions, 1)
             high == Highest(Reductions)
  <2>1. PICK i \in Compared : low = Reductions[i]
    BY ReductionFacts, MedianBetween
  <2>2. PICK j \in Compared : high = Reductions[j]
    BY ReductionFacts, MedianBetween
  <2>3. 100 * low <= headline /\ headline <= 100 * high /\ headline \in Int
    BY ReductionFacts, MedianBetween
  <2>4. low \in Int /\ high \in Int
    BY <2>1, <2>2, ReductionFacts
  <2> HIDE DEF headline, low, high
  <2>5. headline > 0 => high > 0
    BY <2>3, <2>4
  <2>6. headline < 0 => low < 0
    BY <2>3, <2>4
  <2>7. headline > 0 => \E k \in Compared : runs[k].after < runs[k].before
    BY <2>2, <2>5, ReductionFacts
  <2>8. headline < 0 => \E k \in Compared : runs[k].after > runs[k].before
    BY <2>1, <2>6, ReductionFacts
  <2> QED
    BY <2>3, <2>7, <2>8 DEF HeadlineIsEarned, headline, low, high
<1> QED
  BY <1>1, TypeCorrect, PTL
=============================================================================
