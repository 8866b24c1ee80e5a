------------------------------ MODULE Benchmark ------------------------------
(***************************************************************************)
(* bench/run_all.py: an orchestrator that measures the gateway twice per   *)
(* repetition, with caching and coalescing off (the control) and on (the   *)
(* treatment), over two mock providers, on three fixed ports.  It starts   *)
(* and stops the processes, but knows them only by the ports they answer   *)
(* on.  It may be invoked again after it ended or died.                    *)
(***************************************************************************)
EXTENDS Figures

CONSTANTS
  Repeat,       \* --repeat
  Invocations,  \* bound: how often the orchestrator is started
  Calls,        \* numbers of upstream calls a load may count
  Faults        \* what may go wrong: see FaultKinds

\* "start": a process exits at once; "raise": a scenario raises, or skips its
\* failover; "stubborn": a process outlives terminate() by 10 s; "flush": flush_redis
\* fails; "stranger": others hold some of the ports at first; "interrupt": the
\* orchestrator dies without its children.
FaultKinds == {"start", "raise", "stubborn", "flush", "stranger", "interrupt"}

ASSUME BenchmarkConstantsOK ==
  /\ Repeat \in Nat \ {0} /\ Invocations \in Nat
  /\ Calls \subseteq Nat
  /\ Faults \subseteq FaultKinds

Mocks == {"primary", "fallback"}
Ports == Mocks \cup {"gateway"}
Arms  == {"control", "treatment"}

VARIABLES
  pc,        \* where the orchestrator is
  launched,  \* invocations so far
  rep,       \* repetition under way
  arm,       \* half of it under way: what start_gateway asks for
  aborting,  \* an exception is on its way out, or the orchestrator died
  child,     \* the process this invocation last spawned for each port
  holder,    \* who is bound to the port
  late,      \* a process nobody will stop, before it binds: its arm, or "none"
  config,    \* the arm the gateway that holds its port was started for
  failing,   \* fail_rate of whoever is bound to the first mock's port is 1
  warm,      \* Redis holds payloads
  flushed,   \* flush_redis of this arm said "flushed"
  runs,      \* upstream calls of the control and of the treatment, by repetition
  measured,  \* history: the conditions of the last load, as a set of one
  stray      \* history: gateways this invocation did not spawn were about

procVars == <<child, holder, late, config, stray>>
dataVars == <<failing, warm, flushed, runs, measured>>
vars == <<pc, launched, rep, arm, aborting, procVars, dataVars>>

Places == {"idle", "primary", "fallback", "wait_primary", "wait_fallback",
           "flush", "spawn", "wait_gateway", "load", "failover", "restore",
           "stop_gateway", "stop_primary", "stop_fallback"}
Run == [before : Calls, after : Calls \cup {0}]
Row == [arm : Arms, config : Arms, warm : BOOLEAN, flushed : BOOLEAN,
        failing : BOOLEAN, own : BOOLEAN]

TypeOK ==
  /\ pc \in Places
  /\ launched \in 0..Invocations /\ rep \in 1..Repeat
  /\ arm \in Arms /\ aborting \in BOOLEAN
  /\ child \in [Ports -> {"none", "starting", "up", "exited"}]
  /\ holder \in [Ports -> {"none", "child", "stranger", "dying"}]
  /\ late \in [Ports -> Arms \cup {"none"}]
  /\ config \in Arms
  /\ failing \in BOOLEAN /\ warm \in BOOLEAN /\ flushed \in BOOLEAN
  /\ runs \in Seq(Run) /\ Len(runs) <= rep
  /\ measured \subseteq Row
  /\ stray \in BOOLEAN

\* A gateway others started caches and coalesces, which is the default.
Init ==
  /\ pc = "idle" /\ launched = 0 /\ rep = 1
  /\ arm = "control" /\ aborting = TRUE
  /\ child = [p \in Ports |-> "none"] /\ late = [p \in Ports |-> "none"]
  /\ \E taken \in IF "stranger" \in Faults THEN SUBSET Ports ELSE {{}} :
       /\ holder = [p \in Ports |-> IF p \in taken THEN "stranger" ELSE "none"]
       /\ stray = ("gateway" \in taken)
  /\ config = "treatment"
  /\ failing = FALSE /\ warm \in BOOLEAN /\ flushed = FALSE
  /\ runs = <<>> /\ measured = {}
-----------------------------------------------------------------------------
(* Processes and ports.                                                     *)

Free(p)    == holder[p] = "none"            \* port_free: nobody accepts
Answers(p) == holder[p] \in {"child", "stranger"}

Spawn(p) == /\ child' = [child EXCEPT ![p] = "starting"]
            /\ UNCHANGED <<holder, late, config, stray>>

\* The process binds the free port; a mock starts with fail_rate 0.
Bound(p, as, for) ==
  /\ holder' = [holder EXCEPT ![p] = as]
  /\ config' = IF p = "gateway" THEN for ELSE config
  /\ failing' = (failing /\ p # "primary")

\* A spawned server binds its port, or exits because it cannot.
Bind(p) ==
  /\ child[p] = "starting"
  /\ \/ Free(p) /\ Bound(p, "child", arm) /\ child' = [child EXCEPT ![p] = "up"]
     \/ /\ ~Free(p) \/ "start" \in Faults
        /\ child' = [child EXCEPT ![p] = "exited"]
        /\ UNCHANGED <<holder, config, failing>>
  /\ UNCHANGED <<pc, launched, rep, arm, aborting, late, stray, warm, flushed, runs,
                 measured>>

\* So does one whose orchestrator is gone.
BindLate(p) ==
  /\ late[p] # "none"
  /\ late' = [late EXCEPT ![p] = "none"]
  /\ \/ Free(p) /\ Bound(p, "stranger", late[p])
     \/ UNCHANGED <<holder, config, failing>>
  /\ UNCHANGED <<pc, launched, rep, arm, aborting, child, stray, warm, flushed, runs,
                 measured>>

\* stop: terminate, wait up to 10 s, then kill without waiting for the end.
StopSpares(p) ==
  /\ child' = [child EXCEPT ![p] = "none"]
  /\ holder' = [holder EXCEPT ![p] = IF @ = "child" THEN "stranger" ELSE @]
  /\ UNCHANGED <<late, config, stray>>
Stop(p) ==
  /\ child' = [child EXCEPT ![p] = "none"]
  /\ \E left \in {"none"} \cup (IF "stubborn" \in Faults THEN {"dying"} ELSE {}) :
       holder' = [holder EXCEPT ![p] = IF @ = "child" THEN left ELSE @]
  /\ UNCHANGED <<late, config, stray>>

\* A killed process is gone.
Reap(p) ==
  /\ holder[p] = "dying"
  /\ holder' = [holder EXCEPT ![p] = "none"]
  /\ UNCHANGED <<pc, launched, rep, arm, aborting, child, late, config, stray, dataVars>>

\* The children are nobody's any more.
Abandon ==
  /\ child' = [p \in Ports |-> "none"]
  /\ holder' = [p \in Ports |-> IF holder[p] = "child" THEN "stranger" ELSE holder[p]]
  /\ late' = [p \in Ports |-> IF child[p] = "starting" THEN arm ELSE late[p]]
  /\ stray' = (stray \/ child["gateway"] # "none")
  /\ UNCHANGED config
-----------------------------------------------------------------------------
(* The orchestrator.                                                        *)

Launch ==
  /\ pc = "idle" /\ launched < Invocations
  /\ pc' = "primary" /\ launched' = launched + 1
  /\ rep' = 1 /\ arm' = "control" /\ aborting' = FALSE
  /\ runs' = <<>>
  /\ UNCHANGED <<procVars, failing, warm, flushed, measured>>

Go(next) == pc' = next /\ UNCHANGED <<launched, rep, arm, aborting>>
Unwind(next) == pc' = next /\ aborting' = TRUE /\ UNCHANGED <<launched, rep, arm>>

\* if port_free(port): upstreams.append(spawn(...))
SpawnMock(p) ==
  /\ pc = p /\ p \in Mocks
  /\ Go(IF p = "primary" THEN "fallback" ELSE "wait_primary")
  /\ IF Free(p) THEN Spawn(p) ELSE UNCHANGED procVars
  /\ UNCHANGED dataVars

\* wait_http(/calls): whoever answers will do.  Otherwise RuntimeError, raised
\* before the `try` whose `finally` stops the mocks.
NeverTimesOut(p) == FALSE
TimesOut(p) == ~Answers(p)
WaitMock(p, next) ==
  /\ \/ Answers(p) /\ Go(next) /\ UNCHANGED procVars
     \/ TimesOut(p) /\ Unwind("idle") /\ Abandon
  /\ UNCHANGED dataVars

WaitMocks ==
  \/ pc = "wait_primary" /\ WaitMock("primary", "wait_fallback")
  \/ pc = "wait_fallback" /\ WaitMock("fallback", "flush")

Flush ==
  /\ pc = "flush"
  /\ Go("spawn")
  /\ flushed' \in (IF "flush" \in Faults THEN BOOLEAN ELSE {TRUE})
  /\ warm' = (warm /\ ~flushed')
  /\ UNCHANGED <<procVars, failing, runs, measured>>

\* start_gateway spawns without looking at the port ...
SpawnGateway ==
  /\ pc = "spawn"
  /\ Go("wait_gateway")
  /\ Spawn("gateway")
  /\ UNCHANGED dataVars

\* ... and takes whoever answers /health; otherwise stop(proc) and RuntimeError.
WaitGateway ==
  /\ pc = "wait_gateway"
  /\ \/ Answers("gateway") /\ Go("load") /\ UNCHANGED procVars
     \/ TimesOut("gateway") /\ Unwind("stop_primary") /\ Stop("gateway")
  /\ UNCHANGED dataVars

\* scenario_load and scenario_herd against whoever answers; a gateway that
\* caches fills Redis.
Load(n) ==
  /\ pc = "load"
  /\ measured' = {[arm |-> arm, config |-> config, warm |-> warm, flushed |-> flushed,
                   failing |-> failing, own |-> holder["primary"] = "child"]}
  /\ warm' = (warm \/ config = "treatment")
  /\ IF arm = "control"
     THEN Go("stop_gateway") /\ runs' = Append(runs, [before |-> n, after |-> 0])
     ELSE Go("failover") /\ runs' = [runs EXCEPT ![rep].after = n]
  /\ UNCHANGED <<procVars, failing, flushed>>

\* scenario_failover: the first mock fails everything, then nothing.  If telling it
\* to fails, the scenario is skipped, and the mock may have heard it.
Failover ==
  /\ \/ pc = "failover" /\ Go("restore") /\ failing' = TRUE
     \/ /\ pc = "failover" /\ "raise" \in Faults
        /\ Go("stop_gateway") /\ failing' \in {failing, TRUE}
     \/ pc = "restore" /\ Go("stop_gateway") /\ failing' = FALSE
  /\ UNCHANGED <<procVars, warm, flushed, runs, measured>>

\* A request of a scenario raises, anywhere in it: on to `finally: stop(gw)`.
UnwindPast == "stop_primary"
UnwindTo == "stop_gateway"
Raise ==
  /\ "raise" \in Faults /\ pc \in {"load", "failover", "restore"}
  /\ Unwind(UnwindTo)
  /\ failing' \in {failing, failing /\ pc # "restore"}
  /\ warm' \in {warm, warm \/ (pc = "load" /\ config = "treatment")}
  /\ UNCHANGED <<procVars, flushed, runs, measured>>

StopGateway ==
  /\ pc = "stop_gateway"
  /\ Stop("gateway")
  /\ IF ~aborting /\ arm = "control"
     THEN pc' = "flush" /\ arm' = "treatment" /\ UNCHANGED <<launched, rep, aborting>>
     ELSE Go("stop_primary")
  /\ UNCHANGED dataVars

\* finally: for p in upstreams: stop(p); then the next repetition, or the report.
LastTooLate == rep > Repeat
Last == rep = Repeat
StopMock(p) ==
  /\ p \in Mocks /\ pc = (IF p = "primary" THEN "stop_primary" ELSE "stop_fallback")
  /\ Stop(p)
  /\ IF p = "primary" THEN Go("stop_fallback")
     ELSE IF aborting \/ Last THEN Go("idle")
     ELSE /\ pc' = "primary" /\ rep' = rep + 1 /\ arm' = "control"
          /\ UNCHANGED <<launched, aborting>>
  /\ UNCHANGED dataVars

\* The orchestrator is killed, or interrupted where its children are not.
Interrupt ==
  /\ "interrupt" \in Faults /\ pc # "idle"
  /\ Unwind("idle")
  /\ Abandon
  /\ UNCHANGED dataVars

Rest == pc = "idle" /\ launched = Invocations /\ UNCHANGED vars
-----------------------------------------------------------------------------
Server == \E p \in Ports : Bind(p) \/ BindLate(p) \/ Reap(p)

Orchestrate ==
  \/ \E p \in Mocks : SpawnMock(p) \/ StopMock(p)
  \/ WaitMocks \/ Flush \/ SpawnGateway \/ WaitGateway
  \/ (\E n \in Calls : Load(n)) \/ Failover \/ Raise \/ StopGateway

Next == Launch \/ Orchestrate \/ Server \/ Interrupt \/ Rest

Spec == Init /\ [][Next]_vars

\* Its polls time out and its requests end, so the orchestrator goes on.
FairSpec == Spec /\ WF_vars(Orchestrate)
-----------------------------------------------------------------------------
(* Properties.                                                              *)

\* Unless gateways the invocation did not start are about, each load meets the
\* gateway its arm asked for, a flush that succeeded left nothing cached before
\* it, and a mock the invocation started is not one that an aborted or a skipped
\* failover left failing (run_all.py:4-6, 126-204).
LoadsAreClean ==
  \A m \in measured :
    /\ ~stray => m.config = m.arm
    /\ m.flushed /\ ~stray => ~m.warm
    /\ m.own => ~m.failing

\* However an invocation ends, short of being killed, it leaves no gateway of its
\* own behind to be measured by the next one (run_all.py:94-96, 172-173, 194-195).
NoGatewayOutlives ==
  pc = "idle" /\ ~stray => ~Answers("gateway") /\ child["gateway"] = "none"

\* The published summary: medians over the repetitions whose control counted calls
\* (run_all.py:207-211, 251-261).
Published == pc = "idle" /\ ~aborting
Compared == {i \in 1..Len(runs) : runs[i].before # 0}
Reductions == [i \in Compared |-> Drop(runs[i].before, runs[i].after)]

\* The headline is earned: it lies between what repetitions measured, claims a
\* reduction only if some repetition saved calls, and admits an increase only if
\* some repetition cost calls.
HeadlineIsEarned ==
  Published /\ Compared # {} =>
    LET headline == Median(Reductions)
    IN /\ 100 * Nth(Reductions, 1) <= headline /\ headline <= 100 * Highest(Reductions)
       /\ headline > 0 => \E i \in Compared : runs[i].after < runs[i].before
       /\ headline < 0 => \E i \in Compared : runs[i].after > runs[i].before

\* Whatever exits, hangs or is taken by others, an invocation ends: each wait for a
\* process has a timeout (run_all.py:38-47, 71-78).
InvocationEnds == pc # "idle" ~> pc = "idle"

\* What ARCHITECTURE.md:159-164 says: the orchestrator owns the life of the gateway,
\* so that a load is never measured on one left serving the port.
MeasuresItsOwn == \A m \in measured : m.config = m.arm
=============================================================================
