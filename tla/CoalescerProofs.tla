--------------------------- MODULE CoalescerProofs ---------------------------
(* Theorems about Coalescer, for any requests, keys, processes and timers.   *)
EXTENDS Coalescer, TLAPS

\* A request that has arrived has a process and a slot, while it is served one in
\* the store of its process.
Placed ==
  \A r \in Req : /\ pc[r] # "idle" => home[r] \in Process /\ key[r] \in Slot
                 /\ Active(r) => key[r][1] = StoreOf(home[r])

\* Only leaders reach the `finally` block.
DeletersLead == \A r \in Req : pc[r] = "delete" => role[r] = "leader"

\* A request that has not arrived has done nothing.
Fresh == \A r \in Req : pc[r] = "idle" => key[r] = None /\ r \notin fetched

\* Only a request past its upstream call has a completion of its own.
FetchedLate ==
  \A r \in Req : /\ r \in fetched => pc[r] \in {"put", "delete", "done", "dead"}
                 /\ pc[r] = "put" => r \in fetched

\* A cached payload was fetched by a request for the key it is stored under.
CacheHonest ==
  \A k \in Slot : cache[k] # None => cache[k] \in fetched /\ key[cache[k]] = k

\* What a leader answers is settled before it deletes the lock.
Settled ==
  \A r \in Req : pc[r] = "delete" =>
    answer[r] \in (IF r \in fetched THEN {r, "error"} ELSE {"unavailable"})

Shape == TypeOK /\ Placed
LockInv == Shape /\ DeletersLead /\ LeaderHoldsLock
PayloadInv == Shape /\ Fresh /\ FetchedLate /\ CacheHonest /\ Settled
-----------------------------------------------------------------------------
LEMMA LockRecords ==
  /\ Free \in Locks
  /\ \A r \in Req : Held(r) \in Locks
  /\ \A l \in Locks : Aged(l) \in Locks
BY ConstantsOK DEF Free, Held, Locks, Aged

LEMMA ShapeInit == Init => Shape
<1> SUFFICES ASSUME Init PROVE Shape
  OBVIOUS
<1>1. lock \in [Slot -> Locks] /\ wait \in [Req -> 0..WaitLimit]
  BY ConstantsOK, LockRecords DEF Init
<1>2. backend \in [Process -> {"redis", "memory"}]
  BY ConstantsOK DEF Init
<1>3. Placed
  BY DEF Init, Placed, Active
<1> QED
  BY <1>1, <1>2, <1>3 DEF Init, Shape, TypeOK, Labels

\* A request that has arrived and runs on to a label keeps the shape of what
\* control consists of: pc, the loops and where requests are placed.
Control ==
  /\ pc \in [Req -> Labels] /\ running \in [Process -> Req \cup {None}]
  /\ backend \in [Process -> {"redis", "memory"}]
  /\ Placed

LEMMA PlacedKept ==
  ASSUME Placed, UNCHANGED <<pc, home, key, backend>> PROVE Placed'
BY DEF Placed, Active, StoreOf, OnRedis

LEMMA GotoControl ==
  ASSUME Shape, NEW r \in Req, NEW label \in Labels, Goto(r, label),
         Active(r), UNCHANGED <<home, key>>
  PROVE  Control'
<1>1. /\ pc' = [pc EXCEPT ![r] = label] /\ UNCHANGED backend
      /\ \E q \in {None, r} : running' = [running EXCEPT ![home[r]] = q]
  BY DEF Goto, Resume
<1>2. home[r] \in Process
  BY DEF Shape, Placed, Active
<1>3. /\ pc' \in [Req -> Labels] /\ running' \in [Process -> Req \cup {None}]
      /\ backend' \in [Process -> {"redis", "memory"}]
  BY <1>1, <1>2 DEF Shape, TypeOK
<1>4. /\ \A s \in Req : pc'[s] # "idle" => pc[s] # "idle"
      /\ \A s \in Req : Active(s)' => Active(s)
      /\ \A s \in Req : StoreOf(home[s])' = StoreOf(home[s])
  BY <1>1 DEF Shape, TypeOK, Active, StoreOf, OnRedis
<1> QED
  BY <1>3, <1>4 DEF Control, Shape, Placed

LEMMA CallTypes ==
  ASSUME Shape, NEW r \in Req, NEW as \in {"leader", "direct"}, Call(r, as),
         Active(r), UNCHANGED <<home, key>>
  PROVE  /\ Control'
         /\ role' \in [Req -> {None, "leader", "follower", "direct"}]
         /\ leaderCalls' \in [Process -> Nat]
<1>1. Goto(r, "upstream") /\ "upstream" \in Labels
  BY DEF Call, Labels
<1>2. Control'
  BY <1>1, GotoControl
<1>3. home[r] \in Process
  BY DEF Shape, Placed, Active
<1>4. leaderCalls' \in [Process -> Nat]
  <2>1. leaderCalls \in [Process -> Nat] /\ leaderCalls[home[r]] + 1 \in Nat
    BY <1>3 DEF Shape, TypeOK
  <2> QED
    BY <2>1 DEF Call
<1>5. role' \in [Req -> {None, "leader", "follower", "direct"}]
  BY DEF Call, Shape, TypeOK
<1> QED
  BY <1>2, <1>4, <1>5

LEMMA FinishTypes ==
  ASSUME Shape, NEW r \in Req, NEW a \in Req \cup Errors, Finish(r, a),
         Active(r), UNCHANGED <<home, key>>
  PROVE  Control' /\ answer' \in [Req -> Req \cup Errors \cup {None}]
<1>1. PICK label \in {"delete", "done"} : Goto(r, label)
  BY DEF Finish
<1>2. label \in Labels
  BY DEF Labels
<1>3. Control'
  BY <1>1, <1>2, GotoControl
<1> QED
  BY <1>3 DEF Finish, Shape, TypeOK

LEMMA ShapeStep == Shape /\ [Next]_vars => Shape'
<1> SUFFICES ASSUME Shape, [Next]_vars PROVE Shape'
  OBVIOUS
<1>0. {"lookup", "setnx", "upstream", "put", "delete", "poll", "check", "done"}
        \subseteq Labels \ {"idle"}
  BY DEF Labels
<1>1. ASSUME NEW r \in Req, NEW p \in Process, NEW k \in Key, Arrive(r, p, k) PROVE Shape'
  <2>1. /\ pc' = [pc EXCEPT ![r] = "lookup"] /\ home' = [home EXCEPT ![r] = p]
        /\ key' = [key EXCEPT ![r] = <<StoreOf(p), k>>] /\ UNCHANGED backend
        /\ \E q \in {None, r} : running' = [running EXCEPT ![p] = q]
    BY <1>1 DEF Arrive, Resume
  <2>2. <<StoreOf(p), k>> \in Slot
    BY DEF Slot, Store, StoreOf
  <2>3. Placed'
    <3>1. /\ home'[r] = p /\ key'[r] = <<StoreOf(p), k>>
          /\ \A s \in Req \ {r} : /\ home'[s] = home[s] /\ key'[s] = key[s]
                                 /\ pc'[s] = pc[s]
      BY <2>1 DEF Shape, TypeOK
    <3> QED
      BY <2>1, <2>2, <3>1 DEF Shape, Placed, Active, StoreOf, OnRedis
  <2> QED
    BY <1>0, <1>1, <2>1, <2>2, <2>3 DEF Arrive, Shape, TypeOK
<1>2. ASSUME NEW r \in Req, Lookup(r) PROVE Shape'
  <2>1. Active(r) /\ key[r] \in Slot /\ UNCHANGED <<home, key>>
    BY <1>2 DEF Active, Lookup, Shape, Placed
  <2>2. CASE Hit(r)
    <3>1. Goto(r, "done")
      BY <1>2, <2>2 DEF Lookup
    <3>2. Control'
      BY <1>0, <2>1, <3>1, GotoControl
    <3> QED
      BY <1>2, <2>1, <2>2, <3>2 DEF Lookup, Hit, Shape, TypeOK, Control
  <2>3. CASE ~Hit(r) /\ home[r] \in Coalescing
    <3>1. Goto(r, "setnx")
      BY <1>2, <2>3 DEF Lookup
    <3>2. Control'
      BY <1>0, <2>1, <3>1, GotoControl
    <3> QED
      BY <1>2, <2>3, <3>2 DEF Lookup, Shape, TypeOK, Control
  <2>4. CASE ~Hit(r) /\ home[r] \notin Coalescing
    <3>1. Call(r, "direct")
      BY <1>2, <2>4 DEF Lookup
    <3> QED
      BY <1>2, <2>1, <2>4, <3>1, CallTypes DEF Lookup, Shape, TypeOK, Control
  <2> QED
    BY <1>2, <2>2, <2>3, <2>4 DEF Lookup
<1>3. ASSUME NEW r \in Req, SetNX(r) PROVE Shape'
  <2>1. Active(r) /\ key[r] \in Slot /\ UNCHANGED <<home, key>>
    BY <1>3 DEF Active, SetNX, Shape, Placed
  <2>2. CASE Acquirable(key[r])
    <3>1. Call(r, "leader")
      BY <1>3, <2>2 DEF SetNX
    <3>2. lock' \in [Slot -> Locks]
      BY <1>3, <2>2, LockRecords DEF SetNX, Shape, TypeOK
    <3> QED
      BY <1>3, <2>1, <2>2, <3>1, <3>2, CallTypes DEF SetNX, Shape, TypeOK, Control
  <2>3. CASE ~Acquirable(key[r])
    <3>1. Goto(r, "poll")
      BY <1>3, <2>3 DEF SetNX
    <3>2. Control'
      BY <1>0, <2>1, <3>1, GotoControl
    <3>3. wait' \in [Req -> 0..WaitLimit]
      BY <1>3, <2>3, ConstantsOK DEF SetNX, Shape, TypeOK
    <3> QED
      BY <1>3, <2>3, <3>2, <3>3 DEF SetNX, Shape, TypeOK, Control
  <2> QED
    BY <2>2, <2>3
<1>4. ASSUME NEW r \in Req, UpstreamOk(r) PROVE Shape'
  <2>1. Active(r) /\ UNCHANGED <<home, key>>
    BY <1>4 DEF Active, UpstreamOk
  <2>2. CASE home[r] \in Caching
    <3>1. Goto(r, "put")
      BY <1>4, <2>2 DEF UpstreamOk
    <3>2. Control'
      BY <1>0, <2>1, <3>1, GotoControl
    <3> QED
      BY <1>4, <2>2, <3>2 DEF UpstreamOk, Shape, TypeOK, Control
  <2>3. CASE home[r] \notin Caching
    <3>1. Finish(r, r)
      BY <1>4, <2>3 DEF UpstreamOk
    <3> QED
      BY <1>4, <2>1, <3>1, FinishTypes DEF UpstreamOk, Shape, TypeOK, Control
  <2> QED
    BY <2>2, <2>3
<1>5. ASSUME NEW r \in Req, UpstreamRaises(r) PROVE Shape'
  <2>1. /\ Active(r) /\ UNCHANGED <<home, key>>
        /\ Finish(r, "unavailable") /\ "unavailable" \in Errors
    BY <1>5 DEF Active, UpstreamRaises, Errors
  <2> QED
    BY <1>5, <2>1, FinishTypes DEF UpstreamRaises, Shape, TypeOK, Control
<1>6. ASSUME NEW r \in Req, Put(r) PROVE Shape'
  <2>1. Active(r) /\ UNCHANGED <<home, key>> /\ Finish(r, r)
    BY <1>6 DEF Active, Put
  <2> QED
    BY <1>6, <2>1, FinishTypes DEF Put, Shape, TypeOK, Control
<1>7. ASSUME NEW r \in Req, Delete(r) PROVE Shape'
  <2>1. Active(r) /\ UNCHANGED <<home, key>> /\ Goto(r, "done")
    BY <1>7 DEF Active, Delete
  <2>2. Control'
    BY <1>0, <2>1, GotoControl
  <2>3. lock' \in [Slot -> Locks]
    BY <1>7, LockRecords DEF Delete, Shape, TypeOK
  <2> QED
    BY <1>7, <2>2, <2>3 DEF Delete, Shape, TypeOK, Control
<1>8. ASSUME NEW r \in Req, Poll(r) PROVE Shape'
  <2>1. /\ Active(r) /\ home[r] \in Process /\ key[r] \in Slot
        /\ UNCHANGED <<home, key>>
        /\ \E label \in {"done", "check"} : Goto(r, label)
    BY <1>8 DEF Active, Poll, Shape, Placed
  <2>2. Control'
    BY <1>0, <2>1, GotoControl
  <2>3. CASE Hit(r)
    BY <1>8, <2>1, <2>2, <2>3 DEF Poll, Hit, Shape, TypeOK, Control
  <2>4. CASE ~Hit(r)
    BY <1>8, <2>2, <2>4 DEF Poll, Shape, TypeOK, Control
  <2> QED
    BY <2>3, <2>4
<1>9. ASSUME NEW r \in Req, Check(r) PROVE Shape'
  <2>1. Active(r) /\ UNCHANGED <<home, key>>
    BY <1>9 DEF Active, Check
  <2>2. CASE GivesUp(r)
    <3>1. Call(r, "direct")
      BY <1>9, <2>2 DEF Check
    <3> QED
      BY <1>9, <2>1, <3>1, CallTypes DEF Check, Shape, TypeOK, Control
  <2>3. CASE ~GivesUp(r)
    <3>1. Goto(r, "poll")
      BY <1>9, <2>3 DEF Check
    <3>2. Control'
      BY <1>0, <2>1, <3>1, GotoControl
    <3> QED
      BY <1>9, <2>3, <3>2 DEF Check, Shape, TypeOK, Control
  <2> QED
    BY <2>2, <2>3
<1>10. ASSUME NEW r \in Req, StoreRaises(r) PROVE Shape'
  <2>1. Active(r) /\ UNCHANGED <<home, key>>
    BY <1>10 DEF Active, StoreRaises
  <2>2. lock' \in [Slot -> Locks] /\ cache' \in [Slot -> Req \cup {None}]
    BY <1>10, LockRecords DEF StoreRaises, Shape, TypeOK
  <2>3. Control' /\ answer' \in [Req -> Req \cup Errors \cup {None}]
    <3>1. CASE pc[r] = "put"
      <4>1. Finish(r, "error") /\ "error" \in Errors
        BY <1>10, <3>1 DEF StoreRaises, Errors
      <4> QED
        BY <2>1, <4>1, FinishTypes
    <3>2. CASE pc[r] # "put"
      <4>1. Goto(r, "done") /\ answer' = [answer EXCEPT ![r] = "error"]
        BY <1>10, <3>2 DEF StoreRaises
      <4>2. Control'
        BY <1>0, <2>1, <4>1, GotoControl
      <4> QED
        BY <4>1, <4>2 DEF Shape, TypeOK, Errors
    <3> QED
      BY <3>1, <3>2
  <2> QED
    BY <1>10, <2>2, <2>3 DEF StoreRaises, Shape, TypeOK, Control
<1>11. ASSUME NEW p \in Process, Crash(p) PROVE Shape'
  <2>1. PICK b \in Backends : backend' = [backend EXCEPT ![p] = b]
    BY <1>11 DEF Crash
  <2>2. /\ pc' = [r \in Req |-> IF home[r] = p /\ Active(r) THEN "dead" ELSE pc[r]]
        /\ UNCHANGED <<home, key>>
    BY <1>11 DEF Crash
  <2>3. pc' \in [Req -> Labels] /\ backend' \in [Process -> {"redis", "memory"}]
    BY <2>1, <2>2, ConstantsOK DEF Shape, TypeOK, Labels
  <2>4. Placed'
    <3>1. ASSUME NEW r \in Req, Active(r)'
          PROVE  Active(r) /\ home[r] # p /\ home[r] \in Process
      BY <2>2, <3>1 DEF Active, Shape, Placed
    <3>2. ASSUME NEW q \in Process, q # p PROVE StoreOf(q)' = StoreOf(q)
      BY <2>1, <3>2 DEF StoreOf, OnRedis, Shape, TypeOK
    <3>3. \A r \in Req : pc'[r] # "idle" => pc[r] # "idle"
      BY <2>2 DEF Active
    <3> QED
      BY <2>2, <3>1, <3>2, <3>3 DEF Shape, Placed
  <2>5. /\ lock' \in [Slot -> Locks] /\ cache' \in [Slot -> Req \cup {None}]
        /\ running' \in [Process -> Req \cup {None}]
    BY <1>11, LockRecords DEF Crash, Shape, TypeOK
  <2> QED
    BY <1>11, <2>3, <2>4, <2>5 DEF Crash, Shape, TypeOK
<1>12. CASE \E k \in Slot : Expire(k)
  BY <1>12, PlacedKept DEF Expire, Shape, TypeOK
<1>13. CASE Tick
  <2>1. lock' \in [Slot -> Locks]
    BY <1>13, LockRecords DEF Tick, Shape, TypeOK
  <2>2. wait' \in [Req -> 0..WaitLimit]
    BY <1>13, ConstantsOK DEF Tick, Shape, TypeOK
  <2> QED
    BY <1>13, <2>1, <2>2, PlacedKept DEF Tick, Shape, TypeOK
<1>14. CASE UNCHANGED vars
  BY <1>14, PlacedKept DEF vars, Shape, TypeOK
<1> QED
  BY <1>1, <1>2, <1>3, <1>4, <1>5, <1>6, <1>7, <1>8, <1>9, <1>10, <1>11,
     <1>12, <1>13, <1>14 DEF Next, Step, Quiet

\* Every variable keeps its type whatever the interleaving of requests, timers
\* and failures (Coalescer.run and main.complete over either store).
THEOREM TypeCorrect == Spec => []TypeOK
<1>1. Shape => TypeOK
  BY DEF Shape
<1> QED
  BY <1>1, ShapeInit, ShapeStep, PTL DEF Spec
-----------------------------------------------------------------------------
(* Leaders and their locks.                                                 *)

\* What holds of leaders and locks survives a step that makes no new leader and
\* leaves the locks alone.
LEMMA NoNewLeader ==
  ASSUME LeaderHoldsLock, UNCHANGED <<lock, lapsed>>,
         \A s \in Req : Leading(s)' => Leading(s) /\ key'[s] = key[s]
  PROVE  LeaderHoldsLock'
BY DEF LeaderHoldsLock

\* While no lock of key k lapsed, a free lock means no leader of k is at work.
LEMMA FreeMeansNoLeader ==
  ASSUME LockInv, NEW r \in Req, Acquirable(key[r]), key[r] \notin lapsed
  PROVE  \A s \in Req : Leading(s) => key[s] # key[r]
BY DEF LockInv, LeaderHoldsLock, Acquirable

LEMMA LockStep == LockInv /\ [Next]_vars => LockInv'
<1> SUFFICES ASSUME LockInv, [Next]_vars PROVE (DeletersLead /\ LeaderHoldsLock)'
  BY ShapeStep DEF LockInv
<1>0. /\ pc \in [Req -> Labels] /\ role \in [Req -> {None, "leader", "follower", "direct"}]
      /\ key \in [Req -> Slot \cup {None}] /\ lock \in [Slot -> Locks]
      /\ DeletersLead /\ LeaderHoldsLock
      /\ \A r \in Req : pc[r] # "idle" => key[r] \in Slot
  BY DEF LockInv, Shape, TypeOK, Placed
<1>1. CASE \E r \in Req, p \in Process, k \in Key : Arrive(r, p, k)
  BY <1>0, <1>1, NoNewLeader DEF Arrive, Goto, Resume, Leading, DeletersLead
<1>2. ASSUME NEW r \in Req, Lookup(r) PROVE (DeletersLead /\ LeaderHoldsLock)'
  BY <1>0, <1>2, NoNewLeader DEF Lookup, Call, Goto, Resume, Leading, DeletersLead
<1>3. ASSUME NEW r \in Req, SetNX(r) PROVE (DeletersLead /\ LeaderHoldsLock)'
  <2>1. CASE Acquirable(key[r])
    <3>1. /\ pc' = [pc EXCEPT ![r] = "upstream"] /\ role' = [role EXCEPT ![r] = "leader"]
          /\ lock' = [lock EXCEPT ![key[r]] = Held(r)] /\ UNCHANGED <<key, lapsed>>
          /\ key[r] \in Slot
      BY <1>0, <1>3, <2>1 DEF SetNX, Call, Goto, Resume
    <3>2. \A s \in Req \ {r} : Leading(s)' => Leading(s)
      BY <1>0, <3>1 DEF Leading
    <3>3. Held(r).by = r /\ Held(r).ttl > 0
      BY ConstantsOK DEF Held
    <3>4. LeaderHoldsLock'
      BY <1>0, <2>1, <3>1, <3>2, <3>3, FreeMeansNoLeader DEF LeaderHoldsLock
    <3> QED
      BY <1>0, <3>1, <3>4 DEF DeletersLead
  <2>2. CASE ~Acquirable(key[r])
    BY <1>0, <1>3, <2>2, NoNewLeader DEF SetNX, Goto, Resume, Leading, DeletersLead
  <2> QED
    BY <2>1, <2>2
<1>4. ASSUME NEW r \in Req, UpstreamOk(r) PROVE (DeletersLead /\ LeaderHoldsLock)'
  BY <1>0, <1>4, NoNewLeader DEF UpstreamOk, Finish, Goto, Resume, Leading, DeletersLead
<1>5. ASSUME NEW r \in Req, UpstreamRaises(r) PROVE (DeletersLead /\ LeaderHoldsLock)'
  BY <1>0, <1>5, NoNewLeader DEF UpstreamRaises, Finish, Goto, Resume, Leading, DeletersLead
<1>6. ASSUME NEW r \in Req, Put(r) PROVE (DeletersLead /\ LeaderHoldsLock)'
  BY <1>0, <1>6, NoNewLeader DEF Put, Finish, Goto, Resume, Leading, DeletersLead
<1>7. ASSUME NEW r \in Req, pc[r] = "delete", pc' = [pc EXCEPT ![r] = "done"],
             lock' = [lock EXCEPT ![key[r]] = Free], UNCHANGED <<key, role, lapsed>>
      PROVE (DeletersLead /\ LeaderHoldsLock)'
  <2>1. Leading(r) /\ ~Leading(r)' /\ key[r] \in Slot
    BY <1>0, <1>7 DEF Leading, DeletersLead
  <2>2. \A s \in Req \ {r} : Leading(s)' => Leading(s)
    BY <1>0, <1>7 DEF Leading
  <2>3. ASSUME NEW s \in Req, Leading(s)', key[s] \notin lapsed
        PROVE  key[s] # key[r] /\ lock[key[s]].by = s /\ lock[key[s]].ttl > 0
    BY <1>0, <2>1, <2>2, <2>3 DEF LeaderHoldsLock
  <2>4. LeaderHoldsLock'
    BY <1>0, <1>7, <2>3 DEF LeaderHoldsLock
  <2> QED
    BY <1>0, <1>7, <2>4 DEF DeletersLead
<1>8. ASSUME NEW r \in Req, Delete(r) PROVE (DeletersLead /\ LeaderHoldsLock)'
  BY <1>7, <1>8 DEF Delete, Goto, Resume
<1>9. ASSUME NEW r \in Req, Poll(r) PROVE (DeletersLead /\ LeaderHoldsLock)'
  BY <1>0, <1>9, NoNewLeader DEF Poll, Goto, Resume, Leading, DeletersLead
<1>10. ASSUME NEW r \in Req, Check(r) PROVE (DeletersLead /\ LeaderHoldsLock)'
  BY <1>0, <1>10, NoNewLeader DEF Check, Call, Goto, Resume, Leading, DeletersLead
<1>11. ASSUME NEW r \in Req, StoreRaises(r) PROVE (DeletersLead /\ LeaderHoldsLock)'
  <2>1. /\ pc' = [pc EXCEPT ![r] = IF pc[r] = "put" /\ role[r] = "leader"
                                   THEN "delete" ELSE "done"]
        /\ UNCHANGED <<key, role, lapsed>> /\ key[r] \in Slot
    BY <1>0, <1>11 DEF StoreRaises, Finish, Goto, Resume
  <2>2. DeletersLead' /\ \A s \in Req : Leading(s)' => Leading(s)
    BY <1>0, <2>1 DEF DeletersLead, Leading
  <2>3. CASE UNCHANGED lock
    BY <1>0, <2>1, <2>2, <2>3, NoNewLeader
  <2>4. CASE pc[r] = "setnx" /\ Acquirable(key[r]) /\ lock' = [lock EXCEPT ![key[r]] = Held(r)]
    <3>1. \A s \in Req : Leading(s) /\ key[r] \notin lapsed => key[s] # key[r]
      BY <2>4, FreeMeansNoLeader
    <3> QED
      BY <1>0, <2>1, <2>2, <2>4, <3>1 DEF LeaderHoldsLock
  <2>5. CASE pc[r] = "delete" /\ lock' = [lock EXCEPT ![key[r]] = Free]
    BY <1>7, <2>1, <2>5
  <2> QED
    BY <1>11, <2>3, <2>4, <2>5 DEF StoreRaises
<1>12. ASSUME NEW p \in Process, Crash(p) PROVE (DeletersLead /\ LeaderHoldsLock)'
  <2>1. /\ UNCHANGED <<key, role, lapsed>>
        /\ DeletersLead' /\ \A s \in Req : Leading(s)' => Leading(s) /\ ~(home[s] = p /\ Active(s))
    BY <1>0, <1>12 DEF Crash, DeletersLead, Leading
  <2>2. ASSUME NEW s \in Req, Leading(s)' PROVE lock'[key[s]] = lock[key[s]]
    <3>1. Active(s) /\ home[s] # p /\ home[s] \in Process
      BY <2>1, <2>2 DEF LockInv, Shape, Placed, Leading, Active
    <3>2. key[s] \in Slot /\ key[s][1] # p
      BY <3>1, ConstantsOK DEF LockInv, Shape, Placed, StoreOf, Active
    <3>3. lock' = [k \in Slot |-> IF k[1] = p THEN Free ELSE lock[k]]
      BY <1>12 DEF Crash
    <3> QED
      BY <3>2, <3>3
  <2> QED
    BY <1>0, <2>1, <2>2 DEF LeaderHoldsLock
<1>13. CASE \E k \in Slot : Expire(k)
  BY <1>0, <1>13, NoNewLeader DEF Expire, Leading, DeletersLead
<1>14. CASE Tick
  <2>1. /\ UNCHANGED <<pc, key, role>> /\ lapsed \subseteq lapsed'
        /\ DeletersLead' /\ \A s \in Req : Leading(s)' <=> Leading(s)
    BY <1>0, <1>14 DEF Tick, DeletersLead, Leading
  <2>2. ASSUME NEW s \in Req, Leading(s), key[s] \notin lapsed'
        PROVE  lock'[key[s]].by = s /\ lock'[key[s]].ttl > 0
    <3>1. key[s] \in Slot /\ lock[key[s]].by = s /\ lock[key[s]].ttl > 0
      BY <1>0, <2>1, <2>2 DEF LeaderHoldsLock, Leading
    <3>2. lock[key[s]].ttl # 1
      BY <1>14, <2>2, <3>1 DEF Tick
    <3>3. lock'[key[s]] = Aged(lock[key[s]])
      BY <1>14, <3>1 DEF Tick
    <3>4. lock[key[s]] \in Locks
      BY <1>0, <3>1
    <3> QED
      BY <3>1, <3>2, <3>3, <3>4 DEF Aged, Locks
  <2> QED
    BY <2>1, <2>2 DEF LeaderHoldsLock
<1>15. CASE UNCHANGED vars
  BY <1>0, <1>15, NoNewLeader DEF vars, Leading, DeletersLead
<1> QED
  BY <1>1, <1>2, <1>3, <1>4, <1>5, <1>6, <1>8, <1>9, <1>10, <1>11, <1>12,
     <1>13, <1>14, <1>15 DEF Next, Step, Quiet

LEMMA LockInvariant == Spec => []LockInv
<1>1. Init => LockInv
  BY ShapeInit DEF Init, LockInv, DeletersLead, LeaderHoldsLock, Leading
<1> QED
  BY <1>1, LockStep, PTL DEF Spec

\* Unless a lock of the key expired under a working leader, a leader holds its
\* lock until its own `finally` deletes it (coalesce.py:43-53).
THEOREM LockSafety == Spec => []LeaderHoldsLock
<1>1. LockInv => LeaderHoldsLock
  BY DEF LockInv
<1> QED
  BY <1>1, LockInvariant, PTL

\* Hence the claim of coalesce.py:5-6 for every key with no such expiry: one
\* leader at a time, whatever requests, crashes and failing store calls do.
OneLeader ==
  \A r, s \in Req : Leading(r) /\ Leading(s) /\ key[r] = key[s] /\ key[r] \notin lapsed
                   => r = s

THEOREM LeadersExclude == Spec => []OneLeader
<1>1. LockInv => OneLeader
  BY DEF LockInv, LeaderHoldsLock, OneLeader
<1> QED
  BY <1>1, LockInvariant, PTL
-----------------------------------------------------------------------------
(* The event loop of a process on its own memory.                           *)

\* A request that does not wait for the provider, a timer or the end has the loop.
OwnsLoop ==
  \A r \in Req : Active(r) /\ ~OnRedis(home[r]) /\ pc[r] \notin Suspended =>
    running[home[r]] = r

\* So what it found missing is missing until it acts on that.
Missed ==
  \A r \in Req : pc[r] \in {"setnx", "check"} /\ ~OnRedis(home[r]) => ~Hit(r)

\* Who leads, or is about to try, coalesces; who waits is a follower.
RolesFit ==
  \A r \in Req : /\ pc[r] = "setnx" \/ Leading(r) => home[r] \in Coalescing
                 /\ pc[r] \in {"poll", "check"} => role[r] = "follower"

LoopInv == LockInv /\ OwnsLoop /\ Missed /\ RolesFit

\* Requests with one slot in the memory of a process are served by that process.
LEMMA OneHome ==
  ASSUME Shape, NEW r \in Req, NEW s \in Req, Active(r), Active(s),
         ~OnRedis(home[r]), key[s] = key[r]
  PROVE  home[s] = home[r]
<1>1. home[r] \in Process /\ key[r][1] = home[r]
  BY DEF Shape, Placed, Active, StoreOf
<1>2. key[s][1] \in {Redis, home[s]}
  BY DEF Shape, Placed, StoreOf
<1> QED
  BY <1>1, <1>2, ConstantsOK

\* A request that has the loop keeps it from the others of its process.
LEMMA LoopKept ==
  ASSUME Shape, OwnsLoop, NEW r \in Req, NEW p \in Process, NEW label,
         Resume(r, p, label), home'[r] = p, \A s \in Req \ {r} : home'[s] = home[s]
  PROVE  OwnsLoop'
<1>1. /\ pc' = [pc EXCEPT ![r] = label] /\ UNCHANGED backend
      /\ running' = [running EXCEPT ![p] =
                       IF OnRedis(p) \/ label \in Suspended THEN None ELSE r]
      /\ OnRedis(p) \/ running[p] \in {None, r}
  BY DEF Resume
<1>2. /\ pc \in [Req -> Labels] /\ running \in [Process -> Req \cup {None}]
  BY DEF Shape, TypeOK
<1> SUFFICES ASSUME NEW s \in Req, Active(s)', ~OnRedis(home[s])', pc'[s] \notin Suspended
             PROVE  running'[home'[s]] = s
  BY DEF OwnsLoop, Suspended
<1>3. CASE s = r
  BY <1>1, <1>2, <1>3 DEF OnRedis
<1>4. CASE s # r
  <2>1. home'[s] = home[s] /\ pc'[s] = pc[s] /\ Active(s) /\ ~OnRedis(home[s])
    BY <1>1, <1>2, <1>4 DEF Active, OnRedis
  <2>2. running[home[s]] = s
    BY <1>1, <1>2, <2>1, <1>4 DEF OwnsLoop
  <2>3. home[s] # p
    BY <1>1, <2>1, <2>2, <1>4, ConstantsOK
  <2> QED
    BY <1>1, <2>1, <2>2, <2>3
<1> QED
  BY <1>3, <1>4

\* What is missing stays so while another request runs on without storing a payload.
LEMMA MissedKept ==
  ASSUME Shape, Missed, NEW r \in Req, UNCHANGED <<cache, backend>>,
         \A s \in Req \ {r} : pc'[s] = pc[s] /\ home'[s] = home[s] /\ key'[s] = key[s],
         pc'[r] \in {"setnx", "check"} => ~Hit(r) /\ UNCHANGED <<home, key>>
  PROVE  Missed'
BY DEF Missed, Hit, OnRedis

\* A request that stores a payload shuts out those that missed it.
LEMMA MissedThroughPut ==
  ASSUME Shape, OwnsLoop, Missed, NEW r \in Req, pc[r] = "put",
         NEW label \in {"delete", "done"}, Goto(r, label),
         cache' = [cache EXCEPT ![key[r]] = r] \/ UNCHANGED cache,
         UNCHANGED <<home, key>>
  PROVE  Missed'
<1>1. /\ pc' = [pc EXCEPT ![r] = label] /\ UNCHANGED backend
      /\ OnRedis(home[r]) \/ running[home[r]] \in {None, r}
  BY DEF Goto, Resume
<1>2. /\ pc \in [Req -> Labels] /\ cache \in [Slot -> Req \cup {None}]
      /\ \A s \in Req : pc[s] # "idle" => key[s] \in Slot
  BY DEF Shape, TypeOK, Placed
<1> SUFFICES ASSUME NEW s \in Req, pc'[s] \in {"setnx", "check"}, ~OnRedis(home[s])
             PROVE  ~Hit(s)'
  BY <1>1 DEF Missed, OnRedis
<1>3. s # r /\ pc[s] = pc'[s] /\ ~Hit(s) /\ Active(s) /\ Active(r)
  BY <1>1, <1>2 DEF Missed, Active
<1>4. running[home[s]] = s
  BY <1>1, <1>3 DEF OwnsLoop, Suspended
<1>5. key[s] # key[r]
  BY <1>1, <1>3, <1>4, OneHome, ConstantsOK
<1>6. cache'[key[s]] = cache[key[s]]
  BY <1>2, <1>3, <1>5 DEF Active
<1> QED
  BY <1>3, <1>6 DEF Hit

LEMMA LoopStep == LoopInv /\ [Next]_vars => LoopInv'
<1> SUFFICES ASSUME LoopInv, [Next]_vars PROVE (OwnsLoop /\ Missed /\ RolesFit)'
  BY LockStep DEF LoopInv
<1>0. /\ pc \in [Req -> Labels] /\ role \in [Req -> {None, "leader", "follower", "direct"}]
      /\ key \in [Req -> Slot \cup {None}] /\ home \in [Req -> Process \cup {None}]
      /\ Shape /\ OwnsLoop /\ Missed /\ RolesFit
      /\ \A r \in Req : pc[r] # "idle" => home[r] \in Process
  BY DEF LoopInv, LockInv, Shape, TypeOK, Placed
<1>a. ASSUME NEW r \in Req, NEW label, Goto(r, label), pc[r] # "idle", UNCHANGED home
      PROVE  OwnsLoop' /\ pc' = [pc EXCEPT ![r] = label] /\ UNCHANGED backend
  BY <1>0, <1>a, LoopKept DEF Goto, Resume
<1>1. ASSUME NEW r \in Req, NEW p \in Process, NEW k \in Key, Arrive(r, p, k)
      PROVE  (OwnsLoop /\ Missed /\ RolesFit)'
  <2>1. /\ pc' = [pc EXCEPT ![r] = "lookup"] /\ home' = [home EXCEPT ![r] = p]
        /\ UNCHANGED <<backend, role, cache>>
        /\ \A s \in Req \ {r} : key'[s] = key[s]
    BY <1>0, <1>1 DEF Arrive, Resume
  <2>2. OwnsLoop'
    BY <1>0, <1>1, <2>1, LoopKept DEF Arrive
  <2>3. Missed'
    BY <1>0, <2>1, MissedKept
  <2> QED
    BY <1>0, <2>1, <2>2, <2>3 DEF RolesFit, Leading
<1>2. ASSUME NEW r \in Req, Lookup(r) PROVE (OwnsLoop /\ Missed /\ RolesFit)'
  <2>1. PICK label \in {"done", "setnx", "upstream"} : Goto(r, label)
    BY <1>2 DEF Lookup, Call
  <2>2. OwnsLoop' /\ pc' = [pc EXCEPT ![r] = label] /\ UNCHANGED backend
    BY <1>2, <2>1, <1>a DEF Lookup
  <2>3. /\ label = "setnx" => ~Hit(r) /\ home[r] \in Coalescing
        /\ label = "upstream" => role' = [role EXCEPT ![r] = "direct"]
        /\ label # "upstream" => UNCHANGED role
        /\ UNCHANGED <<home, key, cache>>
    BY <1>0, <1>2, <2>2 DEF Lookup, Call, Goto, Resume
  <2>4. Missed'
    BY <1>0, <2>2, <2>3, MissedKept
  <2> QED
    BY <1>0, <2>2, <2>3, <2>4 DEF RolesFit, Leading
<1>3. ASSUME NEW r \in Req, SetNX(r) PROVE (OwnsLoop /\ Missed /\ RolesFit)'
  <2>1. PICK label \in {"upstream", "poll"} : Goto(r, label)
    BY <1>3 DEF SetNX, Call
  <2>2. OwnsLoop' /\ pc' = [pc EXCEPT ![r] = label] /\ UNCHANGED backend
    BY <1>3, <2>1, <1>a DEF SetNX
  <2>3. /\ pc[r] = "setnx" /\ UNCHANGED <<home, key, cache>>
        /\ \/ label = "upstream" /\ role' = [role EXCEPT ![r] = "leader"]
           \/ label = "poll" /\ role' = [role EXCEPT ![r] = "follower"]
    BY <1>0, <1>3, <2>2 DEF SetNX, Call, Goto, Resume
  <2>4. Missed'
    BY <1>0, <2>2, <2>3, MissedKept
  <2> QED
    BY <1>0, <2>2, <2>3, <2>4 DEF RolesFit, Leading
<1>4. ASSUME NEW r \in Req, NEW label \in {"put", "delete", "done"}, Goto(r, label),
             pc[r] \in {"lookup", "setnx", "upstream", "put", "delete", "poll", "check"},
             label \in {"put", "delete"} => pc[r] \in {"upstream", "put"},
             UNCHANGED <<home, key, role>>
      PROVE  /\ OwnsLoop' /\ RolesFit'
             /\ UNCHANGED cache => Missed'
  <2>1. OwnsLoop' /\ pc' = [pc EXCEPT ![r] = label] /\ UNCHANGED backend
    BY <1>4, <1>a
  <2>2. UNCHANGED cache => Missed'
    BY <1>0, <1>4, <2>1, MissedKept
  <2>3. \A s \in Req : Leading(s)' => Leading(s)
    BY <1>0, <1>4, <2>1 DEF Leading
  <2> QED
    BY <1>0, <1>4, <2>1, <2>2, <2>3 DEF RolesFit
<1>5. ASSUME NEW r \in Req, UpstreamOk(r) \/ UpstreamRaises(r) \/ Delete(r)
      PROVE  (OwnsLoop /\ Missed /\ RolesFit)'
  <2>1. /\ pc[r] \in {"upstream", "delete"} /\ UNCHANGED <<home, key, role, cache>>
        /\ \E label \in {"put", "delete", "done"} :
             Goto(r, label) /\ (label # "done" => pc[r] = "upstream")
    BY <1>5 DEF UpstreamOk, UpstreamRaises, Delete, Finish
  <2> QED
    BY <2>1, <1>4
<1>6. ASSUME NEW r \in Req, Put(r) PROVE (OwnsLoop /\ Missed /\ RolesFit)'
  <2>1. /\ pc[r] = "put" /\ UNCHANGED <<home, key, role>>
        /\ cache' = [cache EXCEPT ![key[r]] = r]
    BY <1>6 DEF Put, PutKey
  <2>2. PICK label \in {"delete", "done"} : Goto(r, label)
    BY <1>6 DEF Put, Finish
  <2>3. Missed'
    BY <1>0, <2>1, <2>2, MissedThroughPut
  <2> QED
    BY <2>1, <2>2, <2>3, <1>4
<1>7. ASSUME NEW r \in Req, Poll(r) PROVE (OwnsLoop /\ Missed /\ RolesFit)'
  <2>1. /\ pc[r] = "poll" /\ UNCHANGED <<home, key, role, cache>>
        /\ Goto(r, "done") \/ (Goto(r, "check") /\ ~Hit(r))
    BY <1>7 DEF Poll
  <2>2. CASE Goto(r, "done")
    BY <2>1, <2>2, <1>4
  <2>3. CASE Goto(r, "check") /\ ~Hit(r)
    <3>1. OwnsLoop' /\ pc' = [pc EXCEPT ![r] = "check"] /\ UNCHANGED backend
      BY <2>1, <2>3, <1>a
    <3>2. Missed'
      BY <1>0, <2>1, <2>3, <3>1, MissedKept
    <3> QED
      BY <1>0, <2>1, <3>1, <3>2 DEF RolesFit, Leading
  <2> QED
    BY <2>1, <2>2, <2>3
<1>8. ASSUME NEW r \in Req, Check(r) PROVE (OwnsLoop /\ Missed /\ RolesFit)'
  <2>1. PICK label \in {"upstream", "poll"} : Goto(r, label)
    BY <1>8 DEF Check, Call
  <2>2. OwnsLoop' /\ pc' = [pc EXCEPT ![r] = label] /\ UNCHANGED backend
    BY <1>8, <2>1, <1>a DEF Check
  <2>3. /\ pc[r] = "check" /\ UNCHANGED <<home, key, cache>>
        /\ \/ label = "upstream" /\ role' = [role EXCEPT ![r] = "direct"]
           \/ label = "poll" /\ UNCHANGED role
    BY <1>0, <1>8, <2>2 DEF Check, Call, Goto, Resume
  <2>4. Missed'
    BY <1>0, <2>2, <2>3, MissedKept
  <2> QED
    BY <1>0, <2>2, <2>3, <2>4 DEF RolesFit, Leading
<1>9. ASSUME NEW r \in Req, StoreRaises(r) PROVE (OwnsLoop /\ Missed /\ RolesFit)'
  <2>1. /\ pc[r] \in {"lookup", "setnx", "put", "delete", "poll", "check"}
        /\ UNCHANGED <<home, key, role>>
        /\ \/ UNCHANGED cache
           \/ pc[r] = "put" /\ cache' = [cache EXCEPT ![key[r]] = r]
    BY <1>9 DEF StoreRaises, PutKey
  <2>2. PICK label \in {"delete", "done"} :
          Goto(r, label) /\ (label # "done" => pc[r] = "put")
    BY <1>9 DEF StoreRaises, Finish
  <2>3. OwnsLoop' /\ RolesFit' /\ (UNCHANGED cache => Missed')
    BY <2>1, <2>2, <1>4
  <2>4. pc[r] = "put" => Missed'
    BY <1>0, <2>1, <2>2, MissedThroughPut
  <2> QED
    BY <2>1, <2>3, <2>4
<1>10. ASSUME NEW p \in Process, Crash(p) PROVE (OwnsLoop /\ Missed /\ RolesFit)'
  <2>1. /\ UNCHANGED <<home, key, role>>
        /\ \A s \in Req : pc'[s] # "dead" => pc'[s] = pc[s] /\ ~(home[s] = p /\ Active(s))
        /\ \A q \in Process \ {p} : running'[q] = running[q] /\ backend'[q] = backend[q]
        /\ \A k \in Slot : cache'[k] # None => cache'[k] = cache[k]
    BY <1>0, <1>10 DEF Crash, Shape, TypeOK
  <2>2. ASSUME NEW s \in Req, Active(s)'
        PROVE  /\ pc'[s] = pc[s] /\ Active(s) /\ home[s] \in Process /\ key[s] \in Slot
               /\ (OnRedis(home[s])' <=> OnRedis(home[s]))
               /\ running'[home[s]] = running[home[s]]
    <3>1. pc'[s] = pc[s] /\ Active(s) /\ home[s] # p
      BY <2>1, <2>2 DEF Active
    <3>2. home[s] \in Process \ {p} /\ key[s] \in Slot
      BY <1>0, <3>1 DEF Shape, Placed, Active
    <3> QED
      BY <2>1, <3>1, <3>2 DEF OnRedis
  <2>3. OwnsLoop'
    BY <1>0, <2>1, <2>2 DEF OwnsLoop
  <2>4. Missed'
    <3> SUFFICES ASSUME NEW s \in Req, pc'[s] \in {"setnx", "check"}, ~OnRedis(home[s])'
                 PROVE  ~Hit(s)'
      BY <2>1 DEF Missed, OnRedis
    <3>1. Active(s)'
      BY DEF Active
    <3>2. ~Hit(s) /\ key[s] \in Slot
      BY <1>0, <2>2, <3>1 DEF Missed
    <3> QED
      BY <2>1, <3>2 DEF Hit
  <2>5. RolesFit'
    BY <1>0, <2>1 DEF RolesFit, Leading
  <2> QED
    BY <2>3, <2>4, <2>5
<1>11. CASE \E k \in Slot : Expire(k)
  <2>1. /\ UNCHANGED <<pc, backend, running, home, key, role>>
        /\ \A k \in Slot : cache'[k] # None => cache'[k] = cache[k]
    BY <1>0, <1>11 DEF Expire, Shape, TypeOK
  <2>2. Missed'
    BY <1>0, <2>1 DEF Missed, Hit, OnRedis, Shape, Placed
  <2> QED
    BY <1>0, <2>1, <2>2 DEF OwnsLoop, RolesFit, Leading, Active, OnRedis
<1>12. CASE Tick \/ UNCHANGED vars
  <2>1. UNCHANGED <<pc, backend, running, home, key, role, cache>>
    BY <1>12 DEF Tick, vars
  <2> QED
    BY <1>0, <2>1 DEF OwnsLoop, Missed, RolesFit, Leading, Active, OnRedis, Hit
<1> QED
  BY <1>1, <1>2, <1>3, <1>5, <1>6, <1>7, <1>8, <1>9, <1>10, <1>11, <1>12
  DEF Next, Step, Quiet

LEMMA LoopInvariant == Spec => []LoopInv
<1>1. Init => LoopInv
  BY ShapeInit DEF Init, LoopInv, LockInv, DeletersLead, LeaderHoldsLock, Leading, OwnsLoop,
                   Missed, RolesFit, Active
<1> QED
  BY <1>1, LoopStep, PTL DEF Spec

\* A request that begins an upstream call in a process on its own memory finds
\* nothing published and no leader at work, or has waited in vain.
LEMMA CallsNeeded ==
  ASSUME LoopInv, Next, NEW r \in Req, ~Called(r), Called(r)', ~OnRedis(home[r])
  PROVE  /\ ~Hit(r)
         /\ \/ role[r] = "follower" /\ wait[r] = 0
            \/ key[r] \in lapsed
            \/ \A s \in Req : Leading(s) => key[s] # key[r]
<1>0. /\ role \in [Req -> {None, "leader", "follower", "direct"}]
      /\ lock \in [Slot -> Locks] /\ LockInv /\ Shape /\ Missed /\ RolesFit
  BY DEF LoopInv, LockInv, Shape, TypeOK
<1>1. Lookup(r) \/ SetNX(r) \/ Check(r)
  <2>1. ASSUME role'[r] = role[r] PROVE FALSE
    BY <2>1 DEF Called
  <2>2. ASSUME NEW s \in Req, Lookup(s) \/ SetNX(s) \/ Check(s) PROVE s = r
    BY <1>0, <2>1, <2>2 DEF Lookup, SetNX, Check, Call
  <2> QED
    BY <1>0, <2>1, <2>2 DEF Next, Step, Quiet, vars, Arrive, UpstreamOk, UpstreamRaises, Put,
       Delete, Poll, StoreRaises, Crash, Expire, Tick
<1>2. CASE Lookup(r)
  <2>1. ~Hit(r) /\ home[r] \notin Coalescing /\ Active(r)
    BY <1>2 DEF Lookup, Called, Active
  <2>2. ASSUME NEW s \in Req, Leading(s), key[s] = key[r] PROVE FALSE
    <3>1. Active(s) /\ home[s] \in Coalescing
      BY <1>0, <2>2 DEF RolesFit, Leading, Active
    <3> QED
      BY <1>0, <2>1, <2>2, <3>1, OneHome
  <2> QED
    BY <2>1, <2>2
<1>3. CASE SetNX(r)
  <2>1. pc[r] = "setnx" /\ Acquirable(key[r])
    BY <1>0, <1>3 DEF SetNX, Called
  <2> QED
    BY <1>0, <2>1, FreeMeansNoLeader DEF Missed
<1>4. CASE Check(r)
  <2>1. pc[r] = "check" /\ GivesUp(r) /\ role[r] = "follower"
    BY <1>0, <1>4 DEF Check, Called, RolesFit
  <2> QED
    BY <1>0, <2>1, FreeMeansNoLeader DEF Missed, GivesUp, Acquirable
<1> QED
  BY <1>1, <1>2, <1>3, <1>4

\* The claim of coalesce.py:5-6 where it holds: over MemoryStore every upstream
\* call is needed, whatever leaders do, crash or take too long.
THEOREM CallsAreNeeded == Spec => NoNeedlessCall
<1>1. LoopInv /\ [Next]_vars =>
        [\A r \in Req : ~Called(r) /\ Called(r)' /\ ~OnRedis(home[r]) =>
           /\ ~Hit(r)
           /\ \/ role[r] = "follower" /\ wait[r] = 0
              \/ key[r] \in lapsed
              \/ \A s \in Req : Leading(s) => key[s] # key[r]]_vars
  BY CallsNeeded
<1> QED
  BY <1>1, LoopInvariant, PTL DEF Spec, NoNeedlessCall
-----------------------------------------------------------------------------
(* Coalescer implements SingleFlight.                                       *)

\* What PayloadInv says, in the form the steps below use.
LEMMA PayloadFacts ==
  ASSUME PayloadInv
  PROVE  /\ pc \in [Req -> Labels] /\ answer \in [Req -> Req \cup Errors \cup {None}]
         /\ key \in [Req -> Slot \cup {None}] /\ cache \in [Slot -> Req \cup {None}]
         /\ fetched \subseteq Req
         /\ \A r \in Req : pc[r] # "idle" => key[r] \in Slot
         /\ Fresh /\ FetchedLate /\ CacheHonest /\ Settled
BY DEF PayloadInv, Shape, TypeOK, Placed

\* PayloadInv survives steps of r that fetch nothing, store nothing and lead
\* neither to "put" nor to "delete".
LEMMA PayloadKept ==
  ASSUME PayloadInv, NEW r \in Req,
         NEW label \in {"setnx", "upstream", "poll", "check", "done"},
         pc' = [pc EXCEPT ![r] = label], r \in fetched => label = "done",
         \A s \in Req \ {r} : answer'[s] = answer[s],
         UNCHANGED <<key, fetched, cache>>
  PROVE  (Fresh /\ FetchedLate /\ CacheHonest /\ Settled)'
<1>1. /\ pc'[r] = label
      /\ \A s \in Req \ {r} : pc'[s] = pc[s]
  BY PayloadFacts
<1> QED
  BY <1>1, PayloadFacts DEF Fresh, FetchedLate, CacheHonest, Settled

LEMMA PayloadStep == PayloadInv /\ [Next]_vars => PayloadInv'
<1> SUFFICES ASSUME PayloadInv, [Next]_vars
             PROVE (Fresh /\ FetchedLate /\ CacheHonest /\ Settled)'
  BY ShapeStep DEF PayloadInv
<1> DEFINE Goal == Fresh /\ FetchedLate /\ CacheHonest /\ Settled
<1>1. ASSUME NEW r \in Req, NEW p \in Process, NEW k \in Key, Arrive(r, p, k) PROVE Goal'
  <2>1. /\ pc[r] = "idle" /\ pc' = [pc EXCEPT ![r] = "lookup"]
        /\ key' = [key EXCEPT ![r] = <<StoreOf(p), k>>]
        /\ r \notin fetched /\ UNCHANGED <<fetched, answer, cache>>
    BY <1>1, PayloadFacts DEF Arrive, Resume, Fresh
  <2>2. CacheHonest'
    BY <2>1, PayloadFacts DEF CacheHonest
  <2> QED
    BY <2>1, <2>2, PayloadFacts DEF Fresh, FetchedLate, Settled
<1>2. ASSUME NEW r \in Req, Lookup(r) PROVE Goal'
  <2>1. r \notin fetched
    BY <1>2, PayloadFacts DEF Lookup, FetchedLate
  <2> QED
    BY <1>2, <2>1, PayloadKept, PayloadFacts DEF Lookup, Call, Goto, Resume
<1>3. ASSUME NEW r \in Req, SetNX(r) PROVE Goal'
  <2>1. r \notin fetched
    BY <1>3, PayloadFacts DEF SetNX, FetchedLate
  <2> QED
    BY <1>3, <2>1, PayloadKept, PayloadFacts DEF SetNX, Call, Goto, Resume
<1>4. ASSUME NEW r \in Req, UpstreamOk(r) PROVE Goal'
  <2>1. /\ pc[r] = "upstream" /\ \A s \in Req \ {r} : pc'[s] = pc[s] /\ answer'[s] = answer[s]
        /\ pc'[r] \in {"put", "delete", "done"} /\ answer'[r] \in {r, answer[r]}
        /\ pc'[r] = "delete" => answer'[r] = r
        /\ UNCHANGED <<key, cache>> /\ fetched' = fetched \cup {r}
    BY <1>4, PayloadFacts DEF UpstreamOk, Finish, Goto, Resume
  <2>2. CacheHonest'
    BY <2>1, PayloadFacts DEF CacheHonest
  <2>3. Fresh' /\ FetchedLate'
    BY <2>1, PayloadFacts DEF Fresh, FetchedLate
  <2>4. Settled'
    BY <2>1, PayloadFacts DEF Settled
  <2> QED
    BY <2>2, <2>3, <2>4
<1>5. ASSUME NEW r \in Req, UpstreamRaises(r) PROVE Goal'
  <2>1. /\ pc[r] = "upstream" /\ \A s \in Req \ {r} : pc'[s] = pc[s] /\ answer'[s] = answer[s]
        /\ pc'[r] \in {"delete", "done"} /\ answer'[r] = "unavailable"
        /\ UNCHANGED <<key, cache, fetched>>
    BY <1>5, PayloadFacts DEF UpstreamRaises, Finish, Goto, Resume
  <2> QED
    BY <2>1, PayloadFacts DEF Fresh, FetchedLate, CacheHonest, Settled
<1>6. ASSUME NEW r \in Req, pc[r] = "put", NEW a \in {r, "error"}, Finish(r, a),
             UNCHANGED <<key, fetched>>,
             cache' = [cache EXCEPT ![key[r]] = r] \/ UNCHANGED cache
      PROVE Goal'
  <2>1. /\ \A s \in Req \ {r} : pc'[s] = pc[s] /\ answer'[s] = answer[s]
        /\ pc'[r] \in {"delete", "done"} /\ answer'[r] = a
        /\ r \in fetched /\ key[r] \in Slot
    BY <1>6, PayloadFacts DEF Finish, Goto, Resume, FetchedLate
  <2>2. CacheHonest'
    BY <1>6, <2>1, PayloadFacts DEF CacheHonest
  <2> QED
    BY <1>6, <2>1, <2>2, PayloadFacts DEF Fresh, FetchedLate, Settled
<1>7. ASSUME NEW r \in Req, Put(r) PROVE Goal'
  BY <1>6, <1>7 DEF Put, PutKey
<1>8. ASSUME NEW r \in Req, Delete(r) PROVE Goal'
  BY <1>8, PayloadKept, PayloadFacts DEF Delete, Goto, Resume
<1>9. ASSUME NEW r \in Req, Poll(r) PROVE Goal'
  <2>1. r \notin fetched
    BY <1>9, PayloadFacts DEF Poll, FetchedLate
  <2> QED
    BY <1>9, <2>1, PayloadKept, PayloadFacts DEF Poll, Goto, Resume
<1>10. ASSUME NEW r \in Req, Check(r) PROVE Goal'
  <2>1. r \notin fetched
    BY <1>10, PayloadFacts DEF Check, FetchedLate
  <2> QED
    BY <1>10, <2>1, PayloadKept, PayloadFacts DEF Check, Call, Goto, Resume
<1>11. ASSUME NEW r \in Req, StoreRaises(r) PROVE Goal'
  <2>1. CASE pc[r] = "put"
    BY <1>6, <1>11, <2>1 DEF StoreRaises, PutKey
  <2>2. CASE pc[r] # "put"
    <3>1. /\ pc' = [pc EXCEPT ![r] = "done"] /\ answer' = [answer EXCEPT ![r] = "error"]
          /\ UNCHANGED <<key, fetched, cache>>
      BY <1>11, <2>2 DEF StoreRaises, Goto, Resume
    <3> QED
      BY <3>1, PayloadKept, PayloadFacts
  <2> QED
    BY <2>1, <2>2
<1>12. ASSUME NEW p \in Process, Crash(p) PROVE Goal'
  <2>1. /\ \A r \in Req : pc'[r] # pc[r] => pc'[r] = "dead" /\ pc[r] # "idle"
        /\ UNCHANGED <<key, fetched, answer>> /\ \A k \in Slot : cache'[k] \in {None, cache[k]}
    BY <1>12, PayloadFacts DEF Crash, Active
  <2> QED
    BY <2>1, PayloadFacts DEF Fresh, FetchedLate, CacheHonest, Settled
<1>13. CASE \E k \in Slot : Expire(k)
  BY <1>13, PayloadFacts DEF Expire, Fresh, FetchedLate, CacheHonest, Settled
<1>14. CASE Tick
  BY <1>14, PayloadFacts DEF Tick, Fresh, FetchedLate, CacheHonest, Settled
<1>15. CASE UNCHANGED vars
  BY <1>15, PayloadFacts DEF vars, Fresh, FetchedLate, CacheHonest, Settled
<1> QED
  BY <1>1, <1>2, <1>3, <1>4, <1>5, <1>7, <1>8, <1>9, <1>10, <1>11, <1>12,
     <1>13, <1>14, <1>15 DEF Next, Step, Quiet

LEMMA PayloadInvariant == Spec => []PayloadInv
<1>1. Init => PayloadInv
  BY ShapeInit DEF Init, PayloadInv, Fresh, FetchedLate, CacheHonest, Settled
<1> QED
  BY <1>1, PayloadStep, PTL DEF Spec
\* A step that moves r, not yet answered, to a label other than "done" answers
\* nothing.
LEMMA Silent ==
  ASSUME PayloadInv, NEW r \in Req, pc[r] # "done", NEW label, label # "done",
         pc' = [pc EXCEPT ![r] = label], \A s \in Req \ {r} : answer'[s] = answer[s]
  PROVE  Reply' = Reply
BY PayloadFacts DEF Reply

\* A step that ends r answers what r then holds.
LEMMA Answers ==
  ASSUME PayloadInv, NEW r \in Req, pc[r] \notin {"idle", "done"}, NEW a,
         pc' = [pc EXCEPT ![r] = "done"], answer' = [answer EXCEPT ![r] = a]
  PROVE  Promise!Open(r) /\ Reply' = [Reply EXCEPT ![r] = a]
BY PayloadFacts, ConstantsOK DEF Reply, Promise!Open

\* Every step of Coalescer is a step of the promise or invisible to it.
LEMMA PromiseStep == PayloadInv /\ [Next]_vars => [Promise!Next]_(Promise!vars)
<1> SUFFICES ASSUME PayloadInv, [Next]_vars PROVE [Promise!Next]_(Promise!vars)
  OBVIOUS
<1> DEFINE Goal == Promise!Next \/ UNCHANGED <<key, fetched, Reply>>
<1> SUFFICES Goal
  BY DEF Promise!vars
<1>a. ASSUME NEW r \in Req, Promise!Answer(r) PROVE Goal
  BY <1>a DEF Promise!Next
<1>b. ASSUME NEW r \in Req, pc[r] \notin {"idle", "done"}, pc' = [pc EXCEPT ![r] = "done"],
             NEW a \in Promise!Answers(r), answer' = [answer EXCEPT ![r] = a],
             UNCHANGED <<key, fetched>>
      PROVE  Goal
  BY <1>a, <1>b, Answers DEF Promise!Answer
<1>1. ASSUME NEW r \in Req, NEW p \in Process, NEW k \in Key, Arrive(r, p, k) PROVE Goal
  <2>1. /\ key[r] = None /\ UNCHANGED fetched
        /\ key' = [key EXCEPT ![r] = <<StoreOf(p), k>>]
    BY <1>1, PayloadFacts DEF Arrive, Fresh
  <2>2. <<StoreOf(p), k>> \in Slot
    BY DEF Slot, Store, StoreOf
  <2>3. Reply' = Reply
    BY <1>1, Silent DEF Arrive, Goto, Resume
  <2> QED
    BY <2>1, <2>2, <2>3 DEF Promise!Next, Promise!Ask
<1>2. ASSUME NEW r \in Req, pc[r] \in {"lookup", "poll"}, Hit(r),
             pc' = [pc EXCEPT ![r] = "done"], answer' = [answer EXCEPT ![r] = cache[key[r]]],
             UNCHANGED <<key, fetched>>
      PROVE  Goal
  <2>1. r \notin fetched /\ cache[key[r]] \in fetched /\ key[cache[key[r]]] = key[r]
    BY <1>2, PayloadFacts DEF Hit, CacheHonest, FetchedLate
  <2>2. cache[key[r]] \in Promise!Answers(r)
    BY <2>1 DEF Promise!Answers
  <2> QED
    BY <1>2, <1>b, <2>2
<1>3. ASSUME NEW r \in Req, Lookup(r) PROVE Goal
  <2>1. CASE Hit(r)
    BY <1>2, <1>3, <2>1 DEF Lookup, Goto, Resume
  <2>2. CASE ~Hit(r)
    BY <1>3, <2>2, Silent DEF Lookup, Call, Goto, Resume
  <2> QED
    BY <2>1, <2>2
<1>4. ASSUME NEW r \in Req, SetNX(r) PROVE Goal
  BY <1>4, Silent DEF SetNX, Call, Goto, Resume
<1>5. ASSUME NEW r \in Req, UpstreamOk(r) PROVE Goal
  <2>1. pc[r] = "upstream" /\ r \notin fetched /\ fetched' = fetched \cup {r} /\ UNCHANGED key
    BY <1>5, PayloadFacts DEF UpstreamOk, FetchedLate
  <2>2. CASE pc' = [pc EXCEPT ![r] = "done"] /\ answer' = [answer EXCEPT ![r] = r]
    BY <2>1, <2>2, Answers DEF Promise!Next, Promise!FetchAndAnswer
  <2>3. CASE \E label \in {"put", "delete"} : pc' = [pc EXCEPT ![r] = label]
    <3>1. \A s \in Req \ {r} : answer'[s] = answer[s]
      BY <1>5, PayloadFacts DEF UpstreamOk, Finish
    <3>2. Reply' = Reply
      BY <2>1, <2>3, <3>1, Silent
    <3>3. Promise!Open(r)
      BY <2>1, PayloadFacts, ConstantsOK DEF Promise!Open, Reply
    <3> QED
      BY <2>1, <3>2, <3>3 DEF Promise!Next, Promise!Fetch
  <2> QED
    BY <1>5, <2>2, <2>3 DEF UpstreamOk, Finish, Goto, Resume
<1>6. ASSUME NEW r \in Req, pc[r] \in {"upstream", "put"}, NEW a \in Promise!Answers(r),
             Finish(r, a), UNCHANGED <<key, fetched>>
      PROVE  Goal
  <2>1. CASE role[r] = "leader"
    <3>1. pc' = [pc EXCEPT ![r] = "delete"] /\ \A s \in Req \ {r} : answer'[s] = answer[s]
      BY <1>6, <2>1, PayloadFacts DEF Finish, Goto, Resume
    <3> QED
      BY <1>6, <3>1, Silent
  <2>2. CASE role[r] # "leader"
    BY <1>6, <1>b, <2>2 DEF Finish, Goto, Resume
  <2> QED
    BY <2>1, <2>2
<1>7. ASSUME NEW r \in Req, UpstreamRaises(r) PROVE Goal
  <2>1. "unavailable" \in Promise!Answers(r)
    BY <1>7, PayloadFacts DEF UpstreamRaises, FetchedLate, Promise!Answers, Promise!Unavailable
  <2> QED
    BY <1>6, <1>7, <2>1 DEF UpstreamRaises
<1>8. ASSUME NEW r \in Req, pc[r] = "put" PROVE {r, "error"} \subseteq Promise!Answers(r)
  BY <1>8, PayloadFacts DEF FetchedLate, Promise!Answers, Promise!InternalError
<1>9. ASSUME NEW r \in Req, Put(r) PROVE Goal
  BY <1>6, <1>8, <1>9 DEF Put
<1>10. ASSUME NEW r \in Req, Delete(r) PROVE Goal
  <2>1. /\ pc[r] = "delete" /\ pc' = [pc EXCEPT ![r] = "done"]
        /\ answer' = [answer EXCEPT ![r] = answer[r]] /\ UNCHANGED <<key, fetched>>
    BY <1>10, PayloadFacts DEF Delete, Goto, Resume
  <2>2. answer[r] \in Promise!Answers(r)
    BY <2>1, PayloadFacts DEF Settled, Promise!Answers, Promise!Unavailable, Promise!InternalError
  <2> QED
    BY <1>b, <2>1, <2>2
<1>11. ASSUME NEW r \in Req, Poll(r) PROVE Goal
  <2>1. CASE Hit(r)
    BY <1>2, <1>11, <2>1 DEF Poll, Goto, Resume
  <2>2. CASE ~Hit(r)
    BY <1>11, <2>2, Silent DEF Poll, Goto, Resume
  <2> QED
    BY <2>1, <2>2
<1>12. ASSUME NEW r \in Req, Check(r) PROVE Goal
  BY <1>12, Silent DEF Check, Call, Goto, Resume
<1>13. ASSUME NEW r \in Req, StoreRaises(r) PROVE Goal
  <2>1. pc[r] \notin {"idle", "done"} /\ UNCHANGED <<key, fetched>>
    BY <1>13 DEF StoreRaises
  <2>2. CASE pc[r] = "put"
    BY <1>6, <1>8, <1>13, <2>2 DEF StoreRaises
  <2>3. CASE pc[r] # "put"
    <3>1. pc' = [pc EXCEPT ![r] = "done"] /\ answer' = [answer EXCEPT ![r] = "error"]
      BY <1>13, <2>3 DEF StoreRaises, Goto, Resume
    <3>2. "error" \in Promise!Answers(r)
      BY DEF Promise!Answers, Promise!InternalError
    <3> QED
      BY <1>b, <2>1, <3>1, <3>2
  <2> QED
    BY <2>2, <2>3
<1>14. ASSUME NEW p \in Process, Crash(p) PROVE Goal
  <2>1. UNCHANGED <<key, fetched, answer>>
        /\ \A r \in Req : pc'[r] = "done" <=> pc[r] = "done"
    BY <1>14, PayloadFacts DEF Crash, Active
  <2> QED
    BY <2>1 DEF Reply
<1>15. CASE \E k \in Slot : Expire(k)
  BY <1>15 DEF Expire, Reply
<1>16. CASE Tick
  BY <1>16 DEF Tick, Reply
<1>17. CASE UNCHANGED vars
  BY <1>17 DEF vars, Reply
<1> QED
  BY <1>1, <1>3, <1>4, <1>5, <1>7, <1>9, <1>10, <1>11, <1>12, <1>13, <1>14,
     <1>15, <1>16, <1>17 DEF Next, Step, Quiet

\* Whatever caches, locks, timers, crashes and failing store calls do, the answers
\* are those SingleFlight promises: main.complete never answers a payload fetched
\* for another key, nor another payload than that of its own call.
THEOREM Refinement == Spec => AnswersArePromised
<1>1. Init => Promise!Init
  BY DEF Init, Promise!Init, Reply
<1> QED
  BY <1>1, PayloadInvariant, PromiseStep, PTL DEF Spec, AnswersArePromised, Promise!Spec
=============================================================================
