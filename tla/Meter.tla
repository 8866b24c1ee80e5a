-------------------------------- MODULE Meter --------------------------------
(***************************************************************************)
(* What the rate limiter promises (gateway/limiter.py:1-4): each client    *)
(* has a meter that refills one unit a tick, up to a burst, and a call is  *)
(* granted iff the meter of its client holds the price, which it then      *)
(* pays, all at once.                                                      *)
(***************************************************************************)
EXTENDS Integers

CONSTANTS Req, Client, Burst, Cost

VARIABLES
  client,   \* API key of each call
  level,    \* per client, the units its meter holds
  verdict   \* on each call

vars == <<client, level, verdict>>

Init ==
  /\ client \in [Req -> Client]
  /\ level = [c \in Client |-> Burst]
  /\ verdict = [r \in Req |-> "none"]

Grant(r) ==
  /\ verdict[r] = "none" /\ level[client[r]] >= Cost
  /\ verdict' = [verdict EXCEPT ![r] = "granted"]
  /\ level' = [level EXCEPT ![client[r]] = @ - Cost]
  /\ UNCHANGED client

Refuse(r) ==
  /\ verdict[r] = "none" /\ level[client[r]] < Cost
  /\ verdict' = [verdict EXCEPT ![r] = "refused"]
  /\ UNCHANGED <<client, level>>

Refill ==
  /\ level' = [c \in Client |-> IF level[c] < Burst THEN level[c] + 1 ELSE level[c]]
  /\ UNCHANGED <<client, verdict>>

Next == Refill \/ \E r \in Req : Grant(r) \/ Refuse(r)

Spec == Init /\ [][Next]_vars
=============================================================================
