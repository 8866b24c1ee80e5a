----------------------------- MODULE MCLoadTest -----------------------------
(* LoadTest with a herd whose requests run all at once, then a failover      *)
(* where they take turns.  To the model a load is a herd but for what it     *)
(* reports when the mock's count cannot be read: nothing.                    *)
EXTENDS LoadTest, TLC

CONSTANTS a1, a2

HerdThenFailover == <<[kind |-> "herd", permits |-> 2],
                      [kind |-> "failover", permits |-> 1]>>
SomeLatency == a1 :> 4 @@ a2 :> 1
=============================================================================
