---------------------------- MODULE MCCoalescer ----------------------------
(* Coalescer on small sets of requests, keys and processes.                 *)
EXTENDS Coalescer, TLC

\* Processes are interchangeable when their settings agree.
Alike(p, q) == (p \in Caching <=> q \in Caching) /\ (p \in Coalescing <=> q \in Coalescing)
Symmetry ==
  UNION {Permutations(Req), Permutations(Key),
         {f \in Permutations(Process) : \A p \in Process : Alike(p, f[p])}}

\* The trouble Coalescer_liveness lets the environment make.
SlowCrash == {"slow", "crash"}
=============================================================================
