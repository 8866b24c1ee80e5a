--------------------------- MODULE MCResponseCache ---------------------------
(* ResponseCache on three prompts, the first two of which are paraphrases.   *)
EXTENDS ResponseCache, TLC

CONSTANTS p1, p2, p3

Paraphrases == {p1, p2}
\* 2: the same prompt, 1: a paraphrase (at the threshold), 0: unrelated.
SmallScore == [pq \in Prompt \X Prompt |->
                 IF pq[1] = pq[2] THEN 2
                 ELSE IF {pq[1], pq[2]} = Paraphrases THEN 1 ELSE 0]

Symmetry == Permutations(Req) \cup Permutations(Process) \cup Permutations(Variant)
              \cup Permutations(Paraphrases)
=============================================================================
