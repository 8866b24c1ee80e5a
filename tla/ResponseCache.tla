---------------------------- MODULE ResponseCache ----------------------------
(***************************************************************************)
(* ResponseCache and SemanticIndex (gateway/cache.py): payloads in the     *)
(* store under exact keys, and in each process a bounded index of the      *)
(* vectors of the prompts it stored, searched when the exact key misses.   *)
(*                                                                         *)
(* An exact key stands for (model and params, normalised prompt).  The     *)
(* vector of a prompt is known only by its similarity to the others.  Both *)
(* tiers are on (cache_enabled, semantic_enabled).  A step of a call is    *)
(* one store operation or the code that runs in the process after it.      *)
(***************************************************************************)
EXTENDS Integers, Sequences

CONSTANTS
  Req,          \* calls of get() and put(), each made at most once
  Variant,      \* combinations of model and params
  Prompt,       \* normalised prompts
  Process,      \* gateway worker processes
  None,         \* absence of a value
  SharedStore,  \* TRUE: RedisStore, FALSE: MemoryStore
  Score,        \* Score[p, q]: cosine similarity of the vectors of p and q
  Threshold,    \* settings.semantic_threshold
  Cap           \* settings.semantic_index_cap

Key == [variant : Variant, prompt : Prompt]

ASSUME CacheConstantsOK ==
  /\ None \notin Req \cup Key
  /\ SharedStore \in BOOLEAN
  /\ Score \in [Prompt \X Prompt -> Int] /\ Threshold \in Int
  /\ Cap \in Nat \ {0}
  /\ ~SharedStore => \A p, q \in Process : p = q  \* the store is the process's own

VARIABLES
  pc,         \* where each call is
  home,       \* process of the call
  key,        \* exact_key of the call
  near,       \* key found by a search
  answer,     \* call that stored the payload a get() returns, None for a miss
  payload,    \* per key: the call whose payload is stored
  index,      \* per process: SemanticIndex._keys, oldest first
  expired     \* history: keys a payload of which reached its TTL

vars == <<pc, home, key, near, answer, payload, index, expired>>

TypeOK ==
  /\ pc \in [Req -> {"idle", "exact", "search", "near", "set", "add", "done"}]
  /\ home \in [Req -> Process]
  /\ key \in [Req -> Key]
  /\ near \in [Req -> Key \cup {None}]
  /\ answer \in [Req -> Req \cup {None}]
  /\ payload \in [Key -> Req \cup {None}]
  /\ index \in [Process -> Seq(Key)]
  /\ expired \subseteq Key

Init ==
  /\ pc = [r \in Req |-> "idle"]
  /\ home \in [Req -> Process]
  /\ key \in [Req -> Key]
  /\ near = [r \in Req |-> None]
  /\ answer = [r \in Req |-> None]
  /\ payload = [k \in Key |-> None]
  /\ index = [p \in Process |-> <<>>]
  /\ expired = {}
-----------------------------------------------------------------------------
Members(s) == {s[i] : i \in 1..Len(s)}

\* SemanticIndex.add: a key is indexed once, and the oldest make room.
AddTwice(s, k) ==
  LET grown == Append(s, k) IN
  IF Len(grown) > Cap THEN SubSeq(grown, Len(grown) - Cap + 1, Len(grown)) ELSE grown
AddPrompt(s, k) == Append(s, k.prompt)
Add(s, k) ==
  LET grown == Append(s, k) IN
  IF k \in Members(s) THEN s
  ELSE IF Len(grown) > Cap THEN SubSeq(grown, Len(grown) - Cap + 1, Len(grown))
  ELSE grown

\* SemanticIndex.search: the first of the most similar (np.argmax).
ScoreAt(s, i, q) == Score[s[i].prompt, q]
IsNearest(s, i, q) ==
  /\ i \in 1..Len(s)
  /\ \A j \in 1..Len(s) : ScoreAt(s, j, q) <= ScoreAt(s, i, q)
  /\ \A j \in 1..(i - 1) : ScoreAt(s, j, q) < ScoreAt(s, i, q)

\* With MemoryStore a call keeps the event loop until it returns.
Midway(r) == pc[r] \notin {"idle", "done"}
Undisturbed(r) == SharedStore \/ \A s \in Req \ {r} : ~Midway(s)

Goto(r, label) == Undisturbed(r) /\ pc' = [pc EXCEPT ![r] = label]
Return(r, a) == Goto(r, "done") /\ answer' = [answer EXCEPT ![r] = a]

\* put() stores the payload before it indexes its key.
PutOrderIndexFirst == <<"add", "set">>
PutOrder == <<"set", "add">>
PutNext(step) == IF step = PutOrder[1] THEN PutOrder[2] ELSE "done"

\* A call of get() or of put() begins.
Begin(r) ==
  /\ pc[r] = "idle"
  /\ \E label \in {"exact", PutOrder[1]} : Goto(r, label)
  /\ UNCHANGED <<home, key, near, answer, payload, index, expired>>

\* get: raw = await store.get(key)
ReadExact(r) ==
  /\ pc[r] = "exact"
  /\ \/ payload[key[r]] # None /\ Return(r, payload[key[r]])
     \/ payload[key[r]] = None /\ Goto(r, "search") /\ UNCHANGED answer
  /\ UNCHANGED <<home, key, near, payload, index, expired>>

\* The similarity a hit needs.
CloseAnyway(score) == TRUE
Close(score) == score >= Threshold

\* get: near_key, score = index.search(vector); if score >= threshold ...
Search(r) ==
  LET mine == index[home[r]]
      q    == key[r].prompt
  IN
  /\ pc[r] = "search"
  /\ \/ \E i \in 1..Len(mine) :
          /\ IsNearest(mine, i, q) /\ Close(ScoreAt(mine, i, q))
          /\ near' = [near EXCEPT ![r] = mine[i]]
          /\ Goto(r, "near")
          /\ UNCHANGED answer
     \/ /\ \A i \in 1..Len(mine) :
             ~(IsNearest(mine, i, q) /\ Close(ScoreAt(mine, i, q)))
        /\ Return(r, None)
        /\ UNCHANGED near
  /\ UNCHANGED <<home, key, payload, index, expired>>

\* get: raw = await store.get(near_key)
ReadNear(r) ==
  /\ pc[r] = "near"
  /\ Return(r, payload[near[r]])
  /\ UNCHANGED <<home, key, near, payload, index, expired>>

\* put: await store.set(key, payload, cache_ttl_s)
Store(r) ==
  /\ pc[r] = "set"
  /\ payload' = [payload EXCEPT ![key[r]] = r]
  /\ Goto(r, PutNext("set"))
  /\ UNCHANGED <<home, key, near, answer, index, expired>>

\* put: index.add(key, embed(prompt))
IndexOwn(r) ==
  /\ pc[r] = "add"
  /\ index' = [index EXCEPT ![home[r]] = Add(@, key[r])]
  /\ Goto(r, PutNext("add"))
  /\ UNCHANGED <<home, key, near, answer, payload, expired>>

\* A stored payload reaches cache_ttl_s; its vectors stay indexed.
Expire(k) ==
  /\ payload[k] # None
  /\ payload' = [payload EXCEPT ![k] = None]
  /\ expired' = expired \cup {k}
  /\ UNCHANGED <<pc, home, key, near, answer, index>>

\* A process dies with its index, its calls and, if private, its store, and a
\* fresh one takes its place.
Crash(p) ==
  /\ \E r \in Req : home[r] = p /\ Midway(r)
  /\ pc' = [r \in Req |-> IF home[r] = p /\ Midway(r) THEN "done" ELSE pc[r]]
  /\ index' = [index EXCEPT ![p] = <<>>]
  /\ payload' = IF SharedStore THEN payload ELSE [k \in Key |-> None]
  /\ UNCHANGED <<home, key, near, answer, expired>>

Quiet == (\A r \in Req : pc[r] = "done") /\ UNCHANGED vars

Next ==
  \/ \E r \in Req : \/ Begin(r) \/ ReadExact(r) \/ Search(r) \/ ReadNear(r)
                    \/ Store(r) \/ IndexOwn(r)
  \/ \E k \in Key : Expire(k)
  \/ \E p \in Process : Crash(p)
  \/ Quiet

Spec == Init /\ [][Next]_vars
-----------------------------------------------------------------------------
(* Properties.                                                              *)

\* Every index is bounded and holds no key twice, however calls for one key
\* overlap between their store and their index (cache.py:60-69 and 109-115).
IndexSound ==
  \A p \in Process :
    /\ Len(index[p]) <= Cap
    /\ \A i, j \in 1..Len(index[p]) : index[p][i] = index[p][j] => i = j

\* A hit is lost after the search found a similar prompt (cache.py:104-107), now
\* or in any later search of any index, only to the TTL of that prompt's payload:
\* no restart of another process and no order of overlapping calls leaves a
\* vector whose payload was never stored, or is stored no more.
Backed(k) == payload[k] # None \/ k \in expired
MissesNeedExpiry ==
  /\ \A p \in Process : \A k \in Members(index[p]) : Backed(k)
  /\ \A r \in Req : pc[r] = "near" => Backed(near[r])

\* A payload that get() returns was stored for the very key or for a prompt at
\* least as similar as the threshold asks, whatever was stored, evicted, expired
\* or restarted between the steps of the call (cache.py:89-107).
HitsAreClose ==
  \A r \in Req : answer[r] # None =>
    LET stored == key[answer[r]] IN
    stored = key[r] \/ Score[stored.prompt, key[r].prompt] >= Threshold

\* What ARCHITECTURE.md:73 promises of the semantic tier, "a conservative matcher
\* that never serves a wrong answer": a hit is the answer of the model, and for
\* the parameters, that were asked for.
HitsKeepVariant ==
  \A r \in Req : answer[r] # None => key[answer[r]].variant = key[r].variant
=============================================================================
