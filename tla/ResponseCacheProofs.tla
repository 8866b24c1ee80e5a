------------------------- MODULE ResponseCacheProofs -------------------------
(* Theorems about ResponseCache, for any calls, prompts, similarities,       *)
(* threshold and index bound.                                                *)
EXTENDS ResponseCache, TLAPS

\* A call that reads the payload of a similar prompt has found its key.
NearFound == \A r \in Req : pc[r] = "near" => near[r] \in Key

Shape == TypeOK /\ NearFound

\* The prompt of a key is close enough to that of another to answer it.
Serves(stored, wanted) ==
  stored = wanted \/ Score[stored.prompt, wanted.prompt] >= Threshold

\* A stored payload is the one of a put() for the key it is stored under.
PayloadHonest == \A k \in Key : payload[k] # None => key[payload[k]] = k

\* A search that found a key found a close one.
NearIsClose == \A r \in Req : pc[r] = "near" => Serves(near[r], key[r])

HitInv == Shape /\ PayloadHonest /\ NearIsClose /\ HitsAreClose

\* Keys whose payload is stored, or was lost to its TTL.
Live == {k \in Key : Backed(k)}

\* A put() indexes its key after it stored its payload.
AddsBacked == \A r \in Req : pc[r] = "add" => key[r] \in Live

IndexInv == Shape /\ AddsBacked /\ IndexSound /\ MissesNeedExpiry
-----------------------------------------------------------------------------
\* An index without duplicates, within the bound, made of the given keys.
Sound(s, keys) ==
  /\ Len(s) <= Cap
  /\ \A i, j \in 1..Len(s) : s[i] = s[j] => i = j
  /\ Members(s) \subseteq keys

LEMMA AddType ==
  ASSUME NEW s \in Seq(Key), NEW k \in Key
  PROVE  Add(s, k) \in Seq(Key)
<1> DEFINE grown == Append(s, k)
           kept == SubSeq(grown, Len(grown) - Cap + 1, Len(grown))
<1>1. grown \in Seq(Key) /\ Len(grown) = Len(s) + 1 /\ Len(s) \in Nat
  OBVIOUS
<1>2. Len(grown) > Cap => kept \in Seq(Key)
  <2>1. Len(grown) > Cap => Len(grown) - Cap + 1 \in 1..(Len(grown) + 1)
    BY <1>1, CacheConstantsOK
  <2> QED
    BY <1>1, <2>1
<1>3. CASE k \in Members(s)
  BY <1>3 DEF Add
<1>4. CASE k \notin Members(s)
  <2>1. Add(s, k) = IF Len(grown) > Cap THEN kept ELSE grown
    BY <1>4 DEF Add
  <2> HIDE DEF grown, kept
  <2> QED
    BY <1>1, <1>2, <2>1
<1> QED
  BY <1>3, <1>4

\* What add() does to a sound index: still sound, its keys those it had and k.
LEMMA AddSound ==
  ASSUME NEW s \in Seq(Key), NEW k \in Key, NEW keys, k \in keys, Sound(s, keys)
  PROVE  Sound(Add(s, k), keys)
<1> DEFINE grown == Append(s, k)
<1>1. /\ grown \in Seq(Key) /\ Len(grown) = Len(s) + 1 /\ Len(s) \in Nat
      /\ \A i \in 1..Len(s) : grown[i] = s[i]
      /\ grown[Len(s) + 1] = k
  OBVIOUS
<1>2. CASE k \in Members(s)
  BY <1>2 DEF Add
<1>3. CASE k \notin Members(s)
  <2>1. \A i, j \in 1..Len(grown) : grown[i] = grown[j] => i = j
    <3> SUFFICES ASSUME NEW i \in 1..Len(grown), NEW j \in 1..Len(grown),
                        grown[i] = grown[j]
                 PROVE  i = j
      OBVIOUS
    <3>1. \A m \in 1..Len(s) : s[m] # k
      BY <1>3 DEF Members
    <3>2. (i \in 1..Len(s) \/ i = Len(s) + 1) /\ (j \in 1..Len(s) \/ j = Len(s) + 1)
      BY <1>1
    <3> QED
      BY <1>1, <3>1, <3>2 DEF Sound
  <2>2. \A i \in 1..Len(grown) : grown[i] \in keys
    BY <1>1 DEF Sound, Members
  <2>3. CASE Len(grown) <= Cap
    <3>1. Add(s, k) = grown
      BY <1>1, <1>3, <2>3, CacheConstantsOK DEF Add
    <3> QED
      BY <2>1, <2>2, <2>3, <3>1 DEF Sound, Members
  <2>4. CASE Len(grown) > Cap
    <3> DEFINE kept == SubSeq(grown, Len(grown) - Cap + 1, Len(grown))
               shift == Len(grown) - Cap
    <3>1. Add(s, k) = kept
      BY <1>1, <1>3, <2>4, CacheConstantsOK DEF Add
    <3>2. shift = 1 /\ Len(grown) = Cap + 1 /\ Cap \in Nat
      BY <1>1, <2>4, CacheConstantsOK DEF Sound
    <3>3. Len(kept) = Cap /\ \A i \in 1..Cap : kept[i] = grown[i + 1]
      BY <1>1, <3>2
    <3>4. \A i, j \in 1..Len(kept) : kept[i] = kept[j] => i = j
      <4> SUFFICES ASSUME NEW i \in 1..Cap, NEW j \in 1..Cap, kept[i] = kept[j]
                   PROVE  i = j
        BY <3>3
      <4>1. i + 1 \in 1..Len(grown) /\ j + 1 \in 1..Len(grown)
        BY <3>2
      <4>2. i + 1 = j + 1
        BY <2>1, <3>3, <4>1
      <4> QED
        BY <4>2
    <3>5. Members(kept) \subseteq keys
      <4> SUFFICES ASSUME NEW i \in 1..Cap PROVE kept[i] \in keys
        BY <3>3 DEF Members
      <4>1. i + 1 \in 1..Len(grown)
        BY <3>2
      <4> QED
        BY <2>2, <3>3, <4>1
    <3>6. Len(kept) <= Cap
      BY <3>2, <3>3
    <3> HIDE DEF kept
    <3> QED
      BY <3>1, <3>4, <3>5, <3>6 DEF Sound
  <2> QED
    BY <1>1, <2>3, <2>4, CacheConstantsOK
<1> QED
  BY <1>2, <1>3
-----------------------------------------------------------------------------
\* The types hold initially, and each step keeps them.
LEMMA ShapeInit == Init => Shape
<1> SUFFICES ASSUME Init PROVE Shape
  OBVIOUS
<1>1. <<>> \in Seq(Key)
  OBVIOUS
<1> QED
  BY <1>1 DEF Init, Shape, TypeOK, NearFound

LEMMA ShapeStep == Shape /\ [Next]_vars => Shape'
<1> SUFFICES ASSUME Shape, [Next]_vars PROVE Shape'
  OBVIOUS
<1> USE DEF Shape, TypeOK, NearFound, Goto
<1>1. ASSUME NEW r \in Req, Begin(r) PROVE Shape'
  BY <1>1 DEF Begin, PutOrder
<1>2. ASSUME NEW r \in Req, ReadExact(r) PROVE Shape'
  BY <1>2 DEF ReadExact, Return
<1>3. ASSUME NEW r \in Req, Search(r) PROVE Shape'
  <2>1. CASE Return(r, None) /\ UNCHANGED near
    BY <1>3, <2>1 DEF Search, Return
  <2>2. ASSUME NEW i \in 1..Len(index[home[r]]),
               near' = [near EXCEPT ![r] = index[home[r]][i]],
               Goto(r, "near"), UNCHANGED answer
        PROVE  Shape'
    <3>1. index[home[r]] \in Seq(Key)
      OBVIOUS
    <3>2. index[home[r]][i] \in Key
      BY <2>2, <3>1
    <3> QED
      BY <1>3, <2>2, <3>2 DEF Search
  <2> QED
    BY <1>3, <2>1, <2>2 DEF Search
<1>4. ASSUME NEW r \in Req, ReadNear(r) PROVE Shape'
  BY <1>4 DEF ReadNear, Return
<1>5. ASSUME NEW r \in Req, Store(r) PROVE Shape'
  BY <1>5 DEF Store, PutOrder, PutNext
<1>6. ASSUME NEW r \in Req, IndexOwn(r) PROVE Shape'
  <2>1. Add(index[home[r]], key[r]) \in Seq(Key)
    BY AddType
  <2> QED
    BY <1>6, <2>1 DEF IndexOwn, PutOrder, PutNext
<1>7. ASSUME NEW k \in Key, Expire(k) PROVE Shape'
  BY <1>7 DEF Expire
<1>8. ASSUME NEW p \in Process, Crash(p) PROVE Shape'
  <2>1. <<>> \in Seq(Key)
    OBVIOUS
  <2> QED
    BY <1>8, <2>1 DEF Crash
<1>9. CASE UNCHANGED vars
  BY <1>9 DEF vars
<1> QED
  BY <1>1, <1>2, <1>3, <1>4, <1>5, <1>6, <1>7, <1>8, <1>9 DEF Next, Quiet

\* Every variable keeps its type, and no step reads the payload of a key that
\* was not found.
THEOREM TypeCorrect == Spec => []TypeOK
<1>1. Shape => TypeOK
  BY DEF Shape
<1> QED
  BY ShapeInit, ShapeStep, <1>1, PTL DEF Spec
-----------------------------------------------------------------------------
LEMMA HitInit == Init => HitInv
BY ShapeInit, CacheConstantsOK
   DEF Init, HitInv, PayloadHonest, NearIsClose, HitsAreClose

\* A call that returns the payload stored under a key that serves it returns an
\* answer that is close.
LEMMA ReturnClose ==
  ASSUME HitInv, NEW r \in Req, NEW k \in Key, Serves(k, key[r]),
         Return(r, payload[k]), UNCHANGED <<key, near, payload>>
  PROVE  (NearIsClose /\ HitsAreClose)'
<1>1. /\ pc \in [Req -> {"idle", "exact", "search", "near", "set", "add", "done"}]
      /\ answer \in [Req -> Req \cup {None}] /\ payload \in [Key -> Req \cup {None}]
  BY DEF HitInv, Shape, TypeOK
<1>2. NearIsClose'
  BY <1>1 DEF HitInv, NearIsClose, Return, Goto, Serves
<1>3. payload[k] # None => key[payload[k]] = k
  BY DEF HitInv, PayloadHonest
<1>4. HitsAreClose'
  BY <1>1, <1>3 DEF HitInv, HitsAreClose, Return, Serves
<1> QED
  BY <1>2, <1>4

LEMMA HitStep == HitInv /\ [Next]_vars => HitInv'
<1> SUFFICES ASSUME HitInv, [Next]_vars PROVE HitInv'
  OBVIOUS
<1>0. /\ Shape' /\ Shape
      /\ pc \in [Req -> {"idle", "exact", "search", "near", "set", "add", "done"}]
      /\ key \in [Req -> Key] /\ near \in [Req -> Key \cup {None}]
      /\ answer \in [Req -> Req \cup {None}] /\ payload \in [Key -> Req \cup {None}]
      /\ PayloadHonest /\ NearIsClose /\ HitsAreClose
  BY ShapeStep DEF HitInv, Shape, TypeOK
<1>1. ASSUME NEW r \in Req, Begin(r) PROVE HitInv'
  BY <1>0, <1>1 DEF HitInv, Begin, PutOrder, Goto, PayloadHonest, NearIsClose, HitsAreClose, Serves
<1>2. ASSUME NEW r \in Req, ReadExact(r) PROVE HitInv'
  <2>1. PayloadHonest'
    BY <1>0, <1>2 DEF ReadExact, PayloadHonest
  <2>2. CASE Return(r, payload[key[r]])
    <3>1. Serves(key[r], key[r]) /\ key[r] \in Key
      BY <1>0 DEF Serves
    <3> QED
      BY <1>0, <1>2, <2>1, <2>2, <3>1, ReturnClose DEF ReadExact, HitInv
  <2>3. CASE Goto(r, "search") /\ UNCHANGED answer
    BY <1>0, <1>2, <2>1, <2>3
       DEF ReadExact, Goto, HitInv, NearIsClose, HitsAreClose, Serves
  <2> QED
    BY <1>2, <2>2, <2>3 DEF ReadExact
<1>3. ASSUME NEW r \in Req, Search(r) PROVE HitInv'
  <2>1. PayloadHonest'
    BY <1>0, <1>3 DEF Search, PayloadHonest
  <2>2. CASE Return(r, None) /\ UNCHANGED near
    BY <1>0, <1>3, <2>1, <2>2
       DEF Search, Return, Goto, HitInv, NearIsClose, HitsAreClose, Serves
  <2>3. ASSUME NEW i \in 1..Len(index[home[r]]),
               Close(ScoreAt(index[home[r]], i, key[r].prompt)),
               near' = [near EXCEPT ![r] = index[home[r]][i]],
               Goto(r, "near"), UNCHANGED answer
        PROVE  HitInv'
    <3>1. Serves(index[home[r]][i], key[r])
      BY <2>3 DEF Close, ScoreAt, Serves
    <3>2. NearIsClose'
      BY <1>0, <1>3, <2>3, <3>1 DEF Search, Goto, NearIsClose, Serves
    <3>3. HitsAreClose'
      BY <1>0, <1>3, <2>3 DEF Search, HitsAreClose
    <3> QED
      BY <1>0, <2>1, <3>2, <3>3 DEF HitInv
  <2> QED
    BY <1>3, <2>2, <2>3 DEF Search
<1>4. ASSUME NEW r \in Req, ReadNear(r) PROVE HitInv'
  <2>1. near[r] \in Key /\ Serves(near[r], key[r])
    BY <1>0, <1>4 DEF ReadNear, Shape, NearFound, NearIsClose
  <2>2. (NearIsClose /\ HitsAreClose)'
    BY <1>4, <2>1, ReturnClose DEF ReadNear
  <2>3. PayloadHonest'
    BY <1>0, <1>4 DEF ReadNear, PayloadHonest
  <2> QED
    BY <1>0, <2>2, <2>3 DEF HitInv
<1>5. ASSUME NEW r \in Req, Store(r) PROVE HitInv'
  <2>1. PayloadHonest'
    BY <1>0, <1>5 DEF Store, PutOrder, PutNext, PayloadHonest
  <2>2. (NearIsClose /\ HitsAreClose)'
    BY <1>0, <1>5 DEF Store, PutOrder, PutNext, Goto, NearIsClose, HitsAreClose, Serves
  <2> QED
    BY <1>0, <2>1, <2>2 DEF HitInv
<1>6. ASSUME NEW r \in Req, IndexOwn(r) PROVE HitInv'
  BY <1>0, <1>6 DEF HitInv, IndexOwn, PutOrder, PutNext, Goto, PayloadHonest, NearIsClose, HitsAreClose, Serves
<1>7. ASSUME NEW k \in Key, Expire(k) PROVE HitInv'
  BY <1>0, <1>7 DEF HitInv, Expire, PayloadHonest, NearIsClose, HitsAreClose, Serves
<1>8. ASSUME NEW p \in Process, Crash(p) PROVE HitInv'
  BY <1>0, <1>8 DEF HitInv, Crash, PayloadHonest, NearIsClose, HitsAreClose, Serves
<1>9. CASE UNCHANGED vars
  BY <1>0, <1>9 DEF HitInv, vars, PayloadHonest, NearIsClose, HitsAreClose, Serves
<1> QED
  BY <1>1, <1>2, <1>3, <1>4, <1>5, <1>6, <1>7, <1>8, <1>9 DEF Next, Quiet

\* A payload that get() returns was stored for the very key or for a prompt at
\* least as similar as the threshold asks (cache.py:89-107), for every similarity
\* between prompts, threshold, number of replicas and order of steps.
THEOREM HitsClose == Spec => []HitsAreClose
<1>1. HitInv => HitsAreClose
  BY DEF HitInv
<1> QED
  BY HitInit, HitStep, <1>1, PTL DEF Spec
-----------------------------------------------------------------------------
LEMMA IndexInit == Init => IndexInv
<1> SUFFICES ASSUME Init PROVE IndexInv
  OBVIOUS
<1>1. \A p \in Process : index[p] = <<>> /\ Len(index[p]) = 0
  BY DEF Init
<1>2. IndexSound
  BY <1>1, CacheConstantsOK DEF IndexSound
<1>3. AddsBacked
  BY DEF Init, AddsBacked
<1>4. MissesNeedExpiry
  BY <1>1 DEF Init, MissesNeedExpiry, Members
<1> QED
  BY ShapeInit, <1>2, <1>3, <1>4 DEF IndexInv

\* What IndexInv asks of the indexes.
LEMMA SoundMeaning ==
  ASSUME TypeOK
  PROVE  (\A p \in Process : Sound(index[p], Live)) <=>
           IndexSound /\ \A p \in Process : \A k \in Members(index[p]) : Backed(k)
<1>1. ASSUME NEW p \in Process PROVE Members(index[p]) \subseteq Key
  <2>1. index[p] \in Seq(Key)
    BY DEF TypeOK
  <2> QED
    BY <2>1 DEF Members
<1> QED
  BY <1>1 DEF Sound, IndexSound, Live

\* A key stays live unless a store dies with its process.
LEMMA LiveKept ==
  ASSUME Shape, \/ UNCHANGED <<payload, expired>>
                \/ \E r \in Req : Store(r)
                \/ \E k \in Key : Expire(k)
  PROVE  Live \subseteq Live'
<1>0. payload \in [Key -> Req \cup {None}] /\ key \in [Req -> Key] /\ None \notin Req
  BY CacheConstantsOK DEF Shape, TypeOK
<1>1. CASE UNCHANGED <<payload, expired>>
  BY <1>1 DEF Live, Backed
<1>2. ASSUME NEW r \in Req, Store(r) PROVE Live \subseteq Live'
  BY <1>0, <1>2 DEF Store, Live, Backed
<1>3. ASSUME NEW k \in Key, Expire(k) PROVE Live \subseteq Live'
  BY <1>0, <1>3 DEF Expire, Live, Backed
<1> QED
  BY <1>1, <1>2, <1>3

\* A step that changes no index and loses no live key keeps the indexes sound.
LEMMA SoundKept ==
  ASSUME NEW s, Sound(s, Live), Live \subseteq Live'
  PROVE  Sound(s, Live')
BY DEF Sound

LEMMA IndexStep == IndexInv /\ [Next]_vars => IndexInv'
<1> SUFFICES ASSUME IndexInv, [Next]_vars PROVE IndexInv'
  OBVIOUS
<1>0. /\ Shape' /\ Shape /\ AddsBacked /\ NearFound
      /\ \A p \in Process : Sound(index[p], Live)
      /\ \A r \in Req : pc[r] = "near" => near[r] \in Live
      /\ pc \in [Req -> {"idle", "exact", "search", "near", "set", "add", "done"}]
      /\ home \in [Req -> Process] /\ key \in [Req -> Key]
      /\ near \in [Req -> Key \cup {None}]
      /\ payload \in [Key -> Req \cup {None}]
      /\ index \in [Process -> Seq(Key)]
  <2>1. Shape' /\ Shape /\ AddsBacked /\ MissesNeedExpiry /\ NearFound
    BY ShapeStep DEF IndexInv, Shape
  <2>2. \A p \in Process : Sound(index[p], Live)
    BY <2>1, SoundMeaning DEF IndexInv, Shape, MissesNeedExpiry
  <2> QED
    BY <2>1, <2>2 DEF Shape, TypeOK, MissesNeedExpiry, Live, NearFound
<1> DEFINE NearLive == \A r \in Req : pc[r] = "near" => near[r] \in Live
<1>1. ASSUME AddsBacked', NearLive', \A p \in Process : Sound(index'[p], Live')
      PROVE  IndexInv'
  <2>1. (IndexSound /\ \A p \in Process : \A k \in Members(index[p]) : Backed(k))'
    <3>1. TypeOK'
      BY <1>0 DEF Shape
    <3>2. \A p \in Process : Members(index'[p]) \subseteq Key
      <4> SUFFICES ASSUME NEW p \in Process PROVE Members(index'[p]) \subseteq Key
        OBVIOUS
      <4>1. index'[p] \in Seq(Key)
        BY <3>1 DEF TypeOK
      <4> QED
        BY <4>1 DEF Members
    <3> QED
      BY <1>1, <3>2 DEF Sound, IndexSound, Live
  <2>2. MissesNeedExpiry'
    BY <1>1, <2>1 DEF MissesNeedExpiry, Live
  <2> QED
    BY <1>0, <1>1, <2>1, <2>2 DEF IndexInv
<1>2. ASSUME UNCHANGED index, Live \subseteq Live', AddsBacked', NearLive'
      PROVE  IndexInv'
  BY <1>0, <1>1, <1>2, SoundKept
<1>3. ASSUME NEW r \in Req, \/ Begin(r) \/ ReadExact(r) \/ ReadNear(r)
      PROVE  IndexInv'
  <2>1. UNCHANGED <<index, payload, expired, key, near>>
    BY <1>3 DEF Begin, ReadExact, ReadNear
  <2>2. \E label \in {"exact", "set", "done", "search"} :
          pc' = [pc EXCEPT ![r] = label]
    BY <1>3 DEF Begin, PutOrder, ReadExact, ReadNear, Return, Goto
  <2>3. Live' = Live
    BY <2>1 DEF Live, Backed
  <2>4. AddsBacked' /\ NearLive'
    BY <1>0, <2>1, <2>2, <2>3 DEF AddsBacked
  <2> QED
    BY <1>2, <2>1, <2>3, <2>4
<1>4. ASSUME NEW r \in Req, Search(r) PROVE IndexInv'
  <2>1. Live' = Live /\ UNCHANGED <<index, key>>
    BY <1>4 DEF Search, Live, Backed
  <2>2. CASE Return(r, None) /\ UNCHANGED near
    <3>1. AddsBacked' /\ NearLive'
      BY <1>0, <2>1, <2>2 DEF Return, Goto, AddsBacked
    <3> QED
      BY <1>2, <2>1, <3>1
  <2>3. ASSUME NEW i \in 1..Len(index[home[r]]),
               near' = [near EXCEPT ![r] = index[home[r]][i]], Goto(r, "near")
        PROVE  IndexInv'
    <3>1. index[home[r]][i] \in Live
      BY <1>0 DEF Sound, Members
    <3>2. AddsBacked' /\ NearLive'
      BY <1>0, <2>1, <2>3, <3>1 DEF Goto, AddsBacked
    <3> QED
      BY <1>2, <2>1, <3>2
  <2> QED
    BY <1>4, <2>2, <2>3 DEF Search
<1>5. ASSUME NEW r \in Req, Store(r) PROVE IndexInv'
  <2>1. Live \subseteq Live' /\ UNCHANGED <<index, key, near>>
    BY <1>0, <1>5, LiveKept DEF Store
  <2>2. key[r] \in Live'
    BY <1>0, <1>5, CacheConstantsOK DEF Store, Live, Backed
  <2>3. AddsBacked' /\ NearLive'
    BY <1>0, <1>5, <2>1, <2>2 DEF Store, PutOrder, PutNext, Goto, AddsBacked
  <2> QED
    BY <1>2, <2>1, <2>3
<1>6. ASSUME NEW r \in Req, IndexOwn(r) PROVE IndexInv'
  <2>1. Live' = Live /\ UNCHANGED <<key, near>>
    BY <1>6 DEF IndexOwn, Live, Backed
  <2>2. AddsBacked' /\ NearLive'
    BY <1>0, <1>6, <2>1 DEF IndexOwn, PutOrder, PutNext, Goto, AddsBacked
  <2>3. key[r] \in Live
    BY <1>0, <1>6 DEF IndexOwn, PutOrder, PutNext, AddsBacked
  <2>4. Sound(Add(index[home[r]], key[r]), Live)
    BY <1>0, <2>3, AddSound
  <2>5. ASSUME NEW p \in Process PROVE Sound(index'[p], Live')
    <3>1. CASE p = home[r]
      BY <1>0, <1>6, <2>1, <2>4, <3>1 DEF IndexOwn
    <3>2. CASE p # home[r]
      BY <1>0, <1>6, <2>1, <3>2 DEF IndexOwn
    <3> QED
      BY <3>1, <3>2
  <2> QED
    BY <1>1, <2>2, <2>5
<1>7. ASSUME NEW k \in Key, Expire(k) PROVE IndexInv'
  <2>1. Live \subseteq Live' /\ UNCHANGED <<index, key, near, pc>>
    BY <1>0, <1>7, LiveKept DEF Expire
  <2>2. AddsBacked' /\ NearLive'
    BY <1>0, <2>1 DEF AddsBacked
  <2> QED
    BY <1>2, <2>1, <2>2
<1>8. ASSUME NEW p \in Process, Crash(p) PROVE IndexInv'
  <2>1. UNCHANGED <<key, near, home, expired>>
    BY <1>8 DEF Crash
  <2>2. ASSUME NEW q \in Process PROVE index'[q] = <<>> \/ index'[q] = index[q]
    BY <1>0, <1>8, <2>2 DEF Crash
  <2>3. \A r \in Req : pc'[r] = pc[r] \/ pc'[r] = "done"
    BY <1>0, <1>8 DEF Crash
  <2>4. ASSUME NEW q \in Process, NEW keys PROVE Sound(<<>>, keys)
    <3>1. Len(<<>>) = 0
      OBVIOUS
    <3> QED
      BY <3>1, CacheConstantsOK DEF Sound, Members
  <2>5. CASE SharedStore
    <3>1. Live' = Live
      BY <1>8, <2>1, <2>5 DEF Crash, Live, Backed
    <3>2. AddsBacked' /\ NearLive'
      BY <1>0, <2>1, <2>3, <3>1 DEF AddsBacked
    <3>3. \A q \in Process : Sound(index'[q], Live')
      BY <1>0, <2>2, <2>4, <3>1
    <3> QED
      BY <1>1, <3>2, <3>3
  <2>6. CASE ~SharedStore
    \* The only process dies: no call is midway and the index is empty.
    <3>1. \A q \in Process : q = p
      BY <2>6, CacheConstantsOK
    <3>2. \A r \in Req : pc'[r] \notin {"add", "near"}
      BY <1>0, <1>8, <3>1 DEF Crash, Midway
    <3>3. \A q \in Process : Sound(index'[q], Live')
      BY <1>0, <1>8, <2>4, <3>1 DEF Crash
    <3> QED
      BY <1>1, <3>2, <3>3 DEF AddsBacked
  <2> QED
    BY <2>5, <2>6
<1>9. CASE UNCHANGED vars
  <2>1. Live' = Live /\ UNCHANGED <<index, key, near, pc>>
    BY <1>9 DEF vars, Live, Backed
  <2> QED
    BY <1>0, <1>2, <2>1 DEF AddsBacked
<1> QED
  BY <1>3, <1>4, <1>5, <1>6, <1>7, <1>8, <1>9 DEF Next, Quiet

\* Every index stays within its bound and holds no key twice (cache.py:60-69),
\* for every bound, number of replicas and order of steps.
THEOREM IndexesSound == Spec => []IndexSound
<1>1. IndexInv => IndexSound
  BY DEF IndexInv
<1> QED
  BY IndexInit, IndexStep, <1>1, PTL DEF Spec

\* A payload that a similar prompt leads to is there unless its TTL took it
\* (cache.py:104-107), for every bound, number of replicas and order of steps.
THEOREM MissesExplained == Spec => []MissesNeedExpiry
<1>1. IndexInv => MissesNeedExpiry
  BY DEF IndexInv
<1> QED
  BY IndexInit, IndexStep, <1>1, PTL DEF Spec
=============================================================================
