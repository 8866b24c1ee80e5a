---------------------------- MODULE SingleFlight ----------------------------
(***************************************************************************)
(* What POST /v1/complete promises about payloads, whatever the cache, the *)
(* coalescing locks, timers and crashes do in between: a payload that is   *)
(* answered was returned by an upstream call made for the same cache key,  *)
(* a request makes at most one such call, it answers with the result of    *)
(* its own call once it has one, and an answer is final.                   *)
(***************************************************************************)
CONSTANTS Req, Key, None

VARIABLES
  asked,     \* key each request asked for
  fetched,   \* requests whose own upstream call returned a completion
  reply      \* request whose payload was answered, or an error

vars == <<asked, fetched, reply>>

Unavailable   == "unavailable"    \* HTTP 503: every provider failed
InternalError == "error"          \* HTTP 500: the handler raised

Init ==
  /\ asked = [r \in Req |-> None]
  /\ fetched = {}
  /\ reply = [r \in Req |-> None]

Open(r) == asked[r] # None /\ reply[r] = None

Ask(r, k) ==
  /\ asked[r] = None
  /\ asked' = [asked EXCEPT ![r] = k]
  /\ UNCHANGED <<fetched, reply>>

Fetch(r) ==
  /\ Open(r) /\ r \notin fetched
  /\ fetched' = fetched \cup {r}
  /\ UNCHANGED <<asked, reply>>

\* What r may answer: the payload of its own call, else any for the same key.
Answers(r) ==
  IF r \in fetched
  THEN {r, InternalError}
  ELSE {Unavailable, InternalError} \cup {f \in fetched : asked[f] = asked[r]}

\* Fetching and answering are one step where nothing is stored in between.
FetchAndAnswer(r) ==
  /\ Open(r) /\ r \notin fetched
  /\ fetched' = fetched \cup {r}
  /\ reply' = [reply EXCEPT ![r] = r]
  /\ UNCHANGED asked

Answer(r) ==
  /\ Open(r)
  /\ \E a \in Answers(r) : reply' = [reply EXCEPT ![r] = a]
  /\ UNCHANGED <<asked, fetched>>

Next ==
  \E r \in Req :
    \/ \E k \in Key : Ask(r, k)
    \/ Fetch(r) \/ Answer(r) \/ FetchAndAnswer(r)

Spec == Init /\ [][Next]_vars
=============================================================================
