-------------------------------- MODULE Tokens --------------------------------
(***************************************************************************)
(* The cache of Cognito's public keys in one worker process                *)
(* (app/core/security.py), and the requests whose tokens it verifies.      *)
(*                                                                         *)
(* Workers share nothing.  Cognito may publish other keys at any moment.   *)
(* Instants are kept as ages, so that time itself needs no bound; one      *)
(* action is one await, or what a task does between two.                   *)
(***************************************************************************)
EXTENDS Integers

CONSTANTS
  Task,         \* each serves one request after another
  Key,
  JWKS_TTL,
  FetchTime,    \* the longest a fetch takes before httpx times out
  NoKid

(* An hour, and a timeout of 5 seconds for each phase of the fetch.        *)
ASSUME FetchTimeAssumption == FetchTime \in Nat
ASSUME JWKS_TTLAssumption == JWKS_TTL \in Nat /\ 2 * FetchTime <= JWKS_TTL
ASSUME NoKidAssumption == NoKid \notin Key

(* _jwks_cache is None. *)
NoKeys == {NoKid}

VARIABLES
  published,    \* the keys at settings.cognito_jwks_url
  recent,       \* history: the key sets published i units of time ago
  cache,        \* _jwks_cache
  age,          \* the time since _jwks_fetched_at, if within JWKS_TTL + 1
  phase,
  kid,          \* the key a task's token names
  asked,        \* the time since its fetch began
  response      \* what Cognito answered it

cached == <<cache, age>>
vars == <<published, recent, cached, phase, kid, asked, response>>

Age == 0..JWKS_TTL
Rest == {"idle", "accepted", "unknown_key", "expired", "failed"}
Fetching == {"fetch", "answered", "close"}
Phase == Rest \cup {"decode"} \cup Fetching

Init ==
  /\ published \in SUBSET Key
  /\ recent = [i \in Age |-> {published}]
  /\ cache = NoKeys
  /\ age = 0
  /\ phase = [t \in Task |-> "idle"]
  /\ kid = [t \in Task |-> NoKid]
  /\ asked = [t \in Task |-> 0]
  /\ response = [t \in Task |-> NoKeys]

Goto(t, p) == phase' = [phase EXCEPT ![t] = p]

-----------------------------------------------------------------------------

(* Cognito rotates its keys. *)
Rotate ==
  \E keys \in SUBSET Key :
    /\ published' = keys
    /\ recent' = [recent EXCEPT ![0] = @ \cup {keys}]
    /\ UNCHANGED <<cached, phase, kid, asked, response>>

Older(a, bound) == IF a > bound THEN a ELSE a + 1

Tick ==
  /\ \A t \in Task : phase[t] \in Fetching => asked[t] < FetchTime
  /\ recent' = [i \in Age |-> IF i = 0 THEN {published} ELSE recent[i - 1]]
  /\ age' = IF cache = NoKeys THEN age ELSE Older(age, JWKS_TTL)
  /\ asked' = [t \in Task |-> IF phase[t] \in Fetching THEN asked[t] + 1 ELSE asked[t]]
  /\ UNCHANGED <<published, cache, phase, kid, response>>

(* The process is started again: the requests it served are lost. *)
Restart ==
  /\ cache' = NoKeys
  /\ age' = 0
  /\ phase' = [t \in Task |-> "idle"]
  /\ kid' = [t \in Task |-> NoKid]
  /\ asked' = [t \in Task |-> 0]
  /\ response' = [t \in Task |-> NoKeys]
  /\ UNCHANGED <<published, recent>>

-----------------------------------------------------------------------------

(* A request with a token: a header without "kid" is refused at once. *)
Arrive(t) ==
  /\ phase[t] \in Rest
  /\ \/ \E k \in Key : kid' = [kid EXCEPT ![t] = k] /\ Goto(t, "decode")
     \/ kid' = [kid EXCEPT ![t] = NoKid] /\ Goto(t, "failed")
  /\ UNCHANGED <<published, recent, cached, asked, response>>

Fresh == cache # NoKeys /\ age <= JWKS_TTL

(* jwt.decode: the key by its kid, then the signature, then the claims. *)
Verify(t) ==
  IF kid[t] \in cache THEN Goto(t, "accepted") \/ Goto(t, "expired")
                      ELSE Goto(t, "unknown_key")

DecodeCached(t) ==
  /\ phase[t] = "decode"
  /\ Fresh
  /\ Verify(t)
  /\ kid' = [kid EXCEPT ![t] = NoKid]
  /\ UNCHANGED <<published, recent, cached, asked, response>>

BeginFetch(t) ==
  /\ phase[t] = "decode"
  /\ ~Fresh
  /\ Goto(t, "fetch")
  /\ asked' = [asked EXCEPT ![t] = 0]
  /\ UNCHANGED <<published, recent, cached, kid, response>>

(* Cognito answers with what it publishes then. *)
Answer(t) ==
  /\ phase[t] = "fetch"
  /\ response' = [response EXCEPT ![t] = published]
  /\ Goto(t, "answered")
  /\ UNCHANGED <<published, recent, cached, kid, asked>>

(* Mutant: the cache is dated when the answer is there. *)
AssignDatedNow(t) ==
  /\ phase[t] = "answered"
  /\ cache' = response[t]
  /\ age' = 0
  /\ response' = [response EXCEPT ![t] = NoKeys]
  /\ Goto(t, "close")
  /\ UNCHANGED <<published, recent, kid, asked>>

(* The cache is dated when the fetch began. *)
Assign(t) ==
  /\ phase[t] = "answered"
  /\ cache' = response[t]
  /\ age' = asked[t]
  /\ response' = [response EXCEPT ![t] = NoKeys]
  /\ Goto(t, "close")
  /\ UNCHANGED <<published, recent, kid, asked>>

(* Closing the client awaits; the function then returns the global, which  *)
(* another task may have assigned.                                         *)
Return(t) ==
  /\ phase[t] = "close"
  /\ Verify(t)
  /\ kid' = [kid EXCEPT ![t] = NoKid]
  /\ asked' = [asked EXCEPT ![t] = 0]
  /\ UNCHANGED <<published, recent, cached, response>>

(* Mutant: the body of an error answer is cached. *)
CacheError(t) ==
  /\ phase[t] \in {"fetch", "answered"}
  /\ cache' = {}
  /\ age' = asked[t]
  /\ response' = [response EXCEPT ![t] = NoKeys]
  /\ Goto(t, "close")
  /\ UNCHANGED <<published, recent, kid, asked>>

(* A timeout, an error status, a connection that fails: what is cached,    *)
(* however old, stays.                                                     *)
FetchFails(t) ==
  /\ phase[t] \in Fetching
  /\ Goto(t, "failed")
  /\ kid' = [kid EXCEPT ![t] = NoKid]
  /\ asked' = [asked EXCEPT ![t] = 0]
  /\ response' = [response EXCEPT ![t] = NoKeys]
  /\ UNCHANGED <<published, recent, cached>>

-----------------------------------------------------------------------------

Decode(t) ==
  \/ DecodeCached(t)
  \/ BeginFetch(t)
  \/ Answer(t)
  \/ Assign(t)
  \/ Return(t)
  \/ FetchFails(t)

Next ==
  \/ Rotate
  \/ Tick
  \/ Restart
  \/ \E t \in Task : Arrive(t) \/ Decode(t)

Spec == Init /\ [][Next]_vars

-----------------------------------------------------------------------------

TypeOK ==
  /\ published \in SUBSET Key
  /\ recent \in [Age -> SUBSET SUBSET Key]
  /\ cache \in (SUBSET Key) \cup {NoKeys}
  /\ age \in 0..JWKS_TTL + 1
  /\ phase \in [Task -> Phase]
  /\ kid \in [Task -> Key \cup {NoKid}]
  /\ asked \in [Task -> 0..FetchTime]
  /\ response \in [Task -> (SUBSET Key) \cup {NoKeys}]

-----------------------------------------------------------------------------

Publishes(k) == \E i \in Age : \E keys \in recent[i] : k \in keys
Withdraws(k) == \E i \in Age : \E keys \in recent[i] : k \notin keys
Becomes(t, p) == phase[t] # p /\ phase'[t] = p

(* A token is accepted only if Cognito published its key at some moment of *)
(* the last JWKS_TTL: neither a slow fetch, nor the older answer of one    *)
(* task assigned after the newer one of another, keeps a withdrawn key for *)
(* longer.                                                                 *)
AcceptedWasPublished ==
  [][\A t \in Task : Becomes(t, "accepted") => Publishes(kid[t])]_vars

(* A token is refused for its key only if Cognito did not publish the key  *)
(* at some moment of the last JWKS_TTL: a new key is waited for no longer, *)
(* and a fetch that fails makes no good token bad.                         *)
RefusedWasNotPublished ==
  [][\A t \in Task : Becomes(t, "unknown_key") => Withdraws(kid[t])]_vars

=============================================================================
