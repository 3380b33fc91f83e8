----------------------------- MODULE TokensProofs -----------------------------
(***************************************************************************)
(* Proofs about Tokens: the key set a token is judged by was published at  *)
(* most JWKS_TTL ago, for any number of tasks and keys and any timeout     *)
(* that fits twice into the TTL.                                           *)
(***************************************************************************)
EXTENDS Tokens, TLAPS

(* The key set was published at some moment of the last a units of time.   *)
PublishedWithin(keys, a) == \E i \in 0..a : i \in Age /\ keys \in recent[i]

RecentOK == published \in recent[0]

(* What is cached is no older than its date says.                          *)
CacheOK == cache # NoKeys /\ age <= JWKS_TTL => PublishedWithin(cache, age)

(* Nor is an answer older than the fetch that got it.                      *)
AnswerOK(t) ==
  phase[t] = "answered" =>
    response[t] \in SUBSET Key /\ PublishedWithin(response[t], asked[t])

(* Who closes the client has filled the cache: another task may have dated *)
(* it back since, but by one fetch at most.                                *)
CloseOK(t) == phase[t] = "close" => cache # NoKeys /\ age <= asked[t] + FetchTime

IInv ==
  /\ TypeOK
  /\ RecentOK
  /\ CacheOK
  /\ \A t \in Task : AnswerOK(t)
  /\ \A t \in Task : CloseOK(t)

-----------------------------------------------------------------------------

LEMMA Numbers ==
  /\ FetchTime \in Nat
  /\ JWKS_TTL \in Nat
  /\ FetchTime <= JWKS_TTL
  /\ 2 * FetchTime <= JWKS_TTL
  /\ 0 \in Age
  BY FetchTimeAssumption, JWKS_TTLAssumption DEF Age

LEMMA NoKeysIsNoSet == NoKeys \notin SUBSET Key
  BY NoKidAssumption DEF NoKeys

(* Rotations and the clock only add to what was published within a time.   *)
LEMMA WithinGrows ==
  ASSUME NEW keys, NEW a \in Nat, PublishedWithin(keys, a),
         \A i \in Age : recent[i] \subseteq recent'[i]
  PROVE  PublishedWithin(keys, a)'
  BY DEF PublishedWithin

LEMMA WithinAges ==
  ASSUME TypeOK, Tick, NEW keys, NEW a \in Nat, a < JWKS_TTL, PublishedWithin(keys, a)
  PROVE  \E i \in 0..(a + 1) : i \in Age /\ keys \in recent'[i]
  <1>1. PICK i \in 0..a : i \in Age /\ keys \in recent[i]
    BY DEF PublishedWithin
  <1>2. /\ i + 1 \in 0..(a + 1)
        /\ i + 1 \in Age
        /\ i + 1 # 0
        /\ (i + 1) - 1 = i
    BY <1>1, Numbers DEF Age
  <1>3. recent'[i + 1] = recent[i]
    BY <1>2 DEF Tick
  <1> QED
    BY <1>1, <1>2, <1>3

-----------------------------------------------------------------------------

LEMMA InvInit == Init => IInv
  <1> SUFFICES ASSUME Init PROVE IInv
    OBVIOUS
  <1>1. TypeOK
    BY Numbers DEF Init, TypeOK, Phase, Rest, Age
  <1>2. RecentOK
    BY Numbers DEF Init, RecentOK
  <1>3. CacheOK
    BY DEF Init, CacheOK
  <1>4. \A t \in Task : AnswerOK(t) /\ CloseOK(t)
    BY DEF Init, AnswerOK, CloseOK
  <1> QED
    BY <1>1, <1>2, <1>3, <1>4 DEF IInv

LEMMA RotateKeeps == IInv /\ Rotate => IInv'
  <1> SUFFICES ASSUME IInv, Rotate PROVE IInv'
    OBVIOUS
  <1>0. /\ TypeOK /\ RecentOK /\ CacheOK
        /\ \A t \in Task : AnswerOK(t)
        /\ \A t \in Task : CloseOK(t)
    BY DEF IInv
  <1>1. PICK keys \in SUBSET Key :
          published' = keys /\ recent' = [recent EXCEPT ![0] = @ \cup {keys}]
    BY DEF Rotate
  <1>2. UNCHANGED <<cached, phase, kid, asked, response>>
    BY DEF Rotate
  <1>3. /\ recent' \in [Age -> SUBSET SUBSET Key]
        /\ \A i \in Age : recent[i] \subseteq recent'[i]
        /\ published' \in recent'[0]
    BY <1>0, <1>1, Numbers DEF TypeOK
  <1>4. TypeOK'
    BY <1>0, <1>1, <1>2, <1>3 DEF TypeOK, cached
  <1>5. CacheOK'
    <2>1. age \in Nat
      BY <1>0, Numbers DEF TypeOK
    <2> QED
      BY <1>0, <1>2, <1>3, <2>1, WithinGrows DEF CacheOK, cached, PublishedWithin
  <1>6. \A t \in Task : AnswerOK(t)'
    <2> SUFFICES ASSUME NEW t \in Task PROVE AnswerOK(t)'
      OBVIOUS
    <2>1. asked[t] \in Nat
      BY <1>0, Numbers DEF TypeOK
    <2> QED
      BY <1>0, <1>2, <1>3, <2>1 DEF AnswerOK, PublishedWithin
  <1>7. \A t \in Task : CloseOK(t)'
    BY <1>0, <1>2 DEF CloseOK, cached
  <1> QED
    BY <1>3, <1>4, <1>5, <1>6, <1>7 DEF IInv, RecentOK

LEMMA TickKeeps == IInv /\ Tick => IInv'
  <1> SUFFICES ASSUME IInv, Tick PROVE IInv'
    OBVIOUS
  <1>0. /\ TypeOK /\ RecentOK /\ CacheOK
        /\ \A t \in Task : AnswerOK(t)
        /\ \A t \in Task : CloseOK(t)
    BY DEF IInv
  <1>1. /\ \A t \in Task : phase[t] \in Fetching => asked[t] < FetchTime
        /\ recent' = [i \in Age |-> IF i = 0 THEN {published} ELSE recent[i - 1]]
        /\ age' = IF cache = NoKeys THEN age ELSE Older(age, JWKS_TTL)
        /\ asked' = [t \in Task |-> IF phase[t] \in Fetching THEN asked[t] + 1
                                                             ELSE asked[t]]
        /\ UNCHANGED <<published, cache, phase, kid, response>>
    BY DEF Tick
  <1>2. \A t \in Task : asked[t] \in 0..FetchTime
    BY <1>0 DEF TypeOK
  <1>3. age \in 0..JWKS_TTL + 1
    BY <1>0 DEF TypeOK
  <1>4. TypeOK'
    <2>1. recent' \in [Age -> SUBSET SUBSET Key]
      <3>1. \A i \in Age : i # 0 => i - 1 \in Age
        BY Numbers DEF Age
      <3> QED
        BY <1>0, <1>1, <3>1 DEF TypeOK
    <2>2. age' \in 0..JWKS_TTL + 1
      BY <1>1, <1>3, Numbers DEF Older
    <2>3. asked' \in [Task -> 0..FetchTime]
      BY <1>1, <1>2, Numbers
    <2> QED
      BY <1>0, <1>1, <2>1, <2>2, <2>3 DEF TypeOK
  <1>5. RecentOK'
    BY <1>1, Numbers DEF RecentOK
  <1>6. CacheOK'
    <2> SUFFICES ASSUME cache # NoKeys, age' <= JWKS_TTL
                 PROVE  \E i \in 0..age' : i \in Age /\ cache \in recent'[i]
      BY <1>1 DEF CacheOK, PublishedWithin
    <2>1. age' = age + 1 /\ age < JWKS_TTL /\ age \in Nat
      BY <1>1, <1>3, Numbers DEF Older
    <2>2. PublishedWithin(cache, age)
      BY <1>0, <2>1, Numbers DEF CacheOK
    <2>3. \E i \in 0..(age + 1) : i \in Age /\ cache \in recent'[i]
      BY <1>0, <2>1, <2>2, WithinAges
    <2> QED
      BY <2>1, <2>3
  <1>7. \A t \in Task : AnswerOK(t)'
    <2> SUFFICES ASSUME NEW t \in Task, phase[t] = "answered"
                 PROVE  /\ response[t] \in SUBSET Key
                        /\ \E i \in 0..asked'[t] : i \in Age /\ response[t] \in recent'[i]
      BY <1>1 DEF AnswerOK, PublishedWithin
    <2>1. asked'[t] = asked[t] + 1 /\ asked[t] < JWKS_TTL /\ asked[t] \in Nat
      BY <1>1, <1>2, Numbers DEF Fetching
    <2>2. response[t] \in SUBSET Key /\ PublishedWithin(response[t], asked[t])
      BY <1>0 DEF AnswerOK
    <2>3. \E i \in 0..(asked[t] + 1) : i \in Age /\ response[t] \in recent'[i]
      BY <1>0, <2>1, <2>2, WithinAges
    <2> QED
      BY <2>1, <2>2, <2>3
  <1>8. \A t \in Task : CloseOK(t)'
    <2> SUFFICES ASSUME NEW t \in Task, phase[t] = "close"
                 PROVE  cache # NoKeys /\ age' <= asked'[t] + FetchTime
      BY <1>1 DEF CloseOK
    <2>1. cache # NoKeys /\ age <= asked[t] + FetchTime
      BY <1>0 DEF CloseOK
    <2>2. asked'[t] = asked[t] + 1 /\ asked[t] < FetchTime /\ asked[t] \in Nat
      BY <1>1, <1>2, Numbers DEF Fetching
    <2>3. age' = age + 1
      BY <1>1, <1>3, <2>1, <2>2, Numbers DEF Older
    <2> QED
      BY <1>3, <2>1, <2>2, <2>3, Numbers
  <1> QED
    BY <1>4, <1>5, <1>6, <1>7, <1>8 DEF IInv

LEMMA RestartKeeps == IInv /\ Restart => IInv'
  <1> SUFFICES ASSUME IInv, Restart PROVE IInv'
    OBVIOUS
  <1>0. TypeOK /\ RecentOK
    BY DEF IInv
  <1>1. TypeOK'
    BY <1>0, Numbers DEF TypeOK, Restart, Phase, Rest
  <1>2. RecentOK' /\ CacheOK'
    BY <1>0 DEF RecentOK, CacheOK, Restart
  <1>3. \A t \in Task : AnswerOK(t)' /\ CloseOK(t)'
    BY DEF Restart, AnswerOK, CloseOK
  <1> QED
    BY <1>1, <1>2, <1>3 DEF IInv

-----------------------------------------------------------------------------

(* What a step that leaves the published sets and the cache alone keeps.   *)
LEMMA OthersKeep ==
  ASSUME IInv, UNCHANGED <<published, recent, cached>>, NEW t \in Task,
         TypeOK', AnswerOK(t)', CloseOK(t)',
         \A u \in Task \ {t} : phase'[u] = phase[u] /\ asked'[u] = asked[u]
                             /\ response'[u] = response[u]
  PROVE  IInv'
  <1>0. /\ RecentOK /\ CacheOK
        /\ \A u \in Task : AnswerOK(u)
        /\ \A u \in Task : CloseOK(u)
    BY DEF IInv
  <1>1. RecentOK' /\ CacheOK'
    BY <1>0 DEF RecentOK, CacheOK, PublishedWithin, cached
  <1>2. \A u \in Task : AnswerOK(u)'
    BY <1>0 DEF AnswerOK, PublishedWithin
  <1>3. \A u \in Task : CloseOK(u)'
    BY <1>0 DEF CloseOK, cached
  <1> QED
    BY <1>1, <1>2, <1>3 DEF IInv

LEMMA ArriveKeeps == ASSUME IInv, NEW t \in Task, Arrive(t) PROVE IInv'
  <1>0. TypeOK
    BY DEF IInv
  <1>1. /\ UNCHANGED <<published, recent, cached, asked, response>>
        /\ \/ \E k \in Key : kid' = [kid EXCEPT ![t] = k] /\ Goto(t, "decode")
           \/ kid' = [kid EXCEPT ![t] = NoKid] /\ Goto(t, "failed")
    BY DEF Arrive
  <1>2. PICK p \in {"decode", "failed"} : Goto(t, p)
    BY <1>1
  <1>3. kid' \in [Task -> Key \cup {NoKid}]
    BY <1>0, <1>1 DEF TypeOK
  <1>4. TypeOK'
    BY <1>0, <1>1, <1>2, <1>3 DEF TypeOK, Goto, Phase, Rest, cached
  <1>5. AnswerOK(t)' /\ CloseOK(t)'
    BY <1>0, <1>2 DEF TypeOK, Goto, AnswerOK, CloseOK
  <1>6. \A u \in Task \ {t} : phase'[u] = phase[u]
    BY <1>0, <1>2 DEF TypeOK, Goto
  <1> QED
    BY <1>1, <1>4, <1>5, <1>6, OthersKeep

(* A verdict, after which the task fetches nothing.                        *)
LEMMA VerdictKeeps ==
  ASSUME IInv, NEW t \in Task, Verify(t),
         UNCHANGED <<published, recent, cached, response>>,
         kid' = [kid EXCEPT ![t] = NoKid],
         asked' = asked \/ asked' = [asked EXCEPT ![t] = 0]
  PROVE  IInv'
  <1>0. TypeOK
    BY DEF IInv
  <1>1. PICK p \in {"accepted", "expired", "unknown_key"} : Goto(t, p)
    BY DEF Verify
  <1>2. asked' \in [Task -> 0..FetchTime]
    BY <1>0, Numbers DEF TypeOK
  <1>3. TypeOK'
    BY <1>0, <1>1, <1>2 DEF TypeOK, Goto, Phase, Rest, cached
  <1>4. AnswerOK(t)' /\ CloseOK(t)'
    BY <1>0, <1>1 DEF TypeOK, Goto, AnswerOK, CloseOK
  <1>5. \A u \in Task \ {t} : phase'[u] = phase[u] /\ asked'[u] = asked[u]
    BY <1>0, <1>1 DEF TypeOK, Goto
  <1> QED
    BY <1>3, <1>4, <1>5, OthersKeep

LEMMA BeginFetchKeeps == ASSUME IInv, NEW t \in Task, BeginFetch(t) PROVE IInv'
  <1>0. TypeOK
    BY DEF IInv
  <1>1. TypeOK'
    BY <1>0, Numbers DEF TypeOK, BeginFetch, Goto, Phase, Fetching, cached
  <1>2. AnswerOK(t)' /\ CloseOK(t)'
    BY <1>0 DEF TypeOK, BeginFetch, Goto, AnswerOK, CloseOK
  <1>3. \A u \in Task \ {t} : phase'[u] = phase[u] /\ asked'[u] = asked[u]
    BY <1>0 DEF TypeOK, BeginFetch, Goto
  <1> QED
    BY <1>1, <1>2, <1>3, OthersKeep DEF BeginFetch

LEMMA AnswerKeeps == ASSUME IInv, NEW t \in Task, Answer(t) PROVE IInv'
  <1>0. TypeOK /\ RecentOK
    BY DEF IInv
  <1>1. TypeOK'
    BY <1>0 DEF TypeOK, Answer, Goto, Phase, Fetching, cached
  <1>2. AnswerOK(t)'
    <2>1. /\ phase'[t] = "answered" /\ response'[t] = published /\ asked'[t] = asked[t]
          /\ recent' = recent
      BY <1>0 DEF TypeOK, Answer, Goto
    <2>2. published \in SUBSET Key /\ 0 \in 0..asked[t] /\ 0 \in Age
      BY <1>0, Numbers DEF TypeOK
    <2> QED
      BY <1>0, <2>1, <2>2 DEF RecentOK, AnswerOK, PublishedWithin
  <1>3. CloseOK(t)'
    BY <1>0 DEF TypeOK, Answer, Goto, CloseOK
  <1>4. \A u \in Task \ {t} : phase'[u] = phase[u] /\ response'[u] = response[u]
    BY <1>0 DEF TypeOK, Answer, Goto
  <1> QED
    BY <1>1, <1>2, <1>3, <1>4, OthersKeep DEF Answer

LEMMA FetchFailsKeeps == ASSUME IInv, NEW t \in Task, FetchFails(t) PROVE IInv'
  <1>0. TypeOK
    BY DEF IInv
  <1>1. TypeOK'
    BY <1>0, Numbers DEF TypeOK, FetchFails, Goto, Phase, Rest, cached
  <1>2. AnswerOK(t)' /\ CloseOK(t)'
    BY <1>0 DEF TypeOK, FetchFails, Goto, AnswerOK, CloseOK
  <1>3. \A u \in Task \ {t} : /\ phase'[u] = phase[u] /\ asked'[u] = asked[u]
                              /\ response'[u] = response[u]
    BY <1>0 DEF TypeOK, FetchFails, Goto
  <1> QED
    BY <1>1, <1>2, <1>3, OthersKeep DEF FetchFails

(* Whoever is about to return is told a set at most one fetch older than   *)
(* its own.                                                                *)
LEMMA AssignKeeps == ASSUME IInv, NEW t \in Task, Assign(t) PROVE IInv'
  <1>0. /\ TypeOK /\ RecentOK
        /\ \A u \in Task : AnswerOK(u)
        /\ \A u \in Task : CloseOK(u)
    BY DEF IInv
  <1>1. /\ phase[t] = "answered"
        /\ cache' = response[t]
        /\ age' = asked[t]
        /\ response' = [response EXCEPT ![t] = NoKeys]
        /\ phase' = [phase EXCEPT ![t] = "close"]
        /\ UNCHANGED <<published, recent, kid, asked>>
    BY DEF Assign, Goto
  <1>2. /\ response[t] \in SUBSET Key
        /\ PublishedWithin(response[t], asked[t])
    BY <1>0, <1>1 DEF AnswerOK
  <1>3. \A u \in Task : asked[u] \in 0..FetchTime
    BY <1>0 DEF TypeOK
  <1>4. TypeOK'
    <2>1. cache' \in (SUBSET Key) \cup {NoKeys}
      BY <1>1, <1>2
    <2>2. age' \in 0..JWKS_TTL + 1
      BY <1>1, <1>3, Numbers
    <2> QED
      BY <1>0, <1>1, <2>1, <2>2 DEF TypeOK, Phase, Fetching
  <1>5. RecentOK'
    BY <1>0, <1>1 DEF RecentOK
  <1>6. CacheOK'
    BY <1>1, <1>2 DEF CacheOK, PublishedWithin
  <1>7. \A u \in Task : AnswerOK(u)'
    BY <1>0, <1>1 DEF TypeOK, AnswerOK, PublishedWithin
  <1>8. \A u \in Task : CloseOK(u)'
    <2>1. cache' # NoKeys
      BY <1>1, <1>2, NoKeysIsNoSet
    <2>2. \A u \in Task : age' <= asked'[u] + FetchTime
      BY <1>1, <1>3, Numbers
    <2> QED
      BY <2>1, <2>2 DEF CloseOK
  <1> QED
    BY <1>4, <1>5, <1>6, <1>7, <1>8 DEF IInv

LEMMA InvStep == IInv /\ [Next]_vars => IInv'
  <1> SUFFICES ASSUME IInv, [Next]_vars PROVE IInv'
    OBVIOUS
  <1>1. CASE Rotate
    BY <1>1, RotateKeeps
  <1>2. CASE Tick
    BY <1>2, TickKeeps
  <1>3. CASE Restart
    BY <1>3, RestartKeeps
  <1>4. ASSUME NEW t \in Task, Arrive(t) PROVE IInv'
    BY <1>4, ArriveKeeps
  <1>5. ASSUME NEW t \in Task, DecodeCached(t) PROVE IInv'
    BY <1>5, VerdictKeeps DEF DecodeCached
  <1>6. ASSUME NEW t \in Task, BeginFetch(t) PROVE IInv'
    BY <1>6, BeginFetchKeeps
  <1>7. ASSUME NEW t \in Task, Answer(t) PROVE IInv'
    BY <1>7, AnswerKeeps
  <1>8. ASSUME NEW t \in Task, Assign(t) PROVE IInv'
    BY <1>8, AssignKeeps
  <1>9. ASSUME NEW t \in Task, Return(t) PROVE IInv'
    BY <1>9, VerdictKeeps DEF Return
  <1>10. ASSUME NEW t \in Task, FetchFails(t) PROVE IInv'
    BY <1>10, FetchFailsKeeps
  <1>11. CASE UNCHANGED vars
    BY <1>11 DEF vars, cached, IInv, TypeOK, RecentOK, CacheOK, AnswerOK, CloseOK,
                 PublishedWithin
  <1> QED
    BY <1>1, <1>2, <1>3, <1>4, <1>5, <1>6, <1>7, <1>8, <1>9, <1>10, <1>11
    DEF Next, Decode

(* What is cached or answered is no older than its date, in every          *)
(* reachable state.                                                        *)
THEOREM TokensInvariant == Spec => []IInv
  <1> QED
    BY InvInit, InvStep, PTL DEF Spec

(* Every variable keeps its type; in particular no fetch outlasts its      *)
(* timeout and the age of the cache stays within its bound.                *)
THEOREM TokensTyped == Spec => []TypeOK
  <1>1. IInv => TypeOK
    BY DEF IInv
  <1> QED
    BY <1>1, TokensInvariant, PTL

-----------------------------------------------------------------------------

(* A verdict is reached on a set published within the TTL: the cache is    *)
(* fresh, or was assigned by a fetch that is about to return.              *)
LEMMA JudgedByRecent ==
  ASSUME IInv, NEW t \in Task, DecodeCached(t) \/ Return(t)
  PROVE  \E i \in Age : cache \in recent[i]
  <1>0. /\ TypeOK /\ CacheOK
        /\ CloseOK(t)
    BY DEF IInv
  <1>1. cache # NoKeys /\ age <= JWKS_TTL
    <2>1. CASE DecodeCached(t)
      BY <2>1 DEF DecodeCached, Fresh
    <2>2. CASE Return(t)
      <3>1. cache # NoKeys /\ age <= asked[t] + FetchTime
        BY <1>0, <2>2 DEF Return, CloseOK
      <3>2. age \in Int /\ asked[t] \in 0..FetchTime
        BY <1>0, Numbers DEF TypeOK
      <3> QED
        BY <3>1, <3>2, Numbers
    <2> QED
      BY <2>1, <2>2
  <1> QED
    BY <1>0, <1>1 DEF CacheOK, PublishedWithin

(* Only these two steps judge a token by its key.                          *)
LEMMA OnlyTheyJudge ==
  ASSUME IInv, [Next]_vars, NEW t \in Task, NEW p \in {"accepted", "unknown_key"},
         Becomes(t, p)
  PROVE  /\ DecodeCached(t) \/ Return(t)
         /\ Verify(t)
  <1>0. TypeOK
    BY DEF IInv
  <1>1. phase' # phase /\ phase'[t] = p
    BY DEF Becomes
  <1>2. ~Rotate /\ ~Tick /\ ~Restart
    BY <1>1 DEF Rotate, Tick, Restart
  <1>3. PICK u \in Task : Arrive(u) \/ Decode(u)
    BY <1>1, <1>2 DEF Next, vars
  <1>4. ~Arrive(u)
    BY <1>0, <1>1 DEF Arrive, Goto, TypeOK, Becomes
  <1>5. ~(BeginFetch(u) \/ Answer(u) \/ Assign(u) \/ FetchFails(u))
    BY <1>0 DEF BeginFetch, Answer, Assign, FetchFails, Goto, TypeOK, Becomes
  <1>6. (DecodeCached(u) \/ Return(u)) /\ Verify(u)
    BY <1>3, <1>4, <1>5 DEF Decode, DecodeCached, Return
  <1>7. u = t
    BY <1>0, <1>6 DEF Verify, Goto, TypeOK, Becomes
  <1> QED
    BY <1>6, <1>7

LEMMA AcceptedStep ==
  IInv /\ [Next]_vars => [\A t \in Task : Becomes(t, "accepted") => Publishes(kid[t])]_vars
  <1> SUFFICES ASSUME IInv, [Next]_vars, NEW t \in Task, Becomes(t, "accepted")
               PROVE  Publishes(kid[t])
    OBVIOUS
  <1>0. TypeOK
    BY DEF IInv
  <1>1. (DecodeCached(t) \/ Return(t)) /\ Verify(t)
    BY OnlyTheyJudge
  <1>2. kid[t] \in cache
    BY <1>0, <1>1 DEF Verify, Goto, Becomes, TypeOK
  <1> QED
    BY <1>1, <1>2, JudgedByRecent DEF Publishes

LEMMA RefusedStep ==
  IInv /\ [Next]_vars => [\A t \in Task : Becomes(t, "unknown_key") => Withdraws(kid[t])]_vars
  <1> SUFFICES ASSUME IInv, [Next]_vars, NEW t \in Task, Becomes(t, "unknown_key")
               PROVE  Withdraws(kid[t])
    OBVIOUS
  <1>0. TypeOK
    BY DEF IInv
  <1>1. (DecodeCached(t) \/ Return(t)) /\ Verify(t)
    BY OnlyTheyJudge
  <1>2. kid[t] \notin cache
    BY <1>0, <1>1 DEF Verify, Goto, Becomes, TypeOK
  <1> QED
    BY <1>1, <1>2, JudgedByRecent DEF Withdraws

(* No withdrawn key is honoured for longer than the TTL, whatever fetches  *)
(* overlap: a fetch is dated when it begins, so the date of what is cached *)
(* can go back, but never ahead of the answer.                             *)
THEOREM AcceptedKept == Spec => AcceptedWasPublished
  <1> QED
    BY TokensInvariant, AcceptedStep, PTL DEF Spec, AcceptedWasPublished

(* No published key is missed for longer than the TTL.                     *)
THEOREM RefusedKept == Spec => RefusedWasNotPublished
  <1> QED
    BY TokensInvariant, RefusedStep, PTL DEF Spec, RefusedWasNotPublished
=============================================================================
