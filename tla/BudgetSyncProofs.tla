-------------------------- MODULE BudgetSyncProofs --------------------------
(***************************************************************************)
(* Theorems about BudgetSync: its requests are those of BudgetStore, the   *)
(* row lock keeps broadcasts apart, rooms hold live handlers, and an       *)
(* update is the last word its audience heard, for any number of workers,  *)
(* requests and connections.                                               *)
(***************************************************************************)
EXTENDS BudgetSync, BudgetStoreProofs

USE SnapshotAssumption

-----------------------------------------------------------------------------
(* The steps of BudgetSync, seen from BudgetStore *)

SyncQuiet ==
  \/ \E r \in Request : BroadcastNext(r) \/ BroadcastEnd(r)
  \/ \E c \in Client :
       WsReject(c) \/ WsConnect(c) \/ WsHandle(c) \/ PeerClose(c) \/ WsError(c)
  \/ \E w \in Worker : Crash(w)

(* The sockets, the rooms and the crashes leave the database alone. *)
LEMMA QuietLeavesStore == SyncQuiet => UNCHANGED storeVars
  BY DEF SyncQuiet, BroadcastNext, BroadcastEnd, WsReject, WsConnect, WsHandle,
         WsLoadBudget, WsLoadEntries, WsPush, WsDisconnect, PeerClose, WsError, Crash

LEMMA StoreStepOf == SyncNext => SyncQuiet \/ AnyNext
  BY DEF SyncNext, SyncQuiet, AnyNext, StoreNext, Proceed, Arrive, Handle, Query,
         RespondToGet, BroadcastToNobody, BroadcastBegin, BroadcastBreak, Finish,
         Orphan, Cancel, Abort

LEMMA SyncStoreStep == [SyncNext]_vars => [AnyNext]_storeVars
  BY QuietLeavesStore, StoreStepOf DEF vars

(* The invariant of BudgetStore survives the composition. *)
THEOREM SyncStoreInvariant == SyncSafety => []IInv
  <1>1. SyncInit => IInv
    BY InvInit DEF SyncInit
  <1>2. IInv /\ [SyncNext]_vars => IInv'
    BY SyncStoreStep, InvStep
  <1> QED
    BY <1>1, <1>2, PTL DEF SyncSafety

(* BudgetStore with Unlucky <- Request has the same actions, and Abort for *)
(* every request.                                                          *)
LEMMA AnyNextMaps == [AnyNext]_storeVars => [Store!StoreNext]_(Store!storeVars)
  <1> USE DEF Rollback, Store!Rollback, Goto, Store!Goto, JobsOf,
              Store!JobsOf, DefaultSettings, Store!DefaultSettings, Settings,
              Store!Settings, AfterLoad, Store!AfterLoad, FreshRow,
              Store!FreshRow, Nothing, Store!Nothing, VisibleRow,
              Store!VisibleRow, VisibleEntries, Store!VisibleEntries, CanLock,
              Store!CanLock, WrittenSettings, Store!WrittenSettings,
              NextVersion, Store!NextVersion, WrittenEntries,
              Store!WrittenEntries, Refreshed, Store!Refreshed, Break,
              Store!Break, Running, Store!Running, Phase, Store!Phase,
              storeVars, Store!storeVars
  <1>1. ASSUME NEW r \in Request, Begin(r) PROVE Store!Begin(r)
    BY <1>1 DEF Begin, Store!Begin
  <1>2. ASSUME NEW r \in Request, Refuse(r) PROVE Store!Refuse(r)
    BY <1>2 DEF Refuse, Store!Refuse
  <1>3. ASSUME NEW r \in Request, LoadBudget(r) PROVE Store!LoadBudget(r)
    BY <1>3 DEF LoadBudget, Store!LoadBudget
  <1>4. ASSUME NEW r \in Request, InsertBudget(r) PROVE Store!InsertBudget(r)
    BY <1>4 DEF InsertBudget, Store!InsertBudget
  <1>5. ASSUME NEW r \in Request, InsertConflict(r) PROVE Store!InsertConflict(r)
    BY <1>5 DEF InsertConflict, Store!InsertConflict
  <1>6. ASSUME NEW r \in Request, FindEntry(r) PROVE Store!FindEntry(r)
    BY <1>6 DEF FindEntry, Store!FindEntry
  <1>7. ASSUME NEW r \in Request, EntryNotFound(r) PROVE Store!EntryNotFound(r)
    BY <1>7 DEF EntryNotFound, Store!EntryNotFound
  <1>8. ASSUME NEW r \in Request, Flush(r) PROVE Store!Flush(r)
    BY <1>8 DEF Flush, Store!Flush
  <1>9. ASSUME NEW r \in Request, FlushStale(r) PROVE Store!FlushStale(r)
    BY <1>9 DEF FlushStale, Store!FlushStale
  <1>10. ASSUME NEW r \in Request, BuildResponse(r) PROVE Store!BuildResponse(r)
    BY <1>10 DEF BuildResponse, Store!BuildResponse
  <1>11. ASSUME NEW r \in Request, CommitWrite(r) PROVE Store!CommitWrite(r)
    BY <1>11 DEF CommitWrite, Store!CommitWrite
  <1>12. ASSUME NEW r \in Request, CommitRead(r) PROVE Store!CommitRead(r)
    BY <1>12 DEF CommitRead, Store!CommitRead
  <1>13. ASSUME NEW r \in Request, Break(r) PROVE Store!Abort(r)
    BY <1>13 DEF Store!Abort
  <1>14. DeleteGathering => Store!DeleteGathering
    BY DEF DeleteGathering, Store!DeleteGathering
  <1> QED
    BY <1>1, <1>2, <1>3, <1>4, <1>5, <1>6, <1>7, <1>8, <1>9, <1>10, <1>11, <1>12,
       <1>13, <1>14
    DEF AnyNext, StoreNext, Proceed, Statement, Commit, Abort, Store!StoreNext,
        Store!Proceed, Store!Statement, Store!Commit

(* The composed system runs the requests of BudgetStore, where any of them *)
(* may fail: what is proved of that module holds of the whole.             *)
THEOREM SyncImplementsStore == SyncSafety => ImplementsStore
  <1>1. SyncInit => Store!StoreInit
    BY DEF SyncInit, StoreInit, Store!StoreInit, FreshRow, Store!FreshRow,
           DefaultSettings, Store!DefaultSettings, Nothing, Store!Nothing
  <1>2. [SyncNext]_vars => [Store!StoreNext]_(Store!storeVars)
    BY SyncStoreStep, AnyNextMaps
  <1> QED
    BY <1>1, <1>2, PTL DEF SyncSafety, ImplementsStore, Store!StoreSafety

-----------------------------------------------------------------------------
(* Types *)

Cast == [state : {"idle", "sending", "sent"}, audience : SUBSET Client,
         visited : SUBSET Client, dead : SUBSET Client, intact : BOOLEAN]

(* A client that is sent message m has heard that and what it had heard. *)
LEMMA SendAppends ==
  ASSUME heard \in [Client -> Seq(Request \cup {Snapshot})],
         NEW c \in Client, NEW m \in Request \cup {Snapshot}, Send(c, m)
  PROVE  /\ heard' \in [Client -> Seq(Request \cup {Snapshot})]
         /\ \A d \in Client : d # c => heard'[d] = heard[d]
         /\ heard'[c] \in {heard[c], Append(heard[c], m)}
  BY DEF Send

(* Disconnecting touches no local of a broadcast but `intact`. *)
LEMMA DisconnectTyped ==
  ASSUME NEW S, NEW casts \in [Request -> Cast], registered \subseteq Client,
         Disconnect(S, casts)
  PROVE  /\ registered' \subseteq Client
         /\ cast' \in [Request -> Cast]
         /\ \A r \in Request : /\ cast'[r].visited = casts[r].visited
                               /\ cast'[r].state = casts[r].state
  BY DEF Disconnect, Cast

(* A broadcast that is over keeps what it visited. *)
LEMMA SentTyped ==
  ASSUME cast \in [Request -> Cast], NEW r \in Request
  PROVE  /\ [cast EXCEPT ![r].state = "sent"] \in [Request -> Cast]
         /\ \A q \in Request :
              /\ [cast EXCEPT ![r].state = "sent"][q].visited = cast[q].visited
              /\ q # r => [cast EXCEPT ![r].state = "sent"][q] = cast[q]
  <1>1. [cast[r] EXCEPT !.state = "sent"] \in Cast
        /\ [cast[r] EXCEPT !.state = "sent"].visited = cast[r].visited
    BY DEF Cast
  <1> QED
    BY <1>1

LEMMA VisitTyped ==
  ASSUME cast \in [Request -> Cast], NEW r \in Request, NEW v \in SUBSET Client,
         NEW d \in SUBSET Client
  PROVE  /\ [cast EXCEPT ![r].visited = v, ![r].dead = d] \in [Request -> Cast]
         /\ [cast EXCEPT ![r].visited = v, ![r].dead = d][r].visited = v
         /\ [cast EXCEPT ![r].visited = v, ![r].dead = d][r].state = cast[r].state
         /\ \A q \in Request : q # r =>
              [cast EXCEPT ![r].visited = v, ![r].dead = d][q] = cast[q]
  <1>1. /\ [[cast[r] EXCEPT !.visited = v] EXCEPT !.dead = d] \in Cast
        /\ [[cast[r] EXCEPT !.visited = v] EXCEPT !.dead = d].visited = v
        /\ [[cast[r] EXCEPT !.visited = v] EXCEPT !.dead = d].state = cast[r].state
    BY DEF Cast
  <1> QED
    BY <1>1

(* A snapshot is filled in two steps. *)
LEMMA ViewTyped ==
  ASSUME NEW V, NEW E, NEW f \in [Client -> [row : V, entries : E]],
         NEW c \in Client, NEW v \in V, NEW e \in E
  PROVE  /\ [f EXCEPT ![c].row = v] \in [Client -> [row : V, entries : E]]
         /\ [f EXCEPT ![c].entries = e] \in [Client -> [row : V, entries : E]]
  OBVIOUS

LEMMA SyncInitTyped == SyncInit => SyncTypeOK
  BY StoreInitTyped DEF SyncInit, SyncTypeOK, NoCast, WsPhase, Nothing

LEMMA SyncNextTyped == SyncTypeOK /\ TypeOK' /\ [SyncNext]_vars => SyncTypeOK'
  <1> SUFFICES ASSUME SyncTypeOK, TypeOK', [SyncNext]_vars PROVE SyncTypeOK'
    OBVIOUS
  <1> USE DEF SyncTypeOK, WsPhase, MoveTo
  <1>1. ASSUME UNCHANGED syncVars PROVE SyncTypeOK'
    BY <1>1 DEF syncVars, socketVars
  <1>2. ASSUME NEW r \in Request, BroadcastToNobody(r) PROVE SyncTypeOK'
    BY <1>2, SentTyped DEF BroadcastToNobody, socketVars, Cast
  <1>3. ASSUME NEW r \in Request, BroadcastBegin(r) PROVE SyncTypeOK'
    <2>1. PICK c \in RoomOf(registered, r) : \E d \in DeadAfter({}, c) :
            /\ Send(c, r)
            /\ cast' = [cast EXCEPT ![r] =
                 [state |-> "sending", audience |-> RoomOf(registered, r),
                  visited |-> {c}, dead |-> d, intact |-> TRUE]]
      BY <1>3 DEF BroadcastBegin
    <2>2. c \in Client /\ RoomOf(registered, r) \subseteq Client
          /\ DeadAfter({}, c) \subseteq SUBSET Client
      BY DEF RoomOf, Room, DeadAfter
    <2>3. heard' \in [Client -> Seq(Request \cup {Snapshot})]
      BY <2>1, <2>2, SendAppends
    <2> QED
      BY <1>3, <2>1, <2>2, <2>3 DEF BroadcastBegin
  <1>4. ASSUME NEW r \in Request, BroadcastNext(r) PROVE SyncTypeOK'
    <2>0. PICK c \in RoomOf(registered, r) : \E d \in DeadAfter(cast[r].dead, c) :
            /\ Send(c, r)
            /\ cast' = [cast EXCEPT ![r].visited = cast[r].visited \cup {c}, ![r].dead = d]
      BY <1>4 DEF BroadcastNext
    <2>1. PICK d \in DeadAfter(cast[r].dead, c) :
            /\ Send(c, r)
            /\ cast' = [cast EXCEPT ![r].visited = cast[r].visited \cup {c}, ![r].dead = d]
      BY <2>0
    <2>2. c \in Client /\ DeadAfter(cast[r].dead, c) \subseteq SUBSET Client
      BY DEF RoomOf, Room, DeadAfter
    <2>3. heard' \in [Client -> Seq(Request \cup {Snapshot})]
      BY <2>1, <2>2, SendAppends
    <2>4. cast[r].visited \cup {c} \in SUBSET Client
      BY <2>2 DEF Cast
    <2>5. cast \in [Request -> Cast] /\ d \in SUBSET Client
      BY <2>2 DEF Cast
    <2>6. cast' \in [Request -> Cast]
      BY <2>1, <2>4, <2>5, VisitTyped
    <2> QED
      BY <1>4, <2>3, <2>6 DEF BroadcastNext, Cast
  <1>5. ASSUME NEW r \in Request, BroadcastEnd(r) PROVE SyncTypeOK'
    <2>1. PICK casts \in [Request -> Cast] : casts = [cast EXCEPT ![r].state = "sent"]
      BY SentTyped DEF Cast
    <2>2. Disconnect(cast[r].dead, casts)
      BY <1>5, <2>1 DEF BroadcastEnd
    <2>3. registered' \subseteq Client /\ cast' \in [Request -> Cast]
      BY <2>2, DisconnectTyped
    <2> QED
      BY <1>5, <2>3 DEF BroadcastEnd, Cast
  <1>6. ASSUME NEW c \in Client, WsReject(c) \/ WsConnect(c) PROVE SyncTypeOK'
    <2>1. CASE WsReject(c)
      BY <2>1 DEF WsReject
    <2>2. CASE WsConnect(c)
      BY <2>2 DEF WsConnect
    <2> QED
      BY <1>6, <2>1, <2>2
  <1>7. ASSUME NEW c \in Client, WsLoadBudget(c) \/ WsLoadEntries(c) PROVE SyncTypeOK'
    <2>1. /\ budget \in Row \cup {NoRow} /\ entries \in SUBSET Request
          /\ view \in [Client -> [row : Row \cup {NoRow}, entries : SUBSET Request]]
      BY DEF TypeOK
    <2>2. view' \in [Client -> [row : Row \cup {NoRow}, entries : SUBSET Request]]
      <3>1. CASE view' = [view EXCEPT ![c].row = budget]
        BY <2>1, <3>1, ViewTyped
      <3>2. CASE view' = [view EXCEPT ![c].entries = entries]
        BY <2>1, <3>2, ViewTyped
      <3>3. CASE view' = view
        BY <2>1, <3>3
      <3>4. \/ view' = [view EXCEPT ![c].row = budget]
            \/ view' = [view EXCEPT ![c].entries = entries]
            \/ view' = view
        BY <1>7 DEF WsLoadBudget, WsLoadEntries
      <3> QED
        BY <3>1, <3>2, <3>3, <3>4
    <2>3. ws' \in [Client -> WsPhase]
      <3>1. \E p \in WsPhase : ws' = [ws EXCEPT ![c] = p]
        BY <1>7 DEF WsLoadBudget, WsLoadEntries
      <3> QED
        BY <3>1
    <2>4. UNCHANGED <<cast, home, seat, registered, up, heard, orphaned, crashed>>
      BY <1>7 DEF WsLoadBudget, WsLoadEntries
    <2> QED
      BY <2>2, <2>3, <2>4
  <1>8. ASSUME NEW c \in Client, WsPush(c) PROVE SyncTypeOK'
    <2>1. heard' \in [Client -> Seq(Request \cup {Snapshot})]
      BY <1>8, SendAppends DEF WsPush
    <2> QED
      BY <1>8, <2>1 DEF WsPush, MoveTo, WsPhase
  <1>9. ASSUME NEW c \in Client, PeerClose(c) PROVE SyncTypeOK'
    BY <1>9 DEF PeerClose
  <1>10. ASSUME NEW c \in Client, WsDisconnect(c) \/ WsError(c) PROVE SyncTypeOK'
    <2>1. registered' \subseteq Client /\ cast' \in [Request -> Cast]
      BY <1>10, DisconnectTyped DEF WsDisconnect, WsError, Cast
    <2> QED
      BY <1>10, <2>1 DEF WsDisconnect, WsError, MoveTo, WsPhase, Cast
  <1>11. ASSUME NEW w \in Worker, Crash(w) PROVE SyncTypeOK'
    BY <1>11 DEF Crash, WsPhase
  <1>12. CASE UNCHANGED vars
    BY <1>12 DEF vars, syncVars, socketVars
  <1> QED
    BY <1>1, <1>2, <1>3, <1>4, <1>5, <1>6, <1>7, <1>8, <1>9, <1>10, <1>11, <1>12
    DEF SyncNext, Arrive, Handle, Query, RespondToGet, BroadcastBreak, Finish, Orphan,
        Cancel, WsHandle

(* The locals of broadcasts and of WebSocket handlers keep their types. *)
THEOREM SyncTyped == SyncSafety => []SyncTypeOK
  <1>1. IInv => TypeOK
    BY DEF IInv
  <1> QED
    BY <1>1, SyncInitTyped, SyncNextTyped, SyncStoreInvariant, PTL DEF SyncSafety

-----------------------------------------------------------------------------
(* Broadcasts and the row lock *)

(* What was sent to a client of an update that is still undecided was sent *)
(* by the holder of the row, which has visited that client.                *)
HeardOfHolder ==
  \A c \in Client : \A r \in Request :
    Heard(c, r) /\ ~Decided(r) =>
      phase[r] = "reply" /\ IsMutator(r) /\ c \in cast[r].visited

(* Only a mutator broadcasts. *)
SendersMutate ==
  \A r \in Request : cast[r].state # "idle" =>
    IsMutator(r) /\ phase[r] \in {"reply", "done", "failed"}

CastInv ==
  /\ SyncTypeOK
  /\ IInv
  /\ SendersMutate
  /\ HeardOfHolder
  /\ BroadcastsDoNotOverlap

(* No step of a request undoes a decision, and from the reply a request    *)
(* goes nowhere but to its decision, with the job it had.                  *)
LEMMA DecisionsStay ==
  ASSUME IInv, [AnyNext]_storeVars, NEW r \in Request
  PROVE  /\ Decided(r) => Decided(r)'
         /\ phase[r] \in {"reply", "done", "failed"} =>
              phase'[r] \in {"reply", "done", "failed"} /\ job'[r] = job[r]
  <1> USE DEF IInv, TypeOK, Decided, Goto
  <1>1. ASSUME NEW q \in Request,
               Begin(q) \/ Fails(q) \/ FindEntry(q) \/ Flush(q) \/ BuildResponse(q)
                 \/ CommitWrite(q) \/ CommitRead(q)
        PROVE  /\ Decided(r) => Decided(r)'
               /\ phase[r] \in {"reply", "done", "failed"} =>
                    phase'[r] \in {"reply", "done", "failed"} /\ job'[r] = job[r]
    BY <1>1 DEF Begin, Fails, Rollback, FindEntry, Flush, BuildResponse, CommitWrite,
                CommitRead
  <1>2. ASSUME NEW q \in Request, LoadBudget(q) \/ InsertBudget(q)
        PROVE  /\ Decided(r) => Decided(r)'
               /\ phase[r] \in {"reply", "done", "failed"} =>
                    phase'[r] \in {"reply", "done", "failed"} /\ job'[r] = job[r]
    <2>1. PICK p \in Phase : Goto(q, p)
      BY <1>2, AfterLoadCases DEF LoadBudget, InsertBudget, Phase
    <2> QED
      BY <1>2, <2>1 DEF LoadBudget, InsertBudget
  <1>3. CASE DeleteGathering
    BY <1>3 DEF DeleteGathering
  <1>4. CASE UNCHANGED storeVars
    BY <1>4 DEF storeVars
  <1> QED
    BY <1>1, <1>2, <1>3, <1>4, StepCases

(* Steps that send nothing and leave what broadcasts visited. *)
LEMMA SilentStep ==
  ASSUME CastInv, [AnyNext]_storeVars, UNCHANGED heard,
         \A r \in Request : cast'[r].visited = cast[r].visited
  PROVE  HeardOfHolder' /\ BroadcastsDoNotOverlap'
  <1>1. ASSUME NEW c \in Client, NEW r \in Request, Heard(c, r)', ~Decided(r)'
        PROVE  phase'[r] = "reply" /\ IsMutator(r)' /\ c \in cast'[r].visited
    <2>1. Heard(c, r) /\ ~Decided(r)
      BY <1>1, DecisionsStay DEF CastInv, Heard
    <2>2. phase[r] = "reply" /\ IsMutator(r) /\ c \in cast[r].visited
      BY <2>1 DEF CastInv, HeardOfHolder
    <2> QED
      BY <1>1, <2>2, DecisionsStay DEF CastInv, IsMutator, Decided
  <1>2. ASSUME NEW c \in Client, NEW i \in 1..Len(heard[c]), NEW j \in 1..Len(heard[c]),
               i < j, heard[c][i] # Snapshot, heard[c][j] # Snapshot
        PROVE  Decided(heard[c][i])'
    <2>1. heard[c][i] \in Request
      BY <1>2 DEF CastInv, SyncTypeOK
    <2>2. Decided(heard[c][i])
      BY <1>2 DEF CastInv, BroadcastsDoNotOverlap
    <2> QED
      BY <2>1, <2>2, DecisionsStay DEF CastInv
  <1> QED
    BY <1>1, <1>2 DEF HeardOfHolder, BroadcastsDoNotOverlap

(* The holder of the row sends to a client to whom it has not sent yet:    *)
(* everything that client had heard was decided.                           *)
LEMMA HolderSends ==
  ASSUME CastInv, SyncTypeOK', NEW r \in Request, NEW c \in Client, Send(c, r),
         IsMutator(r), lock = r, ~Heard(c, r),
         \A q \in Request : Decided(q) => Decided(q)',
         \A q \in Request : q # r => /\ UNCHANGED <<phase[q], job[q]>>
                                    /\ cast'[q].visited = cast[q].visited,
         phase'[r] = "reply", UNCHANGED job,
         cast[r].visited \cup {c} \subseteq cast'[r].visited \/
           (c \in cast'[r].visited /\ \A d \in Client : ~Heard(d, r))
  PROVE  HeardOfHolder' /\ BroadcastsDoNotOverlap'
  <1>1. /\ \A d \in Client : d # c => heard'[d] = heard[d]
        /\ heard'[c] \in {heard[c], Append(heard[c], r)}
        /\ heard[c] \in Seq(Request \cup {Snapshot})
    BY SendAppends DEF CastInv, SyncTypeOK
  <1>2. \A d \in Client : \A q \in Request :
          Heard(d, q)' => Heard(d, q) \/ (d = c /\ q = r)
    BY <1>1 DEF Heard
  <1>3. \A q \in Request : \A d \in Client :
          Heard(d, q) /\ ~Decided(q) => q = r
    <2>1. \A q \in Request : phase[q] = "reply" /\ IsMutator(q) => lock = q
      BY DEF CastInv, IInv, LockOK
    <2> QED
      BY <2>1 DEF CastInv, HeardOfHolder
  <1>4. HeardOfHolder'
    <2> SUFFICES ASSUME NEW d \in Client, NEW q \in Request, Heard(d, q)', ~Decided(q)'
                 PROVE  /\ phase'[q] = "reply" /\ IsMutator(q)'
                        /\ d \in cast'[q].visited
      BY DEF HeardOfHolder
    <2>1. q = r
      BY <1>2, <1>3
    <2>2. d = c \/ Heard(d, r)
      BY <1>2, <2>1
    <2>3. CASE d = c
      BY <2>1, <2>3 DEF IsMutator
    <2>4. CASE d # c
      <3>1. Heard(d, r)
        BY <2>2, <2>4
      <3>2. ~Decided(r)
        BY <2>1
      <3>3. d \in cast[r].visited
        BY <3>1, <3>2 DEF CastInv, HeardOfHolder
      <3> QED
        BY <2>1, <3>1, <3>3 DEF IsMutator
    <2> QED
      BY <2>3, <2>4
  <1>5. BroadcastsDoNotOverlap'
    <2> SUFFICES ASSUME NEW d \in Client,
                        NEW i \in 1..Len(heard'[d]), NEW j \in 1..Len(heard'[d]),
                        i < j, heard'[d][i] # Snapshot, heard'[d][j] # Snapshot
                 PROVE  Decided(heard[d][i])'
      BY DEF BroadcastsDoNotOverlap
    <2>1. CASE i \in 1..Len(heard[d]) /\ j \in 1..Len(heard[d])
               /\ heard'[d][i] = heard[d][i] /\ heard'[d][j] = heard[d][j]
      <3>1. heard[d][i] \in Request /\ Decided(heard[d][i])
        BY <2>1 DEF CastInv, BroadcastsDoNotOverlap, SyncTypeOK
      <3> QED
        BY <2>1, <3>1 DEF Decided
    <2>2. CASE d = c /\ i \in 1..Len(heard[c]) /\ heard'[c][i] = heard[c][i]
      <3>1. heard[c][i] \in Request /\ i \in DOMAIN heard[c]
        BY <1>1, <2>2
      <3>2. Heard(c, heard[c][i])
        BY <3>1 DEF Heard
      <3>3. Decided(heard[c][i])
        BY <1>3, <3>1, <3>2
      <3> QED
        BY <2>2, <3>1, <3>3 DEF Decided
    <2> QED
      BY <1>1, <2>1, <2>2
  <1> QED
    BY <1>4, <1>5

(* The snapshot sent on connect is not a broadcast. *)
LEMMA SnapshotStep ==
  ASSUME CastInv, NEW c \in Client, WsPush(c)
  PROVE  HeardOfHolder' /\ BroadcastsDoNotOverlap'
  <1>1. Send(c, Snapshot) /\ UNCHANGED <<storeVars, cast>>
    BY DEF WsPush
  <1>2. /\ heard[c] \in Seq(Request \cup {Snapshot})
        /\ \A d \in Client : d # c => heard'[d] = heard[d]
        /\ heard'[c] \in {heard[c], Append(heard[c], Snapshot)}
    BY <1>1, SendAppends DEF CastInv, SyncTypeOK
  <1>3. \A d \in Client : \A q \in Request : Heard(d, q)' => Heard(d, q)
    BY <1>2, SnapshotAssumption DEF Heard
  <1>4. HeardOfHolder'
    BY <1>1, <1>3 DEF CastInv, HeardOfHolder, Decided, IsMutator, storeVars
  <1>5. ASSUME NEW d \in Client,
               NEW i \in 1..Len(heard'[d]), NEW j \in 1..Len(heard'[d]),
               i < j, heard'[d][i] # Snapshot, heard'[d][j] # Snapshot
        PROVE  /\ i \in 1..Len(heard[d]) /\ j \in 1..Len(heard[d])
               /\ heard[d][i] = heard'[d][i] /\ heard[d][j] = heard'[d][j]
    <2>1. CASE heard'[d] = heard[d]
      BY <1>5, <2>1
    <2>2. CASE d = c /\ heard'[c] = Append(heard[c], Snapshot)
      <3>1. /\ Len(heard'[c]) = Len(heard[c]) + 1
            /\ heard'[c][Len(heard[c]) + 1] = Snapshot
            /\ \A k \in 1..Len(heard[c]) : heard'[c][k] = heard[c][k]
            /\ Len(heard[c]) \in Nat
        BY <1>2, <2>2
      <3>2. i \in 1..Len(heard[c]) /\ j \in 1..Len(heard[c])
        BY <1>5, <2>2, <3>1
      <3> QED
        BY <2>2, <3>1, <3>2
    <2> QED
      BY <1>2, <2>1, <2>2
  <1>6. BroadcastsDoNotOverlap'
    BY <1>1, <1>5 DEF CastInv, BroadcastsDoNotOverlap, Decided, storeVars
  <1> QED
    BY <1>4, <1>6

(* The end of a broadcast takes the dead connections out and moves nothing *)
(* but the state of that broadcast.                                        *)
LEMMA EndTyped ==
  ASSUME cast \in [Request -> Cast], registered \subseteq Client, NEW r \in Request,
         BroadcastEnd(r)
  PROVE  \A q \in Request :
           /\ cast'[q].visited = cast[q].visited
           /\ cast'[q].state # "idle" => cast[q].state # "idle"
  <1>1. PICK casts \in [Request -> Cast] : casts = [cast EXCEPT ![r].state = "sent"]
    BY SentTyped
  <1>2. Disconnect(cast[r].dead, casts) /\ cast[r].state = "sending"
    BY <1>1 DEF BroadcastEnd, Broadcasting
  <1>3. \A q \in Request : /\ cast'[q].visited = casts[q].visited
                           /\ cast'[q].state = casts[q].state
    BY <1>2, DisconnectTyped
  <1>4. \A q \in Request : /\ casts[q].visited = cast[q].visited
                           /\ q # r => casts[q] = cast[q]
    BY <1>1, SentTyped
  <1> QED
    BY <1>2, <1>3, <1>4

(* Only the start of a broadcast leaves "idle". *)
LEMMA SendersStep ==
  ASSUME CastInv, [SyncNext]_vars PROVE SendersMutate'
  <1>0. /\ [AnyNext]_storeVars
        /\ cast \in [Request -> Cast]
        /\ registered \subseteq Client
    BY SyncStoreStep DEF CastInv, SyncTypeOK, Cast
  <1>1. ASSUME \A q \in Request : cast'[q].state # "idle" => cast[q].state # "idle"
        PROVE  SendersMutate'
    BY <1>0, <1>1, DecisionsStay DEF CastInv, SendersMutate, IsMutator
  <1>2. ASSUME NEW r \in Request, IsMutator(r), BuildResponse(r),
               \A q \in Request : q # r => cast'[q] = cast[q]
        PROVE  SendersMutate'
    <2>1. phase'[r] = "reply" /\ job'[r] = job[r]
      BY <1>2 DEF BuildResponse, Goto, CastInv, IInv, TypeOK
    <2> QED
      BY <1>0, <1>2, <2>1, DecisionsStay DEF CastInv, SendersMutate, IsMutator
  <1>3. ASSUME NEW r \in Request, BroadcastToNobody(r) \/ BroadcastBegin(r)
        PROVE  SendersMutate'
    <2>1. /\ IsMutator(r) /\ BuildResponse(r)
          /\ \A q \in Request : q # r => cast'[q] = cast[q]
      BY <1>0, <1>3, SentTyped DEF BroadcastToNobody, BroadcastBegin
    <2> QED
      BY <1>2, <2>1
  <1>4. ASSUME NEW r \in Request, BroadcastNext(r) PROVE SendersMutate'
    <2>1. cast[r].state = "sending"
      BY <1>4 DEF BroadcastNext, Broadcasting
    <2>2. \A q \in Request : q # r => cast'[q] = cast[q]
      BY <1>0, <1>4 DEF BroadcastNext
    <2> QED
      BY <1>1, <2>1, <2>2
  <1>5. ASSUME NEW r \in Request, BroadcastEnd(r) PROVE SendersMutate'
    BY <1>0, <1>1, <1>5, EndTyped
  <1>6. ASSUME NEW c \in Client, WsDisconnect(c) \/ WsError(c) PROVE SendersMutate'
    BY <1>0, <1>1, <1>6, DisconnectTyped DEF WsDisconnect, WsError
  <1>7. ASSUME UNCHANGED cast PROVE SendersMutate'
    BY <1>1, <1>7
  <1> QED
    BY <1>3, <1>4, <1>5, <1>6, <1>7
    DEF SyncNext, Arrive, Handle, Query, RespondToGet, BroadcastBreak, Finish, Orphan,
        Cancel, WsHandle, WsReject, WsConnect, WsLoadBudget, WsLoadEntries, WsPush,
        PeerClose, Crash, vars, syncVars

LEMMA CastStep ==
  ASSUME CastInv, SyncTypeOK', [SyncNext]_vars
  PROVE  HeardOfHolder' /\ BroadcastsDoNotOverlap'
  <1> DEFINE Goal == HeardOfHolder' /\ BroadcastsDoNotOverlap'
  <1>0. /\ [AnyNext]_storeVars
        /\ \A q \in Request : Decided(q) => Decided(q)'
        /\ cast \in [Request -> Cast]
        /\ registered \subseteq Client
    BY SyncStoreStep, DecisionsStay DEF CastInv, SyncTypeOK, Cast
  <1>1. ASSUME UNCHANGED syncVars PROVE Goal
    BY <1>0, <1>1, SilentStep DEF syncVars, socketVars
  <1>2. ASSUME NEW r \in Request, BroadcastToNobody(r) PROVE Goal
    BY <1>0, <1>2, SentTyped, SilentStep DEF BroadcastToNobody, socketVars
  <1>3. ASSUME NEW r \in Request, BroadcastBegin(r) PROVE Goal
    <2>1. PICK c \in RoomOf(registered, r) : \E d \in DeadAfter({}, c) :
            /\ Send(c, r)
            /\ cast' = [cast EXCEPT ![r] =
                 [state |-> "sending", audience |-> RoomOf(registered, r),
                  visited |-> {c}, dead |-> d, intact |-> TRUE]]
      BY <1>3 DEF BroadcastBegin
    <2>2. c \in Client
      BY DEF RoomOf, Room, CastInv, SyncTypeOK
    <2>3. /\ IsMutator(r) /\ phase[r] = "read"
          /\ phase' = [phase EXCEPT ![r] = "reply"] /\ UNCHANGED job
      BY <1>3 DEF BroadcastBegin, BuildResponse, Goto
    <2>4. lock = r
      BY <2>3 DEF CastInv, IInv, LockOK
    <2>5. \A d \in Client : ~Heard(d, r)
      BY <2>3 DEF CastInv, HeardOfHolder, Decided
    <2>6. /\ c \in cast'[r].visited
          /\ \A q \in Request : q # r => cast'[q].visited = cast[q].visited
      BY <1>0, <2>1
    <2>7. /\ phase'[r] = "reply"
          /\ \A q \in Request : q # r => UNCHANGED <<phase[q], job[q]>>
      BY <2>3 DEF CastInv, IInv, TypeOK
    <2> QED
      BY <1>0, <2>1, <2>2, <2>3, <2>4, <2>5, <2>6, <2>7, HolderSends
  <1>4. ASSUME NEW r \in Request, BroadcastNext(r) PROVE Goal
    <2>0. PICK c \in RoomOf(registered, r) \ cast[r].visited :
          \E d \in DeadAfter(cast[r].dead, c) :
            /\ Send(c, r)
            /\ cast' = [cast EXCEPT ![r].visited = cast[r].visited \cup {c}, ![r].dead = d]
      BY <1>4 DEF BroadcastNext
    <2>1. PICK d \in DeadAfter(cast[r].dead, c) :
            /\ Send(c, r)
            /\ cast' = [cast EXCEPT ![r].visited = cast[r].visited \cup {c}, ![r].dead = d]
      BY <2>0
    <2>2. c \in Client /\ c \notin cast[r].visited
      BY <1>0 DEF RoomOf, Room
    <2>3. cast[r] \in Cast
      BY <1>0
    <2>4. d \in SUBSET Client /\ cast[r].visited \cup {c} \in SUBSET Client
      BY <2>2, <2>3 DEF DeadAfter, Cast
    <2>5. /\ cast'[r].visited = cast[r].visited \cup {c}
          /\ \A q \in Request : q # r => cast'[q].visited = cast[q].visited
      <3>1. PICK v \in SUBSET Client : v = cast[r].visited \cup {c}
        BY <2>4
      <3>2. cast' = [cast EXCEPT ![r].visited = v, ![r].dead = d]
        BY <2>1, <3>1
      <3>3. cast'[r].visited = v
        <4>1. cast \in [Request -> Cast] /\ d \in SUBSET Client
          BY <1>0, <2>4
        <4>2. [cast EXCEPT ![r].visited = v, ![r].dead = d][r].visited = v
          BY <4>1, VisitTyped
        <4> QED
          BY <3>2, <4>2
      <3>4. \A q \in Request : q # r => cast'[q] = cast[q]
        BY <1>0, <2>1
      <3> QED
        BY <3>1, <3>3, <3>4
    <2>6. phase[r] = "reply" /\ cast[r].state = "sending" /\ UNCHANGED storeVars
      BY <1>4 DEF BroadcastNext, Broadcasting
    <2>7. IsMutator(r)
      BY <2>6 DEF CastInv, SendersMutate
    <2>8. lock = r /\ ~Heard(c, r)
      BY <2>2, <2>6, <2>7 DEF CastInv, IInv, LockOK, HeardOfHolder, Decided
    <2> QED
      BY <1>0, <2>1, <2>2, <2>5, <2>6, <2>7, <2>8, HolderSends DEF storeVars
  <1>5. ASSUME NEW r \in Request, BroadcastEnd(r) PROVE Goal
    <2>1. \A q \in Request : cast'[q].visited = cast[q].visited
      BY <1>0, <1>5, EndTyped
    <2> QED
      BY <1>0, <1>5, <2>1, SilentStep DEF BroadcastEnd
  <1>6. ASSUME NEW c \in Client,
               WsReject(c) \/ WsConnect(c) \/ PeerClose(c) \/ WsLoadBudget(c)
                 \/ WsLoadEntries(c)
        PROVE  Goal
    BY <1>0, <1>6, SilentStep
    DEF WsReject, WsConnect, PeerClose, WsLoadBudget, WsLoadEntries
  <1>7. ASSUME NEW c \in Client, WsDisconnect(c) \/ WsError(c) PROVE Goal
    <2>1. Disconnect({c}, cast) /\ UNCHANGED heard
      BY <1>7 DEF WsDisconnect, WsError
    <2>2. \A q \in Request : cast'[q].visited = cast[q].visited
      BY <1>0, <2>1, DisconnectTyped DEF CastInv, SyncTypeOK
    <2> QED
      BY <1>0, <2>1, <2>2, SilentStep
  <1>8. ASSUME NEW w \in Worker, Crash(w) PROVE Goal
    BY <1>0, <1>8, SilentStep DEF Crash
  <1>9. ASSUME NEW c \in Client, WsPush(c) PROVE Goal
    BY <1>9, SnapshotStep
  <1>10. CASE UNCHANGED vars
    BY <1>0, <1>10, SilentStep DEF vars, syncVars, socketVars
  <1> QED
    BY <1>1, <1>2, <1>3, <1>4, <1>5, <1>6, <1>7, <1>8, <1>9, <1>10
    DEF SyncNext, Arrive, Handle, Query, RespondToGet, BroadcastBreak, Finish, Orphan,
        Cancel, WsHandle

(* In every client's stream, an update comes after the decision on the one *)
(* before it, for any number of workers, requests and connections.         *)
THEOREM BroadcastsKeptApart == SyncSafety => []BroadcastsDoNotOverlap
  <1>1. SyncInit => HeardOfHolder /\ SendersMutate /\ BroadcastsDoNotOverlap
    BY DEF SyncInit, HeardOfHolder, BroadcastsDoNotOverlap, Heard, SendersMutate, NoCast
  <1>2. CastInv /\ SyncTypeOK' /\ IInv' /\ [SyncNext]_vars => CastInv'
    BY CastStep, SendersStep DEF CastInv
  <1>3. CastInv => BroadcastsDoNotOverlap
    BY DEF CastInv
  <1> QED
    BY <1>1, <1>2, <1>3, SyncTyped, SyncStoreInvariant, PTL DEF SyncSafety, CastInv

-----------------------------------------------------------------------------
(* Connections that come and go *)

(* A handler that ended has lost its peer, and so has every connection a   *)
(* broadcast gave up.                                                      *)
LostStayLost ==
  /\ \A c \in Client : ws[c] = "gone" => ~up[c]
  /\ \A r \in Request : \A c \in cast[r].dead : ~up[c]

RoomInv ==
  /\ SyncTypeOK
  /\ LostStayLost
  /\ RoomsAreLiveHandlers

(* A broadcast is for connections that joined; when it is over, those with *)
(* a peer have been visited.                                               *)
AudienceOK ==
  \A r \in Request :
    /\ \A c \in cast[r].audience : ws[c] # "new"
    /\ cast[r].state = "idle" => cast[r].audience = {} /\ cast[r].visited = {}
    /\ cast[r].state = "sent" =>
         \A c \in cast[r].audience : up[c] => c \in cast[r].visited

(* A connection an undecided broadcast visited has heard nothing since but *)
(* a snapshot.                                                             *)
LastWordOK ==
  \A r \in Request : IsMutator(r) /\ phase[r] = "reply" =>
    \A c \in cast[r].visited :
      up[c] => heard[c] # <<>> /\ LastHeard(c) \in {r, Snapshot}

WordInv ==
  /\ RoomInv
  /\ CastInv
  /\ AudienceOK
  /\ LastWordOK

(* The locals of a broadcast, but for `intact`. *)
SameLocals(a, b) ==
  /\ a.audience = b.audience /\ a.visited = b.visited
  /\ a.dead = b.dead /\ a.state = b.state

LEMMA DisconnectKeeps ==
  ASSUME NEW S, NEW casts \in [Request -> Cast], Disconnect(S, casts)
  PROVE  /\ registered' = registered \ S
         /\ \A r \in Request : SameLocals(cast'[r], casts[r])
  BY DEF Disconnect, Cast, SameLocals

LEMMA SentKeeps ==
  ASSUME cast \in [Request -> Cast], NEW r \in Request
  PROVE  /\ [cast EXCEPT ![r].state = "sent"] \in [Request -> Cast]
         /\ [cast EXCEPT ![r].state = "sent"][r].state = "sent"
         /\ [cast EXCEPT ![r].state = "sent"][r].audience = cast[r].audience
         /\ [cast EXCEPT ![r].state = "sent"][r].visited = cast[r].visited
         /\ [cast EXCEPT ![r].state = "sent"][r].dead = cast[r].dead
         /\ \A q \in Request : q # r => [cast EXCEPT ![r].state = "sent"][q] = cast[q]
  <1>1. /\ [cast[r] EXCEPT !.state = "sent"] \in Cast
        /\ [cast[r] EXCEPT !.state = "sent"].state = "sent"
        /\ [cast[r] EXCEPT !.state = "sent"].audience = cast[r].audience
        /\ [cast[r] EXCEPT !.state = "sent"].visited = cast[r].visited
        /\ [cast[r] EXCEPT !.state = "sent"].dead = cast[r].dead
    BY DEF Cast
  <1>2. [cast EXCEPT ![r].state = "sent"][r] = [cast[r] EXCEPT !.state = "sent"]
    OBVIOUS
  <1>3. \A q \in Request : q # r => [cast EXCEPT ![r].state = "sent"][q] = cast[q]
    OBVIOUS
  <1>4. [cast EXCEPT ![r].state = "sent"] \in [Request -> Cast]
    BY <1>1
  <1> QED
    BY <1>1, <1>2, <1>3, <1>4

LEMMA VisitKeeps ==
  ASSUME cast \in [Request -> Cast], NEW r \in Request, NEW v \in SUBSET Client,
         NEW d \in SUBSET Client
  PROVE  LET next == [cast EXCEPT ![r].visited = v, ![r].dead = d] IN
         /\ next[r].visited = v /\ next[r].dead = d
         /\ next[r].audience = cast[r].audience /\ next[r].state = cast[r].state
         /\ \A q \in Request : q # r => next[q] = cast[q]
  <1> DEFINE body == [[cast[r] EXCEPT !.visited = v] EXCEPT !.dead = d]
  <1>1. /\ body.visited = v /\ body.dead = d
        /\ body.audience = cast[r].audience /\ body.state = cast[r].state
    BY DEF Cast
  <1>2. [cast EXCEPT ![r].visited = v, ![r].dead = d][r] = body
    OBVIOUS
  <1>3. \A q \in Request : q # r =>
          [cast EXCEPT ![r].visited = v, ![r].dead = d][q] = cast[q]
    OBVIOUS
  <1> HIDE DEF body
  <1> QED
    BY <1>1, <1>2, <1>3

(* The next connection in the slots of the set, and what its send did.     *)
LEMMA NextOf ==
  ASSUME SyncTypeOK, NEW r \in Request, BroadcastNext(r)
  PROVE  \E c \in Client :
           /\ Send(c, r)
           /\ cast'[r].visited = cast[r].visited \cup {c}
           /\ cast'[r].dead \in DeadAfter(cast[r].dead, c)
           /\ cast'[r].audience = cast[r].audience /\ cast'[r].state = cast[r].state
           /\ \A q \in Request : q # r => cast'[q] = cast[q]
  <1>1. PICK c \in RoomOf(registered, r) : \E d \in DeadAfter(cast[r].dead, c) :
          /\ Send(c, r)
          /\ cast' = [cast EXCEPT ![r].visited = cast[r].visited \cup {c}, ![r].dead = d]
    BY DEF BroadcastNext
  <1>2. PICK d \in DeadAfter(cast[r].dead, c) :
          /\ Send(c, r)
          /\ cast' = [cast EXCEPT ![r].visited = cast[r].visited \cup {c}, ![r].dead = d]
    BY <1>1
  <1>3. cast \in [Request -> Cast] /\ c \in Client
    BY DEF SyncTypeOK, Cast, RoomOf, Room
  <1>4. PICK v \in SUBSET Client : v = cast[r].visited \cup {c}
    BY <1>3 DEF Cast
  <1>5. d \in SUBSET Client
    BY <1>3 DEF DeadAfter, Cast
  <1>6. cast' = [cast EXCEPT ![r].visited = v, ![r].dead = d]
    BY <1>2, <1>4
  <1>7. /\ cast'[r].visited = v /\ cast'[r].dead = d
        /\ cast'[r].audience = cast[r].audience /\ cast'[r].state = cast[r].state
        /\ \A q \in Request : q # r => cast'[q] = cast[q]
    BY <1>3, <1>5, <1>6, VisitKeeps
  <1> QED
    BY <1>2, <1>3, <1>4, <1>7

LEMMA BeginOf ==
  ASSUME SyncTypeOK, NEW r \in Request, BroadcastBegin(r)
  PROVE  \E c \in Client :
           /\ Send(c, r)
           /\ cast'[r].visited = {c}
           /\ cast'[r].dead \in DeadAfter({}, c)
           /\ cast'[r].audience = RoomOf(registered, r)
           /\ cast'[r].state = "sending"
           /\ \A q \in Request : q # r => cast'[q] = cast[q]
  <1>1. PICK c \in RoomOf(registered, r) : \E d \in DeadAfter({}, c) :
          /\ Send(c, r)
          /\ cast' = [cast EXCEPT ![r] =
               [state |-> "sending", audience |-> RoomOf(registered, r),
                visited |-> {c}, dead |-> d, intact |-> TRUE]]
    BY DEF BroadcastBegin
  <1>2. c \in Client
    BY DEF SyncTypeOK, RoomOf, Room
  <1> QED
    BY <1>1, <1>2 DEF SyncTypeOK

LEMMA EndOf ==
  ASSUME SyncTypeOK, NEW r \in Request, BroadcastEnd(r)
  PROVE  /\ registered' = registered \ cast[r].dead
         /\ cast'[r].state = "sent" /\ cast'[r].audience = cast[r].audience
         /\ cast'[r].visited = cast[r].visited /\ cast'[r].dead = cast[r].dead
         /\ \A q \in Request : q # r => SameLocals(cast'[q], cast[q])
  <1>0. cast \in [Request -> Cast]
    BY DEF SyncTypeOK, Cast
  <1>1. PICK casts \in [Request -> Cast] : casts = [cast EXCEPT ![r].state = "sent"]
    BY <1>0, SentKeeps
  <1>2. Disconnect(cast[r].dead, casts)
    BY <1>1 DEF BroadcastEnd
  <1>3. /\ registered' = registered \ cast[r].dead
        /\ \A q \in Request : SameLocals(cast'[q], casts[q])
    BY <1>2, DisconnectKeeps
  <1>4. /\ casts[r].state = "sent" /\ casts[r].audience = cast[r].audience
        /\ casts[r].visited = cast[r].visited /\ casts[r].dead = cast[r].dead
        /\ \A q \in Request : q # r => casts[q] = cast[q]
    BY <1>0, <1>1, SentKeeps
  <1> QED
    BY <1>3, <1>4 DEF SameLocals

(* Every other step leaves the locals of every broadcast alone.            *)
LEMMA LocalsStay ==
  ASSUME SyncTypeOK, [SyncNext]_vars,
         \A r \in Request : /\ ~BroadcastToNobody(r) /\ ~BroadcastBegin(r)
                            /\ ~BroadcastNext(r) /\ ~BroadcastEnd(r)
  PROVE  \A r \in Request : SameLocals(cast'[r], cast[r])
  <1>1. ASSUME UNCHANGED cast PROVE \A r \in Request : SameLocals(cast'[r], cast[r])
    BY <1>1 DEF SameLocals
  <1>2. ASSUME NEW c \in Client, WsDisconnect(c) \/ WsError(c)
        PROVE  \A r \in Request : SameLocals(cast'[r], cast[r])
    BY <1>2, DisconnectKeeps DEF WsDisconnect, WsError, SyncTypeOK, Cast
  <1> QED
    BY <1>1, <1>2
    DEF SyncNext, Arrive, Handle, Query, RespondToGet, BroadcastBreak, Finish, Orphan,
        Cancel, WsHandle, WsReject, WsConnect, WsLoadBudget, WsLoadEntries, WsPush,
        PeerClose, Crash, vars, syncVars

(* A lost peer does not come back, nor does a connection join twice, and a *)
(* handler ends without its peer.                                          *)
LEMMA LossesAreFinal ==
  ASSUME SyncTypeOK, [SyncNext]_vars, NEW c \in Client
  PROVE  /\ up'[c] => up[c]
         /\ ws[c] # "new" => ws'[c] # "new"
         /\ ws'[c] = "gone" => ws[c] = "gone" \/ ~up'[c]
  <1> DEFINE Goal == /\ up'[c] => up[c]
                     /\ ws[c] # "new" => ws'[c] # "new"
                     /\ ws'[c] = "gone" => ws[c] = "gone" \/ ~up'[c]
  <1> USE DEF SyncTypeOK, MoveTo
  <1>1. ASSUME UNCHANGED <<ws, up>> PROVE Goal
    BY <1>1
  <1>2. ASSUME NEW d \in Client,
               WsReject(d) \/ WsConnect(d) \/ WsHandle(d) \/ PeerClose(d) \/ WsError(d)
        PROVE  Goal
    BY <1>2 DEF WsReject, WsConnect, WsHandle, WsLoadBudget, WsLoadEntries, WsPush,
                WsDisconnect, PeerClose, WsError
  <1>3. ASSUME NEW w \in Worker, Crash(w) PROVE Goal
    BY <1>3 DEF Crash
  <1> QED
    BY <1>1, <1>2, <1>3
    DEF SyncNext, Arrive, Handle, Query, RespondToGet, BroadcastToNobody, BroadcastBegin,
        BroadcastNext, BroadcastEnd, BroadcastBreak, Finish, Orphan, Cancel, vars,
        syncVars, socketVars

LEMMA LostStep == ASSUME RoomInv, [SyncNext]_vars PROVE LostStayLost'
  <1>0. SyncTypeOK /\ LostStayLost
    BY DEF RoomInv
  <1>1. \A c \in Client : ws'[c] = "gone" => ~up'[c]
    BY <1>0, LossesAreFinal DEF LostStayLost
  <1>2. \A r \in Request : cast[r].dead \subseteq {c \in Client : ~up[c]}
    BY <1>0 DEF LostStayLost, SyncTypeOK
  <1>3. \A r \in Request : cast'[r].dead \subseteq {c \in Client : ~up[c]}
    <2>1. ASSUME NEW r \in Request, BroadcastToNobody(r)
          PROVE  \A q \in Request : cast'[q].dead = cast[q].dead
      <3>1. cast' = [cast EXCEPT ![r].state = "sent"] /\ cast \in [Request -> Cast]
        BY <1>0, <2>1 DEF BroadcastToNobody, SyncTypeOK, Cast
      <3> QED
        BY <3>1, SentKeeps
    <2>2. ASSUME NEW r \in Request, BroadcastBegin(r)
          PROVE  \A q \in Request : cast'[q].dead \subseteq {c \in Client : ~up[c]}
      BY <1>0, <1>2, <2>2, BeginOf DEF DeadAfter
    <2>3. ASSUME NEW r \in Request, BroadcastNext(r)
          PROVE  \A q \in Request : cast'[q].dead \subseteq {c \in Client : ~up[c]}
      <3>1. PICK c \in Client :
              /\ cast'[r].dead \in DeadAfter(cast[r].dead, c)
              /\ \A q \in Request : q # r => cast'[q] = cast[q]
        BY <1>0, <2>3, NextOf
      <3>2. cast'[r].dead \subseteq {d \in Client : ~up[d]}
        BY <1>2, <3>1 DEF DeadAfter
      <3> QED
        BY <1>2, <3>1, <3>2
    <2>4. ASSUME NEW r \in Request, BroadcastEnd(r)
          PROVE  \A q \in Request : cast'[q].dead = cast[q].dead
      BY <1>0, <2>4, EndOf DEF SameLocals
    <2>5. ASSUME \A q \in Request : SameLocals(cast'[q], cast[q])
          PROVE  \A q \in Request : cast'[q].dead = cast[q].dead
      BY <2>5 DEF SameLocals
    <2> QED
      BY <1>0, <1>2, <2>1, <2>2, <2>3, <2>4, <2>5, LocalsStay
  <1> QED
    BY <1>0, <1>1, <1>3, LossesAreFinal DEF LostStayLost

LEMMA RoomsStep == ASSUME RoomInv, [SyncNext]_vars PROVE RoomsAreLiveHandlers'
  <1> DEFINE Goal == \A c \in Client :
                       /\ c \in registered' => Connected(c)'
                       /\ Connected(c)' /\ up'[c] => c \in registered'
  <1>0. /\ SyncTypeOK /\ LostStayLost
        /\ \A c \in Client : c \in registered => Connected(c)
        /\ \A c \in Client : Connected(c) /\ up[c] => c \in registered
    BY DEF RoomInv, RoomsAreLiveHandlers
  <1> USE DEF Connected, MoveTo
  <1>1. ASSUME UNCHANGED <<ws, up, registered>> PROVE Goal
    BY <1>0, <1>1
  <1>2. ASSUME NEW d \in Client, WsReject(d) PROVE Goal
    BY <1>0, <1>2 DEF WsReject, SyncTypeOK
  <1>3. ASSUME NEW d \in Client, WsConnect(d) PROVE Goal
    BY <1>0, <1>3 DEF WsConnect, SyncTypeOK
  <1>4. ASSUME NEW d \in Client, WsLoadBudget(d) \/ WsLoadEntries(d) \/ WsPush(d)
        PROVE  Goal
    <2>1. /\ UNCHANGED <<up, registered>> /\ Connected(d)
          /\ \E p \in {"reading", "pushing", "live"} : ws' = [ws EXCEPT ![d] = p]
      BY <1>4 DEF WsLoadBudget, WsLoadEntries, WsPush
    <2> QED
      BY <1>0, <2>1 DEF SyncTypeOK
  <1>5. ASSUME NEW d \in Client, PeerClose(d) PROVE Goal
    BY <1>0, <1>5 DEF PeerClose, SyncTypeOK
  <1>6. ASSUME NEW d \in Client, WsDisconnect(d) \/ WsError(d) PROVE Goal
    <2>1. /\ registered' = registered \ {d} /\ ws' = [ws EXCEPT ![d] = "gone"]
          /\ up' = [up EXCEPT ![d] = FALSE]
      BY <1>0, <1>6 DEF WsDisconnect, WsError, Disconnect, SyncTypeOK
    <2> QED
      BY <1>0, <2>1 DEF SyncTypeOK
  <1>7. ASSUME NEW r \in Request, BroadcastEnd(r) PROVE Goal
    <2>1. registered' = registered \ cast[r].dead /\ UNCHANGED <<ws, up>>
      BY <1>0, <1>7, EndOf DEF BroadcastEnd
    <2> QED
      BY <1>0, <2>1 DEF LostStayLost
  <1>8. ASSUME NEW w \in Worker, Crash(w) PROVE Goal
    BY <1>0, <1>8 DEF Crash, SyncTypeOK
  <1>9. Goal
    BY <1>1, <1>2, <1>3, <1>4, <1>5, <1>6, <1>7, <1>8
    DEF SyncNext, Arrive, Handle, Query, RespondToGet, BroadcastToNobody, BroadcastBegin,
        BroadcastNext, BroadcastBreak, Finish, Orphan, Cancel, WsHandle, vars, syncVars,
        socketVars
  <1> QED
    BY <1>9 DEF RoomsAreLiveHandlers

(* The invariant of connections that come and go.                         *)
THEOREM RoomInvariant == SyncSafety => []RoomInv
  <1>1. SyncInit => LostStayLost /\ RoomsAreLiveHandlers
    BY DEF SyncInit, LostStayLost, RoomsAreLiveHandlers, Connected, NoCast
  <1>2. RoomInv /\ SyncTypeOK' /\ [SyncNext]_vars => RoomInv'
    BY LostStep, RoomsStep DEF RoomInv
  <1> QED
    BY <1>1, <1>2, SyncTyped, PTL DEF SyncSafety, RoomInv

(* The rooms hold the running handlers, less peers that left: no broadcast *)
(* drops a connection that is there, and none that ended stays.            *)
THEOREM RoomsLive == SyncSafety => []RoomsAreLiveHandlers
  BY RoomInvariant, PTL DEF RoomInv

-----------------------------------------------------------------------------
(* Snapshots *)

(* A successful request stays one, whatever comes after.                   *)
LEMMA DoneStays ==
  ASSUME IInv, [AnyNext]_storeVars, NEW op PROVE Done(op) \subseteq Done(op)'
  <1>1. ASSUME NEW r \in Request, phase[r] = "done"
        PROVE  phase'[r] = "done" /\ job'[r] = job[r]
    <2> USE DEF IInv, TypeOK, Goto
    <2>1. ASSUME NEW q \in Request,
                 Begin(q) \/ Fails(q) \/ LoadBudget(q) \/ InsertBudget(q) \/ FindEntry(q)
                   \/ Flush(q) \/ BuildResponse(q) \/ CommitWrite(q) \/ CommitRead(q)
          PROVE  phase'[r] = "done" /\ job'[r] = job[r]
      <3>1. /\ \A p \in Request \ {q} : phase'[p] = phase[p] /\ job'[p] = job[p]
            /\ phase[q] # "done"
        BY <2>1 DEF Begin, Fails, Rollback, LoadBudget, InsertBudget, FindEntry, Flush,
                    BuildResponse, CommitWrite, CommitRead
      <3> QED
        BY <1>1, <3>1
    <2>2. CASE DeleteGathering
      BY <1>1, <2>2 DEF DeleteGathering
    <2>3. CASE UNCHANGED storeVars
      BY <1>1, <2>3 DEF storeVars
    <2> QED
      BY <2>1, <2>2, <2>3, StepCases
  <1> QED
    BY <1>1 DEF Done

LEMMA SnapshotsStep ==
  ASSUME SyncTypeOK, IInv, SnapshotsAreCommitted, [SyncNext]_vars
  PROVE  SnapshotsAreCommitted'
  <1>1. Done("add") \subseteq Done("add")'
    BY SyncStoreStep, DoneStays
  <1>2. entries \subseteq Done("add")
    BY DEF IInv, EntriesAreLedger
  <1>3. ASSUME NEW c \in Client PROVE view'[c].entries \in {view[c].entries, entries}
    <2> USE DEF SyncTypeOK
    <2>1. ASSUME NEW d \in Client, WsLoadBudget(d) PROVE view'[c].entries = view[c].entries
      <3>1. view' = view \/ view' = [view EXCEPT ![d].row = budget]
        BY <2>1 DEF WsLoadBudget
      <3>2. view \in [Client -> [row : Row \cup {NoRow}, entries : SUBSET Request]]
        OBVIOUS
      <3>3. ASSUME view' = [view EXCEPT ![d].row = budget] PROVE view'[c].entries = view[c].entries
        BY ONLY <3>2, <3>3, c \in Client, d \in Client
      <3> QED
        BY <3>1, <3>3
    <2>2. ASSUME NEW d \in Client, WsLoadEntries(d)
          PROVE  view'[c].entries \in {view[c].entries, entries}
      BY <2>2 DEF WsLoadEntries
    <2>3. ASSUME UNCHANGED view PROVE view'[c].entries = view[c].entries
      BY <2>3
    <2> QED
      BY <2>1, <2>2, <2>3
      DEF SyncNext, Arrive, Handle, Query, RespondToGet, BroadcastToNobody, BroadcastBegin,
          BroadcastNext, BroadcastEnd, BroadcastBreak, Finish, Orphan, Cancel, WsHandle,
          WsReject, WsConnect, WsPush, WsDisconnect, PeerClose, WsError, Crash, vars,
          syncVars, socketVars
  <1> QED
    BY <1>1, <1>2, <1>3 DEF SnapshotsAreCommitted

(* A client is greeted with committed expenses only, and they stay true.   *)
THEOREM SnapshotsCommitted == SyncSafety => []SnapshotsAreCommitted
  <1>1. SyncInit => SnapshotsAreCommitted
    BY DEF SyncInit, SnapshotsAreCommitted, Nothing
  <1> QED
    BY <1>1, SnapshotsStep, SyncTyped, SyncStoreInvariant, PTL DEF SyncSafety

-----------------------------------------------------------------------------
(* The last word *)

(* A request is decided with success by its commit.                        *)
LEMMA OnlyCommitsEnd ==
  ASSUME IInv, [AnyNext]_storeVars, NEW r \in Request, phase[r] # "done",
         phase'[r] = "done"
  PROVE  CommitWrite(r) \/ CommitRead(r)
  <1> USE DEF IInv, TypeOK, Goto
  <1>1. ASSUME NEW q \in Request,
               Begin(q) \/ Fails(q) \/ FindEntry(q) \/ Flush(q) \/ BuildResponse(q)
        PROVE  FALSE
    BY <1>1 DEF Begin, Fails, Rollback, FindEntry, Flush, BuildResponse
  <1>2. ASSUME NEW q \in Request, LoadBudget(q) \/ InsertBudget(q) PROVE FALSE
    <2>1. PICK p \in {"insert", "read", "find", "flush"} : phase' = [phase EXCEPT ![q] = p]
      BY <1>2, AfterLoadCases DEF LoadBudget, InsertBudget
    <2> QED
      BY <2>1
  <1>3. ~DeleteGathering /\ ~UNCHANGED storeVars
    BY DEF DeleteGathering, storeVars
  <1>4. PICK q \in Request : CommitWrite(q) \/ CommitRead(q)
    BY <1>1, <1>2, <1>3, StepCases
  <1>5. phase' = [phase EXCEPT ![q] = "done"]
    BY <1>4 DEF CommitWrite, CommitRead
  <1> QED
    BY <1>4, <1>5

(* A mutating request commits when its broadcast is over.                  *)
LEMMA CommitsAfterBroadcast ==
  ASSUME IInv, [SyncNext]_vars, NEW r \in Request, Committing(r)
  PROVE  phase[r] = "reply" /\ cast[r].state = "sent"
  <1>1. CommitWrite(r) \/ CommitRead(r)
    BY SyncStoreStep, OnlyCommitsEnd DEF Committing
  <1>2. phase[r] = "reply" /\ phase' = [phase EXCEPT ![r] = "done"] /\ phase'[r] # phase[r]
    BY <1>1 DEF CommitWrite, CommitRead, Goto, Committing
  <1>3. ASSUME NEW q \in Request, Finish(q) PROVE cast[r].state = "sent"
    <2>1. phase' = [phase EXCEPT ![q] = "done"]
      BY <1>3 DEF Finish, Commit, CommitWrite, CommitRead, Goto
    <2>2. q = r
      BY <1>2, <2>1
    <2> QED
      BY <1>3, <2>2 DEF Finish, Committing
  <1> USE DEF Goto, IInv, TypeOK
  <1>4. ASSUME NEW q \in Request,
               Arrive(q) \/ Query(q) \/ RespondToGet(q) \/ BroadcastToNobody(q)
                 \/ BroadcastBegin(q) \/ BroadcastBreak(q) \/ Orphan(q) \/ Cancel(q)
        PROVE  FALSE
    <2>1. ASSUME NEW p \in Phase \ {"done"}, Goto(q, p) PROVE FALSE
      BY <1>2, <2>1
    <2>2. \E p \in Phase \ {"done"} : Goto(q, p)
      <3>1. CASE Query(q)
        <4>1. Statement(q)
          BY <3>1 DEF Query
        <4>2. CASE LoadBudget(q) \/ InsertBudget(q)
          BY <4>2, AfterLoadCases DEF LoadBudget, InsertBudget, Phase
        <4> QED
          BY <4>1, <4>2 DEF Statement, InsertConflict, FindEntry, EntryNotFound, Flush,
                            FlushStale, Rollback, Phase
      <3>2. CASE ~Query(q)
        BY <1>4, <3>2 DEF Arrive, Begin, Refuse, RespondToGet, BroadcastToNobody,
             BroadcastBegin, BuildResponse, BroadcastBreak, Orphan, Cancel, Abort, Break,
             Rollback, Phase
      <3> QED
        BY <3>1, <3>2
    <2> QED
      BY <2>1, <2>2
  <1>5. ~SyncQuiet /\ ~DeleteGathering /\ ~UNCHANGED vars
    BY <1>2, QuietLeavesStore DEF storeVars, DeleteGathering, vars
  <1> QED
    BY <1>2, <1>3, <1>4, <1>5 DEF SyncNext, Handle, SyncQuiet

LEMMA AudienceStep == ASSUME WordInv, [SyncNext]_vars PROVE AudienceOK'
  <1>0. SyncTypeOK /\ RoomInv /\ CastInv /\ AudienceOK
    BY DEF WordInv, RoomInv
  <1>1. \A c \in Client : (up'[c] => up[c]) /\ (ws[c] # "new" => ws'[c] # "new")
    BY <1>0, LossesAreFinal
  <1> DEFINE Fine(r, old) ==
        /\ \A c \in old.audience : c \in Client /\ ws[c] # "new"
        /\ old.state = "idle" => old.audience = {} /\ old.visited = {}
        /\ old.state = "sent" => \A c \in old.audience : up[c] => c \in old.visited
  <1>2. \A r \in Request : Fine(r, cast[r])
    BY <1>0 DEF AudienceOK, SyncTypeOK
  <1>3. ASSUME \A r \in Request : Fine(r, cast'[r]) PROVE AudienceOK'
    BY <1>1, <1>3 DEF AudienceOK
  <1>4. ASSUME NEW r \in Request, BroadcastToNobody(r) PROVE \A q \in Request : Fine(q, cast'[q])
    <2>1. cast' = [cast EXCEPT ![r].state = "sent"] /\ cast \in [Request -> Cast]
          /\ phase[r] = "read"
      BY <1>0, <1>4 DEF BroadcastToNobody, BuildResponse, SyncTypeOK, Cast
    <2>2. cast[r].state = "idle"
      BY <1>0, <2>1 DEF CastInv, SendersMutate
    <2>3. /\ cast'[r].state = "sent" /\ cast'[r].audience = cast[r].audience
          /\ \A q \in Request : q # r => cast'[q] = cast[q]
      BY <2>1, SentKeeps
    <2> QED
      BY <1>2, <2>2, <2>3
  <1>5. ASSUME NEW r \in Request, BroadcastBegin(r) PROVE \A q \in Request : Fine(q, cast'[q])
    <2>1. /\ cast'[r].audience = RoomOf(registered, r) /\ cast'[r].state = "sending"
          /\ \A q \in Request : q # r => cast'[q] = cast[q]
      BY <1>0, <1>5, BeginOf
    <2>2. \A c \in RoomOf(registered, r) : c \in Client /\ ws[c] # "new"
      BY <1>0 DEF RoomOf, Room, RoomInv, RoomsAreLiveHandlers, Connected, SyncTypeOK
    <2> QED
      BY <1>2, <2>1, <2>2
  <1>6. ASSUME NEW r \in Request, BroadcastNext(r) PROVE \A q \in Request : Fine(q, cast'[q])
    <2>1. /\ cast'[r].audience = cast[r].audience /\ cast'[r].state = cast[r].state
          /\ \A q \in Request : q # r => cast'[q] = cast[q]
      BY <1>0, <1>6, NextOf
    <2>2. cast[r].state = "sending"
      BY <1>6 DEF BroadcastNext, Broadcasting
    <2> QED
      BY <1>2, <2>1, <2>2
  <1>7. ASSUME NEW r \in Request, BroadcastEnd(r) PROVE \A q \in Request : Fine(q, cast'[q])
    <2>1. /\ cast'[r].state = "sent" /\ cast'[r].audience = cast[r].audience
          /\ cast'[r].visited = cast[r].visited
          /\ \A q \in Request : q # r => SameLocals(cast'[q], cast[q])
      BY <1>0, <1>7, EndOf
    <2>2. ASSUME NEW c \in cast[r].audience, up[c] PROVE c \in cast[r].visited
      <3>1. c \in Client /\ ws[c] \in WsPhase /\ ws[c] # "new" /\ ws[c] # "gone"
        BY <1>0, <1>2, <2>2 DEF RoomInv, LostStayLost, SyncTypeOK
      <3>2. c \in registered
        BY <1>0, <2>2, <3>1 DEF RoomInv, RoomsAreLiveHandlers, Connected, WsPhase
      <3> QED
        BY <1>7, <3>2 DEF BroadcastEnd
    <2> QED
      BY <1>2, <2>1, <2>2 DEF SameLocals
  <1>8. ASSUME \A q \in Request : SameLocals(cast'[q], cast[q])
        PROVE  \A q \in Request : Fine(q, cast'[q])
    BY <1>2, <1>8 DEF SameLocals
  <1> HIDE DEF Fine
  <1> QED
    BY <1>0, <1>3, <1>4, <1>5, <1>6, <1>7, <1>8, LocalsStay

(* While the holder of the row broadcasts, a client is sent nothing but    *)
(* its broadcast, or a snapshot.                                           *)
LEMMA OnlyTheHolderSends ==
  ASSUME WordInv, SyncTypeOK', [SyncNext]_vars, NEW r \in Request, IsMutator(r),
         phase[r] = "reply", NEW c \in Client
  PROVE  \/ heard'[c] = heard[c]
         \/ heard'[c] \in {Append(heard[c], r), Append(heard[c], Snapshot)}
  <1>0. /\ SyncTypeOK /\ CastInv
        /\ heard \in [Client -> Seq(Request \cup {Snapshot})]
    BY DEF WordInv, RoomInv, SyncTypeOK
  <1>1. lock = r /\ \A q \in Request : IsMutator(q) /\ phase[q] \in {"read", "reply"} => q = r
    BY <1>0 DEF CastInv, IInv, LockOK
  <1>2. ASSUME NEW q \in Request, BroadcastBegin(q) \/ BroadcastNext(q) PROVE q = r
    BY <1>0, <1>1, <1>2
    DEF BroadcastBegin, BuildResponse, BroadcastNext, Broadcasting, CastInv, SendersMutate
  <1>3. ASSUME NEW q \in Request, BroadcastBegin(q) \/ BroadcastNext(q)
        PROVE  heard'[c] \in {heard[c], Append(heard[c], r)}
    <2>1. PICK d \in Client : Send(d, r)
      BY <1>0, <1>2, <1>3, BeginOf, NextOf
    <2> QED
      BY <1>0, <2>1, SendAppends
  <1>4. ASSUME NEW d \in Client, WsPush(d)
        PROVE  heard'[c] \in {heard[c], Append(heard[c], Snapshot)}
    BY <1>0, <1>4, SendAppends DEF WsPush
  <1>5. ASSUME UNCHANGED heard PROVE heard'[c] = heard[c]
    BY <1>5
  <1> QED
    BY <1>3, <1>4, <1>5
    DEF SyncNext, Arrive, Handle, Query, RespondToGet, BroadcastToNobody, BroadcastEnd,
        BroadcastBreak, Finish, Orphan, Cancel, WsHandle, WsReject, WsConnect, WsLoadBudget,
        WsLoadEntries, WsDisconnect, PeerClose, WsError, Crash, vars, syncVars, socketVars

LEMMA LastWordStep == ASSUME WordInv, SyncTypeOK', [SyncNext]_vars PROVE LastWordOK'
  <1>0. /\ SyncTypeOK /\ CastInv /\ AudienceOK /\ LastWordOK
        /\ heard \in [Client -> Seq(Request \cup {Snapshot})]
        /\ [AnyNext]_storeVars
    BY SyncStoreStep DEF WordInv, RoomInv, SyncTypeOK
  <1> SUFFICES ASSUME NEW r \in Request, IsMutator(r)', phase'[r] = "reply",
                      NEW c \in cast'[r].visited, up'[c]
               PROVE  heard'[c] # <<>> /\ LastHeard(c)' \in {r, Snapshot}
    BY DEF LastWordOK
  <1>1. c \in Client /\ up[c]
    BY <1>0, LossesAreFinal DEF SyncTypeOK
  <1>2. ASSUME NEW m \in {r, Snapshot}, heard'[c] = Append(heard[c], m)
        PROVE  heard'[c] # <<>> /\ LastHeard(c)' \in {r, Snapshot}
    <2>1. heard[c] \in Seq(Request \cup {Snapshot}) /\ m \in Request \cup {Snapshot}
      BY <1>0, <1>1
    <2>2. Len(heard'[c]) = Len(heard[c]) + 1 /\ heard'[c][Len(heard[c]) + 1] = m
          /\ Len(heard[c]) \in Nat
      BY <1>2, <2>1
    <2>3. heard'[c] # <<>>
      BY <2>2
    <2> QED
      BY <2>2, <2>3 DEF LastHeard
  <1>3. ASSUME NEW d \in Client, Send(d, r), d = c
        PROVE  heard'[c] = Append(heard[c], r)
    BY <1>0, <1>1, <1>3 DEF Send
  <1>4. ASSUME phase[r] = "reply", IsMutator(r), c \in cast[r].visited
        PROVE  heard'[c] # <<>> /\ LastHeard(c)' \in {r, Snapshot}
    <2>1. heard[c] # <<>> /\ LastHeard(c) \in {r, Snapshot}
      BY <1>0, <1>1, <1>4 DEF LastWordOK
    <2>2. CASE heard'[c] = heard[c]
      BY <2>1, <2>2 DEF LastHeard
    <2> QED
      BY <1>1, <1>2, <1>4, <2>2, OnlyTheHolderSends
  <1>5. ASSUME BroadcastBegin(r)
        PROVE  heard'[c] # <<>> /\ LastHeard(c)' \in {r, Snapshot}
    <2>1. Send(c, r)
      BY <1>0, <1>5, BeginOf
    <2> QED
      BY <1>1, <1>2, <1>3, <2>1
  <1>6. ASSUME BroadcastNext(r)
        PROVE  heard'[c] # <<>> /\ LastHeard(c)' \in {r, Snapshot}
    <2>1. PICK d \in Client : Send(d, r) /\ cast'[r].visited = cast[r].visited \cup {d}
      BY <1>0, <1>6, NextOf
    <2>2. phase[r] = "reply" /\ IsMutator(r)
      BY <1>0, <1>6 DEF BroadcastNext, Broadcasting, CastInv, SendersMutate
    <2> QED
      BY <1>1, <1>2, <1>3, <1>4, <2>1, <2>2
  <1>7. ASSUME cast'[r].visited = cast[r].visited
        PROVE  heard'[c] # <<>> /\ LastHeard(c)' \in {r, Snapshot}
    <2>1. cast[r].state # "idle"
      BY <1>0, <1>7 DEF AudienceOK
    <2>2. IsMutator(r) /\ phase[r] \in {"reply", "done", "failed"}
      BY <1>0, <2>1 DEF CastInv, SendersMutate
    <2>3. phase[r] = "reply"
      BY <1>0, <2>2, DecisionsStay DEF CastInv, Decided
    <2> QED
      BY <1>4, <1>7, <2>2, <2>3
  <1>8. ASSUME NEW q \in Request, q # r, BroadcastBegin(q) \/ BroadcastNext(q)
        PROVE  cast'[r] = cast[r]
    BY <1>0, <1>8, BeginOf, NextOf
  <1>9. ASSUME NEW q \in Request, BroadcastToNobody(q) \/ BroadcastEnd(q)
        PROVE  cast'[r].visited = cast[r].visited
    <2>1. CASE BroadcastToNobody(q)
      <3>1. cast' = [cast EXCEPT ![q].state = "sent"] /\ cast \in [Request -> Cast]
        BY <1>0, <2>1 DEF BroadcastToNobody, SyncTypeOK, Cast
      <3> QED
        BY <3>1, SentKeeps
    <2>2. CASE BroadcastEnd(q)
      BY <1>0, <2>2, EndOf DEF SameLocals
    <2> QED
      BY <1>9, <2>1, <2>2
  <1> QED
    BY <1>0, <1>5, <1>6, <1>7, <1>8, <1>9, LocalsStay DEF SameLocals

(* The invariant of what the audience of a broadcast has heard.           *)
THEOREM WordInvariant == SyncSafety => []WordInv
  <1>1. SyncInit => HeardOfHolder /\ SendersMutate /\ BroadcastsDoNotOverlap
                    /\ AudienceOK /\ LastWordOK
    BY DEF SyncInit, HeardOfHolder, BroadcastsDoNotOverlap, Heard, SendersMutate, NoCast,
           AudienceOK, LastWordOK
  <1>2. WordInv /\ RoomInv' /\ SyncTypeOK' /\ IInv' /\ [SyncNext]_vars => WordInv'
    BY CastStep, SendersStep, AudienceStep, LastWordStep DEF WordInv, CastInv
  <1> QED
    BY <1>1, <1>2, RoomInvariant, SyncTyped, SyncStoreInvariant, PTL
    DEF SyncSafety, WordInv, CastInv

LEMMA UpdateStep ==
  WordInv /\ [SyncNext]_vars =>
    [\A r \in Request : Committing(r) =>
       \A c \in cast[r].audience :
         up[c] => heard[c] # <<>> /\ LastHeard(c) \in {r, Snapshot}]_vars
  <1> SUFFICES ASSUME WordInv, [SyncNext]_vars, NEW r \in Request, Committing(r),
                      NEW c \in cast[r].audience, up[c]
               PROVE  heard[c] # <<>> /\ LastHeard(c) \in {r, Snapshot}
    OBVIOUS
  <1>1. phase[r] = "reply" /\ cast[r].state = "sent"
    BY CommitsAfterBroadcast DEF WordInv, CastInv
  <1>2. c \in cast[r].visited
    BY <1>1 DEF WordInv, AudienceOK
  <1> QED
    BY <1>1, <1>2 DEF WordInv, LastWordOK, Committing

(* A committed update is the last thing its whole audience was sent, or    *)
(* then the snapshot, for any number of connections coming and going.      *)
THEOREM UpdatesAreLastWord == SyncSafety => UpdateIsLastWord
  BY WordInvariant, UpdateStep, PTL DEF SyncSafety, UpdateIsLastWord

(* What holds of the answers of BudgetStore holds of what is broadcast,    *)
(* too: under crashes and broken broadcasts a mutation that succeeds has   *)
(* answered, and told the room, what its commit installed.                 *)
THEOREM SyncAnswers ==
  SyncSafety => []SettingsHaveASource /\ CreatedOnce /\ AnswersWhatItCommits
  <1>1. SyncInit => AnswerInv
    BY AnswerInvInit DEF SyncInit
  <1>2. AnswerInv /\ [SyncNext]_vars => AnswerInv'
    BY SyncStoreStep, AnswerInvStep
  <1>3. AnswerInv => SettingsHaveASource
    BY DEF AnswerInv
  <1> QED
    BY <1>1, <1>2, <1>3, SyncStoreStep, CreatedOnceStep, AnswersStep, PTL
    DEF SyncSafety, CreatedOnce, AnswersWhatItCommits

=============================================================================
