----------------------------- MODULE BudgetSync -----------------------------
(***************************************************************************)
(* Real-time sync of one gathering's budget: BudgetStore composed with the *)
(* ConnectionManager and the WebSocket handler of                          *)
(* app/api/v1/budget/router.py.                                            *)
(*                                                                         *)
(* The image runs several uvicorn worker processes (Dockerfile), each with *)
(* a ConnectionManager of its own.  A PUT, POST or DELETE broadcasts its   *)
(* response from the handler, before get_db commits, to the room of its    *)
(* own worker.  A Client is one WebSocket connection; what was sent to it  *)
(* arrives in order until the connection is lost.                          *)
(***************************************************************************)
EXTENDS BudgetStore, Sequences, FiniteSets

CONSTANTS
  Worker,       \* uvicorn worker processes
  Client,       \* WebSocket connections
  Spelling,     \* ways to write the gathering id in the path
  Canonical,    \* str(uuid), the key every REST handler broadcasts to
  FaultyClient, \* connections whose handler may meet an error
  CrashWorker,  \* workers that may crash, once
  Snapshot      \* the message a client is sent on connect

ASSUME CanonicalAssumption == Canonical \in Spelling
ASSUME FaultyClientAssumption == FaultyClient \subseteq Client
ASSUME CrashWorkerAssumption == CrashWorker \subseteq Worker
ASSUME SnapshotAssumption == Snapshot \notin Request

VARIABLES
  home,         \* the worker that serves each request
  seat,         \* the worker and the room key of each connection
  registered,   \* the connections in ConnectionManager._rooms
  cast,         \* the locals of each request's broadcast()
  ws,           \* where each WebSocket handler is
  up,           \* the peer has not gone
  view,         \* the budget a WebSocket handler read to send on connect
  heard,        \* what each client was sent: Snapshot, or whose broadcast
  orphaned,     \* requests whose worker crashed under them
  crashed       \* workers that crashed and were restarted

socketVars == <<home, seat, registered, ws, up, view, heard, orphaned, crashed>>
syncVars == <<socketVars, cast>>
vars == <<storeVars, syncVars>>

WsPhase == {"new", "joined", "reading", "pushing", "live", "gone"}
Connected(c) == ws[c] \in {"joined", "reading", "pushing", "live"}

(* _rooms[key] of a worker; a key with no connection is not in the dict. *)
Room(reg, w, key) == {c \in reg : seat[c] = <<w, key>>}
RoomOf(reg, r) == Room(reg, home[r], Canonical)

NoCast == [state |-> "idle", audience |-> {}, visited |-> {}, dead |-> {},
           intact |-> TRUE]

SyncInit ==
  /\ StoreInit
  /\ home \in [Request -> Worker]
  /\ seat \in [Client -> Worker \X Spelling]
  /\ registered = {}
  /\ cast = [r \in Request |-> NoCast]
  /\ ws = [c \in Client |-> "new"]
  /\ up = [c \in Client |-> TRUE]
  /\ view = [c \in Client |-> Nothing]
  /\ heard = [c \in Client |-> << >>]
  /\ orphaned = {}
  /\ crashed = {}

Serving(r) == r \notin orphaned
MoveTo(c, p) == ws' = [ws EXCEPT ![c] = p]

(***************************************************************************)
(* ConnectionManager.disconnect for the connections S.  Deleting the last  *)
(* connection deletes the dict entry, so a broadcast that iterates over    *)
(* that set is left with a set nobody will ever join again.                *)
(***************************************************************************)
Disconnect(S, casts) ==
  /\ registered' = registered \ S
  /\ cast' = [r \in Request |->
                [casts[r] EXCEPT !.intact = @ /\ RoomOf(registered \ S, r) # {}]]

(***************************************************************************)
(* The REST handlers, in the statements of BudgetStore.                    *)
(***************************************************************************)
Arrive(r) == (Begin(r) \/ Refuse(r)) /\ UNCHANGED syncVars

Query(r) == Serving(r) /\ Statement(r) /\ UNCHANGED syncVars

RespondToGet(r) ==
  /\ Serving(r)
  /\ ~IsMutator(r)
  /\ BuildResponse(r)
  /\ UNCHANGED syncVars

(* send_text to c.  The send to a lost peer raises, or the loss has not    *)
(* been noticed yet and the text goes nowhere.                             *)
Send(c, m) ==
  heard' = IF up[c] THEN [heard EXCEPT ![c] = Append(@, m)] ELSE heard

DeadAfter(dead, c) == IF up[c] THEN {dead} ELSE {dead, dead \cup {c}}

(* The service returns and broadcast() looks its room up.  `for ws in      *)
(* room` reads the size of the set, and the first send starts, before any  *)
(* other task runs.                                                        *)
BroadcastToNobody(r) ==
  /\ Serving(r)
  /\ IsMutator(r)
  /\ BuildResponse(r)
  /\ RoomOf(registered, r) = {}
  /\ cast' = [cast EXCEPT ![r].state = "sent"]
  /\ UNCHANGED socketVars

BroadcastBegin(r) ==
  /\ Serving(r)
  /\ IsMutator(r)
  /\ BuildResponse(r)
  /\ \E c \in RoomOf(registered, r) : \E d \in DeadAfter({}, c) :
       /\ Send(c, r)
       /\ cast' = [cast EXCEPT ![r] =
                     [state |-> "sending", audience |-> RoomOf(registered, r),
                      visited |-> {c}, dead |-> d, intact |-> TRUE]]
  /\ UNCHANGED <<home, seat, registered, ws, up, view, orphaned, crashed>>

(* Python checks the size of the set each time it advances the iterator. *)
SameSize(r) ==
  /\ cast[r].intact
  /\ Cardinality(RoomOf(registered, r)) = Cardinality(cast[r].audience)

Broadcasting(r) == Serving(r) /\ phase[r] = "reply" /\ cast[r].state = "sending"

BroadcastNext(r) ==
  /\ Broadcasting(r)
  /\ SameSize(r)
  /\ \E c \in RoomOf(registered, r) \ cast[r].visited :
     \E d \in DeadAfter(cast[r].dead, c) :
       /\ Send(c, r)
       /\ cast' = [cast EXCEPT ![r].visited = @ \cup {c}, ![r].dead = d]
  /\ UNCHANGED <<storeVars, home, seat, registered, ws, up, view, orphaned, crashed>>

(* The iterator is exhausted.  A connection that took the place of another *)
(* while the size stayed the same may sit in a slot already passed.        *)
BroadcastEnd(r) ==
  /\ Broadcasting(r)
  /\ SameSize(r)
  /\ cast[r].audience \cap registered \subseteq cast[r].visited
  /\ Disconnect(cast[r].dead, [cast EXCEPT ![r].state = "sent"])
  /\ UNCHANGED <<storeVars, home, seat, ws, up, view, heard, orphaned, crashed>>

(* Mutant: the RuntimeError ends the task, the session stays open. *)
BroadcastBreakLeaks(r) ==
  /\ Broadcasting(r)
  /\ ~SameSize(r)
  /\ phase[r] \in Running
  /\ LeaveOpen(r)
  /\ UNCHANGED syncVars

(* RuntimeError, "Set changed size during iteration", leaves the handler:  *)
(* get_db rolls back what some clients have already been told.             *)
BroadcastBreak(r) ==
  /\ Broadcasting(r)
  /\ ~SameSize(r)
  /\ Break(r)
  /\ UNCHANGED syncVars

(* Mutant: the broadcast is left to a background task. *)
FinishInBackground(r) ==
  /\ Serving(r)
  /\ Commit(r)
  /\ UNCHANGED syncVars

Finish(r) ==
  /\ Serving(r)
  /\ IsMutator(r) => cast[r].state = "sent"
  /\ Commit(r)
  /\ UNCHANGED syncVars

(* The connection of a crashed worker drops and PostgreSQL rolls back. *)
Orphan(r) == ~Serving(r) /\ Break(r) /\ UNCHANGED syncVars

Cancel(r) == Serving(r) /\ Abort(r) /\ UNCHANGED syncVars

(***************************************************************************)
(* budget_websocket.                                                       *)
(***************************************************************************)
WsReject(c) ==
  /\ ws[c] = "new"
  /\ MoveTo(c, "gone")
  /\ up' = [up EXCEPT ![c] = FALSE]
  /\ UNCHANGED <<storeVars, cast, home, seat, registered, view, heard, orphaned, crashed>>

(* accept, a valid token, manager.connect. *)
WsConnect(c) ==
  /\ ws[c] = "new"
  /\ MoveTo(c, "joined")
  /\ registered' = registered \cup {c}
  /\ UNCHANGED <<storeVars, cast, home, seat, up, view, heard, orphaned, crashed>>

WsLoadBudget(c) ==
  /\ ws[c] = "joined"
  /\ IF budget = NoRow
       THEN MoveTo(c, "live") /\ UNCHANGED view
       ELSE /\ MoveTo(c, "reading")
            /\ view' = [view EXCEPT ![c].row = budget]
  /\ UNCHANGED <<storeVars, cast, home, seat, registered, up, heard, orphaned, crashed>>

(* Mutant: READ UNCOMMITTED. *)
WsLoadDirtyEntries(c) ==
  /\ ws[c] = "reading"
  /\ MoveTo(c, "pushing")
  /\ view' = [view EXCEPT ![c].entries =
                 IF lock = NoRequest THEN entries ELSE draft.entries]
  /\ UNCHANGED <<storeVars, cast, home, seat, registered, up, heard, orphaned, crashed>>

WsLoadEntries(c) ==
  /\ ws[c] = "reading"
  /\ MoveTo(c, "pushing")
  /\ view' = [view EXCEPT ![c].entries = entries]
  /\ UNCHANGED <<storeVars, cast, home, seat, registered, up, heard, orphaned, crashed>>

WsPush(c) ==
  /\ ws[c] = "pushing"
  /\ Send(c, Snapshot)
  /\ MoveTo(c, "live")
  /\ UNCHANGED <<storeVars, cast, home, seat, registered, up, view, orphaned, crashed>>

PeerClose(c) ==
  /\ Connected(c)
  /\ up[c]
  /\ up' = [up EXCEPT ![c] = FALSE]
  /\ UNCHANGED <<storeVars, cast, home, seat, registered, ws, view, heard, orphaned, crashed>>

(* Mutant: the connection is not taken out of its room. *)
WsReturn(c) ==
  /\ ws[c] \in {"pushing", "live"}
  /\ ~up[c]
  /\ MoveTo(c, "gone")
  /\ UNCHANGED <<storeVars, cast, home, seat, registered, up, view, heard, orphaned, crashed>>

(* WebSocketDisconnect from receive_text, or from the first send_text. *)
WsDisconnect(c) ==
  /\ ws[c] \in {"pushing", "live"}
  /\ ~up[c]
  /\ MoveTo(c, "gone")
  /\ Disconnect({c}, cast)
  /\ UNCHANGED <<storeVars, home, seat, up, view, heard, orphaned, crashed>>

(* `except Exception`: a failed query, a text that cannot be decoded. *)
WsError(c) ==
  /\ c \in FaultyClient
  /\ Connected(c)
  /\ MoveTo(c, "gone")
  /\ up' = [up EXCEPT ![c] = FALSE]
  /\ Disconnect({c}, cast)
  /\ UNCHANGED <<storeVars, home, seat, view, heard, orphaned, crashed>>

(* A worker dies with its rooms, its sockets and its requests; uvicorn's   *)
(* supervisor starts another in its place.                                 *)
Crash(w) ==
  /\ w \in CrashWorker \ crashed
  /\ crashed' = crashed \cup {w}
  /\ orphaned' = orphaned \cup {r \in Request : home[r] = w /\ phase[r] \in Running}
  /\ LET lost == {c \in Client : seat[c][1] = w /\ Connected(c)} IN
       /\ ws' = [c \in Client |-> IF c \in lost THEN "gone" ELSE ws[c]]
       /\ up' = [c \in Client |-> up[c] /\ c \notin lost]
       /\ registered' = registered \ lost
  /\ UNCHANGED <<storeVars, cast, home, seat, view, heard>>

-----------------------------------------------------------------------------

Handle(r) ==
  \/ Query(r)
  \/ RespondToGet(r)
  \/ BroadcastToNobody(r)
  \/ BroadcastBegin(r)
  \/ BroadcastNext(r)
  \/ BroadcastEnd(r)
  \/ BroadcastBreak(r)
  \/ Finish(r)
  \/ Orphan(r)

WsHandle(c) ==
  \/ WsLoadBudget(c)
  \/ WsLoadEntries(c)
  \/ WsPush(c)
  \/ WsDisconnect(c)

SyncNext ==
  \/ \E r \in Request : Arrive(r) \/ Handle(r) \/ Cancel(r)
  \/ \E c \in Client :
       WsReject(c) \/ WsConnect(c) \/ WsHandle(c) \/ PeerClose(c) \/ WsError(c)
  \/ \E w \in Worker : Crash(w)
  \/ DeleteGathering /\ UNCHANGED syncVars

SyncSafety == SyncInit /\ [][SyncNext]_vars

(* A task whose await completed is resumed; an await on a socket completes *)
(* because uvicorn's pings close a connection that stopped reading.        *)
SyncFairness ==
  /\ \A r \in Request : WF_vars(Handle(r))
  /\ \A c \in Client : WF_vars(WsHandle(c))

SyncSpec == SyncSafety /\ SyncFairness

-----------------------------------------------------------------------------

SyncTypeOK ==
  /\ TypeOK
  /\ home \in [Request -> Worker]
  /\ seat \in [Client -> Worker \X Spelling]
  /\ registered \subseteq Client
  /\ cast \in [Request -> [state : {"idle", "sending", "sent"},
                           audience : SUBSET Client, visited : SUBSET Client,
                           dead : SUBSET Client, intact : BOOLEAN]]
  /\ ws \in [Client -> WsPhase]
  /\ up \in [Client -> BOOLEAN]
  /\ view \in [Client -> [row : Row \cup {NoRow}, entries : SUBSET Request]]
  /\ heard \in [Client -> Seq(Request \cup {Snapshot})]
  /\ orphaned \subseteq Request
  /\ crashed \subseteq Worker

-----------------------------------------------------------------------------

Decided(r) == phase[r] \in {"done", "failed"}
Heard(c, r) == \E i \in DOMAIN heard[c] : heard[c][i] = r
LastHeard(c) == heard[c][Len(heard[c])]
Committing(r) == IsMutator(r) /\ phase[r] # "done" /\ phase'[r] = "done"

(* No client is sent a broadcast before the update of the previous one it  *)
(* was sent is committed or rolled back: the row lock a request holds from *)
(* its flush to its commit puts broadcasts in the order of the commits,    *)
(* between worker processes too.                                           *)
BroadcastsDoNotOverlap ==
  \A c \in Client : \A i, j \in 1..Len(heard[c]) :
    i < j /\ heard[c][i] # Snapshot /\ heard[c][j] # Snapshot =>
      Decided(heard[c][i])

(* When an update commits, every connection that was in its room when      *)
(* broadcast() began was sent it, or then the snapshot it was waiting for  *)
(* on connect, as the last thing, but for those the peer left: connections *)
(* coming and going while it awaits a send make no other one miss it.      *)
UpdateIsLastWord ==
  [][\A r \in Request : Committing(r) =>
       \A c \in cast[r].audience :
         up[c] => heard[c] # <<>> /\ LastHeard(c) \in {r, Snapshot}]_vars

(* The rooms hold the connections whose handler still runs, and broadcast  *)
(* drops none whose peer is there.                                         *)
RoomsAreLiveHandlers ==
  \A c \in Client :
    /\ c \in registered => Connected(c)
    /\ Connected(c) /\ up[c] => c \in registered

(* The budget sent on connect shows no expense that is not committed.      *)
SnapshotsAreCommitted ==
  \A c \in Client : view[c].entries \subseteq Done("add")

(* Under the broadcasts, crashes and sockets the requests still are those  *)
(* of BudgetStore, where any of them may fail.                             *)
Store == INSTANCE BudgetStore WITH Unlucky <- Request

ImplementsStore == Store!StoreSafety

(* A connection whose peer left does not stay in its room for ever.        *)
ClosedLeavesRoom == \A c \in Client : ~up[c] ~> c \notin registered

(* "On any REST update: broadcasts the new budget to all connected         *)
(* clients" (budget_websocket).  Not so for those of another worker or     *)
(* with another spelling of the gathering id in their path.                *)
EveryConnectionHears ==
  [][\A r \in Request :
       cast[r].state # "sent" /\ cast'[r].state = "sent" =>
         \A c \in Client : ws[c] = "live" /\ up[c] =>
           \E i \in DOMAIN heard'[c] : heard'[c][i] = r]_vars

=============================================================================
