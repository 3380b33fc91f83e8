-------------------------------- MODULE Lists --------------------------------
(***************************************************************************)
(* What the host of a gathering keeps lists of: the dishes of its menu     *)
(* (MenuService), the shopping items (ShoppingService) and the prep tasks  *)
(* (PrepService), over PostgreSQL.                                         *)
(*                                                                         *)
(* Requests for different lists share nothing but the gathering, so a      *)
(* behaviour is about one list, chosen by Init.  Each request has a        *)
(* session of its own and one action is one await.                         *)
(***************************************************************************)
CONSTANTS
  Request,
  Thing,        \* ids of dishes, items or tasks
  Column,       \* the columns a PATCH may name, each of two values
  Unlucky,      \* requests that may meet an error or be cancelled
  NoRequest,
  OldMenu,      \* the menu there may be at first
  NoMenu,
  NoThing,
  NoRow,
  NoJob

ASSUME UnluckyAssumption == Unlucky \subseteq Request
ASSUME NoRequestAssumption == NoRequest \notin Request

List == {"dishes", "shopping_items", "prep_tasks"}

(* A new menu is named after the request that inserts it.                  *)
Menu == Request \cup {OldMenu}
ASSUME OldMenuAssumption == OldMenu \notin Request
ASSUME NoMenuAssumption == NoMenu \notin Menu

(* Items and tasks belong to the gathering itself: their menu is NoMenu.   *)
Row == [menu : Menu \cup {NoMenu}, cols : [Column -> BOOLEAN]]
ASSUME NoRowAssumption == NoRow \notin Row

(* payload.model_dump(exclude_none=True): the columns a PATCH names.       *)
Patch == UNION {[named -> BOOLEAN] : named \in SUBSET Column}

Op == {"add", "update", "delete", "list"}
Job == [op : Op, target : Thing \cup {NoThing}, patch : Patch]
ASSUME NoJobAssumption == NoJob \notin Job

VARIABLES
  list,         \* the list this behaviour is about
  gathering,    \* the gatherings row exists
  unused,       \* ids no thing has had
  menus,        \* the committed menus rows
  rows,         \* the committed rows of the list
  lock,         \* who holds an uncommitted version of each row
  draft,        \* that version
  job,
  phase,
  menu,         \* each session's Menu object
  loaded,       \* each session's Dish, ShoppingItem or PrepTask object
  shown,        \* the things a list request answers with
  before        \* history: the requests that were over when one began

data == <<list, gathering, unused, menus, rows>>
locks == <<lock, draft>>
session == <<menu, loaded, shown>>
vars == <<data, locks, job, phase, session, before>>

Phase == {"new", "menu", "insert_menu", "read", "load", "flush", "refresh",
          "commit", "done", "failed"}
Over == {"done", "failed"}
Running == Phase \ (Over \cup {"new"})

NewDish(m) == [menu |-> m, cols |-> [c \in Column |-> FALSE]]
NewItem == [menu |-> NoMenu, cols |-> [c \in Column |-> FALSE]]
NewTask == [menu |-> NoMenu, cols |-> [c \in Column |-> FALSE]]

Added(m) ==
  CASE list = "dishes" -> NewDish(m)
    [] list = "shopping_items" -> NewItem
    [] list = "prep_tasks" -> NewTask

Init ==
  /\ list \in List
  /\ gathering = TRUE
  /\ unused \in SUBSET Thing
  /\ menus \in SUBSET {OldMenu}
  /\ list = "dishes" /\ unused # Thing => menus = {OldMenu}
  /\ rows = [t \in Thing |-> IF t \in unused THEN NoRow ELSE Added(OldMenu)]
  /\ lock = [t \in Thing |-> NoRequest]
  /\ draft = [t \in Thing |-> NoRow]
  /\ job = [r \in Request |-> NoJob]
  /\ phase = [r \in Request |-> "new"]
  /\ menu = [r \in Request |-> NoMenu]
  /\ loaded = [r \in Request |-> NoRow]
  /\ shown = [r \in Request |-> {}]
  /\ before = [r \in Request |-> {}]

Goto(r, p) == phase' = [phase EXCEPT ![r] = p]
Target(r) == job[r].target
Does(r, ops) == job[r] # NoJob /\ job[r].op \in ops

Writes(r) == Does(r, {"add", "update", "delete"})
Holds(r) == Writes(r) /\ lock[Target(r)] = r
CanLock(r) == lock[Target(r)] \in {NoRequest, r}
(* READ COMMITTED. *)
Visible(r) == IF Holds(r) THEN draft[Target(r)] ELSE rows[Target(r)]

Write(r, row) ==
  /\ lock' = [lock EXCEPT ![Target(r)] = r]
  /\ draft' = [draft EXCEPT ![Target(r)] = row]

Release(r) ==
  IF Holds(r)
    THEN /\ lock' = [lock EXCEPT ![Target(r)] = NoRequest]
         /\ draft' = [draft EXCEPT ![Target(r)] = NoRow]
    ELSE UNCHANGED locks

(* get_db rolls back on any error; nothing of the request remains. *)
Fail(r) ==
  /\ Goto(r, "failed")
  /\ Release(r)
  /\ job' = [job EXCEPT ![r] = NoJob]
  /\ menu' = [menu EXCEPT ![r] = NoMenu]
  /\ loaded' = [loaded EXCEPT ![r] = NoRow]
  /\ shown' = [shown EXCEPT ![r] = {}]
  /\ before' = [before EXCEPT ![r] = {}]
  /\ UNCHANGED data

(***************************************************************************)
(* A request arrives: _get_gathering_or_404 and _assert_host.              *)
(***************************************************************************)
Asks(r, op, t, patch) ==
  /\ phase[r] = "new"
  /\ gathering
  /\ job' = [job EXCEPT ![r] = [op |-> op, target |-> t, patch |-> patch]]
  /\ before' = [before EXCEPT ![r] = {q \in Request : phase[q] \in Over}]
  /\ UNCHANGED <<list, gathering, menus, rows, locks, session>>

(* uuid4 gives every new row an id of its own. *)
Adds(r) ==
  \E t \in unused : Asks(r, "add", t, <<>>) /\ unused' = unused \ {t}

Changes(r) ==
  /\ \E t \in Thing :
       \/ \E patch \in Patch : Asks(r, "update", t, patch)
       \/ Asks(r, "delete", t, <<>>)
  /\ Goto(r, "load")
  /\ UNCHANGED unused

Shows(r) == Asks(r, "list", NoThing, <<>>) /\ UNCHANGED unused

BeginDishes(r) ==
  /\ list = "dishes"
  /\ \/ (Adds(r) \/ Shows(r)) /\ Goto(r, "menu")
     \/ Changes(r)

BeginItems(r) ==
  /\ list = "shopping_items"
  /\ \/ Adds(r) /\ Goto(r, "flush")
     \/ Shows(r) /\ Goto(r, "read")
     \/ Changes(r)

BeginTasks(r) ==
  /\ list = "prep_tasks"
  /\ \/ Adds(r) /\ Goto(r, "flush")
     \/ Shows(r) /\ Goto(r, "read")
     \/ Changes(r)

(* 403 or 404. *)
Refuse(r) == phase[r] = "new" /\ Fail(r)

(***************************************************************************)
(* The menu of the gathering, which the first dish creates.                *)
(***************************************************************************)
(* Mutant: the menu is inserted without being looked for. *)
NoneFound == {}

(* select(Menu).where(Menu.gathering_id == gathering_id) *)
Found == menus

(* Mutant: .first() for .scalar_one_or_none(). *)
FirstMenu(r) ==
  /\ phase[r] = "menu"
  /\ \E m \in Found : menu' = [menu EXCEPT ![r] = m]
  /\ Goto(r, IF Does(r, {"add"}) THEN "flush" ELSE "read")
  /\ UNCHANGED <<data, locks, job, loaded, shown, before>>

SelectMenu(r) ==
  /\ phase[r] = "menu"
  /\ \E m \in Found :
       /\ Found = {m}
       /\ menu' = [menu EXCEPT ![r] = m]
  /\ Goto(r, IF Does(r, {"add"}) THEN "flush" ELSE "read")
  /\ UNCHANGED <<data, locks, job, loaded, shown, before>>

(* MultipleResultsFound. *)
SeveralMenus(r) ==
  /\ phase[r] = "menu"
  /\ \E m, n \in Found : m # n
  /\ Fail(r)

(* add_dish goes on to insert a menu, get_menu answers with no dishes. *)
NoMenuYet(r) ==
  /\ phase[r] = "menu"
  /\ Found = {}
  /\ Goto(r, IF Does(r, {"add"}) THEN "insert_menu" ELSE "commit")
  /\ UNCHANGED <<data, locks, job, session, before>>

(* Nobody else sees the new menu: its refresh is part of the step. *)
InsertMenu(r) ==
  /\ phase[r] = "insert_menu"
  /\ gathering
  /\ menu' = [menu EXCEPT ![r] = r]
  /\ Goto(r, "flush")
  /\ UNCHANGED <<data, locks, job, loaded, shown, before>>

(***************************************************************************)
(* The list is read.                                                       *)
(***************************************************************************)
Present == {t \in Thing : rows[t] # NoRow}

ReadDishes(r) ==
  /\ list = "dishes"
  /\ shown' = [shown EXCEPT ![r] = {t \in Present : rows[t].menu = menu[r]}]

ReadItems(r) ==
  /\ list = "shopping_items"
  /\ shown' = [shown EXCEPT ![r] = Present]

ReadTasks(r) ==
  /\ list = "prep_tasks"
  /\ shown' = [shown EXCEPT ![r] = Present]

Read(r) ==
  /\ phase[r] = "read"
  /\ ReadDishes(r) \/ ReadItems(r) \/ ReadTasks(r)
  /\ Goto(r, "commit")
  /\ UNCHANGED <<data, locks, job, menu, loaded, before>>

(***************************************************************************)
(* PATCH and DELETE load the row by its id, and PATCH assigns the columns  *)
(* it names.                                                               *)
(***************************************************************************)
Loads(r) ==
  /\ phase[r] = "load"
  /\ rows[Target(r)] # NoRow
  /\ loaded' = [loaded EXCEPT ![r] = rows[Target(r)]]
  /\ Goto(r, "flush")
  /\ UNCHANGED <<data, locks, job, menu, shown, before>>

LoadDish(r) == list = "dishes" /\ Loads(r)
LoadItem(r) == list = "shopping_items" /\ Loads(r)
LoadTask(r) == list = "prep_tasks" /\ Loads(r)

NotFound(r) ==
  /\ phase[r] = "load"
  /\ rows[Target(r)] = NoRow
  /\ Fail(r)

(***************************************************************************)
(* flush.                                                                  *)
(***************************************************************************)
Insert(r) ==
  /\ phase[r] = "flush"
  /\ Does(r, {"add"})
  /\ gathering
  /\ Write(r, Added(menu[r]))
  /\ Goto(r, "refresh")
  /\ UNCHANGED <<data, job, session, before>>

(* IntegrityError: the gathering, and its menu, were deleted meanwhile. *)
InsertOrphan(r) ==
  /\ phase[r] \in {"insert_menu", "flush"}
  /\ Does(r, {"add"})
  /\ ~gathering
  /\ Fail(r)

(* Mutant: the UPDATE names every column. *)
AllChanged(r) ==
  IF \E c \in DOMAIN job[r].patch : job[r].patch[c] # loaded[r].cols[c]
    THEN Column ELSE {}

(* The UPDATE names the columns that differ from the loaded object. *)
Changed(r) ==
  {c \in DOMAIN job[r].patch : job[r].patch[c] # loaded[r].cols[c]}

Assigned(r) ==
  [c \in Column |-> IF c \in DOMAIN job[r].patch THEN job[r].patch[c]
                                                 ELSE loaded[r].cols[c]]

(* Mutant: without exclude_none a column left out becomes NULL. *)
NullsIn(r) ==
  [Visible(r) EXCEPT !.cols =
     [c \in Column |-> IF c \in DOMAIN job[r].patch THEN Assigned(r)[c] ELSE NoRow]]

Updated(r) ==
  [Visible(r) EXCEPT !.cols =
     [c \in Column |-> IF c \in Changed(r) THEN Assigned(r)[c]
                                           ELSE Visible(r).cols[c]]]

SkipUpdate(r) ==
  /\ phase[r] = "flush"
  /\ Does(r, {"update"})
  /\ Changed(r) = {}
  /\ Goto(r, "refresh")
  /\ UNCHANGED <<data, locks, job, session, before>>

Update(r) ==
  /\ phase[r] = "flush"
  /\ Does(r, {"update"})
  /\ Changed(r) # {}
  /\ CanLock(r)
  /\ Visible(r) # NoRow
  /\ Write(r, Updated(r))
  /\ Goto(r, "refresh")
  /\ UNCHANGED <<data, job, session, before>>

(* StaleDataError: the row was deleted meanwhile. *)
UpdateStale(r) ==
  /\ phase[r] = "flush"
  /\ Does(r, {"update"})
  /\ Changed(r) # {}
  /\ CanLock(r)
  /\ Visible(r) = NoRow
  /\ Fail(r)

(* A DELETE that matches no row is a warning. *)
Delete(r) ==
  /\ phase[r] = "flush"
  /\ Does(r, {"delete"})
  /\ CanLock(r)
  /\ IF Visible(r) = NoRow THEN UNCHANGED locks ELSE Write(r, NoRow)
  /\ Goto(r, "commit")
  /\ UNCHANGED <<data, job, session, before>>

(***************************************************************************)
(* refresh reads the row back for the answer.                              *)
(***************************************************************************)
Refresh(r) ==
  /\ phase[r] = "refresh"
  /\ Visible(r) # NoRow
  /\ loaded' = [loaded EXCEPT ![r] = Visible(r)]
  /\ Goto(r, "commit")
  /\ UNCHANGED <<data, locks, job, menu, shown, before>>

(* A PATCH that wrote nothing may find the row gone. *)
RefreshGone(r) ==
  /\ phase[r] = "refresh"
  /\ Visible(r) = NoRow
  /\ Fail(r)

(***************************************************************************)
(* get_db commits and closes the session; what is answered stays.          *)
(***************************************************************************)
Commit(r) ==
  /\ phase[r] = "commit"
  /\ rows' = IF Holds(r) THEN [rows EXCEPT ![Target(r)] = Visible(r)] ELSE rows
  /\ menus' = IF menu[r] = r THEN menus \cup {r} ELSE menus
  /\ menu' = [menu EXCEPT ![r] = NoMenu]
  /\ loaded' = IF Does(r, {"delete"}) THEN [loaded EXCEPT ![r] = NoRow] ELSE loaded
  /\ Release(r)
  /\ Goto(r, "done")
  /\ UNCHANGED <<list, gathering, unused, job, shown, before>>

(* A failed statement, a cancelled task, a lost worker. *)
Abort(r) ==
  /\ r \in Unlucky
  /\ phase[r] \in Running
  /\ Fail(r)

(* DELETE of the gathering, which cascades, waits for the rows others hold *)
(* and for what refers to it and is not committed.                         *)
DeleteGathering ==
  /\ gathering
  /\ \A t \in Thing : lock[t] = NoRequest
  /\ \A r \in Request : menu[r] # r
  /\ gathering' = FALSE
  /\ menus' = {}
  /\ rows' = [t \in Thing |-> NoRow]
  /\ UNCHANGED <<list, unused, locks, job, phase, session, before>>

-----------------------------------------------------------------------------

Begin(r) == BeginDishes(r) \/ BeginItems(r) \/ BeginTasks(r) \/ Refuse(r)

Proceed(r) ==
  \/ SelectMenu(r)
  \/ SeveralMenus(r)
  \/ NoMenuYet(r)
  \/ InsertMenu(r)
  \/ Read(r)
  \/ LoadDish(r)
  \/ LoadItem(r)
  \/ LoadTask(r)
  \/ NotFound(r)
  \/ Insert(r)
  \/ InsertOrphan(r)
  \/ SkipUpdate(r)
  \/ Update(r)
  \/ UpdateStale(r)
  \/ Delete(r)
  \/ Refresh(r)
  \/ RefreshGone(r)
  \/ Commit(r)

Next ==
  \/ \E r \in Request : Begin(r) \/ Proceed(r) \/ Abort(r)
  \/ DeleteGathering

Spec == Init /\ [][Next]_vars

-----------------------------------------------------------------------------

TypeOK ==
  /\ list \in List
  /\ gathering \in BOOLEAN
  /\ unused \subseteq Thing
  /\ menus \subseteq Menu
  /\ rows \in [Thing -> Row \cup {NoRow}]
  /\ lock \in [Thing -> Request \cup {NoRequest}]
  /\ draft \in [Thing -> Row \cup {NoRow}]
  /\ job \in [Request -> Job \cup {NoJob}]
  /\ phase \in [Request -> Phase]
  /\ menu \in [Request -> Menu \cup {NoMenu}]
  /\ loaded \in [Request -> Row \cup {NoRow}]
  /\ shown \in [Request -> SUBSET Thing]
  /\ before \in [Request -> SUBSET Request]

-----------------------------------------------------------------------------

Succeeded(r, op) == Does(r, {op}) /\ phase[r] = "done"
Overlap(p, q) == p \notin before[q] /\ q \notin before[p]

(* A gathering has a second menu, and from then on neither shows nor takes *)
(* dishes, only where two requests for its first dish overlapped: one that *)
(* begins when a dish was added never makes another.                       *)
MenusOnlyRaced ==
  \A m, n \in menus : m # n =>
             /\ m \in Request /\ Succeeded(m, "add")
             /\ n \in Request /\ Succeeded(n, "add")
             /\ Overlap(m, n)

(* A list that is answered at all is complete: it shows whatever was added *)
(* by a request that was over when it began, unless it was deleted, and    *)
(* nothing whose deletion was over by then.                                *)
ListsAreCurrent ==
  \A r \in Request : Succeeded(r, "list") =>
    /\ \A q \in before[r] : Succeeded(q, "add") =>
         \/ Target(q) \in shown[r]
         \/ ~gathering
         \/ \E d \in Request : Succeeded(d, "delete") /\ Target(d) = Target(q)
    /\ \A d \in before[r] : Succeeded(d, "delete") => Target(d) \notin shown[r]

Names(r, t, c) ==
  Succeeded(r, "update") /\ Target(r) = t /\ c \in DOMAIN job[r].patch

(* No edit is lost: each column of a row says what it was created with, or *)
(* what was asked by a PATCH that names it and is not older than all the   *)
(* others; a PATCH of other columns that raced does not bring back an old  *)
(* value.                                                                  *)
LastEditStands ==
  \A t \in Thing : rows[t] # NoRow =>
    \A c \in Column :
      LET edits == {r \in Request : Names(r, t, c)}
      IN IF edits = {} THEN ~rows[t].cols[c]
         ELSE \E r \in edits : /\ rows[t].cols[c] = job[r].patch[c]
                               /\ \A q \in edits : r \notin before[q]

=============================================================================
