----------------------------- MODULE ListsProofs -----------------------------
(***************************************************************************)
(* Proofs about Lists, for any number of requests, things and columns: no  *)
(* edit of a dish, an item or a task is lost, a second menu comes only of  *)
(* first dishes that race, and a list that is answered is complete.        *)
(***************************************************************************)
EXTENDS Lists, TLAPS

(* Who began after a request was over is not among those it follows.       *)
OverOK ==
  \A r, q \in Request : q \in before[r] => phase[q] \in Over /\ q # r

StartOK ==
  \A r \in Request : phase[r] = "new" => job[r] = NoJob /\ menu[r] = NoMenu

(* Whoever loads or writes a row has one to load or write.                 *)
Busy(r) ==
  /\ phase[r] \in {"load", "flush", "refresh"} => Writes(r)
  /\ phase[r] \in {"menu", "read"} => Does(r, {"add", "list"})
  /\ Writes(r) => Target(r) \in Thing

TargetOK == \A r \in Request : Busy(r)

(* Whoever is about to insert a menu, or has, began before any menu that   *)
(* there is was there.                                                     *)
MenuOK ==
  /\ \A m \in menus : m \in Request => Succeeded(m, "add")
  /\ \A r \in Request : phase[r] = "insert_menu" \/ menu[r] = r =>
       /\ Does(r, {"add"}) /\ phase[r] \in {"insert_menu", "flush", "refresh", "commit"}
       /\ \A m \in menus : m \in Request /\ m \notin before[r]
  /\ MenusOnlyRaced

(* The holder of a row has flushed, and a draft differs from its row where *)
(* the holder was asked to change it.                                      *)
Held(h, t) ==
  /\ Target(h) = t
  /\ \/ /\ Does(h, {"add"}) /\ phase[h] \in {"refresh", "commit"}
        /\ draft[t] # NoRow /\ \A c \in Column : ~draft[t].cols[c]
     \/ /\ Does(h, {"update"}) /\ phase[h] \in {"refresh", "commit"}
        /\ rows[t] # NoRow /\ draft[t] # NoRow
        /\ \A c \in Column \ DOMAIN job[h].patch : draft[t].cols[c] = rows[t].cols[c]
     \/ Does(h, {"delete"}) /\ phase[h] = "commit" /\ draft[t] = NoRow

LockOK == \A t \in Thing : lock[t] # NoRequest => Held(lock[t], t)

(* The row was found.                                                      *)
Editing(r) ==
  Does(r, {"update", "delete"}) /\ phase[r] \in {"flush", "refresh", "commit", "done"}

Adding(r) == Does(r, {"add"}) /\ phase[r] \notin Over

(* Nobody knows the id of a row that is not committed.                     *)
IdOK ==
  /\ \A t \in Thing : rows[t] # NoRow => t \notin unused
  /\ \A r \in Request : Does(r, {"add"}) \/ Editing(r) =>
       Target(r) \notin unused
  /\ \A r \in Request : Adding(r) =>
       /\ rows[Target(r)] = NoRow
       /\ \A q \in Request \ {r} : Does(q, {"add"}) \/ Editing(q) => Target(q) # Target(r)

Edits(t, c) == {r \in Request : Names(r, t, c)}

(* The column says what w asked for, and no edit is newer.                 *)
Last(w, t, c) ==
  IF w = NoRequest
    THEN Edits(t, c) = {} /\ ~rows[t].cols[c]
    ELSE /\ w \in Edits(t, c)
         /\ rows[t].cols[c] = job[w].patch[c]
         /\ \A q \in Edits(t, c) : w \notin before[q]

Beats(w, s) == w # NoRequest /\ w \notin before[s]

(* What s loaded, or is about to commit, of the column is what s asked for *)
(* or what there is, or else w, whose edit there is, is not older than s.  *)
Follows(w, s, t, c) ==
  /\ phase[s] = "flush" => loaded[s].cols[c] = rows[t].cols[c] \/ Beats(w, s)
  /\ phase[s] \in {"refresh", "commit"} /\ c \in DOMAIN job[s].patch =>
       \/ Visible(s).cols[c] = job[s].patch[c]
       \/ Visible(s).cols[c] = rows[t].cols[c] /\ Beats(w, s)

LastOK ==
  \A t \in Thing, c \in Column : rows[t] # NoRow =>
    \E w \in Request \cup {NoRequest} :
      /\ Last(w, t, c)
      /\ \A s \in Request : Does(s, {"update"}) /\ Target(s) = t => Follows(w, s, t, c)

IInv ==
  /\ TypeOK
  /\ OverOK
  /\ StartOK
  /\ TargetOK
  /\ MenuOK
  /\ LockOK
  /\ IdOK
  /\ LastOK
-----------------------------------------------------------------------------

LEMMA RowFacts ==
  /\ \A m \in Menu \cup {NoMenu} : [menu |-> m, cols |-> [c \in Column |-> FALSE]] \in Row
  /\ NoRow \notin Row
  /\ \A p \in Patch : DOMAIN p \subseteq Column /\ \A c \in DOMAIN p : p[c] \in BOOLEAN
  /\ <<>> \in Patch
  /\ \A j \in Job : j.op \in Op /\ j.target \in Thing \cup {NoThing} /\ j.patch \in Patch
  <1>1. \A m \in Menu \cup {NoMenu} : [menu |-> m, cols |-> [c \in Column |-> FALSE]] \in Row
    BY DEF Row
  <1>2. \A p \in Patch : DOMAIN p \subseteq Column /\ \A c \in DOMAIN p : p[c] \in BOOLEAN
    BY DEF Patch
  <1>3. <<>> \in Patch
    <2>1. <<>> \in [{} -> BOOLEAN]
      OBVIOUS
    <2> QED
      BY <2>1 DEF Patch
  <1>4. \A j \in Job : j.op \in Op /\ j.target \in Thing \cup {NoThing} /\ j.patch \in Patch
    BY DEF Job
  <1> QED
    BY <1>1, <1>2, <1>3, <1>4, NoRowAssumption

LEMMA AddedIsRow ==
  ASSUME list \in List, NEW m \in Menu \cup {NoMenu}
  PROVE  /\ Added(m) \in Row
         /\ Added(m) # NoRow
         /\ \A c \in Column : ~Added(m).cols[c]
  <1>1. NewDish(m) \in Row /\ \A c \in Column : ~NewDish(m).cols[c]
    BY RowFacts DEF NewDish
  <1>2. NewItem \in Row /\ \A c \in Column : ~NewItem.cols[c]
    BY RowFacts DEF NewItem
  <1>3. NewTask \in Row /\ \A c \in Column : ~NewTask.cols[c]
    BY RowFacts DEF NewTask
  <1>4. Added(m) \in {NewDish(m), NewItem, NewTask}
    BY DEF Added, List
  <1> QED
    BY <1>1, <1>2, <1>3, <1>4, NoRowAssumption

LEMMA InvInit == Init => IInv
  <1> SUFFICES ASSUME Init PROVE IInv
    OBVIOUS
  <1>0. /\ list \in List
        /\ OldMenu \in Menu \cup {NoMenu}
        /\ \A r \in Request : phase[r] = "new" /\ job[r] = NoJob /\ menu[r] = NoMenu
        /\ \A r \in Request : ~\E ops : Does(r, ops)
    BY DEF Init, Menu, Does
  <1>1. TypeOK
    <2>1. rows \in [Thing -> Row \cup {NoRow}]
      BY <1>0, AddedIsRow DEF Init
    <2>2. menus \subseteq Menu
      BY DEF Init, Menu
    <2> QED
      BY <1>0, <2>1, <2>2 DEF Init, TypeOK, Phase, Over
  <1>2. OverOK /\ StartOK /\ TargetOK /\ LockOK
    BY <1>0 DEF Init, OverOK, StartOK, TargetOK, LockOK, Busy, Writes
  <1>3. MenuOK
    <2>1. menus \subseteq {OldMenu}
      BY DEF Init
    <2>2. MenusOnlyRaced
      BY <2>1 DEF MenusOnlyRaced
    <2>3. \A r \in Request : menu[r] # r
      BY <1>0, NoMenuAssumption DEF Menu
    <2> QED
      BY <1>0, <2>1, <2>2, <2>3, OldMenuAssumption DEF MenuOK
  <1>4. IdOK
    BY <1>0 DEF Init, IdOK, Editing, Adding
  <1>5. LastOK
    <2> SUFFICES ASSUME NEW t \in Thing, NEW c \in Column, rows[t] # NoRow
                 PROVE  Last(NoRequest, t, c)
      BY <1>0 DEF LastOK
    <2>1. Edits(t, c) = {}
      BY <1>0 DEF Edits, Names, Succeeded
    <2>2. rows[t] = Added(OldMenu)
      BY DEF Init
    <2> QED
      BY <1>0, <2>1, <2>2, AddedIsRow DEF Last
  <1> QED
    BY <1>1, <1>2, <1>3, <1>4, <1>5 DEF IInv

-----------------------------------------------------------------------------

LEMMA FailTypes == ASSUME TypeOK, NEW r \in Request, Fail(r) PROVE TypeOK'
  <1>1. lock' \in [Thing -> Request \cup {NoRequest}] /\ draft' \in [Thing -> Row \cup {NoRow}]
    BY DEF TypeOK, Fail, Release, locks
  <1>2. shown' \in [Request -> SUBSET Thing] /\ before' \in [Request -> SUBSET Request]
    BY DEF TypeOK, Fail
  <1> QED
    BY <1>1, <1>2 DEF TypeOK, Fail, Goto, Phase, Over, data

(* What every arrival has in common.                                       *)
LEMMA BeginShape ==
  ASSUME TypeOK, NEW r \in Request, Begin(r), ~Refuse(r)
  PROVE  \E op \in Op, t \in Thing \cup {NoThing}, patch \in Patch,
            p \in {"menu", "flush", "read", "load"} :
           /\ Asks(r, op, t, patch)
           /\ Goto(r, p)
           /\ \/ op = "add" /\ t \in unused /\ unused' = unused \ {t} /\ p \in {"menu", "flush"}
              \/ op = "list" /\ UNCHANGED unused /\ p \in {"menu", "read"}
              \/ op \in {"update", "delete"} /\ t \in Thing /\ UNCHANGED unused /\ p = "load"
  <1>2. CASE Adds(r) /\ (Goto(r, "menu") \/ Goto(r, "flush"))
    <2>1. PICK t \in unused : Asks(r, "add", t, <<>>) /\ unused' = unused \ {t}
      BY <1>2 DEF Adds
    <2>2. t \in Thing \cup {NoThing}
      BY DEF TypeOK
    <2>3. PICK p \in {"menu", "flush"} : Goto(r, p)
      BY <1>2
    <2> QED
      BY <2>1, <2>2, <2>3, RowFacts DEF Op
  <1>3. CASE Shows(r) /\ (Goto(r, "menu") \/ Goto(r, "read"))
    <2>1. PICK p \in {"menu", "read"} : Goto(r, p)
      BY <1>3
    <2> QED
      BY <1>3, <2>1, RowFacts DEF Op, Shows
  <1>4. CASE Changes(r)
    <2>1. PICK t \in Thing : \/ \E patch \in Patch : Asks(r, "update", t, patch)
                             \/ Asks(r, "delete", t, <<>>)
      BY <1>4 DEF Changes
    <2> QED
      BY <1>4, <2>1, RowFacts DEF Op, Changes
  <1> QED
    BY <1>2, <1>3, <1>4 DEF Begin, BeginDishes, BeginItems, BeginTasks

LEMMA BeginTypes == ASSUME TypeOK, NEW r \in Request, Begin(r) PROVE TypeOK'
  <1>1. CASE Refuse(r)
    BY <1>1, FailTypes DEF Refuse
  <1>2. CASE ~Refuse(r)
    <2>1. PICK op \in Op, t \in Thing \cup {NoThing}, patch \in Patch,
               p \in {"menu", "flush", "read", "load"} :
             /\ Asks(r, op, t, patch)
             /\ Goto(r, p)
             /\ unused' \subseteq unused
      BY <1>2, BeginShape
    <2>2. [op |-> op, target |-> t, patch |-> patch] \in Job
      BY DEF Job
    <2>3. before' \in [Request -> SUBSET Request]
      BY <2>1 DEF TypeOK, Asks
    <2> QED
      BY <2>1, <2>2, <2>3 DEF TypeOK, Asks, Goto, Phase, locks, session
  <1> QED
    BY <1>1, <1>2

LEMMA MenuTypes ==
  ASSUME TypeOK, NEW r \in Request,
         SelectMenu(r) \/ NoMenuYet(r) \/ InsertMenu(r) \/ Read(r)
  PROVE  TypeOK'
  <1>1. CASE SelectMenu(r)
    <2>1. PICK m \in menus : menu' = [menu EXCEPT ![r] = m]
      BY <1>1 DEF SelectMenu, Found
    <2>2. phase' \in [Request -> Phase]
      BY <1>1 DEF TypeOK, SelectMenu, Goto, Phase
    <2> QED
      BY <1>1, <2>1, <2>2 DEF TypeOK, SelectMenu, data, locks
  <1>2. CASE NoMenuYet(r)
    <2>1. phase' \in [Request -> Phase]
      BY <1>2 DEF TypeOK, NoMenuYet, Goto, Phase
    <2> QED
      BY <1>2, <2>1 DEF TypeOK, NoMenuYet, data, locks, session
  <1>3. CASE InsertMenu(r)
    BY <1>3 DEF TypeOK, InsertMenu, Goto, Phase, Menu, data, locks
  <1>4. CASE Read(r)
    <2>1. shown' \in [Request -> SUBSET Thing]
      BY <1>4 DEF TypeOK, Read, ReadDishes, ReadItems, ReadTasks, Present
    <2> QED
      BY <1>4, <2>1 DEF TypeOK, Read, Goto, Phase, data, locks
  <1> QED
    BY <1>1, <1>2, <1>3, <1>4

LEMMA LoadTypes ==
  ASSUME TypeOK, TargetOK, NEW r \in Request, Loads(r) \/ SkipUpdate(r) \/ Refresh(r)
  PROVE  TypeOK'
  <1>1. CASE Loads(r)
    <2>1. rows[Target(r)] \in Row
      BY <1>1 DEF TypeOK, TargetOK, Busy, Loads
    <2> QED
      BY <1>1, <2>1 DEF TypeOK, Loads, Goto, Phase, data, locks
  <1>2. CASE SkipUpdate(r)
    BY <1>2 DEF TypeOK, SkipUpdate, Goto, Phase, data, locks, session
  <1>3. CASE Refresh(r)
    <2>1. Target(r) \in Thing /\ Visible(r) # NoRow
      BY <1>3 DEF TargetOK, Busy, Refresh
    <2>2. Visible(r) \in Row
      BY <2>1 DEF TypeOK, Visible
    <2> QED
      BY <1>3, <2>2 DEF TypeOK, Refresh, Goto, Phase, data, locks
  <1> QED
    BY <1>1, <1>2, <1>3

LEMMA WriteIsTyped ==
  ASSUME TypeOK, NEW r \in Request, Target(r) \in Thing, NEW row \in Row \cup {NoRow},
         Write(r, row)
  PROVE  lock' \in [Thing -> Request \cup {NoRequest}] /\ draft' \in [Thing -> Row \cup {NoRow}]
  BY DEF TypeOK, Write

(* What an UPDATE writes is the row it found, but for the columns named.   *)
LEMMA UpdatedIsRow ==
  ASSUME TypeOK, NEW r \in Request, Does(r, {"update"}), Target(r) \in Thing,
         Visible(r) # NoRow
  PROVE  /\ Updated(r) \in Row
         /\ \A c \in Column :
              Updated(r).cols[c] = IF c \in Changed(r) THEN job[r].patch[c]
                                                       ELSE Visible(r).cols[c]
  <1>1. Visible(r) \in Row
    BY DEF TypeOK, Visible
  <1>2. job[r].patch \in Patch
    BY RowFacts DEF TypeOK, Does
  <1>3. Changed(r) \subseteq DOMAIN job[r].patch
    BY DEF Changed
  <1>4. \A c \in Column : c \in Changed(r) =>
          Assigned(r)[c] = job[r].patch[c] /\ Assigned(r)[c] \in BOOLEAN
    BY <1>2, <1>3, RowFacts DEF Assigned
  <1>5. [c \in Column |-> IF c \in Changed(r) THEN Assigned(r)[c]
                                              ELSE Visible(r).cols[c]] \in [Column -> BOOLEAN]
    BY <1>1, <1>4 DEF Row
  <1> QED
    BY <1>1, <1>4, <1>5 DEF Updated, Row

LEMMA WriteTypes ==
  ASSUME TypeOK, TargetOK, NEW r \in Request, Insert(r) \/ Update(r) \/ Delete(r)
  PROVE  TypeOK'
  <1>0. Target(r) \in Thing
    BY DEF TargetOK, Busy, Insert, Update, Delete, Writes, Does
  <1>1. lock' \in [Thing -> Request \cup {NoRequest}] /\ draft' \in [Thing -> Row \cup {NoRow}]
    <2>1. CASE Insert(r)
      <3>1. Added(menu[r]) \in Row
        BY AddedIsRow DEF TypeOK
      <3> QED
        BY <1>0, <2>1, <3>1, WriteIsTyped DEF Insert
    <2>2. CASE Update(r)
      <3>1. Updated(r) \in Row
        BY <1>0, <2>2, UpdatedIsRow DEF Update
      <3> QED
        BY <1>0, <2>2, <3>1, WriteIsTyped DEF Update
    <2>3. CASE Delete(r)
      <3>1. CASE UNCHANGED locks
        BY <3>1 DEF TypeOK, locks
      <3>2. CASE Write(r, NoRow)
        BY <1>0, <3>2, WriteIsTyped
      <3> QED
        BY <2>3, <3>1, <3>2 DEF Delete
    <2> QED
      BY <2>1, <2>2, <2>3
  <1>2. phase' \in [Request -> Phase]
    BY DEF TypeOK, Insert, Update, Delete, Goto, Phase
  <1>3. UNCHANGED <<data, job, session, before>>
    BY DEF Insert, Update, Delete
  <1> QED
    BY <1>1, <1>2, <1>3 DEF TypeOK, data, session

LEMMA CommitTypes == ASSUME TypeOK, TargetOK, NEW r \in Request, Commit(r) PROVE TypeOK'
  <1>1. lock' \in [Thing -> Request \cup {NoRequest}] /\ draft' \in [Thing -> Row \cup {NoRow}]
    BY DEF TypeOK, Commit, Release, locks
  <1>2. rows' \in [Thing -> Row \cup {NoRow}]
    BY DEF TypeOK, Commit, TargetOK, Busy, Visible, Holds
  <1>3. menus' \subseteq Menu /\ menu' \in [Request -> Menu \cup {NoMenu}]
    BY DEF TypeOK, Commit, Menu
  <1>4. loaded' \in [Request -> Row \cup {NoRow}]
    BY DEF TypeOK, Commit
  <1>5. phase' \in [Request -> Phase]
    BY DEF TypeOK, Commit, Goto, Phase, Over
  <1>6. UNCHANGED <<list, gathering, unused, job, shown, before>>
    BY DEF Commit
  <1> QED
    BY <1>1, <1>2, <1>3, <1>4, <1>5, <1>6 DEF TypeOK

LEMMA TypedStep == ASSUME TypeOK, TargetOK, [Next]_vars PROVE TypeOK'
  <1>1. ASSUME NEW r \in Request, Begin(r) PROVE TypeOK'
    BY <1>1, BeginTypes
  <1>2. ASSUME NEW r \in Request, Proceed(r) PROVE TypeOK'
    <2>1. CASE Fail(r)
      BY <2>1, FailTypes
    <2>2. CASE SelectMenu(r) \/ NoMenuYet(r) \/ InsertMenu(r) \/ Read(r)
      BY <2>2, MenuTypes
    <2>3. CASE Loads(r) \/ SkipUpdate(r) \/ Refresh(r)
      BY <2>3, LoadTypes
    <2>4. CASE Insert(r) \/ Update(r) \/ Delete(r)
      BY <2>4, WriteTypes
    <2>5. CASE Commit(r)
      BY <2>5, CommitTypes
    <2> QED
      BY <1>2, <2>1, <2>2, <2>3, <2>4, <2>5
      DEF Proceed, SeveralMenus, LoadDish, LoadItem, LoadTask, NotFound, InsertOrphan,
          UpdateStale, RefreshGone
  <1>3. ASSUME NEW r \in Request, Abort(r) PROVE TypeOK'
    BY <1>3, FailTypes DEF Abort
  <1>4. CASE DeleteGathering
    BY <1>4 DEF TypeOK, DeleteGathering, locks, session
  <1>5. CASE UNCHANGED vars
    BY <1>5 DEF TypeOK, vars, data, locks, session
  <1> QED
    BY <1>1, <1>2, <1>3, <1>4, <1>5 DEF Next

-----------------------------------------------------------------------------

(* What a step of r that commits nothing leaves alone.                     *)
OthersStay(r) ==
  \A q \in Request \ {r} :
    /\ job'[q] = job[q] /\ phase'[q] = phase[q] /\ before'[q] = before[q]
    /\ loaded'[q] = loaded[q] /\ menu'[q] = menu[q]

LocksStay(r) ==
  \A t \in Thing :
    /\ lock[t] \notin {NoRequest, r} => lock'[t] = lock[t] /\ draft'[t] = draft[t]
    /\ lock'[t] \in {lock[t], NoRequest, r}

Undone(r) == phase[r] # "done" /\ phase'[r] # "done"

LEMMA OverFrame ==
  ASSUME OverOK, NEW r \in Request, OthersStay(r), phase[r] \notin Over,
         \A q \in before'[r] : q \in Request /\ phase[q] \in Over
  PROVE  OverOK'
  <1> SUFFICES ASSUME NEW s \in Request, NEW q \in Request, q \in before'[s]
               PROVE  phase'[q] \in Over /\ q # s
    BY DEF OverOK
  <1>1. phase[q] \in Over /\ q # s
    BY DEF OverOK, OthersStay
  <1> QED
    BY <1>1 DEF OthersStay

LEMMA TargetFrame ==
  ASSUME TargetOK, NEW r \in Request, OthersStay(r), Busy(r)'
  PROVE  TargetOK'
  <1>1. ASSUME NEW q \in Request, q # r PROVE Busy(q)'
    BY <1>1 DEF TargetOK, Busy, OthersStay, Writes, Does, Target
  <1> QED
    BY <1>1 DEF TargetOK

LEMMA MenuFrame ==
  ASSUME MenuOK, UNCHANGED menus, NEW r \in Request, OthersStay(r), Undone(r),
         phase'[r] = "insert_menu" \/ menu'[r] = r =>
           /\ Does(r, {"add"})' /\ phase'[r] \in {"insert_menu", "flush", "refresh", "commit"}
           /\ \A m \in menus : m \in Request /\ m \notin before'[r]
  PROVE  MenuOK'
  <1>1. \A m \in menus : m \in Request => Succeeded(m, "add") /\ m # r
    BY DEF MenuOK, Succeeded, Undone
  <1>2. \A m \in menus : m \in Request => Succeeded(m, "add")'
    BY <1>1 DEF Succeeded, Does, OthersStay
  <1>3. MenusOnlyRaced'
    <2> SUFFICES ASSUME NEW m \in menus, NEW n \in menus, m # n
                 PROVE  /\ m \in Request /\ Succeeded(m, "add")'
                        /\ n \in Request /\ Succeeded(n, "add")'
                        /\ Overlap(m, n)'
      BY DEF MenusOnlyRaced
    <2>1. m \in Request /\ n \in Request /\ Overlap(m, n)
      BY DEF MenuOK, MenusOnlyRaced
    <2>2. before'[m] = before[m] /\ before'[n] = before[n]
      BY <1>1, <2>1 DEF OthersStay
    <2> QED
      BY <1>2, <2>1, <2>2 DEF Overlap
  <1>4. ASSUME NEW q \in Request \ {r}, phase'[q] = "insert_menu" \/ menu'[q] = q
        PROVE  /\ Does(q, {"add"})' /\ phase'[q] \in {"insert_menu", "flush", "refresh", "commit"}
               /\ \A m \in menus : m \in Request /\ m \notin before'[q]
    BY <1>4 DEF MenuOK, OthersStay, Does
  <1> QED
    BY <1>2, <1>3, <1>4 DEF MenuOK

LEMMA LockFrame ==
  ASSUME LockOK, UNCHANGED rows, NEW r \in Request, OthersStay(r), LocksStay(r), TypeOK,
         \A t \in Thing : lock'[t] = r => Held(r, t)'
  PROVE  LockOK'
  <1> SUFFICES ASSUME NEW t \in Thing, lock'[t] # NoRequest
               PROVE  Held(lock[t], t)'
    BY DEF LockOK
  <1>1. CASE lock'[t] = r
    <2>1. Held(r, t)'
      BY <1>1
    <2> QED
      BY <1>1, <2>1 DEF Held, Does, Target
  <1>2. CASE lock'[t] # r
    <2>1. lock'[t] = lock[t] /\ draft'[t] = draft[t] /\ lock[t] \in Request \ {r}
      BY <1>2 DEF LocksStay, TypeOK
    <2>2. Held(lock[t], t)
      BY <2>1 DEF LockOK
    <2>3. job'[lock[t]] = job[lock[t]] /\ phase'[lock[t]] = phase[lock[t]]
      BY <2>1 DEF OthersStay
    <2> QED
      BY <2>1, <2>2, <2>3 DEF Held, Does, Target
  <1> QED
    BY <1>1, <1>2

LEMMA IdFrame ==
  ASSUME IdOK, UNCHANGED rows, unused' \subseteq unused, NEW r \in Request, OthersStay(r),
         Does(r, {"add"})' \/ Editing(r)' =>
           /\ Target(r)' \notin unused'
           /\ \A q \in Request \ {r} : Adding(q) => Target(q) # Target(r)',
         Adding(r)' =>
           /\ rows[Target(r)'] = NoRow
           /\ \A q \in Request \ {r} : Does(q, {"add"}) \/ Editing(q) => Target(q) # Target(r)'
  PROVE  IdOK'
  <1>1. \A q \in Request \ {r} :
          /\ Does(q, {"add"})' <=> Does(q, {"add"})
          /\ Editing(q)' <=> Editing(q)
          /\ Adding(q)' <=> Adding(q)
          /\ Target(q)' = Target(q)
    BY DEF OthersStay, Does, Editing, Adding, Target
  <1>2. \A t \in Thing : rows'[t] # NoRow => t \notin unused'
    BY DEF IdOK
  <1>3. \A q \in Request : Does(q, {"add"})' \/ Editing(q)' => Target(q)' \notin unused'
    BY <1>1 DEF IdOK
  <1>4. ASSUME NEW q \in Request, Adding(q)'
        PROVE  /\ rows'[Target(q)'] = NoRow
               /\ \A p \in Request \ {q} :
                     Does(p, {"add"})' \/ Editing(p)' => Target(p)' # Target(q)'
    <2>1. CASE q = r
      BY <1>1, <1>4, <2>1
    <2>2. CASE q # r
      BY <1>1, <1>4, <2>2 DEF IdOK
    <2> QED
      BY <2>1, <2>2
  <1> QED
    BY <1>2, <1>3, <1>4 DEF IdOK

LEMMA LastFrame ==
  ASSUME LastOK, TypeOK, UNCHANGED rows, NEW r \in Request, OthersStay(r), LocksStay(r),
         Undone(r),
         \A t \in Thing, c \in Column, w \in Request \cup {NoRequest} :
           /\ rows[t] # NoRow
           /\ Does(r, {"update"})' /\ Target(r)' = t
           /\ Does(r, {"update"}) /\ Target(r) = t => Follows(w, r, t, c)
           => Follows(w, r, t, c)'
  PROVE  LastOK'
  <1> SUFFICES ASSUME NEW t \in Thing, NEW c \in Column, rows[t] # NoRow
               PROVE  \E w \in Request \cup {NoRequest} :
                        /\ Last(w, t, c)'
                        /\ \A s \in Request :
                             Does(s, {"update"})' /\ Target(s)' = t => Follows(w, s, t, c)'
    BY DEF LastOK
  <1>1. PICK w \in Request \cup {NoRequest} :
          /\ Last(w, t, c)
          /\ \A s \in Request : Does(s, {"update"}) /\ Target(s) = t => Follows(w, s, t, c)
    BY DEF LastOK
  <1>2. Edits(t, c)' = Edits(t, c) /\ r \notin Edits(t, c)
    BY DEF Edits, Names, Succeeded, Does, Target, OthersStay, Undone
  <1>3. Last(w, t, c)'
    <2>1. \A q \in Edits(t, c) : before'[q] = before[q] /\ job'[q] = job[q]
      BY <1>2 DEF OthersStay, Edits
    <2> QED
      BY <1>1, <1>2, <2>1 DEF Last
  <1>4. ASSUME NEW s \in Request, Does(s, {"update"})', Target(s)' = t
        PROVE  Follows(w, s, t, c)'
    <2>1. CASE s = r
      BY <1>1, <1>4, <2>1
    <2>2. CASE s # r
      <3>1. /\ job'[s] = job[s] /\ phase'[s] = phase[s] /\ before'[s] = before[s]
            /\ loaded'[s] = loaded[s]
        BY <2>2 DEF OthersStay
      <3>2. Follows(w, s, t, c)
        BY <1>1, <1>4, <3>1 DEF Does, Target
      <3>3. lock'[t] = s <=> lock[t] = s
        BY <2>2, NoRequestAssumption DEF LocksStay
      <3>4. lock[t] = s => draft'[t] = draft[t]
        BY <2>2, NoRequestAssumption DEF LocksStay
      <3>5. Visible(s)' = Visible(s)
        BY <1>4, <3>1, <3>3, <3>4 DEF Visible, Holds, Writes, Does, Target
      <3> QED
        BY <3>1, <3>2, <3>5 DEF Follows, Beats
    <2> QED
      BY <2>1, <2>2
  <1> QED
    BY <1>3, <1>4

-----------------------------------------------------------------------------

LEMMA FailKeeps ==
  ASSUME IInv, TypeOK', NEW r \in Request, phase[r] \notin Over, Fail(r)
  PROVE  IInv'
  <1>0. TypeOK /\ OverOK /\ StartOK /\ TargetOK /\ MenuOK /\ LockOK /\ IdOK /\ LastOK
    BY DEF IInv
  <1>1. /\ phase'[r] = "failed" /\ job'[r] = NoJob /\ menu'[r] = NoMenu /\ before'[r] = {}
        /\ OthersStay(r)
    BY <1>0 DEF TypeOK, Fail, Goto, OthersStay
  <1>2. UNCHANGED <<rows, menus, unused>>
    BY DEF Fail, data
  <1>3. \A ops : ~Does(r, ops)'
    BY <1>1 DEF Does
  <1>4. \A t \in Thing : lock[t] = r => t = Target(r) /\ Holds(r)
    BY <1>0, NoRequestAssumption DEF LockOK, Held, Holds, Writes, Does
  <1>5. LocksStay(r) /\ \A t \in Thing : lock'[t] # r
    <2>1. CASE Holds(r)
      BY <1>0, <1>4, <2>1, NoRequestAssumption
      DEF LocksStay, Fail, Release, Holds, TargetOK, Busy, TypeOK
    <2>2. CASE ~Holds(r)
      BY <1>4, <2>2 DEF LocksStay, Fail, Release, locks
    <2> QED
      BY <2>1, <2>2
  <1>6. Undone(r)
    BY <1>1 DEF Undone, Over
  <1>7. OverOK'
    BY <1>0, <1>1, OverFrame
  <1>8. StartOK' /\ TargetOK'
    BY <1>0, <1>1, <1>3 DEF StartOK, TargetOK, Busy, OthersStay, Writes, Does, Target
  <1>9. MenuOK'
    <2>1. menu'[r] # r
      BY <1>1, NoMenuAssumption DEF Menu
    <2> QED
      BY <1>0, <1>1, <1>2, <1>6, <2>1, MenuFrame
  <1>10. LockOK'
    BY <1>0, <1>1, <1>2, <1>5, LockFrame
  <1>11. IdOK'
    BY <1>0, <1>1, <1>2, <1>3, IdFrame DEF Editing, Adding
  <1>12. LastOK'
    BY <1>0, <1>1, <1>2, <1>3, <1>5, <1>6, LastFrame
  <1> QED
    BY <1>7, <1>8, <1>9, <1>10, <1>11, <1>12 DEF IInv

LEMMA BeginKeeps ==
  ASSUME IInv, TypeOK', NEW r \in Request, Begin(r)
  PROVE  IInv'
  <1>0. TypeOK /\ OverOK /\ StartOK /\ TargetOK /\ MenuOK /\ LockOK /\ IdOK /\ LastOK
    BY DEF IInv
  <1>1. CASE Refuse(r)
    BY <1>1, FailKeeps DEF Refuse, Over
  <1>2. CASE ~Refuse(r)
    <2>1. PICK op \in Op, t \in Thing \cup {NoThing}, patch \in Patch,
               p \in {"menu", "flush", "read", "load"} :
             /\ Asks(r, op, t, patch)
             /\ Goto(r, p)
             /\ \/ op = "add" /\ t \in unused /\ unused' = unused \ {t} /\ p \in {"menu", "flush"}
                \/ op = "list" /\ UNCHANGED unused /\ p \in {"menu", "read"}
                \/ op \in {"update", "delete"} /\ t \in Thing /\ UNCHANGED unused /\ p = "load"
      BY <1>0, <1>2, BeginShape
    <2>2. /\ phase[r] = "new" /\ job[r] = NoJob /\ menu[r] = NoMenu
          /\ phase'[r] = p /\ menu'[r] = NoMenu
          /\ job'[r] = [op |-> op, target |-> t, patch |-> patch]
          /\ before'[r] = {q \in Request : phase[q] \in Over}
          /\ OthersStay(r)
          /\ UNCHANGED <<rows, menus, lock, draft>> /\ unused' \subseteq unused
      BY <1>0, <2>1 DEF TypeOK, StartOK, Asks, Goto, OthersStay, locks, session
    <2>3. job'[r] # NoJob /\ Target(r)' = t /\ \A ops : Does(r, ops)' <=> op \in ops
      <3>1. job'[r] \in Job
        BY <2>2 DEF Job
      <3> QED
        BY <2>2, <3>1, NoJobAssumption DEF Does, Target
    <2>4. LocksStay(r) /\ \A u \in Thing : lock'[u] # r
      BY <1>0, <2>2, NoRequestAssumption DEF LocksStay, LockOK, Held, Does
    <2>5. Undone(r)
      BY <2>2 DEF Undone
    <2>6. OverOK'
      BY <1>0, <2>2, OverFrame DEF Over
    <2>7. StartOK' /\ TargetOK'
      <3>1. StartOK'
        BY <1>0, <2>2 DEF StartOK, OthersStay
      <3>2. Busy(r)'
        BY <1>0, <2>1, <2>2, <2>3 DEF Busy, Writes, TypeOK
      <3> QED
        BY <1>0, <2>2, <3>1, <3>2, TargetFrame
    <2>8. MenuOK'
      <3>1. menu'[r] # r
        BY <2>2, NoMenuAssumption DEF Menu
      <3> QED
        BY <1>0, <2>2, <2>5, <3>1, MenuFrame
    <2>9. LockOK'
      BY <1>0, <2>2, <2>4, LockFrame
    <2>10. IdOK'
      <3>1. ~Editing(r)'
        BY <2>1, <2>2, <2>3 DEF Editing
      <3>2. Does(r, {"add"})' => t \in unused /\ unused' = unused \ {t} /\ t \in Thing
        BY <1>0, <2>1, <2>3 DEF TypeOK
      <3>3. Does(r, {"add"})' => rows[t] = NoRow
        BY <1>0, <3>2 DEF IdOK
      <3>4. Does(r, {"add"})' =>
              \A q \in Request \ {r} : Does(q, {"add"}) \/ Editing(q) => Target(q) # t
        BY <1>0, <3>2 DEF IdOK
      <3>5. \A q : Adding(q) => Does(q, {"add"})
        BY DEF Adding
      <3>6. Adding(r)' => Does(r, {"add"})'
        BY DEF Adding
      <3> QED
        BY <1>0, <2>2, <2>3, <3>1, <3>2, <3>3, <3>4, <3>5, <3>6, IdFrame
    <2>11. LastOK'
      <3>1. \A u \in Thing, c \in Column, w \in Request \cup {NoRequest} :
              Does(r, {"update"})' => Follows(w, r, u, c)'
        BY <2>1, <2>2, <2>3 DEF Follows
      <3> QED
        BY <1>0, <2>2, <2>4, <2>5, <3>1, LastFrame
    <2> QED
      BY <2>6, <2>7, <2>8, <2>9, <2>10, <2>11 DEF IInv
  <1> QED
    BY <1>1, <1>2

(* A step of a request that goes on: what it reads and flushes.            *)
LEMMA MoveKeeps ==
  ASSUME IInv, TypeOK', NEW r \in Request, OthersStay(r), LocksStay(r),
         UNCHANGED <<data, job, before>>, phase[r] \in Running, phase'[r] \in Running,
         Busy(r)',
         phase'[r] = "insert_menu" \/ menu'[r] = r =>
           /\ Does(r, {"add"}) /\ phase'[r] \in {"insert_menu", "flush", "refresh", "commit"}
           /\ \A m \in menus : m \in Request /\ m \notin before[r],
         \A t \in Thing : lock'[t] = r => Held(r, t)',
         phase'[r] \in {"flush", "refresh", "commit"} /\ Does(r, {"update", "delete"}) =>
           \/ phase[r] \in {"flush", "refresh", "commit"}
           \/ rows[Target(r)] # NoRow,
         \A c \in Column, w \in Request \cup {NoRequest} :
           /\ Does(r, {"update"})
           /\ rows[Target(r)] # NoRow
           /\ Follows(w, r, Target(r), c)
           => Follows(w, r, Target(r), c)'
  PROVE  IInv'
  <1>0. TypeOK /\ OverOK /\ StartOK /\ TargetOK /\ MenuOK /\ LockOK /\ IdOK /\ LastOK
    BY DEF IInv
  <1>1. /\ phase[r] \notin Over /\ phase'[r] \notin Over /\ phase'[r] # "new"
        /\ Undone(r)
    BY DEF Running, Over, Undone
  <1>2. /\ UNCHANGED <<rows, menus, unused>>
        /\ job'[r] = job[r] /\ before'[r] = before[r]
        /\ \A ops : Does(r, ops)' <=> Does(r, ops)
        /\ Target(r)' = Target(r)
        /\ Writes(r)' <=> Writes(r)
    BY DEF data, Does, Target, Writes
  <1>3. OverOK'
    BY <1>0, <1>1, <1>2, OverFrame DEF OverOK, TypeOK
  <1>4. StartOK'
    BY <1>0, <1>1 DEF StartOK, OthersStay
  <1>5. TargetOK'
    BY <1>0, TargetFrame
  <1>6. MenuOK'
    BY <1>0, <1>1, <1>2, MenuFrame
  <1>7. LockOK'
    BY <1>0, <1>2, LockFrame
  <1>8. IdOK'
    <2>1. Adding(r)' => Adding(r)
      BY <1>1, <1>2 DEF Adding
    <2>2. Does(r, {"add"})' => Adding(r)
      BY <1>1, <1>2 DEF Adding
    <2>3. Editing(r)' => Editing(r) \/ rows[Target(r)] # NoRow
      BY <1>1, <1>2 DEF Editing, Over
    <2>4. Editing(r)' => Target(r) \in Thing
      BY <1>0, <1>2 DEF TargetOK, Busy, Editing, Writes, Does
    <2>5. rows[Target(r)] # NoRow /\ Target(r) \in Thing =>
            /\ Target(r) \notin unused
            /\ \A q \in Request \ {r} : Adding(q) => Target(q) # Target(r)
      BY <1>0 DEF IdOK
    <2>6. Does(r, {"add"}) \/ Editing(r) =>
            /\ Target(r) \notin unused
            /\ \A q \in Request \ {r} : Adding(q) => Target(q) # Target(r)
      BY <1>0 DEF IdOK
    <2>7. Adding(r) =>
            /\ rows[Target(r)] = NoRow
            /\ \A q \in Request \ {r} : Does(q, {"add"}) \/ Editing(q) => Target(q) # Target(r)
      BY <1>0 DEF IdOK
    <2> QED
      BY <1>0, <1>2, <2>1, <2>3, <2>4, <2>5, <2>6, <2>7, IdFrame
  <1>9. LastOK'
    BY <1>0, <1>1, <1>2, LastFrame
  <1> QED
    BY <1>3, <1>4, <1>5, <1>6, <1>7, <1>8, <1>9 DEF IInv

LEMMA SelectMenuKeeps ==
  ASSUME IInv, TypeOK', NEW r \in Request, SelectMenu(r)
  PROVE  IInv'
  <1>0. TypeOK /\ MenuOK /\ LockOK /\ Busy(r)
    BY DEF IInv, TargetOK
  <1>1. PICK m \in menus : menu' = [menu EXCEPT ![r] = m]
    BY DEF SelectMenu, Found
  <1>2. PICK p \in {"flush", "read"} : Goto(r, p) /\ (p = "flush" => Does(r, {"add"}))
    BY DEF SelectMenu
  <1>3. /\ phase[r] = "menu" /\ phase'[r] = p /\ menu'[r] = m
        /\ OthersStay(r) /\ LocksStay(r)
        /\ UNCHANGED <<data, lock, job, before>>
    BY <1>0, <1>1, <1>2 DEF TypeOK, SelectMenu, Goto, OthersStay, LocksStay, locks
  <1>4. m # r
    BY <1>0, <1>3 DEF MenuOK, Succeeded
  <1>5. \A t \in Thing : lock'[t] # r
    BY <1>0, <1>3, NoRequestAssumption DEF LockOK, Held
  <1>6. ~Does(r, {"update"}) /\ ~Does(r, {"update", "delete"})
    BY <1>0, <1>3 DEF Busy, Does
  <1>7. Busy(r)'
    BY <1>0, <1>2, <1>3 DEF Busy, Writes, Does, Target
  <1> QED
    BY <1>2, <1>3, <1>4, <1>5, <1>6, <1>7, MoveKeeps DEF Running, Phase, Over

LEMMA NoMenuYetKeeps ==
  ASSUME IInv, TypeOK', NEW r \in Request, NoMenuYet(r)
  PROVE  IInv'
  <1>0. TypeOK /\ MenuOK /\ LockOK /\ Busy(r)
    BY DEF IInv, TargetOK
  <1>1. menus = {}
    BY DEF NoMenuYet, Found
  <1>2. PICK p \in {"insert_menu", "commit"} :
          Goto(r, p) /\ (p = "insert_menu" <=> Does(r, {"add"}))
    BY DEF NoMenuYet
  <1>3. /\ phase[r] = "menu" /\ phase'[r] = p /\ menu' = menu
        /\ OthersStay(r) /\ LocksStay(r)
        /\ UNCHANGED <<data, lock, job, before>>
    BY <1>0, <1>2 DEF TypeOK, NoMenuYet, Goto, OthersStay, LocksStay, locks, session
  <1>4. menu[r] # r
    BY <1>0, <1>3 DEF MenuOK
  <1>5. \A t \in Thing : lock'[t] # r
    BY <1>0, <1>3, NoRequestAssumption DEF LockOK, Held
  <1>6. ~Does(r, {"update"}) /\ ~Does(r, {"update", "delete"})
    BY <1>0, <1>3 DEF Busy, Does
  <1>7. Busy(r)'
    BY <1>0, <1>2, <1>3 DEF Busy, Writes, Does, Target
  <1> QED
    BY <1>1, <1>2, <1>3, <1>4, <1>5, <1>6, <1>7, MoveKeeps DEF Running, Phase, Over

LEMMA InsertMenuKeeps ==
  ASSUME IInv, TypeOK', NEW r \in Request, InsertMenu(r)
  PROVE  IInv'
  <1>0. TypeOK /\ MenuOK /\ LockOK /\ Busy(r)
    BY DEF IInv, TargetOK
  <1>1. /\ phase[r] = "insert_menu" /\ phase'[r] = "flush" /\ menu'[r] = r
        /\ OthersStay(r) /\ LocksStay(r)
        /\ UNCHANGED <<data, lock, job, before>>
    BY <1>0 DEF TypeOK, InsertMenu, Goto, OthersStay, LocksStay, locks
  <1>2. /\ Does(r, {"add"})
        /\ \A m \in menus : m \in Request /\ m \notin before[r]
    BY <1>0, <1>1 DEF MenuOK
  <1>3. \A t \in Thing : lock'[t] # r
    BY <1>0, <1>1, NoRequestAssumption DEF LockOK, Held
  <1>4. ~Does(r, {"update"}) /\ ~Does(r, {"update", "delete"})
    BY <1>2 DEF Does
  <1>5. Busy(r)'
    BY <1>0, <1>1, <1>2 DEF Busy, Writes, Does, Target
  <1> QED
    BY <1>1, <1>2, <1>3, <1>4, <1>5, MoveKeeps DEF Running, Phase, Over

LEMMA ReadKeeps ==
  ASSUME IInv, TypeOK', NEW r \in Request, Read(r)
  PROVE  IInv'
  <1>0. TypeOK /\ MenuOK /\ LockOK /\ Busy(r)
    BY DEF IInv, TargetOK
  <1>1. /\ phase[r] = "read" /\ phase'[r] = "commit" /\ menu' = menu
        /\ OthersStay(r) /\ LocksStay(r)
        /\ UNCHANGED <<data, lock, job, before>>
    BY <1>0 DEF TypeOK, Read, Goto, OthersStay, LocksStay, locks
  <1>2. menu[r] # r
    BY <1>0, <1>1 DEF MenuOK
  <1>3. \A t \in Thing : lock'[t] # r
    BY <1>0, <1>1, NoRequestAssumption DEF LockOK, Held
  <1>4. ~Does(r, {"update"}) /\ ~Does(r, {"update", "delete"})
    BY <1>0, <1>1 DEF Busy, Does
  <1>5. Busy(r)'
    BY <1>0, <1>1 DEF Busy, Writes, Does, Target
  <1> QED
    BY <1>1, <1>2, <1>3, <1>4, <1>5, MoveKeeps DEF Running, Phase, Over

LEMMA LoadsKeeps ==
  ASSUME IInv, TypeOK', NEW r \in Request, Loads(r)
  PROVE  IInv'
  <1>0. TypeOK /\ MenuOK /\ LockOK /\ Busy(r)
    BY DEF IInv, TargetOK
  <1>1. /\ phase[r] = "load" /\ phase'[r] = "flush" /\ menu' = menu
        /\ loaded'[r] = rows[Target(r)]
        /\ OthersStay(r) /\ LocksStay(r)
        /\ UNCHANGED <<data, rows, lock, job, before>>
    BY <1>0 DEF TypeOK, Loads, Goto, OthersStay, LocksStay, locks, data
  <1>2. menu[r] # r
    BY <1>0, <1>1 DEF MenuOK
  <1>3. \A t \in Thing : lock'[t] # r
    BY <1>0, <1>1, NoRequestAssumption DEF LockOK, Held
  <1>4. rows[Target(r)] # NoRow
    BY DEF Loads
  <1>5. Busy(r)'
    BY <1>0, <1>1 DEF Busy, Writes, Does, Target
  <1>7. \A c \in Column, w \in Request \cup {NoRequest} :
          Does(r, {"update"}) => Follows(w, r, Target(r), c)'
    BY <1>1 DEF Follows, Target
  <1> QED
    BY <1>1, <1>2, <1>3, <1>4, <1>5, <1>7, MoveKeeps DEF Running, Phase, Over

(* An UPDATE of nothing: what it asks for is what it loaded.               *)
LEMMA SkipUpdateKeeps ==
  ASSUME IInv, TypeOK', NEW r \in Request, SkipUpdate(r)
  PROVE  IInv'
  <1>0. TypeOK /\ MenuOK /\ LockOK /\ Busy(r)
    BY DEF IInv, TargetOK
  <1>1. /\ phase[r] = "flush" /\ phase'[r] = "refresh" /\ Does(r, {"update"})
        /\ OthersStay(r) /\ LocksStay(r)
        /\ UNCHANGED <<data, rows, lock, draft, job, before, loaded, menu>>
    BY <1>0 DEF TypeOK, SkipUpdate, Goto, OthersStay, LocksStay, locks, data, session
  <1>2. menu[r] # r
    BY <1>0, <1>1 DEF MenuOK, Does
  <1>3. \A t \in Thing : lock'[t] # r
    BY <1>0, <1>1, NoRequestAssumption DEF LockOK, Held
  <1>4. Busy(r)'
    BY <1>0, <1>1 DEF Busy, Writes, Does, Target
  <1>5. Target(r) \in Thing
    BY <1>0, <1>1 DEF Busy, Writes, Does
  <1>6. Visible(r)' = rows[Target(r)]
    BY <1>1, <1>3, <1>5 DEF Visible, Holds, Target
  <1>7. \A c \in DOMAIN job[r].patch : job[r].patch[c] = loaded[r].cols[c]
    BY DEF SkipUpdate, Changed
  <1>8. ASSUME NEW c \in Column, NEW w \in Request \cup {NoRequest}, Follows(w, r, Target(r), c)
        PROVE  Follows(w, r, Target(r), c)'
    <2>1. Target(r)' = Target(r) /\ rows' = rows /\ job' = job
      BY <1>1 DEF Target
    <2> QED
      BY <1>1, <1>6, <1>7, <1>8, <2>1 DEF Follows, Beats
  <1> QED
    BY <1>1, <1>2, <1>3, <1>4, <1>8, MoveKeeps DEF Running, Phase, Over

LEMMA RefreshKeeps ==
  ASSUME IInv, TypeOK', NEW r \in Request, Refresh(r)
  PROVE  IInv'
  <1>0. TypeOK /\ MenuOK /\ LockOK /\ Busy(r)
    BY DEF IInv, TargetOK
  <1>1. /\ phase[r] = "refresh" /\ phase'[r] = "commit"
        /\ OthersStay(r) /\ LocksStay(r)
        /\ UNCHANGED <<data, rows, lock, draft, job, before, menu>>
    BY <1>0 DEF TypeOK, Refresh, Goto, OthersStay, LocksStay, locks, data
  <1>2. menu'[r] = r => /\ Does(r, {"add"})
                        /\ \A m \in menus : m \in Request /\ m \notin before[r]
    BY <1>0, <1>1 DEF MenuOK
  <1>3. ASSUME NEW t \in Thing, lock'[t] = r
        PROVE  Held(r, t)'
    <2>1. Held(r, t)
      BY <1>0, <1>1, <1>3, NoRequestAssumption DEF LockOK
    <2> QED
      BY <1>1, <2>1 DEF Held, Does, Target
  <1>4. Busy(r)'
    BY <1>0, <1>1 DEF Busy, Writes, Does, Target
  <1>5. ASSUME NEW c \in Column, NEW w \in Request \cup {NoRequest}, Follows(w, r, Target(r), c)
        PROVE  Follows(w, r, Target(r), c)'
    <2>1. Visible(r)' = Visible(r) /\ Target(r)' = Target(r)
      BY <1>1 DEF Visible, Holds, Writes, Does, Target
    <2> QED
      BY <1>1, <1>5, <2>1 DEF Follows, Beats
  <1> QED
    BY <1>1, <1>2, <1>3, <1>4, <1>5, MoveKeeps DEF Running, Phase, Over

LEMMA InsertKeeps ==
  ASSUME IInv, TypeOK', NEW r \in Request, Insert(r)
  PROVE  IInv'
  <1>0. TypeOK /\ MenuOK /\ LockOK /\ IdOK /\ Busy(r)
    BY DEF IInv, TargetOK
  <1>1. /\ phase[r] = "flush" /\ phase'[r] = "refresh" /\ Does(r, {"add"})
        /\ Target(r) \in Thing
        /\ OthersStay(r)
        /\ lock' = [lock EXCEPT ![Target(r)] = r]
        /\ draft' = [draft EXCEPT ![Target(r)] = Added(menu[r])]
        /\ UNCHANGED <<data, rows, job, before, menu>>
    BY <1>0 DEF TypeOK, Insert, Write, Goto, OthersStay, data, session, Busy, Writes, Does
  <1>2. menu'[r] = r => \A m \in menus : m \in Request /\ m \notin before[r]
    BY <1>0, <1>1 DEF MenuOK
  <1>3. \A t \in Thing : lock[t] # r
    BY <1>0, <1>1, NoRequestAssumption DEF LockOK, Held
  <1>4. lock[Target(r)] = NoRequest
    <2> SUFFICES ASSUME lock[Target(r)] # NoRequest PROVE FALSE
      OBVIOUS
    <2> DEFINE h == lock[Target(r)]
    <2>1. Held(h, Target(r)) /\ h \in Request \ {r}
      BY <1>0, <1>1, <1>3 DEF LockOK, TypeOK
    <2>2. Target(h) = Target(r) /\ (Does(h, {"add"}) \/ Editing(h))
      BY <2>1 DEF Held, Editing, Does
    <2>3. Adding(r)
      BY <1>1 DEF Adding, Over
    <2> QED
      BY <1>0, <2>1, <2>2, <2>3 DEF IdOK
  <1>5. LocksStay(r)
    BY <1>0, <1>1, <1>4 DEF LocksStay, TypeOK
  <1>6. ASSUME NEW t \in Thing, lock'[t] = r
        PROVE  Held(r, t)'
    <2>1. t = Target(r) /\ draft'[t] = Added(menu[r])
      BY <1>0, <1>1, <1>3, <1>6 DEF TypeOK
    <2>2. draft'[t] # NoRow /\ \A c \in Column : ~draft'[t].cols[c]
      BY <1>0, <2>1, AddedIsRow DEF TypeOK
    <2> QED
      BY <1>1, <2>1, <2>2 DEF Held, Does, Target
  <1>7. Busy(r)'
    BY <1>0, <1>1 DEF Busy, Writes, Does, Target
  <1>8. ~Does(r, {"update"}) /\ ~Does(r, {"update", "delete"})
    BY <1>1 DEF Does
  <1> QED
    BY <1>1, <1>2, <1>5, <1>6, <1>7, <1>8, MoveKeeps DEF Running, Phase, Over

LEMMA UpdateKeeps ==
  ASSUME IInv, TypeOK', NEW r \in Request, Update(r)
  PROVE  IInv'
  <1>0. TypeOK /\ MenuOK /\ LockOK /\ Busy(r)
    BY DEF IInv, TargetOK
  <1>1. /\ phase[r] = "flush" /\ phase'[r] = "refresh" /\ Does(r, {"update"})
        /\ Target(r) \in Thing /\ CanLock(r) /\ Visible(r) # NoRow
        /\ OthersStay(r)
        /\ lock' = [lock EXCEPT ![Target(r)] = r]
        /\ draft' = [draft EXCEPT ![Target(r)] = Updated(r)]
        /\ UNCHANGED <<data, rows, job, before, menu>>
    BY <1>0 DEF TypeOK, Update, Write, Goto, OthersStay, data, session, Busy, Writes, Does
  <1>2. menu[r] # r
    BY <1>0, <1>1 DEF MenuOK, Does
  <1>3. \A t \in Thing : lock[t] # r
    BY <1>0, <1>1, NoRequestAssumption DEF LockOK, Held
  <1>4. lock[Target(r)] = NoRequest /\ Visible(r) = rows[Target(r)]
    BY <1>1, <1>3 DEF CanLock, Visible, Holds
  <1>5. LocksStay(r)
    BY <1>0, <1>1, <1>4 DEF LocksStay, TypeOK
  <1>6. /\ draft'[Target(r)] = Updated(r) /\ Updated(r) # NoRow
        /\ \A c \in Column :
             Updated(r).cols[c] = IF c \in Changed(r) THEN job[r].patch[c]
                                                      ELSE rows[Target(r)].cols[c]
    BY <1>0, <1>1, <1>4, UpdatedIsRow, NoRowAssumption DEF TypeOK
  <1>7. Changed(r) \subseteq DOMAIN job[r].patch
    BY DEF Changed
  <1>8. ASSUME NEW t \in Thing, lock'[t] = r
        PROVE  Held(r, t)'
    <2>1. t = Target(r)
      BY <1>0, <1>1, <1>3, <1>8 DEF TypeOK
    <2>2. rows[t] # NoRow /\ draft'[t] # NoRow
      BY <1>1, <1>4, <1>6, <2>1
    <2>3. \A c \in Column \ DOMAIN job[r].patch : draft'[t].cols[c] = rows[t].cols[c]
      BY <1>6, <1>7, <2>1
    <2> QED
      BY <1>1, <2>1, <2>2, <2>3 DEF Held, Does, Target
  <1>9. Busy(r)'
    BY <1>0, <1>1 DEF Busy, Writes, Does, Target
  <1>10. ASSUME NEW c \in Column, NEW w \in Request \cup {NoRequest}, Follows(w, r, Target(r), c)
         PROVE  Follows(w, r, Target(r), c)'
    <2>1. Target(r)' = Target(r) /\ Visible(r)' = Updated(r)
      BY <1>0, <1>1, <1>6 DEF Target, Visible, Holds, Writes, Does, TypeOK
    <2>2. loaded[r].cols[c] = rows[Target(r)].cols[c] \/ Beats(w, r)
      BY <1>1, <1>10 DEF Follows
    <2>3. c \in DOMAIN job[r].patch /\ c \notin Changed(r) => job[r].patch[c] = loaded[r].cols[c]
      BY DEF Changed
    <2> QED
      BY <1>1, <1>6, <2>1, <2>2, <2>3 DEF Follows, Beats
  <1> QED
    BY <1>1, <1>2, <1>5, <1>8, <1>9, <1>10, MoveKeeps DEF Running, Phase, Over

LEMMA DeleteKeeps ==
  ASSUME IInv, TypeOK', NEW r \in Request, Delete(r)
  PROVE  IInv'
  <1>0. TypeOK /\ MenuOK /\ LockOK /\ Busy(r)
    BY DEF IInv, TargetOK
  <1>1. /\ phase[r] = "flush" /\ phase'[r] = "commit" /\ Does(r, {"delete"})
        /\ Target(r) \in Thing /\ CanLock(r)
        /\ OthersStay(r)
        /\ UNCHANGED locks \/ Write(r, NoRow)
        /\ UNCHANGED <<data, rows, job, before, menu>>
    BY <1>0 DEF TypeOK, Delete, Goto, OthersStay, data, session, Busy, Writes, Does
  <1>2. menu[r] # r
    BY <1>0, <1>1 DEF MenuOK, Does
  <1>3. \A t \in Thing : lock[t] # r
    BY <1>0, <1>1, NoRequestAssumption DEF LockOK, Held
  <1>4. lock[Target(r)] = NoRequest
    BY <1>1, <1>3 DEF CanLock
  <1>5. LocksStay(r)
    BY <1>0, <1>1, <1>4 DEF LocksStay, TypeOK, Write, locks
  <1>6. ASSUME NEW t \in Thing, lock'[t] = r
        PROVE  Held(r, t)'
    <2>1. t = Target(r) /\ draft'[t] = NoRow
      BY <1>0, <1>1, <1>3, <1>6 DEF TypeOK, Write, locks
    <2> QED
      BY <1>1, <2>1 DEF Held, Does, Target
  <1>7. Busy(r)'
    BY <1>0, <1>1 DEF Busy, Writes, Does, Target
  <1>8. ~Does(r, {"update"})
    BY <1>1 DEF Does
  <1> QED
    BY <1>1, <1>2, <1>5, <1>6, <1>7, <1>8, MoveKeeps DEF Running, Phase, Over

-----------------------------------------------------------------------------

(* After a commit the last edit is still w's, or it is r's.                *)
LEMMA KeepLast ==
  ASSUME NEW r \in Request, NEW t \in Thing, NEW c \in Column,
         NEW w \in Request \cup {NoRequest}, Last(w, t, c),
         rows'[t].cols[c] = rows[t].cols[c],
         UNCHANGED <<job, before>>,
         Edits(t, c)' = Edits(t, c) \/ (Edits(t, c)' = Edits(t, c) \cup {r} /\ Beats(w, r))
  PROVE  Last(w, t, c)'
  BY DEF Last, Beats

LEMMA TakeLast ==
  ASSUME NEW r \in Request, OverOK, TypeOK, phase[r] \notin Over,
         NEW t \in Thing, NEW c \in Column, r \in Edits(t, c)',
         rows'[t].cols[c] = job[r].patch[c],
         UNCHANGED <<job, before>>
  PROVE  /\ Last(r, t, c)'
         /\ \A s \in Request : Beats(r, s)'
  <1>1. \A s \in Request : r \notin before'[s]
    BY DEF OverOK
  <1>2. r # NoRequest /\ \A q \in Edits(t, c)' : q \in Request
    BY NoRequestAssumption DEF Edits
  <1> QED
    BY <1>1, <1>2 DEF Last, Beats

LEMMA CommitLast ==
  ASSUME IInv, TypeOK', NEW r \in Request, Commit(r)
  PROVE  LastOK'
  <1>0. TypeOK /\ OverOK /\ LockOK /\ IdOK /\ LastOK /\ Busy(r)
    BY DEF IInv, TargetOK
  <1>1. /\ phase[r] = "commit" /\ phase'[r] = "done" /\ phase[r] \notin Over
        /\ OthersStay(r)
        /\ UNCHANGED <<job, before>>
        /\ rows' = IF Holds(r) THEN [rows EXCEPT ![Target(r)] = Visible(r)] ELSE rows
    BY <1>0 DEF TypeOK, Commit, Goto, OthersStay, Over
  <1>2. \A t \in Thing : lock[t] = r => t = Target(r) /\ Holds(r) /\ Held(r, t)
    BY <1>0, NoRequestAssumption DEF LockOK, Held, Holds, Writes, Does
  <1>3. Holds(r) => Target(r) \in Thing /\ lock[Target(r)] = r /\ Visible(r) = draft[Target(r)]
    BY <1>0 DEF Holds, Busy, Visible
  <1>4. LocksStay(r) /\ \A t \in Thing : lock'[t] # r
    <2>1. CASE Holds(r)
      BY <1>0, <1>2, <1>3, <2>1, NoRequestAssumption
      DEF LocksStay, Commit, Release, TypeOK
    <2>2. CASE ~Holds(r)
      BY <1>2, <2>2 DEF LocksStay, Commit, Release, locks
    <2> QED
      BY <2>1, <2>2
  <1> SUFFICES ASSUME NEW t \in Thing, NEW c \in Column, rows'[t] # NoRow
               PROVE  \E w \in Request \cup {NoRequest} :
                        /\ Last(w, t, c)'
                        /\ \A s \in Request :
                             Does(s, {"update"})' /\ Target(s)' = t => Follows(w, s, t, c)'
    BY DEF LastOK
  <1>5. \A s \in Request : Does(s, {"update"})' <=> Does(s, {"update"})
    BY <1>1 DEF Does
  <1>6. \A s \in Request : Target(s)' = Target(s)
    BY <1>1 DEF Target
  <1>7. /\ Names(r, t, c)' <=> Does(r, {"update"}) /\ Target(r) = t /\ c \in DOMAIN job[r].patch
        /\ Edits(t, c)' = IF Names(r, t, c)' THEN Edits(t, c) \cup {r} ELSE Edits(t, c)
    <2>1. Names(r, t, c)' <=> Does(r, {"update"}) /\ Target(r) = t /\ c \in DOMAIN job[r].patch
      BY <1>1 DEF Names, Succeeded, Does, Target
    <2>2. \A q \in Request \ {r} : Names(q, t, c)' <=> Names(q, t, c)
      BY <1>1 DEF Names, Succeeded, Does, Target, OthersStay
    <2>3. ~Names(r, t, c)
      BY <1>1 DEF Names, Succeeded
    <2>4. \A q \in Request : q \in Edits(t, c)' <=> Names(q, t, c)'
      BY DEF Edits
    <2>5. \A q : q \in Edits(t, c) => q \in Request
      BY DEF Edits
    <2>6. \A q : q \in Edits(t, c)' => q \in Request
      BY DEF Edits
    <2>7. \A q \in Request : q \in Edits(t, c) <=> Names(q, t, c)
      BY DEF Edits
    <2> QED
      BY <2>1, <2>2, <2>3, <2>4, <2>5, <2>6, <2>7
  (* Who has not committed still sees what it saw, or the row as it is.    *)
  <1>8. ASSUME NEW s \in Request \ {r}, Target(s) = t, Does(s, {"update"})
        PROVE  /\ lock[t] = s => Visible(s)' = Visible(s)
               /\ lock[t] # s => Visible(s) = rows[t] /\ Visible(s)' = rows'[t]
    <2>1. lock'[t] = s <=> lock[t] = s
      BY <1>4, NoRequestAssumption DEF LocksStay
    <2>2. lock[t] = s => draft'[t] = draft[t]
      BY <1>4, NoRequestAssumption DEF LocksStay
    <2>3. Holds(s)' <=> lock[t] = s
      BY <1>1, <1>8, <2>1 DEF Holds, Writes, Does, Target
    <2>4. Holds(s) <=> lock[t] = s
      BY <1>8 DEF Holds, Writes, Does
    <2> QED
      BY <1>1, <1>8, <2>2, <2>3, <2>4 DEF Visible, Target
  <1>9. ASSUME NEW w \in Request \cup {NoRequest}, NEW s \in Request \ {r}, Target(s) = t,
               Does(s, {"update"}), Follows(w, s, t, c),
               rows'[t].cols[c] = rows[t].cols[c]
        PROVE  Follows(w, s, t, c)'
    <2>1. Visible(s)'.cols[c] = Visible(s).cols[c]
      BY <1>8, <1>9
    <2>2. phase'[s] = phase[s] /\ loaded'[s] = loaded[s]
      BY <1>1 DEF OthersStay
    <2> QED
      BY <1>1, <1>9, <2>1, <2>2 DEF Follows, Beats
  <1>10. \A w : Follows(w, r, t, c)'
    BY <1>1 DEF Follows
  <1>11. CASE Holds(r) /\ Target(r) = t
    <2>1. lock[t] = r /\ Held(r, t) /\ rows'[t] = draft[t] /\ draft[t] # NoRow
      BY <1>0, <1>1, <1>2, <1>3, <1>11 DEF TypeOK
    <2>2. CASE Does(r, {"add"})
      <3>1. ~draft[t].cols[c]
        BY <2>1, <2>2 DEF Held, Does
      <3>2. Adding(r)
        BY <1>1, <2>2 DEF Adding
      <3>3. \A q \in Request \ {r} : ~(Editing(q) /\ Target(q) = t)
        BY <1>0, <1>11, <3>2 DEF IdOK
      <3>4. Edits(t, c)' = {}
        <4>1. ~Names(r, t, c)'
          BY <1>7, <2>2 DEF Does
        <4>2. \A q \in Edits(t, c) : q \in Request /\ q # r /\ Editing(q) /\ Target(q) = t
          BY <2>2 DEF Edits, Names, Succeeded, Editing, Does
        <4> QED
          BY <1>7, <3>3, <4>1, <4>2
      <3>5. Last(NoRequest, t, c)'
        BY <2>1, <3>1, <3>4 DEF Last
      <3>6. ASSUME NEW s \in Request, Does(s, {"update"}), Target(s) = t
            PROVE  Follows(NoRequest, s, t, c)'
        <4>1. s # r
          BY <2>2, <3>6 DEF Does
        <4>2. phase'[s] = phase[s] /\ ~Editing(s)
          BY <1>1, <3>3, <3>6, <4>1 DEF OthersStay
        <4> QED
          BY <3>6, <4>2 DEF Follows, Editing, Does
      <3> QED
        BY <1>5, <1>6, <3>5, <3>6
    <2>3. CASE Does(r, {"update"})
      <3>1. /\ rows[t] # NoRow
            /\ c \notin DOMAIN job[r].patch => draft[t].cols[c] = rows[t].cols[c]
        BY <2>1, <2>3 DEF Held, Does
      <3>2. PICK w \in Request \cup {NoRequest} :
              /\ Last(w, t, c)
              /\ \A s \in Request : Does(s, {"update"}) /\ Target(s) = t => Follows(w, s, t, c)
        BY <1>0, <3>1 DEF LastOK
      <3>3. Follows(w, r, t, c)
        BY <1>11, <2>3, <3>2
      <3>4. Visible(r) = draft[t]
        BY <1>3, <1>11
      <3>5. CASE c \in DOMAIN job[r].patch /\ draft[t].cols[c] = job[r].patch[c]
        <4>1. Last(r, t, c)' /\ \A s \in Request : Beats(r, s)'
          BY <1>0, <1>1, <1>7, <1>11, <2>1, <2>3, <3>5, TakeLast
        <4>2. ASSUME NEW s \in Request, Does(s, {"update"}), Target(s) = t
              PROVE  Follows(r, s, t, c)'
          <5>1. CASE s = r
            BY <1>10, <5>1
          <5>2. CASE s # r
            <6>1. Visible(s)' = rows'[t]
              BY <1>8, <2>1, <4>2, <5>2
            <6> QED
              BY <4>1, <6>1 DEF Follows
          <5> QED
            BY <5>1, <5>2
        <4> QED
          BY <1>5, <1>6, <4>1, <4>2
      <3>6. CASE ~(c \in DOMAIN job[r].patch /\ draft[t].cols[c] = job[r].patch[c])
        <4>1. /\ draft[t].cols[c] = rows[t].cols[c]
              /\ c \in DOMAIN job[r].patch => Beats(w, r)
          BY <1>1, <3>1, <3>3, <3>4, <3>6 DEF Follows
        <4>2. Last(w, t, c)'
          BY <1>1, <1>7, <2>1, <3>2, <4>1, KeepLast
        <4>3. ASSUME NEW s \in Request, Does(s, {"update"}), Target(s) = t
              PROVE  Follows(w, s, t, c)'
          BY <1>9, <1>10, <2>1, <3>2, <4>1, <4>3
        <4> QED
          BY <1>5, <1>6, <4>2, <4>3
      <3> QED
        BY <3>5, <3>6
    <2> QED
      BY <2>1, <2>2, <2>3 DEF Held
  <1>12. CASE ~(Holds(r) /\ Target(r) = t)
    <2>1. rows'[t] = rows[t] /\ rows[t] # NoRow /\ lock[t] # r
      BY <1>0, <1>1, <1>2, <1>3, <1>12 DEF TypeOK
    <2>2. PICK w \in Request \cup {NoRequest} :
            /\ Last(w, t, c)
            /\ \A s \in Request : Does(s, {"update"}) /\ Target(s) = t => Follows(w, s, t, c)
      BY <1>0, <2>1 DEF LastOK
    <2>3. ASSUME NEW s \in Request \ {r}, Does(s, {"update"}), Target(s) = t
          PROVE  Visible(s)' = Visible(s) /\ phase'[s] = phase[s] /\ loaded'[s] = loaded[s]
      BY <1>1, <1>8, <2>1, <2>3 DEF OthersStay
    <2>4. CASE Names(r, t, c)' /\ rows[t].cols[c] = job[r].patch[c]
      <3>1. Last(r, t, c)' /\ \A s \in Request : Beats(r, s)'
        BY <1>0, <1>1, <1>7, <2>1, <2>4, TakeLast
      <3>2. ASSUME NEW s \in Request, Does(s, {"update"}), Target(s) = t
            PROVE  Follows(r, s, t, c)'
        <4>1. CASE s = r
          BY <1>10, <4>1
        <4>2. CASE s # r
          BY <1>1, <2>1, <2>2, <2>3, <3>1, <3>2, <4>2 DEF Follows
        <4> QED
          BY <4>1, <4>2
      <3> QED
        BY <1>5, <1>6, <3>1, <3>2
    <2>5. CASE ~(Names(r, t, c)' /\ rows[t].cols[c] = job[r].patch[c])
      <3>1. Names(r, t, c)' => Beats(w, r)
        <4> SUFFICES ASSUME Names(r, t, c)' PROVE Beats(w, r)
          OBVIOUS
        <4>1. Does(r, {"update"}) /\ Target(r) = t /\ c \in DOMAIN job[r].patch
          BY <1>7
        <4>2. Visible(r) = rows[t]
          BY <1>12, <4>1 DEF Visible
        <4> QED
          BY <1>1, <2>2, <2>5, <4>1, <4>2 DEF Follows
      <3>2. Last(w, t, c)'
        BY <1>1, <1>7, <2>1, <2>2, <3>1, KeepLast
      <3>3. ASSUME NEW s \in Request, Does(s, {"update"}), Target(s) = t
            PROVE  Follows(w, s, t, c)'
        <4>1. CASE s = r
          BY <1>10, <4>1
        <4>2. CASE s # r
          BY <1>1, <2>1, <2>2, <2>3, <3>3, <4>2 DEF Follows, Beats
        <4> QED
          BY <4>1, <4>2
      <3> QED
        BY <1>5, <1>6, <3>2, <3>3
    <2> QED
      BY <2>4, <2>5
  <1> QED
    BY <1>11, <1>12

LEMMA CommitMenus ==
  ASSUME IInv, NEW r \in Request, Commit(r)
  PROVE  MenuOK'
  <1>0. TypeOK /\ OverOK /\ MenuOK
    BY DEF IInv
  <1>1. /\ phase[r] = "commit" /\ phase'[r] = "done" /\ menu'[r] = NoMenu
        /\ OthersStay(r)
        /\ UNCHANGED <<job, before>>
        /\ menus' = IF menu[r] = r THEN menus \cup {r} ELSE menus
    BY <1>0 DEF TypeOK, Commit, Goto, OthersStay
  <1>2. menu'[r] # r
    BY <1>1, NoMenuAssumption DEF Menu
  <1>3. \A m \in menus : m \in Request => Succeeded(m, "add") /\ Succeeded(m, "add")' /\ m # r
    BY <1>0, <1>1 DEF MenuOK, Succeeded, Does, OthersStay
  <1>4. \A q \in Request : r \notin before[q]
    BY <1>0, <1>1 DEF OverOK, Over
  <1>5. menu[r] = r => /\ Succeeded(r, "add")'
                       /\ \A m \in menus : m \in Request /\ m \notin before[r]
    BY <1>0, <1>1 DEF MenuOK, Succeeded, Does
  <1>6. \A m \in menus' : m \in Request => Succeeded(m, "add")'
    BY <1>1, <1>3, <1>5
  <1>7. ASSUME NEW q \in Request, phase'[q] = "insert_menu" \/ menu'[q] = q
        PROVE  /\ Does(q, {"add"})' /\ phase'[q] \in {"insert_menu", "flush", "refresh", "commit"}
               /\ \A m \in menus' : m \in Request /\ m \notin before'[q]
    <2>1. q # r
      BY <1>1, <1>2, <1>7
    <2>2. phase'[q] = phase[q] /\ menu'[q] = menu[q] /\ job'[q] = job[q]
      BY <1>1, <2>1 DEF OthersStay
    <2>3. /\ Does(q, {"add"}) /\ phase[q] \in {"insert_menu", "flush", "refresh", "commit"}
          /\ \A m \in menus : m \in Request /\ m \notin before[q]
      BY <1>0, <1>7, <2>2 DEF MenuOK
    <2> QED
      BY <1>1, <1>4, <2>2, <2>3 DEF Does
  <1>8. ASSUME NEW m \in menus', NEW n \in menus', m # n
        PROVE  /\ m \in Request /\ Succeeded(m, "add")'
               /\ n \in Request /\ Succeeded(n, "add")'
               /\ Overlap(m, n)'
    <2>1. CASE m \in menus /\ n \in menus
      BY <1>0, <1>1, <1>3, <1>8, <2>1 DEF MenuOK, MenusOnlyRaced, Overlap
    <2>2. CASE m \notin menus \/ n \notin menus
      BY <1>1, <1>3, <1>4, <1>5, <1>8, <2>2 DEF Overlap
    <2> QED
      BY <2>1, <2>2
  <1> QED
    BY <1>6, <1>7, <1>8 DEF MenuOK, MenusOnlyRaced

LEMMA CommitKeeps ==
  ASSUME IInv, TypeOK', NEW r \in Request, Commit(r)
  PROVE  IInv'
  <1>0. TypeOK /\ OverOK /\ StartOK /\ TargetOK /\ LockOK /\ IdOK
    BY DEF IInv
  <1>1. /\ phase[r] = "commit" /\ phase'[r] = "done" /\ phase[r] \notin Over
        /\ OthersStay(r)
        /\ UNCHANGED <<job, before, unused>>
        /\ rows' = IF Holds(r) THEN [rows EXCEPT ![Target(r)] = Visible(r)] ELSE rows
    BY <1>0 DEF TypeOK, Commit, Goto, OthersStay, Over
  <1>2. \A t \in Thing : lock[t] = r => t = Target(r) /\ Holds(r) /\ Held(r, t)
    BY <1>0, NoRequestAssumption DEF LockOK, Held, Holds, Writes, Does
  <1>3. Holds(r) => Target(r) \in Thing /\ lock[Target(r)] = r /\ Visible(r) = draft[Target(r)]
    BY <1>0 DEF Holds, TargetOK, Busy, Visible
  <1>4. LocksStay(r) /\ \A t \in Thing : lock'[t] # r
    <2>1. CASE Holds(r)
      BY <1>0, <1>2, <1>3, <2>1, NoRequestAssumption
      DEF LocksStay, Commit, Release, TypeOK
    <2>2. CASE ~Holds(r)
      BY <1>2, <2>2 DEF LocksStay, Commit, Release, locks
    <2> QED
      BY <2>1, <2>2
  <1>5. OverOK'
    BY <1>0, <1>1, OverFrame DEF OverOK, TypeOK
  <1>6. StartOK' /\ TargetOK'
    <2>1. Busy(r)'
      BY <1>0, <1>1 DEF TargetOK, Busy, Writes, Does, Target
    <2> QED
      BY <1>0, <1>1, <2>1, TargetFrame DEF StartOK, OthersStay
  <1>7. MenuOK'
    BY CommitMenus
  <1>8. LockOK'
    <2> SUFFICES ASSUME NEW t \in Thing, lock'[t] # NoRequest
                 PROVE  Held(lock[t], t)'
      BY DEF LockOK
    <2>1. lock'[t] = lock[t] /\ draft'[t] = draft[t] /\ lock[t] \in Request \ {r}
      BY <1>0, <1>4 DEF LocksStay, TypeOK
    <2>2. Held(lock[t], t)
      BY <1>0, <2>1, NoRequestAssumption DEF LockOK
    <2>3. rows'[t] = rows[t]
      BY <1>0, <1>1, <1>3, <2>1 DEF TypeOK
    <2>4. job'[lock[t]] = job[lock[t]] /\ phase'[lock[t]] = phase[lock[t]]
      BY <1>1, <2>1 DEF OthersStay
    <2> QED
      BY <2>1, <2>2, <2>3, <2>4 DEF Held, Does, Target
  <1>9. IdOK'
    <2>1. \A q \in Request :
            /\ Does(q, {"add"})' <=> Does(q, {"add"})
            /\ Editing(q)' <=> Editing(q)
            /\ Adding(q)' => Adding(q) /\ q # r
            /\ Target(q)' = Target(q)
      BY <1>1 DEF OthersStay, Does, Editing, Adding, Target, Over
    <2>2. Holds(r) => Does(r, {"add"}) \/ Editing(r)
      BY <1>2, <1>3 DEF Held, Editing, Does
    <2>3. ASSUME NEW t \in Thing, rows'[t] # NoRow PROVE t \notin unused
      BY <1>0, <1>1, <2>2, <2>3 DEF IdOK
    <2>4. \A q \in Request : Does(q, {"add"})' \/ Editing(q)' => Target(q)' \notin unused'
      BY <1>0, <1>1, <2>1 DEF IdOK
    <2>5. ASSUME NEW q \in Request, Adding(q)'
          PROVE  /\ rows'[Target(q)'] = NoRow
                 /\ \A p \in Request \ {q} :
                       Does(p, {"add"})' \/ Editing(p)' => Target(p)' # Target(q)'
      <3>1. Adding(q) /\ q # r /\ Target(q)' = Target(q) /\ Target(q) \in Thing
        BY <1>0, <2>1, <2>5 DEF TargetOK, Busy, Adding, Writes, Does
      <3>2. Holds(r) => Target(r) # Target(q)
        BY <1>0, <2>2, <3>1 DEF IdOK
      <3>3. rows'[Target(q)] = NoRow
        BY <1>0, <1>1, <1>3, <3>1, <3>2 DEF IdOK, TypeOK
      <3> QED
        BY <1>0, <2>1, <3>1, <3>3 DEF IdOK
    <2> QED
      BY <1>1, <2>3, <2>4, <2>5 DEF IdOK
  <1>10. LastOK'
    BY CommitLast
  <1> QED
    BY <1>5, <1>6, <1>7, <1>8, <1>9, <1>10 DEF IInv

(* Nothing is left of the list, and nobody has written anything.           *)
LEMMA DeleteGatheringKeeps ==
  ASSUME IInv, TypeOK', DeleteGathering
  PROVE  IInv'
  <1>0. TypeOK /\ OverOK /\ StartOK /\ TargetOK /\ MenuOK /\ LockOK /\ IdOK
    BY DEF IInv
  <1>1. /\ menus' = {} /\ rows' = [t \in Thing |-> NoRow]
        /\ \A t \in Thing : lock[t] = NoRequest
        /\ UNCHANGED <<unused, lock, draft, job, phase, menu, loaded, before>>
    BY DEF DeleteGathering, locks, session
  <1>2. OverOK' /\ StartOK' /\ TargetOK'
    BY <1>0, <1>1 DEF OverOK, StartOK, TargetOK, Busy, Writes, Does, Target
  <1>3. MenuOK'
    BY <1>0, <1>1 DEF MenuOK, MenusOnlyRaced, Does
  <1>4. LockOK'
    BY <1>1 DEF LockOK
  <1>5. IdOK'
    <2>1. \A q \in Request :
            /\ Does(q, {"add"})' <=> Does(q, {"add"})
            /\ Editing(q)' <=> Editing(q)
            /\ Adding(q)' <=> Adding(q)
            /\ Target(q)' = Target(q)
      BY <1>1 DEF Does, Editing, Adding, Target
    <2>2. \A q \in Request : Adding(q) => Target(q) \in Thing
      BY <1>0 DEF TargetOK, Busy, Adding, Writes, Does
    <2>3. \A q \in Request : Adding(q)' => rows'[Target(q)'] = NoRow
      BY <1>1, <2>1, <2>2
    <2>4. \A q \in Request : Does(q, {"add"})' \/ Editing(q)' => Target(q)' \notin unused'
      BY <1>0, <1>1, <2>1 DEF IdOK
    <2>5. \A q \in Request : Adding(q)' =>
            \A p \in Request \ {q} :
              Does(p, {"add"})' \/ Editing(p)' => Target(p)' # Target(q)'
      BY <1>0, <2>1 DEF IdOK
    <2>6. \A t \in Thing : rows'[t] # NoRow => t \notin unused'
      BY <1>1
    <2> QED
      BY <2>3, <2>4, <2>5, <2>6 DEF IdOK
  <1>6. LastOK'
    BY <1>1 DEF LastOK
  <1> QED
    BY <1>2, <1>3, <1>4, <1>5, <1>6 DEF IInv

LEMMA InvStep == IInv /\ [Next]_vars => IInv'
  <1> SUFFICES ASSUME IInv, [Next]_vars PROVE IInv'
    OBVIOUS
  <1>0. TypeOK'
    BY TypedStep DEF IInv
  <1>1. ASSUME NEW r \in Request, Begin(r) PROVE IInv'
    BY <1>0, <1>1, BeginKeeps
  <1>2. ASSUME NEW r \in Request, Proceed(r) PROVE IInv'
    <2>1. CASE \/ SeveralMenus(r)
               \/ NotFound(r)
               \/ InsertOrphan(r)
               \/ UpdateStale(r)
               \/ RefreshGone(r)
      <3>1. Fail(r) /\ phase[r] \notin Over
        BY <2>1 DEF SeveralMenus, NotFound, InsertOrphan, UpdateStale, RefreshGone, Over
      <3> QED
        BY <1>0, <3>1, FailKeeps
    <2>2. CASE LoadDish(r) \/ LoadItem(r) \/ LoadTask(r)
      BY <1>0, <2>2, LoadsKeeps DEF LoadDish, LoadItem, LoadTask
    <2>3. CASE SelectMenu(r)
      BY <1>0, <2>3, SelectMenuKeeps
    <2>4. CASE NoMenuYet(r)
      BY <1>0, <2>4, NoMenuYetKeeps
    <2>5. CASE InsertMenu(r)
      BY <1>0, <2>5, InsertMenuKeeps
    <2>6. CASE Read(r)
      BY <1>0, <2>6, ReadKeeps
    <2>7. CASE Insert(r)
      BY <1>0, <2>7, InsertKeeps
    <2>8. CASE SkipUpdate(r)
      BY <1>0, <2>8, SkipUpdateKeeps
    <2>9. CASE Update(r)
      BY <1>0, <2>9, UpdateKeeps
    <2>10. CASE Delete(r)
      BY <1>0, <2>10, DeleteKeeps
    <2>11. CASE Refresh(r)
      BY <1>0, <2>11, RefreshKeeps
    <2>12. CASE Commit(r)
      BY <1>0, <2>12, CommitKeeps
    <2> QED
      BY <1>2, <2>1, <2>2, <2>3, <2>4, <2>5, <2>6, <2>7, <2>8, <2>9, <2>10, <2>11, <2>12
      DEF Proceed
  <1>3. ASSUME NEW r \in Request, Abort(r) PROVE IInv'
    BY <1>0, <1>3, FailKeeps DEF Abort, Running
  <1>4. CASE DeleteGathering
    BY <1>0, <1>4, DeleteGatheringKeeps
  <1>5. CASE UNCHANGED vars
    <2>1. UNCHANGED <<menus, rows, unused, lock, draft, job, phase, menu, loaded, before>>
      BY <1>5 DEF vars, data, locks, session
    <2>2. OverOK' /\ StartOK' /\ TargetOK' /\ LockOK' /\ IdOK'
      BY <2>1 DEF IInv, OverOK, StartOK, TargetOK, LockOK, Held, IdOK, Editing, Adding, Busy,
                  Writes, Does, Target
    <2>3. MenuOK'
      BY <2>1 DEF IInv, MenuOK, MenusOnlyRaced, Overlap, Succeeded, Does
    <2>4. LastOK'
      BY <2>1 DEF IInv, LastOK, Last, Edits, Names, Succeeded, Follows, Beats, Visible, Holds,
                  Writes, Does, Target
    <2> QED
      BY <1>0, <2>2, <2>3, <2>4 DEF IInv
  <1> QED
    BY <1>1, <1>2, <1>3, <1>4, <1>5 DEF Next

(* The lists, their locks and their sessions agree in every reachable      *)
(* state.                                                                  *)
THEOREM ListsInvariant == Spec => []IInv
  <1> QED
    BY InvInit, InvStep, PTL DEF Spec

-----------------------------------------------------------------------------

(* Rows, drafts and sessions keep their types: no PATCH leaves a column    *)
(* without a value.                                                        *)
THEOREM ListsTyped == Spec => []TypeOK
  <1>1. IInv => TypeOK
    BY DEF IInv
  <1> QED
    BY <1>1, ListsInvariant, PTL

(* Requests for a first dish that do not overlap create one menu.          *)
THEOREM OneMenuUnlessRaced == Spec => []MenusOnlyRaced
  <1>1. IInv => MenusOnlyRaced
    BY DEF IInv, MenuOK
  <1> QED
    BY <1>1, ListsInvariant, PTL

(* No edit of a column is lost to one of another column, or to an older    *)
(* one, however many race.                                                 *)
THEOREM EditsStand == Spec => []LastEditStands
  <1>1. IInv => LastEditStands
    <2> SUFFICES ASSUME IInv, NEW t \in Thing, rows[t] # NoRow, NEW c \in Column
                 PROVE  IF Edits(t, c) = {}
                          THEN ~rows[t].cols[c]
                          ELSE \E r \in Edits(t, c) :
                                 /\ rows[t].cols[c] = job[r].patch[c]
                                 /\ \A q \in Edits(t, c) : r \notin before[q]
      BY DEF LastEditStands, Edits
    <2>1. PICK w \in Request \cup {NoRequest} : Last(w, t, c)
      BY DEF IInv, LastOK
    <2> QED
      BY <2>1 DEF Last
  <1> QED
    BY <1>1, ListsInvariant, PTL

-----------------------------------------------------------------------------
(* What a list shows *)

(* Where each kind of request passes.                                      *)
PathOK ==
  \A r \in Request :
    /\ phase[r] \in {"menu", "insert_menu"} => list = "dishes"
    /\ phase[r] = "read" => Does(r, {"list"})
    /\ phase[r] = "load" => Does(r, {"update", "delete"})
    /\ phase[r] = "refresh" => Does(r, {"add", "update"})

Gone(t) == \E d \in Request : Succeeded(d, "delete") /\ Target(d) = t

(* A row, and a draft, is of a menu there is, if only in its own session.  *)
DishOK ==
  list = "dishes" =>
    /\ \A t \in Thing : rows[t] # NoRow => rows[t].menu \in menus
    /\ \A t \in Thing : lock[t] # NoRequest /\ draft[t] # NoRow =>
         /\ draft[t].menu \in menus \/ (draft[t].menu = lock[t] /\ menu[lock[t]] = lock[t])
         /\ rows[t] # NoRow => draft[t].menu = rows[t].menu
    /\ \A r \in Request : Does(r, {"add"}) /\ phase[r] = "flush" /\ gathering =>
         menu[r] \in menus \/ menu[r] = r

(* What was added is there until it is deleted, and then no more.          *)
EffectOK ==
  /\ \A r \in Request : Does(r, {"add"}) /\ phase[r] \in {"refresh", "commit"} =>
       lock[Target(r)] = r
  /\ \A r \in Request : Does(r, {"delete"}) /\ phase[r] = "commit" /\ ~Holds(r) =>
       rows[Target(r)] = NoRow
  /\ \A r \in Request : Succeeded(r, "add") =>
       rows[Target(r)] # NoRow \/ ~gathering \/ Gone(Target(r))
  /\ \A r \in Request : Succeeded(r, "delete") => rows[Target(r)] = NoRow

(* What r shows is complete.                                               *)
Complete(r) ==
  /\ \A q \in before[r] : Succeeded(q, "add") =>
       Target(q) \in shown[r] \/ ~gathering \/ Gone(Target(q))
  /\ \A d \in before[r] : Succeeded(d, "delete") => Target(d) \notin shown[r]

(* Whoever is about to read the dishes has found the menu of all those     *)
(* added before.                                                           *)
ShownOK ==
  \A r \in Request :
    /\ phase[r] \notin {"commit", "done"} => shown[r] = {}
    /\ list = "dishes" /\ Does(r, {"list"}) /\ phase[r] = "read" =>
         \A q \in before[r] : Succeeded(q, "add") /\ rows[Target(q)] # NoRow =>
           rows[Target(q)].menu = menu[r]
    /\ Does(r, {"list"}) /\ phase[r] \in {"commit", "done"} => Complete(r)

Current ==
  /\ PathOK
  /\ DishOK
  /\ EffectOK
  /\ ShownOK

(* The requests that have succeeded, and what is deleted, while r is not   *)
(* done and only r moves.                                                  *)
LEMMA SameSuccess ==
  ASSUME NEW r \in Request, OthersStay(r), Undone(r)
  PROVE  /\ \A q \in Request, op \in Op : Succeeded(q, op)' <=> Succeeded(q, op)
         /\ \A q \in Request, op \in Op : Succeeded(q, op) => Target(q)' = Target(q)
         /\ \A t : Gone(t)' <=> Gone(t)
  <1>1. \A q \in Request : \A op : Succeeded(q, op)' <=> Succeeded(q, op)
    BY DEF OthersStay, Undone, Succeeded, Does
  <1>2. \A q \in Request : \A op : Succeeded(q, op) => Target(q)' = Target(q)
    BY DEF OthersStay, Undone, Succeeded, Target
  <1>3. \A t : Gone(t)' <=> Gone(t)
    BY <1>1, <1>2 DEF Gone
  <1> QED
    BY <1>1, <1>2, <1>3

LEMMA PathFrame ==
  ASSUME PathOK, UNCHANGED list, NEW r \in Request, OthersStay(r),
         /\ phase'[r] \in {"menu", "insert_menu"} => list = "dishes"
         /\ phase'[r] = "read" => Does(r, {"list"})'
         /\ phase'[r] = "load" => Does(r, {"update", "delete"})'
         /\ phase'[r] = "refresh" => Does(r, {"add", "update"})'
  PROVE  PathOK'
  <1>1. ASSUME NEW q \in Request \ {r}
        PROVE  /\ phase'[q] \in {"menu", "insert_menu"} => list = "dishes"
               /\ phase'[q] = "read" => Does(q, {"list"})'
               /\ phase'[q] = "load" => Does(q, {"update", "delete"})'
               /\ phase'[q] = "refresh" => Does(q, {"add", "update"})'
    BY DEF PathOK, OthersStay, Does
  <1> QED
    BY <1>1 DEF PathOK

LEMMA DishFrame ==
  ASSUME DishOK, TypeOK, UNCHANGED <<list, gathering, menus, rows>>,
         NEW r \in Request, OthersStay(r), LocksStay(r),
         list = "dishes" =>
           /\ \A t \in Thing : lock'[t] = r /\ draft'[t] # NoRow =>
                /\ draft'[t].menu \in menus \/ (draft'[t].menu = r /\ menu'[r] = r)
                /\ rows[t] # NoRow => draft'[t].menu = rows[t].menu
           /\ Does(r, {"add"})' /\ phase'[r] = "flush" /\ gathering =>
                menu'[r] \in menus \/ menu'[r] = r
  PROVE  DishOK'
  <1> SUFFICES ASSUME list = "dishes" PROVE DishOK'
    BY DEF DishOK
  <1>1. ASSUME NEW t \in Thing, lock'[t] # NoRequest, draft'[t] # NoRow
        PROVE  /\ draft'[t].menu \in menus \/ (draft'[t].menu = lock'[t] /\ menu'[lock'[t]] = lock'[t])
               /\ rows[t] # NoRow => draft'[t].menu = rows[t].menu
    <2>1. CASE lock'[t] = r
      BY <1>1, <2>1
    <2>2. CASE lock'[t] # r
      <3>1. lock'[t] = lock[t] /\ draft'[t] = draft[t] /\ lock[t] \in Request \ {r}
        BY <1>1, <2>2 DEF LocksStay, TypeOK
      <3>2. menu'[lock[t]] = menu[lock[t]]
        BY <3>1 DEF OthersStay
      <3> QED
        BY <1>1, <3>1, <3>2 DEF DishOK
    <2> QED
      BY <2>1, <2>2
  <1>2. ASSUME NEW q \in Request, Does(q, {"add"})', phase'[q] = "flush", gathering
        PROVE  menu'[q] \in menus \/ menu'[q] = q
    BY <1>2 DEF DishOK, OthersStay, Does
  <1>3. \A t \in Thing : rows[t] # NoRow => rows[t].menu \in menus
    BY DEF DishOK
  <1> QED
    BY <1>1, <1>2, <1>3 DEF DishOK

(* The first two parts of EffectOK, of the others.                         *)
LEMMA EffectOfOthers ==
  ASSUME EffectOK, TargetOK, NEW r \in Request, OthersStay(r), LocksStay(r),
         NEW q \in Request \ {r}
  PROVE  /\ Does(q, {"add"})' /\ phase'[q] \in {"refresh", "commit"} =>
              lock'[Target(q)'] = q
         /\ Does(q, {"delete"})' /\ phase'[q] = "commit" /\ ~Holds(q)' =>
              rows[Target(q)] = NoRow
  <1>1. /\ job'[q] = job[q] /\ phase'[q] = phase[q] /\ Target(q)' = Target(q)
        /\ \A ops : Does(q, ops)' <=> Does(q, ops)
        /\ Writes(q)' <=> Writes(q)
    BY DEF OthersStay, Does, Target, Writes
  <1>2. Writes(q) => Target(q) \in Thing
    BY DEF TargetOK, Busy
  <1>3. Writes(q) /\ lock[Target(q)] = q => lock'[Target(q)] = q
    BY <1>2, NoRequestAssumption DEF LocksStay
  <1>4. Does(q, {"add"}) => Writes(q)
    BY DEF Does, Writes
  <1>5. Holds(q) => Holds(q)'
    BY <1>1, <1>3 DEF Holds
  <1> QED
    BY <1>1, <1>3, <1>4, <1>5 DEF EffectOK

LEMMA EffectFrame ==
  ASSUME EffectOK, TargetOK, UNCHANGED <<gathering, rows>>,
         NEW r \in Request, OthersStay(r), LocksStay(r), Undone(r),
         Does(r, {"add"})' /\ phase'[r] \in {"refresh", "commit"} =>
           lock'[Target(r)'] = r,
         Does(r, {"delete"})' /\ phase'[r] = "commit" /\ ~Holds(r)' =>
           rows[Target(r)'] = NoRow
  PROVE  EffectOK'
  <1>1. /\ \A q \in Request : Succeeded(q, "add")' => Succeeded(q, "add") /\ Target(q)' = Target(q)
        /\ \A q \in Request : Succeeded(q, "delete")' =>
             Succeeded(q, "delete") /\ Target(q)' = Target(q)
        /\ \A t : Gone(t) => Gone(t)'
    BY SameSuccess DEF Op
  <1>2. \A q \in Request : Does(q, {"add"})' /\ phase'[q] \in {"refresh", "commit"} =>
          lock'[Target(q)'] = q
    BY EffectOfOthers
  <1>3. ASSUME NEW q \in Request, Does(q, {"delete"})', phase'[q] = "commit", ~Holds(q)'
        PROVE  rows[Target(q)'] = NoRow
    <2>1. CASE q = r
      BY <1>3, <2>1
    <2>2. CASE q # r
      <3>1. rows[Target(q)] = NoRow /\ Target(q)' = Target(q)
        BY <1>3, <2>2, EffectOfOthers DEF OthersStay, Target
      <3> QED
        BY <3>1
    <2> QED
      BY <2>1, <2>2
  <1> QED
    BY <1>1, <1>2, <1>3 DEF EffectOK

LEMMA ShownFrame ==
  ASSUME ShownOK, TypeOK, UNCHANGED <<list, gathering, rows>>,
         NEW r \in Request, OthersStay(r), Undone(r),
         \A q \in Request \ {r} : shown'[q] = shown[q],
         phase'[r] # "commit" => shown'[r] = {},
         list = "dishes" /\ Does(r, {"list"})' /\ phase'[r] = "read" =>
           \A q \in before'[r] \cap Request : Succeeded(q, "add") /\ rows[Target(q)] # NoRow =>
             rows[Target(q)].menu = menu'[r],
         Does(r, {"list"})' /\ phase'[r] = "commit" => Complete(r)',
         TypeOK'
  PROVE  ShownOK'
  <1>1. /\ \A q \in Request : Succeeded(q, "add")' => Succeeded(q, "add") /\ Target(q)' = Target(q)
        /\ \A q \in Request : Succeeded(q, "delete")' =>
             Succeeded(q, "delete") /\ Target(q)' = Target(q)
        /\ \A t : Gone(t) => Gone(t)'
    BY SameSuccess DEF Op
  <1>2. before'[r] \subseteq Request /\ \A q \in Request : before[q] \subseteq Request
    BY DEF TypeOK
  <1>3. ASSUME NEW q \in Request \ {r}
        PROVE  /\ phase'[q] \notin {"commit", "done"} => shown'[q] = {}
               /\ list = "dishes" /\ Does(q, {"list"})' /\ phase'[q] = "read" =>
                    \A p \in before'[q] : Succeeded(p, "add")' /\ rows[Target(p)'] # NoRow =>
                      rows[Target(p)'].menu = menu'[q]
               /\ Does(q, {"list"})' /\ phase'[q] \in {"commit", "done"} => Complete(q)'
    <2>1. /\ phase'[q] = phase[q] /\ before'[q] = before[q] /\ menu'[q] = menu[q]
          /\ shown'[q] = shown[q] /\ \A ops : Does(q, ops)' <=> Does(q, ops)
      BY DEF OthersStay, Does
    <2>2. /\ phase[q] \notin {"commit", "done"} => shown[q] = {}
          /\ list = "dishes" /\ Does(q, {"list"}) /\ phase[q] = "read" =>
               \A p \in before[q] : Succeeded(p, "add") /\ rows[Target(p)] # NoRow =>
                 rows[Target(p)].menu = menu[q]
          /\ Does(q, {"list"}) /\ phase[q] \in {"commit", "done"} => Complete(q)
      BY DEF ShownOK
    <2>3. Complete(q) => Complete(q)'
      BY <1>1, <1>2, <2>1 DEF Complete
    <2>4. list = "dishes" /\ Does(q, {"list"})' /\ phase'[q] = "read" =>
            \A p \in before'[q] : Succeeded(p, "add")' /\ rows[Target(p)'] # NoRow =>
              rows[Target(p)'].menu = menu'[q]
      BY <1>1, <1>2, <2>1, <2>2
    <2> QED
      BY <2>1, <2>2, <2>3, <2>4
  <1>4. /\ phase'[r] \notin {"commit", "done"} => shown'[r] = {}
        /\ list = "dishes" /\ Does(r, {"list"})' /\ phase'[r] = "read" =>
             \A p \in before'[r] : Succeeded(p, "add")' /\ rows[Target(p)'] # NoRow =>
               rows[Target(p)'].menu = menu'[r]
        /\ Does(r, {"list"})' /\ phase'[r] \in {"commit", "done"} => Complete(r)'
    BY <1>1, <1>2 DEF Undone
  <1> QED
    BY <1>3, <1>4 DEF ShownOK

LEMMA FailCurrent ==
  ASSUME IInv, Current, TypeOK', NEW r \in Request, phase[r] \notin Over, Fail(r)
  PROVE  Current'
  <1>0. TypeOK /\ TargetOK /\ LockOK /\ PathOK /\ DishOK /\ EffectOK /\ ShownOK
    BY DEF IInv, Current
  <1>1. /\ phase'[r] = "failed" /\ job'[r] = NoJob /\ shown'[r] = {}
        /\ OthersStay(r) /\ \A q \in Request \ {r} : shown'[q] = shown[q]
        /\ UNCHANGED <<list, gathering, menus, rows>>
        /\ \A ops : ~Does(r, ops)'
    BY <1>0 DEF TypeOK, Fail, Goto, OthersStay, data, Does
  <1>2. Undone(r)
    BY <1>1 DEF Undone, Over
  <1>3. \A t \in Thing : lock[t] = r => t = Target(r) /\ Holds(r)
    BY <1>0, NoRequestAssumption DEF LockOK, Held, Holds, Writes, Does
  <1>4. LocksStay(r) /\ \A t \in Thing : lock'[t] # r
    <2>1. CASE Holds(r)
      BY <1>0, <1>3, <2>1, NoRequestAssumption
      DEF LocksStay, Fail, Release, Holds, TargetOK, Busy, TypeOK
    <2>2. CASE ~Holds(r)
      BY <1>3, <2>2 DEF LocksStay, Fail, Release, locks
    <2> QED
      BY <2>1, <2>2
  <1>5. PathOK'
    BY <1>0, <1>1, PathFrame
  <1>6. DishOK'
    BY <1>0, <1>1, <1>4, DishFrame
  <1>7. EffectOK'
    BY <1>0, <1>1, <1>2, <1>4, EffectFrame
  <1>8. ShownOK'
    BY <1>0, <1>1, <1>2, ShownFrame
  <1> QED
    BY <1>5, <1>6, <1>7, <1>8 DEF Current

LEMMA BeginCurrent ==
  ASSUME IInv, Current, TypeOK', NEW r \in Request, Begin(r)
  PROVE  Current'
  <1>0. TypeOK /\ TargetOK /\ LockOK /\ StartOK /\ PathOK /\ DishOK /\ EffectOK /\ ShownOK
    BY DEF IInv, Current
  <1>1. CASE Refuse(r)
    BY <1>1, FailCurrent DEF Refuse, Over
  <1>2. CASE ~Refuse(r)
    <2>1. PICK op \in Op, t \in Thing \cup {NoThing}, patch \in Patch,
               p \in {"menu", "flush", "read", "load"} :
             /\ Asks(r, op, t, patch)
             /\ Goto(r, p)
             /\ \/ op = "add" /\ t \in unused /\ unused' = unused \ {t} /\ p \in {"menu", "flush"}
                \/ op = "list" /\ UNCHANGED unused /\ p \in {"menu", "read"}
                \/ op \in {"update", "delete"} /\ t \in Thing /\ UNCHANGED unused /\ p = "load"
      BY <1>0, <1>2, BeginShape
    <2>2. /\ phase[r] = "new" /\ phase'[r] = p
          /\ job'[r] = [op |-> op, target |-> t, patch |-> patch]
          /\ OthersStay(r)
          /\ UNCHANGED <<list, gathering, menus, rows, lock, draft, shown>>
      BY <1>0, <2>1 DEF TypeOK, Asks, Goto, OthersStay, locks, session
    <2>3. \A ops : Does(r, ops)' <=> op \in ops
      <3>1. job'[r] \in Job
        BY <2>2 DEF Job
      <3> QED
        BY <2>2, <3>1, NoJobAssumption DEF Does
    <2>4. (list = "dishes" => p \in {"menu", "load"}) /\ (p = "menu" => list = "dishes")
      <3>1. \A a, b \in {"menu", "flush", "read", "load"} : Goto(r, a) /\ Goto(r, b) => a = b
        BY <1>0 DEF TypeOK, Goto
      <3>2. BeginDishes(r) => list = "dishes" /\ (Goto(r, "menu") \/ Goto(r, "load"))
        BY DEF BeginDishes, Changes
      <3>3. BeginItems(r) =>
              list = "shopping_items" /\ (Goto(r, "flush") \/ Goto(r, "read") \/ Goto(r, "load"))
        BY DEF BeginItems, Changes
      <3>4. BeginTasks(r) =>
              list = "prep_tasks" /\ (Goto(r, "flush") \/ Goto(r, "read") \/ Goto(r, "load"))
        BY DEF BeginTasks, Changes
      <3> QED
        BY <1>2, <2>1, <3>1, <3>2, <3>3, <3>4 DEF Begin
    <2>5. LocksStay(r) /\ \A u \in Thing : lock'[u] # r
      BY <1>0, <2>2, NoRequestAssumption DEF LocksStay, LockOK, Held, Does, StartOK
    <2>6. Undone(r)
      BY <2>2 DEF Undone
    <2>7. PathOK'
      BY <1>0, <2>1, <2>2, <2>3, <2>4, PathFrame
    <2>8. DishOK'
      BY <1>0, <2>2, <2>4, <2>5, DishFrame
    <2>9. EffectOK'
      BY <1>0, <2>2, <2>5, <2>6, EffectFrame
    <2>10. shown'[r] = {}
      BY <1>0, <2>2 DEF ShownOK
    <2>11. ShownOK'
      BY <1>0, <2>1, <2>2, <2>4, <2>6, <2>10, ShownFrame
    <2> QED
      BY <2>7, <2>8, <2>9, <2>11 DEF Current
  <1> QED
    BY <1>1, <1>2

(* Whoever finds the only menu finds that of every dish.                   *)
LEMMA SelectMenuCurrent ==
  ASSUME IInv, Current, TypeOK', NEW r \in Request, SelectMenu(r)
  PROVE  Current'
  <1>0. /\ TypeOK /\ TargetOK /\ LockOK /\ PathOK /\ DishOK /\ EffectOK /\ ShownOK
        /\ Busy(r)
    BY DEF IInv, Current, TargetOK
  <1>1. PICK m \in menus : menus = {m} /\ menu' = [menu EXCEPT ![r] = m]
    BY DEF SelectMenu, Found
  <1>2. PICK p \in {"flush", "read"} :
          Goto(r, p) /\ (p = "flush" => Does(r, {"add"})) /\ (p = "read" => ~Does(r, {"add"}))
    BY DEF SelectMenu
  <1>3. /\ phase[r] = "menu" /\ phase'[r] = p /\ menu'[r] = m
        /\ OthersStay(r) /\ LocksStay(r)
        /\ UNCHANGED <<list, gathering, menus, rows, lock, draft, job, before, shown>>
    BY <1>0, <1>1, <1>2
    DEF TypeOK, SelectMenu, Goto, OthersStay, LocksStay, locks, data
  <1>4. \A t \in Thing : lock'[t] # r
    BY <1>0, <1>3, NoRequestAssumption DEF LockOK, Held
  <1>5. Undone(r)
    BY <1>2, <1>3 DEF Undone
  <1>6. p = "read" => Does(r, {"list"})'
    BY <1>0, <1>2, <1>3 DEF Busy, Does
  <1>7. PathOK'
    BY <1>0, <1>2, <1>3, <1>6, PathFrame
  <1>8. DishOK'
    BY <1>0, <1>3, <1>4, DishFrame
  <1>9. EffectOK'
    BY <1>0, <1>2, <1>3, <1>5, EffectFrame
  <1>10. shown'[r] = {}
    BY <1>0, <1>3 DEF ShownOK
  <1>11. ASSUME list = "dishes", NEW q \in Request, Succeeded(q, "add"), rows[Target(q)] # NoRow
         PROVE  rows[Target(q)].menu = menu'[r]
    <2>1. Target(q) \in Thing
      BY <1>0, <1>11 DEF TargetOK, Busy, Writes, Succeeded, Does
    <2> QED
      BY <1>0, <1>1, <1>3, <1>11, <2>1 DEF DishOK
  <1>12. ShownOK'
    BY <1>0, <1>2, <1>3, <1>5, <1>10, <1>11, ShownFrame
  <1> QED
    BY <1>7, <1>8, <1>9, <1>12 DEF Current

(* Where there is no menu there are no dishes: the empty list is complete. *)
LEMMA NoMenuYetCurrent ==
  ASSUME IInv, Current, TypeOK', NEW r \in Request, NoMenuYet(r)
  PROVE  Current'
  <1>0. /\ TypeOK /\ TargetOK /\ LockOK /\ OverOK /\ PathOK /\ DishOK /\ EffectOK /\ ShownOK
        /\ Busy(r)
    BY DEF IInv, Current, TargetOK
  <1>1. PICK p \in {"insert_menu", "commit"} :
          Goto(r, p) /\ (p = "commit" => ~Does(r, {"add"}))
    BY DEF NoMenuYet
  <1>2. /\ phase[r] = "menu" /\ phase'[r] = p /\ menus = {} /\ list = "dishes"
        /\ OthersStay(r) /\ LocksStay(r)
        /\ UNCHANGED <<list, gathering, menus, rows, lock, draft, job, before, shown>>
    BY <1>0, <1>1
    DEF TypeOK, NoMenuYet, Found, Goto, OthersStay, LocksStay, locks, data, session, PathOK
  <1>3. \A t \in Thing : lock'[t] # r
    BY <1>0, <1>2, NoRequestAssumption DEF LockOK, Held
  <1>4. Undone(r)
    BY <1>1, <1>2 DEF Undone
  <1>5. p = "commit" => Does(r, {"list"})' /\ ~Does(r, {"add"})' /\ ~Does(r, {"delete"})'
    BY <1>0, <1>1, <1>2 DEF Busy, Does
  <1>6. PathOK'
    BY <1>0, <1>1, <1>2, PathFrame
  <1>7. DishOK'
    BY <1>0, <1>1, <1>2, <1>3, DishFrame
  <1>8. EffectOK'
    BY <1>0, <1>1, <1>2, <1>4, <1>5, EffectFrame
  <1>9. shown'[r] = {}
    BY <1>0, <1>2 DEF ShownOK
  <1>10. ASSUME NEW q \in Request, Succeeded(q, "add")'
         PROVE  ~gathering' \/ Gone(Target(q))'
    <2>1. Succeeded(q, "add") /\ Target(q)' = Target(q)
      BY <1>2, <1>4, <1>10, SameSuccess DEF Op
    <2>2. Target(q) \in Thing
      BY <1>0, <2>1 DEF TargetOK, Busy, Writes, Succeeded, Does
    <2>3. rows[Target(q)] = NoRow
      BY <1>0, <1>2, <2>2 DEF DishOK
    <2>4. ~gathering \/ Gone(Target(q))
      BY <1>0, <2>1, <2>3 DEF EffectOK
    <2> QED
      BY <1>2, <1>4, <2>1, <2>4, SameSuccess
  <1>11. Complete(r)'
    BY <1>9, <1>10 DEF Complete, TypeOK
  <1>12. ShownOK'
    BY <1>0, <1>1, <1>2, <1>4, <1>9, <1>11, ShownFrame
  <1> QED
    BY <1>6, <1>7, <1>8, <1>12 DEF Current

LEMMA InsertMenuCurrent ==
  ASSUME IInv, Current, TypeOK', NEW r \in Request, InsertMenu(r)
  PROVE  Current'
  <1>0. TypeOK /\ TargetOK /\ LockOK /\ PathOK /\ DishOK /\ EffectOK /\ ShownOK
    BY DEF IInv, Current
  <1>1. /\ phase[r] = "insert_menu" /\ phase'[r] = "flush" /\ menu'[r] = r
        /\ OthersStay(r) /\ LocksStay(r)
        /\ UNCHANGED <<list, gathering, menus, rows, lock, draft, job, before, shown>>
    BY <1>0 DEF TypeOK, InsertMenu, Goto, OthersStay, LocksStay, locks, data
  <1>2. \A t \in Thing : lock'[t] # r
    BY <1>0, <1>1, NoRequestAssumption DEF LockOK, Held
  <1>3. Undone(r) /\ shown'[r] = {}
    BY <1>0, <1>1 DEF Undone, ShownOK
  <1>4. PathOK'
    BY <1>0, <1>1, PathFrame
  <1>5. DishOK'
    BY <1>0, <1>1, <1>2, DishFrame
  <1>6. EffectOK'
    BY <1>0, <1>1, <1>3, EffectFrame
  <1>7. ShownOK'
    BY <1>0, <1>1, <1>3, ShownFrame
  <1> QED
    BY <1>4, <1>5, <1>6, <1>7 DEF Current

(* What is read is all there is, and, of the dishes, all there is of the   *)
(* menu of every dish added before.                                        *)
LEMMA ReadCurrent ==
  ASSUME IInv, Current, TypeOK', NEW r \in Request, Read(r)
  PROVE  Current'
  <1>0. TypeOK /\ TargetOK /\ LockOK /\ PathOK /\ DishOK /\ EffectOK /\ ShownOK
    BY DEF IInv, Current
  <1>1. /\ phase[r] = "read" /\ phase'[r] = "commit"
        /\ OthersStay(r) /\ LocksStay(r) /\ \A q \in Request \ {r} : shown'[q] = shown[q]
        /\ UNCHANGED <<list, gathering, menus, rows, lock, draft, job, before, menu>>
    BY <1>0
    DEF TypeOK, Read, ReadDishes, ReadItems, ReadTasks, Goto, OthersStay, LocksStay, locks,
        data
  <1>2. \A t \in Thing : lock'[t] # r
    BY <1>0, <1>1, NoRequestAssumption DEF LockOK, Held
  <1>3. Undone(r)
    BY <1>1 DEF Undone
  <1>4. Does(r, {"list"})' /\ ~Does(r, {"add"})' /\ ~Does(r, {"delete"})'
    BY <1>0, <1>1 DEF PathOK, Does
  <1>5. PathOK'
    BY <1>0, <1>1, PathFrame
  <1>6. DishOK'
    BY <1>0, <1>1, <1>2, DishFrame
  <1>7. EffectOK'
    BY <1>0, <1>1, <1>3, <1>4, EffectFrame
  <1>8. shown'[r] \subseteq Present
        /\ \A t \in Present : list # "dishes" \/ rows[t].menu = menu[r] => t \in shown'[r]
    BY <1>0 DEF Read, ReadDishes, ReadItems, ReadTasks, TypeOK
  <1>9. \A q \in Request : Succeeded(q, "add") \/ Succeeded(q, "delete") => Target(q) \in Thing
    BY <1>0 DEF TargetOK, Busy, Writes, Succeeded, Does
  <1>10. ASSUME NEW q \in before'[r], Succeeded(q, "add")'
         PROVE  Target(q)' \in shown'[r] \/ ~gathering' \/ Gone(Target(q))'
    <2>1. q \in Request /\ q \in before[r]
      BY <1>0, <1>1 DEF TypeOK
    <2>2. Succeeded(q, "add") /\ Target(q)' = Target(q) /\ Target(q) \in Thing
      BY <1>1, <1>3, <1>9, <1>10, <2>1, SameSuccess DEF Op
    <2>3. CASE rows[Target(q)] = NoRow
      <3>1. ~gathering \/ Gone(Target(q))
        BY <1>0, <2>1, <2>2, <2>3 DEF EffectOK
      <3> QED
        BY <1>1, <1>3, <2>2, <3>1, SameSuccess
    <2>4. CASE rows[Target(q)] # NoRow
      <3>1. list = "dishes" => rows[Target(q)].menu = menu[r]
        BY <1>0, <1>1, <2>1, <2>2, <2>4 DEF ShownOK, PathOK
      <3>2. Target(q) \in Present
        BY <2>2, <2>4 DEF Present
      <3> QED
        BY <1>8, <2>2, <3>1, <3>2
    <2> QED
      BY <2>3, <2>4
  <1>11. ASSUME NEW d \in before'[r], Succeeded(d, "delete")'
         PROVE  Target(d)' \notin shown'[r]
    <2>1. d \in Request
      BY <1>0, <1>1 DEF TypeOK
    <2>2. Succeeded(d, "delete") /\ Target(d)' = Target(d)
      BY <1>1, <1>3, <1>11, <2>1, SameSuccess DEF Op
    <2>3. rows[Target(d)] = NoRow
      BY <1>0, <2>1, <2>2 DEF EffectOK
    <2> QED
      BY <1>8, <2>2, <2>3 DEF Present
  <1>12. Complete(r)'
    BY <1>10, <1>11 DEF Complete
  <1>13. ShownOK'
    BY <1>0, <1>1, <1>3, <1>12, ShownFrame
  <1> QED
    BY <1>5, <1>6, <1>7, <1>13 DEF Current

LEMMA LoadsCurrent ==
  ASSUME IInv, Current, TypeOK', NEW r \in Request, Loads(r)
  PROVE  Current'
  <1>0. TypeOK /\ TargetOK /\ LockOK /\ PathOK /\ DishOK /\ EffectOK /\ ShownOK
    BY DEF IInv, Current
  <1>1. /\ phase[r] = "load" /\ phase'[r] = "flush"
        /\ OthersStay(r) /\ LocksStay(r)
        /\ UNCHANGED <<list, gathering, menus, rows, lock, draft, job, shown>>
    BY <1>0 DEF TypeOK, Loads, Goto, OthersStay, LocksStay, locks, data
  <1>2. \A t \in Thing : lock'[t] # r
    BY <1>0, <1>1, NoRequestAssumption DEF LockOK, Held
  <1>3. Undone(r) /\ shown'[r] = {}
    BY <1>0, <1>1 DEF Undone, ShownOK
  <1>4. ~Does(r, {"add"})'
    BY <1>0, <1>1 DEF PathOK, Does
  <1>5. PathOK'
    BY <1>0, <1>1, PathFrame
  <1>6. DishOK'
    BY <1>0, <1>1, <1>2, <1>4, DishFrame
  <1>7. EffectOK'
    BY <1>0, <1>1, <1>3, EffectFrame
  <1>8. ShownOK'
    BY <1>0, <1>1, <1>3, ShownFrame
  <1> QED
    BY <1>5, <1>6, <1>7, <1>8 DEF Current

LEMMA SkipUpdateCurrent ==
  ASSUME IInv, Current, TypeOK', NEW r \in Request, SkipUpdate(r)
  PROVE  Current'
  <1>0. TypeOK /\ TargetOK /\ LockOK /\ PathOK /\ DishOK /\ EffectOK /\ ShownOK
    BY DEF IInv, Current
  <1>1. /\ phase[r] = "flush" /\ phase'[r] = "refresh" /\ Does(r, {"update"})
        /\ OthersStay(r) /\ LocksStay(r)
        /\ UNCHANGED <<list, gathering, menus, rows, lock, draft, job, shown>>
    BY <1>0 DEF TypeOK, SkipUpdate, Goto, OthersStay, LocksStay, locks, data, session
  <1>2. \A t \in Thing : lock'[t] # r
    BY <1>0, <1>1, NoRequestAssumption DEF LockOK, Held, Does
  <1>3. Undone(r) /\ shown'[r] = {}
    BY <1>0, <1>1 DEF Undone, ShownOK
  <1>4. ~Does(r, {"add"})' /\ Does(r, {"add", "update"})'
    BY <1>1 DEF Does
  <1>5. PathOK'
    BY <1>0, <1>1, <1>4, PathFrame
  <1>6. DishOK'
    BY <1>0, <1>1, <1>2, DishFrame
  <1>7. EffectOK'
    BY <1>0, <1>1, <1>3, <1>4, EffectFrame
  <1>8. ShownOK'
    BY <1>0, <1>1, <1>3, ShownFrame
  <1> QED
    BY <1>5, <1>6, <1>7, <1>8 DEF Current

LEMMA RefreshCurrent ==
  ASSUME IInv, Current, TypeOK', NEW r \in Request, Refresh(r)
  PROVE  Current'
  <1>0. TypeOK /\ TargetOK /\ LockOK /\ PathOK /\ DishOK /\ EffectOK /\ ShownOK
    BY DEF IInv, Current
  <1>1. /\ phase[r] = "refresh" /\ phase'[r] = "commit"
        /\ OthersStay(r) /\ LocksStay(r)
        /\ UNCHANGED <<list, gathering, menus, rows, lock, draft, job, menu, shown>>
    BY <1>0 DEF TypeOK, Refresh, Goto, OthersStay, LocksStay, locks, data
  <1>2. Undone(r) /\ shown'[r] = {}
    BY <1>0, <1>1 DEF Undone, ShownOK
  <1>3. /\ ~Does(r, {"delete"})' /\ ~Does(r, {"list"})'
        /\ Does(r, {"add"})' => lock'[Target(r)'] = r
    BY <1>0, <1>1 DEF PathOK, EffectOK, Does, Target
  <1>4. PathOK'
    BY <1>0, <1>1, PathFrame
  <1>5. DishOK'
    <2>1. ASSUME list = "dishes", NEW t \in Thing, lock'[t] = r, draft'[t] # NoRow
          PROVE  /\ draft'[t].menu \in menus \/ (draft'[t].menu = r /\ menu'[r] = r)
                 /\ rows[t] # NoRow => draft'[t].menu = rows[t].menu
      <3>1. lock[t] = r /\ lock[t] # NoRequest /\ draft[t] # NoRow
        BY <1>1, <2>1, NoRequestAssumption
      <3> QED
        BY <1>0, <1>1, <2>1, <3>1 DEF DishOK
    <2> QED
      BY <1>0, <1>1, <2>1, DishFrame
  <1>6. EffectOK'
    BY <1>0, <1>1, <1>2, <1>3, EffectFrame
  <1>7. ShownOK'
    BY <1>0, <1>1, <1>2, <1>3, ShownFrame
  <1> QED
    BY <1>4, <1>5, <1>6, <1>7 DEF Current

(* A new row is of the menu its request found, or is about to commit.      *)
LEMMA InsertCurrent ==
  ASSUME IInv, Current, TypeOK', NEW r \in Request, Insert(r)
  PROVE  Current'
  <1>0. TypeOK /\ TargetOK /\ LockOK /\ IdOK /\ PathOK /\ DishOK /\ EffectOK /\ ShownOK
    BY DEF IInv, Current
  <1>1. /\ phase[r] = "flush" /\ phase'[r] = "refresh" /\ Does(r, {"add"}) /\ gathering
        /\ Target(r) \in Thing
        /\ OthersStay(r)
        /\ lock' = [lock EXCEPT ![Target(r)] = r]
        /\ draft' = [draft EXCEPT ![Target(r)] = Added(menu[r])]
        /\ UNCHANGED <<list, gathering, menus, rows, job, menu, shown>>
    BY <1>0 DEF TypeOK, Insert, Write, Goto, OthersStay, data, session, TargetOK, Busy, Writes,
                Does
  <1>2. \A t \in Thing : lock[t] # r
    BY <1>0, <1>1, NoRequestAssumption DEF LockOK, Held
  <1>3. Adding(r)
    BY <1>1 DEF Adding, Over
  <1>4. lock[Target(r)] = NoRequest
    <2> SUFFICES ASSUME lock[Target(r)] # NoRequest PROVE FALSE
      OBVIOUS
    <2> DEFINE h == lock[Target(r)]
    <2>1. Held(h, Target(r)) /\ h \in Request \ {r}
      BY <1>0, <1>1, <1>2 DEF LockOK, TypeOK
    <2>2. Target(h) = Target(r) /\ (Does(h, {"add"}) \/ Editing(h))
      BY <2>1 DEF Held, Editing, Does
    <2> QED
      BY <1>0, <1>3, <2>1, <2>2 DEF IdOK
  <1>5. LocksStay(r)
    BY <1>0, <1>1, <1>4 DEF LocksStay, TypeOK
  <1>6. Undone(r) /\ shown'[r] = {}
    BY <1>0, <1>1 DEF Undone, ShownOK
  <1>7. Does(r, {"add"})' /\ ~Does(r, {"list"})' /\ Target(r)' = Target(r)
        /\ Does(r, {"add", "update"})'
    BY <1>1 DEF Does, Target
  <1>8. PathOK'
    BY <1>0, <1>1, <1>7, PathFrame
  <1>9. DishOK'
    <2>1. ASSUME list = "dishes", NEW t \in Thing, lock'[t] = r
          PROVE  /\ draft'[t].menu \in menus \/ (draft'[t].menu = r /\ menu'[r] = r)
                 /\ rows[t] = NoRow
      <3>1. t = Target(r) /\ draft'[t] = Added(menu[r])
        BY <1>0, <1>1, <1>2, <2>1 DEF TypeOK
      <3>2. draft'[t].menu = menu[r]
        BY <2>1, <3>1 DEF Added, NewDish
      <3>3. menu[r] \in menus \/ menu[r] = r
        BY <1>0, <1>1, <2>1 DEF DishOK
      <3>4. rows[t] = NoRow
        BY <1>0, <1>3, <3>1 DEF IdOK
      <3> QED
        BY <1>1, <3>2, <3>3, <3>4
    <2> QED
      BY <1>0, <1>1, <1>5, <2>1, DishFrame
  <1>10. EffectOK'
    <2>1. lock'[Target(r)'] = r
      BY <1>0, <1>1, <1>7 DEF TypeOK
    <2> QED
      BY <1>0, <1>1, <1>5, <1>6, <2>1, EffectFrame
  <1>11. ShownOK'
    BY <1>0, <1>1, <1>6, <1>7, ShownFrame
  <1> QED
    BY <1>8, <1>9, <1>10, <1>11 DEF Current

(* A PATCH does not move a dish to another menu.                           *)
LEMMA UpdateCurrent ==
  ASSUME IInv, Current, TypeOK', NEW r \in Request, Update(r)
  PROVE  Current'
  <1>0. TypeOK /\ TargetOK /\ LockOK /\ PathOK /\ DishOK /\ EffectOK /\ ShownOK
    BY DEF IInv, Current
  <1>1. /\ phase[r] = "flush" /\ phase'[r] = "refresh" /\ Does(r, {"update"})
        /\ Target(r) \in Thing /\ CanLock(r) /\ Visible(r) # NoRow
        /\ OthersStay(r)
        /\ lock' = [lock EXCEPT ![Target(r)] = r]
        /\ draft' = [draft EXCEPT ![Target(r)] = Updated(r)]
        /\ UNCHANGED <<list, gathering, menus, rows, job, menu, shown>>
    BY <1>0 DEF TypeOK, Update, Write, Goto, OthersStay, data, session, TargetOK, Busy, Writes,
                Does
  <1>2. \A t \in Thing : lock[t] # r
    BY <1>0, <1>1, NoRequestAssumption DEF LockOK, Held, Does
  <1>3. lock[Target(r)] = NoRequest /\ Visible(r) = rows[Target(r)]
    BY <1>1, <1>2 DEF CanLock, Visible, Holds
  <1>4. LocksStay(r)
    BY <1>0, <1>1, <1>3 DEF LocksStay, TypeOK
  <1>5. Undone(r) /\ shown'[r] = {}
    BY <1>0, <1>1 DEF Undone, ShownOK
  <1>6. ~Does(r, {"add"})' /\ ~Does(r, {"list"})' /\ Does(r, {"add", "update"})'
    BY <1>1 DEF Does
  <1>7. PathOK'
    BY <1>0, <1>1, <1>6, PathFrame
  <1>8. DishOK'
    <2>1. Updated(r).menu = rows[Target(r)].menu
      <3>1. Visible(r) \in Row
        BY <1>0, <1>1, <1>3 DEF TypeOK
      <3> QED
        BY <1>3, <3>1 DEF Updated, Row
    <2>2. ASSUME list = "dishes", NEW t \in Thing, lock'[t] = r
          PROVE  draft'[t].menu \in menus /\ draft'[t].menu = rows[t].menu
      <3>1. t = Target(r) /\ draft'[t] = Updated(r)
        BY <1>0, <1>1, <1>2, <2>2 DEF TypeOK
      <3> QED
        BY <1>0, <1>1, <1>3, <2>1, <2>2, <3>1 DEF DishOK
    <2> QED
      BY <1>0, <1>1, <1>4, <2>2, DishFrame
  <1>9. EffectOK'
    BY <1>0, <1>1, <1>4, <1>5, <1>6, EffectFrame
  <1>10. ShownOK'
    BY <1>0, <1>1, <1>5, <1>6, ShownFrame
  <1> QED
    BY <1>7, <1>8, <1>9, <1>10 DEF Current

LEMMA DeleteCurrent ==
  ASSUME IInv, Current, TypeOK', NEW r \in Request, Delete(r)
  PROVE  Current'
  <1>0. TypeOK /\ TargetOK /\ LockOK /\ PathOK /\ DishOK /\ EffectOK /\ ShownOK
    BY DEF IInv, Current
  <1>1. /\ phase[r] = "flush" /\ phase'[r] = "commit" /\ Does(r, {"delete"})
        /\ Target(r) \in Thing /\ CanLock(r)
        /\ OthersStay(r)
        /\ IF Visible(r) = NoRow THEN UNCHANGED locks ELSE Write(r, NoRow)
        /\ UNCHANGED <<list, gathering, menus, rows, job, menu, shown>>
    BY <1>0 DEF TypeOK, Delete, Goto, OthersStay, data, session, TargetOK, Busy, Writes, Does
  <1>2. \A t \in Thing : lock[t] # r
    BY <1>0, <1>1, NoRequestAssumption DEF LockOK, Held, Does
  <1>3. lock[Target(r)] = NoRequest /\ Visible(r) = rows[Target(r)]
    BY <1>1, <1>2 DEF CanLock, Visible, Holds
  <1>4. LocksStay(r)
    BY <1>0, <1>1, <1>3 DEF LocksStay, TypeOK, Write, locks
  <1>5. Undone(r) /\ shown'[r] = {}
    BY <1>0, <1>1 DEF Undone, ShownOK
  <1>6. /\ ~Does(r, {"add"})' /\ ~Does(r, {"list"})' /\ Writes(r)' /\ Target(r)' = Target(r)
    BY <1>1 DEF Does, Writes, Target
  <1>7. PathOK'
    BY <1>0, <1>1, PathFrame
  <1>8. DishOK'
    <2>1. \A t \in Thing : lock'[t] = r => draft'[t] = NoRow
      BY <1>0, <1>1, <1>2 DEF TypeOK, Write, locks
    <2> QED
      BY <1>0, <1>1, <1>4, <2>1, DishFrame
  <1>9. EffectOK'
    <2>1. ASSUME ~Holds(r)' PROVE rows[Target(r)'] = NoRow
      <3>1. ~Write(r, NoRow)
        BY <1>0, <1>1, <1>6, <2>1 DEF Write, Holds, TypeOK
      <3> QED
        BY <1>1, <1>3, <1>6, <3>1
    <2> QED
      BY <1>0, <1>1, <1>4, <1>5, <1>6, <2>1, EffectFrame
  <1>10. ShownOK'
    BY <1>0, <1>1, <1>5, <1>6, ShownFrame
  <1> QED
    BY <1>7, <1>8, <1>9, <1>10 DEF Current

(* What a commit makes of a row: nothing if its request does not hold it;  *)
(* a new row appears by its own add only, and a PATCH keeps its menu.      *)
LEMMA CommitRows ==
  ASSUME IInv, Current, NEW r \in Request, Commit(r)
  PROVE  /\ Does(r, {"add"}) => rows'[Target(r)] # NoRow
         /\ Does(r, {"delete"}) => rows'[Target(r)] = NoRow
         /\ \A t \in Thing :
              \/ rows'[t] = rows[t]
              \/ Target(r) = t /\ lock[t] = r /\ rows'[t] = draft[t] /\ Held(r, t)
  <1>0. TypeOK /\ TargetOK /\ LockOK /\ EffectOK
    BY DEF IInv, Current
  <1>1. /\ phase[r] = "commit"
        /\ rows' = IF Holds(r) THEN [rows EXCEPT ![Target(r)] = Visible(r)] ELSE rows
    BY DEF Commit
  <1>2. Holds(r) => /\ Target(r) \in Thing /\ lock[Target(r)] = r
                    /\ rows'[Target(r)] = draft[Target(r)]
                    /\ Held(r, Target(r))
    BY <1>0, <1>1, NoRequestAssumption DEF Holds, Visible, TargetOK, Busy, LockOK, TypeOK
  <1>3. Does(r, {"add"}) => Holds(r)
    BY <1>0, <1>1 DEF EffectOK, Holds, Writes, Does
  <1>4. Does(r, {"add"}) => rows'[Target(r)] # NoRow
    BY <1>2, <1>3 DEF Held, Does
  <1>5. Does(r, {"delete"}) => rows'[Target(r)] = NoRow
    <2>1. CASE Holds(r)
      BY <1>2, <2>1 DEF Held, Does
    <2>2. CASE ~Holds(r)
      BY <1>0, <1>1, <2>2 DEF EffectOK
    <2> QED
      BY <2>1, <2>2
  <1>6. ASSUME NEW t \in Thing, rows'[t] # rows[t]
        PROVE  Target(r) = t /\ lock[t] = r /\ rows'[t] = draft[t] /\ Held(r, t)
    <2>1. Holds(r) /\ t = Target(r)
      BY <1>0, <1>1, <1>6 DEF TypeOK
    <2> QED
      BY <1>2, <2>1
  <1> QED
    BY <1>4, <1>5, <1>6

(* A row that a request edits or has added is no other request's to add.   *)
LEMMA AddsOwn ==
  ASSUME IInv, NEW r \in Request, Does(r, {"add"}), phase[r] \notin Over,
         NEW q \in Request \ {r}, Succeeded(q, "add") \/ Succeeded(q, "delete")
  PROVE  Target(q) # Target(r)
  <1>1. Adding(r) /\ (Does(q, {"add"}) \/ Editing(q))
    BY DEF Adding, Editing, Succeeded, Does
  <1> QED
    BY <1>1 DEF IInv, IdOK

LEMMA CommitCurrent ==
  ASSUME IInv, Current, TypeOK', NEW r \in Request, Commit(r)
  PROVE  Current'
  <1>0. /\ TypeOK /\ OverOK /\ TargetOK /\ LockOK
        /\ PathOK /\ DishOK /\ EffectOK /\ ShownOK
    BY DEF IInv, Current
  <1>1. /\ phase[r] = "commit" /\ phase'[r] = "done" /\ phase[r] \notin Over
        /\ OthersStay(r)
        /\ UNCHANGED <<list, gathering, job, before, shown>>
        /\ menus' = IF menu[r] = r THEN menus \cup {r} ELSE menus
    BY <1>0 DEF TypeOK, Commit, Goto, OthersStay, Over
  <1>2. LocksStay(r) /\ \A t \in Thing : lock'[t] # r
    <2>1. \A t \in Thing : lock[t] = r => t = Target(r) /\ Holds(r)
      BY <1>0, NoRequestAssumption DEF LockOK, Held, Holds, Writes, Does
    <2>2. CASE Holds(r)
      BY <1>0, <2>1, <2>2, NoRequestAssumption
      DEF LocksStay, Commit, Release, TypeOK, Holds, TargetOK, Busy
    <2>3. CASE ~Holds(r)
      BY <2>1, <2>3 DEF LocksStay, Commit, Release, locks
    <2> QED
      BY <2>2, <2>3
  <1>3. /\ \A q \in Request : Target(q)' = Target(q) /\ \A ops : Does(q, ops)' <=> Does(q, ops)
        /\ \A q \in Request : \A op : Succeeded(q, op)' <=>
             Succeeded(q, op) \/ (q = r /\ Does(r, {op}))
    BY <1>0, <1>1 DEF Target, Does, Succeeded, OthersStay
  <1>4. \A t : Gone(t) => Gone(t)'
    BY <1>3 DEF Gone
  <1>5. \A q \in Request : Succeeded(q, "add") \/ Succeeded(q, "delete") =>
          Target(q) \in Thing /\ q # r
    BY <1>0, <1>1 DEF TargetOK, Busy, Writes, Succeeded, Does
  <1>6. PathOK'
    BY <1>0, <1>1, PathFrame
  <1>7. DishOK'
    <2> SUFFICES ASSUME list = "dishes" PROVE DishOK'
      BY <1>1 DEF DishOK
    <2>1. ASSUME NEW t \in Thing, rows'[t] # NoRow PROVE rows'[t].menu \in menus'
      <3>1. CASE rows'[t] = rows[t]
        BY <1>0, <1>1, <2>1, <3>1 DEF DishOK
      <3>2. CASE lock[t] = r /\ rows'[t] = draft[t]
        BY <1>0, <1>1, <2>1, <3>2, NoRequestAssumption DEF DishOK
      <3> QED
        BY <3>1, <3>2, CommitRows
    <2>2. ASSUME NEW t \in Thing, lock'[t] # NoRequest, draft'[t] # NoRow
          PROVE  /\ draft'[t].menu \in menus' \/ (draft'[t].menu = lock'[t] /\ menu'[lock'[t]] = lock'[t])
                 /\ rows'[t] # NoRow => draft'[t].menu = rows'[t].menu
      <3>1. lock'[t] = lock[t] /\ draft'[t] = draft[t] /\ lock[t] \in Request \ {r}
        BY <1>0, <1>2, <2>2 DEF LocksStay, TypeOK
      <3>2. rows'[t] = rows[t] /\ menu'[lock[t]] = menu[lock[t]]
        BY <1>1, <3>1, CommitRows DEF OthersStay
      <3>3. draft[t].menu \in menus \/ (draft[t].menu = lock[t] /\ menu[lock[t]] = lock[t])
        BY <1>0, <2>2, <3>1 DEF DishOK
      <3>4. rows[t] # NoRow => draft[t].menu = rows[t].menu
        BY <1>0, <2>2, <3>1 DEF DishOK
      <3> QED
        BY <1>1, <3>1, <3>2, <3>3, <3>4
    <2>3. ASSUME NEW q \in Request, Does(q, {"add"})', phase'[q] = "flush", gathering'
          PROVE  menu'[q] \in menus' \/ menu'[q] = q
      <3>1. q # r
        BY <1>1, <2>3
      <3> QED
        BY <1>0, <1>1, <1>3, <2>3, <3>1 DEF DishOK, OthersStay
    <2> QED
      BY <2>1, <2>2, <2>3 DEF DishOK
  <1>8. EffectOK'
    <2>1. ASSUME NEW q \in Request, Does(q, {"add"})', phase'[q] \in {"refresh", "commit"}
          PROVE  lock'[Target(q)'] = q
      BY <1>0, <1>1, <1>2, <2>1, EffectOfOthers
    <2>2. ASSUME NEW q \in Request, Does(q, {"delete"})', phase'[q] = "commit", ~Holds(q)'
          PROVE  rows'[Target(q)'] = NoRow
      <3>1. q # r /\ rows[Target(q)] = NoRow /\ Target(q) \in Thing
        BY <1>0, <1>1, <1>2, <1>3, <2>2, EffectOfOthers DEF TargetOK, Busy, Writes, Does
      <3>2. CASE rows'[Target(q)] = rows[Target(q)]
        BY <1>3, <3>1, <3>2
      <3>3. CASE Target(r) = Target(q) /\ rows'[Target(q)] = draft[Target(q)] /\ Held(r, Target(q))
        <4>1. Editing(q)
          BY <1>1, <1>3, <2>2, <3>1 DEF Editing, OthersStay, Does
        <4>2. ~Does(r, {"add"})
          <5>1. Does(r, {"add"}) => Adding(r)
            BY <1>1 DEF Adding
          <5> QED
            BY <3>1, <3>3, <4>1, <5>1 DEF IInv, IdOK
        <4>3. draft[Target(q)] = NoRow
          BY <3>1, <3>3, <4>2 DEF Held
        <4> QED
          BY <1>3, <3>3, <4>3
      <3> QED
        BY <3>1, <3>2, <3>3, CommitRows
    <2>3. ASSUME NEW q \in Request, Succeeded(q, "add")'
          PROVE  \/ rows'[Target(q)'] # NoRow \/ ~gathering'
                 \/ \E d \in Request : Succeeded(d, "delete")' /\ Target(d)' = Target(q)'
      <3>1. CASE q = r
        BY <1>3, <1>5, <2>3, <3>1, CommitRows
      <3>2. CASE q # r
        <4>1. Succeeded(q, "add") /\ Target(q) \in Thing
          BY <1>3, <1>5, <2>3, <3>2
        <4>2. rows[Target(q)] # NoRow \/ ~gathering \/ Gone(Target(q))
          BY <1>0, <4>1 DEF EffectOK
        <4>3. CASE rows'[Target(q)] = rows[Target(q)]
          BY <1>1, <1>3, <4>2, <4>3 DEF Gone
        <4>4. CASE /\ Target(r) = Target(q) /\ rows'[Target(q)] = draft[Target(q)]
                   /\ Held(r, Target(q))
          <5>1. CASE Does(r, {"delete"})
            <6>1. Succeeded(r, "delete")' /\ Target(r)' = Target(q)
              BY <1>3, <4>4, <5>1
            <6> QED
              BY <1>3, <6>1
          <5>2. CASE ~Does(r, {"delete"})
            BY <1>3, <4>4, <5>2 DEF Held
          <5> QED
            BY <5>1, <5>2
        <4> QED
          BY <4>1, <4>3, <4>4, CommitRows
      <3> QED
        BY <3>1, <3>2
    <2>4. ASSUME NEW d \in Request, Succeeded(d, "delete")'
          PROVE  rows'[Target(d)'] = NoRow
      <3>1. CASE d = r
        BY <1>3, <1>5, <2>4, <3>1, CommitRows
      <3>2. CASE d # r
        <4>1. Succeeded(d, "delete") /\ Target(d) \in Thing
          BY <1>3, <1>5, <2>4, <3>2
        <4>2. rows[Target(d)] = NoRow
          BY <1>0, <4>1 DEF EffectOK
        <4>3. CASE rows'[Target(d)] = rows[Target(d)]
          BY <1>3, <4>2, <4>3
        <4>4. CASE /\ Target(r) = Target(d) /\ rows'[Target(d)] = draft[Target(d)]
                   /\ Held(r, Target(d))
          <5>1. ~Does(r, {"add"})
            BY <1>1, <3>2, <4>1, <4>4, AddsOwn
          <5>2. draft[Target(d)] = NoRow
            BY <4>2, <4>4, <5>1 DEF Held
          <5> QED
            BY <1>3, <4>4, <5>2
        <4> QED
          BY <4>1, <4>3, <4>4, CommitRows
      <3> QED
        BY <3>1, <3>2
    <2> QED
      BY <2>1, <2>2, <2>3, <2>4 DEF EffectOK, Gone
  <1>9. ShownOK'
    <2> SUFFICES ASSUME NEW q \in Request
                 PROVE  /\ phase'[q] \notin {"commit", "done"} => shown'[q] = {}
                        /\ list' = "dishes" /\ Does(q, {"list"})' /\ phase'[q] = "read" =>
                             \A p \in before'[q] :
                               Succeeded(p, "add")' /\ rows'[Target(p)'] # NoRow =>
                                 rows'[Target(p)'].menu = menu'[q]
                        /\ Does(q, {"list"})' /\ phase'[q] \in {"commit", "done"} => Complete(q)'
      BY DEF ShownOK
    <2>1. \A p \in before[q] : p \in Request /\ p # r
      BY <1>0, <1>1 DEF TypeOK, OverOK
    <2>2. phase'[q] \notin {"commit", "done"} => shown'[q] = {}
      BY <1>0, <1>1 DEF ShownOK, OthersStay
    <2>3. ASSUME list = "dishes", Does(q, {"list"})', phase'[q] = "read",
                 NEW p \in before[q], Succeeded(p, "add")', rows'[Target(p)'] # NoRow
          PROVE  rows'[Target(p)'].menu = menu'[q]
      <3>1. p \in Request \ {r} /\ Succeeded(p, "add") /\ Target(p)' = Target(p)
            /\ Target(p) \in Thing
        BY <1>3, <1>5, <2>1, <2>3
      <3>2. q # r /\ phase[q] = "read" /\ menu'[q] = menu[q] /\ Does(q, {"list"})
        BY <1>1, <1>3, <2>3 DEF OthersStay
      <3>3. rows[Target(p)] # NoRow => rows[Target(p)].menu = menu[q]
        BY <1>0, <2>3, <3>1, <3>2 DEF ShownOK
      <3>4. CASE rows'[Target(p)] = rows[Target(p)]
        BY <2>3, <3>1, <3>2, <3>3, <3>4
      <3>5. CASE /\ Target(r) = Target(p) /\ lock[Target(p)] = r
                 /\ rows'[Target(p)] = draft[Target(p)] /\ Held(r, Target(p))
        <4>1. ~Does(r, {"add"})
          BY <1>1, <3>1, <3>5, AddsOwn
        <4>2. draft[Target(p)] # NoRow
          BY <2>3, <3>1, <3>5
        <4>3. rows[Target(p)] # NoRow
          BY <3>5, <4>1, <4>2 DEF Held
        <4>4. draft[Target(p)].menu = rows[Target(p)].menu
          BY <1>0, <2>3, <3>1, <3>5, <4>2, <4>3, NoRequestAssumption DEF DishOK
        <4> QED
          BY <3>1, <3>2, <3>3, <3>5, <4>3, <4>4
      <3> QED
        BY <3>1, <3>4, <3>5, CommitRows
    <2>4. Complete(q) => Complete(q)'
      <3>1. \A p \in before[q] : /\ Succeeded(p, "add")' <=> Succeeded(p, "add")
                                 /\ Succeeded(p, "delete")' <=> Succeeded(p, "delete")
                                 /\ Target(p)' = Target(p)
        BY <1>3, <2>1
      <3> QED
        BY <1>1, <1>4, <3>1 DEF Complete
    <2>5. Does(q, {"list"})' /\ phase'[q] \in {"commit", "done"} => Complete(q)
      BY <1>0, <1>1, <1>3 DEF ShownOK, OthersStay
    <2> QED
      BY <1>1, <2>2, <2>3, <2>4, <2>5
  <1> QED
    BY <1>6, <1>7, <1>8, <1>9 DEF Current

LEMMA DeleteGatheringCurrent ==
  ASSUME IInv, Current, DeleteGathering
  PROVE  Current'
  <1>0. TypeOK /\ TargetOK /\ PathOK /\ DishOK /\ EffectOK /\ ShownOK
    BY DEF IInv, Current
  <1>1. /\ gathering' = FALSE /\ rows' = [t \in Thing |-> NoRow]
        /\ \A t \in Thing : lock[t] = NoRequest
        /\ UNCHANGED <<list, lock, draft, job, phase, menu, shown, before>>
    BY DEF DeleteGathering, locks, session
  <1>2. \A q \in Request : /\ Target(q)' = Target(q)
                           /\ \A ops : Does(q, ops)' <=> Does(q, ops)
                           /\ \A op : Succeeded(q, op)' <=> Succeeded(q, op)
                           /\ Holds(q)' <=> Holds(q)
    BY <1>1 DEF Target, Does, Succeeded, Holds, Writes
  <1>3. PathOK'
    BY <1>0, <1>1, <1>2 DEF PathOK
  <1>4. DishOK'
    BY <1>1 DEF DishOK
  <1>5. EffectOK'
    <2>1. \A q \in Request : Does(q, {"add"}) \/ Does(q, {"delete"}) => Target(q) \in Thing
      BY <1>0 DEF TargetOK, Busy, Writes, Does
    <2>2. \A q \in Request : Succeeded(q, "delete") => Does(q, {"delete"})
      BY DEF Succeeded
    <2> QED
      BY <1>0, <1>1, <1>2, <2>1, <2>2 DEF EffectOK
  <1>6. ShownOK'
    <2>1. \A q \in Request : before[q] \subseteq Request
      BY <1>0 DEF TypeOK
    <2>2. ASSUME NEW q \in Request, Complete(q) PROVE Complete(q)'
      BY <1>1, <1>2, <2>1, <2>2 DEF Complete
    <2>3. \A p \in Request : Succeeded(p, "add") => rows'[Target(p)] = NoRow
      BY <1>0, <1>1 DEF TargetOK, Busy, Writes, Does, Succeeded
    <2> QED
      BY <1>0, <1>1, <1>2, <2>1, <2>2, <2>3 DEF ShownOK
  <1> QED
    BY <1>3, <1>4, <1>5, <1>6 DEF Current

LEMMA CurrentInit == Init => Current
  <1> SUFFICES ASSUME Init PROVE Current
    OBVIOUS
  <1>1. \A r \in Request : phase[r] = "new" /\ shown[r] = {} /\ job[r] = NoJob
    BY DEF Init
  <1>2. \A r \in Request : \A ops : ~Does(r, ops)
    BY <1>1 DEF Does
  <1>3. PathOK /\ EffectOK /\ ShownOK
    BY <1>1, <1>2 DEF PathOK, EffectOK, ShownOK, Succeeded
  <1>4. DishOK
    <2>1. ASSUME list = "dishes", NEW t \in Thing, rows[t] # NoRow
          PROVE  rows[t].menu \in menus
      <3>1. t \notin unused /\ rows[t] = Added(OldMenu)
        BY <2>1 DEF Init
      <3>2. menus = {OldMenu} /\ rows[t].menu = OldMenu
        BY <2>1, <3>1 DEF Init, Added, NewDish
      <3> QED
        BY <3>2
    <2>2. \A t \in Thing : lock[t] = NoRequest
      BY DEF Init
    <2> QED
      BY <1>2, <2>1, <2>2 DEF DishOK
  <1> QED
    BY <1>3, <1>4 DEF Current

LEMMA CurrentStep == IInv /\ Current /\ TypeOK' /\ [Next]_vars => Current'
  <1> SUFFICES ASSUME IInv, Current, TypeOK', [Next]_vars PROVE Current'
    OBVIOUS
  <1>1. ASSUME NEW r \in Request, Begin(r) PROVE Current'
    BY <1>1, BeginCurrent
  <1>2. ASSUME NEW r \in Request, Proceed(r) PROVE Current'
    <2>1. CASE \/ SeveralMenus(r) \/ NotFound(r) \/ InsertOrphan(r)
               \/ UpdateStale(r) \/ RefreshGone(r)
      <3>1. Fail(r) /\ phase[r] \notin Over
        BY <2>1 DEF SeveralMenus, NotFound, InsertOrphan, UpdateStale, RefreshGone, Over
      <3> QED
        BY <3>1, FailCurrent
    <2>2. CASE LoadDish(r) \/ LoadItem(r) \/ LoadTask(r)
      BY <2>2, LoadsCurrent DEF LoadDish, LoadItem, LoadTask
    <2>3. CASE SelectMenu(r) \/ NoMenuYet(r) \/ InsertMenu(r) \/ Read(r)
      BY <2>3, SelectMenuCurrent, NoMenuYetCurrent, InsertMenuCurrent, ReadCurrent
    <2>4. CASE Insert(r) \/ SkipUpdate(r) \/ Update(r) \/ Delete(r)
      BY <2>4, InsertCurrent, SkipUpdateCurrent, UpdateCurrent, DeleteCurrent
    <2>5. CASE Refresh(r) \/ Commit(r)
      BY <2>5, RefreshCurrent, CommitCurrent
    <2> QED
      BY <1>2, <2>1, <2>2, <2>3, <2>4, <2>5 DEF Proceed
  <1>3. ASSUME NEW r \in Request, Abort(r) PROVE Current'
    BY <1>3, FailCurrent DEF Abort, Running
  <1>4. CASE DeleteGathering
    BY <1>4, DeleteGatheringCurrent
  <1>5. CASE UNCHANGED vars
    <2>1. UNCHANGED <<list, gathering, menus, rows, lock, draft, job, phase, menu, shown, before>>
      BY <1>5 DEF vars, data, locks, session
    <2>2. PathOK' /\ DishOK' /\ EffectOK'
      BY <2>1 DEF Current, PathOK, DishOK, EffectOK, Gone, Succeeded, Holds, Writes, Does, Target
    <2>3. ShownOK'
      BY <2>1 DEF Current, ShownOK, Complete, Gone, Succeeded, Does, Target
    <2> QED
      BY <2>2, <2>3 DEF Current
  <1> QED
    BY <1>1, <1>2, <1>3, <1>4, <1>5 DEF Next

(* What a list request knows of the list, up to its answer, is complete.   *)
THEOREM CurrentInvariant == Spec => []Current
  <1>1. IInv => TypeOK
    BY DEF IInv
  <1> QED
    BY <1>1, CurrentInit, CurrentStep, ListsInvariant, PTL DEF Spec

(* A list that is answered shows all that was added and nothing that was   *)
(* deleted by the requests that were over when it began.                   *)
THEOREM ListsComplete == Spec => []ListsAreCurrent
  <1>1. Current => ListsAreCurrent
    BY DEF Current, ShownOK, ListsAreCurrent, Complete, Gone, Succeeded
  <1> QED
    BY <1>1, CurrentInvariant, PTL

=============================================================================
