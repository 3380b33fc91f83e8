--------------------------- MODULE GatheringsProofs ---------------------------
(***************************************************************************)
(* Theorems about Gatherings, for any number of requests and gatherings    *)
(* and any limit.                                                          *)
(***************************************************************************)
EXTENDS Gatherings, FiniteSetTheorems, TLAPS

USE NoRequestAssumption, NoRowAssumption, NoJobAssumption

-----------------------------------------------------------------------------
(* The inductive invariant *)

(* What a request must be, and have loaded, to be where it is. *)
SessionOK ==
  \A r \in Request :
    /\ phase[r] = "new" => job[r] = NoJob
    /\ phase[r] \in Running \cup {"done"} => job[r] \in Job
    /\ phase[r] = "refresh" => Does(r, {"create", "update", "invite"})
    /\ Does(r, {"update", "invite"}) => loaded[r] \in Row
    /\ before[r] \subseteq {q \in Request : phase[q] \in Over}

(* The holder of a row, and what it has written. *)
HolderOK(r, g) ==
  /\ r \in Request /\ job[r] \in Job /\ Target(r) = g
  /\ phase[r] \in {"refresh", "commit"}
  /\ ~Does(r, {"rsvp"})
  /\ Does(r, {"create"}) => rows[g] = NoRow /\ draft[g] = FreshRow
  /\ Does(r, {"delete"}) => rows[g] # NoRow /\ draft[g] = NoRow
  /\ Does(r, {"update"}) => /\ rows[g] \in Row /\ draft[g] \in Row
                            /\ draft[g].token = rows[g].token
  /\ Does(r, {"invite"}) => /\ rows[g] \in Row /\ draft[g] \in Row
                            /\ draft[g].archived = rows[g].archived
                            /\ draft[g].token = r
                            /\ phase[r] = "commit" => loaded[r].token = r
LockOK == \A g \in Gathering : lock[g] # NoRequest => HolderOK(lock[g], g)

(* The id of a gathering that is not yet committed is nobody else's. *)
IdsOK ==
  /\ \A g \in unused : /\ rows[g] = NoRow /\ lock[g] = NoRequest
                       /\ \A q \in Request : job[q] # NoJob => Target(q) # g
  /\ \A r \in Request : Does(r, {"create"}) /\ phase[r] \in Running =>
       /\ rows[Target(r)] = NoRow
       /\ phase[r] = "flush" => lock[Target(r)] = NoRequest
       /\ phase[r] # "flush" => lock[Target(r)] = r
       /\ \A q \in Request : q # r /\ job[q] # NoJob => Target(q) # Target(r)

(* Behind an RSVP that is not committed there is a gathering, and nobody   *)
(* is about to delete it.                                                  *)
SharingOK ==
  \A g \in Gathering : Sharing(g) # {} =>
    /\ rows[g] # NoRow
    /\ lock[g] # NoRequest => Does(lock[g], {"update"})

(* A request that will write, or has written, its own token. *)
Writer(t) ==
  /\ Does(t, {"invite"})
  /\ \/ phase[t] = "flush" /\ ~HasToken(loaded[t])
     \/ phase[t] = "refresh"
     \/ phase[t] \in {"commit", "done"} /\ loaded[t].token = t
Invited(s, g) == Succeeded(s, "invite") /\ Target(s) = g

(* Links: a committed or loaded token is that of a request that wrote it,  *)
(* an invited gathering keeps having one, and who writes a token began     *)
(* before any other invite of the gathering was over.                      *)
TokensOK ==
  /\ \A g \in Gathering : rows[g] # NoRow /\ HasToken(rows[g]) =>
       Invited(rows[g].token, g) /\ Writer(rows[g].token)
  /\ \A s \in Request : Succeeded(s, "invite") =>
       rows[Target(s)] = NoRow \/ HasToken(rows[Target(s)])
  /\ \A r \in Request : Does(r, {"invite"}) /\ phase[r] \in Running \cup {"done"} =>
       \/ Writer(r)
       \/ /\ phase[r] # "refresh" /\ HasToken(loaded[r])
          /\ Invited(loaded[r].token, Target(r)) /\ Writer(loaded[r].token)
  /\ \A t \in Request : Writer(t) /\ phase[t] \in {"refresh", "commit"} => Holds(t)
  /\ \A t \in Request : Writer(t) =>
       \A s \in before[t] : ~Invited(s, Target(t))

(* A create that has passed the check still finds room, unless another     *)
(* one succeeded since.                                                    *)
RoomLeft(r) ==
  \/ premium \/ reopened \/ Cardinality(Active) < Limit
  \/ \E q \in Request : q # r /\ Succeeded(q, "create") /\ q \notin before[r]
RoomOK ==
  \A r \in Request : Does(r, {"create"}) /\ phase[r] \in Running => RoomLeft(r)

IInv ==
  /\ TypeOK
  /\ SessionOK
  /\ LockOK
  /\ IdsOK
  /\ SharingOK
  /\ GuestsAnswered
  /\ TokensOK
  /\ RoomOK
  /\ LimitUnlessRaced

-----------------------------------------------------------------------------
(* Steps *)

(* Every way to fail is a rollback of a request that is not over. *)
Fails(r) == phase[r] \notin Over /\ Fail(r)

Step(r) ==
  \/ BeginCreate(r) \/ BeginChange(r) \/ BeginRsvp(r) \/ Fails(r)
  \/ InsertGathering(r) \/ SkipUpdate(r) \/ UpdateRow(r) \/ DeleteRow(r)
  \/ InsertRsvp(r) \/ Refresh(r) \/ Commit(r)

LEMMA StepCases ==
  ASSUME Next
  PROVE  \E r \in Request : Step(r)
  <1>1. ASSUME NEW r \in Request,
               Refuse(r) \/ UpdateStale(r) \/ InsertOrphan(r) \/ RefreshGone(r)
                 \/ Abort(r)
        PROVE  Fails(r)
    BY <1>1 DEF Refuse, UpdateStale, InsertOrphan, RefreshGone, Abort, Fails, Over,
                Running
  <1> QED
    BY <1>1 DEF Next, Begin, Proceed, Step

(* What an update, a delete and an invite have in common on arrival. *)
LEMMA ChangeCases ==
  ASSUME NEW r \in Request, BeginChange(r)
  PROVE  \E g \in Gathering, op \in {"update", "delete", "invite"}, archived \in BOOLEAN :
           /\ rows[g] # NoRow
           /\ Asks(r, op, g, archived)
           /\ loaded' = [loaded EXCEPT ![r] = rows[g]]
           /\ UNCHANGED unused
  BY DEF BeginChange

(* A request that is answered stays so, and keeps its job. *)
LEMMA RequestStep ==
  ASSUME TypeOK, NEW r \in Request, Step(r)
  PROVE  /\ phase[r] \notin Over
         /\ \A q \in Request : q # r =>
              UNCHANGED <<phase[q], job[q], loaded[q], before[q]>>
  <1> USE DEF TypeOK, Over, Goto
  <1>1. CASE BeginCreate(r) \/ BeginRsvp(r)
    BY <1>1 DEF BeginCreate, BeginRsvp, Asks
  <1>2. CASE BeginChange(r)
    <2>1. PICK g \in Gathering, op \in {"update", "delete", "invite"},
               archived \in BOOLEAN :
            /\ Asks(r, op, g, archived)
            /\ loaded' = [loaded EXCEPT ![r] = rows[g]]
      BY <1>2, ChangeCases
    <2> QED
      BY <2>1 DEF Asks
  <1>3. CASE Fails(r)
    BY <1>3 DEF Fails, Fail
  <1>4. CASE InsertGathering(r) \/ SkipUpdate(r) \/ UpdateRow(r) \/ DeleteRow(r)
    BY <1>4 DEF InsertGathering, SkipUpdate, UpdateRow, DeleteRow
  <1>5. CASE InsertRsvp(r) \/ Refresh(r) \/ Commit(r)
    BY <1>5 DEF InsertRsvp, Refresh, Commit
  <1> QED
    BY <1>1, <1>2, <1>3, <1>4, <1>5 DEF Step

(* The row a flush writes is a row. *)
LEMMA UpdatedTyped ==
  ASSUME TypeOK, NEW r \in Request, job[r] \in Job, Visible(r) # NoRow
  PROVE  Updated(r) \in Row
  <1>1. Visible(r) \in Row
    BY DEF TypeOK, Visible, Job, Target
  <1> QED
    BY <1>1 DEF Updated, Row, Token, Job

LEMMA InitTyped == Init => TypeOK
  <1> SUFFICES ASSUME Init PROVE TypeOK
    OBVIOUS
  <1>1. FreshRow \in Row /\ ArchivedRow \in Row
    BY DEF FreshRow, ArchivedRow, Row, Token
  <1>2. rows \in [Gathering -> Row \cup {NoRow}]
    BY <1>1 DEF Init
  <1> QED
    BY <1>2 DEF Init, TypeOK, Phase

LEMMA NextTyped == TypeOK /\ SessionOK /\ [Next]_vars => TypeOK'
  <1> SUFFICES ASSUME TypeOK, SessionOK, [Next]_vars PROVE TypeOK'
    OBVIOUS
  <1> USE DEF TypeOK, Phase, Goto, data, locks
  <1>1. ASSUME NEW r \in Request, BeginCreate(r) PROVE TypeOK'
    <2>1. PICK g \in unused : Asks(r, "create", g, FALSE) /\ unused' = unused \ {g}
      BY <1>1 DEF BeginCreate
    <2> QED
      BY <1>1, <2>1 DEF BeginCreate, Asks, Job, Op
  <1>2. ASSUME NEW r \in Request, BeginChange(r) PROVE TypeOK'
    <2>1. PICK g \in Gathering, op \in {"update", "delete", "invite"},
               archived \in BOOLEAN :
            /\ rows[g] # NoRow /\ Asks(r, op, g, archived)
            /\ loaded' = [loaded EXCEPT ![r] = rows[g]]
            /\ UNCHANGED unused
      BY <1>2, ChangeCases
    <2> QED
      BY <2>1 DEF Asks, Job, Op
  <1>3. ASSUME NEW r \in Request, BeginRsvp(r) PROVE TypeOK'
    BY <1>3 DEF BeginRsvp, Asks, Job, Op
  <1>4. ASSUME NEW r \in Request, Fails(r) PROVE TypeOK'
    BY <1>4 DEF Fails, Fail, Release, Target, Holds
  <1>5. ASSUME NEW r \in Request, InsertGathering(r) PROVE TypeOK'
    BY <1>5 DEF InsertGathering, Write, FreshRow, Row, Token, Target
  <1>6. ASSUME NEW r \in Request, SkipUpdate(r) PROVE TypeOK'
    BY <1>6 DEF SkipUpdate
  <1>7. ASSUME NEW r \in Request, UpdateRow(r) PROVE TypeOK'
    <2>1. job[r] \in Job
      BY <1>7 DEF UpdateRow, SessionOK, Running
    <2>2. Updated(r) \in Row
      BY <1>7, <2>1, UpdatedTyped DEF UpdateRow
    <2> QED
      BY <1>7, <2>2 DEF UpdateRow, Write
  <1>8. ASSUME NEW r \in Request, DeleteRow(r) PROVE TypeOK'
    BY <1>8 DEF DeleteRow, Write
  <1>9. ASSUME NEW r \in Request, InsertRsvp(r) PROVE TypeOK'
    BY <1>9 DEF InsertRsvp
  <1>10. ASSUME NEW r \in Request, Refresh(r) PROVE TypeOK'
    <2>1. Target(r) \in Gathering
      BY <1>10 DEF Refresh, SessionOK, Running, Job, Target
    <2>2. Visible(r) \in Row
      BY <1>10, <2>1 DEF Refresh, Visible
    <2> QED
      BY <1>10, <2>2 DEF Refresh
  <1>11. ASSUME NEW r \in Request, Commit(r) PROVE TypeOK'
    <2>1. Target(r) \in Gathering
      BY <1>11 DEF Commit, SessionOK, Running, Job, Target
    <2>2. Visible(r) \in Row \cup {NoRow}
      BY <2>1 DEF Visible
    <2>3. CommittedGuests(r) \in SUBSET Request
      BY <2>1 DEF CommittedGuests
    <2>4. reopened' \in BOOLEAN
      BY <1>11 DEF Commit, IsActive
    <2> QED
      BY <1>11, <2>2, <2>3, <2>4 DEF Commit, Release
  <1>12. CASE UNCHANGED vars
    BY <1>12 DEF vars
  <1> QED
    BY <1>1, <1>2, <1>3, <1>4, <1>5, <1>6, <1>7, <1>8, <1>9, <1>10, <1>11, <1>12,
       StepCases DEF Step

LEMMA SessionStep ==
  ASSUME IInv, NEW r \in Request, Step(r)
  PROVE  SessionOK'
  <1> USE DEF IInv, SessionOK, Running, Over
  <1>1. /\ phase[r] \notin Over
        /\ \A q \in Request : q # r =>
             UNCHANGED <<phase[q], job[q], loaded[q], before[q]>>
    BY RequestStep
  <1>2. \A q \in Request : before'[q] \subseteq {p \in Request : phase'[p] \in Over}
    <2>1. before'[r] = before[r] \/ before'[r] = {q \in Request : phase[q] \in Over}
      BY DEF Step, TypeOK, BeginCreate, BeginChange, BeginRsvp, Asks, Fails, Fail,
             InsertGathering, SkipUpdate, UpdateRow, DeleteRow, InsertRsvp, Refresh,
             Commit
    <2> QED
      BY <1>1, <2>1
  <1>3. /\ phase'[r] # "new"
        /\ phase'[r] \in Running \cup {"done"} => job'[r] \in Job
        /\ phase'[r] = "refresh" => Does(r, {"create", "update", "invite"})'
        /\ Does(r, {"update", "invite"})' => loaded'[r] \in Row
    <2> USE DEF TypeOK, Goto, Does
    <2>1. CASE BeginCreate(r)
      BY <2>1 DEF BeginCreate, Asks, Job, Op
    <2>2. CASE BeginChange(r)
      <3>1. PICK g \in Gathering, op \in {"update", "delete", "invite"},
                 archived \in BOOLEAN :
              /\ rows[g] # NoRow /\ Asks(r, op, g, archived)
              /\ loaded' = [loaded EXCEPT ![r] = rows[g]]
        BY <2>2, ChangeCases
      <3> QED
        BY <3>1 DEF Asks, Job, Op
    <2>3. CASE BeginRsvp(r)
      BY <2>3 DEF BeginRsvp, Asks, Job, Op
    <2>4. CASE Fails(r)
      BY <2>4 DEF Fails, Fail
    <2>5. CASE InsertGathering(r)
      BY <2>5 DEF InsertGathering
    <2>6. CASE SkipUpdate(r)
      BY <2>6 DEF SkipUpdate
    <2>7. CASE UpdateRow(r)
      BY <2>7 DEF UpdateRow
    <2>8. CASE DeleteRow(r)
      BY <2>8 DEF DeleteRow
    <2>9. CASE InsertRsvp(r)
      BY <2>9 DEF InsertRsvp
    <2>10. CASE Refresh(r)
      <3>1. Visible(r) \in Row
        BY <2>10 DEF Refresh, Visible, Target, Job
      <3> QED
        BY <2>10, <3>1 DEF Refresh
    <2>11. CASE Commit(r)
      BY <2>11 DEF Commit
    <2> QED
      BY <2>1, <2>2, <2>3, <2>4, <2>5, <2>6, <2>7, <2>8, <2>9, <2>10, <2>11 DEF Step
  <1> QED
    BY <1>1, <1>2, <1>3 DEF Does

(* Only a commit changes what is committed, and only by a draft. *)
LEMMA RowsStep ==
  ASSUME IInv, NEW r \in Request, Step(r)
  PROVE  /\ \A g \in Gathering :
              \/ rows'[g] = rows[g]
              \/ Commit(r) /\ Target(r) = g /\ lock[g] = r /\ rows'[g] = draft[g]
         /\ ~Commit(r) => UNCHANGED <<rows, guests, reopened>>
         /\ UNCHANGED premium
  <1>1. CASE Commit(r)
    <2>1. Visible(r) # rows[Target(r)] => Visible(r) = draft[Target(r)] /\ Holds(r)
      BY DEF Visible
    <2> QED
      BY <1>1, <2>1 DEF Commit, IInv, TypeOK, Holds
  <1>2. CASE ~Commit(r)
    <2>1. UNCHANGED <<premium, rows, guests, reopened>>
      <3>1. CASE BeginCreate(r) \/ BeginRsvp(r)
        BY <3>1 DEF BeginCreate, BeginRsvp, Asks
      <3>2. CASE BeginChange(r)
        BY <3>2, ChangeCases DEF Asks
      <3> QED
        BY <1>2, <3>1, <3>2 DEF Step, data, Fails, Fail, InsertGathering, SkipUpdate,
           UpdateRow, DeleteRow, InsertRsvp, Refresh
    <2> QED
      BY <2>1
  <1> QED
    BY <1>1, <1>2

(* A step takes or releases the row of its own request only. *)
LEMMA LocksStep ==
  ASSUME IInv, NEW r \in Request, Step(r)
  PROVE  \A g \in Gathering :
           /\ \/ lock'[g] = lock[g] /\ draft'[g] = draft[g]
              \/ lock[g] = r /\ lock'[g] = NoRequest
              \/ /\ lock'[g] = r /\ job[r] # NoJob /\ Target(r) = g
                 /\ \/ InsertGathering(r) /\ draft'[g] = FreshRow
                    \/ UpdateRow(r) /\ draft'[g] = Updated(r)
                    \/ DeleteRow(r) /\ Visible(r) # NoRow /\ draft'[g] = NoRow
           /\ Commit(r) \/ Fails(r) => lock'[g] # r
  <1> USE DEF IInv, TypeOK
  <1>1. CASE Fails(r) \/ Commit(r)
    <2>1. Release(r)
      BY <1>1 DEF Fails, Fail, Commit
    <2> QED
      BY <1>1, <2>1 DEF Release, Holds, LockOK, HolderOK, locks, InsertGathering, UpdateRow,
         DeleteRow, Write
  <1>2. CASE InsertGathering(r)
    BY <1>2 DEF InsertGathering, Write, Does, Fails, Fail, Commit, Goto, Over
  <1>3. CASE UpdateRow(r)
    BY <1>3 DEF UpdateRow, Write, Does, Fails, Fail, Commit, Goto, Over
  <1>4. CASE DeleteRow(r)
    BY <1>4 DEF DeleteRow, Write, Does, Fails, Fail, Commit, Goto, Over, locks
  <1>5. CASE BeginCreate(r) \/ BeginRsvp(r) \/ BeginChange(r)
    <2>1. UNCHANGED locks /\ phase'[r] = "flush"
      BY <1>5, ChangeCases DEF BeginCreate, BeginRsvp, Asks, Goto
    <2> QED
      BY <2>1 DEF locks, Fails, Fail, Commit, Goto
  <1>6. CASE SkipUpdate(r) \/ InsertRsvp(r) \/ Refresh(r)
    BY <1>6 DEF SkipUpdate, InsertRsvp, Refresh, Fails, Fail, Commit, Goto, locks
  <1> QED
    BY <1>1, <1>2, <1>3, <1>4, <1>5, <1>6 DEF Step

(* What an arriving request finds, and asks for. *)
LEMMA ArrivalStep ==
  ASSUME IInv, NEW r \in Request, BeginCreate(r) \/ BeginChange(r) \/ BeginRsvp(r)
  PROVE  /\ UNCHANGED <<premium, rows, guests, reopened, lock, draft>>
         /\ phase[r] = "new" /\ phase'[r] = "flush" /\ job'[r] \in Job
         /\ before'[r] = {q \in Request : phase[q] \in Over}
         /\ \/ /\ BeginCreate(r) /\ Does(r, {"create"})' /\ WithinLimit
               /\ Target(r)' \in unused /\ unused' = unused \ {Target(r)'}
            \/ /\ ~Does(r, {"create"})' /\ rows[Target(r)'] # NoRow
               /\ loaded'[r] = rows[Target(r)'] /\ unused' = unused
  <1> USE DEF TypeOK, Does, Target, Goto, locks
  <1> TypeOK
    BY DEF IInv
  <1>1. CASE BeginCreate(r)
    <2>1. PICK g \in unused : Asks(r, "create", g, FALSE) /\ unused' = unused \ {g}
      BY <1>1 DEF BeginCreate
    <2>2. /\ job'[r] = [op |-> "create", target |-> g, archived |-> FALSE]
          /\ job'[r] \in Job
      BY <2>1 DEF Asks, Job, Op
    <2>3. Does(r, {"create"})' /\ Target(r)' = g
      <3>1. job'[r] # NoJob
        BY <2>2, NoJobAssumption
      <3>2. job'[r].op = "create" /\ job'[r].target = g
        BY <2>2
      <3> QED
        BY <3>1, <3>2
    <2>4. WithinLimit
      BY <1>1 DEF BeginCreate
    <2> HIDE DEF Does, Target
    <2> QED
      BY <1>1, <2>1, <2>2, <2>3, <2>4 DEF Asks
  <1>2. CASE BeginChange(r)
    <2>1. PICK g \in Gathering, op \in {"update", "delete", "invite"},
               archived \in BOOLEAN :
            /\ rows[g] # NoRow /\ Asks(r, op, g, archived)
            /\ loaded' = [loaded EXCEPT ![r] = rows[g]]
            /\ UNCHANGED unused
      BY <1>2, ChangeCases
    <2>2. /\ job'[r] = [op |-> op, target |-> g, archived |-> archived]
          /\ job'[r] \in Job
      BY <2>1 DEF Asks, Job, Op
    <2> QED
      BY <2>1, <2>2 DEF Asks
  <1>3. CASE BeginRsvp(r)
    <2>1. PICK g \in Gathering :
            /\ rows[g] # NoRow /\ Asks(r, "rsvp", g, FALSE)
            /\ loaded' = [loaded EXCEPT ![r] = rows[g]]
            /\ UNCHANGED unused
      BY <1>3 DEF BeginRsvp
    <2>2. /\ job'[r] = [op |-> "rsvp", target |-> g, archived |-> FALSE]
          /\ job'[r] \in Job
      BY <2>1 DEF Asks, Job, Op
    <2> QED
      BY <2>1, <2>2 DEF Asks
  <1> QED
    BY <1>1, <1>2, <1>3

(* A request that has arrived keeps its job. *)
LEMMA JobStep ==
  ASSUME IInv, NEW r \in Request, Step(r), phase[r] # "new"
  PROVE  UNCHANGED <<job, before, unused>>
  BY ChangeCases DEF Step, BeginCreate, BeginChange, BeginRsvp, Asks, Fails, Fail, data,
     InsertGathering, SkipUpdate, UpdateRow, DeleteRow, InsertRsvp, Refresh, Commit

LEMMA LockStep ==
  ASSUME IInv, NEW r \in Request, Step(r)
  PROVE  LockOK'
  <1> SUFFICES ASSUME NEW g \in Gathering, lock'[g] # NoRequest
               PROVE  HolderOK(lock[g], g)'
    BY DEF LockOK
  <1>1. lock'[g] # NoRequest /\ lock'[g] = lock[g] /\ draft'[g] = draft[g] =>
          HolderOK(lock[g], g)'
    <2> SUFFICES ASSUME lock'[g] = lock[g], draft'[g] = draft[g]
                 PROVE  HolderOK(lock[g], g)'
      OBVIOUS
    <2>1. PICK h \in Request : h = lock[g] /\ HolderOK(h, g)
      BY DEF IInv, LockOK, HolderOK
    <2>2. lock'[g] = r => ~Commit(r) /\ ~Fails(r)
      BY LocksStep
    <2>3. rows'[g] = rows[g]
      BY <2>2, RowsStep
    <2>4. CASE h # r
      <3>1. UNCHANGED <<phase[h], job[h], loaded[h]>>
        BY <2>1, <2>4, RequestStep DEF HolderOK, IInv
      <3>2. HolderOK(h, g)'
        BY <2>1, <2>3, <3>1 DEF HolderOK, Does, Target
      <3> QED
        BY <2>1, <3>2
    <2>5. CASE h = r
      <3>1. Refresh(r)
        BY <2>1, <2>2, <2>5 DEF HolderOK, Step, BeginCreate, BeginChange, BeginRsvp, Asks,
           InsertGathering, SkipUpdate, UpdateRow, DeleteRow, InsertRsvp
      <3>2. loaded'[r] = draft[g] /\ phase'[r] = "commit" /\ job' = job
        BY <2>1, <2>5, <3>1 DEF Refresh, Visible, Holds, HolderOK, Goto, IInv, TypeOK, Job
      <3>3. HolderOK(r, g)'
        BY <2>1, <2>3, <2>5, <3>2 DEF HolderOK, Does, Target
      <3> QED
        BY <2>1, <2>5, <3>3
    <2> QED
      BY <2>4, <2>5
  <1>2. CASE lock'[g] = r /\ job[r] # NoJob /\ Target(r) = g /\ InsertGathering(r)
             /\ draft'[g] = FreshRow
    <2>1. rows[g] = NoRow /\ rows' = rows /\ job' = job /\ phase'[r] = "refresh"
      BY <1>2 DEF InsertGathering, IInv, IdsOK, Running, data, Goto, TypeOK
    <2> QED
      BY <1>2, <2>1 DEF HolderOK, InsertGathering, Does, Target, IInv, TypeOK
  <1>3. CASE lock'[g] = r /\ job[r] # NoJob /\ Target(r) = g /\ UpdateRow(r)
             /\ draft'[g] = Updated(r)
    <2>1. /\ rows' = rows /\ job' = job /\ phase'[r] = "refresh" /\ job[r] \in Job
          /\ Does(r, {"update", "invite"}) /\ Visible(r) # NoRow
      BY <1>3 DEF UpdateRow, data, Goto, IInv, TypeOK
    <2>2. lock[g] # r
      BY <1>3 DEF UpdateRow, IInv, LockOK, HolderOK
    <2>3. Visible(r) = rows[g] /\ rows[g] \in Row
      BY <1>3, <2>1, <2>2 DEF Visible, Holds, IInv, TypeOK
    <2>4. /\ draft'[g] \in Row
          /\ Does(r, {"update"}) => draft'[g].token = rows[g].token
          /\ ~Does(r, {"update"}) => /\ draft'[g].token = r
                                     /\ draft'[g].archived = rows[g].archived
      BY <1>3, <2>1, <2>3 DEF Updated, Row, Token, Job
    <2> QED
      BY <1>3, <2>1, <2>3, <2>4 DEF HolderOK, Does, Target
  <1>4. CASE lock'[g] = r /\ job[r] # NoJob /\ Target(r) = g /\ DeleteRow(r)
             /\ Visible(r) # NoRow /\ draft'[g] = NoRow
    <2>1. /\ rows' = rows /\ job' = job /\ phase'[r] = "commit" /\ job[r] \in Job
          /\ Does(r, {"delete"})
      BY <1>4 DEF DeleteRow, data, Goto, IInv, TypeOK
    <2>2. lock[g] # r
      BY <1>4 DEF DeleteRow, IInv, LockOK, HolderOK
    <2>3. rows[g] # NoRow
      BY <1>4, <2>2 DEF Visible, Holds
    <2> QED
      BY <1>4, <2>1, <2>3 DEF HolderOK, Does, Target
  <1> QED
    BY <1>1, <1>2, <1>3, <1>4, LocksStep

(* Whoever holds a row, or will commit one, has a job. *)
LEMMA JobOf ==
  ASSUME IInv, NEW r \in Request, phase[r] \in Running
  PROVE  /\ job[r] \in Job /\ job[r] # NoJob /\ Target(r) \in Gathering
         /\ phase[r] # "new" /\ Target(r) \notin unused
  <1>1. job[r] \in Job
    BY DEF IInv, SessionOK
  <1>2. job[r] # NoJob /\ Target(r) \in Gathering
    BY <1>1 DEF Job, Target
  <1> QED
    BY <1>1, <1>2 DEF IInv, IdsOK, Running

LEMMA IdsStep ==
  ASSUME IInv, NEW r \in Request, Step(r)
  PROVE  IdsOK'
  <1>1. ASSUME NEW g \in unused'
        PROVE  /\ rows'[g] = NoRow /\ lock'[g] = NoRequest
               /\ \A q \in Request : job'[q] # NoJob => Target(q)' # g
    <2>1. CASE phase[r] = "new" /\ ~Fails(r)
      <3>1. BeginCreate(r) \/ BeginChange(r) \/ BeginRsvp(r)
        BY <2>1 DEF Step, InsertGathering, SkipUpdate, UpdateRow, DeleteRow, InsertRsvp,
           Refresh, Commit
      <3>2. g \in unused /\ g # Target(r)'
        BY <1>1, <3>1, ArrivalStep DEF IInv, IdsOK
      <3> QED
        BY <3>1, <3>2, ArrivalStep, RequestStep DEF IInv, IdsOK, Target
    <2>2. CASE phase[r] # "new" \/ Fails(r)
      <3>1. UNCHANGED <<job, unused>>
        BY <2>2, JobStep DEF Fails, Fail, data
      <3>2. g \in Gathering /\ rows[g] = NoRow /\ lock[g] = NoRequest
        BY <1>1, <3>1 DEF IInv, IdsOK, TypeOK
      <3>3. rows'[g] = NoRow
        BY <3>2, RowsStep
      <3>4. lock'[g] = NoRequest
        BY <1>1, <3>1, <3>2, LocksStep DEF IInv, IdsOK
      <3> QED
        BY <1>1, <3>1, <3>3, <3>4 DEF IInv, IdsOK, Target
    <2> QED
      BY <2>1, <2>2
  <1>2. ASSUME NEW p \in Request, Does(p, {"create"})', phase'[p] \in Running
        PROVE  /\ rows'[Target(p)'] = NoRow
               /\ phase'[p] = "flush" => lock'[Target(p)'] = NoRequest
               /\ phase'[p] # "flush" => lock'[Target(p)'] = p
               /\ \A q \in Request : q # p /\ job'[q] # NoJob => Target(q)' # Target(p)'
    <2>1. CASE p # r
      <3>1. UNCHANGED <<phase[p], job[p]>> /\ Target(p)' = Target(p)
        BY <2>1, RequestStep DEF IInv, Target
      <3>2. PICK g \in Gathering : g = Target(p) /\ g \notin unused
        BY <1>2, <3>1, JobOf
      <3>3. /\ rows[g] = NoRow
            /\ phase[p] = "flush" => lock[g] = NoRequest
            /\ phase[p] # "flush" => lock[g] = p
            /\ \A q \in Request : q # p /\ job[q] # NoJob => Target(q) # g
        BY <1>2, <3>1, <3>2 DEF IInv, IdsOK, Does
      <3>4. rows'[g] = NoRow /\ lock'[g] = lock[g]
        <4>1. lock[g] # r
          BY <2>1, <3>3 DEF IInv, SessionOK, Running, HolderOK, LockOK
        <4>2. job[r] # NoJob => Target(r) # g
          BY <2>1, <3>3
        <4> QED
          BY <3>3, <4>1, <4>2, RowsStep, LocksStep
      <3>5. ASSUME NEW q \in Request, q # p, job'[q] # NoJob PROVE Target(q)' # g
        <4>1. CASE q # r \/ UNCHANGED job[r]
          BY <3>3, <3>5, <4>1, RequestStep DEF IInv, Target
        <4>2. CASE q = r /\ ~UNCHANGED job[r]
          <5>1. BeginCreate(r) \/ BeginChange(r) \/ BeginRsvp(r)
            BY <4>2 DEF Step, Fails, Fail, InsertGathering, SkipUpdate, UpdateRow,
               DeleteRow, InsertRsvp, Refresh, Commit
          <5>2. Target(r)' \in unused \/ rows[Target(r)'] # NoRow
            BY <5>1, ArrivalStep
          <5> QED
            BY <3>2, <3>3, <4>2, <5>2
        <4> QED
          BY <4>1, <4>2
      <3> QED
        BY <3>1, <3>2, <3>3, <3>4, <3>5
    <2>2. CASE p = r /\ phase[r] = "new"
      <3>1. BeginCreate(r) \/ BeginChange(r) \/ BeginRsvp(r)
        BY <1>2, <2>2 DEF Step, InsertGathering, SkipUpdate, UpdateRow, DeleteRow,
           InsertRsvp, Refresh, Commit, Fails, Fail, Goto, IInv, TypeOK, Running
      <3>2. PICK g \in unused : g = Target(r)' /\ UNCHANGED <<rows, lock>>
        BY <1>2, <2>2, <3>1, ArrivalStep
      <3>3. phase'[r] = "flush"
        BY <3>1, ArrivalStep
      <3> QED
        BY <2>2, <3>2, <3>3, RequestStep DEF IInv, IdsOK, Target
    <2>3. CASE p = r /\ phase[r] # "new"
      <3>1. job' = job
        BY <2>3, JobStep
      <3>2. phase[r] \in Running /\ Does(r, {"create"})
        BY <1>2, <2>3, <3>1, RequestStep DEF Does, Over, Running, IInv, TypeOK, Phase
      <3>3. PICK g \in Gathering : g = Target(r) /\ g = Target(r)'
        BY <3>1, <3>2, JobOf DEF Target
      <3>4. /\ rows[g] = NoRow
            /\ phase[r] # "flush" => lock[g] = r
            /\ \A q \in Request : q # r /\ job[q] # NoJob => Target(q) # g
        BY <3>2, <3>3 DEF IInv, IdsOK
      <3>5. InsertGathering(r) \/ Refresh(r)
        <4>1. job[r].op = "create"
          BY <3>2 DEF Does
        <4> QED
          BY <1>2, <2>3, <4>1 DEF Step, BeginCreate, BeginChange, BeginRsvp, Asks, Fails,
             Fail, Commit, SkipUpdate, UpdateRow, DeleteRow, InsertRsvp, Goto, IInv,
             TypeOK, Running, Does, WritesNothing
      <3>6. rows' = rows /\ lock'[g] = r /\ phase'[r] # "flush"
        BY <3>3, <3>4, <3>5 DEF InsertGathering, Refresh, Write, data, locks, Goto, IInv,
           TypeOK
      <3> QED
        BY <2>3, <3>1, <3>3, <3>4, <3>6 DEF Target
    <2> QED
      BY <2>1, <2>2, <2>3
  <1> QED
    BY <1>1, <1>2 DEF IdsOK

(* An RSVP that has been flushed but not committed keeps its gathering. *)
LEMMA SharingStep ==
  ASSUME IInv, NEW r \in Request, Step(r)
  PROVE  SharingOK'
  <1> SUFFICES ASSUME NEW g \in Gathering, NEW q \in Request, Does(q, {"rsvp"})',
                      phase'[q] = "commit", Target(q)' = g
               PROVE  /\ rows'[g] # NoRow
                      /\ lock'[g] # NoRequest => Does(lock[g], {"update"})'
    BY DEF SharingOK, Sharing
  <1>1. CASE q # r
    <2>1. q \in Sharing(g)
      BY <1>1, RequestStep DEF IInv, Sharing, Does, Target
    <2>2. rows[g] # NoRow /\ (lock[g] # NoRequest => Does(lock[g], {"update"}))
      BY <2>1 DEF IInv, SharingOK
    <2>3. rows'[g] # NoRow
      <3> SUFFICES ASSUME lock[g] = r, rows'[g] = draft[g] PROVE rows'[g] # NoRow
        BY <2>2, RowsStep
      <3> QED
        BY <2>2 DEF IInv, LockOK, HolderOK
    <2>4. ASSUME lock'[g] = lock[g], lock'[g] # NoRequest PROVE Does(lock[g], {"update"})'
      <3>1. PICK h \in Request : h = lock[g] /\ Does(h, {"update"}) /\ phase[h] # "new"
        BY <2>2, <2>4 DEF IInv, LockOK, HolderOK
      <3>2. job'[h] = job[h]
        BY <3>1, RequestStep, JobStep DEF IInv
      <3> QED
        BY <2>4, <3>1, <3>2 DEF Does
    <2>5. ASSUME lock'[g] = r, job[r] # NoJob, Target(r) = g,
                 InsertGathering(r) \/ UpdateRow(r) \/ DeleteRow(r)
          PROVE  Does(lock[g], {"update"})'
      <3>1. phase[r] = "flush" /\ job' = job
        BY <2>5 DEF InsertGathering, UpdateRow, DeleteRow
      <3>2. ~InsertGathering(r)
        BY <2>2, <2>5, <3>1 DEF InsertGathering, IInv, IdsOK, Running
      <3>3. CanWrite(r)
        BY <2>5, <3>2 DEF UpdateRow, DeleteRow
      <3>4. ~ChangesKey(r)
        BY <2>1, <2>5, <3>3 DEF CanWrite
      <3>5. Does(r, {"update"})
        BY <2>5, <3>2, <3>4 DEF UpdateRow, DeleteRow, ChangesKey, Does
      <3> QED
        BY <2>5, <3>1, <3>5 DEF Does
    <2> QED
      BY <2>3, <2>4, <2>5, <2>2, LocksStep
  <1>2. CASE q = r
    <2>1. InsertRsvp(r)
      <3>1. phase[r] # "new"
        BY <1>2, ArrivalStep DEF Step, InsertGathering, SkipUpdate, UpdateRow, DeleteRow,
           InsertRsvp, Refresh, Commit, Fails, Fail, Goto, IInv, TypeOK
      <3>2. Does(r, {"rsvp"})
        BY <1>2, <3>1, JobStep DEF Does
      <3>3. ~Refresh(r)
        BY <3>2 DEF Refresh, IInv, SessionOK, Does
      <3> QED
        BY <1>2, <3>1, <3>2, <3>3 DEF Step, BeginCreate, BeginChange, BeginRsvp, Asks,
           InsertGathering, SkipUpdate, UpdateRow, DeleteRow, Commit, Fails, Fail, Goto,
           IInv, TypeOK, Does, WritesNothing
    <2>2. /\ Target(r) = g /\ job' = job /\ UNCHANGED <<rows, lock>>
          /\ rows[g] # NoRow /\ CanShare(r)
      BY <1>2, <2>1 DEF InsertRsvp, data, locks, Target
    <2>3. ASSUME lock[g] # NoRequest PROVE Does(lock[g], {"update"})
      <3>1. PICK h \in Request : h = lock[g] /\ HolderOK(h, g) /\ ~ChangesKey(h)
        BY <2>2, <2>3 DEF CanShare, IInv, LockOK, HolderOK
      <3>2. job[h] \in Job /\ job[h] # NoJob
        BY <3>1 DEF HolderOK
      <3>3. job[h].op \in Op
        BY <3>2 DEF Job
      <3> QED
        BY <2>2, <3>1, <3>2, <3>3 DEF HolderOK, ChangesKey, Does, Op
    <2> QED
      BY <2>2, <2>3 DEF Does
  <1> QED
    BY <1>1, <1>2

LEMMA GuestsStep ==
  ASSUME IInv, NEW r \in Request, Step(r)
  PROVE  GuestsAnswered'
  <1> DEFINE Answers(g) == {q \in Request : Succeeded(q, "rsvp") /\ Target(q) = g}
  <1>1. ASSUME NEW g \in Gathering PROVE guests[g] = IF rows[g] = NoRow THEN {} ELSE Answers(g)
    BY DEF IInv, GuestsAnswered
  <1>2. ~Succeeded(r, "rsvp")
    BY RequestStep DEF IInv, Succeeded, Over
  <1>3. ASSUME NEW q \in Request, q # r
        PROVE  Target(q)' = Target(q) /\ Succeeded(q, "rsvp")' = Succeeded(q, "rsvp")
    BY <1>3, RequestStep DEF IInv, Succeeded, Target, Does
  <1>4. CASE ~Commit(r)
    <2>1. phase'[r] # "done"
      BY <1>4, ArrivalStep DEF Step, Fails, Fail, InsertGathering, SkipUpdate, UpdateRow,
         DeleteRow, InsertRsvp, Refresh, Goto, IInv, TypeOK
    <2>2. ASSUME NEW g \in Gathering PROVE Answers(g)' = Answers(g)
      BY <1>2, <1>3, <2>1 DEF Succeeded
    <2> QED
      BY <1>1, <1>4, <2>2, RowsStep DEF GuestsAnswered
  <1>5. CASE Commit(r)
    <2>1. PICK t \in Gathering : t = Target(r) /\ job[r] \in Job /\ job[r] # NoJob
      BY <1>5, JobOf DEF Commit, Running
    <2>2. /\ job' = job /\ phase[r] = "commit" /\ phase'[r] = "done"
          /\ guests' = [guests EXCEPT ![t] = CommittedGuests(r)]
          /\ rows' = [rows EXCEPT ![t] = Visible(r)]
      BY <1>5, <2>1 DEF Commit, Goto, IInv, TypeOK
    <2>3. Target(r)' = t
      BY <2>1, <2>2 DEF Target
    <2>4. ASSUME NEW g \in Gathering, g # t
          PROVE  guests'[g] = IF rows'[g] = NoRow THEN {} ELSE Answers(g)'
      <3>1. Answers(g)' = Answers(g)
        BY <1>2, <1>3, <2>1, <2>3, <2>4
      <3> QED
        BY <1>1, <2>2, <2>4, <3>1 DEF IInv, TypeOK
    <2>5. guests'[t] = IF rows'[t] = NoRow THEN {} ELSE Answers(t)'
      <3>1. guests'[t] = CommittedGuests(r) /\ rows'[t] = Visible(r)
        BY <2>2 DEF IInv, TypeOK
      <3>2. CASE Does(r, {"rsvp"})
        <4>1. Answers(t)' = Answers(t) \cup {r}
          BY <1>2, <1>3, <2>1, <2>2, <2>3, <3>2 DEF Succeeded, Does
        <4>2. rows[t] # NoRow
          BY <2>1, <2>2, <3>2 DEF IInv, SharingOK, Sharing
        <4>3. ~Holds(r)
          BY <2>1, <3>2 DEF Holds, IInv, LockOK, HolderOK
        <4>4. CommittedGuests(r) = guests[t] \cup {r}
          BY <2>1, <3>2, <4>3 DEF CommittedGuests
        <4> QED
          BY <1>1, <2>1, <3>1, <4>1, <4>2, <4>3, <4>4 DEF Visible
      <3>3. CASE ~Does(r, {"rsvp"})
        <4>1. Answers(t)' = Answers(t)
          BY <1>2, <1>3, <2>2, <3>3 DEF Succeeded, Does
        <4>2. CASE ~Holds(r)
          <5>1. CommittedGuests(r) = guests[t] /\ Visible(r) = rows[t]
            BY <2>1, <3>3, <4>2 DEF CommittedGuests, Visible
          <5> QED
            BY <1>1, <3>1, <4>1, <5>1
        <4>3. CASE Holds(r)
          <5>1. HolderOK(r, t) /\ Visible(r) = draft[t]
            BY <2>1, <4>3 DEF Holds, Visible, IInv, LockOK
          <5>2. CASE Does(r, {"delete"})
            BY <3>1, <4>3, <5>1, <5>2 DEF CommittedGuests, HolderOK
          <5>3. CASE Does(r, {"create"})
            <6>1. rows[t] = NoRow /\ CommittedGuests(r) = guests[t]
              BY <2>1, <3>3, <5>1, <5>3 DEF HolderOK, CommittedGuests, Does
            <6>2. Answers(t) = {}
              BY <1>2, <2>1, <2>2, <5>3 DEF IInv, IdsOK, Running, Succeeded, Does
            <6> QED
              BY <1>1, <3>1, <4>1, <6>1, <6>2
          <5>4. CASE Does(r, {"update", "invite"})
            <6>1. rows[t] # NoRow /\ draft[t] # NoRow
              BY <5>1, <5>4 DEF HolderOK, Does
            <6>2. CommittedGuests(r) = guests[t]
              BY <2>1, <3>3, <5>4 DEF CommittedGuests, Does
            <6> QED
              BY <1>1, <3>1, <4>1, <5>1, <6>1, <6>2
          <5>5. job[r].op \in Op
            BY <2>1 DEF Job
          <5> QED
            BY <2>1, <3>3, <5>2, <5>3, <5>4, <5>5 DEF Does, Op
        <4> QED
          BY <4>2, <4>3
      <3> QED
        BY <3>2, <3>3
    <2> QED
      BY <2>4, <2>5 DEF GuestsAnswered
  <1> QED
    BY <1>4, <1>5

(* The token of a row is a request. *)
LEMMA TokenTyped ==
  ASSUME NEW row \in Row, HasToken(row) PROVE row.token \in Request
  BY DEF HasToken, Row, Token

(* Nothing a request that is over has written or been answered changes. *)
LEMMA InvitedStays ==
  ASSUME IInv, NEW r \in Request, Step(r), NEW t \in Request, NEW g \in Gathering,
         Invited(t, g)
  PROVE  t # r /\ Invited(t, g)' /\ (Writer(t) => Writer(t)')
  <1>1. t # r
    BY RequestStep DEF IInv, Invited, Succeeded, Over
  <1>2. UNCHANGED <<phase[t], job[t], loaded[t]>>
    BY <1>1, RequestStep DEF IInv
  <1> QED
    BY <1>1, <1>2 DEF Invited, Succeeded, Does, Target, Writer, HasToken

(* The rows as their links see them: a row keeps its link, goes, or is     *)
(* given the link of the request that commits.                             *)
LEMMA LinksStep ==
  ASSUME IInv, NEW r \in Request, Step(r), NEW g \in Gathering, rows'[g] # NoRow
  PROVE  \/ rows[g] # NoRow /\ rows'[g].token = rows[g].token
         \/ /\ rows[g] = NoRow /\ ~HasToken(rows[g])' /\ Commit(r) /\ Target(r) = g
            /\ Does(r, {"create"})
         \/ /\ rows'[g].token = r /\ Commit(r) /\ Target(r) = g
            /\ Does(r, {"invite"}) /\ loaded[r].token = r
  <1> SUFFICES ASSUME Commit(r), Target(r) = g, lock[g] = r, rows'[g] = draft[g]
               PROVE  \/ rows[g] # NoRow /\ draft[g].token = rows[g].token
                      \/ /\ rows[g] = NoRow /\ ~HasToken(draft[g])
                         /\ Does(r, {"create"})
                      \/ /\ draft[g].token = r /\ Does(r, {"invite"})
                         /\ loaded[r].token = r
    BY RowsStep DEF HasToken
  <1>1. HolderOK(r, g) /\ phase[r] = "commit"
    BY DEF IInv, LockOK, Commit
  <1>2. job[r] # NoJob /\ job[r].op \in Op
    BY <1>1 DEF HolderOK, Job
  <1> QED
    BY <1>1, <1>2 DEF HolderOK, Does, Op, HasToken, FreshRow

(* The way of an invite. *)
InviteArrives(r) ==
  /\ phase[r] = "new" /\ phase'[r] = "flush" /\ Target(r)' \in Gathering
  /\ rows[Target(r)'] # NoRow /\ loaded'[r] = rows[Target(r)']
  /\ before'[r] = {q \in Request : phase[q] \in Over}
InviteGoesOn(r) ==
  /\ job'[r] = job[r] /\ before'[r] = before[r] /\ Does(r, {"invite"})
  /\ job[r] \in Job /\ Target(r) \in Gathering /\ loaded[r] \in Row
  /\ \/ /\ phase[r] = "flush" /\ phase'[r] = "commit"
        /\ HasToken(loaded[r]) /\ loaded'[r] = loaded[r]
     \/ /\ phase[r] = "flush" /\ phase'[r] = "refresh"
        /\ ~HasToken(loaded[r]) /\ loaded'[r] = loaded[r] /\ Holds(r)'
     \/ /\ phase[r] = "refresh" /\ phase'[r] = "commit"
        /\ loaded'[r] = Visible(r) /\ UNCHANGED lock
     \/ /\ phase[r] = "commit" /\ phase'[r] = "done" /\ loaded'[r] = loaded[r]
        /\ rows'[Target(r)] = Visible(r)

LEMMA InviteStep ==
  ASSUME IInv, NEW r \in Request, Step(r), Does(r, {"invite"})', phase'[r] # "failed"
  PROVE  InviteArrives(r) \/ InviteGoesOn(r)
  <1>1. CASE BeginCreate(r) \/ BeginChange(r) \/ BeginRsvp(r)
    <2>1. job'[r].op = "invite" /\ ~Does(r, {"create"})' /\ job'[r] \in Job
      BY <1>1, ArrivalStep DEF Does
    <2> QED
      BY <1>1, <2>1, ArrivalStep DEF InviteArrives, Job, Target
  <1>2. CASE phase[r] # "new"
    <2>1. /\ job' = job /\ before' = before /\ job[r].op = "invite" /\ job[r] # NoJob
          /\ Does(r, {"invite"})
      BY <1>2, JobStep DEF Does
    <2>2. phase[r] \in Running
      BY <1>2, RequestStep DEF Over, Running, IInv, TypeOK, Phase
    <2>3. job[r] \in Job /\ Target(r) \in Gathering /\ loaded[r] \in Row
      BY <2>1, <2>2, JobOf DEF IInv, SessionOK, Does
    <2> USE <2>1, <2>2, <2>3 DEF IInv, TypeOK, Goto, InviteGoesOn
    <2>9. CASE SkipUpdate(r)
      BY <2>9 DEF SkipUpdate, WritesNothing, Does
    <2>4. CASE UpdateRow(r)
      BY <2>4 DEF UpdateRow, WritesNothing, Does, Holds, Write, Target
    <2>5. CASE Refresh(r)
      BY <2>5 DEF Refresh, locks
    <2>6. CASE Commit(r)
      BY <2>6 DEF Commit
    <2>7. ~Fails(r) /\ ~InsertGathering(r) /\ ~DeleteRow(r) /\ ~InsertRsvp(r)
      BY DEF Fails, Fail, InsertGathering, DeleteRow, InsertRsvp, Does
    <2>8. ~BeginCreate(r) /\ ~BeginChange(r) /\ ~BeginRsvp(r)
      BY <1>2, ArrivalStep
    <2> QED
      BY <2>9, <2>4, <2>5, <2>6, <2>7, <2>8 DEF Step
  <1> QED
    BY <1>1, <1>2 DEF Step, InsertGathering, SkipUpdate, UpdateRow, DeleteRow, InsertRsvp,
       Refresh, Commit, Fails, Fail, Goto, IInv, TypeOK

LEMMA TokensStep ==
  ASSUME IInv, NEW r \in Request, Step(r)
  PROVE  TokensOK'
  <1>1. ASSUME NEW g \in Gathering, rows'[g] # NoRow, HasToken(rows[g])'
        PROVE  Invited(rows[g].token, g)' /\ Writer(rows[g].token)'
    <2>1. CASE rows[g] # NoRow /\ rows'[g].token = rows[g].token
      <3>1. PICK t \in Request : t = rows[g].token
        BY <1>1, <2>1, TokenTyped DEF HasToken, IInv, TypeOK
      <3>2. Invited(t, g) /\ Writer(t)
        BY <1>1, <2>1, <3>1 DEF IInv, TokensOK, HasToken
      <3>3. Invited(t, g)' /\ Writer(t)'
        BY <3>2, InvitedStays
      <3> QED
        BY <2>1, <3>1, <3>3
    <2>2. CASE /\ rows'[g].token = r /\ Commit(r) /\ Target(r) = g
               /\ Does(r, {"invite"}) /\ loaded[r].token = r
      <3>1. Invited(r, g)' /\ Writer(r)'
        BY <2>2 DEF Commit, Invited, Succeeded, Writer, Does, Target, Goto, IInv, TypeOK
      <3> QED
        BY <2>2, <3>1
    <2> QED
      BY <1>1, <2>1, <2>2, LinksStep
  <1>2. ASSUME NEW s \in Request, NEW g \in Gathering, Invited(s, g), rows'[g] # NoRow
        PROVE  HasToken(rows[g])'
    <2>1. job[s] # NoJob
      BY <1>2 DEF Invited, Succeeded, Does
    <2>2. s # r
      BY <1>2, InvitedStays
    <2>3. ~(Commit(r) /\ Does(r, {"create"}) /\ Target(r) = g)
      BY <1>2, <2>1, <2>2 DEF IInv, IdsOK, Commit, Running, Invited
    <2>4. rows[g] # NoRow => HasToken(rows[g])
      BY <1>2 DEF IInv, TokensOK, Invited
    <2> QED
      BY <1>2, <2>3, <2>4, LinksStep DEF HasToken
  <1>3. ASSUME NEW t \in Request, Writer(t), phase[t] \in {"refresh", "commit"}
        PROVE  /\ HolderOK(t, Target(t)) /\ Target(t) \in Gathering
               /\ Visible(t) = draft[Target(t)] /\ draft[Target(t)].token = t
    <2>1. Holds(t) /\ Target(t) \in Gathering
      BY <1>3, JobOf DEF IInv, TokensOK, Running
    <2>2. HolderOK(t, Target(t))
      BY <2>1 DEF Holds, IInv, LockOK
    <2> QED
      BY <1>3, <2>1, <2>2 DEF Visible, HolderOK, Writer
  (* An invite that found a link has not drawn one. *)
  <1>4. ASSUME NEW s \in Request, Does(s, {"invite"}), phase[s] \in Running \cup {"done"},
               ~Writer(s)
        PROVE  \E t \in Request : /\ t = loaded[s].token /\ HasToken(loaded[s])
                                 /\ t # r /\ phase[s] # "refresh"
                                 /\ Invited(t, Target(s)) /\ Writer(t)
                                 /\ Invited(t, Target(s))' /\ Writer(t)'
    <2>1. /\ phase[s] # "refresh" /\ HasToken(loaded[s])
          /\ Invited(loaded[s].token, Target(s)) /\ Writer(loaded[s].token)
      BY <1>4 DEF IInv, TokensOK
    <2>2. loaded[s] \in Row
      BY <1>4 DEF IInv, SessionOK, Does
    <2>3. PICK t \in Request : t = loaded[s].token
      BY <2>1, <2>2, TokenTyped
    <2>4. PICK g \in Gathering : g = Target(s)
      BY <1>4 DEF IInv, SessionOK, Job, Target
    <2>5. Target(s)' = g
      BY <1>4, <2>4, RequestStep, JobStep DEF IInv, Target, Running
    <2>6. t # r /\ Invited(t, g)' /\ Writer(t)'
      BY <2>1, <2>3, <2>4, InvitedStays
    <2> QED
      BY <2>1, <2>3, <2>4, <2>5, <2>6 DEF Invited
  <1>5. ASSUME NEW s \in Request, Succeeded(s, "invite")'
        PROVE  rows'[Target(s)'] = NoRow \/ HasToken(rows[Target(s)])'
    <2>1. CASE s # r
      <3>1. Succeeded(s, "invite") /\ Target(s)' = Target(s)
        BY <1>5, <2>1, RequestStep DEF IInv, Succeeded, Does, Target
      <3>2. Target(s) \in Gathering
        BY <3>1 DEF IInv, SessionOK, Job, Target, Succeeded
      <3> QED
        BY <1>2, <3>1, <3>2 DEF Invited, HasToken
    <2>2. CASE s = r
      <3>1. /\ InviteGoesOn(r) /\ phase[r] = "commit" /\ Target(r)' = Target(r)
            /\ rows'[Target(r)] = Visible(r)
        BY <1>5, <2>2, InviteStep DEF Succeeded, InviteArrives, InviteGoesOn, Target
      <3>2. CASE Writer(r)
        <4>1. rows'[Target(r)].token = r
          BY <1>3, <3>1, <3>2
        <4> QED
          BY <2>2, <3>1, <4>1 DEF HasToken
      <3>3. CASE ~Writer(r)
        <4>1. PICK t \in Request : Invited(t, Target(r))
          BY <1>4, <3>1, <3>3 DEF InviteGoesOn, Running
        <4> QED
          BY <1>2, <2>2, <3>1, <4>1 DEF InviteGoesOn, HasToken
      <3> QED
        BY <3>2, <3>3
    <2> QED
      BY <2>1, <2>2
  <1>6. ASSUME NEW s \in Request, Does(s, {"invite"})', phase'[s] \in Running \cup {"done"}
        PROVE  \/ Writer(s)'
               \/ /\ phase'[s] # "refresh" /\ HasToken(loaded[s])'
                  /\ Invited(loaded[s].token, Target(s))' /\ Writer(loaded[s].token)'
    <2>1. ASSUME loaded'[s] = loaded[s], job'[s] = job[s], Does(s, {"invite"}), ~Writer(s),
                 phase[s] \in Running \cup {"done"}, phase'[s] # "refresh"
          PROVE  /\ phase'[s] # "refresh" /\ HasToken(loaded[s])'
                 /\ Invited(loaded[s].token, Target(s))' /\ Writer(loaded[s].token)'
      <3>1. PICK t \in Request : /\ t = loaded[s].token /\ HasToken(loaded[s])
                                 /\ Invited(t, Target(s))' /\ Writer(t)'
        BY <1>4, <2>1
      <3> QED
        BY <2>1, <3>1 DEF HasToken
    <2>2. CASE s # r
      <3>1. UNCHANGED <<phase[s], job[s], loaded[s]>> /\ Does(s, {"invite"})
        BY <1>6, <2>2, RequestStep DEF IInv, Does
      <3>2. Writer(s) => Writer(s)'
        BY <3>1 DEF Writer, Does, HasToken
      <3>3. ~Writer(s) => phase[s] # "refresh"
        BY <1>4, <1>6, <3>1
      <3> QED
        BY <1>6, <2>1, <3>1, <3>2, <3>3
    <2>3. CASE s = r /\ InviteArrives(r)
      <3>1. PICK g \in Gathering : g = Target(r)' /\ rows[g] # NoRow /\ loaded'[r] = rows[g]
        BY <2>3 DEF InviteArrives
      <3>2. CASE HasToken(rows[g])
        <4>1. PICK t \in Request : t = rows[g].token
          BY <3>1, <3>2, TokenTyped DEF IInv, TypeOK
        <4>2. Invited(t, g) /\ Writer(t)
          BY <3>1, <3>2, <4>1 DEF IInv, TokensOK
        <4>3. Invited(t, g)' /\ Writer(t)'
          BY <4>2, InvitedStays
        <4> QED
          BY <2>3, <3>1, <3>2, <4>1, <4>3 DEF InviteArrives, HasToken
      <3>3. CASE ~HasToken(rows[g])
        BY <1>6, <2>3, <3>1, <3>3 DEF InviteArrives, Writer, HasToken
      <3> QED
        BY <3>2, <3>3
    <2>4. CASE s = r /\ InviteGoesOn(r)
      <3>1. CASE phase[r] = "refresh"
        <4>1. Writer(r)
          BY <2>4, <3>1 DEF Writer, InviteGoesOn
        <4>2. loaded'[r].token = r /\ phase'[r] = "commit"
          BY <1>3, <2>4, <3>1, <4>1 DEF InviteGoesOn
        <4> QED
          BY <1>6, <2>4, <4>2 DEF Writer
      <3>2. CASE phase[r] # "refresh" /\ ~Writer(r)
        BY <2>1, <2>4, <3>2 DEF InviteGoesOn, Running, Writer
      <3>3. CASE phase[r] # "refresh" /\ Writer(r)
        BY <1>6, <2>4, <3>3 DEF InviteGoesOn, Writer, HasToken
      <3> QED
        BY <3>1, <3>2, <3>3
    <2> QED
      BY <1>6, <2>2, <2>3, <2>4, InviteStep DEF Running
  (* Who writes a token in this step was going to. *)
  <1>7. ASSUME InviteGoesOn(r), Writer(r)' PROVE Writer(r)
    <2>1. SUFFICES ASSUME ~Writer(r) PROVE FALSE
      OBVIOUS
    <2>2. phase[r] \in {"flush", "commit"} /\ HasToken(loaded[r]) /\ loaded'[r] = loaded[r]
      BY <1>7, <2>1 DEF InviteGoesOn, Writer
    <2>3. loaded[r].token # r
      BY <1>4, <1>7, <2>1, <2>2 DEF InviteGoesOn, Running
    <2> QED
      BY <1>7, <2>2, <2>3 DEF InviteGoesOn, Writer, HasToken
  <1>8. ASSUME NEW s \in Request, Writer(s)', phase'[s] \in {"refresh", "commit"}
        PROVE  Holds(s)'
    <2>1. CASE s # r
      <3>1. UNCHANGED <<phase[s], job[s], loaded[s]>> /\ Writer(s)
        BY <1>8, <2>1, RequestStep DEF IInv, Writer, Does, HasToken
      <3>2. Holds(s) /\ Target(s) \in Gathering
        BY <1>8, <3>1, JobOf DEF IInv, TokensOK, Running
      <3>3. lock'[Target(s)] = s
        <4>1. lock[Target(s)] = s
          BY <3>2 DEF Holds
        <4> QED
          BY <2>1, <3>2, <4>1, LocksStep DEF InsertGathering, UpdateRow, DeleteRow, CanWrite,
             IInv, IdsOK, Running
      <3> QED
        BY <3>1, <3>2, <3>3 DEF Holds, Target
    <2>2. CASE s = r
      <3>1. InviteGoesOn(r) /\ Target(r)' = Target(r)
        BY <1>8, <2>2, InviteStep DEF InviteArrives, InviteGoesOn, Writer, Target
      <3>2. Writer(r)
        BY <1>7, <1>8, <2>2, <3>1
      <3>3. CASE phase[r] = "flush"
        BY <1>8, <2>2, <3>1, <3>2, <3>3 DEF InviteGoesOn, Writer
      <3>4. CASE phase[r] = "refresh"
        <4>1. Holds(r)
          BY <3>2, <3>4 DEF IInv, TokensOK
        <4> QED
          BY <2>2, <3>1, <3>4, <4>1 DEF InviteGoesOn, Holds
      <3> QED
        BY <1>8, <2>2, <3>1, <3>3, <3>4 DEF InviteGoesOn
    <2> QED
      BY <2>1, <2>2
  <1>9. ASSUME NEW t \in Request, Writer(t)', NEW s \in before'[t]
        PROVE  ~Invited(s, Target(t))'
    <2>1. CASE t # r
      <3>1. UNCHANGED <<phase[t], job[t], loaded[t], before[t]>> /\ Writer(t)
        BY <1>9, <2>1, RequestStep DEF IInv, Writer, Does, HasToken
      <3>2. s \in Request /\ s # r /\ ~Invited(s, Target(t))
        BY <1>9, <3>1, RequestStep DEF IInv, SessionOK, TokensOK
      <3>3. UNCHANGED <<phase[s], job[s]>>
        BY <3>2, RequestStep DEF IInv
      <3> QED
        BY <3>1, <3>2, <3>3 DEF Invited, Succeeded, Does, Target
    <2>2. CASE t = r /\ InviteArrives(r)
      <3>1. s \in Request /\ s # r
        BY <1>9, <2>2, RequestStep DEF IInv, InviteArrives
      <3>2. UNCHANGED <<phase[s], job[s]>>
        BY <3>1, RequestStep DEF IInv
      <3>3. PICK g \in Gathering : g = Target(r)' /\ rows[g] # NoRow /\ loaded'[r] = rows[g]
        BY <2>2 DEF InviteArrives
      <3>4. ~HasToken(rows[g])
        BY <1>9, <2>2, <3>3 DEF InviteArrives, Writer, HasToken
      <3>5. ~Invited(s, g)
        BY <3>1, <3>3, <3>4 DEF IInv, TokensOK, Invited
      <3> QED
        BY <2>2, <3>2, <3>3, <3>5 DEF Invited, Succeeded, Does, Target
    <2>3. CASE t = r /\ InviteGoesOn(r)
      <3>1. Writer(r) /\ s \in before[r] /\ Target(r)' = Target(r)
        BY <1>7, <1>9, <2>3 DEF InviteGoesOn, Target
      <3>2. s \in Request /\ s # r /\ ~Invited(s, Target(r))
        BY <3>1, RequestStep DEF IInv, SessionOK, TokensOK
      <3>3. UNCHANGED <<phase[s], job[s]>>
        BY <3>2, RequestStep DEF IInv
      <3> QED
        BY <2>3, <3>1, <3>2, <3>3 DEF Invited, Succeeded, Does, Target
    <2>4. t = r => InviteArrives(r) \/ InviteGoesOn(r)
      BY <1>9, InviteStep DEF Writer
    <2> QED
      BY <2>1, <2>2, <2>3, <2>4
  <1> QED
    BY <1>1, <1>5, <1>6, <1>8, <1>9 DEF TokensOK

(* The active gatherings grow by a create, or by a reopening, only. *)
LEMMA ActiveStep ==
  ASSUME IInv, NEW r \in Request, Step(r)
  PROVE  \/ reopened'
         \/ ~reopened /\ Active' \subseteq Active
         \/ /\ ~reopened /\ Commit(r) /\ Does(r, {"create"})
            /\ Active' \subseteq Active \cup {Target(r)}
  <1> SUFFICES ASSUME ~reopened'
               PROVE  \/ ~reopened /\ Active' \subseteq Active
                      \/ /\ ~reopened /\ Commit(r) /\ Does(r, {"create"})
                         /\ Active' \subseteq Active \cup {Target(r)}
    OBVIOUS
  <1>1. ~reopened
    BY RowsStep DEF Commit
  <1>2. ASSUME NEW g \in Active', g \notin Active
        PROVE  Commit(r) /\ Does(r, {"create"}) /\ Target(r) = g
    <2>1. g \in Gathering /\ IsActive(rows'[g]) /\ ~IsActive(rows[g])
      BY <1>2 DEF Active, IsActive
    <2>2. /\ Commit(r) /\ Target(r) = g /\ lock[g] = r /\ rows'[g] = draft[g]
      BY <2>1, RowsStep
    <2>3. HolderOK(r, g) /\ Visible(r) = draft[g]
      BY <2>1, <2>2 DEF IInv, LockOK, Visible, Holds, HolderOK
    <2>4. rows[g] = NoRow
      BY <2>1, <2>2, <2>3 DEF Commit, IsActive
    <2>5. draft[g] # NoRow
      BY <2>1, <2>2 DEF IsActive
    <2>6. job[r] # NoJob /\ job[r].op \in Op
      BY <2>3 DEF HolderOK, Job
    <2> QED
      BY <2>2, <2>3, <2>4, <2>5, <2>6 DEF HolderOK, Does, Op
  <1> QED
    BY <1>1, <1>2

LEMMA ActiveFinite ==
  IsFiniteSet(Active) /\ Cardinality(Active) \in Nat
  BY FS_Subset, FS_CardinalityType, GatheringAssumption DEF Active

LEMMA ActiveShrinks ==
  ASSUME Active' \subseteq Active PROVE Cardinality(Active') <= Cardinality(Active)
  BY ActiveFinite, FS_Subset

LEMMA ActiveGrows ==
  ASSUME NEW g, Active' \subseteq Active \cup {g}
  PROVE  Cardinality(Active') <= Cardinality(Active) + 1
  <1>1. /\ IsFiniteSet(Active \cup {g}) /\ Cardinality(Active \cup {g}) \in Nat
        /\ Cardinality(Active \cup {g}) <= Cardinality(Active) + 1
    <2>1. /\ IsFiniteSet(Active \cup {g})
          /\ \/ Cardinality(Active \cup {g}) = Cardinality(Active)
             \/ Cardinality(Active \cup {g}) = Cardinality(Active) + 1
      BY ActiveFinite, FS_AddElement
    <2> QED
      BY <2>1, ActiveFinite
  <1>2. Cardinality(Active') <= Cardinality(Active \cup {g}) /\ Cardinality(Active') \in Nat
    BY <1>1, FS_Subset, FS_CardinalityType
  <1> QED
    BY <1>1, <1>2, ActiveFinite

(* Success is for good. *)
LEMMA SucceededStays ==
  ASSUME IInv, NEW r \in Request, Step(r), NEW q \in Request, Succeeded(q, "create")
  PROVE  q # r /\ Succeeded(q, "create")' /\ before'[q] = before[q]
  BY RequestStep DEF IInv, Succeeded, Over, Does

LEMMA RoomStep ==
  ASSUME IInv, NEW r \in Request, Step(r)
  PROVE  RoomOK'
  <1> SUFFICES ASSUME NEW p \in Request, Does(p, {"create"})', phase'[p] \in Running
               PROVE  RoomLeft(p)'
    BY DEF RoomOK
  <1>1. CASE p = r /\ phase[r] = "new"
    <2>1. BeginCreate(r) \/ BeginChange(r) \/ BeginRsvp(r)
      BY <1>1 DEF Step, InsertGathering, SkipUpdate, UpdateRow, DeleteRow, InsertRsvp,
         Refresh, Commit, Fails, Fail, Goto, Running, IInv, TypeOK
    <2>2. WithinLimit /\ UNCHANGED <<premium, rows>>
      BY <1>1, <2>1, ArrivalStep
    <2>3. Active' = Active
      BY <2>2 DEF Active, IsActive
    <2> QED
      BY <2>2, <2>3 DEF RoomLeft, WithinLimit
  <1>2. CASE p # r \/ phase[r] # "new"
    <2>1. /\ Does(p, {"create"}) /\ phase[p] \in Running /\ before'[p] = before[p]
      BY <1>2, RequestStep, JobStep DEF IInv, TypeOK, Does, Running, Over, Phase
    <2>2. RoomLeft(p)
      BY <2>1 DEF IInv, RoomOK
    <2>3. CASE premium \/ reopened
      BY <2>3, RowsStep DEF RoomLeft, Commit
    <2>4. CASE \E q \in Request : q # p /\ Succeeded(q, "create") /\ q \notin before[p]
      BY <2>1, <2>4, SucceededStays DEF RoomLeft
    <2>5. CASE Cardinality(Active) < Limit
      <3>1. CASE reopened'
        BY <3>1 DEF RoomLeft
      <3>2. CASE Active' \subseteq Active
        <4>1. Cardinality(Active') <= Cardinality(Active) /\ Cardinality(Active') \in Nat
          BY <3>2, ActiveShrinks, ActiveFinite, FS_Subset, FS_CardinalityType
        <4> QED
          BY <2>5, <4>1, ActiveFinite, LimitAssumption DEF RoomLeft
      <3>3. CASE Commit(r) /\ Does(r, {"create"})
        <4>1. Succeeded(r, "create")' /\ phase'[r] = "done" /\ phase[r] = "commit"
          BY <3>3 DEF Commit, Goto, Succeeded, Does, IInv, TypeOK
        <4>2. r # p /\ r \notin before'[p]
          BY <1>2, <2>1, <4>1 DEF Running, IInv, SessionOK, Over
        <4> QED
          BY <4>1, <4>2 DEF RoomLeft
      <3> QED
        BY <3>1, <3>2, <3>3, ActiveStep
    <2> QED
      BY <2>2, <2>3, <2>4, <2>5 DEF RoomLeft
  <1> QED
    BY <1>1, <1>2

LEMMA LimitStep ==
  ASSUME IInv, NEW r \in Request, Step(r)
  PROVE  LimitUnlessRaced'
  <1> SUFFICES ASSUME ~premium, ~reopened' PROVE LimitUnlessRaced'
    BY RowsStep DEF LimitUnlessRaced
  <1>1. ~reopened
    BY ActiveStep
  <1>2. ASSUME NEW p \in Request, NEW q \in Request, p # q, Succeeded(p, "create")',
               Succeeded(q, "create")', Overlap(p, q)'
        PROVE  LimitUnlessRaced'
    BY <1>2 DEF LimitUnlessRaced
  <1>3. CASE \E p, q \in Request : /\ p # q /\ Succeeded(p, "create")
                                  /\ Succeeded(q, "create") /\ Overlap(p, q)
    <2>1. PICK p \in Request, q \in Request : /\ p # q /\ Succeeded(p, "create")
                                  /\ Succeeded(q, "create") /\ Overlap(p, q)
      BY <1>3
    <2>2. /\ Succeeded(p, "create")' /\ before'[p] = before[p]
          /\ Succeeded(q, "create")' /\ before'[q] = before[q]
      BY <2>1, SucceededStays
    <2>3. Overlap(p, q)'
      BY <2>1, <2>2 DEF Overlap
    <2> QED
      BY <1>2, <2>1, <2>2, <2>3
  <1>4. CASE Cardinality(Active) <= Limit
    <2>1. CASE Active' \subseteq Active
      <3>1. Cardinality(Active') <= Cardinality(Active) /\ Cardinality(Active') \in Nat
        BY <2>1, ActiveShrinks, ActiveFinite, FS_Subset, FS_CardinalityType
      <3> QED
        BY <1>4, <3>1, ActiveFinite, LimitAssumption DEF LimitUnlessRaced
    <2>2. CASE /\ Commit(r) /\ Does(r, {"create"})
               /\ Active' \subseteq Active \cup {Target(r)}
      <3>1. RoomLeft(r)
        BY <2>2 DEF IInv, RoomOK, Commit, Running
      <3>2. CASE Cardinality(Active) < Limit
        <4>1. /\ Cardinality(Active') <= Cardinality(Active) + 1
              /\ Cardinality(Active') \in Nat
          <5>1. IsFiniteSet(Active \cup {Target(r)})
            BY ActiveFinite, FS_AddElement
          <5> QED
            BY <2>2, <5>1, ActiveGrows, FS_Subset, FS_CardinalityType
        <4> QED
          BY <3>2, <4>1, ActiveFinite, LimitAssumption DEF LimitUnlessRaced
      <3>3. ASSUME NEW q \in Request, q # r, Succeeded(q, "create"), q \notin before[r]
            PROVE  LimitUnlessRaced'
        <4>1. Succeeded(q, "create")' /\ before'[q] = before[q]
          BY <3>3, SucceededStays
        <4>2. Succeeded(r, "create")' /\ before'[r] = before[r] /\ phase[r] = "commit"
          BY <2>2 DEF Commit, Goto, Succeeded, Does, IInv, TypeOK
        <4>3. r \notin before[q]
          BY <4>2 DEF IInv, SessionOK, Over
        <4>4. Overlap(q, r)'
          BY <3>3, <4>1, <4>2, <4>3 DEF Overlap
        <4> QED
          BY <1>2, <3>3, <4>1, <4>2, <4>4
      <3> QED
        BY <1>1, <3>1, <3>2, <3>3 DEF RoomLeft
    <2> QED
      BY <2>1, <2>2, ActiveStep
  <1> QED
    BY <1>1, <1>3, <1>4 DEF IInv, LimitUnlessRaced

-----------------------------------------------------------------------------
(* The invariant holds *)

LEMMA Initially == Init => IInv
  <1> SUFFICES ASSUME Init PROVE IInv
    OBVIOUS
  <1>1. TypeOK
    BY InitTyped
  <1>2. \A r \in Request : job[r] = NoJob /\ phase[r] = "new" /\ before[r] = {}
    BY DEF Init
  <1>3. \A g \in Gathering : /\ lock[g] = NoRequest /\ guests[g] = {}
                             /\ rows[g] # NoRow => ~HasToken(rows[g])
    BY DEF Init, HasToken, FreshRow, ArchivedRow
  <1>4. LockOK
    BY <1>3 DEF LockOK
  <1>5. ASSUME NEW r \in Request PROVE \A ops : ~Does(r, ops)
    BY <1>2 DEF Does
  <1>6. SessionOK
    BY <1>2, <1>5 DEF SessionOK, Running
  <1>7. RoomOK
    BY <1>5 DEF RoomOK
  <1>8. IdsOK
    BY <1>2, <1>3 DEF IdsOK, Init, Does
  <1>9. SharingOK
    BY <1>2 DEF SharingOK, Sharing, Does
  <1>10. GuestsAnswered
    <2>1. ASSUME NEW g \in Gathering
          PROVE  {r \in Request : Succeeded(r, "rsvp") /\ Target(r) = g} = {}
      BY <1>5 DEF Succeeded
    <2> QED
      BY <1>3, <2>1 DEF GuestsAnswered
  <1>11. TokensOK
    BY <1>3, <1>5 DEF TokensOK, Succeeded, Writer
  <1>12. LimitUnlessRaced
    BY DEF Init, LimitUnlessRaced
  <1> QED
    BY <1>1, <1>4, <1>6, <1>7, <1>8, <1>9, <1>10, <1>11, <1>12 DEF IInv

LEMMA Steps == IInv /\ [Next]_vars => IInv'
  <1> SUFFICES ASSUME IInv, [Next]_vars PROVE IInv'
    OBVIOUS
  <1>1. CASE Next
    <2>1. PICK r \in Request : Step(r)
      BY <1>1, StepCases
    <2>2. TypeOK'
      BY NextTyped DEF IInv
    <2> QED
      BY <2>1, <2>2, SessionStep, LockStep, IdsStep, SharingStep, GuestsStep, TokensStep,
         RoomStep, LimitStep DEF IInv
  <1>2. CASE UNCHANGED vars
    BY <1>2 DEF vars, data, locks, IInv, TypeOK, SessionOK, LockOK, HolderOK, IdsOK,
       SharingOK, Sharing, GuestsAnswered, TokensOK, RoomOK, RoomLeft, LimitUnlessRaced,
       Active, IsActive, Does, Target, Writer, Invited, HasToken, Succeeded, Overlap, Holds
  <1> QED
    BY <1>1, <1>2

(* Whatever the requests and however they interleave, the invariant holds. *)
THEOREM GatheringsInvariant == Spec => []IInv
  BY Initially, Steps, PTL DEF Spec

-----------------------------------------------------------------------------
(* What follows from it *)

(* Rows, drafts, sessions and guest lists keep their types. *)
THEOREM GatheringsTyped == Spec => []TypeOK
  <1>1. IInv => TypeOK
    BY DEF IInv
  <1> QED
    BY <1>1, GatheringsInvariant, PTL

(* _assert_free_tier_limit: a host's creates that do not overlap keep the  *)
(* limit as long as no archived gathering is reopened.                     *)
THEOREM LimitKept == Spec => []LimitUnlessRaced
  <1>1. IInv => LimitUnlessRaced
    BY DEF IInv
  <1> QED
    BY <1>1, GatheringsInvariant, PTL

(* submit_rsvp: the guest list is who answered, until the gathering goes.  *)
THEOREM GuestListKept == Spec => []GuestsAnswered
  <1>1. IInv => GuestsAnswered
    BY DEF IInv
  <1> QED
    BY <1>1, GatheringsInvariant, PTL

(* get_db: whoever is waited for has flushed, and is not waiting.          *)
THEOREM NobodyWaitsInTurn == Spec => []HoldersDoNotWait
  <1>1. IInv => HoldersDoNotWait
    BY DEF IInv, LockOK, HolderOK, HoldersDoNotWait
  <1> QED
    BY <1>1, GatheringsInvariant, PTL

(* generate_invite: an invite that did not overlap another one answers     *)
(* with the link there was.                                                *)
THEOREM LinkKept == Spec => []InviteStableUnlessRaced
  <1>1. ASSUME IInv PROVE InviteStableUnlessRaced
    <2> SUFFICES ASSUME NEW p \in Request, NEW q \in Request, Succeeded(p, "invite"),
                        Succeeded(q, "invite"), Target(p) = Target(q),
                        loaded[p].token # loaded[q].token
                 PROVE  \E s, t \in Request :
                          /\ s # t /\ Succeeded(s, "invite") /\ Succeeded(t, "invite")
                          /\ Target(s) = Target(p) /\ Target(t) = Target(p) /\ Overlap(s, t)
      BY DEF InviteStableUnlessRaced
    <2>1. ASSUME NEW r \in Request, Succeeded(r, "invite")
          PROVE  \E t \in Request : t = loaded[r].token /\ Writer(t) /\ Invited(t, Target(r))
      <3>1. CASE Writer(r)
        BY <2>1, <3>1 DEF Writer, Invited, Succeeded
      <3>2. CASE ~Writer(r)
        <4>1. /\ HasToken(loaded[r]) /\ Invited(loaded[r].token, Target(r))
              /\ Writer(loaded[r].token)
          BY <1>1, <2>1, <3>2 DEF IInv, TokensOK, Succeeded
        <4>2. loaded[r] \in Row
          BY <1>1, <2>1 DEF IInv, SessionOK, Succeeded, Does
        <4> QED
          BY <4>1, <4>2, TokenTyped
      <3> QED
        BY <3>1, <3>2
    <2>2. PICK s \in Request : s = loaded[p].token /\ Writer(s) /\ Invited(s, Target(p))
      BY <2>1
    <2>3. PICK t \in Request : t = loaded[q].token /\ Writer(t) /\ Invited(t, Target(q))
      BY <2>1
    <2>4. s \notin before[t] /\ t \notin before[s]
      BY <1>1, <2>2, <2>3 DEF IInv, TokensOK, Invited
    <2> QED
      BY <2>2, <2>3, <2>4 DEF Invited, Overlap
  <1> QED
    BY <1>1, GatheringsInvariant, PTL

(* update and generate_invite: each changes its own column and no other.   *)
THEOREM ColumnsKept == Spec => ColumnsKeptApart
  <1> DEFINE Apart(g) ==
        rows[g] # NoRow /\ rows'[g] # NoRow =>
          /\ rows'[g].token # rows[g].token =>
               \E r \in Request : /\ Does(r, {"invite"}) /\ Target(r) = g
                                  /\ phase[r] = "commit" /\ phase'[r] = "done"
          /\ rows'[g].archived # rows[g].archived =>
               \E r \in Request : /\ Does(r, {"update"}) /\ Target(r) = g
                                  /\ phase[r] = "commit" /\ phase'[r] = "done"
  <1>1. ASSUME IInv, [Next]_vars PROVE [\A g \in Gathering : Apart(g)]_vars
    <2> SUFFICES ASSUME Next, NEW g \in Gathering PROVE Apart(g)
      BY <1>1
    <2>1. PICK r \in Request : Step(r)
      BY StepCases
    <2>2. CASE rows'[g] = rows[g]
      BY <2>2
    <2>3. CASE Commit(r) /\ Target(r) = g /\ lock[g] = r /\ rows'[g] = draft[g]
      <3>1. HolderOK(r, g)
        BY <1>1, <2>3 DEF IInv, LockOK, HolderOK
      <3>2. job[r] # NoJob /\ job[r].op \in Op
        BY <3>1 DEF HolderOK, Job
      <3>3. phase[r] = "commit" /\ phase'[r] = "done"
        BY <1>1, <2>3 DEF Commit, Goto, IInv, TypeOK
      <3> QED
        BY <2>3, <3>1, <3>2, <3>3 DEF HolderOK, Does, Op
    <2> QED
      BY <1>1, <2>1, <2>2, <2>3, RowsStep
  <1> QED
    BY <1>1, GatheringsInvariant, PTL DEF Spec, ColumnsKeptApart

=============================================================================
