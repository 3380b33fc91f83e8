--------------------------- MODULE RemindersProofs ---------------------------
(***************************************************************************)
(* Theorems about Reminders, for any number of requests and reminders.     *)
(***************************************************************************)
EXTENDS Reminders, TLAPS

USE NoRequestAssumption, NoRowAssumption, NoJobAssumption

-----------------------------------------------------------------------------
(* The inductive invariant *)

IsSent(row) == row # NoRow /\ row.sent
HasFlushed(r) == phase[r] \in {"refresh", "publish", "commit"}

(* What a request must have done to be where it is. *)
SessionOK ==
  \A r \in Request :
    /\ phase[r] = "new" => job[r] = NoJob
    /\ phase[r] \in Running \cup {"done"} => job[r] \in Job
    /\ phase[r] = "load" => ~Does(r, {"create"})
    /\ phase[r] \in {"lookup", "publish"} => IsDispatch(r)
    /\ r \in attempted => IsDispatch(r) /\ phase[r] \in {"commit", "done", "failed"}
    /\ before[r] \subseteq {q \in Request : phase[q] \in Over}

(* The holder of a row, and what it has written. *)
HolderOK(r, m) ==
  /\ r \in Request /\ job[r] \in Job /\ Target(r) = m
  /\ HasFlushed(r)
  /\ gathering
  /\ Does(r, {"create"}) => rows[m] = NoRow /\ draft[m] = Fresh
  /\ ~Does(r, {"create"}) => rows[m] \in Row
  /\ Does(r, {"delete"}) => draft[m] = NoRow
  /\ Does(r, {"update"}) => /\ draft[m] \in Row
                            /\ draft[m].sent = rows[m].sent
                            /\ draft[m].text = job[r].text
  /\ IsDispatch(r) => /\ draft[m] \in Row
                      /\ draft[m].sent
                      /\ draft[m].text = rows[m].text
                      /\ phase[r] = "publish" => loaded[r] = draft[m]
                      /\ phase[r] = "commit" => r \in attempted
LockOK == \A m \in Reminder : lock[m] # NoRequest => HolderOK(lock[m], m)

(* A dispatch that has flushed has marked its row and holds it, and so has *)
(* a create.                                                               *)
FlushedOK ==
  \A r \in Request : Does(r, {"create", "send", "fire"}) /\ HasFlushed(r) => Holds(r)

(* The id of a reminder that is not yet committed: no other create has it, *)
(* and nothing was sent of it.                                             *)
Unsent(m) == \A q \in attempted : Target(q) # m
IdsOK ==
  /\ \A m \in unused : /\ rows[m] = NoRow /\ Unsent(m)
                       /\ \A q \in Request : Does(q, {"create"}) => Target(q) # m
  /\ \A r \in Request : Does(r, {"create"}) /\ phase[r] \in Running =>
       /\ rows[Target(r)] = NoRow /\ Unsent(Target(r)) /\ Target(r) \notin unused
       /\ \A q \in Request : q # r /\ Does(q, {"create"}) => Target(q) # Target(r)

(* The events are of dispatches that were past publishing, and show what   *)
(* they wrote.                                                             *)
EventsOK ==
  \A e \in events :
    /\ e.by \in attempted /\ e.reminder = Target(e.by)
    /\ phase[e.by] = "commit" => draft[e.reminder].text = e.text

(* A dispatch that succeeded leaves its mark ... *)
MarksOK ==
  \A r \in attempted :
    phase[r] = "done" /\ rows[Target(r)] # NoRow => rows[Target(r)].sent
(* ... which stops whoever comes after it at the check of is_sent.         *)
PastCheck(q) ==
  q \in attempted \/ (IsDispatch(q) /\ phase[q] \in {"lookup", "flush", "refresh", "publish"})
RetriesOK ==
  \A q \in Request : PastCheck(q) =>
    \A r \in attempted : r \in before[q] /\ phase[r] = "done" => Target(r) # Target(q)

IInv ==
  /\ TypeOK
  /\ SessionOK
  /\ LockOK
  /\ FlushedOK
  /\ IdsOK
  /\ EventsOK
  /\ MarksOK
  /\ RetriesOK
  /\ SentWasAttempted
  /\ NoOrphans
-----------------------------------------------------------------------------
(* Steps *)

(* Every way to fail is a rollback of a request that is not over. *)
Fails(r) == phase[r] \notin Over /\ Fail(r)

Arrives(r) == BeginCreate(r) \/ BeginChange(r) \/ BeginFire(r)
GoesOn(r) ==
  \/ SkipSent(r) \/ LoadReminder(r) \/ LookUp(r) \/ InsertReminder(r) \/ SkipUpdate(r)
  \/ UpdateRow(r) \/ DeleteRow(r) \/ Refresh(r) \/ Publish(r) \/ Commit(r)
Step(r) == Arrives(r) \/ Fails(r) \/ GoesOn(r)

LEMMA StepCases ==
  ASSUME Next
  PROVE  (\E r \in Request : Step(r)) \/ DeleteGathering
  <1>1. ASSUME NEW r \in Request,
               \/ Refuse(r) \/ NotFound(r) \/ AlreadySent(r) \/ InsertOrphan(r)
               \/ UpdateStale(r) \/ RefreshGone(r) \/ Abort(r)
        PROVE  Fails(r)
    BY <1>1 DEF Refuse, NotFound, AlreadySent, InsertOrphan, UpdateStale, RefreshGone,
       Abort, Fails, Over, Running
  <1> QED
    BY <1>1 DEF Next, Proceed, Step, Arrives, GoesOn

(* What an arriving request asks for. *)
LEMMA ArrivalStep ==
  ASSUME TypeOK, NEW r \in Request, Arrives(r)
  PROVE  /\ UNCHANGED <<gathering, rows, lock, draft, loaded, attempted, events>>
         /\ phase[r] = "new" /\ job'[r] \in Job /\ job'[r] # NoJob
         /\ before'[r] = {q \in Request : phase[q] \in Over}
         /\ \A q \in Request : q # r => UNCHANGED <<phase[q], job[q], before[q]>>
         /\ job' \in [Request -> Job \cup {NoJob}]
         /\ before' \in [Request -> SUBSET Request]
         /\ \/ /\ Does(r, {"create"})' /\ phase' = [phase EXCEPT ![r] = "flush"]
               /\ Target(r)' \in unused /\ unused' = unused \ {Target(r)'}
            \/ /\ ~Does(r, {"create"})' /\ phase' = [phase EXCEPT ![r] = "load"]
               /\ UNCHANGED unused
  <1> USE DEF TypeOK, Goto
  <1>1. CASE BeginCreate(r)
    <2>1. PICK m \in unused : Asks(r, "create", m, OldText) /\ unused' = unused \ {m}
      BY <1>1 DEF BeginCreate
    <2>2. /\ job'[r] = [op |-> "create", target |-> m, text |-> OldText] /\ job'[r] \in Job
      BY <2>1, OldTextAssumption DEF Asks, Job, Op
    <2>3. job'[r] # NoJob
      BY <2>2
    <2>4. Does(r, {"create"})' /\ Target(r)' = m
      BY <2>2, <2>3 DEF Does, Target
    <2> QED
      BY <1>1, <2>1, <2>2, <2>3, <2>4 DEF Asks, BeginCreate
  <1>2. CASE BeginChange(r) \/ BeginFire(r)
    <2>1. PICK m \in Reminder, op \in {"update", "delete", "send", "fire"}, text \in Text :
            Asks(r, op, m, text) /\ Goto(r, "load") /\ UNCHANGED unused
      BY <1>2, OldTextAssumption DEF BeginChange, BeginFire
    <2>2. /\ job'[r] = [op |-> op, target |-> m, text |-> text] /\ job'[r] \in Job
      BY <2>1 DEF Asks, Job, Op
    <2>3. job'[r] # NoJob
      BY <2>2
    <2>4. ~Does(r, {"create"})'
      BY <2>2, <2>3 DEF Does
    <2> QED
      BY <2>1, <2>2, <2>3, <2>4 DEF Asks
  <1> QED
    BY <1>1, <1>2 DEF Arrives

(* Who goes on or fails has begun, and keeps its job. *)
LEMMA KeepStep ==
  ASSUME TypeOK, NEW r \in Request, GoesOn(r) \/ Fails(r)
  PROVE  /\ UNCHANGED <<gathering, unused, job, before>>
         /\ phase[r] \notin Over
         /\ GoesOn(r) => phase[r] \in Running
         /\ \A q \in Request : q # r => UNCHANGED <<phase[q], loaded[q]>>
         /\ Fails(r) => phase'[r] = "failed" /\ UNCHANGED <<rows, attempted, events>>
  BY DEF GoesOn, Fails, Fail, SkipSent, LoadReminder, LookUp, InsertReminder, SkipUpdate,
     UpdateRow, DeleteRow, Refresh, Publish, Commit, Goto, TypeOK, Over, Running, Phase

(* A request that is answered stays so, and keeps its job. *)
LEMMA RequestStep ==
  ASSUME TypeOK, NEW r \in Request, Step(r)
  PROVE  /\ phase[r] \notin Over
         /\ \A q \in Request : q # r =>
              UNCHANGED <<phase[q], job[q], loaded[q], before[q]>>
  BY ArrivalStep, KeepStep DEF Step, Over

LEMMA DeletionStep ==
  ASSUME DeleteGathering
  PROVE  /\ UNCHANGED <<unused, lock, draft, job, phase, loaded, attempted, events, before>>
         /\ ~gathering'
         /\ \A m \in Reminder : lock[m] = NoRequest /\ rows'[m] = NoRow
  BY DEF DeleteGathering

-----------------------------------------------------------------------------
(* Types *)

LEMMA InitTyped == Init => TypeOK
  <1> SUFFICES ASSUME Init PROVE TypeOK
    OBVIOUS
  <1>1. Fresh \in Row
    BY OldTextAssumption DEF Fresh, Row
  <1>2. rows \in [Reminder -> Row \cup {NoRow}]
    BY <1>1 DEF Init
  <1> QED
    BY <1>2 DEF Init, TypeOK, Phase

LEMMA JobOf ==
  ASSUME TypeOK, SessionOK, NEW r \in Request, phase[r] \in Running
  PROVE  /\ job[r] \in Job /\ job[r] # NoJob /\ Target(r) \in Reminder
         /\ job[r].op \in Op /\ job[r].text \in Text
         /\ Visible(r) \in Row \cup {NoRow}
  <1>1. job[r] \in Job
    BY DEF SessionOK
  <1>2. job[r] # NoJob
    BY <1>1
  <1>3. Target(r) \in Reminder /\ job[r].op \in Op /\ job[r].text \in Text
    BY <1>1 DEF Job, Target
  <1> QED
    BY <1>1, <1>2, <1>3 DEF Visible, TypeOK

(* The row a flush writes is a row. *)
LEMMA UpdatedTyped ==
  ASSUME TypeOK, SessionOK, NEW r \in Request, phase[r] \in Running, Visible(r) # NoRow
  PROVE  /\ Visible(r) \in Row /\ Updated(r) \in Row
         /\ IsDispatch(r) => Updated(r).sent /\ Updated(r).text = Visible(r).text
         /\ ~IsDispatch(r) => /\ Updated(r).sent = Visible(r).sent
                              /\ Updated(r).text = job[r].text
  <1>1. Visible(r) \in Row /\ job[r].text \in Text
    BY JobOf
  <1> QED
    BY <1>1 DEF Updated, Row

(* What a dispatch that has flushed knows. *)
LEMMA Dispatching ==
  ASSUME IInv, NEW r \in Request, IsDispatch(r), HasFlushed(r)
  PROVE  /\ HolderOK(r, Target(r)) /\ Target(r) \in Reminder
         /\ lock[Target(r)] = r /\ Visible(r) = draft[Target(r)]
         /\ ~Does(r, {"create", "update", "delete"})
  <1>1. Target(r) \in Reminder
    BY JobOf DEF IInv, HasFlushed, Running, Phase, Over
  <1>2. Holds(r) /\ lock[Target(r)] = r
    BY DEF IInv, FlushedOK, IsDispatch, Does, Holds
  <1> QED
    BY <1>1, <1>2 DEF IInv, LockOK, Visible, IsDispatch, Does

LEMMA NextTyped == IInv /\ [Next]_vars => TypeOK'
  <1> SUFFICES ASSUME IInv, [Next]_vars PROVE TypeOK'
    OBVIOUS
  <1> TypeOK /\ SessionOK
    BY DEF IInv
  <1>1. ASSUME NEW r \in Request, Arrives(r) PROVE TypeOK'
    BY <1>1, ArrivalStep DEF TypeOK, Phase
  <1>2. ASSUME NEW r \in Request, Fails(r) PROVE TypeOK'
    BY <1>2 DEF Fails, Fail, Release, Goto, TypeOK, Phase
  <1>3. ASSUME NEW r \in Request, GoesOn(r) PROVE TypeOK'
    <2>1. /\ Target(r) \in Reminder /\ Visible(r) \in Row \cup {NoRow}
      BY <1>3, KeepStep, JobOf
    <2> USE DEF TypeOK, Goto, Phase
    <2>2. CASE SkipSent(r) \/ LookUp(r) \/ SkipUpdate(r)
      BY <2>2 DEF SkipSent, LookUp, SkipUpdate
    <2>3. CASE LoadReminder(r)
      BY <2>1, <2>3 DEF LoadReminder
    <2>4. CASE InsertReminder(r)
      BY <2>4, OldTextAssumption DEF InsertReminder, Write, Fresh, Row
    <2>5. CASE UpdateRow(r)
      <3>1. Updated(r) \in Row
        BY <1>3, <2>5, KeepStep, UpdatedTyped DEF UpdateRow
      <3> QED
        BY <2>5, <3>1 DEF UpdateRow, Write
    <2>6. CASE DeleteRow(r)
      BY <2>6 DEF DeleteRow, Write
    <2>7. CASE Refresh(r)
      BY <2>1, <2>7 DEF Refresh
    <2>8. CASE Publish(r)
      <3>1. loaded[r] \in Row
        BY <2>8, Dispatching DEF Publish, SessionOK, HasFlushed, HolderOK
      <3>2. Event(r) \in [by : Request, reminder : Reminder, text : Text]
        BY <2>1, <3>1 DEF Event, Row
      <3> QED
        BY <2>8, <3>2 DEF Publish
    <2>9. CASE Commit(r)
      BY <2>1, <2>9 DEF Commit, Release
    <2> QED
      BY <1>3, <2>2, <2>3, <2>4, <2>5, <2>6, <2>7, <2>8, <2>9 DEF GoesOn
  <1>4. CASE DeleteGathering
    BY <1>4 DEF DeleteGathering, TypeOK
  <1>5. CASE UNCHANGED vars
    BY <1>5 DEF vars, TypeOK
  <1> QED
    BY <1>1, <1>2, <1>3, <1>4, <1>5, StepCases DEF Step

-----------------------------------------------------------------------------
(* Rows and locks *)

(* Only a commit and the deletion of the gathering change what is          *)
(* committed, and a commit only by a draft.                                *)
LEMMA RowsStep ==
  ASSUME IInv, NEW r \in Request, Step(r)
  PROVE  \A m \in Reminder :
           \/ rows'[m] = rows[m]
           \/ Commit(r) /\ Target(r) = m /\ lock[m] = r /\ rows'[m] = draft[m]
  <1>1. CASE Commit(r)
    <2>1. Visible(r) # rows[Target(r)] => Visible(r) = draft[Target(r)] /\ Holds(r)
      BY DEF Visible
    <2> QED
      BY <1>1, <2>1 DEF Commit, IInv, TypeOK, Holds
  <1>2. CASE ~Commit(r)
    <2>1. GoesOn(r) => rows' = rows
      BY <1>2 DEF GoesOn, SkipSent, LoadReminder, LookUp, InsertReminder, SkipUpdate,
         UpdateRow, DeleteRow, Refresh, Publish
    <2> QED
      BY <2>1, ArrivalStep, KeepStep DEF Step, IInv
  <1> QED
    BY <1>1, <1>2

(* A step takes or releases the row of its own request only. *)
LEMMA LocksStep ==
  ASSUME IInv, NEW r \in Request, Step(r)
  PROVE  \A m \in Reminder :
           /\ \/ lock'[m] = lock[m] /\ draft'[m] = draft[m]
              \/ lock[m] = r /\ lock'[m] = NoRequest
              \/ /\ lock'[m] = r /\ Target(r) = m
                 /\ \/ InsertReminder(r) /\ draft'[m] = Fresh
                    \/ UpdateRow(r) /\ draft'[m] = Updated(r)
                    \/ DeleteRow(r) /\ Visible(r) # NoRow /\ draft'[m] = NoRow
           /\ Commit(r) \/ Fails(r) => lock'[m] # r
  <1> USE DEF IInv, TypeOK
  <1>1. CASE Fails(r) \/ Commit(r)
    <2>1. Release(r)
      BY <1>1 DEF Fails, Fail, Commit
    <2>2. \A m \in Reminder : lock[m] = r => Holds(r) /\ Target(r) = m
      BY DEF LockOK, HolderOK, Holds
    <2> QED
      BY <2>1, <2>2 DEF Release, Holds
  <1>2. CASE InsertReminder(r)
    BY <1>2 DEF InsertReminder, Write, Does, Fails, Fail, Commit, Goto, Over
  <1>3. CASE UpdateRow(r)
    BY <1>3 DEF UpdateRow, Write, Does, Fails, Fail, Commit, Goto, Over
  <1>4. CASE DeleteRow(r)
    BY <1>4 DEF DeleteRow, Write, Does, Fails, Fail, Commit, Goto, Over
  <1>5. CASE Arrives(r)
    <2>1. UNCHANGED <<lock, draft>> /\ phase[r] = "new" /\ phase'[r] \in {"flush", "load"}
      BY <1>5, ArrivalStep
    <2> QED
      BY <2>1 DEF Fails, Fail, Commit, Goto
  <1>6. CASE \/ SkipSent(r) \/ LoadReminder(r) \/ LookUp(r) \/ SkipUpdate(r)
             \/ Refresh(r) \/ Publish(r)
    BY <1>6 DEF SkipSent, LoadReminder, LookUp, SkipUpdate, Refresh, Publish, Fails, Fail,
       Commit, Goto
  <1> QED
    BY <1>1, <1>2, <1>3, <1>4, <1>5, <1>6 DEF Step, GoesOn

(* Nobody but the creator knows a reminder that is not committed. *)
LEMMA Creating ==
  ASSUME IInv, NEW r \in Request, Does(r, {"create"}), phase[r] \in Running
  PROVE  /\ Target(r) \in Reminder /\ rows[Target(r)] = NoRow
         /\ lock[Target(r)] \in {NoRequest, r}
         /\ phase[r] = "flush" => lock[Target(r)] = NoRequest
         /\ HasFlushed(r) => lock[Target(r)] = r
  <1>1. Target(r) \in Reminder /\ rows[Target(r)] = NoRow
    BY JobOf DEF IInv, IdsOK
  <1>2. ASSUME lock[Target(r)] # NoRequest PROVE lock[Target(r)] = r /\ HasFlushed(r)
    <2>1. PICK h \in Request : h = lock[Target(r)] /\ HolderOK(h, Target(r))
      BY <1>1, <1>2 DEF IInv, LockOK, HolderOK
    <2>2. Does(h, {"create"}) /\ Target(h) = Target(r)
      BY <1>1, <2>1 DEF HolderOK
    <2>3. h = r
      BY <2>2 DEF IInv, IdsOK
    <2> QED
      BY <2>1, <2>3 DEF HolderOK
  <1>3. HasFlushed(r) => lock[Target(r)] = r
    BY DEF IInv, FlushedOK, Holds, Does
  <1> QED
    BY <1>1, <1>2, <1>3 DEF HasFlushed

LEMMA LockStep ==
  ASSUME IInv, NEW r \in Request, Step(r)
  PROVE  LockOK'
  <1> SUFFICES ASSUME NEW m \in Reminder, lock'[m] # NoRequest
               PROVE  HolderOK(lock[m], m)'
    BY DEF LockOK
  <1>0. TypeOK /\ SessionOK
    BY DEF IInv
  <1>1. CASE lock'[m] = lock[m] /\ draft'[m] = draft[m]
    <2>1. PICK h \in Request : h = lock[m] /\ HolderOK(h, m)
      BY <1>1 DEF IInv, LockOK, HolderOK
    <2>2. lock'[m] = r => ~Commit(r) /\ ~Fails(r)
      BY LocksStep
    <2>3. rows'[m] = rows[m]
      BY <1>1, <2>2, RowsStep
    <2>4. gathering'
      BY <1>0, <2>1, ArrivalStep, KeepStep DEF HolderOK, Step
    <2>5. CASE h # r
      <3>1. UNCHANGED <<phase[h], job[h], loaded[h]>> /\ (h \in attempted => h \in attempted')
        BY <1>0, <2>5, RequestStep, ArrivalStep, KeepStep DEF Step, GoesOn, SkipSent,
           LoadReminder, LookUp, InsertReminder, SkipUpdate, UpdateRow, DeleteRow, Refresh,
           Publish, Commit
      <3>2. HolderOK(h, m)'
        BY <1>1, <2>1, <2>3, <2>4, <3>1 DEF HolderOK, HasFlushed, IsDispatch, Does, Target
      <3> QED
        BY <1>1, <2>1, <3>2
    <2>6. CASE h = r
      <3>1. Refresh(r) \/ Publish(r)
        BY <1>0, <1>1, <2>1, <2>2, <2>6, ArrivalStep DEF HolderOK, HasFlushed, Step, GoesOn,
           SkipSent, LoadReminder, LookUp, InsertReminder, SkipUpdate, UpdateRow, DeleteRow
      <3>2. job' = job
        BY <1>0, <3>1, KeepStep DEF GoesOn
      <3>3. CASE Refresh(r)
        <4>1. /\ loaded'[r] = draft[m] /\ attempted' = attempted
              /\ phase'[r] = IF IsDispatch(r) THEN "publish" ELSE "commit"
          BY <1>0, <2>1, <2>6, <3>3 DEF Refresh, Visible, Holds, HolderOK, Goto, TypeOK
        <4>2. HolderOK(r, m)'
          BY <1>1, <2>1, <2>3, <2>4, <2>6, <3>2, <4>1
             DEF HolderOK, HasFlushed, IsDispatch, Does, Target
        <4> QED
          BY <1>1, <2>1, <2>6, <4>2
      <3>4. CASE Publish(r)
        <4>1. phase'[r] = "commit" /\ r \in attempted'
          BY <1>0, <3>4 DEF Publish, Goto, TypeOK
        <4>2. HolderOK(r, m)'
          BY <1>1, <2>1, <2>3, <2>4, <2>6, <3>2, <4>1
             DEF HolderOK, HasFlushed, IsDispatch, Does, Target
        <4> QED
          BY <1>1, <2>1, <2>6, <4>2
      <3> QED
        BY <3>1, <3>3, <3>4
    <2> QED
      BY <2>5, <2>6
  <1>2. CASE lock'[m] = r /\ Target(r) = m /\ InsertReminder(r) /\ draft'[m] = Fresh
    <2>1. /\ rows[m] = NoRow /\ rows' = rows /\ job' = job /\ phase'[r] = "refresh"
          /\ job[r] \in Job /\ gathering'
      BY <1>0, <1>2, Creating DEF InsertReminder, Running, Phase, Over, Goto, TypeOK, SessionOK
    <2> QED
      BY <1>2, <2>1 DEF HolderOK, HasFlushed, InsertReminder, IsDispatch, Does, Target
  <1>3. CASE lock'[m] = r /\ Target(r) = m /\ UpdateRow(r) /\ draft'[m] = Updated(r)
    <2>1. /\ rows' = rows /\ job' = job /\ phase'[r] = "refresh" /\ phase[r] = "flush"
          /\ Visible(r) # NoRow /\ gathering' = gathering /\ phase[r] \in Running
          /\ Does(r, {"update", "send", "fire"})
      BY <1>0, <1>3 DEF UpdateRow, Goto, TypeOK, Running, Phase, Over
    <2>2. Visible(r) = rows[m]
      BY <1>3, <2>1 DEF Visible, Holds, IInv, LockOK, HolderOK, HasFlushed
    <2>3. gathering'
      BY <2>1, <2>2 DEF IInv, NoOrphans
    <2>4. /\ Updated(r) \in Row /\ rows[m] \in Row /\ job[r] \in Job
          /\ IsDispatch(r) => Updated(r).sent /\ Updated(r).text = rows[m].text
          /\ ~IsDispatch(r) => /\ Updated(r).sent = rows[m].sent
                               /\ Updated(r).text = job[r].text
      BY <1>0, <2>1, <2>2, UpdatedTyped, JobOf
    <2> QED
      BY <1>3, <2>1, <2>3, <2>4 DEF HolderOK, HasFlushed, IsDispatch, Does, Target
  <1>4. CASE /\ lock'[m] = r /\ Target(r) = m /\ DeleteRow(r) /\ Visible(r) # NoRow
             /\ draft'[m] = NoRow
    <2>1. /\ rows' = rows /\ job' = job /\ phase'[r] = "commit" /\ phase[r] = "flush"
          /\ gathering' = gathering /\ phase[r] \in Running /\ Does(r, {"delete"})
      BY <1>0, <1>4 DEF DeleteRow, Goto, TypeOK, Running, Phase, Over
    <2>2. Visible(r) = rows[m]
      BY <1>4, <2>1 DEF Visible, Holds, IInv, LockOK, HolderOK, HasFlushed
    <2>3. gathering' /\ rows[m] \in Row /\ job[r] \in Job
      BY <1>0, <1>4, <2>1, <2>2, JobOf DEF IInv, NoOrphans
    <2> QED
      BY <1>4, <2>1, <2>3 DEF HolderOK, HasFlushed, IsDispatch, Does, Target
  <1> QED
    BY <1>1, <1>2, <1>3, <1>4, LocksStep

-----------------------------------------------------------------------------
(* Sessions and ids *)

LEMMA SessionStep ==
  ASSUME IInv, NEW r \in Request, Step(r)
  PROVE  SessionOK'
  <1>0. TypeOK /\ SessionOK
    BY DEF IInv
  <1>1. /\ phase[r] \notin Over
        /\ \A q \in Request : q # r =>
             UNCHANGED <<phase[q], job[q], loaded[q], before[q]>>
    BY <1>0, RequestStep
  <1>2. \A q \in Request : before'[q] \subseteq {p \in Request : phase'[p] \in Over}
    <2>1. before'[r] = before[r] \/ before'[r] = {q \in Request : phase[q] \in Over}
      BY <1>0, ArrivalStep, KeepStep DEF Step
    <2> QED
      BY <1>0, <1>1, <2>1 DEF SessionOK, Over
  <1>3. ASSUME NEW q \in attempted'
        PROVE  IsDispatch(q)' /\ phase'[q] \in {"commit", "done", "failed"}
    <2>1. CASE q \in attempted
      <3>1. q \in Request /\ IsDispatch(q) /\ phase[q] \in {"commit", "done", "failed"}
        BY <1>0, <2>1 DEF SessionOK, TypeOK
      <3>2. CASE q # r
        BY <1>1, <3>1, <3>2 DEF IsDispatch, Does
      <3>3. CASE q = r
        <4>1. Commit(r) \/ Fails(r)
          BY <1>0, <1>1, <3>1, <3>3, ArrivalStep DEF Over, Step, GoesOn, SkipSent,
             LoadReminder, LookUp, InsertReminder, SkipUpdate, UpdateRow, DeleteRow,
             Refresh, Publish
        <4> QED
          BY <1>0, <3>1, <3>3, <4>1, KeepStep DEF Commit, Goto, TypeOK, IsDispatch, Does,
             GoesOn
      <3> QED
        BY <3>2, <3>3
    <2>2. CASE q \notin attempted
      <3>1. Publish(r) /\ q = r
        BY <1>0, <2>2, ArrivalStep, KeepStep DEF Step, GoesOn, SkipSent, LoadReminder, LookUp,
           InsertReminder, SkipUpdate, UpdateRow, DeleteRow, Refresh, Publish, Commit
      <3> QED
        BY <1>0, <3>1 DEF Publish, SessionOK, IsDispatch, Does, Goto, TypeOK
    <2> QED
      BY <2>1, <2>2
  <1>4. /\ phase'[r] # "new"
        /\ phase'[r] \in Running \cup {"done"} => job'[r] \in Job
        /\ phase'[r] = "load" => ~Does(r, {"create"})'
        /\ phase'[r] \in {"lookup", "publish"} => IsDispatch(r)'
    <2>1. CASE Arrives(r)
      BY <1>0, <2>1, ArrivalStep DEF TypeOK
    <2>2. CASE Fails(r)
      BY <1>0, <2>2, KeepStep DEF Running, Phase, Over
    <2>3. CASE GoesOn(r)
      <3>1. job' = job /\ job[r] \in Job
        BY <1>0, <2>3, KeepStep, JobOf
      <3>2. /\ phase'[r] \notin {"new", "load"}
            /\ phase'[r] \in {"lookup", "publish"} => IsDispatch(r)
        BY <1>0, <2>3 DEF GoesOn, SkipSent, LoadReminder, LookUp, InsertReminder, SkipUpdate,
           UpdateRow, DeleteRow, Refresh, Publish, Commit, Goto, TypeOK, IsDispatch, Does
      <3> QED
        BY <3>1, <3>2 DEF IsDispatch, Does
    <2> QED
      BY <2>1, <2>2, <2>3 DEF Step
  <1> QED
    BY <1>0, <1>1, <1>2, <1>3, <1>4 DEF SessionOK, IsDispatch, Does

LEMMA FlushedStep ==
  ASSUME IInv, NEW r \in Request, Step(r)
  PROVE  FlushedOK'
  <1> SUFFICES ASSUME NEW q \in Request, Does(q, {"create", "send", "fire"})', HasFlushed(q)'
               PROVE  Holds(q)'
    BY DEF FlushedOK
  <1>0. TypeOK /\ SessionOK
    BY DEF IInv
  <1>1. CASE q # r
    <2>1. UNCHANGED <<phase[q], job[q]>>
      BY <1>0, <1>1, RequestStep
    <2>2. Holds(q) /\ Target(q) \in Reminder
      BY <1>0, <2>1, JobOf DEF IInv, FlushedOK, Does, HasFlushed, Running, Phase, Over
    <2>3. rows[Target(q)] = NoRow => Does(q, {"create"})
      BY <2>2 DEF Holds, IInv, LockOK, HolderOK
    <2>4. lock'[Target(q)] = q
      <3>1. ~InsertReminder(r) \/ Target(r) # Target(q)
        BY <1>1, <2>2, Creating DEF InsertReminder, Running, Phase, Over, Holds
      <3> QED
        BY <1>1, <2>2, <3>1, LocksStep DEF Holds, UpdateRow, DeleteRow, CanLock
    <2> QED
      BY <2>1, <2>2, <2>4 DEF Holds, Target
  <1>2. CASE q = r
    <2>1. GoesOn(r)
      BY <1>0, <1>2, ArrivalStep, KeepStep DEF Step, HasFlushed, TypeOK
    <2>2. job' = job /\ Does(r, {"create", "send", "fire"}) /\ Target(r) \in Reminder
      BY <1>0, <1>2, <2>1, KeepStep, JobOf DEF Does
    <2>3. InsertReminder(r) \/ UpdateRow(r) \/ Refresh(r) \/ Publish(r)
      BY <1>0, <1>2, <2>1, <2>2 DEF GoesOn, SkipSent, LoadReminder, LookUp, SkipUpdate,
         DeleteRow, Commit, Goto, TypeOK, HasFlushed, Does, WritesNothing
    <2>4. CASE InsertReminder(r) \/ UpdateRow(r)
      BY <1>0, <1>2, <2>2, <2>4 DEF InsertReminder, UpdateRow, Write, Holds, Target, TypeOK, Does
    <2>5. CASE Refresh(r) \/ Publish(r)
      <3>1. Holds(r) /\ lock' = lock
        BY <2>2, <2>5 DEF Refresh, Publish, IInv, FlushedOK, HasFlushed
      <3> QED
        BY <1>2, <2>2, <3>1 DEF Holds, Target
    <2> QED
      BY <2>3, <2>4, <2>5
  <1> QED
    BY <1>1, <1>2

(* A target stays one, and an attempt is of a row that is there. *)
LEMMA AttemptStep ==
  ASSUME IInv, NEW r \in Request, Step(r)
  PROVE  /\ \A q \in attempted : Target(q)' = Target(q) /\ Target(q) \in Reminder
         /\ attempted \subseteq attempted'
         /\ \A q \in attempted' \ attempted :
              /\ q = r /\ Publish(r) /\ IsDispatch(r) /\ Target(r)' = Target(r)
              /\ Target(r) \in Reminder /\ rows[Target(r)] # NoRow /\ lock[Target(r)] = r
              /\ phase'[r] = "commit"
  <1>0. TypeOK /\ SessionOK
    BY DEF IInv
  <1>1. ASSUME NEW q \in attempted PROVE Target(q)' = Target(q) /\ Target(q) \in Reminder
    <2>1. q \in Request /\ IsDispatch(q) /\ phase[q] # "new"
      BY <1>0 DEF SessionOK, TypeOK
    <2>2. job'[q] = job[q]
      BY <1>0, <2>1, RequestStep, ArrivalStep, KeepStep DEF Step
    <2>3. job[q] \in Job
      BY <1>0, <2>1 DEF TypeOK, IsDispatch, Does
    <2> QED
      BY <2>2, <2>3 DEF Target, Job
  <1>2. attempted' = attempted \/ Publish(r)
    BY <1>0, ArrivalStep, KeepStep DEF Step, GoesOn, SkipSent, LoadReminder, LookUp,
       InsertReminder, SkipUpdate, UpdateRow, DeleteRow, Refresh, Publish, Commit
  <1>3. ASSUME Publish(r)
        PROVE  /\ attempted' = attempted \cup {r} /\ IsDispatch(r) /\ Target(r)' = Target(r)
               /\ Target(r) \in Reminder /\ rows[Target(r)] # NoRow /\ lock[Target(r)] = r
               /\ phase'[r] = "commit"
    <2>1. IsDispatch(r) /\ HasFlushed(r)
      BY <1>0, <1>3 DEF Publish, SessionOK, HasFlushed
    <2> QED
      BY <1>0, <1>3, <2>1, Dispatching DEF Publish, HolderOK, Does, Target, Goto, TypeOK
  <1> QED
    BY <1>1, <1>2, <1>3

LEMMA IdsStep ==
  ASSUME IInv, NEW r \in Request, Step(r)
  PROVE  IdsOK'
  <1>0. TypeOK /\ SessionOK
    BY DEF IInv
  (* An id that no row has stays so, except for its creator's commit. *)
  <1>1. ASSUME NEW m \in Reminder, rows[m] = NoRow, Unsent(m),
               ~(Commit(r) /\ Does(r, {"create"}) /\ Target(r) = m)
        PROVE  rows'[m] = NoRow /\ Unsent(m)'
    <2>1. rows'[m] = NoRow
      BY <1>1, RowsStep DEF IInv, LockOK, HolderOK
    <2>2. Unsent(m)'
      BY <1>1, AttemptStep DEF Unsent
    <2> QED
      BY <2>1, <2>2
  <1>2. ASSUME NEW m \in unused'
        PROVE  /\ rows'[m] = NoRow /\ Unsent(m)'
               /\ \A q \in Request : Does(q, {"create"})' => Target(q)' # m
    <2>1. m \in unused /\ m \in Reminder
      BY <1>0, <1>2, ArrivalStep, KeepStep DEF Step, TypeOK
    <2>2. rows'[m] = NoRow /\ Unsent(m)'
      BY <1>1, <2>1 DEF IInv, IdsOK
    <2>3. ASSUME NEW q \in Request, Does(q, {"create"})' PROVE Target(q)' # m
      <3>1. CASE job'[q] = job[q]
        BY <2>1, <2>3, <3>1 DEF IInv, IdsOK, Does, Target
      <3>2. CASE job'[q] # job[q]
        <4>1. q = r /\ Arrives(r)
          BY <1>0, <3>2, RequestStep, KeepStep DEF Step
        <4> QED
          BY <1>0, <1>2, <2>3, <4>1, ArrivalStep
      <3> QED
        BY <3>1, <3>2
    <2> QED
      BY <2>2, <2>3
  <1>3. ASSUME NEW p \in Request, Does(p, {"create"})', phase'[p] \in Running
        PROVE  /\ rows'[Target(p)'] = NoRow /\ Unsent(Target(p))' /\ Target(p)' \notin unused'
               /\ \A q \in Request : q # p /\ Does(q, {"create"})' => Target(q)' # Target(p)'
    <2>1. CASE p = r /\ Arrives(r)
      <3>1. PICK m \in unused : m = Target(r)' /\ unused' = unused \ {m}
        BY <1>0, <1>3, <2>1, ArrivalStep
      <3>2. m \in Reminder /\ rows'[m] = NoRow /\ Unsent(m)'
        <4>1. ~Commit(r)
          BY <1>0, <2>1, ArrivalStep DEF Commit
        <4> QED
          BY <1>0, <1>1, <3>1, <4>1 DEF IInv, IdsOK, TypeOK
      <3>3. Unsent(Target(p))'
        BY <2>1, <3>1, <3>2 DEF Unsent
      <3>4. ASSUME NEW q \in Request, q # p, Does(q, {"create"})' PROVE Target(q)' # m
        BY <1>0, <2>1, <3>1, <3>4, RequestStep DEF IInv, IdsOK, Does, Target
      <3> QED
        BY <2>1, <3>1, <3>2, <3>3, <3>4
    <2>2. CASE ~(p = r /\ Arrives(r))
      <3>1. job'[p] = job[p] /\ Does(p, {"create"}) /\ Target(p)' = Target(p)
        BY <1>0, <1>3, <2>2, RequestStep, KeepStep DEF Step, Does, Target
      <3>2. phase[p] \in Running
        BY <1>0, <1>3, <2>2, RequestStep, KeepStep DEF Step, Running, Over, Phase
      <3>3. PICK m \in Reminder : m = Target(p)
        BY <1>0, <3>2, JobOf
      <3>4. /\ rows[m] = NoRow /\ Unsent(m) /\ m \notin unused
            /\ \A q \in Request : q # p /\ Does(q, {"create"}) => Target(q) # m
        BY <3>1, <3>2, <3>3 DEF IInv, IdsOK
      <3>5. ~(Commit(r) /\ Does(r, {"create"}) /\ Target(r) = m)
        BY <1>0, <1>3, <3>3, <3>4 DEF Commit, Goto, TypeOK, Running, Over
      <3>6. rows'[m] = NoRow /\ Unsent(m)'
        BY <1>1, <3>4, <3>5
      <3>7. m \notin unused'
        BY <1>0, <3>4, ArrivalStep, KeepStep DEF Step
      <3>8. ASSUME NEW q \in Request, q # p, Does(q, {"create"})' PROVE Target(q)' # m
        <4>1. CASE job'[q] = job[q]
          BY <3>4, <3>8, <4>1 DEF Does, Target
        <4>2. CASE job'[q] # job[q]
          <5>1. q = r /\ Arrives(r)
            BY <1>0, <4>2, RequestStep, KeepStep DEF Step
          <5> QED
            BY <1>0, <3>4, <3>8, <5>1, ArrivalStep
        <4> QED
          BY <4>1, <4>2
      <3> QED
        BY <3>1, <3>3, <3>6, <3>7, <3>8 DEF Unsent
    <2> QED
      BY <2>1, <2>2
  <1> QED
    BY <1>2, <1>3 DEF IdsOK

-----------------------------------------------------------------------------
(* Events and marks *)

(* What another request holds, a step leaves alone. *)
LEMMA HeldStep ==
  ASSUME IInv, NEW r \in Request, Step(r), NEW m \in Reminder, lock[m] \notin {NoRequest, r}
  PROVE  lock'[m] = lock[m] /\ draft'[m] = draft[m]
  <1>1. ~(InsertReminder(r) /\ Target(r) = m)
    BY Creating DEF InsertReminder, Running, Phase, Over
  <1>2. ~((UpdateRow(r) \/ DeleteRow(r)) /\ Target(r) = m)
    BY DEF UpdateRow, DeleteRow, CanLock
  <1> QED
    BY <1>1, <1>2, LocksStep

(* What changes a row, as its holder. *)
LEMMA CommitChanges ==
  ASSUME IInv, NEW r \in Request, Step(r), NEW m \in Reminder, rows'[m] # rows[m]
  PROVE  /\ Commit(r) /\ Target(r) = m /\ rows'[m] = draft[m] /\ HolderOK(r, m)
         /\ phase[r] = "commit" /\ phase'[r] = "done"
         /\ job[r] # NoJob /\ job[r].op \in Op
  <1>1. Commit(r) /\ Target(r) = m /\ lock[m] = r /\ rows'[m] = draft[m]
    BY RowsStep
  <1>2. HolderOK(r, m)
    BY <1>1 DEF IInv, LockOK
  <1>3. job[r] # NoJob /\ job[r].op \in Op
    BY <1>2 DEF HolderOK, Job
  <1> QED
    BY <1>1, <1>2, <1>3 DEF Commit, Goto, IInv, TypeOK

LEMMA MarkKept ==
  ASSUME IInv, NEW r \in Request, Step(r), NEW m \in Reminder, IsSent(rows[m]),
         rows'[m] # NoRow
  PROVE  rows'[m].sent
  <1>1. CASE rows'[m] = rows[m]
    BY <1>1 DEF IsSent
  <1>2. CASE rows'[m] # rows[m]
    <2>1. /\ rows'[m] = draft[m] /\ HolderOK(r, m) /\ job[r] # NoJob /\ job[r].op \in Op
      BY <1>2, CommitChanges
    <2> QED
      BY <2>1 DEF HolderOK, Does, IsDispatch, Op, IsSent
  <1> QED
    BY <1>1, <1>2

LEMMA EventsStep ==
  ASSUME IInv, NEW r \in Request, Step(r)
  PROVE  EventsOK'
  <1> SUFFICES ASSUME NEW e \in events'
               PROVE  /\ e.by \in attempted' /\ e.reminder = Target(e.by)'
                      /\ phase'[e.by] = "commit" => draft'[e.reminder].text = e.text
    BY DEF EventsOK
  <1>0. TypeOK /\ SessionOK
    BY DEF IInv
  <1>1. CASE e \in events
    <2>1. PICK q \in attempted :
            /\ q = e.by /\ e.reminder = Target(q) /\ q \in Request
            /\ phase[q] = "commit" => draft[e.reminder].text = e.text
      BY <1>0, <1>1 DEF IInv, EventsOK, TypeOK
    <2>2. q \in attempted' /\ Target(q)' = Target(q) /\ Target(q) \in Reminder
      BY AttemptStep
    <2>3. ASSUME phase'[q] = "commit" PROVE draft'[e.reminder].text = e.text
      <3>1. CASE q = r
        <4>1. phase[r] = "commit"
          BY <1>0, <3>1, RequestStep DEF SessionOK, Over
        <4>2. Commit(r) \/ Fails(r)
          BY <1>0, <4>1, ArrivalStep DEF Step, GoesOn, SkipSent, LoadReminder, LookUp,
             InsertReminder, SkipUpdate, UpdateRow, DeleteRow, Refresh, Publish
        <4> QED
          BY <1>0, <2>3, <3>1, <4>2 DEF Commit, Fails, Fail, Goto, TypeOK
      <3>2. CASE q # r
        <4>1. phase[q] = "commit" /\ IsDispatch(q)
          BY <1>0, <2>1, <2>3, <3>2, RequestStep DEF SessionOK
        <4>2. lock[Target(q)] = q
          BY <2>1, <4>1, Dispatching DEF HasFlushed
        <4>3. draft'[Target(q)] = draft[Target(q)]
          BY <2>1, <2>2, <3>2, <4>2, HeldStep
        <4> QED
          BY <2>1, <4>1, <4>3
      <3> QED
        BY <3>1, <3>2
    <2> QED
      BY <2>1, <2>2, <2>3
  <1>2. CASE e \notin events
    <2>1. Publish(r) /\ e = Event(r)
      BY <1>0, <1>2, ArrivalStep, KeepStep DEF Step, GoesOn, SkipSent, LoadReminder, LookUp,
         InsertReminder, SkipUpdate, UpdateRow, DeleteRow, Refresh, Publish, Commit
    <2>2. IsDispatch(r) /\ HasFlushed(r) /\ phase[r] = "publish"
      BY <1>0, <2>1 DEF Publish, SessionOK, HasFlushed
    <2>3. loaded[r] = draft[Target(r)]
      BY <2>2, Dispatching DEF HolderOK
    <2> QED
      BY <2>1, <2>3 DEF Publish, Event, Target
  <1> QED
    BY <1>1, <1>2

LEMMA MarksStep ==
  ASSUME IInv, NEW r \in Request, Step(r)
  PROVE  MarksOK'
  <1> SUFFICES ASSUME NEW q \in attempted', phase'[q] = "done", rows'[Target(q)'] # NoRow
               PROVE  rows'[Target(q)'].sent
    BY DEF MarksOK
  <1>0. TypeOK /\ SessionOK
    BY DEF IInv
  <1>1. q \in attempted /\ Target(q)' = Target(q)
    BY AttemptStep
  <1>2. PICK m \in Reminder : m = Target(q)
    BY <1>1, AttemptStep
  <1>3. q \in Request /\ IsDispatch(q) /\ phase[q] \in {"commit", "done", "failed"}
    BY <1>0, <1>1 DEF SessionOK, TypeOK
  <1>4. CASE q = r
    <2>1. phase[r] = "commit"
      BY <1>0, <1>3, <1>4, RequestStep DEF Over
    <2>2. Commit(r)
      BY <1>0, <1>4, <2>1, ArrivalStep DEF Step, GoesOn, SkipSent, LoadReminder, LookUp,
         InsertReminder, SkipUpdate, UpdateRow, DeleteRow, Refresh, Publish, Fails, Fail,
         Goto, TypeOK
    <2>3. Visible(r) = draft[m] /\ draft[m].sent
      BY <1>2, <1>3, <1>4, <2>1, Dispatching DEF HasFlushed, HolderOK
    <2> QED
      BY <1>0, <1>1, <1>2, <1>4, <2>2, <2>3 DEF Commit, TypeOK
  <1>5. CASE q # r
    <2>1. phase[q] = "done"
      BY <1>0, <1>3, <1>5, RequestStep
    <2>2. rows[m] # NoRow => IsSent(rows[m])
      BY <1>1, <1>2, <2>1 DEF IInv, MarksOK, IsSent
    <2>3. rows[m] # NoRow
      <3> SUFFICES ASSUME rows[m] = NoRow PROVE FALSE
        OBVIOUS
      <3>1. HolderOK(r, m) /\ Target(r) = m /\ phase[r] = "commit"
        BY <1>1, <1>2, CommitChanges
      <3>2. Does(r, {"create"})
        BY <3>1 DEF HolderOK
      <3>3. Unsent(m)
        BY <3>1, <3>2 DEF IInv, IdsOK, Running, Phase, Over
      <3> QED
        BY <1>1, <1>2, <3>3 DEF Unsent
    <2> QED
      BY <1>1, <1>2, <2>2, <2>3, MarkKept
  <1> QED
    BY <1>4, <1>5

LEMMA RetriesStep ==
  ASSUME IInv, NEW r \in Request, Step(r)
  PROVE  RetriesOK'
  <1> SUFFICES ASSUME NEW q \in Request, PastCheck(q)', NEW s \in attempted',
                      s \in before'[q], phase'[s] = "done"
               PROVE  Target(s)' # Target(q)'
    BY DEF RetriesOK
  <1>0. TypeOK /\ SessionOK
    BY DEF IInv
  <1>1. s \in attempted /\ Target(s)' = Target(s) /\ s \in Request
    BY <1>0, AttemptStep DEF TypeOK
  <1>2. ~(q = r /\ Arrives(r))
    <2> SUFFICES ASSUME q = r, Arrives(r) PROVE FALSE
      OBVIOUS
    <2>1. r \notin attempted'
      BY <1>0, ArrivalStep DEF SessionOK
    <2>2. Does(r, {"create"})' /\ IsDispatch(r)'
      BY <1>0, <2>1, ArrivalStep DEF PastCheck, TypeOK
    <2> QED
      BY <2>2 DEF IsDispatch, Does
  <1>3. job'[q] = job[q] /\ before'[q] = before[q] /\ Target(q)' = Target(q)
    BY <1>0, <1>2, RequestStep, KeepStep DEF Step, Target
  <1>4. phase[s] = "done"
    BY <1>0, <1>1, <1>3, RequestStep DEF SessionOK
  <1>5. CASE PastCheck(q)
    BY <1>1, <1>3, <1>4, <1>5 DEF IInv, RetriesOK
  <1>6. CASE ~PastCheck(q)
    <2>1. q = r
      <3> SUFFICES ASSUME q # r PROVE FALSE
        OBVIOUS
      <3>1. phase'[q] = phase[q] /\ (q \in attempted' => q \in attempted)
        BY <1>0, RequestStep, AttemptStep
      <3> QED
        BY <1>3, <1>6, <3>1 DEF PastCheck, IsDispatch, Does
    <2>2. GoesOn(r) \/ Fails(r)
      BY <1>2, <2>1 DEF Step
    <2>3. r \notin attempted'
      <3>1. Publish(r) /\ r \notin attempted => PastCheck(r)
        BY <1>0 DEF Publish, SessionOK, PastCheck
      <3> QED
        BY <1>6, <2>1, <3>1, AttemptStep DEF PastCheck
    <2>4. IsDispatch(r) /\ phase'[r] \in {"lookup", "flush", "refresh", "publish"}
      BY <1>3, <2>1, <2>3 DEF PastCheck, IsDispatch, Does
    <2>5. LoadReminder(r)
      BY <1>0, <1>6, <2>1, <2>2, <2>4, KeepStep DEF PastCheck, GoesOn, SkipSent, LookUp,
         InsertReminder, SkipUpdate, UpdateRow, DeleteRow, Refresh, Publish, Commit, Goto,
         TypeOK
    <2>6. rows[Target(r)] # NoRow /\ ~rows[Target(r)].sent
      BY <2>4, <2>5 DEF LoadReminder, IsDispatch, Does
    <2> QED
      BY <1>1, <1>3, <1>4, <2>1, <2>6 DEF IInv, MarksOK
  <1> QED
    BY <1>5, <1>6

LEMMA SentStep ==
  ASSUME IInv, NEW r \in Request, Step(r)
  PROVE  SentWasAttempted'
  <1> SUFFICES ASSUME NEW m \in Reminder, rows'[m] # NoRow, rows'[m].sent
               PROVE  \E q \in attempted' : Target(q)' = m
    BY DEF SentWasAttempted
  <1>1. CASE IsSent(rows[m])
    BY <1>1, AttemptStep DEF IInv, SentWasAttempted, IsSent
  <1>2. CASE ~IsSent(rows[m])
    <2>1. /\ Commit(r) /\ Target(r) = m /\ rows'[m] = draft[m] /\ HolderOK(r, m)
          /\ phase[r] = "commit" /\ job[r] # NoJob /\ job[r].op \in Op
      BY <1>2, CommitChanges DEF IsSent
    <2>2. IsDispatch(r)
      BY <1>2, <2>1 DEF HolderOK, IsDispatch, Does, Op, Fresh, Row, IsSent
    <2>3. r \in attempted
      BY <2>1, <2>2 DEF HolderOK
    <2> QED
      BY <2>1, <2>3, AttemptStep
  <1> QED
    BY <1>1, <1>2

LEMMA OrphansStep ==
  ASSUME IInv, NEW r \in Request, Step(r)
  PROVE  NoOrphans'
  <1> SUFFICES ASSUME ~gathering', NEW m \in Reminder PROVE rows'[m] = NoRow
    BY DEF NoOrphans
  <1>1. ~gathering
    BY ArrivalStep, KeepStep DEF Step, IInv
  <1> QED
    BY <1>1, CommitChanges DEF IInv, NoOrphans, HolderOK

-----------------------------------------------------------------------------
(* The invariant *)

(* A gathering is deleted when nobody holds one of its reminders. *)
LEMMA DeletionKeeps ==
  ASSUME IInv, DeleteGathering
  PROVE  IInv'
  <1>0. TypeOK /\ SessionOK
    BY DEF IInv
  <1>1. /\ UNCHANGED <<unused, lock, draft, job, phase, loaded, attempted, events, before>>
        /\ ~gathering'
        /\ \A m \in Reminder : lock[m] = NoRequest /\ rows'[m] = NoRow
    BY DeletionStep
  <1>2. TypeOK'
    BY NextTyped DEF Next
  <1>3. SessionOK' /\ EventsOK' /\ RetriesOK'
    BY <1>1 DEF IInv, SessionOK, EventsOK, RetriesOK, PastCheck, IsDispatch, Does, Target
  <1>4. LockOK' /\ SentWasAttempted' /\ NoOrphans'
    BY <1>1 DEF LockOK, SentWasAttempted, NoOrphans
  <1>5. FlushedOK'
    BY <1>1 DEF IInv, FlushedOK, HasFlushed, Holds, Does, Target
  <1>6. MarksOK'
    <2> SUFFICES ASSUME NEW q \in attempted PROVE rows'[Target(q)] = NoRow
      BY <1>1 DEF MarksOK, Target
    <2>1. q \in Request /\ job[q] \in Job
      BY <1>0 DEF SessionOK, TypeOK, IsDispatch, Does
    <2> QED
      BY <1>1, <2>1 DEF Job, Target
  <1>7. IdsOK'
    <2>1. ASSUME NEW r \in Request, phase[r] \in Running PROVE Target(r) \in Reminder
      BY <1>0, <2>1, JobOf
    <2> QED
      BY <1>0, <1>1, <2>1 DEF IInv, IdsOK, Unsent, Does, Target, TypeOK
  <1> QED
    BY <1>2, <1>3, <1>4, <1>5, <1>6, <1>7 DEF IInv

LEMMA Initially == Init => IInv
  <1> SUFFICES ASSUME Init PROVE IInv
    OBVIOUS
  <1>1. TypeOK
    BY InitTyped
  <1>2. \A r \in Request : phase[r] = "new" /\ job[r] = NoJob /\ before[r] = {}
    BY DEF Init
  <1>3. /\ attempted = {} /\ events = {} /\ gathering
        /\ \A m \in Reminder : /\ lock[m] = NoRequest
                               /\ m \in unused => rows[m] = NoRow
                               /\ rows[m] # NoRow => ~rows[m].sent
    BY DEF Init, Fresh
  <1>4. SessionOK
    BY <1>2, <1>3 DEF SessionOK, Running, Over, Phase
  <1>5. LockOK /\ EventsOK /\ MarksOK /\ SentWasAttempted /\ NoOrphans
    BY <1>3 DEF LockOK, EventsOK, MarksOK, SentWasAttempted, NoOrphans
  <1>6. FlushedOK /\ RetriesOK
    BY <1>2, <1>3 DEF FlushedOK, Does, RetriesOK, PastCheck, IsDispatch
  <1>7. IdsOK
    BY <1>1, <1>2, <1>3 DEF IdsOK, Unsent, Does, TypeOK
  <1> QED
    BY <1>1, <1>4, <1>5, <1>6, <1>7 DEF IInv

LEMMA Steps == IInv /\ [Next]_vars => IInv'
  <1> SUFFICES ASSUME IInv, [Next]_vars PROVE IInv'
    OBVIOUS
  <1>1. ASSUME NEW r \in Request, Step(r), Next PROVE IInv'
    <2>1. TypeOK'
      BY <1>1, NextTyped
    <2> QED
      BY <1>1, <2>1, SessionStep, LockStep, FlushedStep, IdsStep, EventsStep, MarksStep,
         RetriesStep, SentStep, OrphansStep DEF IInv
  <1>2. CASE UNCHANGED vars
    BY <1>2 DEF vars, IInv, TypeOK, SessionOK, LockOK, HolderOK, FlushedOK, HasFlushed, IdsOK,
       Unsent, EventsOK, MarksOK, RetriesOK, PastCheck, IsDispatch, Does, SentWasAttempted,
       NoOrphans, Holds, Target
  <1> QED
    BY <1>1, <1>2, StepCases, DeletionKeeps

(* Whatever the requests and however they interleave, the invariant holds. *)
THEOREM RemindersInvariant == Spec => []IInv
  BY Initially, Steps, PTL DEF Spec, Safety

-----------------------------------------------------------------------------
(* What follows from it *)

(* Rows, drafts, sessions and events keep their types. *)
THEOREM RemindersTyped == Spec => []TypeOK
  <1>1. IInv => TypeOK
    BY DEF IInv
  <1> QED
    BY <1>1, RemindersInvariant, PTL

(* _do_dispatch: no row says it was sent unless SNS was called for it.     *)
THEOREM SentAttempted == Spec => []SentWasAttempted
  <1>1. IInv => SentWasAttempted
    BY DEF IInv
  <1> QED
    BY <1>1, RemindersInvariant, PTL

(* dispatch_reminder_by_id: skipping sent reminders makes a later dispatch *)
(* silent.                                                                 *)
THEOREM RetriesSilent == Spec => []RetryIsSilent
  <1>1. IInv => RetryIsSilent
    BY DEF IInv, RetriesOK, PastCheck, RetryIsSilent, TypeOK
  <1> QED
    BY <1>1, RemindersInvariant, PTL

(* ReminderModel: the foreign key leaves no reminder without a gathering.  *)
THEOREM OrphansGone == Spec => []NoOrphans
  <1>1. IInv => NoOrphans
    BY DEF IInv
  <1> QED
    BY <1>1, RemindersInvariant, PTL

(* _do_dispatch: the row a dispatch commits says what its event said.      *)
THEOREM EventsShowRows == Spec => EventShowsTheRow
  <1> DEFINE Shows == \A e \in events :
        phase[e.by] = "commit" /\ phase'[e.by] = "done" =>
          rows'[e.reminder] = [sent |-> TRUE, text |-> e.text]
  <1>1. ASSUME IInv, [Next]_vars PROVE [Shows]_vars
    <2> SUFFICES ASSUME Next, NEW e \in events, phase[e.by] = "commit", phase'[e.by] = "done"
                 PROVE  rows'[e.reminder] = [sent |-> TRUE, text |-> e.text]
      BY <1>1
    <2>0. TypeOK /\ SessionOK
      BY <1>1 DEF IInv
    <2>1. PICK r \in Request : Step(r)
      BY StepCases, DeletionStep
    <2>2. /\ e.by \in Request /\ IsDispatch(e.by) /\ e.reminder = Target(e.by)
          /\ draft[e.reminder].text = e.text
      BY <1>1, <2>0 DEF IInv, EventsOK, SessionOK, TypeOK
    <2>3. e.by = r
      BY <2>0, <2>1, <2>2, RequestStep
    <2>4. Commit(r)
      BY <2>0, <2>1, <2>3, ArrivalStep DEF Step, GoesOn, SkipSent, LoadReminder, LookUp,
         InsertReminder, SkipUpdate, UpdateRow, DeleteRow, Refresh, Publish, Fails, Fail,
         Goto, TypeOK
    <2>5. /\ Target(r) \in Reminder /\ Visible(r) = draft[Target(r)]
          /\ draft[Target(r)] \in Row /\ draft[Target(r)].sent
      BY <1>1, <2>2, <2>3, Dispatching DEF HasFlushed, HolderOK
    <2>6. rows'[e.reminder] = draft[e.reminder]
      BY <2>0, <2>2, <2>3, <2>4, <2>5 DEF Commit, TypeOK
    <2> QED
      BY <2>2, <2>3, <2>5, <2>6 DEF Row
  <1> QED
    BY <1>1, RemindersInvariant, PTL DEF Spec, Safety, EventShowsTheRow

(* update, _do_dispatch: an UPDATE names the columns that changed, so an   *)
(* edit leaves is_sent and a dispatch leaves what the reminder says.       *)
THEOREM ColumnsKept == Spec => ColumnsKeptApart
  <1> DEFINE Kept == \A m \in Reminder : rows[m] # NoRow /\ rows'[m] # NoRow =>
        /\ rows[m].sent => rows'[m].sent
        /\ rows'[m].text # rows[m].text =>
             \E r \in Request :
               /\ Does(r, {"update"}) /\ Target(r) = m /\ job[r].text = rows'[m].text
               /\ phase[r] # "done" /\ phase'[r] = "done"
  <1>1. ASSUME IInv, [Next]_vars PROVE [Kept]_vars
    <2> SUFFICES ASSUME Next PROVE Kept
      BY <1>1
    <2>1. ASSUME NEW m \in Reminder, rows[m] # NoRow, rows'[m] # NoRow, rows[m].sent
          PROVE  rows'[m].sent
      BY <1>1, <2>1, StepCases, DeletionStep, MarkKept DEF IsSent
    <2>2. ASSUME NEW m \in Reminder, rows[m] # NoRow, rows'[m] # NoRow,
                 rows'[m].text # rows[m].text
          PROVE  \E r \in Request :
                   /\ Does(r, {"update"}) /\ Target(r) = m
                   /\ job[r].text = rows'[m].text
                   /\ phase[r] # "done" /\ phase'[r] = "done"
      <3>1. PICK r \in Request : Step(r)
        BY <2>2, StepCases, DeletionStep
      <3>2. /\ Target(r) = m /\ rows'[m] = draft[m] /\ HolderOK(r, m)
            /\ phase[r] = "commit" /\ phase'[r] = "done"
            /\ job[r] # NoJob /\ job[r].op \in Op
        BY <1>1, <2>2, <3>1, CommitChanges
      <3>3. Does(r, {"update"}) /\ job[r].text = rows'[m].text
        BY <2>2, <3>2 DEF HolderOK, Does, IsDispatch, Op
      <3> QED
        BY <3>2, <3>3
    <2> QED
      BY <2>1, <2>2
  <1> QED
    BY <1>1, RemindersInvariant, PTL DEF Spec, Safety, ColumnsKeptApart

(* _do_dispatch: the row is flushed first, so what is published exists.    *)
THEOREM EventsHaveRows == Spec => NoEventAfterDelete
  <1>1. ASSUME IInv, [Next]_vars PROVE [\A e \in events' \ events : rows[e.reminder] # NoRow]_vars
    <2> SUFFICES ASSUME Next, NEW e \in events' \ events PROVE rows[e.reminder] # NoRow
      BY <1>1
    <2>0. TypeOK /\ SessionOK
      BY <1>1 DEF IInv
    <2>1. PICK r \in Request : Step(r)
      BY StepCases, DeletionStep
    <2>2. Publish(r) /\ e = Event(r)
      BY <2>0, <2>1, ArrivalStep, KeepStep DEF Step, GoesOn, SkipSent, LoadReminder, LookUp,
         InsertReminder, SkipUpdate, UpdateRow, DeleteRow, Refresh, Publish, Commit
    <2>3. IsDispatch(r) /\ HasFlushed(r)
      BY <2>0, <2>2 DEF Publish, SessionOK, HasFlushed
    <2> QED
      BY <1>1, <2>2, <2>3, Dispatching DEF HolderOK, Event, Does
  <1> QED
    BY <1>1, RemindersInvariant, PTL DEF Spec, Safety, NoEventAfterDelete

=============================================================================
