------------------------------ MODULE Reminders ------------------------------
(***************************************************************************)
(* The reminders of one gathering: ReminderService                         *)
(* (app/api/v1/reminders/service.py) over PostgreSQL and Amazon SNS.       *)
(*                                                                         *)
(* A request is a REST handler, or a job of the scheduler for which        *)
(* dispatch_reminder_by_id is written; each has a session of its own, as   *)
(* in BudgetStore.  One action below is one await.                         *)
(***************************************************************************)
CONSTANTS
  Request,
  Reminder,     \* reminder ids
  Text,         \* what the title and the body say
  OldText,      \* what they say at first
  Unlucky,      \* requests that may meet an error or be cancelled
  NoRequest,
  NoRow,
  NoJob

ASSUME OldTextAssumption == OldText \in Text
ASSUME UnluckyAssumption == Unlucky \subseteq Request
ASSUME NoRequestAssumption == NoRequest \notin Request

Row == [sent : BOOLEAN, text : Text]
ASSUME NoRowAssumption == NoRow \notin Row

Op == {"create", "update", "delete", "send", "fire"}
Job == [op : Op, target : Reminder, text : Text]
ASSUME NoJobAssumption == NoJob \notin Job

VARIABLES
  gathering,    \* the gatherings row exists
  unused,       \* ids no reminder has had
  rows,         \* the committed reminders rows
  lock,         \* who holds an uncommitted version of each row
  draft,        \* that version
  job,
  phase,
  loaded,       \* each session's Reminder object
  attempted,    \* requests that called publish_reminder_fire
  events,       \* what SNS accepted
  before        \* history: the requests that were over when one arrived

vars == <<gathering, unused, rows, lock, draft, job, phase, loaded, attempted,
          events, before>>

Phase == {"new", "load", "lookup", "flush", "refresh", "publish", "commit",
          "done", "failed"}
Over == {"done", "failed"}
Running == Phase \ (Over \cup {"new"})

Fresh == [sent |-> FALSE, text |-> OldText]

Init ==
  /\ gathering = TRUE
  /\ unused \in SUBSET Reminder
  /\ rows = [m \in Reminder |-> IF m \in unused THEN NoRow ELSE Fresh]
  /\ lock = [m \in Reminder |-> NoRequest]
  /\ draft = [m \in Reminder |-> NoRow]
  /\ job = [r \in Request |-> NoJob]
  /\ phase = [r \in Request |-> "new"]
  /\ loaded = [r \in Request |-> NoRow]
  /\ attempted = {}
  /\ events = {}
  /\ before = [r \in Request |-> {}]

Goto(r, p) == phase' = [phase EXCEPT ![r] = p]
Target(r) == job[r].target
Does(r, ops) == job[r] # NoJob /\ job[r].op \in ops
IsDispatch(r) == Does(r, {"send", "fire"})

Holds(r) == job[r] # NoJob /\ lock[Target(r)] = r
CanLock(r) == lock[Target(r)] \in {NoRequest, r}
(* READ COMMITTED. *)
Visible(r) == IF Holds(r) THEN draft[Target(r)] ELSE rows[Target(r)]

Release(r) ==
  IF Holds(r)
    THEN /\ lock' = [lock EXCEPT ![Target(r)] = NoRequest]
         /\ draft' = [draft EXCEPT ![Target(r)] = NoRow]
    ELSE UNCHANGED <<lock, draft>>

Write(r, row) ==
  /\ lock' = [lock EXCEPT ![Target(r)] = r]
  /\ draft' = [draft EXCEPT ![Target(r)] = row]

(* Mutant: the failed session is left open. *)
LeaveOpen(r) ==
  /\ Goto(r, "failed")
  /\ UNCHANGED <<gathering, unused, rows, lock, draft, job, loaded,
                 attempted, events, before>>

(* get_db rolls back on any error. *)
Fail(r) ==
  /\ Goto(r, "failed")
  /\ Release(r)
  /\ UNCHANGED <<gathering, unused, rows, job, loaded, attempted, events,
                 before>>

(***************************************************************************)
(* A request arrives.  A REST handler finds the gathering and its host     *)
(* first; a job of the scheduler starts from the reminder.                 *)
(***************************************************************************)
Asks(r, op, m, text) ==
  /\ phase[r] = "new"
  /\ job' = [job EXCEPT ![r] = [op |-> op, target |-> m, text |-> text]]
  /\ before' = [before EXCEPT ![r] = {q \in Request : phase[q] \in Over}]
  /\ UNCHANGED <<gathering, rows, lock, draft, loaded, attempted, events>>

(* uuid4 gives every new reminder an id of its own. *)
BeginCreate(r) ==
  /\ gathering
  /\ \E m \in unused : Asks(r, "create", m, OldText) /\ unused' = unused \ {m}
  /\ Goto(r, "flush")

BeginChange(r) ==
  /\ gathering
  /\ \E m \in Reminder :
       \/ \E text \in Text : Asks(r, "update", m, text)
       \/ \E op \in {"delete", "send"} : Asks(r, op, m, OldText)
  /\ Goto(r, "load")
  /\ UNCHANGED unused

BeginFire(r) ==
  /\ \E m \in Reminder : Asks(r, "fire", m, OldText)
  /\ Goto(r, "load")
  /\ UNCHANGED unused

(* 404 or 403. *)
Refuse(r) == phase[r] = "new" /\ Fail(r)

(***************************************************************************)
(* _get_reminder_or_404 and the check of is_sent.                          *)
(***************************************************************************)
NotFound(r) ==
  /\ phase[r] = "load"
  /\ rows[Target(r)] = NoRow
  /\ Fail(r)

(* 400 for an update or a manual dispatch. *)
AlreadySent(r) ==
  /\ phase[r] = "load"
  /\ rows[Target(r)] # NoRow
  /\ rows[Target(r)].sent
  /\ Does(r, {"update", "send"})
  /\ Fail(r)

(* The scheduler skips it. *)
SkipSent(r) ==
  /\ phase[r] = "load"
  /\ rows[Target(r)] # NoRow
  /\ rows[Target(r)].sent
  /\ Does(r, {"fire"})
  /\ Goto(r, "done")
  /\ UNCHANGED <<gathering, unused, rows, lock, draft, job, loaded,
                 attempted, events, before>>

(* Mutant: is_sent is not checked. *)
LoadUnchecked(r) ==
  /\ phase[r] = "load"
  /\ rows[Target(r)] # NoRow
  /\ loaded' = [loaded EXCEPT ![r] = rows[Target(r)]]
  /\ Goto(r, IF Does(r, {"fire"}) THEN "lookup" ELSE "flush")
  /\ UNCHANGED <<gathering, unused, rows, lock, draft, job, attempted,
                 events, before>>

(* Mutant: the event goes out before the row is marked. *)
LoadThenPublish(r) ==
  /\ phase[r] = "load"
  /\ rows[Target(r)] # NoRow
  /\ ~rows[Target(r)].sent \/ Does(r, {"delete"})
  /\ loaded' = [loaded EXCEPT ![r] = rows[Target(r)]]
  /\ Goto(r, IF IsDispatch(r) THEN "publish" ELSE "flush")
  /\ UNCHANGED <<gathering, unused, rows, lock, draft, job, attempted,
                 events, before>>

LoadReminder(r) ==
  /\ phase[r] = "load"
  /\ rows[Target(r)] # NoRow
  /\ ~rows[Target(r)].sent \/ Does(r, {"delete"})
  /\ loaded' = [loaded EXCEPT ![r] = rows[Target(r)]]
  /\ Goto(r, IF Does(r, {"fire"}) THEN "lookup" ELSE "flush")
  /\ UNCHANGED <<gathering, unused, rows, lock, draft, job, attempted,
                 events, before>>

(* dispatch_reminder_by_id returns when the gathering has gone since. *)
LookUp(r) ==
  /\ phase[r] = "lookup"
  /\ Goto(r, IF gathering THEN "flush" ELSE "done")
  /\ UNCHANGED <<gathering, unused, rows, lock, draft, job, loaded,
                 attempted, events, before>>

(***************************************************************************)
(* flush.  An UPDATE names only the columns whose value changed, and a     *)
(* PATCH that changes none writes nothing.                                 *)
(***************************************************************************)
InsertReminder(r) ==
  /\ phase[r] = "flush"
  /\ Does(r, {"create"})
  /\ gathering
  /\ Write(r, Fresh)
  /\ Goto(r, "refresh")
  /\ UNCHANGED <<gathering, unused, rows, job, loaded, attempted, events,
                 before>>

(* IntegrityError: the gathering went. *)
InsertOrphan(r) ==
  /\ phase[r] = "flush"
  /\ Does(r, {"create"})
  /\ ~gathering
  /\ Fail(r)

WritesNothing(r) == Does(r, {"update"}) /\ job[r].text = loaded[r].text

SkipUpdate(r) ==
  /\ phase[r] = "flush"
  /\ WritesNothing(r)
  /\ Goto(r, "refresh")
  /\ UNCHANGED <<gathering, unused, rows, lock, draft, job, loaded,
                 attempted, events, before>>

(* Mutant: the UPDATE names every column. *)
WholeRow(r) ==
  [sent |-> IsDispatch(r) \/ loaded[r].sent,
   text |-> IF Does(r, {"update"}) THEN job[r].text ELSE loaded[r].text]

(* Mutant: without exclude_none a field left out of the PATCH becomes NULL. *)
WritesNull(r) ==
  IF IsDispatch(r) THEN [Visible(r) EXCEPT !.sent = TRUE]
                   ELSE [Visible(r) EXCEPT !.text = NoRow]

Updated(r) ==
  IF IsDispatch(r) THEN [Visible(r) EXCEPT !.sent = TRUE]
                   ELSE [Visible(r) EXCEPT !.text = job[r].text]

UpdateRow(r) ==
  /\ phase[r] = "flush"
  /\ Does(r, {"update", "send", "fire"}) /\ ~WritesNothing(r)
  /\ CanLock(r)
  /\ Visible(r) # NoRow
  /\ Write(r, Updated(r))
  /\ Goto(r, "refresh")
  /\ UNCHANGED <<gathering, unused, rows, job, loaded, attempted, events,
                 before>>

(* StaleDataError: the row was deleted while the UPDATE waited for it. *)
UpdateStale(r) ==
  /\ phase[r] = "flush"
  /\ Does(r, {"update", "send", "fire"}) /\ ~WritesNothing(r)
  /\ CanLock(r)
  /\ Visible(r) = NoRow
  /\ Fail(r)

(* A DELETE that matches no row is a warning, not an error. *)
DeleteRow(r) ==
  /\ phase[r] = "flush"
  /\ Does(r, {"delete"})
  /\ CanLock(r)
  /\ IF Visible(r) = NoRow THEN UNCHANGED <<lock, draft>> ELSE Write(r, NoRow)
  /\ Goto(r, "commit")
  /\ UNCHANGED <<gathering, unused, rows, job, loaded, attempted, events,
                 before>>

(***************************************************************************)
(* refresh reads back the row that was written.                            *)
(***************************************************************************)
(* Mutant: _do_dispatch goes on with the object it loaded. *)
NoRefresh(r) ==
  /\ phase[r] = "refresh"
  /\ Visible(r) # NoRow
  /\ Goto(r, IF IsDispatch(r) THEN "publish" ELSE "commit")
  /\ UNCHANGED <<gathering, unused, rows, lock, draft, job, loaded,
                 attempted, events, before>>

(* Mutant: the event is left to a task that a restart loses. *)
RefreshOnly(r) ==
  /\ phase[r] = "refresh"
  /\ Visible(r) # NoRow
  /\ loaded' = [loaded EXCEPT ![r] = Visible(r)]
  /\ Goto(r, "commit")
  /\ UNCHANGED <<gathering, unused, rows, lock, draft, job, attempted,
                 events, before>>

Refresh(r) ==
  /\ phase[r] = "refresh"
  /\ Visible(r) # NoRow
  /\ loaded' = [loaded EXCEPT ![r] = Visible(r)]
  /\ Goto(r, IF IsDispatch(r) THEN "publish" ELSE "commit")
  /\ UNCHANGED <<gathering, unused, rows, lock, draft, job, attempted,
                 events, before>>

(* An update that wrote nothing may find the row gone. *)
RefreshGone(r) ==
  /\ phase[r] = "refresh"
  /\ Visible(r) = NoRow
  /\ Fail(r)

(***************************************************************************)
(* publish_reminder_fire swallows every error.                             *)
(***************************************************************************)
Event(r) == [by |-> r, reminder |-> Target(r), text |-> loaded[r].text]

Publish(r) ==
  /\ phase[r] = "publish"
  /\ attempted' = attempted \cup {r}
  /\ events' \in {events, events \cup {Event(r)}}
  /\ Goto(r, "commit")
  /\ UNCHANGED <<gathering, unused, rows, lock, draft, job, loaded, before>>

Commit(r) ==
  /\ phase[r] = "commit"
  /\ rows' = [rows EXCEPT ![Target(r)] = Visible(r)]
  /\ Release(r)
  /\ Goto(r, "done")
  /\ UNCHANGED <<gathering, unused, job, loaded, attempted, events, before>>

(* A failed statement, a cancelled task, a lost worker. *)
Abort(r) ==
  /\ r \in Unlucky
  /\ phase[r] \in Running
  /\ Fail(r)

(* DELETE /gatherings/{id} waits for whoever holds one of its reminders.   *)
DeleteGathering ==
  /\ gathering
  /\ \A m \in Reminder : lock[m] = NoRequest
  /\ gathering' = FALSE
  /\ rows' = [m \in Reminder |-> NoRow]
  /\ UNCHANGED <<unused, lock, draft, job, phase, loaded, attempted, events,
                 before>>

-----------------------------------------------------------------------------

Proceed(r) ==
  \/ NotFound(r)
  \/ AlreadySent(r)
  \/ SkipSent(r)
  \/ LoadReminder(r)
  \/ LookUp(r)
  \/ InsertReminder(r)
  \/ InsertOrphan(r)
  \/ SkipUpdate(r)
  \/ UpdateRow(r)
  \/ UpdateStale(r)
  \/ DeleteRow(r)
  \/ Refresh(r)
  \/ RefreshGone(r)
  \/ Publish(r)
  \/ Commit(r)

Next ==
  \/ \E r \in Request :
       \/ BeginCreate(r) \/ BeginChange(r) \/ BeginFire(r) \/ Refuse(r)
       \/ Proceed(r)
       \/ Abort(r)
  \/ DeleteGathering

Safety == Init /\ [][Next]_vars

(* As in BudgetStore: what was awaited completes. *)
Spec == Safety /\ \A r \in Request : WF_vars(Proceed(r))

-----------------------------------------------------------------------------

TypeOK ==
  /\ gathering \in BOOLEAN
  /\ unused \subseteq Reminder
  /\ rows \in [Reminder -> Row \cup {NoRow}]
  /\ lock \in [Reminder -> Request \cup {NoRequest}]
  /\ draft \in [Reminder -> Row \cup {NoRow}]
  /\ job \in [Request -> Job \cup {NoJob}]
  /\ phase \in [Request -> Phase]
  /\ loaded \in [Request -> Row \cup {NoRow}]
  /\ attempted \subseteq Request
  /\ events \subseteq [by : Request, reminder : Reminder, text : Text]
  /\ before \in [Request -> SUBSET Request]

-----------------------------------------------------------------------------

(* A reminder that says it was sent was handed to SNS, whether or not SNS  *)
(* took it, whoever failed on the way.                                     *)
SentWasAttempted ==
  \A m \in Reminder :
    rows[m] # NoRow /\ rows[m].sent => \E r \in attempted : Target(r) = m

(* A dispatch that arrives when another one has succeeded sends nothing.   *)
RetryIsSilent ==
  \A r, q \in attempted :
    r \in before[q] /\ phase[r] = "done" => Target(r) # Target(q)

(* No reminder outlives its gathering. *)
NoOrphans == ~gathering => \A m \in Reminder : rows[m] = NoRow

(* The text in the event is the text of the row its dispatch commits: no   *)
(* edit falls between the two.                                             *)
EventShowsTheRow ==
  [][\A e \in events :
       phase[e.by] = "commit" /\ phase'[e.by] = "done" =>
         rows'[e.reminder] = [sent |-> TRUE, text |-> e.text]]_vars

(* Edits and dispatches keep each other's columns: a sent reminder stays   *)
(* sent, whatever an edit that loaded it before writes, and only a PATCH   *)
(* that succeeds changes what a reminder says, whatever dispatch raced it. *)
ColumnsKeptApart ==
  [][\A m \in Reminder : rows[m] # NoRow /\ rows'[m] # NoRow =>
       /\ rows[m].sent => rows'[m].sent
       /\ rows'[m].text # rows[m].text =>
            \E r \in Request :
              /\ Does(r, {"update"}) /\ Target(r) = m /\ job[r].text = rows'[m].text
              /\ phase[r] # "done" /\ phase'[r] = "done"]_vars

(* Nothing is sent of a reminder that is deleted. *)
NoEventAfterDelete ==
  [][\A e \in events' \ events : rows[e.reminder] # NoRow]_vars

(* Every request that has begun is answered. *)
EveryRequestEnds ==
  \A r \in Request : phase[r] \in {"load", "flush"} ~> phase[r] \in Over

(* dispatch_reminder_by_id: "Silently skips already-sent reminders         *)
(* (idempotent)".  Not so for two dispatches that both read is_sent before *)
(* either commits: two workers' schedulers, or a scheduler and an operator.*)
SentOnce ==
  \A d, e \in events : d.reminder = e.reminder => d = e

=============================================================================
