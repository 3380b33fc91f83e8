---------------------------- MODULE BudgetStore ----------------------------
(***************************************************************************)
(* The budget of one gathering in PostgreSQL, and the HTTP requests that   *)
(* read and write it through BudgetService (app/api/v1/budget/service.py). *)
(*                                                                         *)
(* Every request is a task with a session and a transaction of its own     *)
(* (get_db, app/db/session.py).  The isolation level is the default of     *)
(* PostgreSQL, READ COMMITTED: each SELECT sees what is committed when it  *)
(* runs, and an UPDATE or a conflicting INSERT waits for the transaction   *)
(* that holds the row.  One action below is one statement of a request,    *)
(* together with the Python that runs before the next `await`.             *)
(***************************************************************************)
EXTENDS Integers

CONSTANTS
  Request,      \* HTTP requests on the budget of this gathering
  Column,       \* currency, host_budget_limit, participant_target
  Value,        \* what a column may hold
  Default,      \* the server default of a column
  Unlucky,      \* requests that may meet a database error or be cancelled
  NoRequest,    \* nobody holds the row
  NoRow,        \* there is no budgets row
  NoJob         \* the request has not arrived

Settings == [Column -> Value]
DefaultSettings == [c \in Column |-> Default]
Row == [version : Nat, settings : Settings]

ASSUME DefaultAssumption == Default \in Value
ASSUME UnluckyAssumption == Unlucky \subseteq Request
ASSUME NoRequestAssumption == NoRequest \notin Request
ASSUME NoRowAssumption == NoRow \notin Row

(* A budget entry is named after the request that adds it. *)
Op == {"get", "set", "add", "del"}
Job == [op : Op, settings : Settings, target : Request]

(* What request r may ask: only a PUT carries settings, only a DELETE      *)
(* carries an entry id (of an entry that may never exist).                 *)
JobsOf(r) ==
  [op : {"get", "add"}, settings : {DefaultSettings}, target : {r}]
    \cup [op : {"set"}, settings : Settings, target : {r}]
    \cup [op : {"del"}, settings : {DefaultSettings}, target : Request]

ASSUME NoJobAssumption == NoJob \notin Job

VARIABLES
  gathering,    \* the gatherings row exists
  budget,       \* the committed budgets row, or NoRow
  entries,      \* the committed budget_entries rows
  lock,         \* the request whose uncommitted row version holds the row
  draft,        \* what that request wrote and has not committed
  job,          \* what each request asks
  phase,        \* the statement each request runs next
  loaded,       \* each session's Budget object
  response      \* what _build_response returned to each request

storeVars == <<gathering, budget, entries, lock, draft, job, phase, loaded,
               response>>

Nothing == [row |-> NoRow, entries |-> {}]
FreshRow == [version |-> 1, settings |-> DefaultSettings]

Phase == {"new", "load", "insert", "find", "flush", "read", "reply",
          "done", "failed"}
Running == Phase \ {"new", "done", "failed"}

IsMutator(r) == job[r] # NoJob /\ job[r].op # "get"

(* READ COMMITTED: a session sees its own writes and what is committed. *)
VisibleRow(r) == IF lock = r THEN draft.row ELSE budget
(* Mutant: READ UNCOMMITTED. *)
DirtyEntries(r) == IF lock = NoRequest THEN entries ELSE draft.entries
VisibleEntries(r) == IF lock = r THEN draft.entries ELSE entries
(* Mutant: an UPDATE that does not wait for the row. *)
NeverWaits(r) == r \in Request
CanLock(r) == lock \in {NoRequest, r}

(* The page may have been opened before: then the row is there. *)
StoreInit ==
  /\ gathering = TRUE
  /\ budget \in {NoRow, FreshRow}
  /\ entries = {}
  /\ lock = NoRequest
  /\ draft = Nothing
  /\ job = [r \in Request |-> NoJob]
  /\ phase = [r \in Request |-> "new"]
  /\ loaded = [r \in Request |-> NoRow]
  /\ response = [r \in Request |-> Nothing]

Goto(r, p) == phase' = [phase EXCEPT ![r] = p]

(* Mutant: the session is committed however the handler ends. *)
CommitAnyway(r) ==
  /\ Goto(r, "failed")
  /\ IF lock = r
       THEN /\ lock' = NoRequest /\ draft' = Nothing
            /\ budget' = draft.row /\ entries' = draft.entries
       ELSE UNCHANGED <<lock, draft, budget, entries>>
  /\ UNCHANGED <<gathering, job, loaded, response>>

(* Mutant: the failed session is left open. *)
LeaveOpen(r) ==
  /\ Goto(r, "failed")
  /\ UNCHANGED <<gathering, budget, entries, lock, draft, job, loaded, response>>

(* Leave the transaction without a trace: get_db rolls back on any error. *)
Rollback(r) ==
  /\ Goto(r, "failed")
  /\ IF lock = r THEN lock' = NoRequest /\ draft' = Nothing
                 ELSE UNCHANGED <<lock, draft>>
  /\ UNCHANGED <<gathering, budget, entries, job, loaded, response>>

(***************************************************************************)
(* _get_gathering_or_404 and _assert_host.                                 *)
(***************************************************************************)
Begin(r) ==
  /\ phase[r] = "new"
  /\ gathering
  /\ \E j \in JobsOf(r) : job' = [job EXCEPT ![r] = j]
  /\ Goto(r, "load")
  /\ UNCHANGED <<gathering, budget, entries, lock, draft, loaded, response>>

(* 404 or 403: the caller is not the host, or there is no gathering. *)
Refuse(r) ==
  /\ phase[r] = "new"
  /\ Rollback(r)

(***************************************************************************)
(* _get_or_create_budget.                                                  *)
(***************************************************************************)
AfterLoad(r) ==
  CASE job[r].op = "get" -> "read"
    [] job[r].op = "del" -> "find"
    [] OTHER -> "flush"

LoadBudget(r) ==
  /\ phase[r] = "load"
  /\ IF budget = NoRow
       THEN Goto(r, "insert") /\ UNCHANGED loaded
       ELSE Goto(r, AfterLoad(r)) /\ loaded' = [loaded EXCEPT ![r] = budget]
  /\ UNCHANGED <<gathering, budget, entries, lock, draft, job, response>>

(* Mutant: INSERT ... ON CONFLICT DO UPDATE. *)
InsertOrReplace(r) ==
  /\ phase[r] = "insert"
  /\ lock = NoRequest
  /\ gathering
  /\ lock' = r
  /\ draft' = [row |-> FreshRow, entries |-> entries]
  /\ loaded' = [loaded EXCEPT ![r] = FreshRow]
  /\ Goto(r, AfterLoad(r))
  /\ UNCHANGED <<gathering, budget, entries, job, response>>

(* INSERT INTO budgets.  The unique index on gathering_id makes a second   *)
(* INSERT wait for the first; the foreign key locks the gathering.         *)
InsertBudget(r) ==
  /\ phase[r] = "insert"
  /\ lock = NoRequest
  /\ gathering
  /\ budget = NoRow
  /\ lock' = r
  /\ draft' = [row |-> FreshRow, entries |-> {}]
  /\ loaded' = [loaded EXCEPT ![r] = FreshRow]
  /\ Goto(r, AfterLoad(r))
  /\ UNCHANGED <<gathering, budget, entries, job, response>>

(* IntegrityError: another request created the row, or the gathering went. *)
InsertConflict(r) ==
  /\ phase[r] = "insert"
  /\ lock = NoRequest
  /\ ~gathering \/ budget # NoRow
  /\ Rollback(r)

(***************************************************************************)
(* delete_entry looks the entry up before it deletes it.                   *)
(***************************************************************************)
(* Mutant: the 404 is forgotten. *)
FindAnyEntry(r) ==
  /\ phase[r] = "find"
  /\ Goto(r, "flush")
  /\ UNCHANGED <<gathering, budget, entries, lock, draft, job, loaded, response>>

FindEntry(r) ==
  /\ phase[r] = "find"
  /\ job[r].target \in VisibleEntries(r)
  /\ Goto(r, "flush")
  /\ UNCHANGED <<gathering, budget, entries, lock, draft, job, loaded, response>>

EntryNotFound(r) ==
  /\ phase[r] = "find"
  /\ job[r].target \notin VisibleEntries(r)
  /\ Rollback(r)

(***************************************************************************)
(* The flush of set_budget, add_entry and delete_entry.  `version += 1` is *)
(* computed from the loaded object, and the UPDATE names only the columns  *)
(* the session changed: any other column keeps what the row holds by then. *)
(***************************************************************************)
WrittenSettings(r) ==
  IF job[r].op # "set" THEN VisibleRow(r).settings
  ELSE [c \in Column |->
          IF job[r].settings[c] # loaded[r].settings[c]
            THEN job[r].settings[c]
            ELSE VisibleRow(r).settings[c]]

(* Mutant: the version counts down. *)
PreviousVersion(r) == loaded[r].version - 1
NextVersion(r) == loaded[r].version + 1

WrittenEntries(r) ==
  CASE job[r].op = "add" -> VisibleEntries(r) \cup {r}
    [] job[r].op = "del" -> VisibleEntries(r) \ {job[r].target}
    [] OTHER -> VisibleEntries(r)

(* Mutant: set_budget answers with the object it assigned to. *)
NotRefreshed(r) ==
  [version |-> NextVersion(r),
   settings |-> IF job[r].op = "set" THEN job[r].settings
                                     ELSE loaded[r].settings]

(* Only set_budget refreshes the object from the row it wrote. *)
Refreshed(r) ==
  [version |-> NextVersion(r),
   settings |-> IF job[r].op = "set" THEN WrittenSettings(r)
                                     ELSE loaded[r].settings]

Flush(r) ==
  /\ phase[r] = "flush"
  /\ CanLock(r)
  /\ VisibleRow(r) # NoRow
  /\ lock' = r
  /\ draft' = [row |-> [version |-> NextVersion(r),
                        settings |-> WrittenSettings(r)],
               entries |-> WrittenEntries(r)]
  /\ loaded' = [loaded EXCEPT ![r] = Refreshed(r)]
  /\ Goto(r, "read")
  /\ UNCHANGED <<gathering, budget, entries, job, response>>

(* StaleDataError: the UPDATE matched no row. *)
FlushStale(r) ==
  /\ phase[r] = "flush"
  /\ CanLock(r)
  /\ VisibleRow(r) = NoRow
  /\ Rollback(r)

(***************************************************************************)
(* _build_response reads the entries and pairs them with the object.       *)
(***************************************************************************)
BuildResponse(r) ==
  /\ phase[r] = "read"
  /\ response' = [response EXCEPT ![r] = [row |-> loaded[r],
                                          entries |-> VisibleEntries(r)]]
  /\ Goto(r, "reply")
  /\ UNCHANGED <<gathering, budget, entries, lock, draft, job, loaded>>

(***************************************************************************)
(* get_db commits after the handler returned, or rolls back.               *)
(***************************************************************************)
CommitWrite(r) ==
  /\ phase[r] = "reply"
  /\ lock = r
  /\ budget' = draft.row
  /\ entries' = draft.entries
  /\ lock' = NoRequest
  /\ draft' = Nothing
  /\ Goto(r, "done")
  /\ UNCHANGED <<gathering, job, loaded, response>>

CommitRead(r) ==
  /\ phase[r] = "reply"
  /\ lock # r
  /\ Goto(r, "done")
  /\ UNCHANGED <<gathering, budget, entries, lock, draft, job, loaded, response>>

(* Any exception of the handler, the driver or the server. *)
Break(r) ==
  /\ phase[r] \in Running
  /\ Rollback(r)

Abort(r) == r \in Unlucky /\ Break(r)

(* DELETE /gatherings/{id}: the rows of the budget go with the gathering,  *)
(* so the DELETE waits for whoever holds the budgets row.                  *)
DeleteGathering ==
  /\ gathering
  /\ lock = NoRequest
  /\ gathering' = FALSE
  /\ budget' = NoRow
  /\ entries' = {}
  /\ UNCHANGED <<lock, draft, job, phase, loaded, response>>

-----------------------------------------------------------------------------

Statement(r) ==
  \/ LoadBudget(r)
  \/ InsertBudget(r)
  \/ InsertConflict(r)
  \/ FindEntry(r)
  \/ EntryNotFound(r)
  \/ Flush(r)
  \/ FlushStale(r)

Commit(r) == CommitWrite(r) \/ CommitRead(r)

(* The steps a request takes by itself once it has arrived. *)
Proceed(r) == Statement(r) \/ BuildResponse(r) \/ Commit(r)

StoreNext ==
  \/ \E r \in Request : Begin(r) \/ Refuse(r) \/ Proceed(r) \/ Abort(r)
  \/ DeleteGathering

StoreSafety == StoreInit /\ [][StoreNext]_storeVars

(* asyncio resumes a task whose statement has returned, and PostgreSQL     *)
(* hands a row to a waiter: no arrival and no failure is assumed.          *)
StoreFairness == \A r \in Request : WF_storeVars(Proceed(r))

StoreSpec == StoreSafety /\ StoreFairness

-----------------------------------------------------------------------------

TypeOK ==
  /\ gathering \in BOOLEAN
  /\ budget \in Row \cup {NoRow}
  /\ entries \subseteq Request
  /\ lock \in Request \cup {NoRequest}
  /\ draft \in [row : Row \cup {NoRow}, entries : SUBSET Request]
  /\ job \in [Request -> Job \cup {NoJob}]
  /\ phase \in [Request -> Phase]
  /\ loaded \in [Request -> Row \cup {NoRow}]
  /\ response \in [Request -> [row : Row \cup {NoRow}, entries : SUBSET Request]]

-----------------------------------------------------------------------------

Done(op) == {r \in Request : phase[r] = "done" /\ job[r].op = op}
Deleted == {job[r].target : r \in Done("del")}

(* The committed entries are exactly those of the add_entry requests that  *)
(* answered with success, less those a delete_entry request reported gone: *)
(* no race of reads, flushes, rollbacks and commits loses an expense,      *)
(* brings one back or leaves one of a request that failed.                 *)
EntriesAreLedger ==
  entries = IF gathering THEN Done("add") \ Deleted ELSE {}

(* No response and no broadcast payload shows an expense that another      *)
(* request has not committed, whenever it read the entries.                *)
NoDirtyReads ==
  \A r \in Request : response[r].entries \subseteq Done("add") \cup {r}

(* A budgets row never outlives the gathering: a first request that is     *)
(* about to insert it, or a PUT about to update it, races the DELETE.      *)
NoOrphans == ~gathering => budget = NoRow /\ entries = {}

(* Every committed setting is the default or was asked for by a PUT that   *)
(* succeeded, however the column-wise UPDATEs of racing PUTs merged.       *)
SettingsHaveASource ==
  budget # NoRow =>
    \A c \in Column : budget.settings[c]
                        \in {Default} \cup {job[r].settings[c] : r \in Done("set")}

(* The lazily created row is created once: whoever loses the race of two   *)
(* first requests never replaces the committed row by a fresh one.         *)
CreatedOnce ==
  [][budget # NoRow /\ budget' # budget /\ gathering' => budget'.version > 1]_storeVars

(* What a mutating request answers and broadcasts is what its commit makes *)
(* true of the entries, and for a PUT of the whole row: nobody else's      *)
(* commit falls between the flush, the response and the commit.            *)
AnswersWhatItCommits ==
  [][\A r \in Request :
       IsMutator(r) /\ phase[r] # "done" /\ phase'[r] = "done" =>
         /\ entries' = response[r].entries
         /\ job[r].op = "set" => budget' = response[r].row]_storeVars

(* A successful request takes effect once and at once, a failed one never. *)
Status(p) == IF p \in {"done", "failed"} THEN p ELSE "waiting"

Ledger == INSTANCE BudgetLedger
            WITH open <- gathering,
                 recorded <- entries,
                 status <- [r \in Request |-> Status(phase[r])]

ImplementsLedger == Ledger!LedgerSpec

(* Every request that arrived is answered: no wait for the row is forever, *)
(* whoever failed while holding it.                                        *)
EveryRequestEnds ==
  \A r \in Request : phase[r] = "load" ~> phase[r] \in {"done", "failed"}

(* app/models/budget.py says of `version`: "incremented on every budget    *)
(* update".  Not so: two requests that loaded the same row both write the  *)
(* same successor.                                                         *)
VersionCountsUpdates ==
  [][\A r \in Request :
       IsMutator(r) /\ phase[r] # "done" /\ phase'[r] = "done" /\ budget # NoRow =>
         budget'.version = budget.version + 1]_storeVars

=============================================================================
