------------------------- MODULE BudgetStoreProofs -------------------------
(***************************************************************************)
(* Theorems about BudgetStore for any set of requests, columns and values: *)
(* the expenses are a ledger, the row is created once, settings have a     *)
(* source, and a mutation answers what it commits.                         *)
(***************************************************************************)
EXTENDS BudgetStore, TLAPS

USE DefaultAssumption, NoRequestAssumption, NoRowAssumption, NoJobAssumption

-----------------------------------------------------------------------------
(* Operators *)

(* A job a request may choose is a job. *)
LEMMA JobsAreTyped == ASSUME NEW r \in Request PROVE JobsOf(r) \subseteq Job
  BY DEF JobsOf, Job, Op, Settings, DefaultSettings

(* After the budgets row, a GET reads, a DELETE looks its entry up and the *)
(* others write.                                                           *)
LEMMA AfterLoadCases ==
  ASSUME NEW r \in Request
  PROVE  /\ job[r].op = "get" => AfterLoad(r) = "read"
         /\ job[r].op = "del" => AfterLoad(r) = "find"
         /\ job[r].op \notin {"get", "del"} => AfterLoad(r) = "flush"
         /\ AfterLoad(r) \in {"read", "find", "flush"}
  BY DEF AfterLoad

(* The row a first request inserts is a row. *)
LEMMA FreshRowTyped == FreshRow \in Row /\ FreshRow.version = 1
  BY DEF FreshRow, Row, Settings, DefaultSettings

(* The UPDATE writes a row: an int one up and a value for each column. *)
LEMMA WrittenRowTyped ==
  ASSUME TypeOK, NEW r \in Request, phase[r] = "flush", job[r] \in Job,
         loaded[r] \in Row, VisibleRow(r) # NoRow
  PROVE  /\ [version |-> NextVersion(r), settings |-> WrittenSettings(r)] \in Row
         /\ Refreshed(r) \in Row
         /\ WrittenEntries(r) \subseteq Request
  <1>1. VisibleRow(r) \in Row
    BY DEF VisibleRow, TypeOK
  <1>2. WrittenSettings(r) \in Settings
    BY <1>1 DEF WrittenSettings, Settings, Row, Job
  <1>3. NextVersion(r) \in Nat
    BY DEF NextVersion, Row
  <1>4. loaded[r].settings \in Settings
    BY DEF Row
  <1>5. Refreshed(r) \in Row
    BY <1>2, <1>3, <1>4 DEF Refreshed, Row
  <1>6. WrittenEntries(r) \subseteq Request
    BY DEF WrittenEntries, VisibleEntries, TypeOK
  <1> QED
    BY <1>2, <1>3, <1>5, <1>6 DEF Row

-----------------------------------------------------------------------------
(* The inductive invariant *)

(* What each statement of a request presupposes of its session. *)
SessionOK ==
  \A r \in Request :
    /\ phase[r] = "new" => job[r] = NoJob
    /\ phase[r] \notin {"new", "failed"} => job[r] \in Job
    /\ phase[r] \in {"find", "flush", "read", "reply", "done"} => loaded[r] \in Row
    /\ phase[r] = "find" => job[r].op = "del"
    /\ phase[r] = "flush" => job[r].op # "get"

(* The row lock: a mutator holds it from its flush to its commit, and      *)
(* nobody holds it but a request on its way to the commit.                 *)
LockOK ==
  /\ lock = NoRequest => draft = Nothing
  /\ lock # NoRequest =>
       /\ gathering
       /\ draft.row \in Row
       /\ phase[lock] \in {"find", "flush", "read", "reply"}
       /\ budget = NoRow \/ phase[lock] \notin {"find", "flush"}
  /\ \A r \in Request :
       IsMutator(r) /\ phase[r] \in {"read", "reply"} => lock = r

(* What a request makes of the entries. *)
EntriesAfter(r) ==
  CASE job[r].op = "add" -> entries \cup {r}
    [] job[r].op = "del" -> entries \ {job[r].target}
    [] OTHER -> entries

(* The draft is the effect of its holder on what is committed now. *)
DraftOK ==
  lock # NoRequest =>
    draft.entries = IF phase[lock] \in {"read", "reply"} THEN EntriesAfter(lock)
                                                          ELSE entries

(* No budget without gathering, no entries without budget. *)
RowsOK ==
  /\ budget # NoRow => gathering
  /\ entries # {} => budget # NoRow

(* A delete that found its entry is of an add that had been committed. *)
TargetsOK ==
  \A r \in Request :
    phase[r] \in {"flush", "read", "reply", "done"} /\ job[r].op = "del" =>
      job[r].target \in Done("add")

IInv ==
  /\ TypeOK
  /\ SessionOK
  /\ LockOK
  /\ DraftOK
  /\ RowsOK
  /\ TargetsOK
  /\ EntriesAreLedger
  /\ NoDirtyReads

-----------------------------------------------------------------------------
(* TypeOK *)

(* The steps of BudgetStore when any request may break. *)
AnyNext == StoreNext \/ \E r \in Request : Break(r)

LEMMA StoreInitTyped == StoreInit => TypeOK
  BY FreshRowTyped DEF StoreInit, TypeOK, Nothing, Phase

LEMMA AnyNextTyped == TypeOK /\ SessionOK /\ [AnyNext]_storeVars => TypeOK'
  <1> SUFFICES ASSUME TypeOK, SessionOK, [AnyNext]_storeVars PROVE TypeOK'
    OBVIOUS
  <1> USE DEF TypeOK, Phase, Nothing, Goto
  <1>1. ASSUME NEW r \in Request, Begin(r) PROVE TypeOK'
    BY <1>1, JobsAreTyped DEF Begin
  <1>2. ASSUME NEW r \in Request, Rollback(r) PROVE TypeOK'
    BY <1>2 DEF Rollback
  <1>3. ASSUME NEW r \in Request, LoadBudget(r) PROVE TypeOK'
    <2>1. CASE budget = NoRow
      BY <1>3, <2>1 DEF LoadBudget
    <2>2. CASE budget # NoRow
      <3>1. phase' \in [Request -> Phase]
        BY <1>3, <2>2, AfterLoadCases DEF LoadBudget
      <3>2. loaded' \in [Request -> Row \cup {NoRow}]
        BY <1>3, <2>2 DEF LoadBudget
      <3> QED
        BY <1>3, <3>1, <3>2 DEF LoadBudget
    <2> QED
      BY <2>1, <2>2
  <1>4. ASSUME NEW r \in Request, InsertBudget(r) PROVE TypeOK'
    BY <1>4, FreshRowTyped, AfterLoadCases DEF InsertBudget
  <1>5. ASSUME NEW r \in Request, FindEntry(r) PROVE TypeOK'
    BY <1>5 DEF FindEntry
  <1>6. ASSUME NEW r \in Request, Flush(r) PROVE TypeOK'
    <2>1. job[r] \in Job /\ loaded[r] \in Row
      BY <1>6 DEF Flush, SessionOK
    <2> QED
      BY <1>6, <2>1, WrittenRowTyped DEF Flush
  <1>7. ASSUME NEW r \in Request, BuildResponse(r) PROVE TypeOK'
    BY <1>7 DEF BuildResponse, VisibleEntries
  <1>8. ASSUME NEW r \in Request, Commit(r) PROVE TypeOK'
    BY <1>8 DEF Commit, CommitWrite, CommitRead
  <1>9. CASE DeleteGathering
    BY <1>9 DEF DeleteGathering
  <1>10. CASE UNCHANGED storeVars
    BY <1>10 DEF storeVars
  <1> QED
    BY <1>1, <1>2, <1>3, <1>4, <1>5, <1>6, <1>7, <1>8, <1>9, <1>10
    DEF AnyNext, StoreNext, Proceed, Statement, Refuse, InsertConflict,
        EntryNotFound, FlushStale, Abort, Break

-----------------------------------------------------------------------------
(* Each conjunct is preserved, one step per action *)

(* Every way to fail is a rollback of a request that is not over. *)
Fails(r) == phase[r] \in Phase \ {"done", "failed"} /\ Rollback(r)

LEMMA StepCases ==
  ASSUME AnyNext
  PROVE  \/ \E r \in Request :
              \/ Begin(r) \/ Fails(r) \/ LoadBudget(r) \/ InsertBudget(r)
              \/ FindEntry(r) \/ Flush(r) \/ BuildResponse(r)
              \/ CommitWrite(r) \/ CommitRead(r)
         \/ DeleteGathering
  <1>1. ASSUME NEW r \in Request,
               Refuse(r) \/ InsertConflict(r) \/ EntryNotFound(r)
                 \/ FlushStale(r) \/ Abort(r) \/ Break(r)
        PROVE  Fails(r)
    BY <1>1 DEF Refuse, InsertConflict, EntryNotFound, FlushStale, Abort, Break,
                Fails, Phase, Running
  <1> QED
    BY <1>1 DEF AnyNext, StoreNext, Proceed, Statement, Commit

LEMMA SessionStep == IInv /\ AnyNext => SessionOK'
  <1> SUFFICES ASSUME IInv, AnyNext PROVE SessionOK'
    OBVIOUS
  <1> USE DEF IInv, SessionOK, TypeOK, Goto, Phase
  <1>1. ASSUME NEW r \in Request, Begin(r) PROVE SessionOK'
    BY <1>1, JobsAreTyped DEF Begin
  <1>2. ASSUME NEW r \in Request, Fails(r) PROVE SessionOK'
    BY <1>2 DEF Fails, Rollback
  <1>3. ASSUME NEW r \in Request, LoadBudget(r) PROVE SessionOK'
    <2>1. CASE budget = NoRow
      BY <1>3, <2>1 DEF LoadBudget
    <2>2. CASE budget # NoRow
      BY <1>3, <2>2, AfterLoadCases DEF LoadBudget
    <2> QED
      BY <2>1, <2>2
  <1>4. ASSUME NEW r \in Request, InsertBudget(r) PROVE SessionOK'
    BY <1>4, FreshRowTyped, AfterLoadCases DEF InsertBudget
  <1>5. ASSUME NEW r \in Request, FindEntry(r) PROVE SessionOK'
    BY <1>5 DEF FindEntry
  <1>6. ASSUME NEW r \in Request, Flush(r) PROVE SessionOK'
    BY <1>6, WrittenRowTyped DEF Flush
  <1>7. ASSUME NEW r \in Request, BuildResponse(r) PROVE SessionOK'
    BY <1>7 DEF BuildResponse
  <1>8. ASSUME NEW r \in Request, CommitWrite(r) \/ CommitRead(r) PROVE SessionOK'
    BY <1>8 DEF CommitWrite, CommitRead
  <1>9. CASE DeleteGathering
    BY <1>9 DEF DeleteGathering
  <1> QED
    BY <1>1, <1>2, <1>3, <1>4, <1>5, <1>6, <1>7, <1>8, <1>9, StepCases

LEMMA LockStep == IInv /\ AnyNext => LockOK'
  <1> SUFFICES ASSUME IInv, AnyNext PROVE LockOK'
    OBVIOUS
  <1> USE DEF IInv, SessionOK, LockOK, TypeOK, Goto, Phase, IsMutator
  <1>1. ASSUME NEW r \in Request, Begin(r) PROVE LockOK'
    BY <1>1, JobsAreTyped DEF Begin
  <1>2. ASSUME NEW r \in Request, Fails(r) PROVE LockOK'
    BY <1>2 DEF Fails, Rollback
  <1>3. ASSUME NEW r \in Request, LoadBudget(r) PROVE LockOK'
    <2>1. CASE budget = NoRow
      BY <1>3, <2>1 DEF LoadBudget
    <2>2. CASE budget # NoRow
      BY <1>3, <2>2, AfterLoadCases DEF LoadBudget
    <2> QED
      BY <2>1, <2>2
  <1>4. ASSUME NEW r \in Request, InsertBudget(r) PROVE LockOK'
    BY <1>4, FreshRowTyped, AfterLoadCases DEF InsertBudget
  <1>5. ASSUME NEW r \in Request, FindEntry(r) PROVE LockOK'
    BY <1>5 DEF FindEntry
  <1>6. ASSUME NEW r \in Request, Flush(r) PROVE LockOK'
    BY <1>6, WrittenRowTyped DEF Flush, RowsOK, VisibleRow, CanLock
  <1>7. ASSUME NEW r \in Request, BuildResponse(r) PROVE LockOK'
    BY <1>7 DEF BuildResponse
  <1>8. ASSUME NEW r \in Request, CommitWrite(r) \/ CommitRead(r) PROVE LockOK'
    BY <1>8 DEF CommitWrite, CommitRead
  <1>9. CASE DeleteGathering
    BY <1>9 DEF DeleteGathering
  <1> QED
    BY <1>1, <1>2, <1>3, <1>4, <1>5, <1>6, <1>7, <1>8, <1>9, StepCases

(* The requests that are done, and so the ledger, change by a commit only. *)
LEMMA DoneUnchanged ==
  ASSUME TypeOK, NEW r \in Request, NEW p \in Phase \ {"done"}, phase[r] # "done",
         Goto(r, p), UNCHANGED job
  PROVE  /\ \A op : Done(op)' = Done(op)
         /\ Deleted' = Deleted
  <1>1. \A q \in Request : phase'[q] = "done" <=> phase[q] = "done"
    BY DEF TypeOK, Goto
  <1>2. \A op : Done(op)' = Done(op)
    BY <1>1 DEF Done
  <1>3. Deleted' = Deleted
    BY <1>2 DEF Deleted
  <1> QED
    BY <1>2, <1>3

(* ... which adds the request to those of its kind. *)
LEMMA DoneGrows ==
  ASSUME TypeOK, NEW r \in Request, Goto(r, "done"), UNCHANGED job
  PROVE  /\ \A op : Done(op)' = IF job[r].op = op THEN Done(op) \cup {r} ELSE Done(op)
         /\ Deleted' = IF job[r].op = "del" THEN Deleted \cup {job[r].target}
                                           ELSE Deleted
  <1>1. \A q \in Request : phase'[q] = "done" <=> phase[q] = "done" \/ q = r
    BY DEF TypeOK, Goto
  <1>2. \A op : Done(op)' = IF job[r].op = op THEN Done(op) \cup {r} ELSE Done(op)
    BY <1>1 DEF Done
  <1>3. Deleted' = IF job[r].op = "del" THEN Deleted \cup {job[r].target} ELSE Deleted
    BY <1>2 DEF Deleted
  <1> QED
    BY <1>2, <1>3

(* A request that arrives changes no job but its own. *)
LEMMA DoneAtBegin ==
  ASSUME TypeOK, NEW r \in Request, Begin(r)
  PROVE  /\ \A op : Done(op)' = Done(op)
         /\ Deleted' = Deleted
  <1>1. \A q \in Request : /\ phase'[q] = "done" <=> phase[q] = "done"
                           /\ q # r => job'[q] = job[q]
                           /\ phase[r] # "done"
    BY DEF TypeOK, Goto, Begin
  <1>2. \A op : Done(op)' = Done(op)
    BY <1>1 DEF Done
  <1>3. Deleted' = Deleted
    BY <1>1, <1>2 DEF Deleted, Done
  <1> QED
    BY <1>2, <1>3

LEMMA DraftStep == IInv /\ AnyNext => DraftOK'
  <1> SUFFICES ASSUME IInv, AnyNext PROVE DraftOK'
    OBVIOUS
  <1> USE DEF IInv, SessionOK, LockOK, DraftOK, TypeOK, Goto, Phase, EntriesAfter
  <1>1. ASSUME NEW r \in Request, Begin(r) PROVE DraftOK'
    BY <1>1 DEF Begin
  <1>2. ASSUME NEW r \in Request, Fails(r) PROVE DraftOK'
    <2>1. CASE lock = r
      <3>1. lock' = NoRequest
        BY <1>2, <2>1 DEF Fails, Rollback
      <3> QED
        BY <3>1
    <2>2. CASE lock # r
      <3>1. /\ UNCHANGED <<entries, lock, draft, job>>
            /\ phase' = [phase EXCEPT ![r] = "failed"]
        BY <1>2, <2>2 DEF Fails, Rollback
      <3>2. lock # NoRequest => lock \in Request /\ phase'[lock] = phase[lock]
        BY <2>2, <3>1
      <3> QED
        BY <3>1, <3>2
    <2> QED
      BY <2>1, <2>2
  <1>3. ASSUME NEW r \in Request, LoadBudget(r) PROVE DraftOK'
    <2>1. CASE budget = NoRow
      BY <1>3, <2>1 DEF LoadBudget
    <2>2. CASE budget # NoRow
      BY <1>3, <2>2, AfterLoadCases DEF LoadBudget
    <2> QED
      BY <2>1, <2>2
  <1>4. ASSUME NEW r \in Request, InsertBudget(r) PROVE DraftOK'
    BY <1>4, AfterLoadCases DEF InsertBudget, RowsOK, Job, Op
  <1>5. ASSUME NEW r \in Request, FindEntry(r) PROVE DraftOK'
    BY <1>5 DEF FindEntry
  <1>6. ASSUME NEW r \in Request, Flush(r) PROVE DraftOK'
    BY <1>6 DEF Flush, WrittenEntries, VisibleEntries, CanLock
  <1>7. ASSUME NEW r \in Request, BuildResponse(r) PROVE DraftOK'
    BY <1>7 DEF BuildResponse
  <1>8. ASSUME NEW r \in Request, CommitWrite(r) \/ CommitRead(r) PROVE DraftOK'
    <2>1. CASE CommitWrite(r)
      BY <2>1 DEF CommitWrite
    <2>2. CASE CommitRead(r)
      BY <2>2 DEF CommitRead
    <2> QED
      BY <1>8, <2>1, <2>2
  <1>9. CASE DeleteGathering
    BY <1>9 DEF DeleteGathering
  <1> QED
    BY <1>1, <1>2, <1>3, <1>4, <1>5, <1>6, <1>7, <1>8, <1>9, StepCases

LEMMA RowsStep == IInv /\ AnyNext => RowsOK'
  <1> SUFFICES ASSUME IInv, AnyNext PROVE RowsOK'
    OBVIOUS
  <1> USE DEF RowsOK
  <1>1. ASSUME NEW r \in Request,
               Begin(r) \/ Fails(r) \/ LoadBudget(r) \/ InsertBudget(r)
                 \/ FindEntry(r) \/ Flush(r) \/ BuildResponse(r) \/ CommitRead(r)
        PROVE  RowsOK'
    BY <1>1 DEF IInv, Begin, Fails, Rollback, LoadBudget, InsertBudget, FindEntry,
                Flush, BuildResponse, CommitRead
  <1>2. ASSUME NEW r \in Request, CommitWrite(r) PROVE RowsOK'
    BY <1>2 DEF IInv, CommitWrite, LockOK
  <1>3. CASE DeleteGathering
    BY <1>3 DEF DeleteGathering
  <1> QED
    BY <1>1, <1>2, <1>3, StepCases

LEMMA TargetsStep == IInv /\ AnyNext => TargetsOK'
  <1> SUFFICES ASSUME IInv, AnyNext PROVE TargetsOK'
    OBVIOUS
  <1> USE DEF IInv, SessionOK, LockOK, TargetsOK, TypeOK, Goto, Phase
  <1>1. ASSUME NEW r \in Request, Begin(r) PROVE TargetsOK'
    <2>1. Done("add")' = Done("add")
      BY <1>1, DoneAtBegin
    <2>2. /\ phase' = [phase EXCEPT ![r] = "load"]
          /\ \A q \in Request : q # r => job'[q] = job[q]
      BY <1>1 DEF Begin
    <2> QED
      BY <2>1, <2>2
  <1>2. ASSUME NEW r \in Request, Fails(r) PROVE TargetsOK'
    <2>1. /\ phase' = [phase EXCEPT ![r] = "failed"]
          /\ phase[r] # "done" /\ UNCHANGED job
      BY <1>2 DEF Fails, Rollback
    <2>2. Done("add")' = Done("add")
      BY <2>1, DoneUnchanged
    <2> QED
      BY <2>1, <2>2
  <1>3. ASSUME NEW r \in Request, LoadBudget(r) PROVE TargetsOK'
    <2>1. CASE budget = NoRow
      BY <1>3, <2>1, DoneUnchanged DEF LoadBudget
    <2>2. CASE budget # NoRow
      <3>1. /\ phase' = [phase EXCEPT ![r] = AfterLoad(r)]
            /\ phase[r] = "load" /\ UNCHANGED job
        BY <1>3, <2>2 DEF LoadBudget
      <3>2. \A op : Done(op)' = Done(op)
        BY <3>1, DoneUnchanged, AfterLoadCases
      <3> QED
        BY <3>1, <3>2, AfterLoadCases
    <2> QED
      BY <2>1, <2>2
  <1>4. ASSUME NEW r \in Request, InsertBudget(r) PROVE TargetsOK'
    <2>1. /\ phase' = [phase EXCEPT ![r] = AfterLoad(r)]
          /\ phase[r] = "insert" /\ UNCHANGED job
      BY <1>4 DEF InsertBudget
    <2>2. \A op : Done(op)' = Done(op)
      BY <2>1, DoneUnchanged, AfterLoadCases
    <2> QED
      BY <2>1, <2>2, AfterLoadCases
  <1>5. ASSUME NEW r \in Request, FindEntry(r) PROVE TargetsOK'
    <2>1. job[r].target \in entries
      BY <1>5 DEF FindEntry, VisibleEntries, DraftOK
    <2>2. job[r].target \in Done("add")
      BY <2>1 DEF EntriesAreLedger
    <2>3. \A op : Done(op)' = Done(op)
      BY <1>5, DoneUnchanged DEF FindEntry
    <2> QED
      BY <1>5, <2>2, <2>3 DEF FindEntry
  <1>6. ASSUME NEW r \in Request, Flush(r) PROVE TargetsOK'
    <2>1. Done("add")' = Done("add")
      BY <1>6, DoneUnchanged DEF Flush
    <2> QED
      BY <1>6, <2>1 DEF Flush
  <1>7. ASSUME NEW r \in Request, BuildResponse(r) PROVE TargetsOK'
    <2>1. Done("add")' = Done("add")
      BY <1>7, DoneUnchanged DEF BuildResponse
    <2> QED
      BY <1>7, <2>1 DEF BuildResponse
  <1>8. ASSUME NEW r \in Request, CommitWrite(r) \/ CommitRead(r) PROVE TargetsOK'
    <2>1. Goto(r, "done") /\ UNCHANGED job /\ phase[r] = "reply"
      BY <1>8 DEF CommitWrite, CommitRead
    <2>2. Done("add") \subseteq Done("add")'
      BY <2>1, DoneGrows
    <2> QED
      BY <2>1, <2>2
  <1>9. CASE DeleteGathering
    BY <1>9 DEF DeleteGathering, Done
  <1> QED
    BY <1>1, <1>2, <1>3, <1>4, <1>5, <1>6, <1>7, <1>8, <1>9, StepCases

(* A commit of the holder carries its effect into the ledger. *)
LEMMA CommitIsEffect ==
  ASSUME IInv, NEW r \in Request, CommitWrite(r)
  PROVE  entries' = Done("add")' \ Deleted'
  <1>1. /\ phase[r] = "reply" /\ lock = r /\ entries' = draft.entries
        /\ Goto(r, "done") /\ UNCHANGED job
    BY DEF CommitWrite
  <1>2. entries' = EntriesAfter(r)
    BY <1>1, NoRequestAssumption DEF IInv, DraftOK
  <1>3. gathering
    BY <1>1, NoRequestAssumption DEF IInv, LockOK
  <1>4. entries = Done("add") \ Deleted
    BY <1>3 DEF IInv, EntriesAreLedger
  <1>5. Deleted \subseteq Done("add") /\ r \notin Done("add")
    BY <1>1 DEF IInv, TargetsOK, Deleted, Done
  <1>6. /\ \A op : Done(op)' = IF job[r].op = op THEN Done(op) \cup {r} ELSE Done(op)
        /\ Deleted' = IF job[r].op = "del" THEN Deleted \cup {job[r].target}
                                          ELSE Deleted
    BY <1>1, DoneGrows DEF IInv
  <1>7. CASE job[r].op = "add"
    BY <1>2, <1>4, <1>5, <1>6, <1>7 DEF EntriesAfter
  <1>8. CASE job[r].op = "del"
    BY <1>2, <1>4, <1>6, <1>8 DEF EntriesAfter
  <1>9. CASE job[r].op \notin {"add", "del"}
    BY <1>2, <1>4, <1>6, <1>9 DEF EntriesAfter
  <1> QED
    BY <1>7, <1>8, <1>9

(* Whoever commits without holding the row is a GET. *)
LEMMA CommitReadIsGet ==
  ASSUME IInv, NEW r \in Request, CommitRead(r)
  PROVE  job[r] # NoJob /\ job[r].op = "get"
  <1>1. phase[r] = "reply" /\ lock # r
    BY DEF CommitRead
  <1>2. job[r] # NoJob
    BY <1>1 DEF IInv, SessionOK
  <1> QED
    BY <1>1, <1>2 DEF IInv, LockOK, IsMutator

(* The steps that leave every request as undone as it was. *)
LEMMA QuietSteps ==
  ASSUME IInv, NEW r \in Request,
         Begin(r) \/ Fails(r) \/ LoadBudget(r) \/ InsertBudget(r)
           \/ FindEntry(r) \/ Flush(r) \/ BuildResponse(r)
  PROVE  /\ \A op : Done(op)' = Done(op)
         /\ Deleted' = Deleted
         /\ UNCHANGED <<gathering, budget, entries>>
  <1> USE DEF IInv, Phase
  <1>1. CASE Begin(r)
    BY <1>1, DoneAtBegin DEF Begin
  <1>2. CASE Fails(r)
    BY <1>2, DoneUnchanged DEF Fails, Rollback
  <1>3. CASE LoadBudget(r)
    <2>1. PICK p \in {"insert", "read", "find", "flush"} : Goto(r, p)
      BY <1>3, AfterLoadCases DEF LoadBudget
    <2> QED
      BY <1>3, <2>1, DoneUnchanged DEF LoadBudget
  <1>4. CASE InsertBudget(r)
    <2>1. PICK p \in {"read", "find", "flush"} : Goto(r, p)
      BY <1>4, AfterLoadCases DEF InsertBudget
    <2> QED
      BY <1>4, <2>1, DoneUnchanged DEF InsertBudget
  <1>5. CASE FindEntry(r)
    BY <1>5, DoneUnchanged DEF FindEntry
  <1>6. CASE Flush(r)
    BY <1>6, DoneUnchanged DEF Flush
  <1>7. CASE BuildResponse(r)
    BY <1>7, DoneUnchanged DEF BuildResponse
  <1> QED
    BY <1>1, <1>2, <1>3, <1>4, <1>5, <1>6, <1>7

LEMMA LedgerStep == IInv /\ AnyNext => EntriesAreLedger'
  <1> SUFFICES ASSUME IInv, AnyNext PROVE EntriesAreLedger'
    OBVIOUS
  <1>1. ASSUME NEW r \in Request,
               Begin(r) \/ Fails(r) \/ LoadBudget(r) \/ InsertBudget(r)
                 \/ FindEntry(r) \/ Flush(r) \/ BuildResponse(r)
        PROVE  EntriesAreLedger'
    BY <1>1, QuietSteps DEF IInv, EntriesAreLedger
  <1>2. ASSUME NEW r \in Request, CommitWrite(r) PROVE EntriesAreLedger'
    <2>1. gathering'
      BY <1>2, NoRequestAssumption DEF CommitWrite, IInv, LockOK
    <2> QED
      BY <1>2, <2>1, CommitIsEffect DEF EntriesAreLedger
  <1>3. ASSUME NEW r \in Request, CommitRead(r) PROVE EntriesAreLedger'
    <2>1. job[r].op = "get"
      BY <1>3, CommitReadIsGet
    <2>2. Done("add")' = Done("add") /\ Deleted' = Deleted
      BY <1>3, <2>1, DoneGrows DEF CommitRead, IInv
    <2> QED
      BY <1>3, <2>2 DEF CommitRead, IInv, EntriesAreLedger
  <1>4. CASE DeleteGathering
    BY <1>4 DEF DeleteGathering, EntriesAreLedger
  <1> QED
    BY <1>1, <1>2, <1>3, <1>4, StepCases

LEMMA DirtyStep == IInv /\ AnyNext => NoDirtyReads'
  <1> SUFFICES ASSUME IInv, AnyNext PROVE NoDirtyReads'
    OBVIOUS
  <1> USE DEF NoDirtyReads
  <1>1. ASSUME NEW r \in Request, BuildResponse(r) PROVE NoDirtyReads'
    <2>1. entries \subseteq Done("add")
      BY DEF IInv, EntriesAreLedger
    <2>2. phase[r] = "read"
      BY <1>1 DEF BuildResponse
    <2>3. VisibleEntries(r) \subseteq Done("add") \cup {r}
      BY <2>1, <2>2, NoRequestAssumption DEF IInv, VisibleEntries, DraftOK, EntriesAfter
    <2>4. Done("add")' = Done("add")
      BY <1>1, QuietSteps
    <2> QED
      BY <1>1, <2>3, <2>4 DEF BuildResponse, IInv, TypeOK
  <1>2. ASSUME NEW r \in Request,
               Begin(r) \/ Fails(r) \/ LoadBudget(r) \/ InsertBudget(r)
                 \/ FindEntry(r) \/ Flush(r)
        PROVE  NoDirtyReads'
    <2>1. UNCHANGED response
      BY <1>2 DEF Begin, Fails, Rollback, LoadBudget, InsertBudget, FindEntry, Flush
    <2>2. Done("add")' = Done("add")
      BY <1>2, QuietSteps
    <2> QED
      BY <2>1, <2>2 DEF IInv
  <1>3. ASSUME NEW r \in Request, CommitWrite(r) \/ CommitRead(r) PROVE NoDirtyReads'
    <2>1. Goto(r, "done") /\ UNCHANGED <<job, response>>
      BY <1>3 DEF CommitWrite, CommitRead
    <2>2. Done("add") \subseteq Done("add")'
      BY <2>1, DoneGrows DEF IInv
    <2> QED
      BY <2>1, <2>2 DEF IInv
  <1>4. CASE DeleteGathering
    BY <1>4 DEF DeleteGathering, Done, IInv
  <1> QED
    BY <1>1, <1>2, <1>3, <1>4, StepCases

-----------------------------------------------------------------------------
(* Theorems *)

LEMMA InvInit == StoreInit => IInv
  <1> SUFFICES ASSUME StoreInit PROVE IInv
    OBVIOUS
  <1>1. TypeOK
    BY StoreInitTyped
  <1>2. \A op : Done(op) = {}
    BY DEF StoreInit, Done
  <1>3. Deleted = {}
    BY <1>2 DEF Deleted
  <1> QED
    BY <1>1, <1>2, <1>3, FreshRowTyped
    DEF StoreInit, IInv, SessionOK, LockOK, DraftOK, RowsOK, TargetsOK,
        EntriesAreLedger, NoDirtyReads, IsMutator, Nothing

LEMMA InvStep == IInv /\ [AnyNext]_storeVars => IInv'
  <1>1. IInv /\ AnyNext => IInv'
    <2> SUFFICES ASSUME IInv, AnyNext PROVE IInv'
      OBVIOUS
    <2>1. TypeOK'
      BY AnyNextTyped DEF IInv
    <2> QED
      BY <2>1, SessionStep, LockStep, DraftStep, RowsStep, TargetsStep, LedgerStep,
         DirtyStep DEF IInv
  <1>2. IInv /\ UNCHANGED storeVars => IInv'
    BY DEF storeVars, IInv, TypeOK, SessionOK, LockOK, DraftOK, RowsOK, TargetsOK,
           EntriesAreLedger, NoDirtyReads, Done, Deleted, EntriesAfter, IsMutator
  <1> QED
    BY <1>1, <1>2

(* The row, its lock and the sessions agree in every reachable state.      *)
THEOREM StoreInvariant == StoreSafety => []IInv
  BY InvInit, InvStep, PTL DEF StoreSafety, AnyNext

(* The variables keep their types: versions stay natural numbers, a        *)
(* session holds a row or none.                                            *)
THEOREM StoreTyped == StoreSafety => []TypeOK
  BY StoreInvariant, PTL DEF IInv

(* Whatever the interleaving of requests, failures and the deletion of the *)
(* gathering, the entries are those of the adds that succeeded less those  *)
(* the deletes that succeeded named.                                       *)
THEOREM LedgerKept == StoreSafety => []EntriesAreLedger
  BY StoreInvariant, PTL DEF IInv

(* No response shows an uncommitted expense of another request. *)
THEOREM ReadsAreCommitted == StoreSafety => []NoDirtyReads
  BY StoreInvariant, PTL DEF IInv

(* No budgets row and no entry survives the gathering. *)
THEOREM NothingOrphaned == StoreSafety => []NoOrphans
  <1>1. IInv => NoOrphans
    BY DEF IInv, RowsOK, NoOrphans
  <1> QED
    BY <1>1, StoreInvariant, PTL

-----------------------------------------------------------------------------
(* What is answered, and where it comes from *)

(* Versions count from one, and above it once a row is committed: the      *)
(* holder then has read one.                                               *)
VersionOK ==
  /\ budget # NoRow => budget.version > 0
  /\ \A r \in Request : loaded[r] # NoRow => loaded[r].version > 0
  /\ lock # NoRequest =>
       draft.row.version > 0 /\ (budget # NoRow => draft.row.version > 1)

(* A PUT goes on with the row it wrote, and what a mutator answers is its  *)
(* draft, until it commits.                                                *)
AnswerOK ==
  \A r \in Request : IsMutator(r) =>
    /\ phase[r] \in {"read", "reply"} /\ job[r].op = "set" => loaded[r] = draft.row
    /\ phase[r] = "reply" => response[r] = [row |-> loaded[r], entries |-> draft.entries]

(* Of a draft, too, each column has a source, if only in its own PUT.      *)
Sources(c) == {Default} \cup {job[r].settings[c] : r \in Done("set")}

DraftHasASource ==
  lock # NoRequest =>
    \A c \in Column :
      \/ draft.row.settings[c] \in Sources(c)
      \/ /\ job[lock].op = "set" /\ phase[lock] \in {"read", "reply"}
         /\ draft.row.settings[c] = job[lock].settings[c]

AnswerInv ==
  /\ IInv
  /\ VersionOK
  /\ AnswerOK
  /\ DraftHasASource
  /\ SettingsHaveASource

LEMMA VersionStep == AnswerInv /\ AnyNext => VersionOK'
  <1> SUFFICES ASSUME AnswerInv, AnyNext PROVE VersionOK'
    OBVIOUS
  <1> USE DEF AnswerInv, VersionOK, IInv, TypeOK, Goto
  <1>1. ASSUME NEW r \in Request,
               Begin(r) \/ Fails(r) \/ FindEntry(r) \/ BuildResponse(r) \/ CommitRead(r)
        PROVE  VersionOK'
    BY <1>1 DEF Begin, Fails, Rollback, FindEntry, BuildResponse, CommitRead
  <1>2. ASSUME NEW r \in Request, LoadBudget(r) PROVE VersionOK'
    BY <1>2 DEF LoadBudget
  <1>3. ASSUME NEW r \in Request, InsertBudget(r) PROVE VersionOK'
    BY <1>3, FreshRowTyped DEF InsertBudget
  <1>4. ASSUME NEW r \in Request, Flush(r) PROVE VersionOK'
    <2>1. /\ draft'.row.version = NextVersion(r) /\ loaded' = [loaded EXCEPT ![r] = Refreshed(r)]
          /\ Refreshed(r).version = NextVersion(r) /\ UNCHANGED budget
      BY <1>4 DEF Flush, Refreshed
    <2>2. loaded[r] \in Row /\ loaded[r].version > 0
      BY <1>4 DEF Flush, SessionOK
    <2>3. NextVersion(r) > 1 /\ NextVersion(r) > 0
      BY <2>2 DEF NextVersion, Row
    <2> QED
      BY <2>1, <2>3
  <1>5. ASSUME NEW r \in Request, CommitWrite(r) PROVE VersionOK'
    BY <1>5 DEF CommitWrite
  <1>6. CASE DeleteGathering
    BY <1>6 DEF DeleteGathering
  <1> QED
    BY <1>1, <1>2, <1>3, <1>4, <1>5, <1>6, StepCases

LEMMA AnswerStep == AnswerInv /\ AnyNext => AnswerOK'
  <1> SUFFICES ASSUME AnswerInv, AnyNext PROVE AnswerOK'
    OBVIOUS
  <1> USE DEF AnswerInv, AnswerOK, IInv, TypeOK, Goto, IsMutator, Phase
  <1>0. \A q \in Request : IsMutator(q) /\ phase[q] \in {"read", "reply"} => lock = q
    BY DEF LockOK
  <1>1. ASSUME NEW r \in Request, Begin(r) \/ FindEntry(r) \/ CommitRead(r)
        PROVE  AnswerOK'
    <2>1. /\ UNCHANGED <<draft, loaded, response>>
          /\ \A q \in Request \ {r} : job'[q] = job[q] /\ phase'[q] = phase[q]
      BY <1>1 DEF Begin, FindEntry, CommitRead
    <2>2. phase'[r] \notin {"read", "reply"}
      BY <1>1 DEF Begin, FindEntry, CommitRead
    <2> QED
      BY <2>1, <2>2
  <1>2. ASSUME NEW r \in Request, Fails(r) PROVE AnswerOK'
    BY <1>0, <1>2 DEF Fails, Rollback
  <1>3. ASSUME NEW r \in Request, LoadBudget(r) PROVE AnswerOK'
    <2>1. PICK p \in {"insert", "read", "find", "flush"} :
            /\ phase' = [phase EXCEPT ![r] = p]
            /\ p = "read" => job[r].op = "get"
      BY <1>3, AfterLoadCases DEF LoadBudget, SessionOK, Job, Op
    <2>2. UNCHANGED <<job, draft, response>> /\ \A q \in Request \ {r} : loaded'[q] = loaded[q]
      BY <1>3 DEF LoadBudget
    <2> QED
      BY <2>1, <2>2
  <1>4. ASSUME NEW r \in Request, InsertBudget(r) PROVE AnswerOK'
    <2>1. PICK p \in {"read", "find", "flush"} :
            /\ phase' = [phase EXCEPT ![r] = p]
            /\ p = "read" => job[r].op = "get"
      BY <1>4, AfterLoadCases DEF InsertBudget, SessionOK, Job, Op
    <2>2. lock = NoRequest /\ UNCHANGED <<job, response>>
      BY <1>4 DEF InsertBudget
    <2> QED
      BY <1>0, <2>1, <2>2
  <1>5. ASSUME NEW r \in Request, Flush(r) PROVE AnswerOK'
    <2>1. /\ phase[r] = "flush" /\ CanLock(r) /\ UNCHANGED <<job, response>>
          /\ phase' = [phase EXCEPT ![r] = "read"]
          /\ loaded' = [loaded EXCEPT ![r] = Refreshed(r)]
          /\ draft'.row = [version |-> NextVersion(r), settings |-> WrittenSettings(r)]
      BY <1>5 DEF Flush
    <2>2. job[r].op = "set" => Refreshed(r) = draft'.row
      BY <2>1 DEF Refreshed
    <2>3. ASSUME NEW q \in Request \ {r} PROVE ~(IsMutator(q) /\ phase[q] \in {"read", "reply"})
      BY <1>0, <2>1, <2>3 DEF CanLock
    <2> QED
      BY <2>1, <2>2, <2>3
  <1>6. ASSUME NEW r \in Request, BuildResponse(r) PROVE AnswerOK'
    BY <1>0, <1>6 DEF BuildResponse, VisibleEntries
  <1>7. ASSUME NEW r \in Request, CommitWrite(r) PROVE AnswerOK'
    BY <1>0, <1>7 DEF CommitWrite
  <1>8. CASE DeleteGathering
    BY <1>8 DEF DeleteGathering
  <1> QED
    BY <1>1, <1>2, <1>3, <1>4, <1>5, <1>6, <1>7, <1>8, StepCases

(* The sources of a column grow by the PUTs that commit.                   *)
LEMMA SourcesQuiet ==
  ASSUME IInv, NEW r \in Request,
         Begin(r) \/ Fails(r) \/ LoadBudget(r) \/ InsertBudget(r)
           \/ FindEntry(r) \/ Flush(r) \/ BuildResponse(r)
  PROVE  \A c : Sources(c)' = Sources(c)
  <1>1. Done("set")' = Done("set")
    BY QuietSteps
  <1>2. \A q \in Done("set") : job'[q] = job[q]
    BY DEF Done, Begin, Fails, Rollback, LoadBudget, InsertBudget, FindEntry, Flush,
           BuildResponse, IInv, TypeOK
  <1> QED
    BY <1>1, <1>2 DEF Sources

LEMMA SourcesGrow ==
  ASSUME IInv, NEW r \in Request, CommitWrite(r) \/ CommitRead(r)
  PROVE  \A c : /\ Sources(c) \subseteq Sources(c)'
                /\ job[r].op = "set" => job[r].settings[c] \in Sources(c)'
  <1>1. Goto(r, "done") /\ UNCHANGED job
    BY DEF CommitWrite, CommitRead
  <1>2. Done("set")' = IF job[r].op = "set" THEN Done("set") \cup {r} ELSE Done("set")
    BY <1>1, DoneGrows DEF IInv
  <1> QED
    BY <1>1, <1>2 DEF Sources

LEMMA SourceStep == AnswerInv /\ AnyNext => (DraftHasASource /\ SettingsHaveASource)'
  <1> SUFFICES ASSUME AnswerInv, AnyNext PROVE (DraftHasASource /\ SettingsHaveASource)'
    OBVIOUS
  <1> USE DEF AnswerInv
  <1>a. budget # NoRow => \A c \in Column : budget.settings[c] \in Sources(c)
    BY DEF SettingsHaveASource, Sources
  <1>b. ASSUME budget' # NoRow => \A c \in Column : budget'.settings[c] \in Sources(c)'
        PROVE  SettingsHaveASource'
    BY <1>b DEF SettingsHaveASource, Sources
  <1>1. ASSUME NEW r \in Request,
               Begin(r) \/ LoadBudget(r) \/ FindEntry(r) \/ BuildResponse(r)
        PROVE  (DraftHasASource /\ SettingsHaveASource)'
    <2>1. \A c : Sources(c)' = Sources(c)
      BY <1>1, SourcesQuiet
    <2>2. UNCHANGED <<budget, lock, draft>>
      BY <1>1 DEF Begin, LoadBudget, FindEntry, BuildResponse
    <2>3. ASSUME lock # NoRequest, phase[lock] \in {"read", "reply"}
          PROVE  job'[lock] = job[lock] /\ phase'[lock] \in {"read", "reply"}
      BY <1>1, <2>3 DEF Begin, LoadBudget, FindEntry, BuildResponse, Goto, IInv, TypeOK
    <2> QED
      BY <1>a, <1>b, <2>1, <2>2, <2>3 DEF DraftHasASource
  <1>2. ASSUME NEW r \in Request, Fails(r) PROVE (DraftHasASource /\ SettingsHaveASource)'
    <2>1. \A c : Sources(c)' = Sources(c)
      BY <1>2, SourcesQuiet
    <2>2. UNCHANGED <<budget, job>>
      BY <1>2 DEF Fails, Rollback
    <2>3. lock' = NoRequest \/ (UNCHANGED <<lock, draft>> /\ lock # r)
      BY <1>2 DEF Fails, Rollback
    <2>4. lock' # NoRequest => phase'[lock] = phase[lock]
      BY <1>2, <2>3 DEF Fails, Rollback, Goto, IInv, TypeOK
    <2> QED
      BY <1>a, <1>b, <2>1, <2>2, <2>3, <2>4 DEF DraftHasASource
  <1>3. ASSUME NEW r \in Request, InsertBudget(r) PROVE (DraftHasASource /\ SettingsHaveASource)'
    <2>1. \A c : Sources(c)' = Sources(c)
      BY <1>3, SourcesQuiet
    <2>2. budget' = budget /\ \A c \in Column : draft'.row.settings[c] = Default
      BY <1>3 DEF InsertBudget, FreshRow, DefaultSettings
    <2>3. \A c : Default \in Sources(c)
      BY DEF Sources
    <2> QED
      BY <1>a, <1>b, <2>1, <2>2, <2>3 DEF DraftHasASource
  <1>4. ASSUME NEW r \in Request, Flush(r) PROVE (DraftHasASource /\ SettingsHaveASource)'
    <2>1. \A c : Sources(c)' = Sources(c)
      BY <1>4, SourcesQuiet
    <2>2. /\ lock' = r /\ draft'.row.settings = WrittenSettings(r) /\ UNCHANGED <<budget, job>>
          /\ phase[r] = "flush" /\ phase'[r] = "read" /\ VisibleRow(r) # NoRow
      BY <1>4 DEF Flush, Goto, IInv, TypeOK
    <2>3. ASSUME NEW c \in Column PROVE VisibleRow(r).settings[c] \in Sources(c)
      BY <1>a, <2>2, <2>3 DEF DraftHasASource, VisibleRow
    <2>4. ASSUME NEW c \in Column
          PROVE  \/ WrittenSettings(r)[c] \in Sources(c)
                 \/ job[r].op = "set" /\ WrittenSettings(r)[c] = job[r].settings[c]
      BY <2>3, <2>4 DEF WrittenSettings
    <2>5. DraftHasASource'
      BY <2>1, <2>2, <2>4 DEF DraftHasASource
    <2> QED
      BY <1>a, <1>b, <2>1, <2>2, <2>5
  <1>5. ASSUME NEW r \in Request, CommitWrite(r) PROVE (DraftHasASource /\ SettingsHaveASource)'
    <2>1. lock = r /\ lock' = NoRequest /\ budget' = draft.row /\ r # NoRequest
      BY <1>5 DEF CommitWrite
    <2>2. \A c \in Column : budget'.settings[c] \in Sources(c)'
      BY <1>5, <2>1, SourcesGrow DEF DraftHasASource
    <2> QED
      BY <1>b, <2>1, <2>2 DEF DraftHasASource
  <1>6. ASSUME NEW r \in Request, CommitRead(r) PROVE (DraftHasASource /\ SettingsHaveASource)'
    <2>1. /\ UNCHANGED <<budget, lock, draft, job>> /\ lock # r
          /\ lock # NoRequest => phase'[lock] = phase[lock]
      BY <1>6 DEF CommitRead, Goto, IInv, TypeOK
    <2> QED
      BY <1>6, <1>a, <1>b, <2>1, SourcesGrow DEF DraftHasASource
  <1>7. CASE DeleteGathering
    BY <1>7 DEF DeleteGathering, DraftHasASource, SettingsHaveASource
  <1> QED
    BY <1>1, <1>2, <1>3, <1>4, <1>5, <1>6, <1>7, StepCases

LEMMA AnswerInvInit == StoreInit => AnswerInv
  <1> SUFFICES ASSUME StoreInit PROVE AnswerInv
    OBVIOUS
  <1>1. IInv
    BY InvInit
  <1> QED
    BY <1>1, FreshRowTyped
    DEF StoreInit, AnswerInv, VersionOK, AnswerOK, DraftHasASource, SettingsHaveASource,
        IsMutator, FreshRow, DefaultSettings

LEMMA AnswerInvStep == AnswerInv /\ [AnyNext]_storeVars => AnswerInv'
  <1>1. AnswerInv /\ AnyNext => AnswerInv'
    <2> SUFFICES ASSUME AnswerInv, AnyNext PROVE AnswerInv'
      OBVIOUS
    <2>1. IInv'
      BY InvStep DEF AnswerInv
    <2> QED
      BY <2>1, VersionStep, AnswerStep, SourceStep DEF AnswerInv
  <1>2. AnswerInv /\ UNCHANGED storeVars => AnswerInv'
    <2> SUFFICES ASSUME AnswerInv, UNCHANGED storeVars PROVE AnswerInv'
      OBVIOUS
    <2>1. IInv'
      BY InvStep DEF AnswerInv
    <2> QED
      BY <2>1 DEF AnswerInv, storeVars, VersionOK, AnswerOK, DraftHasASource,
                  SettingsHaveASource, Sources, Done, IsMutator
  <1> QED
    BY <1>1, <1>2

(* The invariant of a mutation from the loaded row to the answer.          *)
THEOREM AnswerInvariant == StoreSafety => []AnswerInv
  BY AnswerInvInit, AnswerInvStep, PTL DEF StoreSafety, AnyNext

(* Each committed setting is the default or was asked for by a PUT that    *)
(* succeeded, however many PUTs merged column by column.                   *)
THEOREM SettingsSourced == StoreSafety => []SettingsHaveASource
  BY AnswerInvariant, PTL DEF AnswerInv

(* A step that changes a committed row commits the draft of a request that *)
(* has read a row.                                                         *)
LEMMA CreatedOnceStep ==
  AnswerInv /\ [AnyNext]_storeVars =>
    [budget # NoRow /\ budget' # budget /\ gathering' => budget'.version > 1]_storeVars
  <1> SUFFICES ASSUME AnswerInv, AnyNext, budget # NoRow, budget' # budget, gathering'
               PROVE  budget'.version > 1
    OBVIOUS
  <1>1. ~DeleteGathering
    BY DEF DeleteGathering
  <1>2. PICK r \in Request : CommitWrite(r)
    BY <1>1, StepCases DEF Begin, Fails, Rollback, LoadBudget, InsertBudget, FindEntry,
                           Flush, BuildResponse, CommitRead
  <1> QED
    BY <1>2 DEF CommitWrite, AnswerInv, VersionOK

(* The row is created once: no commit puts a fresh row in the place of a   *)
(* committed one.                                                          *)
THEOREM RowCreatedOnce == StoreSafety => CreatedOnce
  BY AnswerInvariant, CreatedOnceStep, PTL DEF StoreSafety, AnyNext, CreatedOnce

(* What a request that answers a mutation commits is what it answers.      *)
LEMMA AnswersStep ==
  AnswerInv /\ [AnyNext]_storeVars =>
    [\A r \in Request :
       IsMutator(r) /\ phase[r] # "done" /\ phase'[r] = "done" =>
         /\ entries' = response[r].entries
         /\ job[r].op = "set" => budget' = response[r].row]_storeVars
  <1> SUFFICES ASSUME AnswerInv, AnyNext, NEW r \in Request,
                      IsMutator(r), phase[r] # "done", phase'[r] = "done"
               PROVE  /\ entries' = response[r].entries
                      /\ job[r].op = "set" => budget' = response[r].row
    OBVIOUS
  <1> USE DEF AnswerInv, IInv, TypeOK, Goto
  <1>1. ~DeleteGathering
    BY DEF DeleteGathering
  <1>2. ASSUME NEW q \in Request,
               Begin(q) \/ Fails(q) \/ FindEntry(q) \/ Flush(q) \/ BuildResponse(q)
        PROVE  FALSE
    BY <1>2 DEF Begin, Fails, Rollback, FindEntry, Flush, BuildResponse
  <1>3. ASSUME NEW q \in Request, LoadBudget(q) \/ InsertBudget(q) PROVE FALSE
    <2>1. PICK p \in {"insert", "read", "find", "flush"} : phase' = [phase EXCEPT ![q] = p]
      BY <1>3, AfterLoadCases DEF LoadBudget, InsertBudget
    <2> QED
      BY <2>1
  <1>4. CommitWrite(r) \/ CommitRead(r)
    <2>1. PICK q \in Request : CommitWrite(q) \/ CommitRead(q)
      BY <1>1, <1>2, <1>3, StepCases
    <2>2. phase' = [phase EXCEPT ![q] = "done"]
      BY <2>1 DEF CommitWrite, CommitRead
    <2> QED
      BY <2>1, <2>2
  <1>5. phase[r] = "reply" /\ lock = r
    BY <1>4 DEF CommitWrite, CommitRead, LockOK
  <1>6. CommitWrite(r)
    BY <1>4, <1>5 DEF CommitRead
  <1> QED
    BY <1>5, <1>6 DEF CommitWrite, AnswerOK

(* Whatever else is going on, the expenses and, for a PUT, the settings a  *)
(* request answers with are those its commit installs.                     *)
THEOREM AnswersAreCommitted == StoreSafety => AnswersWhatItCommits
  BY AnswerInvariant, AnswersStep, PTL DEF StoreSafety, AnyNext, AnswersWhatItCommits

-----------------------------------------------------------------------------
(* Refinement *)

StatusOf == [q \in Request |-> Status(phase[q])]

(* A step to a phase that is not final leaves the ledger's status alone;   *)
(* a step to a final one decides the request.                              *)
LEMMA StatusStep ==
  ASSUME TypeOK, NEW r \in Request, NEW p \in Phase, Goto(r, p),
         phase[r] \notin {"done", "failed"}
  PROVE  StatusOf' = [StatusOf EXCEPT ![r] = Status(p)]
  BY DEF TypeOK, Goto, StatusOf, Status

LEMMA StatusStays ==
  ASSUME TypeOK, NEW r \in Request, NEW p \in Phase \ {"done", "failed"}, Goto(r, p),
         phase[r] \notin {"done", "failed"}
  PROVE  StatusOf' = StatusOf
  <1>1. StatusOf[r] = Status(p)
    BY DEF StatusOf, Status
  <1> QED
    BY <1>1, StatusStep DEF StatusOf

LEMMA StatusWaits ==
  ASSUME NEW r \in Request, phase[r] \notin {"done", "failed"}
  PROVE  StatusOf[r] = "waiting"
  BY DEF StatusOf, Status

LEMMA LedgerInitMaps == StoreInit => Ledger!LedgerInit
  BY DEF StoreInit, Ledger!LedgerInit, Status

LEMMA LedgerNextMaps ==
  IInv /\ [AnyNext]_storeVars => [Ledger!LedgerNext]_(Ledger!ledgerVars)
  <1> SUFFICES ASSUME IInv, [AnyNext]_storeVars
               PROVE  [Ledger!LedgerNext]_(Ledger!ledgerVars)
    OBVIOUS
  <1> USE DEF IInv, Phase
  <1>1. ASSUME NEW r \in Request, Begin(r) PROVE Ledger!Ask(r)
    <2>1. phase[r] = "new" /\ Goto(r, "load")
      BY <1>1 DEF Begin
    <2>2. StatusOf' = StatusOf /\ StatusOf[r] = "waiting"
      BY <2>1, StatusStays, StatusWaits
    <2> QED
      BY <1>1, <2>1, <2>2, JobsAreTyped DEF Begin, Ledger!Ask, StatusOf, SessionOK
  <1>2. ASSUME NEW r \in Request, Fails(r) PROVE Ledger!Fail(r)
    <2>1. Goto(r, "failed") /\ phase[r] \notin {"done", "failed"}
          /\ UNCHANGED <<gathering, entries, job>>
      BY <1>2 DEF Fails, Rollback
    <2>2. StatusOf' = [StatusOf EXCEPT ![r] = "failed"] /\ StatusOf[r] = "waiting"
      BY <2>1, StatusStep, StatusWaits DEF Status
    <2> QED
      BY <2>1, <2>2 DEF Ledger!Fail, StatusOf
  <1>3. ASSUME NEW r \in Request,
               LoadBudget(r) \/ InsertBudget(r) \/ FindEntry(r) \/ Flush(r)
                 \/ BuildResponse(r)
        PROVE  UNCHANGED Ledger!ledgerVars
    <2>1. PICK p \in {"insert", "read", "find", "flush", "reply"} : Goto(r, p)
      BY <1>3, AfterLoadCases
      DEF LoadBudget, InsertBudget, FindEntry, Flush, BuildResponse
    <2>2. phase[r] \notin {"done", "failed"} /\ UNCHANGED <<gathering, entries, job>>
      BY <1>3 DEF LoadBudget, InsertBudget, FindEntry, Flush, BuildResponse
    <2>3. StatusOf' = StatusOf
      BY <2>1, <2>2, StatusStays
    <2> QED
      BY <2>2, <2>3 DEF Ledger!ledgerVars, StatusOf
  <1>4. ASSUME NEW r \in Request, CommitWrite(r) \/ CommitRead(r)
        PROVE  Ledger!LedgerNext
    <2>1. /\ phase[r] = "reply" /\ Goto(r, "done")
          /\ UNCHANGED <<gathering, job>>
      BY <1>4 DEF CommitWrite, CommitRead
    <2>2. StatusOf' = [StatusOf EXCEPT ![r] = "done"] /\ StatusOf[r] = "waiting"
      BY <2>1, StatusStep, StatusWaits DEF Status
    <2>3. job[r] \in Job /\ job[r] # NoJob
      BY <2>1 DEF SessionOK
    <2>4. ASSUME NEW op, job[r].op = op PROVE Ledger!Succeed(r, op)
      BY <2>1, <2>2, <2>3, <2>4 DEF Ledger!Succeed, StatusOf
    <2>5. /\ entries' = EntriesAfter(r)
          /\ job[r].op # "get" => gathering
      <3>1. CASE CommitWrite(r)
        BY <3>1, <2>1, NoRequestAssumption DEF CommitWrite, DraftOK, LockOK
      <3>2. CASE CommitRead(r)
        BY <3>2, CommitReadIsGet DEF CommitRead, EntriesAfter
      <3> QED
        BY <1>4, <3>1, <3>2
    <2>6. CASE job[r].op = "get"
      BY <2>4, <2>5, <2>6 DEF EntriesAfter, Ledger!Get, Ledger!LedgerNext
    <2>7. CASE job[r].op = "set"
      BY <2>4, <2>5, <2>7 DEF EntriesAfter, Ledger!Set, Ledger!LedgerNext
    <2>8. CASE job[r].op = "add"
      BY <2>4, <2>5, <2>8 DEF EntriesAfter, Ledger!Add, Ledger!LedgerNext
    <2>9. CASE job[r].op = "del"
      <3>1. job[r].target \in Request /\ phase[job[r].target] = "done"
            /\ job[job[r].target].op = "add"
        BY <2>1, <2>9 DEF TargetsOK, Done
      <3>2. StatusOf[job[r].target] = "done"
        BY <3>1 DEF StatusOf, Status
      <3>3. Ledger!Delete(r)
        BY <2>4, <2>5, <2>9, <3>1, <3>2 DEF EntriesAfter, Ledger!Delete, StatusOf
      <3> QED
        BY <3>3 DEF Ledger!LedgerNext
    <2> QED
      BY <2>3, <2>6, <2>7, <2>8, <2>9 DEF Job, Op
  <1>5. CASE DeleteGathering
    BY <1>5 DEF DeleteGathering, Ledger!Close, Ledger!LedgerNext
  <1>6. CASE UNCHANGED storeVars
    BY <1>6 DEF storeVars, Ledger!ledgerVars
  <1> QED
    BY <1>1, <1>2, <1>3, <1>4, <1>5, <1>6, StepCases DEF Ledger!LedgerNext

(* Every behaviour of the requests is one of the ledger: each request that *)
(* succeeds takes effect on the expenses once, in one step, and a request  *)
(* that fails never does.                                                  *)
THEOREM StoreImplementsLedger == StoreSafety => ImplementsLedger
  BY StoreInvariant, LedgerInitMaps, LedgerNextMaps, PTL
  DEF StoreSafety, AnyNext, ImplementsLedger, Ledger!LedgerSpec

=============================================================================
