---------------------------- MODULE BudgetLedger ----------------------------
(***************************************************************************)
(* What BudgetService promises about the expenses of a gathering, with no  *)
(* rows, transactions or locks: a request that succeeds takes effect in    *)
(* one step, exactly once; a request that fails has no effect at all.      *)
(***************************************************************************)
CONSTANTS
  Request,
  Job,          \* [op, target, ...]: what a request asks
  NoJob

VARIABLES
  open,         \* the gathering exists
  recorded,     \* the expenses, named after the requests that added them
  status,       \* "waiting", "done" or "failed"
  job

ledgerVars == <<open, recorded, status, job>>

LedgerInit ==
  /\ open = TRUE
  /\ recorded = {}
  /\ status = [r \in Request |-> "waiting"]
  /\ job = [r \in Request |-> NoJob]

Ask(r) ==
  /\ open
  /\ job[r] = NoJob
  /\ status[r] = "waiting"
  /\ \E j \in Job : job' = [job EXCEPT ![r] = j]
  /\ UNCHANGED <<open, recorded, status>>

Succeed(r, op) ==
  /\ status[r] = "waiting"
  /\ job[r] # NoJob
  /\ job[r].op = op
  /\ status' = [status EXCEPT ![r] = "done"]
  /\ UNCHANGED <<open, job>>

(* A GET that found the gathering may answer after the gathering went. *)
Get(r) == Succeed(r, "get") /\ UNCHANGED recorded

Set(r) == Succeed(r, "set") /\ open /\ UNCHANGED recorded

Add(r) == Succeed(r, "add") /\ open /\ recorded' = recorded \cup {r}

(* Only an expense that was recorded once can be deleted.  Two requests    *)
(* may delete the same one: both are told that it is gone.                 *)
Delete(r) ==
  /\ Succeed(r, "del")
  /\ open
  /\ LET t == job[r].target IN
       /\ status[t] = "done" /\ job[t].op = "add"
       /\ recorded' = recorded \ {t}

Fail(r) ==
  /\ status[r] = "waiting"
  /\ status' = [status EXCEPT ![r] = "failed"]
  /\ UNCHANGED <<open, recorded, job>>

Close ==
  /\ open
  /\ open' = FALSE
  /\ recorded' = {}
  /\ UNCHANGED <<status, job>>

LedgerNext ==
  \/ \E r \in Request :
       Ask(r) \/ Get(r) \/ Set(r) \/ Add(r) \/ Delete(r) \/ Fail(r)
  \/ Close

LedgerSpec == LedgerInit /\ [][LedgerNext]_ledgerVars
=============================================================================
