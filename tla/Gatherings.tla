------------------------------ MODULE Gatherings ------------------------------
(***************************************************************************)
(* The gatherings of one host: GatheringService                            *)
(* (app/api/v1/gatherings/service.py) over PostgreSQL.                     *)
(*                                                                         *)
(* The host creates, updates and deletes gatherings and asks for their     *)
(* invite links; guests who have a link answer it.  Each request has a     *)
(* session of its own, as in BudgetStore, and one action is one await.     *)
(***************************************************************************)
EXTENDS Integers, FiniteSets

CONSTANTS
  Request,
  Gathering,    \* gathering ids
  Limit,        \* FREE_GATHERING_LIMIT
  Unlucky,      \* requests that may meet an error or be cancelled
  NoRequest,
  NoRow,
  NoJob

ASSUME GatheringAssumption == IsFiniteSet(Gathering)
ASSUME LimitAssumption == Limit \in Nat
ASSUME UnluckyAssumption == Unlucky \subseteq Request
ASSUME NoRequestAssumption == NoRequest \notin Request

(* A token is named after the request that drew it; secrets.token_urlsafe  *)
(* draws no token twice.                                                   *)
Token == Request \cup {NoRequest}
Row == [archived : BOOLEAN, token : Token]
ASSUME NoRowAssumption == NoRow \notin Row

Op == {"create", "update", "delete", "invite", "rsvp"}
Job == [op : Op, target : Gathering, archived : BOOLEAN]
ASSUME NoJobAssumption == NoJob \notin Job

VARIABLES
  premium,      \* the host's is_premium
  unused,       \* ids no gathering has had
  rows,         \* the committed gatherings rows
  guests,       \* the committed guest_rsvps rows of each gathering
  lock,         \* who holds an uncommitted version of each gatherings row
  draft,        \* that version
  job,
  phase,
  loaded,       \* each session's Gathering object
  before,       \* history: the requests that were over when one began
  reopened      \* history: an archived gathering has become active again

data == <<premium, unused, rows, guests, reopened>>
locks == <<lock, draft>>
vars == <<data, locks, job, phase, loaded, before>>

Phase == {"new", "flush", "refresh", "commit", "done", "failed"}
Over == {"done", "failed"}
Running == {"flush", "refresh", "commit"}

FreshRow == [archived |-> FALSE, token |-> NoRequest]
ArchivedRow == [archived |-> TRUE, token |-> NoRequest]

IsActive(row) == row # NoRow /\ ~row.archived
Active == {g \in Gathering : IsActive(rows[g])}

Init ==
  /\ premium \in BOOLEAN
  /\ rows \in [Gathering -> {NoRow, FreshRow, ArchivedRow}]
  /\ Cardinality(Active) <= Limit
  /\ unused = {g \in Gathering : rows[g] = NoRow}
  /\ guests = [g \in Gathering |-> {}]
  /\ lock = [g \in Gathering |-> NoRequest]
  /\ draft = [g \in Gathering |-> NoRow]
  /\ job = [r \in Request |-> NoJob]
  /\ phase = [r \in Request |-> "new"]
  /\ loaded = [r \in Request |-> NoRow]
  /\ before = [r \in Request |-> {}]
  /\ reopened = FALSE

Goto(r, p) == phase' = [phase EXCEPT ![r] = p]
Target(r) == job[r].target
Does(r, ops) == job[r] # NoJob /\ job[r].op \in ops

Holds(r) == job[r] # NoJob /\ lock[Target(r)] = r
Visible(r) == IF Holds(r) THEN draft[Target(r)] ELSE rows[Target(r)]

(* A guest_rsvps row that is not committed shares the key of its gathering *)
(* (FOR KEY SHARE): neither a DELETE nor an UPDATE of invite_token, which  *)
(* has a unique index, goes past it.  An UPDATE of another column does.    *)
ChangesKey(r) == Does(r, {"delete", "invite"})
Sharing(g) ==
  {q \in Request : Does(q, {"rsvp"}) /\ phase[q] = "commit" /\ Target(q) = g}

(* Mutant: the deletion does not wait for the rows that refer to its key. *)
CanWriteAnyKey(r) == lock[Target(r)] \in {NoRequest, r}

CanWrite(r) ==
  /\ lock[Target(r)] \in {NoRequest, r}
  /\ ChangesKey(r) => Sharing(Target(r)) = {}

CanShare(r) ==
  LET holder == lock[Target(r)] IN holder # NoRequest => ~ChangesKey(holder)

Write(r, row) ==
  /\ lock' = [lock EXCEPT ![Target(r)] = r]
  /\ draft' = [draft EXCEPT ![Target(r)] = row]

Release(r) ==
  IF Holds(r)
    THEN /\ lock' = [lock EXCEPT ![Target(r)] = NoRequest]
         /\ draft' = [draft EXCEPT ![Target(r)] = NoRow]
    ELSE UNCHANGED locks

(* Mutant: the failed session is left open. *)
LeaveOpen(r) ==
  /\ Goto(r, "failed")
  /\ UNCHANGED <<data, locks, job, loaded, before>>

(* get_db rolls back on any error. *)
Fail(r) ==
  /\ Goto(r, "failed")
  /\ Release(r)
  /\ UNCHANGED <<data, job, loaded, before>>

(***************************************************************************)
(* A request arrives and runs its first SELECT.                            *)
(***************************************************************************)
Asks(r, op, g, archived) ==
  /\ phase[r] = "new"
  /\ job' = [job EXCEPT ![r] = [op |-> op, target |-> g, archived |-> archived]]
  /\ before' = [before EXCEPT ![r] = {q \in Request : phase[q] \in Over}]
  /\ Goto(r, "flush")
  /\ UNCHANGED <<premium, rows, guests, reopened, locks>>

(* Mutant: `>` for `>=`. *)
WithinLimitOrAtIt == premium \/ Cardinality(Active) <= Limit

(* _assert_free_tier_limit counts what is committed and not archived. *)
WithinLimit == premium \/ Cardinality(Active) < Limit

BeginCreate(r) ==
  /\ WithinLimit
  /\ \E g \in unused : Asks(r, "create", g, FALSE) /\ unused' = unused \ {g}
  /\ UNCHANGED loaded

(* _get_gathering_or_404 and _assert_host. *)
BeginChange(r) ==
  /\ \E g \in Gathering :
       /\ rows[g] # NoRow
       /\ \/ \E archived \in BOOLEAN : Asks(r, "update", g, archived)
          \/ \E op \in {"delete", "invite"} : Asks(r, op, g, FALSE)
       /\ loaded' = [loaded EXCEPT ![r] = rows[g]]
  /\ UNCHANGED unused

(* submit_rsvp finds the gathering by the token of the link. *)
BeginRsvp(r) ==
  /\ \E g \in Gathering :
       /\ rows[g] # NoRow
       /\ rows[g].token # NoRequest
       /\ Asks(r, "rsvp", g, FALSE)
       /\ loaded' = [loaded EXCEPT ![r] = rows[g]]
  /\ UNCHANGED unused

(* 403 for the limit or for another host, 404 for an id or a link. *)
Refuse(r) == phase[r] = "new" /\ Fail(r)

(***************************************************************************)
(* flush.                                                                  *)
(***************************************************************************)
InsertGathering(r) ==
  /\ phase[r] = "flush"
  /\ Does(r, {"create"})
  /\ Write(r, FreshRow)
  /\ Goto(r, "refresh")
  /\ UNCHANGED <<data, job, loaded, before>>

(* Mutant: a new link for every call. *)
NeverHasToken(row) == row = NoRow

HasToken(row) == row.token # NoRequest

(* A PATCH that changes no column and an invite whose token is there write *)
(* nothing.  Only the PATCH goes on to refresh.                            *)
WritesNothing(r) ==
  \/ Does(r, {"update"}) /\ job[r].archived = loaded[r].archived
  \/ Does(r, {"invite"}) /\ HasToken(loaded[r])

SkipUpdate(r) ==
  /\ phase[r] = "flush"
  /\ WritesNothing(r)
  /\ Goto(r, IF Does(r, {"update"}) THEN "refresh" ELSE "commit")
  /\ UNCHANGED <<data, locks, job, loaded, before>>

(* Mutant: the UPDATE names every column. *)
WholeRow(r) ==
  [archived |-> IF Does(r, {"update"}) THEN job[r].archived ELSE loaded[r].archived,
   token |-> IF Does(r, {"invite"}) THEN r ELSE loaded[r].token]

(* Mutant: without exclude_none a field left out of the PATCH becomes NULL. *)
WritesNull(r) ==
  IF Does(r, {"update"}) THEN [Visible(r) EXCEPT !.archived = NoRow]
                         ELSE [Visible(r) EXCEPT !.token = r]

(* The UPDATE names the columns that changed. *)
Updated(r) ==
  IF Does(r, {"update"}) THEN [Visible(r) EXCEPT !.archived = job[r].archived]
                         ELSE [Visible(r) EXCEPT !.token = r]

UpdateRow(r) ==
  /\ phase[r] = "flush"
  /\ Does(r, {"update", "invite"}) /\ ~WritesNothing(r)
  /\ CanWrite(r)
  /\ Visible(r) # NoRow
  /\ Write(r, Updated(r))
  /\ Goto(r, "refresh")
  /\ UNCHANGED <<data, job, loaded, before>>

(* StaleDataError: the gathering was deleted meanwhile. *)
UpdateStale(r) ==
  /\ phase[r] = "flush"
  /\ Does(r, {"update", "invite"}) /\ ~WritesNothing(r)
  /\ CanWrite(r)
  /\ Visible(r) = NoRow
  /\ Fail(r)

(* A DELETE that matches no row is a warning. *)
DeleteRow(r) ==
  /\ phase[r] = "flush"
  /\ Does(r, {"delete"})
  /\ CanWrite(r)
  /\ IF Visible(r) = NoRow THEN UNCHANGED locks ELSE Write(r, NoRow)
  /\ Goto(r, "commit")
  /\ UNCHANGED <<data, job, loaded, before>>

InsertRsvp(r) ==
  /\ phase[r] = "flush"
  /\ Does(r, {"rsvp"})
  /\ CanShare(r)
  /\ rows[Target(r)] # NoRow
  /\ Goto(r, "commit")
  /\ UNCHANGED <<data, locks, job, loaded, before>>

(* IntegrityError: the gathering was deleted meanwhile. *)
InsertOrphan(r) ==
  /\ phase[r] = "flush"
  /\ Does(r, {"rsvp"})
  /\ CanShare(r)
  /\ rows[Target(r)] = NoRow
  /\ Fail(r)

(***************************************************************************)
(* refresh reads the row back.                                             *)
(***************************************************************************)
Refresh(r) ==
  /\ phase[r] = "refresh"
  /\ Visible(r) # NoRow
  /\ loaded' = [loaded EXCEPT ![r] = Visible(r)]
  /\ Goto(r, "commit")
  /\ UNCHANGED <<data, locks, job, before>>

(* A PATCH that wrote nothing may find the gathering gone. *)
RefreshGone(r) ==
  /\ phase[r] = "refresh"
  /\ Visible(r) = NoRow
  /\ Fail(r)

(***************************************************************************)
(* get_db commits.  ON DELETE CASCADE takes the guests with the gathering. *)
(***************************************************************************)
CommittedGuests(r) ==
  CASE Holds(r) /\ Does(r, {"delete"}) -> {}
    [] Does(r, {"rsvp"}) -> guests[Target(r)] \cup {r}
    [] OTHER -> guests[Target(r)]

Commit(r) ==
  /\ phase[r] = "commit"
  /\ rows' = [rows EXCEPT ![Target(r)] = Visible(r)]
  /\ guests' = [guests EXCEPT ![Target(r)] = CommittedGuests(r)]
  /\ reopened' = (reopened \/ (IsActive(Visible(r)) /\ rows[Target(r)] # NoRow
                                                   /\ rows[Target(r)].archived))
  /\ Release(r)
  /\ Goto(r, "done")
  /\ UNCHANGED <<premium, unused, job, loaded, before>>

(* A failed statement, a cancelled task, a lost worker. *)
Abort(r) ==
  /\ r \in Unlucky
  /\ phase[r] \in Running
  /\ Fail(r)

-----------------------------------------------------------------------------

Begin(r) == BeginCreate(r) \/ BeginChange(r) \/ BeginRsvp(r) \/ Refuse(r)

Proceed(r) ==
  \/ InsertGathering(r)
  \/ SkipUpdate(r)
  \/ UpdateRow(r)
  \/ UpdateStale(r)
  \/ DeleteRow(r)
  \/ InsertRsvp(r)
  \/ InsertOrphan(r)
  \/ Refresh(r)
  \/ RefreshGone(r)
  \/ Commit(r)

Next == \E r \in Request : Begin(r) \/ Proceed(r) \/ Abort(r)

Spec == Init /\ [][Next]_vars

-----------------------------------------------------------------------------

TypeOK ==
  /\ premium \in BOOLEAN
  /\ unused \subseteq Gathering
  /\ rows \in [Gathering -> Row \cup {NoRow}]
  /\ guests \in [Gathering -> SUBSET Request]
  /\ lock \in [Gathering -> Request \cup {NoRequest}]
  /\ draft \in [Gathering -> Row \cup {NoRow}]
  /\ job \in [Request -> Job \cup {NoJob}]
  /\ phase \in [Request -> Phase]
  /\ loaded \in [Request -> Row \cup {NoRow}]
  /\ before \in [Request -> SUBSET Request]
  /\ reopened \in BOOLEAN

-----------------------------------------------------------------------------

Succeeded(r, op) == Does(r, {op}) /\ phase[r] = "done"
Overlap(p, q) == p \notin before[q] /\ q \notin before[p]

(* A free host has more active gatherings than the limit only where two    *)
(* creates overlapped, or an archived gathering was made active again:     *)
(* creates one after another keep the limit whatever else goes on.         *)
LimitUnlessRaced ==
  premium \/ reopened \/ Cardinality(Active) <= Limit
    \/ \E p, q \in Request :
         p # q /\ Succeeded(p, "create") /\ Succeeded(q, "create") /\ Overlap(p, q)

(* Two answers to POST /invite differ only where two such requests for the *)
(* gathering overlapped.                                                   *)
InviteStableUnlessRaced ==
  \A r, q \in Request :
    Succeeded(r, "invite") /\ Succeeded(q, "invite") /\ Target(r) = Target(q) =>
      \/ loaded[r].token = loaded[q].token
      \/ \E s, t \in Request :
           /\ s # t /\ Succeeded(s, "invite") /\ Succeeded(t, "invite")
           /\ Target(s) = Target(r) /\ Target(t) = Target(r) /\ Overlap(s, t)

(* The guest list of a gathering is who answered its link, and goes with   *)
(* it: no answer is lost to a deletion that fails, none survives one that  *)
(* does not.                                                               *)
GuestsAnswered ==
  \A g \in Gathering :
    guests[g] = IF rows[g] = NoRow THEN {}
                ELSE {r \in Request : Succeeded(r, "rsvp") /\ Target(r) = g}

(* Requests change only their own columns: a PATCH that raced an invite    *)
(* does not take the link away, nor an invite bring a gathering back.      *)
ColumnsKeptApart ==
  [][\A g \in Gathering : rows[g] # NoRow /\ rows'[g] # NoRow =>
       /\ rows'[g].token # rows[g].token =>
            \E r \in Request : /\ Does(r, {"invite"}) /\ Target(r) = g
                               /\ phase[r] = "commit" /\ phase'[r] = "done"
       /\ rows'[g].archived # rows[g].archived =>
            \E r \in Request : /\ Does(r, {"update"}) /\ Target(r) = g
                               /\ phase[r] = "commit" /\ phase'[r] = "done"]_vars

(* Who holds a row has flushed and does not wait for another row, so no    *)
(* two requests wait for each other, and a failed one keeps nobody.        *)
HoldersDoNotWait ==
  \A g \in Gathering :
    lock[g] # NoRequest => phase[lock[g]] \in {"refresh", "commit"}

=============================================================================
