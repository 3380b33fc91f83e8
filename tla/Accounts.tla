------------------------------- MODULE Accounts -------------------------------
(***************************************************************************)
(* The account of one e-mail address: AuthService over the users table and *)
(* the Cognito user pool, and the profile requests of UserService.         *)
(*                                                                         *)
(* Requests for different addresses share nothing.  With LOCAL_AUTH the    *)
(* users row is the account; otherwise the pool keeps it, and the row goes *)
(* with it, in two stores that no transaction spans.  One action is one    *)
(* await, or one synchronous call of the Cognito client.                   *)
(***************************************************************************)
CONSTANTS
  Request,
  Value,        \* passwords, names, device tokens: two of each will do
  Unlucky,      \* requests that may meet an error or be cancelled
  NoRequest,
  NoValue,
  NoRow,
  NoAccount,
  NoJob

ASSUME UnluckyAssumption == Unlucky \subseteq Request
ASSUME NoRequestAssumption == NoRequest \notin Request
ASSUME NoValueAssumption == NoValue \notin Value

(* fcm_token may be null, and hashed_password is with Cognito. *)
Column == {"hashed_password", "profile", "fcm_token"}
Field == Value \cup {NoValue}
Row == [sub : Request, cols : [Column -> Field]]
ASSUME NoRowAssumption == NoRow \notin Row

(* What Cognito knows; a sub is named after the request that signed up.    *)
Account == [sub : Request, password : Value, confirmed : BOOLEAN, code : BOOLEAN]
ASSUME NoAccountAssumption == NoAccount \notin Account

Op == {"register", "login", "forgot", "reset", "profile", "device"}
Job == [op : Op, value : Field]
ASSUME NoJobAssumption == NoJob \notin Job

VARIABLES
  local_auth,   \* LOCAL_AUTH
  row,          \* the committed users row
  account,      \* the account in the Cognito pool
  lock,         \* who holds an uncommitted version of the row, or of its key
  draft,        \* that version
  job,
  phase,
  loaded,       \* each session's User object
  before        \* history: the requests that were over when one began

stores == <<local_auth, row, account>>
locks == <<lock, draft>>
vars == <<stores, locks, job, phase, loaded, before>>

Phase == {"new", "check", "flush", "commit", "done", "refused", "failed"}
Over == {"done", "refused", "failed"}
Running == Phase \ (Over \cup {"new"})

Init ==
  /\ local_auth \in BOOLEAN
  /\ row = NoRow
  /\ account = NoAccount
  /\ lock = NoRequest
  /\ draft = NoRow
  /\ job = [r \in Request |-> NoJob]
  /\ phase = [r \in Request |-> "new"]
  /\ loaded = [r \in Request |-> NoRow]
  /\ before = [r \in Request |-> {}]

Goto(r, p) == phase' = [phase EXCEPT ![r] = p]
Does(r, ops) == job[r] # NoJob /\ job[r].op \in ops
Asked(r) == job[r].value

CanLock(r) == lock \in {NoRequest, r}
(* READ COMMITTED. *)
Visible(r) == IF lock = r THEN draft ELSE row

Release(r) ==
  IF lock = r THEN lock' = NoRequest /\ draft' = NoRow ELSE UNCHANGED locks

(* get_db rolls back on any error: the pool keeps what it was told. *)
End(r, p) ==
  /\ Goto(r, p)
  /\ Release(r)
  /\ loaded' = [loaded EXCEPT ![r] = NoRow]
  /\ UNCHANGED <<stores, job, before>>

Fail(r) == End(r, "failed")

(* 401, 404 or 409. *)
Refuse(r) == End(r, "refused")

(***************************************************************************)
(* A request arrives.                                                      *)
(***************************************************************************)
Asks(r, op, value) ==
  /\ phase[r] = "new"
  /\ job' = [job EXCEPT ![r] = [op |-> op, value |-> value]]
  /\ before' = [before EXCEPT ![r] = {q \in Request : phase[q] \in Over}]
  /\ Goto(r, "check")
  /\ UNCHANGED <<stores, locks, loaded>>

BeginAuth(r) ==
  \/ \E op \in {"register", "login", "reset"}, value \in Value : Asks(r, op, value)
  \/ Asks(r, "forgot", NoValue)

(* Who asks for the profile has a token: the account can be signed in to. *)
BeginProfile(r) ==
  /\ IF local_auth THEN row # NoRow ELSE account # NoAccount /\ account.confirmed
  /\ \/ \E value \in Value : Asks(r, "profile", value)
     \/ \E value \in Field : Asks(r, "device", value)

(***************************************************************************)
(* POST /register.                                                         *)
(***************************************************************************)
RegisterLocal(r) ==
  /\ phase[r] = "check"
  /\ Does(r, {"register"})
  /\ local_auth
  /\ row = NoRow
  /\ Goto(r, "flush")
  /\ UNCHANGED <<stores, locks, job, loaded, before>>

EmailTaken(r) ==
  /\ phase[r] = "check"
  /\ Does(r, {"register"})
  /\ IF local_auth THEN row # NoRow ELSE account # NoAccount
  /\ Refuse(r)

SignedUp(r) == [sub |-> r, password |-> Asked(r), confirmed |-> FALSE, code |-> FALSE]

SignUp(r) ==
  /\ phase[r] = "check"
  /\ Does(r, {"register"})
  /\ ~local_auth
  /\ account = NoAccount
  /\ account' = SignedUp(r)
  /\ Goto(r, "flush")
  /\ UNCHANGED <<local_auth, row, locks, job, loaded, before>>

(* The answer of Cognito is lost: the client's retry is told that the      *)
(* user exists, which the handler takes for a 409.                         *)
SignUpRetried(r) ==
  /\ r \in Unlucky
  /\ phase[r] = "check"
  /\ Does(r, {"register"})
  /\ ~local_auth
  /\ account = NoAccount
  /\ account' = SignedUp(r)
  /\ Goto(r, "refused")
  /\ UNCHANGED <<local_auth, row, locks, job, loaded, before>>

NewUser(r) ==
  [sub |-> r,
   cols |-> [c \in Column |->
     CASE c = "hashed_password" -> IF local_auth THEN Asked(r) ELSE NoValue
       [] c = "profile" -> Asked(r)
       [] c = "fcm_token" -> NoValue]]

(* Mutant: users.email is not unique. *)
InsertAnyway(r) ==
  /\ phase[r] = "flush"
  /\ Does(r, {"register"})
  /\ CanLock(r)
  /\ lock' = r
  /\ draft' = NewUser(r)
  /\ Goto(r, "commit")
  /\ UNCHANGED <<stores, job, loaded, before>>

(* The unique index makes the INSERT wait for another of the same e-mail. *)
InsertUser(r) ==
  /\ phase[r] = "flush"
  /\ Does(r, {"register"})
  /\ CanLock(r)
  /\ row = NoRow
  /\ lock' = r
  /\ draft' = NewUser(r)
  /\ Goto(r, "commit")
  /\ UNCHANGED <<stores, job, loaded, before>>

(* IntegrityError. *)
InsertTaken(r) ==
  /\ phase[r] = "flush"
  /\ Does(r, {"register"})
  /\ CanLock(r)
  /\ row # NoRow
  /\ Fail(r)

(* The user enters the code of the verification e-mail, without this API. *)
Confirm ==
  /\ account # NoAccount
  /\ ~account.confirmed
  /\ account' = [account EXCEPT !.confirmed = TRUE]
  /\ UNCHANGED <<local_auth, row, locks, job, phase, loaded, before>>

(***************************************************************************)
(* POST /login.                                                            *)
(***************************************************************************)
(* Mutant: the password is not compared. *)
AnyPassword(r) == IF local_auth THEN row # NoRow ELSE account # NoAccount

Matches(r) ==
  IF local_auth THEN row # NoRow /\ row.cols["hashed_password"] = Asked(r)
                ELSE account # NoAccount /\ account.password = Asked(r)

Login(r) ==
  /\ phase[r] = "check"
  /\ Does(r, {"login"})
  /\ Matches(r)
  /\ ~local_auth => account.confirmed
  /\ Goto(r, "commit")
  /\ UNCHANGED <<stores, locks, job, loaded, before>>

LoginRefused(r) ==
  /\ phase[r] = "check"
  /\ Does(r, {"login"})
  /\ ~Matches(r)
  /\ Refuse(r)

(* 401: "Email address not yet verified." *)
LoginUnverified(r) ==
  /\ phase[r] = "check"
  /\ Does(r, {"login"})
  /\ Matches(r)
  /\ ~local_auth /\ ~account.confirmed
  /\ Fail(r)

(***************************************************************************)
(* POST /forgot-password and POST /reset-password.                         *)
(***************************************************************************)
(* Cognito sends a code; an error of it is only logged. *)
ForgotPassword(r) ==
  /\ phase[r] = "check"
  /\ Does(r, {"forgot"})
  /\ \/ /\ ~local_auth
        /\ account # NoAccount
        /\ account' = [account EXCEPT !.code = TRUE]
     \/ UNCHANGED account
  /\ Goto(r, "commit")
  /\ UNCHANGED <<local_auth, row, locks, job, loaded, before>>

(* With no such user the answer is the same and nothing is written. *)
ResetNobody(r) ==
  /\ phase[r] = "check"
  /\ Does(r, {"reset"})
  /\ local_auth
  /\ row = NoRow
  /\ Goto(r, "commit")
  /\ UNCHANGED <<stores, locks, job, loaded, before>>

(* confirm_forgot_password sets the password; its answer may be lost. *)
ConfirmReset(r) ==
  /\ phase[r] = "check"
  /\ Does(r, {"reset"})
  /\ ~local_auth
  /\ account # NoAccount
  /\ account.code
  /\ account' = [account EXCEPT !.password = Asked(r), !.code = FALSE]
  /\ \/ Goto(r, "commit")
     \/ r \in Unlucky /\ Goto(r, "failed")
  /\ UNCHANGED <<local_auth, row, locks, job, loaded, before>>

(* 400: a wrong or expired code. *)
ResetRefused(r) ==
  /\ phase[r] = "check"
  /\ Does(r, {"reset"})
  /\ ~local_auth
  /\ Refuse(r)

(***************************************************************************)
(* get_current_user, or the SELECT of a local reset, loads the row; the    *)
(* UPDATE names the column if it differs from the loaded object.           *)
(***************************************************************************)
Edits(r) == Does(r, {"profile", "device"}) \/ (local_auth /\ Does(r, {"reset"}))

LoadUser(r) ==
  /\ phase[r] = "check"
  /\ Edits(r)
  /\ row # NoRow
  /\ loaded' = [loaded EXCEPT ![r] = row]
  /\ Goto(r, "flush")
  /\ UNCHANGED <<stores, locks, job, before>>

(* USER_NOT_FOUND: the account in the pool has no row. *)
UserNotFound(r) ==
  /\ phase[r] = "check"
  /\ Does(r, {"profile", "device"})
  /\ row = NoRow
  /\ Refuse(r)

ColumnOf(r) ==
  CASE Does(r, {"reset"}) -> "hashed_password"
    [] Does(r, {"profile"}) -> "profile"
    [] OTHER -> "fcm_token"

(* bcrypt salts: the hash of an old password differs too. *)
WritesNothing(r) == ~Does(r, {"reset"}) /\ loaded[r].cols[ColumnOf(r)] = Asked(r)

SkipUpdate(r) ==
  /\ phase[r] = "flush"
  /\ Edits(r)
  /\ WritesNothing(r)
  /\ Goto(r, "commit")
  /\ UNCHANGED <<stores, locks, job, loaded, before>>

(* Mutant: the UPDATE names every column. *)
WholeRow(r) == [loaded[r] EXCEPT !.cols[ColumnOf(r)] = Asked(r)]

(* Mutant: a field left out of the payload is assigned. *)
AssignsMissing(r) == [Visible(r) EXCEPT !.cols[ColumnOf(r)] = NoJob]

Updated(r) == [Visible(r) EXCEPT !.cols[ColumnOf(r)] = Asked(r)]

UpdateUser(r) ==
  /\ phase[r] = "flush"
  /\ Edits(r)
  /\ ~WritesNothing(r)
  /\ CanLock(r)
  /\ lock' = r
  /\ draft' = Updated(r)
  /\ Goto(r, "commit")
  /\ UNCHANGED <<stores, job, loaded, before>>

(***************************************************************************)
(* get_db commits.                                                         *)
(***************************************************************************)
(* Mutant: the session is closed without a commit. *)
CloseOnly(r) == phase[r] = "commit" /\ End(r, "done")

Commit(r) ==
  /\ phase[r] = "commit"
  /\ row' = Visible(r)
  /\ Release(r)
  /\ Goto(r, "done")
  /\ loaded' = [loaded EXCEPT ![r] = NoRow]
  /\ UNCHANGED <<local_auth, account, job, before>>

(* A failed statement or call, a cancelled task, a lost worker. *)
Abort(r) ==
  /\ r \in Unlucky
  /\ phase[r] \in Running
  /\ Fail(r)

-----------------------------------------------------------------------------

Register(r) ==
  \/ RegisterLocal(r)
  \/ EmailTaken(r)
  \/ SignUp(r)
  \/ SignUpRetried(r)
  \/ InsertUser(r)
  \/ InsertTaken(r)

Authenticate(r) == Login(r) \/ LoginRefused(r) \/ LoginUnverified(r)

Reset(r) == ForgotPassword(r) \/ ResetNobody(r) \/ ConfirmReset(r) \/ ResetRefused(r)

Edit(r) == LoadUser(r) \/ UserNotFound(r) \/ SkipUpdate(r) \/ UpdateUser(r)

Next ==
  \/ \E r \in Request :
       \/ BeginAuth(r)
       \/ BeginProfile(r)
       \/ Register(r)
       \/ Authenticate(r)
       \/ Reset(r)
       \/ Edit(r)
       \/ Commit(r)
       \/ Abort(r)
  \/ Confirm

Spec == Init /\ [][Next]_vars

-----------------------------------------------------------------------------

TypeOK ==
  /\ local_auth \in BOOLEAN
  /\ row \in Row \cup {NoRow}
  /\ account \in Account \cup {NoAccount}
  /\ lock \in Request \cup {NoRequest}
  /\ draft \in Row \cup {NoRow}
  /\ job \in [Request -> Job \cup {NoJob}]
  /\ phase \in [Request -> Phase]
  /\ loaded \in [Request -> Row \cup {NoRow}]
  /\ before \in [Request -> SUBSET Request]

-----------------------------------------------------------------------------

Succeeded(r, op) == Does(r, {op}) /\ phase[r] = "done"
Refused(r, op) == Does(r, {op}) /\ phase[r] = "refused"

(* However many registrations of an address race, fail or are retried, one *)
(* succeeds at most, and it is the one whose row there is and, with        *)
(* Cognito, whose account: nobody signs in to an account and reads the     *)
(* row of another.                                                         *)
RegisteredOnce ==
  \A r \in Request : Succeeded(r, "register") <=>
    /\ row # NoRow
    /\ row.sub = r
    /\ ~local_auth => account # NoAccount /\ account.sub = r

(* With Cognito an address may be taken and have no users row, so that it  *)
(* signs in and finds no profile.  Only a registration that failed after   *)
(* the sign-up, or whose sign-up was retried, leaves one behind; with      *)
(* LOCAL_AUTH nothing does.                                                *)
StrandedOnlyByFailure ==
  row = NoRow =>
    \A r \in Request :
      Refused(r, "register") \/ Succeeded(r, "login") \/ Refused(r, "profile") =>
        /\ account # NoAccount
        /\ phase[account.sub] # "done"

Sets(w) == Does(w, {"register", "reset"})

(* A writer of the password that surely had an account to write to. *)
SurelySet(w) ==
  \/ Succeeded(w, "register")
  \/ Succeeded(w, "reset") /\ \E q \in before[w] : Succeeded(q, "register")

(* A login succeeds only with a password that somebody set and that no     *)
(* writer over before the login began has replaced; and it is refused for  *)
(* its password only if the one it gives was not the last one set, or      *)
(* might not have been.                                                    *)
LoginIsRegular ==
  \A r \in Request :
    /\ Succeeded(r, "login") =>
         \E w \in Request :
           /\ Sets(w) /\ Asked(w) = Asked(r) /\ r \notin before[w]
           /\ ~\E v \in before[r] : SurelySet(v) /\ w \in before[v]
    /\ Refused(r, "login") =>
         ~\E w \in before[r] :
            /\ SurelySet(w) /\ Asked(w) = Asked(r)
            /\ \A v \in Request :
                 Sets(v) => Asked(v) = Asked(r) \/ v \in before[w] \/ r \in before[v]

Writers(c) ==
  CASE c = "hashed_password" -> {r \in Request : local_auth /\ SurelySet(r)}
    [] c = "profile" ->
         {r \in Request : Succeeded(r, "register") \/ Succeeded(r, "profile")}
    [] c = "fcm_token" -> {r \in Request : Succeeded(r, "device")}

(* No edit of the row is lost: each column says what was asked by a writer *)
(* of it that is not older than all the others.  A PATCH of the profile    *)
(* that loaded the user before a password reset, or before logout cleared  *)
(* the device token, does not bring the old one back.                      *)
LastEditStands ==
  row # NoRow =>
    \A c \in Column :
      LET writers == Writers(c)
      IN IF writers = {} THEN row.cols[c] = NoValue
         ELSE \E r \in Request :
                /\ r \in writers \/ (c = "hashed_password" /\ Succeeded(r, "reset"))
                /\ row.cols[c] = Asked(r)
                /\ \A q \in writers : r \notin before[q]

=============================================================================
