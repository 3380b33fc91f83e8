---------------------------- MODULE AccountsProofs ----------------------------
(***************************************************************************)
(* Proofs about Accounts, for any number of requests and values: one       *)
(* registration of an address wins, and only a failure strands it; the     *)
(* last edit of each column stands; the password is a regular register.    *)
(***************************************************************************)
EXTENDS Accounts, TLAPS

(* Whoever holds the row, or its key, has written it and only commits; a   *)
(* registration that is about to commit holds it.                          *)
LockOK ==
  /\ lock # NoRequest =>
       /\ phase[lock] = "commit"
       /\ draft # NoRow
       /\ IF row = NoRow THEN Does(lock, {"register"}) /\ draft.sub = lock
                         ELSE ~Does(lock, {"register"}) /\ draft.sub = row.sub
  /\ \A r \in Request : Does(r, {"register"}) /\ phase[r] = "commit" => lock = r

(* A row that a session has loaded is still there: no request deletes it.  *)
EditOK == \A r \in Request : Edits(r) /\ phase[r] = "flush" => row # NoRow

(* With Cognito, who is past the check of a registration has signed up.    *)
SignUpOK ==
  /\ account # NoAccount => ~local_auth /\ Does(account.sub, {"register"})
  /\ \A r \in Request :
       ~local_auth /\ Does(r, {"register"}) /\ phase[r] \in {"flush", "commit", "done"} =>
         account # NoAccount /\ account.sub = r

(* The row is that of the one registration that has succeeded.             *)
RowOK ==
  \A r \in Request : Succeeded(r, "register") <=> row # NoRow /\ row.sub = r

(* The address has been registered with whoever keeps the accounts.        *)
Known == IF local_auth THEN row # NoRow ELSE account # NoAccount

KnownOK ==
  \A r \in Request :
    \/ Does(r, {"profile"})
    \/ Does(r, {"login"}) /\ phase[r] \in {"commit", "done"}
    \/ Refused(r, "register")
    => Known

StartOK == \A r \in Request : phase[r] = "new" => job[r] = NoJob

(* Passwords are values. *)
AskedOK == \A r \in Request : Does(r, {"register", "login", "reset"}) => Asked(r) \in Value

Typed == TypeOK /\ AskedOK

IInv ==
  /\ Typed
  /\ StartOK
  /\ LockOK
  /\ EditOK
  /\ SignUpOK
  /\ RowOK
  /\ KnownOK

-----------------------------------------------------------------------------

LEMMA InvInit == Init => IInv
  <1> SUFFICES ASSUME Init PROVE IInv
    OBVIOUS
  <1>1. TypeOK
    BY DEF Init, TypeOK, Phase, Over
  <1>2. \A r \in Request : phase[r] = "new" /\ ~\E ops : Does(r, ops)
    BY DEF Init, Does
  <1>3. StartOK /\ LockOK /\ EditOK
    BY <1>2 DEF Init, StartOK, LockOK, EditOK
  <1>5. AskedOK
    BY <1>2 DEF AskedOK
  <1>4. SignUpOK /\ RowOK /\ KnownOK
    BY <1>2 DEF Init, SignUpOK, RowOK, KnownOK, Succeeded, Refused
  <1> QED
    BY <1>1, <1>3, <1>4, <1>5 DEF IInv, Typed

(* A step of a request that holds nothing, writes nothing, and only moves  *)
(* on to p.                                                                *)
LEMMA QuietKeeps ==
  ASSUME IInv, Typed', UNCHANGED <<stores, locks>>,
         NEW r \in Request, NEW p, Goto(r, p), phase[r] \notin {"commit", "done"}, p # "done",
         \A q \in Request \ {r} : job'[q] = job[q],
         p # "new", phase[r] # "new" => job'[r] = job[r],
         Does(r, {"register"})' => p # "commit" /\ (p = "flush" => local_auth),
         Edits(r)' /\ p = "flush" => row # NoRow,
         \/ Does(r, {"profile"})'
         \/ Does(r, {"login"})' /\ p = "commit"
         \/ Does(r, {"register"})' /\ p = "refused"
         => Known
  PROVE  IInv'
  <1>0. TypeOK /\ StartOK /\ LockOK /\ EditOK /\ SignUpOK /\ RowOK /\ KnownOK
    BY DEF IInv, Typed
  <1>1. phase'[r] = p
    BY <1>0 DEF TypeOK, Goto
  <1>2. \A q \in Request \ {r} : phase'[q] = phase[q] /\ job'[q] = job[q]
    BY <1>0 DEF TypeOK, Goto
  <1>3. local_auth' = local_auth /\ row' = row /\ account' = account /\ lock' = lock /\ draft' = draft
    BY DEF stores, locks
  <1>9. StartOK'
    BY <1>0, <1>1, <1>2 DEF StartOK
  <1>4. LockOK'
    <2>1. lock # r
      BY <1>0, NoRequestAssumption DEF LockOK, TypeOK
    <2>2. lock # NoRequest => lock \in Request \ {r}
      BY <1>0, <2>1 DEF TypeOK
    <2> QED
      BY <1>0, <1>1, <1>2, <1>3, <2>2 DEF LockOK, Does
  <1>5. EditOK'
    BY <1>0, <1>1, <1>2, <1>3 DEF EditOK, Edits, Does
  <1>6. SignUpOK'
    <2>1. account # NoAccount => account.sub \in Request
      BY <1>0 DEF TypeOK, Account
    <2>2. ~local_auth /\ Does(r, {"register"})' => p \notin {"flush", "commit", "done"}
      OBVIOUS
    <2>3. account # NoAccount => Does(account.sub, {"register"})'
      BY <1>0, <1>2, <1>3, <2>1 DEF SignUpOK, StartOK, Does
    <2> QED
      BY <1>0, <1>1, <1>2, <1>3, <2>2, <2>3 DEF SignUpOK, Does
  <1>7. RowOK'
    BY <1>0, <1>1, <1>2, <1>3 DEF RowOK, Succeeded, Does
  <1>8. KnownOK'
    BY <1>0, <1>1, <1>2, <1>3 DEF KnownOK, Known, Refused, Does
  <1> QED
    BY <1>4, <1>5, <1>6, <1>7, <1>8, <1>9 DEF IInv

-----------------------------------------------------------------------------

LEMMA EndTypes == ASSUME TypeOK, NEW r \in Request, NEW p \in Phase, End(r, p) PROVE TypeOK'
  <1>1. lock' \in Request \cup {NoRequest} /\ draft' \in Row \cup {NoRow}
    BY DEF TypeOK, End, Release, locks
  <1> QED
    BY <1>1 DEF TypeOK, End, Goto, stores

LEMMA BeginTypes ==
  ASSUME Typed, NEW r \in Request, BeginAuth(r) \/ BeginProfile(r)
  PROVE  Typed'
  <1>1. PICK op \in Op, value \in Field :
          /\ Asks(r, op, value)
          /\ op \in {"register", "login", "reset"} => value \in Value
    BY DEF BeginAuth, BeginProfile, Op, Field
  <1>2. [op |-> op, value |-> value] \in Job
    BY DEF Job
  <1>3. TypeOK'
    BY <1>1, <1>2 DEF Typed, TypeOK, Asks, Goto, Phase, stores, locks
  <1>4. ASSUME NEW q \in Request, Does(q, {"register", "login", "reset"})'
        PROVE  Asked(q)' \in Value
    <2>1. CASE q = r
      <3>1. job'[r] = [op |-> op, value |-> value]
        BY <1>1 DEF Typed, TypeOK, Asks
      <3> QED
        BY <1>1, <1>4, <2>1, <3>1 DEF Does, Asked
    <2>2. CASE q # r
      <3>1. job'[q] = job[q]
        BY <1>1, <2>2 DEF Typed, TypeOK, Asks
      <3> QED
        BY <1>4, <3>1 DEF Typed, AskedOK, Does, Asked
    <2> QED
      BY <2>1, <2>2
  <1> QED
    BY <1>3, <1>4 DEF Typed, AskedOK

LEMMA RegisterTypes == ASSUME Typed, NEW r \in Request, Register(r) PROVE TypeOK'
  <1>0. TypeOK
    BY DEF Typed
  <1>1. CASE RegisterLocal(r)
    BY <1>0, <1>1 DEF TypeOK, RegisterLocal, Goto, Phase, stores, locks
  <1>2. CASE EmailTaken(r) \/ InsertTaken(r)
    BY <1>0, <1>2, EndTypes DEF EmailTaken, InsertTaken, Refuse, Fail, Phase, Over
  <1>3. ASSUME Does(r, {"register"}) PROVE Asked(r) \in Value
    BY <1>3 DEF Typed, AskedOK, Does
  <1>4. CASE SignUp(r) \/ SignUpRetried(r)
    <2>1. SignedUp(r) \in Account
      BY <1>3, <1>4 DEF SignUp, SignUpRetried, SignedUp, Account
    <2> QED
      BY <1>0, <1>4, <2>1 DEF TypeOK, SignUp, SignUpRetried, Goto, Phase, Over, locks
  <1>5. CASE InsertUser(r)
    <2>1. NewUser(r) \in Row
      BY <1>3, <1>5 DEF InsertUser, NewUser, Row, Column, Field
    <2> QED
      BY <1>0, <1>5, <2>1 DEF TypeOK, InsertUser, Goto, Phase, stores
  <1> QED
    BY <1>1, <1>2, <1>4, <1>5 DEF Register

LEMMA AccountTypes ==
  ASSUME Typed, NEW r \in Request, Authenticate(r) \/ Reset(r)
  PROVE  TypeOK'
  <1>0. TypeOK
    BY DEF Typed
  <1>1. CASE Login(r)
    BY <1>0, <1>1 DEF TypeOK, Login, Goto, Phase, stores, locks
  <1>2. CASE LoginRefused(r) \/ LoginUnverified(r) \/ ResetRefused(r)
    BY <1>0, <1>2, EndTypes DEF LoginRefused, LoginUnverified, ResetRefused, Refuse, Fail,
                                Phase, Over
  <1>3. CASE ForgotPassword(r)
    <2>1. account' \in Account \cup {NoAccount}
      BY <1>0, <1>3 DEF TypeOK, ForgotPassword, Account
    <2> QED
      BY <1>0, <1>3, <2>1 DEF TypeOK, ForgotPassword, Goto, Phase, locks
  <1>4. CASE ResetNobody(r)
    BY <1>0, <1>4 DEF TypeOK, ResetNobody, Goto, Phase, stores, locks
  <1>5. CASE ConfirmReset(r)
    <2>1. Asked(r) \in Value
      BY <1>5 DEF Typed, AskedOK, Does, ConfirmReset
    <2>2. account' \in Account
      BY <1>0, <1>5, <2>1 DEF TypeOK, ConfirmReset, Account
    <2> QED
      BY <1>0, <1>5, <2>2 DEF TypeOK, ConfirmReset, Goto, Phase, Over, locks
  <1> QED
    BY <1>1, <1>2, <1>3, <1>4, <1>5 DEF Authenticate, Reset

(* The row an edit writes is a row.                                        *)
LEMMA EditTypes ==
  ASSUME Typed, LockOK, EditOK, NEW r \in Request, Edit(r)
  PROVE  TypeOK'
  <1>0. TypeOK
    BY DEF Typed
  <1>1. CASE LoadUser(r)
    BY <1>0, <1>1 DEF TypeOK, LoadUser, Goto, Phase, stores, locks
  <1>2. CASE UserNotFound(r)
    BY <1>0, <1>2, EndTypes DEF UserNotFound, Refuse, Phase, Over
  <1>3. CASE SkipUpdate(r)
    BY <1>0, <1>3 DEF TypeOK, SkipUpdate, Goto, Phase, stores, locks
  <1>4. CASE UpdateUser(r)
    <2>1. lock # r /\ row # NoRow
      BY <1>4, NoRequestAssumption DEF UpdateUser, LockOK, EditOK
    <2>2. row \in Row
      BY <1>0, <2>1 DEF TypeOK
    <2>3. Asked(r) \in Field
      BY <1>0, <1>4 DEF TypeOK, UpdateUser, Edits, Does, Asked, Job
    <2>4. ColumnOf(r) \in Column
      BY DEF ColumnOf, Column
    <2>5. Updated(r) \in Row
      BY <2>1, <2>2, <2>3, <2>4 DEF Updated, Visible, Row
    <2> QED
      BY <1>0, <1>4, <2>5 DEF TypeOK, UpdateUser, Goto, Phase, stores
  <1> QED
    BY <1>1, <1>2, <1>3, <1>4 DEF Edit

LEMMA CommitTypes == ASSUME TypeOK, NEW r \in Request, Commit(r) PROVE TypeOK'
  <1>1. lock' \in Request \cup {NoRequest} /\ draft' \in Row \cup {NoRow}
    BY DEF TypeOK, Commit, Release, locks
  <1>2. row' \in Row \cup {NoRow}
    BY DEF TypeOK, Commit, Visible
  <1> QED
    BY <1>1, <1>2 DEF TypeOK, Commit, Goto, Phase, Over

LEMMA TypedStep ==
  ASSUME Typed, LockOK, EditOK, [Next]_vars
  PROVE  Typed'
  <1>0. TypeOK
    BY DEF Typed
  <1>1. ASSUME NEW r \in Request, BeginAuth(r) \/ BeginProfile(r)
        PROVE  Typed'
    BY <1>1, BeginTypes
  <1>2. ASSUME UNCHANGED job, TypeOK' PROVE Typed'
    BY <1>2 DEF Typed, AskedOK, Does, Asked
  <1>3. ASSUME NEW r \in Request, Register(r) PROVE Typed'
    <2>1. UNCHANGED job
      BY <1>3 DEF Register, RegisterLocal, EmailTaken, SignUp, SignUpRetried, InsertUser,
                  InsertTaken, Refuse, Fail, End
    <2> QED
      BY <1>2, <1>3, <2>1, RegisterTypes
  <1>4. ASSUME NEW r \in Request, Authenticate(r) \/ Reset(r) PROVE Typed'
    <2>1. UNCHANGED job
      BY <1>4 DEF Authenticate, Login, LoginRefused, LoginUnverified, Reset, ForgotPassword,
                  ResetNobody, ConfirmReset, ResetRefused, Refuse, Fail, End
    <2> QED
      BY <1>2, <1>4, <2>1, AccountTypes
  <1>5. ASSUME NEW r \in Request, Edit(r) PROVE Typed'
    <2>1. UNCHANGED job
      BY <1>5 DEF Edit, LoadUser, UserNotFound, SkipUpdate, UpdateUser, Refuse, End
    <2> QED
      BY <1>2, <1>5, <2>1, EditTypes
  <1>6. ASSUME NEW r \in Request, Commit(r) PROVE Typed'
    <2>1. UNCHANGED job
      BY <1>6 DEF Commit
    <2> QED
      BY <1>0, <1>2, <1>6, <2>1, CommitTypes
  <1>7. ASSUME NEW r \in Request, Abort(r) PROVE Typed'
    <2>1. UNCHANGED job /\ End(r, "failed") /\ "failed" \in Phase
      BY <1>7 DEF Abort, Fail, End, Phase, Over
    <2> QED
      BY <1>0, <1>2, <1>7, <2>1, EndTypes
  <1>8. CASE Confirm
    <2>1. account' \in Account
      BY <1>0, <1>8 DEF TypeOK, Confirm, Account
    <2>2. TypeOK'
      BY <1>0, <1>8, <2>1 DEF TypeOK, Confirm, locks
    <2> QED
      BY <1>2, <1>8, <2>2 DEF Confirm
  <1>9. CASE UNCHANGED vars
    <2>1. TypeOK'
      BY <1>0, <1>9 DEF TypeOK, vars, stores, locks
    <2> QED
      BY <1>2, <1>9, <2>1 DEF vars
  <1> QED
    BY <1>1, <1>3, <1>4, <1>5, <1>6, <1>7, <1>8, <1>9 DEF Next
-----------------------------------------------------------------------------

(* Only who is about to commit holds the row.                              *)
LEMMA HolderCommits ==
  ASSUME IInv, NEW r \in Request, phase[r] # "commit"
  PROVE  /\ lock # r
         /\ \A p : End(r, p) => UNCHANGED locks
  BY NoRequestAssumption DEF IInv, LockOK, End, Release

LEMMA BeginKeeps ==
  ASSUME IInv, Typed', NEW r \in Request, BeginAuth(r) \/ BeginProfile(r)
  PROVE  IInv'
  <1>0. TypeOK /\ KnownOK
    BY DEF IInv, Typed
  <1>1. PICK op \in Op, value \in Field : Asks(r, op, value)
    BY DEF BeginAuth, BeginProfile, Op, Field
  <1>2. job' = [job EXCEPT ![r] = [op |-> op, value |-> value]]
    BY <1>1 DEF Asks
  <1>3. phase[r] = "new" /\ Goto(r, "check") /\ UNCHANGED <<stores, locks>>
    BY <1>1 DEF Asks
  <1>4. Does(r, {"profile"})' => Known
    <2>1. ASSUME Does(r, {"profile"})' PROVE ~BeginAuth(r)
      BY <1>0, <1>2, <2>1 DEF BeginAuth, Asks, Does, TypeOK
    <2> QED
      BY <2>1 DEF BeginProfile, Known
  <1> QED
    BY <1>0, <1>2, <1>3, <1>4, QuietKeeps DEF TypeOK

(* Nothing of a registration is refused that did not exist.                *)
LEMMA RegisterKeeps ==
  ASSUME IInv, Typed', NEW r \in Request, RegisterLocal(r) \/ EmailTaken(r) \/ InsertTaken(r)
  PROVE  IInv'
  <1>1. CASE RegisterLocal(r)
    BY <1>1, QuietKeeps DEF RegisterLocal, Edits, Does
  <1>2. CASE EmailTaken(r)
    BY <1>2, HolderCommits, QuietKeeps DEF EmailTaken, Refuse, End, Edits, Does, Known
  <1>3. CASE InsertTaken(r)
    BY <1>3, HolderCommits, QuietKeeps DEF InsertTaken, Fail, End, Edits, Does
  <1> QED
    BY <1>1, <1>2, <1>3

LEMMA SignUpKeeps ==
  ASSUME IInv, Typed', NEW r \in Request, SignUp(r) \/ SignUpRetried(r)
  PROVE  IInv'
  <1>0. TypeOK /\ StartOK /\ LockOK /\ EditOK /\ SignUpOK /\ RowOK /\ KnownOK
    BY DEF IInv, Typed
  <1>1. /\ phase[r] = "check" /\ Does(r, {"register"}) /\ ~local_auth
        /\ account = NoAccount
        /\ account' = SignedUp(r)
        /\ UNCHANGED <<local_auth, row, locks, job>>
    BY DEF SignUp, SignUpRetried
  <1>2. PICK p \in {"flush", "refused"} : Goto(r, p)
    BY DEF SignUp, SignUpRetried
  <1>3. phase'[r] = p /\ \A q \in Request \ {r} : phase'[q] = phase[q]
    BY <1>0, <1>2 DEF TypeOK, Goto
  <1>4. account' # NoAccount /\ account'.sub = r
    <2>1. Asked(r) \in Value
      BY <1>1 DEF IInv, Typed, AskedOK, Does
    <2>2. SignedUp(r) \in Account /\ SignedUp(r).sub = r
      BY <2>1 DEF SignedUp, Account
    <2> QED
      BY <1>1, <2>2, NoAccountAssumption
  <1>5. StartOK'
    BY <1>0, <1>1, <1>3 DEF StartOK
  <1>6. LockOK'
    <2>1. lock # r /\ (lock # NoRequest => lock \in Request \ {r})
      BY <1>0, <1>1, HolderCommits DEF TypeOK
    <2> QED
      BY <1>0, <1>1, <1>3, <2>1 DEF LockOK, Does, locks
  <1>7. EditOK'
    BY <1>0, <1>1, <1>3 DEF EditOK, Edits, Does
  <1>8. SignUpOK'
    BY <1>0, <1>1, <1>3, <1>4 DEF SignUpOK, Does
  <1>9. RowOK'
    BY <1>0, <1>1, <1>3 DEF RowOK, Succeeded, Does
  <1>10. KnownOK'
    BY <1>1, <1>4 DEF KnownOK, Known
  <1> QED
    BY <1>5, <1>6, <1>7, <1>8, <1>9, <1>10 DEF IInv

(* The pool keeps the account of whoever signed up.                        *)
LEMMA PoolKeeps ==
  ASSUME IInv, Typed', UNCHANGED <<local_auth, row, locks, job>>,
         account # NoAccount, account' # NoAccount, account'.sub = account.sub,
         \/ UNCHANGED phase
         \/ \E r \in Request, p \in {"commit", "failed"} :
              Does(r, {"forgot", "reset"}) /\ phase[r] = "check" /\ Goto(r, p)
  PROVE  IInv'
  <1>0. TypeOK /\ StartOK /\ LockOK /\ EditOK /\ SignUpOK /\ RowOK /\ KnownOK
    BY DEF IInv, Typed
  <1>1. ~local_auth
    BY <1>0 DEF SignUpOK
  <1>2. \A r \in Request :
          \/ phase'[r] = phase[r]
          \/ /\ Does(r, {"forgot", "reset"}) /\ phase[r] = "check"
             /\ phase'[r] \in {"commit", "failed"}
    BY <1>0 DEF TypeOK, Goto
  <1>3. \A r \in Request : Does(r, {"forgot", "reset"}) =>
          ~Does(r, {"register"}) /\ ~Does(r, {"profile"}) /\ ~Does(r, {"login"})
    BY DEF Does
  <1>4. StartOK'
    BY <1>0, <1>2 DEF StartOK
  <1>5. LockOK'
    BY <1>0, <1>2, <1>3 DEF LockOK, Does, locks, TypeOK
  <1>6. EditOK'
    BY <1>0, <1>2 DEF EditOK, Edits, Does
  <1>7. SignUpOK'
    BY <1>0, <1>1, <1>2, <1>3 DEF SignUpOK, Does
  <1>8. RowOK'
    BY <1>0, <1>2, <1>3 DEF RowOK, Succeeded, Does
  <1>9. KnownOK'
    BY <1>1 DEF KnownOK, Known
  <1> QED
    BY <1>4, <1>5, <1>6, <1>7, <1>8, <1>9 DEF IInv

LEMMA LoginKeeps ==
  ASSUME IInv, Typed', NEW r \in Request, Authenticate(r)
  PROVE  IInv'
  <1>1. CASE Login(r)
    BY <1>1, QuietKeeps DEF Login, Matches, Edits, Does, Known
  <1>2. CASE LoginRefused(r)
    BY <1>2, HolderCommits, QuietKeeps DEF LoginRefused, Refuse, End, Edits, Does
  <1>3. CASE LoginUnverified(r)
    BY <1>3, HolderCommits, QuietKeeps DEF LoginUnverified, Fail, End, Edits, Does
  <1> QED
    BY <1>1, <1>2, <1>3 DEF Authenticate

LEMMA ResetKeeps ==
  ASSUME IInv, Typed', NEW r \in Request, Reset(r)
  PROVE  IInv'
  <1>1. CASE ForgotPassword(r)
    <2>1. CASE UNCHANGED account
      BY <1>1, <2>1, QuietKeeps DEF ForgotPassword, Edits, Does, stores
    <2>2. CASE account # NoAccount /\ account' = [account EXCEPT !.code = TRUE]
      <3>1. account' \in Account /\ account'.sub = account.sub
        BY <2>2 DEF IInv, Typed, TypeOK, Account
      <3>2. account' # NoAccount
        BY <3>1, NoAccountAssumption
      <3> QED
        BY <1>1, <2>2, <3>1, <3>2, PoolKeeps DEF ForgotPassword, Does
    <2> QED
      BY <1>1, <2>1, <2>2 DEF ForgotPassword
  <1>2. CASE ResetNobody(r)
    BY <1>2, QuietKeeps DEF ResetNobody, Edits, Does
  <1>3. CASE ConfirmReset(r)
    <2>1. Asked(r) \in Value
      BY <1>3 DEF IInv, Typed, AskedOK, Does, ConfirmReset
    <2>2. account' \in Account /\ account'.sub = account.sub
      BY <1>3, <2>1 DEF IInv, Typed, TypeOK, ConfirmReset, Account
    <2>3. account' # NoAccount
      BY <2>2, NoAccountAssumption
    <2>4. PICK p \in {"commit", "failed"} : Goto(r, p)
      BY <1>3 DEF ConfirmReset
    <2> QED
      BY <1>3, <2>2, <2>3, <2>4, PoolKeeps DEF ConfirmReset, Does
  <1>4. CASE ResetRefused(r)
    BY <1>4, HolderCommits, QuietKeeps DEF ResetRefused, Refuse, End, Edits, Does
  <1> QED
    BY <1>1, <1>2, <1>3, <1>4 DEF Reset

LEMMA ConfirmKeeps == ASSUME IInv, Typed', Confirm PROVE IInv'
  <1>1. account' \in Account /\ account'.sub = account.sub
    BY DEF IInv, Typed, TypeOK, Confirm, Account
  <1>2. account' # NoAccount
    BY <1>1, NoAccountAssumption
  <1> QED
    BY <1>1, <1>2, PoolKeeps DEF Confirm

(* The row is written by its registration, when there is none, or by an    *)
(* edit of it.                                                             *)
LEMMA WriteKeeps ==
  ASSUME IInv, Typed', NEW r \in Request, InsertUser(r) \/ UpdateUser(r)
  PROVE  IInv'
  <1>0. TypeOK /\ StartOK /\ LockOK /\ EditOK /\ SignUpOK /\ RowOK /\ KnownOK
    BY DEF IInv, Typed
  <1>1. /\ phase[r] = "flush" /\ CanLock(r)
        /\ lock' = r
        /\ phase' = [phase EXCEPT ![r] = "commit"]
        /\ UNCHANGED <<local_auth, row, account, job>>
    BY DEF InsertUser, UpdateUser, Goto, stores
  <1>2. phase'[r] = "commit" /\ \A q \in Request \ {r} : phase'[q] = phase[q]
    BY <1>0, <1>1 DEF TypeOK
  <1>3. lock = NoRequest
    BY <1>1, HolderCommits DEF CanLock
  <1>4. /\ draft' # NoRow
        /\ IF row = NoRow THEN Does(r, {"register"}) /\ draft'.sub = r
                          ELSE ~Does(r, {"register"}) /\ draft'.sub = row.sub
    <2>1. CASE InsertUser(r)
      <3>1. NewUser(r) \in Row /\ NewUser(r).sub = r
        BY <2>1, <1>0 DEF IInv, Typed, AskedOK, Does, InsertUser, NewUser, Row, Column, Field
      <3> QED
        BY <2>1, <3>1, NoRowAssumption DEF InsertUser
    <2>2. CASE UpdateUser(r)
      <3>1. row # NoRow /\ ~Does(r, {"register"})
        BY <1>0, <1>1, <2>2 DEF EditOK, UpdateUser, Edits, Does
      <3>2. row \in Row /\ lock # r
        BY <1>0, <1>3, <3>1, NoRequestAssumption DEF TypeOK
      <3>3. Asked(r) \in Field
        BY <1>0, <2>2 DEF TypeOK, UpdateUser, Edits, Does, Asked, Job
      <3>4. ColumnOf(r) \in Column
        BY DEF ColumnOf, Column
      <3>5. Updated(r) \in Row /\ Updated(r).sub = row.sub
        BY <3>2, <3>3, <3>4 DEF Updated, Visible, Row
      <3> QED
        BY <2>2, <3>1, <3>5, NoRowAssumption DEF UpdateUser
    <2> QED
      BY <2>1, <2>2
  <1>5. StartOK'
    BY <1>0, <1>1, <1>2 DEF StartOK
  <1>6. LockOK'
    <2>1. \A q \in Request \ {r} : ~(Does(q, {"register"}) /\ phase[q] = "commit")
      BY <1>0, <1>3, NoRequestAssumption DEF LockOK
    <2> QED
      BY <1>1, <1>2, <1>4, <2>1 DEF LockOK, Does
  <1>7. EditOK'
    BY <1>0, <1>1, <1>2 DEF EditOK, Edits, Does
  <1>8. SignUpOK'
    BY <1>0, <1>1, <1>2 DEF SignUpOK, Does
  <1>9. RowOK'
    BY <1>0, <1>1, <1>2 DEF RowOK, Succeeded, Does
  <1>10. KnownOK'
    <2>1. ~Does(r, {"login"})
      BY DEF InsertUser, UpdateUser, Edits, Does
    <2> QED
      BY <1>0, <1>1, <1>2, <2>1 DEF KnownOK, Known, Refused, Does
  <1> QED
    BY <1>5, <1>6, <1>7, <1>8, <1>9, <1>10 DEF IInv

LEMMA EditKeeps ==
  ASSUME IInv, Typed', NEW r \in Request, LoadUser(r) \/ UserNotFound(r) \/ SkipUpdate(r)
  PROVE  IInv'
  <1>0. KnownOK
    BY DEF IInv
  <1>1. CASE LoadUser(r)
    BY <1>0, <1>1, QuietKeeps DEF LoadUser, Edits, Does, KnownOK
  <1>2. CASE UserNotFound(r)
    BY <1>0, <1>2, HolderCommits, QuietKeeps
    DEF UserNotFound, Refuse, End, Edits, Does, KnownOK
  <1>3. CASE SkipUpdate(r)
    BY <1>0, <1>3, QuietKeeps DEF SkipUpdate, Edits, Does, KnownOK
  <1> QED
    BY <1>1, <1>2, <1>3

(* What the holder commits is the row of the one registration, the first   *)
(* time; nobody else commits anything.                                     *)
LEMMA CommitKeeps == ASSUME IInv, Typed', NEW r \in Request, Commit(r) PROVE IInv'
  <1>0. TypeOK /\ StartOK /\ LockOK /\ EditOK /\ SignUpOK /\ RowOK /\ KnownOK
    BY DEF IInv, Typed
  <1>1. /\ phase[r] = "commit"
        /\ phase' = [phase EXCEPT ![r] = "done"]
        /\ row' = IF lock = r THEN draft ELSE row
        /\ UNCHANGED <<local_auth, account, job>>
    BY DEF Commit, Goto, Visible
  <1>2. phase'[r] = "done" /\ \A q \in Request \ {r} : phase'[q] = phase[q]
    BY <1>0, <1>1 DEF TypeOK
  <1>3. lock' = (IF lock = r THEN NoRequest ELSE lock) /\ (lock # r => draft' = draft)
    BY DEF Commit, Release, locks
  <1>4. row # NoRow => row' # NoRow /\ row'.sub = row.sub
    BY <1>0, <1>1, NoRequestAssumption DEF LockOK
  <1>5. Does(r, {"register"}) => lock = r /\ row = NoRow /\ row' # NoRow /\ row'.sub = r
    BY <1>0, <1>1, NoRequestAssumption DEF LockOK
  <1>6. ~Does(r, {"register"}) => (row' # NoRow => row # NoRow)
    BY <1>0, <1>1, NoRequestAssumption DEF LockOK
  <1>7. StartOK'
    BY <1>0, <1>1, <1>2 DEF StartOK
  <1>8. LockOK'
    <2>1. CASE lock = r
      <3>1. \A q \in Request \ {r} : ~(Does(q, {"register"}) /\ phase[q] = "commit")
        BY <1>0, <2>1 DEF LockOK
      <3> QED
        BY <1>1, <1>2, <1>3, <2>1, <3>1 DEF LockOK, Does
    <2>2. CASE lock # r
      <3>1. lock # NoRequest => lock \in Request \ {r}
        BY <1>0, <2>2 DEF TypeOK
      <3>2. row' = row
        BY <1>1, <2>2
      <3> QED
        BY <1>0, <1>1, <1>2, <1>3, <2>2, <3>1, <3>2 DEF LockOK, Does
    <2> QED
      BY <2>1, <2>2
  <1>9. EditOK'
    BY <1>0, <1>1, <1>2, <1>4 DEF EditOK, Edits, Does
  <1>10. SignUpOK'
    BY <1>0, <1>1, <1>2 DEF SignUpOK, Does
  <1>11. RowOK'
    <2>1. CASE Does(r, {"register"})
      <3>1. \A q \in Request : ~Succeeded(q, "register")
        BY <1>0, <1>5, <2>1 DEF RowOK
      <3> QED
        BY <1>1, <1>2, <1>5, <2>1, <3>1 DEF RowOK, Succeeded, Does
    <2>2. CASE ~Does(r, {"register"})
      <3>1. \A q \in Request : Succeeded(q, "register")' <=> Succeeded(q, "register")
        BY <1>1, <1>2, <2>2 DEF Succeeded, Does
      <3> QED
        BY <1>0, <1>4, <1>6, <2>2, <3>1 DEF RowOK
    <2> QED
      BY <2>1, <2>2
  <1>12. KnownOK'
    <2>1. Known => Known'
      BY <1>1, <1>4 DEF Known
    <2> QED
      BY <1>0, <1>1, <1>2, <2>1 DEF KnownOK, Refused, Does
  <1> QED
    BY <1>7, <1>8, <1>9, <1>10, <1>11, <1>12 DEF IInv

LEMMA AbortKeeps == ASSUME IInv, Typed', NEW r \in Request, Abort(r) PROVE IInv'
  <1>0. TypeOK /\ StartOK /\ LockOK /\ EditOK /\ SignUpOK /\ RowOK /\ KnownOK
    BY DEF IInv, Typed
  <1>1. CASE phase[r] # "commit"
    <2>1. Goto(r, "failed") /\ UNCHANGED <<stores, locks, job>> /\ phase[r] \in {"check", "flush"}
      BY <1>1, HolderCommits DEF Abort, Fail, End, Running, Phase, Over
    <2> QED
      BY <1>0, <1>1, <2>1, QuietKeeps DEF KnownOK, Does
  <1>2. CASE phase[r] = "commit"
    <2>1. /\ phase' = [phase EXCEPT ![r] = "failed"]
          /\ UNCHANGED <<local_auth, row, account, job>>
          /\ lock' = (IF lock = r THEN NoRequest ELSE lock)
          /\ lock # r => draft' = draft
      BY DEF Abort, Fail, End, Goto, Release, locks, stores
    <2>2. phase'[r] = "failed" /\ \A q \in Request \ {r} : phase'[q] = phase[q]
      BY <1>0, <2>1 DEF TypeOK
    <2>3. StartOK'
      BY <1>0, <2>1, <2>2 DEF StartOK
    <2>4. LockOK'
      <3>1. CASE lock = r
        BY <1>0, <2>1, <2>2, <3>1 DEF LockOK, Does
      <3>2. CASE lock # r
        <4>1. lock # NoRequest => lock \in Request \ {r}
          BY <1>0, <3>2 DEF TypeOK
        <4> QED
          BY <1>0, <2>1, <2>2, <3>2, <4>1 DEF LockOK, Does
      <3> QED
        BY <3>1, <3>2
    <2>5. EditOK'
      BY <1>0, <2>1, <2>2 DEF EditOK, Edits, Does
    <2>6. SignUpOK'
      BY <1>0, <2>1, <2>2 DEF SignUpOK, Does
    <2>7. RowOK'
      BY <1>0, <1>2, <2>1, <2>2 DEF RowOK, Succeeded, Does
    <2>8. KnownOK'
      BY <1>0, <2>1, <2>2 DEF KnownOK, Known, Refused, Does
    <2> QED
      BY <2>3, <2>4, <2>5, <2>6, <2>7, <2>8 DEF IInv
  <1> QED
    BY <1>1, <1>2

LEMMA InvStep == IInv /\ [Next]_vars => IInv'
  <1> SUFFICES ASSUME IInv, [Next]_vars PROVE IInv'
    OBVIOUS
  <1>0. Typed'
    BY TypedStep DEF IInv
  <1>1. ASSUME NEW r \in Request, BeginAuth(r) \/ BeginProfile(r) PROVE IInv'
    BY <1>0, <1>1, BeginKeeps
  <1>2. ASSUME NEW r \in Request, Register(r) PROVE IInv'
    BY <1>0, <1>2, RegisterKeeps, SignUpKeeps, WriteKeeps DEF Register
  <1>3. ASSUME NEW r \in Request, Authenticate(r) PROVE IInv'
    BY <1>0, <1>3, LoginKeeps
  <1>4. ASSUME NEW r \in Request, Reset(r) PROVE IInv'
    BY <1>0, <1>4, ResetKeeps
  <1>5. ASSUME NEW r \in Request, Edit(r) PROVE IInv'
    BY <1>0, <1>5, EditKeeps, WriteKeeps DEF Edit
  <1>6. ASSUME NEW r \in Request, Commit(r) PROVE IInv'
    BY <1>0, <1>6, CommitKeeps
  <1>7. ASSUME NEW r \in Request, Abort(r) PROVE IInv'
    BY <1>0, <1>7, AbortKeeps
  <1>8. CASE Confirm
    BY <1>0, <1>8, ConfirmKeeps
  <1>9. CASE UNCHANGED vars
    BY <1>0, <1>9 DEF vars, stores, locks, IInv, StartOK, LockOK, EditOK, SignUpOK, RowOK,
                      KnownOK, Known, Edits, Does, Succeeded, Refused
  <1> QED
    BY <1>1, <1>2, <1>3, <1>4, <1>5, <1>6, <1>7, <1>8, <1>9 DEF Next

(* The address, its row and the requests for it agree in every reachable   *)
(* state.                                                                  *)
THEOREM AccountsInvariant == Spec => []IInv
  <1> QED
    BY InvInit, InvStep, PTL DEF Spec

-----------------------------------------------------------------------------

(* The row, the account and the sessions keep their types: no column of    *)
(* the row is ever left without a value its requests gave it.              *)
THEOREM AccountsTyped == Spec => []TypeOK
  <1>1. IInv => TypeOK
    BY DEF IInv, Typed
  <1> QED
    BY <1>1, AccountsInvariant, PTL

(* One registration of an address succeeds at most, however many race, in  *)
(* both stores.                                                            *)
THEOREM OneRegistration == Spec => []RegisteredOnce
  <1>1. IInv => RegisteredOnce
    <2> SUFFICES ASSUME IInv, NEW r \in Request
                 PROVE  Succeeded(r, "register") <=>
                          /\ row # NoRow
                          /\ row.sub = r
                          /\ ~local_auth => account # NoAccount /\ account.sub = r
      BY DEF RegisteredOnce
    <2> QED
      BY DEF IInv, RowOK, SignUpOK, Succeeded
  <1> QED
    BY <1>1, AccountsInvariant, PTL

(* An address that is taken and has no row was signed up by a registration *)
(* that did not succeed.                                                   *)
THEOREM StrandedByFailure == Spec => []StrandedOnlyByFailure
  <1>1. IInv => StrandedOnlyByFailure
    <2> SUFFICES ASSUME IInv, row = NoRow, NEW r \in Request,
                        Refused(r, "register") \/ Succeeded(r, "login") \/ Refused(r, "profile")
                 PROVE  account # NoAccount /\ phase[account.sub] # "done"
      BY DEF StrandedOnlyByFailure
    <2>1. Known
      BY DEF IInv, KnownOK, Refused, Succeeded
    <2>2. account # NoAccount
      BY <2>1 DEF Known
    <2>3. account.sub \in Request /\ Does(account.sub, {"register"})
      BY <2>2 DEF IInv, Typed, TypeOK, Account, SignUpOK
    <2> QED
      BY <2>2, <2>3 DEF IInv, RowOK, Succeeded
  <1> QED
    BY <1>1, AccountsInvariant, PTL

-----------------------------------------------------------------------------

(* Nothing moves once it is over, and what was before a request was over.  *)
OverOK == \A r \in Request : \A q \in before[r] : phase[q] \in Over

(* The profile, and the device, are of a row there is.                     *)
ProfileOK ==
  \A r \in Request :
    Does(r, {"profile", "device"}) /\ phase[r] \in {"flush", "commit", "done"} => row # NoRow

(* A draft is the row of the registration, or the row with one column of   *)
(* it assigned.                                                            *)
DraftOK ==
  lock # NoRequest =>
    IF row = NoRow
      THEN draft = NewUser(lock)
      ELSE Edits(lock) /\ draft = [row EXCEPT !.cols[ColumnOf(lock)] = Asked(lock)]

(* A local reset that commits without writing had nobody to write to.      *)
NobodyOK ==
  \A r \in Request :
    local_auth /\ Does(r, {"reset"}) /\ phase[r] = "commit" /\ lock # r =>
      \A q \in before[r] : ~Succeeded(q, "register")

(* The column c says what w asked, or nothing yet, and no writer of it is  *)
(* younger than w.                                                         *)
Stands(w, c) ==
  IF w = NoRequest
    THEN Writers(c) = {} /\ row.cols[c] = NoValue
    ELSE /\ w \in Writers(c)
            \/ (c = "hashed_password" /\ local_auth /\ Succeeded(w, "reset"))
         /\ row.cols[c] = Asked(w)
         /\ \A q \in Writers(c) : w \notin before[q]

Older(w, s) == w = NoRequest \/ w \in before[s]

(* An edit of c that came after w has loaded what w wrote; if it leaves    *)
(* the column alone, it asked for the same.                                *)
Follows(w, s, c) ==
  Does(s, {"profile", "device"}) /\ ColumnOf(s) = c /\ Older(w, s) =>
    /\ phase[s] = "flush" => loaded[s].cols[c] = row.cols[c]
    /\ phase[s] = "commit" /\ lock # s => Asked(s) = row.cols[c]

ColumnOK ==
  row # NoRow =>
    \A c \in Column : \E w \in Request \cup {NoRequest} :
      Stands(w, c) /\ \A s \in Request : Follows(w, s, c)

(* The password in the pool was set by w, and whoever has set it since is  *)
(* not older.                                                              *)
SetBy(w) ==
  /\ Sets(w)
  /\ account.password = Asked(w)
  /\ \A q \in Request :
       Sets(q) /\ phase[q] \in {"flush", "commit", "done"} => w \notin before[q]

PasswordOK == ~local_auth /\ account # NoAccount => \E w \in Request : SetBy(w)

(* w may have set the password that r gives.                               *)
Vouches(w, r) ==
  /\ Sets(w) /\ Asked(w) = Asked(r) /\ r \notin before[w]
  /\ \A v \in before[r] : SurelySet(v) => w \notin before[v]

(* Whoever surely set the password that r gives may have been overwritten. *)
Outdated(r) ==
  \A w \in before[r] : SurelySet(w) /\ Asked(w) = Asked(r) =>
    \E v \in Request :
      Sets(v) /\ Asked(v) # Asked(r) /\ v \notin before[w] /\ r \notin before[v]

LoginOK ==
  \A r \in Request :
    /\ Does(r, {"login"}) /\ phase[r] \in {"commit", "done"} =>
         \E w \in Request : Vouches(w, r)
    /\ Refused(r, "login") => Outdated(r)

Edited ==
  /\ OverOK
  /\ ProfileOK
  /\ DraftOK
  /\ NobodyOK
  /\ ColumnOK
  /\ PasswordOK
  /\ LoginOK

-----------------------------------------------------------------------------
(* Who wrote last *)

OthersStay(r) ==
  \A q \in Request \ {r} :
    /\ job'[q] = job[q] /\ phase'[q] = phase[q]
    /\ loaded'[q] = loaded[q] /\ before'[q] = before[q]

(* A step of r.                                                            *)
Moves(r) ==
  /\ phase[r] \notin Over
  /\ OthersStay(r)
  /\ UNCHANGED local_auth
  /\ phase'[r] = "done" => phase[r] = "commit"
  /\ \/ job'[r] = job[r] /\ before'[r] = before[r] /\ phase[r] # "new"
     \/ /\ phase[r] = "new" /\ phase'[r] = "check"
        /\ before'[r] = {q \in Request : phase[q] \in Over}

(* Nobody else takes the row, or lets go of it.                            *)
LockStays(r) == \A q \in Request \ {r} : (lock' = q) <=> (lock = q)

(* What is over stays as it was.                                           *)
LEMMA Steady ==
  ASSUME TypeOK, OverOK, NEW r \in Request, Moves(r)
  PROVE  /\ \A q \in Request \ {r} : \A op :
              /\ Does(q, {op})' <=> Does(q, {op})
              /\ Succeeded(q, op)' <=> Succeeded(q, op)
              /\ Asked(q)' = Asked(q)
         /\ \A q \in Request : r \notin before[q] /\ \A p \in before[q] : p \in Request \ {r}
         /\ \A q \in Request \ {r} : (Sets(q)' <=> Sets(q)) /\ (SurelySet(q)' <=> SurelySet(q))
         /\ ~SurelySet(r) /\ \A op : ~Succeeded(r, op)
  <1>1. \A q \in Request : r \notin before[q] /\ \A p \in before[q] : p \in Request \ {r}
    BY DEF TypeOK, OverOK, Moves
  <1>2. \A q \in Request \ {r} : job'[q] = job[q] /\ phase'[q] = phase[q] /\ before'[q] = before[q]
    BY DEF Moves, OthersStay
  <1>3. \A q \in Request \ {r} : \A op :
              /\ Does(q, {op})' <=> Does(q, {op})
              /\ Succeeded(q, op)' <=> Succeeded(q, op)
              /\ Asked(q)' = Asked(q)
    BY <1>2 DEF Does, Succeeded, Asked
  <1>4. \A q \in Request \ {r} : (Sets(q)' <=> Sets(q)) /\ (SurelySet(q)' <=> SurelySet(q))
    <2>1. ASSUME NEW q \in Request \ {r} PROVE Sets(q)' <=> Sets(q)
      BY <1>2 DEF Sets, Does
    <2>2. ASSUME NEW q \in Request \ {r} PROVE SurelySet(q)' <=> SurelySet(q)
      BY <1>1, <1>2, <1>3 DEF SurelySet
    <2> QED
      BY <2>1, <2>2
  <1>5. \A op : ~Succeeded(r, op)
    BY DEF Moves, Over, Succeeded
  <1> QED
    BY <1>1, <1>3, <1>4, <1>5 DEF SurelySet

LEMMA OverFrame ==
  ASSUME TypeOK, OverOK, NEW r \in Request, Moves(r)
  PROVE  OverOK'
  <1> SUFFICES ASSUME NEW q \in Request, NEW p \in before'[q] PROVE phase'[p] \in Over
    BY DEF OverOK, Over
  <1>1. p \in Request /\ phase[p] \in Over
    <2>1. CASE q = r /\ phase[r] = "new"
      BY <2>1 DEF Moves
    <2>2. CASE before'[q] = before[q]
      BY <2>2 DEF OverOK, TypeOK
    <2> QED
      BY <2>1, <2>2 DEF Moves, OthersStay
  <1> QED
    BY <1>1 DEF Moves, OthersStay

(* Nothing is written: the columns have the writers they had.              *)
LEMMA SameWriters ==
  ASSUME TypeOK, OverOK, NEW r \in Request, Moves(r), phase'[r] # "done"
  PROVE  \A c \in Column : Writers(c)' = Writers(c)
  <1>1. \A op : ~Succeeded(r, op)'
    BY DEF Succeeded
  <1>2. ~SurelySet(r)'
    BY <1>1 DEF SurelySet
  <1>3. \A q \in Request : \A op : Succeeded(q, op)' <=> Succeeded(q, op)
    BY <1>1, Steady
  <1>4. \A q \in Request : SurelySet(q)' <=> SurelySet(q)
    BY <1>2, Steady
  <1>5. UNCHANGED local_auth
    BY DEF Moves
  <1> QED
    BY <1>3, <1>4, <1>5 DEF Writers, Column

LEMMA ColumnFrame ==
  ASSUME TypeOK, OverOK, ColumnOK, NEW r \in Request, Moves(r), phase'[r] # "done",
         LockStays(r), UNCHANGED row,
         \A c \in Column, w \in Request \cup {NoRequest} :
           row # NoRow /\ Follows(w, r, c) => Follows(w, r, c)'
  PROVE  ColumnOK'
  <1> SUFFICES ASSUME row # NoRow, NEW c \in Column
               PROVE  \E w \in Request \cup {NoRequest} :
                        Stands(w, c)' /\ \A s \in Request : Follows(w, s, c)'
    BY DEF ColumnOK
  <1>1. PICK w \in Request \cup {NoRequest} :
          Stands(w, c) /\ \A s \in Request : Follows(w, s, c)
    BY DEF ColumnOK
  <1>2. Writers(c)' = Writers(c) /\ r \notin Writers(c) /\ Writers(c) \subseteq Request
    BY SameWriters, Steady DEF Writers, Column
  <1>3. Stands(w, c)'
    <2>1. CASE w = NoRequest
      BY <1>1, <1>2, <2>1 DEF Stands
    <2>2. CASE w # NoRequest
      <3>1. w \in Request \ {r}
        BY <1>1, <1>2, <2>2, Steady DEF Stands
      <3>2. \A q \in Writers(c) : before'[q] = before[q]
        BY <1>2 DEF Moves, OthersStay
      <3> QED
        BY <1>1, <1>2, <2>2, <3>1, <3>2, Steady DEF Stands, Moves
    <2> QED
      BY <2>1, <2>2
  <1>4. ASSUME NEW s \in Request \ {r} PROVE Follows(w, s, c)'
    <2>1. /\ job'[s] = job[s] /\ phase'[s] = phase[s]
          /\ loaded'[s] = loaded[s] /\ before'[s] = before[s]
      BY DEF Moves, OthersStay
    <2>2. (lock' = s) <=> (lock = s)
      BY DEF LockStays
    <2>3. Follows(w, s, c)
      BY <1>1
    <2> QED
      BY <2>1, <2>2, <2>3 DEF Follows, Older, Does, ColumnOf, Asked
  <1> QED
    BY <1>1, <1>3, <1>4

LEMMA ProfileFrame ==
  ASSUME ProfileOK, NEW r \in Request, Moves(r), row # NoRow => row' # NoRow,
         Does(r, {"profile", "device"})' /\ phase'[r] \in {"flush", "commit", "done"} =>
           row' # NoRow
  PROVE  ProfileOK'
  <1>1. ASSUME NEW q \in Request \ {r}
        PROVE  Does(q, {"profile", "device"})' /\ phase'[q] \in {"flush", "commit", "done"} =>
                 row' # NoRow
    BY DEF ProfileOK, Moves, OthersStay, Does
  <1> QED
    BY <1>1 DEF ProfileOK

LEMMA DraftFrame ==
  ASSUME TypeOK, DraftOK, NEW r \in Request, Moves(r), lock # r, UNCHANGED <<row, locks>>
  PROVE  DraftOK'
  <1> SUFFICES ASSUME lock # NoRequest
               PROVE  IF row = NoRow
                        THEN draft = NewUser(lock)'
                        ELSE /\ Edits(lock)'
                             /\ draft = [row EXCEPT !.cols[ColumnOf(lock)'] = Asked(lock)']
    BY DEF DraftOK, locks
  <1>1. lock \in Request \ {r} /\ lock' = lock
    BY DEF TypeOK, locks
  <1>2. job'[lock] = job[lock] /\ local_auth' = local_auth
    BY <1>1 DEF Moves, OthersStay
  <1>3. NewUser(lock)' = NewUser(lock)
    BY <1>1, <1>2 DEF NewUser, Asked
  <1>4. (Edits(lock)' <=> Edits(lock)) /\ ColumnOf(lock)' = ColumnOf(lock) /\ Asked(lock)' = Asked(lock)
    BY <1>1, <1>2 DEF Edits, ColumnOf, Asked, Does
  <1> QED
    BY <1>3, <1>4 DEF DraftOK

LEMMA NobodyFrame ==
  ASSUME TypeOK, OverOK, NobodyOK, NEW r \in Request, Moves(r), LockStays(r),
         local_auth /\ Does(r, {"reset"})' /\ phase'[r] = "commit" /\ lock' # r =>
           phase[r] # "new" /\ \A q \in before[r] : ~Succeeded(q, "register")
  PROVE  NobodyOK'
  <1> SUFFICES ASSUME NEW q \in Request,
                      local_auth, Does(q, {"reset"})', phase'[q] = "commit", lock' # q,
                      NEW p \in before'[q]
               PROVE  ~Succeeded(p, "register")'
    BY DEF NobodyOK, Moves
  <1>1. CASE q = r
    <2>1. p \in before[r] /\ p \in Request \ {r}
      BY <1>1, Steady DEF Moves
    <2> QED
      BY <1>1, <2>1, Steady
  <1>2. CASE q # r
    <2>1. /\ Does(q, {"reset"}) /\ phase[q] = "commit" /\ lock # q
          /\ p \in before[q] /\ p \in Request \ {r}
      BY <1>2, Steady DEF Moves, OthersStay, LockStays, Does
    <2> QED
      BY <2>1, Steady DEF NobodyOK
  <1> QED
    BY <1>1, <1>2

LEMMA PasswordFrame ==
  ASSUME TypeOK, StartOK, OverOK, PasswordOK, NEW r \in Request, Moves(r),
         account' # NoAccount => account # NoAccount /\ account'.password = account.password,
         ~local_auth /\ Sets(r)' /\ phase'[r] \in {"flush", "commit", "done"} =>
           phase[r] \in {"flush", "commit"}
  PROVE  PasswordOK'
  <1> SUFFICES ASSUME ~local_auth, account' # NoAccount PROVE \E w \in Request : SetBy(w)'
    BY DEF PasswordOK, Moves
  <1>1. PICK w \in Request : SetBy(w)
    BY DEF PasswordOK
  <1>2. Sets(w)' /\ Asked(w)' = Asked(w)
    <2>1. CASE w = r
      <3>1. phase[r] # "new"
        BY <1>1, <2>1 DEF SetBy, Sets, Does, StartOK
      <3> QED
        BY <1>1, <2>1, <3>1 DEF SetBy, Moves, Sets, Does, Asked
    <2>2. CASE w # r
      BY <1>1, <2>2, Steady DEF SetBy
    <2> QED
      BY <2>1, <2>2
  <1>3. ASSUME NEW q \in Request, Sets(q)', phase'[q] \in {"flush", "commit", "done"}
        PROVE  w \notin before'[q]
    <2>1. CASE q = r
      <3>1. phase[r] \in {"flush", "commit"} /\ Sets(r) /\ before'[r] = before[r]
        BY <1>3, <2>1 DEF Moves, Sets, Does
      <3> QED
        BY <1>1, <2>1, <3>1 DEF SetBy
    <2>2. CASE q # r
      BY <1>1, <1>3, <2>2, Steady DEF SetBy, Moves, OthersStay
    <2> QED
      BY <2>1, <2>2
  <1> QED
    BY <1>1, <1>2, <1>3 DEF SetBy

(* What is known of w and r stays so.                                      *)
LEMMA LoginFrame ==
  ASSUME Typed, StartOK, OverOK, LoginOK, NEW r \in Request, Moves(r),
         Does(r, {"login"})' /\ phase'[r] = "commit" =>
           phase[r] # "new" /\ \E w \in Request : Vouches(w, r),
         Refused(r, "login")' => phase[r] # "new" /\ Outdated(r)
  PROVE  LoginOK'
  <1>0. TypeOK
    BY DEF Typed
  <1>1. \A w \in Request : Sets(w) => /\ Sets(w)' /\ Asked(w)' = Asked(w)
                                     /\ before'[w] = before[w]
    <2> SUFFICES ASSUME NEW w \in Request, Sets(w)
                 PROVE  Sets(w)' /\ Asked(w)' = Asked(w) /\ before'[w] = before[w]
      OBVIOUS
    <2>1. phase[w] # "new"
      BY DEF Sets, Does, StartOK
    <2>2. job'[w] = job[w] /\ before'[w] = before[w]
      BY <2>1 DEF Moves, OthersStay
    <2> QED
      BY <2>2 DEF Sets, Does, Asked
  <1>2. ASSUME NEW q \in Request, phase[q] # "new"
        PROVE  /\ job'[q] = job[q] /\ before'[q] = before[q] /\ Asked(q)' = Asked(q)
               /\ \A v \in before[q] : SurelySet(v)' <=> SurelySet(v)
               /\ \A v \in before[q] : v \in Request /\ before'[v] = before[v]
    BY <1>0, <1>2, Steady DEF Moves, OthersStay, Asked
  <1>3. ASSUME NEW q \in Request, phase[q] # "new", NEW w \in Request, Vouches(w, q)
        PROVE  Vouches(w, q)'
    BY <1>1, <1>2, <1>3 DEF Vouches
  <1>4. ASSUME NEW q \in Request, phase[q] # "new", Outdated(q)
        PROVE  Outdated(q)'
    <2> SUFFICES ASSUME NEW w \in before[q], SurelySet(w), Asked(w)' = Asked(q)
                 PROVE  \E v \in Request :
                          /\ Sets(v)' /\ Asked(v)' # Asked(q)
                          /\ v \notin before[w] /\ q \notin before'[v]
      BY <1>2, <1>4 DEF Outdated
    <2>1. w \in Request /\ Sets(w)
      BY <1>0, <1>4 DEF TypeOK, SurelySet, Succeeded, Sets, Does
    <2>2. Asked(w) = Asked(q)
      BY <1>1, <2>1
    <2>3. PICK v \in Request : /\ Sets(v) /\ Asked(v) # Asked(q)
                               /\ v \notin before[w] /\ q \notin before[v]
      BY <1>4, <2>2 DEF Outdated
    <2> QED
      BY <1>1, <2>3
  <1> SUFFICES ASSUME NEW q \in Request
               PROVE  /\ Does(q, {"login"})' /\ phase'[q] \in {"commit", "done"} =>
                           \E w \in Request : Vouches(w, q)'
                      /\ Refused(q, "login")' => Outdated(q)'
    BY DEF LoginOK
  <1>5. CASE q # r
    <2>1. job'[q] = job[q] /\ phase'[q] = phase[q]
      BY <1>5 DEF Moves, OthersStay
    <2>2. (Does(q, {"login"})' <=> Does(q, {"login"})) /\ (Refused(q, "login")' <=> Refused(q, "login"))
      BY <2>1 DEF Does, Refused
    <2>3. CASE Does(q, {"login"}) /\ phase[q] \in {"commit", "done"}
      BY <1>3, <2>1, <2>2, <2>3 DEF LoginOK, Refused
    <2>4. CASE Refused(q, "login")
      BY <1>4, <2>1, <2>2, <2>4 DEF LoginOK, Refused
    <2> QED
      BY <2>1, <2>2, <2>3, <2>4
  <1>6. CASE q = r
    <2>1. Does(r, {"login"})' /\ phase'[r] = "done" =>
            Does(r, {"login"}) /\ phase[r] = "commit"
      BY DEF Moves, Does
    <2>2. Does(r, {"login"})' /\ phase'[r] \in {"commit", "done"} =>
            phase[r] # "new" /\ \E w \in Request : Vouches(w, r)
      BY <2>1 DEF LoginOK
    <2> QED
      BY <1>3, <1>4, <1>6, <2>2
  <1> QED
    BY <1>5, <1>6

-----------------------------------------------------------------------------

Password == IF local_auth THEN row.cols["hashed_password"] ELSE account.password

(* The password, wherever it is kept, was set by somebody who is not older *)
(* than any who surely set it.                                             *)
LEMMA PasswordHasSetter ==
  ASSUME IInv, ColumnOK, PasswordOK, Known
  PROVE  \E w \in Request : /\ Sets(w) /\ Password = Asked(w)
                            /\ \A q \in Request : SurelySet(q) => w \notin before[q]
  <1>0. TypeOK /\ RowOK
    BY DEF IInv, Typed
  <1>1. CASE local_auth
    <2>1. row \in Row
      BY <1>0, <1>1 DEF Known, TypeOK
    <2>2. row.sub \in Request /\ Succeeded(row.sub, "register")
      BY <1>0, <1>1, <2>1 DEF RowOK, Known, Row
    <2>3. PICK w \in Request \cup {NoRequest} : Stands(w, "hashed_password")
      BY <1>1 DEF ColumnOK, Known, Column
    <2>4. Writers("hashed_password") = {q \in Request : SurelySet(q)}
      BY <1>1 DEF Writers
    <2>5. w # NoRequest
      BY <2>2, <2>3, <2>4 DEF Stands, SurelySet
    <2> QED
      BY <1>1, <2>3, <2>4, <2>5 DEF Stands, Password, SurelySet, Succeeded, Sets, Does
  <1>2. CASE ~local_auth
    <2>1. PICK w \in Request : SetBy(w)
      BY <1>2 DEF PasswordOK, Known
    <2> QED
      BY <1>2, <2>1 DEF SetBy, Password, SurelySet, Succeeded, Sets, Does
  <1> QED
    BY <1>1, <1>2

LEMMA SurelySetIsKnown ==
  ASSUME IInv, NEW q \in Request, SurelySet(q)
  PROVE  Known
  <1>1. PICK p \in Request : Succeeded(p, "register")
    BY DEF SurelySet, IInv, Typed, TypeOK
  <1> QED
    BY <1>1 DEF IInv, RowOK, SignUpOK, Known, Succeeded

(* What the check of a login finds out.                                    *)
LEMMA LoginChecked ==
  ASSUME IInv, OverOK, ColumnOK, PasswordOK, NEW r \in Request, phase[r] = "check"
  PROVE  /\ Matches(r) => \E w \in Request : Vouches(w, r)
         /\ ~Matches(r) => Outdated(r)
  <1>0. TypeOK
    BY DEF IInv, Typed
  <1>1. Matches(r) <=> Known /\ Password = Asked(r)
    BY DEF Matches, Known, Password
  <1>2. \A q \in Request : r \notin before[q] /\ before[q] \subseteq Request
    BY <1>0 DEF OverOK, Over, TypeOK
  <1>3. ASSUME Matches(r) PROVE \E w \in Request : Vouches(w, r)
    BY <1>1, <1>2, <1>3, PasswordHasSetter DEF Vouches
  <1>4. ASSUME ~Matches(r), NEW w \in before[r], SurelySet(w), Asked(w) = Asked(r)
        PROVE  \E v \in Request :
                 Sets(v) /\ Asked(v) # Asked(r) /\ v \notin before[w] /\ r \notin before[v]
    <2>1. w \in Request /\ Known
      BY <1>2, <1>4, SurelySetIsKnown
    <2>2. PICK v \in Request : /\ Sets(v) /\ Password = Asked(v)
                               /\ \A q \in Request : SurelySet(q) => v \notin before[q]
      BY <2>1, PasswordHasSetter
    <2> QED
      BY <1>1, <1>2, <1>4, <2>1, <2>2
  <1> QED
    BY <1>3, <1>4 DEF Outdated

(* A step of r that neither takes nor commits the row.                     *)
LEMMA QuietEdited ==
  ASSUME IInv, Edited, PasswordOK', UNCHANGED <<local_auth, row, locks, job, before>>,
         NEW r \in Request, NEW p, Goto(r, p), phase[r] \in {"check", "flush"},
         p \notin {"new", "done"},
         \A q \in Request \ {r} : loaded'[q] = loaded[q],
         Does(r, {"profile", "device"}) /\ p = "flush" => row # NoRow /\ loaded'[r] = row,
         Does(r, {"profile", "device"}) /\ p = "commit" => phase[r] = "flush" /\ WritesNothing(r),
         local_auth /\ Does(r, {"reset"}) /\ p = "commit" => row = NoRow,
         Does(r, {"login"}) /\ p = "commit" => phase[r] = "check" /\ Matches(r),
         Does(r, {"login"}) /\ p = "refused" => phase[r] = "check" /\ ~Matches(r)
  PROVE  Edited'
  <1>0. /\ Typed /\ TypeOK /\ StartOK /\ RowOK /\ EditOK
        /\ OverOK /\ ProfileOK /\ DraftOK /\ NobodyOK /\ ColumnOK /\ PasswordOK /\ LoginOK
    BY DEF IInv, Typed, Edited
  <1>1. phase'[r] = p /\ phase[r] \notin Over \cup {"new"} /\ lock # r
        /\ Moves(r) /\ LockStays(r)
    BY <1>0, HolderCommits DEF TypeOK, Goto, Over, Moves, OthersStay, LockStays, locks
  <1>2. OverOK'
    BY <1>0, <1>1, OverFrame
  <1>3. ProfileOK'
    <2>1. Does(r, {"profile", "device"}) /\ p = "commit" => row # NoRow
      BY <1>0 DEF EditOK, Edits
    <2> QED
      BY <1>0, <1>1, <2>1, ProfileFrame DEF Does
  <1>4. DraftOK'
    BY <1>0, <1>1, DraftFrame
  <1>5. NobodyOK'
    <2>1. row = NoRow => \A q \in before[r] : ~Succeeded(q, "register")
      BY <1>0 DEF RowOK, TypeOK
    <2> QED
      BY <1>0, <1>1, <2>1, NobodyFrame DEF Does
  <1>6. ColumnOK'
    <2>1. ASSUME NEW c \in Column, NEW w \in Request \cup {NoRequest}, Follows(w, r, c)
          PROVE  Follows(w, r, c)'
      <3> SUFFICES ASSUME Does(r, {"profile", "device"}), ColumnOf(r) = c, Older(w, r)
                   PROVE  /\ p = "flush" => loaded'[r].cols[c] = row.cols[c]
                          /\ p = "commit" => Asked(r) = row.cols[c]
        BY <1>1 DEF Follows, Does, ColumnOf, Older, Asked
      <3>1. p = "commit" => loaded[r].cols[c] = row.cols[c] /\ loaded[r].cols[c] = Asked(r)
        BY <2>1 DEF Follows, WritesNothing
      <3> QED
        BY <3>1
    <2> QED
      BY <1>0, <1>1, <2>1, ColumnFrame
  <1>7. LoginOK'
    BY <1>0, <1>1, LoginChecked, LoginFrame DEF Does, Refused
  <1> QED
    BY <1>2, <1>3, <1>4, <1>5, <1>6, <1>7 DEF Edited

LEMMA BeginEdited ==
  ASSUME IInv, Edited, NEW r \in Request, BeginAuth(r) \/ BeginProfile(r)
  PROVE  Edited'
  <1>0. /\ Typed /\ TypeOK /\ StartOK
        /\ OverOK /\ ProfileOK /\ DraftOK /\ NobodyOK /\ ColumnOK /\ PasswordOK /\ LoginOK
    BY DEF IInv, Typed, Edited
  <1>1. PICK op \in Op, value \in Field : Asks(r, op, value)
    BY DEF BeginAuth, BeginProfile, Op, Field
  <1>2. phase'[r] = "check" /\ phase[r] = "new" /\ lock # r
        /\ UNCHANGED <<row, account, local_auth, locks, lock>> /\ LockStays(r)
    BY <1>0, <1>1, HolderCommits DEF Asks, Goto, TypeOK, LockStays, locks, stores
  <1>3. Moves(r)
    BY <1>0, <1>1, <1>2 DEF Moves, OthersStay, Asks, Goto, TypeOK, Over
  <1>4. OverOK'
    BY <1>0, <1>3, OverFrame
  <1>5. ProfileOK'
    BY <1>0, <1>2, <1>3, ProfileFrame
  <1>6. DraftOK'
    BY <1>0, <1>2, <1>3, DraftFrame
  <1>7. NobodyOK'
    BY <1>0, <1>2, <1>3, NobodyFrame
  <1>8. ColumnOK'
    BY <1>0, <1>2, <1>3, ColumnFrame DEF Follows
  <1>9. PasswordOK'
    BY <1>0, <1>2, <1>3, PasswordFrame
  <1>10. LoginOK'
    BY <1>0, <1>2, <1>3, LoginFrame DEF Refused
  <1> QED
    BY <1>4, <1>5, <1>6, <1>7, <1>8, <1>9, <1>10 DEF Edited

(* Such a step leaves the pool alone, or only the password in it.          *)
LEMMA QuietPassword ==
  ASSUME IInv, Edited, UNCHANGED <<local_auth, job, before>>,
         NEW r \in Request, NEW p, Goto(r, p), phase[r] \in {"check", "flush"}, p # "done",
         ~local_auth /\ Sets(r) => p \notin {"flush", "commit"},
         account' # NoAccount => account # NoAccount /\ account'.password = account.password
  PROVE  PasswordOK'
  <1>0. TypeOK /\ StartOK /\ OverOK /\ PasswordOK
    BY DEF IInv, Typed, Edited
  <1>1. phase'[r] = p /\ Sets(r)' = Sets(r)
    BY <1>0 DEF TypeOK, Goto, Sets, Does
  <1>2. \A q \in Request \ {r} : phase'[q] = phase[q]
    BY <1>0 DEF TypeOK, Goto
  <1> SUFFICES ASSUME ~local_auth, account' # NoAccount PROVE \E w \in Request : SetBy(w)'
    BY DEF PasswordOK
  <1>3. PICK w \in Request : SetBy(w)
    BY <1>0 DEF PasswordOK
  <1>4. ASSUME NEW q \in Request, Sets(q)', phase'[q] \in {"flush", "commit", "done"}
        PROVE  w \notin before'[q]
    BY <1>1, <1>2, <1>3, <1>4 DEF SetBy, Sets, Does
  <1> QED
    BY <1>3, <1>4 DEF SetBy, Sets, Does, Asked

(* r has just set the password in the pool.                                *)
LEMMA NewPassword ==
  ASSUME TypeOK, OverOK, UNCHANGED <<local_auth, job, before>>,
         NEW r \in Request, phase[r] = "check", Sets(r), account'.password = Asked(r)
  PROVE  PasswordOK'
  <1>1. \A q \in Request : r \notin before[q]
    BY DEF OverOK, Over
  <1>2. SetBy(r)'
    BY <1>1 DEF SetBy, Sets, Does, Asked
  <1> QED
    BY <1>2 DEF PasswordOK

LEMMA RegisterEdited ==
  ASSUME IInv, Edited, NEW r \in Request,
         RegisterLocal(r) \/ EmailTaken(r) \/ InsertTaken(r) \/ SignUp(r) \/ SignUpRetried(r)
  PROVE  Edited'
  <1>0. TypeOK /\ OverOK
    BY DEF IInv, Typed, Edited
  <1>1. /\ Does(r, {"register"}) /\ ~Does(r, {"profile", "device"}) /\ ~Does(r, {"reset"})
        /\ ~Does(r, {"login"}) /\ phase[r] \in {"check", "flush"}
    BY DEF RegisterLocal, EmailTaken, InsertTaken, SignUp, SignUpRetried, Does
  <1>2. CASE RegisterLocal(r)
    <2>1. PasswordOK'
      BY <1>1, <1>2, QuietPassword DEF RegisterLocal, stores
    <2> QED
      BY <1>1, <1>2, <2>1, QuietEdited DEF RegisterLocal, stores
  <1>3. CASE EmailTaken(r) \/ InsertTaken(r)
    <2>1. PICK p \in {"refused", "failed"} : End(r, p)
      BY <1>3 DEF EmailTaken, InsertTaken, Refuse, Fail
    <2>2. Goto(r, p) /\ UNCHANGED <<stores, locks, job, before>>
          /\ \A q \in Request \ {r} : loaded'[q] = loaded[q]
      BY <1>0, <1>1, <2>1, HolderCommits DEF End, TypeOK
    <2>3. PasswordOK'
      BY <1>1, <2>2, QuietPassword DEF stores
    <2> QED
      BY <1>1, <2>2, <2>3, QuietEdited DEF stores
  <1>4. CASE SignUp(r) \/ SignUpRetried(r)
    <2>1. PICK p \in {"flush", "refused"} : Goto(r, p)
      BY <1>4 DEF SignUp, SignUpRetried
    <2>2. account'.password = Asked(r)
      BY <1>4 DEF SignUp, SignUpRetried, SignedUp
    <2>3. PasswordOK'
      BY <1>0, <1>1, <1>4, <2>2, NewPassword DEF SignUp, SignUpRetried, Sets, Does
    <2> QED
      BY <1>1, <1>4, <2>1, <2>3, QuietEdited DEF SignUp, SignUpRetried
  <1> QED
    BY <1>2, <1>3, <1>4

LEMMA LoginEdited ==
  ASSUME IInv, Edited, NEW r \in Request, Authenticate(r)
  PROVE  Edited'
  <1>0. TypeOK
    BY DEF IInv, Typed
  <1>1. /\ Does(r, {"login"}) /\ ~Does(r, {"profile", "device"}) /\ ~Does(r, {"reset"})
        /\ ~Sets(r) /\ phase[r] = "check"
    BY DEF Authenticate, Login, LoginRefused, LoginUnverified, Does, Sets
  <1>2. CASE Login(r)
    <2>1. PasswordOK'
      BY <1>1, <1>2, QuietPassword DEF Login, stores
    <2> QED
      BY <1>1, <1>2, <2>1, QuietEdited DEF Login, stores
  <1>3. CASE LoginRefused(r) \/ LoginUnverified(r)
    <2>1. PICK p \in {"refused", "failed"} : End(r, p) /\ (p = "refused" => ~Matches(r))
      BY <1>3 DEF LoginRefused, LoginUnverified, Refuse, Fail
    <2>2. Goto(r, p) /\ UNCHANGED <<stores, locks, job, before>>
          /\ \A q \in Request \ {r} : loaded'[q] = loaded[q]
      BY <1>0, <1>1, <2>1, HolderCommits DEF End, TypeOK
    <2>3. PasswordOK'
      BY <1>1, <2>2, QuietPassword DEF stores
    <2> QED
      BY <1>1, <2>1, <2>2, <2>3, QuietEdited DEF stores
  <1> QED
    BY <1>2, <1>3 DEF Authenticate

LEMMA ResetEdited ==
  ASSUME IInv, Edited, NEW r \in Request, Reset(r)
  PROVE  Edited'
  <1>0. TypeOK /\ OverOK
    BY DEF IInv, Typed, Edited
  <1>1. /\ Does(r, {"forgot", "reset"}) /\ ~Does(r, {"profile", "device"})
        /\ ~Does(r, {"login"}) /\ phase[r] = "check"
    BY DEF Reset, ForgotPassword, ResetNobody, ConfirmReset, ResetRefused, Does
  <1>2. CASE ForgotPassword(r)
    <2>1. ~Sets(r) /\ ~Does(r, {"reset"})
      BY <1>2 DEF ForgotPassword, Sets, Does
    <2>2. account' # NoAccount => account # NoAccount /\ account'.password = account.password
      BY <1>0, <1>2 DEF ForgotPassword, TypeOK, Account
    <2>3. PasswordOK'
      BY <1>1, <1>2, <2>1, <2>2, QuietPassword DEF ForgotPassword
    <2> QED
      BY <1>1, <1>2, <2>1, <2>3, QuietEdited DEF ForgotPassword
  <1>3. CASE ResetNobody(r)
    <2>1. PasswordOK'
      BY <1>1, <1>3, QuietPassword DEF ResetNobody, stores
    <2> QED
      BY <1>1, <1>3, <2>1, QuietEdited DEF ResetNobody, stores
  <1>4. CASE ConfirmReset(r)
    <2>1. account'.password = Asked(r)
      BY <1>0, <1>4 DEF ConfirmReset, TypeOK, Account
    <2>2. PasswordOK'
      BY <1>0, <1>1, <1>4, <2>1, NewPassword DEF ConfirmReset, Sets, Does
    <2>3. PICK p \in {"commit", "failed"} : Goto(r, p)
      BY <1>4 DEF ConfirmReset
    <2> QED
      BY <1>1, <1>4, <2>2, <2>3, QuietEdited DEF ConfirmReset
  <1>5. CASE ResetRefused(r)
    <2>1. Goto(r, "refused") /\ UNCHANGED <<stores, locks, job, before>>
          /\ \A q \in Request \ {r} : loaded'[q] = loaded[q]
      BY <1>0, <1>1, <1>5, HolderCommits DEF ResetRefused, Refuse, End, TypeOK
    <2>2. PasswordOK'
      BY <1>1, <2>1, QuietPassword DEF stores
    <2> QED
      BY <1>1, <2>1, <2>2, QuietEdited DEF stores
  <1> QED
    BY <1>2, <1>3, <1>4, <1>5 DEF Reset

LEMMA EditEdited ==
  ASSUME IInv, Edited, NEW r \in Request, LoadUser(r) \/ UserNotFound(r) \/ SkipUpdate(r)
  PROVE  Edited'
  <1>0. TypeOK
    BY DEF IInv, Typed
  <1>1. /\ ~Does(r, {"login"}) /\ phase[r] \in {"check", "flush"}
        /\ ~local_auth => ~Sets(r)
    BY DEF LoadUser, UserNotFound, SkipUpdate, Edits, Does, Sets
  <1>2. PICK p \in {"flush", "refused", "commit"} :
          /\ Goto(r, p) /\ UNCHANGED <<stores, locks, job, before>>
          /\ \A q \in Request \ {r} : loaded'[q] = loaded[q]
          /\ p = "flush" => row # NoRow /\ loaded'[r] = row
          /\ p = "commit" => phase[r] = "flush" /\ WritesNothing(r)
    <2>1. CASE LoadUser(r)
      BY <1>0, <2>1 DEF LoadUser, TypeOK
    <2>2. CASE UserNotFound(r)
      BY <1>0, <1>1, <2>2, HolderCommits DEF UserNotFound, Refuse, End, TypeOK
    <2>3. CASE SkipUpdate(r)
      BY <2>3 DEF SkipUpdate
    <2> QED
      BY <2>1, <2>2, <2>3
  <1>3. PasswordOK'
    BY <1>1, <1>2, QuietPassword DEF stores
  <1> QED
    BY <1>1, <1>2, <1>3, QuietEdited DEF WritesNothing, Does, stores

(* A step of r that takes the row, and lets nobody else take it.           *)
LEMMA WriteEdited ==
  ASSUME IInv, Edited, NEW r \in Request, InsertUser(r) \/ UpdateUser(r)
  PROVE  Edited'
  <1>0. /\ Typed /\ TypeOK /\ StartOK /\ EditOK /\ LockOK
        /\ OverOK /\ ProfileOK /\ DraftOK /\ NobodyOK /\ ColumnOK /\ PasswordOK /\ LoginOK
    BY DEF IInv, Typed, Edited
  <1>1. /\ phase[r] = "flush" /\ phase'[r] = "commit" /\ lock' = r /\ CanLock(r)
        /\ UNCHANGED <<local_auth, row, account, job, loaded, before>>
        /\ ~Does(r, {"login"})
    BY <1>0 DEF InsertUser, UpdateUser, Goto, TypeOK, stores, Edits, Does
  <1>2. Moves(r) /\ lock = NoRequest /\ LockStays(r)
    <2>1. lock = NoRequest
      BY <1>1, HolderCommits DEF CanLock
    <2>2. Moves(r)
      BY <1>0, <1>1 DEF Moves, OthersStay, InsertUser, UpdateUser, Goto, TypeOK, Over
    <2> QED
      BY <1>1, <2>1, <2>2, NoRequestAssumption DEF LockStays
  <1>3. OverOK'
    BY <1>0, <1>2, OverFrame
  <1>4. ProfileOK'
    <2>1. Does(r, {"profile", "device"}) => row # NoRow
      BY <1>0, <1>1 DEF EditOK, Edits
    <2> QED
      BY <1>0, <1>1, <1>2, <2>1, ProfileFrame DEF Does
  <1>5. DraftOK'
    <2>1. CASE InsertUser(r)
      BY <1>1, <2>1 DEF InsertUser, DraftOK, NewUser, Asked
    <2>2. CASE UpdateUser(r)
      <3>1. row # NoRow /\ Edits(r)
        BY <1>0, <1>1, <2>2 DEF EditOK, UpdateUser
      <3>2. draft' = [row EXCEPT !.cols[ColumnOf(r)] = Asked(r)]
        BY <1>1, <1>2, <2>2, NoRequestAssumption DEF UpdateUser, Updated, Visible
      <3> QED
        BY <1>1, <3>1, <3>2 DEF DraftOK, Edits, ColumnOf, Asked, Does
    <2> QED
      BY <2>1, <2>2
  <1>6. NobodyOK'
    BY <1>0, <1>1, <1>2, NobodyFrame
  <1>7. ColumnOK'
    BY <1>0, <1>1, <1>2, ColumnFrame DEF Follows
  <1>8. PasswordOK'
    BY <1>0, <1>1, <1>2, PasswordFrame DEF Sets, Does
  <1>9. LoginOK'
    BY <1>0, <1>1, <1>2, LoginFrame DEF Refused, Does
  <1> QED
    BY <1>3, <1>4, <1>5, <1>6, <1>7, <1>8, <1>9 DEF Edited

LEMMA AbortEdited ==
  ASSUME IInv, Edited, NEW r \in Request, Abort(r)
  PROVE  Edited'
  <1>0. /\ Typed /\ TypeOK /\ StartOK
        /\ OverOK /\ ProfileOK /\ DraftOK /\ NobodyOK /\ ColumnOK /\ PasswordOK /\ LoginOK
    BY DEF IInv, Typed, Edited
  <1>1. /\ phase[r] \in Running /\ phase'[r] = "failed"
        /\ UNCHANGED <<local_auth, row, account, job, before>>
        /\ IF lock = r THEN lock' = NoRequest ELSE UNCHANGED locks
    BY <1>0 DEF Abort, Fail, End, Goto, TypeOK, Release, stores
  <1>2. Moves(r) /\ LockStays(r)
    <2>1. OthersStay(r)
      BY <1>0 DEF Abort, Fail, End, Goto, TypeOK, OthersStay
    <2>2. Moves(r)
      BY <1>1, <2>1 DEF Moves, Running, Over
    <2> QED
      BY <1>1, <2>2, NoRequestAssumption DEF LockStays, locks
  <1>3. OverOK'
    BY <1>0, <1>2, OverFrame
  <1>4. ProfileOK'
    BY <1>0, <1>1, <1>2, ProfileFrame
  <1>5. DraftOK'
    BY <1>0, <1>1, <1>2, DraftFrame DEF DraftOK
  <1>6. NobodyOK'
    BY <1>0, <1>1, <1>2, NobodyFrame
  <1>7. ColumnOK'
    BY <1>0, <1>1, <1>2, ColumnFrame DEF Follows
  <1>8. PasswordOK'
    BY <1>0, <1>1, <1>2, PasswordFrame
  <1>9. LoginOK'
    BY <1>0, <1>1, <1>2, LoginFrame DEF Refused
  <1> QED
    BY <1>3, <1>4, <1>5, <1>6, <1>7, <1>8, <1>9 DEF Edited

(* Nothing but what the pool knows of the account changes.                 *)
LEMMA ConfirmEdited ==
  ASSUME IInv, Edited, UNCHANGED <<local_auth, row, locks, job, phase, loaded, before>>,
         account' # NoAccount => account # NoAccount /\ account'.password = account.password
  PROVE  Edited'
  <1>0. UNCHANGED <<lock, draft>>
    BY DEF locks
  <1>1. OverOK' /\ ProfileOK'
    BY DEF Edited, OverOK, ProfileOK, Does
  <1>2. DraftOK'
    <2>1. \A q \in Request : /\ NewUser(q)' = NewUser(q) /\ (Edits(q)' <=> Edits(q))
                             /\ ColumnOf(q)' = ColumnOf(q) /\ Asked(q)' = Asked(q)
      BY DEF NewUser, Edits, ColumnOf, Asked, Does
    <2>2. lock # NoRequest => lock \in Request
      BY DEF IInv, Typed, TypeOK
    <2> QED
      BY <1>0, <2>1, <2>2 DEF Edited, DraftOK
  <1>3. NobodyOK'
    BY <1>0 DEF Edited, NobodyOK, Succeeded, Does
  <1>4. ColumnOK'
    <2>1. \A c : Writers(c)' = Writers(c)
      BY DEF Writers, SurelySet, Succeeded, Does
    <2> QED
      BY <1>0, <2>1 DEF Edited, ColumnOK, Stands, Follows, Older, Succeeded, ColumnOf, Asked, Does
  <1>5. PasswordOK'
    BY DEF Edited, PasswordOK, SetBy, Sets, Asked, Does
  <1>6. LoginOK'
    BY DEF Edited, LoginOK, Vouches, Outdated, Refused, SurelySet, Succeeded, Sets, Asked, Does
  <1> QED
    BY <1>1, <1>2, <1>3, <1>4, <1>5, <1>6 DEF Edited

(* How the writers of a column change when r commits.                      *)
LEMMA NewWriters ==
  ASSUME IInv, OverOK, NobodyOK, NEW r \in Request, Moves(r), phase'[r] = "done",
         phase[r] = "commit"
  PROVE  /\ \A c \in Column : /\ Writers(c) \subseteq Request \ {r}
                              /\ Writers(c)' = Writers(c) \/ Writers(c)' = Writers(c) \cup {r}
                              /\ \A q \in Writers(c)' : r \notin before'[q]
         /\ \A c \in Column : r \in Writers(c)' =>
              \/ Does(r, {"register"})
              \/ local_auth /\ Does(r, {"reset"}) /\ c = "hashed_password" /\ lock = r
              \/ Does(r, {"profile", "device"}) /\ c = ColumnOf(r)
  <1>0. TypeOK /\ LockOK
    BY DEF IInv, Typed
  <1>1. job'[r] = job[r] /\ before'[r] = before[r] /\ local_auth' = local_auth
    BY DEF Moves
  <1>2. \A op : Succeeded(r, op)' => Does(r, {op})
    BY <1>1 DEF Succeeded, Does
  <1>3. \A q \in Request : r \notin before'[q]
    BY <1>0, <1>1, Steady DEF Moves, OthersStay
  <1>4. SurelySet(r)' /\ local_auth => Does(r, {"register"}) \/ (Does(r, {"reset"}) /\ lock = r)
    <2>1. SurelySet(r)' => \/ Does(r, {"register"})
                           \/ Does(r, {"reset"}) /\ \E q \in before[r] : Succeeded(q, "register")'
      BY <1>1, <1>2 DEF SurelySet
    <2>2. \A q \in before[r] : Succeeded(q, "register")' <=> Succeeded(q, "register")
      BY <1>0, Steady
    <2> QED
      BY <2>1, <2>2 DEF NobodyOK
  <1>5. \A c \in Column :
          /\ Writers(c) \subseteq Request \ {r}
          /\ Writers(c)' \subseteq Request
          /\ \A q \in Request \ {r} : q \in Writers(c)' <=> q \in Writers(c)
    BY <1>0, <1>1, Steady DEF Writers, Column
  <1>6. \A c \in Column : r \in Writers(c)' =>
              \/ Does(r, {"register"})
              \/ local_auth /\ Does(r, {"reset"}) /\ c = "hashed_password" /\ lock = r
              \/ Does(r, {"profile", "device"}) /\ c = ColumnOf(r)
    <2>1. r \in Writers("hashed_password")' => local_auth /\ SurelySet(r)'
      BY <1>1 DEF Writers
    <2>2. r \in Writers("profile")' => Does(r, {"register"}) \/ Does(r, {"profile"})
      BY <1>2 DEF Writers
    <2>3. r \in Writers("fcm_token")' => Does(r, {"device"})
      BY <1>2 DEF Writers
    <2> QED
      BY <1>4, <2>1, <2>2, <2>3 DEF Column, ColumnOf, Does
  <1>7. \A c \in Column : Writers(c)' = Writers(c) \/ Writers(c)' = Writers(c) \cup {r}
    BY <1>5
  <1> QED
    BY <1>3, <1>5, <1>6, <1>7

(* The first row: the registration wrote all that was ever written.        *)
LEMMA FirstRow ==
  ASSUME IInv, Edited, NEW r \in Request, Moves(r), Commit(r), row = NoRow, row' # NoRow
  PROVE  ColumnOK'
  <1>0. /\ TypeOK /\ LockOK /\ OverOK /\ ProfileOK /\ DraftOK /\ NobodyOK
    BY DEF IInv, Typed, Edited
  <1>1. /\ phase[r] = "commit" /\ phase'[r] = "done" /\ lock = r /\ row' = NewUser(r)
        /\ Does(r, {"register"}) /\ job' = job /\ local_auth' = local_auth
    BY <1>0, NoRequestAssumption DEF Commit, Goto, TypeOK, Visible, LockOK, DraftOK
  <1>2. \A c \in Column : row'.cols[c] =
          CASE c = "hashed_password" -> IF local_auth THEN Asked(r) ELSE NoValue
            [] c = "profile" -> Asked(r)
            [] c = "fcm_token" -> NoValue
    BY <1>1 DEF NewUser
  <1>3. Asked(r)' = Asked(r) /\ Succeeded(r, "register")' /\ SurelySet(r)'
    BY <1>1 DEF Asked, Succeeded, Does, SurelySet
  <1>4. ASSUME NEW s \in Request, NEW w, NEW c PROVE Follows(w, s, c)'
    <2>1. CASE s = r
      BY <1>1, <2>1 DEF Follows, Does
    <2>2. CASE s # r
      BY <1>0, <2>2 DEF Follows, ProfileOK, Moves, OthersStay, Does
    <2> QED
      BY <2>1, <2>2
  <1>5. \A c \in Column : r \in Writers(c)' => \A q \in Writers(c)' : r \notin before'[q]
    BY <1>0, <1>1, NewWriters
  <1>6. Stands(IF local_auth THEN r ELSE NoRequest, "hashed_password")'
    <2>1. CASE local_auth
      <3>1. r \in Writers("hashed_password")'
        BY <1>1, <1>3, <2>1 DEF Writers
      <3> QED
        BY <1>1, <1>2, <1>3, <1>5, <2>1, <3>1, NoRequestAssumption DEF Stands, Column
    <2>2. CASE ~local_auth
      <3>1. Writers("hashed_password")' = {}
        BY <1>1, <2>2 DEF Writers
      <3> QED
        BY <1>1, <1>2, <2>2, <3>1 DEF Stands, Column
    <2> QED
      BY <2>1, <2>2
  <1>7. Stands(r, "profile")'
    <2>1. r \in Writers("profile")'
      BY <1>3 DEF Writers
    <2> QED
      BY <1>1, <1>2, <1>3, <1>5, <2>1, NoRequestAssumption DEF Stands, Column
  <1>8. Stands(NoRequest, "fcm_token")'
    <2>1. Writers("fcm_token") = {}
      BY <1>0 DEF Writers, ProfileOK, Succeeded, Does
    <2>2. r \notin Writers("fcm_token")'
      BY <1>1 DEF Writers, Succeeded, Does
    <2>3. Writers("fcm_token")' = {}
      BY <1>0, <1>1, <2>1, <2>2, NewWriters DEF Column
    <2> QED
      BY <1>2, <2>3 DEF Stands, Column
  <1> QED
    BY <1>4, <1>6, <1>7, <1>8 DEF ColumnOK, Column

(* Who wrote a column last did so still, unless r wrote it now.            *)
LEMMA ColumnStands ==
  ASSUME IInv, OverOK, NobodyOK, NEW r \in Request, Moves(r), phase'[r] = "done",
         phase[r] = "commit", NEW c \in Column, NEW w \in Request \cup {NoRequest},
         Stands(w, c), row'.cols[c] = row.cols[c],
         \/ Writers(c)' = Writers(c)
         \/ w # NoRequest /\ w \notin before[r]
  PROVE  Stands(w, c)'
  <1>0. TypeOK
    BY DEF IInv, Typed
  <1>1. CASE w = NoRequest
    BY <1>1 DEF Stands
  <1>2. CASE w # NoRequest
    <2>1. w \in Request \ {r}
      BY <1>0, <1>2, NewWriters, Steady DEF Stands
    <2>2. \A q \in Writers(c)' : w \notin before'[q]
      BY <1>2, NewWriters DEF Stands, Moves, OthersStay
    <2>3. w \in Writers(c) => w \in Writers(c)'
      BY NewWriters
    <2>4. Succeeded(w, "reset")' <=> Succeeded(w, "reset")
      BY <1>0, <2>1, Steady
    <2> QED
      BY <1>0, <1>2, <2>1, <2>2, <2>3, <2>4, Steady DEF Stands, Moves
  <1> QED
    BY <1>1, <1>2

(* An edit of the row.                                                     *)
LEMMA NextRow ==
  ASSUME IInv, Edited, NEW r \in Request, Moves(r), Commit(r), row # NoRow
  PROVE  ColumnOK'
  <1>0. /\ TypeOK /\ LockOK /\ OverOK /\ ProfileOK /\ DraftOK /\ NobodyOK /\ ColumnOK
    BY DEF IInv, Typed, Edited
  <1>1. /\ phase[r] = "commit" /\ phase'[r] = "done"
        /\ row' = IF lock = r THEN draft ELSE row
        /\ job' = job /\ before' = before /\ local_auth' = local_auth
        /\ ~Does(r, {"register"})
        /\ lock = r => lock' = NoRequest
        /\ lock # r => lock' = lock
    BY <1>0, NoRequestAssumption DEF Commit, Goto, TypeOK, Visible, LockOK, Release, locks
  <1> SUFFICES ASSUME NEW c \in Column
               PROVE  \E w \in Request \cup {NoRequest} :
                        Stands(w, c)' /\ \A s \in Request : Follows(w, s, c)'
    BY DEF ColumnOK
  <1>2. PICK w \in Request \cup {NoRequest} :
          Stands(w, c) /\ \A s \in Request : Follows(w, s, c)
    BY <1>0 DEF ColumnOK
  <1>3. ASSUME row'.cols[c] = row.cols[c], NEW s \in Request PROVE Follows(w, s, c)'
    <2>1. CASE s = r
      BY <1>1, <2>1 DEF Follows
    <2>2. CASE s # r
      <3>1. /\ job'[s] = job[s] /\ phase'[s] = phase[s]
            /\ loaded'[s] = loaded[s] /\ before'[s] = before[s]
        BY <2>2 DEF Moves, OthersStay
      <3>2. (lock' = s) <=> (lock = s)
        BY <1>1, <2>2, NoRequestAssumption
      <3>3. Follows(w, s, c)
        BY <1>2
      <3> QED
        BY <1>3, <3>1, <3>2, <3>3 DEF Follows, Older, Does, ColumnOf, Asked
    <2> QED
      BY <2>1, <2>2
  <1>4. ASSUME row'.cols[c] = Asked(r),
               \/ r \in Writers(c)'
               \/ c = "hashed_password" /\ local_auth /\ Succeeded(r, "reset")'
        PROVE  Stands(r, c)' /\ \A s \in Request : Follows(r, s, c)'
    <2>1. \A q \in Request : r \notin before'[q]
      BY <1>0, <1>1, Steady
    <2>2. Writers(c)' \subseteq Request /\ Asked(r)' = Asked(r)
      BY <1>0, <1>1, NewWriters DEF Asked
    <2> QED
      BY <1>1, <1>4, <2>1, <2>2, NoRequestAssumption DEF Stands, Follows, Older
  <1>5. CASE lock = r
    <2>1. row' = [row EXCEPT !.cols[ColumnOf(r)] = Asked(r)] /\ Edits(r)
      BY <1>0, <1>1, <1>5, NoRequestAssumption DEF DraftOK
    <2>2. row \in Row /\ ColumnOf(r) \in Column
      BY <1>0 DEF TypeOK, ColumnOf, Column
    <2>3. CASE c = ColumnOf(r)
      <3>1. row'.cols[c] = Asked(r)
        BY <2>1, <2>2, <2>3 DEF Row
      <3>2. CASE Does(r, {"reset"})
        <4>1. local_auth /\ Succeeded(r, "reset")' /\ c = "hashed_password"
          BY <1>1, <2>1, <2>3, <3>2 DEF Edits, Succeeded, Does, ColumnOf
        <4> QED
          BY <1>4, <3>1, <4>1
      <3>3. CASE Does(r, {"profile"})
        <4>1. r \in Writers(c)'
          BY <1>1, <2>3, <3>3 DEF Writers, Succeeded, Does, ColumnOf
        <4> QED
          BY <1>4, <3>1, <4>1
      <3>4. CASE Does(r, {"device"})
        <4>1. r \in Writers(c)'
          BY <1>1, <2>3, <3>4 DEF Writers, Succeeded, Does, ColumnOf
        <4> QED
          BY <1>4, <3>1, <4>1
      <3> QED
        BY <2>1, <3>2, <3>3, <3>4 DEF Edits, Does
    <2>4. CASE c # ColumnOf(r)
      <3>1. row'.cols[c] = row.cols[c]
        BY <2>1, <2>2, <2>4 DEF Row
      <3>2. ASSUME r \in Writers(c)' PROVE FALSE
        <4>1. Does(r, {"reset"}) => ColumnOf(r) = "hashed_password"
          BY DEF ColumnOf, Does
        <4>2. phase[r] = "commit" /\ phase'[r] = "done" /\ ~Does(r, {"register"})
          BY <1>1
        <4>3. (Does(r, {"reset"}) /\ c = "hashed_password") \/ c = ColumnOf(r)
          BY <1>0, <3>2, <4>2, NewWriters
        <4> QED
          BY <2>4, <4>1, <4>3
      <3>3. Writers(c)' = Writers(c)
        BY <1>0, <1>1, <3>2, NewWriters
      <3>4. Stands(w, c)'
        BY <1>0, <1>1, <1>2, <3>1, <3>3, ColumnStands
      <3> QED
        BY <1>3, <3>1, <3>4
    <2> QED
      BY <2>3, <2>4
  <1>6. CASE lock # r
    <2>1. row'.cols[c] = row.cols[c]
      BY <1>1, <1>6
    <2>2. CASE Writers(c)' = Writers(c) \/ (w # NoRequest /\ w \notin before[r])
      BY <1>0, <1>1, <1>2, <1>3, <2>1, <2>2, ColumnStands
    <2>3. CASE Writers(c)' # Writers(c) /\ Older(w, r)
      <3>1. r \in Writers(c)'
        BY <1>0, <1>1, <2>3, NewWriters
      <3>2. Does(r, {"profile", "device"}) /\ c = ColumnOf(r)
        BY <1>0, <1>1, <1>6, <3>1, NewWriters
      <3>3. Asked(r) = row.cols[c]
        BY <1>1, <1>2, <1>6, <2>3, <3>2 DEF Follows
      <3> QED
        BY <1>4, <2>1, <3>1, <3>3
    <2> QED
      BY <2>2, <2>3 DEF Older
  <1> QED
    BY <1>5, <1>6

LEMMA CommitEdited ==
  ASSUME IInv, Edited, NEW r \in Request, Commit(r)
  PROVE  Edited'
  <1>0. /\ Typed /\ TypeOK /\ StartOK /\ LockOK
        /\ OverOK /\ ProfileOK /\ DraftOK /\ NobodyOK /\ ColumnOK /\ PasswordOK /\ LoginOK
    BY DEF IInv, Typed, Edited
  <1>1. /\ phase[r] = "commit" /\ phase'[r] = "done"
        /\ UNCHANGED <<local_auth, account, job, before>>
        /\ IF lock = r THEN lock' = NoRequest ELSE UNCHANGED locks
        /\ row' = IF lock = r THEN draft ELSE row
    BY <1>0 DEF Commit, Goto, TypeOK, Release, Visible
  <1>2. Moves(r) /\ LockStays(r)
    <2>1. OthersStay(r)
      BY <1>0 DEF Commit, Goto, TypeOK, OthersStay
    <2>2. Moves(r)
      BY <1>1, <2>1 DEF Moves, Over
    <2> QED
      BY <1>1, <2>2, NoRequestAssumption DEF LockStays, locks
  <1>3. row # NoRow => row' # NoRow
    BY <1>0, <1>1, NoRequestAssumption DEF LockOK
  <1>4. OverOK'
    BY <1>0, <1>2, OverFrame
  <1>5. ProfileOK'
    <2>1. Does(r, {"profile", "device"}) => row # NoRow
      BY <1>0, <1>1 DEF ProfileOK
    <2> QED
      BY <1>0, <1>1, <1>2, <1>3, <2>1, ProfileFrame DEF Does
  <1>6. DraftOK'
    <2>1. CASE lock = r
      BY <1>1, <2>1 DEF DraftOK
    <2>2. CASE lock # r
      BY <1>0, <1>1, <1>2, <2>2, DraftFrame
    <2> QED
      BY <2>1, <2>2
  <1>7. NobodyOK'
    BY <1>0, <1>1, <1>2, NobodyFrame
  <1>8. ColumnOK'
    <2>1. CASE row # NoRow
      BY <1>2, <2>1, NextRow
    <2>2. CASE row = NoRow /\ row' # NoRow
      BY <1>2, <2>2, FirstRow
    <2>3. CASE row' = NoRow
      BY <2>3 DEF ColumnOK
    <2> QED
      BY <2>1, <2>2, <2>3
  <1>9. PasswordOK'
    BY <1>0, <1>1, <1>2, PasswordFrame DEF Sets, Does
  <1>10. LoginOK'
    BY <1>0, <1>1, <1>2, LoginFrame DEF Refused
  <1> QED
    BY <1>4, <1>5, <1>6, <1>7, <1>8, <1>9, <1>10 DEF Edited

LEMMA EditedInit == Init => Edited
  <1> SUFFICES ASSUME Init PROVE Edited
    OBVIOUS
  <1>1. \A r \in Request : phase[r] = "new" /\ before[r] = {} /\ \A ops : ~Does(r, ops)
    BY DEF Init, Does
  <1>2. OverOK /\ ProfileOK /\ NobodyOK /\ LoginOK
    BY <1>1 DEF OverOK, ProfileOK, NobodyOK, LoginOK, Refused
  <1>3. DraftOK /\ ColumnOK /\ PasswordOK
    BY DEF Init, DraftOK, ColumnOK, PasswordOK
  <1> QED
    BY <1>2, <1>3 DEF Edited

LEMMA EditedStep == IInv /\ Edited /\ [Next]_vars => Edited'
  <1> SUFFICES ASSUME IInv, Edited, [Next]_vars PROVE Edited'
    OBVIOUS
  <1>1. ASSUME NEW r \in Request, BeginAuth(r) \/ BeginProfile(r) PROVE Edited'
    BY <1>1, BeginEdited
  <1>2. ASSUME NEW r \in Request, Register(r) PROVE Edited'
    BY <1>2, RegisterEdited, WriteEdited DEF Register
  <1>3. ASSUME NEW r \in Request, Authenticate(r) PROVE Edited'
    BY <1>3, LoginEdited
  <1>4. ASSUME NEW r \in Request, Reset(r) PROVE Edited'
    BY <1>4, ResetEdited
  <1>5. ASSUME NEW r \in Request, Edit(r) PROVE Edited'
    BY <1>5, EditEdited, WriteEdited DEF Edit
  <1>6. ASSUME NEW r \in Request, Commit(r) PROVE Edited'
    BY <1>6, CommitEdited
  <1>7. ASSUME NEW r \in Request, Abort(r) PROVE Edited'
    BY <1>7, AbortEdited
  <1>8. CASE Confirm
    <2>1. account # NoAccount /\ account'.password = account.password
      BY <1>8 DEF Confirm, IInv, Typed, TypeOK, Account
    <2> QED
      BY <1>8, <2>1, ConfirmEdited DEF Confirm
  <1>9. CASE UNCHANGED vars
    BY <1>9, ConfirmEdited DEF vars, stores
  <1> QED
    BY <1>1, <1>2, <1>3, <1>4, <1>5, <1>6, <1>7, <1>8, <1>9 DEF Next

(* Every reachable state knows who wrote each column of the row, and the   *)
(* password in the pool, last, and what each login rests on.               *)
THEOREM EditedInvariant == Spec => []Edited
  <1> QED
    BY EditedInit, EditedStep, AccountsInvariant, PTL DEF Spec

(* No edit of the row is lost, and none brings an older one back.          *)
THEOREM EditsStand == Spec => []LastEditStands
  <1>1. IInv /\ Edited => LastEditStands
    <2> SUFFICES ASSUME IInv, Edited, row # NoRow, NEW c \in Column
                 PROVE  IF Writers(c) = {} THEN row.cols[c] = NoValue
                        ELSE \E r \in Request :
                               /\ r \in Writers(c)
                                  \/ (c = "hashed_password" /\ Succeeded(r, "reset"))
                               /\ row.cols[c] = Asked(r)
                               /\ \A q \in Writers(c) : r \notin before[q]
      BY DEF LastEditStands
    <2>1. PICK w \in Request \cup {NoRequest} : Stands(w, c)
      BY DEF Edited, ColumnOK
    <2>2. CASE w = NoRequest
      BY <2>1, <2>2 DEF Stands
    <2>3. CASE w # NoRequest
      <3>1. Writers(c) # {}
        <4>1. CASE w \in Writers(c)
          BY <4>1
        <4>2. CASE c = "hashed_password" /\ local_auth
          <5>1. row.sub \in Request /\ Succeeded(row.sub, "register")
            BY DEF IInv, Typed, TypeOK, Row, RowOK
          <5> QED
            BY <4>2, <5>1 DEF Writers, SurelySet
        <4> QED
          BY <2>1, <2>3, <4>1, <4>2 DEF Stands
      <3> QED
        BY <2>1, <2>3, <3>1 DEF Stands
    <2> QED
      BY <2>2, <2>3
  <1> QED
    BY <1>1, AccountsInvariant, EditedInvariant, PTL

(* A login is let in, or refused for its password, as if the password were *)
(* one register, wherever it is kept.                                      *)
THEOREM RegularLogins == Spec => []LoginIsRegular
  <1>1. IInv /\ Edited => LoginIsRegular
    <2> SUFFICES ASSUME IInv, Edited, NEW r \in Request
                 PROVE  /\ Succeeded(r, "login") =>
                             \E w \in Request :
                               /\ Sets(w) /\ Asked(w) = Asked(r) /\ r \notin before[w]
                               /\ ~\E v \in before[r] : SurelySet(v) /\ w \in before[v]
                        /\ Refused(r, "login") =>
                             ~\E w \in before[r] :
                                /\ SurelySet(w) /\ Asked(w) = Asked(r)
                                /\ \A v \in Request :
                                     Sets(v) => \/ Asked(v) = Asked(r)
                                                \/ v \in before[w] \/ r \in before[v]
      BY DEF LoginIsRegular
    <2>1. Succeeded(r, "login") => \E w \in Request : Vouches(w, r)
      BY DEF Edited, LoginOK, Succeeded
    <2>2. Refused(r, "login") => Outdated(r)
      BY DEF Edited, LoginOK
    <2> QED
      BY <2>1, <2>2 DEF Vouches, Outdated
  <1> QED
    BY <1>1, AccountsInvariant, EditedInvariant, PTL
=============================================================================
