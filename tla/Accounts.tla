------------------------------ MODULE Accounts ------------------------------
(***************************************************************************)
(* User accounts: signing in with its lock-out, the session of a running   *)
(* copy of the application, the changes that administrators make, and the  *)
(* deferred trigger that keeps one active administrator.                   *)
(*                                                                         *)
(* internal/services/auth_service.go, internal/services/user_service.go,   *)
(* internal/services/document_access_admin_service.go, their repositories, *)
(* and the trigger of internal/database/migrations/001_core_users.up.sql.  *)
(*                                                                         *)
(* Transactions run at READ COMMITTED: a statement sees what is committed  *)
(* when it begins, and a row that another transaction has changed is       *)
(* waited for.  What a transaction has written is kept in its call until   *)
(* it commits.  Whether a password is right, and whether it has to be      *)
(* changed, is left open.                                                  *)
(***************************************************************************)
EXTENDS Naturals, FiniteSets

CONSTANTS Users,
          Permissions, \* system permissions, rows of user_system_permissions
          Admin,       \* the permission to administrate
          Copies,      \* running copies of the application
          Calls,       \* calls in flight
          CopyOf,      \* the copy a call runs in
          FailLimit,   \* wrong passwords that lock an account (5 in the code)
          EditBound,   \* bound: changes asked for by administrators
          FaultBound,  \* bound: transactions that fail
          Nobody

ASSUME AccountsAssumption ==
    /\ Admin \in Permissions /\ IsFiniteSet(Permissions)
    /\ CopyOf \in [Calls -> Copies]
    /\ FailLimit \in Nat \ {0}
    /\ EditBound \in Nat /\ FaultBound \in Nat
    /\ Nobody \notin Users \union Calls

VARIABLES account, \* users
          perms,   \* user_system_permissions, the rows that allow
          session, \* per copy, currentUserID
          call,    \* the calls in flight, with what their transactions wrote
          holder,  \* the transaction that has the advisory lock of the trigger
          audit,   \* USER_LOCKED events committed for each user
          edits, faults

tables == <<account, perms, audit>>
vars == <<account, perms, session, call, holder, audit, edits, faults>>

-----------------------------------------------------------------------------
Account == [exists : BOOLEAN, active : BOOLEAN, failed : 0 .. FailLimit + 1]

NoAccount == [exists |-> FALSE, active |-> FALSE, failed |-> 0]
NewAccount == [exists |-> TRUE, active |-> TRUE, failed |-> 0]

(* A call about a user.  "want" is what it was asked to store, "row" the   *)
(* account it has written, "gone" and "new" the permissions it has deleted *)
(* and inserted; while it is at "clear", "gone" is what its DELETE sees.   *)
Call == [at : {"idle", "reset", "enter", "revoke", "password", "count", "update",
               "profile", "clear", "insert", "commit", "publish"},
         user : Users \union {Nobody}, active : BOOLEAN, want : SUBSET Permissions,
         row : Account, gone : SUBSET Permissions, new : SUBSET Permissions]

IdleCall == [at |-> "idle", user |-> Nobody, active |-> FALSE, want |-> {},
             row |-> NoAccount, gone |-> {}, new |-> {}]

Asked(at, u) == [IdleCall EXCEPT !.at = at, !.user = u]
Goes(c, r) == call' = [call EXCEPT ![c] = r]
Returns(c) == Goes(c, IdleCall)
Idle(c) == call[c] = IdleCall

WritesRow(c) == call[c].row.exists
Deleted(c) == IF call[c].at \in {"insert", "commit", "publish"} THEN call[c].gone ELSE {}

(* Other calls that hold rows about the same user.                         *)
Rivals(c) == {d \in Calls \ {c} : call[d].user = call[c].user}
RowIsFree(c) == \A d \in Rivals(c) : ~WritesRow(d)

Init ==
    /\ account = [u \in Users |-> NoAccount]
    /\ perms = [u \in Users |-> {}]
    /\ session = [p \in Copies |-> Nobody]
    /\ call = [c \in Calls |-> IdleCall]
    /\ holder = Nobody
    /\ audit = [u \in Users |-> 0]
    /\ edits = 0 /\ faults = 0

-----------------------------------------------------------------------------
(* Signing in.                                                             *)

(* The account is read.  A wrong password is counted, whatever the state   *)
(* of the account; a right one of an active account goes on, after the     *)
(* count of wrong ones is reset.                                           *)
Login(c, u) ==
    /\ Idle(c) /\ account[u].exists
    /\ \/ Goes(c, Asked("count", u))
       \/ account[u].active /\ account[u].failed > 0 /\ Goes(c, Asked("reset", u))
       \/ account[u].active /\ account[u].failed = 0 /\ Goes(c, Asked("enter", u))
    /\ UNCHANGED <<tables, session, holder, edits, faults>>

(* ChangeRequiredPassword, with the right password of an active account.   *)
(* With a wrong one it goes the way of Login.                              *)
ChangeRequiredPassword(c, u) ==
    /\ Idle(c) /\ account[u].exists /\ account[u].active
    /\ Goes(c, Asked("password", u))
    /\ UNCHANGED <<tables, session, holder, edits, faults>>

(* ResetFailedLoginAttempts; then the sign-in is refused if the password   *)
(* has to be changed.  Nothing looks at the account again.                 *)
ResetFailed(c) ==
    LET u == call[c].user IN
    /\ call[c].at = "reset"
    /\ RowIsFree(c)
    /\ account' = [account EXCEPT ![u].failed = 0]
    /\ Returns(c) \/ Goes(c, Asked("enter", u))
    /\ UNCHANGED <<perms, session, holder, audit, edits, faults>>

Enter(c) ==
    /\ call[c].at = "enter"
    /\ session' = [session EXCEPT ![CopyOf[c]] = call[c].user]
    /\ Returns(c)
    /\ UNCHANGED <<tables, holder, edits, faults>>

Logout(p) ==
    /\ session' = [session EXCEPT ![p] = Nobody]
    /\ UNCHANGED <<tables, call, holder, edits, faults>>

(* getActiveSessionPrincipal finds the session's user deactivated, and     *)
(* takes the session away if it is still that user's.                      *)
FindInactive(c) ==
    LET u == session[CopyOf[c]] IN
    /\ Idle(c)
    /\ u # Nobody /\ ~account[u].active
    /\ Goes(c, Asked("revoke", u))
    /\ UNCHANGED <<tables, session, holder, edits, faults>>

Revoke(c) ==
    /\ call[c].at = "revoke"
    /\ session' = [session EXCEPT ![CopyOf[c]] = IF @ = call[c].user THEN Nobody ELSE @]
    /\ Returns(c)
    /\ UNCHANGED <<tables, holder, edits, faults>>

(* IncrementFailedLoginAttemptsWithOutbox, up to its commit.  Counts above *)
(* the limit are alike.                                                    *)
Counted(a) ==
    [a EXCEPT !.failed = IF @ > FailLimit THEN @ ELSE @ + 1,
              !.active = @ /\ a.failed + 1 < FailLimit]

CountFailure(c) ==
    /\ call[c].at = "count"
    /\ RowIsFree(c)
    /\ Goes(c, [call[c] EXCEPT !.at = "commit", !.row = Counted(account[call[c].user])])
    /\ UNCHANGED <<tables, session, holder, edits, faults>>

-----------------------------------------------------------------------------
(* The changes of administrators and of the users themselves.              *)

SignedIn(c) == session[CopyOf[c]] # Nobody /\ account[session[CopyOf[c]]].active

(* RequireSystemPermission, at the start of the call and never again.      *)
Administrator(c) == SignedIn(c) /\ Admin \in perms[session[CopyOf[c]]]

Edit == edits < EditBound /\ edits' = edits + 1

CreateUser(c, u) ==
    /\ Idle(c) /\ Administrator(c)
    /\ ~account[u].exists
    /\ account' = [account EXCEPT ![u] = NewAccount]
    /\ Edit
    /\ UNCHANGED <<perms, session, call, holder, audit, faults>>

(* UpdateUser, UpdateUserAccessProfile and ResetPassword of the            *)
(* administration.                                                         *)
Administrate(c, u) ==
    /\ Idle(c) /\ Administrator(c)
    /\ account[u].exists
    /\ \/ \E b \in BOOLEAN : Goes(c, [Asked("update", u) EXCEPT !.active = b])
       \/ \E w \in SUBSET Permissions : Goes(c, [Asked("profile", u) EXCEPT !.want = w])
       \/ Goes(c, Asked("password", u))
    /\ Edit
    /\ UNCHANGED <<tables, session, holder, faults>>

ChangePassword(c) ==
    /\ Idle(c) /\ SignedIn(c)
    /\ Goes(c, Asked("password", session[CopyOf[c]]))
    /\ UNCHANGED <<tables, session, holder, edits, faults>>

(* UpdatePassword and ResetPasswordWithOutbox                              *)
SetPassword(c) ==
    /\ call[c].at = "password"
    /\ RowIsFree(c)
    /\ account' = [account EXCEPT ![call[c].user].failed = 0]
    /\ Returns(c)
    /\ UNCHANGED <<perms, session, holder, audit, edits, faults>>

(* Mutant: an account that is activated again keeps its count.             *)
KeepsCount(a, b) == [a EXCEPT !.active = b]

Updated(a, b) ==
    [a EXCEPT !.active = b, !.failed = IF ~a.active /\ b THEN 0 ELSE @]

(* UpdateWithOutbox, up to its commit.                                     *)
WriteUpdate(c) ==
    /\ call[c].at = "update"
    /\ RowIsFree(c)
    /\ Goes(c, [call[c] EXCEPT !.at = "commit",
                               !.row = Updated(account[call[c].user], call[c].active)])
    /\ UNCHANGED <<tables, session, holder, edits, faults>>

(* ReplaceUserAccessProfile: DELETE sees the rows that are committed when  *)
(* it begins, and waits for those that another transaction has deleted.    *)
BeginClear(c) ==
    /\ call[c].at = "profile"
    /\ Goes(c, [call[c] EXCEPT !.at = "clear", !.gone = perms[call[c].user]])
    /\ UNCHANGED <<tables, session, holder, edits, faults>>

Clear(c) ==
    /\ call[c].at = "clear"
    /\ \A d \in Rivals(c) : Deleted(d) \intersect call[c].gone = {}
    /\ Goes(c, [call[c] EXCEPT !.at = "insert"])
    /\ UNCHANGED <<tables, session, holder, edits, faults>>

(* INSERT waits for rows in flight, and UNIQUE (user_id, permission)       *)
(* refuses a row that is there: the transaction is rolled back.            *)
Insert(c) ==
    LET r == call[c] IN
    /\ r.at = "insert"
    /\ \A d \in Rivals(c) : (Deleted(d) \union call[d].new) \intersect r.want = {}
    /\ IF (perms[r.user] \ r.gone) \intersect r.want # {}
       THEN Returns(c)
       ELSE Goes(c, [r EXCEPT !.at = "commit", !.new = r.want])
    /\ UNCHANGED <<tables, session, holder, edits, faults>>

-----------------------------------------------------------------------------
(* COMMIT, with the deferred trigger.                                      *)

(* What the tables say once the transaction of c is committed.             *)
AccountsAfter(c) ==
    IF WritesRow(c) THEN [account EXCEPT ![call[c].user] = call[c].row] ELSE account

PermsAfter(c) ==
    IF WritesRow(c) THEN perms
    ELSE [perms EXCEPT ![call[c].user] = (@ \ call[c].gone) \union call[c].new]

(* The trigger is fired by every row whose is_active is in the SET list    *)
(* and by every row of permissions that comes or goes.                     *)
Fires(c) == WritesRow(c) \/ call[c].gone \union call[c].new # {}

(* Mutant: the trigger does not take its lock.                             *)
LockIgnored(c) == TRUE

LockIsFree(c) == Fires(c) => holder = Nobody

HasAdministrator(as, ps) == \E u \in Users : as[u].active /\ Admin \in ps[u]

(* ensure_active_administrator_exists: with the advisory lock in hand, the *)
(* transaction looks for an administrator, and is rolled back without one. *)
RunTrigger(c) ==
    /\ call[c].at = "commit"
    /\ LockIsFree(c)
    /\ IF ~Fires(c) \/ HasAdministrator(AccountsAfter(c), PermsAfter(c))
       THEN /\ Goes(c, [call[c] EXCEPT !.at = "publish"])
            /\ holder' = IF Fires(c) THEN c ELSE holder
       ELSE Returns(c) /\ UNCHANGED holder
    /\ UNCHANGED <<tables, session, edits, faults>>

Release(c) == holder' = IF holder = c THEN Nobody ELSE holder

(* The event of a lock is enqueued by the count that reaches the limit.    *)
(* (An update by an administrator leaves the count alone or resets it.)    *)
LocksOut(c) ==
    LET u == call[c].user IN
    /\ WritesRow(c)
    /\ call[c].row.failed = FailLimit /\ account[u].failed # FailLimit
    /\ ~call[c].row.active

(* A DELETE that waits for this commit skips the rows that are gone, and   *)
(* does not see the ones that are new.                                     *)
Skips(c, d) ==
    IF d \in Rivals(c) /\ call[d].at = "clear"
    THEN [call[d] EXCEPT !.gone = @ \ call[c].gone]
    ELSE call[d]

Publish(c) ==
    /\ call[c].at = "publish"
    /\ account' = AccountsAfter(c)
    /\ perms' = PermsAfter(c)
    /\ audit' = IF LocksOut(c) THEN [audit EXCEPT ![call[c].user] = @ + 1] ELSE audit
    /\ Release(c)
    /\ call' = [d \in Calls |-> IF d = c THEN IdleCall ELSE Skips(c, d)]
    /\ UNCHANGED <<session, edits, faults>>

(* The connection or the program fails.                                    *)
Abort(c) ==
    /\ ~Idle(c)
    /\ faults < FaultBound /\ faults' = faults + 1
    /\ Release(c)
    /\ Returns(c)
    /\ UNCHANGED <<tables, session, edits>>

(* CreateInitialAdmin: one transaction under a lock of its own.            *)
InitialSetup(c, u) ==
    /\ Idle(c)
    /\ \A v \in Users : ~account[v].exists
    /\ account' = [account EXCEPT ![u] = NewAccount]
    /\ perms' = [perms EXCEPT ![u] = {Admin}]
    /\ UNCHANGED <<session, call, holder, audit, edits, faults>>

-----------------------------------------------------------------------------
Step(c) ==
    \/ ResetFailed(c) \/ Enter(c) \/ Revoke(c) \/ CountFailure(c) \/ SetPassword(c)
    \/ WriteUpdate(c) \/ BeginClear(c) \/ Clear(c) \/ Insert(c)
    \/ RunTrigger(c) \/ Publish(c)

Next ==
    \/ \E c \in Calls :
         \/ \E u \in Users :
              \/ Login(c, u) \/ ChangeRequiredPassword(c, u)
              \/ CreateUser(c, u) \/ Administrate(c, u) \/ InitialSetup(c, u)
         \/ FindInactive(c) \/ ChangePassword(c)
         \/ Step(c) \/ Abort(c)
    \/ \E p \in Copies : Logout(p)

Spec == Init /\ [][Next]_vars

-----------------------------------------------------------------------------
(* Properties.                                                             *)

(* Types; the advisory lock is held exactly between the trigger and the    *)
(* end of the transaction that fired it.                                   *)
TypeOK ==
    /\ account \in [Users -> Account]
    /\ perms \in [Users -> SUBSET Permissions]
    /\ session \in [Copies -> Users \union {Nobody}]
    /\ call \in [Calls -> Call]
    /\ holder \in Calls \union {Nobody}
    /\ audit \in [Users -> Nat]
    /\ edits \in 0..EditBound /\ faults \in 0..FaultBound
    /\ \A c \in Calls : holder = c <=> call[c].at = "publish" /\ Fires(c)

(* Once there are users, there is an active administrator: not even two    *)
(* administrators who deactivate each other, take each other's rights away *)
(* or are locked out by wrong passwords at the same time leave none        *)
(* (migrations/001_core_users.up.sql:38).                                  *)
AdministratorRemains ==
    (\E u \in Users : account[u].exists) => HasAdministrator(account, perms)

(* "After 5 wrong attempts the account is deactivated, and an entry of the *)
(* audit is written" (tech_docs.md:294): every account that wrong          *)
(* passwords lock is audited in the same commit, however often it was      *)
(* locked, unlocked and given a new password before, and an active account *)
(* has always fewer wrong attempts than lock it.                           *)
LockIsAudited ==
    [][\A u \in Users : account[u].active =>
         /\ account[u].failed < FailLimit
         /\ ~account'[u].active /\ account'[u].failed # account[u].failed
            => audit'[u] = audit[u] + 1]_vars
=============================================================================
