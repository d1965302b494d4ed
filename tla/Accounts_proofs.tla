--------------------------- MODULE Accounts_proofs ---------------------------
(***************************************************************************)
(* Proofs about accounts, for any number of users, copies, calls and       *)
(* permissions, and any limit of wrong passwords; and, at the end, about   *)
(* the pages a signed-in user has open, for any documents or filters.      *)
(***************************************************************************)
EXTENDS Accounts, Refreshes, TLAPS

USE AccountsAssumption

(* The strengthening.  A call is about an account that exists, and so is a  *)
(* session.  A transaction that has written a row made it of the account as *)
(* it still is, since nobody else writes the row meanwhile.  A transaction  *)
(* that has passed the trigger will leave an administrator.                *)
Types ==
    /\ account \in [Users -> Account]
    /\ perms \in [Users -> SUBSET Permissions]
    /\ session \in [Copies -> Users \union {Nobody}]
    /\ call \in [Calls -> Call]
    /\ holder \in Calls \union {Nobody}
    /\ audit \in [Users -> Nat]
    /\ edits \in 0..EditBound /\ faults \in 0..FaultBound
LockHeld == \A c \in Calls : holder = c <=> call[c].at = "publish" /\ Fires(c)

AccountsExist ==
    /\ \A p \in Copies : session[p] \in Users => account[session[p]].exists
    /\ \A u \in Users : account[u].active => account[u].exists
CallsMeanUsers ==
    \A c \in Calls :
        /\ call[c].user \in Users => account[call[c].user].exists
        /\ call[c].at # "idle" => call[c].user \in Users
        /\ WritesRow(c) => call[c].at \in {"commit", "publish"}
OneWriter == \A c, d \in Calls : WritesRow(c) /\ WritesRow(d) /\ call[c].user = call[d].user => c = d
MadeOf(a) == {Counted(a)} \union {Updated(a, b) : b \in BOOLEAN}
RowsAreCurrent == \A c \in Calls : WritesRow(c) => call[c].row \in MadeOf(account[call[c].user])
ActiveIsBelow == \A u \in Users : account[u].active => account[u].failed < FailLimit
WillRemain == \A c \in Calls : holder = c => HasAdministrator(AccountsAfter(c), PermsAfter(c))

IInv == /\ Types /\ LockHeld /\ AccountsExist /\ CallsMeanUsers /\ OneWriter /\ RowsAreCurrent
        /\ ActiveIsBelow /\ WillRemain /\ AdministratorRemains

-----------------------------------------------------------------------------
(* Accounts and calls.                                                     *)

(* What a count or an update makes of an account.                          *)
LEMMA Made ==
    ASSUME NEW a \in Account, a.exists, a.active => a.failed < FailLimit, NEW r \in MadeOf(a)
    PROVE  /\ r \in Account /\ r.exists
           /\ r.active => r.failed < FailLimit
           /\ a.active /\ ~r.active /\ r.failed # a.failed =>
                r.failed = FailLimit /\ a.failed # FailLimit
  <1> DEFINE n == IF a.failed > FailLimit THEN a.failed ELSE a.failed + 1
             q == [[a EXCEPT !.failed = n] EXCEPT !.active = @ /\ a.failed + 1 < FailLimit]
  <1>1. a.failed \in 0 .. FailLimit + 1 /\ a.active \in BOOLEAN
    BY DEF Account
  <1>2. n \in 0 .. FailLimit + 1
    BY <1>1
  <1>3. CASE r = Counted(a)
    <2>1. r = q
      BY <1>3 DEF Counted
    <2> HIDE DEF n
    <2>2. /\ q \in Account /\ q.exists /\ q.failed = n
          /\ q.active <=> a.active /\ a.failed + 1 < FailLimit
      BY <1>1, <1>2 DEF Account
    <2> HIDE DEF q
    <2> USE DEF n
    <2>3. QED
      BY <1>1, <2>1, <2>2
  <1>4. CASE \E b \in BOOLEAN : r = Updated(a, b)
    <2>1. PICK b \in BOOLEAN : r = Updated(a, b)
      BY <1>4
    <2> DEFINE m == IF ~a.active /\ b THEN 0 ELSE a.failed
               p == [[a EXCEPT !.active = b] EXCEPT !.failed = m]
    <2>2. r = p
      BY <2>1 DEF Updated
    <2>3. m \in 0 .. FailLimit + 1
      BY <1>1
    <2> HIDE DEF m
    <2>4. p \in Account /\ p.exists /\ p.failed = m /\ p.active = b
      BY <1>1, <2>3 DEF Account
    <2> HIDE DEF p
    <2> USE DEF m
    <2>5. QED
      BY <1>1, <2>2, <2>4
  <1>5. QED
    BY <1>3, <1>4 DEF MadeOf

(* A call that is idle, and one that has just been made.                   *)
LEMMA Calling ==
    /\ IdleCall \in Call /\ IdleCall.at = "idle" /\ IdleCall.user = Nobody /\ ~IdleCall.row.exists
    /\ IdleCall.gone = {} /\ IdleCall.new = {}
    /\ \A u \in Users, at \in {"reset", "enter", "revoke", "password", "count", "update", "profile"} :
         LET r == Asked(at, u)
         IN  /\ r \in Call /\ r.at = at /\ r.user = u /\ ~r.row.exists
             /\ r.gone = {} /\ r.new = {}
  <1> DEFINE Ats == {"reset", "enter", "revoke", "password", "count", "update", "profile"}
  <1>1. NoAccount \in Account /\ ~NoAccount.exists
    BY DEF NoAccount, Account
  <1>2. /\ IdleCall \in Call /\ IdleCall.at = "idle" /\ IdleCall.user = Nobody
        /\ ~IdleCall.row.exists /\ IdleCall.gone = {} /\ IdleCall.new = {}
    BY <1>1 DEF IdleCall, Call
  <1>3. ASSUME NEW u \in Users, NEW at \in Ats
        PROVE  /\ Asked(at, u) \in Call /\ Asked(at, u).at = at /\ Asked(at, u).user = u
               /\ ~Asked(at, u).row.exists /\ Asked(at, u).gone = {} /\ Asked(at, u).new = {}
    <2> DEFINE k == [IdleCall EXCEPT !.at = at]
               r == [k EXCEPT !.user = u]
    <2>1. k \in Call /\ k.at = at /\ k.row = IdleCall.row /\ k.gone = {} /\ k.new = {}
      BY <1>2 DEF Call
    <2>2. Asked(at, u) = r
      BY DEF Asked
    <2> HIDE DEF k
    <2>3. r \in Call /\ r.at = at /\ r.user = u /\ r.row = IdleCall.row /\ r.gone = {} /\ r.new = {}
      BY <2>1 DEF Call
    <2> HIDE DEF r
    <2>4. QED
      BY <1>2, <2>2, <2>3
  <1>4. QED
    BY <1>2, <1>3

(* An administrator remains where none is taken away.                      *)
LEMMA MoreRemain ==
    ASSUME NEW as, NEW bs, NEW ps, NEW qs, HasAdministrator(as, ps),
           \A u \in Users : as[u].active /\ Admin \in ps[u] => bs[u].active /\ Admin \in qs[u]
    PROVE  HasAdministrator(bs, qs)
  BY DEF HasAdministrator

(* The empty table satisfies the invariant.                                *)
LEMMA InitIInv == ASSUME Init PROVE IInv
  <1>1. NoAccount \in Account /\ ~NoAccount.exists /\ ~NoAccount.active
    BY DEF NoAccount, Account
  <1>2. Types
    BY <1>1, Calling DEF Init, Types
  <1>3. \A c \in Calls : call[c].at = "idle" /\ call[c].user = Nobody /\ ~WritesRow(c) /\ holder # c
    BY Calling DEF Init, WritesRow
  <1>4. LockHeld /\ CallsMeanUsers /\ OneWriter /\ RowsAreCurrent /\ WillRemain
    BY <1>3 DEF LockHeld, CallsMeanUsers, OneWriter, RowsAreCurrent, WillRemain
  <1>5. AccountsExist /\ ActiveIsBelow /\ AdministratorRemains
    BY <1>1 DEF Init, AccountsExist, ActiveIsBelow, AdministratorRemains
  <1>6. QED
    BY <1>2, <1>4, <1>5 DEF IInv

-----------------------------------------------------------------------------
(* Steps that change one call and no table.                                *)

(* A call that does not hold the lock has nothing to release.              *)
LEMMA Unheld ==
    ASSUME IInv, NEW c \in Calls, call[c].at # "publish", UNCHANGED holder
    PROVE  Release(c)
  BY DEF IInv, LockHeld, Release

(* What such a step has to answer for: the new state of its call.          *)
Answers(c, r) ==
    /\ r \in Call
    /\ r.at # "publish"
    /\ r.at # "idle" => r.user \in Users
    /\ r.user \in Users => account[r.user].exists
    /\ r.row.exists => /\ r.at = "commit"
                       /\ r.row \in MadeOf(account[r.user])
                       /\ \A d \in Calls \ {c} : WritesRow(d) => call[d].user # r.user

(* A step of one call that leaves the tables alone.                        *)
LEMMA OneCall ==
    ASSUME IInv, NEW c \in Calls, NEW r, Goes(c, r), Answers(c, r), Release(c), UNCHANGED tables,
           session' \in [Copies -> Users \union {Nobody}],
           \A p \in Copies : session'[p] \in Users => account[session'[p]].exists,
           edits' \in 0..EditBound, faults' \in 0..FaultBound
    PROVE  IInv'
  <1>1. /\ call' \in [Calls -> Call] /\ call'[c] = r
        /\ \A d \in Calls \ {c} : call'[d] = call[d]
    BY DEF IInv, Types, Goes, Answers
  <1>2. \A d \in Calls \ {c} : WritesRow(d)' = WritesRow(d) /\ Fires(d)' = Fires(d)
    BY <1>1 DEF WritesRow, Fires
  <1>3. WritesRow(c)' = r.row.exists
    BY <1>1 DEF WritesRow
  <1>4. holder' # c /\ holder' \in {holder, Nobody} /\ \A d \in Calls \ {c} : holder' = d <=> holder = d
    BY DEF Release
  <1>5. Types'
    BY <1>1, <1>4 DEF IInv, Types, tables
  <1>6. LockHeld'
    <2>1. ASSUME NEW d \in Calls PROVE (holder = d <=> call[d].at = "publish" /\ Fires(d))'
      <3>1. CASE d = c
        BY <1>1, <1>4, <3>1 DEF Answers
      <3>2. CASE d # c
        BY <1>1, <1>2, <1>4, <3>2 DEF IInv, LockHeld
      <3>3. QED
        BY <3>1, <3>2
    <2>2. QED
      BY <2>1 DEF LockHeld
  <1>7. AccountsExist' /\ ActiveIsBelow' /\ AdministratorRemains'
    BY DEF IInv, tables, AccountsExist, ActiveIsBelow, AdministratorRemains, HasAdministrator
  <1>8. CallsMeanUsers'
    BY <1>1, <1>2, <1>3 DEF IInv, CallsMeanUsers, tables, Answers
  <1>9. OneWriter'
    BY <1>1, <1>2, <1>3 DEF IInv, OneWriter, Answers
  <1>10. RowsAreCurrent'
    <2>1. ASSUME NEW d \in Calls, WritesRow(d)' PROVE call'[d].row \in MadeOf(account[call'[d].user])
      BY <1>1, <1>2, <1>3, <2>1 DEF IInv, RowsAreCurrent, Answers
    <2>2. ASSUME NEW d \in Calls
          PROVE  (WritesRow(d) => call[d].row \in MadeOf(account[call[d].user]))'
      <3>1. MadeOf(account[call[d].user])' = MadeOf(account'[call'[d].user])
        BY DEF MadeOf, Counted, Updated
      <3>2. QED
        BY <2>1, <3>1 DEF tables
    <2>3. QED
      BY <2>2 DEF RowsAreCurrent
  <1>11. WillRemain'
    <2>1. ASSUME NEW d \in Calls, holder' = d PROVE HasAdministrator(AccountsAfter(d), PermsAfter(d))'
      <3>1. d # c /\ holder = d
        BY <1>4, <2>1
      <3>2. AccountsAfter(d)' = AccountsAfter(d) /\ PermsAfter(d)' = PermsAfter(d)
        BY <1>1, <1>2, <3>1 DEF AccountsAfter, PermsAfter, tables
      <3>3. QED
        BY <3>1, <3>2 DEF IInv, WillRemain, HasAdministrator
    <2>2. QED
      BY <2>1 DEF WillRemain
  <1>12. QED
    BY <1>5, <1>6, <1>7, <1>8, <1>9, <1>10, <1>11 DEF IInv

(* The call returns.                                                       *)
LEMMA IdleAnswers ==
    ASSUME IInv, NEW c \in Calls
    PROVE  Answers(c, IdleCall)
  BY Calling DEF Answers

(* The call is asked something about an account that exists.               *)
LEMMA AskedAnswers ==
    ASSUME IInv, NEW c \in Calls, Idle(c), NEW u \in Users, account[u].exists,
           NEW at \in {"reset", "enter", "revoke", "password", "count", "update", "profile"}
    PROVE  /\ Answers(c, Asked(at, u))
           /\ \A b \in BOOLEAN : Answers(c, [Asked(at, u) EXCEPT !.active = b])
           /\ \A w \in SUBSET Permissions : Answers(c, [Asked(at, u) EXCEPT !.want = w])
  <1> DEFINE k == Asked(at, u)
  <1>1. k \in Call /\ k.at = at /\ k.user = u /\ ~k.row.exists
    BY Calling
  <1> HIDE DEF k
  <1>2. \A b \in BOOLEAN : LET r == [k EXCEPT !.active = b]
                           IN  r \in Call /\ r.at = at /\ r.user = u /\ ~r.row.exists
    BY <1>1 DEF Call
  <1>3. \A w \in SUBSET Permissions : LET r == [k EXCEPT !.want = w]
                                      IN  r \in Call /\ r.at = at /\ r.user = u /\ ~r.row.exists
    BY <1>1 DEF Call
  <1>4. Answers(c, k)
    BY <1>1 DEF Answers
  <1>5. ASSUME NEW b \in BOOLEAN PROVE Answers(c, [k EXCEPT !.active = b])
    <2> DEFINE r == [k EXCEPT !.active = b]
    <2>1. r \in Call /\ r.at = at /\ r.user = u /\ ~r.row.exists
      BY <1>2
    <2> HIDE DEF r
    <2>2. Answers(c, r)
      BY <2>1 DEF Answers
    <2>3. QED
      BY <2>2 DEF r
  <1>6. ASSUME NEW w \in SUBSET Permissions PROVE Answers(c, [k EXCEPT !.want = w])
    <2> DEFINE r == [k EXCEPT !.want = w]
    <2>1. r \in Call /\ r.at = at /\ r.user = u /\ ~r.row.exists
      BY <1>3
    <2> HIDE DEF r
    <2>2. Answers(c, r)
      BY <2>1 DEF Answers
    <2>3. QED
      BY <2>2 DEF r
  <1>7. QED
    BY <1>4, <1>5, <1>6 DEF k

(* The call goes on, without a row written, to a place before its commit.  *)
LEMMA OnwardAnswers ==
    ASSUME IInv, NEW c \in Calls, call[c].at \notin {"idle", "commit", "publish"},
           NEW at \in {"clear", "insert", "commit"},
           NEW g \in SUBSET Permissions, NEW n \in SUBSET Permissions
    PROVE  /\ Answers(c, [call[c] EXCEPT !.at = at])
           /\ Answers(c, [call[c] EXCEPT !.at = at, !.gone = g])
           /\ Answers(c, [call[c] EXCEPT !.at = at, !.new = n])
  <1> DEFINE k == [call[c] EXCEPT !.at = at]
             r == [k EXCEPT !.gone = g]
             s == [k EXCEPT !.new = n]
  <1>1. /\ call[c] \in Call /\ call[c].user \in Users /\ account[call[c].user].exists
        /\ ~call[c].row.exists
    BY DEF IInv, Types, CallsMeanUsers, WritesRow
  <1>2. k \in Call /\ k.at = at /\ k.user = call[c].user /\ k.row = call[c].row
    BY <1>1 DEF Call
  <1>3. r = [call[c] EXCEPT !.at = at, !.gone = g] /\ s = [call[c] EXCEPT !.at = at, !.new = n]
    OBVIOUS
  <1> HIDE DEF k
  <1>4. /\ r \in Call /\ r.at = at /\ r.user = call[c].user /\ r.row = call[c].row
        /\ s \in Call /\ s.at = at /\ s.user = call[c].user /\ s.row = call[c].row
    BY <1>2 DEF Call
  <1> HIDE DEF r, s
  <1>5. Answers(c, k) /\ Answers(c, r) /\ Answers(c, s)
    BY <1>1, <1>2, <1>4 DEF Answers
  <1>6. QED
    BY <1>3, <1>5 DEF k

(* Calls that are asked something.                                         *)
LEMMA AskingKeeps ==
    ASSUME IInv, NEW c \in Calls,
           \/ \E u \in Users : Login(c, u) \/ ChangeRequiredPassword(c, u) \/ Administrate(c, u)
           \/ FindInactive(c) \/ ChangePassword(c)
    PROVE  IInv'
  <1>1. \A p \in Copies : /\ session[p] \in Users \union {Nobody}
                          /\ session[p] \in Users => account[session[p]].exists
    BY DEF IInv, Types, AccountsExist
  <1>2. session \in [Copies -> Users \union {Nobody}] /\ edits \in 0..EditBound /\ faults \in 0..FaultBound
    BY DEF IInv, Types
  <1>3. ASSUME NEW r, Idle(c), Goes(c, r), Answers(c, r), edits' \in 0..EditBound,
               UNCHANGED <<tables, session, holder, faults>>
        PROVE  IInv'
    <2>1. Release(c)
      BY <1>3, Unheld, Calling DEF Idle
    <2>2. QED
      BY <1>1, <1>2, <1>3, <2>1, OneCall
  <1>4. ASSUME NEW u \in Users, Login(c, u) PROVE IInv'
    BY <1>2, <1>3, <1>4, AskedAnswers DEF Login
  <1>5. ASSUME NEW u \in Users, ChangeRequiredPassword(c, u) PROVE IInv'
    BY <1>2, <1>3, <1>5, AskedAnswers DEF ChangeRequiredPassword
  <1>6. ASSUME NEW u \in Users, Administrate(c, u) PROVE IInv'
    <2>1. edits' \in 0..EditBound
      BY <1>2, <1>6 DEF Administrate, Edit
    <2>2. QED
      BY <1>3, <1>6, <2>1, AskedAnswers DEF Administrate
  <1>7. ASSUME FindInactive(c) PROVE IInv'
    <2>1. session[CopyOf[c]] \in Users /\ account[session[CopyOf[c]]].exists
      BY <1>1, <1>7 DEF FindInactive
    <2>2. QED
      BY <1>2, <1>3, <1>7, <2>1, AskedAnswers DEF FindInactive
  <1>8. ASSUME ChangePassword(c) PROVE IInv'
    <2>1. session[CopyOf[c]] \in Users /\ account[session[CopyOf[c]]].exists
      BY <1>1, <1>8 DEF ChangePassword, SignedIn
    <2>2. QED
      BY <1>2, <1>3, <1>8, <2>1, AskedAnswers DEF ChangePassword
  <1>9. QED
    BY <1>4, <1>5, <1>6, <1>7, <1>8

(* Calls that come and go with the session of their copy.                  *)
LEMMA SessionsKeep ==
    ASSUME IInv, \/ \E c \in Calls : Enter(c) \/ Revoke(c)
                 \/ \E p \in Copies : Logout(p)
    PROVE  IInv'
  <1>1. /\ session \in [Copies -> Users \union {Nobody}]
        /\ \A p \in Copies : session[p] \in Users => account[session[p]].exists
        /\ edits \in 0..EditBound /\ faults \in 0..FaultBound
    BY DEF IInv, Types, AccountsExist
  <1>2. ASSUME NEW c \in Calls, Enter(c) PROVE IInv'
    <2>1. call[c].user \in Users /\ account[call[c].user].exists
      BY <1>2 DEF Enter, IInv, CallsMeanUsers
    <2>2. /\ session' \in [Copies -> Users \union {Nobody}]
          /\ \A p \in Copies : session'[p] \in Users => account[session'[p]].exists
      BY <1>1, <1>2, <2>1 DEF Enter
    <2>3. Goes(c, IdleCall) /\ Answers(c, IdleCall) /\ Release(c)
      BY <1>2, IdleAnswers, Unheld DEF Enter, Returns
    <2>4. QED
      BY <1>1, <1>2, <2>2, <2>3, OneCall DEF Enter
  <1>3. ASSUME NEW c \in Calls, Revoke(c) PROVE IInv'
    <2>1. /\ session' \in [Copies -> Users \union {Nobody}]
          /\ \A p \in Copies : session'[p] \in Users => account[session'[p]].exists
      BY <1>1, <1>3 DEF Revoke
    <2>2. Goes(c, IdleCall) /\ Answers(c, IdleCall) /\ Release(c)
      BY <1>3, IdleAnswers, Unheld DEF Revoke, Returns
    <2>3. QED
      BY <1>1, <1>3, <2>1, <2>2, OneCall DEF Revoke
  <1>4. ASSUME NEW p \in Copies, Logout(p) PROVE IInv'
    <2>1. /\ session' \in [Copies -> Users \union {Nobody}]
          /\ \A q \in Copies : session'[q] \in Users => account[session'[q]].exists
      BY <1>1, <1>4 DEF Logout
    <2>2. UNCHANGED <<tables, call, holder, edits, faults>>
      BY <1>4 DEF Logout
    <2>3. Types' /\ AccountsExist'
      BY <2>1, <2>2 DEF IInv, Types, AccountsExist, tables
    <2>4. LockHeld' /\ CallsMeanUsers' /\ OneWriter'
      BY <2>2 DEF IInv, LockHeld, Fires, WritesRow, CallsMeanUsers, OneWriter, tables
    <2>5. RowsAreCurrent'
      BY <2>2 DEF IInv, RowsAreCurrent, WritesRow, MadeOf, Counted, Updated, tables
    <2>6. ActiveIsBelow' /\ AdministratorRemains' /\ WillRemain'
      BY <2>2 DEF IInv, ActiveIsBelow, AdministratorRemains, WillRemain, HasAdministrator,
                  AccountsAfter, PermsAfter, WritesRow, tables
    <2>7. QED
      BY <2>3, <2>4, <2>5, <2>6 DEF IInv
  <1>5. QED
    BY <1>2, <1>3, <1>4

(* A transaction writes its row, when nobody else holds it.                *)
LEMMA WritingKeeps ==
    ASSUME IInv, NEW c \in Calls, CountFailure(c) \/ WriteUpdate(c)
    PROVE  IInv'
  <1>1. /\ session \in [Copies -> Users \union {Nobody}]
        /\ \A p \in Copies : session[p] \in Users => account[session[p]].exists
        /\ edits \in 0..EditBound /\ faults \in 0..FaultBound
    BY DEF IInv, Types, AccountsExist
  <1> DEFINE u == call[c].user
             a == account[u]
  <1>2. call[c].at \in {"count", "update"} /\ RowIsFree(c)
    BY DEF CountFailure, WriteUpdate
  <1>3. u \in Users /\ a.exists /\ a \in Account /\ call[c] \in Call
    BY <1>2 DEF IInv, Types, CallsMeanUsers
  <1>4. PICK w \in MadeOf(a) : Goes(c, [call[c] EXCEPT !.at = "commit", !.row = w])
    <2>1. CASE CountFailure(c)
      BY <2>1 DEF CountFailure, MadeOf
    <2>2. CASE WriteUpdate(c)
      <3>1. call[c].active \in BOOLEAN
        BY <1>3 DEF Call
      <3>2. QED
        BY <2>2, <3>1 DEF WriteUpdate, MadeOf
    <2>3. QED
      BY <2>1, <2>2
  <1>5. w \in Account
    BY <1>3, Made DEF IInv, ActiveIsBelow
  <1> DEFINE k == [call[c] EXCEPT !.at = "commit"]
             r == [k EXCEPT !.row = w]
  <1>6. k \in Call /\ k.at = "commit" /\ k.user = u
    BY <1>3 DEF Call
  <1>7. Goes(c, r)
    BY <1>4
  <1> HIDE DEF k
  <1>8. r \in Call /\ r.at = "commit" /\ r.user = u /\ r.row = w
    BY <1>5, <1>6 DEF Call
  <1> HIDE DEF r
  <1>9. \A d \in Calls \ {c} : WritesRow(d) => call[d].user # u
    BY <1>2 DEF RowIsFree, Rivals
  <1>10. Answers(c, r)
    BY <1>2, <1>3, <1>8, <1>9 DEF Answers
  <1>11. Release(c) /\ UNCHANGED <<tables, session, edits, faults>>
    BY <1>2, Unheld DEF CountFailure, WriteUpdate
  <1>12. QED
    BY <1>1, <1>7, <1>10, <1>11, OneCall

(* An access profile is replaced, up to its commit.                        *)
LEMMA ProfileKeeps ==
    ASSUME IInv, NEW c \in Calls, BeginClear(c) \/ Clear(c) \/ Insert(c)
    PROVE  IInv'
  <1>1. /\ session \in [Copies -> Users \union {Nobody}]
        /\ \A p \in Copies : session[p] \in Users => account[session[p]].exists
        /\ edits \in 0..EditBound /\ faults \in 0..FaultBound
    BY DEF IInv, Types, AccountsExist
  <1>2. call[c].at \in {"profile", "clear", "insert"}
    BY DEF BeginClear, Clear, Insert
  <1>3. /\ call[c].user \in Users /\ call[c].want \in SUBSET Permissions
        /\ perms[call[c].user] \in SUBSET Permissions
    <2>1. call[c].user \in Users /\ call[c] \in Call
      BY <1>2 DEF IInv, Types, CallsMeanUsers
    <2>2. QED
      BY <2>1 DEF IInv, Types, Call
  <1>4. \E r : Goes(c, r) /\ Answers(c, r)
    <2>1. CASE BeginClear(c)
      BY <1>2, <1>3, <2>1, OnwardAnswers DEF BeginClear
    <2>2. CASE Clear(c)
      BY <1>2, <1>3, <2>2, OnwardAnswers DEF Clear
    <2>3. CASE Insert(c)
      BY <1>2, <1>3, <2>3, OnwardAnswers, IdleAnswers DEF Insert, Returns
    <2>4. QED
      BY <2>1, <2>2, <2>3
  <1>5. Release(c) /\ UNCHANGED <<tables, session, edits, faults>>
    BY <1>2, Unheld DEF BeginClear, Clear, Insert
  <1>6. QED
    BY <1>1, <1>4, <1>5, OneCall

(* The connection or the program fails: the transaction is rolled back.    *)
LEMMA AbortKeeps == ASSUME IInv, NEW c \in Calls, Abort(c) PROVE IInv'
  <1>1. /\ session \in [Copies -> Users \union {Nobody}]
        /\ \A p \in Copies : session[p] \in Users => account[session[p]].exists
        /\ edits \in 0..EditBound /\ faults' \in 0..FaultBound
    BY DEF IInv, Types, AccountsExist, Abort
  <1>2. QED
    BY <1>1, IdleAnswers, OneCall DEF Abort, Returns

-----------------------------------------------------------------------------
(* Steps that change the tables.                                           *)

(* The count of wrong passwords is reset, while nobody else holds the row. *)
LEMMA ZeroKeeps ==
    ASSUME IInv, NEW c \in Calls, ResetFailed(c) \/ SetPassword(c)
    PROVE  IInv'
  <1> DEFINE u == call[c].user
  <1>1. call[c].at \in {"reset", "password"} /\ RowIsFree(c)
    BY DEF ResetFailed, SetPassword
  <1>2. u \in Users /\ account[u] \in Account /\ account[u].exists /\ ~WritesRow(c) /\ holder # c
    BY <1>1 DEF IInv, Types, CallsMeanUsers, LockHeld
  <1>3. /\ account' = [account EXCEPT ![u].failed = 0]
        /\ UNCHANGED <<perms, session, holder, audit, edits, faults>>
    BY DEF ResetFailed, SetPassword
  <1>4. PICK r : Goes(c, r) /\ r \in {IdleCall, Asked("enter", u)}
    BY DEF ResetFailed, SetPassword, Returns
  <1>5. r \in Call /\ r.at # "publish" /\ ~r.row.exists /\ (r.at # "idle" => r.user \in Users) /\ r.user \in {u, Nobody}
    BY <1>2, <1>4, Calling
  <1>6. /\ account' \in [Users -> Account]
        /\ \A v \in Users : account'[v].exists = account[v].exists /\ account'[v].active = account[v].active
        /\ \A v \in Users \ {u} : account'[v] = account[v]
        /\ account'[u].failed = 0
    BY <1>2, <1>3 DEF IInv, Types, Account
  <1>7. /\ call' \in [Calls -> Call] /\ call'[c] = r
        /\ \A d \in Calls \ {c} : call'[d] = call[d]
    BY <1>4, <1>5 DEF IInv, Types, Goes
  <1>8. /\ ~WritesRow(c)'
        /\ \A d \in Calls \ {c} : WritesRow(d)' = WritesRow(d) /\ Fires(d)' = Fires(d)
    BY <1>5, <1>7 DEF WritesRow, Fires
  <1>9. \A d \in Calls : WritesRow(d) => call[d].user # u
    BY <1>1, <1>2 DEF RowIsFree, Rivals
  <1>10. Types'
    BY <1>3, <1>6, <1>7 DEF IInv, Types
  <1>11. LockHeld'
    <2>1. ASSUME NEW d \in Calls PROVE (holder = d <=> call[d].at = "publish" /\ Fires(d))'
      <3>1. CASE d = c
        BY <1>2, <1>3, <1>5, <1>7, <3>1
      <3>2. CASE d # c
        BY <1>3, <1>7, <1>8, <3>2 DEF IInv, LockHeld
      <3>3. QED
        BY <3>1, <3>2
    <2>2. QED
      BY <2>1 DEF LockHeld
  <1>12. AccountsExist' /\ ActiveIsBelow'
    BY <1>2, <1>3, <1>6 DEF IInv, Types, AccountsExist, ActiveIsBelow
  <1>13. AdministratorRemains'
    BY <1>3, <1>6 DEF IInv, AdministratorRemains, HasAdministrator
  <1>14. CallsMeanUsers'
    <2>1. ASSUME NEW d \in Calls
          PROVE  (/\ call[d].user \in Users => account[call[d].user].exists
                  /\ call[d].at # "idle" => call[d].user \in Users
                  /\ WritesRow(d) => call[d].at \in {"commit", "publish"})'
      <3>1. CASE d = c
        BY <1>2, <1>5, <1>6, <1>7, <1>8, <3>1
      <3>2. CASE d # c
        BY <1>6, <1>7, <1>8, <3>2 DEF IInv, CallsMeanUsers
      <3>3. QED
        BY <3>1, <3>2
    <2>2. QED
      BY <2>1 DEF CallsMeanUsers
  <1>15. OneWriter'
    BY <1>7, <1>8 DEF IInv, OneWriter
  <1>16. RowsAreCurrent'
    <2>1. ASSUME NEW d \in Calls
          PROVE  (WritesRow(d) => call[d].row \in MadeOf(account[call[d].user]))'
      <3>1. MadeOf(account[call[d].user])' = MadeOf(account'[call'[d].user])
        BY DEF MadeOf, Counted, Updated
      <3>2. WritesRow(d)' => d # c /\ WritesRow(d) /\ call'[d] = call[d] /\ call[d].user \in Users \ {u}
        BY <1>7, <1>8, <1>9 DEF IInv, CallsMeanUsers
      <3>3. QED
        BY <1>6, <3>1, <3>2 DEF IInv, RowsAreCurrent
    <2>2. QED
      BY <2>1 DEF RowsAreCurrent
  <1>17. WillRemain'
    <2>1. ASSUME NEW d \in Calls, holder' = d PROVE HasAdministrator(AccountsAfter(d), PermsAfter(d))'
      <3>1. d # c /\ holder = d /\ call'[d] = call[d]
        BY <1>2, <1>3, <1>7, <2>1
      <3>2. HasAdministrator(AccountsAfter(d), PermsAfter(d))
        BY <3>1 DEF IInv, WillRemain
      <3>3. PermsAfter(d)' = PermsAfter(d)
        BY <1>3, <1>8, <3>1 DEF PermsAfter
      <3>4. \A v \in Users : AccountsAfter(d)'[v].active = AccountsAfter(d)[v].active
        BY <1>6, <1>8, <3>1 DEF IInv, Types, AccountsAfter
      <3>5. QED
        BY <3>2, <3>3, <3>4 DEF HasAdministrator
    <2>2. QED
      BY <2>1 DEF WillRemain
  <1>18. QED
    BY <1>10, <1>11, <1>12, <1>13, <1>14, <1>15, <1>16, <1>17 DEF IInv

(* An account that did not exist comes, with an administrator about.       *)
LEMMA NewcomerKeeps ==
    ASSUME IInv, NEW u \in Users, ~account[u].exists,
           account' = [account EXCEPT ![u] = NewAccount],
           perms' \in [Users -> SUBSET Permissions], HasAdministrator(account', perms'),
           UNCHANGED <<session, call, holder, audit, faults>>, edits' \in 0..EditBound,
           \A c \in Calls : holder = c => perms' = perms
    PROVE  IInv'
  <1>1. NewAccount \in Account /\ NewAccount.exists /\ NewAccount.active /\ NewAccount.failed = 0
    BY DEF NewAccount, Account
  <1>2. /\ account' \in [Users -> Account] /\ account'[u] = NewAccount
        /\ \A v \in Users \ {u} : account'[v] = account[v]
        /\ \A v \in Users : account[v].exists => account'[v] = account[v]
    BY <1>1 DEF IInv, Types
  <1>3. \A c \in Calls : WritesRow(c)' = WritesRow(c) /\ Fires(c)' = Fires(c)
    BY DEF WritesRow, Fires
  <1>4. Types'
    BY <1>2 DEF IInv, Types
  <1>5. LockHeld' /\ OneWriter'
    BY <1>3 DEF IInv, LockHeld, OneWriter
  <1>6. AccountsExist' /\ ActiveIsBelow'
    BY <1>1, <1>2 DEF IInv, Types, AccountsExist, ActiveIsBelow
  <1>7. CallsMeanUsers'
    BY <1>2, <1>3 DEF IInv, CallsMeanUsers
  <1>8. RowsAreCurrent'
    <2>1. ASSUME NEW d \in Calls
          PROVE  (WritesRow(d) => call[d].row \in MadeOf(account[call[d].user]))'
      <3>1. MadeOf(account[call[d].user])' = MadeOf(account'[call'[d].user])
        BY DEF MadeOf, Counted, Updated
      <3>2. WritesRow(d)' => WritesRow(d) /\ call[d].user \in Users /\ account[call[d].user].exists
        BY <1>3 DEF IInv, CallsMeanUsers
      <3>3. QED
        BY <1>2, <3>1, <3>2 DEF IInv, RowsAreCurrent
    <2>2. QED
      BY <2>1 DEF RowsAreCurrent
  <1>9. WillRemain'
    <2>1. ASSUME NEW d \in Calls, holder' = d PROVE HasAdministrator(AccountsAfter(d), PermsAfter(d))'
      <3>1. holder = d /\ call' = call /\ perms' = perms
        BY <2>1
      <3>2. HasAdministrator(AccountsAfter(d), PermsAfter(d))
        BY <3>1 DEF IInv, WillRemain
      <3>3. PermsAfter(d)' = PermsAfter(d)
        BY <1>3, <3>1 DEF PermsAfter
      <3>4. \A v \in Users : AccountsAfter(d)[v].active => AccountsAfter(d)'[v].active
        <4>1. CASE WritesRow(d)
          <5>1. call[d].user \in Users /\ call[d].user # u
            BY <4>1 DEF IInv, CallsMeanUsers
          <5>2. QED
            BY <1>1, <1>2, <1>3, <3>1, <4>1, <5>1 DEF IInv, Types, AccountsExist, AccountsAfter
        <4>2. CASE ~WritesRow(d)
          BY <1>1, <1>2, <1>3, <3>1, <4>2 DEF IInv, Types, AccountsExist, AccountsAfter
        <4>3. QED
          BY <4>1, <4>2
      <3>5. QED
        BY <3>2, <3>3, <3>4 DEF HasAdministrator
    <2>2. QED
      BY <2>1 DEF WillRemain
  <1>10. AdministratorRemains'
    BY DEF AdministratorRemains, HasAdministrator
  <1>11. QED
    BY <1>4, <1>5, <1>6, <1>7, <1>8, <1>9, <1>10 DEF IInv

(* A new account takes no administrator away.                              *)
LEMMA CreationKeeps ==
    ASSUME IInv, NEW c \in Calls, NEW u \in Users, CreateUser(c, u) \/ InitialSetup(c, u)
    PROVE  IInv'
  <1>1. /\ account' = [account EXCEPT ![u] = NewAccount]
        /\ account'[u] = NewAccount /\ NewAccount.active
        /\ \A v \in Users \ {u} : account'[v] = account[v]
    BY DEF CreateUser, InitialSetup, IInv, Types, NewAccount
  <1>2. CASE CreateUser(c, u)
    <2>1. HasAdministrator(account, perms)
      BY <1>2 DEF CreateUser, Administrator, SignedIn, IInv, Types, AccountsExist, AdministratorRemains,
                  HasAdministrator
    <2>2. HasAdministrator(account', perms')
      BY <1>1, <1>2, <2>1 DEF CreateUser, HasAdministrator
    <2>3. edits' \in 0..EditBound /\ perms' \in [Users -> SUBSET Permissions]
      BY <1>2 DEF CreateUser, Edit, IInv, Types
    <2>4. QED
      BY <1>1, <1>2, <2>2, <2>3, NewcomerKeeps DEF CreateUser
  <1>3. CASE InitialSetup(c, u)
    <2>1. \A d \in Calls : holder # d
      BY <1>3 DEF InitialSetup, IInv, LockHeld, CallsMeanUsers
    <2>2. /\ perms' \in [Users -> SUBSET Permissions] /\ Admin \in perms'[u]
          /\ edits' \in 0..EditBound
      BY <1>3 DEF InitialSetup, IInv, Types
    <2>3. HasAdministrator(account', perms')
      BY <1>1, <2>2 DEF HasAdministrator
    <2>4. QED
      BY <1>1, <1>3, <2>1, <2>2, <2>3, NewcomerKeeps DEF InitialSetup
  <1>4. QED
    BY <1>2, <1>3

-----------------------------------------------------------------------------
(* Commits.                                                                *)

(* The trigger lets a transaction pass if an administrator remains.        *)
LEMMA TriggerKeeps == ASSUME IInv, NEW c \in Calls, RunTrigger(c) PROVE IInv'
  <1>1. /\ session \in [Copies -> Users \union {Nobody}]
        /\ \A p \in Copies : session[p] \in Users => account[session[p]].exists
        /\ edits \in 0..EditBound /\ faults \in 0..FaultBound
        /\ call[c].at = "commit"
        /\ UNCHANGED <<account, perms, audit, session, edits, faults>>
    BY DEF IInv, Types, AccountsExist, RunTrigger, tables
  <1>2. CASE Returns(c) /\ UNCHANGED holder
    BY <1>1, <1>2, IdleAnswers, Unheld, OneCall DEF Returns, tables
  <1>3. CASE /\ ~Fires(c) \/ HasAdministrator(AccountsAfter(c), PermsAfter(c))
             /\ Goes(c, [call[c] EXCEPT !.at = "publish"])
             /\ holder' = IF Fires(c) THEN c ELSE holder
    <2> DEFINE r == [call[c] EXCEPT !.at = "publish"]
    <2>1. call[c] \in Call /\ call[c].user \in Users
      BY <1>1 DEF IInv, Types, CallsMeanUsers
    <2>2. /\ r \in Call /\ r.at = "publish" /\ r.user = call[c].user /\ r.row = call[c].row
          /\ r.gone = call[c].gone /\ r.new = call[c].new
      BY <2>1 DEF Call
    <2> HIDE DEF r
    <2>3. /\ call' \in [Calls -> Call]
          /\ call'[c].at = "publish"
          /\ \A d \in Calls \ {c} : call'[d].at = call[d].at
          /\ \A d \in Calls : /\ call'[d].user = call[d].user /\ call'[d].row = call[d].row
                              /\ call'[d].gone = call[d].gone /\ call'[d].new = call[d].new
      BY <1>3, <2>2 DEF IInv, Types, Goes, r
    <2>4. \A d \in Calls : /\ WritesRow(d)' = WritesRow(d) /\ Fires(d)' = Fires(d)
      BY <2>3 DEF WritesRow, Fires
    <2>5. \A d \in Calls : /\ AccountsAfter(d)' = AccountsAfter(d)
                          /\ PermsAfter(d)' = PermsAfter(d)
      BY <1>1, <2>3, <2>4 DEF AccountsAfter, PermsAfter
    <2>6. Types'
      BY <1>1, <1>3, <2>3 DEF IInv, Types
    <2>7. holder # c /\ (Fires(c) => holder = Nobody)
      BY <1>1 DEF IInv, LockHeld, RunTrigger, LockIsFree
    <2>8. LockHeld'
      <3>1. ASSUME NEW d \in Calls PROVE (holder = d <=> call[d].at = "publish" /\ Fires(d))'
        <4>1. CASE d = c
          BY <1>3, <2>3, <2>4, <2>7, <4>1
        <4>2. CASE d # c
          BY <1>3, <2>3, <2>4, <2>7, <4>2 DEF IInv, LockHeld
        <4>3. QED
          BY <4>1, <4>2
      <3>2. QED
        BY <3>1 DEF LockHeld
    <2>9. AccountsExist' /\ ActiveIsBelow' /\ AdministratorRemains'
      BY <1>1 DEF IInv, AccountsExist, ActiveIsBelow, AdministratorRemains, HasAdministrator
    <2>10. CallsMeanUsers' /\ OneWriter'
      BY <1>1, <2>1, <2>3, <2>4 DEF IInv, CallsMeanUsers, OneWriter
    <2>11. RowsAreCurrent'
      <3>1. ASSUME NEW d \in Calls
            PROVE  (WritesRow(d) => call[d].row \in MadeOf(account[call[d].user]))'
        <4>1. MadeOf(account[call[d].user])' = MadeOf(account'[call'[d].user])
          BY DEF MadeOf, Counted, Updated
        <4>2. QED
          BY <1>1, <2>3, <2>4, <4>1 DEF IInv, RowsAreCurrent
      <3>2. QED
        BY <3>1 DEF RowsAreCurrent
    <2>12. WillRemain'
      <3>1. ASSUME NEW d \in Calls, holder' = d PROVE HasAdministrator(AccountsAfter(d), PermsAfter(d))'
        <4>1. HasAdministrator(AccountsAfter(d), PermsAfter(d))
          BY <1>3, <2>7, <3>1 DEF IInv, WillRemain
        <4>2. QED
          BY <2>5, <4>1 DEF HasAdministrator
      <3>2. QED
        BY <3>1 DEF WillRemain
    <2>13. QED
      BY <2>6, <2>8, <2>9, <2>10, <2>11, <2>12 DEF IInv
  <1>4. QED
    BY <1>2, <1>3 DEF RunTrigger

(* A row that a transaction has written is a good account.                 *)
LEMMA GoodRow ==
    ASSUME IInv, NEW c \in Calls, WritesRow(c)
    PROVE  LET a == account[call[c].user]
               r == call[c].row
           IN  /\ call[c].user \in Users /\ a \in Account /\ r \in Account /\ r.exists
               /\ r.active => r.failed < FailLimit
               /\ a.active /\ ~r.active /\ r.failed # a.failed =>
                    r.failed = FailLimit /\ a.failed # FailLimit
  <1> DEFINE a == account[call[c].user]
             r == call[c].row
  <1>1. call[c].user \in Users
    BY DEF IInv, CallsMeanUsers
  <1>2. a \in Account /\ a.exists /\ (a.active => a.failed < FailLimit) /\ r \in MadeOf(a)
    BY <1>1 DEF IInv, Types, CallsMeanUsers, ActiveIsBelow, RowsAreCurrent
  <1> HIDE DEF a, r
  <1>3. /\ r \in Account /\ r.exists
        /\ r.active => r.failed < FailLimit
        /\ a.active /\ ~r.active /\ r.failed # a.failed =>
             r.failed = FailLimit /\ a.failed # FailLimit
    BY <1>2, Made
  <1>4. QED
    BY <1>1, <1>2, <1>3 DEF a, r

(* A transaction that fires no trigger changes nothing when it commits.    *)
LEMMA NothingPublished ==
    ASSUME IInv, NEW c \in Calls, Publish(c), ~Fires(c)
    PROVE  IInv'
  <1>1. /\ session \in [Copies -> Users \union {Nobody}]
        /\ \A p \in Copies : session[p] \in Users => account[session[p]].exists
        /\ edits \in 0..EditBound /\ faults \in 0..FaultBound
    BY DEF IInv, Types, AccountsExist
  <1>2. ~WritesRow(c) /\ call[c].gone = {} /\ call[c].new = {}
    BY DEF Fires
  <1>3. UNCHANGED tables
    <2>1. call[c].user \in Users
      BY DEF Publish, IInv, CallsMeanUsers
    <2>2. PermsAfter(c) = perms
      BY <1>2, <2>1 DEF PermsAfter, IInv, Types
    <2>3. QED
      BY <1>2, <2>2 DEF Publish, AccountsAfter, LocksOut, tables
  <1>4. ASSUME NEW d \in Calls PROVE Skips(c, d) = call[d]
    <2>1. call[d] \in Call
      BY DEF IInv, Types
    <2>2. [call[d] EXCEPT !.gone = @ \ call[c].gone] = call[d]
      BY <1>2, <2>1 DEF Call
    <2>3. QED
      BY <2>2 DEF Skips
  <1>5. Goes(c, IdleCall)
    BY <1>4 DEF Publish, Goes, IInv, Types
  <1>6. QED
    BY <1>1, <1>3, <1>5, IdleAnswers, OneCall DEF Publish

(* A transaction that fires the trigger commits with the lock in hand.     *)
LEMMA LockedPublished ==
    ASSUME IInv, NEW c \in Calls, Publish(c), Fires(c)
    PROVE  IInv'
  <1> DEFINE u == call[c].user
  <1>1. u \in Users /\ call[c] \in Call /\ holder = c
    BY DEF Publish, IInv, Types, CallsMeanUsers, LockHeld
  <1>2. /\ account' = AccountsAfter(c) /\ perms' = PermsAfter(c) /\ holder' = Nobody
        /\ UNCHANGED <<session, edits, faults>>
    BY <1>1 DEF Publish, Release
  <1>3. /\ account' \in [Users -> Account]
        /\ \A v \in Users : account[v].exists => account'[v].exists
        /\ \A v \in Users : account'[v] = account[v] \/ (WritesRow(c) /\ v = u /\ account'[v] = call[c].row)
    <2>1. CASE WritesRow(c)
      <3>1. account' = [account EXCEPT ![u] = call[c].row]
        BY <1>2, <2>1 DEF AccountsAfter
      <3>2. call[c].row \in Account /\ call[c].row.exists
        BY <2>1, GoodRow
      <3>3. QED
        BY <1>1, <2>1, <3>1, <3>2 DEF IInv, Types
    <2>2. CASE ~WritesRow(c)
      BY <1>2, <2>2 DEF AccountsAfter, IInv, Types
    <2>3. QED
      BY <2>1, <2>2
  <1>4. perms' \in [Users -> SUBSET Permissions]
    BY <1>1, <1>2 DEF PermsAfter, IInv, Types, Call
  <1>5. audit' \in [Users -> Nat]
    BY <1>1 DEF Publish, IInv, Types
  <1>6. ASSUME NEW d \in Calls \ {c}
        PROVE  /\ Skips(c, d) \in Call /\ Skips(c, d).at = call[d].at
               /\ Skips(c, d).user = call[d].user /\ Skips(c, d).row = call[d].row
               /\ call[d].at = "publish" => Skips(c, d) = call[d]
    <2>1. call[d] \in Call
      BY DEF IInv, Types
    <2> DEFINE s == [call[d] EXCEPT !.gone = @ \ call[c].gone]
    <2>2. s \in Call /\ s.at = call[d].at /\ s.user = call[d].user /\ s.row = call[d].row
      BY <2>1 DEF Call
    <2> HIDE DEF s
    <2>3. Skips(c, d) \in {s, call[d]} /\ (call[d].at = "publish" => Skips(c, d) = call[d])
      BY DEF Skips, s
    <2>4. QED
      BY <2>1, <2>2, <2>3
  <1>7. /\ call' \in [Calls -> Call] /\ call'[c] = IdleCall
        /\ \A d \in Calls \ {c} :
             /\ call'[d].at = call[d].at /\ call'[d].user = call[d].user /\ call'[d].row = call[d].row
             /\ call[d].at = "publish" => call'[d] = call[d]
    BY <1>6, Calling DEF Publish
  <1>8. ~WritesRow(c)' /\ \A d \in Calls \ {c} : WritesRow(d)' = WritesRow(d)
    BY <1>7, Calling DEF WritesRow
  <1>9. Types'
    BY <1>2, <1>3, <1>4, <1>5, <1>7 DEF IInv, Types
  <1>10. LockHeld'
    <2>1. ASSUME NEW d \in Calls PROVE (holder = d <=> call[d].at = "publish" /\ Fires(d))'
      <3>1. CASE d = c
        BY <1>2, <1>7, <3>1, Calling
      <3>2. CASE d # c
        <4>1. call'[d].at = "publish" => Fires(d)' = Fires(d)
          BY <1>7, <3>2 DEF Fires, WritesRow
        <4>2. ~(call[d].at = "publish" /\ Fires(d))
          BY <1>1, <3>2 DEF IInv, LockHeld
        <4>3. QED
          BY <1>2, <1>7, <3>2, <4>1, <4>2
      <3>3. QED
        BY <3>1, <3>2
    <2>2. QED
      BY <2>1 DEF LockHeld
  <1>11. AccountsExist' /\ ActiveIsBelow'
    BY <1>2, <1>3, GoodRow DEF IInv, Types, AccountsExist, ActiveIsBelow
  <1>12. CallsMeanUsers'
    <2>1. ASSUME NEW d \in Calls
          PROVE  (/\ call[d].user \in Users => account[call[d].user].exists
                  /\ call[d].at # "idle" => call[d].user \in Users
                  /\ WritesRow(d) => call[d].at \in {"commit", "publish"})'
      <3>1. CASE d = c
        BY <1>7, <1>8, <3>1, Calling
      <3>2. CASE d # c
        BY <1>3, <1>7, <1>8, <3>2 DEF IInv, CallsMeanUsers
      <3>3. QED
        BY <3>1, <3>2
    <2>2. QED
      BY <2>1 DEF CallsMeanUsers
  <1>13. OneWriter'
    BY <1>7, <1>8 DEF IInv, OneWriter
  <1>14. RowsAreCurrent'
    <2>1. ASSUME NEW d \in Calls
          PROVE  (WritesRow(d) => call[d].row \in MadeOf(account[call[d].user]))'
      <3>1. MadeOf(account[call[d].user])' = MadeOf(account'[call'[d].user])
        BY DEF MadeOf, Counted, Updated
      <3>2. WritesRow(d)' => /\ d # c /\ WritesRow(d) /\ call[d].user \in Users
                             /\ call'[d].row = call[d].row /\ call'[d].user = call[d].user
        BY <1>7, <1>8 DEF IInv, CallsMeanUsers
      <3>3. WritesRow(d)' => account'[call[d].user] = account[call[d].user]
        BY <1>3, <3>2 DEF IInv, OneWriter
      <3>4. QED
        BY <3>1, <3>2, <3>3 DEF IInv, RowsAreCurrent
    <2>2. QED
      BY <2>1 DEF RowsAreCurrent
  <1>15. WillRemain'
    BY <1>2 DEF WillRemain
  <1>16. AdministratorRemains'
    BY <1>1, <1>2 DEF IInv, WillRemain, AdministratorRemains, HasAdministrator
  <1>17. QED
    BY <1>9, <1>10, <1>11, <1>12, <1>13, <1>14, <1>15, <1>16 DEF IInv

(* A commit publishes what its trigger has judged.                         *)
LEMMA PublishKeeps == ASSUME IInv, NEW c \in Calls, Publish(c) PROVE IInv'
  BY NothingPublished, LockedPublished

-----------------------------------------------------------------------------
(* So does a step that changes nothing.                                    *)
LEMMA StutterKeeps == ASSUME IInv, UNCHANGED vars PROVE IInv'
  <1>1. Types' /\ AccountsExist' /\ ActiveIsBelow' /\ AdministratorRemains'
    BY DEF vars, IInv, Types, AccountsExist, ActiveIsBelow, AdministratorRemains, HasAdministrator
  <1>2. LockHeld' /\ CallsMeanUsers' /\ OneWriter'
    BY DEF vars, IInv, LockHeld, Fires, WritesRow, CallsMeanUsers, OneWriter
  <1>3. RowsAreCurrent'
    BY DEF vars, IInv, RowsAreCurrent, WritesRow, MadeOf, Counted, Updated
  <1>4. WillRemain'
    BY DEF vars, IInv, WillRemain, HasAdministrator, AccountsAfter, PermsAfter, WritesRow
  <1>5. QED
    BY <1>1, <1>2, <1>3, <1>4 DEF IInv

(* Types, who holds the advisory lock, and the strengthening.              *)
THEOREM Invariant == Spec => []IInv
  <1>1. Init => IInv
    BY InitIInv
  <1>2. IInv /\ [Next]_vars => IInv'
    <2>1. SUFFICES ASSUME IInv, Next PROVE IInv'
      BY StutterKeeps
    <2>2. ASSUME NEW c \in Calls, NEW u \in Users,
                 \/ Login(c, u) \/ ChangeRequiredPassword(c, u)
                 \/ CreateUser(c, u) \/ Administrate(c, u) \/ InitialSetup(c, u)
          PROVE  IInv'
      BY <2>1, <2>2, AskingKeeps, CreationKeeps
    <2>3. ASSUME NEW c \in Calls, FindInactive(c) \/ ChangePassword(c) PROVE IInv'
      BY <2>1, <2>3, AskingKeeps
    <2>4. ASSUME NEW c \in Calls, Step(c) PROVE IInv'
      BY <2>1, <2>4, ZeroKeeps, SessionsKeep, WritingKeeps, ProfileKeeps, TriggerKeeps, PublishKeeps
         DEF Step
    <2>5. ASSUME NEW c \in Calls, Abort(c) PROVE IInv'
      BY <2>1, <2>5, AbortKeeps
    <2>6. ASSUME NEW p \in Copies, Logout(p) PROVE IInv'
      BY <2>1, <2>6, SessionsKeep
    <2>7. QED
      BY <2>1, <2>2, <2>3, <2>4, <2>5, <2>6 DEF Next
  <1>3. QED
    BY <1>1, <1>2, PTL DEF Spec

(* The state and the lock are what they should be.                         *)
THEOREM TypeCorrect == Spec => []TypeOK
  <1>1. IInv => TypeOK
    BY DEF IInv, Types, LockHeld, TypeOK
  <1>2. QED
    BY <1>1, Invariant, PTL

(* The deferred trigger (migrations/001_core_users.up.sql:38) leaves an     *)
(* active administrator, however many transactions race.                   *)
THEOREM AdministratorStays == Spec => []AdministratorRemains
  <1>1. IInv => AdministratorRemains
    BY DEF IInv
  <1>2. QED
    BY <1>1, Invariant, PTL

(* Every account that wrong passwords lock is audited in the same commit   *)
(* (user_repo.go, IncrementFailedLoginAttemptsWithOutbox).                 *)
THEOREM LocksAreAudited == Spec => LockIsAudited
  <1> DEFINE Audited(u) ==
        account[u].active =>
          /\ account[u].failed < FailLimit
          /\ ~account'[u].active /\ account'[u].failed # account[u].failed
             => audit'[u] = audit[u] + 1
  <1>1. ASSUME IInv, [Next]_vars, NEW u \in Users PROVE Audited(u)
    <2>1. account[u].active => account[u].failed < FailLimit /\ account[u].exists
      BY <1>1 DEF IInv, ActiveIsBelow, AccountsExist
    <2>2. account \in [Users -> Account]
      BY <1>1 DEF IInv, Types
    <2>3. CASE UNCHANGED account
      BY <2>1, <2>3
    <2>4. ASSUME NEW c \in Calls, ResetFailed(c) \/ SetPassword(c) PROVE Audited(u)
      <3>1. account' = [account EXCEPT ![call[c].user].failed = 0] /\ account[u] \in Account
        BY <2>2, <2>4 DEF ResetFailed, SetPassword
      <3>2. account'[u].active = account[u].active
        BY <2>2, <3>1 DEF Account
      <3>3. QED
        BY <2>1, <3>2
    <2>5. ASSUME NEW c \in Calls, NEW v \in Users, CreateUser(c, v) \/ InitialSetup(c, v) PROVE Audited(u)
      BY <2>1, <2>2, <2>5 DEF CreateUser, InitialSetup, NewAccount
    <2>6. ASSUME NEW c \in Calls, Publish(c) PROVE Audited(u)
      <3>1. CASE WritesRow(c) /\ call[c].user = u
        <4>1. account'[u] = call[c].row
          BY <2>2, <2>6, <3>1 DEF Publish, AccountsAfter
        <4>2. LocksOut(c) => audit'[u] = audit[u] + 1
          BY <1>1, <2>6, <3>1 DEF Publish, IInv, Types
        <4>3. QED
          BY <1>1, <2>1, <3>1, <4>1, <4>2, GoodRow DEF LocksOut
      <3>2. CASE ~(WritesRow(c) /\ call[c].user = u)
        BY <2>1, <2>2, <2>6, <3>2 DEF Publish, AccountsAfter
      <3>3. QED
        BY <3>1, <3>2
    <2>7. Next => \/ UNCHANGED account
                  \/ \E c \in Calls :
                       \/ ResetFailed(c) \/ SetPassword(c) \/ Publish(c)
                       \/ \E v \in Users : CreateUser(c, v) \/ InitialSetup(c, v)
      BY DEF Next, Step, Login, ChangeRequiredPassword, Administrate, FindInactive, ChangePassword,
             Enter, Revoke, CountFailure, WriteUpdate, BeginClear, Clear, Insert, RunTrigger, Abort,
             Logout, tables
    <2>8. QED
      BY <1>1, <2>3, <2>4, <2>5, <2>6, <2>7 DEF vars
  <1>2. IInv /\ [Next]_vars => [\A u \in Users : Audited(u)]_vars
    BY <1>1
  <1>3. QED
    BY <1>2, Invariant, PTL DEF Spec, LockIsAudited

-----------------------------------------------------------------------------
(* The refreshes of a page, whose rights those of the signed-in user are.  *)

(* The strengthening: one request in flight while the loop runs; what is   *)
(* in flight for the latest version asks the latest question, and what it  *)
(* has read is no older than the last refresh.                             *)
RefreshTypes ==
    /\ changes \in Nat \ {0} /\ asked \in Nat /\ asked <= changes /\ version \in Nat
    /\ mounted \in BOOLEAN /\ accessReady \in BOOLEAN /\ loading \in BOOLEAN
    /\ running \in BOOLEAN /\ pending \in BOOLEAN
    /\ flight # NoFlight =>
         /\ flight \in [version : Nat \ {0}, question : Questions, read : Nat]
         /\ flight.version <= version
    /\ question \in Questions /\ request \in Questions
    /\ doing \in SUBSET Questions /\ outdated \in BOOLEAN

OneInFlight == (running <=> flight # NoFlight) /\ (pending => running)

FlightIsFresh ==
    flight # NoFlight /\ Current =>
        flight.question = request /\ (flight.read # Unread => flight.read >= asked)

LatestIsWanted == mounted /\ accessReady => outdated \/ request = question

(* Actions begin once the rights are known.                                *)
ReadyToAct == doing # {} => accessReady

RefreshInv ==
    /\ RefreshTypes /\ OneInFlight /\ FlightIsFresh /\ LatestIsWanted /\ ReadyToAct
    /\ ShowsWhatWasAskedLast /\ AnswerIsUnderWay

(* A new flight has read nothing.                                          *)
LEMMA NewFlight ==
    ASSUME NEW v \in Nat \ {0}, NEW q \in Questions
    PROVE  /\ Flight(v, q) # NoFlight
           /\ Flight(v, q) \in [version : Nat \ {0}, question : Questions, read : Nat]
           /\ Flight(v, q).version = v /\ Flight(v, q).question = q /\ Flight(v, q).read = Unread
  <1>1. Flight(v, q).version = v /\ Flight(v, q).question = q /\ Flight(v, q).read = Unread
    BY DEF Flight
  <1>2. Flight(v, q) # NoFlight
    BY <1>1 DEF NoFlight
  <1>3. Flight(v, q) \in [version : Nat \ {0}, question : Questions, read : Nat]
    BY DEF Flight, Unread
  <1>4. QED
    BY <1>1, <1>2, <1>3

(* A refresh is in flight, or will be when what is in flight has ended.    *)
LEMMA LoadStep ==
    ASSUME RefreshInv, NEW q \in Questions, Load(q), accessReady', UNCHANGED mounted,
           question' \in Questions, doing' \in SUBSET Questions
    PROVE  RefreshInv'
  <1> USE DEF RefreshInv, RefreshTypes
  <1>1. /\ loading' /\ request' = q /\ version' = version + 1 /\ pending' = running
        /\ asked' = changes /\ UNCHANGED <<changes, shown, failed>>
        /\ outdated' = (q # question') /\ outdated' \in BOOLEAN /\ loading' \in BOOLEAN
    BY DEF Load, PendingOnceMore
  <1>2. version' \in Nat \ {0} /\ version' > version
    BY <1>1
  <1>3. CASE running
    <2>1. UNCHANGED <<running, flight>> /\ flight # NoFlight /\ pending'
      BY <1>1, <1>3 DEF Load, OneInFlight
    <2>2. flight'.version <= version' /\ flight'.version # version'
      BY <1>2, <2>1
    <2>3. RefreshTypes'
      <3>1. pending' \in BOOLEAN /\ accessReady' \in BOOLEAN
        BY <1>1
      <3>2. flight' # NoFlight =>
              /\ flight' \in [version : Nat \ {0}, question : Questions, read : Nat]
              /\ flight'.version <= version'
        BY <2>1, <2>2
      <3>3. asked' \in Nat /\ asked' <= changes'
        BY <1>1
      <3>4. QED
        BY <1>1, <1>2, <2>1, <3>1, <3>2, <3>3
    <2>4. OneInFlight' /\ FlightIsFresh' /\ LatestIsWanted'
      BY <1>1, <1>3, <2>1, <2>2 DEF OneInFlight, FlightIsFresh, LatestIsWanted, Current
    <2>5. ShowsWhatWasAskedLast' /\ AnswerIsUnderWay'
      BY <1>1, <2>1 DEF ShowsWhatWasAskedLast, AnswerIsUnderWay
    <2>6. QED
      BY <2>3, <2>4, <2>5 DEF ReadyToAct
  <1>4. CASE ~running
    <2>1. running' /\ flight' = Flight(version', q) /\ ~pending'
      BY <1>1, <1>4 DEF Load
    <2>2. /\ flight' # NoFlight /\ flight'.version = version' /\ flight'.question = q
          /\ flight'.read = Unread
          /\ flight' \in [version : Nat \ {0}, question : Questions, read : Nat]
      BY <1>2, <2>1, NewFlight
    <2>3. running' \in BOOLEAN /\ pending' \in BOOLEAN
      BY <1>1, <1>4 DEF Load
    <2>4. RefreshTypes'
      BY <1>1, <1>2, <2>2, <2>3
    <2>5. OneInFlight' /\ FlightIsFresh' /\ LatestIsWanted'
      BY <1>1, <2>1, <2>2 DEF OneInFlight, FlightIsFresh, LatestIsWanted
    <2>6. ShowsWhatWasAskedLast' /\ AnswerIsUnderWay'
      BY <1>1, <2>2 DEF ShowsWhatWasAskedLast, AnswerIsUnderWay, Current
    <2>7. QED
      BY <2>4, <2>5, <2>6 DEF ReadyToAct
  <1>5. QED
    BY <1>3, <1>4

(* The end of a turn: the page has the answer it waits for, or the loop    *)
(* goes on with the latest request.                                        *)
LEMMA TurnStep ==
    ASSUME RefreshInv, flight # NoFlight, NextTurn,
           Current =>
             /\ ~loading' /\ loading' \in BOOLEAN
             /\ \/ failed'
                \/ /\ shown' = [question |-> flight.question, changes |-> flight.read]
                   /\ flight.read # Unread,
           ~Current => UNCHANGED <<shown, loading, failed>>
    PROVE  RefreshInv'
  <1> USE DEF RefreshInv, RefreshTypes
  <1>1. /\ UNCHANGED <<changes, question, accessReady, mounted, doing, version, request, asked,
                        outdated>>
        /\ ~pending' /\ pending' \in BOOLEAN
    BY DEF NextTurn, hookVars
  <1>2. LatestIsWanted'
    BY <1>1 DEF LatestIsWanted
  <1>3. ShowsWhatWasAskedLast'
    <2>1. CASE Current
      <3>1. flight.read # Unread => flight.read >= asked /\ flight.question = request
        BY <2>1 DEF FlightIsFresh
      <3>2. shown' = [question |-> flight.question, changes |-> flight.read] =>
              shown'.question = flight.question /\ shown'.changes = flight.read
        OBVIOUS
      <3>3. QED
        BY <1>1, <2>1, <3>1, <3>2 DEF ShowsWhatWasAskedLast, LatestIsWanted
    <2>2. CASE ~Current
      BY <1>1, <2>2 DEF ShowsWhatWasAskedLast
    <2>3. QED
      BY <2>1, <2>2
  <1>4. CASE pending
    <2>1. flight' = Flight(version, request) /\ UNCHANGED running /\ running
      BY <1>4 DEF NextTurn, OneInFlight
    <2>2. version \in Nat \ {0}
      OBVIOUS
    <2>3. /\ flight' # NoFlight /\ flight'.version = version /\ flight'.question = request
          /\ flight'.read = Unread
          /\ flight' \in [version : Nat \ {0}, question : Questions, read : Nat]
      BY <2>1, <2>2, NewFlight
    <2>4. loading' \in BOOLEAN
      OBVIOUS
    <2>5. RefreshTypes'
      BY <1>1, <2>1, <2>3, <2>4
    <2>6. OneInFlight' /\ FlightIsFresh' /\ AnswerIsUnderWay'
      BY <1>1, <2>1, <2>3 DEF OneInFlight, FlightIsFresh, AnswerIsUnderWay, Current
    <2>7. QED
      BY <1>1, <1>2, <1>3, <2>5, <2>6 DEF ReadyToAct
  <1>5. CASE ~pending
    <2>1. flight' = NoFlight /\ ~running' /\ running' \in BOOLEAN
      BY <1>5 DEF NextTurn
    <2>2. loading' \in BOOLEAN
      OBVIOUS
    <2>3. RefreshTypes'
      BY <1>1, <2>1, <2>2
    <2>4. OneInFlight' /\ FlightIsFresh'
      BY <1>1, <2>1 DEF OneInFlight, FlightIsFresh
    <2>5. AnswerIsUnderWay'
      BY <1>1, <1>5 DEF AnswerIsUnderWay
    <2>6. QED
      BY <1>1, <1>2, <1>3, <2>3, <2>4, <2>5 DEF ReadyToAct
  <1>6. QED
    BY <1>4, <1>5

(* What only begins or ends an action asks for nothing.                    *)
LEMMA QuietStep ==
    ASSUME RefreshInv, doing' \in SUBSET Questions, ReadyToAct',
           UNCHANGED <<changes, question, accessReady, mounted, loading, shown, running, pending,
                       version, request, flight, asked, outdated, failed>>
    PROVE  RefreshInv'
  BY DEF RefreshInv, RefreshTypes, OneInFlight, FlightIsFresh, LatestIsWanted,
         ShowsWhatWasAskedLast, AnswerIsUnderWay, Current

(* Every step keeps the invariant.                                         *)
LEMMA NextRefreshInv == RefreshInv /\ [RefreshNext]_refreshVars => RefreshInv'
  <1> SUFFICES ASSUME RefreshInv, [RefreshNext]_refreshVars PROVE RefreshInv'
    OBVIOUS
  <1>1. CASE GetReady
    <2>1. /\ Load(question) /\ accessReady' /\ UNCHANGED <<question, mounted, doing>>
          /\ question \in Questions /\ doing \in SUBSET Questions
      BY <1>1 DEF GetReady, RefreshInv, RefreshTypes
    <2>2. QED
      BY <2>1, LoadStep
  <1>2. ASSUME NEW q \in Questions, AskFor(q) PROVE RefreshInv'
    <2>1. CASE accessReady
      <3>1. /\ Load(q) /\ question' = q /\ accessReady' /\ UNCHANGED <<mounted, doing>>
            /\ doing \in SUBSET Questions
        BY <1>2, <2>1 DEF AskFor, RefreshInv, RefreshTypes
      <3>2. QED
        BY <3>1, LoadStep
    <2>2. CASE ~accessReady
      <3>1. /\ question' = q /\ ~accessReady'
            /\ UNCHANGED <<changes, loading, shown, running, pending, version, request, flight,
                           asked, outdated, failed, accessReady, mounted, doing>>
        BY <1>2, <2>2 DEF AskFor
      <3>2. RefreshTypes' /\ OneInFlight' /\ FlightIsFresh' /\ AnswerIsUnderWay'
        BY <3>1 DEF RefreshInv, RefreshTypes, OneInFlight, FlightIsFresh, AnswerIsUnderWay, Current
      <3>3. QED
        BY <3>1, <3>2 DEF RefreshInv, LatestIsWanted, ShowsWhatWasAskedLast, ReadyToAct
    <2>3. QED
      BY <2>1, <2>2
  <1>3. CASE LoadAgain
    <2>1. /\ Load(question) /\ accessReady' /\ UNCHANGED <<question, mounted, doing>>
          /\ question \in Questions /\ doing \in SUBSET Questions
      BY <1>3 DEF LoadAgain, hookVars, RefreshInv, RefreshTypes
    <2>2. QED
      BY <2>1, LoadStep
  <1>4. CASE Leave
    <2> USE DEF RefreshInv, RefreshTypes
    <2>1. /\ ~mounted' /\ mounted' \in BOOLEAN /\ ~pending' /\ pending' \in BOOLEAN
          /\ version' = version + 1
          /\ UNCHANGED <<changes, question, accessReady, doing, loading, shown, running, request,
                         flight, asked, outdated, failed>>
      BY <1>4 DEF Leave
    <2>2. version' \in Nat /\ (flight # NoFlight => flight.version <= version' /\ flight.version # version')
      BY <2>1
    <2>3. RefreshTypes'
      BY <2>1, <2>2
    <2>4. OneInFlight' /\ FlightIsFresh'
      BY <2>1, <2>2 DEF OneInFlight, FlightIsFresh, Current
    <2>5. LatestIsWanted' /\ ShowsWhatWasAskedLast' /\ AnswerIsUnderWay'
      BY <2>1 DEF LatestIsWanted, ShowsWhatWasAskedLast, AnswerIsUnderWay
    <2>6. QED
      BY <2>1, <2>3, <2>4, <2>5 DEF ReadyToAct
  <1>5. CASE Change
    <2> USE DEF RefreshInv, RefreshTypes
    <2>1. /\ changes' = changes + 1
          /\ UNCHANGED <<question, accessReady, mounted, doing, loading, shown, running, pending,
                         version, request, flight, asked, outdated, failed>>
      BY <1>5 DEF Change, hookVars
    <2>2. RefreshTypes'
      BY <2>1
    <2>3. OneInFlight' /\ FlightIsFresh' /\ LatestIsWanted' /\ ShowsWhatWasAskedLast' /\ AnswerIsUnderWay'
      BY <2>1 DEF OneInFlight, FlightIsFresh, LatestIsWanted, ShowsWhatWasAskedLast, AnswerIsUnderWay,
                  Current
    <2>4. QED
      BY <2>1, <2>2, <2>3 DEF ReadyToAct
  <1>6. CASE Read
    <2> USE DEF RefreshInv, RefreshTypes
    <2>1. /\ flight # NoFlight /\ flight' = [flight EXCEPT !.read = changes]
          /\ UNCHANGED <<changes, question, accessReady, mounted, doing, loading, shown, running,
                         pending, version, request, asked, outdated, failed>>
      BY <1>6 DEF Read, hookVars
    <2>2. /\ flight' \in [version : Nat \ {0}, question : Questions, read : Nat]
          /\ flight'.version = flight.version /\ flight'.question = flight.question
          /\ flight'.read = changes
      BY <2>1
    <2>3. flight' # NoFlight
      BY <2>2 DEF NoFlight
    <2>4. RefreshTypes'
      BY <2>1, <2>2, <2>3
    <2>5. FlightIsFresh'
      BY <2>1, <2>2 DEF FlightIsFresh, Current
    <2>6. OneInFlight' /\ LatestIsWanted' /\ ShowsWhatWasAskedLast' /\ AnswerIsUnderWay'
      BY <2>1, <2>2, <2>3 DEF OneInFlight, LatestIsWanted, ShowsWhatWasAskedLast, AnswerIsUnderWay,
                              Current
    <2>7. QED
      BY <2>1, <2>4, <2>5, <2>6 DEF ReadyToAct
  <1>7. CASE Succeed
    <2>1. /\ flight # NoFlight /\ flight.read # Unread /\ NextTurn
          /\ IF Current
             THEN shown' = [question |-> flight.question, changes |-> flight.read] /\ loading' = FALSE
             ELSE UNCHANGED <<shown, loading, failed>>
      BY <1>7 DEF Succeed
    <2>2. QED
      BY <2>1, TurnStep
  <1>8. CASE GiveUp
    <2>1. /\ flight # NoFlight /\ NextTurn
          /\ Current => ~loading' /\ loading' \in BOOLEAN /\ failed'
          /\ ~Current => UNCHANGED <<shown, loading, failed>>
      BY <1>8 DEF GiveUp
    <2>2. QED
      BY <2>1, TurnStep
  <1>9. CASE Do
    <2>1. /\ doing' = doing \union {question}
          /\ UNCHANGED <<changes, question, accessReady, mounted, loading, shown, running, pending,
                         version, request, flight, asked, outdated, failed>>
      BY <1>9 DEF Do
    <2>2. doing' \in SUBSET Questions /\ ReadyToAct'
      BY <1>9, <2>1 DEF Do, RefreshInv, RefreshTypes, ReadyToAct
    <2>3. QED
      BY <2>1, <2>2, QuietStep
  <1>10. ASSUME NEW q \in Questions, Done(q) PROVE RefreshInv'
    <2>1. /\ doing' \in SUBSET Questions
          /\ UNCHANGED <<question, accessReady, mounted>> /\ question \in Questions
      BY <1>10 DEF Done, RefreshInv, RefreshTypes
    <2>2. CASE Load(q)
      <3>1. CASE accessReady
        BY <2>1, <2>2, <3>1, LoadStep
      <3>2. QED
        BY <3>1, <1>10 DEF Done, RefreshInv, ReadyToAct
    <2>3. CASE ~Load(q)
      <3>1. UNCHANGED <<changes, loading, shown, running, pending, version, request, flight,
                        asked, outdated, failed>>
        BY <1>10, <2>3 DEF Done
      <3>2. ReadyToAct'
        BY <1>10, <3>1, <2>1 DEF Done, RefreshInv, ReadyToAct
      <3>3. QED
        BY <2>1, <3>1, <3>2, QuietStep
    <2>4. QED
      BY <2>2, <2>3
  <1>11. CASE UNCHANGED refreshVars
    <2>1. doing' \in SUBSET Questions /\ ReadyToAct'
      BY <1>11 DEF refreshVars, hookVars, RefreshInv, RefreshTypes, ReadyToAct
    <2>2. QED
      BY <1>11, <2>1, QuietStep DEF refreshVars, hookVars
  <1>12. QED
    BY <1>1, <1>2, <1>3, <1>4, <1>5, <1>6, <1>7, <1>8, <1>9, <1>10, <1>11 DEF RefreshNext

(* Whatever bursts of refreshes, commits, failures and answers there are,  *)
(* for any documents or filters: one request is in flight and asks what    *)
(* was asked last, or one more follows.                                    *)
THEOREM RefreshesCorrect == RefreshSpec => []RefreshInv
  <1>1. RefreshInit => RefreshInv
    <2> SUFFICES ASSUME RefreshInit PROVE RefreshInv
      OBVIOUS
    <2>1. RefreshTypes
      <3>1. changes = 1 /\ asked = 1 /\ version = 0 /\ flight = NoFlight
        BY DEF RefreshInit
      <3>2. /\ mounted \in BOOLEAN /\ accessReady \in BOOLEAN /\ loading \in BOOLEAN
            /\ running \in BOOLEAN /\ pending \in BOOLEAN
            /\ question \in Questions /\ request \in Questions
            /\ doing \in SUBSET Questions /\ outdated \in BOOLEAN
        BY DEF RefreshInit
      <3>3. QED
        BY <3>1, <3>2 DEF RefreshTypes
    <2>2. OneInFlight /\ FlightIsFresh /\ LatestIsWanted /\ ReadyToAct /\ ShowsWhatWasAskedLast /\ AnswerIsUnderWay
      BY DEF RefreshInit, OneInFlight, FlightIsFresh, LatestIsWanted, ShowsWhatWasAskedLast,
             AnswerIsUnderWay, ReadyToAct
    <2>3. QED
      BY <2>1, <2>2 DEF RefreshInv
  <1>2. QED
    BY <1>1, NextRefreshInv, PTL DEF RefreshSpec

(* A page that has settled shows what it asked for last, no older than     *)
(* when it asked.                                                          *)
THEOREM SettledPagesAreFresh == RefreshSpec => []ShowsWhatWasAskedLast
  <1>1. RefreshInv => ShowsWhatWasAskedLast
    BY DEF RefreshInv
  <1>2. QED
    BY <1>1, RefreshesCorrect, PTL

(* A page that is loading waits for an answer that it will take.           *)
THEOREM NoRefreshIsLost == RefreshSpec => []AnswerIsUnderWay
  <1>1. RefreshInv => AnswerIsUnderWay
    BY DEF RefreshInv
  <1>2. QED
    BY <1>1, RefreshesCorrect, PTL
=============================================================================
