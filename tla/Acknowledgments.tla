--------------------------- MODULE Acknowledgments ---------------------------
(***************************************************************************)
(* Acknowledgment sheets (services/acknowledgment_service.go,              *)
(* repository/acknowledgment_repo.go): a clerk sends a document to people, *)
(* each of them, or a substitute in their place, confirms having read it,  *)
(* and the last confirmation completes the sheet.                          *)
(*                                                                         *)
(* A confirmation is one READ COMMITTED transaction of several statements, *)
(* each of which sees what is committed by then and its own changes.  Calls*)
(* of different users overlap between any two statements.  Access is the   *)
(* DocumentAccess of the same users, with the acknowledgers taken from the *)
(* rows of this module; the rights themselves do not change here.          *)
(***************************************************************************)
EXTENDS Naturals, FiniteSets

CONSTANTS
    Users, Documents, Kinds, KindOf, Actions,
    Sheets,             \* ids; an id is used for one sheet only
    Calls,              \* transactions that may be open together
    Teams,              \* bound: the people a sheet is sent to
    RightsSets,         \* bound: the rights in force during a behaviour
    ParticipantSets,
    ReplacementSets     \* bound: sets of <<principal, substitute>> pairs in force

NoSheet == [document |-> "none"]
Sheet == [document : Documents, creator : Users, completed : BOOLEAN]

\* A row of acknowledgment_users, by which of its two times are set.
Marks == {"none", "pending", "viewed", "confirmed"}
Unconfirmed == {"pending", "viewed"}

Idle == [at |-> "idle"]
Call == [at : {"resolved", "locked", "counted"}, user : Users, sheet : Sheets,
         subject : Users, told : SUBSET Users, completes : BOOLEAN]
        \cup [at : {"deleting"}, user : Users, sheet : Sheets]

ASSUME AcknowledgmentConstants ==
    /\ KindOf \in [Documents -> Kinds]
    /\ IsFiniteSet(Users)
    /\ {"read", "acknowledge"} \subseteq Actions
    /\ {} \notin Teams /\ Teams \subseteq SUBSET Users
    /\ \A rights \in RightsSets : rights \subseteq Users \X Kinds \X Actions
    /\ ParticipantSets \subseteq SUBSET Users
    /\ \A pairs \in ReplacementSets :
           /\ pairs \subseteq Users \X Users
           /\ \A p, q \in pairs : p[1] = q[1] => p = q

VARIABLES
    sheets,             \* acknowledgments
    marks,              \* acknowledgment_users, as [Sheets -> [Users -> Marks]]
    used,               \* ids given out so far
    calls,
    journal,            \* keys of the journal events in the outbox
    told,               \* keys of the user events in the outbox
    participants, grants, substitutions     \* the rights, see DocumentAccess

rights == <<participants, grants, substitutions>>
tables == <<sheets, marks, used>>
outbox == <<journal, told>>
vars == <<tables, calls, outbox, rights>>

Sent == {s \in Sheets : sheets[s] # NoSheet}
\* A variant for the mutants: only those who are still asked.
OnOpen(s) == {x \in Users : marks[s][x] \in Unconfirmed}

On(s) == {x \in Users : marks[s][x] # "none"}

Access == INSTANCE DocumentAccess WITH
    Departments <- {}, Nomenclatures <- {"index"}, DepartmentGrants <- {},
    NomenclatureOf <- [d \in Documents |-> "index"],
    Profiles <- {}, Windows <- {}, MaxNamed <- 0, LastDay <- 1,
    departmentOf <- [u \in Users |-> "no department"],
    nomenclaturesOf <- [d \in {} |-> {}],
    today <- 1,
    executorsOf <- [d \in Documents |-> {}],
    acknowledgersOf <- [d \in Documents |->
        UNION {On(s) : s \in {t \in Sent : sheets[t].document = d}}]

TypeOK ==
    /\ sheets \in [Sheets -> Sheet \cup {NoSheet}]
    /\ marks \in [Sheets -> [Users -> Marks]]
    /\ Sent \subseteq used /\ used \subseteq Sheets
    /\ calls \in [Calls -> Call \cup {Idle}]
    /\ journal \subseteq Sheets \X {"created", "viewed", "confirmed", "deleted"} \X Users
    /\ told \subseteq Sheets \X {"created", "confirmed"} \X Users \X Users
    /\ participants \subseteq Users
    /\ grants \subseteq Users \X Kinds \X Actions

Init ==
    /\ sheets = [s \in Sheets |-> NoSheet]
    /\ marks = [s \in Sheets |-> [x \in Users |-> "none"]]
    /\ used = {}
    /\ calls = [c \in Calls |-> Idle]
    /\ journal = {}
    /\ told = {}
    /\ participants \in ParticipantSets
    /\ grants \in RightsSets
    /\ \E pairs \in ReplacementSets :
         substitutions = [u \in Users |->
             IF \E s \in Users : <<u, s>> \in pairs
             THEN [substitute |-> CHOOSE s \in Users : <<u, s>> \in pairs,
                   active |-> TRUE, from |-> 0, until |-> 0]
             ELSE Access!NoSubstitution]

-----------------------------------------------------------------------------
(* What the calls ask.                                                     *)

Pending(x) == {s \in Sent : marks[s][x] \in Unconfirmed}

\* A variant for the mutants: any principal on the sheet.
AnswersForNamed(u, s) ==
    LET principals == {p \in Access!ActivePrincipals(u) : p \in On(s)}
    IN  IF principals # {} THEN principals ELSE {u}

\* Whose row a user answers for: an active principal with an unconfirmed row,
\* if there is one, before the user's own.
AnswersFor(u, s) ==
    LET principals == {p \in Access!ActivePrincipals(u) : s \in Pending(p)}
    IN  IF principals # {} THEN principals ELSE {u}

\* A variant for the mutants: the acting user is never told.
RecipientsButActor(u, s) ==
    ({sheets[s].creator} \cup
     {x \in Users : Access!HasPermission(x, KindOf[sheets[s].document], "acknowledge")}) \ {u}

\* The author of the sheet and whoever may send documents of this kind, but not
\* the acting user, unless it is the author.
ConfirmationRecipients(u, s) ==
    {sheets[s].creator}
    \cup ({x \in Users : Access!HasPermission(x, KindOf[sheets[s].document], "acknowledge")} \ {u})

\* The row locks: a confirmation holds its row until it ends, a deletion holds
\* the sheet while its cascade waits for the rows.
RowLocked(s, x) ==
    \E c \in Calls : calls[c].at \in {"locked", "counted"} /\ calls[c].sheet = s /\ calls[c].subject = x
SheetLocked(s) == \E c \in Calls : calls[c].at = "deleting" /\ calls[c].sheet = s

-----------------------------------------------------------------------------
(* The operations.                                                         *)

\* The sheet, its rows and its events are inserted in one transaction.
Create(u, s, d, team) ==
    /\ s \notin used
    /\ Access!RequireDocumentAction(u, d, "acknowledge")
    /\ sheets' = [sheets EXCEPT ![s] = [document |-> d, creator |-> u, completed |-> FALSE]]
    /\ marks' = [marks EXCEPT ![s] = [x \in Users |-> IF x \in team THEN "pending" ELSE "none"]]
    /\ used' = used \cup {s}
    /\ journal' = journal \cup {<<s, "created", u>>}
    /\ told' = told \cup ({s} \X {"created"} \X team \X team)
    /\ UNCHANGED <<calls, rights>>

\* An UPDATE of a row that is not viewed yet; any other row is refused.  The
\* statement waits while a confirmation holds the row.
MarkViewed(u, s, x) ==
    /\ s \in Sent
    /\ x \in AnswersFor(u, s)
    /\ marks[s][x] = "pending"
    /\ ~RowLocked(s, x)
    /\ marks' = [marks EXCEPT ![s][x] = "viewed"]
    /\ journal' = journal \cup {<<s, "viewed", x>>}
    /\ UNCHANGED <<sheets, used, calls, told, rights>>

\* MarkConfirmed of the service, up to its transaction.  A sheet that is gone
\* ends the call.
ResolveConfirmation(c, u, s) ==
    /\ calls[c] = Idle
    /\ s \in Sent
    /\ \E x \in AnswersFor(u, s) :
         calls' = [calls EXCEPT ![c] =
           [at |-> "resolved", user |-> u, sheet |-> s, subject |-> x,
            told |-> ConfirmationRecipients(u, s), completes |-> FALSE]]
    /\ UNCHANGED <<tables, outbox, rights>>

\* The first statement locks the row; a row that is confirmed by now, or is
\* gone, ends the call.
ConfirmRow(c) ==
    LET s == calls[c].sheet
        x == calls[c].subject
    IN  /\ calls[c].at = "resolved"
        /\ ~RowLocked(s, x)
        /\ calls' = [calls EXCEPT ![c] =
             IF s \in Sent /\ marks[s][x] \in Unconfirmed THEN [@ EXCEPT !.at = "locked"] ELSE Idle]
        /\ UNCHANGED <<tables, outbox, rights>>

\* A variant for the mutants: who has looked at the document is done.
RemainingUnseen(s, x) == Cardinality({y \in On(s) \ {x} : marks[s][y] = "pending"})

\* What the COUNT of the transaction sees: the committed rows and its own.
Remaining(s, x) == Cardinality({y \in On(s) \ {x} : marks[s][y] \in Unconfirmed})

\* If nobody remains the sheet is completed, which waits for a deletion that
\* holds it.
CountRemaining(c) ==
    LET s == calls[c].sheet
        last == Remaining(s, calls[c].subject) = 0
    IN  /\ calls[c].at = "locked"
        /\ last => ~SheetLocked(s)
        /\ calls' = [calls EXCEPT ![c].at = "counted", ![c].completes = last]
        /\ UNCHANGED <<tables, outbox, rights>>

\* The journal and user events are enqueued and everything is committed.
Commit(c) ==
    LET s == calls[c].sheet
        x == calls[c].subject
    IN  /\ calls[c].at = "counted"
        /\ marks' = [marks EXCEPT ![s][x] = "confirmed"]
        /\ sheets' = [sheets EXCEPT ![s].completed = @ \/ calls[c].completes]
        /\ journal' = journal \cup {<<s, "confirmed", x>>}
        /\ told' = told \cup ({s} \X {"confirmed"} \X {x} \X calls[c].told)
        /\ calls' = [calls EXCEPT ![c] = Idle]
        /\ UNCHANGED <<used, rights>>

\* A statement fails, the process dies, or PostgreSQL breaks the deadlock of a
\* last confirmation and a deletion: nothing is kept.
Rollback(c) ==
    /\ calls[c].at \in {"locked", "counted", "deleting"}
    /\ calls' = [calls EXCEPT ![c] = Idle]
    /\ UNCHANGED <<tables, outbox, rights>>

\* The DELETE locks the sheet, unless a confirmation is completing it.  (A second
\* deletion finds nothing to delete, and its event has the key of the first.)
BeginDelete(c, u, s) ==
    /\ calls[c] = Idle
    /\ s \in Sent
    /\ Access!RequireDocumentAction(u, sheets[s].document, "acknowledge")
    /\ ~SheetLocked(s)
    /\ \A b \in Calls : calls[b].at = "counted" /\ calls[b].sheet = s => ~calls[b].completes
    /\ calls' = [calls EXCEPT ![c] = [at |-> "deleting", user |-> u, sheet |-> s]]
    /\ UNCHANGED <<tables, outbox, rights>>

\* Its cascade waits for the rows that confirmations hold.
Delete(c) ==
    LET s == calls[c].sheet
    IN  /\ calls[c].at = "deleting"
        /\ \A x \in Users : ~RowLocked(s, x)
        /\ sheets' = [sheets EXCEPT ![s] = NoSheet]
        /\ marks' = [marks EXCEPT ![s] = [x \in Users |-> "none"]]
        /\ journal' = journal \cup {<<s, "deleted", calls[c].user>>}
        /\ calls' = [calls EXCEPT ![c] = Idle]
        /\ UNCHANGED <<used, told, rights>>

Next ==
    \/ \E u \in Users, s \in Sheets, d \in Documents, team \in Teams : Create(u, s, d, team)
    \/ \E u, x \in Users, s \in Sheets : MarkViewed(u, s, x)
    \/ \E c \in Calls :
         \/ \E u \in Users, s \in Sheets : ResolveConfirmation(c, u, s) \/ BeginDelete(c, u, s)
         \/ ConfirmRow(c)
         \/ CountRemaining(c)
         \/ Commit(c)
         \/ Rollback(c)
         \/ Delete(c)

Spec == Init /\ [][Next]_vars

-----------------------------------------------------------------------------
(* What a user is shown.                                                   *)

\* GetPendingForCurrentUser: the user's own and the principals' open sheets.
PendingForCurrentUser(u) ==
    IF Access!RequireDomainRead(u) THEN UNION {Pending(x) : x \in Access!Subjects(u)} ELSE {}

\* GetAllActive: the sheets of the kinds the user may send, as far as the user
\* can read their documents.
AllActive(u) ==
    LET kinds == Access!KindsWithAction(u, "acknowledge")
        active == {s \in Sent : ~sheets[s].completed /\ KindOf[sheets[s].document] \in kinds}
        readable == Access!ResolveReadableDocuments(u, {sheets[s].document : s \in active})
    IN  {s \in active : sheets[s].document \in readable}

\* GetList: all sheets of one document.
SheetsOf(u, d) ==
    IF Access!RequireDocumentAction(u, d, "acknowledge") THEN {s \in Sent : sheets[s].document = d} ELSE {}

-----------------------------------------------------------------------------
(* Properties.                                                             *)

\* Nobody is forgotten: while one person has not confirmed, the sheet is in the
\* list of active sheets of everybody who controls the document, whatever
\* confirmations overlapped, and in the pending list of that person.  Excepted
\* from the latter is who is no participant: that list is for participants only.
NobodyIsForgotten ==
    \A s \in Sent, x \in Users :
        marks[s][x] \in Unconfirmed =>
            /\ x \in participants => s \in PendingForCurrentUser(x)
            /\ \A u \in Users : s \in SheetsOf(u, sheets[s].document) => s \in AllActive(u)

\* What is shown as pending can be answered: the row that a call of this user
\* would confirm is an unconfirmed one.
ShownIsAnswerable ==
    \A u \in Users : \A s \in PendingForCurrentUser(u) :
        \A x \in AnswersFor(u, s) : marks[s][x] \in Unconfirmed

\* Sheets and outbox tell the same story: the journal records exactly the
\* confirmations there are, each after it was asked for, and the author of the
\* sheet is told of each.
ConfirmedIsRecorded ==
    \A s \in Sent, x \in Users :
        /\ marks[s][x] = "confirmed" <=> <<s, "confirmed", x>> \in journal
        /\ marks[s][x] = "confirmed" =>
             /\ <<s, "created", x, x>> \in told
             /\ <<s, "confirmed", x, sheets[s].creator>> \in told

\* Whoever is asked can read what is to be acknowledged, before and after the
\* confirmation, and so can the substitute; deleting the only sheet of a
\* document withdraws this right.  Excepted is who is neither a participant nor
\* stands in for anybody: to be asked gives such a user no right to read.
AskedCanRead ==
    \A u \in Users, d \in Documents :
        LET asked == \E s \in Sent, x \in Access!Subjects(u) : sheets[s].document = d /\ marks[s][x] # "none"
        IN  /\ asked /\ (u \in participants \/ Access!Subjects(u) # {u}) => Access!RequireReadResolved(u, d)
            /\ Access!RequireReadResolved(u, d) => asked \/ Access!HasPermission(u, KindOf[d], "read")

\* "When everybody has confirmed, completed_at is set"
\* (acknowledgment_repo.go:453).
AllConfirmedIsCompleted ==
    \A s \in Sent : (\A x \in Users : marks[s][x] \in {"none", "confirmed"}) => sheets[s].completed
=============================================================================
