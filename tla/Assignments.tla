---------------------------- MODULE Assignments ----------------------------
(***************************************************************************)
(* Assignments on documents (services/assignment_service.go,               *)
(* repository/assignment_repo.go).  Editing, reporting, accepting and      *)
(* deleting all read the assignment with two queries, judge what they read,*)
(* and then write the whole row back in one transaction together with its  *)
(* outbox events.  Calls of different users overlap.                       *)
(*                                                                         *)
(* Access is the DocumentAccess of the same users, with the executors taken*)
(* from the rows of this module.  The rights themselves do not change here.*)
(***************************************************************************)
EXTENDS Naturals, FiniteSets

CONSTANTS
    Users, Documents, Kinds, KindOf, Actions,
    Assignments,        \* ids; an id is used for one assignment only
    Calls,              \* calls that may be in flight together
    Requests,           \* bound: the changes that are asked for, and by whom
    Teams,              \* bound: executor and co-executors of a new assignment
    RightsSets,         \* bound: the rights in force during a behaviour
    ParticipantSets,
    Replacements        \* <<principal, substitute>> pairs that may be in force

Statuses == {"new", "in_progress", "completed", "returned", "finished"}
Reports == {"", "text"}

Row == [document : Documents, executor : Users, coExecutors : SUBSET Users,
        status : Statuses, report : Reports, completed : BOOLEAN]
NoRow == [status |-> "no row"]

\* A change as the page asks for it: "update" carries a team, "status" a target
\* and a report, "delete" nothing.
Request == [op : {"update"}, executor : Users, coExecutors : SUBSET Users]
           \cup [op : {"status"}, status : Statuses, report : Reports]
           \cup [op : {"delete"}]

Idle == [phase |-> "idle"]
Reading == [phase : {"row", "read"}, user : Users, id : Assignments,
            request : Request, row : Row]
Writing == [phase : {"write"}, id : Assignments, action : {"updated", "status", "deleted"},
            row : Row, recipients : SUBSET Users]

ASSUME AssignmentConstants ==
    /\ IsFiniteSet(Users)
    /\ KindOf \in [Documents -> Kinds]
    /\ Requests \subseteq Users \X Request
    /\ Teams \subseteq Users \X SUBSET Users
    /\ \A rights \in RightsSets : rights \subseteq Users \X Kinds \X Actions
    /\ ParticipantSets \subseteq SUBSET Users
    /\ Replacements \subseteq Users \X Users

VARIABLES
    assignments,        \* the table, co-executors included
    used,               \* ids given out so far
    calls,
    told,               \* recipients of the user events in the outbox
    journal,            \* <<assignment, action>> of the journal events in the outbox
    participants, grants, substitutions     \* the rights, see DocumentAccess

rights == <<participants, grants, substitutions>>
vars == <<assignments, used, calls, told, journal, rights>>

Rows == {a \in Assignments : assignments[a] # NoRow}

Access == INSTANCE DocumentAccess WITH
    Departments <- {}, Nomenclatures <- {"index"}, DepartmentGrants <- {},
    NomenclatureOf <- [d \in Documents |-> "index"],
    Profiles <- {}, Windows <- {}, MaxNamed <- 0, LastDay <- 1,
    departmentOf <- [u \in Users |-> "no department"],
    nomenclaturesOf <- [d \in {} |-> {}],
    today <- 1,
    executorsOf <- [d \in Documents |->
        UNION {{assignments[a].executor} \cup assignments[a].coExecutors :
               a \in {b \in Rows : assignments[b].document = d}}],
    acknowledgersOf <- [d \in Documents |-> {}]

TypeOK ==
    /\ assignments \in [Assignments -> Row \cup {NoRow}]
    /\ used \subseteq Assignments /\ Rows \subseteq used
    /\ calls \in [Calls -> Reading \cup Writing \cup {Idle}]
    /\ told \subseteq Assignments \X Users
    /\ journal \subseteq Assignments \X {"created", "updated", "status", "deleted"}
    /\ participants \subseteq Users
    /\ grants \subseteq Users \X Kinds \X Actions

Init ==
    /\ assignments = [a \in Assignments |-> NoRow]
    /\ used = {}
    /\ calls = [c \in Calls |-> Idle]
    /\ told = {}
    /\ journal = {}
    /\ participants \in ParticipantSets
    /\ grants \in RightsSets
    /\ \E pairs \in {{}} \cup {{r} : r \in Replacements} :
         substitutions = [u \in Users |->
             IF \E s \in Users : <<u, s>> \in pairs
             THEN [substitute |-> CHOOSE s \in Users : <<u, s>> \in pairs,
                   active |-> TRUE, from |-> 0, until |-> 0]
             ELSE Access!NoSubstitution]

-----------------------------------------------------------------------------
(* The policy of status changes.                                           *)

ExecutorTransitions ==
    {<<"new", "in_progress">>, <<"new", "completed">>, <<"in_progress", "completed">>,
     <<"returned", "in_progress">>, <<"returned", "completed">>}

ManagerTransitions == {<<"completed", "finished">>, <<"completed", "returned">>}

CanManage(u, row) == Access!RequireDocumentAction(u, row.document, "assign")

CanActAsNamed(u, row) == Access!Subjects(u) \cap ({row.executor} \cup row.coExecutors) # {}

\* The executor, or the substitute of the executor; co-executors do not report.
CanActAsExecutor(u, row) ==
    u = row.executor \/ Access!IsActiveSubstitute(u, row.executor)

AllowedTransition(u, row, status) ==
    \/ CanManage(u, row) /\ <<row.status, status>> \in ManagerTransitions
    \/ CanActAsExecutor(u, row) /\ <<row.status, status>> \in ExecutorTransitions

\* A report is required for "completed" and a reason for "returned".
ReportGiven(status, report) == status \in {"completed", "returned"} => report # ""

WithStatusReset(row, status, report) ==
    [row EXCEPT !.status = status, !.report = report, !.completed = status = "completed"]

\* The row after a status change: acceptance keeps the report and the time of
\* completion of the row it judged, other changes reset them.
WithStatus(row, status, report) ==
    [row EXCEPT !.status = status,
                !.report = IF status = "finished" /\ report = "" THEN row.report ELSE report,
                !.completed = CASE status = "completed" -> TRUE
                                [] status = "finished" -> row.completed
                                [] OTHER -> FALSE]

\* Editing replaces the team and writes the status, report and time of
\* completion that were read.
WithTeam(row, executor, coExecutors) ==
    [row EXCEPT !.executor = executor, !.coExecutors = coExecutors]

Allowed(call) ==
    LET row == call.row
        request == call.request
    IN  CASE request.op = "status" ->
               /\ AllowedTransition(call.user, row, request.status)
               /\ ReportGiven(request.status, request.report)
          [] OTHER -> CanManage(call.user, row) /\ row.status # "finished"

Changed(call) ==
    CASE call.request.op = "status" -> WithStatus(call.row, call.request.status, call.request.report)
      [] call.request.op = "update" -> WithTeam(call.row, call.request.executor, call.request.coExecutors)
      [] OTHER -> call.row

Team(row) == {row.executor} \cup row.coExecutors

RecipientsOfStatus(request, row) ==
    IF request.op = "status" /\ request.status # "in_progress"
    THEN Team(row) \cup {u \in Users : Access!HasPermission(u, KindOf[row.document], "assign")}
    ELSE {}

\* The recipients of the user events of a change: whoever may accept it for
\* a report, the team for an edit, an acceptance and a return, nobody otherwise.
Recipients(request, row) ==
    CASE request.op = "update" -> Team(row)
      [] request.op = "status" /\ request.status = "completed" ->
           {u \in Users : Access!HasPermission(u, KindOf[row.document], "assign")}
      [] request.op = "status" /\ request.status \in {"finished", "returned"} -> Team(row)
      [] OTHER -> {}

-----------------------------------------------------------------------------
(* The calls.                                                              *)

\* The row, its co-executors and the events are inserted in one transaction.
Create(u, a, d, team) ==
    /\ a \notin used
    /\ Access!RequireDocumentAction(u, d, "assign")
    /\ used' = used \cup {a}
    /\ assignments' = [assignments EXCEPT ![a] =
         [document |-> d, executor |-> team[1], coExecutors |-> team[2],
          status |-> "new", report |-> "", completed |-> FALSE]]
    /\ told' = told \cup ({a} \X ({team[1]} \cup team[2]))
    /\ journal' = journal \cup {<<a, "created">>}
    /\ UNCHANGED <<calls, rights>>

\* The first query of GetByID; a missing row ends the call.
ReadRow(c, u, a, request) ==
    /\ calls[c] = Idle
    /\ a \in Rows
    /\ calls' = [calls EXCEPT ![c] =
         [phase |-> "row", user |-> u, id |-> a, request |-> request, row |-> assignments[a]]]
    /\ UNCHANGED <<assignments, used, told, journal, rights>>

\* The second query of GetByID, outside any transaction.
ReadCoExecutors(c) ==
    /\ calls[c].phase = "row"
    /\ LET a == calls[c].id
       IN  calls' = [calls EXCEPT ![c].phase = "read",
                       ![c].row.coExecutors = IF a \in Rows THEN assignments[a].coExecutors ELSE {}]
    /\ UNCHANGED <<assignments, used, told, journal, rights>>

\* The rights and the transition are judged on what was read, and the new row
\* and the events are made of it.
Judge(c) ==
    /\ calls[c].phase = "read"
    /\ calls' = [calls EXCEPT ![c] =
         IF Allowed(@)
         THEN [phase |-> "write", id |-> @.id,
               action |-> CASE @.request.op = "status" -> "status"
                            [] @.request.op = "update" -> "updated"
                            [] OTHER -> "deleted",
               row |-> Changed(@), recipients |-> Recipients(@.request, Changed(@))]
         ELSE Idle]
    /\ UNCHANGED <<assignments, used, told, journal, rights>>

\* UpdateWithOutbox: the row is overwritten whatever it holds by now.  If it is
\* gone the UPDATE touches nothing; inserting co-executors then fails and rolls
\* everything back, without co-executors the events are committed.
Write(c) ==
    LET call == calls[c]
        gone == call.id \notin Rows
    IN  /\ call.phase = "write"
        /\ call.action # "deleted"
        /\ assignments' = IF gone THEN assignments ELSE [assignments EXCEPT ![call.id] = call.row]
        /\ IF gone /\ call.row.coExecutors # {}
           THEN UNCHANGED <<told, journal>>
           ELSE /\ told' = told \cup ({call.id} \X call.recipients)
                /\ journal' = journal \cup {<<call.id, call.action>>}
        /\ calls' = [calls EXCEPT ![c] = Idle]
        /\ UNCHANGED <<used, rights>>

\* DeleteWithOutbox: deleting what is gone is no error.  (The key of the event
\* names the assignment only: a repetition by the same user adds nothing, by
\* another user it is refused as a collision and rolled back.)
DeleteRow(c) ==
    LET call == calls[c]
    IN  /\ call.phase = "write"
        /\ call.action = "deleted"
        /\ assignments' = [assignments EXCEPT ![call.id] = NoRow]
        /\ journal' = journal \cup {<<call.id, "deleted">>}
        /\ calls' = [calls EXCEPT ![c] = Idle]
        /\ UNCHANGED <<used, told, rights>>

Next ==
    \/ \E u \in Users, a \in Assignments, d \in Documents, team \in Teams : Create(u, a, d, team)
    \/ \E c \in Calls :
         \/ \E a \in Assignments, r \in Requests : ReadRow(c, r[1], a, r[2])
         \/ ReadCoExecutors(c)
         \/ Judge(c)
         \/ Write(c)
         \/ DeleteRow(c)

Spec == Init /\ [][Next]_vars

-----------------------------------------------------------------------------
(* What a user is shown.                                                   *)

\* GetByID of the service: whoever may assign on the document, or is named.
CanOpen(u, a) ==
    /\ Access!RequireDomainRead(u)
    /\ \/ CanManage(u, assignments[a])
       \/ Access!Subjects(u) \cap Team(assignments[a]) # {}

ListFilterOfKinds(u, document) ==
    LET kinds == Access!KindsWithAction(u, "assign")
    IN  [document |-> document, kinds |-> IF kinds = Kinds THEN {} ELSE kinds,
         executor |-> "any", people |-> IF kinds = {} THEN Access!Subjects(u) ELSE {}]

\* GetList of the service: the access fields of the filter.  "any" stands for a
\* field that is left empty, which restricts nothing.
ListFilter(u, document) ==
    LET subjects == Access!Subjects(u)
        kinds == Access!KindsWithAction(u, "assign")
        scoped == document # "any" /\ ~Access!RequireDocumentAction(u, document, "assign")
        alone == Cardinality(subjects) = 1
        named == scoped \/ kinds # Kinds
    IN  [document |-> document,
         kinds |-> IF kinds = Kinds THEN {} ELSE kinds,
         executor |-> IF alone /\ (scoped \/ kinds = {}) THEN u ELSE "any",
         people |-> CASE ~named -> {}
                      [] alone /\ ~scoped /\ kinds = {} -> {}
                      [] OTHER -> subjects]

\* The WHERE clause built from it, for the finished rows too.
Listed(filter) ==
    {a \in Rows :
        LET row == assignments[a]
        IN  /\ filter.document \in {"any", row.document}
            /\ filter.kinds \cup filter.people # {} =>
                 KindOf[row.document] \in filter.kinds \/ Team(row) \cap filter.people # {}
            /\ filter.executor # "any" => filter.executor \in Team(row)}

GetList(u, document) == IF Access!RequireDomainRead(u) THEN Listed(ListFilter(u, document)) ELSE {}

\* The flag that makes the page offer the executor's buttons.
CanAct(u, a) == assignments[a].executor \in Access!Subjects(u)

-----------------------------------------------------------------------------
(* Properties.                                                             *)

\* Status, report and time of completion always belong together, whatever calls
\* overlapped: a completed or accepted assignment has its report and its time
\* of completion, a returned one has the reason and no time, a new one neither.
\* Which of them prevails is not promised: an edit that read the row before it was
\* accepted writes the older status back.
StatusTellsTheTruth ==
    \A a \in Rows :
        LET row == assignments[a]
        IN  /\ row.completed <=> row.status \in {"completed", "finished"}
            /\ row.status \in {"completed", "finished", "returned"} => row.report # ""
            /\ row.status = "new" => row.report = ""

\* Nobody becomes responsible unnoticed: everyone an assignment names now has
\* an event about it in the outbox, even when an edit and a report overwrote
\* each other's team.
EveryoneNamedWasTold == \A a \in Rows : {a} \X Team(assignments[a]) \subseteq told

\* What can be opened is in the list, of all assignments and of its document.
\* The filter is built from different questions than the check of one row.
OpenedIsListed ==
    \A u \in Users, a \in Rows :
        CanOpen(u, a) => a \in GetList(u, "any") /\ a \in GetList(u, assignments[a].document)

\* Reporting asks that the user be logged in and be the executor, opening asks
\* more.  A named executor who is no participant, stands in for nobody and may
\* not read the kind of the document reports on what he cannot read.
ReportsUnread(u, a) ==
    /\ u = assignments[a].executor
    /\ u \notin participants /\ Access!Subjects(u) = {u}
    /\ ~Access!HasPermission(u, KindOf[assignments[a].document], "read")

\* Whoever may report on an assignment, as its executor or in his place, can
\* open the assignment and its document, with one exception and no other:
\* ReportsUnread.  The buttons are offered to exactly those who may report.
ExecutorCanRead ==
    \A u \in Users, a \in Rows :
        /\ CanAct(u, a) <=> CanActAsExecutor(u, assignments[a])
        /\ CanAct(u, a) =>
             (CanOpen(u, a) /\ Access!RequireReadResolved(u, assignments[a].document)
                <=> ~ReportsUnread(u, a))
=============================================================================
