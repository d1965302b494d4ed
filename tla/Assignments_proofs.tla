------------------------- MODULE Assignments_proofs -------------------------
(***************************************************************************)
(* Proofs about assignments, for any number of users, documents and calls  *)
(* in flight.                                                              *)
(***************************************************************************)
EXTENDS Assignments, FiniteSetTheorems, TLAPS

USE AssignmentConstants

\* What StatusTellsTheTruth says of one row.
Tells(row) ==
    /\ row.completed <=> row.status \in {"completed", "finished"}
    /\ row.status \in {"completed", "finished", "returned"} => row.report # ""
    /\ row.status = "new" => row.report = ""

(* The strengthening: a row in the hands of a call is as good as one in the *)
(* table, however old it is.  The team of a row that was read was told; the *)
(* team of a row that is going to be written was told, or is told with it.  *)
HandsTell == \A c \in Calls : calls[c].phase # "idle" => Tells(calls[c].row)
HandsTold ==
    \A c \in Calls :
        /\ calls[c].phase \in {"row", "read"} => {calls[c].id} \X Team(calls[c].row) \subseteq told
        /\ calls[c].phase = "write" /\ calls[c].action # "deleted" =>
             {calls[c].id} \X Team(calls[c].row) \subseteq told \cup ({calls[c].id} \X calls[c].recipients)

IInv == TypeOK /\ StatusTellsTheTruth /\ EveryoneNamedWasTold /\ HandsTell /\ HandsTold

-----------------------------------------------------------------------------
(* Rows and calls.                                                         *)

(* A row is not the absence of one, a call is not the absence of one.      *)
LEMMA Nulls == NoRow \notin Row /\ NoRow # Idle
  BY DEF NoRow, Row, Idle, Statuses, Reports

(* A new row, and the two changes of a row.                                *)
LEMMA NewRow ==
    ASSUME NEW d \in Documents, NEW e \in Users, NEW cs \in SUBSET Users
    PROVE  LET r == [document |-> d, executor |-> e, coExecutors |-> cs,
                     status |-> "new", report |-> "", completed |-> FALSE]
           IN  r \in Row /\ Tells(r) /\ Team(r) = {e} \cup cs
  BY DEF Row, Statuses, Reports, Tells, Team

(* A status written with its report and its time.                          *)
LEMMA StatusRow ==
    ASSUME NEW r \in Row, Tells(r), NEW s \in Statuses, NEW p \in Reports,
           <<r.status, s>> \in ExecutorTransitions \cup ManagerTransitions, ReportGiven(s, p)
    PROVE  WithStatus(r, s, p) \in Row /\ Tells(WithStatus(r, s, p)) /\ Team(WithStatus(r, s, p)) = Team(r)
  <1> DEFINE p2 == IF s = "finished" /\ p = "" THEN r.report ELSE p
             b2 == CASE s = "completed" -> TRUE [] s = "finished" -> r.completed [] OTHER -> FALSE
             q == [[[r EXCEPT !.status = s] EXCEPT !.report = p2] EXCEPT !.completed = b2]
  <1>1. p2 \in Reports /\ b2 \in BOOLEAN
    BY DEF Row
  <1>2. /\ b2 <=> s \in {"completed", "finished"}
        /\ s \in {"completed", "finished", "returned"} => p2 # ""
        /\ s # "new"
    BY DEF Tells, ReportGiven, ExecutorTransitions, ManagerTransitions, Row
  <1>3. WithStatus(r, s, p) = q
    BY DEF WithStatus
  <1> HIDE DEF p2, b2
  <1>4. /\ q \in Row /\ q.status = s /\ q.report = p2 /\ q.completed = b2
        /\ q.executor = r.executor /\ q.coExecutors = r.coExecutors
    BY <1>1 DEF Row
  <1> HIDE DEF q
  <1>5. QED
    BY <1>2, <1>3, <1>4 DEF Tells, Team

(* A row written with its team.                                            *)
LEMMA TeamRow ==
    ASSUME NEW r \in Row, NEW e \in Users, NEW cs \in SUBSET Users
    PROVE  /\ WithTeam(r, e, cs) \in Row
           /\ Tells(r) => Tells(WithTeam(r, e, cs))
  <1> DEFINE q == [[r EXCEPT !.executor = e] EXCEPT !.coExecutors = cs]
  <1>1. WithTeam(r, e, cs) = q
    BY DEF WithTeam
  <1>2. q \in Row /\ q.status = r.status /\ q.report = r.report /\ q.completed = r.completed
    BY DEF Row
  <1> HIDE DEF q
  <1>3. QED
    BY <1>1, <1>2 DEF Tells

(* The fields of a call are those of its phase.                            *)
LEMMA Phases ==
    ASSUME NEW r \in Reading \cup Writing \cup {Idle}
    PROVE  /\ r.phase \in {"row", "read"} <=> r \in Reading
           /\ r.phase = "write" <=> r \in Writing
           /\ r.phase = "idle" <=> r = Idle
  BY DEF Reading, Writing, Idle

(* A row that is read with its co-executors replaced by newer ones.        *)
LEMMA NewerTeam ==
    ASSUME NEW r \in Reading, NEW cs \in SUBSET Users
    PROVE  LET q == [[r EXCEPT !.phase = "read"] EXCEPT !.row.coExecutors = cs]
           IN  /\ q \in Reading /\ q.phase = "read" /\ q.id = r.id
               /\ Tells(r.row) => Tells(q.row)
               /\ Team(q.row) = {r.row.executor} \cup cs
  <1> DEFINE w == [r.row EXCEPT !.coExecutors = cs]
             q == [[r EXCEPT !.phase = "read"] EXCEPT !.row = w]
  <1>1. /\ w \in Row /\ w.executor = r.row.executor /\ w.coExecutors = cs
        /\ w.status = r.row.status /\ w.report = r.row.report /\ w.completed = r.row.completed
    BY DEF Reading, Row
  <1>2. [[r EXCEPT !.phase = "read"] EXCEPT !.row.coExecutors = cs] = q
    BY DEF Reading
  <1> HIDE DEF w
  <1>3. q \in Reading /\ q.phase = "read" /\ q.id = r.id /\ q.row = w
    BY <1>1 DEF Reading
  <1> HIDE DEF q
  <1>4. QED
    BY <1>1, <1>2, <1>3 DEF Tells, Team

(* A change that is allowed keeps the row truthful, and whoever the new row *)
(* names was named by the row that was read or is told of the change.      *)
LEMMA ChangeTells ==
    ASSUME NEW call \in Reading, Allowed(call), Tells(call.row)
    PROVE  /\ Changed(call) \in Row /\ Tells(Changed(call))
           /\ Recipients(call.request, Changed(call)) \subseteq Users
           /\ Team(Changed(call)) \subseteq Team(call.row) \cup Recipients(call.request, Changed(call))
  <1>1. call.row \in Row /\ call.request \in Request
    BY DEF Reading
  <1>2. \A r \in Row : Team(r) \subseteq Users /\ Recipients(call.request, r) \subseteq Users
    BY DEF Team, Row, Recipients
  <1>3. CASE call.request.op = "status"
    <2>1. call.request.status \in Statuses /\ call.request.report \in Reports
      BY <1>1, <1>3 DEF Request
    <2>2. /\ <<call.row.status, call.request.status>> \in ExecutorTransitions \cup ManagerTransitions
          /\ ReportGiven(call.request.status, call.request.report)
      BY <1>3 DEF Allowed, AllowedTransition
    <2>3. Changed(call) = WithStatus(call.row, call.request.status, call.request.report)
      BY <1>3 DEF Changed
    <2> QED
      BY <1>1, <1>2, <2>1, <2>2, <2>3, StatusRow
  <1>4. CASE call.request.op = "update"
    <2>1. call.request.executor \in Users /\ call.request.coExecutors \in SUBSET Users
      BY <1>1, <1>4 DEF Request
    <2>2. Changed(call) = WithTeam(call.row, call.request.executor, call.request.coExecutors)
      BY <1>4 DEF Changed
    <2>3. Recipients(call.request, Changed(call)) = Team(Changed(call))
      BY <1>4 DEF Recipients
    <2> QED
      BY <1>1, <1>2, <2>1, <2>2, <2>3, TeamRow
  <1>5. CASE call.request.op = "delete"
    BY <1>1, <1>2, <1>5 DEF Changed
  <1>6. QED
    BY <1>1, <1>3, <1>4, <1>5 DEF Request

(* The call that goes on to write.                                         *)
LEMMA WritingCall ==
    ASSUME NEW id \in Assignments, NEW action \in {"updated", "status", "deleted"},
           NEW row \in Row, NEW recipients \in SUBSET Users
    PROVE  LET q == [phase |-> "write", id |-> id, action |-> action,
                     row |-> row, recipients |-> recipients]
           IN  /\ q \in Writing /\ q.phase = "write" /\ q.id = id
               /\ q.row = row /\ q.recipients = recipients
  BY DEF Writing

(* A call that has only read.                                              *)
LEMMA ReadingCall ==
    ASSUME NEW u \in Users, NEW id \in Assignments, NEW request \in Request, NEW row \in Row
    PROVE  LET q == [phase |-> "row", user |-> u, id |-> id, request |-> request, row |-> row]
           IN  q \in Reading /\ q.phase = "row" /\ q.id = id /\ q.row = row
  BY DEF Reading

-----------------------------------------------------------------------------
(* The inductive invariant.                                                *)

(* The empty table satisfies the invariant.                                *)
LEMMA InitIInv == ASSUME Init PROVE IInv
  <1>1. TypeOK
    BY Nulls DEF Init, TypeOK, Rows
  <1>2. Rows = {}
    BY DEF Init, Rows
  <1>3. \A c \in Calls : calls[c].phase = "idle"
    BY DEF Init, Idle
  <1>4. QED
    BY <1>1, <1>2, <1>3 DEF IInv, StatusTellsTheTruth, EveryoneNamedWasTold, HandsTell, HandsTold

(* A step of one call that leaves the table and the outbox alone.          *)
LEMMA OneCall ==
    ASSUME IInv, NEW c \in Calls, NEW q \in Reading \cup Writing \cup {Idle},
           calls' = [calls EXCEPT ![c] = q],
           UNCHANGED <<assignments, used, told, journal, rights>>,
           q.phase # "idle" => Tells(q.row),
           q.phase \in {"row", "read"} => {q.id} \X Team(q.row) \subseteq told,
           q.phase = "write" /\ q.action # "deleted" =>
               {q.id} \X Team(q.row) \subseteq told \cup ({q.id} \X q.recipients)
    PROVE  IInv'
  <1>1. calls \in [Calls -> Reading \cup Writing \cup {Idle}]
    BY DEF IInv, TypeOK
  <1>2. TypeOK'
    BY <1>1 DEF IInv, TypeOK, rights, Rows
  <1>3. StatusTellsTheTruth' /\ EveryoneNamedWasTold'
    BY DEF IInv, StatusTellsTheTruth, EveryoneNamedWasTold, Rows, Team
  <1>4. ASSUME NEW d \in Calls PROVE calls'[d] = IF d = c THEN q ELSE calls[d]
    BY <1>1
  <1>5. HandsTell'
    BY <1>4 DEF IInv, HandsTell, Tells
  <1>6. HandsTold'
    BY <1>4 DEF IInv, HandsTold, Team
  <1>7. QED
    BY <1>2, <1>3, <1>5, <1>6 DEF IInv

(* The first read keeps it.                                                *)
LEMMA ReadRowIInv ==
    ASSUME IInv, NEW c \in Calls, NEW u \in Users, NEW a \in Assignments, NEW request \in Request,
           ReadRow(c, u, a, request)
    PROVE  IInv'
  <1> DEFINE q == [phase |-> "row", user |-> u, id |-> a, request |-> request, row |-> assignments[a]]
  <1>1. a \in Rows /\ assignments[a] \in Row
    BY DEF ReadRow, Rows, IInv, TypeOK
  <1>2. q \in Reading /\ q.phase = "row" /\ q.id = a /\ q.row = assignments[a]
    BY <1>1, ReadingCall
  <1>3. calls' = [calls EXCEPT ![c] = q] /\ UNCHANGED <<assignments, used, told, journal, rights>>
    BY DEF ReadRow
  <1>4. Tells(q.row) /\ {q.id} \X Team(q.row) \subseteq told
    BY <1>1, <1>2 DEF IInv, StatusTellsTheTruth, EveryoneNamedWasTold, Tells
  <1> HIDE DEF q
  <1>5. QED
    BY <1>2, <1>3, <1>4, OneCall

(* The second read keeps it.                                               *)
LEMMA ReadCoExecutorsIInv ==
    ASSUME IInv, NEW c \in Calls, ReadCoExecutors(c)
    PROVE  IInv'
  <1> DEFINE r == calls[c]
             cs == IF r.id \in Rows THEN assignments[r.id].coExecutors ELSE {}
             q == [[r EXCEPT !.phase = "read"] EXCEPT !.row.coExecutors = cs]
  <1>1. r \in Reading /\ r.phase = "row"
    BY Phases DEF ReadCoExecutors, IInv, TypeOK
  <1>2. cs \in SUBSET Users /\ {r.id} \X cs \subseteq told
    BY <1>1 DEF IInv, TypeOK, Rows, Row, Reading, EveryoneNamedWasTold, Team
  <1> HIDE DEF cs
  <1>3. /\ q \in Reading /\ q.phase = "read" /\ q.id = r.id
        /\ Tells(r.row) => Tells(q.row)
        /\ Team(q.row) = {r.row.executor} \cup cs
    BY <1>1, <1>2, NewerTeam
  <1> HIDE DEF q
  <1>4. Tells(q.row)
    BY <1>1, <1>3 DEF IInv, HandsTell
  <1>5. {q.id} \X Team(q.row) \subseteq told
    BY <1>1, <1>2, <1>3 DEF IInv, HandsTold, Team
  <1> USE DEF q, cs
  <1>6. calls' = [calls EXCEPT ![c] = q] /\ UNCHANGED <<assignments, used, told, journal, rights>>
    BY <1>1 DEF ReadCoExecutors, IInv, TypeOK
  <1> HIDE DEF q, cs
  <1>7. QED
    BY <1>3, <1>4, <1>5, <1>6, OneCall

(* The judgement of a call keeps it.                                       *)
LEMMA JudgeIInv ==
    ASSUME IInv, NEW c \in Calls, Judge(c)
    PROVE  IInv'
  <1> DEFINE r == calls[c]
             action == CASE r.request.op = "status" -> "status"
                         [] r.request.op = "update" -> "updated"
                         [] OTHER -> "deleted"
             q == [phase |-> "write", id |-> r.id, action |-> action,
                   row |-> Changed(r), recipients |-> Recipients(r.request, Changed(r))]
  <1>1. r \in Reading /\ r.phase = "read"
    BY Phases DEF Judge, IInv, TypeOK
  <1>2. /\ calls' = [calls EXCEPT ![c] = IF Allowed(r) THEN q ELSE Idle]
        /\ UNCHANGED <<assignments, used, told, journal, rights>>
    BY DEF Judge, IInv, TypeOK
  <1>3. CASE ~Allowed(r)
    BY <1>2, <1>3, OneCall DEF Idle
  <1>4. CASE Allowed(r)
    <2>1. Tells(r.row) /\ {r.id} \X Team(r.row) \subseteq told
      BY <1>1 DEF IInv, HandsTell, HandsTold
    <2>2. /\ Changed(r) \in Row /\ Tells(Changed(r))
          /\ Recipients(r.request, Changed(r)) \in SUBSET Users
          /\ Team(Changed(r)) \subseteq Team(r.row) \cup Recipients(r.request, Changed(r))
      BY <1>1, <1>4, <2>1, ChangeTells
    <2>3. r.id \in Assignments /\ action \in {"updated", "status", "deleted"}
      BY <1>1 DEF Reading
    <2> HIDE DEF action
    <2>4. /\ q \in Writing /\ q.phase = "write" /\ q.id = r.id
          /\ q.row = Changed(r) /\ q.recipients = Recipients(r.request, Changed(r))
      BY <2>2, <2>3, WritingCall
    <2>5. calls' = [calls EXCEPT ![c] = q]
      BY <1>2, <1>4
    <2> HIDE DEF q
    <2>6. Tells(q.row) /\ {q.id} \X Team(q.row) \subseteq told \cup ({q.id} \X q.recipients)
      BY <2>1, <2>2, <2>4
    <2> QED
      BY <1>2, <2>4, <2>5, <2>6, OneCall
  <1>5. QED
    BY <1>3, <1>4

(* A step that writes one row, tells more people and ends a call (or none). *)
LEMMA OneRow ==
    ASSUME IInv, NEW a \in Assignments, NEW row \in Row \cup {NoRow},
           assignments' = [assignments EXCEPT ![a] = row],
           used \subseteq used', used' \subseteq Assignments, row # NoRow => a \in used',
           told \subseteq told', told' \subseteq Assignments \X Users,
           journal' \subseteq Assignments \X {"created", "updated", "status", "deleted"},
           UNCHANGED rights,
           \/ UNCHANGED calls
           \/ \E c \in Calls : calls' = [calls EXCEPT ![c] = Idle],
           row # NoRow => Tells(row) /\ {a} \X Team(row) \subseteq told'
    PROVE  IInv'
  <1>1. /\ assignments \in [Assignments -> Row \cup {NoRow}]
        /\ calls \in [Calls -> Reading \cup Writing \cup {Idle}]
    BY DEF IInv, TypeOK
  <1>2. \A d \in Calls : calls'[d] = calls[d] \/ calls'[d] = Idle
    BY <1>1
  <1>3. \A b \in Assignments : assignments'[b] = IF b = a THEN row ELSE assignments[b]
    BY <1>1
  <1>4. Rows' \subseteq used'
    BY <1>3 DEF IInv, TypeOK, Rows
  <1>5. TypeOK'
    BY <1>1, <1>4 DEF IInv, TypeOK, rights
  <1>6. StatusTellsTheTruth'
    BY <1>3 DEF IInv, StatusTellsTheTruth, Rows, Tells
  <1>7. EveryoneNamedWasTold'
    BY <1>3 DEF IInv, EveryoneNamedWasTold, Rows, Team
  <1>8. HandsTell'
    <2>1. ASSUME NEW d \in Calls, calls'[d].phase # "idle" PROVE calls'[d] = calls[d]
      BY <1>2, <2>1 DEF Idle
    <2>2. QED
      BY <2>1 DEF IInv, HandsTell, Tells
  <1>9. HandsTold'
    BY <1>2 DEF IInv, HandsTold, Team, Idle
  <1>10. QED
    BY <1>5, <1>6, <1>7, <1>8, <1>9 DEF IInv

(* A new assignment keeps it.                                              *)
LEMMA CreateIInv ==
    ASSUME IInv, NEW u \in Users, NEW a \in Assignments, NEW d \in Documents, NEW team \in Teams,
           Create(u, a, d, team)
    PROVE  IInv'
  <1> DEFINE row == [document |-> d, executor |-> team[1], coExecutors |-> team[2],
                     status |-> "new", report |-> "", completed |-> FALSE]
  <1>1. team[1] \in Users /\ team[2] \in SUBSET Users
    BY AssignmentConstants
  <1>2. row \in Row /\ Tells(row) /\ Team(row) = {team[1]} \cup team[2]
    BY <1>1, NewRow
  <1>3. /\ assignments' = [assignments EXCEPT ![a] = row]
        /\ used' = used \cup {a} /\ told' = told \cup ({a} \X ({team[1]} \cup team[2]))
        /\ journal' = journal \cup {<<a, "created">>} /\ UNCHANGED <<calls, rights>>
    BY DEF Create
  <1> HIDE DEF row
  <1>4. told' \subseteq Assignments \X Users /\ {a} \X Team(row) \subseteq told'
    BY <1>1, <1>2, <1>3 DEF IInv, TypeOK
  <1>5. /\ used \subseteq used' /\ used' \subseteq Assignments /\ a \in used' /\ told \subseteq told'
        /\ journal' \subseteq Assignments \X {"created", "updated", "status", "deleted"}
    BY <1>3 DEF IInv, TypeOK
  <1>6. QED
    BY <1>2, <1>3, <1>4, <1>5, OneRow

(* The write of a judged row keeps it.                                     *)
LEMMA WriteIInv ==
    ASSUME IInv, NEW c \in Calls, Write(c)
    PROVE  IInv'
  <1> DEFINE call == calls[c]
  <1>1. call \in Writing /\ call.phase = "write" /\ call.action # "deleted"
    BY Phases DEF Write, IInv, TypeOK
  <1>2. /\ call.id \in Assignments /\ call.row \in Row /\ call.recipients \subseteq Users
        /\ call.action \in {"created", "updated", "status", "deleted"}
    BY <1>1 DEF Writing
  <1>3. Tells(call.row) /\ {call.id} \X Team(call.row) \subseteq told \cup ({call.id} \X call.recipients)
    BY <1>1 DEF IInv, HandsTell, HandsTold
  <1>4. /\ told \subseteq told' /\ told' \subseteq Assignments \X Users
        /\ journal' \subseteq Assignments \X {"created", "updated", "status", "deleted"}
        /\ calls' = [calls EXCEPT ![c] = Idle] /\ UNCHANGED <<used, rights>>
    BY <1>2 DEF Write, IInv, TypeOK
  <1>5. CASE call.id \in Rows
    <2>1. assignments' = [assignments EXCEPT ![call.id] = call.row]
      BY <1>5 DEF Write
    <2>2. told' = told \cup ({call.id} \X call.recipients)
      BY <1>5 DEF Write
    <2>3. used \subseteq used' /\ used' \subseteq Assignments /\ call.id \in used'
      BY <1>4, <1>5 DEF IInv, TypeOK
    <2> QED
      BY <1>2, <1>3, <1>4, <2>1, <2>2, <2>3, OneRow
  <1>6. CASE call.id \notin Rows
    <2>1. assignments' = [assignments EXCEPT ![call.id] = NoRow]
      BY <1>2, <1>6 DEF Write, IInv, TypeOK, Rows
    <2>2. used \subseteq used' /\ used' \subseteq Assignments
      BY <1>4 DEF IInv, TypeOK
    <2> QED
      BY <1>2, <1>4, <2>1, <2>2, OneRow
  <1>7. QED
    BY <1>5, <1>6

(* A deletion keeps it.                                                    *)
LEMMA DeleteRowIInv ==
    ASSUME IInv, NEW c \in Calls, DeleteRow(c)
    PROVE  IInv'
  <1>1. calls[c] \in Writing
    BY Phases DEF DeleteRow, IInv, TypeOK
  <1>2. calls[c].id \in Assignments
    BY <1>1 DEF Writing
  <1>3. /\ assignments' = [assignments EXCEPT ![calls[c].id] = NoRow]
        /\ journal' \subseteq Assignments \X {"created", "updated", "status", "deleted"}
        /\ calls' = [calls EXCEPT ![c] = Idle] /\ UNCHANGED <<used, told, rights>>
    BY <1>2 DEF DeleteRow, IInv, TypeOK
  <1>4. used' \subseteq Assignments /\ told' \subseteq Assignments \X Users
    BY <1>3 DEF IInv, TypeOK
  <1>5. QED
    BY <1>2, <1>3, <1>4, OneRow

(* So does a step that changes nothing.                                    *)
LEMMA StutterIInv == ASSUME IInv, UNCHANGED vars PROVE IInv'
  BY DEF IInv, TypeOK, StatusTellsTheTruth, EveryoneNamedWasTold, HandsTell, HandsTold,
         Tells, Team, Rows, vars, rights

(* Every step keeps it.                                                    *)
LEMMA NextIInv == ASSUME IInv, [Next]_vars PROVE IInv'
  <1>1. CASE UNCHANGED vars
    BY <1>1, StutterIInv
  <1>2. CASE Next
    <2>1. \A r \in Requests : r[1] \in Users /\ r[2] \in Request
      BY AssignmentConstants
    <2>2. QED
      BY <1>2, <2>1, CreateIInv, ReadRowIInv, ReadCoExecutorsIInv, JudgeIInv, WriteIInv,
         DeleteRowIInv DEF Next
  <1>3. QED
    BY <1>1, <1>2

(* The invariant of assignments: the rows and the rows in the hands of the  *)
(* calls agree with what was told (assignment_service.go, assignment_repo.go).*)
THEOREM RowsAgree == Spec => []IInv
  <1>1. Init => IInv
    BY InitIInv
  <1>2. IInv /\ [Next]_vars => IInv'
    BY NextIInv
  <1>3. QED
    BY <1>1, <1>2, PTL DEF Spec

(* Status, report and time of completion belong together in every row,      *)
(* whatever edits and reports overlapped (WithStatus, UpdateWithOutbox).    *)
THEOREM StatusIsTrue == Spec => []StatusTellsTheTruth
  <1>1. IInv => StatusTellsTheTruth
    BY DEF IInv
  <1>2. QED
    BY <1>1, RowsAgree, PTL

(* Everyone an assignment names has an event about it in the outbox.        *)
THEOREM NobodyIsNamedUnnoticed == Spec => []EveryoneNamedWasTold
  <1>1. IInv => EveryoneNamedWasTold
    BY DEF IInv
  <1>2. QED
    BY <1>1, RowsAgree, PTL

-----------------------------------------------------------------------------
(* What a user is shown.  These hold of every state of the right type:     *)
(* they relate two translations of one policy.                             *)

(* Who stands in for nobody has one subject.                               *)
LEMMA FewSubjects ==
    ASSUME NEW u \in Users
    PROVE  /\ Cardinality(Access!Subjects(u)) = 1 => Access!Subjects(u) = {u}
           /\ \A p \in Access!Subjects(u) : p # u => Cardinality(Access!Subjects(u)) > 1
  <1> DEFINE S == Access!Subjects(u)
  <1>1. u \in S /\ S \subseteq Users
    BY DEF Access!Subjects, Access!ActivePrincipals
  <1> HIDE DEF S
  <1>2. IsFiniteSet(S)
    BY <1>1, FS_Subset
  <1>3. Cardinality(S) \in Nat
    BY <1>2, FS_CardinalityType
  <1>4. Cardinality(S) = 1 => S = {u}
    BY <1>1, <1>2, FS_Singleton
  <1>5. Cardinality(S) # 0
    BY <1>1, <1>2, FS_EmptySet
  <1>6. QED
    BY <1>3, <1>4, <1>5 DEF S

(* The filter of the list lets through what can be opened.                 *)
LEMMA FilterLetsThrough ==
    ASSUME TypeOK, NEW u \in Users, NEW a \in Rows, CanOpen(u, a),
           NEW document \in {"any", assignments[a].document}
    PROVE  a \in GetList(u, document)
  <1> DEFINE row == assignments[a]
             subjects == Access!Subjects(u)
             kinds == Access!KindsWithAction(u, "assign")
             scoped == document # "any" /\ ~Access!RequireDocumentAction(u, document, "assign")
             alone == Cardinality(subjects) = 1
             f == ListFilter(u, document)
  <1>1. Access!RequireDomainRead(u) /\ a \in Rows /\ row \in Row /\ a \in Assignments
    BY DEF CanOpen, TypeOK, Rows
  <1>2. alone => subjects = {u}
    BY FewSubjects
  <1>3. CanManage(u, row) => KindOf[row.document] \in kinds /\ ~scoped
    BY <1>1 DEF CanManage, Access!RequireDocumentAction, Access!KindsWithAction, Row
  <1>4. CanManage(u, row) \/ subjects \cap Team(row) # {}
    BY DEF CanOpen
  <1>5. /\ f.document = document
        /\ f.kinds = IF kinds = Kinds THEN {} ELSE kinds
        /\ f.executor = IF alone /\ (scoped \/ kinds = {}) THEN u ELSE "any"
        /\ f.people = CASE ~(scoped \/ kinds # Kinds) -> {}
                        [] alone /\ ~scoped /\ kinds = {} -> {}
                        [] OTHER -> subjects
    BY Zenon DEF ListFilter
  <1> HIDE DEF f, kinds, scoped, alone, subjects, row
  <1>6. f.kinds \cup f.people # {} =>
          KindOf[row.document] \in f.kinds \/ Team(row) \cap f.people # {}
    <2>1. CASE CanManage(u, row)
      BY <1>3, <1>5, <2>1
    <2>2. CASE subjects \cap Team(row) # {}
      BY <1>5, <2>2
    <2>3. QED
      BY <1>4, <2>1, <2>2
  <1>7. f.executor # "any" => f.executor \in Team(row)
    BY <1>2, <1>3, <1>4, <1>5
  <1>8. a \in Listed(f)
    BY <1>1, <1>5, <1>6, <1>7 DEF Listed, row
  <1>9. QED
    BY <1>1, <1>8 DEF GetList, f

(* What a user can open is in the user's lists: the filter of GetList and   *)
(* the check of GetByID have not drifted apart (assignment_service.go).    *)
THEOREM ListsHoldWhatOpens == Spec => []OpenedIsListed
  <1>1. IInv => OpenedIsListed
    BY FilterLetsThrough DEF IInv, OpenedIsListed
  <1>2. QED
    BY <1>1, RowsAgree, PTL

(* The users who may report on an assignment and cannot open it, or its    *)
(* document, are exactly the executors of ReportsUnread; whoever reports   *)
(* for somebody else can always read.                                      *)
THEOREM ExecutorsCanRead == Spec => []ExecutorCanRead
  <1>1. ASSUME TypeOK, NEW u \in Users, NEW a \in Rows
        PROVE  /\ CanAct(u, a) <=> CanActAsExecutor(u, assignments[a])
               /\ CanAct(u, a) =>
                    (CanOpen(u, a) /\ Access!RequireReadResolved(u, assignments[a].document)
                       <=> ~ReportsUnread(u, a))
    <2> DEFINE row == assignments[a]
               kind == KindOf[row.document]
    <2>1. /\ a \in Assignments /\ row \in Row /\ row.executor \in Users
          /\ row.document \in Documents /\ kind \in Kinds
      BY <1>1 DEF TypeOK, Rows, Row
    <2>2. CanAct(u, a) <=> CanActAsExecutor(u, row)
      BY <2>1 DEF CanAct, CanActAsExecutor, Access!Subjects, Access!ActivePrincipals
    <2>3. Access!Cardinality(Access!Subjects(u)) = Cardinality(Access!Subjects(u))
      BY Zenon DEF Access!Cardinality, Cardinality
    <2>4. ASSUME CanAct(u, a), ~ReportsUnread(u, a)
          PROVE  CanOpen(u, a) /\ Access!RequireReadResolved(u, row.document)
      <3>1. row.executor \in Access!Subjects(u) /\ row.executor \in Team(row)
        BY <2>4 DEF CanAct, Team
      <3>2. \/ u \in participants
            \/ Access!Subjects(u) # {u} /\ Cardinality(Access!Subjects(u)) > 1
            \/ Access!HasPermission(u, kind, "read")
        <4>1. CASE u # row.executor
          BY <3>1, <4>1, FewSubjects
        <4>2. CASE Access!Subjects(u) # {u}
          <5>1. u \in Access!Subjects(u)
            BY DEF Access!Subjects
          <5>2. \E p \in Access!Subjects(u) : p # u
            BY <4>2, <5>1
          <5>3. QED
            BY <4>2, <5>2, FewSubjects
        <4>3. QED
          BY <2>4, <4>1, <4>2 DEF ReportsUnread
      <3>3. Access!HasPermission(u, kind, "read") => Access!HasAnyDocumentPermission(u)
        <4>1. Access!HasPermission(u, kind, "read") => <<u, kind, "read">> \in grants
          BY DEF Access!HasPermission
        <4>2. <<u, kind, "read">> \in grants => "read" \in Actions
          BY <1>1 DEF TypeOK
        <4>3. QED
          BY <2>1, <4>1, <4>2 DEF Access!HasAnyDocumentPermission
      <3>4. Access!RequireDomainRead(u)
        BY <3>2, <3>3 DEF Access!RequireDomainRead
      <3>5. Access!ExecutesIn(Access!Subjects(u), row.document)
        <4> DEFINE named(d) == UNION {Team(assignments[b]) : b \in {c \in Rows : assignments[c].document = d}}
        <4>1. row.executor \in named(row.document)
          BY <3>1
        <4>2. Access!ExecutesIn(Access!Subjects(u), row.document)
                <=> Access!Subjects(u) \cap named(row.document) # {}
          BY <2>1 DEF Access!ExecutesIn, Team
        <4> HIDE DEF named
        <4>3. QED
          BY <3>1, <4>1, <4>2
      <3>6. Access!CanReadResolved(u, row.document)
        BY <2>3, <3>2, <3>5, Zenon DEF Access!CanReadResolved, Access!HasImplicitReadAccess
      <3>7. Access!RequireReadResolved(u, row.document)
        BY <3>4, <3>6 DEF Access!RequireReadResolved
      <3>8. QED
        BY <3>1, <3>4, <3>7 DEF CanOpen
    <2>5. ASSUME ReportsUnread(u, a)
          PROVE  ~Access!RequireReadResolved(u, row.document)
      <3>1. u \notin participants /\ ~(Cardinality(Access!Subjects(u)) > 1)
        <4>1. u \notin participants /\ Access!Subjects(u) = {u}
          BY <2>5 DEF ReportsUnread
        <4>2. Cardinality({u}) = 1
          BY FS_Singleton
        <4>3. Cardinality(Access!Subjects(u)) = 1
          BY <4>1, <4>2, Zenon
        <4>4. QED
          BY <4>1, <4>3
      <3>2. ~Access!HasPermission(u, kind, "read")
        BY <2>5 DEF ReportsUnread
      <3>3. ~Access!HasImplicitReadAccess(u, row.document)
        BY <2>3, <3>1, Zenon DEF Access!HasImplicitReadAccess
      <3>4. QED
        BY <3>2, <3>3 DEF Access!RequireReadResolved, Access!CanReadResolved
    <2>6. QED
      BY <2>2, <2>4, <2>5
  <1>2. IInv => ExecutorCanRead
    BY <1>1 DEF IInv, ExecutorCanRead
  <1>3. QED
    BY <1>2, RowsAgree, PTL
=============================================================================
