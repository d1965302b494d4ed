--------------------------- MODULE DocumentAccess ---------------------------
(***************************************************************************)
(* Who may do what with a document                                         *)
(* (services/document_access_service.go), over the facts it asks for: the  *)
(* participants and their departments, the permissions, the substitutions  *)
(* in force today, and the people named by assignments and by              *)
(* acknowledgment sheets.  The same question is answered in four places:   *)
(* for one document, for a document that the caller loaded itself, for a   *)
(* set of documents, and as a condition inside the list query.             *)
(*                                                                         *)
(* A decision is one step here, though it takes several queries.           *)
(***************************************************************************)
EXTENDS Naturals, FiniteSets

CONSTANTS
    Users,
    Departments,
    Documents,
    Kinds,
    Nomenclatures,
    KindOf,             \* [Documents -> Kinds]
    NomenclatureOf,     \* [Documents -> Nomenclatures]
    Actions,            \* the supported actions, "read", "link", "view_journal" among them
    DepartmentGrants,   \* rows of document_permissions that belong to a department
    Profiles,           \* bound: the sets of rights that an administrator gives
    Windows,            \* bound: the first and last days of a substitution
    MaxNamed,           \* bound: people named by assignments and sheets together
    LastDay             \* bound: the calendar ends here

NoDepartment == "no department"
NoDate == 0
Days == 1 .. LastDay
NoSubstitution == [substitute |-> "none"]
Substitution ==
    [substitute : Users, active : BOOLEAN, from : Days \cup {NoDate}, until : Days \cup {NoDate}]

ASSUME AccessConstants ==
    /\ IsFiniteSet(Users)
    /\ KindOf \in [Documents -> Kinds]
    /\ NomenclatureOf \in [Documents -> Nomenclatures]
    /\ DepartmentGrants \subseteq Departments \X Kinds \X Actions
    /\ Profiles \subseteq SUBSET (Kinds \X Actions)
    /\ Windows \subseteq (Days \cup {NoDate}) \X (Days \cup {NoDate})
    /\ MaxNamed \in Nat /\ LastDay \in Nat \ {0}
    /\ NoDepartment \notin Departments
    /\ "none" \notin Users

VARIABLES
    participants,       \* users.is_document_participant
    departmentOf,       \* users.department_id
    nomenclaturesOf,    \* department_nomenclature of the departments that exist
    grants,             \* rows of document_permissions that belong to a user
    substitutions,      \* user_substitutions: at most one row per principal
    today,
    executorsOf,        \* executors and co-executors of the assignments of a document
    acknowledgersOf     \* the people on the acknowledgment sheets of a document

people == <<participants, departmentOf, nomenclaturesOf>>
facts == <<executorsOf, acknowledgersOf>>
accessVars == <<people, grants, substitutions, today, facts>>

AccessTypeOK ==
    /\ participants \subseteq Users
    /\ departmentOf \in [Users -> DOMAIN nomenclaturesOf \cup {NoDepartment}]
    /\ DOMAIN nomenclaturesOf \subseteq Departments
    /\ \A d \in DOMAIN nomenclaturesOf : nomenclaturesOf[d] \subseteq Nomenclatures
    /\ grants \subseteq Users \X Kinds \X Actions
    /\ substitutions \in [Users -> Substitution \cup {NoSubstitution}]
    /\ today \in Days
    /\ executorsOf \in [Documents -> SUBSET Users]
    /\ acknowledgersOf \in [Documents -> SUBSET Users]

-----------------------------------------------------------------------------
(* Who acts.                                                               *)

\* A substitution row that is in force on the current date.
InForce(s) ==
    /\ s # NoSubstitution
    /\ s.active
    /\ s.from = NoDate \/ s.from <= today
    /\ s.until = NoDate \/ s.until >= today

IsActiveSubstitute(u, principal) ==
    InForce(substitutions[principal]) /\ substitutions[principal].substitute = u

ActivePrincipals(u) == {p \in Users : IsActiveSubstitute(u, p)}

\* The user and everybody the user stands in for; substitutions do not chain.
Subjects(u) == {u} \cup ActivePrincipals(u)

HasPermission(u, kind, action) ==
    \/ <<u, kind, action>> \in grants
    \/ <<departmentOf[u], kind, action>> \in DepartmentGrants

HasAnyDocumentPermission(u) == \E k \in Kinds, a \in Actions : HasPermission(u, k, a)

KindsWithAction(u, action) == {k \in Kinds : HasPermission(u, k, action)}

AvailableActions(u, kind) == {a \in Actions : HasPermission(u, kind, a)}

DepartmentNomenclatures(u) ==
    IF departmentOf[u] \in DOMAIN nomenclaturesOf THEN nomenclaturesOf[departmentOf[u]] ELSE {}

\* The gate of the whole document domain.
RequireDomainRead(u) ==
    \/ u \in participants
    \/ Subjects(u) # {u}
    \/ HasAnyDocumentPermission(u)

-----------------------------------------------------------------------------
(* The decision for one document.                                          *)

ExecutesIn(subjects, d) == subjects \cap executorsOf[d] # {}
AcknowledgesIn(subjects, d) == subjects \cap acknowledgersOf[d] # {}

\* A variant for the mutants: a participant reads by nomenclature, everybody
\* else by being named.
EitherNomenclatureOrNamed(u, d) ==
    IF u \in participants THEN NomenclatureOf[d] \in DepartmentNomenclatures(u)
    ELSE Cardinality(Subjects(u)) > 1 /\ (ExecutesIn(Subjects(u), d) \/ AcknowledgesIn(Subjects(u), d))

HasImplicitReadAccess(u, d) ==
    \/ u \in participants /\ NomenclatureOf[d] \in DepartmentNomenclatures(u)
    \/ /\ u \in participants \/ Cardinality(Subjects(u)) > 1
       /\ ExecutesIn(Subjects(u), d) \/ AcknowledgesIn(Subjects(u), d)

CanReadResolved(u, d) == HasPermission(u, KindOf[d], "read") \/ HasImplicitReadAccess(u, d)

RequireReadResolved(u, d) == RequireDomainRead(u) /\ CanReadResolved(u, d)

\* The decision for a document that the caller has loaded: its kind, number and
\* nomenclature are arguments.
RequireResolvedRead(u, kind, d, nomenclature) ==
    /\ RequireDomainRead(u)
    /\ \/ HasPermission(u, kind, "read")
       \/ u \in participants /\ nomenclature \in DepartmentNomenclatures(u)
       \/ /\ u \in participants \/ Subjects(u) # {u}
          /\ \E s \in Subjects(u) : s \in executorsOf[d] \/ s \in acknowledgersOf[d]

\* The documents of a set on which one of the subjects has an assignment, or is
\* asked to acknowledge.
AssignedAmong(subjects, ids) == {d \in ids : ExecutesIn(subjects, d)}
AcknowledgedAmong(subjects, ids) == {d \in ids : AcknowledgesIn(subjects, d)}

\* A variant for the mutants: the named documents are not tied to the flag of
\* the participant or to a substitution.
ReadableWithoutScope(u, ids) ==
    IF ~RequireDomainRead(u) THEN {}
    ELSE {d \in ids : \/ HasPermission(u, KindOf[d], "read")
                      \/ u \in participants /\ NomenclatureOf[d] \in DepartmentNomenclatures(u)
                      \/ ExecutesIn(Subjects(u), d) \/ AcknowledgesIn(Subjects(u), d)}

\* The decision for a set of documents: facts are gathered per source, then
\* every document is looked up in them.  A refused gate refuses the whole set.
ResolveReadableDocuments(u, ids) ==
    LET inScope      == u \in participants \/ Cardinality(Subjects(u)) > 1
        allowedNoms  == IF u \in participants THEN DepartmentNomenclatures(u) ELSE {}
        assigned     == IF inScope THEN AssignedAmong(Subjects(u), ids) ELSE {}
        acknowledged == IF inScope THEN AcknowledgedAmong(Subjects(u), ids) ELSE {}
        readKinds    == {KindOf[d] : d \in {e \in ids : HasPermission(u, KindOf[e], "read")}}
    IN  IF ~RequireDomainRead(u) THEN {}
        ELSE {d \in ids : \/ KindOf[d] \in readKinds
                          \/ inScope /\ NomenclatureOf[d] \in allowedNoms
                          \/ d \in assigned
                          \/ d \in acknowledged}

-----------------------------------------------------------------------------
(* The decision inside the list query: a scope, then its SQL condition.    *)

\* A variant for the mutants: the nomenclatures of the department for everybody.
ScopeOfDepartment(u, kind) ==
    [restricted |-> ~HasPermission(u, kind, "read"), users |-> Subjects(u),
     nomenclatures |-> DepartmentNomenclatures(u)]

ResolveReadScope(u, kind) ==
    IF HasPermission(u, kind, "read")
    THEN [restricted |-> FALSE, users |-> {}, nomenclatures |-> {}]
    ELSE [restricted |-> TRUE, users |-> Subjects(u),
          nomenclatures |-> IF u \in participants THEN DepartmentNomenclatures(u) ELSE {}]

ListAccess(scope, d) ==
    \/ ~scope.restricted
    \/ NomenclatureOf[d] \in scope.nomenclatures
    \/ ExecutesIn(scope.users, d)
    \/ AcknowledgesIn(scope.users, d)

ListedDocuments(u, kind) ==
    {d \in Documents : KindOf[d] = kind /\ RequireDomainRead(u)
                       /\ ListAccess(ResolveReadScope(u, kind), d)}

-----------------------------------------------------------------------------
(* The decisions that rest on reading.                                     *)

RequireCreate(u, kind) == HasPermission(u, kind, "create")

RequireDocumentAction(u, d, action) ==
    HasPermission(u, KindOf[d], action) /\ RequireReadResolved(u, d)

RequireViewJournal(u, d) ==
    HasPermission(u, KindOf[d], "view_journal") /\ RequireReadResolved(u, d)

ResolveLink(u, source, target) ==
    \A d \in {source, target} : RequireReadResolved(u, d) /\ HasPermission(u, KindOf[d], "link")

\* Taking part in an assignment of the document, which lets the user attach
\* files when the assignment is reported.
HasAssignmentAccess(u, d) == RequireDomainRead(u) /\ ExecutesIn(Subjects(u), d)

MayUpload(u, d, completionFilesEnabled) ==
    \/ RequireDocumentAction(u, d, "upload")
    \/ completionFilesEnabled /\ HasAssignmentAccess(u, d)

-----------------------------------------------------------------------------
(* The administration of the facts.                                        *)

AccessInit ==
    /\ participants = Users
    /\ departmentOf = [u \in Users |-> NoDepartment]
    /\ nomenclaturesOf = [d \in Departments |-> {}]
    /\ grants = {}
    /\ substitutions = [u \in Users |-> NoSubstitution]
    /\ today = 1
    /\ executorsOf = [d \in Documents |-> {}]
    /\ acknowledgersOf = [d \in Documents |-> {}]

\* An administrator saves a user: the participant flag and the department of
\* the row are replaced.  Substitutions are not looked at.
UpdateUser(u, participant, department) ==
    /\ department \in DOMAIN nomenclaturesOf \cup {NoDepartment}
    /\ participants' = IF participant THEN participants \cup {u} ELSE participants \ {u}
    /\ departmentOf' = [departmentOf EXCEPT ![u] = department]
    /\ UNCHANGED <<nomenclaturesOf, grants, substitutions, today, facts>>

\* The document rights of a user are replaced as a whole.
ReplaceUserAccessProfile(u, rights) ==
    /\ rights \subseteq Kinds \X Actions
    /\ grants' = {g \in grants : g[1] # u} \cup {<<u, r[1], r[2]>> : r \in rights}
    /\ UNCHANGED <<people, substitutions, today, facts>>

UpdateDepartment(dep, ns) ==
    /\ dep \in DOMAIN nomenclaturesOf
    /\ nomenclaturesOf' = [nomenclaturesOf EXCEPT ![dep] = ns]
    /\ UNCHANGED <<participants, departmentOf, grants, substitutions, today, facts>>

\* The rows of department_nomenclature go with the department, and
\* users.department_id is set to NULL.
DeleteDepartment(dep) ==
    /\ dep \in DOMAIN nomenclaturesOf
    /\ nomenclaturesOf' = [d \in DOMAIN nomenclaturesOf \ {dep} |-> nomenclaturesOf[d]]
    /\ departmentOf' = [u \in Users |-> IF departmentOf[u] = dep THEN NoDepartment ELSE departmentOf[u]]
    /\ UNCHANGED <<participants, grants, substitutions, today, facts>>

CreateDepartment(dep, ns) ==
    /\ dep \notin DOMAIN nomenclaturesOf
    /\ nomenclaturesOf' =
         [d \in DOMAIN nomenclaturesOf \cup {dep} |-> IF d = dep THEN ns ELSE nomenclaturesOf[d]]
    /\ UNCHANGED <<participants, departmentOf, grants, substitutions, today, facts>>

ValidSubstitution(p, s) ==
    /\ p \in participants
    /\ s.from # NoDate /\ s.until # NoDate => s.from <= s.until
    /\ s.substitute # p
    /\ departmentOf[p] # NoDepartment
    /\ departmentOf[s.substitute] = departmentOf[p]

\* The principal or an administrator saves the one substitution of p.
SaveSubstitution(p, s) ==
    /\ ValidSubstitution(p, s)
    /\ substitutions' = [substitutions EXCEPT ![p] = s]
    /\ UNCHANGED <<people, grants, today, facts>>

ClearSubstitution(p) ==
    /\ substitutions' = [substitutions EXCEPT ![p] = NoSubstitution]
    /\ UNCHANGED <<people, grants, today, facts>>

\* CURRENT_DATE moves on.
NextDay ==
    /\ today < LastDay
    /\ today' = today + 1
    /\ UNCHANGED <<people, grants, substitutions, facts>>

\* What the assignments and the sheets of a document say changes.
NameExecutors(d, us) ==
    /\ executorsOf' = [executorsOf EXCEPT ![d] = us]
    /\ UNCHANGED <<people, grants, substitutions, today, acknowledgersOf>>

NameAcknowledgers(d, us) ==
    /\ acknowledgersOf' = [acknowledgersOf EXCEPT ![d] = us]
    /\ UNCHANGED <<people, grants, substitutions, today, executorsOf>>

Named == LET pairs(f) == {p \in Documents \X Users : p[2] \in f[p[1]]}
         IN  Cardinality(pairs(executorsOf)) + Cardinality(pairs(acknowledgersOf))

AccessNext ==
    \/ \E u \in Users, participant \in BOOLEAN, d \in Departments \cup {NoDepartment} :
           UpdateUser(u, participant, d)
    \/ \E u \in Users, rights \in Profiles : ReplaceUserAccessProfile(u, rights)
    \/ \E d \in Departments, ns \in SUBSET Nomenclatures :
           UpdateDepartment(d, ns) \/ CreateDepartment(d, ns)
    \/ \E d \in Departments : DeleteDepartment(d)
    \/ \E p, s \in Users, active \in BOOLEAN, w \in Windows :
           SaveSubstitution(p, [substitute |-> s, active |-> active, from |-> w[1], until |-> w[2]])
    \/ \E p \in Users : ClearSubstitution(p)
    \/ NextDay
    \/ \E d \in Documents, us \in SUBSET Users :
           (NameExecutors(d, us) \/ NameAcknowledgers(d, us)) /\ Named' <= MaxNamed

AccessSpec == AccessInit /\ [][AccessNext]_accessVars

-----------------------------------------------------------------------------
(* Properties.                                                             *)

Readable(u) == {d \in Documents : RequireReadResolved(u, d)}

\* The card, the access check of a loaded document and the bulk check used by
\* the link graph and by the sheets give the same answer for every document:
\* three translations of one policy have not drifted apart.
OnePolicy ==
    \A u \in Users :
        /\ ResolveReadableDocuments(u, Documents) = Readable(u)
        /\ \A d \in Documents :
               /\ RequireResolvedRead(u, KindOf[d], d, NomenclatureOf[d]) <=> d \in Readable(u)
               /\ ResolveReadableDocuments(u, {d}) = Readable(u) \cap {d}

\* What a user can open is in the user's list, and a participant or a
\* substitute can open everything that the list shows.  (A user who is neither,
\* and has passed the gate by some permission, is shown documents with an
\* assignment of his own that the card refuses.)
ListMatchesCard ==
    \A u \in Users :
        LET listed == UNION {ListedDocuments(u, k) : k \in Kinds}
        IN  /\ Readable(u) \subseteq listed
            /\ u \in participants \/ Subjects(u) # {u} => listed = Readable(u)

\* Taking something away never opens a document: withdrawing a permission, a
\* participant flag, a nomenclature, a department, a substitution, an executor
\* or a sheet leaves every user with at most the documents he had.
Withdrawal ==
    /\ participants' \subseteq participants
    /\ grants' \subseteq grants
    /\ \A u \in Users : departmentOf'[u] \in {departmentOf[u], NoDepartment}
    /\ DOMAIN nomenclaturesOf' \subseteq DOMAIN nomenclaturesOf
    /\ \A d \in DOMAIN nomenclaturesOf' : nomenclaturesOf'[d] \subseteq nomenclaturesOf[d]
    /\ \A u \in Users : ActivePrincipals(u)' \subseteq ActivePrincipals(u)
    /\ \A d \in Documents : /\ executorsOf'[d] \subseteq executorsOf[d]
                            /\ acknowledgersOf'[d] \subseteq acknowledgersOf[d]

WithdrawalOpensNothing ==
    [][Withdrawal => \A u \in Users : Readable(u)' \subseteq Readable(u)]_accessVars
=============================================================================
