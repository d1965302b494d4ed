-------------------------- MODULE MCAdministration --------------------------
(***************************************************************************)
(* The two things an administrator manages, for TLC: the schema of the     *)
(* database, which two copies of the program share (BackgroundLifecycle),  *)
(* or the rights of a principal and a colleague to two documents of        *)
(* different kinds and nomenclatures (DocumentAccess).  The other one      *)
(* stays as it begins.                                                     *)
(***************************************************************************)
EXTENDS BackgroundLifecycle, DocumentAccess, TLC

CONSTANTS u1, u2, dep, d1, d2, incoming, order, n1, n2

VARIABLE managed

AdministrationInit ==
    /\ Init /\ AccessInit
    /\ managed \in {"schema", "rights"}
    /\ managed = "rights" => schema.version = 0

AdministrationNext ==
    \/ managed = "schema" /\ Next /\ UNCHANGED <<accessVars, managed>>
    \/ managed = "rights" /\ AccessNext /\ UNCHANGED <<vars, managed>>

AdministrationSpec ==
    AdministrationInit /\ [][AdministrationNext]_<<vars, accessVars, managed>>

\* The copy "new" was built with one migration more than the copy "old".
Versions == [a \in Copies |-> IF a = "new" THEN 3 ELSE 2]

MCKindOf == d1 :> incoming @@ d2 :> order
MCNomenclatureOf == d1 :> n1 @@ d2 :> n2

\* The department may read orders; a user may be given letters to read, or
\* only the registration of letters.
MCDepartmentGrants == {<<dep, order, "read">>}
MCProfiles == {{}, {<<incoming, "read">>, <<incoming, "link">>, <<order, "link">>},
               {<<incoming, "create">>, <<order, "upload">>, <<order, "view_journal">>}}
Symmetry == Permutations({u1, u2})

MCWindows == {<<NoDate, 1>>, <<2, NoDate>>}
=============================================================================
