--------------------------- MODULE MCAssignments ---------------------------
(***************************************************************************)
(* Assignments for TLC: a manager, an executor and a colleague who may     *)
(* stand in for the executor; a letter and an order.                       *)
(***************************************************************************)
EXTENDS Assignments, TLC

CONSTANTS manager, executor, colleague, letter, order, letters, orders, a1, c1, c2

MCKindOf == letter :> letters @@ order :> orders

Report(status, report) == [op |-> "status", status |-> status, report |-> report]
Edit(e, cs) == [op |-> "update", executor |-> e, coExecutors |-> cs]

MCRequests ==
    {executor} \X {Report("in_progress", ""), Report("completed", "text")}
    \cup {colleague} \X {Report("completed", "text")}
    \cup {manager} \X {Report("returned", "text"), Report("finished", ""),
                      Edit(colleague, {executor}), [op |-> "delete"]}

MCTeams == {<<executor, {}>>}

Grant(u, k, as) == {<<u, k, a>> : a \in as}

\* The manager assigns on letters only; or on both kinds, and the executor on
\* letters that the executor has no right to read.
MCRightsSets ==
    {Grant(manager, letters, {"assign", "read"}),
     Grant(manager, letters, {"assign", "read"}) \cup Grant(manager, orders, {"assign", "read"})
       \cup Grant(executor, letters, {"assign"})}

Symmetry == Permutations({c1, c2})

MCParticipantSets == {Users, {manager}}
MCReplacements == {<<executor, colleague>>}
=============================================================================
