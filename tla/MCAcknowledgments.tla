------------------------- MODULE MCAcknowledgments -------------------------
(***************************************************************************)
(* Acknowledgments for TLC: a clerk, an addressee, and a colleague who is  *)
(* addressed too or stands in; a letter that nobody else may read.         *)
(***************************************************************************)
EXTENDS Acknowledgments, TLC

CONSTANTS clerk, addressee, colleague, letter, letters, s1, c1, c2, c3

MCKindOf == letter :> letters
MCTeams == {{addressee, colleague}, {clerk, addressee}, Users}

Grant(u, as) == {<<u, letters, a>> : a \in as}

\* The colleague may control letters too, or not.
MCRightsSets == {Grant(clerk, {"acknowledge", "read"}),
                 Grant(clerk, {"acknowledge", "read"}) \cup Grant(colleague, {"acknowledge"})}
MCParticipantSets == {Users, {clerk}}
MCReplacementSets == {{}, {<<addressee, colleague>>}, {<<addressee, colleague>>, <<clerk, colleague>>}}
Symmetry == Permutations({c1, c2, c3})
=============================================================================
