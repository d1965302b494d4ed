------------------------------ MODULE MCLinks ------------------------------
(***************************************************************************)
(* Links for TLC: two orders and two letters; two edits overlap.           *)
(***************************************************************************)
EXTENDS Links, TLC

CONSTANTS clerk, reader, o1, o2, letter, memo, k1, k2, k3, c1, c2, ann

MCKindOf == o1 :> OrderKind @@ o2 :> OrderKind @@ letter :> "letter" @@ memo :> "memo"

\* A path, whose letter is hidden from the reader.
MCPairs == {<<memo, letter>>, <<letter, o1>>, <<o1, o2>>}

Symmetry == Permutations({k1, k2, k3}) \cup Permutations({c1, c2})

SavedForm(title, active, names) ==
    [title |-> title, active |-> active, cancelled |-> ~active, names |-> names]
MCRegistered == o1 :> SavedForm("new", TRUE, <<>>) @@ o2 :> SavedForm("new", TRUE, <<ann>>)
MCEdits == {<<o2, SavedForm("ann twice", TRUE, <<ann, ann>>)>>, <<o2, SavedForm("ann", FALSE, <<ann>>)>>}

Grant(u, k, as) == {<<u, k, a>> : a \in as}

\* The clerk works with all kinds; the reader may link all, but not read letters.
MCRightsSets ==
    {Grant(clerk, OrderKind, {"read", "link", "update"})
     \cup UNION {Grant(clerk, k, {"read", "link"}) : k \in {"letter", "memo"}}
     \cup UNION {Grant(reader, k, {"read", "link"}) : k \in {OrderKind, "memo"}}
     \cup Grant(reader, "letter", {"link"})}
=============================================================================
