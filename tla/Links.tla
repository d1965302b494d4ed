-------------------------------- MODULE Links --------------------------------
(***************************************************************************)
(* Links between documents (services/link_service.go,                      *)
(* repository/link_repo.go), beside the edits of Orders: a cancelling link *)
(* changes the order it points to in its own transaction.  The graph that  *)
(* a user is shown is found by a recursive query over all links and then   *)
(* cut down to what the user may read, by the DocumentAccess of the same   *)
(* users.  The rights themselves do not change here.                       *)
(***************************************************************************)
EXTENDS Orders

CONSTANTS
    Users, Documents, Kinds, KindOf,
    Links,              \* ids; an id is used for one link only
    LinkTypes,
    MaxDepth,           \* 5 in the query of the graph
    Pairs,              \* bound: sources and targets of the links that are asked for
    MaxDeletions,       \* bound: links that are deleted
    RightsSets          \* bound: the rights in force during a behaviour

OrderKind == "administrative_order"
OrderOnly == {"order_amends", "order_cancels"}

ASSUME LinkConstants ==
    /\ KindOf \in [Documents -> Kinds]
    /\ Orders = {d \in Documents : KindOf[d] = OrderKind}
    /\ MaxDepth \in Nat \ {0} /\ MaxDeletions \in Nat
    /\ Pairs \subseteq Documents \X Documents
    /\ \A rights \in RightsSets : rights \subseteq Users \X Kinds \X {"read", "link", "update"}

VARIABLES
    links,              \* document_links: [Links -> source, target and type]
    journal,            \* <<link, action, document>> of the journal events in the outbox
    grants              \* the rights, see DocumentAccess

linkVars == <<links, journal>>
vars == <<orderVars, linkVars, grants>>

NoLink == [type |-> "none"]
LinkRow == [source : Documents, target : Documents, type : LinkTypes]
Present == {l \in Links : links[l] # NoLink}
Ends(l) == {links[l].source, links[l].target}

Access == INSTANCE DocumentAccess WITH
    Departments <- {}, Nomenclatures <- {"index"}, DepartmentGrants <- {},
    NomenclatureOf <- [d \in Documents |-> "index"],
    Actions <- {"read", "link", "update"},
    Profiles <- {}, Windows <- {}, MaxNamed <- 0, LastDay <- 1,
    participants <- {},
    departmentOf <- [u \in Users |-> "no department"],
    nomenclaturesOf <- [d \in {} |-> {}],
    substitutions <- [u \in Users |-> [substitute |-> "none"]],
    today <- 1,
    executorsOf <- [d \in Documents |-> {}],
    acknowledgersOf <- [d \in Documents |-> {}]

Init ==
    /\ OrdersInit
    /\ links = [l \in Links |-> NoLink]
    /\ journal = {}
    /\ grants \in RightsSets

-----------------------------------------------------------------------------
(* The operations.                                                         *)

ValidLinkType(source, target, type) ==
    type \in OrderOnly => KindOf[source] = OrderKind /\ KindOf[target] = OrderKind

\* UNIQUE (source_document_id, target_document_id).
Free(source, target) ==
    \A l \in Present : <<links[l].source, links[l].target>> # <<source, target>>

RecordedOnce(l, action, ends) == journal \cup {<<l, action, CHOOSE d \in ends : TRUE>>}

Recorded(l, action, ends) == journal \cup ({l} \X {action} \X ends)

Used(l) == \E d \in Documents : <<l, "LINK_CREATE", d>> \in journal
Linkers(source, target) == {u \in Users : Access!ResolveLink(u, source, target)}

Insert(u, l, source, target, type) ==
    /\ ~Used(l)
    /\ source # target
    /\ u \in Linkers(source, target)
    /\ ValidLinkType(source, target, type)
    /\ Free(source, target)
    /\ links' = [links EXCEPT ![l] = [source |-> source, target |-> target, type |-> type]]
    /\ journal' = Recorded(l, "LINK_CREATE", {source, target})

LinkDocuments(u, l, source, target, type) ==
    /\ type # "order_cancels"
    /\ Insert(u, l, source, target, type)
    /\ UNCHANGED <<orderVars, grants>>

\* CreateAndCancelOrderWithOutbox: the target is cancelled in the transaction
\* of the link, which waits for an edit that holds the order.
CancelByLink(u, l, source, target) ==
    /\ Insert(u, l, source, target, "order_cancels")
    /\ ~OrderLocked(target)
    /\ orders' = [orders EXCEPT ![target].active = FALSE, ![target].cancelled = TRUE]
    /\ UNCHANGED <<people, edits, grants>>

\* The order stays cancelled when the link that cancelled it goes.
UnlinkDocument(u, l) ==
    /\ l \in Present
    /\ Cardinality({k \in Links \ Present : Used(k)}) < MaxDeletions
    /\ u \in Linkers(links[l].source, links[l].target)
    /\ links' = [links EXCEPT ![l] = NoLink]
    /\ journal' = Recorded(l, "LINK_DELETE", Ends(l))
    /\ UNCHANGED <<orderVars, grants>>

Updaters(o) == {u \in Users : Access!RequireDocumentAction(u, o, "update")}

OrderStep ==
    /\ \/ \E o \in {q \in Orders : Updaters(q) # {}} :
            \/ \E c \in Calls, form \in FormsOf(o) : ReadPeople(c, o, form)
            \/ \E p \in people[o] : MarkAcknowledged(o, p)
       \/ \E c \in Calls : LockOrder(c) \/ ClearPeople(c) \/ CommitEdit(c) \/ RollbackEdit(c)
    /\ UNCHANGED <<linkVars, grants>>

Next ==
    \/ \E u \in Users, l \in Links, p \in Pairs :
         \/ \E type \in LinkTypes : LinkDocuments(u, l, p[1], p[2], type)
         \/ CancelByLink(u, l, p[1], p[2])
    \/ \E u \in Users, l \in Links : UnlinkDocument(u, l)
    \/ OrderStep

Spec == Init /\ [][Next]_vars

-----------------------------------------------------------------------------
(* The graph.                                                              *)

Leaving(d) == {l \in Present : links[l].source = d}

Touching(d) == {l \in Present : d \in Ends(l)}

\* GetGraph: a recursive query from the links of the root along both directions.
GetGraph(root) ==
    LET graph[n \in 1 .. MaxDepth] ==
          IF n = 1 THEN Touching(root)
          ELSE graph[n - 1] \cup UNION {Touching(d) : d \in UNION {Ends(g) : g \in graph[n - 1]}}
    IN  graph[MaxDepth]

KeepReadable(root, found, readable) == {l \in found : Ends(l) \subseteq readable}

\* keepReadableGraphLinksReachableFromRoot: the links with two readable ends,
\* as far as they hang together with the root.
KeepReachable(root, found, readable) ==
    LET filtered == {l \in found : Ends(l) \subseteq readable}
        reached[n \in 0 .. Cardinality(filtered)] ==
          IF n = 0 THEN {root}
          ELSE reached[n - 1] \cup
               UNION {Ends(l) : l \in {k \in filtered : Ends(k) \cap reached[n - 1] # {}}}
    IN  {l \in filtered : Ends(l) \subseteq reached[Cardinality(filtered)]}

\* GetDocumentFlow of the service.
DocumentFlow(u, root) ==
    IF ~Access!RequireDocumentAction(u, root, "link") THEN {}
    ELSE LET found == GetGraph(root)
         IN  KeepReachable(root, found, Access!ResolveReadableDocuments(u, UNION {Ends(l) : l \in found}))

\* GetDocumentLinks of the service.
DocumentLinks(u, d) ==
    IF ~Access!RequireDocumentAction(u, d, "link") THEN {}
    ELSE LET found == Touching(d)
             readable == Access!ResolveReadableDocuments(u, UNION {Ends(l) : l \in found})
         IN  {l \in found : Ends(l) \subseteq readable}

-----------------------------------------------------------------------------
(* Properties.                                                             *)

VisibleLinks(u) == {l \in Present : Ends(l) \subseteq Access!Readable(u)}

\* A user does not see documents outside what he may read, nor documents that
\* are connected with the root only through such a document: every set of
\* documents that holds the root and is closed under the user's own links
\* holds all that the graph shows.
FlowShowsNothingHidden ==
    \A u \in Users :
        LET visible == VisibleLinks(u)
        IN  \A root \in Documents : \A l \in DocumentFlow(u, root) :
                /\ l \in visible
                /\ \A S \in SUBSET Documents :
                     root \in S /\ (\A k \in visible : Ends(k) \cap S # {} => Ends(k) \subseteq S)
                       => Ends(l) \subseteq S

\* Nothing visible is missing: a walk of at most MaxDepth visible links from a
\* document whose links the user may see is in the graph, and the list of links
\* is its first layer.
FlowShowsAllVisible ==
    \A u \in Users :
        LET visible == VisibleLinks(u)
        IN  \A root \in {d \in Documents : Access!RequireDocumentAction(u, d, "link")} :
                LET flow == DocumentFlow(u, root)
                IN  /\ \A walk \in UNION {[1 .. n -> visible] : n \in 1 .. MaxDepth} :
                         root \in Ends(walk[1])
                         /\ (\A i \in 2 .. Len(walk) : Ends(walk[i - 1]) \cap Ends(walk[i]) # {})
                           => walk[Len(walk)] \in flow
                    /\ DocumentLinks(u, root) = {l \in flow : root \in Ends(l)}

\* Table and journal agree: a link exists exactly while both its documents have
\* recorded its creation and neither its deletion, and only orders amend or
\* cancel each other.
JournalTellsLinks ==
    \A l \in Links :
        LET recorded(action) == {d \in Documents : <<l, action, d>> \in journal}
        IN  /\ l \in Present <=> recorded("LINK_CREATE") # {} /\ recorded("LINK_DELETE") = {}
            /\ l \in Present => recorded("LINK_CREATE") = Ends(l)
            /\ l \notin Present => recorded("LINK_DELETE") = recorded("LINK_CREATE")
            /\ l \in Present /\ links[l].type \in OrderOnly => Ends(l) \subseteq Orders
=============================================================================
