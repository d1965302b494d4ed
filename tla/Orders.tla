------------------------------- MODULE Orders -------------------------------
(***************************************************************************)
(* Administrative orders after their registration: the edit of an order    *)
(* (services/administrative_order_command_handler.go, Update), which writes*)
(* its fields and replaces the list of the people who must be acquainted   *)
(* with it, and the marks on that list                                     *)
(* (services/administrative_order_service.go, MarkAcknowledged).  An edit  *)
(* reads the list first and replaces it later, in a transaction that holds *)
(* the row of the order; marks lock only their own row.                    *)
(***************************************************************************)
EXTENDS Naturals, Sequences, FiniteSets

LOCAL INSTANCE FiniteSetsExt

CONSTANTS
    Orders,
    Names,              \* people, by their trimmed name in lower case
    Registered,         \* [Orders -> Form]: what each order was registered with
    Edits,              \* bound: <<order, form>> of the edits that are asked for
    Calls,              \* calls that may be in flight together
    MaxEdits            \* bound: edits that are committed

\* A saved form: the title stands for all its plain fields.
Form == [title : STRING, active : BOOLEAN, cancelled : BOOLEAN, names : Seq(Names)]
FormsOf(o) == {Registered[o]} \cup {form \in {e[2] : e \in Edits} : <<o, form>> \in Edits}

ASSUME OrderConstants ==
    /\ Registered \in [Orders -> Form]
    /\ \A o \in Orders : Registered[o].active <=> ~Registered[o].cancelled   \* as for an edit
    /\ \A e \in Edits : e[1] \in Orders /\ e[2] \in Form
    /\ \A o \in Orders : \A e, f \in FormsOf(o) : e.title = f.title => e = f
    /\ MaxEdits \in Nat

VARIABLES
    orders,             \* administrative_order_details: title, is_active, cancelled_at set
    people,             \* the rows of the list: position and generation, name, mark
    edits               \* the edits in flight

orderVars == <<orders, people, edits>>

Idle == [at |-> "idle"]
RowOf(form, generation) ==
    [title |-> form.title, active |-> form.active, cancelled |-> form.cancelled, edits |-> generation]

-----------------------------------------------------------------------------
(* The replacement of the list.                                            *)

\* validateOrderActivity: an order is in force exactly while it has no date of
\* cancellation.
ValidActivity(form) == form.active <=> ~form.cancelled

Holds(names, name) == Cardinality({i \in DOMAIN names : names[i] = name})

RowsOf(rows, name) == {p \in rows : p.name = name}

KeepsAnyone(names, existing) == TRUE

\* "An acquainted person cannot be removed": every mark that was read must find
\* its name in the form.
KeepsAcquainted(names, existing) ==
    \A n \in Names : Cardinality({p \in RowsOf(existing, n) : p.marked}) <= Holds(names, n)

\* The row that hands its mark to the i-th name: homonyms are matched in the
\* order of the old list.
Predecessor(names, existing, i) ==
    LET earlier == Holds(SubSeq(names, 1, i - 1), names[i])
    IN  {p \in RowsOf(existing, names[i]) :
            Cardinality({q \in RowsOf(existing, names[i]) : q.position < p.position}) = earlier}

Replacement(names, existing, generation) ==
    {[generation |-> generation, position |-> i, name |-> names[i],
      marked |-> \E p \in Predecessor(names, existing, i) : p.marked] : i \in DOMAIN names}

OrdersInit ==
    /\ orders = [o \in Orders |-> RowOf(Registered[o], 0)]
    /\ people = [o \in Orders |-> Replacement(Registered[o].names, {}, 0)]
    /\ edits = [c \in Calls |-> Idle]

-----------------------------------------------------------------------------
(* The steps.                                                              *)

NothingLocked(o) == FALSE

\* An edit holds the row of the order from its first UPDATE to its commit.
OrderLocked(o) == \E c \in Calls : edits[c].at \in {"locked", "cleared"} /\ edits[c].order = o

Doomed(o, p) == \E c \in Calls : edits[c].at = "cleared" /\ edits[c].order = o /\ p \in edits[c].doomed

Committed == MapThenSumSet(LAMBDA q : orders[q].edits, Orders)

\* The list is read before the transaction begins.
ReadPeople(c, o, form) ==
    /\ edits[c] = Idle
    /\ Committed < MaxEdits
    /\ <<o, form>> \in Edits
    /\ ValidActivity(form)
    /\ edits' = [edits EXCEPT ![c] =
         [at |-> "read", order |-> o, form |-> form, existing |-> people[o]]]
    /\ UNCHANGED <<orders, people>>

LockOrder(c) ==
    /\ edits[c].at = "read"
    /\ ~OrderLocked(edits[c].order)
    /\ edits' = [edits EXCEPT ![c].at = "locked"]
    /\ UNCHANGED <<orders, people>>

\* The check uses what was read; the DELETE takes all rows there are by now.
ClearPeople(c) ==
    LET edit == edits[c]
    IN  /\ edit.at = "locked"
        /\ edits' = [edits EXCEPT ![c] =
             IF KeepsAcquainted(edit.form.names, edit.existing)
             THEN [at |-> "cleared", order |-> edit.order, form |-> edit.form,
                   existing |-> edit.existing, doomed |-> people[edit.order]]
             ELSE Idle]
        /\ UNCHANGED <<orders, people>>

\* Fields and list become visible together.
CommitEdit(c) ==
    LET edit == edits[c]
        o == edit.order
        generation == orders[o].edits + 1
    IN  /\ edit.at = "cleared"
        /\ Committed < MaxEdits
        /\ orders' = [orders EXCEPT ![o] = RowOf(edit.form, generation)]
        /\ people' = [people EXCEPT ![o] =
             (@ \ edit.doomed) \cup Replacement(edit.form.names, edit.existing, generation)]
        /\ edits' = [edits EXCEPT ![c] = Idle]

\* A statement fails or the process dies.
RollbackEdit(c) ==
    /\ edits[c] # Idle
    /\ edits' = [edits EXCEPT ![c] = Idle]
    /\ UNCHANGED <<orders, people>>

\* One UPDATE of one row, which waits while an edit is deleting it.
MarkAcknowledged(o, p) ==
    /\ p \in people[o] /\ ~p.marked
    /\ ~Doomed(o, p)
    /\ people' = [people EXCEPT ![o] = (@ \ {p}) \cup {[p EXCEPT !.marked = TRUE]}]
    /\ UNCHANGED <<orders, edits>>

-----------------------------------------------------------------------------
(* Properties.                                                             *)

\* The fields and the list of an order come from one saved form, however edits
\* overlapped: nothing of one edit is mixed with the list of another, and an
\* order is in force exactly while it has no date of cancellation.
OrderIsOneEdit ==
    \A o \in Orders : \E form \in FormsOf(o) :
        /\ orders[o].title = form.title
        /\ orders[o].active => form.active
        /\ orders[o].active <=> ~orders[o].cancelled
        /\ \A n \in Names : Cardinality(RowsOf(people[o], n)) = Holds(form.names, n)

\* "An acquainted person cannot be removed" (administrative_order_repo.go:654):
\* a mark is lost only to an edit that read the list before the mark was made
\* (the marked row is not among those it read), or to one that leaves out an
\* unmarked row of homonyms.
Marked(rows, name) == Cardinality({p \in RowsOf(rows, name) : p.marked})

MarksAreLostToStaleEditsOnly ==
    [][\A o \in Orders, n \in Names :
          Marked(people'[o], n) < Marked(people[o], n) =>
            \E c \in Calls :
              /\ edits[c].at = "cleared" /\ edits[c].order = o
              /\ \/ \E p \in RowsOf(people[o], n) : p.marked /\ p \notin edits[c].existing
                 \/ Holds(edits[c].form.names, n) \in
                      Marked(edits[c].existing, n) .. (Cardinality(RowsOf(people[o], n)) - 1)]_orderVars
=============================================================================
