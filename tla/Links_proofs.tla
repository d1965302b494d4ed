---------------------------- MODULE Links_proofs ----------------------------
(***************************************************************************)
(* Proofs about administrative orders and the links between documents, for *)
(* any number of orders, people, calls, users, documents, kinds and links, *)
(* any forms that are saved and any bounds.                                *)
(***************************************************************************)
EXTENDS Links, FiniteSetTheorems, TLAPS

USE OrderConstants, LinkConstants

-----------------------------------------------------------------------------
(* The lists of people.                                                    *)

Person == [generation : Nat, position : Nat, name : Names, marked : BOOLEAN]

(* A list in the table: positions tell its rows apart.                     *)
IsList(rows) ==
    /\ rows \in SUBSET Person
    /\ IsFiniteSet(rows)
    /\ \A p, q \in rows : p.position = q.position => p = q

(* The same list, later: only marks were added.                            *)
Later(old, new) ==
    /\ \A p \in old : \E q \in new :
         q.position = p.position /\ q.name = p.name /\ (p.marked => q.marked)
    /\ \A q \in new : \E p \in old : p.position = q.position /\ p.name = q.name

AllOf(rows, generation) == \A p \in rows : p.generation = generation

(* The forms of an order are forms.                                        *)
LEMMA FormsAreForms ==
    ASSUME NEW o \in Orders, NEW form \in FormsOf(o)
    PROVE  form \in Form /\ form.names \in Seq(Names)
  <1>1. form \in Form
    BY DEF FormsOf
  <1>2. QED
    BY <1>1 DEF Form

(* A replacement has one row for each name of the form, in its place.      *)
LEMMA ReplacementIsTheForm ==
    ASSUME NEW names \in Seq(Names), NEW existing, NEW generation \in Nat
    PROVE  LET new == Replacement(names, existing, generation)
           IN  /\ IsList(new)
               /\ AllOf(new, generation)
               /\ \A n \in Names : Cardinality(RowsOf(new, n)) = Holds(names, n)
  <1> DEFINE marked(i) == \E p \in Predecessor(names, existing, i) : p.marked
             R(i) == [generation |-> generation, position |-> i, name |-> names[i],
                      marked |-> marked(i)]
             new == Replacement(names, existing, generation)
  <1>1. /\ new = {R(i) : i \in DOMAIN names}
        /\ DOMAIN names = 1 .. Len(names) /\ Len(names) \in Nat
    BY DEF Replacement
  <1>2. \A i \in DOMAIN names : names[i] \in Names /\ i \in Nat /\ marked(i) \in BOOLEAN
    BY <1>1
  <1> HIDE DEF marked
  <1>3. \A i \in DOMAIN names : R(i) \in Person /\ R(i).position = i /\ R(i).name = names[i]
                                /\ R(i).generation = generation
    BY <1>2 DEF Person
  <1>4. IsFiniteSet(DOMAIN names)
    BY <1>1, FS_Interval
  <1> DEFINE f == [i \in DOMAIN names |-> R(i)]
  <1> HIDE DEF R, new
  <1>5. f \in Surjection(DOMAIN names, new)
    BY <1>1 DEF Surjection
  <1>6. IsFiniteSet(new)
    <2> HIDE DEF f
    <2>1. QED
      BY <1>4, <1>5, FS_Surjection
  <1>7. IsList(new) /\ AllOf(new, generation)
    BY <1>1, <1>3, <1>6 DEF IsList, AllOf
  <1>8. ASSUME NEW n \in Names PROVE Cardinality(RowsOf(new, n)) = Holds(names, n)
    <2> DEFINE at == {i \in DOMAIN names : names[i] = n}
               g == [i \in at |-> R(i)]
    <2>1. IsFiniteSet(at)
      BY <1>4, FS_Subset
    <2>2. RowsOf(new, n) = {R(i) : i \in at}
      BY <1>1, <1>3 DEF RowsOf
    <2>3. g \in Bijection(at, RowsOf(new, n))
      <3>1. \A i, j \in at : g[i] = g[j] => i = j
        BY <1>3
      <3>2. g \in [at -> RowsOf(new, n)]
        BY <2>2
      <3>3. \A r \in RowsOf(new, n) : \E i \in at : g[i] = r
        BY <2>2
      <3> HIDE DEF g, at
      <3>4. g \in Injection(at, RowsOf(new, n))
        BY <3>1, <3>2 DEF Injection, IsInjective
      <3>5. g \in Surjection(at, RowsOf(new, n))
        BY <3>2, <3>3 DEF Surjection
      <3>6. QED
        BY <3>4, <3>5 DEF Bijection
    <2>4. Cardinality(RowsOf(new, n)) = Cardinality(at)
      <3> HIDE DEF at, g
      <3>1. ExistsBijection(at, RowsOf(new, n))
        BY <2>3 DEF ExistsBijection
      <3>2. QED
        BY <2>1, <3>1, FS_Bijection
    <2>5. QED
      BY <2>4 DEF Holds
  <1>9. QED
    BY <1>7, <1>8 DEF new

(* A mark changes one row and no number.                                   *)
LEMMA MarkKeepsTheList ==
    ASSUME NEW rows, IsList(rows), NEW p \in rows, ~p.marked,
           NEW generation, AllOf(rows, generation)
    PROVE  LET new == (rows \ {p}) \cup {[p EXCEPT !.marked = TRUE]}
           IN  /\ IsList(new)
               /\ AllOf(new, generation)
               /\ Later(rows, new)
               /\ \A n \in Names : Cardinality(RowsOf(new, n)) = Cardinality(RowsOf(rows, n))
  <1> DEFINE q == [p EXCEPT !.marked = TRUE]
             new == (rows \ {p}) \cup {q}
  <1>1. p \in Person
    BY DEF IsList
  <1>2. /\ q \in Person /\ q.position = p.position /\ q.name = p.name
        /\ q.generation = p.generation /\ q.marked
    BY <1>1 DEF Person
  <1> HIDE DEF q
  <1>3. q # p /\ q \notin rows
    BY <1>2 DEF IsList
  <1>4. IsFiniteSet(rows \ {p}) /\ IsFiniteSet(new)
    <2>1. IsFiniteSet(rows \ {p})
      BY FS_RemoveElement DEF IsList
    <2>2. QED
      BY <2>1, FS_AddElement
  <1>5. IsList(new)
    BY <1>2, <1>4 DEF IsList
  <1>6. AllOf(new, generation)
    BY <1>2 DEF AllOf
  <1>7. Later(rows, new)
    BY <1>2 DEF Later
  <1>8. ASSUME NEW n \in Names PROVE Cardinality(RowsOf(new, n)) = Cardinality(RowsOf(rows, n))
    <2>1. IsFiniteSet(RowsOf(rows, n))
      BY FS_Subset DEF RowsOf, IsList
    <2>2. CASE p.name = n
      <3>1. RowsOf(new, n) = (RowsOf(rows, n) \ {p}) \cup {q}
        BY <1>2, <2>2 DEF RowsOf
      <3>2. p \in RowsOf(rows, n) /\ q \notin RowsOf(rows, n) \ {p}
        BY <1>3, <2>2 DEF RowsOf
      <3>3. /\ IsFiniteSet(RowsOf(rows, n) \ {p})
            /\ Cardinality(RowsOf(rows, n) \ {p}) = Cardinality(RowsOf(rows, n)) - 1
        BY <2>1, <3>2, FS_RemoveElement
      <3>4. Cardinality((RowsOf(rows, n) \ {p}) \cup {q}) = Cardinality(RowsOf(rows, n) \ {p}) + 1
        BY <3>2, <3>3, FS_AddElement
      <3>5. Cardinality(RowsOf(rows, n)) \in Nat
        BY <2>1, FS_CardinalityType
      <3>6. Cardinality(RowsOf(new, n)) = Cardinality((RowsOf(rows, n) \ {p}) \cup {q})
        BY <3>1, Zenon
      <3> HIDE DEF new
      <3>7. QED
        BY <3>3, <3>4, <3>5, <3>6
    <2>3. CASE p.name # n
      <3>1. RowsOf(new, n) = RowsOf(rows, n)
        BY <1>2, <2>3 DEF RowsOf
      <3>2. QED
        BY <3>1
    <2>4. QED
      BY <2>2, <2>3
  <1>9. QED
    BY <1>5, <1>6, <1>7, <1>8 DEF q

(* Later is reflexive and transitive.                                      *)
LEMMA LaterIsOrder ==
    ASSUME NEW a, NEW b, NEW c
    PROVE  Later(a, a) /\ (Later(a, b) /\ Later(b, c) => Later(a, c))
  <1>1. Later(a, a)
    BY DEF Later
  <1>2. ASSUME Later(a, b), Later(b, c) PROVE Later(a, c)
    <2>1. ASSUME NEW p \in a
          PROVE  \E r \in c : r.position = p.position /\ r.name = p.name /\ (p.marked => r.marked)
      <3>1. PICK q \in b : q.position = p.position /\ q.name = p.name /\ (p.marked => q.marked)
        BY <1>2 DEF Later
      <3>2. PICK r \in c : r.position = q.position /\ r.name = q.name /\ (q.marked => r.marked)
        BY <1>2 DEF Later
      <3>3. QED
        BY <3>1, <3>2
    <2>2. ASSUME NEW r \in c
          PROVE  \E p \in a : p.position = r.position /\ p.name = r.name
      <3>1. PICK q \in b : q.position = r.position /\ q.name = r.name
        BY <1>2 DEF Later
      <3>2. PICK p \in a : p.position = q.position /\ p.name = q.name
        BY <1>2 DEF Later
      <3>3. QED
        BY <3>1, <3>2
    <2>3. QED
      BY <2>1, <2>2 DEF Later
  <1>3. QED
    BY <1>1, <1>2
-----------------------------------------------------------------------------
(* The invariant of the orders.  OrderIsOneEdit is not inductive: it needs *)
(* that the transaction which is about to commit has doomed all the rows   *)
(* that are there by then.  No other edit adds one, since one edit at a    *)
(* time is past its lock, and no mark changes one, since it waits.  That   *)
(* marks are kept needs that an edit which read some row of the present    *)
(* list read all of them, marks added since excepted.                      *)
OrderRow == [title : STRING, active : BOOLEAN, cancelled : BOOLEAN, edits : Nat]
OpenEdit == [at : {"read", "locked"}, order : Orders, form : Form, existing : SUBSET Person]
ClearedEdit == [at : {"cleared"}, order : Orders, form : Form, existing : SUBSET Person,
                doomed : SUBSET Person]

OrderTypes ==
    /\ orders \in [Orders -> OrderRow]
    /\ people \in [Orders -> SUBSET Person]
    /\ edits \in [Calls -> {Idle} \cup OpenEdit \cup ClearedEdit]

ListsAreWhole == \A o \in Orders : IsList(people[o]) /\ AllOf(people[o], orders[o].edits)

InTransaction(e) == e.at \in {"locked", "cleared"}

OneInTransaction ==
    \A c, d \in Calls : InTransaction(edits[c]) /\ InTransaction(edits[d])
                        /\ edits[c].order = edits[d].order => c = d

EditSound(e, table, lists) ==
    e # Idle =>
      /\ e.form \in FormsOf(e.order)
      /\ ValidActivity(e.form)
      /\ IsList(e.existing)
      /\ \A p \in e.existing : p.generation <= table[e.order].edits
      /\ (\E p \in e.existing : p.generation = table[e.order].edits)
           => Later(e.existing, lists[e.order])
      /\ e.at = "cleared" => /\ e.doomed = lists[e.order]
                             /\ KeepsAcquainted(e.form.names, e.existing)

EditsSound == \A c \in Calls : EditSound(edits[c], orders, people)

OrderInv == OrderTypes /\ ListsAreWhole /\ OneInTransaction /\ EditsSound /\ OrderIsOneEdit

IsForm(row, rows, form) ==
    /\ row.title = form.title
    /\ row.active => form.active
    /\ row.active <=> ~row.cancelled
    /\ \A n \in Names : Cardinality(RowsOf(rows, n)) = Holds(form.names, n)

(* What OrderIsOneEdit says of each order.                                 *)
LEMMA OneFormEach == OrderIsOneEdit <=> \A o \in Orders : \E form \in FormsOf(o) :
                                           IsForm(orders[o], people[o], form)
  BY DEF OrderIsOneEdit, IsForm

(* The fields of an edit in flight.                                        *)
LEMMA EditFields ==
    ASSUME OrderTypes, NEW c \in Calls
    PROVE  /\ edits[c] # Idle <=> edits[c].at # "idle"
           /\ edits[c] # Idle => /\ edits[c].at \in {"read", "locked", "cleared"}
                                 /\ edits[c].order \in Orders
                                 /\ edits[c].form \in Form
                                 /\ edits[c].existing \in SUBSET Person
           /\ edits[c].at \in {"read", "locked"} => edits[c] \in OpenEdit
           /\ edits[c].at = "cleared" => edits[c] \in ClearedEdit
  <1>1. edits[c] = Idle \/ edits[c] \in OpenEdit \/ edits[c] \in ClearedEdit
    BY DEF OrderTypes
  <1>2. QED
    BY <1>1 DEF Idle, OpenEdit, ClearedEdit

(* An edit stays sound while its order and list stay as they are.          *)
LEMMA EditStays ==
    ASSUME NEW e, NEW table, NEW lists, EditSound(e, table, lists), NEW table1, NEW lists1,
           e # Idle => /\ table1[e.order].edits = table[e.order].edits
                       /\ lists1[e.order] = lists[e.order]
    PROVE  EditSound(e, table1, lists1)
  BY DEF EditSound

(* Registration leaves each order as its form says.                        *)
LEMMA InitOrderInv == OrdersInit => OrderInv
  <1> SUFFICES ASSUME OrdersInit PROVE OrderInv
    OBVIOUS
  <1>1. ASSUME NEW o \in Orders
        PROVE  /\ orders[o] \in OrderRow /\ orders[o].edits = 0
               /\ IsList(people[o]) /\ AllOf(people[o], 0)
               /\ Registered[o] \in FormsOf(o)
               /\ IsForm(orders[o], people[o], Registered[o])
    <2>1. Registered[o] \in FormsOf(o)
      BY DEF FormsOf
    <2>2. Registered[o] \in Form /\ Registered[o].names \in Seq(Names)
      BY <2>1, FormsAreForms
    <2>3. /\ orders[o] = RowOf(Registered[o], 0)
          /\ people[o] = Replacement(Registered[o].names, {}, 0)
      BY DEF OrdersInit
    <2>4. /\ orders[o] \in OrderRow /\ orders[o].edits = 0
          /\ orders[o].title = Registered[o].title
          /\ orders[o].active = Registered[o].active
          /\ orders[o].cancelled = Registered[o].cancelled
      BY <2>2, <2>3 DEF RowOf, OrderRow, Form
    <2>5. /\ IsList(people[o]) /\ AllOf(people[o], 0)
          /\ \A n \in Names : Cardinality(RowsOf(people[o], n)) = Holds(Registered[o].names, n)
      BY <2>2, <2>3, ReplacementIsTheForm
    <2>6. Registered[o].active <=> ~Registered[o].cancelled
      OBVIOUS
    <2>7. IsForm(orders[o], people[o], Registered[o])
      BY <2>4, <2>5, <2>6 DEF IsForm
    <2>8. QED
      BY <2>1, <2>4, <2>5, <2>7
  <1>2. OrderTypes
    <2>1. /\ orders = [o \in Orders |-> RowOf(Registered[o], 0)]
          /\ people = [o \in Orders |-> Replacement(Registered[o].names, {}, 0)]
          /\ edits = [c \in Calls |-> Idle]
      BY DEF OrdersInit
    <2>2. \A o \in Orders : orders[o] \in OrderRow /\ people[o] \in SUBSET Person
      BY <1>1 DEF IsList
    <2>3. QED
      BY <2>1, <2>2 DEF OrderTypes
  <1>3. ListsAreWhole /\ OrderIsOneEdit
    BY <1>1, OneFormEach DEF ListsAreWhole
  <1>4. OneInTransaction /\ EditsSound
    BY DEF OrdersInit, OneInTransaction, InTransaction, EditsSound, EditSound, Idle
  <1>5. QED
    BY <1>2, <1>3, <1>4 DEF OrderInv

(* The steps of an edit before its commit.                                 *)
LEMMA OpenSteps ==
    ASSUME OrderInv, NEW c \in Calls, UNCHANGED <<orders, people>>,
           \/ \E o \in Orders : \E form \in FormsOf(o) : ReadPeople(c, o, form)
           \/ LockOrder(c) \/ ClearPeople(c) \/ RollbackEdit(c)
    PROVE  OrderInv'
  <1> USE DEF OrderInv
  <1>1. edits \in [Calls -> {Idle} \cup OpenEdit \cup ClearedEdit]
    BY DEF OrderTypes
  <1>2. PICK e : /\ edits' = [edits EXCEPT ![c] = e]
                 /\ e \in {Idle} \cup OpenEdit \cup ClearedEdit
                 /\ EditSound(e, orders, people)
                 /\ e # Idle /\ InTransaction(e) =>
                      \A d \in Calls \ {c} : InTransaction(edits[d]) => edits[d].order # e.order
    <2>1. ASSUME NEW o \in Orders, NEW form \in FormsOf(o), ReadPeople(c, o, form)
          PROVE  \E e : /\ edits' = [edits EXCEPT ![c] = e]
                        /\ e \in OpenEdit /\ EditSound(e, orders, people) /\ ~InTransaction(e)
      <3> DEFINE e == [at |-> "read", order |-> o, form |-> form, existing |-> people[o]]
      <3>1. edits' = [edits EXCEPT ![c] = e]
        BY <2>1 DEF ReadPeople
      <3>2. e \in OpenEdit
        BY FormsAreForms DEF OpenEdit, OrderTypes
      <3>3. IsList(people[o]) /\ \A p \in people[o] : p.generation <= orders[o].edits
        BY DEF ListsAreWhole, AllOf, OrderTypes, OrderRow
      <3>4. EditSound(e, orders, people)
        BY <2>1, <3>3, LaterIsOrder DEF EditSound, ReadPeople
      <3>5. ~InTransaction(e)
        BY DEF InTransaction
      <3>6. QED
        BY <3>1, <3>2, <3>4, <3>5
    <2>2. CASE LockOrder(c)
      <3> DEFINE e == [edits[c] EXCEPT !.at = "locked"]
      <3>1. edits' = [edits EXCEPT ![c] = e] /\ edits[c] \in OpenEdit /\ edits[c] # Idle
        BY <2>2, EditFields DEF LockOrder
      <3>2. /\ e \in OpenEdit /\ e.at = "locked" /\ e.order = edits[c].order
            /\ e.form = edits[c].form /\ e.existing = edits[c].existing
        BY <3>1 DEF OpenEdit
      <3> HIDE DEF e
      <3>3. EditSound(e, orders, people)
        BY <3>1, <3>2 DEF EditsSound, EditSound
      <3>4. \A d \in Calls \ {c} : InTransaction(edits[d]) => edits[d].order # e.order
        BY <2>2, <3>2 DEF LockOrder, OrderLocked, InTransaction
      <3>5. QED
        BY <3>1, <3>2, <3>3, <3>4
    <2>3. CASE ClearPeople(c)
      <3>1. edits[c].at = "locked" /\ edits[c] \in OpenEdit /\ edits[c] # Idle
        BY <2>3, EditFields DEF ClearPeople
      <3>2. CASE ~KeepsAcquainted(edits[c].form.names, edits[c].existing)
        <4>1. edits' = [edits EXCEPT ![c] = Idle]
          BY <2>3, <3>2 DEF ClearPeople
        <4>2. EditSound(Idle, orders, people) /\ ~InTransaction(Idle)
          BY DEF EditSound, InTransaction, Idle
        <4>3. QED
          BY <4>1, <4>2
      <3>3. CASE KeepsAcquainted(edits[c].form.names, edits[c].existing)
        <4> DEFINE e == [at |-> "cleared", order |-> edits[c].order, form |-> edits[c].form,
                         existing |-> edits[c].existing, doomed |-> people[edits[c].order]]
        <4>1. edits' = [edits EXCEPT ![c] = e]
          BY <2>3, <3>3 DEF ClearPeople
        <4>2. e \in ClearedEdit
          BY <3>1 DEF OpenEdit, ClearedEdit, OrderTypes
        <4>3. EditSound(e, orders, people)
          BY <3>1, <3>3 DEF EditsSound, EditSound
        <4>4. \A d \in Calls \ {c} : InTransaction(edits[d]) => edits[d].order # e.order
          BY <3>1 DEF OneInTransaction, InTransaction
        <4> HIDE DEF e
        <4>5. QED
          BY <4>1, <4>2, <4>3, <4>4
      <3>4. QED
        BY <3>2, <3>3
    <2>4. CASE RollbackEdit(c)
      <3>1. edits' = [edits EXCEPT ![c] = Idle]
        BY <2>4 DEF RollbackEdit
      <3>2. EditSound(Idle, orders, people) /\ ~InTransaction(Idle)
        BY DEF EditSound, InTransaction, Idle
      <3>3. QED
        BY <3>1, <3>2
    <2>5. QED
      BY <2>1, <2>2, <2>3, <2>4
  <1>3. edits'[c] = e /\ \A d \in Calls \ {c} : edits'[d] = edits[d]
    BY <1>1, <1>2
  <1>4. OrderTypes'
    BY <1>1, <1>2 DEF OrderTypes
  <1>5. ListsAreWhole' /\ OrderIsOneEdit'
    BY DEF ListsAreWhole, OrderIsOneEdit
  <1>6. EditsSound'
    <2> SUFFICES ASSUME NEW d \in Calls PROVE EditSound(edits'[d], orders, people)
      BY DEF EditsSound
    <2>1. QED
      BY <1>2, <1>3 DEF EditsSound
  <1>7. OneInTransaction'
    <2>1. ~InTransaction(Idle)
      BY DEF InTransaction, Idle
    <2>2. QED
      BY <1>2, <1>3, <2>1 DEF OneInTransaction, InTransaction
  <1>8. QED
    BY <1>4, <1>5, <1>6, <1>7
(* A commit makes the order and its list those of its form.                *)
LEMMA CommitStep ==
    ASSUME OrderInv, NEW c \in Calls, CommitEdit(c)
    PROVE  OrderInv'
  <1> USE DEF OrderInv
  <1> DEFINE e == edits[c]
             o == e.order
             generation == orders[o].edits + 1
             row == RowOf(e.form, generation)
             list == Replacement(e.form.names, e.existing, generation)
  <1>1. e \in ClearedEdit /\ e # Idle /\ e.at = "cleared"
    BY EditFields DEF CommitEdit
  <1>2. /\ o \in Orders /\ e.form \in FormsOf(o) /\ ValidActivity(e.form)
        /\ e.doomed = people[o]
    BY <1>1 DEF ClearedEdit, EditsSound, EditSound
  <1>3. /\ orders' = [orders EXCEPT ![o] = row]
        /\ people' = [people EXCEPT ![o] = (people[o] \ e.doomed) \cup list]
        /\ edits' = [edits EXCEPT ![c] = Idle]
    BY DEF CommitEdit
  <1>4. orders[o] \in OrderRow /\ orders[o].edits \in Nat /\ generation \in Nat
    BY <1>2 DEF OrderTypes, OrderRow
  <1>5. e.form \in Form /\ e.form.names \in Seq(Names)
    BY <1>2, FormsAreForms
  <1>6. /\ row \in OrderRow /\ row.edits = generation /\ row.title = e.form.title
        /\ row.active = e.form.active /\ row.cancelled = e.form.cancelled
    BY <1>4, <1>5 DEF RowOf, OrderRow, Form
  <1>7. /\ IsList(list) /\ AllOf(list, generation)
        /\ \A n \in Names : Cardinality(RowsOf(list, n)) = Holds(e.form.names, n)
    <2> HIDE DEF generation
    <2>1. QED
      BY <1>4, <1>5, ReplacementIsTheForm
  <1>8. IsForm(row, list, e.form)
    BY <1>2, <1>6, <1>7 DEF IsForm, ValidActivity
  <1>9. generation > orders[o].edits
    BY <1>4
  <1> HIDE DEF row, list, generation
  <1>10. /\ orders'[o] = row /\ people'[o] = list
         /\ \A q \in Orders \ {o} : orders'[q] = orders[q] /\ people'[q] = people[q]
         /\ edits'[c] = Idle /\ \A d \in Calls \ {c} : edits'[d] = edits[d]
    BY <1>2, <1>3 DEF OrderTypes
  <1>11. OrderTypes'
    BY <1>3, <1>6, <1>7 DEF OrderTypes, IsList
  <1>12. ListsAreWhole'
    BY <1>6, <1>7, <1>10 DEF ListsAreWhole
  <1>13. OrderIsOneEdit'
    <2> SUFFICES ASSUME NEW q \in Orders
                 PROVE  \E form \in FormsOf(q) : IsForm(orders'[q], people'[q], form)
      BY DEF OrderIsOneEdit, IsForm
    <2>1. CASE q = o
      BY <1>2, <1>8, <1>10, <2>1
    <2>2. CASE q # o
      BY <1>10, <2>2, OneFormEach
    <2>3. QED
      BY <2>1, <2>2
  <1>14. OneInTransaction'
    <2>1. ~InTransaction(Idle)
      BY DEF InTransaction, Idle
    <2>2. QED
      BY <1>10, <2>1 DEF OneInTransaction, InTransaction
  <1>15. EditsSound'
    <2> SUFFICES ASSUME NEW d \in Calls, edits'[d] # Idle
                 PROVE  EditSound(edits[d], orders', people')
      BY <1>10 DEF EditsSound, EditSound
    <2>1. d # c /\ edits[d] # Idle /\ edits[d].order \in Orders
      BY <1>10, EditFields
    <2>2. EditSound(edits[d], orders, people)
      BY DEF EditsSound
    <2>3. CASE edits[d].order # o
      BY <1>10, <2>1, <2>2, <2>3, EditStays
    <2>4. CASE edits[d].order = o
      <3>1. edits[d].at # "cleared"
        BY <1>1, <2>1, <2>4 DEF OneInTransaction, InTransaction
      <3>2. edits[d].existing \in SUBSET Person
        BY <2>1, EditFields
      <3>3. \A p \in edits[d].existing : p.generation \in Nat /\ p.generation <= orders[o].edits
        BY <2>1, <2>2, <2>4, <3>2 DEF EditSound, Person
      <3>4. \A p \in edits[d].existing : p.generation < generation
        BY <1>4, <1>9, <3>3
      <3>5. \A p \in edits[d].existing : p.generation <= generation /\ p.generation # generation
        BY <1>4, <3>3, <3>4
      <3>6. QED
        BY <1>6, <1>10, <2>1, <2>2, <2>4, <3>1, <3>5 DEF EditSound
    <2>5. QED
      BY <2>3, <2>4
  <1>16. QED
    BY <1>11, <1>12, <1>13, <1>14, <1>15

(* A mark waits for the edit that deletes its row, so it changes no row    *)
(* that a transaction has doomed.                                          *)
LEMMA MarkStep ==
    ASSUME OrderInv, NEW o \in Orders, NEW p \in people[o], MarkAcknowledged(o, p)
    PROVE  OrderInv'
  <1> USE DEF OrderInv
  <1> DEFINE list == (people[o] \ {p}) \cup {[p EXCEPT !.marked = TRUE]}
  <1>1. /\ ~p.marked /\ ~Doomed(o, p)
        /\ people' = [people EXCEPT ![o] = list]
        /\ UNCHANGED <<orders, edits>>
    BY DEF MarkAcknowledged
  <1>2. /\ IsList(list) /\ AllOf(list, orders[o].edits) /\ Later(people[o], list)
        /\ \A n \in Names : Cardinality(RowsOf(list, n)) = Cardinality(RowsOf(people[o], n))
    BY <1>1, MarkKeepsTheList DEF ListsAreWhole
  <1> HIDE DEF list
  <1>3. people'[o] = list /\ \A q \in Orders \ {o} : people'[q] = people[q]
    BY <1>1 DEF OrderTypes
  <1>4. OrderTypes' /\ ListsAreWhole'
    BY <1>1, <1>2, <1>3 DEF OrderTypes, ListsAreWhole, IsList
  <1>5. OrderIsOneEdit'
    <2> SUFFICES ASSUME NEW q \in Orders
                 PROVE  \E form \in FormsOf(q) : IsForm(orders[q], people'[q], form)
      BY <1>1 DEF OrderIsOneEdit, IsForm
    <2>1. PICK form \in FormsOf(q) : IsForm(orders[q], people[q], form)
      BY OneFormEach
    <2>2. \A n \in Names : Cardinality(RowsOf(people'[q], n)) = Cardinality(RowsOf(people[q], n))
      BY <1>2, <1>3
    <2>3. QED
      BY <2>1, <2>2 DEF IsForm
  <1>6. OneInTransaction'
    BY <1>1 DEF OneInTransaction, InTransaction
  <1>7. EditsSound'
    <2> SUFFICES ASSUME NEW d \in Calls, edits[d] # Idle
                 PROVE  EditSound(edits[d], orders, people')
      BY <1>1 DEF EditsSound, EditSound
    <2>1. EditSound(edits[d], orders, people) /\ edits[d].order \in Orders
      BY EditFields DEF EditsSound
    <2>2. CASE edits[d].order # o
      BY <1>3, <2>1, <2>2, EditStays
    <2>3. CASE edits[d].order = o
      <3>1. edits[d].at # "cleared"
        BY <1>1, <2>1, <2>3 DEF EditSound, Doomed
      <3>2. Later(edits[d].existing, people[o]) => Later(edits[d].existing, people'[o])
        BY <1>2, <1>3, LaterIsOrder
      <3>3. QED
        BY <2>1, <2>3, <3>1, <3>2 DEF EditSound
    <2>4. QED
      BY <2>2, <2>3
  <1>8. QED
    BY <1>4, <1>5, <1>6, <1>7

(* A cancelling link changes no list, and leaves an order out of force     *)
(* whatever its form says.                                                 *)
LEMMA CancelStep ==
    ASSUME OrderInv, NEW target, UNCHANGED <<people, edits>>,
           orders' = [orders EXCEPT ![target].active = FALSE, ![target].cancelled = TRUE]
    PROVE  OrderInv'
  <1> USE DEF OrderInv
  <1>1. \A q \in Orders : /\ orders'[q] \in OrderRow
                          /\ orders'[q].edits = orders[q].edits
                          /\ orders'[q].title = orders[q].title
                          /\ \/ /\ orders'[q].active = orders[q].active
                                /\ orders'[q].cancelled = orders[q].cancelled
                             \/ ~orders'[q].active /\ orders'[q].cancelled
    <2> SUFFICES ASSUME NEW q \in Orders
                 PROVE  /\ orders'[q] \in OrderRow
                        /\ orders'[q].edits = orders[q].edits
                        /\ orders'[q].title = orders[q].title
                        /\ \/ /\ orders'[q].active = orders[q].active
                              /\ orders'[q].cancelled = orders[q].cancelled
                           \/ ~orders'[q].active /\ orders'[q].cancelled
      OBVIOUS
    <2>1. orders[q] \in OrderRow
      BY DEF OrderTypes
    <2>2. CASE q # target
      BY <2>1, <2>2 DEF OrderTypes
    <2>3. CASE q = target
      <3>1. orders'[q] = [[orders[q] EXCEPT !.active = FALSE] EXCEPT !.cancelled = TRUE]
        BY <2>3 DEF OrderTypes
      <3> DEFINE off == [orders[q] EXCEPT !.active = FALSE]
      <3>2. off \in OrderRow /\ off.edits = orders[q].edits /\ off.title = orders[q].title
            /\ ~off.active
        BY <2>1 DEF OrderRow
      <3>3. orders'[q] = [off EXCEPT !.cancelled = TRUE]
        BY <3>1
      <3> HIDE DEF off
      <3> DEFINE row == [off EXCEPT !.cancelled = TRUE]
      <3>4. /\ row \in OrderRow /\ row.edits = off.edits
            /\ row.title = off.title /\ row.active = off.active
        BY <3>2 DEF OrderRow
      <3>5. row.cancelled
        BY <3>2 DEF OrderRow
      <3> HIDE DEF row
      <3>6. /\ orders'[q] \in OrderRow /\ orders'[q].edits = off.edits
            /\ orders'[q].title = off.title /\ ~orders'[q].active /\ orders'[q].cancelled
        <4>1. orders'[q] = row
          BY <3>3 DEF row
        <4>2. QED
          BY <3>2, <3>4, <3>5, <4>1
      <3>7. QED
        BY <3>2, <3>6
    <2>4. QED
      BY <2>2, <2>3
  <1>2. orders' \in [Orders -> OrderRow]
    <2>1. DOMAIN orders' = Orders /\ orders' = [q \in Orders |-> orders'[q]]
      BY DEF OrderTypes
    <2>2. QED
      BY <1>1, <2>1
  <1>3. OrderTypes' /\ ListsAreWhole' /\ OneInTransaction'
    BY <1>1, <1>2 DEF OrderTypes, ListsAreWhole, OneInTransaction, InTransaction
  <1>4. OrderIsOneEdit'
    <2> SUFFICES ASSUME NEW q \in Orders
                 PROVE  \E form \in FormsOf(q) : IsForm(orders'[q], people'[q], form)
      BY DEF OrderIsOneEdit, IsForm
    <2>1. PICK form \in FormsOf(q) : IsForm(orders[q], people[q], form)
      BY OneFormEach
    <2>2. people'[q] = people[q]
      OBVIOUS
    <2>3. IsForm(orders'[q], people'[q], form)
      BY <1>1, <2>1, <2>2 DEF IsForm
    <2>4. QED
      BY <2>3
  <1>5. EditsSound'
    <2> SUFFICES ASSUME NEW d \in Calls PROVE EditSound(edits[d], orders', people)
      BY DEF EditsSound
    <2>1. edits[d] # Idle => edits[d].order \in Orders
      BY EditFields
    <2>2. EditSound(edits[d], orders, people)
      BY DEF EditsSound
    <2>3. QED
      BY <1>1, <2>1, <2>2, EditStays
  <1>6. QED
    BY <1>3, <1>4, <1>5

(* Every step of the module keeps the invariant of the orders.             *)
LEMMA NextOrderInv == OrderInv /\ [Next]_vars => OrderInv'
  <1> SUFFICES ASSUME OrderInv, [Next]_vars PROVE OrderInv'
    OBVIOUS
  <1>1. ASSUME UNCHANGED orderVars PROVE OrderInv'
    BY <1>1 DEF orderVars, OrderInv, OrderTypes, ListsAreWhole, OneInTransaction, InTransaction,
                EditsSound, OrderIsOneEdit
  <1>2. ASSUME NEW u \in Users, NEW l \in Links, NEW p \in Pairs, CancelByLink(u, l, p[1], p[2])
        PROVE  OrderInv'
    BY <1>2, CancelStep DEF CancelByLink
  <1>3. ASSUME OrderStep PROVE OrderInv'
    <2>1. ASSUME NEW o \in Orders, NEW c \in Calls, NEW form \in FormsOf(o), ReadPeople(c, o, form)
          PROVE  OrderInv'
      <3>1. UNCHANGED <<orders, people>>
        BY <2>1 DEF ReadPeople
      <3>2. QED
        BY <2>1, <3>1, OpenSteps
    <2>2. ASSUME NEW o \in Orders, NEW p \in people[o], MarkAcknowledged(o, p)
          PROVE  OrderInv'
      BY <2>2, MarkStep
    <2>3. ASSUME NEW c \in Calls, LockOrder(c) \/ ClearPeople(c) \/ RollbackEdit(c)
          PROVE  OrderInv'
      <3>1. UNCHANGED <<orders, people>>
        BY <2>3 DEF LockOrder, ClearPeople, RollbackEdit
      <3>2. QED
        BY <2>3, <3>1, OpenSteps
    <2>4. ASSUME NEW c \in Calls, CommitEdit(c) PROVE OrderInv'
      BY <2>4, CommitStep
    <2>5. QED
      BY <1>3, <2>1, <2>2, <2>3, <2>4 DEF OrderStep
  <1>4. QED
    BY <1>1, <1>2, <1>3 DEF Next, LinkDocuments, UnlinkDocument, vars

(* The invariant of the orders holds.                                      *)
THEOREM OrdersCorrect == Spec => []OrderInv
  <1>1. Init => OrderInv
    BY InitOrderInv DEF Init
  <1>2. QED
    BY <1>1, NextOrderInv, PTL DEF Spec

(* However edits, marks and cancelling links overlap, an order and the     *)
(* list of its people come from one saved form                             *)
(* (administrative_order_repo.go, UpdateTx and replaceAcknowledgmentPeople *)
(* in one transaction).                                                    *)
THEOREM EveryOrderIsOneEdit == Spec => []OrderIsOneEdit
  <1>1. QED
    BY OrdersCorrect, PTL DEF OrderInv

-----------------------------------------------------------------------------
(* What a commit may cost in marks.                                        *)

(* Counting the smaller ones numbers the members of a finite set from 0.   *)
LEMMA Ranks ==
    ASSUME NEW S, IsFiniteSet(S), NEW key \in [S -> Nat],
           \A s, t \in S : key[s] = key[t] => s = t
    PROVE  [s \in S |-> Cardinality({t \in S : key[t] < key[s]})]
              \in Bijection(S, 0 .. (Cardinality(S) - 1))
  <1> DEFINE below(s) == {t \in S : key[t] < key[s]}
             rank == [s \in S |-> Cardinality(below(s))]
             T == 0 .. (Cardinality(S) - 1)
  <1>1. Cardinality(S) \in Nat
    BY FS_CardinalityType
  <1>2. ASSUME NEW s \in S
        PROVE  IsFiniteSet(below(s)) /\ Cardinality(below(s)) \in T
    <2>1. IsFiniteSet(S \ {s}) /\ Cardinality(S \ {s}) = Cardinality(S) - 1
      BY FS_RemoveElement
    <2>2. below(s) \in SUBSET (S \ {s})
      OBVIOUS
    <2>3. IsFiniteSet(below(s)) /\ Cardinality(below(s)) <= Cardinality(S) - 1
      BY <2>1, <2>2, FS_Subset
    <2>4. Cardinality(below(s)) \in Nat
      BY <2>3, FS_CardinalityType
    <2> HIDE DEF below
    <2>5. QED
      BY <1>1, <2>3, <2>4
  <1>3. ASSUME NEW s \in S, NEW t \in S, key[s] < key[t]
        PROVE  Cardinality(below(s)) < Cardinality(below(t))
    <2>1. below(s) \in SUBSET below(t) /\ s \in below(t) /\ s \notin below(s)
      BY <1>3
    <2> HIDE DEF below
    <2>2. /\ Cardinality(below(s)) <= Cardinality(below(t))
          /\ Cardinality(below(s)) # Cardinality(below(t))
      BY <1>2, <2>1, FS_Subset
    <2>3. Cardinality(below(s)) \in Nat /\ Cardinality(below(t)) \in Nat
      BY <1>1, <1>2
    <2>4. QED
      BY <2>2, <2>3
  <1> HIDE DEF below
  <1>4. rank \in [S -> T]
    BY <1>2
  <1>5. \A s, t \in S : rank[s] = rank[t] => s = t
    <2> SUFFICES ASSUME NEW s \in S, NEW t \in S, rank[s] = rank[t] PROVE key[s] = key[t]
      OBVIOUS
    <2>1. ~(key[s] < key[t]) /\ ~(key[t] < key[s])
      BY <1>1, <1>2, <1>3
    <2>2. QED
      BY <2>1
  <1>6. IsFiniteSet(T) /\ Cardinality(T) = Cardinality(S)
    <2> DEFINE top == Cardinality(S) - 1
    <2>1. top \in Int /\ 0 \in Int
      BY <1>1
    <2> HIDE DEF top
    <2>2. IsFiniteSet(0 .. top) /\ Cardinality(0 .. top) = IF 0 > top THEN 0 ELSE top - 0 + 1
      BY <2>1, FS_Interval
    <2>3. QED
      BY <1>1, <2>2 DEF top
  <1> HIDE DEF rank, T
  <1>7. rank \in Injection(S, T)
    BY <1>4, <1>5 DEF Injection, IsInjective
  <1>8. rank \in Surjection(S, T)
    BY <1>6, <1>7, FS_Injection
  <1>9. QED
    BY <1>7, <1>8 DEF Bijection, rank, T, below

(* A form with at least as many homonyms as the list that was read hands   *)
(* on every mark of the list.                                              *)
LEMMA EnoughNames ==
    ASSUME NEW names \in Seq(Names), NEW rows, IsList(rows), NEW generation \in Nat,
           NEW n \in Names, Cardinality(RowsOf(rows, n)) <= Holds(names, n)
    PROVE  Marked(rows, n) <= Marked(Replacement(names, rows, generation), n)
  <1> DEFINE new == Replacement(names, rows, generation)
             P == RowsOf(rows, n)
             at == {i \in DOMAIN names : names[i] = n}
             rankP == [p \in P |-> Cardinality({q \in P : q.position < p.position})]
             rankAt == [i \in at |-> Cardinality({j \in at : j < i})]
  <1>1. DOMAIN names = 1 .. Len(names) /\ Len(names) \in Nat
    OBVIOUS
  <1>2. IsFiniteSet(P) /\ IsFiniteSet(at) /\ at \in SUBSET Nat
    <2>1. IsFiniteSet(P)
      BY FS_Subset DEF RowsOf, IsList
    <2>2. IsFiniteSet(DOMAIN names)
      BY <1>1, FS_Interval
    <2>3. IsFiniteSet(at)
      BY <2>2, FS_Subset
    <2>4. QED
      BY <1>1, <2>1, <2>3
  <1>3. Cardinality(P) \in Nat /\ Cardinality(at) \in Nat /\ Cardinality(P) <= Cardinality(at)
    BY <1>2, FS_CardinalityType DEF Holds
  <1>4. rankP \in Bijection(P, 0 .. (Cardinality(P) - 1))
    <2> DEFINE key == [p \in P |-> p.position]
    <2>1. key \in [P -> Nat] /\ \A p, q \in P : key[p] = key[q] => p = q
      BY DEF RowsOf, IsList, Person
    <2>2. [p \in P |-> Cardinality({q \in P : key[q] < key[p]})] = rankP
      OBVIOUS
    <2> HIDE DEF key, rankP, P
    <2>3. QED
      BY <1>2, <2>1, <2>2, Ranks
  <1>5. rankAt \in Bijection(at, 0 .. (Cardinality(at) - 1))
    <2> DEFINE key == [i \in at |-> i]
    <2>1. key \in [at -> Nat] /\ \A i, j \in at : key[i] = key[j] => i = j
      BY <1>2
    <2>2. [i \in at |-> Cardinality({j \in at : key[j] < key[i]})] = rankAt
      OBVIOUS
    <2> HIDE DEF key, rankAt, at
    <2>3. QED
      BY <1>2, <2>1, <2>2, Ranks
  <1>6. ASSUME NEW i \in at PROVE Holds(SubSeq(names, 1, i - 1), n) = rankAt[i]
    <2> DEFINE part == SubSeq(names, 1, i - 1)
    <2>1. i \in 1 .. Len(names)
      BY <1>1
    <2>2. DOMAIN part = 1 .. (i - 1) /\ \A j \in 1 .. (i - 1) : part[j] = names[j]
      BY <2>1
    <2> HIDE DEF part
    <2>3. {j \in DOMAIN part : part[j] = n} = {j \in at : j < i}
      BY <1>1, <2>1, <2>2
    <2>4. QED
      BY <2>3 DEF Holds, part
  <1>7. \A p \in P : \E i \in at : rankAt[i] = rankP[p]
    <2> SUFFICES ASSUME NEW p \in P PROVE \E i \in at : rankAt[i] = rankP[p]
      OBVIOUS
    <2> HIDE DEF rankP, rankAt, P, at
    <2>1. rankP[p] \in 0 .. (Cardinality(P) - 1)
      BY <1>4 DEF Bijection, Injection
    <2>2. rankP[p] \in 0 .. (Cardinality(at) - 1)
      BY <1>3, <2>1
    <2>3. QED
      BY <1>5, <2>2 DEF Bijection, Surjection
  <1> DEFINE heir == [p \in P |-> CHOOSE i \in at : rankAt[i] = rankP[p]]
             R(i) == [generation |-> generation, position |-> i, name |-> names[i],
                      marked |-> \E p \in Predecessor(names, rows, i) : p.marked]
  <1>8. \A p \in P : heir[p] \in at /\ rankAt[heir[p]] = rankP[p]
    <2> HIDE DEF rankAt, rankP, at, P
    <2>1. QED
      BY <1>7
  <1>9. \A p \in P : p \in Predecessor(names, rows, heir[p])
    <2> SUFFICES ASSUME NEW p \in P PROVE p \in Predecessor(names, rows, heir[p])
      OBVIOUS
    <2> HIDE DEF heir
    <2>1. heir[p] \in at /\ names[heir[p]] = n
      BY <1>8
    <2>2. Holds(SubSeq(names, 1, heir[p] - 1), n) = Cardinality({q \in P : q.position < p.position})
      BY <1>6, <1>8
    <2>3. QED
      BY <2>1, <2>2 DEF Predecessor
  <1>10. \A p, q \in P : heir[p] = heir[q] => p = q
    <2> HIDE DEF heir, rankP, rankAt, P, at
    <2>1. QED
      BY <1>4, <1>8 DEF Bijection, Injection, IsInjective
  <1> DEFINE old == {p \in P : p.marked}
             kept == {r \in RowsOf(new, n) : r.marked}
             f == [p \in old |-> R(heir[p])]
  <1>11. \A p \in old : R(heir[p]) \in kept /\ R(heir[p]).position = heir[p]
    <2> SUFFICES ASSUME NEW p \in old
                 PROVE  R(heir[p]) \in kept /\ R(heir[p]).position = heir[p]
      OBVIOUS
    <2> HIDE DEF heir
    <2>1. heir[p] \in DOMAIN names /\ names[heir[p]] = n
      BY <1>8
    <2>2. R(heir[p]).marked
      BY <1>9
    <2>3. R(heir[p]) \in new /\ R(heir[p]).name = n /\ R(heir[p]).position = heir[p]
      BY <2>1 DEF Replacement
    <2> HIDE DEF R, new
    <2>4. QED
      BY <2>2, <2>3 DEF RowsOf
  <1> HIDE DEF R, heir
  <1>12. f \in [old -> kept]
    <2> HIDE DEF kept
    <2>1. QED
      BY <1>11
  <1>13. \A p, q \in old : f[p] = f[q] => p = q
    BY <1>10, <1>11
  <1>14. f \in Injection(old, kept)
    <2> HIDE DEF f, old, kept
    <2>1. QED
      BY <1>12, <1>13 DEF Injection, IsInjective
  <1>15. IsFiniteSet(kept)
    <2>1. IsFiniteSet(new)
      BY ReplacementIsTheForm DEF IsList
    <2>2. QED
      BY <2>1, FS_Subset DEF RowsOf
  <1>16. Cardinality(old) <= Cardinality(kept)
    <2> HIDE DEF f, old, kept
    <2>1. QED
      BY <1>14, <1>15, FS_Injection
  <1>17. QED
    BY <1>16 DEF Marked

(* A list does not grow by being marked.                                   *)
LEMMA LaterHasAsMany ==
    ASSUME NEW old, NEW new, IsList(old), IsList(new), Later(old, new), NEW n \in Names
    PROVE  Cardinality(RowsOf(old, n)) <= Cardinality(RowsOf(new, n))
  <1> DEFINE P == RowsOf(old, n)
             Q == RowsOf(new, n)
             f == [p \in P |-> CHOOSE q \in Q : q.position = p.position]
  <1>1. \A p \in P : \E q \in Q : q.position = p.position
    BY DEF Later, RowsOf
  <1>2. \A p \in P : f[p] \in Q /\ f[p].position = p.position
    <2> HIDE DEF P, Q
    <2>1. QED
      BY <1>1
  <1>3. f \in [P -> Q] /\ \A p, q \in P : f[p] = f[q] => p = q
    <2>1. \A p, q \in P : p.position = q.position => p = q
      BY DEF RowsOf, IsList
    <2>2. DOMAIN f = P /\ f = [p \in P |-> f[p]]
      OBVIOUS
    <2> HIDE DEF f, P, Q
    <2>3. QED
      BY <1>2, <2>1, <2>2
  <1>4. f \in Injection(P, Q)
    <2> HIDE DEF f, P, Q
    <2>1. QED
      BY <1>3 DEF Injection, IsInjective
  <1>5. IsFiniteSet(Q)
    BY FS_Subset DEF IsList, RowsOf
  <1>6. QED
    <2> HIDE DEF f, P, Q
    <2>1. Cardinality(P) <= Cardinality(Q)
      BY <1>4, <1>5, FS_Injection
    <2>2. QED
      BY <2>1 DEF P, Q

LostToStaleEdits(o, n) ==
    \E c \in Calls :
      /\ edits[c].at = "cleared" /\ edits[c].order = o
      /\ \/ \E p \in RowsOf(people[o], n) : p.marked /\ p \notin edits[c].existing
         \/ Holds(edits[c].form.names, n) \in
              Marked(edits[c].existing, n) .. (Cardinality(RowsOf(people[o], n)) - 1)

(* A commit that lowers the marks of a name is one of the two kinds.       *)
LEMMA CommitCost ==
    ASSUME OrderInv, NEW c \in Calls, CommitEdit(c), NEW o \in Orders, NEW n \in Names,
           Marked(people'[o], n) < Marked(people[o], n)
    PROVE  LostToStaleEdits(o, n)
  <1> USE DEF OrderInv
  <1> DEFINE e == edits[c]
             generation == orders[o].edits + 1
             list == Replacement(e.form.names, e.existing, generation)
             marks == {p \in RowsOf(people[o], n) : p.marked}
  <1>1. e \in ClearedEdit /\ e # Idle /\ e.at = "cleared" /\ e.order \in Orders
    BY EditFields DEF CommitEdit
  <1>2. EditSound(e, orders, people)
    BY DEF EditsSound
  <1>3. /\ people' = [people EXCEPT ![e.order] = (people[e.order] \ e.doomed) \cup
              Replacement(e.form.names, e.existing, orders[e.order].edits + 1)]
    BY DEF CommitEdit
  <1>4. IsList(people[o]) /\ IsFiniteSet(RowsOf(people[o], n))
        /\ IsFiniteSet(marks) /\ Cardinality(marks) \in Nat
        /\ Cardinality(RowsOf(people[o], n)) \in Nat
    <2>1. IsList(people[o])
      BY DEF ListsAreWhole
    <2>2. IsFiniteSet(RowsOf(people[o], n))
      BY <2>1, FS_Subset DEF IsList, RowsOf
    <2>3. IsFiniteSet(marks)
      BY <2>2, FS_Subset
    <2>4. QED
      BY <2>1, <2>2, <2>3, FS_CardinalityType
  <1>5. CASE e.order # o
    <2>1. people'[o] = people[o]
      BY <1>1, <1>3, <1>5 DEF OrderTypes
    <2> HIDE DEF marks
    <2>2. QED
      BY <1>4, <2>1 DEF Marked, marks
  <1>6. CASE e.order = o
    <2>1. people'[o] = list
      BY <1>1, <1>2, <1>3, <1>6 DEF EditSound, OrderTypes
    <2>2. CASE ~(marks \subseteq e.existing)
      BY <1>1, <1>6, <2>2 DEF LostToStaleEdits
    <2>3. CASE marks \subseteq e.existing
      <3>1. IsList(e.existing) /\ e.form.names \in Seq(Names) /\ generation \in Nat
        <4>1. orders[o].edits \in Nat
          BY DEF OrderTypes, OrderRow
        <4>2. QED
          BY <1>1, <1>2, <4>1, FormsAreForms DEF EditSound
      <3>2. IsFiniteSet({p \in RowsOf(e.existing, n) : p.marked})
            /\ Marked(e.existing, n) \in Nat
        <4>1. IsFiniteSet({p \in RowsOf(e.existing, n) : p.marked})
          BY <3>1, FS_Subset DEF IsList, RowsOf
        <4>2. QED
          BY <4>1, FS_CardinalityType DEF Marked
      <3>3. Marked(people[o], n) <= Marked(e.existing, n)
        <4>1. marks \in SUBSET {p \in RowsOf(e.existing, n) : p.marked}
          BY <2>3 DEF RowsOf
        <4> HIDE DEF marks
        <4>2. Cardinality(marks) <= Cardinality({p \in RowsOf(e.existing, n) : p.marked})
          BY <3>2, <4>1, FS_Subset
        <4>3. QED
          BY <4>2 DEF Marked, marks
      <3>4. Marked(list, n) \in Nat
        <4>1. IsFiniteSet(list)
          <5> HIDE DEF generation
          <5>1. QED
            BY <3>1, ReplacementIsTheForm DEF IsList
        <4>2. IsFiniteSet({p \in RowsOf(list, n) : p.marked})
          <5> HIDE DEF list
          <5>1. QED
            BY <4>1, FS_Subset DEF RowsOf
        <4>3. QED
          BY <4>2, FS_CardinalityType DEF Marked
      <3>5. Marked(list, n) < Marked(people[o], n)
        BY <2>1
      <3>6. PICK p \in marks : TRUE
        <4>1. marks # {}
          <5>1. Cardinality(marks) # 0
            BY <1>4, <3>4, <3>5 DEF Marked
          <5>2. QED
            BY <5>1, FS_EmptySet
        <4>2. QED
          BY <4>1
      <3>7. p \in e.existing /\ p.generation = orders[o].edits
        BY <2>3, <3>6 DEF RowsOf, ListsAreWhole, AllOf
      <3>8. Later(e.existing, people[o])
        BY <1>1, <1>2, <1>6, <3>7 DEF EditSound
      <3>9. Cardinality(RowsOf(e.existing, n)) <= Cardinality(RowsOf(people[o], n))
        BY <1>4, <3>1, <3>8, LaterHasAsMany
      <3>10. Marked(e.existing, n) <= Holds(e.form.names, n)
        BY <1>1, <1>2 DEF EditSound, KeepsAcquainted, Marked
      <3>11. Holds(e.form.names, n) \in Nat
        <4>1. DOMAIN e.form.names = 1 .. Len(e.form.names) /\ Len(e.form.names) \in Nat
          BY <3>1
        <4>2. IsFiniteSet(DOMAIN e.form.names)
          BY <4>1, FS_Interval
        <4>3. IsFiniteSet({i \in DOMAIN e.form.names : e.form.names[i] = n})
          <5> HIDE DEF e
          <5>1. QED
            BY <4>2, FS_Subset
        <4>4. QED
          BY <4>3, FS_CardinalityType DEF Holds
      <3>12. Cardinality(RowsOf(e.existing, n)) \in Nat
        <4>1. IsFiniteSet(RowsOf(e.existing, n))
          BY <3>1, FS_Subset DEF IsList, RowsOf
        <4>2. QED
          BY <4>1, FS_CardinalityType
      <3>13. ~(Cardinality(RowsOf(e.existing, n)) <= Holds(e.form.names, n))
        <4>1. SUFFICES ASSUME Cardinality(RowsOf(e.existing, n)) <= Holds(e.form.names, n)
                       PROVE  FALSE
          OBVIOUS
        <4>2. Marked(e.existing, n) <= Marked(list, n)
          <5> HIDE DEF generation
          <5>1. QED
            BY <3>1, <4>1, EnoughNames
        <4>3. Marked(people[o], n) \in Nat
          BY <1>4 DEF Marked
        <4> HIDE DEF list, marks
        <4>4. QED
          BY <3>2, <3>3, <3>4, <3>5, <4>2, <4>3
      <3>14. Holds(e.form.names, n) \in
                Marked(e.existing, n) .. (Cardinality(RowsOf(people[o], n)) - 1)
        <4> HIDE DEF e, list, marks, generation
        <4>1. QED
          BY <1>4, <3>2, <3>9, <3>10, <3>11, <3>12, <3>13
      <3>15. QED
        BY <1>1, <1>6, <3>14 DEF LostToStaleEdits
    <2>4. QED
      BY <2>2, <2>3
  <1>7. QED
    BY <1>5, <1>6

(* No other step lowers them.                                              *)
LEMMA MarksStay ==
    ASSUME OrderInv, [Next]_vars, NEW o \in Orders, NEW n \in Names,
           Marked(people'[o], n) < Marked(people[o], n)
    PROVE  LostToStaleEdits(o, n)
  <1> USE DEF OrderInv
  <1> DEFINE marks == {p \in RowsOf(people[o], n) : p.marked}
  <1>1. IsList(people[o]) /\ IsFiniteSet(marks) /\ Marked(people[o], n) \in Nat
    <2>1. IsList(people[o])
      BY DEF ListsAreWhole
    <2>2. IsFiniteSet(marks)
      BY <2>1, FS_Subset DEF IsList, RowsOf
    <2>3. QED
      BY <2>1, <2>2, FS_CardinalityType DEF Marked
  <1>2. people' # people
    BY <1>1
  <1>3. ASSUME NEW c \in Calls, CommitEdit(c) PROVE LostToStaleEdits(o, n)
    BY <1>3, CommitCost
  <1>4. ASSUME NEW q \in Orders, NEW p \in people[q], MarkAcknowledged(q, p)
        PROVE  LostToStaleEdits(o, n)
    <2> DEFINE r == [p EXCEPT !.marked = TRUE]
               new == {s \in RowsOf(people'[o], n) : s.marked}
    <2>1. ~p.marked /\ people' = [people EXCEPT ![q] = (people[q] \ {p}) \cup {r}]
      BY <1>4 DEF MarkAcknowledged
    <2>2. marks \in SUBSET new
      <3> HIDE DEF r
      <3>1. \A s \in people[o] : s # p => s \in people'[o]
        BY <2>1 DEF OrderTypes
      <3>2. QED
        BY <2>1, <3>1 DEF RowsOf
    <2>3. IsFiniteSet(new)
      <3>1. IsList(people'[o])
        BY <1>4, MarkStep DEF ListsAreWhole
      <3>2. QED
        BY <3>1, FS_Subset DEF IsList, RowsOf
    <2> HIDE DEF new, marks, r
    <2>4. Cardinality(marks) <= Cardinality(new) /\ Cardinality(new) \in Nat
      BY <2>2, <2>3, FS_Subset, FS_CardinalityType
    <2>5. Marked(people'[o], n) = Cardinality(new) /\ Marked(people[o], n) = Cardinality(marks)
      BY DEF Marked, new, marks
    <2>6. QED
      BY <1>1, <2>4, <2>5
  <1>5. QED
    BY <1>2, <1>3, <1>4
       DEF Next, OrderStep, ReadPeople, LockOrder, ClearPeople, RollbackEdit, LinkDocuments,
           CancelByLink, UnlinkDocument, vars, orderVars

(* "An acquainted person cannot be removed"                                *)
(* (administrative_order_repo.go:654): a mark is lost only to an edit that *)
(* read the list before the mark was made, or to one that leaves out an    *)
(* unmarked homonym.                                                       *)
THEOREM MarksSurviveEdits == Spec => MarksAreLostToStaleEditsOnly
  <1>1. OrderInv /\ [Next]_vars =>
           [\A o \in Orders, n \in Names :
               Marked(people'[o], n) < Marked(people[o], n) => LostToStaleEdits(o, n)]_orderVars
    BY MarksStay
  <1>2. QED
    BY <1>1, OrdersCorrect, PTL DEF Spec, MarksAreLostToStaleEditsOnly, LostToStaleEdits

-----------------------------------------------------------------------------
(* Links and their journal.                                                *)

LinkTable == [Links -> {NoLink} \cup
    [source : Documents, target : Documents, type : LinkTypes \cup {"order_cancels"}]]

LinkInv ==
    /\ links \in LinkTable
    /\ IsFiniteSet(Present)
    /\ \A l \in Present : links[l].source # links[l].target
    /\ JournalTellsLinks

InJournal(l, action) == {d \in Documents : <<l, action, d>> \in journal}

(* What JournalTellsLinks says of one link.                                *)
LinkIsTold(l) ==
    /\ l \in Present <=> InJournal(l, "LINK_CREATE") # {} /\ InJournal(l, "LINK_DELETE") = {}
    /\ l \in Present => InJournal(l, "LINK_CREATE") = Ends(l)
    /\ l \notin Present => InJournal(l, "LINK_DELETE") = InJournal(l, "LINK_CREATE")
    /\ l \in Present /\ links[l].type \in OrderOnly => Ends(l) \subseteq Orders

(* The journal tells of each link by itself.                               *)
LEMMA ToldEach == JournalTellsLinks <=> \A l \in Links : LinkIsTold(l)
  BY DEF JournalTellsLinks, LinkIsTold, InJournal

(* A link that is there has two ends.                                      *)
LEMMA LinkFields ==
    ASSUME links \in LinkTable, NEW l \in Links
    PROVE  l \in Present => Ends(l) \subseteq Documents /\ Ends(l) # {}
  BY DEF LinkTable, Present, Ends

(* An insertion adds one link, which no event named before.                *)
LEMMA InsertStep ==
    ASSUME LinkInv, NEW u, NEW l \in Links, NEW source \in Documents, NEW target \in Documents,
           NEW type \in LinkTypes \cup {"order_cancels"}, Insert(u, l, source, target, type)
    PROVE  LinkInv'
  <1> DEFINE row == [source |-> source, target |-> target, type |-> type]
  <1>1. /\ ~Used(l) /\ source # target /\ ValidLinkType(source, target, type)
        /\ links' = [links EXCEPT ![l] = row]
        /\ journal' = journal \cup ({l} \X {"LINK_CREATE"} \X {source, target})
    BY DEF Insert, Recorded
  <1>2. InJournal(l, "LINK_CREATE") = {}
    BY <1>1 DEF Used, InJournal
  <1>3. l \notin Present /\ InJournal(l, "LINK_DELETE") = {}
    BY <1>2, ToldEach DEF LinkInv, LinkIsTold
  <1>4. row # NoLink
    BY DEF NoLink
  <1>5. /\ row.source = source /\ row.target = target /\ row.type = type
        /\ row \in [source : Documents, target : Documents, type : LinkTypes \cup {"order_cancels"}]
    OBVIOUS
  <1> HIDE DEF row
  <1>6. links'[l] = row /\ \A k \in Links \ {l} : links'[k] = links[k]
    BY <1>1 DEF LinkInv, LinkTable
  <1>7. links' \in LinkTable
    BY <1>1, <1>5 DEF LinkInv, LinkTable
  <1>8. Present' = Present \cup {l}
    BY <1>4, <1>6 DEF Present
  <1>9. IsFiniteSet(Present')
    BY <1>8, FS_AddElement DEF LinkInv
  <1>10. \A k \in Present' : links'[k].source # links'[k].target
    <2>1. \A k \in Present : k \in Links /\ k # l
      BY <1>3 DEF Present
    <2>2. QED
      BY <1>1, <1>5, <1>6, <1>8, <2>1 DEF LinkInv
  <1>11. ASSUME NEW k \in Links PROVE LinkIsTold(k)'
    <2>1. CASE k = l
      <3>1. InJournal(l, "LINK_CREATE")' = {source, target}
        BY <1>1, <1>2 DEF InJournal
      <3>2. InJournal(l, "LINK_DELETE")' = {}
        BY <1>1, <1>3 DEF InJournal
      <3>3. Ends(l)' = {source, target}
        BY <1>5, <1>6 DEF Ends
      <3>4. links'[l].type \in OrderOnly => {source, target} \subseteq Orders
        BY <1>1, <1>5, <1>6 DEF ValidLinkType
      <3>5. l \in Present'
        BY <1>8
      <3>6. QED
        BY <2>1, <3>1, <3>2, <3>3, <3>4, <3>5 DEF LinkIsTold
    <2>2. CASE k # l
      <3>1. \A action : InJournal(k, action)' = InJournal(k, action)
        BY <1>1, <2>2 DEF InJournal
      <3>2. links'[k] = links[k] /\ Ends(k)' = Ends(k) /\ (k \in Present' <=> k \in Present)
        BY <1>6, <1>8, <2>2 DEF Ends
      <3>3. LinkIsTold(k)
        BY ToldEach DEF LinkInv
      <3>4. InJournal(k, "LINK_CREATE")' = InJournal(k, "LINK_CREATE")
        BY <3>1
      <3>5. InJournal(k, "LINK_DELETE")' = InJournal(k, "LINK_DELETE")
        BY <3>1
      <3>6. QED
        BY <3>2, <3>3, <3>4, <3>5 DEF LinkIsTold
    <2>3. QED
      BY <2>1, <2>2
  <1>12. JournalTellsLinks'
    BY <1>11 DEF JournalTellsLinks, LinkIsTold, InJournal
  <1>13. QED
    BY <1>7, <1>9, <1>10, <1>12 DEF LinkInv

(* A deletion takes one away and tells of both its ends.                   *)
LEMMA UnlinkStep ==
    ASSUME LinkInv, NEW u, NEW l \in Links, UnlinkDocument(u, l)
    PROVE  LinkInv'
  <1>1. /\ l \in Present
        /\ links' = [links EXCEPT ![l] = NoLink]
        /\ journal' = journal \cup ({l} \X {"LINK_DELETE"} \X Ends(l))
    BY DEF UnlinkDocument, Recorded
  <1>2. /\ InJournal(l, "LINK_CREATE") = Ends(l) /\ InJournal(l, "LINK_DELETE") = {}
    BY <1>1, ToldEach DEF LinkInv, LinkIsTold
  <1>3. Ends(l) \subseteq Documents /\ Ends(l) # {}
    BY <1>1, LinkFields DEF LinkInv
  <1>4. links'[l] = NoLink /\ \A k \in Links \ {l} : links'[k] = links[k]
    BY <1>1 DEF LinkInv, LinkTable
  <1>5. links' \in LinkTable
    BY <1>1 DEF LinkInv, LinkTable
  <1>6. Present' = Present \ {l}
    BY <1>4 DEF Present
  <1>7. IsFiniteSet(Present')
    BY <1>6, FS_RemoveElement DEF LinkInv
  <1>8. \A k \in Present' : links'[k].source # links'[k].target
    <2>1. \A k \in Present' : k \in Links /\ k # l /\ k \in Present
      BY <1>6 DEF Present
    <2>2. QED
      BY <1>4, <2>1 DEF LinkInv
  <1>9. ASSUME NEW k \in Links PROVE LinkIsTold(k)'
    <2>1. CASE k = l
      <3>1. InJournal(l, "LINK_CREATE")' = Ends(l)
        BY <1>1, <1>2 DEF InJournal
      <3>2. InJournal(l, "LINK_DELETE")' = Ends(l)
        BY <1>1, <1>2, <1>3 DEF InJournal
      <3>3. l \notin Present'
        BY <1>6
      <3>4. QED
        BY <1>3, <2>1, <3>1, <3>2, <3>3 DEF LinkIsTold
    <2>2. CASE k # l
      <3>1. \A action : InJournal(k, action)' = InJournal(k, action)
        BY <1>1, <2>2 DEF InJournal
      <3>2. links'[k] = links[k] /\ Ends(k)' = Ends(k) /\ (k \in Present' <=> k \in Present)
        BY <1>4, <1>6, <2>2 DEF Ends
      <3>3. LinkIsTold(k)
        BY ToldEach DEF LinkInv
      <3>4. InJournal(k, "LINK_CREATE")' = InJournal(k, "LINK_CREATE")
        BY <3>1
      <3>5. InJournal(k, "LINK_DELETE")' = InJournal(k, "LINK_DELETE")
        BY <3>1
      <3>6. QED
        BY <3>2, <3>3, <3>4, <3>5 DEF LinkIsTold
    <2>3. QED
      BY <2>1, <2>2
  <1>10. JournalTellsLinks'
    BY <1>9 DEF JournalTellsLinks, LinkIsTold, InJournal
  <1>11. QED
    BY <1>5, <1>7, <1>8, <1>10 DEF LinkInv

(* The invariant of the links holds.                                       *)
THEOREM LinksCorrect == Spec => []LinkInv
  <1>1. Init => LinkInv
    <2> SUFFICES ASSUME Init PROVE LinkInv
      OBVIOUS
    <2>1. links = [l \in Links |-> NoLink] /\ journal = {}
      BY DEF Init
    <2>2. Present = {}
      BY <2>1 DEF Present
    <2>3. links \in LinkTable
      BY <2>1 DEF LinkTable
    <2>4. JournalTellsLinks
      BY <2>1, <2>2 DEF JournalTellsLinks
    <2>5. QED
      BY <2>2, <2>3, <2>4, FS_EmptySet DEF LinkInv
  <1>2. LinkInv /\ [Next]_vars => LinkInv'
    <2> SUFFICES ASSUME LinkInv, [Next]_vars PROVE LinkInv'
      OBVIOUS
    <2>1. ASSUME UNCHANGED linkVars PROVE LinkInv'
      BY <2>1 DEF LinkInv, linkVars, Present, JournalTellsLinks, Ends
    <2>2. \A p \in Pairs : p[1] \in Documents /\ p[2] \in Documents
      OBVIOUS
    <2>3. ASSUME NEW u \in Users, NEW l \in Links, NEW p \in Pairs, NEW type \in LinkTypes,
                 LinkDocuments(u, l, p[1], p[2], type)
          PROVE  LinkInv'
      BY <2>2, <2>3, InsertStep DEF LinkDocuments
    <2>4. ASSUME NEW u \in Users, NEW l \in Links, NEW p \in Pairs, CancelByLink(u, l, p[1], p[2])
          PROVE  LinkInv'
      BY <2>2, <2>4, InsertStep DEF CancelByLink
    <2>5. ASSUME NEW u \in Users, NEW l \in Links, UnlinkDocument(u, l) PROVE LinkInv'
      BY <2>5, UnlinkStep
    <2>6. QED
      BY <2>1, <2>3, <2>4, <2>5 DEF Next, OrderStep, vars, linkVars
  <1>3. QED
    BY <1>1, <1>2, PTL DEF Spec

(* A link is in the table exactly while the journals of both its documents *)
(* have its creation and neither its deletion (link_repo.go,               *)
(* CreateWithOutbox and DeleteWithOutbox), and only orders amend or cancel *)
(* each other.                                                             *)
THEOREM LinksAreJournalled == Spec => []JournalTellsLinks
  <1>1. QED
    BY LinksCorrect, PTL DEF LinkInv

-----------------------------------------------------------------------------
(* The graph.                                                              *)

HIDE OrderConstants

(* A set of numbers has a least one; this is the induction of this module. *)
LEMMA Least ==
    ASSUME NEW S \in SUBSET Nat, S # {}
    PROVE  \E m \in S : \A n \in S : m <= n
  <1> DEFINE R == OpToRel(<, Nat)
  <1>1. IsWellFoundedOn(R, Nat)
    BY NatLessThanWellFounded, Zenon
  <1>2. \A a, b \in Nat : <<a, b>> \in R <=> a < b
    BY DEF OpToRel
  <1> HIDE DEF R
  <1>3. PICK m \in S : \A n \in S : ~(<<n, m>> \in R)
    BY <1>1, WFMin
  <1>4. \A n \in S : m <= n
    <2> SUFFICES ASSUME NEW n \in S PROVE m <= n
      OBVIOUS
    <2>1. ~(n < m)
      BY <1>2, <1>3
    <2>2. QED
      BY <2>1
  <1>5. QED
    BY <1>4

(* What holds of 0 and goes on to the next number up to N holds up to N.   *)
LEMMA UpTo ==
    ASSUME NEW N \in Nat, NEW S, 0 \in S, \A n \in 0 .. N : n < N /\ n \in S => n + 1 \in S
    PROVE  \A n \in 0 .. N : n \in S
  <1> DEFINE Bad == {n \in 0 .. N : n \notin S}
  <1> SUFFICES ASSUME Bad # {} PROVE FALSE
    OBVIOUS
  <1>1. Bad \in SUBSET Nat
    OBVIOUS
  <1>2. PICK m \in Bad : \A n \in Bad : m <= n
    BY <1>1, Least
  <1>3. m \in Nat /\ m # 0 /\ m <= N /\ m \notin S
    OBVIOUS
  <1>4. m - 1 \in 0 .. N /\ m - 1 < N /\ m - 1 \notin Bad
    BY <1>2, <1>3
  <1>5. (m - 1) + 1 \in S
    BY <1>4
  <1>6. QED
    BY <1>3, <1>5

Repeats(f, X, step, base, a, N) ==
    /\ f \in [a .. (a + N) -> SUBSET X]
    /\ \A n \in a .. (a + N) : f[n] = IF n = a THEN base ELSE step[f[n - 1]]

(* Repeating a step from a first number on defines a function.             *)
LEMMA Repetition ==
    ASSUME NEW X, NEW step \in [SUBSET X -> SUBSET X], NEW base \in SUBSET X,
           NEW a \in Nat, NEW N \in Nat
    PROVE  \E f : Repeats(f, X, step, base, a, N)
  <1> DEFINE Is(f, n) == /\ f \in [a .. (a + n) -> SUBSET X]
                         /\ \A i \in a .. (a + n) : f[i] = IF i = a THEN base ELSE step[f[i - 1]]
             S == {n \in 0 .. N : \E f : Is(f, n)}
  <1>1. 0 \in S
    <2> DEFINE f == [i \in a .. (a + 0) |-> base]
    <2>1. \A i \in a .. (a + 0) : i = a
      OBVIOUS
    <2>2. Is(f, 0)
      BY <2>1
    <2> HIDE DEF Is
    <2>3. QED
      BY <2>2
  <1>2. ASSUME NEW n \in 0 .. N, n < N, n \in S PROVE n + 1 \in S
    <2>1. PICK f : Is(f, n)
      BY <1>2
    <2> DEFINE g == [i \in a .. (a + (n + 1)) |-> IF i = a + (n + 1) THEN step[f[a + n]] ELSE f[i]]
    <2>2. \A i \in a .. (a + (n + 1)) : i # a + (n + 1) => i \in a .. (a + n)
      OBVIOUS
    <2>3. a + n \in a .. (a + n) /\ a + (n + 1) # a
      OBVIOUS
    <2>4. step[f[a + n]] \in SUBSET X
      BY <2>1, <2>3
    <2>5. g \in [a .. (a + (n + 1)) -> SUBSET X]
      BY <2>1, <2>2, <2>4
    <2>6. ASSUME NEW i \in a .. (a + (n + 1))
          PROVE  g[i] = IF i = a THEN base ELSE step[g[i - 1]]
      <3>1. CASE i = a + (n + 1)
        <4>1. i - 1 = a + n /\ i - 1 \in a .. (a + (n + 1)) /\ i - 1 # a + (n + 1)
          BY <3>1
        <4>2. g[i] = step[f[a + n]]
          BY <3>1
        <4>3. g[i - 1] = f[i - 1]
          BY <4>1
        <4>4. QED
          BY <2>3, <3>1, <4>1, <4>2, <4>3
      <3>2. CASE i # a + (n + 1)
        <4>1. i \in a .. (a + n) /\ g[i] = f[i]
          BY <2>2, <3>2
        <4>2. f[i] = IF i = a THEN base ELSE step[f[i - 1]]
          BY <2>1, <4>1
        <4>3. i # a => i - 1 \in a .. (a + (n + 1)) /\ i - 1 # a + (n + 1)
          BY <4>1
        <4>4. i # a => g[i - 1] = f[i - 1]
          BY <4>3
        <4>5. QED
          BY <4>1, <4>2, <4>4
      <3>3. QED
        BY <3>1, <3>2
    <2> HIDE DEF g
    <2>7. Is(g, n + 1)
      BY <2>5, <2>6
    <2>8. n + 1 \in 0 .. N
      BY <1>2
    <2> HIDE DEF Is
    <2>9. QED
      BY <2>7, <2>8
  <1> HIDE DEF S
  <1>3. N \in S
    BY <1>1, <1>2, UpTo
  <1> USE DEF S
  <1>4. PICK f : Is(f, N)
    BY <1>3
  <1>5. QED
    BY <1>4 DEF Repeats

NextLayer(G) == G \cup UNION {Touching(d) : d \in UNION {Ends(g) : g \in G}}

(* GetGraph finds what MaxDepth - 1 steps find from the links of the root. *)
LEMMA GraphLayers ==
    ASSUME NEW root
    PROVE  \E graph : /\ graph = [n \in 1 .. MaxDepth |->
                              IF n = 1 THEN Touching(root) ELSE NextLayer(graph[n - 1])]
                      /\ GetGraph(root) = graph[MaxDepth]
  <1> DEFINE step == [G \in SUBSET Present |-> NextLayer(G)]
             F(g) == [n \in 1 .. MaxDepth |->
                        IF n = 1 THEN Touching(root)
                        ELSE g[n - 1] \cup UNION {Touching(d) : d \in UNION {Ends(k) : k \in g[n - 1]}}]
             graph == CHOOSE g : g = F(g)
  <1>1. step \in [SUBSET Present -> SUBSET Present] /\ Touching(root) \in SUBSET Present
    BY DEF NextLayer, Touching
  <1>2. MaxDepth - 1 \in Nat /\ 1 + (MaxDepth - 1) = MaxDepth /\ MaxDepth \in Nat
    OBVIOUS
  <1>3. PICK f \in [1 .. MaxDepth -> SUBSET Present] :
           \A n \in 1 .. MaxDepth : f[n] = IF n = 1 THEN Touching(root) ELSE step[f[n - 1]]
    <2> DEFINE N == MaxDepth - 1
               first == 1
               base == Touching(root)
    <2>1. N \in Nat /\ first + N = MaxDepth /\ first \in Nat /\ base \in SUBSET Present
      BY <1>1, <1>2
    <2> HIDE DEF step, N, first, base
    <2>2. PICK f : Repeats(f, Present, step, base, first, N)
      BY <1>1, <2>1, Repetition
    <2>3. QED
      BY <2>1, <2>2 DEF Repeats, first, base
  <1>4. ASSUME NEW n \in 1 .. MaxDepth, n # 1
        PROVE  step[f[n - 1]] = NextLayer(f[n - 1])
    <2>1. n - 1 \in 1 .. MaxDepth
      BY <1>2, <1>4
    <2>2. f[n - 1] \in SUBSET Present
      BY <2>1
    <2>3. QED
      BY <2>2
  <1>5. f = F(f)
    <2> HIDE DEF step
    <2>1. QED
      BY <1>3, <1>4 DEF NextLayer
  <1>6. graph = F(graph)
    <2> HIDE DEF F
    <2>1. QED
      BY <1>5
  <1>7. GetGraph(root) = graph[MaxDepth]
    BY DEF GetGraph
  <1> HIDE DEF graph
  <1>8. graph = [n \in 1 .. MaxDepth |-> IF n = 1 THEN Touching(root) ELSE NextLayer(graph[n - 1])]
    BY <1>6 DEF NextLayer
  <1>9. QED
    BY <1>7, <1>8

(* A walk of at most MaxDepth links is in the graph, and the graph is in   *)
(* the table.                                                              *)
LEMMA GraphHoldsWalks ==
    ASSUME NEW root
    PROVE  /\ GetGraph(root) \subseteq Present
           /\ \A n \in 1 .. MaxDepth : \A walk \in [1 .. n -> Present] :
                root \in Ends(walk[1])
                /\ (\A i \in 2 .. n : Ends(walk[i - 1]) \cap Ends(walk[i]) # {})
                  => \A i \in 1 .. n : walk[i] \in GetGraph(root)
  <1>1. PICK graph : /\ graph = [n \in 1 .. MaxDepth |->
                           IF n = 1 THEN Touching(root) ELSE NextLayer(graph[n - 1])]
                     /\ GetGraph(root) = graph[MaxDepth]
    BY GraphLayers
  <1>2. MaxDepth - 1 \in Nat /\ MaxDepth \in Nat /\ 1 \in 1 .. MaxDepth
    OBVIOUS
  <1>3. \A n \in 0 .. (MaxDepth - 1) : n + 1 \in 1 .. MaxDepth
    OBVIOUS
  <1>4. graph[1] = Touching(root)
    BY <1>1, <1>2
  <1>5. ASSUME NEW n \in 0 .. (MaxDepth - 1), n < MaxDepth - 1
        PROVE  graph[(n + 1) + 1] = NextLayer(graph[n + 1])
    <2>1. (n + 1) + 1 \in 1 .. MaxDepth /\ (n + 1) + 1 # 1 /\ ((n + 1) + 1) - 1 = n + 1
      BY <1>2, <1>5
    <2>2. QED
      BY <1>1, <2>1
  <1>6. GetGraph(root) \subseteq Present
    <2> DEFINE S == {n \in 0 .. (MaxDepth - 1) : graph[n + 1] \subseteq Present}
    <2>1. 0 \in S
      BY <1>2, <1>4 DEF Touching
    <2>2. \A n \in 0 .. (MaxDepth - 1) : n < MaxDepth - 1 /\ n \in S => n + 1 \in S
      <3> SUFFICES ASSUME NEW n \in 0 .. (MaxDepth - 1), n < MaxDepth - 1, n \in S PROVE n + 1 \in S
        OBVIOUS
      <3>1. NextLayer(graph[n + 1]) \subseteq Present
        BY DEF NextLayer, Touching
      <3>2. n + 1 \in 0 .. (MaxDepth - 1)
        OBVIOUS
      <3>3. QED
        BY <1>5, <3>1, <3>2
    <2>3. MaxDepth - 1 \in S
      <3> DEFINE N == MaxDepth - 1
      <3>1. N \in Nat /\ N \in 0 .. N
        BY <1>2
      <3>2. \A m \in 0 .. N : m < N /\ m \in S => m + 1 \in S
        BY <2>2
      <3> HIDE DEF S, N
      <3>3. N \in S
        BY <2>1, <3>1, <3>2, UpTo
      <3>4. QED
        BY <3>3 DEF N
    <2> HIDE DEF S
    <2>4. QED
      BY <1>1, <1>2, <2>3 DEF S
  <1>7. ASSUME NEW n \in 1 .. MaxDepth, NEW walk \in [1 .. n -> Present],
               root \in Ends(walk[1]), \A i \in 2 .. n : Ends(walk[i - 1]) \cap Ends(walk[i]) # {},
               NEW k \in 1 .. n
        PROVE  walk[k] \in GetGraph(root)
    <2> DEFINE S == {m \in 0 .. (MaxDepth - 1) :
                        \A i \in 1 .. n : i <= m + 1 => walk[i] \in graph[m + 1]}
    <2>1. 0 \in S
      <3>1. walk[1] \in Touching(root)
        BY <1>7 DEF Touching
      <3>2. \A i \in 1 .. n : i <= 0 + 1 => i = 1
        OBVIOUS
      <3>3. QED
        BY <1>2, <1>4, <3>1, <3>2
    <2>2. \A m \in 0 .. (MaxDepth - 1) : m < MaxDepth - 1 /\ m \in S => m + 1 \in S
      <3> SUFFICES ASSUME NEW m \in 0 .. (MaxDepth - 1), m < MaxDepth - 1, m \in S,
                          NEW i \in 1 .. n, i <= (m + 1) + 1
                   PROVE  walk[i] \in graph[(m + 1) + 1]
        OBVIOUS
      <3>1. graph[(m + 1) + 1] = NextLayer(graph[m + 1])
        BY <1>5
      <3>2. CASE i <= m + 1
        BY <3>1, <3>2 DEF NextLayer
      <3>3. CASE ~(i <= m + 1)
        <4>1. i \in 2 .. n /\ i - 1 \in 1 .. n /\ i - 1 <= m + 1
          BY <3>3
        <4>2. walk[i - 1] \in graph[m + 1]
          BY <4>1
        <4>3. PICK d : d \in Ends(walk[i - 1]) /\ d \in Ends(walk[i])
          BY <1>7, <4>1
        <4>4. walk[i] \in Touching(d)
          BY <4>3 DEF Touching
        <4> HIDE DEF S
        <4>5. QED
          BY <3>1, <4>2, <4>3, <4>4 DEF NextLayer
      <3>4. QED
        BY <3>2, <3>3
    <2>3. MaxDepth - 1 \in S
      <3> DEFINE N == MaxDepth - 1
      <3>1. N \in Nat /\ N \in 0 .. N
        BY <1>2
      <3>2. \A m \in 0 .. N : m < N /\ m \in S => m + 1 \in S
        BY <2>2
      <3> HIDE DEF S, N
      <3>3. N \in S
        BY <2>1, <3>1, <3>2, UpTo
      <3>4. QED
        BY <3>3 DEF N
    <2> HIDE DEF S
    <2>4. k <= (MaxDepth - 1) + 1 /\ (MaxDepth - 1) + 1 = MaxDepth
      OBVIOUS
    <2>5. QED
      BY <1>1, <2>3, <2>4 DEF S
  <1>8. QED
    BY <1>6, <1>7

Spread(R, among) == R \cup UNION {Ends(l) : l \in {k \in among : Ends(k) \cap R # {}}}
ClosedUnder(S, among) == \A k \in among : Ends(k) \cap S # {} => Ends(k) \subseteq S

Among(found, R) == {l \in found : Ends(l) \subseteq R}

IsLayers(reached, root, among) ==
    reached = [n \in 0 .. Cardinality(among) |->
                 IF n = 0 THEN {root} ELSE Spread(reached[n - 1], among)]

IsLeast(R, root, among) ==
    /\ root \in R
    /\ ClosedUnder(R, among)
    /\ \A S : root \in S /\ ClosedUnder(S, among) => R \subseteq S

(* KeepReachable keeps what as many steps as there are links spread to.    *)
LEMMA ReachedLayers ==
    ASSUME LinkInv, NEW root \in Documents, NEW found \in SUBSET Present, NEW readable
    PROVE  LET filtered == Among(found, readable)
           IN  /\ IsFiniteSet(filtered) /\ Cardinality(filtered) \in Nat
               /\ \E reached :
                    /\ IsLayers(reached, root, filtered)
                    /\ KeepReachable(root, found, readable) =
                         Among(filtered, reached[Cardinality(filtered)])
  <1> DEFINE filtered == {l \in found : Ends(l) \subseteq readable}
             N == Cardinality(filtered)
             step == [R \in SUBSET Documents |-> Spread(R, filtered)]
             F(g) == [n \in 0 .. Cardinality(filtered) |->
                        IF n = 0 THEN {root}
                        ELSE g[n - 1] \cup
                             UNION {Ends(l) : l \in {k \in filtered : Ends(k) \cap g[n - 1] # {}}}]
             reached == CHOOSE g : g = F(g)
  <1>1. filtered \in SUBSET Present /\ IsFiniteSet(filtered) /\ N \in Nat
    BY FS_Subset, FS_CardinalityType DEF LinkInv
  <1>2. \A l \in Present : Ends(l) \subseteq Documents
    BY LinkFields DEF LinkInv, Present
  <1>3. step \in [SUBSET Documents -> SUBSET Documents]
    BY <1>1, <1>2 DEF Spread
  <1>4. PICK f \in [0 .. N -> SUBSET Documents] :
           \A n \in 0 .. N : f[n] = IF n = 0 THEN {root} ELSE step[f[n - 1]]
    <2> DEFINE first == 0
               base == {root}
    <2>1. first \in Nat /\ first + N = N /\ base \in SUBSET Documents
      BY <1>1
    <2> HIDE DEF step, N, first, base
    <2>2. PICK f : Repeats(f, Documents, step, base, first, N)
      BY <1>1, <1>3, <2>1, Repetition
    <2>3. QED
      BY <2>1, <2>2 DEF Repeats, first, base
  <1>5. ASSUME NEW n \in 0 .. N, n # 0 PROVE step[f[n - 1]] = Spread(f[n - 1], filtered)
    <2>1. n - 1 \in 0 .. N
      BY <1>1, <1>5
    <2>2. f[n - 1] \in SUBSET Documents
      BY <2>1
    <2>3. QED
      BY <2>2
  <1>6. f = F(f)
    <2> HIDE DEF step, filtered
    <2>1. QED
      BY <1>4, <1>5 DEF Spread
  <1>7. reached = F(reached)
    <2> HIDE DEF F
    <2>1. QED
      BY <1>6
  <1>8. KeepReachable(root, found, readable) = {l \in filtered : Ends(l) \subseteq reached[N]}
    BY DEF KeepReachable
  <1> HIDE DEF reached
  <1>9. reached = [n \in 0 .. N |-> IF n = 0 THEN {root} ELSE Spread(reached[n - 1], filtered)]
    <2> HIDE DEF filtered
    <2>1. QED
      BY <1>7 DEF Spread
  <1>10. filtered = Among(found, readable) /\ IsLayers(reached, root, filtered)
         /\ KeepReachable(root, found, readable) = Among(filtered, reached[Cardinality(filtered)])
    BY <1>8, <1>9 DEF Among, IsLayers
  <1> HIDE DEF filtered
  <1>11. QED
    BY <1>1, <1>10

(* That is the least set that holds the root and is closed under the       *)
(* filtered links: each step that is not the last reaches a link more.     *)
LEMMA ReachedIsLeast ==
    ASSUME LinkInv, NEW root \in Documents, NEW found \in SUBSET Present, NEW readable
    PROVE  LET filtered == Among(found, readable)
           IN  \E R : /\ KeepReachable(root, found, readable) = Among(filtered, R)
                      /\ IsLeast(R, root, filtered)
  <1> DEFINE filtered == Among(found, readable)
             N == Cardinality(filtered)
  <1>1. PICK reached :
           /\ IsFiniteSet(filtered) /\ N \in Nat
           /\ IsLayers(reached, root, filtered)
           /\ KeepReachable(root, found, readable) = Among(filtered, reached[N])
    BY ReachedLayers
  <1> HIDE DEF filtered, N
  <1>0. N \in Nat /\ 0 \in 0 .. N /\ N \in 0 .. N
    BY <1>1
  <1>2. reached[0] = {root}
    BY <1>0, <1>1 DEF IsLayers, N
  <1>3. ASSUME NEW n \in 0 .. N, n < N PROVE reached[n + 1] = Spread(reached[n], filtered)
    <2>1. n + 1 \in 0 .. N /\ n + 1 # 0 /\ (n + 1) - 1 = n
      BY <1>1, <1>3
    <2>2. QED
      BY <1>1, <2>1 DEF IsLayers, N
  <1>4. root \in reached[N]
    <2> DEFINE S == {n \in 0 .. N : root \in reached[n]}
    <2>1. 0 \in S
      BY <1>1, <1>2
    <2>2. \A n \in 0 .. N : n < N /\ n \in S => n + 1 \in S
      BY <1>1, <1>3 DEF Spread
    <2> HIDE DEF S
    <2>3. N \in S
      BY <1>0, <2>1, <2>2, UpTo
    <2>4. QED
      BY <2>3 DEF S
  <1>5. ASSUME NEW T, root \in T, ClosedUnder(T, filtered) PROVE reached[N] \subseteq T
    <2> DEFINE S == {n \in 0 .. N : reached[n] \subseteq T}
    <2>1. 0 \in S
      BY <1>1, <1>2, <1>5
    <2>2. \A n \in 0 .. N : n < N /\ n \in S => n + 1 \in S
      <3> SUFFICES ASSUME NEW n \in 0 .. N, n < N, n \in S PROVE n + 1 \in S
        OBVIOUS
      <3>1. Spread(reached[n], filtered) \subseteq T
        BY <1>5 DEF Spread, ClosedUnder
      <3>2. n + 1 \in 0 .. N
        BY <1>1
      <3>3. QED
        BY <1>3, <3>1, <3>2
    <2> HIDE DEF S
    <2>3. N \in S
      BY <1>0, <2>1, <2>2, UpTo
    <2>4. QED
      BY <2>3 DEF S
  <1>6. ClosedUnder(reached[N], filtered)
    <2> DEFINE within(n) == {k \in filtered : Ends(k) \subseteq reached[n]}
               S == {n \in 0 .. N : ClosedUnder(reached[n], filtered) \/ Cardinality(within(n)) >= n}
    <2>1. ASSUME NEW n \in 0 .. N
          PROVE  /\ within(n) \in SUBSET filtered /\ IsFiniteSet(within(n))
                 /\ Cardinality(within(n)) \in Nat
      BY <1>1, FS_Subset, FS_CardinalityType
    <2>2. 0 \in S
      <3> HIDE DEF within
      <3>1. Cardinality(within(0)) \in Nat
        BY <1>0, <2>1
      <3>2. Cardinality(within(0)) >= 0
        BY <3>1
      <3>3. QED
        BY <1>0, <3>2
    <2>3. ASSUME NEW n \in 0 .. N, n < N, n \in S PROVE n + 1 \in S
      <3>1. n + 1 \in 0 .. N
        BY <1>1, <2>3
      <3>2. reached[n + 1] = Spread(reached[n], filtered)
        BY <1>3, <2>3
      <3>3. CASE ClosedUnder(reached[n], filtered)
        <4>1. Spread(reached[n], filtered) = reached[n]
          BY <3>3 DEF Spread, ClosedUnder
        <4>2. QED
          BY <3>1, <3>2, <3>3, <4>1
      <3>4. CASE ~ClosedUnder(reached[n], filtered)
        <4>1. PICK k \in filtered : Ends(k) \cap reached[n] # {} /\ ~(Ends(k) \subseteq reached[n])
          BY <3>4 DEF ClosedUnder
        <4>2. k \notin within(n) /\ k \in within(n + 1)
          BY <3>2, <4>1 DEF Spread
        <4>3. within(n) \in SUBSET within(n + 1)
          BY <3>2 DEF Spread
        <4>4. Cardinality(within(n)) >= n
          BY <2>3, <3>4
        <4> HIDE DEF within
        <4>5. /\ Cardinality(within(n)) <= Cardinality(within(n + 1))
              /\ Cardinality(within(n)) # Cardinality(within(n + 1))
          BY <2>1, <3>1, <4>2, <4>3, FS_Subset
        <4>6. Cardinality(within(n)) \in Nat /\ Cardinality(within(n + 1)) \in Nat
          BY <2>1, <3>1
        <4>7. Cardinality(within(n + 1)) >= n + 1
          BY <4>4, <4>5, <4>6
        <4>8. QED
          BY <3>1, <4>7
      <3>5. QED
        BY <3>3, <3>4
    <2> HIDE DEF S
    <2>4. N \in S
      BY <1>0, <2>2, <2>3, UpTo
    <2>5. CASE Cardinality(within(N)) >= N
      <3>1. N \in 0 .. N
        BY <1>1
      <3> HIDE DEF within
      <3>2. within(N) \in SUBSET filtered /\ Cardinality(within(N)) \in Nat
        BY <2>1, <3>1
      <3>3. Cardinality(within(N)) <= Cardinality(filtered)
        BY <1>1, <3>2, FS_Subset
      <3>4. Cardinality(within(N)) = Cardinality(filtered)
        BY <1>1, <2>5, <3>2, <3>3 DEF N
      <3>5. within(N) = filtered
        BY <1>1, <3>2, <3>4, FS_Subset
      <3>6. QED
        BY <3>5 DEF within, ClosedUnder
    <2>6. QED
      BY <2>4, <2>5 DEF S
  <1>7. IsLeast(reached[N], root, filtered)
    BY <1>4, <1>5, <1>6 DEF IsLeast
  <1>8. QED
    BY <1>1, <1>7 DEF filtered

(* For a set of documents the service gives those of them that the user    *)
(* may read, as for one.                                                   *)
LEMMA ReadableAmong ==
    ASSUME NEW u \in Users, NEW ids \in SUBSET Documents
    PROVE  Access!ResolveReadableDocuments(u, ids) = ids \cap Access!Readable(u)
  <1> DEFINE subjects == Access!Subjects(u)
  <1>1. \A d \in ids : ~Access!ExecutesIn(subjects, d) /\ ~Access!AcknowledgesIn(subjects, d)
    BY DEF Access!ExecutesIn, Access!AcknowledgesIn
  <1>2. \A d \in ids : Access!CanReadResolved(u, d) <=> Access!HasPermission(u, KindOf[d], "read")
    BY <1>1 DEF Access!CanReadResolved, Access!HasImplicitReadAccess
  <1>3. /\ Access!AssignedAmong(subjects, ids) = {}
        /\ Access!AcknowledgedAmong(subjects, ids) = {}
    BY <1>1 DEF Access!AssignedAmong, Access!AcknowledgedAmong
  <1>4. Access!ResolveReadableDocuments(u, ids) =
           {d \in ids : Access!RequireDomainRead(u) /\ Access!HasPermission(u, KindOf[d], "read")}
    BY <1>3 DEF Access!ResolveReadableDocuments
  <1>5. QED
    BY <1>2, <1>4 DEF Access!Readable, Access!RequireReadResolved

(* The documents of the links that were found, of which the service asks.  *)
EndsOf(found) == UNION {Ends(l) : l \in found}

(* What the service keeps of the graph: the visible links of it that hang  *)
(* together with the root.                                                 *)
THEOREM FlowIsReachable ==
    ASSUME LinkInv, NEW u \in Users, NEW root \in Documents,
           Access!RequireDocumentAction(u, root, "link")
    PROVE  LET filtered == GetGraph(root) \cap VisibleLinks(u)
           IN  \E R : /\ DocumentFlow(u, root) = Among(filtered, R)
                      /\ IsLeast(R, root, filtered)
  <1> DEFINE found == GetGraph(root)
             readable == Access!ResolveReadableDocuments(u, EndsOf(found))
  <1>1. found \in SUBSET Present
    BY GraphHoldsWalks
  <1>2. EndsOf(found) \in SUBSET Documents
    BY <1>1, LinkFields DEF LinkInv, Present, EndsOf
  <1>3. readable = EndsOf(found) \cap Access!Readable(u)
    BY <1>2, ReadableAmong
  <1>4. Among(found, readable) = GetGraph(root) \cap VisibleLinks(u)
    BY <1>1, <1>3 DEF Among, VisibleLinks, EndsOf
  <1>5. DocumentFlow(u, root) = KeepReachable(root, found, readable)
    BY DEF DocumentFlow, EndsOf
  <1> HIDE DEF found, readable
  <1>6. QED
    BY <1>1, <1>4, <1>5, ReachedIsLeast

(* A user is shown no document that he may not read, and none that hangs   *)
(* together with the root only through such a document (link_service.go,   *)
(* GetDocumentFlow and keepReadableGraphLinksReachableFromRoot).           *)
THEOREM FlowHidesTheHidden == Spec => []FlowShowsNothingHidden
  <1>1. LinkInv => FlowShowsNothingHidden
    <2> SUFFICES ASSUME LinkInv, NEW u \in Users, NEW root \in Documents,
                        NEW l \in DocumentFlow(u, root)
                 PROVE  /\ l \in VisibleLinks(u)
                        /\ \A S \in SUBSET Documents :
                             root \in S /\ ClosedUnder(S, VisibleLinks(u)) => Ends(l) \subseteq S
      BY DEF FlowShowsNothingHidden, ClosedUnder
    <2>1. Access!RequireDocumentAction(u, root, "link")
      BY DEF DocumentFlow
    <2> DEFINE filtered == GetGraph(root) \cap VisibleLinks(u)
    <2>2. PICK R : /\ DocumentFlow(u, root) = Among(filtered, R)
                   /\ IsLeast(R, root, filtered)
      BY <2>1, FlowIsReachable
    <2>3. \A S : ClosedUnder(S, VisibleLinks(u)) => ClosedUnder(S, filtered)
      BY DEF ClosedUnder
    <2>4. QED
      BY <2>2, <2>3 DEF Among, IsLeast
  <1>2. QED
    BY <1>1, LinksCorrect, PTL

(* Nothing visible within MaxDepth links of the root is missing from the   *)
(* graph, and the list of links is its first layer (link_repo.go, GetGraph *)
(* and GetByDocumentID).                                                   *)
THEOREM FlowShowsTheVisible == Spec => []FlowShowsAllVisible
  <1>1. LinkInv => FlowShowsAllVisible
    <2> SUFFICES ASSUME LinkInv, NEW u \in Users, NEW root \in Documents,
                        Access!RequireDocumentAction(u, root, "link")
                 PROVE  LET flow == DocumentFlow(u, root)
                        IN  /\ \A walk \in UNION {[1 .. n -> VisibleLinks(u)] : n \in 1 .. MaxDepth} :
                                 root \in Ends(walk[1])
                                 /\ (\A i \in 2 .. Len(walk) : Ends(walk[i - 1]) \cap Ends(walk[i]) # {})
                                   => walk[Len(walk)] \in flow
                            /\ DocumentLinks(u, root) = {l \in flow : root \in Ends(l)}
      BY DEF FlowShowsAllVisible
    <2> DEFINE visible == VisibleLinks(u)
               filtered == GetGraph(root) \cap VisibleLinks(u)
    <2>0. PICK R : /\ DocumentFlow(u, root) = Among(filtered, R)
                   /\ IsLeast(R, root, filtered)
      BY FlowIsReachable
    <2>1. /\ DocumentFlow(u, root) = {k \in filtered : Ends(k) \subseteq R}
          /\ root \in R
          /\ ClosedUnder(R, filtered)
      BY <2>0 DEF Among, IsLeast
    <2>2. visible \subseteq Present
      BY DEF VisibleLinks
    <2>3. ASSUME NEW n \in 1 .. MaxDepth, NEW walk \in [1 .. n -> visible],
                 root \in Ends(walk[1]), \A i \in 2 .. n : Ends(walk[i - 1]) \cap Ends(walk[i]) # {}
          PROVE  walk[n] \in DocumentFlow(u, root)
      <3>1. n \in Nat /\ n >= 1 /\ n - 1 \in Nat /\ \A i \in 0 .. (n - 1) : i + 1 \in 1 .. n
        OBVIOUS
      <3>2. walk \in [1 .. n -> Present]
        BY <2>2
      <3>3. \A i \in 1 .. n : walk[i] \in filtered
        <4>1. \A i \in 1 .. n : walk[i] \in GetGraph(root)
          <5> HIDE DEF visible
          <5>1. QED
            BY <2>3, <3>2, GraphHoldsWalks
        <4>2. QED
          BY <4>1
      <3> DEFINE top == n - 1
                 S == {i \in 0 .. top : Ends(walk[i + 1]) \subseteq R}
      <3> HIDE DEF filtered, visible
      <3>4. 0 \in S
        BY <2>1, <2>3, <3>1, <3>3 DEF ClosedUnder
      <3>5. \A i \in 0 .. top : i < top /\ i \in S => i + 1 \in S
        <4> SUFFICES ASSUME NEW i \in 0 .. top, i < top, i \in S PROVE i + 1 \in S
          OBVIOUS
        <4>1. i + 1 \in 0 .. top /\ (i + 1) + 1 \in 2 .. n /\ (i + 1) + 1 \in 1 .. n
              /\ ((i + 1) + 1) - 1 = i + 1
          BY <3>1
        <4>2. Ends(walk[i + 1]) \cap Ends(walk[(i + 1) + 1]) # {}
          BY <2>3, <4>1
        <4>3. Ends(walk[(i + 1) + 1]) \subseteq R
          BY <2>1, <3>3, <4>1, <4>2 DEF ClosedUnder
        <4>4. QED
          BY <4>1, <4>3
      <3>6. top \in Nat /\ top \in 0 .. top /\ top + 1 = n
        BY <3>1
      <3> HIDE DEF S, top
      <3>7. top \in S
        BY <3>4, <3>5, <3>6, UpTo
      <3>8. Ends(walk[n]) \subseteq R
        BY <3>6, <3>7 DEF S
      <3>9. QED
        BY <2>1, <3>1, <3>3, <3>8
    <2>4. ASSUME NEW walk \in UNION {[1 .. n -> visible] : n \in 1 .. MaxDepth},
                 root \in Ends(walk[1]),
                 \A i \in 2 .. Len(walk) : Ends(walk[i - 1]) \cap Ends(walk[i]) # {}
          PROVE  walk[Len(walk)] \in DocumentFlow(u, root)
      <3>1. PICK n \in 1 .. MaxDepth : walk \in [1 .. n -> visible]
        OBVIOUS
      <3>2. Len(walk) = n
        BY <3>1
      <3>3. QED
        BY <2>3, <2>4, <3>1, <3>2
    <2>5. DocumentLinks(u, root) = {l \in visible : root \in Ends(l)}
      <3> DEFINE found == Touching(root)
                 readable == Access!ResolveReadableDocuments(u, UNION {Ends(l) : l \in found})
      <3>1. DocumentLinks(u, root) = {l \in found : Ends(l) \subseteq readable}
        BY DEF DocumentLinks
      <3>2. UNION {Ends(l) : l \in found} \in SUBSET Documents
        BY LinkFields DEF LinkInv, Present, Touching
      <3>3. readable = (UNION {Ends(l) : l \in found}) \cap Access!Readable(u)
        BY <3>2, ReadableAmong
      <3> HIDE DEF readable
      <3>4. QED
        BY <3>1, <3>3 DEF Touching, VisibleLinks
    <2>6. \A l \in visible : root \in Ends(l) => l \in DocumentFlow(u, root)
      <3> SUFFICES ASSUME NEW l \in visible, root \in Ends(l) PROVE l \in DocumentFlow(u, root)
        OBVIOUS
      <3> DEFINE walk == [i \in 1 .. 1 |-> l]
      <3>1. walk \in [1 .. 1 -> visible] /\ walk[1] = l /\ 1 \in 1 .. MaxDepth
        OBVIOUS
      <3>2. \A i \in 2 .. 1 : Ends(walk[i - 1]) \cap Ends(walk[i]) # {}
        OBVIOUS
      <3> HIDE DEF walk, visible
      <3>3. QED
        BY <2>3, <3>1, <3>2
    <2>7. DocumentFlow(u, root) \subseteq visible
      BY <2>1
    <2> HIDE DEF visible
    <2>8. DocumentLinks(u, root) = {l \in DocumentFlow(u, root) : root \in Ends(l)}
      BY <2>5, <2>6, <2>7
    <2>9. QED
      BY <2>4, <2>8 DEF visible
  <1>2. QED
    BY <1>1, LinksCorrect, PTL
=============================================================================
