------------------------ MODULE Registration_proofs -------------------------
(***************************************************************************)
(* Proofs about the registration, for any number of requests, keys, kinds, *)
(* nomenclature items, years, modes and letters, and for any bounds; and   *)
(* about the lists in which the registered documents are shown, for any    *)
(* set of documents, forms, filters, searches and page sizes.              *)
(***************************************************************************)
EXTENDS Registration, DocumentLists, FiniteSetTheorems, TLAPS

-----------------------------------------------------------------------------
(* Types of the operators the actions are built from.                      *)

(* What the proofs need of the constants.                                  *)
LEMMA ConstantFacts ==
    /\ \A n \in Asked \union Starts \union {0} : n \in Nat
    /\ NoText \notin Prefixes /\ NoText \notin Suffixes
    /\ EditBound \in Nat
  BY RegistrationAssumption

(* The fields of a request.                                                *)
LEMMA RequestFields ==
    ASSUME NEW r \in Request
    PROVE  /\ r.key \in Keys /\ r.kind \in Kinds /\ r.nom \in Noms /\ r.year \in Years
           /\ r.form \in {"plain", "insert_shift", "literal"}
           /\ r.prefix \in Prefixes \union {NoText}
           /\ r.n \in Nat /\ r.suffix \in Suffixes \union {NoText}
           /\ r.form = "insert_shift" => r.n >= 1 /\ r.suffix = NoText
  <1> DEFINE AnyRequest ==
        [key : Keys, kind : Kinds, nom : Noms, year : Years,
         form : {"plain", "insert_shift", "literal"},
         prefix : Prefixes \union {NoText}, n : Asked \union {0},
         suffix : Suffixes \union {NoText}]
  <1>1. /\ r \in AnyRequest
        /\ r.form = "insert_shift" => r.n >= 1 /\ r.suffix = NoText
    BY DEF Request
  <1>2. r.n \in Asked \union {0}
    BY <1>1
  <1>3. r.n \in Nat
    BY <1>2, ConstantFacts
  <1>4. QED
    BY <1>1, <1>3

(* NoRequest is no request, and NoItem is an item.                         *)
LEMMA NoRequestNoItem == NoRequest \notin Request /\ NoItem \in Item
  <1>1. NoItem \in Item
    <2>1. Kinds # {} /\ Years # {} /\ Modes # {} /\ Prefixes # {}
      BY RegistrationAssumption
    <2>2. QED
      BY <2>1 DEF NoItem, Item
  <1>2. NoRequest \notin Request
    <2>1. \A r \in Request : r.form # "none"
      BY DEF Request
    <2>2. NoRequest.form = "none"
      BY DEF NoRequest
    <2>3. QED
      BY <2>1, <2>2
  <1>3. QED
    BY <1>1, <1>2

(* The formats yield numbers, and parsing undoes the automatic format.     *)
LEMMA FormatParse ==
    ASSUME NEW s \in Item, NEW n \in Nat
    PROVE  /\ Format(s, n) \in RegNumber
           /\ \A x \in Suffixes \union {NoText} : FormatWithSuffix(s, n, x) \in RegNumber
           /\ \A number \in RegNumber : Parse(s, number) \in Nat
           /\ s.mode # "manual_only" => Parse(s, Format(s, n)) = n
           /\ s.mode # "manual_only" => Format(s, n) = FormatWithSuffix(s, n, NoText)
  BY ConstantFacts DEF Item, Format, FormatWithSuffix, Parse, PrefixOf, RegNumber, EmptyNumber

(* An automatic number is the format of what it parses to.                 *)
LEMMA ParseFormat ==
    ASSUME NEW s \in Item, NEW number \in RegNumber,
           s.mode # "manual_only", Parse(s, number) # 0
    PROVE  number = Format(s, Parse(s, number))
  BY DEF Item, Format, FormatWithSuffix, Parse, PrefixOf, RegNumber

(* What a registration writes is typed.                                    *)
LEMMA NewTypes ==
    ASSUME TypeOK, NEW r \in Request, ~Refused(r)
    PROVE  /\ nom[r.nom] \in Item /\ nom[r.nom].exists /\ nom[r.nom].kind = r.kind
           /\ NewNumber(r) \in RegNumber
           /\ NextNumber(r) \in Nat
           /\ NewDoc(r) \in Doc
           /\ JumpsOver(r) \in SUBSET Nat
           /\ FirstNumber(r) \in Nat
           /\ LeavesBehind(r) \in BOOLEAN
  <1> DEFINE s == nom[r.nom]
  <1>1. s \in Item /\ s.next \in Nat /\ r.nom \in Noms
    BY RequestFields DEF TypeOK, Item
  <1>2. s.exists /\ s.kind = r.kind
    BY DEF Refused
  <1>3. NewNumber(r) \in RegNumber
    <2>1. FormatWithSuffix(s, r.n, r.suffix) \in RegNumber /\ Format(s, s.next) \in RegNumber
      BY <1>1, RequestFields, FormatParse
    <2>2. [prefix |-> r.prefix, n |-> r.n, suffix |-> r.suffix] \in RegNumber
      BY RequestFields DEF RegNumber
    <2>3. QED
      BY <2>1, <2>2, RequestFields DEF NewNumber
  <1>4. NextNumber(r) \in Nat
    BY <1>1, RequestFields DEF NextNumber
  <1>5. NewDoc(r) \in Doc
    BY <1>3, RequestFields DEF NewDoc, Doc
  <1>6. JumpsOver(r) \in SUBSET Nat /\ FirstNumber(r) \in Nat
    <2>1. hist[r.nom].holes \in SUBSET Nat /\ hist[r.nom].start \in Nat
      BY <1>1 DEF TypeOK
    <2>2. QED
      BY <1>1, <2>1, RequestFields DEF JumpsOver, FirstNumber
  <1>7. QED
    BY <1>1, <1>2, <1>3, <1>4, <1>5, <1>6 DEF LeavesBehind

(* A shift changes numbers and nothing else.                               *)
LEMMA ShiftedType ==
    ASSUME TypeOK, NEW r \in Request, ~Refused(r)
    PROVE  /\ Shifted(r) \in Seq(Doc)
           /\ Len(Shifted(r)) = Len(docs)
           /\ \A i \in Ids :
                /\ Shifted(r)[i] \in Doc
                /\ Shifted(r)[i].key = docs[i].key
                /\ Shifted(r)[i].kind = docs[i].kind
                /\ Shifted(r)[i].nom = docs[i].nom
                /\ Shifted(r)[i].year = docs[i].year
                /\ Shifted(r)[i].typed = docs[i].typed
                /\ i \in ToShift(r) => Shifted(r)[i].number = MovedNumber(r, i)
                /\ i \notin ToShift(r) => Shifted(r)[i] = docs[i]
  <1>1. Len(docs) \in Nat /\ \A i \in Ids : docs[i] \in Doc /\ docs[i].number \in RegNumber
    <2>1. docs \in Seq(Doc)
      BY DEF TypeOK
    <2>2. Len(docs) \in Nat /\ \A i \in Ids : docs[i] \in Doc
      BY <2>1 DEF Ids
    <2>3. \A d \in Doc : d.number \in RegNumber
      BY DEF Doc
    <2>4. QED
      BY <2>2, <2>3
  <1>2. nom[r.nom] \in Item
    BY NewTypes
  <1>3. ASSUME NEW i \in Ids
        PROVE  /\ Shifted(r)[i] \in Doc
               /\ Shifted(r)[i].key = docs[i].key
               /\ Shifted(r)[i].kind = docs[i].kind
               /\ Shifted(r)[i].nom = docs[i].nom
               /\ Shifted(r)[i].year = docs[i].year
               /\ Shifted(r)[i].typed = docs[i].typed
               /\ i \in ToShift(r) => Shifted(r)[i].number = MovedNumber(r, i)
               /\ i \notin ToShift(r) => Shifted(r)[i] = docs[i]
    <2>1. docs[i] \in Doc /\ docs[i].number \in RegNumber
      BY <1>1
    <2>2. MovedNumber(r, i) \in RegNumber
      BY <1>2, <2>1, FormatParse DEF MovedNumber
    <2>3. QED
      BY <2>1, <2>2 DEF Shifted, Doc
  <1>4. Shifted(r) \in [1..Len(docs) -> Doc]
    BY <1>3 DEF Shifted, Ids
  <1>5. QED
    BY <1>1, <1>3, <1>4

(* The step of a registration, written out.                                *)
LEMMA RegisterStep ==
    ASSUME TypeOK, NEW c \in Clients, NEW r, r = req[c], Register(c)
    PROVE  /\ r \in Request /\ ~Refused(r) /\ ~Collides(r)
           /\ WithKey(r.kind, r.key) = {}
           /\ docs' \in Seq(Doc) /\ Len(docs') = Len(docs) + 1 /\ Len(docs) \in Nat
           /\ docs'[Len(docs) + 1] = NewDoc(r)
           /\ \A i \in Ids : docs'[i] = Shifted(r)[i]
           /\ Ids' = Ids \union {Len(docs) + 1}
           /\ nom' = [m \in Noms |-> IF m = r.nom
                                     THEN [nom[m] EXCEPT !.next = NextNumber(r)] ELSE nom[m]]
           /\ hist' = [m \in Noms |-> IF m = r.nom
                         THEN [start |-> FirstNumber(r), holes |-> JumpsOver(r),
                               irregular |-> hist[m].irregular \/ LeavesBehind(r)]
                         ELSE hist[m]]
           /\ req' = [req EXCEPT ![c] = NoRequest]
           /\ answers' = [q \in Keys \X Kinds |-> IF q = <<r.key, r.kind>>
                            THEN answers[q] \union {Len(docs) + 1} ELSE answers[q]]
           /\ UNCHANGED edits
  <1>1. r \in Request /\ ~Refused(r) /\ ~Collides(r) /\ WithKey(r.kind, r.key) = {}
    BY NoRequestNoItem DEF Register, Waiting, TypeOK
  <1>2. docs' = Append(Shifted(r), NewDoc(r))
    BY DEF Register
  <1>3. /\ Shifted(r) \in Seq(Doc) /\ Len(Shifted(r)) = Len(docs) /\ NewDoc(r) \in Doc
        /\ Len(docs) \in Nat
    BY <1>1, ShiftedType, NewTypes DEF TypeOK
  <1>4. /\ docs' \in Seq(Doc) /\ Len(docs') = Len(docs) + 1
        /\ docs'[Len(docs) + 1] = NewDoc(r)
        /\ \A i \in 1..Len(docs) : docs'[i] = Shifted(r)[i]
    BY <1>2, <1>3
  <1>5. Ids' = Ids \union {Len(docs) + 1}
    BY <1>3, <1>4 DEF Ids
  <1>6. nom' = [m \in Noms |-> IF m = r.nom
                               THEN [nom[m] EXCEPT !.next = NextNumber(r)] ELSE nom[m]]
    BY DEF Register, TypeOK
  <1>7. hist' = [m \in Noms |-> IF m = r.nom
                     THEN [start |-> FirstNumber(r), holes |-> JumpsOver(r),
                           irregular |-> hist[m].irregular \/ LeavesBehind(r)]
                     ELSE hist[m]]
    BY DEF Register, TypeOK
  <1>8. answers' = [q \in Keys \X Kinds |-> IF q = <<r.key, r.kind>>
                      THEN answers[q] \union {Len(docs) + 1} ELSE answers[q]]
    BY DEF Register, Give, TypeOK
  <1>9. QED
    BY <1>1, <1>3, <1>4, <1>5, <1>6, <1>7, <1>8 DEF Register, Done, Ids

(* Documents have their fields.                                            *)
LEMMA DocFields ==
    ASSUME TypeOK, NEW i \in Ids
    PROVE  /\ docs[i] \in Doc
           /\ docs[i].number \in RegNumber /\ docs[i].number.n \in Nat
           /\ docs[i].nom \in Noms /\ docs[i].typed \in BOOLEAN
           /\ \A m \in Noms : Parse(nom[m], docs[i].number) \in Nat
  <1>1. docs[i] \in Doc
    <2>1. docs \in Seq(Doc)
      BY DEF TypeOK
    <2>2. QED
      BY <2>1 DEF Ids
  <1>2. docs[i].number \in RegNumber /\ docs[i].nom \in Noms /\ docs[i].typed \in BOOLEAN
    BY <1>1 DEF Doc
  <1>3. \A m \in Noms : nom[m] \in Item
    BY DEF TypeOK
  <1>4. docs[i].number.n \in Nat
    BY <1>2 DEF RegNumber
  <1>5. QED
    BY <1>1, <1>2, <1>3, <1>4, FormatParse

(* The edit of a document with the number and the date it writes.          *)
Edit(i, number, year) ==
    \/ EditAppeal(i, number, year)
    \/ EditOrder(i, year) /\ number = docs[i].number

(* The step of an edit, written out.                                       *)
LEMMA EditStep ==
    ASSUME TypeOK, NEW i \in Ids, NEW year \in Years,
           NEW number \in Typed \union {docs[i].number}, Edit(i, number, year)
    PROVE  /\ docs' \in Seq(Doc) /\ Ids' = Ids
           /\ Free(i, number, year)
           /\ UNCHANGED <<nom, req, answers, edits>>
           /\ \A j \in Ids \ {i} : docs'[j] = docs[j]
           /\ docs'[i].key = docs[i].key /\ docs'[i].kind = docs[i].kind
           /\ docs'[i].nom = docs[i].nom /\ docs'[i].year = year /\ docs'[i].number = number
           /\ docs'[i].typed = (docs[i].typed \/ number # docs[i].number)
           /\ hist' \in [Noms -> [start : Nat, holes : SUBSET Nat, irregular : BOOLEAN]]
           /\ \A m \in Noms :
                /\ hist'[m].start = hist[m].start /\ hist'[m].irregular = hist[m].irregular
                /\ hist[m].holes \subseteq hist'[m].holes
           /\ number # docs[i].number /\ ~docs[i].typed =>
                docs[i].number.n \in hist'[docs[i].nom].holes
  <1> DEFINE d == docs[i]
             new == number # d.number
             e == [d EXCEPT !.number = number, !.year = year, !.typed = @ \/ new]
             H == [start : Nat, holes : SUBSET Nat, irregular : BOOLEAN]
  <1>1. d \in Doc /\ d.nom \in Noms /\ d.number.n \in Nat /\ d.typed \in BOOLEAN
    BY DocFields
  <1>2. number \in RegNumber
    BY DocFields, ConstantFacts DEF Typed, RegNumber
  <1>3. /\ e \in Doc /\ e.key = d.key /\ e.kind = d.kind /\ e.nom = d.nom
        /\ e.year = year /\ e.number = number /\ e.typed = (d.typed \/ new)
    BY <1>1, <1>2 DEF Doc
  <1>4. docs' = [docs EXCEPT ![i] = e] /\ UNCHANGED <<nom, req, answers, edits>> /\ Free(i, number, year)
    <2>1. CASE EditAppeal(i, number, year)
      BY <2>1 DEF EditAppeal
    <2>2. CASE EditOrder(i, year) /\ number = docs[i].number
      <3>1. e = [d EXCEPT !.year = year]
        BY <1>1, <2>2 DEF Doc
      <3>2. docs' = [docs EXCEPT ![i] = [d EXCEPT !.year = year]]
        BY <2>2 DEF EditOrder
      <3> HIDE DEF e
      <3>3. QED
        BY <2>2, <3>1, <3>2 DEF EditOrder
    <2>3. QED
      BY <2>1, <2>2 DEF Edit
  <1> HIDE DEF e
  <1>5. docs \in Seq(Doc)
    BY DEF TypeOK
  <1>6. docs' \in Seq(Doc) /\ Len(docs') = Len(docs)
    BY <1>3, <1>4, <1>5 DEF Ids
  <1>7. docs'[i] = e /\ \A j \in Ids \ {i} : docs'[j] = docs[j]
    BY <1>4, <1>5 DEF Ids
  <1>8. hist \in [Noms -> H]
    BY DEF TypeOK
  <1>9. hist' = [hist EXCEPT ![d.nom].holes = IF new /\ ~d.typed THEN @ \union {d.number.n} ELSE @]
    <2>1. CASE EditAppeal(i, number, year)
      BY <2>1 DEF EditAppeal
    <2>2. CASE EditOrder(i, year) /\ number = docs[i].number
      BY <1>1, <1>8, <2>2 DEF EditOrder
    <2>3. QED
      BY <2>1, <2>2 DEF Edit
  <1>10. ASSUME NEW m \in Noms
         PROVE  /\ hist'[m] \in H
                /\ hist'[m].start = hist[m].start /\ hist'[m].irregular = hist[m].irregular
                /\ hist[m].holes \subseteq hist'[m].holes
                /\ m = d.nom /\ new /\ ~d.typed => d.number.n \in hist'[m].holes
    BY <1>1, <1>8, <1>9
  <1>11. hist' \in [Noms -> H]
    BY <1>8, <1>9, <1>10
  <1>12. Ids' = Ids
    BY <1>6 DEF Ids
  <1> HIDE DEF H
  <1>13. /\ docs'[i].key = d.key /\ docs'[i].kind = d.kind /\ docs'[i].nom = d.nom
         /\ docs'[i].year = year /\ docs'[i].number = number
         /\ docs'[i].typed = (d.typed \/ new)
    BY <1>3, <1>7
  <1>14. new /\ ~d.typed => d.number.n \in hist'[d.nom].holes
    BY <1>1, <1>10
  <1>15. QED
    BY <1>4, <1>6, <1>7, <1>10, <1>11, <1>12, <1>13, <1>14 DEF H

-----------------------------------------------------------------------------
(* Every step keeps the types: the inductive step of TypeCorrect.          *)
LEMMA NextTypeOK == TypeOK /\ [Next]_vars => TypeOK'
  <1> SUFFICES ASSUME TypeOK, [Next]_vars PROVE TypeOK'
    OBVIOUS
  <1>0. Len(docs) \in Nat /\ NoRequest \notin Request /\ NoItem \in Item
    BY NoRequestNoItem DEF TypeOK
  <1>1. ASSUME NEW c \in Clients, NEW r \in Request, Look(c, r) PROVE TypeOK'
    <2>1. r.key \in Keys /\ r.kind \in Kinds
      BY RequestFields
    <2>2. CASE req' = [req EXCEPT ![c] = r] /\ UNCHANGED answers
      BY <1>1, <2>2 DEF Look, TypeOK, Ids, WithKey
    <2>3. CASE (\E i \in WithKey(r.kind, r.key) : Give(r, i)) /\ UNCHANGED req
      <3>1. PICK i \in WithKey(r.kind, r.key) : Give(r, i)
        BY <2>3
      <3>2. UNCHANGED <<docs, nom, hist, edits, req>>
        BY <1>1, <2>3 DEF Look
      <3>3. WithKey(r.kind, r.key) \subseteq Ids
        BY DEF WithKey
      <3>4. QED
        BY <2>1, <3>1, <3>2, <3>3 DEF Give, TypeOK, Ids, WithKey
    <2>4. QED
      BY <1>1, <2>2, <2>3 DEF Look
  <1>2. ASSUME NEW c \in Clients, Refuse(c) \/ Conflict(c) \/ Abort(c) PROVE TypeOK'
    BY <1>2 DEF Refuse, Conflict, Abort, Done, TypeOK, Ids, WithKey
  <1>3. ASSUME NEW c \in Clients, Repeated(c) PROVE TypeOK'
    <2> DEFINE r == req[c]
    <2>1. r \in Request
      BY <1>0, <1>3 DEF Repeated, Waiting, TypeOK
    <2>2. PICK i \in WithKey(r.kind, r.key) : Give(r, i)
      BY <1>3 DEF Repeated
    <2>3. UNCHANGED <<docs, nom, hist, edits>> /\ Done(c)
      BY <1>3 DEF Repeated
    <2>4. WithKey(r.kind, r.key) \subseteq Ids /\ r.key \in Keys /\ r.kind \in Kinds
      BY <2>1, RequestFields DEF WithKey
    <2>5. QED
      BY <2>2, <2>3, <2>4 DEF Give, Done, TypeOK, Ids, WithKey
  <1>4. ASSUME NEW c \in Clients, NEW r, r = req[c], Register(c) PROVE TypeOK'
    <2> DEFINE new == Len(docs) + 1
    <2>1. r \in Request /\ ~Refused(r)
      BY <1>4, RegisterStep
    <2>2. r.key \in Keys /\ r.kind \in Kinds /\ r.nom \in Noms
      BY <2>1, RequestFields
    <2>3. nom' \in [Noms -> Item]
      <3>1. [nom[r.nom] EXCEPT !.next = NextNumber(r)] \in Item
        BY <2>1, NewTypes DEF Item
      <3>2. nom' = [m \in Noms |-> IF m = r.nom
                                 THEN [nom[m] EXCEPT !.next = NextNumber(r)] ELSE nom[m]]
        BY <1>4, RegisterStep
      <3>3. nom \in [Noms -> Item]
        BY DEF TypeOK
      <3>4. QED
        BY <3>1, <3>2, <3>3
    <2>4. hist' \in [Noms -> [start : Nat, holes : SUBSET Nat, irregular : BOOLEAN]]
      <3>1. hist[r.nom].irregular \in BOOLEAN
        BY <2>2 DEF TypeOK
      <3>2. [start |-> FirstNumber(r), holes |-> JumpsOver(r),
             irregular |-> hist[r.nom].irregular \/ LeavesBehind(r)]
              \in [start : Nat, holes : SUBSET Nat, irregular : BOOLEAN]
        BY <2>1, <3>1, NewTypes
      <3>3. hist' = [m \in Noms |-> IF m = r.nom
                       THEN [start |-> FirstNumber(r), holes |-> JumpsOver(r),
                             irregular |-> hist[m].irregular \/ LeavesBehind(r)]
                       ELSE hist[m]]
        BY <1>4, RegisterStep
      <3>4. hist \in [Noms -> [start : Nat, holes : SUBSET Nat, irregular : BOOLEAN]]
        BY DEF TypeOK
      <3>5. ASSUME NEW m \in Noms
            PROVE  hist'[m] \in [start : Nat, holes : SUBSET Nat, irregular : BOOLEAN]
        BY <3>2, <3>3, <3>4
      <3>6. QED
        BY <3>3, <3>5
    <2>5. answers' \in [Keys \X Kinds -> SUBSET Ids']
      <3>1. answers \in [Keys \X Kinds -> SUBSET Ids]
        BY DEF TypeOK
      <3>2. /\ Ids' = Ids \union {new}
            /\ answers' = [q \in Keys \X Kinds |-> IF q = <<r.key, r.kind>>
                             THEN answers[q] \union {new} ELSE answers[q]]
        <4>1. Ids' = Ids \union {new}
          BY <1>4, RegisterStep
        <4>2. answers' = [q \in Keys \X Kinds |-> IF q = <<r.key, r.kind>>
                            THEN answers[q] \union {new} ELSE answers[q]]
          BY <1>4, RegisterStep DEF TypeOK
        <4>3. QED
          BY <4>1, <4>2
      <3>3. QED
        BY <3>1, <3>2
    <2>6. \A k \in Keys, d \in Kinds : WithKey(d, k) \subseteq WithKey(d, k)'
      <3>1. \A i \in Ids : i \in Ids' /\ docs'[i] = Shifted(r)[i]
        BY <1>4, RegisterStep
      <3>3. \A i \in Ids : /\ Shifted(r)[i].kind = docs[i].kind
                           /\ Shifted(r)[i].key = docs[i].key
        BY <2>1, ShiftedType
      <3>2. QED
        BY <3>1, <3>3 DEF WithKey
    <2>7. new \in WithKey(r.kind, r.key)'
      <3>1. /\ new \in Ids'
            /\ docs'[new] = NewDoc(r)
        BY <1>4, RegisterStep
      <3>3. NewDoc(r).kind = r.kind /\ NewDoc(r).key = r.key
        BY DEF NewDoc
      <3>2. WithKey(r.kind, r.key)' = {i \in Ids' : docs'[i].kind = r.kind /\ docs'[i].key = r.key}
        BY DEF WithKey
      <3>4. QED
        BY <3>1, <3>2, <3>3
    <2>8. \A k \in Keys, d \in Kinds : answers'[<<k, d>>] \subseteq WithKey(d, k)'
      <3> SUFFICES ASSUME NEW k \in Keys, NEW d \in Kinds
                   PROVE  answers'[<<k, d>>] \subseteq WithKey(d, k)'
        OBVIOUS
      <3>1. answers[<<k, d>>] \subseteq WithKey(d, k)'
        BY <2>6 DEF TypeOK
      <3>2. /\ answers \in [Keys \X Kinds -> SUBSET Ids]
            /\ answers' = [q \in Keys \X Kinds |-> IF q = <<r.key, r.kind>>
                             THEN answers[q] \union {new} ELSE answers[q]]
        BY <1>4, RegisterStep DEF TypeOK
      <3>6. <<k, d>> = <<r.key, r.kind>> <=> k = r.key /\ d = r.kind
        OBVIOUS
      <3>7. answers'[<<k, d>>] = IF <<k, d>> = <<r.key, r.kind>>
                                 THEN answers[<<k, d>>] \union {new} ELSE answers[<<k, d>>]
        BY <3>2
      <3>3. CASE k = r.key /\ d = r.kind
        <4>1. new \in WithKey(d, k)'
          BY <2>7, <3>3
        <4>2. answers'[<<k, d>>] = answers[<<k, d>>] \union {new}
          BY <3>3, <3>6, <3>7
        <4>3. QED
          BY <3>1, <4>1, <4>2
      <3>4. CASE ~(k = r.key /\ d = r.kind)
        <4>1. answers'[<<k, d>>] = answers[<<k, d>>]
          BY <3>4, <3>6, <3>7
        <4>2. QED
          BY <3>1, <4>1
      <3>5. QED
        BY <3>3, <3>4
    <2>9. /\ docs' \in Seq(Doc) /\ UNCHANGED edits
          /\ req' \in [Clients -> Request \union {NoRequest}]
      BY <1>4, RegisterStep DEF TypeOK
    <2>10. QED
      BY <2>3, <2>4, <2>5, <2>8, <2>9 DEF TypeOK
  <1> DEFINE Draft == [exists : {FALSE}, kind : Kinds, year : Years, mode : Modes,
                       prefix : Prefixes, next : {0}, active : BOOLEAN]
  <1>5. ASSUME NEW m \in Noms, NEW s \in Draft, NEW start \in Starts, CreateItem(m, s, start)
        PROVE  TypeOK'
    <2>1. [s EXCEPT !.exists = TRUE, !.next = start, !.active = TRUE] \in Item
      BY ConstantFacts DEF Item
    <2>2. /\ UNCHANGED <<docs, req, answers, edits>>
          /\ hist' \in [Noms -> [start : Nat, holes : SUBSET Nat, irregular : BOOLEAN]]
      BY <1>5, ConstantFacts DEF CreateItem, TypeOK
    <2>3. QED
      BY <1>5, <2>1, <2>2 DEF CreateItem, TypeOK, Ids, WithKey
  <1>6. ASSUME NEW m \in Noms, NEW s \in Draft, UpdateItem(m, s) PROVE TypeOK'
    <2>1. Edited(m, s) \in Item
      BY DEF Edited, Item, TypeOK
    <2>2. nom' \in [Noms -> Item] /\ edits' \in 0..EditBound /\ UNCHANGED <<docs, hist, req, answers>>
      BY <1>6, <2>1, ConstantFacts DEF UpdateItem, TypeOK
    <2>3. QED
      BY <2>2 DEF TypeOK, Ids, WithKey
  <1>7. ASSUME NEW m \in Noms, DeleteItem(m) PROVE TypeOK'
    <2>1. /\ nom' = [nom EXCEPT ![m] = NoItem]
          /\ edits' = edits + 1 /\ edits < EditBound
          /\ UNCHANGED <<docs, hist, req, answers>>
      BY <1>7 DEF DeleteItem
    <2>2. nom' \in [Noms -> Item]
      BY <1>0, <2>1 DEF TypeOK
    <2>3. edits' \in 0..EditBound
      BY <2>1, ConstantFacts DEF TypeOK
    <2>4. QED
      BY <2>1, <2>2, <2>3 DEF TypeOK, Ids, WithKey
  <1>8. ASSUME NEW i \in Ids, NEW year \in Years,
               NEW number \in Typed \union {docs[i].number}, Edit(i, number, year)
        PROVE  TypeOK'
    <2>1. /\ docs' \in Seq(Doc) /\ Ids' = Ids /\ UNCHANGED <<nom, req, answers, edits>>
          /\ \A j \in Ids : docs'[j].kind = docs[j].kind /\ docs'[j].key = docs[j].key
          /\ hist' \in [Noms -> [start : Nat, holes : SUBSET Nat, irregular : BOOLEAN]]
      BY <1>8, EditStep
    <2>2. \A d, k : WithKey(d, k)' = WithKey(d, k)
      BY <2>1 DEF WithKey
    <2>3. QED
      BY <2>1, <2>2 DEF TypeOK
  <1>9. CASE UNCHANGED vars
    BY <1>9 DEF vars, TypeOK, Ids, WithKey
  <1>10. QED
    BY <1>1, <1>2, <1>3, <1>4, <1>5, <1>6, <1>7, <1>8, <1>9 DEF Next, Edit

(* The initial state is typed.                                             *)
LEMMA InitTypeOK == Init => TypeOK
  BY NoRequestNoItem, ConstantFacts DEF Init, TypeOK, Ids, WithKey

(* Every reachable state is typed, and every answer is a document of the   *)
(* key it was asked with.                                                  *)
THEOREM TypeCorrect == Spec => []TypeOK
  BY InitTypeOK, NextTypeOK, PTL DEF Spec

-----------------------------------------------------------------------------
(* One document per request.                                               *)

(* idx_documents_created_by_kind_idempotency holds in every state.         *)
KeysUnique ==
    \A i, j \in Ids : docs[i].kind = docs[j].kind /\ docs[i].key = docs[j].key => i = j

(* A registration is the only step that adds a document, it finds no       *)
(* document of its key at the moment it writes, and shifts and edits write *)
(* numbers and dates only.                                                 *)
LEMMA NextKeysUnique == TypeOK /\ KeysUnique /\ [Next]_vars => KeysUnique'
  <1> SUFFICES ASSUME TypeOK, KeysUnique, [Next]_vars PROVE KeysUnique'
    OBVIOUS
  <1>1. ASSUME NEW c \in Clients, NEW r, r = req[c], Register(c) PROVE KeysUnique'
    <2> DEFINE new == Len(docs) + 1
    <2>1. r \in Request /\ ~Refused(r) /\ WithKey(r.kind, r.key) = {}
      BY <1>1, RegisterStep
    <2>2. /\ Ids' = Ids \union {new}
          /\ docs'[new] = NewDoc(r)
          /\ \A i \in Ids : docs'[i] = Shifted(r)[i]
      BY <1>1, RegisterStep
    <2>3. \A i \in Ids : docs'[i].kind = docs[i].kind /\ docs'[i].key = docs[i].key
      <3>1. \A i \in Ids : Shifted(r)[i].kind = docs[i].kind /\ Shifted(r)[i].key = docs[i].key
        BY <2>1, ShiftedType
      <3>2. QED
        BY <2>2, <3>1
    <2>4. docs'[new].kind = r.kind /\ docs'[new].key = r.key
      BY <2>2 DEF NewDoc
    <2>5. \A i \in Ids : ~(docs[i].kind = r.kind /\ docs[i].key = r.key)
      BY <2>1 DEF WithKey
    <2> HIDE DEF new
    <2>6. QED
      BY <2>2, <2>3, <2>4, <2>5 DEF KeysUnique
  <1>2. CASE UNCHANGED docs
    BY <1>2 DEF KeysUnique, Ids
  <1>3. ASSUME NEW i \in Ids, NEW year \in Years,
               NEW number \in Typed \union {docs[i].number}, Edit(i, number, year)
        PROVE  KeysUnique'
    <2>1. Ids' = Ids /\ \A j \in Ids : docs'[j].kind = docs[j].kind /\ docs'[j].key = docs[j].key
      BY <1>3, EditStep
    <2>2. QED
      BY <2>1 DEF KeysUnique
  <1>4. \A m, s, start : CreateItem(m, s, start) => UNCHANGED docs
    BY DEF CreateItem
  <1>5. \A m, s : UpdateItem(m, s) \/ DeleteItem(m) => UNCHANGED docs
    BY DEF UpdateItem, DeleteItem
  <1>6. QED
    BY <1>1, <1>2, <1>3, <1>4, <1>5
       DEF Next, Edit, vars, Look, Refuse, Conflict, Repeated, Abort

(* All the answers a request and its repetitions were given are the one    *)
(* document of its idempotency key.                                        *)
LEMMA AnswersAgree == TypeOK /\ KeysUnique => SameRequestSameDocument
  <1> SUFFICES ASSUME TypeOK, KeysUnique, NEW k \in Keys, NEW d \in Kinds
               PROVE  \A i, j \in answers[<<k, d>>] : i = j
    BY DEF SameRequestSameDocument
  <1>1. answers[<<k, d>>] \subseteq WithKey(d, k)
    BY DEF TypeOK
  <1>2. QED
    BY <1>1 DEF WithKey, KeysUnique

(* Repeated and concurrent registrations with one idempotency key are all  *)
(* answered with the same document.                                        *)
THEOREM OneDocumentPerRequest == Spec => []SameRequestSameDocument
  <1>1. Init => KeysUnique
    BY DEF Init, KeysUnique, Ids
  <1>2. QED
    BY <1>1, InitTypeOK, NextTypeOK, NextKeysUnique, AnswersAgree, PTL DEF Spec

-----------------------------------------------------------------------------
(* The numbers.                                                            *)

(* The strengthening.  idx_documents_kind_registration_number_year holds,  *)
(* and an item with documents is not deleted.                              *)
NumbersUnique ==
    \A i, j \in Ids :
        (/\ docs[i].kind = docs[j].kind
         /\ docs[i].number = docs[j].number
         /\ docs[i].year = docs[j].year) => i = j
ItemsStay == \A i \in Ids : nom[docs[i].nom].exists

NumberInv == NumbersUnique /\ ItemsStay /\ BelowCounter /\ NoGaps

(* The number of an insertion is below those that it moves.                *)
LEMMA MovedAbove ==
    ASSUME TypeOK, NEW r \in Request, ~Refused(r), NEW i \in ToShift(r)
    PROVE  MovedNumber(r, i) # NewNumber(r)
  <1>1. i \in Ids /\ r.form = "insert_shift" /\ Parse(nom[r.nom], docs[i].number) >= r.n
    BY DEF ToShift
  <1>2. r.n \in Nat /\ r.n >= 1 /\ Parse(nom[r.nom], docs[i].number) \in Nat
    BY <1>1, RequestFields, DocFields
  <1>3. NewNumber(r).n = r.n
    BY <1>1 DEF NewNumber, FormatWithSuffix
  <1>4. MovedNumber(r, i).n \in {0, Parse(nom[r.nom], docs[i].number) + 1}
    BY DEF MovedNumber, Format, FormatWithSuffix, EmptyNumber
  <1>5. QED
    BY <1>1, <1>2, <1>3, <1>4

(* The unique index on the numbers holds after a registration.             *)
LEMMA RegisterUnique ==
    ASSUME TypeOK, NumbersUnique, NEW c \in Clients, NEW r, r = req[c], Register(c)
    PROVE  NumbersUnique'
  <1> DEFINE new == Len(docs) + 1
  <1>1. /\ r \in Request /\ ~Refused(r) /\ InTheWay(r) = {} /\ NumberTaken(r) = {}
        /\ Ids' = Ids \union {new} /\ docs'[new] = NewDoc(r)
        /\ \A i \in Ids : docs'[i] = Shifted(r)[i]
    BY RegisterStep DEF Collides, Obstacles
  <1>2. \A i \in Ids :
            /\ docs'[i].kind = docs[i].kind
            /\ docs'[i].year = docs[i].year
            /\ i \in ToShift(r) => docs'[i].number = MovedNumber(r, i)
            /\ i \notin ToShift(r) => docs'[i].number = docs[i].number
    BY <1>1, ShiftedType
  <1>3. docs'[new].kind = r.kind /\ docs'[new].year = r.year /\ docs'[new].number = NewNumber(r)
    BY <1>1 DEF NewDoc
  <1> HIDE DEF new
  <1>4. \A i \in ToShift(r) : i \in Ids /\ docs[i].kind = r.kind
    BY DEF ToShift
  <1>5. ASSUME NEW i \in Ids, NEW j \in Ids, i # j, docs[i].kind = docs[j].kind, docs[i].year = docs[j].year
        PROVE  docs'[i].number # docs'[j].number
    <2>1. CASE i \in ToShift(r) /\ j \in ToShift(r)
      BY <1>1, <1>2, <1>5, <2>1 DEF InTheWay
    <2>2. CASE i \in ToShift(r) /\ j \notin ToShift(r)
      BY <1>1, <1>2, <1>4, <1>5, <2>2 DEF InTheWay, Holders
    <2>3. CASE i \notin ToShift(r) /\ j \in ToShift(r)
      BY <1>1, <1>2, <1>4, <1>5, <2>3 DEF InTheWay, Holders
    <2>4. CASE i \notin ToShift(r) /\ j \notin ToShift(r)
      BY <1>2, <1>5, <2>4 DEF NumbersUnique
    <2>5. QED
      BY <2>1, <2>2, <2>3, <2>4
  <1>6. ASSUME NEW i \in Ids, docs[i].kind = r.kind, docs[i].year = r.year
        PROVE  docs'[i].number # NewNumber(r)
    <2>1. CASE i \in ToShift(r)
      BY <1>1, <1>2, <2>1, MovedAbove
    <2>2. CASE i \notin ToShift(r)
      BY <1>1, <1>2, <1>6, <2>2 DEF NumberTaken, Holders
    <2>3. QED
      BY <2>1, <2>2
  <1>7. QED
    BY <1>1, <1>2, <1>3, <1>5, <1>6 DEF NumbersUnique

(* What a registration does to the numbers that the counter and insertions *)
(* gave out: an insertion moves those of its item from its own number on,  *)
(* unless it leaves some behind, and all of them stay below the counter.   *)
LEMMA RegisterGiven ==
    ASSUME TypeOK, BelowCounter, NEW c \in Clients, NEW r, r = req[c], Register(c),
           NEW i \in Ids, ~docs[i].typed
    PROVE  LET moves == r.form = "insert_shift" /\ docs[i].nom = r.nom
                          /\ docs[i].number.n >= r.n IN
           /\ docs'[i].nom = docs[i].nom /\ ~docs'[i].typed
           /\ ~moves => docs'[i].number.n = docs[i].number.n
           /\ moves /\ ~LeavesBehind(r) => docs'[i].number.n = docs[i].number.n + 1
           /\ docs'[i].number.n < nom'[docs[i].nom].next
  <1> DEFINE s == nom[r.nom]
             n == docs[i].number.n
             moves == r.form = "insert_shift" /\ docs[i].nom = r.nom /\ n >= r.n
  <1>1. /\ r \in Request /\ ~Refused(r) /\ docs'[i] = Shifted(r)[i]
        /\ nom' = [m \in Noms |-> IF m = r.nom
                                  THEN [nom[m] EXCEPT !.next = NextNumber(r)] ELSE nom[m]]
    BY RegisterStep
  <1>2. /\ s \in Item /\ s.next \in Nat /\ r.nom \in Noms /\ r.n \in Nat
        /\ r.form = "insert_shift" => r.n >= 1
        /\ NextNumber(r) \in Nat
    BY <1>1, NewTypes, RequestFields DEF Item
  <1>3. n \in Nat /\ docs[i].nom \in Noms /\ n < nom[docs[i].nom].next
    BY DocFields DEF BelowCounter
  <1>4. docs'[i].nom = docs[i].nom /\ ~docs'[i].typed
    BY <1>1, ShiftedType
  <1>5. nom'[docs[i].nom].next = IF docs[i].nom = r.nom THEN NextNumber(r) ELSE nom[docs[i].nom].next
    <2>1. [s EXCEPT !.next = NextNumber(r)].next = NextNumber(r)
      BY <1>2 DEF Item
    <2>2. QED
      BY <1>1, <1>3, <2>1
  <1>6. NextNumber(r) >= s.next
    BY <1>2 DEF NextNumber
  <1>7. CASE i \notin ToShift(r)
    <2>1. docs'[i].number.n = n
      BY <1>1, <1>7, ShiftedType
    <2>2. n < nom'[docs[i].nom].next
      BY <1>2, <1>3, <1>5, <1>6
    <2>3. moves => LeavesBehind(r)
      BY <1>7 DEF LeavesBehind
    <2>4. QED
      BY <1>4, <2>1, <2>2, <2>3
  <1>8. CASE i \in ToShift(r)
    <2>1. r.form = "insert_shift" /\ docs[i].nom = r.nom /\ Parse(s, docs[i].number) >= r.n
      BY <1>8 DEF ToShift
    <2>2. Parse(s, docs[i].number) = n /\ n >= r.n
      BY <1>2, <2>1 DEF Parse
    <2>3. docs'[i].number = Format(s, n + 1)
      BY <1>1, <1>8, <2>2, ShiftedType DEF MovedNumber
    <2>4. docs'[i].number.n = IF s.mode = "manual_only" THEN 0 ELSE n + 1
      BY <2>3 DEF Format, FormatWithSuffix, EmptyNumber
    <2>5. r.n < s.next /\ NextNumber(r) = s.next + 1
      BY <1>2, <1>3, <2>1, <2>2 DEF NextNumber
    <2>6. docs'[i].number.n < nom'[docs[i].nom].next
      BY <1>2, <1>3, <1>5, <2>1, <2>4, <2>5
    <2>7. ~LeavesBehind(r) => s.mode # "manual_only"
      BY <2>1 DEF LeavesBehind
    <2>8. QED
      BY <1>4, <2>1, <2>2, <2>4, <2>6, <2>7
  <1>9. QED
    BY <1>7, <1>8

(* The number a registration gives out itself, and the counter afterwards. *)
LEMMA RegisterNew ==
    ASSUME TypeOK, NEW r \in Request, ~Refused(r)
    PROVE  LET s == nom[r.nom] IN
           /\ NewDoc(r).nom = r.nom
           /\ ~NewDoc(r).typed => NewNumber(r).n < NextNumber(r)
           /\ r.form = "insert_shift" => /\ ~NewDoc(r).typed /\ NewNumber(r).n = r.n
                                         /\ NextNumber(r) = IF r.n >= s.next THEN r.n + 1 ELSE s.next + 1
           /\ r.form # "insert_shift" =>
                \/ NextNumber(r) = s.next
                \/ ~NewDoc(r).typed /\ NewNumber(r).n = s.next /\ NextNumber(r) = s.next + 1
  <1> DEFINE s == nom[r.nom]
  <1>1. s \in Item /\ s.next \in Nat /\ r.n \in Nat /\ r.form \in {"plain", "insert_shift", "literal"}
    BY NewTypes, RequestFields DEF Item
  <1>2. /\ NewDoc(r).nom = r.nom
        /\ NewDoc(r).typed <=> r.form = "literal" \/ (r.form = "plain" /\ s.mode = "manual_only")
    BY DEF NewDoc
  <1>3. CASE r.form = "plain" /\ s.mode # "manual_only"
    <2>1. NewNumber(r) = FormatWithSuffix(s, s.next, NoText) /\ NextNumber(r) = s.next + 1
      BY <1>3 DEF NewNumber, NextNumber, Format
    <2>2. NewNumber(r).n = s.next
      BY <2>1 DEF FormatWithSuffix
    <2>3. QED
      BY <1>1, <1>2, <1>3, <2>1, <2>2
  <1>4. CASE r.form = "insert_shift"
    <2>1. /\ NewNumber(r) = FormatWithSuffix(s, r.n, r.suffix)
          /\ NextNumber(r) = IF r.n >= s.next THEN r.n + 1 ELSE s.next + 1
      BY <1>4 DEF NewNumber, NextNumber
    <2>2. NewNumber(r).n = r.n
      BY <2>1 DEF FormatWithSuffix
    <2>3. QED
      BY <1>1, <1>2, <1>4, <2>1, <2>2
  <1>5. CASE r.form = "literal" \/ (r.form = "plain" /\ s.mode = "manual_only")
    <2>1. NextNumber(r) = s.next
      BY <1>5 DEF NextNumber
    <2>2. QED
      BY <1>2, <1>5, <2>1
  <1>6. QED
    BY <1>1, <1>3, <1>4, <1>5

(* A registration, seen by the item it registers in: no number between the *)
(* first one and the counter is left without its document.                 *)
LEMMA RegisterOwn ==
    ASSUME TypeOK, NumberInv, NEW c \in Clients, NEW r, r = req[c], Register(c),
           Regular(r.nom), ~LeavesBehind(r),
           NEW n \in FirstNumber(r) .. (NextNumber(r) - 1)
    PROVE  \/ n \in JumpsOver(r)
           \/ ~NewDoc(r).typed /\ NewNumber(r).n = n
           \/ \E i \in Ids : docs'[i].nom = r.nom /\ ~docs'[i].typed /\ docs'[i].number.n = n
  <1> DEFINE s == nom[r.nom]
             h == hist[r.nom]
             Own(k) == \E i \in Ids : docs[i].nom = r.nom /\ ~docs[i].typed /\ docs[i].number.n = k
             OwnNow(k) == \E i \in Ids : docs'[i].nom = r.nom /\ ~docs'[i].typed /\ docs'[i].number.n = k
  <1>1. r \in Request /\ ~Refused(r)
    BY RegisterStep
  <1>2. /\ s.next \in Nat /\ r.nom \in Noms /\ r.n \in Nat
        /\ h.start \in Nat /\ h.holes \in SUBSET Nat
        /\ FirstNumber(r) \in Nat /\ NextNumber(r) \in Nat /\ n \in Nat
    <2>1. /\ s.next \in Nat /\ r.nom \in Noms /\ r.n \in Nat
          /\ FirstNumber(r) \in Nat /\ NextNumber(r) \in Nat
      BY <1>1, NewTypes, RequestFields DEF Item
    <2>2. QED
      BY <2>1 DEF TypeOK
  <1>3. \A k \in h.start .. (s.next - 1) : k \in h.holes \/ Own(k)
    BY <1>2 DEF NumberInv, NoGaps, Holds
  <1>4. ASSUME NEW k \in Nat, Own(k)
        PROVE  /\ r.form # "insert_shift" \/ k < r.n => OwnNow(k)
               /\ r.form = "insert_shift" /\ k >= r.n => OwnNow(k + 1)
    <2>1. PICK i \in Ids : docs[i].nom = r.nom /\ ~docs[i].typed /\ docs[i].number.n = k
      BY <1>4
    <2>2. BelowCounter
      BY DEF NumberInv
    <2>3. QED
      BY <1>2, <2>1, <2>2, RegisterGiven
  <1> HIDE DEF Own, OwnNow
  <1>5. CASE r.form # "insert_shift"
    <2>1. FirstNumber(r) = h.start /\ JumpsOver(r) = h.holes
      BY <1>5 DEF FirstNumber, JumpsOver
    <2>2. CASE n < s.next
      <3>1. n \in h.start .. (s.next - 1)
        BY <1>2, <2>1, <2>2
      <3>2. QED
        BY <1>2, <1>3, <1>4, <1>5, <2>1, <3>1 DEF OwnNow
    <2>3. CASE n >= s.next
      BY <1>1, <1>2, <1>5, <2>3, RegisterNew
    <2>4. QED
      BY <1>2, <2>2, <2>3
  <1>6. CASE r.form = "insert_shift" /\ n = r.n
    BY <1>1, <1>6, RegisterNew
  <1>7. CASE r.form = "insert_shift" /\ r.n >= s.next /\ n # r.n
    <2>1. n < r.n /\ JumpsOver(r) = h.holes \union (s.next .. (r.n - 1))
      BY <1>1, <1>2, <1>7, RegisterNew DEF JumpsOver
    <2>2. h.start <= n
      BY <1>2, <1>7, <2>1 DEF FirstNumber
    <2>3. CASE n < s.next
      <3>1. n \in h.start .. (s.next - 1)
        BY <1>2, <2>2, <2>3
      <3>2. QED
        BY <1>2, <1>3, <1>4, <2>1, <3>1 DEF OwnNow
    <2>4. CASE n >= s.next
      BY <1>2, <2>1, <2>4
    <2>5. QED
      BY <1>2, <2>3, <2>4
  <1>8. CASE r.form = "insert_shift" /\ r.n < s.next /\ n < r.n
    <2>1. n \in h.start .. (s.next - 1)
      BY <1>2, <1>8 DEF FirstNumber
    <2>2. n \in h.holes => n \in JumpsOver(r)
      BY <1>2, <1>8 DEF JumpsOver
    <2>3. QED
      BY <1>2, <1>3, <1>4, <1>8, <2>1, <2>2 DEF OwnNow
  <1>9. CASE r.form = "insert_shift" /\ r.n < s.next /\ n > r.n
    <2> DEFINE k == n - 1
    <2>1. k \in Nat /\ k >= r.n /\ k + 1 = n /\ k \in h.start .. (s.next - 1)
      <3>1. NextNumber(r) = s.next + 1
        BY <1>1, <1>2, <1>9, RegisterNew
      <3>2. QED
        BY <1>2, <1>9, <3>1 DEF FirstNumber
    <2>2. k \in h.holes => n \in JumpsOver(r)
      BY <1>2, <1>9, <2>1 DEF JumpsOver
    <2> HIDE DEF k
    <2>3. Own(k) => OwnNow(n)
      BY <1>4, <1>9, <2>1
    <2>4. QED
      BY <1>3, <2>1, <2>2, <2>3 DEF OwnNow
  <1>10. QED
    BY <1>2, <1>5, <1>6, <1>7, <1>8, <1>9

(* A registration keeps what the numbering rests on.                       *)
LEMMA RegisterNumberInv ==
    ASSUME TypeOK, NumberInv, NEW c \in Clients, NEW r, r = req[c], Register(c)
    PROVE  NumberInv'
  <1> DEFINE new == Len(docs) + 1
             s == nom[r.nom]
  <1>1. /\ r \in Request /\ ~Refused(r)
        /\ Ids' = Ids \union {new} /\ docs'[new] = NewDoc(r)
        /\ nom' = [m \in Noms |-> IF m = r.nom
                                  THEN [nom[m] EXCEPT !.next = NextNumber(r)] ELSE nom[m]]
        /\ hist' = [m \in Noms |-> IF m = r.nom
                      THEN [start |-> FirstNumber(r), holes |-> JumpsOver(r),
                            irregular |-> hist[m].irregular \/ LeavesBehind(r)]
                      ELSE hist[m]]
    BY RegisterStep
  <1>2. r.nom \in Noms /\ s \in Item /\ s.exists
    BY <1>1, NewTypes, RequestFields
  <1>3. \A i \in Ids : docs'[i].nom = docs[i].nom /\ docs'[i].typed = docs[i].typed
    BY <1>1, RegisterStep, ShiftedType
  <1>4. docs'[new].nom = r.nom /\ docs'[new].number = NewNumber(r) /\ docs'[new].typed = NewDoc(r).typed
    BY <1>1 DEF NewDoc
  <1>5. nom'[r.nom].next = NextNumber(r) /\ nom'[r.nom].exists
    BY <1>1, <1>2 DEF Item
  <1>6. /\ hist'[r.nom].start = FirstNumber(r) /\ hist'[r.nom].holes = JumpsOver(r)
        /\ hist'[r.nom].irregular = (hist[r.nom].irregular \/ LeavesBehind(r))
    BY <1>1, <1>2
  <1>7. \A m \in Noms \ {r.nom} : nom'[m] = nom[m] /\ hist'[m] = hist[m]
    BY <1>1
  <1> HIDE DEF new
  <1>8. ItemsStay'
    BY <1>1, <1>3, <1>4, <1>5, <1>7, DocFields DEF NumberInv, ItemsStay
  <1>9. Regular(r.nom)' => Regular(r.nom) /\ ~LeavesBehind(r)
    BY <1>2, <1>6 DEF Regular
  <1>10. BelowCounter'
    <2> SUFFICES ASSUME NEW i \in Ids', ~docs'[i].typed
                 PROVE  docs'[i].number.n < nom'[docs'[i].nom].next
      BY DEF BelowCounter
    <2>1. CASE i \in Ids
      BY <1>3, <2>1, RegisterGiven DEF NumberInv
    <2>2. CASE i = new
      BY <1>1, <1>4, <1>5, <2>2, RegisterNew
    <2>3. QED
      BY <1>1, <2>1, <2>2
  <1>11. NoGaps'
    <2> SUFFICES ASSUME NEW m \in Noms, Regular(m)',
                        NEW n \in hist'[m].start .. (nom'[m].next - 1)
                 PROVE  \/ n \in hist'[m].holes
                        \/ \E i \in Ids' : docs'[i].nom = m /\ ~docs'[i].typed /\ docs'[i].number.n = n
      BY DEF NoGaps, Holds
    <2>1. CASE m = r.nom
      <3>1. n \in FirstNumber(r) .. (NextNumber(r) - 1)
        BY <1>5, <1>6, <2>1
      <3>2. \/ n \in JumpsOver(r)
            \/ ~NewDoc(r).typed /\ NewNumber(r).n = n
            \/ \E i \in Ids : docs'[i].nom = r.nom /\ ~docs'[i].typed /\ docs'[i].number.n = n
        BY <1>9, <2>1, <3>1, RegisterOwn
      <3>3. QED
        BY <1>1, <1>4, <1>6, <2>1, <3>2
    <2>2. CASE m # r.nom
      <3>1. \/ n \in hist[m].holes
            \/ \E i \in Ids : docs[i].nom = m /\ ~docs[i].typed /\ docs[i].number.n = n
        BY <1>7, <2>2 DEF NumberInv, NoGaps, Holds, Regular
      <3>2. ASSUME NEW i \in Ids, docs[i].nom = m, ~docs[i].typed
            PROVE  docs'[i].number.n = docs[i].number.n
        BY <2>2, <3>2, RegisterGiven DEF NumberInv
      <3>3. QED
        BY <1>1, <1>3, <1>7, <2>2, <3>1, <3>2
    <2>3. QED
      BY <2>1, <2>2
  <1>12. NumbersUnique'
    BY RegisterUnique DEF NumberInv
  <1>13. QED
    BY <1>8, <1>10, <1>11, <1>12 DEF NumberInv

(* The edit of an appeal or an order keeps it: a number that is written    *)
(* over is one no longer given out by the counter.                         *)
LEMMA EditNumberInv ==
    ASSUME TypeOK, NumberInv, NEW i \in Ids, NEW year \in Years,
           NEW number \in Typed \union {docs[i].number}, Edit(i, number, year)
    PROVE  NumberInv'
  <1>1. /\ Ids' = Ids /\ UNCHANGED nom
        /\ \A j \in Ids \ {i} : docs'[j] = docs[j]
        /\ docs'[i].kind = docs[i].kind /\ docs'[i].nom = docs[i].nom
        /\ docs'[i].number = number /\ docs'[i].year = year
        /\ docs'[i].typed = (docs[i].typed \/ number # docs[i].number)
    BY EditStep
  <1>2. \A m \in Noms :
            /\ hist'[m].start = hist[m].start /\ hist'[m].irregular = hist[m].irregular
            /\ hist[m].holes \subseteq hist'[m].holes
    BY EditStep
  <1>3. NumbersUnique'
    <2>1. Holders(docs[i].kind, number, year) \subseteq {i}
      BY EditStep DEF Free
    <2>2. ASSUME NEW j \in Ids \ {i}
          PROVE  ~(docs[j].kind = docs[i].kind /\ docs[j].number = number /\ docs[j].year = year)
      BY <2>1 DEF Holders
    <2>3. QED
      BY <1>1, <2>2 DEF NumberInv, NumbersUnique
  <1>4. ItemsStay'
    BY <1>1 DEF NumberInv, ItemsStay
  <1>5. BelowCounter'
    BY <1>1 DEF NumberInv, BelowCounter
  <1>6. NoGaps'
    <2> SUFFICES ASSUME NEW m \in Noms, Regular(m)',
                        NEW n \in hist'[m].start .. (nom'[m].next - 1)
                 PROVE  \/ n \in hist'[m].holes
                        \/ \E j \in Ids : docs'[j].nom = m /\ ~docs'[j].typed /\ docs'[j].number.n = n
      BY <1>1 DEF NoGaps, Holds
    <2>1. \/ n \in hist[m].holes
          \/ \E j \in Ids : docs[j].nom = m /\ ~docs[j].typed /\ docs[j].number.n = n
      BY <1>1, <1>2 DEF NumberInv, NoGaps, Holds, Regular
    <2>2. CASE n \in hist[m].holes
      BY <1>2, <2>2
    <2>3. ASSUME NEW j \in Ids \ {i}, docs[j].nom = m, ~docs[j].typed, docs[j].number.n = n
          PROVE  docs'[j].nom = m /\ ~docs'[j].typed /\ docs'[j].number.n = n
      BY <1>1, <2>3
    <2>4. CASE docs[i].nom = m /\ ~docs[i].typed /\ docs[i].number.n = n
      <3>1. number # docs[i].number => n \in hist'[m].holes
        BY <2>4, EditStep
      <3>2. QED
        BY <1>1, <2>4, <3>1
    <2>5. QED
      BY <2>1, <2>2, <2>3, <2>4
  <1>7. QED
    BY <1>3, <1>4, <1>5, <1>6 DEF NumberInv

(* Every step keeps it: an item gets its counter before its documents, its *)
(* edit leaves the counter alone, and an item with documents stays.        *)
LEMMA NextNumberInv == TypeOK /\ NumberInv /\ [Next]_vars => NumberInv'
  <1> SUFFICES ASSUME TypeOK, NumberInv, [Next]_vars PROVE NumberInv'
    OBVIOUS
  <1> DEFINE Draft == [exists : {FALSE}, kind : Kinds, year : Years, mode : Modes,
                       prefix : Prefixes, next : {0}, active : BOOLEAN]
  <1>1. ASSUME NEW c \in Clients, Register(c) PROVE NumberInv'
    BY <1>1, RegisterNumberInv
  <1>2. ASSUME UNCHANGED <<docs, nom, hist>> PROVE NumberInv'
    BY <1>2 DEF NumberInv, NumbersUnique, ItemsStay, BelowCounter, NoGaps, Regular, Holds, Ids
  <1>3. ASSUME UNCHANGED docs PROVE NumbersUnique'
    BY <1>3 DEF NumberInv, NumbersUnique, Ids
  <1>4. \A i \in Ids : docs[i].nom \in Noms /\ nom[docs[i].nom].exists
    BY DocFields DEF NumberInv, ItemsStay
  <1>5. ASSUME NEW m0 \in Noms, NEW s \in Draft, NEW start \in Starts, CreateItem(m0, s, start)
        PROVE  NumberInv'
    <2>1. /\ ~nom[m0].exists /\ UNCHANGED docs /\ Ids' = Ids
          /\ nom' = [nom EXCEPT ![m0] = [s EXCEPT !.exists = TRUE, !.next = start, !.active = TRUE]]
          /\ hist' = [hist EXCEPT ![m0] = [start |-> start, holes |-> {}, irregular |-> FALSE]]
      BY <1>5 DEF CreateItem, Ids
    <2>2. start \in Nat
      BY RegistrationAssumption
    <2>3. /\ nom'[m0].next = start /\ hist'[m0].start = start
          /\ \A m \in Noms \ {m0} : nom'[m] = nom[m] /\ hist'[m] = hist[m]
      BY <2>1 DEF TypeOK
    <2>4. \A i \in Ids : docs[i].nom # m0
      BY <1>4, <2>1
    <2>5. ItemsStay' /\ BelowCounter'
      BY <1>4, <2>1, <2>3, <2>4 DEF NumberInv, ItemsStay, BelowCounter
    <2>6. NoGaps'
      <3> SUFFICES ASSUME NEW m \in Noms, Regular(m)',
                          NEW n \in hist'[m].start .. (nom'[m].next - 1)
                   PROVE  n \in hist'[m].holes \/ Holds(m, n)'
        BY DEF NoGaps
      <3>1. m # m0
        BY <2>2, <2>3
      <3>2. QED
        BY <2>1, <2>3, <3>1 DEF NumberInv, NoGaps, Holds, Regular
    <2>7. QED
      BY <1>3, <2>1, <2>5, <2>6 DEF NumberInv
  <1>6. ASSUME NEW m0 \in Noms, NEW s \in Draft, UpdateItem(m0, s) PROVE NumberInv'
    <2>1. /\ UNCHANGED <<docs, hist>> /\ Ids' = Ids /\ nom[m0].exists
          /\ nom' = [nom EXCEPT ![m0] = Edited(m0, s)]
      BY <1>6 DEF UpdateItem, Ids
    <2>2. \A m \in Noms : nom'[m].exists = nom[m].exists /\ nom'[m].next = nom[m].next
      BY <2>1 DEF TypeOK, Edited
    <2>3. ItemsStay' /\ BelowCounter'
      BY <1>4, <2>1, <2>2 DEF NumberInv, ItemsStay, BelowCounter
    <2>4. NoGaps'
      BY <2>1, <2>2 DEF NumberInv, NoGaps, Holds, Regular
    <2>5. QED
      BY <1>3, <2>1, <2>3, <2>4 DEF NumberInv
  <1>7. ASSUME NEW m0 \in Noms, DeleteItem(m0) PROVE NumberInv'
    <2>1. /\ UNCHANGED <<docs, hist>> /\ Ids' = Ids
          /\ nom' = [nom EXCEPT ![m0] = NoItem]
          /\ \A i \in Ids : docs[i].nom # m0
      BY <1>7 DEF DeleteItem, Ids
    <2>2. ~nom'[m0].exists /\ \A m \in Noms \ {m0} : nom'[m] = nom[m]
      BY <2>1 DEF TypeOK, NoItem
    <2>3. ItemsStay' /\ BelowCounter'
      BY <1>4, <2>1, <2>2 DEF NumberInv, ItemsStay, BelowCounter
    <2>4. NoGaps'
      BY <2>1, <2>2 DEF NumberInv, NoGaps, Holds, Regular
    <2>5. QED
      BY <1>3, <2>1, <2>3, <2>4 DEF NumberInv
  <1>8. ASSUME NEW i \in Ids, NEW year \in Years,
               NEW number \in Typed \union {docs[i].number}, Edit(i, number, year)
        PROVE  NumberInv'
    BY <1>8, EditNumberInv
  <1>9. QED
    BY <1>1, <1>2, <1>5, <1>6, <1>7, <1>8
       DEF Next, Edit, vars, Look, Refuse, Conflict, Repeated, Abort

(* An empty register satisfies it.                                         *)
LEMMA InitNumberInv == Init => NumberInv
  BY DEF Init, NumberInv, NumbersUnique, ItemsStay, BelowCounter, NoGaps, Regular, Ids, NoItem

(* Every number from an item's start to its counter is that of a document  *)
(* the counter or an insertion gave it to, but for those an administrator  *)
(* jumped over and those the edit of an appeal wrote over, as long as no   *)
(* insertion left numbers behind.                                          *)
THEOREM NumberingHasNoGaps == Spec => []NoGaps
  <1>1. NumberInv => NoGaps
    BY DEF NumberInv
  <1>2. QED
    BY <1>1, InitTypeOK, NextTypeOK, InitNumberInv, NextNumberInv, PTL DEF Spec

(* Whatever is in the way of a counter belongs to another item or was      *)
(* typed; whatever is in the way of an insertion belongs to another item   *)
(* or another year.                                                        *)
LEMMA CollisionIsForeign == TypeOK /\ NumberInv => NeverBlocksItself
  <1> SUFFICES ASSUME TypeOK, NumberInv, NEW c \in Clients, NEW r, r = req[c],
                      Waiting(c), ~Refused(r), nom[r.nom].mode # "manual_only",
                      r.form # "literal", NEW j \in Obstacles(r), docs[j].nom = r.nom
               PROVE  \/ r.form = "plain" /\ docs[j].typed
                      \/ r.form = "insert_shift" /\ docs[j].year # nom[r.nom].year
    BY DEF NeverBlocksItself
  <1> DEFINE s == nom[r.nom]
             P(i) == Parse(s, docs[i].number)
  <1>1. r \in Request
    BY NoRequestNoItem DEF Waiting, TypeOK
  <1>2. /\ s \in Item /\ s.next \in Nat /\ r.nom \in Noms /\ r.n \in Nat
        /\ r.form \in {"plain", "insert_shift"}
        /\ r.form = "insert_shift" => r.n >= 1 /\ r.suffix = NoText
    BY <1>1, NewTypes, RequestFields DEF Item
  <1>3. \A n \in Nat : Parse(s, Format(s, n)) = n /\ Format(s, n) = FormatWithSuffix(s, n, NoText)
    BY <1>2, FormatParse
  <1>4. j \in Ids
    BY DEF Obstacles, InTheWay, NumberTaken, Holders
  <1>5. CASE r.form = "plain"
    <2>1. ToShift(r) = {} /\ InTheWay(r) = {}
      BY <1>5 DEF ToShift, InTheWay
    <2>2. docs[j].number = NewNumber(r)
      BY <2>1 DEF Obstacles, NumberTaken, Holders
    <2>3. docs[j].number.n = s.next
      BY <1>2, <1>5, <2>2 DEF NewNumber, Format, FormatWithSuffix
    <2>4. docs[j].typed \in BOOLEAN
      BY <1>4, DocFields
    <2>5. ~docs[j].typed => s.next < s.next
      BY <1>4, <2>3 DEF NumberInv, BelowCounter
    <2>6. QED
      BY <1>2, <1>5, <2>4, <2>5
  <1>6. CASE r.form = "insert_shift"
    <2> SUFFICES ASSUME docs[j].year = s.year PROVE FALSE
      BY <1>6
    <2>1. \A i \in ToShift(r) :
              /\ i \in Ids /\ docs[i].kind = r.kind /\ docs[i].year = s.year
              /\ P(i) \in Nat /\ P(i) >= r.n /\ docs[i].number \in RegNumber
              /\ MovedNumber(r, i) = Format(s, P(i) + 1)
      BY <1>2, DocFields DEF ToShift, MovedNumber
    <2>2. docs[j].kind = r.kind /\ P(j) >= r.n => j \in ToShift(r)
      BY <1>4, <1>6 DEF ToShift
    <2>3. ASSUME NEW i \in ToShift(r) \ {j},
                 IF j \in ToShift(r) THEN MovedNumber(r, j) = MovedNumber(r, i)
                 ELSE j \in Holders(r.kind, MovedNumber(r, i), docs[i].year)
          PROVE  FALSE
      <3>1. CASE j \in ToShift(r)
        <4>1. Format(s, P(i) + 1) = Format(s, P(j) + 1)
          BY <2>1, <2>3, <3>1
        <4>2. P(i) + 1 = P(j) + 1
          BY <1>3, <2>1, <3>1, <4>1
        <4>3. P(i) = P(j)
          BY <2>1, <3>1, <4>2
        <4>4. docs[i].number = Format(s, P(i)) /\ docs[j].number = Format(s, P(j))
          BY <1>2, <1>6, <2>1, <3>1, ParseFormat
        <4>5. docs[i].number = docs[j].number
          BY <4>3, <4>4
        <4>6. QED
          BY <2>1, <3>1, <4>5 DEF NumberInv, NumbersUnique
      <3>2. CASE j \notin ToShift(r)
        <4>1. docs[j].kind = r.kind /\ docs[j].number = Format(s, P(i) + 1)
          BY <2>1, <2>3, <3>2 DEF Holders
        <4>2. P(j) = P(i) + 1
          BY <1>3, <2>1, <4>1
        <4>3. QED
          BY <1>2, <2>1, <2>2, <3>2, <4>1, <4>2
      <3>3. QED
        BY <3>1, <3>2
    <2>4. CASE j \in InTheWay(r)
      BY <2>3, <2>4 DEF InTheWay
    <2>5. CASE j \in NumberTaken(r)
      <3>1. docs[j].kind = r.kind /\ docs[j].number = NewNumber(r) /\ j \notin ToShift(r)
        BY <2>5 DEF NumberTaken, Holders
      <3>2. P(j) = r.n
        BY <1>2, <1>3, <1>6, <3>1 DEF NewNumber
      <3>3. QED
        BY <1>2, <2>2, <3>1, <3>2
    <2>6. QED
      BY <2>4, <2>5 DEF Obstacles
  <1>7. QED
    BY <1>2, <1>5, <1>6

(* The counter never meets a number that it gave out itself, and an        *)
(* insertion never one it could have moved.                                *)
THEOREM CounterNeverBlocksItself == Spec => []NeverBlocksItself
  BY InitTypeOK, NextTypeOK, InitNumberInv, NextNumberInv, CollisionIsForeign, PTL DEF Spec


-----------------------------------------------------------------------------
(* Lists of documents.                                                     *)

USE ListConstants

(* The cursors and what they promise.                                      *)

ListedRow == [form : Form, created : Nat]
Table == [Documents -> {NoDocument} \cup ListedRow]
Cursors == {NoCursor} \cup (Nat \X Nat)
QuestionRec == [filter : Filter, search : Texts, size : Sizes, cursor : Cursors, index : Nat]
AnswerRec == [at : {"client"}, items : SUBSET Documents, more : BOOLEAN, next : Cursors,
              all : SUBSET Documents]
RequestRec == [number : Nat, question : QuestionRec, answer : {NoAnswer} \cup AnswerRec]
PageRec == [authenticated : BOOLEAN, filter : Filter, search : Texts, size : Sizes,
            history : Seq(Cursors), index : Nat, next : Cursors, more : BOOLEAN,
            data : SUBSET Documents, loading : BOOLEAN]

MatchesOf(k, form, question) ==
    CASE k = "incoming_letter" -> MatchesIncoming(form, question.search, question.filter)
      [] k = "outgoing_letter" -> MatchesOutgoing(form, question.search, question.filter)
      [] k = "citizen_appeal" -> MatchesAppeal(form, question.search, question.filter)
      [] OTHER -> MatchesOrder(form, question.search, question.filter)

There(table) == {d \in Documents : table[d] # NoDocument}
Found(k, table, question) == {d \in There(table) : MatchesOf(k, table[d].form, question)}
KeyIn(table, d) == <<table[d].created, d>>
AllBelow(table, ds, cursor) == \A d \in ds : Below(KeyIn(table, d), cursor)

(* The rows of a table.                                                    *)
LEMMA RowFields ==
    /\ \A row \in ListedRow : row # NoDocument
    /\ \A table \in Table : \A d \in There(table) : table[d] \in ListedRow /\ d \in Nat
  <1>1. \A row \in ListedRow : row # NoDocument
    BY DEF ListedRow, NoDocument
  <1>2. QED
    BY <1>1 DEF Table, There

(* Keys are ordered strictly and totally.                                  *)
LEMMA BelowIsOrder ==
    ASSUME NEW table \in Table, NEW d \in There(table), NEW e \in There(table), NEW f \in There(table)
    PROVE  /\ ~Below(KeyIn(table, d), KeyIn(table, d))
           /\ Below(KeyIn(table, d), KeyIn(table, e)) /\ Below(KeyIn(table, e), KeyIn(table, f))
                => Below(KeyIn(table, d), KeyIn(table, f))
           /\ d # e => \/ Below(KeyIn(table, d), KeyIn(table, e))
                       \/ Below(KeyIn(table, e), KeyIn(table, d))
           /\ KeyIn(table, d) \in Nat \X Nat
  <1>1. /\ table[d].created \in Nat /\ table[e].created \in Nat /\ table[f].created \in Nat
        /\ d \in Nat /\ e \in Nat /\ f \in Nat
    BY RowFields DEF ListedRow
  <1>2. QED
    BY <1>1 DEF Below, KeyIn

(* Counting the documents above numbers a finite set of them from 0.       *)
LEMMA RanksFromTheTop ==
    ASSUME NEW table \in Table, NEW S \in SUBSET There(table), IsFiniteSet(S)
    PROVE  [d \in S |-> Cardinality({e \in S : Below(KeyIn(table, d), KeyIn(table, e))})]
              \in Bijection(S, 0 .. (Cardinality(S) - 1))
  <1> DEFINE above(d) == {e \in S : Below(KeyIn(table, d), KeyIn(table, e))}
             rank == [d \in S |-> Cardinality(above(d))]
             T == 0 .. (Cardinality(S) - 1)
  <1>1. Cardinality(S) \in Nat
    BY FS_CardinalityType
  <1>2. ASSUME NEW s \in S
        PROVE  IsFiniteSet(above(s)) /\ Cardinality(above(s)) \in T
    <2>1. IsFiniteSet(S \ {s}) /\ Cardinality(S \ {s}) = Cardinality(S) - 1
      BY FS_RemoveElement
    <2>2. above(s) \in SUBSET (S \ {s})
      BY BelowIsOrder
    <2>3. IsFiniteSet(above(s)) /\ Cardinality(above(s)) <= Cardinality(S) - 1
      BY <2>1, <2>2, FS_Subset
    <2>4. Cardinality(above(s)) \in Nat
      BY <2>3, FS_CardinalityType
    <2> HIDE DEF above
    <2>5. QED
      BY <1>1, <2>3, <2>4
  <1>3. ASSUME NEW s \in S, NEW t \in S, Below(KeyIn(table, t), KeyIn(table, s))
        PROVE  Cardinality(above(s)) < Cardinality(above(t))
    <2>1. above(s) \in SUBSET above(t) /\ s \in above(t) /\ s \notin above(s)
      BY <1>3, BelowIsOrder
    <2> HIDE DEF above
    <2>2. /\ Cardinality(above(s)) <= Cardinality(above(t))
          /\ Cardinality(above(s)) # Cardinality(above(t))
      BY <1>2, <2>1, FS_Subset
    <2>3. Cardinality(above(s)) \in Nat /\ Cardinality(above(t)) \in Nat
      BY <1>1, <1>2
    <2>4. QED
      BY <2>2, <2>3
  <1> HIDE DEF above
  <1>4. rank \in [S -> T]
    BY <1>2
  <1>5. \A s, t \in S : rank[s] = rank[t] => s = t
    <2> SUFFICES ASSUME NEW s \in S, NEW t \in S, s # t PROVE rank[s] # rank[t]
      OBVIOUS
    <2>1. \/ Below(KeyIn(table, s), KeyIn(table, t))
          \/ Below(KeyIn(table, t), KeyIn(table, s))
      BY BelowIsOrder
    <2>2. Cardinality(above(s)) \in Nat /\ Cardinality(above(t)) \in Nat
      BY <1>1, <1>2
    <2>3. Cardinality(above(s)) < Cardinality(above(t)) \/ Cardinality(above(t)) < Cardinality(above(s))
      BY <1>3, <2>1
    <2>4. QED
      BY <2>2, <2>3
  <1>6. IsFiniteSet(T) /\ Cardinality(T) = Cardinality(S)
    <2> DEFINE top == Cardinality(S) - 1
    <2>1. top \in Int /\ 0 \in Int
      BY <1>1
    <2> HIDE DEF top
    <2>2. IsFiniteSet(0 .. top) /\ Cardinality(0 .. top) = IF 0 > top THEN 0 ELSE top - 0 + 1
      BY <2>1, FS_Interval
    <2>3. QED
      BY <1>1, <2>2 DEF top
  <1> HIDE DEF rank, T
  <1>7. rank \in Injection(S, T)
    BY <1>4, <1>5 DEF Injection, IsInjective
  <1>8. rank \in Surjection(S, T)
    BY <1>6, <1>7, FS_Injection
  <1>9. QED
    BY <1>7, <1>8 DEF Bijection, rank, T, above

(* A page shows the topmost documents behind its cursor.  Those it leaves  *)
(* out lie below the last one shown, and there is more.                    *)
THEOREM PageIsTheTop ==
    ASSUME documents \in Table, IsFiniteSet(There(documents)),
           NEW matching \in SUBSET There(documents), NEW q \in QuestionRec
    PROVE  LET answer == PageOf(matching, q)
               left == BehindCursor(matching, q.cursor) \ answer.items
           IN  /\ answer \in AnswerRec
               /\ answer.all = matching
               /\ answer.more => answer.next # NoCursor
               /\ left # {} => answer.more /\ AllBelow(documents, left, answer.next)
  <1> DEFINE found == BehindCursor(matching, q.cursor)
             above(d) == {e \in found : Below(Key(d), Key(e))}
             items == {d \in found : Cardinality(above(d)) < q.size}
             more == Cardinality(found) > q.size
             last == CHOOSE d \in items : \A e \in items \ {d} : Below(Key(d), Key(e))
             rank == [d \in found |-> Cardinality({e \in found : Below(KeyIn(documents, d), KeyIn(documents, e))})]
  <1>1. PageOf(matching, q) = [at |-> "client", items |-> items, more |-> more,
                               next |-> IF more THEN Key(last) ELSE NoCursor, all |-> matching]
    BY DEF PageOf
  <1>2. \A d : Key(d) = KeyIn(documents, d)
    BY DEF Key, KeyIn
  <1>3. found \in SUBSET There(documents) /\ found \in SUBSET matching
    BY DEF BehindCursor
  <1>4. IsFiniteSet(found) /\ Cardinality(found) \in Nat /\ q.size \in Nat /\ q.size > 0
    <2>1. IsFiniteSet(found)
      BY <1>3, FS_Subset
    <2>2. q.size \in Sizes
      BY DEF QuestionRec
    <2>3. q.size \in Nat /\ q.size > 0
      <3>1. \A n \in Sizes : n \in Nat /\ n > 0
        <4> SUFFICES ASSUME NEW n \in Sizes PROVE n \in Nat /\ n > 0
          OBVIOUS
        <4>1. n \in Nat /\ n # 0
          BY ListConstants
        <4>2. QED
          BY <4>1
      <3>2. QED
        BY <2>2, <3>1, Zenon
    <2>4. Cardinality(found) \in Nat
      BY <2>1, FS_CardinalityType
    <2>5. QED
      BY <2>1, <2>3, <2>4
  <1>5. rank \in Bijection(found, 0 .. (Cardinality(found) - 1))
    <2> HIDE DEF found
    <2>1. QED
      BY <1>3, <1>4, RanksFromTheTop
  <1> HIDE DEF found
  <1>6. \A d \in found : above(d) = {e \in found : Below(KeyIn(documents, d), KeyIn(documents, e))}
    BY <1>2
  <1>7. \A d \in found : rank[d] = Cardinality(above(d))
    BY <1>6
  <1> HIDE DEF above, rank
  <1>8. /\ \A d \in found : rank[d] \in 0 .. (Cardinality(found) - 1)
        /\ \A d, e \in found : rank[d] = rank[e] => d = e
        /\ \A i \in 0 .. (Cardinality(found) - 1) : \E d \in found : rank[d] = i
    BY <1>5 DEF Bijection, Injection, Surjection, IsInjective
  <1>9. ASSUME NEW d \in found, NEW e \in found, rank[d] < rank[e]
        PROVE  Below(KeyIn(documents, e), KeyIn(documents, d))
    <2>1. d # e
      BY <1>8, <1>9
    <2>2. \/ Below(KeyIn(documents, d), KeyIn(documents, e))
          \/ Below(KeyIn(documents, e), KeyIn(documents, d))
      BY <1>3, <2>1, BelowIsOrder
    <2>3. CASE Below(KeyIn(documents, d), KeyIn(documents, e))
      <3>1. above(e) \in SUBSET above(d)
        BY <1>3, <1>6, <2>3, BelowIsOrder
      <3>2. above(d) \in SUBSET found
        BY <1>6
      <3>3. IsFiniteSet(above(d))
        BY <1>4, <3>2, FS_Subset
      <3>4. Cardinality(above(e)) <= Cardinality(above(d))
        BY <3>1, <3>3, FS_Subset
      <3>5. rank[d] \in Nat /\ rank[e] \in Nat /\ rank[e] <= rank[d]
        BY <1>4, <1>7, <1>8, <3>4
      <3>6. QED
        BY <1>9, <3>5
    <2>4. QED
      BY <2>2, <2>3
  <1>10. ASSUME found # {} PROVE last \in items
    <2>1. Cardinality(found) > 0
      <3>1. Cardinality(found) # 0
        BY <1>4, <1>10, FS_EmptySet
      <3>2. QED
        BY <1>4, <3>1
    <2> DEFINE i == IF more THEN q.size - 1 ELSE Cardinality(found) - 1
    <2>2. i \in 0 .. (Cardinality(found) - 1) /\ i < q.size
      BY <1>4, <2>1
    <2>3. \A j \in 0 .. (Cardinality(found) - 1) : j < q.size => j <= i
      BY <1>4
    <2> HIDE DEF i
    <2>4. PICK d \in found : rank[d] = i
      BY <1>8, <2>2
    <2>5. d \in items
      BY <1>7, <2>2, <2>4
    <2>6. \A e \in items \ {d} : Below(Key(d), Key(e))
      <3> SUFFICES ASSUME NEW e \in items \ {d} PROVE Below(Key(d), Key(e))
        OBVIOUS
      <3>1. e \in found /\ rank[e] \in 0 .. (Cardinality(found) - 1) /\ rank[e] < q.size
        BY <1>7, <1>8
      <3>2. rank[e] <= rank[d] /\ rank[e] # rank[d]
        BY <1>8, <2>3, <2>4, <3>1
      <3>3. rank[d] \in Nat /\ rank[e] \in Nat
        BY <1>4, <1>8, <3>1
      <3>4. rank[e] < rank[d]
        BY <3>2, <3>3
      <3>5. QED
        BY <1>2, <1>9, <3>1, <3>4
    <2> HIDE DEF items
    <2>7. QED
      BY <2>5, <2>6
  <1>11. more => found # {}
    BY <1>4, FS_EmptySet
  <1>12. ASSUME NEW d \in found \ items PROVE more /\ Below(KeyIn(documents, d), Key(last))
    <2>1. rank[d] \in 0 .. (Cardinality(found) - 1) /\ ~(rank[d] < q.size)
      BY <1>7, <1>8
    <2>2. more
      BY <1>4, <2>1
    <2>3. last \in items
      BY <1>10
    <2> HIDE DEF last
    <2>4. last \in found /\ rank[last] < q.size /\ rank[last] \in 0 .. (Cardinality(found) - 1)
      BY <1>7, <1>8, <2>3
    <2>5. rank[last] < rank[d]
      BY <1>4, <2>1, <2>4
    <2>6. QED
      BY <1>2, <1>9, <2>2, <2>4, <2>5
  <1>13. more => Key(last) \in Nat \X Nat
    <2>1. more => last \in There(documents)
      BY <1>3, <1>10, <1>11
    <2> HIDE DEF last
    <2>2. QED
      BY <1>2, <2>1, BelowIsOrder
  <1>14. more \in BOOLEAN /\ items \in SUBSET Documents /\ matching \in SUBSET Documents
    BY <1>3 DEF There
  <1> HIDE DEF more, items, last
  <1>15. (IF more THEN Key(last) ELSE NoCursor) \in Cursors
    BY <1>13 DEF Cursors
  <1>16. more => Key(last) # NoCursor
    BY <1>13 DEF NoCursor
  <1>17. QED
    BY <1>1, <1>12, <1>14, <1>15, <1>16 DEF AnswerRec, AllBelow, found

DocsSound(table, pending) ==
    /\ table \in Table /\ pending \in Table
    /\ IsFiniteSet(There(table))
    /\ \A d \in Documents : pending[d] # NoDocument => table[d] = NoDocument

PageSound(p) ==
    /\ p.index \in 1 .. Len(p.history)
    /\ p.history[1] = NoCursor
    /\ \A i \in 2 .. p.index : p.history[i] # NoCursor
    /\ p.more => p.next # NoCursor
    /\ ~p.authenticated => ~p.loading /\ p.data = {}

WalkSound(k, table, p, promised, shown) ==
    /\ promised \subseteq Found(k, table, Question(p))
    /\ \A i \in 2 .. p.index : AllBelow(table, promised \ shown, p.history[i])
    /\ p.more => AllBelow(table, promised \ shown, p.next)
    /\ ~p.more => promised \subseteq shown
    /\ ~p.authenticated => promised = {}

AnswerSound(k, table, r) ==
    r.answer # NoAnswer =>
      LET left == r.answer.all \ r.answer.items
      IN  /\ r.answer.all \subseteq Found(k, table, r.question)
          /\ r.answer.more => r.answer.next # NoCursor
          /\ r.question.cursor = NoCursor /\ left # {} =>
               r.answer.more /\ AllBelow(table, left, r.answer.next)

LatestSound(table, p, r, promised, shown, over) ==
    /\ p.authenticated /\ p.loading
    /\ ~over => r.question = Question(p)
    /\ ~over /\ r.answer # NoAnswer /\ r.question.cursor # NoCursor =>
         LET left == promised \ (shown \cup r.answer.items)
         IN  left # {} => r.answer.more /\ AllBelow(table, left, r.answer.next)

NumbersSound(asked, latest) ==
    /\ \A r \in asked : r.number <= latest
    /\ \A r, s \in asked : r.number = s.number => r = s

RequestsSound(k, table, p, asked, latest, promised, shown, over) ==
    /\ NumbersSound(asked, latest)
    /\ \A r \in asked : /\ AnswerSound(k, table, r)
                        /\ r.number = latest => LatestSound(table, p, r, promised, shown, over)

PageTypes == page \in PageRec /\ sequence \in Nat /\ requests \in SUBSET RequestRec

SettledSound(p, answered, over) == p.authenticated /\ ~p.loading /\ ~over => answered = Question(p)

FormsSound(p, sent, over) ==
    /\ sent \in SUBSET QuestionRec /\ over \in BOOLEAN
    /\ sent # {} => p.authenticated

ListInv ==
    /\ kind \in DocumentKinds
    /\ DocsSound(documents, registering)
    /\ PageTypes
    /\ PageSound(page)
    /\ SettledSound(page, settled, overtaken)
    /\ FormsSound(page, saving, overtaken)
    /\ WalkSound(kind, documents, page, due, seen)
    /\ RequestsSound(kind, documents, page, requests, sequence, due, seen, overtaken)

(* What the bridge operators stand for.                                    *)
LEMMA Bridges ==
    /\ \A form, q : Matches(form, q) <=> MatchesOf(kind, form, q)
    /\ \A d : Key(d) = KeyIn(documents, d)
    /\ \A q : GetList(q) = PageOf(Found(kind, documents, q), q)
  <1>1. \A form, q : Matches(form, q) <=> MatchesOf(kind, form, q)
    BY DEF Matches, MatchesOf
  <1>2. \A d : Key(d) = KeyIn(documents, d)
    BY DEF Key, KeyIn
  <1>3. ASSUME NEW q PROVE GetList(q) = PageOf(Found(kind, documents, q), q)
    <2>1. Committed = There(documents)
      BY DEF Committed, There
    <2>2. CASE kind = "incoming_letter"
      <3>1. Found(kind, documents, q) =
              {d \in Committed : MatchesIncoming(documents[d].form, q.search, q.filter)}
        BY <2>1, <2>2 DEF Found, MatchesOf
      <3>2. QED
        BY <2>2, <3>1 DEF GetList, IncomingList
    <2>3. CASE kind = "outgoing_letter"
      <3>1. Found(kind, documents, q) =
              {d \in Committed : MatchesOutgoing(documents[d].form, q.search, q.filter)}
        BY <2>1, <2>3 DEF Found, MatchesOf
      <3>2. QED
        BY <2>3, <3>1 DEF GetList, OutgoingList
    <2>4. CASE kind = "citizen_appeal"
      <3>1. Found(kind, documents, q) =
              {d \in Committed : MatchesAppeal(documents[d].form, q.search, q.filter)}
        BY <2>1, <2>4 DEF Found, MatchesOf
      <3>2. QED
        BY <2>4, <3>1 DEF GetList, AppealList
    <2>5. CASE kind \notin {"incoming_letter", "outgoing_letter", "citizen_appeal"}
      <3>1. Found(kind, documents, q) =
              {d \in Committed : MatchesOrder(documents[d].form, q.search, q.filter)}
        BY <2>1, <2>5 DEF Found, MatchesOf
      <3>2. QED
        BY <2>5, <3>1 DEF GetList, OrderList
    <2>6. QED
      BY <2>2, <2>3, <2>4, <2>5
  <1>4. QED
    BY <1>1, <1>2, <1>3

(* A question is one.                                                      *)
LEMMA QuestionType ==
    ASSUME NEW p \in PageRec, PageSound(p)
    PROVE  Question(p) \in QuestionRec /\ Question(p).cursor = p.history[p.index]
  <1>1. p.history \in Seq(Cursors) /\ p.index \in 1 .. Len(p.history) /\ p.index \in Nat
    BY DEF PageRec, PageSound
  <1>2. p.history[p.index] \in Cursors
    BY <1>1
  <1>3. QED
    BY <1>1, <1>2 DEF Question, QuestionRec, PageRec

(* Initially nothing is asked or promised.                                 *)
LEMMA InitListInv == ListInit => ListInv
  <1> SUFFICES ASSUME ListInit PROVE ListInv
    OBVIOUS
  <1>1. /\ kind \in DocumentKinds
        /\ documents = [d \in Documents |->
             IF d \in Existing THEN [form |-> FirstForm[kind], created |-> 1] ELSE NoDocument]
        /\ registering = [d \in Documents |-> NoDocument]
        /\ page = NewPage(FALSE, DefaultSize, NoFilter)
        /\ sequence = 0 /\ requests = {} /\ due = {} /\ saving = {} /\ overtaken = FALSE
    BY DEF ListInit
  <1>2. FirstForm[kind] \in Form
    BY <1>1
  <1>3. documents \in Table
    BY <1>1, <1>2 DEF Table, ListedRow
  <1>4. IsFiniteSet(There(documents))
    <2>1. There(documents) \in SUBSET Existing
      BY <1>1 DEF There
    <2>2. QED
      BY <2>1, FS_Subset
  <1>5. DocsSound(documents, registering)
    BY <1>1, <1>3, <1>4 DEF DocsSound, Table
  <1>6. NoFilter \in Filter
    BY DEF NoFilter, Filter, Texts
  <1>7. /\ page \in PageRec /\ page.index = 1 /\ page.history = <<NoCursor>>
        /\ ~page.more /\ ~page.authenticated /\ ~page.loading /\ page.data = {}
    <2>1. page = [authenticated |-> FALSE, filter |-> NoFilter, search |-> "", size |-> DefaultSize,
                  history |-> <<NoCursor>>, index |-> 1, next |-> NoCursor, more |-> FALSE,
                  data |-> {}, loading |-> FALSE]
      BY <1>1 DEF NewPage
    <2>2. "" \in Texts /\ DefaultSize \in Sizes /\ NoCursor \in Cursors
      BY ListConstants DEF Texts, Cursors
    <2>3. <<NoCursor>> \in Seq(Cursors)
      <3>1. \A C : \A c \in C : <<c>> \in Seq(C)
        OBVIOUS
      <3>2. QED
        BY <2>2, <3>1, Zenon
    <2>4. page \in PageRec
      BY <1>6, <2>1, <2>2, <2>3 DEF PageRec
    <2>5. QED
      BY <2>1, <2>4
  <1>8. PageSound(page) /\ SettledSound(page, settled, overtaken)
    BY <1>7 DEF PageSound, SettledSound
  <1>9. PageTypes
    BY <1>1, <1>7 DEF PageTypes
  <1>10. WalkSound(kind, documents, page, due, seen)
    <2>1. 2 .. page.index = {}
      BY <1>7
    <2>2. QED
      BY <1>1, <1>7, <2>1 DEF WalkSound
  <1>11. RequestsSound(kind, documents, page, requests, sequence, due, seen, overtaken)
    BY <1>1 DEF RequestsSound, NumbersSound
  <1>12. FormsSound(page, saving, overtaken)
    BY <1>1 DEF FormsSound
  <1>13. QED
    BY <1>1, <1>5, <1>8, <1>9, <1>10, <1>11, <1>12 DEF ListInv

-----------------------------------------------------------------------------
(* Registrations and edits.                                                *)

(* Documents stay where they were in the order.                            *)
SameKeys(old, new) == \A d \in There(old) : d \in There(new) /\ new[d].created = old[d].created

(* So what lay below a cursor still does.                                  *)
LEMMA StaysBelow ==
    ASSUME NEW old, NEW new, SameKeys(old, new), NEW ds \in SUBSET There(old), NEW cursor,
           AllBelow(old, ds, cursor)
    PROVE  AllBelow(new, ds, cursor)
  BY DEF SameKeys, AllBelow, KeyIn

(* A change of the table keeps the page's invariant if it keeps the keys   *)
(* and takes out of the promises what it stops matching.                   *)
LEMMA TableStep ==
    ASSUME ListInv, NEW table \in Table, SameKeys(documents, table),
           documents' = table, UNCHANGED <<kind, page, sequence, saving, overtaken, settled, seen>>,
           DocsSound(documents', registering'),
           due' \subseteq due, due' \subseteq Found(kind, table, Question(page)),
           requests' \in SUBSET RequestRec,
           \A s \in requests' : \E r \in requests :
              /\ s.number = r.number /\ s.question = r.question
              /\ (s.answer # NoAnswer) <=> (r.answer # NoAnswer)
              /\ s.answer # NoAnswer =>
                   /\ s.answer.items = r.answer.items /\ s.answer.more = r.answer.more
                   /\ s.answer.next = r.answer.next /\ s.answer.all \subseteq r.answer.all
                   /\ s.answer.all \subseteq Found(kind, table, r.question),
           \A s, t \in requests' : s.number = t.number => s = t
    PROVE  ListInv'
  <1> USE DEF ListInv
  <1>1. due \subseteq There(documents)
    BY DEF WalkSound, Found
  <1>2. WalkSound(kind, table, page, due', seen)
    <2>1. (due' \ seen) \subseteq (due \ seen) /\ (due' \ seen) \in SUBSET There(documents)
      BY <1>1
    <2>2. \A cursor : AllBelow(documents, due \ seen, cursor) => AllBelow(table, due' \ seen, cursor)
      <3> SUFFICES ASSUME NEW cursor, AllBelow(documents, due \ seen, cursor)
                   PROVE  AllBelow(table, due' \ seen, cursor)
        OBVIOUS
      <3>1. AllBelow(documents, due' \ seen, cursor)
        BY <2>1 DEF AllBelow
      <3>2. QED
        BY <2>1, <3>1, StaysBelow
    <2>3. \A i \in 2 .. page.index : AllBelow(table, due' \ seen, page.history[i])
      BY <2>2 DEF WalkSound
    <2>4. page.more => AllBelow(table, due' \ seen, page.next)
      BY <2>2 DEF WalkSound
    <2>5. ~page.more => due' \subseteq seen
      BY DEF WalkSound
    <2>6. ~page.authenticated => due' = {}
      BY DEF WalkSound
    <2>7. QED
      BY <2>3, <2>4, <2>5, <2>6 DEF WalkSound
  <1>3. ASSUME NEW s \in requests'
        PROVE  /\ s.number <= sequence
               /\ AnswerSound(kind, table, s)
               /\ s.number = sequence => LatestSound(table, page, s, due', seen, overtaken)
    <2>1. PICK r \in requests :
              /\ s.number = r.number /\ s.question = r.question
              /\ (s.answer # NoAnswer) <=> (r.answer # NoAnswer)
              /\ s.answer # NoAnswer =>
                   /\ s.answer.items = r.answer.items /\ s.answer.more = r.answer.more
                   /\ s.answer.next = r.answer.next /\ s.answer.all \subseteq r.answer.all
                   /\ s.answer.all \subseteq Found(kind, table, r.question)
      BY <1>3
    <2>2. /\ r.number <= sequence /\ AnswerSound(kind, documents, r)
          /\ r.number = sequence => LatestSound(documents, page, r, due, seen, overtaken)
      BY DEF RequestsSound, NumbersSound
    <2>3. AnswerSound(kind, table, s)
      <3> SUFFICES ASSUME s.answer # NoAnswer PROVE AnswerSound(kind, table, s)
        BY DEF AnswerSound
      <3> DEFINE left == s.answer.all \ s.answer.items
      <3>1. left \subseteq r.answer.all \ r.answer.items
            /\ r.answer.all \subseteq There(documents)
        BY <2>1, <2>2 DEF AnswerSound, Found
      <3>2. r.question.cursor = NoCursor /\ left # {} =>
               r.answer.more /\ AllBelow(documents, left, r.answer.next)
        BY <2>1, <2>2, <3>1 DEF AnswerSound, AllBelow
      <3>3. left \in SUBSET There(documents)
        BY <3>1
      <3> HIDE DEF left
      <3>4. r.question.cursor = NoCursor /\ left # {} =>
               r.answer.more /\ AllBelow(table, left, r.answer.next)
        BY <3>2, <3>3, StaysBelow
      <3>5. QED
        BY <2>1, <2>2, <3>4 DEF AnswerSound, left
    <2>4. ASSUME s.number = sequence PROVE LatestSound(table, page, s, due', seen, overtaken)
      <3>1. LatestSound(documents, page, r, due, seen, overtaken)
        BY <2>1, <2>2, <2>4
      <3> DEFINE left == due' \ (seen \cup r.answer.items)
      <3>2. left \in SUBSET There(documents) /\ left \subseteq due \ (seen \cup r.answer.items)
        BY <1>1
      <3>3. ~overtaken /\ r.answer # NoAnswer /\ r.question.cursor # NoCursor /\ left # {} =>
               r.answer.more /\ AllBelow(documents, left, r.answer.next)
        BY <3>1, <3>2 DEF LatestSound, AllBelow
      <3> HIDE DEF left
      <3>4. ~overtaken /\ r.answer # NoAnswer /\ r.question.cursor # NoCursor /\ left # {} =>
               r.answer.more /\ AllBelow(table, left, r.answer.next)
        BY <3>2, <3>3, StaysBelow
      <3>5. QED
        BY <2>1, <3>1, <3>4 DEF LatestSound, left
    <2>5. QED
      BY <2>1, <2>2, <2>3, <2>4
  <1>4. RequestsSound(kind, table, page, requests', sequence, due', seen, overtaken)
    BY <1>3 DEF RequestsSound, NumbersSound
  <1>5. QED
    BY <1>2, <1>4 DEF PageTypes

(* A registration that commits adds a document.                            *)
LEMMA CommitRegistrationStep ==
    ASSUME ListInv, NEW d \in Documents, CommitRegistration(d)
    PROVE  ListInv'
  <1> USE DEF ListInv
  <1> DEFINE table == [documents EXCEPT ![d] = registering[d]]
  <1>1. /\ registering[d] # NoDocument /\ documents' = table
        /\ registering' = [registering EXCEPT ![d] = NoDocument]
        /\ UNCHANGED <<kind, page, sequence, requests, saving, overtaken, settled, due, seen>>
    BY DEF CommitRegistration, forms, walk
  <1>2. documents \in Table /\ registering \in Table /\ documents[d] = NoDocument
    BY <1>1 DEF DocsSound
  <1>3. table \in Table /\ registering' \in Table
    BY <1>1, <1>2 DEF Table
  <1>4. table[d] = registering[d] /\ \A e \in Documents \ {d} : table[e] = documents[e]
    BY <1>2 DEF Table
  <1> HIDE DEF table
  <1>5. There(table) = There(documents) \cup {d} /\ SameKeys(documents, table)
    BY <1>1, <1>2, <1>4 DEF There, SameKeys
  <1>6. IsFiniteSet(There(table))
    BY <1>5, FS_AddElement DEF DocsSound
  <1>7. DocsSound(documents', registering')
    <2>1. \A e \in Documents : registering'[e] # NoDocument => table[e] = NoDocument
      BY <1>1, <1>2, <1>4 DEF DocsSound, Table
    <2>2. QED
      BY <1>1, <1>3, <1>6, <2>1 DEF DocsSound
  <1>8. \A q : Found(kind, documents, q) \subseteq Found(kind, table, q)
    BY <1>2, <1>4 DEF Found, There
  <1>9. \A r \in requests : r.answer # NoAnswer => r.answer.all \subseteq Found(kind, table, r.question)
    BY <1>8 DEF RequestsSound, AnswerSound
  <1>10. due \subseteq Found(kind, table, Question(page))
    BY <1>8 DEF WalkSound
  <1>11. \A s, t \in requests : s.number = t.number => s = t
    BY DEF RequestsSound, NumbersSound
  <1>12. QED
    BY <1>1, <1>3, <1>5, <1>7, <1>9, <1>10, <1>11, TableStep DEF PageTypes

(* Beginning a registration and rolling one back touch only what is not    *)
(* there yet.                                                              *)
LEMMA RegistrationStep ==
    ASSUME ListInv, NEW d \in Documents, NEW form \in Forms[kind],
           \/ \E now \in 1 .. MaxClock : BeginRegistration(d, form, now)
           \/ RollbackRegistration(d)
    PROVE  ListInv'
  <1> USE DEF ListInv
  <1>1. documents \in Table /\ registering \in Table
    BY DEF DocsSound
  <1>2. form \in Form
    BY ListConstants
  <1>3. DocsSound(documents, registering')
    <2>1. CASE \E now \in 1 .. MaxClock : BeginRegistration(d, form, now)
      <3>1. PICK now \in 1 .. MaxClock : BeginRegistration(d, form, now)
        BY <2>1
      <3>2. /\ documents[d] = NoDocument
            /\ registering' = [registering EXCEPT ![d] = [form |-> form, created |-> now]]
        BY <3>1 DEF BeginRegistration
      <3>3. now \in Nat
        BY ListConstants
      <3>4. [form |-> form, created |-> now] \in ListedRow
        BY <1>2, <3>3 DEF ListedRow
      <3>5. registering' \in Table
        BY <1>1, <3>2, <3>4 DEF Table
      <3>6. \A e \in Documents : registering'[e] # NoDocument => documents[e] = NoDocument
        BY <1>1, <3>2 DEF DocsSound, Table
      <3>7. QED
        BY <3>5, <3>6 DEF DocsSound
    <2>2. CASE RollbackRegistration(d)
      <3>1. registering' = [registering EXCEPT ![d] = NoDocument]
        BY <2>2 DEF RollbackRegistration
      <3>2. registering' \in Table
        BY <1>1, <3>1 DEF Table
      <3>3. \A e \in Documents : registering'[e] # NoDocument => documents[e] = NoDocument
        BY <1>1, <3>1 DEF DocsSound, Table
      <3>4. QED
        BY <3>2, <3>3 DEF DocsSound
    <2>3. QED
      BY <2>1, <2>2
  <1>4. UNCHANGED <<kind, documents, page, sequence, requests, saving, overtaken, settled, due, seen>>
    BY DEF BeginRegistration, RollbackRegistration, forms, walk
  <1>5. QED
    BY <1>3, <1>4 DEF PageTypes

(* An edit takes what it saves out of the promises it no longer matches.   *)
LEMMA UpdateStep ==
    ASSUME ListInv, NEW d \in Documents, NEW form \in Forms[kind], Update(d, form)
    PROVE  ListInv'
  <1> USE DEF ListInv
  <1> DEFINE table == [documents EXCEPT ![d] = Saved(@, form)]
             Kept(r) == r.answer = NoAnswer \/ Matches(form, r.question)
             Trimmed(r) == IF Kept(r) THEN r ELSE [r EXCEPT !.answer.all = @ \ {d}]
  <1>1. /\ d \in Committed /\ documents' = table
        /\ due' = IF Matches(form, Question(page)) THEN due ELSE due \ {d}
        /\ requests' = {Trimmed(r) : r \in requests}
        /\ UNCHANGED <<kind, registering, page, sequence, saving, overtaken, settled, seen>>
    BY DEF Update, forms
  <1>2. documents \in Table /\ registering \in Table /\ d \in There(documents)
    BY <1>1 DEF DocsSound, Committed, There
  <1>3. form \in Form /\ documents[d] \in ListedRow
    BY <1>2, RowFields, ListConstants
  <1>4. Saved(documents[d], form) \in ListedRow /\ Saved(documents[d], form).form = form
        /\ Saved(documents[d], form).created = documents[d].created
    BY <1>3 DEF Saved, ListedRow
  <1>5. table \in Table
    BY <1>2, <1>4 DEF Table
  <1>6. table[d] = Saved(documents[d], form) /\ \A e \in Documents \ {d} : table[e] = documents[e]
    BY <1>2 DEF Table
  <1> HIDE DEF table
  <1>7. There(table) = There(documents) /\ SameKeys(documents, table)
    <2>1. table[d] # NoDocument
      BY <1>4, <1>6, RowFields
    <2>2. There(table) = There(documents)
      BY <1>2, <1>6, <2>1 DEF There
    <2>3. \A e \in There(documents) : table[e].created = documents[e].created
      BY <1>4, <1>6 DEF There
    <2>4. QED
      BY <2>2, <2>3 DEF SameKeys
  <1>8. DocsSound(documents', registering')
    <2>1. \A e \in Documents : registering[e] # NoDocument => table[e] = NoDocument
      BY <1>2, <1>6 DEF DocsSound, There
    <2>2. IsFiniteSet(There(table))
      BY <1>7 DEF DocsSound
    <2>3. QED
      BY <1>1, <1>2, <1>5, <2>1, <2>2 DEF DocsSound
  <1>9. ASSUME NEW q, NEW ds, ds \subseteq Found(kind, documents, q),
               Matches(form, q) \/ d \notin ds
        PROVE  ds \subseteq Found(kind, table, q)
    <2> SUFFICES ASSUME NEW e \in ds PROVE e \in Found(kind, table, q)
      OBVIOUS
    <2>1. e \in There(table) /\ MatchesOf(kind, documents[e].form, q)
      BY <1>7, <1>9 DEF Found
    <2>2. e # d => table[e] = documents[e]
      BY <1>6, <2>1 DEF There
    <2>3. e = d => MatchesOf(kind, table[e].form, q)
      BY <1>4, <1>6, <1>9, Bridges
    <2>4. QED
      BY <2>1, <2>2, <2>3 DEF Found
  <1>10. due' \subseteq due /\ due' \subseteq Found(kind, table, Question(page))
    <2>1. due \subseteq Found(kind, documents, Question(page))
      BY DEF WalkSound
    <2>2. due' \subseteq due /\ (Matches(form, Question(page)) \/ d \notin due')
      BY <1>1
    <2>3. due' \subseteq Found(kind, documents, Question(page))
      BY <2>1, <2>2
    <2>4. QED
      BY <1>9, <2>2, <2>3
  <1>11. ASSUME NEW r \in requests
         PROVE  /\ Trimmed(r) \in RequestRec
                /\ Trimmed(r).number = r.number /\ Trimmed(r).question = r.question
                /\ (Trimmed(r).answer # NoAnswer) <=> (r.answer # NoAnswer)
                /\ Trimmed(r).answer # NoAnswer =>
                     /\ Trimmed(r).answer.items = r.answer.items
                     /\ Trimmed(r).answer.more = r.answer.more
                     /\ Trimmed(r).answer.next = r.answer.next
                     /\ Trimmed(r).answer.all \subseteq r.answer.all
                     /\ Trimmed(r).answer.all \subseteq Found(kind, table, r.question)
    <2>1. r \in RequestRec
      BY DEF PageTypes
    <2>2. r.answer # NoAnswer => r.answer.all \subseteq Found(kind, documents, r.question)
      BY DEF RequestsSound, AnswerSound
    <2>3. CASE Kept(r)
      <3>1. Trimmed(r) = r
        BY <2>3
      <3>2. r.answer # NoAnswer => r.answer.all \subseteq Found(kind, table, r.question)
        BY <1>9, <2>2, <2>3
      <3> HIDE DEF Trimmed
      <3>3. QED
        BY <2>1, <3>1, <3>2
    <2>4. CASE ~Kept(r)
      <3> DEFINE answer == [r.answer EXCEPT !.all = @ \ {d}]
      <3>1. r.answer # NoAnswer /\ r.answer \in AnswerRec
        BY <2>1, <2>4 DEF RequestRec
      <3>2. /\ answer \in AnswerRec /\ answer.all = r.answer.all \ {d}
            /\ answer.items = r.answer.items /\ answer.more = r.answer.more
            /\ answer.next = r.answer.next
        BY <3>1 DEF AnswerRec
      <3>3. answer # NoAnswer
        BY <3>2 DEF AnswerRec, NoAnswer
      <3>4. answer.all \subseteq Found(kind, table, r.question)
        BY <1>9, <2>2, <3>1, <3>2
      <3>5. Trimmed(r) = [r EXCEPT !.answer = answer]
        BY <2>4
      <3> HIDE DEF Trimmed, answer
      <3>6. /\ Trimmed(r) \in RequestRec /\ Trimmed(r).answer = answer
            /\ Trimmed(r).number = r.number /\ Trimmed(r).question = r.question
        BY <2>1, <3>2, <3>5 DEF RequestRec
      <3>7. answer.all \subseteq r.answer.all
        BY <3>2
      <3>8. QED
        BY <3>1, <3>2, <3>3, <3>4, <3>6, <3>7
    <2>5. QED
      BY <2>3, <2>4
  <1> HIDE DEF Trimmed
  <1>12. requests' \in SUBSET RequestRec
    BY <1>1, <1>11
  <1>13. \A s \in requests' : \E r \in requests :
              /\ s.number = r.number /\ s.question = r.question
              /\ (s.answer # NoAnswer) <=> (r.answer # NoAnswer)
              /\ s.answer # NoAnswer =>
                   /\ s.answer.items = r.answer.items /\ s.answer.more = r.answer.more
                   /\ s.answer.next = r.answer.next /\ s.answer.all \subseteq r.answer.all
                   /\ s.answer.all \subseteq Found(kind, table, r.question)
    <2> SUFFICES ASSUME NEW s \in requests'
                 PROVE  \E r \in requests :
              /\ s.number = r.number /\ s.question = r.question
              /\ (s.answer # NoAnswer) <=> (r.answer # NoAnswer)
              /\ s.answer # NoAnswer =>
                   /\ s.answer.items = r.answer.items /\ s.answer.more = r.answer.more
                   /\ s.answer.next = r.answer.next /\ s.answer.all \subseteq r.answer.all
                   /\ s.answer.all \subseteq Found(kind, table, r.question)
      OBVIOUS
    <2>1. PICK r \in requests : s = Trimmed(r)
      BY <1>1
    <2>2. QED
      BY <1>11, <2>1
  <1>14. \A s, t \in requests' : s.number = t.number => s = t
    <2> SUFFICES ASSUME NEW s \in requests', NEW t \in requests', s.number = t.number
                 PROVE  s = t
      OBVIOUS
    <2>1. PICK r \in requests : s = Trimmed(r)
      BY <1>1
    <2>2. PICK u \in requests : t = Trimmed(u)
      BY <1>1
    <2>3. r.number = u.number
      BY <1>11, <2>1, <2>2
    <2>4. r = u
      BY <2>3 DEF RequestsSound, NumbersSound
    <2>5. QED
      BY <2>1, <2>2, <2>4
  <1>15. QED
    BY <1>1, <1>5, <1>7, <1>8, <1>10, <1>12, <1>13, <1>14, TableStep

-----------------------------------------------------------------------------
(* The page.                                                               *)

(* What a question finds does not depend on where its page begins.         *)
LEMMA FoundBySearchAndFilter ==
    ASSUME NEW k, NEW table, NEW q, NEW r, q.search = r.search, q.filter = r.filter
    PROVE  Found(k, table, q) = Found(k, table, r)
  <1>1. \A form : MatchesOf(k, form, q) <=> MatchesOf(k, form, r)
    BY DEF MatchesOf
  <1>2. QED
    BY <1>1 DEF Found

(* A new request makes the earlier ones irrelevant, whether it asks what   *)
(* the page shows or what a form was sent over.                            *)
LEMMA AskStep ==
    ASSUME ListInv, NEW p \in PageRec, PageSound(p), p.authenticated,
           NEW question \in QuestionRec, Ask(p, question), saving' \in SUBSET QuestionRec,
           UNCHANGED <<kind, documents, registering, settled>>,
           WalkSound(kind, documents, p, due', seen')
    PROVE  ListInv'
  <1> USE DEF ListInv
  <1> DEFINE new == [number |-> sequence + 1, question |-> question, answer |-> NoAnswer]
  <1>1. /\ page' = [p EXCEPT !.loading = TRUE] /\ sequence' = sequence + 1
        /\ requests' = requests \cup {new} /\ overtaken' = (question # Question(p))
    BY DEF Ask
  <1>2. /\ page' \in PageRec /\ page'.loading /\ page'.authenticated
        /\ page'.index = p.index /\ page'.history = p.history /\ page'.more = p.more
        /\ page'.next = p.next /\ page'.filter = p.filter /\ page'.search = p.search
        /\ page'.size = p.size
    BY <1>1 DEF PageRec
  <1>3. Question(page') = Question(p)
    BY <1>2 DEF Question
  <1>4. PageSound(page')
    BY <1>2 DEF PageSound
  <1>5. WalkSound(kind, documents, page', due', seen')
    BY <1>2, <1>3 DEF WalkSound
  <1>6. sequence \in Nat /\ requests \in SUBSET RequestRec
    BY DEF PageTypes
  <1>7. new \in RequestRec
    BY <1>6 DEF RequestRec
  <1>8. new.number = sequence + 1 /\ new.question = question /\ new.answer = NoAnswer
    OBVIOUS
  <1> HIDE DEF new
  <1>9. \A r \in requests : r.number \in Nat /\ r.number <= sequence
    BY <1>6 DEF RequestRec, RequestsSound, NumbersSound
  <1>10. NumbersSound(requests', sequence')
    <2>1. \A r \in requests' : r.number <= sequence'
      BY <1>1, <1>6, <1>8, <1>9
    <2>2. \A r, s \in requests : r.number = s.number => r = s
      BY DEF RequestsSound, NumbersSound
    <2>3. \A r \in requests : r.number # new.number
      BY <1>6, <1>8, <1>9
    <2>4. \A r, s \in requests' : r.number = s.number => r = s
      BY <1>1, <2>2, <2>3
    <2>5. QED
      BY <2>1, <2>4 DEF NumbersSound
  <1>11. \A r \in requests' : AnswerSound(kind, documents, r)
    BY <1>1, <1>8 DEF RequestsSound, AnswerSound
  <1>12. \A r \in requests' : r.number = sequence' => r = new
    BY <1>1, <1>6, <1>9
  <1>13. LatestSound(documents, page', new, due', seen', overtaken')
    BY <1>1, <1>2, <1>3, <1>8 DEF LatestSound
  <1>14. RequestsSound(kind, documents, page', requests', sequence', due', seen', overtaken')
    BY <1>10, <1>11, <1>12, <1>13 DEF RequestsSound
  <1>15. PageTypes'
    BY <1>1, <1>2, <1>6, <1>7 DEF PageTypes
  <1>16. SettledSound(page', settled', overtaken')
    BY <1>2 DEF SettledSound
  <1>17. FormsSound(page', saving', overtaken')
    BY <1>1, <1>2 DEF FormsSound
  <1>18. QED
    BY <1>4, <1>5, <1>14, <1>15, <1>16, <1>17

(* The page loads when it asks for something else.                         *)
LEMMA ShowStep ==
    ASSUME ListInv, NEW p \in PageRec, PageSound(p), p.authenticated, page.authenticated,
           p.loading = page.loading, Show(p),
           UNCHANGED <<kind, documents, registering, settled>>,
           WalkSound(kind, documents, p, due', seen'),
           due' = {} \/ UNCHANGED <<due, seen>>
    PROVE  ListInv'
  <1>1. CASE Question(p) # Question(page)
    <2>1. Ask(p, Question(p)) /\ saving' = saving
      BY <1>1 DEF Show
    <2>2. Question(p) \in QuestionRec /\ saving' \in SUBSET QuestionRec
      BY <2>1, QuestionType DEF ListInv, FormsSound
    <2>3. QED
      BY <2>1, <2>2, AskStep
  <1>2. CASE Question(p) = Question(page)
    <2> USE DEF ListInv
    <2>1. page' = p /\ UNCHANGED <<sequence, requests, saving, overtaken>>
      BY <1>2 DEF Show
    <2>2. ASSUME NEW r \in requests, LatestSound(documents, page, r, due, seen, overtaken)
          PROVE  LatestSound(documents, p, r, due', seen', overtaken)
      <3>1. CASE due' = {}
        BY <1>2, <2>2, <3>1 DEF LatestSound
      <3>2. CASE UNCHANGED <<due, seen>>
        BY <1>2, <2>2, <3>2 DEF LatestSound
      <3>3. QED
        BY <3>1, <3>2
    <2>3. RequestsSound(kind, documents, p, requests, sequence, due', seen', overtaken)
      BY <2>2 DEF RequestsSound
    <2>4. SettledSound(p, settled, overtaken)
      BY <1>2 DEF SettledSound
    <2>5. FormsSound(p, saving, overtaken)
      BY DEF FormsSound
    <2>6. QED
      BY <2>1, <2>3, <2>4, <2>5 DEF PageTypes
  <1>3. QED
    BY <1>1, <1>2

(* Without promises there is nothing to keep.                              *)
LEMMA NothingPromised ==
    ASSUME NEW k, NEW table, NEW p, NEW shown
    PROVE  WalkSound(k, table, p, {}, shown)
  BY DEF WalkSound, AllBelow

(* Another search keeps the place in the list, another filter or page      *)
(* size goes back to the first page.                                       *)
LEMMA QueryStep ==
    ASSUME ListInv,
           \/ \E text \in Searches : SetSearch(text)
           \/ \E filter \in Filters[kind] : SetFilter(filter)
           \/ \E size \in Sizes : SetDocumentPageSize(size)
    PROVE  ListInv'
  <1> USE DEF ListInv
  <1>1. page \in PageRec
    BY DEF PageTypes
  <1>2. /\ page.authenticated /\ due' = {}
        /\ UNCHANGED <<kind, documents, registering, settled>>
    BY DEF SetSearch, SetFilter, SetDocumentPageSize, Click, rows
  <1>3. \A p : WalkSound(kind, documents, p, due', seen')
    BY <1>2, NothingPromised
  <1>4. ASSUME NEW text \in Searches, SetSearch(text)
        PROVE  ListInv'
    <2> DEFINE p == [page EXCEPT !.search = text]
    <2>1. text \in Texts /\ Show(p)
      BY <1>4, ListConstants DEF SetSearch
    <2>2. /\ p \in PageRec /\ p.authenticated = page.authenticated /\ p.loading = page.loading
          /\ p.index = page.index /\ p.history = page.history /\ p.more = page.more
          /\ p.next = page.next /\ p.data = page.data
      BY <1>1, <2>1 DEF PageRec
    <2> HIDE DEF p
    <2>3. PageSound(p)
      BY <2>2 DEF PageSound
    <2>4. QED
      BY <1>2, <1>3, <2>1, <2>2, <2>3, ShowStep
  <1>5. ASSUME NEW q \in PageRec, q.authenticated = page.authenticated, q.loading = page.loading,
               Show(Rewound(q))
        PROVE  ListInv'
    <2> DEFINE p == Rewound(q)
    <2>1. NoCursor \in Cursors /\ \A C : \A c \in C : <<c>> \in Seq(C)
      BY DEF Cursors
    <2>2. <<NoCursor>> \in Seq(Cursors)
      BY <2>1, Zenon
    <2>3. /\ p \in PageRec /\ p.authenticated = page.authenticated /\ p.loading = page.loading
          /\ p.index = 1 /\ p.history = <<NoCursor>> /\ ~p.more
      BY <1>5, <2>1, <2>2 DEF Rewound, PageRec
    <2> HIDE DEF p
    <2>4. PageSound(p)
      <3>1. 2 .. p.index = {} /\ 1 \in 1 .. Len(<<NoCursor>>) /\ p.history[1] = NoCursor
        BY <2>3
      <3>2. QED
        BY <1>2, <2>3, <3>1 DEF PageSound
    <2>5. QED
      BY <1>2, <1>3, <1>5, <2>3, <2>4, ShowStep DEF p
  <1>6. ASSUME NEW filter \in Filters[kind], SetFilter(filter)
        PROVE  ListInv'
    <2>1. filter \in Filter
      BY ListConstants
    <2>2. [page EXCEPT !.filter = filter] \in PageRec
          /\ [page EXCEPT !.filter = filter].authenticated = page.authenticated
          /\ [page EXCEPT !.filter = filter].loading = page.loading
      BY <1>1, <2>1 DEF PageRec
    <2>3. QED
      BY <1>5, <1>6, <2>2 DEF SetFilter
  <1>7. ASSUME NEW size \in Sizes, SetDocumentPageSize(size)
        PROVE  ListInv'
    <2>1. [page EXCEPT !.size = size] \in PageRec
          /\ [page EXCEPT !.size = size].authenticated = page.authenticated
          /\ [page EXCEPT !.size = size].loading = page.loading
      BY <1>1 DEF PageRec
    <2>2. QED
      BY <1>5, <1>7, <2>1 DEF SetDocumentPageSize
  <1>8. QED
    BY <1>4, <1>6, <1>7

(* The next page begins below what the page before shows, and so does      *)
(* everything that is still promised.                                      *)
LEMMA NextPageStep ==
    ASSUME ListInv, GoToNextPage
    PROVE  ListInv'
  <1> USE DEF ListInv
  <1> DEFINE history == Append(SubSeq(page.history, 1, page.index), page.next)
             p == [page EXCEPT !.history = history, !.index = page.index + 1]
  <1>1. /\ page.authenticated /\ page.more /\ Show(p)
        /\ UNCHANGED <<kind, documents, registering, settled, due, seen>>
    BY DEF GoToNextPage, Click, rows
  <1>2. page \in PageRec /\ page.history \in Seq(Cursors) /\ page.index \in Nat /\ page.next \in Cursors
    BY DEF PageTypes, PageRec
  <1>3. /\ page.index \in 1 .. Len(page.history) /\ page.history[1] = NoCursor
        /\ \A i \in 2 .. page.index : page.history[i] # NoCursor
        /\ page.next # NoCursor
    BY <1>1 DEF PageSound
  <1>4. /\ history \in Seq(Cursors) /\ Len(history) = page.index + 1
        /\ \A i \in 1 .. page.index : history[i] = page.history[i]
        /\ history[page.index + 1] = page.next
    BY <1>2, <1>3
  <1> HIDE DEF history
  <1>5. /\ p \in PageRec /\ p.authenticated = page.authenticated /\ p.loading = page.loading
        /\ p.index = page.index + 1 /\ p.history = history /\ p.more = page.more
        /\ p.next = page.next /\ p.search = page.search /\ p.filter = page.filter
    <2> DEFINE index == page.index + 1
    <2>1. index \in Nat
      BY <1>2
    <2> HIDE DEF index
    <2>2. p = [page EXCEPT !.history = history, !.index = index]
      BY DEF index
    <2> HIDE DEF p
    <2>3. /\ p \in PageRec /\ p.authenticated = page.authenticated /\ p.loading = page.loading
          /\ p.index = index /\ p.history = history /\ p.more = page.more
          /\ p.next = page.next /\ p.search = page.search /\ p.filter = page.filter
      BY <1>2, <1>4, <2>1, <2>2 DEF PageRec
    <2>4. QED
      BY <2>3 DEF index
  <1> HIDE DEF p
  <1>6. /\ \A i \in 2 .. p.index : i \in 2 .. page.index \/ i = page.index + 1
        /\ \A i \in 2 .. page.index : p.history[i] = page.history[i]
    <2>1. \A i \in 2 .. p.index : i \in 2 .. page.index \/ i = page.index + 1
      BY <1>2, <1>5
    <2>2. \A i \in 2 .. page.index : i \in 1 .. page.index
      BY <1>2
    <2>3. QED
      BY <1>4, <1>5, <2>1, <2>2
  <1>7. PageSound(p)
    <2>1. p.index \in 1 .. Len(p.history) /\ p.history[1] = NoCursor
      BY <1>2, <1>3, <1>4, <1>5
    <2>2. \A i \in 2 .. page.index : p.history[i] # NoCursor
      BY <1>3, <1>6
    <2>3. p.history[page.index + 1] # NoCursor
      BY <1>3, <1>4, <1>5
    <2>4. QED
      BY <1>1, <1>3, <1>5, <1>6, <2>1, <2>2, <2>3 DEF PageSound
  <1>8. WalkSound(kind, documents, p, due, seen)
    <2>1. Question(p).search = Question(page).search /\ Question(p).filter = Question(page).filter
      BY <1>5 DEF Question
    <2>2. Found(kind, documents, Question(p)) = Found(kind, documents, Question(page))
      BY <2>1, FoundBySearchAndFilter
    <2>3. \A i \in 2 .. page.index : AllBelow(documents, due \ seen, p.history[i])
      BY <1>6 DEF WalkSound
    <2>4. AllBelow(documents, due \ seen, page.next)
      BY <1>1 DEF WalkSound
    <2>5. \A i \in 2 .. p.index : AllBelow(documents, due \ seen, p.history[i])
      BY <1>4, <1>5, <1>6, <2>3, <2>4
    <2>6. QED
      BY <1>1, <1>5, <2>2, <2>4, <2>5 DEF WalkSound
  <1>9. QED
    BY <1>1, <1>5, <1>7, <1>8, ShowStep

(* Going back forgets nothing: the cursors of the pages before are kept.   *)
LEMMA PreviousPageStep ==
    ASSUME ListInv, GoToPreviousPage
    PROVE  ListInv'
  <1> USE DEF ListInv
  <1> DEFINE p == [page EXCEPT !.index = page.index - 1]
  <1>1. /\ page.authenticated /\ page.index > 1 /\ Show(p)
        /\ UNCHANGED <<kind, documents, registering, settled, due, seen>>
    BY DEF GoToPreviousPage, Click, rows
  <1>2. page \in PageRec /\ page.index \in Nat /\ page.history \in Seq(Cursors)
    BY DEF PageTypes, PageRec
  <1>3. page.index - 1 \in Nat
    BY <1>1, <1>2
  <1>4. /\ p \in PageRec /\ p.authenticated = page.authenticated /\ p.loading = page.loading
        /\ p.index = page.index - 1 /\ p.history = page.history /\ p.more = page.more
        /\ p.next = page.next /\ p.search = page.search /\ p.filter = page.filter
    BY <1>2, <1>3 DEF PageRec
  <1> HIDE DEF p
  <1>5. p.index \in 1 .. Len(p.history) /\ \A i \in 2 .. p.index : i \in 2 .. page.index
    <2>1. Len(page.history) \in Nat /\ page.index \in 1 .. Len(page.history)
      BY <1>2 DEF PageSound
    <2>2. QED
      BY <1>1, <1>2, <1>4, <2>1
  <1>6. PageSound(p)
    BY <1>1, <1>4, <1>5 DEF PageSound
  <1>7. Question(p).search = Question(page).search /\ Question(p).filter = Question(page).filter
    BY <1>4 DEF Question
  <1>8. Found(kind, documents, Question(p)) = Found(kind, documents, Question(page))
    BY <1>7, FoundBySearchAndFilter
  <1>9. WalkSound(kind, documents, p, due, seen)
    BY <1>1, <1>4, <1>5, <1>8 DEF WalkSound
  <1>10. QED
    BY <1>1, <1>4, <1>6, <1>9, ShowStep

(* What the page asks for is remembered by a form that is sent.            *)
LEMMA SaveStep ==
    ASSUME ListInv, Save
    PROVE  ListInv'
  <1> USE DEF ListInv
  <1>1. /\ page.authenticated /\ saving' = saving \cup {Question(page)}
        /\ UNCHANGED <<kind, documents, registering, page, sequence, requests, overtaken,
                       settled, due, seen>>
    BY DEF Save, Click, rows
  <1>2. Question(page) \in QuestionRec
    BY QuestionType DEF PageTypes
  <1>3. FormsSound(page, saving', overtaken)
    BY <1>1, <1>2 DEF FormsSound
  <1>4. QED
    BY <1>1, <1>3 DEF PageTypes

(* The load of the time a form was sent may ask for something else than    *)
(* the page shows: the promises of the walk are then not at stake until it *)
(* is answered.                                                            *)
LEMMA ReloadStep ==
    ASSUME ListInv, NEW question \in saving, Reload(question)
    PROVE  ListInv'
  <1> DEFINE asked == [question EXCEPT !.filter = page.filter]
  <1>1. /\ saving' = saving \ {question}
        /\ UNCHANGED <<kind, documents, registering, settled, due, seen>>
    BY DEF Reload, rows, walk
  <1>2. /\ page \in PageRec /\ PageSound(page) /\ WalkSound(kind, documents, page, due', seen')
        /\ page.authenticated /\ question \in QuestionRec /\ saving' \in SUBSET QuestionRec
    BY <1>1 DEF ListInv, PageTypes, FormsSound
  <1>3. CASE Ask(page, asked)
    <2>1. page.filter \in Filter
      BY <1>2 DEF PageRec
    <2>2. asked \in QuestionRec
      BY <1>2, <2>1 DEF QuestionRec
    <2> HIDE DEF asked
    <2>3. QED
      BY <1>1, <1>2, <1>3, <2>2, AskStep
  <1>4. CASE UNCHANGED <<page, sequence, requests, overtaken>>
    <2> USE DEF ListInv
    <2>1. FormsSound(page, saving', overtaken)
      BY <1>1 DEF FormsSound
    <2>2. QED
      BY <1>1, <1>4, <2>1 DEF PageTypes
  <1>5. QED
    BY <1>3, <1>4 DEF Reload

(* A session begins on the first page, where nothing is promised yet.      *)
LEMMA LoginStep ==
    ASSUME ListInv, Login
    PROVE  ListInv'
  <1> DEFINE p == [page EXCEPT !.authenticated = TRUE]
  <1>1. /\ ~page.authenticated /\ Ask(p, Question(p))
        /\ UNCHANGED <<kind, documents, registering, saving, settled, due, seen>>
    BY DEF Login, rows, walk
  <1>2. page \in PageRec /\ PageSound(page) /\ due = {}
    BY <1>1 DEF ListInv, PageTypes, WalkSound
  <1>3. /\ p \in PageRec /\ p.authenticated /\ p.index = page.index /\ p.history = page.history
        /\ p.more = page.more /\ p.next = page.next
    BY <1>2 DEF PageRec
  <1> HIDE DEF p
  <1>4. PageSound(p)
    BY <1>2, <1>3 DEF PageSound
  <1>5. WalkSound(kind, documents, p, due', seen')
    BY <1>1, <1>2, NothingPromised
  <1>6. Question(p) \in QuestionRec /\ saving' \in SUBSET QuestionRec
    BY <1>1, <1>3, <1>4, QuestionType DEF ListInv, FormsSound
  <1>7. QED
    BY <1>1, <1>3, <1>4, <1>5, <1>6, AskStep

(* Nothing that is under way belongs to the page after the logout.         *)
LEMMA LogoutStep ==
    ASSUME ListInv, Logout
    PROVE  ListInv'
  <1> USE DEF ListInv
  <1>1. /\ page' = NewPage(FALSE, DefaultSize, NoFilter) /\ sequence' = sequence + 1
        /\ saving' = {} /\ due' = {}
        /\ UNCHANGED <<kind, documents, registering, requests, overtaken, settled>>
    BY DEF Logout, Click, rows
  <1>2. page \in PageRec /\ sequence \in Nat /\ requests \in SUBSET RequestRec
    BY DEF PageTypes
  <1>3. page' \in PageRec
    <2>1. page' = [authenticated |-> FALSE, filter |-> NoFilter, search |-> "", size |-> DefaultSize,
                   history |-> <<NoCursor>>, index |-> 1, next |-> NoCursor, more |-> FALSE,
                   data |-> {}, loading |-> FALSE]
      BY <1>1 DEF NewPage
    <2>2. "" \in Texts /\ NoCursor \in Cursors
      BY DEF Texts, Cursors
    <2>3. <<NoCursor>> \in Seq(Cursors)
      <3>1. \A C : \A c \in C : <<c>> \in Seq(C)
        OBVIOUS
      <3>2. QED
        BY <2>2, <3>1, Zenon
    <2>4. NoFilter \in Filter /\ DefaultSize \in Sizes
      BY ListConstants DEF NoFilter, Filter, Texts
    <2>5. QED
      BY <2>1, <2>2, <2>3, <2>4 DEF PageRec
  <1>4. /\ page'.index = 1 /\ page'.history = <<NoCursor>> /\ ~page'.more
        /\ ~page'.authenticated /\ ~page'.loading /\ page'.data = {}
    BY <1>1 DEF NewPage
  <1>5. PageSound(page')
    <2>1. 2 .. page'.index = {} /\ 1 \in 1 .. Len(<<NoCursor>>) /\ page'.history[1] = NoCursor
      BY <1>4
    <2>2. QED
      BY <1>4, <2>1 DEF PageSound
  <1>6. WalkSound(kind, documents, page', due', seen')
    BY <1>1, NothingPromised
  <1>7. \A r \in requests : r.number \in Nat /\ r.number <= sequence
    BY <1>2 DEF RequestRec, RequestsSound, NumbersSound
  <1>8. \A r \in requests : r.number <= sequence' /\ r.number # sequence'
    BY <1>1, <1>2, <1>7
  <1>9. RequestsSound(kind, documents, page', requests, sequence', due', seen', overtaken')
    BY <1>8 DEF RequestsSound, NumbersSound
  <1>10. SettledSound(page', settled', overtaken')
    BY <1>4 DEF SettledSound
  <1>11. PageTypes'
    <2>1. sequence' \in Nat /\ requests' \in SUBSET RequestRec
      BY <1>1, <1>2
    <2>2. QED
      BY <1>3, <2>1 DEF PageTypes
  <1>12. FormsSound(page', saving', overtaken')
    BY <1>1 DEF FormsSound
  <1>13. QED
    BY <1>1, <1>5, <1>6, <1>9, <1>10, <1>11, <1>12

-----------------------------------------------------------------------------
(* The answers.                                                            *)

(* What is behind the cursor of a page is on it or below its last          *)
(* document, and nothing that is still promised is before the cursor.      *)
LEMMA RunQueryStep ==
    ASSUME ListInv, NEW r \in requests, RunQuery(r)
    PROVE  ListInv'
  <1> USE DEF ListInv
  <1> DEFINE q == r.question
             answer == GetList(q)
             matching == Found(kind, documents, q)
             new == [r EXCEPT !.answer = answer]
  <1>1. /\ r.answer = NoAnswer /\ requests' = (requests \ {r}) \cup {new}
        /\ UNCHANGED <<kind, documents, registering, page, sequence, saving, overtaken, settled, due, seen>>
    BY DEF RunQuery, rows, forms, walk
  <1>2. r \in RequestRec /\ requests \in SUBSET RequestRec /\ sequence \in Nat
    BY DEF PageTypes
  <1>3. q \in QuestionRec /\ q.cursor \in Cursors
    BY <1>2 DEF RequestRec, QuestionRec
  <1>4. documents \in Table /\ IsFiniteSet(There(documents)) /\ matching \in SUBSET There(documents)
    BY DEF DocsSound, Found
  <1>5. answer = PageOf(matching, q)
    BY Bridges
  <1> HIDE DEF answer
  <1>6. /\ answer \in AnswerRec /\ answer.all = matching
        /\ answer.more => answer.next # NoCursor
        /\ BehindCursor(matching, q.cursor) \ answer.items # {} =>
             /\ answer.more
             /\ AllBelow(documents, BehindCursor(matching, q.cursor) \ answer.items, answer.next)
    <2> HIDE DEF matching, q
    <2>1. QED
      BY <1>3, <1>4, <1>5, PageIsTheTop
  <1>7. /\ new \in RequestRec /\ new.number = r.number /\ new.question = q
        /\ new.answer = answer
    BY <1>2, <1>6 DEF RequestRec
  <1> HIDE DEF new
  <1>8. AnswerSound(kind, documents, new)
    <2>1. q.cursor = NoCursor => BehindCursor(matching, q.cursor) = matching
      BY DEF BehindCursor
    <2> HIDE DEF matching, q
    <2>2. QED
      BY <1>6, <1>7, <2>1 DEF AnswerSound, matching, q
  <1>9. ASSUME new.number = sequence PROVE LatestSound(documents, page, new, due, seen, overtaken)
    <2>1. LatestSound(documents, page, r, due, seen, overtaken)
      BY <1>7, <1>9 DEF RequestsSound
    <2>2. page.authenticated /\ page.loading /\ (~overtaken => q = Question(page))
      BY <2>1 DEF LatestSound
    <2>3. ASSUME ~overtaken, q.cursor # NoCursor, NEW d \in due \ (seen \cup answer.items)
          PROVE  d \in BehindCursor(matching, q.cursor) \ answer.items
      <3>1. page \in PageRec /\ page.index \in Nat /\ page.index \in 1 .. Len(page.history)
        BY DEF PageTypes, PageRec, PageSound
      <3>2. q.cursor = page.history[page.index]
        BY <2>2, <2>3 DEF Question
      <3>3. page.index # 1
        BY <2>3, <3>2 DEF PageSound
      <3>4. page.index \in 2 .. page.index
        BY <3>1, <3>3
      <3>5. AllBelow(documents, due \ seen, q.cursor)
        BY <3>2, <3>4 DEF WalkSound
      <3>6. d \in matching
        BY <2>2, <2>3 DEF WalkSound
      <3>7. Below(Key(d), q.cursor)
        BY <3>5, Bridges DEF AllBelow
      <3>8. QED
        BY <2>3, <3>6, <3>7 DEF BehindCursor
    <2> DEFINE behind == BehindCursor(matching, q.cursor) \ answer.items
               left == due \ (seen \cup answer.items)
    <2>4. ~overtaken /\ q.cursor # NoCursor => left \subseteq behind
      BY <2>3
    <2>5. behind # {} => answer.more /\ AllBelow(documents, behind, answer.next)
      BY <1>6
    <2> HIDE DEF behind
    <2>6. ~overtaken /\ q.cursor # NoCursor /\ left # {} => answer.more /\ AllBelow(documents, left, answer.next)
      BY <2>4, <2>5 DEF AllBelow
    <2>7. QED
      BY <1>7, <2>2, <2>6 DEF LatestSound
  <1>10. NumbersSound(requests', sequence')
    <2>1. NumbersSound(requests, sequence)
      BY DEF RequestsSound
    <2>2. QED
      BY <1>1, <1>7, <2>1 DEF NumbersSound
  <1>11. \A s \in requests' : /\ AnswerSound(kind, documents, s)
                              /\ s.number = sequence => LatestSound(documents, page, s, due, seen, overtaken)
    BY <1>1, <1>8, <1>9 DEF RequestsSound
  <1>12. RequestsSound(kind, documents, page, requests', sequence', due, seen, overtaken)
    BY <1>1, <1>10, <1>11 DEF RequestsSound
  <1>13. PageTypes'
    BY <1>1, <1>2, <1>7 DEF PageTypes
  <1>14. QED
    BY <1>1, <1>12, <1>13

(* The callbacks of the latest request are the only ones that run: the     *)
(* page is then settled.                                                   *)
LEMMA PageSettles ==
    ASSUME ListInv, NEW r \in requests, r.number = sequence, requests' = requests \ {r},
           UNCHANGED <<kind, documents, registering, sequence, saving, overtaken>>,
           page' \in PageRec, PageSound(page'), page'.authenticated = page.authenticated,
           overtaken \/ settled' = Question(page'),
           WalkSound(kind, documents, page', due', seen')
    PROVE  ListInv'
  <1> USE DEF ListInv
  <1>1. requests' \subseteq requests /\ \A s \in requests' : s.number # sequence
    BY DEF RequestsSound, NumbersSound
  <1>2. RequestsSound(kind, documents, page', requests', sequence, due', seen', overtaken')
    BY <1>1 DEF RequestsSound, NumbersSound
  <1>3. SettledSound(page', settled', overtaken')
    BY DEF SettledSound
  <1>4. PageTypes'
    BY <1>1 DEF PageTypes
  <1>5. FormsSound(page', saving', overtaken')
    BY DEF FormsSound
  <1>6. QED
    BY <1>2, <1>3, <1>4, <1>5

(* The callbacks of an earlier request do not run.                         *)
LEMMA OvertakenStep ==
    ASSUME ListInv, requests' \subseteq requests,
           UNCHANGED <<kind, documents, registering, page, sequence, saving, overtaken, settled, due, seen>>
    PROVE  ListInv'
  <1> USE DEF ListInv
  <1>1. RequestsSound(kind, documents, page, requests', sequence, due, seen, overtaken)
    BY DEF RequestsSound, NumbersSound
  <1>2. PageTypes'
    BY DEF PageTypes
  <1>3. QED
    BY <1>1, <1>2

(* The first page begins a walk with all that matches, a further page      *)
(* shows the next of what is promised.                                     *)
LEMMA AnswerStep ==
    ASSUME ListInv, NEW r \in requests, Answer(r)
    PROVE  ListInv'
  <1>1. CASE ~MayUpdate(r)
    <2>1. UNCHANGED <<kind, documents, registering, page, sequence, saving, overtaken, settled, due, seen>>
          /\ requests' \subseteq requests
      BY <1>1 DEF Answer, rows, forms, walk
    <2>2. QED
      BY <2>1, OvertakenStep
  <1>2. CASE MayUpdate(r)
    <2> USE DEF ListInv
    <2>1. /\ r.answer # NoAnswer /\ r.number = sequence /\ requests' = requests \ {r}
          /\ page' = [page EXCEPT !.data = r.answer.items, !.more = r.answer.more,
                                  !.next = r.answer.next, !.loading = FALSE]
          /\ settled' = r.question
          /\ overtaken => due' = {}
          /\ ~overtaken /\ r.question.cursor = NoCursor =>
               due' = r.answer.all /\ seen' = r.answer.items
          /\ ~overtaken /\ r.question.cursor # NoCursor =>
               due' = due /\ seen' = seen \cup r.answer.items
          /\ UNCHANGED <<kind, documents, registering, sequence, saving, overtaken>>
      BY <1>2 DEF Answer, MayUpdate, OnSuccess, rows, forms
    <2>2. page \in PageRec /\ r \in RequestRec /\ r.answer \in AnswerRec
      BY <2>1 DEF PageTypes, RequestRec
    <2>3. /\ page' \in PageRec /\ page'.authenticated = page.authenticated /\ ~page'.loading
          /\ page'.index = page.index /\ page'.history = page.history
          /\ page'.more = r.answer.more /\ page'.next = r.answer.next
          /\ page'.filter = page.filter /\ page'.search = page.search /\ page'.size = page.size
      <3>1. /\ r.answer.items \in SUBSET Documents /\ r.answer.more \in BOOLEAN
            /\ r.answer.next \in Cursors
        BY <2>2 DEF AnswerRec
      <3>2. QED
        BY <2>1, <2>2, <3>1 DEF PageRec
    <2>4. /\ page.authenticated
          /\ ~overtaken => r.question = Question(page)
          /\ ~overtaken /\ r.question.cursor # NoCursor =>
               LET left == due \ (seen \cup r.answer.items)
               IN  left # {} => r.answer.more /\ AllBelow(documents, left, r.answer.next)
      BY <2>1 DEF RequestsSound, LatestSound
    <2>5. AnswerSound(kind, documents, r)
      BY DEF RequestsSound
    <2>6. /\ Question(page') = Question(page)
          /\ ~overtaken => r.question.cursor = page.history[page.index]
      BY <2>3, <2>4 DEF Question
    <2>7. PageSound(page')
      BY <2>1, <2>3, <2>4, <2>5 DEF PageSound, AnswerSound
    <2>8. WalkSound(kind, documents, page', due', seen')
      <3>1. CASE ~overtaken /\ r.question.cursor = NoCursor
        <4> DEFINE left == r.answer.all \ r.answer.items
        <4>1. due' \ seen' = left /\ due' = r.answer.all /\ seen' = r.answer.items
          BY <2>1, <3>1
        <4>2. /\ r.answer.all \subseteq Found(kind, documents, r.question)
              /\ left # {} => r.answer.more /\ AllBelow(documents, left, r.answer.next)
          BY <2>1, <2>5, <3>1 DEF AnswerSound
        <4>3. page.index = 1
          <5>1. page.index \in Nat /\ page.index \in 1 .. Len(page.history)
            BY <2>2 DEF PageRec, PageSound
          <5>2. page.index \notin 2 .. page.index
            BY <2>6, <3>1 DEF PageSound
          <5>3. QED
            BY <5>1, <5>2
        <4>4. 2 .. page'.index = {}
          BY <2>3, <4>3
        <4>5. left = {} => AllBelow(documents, left, r.answer.next) /\ due' \subseteq seen'
          BY <4>1 DEF AllBelow
        <4> HIDE DEF left
        <4>6. QED
          BY <2>3, <2>4, <2>6, <3>1, <4>1, <4>2, <4>4, <4>5 DEF WalkSound
      <3>2. CASE ~overtaken /\ r.question.cursor # NoCursor
        <4> DEFINE left == due \ (seen \cup r.answer.items)
        <4>1. due' \ seen' = left /\ due' = due /\ left \subseteq due \ seen
          BY <2>1, <3>2
        <4>2. left # {} => r.answer.more /\ AllBelow(documents, left, r.answer.next)
          BY <2>4, <3>2
        <4>3. left = {} => AllBelow(documents, left, r.answer.next) /\ due' \subseteq seen'
          BY <4>1 DEF AllBelow
        <4>4. \A i \in 2 .. page.index : AllBelow(documents, left, page.history[i])
          BY <4>1 DEF WalkSound, AllBelow
        <4>5. due \subseteq Found(kind, documents, Question(page))
          BY DEF WalkSound
        <4> HIDE DEF left
        <4>6. QED
          BY <2>3, <2>4, <2>6, <3>2, <4>1, <4>2, <4>3, <4>4, <4>5 DEF WalkSound
      <3>3. CASE overtaken
        BY <2>1, <3>3, NothingPromised
      <3>4. QED
        BY <3>1, <3>2, <3>3
    <2>9. overtaken \/ settled' = Question(page')
      BY <2>1, <2>4, <2>6
    <2> HIDE DEF ListInv
    <2>10. QED
      BY <2>1, <2>3, <2>7, <2>8, <2>9, PageSettles
  <1>3. QED
    BY <1>1, <1>2

(* A failure leaves the promises as they are: there is still more.         *)
LEMMA FailStep ==
    ASSUME ListInv, NEW r \in requests, Fail(r)
    PROVE  ListInv'
  <1>1. CASE ~MayUpdate(r)
    <2>1. UNCHANGED <<kind, documents, registering, page, sequence, saving, overtaken, settled, due, seen>>
          /\ requests' \subseteq requests
      BY <1>1 DEF Fail, rows, forms
    <2>2. QED
      BY <2>1, OvertakenStep
  <1>2. CASE MayUpdate(r)
    <2> USE DEF ListInv
    <2>1. /\ r.number = sequence /\ requests' = requests \ {r}
          /\ page' = [page EXCEPT !.loading = FALSE] /\ settled' = r.question
          /\ UNCHANGED <<kind, documents, registering, sequence, saving, overtaken, due, seen>>
      BY <1>2 DEF Fail, MayUpdate, rows, forms
    <2>2. page \in PageRec
      BY DEF PageTypes
    <2>3. /\ page' \in PageRec /\ page'.authenticated = page.authenticated /\ ~page'.loading
          /\ page'.index = page.index /\ page'.history = page.history
          /\ page'.more = page.more /\ page'.next = page.next /\ page'.data = page.data
          /\ page'.filter = page.filter /\ page'.search = page.search /\ page'.size = page.size
      BY <2>1, <2>2 DEF PageRec
    <2>4. overtaken \/ r.question = Question(page)
      BY <2>1 DEF RequestsSound, LatestSound
    <2>5. Question(page') = Question(page)
      BY <2>3 DEF Question
    <2>6. PageSound(page')
      BY <2>3 DEF PageSound
    <2>7. WalkSound(kind, documents, page', due', seen')
      BY <2>1, <2>3, <2>5 DEF WalkSound
    <2>8. overtaken \/ settled' = Question(page')
      BY <2>1, <2>4, <2>5
    <2> HIDE DEF ListInv
    <2>9. QED
      BY <2>1, <2>3, <2>6, <2>7, <2>8, PageSettles
  <1>3. QED
    BY <1>1, <1>2

(* Every step keeps the invariant.                                         *)
LEMMA NextListInv == ListInv /\ [ListNext]_listVars => ListInv'
  <1> SUFFICES ASSUME ListInv, [ListNext]_listVars PROVE ListInv'
    OBVIOUS
  <1>1. CASE UNCHANGED listVars
    BY <1>1, OvertakenStep DEF listVars, rows, forms, walk
  <1>2. CASE \E d \in Documents, form \in Forms[kind] :
               \/ \E now \in 1 .. MaxClock : BeginRegistration(d, form, now)
               \/ UpdateIncoming(d, form) \/ UpdateOutgoing(d, form)
               \/ UpdateAppeal(d, form) \/ UpdateOrder(d, form)
    <2>1. PICK d \in Documents, form \in Forms[kind] :
               \/ \E now \in 1 .. MaxClock : BeginRegistration(d, form, now)
               \/ UpdateIncoming(d, form) \/ UpdateOutgoing(d, form)
               \/ UpdateAppeal(d, form) \/ UpdateOrder(d, form)
      BY <1>2
    <2>2. CASE \E now \in 1 .. MaxClock : BeginRegistration(d, form, now)
      BY <2>2, RegistrationStep
    <2>3. CASE Update(d, form)
      BY <2>3, UpdateStep
    <2>4. QED
      BY <2>1, <2>2, <2>3 DEF UpdateIncoming, UpdateOutgoing, UpdateAppeal, UpdateOrder
  <1>3. CASE \E d \in Documents : CommitRegistration(d) \/ RollbackRegistration(d)
    <2>1. FirstForm[kind] \in Forms[kind]
      BY ListConstants DEF ListInv
    <2>2. QED
      BY <1>3, <2>1, CommitRegistrationStep, RegistrationStep
  <1>4. CASE \/ \E text \in Searches : SetSearch(text)
             \/ \E filter \in Filters[kind] : SetFilter(filter)
             \/ \E size \in Sizes : SetDocumentPageSize(size)
    BY <1>4, QueryStep
  <1>5. CASE \/ GoToNextPage \/ GoToPreviousPage \/ Save \/ Login \/ Logout
             \/ \E question \in saving : Reload(question)
    BY <1>5, NextPageStep, PreviousPageStep, SaveStep, ReloadStep, LoginStep, LogoutStep
  <1>6. CASE \E r \in requests : RunQuery(r) \/ Answer(r) \/ Fail(r)
    BY <1>6, RunQueryStep, AnswerStep, FailStep
  <1>7. QED
    BY <1>1, <1>2, <1>3, <1>4, <1>5, <1>6 DEF ListNext

(* Every list keeps the invariant: what is still promised lies below every *)
(* cursor of the walk.                                                     *)
THEOREM ListsCorrect == ListSpec => []ListInv
  <1>1. QED
    BY InitListInv, NextListInv, PTL DEF ListSpec

(* Whoever reaches the last page of a list has seen every document that    *)
(* was there when the walk began and still matches, whatever was           *)
(* registered, edited, overtaken or failed meanwhile.                      *)
THEOREM WalksSkipNothing == ListSpec => []NothingIsSkipped
  <1>1. ListInv => NothingIsSkipped
    BY DEF ListInv, WalkSound, NothingIsSkipped
  <1>2. QED
    BY <1>1, ListsCorrect, PTL

(* A page that is not loading has been answered what it asks for now,      *)
(* unless the load of a form that was sent over something else came last,  *)
(* and shows nothing without a session.                                    *)
THEOREM PagesShowWhatTheyAsk == ListSpec => []SettledIsCurrent
  <1>1. ListInv => SettledIsCurrent
    BY DEF ListInv, PageSound, SettledSound, SettledIsCurrent
  <1>2. QED
    BY <1>1, ListsCorrect, PTL
=============================================================================
