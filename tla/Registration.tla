---------------------------- MODULE Registration ----------------------------
(***************************************************************************)
(* Registration of documents: the numbering counters of the nomenclature,  *)
(* the idempotency of a repeated registration, and the two administrative  *)
(* overrides, the insertion with a shift of the later numbers and the      *)
(* literal number.                                                         *)
(*                                                                         *)
(* internal/repository/document_registration.go, the create methods of the *)
(* document repositories and the updates that write a number or a date,    *)
(* internal/repository/nomenclature_repo.go.                               *)
(*                                                                         *)
(* A registration is one transaction at READ COMMITTED.  Its first         *)
(* statement looks for the idempotency key without a lock; its second one  *)
(* locks the nomenclature row, and everything that follows is ordered by   *)
(* that lock.  So the look-up is a step of its own here, and the rest of   *)
(* the transaction is the other one.  The edit of an appeal or an order    *)
(* does not take that lock; it writes one row, which an insertion that     *)
(* moves the row locks too, and the unique index orders it with the rest.  *)
(***************************************************************************)
EXTENDS Naturals, Sequences, FiniteSets

CONSTANTS Clients,   \* registration requests in flight at one time
          Keys,      \* idempotency keys, created_by included
          Kinds,     \* document kinds
          Appeals,   \* those whose number and date are edited: citizen appeals
          Orders,    \* those whose date is edited: administrative orders
          Noms,      \* nomenclature items
          Years,     \* years of registration dates and of nomenclature
          Modes,     \* numbering modes in use
          Prefixes,  \* index followed by the separator
          Suffixes,  \* letters after the number
          NoText,    \* the empty string
          Starts,    \* numbers a nomenclature may start with
          Asked,     \* numbers typed by users and administrators
          MaxDocs,   \* bound: documents registered
          MaxNumber, \* bound: counters
          EditBound  \* bound: edits and deletions of items

ASSUME RegistrationAssumption ==
    /\ Appeals \subseteq Kinds /\ Orders \subseteq Kinds
    /\ Kinds # {} /\ Years # {} /\ Modes # {} /\ Prefixes # {}
    /\ Modes \subseteq {"index_and_number", "number_only", "manual_only"}
    /\ NoText \notin Prefixes \union Suffixes
    /\ Starts \subseteq Nat \ {0}
    /\ Asked \subseteq Nat \ {0}
    /\ MaxDocs \in Nat /\ MaxNumber \in Nat /\ EditBound \in Nat

VARIABLES docs,    \* documents, in the order of their registration
          nom,     \* the nomenclature table
          hist,    \* per item: what its numbering has been through
          req,     \* the requests that have looked for their key
          answers, \* per key and kind, the documents given as the answer
          edits    \* edits and deletions of items so far

vars == <<docs, nom, hist, req, answers, edits>>

-----------------------------------------------------------------------------
(* Registration numbers.  A number is text: a prefix, a decimal number and *)
(* letters, any of which may be missing.  Users type decimal numbers in    *)
(* their usual form, so two texts differ when their parts do.              *)
RegNumber == [prefix : Prefixes \union {NoText}, n : Nat,
              suffix : Suffixes \union {NoText}]

EmptyNumber == [prefix |-> NoText, n |-> 0, suffix |-> NoText]

Item == [exists : BOOLEAN, kind : Kinds, year : Years, mode : Modes,
         prefix : Prefixes, next : Nat, active : BOOLEAN]

NoItem == [exists |-> FALSE, kind |-> CHOOSE k \in Kinds : TRUE,
           year |-> CHOOSE y \in Years : TRUE, mode |-> CHOOSE m \in Modes : TRUE,
           prefix |-> CHOOSE p \in Prefixes : TRUE, next |-> 0, active |-> FALSE]

PrefixOf(s) == IF s.mode = "index_and_number" THEN s.prefix ELSE NoText

(* formatDocumentNumberWithSuffix                                          *)
FormatWithSuffix(s, n, x) == [prefix |-> PrefixOf(s), n |-> n, suffix |-> x]

(* formatDocumentNumber: the empty text in the manual mode.                *)
Format(s, n) ==
    IF s.mode = "manual_only" THEN EmptyNumber ELSE FormatWithSuffix(s, n, NoText)

(* parseFormattedDocumentNumber: 0 stands for "not a plain number".        *)
Parse(s, number) ==
    IF number.prefix = PrefixOf(s) /\ number.suffix = NoText THEN number.n ELSE 0

-----------------------------------------------------------------------------
(* typed is history, for the properties: the number was typed by somebody, *)
(* it is neither the counter's nor an insertion's.                         *)
Doc == [key : Keys, kind : Kinds, nom : Noms, year : Years, number : RegNumber,
        typed : BOOLEAN]

(* Numbers typed by hand: any text.                                        *)
Typed == [prefix : Prefixes \union {NoText}, n : Asked, suffix : Suffixes \union {NoText}]

(* What a client asks for, with the number typed by hand or that of the    *)
(* administrator's override.  An insertion has no letters; a literal       *)
(* number need not have any either (only the form asks for them), and is   *)
(* then a plain number, as it is with digits for letters.  A number typed  *)
(* for an automatic mode is ignored.                                       *)
Request ==
    {r \in [key : Keys, kind : Kinds, nom : Noms, year : Years,
            form : {"plain", "insert_shift", "literal"},
            prefix : Prefixes \union {NoText}, n : Asked \union {0},
            suffix : Suffixes \union {NoText}] :
        /\ r.form = "insert_shift" => r.suffix = NoText
        /\ r.form # "plain" => r.n >= 1 /\ r.prefix = NoText
        /\ r.n = 0 => r.prefix = NoText /\ r.suffix = NoText
        /\ r.form = "plain" /\ "manual_only" \notin Modes => r.n = 0}

NoRequest == [form |-> "none"]

Ids == 1..Len(docs)

(* Mutant: no index on the idempotency keys.                               *)
NoKeyIndex(kind, key) == {}

(* idx_documents_created_by_kind_idempotency                               *)
WithKey(kind, key) == {i \in Ids : docs[i].kind = kind /\ docs[i].key = key}

(* idx_documents_kind_registration_number_year: the documents that hold a  *)
(* number.                                                                 *)
Holders(kind, number, year) ==
    {i \in Ids : docs[i].kind = kind /\ docs[i].number = number /\ docs[i].year = year}

Init ==
    /\ docs = <<>>
    /\ nom = [m \in Noms |-> NoItem]
    /\ hist = [m \in Noms |-> [start |-> 0, holes |-> {}, irregular |-> FALSE]]
    /\ req = [c \in Clients |-> NoRequest]
    /\ answers = [q \in Keys \X Kinds |-> {}]
    /\ edits = 0

-----------------------------------------------------------------------------
(* The first statement of a registration.                                  *)

(* The request is answered: with a document, or with none.                 *)
Give(r, i) == answers' = [answers EXCEPT ![<<r.key, r.kind>>] = @ \union {i}]
Done(c) == req' = [req EXCEPT ![c] = NoRequest]

(* A registration starts: a document with the idempotency key is returned  *)
(* as it is.                                                               *)
Look(c, r) ==
    /\ req[c] = NoRequest
    /\ \/ /\ WithKey(r.kind, r.key) = {}
          /\ req' = [req EXCEPT ![c] = r]
          /\ UNCHANGED answers
       \/ /\ \E i \in WithKey(r.kind, r.key) : Give(r, i)
          /\ UNCHANGED req
    /\ UNCHANGED <<docs, nom, hist, edits>>

-----------------------------------------------------------------------------
(* The rest of the transaction, under the lock of the nomenclature row.    *)

(* A registration that the code refuses with an error before it writes.    *)
Refused(r) ==
    LET s == nom[r.nom] IN
    \/ ~s.exists
    \/ s.kind # r.kind
    \/ r.form # "plain" /\ ~s.active
    \/ r.form = "plain" /\ s.mode = "manual_only" /\ r.n = 0

(* The number the document gets, and the counter afterwards.               *)
NewNumber(r) ==
    LET s == nom[r.nom] IN
    CASE r.form # "plain" -> FormatWithSuffix(s, r.n, r.suffix)
      [] r.form = "plain" /\ s.mode = "manual_only" ->
           [prefix |-> r.prefix, n |-> r.n, suffix |-> r.suffix]
      [] OTHER -> Format(s, s.next)

(* Mutant: an insertion below the counter forgets that the last number     *)
(* moved up.                                                               *)
NextNumberUnmoved(r) ==
    LET s == nom[r.nom] IN
    CASE r.form = "insert_shift" -> IF r.n >= s.next THEN r.n + 1 ELSE s.next
      [] r.form = "plain" /\ s.mode # "manual_only" -> s.next + 1
      [] OTHER -> s.next

NextNumber(r) ==
    LET s == nom[r.nom] IN
    CASE r.form = "insert_shift" -> IF r.n >= s.next THEN r.n + 1 ELSE s.next + 1
      [] r.form = "plain" /\ s.mode # "manual_only" -> s.next + 1
      [] OTHER -> s.next

(* The documents an insertion moves: those of the item that are dated in   *)
(* the item's own year and have a plain number from r.n on.                *)
ToShift(r) ==
    LET s == nom[r.nom] IN
    IF r.form # "insert_shift" THEN {}
    ELSE {i \in Ids : /\ docs[i].kind = r.kind
                      /\ docs[i].nom = r.nom
                      /\ docs[i].year = s.year
                      /\ Parse(s, docs[i].number) >= r.n}

MovedNumber(r, i) == Format(nom[r.nom], Parse(nom[r.nom], docs[i].number) + 1)

(* The documents an insertion runs into.  It moves them one by one from    *)
(* the highest number down, and the unique index is checked for each: a    *)
(* number in the way is one that is not itself moved before.               *)
InTheWay(r) ==
    {j \in Ids : \E i \in ToShift(r) \ {j} :
        IF j \in ToShift(r) THEN MovedNumber(r, j) = MovedNumber(r, i)
        ELSE j \in Holders(r.kind, MovedNumber(r, i), docs[i].year)}

(* The documents that stay where they are and hold the new number.         *)
NumberTaken(r) == Holders(r.kind, NewNumber(r), r.year) \ ToShift(r)

Obstacles(r) == InTheWay(r) \union NumberTaken(r)

Collides(r) == Obstacles(r) # {}

Shifted(r) == [i \in Ids |-> IF i \in ToShift(r)
                             THEN [docs[i] EXCEPT !.number = MovedNumber(r, i)]
                             ELSE docs[i]]

NewDoc(r) == [key |-> r.key, kind |-> r.kind, nom |-> r.nom, year |-> r.year,
              number |-> NewNumber(r),
              typed |-> r.form = "literal" \/
                        (r.form = "plain" /\ nom[r.nom].mode = "manual_only")]

(* History, for the properties: the first number of the item's range (an   *)
(* insertion below it moves the whole range up), and the numbers that an   *)
(* administrator jumped over or that the edit of an appeal wrote over.     *)
FirstNumber(r) ==
    LET h == hist[r.nom] IN
    IF r.form = "insert_shift" /\ r.n < h.start THEN h.start + 1 ELSE h.start

JumpsOver(r) ==
    LET s == nom[r.nom]
        h == hist[r.nom].holes IN
    IF r.form # "insert_shift" THEN h
    ELSE IF r.n >= s.next THEN h \union (s.next .. (r.n - 1))
    ELSE {x \in h : x < r.n} \union {x + 1 : x \in {y \in h : y >= r.n}}

(* An insertion that cannot do its work: it leaves behind numbers that are *)
(* dated in another year or no longer look like the item's, or it empties  *)
(* those it moves, as it does in the manual mode.  From here on the        *)
(* counter cannot vouch for the item's numbers.                            *)
LeavesBehind(r) ==
    /\ r.form = "insert_shift"
    /\ \/ nom[r.nom].mode = "manual_only"
       \/ \E i \in Ids \ ToShift(r) :
            docs[i].nom = r.nom /\ ~docs[i].typed /\ docs[i].number.n >= r.n

Waiting(c) == req[c] # NoRequest

Refuse(c) ==
    /\ Waiting(c)
    /\ Refused(req[c])
    /\ Done(c)
    /\ UNCHANGED <<docs, nom, hist, answers, edits>>

(* Mutant: the counter is advanced in a transaction of its own, as         *)
(* GetNextNumber of nomenclature_repo.go does.                             *)
ConflictAdvances(c) ==
    /\ Waiting(c)
    /\ ~Refused(req[c]) /\ Collides(req[c])
    /\ Done(c)
    /\ nom' = [nom EXCEPT ![req[c].nom].next = NextNumber(req[c])]
    /\ UNCHANGED <<docs, hist, answers, edits>>

(* A unique index refuses a number: the transaction rolls back, counter    *)
(* and shift included.  The index on the numbers was created first and is  *)
(* checked first.                                                          *)
Conflict(c) ==
    /\ Waiting(c)
    /\ ~Refused(req[c]) /\ Collides(req[c])
    /\ Done(c)
    /\ UNCHANGED <<docs, nom, hist, answers, edits>>

(* The index on the idempotency keys refuses the insert: rolled back too,  *)
(* and the document of the other request is returned.                      *)
Repeated(c) ==
    /\ Waiting(c)
    /\ ~Refused(req[c]) /\ ~Collides(req[c])
    /\ \E i \in WithKey(req[c].kind, req[c].key) : Give(req[c], i)
    /\ Done(c)
    /\ UNCHANGED <<docs, nom, hist, edits>>

Register(c) ==
    LET r == req[c] IN
    /\ Waiting(c)
    /\ ~Refused(r) /\ ~Collides(r)
    /\ WithKey(r.kind, r.key) = {}
    /\ Len(docs) < MaxDocs /\ NextNumber(r) <= MaxNumber
    /\ docs' = Append(Shifted(r), NewDoc(r))
    /\ nom' = [nom EXCEPT ![r.nom] = [@ EXCEPT !.next = NextNumber(r)]]
    /\ hist' = [hist EXCEPT ![r.nom] = [start |-> FirstNumber(r), holes |-> JumpsOver(r),
                                        irregular |-> @.irregular \/ LeavesBehind(r)]]
    /\ Give(r, Len(docs) + 1)
    /\ Done(c)
    /\ UNCHANGED edits

(* The connection or the program fails: the transaction rolls back.  (A    *)
(* commit whose answer is lost is Register, and the client asks again.)    *)
Abort(c) ==
    /\ Waiting(c)
    /\ Done(c)
    /\ UNCHANGED <<docs, nom, hist, answers, edits>>

-----------------------------------------------------------------------------
(* The nomenclature, edited by administrators.                             *)

(* UNIQUE (index, year, kind_code)                                         *)
Unique(m, s) ==
    \A o \in Noms \ {m} : nom[o].exists =>
        <<nom[o].prefix, nom[o].year, nom[o].kind>> # <<s.prefix, s.year, s.kind>>

CreateItem(m, s, start) ==
    /\ ~nom[m].exists /\ Unique(m, s)
    /\ nom' = [nom EXCEPT ![m] = [s EXCEPT !.exists = TRUE, !.next = start, !.active = TRUE]]
    /\ hist' = [hist EXCEPT ![m] = [start |-> start, holes |-> {}, irregular |-> FALSE]]
    /\ UNCHANGED <<docs, req, answers, edits>>

(* Everything but the counter may be edited, whatever is registered.       *)
Edited(m, s) == [s EXCEPT !.exists = TRUE, !.next = nom[m].next]

UpdateItem(m, s) ==
    /\ nom[m].exists /\ edits < EditBound /\ Unique(m, s)
    /\ nom' = [nom EXCEPT ![m] = Edited(m, s)]
    /\ edits' = edits + 1
    /\ UNCHANGED <<docs, hist, req, answers>>

(* documents.nomenclature_id keeps an item with documents.                 *)
DeleteItem(m) ==
    /\ nom[m].exists /\ edits < EditBound
    /\ \A i \in Ids : docs[i].nom # m
    /\ nom' = [nom EXCEPT ![m] = NoItem]
    /\ edits' = edits + 1
    /\ UNCHANGED <<docs, hist, req, answers>>

-----------------------------------------------------------------------------
(* The edits that write a registered number or date.  Neither looks at the *)
(* nomenclature item or takes its lock; an edit that the unique index      *)
(* refuses changes nothing.                                                *)

Free(i, number, year) == Holders(docs[i].kind, number, year) \subseteq {i}

(* The number of an appeal and its date are written as they were typed.    *)
EditAppeal(i, number, year) ==
    LET d == docs[i]
        new == number # d.number IN
    /\ d.kind \in Appeals /\ Free(i, number, year)
    /\ docs' = [docs EXCEPT ![i] = [d EXCEPT !.number = number, !.year = year,
                                             !.typed = @ \/ new]]
    /\ hist' = [hist EXCEPT ![d.nom].holes =
                   IF new /\ ~d.typed THEN @ \union {d.number.n} ELSE @]
    /\ UNCHANGED <<nom, req, answers, edits>>

(* The date of an order.                                                   *)
EditOrder(i, year) ==
    /\ docs[i].kind \in Orders /\ Free(i, docs[i].number, year)
    /\ docs' = [docs EXCEPT ![i].year = year]
    /\ UNCHANGED <<nom, hist, req, answers, edits>>

-----------------------------------------------------------------------------
Next ==
    \/ \E c \in Clients :
         \/ \E r \in Request : Look(c, r)
         \/ Refuse(c) \/ Conflict(c) \/ Repeated(c) \/ Register(c) \/ Abort(c)
    \/ \E m \in Noms :
         \/ \E s \in [exists : {FALSE}, kind : Kinds, year : Years, mode : Modes,
                      prefix : Prefixes, next : {0}, active : BOOLEAN] :
              \/ s.active /\ \E start \in Starts : CreateItem(m, s, start)
              \/ UpdateItem(m, s)
         \/ DeleteItem(m)
    \/ \E i \in Ids, year \in Years :
         \/ \E number \in Typed \union {docs[i].number} : EditAppeal(i, number, year)
         \/ EditOrder(i, year)

Spec == Init /\ [][Next]_vars

-----------------------------------------------------------------------------
(* Properties.                                                             *)

(* Types, and every answer is a document of the key it was asked with.     *)
TypeOK ==
    /\ docs \in Seq(Doc)
    /\ nom \in [Noms -> Item]
    /\ hist \in [Noms -> [start : Nat, holes : SUBSET Nat, irregular : BOOLEAN]]
    /\ req \in [Clients -> Request \union {NoRequest}]
    /\ answers \in [Keys \X Kinds -> SUBSET Ids]
    /\ edits \in 0..EditBound
    /\ \A k \in Keys, d \in Kinds : answers[<<k, d>>] \subseteq WithKey(d, k)

(* The item has a number that its counter or an insertion gave out.        *)
Holds(m, n) ==
    \E i \in Ids : docs[i].nom = m /\ ~docs[i].typed /\ docs[i].number.n = n

Regular(m) == nom[m].exists /\ ~hist[m].irregular

(* "Automatic numbering strictly without gaps" (tech_docs.md:324), as far  *)
(* as it goes: through races, refused and repeated requests, aborted       *)
(* transactions, insertions, edits of the item and of its documents, every *)
(* number from the start to the counter is that of a document the counter  *)
(* or an insertion gave it to.  Excepted are the numbers an administrator  *)
(* jumped over, those the edit of an appeal wrote over (the code lets it,  *)
(* against that line), and items where an insertion left numbers behind.   *)
NoGaps ==
    \A m \in Noms : Regular(m) =>
        \A n \in hist[m].start .. (nom[m].next - 1) : n \in hist[m].holes \/ Holds(m, n)

(* The counter is ahead of all it gave out, in every item and year.        *)
BelowCounter ==
    \A i \in Ids : ~docs[i].typed => docs[i].number.n < nom[docs[i].nom].next

(* The numbers of an item do not block its own counter.  (A counter that   *)
(* meets a taken number stays there for ever, because the transaction that *)
(* would advance it rolls back.)  Whatever an automatic registration finds *)
(* in its way belongs to another item or was typed by a person: a literal  *)
(* number without letters, one of the manual mode, an edited appeal.       *)
(* Whatever an insertion finds in its way belongs to another item or is    *)
(* dated in another year than the item's.                                  *)
NeverBlocksItself ==
    \A c \in Clients :
        LET r == req[c] IN
        Waiting(c) /\ ~Refused(r) /\ nom[r.nom].mode # "manual_only" =>
            \A j \in Obstacles(r) :
                \/ r.form = "literal"
                \/ docs[j].nom # r.nom
                \/ r.form = "plain" /\ docs[j].typed
                \/ r.form = "insert_shift" /\ docs[j].year # nom[r.nom].year

(* A repeated request is given the document of the first one, whichever    *)
(* order the two run in: all answers to a key name one document.           *)
SameRequestSameDocument ==
    \A q \in Keys \X Kinds : \A i, j \in answers[q] : i = j
=============================================================================
