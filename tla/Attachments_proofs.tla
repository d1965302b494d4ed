-------------------------- MODULE Attachments_proofs --------------------------
(***************************************************************************)
(* Proofs about the files of documents and about who may read documents at *)
(* all: of Attachments, for any number of files, users, workers,           *)
(* refreshes, faults and requeues; of DocumentAccess, for any number of    *)
(* users, departments, documents and kinds.  The two modules share no name *)
(* and no state.                                                           *)
(***************************************************************************)
EXTENDS Attachments, DocumentAccess, FiniteSetTheorems, TLAPS

USE AttachmentsAssumption

Uploading(c) == ops[c].at \in {"put", "row", "undo"}
Safe == acked \union OldFiles

(* The strengthening.  An upload has one file, of its own, without a row    *)
(* until it commits, and not answered for.  What is being deleted has, or   *)
(* had, a row; an event and a delivery are about a row that is hidden       *)
(* already; a delivery that goes on to the row has removed the object.      *)
Types ==
    /\ rows \in [Files -> {"none", "live", "deleting", "gone"}]
    /\ objects \subseteq Files
    /\ events \in [Files -> {"none", "pending", "failed", "done"}]
    /\ journal \in [Files -> Clients \union {Nobody}]
    /\ audit \in [user : Clients \union {Nobody}, count : Nat]
    /\ ops \in [Clients -> Op]
    /\ work \in [Workers -> Work]
    /\ scans \in [Scanners -> Scan]
    /\ lease \in Scanners \union {Nobody}
    /\ total \in Nat
    /\ acked \subseteq Files
    /\ counted \in BOOLEAN
    /\ faults \in 0..FaultBound /\ requeues \in 0..RequeueBound
Uploads ==
    /\ \A c \in Clients : Uploading(c) =>
        /\ \E f \in Files : ops[c].files = {f}
        /\ ops[c].files \intersect Safe = {}
        /\ ops[c].at # "undo" => \A f \in ops[c].files : rows[f] = "none"
        /\ ops[c].at = "row" => ops[c].files \subseteq objects
    /\ \A c, d \in Clients : Uploading(c) /\ Uploading(d) /\ c # d =>
        ops[c].files \intersect ops[d].files = {}
Hiding ==
    \A c \in Clients : ops[c].at \in {"delete", "bulk"} => \A f \in ops[c].files : rows[f] # "none"
Kept == \A f \in Safe : rows[f] # "none"
Hidden(f) == rows[f] \in {"deleting", "gone"}
Events == \A f \in Files : events[f] # "none" => Hidden(f)
Deliveries ==
    \A w \in Workers : work[w].at # "idle" =>
        /\ \E f \in Files : work[w].files = {f} /\ Hidden(f)
        /\ work[w].at # "object" => work[w].files \intersect objects = {}

IInv == /\ Types /\ Uploads /\ Hiding /\ Kept /\ Events /\ Deliveries
        /\ VisibleIsReadable /\ DeletionLeavesNoObject /\ TotalIsExact

-----------------------------------------------------------------------------
(* Idle is an operation, a delivery and a scan of nothing.                 *)
LEMMA Idles ==
    Idle \in Op /\ Idle \in Work /\ Idle \in Scan /\ Idle.at = "idle" /\ Idle.files = {}
  BY DEF Idle, Op, Work, Scan

(* There are finitely many files.                                          *)
LEMMA Finites == ASSUME NEW S \in SUBSET Files PROVE IsFiniteSet(S) /\ Cardinality(S) \in Nat
  <1>1. IsFiniteSet(S)
    BY AttachmentsAssumption, FS_Subset
  <1>2. QED
    BY <1>1, FS_CardinalityType

(* The empty store satisfies the invariant.                                *)
LEMMA InitIInv == ASSUME Init PROVE IInv
  <1>1. Stored = OldFiles
    BY AttachmentsAssumption DEF Init, Stored
  <1>2. Cardinality(OldFiles) \in Nat
    BY AttachmentsAssumption, Finites
  <1>3. Types
    BY <1>2, Idles DEF Init, Types, NoAudit
  <1>4. Uploads /\ Hiding /\ Deliveries
    BY Idles DEF Init, Uploads, Uploading, Hiding, Deliveries
  <1>5. Kept /\ Events
    BY DEF Init, Kept, Safe, Events
  <1>6. VisibleIsReadable /\ DeletionLeavesNoObject
    BY DEF Init, VisibleIsReadable, DeletionLeavesNoObject
  <1>7. TotalIsExact
    BY <1>1 DEF Init, TotalIsExact
  <1>8. QED
    BY <1>3, <1>4, <1>5, <1>6, <1>7 DEF IInv

-----------------------------------------------------------------------------
(* Calls of clients.                                                       *)

(* A call goes on with its files, or returns.                              *)
LEMMA GoesOn ==
    ASSUME IInv, NEW c \in Clients, NEW at \in {"idle", "put", "row", "undo", "delete", "bulk"}, Goes(c, at)
    PROVE  \E q \in Op : /\ ops' = [ops EXCEPT ![c] = q]
                        /\ q.at = at /\ q.files = ops[c].files
  <1> DEFINE q == [ops[c] EXCEPT !.at = at]
  <1>1. ops[c] \in Op
    BY DEF IInv, Types
  <1>2. q \in Op /\ q.at = at /\ q.files = ops[c].files
    BY <1>1 DEF Op
  <1>3. ops' = [ops EXCEPT ![c] = q]
    BY DEF Goes
  <1> HIDE DEF q
  <1>4. QED
    BY <1>2, <1>3

(* What a client's call, in its new state, has to answer for.              *)
Answers(c, q) ==
    /\ q \in Op
    /\ q.at \in {"put", "row", "undo"} =>
         /\ \E f \in Files : q.files = {f}
         /\ q.files \intersect Safe = {}
         /\ q.at # "undo" => \A f \in q.files : rows[f] = "none"
         /\ \A d \in Clients \ {c} : Uploading(d) => q.files \intersect ops[d].files = {}
    /\ q.at \in {"delete", "bulk"} => \A f \in q.files : rows[f] # "none"

(* A step of a client that changes no row: an upload may store its own     *)
(* object while it has no row, and its compensation may remove it again.   *)
LEMMA ClientMoves ==
    ASSUME IInv, NEW c \in Clients, NEW q, ops' = [ops EXCEPT ![c] = q], Answers(c, q),
           UNCHANGED <<rows, intents, work, scans, figures, acked, requeues>>,
           faults' \in 0..FaultBound,
           objects' \subseteq Files,
           objects' \subseteq objects \/ (ops[c].at = "put" /\ objects' \subseteq objects \union ops[c].files),
           objects \subseteq objects' \/ (ops[c].at = "undo" /\ objects \subseteq objects' \union ops[c].files),
           q.at = "row" => q.files \subseteq objects'
    PROVE  IInv'
  <1>1. /\ ops' \in [Clients -> Op] /\ ops'[c] = q
        /\ \A d \in Clients \ {c} : ops'[d] = ops[d]
    BY DEF IInv, Types, Answers
  <1>2. Types'
    BY <1>1 DEF IInv, Types, intents, figures
  <1>3. Stored' = Stored
    BY DEF Stored
  <1>4. Uploads'
    <2>1. ASSUME NEW d \in Clients, Uploading(d)'
          PROVE  /\ \E f \in Files : ops'[d].files = {f}
                 /\ ops'[d].files \intersect Safe = {}
                 /\ ops'[d].at # "undo" => \A f \in ops'[d].files : rows[f] = "none"
                 /\ ops'[d].at = "row" => ops'[d].files \subseteq objects'
      <3>1. CASE d = c
        BY <1>1, <2>1, <3>1 DEF Uploading, Answers
      <3>2. CASE d # c
        <4>1. ops'[d] = ops[d] /\ Uploading(d)
          BY <1>1, <2>1, <3>2 DEF Uploading
        <4>2. ops[c].at = "undo" => ops[c].files \intersect ops[d].files = {}
          BY <3>2, <4>1 DEF IInv, Uploads, Uploading
        <4>3. QED
          BY <4>1, <4>2 DEF IInv, Uploads
      <3>3. QED
        BY <3>1, <3>2
    <2>2. ASSUME NEW d \in Clients, NEW e \in Clients, Uploading(d)', Uploading(e)', d # e
          PROVE  ops'[d].files \intersect ops'[e].files = {}
      BY <1>1, <2>2 DEF IInv, Uploads, Uploading, Answers
    <2>3. QED
      BY <2>1, <2>2 DEF Uploads, Safe, Uploading
  <1>5. Hiding'
    BY <1>1 DEF IInv, Hiding, Answers
  <1>6. Kept' /\ Events'
    BY DEF IInv, Kept, Safe, Events, Hidden, intents
  <1>7. \A f \in ops[c].files : ops[c].at = "put" => rows[f] = "none"
    BY DEF IInv, Uploads, Uploading
  <1>8. Deliveries'
    <2>1. ASSUME NEW w \in Workers, work[w].at # "idle"
          PROVE  /\ \E f \in Files : work[w].files = {f} /\ Hidden(f)
                 /\ work[w].at # "object" => work[w].files \intersect objects' = {}
      <3>1. PICK f \in Files : work[w].files = {f} /\ Hidden(f)
        BY <2>1 DEF IInv, Deliveries
      <3>2. work[w].at # "object" => f \notin objects
        BY <2>1, <3>1 DEF IInv, Deliveries
      <3>3. ops[c].at = "put" => f \notin ops[c].files
        BY <1>7, <3>1 DEF Hidden
      <3>4. QED
        BY <3>1, <3>2, <3>3
    <2>2. QED
      BY <2>1 DEF Deliveries, Hidden
  <1>9. VisibleIsReadable'
    <2>1. ops[c].at = "undo" => ops[c].files \intersect Safe = {}
      BY DEF IInv, Uploads, Uploading
    <2>2. QED
      BY <2>1 DEF IInv, VisibleIsReadable, Safe
  <1>10. DeletionLeavesNoObject'
    BY <1>7 DEF IInv, DeletionLeavesNoObject
  <1>11. TotalIsExact'
    BY <1>3 DEF IInv, TotalIsExact, figures
  <1>12. QED
    BY <1>2, <1>4, <1>5, <1>6, <1>8, <1>9, <1>10, <1>11 DEF IInv

(* The steps of uploads and deletions keep it.                             *)
LEMMA ClientKeeps ==
    ASSUME IInv, NEW c \in Clients,
           \/ \E f \in Files : StartUpload(c, f) \/ ReadOne(c, f)
           \/ Put(c) \/ PutFails(c) \/ Undo(c) \/ Abandon(c) \/ ReadOld(c) \/ HideRefused(c)
           \/ CreateRowFails(c) /\ UNCHANGED <<rows, total>>
    PROVE  IInv'
  <1>1. objects \subseteq Files /\ faults \in 0..FaultBound /\ ops[c] \in Op
    BY DEF IInv, Types
  <1>2. Answers(c, Idle)
    BY Idles DEF Answers
  <1>3. Uploading(c) => /\ \E f \in Files : ops[c].files = {f}
                        /\ ops[c].files \intersect Safe = {}
                        /\ ops[c].at # "undo" => \A f \in ops[c].files : rows[f] = "none"
                        /\ \A d \in Clients \ {c} : Uploading(d) => ops[c].files \intersect ops[d].files = {}
    BY DEF IInv, Uploads
  <1>4. ASSUME NEW f \in Files, StartUpload(c, f) PROVE IInv'
    <2> DEFINE q == [at |-> "put", files |-> {f}]
    <2>1. q \in Op /\ q.at = "put" /\ q.files = {f}
      BY DEF Op
    <2>2. ops' = [ops EXCEPT ![c] = q] /\ rows[f] = "none" /\ \A d \in Clients : f \notin ops[d].files
      BY <1>4 DEF StartUpload
    <2>3. f \notin Safe
      BY <2>2 DEF IInv, Kept
    <2> HIDE DEF q
    <2>4. Answers(c, q)
      BY <2>1, <2>2, <2>3 DEF Answers
    <2>5. QED
      BY <1>1, <1>4, <2>1, <2>2, <2>4, ClientMoves DEF StartUpload, stores, bounds
  <1>5. ASSUME NEW f \in Files, ReadOne(c, f) PROVE IInv'
    <2> DEFINE q == [at |-> "delete", files |-> {f}]
    <2>1. q \in Op /\ q.at = "delete" /\ q.files = {f}
      BY DEF Op
    <2>2. ops' = [ops EXCEPT ![c] = q] /\ rows[f] = "live"
      BY <1>5 DEF ReadOne
    <2> HIDE DEF q
    <2>3. Answers(c, q)
      BY <2>1, <2>2 DEF Answers
    <2>4. QED
      BY <1>1, <1>5, <2>1, <2>2, <2>3, ClientMoves DEF ReadOne, stores, bounds
  <1>6. ASSUME ReadOld(c) PROVE IInv'
    <2> DEFINE old == {f \in OldFiles : rows[f] = "live"}
               q == [at |-> "bulk", files |-> old]
    <2>1. q \in Op /\ q.at = "bulk" /\ q.files = old
      BY AttachmentsAssumption DEF Op
    <2>2. ops' = [ops EXCEPT ![c] = q] /\ \A f \in old : rows[f] # "none"
      BY <1>6 DEF ReadOld
    <2> HIDE DEF q, old
    <2>3. Answers(c, q)
      BY <2>1, <2>2 DEF Answers
    <2>4. QED
      BY <1>1, <1>6, <2>1, <2>2, <2>3, ClientMoves DEF ReadOld, stores, bounds
  <1>7. ASSUME Put(c) PROVE IInv'
    <2>1. PICK q \in Op : ops' = [ops EXCEPT ![c] = q] /\ q.at = "row" /\ q.files = ops[c].files
      BY <1>7, GoesOn DEF Put
    <2>2. Uploading(c) /\ ops[c].at # "undo"
      BY <1>7 DEF Put, Uploading
    <2>3. Answers(c, q)
      BY <1>1, <1>3, <2>1, <2>2 DEF Answers
    <2>4. objects' = objects \union ops[c].files /\ ops[c].files \subseteq Files
      BY <1>1, <1>7 DEF Put, Op
    <2>5. QED
      BY <1>1, <1>7, <2>1, <2>3, <2>4, ClientMoves DEF Put, bounds
  <1>8. ASSUME PutFails(c) PROVE IInv'
    <2>1. objects' \in {objects, objects \union ops[c].files} /\ ops[c].files \subseteq Files
      BY <1>1, <1>8 DEF PutFails, Op
    <2>2. ops' = [ops EXCEPT ![c] = Idle] /\ faults' \in 0..FaultBound /\ requeues' = requeues /\ ops[c].at = "put"
      BY <1>1, <1>8 DEF PutFails, Returns, Fault
    <2>3. QED
      BY <1>1, <1>2, <1>8, <2>1, <2>2, Idles, ClientMoves DEF PutFails
  <1>9. ASSUME Undo(c) PROVE IInv'
    <2>1. objects' = objects \ ops[c].files /\ ops' = [ops EXCEPT ![c] = Idle]
      BY <1>9 DEF Undo, Returns
    <2>2. QED
      BY <1>1, <1>2, <1>9, <2>1, Idles, ClientMoves DEF Undo, bounds
  <1>10. ASSUME Abandon(c) PROVE IInv'
    <2>1. ops' = [ops EXCEPT ![c] = Idle] /\ faults' \in 0..FaultBound /\ requeues' = requeues
      BY <1>1, <1>10 DEF Abandon, Returns, Fault
    <2>2. QED
      BY <1>1, <1>2, <1>10, <2>1, Idles, ClientMoves DEF Abandon, stores
  <1>11. ASSUME HideRefused(c) PROVE IInv'
    <2>1. ops' = [ops EXCEPT ![c] = Idle]
      BY <1>11 DEF HideRefused, Returns
    <2>2. QED
      BY <1>1, <1>2, <1>11, <2>1, Idles, ClientMoves DEF HideRefused, stores, bounds
  <1>12. ASSUME CreateRowFails(c), UNCHANGED <<rows, total>> PROVE IInv'
    <2>1. PICK q \in Op : ops' = [ops EXCEPT ![c] = q] /\ q.at = "undo" /\ q.files = ops[c].files
      BY <1>12, GoesOn DEF CreateRowFails
    <2>2. Uploading(c)
      BY <1>12 DEF CreateRowFails, Uploading
    <2>3. Answers(c, q)
      BY <1>1, <1>3, <2>1, <2>2 DEF Answers
    <2>4. faults' \in 0..FaultBound /\ requeues' = requeues
      BY <1>1, <1>12 DEF CreateRowFails, Fault
    <2>5. QED
      BY <1>1, <1>12, <2>1, <2>3, <2>4, ClientMoves DEF CreateRowFails, figures
  <1>13. QED
    BY <1>4, <1>5, <1>6, <1>7, <1>8, <1>9, <1>10, <1>11, <1>12

(* The transaction of an upload commits: answered for, or to be undone.    *)
LEMMA CommitKeeps ==
    ASSUME IInv, NEW c \in Clients,
           CreateRow(c) \/ (CreateRowFails(c) /\ ~UNCHANGED <<rows, total>>)
    PROVE  IInv'
  <1>1. ops[c].at = "row" /\ Uploading(c)
    BY DEF CreateRow, CreateRowFails, Uploading
  <1>2. PICK f \in Files : ops[c].files = {f}
    BY <1>1 DEF IInv, Uploads
  <1>3. rows[f] = "none" /\ f \notin Safe /\ f \in objects
    BY <1>1, <1>2 DEF IInv, Uploads
  <1>4. /\ rows' = [rows EXCEPT ![f] = "live"] /\ total' = total + 1
        /\ UNCHANGED <<objects, intents, work, scans, lease, counted, requeues>>
        /\ faults' \in 0..FaultBound
    BY <1>2 DEF CreateRow, CreateRowFails, Committed, Fault, bounds, IInv, Types
  <1>5. PICK q \in Op :
          /\ ops' = [ops EXCEPT ![c] = q]
          /\ \/ q = Idle /\ acked' = acked \union {f}
             \/ q.at = "undo" /\ q.files = {f} /\ acked' = acked
    <2>1. CASE CreateRow(c)
      BY <1>2, <2>1, Idles DEF CreateRow, Returns
    <2>2. CASE CreateRowFails(c)
      BY <1>2, <2>2, GoesOn DEF CreateRowFails
    <2>3. QED
      BY <2>1, <2>2
  <1>6. /\ ops' \in [Clients -> Op] /\ ops'[c] = q
        /\ \A d \in Clients \ {c} : ops'[d] = ops[d]
    BY <1>5 DEF IInv, Types
  <1>7. /\ rows' \in [Files -> {"none", "live", "deleting", "gone"}]
        /\ rows'[f] = "live" /\ \A g \in Files \ {f} : rows'[g] = rows[g]
        /\ \A g \in Files : Hidden(g) => Hidden(g)'
    BY <1>3, <1>4 DEF IInv, Types, Hidden
  <1>8. Types'
    BY <1>4, <1>5, <1>6, <1>7 DEF IInv, Types, intents
  <1>9. Uploads'
    <2>1. ASSUME NEW d \in Clients, Uploading(d)'
          PROVE  /\ \E g \in Files : ops'[d].files = {g}
                 /\ ops'[d].files \intersect Safe' = {}
                 /\ ops'[d].at # "undo" => \A g \in ops'[d].files : rows'[g] = "none"
                 /\ ops'[d].at = "row" => ops'[d].files \subseteq objects'
      <3>1. CASE d = c
        BY <1>3, <1>5, <1>6, <2>1, <3>1, Idles DEF Uploading, Safe
      <3>2. CASE d # c
        <4>1. ops'[d] = ops[d] /\ Uploading(d)
          BY <1>6, <2>1, <3>2 DEF Uploading
        <4>2. f \notin ops[d].files
          BY <1>1, <1>2, <3>2, <4>1 DEF IInv, Uploads
        <4>3. PICK g \in Files : ops[d].files = {g}
          BY <4>1 DEF IInv, Uploads
        <4>4. QED
          BY <1>4, <1>5, <1>7, <4>1, <4>2, <4>3 DEF IInv, Uploads, Safe
      <3>3. QED
        BY <3>1, <3>2
    <2>2. ASSUME NEW d \in Clients, NEW e \in Clients, Uploading(d)', Uploading(e)', d # e
          PROVE  ops'[d].files \intersect ops'[e].files = {}
      BY <1>1, <1>2, <1>5, <1>6, <2>2, Idles DEF IInv, Uploads, Uploading
    <2>3. QED
      BY <2>1, <2>2 DEF Uploads
  <1>10. Hiding'
    <2>1. \A g \in Files : rows[g] # "none" => rows'[g] # "none"
      BY <1>7
    <2>2. \A d \in Clients : ops[d].files \subseteq Files
      BY DEF IInv, Types, Op
    <2>3. QED
      BY <1>5, <1>6, <2>1, <2>2, Idles DEF IInv, Hiding
  <1>11. Kept' /\ Events'
    <2>1. Safe \subseteq Files
      BY AttachmentsAssumption DEF Safe, IInv, Types
    <2>2. QED
      BY <1>4, <1>5, <1>7, <2>1 DEF IInv, Kept, Safe, Events, intents
  <1>12. Deliveries'
    BY <1>4, <1>7 DEF IInv, Deliveries
  <1>13. VisibleIsReadable' /\ DeletionLeavesNoObject'
    <2>1. Safe \subseteq Files
      BY AttachmentsAssumption DEF Safe, IInv, Types
    <2>2. QED
      BY <1>3, <1>4, <1>5, <1>7, <2>1 DEF IInv, VisibleIsReadable, DeletionLeavesNoObject, Safe
  <1>14. TotalIsExact'
    <2>1. Stored' = Stored \union {f} /\ f \notin Stored
      BY <1>3, <1>7 DEF Stored
    <2>2. IsFiniteSet(Stored)
      BY Finites DEF Stored
    <2>3. Cardinality(Stored \union {f}) = Cardinality(Stored) + 1
      BY <2>1, <2>2, FS_AddElement
    <2>4. QED
      BY <1>4, <2>1, <2>3 DEF IInv, TotalIsExact
  <1>15. QED
    BY <1>8, <1>9, <1>10, <1>11, <1>12, <1>13, <1>14 DEF IInv

(* A deletion hides its rows together with their events.                   *)
LEMMA HideKeeps == ASSUME IInv, NEW c \in Clients, Hide(c) PROVE IInv'
  <1> DEFINE fs == ops[c].files
  <1>1. /\ ops[c].at \in {"delete", "bulk"} /\ fs \subseteq Files
        /\ \A f \in fs : rows[f] # "none"
    BY DEF Hide, IInv, Types, Op, Hiding
  <1>2. /\ rows' = [f \in Files |-> IF f \in fs /\ rows[f] = "live" THEN "deleting" ELSE rows[f]]
        /\ events' = [f \in Files |-> IF f \in fs /\ events[f] = "none" THEN "pending" ELSE events[f]]
        /\ ops' = [ops EXCEPT ![c] = Idle]
        /\ UNCHANGED <<objects, work, scans, figures, acked, bounds>>
    BY DEF Hide, Tombstone, Returns
  <1>3. journal' \in [Files -> Clients \union {Nobody}] /\ audit' \in [user : Clients \union {Nobody}, count : Nat]
    <2>1. Cardinality(fs) \in Nat
      BY <1>1, Finites
    <2>2. QED
      BY <2>1 DEF Hide, IInv, Types
  <1>4. /\ ops' \in [Clients -> Op] /\ ops'[c] = Idle
        /\ \A d \in Clients \ {c} : ops'[d] = ops[d]
    BY <1>2, Idles DEF IInv, Types
  <1>5. /\ rows' \in [Files -> {"none", "live", "deleting", "gone"}]
        /\ \A f \in Files : /\ rows'[f] = "none" <=> rows[f] = "none"
                            /\ rows'[f] = "gone" <=> rows[f] = "gone"
                            /\ Hidden(f) => Hidden(f)'
                            /\ rows'[f] = "live" => rows[f] = "live"
                            /\ f \in fs => Hidden(f)'
    BY <1>1, <1>2 DEF IInv, Types, Hidden
  <1>6. Types'
    BY <1>2, <1>3, <1>4, <1>5 DEF IInv, Types, figures, bounds
  <1>7. \A d \in Clients : ops'[d].files \subseteq Files /\ ops[d].files \subseteq Files
    BY <1>4 DEF IInv, Types, Op
  <1>8. Uploads' /\ Hiding'
    BY <1>2, <1>4, <1>5, <1>7, Idles DEF IInv, Uploads, Uploading, Hiding, Safe
  <1>9. Kept' /\ Events' /\ Deliveries'
    <2>1. Safe \subseteq Files
      BY AttachmentsAssumption DEF Safe, IInv, Types
    <2>2. QED
      BY <1>2, <1>5, <2>1 DEF IInv, Kept, Safe, Events, Deliveries
  <1>10. VisibleIsReadable' /\ DeletionLeavesNoObject'
    <2>1. Safe \subseteq Files
      BY AttachmentsAssumption DEF Safe, IInv, Types
    <2>2. QED
      BY <1>2, <1>5, <2>1 DEF IInv, VisibleIsReadable, DeletionLeavesNoObject, Safe
  <1>11. TotalIsExact'
    <2>1. Stored' = Stored
      BY <1>2, <1>5 DEF Stored, IInv, Types
    <2>2. QED
      BY <1>2, <2>1 DEF IInv, TotalIsExact, figures
  <1>12. QED
    BY <1>6, <1>8, <1>9, <1>10, <1>11 DEF IInv

-----------------------------------------------------------------------------
(* Deliveries, and the refresh of the total.                               *)

(* A step of a worker or of the outbox that changes no row.                *)
LEMMA WorkMoves ==
    ASSUME IInv, work' \in [Workers -> Work],
           \A w \in Workers : work'[w].at # "idle" =>
               /\ \E f \in Files : work'[w].files = {f} /\ Hidden(f)
               /\ work'[w].at # "object" => work'[w].files \intersect objects' = {},
           events' \in [Files -> {"none", "pending", "failed", "done"}],
           \A f \in Files : events'[f] # "none" => Hidden(f),
           objects' \subseteq objects, \A f \in objects \ objects' : Hidden(f),
           UNCHANGED <<rows, journal, audit, ops, scans, figures, acked>>,
           faults' \in 0..FaultBound, requeues' \in 0..RequeueBound
    PROVE  IInv'
  <1>1. Types'
    BY DEF IInv, Types, figures
  <1>2. Uploads'
    <2>1. ASSUME NEW c \in Clients, ops[c].at = "row" PROVE ops[c].files \subseteq objects'
      <3>1. ops[c].files \subseteq objects /\ \A f \in ops[c].files : rows[f] = "none"
        BY <2>1 DEF IInv, Uploads, Uploading
      <3>2. QED
        BY <3>1 DEF Hidden
    <2>2. QED
      BY <2>1 DEF IInv, Uploads, Uploading, Safe
  <1>3. Hiding' /\ Kept'
    BY DEF IInv, Hiding, Kept, Safe
  <1>4. Events' /\ Deliveries'
    BY DEF Events, Deliveries, Hidden
  <1>5. VisibleIsReadable' /\ DeletionLeavesNoObject'
    BY DEF IInv, VisibleIsReadable, DeletionLeavesNoObject, Hidden
  <1>6. TotalIsExact'
    <2>1. Stored' = Stored
      BY DEF Stored
    <2>2. QED
      BY <2>1 DEF IInv, TotalIsExact, figures
  <1>7. QED
    BY <1>1, <1>2, <1>3, <1>4, <1>5, <1>6 DEF IInv

(* The deliveries and the catch-up keep it.                                *)
LEMMA WorkKeeps ==
    ASSUME IInv,
           \/ \E f \in Files : EnqueuePending(f) \/ Requeue(f)
           \/ \E w \in Workers : \/ \E f \in Files : Take(w, f)
                                \/ RemoveObject(w) \/ MarkProcessed(w) \/ DeliveryFails(w)
    PROVE  IInv'
  <1>1. /\ work \in [Workers -> Work] /\ events \in [Files -> {"none", "pending", "failed", "done"}]
        /\ faults \in 0..FaultBound /\ requeues \in 0..RequeueBound
    BY DEF IInv, Types
  <1>2. /\ \A w \in Workers : work[w].at # "idle" =>
             /\ \E f \in Files : work[w].files = {f} /\ Hidden(f)
             /\ work[w].at # "object" => work[w].files \intersect objects = {}
        /\ \A f \in Files : events[f] # "none" => Hidden(f)
    BY DEF IInv, Deliveries, Events
  <1>3. ASSUME NEW f \in Files, EnqueuePending(f) PROVE IInv'
    <2>1. /\ events' \in [Files -> {"none", "pending", "failed", "done"}]
          /\ \A g \in Files : events'[g] # "none" => Hidden(g)
      BY <1>1, <1>2, <1>3 DEF EnqueuePending, Hidden
    <2>2. QED
      BY <1>1, <1>2, <1>3, <2>1, WorkMoves DEF EnqueuePending, stores, bounds
  <1>4. ASSUME NEW f \in Files, Requeue(f) PROVE IInv'
    <2>1. /\ events' \in [Files -> {"none", "pending", "failed", "done"}]
          /\ \A g \in Files : events'[g] # "none" => Hidden(g)
      BY <1>1, <1>2, <1>4 DEF Requeue
    <2>2. requeues' \in 0..RequeueBound
      BY <1>1, <1>4, AttachmentsAssumption DEF Requeue
    <2>3. QED
      BY <1>1, <1>2, <1>4, <2>1, <2>2, WorkMoves DEF Requeue, stores
  <1>5. ASSUME NEW w \in Workers, NEW f \in Files, Take(w, f) PROVE IInv'
    <2> DEFINE q == [at |-> "object", files |-> {f}]
    <2>1. q \in Work /\ q.at = "object" /\ q.files = {f}
      BY DEF Work
    <2>2. work' = [work EXCEPT ![w] = q] /\ Hidden(f)
      BY <1>2, <1>5 DEF Take
    <2> HIDE DEF q
    <2>3. work' \in [Workers -> Work] /\ work'[w] = q /\ \A v \in Workers \ {w} : work'[v] = work[v]
      BY <1>1, <2>1, <2>2
    <2>4. UNCHANGED objects /\ \A v \in Workers : work'[v].at # "idle" =>
            /\ \E g \in Files : work'[v].files = {g} /\ Hidden(g)
            /\ work'[v].at # "object" => work'[v].files \intersect objects' = {}
      BY <1>2, <1>5, <2>1, <2>2, <2>3 DEF Take, stores
    <2>5. QED
      BY <1>1, <1>2, <1>5, <2>3, <2>4, WorkMoves DEF Take, stores, intents, bounds
  <1>6. ASSUME NEW w \in Workers, RemoveObject(w) PROVE IInv'
    <2> DEFINE q == [work[w] EXCEPT !.at = "row"]
    <2>1. work[w] \in Work /\ work[w].at = "object"
      BY <1>1, <1>6 DEF RemoveObject
    <2>2. q \in Work /\ q.at = "row" /\ q.files = work[w].files
      BY <2>1 DEF Work
    <2>3. work' = [work EXCEPT ![w] = q] /\ objects' = objects \ work[w].files
      BY <1>6 DEF RemoveObject, Removal
    <2> HIDE DEF q
    <2>4. work' \in [Workers -> Work] /\ work'[w] = q /\ \A v \in Workers \ {w} : work'[v] = work[v]
      BY <1>1, <2>2, <2>3
    <2>5. \A v \in Workers : work'[v].at # "idle" =>
            /\ \E g \in Files : work'[v].files = {g} /\ Hidden(g)
            /\ work'[v].at # "object" => work'[v].files \intersect objects' = {}
      BY <1>2, <2>1, <2>2, <2>3, <2>4
    <2>6. \A f \in objects \ objects' : Hidden(f)
      BY <1>2, <2>1, <2>3
    <2>7. QED
      BY <1>1, <1>2, <1>6, <2>3, <2>4, <2>5, <2>6, WorkMoves DEF RemoveObject, intents, bounds
  <1>7. ASSUME NEW w \in Workers, MarkProcessed(w) PROVE IInv'
    <2>1. /\ work' \in [Workers -> Work] /\ work'[w] = Idle
          /\ \A v \in Workers \ {w} : work'[v] = work[v]
      BY <1>1, <1>7, Idles DEF MarkProcessed
    <2>2. \A f \in work[w].files : Hidden(f)
      BY <1>2, <1>7 DEF MarkProcessed
    <2>3. /\ events' \in [Files -> {"none", "pending", "failed", "done"}]
          /\ \A f \in Files : events'[f] # "none" => Hidden(f)
      BY <1>1, <1>2, <1>7, <2>2 DEF MarkProcessed
    <2>4. UNCHANGED objects /\ \A v \in Workers : work'[v].at # "idle" =>
            /\ \E g \in Files : work'[v].files = {g} /\ Hidden(g)
            /\ work'[v].at # "object" => work'[v].files \intersect objects' = {}
      BY <1>2, <1>7, <2>1, Idles DEF MarkProcessed, stores
    <2>5. QED
      BY <1>1, <1>7, <2>1, <2>3, <2>4, WorkMoves DEF MarkProcessed, stores, bounds
  <1>8. ASSUME NEW w \in Workers, DeliveryFails(w) PROVE IInv'
    <2>1. /\ work' \in [Workers -> Work] /\ work'[w] = Idle
          /\ \A v \in Workers \ {w} : work'[v] = work[v]
      BY <1>1, <1>8, Idles DEF DeliveryFails
    <2>2. work[w].at = "object" => \A f \in work[w].files : Hidden(f)
      BY <1>2
    <2>3. objects' \subseteq objects /\ \A f \in objects \ objects' : Hidden(f)
      BY <1>8, <2>2 DEF DeliveryFails
    <2>4. /\ events' \in [Files -> {"none", "pending", "failed", "done"}]
          /\ \A f \in Files : events'[f] # "none" => Hidden(f)
      BY <1>1, <1>2, <1>8 DEF DeliveryFails, Attempted
    <2>5. \A v \in Workers : work'[v].at # "idle" =>
            /\ \E g \in Files : work'[v].files = {g} /\ Hidden(g)
            /\ work'[v].at # "object" => work'[v].files \intersect objects' = {}
      BY <1>2, <2>1, <2>3, Idles
    <2>6. faults' \in 0..FaultBound /\ requeues' = requeues
      BY <1>1, <1>8, AttachmentsAssumption DEF DeliveryFails, Fault
    <2>7. QED
      BY <1>1, <1>8, <2>1, <2>3, <2>4, <2>5, <2>6, WorkMoves DEF DeliveryFails
  <1>9. QED
    BY <1>3, <1>4, <1>5, <1>6, <1>7, <1>8

(* The row of a deleted file goes, and is counted once.                    *)
LEMMA RowKeeps == ASSUME IInv, NEW w \in Workers, RemoveRow(w) PROVE IInv'
  <1>1. work[w].at = "row" /\ work[w] \in Work
    BY DEF RemoveRow, IInv, Types
  <1>2. PICK f \in Files : work[w].files = {f} /\ Hidden(f) /\ f \notin objects
    BY <1>1 DEF IInv, Deliveries
  <1> DEFINE q == [work[w] EXCEPT !.at = "mark"]
  <1>3. q \in Work /\ q.at = "mark" /\ q.files = {f}
    BY <1>1, <1>2 DEF Work
  <1>4. /\ work' = [work EXCEPT ![w] = q] /\ DeleteMarked(f)
        /\ UNCHANGED <<objects, intents, ops, scans, lease, counted, acked, bounds>>
    BY <1>2 DEF RemoveRow
  <1> HIDE DEF q
  <1>5. work' \in [Workers -> Work] /\ work'[w] = q /\ \A v \in Workers \ {w} : work'[v] = work[v]
    BY <1>3, <1>4 DEF IInv, Types
  <1>6. /\ rows' \in [Files -> {"none", "live", "deleting", "gone"}] /\ total' \in Nat
        /\ rows'[f] = "gone" /\ \A g \in Files \ {f} : rows'[g] = rows[g]
        /\ \A g \in Files : Hidden(g) => Hidden(g)'
        /\ \A g \in Files : rows'[g] # rows[g] => g = f /\ rows[f] = "deleting"
    BY <1>2, <1>4 DEF DeleteMarked, Hidden, IInv, Types
  <1>7. Types'
    BY <1>4, <1>5, <1>6 DEF IInv, Types, intents, bounds
  <1>8. Safe \subseteq Files /\ \A c \in Clients : ops[c].files \subseteq Files
    BY AttachmentsAssumption DEF Safe, IInv, Types, Op
  <1>9. Uploads' /\ Hiding'
    <2>1. \A g \in Files : rows'[g] = "none" <=> rows[g] = "none"
      BY <1>6
    <2>2. QED
      BY <1>4, <1>8, <2>1 DEF IInv, Uploads, Uploading, Hiding, Safe
  <1>10. Kept' /\ Events'
    BY <1>4, <1>6, <1>8 DEF IInv, Kept, Safe, Events, intents
  <1>11. Deliveries'
    <2>1. ASSUME NEW v \in Workers, work'[v].at # "idle"
          PROVE  /\ \E g \in Files : work'[v].files = {g} /\ Hidden(g)'
                 /\ work'[v].at # "object" => work'[v].files \intersect objects' = {}
      BY <1>2, <1>3, <1>4, <1>5, <1>6, <2>1 DEF IInv, Deliveries
    <2>2. QED
      BY <2>1 DEF Deliveries
  <1>12. VisibleIsReadable' /\ DeletionLeavesNoObject'
    BY <1>2, <1>4, <1>6, <1>8 DEF IInv, VisibleIsReadable, DeletionLeavesNoObject, Safe
  <1>13. TotalIsExact'
    <2>1. CASE rows[f] = "deleting"
      <3>1. Stored' = Stored \ {f} /\ f \in Stored
        BY <1>6, <2>1 DEF Stored
      <3>2. IsFiniteSet(Stored) /\ Cardinality(Stored) \in Nat
        BY Finites DEF Stored
      <3>3. Cardinality(Stored \ {f}) = Cardinality(Stored) - 1
        BY <3>1, <3>2, FS_RemoveElement
      <3>4. Cardinality(Stored) # 0
        BY <3>1, <3>2, FS_EmptySet
      <3>5. QED
        BY <1>4, <2>1, <3>1, <3>2, <3>3, <3>4 DEF IInv, TotalIsExact, DeleteMarked
    <2>2. CASE rows[f] # "deleting"
      BY <1>4, <2>2 DEF DeleteMarked, IInv, TotalIsExact, Stored
    <2>3. QED
      BY <2>1, <2>2
  <1>14. QED
    BY <1>7, <1>9, <1>10, <1>11, <1>12, <1>13 DEF IInv

(* A refresh replaces the total, and records whether that upset it.        *)
LEMMA ScanKeeps ==
    ASSUME IInv, NEW s \in Scanners, StartRefresh(s) \/ List(s) \/ Save(s) \/ RefreshFails(s)
    PROVE  IInv'
  <1>1. /\ UNCHANGED <<stores, intents, ops, work, acked, requeues>> /\ faults' \in 0..FaultBound
        /\ scans[s] \in Scan /\ lease \in Scanners \union {Nobody} /\ total \in Nat /\ counted \in BOOLEAN
    BY AttachmentsAssumption DEF IInv, Types, StartRefresh, List, Save, RefreshFails, Fault, bounds
  <1>2. scans' \in [Scanners -> Scan]
    <2>1. CASE StartRefresh(s)
      <3> DEFINE q == [scans[s] EXCEPT !.at = "list"]
      <3>1. q \in Scan
        BY <1>1 DEF Scan
      <3>2. scans' = [scans EXCEPT ![s] = q]
        BY <2>1 DEF StartRefresh
      <3> HIDE DEF q
      <3>3. QED
        BY <3>1, <3>2 DEF IInv, Types
    <2>2. CASE List(s)
      <3>1. [at |-> "save", files |-> objects] \in Scan
        BY DEF IInv, Types, Scan
      <3>2. QED
        BY <2>2, <3>1 DEF List, IInv, Types
    <2>3. CASE Save(s) \/ RefreshFails(s)
      BY <2>3, Idles DEF Save, RefreshFails, IInv, Types
    <2>4. QED
      BY <2>1, <2>2, <2>3
  <1>3. Stored' = Stored
    BY <1>1 DEF Stored, stores
  <1>4. /\ lease' \in Scanners \union {Nobody} /\ total' \in Nat /\ counted' \in BOOLEAN
        /\ counted' => total' = Cardinality(Stored)
    <2>1. CASE Save(s)
      <3>1. Cardinality(scans[s].files) \in Nat
        BY <1>1, Finites DEF Scan
      <3>2. QED
        BY <1>1, <2>1, <3>1 DEF Save, figures, IInv, TotalIsExact
    <2>2. CASE StartRefresh(s) \/ List(s) \/ RefreshFails(s)
      BY <1>1, <2>2 DEF StartRefresh, List, RefreshFails, figures, IInv, TotalIsExact
    <2>3. QED
      BY <2>1, <2>2
  <1>5. Types'
    BY <1>1, <1>2, <1>4 DEF IInv, Types, stores, intents
  <1>6. Uploads' /\ Hiding' /\ Kept' /\ Events' /\ Deliveries'
    BY <1>1 DEF IInv, Uploads, Uploading, Hiding, Kept, Safe, Events, Deliveries, Hidden, stores, intents
  <1>7. VisibleIsReadable' /\ DeletionLeavesNoObject'
    BY <1>1 DEF IInv, VisibleIsReadable, DeletionLeavesNoObject, stores
  <1>8. TotalIsExact'
    BY <1>3, <1>4 DEF TotalIsExact
  <1>9. QED
    BY <1>5, <1>6, <1>7, <1>8 DEF IInv

-----------------------------------------------------------------------------
(* Every step keeps it.                                                    *)
LEMMA NextIInv == IInv /\ [Next]_vars => IInv'
  <1> SUFFICES ASSUME IInv, [Next]_vars PROVE IInv'
    OBVIOUS
  <1>1. ASSUME NEW c \in Clients,
               \/ \E f \in Files : StartUpload(c, f) \/ ReadOne(c, f)
               \/ Put(c) \/ PutFails(c) \/ CreateRow(c) \/ CreateRowFails(c) \/ Undo(c)
               \/ Abandon(c) \/ ReadOld(c) \/ Hide(c) \/ HideRefused(c)
        PROVE  IInv'
    BY <1>1, ClientKeeps, CommitKeeps, HideKeeps
  <1>2. ASSUME NEW f \in Files, EnqueuePending(f) \/ Requeue(f) PROVE IInv'
    BY <1>2, WorkKeeps
  <1>3. ASSUME NEW w \in Workers, (\E f \in Files : Take(w, f)) \/ Delivery(w) \/ DeliveryFails(w)
        PROVE  IInv'
    BY <1>3, WorkKeeps, RowKeeps DEF Delivery
  <1>4. ASSUME NEW s \in Scanners, StartRefresh(s) \/ List(s) \/ Save(s) \/ RefreshFails(s)
        PROVE  IInv'
    BY <1>4, ScanKeeps
  <1>5. CASE UNCHANGED vars
    <2>1. Types'
      BY <1>5 DEF vars, stores, intents, figures, bounds, IInv, Types
    <2>2. Uploads' /\ Hiding' /\ Kept' /\ Events' /\ Deliveries'
      BY <1>5 DEF vars, stores, intents, IInv, Uploads, Uploading, Hiding, Kept, Safe, Events, Deliveries, Hidden
    <2>3. VisibleIsReadable' /\ DeletionLeavesNoObject' /\ TotalIsExact'
      BY <1>5 DEF vars, stores, figures, IInv, VisibleIsReadable, DeletionLeavesNoObject, TotalIsExact, Stored
    <2>4. QED
      BY <2>1, <2>2, <2>3 DEF IInv
  <1>6. QED
    BY <1>1, <1>2, <1>3, <1>4, <1>5 DEF Next

(* Rows, objects, events and the calls in flight agree.                    *)
THEOREM StoresAgree == Spec => []IInv
  BY InitIInv, NextIInv, PTL DEF Spec

(* The state of the attachments is typed; the total never goes below zero. *)
THEOREM TypeCorrect == Spec => []TypeOK
  <1>1. IInv => TypeOK
    BY DEF IInv, Types, TypeOK
  <1>2. QED
    BY <1>1, StoresAgree, PTL

(* "A later database failure cannot leave a visible broken link"           *)
(* (services/attachment.go:314-315): what is visible and was answered for  *)
(* has its object.                                                         *)
THEOREM VisibleFilesOpen == Spec => []VisibleIsReadable
  <1>1. IInv => VisibleIsReadable
    BY DEF IInv
  <1>2. QED
    BY <1>1, StoresAgree, PTL

(* A deletion that was carried out leaves no object behind (worker.go, the *)
(* consumer of attachment_delete: the object first, then the row).         *)
THEOREM DeletedFilesAreGone == Spec => []DeletionLeavesNoObject
  <1>1. IInv => DeletionLeavesNoObject
    BY DEF IInv
  <1>2. QED
    BY <1>1, StoresAgree, PTL

(* A deletion is counted down once, however often it is delivered          *)
(* (statistics_repo.go, DeleteMarkedAndDecrementStorageStatistics).        *)
THEOREM TotalStaysExact == Spec => []TotalIsExact
  <1>1. IInv => TotalIsExact
    BY DEF IInv
  <1>2. QED
    BY <1>1, StoresAgree, PTL
-----------------------------------------------------------------------------
(* The access policy.                                                      *)

USE AccessConstants

(* The facts stay well-formed under every administration.                  *)
THEOREM AccessTypeCorrect == AccessSpec => []AccessTypeOK
  <1>1. AccessInit => AccessTypeOK
    BY DEF AccessInit, AccessTypeOK, Days
  <1>2. AccessTypeOK /\ [AccessNext]_accessVars => AccessTypeOK'
    <2> SUFFICES ASSUME AccessTypeOK, [AccessNext]_accessVars PROVE AccessTypeOK'
      OBVIOUS
    <2> USE DEF AccessTypeOK, people, facts
    <2>1. ASSUME NEW u \in Users, NEW participant \in BOOLEAN,
                 NEW d \in Departments \cup {NoDepartment}, UpdateUser(u, participant, d)
          PROVE  AccessTypeOK'
      BY <2>1 DEF UpdateUser
    <2>2. ASSUME NEW u \in Users, NEW rights \in Profiles, ReplaceUserAccessProfile(u, rights)
          PROVE  AccessTypeOK'
      BY <2>2 DEF ReplaceUserAccessProfile
    <2>3. ASSUME NEW d \in Departments, NEW ns \in SUBSET Nomenclatures,
                 UpdateDepartment(d, ns) \/ CreateDepartment(d, ns)
          PROVE  AccessTypeOK'
      BY <2>3 DEF UpdateDepartment, CreateDepartment
    <2>4. ASSUME NEW d \in Departments, DeleteDepartment(d) PROVE AccessTypeOK'
      BY <2>4 DEF DeleteDepartment
    <2>5. ASSUME NEW p \in Users, NEW s \in Users, NEW active \in BOOLEAN, NEW w \in Windows,
                 SaveSubstitution(p, [substitute |-> s, active |-> active,
                                      from |-> w[1], until |-> w[2]])
          PROVE  AccessTypeOK'
      <3>1. [substitute |-> s, active |-> active, from |-> w[1], until |-> w[2]] \in Substitution
        BY DEF Substitution
      <3>2. QED
        BY <2>5, <3>1 DEF SaveSubstitution
    <2>6. ASSUME NEW p \in Users, ClearSubstitution(p) PROVE AccessTypeOK'
      BY <2>6 DEF ClearSubstitution
    <2>7. CASE NextDay
      BY <2>7 DEF NextDay, Days
    <2>8. ASSUME NEW d \in Documents, NEW us \in SUBSET Users,
                 NameExecutors(d, us) \/ NameAcknowledgers(d, us)
          PROVE  AccessTypeOK'
      BY <2>8 DEF NameExecutors, NameAcknowledgers
    <2>9. CASE UNCHANGED accessVars
      BY <2>9 DEF accessVars
    <2>10. QED
      BY <2>1, <2>2, <2>3, <2>4, <2>5, <2>6, <2>7, <2>8, <2>9 DEF AccessNext
  <1>3. QED
    BY <1>1, <1>2, PTL DEF AccessSpec

-----------------------------------------------------------------------------
(* The subjects of a user.                                                 *)

(* The code asks in two ways whether a user stands in for somebody.        *)
LEMMA Several ==
    ASSUME NEW u \in Users
    PROVE  Cardinality(Subjects(u)) > 1 <=> Subjects(u) # {u}
  <1>1. Subjects(u) \subseteq Users /\ u \in Subjects(u)
    BY DEF Subjects, ActivePrincipals
  <1>2. IsFiniteSet(Subjects(u))
    BY <1>1, FS_Subset
  <1>3. CASE Subjects(u) = {u}
    <2>1. Cardinality(Subjects(u)) = 1
      BY <1>3, FS_Singleton, Zenon
    <2>2. QED
      BY <1>3, <2>1
  <1>4. ASSUME NEW v \in Subjects(u), v # u PROVE Cardinality(Subjects(u)) > 1
    <2>1. IsFiniteSet({u}) /\ Cardinality({u}) = 1
      BY FS_Singleton
    <2>2. Cardinality({u} \cup {v}) = 2
      <3>1. Cardinality({u} \cup {v}) = IF v \in {u} THEN Cardinality({u}) ELSE Cardinality({u}) + 1
        BY <2>1, FS_AddElement, Zenon
      <3>2. Cardinality({u} \cup {v}) = Cardinality({u}) + 1
        BY <1>4, <3>1, Zenon
      <3>3. QED
        BY <2>1, <3>2
    <2>3. Cardinality({u} \cup {v}) <= Cardinality(Subjects(u))
      BY <1>1, <1>2, FS_Subset
    <2>4. Cardinality(Subjects(u)) \in Nat
      BY <1>2, FS_CardinalityType
    <2>5. QED
      BY <2>2, <2>3, <2>4
  <1>5. QED
    BY <1>1, <1>3, <1>4

-----------------------------------------------------------------------------
(* The four translations of the policy.                                    *)

(* The bulk decision for any set of documents is the decision for each.    *)
LEMMA BulkIsSingle ==
    ASSUME NEW u \in Users, NEW ids \in SUBSET Documents
    PROVE  ResolveReadableDocuments(u, ids) = Readable(u) \cap ids
  BY DEF ResolveReadableDocuments, Readable, RequireReadResolved, CanReadResolved,
         HasImplicitReadAccess, AssignedAmong, AcknowledgedAmong

(* So is the decision for a loaded document.                               *)
LEMMA LoadedIsSingle ==
    ASSUME NEW u \in Users, NEW d \in Documents
    PROVE  RequireResolvedRead(u, KindOf[d], d, NomenclatureOf[d]) <=> d \in Readable(u)
  BY Several DEF RequireResolvedRead, Readable, RequireReadResolved, CanReadResolved,
                 HasImplicitReadAccess, ExecutesIn, AcknowledgesIn

(* The card, the check of a loaded document and the bulk check of the link *)
(* graph and the sheets never disagree                                     *)
(* (document_access_service.go, RequireReadResolved, RequireResolvedRead,  *)
(* ResolveReadableDocuments).                                              *)
THEOREM OnePolicyEverywhere == AccessSpec => []OnePolicy
  <1>1. OnePolicy
    <2>1. \A u \in Users : Readable(u) \subseteq Documents
      BY DEF Readable
    <2>2. \A u \in Users : ResolveReadableDocuments(u, Documents) = Readable(u)
      <3>1. \A u \in Users : ResolveReadableDocuments(u, Documents) = Readable(u) \cap Documents
        BY BulkIsSingle
      <3>2. QED
        BY <2>1, <3>1
    <2>3. \A u \in Users, d \in Documents : ResolveReadableDocuments(u, {d}) = Readable(u) \cap {d}
      BY BulkIsSingle
    <2>4. QED
      BY <2>2, <2>3, LoadedIsSingle DEF OnePolicy
  <1>2. QED
    BY <1>1, PTL

(* The list shows what can be opened, and to participants and substitutes  *)
(* nothing else (access_filter.go, applyDocumentListAccess).               *)
THEOREM ListShowsTheReadable == AccessSpec => []ListMatchesCard
  <1>1. ListMatchesCard
    <2> SUFFICES ASSUME NEW u \in Users
        PROVE  LET listed == UNION {ListedDocuments(u, k) : k \in Kinds}
               IN  /\ Readable(u) \subseteq listed
                   /\ u \in participants \/ Subjects(u) # {u} => listed = Readable(u)
      BY DEF ListMatchesCard
    <2> DEFINE listed == UNION {ListedDocuments(u, k) : k \in Kinds}
    <2>1. ASSUME NEW d \in Documents
          PROVE  d \in listed <=>
                   RequireDomainRead(u) /\ ListAccess(ResolveReadScope(u, KindOf[d]), d)
      BY DEF ListedDocuments
    <2>2. ASSUME NEW d \in Documents
          PROVE  /\ d \in Readable(u) => d \in listed
                 /\ u \in participants \/ Subjects(u) # {u} => (d \in listed => d \in Readable(u))
      BY <2>1, Several DEF Readable, RequireReadResolved, CanReadResolved, HasImplicitReadAccess,
                           ListAccess, ResolveReadScope
    <2>3. listed \subseteq Documents /\ Readable(u) \subseteq Documents
      BY DEF ListedDocuments, Readable
    <2>4. QED
      BY <2>2, <2>3
  <1>2. QED
    BY <1>1, PTL

-----------------------------------------------------------------------------
(* Withdrawing.                                                            *)

(* With less of every fact, whoever passes a gate or a check passed it     *)
(* before; in particular nobody falls back to a department of more.        *)
LEMMA LessIsLess ==
    ASSUME AccessTypeOK, AccessTypeOK', Withdrawal, NEW u \in Users
    PROVE  Readable(u)' \subseteq Readable(u)
  <1>1. Subjects(u)' \subseteq Subjects(u)
    BY DEF Withdrawal, Subjects
  <1>2. Cardinality(Subjects(u))' > 1 => Cardinality(Subjects(u)) > 1
    <2>1. Subjects(u) \subseteq Users /\ IsFiniteSet(Subjects(u))
      BY FS_Subset DEF Subjects, ActivePrincipals
    <2>2. Cardinality(Subjects(u)') <= Cardinality(Subjects(u)) /\ IsFiniteSet(Subjects(u)')
      BY <1>1, <2>1, FS_Subset
    <2>3. Cardinality(Subjects(u)') \in Nat /\ Cardinality(Subjects(u)) \in Nat
      BY <2>1, <2>2, FS_CardinalityType
    <2>4. QED
      BY <2>2, <2>3
  <1>3. Subjects(u)' # {u} => Subjects(u) # {u}
    BY <1>1 DEF Subjects
  <1>4. \A k, a : HasPermission(u, k, a)' => HasPermission(u, k, a)
    <2> SUFFICES ASSUME NEW k, NEW a, HasPermission(u, k, a)' PROVE HasPermission(u, k, a)
      OBVIOUS
    <2>1. CASE <<u, k, a>> \in grants'
      BY <2>1 DEF Withdrawal, HasPermission
    <2>2. CASE <<departmentOf'[u], k, a>> \in DepartmentGrants
      <3>1. departmentOf'[u] \in Departments
        BY <2>2
      <3>2. departmentOf'[u] = departmentOf[u]
        BY <3>1 DEF Withdrawal
      <3>3. QED
        BY <2>2, <3>2 DEF HasPermission
    <2>3. QED
      BY <2>1, <2>2 DEF HasPermission
  <1>5. DepartmentNomenclatures(u)' \subseteq DepartmentNomenclatures(u)
    BY DEF Withdrawal, DepartmentNomenclatures, AccessTypeOK, NoDepartment
  <1>6. \A d \in Documents :
          /\ ExecutesIn(Subjects(u), d)' => ExecutesIn(Subjects(u), d)
          /\ AcknowledgesIn(Subjects(u), d)' => AcknowledgesIn(Subjects(u), d)
    BY <1>1 DEF Withdrawal, ExecutesIn, AcknowledgesIn
  <1>7. participants' \subseteq participants
    BY DEF Withdrawal
  <1>8. RequireDomainRead(u)' => RequireDomainRead(u)
    BY <1>3, <1>4, <1>7 DEF RequireDomainRead, HasAnyDocumentPermission
  <1>9. \A d \in Documents : CanReadResolved(u, d)' => CanReadResolved(u, d)
    BY <1>2, <1>4, <1>5, <1>6, <1>7 DEF CanReadResolved, HasImplicitReadAccess
  <1>10. QED
    BY <1>8, <1>9 DEF Readable, RequireReadResolved

(* No withdrawal opens a document (document_access_service.go,             *)
(* hasImplicitReadAccess: its two ways in do not exclude each other).      *)
THEOREM NoWithdrawalOpens == AccessSpec => WithdrawalOpensNothing
  <1>1. AccessTypeOK /\ AccessTypeOK' =>
          (Withdrawal => \A u \in Users : Readable(u)' \subseteq Readable(u))
    BY LessIsLess
  <1>2. QED
    BY <1>1, AccessTypeCorrect, PTL DEF WithdrawalOpensNothing
=============================================================================
