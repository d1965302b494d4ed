----------------------------- MODULE Attachments -----------------------------
(***************************************************************************)
(* Files attached to documents: a row in PostgreSQL, an object in MinIO,   *)
(* and the count of the stored files that the statistics show.             *)
(*                                                                         *)
(* internal/services/attachment.go, internal/repository/attachment.go, the *)
(* consumer of attachment_delete events in internal/outbox/worker.go, and  *)
(* the storage aggregate of internal/repository/statistics_repo.go with    *)
(* its refresh in internal/services/statistics_service.go.                 *)
(*                                                                         *)
(* No transaction spans the two stores, so every call of either is a step. *)
(* Of the outbox this module keeps what EffectDelivery promises: an event  *)
(* that was committed is delivered at least once, by any worker and, when  *)
(* a claim goes stale, by several at a time.                               *)
(***************************************************************************)
EXTENDS Integers, FiniteSets

CONSTANTS Files,       \* attachments, by their object names
          OldFiles,    \* those stored before, and before the date of a bulk deletion
          Clients,     \* users, each with one call in flight
          Workers,     \* outbox workers of the running copies of the application
          Scanners,    \* calls that refresh the storage statistics
          FaultBound,  \* bound: calls that fail and processes that die
          RequeueBound \* bound: requeues of a failed event

ASSUME AttachmentsAssumption ==
    /\ OldFiles \subseteq Files /\ IsFiniteSet(Files)
    /\ FaultBound \in Nat /\ RequeueBound \in Nat

VARIABLES rows,     \* attachments: none, live, deleting (a tombstone), gone
          objects,  \* the names in the bucket
          events,   \* attachment_delete events: none, pending, failed, done
          journal,  \* per file, whose deletion the journal event records
          audit,    \* the audit event of the bulk deletion: who, and how many
          ops,      \* per client, the call in flight
          work,     \* per worker, the delivery in hand
          scans,    \* per scanner, the refresh in hand
          lease,    \* the scanner whose token the aggregate carries
          total,    \* storage_statistics.object_count
          acked,    \* history: uploads that were answered with success
          counted,  \* history: no refresh has upset the total
          faults, requeues

stores == <<rows, objects>>
intents == <<events, journal, audit>>
figures == <<lease, total, counted>>
bounds == <<faults, requeues>>
vars == <<stores, intents, ops, work, scans, figures, acked, bounds>>

Nobody == "nobody"
Idle == [at |-> "idle", files |-> {}]
NoAudit == [user |-> Nobody, count |-> 0]

Op == [at : {"idle", "put", "row", "undo", "delete", "bulk"}, files : SUBSET Files]
Work == [at : {"idle", "object", "row", "mark"}, files : SUBSET Files]
Scan == [at : {"idle", "list", "save"}, files : SUBSET Files]

Stored == {f \in Files : rows[f] \in {"live", "deleting"}}

(* An earlier version left tombstones without an event for the worker.     *)
Init ==
    /\ rows \in {r \in [Files -> {"none", "live", "deleting"}] :
                    \A f \in Files : r[f] # "none" <=> f \in OldFiles}
    /\ objects = OldFiles
    /\ events = [f \in Files |-> "none"]
    /\ journal = [f \in Files |-> Nobody]
    /\ audit = NoAudit
    /\ ops = [c \in Clients |-> Idle]
    /\ work = [w \in Workers |-> Idle]
    /\ scans = [s \in Scanners |-> Idle]
    /\ lease = Nobody
    /\ total = Cardinality(OldFiles)
    /\ acked = {}
    /\ counted = TRUE
    /\ faults = 0 /\ requeues = 0

(* A call fails or a process dies.                                         *)
Fault == faults < FaultBound /\ faults' = faults + 1 /\ UNCHANGED requeues

Goes(c, at) == ops' = [ops EXCEPT ![c].at = at]
Returns(c) == ops' = [ops EXCEPT ![c] = Idle]

-----------------------------------------------------------------------------
(* Upload: the object first, then the row, the total and the journal event *)
(* in one transaction.                                                     *)

(* A new name is drawn for the object.                                     *)
StartUpload(c, f) ==
    /\ ops[c] = Idle
    /\ rows[f] = "none" /\ f \notin objects
    /\ \A d \in Clients : f \notin ops[d].files
    /\ ops' = [ops EXCEPT ![c] = [at |-> "put", files |-> {f}]]
    /\ UNCHANGED <<stores, intents, work, scans, figures, acked, bounds>>

Put(c) ==
    /\ ops[c].at = "put"
    /\ objects' = objects \union ops[c].files
    /\ Goes(c, "row")
    /\ UNCHANGED <<rows, intents, work, scans, figures, acked, bounds>>

(* An error may come after the object was stored; nothing is undone.       *)
PutFails(c) ==
    /\ ops[c].at = "put"
    /\ objects' \in {objects, objects \union ops[c].files}
    /\ Returns(c)
    /\ Fault
    /\ UNCHANGED <<rows, intents, work, scans, figures, acked>>

(* CreateWithOutbox and incrementStorageStatisticsTx                       *)
Committed(f) ==
    /\ rows' = [rows EXCEPT ![f] = "live"]
    /\ total' = total + 1

CreateRow(c) ==
    /\ ops[c].at = "row"
    /\ \E f \in ops[c].files : Committed(f)
    /\ acked' = acked \union ops[c].files
    /\ Returns(c)
    /\ UNCHANGED <<objects, intents, work, scans, lease, counted, bounds>>

(* The transaction fails, or commits and its answer is lost: either way    *)
(* the object is removed again.                                            *)
CreateRowFails(c) ==
    /\ ops[c].at = "row"
    /\ \/ \E f \in ops[c].files : Committed(f)
       \/ UNCHANGED <<rows, total>>
    /\ Goes(c, "undo")
    /\ Fault
    /\ UNCHANGED <<objects, intents, work, scans, lease, counted, acked>>

Undo(c) ==
    /\ ops[c].at = "undo"
    /\ objects' = objects \ ops[c].files
    /\ Returns(c)
    /\ UNCHANGED <<rows, intents, work, scans, figures, acked, bounds>>

(* The client's process dies, or the compensating removal fails, which is  *)
(* ignored, or the transaction of a deletion fails and rolls back.         *)
Abandon(c) ==
    /\ ops[c].at \in {"put", "row", "undo", "delete", "bulk"}
    /\ Returns(c)
    /\ Fault
    /\ UNCHANGED <<stores, intents, work, scans, figures, acked>>

-----------------------------------------------------------------------------
(* Deletion: the rows are read, and a transaction hides them and commits   *)
(* the events together.                                                    *)
ReadOne(c, f) ==
    /\ ops[c] = Idle
    /\ rows[f] = "live"
    /\ ops' = [ops EXCEPT ![c] = [at |-> "delete", files |-> {f}]]
    /\ UNCHANGED <<stores, intents, work, scans, figures, acked, bounds>>

(* GetOlderThan                                                            *)
ReadOld(c) ==
    LET old == {f \in OldFiles : rows[f] = "live"} IN
    /\ ops[c] = Idle
    /\ old # {}
    /\ ops' = [ops EXCEPT ![c] = [at |-> "bulk", files |-> old]]
    /\ UNCHANGED <<stores, intents, work, scans, figures, acked, bounds>>

(* The journal and audit events of a deletion name its user, and their     *)
(* keys do not: EnqueueTx refuses a second user, and the transaction rolls *)
(* back.  (The attachment_delete event of a file is always the same.)      *)
KeysAccepted(c) ==
    /\ ops[c].at = "delete" => \A f \in ops[c].files : journal[f] \in {Nobody, c}
    /\ ops[c].at = "bulk" =>
         audit \in {NoAudit, [user |-> c, count |-> Cardinality(ops[c].files)]}

(* Mutant: the event is committed, the row stays visible.                  *)
EnqueueOnly(fs) ==
    /\ rows' = rows
    /\ events' = [f \in Files |-> IF f \in fs /\ events[f] = "none" THEN "pending"
                                  ELSE events[f]]

Tombstone(fs) ==
    /\ rows' = [f \in Files |-> IF f \in fs /\ rows[f] = "live" THEN "deleting" ELSE rows[f]]
    /\ events' = [f \in Files |-> IF f \in fs /\ events[f] = "none" THEN "pending"
                                  ELSE events[f]]

Hide(c) ==
    /\ ops[c].at \in {"delete", "bulk"}
    /\ KeysAccepted(c)
    /\ Tombstone(ops[c].files)
    /\ IF ops[c].at = "delete"
       THEN /\ journal' = [f \in Files |-> IF f \in ops[c].files THEN c ELSE journal[f]]
            /\ UNCHANGED audit
       ELSE /\ audit' = [user |-> c, count |-> Cardinality(ops[c].files)]
            /\ UNCHANGED journal
    /\ Returns(c)
    /\ UNCHANGED <<objects, work, scans, figures, acked, bounds>>

HideRefused(c) ==
    /\ ops[c].at \in {"delete", "bulk"}
    /\ ~KeysAccepted(c)
    /\ Returns(c)
    /\ UNCHANGED <<stores, intents, work, scans, figures, acked, bounds>>

(* EnqueuePendingDeletions, at every start of the application.             *)
EnqueuePending(f) ==
    /\ rows[f] = "deleting" /\ events[f] = "none"
    /\ events' = [events EXCEPT ![f] = "pending"]
    /\ UNCHANGED <<stores, journal, audit, ops, work, scans, figures, acked, bounds>>

-----------------------------------------------------------------------------
(* Delivery of the events.                                                 *)
Take(w, f) ==
    /\ work[w] = Idle
    /\ events[f] = "pending"
    /\ work' = [work EXCEPT ![w] = [at |-> "object", files |-> {f}]]
    /\ UNCHANGED <<stores, intents, ops, scans, figures, acked, bounds>>

(* Mutant: an error of the bucket is taken for success.                    *)
ErrorIgnored(w) == objects' \in {objects, objects \ work[w].files}

(* RemoveObject succeeds for a name that is not there.                     *)
Removal(w) == objects' = objects \ work[w].files

RemoveObject(w) ==
    /\ work[w].at = "object"
    /\ Removal(w)
    /\ work' = [work EXCEPT ![w].at = "row"]
    /\ UNCHANGED <<rows, intents, ops, scans, figures, acked, bounds>>

(* Mutant: the total goes down without a look at the row.                  *)
AlwaysCount(f) ==
    /\ rows' = [rows EXCEPT ![f] = "gone"]
    /\ total' = IF total > 0 THEN total - 1 ELSE 0

(* DeleteMarkedAndDecrementStorageStatistics                               *)
DeleteMarked(f) ==
    IF rows[f] = "deleting"
    THEN /\ rows' = [rows EXCEPT ![f] = "gone"]
         /\ total' = IF total > 0 THEN total - 1 ELSE 0
    ELSE UNCHANGED <<rows, total>>

RemoveRow(w) ==
    /\ work[w].at = "row"
    /\ \E f \in work[w].files : DeleteMarked(f)
    /\ work' = [work EXCEPT ![w].at = "mark"]
    /\ UNCHANGED <<objects, intents, ops, scans, lease, counted, acked, bounds>>

MarkProcessed(w) ==
    /\ work[w].at = "mark"
    /\ events' = [f \in Files |-> IF f \in work[w].files THEN "done" ELSE events[f]]
    /\ work' = [work EXCEPT ![w] = Idle]
    /\ UNCHANGED <<stores, journal, audit, ops, scans, figures, acked, bounds>>

(* Mutant: an event whose delivery failed is marked as processed.          *)
FailureMarked(w) ==
    events' = [f \in Files |-> IF f \in work[w].files THEN "done" ELSE events[f]]

(* The event waits for a retry, or has had its last one.                   *)
Attempted(w) ==
    \/ events' = [f \in Files |-> IF f \in work[w].files /\ events[f] = "pending"
                                  THEN "failed" ELSE events[f]]
    \/ UNCHANGED events

(* The delivery fails or the worker dies; the object may be removed.       *)
DeliveryFails(w) ==
    /\ work[w] # Idle
    /\ objects' \in IF work[w].at = "object" THEN {objects, objects \ work[w].files}
                    ELSE {objects}
    /\ Attempted(w)
    /\ work' = [work EXCEPT ![w] = Idle]
    /\ Fault
    /\ UNCHANGED <<rows, journal, audit, ops, scans, figures, acked>>

Requeue(f) ==
    /\ requeues < RequeueBound
    /\ events[f] = "failed"
    /\ events' = [events EXCEPT ![f] = "pending"]
    /\ requeues' = requeues + 1
    /\ UNCHANGED <<stores, journal, audit, ops, work, scans, figures, acked, faults>>

-----------------------------------------------------------------------------
(* The refresh of the total.                                               *)

(* A lease that another scanner holds may have run out.                    *)
StartRefresh(s) ==
    /\ scans[s] = Idle
    /\ lease' = s
    /\ scans' = [scans EXCEPT ![s].at = "list"]
    /\ UNCHANGED <<stores, intents, ops, work, total, counted, acked, bounds>>

(* The listing, as if the whole bucket were read at one moment.            *)
List(s) ==
    /\ scans[s].at = "list"
    /\ scans' = [scans EXCEPT ![s] = [at |-> "save", files |-> objects]]
    /\ UNCHANGED <<stores, intents, ops, work, figures, acked, bounds>>

(* The total is replaced, whatever has happened since the listing; a       *)
(* scanner that has lost its lease saves nothing.                          *)
Save(s) ==
    /\ scans[s].at = "save"
    /\ IF lease = s
       THEN /\ total' = Cardinality(scans[s].files)
            /\ counted' = (Cardinality(scans[s].files) = Cardinality(Stored))
            /\ lease' = Nobody
       ELSE UNCHANGED figures
    /\ scans' = [scans EXCEPT ![s] = Idle]
    /\ UNCHANGED <<stores, intents, ops, work, acked, bounds>>

(* The listing fails and the lease is given back, or the process dies.     *)
RefreshFails(s) ==
    /\ scans[s] # Idle
    /\ \/ lease' = IF lease = s THEN Nobody ELSE lease
       \/ UNCHANGED lease
    /\ scans' = [scans EXCEPT ![s] = Idle]
    /\ Fault
    /\ UNCHANGED <<stores, intents, ops, work, total, counted, acked>>

-----------------------------------------------------------------------------
Delivery(w) == RemoveObject(w) \/ RemoveRow(w) \/ MarkProcessed(w)

Next ==
    \/ \E c \in Clients :
         \/ \E f \in Files : StartUpload(c, f) \/ ReadOne(c, f)
         \/ Put(c) \/ PutFails(c) \/ CreateRow(c) \/ CreateRowFails(c) \/ Undo(c)
         \/ Abandon(c) \/ ReadOld(c) \/ Hide(c) \/ HideRefused(c)
    \/ \E f \in Files : EnqueuePending(f) \/ Requeue(f)
    \/ \E w \in Workers :
         \/ \E f \in Files : Take(w, f)
         \/ Delivery(w) \/ DeliveryFails(w)
    \/ \E s \in Scanners : StartRefresh(s) \/ List(s) \/ Save(s) \/ RefreshFails(s)

Spec == Init /\ [][Next]_vars

(* Workers poll for ever, and the application is started again.            *)
Fairness ==
    /\ \A f \in Files : WF_vars(EnqueuePending(f)) /\ WF_vars(\E w \in Workers : Take(w, f))
    /\ \A w \in Workers : WF_vars(Delivery(w))

LiveSpec == Spec /\ Fairness

-----------------------------------------------------------------------------
(* Properties.                                                             *)

(* Types; the total never goes below zero, whatever a refresh has made of  *)
(* it (CHECK (object_count >= 0)).                                         *)
TypeOK ==
    /\ rows \in [Files -> {"none", "live", "deleting", "gone"}]
    /\ objects \subseteq Files
    /\ events \in [Files -> {"none", "pending", "failed", "done"}]
    /\ journal \in [Files -> Clients \union {Nobody}]
    /\ audit \in [user : Clients \union {Nobody}, count : Nat]
    /\ ops \in [Clients -> Op]
    /\ work \in [Workers -> Work]
    /\ scans \in [Scanners -> Scan]
    /\ lease \in Scanners \union {Nobody}
    /\ total \in Nat
    /\ acked \subseteq Files
    /\ counted \in BOOLEAN
    /\ faults \in 0..FaultBound /\ requeues \in 0..RequeueBound

(* A file whose upload was answered with success, and every file that was  *)
(* stored before, has its object as long as its row is visible, through    *)
(* failing calls, crashes and repeated deliveries of other deletions ("a   *)
(* later database failure cannot leave a visible broken link",             *)
(* services/attachment.go:314-315).                                        *)
VisibleIsReadable ==
    \A f \in acked \union OldFiles : rows[f] = "live" => f \in objects

(* A deletion that was carried out leaves no object behind, and a file     *)
(* that still has a row is not lost sight of: what the bucket holds beyond *)
(* the rows are uploads in flight and uploads that failed.                 *)
DeletionLeavesNoObject == \A f \in Files : rows[f] = "gone" => f \notin objects

(* However often a deletion is delivered and retried, the total is counted *)
(* down once for it: unless a refresh overlapped a change, the total is    *)
(* the number of the stored files.                                         *)
TotalIsExact == counted => total = Cardinality(Stored)

(* A deletion that a user was promised is carried out in the end, however  *)
(* the first attempts go, or its event is shown as failed to the           *)
(* administrator, who may requeue it.                                      *)
DeletionCompletes ==
    \A f \in Files : (rows[f] = "deleting") ~> (rows[f] = "gone" \/ events[f] = "failed")
=============================================================================
