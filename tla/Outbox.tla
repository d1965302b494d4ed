------------------------------- MODULE Outbox -------------------------------
(***************************************************************************)
(* The transactional outbox: producers insert a row of event_outbox in the *)
(* transaction of their business change, and one worker per running copy   *)
(* of the application claims due rows in batches, applies their effect and *)
(* marks the row processed or failed.                                      *)
(*                                                                         *)
(* internal/repository/outbox_repo.go  (the table)                         *)
(* internal/outbox/worker.go           (the polling loop)                  *)
(*                                                                         *)
(* Every SQL statement is one atomic step.  Time is abstracted to what the *)
(* statements compare: whether available_at has passed (delayed) and       *)
(* whether a claim is older than staleClaimTimeout ("stale").  A claim may *)
(* become stale while its owner is still working: a batch is processed one *)
(* event after the other, up to 50 events of 30 seconds each, and the      *)
(* timeout is five minutes from the claim of the whole batch.              *)
(***************************************************************************)
EXTENDS Naturals, Sequences, FiniteSets

CONSTANTS Keys,         \* deduplication keys; a row is named by its key
          Contents,     \* event type and payload, told apart by equality only
          Workers,      \* running copies of the application
          CtxBound,     \* keys of events whose consumer obeys the context
          Poison,       \* keys of events no consumer can handle
          MaxAttempts,  \* maxAttempts of the worker
          BatchLimit,   \* events claimed at once
          FaultBound,   \* bound: crashes, stops and database errors
          RequeueBound, \* bound: administrative requeues of a row
          NoContent     \* no row has this key

ASSUME OutboxAssumption ==
    /\ CtxBound \subseteq Keys
    /\ Poison \subseteq Keys
    /\ MaxAttempts \in Nat \ {0}
    /\ BatchLimit \in Nat \ {0}
    /\ FaultBound \in Nat
    /\ RequeueBound \in Nat
    /\ NoContent \notin Contents

VARIABLES row,        \* event_outbox
          promised,   \* <<key, content>> of the business changes committed
          applied,    \* per key, the effects in the consumer's own table
          pc,         \* where each worker's loop is
          batch,      \* events a worker claimed and has not taken up
          cur,        \* the event a worker is delivering
          cancelled,  \* the worker's context is cancelled
          faults,     \* disruptions so far
          requeues    \* per key, its requeues so far

tableVars  == <<row, promised, applied>>
workerVars == <<pc, batch, cur, cancelled>>
vars == <<row, promised, applied, pc, batch, cur, cancelled, faults, requeues>>

-----------------------------------------------------------------------------
(* Claim: processing_started_at is null, recent, or older than the stale   *)
(* claim timeout.                                                          *)
ClaimAge == {"none", "fresh", "stale"}

Row == [content : Contents \union {NoContent}, claim : ClaimAge, processed : BOOLEAN,
        failed : BOOLEAN, attempts : Nat, delayed : BOOLEAN]

NoRow == [content |-> NoContent, claim |-> "none", processed |-> FALSE,
          failed |-> FALSE, attempts |-> 0, delayed |-> FALSE]

(* What ClaimPending returns of a row: a snapshot, attempts included.      *)
Event == [key : Keys, content : Contents, attempts : Nat]

NoEvent == [key |-> NoContent, content |-> NoContent, attempts |-> 0]

Exists(k) == row[k].content # NoContent

Init ==
    /\ row = [k \in Keys |-> NoRow]
    /\ promised = {}
    /\ applied = [k \in Keys |-> <<>>]
    /\ pc = [w \in Workers |-> "idle"]
    /\ batch = [w \in Workers |-> {}]
    /\ cur = [w \in Workers |-> NoEvent]
    /\ cancelled = [w \in Workers |-> FALSE]
    /\ faults = 0
    /\ requeues = [k \in Keys |-> 0]

-----------------------------------------------------------------------------
(* Producers.                                                              *)

(* Mutant: ON CONFLICT DO NOTHING, without looking at the affected rows.   *)
EnqueueAlways(k, c) == TRUE

(* The upsert touches a row only if type and payload are the stored ones;  *)
(* zero rows affected is ErrOutboxDeduplicationConflict.                   *)
EnqueueAccepts(k, c) == row[k].content \in {NoContent, c}

(* EnqueueTx inside a business transaction that commits.  On a conflict    *)
(* the producer returns the error and its transaction rolls back.          *)
Enqueue(k, c) ==
    /\ EnqueueAccepts(k, c)
    /\ row' = IF Exists(k) THEN row
              ELSE [row EXCEPT ![k] = [NoRow EXCEPT !.content = c]]
    /\ promised' = promised \union {<<k, c>>}
    /\ UNCHANGED <<applied, workerVars, faults, requeues>>

-----------------------------------------------------------------------------
(* The worker's loop.                                                      *)

Due == {k \in Keys : /\ Exists(k)
                     /\ ~row[k].processed
                     /\ ~row[k].failed
                     /\ row[k].claim = "none"
                     /\ ~row[k].delayed}

(* Mutant: the reaper compares the claim time the wrong way round.         *)
StaleReversed(k) == ~row[k].processed /\ ~row[k].failed /\ row[k].claim = "fresh"

Stale(k) == ~row[k].processed /\ ~row[k].failed /\ row[k].claim = "stale"

(* The ticker fires: every iteration first releases the stale claims, of   *)
(* whatever worker.  A failing statement is only logged.                   *)
ReleaseStaleClaims(w) ==
    /\ pc[w] = "idle"
    /\ row' = [k \in Keys |-> IF Stale(k) THEN [row[k] EXCEPT !.claim = "none"]
                                          ELSE row[k]]
    /\ pc' = [pc EXCEPT ![w] = "claim"]
    /\ UNCHANGED <<promised, applied, batch, cur, cancelled, faults, requeues>>

ReleaseFails(w) ==
    /\ pc[w] = "idle"
    /\ faults < FaultBound
    /\ faults' = faults + 1
    /\ pc' = [pc EXCEPT ![w] = "claim"]
    /\ UNCHANGED <<tableVars, batch, cur, cancelled, requeues>>

(* Up to a batch of due rows.  ORDER BY created_at ranks them by the start *)
(* of the producing transactions, which says nothing about the order of    *)
(* the commits and ties inside a transaction: any rows may come first.     *)
FirstDue(S) ==
    /\ S \subseteq Due
    /\ Cardinality(S) <= BatchLimit
    /\ S # Due => Cardinality(S) = BatchLimit

(* The event handed to the worker is the row after the update.             *)
EventOf(k) == [key |-> k, content |-> row[k].content, attempts |-> row[k].attempts + 1]

(* Leaving ProcessOnceContext: with the batch done, or on the first        *)
(* database error, which leaves the rest of the batch claimed.             *)
LeaveBatch(w) ==
    /\ pc' = [pc EXCEPT ![w] = "idle"]
    /\ batch' = [batch EXCEPT ![w] = {}]
    /\ cur' = [cur EXCEPT ![w] = NoEvent]

Fault == faults < FaultBound /\ faults' = faults + 1

(* The claim commits; the worker learns it, or takes a commit whose answer *)
(* is lost for an error and forgets the batch.                             *)
ClaimPending(w) ==
    /\ pc[w] = "claim"
    /\ \E S \in SUBSET Keys :
         /\ FirstDue(S)
         /\ row' = [k \in Keys |->
                      IF k \in S THEN [row[k] EXCEPT !.claim = "fresh", !.attempts = @ + 1]
                                 ELSE row[k]]
         /\ \/ /\ batch' = [batch EXCEPT ![w] = {EventOf(k) : k \in S}]
               /\ pc' = [pc EXCEPT ![w] = "deliver"]
               /\ UNCHANGED <<cur, faults>>
            \/ Fault /\ LeaveBatch(w)
    /\ UNCHANGED <<promised, applied, cancelled, requeues>>

(* The statement at hand fails and changes nothing.                        *)
DatabaseError(w) ==
    /\ pc[w] \in {"claim", "ack", "nack"}
    /\ Fault
    /\ LeaveBatch(w)
    /\ UNCHANGED <<tableVars, cancelled, requeues>>

BatchDone(w) ==
    /\ pc[w] = "deliver"
    /\ batch[w] = {}
    /\ LeaveBatch(w)
    /\ UNCHANGED <<tableVars, cancelled, faults, requeues>>

-----------------------------------------------------------------------------
(* One event.                                                              *)

(* Mutant: a consumer that swallows the error.                             *)
OutcomesSwallowed(w, e) == [commits : BOOLEAN, succeeds : BOOLEAN]

(* What may happen to the event when worker w hands it to its consumer:    *)
(* whether the effect commits and whether the worker is told so.  An error *)
(* may come after the commit (a lost answer, a deadline, the read-back of  *)
(* a user event).  The journal and the file store obey the context, the    *)
(* user events and the administrative audit take none.                     *)
Outcomes(w, e) ==
    IF e.key \in Poison \/ (cancelled[w] /\ e.key \in CtxBound)
    THEN {[commits |-> FALSE, succeeds |-> FALSE]}
    ELSE {o \in [commits : BOOLEAN, succeeds : BOOLEAN] : o.succeeds => o.commits}

(* Mutant: a plain INSERT.                                                 *)
ApplyAgain(k, c) == [applied EXCEPT ![k] = Append(@, c)]

(* INSERT ... ON CONFLICT (deduplication_key) DO NOTHING in the consumer's *)
(* table; deleting a deleted object or attachment row is no change either. *)
ApplyOnce(k, c) ==
    [applied EXCEPT ![k] = IF @ = <<>> THEN <<c>> ELSE @]

Deliver(w) ==
    /\ pc[w] = "deliver"
    /\ \E e \in batch[w], o \in [commits : BOOLEAN, succeeds : BOOLEAN] :
         /\ o \in Outcomes(w, e)
         /\ applied' = IF o.commits THEN ApplyOnce(e.key, e.content) ELSE applied
         /\ cur' = [cur EXCEPT ![w] = e]
         /\ batch' = [batch EXCEPT ![w] = @ \ {e}]
         /\ pc' = [pc EXCEPT ![w] = IF o.succeeds THEN "ack" ELSE "nack"]
    /\ UNCHANGED <<row, promised, cancelled, faults, requeues>>

(* A marking statement has committed: the worker takes the next event, or  *)
(* the answer is lost and it leaves the batch.                             *)
Marked(w) ==
    \/ /\ pc' = [pc EXCEPT ![w] = "deliver"]
       /\ cur' = [cur EXCEPT ![w] = NoEvent]
       /\ UNCHANGED <<batch, faults>>
    \/ Fault /\ LeaveBatch(w)

(* failed_at is left as it is.                                             *)
AsProcessed(r) ==
    IF r.processed THEN r ELSE [r EXCEPT !.processed = TRUE, !.claim = "none"]

MarkProcessed(w) ==
    /\ pc[w] = "ack"
    /\ row' = [row EXCEPT ![cur[w].key] = AsProcessed(@)]
    /\ Marked(w)
    /\ UNCHANGED <<promised, applied, cancelled, requeues>>

(* Mutant: without AND processed_at IS NULL.                               *)
AsFailedAlways(r, attempts) ==
    IF attempts >= MaxAttempts
    THEN [r EXCEPT !.claim = "none", !.failed = TRUE]
    ELSE [r EXCEPT !.claim = "none", !.failed = FALSE, !.delayed = TRUE]

(* Mutant: the attempt that follows is counted already.                    *)
AsFailedEarly(r, attempts) ==
    IF r.processed THEN r
    ELSE IF attempts + 1 >= MaxAttempts
         THEN [r EXCEPT !.claim = "none", !.failed = TRUE]
         ELSE [r EXCEPT !.claim = "none", !.failed = FALSE, !.delayed = TRUE]

(* The number of attempts is the one of the worker's snapshot, not the     *)
(* row's; below the limit failed_at is set to NULL.                        *)
AsFailed(r, attempts) ==
    IF r.processed THEN r
    ELSE IF attempts >= MaxAttempts
         THEN [r EXCEPT !.claim = "none", !.failed = TRUE]
         ELSE [r EXCEPT !.claim = "none", !.failed = FALSE, !.delayed = TRUE]

MarkFailed(w) ==
    /\ pc[w] = "nack"
    /\ row' = [row EXCEPT ![cur[w].key] = AsFailed(@, cur[w].attempts)]
    /\ Marked(w)
    /\ UNCHANGED <<promised, applied, cancelled, requeues>>

-----------------------------------------------------------------------------
(* The administrator, the clock and the processes.                         *)

(* Requeue of the administration service: one guarded statement.           *)
Requeue(k) ==
    /\ Exists(k) /\ ~row[k].processed /\ row[k].failed
    /\ requeues[k] < RequeueBound
    /\ requeues' = [requeues EXCEPT ![k] = @ + 1]
    /\ row' = [row EXCEPT ![k] = [@ EXCEPT !.claim = "none", !.failed = FALSE,
                                           !.attempts = 0, !.delayed = FALSE]]
    /\ UNCHANGED <<promised, applied, workerVars, faults>>

(* available_at passes: the retry delay is at most an hour.                *)
DelayElapses(k) ==
    /\ row[k].delayed
    /\ row' = [row EXCEPT ![k] = [@ EXCEPT !.delayed = FALSE]]
    /\ UNCHANGED <<promised, applied, workerVars, faults, requeues>>

(* Five minutes pass.  All open claims age together: a claim that is       *)
(* younger in the program is one taken after this step in the model.       *)
ClaimsAge ==
    /\ \E k \in Keys : row[k].claim = "fresh"
    /\ row' = [k \in Keys |-> IF row[k].claim = "fresh"
                              THEN [row[k] EXCEPT !.claim = "stale"] ELSE row[k]]
    /\ UNCHANGED <<promised, applied, workerVars, faults, requeues>>

(* The process dies between two statements: the batch is forgotten.        *)
Crash(w) ==
    /\ pc[w] # "stopped"
    /\ Fault
    /\ pc' = [pc EXCEPT ![w] = "stopped"]
    /\ batch' = [batch EXCEPT ![w] = {}]
    /\ cur' = [cur EXCEPT ![w] = NoEvent]
    /\ UNCHANGED <<tableVars, cancelled, requeues>>

(* Shutdown or the preparation of a rollback cancels the context.          *)
Cancel(w) ==
    /\ pc[w] # "stopped" /\ ~cancelled[w]
    /\ Fault
    /\ cancelled' = [cancelled EXCEPT ![w] = TRUE]
    /\ UNCHANGED <<tableVars, pc, batch, cur, requeues>>

(* The select after an iteration sees ctx.Done.  It may as well take the   *)
(* tick if both are ready, which is ReleaseStaleClaims again.              *)
Return(w) ==
    /\ pc[w] = "idle" /\ cancelled[w]
    /\ pc' = [pc EXCEPT ![w] = "stopped"]
    /\ UNCHANGED <<tableVars, batch, cur, cancelled, faults, requeues>>

(* The application is opened again.                                        *)
Start(w) ==
    /\ pc[w] = "stopped"
    /\ pc' = [pc EXCEPT ![w] = "idle"]
    /\ cancelled' = [cancelled EXCEPT ![w] = FALSE]
    /\ UNCHANGED <<tableVars, batch, cur, faults, requeues>>

-----------------------------------------------------------------------------
(* A step of the loop that the worker takes by itself.                     *)
WorkerStep(w) ==
    \/ ReleaseStaleClaims(w) \/ ClaimPending(w) \/ Deliver(w)
    \/ MarkProcessed(w) \/ MarkFailed(w) \/ BatchDone(w) \/ Start(w)

Next ==
    \/ \E k \in Keys, c \in Contents : Enqueue(k, c)
    \/ \E w \in Workers :
         \/ WorkerStep(w)
         \/ ReleaseFails(w) \/ DatabaseError(w)
         \/ Crash(w) \/ Cancel(w) \/ Return(w)
    \/ \E k \in Keys : Requeue(k) \/ DelayElapses(k)
    \/ ClaimsAge

Spec == Init /\ [][Next]_vars

(* The loop runs while the process runs, an application that was closed is *)
(* opened again, and time passes.  Nothing is assumed about producers,     *)
(* faults and administrators.                                              *)
LiveSpec ==
    /\ Spec
    /\ \A w \in Workers : WF_vars(WorkerStep(w))
    /\ \A k \in Keys : WF_vars(DelayElapses(k))
    /\ WF_vars(ClaimsAge)

-----------------------------------------------------------------------------
(* Properties.                                                             *)

(* Types, and the shape of the loop: a worker has an event in its hands    *)
(* exactly between a delivery and its marking statement, and events of a   *)
(* batch only inside ProcessOnceContext.                                   *)
TypeOK ==
    /\ row \in [Keys -> Row]
    /\ promised \subseteq Keys \X Contents
    /\ applied \in [Keys -> Seq(Contents)]
    /\ pc \in [Workers -> {"idle", "claim", "deliver", "ack", "nack", "stopped"}]
    /\ batch \in [Workers -> SUBSET Event]
    /\ cur \in [Workers -> Event \union {NoEvent}]
    /\ cancelled \in [Workers -> BOOLEAN]
    /\ faults \in 0..FaultBound
    /\ requeues \in [Keys -> 0..RequeueBound]
    /\ \A w \in Workers : /\ cur[w] # NoEvent <=> pc[w] \in {"ack", "nack"}
                          /\ pc[w] \in {"idle", "claim", "stopped"} => batch[w] = {}

(* The worker never drops an effect: a row marked processed has its effect *)
(* in the consumer's table, whatever crashes, stale claims, lost answers   *)
(* and late marks came before.                                             *)
ProcessedImpliesDelivered ==
    \A k \in Keys : row[k].processed => applied[k] # <<>>

(* No committed business change loses its effect to another one: each key  *)
(* promised is a row, and the row says what was promised (the conflict of  *)
(* EnqueueTx turns away a second producer of the key with other content).  *)
PromiseHasItsRow ==
    \A p \in promised : row[p[1]].content = p[2]

(* A processed row is final: a late mark, the reaper of stale claims or an *)
(* administrator's requeue never revives it.                               *)
ProcessedIsFinal ==
    [][\A k \in Keys : row[k].processed =>
         row'[k].processed /\ row'[k].attempts = row[k].attempts
                           /\ row'[k].failed = row[k].failed]_vars

(* Nothing is given up early: a row is reported as a terminal failure only *)
(* after all its attempts (maxAttempts, worker.go:36), although the failure*)
(* is judged from a snapshot that other workers, the reaper and crashes    *)
(* have overtaken.  Excepted is a row that an administrator has requeued:  *)
(* a late report of an attempt from before gives it up at once.            *)
GivenUpAfterAllAttempts ==
    \A k \in Keys : row[k].failed /\ requeues[k] = 0 => row[k].attempts >= MaxAttempts

(* Every event is settled: whatever was interrupted, a row is eventually   *)
(* processed, or reported as a terminal failure to the administrator.      *)
EventuallySettled ==
    \A k \in Keys : Exists(k) ~> (row[k].processed \/ row[k].failed)

Effects == INSTANCE EffectDelivery WITH
    Keys <- Keys, Contents <- Contents, promised <- promised, applied <- applied

(* Delivery is at least once, the effect is exactly once: a consumer's     *)
(* table never holds a second effect of a key, and the one it holds says   *)
(* what the producer's committed transaction said.                         *)
ImplementsEffectDelivery == Effects!EffectSpec
=============================================================================
