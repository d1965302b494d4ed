--------------------------- MODULE Outbox_proofs ----------------------------
(***************************************************************************)
(* Proofs about the outbox, for any number of keys, contents and workers   *)
(* and for any bounds.                                                     *)
(***************************************************************************)
EXTENDS Outbox, FiniteSetTheorems, TLAPS

USE OutboxAssumption

-----------------------------------------------------------------------------
(* Types of the operators the actions are built from.                      *)

(* The marking statements and the producers' insert keep a row a row.      *)
LEMMA RowOps ==
    ASSUME NEW r \in Row, NEW n \in Nat
    PROVE  AsProcessed(r) \in Row /\ AsFailed(r, n) \in Row
  BY DEF AsProcessed, AsFailed, Row, ClaimAge

(* Updates of single columns keep a row a row.                             *)
LEMMA RowColumns ==
    ASSUME NEW r \in Row
    PROVE  /\ [r EXCEPT !.claim = "none"] \in Row
           /\ [r EXCEPT !.claim = "stale"] \in Row
           /\ [r EXCEPT !.claim = "fresh", !.attempts = @ + 1] \in Row
           /\ [r EXCEPT !.delayed = FALSE] \in Row
           /\ [r EXCEPT !.claim = "none", !.failed = FALSE, !.attempts = 0,
                        !.delayed = FALSE] \in Row
  <1>1. [r EXCEPT !.claim = "none"] \in Row
    BY DEF Row, ClaimAge
  <1>2. [r EXCEPT !.claim = "stale"] \in Row
    BY DEF Row, ClaimAge
  <1>3. [r EXCEPT !.claim = "fresh", !.attempts = @ + 1] \in Row
    <2>1. [r EXCEPT !.claim = "fresh"] \in Row
      BY DEF Row, ClaimAge
    <2>2. \A s \in Row : [s EXCEPT !.attempts = @ + 1] \in Row
      BY DEF Row
    <2>3. QED
      BY <2>1, <2>2
  <1>4. [r EXCEPT !.delayed = FALSE] \in Row
    BY DEF Row
  <1>5. [r EXCEPT !.claim = "none", !.failed = FALSE, !.attempts = 0,
                  !.delayed = FALSE] \in Row
    BY DEF Row, ClaimAge
  <1>6. QED
    BY <1>1, <1>2, <1>3, <1>4, <1>5

(* NoEvent is no event, and NoRow is a row.                                *)
LEMMA NoEventNoRow == NoEvent \notin Event /\ NoRow \in Row
  BY DEF NoEvent, Event, NoRow, Row, ClaimAge

(* The event of an existing row is an event.                               *)
LEMMA EventOfType ==
    ASSUME row \in [Keys -> Row], NEW k \in Keys, Exists(k)
    PROVE  EventOf(k) \in Event
  BY DEF EventOf, Event, Exists, Row

(* A consumer's table gains at most the promised effect.                   *)
LEMMA ApplyOnceType ==
    ASSUME applied \in [Keys -> Seq(Contents)], NEW k \in Keys, NEW c \in Contents
    PROVE  ApplyOnce(k, c) \in [Keys -> Seq(Contents)]
  <1>1. <<c>> \in Seq(Contents)
    OBVIOUS
  <1>2. QED
    BY <1>1 DEF ApplyOnce

(* The initial state is typed.                                             *)
LEMMA InitTypeOK == Init => TypeOK
  <1>1. << >> \in Seq(Contents)
    OBVIOUS
  <1>2. QED
    BY <1>1, NoEventNoRow DEF Init, TypeOK

(* Leaving a batch keeps the loop in shape.                                *)
LEMMA LeaveBatchType ==
    ASSUME TypeOK, NEW w \in Workers, LeaveBatch(w)
    PROVE  /\ pc' \in [Workers -> {"idle", "claim", "deliver", "ack", "nack", "stopped"}]
           /\ batch' \in [Workers -> SUBSET Event]
           /\ cur' \in [Workers -> Event \union {NoEvent}]
           /\ \A v \in Workers : /\ cur'[v] # NoEvent <=> pc'[v] \in {"ack", "nack"}
                                 /\ pc'[v] \in {"idle", "claim", "stopped"} => batch'[v] = {}
  BY DEF LeaveBatch, TypeOK

(* Every step keeps the types: the inductive step of TypeCorrect.          *)
LEMMA NextTypeOK == TypeOK /\ [Next]_vars => TypeOK'
  <1> SUFFICES ASSUME TypeOK, [Next]_vars PROVE TypeOK'
    OBVIOUS
  <1>1. ASSUME NEW k \in Keys, NEW c \in Contents, Enqueue(k, c) PROVE TypeOK'
    <2>1. [NoRow EXCEPT !.content = c] \in Row
      BY DEF NoRow, Row, ClaimAge
    <2>2. row' \in [Keys -> Row]
      BY <1>1, <2>1 DEF Enqueue, TypeOK
    <2>3. QED
      BY <1>1, <2>2 DEF Enqueue, TypeOK, workerVars
  <1>2. ASSUME NEW w \in Workers, ReleaseStaleClaims(w) PROVE TypeOK'
    <2>1. row' \in [Keys -> Row]
      BY <1>2, RowColumns DEF ReleaseStaleClaims, TypeOK
    <2>2. QED
      BY <1>2, <2>1 DEF ReleaseStaleClaims, TypeOK
  <1>3. ASSUME NEW w \in Workers, ReleaseFails(w) PROVE TypeOK'
    BY <1>3 DEF ReleaseFails, TypeOK, tableVars
  <1>4. ASSUME NEW w \in Workers, ClaimPending(w) PROVE TypeOK'
    <2>1. PICK S \in SUBSET Keys :
            /\ FirstDue(S)
            /\ row' = [k \in Keys |->
                 IF k \in S THEN [row[k] EXCEPT !.claim = "fresh", !.attempts = @ + 1]
                            ELSE row[k]]
            /\ \/ /\ batch' = [batch EXCEPT ![w] = {EventOf(k) : k \in S}]
                  /\ pc' = [pc EXCEPT ![w] = "deliver"]
                  /\ UNCHANGED <<cur, faults>>
               \/ Fault /\ LeaveBatch(w)
      BY <1>4 DEF ClaimPending
    <2>2. row' \in [Keys -> Row]
      BY <2>1, RowColumns DEF TypeOK
    <2>3. \A k \in S : EventOf(k) \in Event
      BY <2>1, EventOfType DEF FirstDue, Due, TypeOK
    <2>4. CASE /\ batch' = [batch EXCEPT ![w] = {EventOf(k) : k \in S}]
               /\ pc' = [pc EXCEPT ![w] = "deliver"]
               /\ UNCHANGED <<cur, faults>>
      <3>1. batch' \in [Workers -> SUBSET Event]
        BY <2>3, <2>4 DEF TypeOK
      <3>2. cur[w] = NoEvent
        BY <1>4 DEF ClaimPending, TypeOK
      <3>3. QED
        <4>1. UNCHANGED <<promised, applied, cancelled, requeues, cur, faults>>
          BY <1>4, <2>4 DEF ClaimPending
        <4>2. /\ pc' \in [Workers -> {"idle", "claim", "deliver", "ack", "nack", "stopped"}]
              /\ pc'[w] = "deliver"
              /\ \A v \in Workers \ {w} : pc'[v] = pc[v] /\ batch'[v] = batch[v]
          BY <2>4 DEF TypeOK
        <4>3. QED
          BY <2>2, <3>1, <3>2, <4>1, <4>2 DEF TypeOK
    <2>5. CASE Fault /\ LeaveBatch(w)
      <3>1. UNCHANGED <<promised, applied, cancelled, requeues>>
        BY <1>4 DEF ClaimPending
      <3>2. faults' \in 0..FaultBound
        BY <2>5 DEF Fault, TypeOK
      <3>3. QED
        BY <2>2, <2>5, <3>1, <3>2, LeaveBatchType DEF TypeOK
    <2>6. QED
      BY <2>1, <2>4, <2>5
  <1>5. ASSUME NEW w \in Workers, Deliver(w) PROVE TypeOK'
    <2>1. PICK e \in batch[w], o \in [commits : BOOLEAN, succeeds : BOOLEAN] :
            /\ applied' = IF o.commits THEN ApplyOnce(e.key, e.content) ELSE applied
            /\ cur' = [cur EXCEPT ![w] = e]
            /\ batch' = [batch EXCEPT ![w] = @ \ {e}]
            /\ pc' = [pc EXCEPT ![w] = IF o.succeeds THEN "ack" ELSE "nack"]
      BY <1>5 DEF Deliver
    <2>2. e \in Event /\ e.key \in Keys /\ e.content \in Contents
      BY DEF TypeOK, Event
    <2>3. applied' \in [Keys -> Seq(Contents)]
      BY <2>1, <2>2, ApplyOnceType DEF TypeOK
    <2>4. e # NoEvent
      BY <2>2, NoEventNoRow
    <2>5. QED
      BY <1>5, <2>1, <2>2, <2>3, <2>4 DEF Deliver, TypeOK
  <1>6. ASSUME NEW w \in Workers, MarkProcessed(w) \/ MarkFailed(w) PROVE TypeOK'
    <2>1. cur[w] \in Event
      BY <1>6 DEF MarkProcessed, MarkFailed, TypeOK
    <2>2. row' \in [Keys -> Row]
      <3> DEFINE k == cur[w].key
      <3>1. k \in Keys /\ cur[w].attempts \in Nat /\ row[k] \in Row
        BY <2>1 DEF Event, TypeOK
      <3>2. /\ AsProcessed(row[k]) \in Row
            /\ AsFailed(row[k], cur[w].attempts) \in Row
        BY <3>1, RowOps
      <3>3. QED
        BY <1>6, <3>1, <3>2 DEF MarkProcessed, MarkFailed, TypeOK
    <2>3. CASE /\ pc' = [pc EXCEPT ![w] = "deliver"]
               /\ cur' = [cur EXCEPT ![w] = NoEvent]
               /\ UNCHANGED <<batch, faults>>
      BY <1>6, <2>2, <2>3 DEF MarkProcessed, MarkFailed, TypeOK
    <2>4. CASE Fault /\ LeaveBatch(w)
      BY <1>6, <2>2, <2>4, LeaveBatchType DEF MarkProcessed, MarkFailed, TypeOK, Fault
    <2>5. QED
      BY <1>6, <2>3, <2>4 DEF MarkProcessed, MarkFailed, Marked
  <1>7. ASSUME NEW w \in Workers, BatchDone(w) PROVE TypeOK'
    BY <1>7, LeaveBatchType DEF BatchDone, TypeOK, tableVars
  <1>8. ASSUME NEW w \in Workers, DatabaseError(w) PROVE TypeOK'
    BY <1>8, LeaveBatchType DEF DatabaseError, TypeOK, tableVars, Fault
  <1>9. ASSUME NEW w \in Workers, Start(w) \/ Return(w) PROVE TypeOK'
    BY <1>9 DEF Start, Return, TypeOK, tableVars
  <1>10. ASSUME NEW w \in Workers, Crash(w) \/ Cancel(w) PROVE TypeOK'
    <2>1. CASE Crash(w)
      BY <2>1 DEF Crash, TypeOK, tableVars, Fault
    <2>2. CASE Cancel(w)
      BY <2>2 DEF Cancel, TypeOK, tableVars, Fault
    <2>3. QED
      BY <1>10, <2>1, <2>2
  <1>11. ASSUME NEW k \in Keys, Requeue(k) \/ DelayElapses(k) PROVE TypeOK'
    <2>1. row' \in [Keys -> Row]
      <3>1. row[k] \in Row
        BY DEF TypeOK
      <3>2. QED
        BY <1>11, <3>1, RowColumns DEF Requeue, DelayElapses, TypeOK
    <2>2. requeues' \in [Keys -> 0..RequeueBound]
      <3>1. CASE Requeue(k)
        <4>1. requeues[k] \in 0..RequeueBound /\ requeues[k] < RequeueBound
          BY <3>1 DEF Requeue, TypeOK
        <4>2. requeues[k] + 1 \in 0..RequeueBound
          BY <4>1
        <4>3. QED
          BY <3>1, <4>2 DEF Requeue, TypeOK
      <3>2. CASE DelayElapses(k)
        BY <3>2 DEF DelayElapses, TypeOK
      <3>3. QED
        BY <1>11, <3>1, <3>2
    <2>3. QED
      BY <1>11, <2>1, <2>2 DEF Requeue, DelayElapses, TypeOK, workerVars
  <1>12. ASSUME ClaimsAge PROVE TypeOK'
    <2>1. row' \in [Keys -> Row]
      BY <1>12, RowColumns DEF ClaimsAge, TypeOK
    <2>2. QED
      BY <1>12, <2>1 DEF ClaimsAge, TypeOK, workerVars
  <1>13. CASE UNCHANGED vars
    BY <1>13 DEF vars, TypeOK
  <1>14. QED
    BY <1>1, <1>2, <1>3, <1>4, <1>5, <1>6, <1>7, <1>8, <1>9, <1>10, <1>11, <1>12, <1>13
    DEF Next, WorkerStep

(* Every reachable state is typed, with the loop in shape.                 *)
THEOREM TypeCorrect == Spec => []TypeOK
  <1>1. QED
    BY InitTypeOK, NextTypeOK, PTL DEF Spec

-----------------------------------------------------------------------------
(* The delivery invariant.  ProcessedImpliesDelivered is not inductive: it *)
(* needs that a worker about to acknowledge an event has delivered it.     *)
(* The refinement needs that the events a worker holds still say what the  *)
(* row says, and that the row says what was promised.                      *)
RowIsPromised == \A k \in Keys : Exists(k) => <<k, row[k].content>> \in promised

EffectIsTheRows ==
    \A k \in Keys : applied[k] # <<>> => Exists(k) /\ applied[k] = <<row[k].content>>

BatchIsTheRows ==
    \A w \in Workers : \A e \in batch[w] : row[e.key].content = e.content

AckIsDelivered ==
    \A w \in Workers : pc[w] = "ack" => applied[cur[w].key] # <<>>

DeliveryInv ==
    /\ RowIsPromised
    /\ PromiseHasItsRow
    /\ EffectIsTheRows
    /\ BatchIsTheRows
    /\ AckIsDelivered
    /\ ProcessedImpliesDelivered

(* Steps that promise and apply nothing keep the invariant, if they keep   *)
(* the contents, hand out only events of the table, and mark processed     *)
(* only what was delivered.                                                *)
LEMMA QuietStep ==
    ASSUME DeliveryInv, UNCHANGED <<promised, applied>>,
           \A k \in Keys : row'[k].content = row[k].content,
           \A k \in Keys : row'[k].processed => row[k].processed \/ applied[k] # <<>>,
           \A w \in Workers : \A e \in batch'[w] :
               e \in batch[w] \/ row[e.key].content = e.content,
           batch' \in [Workers -> SUBSET Event],
           promised \subseteq Keys \X Contents,
           \A w \in Workers : pc'[w] = "ack" => pc[w] = "ack" /\ cur'[w] = cur[w]
    PROVE  DeliveryInv'
  <1>1. RowIsPromised'
    BY DEF DeliveryInv, RowIsPromised, Exists
  <1>2. PromiseHasItsRow'
    BY DEF DeliveryInv, PromiseHasItsRow
  <1>3. EffectIsTheRows'
    BY DEF DeliveryInv, EffectIsTheRows, Exists
  <1>4. BatchIsTheRows'
    <2> SUFFICES ASSUME NEW w \in Workers, NEW e \in batch'[w]
                 PROVE  row'[e.key].content = e.content
      BY DEF BatchIsTheRows
    <2>1. e.key \in Keys
      BY DEF Event
    <2>2. QED
      BY <2>1 DEF DeliveryInv, BatchIsTheRows
  <1>5. AckIsDelivered'
    BY DEF DeliveryInv, AckIsDelivered
  <1>6. ProcessedImpliesDelivered'
    BY DEF DeliveryInv, ProcessedImpliesDelivered
  <1>7. QED
    BY <1>1, <1>2, <1>3, <1>4, <1>5, <1>6 DEF DeliveryInv

(* The initial state has no rows and no promises.                          *)
LEMMA InitDeliveryInv == Init => DeliveryInv
  BY DEF Init, DeliveryInv, RowIsPromised, PromiseHasItsRow, EffectIsTheRows,
         BatchIsTheRows, AckIsDelivered, ProcessedImpliesDelivered, Exists, NoRow

(* Every step keeps the delivery invariant.                                *)
LEMMA NextDeliveryInv == TypeOK /\ TypeOK' /\ DeliveryInv /\ [Next]_vars => DeliveryInv'
  <1> SUFFICES ASSUME TypeOK, TypeOK', DeliveryInv, [Next]_vars PROVE DeliveryInv'
    OBVIOUS
  <1> USE QuietStep
  <1>0. /\ batch' \in [Workers -> SUBSET Event]
        /\ promised \subseteq Keys \X Contents
        /\ row \in [Keys -> Row]
    BY DEF TypeOK
  <1>1. ASSUME NEW k \in Keys, NEW c \in Contents, Enqueue(k, c) PROVE DeliveryInv'
    <2>1. /\ UNCHANGED <<applied, pc, batch, cur>>
          /\ promised' = promised \union {<<k, c>>}
          /\ row[k].content \in {NoContent, c}
      BY <1>1 DEF Enqueue, EnqueueAccepts, workerVars
    <2>2. /\ \A j \in Keys \ {k} : row'[j] = row[j]
          /\ row'[k].content = c
          /\ Exists(k) => row'[k] = row[k]
          /\ row'[k].processed => Exists(k)
      BY <1>0, <1>1, <2>1 DEF Enqueue, Exists, NoRow
    <2>3. RowIsPromised'
      BY <2>1, <2>2 DEF DeliveryInv, RowIsPromised, Exists
    <2>4. PromiseHasItsRow'
      <3> SUFFICES ASSUME NEW p \in promised' PROVE row'[p[1]].content = p[2]
        BY DEF PromiseHasItsRow
      <3>1. CASE p = <<k, c>>
        BY <2>2, <3>1
      <3>2. CASE p \in promised /\ p # <<k, c>>
        <4>1. p[1] \in Keys /\ p[2] \in Contents /\ p = <<p[1], p[2]>>
          BY <1>0, <3>2
        <4>2. row[p[1]].content = p[2]
          BY <3>2 DEF DeliveryInv, PromiseHasItsRow
        <4>3. p[1] = k => Exists(k)
          BY <4>1, <4>2 DEF Exists
        <4>4. QED
          BY <2>2, <4>1, <4>2, <4>3
      <3>3. QED
        BY <2>1, <3>1, <3>2
    <2>5. EffectIsTheRows'
      BY <2>1, <2>2 DEF DeliveryInv, EffectIsTheRows, Exists
    <2>6. BatchIsTheRows'
      <3> SUFFICES ASSUME NEW w \in Workers, NEW e \in batch[w]
                   PROVE  row'[e.key].content = e.content
        BY <2>1 DEF BatchIsTheRows
      <3>1. e.key \in Keys /\ e.content \in Contents
        <4>1. batch \in [Workers -> SUBSET Event]
          BY DEF TypeOK
        <4>2. e \in Event
          BY <4>1
        <4>3. QED
          BY <4>2 DEF Event
      <3>2. row[e.key].content = e.content
        BY DEF DeliveryInv, BatchIsTheRows
      <3>3. Exists(e.key)
        BY <3>1, <3>2 DEF Exists
      <3>4. QED
        BY <2>2, <3>1, <3>2, <3>3
    <2>7. AckIsDelivered'
      BY <2>1 DEF DeliveryInv, AckIsDelivered
    <2>8. ProcessedImpliesDelivered'
      BY <2>1, <2>2 DEF DeliveryInv, ProcessedImpliesDelivered
    <2>9. QED
      BY <2>3, <2>4, <2>5, <2>6, <2>7, <2>8 DEF DeliveryInv
  <1>2. ASSUME NEW w \in Workers, ReleaseStaleClaims(w) PROVE DeliveryInv'
    BY <1>0, <1>2 DEF ReleaseStaleClaims, TypeOK, Row
  <1>3. ASSUME NEW w \in Workers, ReleaseFails(w) PROVE DeliveryInv'
    BY <1>0, <1>3 DEF ReleaseFails, TypeOK, tableVars
  <1>4. ASSUME NEW w \in Workers, ClaimPending(w) PROVE DeliveryInv'
    <2>1. PICK S \in SUBSET Keys :
            /\ row' = [k \in Keys |->
                 IF k \in S THEN [row[k] EXCEPT !.claim = "fresh", !.attempts = @ + 1]
                            ELSE row[k]]
            /\ \/ /\ batch' = [batch EXCEPT ![w] = {EventOf(k) : k \in S}]
                  /\ pc' = [pc EXCEPT ![w] = "deliver"]
                  /\ UNCHANGED <<cur, faults>>
               \/ Fault /\ LeaveBatch(w)
      BY <1>4 DEF ClaimPending
    <2>2. \A k \in Keys : /\ row'[k].content = row[k].content
                          /\ row'[k].processed = row[k].processed
      <3> SUFFICES ASSUME NEW k \in Keys
                   PROVE  row'[k].content = row[k].content /\ row'[k].processed = row[k].processed
        OBVIOUS
      <3>1. row'[k] = IF k \in S THEN [row[k] EXCEPT !.claim = "fresh", !.attempts = @ + 1]
                                 ELSE row[k]
        BY <2>1
      <3>2. row[k] \in Row
        BY <1>0
      <3>3. QED
        BY <3>1, <3>2 DEF Row
    <2>3. \A v \in Workers : \A e \in batch'[v] :
              e \in batch[v] \/ row[e.key].content = e.content
      <3>1. \A k \in S : row[EventOf(k).key].content = EventOf(k).content
        BY DEF EventOf
      <3>2. CASE batch' = [batch EXCEPT ![w] = {EventOf(k) : k \in S}]
        <4> SUFFICES ASSUME NEW v \in Workers, NEW e \in batch'[v]
                     PROVE  e \in batch[v] \/ row[e.key].content = e.content
          OBVIOUS
        <4>0. batch \in [Workers -> SUBSET Event]
          BY DEF TypeOK
        <4>1. CASE v = w
          BY <4>0, <3>1, <3>2, <4>1
        <4>2. CASE v # w
          BY <4>0, <3>2, <4>2
        <4>3. QED
          BY <4>1, <4>2
      <3>3. CASE LeaveBatch(w)
        BY <3>3 DEF LeaveBatch, TypeOK
      <3>4. QED
        BY <2>1, <3>2, <3>3
    <2>4. \A v \in Workers : pc'[v] = "ack" => pc[v] = "ack" /\ cur'[v] = cur[v]
      BY <2>1 DEF LeaveBatch, TypeOK
    <2>5. QED
      BY <1>0, <1>4, <2>2, <2>3, <2>4 DEF ClaimPending
  <1>5. ASSUME NEW w \in Workers, Deliver(w) PROVE DeliveryInv'
    <2>1. PICK e \in batch[w], o \in [commits : BOOLEAN, succeeds : BOOLEAN] :
            /\ o \in Outcomes(w, e)
            /\ applied' = IF o.commits THEN ApplyOnce(e.key, e.content) ELSE applied
            /\ cur' = [cur EXCEPT ![w] = e]
            /\ batch' = [batch EXCEPT ![w] = @ \ {e}]
            /\ pc' = [pc EXCEPT ![w] = IF o.succeeds THEN "ack" ELSE "nack"]
      BY <1>5 DEF Deliver
    <2>2. UNCHANGED <<row, promised>>
      BY <1>5 DEF Deliver
    <2>3. e.key \in Keys /\ e.content \in Contents
      BY DEF TypeOK, Event
    <2>4. row[e.key].content = e.content /\ Exists(e.key)
      BY <2>3 DEF DeliveryInv, BatchIsTheRows, Exists
    <2>5. o.succeeds => o.commits
      BY <2>1 DEF Outcomes
    <2>6. /\ \A k \in Keys \ {e.key} : applied'[k] = applied[k]
          /\ \A k \in Keys : applied[k] # <<>> => applied'[k] = applied[k]
          /\ applied'[e.key] \in {applied[e.key], <<e.content>>}
          /\ o.succeeds => applied'[e.key] # <<>>
      BY <2>1, <2>3, <2>5 DEF ApplyOnce, TypeOK
    <2>7. RowIsPromised' /\ PromiseHasItsRow'
      BY <2>2 DEF DeliveryInv, RowIsPromised, PromiseHasItsRow, Exists
    <2>8. EffectIsTheRows'
      BY <2>2, <2>3, <2>4, <2>6 DEF DeliveryInv, EffectIsTheRows, Exists
    <2>9. BatchIsTheRows'
      BY <2>1, <2>2 DEF DeliveryInv, BatchIsTheRows, TypeOK
    <2>10. AckIsDelivered'
      <3> SUFFICES ASSUME NEW v \in Workers, pc'[v] = "ack"
                   PROVE  applied'[cur'[v].key] # <<>>
        BY DEF AckIsDelivered
      <3>1. CASE v = w
        BY <2>1, <2>6, <3>1 DEF TypeOK
      <3>2. CASE v # w
        <4>1. pc[v] = "ack" /\ cur'[v] = cur[v]
          BY <2>1, <3>2 DEF TypeOK
        <4>2. cur[v].key \in Keys
          BY <4>1 DEF TypeOK, Event
        <4>3. QED
          BY <2>6, <4>1, <4>2 DEF DeliveryInv, AckIsDelivered
      <3>3. QED
        BY <3>1, <3>2
    <2>11. ProcessedImpliesDelivered'
      BY <2>2, <2>6 DEF DeliveryInv, ProcessedImpliesDelivered
    <2>12. QED
      BY <2>7, <2>8, <2>9, <2>10, <2>11 DEF DeliveryInv
  <1>6. ASSUME NEW w \in Workers, MarkProcessed(w) \/ MarkFailed(w) PROVE DeliveryInv'
    <2> DEFINE i == cur[w].key
    <2>1. i \in Keys
      BY <1>6 DEF MarkProcessed, MarkFailed, TypeOK, Event
    <2>2. /\ \A k \in Keys \ {i} : row'[k] = row[k]
          /\ row'[i].content = row[i].content
          /\ row'[i].processed => row[i].processed \/ pc[w] = "ack"
      <3>1. CASE MarkProcessed(w)
        BY <1>0, <2>1, <3>1 DEF MarkProcessed, AsProcessed, Row
      <3>2. CASE MarkFailed(w)
        BY <1>0, <2>1, <3>2 DEF MarkFailed, AsFailed, Row
      <3>3. QED
        BY <1>6, <3>1, <3>2
    <2>3. pc[w] = "ack" => applied[i] # <<>>
      BY DEF DeliveryInv, AckIsDelivered
    <2>4. /\ \A v \in Workers : batch'[v] \subseteq batch[v]
          /\ \A v \in Workers : pc'[v] = "ack" => pc[v] = "ack" /\ cur'[v] = cur[v]
      BY <1>6 DEF MarkProcessed, MarkFailed, Marked, LeaveBatch, TypeOK
    <2>5. UNCHANGED <<promised, applied>>
      BY <1>6 DEF MarkProcessed, MarkFailed
    <2>6. /\ \A k \in Keys : row'[k].content = row[k].content
          /\ \A k \in Keys : row'[k].processed => row[k].processed \/ applied[k] # <<>>
      BY <2>1, <2>2, <2>3
    <2>7. QED
      BY <1>0, <2>4, <2>5, <2>6
  <1>7. ASSUME NEW w \in Workers, BatchDone(w) \/ DatabaseError(w) PROVE DeliveryInv'
    BY <1>0, <1>7 DEF BatchDone, DatabaseError, LeaveBatch, TypeOK, tableVars
  <1>8. ASSUME NEW w \in Workers, Start(w) \/ Return(w) \/ Crash(w) \/ Cancel(w)
        PROVE DeliveryInv'
    BY <1>0, <1>8 DEF Start, Return, Crash, Cancel, TypeOK, tableVars
  <1>9. ASSUME NEW k \in Keys, Requeue(k) \/ DelayElapses(k) PROVE DeliveryInv'
    <2>1. \A j \in Keys : /\ row'[j].content = row[j].content
                          /\ row'[j].processed = row[j].processed
      <3>1. CASE Requeue(k)
        BY <1>0, <3>1 DEF Requeue, Row
      <3>2. CASE DelayElapses(k)
        BY <1>0, <3>2 DEF DelayElapses, Row
      <3>3. QED
        BY <1>9, <3>1, <3>2
    <2>2. UNCHANGED <<promised, applied, pc, batch, cur>>
      BY <1>9 DEF Requeue, DelayElapses, workerVars
    <2>3. QED
      BY <1>0, <2>1, <2>2
  <1>10. ASSUME ClaimsAge PROVE DeliveryInv'
    BY <1>0, <1>10 DEF ClaimsAge, Row, workerVars
  <1>11. CASE UNCHANGED vars
    BY <1>0, <1>11 DEF vars
  <1>12. QED
    BY <1>1, <1>2, <1>3, <1>4, <1>5, <1>6, <1>7, <1>8, <1>9, <1>10, <1>11
    DEF Next, WorkerStep

(* The delivery invariant holds in every reachable state.                  *)
THEOREM DeliveryCorrect == Spec => []DeliveryInv
  BY InitDeliveryInv, NextDeliveryInv, TypeCorrect, PTL DEF Spec

(* A row marked processed has its effect in the consumer's table.          *)
THEOREM NoEffectIsLost == Spec => []ProcessedImpliesDelivered
  <1>1. DeliveryInv => ProcessedImpliesDelivered
    BY DEF DeliveryInv
  <1>2. QED
    BY <1>1, DeliveryCorrect, PTL

(* Every effect promised by a committed business change has its row.       *)
THEOREM NoPromiseIsLost == Spec => []PromiseHasItsRow
  <1>1. DeliveryInv => PromiseHasItsRow
    BY DEF DeliveryInv
  <1>2. QED
    BY <1>1, DeliveryCorrect, PTL

-----------------------------------------------------------------------------
(* A processed row is final, whatever late marks, reapers and requeues do. *)
THEOREM ProcessedRowsAreFinal == Spec => ProcessedIsFinal
  <1> DEFINE Kept == \A k \in Keys : row[k].processed =>
                       row'[k].processed /\ row'[k].attempts = row[k].attempts
                                         /\ row'[k].failed = row[k].failed
  <1>1. TypeOK /\ DeliveryInv /\ [Next]_vars => Kept
    <2> SUFFICES ASSUME TypeOK, DeliveryInv, [Next]_vars, NEW k \in Keys, row[k].processed
                 PROVE  row'[k].processed /\ row'[k].attempts = row[k].attempts
                                          /\ row'[k].failed = row[k].failed
      OBVIOUS
    <2>0. row \in [Keys -> Row] /\ row[k] \in Row
      BY DEF TypeOK
    <2>1. ASSUME NEW j \in Keys, NEW c \in Contents, Enqueue(j, c) PROVE row'[k] = row[k]
      <3>1. Exists(k)
        BY DEF DeliveryInv, ProcessedImpliesDelivered, EffectIsTheRows
      <3>2. QED
        BY <2>0, <2>1, <3>1 DEF Enqueue
    <2>2. ASSUME NEW w \in Workers, ReleaseStaleClaims(w) PROVE row'[k] = row[k]
      BY <2>0, <2>2 DEF ReleaseStaleClaims, Stale
    <2>3. ASSUME NEW w \in Workers, ClaimPending(w) PROVE row'[k] = row[k]
      BY <2>0, <2>3 DEF ClaimPending, FirstDue, Due
    <2>4. ASSUME NEW w \in Workers, MarkProcessed(w) \/ MarkFailed(w) PROVE row'[k] = row[k]
      BY <2>0, <2>4 DEF MarkProcessed, MarkFailed, AsProcessed, AsFailed
    <2>5. ASSUME NEW j \in Keys, Requeue(j) PROVE row'[k] = row[k]
      BY <2>0, <2>5 DEF Requeue
    <2>6. ASSUME (\E j \in Keys : DelayElapses(j)) \/ ClaimsAge
          PROVE  row'[k].processed /\ row'[k].attempts = row[k].attempts
                                   /\ row'[k].failed = row[k].failed
      BY <2>0, <2>6 DEF DelayElapses, ClaimsAge, Row
    <2>7. ASSUME NEW w \in Workers,
                 \/ Deliver(w) \/ BatchDone(w) \/ Start(w) \/ ReleaseFails(w)
                 \/ DatabaseError(w) \/ Crash(w) \/ Cancel(w) \/ Return(w)
          PROVE  row'[k] = row[k]
      BY <2>7 DEF Deliver, BatchDone, Start, ReleaseFails, DatabaseError, Crash,
                  Cancel, Return, tableVars
    <2>8. CASE UNCHANGED vars
      BY <2>8 DEF vars
    <2>9. QED
      BY <2>1, <2>2, <2>3, <2>4, <2>5, <2>6, <2>7, <2>8 DEF Next, WorkerStep
  <1>2. TypeOK /\ DeliveryInv /\ [Next]_vars => [Kept]_vars
    BY <1>1
  <1>3. QED
    BY <1>2, TypeCorrect, DeliveryCorrect, PTL DEF Spec, ProcessedIsFinal

-----------------------------------------------------------------------------
(* What the steps of the outbox are in the abstract delivery.              *)

(* A producer's insert promises an effect: the table admits no second row  *)
(* with another content under the same key.                                *)
LEMMA EnqueuePromises ==
    ASSUME DeliveryInv, NEW k \in Keys, NEW c \in Contents, Enqueue(k, c)
    PROVE  Effects!Promise(k, c)
  <1>1. ASSUME NEW d \in Contents, <<k, d>> \in promised PROVE d = c
    <2>1. row[k].content = d
      BY <1>1 DEF DeliveryInv, PromiseHasItsRow
    <2>2. QED
      BY <2>1 DEF Enqueue, EnqueueAccepts
  <1>2. QED
    BY <1>1 DEF Enqueue, Effects!Promise

(* A delivery applies what was promised, or applies nothing: when the      *)
(* consumer's transaction fails, and when the effect is there already.     *)
LEMMA DeliverApplies ==
    ASSUME TypeOK, DeliveryInv, NEW w \in Workers, Deliver(w)
    PROVE  \/ \E k \in Keys, c \in Contents : Effects!Apply(k, c)
           \/ UNCHANGED <<promised, applied>>
  <1>1. PICK e \in batch[w], o \in [commits : BOOLEAN, succeeds : BOOLEAN] :
          applied' = IF o.commits THEN ApplyOnce(e.key, e.content) ELSE applied
    BY DEF Deliver
  <1>2. UNCHANGED promised
    BY DEF Deliver
  <1>3. e.key \in Keys /\ e.content \in Contents
    BY DEF TypeOK, Event
  <1>4. <<e.key, e.content>> \in promised
    BY <1>3 DEF DeliveryInv, BatchIsTheRows, RowIsPromised, Exists
  <1>5. CASE o.commits /\ applied[e.key] = <<>>
    <2>1. Effects!Apply(e.key, e.content)
      BY <1>1, <1>2, <1>3, <1>4, <1>5 DEF ApplyOnce, Effects!Apply, TypeOK
    <2>2. QED
      BY <1>3, <2>1
  <1>6. CASE ~(o.commits /\ applied[e.key] = <<>>)
    BY <1>1, <1>2, <1>3, <1>6 DEF ApplyOnce, TypeOK
  <1>7. QED
    BY <1>5, <1>6

(* Everything else, the bookkeeping of the queue, its faults and what the  *)
(* administrator does to it, is invisible there.                           *)
LEMMA BookkeepingIsInvisible ==
    ASSUME [Next]_vars,
           ~ \E k \in Keys, c \in Contents : Enqueue(k, c),
           ~ \E w \in Workers : Deliver(w)
    PROVE  UNCHANGED <<promised, applied>>
  <1>1. ASSUME NEW w \in Workers, WorkerStep(w) PROVE UNCHANGED <<promised, applied>>
    BY <1>1 DEF WorkerStep, ReleaseStaleClaims, ClaimPending, MarkProcessed, MarkFailed,
                BatchDone, Start, tableVars
  <1>2. ASSUME NEW w \in Workers,
               \/ ReleaseFails(w) \/ DatabaseError(w)
               \/ Crash(w) \/ Cancel(w) \/ Return(w)
        PROVE  UNCHANGED <<promised, applied>>
    BY <1>2 DEF ReleaseFails, DatabaseError, Crash, Cancel, Return, tableVars
  <1>3. ASSUME \/ \E k \in Keys : Requeue(k) \/ DelayElapses(k)
               \/ ClaimsAge \/ UNCHANGED vars
        PROVE  UNCHANGED <<promised, applied>>
    BY <1>3 DEF Requeue, DelayElapses, ClaimsAge, vars
  <1>4. QED
    BY <1>1, <1>2, <1>3 DEF Next

(* The outbox implements the abstract delivery: an effect is applied at    *)
(* most once per key, after its promise and with the promised content.     *)
THEOREM OutboxImplementsEffectDelivery == Spec => ImplementsEffectDelivery
  <1>1. Init => Effects!EffectInit
    BY DEF Init, Effects!EffectInit
  <1>2. TypeOK /\ DeliveryInv /\ [Next]_vars => [Effects!EffectNext]_Effects!effectVars
    BY EnqueuePromises, DeliverApplies, BookkeepingIsInvisible
    DEF Effects!EffectNext, Effects!effectVars
  <1>3. QED
    BY <1>1, <1>2, TypeCorrect, DeliveryCorrect, PTL
    DEF Spec, ImplementsEffectDelivery, Effects!EffectSpec
-----------------------------------------------------------------------------
(* What a user of the outbox may rely on, from the abstract delivery alone *)
(* and therefore from whatever implements it.                              *)
PromiseIsUnique ==
    \A k \in Keys : \A c, d \in Contents :
        <<k, c>> \in promised /\ <<k, d>> \in promised => c = d

EffectIsThePromise ==
    /\ applied \in [Keys -> Seq(Contents)]
    /\ \A k \in Keys :
         applied[k] # <<>> => \E c \in Contents : applied[k] = <<c>> /\ <<k, c>> \in promised

(* A promise is never withdrawn and an effect, once there, stays as it is. *)
KeptForEver ==
    [][/\ promised \subseteq promised'
       /\ \A k \in Keys : applied[k] # <<>> => applied'[k] = applied[k]]_<<promised, applied>>

(* A step of the abstract delivery keeps what is promised and applied.     *)
LEMMA EffectStep ==
    PromiseIsUnique /\ EffectIsThePromise /\ [Effects!EffectNext]_<<promised, applied>> =>
        /\ PromiseIsUnique' /\ EffectIsThePromise'
        /\ promised \subseteq promised'
        /\ \A k \in Keys : applied[k] # <<>> => applied'[k] = applied[k]
  <1> SUFFICES ASSUME PromiseIsUnique, EffectIsThePromise,
                      [Effects!EffectNext]_<<promised, applied>>
               PROVE  /\ PromiseIsUnique' /\ EffectIsThePromise'
                      /\ promised \subseteq promised'
                      /\ \A k \in Keys : applied[k] # <<>> => applied'[k] = applied[k]
    OBVIOUS
  <1>1. ASSUME NEW k \in Keys, NEW c \in Contents, Effects!Promise(k, c)
        PROVE  /\ PromiseIsUnique' /\ EffectIsThePromise'
               /\ promised \subseteq promised' /\ UNCHANGED applied
    BY <1>1 DEF Effects!Promise, PromiseIsUnique, EffectIsThePromise
  <1>2. ASSUME NEW k \in Keys, NEW c \in Contents, Effects!Apply(k, c)
        PROVE  /\ PromiseIsUnique' /\ EffectIsThePromise'
               /\ UNCHANGED promised
               /\ \A j \in Keys : applied[j] # <<>> => applied'[j] = applied[j]
    <2>1. /\ <<k, c>> \in promised /\ applied[k] = <<>>
          /\ applied' = [applied EXCEPT ![k] = <<c>>] /\ UNCHANGED promised
      BY <1>2 DEF Effects!Apply
    <2>2. /\ applied' \in [Keys -> Seq(Contents)] /\ applied'[k] = <<c>>
          /\ \A j \in Keys : j # k => applied'[j] = applied[j]
      BY <2>1 DEF EffectIsThePromise
    <2>3. QED
      BY <2>1, <2>2 DEF PromiseIsUnique, EffectIsThePromise
  <1>3. CASE UNCHANGED <<promised, applied>>
    BY <1>3 DEF PromiseIsUnique, EffectIsThePromise
  <1>4. QED
    BY <1>1, <1>2, <1>3 DEF Effects!EffectNext

(* Whatever implements the abstract delivery: a key has one promise, and   *)
(* its effect is there at most once and says what was promised.            *)
THEOREM DeliveryIsAtMostOnce ==
    ImplementsEffectDelivery => [](PromiseIsUnique /\ EffectIsThePromise) /\ KeptForEver
  <1>1. Effects!EffectInit => PromiseIsUnique /\ EffectIsThePromise
    BY DEF Effects!EffectInit, PromiseIsUnique, EffectIsThePromise
  <1>2. QED
    BY <1>1, EffectStep, PTL
    DEF ImplementsEffectDelivery, Effects!EffectSpec, Effects!effectVars, KeptForEver

(* And so does the outbox, through all its crashes, duplicate deliveries,  *)
(* stale claims and requeues.                                              *)
THEOREM EffectsHappenAtMostOnce ==
    Spec => [](PromiseIsUnique /\ EffectIsThePromise) /\ KeptForEver
  BY OutboxImplementsEffectDelivery, DeliveryIsAtMostOnce, PTL

-----------------------------------------------------------------------------
(* The attempts.  GivenUpAfterAllAttempts is not inductive: a failure is   *)
(* judged from the attempts of a snapshot, so no snapshot of a row that    *)
(* nobody requeued may be ahead of the row, and no row begins with less    *)
(* than nothing.                                                           *)
Lags(e) == requeues[e.key] = 0 => e.attempts <= row[e.key].attempts

SnapshotsLag ==
    \A w \in Workers : /\ \A e \in batch[w] : Lags(e)
                       /\ cur[w] # NoEvent => Lags(cur[w])

UnusedIsFresh == \A k \in Keys : ~Exists(k) => row[k].attempts = 0

AttemptsInv == GivenUpAfterAllAttempts /\ SnapshotsLag /\ UnusedIsFresh

(* Steps that never take attempts off a row without a requeue, that give   *)
(* up nothing early, and that hand out no snapshot ahead of its row.       *)
LEMMA AttemptsStep ==
    ASSUME TypeOK, TypeOK', AttemptsInv,
           \A k \in Keys : requeues'[k] = 0 =>
               requeues[k] = 0 /\ row[k].attempts <= row'[k].attempts,
           \A k \in Keys : row'[k].failed /\ requeues'[k] = 0 =>
               row[k].failed \/ MaxAttempts <= row'[k].attempts,
           \A k \in Keys : row'[k].content = NoContent =>
               row[k].content = NoContent /\ row'[k].attempts = row[k].attempts,
           \A w \in Workers : \A e \in batch'[w] :
               e \in batch[w] \/ e.attempts <= row'[e.key].attempts,
           \A w \in Workers : cur'[w] \in {NoEvent, cur[w]} \union batch[w]
    PROVE  AttemptsInv'
  <1>1. \A k \in Keys : row[k].attempts \in Nat /\ row'[k].attempts \in Nat
    BY DEF TypeOK, Row
  <1>2. GivenUpAfterAllAttempts'
    BY <1>1, OutboxAssumption DEF AttemptsInv, GivenUpAfterAllAttempts
  <1>3. ASSUME NEW e \in Event, Lags(e) PROVE Lags(e)'
    <2>1. e.key \in Keys /\ e.attempts \in Nat
      BY DEF Event
    <2>2. QED
      BY <1>1, <1>3, <2>1 DEF Lags
  <1>4. ASSUME NEW w \in Workers PROVE \A e \in batch'[w] : Lags(e)'
    <2> SUFFICES ASSUME NEW e \in batch'[w] PROVE Lags(e)'
      OBVIOUS
    <2>1. e \in Event
      BY DEF TypeOK
    <2>2. CASE e \in batch[w]
      BY <1>3, <2>1, <2>2 DEF AttemptsInv, SnapshotsLag
    <2>3. CASE e \notin batch[w]
      BY <2>3 DEF Lags
    <2>4. QED
      BY <2>2, <2>3
  <1>5. ASSUME NEW w \in Workers, cur'[w] # NoEvent PROVE Lags(cur[w])'
    <2>1. cur'[w] \in Event
      BY <1>5 DEF TypeOK
    <2>2. Lags(cur'[w])
      <3>1. cur'[w] = cur[w] \/ cur'[w] \in batch[w]
        BY <1>5
      <3>2. QED
        BY <1>5, <3>1 DEF AttemptsInv, SnapshotsLag
    <2>3. requeues'[cur'[w].key] = 0 => cur'[w].attempts <= row'[cur'[w].key].attempts
      <3>1. cur'[w].key \in Keys /\ cur'[w].attempts \in Nat
        BY <2>1 DEF Event
      <3>2. QED
        BY <1>1, <2>2, <3>1 DEF Lags
    <2>4. QED
      BY <2>3 DEF Lags
  <1>6. SnapshotsLag'
    BY <1>4, <1>5 DEF SnapshotsLag
  <1>7. UnusedIsFresh'
    BY DEF AttemptsInv, UnusedIsFresh, Exists
  <1>8. QED
    BY <1>2, <1>6, <1>7 DEF AttemptsInv

(* Nothing has been attempted at first.                                    *)
LEMMA InitAttemptsInv == Init => AttemptsInv
  <1> SUFFICES ASSUME Init PROVE AttemptsInv
    OBVIOUS
  <1>1. \A k \in Keys : row[k] = NoRow
    BY DEF Init
  <1>2. \A w \in Workers : batch[w] = {} /\ cur[w] = NoEvent
    BY DEF Init
  <1>3. QED
    BY <1>1, <1>2 DEF AttemptsInv, GivenUpAfterAllAttempts, SnapshotsLag, UnusedIsFresh, NoRow

(* Every step keeps the account of the attempts.                           *)
LEMMA NextAttemptsInv == TypeOK /\ TypeOK' /\ AttemptsInv /\ [Next]_vars => AttemptsInv'
  <1> SUFFICES ASSUME TypeOK, TypeOK', AttemptsInv, [Next]_vars PROVE AttemptsInv'
    OBVIOUS
  <1>0. /\ row \in [Keys -> Row] /\ requeues \in [Keys -> 0..RequeueBound]
        /\ \A k \in Keys : row[k].attempts \in Nat /\ row[k].attempts <= row[k].attempts
    BY DEF TypeOK, Row
  <1>1. ASSUME NEW k \in Keys, NEW c \in Contents, Enqueue(k, c) PROVE AttemptsInv'
    <2>1. /\ UNCHANGED <<batch, cur, requeues>>
          /\ \A j \in Keys \ {k} : row'[j] = row[j]
          /\ Exists(k) => row'[k] = row[k]
          /\ ~Exists(k) => row'[k] = [NoRow EXCEPT !.content = c]
      BY <1>0, <1>1 DEF Enqueue, workerVars
    <2>2. ~Exists(k) => ~row'[k].failed /\ row'[k].attempts = 0 /\ row'[k].content = c
      BY <2>1 DEF NoRow
    <2>3. ~Exists(k) => row[k].attempts = 0
      BY DEF AttemptsInv, UnusedIsFresh
    <2>4. QED
      BY <1>0, <2>1, <2>2, <2>3, AttemptsStep DEF Exists
  <1>2. ASSUME NEW w \in Workers, ReleaseStaleClaims(w) PROVE AttemptsInv'
    <2>1. \A k \in Keys : /\ row'[k].attempts = row[k].attempts /\ row'[k].failed = row[k].failed
                          /\ row'[k].content = row[k].content
      BY <1>0, <1>2 DEF ReleaseStaleClaims, Row
    <2>2. QED
      BY <1>0, <1>2, <2>1, AttemptsStep DEF ReleaseStaleClaims
  <1>3. ASSUME NEW w \in Workers, ClaimPending(w) PROVE AttemptsInv'
    <2>1. PICK S \in SUBSET Keys :
            /\ FirstDue(S)
            /\ row' = [k \in Keys |->
                 IF k \in S THEN [row[k] EXCEPT !.claim = "fresh", !.attempts = @ + 1]
                            ELSE row[k]]
            /\ \/ /\ batch' = [batch EXCEPT ![w] = {EventOf(k) : k \in S}]
                  /\ pc' = [pc EXCEPT ![w] = "deliver"]
                  /\ UNCHANGED <<cur, faults>>
               \/ Fault /\ LeaveBatch(w)
      BY <1>3 DEF ClaimPending
    <2>2. \A k \in S : row'[k].attempts = row[k].attempts + 1 /\ row'[k].failed = row[k].failed
                       /\ row'[k].content = row[k].content
      BY <1>0, <2>1 DEF Row
    <2>3. \A k \in Keys \ S : row'[k] = row[k]
      BY <2>1
    <2>4. \A k \in S : Exists(k)
      BY <2>1 DEF FirstDue, Due
    <2>5. UNCHANGED requeues
      BY <1>3 DEF ClaimPending
    <2>6. /\ \A k \in Keys : row[k].attempts <= row'[k].attempts
          /\ \A k \in Keys : row'[k].failed = row[k].failed
          /\ \A k \in Keys : row'[k].content = NoContent =>
               row[k].content = NoContent /\ row'[k].attempts = row[k].attempts
      BY <1>0, <2>2, <2>3, <2>4 DEF Exists
    <2>7. \A v \in Workers : cur'[v] \in {NoEvent, cur[v]}
      BY <2>1 DEF LeaveBatch, TypeOK
    <2>8. \A v \in Workers : \A e \in batch'[v] :
            e \in batch[v] \/ e.attempts <= row'[e.key].attempts
      <3>1. CASE batch' = [batch EXCEPT ![w] = {EventOf(k) : k \in S}]
        <4>1. \A k \in S : EventOf(k).key = k /\ EventOf(k).attempts = row'[k].attempts
          BY <2>2 DEF EventOf
        <4>2. \A k \in S : EventOf(k).attempts <= row'[EventOf(k).key].attempts
          BY <1>0, <2>2, <4>1
        <4>3. \A v \in Workers \ {w} : batch'[v] = batch[v]
          BY <3>1 DEF TypeOK
        <4>4. batch'[w] = {EventOf(k) : k \in S}
          BY <3>1 DEF TypeOK
        <4>5. QED
          BY <4>2, <4>3, <4>4
      <3>2. CASE LeaveBatch(w)
        BY <3>2 DEF LeaveBatch, TypeOK
      <3>3. QED
        BY <2>1, <3>1, <3>2
    <2>9. QED
      BY <2>5, <2>6, <2>7, <2>8, AttemptsStep
  <1>4. ASSUME NEW w \in Workers, Deliver(w) PROVE AttemptsInv'
    <2>1. PICK e \in batch[w] : /\ cur' = [cur EXCEPT ![w] = e]
                                /\ batch' = [batch EXCEPT ![w] = @ \ {e}]
      BY <1>4 DEF Deliver
    <2>2. UNCHANGED <<row, requeues>>
      BY <1>4 DEF Deliver
    <2>3. /\ \A v \in Workers : cur'[v] \in {NoEvent, cur[v]} \union batch[v]
          /\ \A v \in Workers : batch'[v] \subseteq batch[v]
      BY <2>1 DEF TypeOK
    <2>4. QED
      BY <1>0, <2>2, <2>3, AttemptsStep
  <1>5. ASSUME NEW w \in Workers, MarkProcessed(w) \/ MarkFailed(w) PROVE AttemptsInv'
    <2> DEFINE k == cur[w].key
               n == cur[w].attempts
    <2>1. /\ cur[w] \in Event /\ cur[w] # NoEvent /\ k \in Keys /\ n \in Nat
          /\ UNCHANGED requeues
      BY <1>5 DEF MarkProcessed, MarkFailed, TypeOK, Event
    <2>2. requeues[k] = 0 => n <= row[k].attempts
      BY <2>1 DEF AttemptsInv, SnapshotsLag, Lags
    <2>3. \A r \in Row : /\ AsProcessed(r).attempts = r.attempts
                         /\ AsProcessed(r).failed = r.failed
                         /\ AsProcessed(r).content = r.content
      BY DEF AsProcessed, Row
    <2>4. \A r \in Row : /\ AsFailed(r, n).attempts = r.attempts
                         /\ AsFailed(r, n).failed => r.failed \/ n >= MaxAttempts
                         /\ AsFailed(r, n).content = r.content
      BY DEF AsFailed, Row
    <2>5. row' \in {[row EXCEPT ![k] = AsProcessed(@)], [row EXCEPT ![k] = AsFailed(@, n)]}
      BY <1>5 DEF MarkProcessed, MarkFailed
    <2>6. \A j \in Keys \ {k} : row'[j] = row[j]
      BY <1>0, <2>5
    <2>7. /\ row'[k].attempts = row[k].attempts /\ row'[k].content = row[k].content
          /\ row'[k].failed => row[k].failed \/ n >= MaxAttempts
      BY <1>0, <2>1, <2>3, <2>4, <2>5
    <2>8. /\ \A v \in Workers : batch'[v] \subseteq batch[v]
          /\ \A v \in Workers : cur'[v] \in {NoEvent, cur[v]}
      BY <1>5 DEF MarkProcessed, MarkFailed, Marked, LeaveBatch, TypeOK
    <2> HIDE DEF k, n
    <2>9. \A j \in Keys : row'[j].failed /\ requeues'[j] = 0 =>
            row[j].failed \/ MaxAttempts <= row'[j].attempts
      <3>1. row'[k].failed /\ requeues[k] = 0 => row[k].failed \/ MaxAttempts <= row'[k].attempts
        BY <1>0, <2>1, <2>2, <2>7, OutboxAssumption
      <3>2. QED
        BY <2>1, <2>6, <3>1
    <2>10. QED
      BY <1>0, <2>1, <2>6, <2>7, <2>8, <2>9, AttemptsStep
  <1>6. ASSUME NEW w \in Workers,
               \/ ReleaseFails(w) \/ BatchDone(w) \/ DatabaseError(w)
               \/ Start(w) \/ Return(w) \/ Crash(w) \/ Cancel(w)
        PROVE  AttemptsInv'
    <2>1. /\ UNCHANGED <<row, requeues>>
          /\ \A v \in Workers : batch'[v] \subseteq batch[v]
          /\ \A v \in Workers : cur'[v] \in {NoEvent, cur[v]}
      BY <1>6 DEF ReleaseFails, BatchDone, DatabaseError, Start, Return, Crash, Cancel,
                  LeaveBatch, tableVars, TypeOK
    <2>2. QED
      BY <1>0, <2>1, AttemptsStep
  <1>7. ASSUME NEW k \in Keys, Requeue(k) PROVE AttemptsInv'
    <2>1. /\ UNCHANGED <<batch, cur>> /\ Exists(k)
          /\ \A j \in Keys \ {k} : row'[j] = row[j] /\ requeues'[j] = requeues[j]
          /\ row'[k].content = row[k].content
          /\ requeues'[k] = requeues[k] + 1
      BY <1>0, <1>7 DEF Requeue, workerVars, Row
    <2>2. requeues'[k] # 0
      BY <1>0, <2>1
    <2>3. QED
      BY <1>0, <2>1, <2>2, AttemptsStep DEF Exists
  <1>8. ASSUME NEW k \in Keys, DelayElapses(k) PROVE AttemptsInv'
    <2>1. /\ UNCHANGED <<batch, cur, requeues>>
          /\ \A j \in Keys : /\ row'[j].attempts = row[j].attempts /\ row'[j].failed = row[j].failed
                             /\ row'[j].content = row[j].content
      BY <1>0, <1>8 DEF DelayElapses, workerVars, Row
    <2>2. QED
      BY <1>0, <2>1, AttemptsStep
  <1>9. ASSUME ClaimsAge PROVE AttemptsInv'
    <2>1. /\ UNCHANGED <<batch, cur, requeues>>
          /\ \A j \in Keys : /\ row'[j].attempts = row[j].attempts /\ row'[j].failed = row[j].failed
                             /\ row'[j].content = row[j].content
      BY <1>0, <1>9 DEF ClaimsAge, workerVars, Row
    <2>2. QED
      BY <1>0, <2>1, AttemptsStep
  <1>10. CASE UNCHANGED vars
    BY <1>10 DEF vars, AttemptsInv, GivenUpAfterAllAttempts, SnapshotsLag, UnusedIsFresh, Lags, Exists
  <1>11. QED
    BY <1>1, <1>2, <1>3, <1>4, <1>5, <1>6, <1>7, <1>8, <1>9, <1>10 DEF Next, WorkerStep

(* No row is a terminal failure before its last attempt, unless it was     *)
(* requeued: for any number of copies, crashes, stale claims and late      *)
(* reports.                                                                *)
THEOREM NothingIsGivenUpEarly == Spec => []GivenUpAfterAllAttempts
  <1>1. Spec => []AttemptsInv
    BY TypeCorrect, InitAttemptsInv, NextAttemptsInv, PTL DEF Spec
  <1>2. AttemptsInv => GivenUpAfterAllAttempts
    BY DEF AttemptsInv
  <1>3. QED
    BY <1>1, <1>2, PTL
=============================================================================
