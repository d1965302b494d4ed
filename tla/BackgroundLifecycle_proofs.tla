--------------------- MODULE BackgroundLifecycle_proofs ---------------------
(***************************************************************************)
(* Proofs about the lifecycle, for any number of copies, calls, operations *)
(* and workers, and any versions of the schema.                            *)
(***************************************************************************)
EXTENDS BackgroundLifecycle, FiniteSetTheorems, TLAPS

Names == {None, "startup", "setup", "migrate", "rollback", "shutdown"}
Places == {"idle", "reconcile", "status", "decide", "stop", "stopping", "up", "upgrading",
           "admin", "prepare", "halt", "halting", "down", "downgrading", "failed",
           "succeeded", "quit", "quitting", "close", "drain", "exit"}
Call == [name : Names, at : Places, wait : Gens \union {None}]

(* The types of everything but the history.                                *)
StateOK ==
    /\ schema \in [version : Nat, dirty : BOOLEAN] /\ users \in BOOLEAN
    /\ proc \in [Copies -> Proc]
    /\ worker \in [Copies -> [Gens -> {"running", "cancelled", "ended", "closed"}]]
    /\ call \in [Copies -> [Threads -> Call]]
    /\ op \in [Copies -> [Operations -> {"idle", "tracked", "cancelled"}]]
    /\ \A a \in Copies : proc[a].state # "stopped" <=> proc[a].current # None

(* No worker has the name of none.                                         *)
LEMMA NoneIsNoWorker == None \notin Gens
  BY LifecycleAssumption DEF None

-----------------------------------------------------------------------------
(* What the statements make of the fields.                                 *)

(* The types, copy by copy, taken apart.                                   *)
LEMMA Typed ==
    ASSUME StateOK, NEW a \in Copies
    PROVE  /\ proc[a] \in Proc
           /\ worker[a] \in [Gens -> {"running", "cancelled", "ended", "closed"}]
           /\ \A t \in Threads : call[a][t] \in Call
           /\ op[a] \in [Operations -> {"idle", "tracked", "cancelled"}]
           /\ proc[a].state # "stopped" <=> proc[a].current # None
  BY DEF StateOK, Call, Names, Places

(* The types, copy by copy.                                                *)
LEMMA TypedAgain ==
    ASSUME StateOK, NEW a \in Copies,
           schema' \in [version : Nat, dirty : BOOLEAN], users' \in BOOLEAN,
           NEW p \in Proc, p.state # "stopped" <=> p.current # None,
           NEW w \in [Gens -> {"running", "cancelled", "ended", "closed"}],
           NEW c \in [Threads -> Call],
           NEW o \in [Operations -> {"idle", "tracked", "cancelled"}],
           proc' = [proc EXCEPT ![a] = p], worker' = [worker EXCEPT ![a] = w],
           call' = [call EXCEPT ![a] = c], op' = [op EXCEPT ![a] = o]
    PROVE  StateOK'
  <1>1. proc' \in [Copies -> Proc] /\ \A b \in Copies : proc'[b].state # "stopped" <=> proc'[b].current # None
    BY DEF StateOK
  <1>2. worker' \in [Copies -> [Gens -> {"running", "cancelled", "ended", "closed"}]]
    BY DEF StateOK
  <1>3. call' \in [Copies -> [Threads -> Call]]
    <2>1. call \in [Copies -> [Threads -> Call]]
      BY DEF StateOK, Call, Names, Places
    <2>2. QED
      BY <2>1
  <1>4. op' \in [Copies -> [Operations -> {"idle", "tracked", "cancelled"}]]
    BY DEF StateOK
  <1>5. QED
    BY <1>1, <1>2, <1>3, <1>4 DEF StateOK, Call, Names, Places

(* The updates of the lifecycle's fields.                                  *)
Opened(p) == [p EXCEPT !.maintenance = FALSE]
Working(p, g) ==
    [p EXCEPT !.maintenance = FALSE, !.state = "running", !.current = g, !.catchUp = TRUE]
Blocked(p) == [p EXCEPT !.maintenance = TRUE, !.rollback = TRUE]
Shut(p, b) == [p EXCEPT !.closed = TRUE, !.late = b]
Stopped(p) == [p EXCEPT !.state = "stopped", !.current = None]

(* Decide starts a worker.                                                 *)
LEMMA WorkingFields ==
    ASSUME NEW p \in Proc, NEW g \in Gens, NEW q, q = Working(p, g)
    PROVE  /\ q \in Proc
           /\ q.up = p.up /\ q.context = p.context /\ q.rollback = p.rollback
           /\ q.closing = p.closing /\ q.closed = p.closed /\ q.late = p.late
           /\ ~q.maintenance /\ q.state = "running" /\ q.current = g
  BY DEF Working, Proc

(* PrepareRollback closes the gate.                                        *)
LEMMA BlockedFields ==
    ASSUME NEW p \in Proc, NEW q, q = Blocked(p)
    PROVE  /\ q \in Proc
           /\ q.up = p.up /\ q.context = p.context /\ q.state = p.state /\ q.current = p.current
           /\ q.closing = p.closing /\ q.closed = p.closed /\ q.late = p.late
           /\ q.maintenance /\ q.rollback
  BY DEF Blocked, Proc

(* OnShutdown closes the database.                                         *)
LEMMA ShutFields ==
    ASSUME NEW p \in Proc, NEW b \in BOOLEAN, NEW q, q = Shut(p, b)
    PROVE  /\ q \in Proc
           /\ q.up = p.up /\ q.context = p.context /\ q.state = p.state /\ q.current = p.current
           /\ q.closing = p.closing /\ q.rollback = p.rollback /\ q.maintenance = p.maintenance
           /\ q.closed /\ q.late = b
  BY DEF Shut, Proc

(* A worker is forgotten.                                                  *)
LEMMA StoppedFields ==
    ASSUME NEW p \in Proc, NEW q, q = Stopped(p)
    PROVE  /\ q \in Proc
           /\ q.up = p.up /\ q.context = p.context /\ q.rollback = p.rollback
           /\ q.maintenance = p.maintenance
           /\ q.closing = p.closing /\ q.closed = p.closed /\ q.late = p.late
           /\ q.state = "stopped" /\ q.current = None
  BY DEF Stopped, Proc

(* The updates of a single field are typed.                                *)
LEMMA OneField ==
    ASSUME NEW p \in Proc, NEW b \in BOOLEAN
    PROVE  /\ [p EXCEPT !.context = b] \in Proc
           /\ [p EXCEPT !.maintenance = b] \in Proc
           /\ [p EXCEPT !.rollback = b] \in Proc
           /\ [p EXCEPT !.late = b] \in Proc
           /\ [p EXCEPT !.closing = b] \in Proc
           /\ [p EXCEPT !.state = "stopping"] \in Proc
  BY DEF Proc

(* A copy that starts, and one that is off.                                *)
LEMMA FreshFields == Fresh \in Proc /\ Off \in Proc /\ Off.current = None /\ Off.state = "stopped"
  BY DEF Fresh, Off, Proc

-----------------------------------------------------------------------------
(* The strengthening.  Of one copy: a worker that is at work is the one    *)
(* the lifecycle waits for; a rollback is the only one, holds the gate     *)
(* closed, and has no worker beside it once it runs; reconcileMu has one   *)
(* holder; a database is closed after the operations are.                  *)
Busy(w) == {g \in Gens : w[g] \in {"running", "cancelled"}}
Back == {"halt", "halting", "down", "downgrading", "failed", "succeeded"}
Locked == {"status", "decide", "stop", "stopping", "halt", "halting"}
Moving == {"upgrading", "downgrading"}

CopyOK(p, w, o) ==
    /\ \A g \in Busy(w) : p.current = g
    /\ ~p.up => Busy(w) = {}
    /\ p.closed => p.closing
    /\ p.closed /\ ~p.late => \A x \in Operations : o[x] # "tracked"

ThreadOK(p, w, k) ==
    /\ k.at # "idle" => p.up
    /\ k.at \in Back \union {"prepare"} => k.name = "rollback"
    /\ k.at \in Back => p.rollback /\ p.maintenance
    /\ k.at = "halting" => p.current \in {k.wait, None}
    /\ k.at \in {"down", "downgrading"} => Busy(w) = {}
    /\ k.at \in {"quit", "quitting", "close", "drain", "exit"} => k.name = "shutdown"
    /\ k.at \in {"drain", "exit"} => p.closing

PairsOK(c) ==
    \A t, u \in Threads :
        \/ c[t].name = "rollback" /\ c[u].name = "rollback"
        \/ c[t].at \in Locked /\ c[u].at \in Locked
        => t = u

Local(p, w, c, o) ==
    /\ CopyOK(p, w, o)
    /\ \A t \in Threads : ThreadOK(p, w, c[t])
    /\ PairsOK(c)

LocalInv == \A a \in Copies : Local(proc[a], worker[a], call[a], op[a])

(* Of the database: one migration at a time, and the schema is dirty       *)
(* meanwhile.                                                              *)
Serial ==
    \A a, b \in Copies, t, u \in Threads :
        call[a][t].at \in Moving /\ call[b][u].at \in Moving =>
            a = b /\ t = u /\ schema.dirty

IInv == StateOK /\ LocalInv /\ Serial

(* A step of one copy keeps the others as they are.                        *)
LEMMA CopyStep ==
    ASSUME IInv, NEW a \in Copies,
           schema' \in [version : Nat, dirty : BOOLEAN], users' \in BOOLEAN,
           NEW p \in Proc, p.state # "stopped" <=> p.current # None,
           NEW w \in [Gens -> {"running", "cancelled", "ended", "closed"}],
           NEW c \in [Threads -> Call],
           NEW o \in [Operations -> {"idle", "tracked", "cancelled"}],
           proc' = [proc EXCEPT ![a] = p], worker' = [worker EXCEPT ![a] = w],
           call' = [call EXCEPT ![a] = c], op' = [op EXCEPT ![a] = o],
           Local(p, w, c, o), Serial'
    PROVE  IInv'
  <1>1. StateOK'
    BY TypedAgain DEF IInv
  <1>2. /\ proc'[a] = p /\ worker'[a] = w /\ call'[a] = c /\ op'[a] = o
        /\ \A b \in Copies \ {a} : /\ proc'[b] = proc[b] /\ worker'[b] = worker[b]
                                   /\ call'[b] = call[b] /\ op'[b] = op[b]
    BY DEF IInv, StateOK
  <1>3. LocalInv'
    <2>1. \A b \in Copies : Local(proc'[b], worker'[b], call'[b], op'[b])
      BY <1>2 DEF IInv, LocalInv
    <2>2. QED
      BY <2>1 DEF LocalInv
  <1>4. QED
    BY <1>1, <1>3 DEF IInv

(* A step of one call: it becomes k.                                       *)
LEMMA ThreadStep ==
    ASSUME IInv, NEW a \in Copies, NEW t \in Threads,
           schema' \in [version : Nat, dirty : BOOLEAN], users' \in BOOLEAN,
           NEW p \in Proc, p.state # "stopped" <=> p.current # None,
           NEW w \in [Gens -> {"running", "cancelled", "ended", "closed"}],
           NEW k \in Call,
           proc' = [proc EXCEPT ![a] = p], worker' = [worker EXCEPT ![a] = w],
           call' = [call EXCEPT ![a][t] = k], UNCHANGED op,
           CopyOK(p, w, op[a]), ThreadOK(p, w, k),
           \A u \in Threads \ {t} : ThreadOK(p, w, call[a][u]),
           k.name = "rollback" => \/ call[a][t].name = "rollback"
                                  \/ \A u \in Threads : call[a][u].name # "rollback",
           k.at \in Locked => call[a][t].at \in Locked \/ ~Reconciling(a),
           k.at \in Moving => schema'.dirty /\ (call[a][t].at \in Moving \/ ~Migrating),
           k.at \notin Moving => call[a][t].at \in Moving \/ schema'.dirty = schema.dirty
    PROVE  IInv'
  <1> DEFINE c == [call[a] EXCEPT ![t] = k]
  <1>1. /\ call[a] \in [Threads -> Call] /\ op[a] \in [Operations -> {"idle", "tracked", "cancelled"}]
        /\ op' = [op EXCEPT ![a] = op[a]]
        /\ call' = [call EXCEPT ![a] = c]
    BY DEF IInv, StateOK, Call, Names, Places
  <1>2. /\ c \in [Threads -> Call] /\ c[t] = k
        /\ \A u \in Threads \ {t} : c[u] = call[a][u]
    BY <1>1
  <1>3. /\ call'[a] = c
        /\ \A b \in Copies \ {a} : call'[b] = call[b]
    BY <1>1 DEF IInv, StateOK
  <1> HIDE DEF c
  <1>4. PairsOK(c)
    <2>1. PairsOK(call[a])
      BY DEF IInv, LocalInv, Local
    <2>2. ~Reconciling(a) => \A u \in Threads : call[a][u].at \notin Locked
      BY DEF Reconciling, Locked
    <2>3. QED
      BY <1>2, <2>1, <2>2 DEF PairsOK
  <1>5. Local(p, w, c, op[a])
    BY <1>2, <1>4 DEF Local
  <1>6. Serial'
    <2>1. ~Migrating => \A b \in Copies, u \in Threads : call[b][u].at \notin Moving
      BY DEF Migrating, Moving
    <2>2. Serial
      BY DEF IInv
    <2>3. \A b \in Copies, u \in Threads : call'[b][u] = IF b = a /\ u = t THEN k ELSE call[b][u]
      BY <1>2, <1>3
    <2>4. QED
      BY <2>1, <2>2, <2>3 DEF Serial
  <1>7. QED
    BY <1>1, <1>2, <1>5, <1>6, CopyStep, ZenonT(60)

(* What the invariant says of one call.                                    *)
LEMMA Known ==
    ASSUME IInv, NEW a \in Copies
    PROVE  /\ proc[a] \in Proc /\ (proc[a].state # "stopped" <=> proc[a].current # None)
           /\ worker[a] \in [Gens -> {"running", "cancelled", "ended", "closed"}]
           /\ schema \in [version : Nat, dirty : BOOLEAN] /\ users \in BOOLEAN
           /\ CopyOK(proc[a], worker[a], op[a])
           /\ \A t \in Threads : call[a][t] \in Call /\ ThreadOK(proc[a], worker[a], call[a][t])
           /\ proc = [proc EXCEPT ![a] = proc[a]] /\ worker = [worker EXCEPT ![a] = worker[a]]
  <1>1. StateOK /\ Local(proc[a], worker[a], call[a], op[a])
    BY DEF IInv, LocalInv
  <1>2. proc = [proc EXCEPT ![a] = proc[a]] /\ worker = [worker EXCEPT ![a] = worker[a]]
    BY <1>1 DEF StateOK
  <1>3. QED
    BY <1>1, <1>2, Typed DEF StateOK, Local, IInv

(* A call goes on to its next statement.                                   *)
LEMMA GotoMoves ==
    ASSUME IInv, NEW a \in Copies, NEW t \in Threads, NEW s \in Places, Goto(a, t, s),
           NEW k, k = [call[a][t] EXCEPT !.at = s]
    PROVE  /\ k \in Call /\ k.at = s /\ k.name = call[a][t].name /\ k.wait = call[a][t].wait
           /\ call' = [call EXCEPT ![a][t] = k]
  <1>1. call[a][t] \in Call
    BY Known
  <1>2. QED
    BY <1>1 DEF Call, Goto

(* A call that has returned owes nothing.                                  *)
LEMMA IdleIsCall ==
    /\ IdleCall \in Call /\ IdleCall.at = "idle" /\ IdleCall.name = None
    /\ \A p, w : ThreadOK(p, w, IdleCall)
  BY DEF IdleCall, Call, Names, Places, None, ThreadOK, Back

(* Fields and workers that change in harmless ways.                        *)
LEMMA ThreadKept ==
    ASSUME NEW p, NEW w, NEW q, NEW v, NEW k, ThreadOK(p, w, k),
           p.up => q.up, p.closing => q.closing,
           k.at \in Back => q.rollback /\ q.maintenance,
           q.current \in {p.current, None}, Busy(v) \subseteq Busy(w)
    PROVE  ThreadOK(q, v, k)
  <1>1. k.at \in {"down", "downgrading"} => Busy(v) = {}
    BY DEF ThreadOK
  <1>2. k.at = "halting" => q.current \in {k.wait, None}
    BY DEF ThreadOK
  <1>3. QED
    BY <1>1, <1>2 DEF ThreadOK

(* The facts of a copy survive the same changes.                           *)
LEMMA CopyKept ==
    ASSUME NEW p, NEW w, NEW o, NEW q, NEW v, CopyOK(p, w, o),
           q.up = p.up, q.current = p.current, q.closing = p.closing, q.closed = p.closed,
           q.late = p.late, Busy(v) \subseteq Busy(w)
    PROVE  CopyOK(q, v, o)
  <1>1. ~q.up => Busy(v) = {}
    BY DEF CopyOK
  <1>2. \A g \in Busy(v) : q.current = g
    BY DEF CopyOK
  <1>3. QED
    BY <1>1, <1>2 DEF CopyOK

(* A call goes on, and nothing else changes.                               *)
LEMMA QuietStep ==
    ASSUME IInv, NEW a \in Copies, NEW t \in Threads, NEW k \in Call,
           call' = [call EXCEPT ![a][t] = k], UNCHANGED <<schema, proc, worker, op>>,
           users' \in BOOLEAN,
           ThreadOK(proc[a], worker[a], k),
           k.name = "rollback" => \/ call[a][t].name = "rollback"
                                  \/ \A u \in Threads : call[a][u].name # "rollback",
           k.at \in Locked => call[a][t].at \in Locked \/ ~Reconciling(a),
           k.at \notin Moving
    PROVE  IInv'
  <1>1. proc' = [proc EXCEPT ![a] = proc[a]] /\ worker' = [worker EXCEPT ![a] = worker[a]]
    BY Known
  <1>2. /\ schema' \in [version : Nat, dirty : BOOLEAN] /\ schema'.dirty = schema.dirty
        /\ UNCHANGED op
    BY Known
  <1>3. QED
    BY <1>1, <1>2, Known, ThreadStep, ZenonT(60)

-----------------------------------------------------------------------------
(* Every step keeps the invariant: calls begin.                            *)
LEMMA CallsBegin ==
    ASSUME IInv, NEW a \in Copies, NEW t \in Threads,
           Startup(a, t) \/ Setup(a, t) \/ Manage(a, t) \/ Shutdown(a, t)
    PROVE  IInv'
  <1>1. ASSUME NEW name \in Names, NEW at \in {"reconcile", "up", "admin", "prepare", "quit"},
               Begin(a, t, name, at), UNCHANGED <<schema, proc, worker, op>>, UNCHANGED users,
               name = "rollback" => \A u \in Threads : call[a][u].name # "rollback",
               at = "prepare" <=> name = "rollback",
               at = "quit" => name = "shutdown"
        PROVE  IInv'
    <2> DEFINE k == [name |-> name, at |-> at, wait |-> None]
    <2>1. /\ k \in Call /\ k.at = at /\ k.name = name /\ proc[a].up
          /\ call' = [call EXCEPT ![a][t] = k]
      BY <1>1 DEF Begin, Call, Places
    <2> HIDE DEF k
    <2>2. ThreadOK(proc[a], worker[a], k)
      BY <1>1, <2>1 DEF ThreadOK, Back
    <2>3. k.at \notin Locked /\ k.at \notin Moving /\ k.at # "decide"
      BY <2>1 DEF Locked, Moving
    <2>4. users' \in BOOLEAN
      BY <1>1, Known
    <2>5. k.name = "rollback" => \A u \in Threads : call[a][u].name # "rollback"
      BY <1>1, <2>1
    <2>6. QED
      BY <1>1, <2>1, <2>2, <2>3, <2>4, <2>5, QuietStep, ZenonT(60)
  <1>2. CASE Startup(a, t)
    <2> DEFINE k == [name |-> "startup", at |-> "reconcile", wait |-> None]
               p == [proc[a] EXCEPT !.context = TRUE]
    <2>1. /\ k \in Call /\ k.at = "reconcile" /\ k.name = "startup" /\ proc[a].up
          /\ call' = [call EXCEPT ![a][t] = k] /\ proc' = [proc EXCEPT ![a] = p]
          /\ UNCHANGED <<schema, users, worker, op>>
      BY <1>2 DEF Startup, Begin, Call, Places, Names, Set
    <2>2. /\ p \in Proc /\ p.up = proc[a].up /\ p.maintenance = proc[a].maintenance
          /\ p.rollback = proc[a].rollback /\ p.current = proc[a].current /\ p.state = proc[a].state
          /\ p.closing = proc[a].closing /\ p.closed = proc[a].closed /\ p.late = proc[a].late
      BY Known DEF Proc
    <2> HIDE DEF k, p
    <2>3. ThreadOK(p, worker[a], k) /\ k.at \notin Locked /\ k.at \notin Moving /\ k.name # "rollback"
      BY <2>1, <2>2 DEF ThreadOK, Back, Locked, Moving
    <2>4. /\ CopyOK(p, worker[a], op[a])
          /\ \A u \in Threads \ {t} : ThreadOK(p, worker[a], call[a][u])
      <3>1. CopyOK(p, worker[a], op[a])
        BY <2>2, Known, CopyKept
      <3>2. ASSUME NEW u \in Threads PROVE ThreadOK(p, worker[a], call[a][u])
        <4>1. ThreadOK(proc[a], worker[a], call[a][u])
          BY Known
        <4>2. call[a][u].at \in Back => p.rollback /\ p.maintenance
          BY <2>2, <4>1 DEF ThreadOK
        <4>3. QED
          BY <2>2, <4>1, <4>2, ThreadKept
      <3>3. QED
        BY <3>1, <3>2
    <2>5. /\ p.state # "stopped" <=> p.current # None
          /\ schema' \in [version : Nat, dirty : BOOLEAN] /\ schema'.dirty = schema.dirty
          /\ users' \in BOOLEAN /\ worker' = [worker EXCEPT ![a] = worker[a]] /\ UNCHANGED op
      BY <2>1, <2>2, Known
    <2>6. QED
      BY <2>5, <2>1, <2>2, <2>3, <2>4, Known, ThreadStep, ZenonT(60)
  <1>3. CASE Setup(a, t)
    BY <1>1, <1>3 DEF Setup, Names
  <1>4. CASE Manage(a, t)
    <2>1. \A u \in Threads : call[a][u].name # "rollback"
      BY <1>4 DEF Manage, InCall
    <2>2. CASE Begin(a, t, "migrate", "up")
      BY <1>1, <1>4, <2>2 DEF Manage, Names
    <2>3. CASE Begin(a, t, "rollback", "prepare")
      BY <1>1, <1>4, <2>1, <2>3 DEF Manage, Names
    <2>4. QED
      BY <1>4, <2>2, <2>3 DEF Manage
  <1>5. CASE Shutdown(a, t)
    BY <1>1, <1>5 DEF Shutdown, Names
  <1>6. QED
    BY <1>2, <1>3, <1>4, <1>5

-----------------------------------------------------------------------------
(* Reconciliations.                                                        *)

(* The reconciliation keeps the invariant up to its decision.              *)
LEMMA Reconciled ==
    ASSUME IInv, NEW a \in Copies, NEW t \in Threads, Reconcile(a, t) \/ ReadStatus(a, t)
    PROVE  IInv'
  <1> DEFINE k(s) == [call[a][t] EXCEPT !.at = s]
  <1>1. /\ ThreadOK(proc[a], worker[a], call[a][t]) /\ users \in BOOLEAN
        /\ call[a][t].at # "idle" => proc[a].up
    BY Known DEF ThreadOK
  <1>2. ASSUME Goto(a, t, "status"), Reconcile(a, t) PROVE IInv'
    <2>1. /\ k("status") \in Call /\ k("status").at = "status" /\ k("status").name = call[a][t].name
          /\ call' = [call EXCEPT ![a][t] = k("status")]
      BY <1>2, GotoMoves DEF Places
    <2>2. ThreadOK(proc[a], worker[a], k("status"))
      BY <1>1, <1>2, <2>1 DEF ThreadOK, Back, Reconcile, At
    <2> HIDE DEF k
    <2>3. /\ k("status").at \notin Moving /\ k("status").at # "decide"
          /\ UNCHANGED <<schema, proc, worker, op>> /\ users' \in BOOLEAN /\ ~Reconciling(a)
      BY <1>1, <1>2, <2>1 DEF Moving, Reconcile
    <2>4. QED
      BY <2>1, <2>2, <2>3, QuietStep, ZenonT(60)
  <1>3. ASSUME UpToDate(a), Goto(a, t, "decide"), ReadStatus(a, t), UNCHANGED proc PROVE IInv'
    <2>1. /\ k("decide") \in Call /\ k("decide").at = "decide" /\ k("decide").name = call[a][t].name
          /\ call' = [call EXCEPT ![a][t] = k("decide")]
      BY <1>3, GotoMoves DEF Places
    <2>2. ThreadOK(proc[a], worker[a], k("decide"))
      BY <1>1, <1>3, <2>1 DEF ThreadOK, Back, ReadStatus, At
    <2> HIDE DEF k
    <2>3. /\ k("decide").at \notin Moving /\ call[a][t].at \in Locked
          /\ UNCHANGED <<schema, proc, worker, op>> /\ users' \in BOOLEAN
      BY <1>1, <1>3, <2>1 DEF Moving, ReadStatus, Locked, At
    <2>4. QED
      BY <1>3, <2>1, <2>2, <2>3, QuietStep, ZenonT(60)
  <1>4. ASSUME Goto(a, t, "stop"), ReadStatus(a, t), Set(a, [proc[a] EXCEPT !.maintenance = TRUE])
        PROVE  IInv'
    <2> DEFINE p == [proc[a] EXCEPT !.maintenance = TRUE]
    <2>1. /\ k("stop") \in Call /\ k("stop").at = "stop" /\ k("stop").name = call[a][t].name
          /\ call' = [call EXCEPT ![a][t] = k("stop")] /\ proc' = [proc EXCEPT ![a] = p]
          /\ UNCHANGED <<schema, users, worker, op>> /\ call[a][t].at = "status"
      BY <1>4, GotoMoves DEF Places, ReadStatus, Set, At
    <2>2. /\ p \in Proc /\ p.up = proc[a].up /\ p.maintenance
          /\ p.rollback = proc[a].rollback /\ p.current = proc[a].current /\ p.state = proc[a].state
          /\ p.closing = proc[a].closing /\ p.closed = proc[a].closed /\ p.late = proc[a].late
      BY Known DEF Proc
    <2> HIDE DEF k, p
    <2>3. ThreadOK(p, worker[a], k("stop")) /\ call[a][t].at \in Locked /\ k("stop").at \notin Moving
      BY <1>1, <2>1, <2>2 DEF ThreadOK, Back, Locked, Moving
    <2>4. /\ CopyOK(p, worker[a], op[a])
          /\ \A u \in Threads \ {t} : ThreadOK(p, worker[a], call[a][u])
      <3>1. CopyOK(p, worker[a], op[a])
        BY <2>2, Known, CopyKept
      <3>2. ASSUME NEW u \in Threads PROVE ThreadOK(p, worker[a], call[a][u])
        <4>1. ThreadOK(proc[a], worker[a], call[a][u])
          BY Known
        <4>2. call[a][u].at \in Back => p.rollback /\ p.maintenance
          BY <2>2, <4>1 DEF ThreadOK
        <4>3. QED
          BY <2>2, <4>1, <4>2, ThreadKept
      <3>3. QED
        BY <3>1, <3>2
    <2>5. /\ p.state # "stopped" <=> p.current # None
          /\ schema' \in [version : Nat, dirty : BOOLEAN] /\ schema'.dirty = schema.dirty
          /\ users' \in BOOLEAN /\ worker' = [worker EXCEPT ![a] = worker[a]] /\ UNCHANGED op
      BY <2>1, <2>2, Known
    <2>6. /\ worker[a] \in [Gens -> {"running", "cancelled", "ended", "closed"}]
          /\ k("stop").name = "rollback" => call[a][t].name = "rollback"
      BY <2>1, Known
    <2>7. QED
      BY <2>1, <2>2, <2>3, <2>4, <2>5, <2>6, ThreadStep, ZenonT(60)
  <1>5. QED
    BY <1>2, <1>3, <1>4 DEF Reconcile, ReadStatus

(* The decision keeps it: the schema is still the one that was read.       *)
LEMMA Decided ==
    ASSUME IInv, NEW a \in Copies, NEW t \in Threads, Decide(a, t)
    PROVE  IInv'
  <1>1. /\ ThreadOK(proc[a], worker[a], call[a][t]) /\ users' \in BOOLEAN
        /\ UNCHANGED <<schema, op>> /\ call[a][t].at = "decide"
        /\ call' = [call EXCEPT ![a][t] = IdleCall] /\ proc[a].up
        /\ schema' \in [version : Nat, dirty : BOOLEAN] /\ schema'.dirty = schema.dirty
    BY Known DEF Decide, Return, At, ThreadOK
  <1>2. IdleCall.at \notin Moving /\ IdleCall.at \notin Locked /\ IdleCall.name # "rollback" /\ IdleCall.at # "decide"
    BY IdleIsCall DEF Moving, Locked, None
  <1>3. CASE proc[a].rollback
    <2>1. UNCHANGED <<proc, worker>>
      BY <1>3 DEF Decide
    <2>2. QED
      BY <1>1, <1>2, <2>1, IdleIsCall, QuietStep, ZenonT(60)
  <1>4. ASSUME ~proc[a].rollback, NEW p \in Proc, p.state # "stopped" <=> p.current # None,
               p.up = proc[a].up, p.closing = proc[a].closing, p.closed = proc[a].closed,
               p.late = proc[a].late, ~p.rollback,
               NEW w \in [Gens -> {"running", "cancelled", "ended", "closed"}],
               proc' = [proc EXCEPT ![a] = p], worker' = [worker EXCEPT ![a] = w],
               CopyOK(p, w, op[a])
        PROVE  IInv'
    <2>1. \A u \in Threads : ThreadOK(p, w, call[a][u])
      <3>1. \A u \in Threads : ThreadOK(proc[a], worker[a], call[a][u])
        BY Known
      <3>2. QED
        BY <1>4, <3>1 DEF ThreadOK, Back
    <2>2. QED
      BY <1>1, <1>2, <1>4, <2>1, IdleIsCall, ThreadStep, ZenonT(60)
  <1>5. CASE ~proc[a].rollback /\ ~Startable(a)
    <2> DEFINE p == [proc[a] EXCEPT !.maintenance = FALSE]
    <2>1. /\ proc' = [proc EXCEPT ![a] = p] /\ worker' = [worker EXCEPT ![a] = worker[a]]
      BY <1>5, Known DEF Decide, Set
    <2>2. /\ p \in Proc /\ p.up = proc[a].up
          /\ p.rollback = proc[a].rollback /\ p.current = proc[a].current /\ p.state = proc[a].state
          /\ p.closing = proc[a].closing /\ p.closed = proc[a].closed /\ p.late = proc[a].late
      BY Known DEF Proc
    <2> HIDE DEF p
    <2>3. CopyOK(p, worker[a], op[a])
      BY <2>2, Known, CopyKept
    <2>4. (p.state # "stopped" <=> p.current # None) /\ ~p.rollback
      BY <1>5, <2>2, Known
    <2>5. QED
      BY <1>4, <1>5, <2>1, <2>2, <2>3, <2>4, Known, ZenonT(60)
  <1>6. CASE ~proc[a].rollback /\ Startable(a)
    <2>1. PICK g \in Gens : /\ worker[a][g] = "closed"
                            /\ worker' = [worker EXCEPT ![a][g] = "running"]
                            /\ proc' = [proc EXCEPT ![a] = Working(proc[a], g)]
      BY <1>6 DEF Decide, Set, Working
    <2> DEFINE p == Working(proc[a], g)
               w == [worker[a] EXCEPT ![g] = "running"]
    <2>2. /\ p \in Proc /\ p.up = proc[a].up /\ p.rollback = proc[a].rollback
          /\ p.closing = proc[a].closing /\ p.closed = proc[a].closed /\ p.late = proc[a].late
          /\ p.current = g /\ p.state = "running"
      BY Known, WorkingFields
    <2>3. /\ w \in [Gens -> {"running", "cancelled", "ended", "closed"}]
          /\ \A h \in Gens \ {g} : w[h] = worker[a][h]
          /\ worker' = [worker EXCEPT ![a] = w]
      BY <2>1, Known
    <2> HIDE DEF p, w
    <2>4. Busy(worker[a]) = {}
      <3>1. proc[a].current = None
        BY <1>6, Known DEF Startable
      <3>2. QED
        BY <3>1, NoneIsNoWorker, Known DEF CopyOK, Busy
    <2>5. CopyOK(p, w, op[a])
      BY <1>1, <2>2, <2>3, <2>4, Known DEF CopyOK, Busy
    <2>6. (p.state # "stopped" <=> p.current # None) /\ ~p.rollback
      BY <1>6, <2>2, NoneIsNoWorker
    <2>7. proc' = [proc EXCEPT ![a] = p]
      BY <2>1 DEF p
    <2>8. QED
      BY <1>4, <1>6, <2>2, <2>3, <2>5, <2>6, <2>7, ZenonT(60)
  <1>7. QED
    BY <1>3, <1>5, <1>6

-----------------------------------------------------------------------------
(* Stops, and the worker.                                                  *)
Stopping == {"stop", "stopping", "halt", "halting", "quit", "quitting"}

(* What follows a stop.                                                    *)
LEMMA AfterStopMoves ==
    ASSUME IInv, NEW a \in Copies, NEW t \in Threads, call[a][t].at \in Stopping,
           NEW k, k = AfterStop(a, t)
    PROVE  /\ k \in Call
           /\ \/ k.at = "close" /\ k.name = "shutdown"
              \/ k.at = "down" /\ k.name = "rollback" /\ call[a][t].at \in {"halt", "halting"}
                 /\ call[a][t].name = "rollback"
              \/ k = IdleCall
  <1>1. call[a][t] \in Call /\ ThreadOK(proc[a], worker[a], call[a][t])
    BY Known
  <1>2. CASE call[a][t].name = "shutdown"
    <2>0. call[a][t].at \notin {"halt", "halting"}
      BY <1>1, <1>2 DEF ThreadOK, Back
    <2>1. k = [call[a][t] EXCEPT !.at = "close", !.wait = None]
      BY <1>2, <2>0 DEF AfterStop
    <2>2. QED
      BY <1>1, <1>2, <2>1 DEF Call, Places
  <1>3. CASE call[a][t].name # "shutdown" /\ call[a][t].at \in {"halt", "halting"}
    <2>1. k = [call[a][t] EXCEPT !.at = "down", !.wait = None]
      BY <1>3 DEF AfterStop
    <2>2. call[a][t].name = "rollback"
      BY <1>1, <1>3 DEF ThreadOK, Back
    <2>3. QED
      BY <1>1, <1>3, <2>1, <2>2 DEF Call, Places
  <1>4. CASE call[a][t].name # "shutdown" /\ call[a][t].at \notin {"halt", "halting"}
    <2>1. k = IdleCall
      BY <1>4 DEF AfterStop
    <2>2. QED
      BY <2>1, IdleIsCall
  <1>5. QED
    BY <1>2, <1>3, <1>4

(* The step that ends a stop, with p and no busy worker if a rollback is   *)
(* to begin.                                                               *)
LEMMA StopEnds ==
    ASSUME IInv, NEW a \in Copies, NEW t \in Threads, call[a][t].at \in Stopping,
           NEW p \in Proc, p.state # "stopped" <=> p.current # None,
           p.up = proc[a].up, p.maintenance = proc[a].maintenance, p.rollback = proc[a].rollback,
           p.closing = proc[a].closing, p.closed = proc[a].closed,
           p.current \in {proc[a].current, None},
           CopyOK(p, worker[a], op[a]),
           call[a][t].at \in {"halt", "halting"} => Busy(worker[a]) = {},
           proc' = [proc EXCEPT ![a] = p],
           call' = [call EXCEPT ![a][t] = AfterStop(a, t)],
           UNCHANGED <<schema, users, worker, op>>
    PROVE  IInv'
  <1> DEFINE k == AfterStop(a, t)
  <1>1. /\ k \in Call
        /\ \/ k.at = "close" /\ k.name = "shutdown"
           \/ k.at = "down" /\ k.name = "rollback" /\ call[a][t].at \in {"halt", "halting"}
              /\ call[a][t].name = "rollback"
           \/ k = IdleCall
    BY AfterStopMoves
  <1>2. call' = [call EXCEPT ![a][t] = k]
    OBVIOUS
  <1> HIDE DEF k
  <1>3. ThreadOK(proc[a], worker[a], call[a][t]) /\ proc[a].up
    BY Known DEF ThreadOK, Stopping
  <1>4. ThreadOK(p, worker[a], k)
    BY <1>1, <1>3, IdleIsCall DEF ThreadOK, Back
  <1>5. \A u \in Threads : ThreadOK(p, worker[a], call[a][u])
    <2> SUFFICES ASSUME NEW u \in Threads PROVE ThreadOK(p, worker[a], call[a][u])
      OBVIOUS
    <2>1. ThreadOK(proc[a], worker[a], call[a][u])
      BY Known
    <2>2. call[a][u].at \in Back => p.rollback /\ p.maintenance
      BY <2>1 DEF ThreadOK
    <2>3. QED
      BY <2>1, <2>2, ThreadKept
  <1>6. /\ k.at \notin Locked /\ k.at \notin Moving /\ k.at # "decide"
        /\ k.name = "rollback" => call[a][t].name = "rollback"
    BY <1>1, IdleIsCall DEF Locked, Moving, None
  <1>7. /\ schema' \in [version : Nat, dirty : BOOLEAN] /\ schema'.dirty = schema.dirty
        /\ users' \in BOOLEAN /\ worker' = [worker EXCEPT ![a] = worker[a]] /\ UNCHANGED op
        /\ worker[a] \in [Gens -> {"running", "cancelled", "ended", "closed"}]
    BY Known
  <1>8. QED
    BY <1>1, <1>2, <1>4, <1>5, <1>6, <1>7, ThreadStep, ZenonT(60)

(* A stop that begins keeps it.                                            *)
LEMMA StopBegins ==
    ASSUME IInv, NEW a \in Copies, NEW t \in Threads, StopBegin(a, t)
    PROVE  IInv'
  <1>1. PICK s \in StopSteps :
            /\ At(a, t, s[1])
            /\ IF proc[a].state = "stopped"
               THEN /\ call' = [call EXCEPT ![a][t] = AfterStop(a, t)]
                    /\ UNCHANGED <<proc, worker>>
               ELSE /\ call' = [call EXCEPT ![a][t] = [@ EXCEPT !.at = s[2],
                                                                !.wait = proc[a].current]]
                    /\ Set(a, [proc[a] EXCEPT !.state = "stopping"])
                    /\ worker' = [worker EXCEPT ![a][proc[a].current] =
                                      IF @ = "running" THEN "cancelled" ELSE @]
            /\ UNCHANGED <<schema, users, op>>
    BY DEF StopBegin
  <1>2. \/ call[a][t].at = "stop" /\ s[2] = "stopping"
        \/ call[a][t].at = "halt" /\ s[2] = "halting"
        \/ call[a][t].at = "quit" /\ s[2] = "quitting"
    BY <1>1 DEF StopSteps, At
  <1>3. CASE proc[a].state = "stopped"
    <2>1. /\ call' = [call EXCEPT ![a][t] = AfterStop(a, t)]
          /\ UNCHANGED <<schema, users, worker, op>> /\ proc' = [proc EXCEPT ![a] = proc[a]]
      BY <1>1, <1>3, Known
    <2>2. Busy(worker[a]) = {}
      <3>1. proc[a].current = None
        BY <1>3, Known
      <3>2. QED
        BY <3>1, NoneIsNoWorker, Known DEF CopyOK, Busy
    <2>3. call[a][t].at \in Stopping
      BY <1>2 DEF Stopping
    <2>4. QED
      BY <2>1, <2>2, <2>3, Known, StopEnds, ZenonT(60)
  <1>4. CASE proc[a].state # "stopped"
    <2> DEFINE p == [proc[a] EXCEPT !.state = "stopping"]
               g == proc[a].current
               w == [worker[a] EXCEPT ![g] = IF worker[a][g] = "running" THEN "cancelled" ELSE worker[a][g]]
               k == [call[a][t] EXCEPT !.at = s[2], !.wait = g]
    <2>1. g \in Gens /\ call[a][t] \in Call /\ ThreadOK(proc[a], worker[a], call[a][t])
      BY <1>4, Known DEF Proc
    <2>2. /\ p \in Proc /\ p.up = proc[a].up /\ p.maintenance = proc[a].maintenance
          /\ p.rollback = proc[a].rollback /\ p.current = g /\ p.state = "stopping"
          /\ p.closing = proc[a].closing /\ p.closed = proc[a].closed /\ p.late = proc[a].late
      BY Known DEF Proc
    <2>3. /\ proc' = [proc EXCEPT ![a] = p] /\ UNCHANGED <<schema, users, op>>
          /\ call' = [call EXCEPT ![a][t] = k]
      BY <1>1, <1>4 DEF Set
    <2>4. worker' = [worker EXCEPT ![a] = w]
      BY <1>1, <1>4, <2>1, Known
    <2>5. k \in Call /\ k.at = s[2] /\ k.name = call[a][t].name /\ k.wait = g
      BY <1>2, <2>1 DEF Call, Places
    <2>6. /\ w \in [Gens -> {"running", "cancelled", "ended", "closed"}]
          /\ Busy(w) = Busy(worker[a])
      BY <2>1, Known DEF Busy
    <2> HIDE DEF p, w, k
    <2>7. ThreadOK(p, w, k)
      BY <1>2, <2>1, <2>2, <2>5 DEF ThreadOK, Back
    <2>8. \A u \in Threads : ThreadOK(p, w, call[a][u])
      <3> SUFFICES ASSUME NEW u \in Threads PROVE ThreadOK(p, w, call[a][u])
        OBVIOUS
      <3>1. ThreadOK(proc[a], worker[a], call[a][u])
        BY Known
      <3>2. call[a][u].at \in Back => p.rollback /\ p.maintenance
        BY <2>2, <3>1 DEF ThreadOK
      <3>3. QED
        BY <2>2, <2>6, <3>1, <3>2, ThreadKept
    <2>9. CopyOK(p, w, op[a])
      BY <2>2, <2>6, Known, CopyKept
    <2>10. /\ k.at \notin Moving /\ k.at # "decide"
           /\ k.at \in Locked => call[a][t].at \in Locked
           /\ k.name = "rollback" => call[a][t].name = "rollback"
      BY <1>2, <2>5 DEF Locked, Moving
    <2>11. /\ p.state # "stopped" <=> p.current # None
           /\ schema' \in [version : Nat, dirty : BOOLEAN] /\ schema'.dirty = schema.dirty
           /\ users' \in BOOLEAN /\ UNCHANGED op
      BY <2>1, <2>2, <2>3, NoneIsNoWorker, Known
    <2>12. QED
      BY <2>2, <2>3, <2>4, <2>5, <2>6, <2>7, <2>8, <2>9, <2>10, <2>11, ThreadStep, ZenonT(60)
  <1>5. QED
    BY <1>3, <1>4

(* Forgetting a worker that is not at work.                                *)
LEMMA Forgotten ==
    ASSUME IInv, NEW a \in Copies, NEW g, NEW p, p = Forget(a, g)
    PROVE  /\ p \in Proc /\ (p.state # "stopped" <=> p.current # None)
           /\ p.up = proc[a].up /\ p.maintenance = proc[a].maintenance
           /\ p.rollback = proc[a].rollback /\ p.closing = proc[a].closing
           /\ p.closed = proc[a].closed /\ p.late = proc[a].late
           /\ p.current \in {proc[a].current, None}
           /\ p.current # None => proc[a].current # g
  <1>1. CASE proc[a].current = g
    <2>1. p = Stopped(proc[a])
      BY <1>1 DEF Forget, Stopped
    <2>2. QED
      BY <2>1, Known, StoppedFields
  <1>2. CASE proc[a].current # g
    BY <1>2, Known DEF Forget
  <1>3. QED
    BY <1>1, <1>2

(* A stop that has waited long enough keeps it.                            *)
LEMMA StopIsDone ==
    ASSUME IInv, NEW a \in Copies, NEW t \in Threads, StopDone(a, t)
    PROVE  IInv'
  <1> DEFINE g == call[a][t].wait
             p == Forget(a, g)
  <1>1. /\ call[a][t].at \in {"stopping", "halting", "quitting"} /\ worker[a][g] = "closed"
        /\ proc' = [proc EXCEPT ![a] = p] /\ call' = [call EXCEPT ![a][t] = AfterStop(a, t)]
        /\ UNCHANGED <<schema, users, worker, op>>
    BY DEF StopDone, StopSteps, At, Set
  <1>2. /\ p \in Proc /\ (p.state # "stopped" <=> p.current # None)
        /\ p.up = proc[a].up /\ p.maintenance = proc[a].maintenance
        /\ p.rollback = proc[a].rollback /\ p.closing = proc[a].closing
        /\ p.closed = proc[a].closed /\ p.late = proc[a].late
        /\ p.current \in {proc[a].current, None}
        /\ p.current # None => proc[a].current # g
    BY Forgotten
  <1>3. proc[a].current = g => Busy(worker[a]) = {}
    BY <1>1, Known DEF CopyOK, Busy
  <1>4. proc[a].current = None => Busy(worker[a]) = {}
    BY NoneIsNoWorker, Known DEF CopyOK, Busy
  <1>5. p.current # proc[a].current => Busy(worker[a]) = {}
    BY <1>3 DEF Forget
  <1> HIDE DEF p
  <1>6. CopyOK(p, worker[a], op[a])
    BY <1>2, <1>5, Known DEF CopyOK
  <1>7. call[a][t].at \in {"halt", "halting"} => Busy(worker[a]) = {}
    <2>1. call[a][t].at = "halting" => proc[a].current \in {g, None}
      BY Known DEF ThreadOK
    <2>2. QED
      BY <1>1, <1>3, <1>4, <2>1
  <1>8. call[a][t].at \in Stopping
    BY <1>1 DEF Stopping
  <1>9. QED
    BY <1>1, <1>2, <1>6, <1>7, <1>8, StopEnds, ZenonT(60)

(* A stop that times out keeps it, since a rollback is called off.         *)
LEMMA StopGivesUp ==
    ASSUME IInv, NEW a \in Copies, NEW t \in Threads, StopTimesOut(a, t)
    PROVE  IInv'
  <1>1. /\ call[a][t].at \in {"stopping", "halting", "quitting"} /\ AfterTimeout(a, t)
        /\ UNCHANGED <<schema, users, worker, op>>
        /\ ThreadOK(proc[a], worker[a], call[a][t]) /\ proc[a].up
    BY Known DEF StopTimesOut, StopSteps, At, ThreadOK
  <1>2. CASE call[a][t].at # "halting"
    <2> DEFINE b == proc[a].late \/ At(a, t, "quitting")
               p == [proc[a] EXCEPT !.late = b]
    <2>1. proc' = [proc EXCEPT ![a] = p] /\ call' = [call EXCEPT ![a][t] = AfterStop(a, t)]
      BY <1>1, <1>2 DEF AfterTimeout, At, Set
    <2>2. b \in BOOLEAN /\ (proc[a].late => b)
      BY Known DEF Proc, At
    <2> HIDE DEF b
    <2>3. /\ p \in Proc /\ p.up = proc[a].up /\ p.maintenance = proc[a].maintenance
          /\ p.rollback = proc[a].rollback /\ p.current = proc[a].current /\ p.state = proc[a].state
          /\ p.closing = proc[a].closing /\ p.closed = proc[a].closed /\ p.late = b
      BY <2>2, Known DEF Proc
    <2> HIDE DEF p
    <2>4. CopyOK(p, worker[a], op[a])
      BY <2>2, <2>3, Known DEF CopyOK
    <2>5. /\ call[a][t].at \in Stopping /\ call[a][t].at \notin {"halt", "halting"}
          /\ p.state # "stopped" <=> p.current # None
      BY <1>1, <1>2, <2>3, Known DEF Stopping
    <2>6. QED
      BY <1>1, <2>1, <2>3, <2>4, <2>5, StopEnds, ZenonT(60)
  <1>3. CASE call[a][t].at = "halting"
    <2> DEFINE p == [proc[a] EXCEPT !.rollback = FALSE]
               k == [call[a][t] EXCEPT !.at = "status", !.wait = None]
    <2>1. proc' = [proc EXCEPT ![a] = p] /\ call' = [call EXCEPT ![a][t] = k]
      BY <1>1, <1>3 DEF AfterTimeout, At, Set
    <2>2. k \in Call /\ k.at = "status" /\ k.name = call[a][t].name
      <3>1. call[a][t] \in Call
        BY Known
      <3>2. QED
        BY <3>1 DEF Call, Places
    <2>3. /\ p \in Proc /\ p.up = proc[a].up /\ p.maintenance = proc[a].maintenance
          /\ p.current = proc[a].current /\ p.state = proc[a].state /\ ~p.rollback
          /\ p.closing = proc[a].closing /\ p.closed = proc[a].closed /\ p.late = proc[a].late
      BY Known DEF Proc
    <2> HIDE DEF p, k
    <2>4. ThreadOK(p, worker[a], k)
      BY <1>1, <2>2, <2>3 DEF ThreadOK, Back
    <2>5. p.maintenance /\ call[a][t].name = "rollback"
      BY <1>1, <1>3, <2>3 DEF ThreadOK, Back
    <2>6. ASSUME NEW u \in Threads \ {t}
          PROVE  ThreadOK(p, worker[a], call[a][u])
      <3>1. ThreadOK(proc[a], worker[a], call[a][u])
        BY Known
      <3>2. PairsOK(call[a])
        BY DEF IInv, LocalInv, Local
      <3>3. call[a][u].at \notin Back
        BY <1>3, <2>5, <3>1, <3>2 DEF ThreadOK, PairsOK, Locked
      <3>4. QED
        BY <2>3, <3>1, <3>3, ThreadKept
    <2>7. CopyOK(p, worker[a], op[a])
      BY <2>3, Known, CopyKept
    <2>8. /\ k.at \in Locked => call[a][t].at \in Locked \/ ~Reconciling(a)
          /\ k.at \notin Moving
          /\ k.name = "rollback" => \/ call[a][t].name = "rollback"
                                    \/ \A u \in Threads : call[a][u].name # "rollback"
          /\ \A u \in Threads \ {t} : ThreadOK(p, worker[a], call[a][u])
      BY <1>3, <2>2, <2>6 DEF Moving, Locked
    <2>9. /\ p.state # "stopped" <=> p.current # None
          /\ schema' \in [version : Nat, dirty : BOOLEAN] /\ schema'.dirty = schema.dirty
          /\ users' \in BOOLEAN /\ UNCHANGED op /\ worker' = [worker EXCEPT ![a] = worker[a]]
          /\ worker[a] \in [Gens -> {"running", "cancelled", "ended", "closed"}]
      BY <1>1, <2>3, Known
    <2>10. QED
      BY <2>1, <2>2, <2>3, <2>4, <2>7, <2>8, <2>9, ThreadStep, ZenonT(60)
  <1>4. QED
    BY <1>2, <1>3

(* A step of a worker or of an operation: the calls stay.                  *)
LEMMA CallsStay ==
    ASSUME IInv, NEW a \in Copies,
           NEW p \in Proc, p.state # "stopped" <=> p.current # None,
           p.up = proc[a].up, p.maintenance = proc[a].maintenance, p.rollback = proc[a].rollback,
           p.closing = proc[a].closing, p.current \in {proc[a].current, None},
           NEW w \in [Gens -> {"running", "cancelled", "ended", "closed"}],
           Busy(w) \subseteq Busy(worker[a]),
           NEW o \in [Operations -> {"idle", "tracked", "cancelled"}],
           proc' = [proc EXCEPT ![a] = p], worker' = [worker EXCEPT ![a] = w],
           op' = [op EXCEPT ![a] = o], UNCHANGED <<schema, users, call>>,
           CopyOK(p, w, o)
    PROVE  IInv'
  <1>1. /\ call[a] \in [Threads -> Call] /\ call' = [call EXCEPT ![a] = call[a]]
    BY DEF IInv, StateOK
  <1>2. \A u \in Threads : ThreadOK(p, w, call[a][u])
    <2> SUFFICES ASSUME NEW u \in Threads PROVE ThreadOK(p, w, call[a][u])
      OBVIOUS
    <2>1. ThreadOK(proc[a], worker[a], call[a][u])
      BY Known
    <2>2. call[a][u].at \in Back => p.rollback /\ p.maintenance
      BY <2>1 DEF ThreadOK
    <2>3. QED
      BY <2>1, <2>2, ThreadKept
  <1>3. Local(p, w, call[a], o)
    BY <1>2 DEF IInv, LocalInv, Local
  <1>4. Serial'
    BY DEF IInv, Serial
  <1>5. schema' \in [version : Nat, dirty : BOOLEAN] /\ users' \in BOOLEAN
    BY Known
  <1>6. QED
    BY <1>1, <1>3, <1>4, <1>5, CopyStep, ZenonT(60)

(* The end of a worker keeps it.                                           *)
LEMMA WorkerSteps ==
    ASSUME IInv, NEW a \in Copies, NEW g \in Gens, WorkerEnds(a, g) \/ CloseDone(a, g)
    PROVE  IInv'
  <1>0. op = [op EXCEPT ![a] = op[a]] /\ op[a] \in [Operations -> {"idle", "tracked", "cancelled"}]
    BY DEF IInv, StateOK
  <1>1. CASE WorkerEnds(a, g)
    <2> DEFINE p == Forget(a, g)
               w == [worker[a] EXCEPT ![g] = "ended"]
    <2>1. /\ worker[a][g] = "cancelled" /\ proc' = [proc EXCEPT ![a] = p]
          /\ worker' = [worker EXCEPT ![a] = w]
          /\ UNCHANGED <<schema, users, call, op>>
      BY <1>1, Known DEF WorkerEnds, Set
    <2>2. /\ p \in Proc /\ (p.state # "stopped" <=> p.current # None)
          /\ p.up = proc[a].up /\ p.maintenance = proc[a].maintenance
          /\ p.rollback = proc[a].rollback /\ p.closing = proc[a].closing
          /\ p.closed = proc[a].closed /\ p.late = proc[a].late
          /\ p.current \in {proc[a].current, None}
      BY Forgotten
    <2>3. w \in [Gens -> {"running", "cancelled", "ended", "closed"}] /\ Busy(w) = Busy(worker[a]) \ {g}
      BY Known DEF Busy
    <2>4. Busy(worker[a]) \subseteq {g}
      <3>1. g \in Busy(worker[a])
        BY <2>1 DEF Busy
      <3>2. QED
        BY <3>1, Known DEF CopyOK
    <2> HIDE DEF p, w
    <2>5. CopyOK(p, w, op[a])
      BY <2>2, <2>3, <2>4, Known DEF CopyOK
    <2>6. QED
      BY <1>0, <2>1, <2>2, <2>3, <2>5, CallsStay
  <1>2. CASE CloseDone(a, g)
    <2> DEFINE w == [worker[a] EXCEPT ![g] = "closed"]
    <2>1. /\ worker[a][g] = "ended" /\ proc' = [proc EXCEPT ![a] = proc[a]]
          /\ worker' = [worker EXCEPT ![a] = w]
          /\ UNCHANGED <<schema, users, call, op>>
      BY <1>2, Known DEF CloseDone
    <2>2. w \in [Gens -> {"running", "cancelled", "ended", "closed"}] /\ Busy(w) \subseteq Busy(worker[a])
      BY Known DEF Busy
    <2> HIDE DEF w
    <2>3. CopyOK(proc[a], w, op[a])
      BY <2>2, Known, CopyKept
    <2>4. QED
      BY <1>0, <2>1, <2>2, <2>3, Known, CallsStay
  <1>3. QED
    BY <1>1, <1>2

(* The end of the work at the start keeps it.                              *)
LEMMA CatchUpEnding ==
    ASSUME IInv, NEW a \in Copies, CatchUpEnds(a)
    PROVE  IInv'
  <1> DEFINE p == [proc[a] EXCEPT !.catchUp = FALSE]
  <1>1. /\ proc' = [proc EXCEPT ![a] = p] /\ UNCHANGED <<schema, users, worker, call, op>>
        /\ op[a] \in [Operations -> {"idle", "tracked", "cancelled"}] /\ op = [op EXCEPT ![a] = op[a]]
    BY DEF CatchUpEnds, Set, IInv, StateOK
  <1>2. /\ p \in Proc /\ p.up = proc[a].up /\ p.maintenance = proc[a].maintenance
        /\ p.rollback = proc[a].rollback /\ p.current = proc[a].current /\ p.state = proc[a].state
        /\ p.closing = proc[a].closing /\ p.closed = proc[a].closed /\ p.late = proc[a].late
    BY Known DEF Proc
  <1> HIDE DEF p
  <1>3. CopyOK(p, worker[a], op[a])
    BY <1>2, Known, CopyKept
  <1>4. /\ p.state # "stopped" <=> p.current # None
        /\ worker' = [worker EXCEPT ![a] = worker[a]]
        /\ worker[a] \in [Gens -> {"running", "cancelled", "ended", "closed"}]
        /\ op' = [op EXCEPT ![a] = op[a]]
    BY <1>1, <1>2, Known
  <1>5. QED
    BY <1>1, <1>2, <1>3, <1>4, CallsStay

(* Operations keep it: none is tracked once the copy is closing.           *)
LEMMA OperationSteps ==
    ASSUME IInv, NEW a \in Copies, NEW x \in Operations, BeginOperation(a, x) \/ EndOperation(a, x)
    PROVE  IInv'
  <1>1. PICK s \in {"idle", "tracked", "cancelled"} :
            /\ op' = [op EXCEPT ![a][x] = s] /\ UNCHANGED <<schema, users, proc, worker, call>>
            /\ s = "tracked" => ~proc[a].closing
    BY DEF BeginOperation, EndOperation, Track
  <1> DEFINE o == [op[a] EXCEPT ![x] = s]
  <1>2. op[a] \in [Operations -> {"idle", "tracked", "cancelled"}] /\ op' = [op EXCEPT ![a] = o]
    BY <1>1 DEF IInv, StateOK
  <1>3. /\ o \in [Operations -> {"idle", "tracked", "cancelled"}]
        /\ o[x] = s /\ \A y \in Operations \ {x} : o[y] = op[a][y]
    BY <1>2
  <1> HIDE DEF o
  <1>4. CopyOK(proc[a], worker[a], o)
    <2>1. CopyOK(proc[a], worker[a], op[a])
      BY Known
    <2>2. proc[a].closed /\ ~proc[a].late => \A y \in Operations : o[y] # "tracked"
      BY <1>1, <1>3, <2>1 DEF CopyOK
    <2>3. QED
      BY <2>1, <2>2 DEF CopyOK
  <1>5. proc' = [proc EXCEPT ![a] = proc[a]] /\ worker' = [worker EXCEPT ![a] = worker[a]]
    BY <1>1, Known
  <1>6. QED
    BY <1>1, <1>2, <1>3, <1>4, <1>5, Known, CallsStay

-----------------------------------------------------------------------------
(* Migrations.                                                             *)

(* A step that changes the schema.                                         *)
LEMMA SchemaStep ==
    ASSUME IInv, NEW a \in Copies, NEW t \in Threads, NEW k \in Call,
           call' = [call EXCEPT ![a][t] = k], UNCHANGED <<proc, worker, op>>,
           schema' \in [version : Nat, dirty : BOOLEAN], users' \in BOOLEAN,
           ThreadOK(proc[a], worker[a], k),
           k.name = call[a][t].name,
           k.at \notin Locked,
           k.at \in Moving => schema'.dirty /\ (call[a][t].at \in Moving \/ ~Migrating),
           k.at \notin Moving => call[a][t].at \in Moving \/ schema'.dirty = schema.dirty
    PROVE  IInv'
  <1>1. proc' = [proc EXCEPT ![a] = proc[a]] /\ worker' = [worker EXCEPT ![a] = worker[a]] /\ UNCHANGED op
    BY Known
  <1>2. k.name = "rollback" => call[a][t].name = "rollback"
    OBVIOUS
  <1>3. \A u \in Threads : ThreadOK(proc[a], worker[a], call[a][u])
    BY Known
  <1>4. QED
    BY <1>1, <1>2, <1>3, Known, ThreadStep, ZenonT(60)

(* Migrations upwards and the initial setup keep it.                       *)
LEMMA Upgrades ==
    ASSUME IInv, NEW a \in Copies, NEW t \in Threads,
           Up(a, t) \/ Upgraded(a, t) \/ UpgradeFails(a, t) \/ Administrate(a, t)
    PROVE  IInv'
  <1>1. /\ call[a][t].at \in {"up", "upgrading", "admin"} /\ UNCHANGED <<proc, worker, op>>
        /\ ThreadOK(proc[a], worker[a], call[a][t]) /\ proc[a].up
        /\ users' \in BOOLEAN /\ users \in BOOLEAN
    BY Known DEF Up, Upgraded, UpgradeFails, Administrate, At, ThreadOK
  <1>2. schema.version \in Nat /\ Latest[a] \in Nat /\ schema \in [version : Nat, dirty : BOOLEAN]
    BY Known, LifecycleAssumption
  <1>3. ASSUME Return(a, t), UNCHANGED schema PROVE IInv'
    <2>1. /\ call' = [call EXCEPT ![a][t] = IdleCall]
          /\ IdleCall.at \notin Locked /\ IdleCall.at \notin Moving /\ IdleCall.at # "decide"
          /\ IdleCall.name # "rollback"
      BY <1>3, IdleIsCall DEF Return, Locked, Moving, None
    <2>2. UNCHANGED <<schema, proc, worker, op>>
      BY <1>1, <1>3
    <2>3. QED
      BY <1>1, <2>1, <2>2, IdleIsCall, QuietStep, ZenonT(60)
  <1>4. ASSUME NEW s \in {"up", "upgrading", "admin", "reconcile"}, Goto(a, t, s),
               schema' \in [version : Nat, dirty : BOOLEAN],
               s = "upgrading" => schema'.dirty /\ ~Migrating,
               s # "upgrading" => call[a][t].at = "upgrading" \/ schema'.dirty = schema.dirty
        PROVE  IInv'
    <2> DEFINE k == [call[a][t] EXCEPT !.at = s]
    <2>1. k \in Call /\ k.at = s /\ k.name = call[a][t].name /\ call' = [call EXCEPT ![a][t] = k]
      BY <1>4, GotoMoves DEF Places
    <2> HIDE DEF k
    <2>2. ThreadOK(proc[a], worker[a], k) /\ k.at \notin Locked
      BY <1>1, <2>1 DEF ThreadOK, Back, Locked
    <2>3. /\ k.at \in Moving => schema'.dirty /\ (call[a][t].at \in Moving \/ ~Migrating)
          /\ k.at \notin Moving => call[a][t].at \in Moving \/ schema'.dirty = schema.dirty
      BY <1>4, <2>1 DEF Moving
    <2>4. QED
      BY <1>1, <1>4, <2>1, <2>2, <2>3, SchemaStep, ZenonT(60)
  <1>5. CASE Up(a, t)
    <2>1. CASE ~Compatible(a)
      BY <1>3, <1>5, <2>1 DEF Up
    <2>2. CASE Compatible(a) /\ schema.version = Latest[a]
      BY <1>2, <1>4, <1>5, <2>2 DEF Up
    <2>3. CASE Compatible(a) /\ schema.version # Latest[a]
      <3>1. schema' = [version |-> schema.version + 1, dirty |-> TRUE] /\ Goto(a, t, "upgrading")
        BY <1>5, <2>3 DEF Up
      <3>2. schema' \in [version : Nat, dirty : BOOLEAN] /\ schema'.dirty
        BY <1>2, <3>1
      <3>3. ~Migrating
        BY <1>5 DEF Up
      <3>4. QED
        BY <1>4, <3>1, <3>2, <3>3
    <2>4. QED
      BY <2>1, <2>2, <2>3
  <1>6. CASE Upgraded(a, t)
    <2>1. schema' = [schema EXCEPT !.dirty = FALSE] /\ Goto(a, t, "up") /\ call[a][t].at = "upgrading"
      BY <1>6 DEF Upgraded, At
    <2>2. schema' \in [version : Nat, dirty : BOOLEAN]
      BY <1>2, <2>1
    <2>3. QED
      BY <1>4, <2>1, <2>2
  <1>7. CASE UpgradeFails(a, t)
    BY <1>3, <1>7 DEF UpgradeFails
  <1>8. CASE Administrate(a, t)
    <2>1. UNCHANGED schema /\ (Goto(a, t, "reconcile") \/ Return(a, t))
      BY <1>8 DEF Administrate
    <2>2. QED
      BY <1>2, <1>3, <1>4, <2>1
  <1>9. QED
    BY <1>5, <1>6, <1>7, <1>8

-----------------------------------------------------------------------------
(* Rollbacks and the end of the program.                                   *)

(* A step that changes the flags of its copy.                              *)
LEMMA FlagStep ==
    ASSUME IInv, NEW a \in Copies, NEW t \in Threads, NEW s \in Places, Goto(a, t, s),
           s # "idle" /\ s \notin Moving,
           s \in Locked => call[a][t].at \in Locked \/ ~Reconciling(a),
           call[a][t].at \notin Moving \union {"idle"},
           NEW p \in Proc, p.up = proc[a].up, p.current = proc[a].current,
           p.state = proc[a].state,
           proc[a].closing => p.closing,
           CopyOK(p, worker[a], op[a]),
           proc' = [proc EXCEPT ![a] = p], UNCHANGED <<schema, users, worker, op>>,
           NEW k, k = [call[a][t] EXCEPT !.at = s], ThreadOK(p, worker[a], k),
           \A u \in Threads \ {t} : call[a][u].at \in Back => p.rollback /\ p.maintenance
    PROVE  IInv'
  <1>1. k \in Call /\ k.at = s /\ k.name = call[a][t].name /\ call' = [call EXCEPT ![a][t] = k]
    BY GotoMoves
  <1>2. \A u \in Threads \ {t} : ThreadOK(p, worker[a], call[a][u])
    <2> SUFFICES ASSUME NEW u \in Threads \ {t} PROVE ThreadOK(p, worker[a], call[a][u])
      OBVIOUS
    <2>1. ThreadOK(proc[a], worker[a], call[a][u])
      BY Known
    <2>2. QED
      BY <2>1, ThreadKept
  <1>3. /\ p.state # "stopped" <=> p.current # None
        /\ schema' \in [version : Nat, dirty : BOOLEAN] /\ schema'.dirty = schema.dirty
        /\ users' \in BOOLEAN /\ UNCHANGED op /\ worker' = [worker EXCEPT ![a] = worker[a]]
        /\ worker[a] \in [Gens -> {"running", "cancelled", "ended", "closed"}]
        /\ k.at \notin Moving
        /\ k.at \in Locked => call[a][t].at \in Locked \/ ~Reconciling(a)
        /\ k.name = "rollback" => call[a][t].name = "rollback"
    BY <1>1, Known
  <1>4. QED
    BY <1>1, <1>2, <1>3, ThreadStep, ZenonT(60)

(* A rollback is the only one of its copy.                                 *)
LEMMA OneBack ==
    ASSUME IInv, NEW a \in Copies, NEW t \in Threads, call[a][t].name = "rollback"
    PROVE  \A u \in Threads \ {t} : call[a][u].at \notin Back
  <1>1. \A u \in Threads : ThreadOK(proc[a], worker[a], call[a][u])
    BY Known
  <1>2. PairsOK(call[a])
    BY DEF IInv, LocalInv, Local
  <1>3. QED
    BY <1>1, <1>2 DEF ThreadOK, PairsOK

(* The begin and the end of a rollback keep it.                            *)
LEMMA Rollbacks ==
    ASSUME IInv, NEW a \in Copies, NEW t \in Threads, Prepare(a, t) \/ Complete(a, t)
    PROVE  IInv'
  <1>1. /\ call[a][t].at \in {"prepare", "failed", "succeeded"} /\ ~Reconciling(a)
        /\ UNCHANGED <<schema, users, worker, op>>
        /\ ThreadOK(proc[a], worker[a], call[a][t]) /\ proc[a].up /\ call[a][t] \in Call
    BY Known DEF Prepare, Complete, At, ThreadOK
  <1>2. call[a][t].name = "rollback" /\ \A u \in Threads \ {t} : call[a][u].at \notin Back
    <2>1. call[a][t].name = "rollback"
      BY <1>1 DEF ThreadOK, Back
    <2>2. QED
      BY <2>1, OneBack
  <1>3. CASE Prepare(a, t)
    <2> DEFINE p == Blocked(proc[a])
               k == [call[a][t] EXCEPT !.at = "halt"]
    <2>1. proc' = [proc EXCEPT ![a] = p] /\ Goto(a, t, "halt")
      BY <1>3 DEF Prepare, Set, Blocked
    <2>2. /\ p \in Proc /\ p.up = proc[a].up /\ p.maintenance /\ p.rollback
          /\ p.current = proc[a].current /\ p.state = proc[a].state
          /\ p.closing = proc[a].closing /\ p.closed = proc[a].closed /\ p.late = proc[a].late
      BY Known, BlockedFields
    <2>3. k.at = "halt" /\ k.name = "rollback"
      BY <1>1, <1>2 DEF Call
    <2> HIDE DEF p, k
    <2>4. ThreadOK(p, worker[a], k)
      BY <1>1, <2>2, <2>3 DEF ThreadOK, Back
    <2>5. CopyOK(p, worker[a], op[a])
      BY <2>2, Known, CopyKept
    <2>6. "halt" \in Places /\ "halt" \notin Moving /\ call[a][t].at \notin Moving \union {"idle"}
      BY <1>1 DEF Places, Moving
    <2>7. QED
      BY <1>1, <1>2, <2>1, <2>2, <2>4, <2>5, <2>6, FlagStep DEF k
  <1>4. CASE Complete(a, t)
    <2> DEFINE p == [proc[a] EXCEPT !.rollback = FALSE]
    <2>1. proc' = [proc EXCEPT ![a] = p]
      BY <1>4 DEF Complete, Completed, Set
    <2>2. /\ p \in Proc /\ p.up = proc[a].up /\ p.maintenance = proc[a].maintenance /\ ~p.rollback
          /\ p.current = proc[a].current /\ p.state = proc[a].state
          /\ p.closing = proc[a].closing /\ p.closed = proc[a].closed /\ p.late = proc[a].late
      BY Known DEF Proc
    <2> HIDE DEF p
    <2>3. CopyOK(p, worker[a], op[a]) /\ p.maintenance
      <3>1. call[a][t].at \in Back
        BY <1>1, <1>4 DEF Complete, At, Back
      <3>2. QED
        <4>1. CopyOK(p, worker[a], op[a])
          BY <2>2, Known, CopyKept
        <4>2. p.maintenance
          BY <1>1, <2>2, <3>1 DEF ThreadOK
        <4>3. QED
          BY <4>1, <4>2
    <2>4. CASE Goto(a, t, "status")
      <3> DEFINE k == [call[a][t] EXCEPT !.at = "status"]
      <3>1. k.at = "status" /\ k.name = "rollback"
        BY <1>1, <1>2 DEF Call
      <3> HIDE DEF k
      <3>2. ThreadOK(p, worker[a], k)
        BY <1>1, <2>2, <3>1 DEF ThreadOK, Back
      <3>3. "status" \in Places /\ "status" \notin Moving /\ call[a][t].at \notin Moving \union {"idle"}
        BY <1>1 DEF Places, Moving
      <3>4. QED
        BY <1>1, <1>2, <2>1, <2>2, <2>3, <2>4, <3>2, <3>3, FlagStep DEF k
    <2>5. CASE Return(a, t)
      <3>1. call' = [call EXCEPT ![a][t] = IdleCall]
        BY <2>5 DEF Return
      <3>2. /\ IdleCall.at \notin Locked /\ IdleCall.at \notin Moving /\ IdleCall.at # "decide"
            /\ IdleCall.name # "rollback"
        BY IdleIsCall DEF Locked, Moving, None
      <3>3. \A u \in Threads \ {t} : ThreadOK(p, worker[a], call[a][u])
        <4> SUFFICES ASSUME NEW u \in Threads \ {t} PROVE ThreadOK(p, worker[a], call[a][u])
          OBVIOUS
        <4>1. ThreadOK(proc[a], worker[a], call[a][u])
          BY Known
        <4>2. QED
          BY <1>2, <2>2, <4>1, ThreadKept
      <3>4. /\ p.state # "stopped" <=> p.current # None
            /\ schema' \in [version : Nat, dirty : BOOLEAN] /\ schema'.dirty = schema.dirty
            /\ users' \in BOOLEAN /\ UNCHANGED op /\ worker' = [worker EXCEPT ![a] = worker[a]]
            /\ worker[a] \in [Gens -> {"running", "cancelled", "ended", "closed"}]
        BY <1>1, <2>2, Known
      <3>5. QED
        BY <2>1, <2>2, <2>3, <3>1, <3>2, <3>3, <3>4, IdleIsCall, ThreadStep, ZenonT(60)
    <2>6. QED
      BY <1>4, <2>4, <2>5 DEF Complete, Completed
  <1>5. QED
    BY <1>3, <1>4 DEF Prepare, Complete

(* A migration that is taken back keeps it.                                *)
LEMMA Downgrades ==
    ASSUME IInv, NEW a \in Copies, NEW t \in Threads, Down(a, t) \/ Downgraded(a, t)
    PROVE  IInv'
  <1>1. /\ call[a][t].at \in {"down", "downgrading"} /\ UNCHANGED <<proc, worker, op>>
        /\ ThreadOK(proc[a], worker[a], call[a][t]) /\ proc[a].up
        /\ users' \in BOOLEAN /\ schema \in [version : Nat, dirty : BOOLEAN]
    BY Known DEF Down, Downgraded, At, ThreadOK
  <1>2. proc[a].maintenance /\ proc[a].rollback /\ call[a][t].name = "rollback" /\ Busy(worker[a]) = {}
    BY <1>1 DEF ThreadOK, Back
  <1>3. ASSUME NEW s \in {"downgrading", "failed", "succeeded"}, Goto(a, t, s),
               schema' \in [version : Nat, dirty : BOOLEAN],
               s = "downgrading" => schema'.dirty /\ ~Migrating,
               s # "downgrading" => call[a][t].at = "downgrading" \/ schema'.dirty = schema.dirty
        PROVE  IInv'
    <2> DEFINE k == [call[a][t] EXCEPT !.at = s]
    <2>1. k \in Call /\ k.at = s /\ k.name = call[a][t].name /\ call' = [call EXCEPT ![a][t] = k]
      BY <1>3, GotoMoves DEF Places
    <2> HIDE DEF k
    <2>2. ThreadOK(proc[a], worker[a], k) /\ k.at \notin Locked
      BY <1>1, <1>2, <1>3, <2>1 DEF ThreadOK, Back, Locked
    <2>3. /\ k.at \in Moving => schema'.dirty /\ (call[a][t].at \in Moving \/ ~Migrating)
          /\ k.at \notin Moving => call[a][t].at \in Moving \/ schema'.dirty = schema.dirty
      BY <1>2, <1>3, <2>1 DEF Moving
    <2>4. QED
      BY <1>1, <1>3, <2>1, <2>2, <2>3, SchemaStep, ZenonT(60)
  <1>4. CASE Down(a, t)
    <2>1. CASE /\ schema.version > 0
               /\ schema' = [version |-> schema.version - 1, dirty |-> TRUE]
               /\ Goto(a, t, "downgrading")
      <3>1. schema' \in [version : Nat, dirty : BOOLEAN] /\ schema'.dirty /\ ~Migrating
        BY <1>1, <1>4, <2>1 DEF Down
      <3>2. QED
        BY <1>3, <2>1, <3>1
    <2>2. CASE Goto(a, t, "failed") /\ UNCHANGED schema
      BY <1>1, <1>3, <2>2
    <2>3. QED
      BY <1>4, <2>1, <2>2 DEF Down
  <1>5. CASE Downgraded(a, t)
    <2>1. CASE schema' = [schema EXCEPT !.dirty = FALSE] /\ Goto(a, t, "succeeded")
      <3>1. schema' \in [version : Nat, dirty : BOOLEAN] /\ call[a][t].at = "downgrading"
        BY <1>1, <1>5, <2>1 DEF Downgraded, At
      <3>2. QED
        BY <1>3, <2>1, <3>1
    <2>2. CASE Goto(a, t, "failed") /\ UNCHANGED schema
      BY <1>1, <1>3, <2>2
    <2>3. QED
      BY <1>5, <2>1, <2>2 DEF Downgraded
  <1>6. QED
    BY <1>4, <1>5

(* A shutdown keeps it.                                                    *)
LEMMA Closes ==
    ASSUME IInv, NEW a \in Copies, NEW t \in Threads, CloseOperations(a, t) \/ CloseDatabase(a, t)
    PROVE  IInv'
  <1>1. /\ call[a][t].at \in {"close", "drain"} /\ UNCHANGED <<schema, users, worker, op>>
        /\ ThreadOK(proc[a], worker[a], call[a][t]) /\ proc[a].up /\ call[a][t] \in Call
        /\ call[a][t].name = "shutdown" /\ (call[a][t].at = "drain" => proc[a].closing)
    BY Known DEF CloseOperations, CloseDatabase, At, ThreadOK
  <1>2. ASSUME NEW s \in {"drain", "exit"}, Goto(a, t, s),
               NEW p \in Proc, p.up = proc[a].up, p.maintenance = proc[a].maintenance,
               p.current = proc[a].current, p.state = proc[a].state, p.rollback = proc[a].rollback,
               p.closing, CopyOK(p, worker[a], op[a]), proc' = [proc EXCEPT ![a] = p]
        PROVE  IInv'
    <2> DEFINE k == [call[a][t] EXCEPT !.at = s]
    <2>1. k.at = s /\ k.name = "shutdown"
      BY <1>1 DEF Call
    <2> HIDE DEF k
    <2>2. ThreadOK(p, worker[a], k)
      BY <1>1, <1>2, <2>1 DEF ThreadOK, Back
    <2>3. /\ s \in Places /\ s \notin Moving /\ call[a][t].at \notin Moving \union {"idle"}
          /\ s \notin Locked /\ s # "idle" /\ s # "decide"
      BY <1>1 DEF Places, Moving, Locked
    <2>4. \A u \in Threads : call[a][u].at \in Back => p.rollback /\ p.maintenance
      <3>1. \A u \in Threads : ThreadOK(proc[a], worker[a], call[a][u])
        BY Known
      <3>2. QED
        BY <1>2, <3>1 DEF ThreadOK
    <2>5. QED
      BY <1>1, <1>2, <2>2, <2>3, <2>4, FlagStep DEF k
  <1>3. CASE CloseOperations(a, t)
    <2> DEFINE p == [proc[a] EXCEPT !.closing = TRUE]
    <2>1. proc' = [proc EXCEPT ![a] = p] /\ Goto(a, t, "drain")
      BY <1>3 DEF CloseOperations, Set
    <2>2. /\ p \in Proc /\ p.up = proc[a].up /\ p.maintenance = proc[a].maintenance
          /\ p.current = proc[a].current /\ p.state = proc[a].state /\ p.rollback = proc[a].rollback
          /\ p.closing /\ p.closed = proc[a].closed /\ p.late = proc[a].late
      BY Known DEF Proc
    <2> HIDE DEF p
    <2>3. CopyOK(p, worker[a], op[a])
      BY <2>2, Known DEF CopyOK
    <2>4. QED
      BY <1>2, <2>1, <2>2, <2>3
  <1>4. CASE CloseDatabase(a, t)
    <2> DEFINE drained == \A x \in Operations : op[a][x] # "tracked"
               b == proc[a].late \/ ~drained
               p == Shut(proc[a], b)
    <2>1. proc' = [proc EXCEPT ![a] = p] /\ Goto(a, t, "exit") /\ proc[a].closing
      BY <1>1, <1>4 DEF CloseDatabase, Set, Shut, At
    <2>2. b \in BOOLEAN /\ (~b => drained)
      BY Known DEF Proc
    <2> HIDE DEF b
    <2>3. /\ p \in Proc /\ p.up = proc[a].up /\ p.maintenance = proc[a].maintenance
          /\ p.current = proc[a].current /\ p.state = proc[a].state /\ p.rollback = proc[a].rollback
          /\ p.closing = proc[a].closing /\ p.closed /\ p.late = b
      BY <2>2, Known, ShutFields
    <2> HIDE DEF p
    <2>4. CopyOK(p, worker[a], op[a])
      BY <2>1, <2>2, <2>3, Known DEF CopyOK
    <2>5. QED
      BY <1>2, <2>1, <2>3, <2>4
  <1>5. QED
    BY <1>3, <1>4

(* The program ends, or starts again.                                      *)
LEMMA StartsAndExits ==
    ASSUME IInv, NEW a \in Copies, Start(a) \/ \E t \in Threads : Exit(a, t)
    PROVE  IInv'
  <1>1. UNCHANGED <<schema, users>>
    BY DEF Start, Exit
  <1>2. /\ call[a] \in [Threads -> Call] /\ op[a] \in [Operations -> {"idle", "tracked", "cancelled"}]
        /\ schema' \in [version : Nat, dirty : BOOLEAN] /\ users' \in BOOLEAN
        /\ worker[a] \in [Gens -> {"running", "cancelled", "ended", "closed"}]
        /\ proc[a] \in Proc
    BY <1>1, Known DEF IInv, StateOK, Call, Names, Places
  <1>3. CASE Start(a)
    <2>0. ~proc[a].up /\ UNCHANGED <<worker, call, op>>
      BY <1>3 DEF Start
    <2>1. /\ proc' = [proc EXCEPT ![a] = Fresh]
          /\ worker' = [worker EXCEPT ![a] = worker[a]]
          /\ call' = [call EXCEPT ![a] = call[a]] /\ op' = [op EXCEPT ![a] = op[a]]
      BY <1>3, Known DEF Start, Set, IInv, StateOK
    <2>2. Busy(worker[a]) = {} /\ \A t \in Threads : call[a][t].at = "idle"
      BY <2>0, Known DEF CopyOK, ThreadOK
    <2>3. Fresh \in Proc /\ ~Fresh.closed /\ Fresh.maintenance /\ Fresh.state = "stopped" /\ Fresh.current = None
      BY FreshFields DEF Fresh
    <2>4. CopyOK(Fresh, worker[a], op[a])
      BY <2>2, <2>3 DEF CopyOK
    <2>5. \A t \in Threads : ThreadOK(Fresh, worker[a], call[a][t])
      BY <2>2 DEF ThreadOK, Back
    <2>6. Local(Fresh, worker[a], call[a], op[a])
      BY <2>4, <2>5 DEF Local, IInv, LocalInv
    <2>7. Serial'
      BY <1>1, <2>0 DEF IInv, Serial
    <2>8. QED
      <3>1. Fresh.state # "stopped" <=> Fresh.current # None
        BY <2>3
      <3>2. QED
        BY <1>2, <2>1, <2>3, <2>6, <2>7, <3>1, CopyStep, ZenonT(60)
  <1>4. ASSUME NEW t \in Threads, Exit(a, t) PROVE IInv'
    <2> DEFINE w == [g \in Gens |-> "closed"]
               c == [u \in Threads |-> IdleCall]
               o == [x \in Operations |-> "idle"]
    <2>1. /\ proc' = [proc EXCEPT ![a] = Off] /\ worker' = [worker EXCEPT ![a] = w]
          /\ call' = [call EXCEPT ![a] = c] /\ op' = [op EXCEPT ![a] = o]
      BY <1>4 DEF Exit, Set
    <2>2. /\ w \in [Gens -> {"running", "cancelled", "ended", "closed"}] /\ Busy(w) = {}
          /\ c \in [Threads -> Call] /\ o \in [Operations -> {"idle", "tracked", "cancelled"}]
          /\ \A u \in Threads : c[u] = IdleCall
      BY IdleIsCall DEF Busy
    <2>3. /\ Off \in Proc /\ Off.state = "stopped" /\ Off.current = None
          /\ ~Off.up /\ ~Off.closed
      BY FreshFields DEF Off, Fresh
    <2> HIDE DEF w, c, o
    <2>4. Local(Off, w, c, o)
      BY <2>2, <2>3, IdleIsCall DEF Local, CopyOK, PairsOK, Locked, None
    <2>5. Serial'
      <3>1. \A b \in Copies, u \in Threads : call'[b][u] = IF b = a THEN IdleCall ELSE call[b][u]
        BY <2>1, <2>2 DEF IInv, StateOK
      <3>2. QED
        BY <1>1, <3>1, IdleIsCall DEF IInv, Serial, Moving
    <2>6. QED
      BY <1>2, <2>1, <2>2, <2>3, <2>4, <2>5, CopyStep, ZenonT(60)
  <1>5. QED
    BY <1>3, <1>4

-----------------------------------------------------------------------------
(* Every step of every copy keeps the invariant.                           *)
LEMMA NextIInv == IInv /\ [Next]_vars => IInv'
  <1> SUFFICES ASSUME IInv, [Next]_vars PROVE IInv'
    OBVIOUS
  <1>1. CASE UNCHANGED vars
    <2>1. StateOK'
      BY <1>1 DEF vars, IInv, StateOK
    <2>2. LocalInv' /\ Serial'
      BY <1>1 DEF vars, IInv, LocalInv, Serial
    <2>3. QED
      BY <2>1, <2>2 DEF IInv
  <1>2. ASSUME NEW a \in Copies, NEW t \in Threads, Step(a, t) PROVE IInv'
    BY <1>2, Reconciled, Decided, StopBegins, StopIsDone, StopGivesUp, Upgrades, Rollbacks,
       Downgrades, Closes, StartsAndExits DEF Step
  <1>3. QED
    BY <1>1, <1>2, CallsBegin, WorkerSteps, CatchUpEnding, OperationSteps, StartsAndExits DEF Next

(* Copies that are off satisfy it.                                         *)
LEMMA InitIInv == Init => IInv
  <1> SUFFICES ASSUME Init PROVE IInv
    OBVIOUS
  <1>1. \A a \in Copies : /\ proc[a] = Off /\ worker[a] = [g \in Gens |-> "closed"]
                          /\ \A t \in Threads : call[a][t] = IdleCall
                          /\ op[a] = [o \in Operations |-> "idle"]
    BY DEF Init
  <1>2. StateOK
    <2>1. /\ proc \in [Copies -> Proc]
          /\ \A a \in Copies : proc[a].state # "stopped" <=> proc[a].current # None
      BY FreshFields DEF Init
    <2>2. /\ worker \in [Copies -> [Gens -> {"running", "cancelled", "ended", "closed"}]]
          /\ op \in [Copies -> [Operations -> {"idle", "tracked", "cancelled"}]]
      BY DEF Init
    <2>3. schema \in [version : Nat, dirty : BOOLEAN] /\ users \in BOOLEAN
      <3>1. schema \in [version : 0 .. 1, dirty : {FALSE}]
        BY DEF Init
      <3>2. users \in {b \in BOOLEAN : b => schema.version > 0}
        BY DEF Init
      <3>3. users \in BOOLEAN
        BY <3>2, Zenon
      <3>4. schema \in [version : Nat, dirty : BOOLEAN]
        <4>1. 0 .. 1 \subseteq Nat /\ {FALSE} \subseteq BOOLEAN
          OBVIOUS
        <4>2. schema.version \in 0 .. 1 /\ schema.dirty \in {FALSE}
          BY <3>1
        <4>3. schema = [version |-> schema.version, dirty |-> schema.dirty]
          BY <3>1
        <4>4. schema.version \in Nat /\ schema.dirty \in BOOLEAN
          BY <4>1, <4>2, Zenon
        <4>5. [version |-> schema.version, dirty |-> schema.dirty] \in [version : Nat, dirty : BOOLEAN]
          BY <4>4
        <4>6. QED
          BY <4>3, <4>5, Zenon
      <3>5. QED
        BY <3>3, <3>4, Zenon
    <2>4. call \in [Copies -> [Threads -> Call]]
      BY IdleIsCall DEF Init
    <2>5. QED
      BY <2>1, <2>2, <2>3, <2>4 DEF StateOK, Call, Names, Places
  <1>3. ASSUME NEW a \in Copies
        PROVE  Local(proc[a], worker[a], call[a], op[a])
    <2>1. ~Off.up /\ ~Off.closed
      BY FreshFields DEF Off, Fresh
    <2>2. Busy(worker[a]) = {}
      BY <1>1 DEF Busy
    <2>3. QED
      BY <1>1, <2>1, <2>2, IdleIsCall DEF Local, CopyOK, PairsOK, Locked, None
  <1>4. Serial
    BY <1>1, IdleIsCall DEF Serial, Moving
  <1>5. QED
    BY <1>2, <1>3, <1>4 DEF IInv, LocalInv

(* The fields, the calls and the schema agree in every reachable state.    *)
THEOREM Invariant == Spec => []IInv
  BY InitIInv, NextIInv, PTL DEF Spec

(* A copy never has two workers at work, however many stops timed out.     *)
THEOREM NeverTwoWorkers == Spec => []OneWorker
  <1>1. IInv => OneWorker
    <2> SUFFICES ASSUME IInv, NEW a \in Copies PROVE Cardinality(Active(a)) <= 1
      BY DEF OneWorker
    <2>1. Active(a) = Busy(worker[a])
      BY DEF Active, Busy
    <2>2. \A g \in Busy(worker[a]) : proc[a].current = g
      BY Known DEF CopyOK
    <2>3. Busy(worker[a]) \subseteq {proc[a].current}
      BY <2>2
    <2>4. IsFiniteSet({proc[a].current}) /\ Cardinality({proc[a].current}) = 1
      BY FS_Singleton
    <2>5. Cardinality(Busy(worker[a])) <= 1
      BY <2>3, <2>4, FS_Subset
    <2>6. QED
      BY <2>1, <2>5
  <1>2. QED
    BY <1>1, Invariant, PTL

(* A migration is taken back behind a closed gate and without the worker.  *)
THEOREM RollbacksAreAlone == Spec => []RollbackIsAlone
  <1>1. IInv => RollbackIsAlone
    <2> SUFFICES ASSUME IInv, NEW a \in Copies, NEW t \in Threads,
                        call[a][t].at \in {"down", "downgrading"}
                 PROVE  Active(a) = {} /\ proc[a].maintenance
      BY DEF RollbackIsAlone
    <2>1. ThreadOK(proc[a], worker[a], call[a][t])
      BY Known
    <2>2. QED
      BY <2>1 DEF ThreadOK, Back, Active, Busy
  <1>2. QED
    BY <1>1, Invariant, PTL

(* The database is closed after the operations that run on it.             *)
THEOREM OperationsAreDrained == Spec => []DrainedBeforeClose
  <1>1. IInv => DrainedBeforeClose
    BY Known DEF DrainedBeforeClose, CopyOK
  <1>2. QED
    BY <1>1, Invariant, PTL

-----------------------------------------------------------------------------
(* The gate.  Whoever has it open, or is about to open it, has seen the    *)
(* schema up to date; what the others have done to it since is history.    *)
Knows(a) ==
    \/ proc[a].up /\ ~proc[a].maintenance
    \/ ~proc[a].rollback /\ \E t \in Threads : call[a][t].at = "decide"

HistoryInv ==
    /\ moved \in [Copies -> BOOLEAN]
    /\ \A a \in Copies : Knows(a) => UpToDate(a) \/ moved[a]

(* What a step of the copy a leaves as it is.                              *)
Others(a) == \A b \in Copies \ {a} : proc'[b] = proc[b] /\ call'[b] = call[b]
SameGate(a) ==
    /\ proc'[a].up = proc[a].up
    /\ proc'[a].maintenance = proc[a].maintenance
    /\ proc'[a].rollback = proc[a].rollback
Undecided(a) ==
    \A u \in Threads : call'[a][u].at = "decide" => call[a][u].at = "decide"

(* Nobody knows at the start.                                              *)
LEMMA InitHistory == Init => HistoryInv
  <1> SUFFICES ASSUME Init PROVE HistoryInv
    OBVIOUS
  <1>1. \A a \in Copies : proc[a] = Off /\ \A t \in Threads : call[a][t] = IdleCall
    BY DEF Init
  <1>2. ~Off.up
    BY FreshFields DEF Off, Fresh
  <1>3. \A a \in Copies : ~Knows(a)
    BY <1>1, <1>2, IdleIsCall DEF Knows
  <1>4. moved \in [Copies -> BOOLEAN]
    BY DEF Init
  <1>5. QED
    BY <1>3, <1>4 DEF HistoryInv

(* Only a copy that is up knows.                                           *)
LEMMA Awake ==
    ASSUME IInv, NEW a \in Copies, Knows(a)
    PROVE  proc[a].up
  <1>1. \A t \in Threads : call[a][t].at # "idle" => proc[a].up
    BY Known DEF ThreadOK
  <1>2. QED
    BY <1>1 DEF Knows

(* The call that holds reconcileMu is the only one that may decide.        *)
LEMMA OneDecides ==
    ASSUME IInv, NEW a \in Copies, NEW t \in Threads, call[a][t].at \in Locked
    PROVE  \A u \in Threads \ {t} : call[a][u].at # "decide"
  <1>1. PairsOK(call[a])
    BY DEF IInv, LocalInv, Local
  <1>2. QED
    BY <1>1 DEF PairsOK, Locked

(* One call changes, or the fields of one copy do.                         *)
LEMMA OneCall ==
    ASSUME IInv, NEW a \in Copies, NEW t \in Threads, NEW k, call' = [call EXCEPT ![a][t] = k]
    PROVE  /\ call'[a][t] = k /\ \A u \in Threads \ {t} : call'[a][u] = call[a][u]
           /\ \A b \in Copies \ {a} : call'[b] = call[b]
  <1>1. call \in [Copies -> [Threads -> Call]]
    BY DEF IInv, StateOK
  <1>2. QED
    BY <1>1

LEMMA OneProc ==
    ASSUME IInv, NEW a \in Copies, NEW p, Set(a, p)
    PROVE  proc'[a] = p /\ \A b \in Copies \ {a} : proc'[b] = proc[b]
  BY DEF IInv, StateOK, Set

(* A call goes on to a statement that is not the decision.                 *)
LEMMA GoesElsewhere ==
    ASSUME IInv, NEW a \in Copies, NEW t \in Threads, NEW s \in Places, Goto(a, t, s)
    PROVE  \E k : k.at = s /\ call' = [call EXCEPT ![a][t] = k]
  <1> DEFINE k == [call[a][t] EXCEPT !.at = s]
  <1>1. call[a][t] \in Call
    BY Known
  <1>2. k.at = s
    BY <1>1 DEF Call
  <1>3. call' = [call EXCEPT ![a][t] = k]
    BY DEF Goto
  <1> HIDE DEF k
  <1>4. QED
    BY <1>2, <1>3

(* The holder of reconcileMu goes on: nobody is about to decide.           *)
LEMMA NobodyDecides ==
    ASSUME IInv, NEW a \in Copies, NEW t \in Threads, call[a][t].at \in Locked,
           NEW k, k.at # "decide", call' = [call EXCEPT ![a][t] = k]
    PROVE  \A u \in Threads : call'[a][u].at # "decide"
  <1>1. \A u \in Threads \ {t} : call[a][u].at # "decide"
    BY OneDecides
  <1>2. call \in [Copies -> [Threads -> Call]]
    BY DEF IInv, StateOK
  <1>3. call'[a][t] = k /\ \A u \in Threads \ {t} : call'[a][u] = call[a][u]
    BY <1>2
  <1>4. QED
    BY <1>1, <1>3

(* The schema stays, and the copy knows no more than it did.               *)
LEMMA GateStep ==
    ASSUME HistoryInv, NEW a \in Copies, UNCHANGED <<schema, moved>>, Others(a),
           Knows(a)' => Knows(a)
    PROVE  HistoryInv'
  <1>1. \A b \in Copies : Knows(b)' => Knows(b)
    BY DEF Others, Knows
  <1>2. QED
    BY <1>1 DEF HistoryInv, UpToDate

(* The gate stays, and nobody new is about to decide.                      *)
LEMMA GateStays ==
    ASSUME HistoryInv, NEW a \in Copies, UNCHANGED <<schema, moved>>, Others(a),
           SameGate(a), Undecided(a)
    PROVE  HistoryInv'
  <1>1. Knows(a)' => Knows(a)
    BY DEF SameGate, Undecided, Knows
  <1>2. QED
    BY <1>1, GateStep

(* A call goes on, and the fields of its copy stay.                        *)
LEMMA CallGoesOn ==
    ASSUME IInv, HistoryInv, NEW a \in Copies, NEW t \in Threads, NEW k, k.at # "decide",
           call' = [call EXCEPT ![a][t] = k], UNCHANGED <<schema, proc, moved>>
    PROVE  HistoryInv'
  <1>1. Others(a) /\ SameGate(a) /\ Undecided(a)
    BY OneCall DEF Others, SameGate, Undecided
  <1>2. QED
    BY <1>1, GateStays

(* A call goes on, and fields of its copy change that the gate does not    *)
(* depend on.                                                              *)
LEMMA CallAndFields ==
    ASSUME IInv, HistoryInv, NEW a \in Copies, NEW t \in Threads, NEW k, k.at # "decide",
           call' = [call EXCEPT ![a][t] = k], UNCHANGED <<schema, moved>>,
           NEW p, Set(a, p), p.up = proc[a].up, p.maintenance = proc[a].maintenance,
           p.rollback = proc[a].rollback
    PROVE  HistoryInv'
  <1>1. /\ call'[a][t] = k /\ \A u \in Threads \ {t} : call'[a][u] = call[a][u]
        /\ \A b \in Copies \ {a} : call'[b] = call[b]
    BY OneCall
  <1>2. proc'[a] = p /\ \A b \in Copies \ {a} : proc'[b] = proc[b]
    BY OneProc
  <1>3. Others(a) /\ SameGate(a) /\ Undecided(a)
    BY <1>1, <1>2 DEF Others, SameGate, Undecided
  <1>4. QED
    BY <1>3, GateStays

(* A copy changes the schema: the others are behind from now on.           *)
LEMMA SchemaChanges ==
    ASSUME IInv, HistoryInv, NEW a \in Copies, NEW t \in Threads, NEW k, k.at # "decide",
           call' = [call EXCEPT ![a][t] = k], UNCHANGED proc, Moves(a),
           Knows(a) => ~UpToDate(a)
    PROVE  HistoryInv'
  <1>1. \A b \in Copies : Knows(b)' => Knows(b)
    BY OneCall DEF Knows
  <1>2. moved' \in [Copies -> BOOLEAN]
    BY DEF Moves
  <1>3. \A b \in Copies : moved[b] => moved'[b]
    BY DEF Moves, HistoryInv
  <1>4. \A b \in Copies \ {a} : Knows(b) => moved'[b]
    BY Awake DEF Moves
  <1>5. Knows(a) => moved'[a]
    BY <1>3 DEF HistoryInv
  <1>6. QED
    BY <1>1, <1>2, <1>4, <1>5 DEF HistoryInv

(* The begin of the calls.                                                 *)
LEMMA BeginsBlind ==
    ASSUME IInv, HistoryInv, NEW a \in Copies, NEW t \in Threads,
           Startup(a, t) \/ Setup(a, t) \/ Manage(a, t) \/ Shutdown(a, t)
    PROVE  HistoryInv'
  <1>1. ASSUME NEW name, NEW at, Begin(a, t, name, at), at # "decide",
               UNCHANGED <<schema, proc, moved>>
        PROVE  HistoryInv'
    <2> DEFINE k == [name |-> name, at |-> at, wait |-> None]
    <2>1. k.at # "decide" /\ call' = [call EXCEPT ![a][t] = k]
      BY <1>1 DEF Begin
    <2> HIDE DEF k
    <2>2. QED
      BY <1>1, <2>1, CallGoesOn
  <1>2. CASE Startup(a, t)
    <2> DEFINE k == [name |-> "startup", at |-> "reconcile", wait |-> None]
               p == [proc[a] EXCEPT !.context = TRUE]
    <2>1. /\ k.at # "decide" /\ call' = [call EXCEPT ![a][t] = k] /\ Set(a, p)
          /\ UNCHANGED <<schema, moved>>
      BY <1>2 DEF Startup, Begin
    <2>2. /\ p.up = proc[a].up /\ p.maintenance = proc[a].maintenance
          /\ p.rollback = proc[a].rollback
      BY Known DEF Proc
    <2> HIDE DEF k, p
    <2>3. QED
      BY <2>1, <2>2, CallAndFields
  <1>3. CASE Setup(a, t)
    BY <1>1, <1>3 DEF Setup
  <1>4. CASE Manage(a, t)
    BY <1>1, <1>4 DEF Manage
  <1>5. CASE Shutdown(a, t)
    BY <1>1, <1>5 DEF Shutdown
  <1>6. QED
    BY <1>2, <1>3, <1>4, <1>5

(* A reconciliation: the status is read, and acted on.                     *)
LEMMA ReconciledWithOpenEyes ==
    ASSUME IInv, HistoryInv, NEW a \in Copies, NEW t \in Threads,
           Reconcile(a, t) \/ ReadStatus(a, t) \/ Decide(a, t)
    PROVE  HistoryInv'
  <1>1. CASE Reconcile(a, t)
    <2>1. PICK k : k.at = "status" /\ call' = [call EXCEPT ![a][t] = k]
      BY <1>1, GoesElsewhere DEF Reconcile, Places
    <2>2. QED
      BY <1>1, <2>1, CallGoesOn DEF Reconcile
  <1>2. CASE ReadStatus(a, t)
    <2>1. /\ UNCHANGED schema /\ moved' = [moved EXCEPT ![a] = FALSE]
          /\ moved' \in [Copies -> BOOLEAN] /\ \A b \in Copies \ {a} : moved'[b] = moved[b]
      BY <1>2 DEF ReadStatus, HistoryInv
    <2>2. CASE UpToDate(a) /\ Goto(a, t, "decide") /\ UNCHANGED proc
      <3>1. PICK k : call' = [call EXCEPT ![a][t] = k]
        BY <2>2, GoesElsewhere DEF Places
      <3>2. \A b \in Copies \ {a} : Knows(b)' => Knows(b)
        BY <2>2, <3>1, OneCall DEF Knows
      <3>3. UpToDate(a)'
        BY <2>1, <2>2 DEF UpToDate
      <3>4. QED
        BY <2>1, <3>2, <3>3 DEF HistoryInv, UpToDate
    <2>3. CASE Set(a, [proc[a] EXCEPT !.maintenance = TRUE]) /\ Goto(a, t, "stop")
      <3> DEFINE p == [proc[a] EXCEPT !.maintenance = TRUE]
      <3>1. PICK k : k.at = "stop" /\ call' = [call EXCEPT ![a][t] = k]
        BY <2>3, GoesElsewhere DEF Places
      <3>2. p.maintenance /\ Set(a, p)
        BY <2>3, Known DEF Proc
      <3> HIDE DEF p
      <3>3. call[a][t].at \in Locked
        BY <1>2 DEF ReadStatus, At, Locked
      <3>4. \A u \in Threads : call'[a][u].at # "decide"
        BY <3>1, <3>3, NobodyDecides
      <3>5. proc'[a].maintenance /\ \A b \in Copies \ {a} : proc'[b] = proc[b]
        BY <3>2, OneProc
      <3>6. ~Knows(a)'
        BY <3>4, <3>5 DEF Knows
      <3>7. \A b \in Copies \ {a} : Knows(b)' => Knows(b)
        BY <3>1, <3>5, OneCall DEF Knows
      <3>8. QED
        BY <2>1, <3>6, <3>7 DEF HistoryInv, UpToDate
    <2>4. QED
      BY <1>2, <2>2, <2>3 DEF ReadStatus
  <1>3. CASE Decide(a, t)
    <2>1. /\ UNCHANGED <<schema, moved>> /\ call' = [call EXCEPT ![a][t] = IdleCall]
          /\ call[a][t].at = "decide" /\ IdleCall.at # "decide"
      BY <1>3, IdleIsCall DEF Decide, Return, At
    <2>2. CASE proc[a].rollback
      BY <1>3, <2>1, <2>2, CallGoesOn DEF Decide
    <2>3. CASE ~proc[a].rollback
      <3>1. Knows(a)
        BY <2>1, <2>3 DEF Knows
      <3>2. PICK p : Set(a, p)
        BY <1>3, <2>3 DEF Decide
      <3>3. Others(a)
        BY <2>1, <3>2, OneProc, OneCall DEF Others
      <3>4. QED
        BY <2>1, <3>1, <3>3, GateStep
    <2>4. QED
      BY <2>2, <2>3
  <1>4. QED
    BY <1>1, <1>2, <1>3

(* What follows a stop is not a decision.                                  *)
LEMMA StopsAreNoDecisions ==
    ASSUME IInv, NEW a \in Copies, NEW t \in Threads
    PROVE  AfterStop(a, t).at # "decide"
  <1>1. call[a][t] \in Call
    BY Known
  <1>2. [call[a][t] EXCEPT !.at = "close", !.wait = None].at = "close"
    BY <1>1 DEF Call
  <1>3. [call[a][t] EXCEPT !.at = "down", !.wait = None].at = "down"
    BY <1>1 DEF Call
  <1>4. QED
    BY <1>2, <1>3, IdleIsCall DEF AfterStop

(* A worker is forgotten; the gate stays.                                  *)
LEMMA ForgottenGate ==
    ASSUME IInv, NEW a \in Copies, NEW g
    PROVE  /\ Forget(a, g).up = proc[a].up /\ Forget(a, g).maintenance = proc[a].maintenance
           /\ Forget(a, g).rollback = proc[a].rollback
  <1>1. CASE proc[a].current = g
    <2>1. Forget(a, g) = Stopped(proc[a])
      BY <1>1 DEF Forget, Stopped
    <2>2. QED
      BY <2>1, Known, StoppedFields
  <1>2. CASE proc[a].current # g
    BY <1>2 DEF Forget
  <1>3. QED
    BY <1>1, <1>2

(* The stops, and their end.                                               *)
LEMMA StopsOpenNothing ==
    ASSUME IInv, HistoryInv, NEW a \in Copies, NEW t \in Threads,
           StopBegin(a, t) \/ StopDone(a, t) \/ StopTimesOut(a, t)
    PROVE  HistoryInv'
  <1>1. call[a][t] \in Call /\ AfterStop(a, t).at # "decide"
    BY Known, StopsAreNoDecisions
  <1>2. CASE StopBegin(a, t)
    <2>1. PICK p \in StopSteps :
            /\ UNCHANGED <<schema, moved>>
            /\ \/ call' = [call EXCEPT ![a][t] = AfterStop(a, t)] /\ UNCHANGED proc
               \/ /\ call' = [call EXCEPT ![a][t] = [@ EXCEPT !.at = p[2],
                                                              !.wait = proc[a].current]]
                  /\ Set(a, [proc[a] EXCEPT !.state = "stopping"])
      BY <1>2 DEF StopBegin
    <2>2. CASE call' = [call EXCEPT ![a][t] = AfterStop(a, t)] /\ UNCHANGED proc
      BY <1>1, <2>1, <2>2, CallGoesOn
    <2>3. CASE /\ call' = [call EXCEPT ![a][t] = [@ EXCEPT !.at = p[2], !.wait = proc[a].current]]
               /\ Set(a, [proc[a] EXCEPT !.state = "stopping"])
      <3> DEFINE k == [call[a][t] EXCEPT !.at = p[2], !.wait = proc[a].current]
                 q == [proc[a] EXCEPT !.state = "stopping"]
      <3>1. p[2] \in {"stopping", "halting", "quitting"}
        BY DEF StopSteps
      <3>2. k.at # "decide" /\ call' = [call EXCEPT ![a][t] = k]
        BY <1>1, <2>3, <3>1, Known DEF Call
      <3>3. /\ Set(a, q) /\ q.up = proc[a].up /\ q.maintenance = proc[a].maintenance
            /\ q.rollback = proc[a].rollback
        BY <2>3, Known DEF Proc
      <3> HIDE DEF k, q
      <3>4. QED
        BY <2>1, <3>2, <3>3, CallAndFields
    <2>4. QED
      BY <2>1, <2>2, <2>3
  <1>3. CASE StopDone(a, t)
    <2> DEFINE p == Forget(a, call[a][t].wait)
    <2>1. /\ UNCHANGED <<schema, moved>> /\ call' = [call EXCEPT ![a][t] = AfterStop(a, t)]
          /\ Set(a, p)
      BY <1>3 DEF StopDone
    <2>2. /\ p.up = proc[a].up /\ p.maintenance = proc[a].maintenance
          /\ p.rollback = proc[a].rollback
      BY ForgottenGate
    <2> HIDE DEF p
    <2>3. QED
      BY <1>1, <2>1, <2>2, CallAndFields
  <1>4. CASE StopTimesOut(a, t) /\ ~At(a, t, "halting")
    <2> DEFINE b == proc[a].late \/ At(a, t, "quitting")
               p == [proc[a] EXCEPT !.late = b]
    <2>1. /\ UNCHANGED <<schema, moved>> /\ call' = [call EXCEPT ![a][t] = AfterStop(a, t)]
          /\ Set(a, p)
      BY <1>4 DEF StopTimesOut, AfterTimeout, Set
    <2> HIDE DEF b
    <2>2. /\ p.up = proc[a].up /\ p.maintenance = proc[a].maintenance
          /\ p.rollback = proc[a].rollback
      BY Known DEF Proc
    <2> HIDE DEF p
    <2>3. QED
      BY <1>1, <2>1, <2>2, CallAndFields
  <1>5. CASE StopTimesOut(a, t) /\ At(a, t, "halting")
    <2> DEFINE p == [proc[a] EXCEPT !.rollback = FALSE]
               k == [call[a][t] EXCEPT !.at = "status", !.wait = None]
    <2>1. /\ UNCHANGED <<schema, moved>> /\ call' = [call EXCEPT ![a][t] = k] /\ Set(a, p)
      BY <1>1, <1>5 DEF StopTimesOut, AfterTimeout
    <2>2. /\ p.up = proc[a].up /\ p.maintenance = proc[a].maintenance /\ k.at = "status"
      BY <1>1, Known DEF Proc, Call
    <2> HIDE DEF p, k
    <2>3. call[a][t].at \in Locked
      BY <1>5 DEF At, Locked
    <2>4. \A u \in Threads : call'[a][u].at # "decide"
      BY <2>1, <2>2, <2>3, NobodyDecides
    <2>5. Others(a) /\ proc'[a] = p
      BY <2>1, OneCall, OneProc DEF Others
    <2>6. Knows(a)' => Knows(a)
      BY <2>2, <2>4, <2>5 DEF Knows
    <2>7. QED
      BY <2>1, <2>5, <2>6, GateStep
  <1>6. QED
    BY <1>2, <1>3, <1>4, <1>5

(* The migrations.  A copy that migrates upwards is not up to date, and    *)
(* one that migrates back has closed its gate.                             *)
LEMMA MigrationsAreSeen ==
    ASSUME IInv, HistoryInv, NEW a \in Copies, NEW t \in Threads,
           \/ Up(a, t) \/ Upgraded(a, t) \/ UpgradeFails(a, t) \/ Administrate(a, t)
           \/ Down(a, t) \/ Downgraded(a, t)
    PROVE  HistoryInv'
  <1>1. UNCHANGED proc
    BY DEF Up, Upgraded, UpgradeFails, Administrate, Down, Downgraded
  <1>2. ASSUME NEW s \in {"up", "upgrading", "admin", "reconcile", "downgrading", "failed",
                          "succeeded"},
               Goto(a, t, s)
        PROVE  \E k : k.at # "decide" /\ call' = [call EXCEPT ![a][t] = k]
    <2>1. s \in Places /\ s # "decide"
      BY DEF Places
    <2>2. QED
      BY <1>2, <2>1, GoesElsewhere
  <1>3. Return(a, t) => \E k : k.at # "decide" /\ call' = [call EXCEPT ![a][t] = k]
    BY IdleIsCall DEF Return
  <1>4. PICK k : k.at # "decide" /\ call' = [call EXCEPT ![a][t] = k]
    BY <1>2, <1>3 DEF Up, Upgraded, UpgradeFails, Administrate, Down, Downgraded
  <1>5. CASE UNCHANGED <<schema, moved>>
    BY <1>1, <1>4, <1>5, CallGoesOn
  <1>6. CASE Moves(a) /\ (Up(a, t) \/ Upgraded(a, t))
    <2>1. Up(a, t) => UNCHANGED <<schema, moved>> \/ ~UpToDate(a)
      BY DEF Up, UpToDate
    <2>2. Upgraded(a, t) => schema.dirty
      BY DEF Upgraded, At, IInv, Serial, Moving
    <2>3. UNCHANGED <<schema, moved>> \/ ~UpToDate(a)
      BY <1>6, <2>1, <2>2 DEF UpToDate
    <2>4. QED
      BY <1>1, <1>4, <1>5, <1>6, <2>3, SchemaChanges
  <1>7. CASE Moves(a) /\ (Down(a, t) \/ Downgraded(a, t))
    <2>1. proc[a].maintenance /\ proc[a].rollback
      BY <1>7, Known DEF Down, Downgraded, At, ThreadOK, Back
    <2>2. QED
      BY <1>1, <1>4, <1>7, <2>1, SchemaChanges DEF Knows
  <1>8. QED
    BY <1>5, <1>6, <1>7 DEF Up, Upgraded, UpgradeFails, Administrate, Down, Downgraded

(* The begin and the end of a rollback.                                    *)
LEMMA RollbacksOpenNothing ==
    ASSUME IInv, HistoryInv, NEW a \in Copies, NEW t \in Threads, Prepare(a, t) \/ Complete(a, t)
    PROVE  HistoryInv'
  <1>1. /\ UNCHANGED <<schema, moved>> /\ ~Reconciling(a)
        /\ \A u \in Threads : call[a][u].at # "decide"
    BY DEF Prepare, Complete, Reconciling
  <1>2. PICK k : k.at # "decide" /\ call' = [call EXCEPT ![a][t] = k]
    <2>1. Goto(a, t, "halt") \/ Goto(a, t, "status") \/ Return(a, t)
      BY DEF Prepare, Complete, Completed
    <2>2. QED
      BY <2>1, GoesElsewhere, IdleIsCall DEF Return, Places
  <1>3. \A u \in Threads : call'[a][u].at # "decide"
    BY <1>1, <1>2, OneCall
  <1>4. PICK p : Set(a, p) /\ p.maintenance
    <2>1. CASE Prepare(a, t)
      <3>1. Set(a, Blocked(proc[a]))
        BY <2>1 DEF Prepare, Blocked
      <3>2. QED
        BY <3>1, Known, BlockedFields
    <2>2. CASE Complete(a, t)
      <3>1. proc[a].maintenance
        BY <2>2, Known DEF Complete, At, ThreadOK, Back
      <3>2. [proc[a] EXCEPT !.rollback = FALSE].maintenance
        BY <3>1, Known DEF Proc
      <3>3. QED
        BY <2>2, <3>2 DEF Complete, Completed
    <2>3. QED
      BY <2>1, <2>2
  <1>5. Others(a) /\ proc'[a] = p
    BY <1>2, <1>4, OneCall, OneProc DEF Others
  <1>6. ~Knows(a)'
    BY <1>3, <1>4, <1>5 DEF Knows
  <1>7. QED
    BY <1>1, <1>5, <1>6, GateStep

(* The end of the operations.                                              *)
LEMMA ClosesQuietly ==
    ASSUME IInv, HistoryInv, NEW a \in Copies, NEW t \in Threads,
           CloseOperations(a, t) \/ CloseDatabase(a, t)
    PROVE  HistoryInv'
  <1>1. UNCHANGED <<schema, moved>> /\ (Goto(a, t, "drain") \/ Goto(a, t, "exit"))
    BY DEF CloseOperations, CloseDatabase
  <1>2. PICK k : k.at # "decide" /\ call' = [call EXCEPT ![a][t] = k]
    BY <1>1, GoesElsewhere DEF Places
  <1>3. PICK p : /\ Set(a, p) /\ p.up = proc[a].up /\ p.maintenance = proc[a].maintenance
                 /\ p.rollback = proc[a].rollback
    <2>1. CASE CloseOperations(a, t)
      <3> DEFINE p == [proc[a] EXCEPT !.closing = TRUE]
      <3>1. /\ p.up = proc[a].up /\ p.maintenance = proc[a].maintenance
            /\ p.rollback = proc[a].rollback
        BY Known DEF Proc
      <3>2. QED
        BY <2>1, <3>1 DEF CloseOperations
    <2>2. CASE CloseDatabase(a, t)
      <3> DEFINE b == proc[a].late \/ ~\A o \in Operations : op[a][o] # "tracked"
                 p == Shut(proc[a], b)
      <3>1. Set(a, p)
        BY <2>2 DEF CloseDatabase, Shut, Set
      <3>2. b \in BOOLEAN
        BY Known DEF Proc
      <3> HIDE DEF b
      <3>3. /\ p.up = proc[a].up /\ p.maintenance = proc[a].maintenance
            /\ p.rollback = proc[a].rollback
        BY <3>2, Known, ShutFields
      <3>4. QED
        BY <3>1, <3>3
    <2>3. QED
      BY <2>1, <2>2
  <1>4. QED
    BY <1>1, <1>2, <1>3, CallAndFields

(* Workers and operations.                                                 *)
LEMMA WorkersOpenNothing ==
    ASSUME IInv, HistoryInv, NEW a \in Copies,
           \/ CatchUpEnds(a)
           \/ \E g \in Gens : WorkerEnds(a, g) \/ CloseDone(a, g)
           \/ \E o \in Operations : BeginOperation(a, o) \/ EndOperation(a, o)
    PROVE  HistoryInv'
  <1>1. UNCHANGED <<schema, call, moved>>
    BY DEF CatchUpEnds, WorkerEnds, CloseDone, BeginOperation, EndOperation
  <1>2. CASE UNCHANGED proc
    BY <1>1, <1>2, GateStays DEF Others, SameGate, Undecided
  <1>3. ASSUME NEW p, Set(a, p), p.up = proc[a].up, p.maintenance = proc[a].maintenance,
               p.rollback = proc[a].rollback
        PROVE  HistoryInv'
    <2>1. Others(a) /\ SameGate(a) /\ Undecided(a)
      BY <1>1, <1>3, OneProc DEF Others, SameGate, Undecided
    <2>2. QED
      BY <1>1, <2>1, GateStays
  <1>4. CASE CatchUpEnds(a)
    <2> DEFINE p == [proc[a] EXCEPT !.catchUp = FALSE]
    <2>1. /\ p.up = proc[a].up /\ p.maintenance = proc[a].maintenance
          /\ p.rollback = proc[a].rollback
      BY Known DEF Proc
    <2>2. QED
      BY <1>3, <1>4, <2>1 DEF CatchUpEnds
  <1>5. CASE \E g \in Gens : WorkerEnds(a, g)
    BY <1>3, <1>5, ForgottenGate DEF WorkerEnds
  <1>6. QED
    BY <1>2, <1>4, <1>5 DEF CloseDone, BeginOperation, EndOperation

(* The begin and the end of a copy.                                        *)
LEMMA BeginsClosed ==
    ASSUME IInv, HistoryInv, NEW a \in Copies, Start(a) \/ \E t \in Threads : Exit(a, t)
    PROVE  HistoryInv'
  <1>1. CASE Start(a)
    <2>1. UNCHANGED <<schema, call, moved>> /\ proc'[a] = Fresh /\ Others(a)
      BY <1>1, OneProc DEF Start, Others
    <2>2. \A t \in Threads : call[a][t].at # "decide"
      BY <1>1, Known DEF Start, ThreadOK
    <2>3. ~Knows(a)'
      BY <2>1, <2>2 DEF Knows, Fresh
    <2>4. QED
      BY <2>1, <2>3, GateStep
  <1>2. CASE \E t \in Threads : Exit(a, t)
    <2>1. /\ UNCHANGED schema /\ moved' = [moved EXCEPT ![a] = FALSE]
          /\ moved' \in [Copies -> BOOLEAN] /\ \A b \in Copies \ {a} : moved'[b] = moved[b]
      BY <1>2 DEF Exit, HistoryInv
    <2>2. proc'[a] = Off /\ \A b \in Copies \ {a} : proc'[b] = proc[b]
      BY <1>2, OneProc DEF Exit
    <2>3. /\ call'[a] = [u \in Threads |-> IdleCall]
          /\ \A b \in Copies \ {a} : call'[b] = call[b]
      BY <1>2 DEF Exit, IInv, StateOK
    <2>4. ~Off.up
      BY FreshFields DEF Off, Fresh
    <2>5. ~Knows(a)'
      BY <2>2, <2>3, <2>4, IdleIsCall DEF Knows
    <2>6. \A b \in Copies \ {a} : Knows(b)' => Knows(b)
      BY <2>2, <2>3 DEF Knows
    <2>7. QED
      BY <2>1, <2>5, <2>6 DEF HistoryInv, UpToDate
  <1>3. QED
    BY <1>1, <1>2

(* Every step keeps what is known.                                         *)
LEMMA NextHistory == IInv /\ HistoryInv /\ [Next]_vars => HistoryInv'
  <1> SUFFICES ASSUME IInv, HistoryInv, [Next]_vars PROVE HistoryInv'
    OBVIOUS
  <1>1. CASE UNCHANGED vars
    BY <1>1 DEF vars, HistoryInv, Knows, UpToDate
  <1>2. ASSUME NEW a \in Copies, NEW t \in Threads, Step(a, t) PROVE HistoryInv'
    BY <1>2, ReconciledWithOpenEyes, StopsOpenNothing, MigrationsAreSeen, RollbacksOpenNothing,
       ClosesQuietly, BeginsClosed DEF Step
  <1>3. QED
    BY <1>1, <1>2, BeginsBlind, WorkersOpenNothing, BeginsClosed DEF Next

LEMMA HistoryIsKept == Spec => []HistoryInv
  BY InitHistory, NextHistory, Invariant, PTL DEF Spec

(* The state of the lifecycle is typed, and whoever has a worker to stop   *)
(* knows which one.                                                        *)
THEOREM TypeCorrect == Spec => []TypeOK
  <1>1. IInv /\ HistoryInv => TypeOK
    BY DEF IInv, StateOK, HistoryInv, TypeOK, Call, Names, Places
  <1>2. QED
    BY <1>1, Invariant, HistoryIsKept, PTL

(* Whoever lets operations in has the schema his program was written for,  *)
(* or has not looked since another copy changed it: through migrations and *)
(* rollbacks of any number of copies, of whatever versions.                *)
THEOREM OpenGateIsUpToDate == Spec => []OpenMeansUpToDate
  <1>1. HistoryInv => OpenMeansUpToDate
    BY DEF HistoryInv, OpenMeansUpToDate, Knows
  <1>2. QED
    BY <1>1, HistoryIsKept, PTL

=============================================================================
