------------------------- MODULE BackgroundLifecycle -------------------------
(***************************************************************************)
(* The schema of the database, the calls that change it, and what each     *)
(* running copy of the application allows meanwhile: the maintenance gate  *)
(* in front of the operations, the one background worker, the tracked      *)
(* operations that a shutdown waits for.                                   *)
(*                                                                         *)
(* internal/app/background_lifecycle.go, the migration calls of            *)
(* internal/services/settings.go and internal/services/auth_service.go,    *)
(* internal/database/postgres.go, internal/services/operation_lifecycle.go *)
(* and the start and the end of the program in internal/app/app.go.        *)
(*                                                                         *)
(* A call is a thread of its copy; the value of "at" is the next statement *)
(* it executes.  The mutexes follow from the threads: a thread between two *)
(* statements of a critical section holds its mutex.                       *)
(***************************************************************************)
EXTENDS Naturals, FiniteSets

CONSTANTS Copies,     \* running copies of the application
          Latest,     \* per copy, the newest migration embedded in it
          Threads,    \* calls in flight in a copy
          Operations, \* tracked operations in flight in a copy
          Gens        \* bound: worker goroutines of a copy that are remembered

ASSUME LifecycleAssumption ==
    /\ Latest \in [Copies -> Nat \ {0}]
    /\ Copies # {} /\ Gens # {} /\ "none" \notin Gens

VARIABLES schema,  \* the version and the dirty flag of schema_migrations
          users,   \* there is an administrator
          proc,    \* per copy, the fields of its lifecycle objects
          worker,  \* per copy, its worker goroutines
          call,    \* per copy and thread, the call in flight
          op,      \* per copy, its operations in flight
          moved    \* history, per copy: another copy changed the schema since
                   \* this one last read its version

vars == <<schema, users, proc, worker, call, op, moved>>

None == "none"
IdleCall == [name |-> None, at |-> "idle", wait |-> None]

Proc == [up : BOOLEAN, context : BOOLEAN, maintenance : BOOLEAN, rollback : BOOLEAN,
         state : {"stopped", "running", "stopping"}, current : Gens \union {None},
         catchUp : BOOLEAN, closing : BOOLEAN, closed : BOOLEAN, late : BOOLEAN]

(* newBackgroundLifecycle and NewOperationLifecycle                        *)
Fresh == [up |-> TRUE, context |-> FALSE, maintenance |-> TRUE, rollback |-> FALSE,
          state |-> "stopped", current |-> None, catchUp |-> FALSE,
          closing |-> FALSE, closed |-> FALSE, late |-> FALSE]
Off == [Fresh EXCEPT !.up = FALSE]

Set(a, fields) == proc' = [proc EXCEPT ![a] = fields]
At(a, t, s) == call[a][t].at = s
Goto(a, t, s) == call' = [call EXCEPT ![a][t].at = s]
Return(a, t) == call' = [call EXCEPT ![a][t] = IdleCall]
InCall(a, names) == {t \in Threads : call[a][t].name \in names}

(* The threads that hold reconcileMu.                                      *)
Reconciling(a) ==
    \E t \in Threads : call[a][t].at \in {"status", "decide", "stop", "stopping",
                                          "halt", "halting"}

(* The thread, of whatever copy, that is in the middle of a migration and  *)
(* holds the advisory lock of the migrations.                              *)
Migrating == \E a \in Copies, t \in Threads : call[a][t].at \in {"upgrading", "downgrading"}

(* applyCompatibility                                                      *)
UpToDate(a) == schema.version = Latest[a] /\ ~schema.dirty
Compatible(a) == schema.version <= Latest[a] /\ ~schema.dirty

(* The copy a changes the schema.                                          *)
Moves(a) == moved' = [b \in Copies |-> moved[b] \/ (b # a /\ proc[b].up)]

Init ==
    /\ schema \in [version : 0 .. 1, dirty : {FALSE}]
    /\ users \in {b \in BOOLEAN : b => schema.version > 0}
    /\ proc = [a \in Copies |-> Off]
    /\ worker = [a \in Copies |-> [g \in Gens |-> "closed"]]
    /\ call = [a \in Copies |-> [t \in Threads |-> IdleCall]]
    /\ op = [a \in Copies |-> [o \in Operations |-> "idle"]]
    /\ moved = [a \in Copies |-> FALSE]

-----------------------------------------------------------------------------
(* The program and its calls.                                              *)
Start(a) ==
    /\ ~proc[a].up
    /\ Set(a, Fresh)
    /\ UNCHANGED <<schema, users, worker, call, op, moved>>

Begin(a, t, name, at) ==
    /\ proc[a].up /\ At(a, t, "idle")
    /\ call' = [call EXCEPT ![a][t] = [name |-> name, at |-> at, wait |-> None]]

(* OnStartup                                                               *)
Startup(a, t) ==
    /\ ~proc[a].context
    /\ Begin(a, t, "startup", "reconcile")
    /\ Set(a, [proc[a] EXCEPT !.context = TRUE])
    /\ UNCHANGED <<schema, users, worker, op, moved>>

(* InitialSetup runs the migrations only if there are no tables.           *)
Setup(a, t) ==
    /\ InCall(a, {"shutdown", "setup"}) = {} /\ proc[a].context
    /\ ~users
    /\ Begin(a, t, "setup", IF schema.version = 0 THEN "up" ELSE "admin")
    /\ UNCHANGED <<schema, users, proc, worker, op, moved>>

(* RunMigrations and RollbackMigration hold migrationMu; a rollback is     *)
(* refused in maintenance.                                                 *)
Manage(a, t) ==
    /\ InCall(a, {"shutdown", "migrate", "rollback"}) = {} /\ proc[a].context
    /\ users
    /\ \/ Begin(a, t, "migrate", "up")
       \/ ~proc[a].maintenance /\ Begin(a, t, "rollback", "prepare")
    /\ UNCHANGED <<schema, users, proc, worker, op, moved>>

(* OnShutdown                                                              *)
Shutdown(a, t) ==
    /\ InCall(a, {"shutdown"}) = {} /\ proc[a].context
    /\ Begin(a, t, "shutdown", "quit")
    /\ UNCHANGED <<schema, users, proc, worker, op, moved>>

-----------------------------------------------------------------------------
(* reconcileSchemaLocked                                                   *)
Reconcile(a, t) ==
    /\ At(a, t, "reconcile")
    /\ ~Reconciling(a)
    /\ Goto(a, t, "status")
    /\ UNCHANGED <<schema, users, proc, worker, op, moved>>

(* The status is read, or cannot be read.                                  *)
ReadStatus(a, t) ==
    /\ At(a, t, "status")
    /\ \/ /\ UpToDate(a) /\ Compatible(a)
          /\ Goto(a, t, "decide")
          /\ UNCHANGED proc
       \/ /\ Set(a, [proc[a] EXCEPT !.maintenance = TRUE])
          /\ Goto(a, t, "stop")
    /\ moved' = [moved EXCEPT ![a] = FALSE]
    /\ UNCHANGED <<schema, users, worker, op>>

(* Mutant: a worker is started while the last one is still stopping.       *)
NotRunning(a) == proc[a].context /\ proc[a].state # "running"

Startable(a) == proc[a].context /\ proc[a].state = "stopped"

(* With the mutex mu: the gate is opened, and a worker is started unless   *)
(* there is one, together with the deletions that an earlier version left  *)
(* undone (startupWork), which has the worker's context but nobody waits.  *)
Decide(a, t) ==
    /\ At(a, t, "decide")
    /\ IF proc[a].rollback THEN UNCHANGED <<proc, worker>>
       ELSE IF ~Startable(a)
       THEN Set(a, [proc[a] EXCEPT !.maintenance = FALSE]) /\ UNCHANGED worker
       ELSE \E g \in Gens :
              /\ worker[a][g] = "closed"
              /\ \A u \in Threads : call[a][u].wait # g
              /\ worker' = [worker EXCEPT ![a][g] = "running"]
              /\ Set(a, [proc[a] EXCEPT !.maintenance = FALSE, !.state = "running",
                                        !.current = g, !.catchUp = TRUE])
    /\ Return(a, t)
    /\ UNCHANGED <<schema, users, op, moved>>

(* The deletions left undone have been caught up with, or the context is   *)
(* seen to be cancelled.                                                   *)
CatchUpEnds(a) ==
    /\ proc[a].catchUp
    /\ Set(a, [proc[a] EXCEPT !.catchUp = FALSE])
    /\ UNCHANGED <<schema, users, worker, call, op, moved>>

-----------------------------------------------------------------------------
(* Stop: the worker is told to end, and waited for.  A reconciliation, a   *)
(* rollback and a shutdown stop it alike and go on in different ways.      *)
StopSteps == {<<"stop", "stopping">>, <<"halt", "halting">>, <<"quit", "quitting">>}

(* What follows when the worker has stopped.                               *)
AfterStop(a, t) ==
    CASE call[a][t].name = "shutdown" -> [call[a][t] EXCEPT !.at = "close", !.wait = None]
      [] call[a][t].at \in {"halt", "halting"} ->
           [call[a][t] EXCEPT !.at = "down", !.wait = None]
      [] OTHER -> IdleCall

StopBegin(a, t) ==
    \E p \in StopSteps :
        /\ At(a, t, p[1])
        /\ IF proc[a].state = "stopped"
           THEN /\ call' = [call EXCEPT ![a][t] = AfterStop(a, t)]
                /\ UNCHANGED <<proc, worker>>
           ELSE /\ call' = [call EXCEPT ![a][t] = [@ EXCEPT !.at = p[2],
                                                            !.wait = proc[a].current]]
                /\ Set(a, [proc[a] EXCEPT !.state = "stopping"])
                /\ worker' = [worker EXCEPT ![a][proc[a].current] =
                                  IF @ = "running" THEN "cancelled" ELSE @]
        /\ UNCHANGED <<schema, users, op, moved>>

(* workerDone = done: the state is reset unless a newer worker owns it.    *)
Forget(a, g) ==
    IF proc[a].current = g
    THEN [proc[a] EXCEPT !.state = "stopped", !.current = None]
    ELSE proc[a]

StopDone(a, t) ==
    /\ \E p \in StopSteps : At(a, t, p[2])
    /\ worker[a][call[a][t].wait] = "closed"
    /\ Set(a, Forget(a, call[a][t].wait))
    /\ call' = [call EXCEPT ![a][t] = AfterStop(a, t)]
    /\ UNCHANGED <<schema, users, worker, op, moved>>

(* Mutant: the rollback goes on although the worker has not stopped.       *)
TimeoutIgnored(a, t) ==
    /\ call' = [call EXCEPT ![a][t] = AfterStop(a, t)]
    /\ UNCHANGED proc

(* Mutant: there is no timeout.                                            *)
NoTimeout(a, t) == UNCHANGED <<proc, call>>

(* Fifteen seconds pass: a rollback is called off, the others go on.       *)
AfterTimeout(a, t) ==
    IF At(a, t, "halting")
    THEN /\ Set(a, [proc[a] EXCEPT !.rollback = FALSE])
         /\ call' = [call EXCEPT ![a][t] = [@ EXCEPT !.at = "status", !.wait = None]]
    ELSE /\ Set(a, [proc[a] EXCEPT !.late = @ \/ At(a, t, "quitting")])
         /\ call' = [call EXCEPT ![a][t] = AfterStop(a, t)]

StopTimesOut(a, t) ==
    /\ \E p \in StopSteps : At(a, t, p[2])
    /\ worker[a][call[a][t].wait] # "closed"
    /\ AfterTimeout(a, t)
    /\ UNCHANGED <<schema, users, worker, op, moved>>

(* runWorker: the worker notices that it is told to end, after the batch   *)
(* in hand; the state is reset; done is closed.                            *)
WorkerEnds(a, g) ==
    /\ worker[a][g] = "cancelled"
    /\ worker' = [worker EXCEPT ![a][g] = "ended"]
    /\ Set(a, Forget(a, g))
    /\ UNCHANGED <<schema, users, call, op, moved>>

CloseDone(a, g) ==
    /\ worker[a][g] = "ended"
    /\ worker' = [worker EXCEPT ![a][g] = "closed"]
    /\ UNCHANGED <<schema, users, proc, call, op, moved>>

-----------------------------------------------------------------------------
(* Migrations.                                                             *)

(* CheckMigrationCompatibility and Up: a migration is marked as dirty      *)
(* while it runs; all the missing ones run in turn.                        *)
Up(a, t) ==
    /\ At(a, t, "up")
    /\ ~Migrating
    /\ CASE ~Compatible(a) -> Return(a, t) /\ UNCHANGED <<schema, moved>>
         [] Compatible(a) /\ schema.version = Latest[a] ->
              Goto(a, t, "admin") /\ UNCHANGED <<schema, moved>>
         [] OTHER -> /\ schema' = [version |-> schema.version + 1, dirty |-> TRUE]
                     /\ Moves(a) /\ Goto(a, t, "upgrading")
    /\ UNCHANGED <<users, proc, worker, op>>

Upgraded(a, t) ==
    /\ At(a, t, "upgrading")
    /\ schema' = [schema EXCEPT !.dirty = FALSE]
    /\ Moves(a) /\ Goto(a, t, "up")
    /\ UNCHANGED <<users, proc, worker, op>>

(* A migration fails: the schema stays dirty.                              *)
UpgradeFails(a, t) ==
    /\ At(a, t, "upgrading")
    /\ Return(a, t)
    /\ UNCHANGED <<schema, users, proc, worker, op, moved>>

(* The rest of InitialSetup and of RunMigrations.                          *)
Administrate(a, t) ==
    /\ At(a, t, "admin")
    /\ IF call[a][t].name = "setup"
       THEN \/ ~users /\ users' = TRUE /\ Goto(a, t, "reconcile")
            \/ UNCHANGED users /\ Return(a, t)
       ELSE UNCHANGED users /\ Goto(a, t, "reconcile")
    /\ UNCHANGED <<schema, proc, worker, op, moved>>

(* PrepareRollback closes the gate and stops the worker.                   *)
Prepare(a, t) ==
    /\ At(a, t, "prepare")
    /\ ~Reconciling(a)
    /\ Set(a, [proc[a] EXCEPT !.maintenance = TRUE, !.rollback = TRUE])
    /\ Goto(a, t, "halt")
    /\ UNCHANGED <<schema, users, worker, op, moved>>

(* RollbackMigration: one migration back, or an error before it begins.    *)
Down(a, t) ==
    /\ At(a, t, "down")
    /\ ~Migrating
    /\ \/ /\ Compatible(a) /\ schema.version > 0
          /\ schema' = [version |-> schema.version - 1, dirty |-> TRUE]
          /\ Moves(a) /\ Goto(a, t, "downgrading")
       \/ Goto(a, t, "failed") /\ UNCHANGED <<schema, moved>>
    /\ UNCHANGED <<users, proc, worker, op>>

Downgraded(a, t) ==
    /\ At(a, t, "downgrading")
    /\ \/ /\ schema' = [schema EXCEPT !.dirty = FALSE]
          /\ Moves(a) /\ Goto(a, t, "succeeded")
       \/ Goto(a, t, "failed") /\ UNCHANGED <<schema, moved>>
    /\ users' = (users /\ schema.version > 0)
    /\ UNCHANGED <<proc, worker, op>>

(* Mutant: a failed rollback opens the gate without a look at the schema.  *)
Reopen(a, t) ==
    /\ Set(a, [proc[a] EXCEPT !.rollback = FALSE, !.maintenance = FALSE])
    /\ Return(a, t)

(* CompleteRollback: a failed one reconciles with the lock in hand.        *)
Completed(a, t) ==
    /\ Set(a, [proc[a] EXCEPT !.rollback = FALSE])
    /\ IF At(a, t, "failed") THEN Goto(a, t, "status") ELSE Return(a, t)

Complete(a, t) ==
    /\ At(a, t, "failed") \/ At(a, t, "succeeded")
    /\ ~Reconciling(a)
    /\ Completed(a, t)
    /\ UNCHANGED <<schema, users, worker, op, moved>>

-----------------------------------------------------------------------------
(* Operations, and the end of the program.                                 *)

(* Mutant: operations are tracked during a shutdown as well.               *)
TrackAlways(a) == "tracked"

(* OperationContext: during a shutdown the operation is not tracked; its   *)
(* context is cancelled from the start.                                    *)
Track(a) == IF proc[a].closing THEN "cancelled" ELSE "tracked"

BeginOperation(a, o) ==
    /\ proc[a].up /\ ~proc[a].maintenance
    /\ op[a][o] = "idle"
    /\ op' = [op EXCEPT ![a][o] = Track(a)]
    /\ UNCHANGED <<schema, users, proc, worker, call, moved>>

EndOperation(a, o) ==
    /\ op[a][o] # "idle"
    /\ op' = [op EXCEPT ![a][o] = "idle"]
    /\ UNCHANGED <<schema, users, proc, worker, call, moved>>

(* OperationLifecycle.Shutdown: no more operations are tracked.            *)
CloseOperations(a, t) ==
    /\ At(a, t, "close")
    /\ Set(a, [proc[a] EXCEPT !.closing = TRUE])
    /\ Goto(a, t, "drain")
    /\ UNCHANGED <<schema, users, worker, op, moved>>

(* The tracked operations have ended, or the time for them has; then the   *)
(* database is closed.                                                     *)
CloseDatabase(a, t) ==
    /\ At(a, t, "drain")
    /\ LET drained == \A o \in Operations : op[a][o] # "tracked" IN
       Set(a, [proc[a] EXCEPT !.closed = TRUE, !.late = @ \/ ~drained])
    /\ Goto(a, t, "exit")
    /\ UNCHANGED <<schema, users, worker, op, moved>>

Exit(a, t) ==
    /\ At(a, t, "exit")
    /\ Set(a, Off)
    /\ worker' = [worker EXCEPT ![a] = [g \in Gens |-> "closed"]]
    /\ call' = [call EXCEPT ![a] = [u \in Threads |-> IdleCall]]
    /\ op' = [op EXCEPT ![a] = [o \in Operations |-> "idle"]]
    /\ moved' = [moved EXCEPT ![a] = FALSE]
    /\ UNCHANGED <<schema, users>>

-----------------------------------------------------------------------------
Step(a, t) ==
    \/ Reconcile(a, t) \/ ReadStatus(a, t) \/ Decide(a, t)
    \/ StopBegin(a, t) \/ StopDone(a, t) \/ StopTimesOut(a, t)
    \/ Up(a, t) \/ Upgraded(a, t) \/ UpgradeFails(a, t) \/ Administrate(a, t)
    \/ Prepare(a, t) \/ Down(a, t) \/ Downgraded(a, t) \/ Complete(a, t)
    \/ CloseOperations(a, t) \/ CloseDatabase(a, t) \/ Exit(a, t)

Next ==
    \E a \in Copies :
        \/ Start(a) \/ CatchUpEnds(a)
        \/ \E t \in Threads :
             \/ Startup(a, t) \/ Setup(a, t) \/ Manage(a, t) \/ Shutdown(a, t)
             \/ Step(a, t)
        \/ \E g \in Gens : WorkerEnds(a, g) \/ CloseDone(a, g)
        \/ \E o \in Operations : BeginOperation(a, o) \/ EndOperation(a, o)

Spec == Init /\ [][Next]_vars

(* Threads are scheduled, and a mutex (as the lock of the migrations) is   *)
(* handed to those that wait for it; a batch in the worker's hands may     *)
(* take for ever.                                                          *)
Fairness ==
    \A a \in Copies, t \in Threads :
        /\ WF_vars(Step(a, t))
        /\ SF_vars(Reconcile(a, t) \/ Prepare(a, t) \/ Complete(a, t))
        /\ SF_vars(Up(a, t) \/ Down(a, t))
        /\ \A g \in Gens : WF_vars(CloseDone(a, g))

LiveSpec == Spec /\ Fairness

-----------------------------------------------------------------------------
(* Properties.                                                             *)

(* Types; a lifecycle that is not stopped has a worker to wait for.        *)
TypeOK ==
    /\ schema \in [version : Nat, dirty : BOOLEAN] /\ users \in BOOLEAN
    /\ proc \in [Copies -> Proc]
    /\ worker \in [Copies -> [Gens -> {"running", "cancelled", "ended", "closed"}]]
    /\ call \in [Copies -> [Threads ->
          [name : {None, "startup", "setup", "migrate", "rollback", "shutdown"},
           at : {"idle", "reconcile", "status", "decide", "stop", "stopping", "up",
                 "upgrading", "admin", "prepare", "halt", "halting", "down",
                 "downgrading", "failed", "succeeded", "quit", "quitting", "close",
                 "drain", "exit"},
           wait : Gens \union {None}]]]
    /\ op \in [Copies -> [Operations -> {"idle", "tracked", "cancelled"}]]
    /\ moved \in [Copies -> BOOLEAN]
    /\ \A a \in Copies : proc[a].state # "stopped" <=> proc[a].current # None

Active(a) == {g \in Gens : worker[a][g] \in {"running", "cancelled"}}

(* The lifecycle "ensures a single instance of the worker"                 *)
(* (tech_docs.md:227), although stops time out, workers end late, and a    *)
(* stop may still be waiting for a worker when its successor starts.       *)
OneWorker == \A a \in Copies : Cardinality(Active(a)) <= 1

(* While a copy rolls a migration back, its own worker does not run and    *)
(* its gate is closed (tech_docs.md:197).                                  *)
RollbackIsAlone ==
    \A a \in Copies, t \in Threads :
        call[a][t].at \in {"down", "downgrading"} => Active(a) = {} /\ proc[a].maintenance

(* "Older binary against newer DB schema must be blocked" and "dirty       *)
(* schema means stop using app" (tech_docs.md:199-200): through migrations *)
(* and rollbacks of every copy, an open gate lets operations in only upon  *)
(* the schema the program was written for.  Excepted is what the code does *)
(* not see: a schema that another copy has changed since this one last     *)
(* read the version.                                                       *)
OpenMeansUpToDate ==
    \A a \in Copies : proc[a].up /\ ~proc[a].maintenance => UpToDate(a) \/ moved[a]

(* OnShutdown "waits for the active operations and closes the DB"          *)
(* (tech_docs.md:223-224): unless a wait took too long, no tracked         *)
(* operation runs on a closed database.                                    *)
DrainedBeforeClose ==
    \A a \in Copies : proc[a].closed /\ ~proc[a].late =>
        \A o \in Operations : op[a][o] # "tracked"

(* A migration, a rollback or a shutdown comes to its end, even if the     *)
(* worker never does.                                                      *)
EveryCallEnds ==
    \A a \in Copies, t \in Threads : (call[a][t].at # "idle") ~> (call[a][t].at = "idle")
=============================================================================
