# Verification of the document registration and tracking system

This directory holds TLA+ models of the program, the configurations that check them with
TLC on small instances, and proofs that the TLA+ proof system checks for every value of
the constants. `PROJECT.json` is the index: which part of the source each definition
stands for, what each run checks, which defect of the code each property is known to
catch, which hazards of the code the properties are for, and which findings came out.

The program is a desktop application (Go behind a web frontend) that several people run
at the same time, each on a computer of their own, against one PostgreSQL database and
one MinIO bucket. There is no server of the application itself. So whatever coordination
it has is in the database: row locks, unique indexes, advisory locks, triggers, and the
table of the transactional outbox. That is where the hard behaviour is, and it is what
most of these models are about. The rest of the program's own logic is its access policy
and the workflows on top of it: assignments, acknowledgments, links, lists.

## 1. Inventory

For every part: the state it keeps, its operations, what it talks to, what is hard about
it, and what makes it correct. The parts marked (M) are modelled.

### Parts that coordinate several actors

**Transactional outbox (M).** State: the table `event_outbox`, and in every copy of the
application one worker with a batch of claimed events. Operations: enqueueing inside a
business transaction, claiming, delivering, marking as processed or failed, releasing
stale claims, an administrator's requeue, statistics. Every service that changes
something writes its journal entry, audit entry, notification or file removal through
it. Hard: delivery is repeated after crashes, timeouts and lost answers; a batch can
outlive the time after which its claims count as stale, so two workers hold one event; a
deadline ends the wait for a consumer and not always its work. Correct if no committed
effect is lost, none is applied twice, none is swapped with another, and every event
ends processed or visibly failed.

**Outbox consumers (M, the writing side).** State: the journal, the audit log, the user
events, each with a unique key of the delivery. Correct if a second delivery of one key
changes nothing.

**Document registration and numbering (M).** State: the table `documents`, with a table
of details for each of the four kinds, and the counters in `nomenclature`. Operations:
registration of four kinds of documents with an idempotency key, an insertion with a
shift of all later numbers, a literal number such as 12a, a number typed by hand; an
edit of an appeal writes its number and date as typed, one of an order its date.
Interacts with the nomenclature (its counter, mode and prefix) and with the outbox.
Hard: concurrent repetitions of one request, conflicts after the counter was moved,
administrators' insertions that move other documents, edits of an item between
registrations, edits of numbers that take no notice of the counter. Correct if the counter
itself leaves no gap and never runs into what it gave out, and a repeated request gets the
first document.

**Nomenclature (M, but for its lists).** State: items with kind, year, index, mode and
next number. Operations: create, edit, delete, list.

**Attachments (M, the writing side).** State: rows in PostgreSQL, objects in MinIO,
deletion events, local temporary files. Operations: upload with compensation, deletion
of one file or of all old ones, delivery of a deletion, catch-up at start, download,
reconciliation report. Hard: no transaction spans the two stores. Correct if a visible
file can be read, a deletion that was carried out leaves nothing behind, and a deletion
that was promised is carried out.

**Storage statistics (M, the aggregate).** State: one row with a count and a lease. A
refresh scans the bucket for minutes while files come and go, and two refreshes may
overlap.

**Schema lifecycle, maintenance gate, operation lifecycle (M), migrations (M, the
calls).** State: the version and the dirty flag in the database; in every copy the gate,
the state of the worker, the set of running operations, two mutexes. Operations:
startup, initial setup, migration, rollback of one migration, reconciliation, shutdown.
Hard: stops with timeouts, workers that end after the timeout, threads that wait for a
mutex while somebody waits for a worker. Correct if there is never more than one worker,
a rollback runs alone, the gate is open only on the right schema, an operation never
meets a closed database, and every call ends.

**Authentication, sessions, users, the last administrator (M, but for passwords and
profiles).** State: accounts with a count of failed attempts, system permissions, the
session of a copy, and a deferred trigger with an advisory lock. Operations: login,
lock-out, password change and reset, update of an account, replacement of the rights,
initial setup. Hard: each copy judges an account from an earlier read; two
administrators remove each other. Correct if an active administrator always remains and
every lock-out is audited.

### The access policy and the workflows on it

**Document access, substitutions, departments (M).** State: document permissions of users
and departments, the flag of the participant, the department and its nomenclatures, one
substitution per principal with its days, and the people named by assignments and sheets.
Operations: the administration of these facts, and the decision, which the code
translates four times: for one document, for a document the caller has loaded, for a set
of documents, and as a condition inside the list query. Hard: the translations drift
apart unnoticed. Correct if they agree, and if taking something away opens nothing.

**Assignments (M).** State: a row with an executor, a status, a report and a time of
completion, and a table of co-executors. Operations: create, edit, report, accept,
return, delete. Every change reads the row in two queries, judges what it read, and
writes the whole row back unconditionally. Hard: two users do so at once. Correct if
whatever mixture results is a possible assignment, and nobody is made responsible
without being told; and if whoever may act finds the assignment in the list.

**Acknowledgments (M).** State: a sheet per document with one row per person, marked as
viewed and confirmed, and a time of completion. Operations: create, view, confirm,
delete. Substitutes confirm in the place of others. Hard: a confirmation is a
transaction of several statements at READ COMMITTED, without a lock on the sheet.
Correct if nobody is forgotten, what is shown can be answered, and the last confirmation
completes the sheet. The last one is not so, see the findings.

**Administrative orders (M).** State: the fields of an order and the list of people who
must be acquainted, with their marks. Operations: edit with a replaced list, mark,
cancellation by a link. Hard: the old list is read before the transaction that replaces
it. Correct if an order is always the result of one edit and marks are not lost.

**Links between documents (M).** State: typed links, one per ordered pair. Operations:
link (a link of one type cancels an order in the same transaction), unlink, the graph of
a document. Hard: the cancellation races with an edit of the order; the graph is found
over all links and then cut down to what the user may read. Correct if the graph shows
all that hangs together through readable documents and nothing else, and both ends of a
link have it in their journals.

**Document lists (M).** State: the rows of each kind; in the client, a page with filters,
search, size, and a history of cursors, and the requests in flight. Operations: the
query of a page for each of the four kinds, updates of documents, and all the page can be
asked for. Hard: rows are registered and edited between two pages; answers arrive out of
order or not at all. Correct if no document that was there is skipped, and a page that
has loaded shows the answer to what it asks.

**User events (M, whom they are written for).** State: notifications and their read marks.
Delivery is a consumer of the outbox; reading is made of single statements.

**Request coordination of the frontend (M).** State: sequence numbers of requests; a
running and a queued refresh. The helper that keeps only the latest answer
(`latestRequest.ts`) is part of the lists. The one that coalesces refreshes
(`coalescedRequest.ts`) serves the assignments, the sheets and the dashboard. Hard: a
refresh is asked for while another one is in flight, by the effect of the page, by an
event, or by an action that began when the page asked for something else; and the page
may be left at any time. Correct if no old answer is shown and no refresh is lost.

### Parts without coordination of their own

Journal and audit pages, dashboard (read-only); references and system settings (single
statements guarded by keys); configuration and secrets, logging, metrics, startup
diagnostics, release notes, theme, system services, transfer objects, frontend stores,
pages and forms, backup and restore scripts, build tools, mocks. `PROJECT.json` lists
each with the reason why it is not modelled.

## 2. Modules, and how they correspond to the code

| Module | What it is |
| --- | --- |
| `EffectDelivery` | the promise of the outbox to its users, without rows, workers or claims |
| `Outbox` | the table and the workers' loop; implements `EffectDelivery` |
| `Registration` | the numbering transaction, the idempotency key, the edits of the nomenclature |
| `Attachments` | two stores, deletions, the aggregate with its lease |
| `BackgroundLifecycle` | startup, gate, worker, migrations, rollback, shutdown |
| `Accounts` | sign-in, lock-out, sessions, changes of administrators, the trigger |
| `DocumentAccess` | the access policy in its four translations, and the administration of its facts |
| `Assignments` | assignments by overlapping calls; instantiates `DocumentAccess` |
| `Acknowledgments` | sheets by overlapping transactions; instantiates `DocumentAccess` |
| `Orders` | edits of administrative orders and marks of acquaintance |
| `Links` | extends `Orders` with links and their graph; instantiates `DocumentAccess` |
| `DocumentLists` | the list queries, updates of documents, and the page in the client |
| `Refreshes` | the pages that refresh themselves through `CoalescedRequest` |
| `..._proofs` | theorems about the module of that name; besides, those about `DocumentAccess` are in `Attachments_proofs`, about `Orders` in `Links_proofs`, about `DocumentLists` in `Registration_proofs`, and about `Refreshes` in `Accounts_proofs` |
| `MC...` | symmetry sets and constant functions of the small instances; `MCPages` puts the two kinds of pages of the client into one run, a window that shows one of them |

**Outbox.** A row is named by its deduplication key, and its content (type and payload)
is told apart by equality only. Each SQL statement is one step: `ReleaseStaleClaims`,
`ClaimPending`, `Deliver`, `MarkProcessed`, `MarkFailed`, `Requeue`, `Enqueue`. Time is
reduced to what the statements compare: whether the retry delay has passed and whether a
claim is older than the stale timeout. A claim may go stale while its owner works,
because a batch of fifty events of up to thirty seconds each is longer than five
minutes. A worker delivers from a snapshot of the claimed row, with the attempts as they
were then, as the code does. For keys whose consumer ignores the context, the effect may
be committed although the delivery is reported as failed. `Crash`, `DatabaseError`,
`Cancel` and the return of the loop are steps too.

**EffectDelivery.** A key is promised with one content for ever, and its effect is
applied at most once and with that content. The refinement maps the two variables of the
abstract module to those the outbox keeps beside its own state; `applied` stands for the
consumers' tables.

**Registration.** A registration is one transaction. Its first statement looks for the
key without a lock (`Look`); its second one locks the item's row, and everything after
that is one step (`Refuse`, `Conflict`, `Repeated` or `Register`), because whatever moves
the counter or shifts the numbers of an item holds that lock. Two edits do not:
`EditAppeal` writes the number and the date of an appeal as they were typed
(`citizen_appeal_repo.go:485`), and `EditOrder` the date of an order
(`administrative_order_repo.go:367`). Each is a single UPDATE of one row, ordered with the
rest by that row and the unique index, and so is a step of its own, at any moment between
two registrations. Numbers are records of prefix, decimal number and letters; `Format` and
`Parse` do what the code's functions do with them, including the mode that is numbered by
hand, where formatting gives the empty text. A literal number may come without letters, as
the services accept it (the form alone asks for them). A shift rewrites the later documents
in the order of the code; `Obstacles` are the documents that refuse it, or the new number.
For the properties alone, `hist` remembers from where an item was numbered and which
numbers were jumped over or written over, and `typed` marks the numbers that a person
chose.

**Attachments.** Each call of either store is a step, and each may fail, with or without
having had its effect; a process may die between any two. Of the outbox only what
`EffectDelivery` promises is kept: an event that was committed is delivered at least
once. A delivery may be given up while its work goes on, and be taken up again. The
aggregate counts files.

**BackgroundLifecycle.** Each call in flight is a thread whose position is the next
statement. The reconciliation mutex is held by the threads inside its critical section
and the state mutex is covered by single steps. Workers are goroutines that may ignore
their cancellation for as long as they like; a wait may time out at any moment.
Migrations mark the schema dirty, run and clear the mark, or fail and leave it dirty;
the lock of the migration library serialises them over the copies. Copies may have been
built with different migrations (`Latest`). Beside the worker `Decide` starts the catch-up
of deletions (`startupWork`), which ends whenever it likes (`CatchUpEnds`) and nobody waits
for. `moved` is there for a property: another copy has changed the schema since this one
last read its version.

**Accounts.** Transactions run at READ COMMITTED: a call keeps what it has written until
its commit, and others wait for the rows it holds. The DELETE of a profile replacement
has its snapshot, its wait, and its skipping of rows that vanished meanwhile; the INSERT
meets the unique index. The deferred trigger takes the advisory lock, looks, and either
rolls the transaction back or lets it commit. Passwords are left open: any check may
succeed or fail.

**DocumentAccess.** `RequireReadResolved`, `RequireResolvedRead`,
`ResolveReadableDocuments` and `ResolveReadScope` with `ListAccess` are the four
translations, each written the way its function goes (the flag of the participant and
the substitutions are asked for in two different ways in the code, and are here).
Every administration of a fact is an action. A decision is one step, though it takes
several queries: what a decision is worth when the facts change under it is not asked.

**Assignments.** `GetByID` is two steps, `ReadRow` and `ReadCoExecutors`, because it is
two queries outside any transaction; `Judge` applies the rights and the transitions to
what was read; `Write` and `DeleteRow` are the transaction with its events. If the row is
gone, the UPDATE touches nothing, and the insertion of co-executors then fails and rolls
the events back too, while without co-executors the events are committed. The rights are
chosen once per behaviour. The executors of `DocumentAccess` are those of the table.

**Acknowledgments.** A confirmation is the steps of its transaction: the row of the
person is updated (and locked), the rest is counted, the sheet may be completed, and the
commit makes it all visible. Others see committed rows only. `ShownIsAnswerable` is about
the search for the person in whose place a call confirms, which the page does once to show
and the service once more to act.

**Orders, Links.** The orders are registered before the behaviour begins, and either in
force or cancelled, as the assumption on their fields says. An edit reads the people, locks the order by its first UPDATE, deletes
the rows there are then, and commits fields and list together. A mark waits for an edit
that is deleting its row. `LinkDocuments` and `LinkCancelling` are transactions of one
step, except that the latter needs the lock of the order. The graph follows the recursive
query with its depth, and then the pruning of the service.

**DocumentLists.** A text is a word, and a search finds a document if one of the fields
the query looks at holds the word. Each kind has its own condition (`MatchesIncoming`
and so on), since they differ in the fields they look at. The time of creation is that at
which the registering transaction began, so a document may become visible later than a
younger one. In the client, `Question` is what the effect of the hook depends on.
A form that registers or edits is sent by `Save`, which remembers the question of that
moment, because the callback that reloads the page when the form was saved is the one of
the render in which it was sent: `Reload` asks with that search, size and cursor, and with
the filters of now, which the hook keeps in a reference. The window may meanwhile have
been closed and the page moved on. `settled`, `due`, `seen` and `overtaken` are there for
the properties: what was asked when callbacks last ran, what a walk from the first page
promises to show, what it has shown, and whether the latest request is for something else
than the page asks.

**Refreshes.** The database is a counter of commits, and an answer knows how many it has
seen. `Load` is what a page does to refresh itself, up to and including the first turn of
the drain; `Read`, `Succeed` and `GiveUp` are the steps of a request, the last two with the
turn of the loop that follows (`NextTurn`). `Do` and `Done` are an action of the user
before and after its service has answered; `Done` loads with the question of its
beginning, or not at all if the action has failed. `Leave` is the cleanup of the page.
`asked`, `outdated` and `failed` are there for the properties.

## 3. Runs, bounds, and what they show

| Run | Instance | Shows |
| --- | --- | --- |
| `outbox_two` | two copies, two keys, two contents, two attempts, one fault, one requeue of each row | no lost, doubled or exchanged effect; nothing given up early; implements `EffectDelivery` |
| `outbox_one` | one copy, a batch of two, a poisonous event, two faults, one requeue of each row, fairness | every event settles |
| `registration_two` | two requests at a time, two keys, two items, two years, two documents, numbers up to four, one edit of an item, any edits of documents | the counter leaves no gaps and does not block itself, one document per key |
| `attachments` | two users, one worker, one refresh, two files, two faults, one requeue, fairness | readable, removed, counted; deletions complete |
| `lifecycle_one` | one copy, two threads, three worker generations, one operation, fairness | one worker, rollbacks alone, operations drained, every call ends |
| `accounts_two` | two users, two calls, a limit of two attempts, four edits, one fault | an administrator remains, lock-outs are audited |
| `administration` | two copies of different versions, each with one call at a time; or two users, one department, two documents of two kinds and nomenclatures, two days | an open gate is up to date, as far as the copy can know; one policy; no withdrawal opens a document |
| `assignments_two` | a manager, an executor, a substitute; one assignment, two overlapping calls, two kinds | rows are truthful, everyone named was told, lists and buttons match the rights |
| `acknowledgments_three` | three people, one sheet, three overlapping transactions, substitutes | nobody forgotten, what is shown is answerable, journal and sheets agree |
| `acknowledgments_last` | the same | finding: nobody completes the sheet |
| `links_orders` | two users, four documents of which two are orders, three links, two overlapping edits with homonyms | one edit per order, the graph is exact, journals tell |
| `client_pages` | a list of each of the four kinds, three documents, two in the beginning, three clicks, one edit or failure, two requests in flight, one form being sent; or a page of two documents, six refreshes, four commits | nothing is skipped, what is shown is current unless an old form reloaded it; a settled page shows its last refresh, a loading one has an answer under way |

Why these bounds are enough to be interesting. Two workers and two attempts are what a lost
claim needs: one worker holds a snapshot with the first attempt while the other one finishes
with the second. Faults are counted over the whole behaviour, so one fault can be placed at
any of its steps. Of two documents one can be moved by the insertion of the other, stand in
its way, or take the counter's next number; two years separate the documents that are
shifted from those that stay; one edit moves an item to the other year or mode. The one kind
of the instance has both edits, that of an appeal and that of an order, and the number that
is typed lies ahead of, at or below the counter, which starts at one and goes to four.
Insertions that move several documents, and letters, are left to the proofs. Two files are
what a bulk deletion needs to differ from a single one; in the attachments one worker
suffices, because a delivery that was given up goes on while the next one starts. Two
threads put any two of startup, setup, migration, rollback and shutdown beside each other (a
migration and a rollback exclude each other by a mutex); three calls at once are not
checked. For the gate, two copies with one call each suffice, an older one and a newer one:
what one copy changes behind the other's back, it changes with any of its calls. A worker
generation is used again once it has ended and nobody waits for it, so three of them bound
how many are remembered at a time and not how many there are. Two administrators are enough
to remove each other, and a limit of two attempts has an attempt below it and one that
reaches it (the five of the code is a constant). For the policy, two users are a principal
and a substitute, two days let a substitution begin and end, and two kinds and nomenclatures
let a right hold for one document and not for the other. (The schema and the rights share a
run, `MCAdministration`, of which each behaviour exercises one.) Two overlapping calls are
what a lost update needs, and their number over the behaviour is not bounded, only that at a
time. Three transactions let two confirmations overlap while a third one deletes. The path
of three links has a hidden document in the middle; it is as long as the depth of the query,
so that a path beyond that depth is left to the proof, which is for any depth. Three clicks
go to the second page and back, or to the second page and into a search. Numbers that grow
without end (attempts, counters, faults, edits, clicks) are bounded by named constants in
guards. Symmetry is used for actors and values that nothing tells apart, and only in runs
without liveness properties.

Deadlock is looked for in every run but those whose configuration says otherwise: where
every file, assignment or sheet may have been deleted, or every click made, nothing is
left to do.

**Fairness.** The worker's loop polls for ever, so its next step is weakly fair, and so
are the passing of a retry delay and of the stale timeout, which are clocks. A stopped
worker is not restarted by fairness; crashes and faults are never fair. In the
lifecycle, threads are scheduled (weak fairness) and those that wait for a mutex or the
migration lock get it in the end (strong fairness: Go's mutex prevents starvation and
PostgreSQL's lock queue is ordered). A worker that was told to stop is not assumed to
stop. In the attachments the deliveries are weakly fair, as the outbox polls; users owe
nothing. The workflows have no promises in time: everything waits for people.

Each property of a passing run has a mutant in the module: a plausible defect of the
code, such as a dropped condition in a statement or an ignored error, under which TLC
finds that very property violated.

## 4. What is proved

The theorems hold for any number of workers, keys, contents, clients, items, users,
documents, calls and faults. They rest only on the assumptions that the modules state
about their constants (for instance that the limit of attempts is positive, that the
empty text is no prefix, or that there are finitely many users and files), which TLC
evaluates in every run.

**Outbox.** `TypeCorrect` proves the type invariant together with the shape of the loop.
The safety properties are not inductive as they stand: that a processed row has its
effect needs that a worker about to acknowledge has delivered, which needs that the
snapshot in its hands has the content of the row, which needs that contents never
change. `DeliveryInv` is that conjunction: rows are promised, promises have their rows,
effects are the rows' contents, batches and events in hand are the rows', what is about
to be acknowledged is delivered, and what is processed is delivered. `NextDeliveryInv`
proves it one action at a time; most actions are quiet, in that they change neither
contents nor effects, and `QuietStep` deals with those at once. From it follow
`NoEffectIsLost`, `NoPromiseIsLost`, `ProcessedRowsAreFinal`, and
`OutboxImplementsEffectDelivery`: the initial states agree, and every step is a promise
(`EnqueuePromises`), an application or a stutter (`DeliverApplies`), or bookkeeping of
the queue that the abstract delivery does not see (`BookkeepingIsInvisible`).

**Registration.** `TypeCorrect` includes that every document given as an answer has the
key it was asked with. This needs facts about numbers (`FormatParse`: parsing what was
formatted gives the number back) and about the shift (`ShiftedType`: it changes numbers
and nothing else). `OneDocumentPerRequest` follows from `KeysUnique`, the invariant that
the index of the idempotency keys stands for: a registration finds no document of its
key at the moment it writes, although its look-up was long before.

The numbers need more than `NoGaps` says of itself. `NumberInv` adds that the unique
index holds, that an item with documents exists, and that whatever the counter or an
insertion gave out lies below the counter of its item, in whatever year it is dated now
(`BelowCounter`). `RegisterOwn` is the heart: an insertion moves the document that held a
number to the next one, so whoever held `n - 1` holds `n` afterwards, and the number that
is free is the inserted one; `EditNumberInv` shows that an edit takes at most the one number
away that it writes over, and that this number joins the exceptions. `NumberingHasNoGaps`
follows. `CounterNeverBlocksItself` needs no regular items: an automatic number is the
counter's, all numbers that were given out lie below it, so whatever holds it was typed or
is another item's; and of two documents that an insertion moves to one number both would
have had one number before, so whatever is in its way is not among those it moves, and is
of another item or another year. The properties name what remains possible: divergences 15
and 16 below.

**Document access.** `OnePolicyEverywhere` and `ListShowsTheReadable` are not inductive
at all: they hold of every state, because they relate translations of one policy. The
two ways in which the code asks whether a user stands in for somebody (more than one
subject, or a principal) are one by the theorems on cardinalities, which is why `Users`
must be finite. `NoWithdrawalOpens` is an action property: the condition of reading is
monotone in every fact.

**Assignments.** The properties of the rows need the rows in the hands of the calls: an
old row, however long it was held, is still truthful and its team was told, or will be
told in the same transaction that writes it. `IInv` adds just these two (`HandsTell`,
`HandsTold`) to the types. `ChangeTells` is the heart: a change that is allowed keeps a
truthful row truthful, and names nobody who is not told. The four theorems on rows, lists
and buttons follow; the latter two again relate two translations. `ExecutorsCanRead` is an
equivalence: of those who may report, exactly the users of divergence 17 cannot open.

**Acknowledgments.** `IInv` ties the marks of a sheet, the transactions in flight and the
keys of the outbox together. A confirmation that has its row holds it, alone; a sheet that
was never sent left no trace; everybody on a sheet was told; the author of the sheet will
be told by every confirmation in flight. Whoever is about to complete a sheet saw
everybody else confirmed, and since rows are never reopened, a completed sheet is
confirmed by all: that is why nobody can be forgotten, although the count runs without a
lock. From it follow `ConfirmationsAreRecorded`, `NobodyIsEverForgotten` and
`ShownCanBeAnswered`. `AskedMayRead` relates the list of pending sheets to the access
policy and holds of every state.

**Accounts.** That an administrator remains is not inductive: it needs that whoever holds
the advisory lock has been judged on the table that its commit will publish
(`WillRemain`), that the row it wrote was made of the account as it still is, since nobody
else writes that row meanwhile (`RowsAreCurrent`, `OneWriter`), and that nobody else
commits a change that the trigger watches while the lock is held. `LocksAreAudited` is an
action property; it needs that active accounts are below the limit of wrong passwords.

**Attachments.** `StoresAgree` ties the rows, the objects, the events and the calls in
flight together: an upload that is not yet answered for has put its object, a deletion
that is being delivered concerns a hidden row, and the aggregate counts what it should in
spite of repeated deliveries. The three properties are conjuncts of it or follow at once.

**Lifecycle.** `IInv` is a conjunction over the copies and one over the database. Of a
copy: a worker at work is the one the lifecycle remembers, so a new one starts only when
none is at work; calls of a rollback exclude each other, hold the gate closed, and from
the end of their stop on have no worker beside them; `reconcileMu` has one holder. Of the
database: one migration at a time, and the schema is dirty meanwhile. `NeverTwoWorkers`,
`RollbacksAreAlone` and `OperationsAreDrained` follow for any number of copies.
`OpenGateIsUpToDate` too is for any number of copies, built with any migrations: whoever has
its gate open, or is about to open it (`Knows`), has read a schema that was up to date, and
has since changed it only with the gate closed, because a rollback that is called off or
completed needs the mutex of a call that decides, and because a migration upwards has
nothing to do on a current schema; or another copy has changed it, which `moved` records.

**What the refinement of the outbox is worth.** `DeliveryIsAtMostOnce` proves of
`EffectDelivery`, instantiated by the outbox, that a key has one promise, that every effect
is the promised one, and that neither is ever taken back; `EffectsHappenAtMostOnce`
transfers it to the outbox through the refinement, without looking at rows or workers again.
`NothingIsGivenUpEarly` is not inductive either, since a failure is judged from a snapshot:
`AttemptsInv` adds that no snapshot of a row that nobody has requeued has more attempts than
the row itself, whoever holds it and for however long, so that a report that reaches the
limit finds the row there too.

**Orders.** `OrderInv` says that outside of the transaction of an edit the fields and the
people of an order have one author, and inside of it nobody else writes either, because
the first statement locks the row. `EveryOrderIsOneEdit` follows. `MarksSurviveEdits` is an
action property; in its proof the rows of one name are matched by their order, as the code
does it.

**Links.** `LinksAreJournalled` needs that a link that exists was recorded at both ends
and its removal was not, in the transaction that made it (`LinkInv`). The graph is about
functions and not about behaviours: `FlowIsReachable` proves that the loop of the service,
which adds what the documents reached so far are linked to, ends with the least set that
holds the root and is closed under the readable links. The loop is written as a function
over as many rounds as there are links; that its last layer is closed is shown by the
smallest round at which it would not be, since a layer that grows uses up a link.
`FlowHidesTheHidden` and `FlowShowsTheVisible` are its two directions, the latter for paths
within the depth to which the recursive query goes.

**Lists.** `PageIsTheTop` is about the query: among finitely many documents the rank in
the order of the list is a bijection onto an interval, so a page holds the first ones, and
whatever it leaves out lies below its last row, which is the cursor. `ListInv` then carries
a walk: what is promised and not yet shown lies below every cursor of the history and
below the next one; so it does in the answer that is under way. Registrations add
documents, edits keep the place of a document in the order and take it out of the promise
if it no longer matches, an answer to an overtaken request gives the promise up.
`WalksSkipNothing` and `PagesShowWhatTheyAsk` follow, for any sizes, filters, searches and
numbers of requests.

**Refreshes.** `RefreshInv`: the request in flight has the version it was started with, no
later than the current one; it is the last one asked for or is followed by it; and what it
has read is as new as the refresh behind it. `SettledPagesAreFresh` and `NoRefreshIsLost`
follow.

**The finding of the acknowledgments, from the other side.** `TurnsCompleteSheets` proves
that a sheet that everybody has confirmed is completed if no two confirmations of it
overlap (`TakeTurns`, an assumption on the behaviour that the code does not guarantee).
The overlap is the only cause.

**Only model-checked:** liveness, which rests on fairness and is out of the prover's reach:
that every event settles (`EventuallySettled`), that deletions are carried out
(`DeletionCompletes`) and that every call of the lifecycle ends (`EveryCallEnds`). The type
invariants of `Outbox` and `Registration` are the other way round, proved and no longer
part of a run.

## 5. Findings

`acknowledgments_last` shows the code leave what a comment of it states.

1. The last two confirmations of a sheet overlap. Each transaction counts the rows that
   are open, sees the other one's row as it was before, and finds one person left. Both
   commit, everybody has confirmed, and `completed_at` is never set, though
   `acknowledgment_repo.go:453` says "3. Если все подтвердили, обновляем completed_at
   основного ознакомления". No later call counts again. The sheet stays in the lists of
   active sheets for good. That the overlap is the only cause is proved
   (`TurnsCompleteSheets`).

Known divergences that have no run of their own here, because each needs an instance
that shows nothing else. The models contain the behaviour; the properties of the passing
runs are stated so that they hold beside it.

2. A form is sent, its window is closed, the user searches or turns the page, and then the
   form has been saved. The callback that reloads the page (`IncomingPage.tsx:181` and
   `:204`, and the same in the other three pages) is the one of the render in which the
   form was sent, so it asks with the old search and the old cursor. Being the latest
   request, it replaces the answer to the new search and stays; the next page continues
   from its cursor and skips documents. `tech_docs.md:121` calls `latestRequest.ts` the
   protection of the state from answers that are out of date. `SettledIsCurrent` and
   `NothingIsSkipped` name it as their exception (`overtaken`). The pages of `Refreshes`
   have the same pattern (`AssignmentsPage.tsx:141`, `useAssignments.ts:64` and `:76`,
   `AcknowledgmentList.tsx:62`), which `ShowsWhatWasAskedLast` names (`outdated`).
3. The search field of the four list pages sets the search without going back to the first
   page (`IncomingPage.tsx:242`), while `tech_docs.md:124` says that every change of filter,
   search or page size resets the history of cursors. A search begun on a later page skips
   whatever precedes its cursor, which is why `NothingIsSkipped` is about walks that begin
   on the first page.
4. A terminal failure of an event is taken back without a requeue: `MarkFailed`
   (`outbox_repo.go:141`) computes the terminal mark from the attempts in a worker's
   snapshot, so a late report of a worker that lost its claim clears it. The comment at
   `outbox_repo.go:132` says the event "is excluded from automatic claiming until Requeue
   is called". The other way round, after a requeue the late report of the last attempt
   from before gives the event up again at once, with no attempt counted;
   `GivenUpAfterAllAttempts` names the requeue as its exception.
5. With a second copy, such an event may also be processed and failed at once, since
   `MarkProcessed` (`outbox_repo.go:126`) does not clear `failed_at`, and is then counted
   twice by the statistics. No source says how the states are to be counted. An event that
   kills its copy in every delivery is never given up: attempts are compared with the limit
   only where a failure is reported.
6. An insertion with a shift in an item that is numbered by hand rewrites the number of
   the moved document with the empty text (`document_registration.go:232`), which line 71
   of the same file refuses for a registration.
7. A rollback that gives up on a slow worker opens the gate while the worker is still
   stopping; when it has stopped, nothing starts another one until the next
   reconciliation (`background_lifecycle.go:103`; compare `tech_docs.md:226-230`).
8. Readiness is a flag of a process: a copy does not notice that another one migrated or
   rolled back (`background_lifecycle.go:171`), although "older binary against newer DB
   schema must be blocked" and "dirty schema means stop using app" (`tech_docs.md:199-200`).
   Its gate stays open until it reads the version again, at its next start, migration or
   rollback. `OpenMeansUpToDate` is checked and proved for several copies of different
   versions and names this case, and no other, as its exception (`moved`).
9. Of two simultaneous replacements of one user's rights the second one can succeed and
   leave the rights that the first one inserted (`document_access_repo.go:123`, whose
   comment at line 115 says the rights are replaced).
10. A writer that judged an old row overwrites a newer one: an edit that was read before
    an acceptance writes the status "completed" back over "finished"
    (`assignment_service.go:319`), although the comments at lines 262-263 and 581 say that
    finished assignments may be neither edited nor deleted. The check is there, but of the
    row as it was read. `StatusTellsTheTruth` says what holds of the result all the same.
11. A mark of acquaintance that is made between the reading of the list and the
    transaction of an edit is lost (`administrative_order_repo.go:356`), although line 654
    refuses the removal of people who are acquainted. `MarksAreLostToStaleEditsOnly` says
    that nothing else loses a mark, but for homonyms: of two people of one name, the rows
    are matched by their order, and leaving out the unmarked one may drop the marked one.
12. Choosing the page size that is already set, on the first page, disables the button for
    the next page without loading anything.
13. For users who are neither participants nor substitutes, the lists show documents in
    which they are named and the card refuses them (`ListMatchesCard` names the
    exception).
14. A concurrent repetition of a request in an item numbered by hand may be answered by a
    conflict on the number, since the index on numbers is checked first; a further
    repetition gets the document. For the last active administrator the trigger refuses
    the transaction that would lock the account. A total that a refresh overlapped is
    wrong, which the repository's own list of defects records; `TotalIsExact` excludes it.
15. "Automatic numbering strictly without gaps" is called the critical invariant
    (`tech_docs.md:324`), but the edit of an appeal writes whatever number the user typed
    (`citizen_appeal_repo.go:485-496`): a number that the counter gave out is given up, and
    no document has it any more. So it is with numbers that an administrator jumped over by
    an insertion beyond the counter, and with insertions that move only a part of the
    documents, since those dated in another year, or formatted with an earlier index or
    mode of the item, stay (`document_registration.go:199`). `NoGaps` names the three.
16. A person can take the counter's next number: by a literal number without letters or
    with digits for letters, which `admin_number_override.go:34` accepts and only
    `NomenclatureTab.tsx:278` excludes, by the edit of an appeal, or in the manual mode of
    an item. From then on every automatic registration of the item (with that date's year)
    is refused as a conflict, and since the transaction that would advance the counter
    rolls back, nothing but another insertion or a change of that document gets it going
    again. `NeverBlocksItself` names it, and insertions that are refused by a document of
    another year.
17. `UpdateStatus` asks only that the user be signed in and be the executor
    (`assignment_service.go:310`), while opening the assignment asks for the right to read
    (`:394`). An executor who is no participant, stands in for nobody and has no right to
    read the kind of the document reports on an assignment that he cannot open.
    `ExecutorCanRead` states exactly this exception.

## 6. What is not modelled, and why

Reports, the dashboard, journals and the bell are queries without a state to protect.
Formatting, texts and layout are left out, and so are the transfer objects. Password
rules, hashing and expiry are choices of the environment in `Accounts`. Downloads,
temporary local files and the reconciliation report of the storage are not modelled:
objects without rows after a failed upload are possible by design and are what that
report is for. A rollback does not wait for operations that were admitted before it: the
code drains the worker only, and no source states more, so there is nothing to check.
The poll of the user
events goes through `CoalescedRequest` too, but shows no state of loading, and React's
development mode, which runs effects twice, is not the program as it is built.

Three simplifications run through the workflows. A decision on access is one step, though
the code takes several queries, so what it is worth when rights change meanwhile is not
asked; the rights are chosen once per behaviour in `Assignments`, `Acknowledgments` and
`Links`, and change freely in `DocumentAccess`. A page of a list, and a card, are read in
one step, though the code makes three queries of them, so that rows of different moments
in one answer do not occur here. Deadlines, texts and dates of assignments are left out,
as nothing but their display depends on them.

## 7. Plan

Done in this order: outbox (every other part writes through it), registration (the
purpose of the program), attachments, lifecycle, accounts, access policy, assignments,
acknowledgments, orders and links, lists, refreshes. Next:

1. The reconciliation report of the storage against concurrent uploads, and downloads.
2. Compositions: rights that change between the decision and the act, by running
   `DocumentAccess`'s actions beside `Assignments`; a module in which the deletions of
   `Attachments` are delivered by `Outbox` itself.

Proofs to come: every invariant and action property that a run checks is a theorem. What
remains is to prove more than the runs check: that a walk ends, given that nothing is
registered above its cursor, as a bound on its pages; that a refused registration leaves
the counter as it was, as an action property; and the refinement of an abstract register
of what a page shows by `Refreshes`.
