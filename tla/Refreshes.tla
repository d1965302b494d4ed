----------------------------- MODULE Refreshes -----------------------------
(***************************************************************************)
(* The pages that load themselves anew when something has happened: the    *)
(* assignments of a document, the list of assignments, the sheets of a     *)
(* document, the dashboard.  Their refreshes come in bursts and go through *)
(* frontend/src/utils/coalescedRequest.ts, which has one request in flight *)
(* and lets one more follow it, however many are asked for meanwhile.      *)
(*                                                                         *)
(* The database is a counter of what was committed; an answer knows how    *)
(* much of it it has seen.                                                 *)
(***************************************************************************)
EXTENDS Naturals

CONSTANTS
    Questions,          \* the documents or filters a page can ask for
    MaxVersion,         \* bound: refreshes and leavings
    MaxChanges          \* bound: commits

ASSUME RefreshConstants == MaxVersion \in Nat /\ MaxChanges \in Nat

VARIABLES
    changes,            \* committed so far
    question,           \* what the page shows or is about to show
    accessReady, mounted, loading,
    doing,              \* what the page showed when the actions in progress began
    shown,              \* the data of the page, by question and changes seen
    running, pending, version, request,     \* of CoalescedRequest
    flight,             \* the request in flight, and the version it is for
    \* The rest is there for the properties.
    asked,              \* changes at the time of the last refresh
    outdated,           \* the last refresh was for what the page showed earlier
    failed              \* the last callbacks that ran were those of an error

hookVars == <<question, accessReady, mounted, doing>>
refreshVars == <<changes, hookVars, loading, shown, running, pending, version, request,
                 flight, asked, outdated, failed>>

Unread == 0
NoFlight == [version |-> 0]
Flight(v, q) == [version |-> v, question |-> q, read |-> Unread]

RefreshInit ==
    /\ changes = 1
    /\ question \in Questions
    /\ accessReady = FALSE /\ mounted = TRUE /\ loading = FALSE /\ doing = {}
    /\ shown = [question |-> question, changes |-> Unread]
    /\ running = FALSE /\ pending = FALSE /\ version = 0 /\ request = question
    /\ flight = NoFlight
    /\ asked = 1 /\ outdated = FALSE /\ failed = FALSE

-----------------------------------------------------------------------------
(* The callers.                                                            *)

\* A variant for the mutants: what is in flight will do.
NeverPending == FALSE

\* A request that is made while one is running waits for it.
PendingOnceMore == running

\* load of a page: refresh replaces request and callbacks; it starts to drain,
\* unless it is draining already.
Load(q) ==
    /\ version < MaxVersion
    /\ loading' = TRUE
    /\ request' = q
    /\ version' = version + 1
    /\ pending' = PendingOnceMore
    /\ IF running
       THEN UNCHANGED <<running, flight>>
       ELSE running' = TRUE /\ flight' = Flight(version + 1, q)
    /\ asked' = changes
    /\ outdated' = (q # question')
    /\ UNCHANGED <<changes, shown, failed>>

\* The effect that loads the page runs once the rights are known, and again when
\* the document or a filter is another one.
GetReady ==
    /\ mounted /\ ~accessReady
    /\ accessReady' = TRUE
    /\ UNCHANGED <<question, mounted, doing>>
    /\ Load(question)

AskFor(q) ==
    /\ mounted /\ q # question
    /\ question' = q
    /\ IF accessReady THEN Load(q)
       ELSE UNCHANGED <<changes, loading, shown, running, pending, version, request, flight,
                        asked, outdated, failed>>
    /\ UNCHANGED <<accessReady, mounted, doing>>

\* An event that concerns the page.
LoadAgain ==
    /\ mounted /\ accessReady
    /\ UNCHANGED hookVars
    /\ Load(question)

\* The user deletes something or changes its status.  When that has succeeded the
\* page is loaded by the load of the time it began, whatever it shows by then.
Do ==
    /\ mounted /\ accessReady
    /\ doing' = doing \union {question}
    /\ UNCHANGED <<changes, question, accessReady, mounted, loading, shown, running, pending,
                   version, request, flight, asked, outdated, failed>>

Done(q) ==
    /\ q \in doing
    /\ doing' = doing \ {q}
    /\ UNCHANGED <<question, accessReady, mounted>>
    /\ \/ Load(q)
       \/ UNCHANGED <<changes, loading, shown, running, pending, version, request, flight,
                      asked, outdated, failed>>

\* The cleanup of the page invalidates what is in flight.
Leave ==
    /\ mounted
    /\ version < MaxVersion
    /\ mounted' = FALSE
    /\ version' = version + 1
    /\ pending' = FALSE
    /\ UNCHANGED <<changes, question, accessReady, doing, loading, shown, running, request,
                   flight, asked, outdated, failed>>

-----------------------------------------------------------------------------
(* The drain.                                                              *)

Change ==
    /\ changes < MaxChanges
    /\ changes' = changes + 1
    /\ UNCHANGED <<hookVars, loading, shown, running, pending, version, request, flight,
                   asked, outdated, failed>>

\* The query reads what is committed.
Read ==
    /\ flight # NoFlight
    /\ flight.read = Unread
    /\ flight' = [flight EXCEPT !.read = changes]
    /\ UNCHANGED <<changes, hookVars, loading, shown, running, pending, version, request,
                   asked, outdated, failed>>

\* The loop goes on with the latest request if one was made meanwhile.
NextTurn ==
    /\ pending' = FALSE
    /\ IF pending
       THEN flight' = Flight(version, request) /\ UNCHANGED running
       ELSE flight' = NoFlight /\ running' = FALSE
    /\ UNCHANGED <<changes, hookVars, version, request, asked, outdated>>

\* A variant for the mutants: any answer will do.
AnyAnswer == TRUE

\* The callbacks run if nothing was asked for since, and the page is not left.
Current == version = flight.version

Succeed ==
    /\ flight # NoFlight
    /\ flight.read # Unread
    /\ IF Current
       THEN /\ shown' = [question |-> flight.question, changes |-> flight.read]
            /\ loading' = FALSE
            /\ failed' = FALSE
       ELSE UNCHANGED <<shown, loading, failed>>
    /\ NextTurn

GiveUp ==
    /\ flight # NoFlight
    /\ IF Current THEN loading' = FALSE /\ failed' = TRUE ELSE UNCHANGED <<loading, failed>>
    /\ UNCHANGED shown
    /\ NextTurn

RefreshNext ==
    \/ GetReady
    \/ \E q \in Questions : AskFor(q) \/ Done(q)
    \/ LoadAgain \/ Do
    \/ Leave
    \/ Change
    \/ Read \/ Succeed \/ GiveUp

RefreshSpec == RefreshInit /\ [][RefreshNext]_refreshVars

-----------------------------------------------------------------------------
(* Properties.                                                             *)

\* A page that has settled shows the answer to its last refresh, as it was then or
\* later: no answer to an earlier one is shown, and what the user or the event
\* behind the refresh changed is seen.  That is what the page asks for, unless an
\* action that began when it asked for something else has refreshed it.  Or the
\* last refresh has failed, which two of the four pages tell the user, and the
\* assignments and the sheets of a document only the console.
ShowsWhatWasAskedLast ==
    mounted /\ accessReady /\ ~loading /\ ~failed =>
        /\ shown.question = request /\ shown.changes >= asked
        /\ outdated \/ request = question

\* A page that is loading waits for an answer that it will take: the one in
\* flight is for the last refresh, or one more follows.
AnswerIsUnderWay ==
    mounted /\ loading => flight # NoFlight /\ (pending \/ Current)
=============================================================================
