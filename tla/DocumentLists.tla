--------------------------- MODULE DocumentLists ---------------------------
(***************************************************************************)
(* The list of the documents of one kind: the query of a page behind a     *)
(* cursor (repository, GetList of each kind), and the page in the client   *)
(* that walks it forwards and backwards while documents are registered and *)
(* edited (frontend/src/hooks/useDocumentListPage.ts).  Requests of the    *)
(* page overlap; only the callbacks of the latest one run                  *)
(* (frontend/src/utils/latestRequest.ts).                                  *)
(*                                                                         *)
(* What a user may read at all is the matter of DocumentAccess: Documents  *)
(* are those of one read scope.                                            *)
(***************************************************************************)
EXTENDS Naturals, Sequences, FiniteSets

CONSTANTS
    Documents,          \* ids, which break ties in the order of the list
    Existing,           \* documents registered before the behaviour begins,
    FirstForm,          \* with this form of each kind
    Words,              \* what fields hold and searches ask for
    Forms,              \* bound: [DocumentKinds -> what is saved]
    Filters,            \* bound: [DocumentKinds -> the filters that are set]
    Searches,           \* bound: the texts that are searched for
    Sizes,              \* page sizes
    DefaultSize,
    MaxClock, MaxClicks,
    MaxUpsets,          \* bound: edits and failed requests
    MaxRequests,        \* bound: requests in flight
    MaxSaves            \* one registration and one edit are sent at a time

DocumentKinds == {"incoming_letter", "outgoing_letter", "citizen_appeal", "administrative_order"}

\* A word stands for a text and for whatever is found in it; "" is an empty field.
Texts == Words \cup {""}
\* The recipient, applicant or controller is the name of the document itself,
\* the correspondents of a letter are in its letters.
Form == [number : Words, content : Texts, name : Texts,
         letters : SUBSET [number : Words, name : Words], resolutions : SUBSET Texts,
         active : BOOLEAN, awaited : BOOLEAN]
Filter == [number : Texts, letter : Texts, name : Texts, resolution : Texts,
           noResolution : BOOLEAN, status : {"", "active", "inactive"}, awaited : BOOLEAN]
NoFilter == [number |-> "", letter |-> "", name |-> "", resolution |-> "",
             noResolution |-> FALSE, status |-> "", awaited |-> FALSE]

ASSUME ListConstants ==
    /\ Documents \subseteq Nat /\ Existing \subseteq Documents /\ IsFiniteSet(Existing)
    /\ \A k \in DocumentKinds : Forms[k] \subseteq Form /\ FirstForm[k] \in Forms[k] /\ Filters[k] \subseteq Filter
    /\ Searches \subseteq Texts
    /\ Sizes \subseteq Nat \ {0} /\ DefaultSize \in Sizes
    /\ {MaxClock, MaxClicks, MaxUpsets, MaxRequests, MaxSaves} \subseteq Nat

VARIABLES
    kind,               \* of the page
    documents,          \* the committed documents: the form and the time of creation
    registering,        \* the same, of registrations not yet committed
    clock,
    page,               \* the state of the hook
    sequence,           \* of LatestRequest
    requests,           \* requests in flight: number, question and answer
    saving,             \* what the page asked for when forms were submitted
    counts,             \* clicks and upsets so far
    \* The rest is there for the properties.
    overtaken,          \* the latest request is for what a form was submitted over
    settled,            \* the question of the last request whose callbacks ran
    due,                \* what the walk from the first page has promised to show
    seen                \* what it has shown

rows == <<kind, documents, registering, clock>>
walk == <<settled, due, seen>>
forms == <<saving, overtaken>>
listVars == <<rows, page, sequence, requests, forms, counts, walk>>

NoDocument == [created |-> 0]
NoCursor == <<>>
NoAnswer == [at |-> "server"]
Committed == {d \in Documents : documents[d] # NoDocument}

NewPage(authenticated, size, filter) ==
    [authenticated |-> authenticated, filter |-> filter, search |-> "", size |-> size,
     history |-> <<NoCursor>>, index |-> 1, next |-> NoCursor, more |-> FALSE,
     data |-> {}, loading |-> FALSE]

\* The dependencies of the effect that loads the page.
Question(p) ==
    [filter |-> p.filter, search |-> p.search, size |-> p.size,
     cursor |-> p.history[p.index], index |-> p.index]

ListInit ==
    /\ kind \in DocumentKinds
    /\ documents = [d \in Documents |->
         IF d \in Existing THEN [form |-> FirstForm[kind], created |-> 1] ELSE NoDocument]
    /\ registering = [d \in Documents |-> NoDocument]
    /\ clock = 1
    /\ page = NewPage(FALSE, DefaultSize, NoFilter)
    /\ sequence = 0
    /\ requests = {}
    /\ saving = {} /\ overtaken = FALSE
    /\ counts = [clicks |-> 0, upsets |-> 0]
    /\ settled = "nothing"
    /\ due = {} /\ seen = {}

-----------------------------------------------------------------------------
(* The query of one page.                                                  *)

Asks(wanted, value) == wanted = "" \/ wanted = value
AsksOneOf(wanted, values) == wanted = "" \/ wanted \in values
Numbers(form) == {l.number : l \in form.letters}
Names(form) == {l.name : l \in form.letters}
\* NoResolution comes before a text of a resolution.
AsksResolution(filter, form) ==
    IF filter.noResolution THEN form.resolutions \subseteq {""}
    ELSE AsksOneOf(filter.resolution, form.resolutions)

MatchesIncoming(form, search, filter) ==
    /\ AsksOneOf(search, {form.content, form.number} \cup Numbers(form))
    /\ Asks(filter.number, form.number)
    /\ AsksOneOf(filter.letter, Numbers(form))
    /\ AsksOneOf(filter.name, Names(form))
    /\ AsksResolution(filter, form)

MatchesOutgoing(form, search, filter) ==
    /\ AsksOneOf(search, {form.content, form.number})
    /\ Asks(filter.number, form.number)
    /\ Asks(filter.name, form.name)

MatchesAppeal(form, search, filter) ==
    /\ AsksOneOf(search, {form.content, form.number, form.name} \cup Numbers(form) \cup Names(form))
    /\ Asks(filter.number, form.number)
    /\ Asks(filter.name, form.name)
    /\ AsksResolution(filter, form)

MatchesOrder(form, search, filter) ==
    /\ AsksOneOf(search, {form.content, form.number, form.name})
    /\ Asks(filter.number, form.number)
    /\ Asks(filter.name, form.name)
    /\ filter.awaited => form.awaited
    /\ filter.status # "" => (filter.status = "active") = form.active

Matches(form, question) ==
    CASE kind = "incoming_letter" -> MatchesIncoming(form, question.search, question.filter)
      [] kind = "outgoing_letter" -> MatchesOutgoing(form, question.search, question.filter)
      [] kind = "citizen_appeal" -> MatchesAppeal(form, question.search, question.filter)
      [] OTHER -> MatchesOrder(form, question.search, question.filter)

Key(d) == <<documents[d].created, d>>
Below(key, cursor) == key[1] < cursor[1] \/ (key[1] = cursor[1] /\ key[2] < cursor[2])

\* applyDocumentCursor.
BehindCursor(found, cursor) ==
    IF cursor = NoCursor THEN found ELSE {d \in found : Below(Key(d), cursor)}

\* One row more than the page holds is read; the cursor is that of the last row
\* shown.
PageOf(matching, question) ==
    LET found == BehindCursor(matching, question.cursor)
        items == {d \in found : Cardinality({e \in found : Below(Key(d), Key(e))}) < question.size}
        more == Cardinality(found) > question.size
        last == CHOOSE d \in items : \A e \in items \ {d} : Below(Key(d), Key(e))
    IN  [at |-> "client", items |-> items, more |-> more,
         next |-> IF more THEN Key(last) ELSE NoCursor, all |-> matching]

IncomingList(q) == PageOf({d \in Committed : MatchesIncoming(documents[d].form, q.search, q.filter)}, q)
OutgoingList(q) == PageOf({d \in Committed : MatchesOutgoing(documents[d].form, q.search, q.filter)}, q)
AppealList(q) == PageOf({d \in Committed : MatchesAppeal(documents[d].form, q.search, q.filter)}, q)
OrderList(q) == PageOf({d \in Committed : MatchesOrder(documents[d].form, q.search, q.filter)}, q)

\* The query handler of the kind answers.
GetList(q) ==
    CASE kind = "incoming_letter" -> IncomingList(q)
      [] kind = "outgoing_letter" -> OutgoingList(q)
      [] kind = "citizen_appeal" -> AppealList(q)
      [] OTHER -> OrderList(q)

-----------------------------------------------------------------------------
(* Registrations and edits.                                                *)

\* created_at is the time at which the transaction began.
BeginRegistration(d, form, now) ==
    /\ documents[d] = NoDocument /\ registering[d] = NoDocument
    /\ now \in {clock, clock + 1} /\ now <= MaxClock
    /\ registering' = [registering EXCEPT ![d] = [form |-> form, created |-> now]]
    /\ clock' = now
    /\ UNCHANGED <<kind, documents, page, sequence, requests, forms, counts, walk>>

CommitRegistration(d) ==
    /\ registering[d] # NoDocument
    /\ documents' = [documents EXCEPT ![d] = registering[d]]
    /\ registering' = [registering EXCEPT ![d] = NoDocument]
    /\ UNCHANGED <<kind, clock, page, sequence, requests, forms, counts, walk>>

RollbackRegistration(d) ==
    /\ registering[d] # NoDocument
    /\ registering' = [registering EXCEPT ![d] = NoDocument]
    /\ UNCHANGED <<kind, documents, clock, page, sequence, requests, forms, counts, walk>>

SavedAsNew(row, form) == [form |-> form, created |-> clock]

Saved(row, form) == [row EXCEPT !.form = form]

\* One transaction writes the document, its details and its lists; it may take
\* the document out of what a walk has promised.
Update(d, form) ==
    /\ d \in Committed
    /\ counts.upsets < MaxUpsets
    /\ documents' = [documents EXCEPT ![d] = Saved(@, form)]
    /\ counts' = [counts EXCEPT !.upsets = @ + 1]
    /\ due' = IF Matches(form, Question(page)) THEN due ELSE due \ {d}
    /\ requests' = {IF r.answer = NoAnswer \/ Matches(form, r.question) THEN r
                    ELSE [r EXCEPT !.answer.all = @ \ {d}] : r \in requests}
    /\ UNCHANGED <<kind, registering, clock, page, sequence, forms, settled, seen>>

KeepsNumber(d, form) == form.number = documents[d].form.number

\* A letter has a correspondent and at most one resolution.
ValidIncoming(d, form) ==
    KeepsNumber(d, form) /\ form.letters # {} /\ Cardinality(form.resolutions) <= 1

UpdateIncoming(d, form) ==
    /\ kind = "incoming_letter"
    /\ d \in Committed
    /\ ValidIncoming(d, form)
    /\ Update(d, form)

UpdateOutgoing(d, form) ==
    /\ kind = "outgoing_letter"
    /\ d \in Committed
    /\ KeepsNumber(d, form)
    /\ Update(d, form)

\* An appeal may get another number; its resolutions have texts.
ValidAppeal(form) == "" \notin {form.content, form.name} \cup form.resolutions

UpdateAppeal(d, form) ==
    /\ kind = "citizen_appeal"
    /\ ValidAppeal(form)
    /\ Update(d, form)

UpdateOrder(d, form) ==
    /\ kind = "administrative_order"
    /\ d \in Committed
    /\ KeepsNumber(d, form)
    /\ Update(d, form)

-----------------------------------------------------------------------------
(* The page.                                                               *)

\* LatestRequest.run: a new request makes the older ones irrelevant.
Ask(p, question) ==
    /\ Cardinality(requests) < MaxRequests
    /\ page' = [p EXCEPT !.loading = TRUE]
    /\ sequence' = sequence + 1
    /\ requests' = requests \cup
         {[number |-> sequence + 1, question |-> question, answer |-> NoAnswer]}
    /\ overtaken' = (question # Question(p))

\* The effect loads the page when one of its dependencies has changed.
Show(p) ==
    /\ IF Question(p) # Question(page) THEN Ask(p, Question(p))
       ELSE page' = p /\ UNCHANGED <<sequence, requests, overtaken>>
    /\ UNCHANGED saving

Click ==
    /\ page.authenticated
    /\ counts.clicks < MaxClicks
    /\ counts' = [counts EXCEPT !.clicks = @ + 1]
    /\ UNCHANGED <<rows, settled>>

\* setPage(1) forgets the cursors, and that there is more.
Rewound(p) == [p EXCEPT !.history = <<NoCursor>>, !.index = 1, !.more = FALSE, !.next = NoCursor]

\* The search does not call setPage.
SetSearch(text) ==
    /\ Click
    /\ text # page.search
    /\ Show([page EXCEPT !.search = text])
    /\ due' = {} /\ seen' = {}

SetFilter(filter) ==
    /\ Click
    /\ filter # page.filter
    /\ Show(Rewound([page EXCEPT !.filter = filter]))
    /\ due' = {} /\ seen' = {}

SetDocumentPageSize(size) ==
    /\ Click
    /\ Show(Rewound([page EXCEPT !.size = size]))
    /\ due' = {} /\ seen' = {}

\* Both buttons are disabled while the page is loading.
GoToNextPage ==
    /\ Click
    /\ page.more /\ ~page.loading
    /\ Show([page EXCEPT !.history = Append(SubSeq(@, 1, page.index), page.next), !.index = @ + 1])
    /\ UNCHANGED <<due, seen>>

GoToPreviousPage ==
    /\ Click
    /\ page.index > 1 /\ ~page.loading
    /\ Show([page EXCEPT !.index = @ - 1])
    /\ UNCHANGED <<due, seen>>

\* A registration or an edit is sent; its form may be closed without waiting.
Save ==
    /\ Click
    /\ Cardinality(saving) < MaxSaves
    /\ saving' = saving \cup {Question(page)}
    /\ UNCHANGED <<page, sequence, requests, overtaken, due, seen>>

\* When it has succeeded the page is loaded by the load of the time it was sent:
\* with that search, size and cursor, and with the filters of now.
Reload(question) ==
    /\ question \in saving
    /\ saving' = saving \ {question}
    /\ \/ Ask(page, [question EXCEPT !.filter = page.filter])
       \/ UNCHANGED <<page, sequence, requests, overtaken>>
    /\ UNCHANGED <<rows, counts, walk>>

Login ==
    /\ ~page.authenticated
    /\ \E p \in {[page EXCEPT !.authenticated = TRUE]} : Ask(p, Question(p))
    /\ UNCHANGED <<rows, saving, counts, walk>>

\* The application takes every page away (App.tsx), and whoever signs in next has
\* a new one.  Forms that are still sent have another page to load, which is gone.
Logout ==
    /\ Click
    /\ page' = NewPage(FALSE, DefaultSize, NoFilter)
    /\ sequence' = sequence + 1
    /\ saving' = {}
    /\ due' = {} /\ seen' = {}
    /\ UNCHANGED <<requests, overtaken>>

-----------------------------------------------------------------------------
(* The answers.                                                            *)

RunQuery(r) ==
    /\ r.answer = NoAnswer
    /\ requests' = (requests \ {r}) \cup {[r EXCEPT !.answer = GetList(r.question)]}
    /\ UNCHANGED <<rows, page, sequence, forms, counts, walk>>

AnyMayUpdate(r) == TRUE

MayUpdate(r) == r.number = sequence

\* The first page begins a walk, further pages continue it, and what was not
\* asked for ends it.
OnSuccess(r) ==
    /\ page' = [page EXCEPT !.data = r.answer.items, !.more = r.answer.more,
                            !.next = r.answer.next, !.loading = FALSE]
    /\ settled' = r.question
    /\ CASE overtaken -> due' = {} /\ seen' = {}
         [] ~overtaken /\ r.question.cursor = NoCursor -> due' = r.answer.all /\ seen' = r.answer.items
         [] OTHER -> due' = due /\ seen' = seen \cup r.answer.items

Answer(r) ==
    /\ r.answer # NoAnswer
    /\ requests' = requests \ {r}
    /\ IF MayUpdate(r) THEN OnSuccess(r) ELSE UNCHANGED <<page, walk>>
    /\ UNCHANGED <<rows, sequence, forms, counts>>

\* The data of the page before stay on the screen.
Fail(r) ==
    /\ r.answer = NoAnswer
    /\ counts.upsets < MaxUpsets
    /\ counts' = [counts EXCEPT !.upsets = @ + 1]
    /\ requests' = requests \ {r}
    /\ IF MayUpdate(r)
       THEN /\ page' = [page EXCEPT !.loading = FALSE]
            /\ settled' = r.question
       ELSE UNCHANGED <<page, settled>>
    /\ UNCHANGED <<rows, sequence, forms, due, seen>>

ListNext ==
    \/ \E d \in Documents, form \in Forms[kind] :
         \/ \E now \in 1 .. MaxClock : BeginRegistration(d, form, now)
         \/ UpdateIncoming(d, form) \/ UpdateOutgoing(d, form)
         \/ UpdateAppeal(d, form) \/ UpdateOrder(d, form)
    \/ \E d \in Documents : CommitRegistration(d) \/ RollbackRegistration(d)
    \/ \E text \in Searches : SetSearch(text)
    \/ \E filter \in Filters[kind] : SetFilter(filter)
    \/ \E size \in Sizes : SetDocumentPageSize(size)
    \/ GoToNextPage \/ GoToPreviousPage \/ Save \/ Login \/ Logout
    \/ \E question \in saving : Reload(question)
    \/ \E r \in requests : RunQuery(r) \/ Answer(r) \/ Fail(r)

ListSpec == ListInit /\ [][ListNext]_listVars

-----------------------------------------------------------------------------
(* Properties.                                                             *)

\* Whoever walks from the first page to the last has seen every document that
\* was there when the walk began and that still matches, whatever was
\* registered or edited meanwhile, whichever requests failed or were overtaken,
\* and however often the user went back and forth.  A search that is begun on a
\* later page promises nothing, since it keeps the cursor of the old one, and no
\* more does a page that shows what it has not asked for, or one that forgot its
\* next cursor because the page size that is set already was chosen again.
NothingIsSkipped ==
    page.authenticated /\ ~page.loading /\ ~page.more => due \subseteq seen

\* A page that is not loading has been answered: the callbacks that ran last are
\* those of what it asks for now, unless a form that was sent over something else
\* has loaded it since.  Without a session it shows nothing.
SettledIsCurrent ==
    /\ page.authenticated /\ ~page.loading => overtaken \/ settled = Question(page)
    /\ ~page.authenticated => page.data = {} /\ ~page.loading
=============================================================================
