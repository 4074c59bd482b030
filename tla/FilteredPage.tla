---------------------------- MODULE FilteredPage ----------------------------
(***************************************************************************)
(* A page whose filters live in the address bar: useUrlQuery (the state,   *)
(* the debounced state and the address, each following the other),         *)
(* useCancellableLoad (one request at a time, for the settled filters) and *)
(* useAutoRefresh.  The overview, the deployments, the DORA pages, the     *)
(* changelog archive and the release notes are pages of this kind.  One    *)
(* metric's page reads its events in a load of their own, and the release  *)
(* notes are generated on a click: neither is the load of the page.        *)
(*                                                                         *)
(* A render and the effects it runs are one step (Commit): the browser     *)
(* handles no other event in between.  The router's setter is a new        *)
(* function whenever the search part of the address changes, so the effect *)
(* that writes the address also runs after the address moved.              *)
(***************************************************************************)
EXTENDS Integers, Sequences

CONSTANTS
  Filters,      \* what narrows a report
  Layouts,      \* how a page arranges it: the fold, the axes, an open timeline;
                \* of the release notes, the range
  Windows,      \* which page of the list is read: 0 is the first
  MaxClicks     \* how many times the reader acts

VARIABLES
  page,         \* the page that is open
  query,        \* what the controls show: filters, layout and window
  settled,      \* the same after they stood still
  timer,        \* a change of the filters has not settled yet
  entries,      \* the browser's history of addresses ...
  pos,          \* ... and the one being shown
  lastWritten,  \* the address last written or read
  replaceNext,  \* the next write amends the address
  moved,        \* the address changed and has not been rendered
  request,      \* the request in flight
  report,       \* the question the report on screen answers, if any
  error,        \* the last request failed
  events,       \* the list below a metric: its window, its load and its rows
  notes,        \* the release notes: their generation, and what is on screen
  clicks,
  hurried       \* the reader acted again before the filters settled

url == <<query, settled, timer, entries, pos, lastWritten, replaceNext, moved>>
screen == <<request, report, error>>
beside == <<events, notes>>
vars == <<page, url, screen, beside, clicks, hurried>>

\* What sets the pages apart: whether the reader can rearrange what is shown,
\* whether it is a list read a window at a time, whether it loads again by
\* itself, whether it picks a filter for the reader, whether a filter stays live
\* during a load, whether it loads as soon as a control moves rather than once
\* the filters settled, and what it reads beside its load.
OverviewPage == {"layouts", "refreshes"}
DeploymentsPage == {"windows"}
ChangelogsPage == {"windows", "live"}
DoraPage == {}
DoraMetricPage == {"events"}
ReleaseNotesPage == {"layouts", "picks", "live", "at once", "notes"}
Pages == {OverviewPage, DeploymentsPage, ChangelogsPage, DoraPage, DoraMetricPage, ReleaseNotesPage}

Queries == [filters: Filters, layout: Layouts, window: Windows]

\* What a load asks for: refolding what is on screen is not a question.
Question(q) == <<q.filters, q.window>>
NoQuestion == <<>>
Idle == [busy |-> FALSE, query |-> NoQuestion]

\* No timeline and no fold, and of a range neither bound.
Plain == CHOOSE l \in Layouts : TRUE

\* An address spells the filters and the layout, never the window; a link
\* somebody wrote by hand may spell them otherwise than the page would.
Addresses == [filters: Filters, layout: Layouts, canonical: BOOLEAN]
parse(address) == [filters |-> address.filters, layout |-> address.layout, window |-> 0]
serialize(q) == [filters |-> q.filters, layout |-> q.layout, canonical |-> TRUE]

Current == entries[pos]

\* A mutation: a request in flight is not aborted by the one after it.
Asked_KeepsTheOld(q) == IF request.busy THEN request ELSE [busy |-> TRUE, query |-> Question(q)]

\* A request for these filters takes the place of the one in flight.
Asked(q) == [busy |-> TRUE, query |-> Question(q)]

NoEvents == [window |-> 0, request |-> Idle, rows |-> NoQuestion, failed |-> FALSE]
NoNotes == [request |-> Idle, shown |-> NoQuestion, stray |-> FALSE]

\* The window w of the events is asked for, and its load takes the place of the
\* one in flight.
EventsAsked(filters, w) ==
  [events EXCEPT !.window = w, !.failed = FALSE,
                 !.request = [busy |-> TRUE, query |-> <<filters, w>>]]

Init ==
  /\ page \in Pages
  /\ \E address \in Addresses :
       /\ entries = <<address>>
       /\ lastWritten = address
       /\ query = parse(address)
  /\ settled = query
  /\ timer = FALSE
  /\ pos = 1
  /\ replaceNext = FALSE
  /\ moved = TRUE
  /\ request = [busy |-> TRUE, query |-> Question(settled)]
  /\ report = NoQuestion
  /\ error = FALSE
  /\ events = IF "events" \in page
                THEN [NoEvents EXCEPT !.request = [busy |-> TRUE, query |-> <<query.filters, 0>>]]
                ELSE NoEvents
  /\ notes = NoNotes
  /\ clicks = 0
  /\ hurried = FALSE

Click ==
  /\ clicks < MaxClicks
  /\ ~moved
  /\ clicks' = clicks + 1
  /\ hurried' = (hurried \/ timer)
  /\ UNCHANGED page

\* A page that loads as soon as a control moves.
AskAtOnce(q) ==
  IF "at once" \in page /\ Question(q) # Question(query)
  THEN request' = Asked(q) /\ error' = FALSE
  ELSE UNCHANGED <<request, error>>

\* The address written for the settled filters: a new entry, which forgets
\* the ones ahead, or the current one amended.
Written(address) ==
  IF replaceNext THEN [entries EXCEPT ![pos] = address]
                 ELSE Append(SubSeq(entries, 1, pos), address)

\* What is remembered as the page's own address: the one it rendered with.
Known(known) == IF Current # known THEN Current ELSE known

\* The effects after the address moved: first the one that writes the settled
\* filters, then the one that reads the address it was rendered with.
Commit ==
  /\ moved
  /\ LET wanted == serialize(settled)
         writes == wanted # lastWritten
         known  == IF writes THEN wanted ELSE lastWritten
         reads  == Current # known
     IN /\ entries' = IF writes THEN Written(wanted) ELSE entries
        /\ pos' = IF writes /\ ~replaceNext THEN pos + 1 ELSE pos
        /\ replaceNext' = (replaceNext /\ ~writes)
        /\ lastWritten' = Known(known)
        /\ query' = IF reads THEN parse(Current) ELSE query
        /\ timer' = (timer \/ reads)
        /\ moved' = (writes /\ wanted # Current)
        /\ AskAtOnce(query')
  /\ UNCHANGED <<page, settled, report, beside, clicks, hurried>>

\* The reader changes a control.
setQuery(q) ==
  /\ Click
  /\ query' = q
  /\ timer' = TRUE
  /\ AskAtOnce(q)
  /\ UNCHANGED <<settled, entries, pos, lastWritten, replaceNext, moved, report, beside>>

\* Narrowing starts the list over, and a range ends with its repository.  Most
\* pages disable their filters while they load.
filter(f) ==
  /\ "live" \in page \/ ~request.busy
  /\ setQuery([query EXCEPT !.filters = f, !.window = 0,
                            !.layout = IF "notes" \in page THEN Plain ELSE @])

\* Refolding narrows nothing.
layout(l) ==
  "layouts" \in page /\ l # query.layout /\ setQuery([query EXCEPT !.layout = l])

\* The next page of the list, or the one before.
turn(w) ==
  /\ "windows" \in page /\ ~request.busy
  /\ w # query.window
  /\ setQuery([query EXCEPT !.window = w])

\* The next page of the events: at once, and of the settled filters.
turnEvents(w) ==
  /\ "events" \in page /\ ~request.busy /\ ~moved
  /\ events.rows # NoQuestion /\ w # events.window
  /\ clicks < MaxClicks
  /\ clicks' = clicks + 1
  /\ events' = EventsAsked(settled.filters, w)
  /\ UNCHANGED <<page, url, screen, notes, hurried>>

\* The notes of the range on screen are generated, one range at a time.
generate ==
  /\ "notes" \in page /\ ~notes.request.busy /\ ~moved
  /\ clicks < MaxClicks
  /\ clicks' = clicks + 1
  /\ notes' = [notes EXCEPT !.request = [busy |-> TRUE, query |-> <<query.filters, query.layout>>]]
  /\ UNCHANGED <<page, url, screen, events, hurried>>

\* The page picks a filter for the reader.
replaceQuery(f) ==
  /\ Click
  /\ replaceNext' = TRUE
  /\ "picks" \in page
  /\ query' = [query EXCEPT !.filters = f]
  /\ timer' = TRUE
  /\ AskAtOnce([query EXCEPT !.filters = f])
  /\ UNCHANGED <<settled, entries, pos, lastWritten, moved, report, beside>>

\* Back, or forward.
Walk(to) ==
  /\ Click
  /\ to \in 1..Len(entries) \ {pos}
  /\ pos' = to
  /\ moved' = (entries[to] # Current)
  /\ UNCHANGED <<query, settled, timer, entries, lastWritten, replaceNext, screen, beside>>

\* The filters stood still: they are asked for, and written into the address
\* when it does not say so already.  A layout alone is not asked for; a filter
\* chosen again is.  The events start over.
Settle ==
  /\ timer
  /\ ~moved
  /\ timer' = FALSE
  /\ settled' = query
  /\ LET wanted == serialize(query)
         writes == wanted # lastWritten /\ wanted # serialize(settled)
     IN /\ entries' = IF writes THEN Written(wanted) ELSE entries
        /\ pos' = IF writes /\ ~replaceNext THEN pos + 1 ELSE pos
        /\ replaceNext' = (replaceNext /\ ~writes)
        /\ lastWritten' = IF writes THEN wanted ELSE lastWritten
        /\ moved' = (writes /\ wanted # Current)
  /\ \/ /\ "at once" \in page \/ ("layouts" \in page /\ Question(query) = Question(settled))
        /\ UNCHANGED <<request, error>>
     \/ "at once" \notin page /\ request' = Asked(query) /\ error' = FALSE
  /\ events' = IF "events" \in page THEN EventsAsked(query.filters, 0) ELSE events
  /\ UNCHANGED <<page, query, report, notes, clicks, hurried>>

\* The refresh button, the timer of a screen left open, or the tab coming
\* back into view: the same question again, the request before it aborted; the
\* events are left as they are.
reload ==
  /\ "refreshes" \in page \/ (~request.busy /\ "at once" \notin page)
  /\ clicks < MaxClicks
  /\ clicks' = clicks + 1
  /\ request' = Asked(settled)
  /\ error' = FALSE
  /\ UNCHANGED <<page, url, report, beside, hurried>>

\* The request is answered; with the refs of a repository, the notes on screen
\* are put away.
Answer ==
  /\ request.busy
  /\ report' = request.query
  /\ request' = Idle
  /\ notes' = [notes EXCEPT !.shown = NoQuestion, !.stray = FALSE]
  /\ UNCHANGED <<page, url, error, events, clicks, hurried>>

\* The request fails: the report stays under an error.
Fail ==
  /\ request.busy
  /\ error' = TRUE
  /\ request' = Idle
  /\ UNCHANGED <<page, url, report, beside, clicks, hurried>>

\* The events arrive, or their load fails and nothing says so: the rows stay.
EventsAnswer ==
  /\ events.request.busy
  /\ \/ events' = [events EXCEPT !.rows = events.request.query, !.request = Idle]
     \/ events' = [events EXCEPT !.failed = TRUE, !.request = Idle]
  /\ UNCHANGED <<page, url, screen, notes, clicks, hurried>>

\* The notes arrive, of the repository they were asked for whatever is picked by
\* now, or their generation fails.
NotesAnswer ==
  /\ notes.request.busy
  /\ \/ notes' = [request |-> Idle, shown |-> notes.request.query,
                   stray |-> notes.request.query[1] # query.filters]
     \/ notes' = [notes EXCEPT !.request = Idle]
  /\ UNCHANGED <<page, url, screen, events, clicks, hurried>>

Next ==
  \/ Commit
  \/ \E f \in Filters : filter(f) \/ replaceQuery(f)
  \/ \E l \in Layouts : layout(l)
  \/ \E w \in Windows : turn(w) \/ turnEvents(w)
  \/ generate
  \/ \E to \in 1..Len(entries) : Walk(to)
  \/ Settle
  \/ reload
  \/ Answer
  \/ Fail
  \/ EventsAnswer
  \/ NotesAnswer

Spec == Init /\ [][Next]_vars

AtRest == ~timer /\ ~moved

\* The load is over, and an error would say that it failed.
Loaded == ~request.busy /\ ~error

\* The events are those of the filters asked for and of the window picked, unless
\* their load failed, which the page does not say.
EventsFollow ==
  "events" \in page =>
    \/ events.request.busy \/ events.failed
    \/ events.rows = <<settled.filters, events.window>>

\* The notes on screen are of the repository picked, unless they were still being
\* generated when it was picked; their range is the one they were asked for,
\* whatever the address says by now.
NotesFollow ==
  Loaded => notes.shown = NoQuestion \/ notes.shown[1] = query.filters \/ notes.stray

\* Once the page stands still, the controls show the filters that were asked
\* for and the report answers them, or an error says why not (hooks.ts:27-36);
\* the address says the same, unless the reader acted again before the filters
\* settled (urlQuery.ts:27-38); and what the page reads beside its load follows.
ScreenIsTheAddress ==
  AtRest =>
    /\ query = settled
    /\ Loaded => report = Question(query)
    /\ serialize(parse(Current)) = serialize(query) \/ hurried
    /\ EventsFollow /\ NotesFollow

\* A load's answer is to the page's latest question, and a failure is told
\* (hooks.ts:27-36), for the list below a metric as for the rest.
EventsAreTold ==
  AtRest /\ "events" \in page /\ Loaded /\ ~events.request.busy =>
    events.rows = <<query.filters, events.window>>

\* The address follows the settled value (urlQuery.ts:30-31), whatever the
\* reader does.
AddressFollows == AtRest => serialize(parse(Current)) = serialize(settled)

=============================================================================
