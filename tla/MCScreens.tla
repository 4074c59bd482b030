------------------------------ MODULE MCScreens ------------------------------
(* The pages, dialogs and readings of the front end, each on a small instance *)
(* of its own.  `which` says which part a behaviour is about and never        *)
(* changes; the variables of the other parts are at rest, and a name several  *)
(* parts have (page, clicks, calls, ...) is one variable.  Callers stands for *)
(* the requests in flight and for the administrators of each.                 *)
EXTENDS Naturals, FiniteSets, TLC

CONSTANTS
  Parts, Callers,
  Filters, Layouts, Windows, MaxClicks,             \* FilteredPage
  Slugs, Bases, MaxSources, MaxMoves,               \* Navigation
  Tabs, TableRows, MaxVersion,                      \* CataloguePage
  Attempts, JOB_SCAN_DEPTH, LIST_LIMIT, MaxTime,    \* JobsPage
  Owners, Repos, Trackers, Offered, Unlisted,       \* SourceDialog
  Users, Names, Modes, Public,                      \* Session
  Sources, MaxStarts, MaxFaults,                    \* JobWatch
  MaxCalls, MaxEdits                                \* of the requests and of the forms

VARIABLES
  which,
  query, settled, timer, entries, pos, lastWritten, replaceNext, request, report, error, events,
  notes, hurried,
  sources, list, loaded, reading, path, lastSlug, landed, moves, behind,
  rows, tab, window, msg,
  clock, read, retrying,
  editor,
  stored, credential, hookSecret, open, repos, selected, asked, unissued,
  session, account, state, override,
  starting, following, round, starts, faults, ended, split, lost,
  page, clicks, moved, shown, dialog, calls, excused, job, row, edits, form, touched  \* of several

CallerSymmetry == Permutations(Callers)

Report == INSTANCE FilteredPage
Addresses == INSTANCE Navigation
Catalogue == INSTANCE CataloguePage WITH Calls <- Callers, MaxClicks <- MaxCalls,
                                       Ids <- TableRows
Queue == INSTANCE JobsPage WITH Jobs <- Callers
Rows == INSTANCE RowDialogs WITH Editors <- Callers
Source == INSTANCE SourceDialog
Reader == INSTANCE Session WITH Calls <- Callers, MaxClicks <- MaxCalls
Follower == INSTANCE JobWatch WITH Rounds <- Callers

-----------------------------------------------------------------------------
\* The variables of each part that no other part has.
ofReport == <<query, settled, timer, entries, pos, lastWritten, replaceNext, request, report,
              error, events, notes, hurried>>
ofAddresses == <<sources, list, loaded, reading, path, lastSlug, landed, moves, behind>>
ofCatalogue == <<rows, tab, window, msg>>
ofQueue == <<clock, read, retrying>>
ofSource == <<stored, credential, hookSecret, open, repos, selected, asked, unissued>>
ofReader == <<session, account, state, override>>
ofFollower == <<starting, following, round, starts, faults, ended, split, lost>>
all == <<which, ofReport, ofAddresses, ofCatalogue, ofQueue, editor, ofSource, ofReader,
         ofFollower, page, clicks, moved, shown, dialog, calls, excused, job, row, edits, form,
         touched>>

NoReport == /\ query = 0 /\ settled = 0 /\ timer = 0 /\ entries = 0 /\ pos = 0 /\ lastWritten = 0
            /\ replaceNext = 0 /\ request = 0 /\ report = 0 /\ error = 0 /\ events = 0 /\ notes = 0
            /\ hurried = 0
NoAddresses == /\ sources = 0 /\ list = 0 /\ loaded = 0 /\ reading = 0 /\ path = 0 /\ lastSlug = 0
               /\ landed = 0 /\ moves = 0 /\ behind = 0
NoCatalogue == rows = 0 /\ tab = 0 /\ window = 0 /\ msg = 0
NoQueue == clock = 0 /\ read = 0 /\ retrying = 0
NoSource == /\ stored = 0 /\ credential = 0 /\ hookSecret = 0 /\ open = 0 /\ repos = 0
            /\ selected = 0 /\ asked = 0 /\ unissued = 0
NoReader == session = 0 /\ account = 0 /\ state = 0 /\ override = 0
NoFollower == /\ starting = 0 /\ following = 0 /\ round = 0 /\ starts = 0 /\ faults = 0
              /\ ended = 0 /\ split = 0 /\ lost = 0

Start ==
  /\ IF which = "report" THEN Report!Init ELSE NoReport
  /\ IF which = "navigation" THEN Addresses!Init ELSE NoAddresses
  /\ IF which = "catalogue" THEN Catalogue!Init ELSE NoCatalogue
  /\ IF which = "queue" THEN Queue!Init ELSE NoQueue
  /\ IF which = "rows" THEN Rows!Init ELSE editor = 0
  /\ IF which = "source" THEN Source!Init ELSE NoSource
  /\ IF which = "session" THEN Reader!Init ELSE NoReader
  /\ IF which = "jobs" THEN Follower!Init ELSE NoFollower
  /\ IF which \in {"report", "catalogue"} THEN TRUE ELSE page = 0
  /\ IF which \in {"report", "catalogue", "session"} THEN TRUE ELSE clicks = 0
  /\ IF which \in {"report", "queue"} THEN TRUE ELSE moved = 0
  /\ IF which \in {"catalogue", "queue"} THEN TRUE ELSE shown = 0
  /\ IF which \in {"catalogue", "rows"} THEN TRUE ELSE dialog = 0
  /\ IF which \in {"catalogue", "session"} THEN TRUE ELSE calls = 0 /\ excused = 0
  /\ IF which \in {"queue", "jobs"} THEN TRUE ELSE job = 0
  /\ IF which \in {"rows", "jobs"} THEN TRUE ELSE row = 0
  /\ IF which \in {"rows", "source"} THEN TRUE ELSE edits = 0
  /\ IF which \in {"source", "session"} THEN TRUE ELSE form = 0 /\ touched = 0

MCInit == which \in Parts /\ Start

Screen ==
  \/ /\ which = "report" /\ Report!Next
     /\ UNCHANGED <<ofAddresses, ofCatalogue, ofQueue, editor, ofSource, ofReader, ofFollower,
                    shown, dialog, calls, excused, job, row, edits, form, touched>>
  \/ /\ which = "navigation" /\ Addresses!Next
     /\ UNCHANGED <<ofReport, ofCatalogue, ofQueue, editor, ofSource, ofReader, ofFollower, page,
                    clicks, moved, shown, dialog, calls, excused, job, row, edits, form, touched>>
  \/ /\ which = "catalogue" /\ Catalogue!Next
     /\ UNCHANGED <<ofReport, ofAddresses, ofQueue, editor, ofSource, ofReader, ofFollower, moved,
                    job, row, edits, form, touched>>
  \/ /\ which = "queue" /\ Queue!Next
     /\ UNCHANGED <<ofReport, ofAddresses, ofCatalogue, editor, ofSource, ofReader, ofFollower,
                    page, clicks, dialog, calls, excused, row, edits, form, touched>>
  \/ /\ which = "rows" /\ Rows!Next
     /\ UNCHANGED <<ofReport, ofAddresses, ofCatalogue, ofQueue, ofSource, ofReader, ofFollower,
                    page, clicks, moved, shown, calls, excused, job, form, touched>>
  \/ /\ which = "source" /\ Source!Next
     /\ UNCHANGED <<ofReport, ofAddresses, ofCatalogue, ofQueue, editor, ofReader, ofFollower,
                    page, clicks, moved, shown, dialog, calls, excused, job, row>>
  \/ /\ which = "session" /\ Reader!Next
     /\ UNCHANGED <<ofReport, ofAddresses, ofCatalogue, ofQueue, editor, ofSource, ofFollower,
                    page, moved, shown, dialog, job, row, edits>>
  \/ /\ which = "jobs" /\ Follower!Next
     /\ UNCHANGED <<ofReport, ofAddresses, ofCatalogue, ofQueue, editor, ofSource, ofReader, page,
                    clicks, moved, shown, dialog, calls, excused, edits, form, touched>>

MCNext == Screen /\ UNCHANGED which

MCSpec == MCInit /\ [][MCNext]_all

-----------------------------------------------------------------------------
\* What a report page shows answers the question its address spells
\* (FilteredPage), and every link it offers leads to a source that is there
\* (Navigation).
ScreenIsTheAddress ==
  /\ which = "report" => Report!ScreenIsTheAddress
  /\ which = "navigation" => Addresses!LinksLeadSomewhere

\* A list at rest is what the tables hold (CataloguePage), the session on
\* screen is the server's (Session), and a run is reported as it ended
\* (JobWatch) - unless answers crossed.
AnswersAreCurrent ==
  /\ which = "catalogue" => Catalogue!ListIsCurrent
  /\ which = "session" => Reader!ScreenIsTheSessions
  /\ which = "jobs" => Follower!OutcomeIsTheRuns

\* A source the dialog saved can be read with what was saved (SourceDialog).
SavedIsUsable == which = "source" => Source!SavedIsUsable

\* Saving a row changes the fields the reader edited and no other (RowDialogs).
FormsTouchOnly == [][which = "rows" => Rows!SaveTouchesOnly]_all

\* Every load of the jobs page during which nothing moved shows each list as the
\* queue holds it, up to a page (JobsPage).
QuietLoadIsWhole == [][which = "queue" => Queue!QuietPageIsWhole]_all
============================================================================
