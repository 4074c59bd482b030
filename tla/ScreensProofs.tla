--------------------------- MODULE ScreensProofs ---------------------------
(***************************************************************************)
(* What the run of MCScreens checks on small instances, proved for every   *)
(* value of the constants: each screen as a theorem about its instance in  *)
(* MCScreens, and last the properties of the run, put together from those  *)
(* theorems.                                                               *)
(***************************************************************************)
EXTENDS MCScreens, Sequences, FiniteSetTheorems, TLAPS

-----------------------------------------------------------------------------
(* A report and its address.                                               *)

\* What the controls of a page can show.
Controls == [filters: Filters, layout: Layouts, window: Windows \cup {0}]

ReportTypes ==
  /\ page \in Report!Pages
  /\ query \in Controls /\ settled \in Controls
  /\ entries \in Seq(Report!Addresses) /\ pos \in 1 .. Len(entries)
  /\ timer \in BOOLEAN /\ replaceNext \in BOOLEAN /\ moved \in BOOLEAN
  /\ error \in BOOLEAN /\ hurried \in BOOLEAN

\* What the requests of a page are about: what its controls show, or what stood
\* still.
Sought == IF "at once" \in page THEN query ELSE settled

ReportAnswers ==
  /\ ~timer => query = settled
  /\ request.busy \in BOOLEAN
  /\ request.busy => request.query = Report!Question(Sought)
  /\ ~request.busy /\ ~error => report = Report!Question(Sought)

\* What an address says, spelled as the page spells it.
Canonical(address) == Report!serialize(Report!parse(address))

\* The address, what the page knows of it and what stood still agree as far as
\* the events in flight allow.
ReportAddress ==
  \/ hurried
  \/ /\ ~timer /\ ~moved
     /\ lastWritten = Report!Current
     /\ Canonical(Report!Current) = Report!serialize(settled)
  \/ ~timer /\ moved /\ Canonical(lastWritten) = Report!serialize(settled)
  \/ timer /\ moved /\ Report!Current = Report!serialize(settled)
  \/ /\ timer /\ ~moved
     /\ lastWritten = Report!Current
     /\ \/ Canonical(Report!Current) = Report!serialize(query)
        \/ Canonical(Report!Current) = Report!serialize(settled)

ReportInv == ReportTypes /\ ReportAnswers /\ ReportAddress

\* What a load beside the page's own asks for, and brings.
EventsAsk == {Report!NoQuestion} \cup (Filters \X (Windows \cup {0}))
NotesAsk == {Report!NoQuestion} \cup (Filters \X Layouts)
EventsTypes == [window: Windows \cup {0}, rows: EventsAsk, failed: BOOLEAN,
                request: [busy: BOOLEAN, query: EventsAsk]]
NotesTypes == [shown: NotesAsk, stray: BOOLEAN, request: [busy: BOOLEAN, query: NotesAsk]]

\* What is asked for of the events is what stood still and the window picked.
EventsAreAnswered ==
  LET same == <<settled.filters, events.window>>
  IN /\ events.request.busy => events.request.query = same
     /\ events.request.busy \/ events.failed \/ events.rows = same

\* The notes are those of the repository picked, or a pick puts them away.
NotesAreAnswered ==
  request.busy \/ error \/ notes.shown = Report!NoQuestion
    \/ notes.shown[1] = query.filters \/ notes.stray

ReportBeside ==
  /\ events \in EventsTypes /\ notes \in NotesTypes
  /\ "events" \in page => EventsAreAnswered
  /\ IF "notes" \in page THEN NotesAreAnswered
                        ELSE notes.shown = Report!NoQuestion /\ ~notes.request.busy

\* The page's own spelling of an address is its canonical one, and an address
\* that was read is spelled by what was read.
LEMMA SpellingIsCanonical ==
  /\ \A q : Canonical(Report!serialize(q)) = Report!serialize(q)
  /\ \A q \in Controls : Report!serialize(q) \in Report!Addresses
  /\ \A a \in Report!Addresses : Report!parse(a) \in Controls
<1>1. ASSUME NEW q  PROVE Canonical(Report!serialize(q)) = Report!serialize(q)
  BY DEF Canonical, Report!serialize, Report!parse
<1>2. ASSUME NEW q \in Controls  PROVE Report!serialize(q) \in Report!Addresses
  BY DEF Controls, Report!serialize, Report!Addresses
<1>3. ASSUME NEW a \in Report!Addresses  PROVE Report!parse(a) \in Controls
  BY DEF Controls, Report!parse, Report!Addresses
<1> QED  BY <1>1, <1>2, <1>3

\* An address that is written is the one shown next, whether it was added to the
\* history or amended its last entry.
LEMMA WrittenIsCurrent ==
  ASSUME NEW address \in Report!Addresses,
         entries \in Seq(Report!Addresses), pos \in 1 .. Len(entries),
         NEW at, at = IF ~replaceNext THEN pos + 1 ELSE pos
  PROVE  /\ Report!Written(address) \in Seq(Report!Addresses)
         /\ at \in 1 .. Len(Report!Written(address))
         /\ Report!Written(address)[at] = address
<1>1. CASE replaceNext
  <2>1. Report!Written(address) = [entries EXCEPT ![pos] = address] /\ at = pos
    BY <1>1 DEF Report!Written
  <2>2. entries \in [1 .. Len(entries) -> Report!Addresses] /\ Len(entries) \in Nat
    OBVIOUS
  <2>3. [entries EXCEPT ![pos] = address] \in [1 .. Len(entries) -> Report!Addresses]
    BY <2>2
  <2>4. [entries EXCEPT ![pos] = address][pos] = address
    BY <2>2
  <2> QED  BY <2>1, <2>2, <2>3, <2>4
<1>2. CASE ~replaceNext
  <2> DEFINE before == SubSeq(entries, 1, pos)
  <2>1. before \in Seq(Report!Addresses) /\ Len(before) = pos
    OBVIOUS
  <2>2. Report!Written(address) = Append(before, address) /\ at = pos + 1
    BY <1>2 DEF Report!Written
  <2> HIDE DEF before
  <2> QED  BY <2>1, <2>2
<1> QED  BY <1>1, <1>2

\* A load is for what is sought, and nothing else changes what is on screen.
LEMMA AskAtOnceAnswers ==
  ASSUME ReportAnswers, NEW q, Report!AskAtOnce(q), query' = q,
         UNCHANGED <<page, settled, report>>, error \in BOOLEAN
  PROVE  /\ request'.busy \in BOOLEAN /\ error' \in BOOLEAN
         /\ request'.busy => request'.query = Report!Question(Sought')
         /\ ~request'.busy /\ ~error' => report' = Report!Question(Sought')
<1>1. CASE "at once" \in page /\ Report!Question(q) # Report!Question(query)
  <2>1. request' = [busy |-> TRUE, query |-> Report!Question(q)] /\ error' = FALSE
    BY <1>1 DEF Report!AskAtOnce, Report!Asked
  <2>2. Sought' = q
    BY <1>1 DEF Sought
  <2> QED  BY <2>1, <2>2
<1>2. CASE ~("at once" \in page /\ Report!Question(q) # Report!Question(query))
  <2>1. UNCHANGED <<request, error>>
    BY <1>2 DEF Report!AskAtOnce
  <2>2. Report!Question(Sought') = Report!Question(Sought)
    BY <1>2 DEF Sought
  <2> QED  BY <2>1, <2>2 DEF ReportAnswers
<1> QED  BY <1>1, <1>2

\* A page loads again by itself, or as soon as a control moves, not both; and
\* the release notes load as soon as their repository is picked.
LEMMA PagesLoadOneWay ==
  ASSUME page \in Report!Pages
  PROVE  /\ ~("at once" \in page /\ "refreshes" \in page)
         /\ "notes" \in page => "at once" \in page
BY DEF Report!Pages, Report!OverviewPage, Report!DeploymentsPage, Report!ChangelogsPage,
       Report!DoraPage, Report!DoraMetricPage, Report!ReleaseNotesPage

\* The effects after the address moved keep the invariant: the write comes first,
\* and the address that is read is the one the page was rendered with.
LEMMA CommitKeeps ==
  ASSUME ReportInv, Report!Commit
  PROVE  ReportInv'
<1> DEFINE wanted == Report!serialize(settled)
           writes == wanted # lastWritten
           known  == IF writes THEN wanted ELSE lastWritten
           reads  == Report!Current # known
<1>1. /\ ReportTypes /\ ReportAnswers /\ ReportAddress
      /\ Report!Current \in Report!Addresses /\ wanted \in Report!Addresses
      /\ Canonical(wanted) = wanted
  BY SpellingIsCanonical DEF ReportInv, ReportTypes, Report!Current
<1>2. /\ moved
      /\ entries' = IF writes THEN Report!Written(wanted) ELSE entries
      /\ pos' = IF writes /\ ~replaceNext THEN pos + 1 ELSE pos
      /\ replaceNext' = (replaceNext /\ ~writes)
      /\ lastWritten' = Report!Known(known)
      /\ query' = IF reads THEN Report!parse(Report!Current) ELSE query
      /\ timer' = (timer \/ reads)
      /\ moved' = (writes /\ wanted # Report!Current)
      /\ Report!AskAtOnce(query')
      /\ UNCHANGED <<page, settled, report, clicks, hurried>>
  BY Zenon DEF Report!Commit
<1>3. lastWritten' = Report!Current
  BY <1>2 DEF Report!Known
<1>4. /\ entries' \in Seq(Report!Addresses) /\ pos' \in 1 .. Len(entries')
      /\ Report!Current' = IF writes THEN wanted ELSE Report!Current
  <2>1. CASE writes
    <3> DEFINE at == IF ~replaceNext THEN pos + 1 ELSE pos
    <3>1. /\ Report!Written(wanted) \in Seq(Report!Addresses)
          /\ at \in 1 .. Len(Report!Written(wanted))
          /\ Report!Written(wanted)[at] = wanted
      <4> HIDE DEF wanted
      <4> QED  BY <1>1, WrittenIsCurrent DEF ReportTypes
    <3>2. entries' = Report!Written(wanted) /\ pos' = at
      BY <1>2, <2>1
    <3> QED  BY <2>1, <3>1, <3>2 DEF Report!Current
  <2>2. CASE ~writes
    BY <1>1, <1>2, <2>2 DEF ReportTypes, Report!Current
  <2> QED  BY <2>1, <2>2
<1>5. query' \in Controls
  BY <1>1, <1>2, SpellingIsCanonical DEF ReportTypes
<1>6. ReportAnswers'
  <2>1. /\ request'.busy \in BOOLEAN /\ error' \in BOOLEAN
        /\ request'.busy => request'.query = Report!Question(Sought')
        /\ ~request'.busy /\ ~error' => report' = Report!Question(Sought')
    BY <1>1, <1>2, AskAtOnceAnswers DEF ReportTypes
  <2>2. ~timer' => query' = settled'
    <3> HIDE DEF reads
    <3> QED  BY <1>1, <1>2 DEF ReportAnswers
  <2> QED  BY <2>1, <2>2 DEF ReportAnswers
<1>7. ReportTypes'
  <2>1. error' \in BOOLEAN
    BY <1>1, <1>2, AskAtOnceAnswers DEF ReportTypes
  <2>2. timer' \in BOOLEAN /\ replaceNext' \in BOOLEAN /\ moved' \in BOOLEAN
    <3> HIDE DEF reads, writes
    <3> QED  BY <1>1, <1>2, Zenon DEF ReportTypes
  <2> QED  BY <1>1, <1>2, <1>4, <1>5, <2>1, <2>2 DEF ReportTypes
<1>8. ReportAddress'
  <2> DEFINE C == Report!Current
             S == Report!serialize(settled)
  <2>1. CASE hurried
    BY <1>2, <2>1 DEF ReportAddress
  <2>2. CASE timer /\ C = S
    <3>1. ~reads /\ C' = S /\ lastWritten' = S /\ timer' /\ ~moved' /\ S' = S
      BY <1>2, <1>3, <1>4, <2>2
    <3> QED  BY <1>1, <3>1 DEF ReportAddress
  <2>3. CASE ~timer /\ reads /\ writes
    <3>1. timer' /\ C' = S /\ S' = S
      BY <1>2, <1>4, <2>3
    <3>2. moved'
      BY <1>2, <2>3
    <3> QED  BY <3>1, <3>2 DEF ReportAddress
  <2>4. CASE ~timer /\ reads /\ ~writes
    <3>1. timer' /\ ~moved' /\ C' = C /\ lastWritten' = C' /\ query' = Report!parse(C)
      BY <1>2, <1>3, <1>4, <2>4
    <3>2. Canonical(C') = Report!serialize(query')
      BY <3>1 DEF Canonical
    <3> QED  BY <3>1, <3>2 DEF ReportAddress
  <2>5. CASE ~timer /\ ~reads
    <3>1. C = S
      BY <2>5
    <3>2. ~timer' /\ ~moved' /\ C' = S /\ lastWritten' = C' /\ S' = S
      BY <1>2, <1>3, <1>4, <2>5, <3>1
    <3> QED  BY <1>1, <3>2 DEF ReportAddress
  <2>6. timer => hurried \/ C = S
    BY <1>1, <1>2 DEF ReportAddress
  <2> QED  BY <1>1, <2>1, <2>2, <2>3, <2>4, <2>5, <2>6 DEF ReportTypes
<1> QED  BY <1>6, <1>7, <1>8 DEF ReportInv

\* The filters stood still: they are asked for and written.
LEMMA SettleKeeps ==
  ASSUME ReportInv, Report!Settle
  PROVE  ReportInv'
<1> DEFINE wanted == Report!serialize(query)
           writes == wanted # lastWritten /\ wanted # Report!serialize(settled)
<1>1. /\ ReportTypes /\ ReportAnswers /\ ReportAddress
      /\ Report!Current \in Report!Addresses /\ wanted \in Report!Addresses
      /\ Canonical(wanted) = wanted
  BY SpellingIsCanonical DEF ReportInv, ReportTypes, Report!Current
<1>2. /\ timer /\ ~moved /\ timer' = FALSE /\ settled' = query
      /\ entries' = IF writes THEN Report!Written(wanted) ELSE entries
      /\ pos' = IF writes /\ ~replaceNext THEN pos + 1 ELSE pos
      /\ replaceNext' = (replaceNext /\ ~writes)
      /\ lastWritten' = IF writes THEN wanted ELSE lastWritten
      /\ moved' = (writes /\ wanted # Report!Current)
      /\ \/ /\ "at once" \in page \/ Report!Question(query) = Report!Question(settled)
            /\ UNCHANGED <<request, error>>
         \/ "at once" \notin page /\ request' = Report!Asked(query) /\ error' = FALSE
      /\ UNCHANGED <<page, query, report, clicks, hurried>>
  BY Zenon DEF Report!Settle
<1>3. /\ entries' \in Seq(Report!Addresses) /\ pos' \in 1 .. Len(entries')
      /\ Report!Current' = IF writes THEN wanted ELSE Report!Current
  <2>1. CASE writes
    <3> DEFINE at == IF ~replaceNext THEN pos + 1 ELSE pos
    <3>1. /\ Report!Written(wanted) \in Seq(Report!Addresses)
          /\ at \in 1 .. Len(Report!Written(wanted))
          /\ Report!Written(wanted)[at] = wanted
      <4> HIDE DEF wanted
      <4> QED  BY <1>1, WrittenIsCurrent DEF ReportTypes
    <3>2. entries' = Report!Written(wanted) /\ pos' = at
      BY <1>2, <2>1
    <3> QED  BY <2>1, <3>1, <3>2 DEF Report!Current
  <2>2. CASE ~writes
    BY <1>1, <1>2, <2>2 DEF ReportTypes, Report!Current
  <2> QED  BY <2>1, <2>2
<1>4. ReportTypes'
  <2>1. error' \in BOOLEAN
    BY <1>1, <1>2 DEF ReportTypes
  <2>2. replaceNext' \in BOOLEAN /\ moved' \in BOOLEAN
    <3> HIDE DEF writes
    <3> QED  BY <1>1, <1>2, Zenon DEF ReportTypes
  <2> QED  BY <1>1, <1>2, <1>3, <2>1, <2>2 DEF ReportTypes
<1>5. ReportAnswers'
  <2>1. CASE /\ "at once" \in page \/ Report!Question(query) = Report!Question(settled)
             /\ UNCHANGED <<request, error>>
    <3>1. Report!Question(Sought') = Report!Question(Sought)
      BY <1>2, <2>1 DEF Sought
    <3> QED  BY <1>1, <1>2, <2>1, <3>1 DEF ReportAnswers
  <2>2. CASE "at once" \notin page /\ request' = Report!Asked(query) /\ error' = FALSE
    <3>1. Sought' = query
      BY <1>2, <2>2 DEF Sought
    <3>2. request' = [busy |-> TRUE, query |-> Report!Question(query)]
      BY <2>2 DEF Report!Asked
    <3> QED  BY <1>2, <3>1, <3>2 DEF ReportAnswers
  <2> QED  BY <1>2, <2>1, <2>2
<1>6. ReportAddress'
  <2> DEFINE C == Report!Current
  <2>1. CASE hurried
    BY <1>2, <2>1 DEF ReportAddress
  <2>2. CASE ~hurried
    <3>1. /\ lastWritten = C
          /\ \/ Canonical(C) = wanted
             \/ Canonical(C) = Report!serialize(settled)
      BY <1>1, <1>2, <2>2 DEF ReportAddress
    <3>2. ~timer' /\ Report!serialize(settled') = wanted
      BY <1>2
    <3>3. CASE writes
      <4>1. moved' /\ lastWritten' = wanted
        BY <1>2, <3>1, <3>3
      <4> QED  BY <1>1, <3>2, <4>1 DEF ReportAddress
    <3>4. CASE ~writes
      <4>1. ~moved' /\ lastWritten' = C /\ C' = C
        BY <1>2, <1>3, <3>1, <3>4
      <4>2. Canonical(C) = wanted
        BY <1>1, <3>1, <3>4
      <4> QED  BY <3>2, <4>1, <4>2 DEF ReportAddress
    <3> QED  BY <3>3, <3>4
  <2> QED  BY <2>1, <2>2
<1> QED  BY <1>4, <1>5, <1>6 DEF ReportInv

\* A control that moves starts the debounce; one that moves again before it ran
\* out is in a hurry.
LEMMA ControlKeeps ==
  ASSUME ReportInv, NEW q \in Controls, Report!Click, query' = q, timer' = TRUE,
         Report!AskAtOnce(q), replaceNext' \in BOOLEAN,
         UNCHANGED <<settled, entries, pos, lastWritten, moved, report>>
  PROVE  ReportInv'
<1>1. ReportTypes /\ ReportAnswers /\ ReportAddress
  BY DEF ReportInv
<1>2. ~moved /\ hurried' = (hurried \/ timer) /\ page' = page
  BY DEF Report!Click
<1>3. /\ request'.busy \in BOOLEAN /\ error' \in BOOLEAN
      /\ request'.busy => request'.query = Report!Question(Sought')
      /\ ~request'.busy /\ ~error' => report' = Report!Question(Sought')
  BY <1>1, <1>2, AskAtOnceAnswers DEF ReportTypes
<1>4. ReportTypes'
  <2>1. hurried' \in BOOLEAN
    BY <1>1, <1>2 DEF ReportTypes
  <2> QED  BY <1>1, <1>2, <1>3, <2>1 DEF ReportTypes
<1>5. ReportAnswers'
  BY <1>3 DEF ReportAnswers
<1>6. ReportAddress'
  <2>1. CASE hurried \/ timer
    BY <1>2, <2>1 DEF ReportAddress
  <2>2. CASE ~hurried /\ ~timer
    BY <1>1, <1>2, <2>2 DEF ReportAddress, Report!Current
  <2> QED  BY <2>1, <2>2
<1> QED  BY <1>4, <1>5, <1>6 DEF ReportInv

\* A page can be arranged plainly when it can be arranged at all.
LEMMA PlainIsALayout ==
  ASSUME query \in Controls PROVE Report!Plain \in Layouts
BY DEF Controls, Report!Plain

\* A pick of another repository puts the notes away once it is answered.
LEMMA PickPutsAway ==
  ASSUME ReportTypes, ReportBeside, NEW q, query' = q, Report!AskAtOnce(q),
         UNCHANGED <<page, notes>>
  PROVE  "notes" \in page => NotesAreAnswered'
<1> SUFFICES ASSUME "notes" \in page PROVE NotesAreAnswered'
  OBVIOUS
<1>1. CASE Report!Question(q) # Report!Question(query)
  <2>1. request' = Report!Asked(q)
    BY <1>1, PagesLoadOneWay DEF Report!AskAtOnce, ReportTypes
  <2> QED  BY <2>1 DEF Report!Asked, NotesAreAnswered
<1>2. CASE Report!Question(q) = Report!Question(query)
  <2>1. UNCHANGED <<request, error>>
    BY <1>2 DEF Report!AskAtOnce
  <2>2. query'.filters = query.filters
    BY <1>2 DEF Report!Question
  <2> QED  BY <2>1, <2>2 DEF ReportBeside, NotesAreAnswered
<1> QED  BY <1>1, <1>2

\* What the page reads beside its load follows what stood still and what is
\* picked.
LEMMA BesideKeeps ==
  ASSUME ReportInv, ReportBeside, [Report!Next]_(Report!vars)
  PROVE  ReportBeside'
<1> USE DEF Report!url, Report!screen, Report!beside
<1>1. ReportTypes /\ events \in EventsTypes /\ notes \in NotesTypes
  BY DEF ReportInv, ReportBeside
<1>2. ASSUME NEW q, query' = q, Report!AskAtOnce(q), UNCHANGED <<page, settled, events, notes>>
      PROVE  ReportBeside'
  <2>1. "notes" \in page => NotesAreAnswered'
    BY <1>1, <1>2, PickPutsAway
  <2> QED  BY <1>2, <2>1 DEF ReportBeside, EventsAreAnswered
<1>3. ASSUME UNCHANGED <<page, query, settled, events, notes>>,
             UNCHANGED <<request, error>> \/ request'.busy \/ error'
      PROVE  ReportBeside'
  BY <1>3 DEF ReportBeside, EventsAreAnswered, NotesAreAnswered
<1>4. ASSUME NEW w \in Windows \cup {0}, events' = Report!EventsAsked(settled'.filters, w),
             settled'.filters \in Filters
      PROVE  events' \in EventsTypes /\ EventsAreAnswered'
  BY <1>1, <1>4 DEF Report!EventsAsked, EventsTypes, EventsAsk, EventsAreAnswered
<1>5. ASSUME Report!Settle  PROVE ReportBeside'
  <2>1. /\ settled' = query
        /\ events' = IF "events" \in page THEN Report!EventsAsked(query.filters, 0) ELSE events
        /\ UNCHANGED <<page, query, notes>>
        /\ UNCHANGED <<request, error>> \/ request' = Report!Asked(query)
    BY <1>5 DEF Report!Settle
  <2>2. query.filters \in Filters
    BY <1>1 DEF ReportTypes, Controls
  <2>3. events' \in EventsTypes /\ ("events" \in page => EventsAreAnswered')
    BY <1>1, <1>4, <2>1, <2>2
  <2>4. request'.busy \/ UNCHANGED <<request, error>>
    BY <2>1 DEF Report!Asked
  <2> QED  BY <2>1, <2>3, <2>4 DEF ReportBeside, NotesAreAnswered
<1>6. ASSUME NEW w \in Windows, Report!turnEvents(w)  PROVE ReportBeside'
  <2>1. settled'.filters \in Filters
    BY <1>1, <1>6 DEF Report!turnEvents, ReportTypes, Controls
  <2>2. events' \in EventsTypes /\ EventsAreAnswered'
    BY <1>4, <1>6, <2>1 DEF Report!turnEvents
  <2> QED  BY <1>6, <2>2 DEF Report!turnEvents, ReportBeside, NotesAreAnswered
<1>7. ASSUME Report!generate  PROVE ReportBeside'
  <2>1. <<query.filters, query.layout>> \in NotesAsk
    BY <1>1 DEF ReportTypes, Controls, NotesAsk
  <2>2. /\ notes' \in NotesTypes
        /\ UNCHANGED <<page, query, settled, events, request, error>>
        /\ notes'.shown = notes.shown /\ notes'.stray = notes.stray
    BY <1>1, <1>7, <2>1 DEF Report!generate, NotesTypes
  <2>3. "notes" \in page
    BY <1>7 DEF Report!generate
  <2> QED  BY <2>2, <2>3 DEF ReportBeside, EventsAreAnswered, NotesAreAnswered
<1>8. ASSUME Report!Answer  PROVE ReportBeside'
  <2>1. /\ notes' \in NotesTypes
        /\ UNCHANGED <<page, query, settled, events>>
        /\ notes'.shown = Report!NoQuestion /\ notes'.request = notes.request
    BY <1>1, <1>8 DEF Report!Answer, NotesTypes, NotesAsk
  <2> QED  BY <2>1 DEF ReportBeside, EventsAreAnswered, NotesAreAnswered
<1>9. ASSUME Report!EventsAnswer  PROVE ReportBeside'
  <2>1. events.request.busy /\ UNCHANGED <<page, query, settled, request, error, notes>>
    BY <1>9 DEF Report!EventsAnswer
  <2>2. Report!Idle \in [busy: BOOLEAN, query: EventsAsk] /\ ~Report!Idle.busy
    BY DEF Report!Idle, EventsAsk
  <2>3. CASE events' = [events EXCEPT !.rows = events.request.query, !.request = Report!Idle]
    <3>1. /\ events' \in EventsTypes /\ ~events'.request.busy
          /\ events'.window = events.window /\ events'.rows = events.request.query
      BY <1>1, <2>2, <2>3 DEF EventsTypes
    <3> QED  BY <2>1, <3>1 DEF ReportBeside, EventsAreAnswered, NotesAreAnswered
  <2>4. CASE events' = [events EXCEPT !.failed = TRUE, !.request = Report!Idle]
    <3>1. events' \in EventsTypes /\ ~events'.request.busy /\ events'.failed
      BY <1>1, <2>2, <2>4 DEF EventsTypes
    <3> QED  BY <2>1, <3>1 DEF ReportBeside, EventsAreAnswered, NotesAreAnswered
  <2> QED  BY <1>9, <2>3, <2>4 DEF Report!EventsAnswer
<1>10. ASSUME Report!NotesAnswer  PROVE ReportBeside'
  <2>1. UNCHANGED <<page, query, settled, request, error, events>> /\ notes.request.busy
    BY <1>10 DEF Report!NotesAnswer
  <2>2. "notes" \in page
    BY <2>1 DEF ReportBeside
  <2>3. CASE notes' = [notes EXCEPT !.request = Report!Idle]
    <3>1. notes' \in NotesTypes /\ notes'.shown = notes.shown /\ notes'.stray = notes.stray
      BY <1>1, <2>3 DEF Report!Idle, NotesTypes, NotesAsk
    <3> QED  BY <2>1, <2>2, <3>1 DEF ReportBeside, EventsAreAnswered, NotesAreAnswered
  <2>4. CASE notes' = [request |-> Report!Idle, shown |-> notes.request.query,
                        stray |-> notes.request.query[1] # query.filters]
    <3>1. notes' \in NotesTypes
      BY <1>1, <2>4 DEF Report!Idle, NotesTypes, NotesAsk
    <3>2. notes'.shown[1] = query.filters \/ notes'.stray
      BY <2>4
    <3> QED  BY <2>1, <2>2, <3>1, <3>2 DEF ReportBeside, EventsAreAnswered, NotesAreAnswered
  <2> QED  BY <1>10, <2>3, <2>4 DEF Report!NotesAnswer
<1>11. ASSUME Report!Commit  PROVE ReportBeside'
  BY <1>2, <1>11 DEF Report!Commit
<1>12. ASSUME NEW q, Report!setQuery(q)  PROVE ReportBeside'
  BY <1>2, <1>12 DEF Report!setQuery, Report!Click
<1>13. ASSUME NEW f \in Filters, Report!filter(f)  PROVE ReportBeside'
  BY <1>12, <1>13 DEF Report!filter
<1>14. ASSUME NEW f \in Filters, Report!replaceQuery(f)  PROVE ReportBeside'
  BY <1>2, <1>14 DEF Report!replaceQuery, Report!Click
<1>15. ASSUME NEW l \in Layouts, Report!layout(l)  PROVE ReportBeside'
  BY <1>12, <1>15 DEF Report!layout
<1>16. ASSUME NEW w \in Windows, Report!turn(w)  PROVE ReportBeside'
  BY <1>12, <1>16 DEF Report!turn
<1>17. ASSUME NEW to, Report!Walk(to)  PROVE ReportBeside'
  BY <1>3, <1>17 DEF Report!Walk, Report!Click
<1>18. ASSUME Report!reload  PROVE ReportBeside'
  BY <1>3, <1>18 DEF Report!reload, Report!Asked
<1>19. ASSUME Report!Fail  PROVE ReportBeside'
  BY <1>3, <1>19 DEF Report!Fail
<1>20. CASE UNCHANGED Report!vars
  BY <1>3, <1>20 DEF Report!vars
<1> QED
  BY <1>5, <1>6, <1>7, <1>8, <1>9, <1>10, <1>11, <1>13, <1>14, <1>15, <1>16, <1>17, <1>18, <1>19,
     <1>20 DEF Report!Next

\* Once a page stands still, its controls show what was asked for, the report
\* answers it, and the address says it unless the reader was in a hurry
\* (useUrlQuery, useCancellableLoad); the events of a metric are those of the
\* filters and the window unless their load failed (DoraMetricPage), and the
\* notes of a release are of the repository picked unless they were still being
\* generated when it was (ReleaseNotesPage).
THEOREM PageStaysItsAddress == Report!Spec => []Report!ScreenIsTheAddress
<1>1. Report!Init => ReportInv
  <2> SUFFICES ASSUME Report!Init PROVE ReportInv
    OBVIOUS
  <2>1. PICK address \in Report!Addresses :
          entries = <<address>> /\ lastWritten = address /\ query = Report!parse(address)
    BY DEF Report!Init
  <2>2. /\ page \in Report!Pages /\ settled = query /\ timer = FALSE /\ pos = 1
        /\ replaceNext = FALSE /\ moved = TRUE /\ error = FALSE /\ hurried = FALSE
        /\ request = [busy |-> TRUE, query |-> Report!Question(settled)]
    BY DEF Report!Init
  <2>3. ReportTypes
    <3>1. entries \in Seq(Report!Addresses) /\ pos \in 1 .. Len(entries)
      BY <2>1, <2>2
    <3>2. query \in Controls
      BY <2>1, SpellingIsCanonical
    <3> QED  BY <2>2, <3>1, <3>2 DEF ReportTypes
  <2>4. ReportAnswers
    <3>1. Sought = query
      BY <2>2 DEF Sought
    <3> QED  BY <2>2, <3>1 DEF ReportAnswers
  <2>5. ReportAddress
    BY <2>1, <2>2 DEF ReportAddress, Canonical
  <2> QED  BY <2>3, <2>4, <2>5 DEF ReportInv
<1>2. ReportInv /\ [Report!Next]_(Report!vars) => ReportInv'
  <2> SUFFICES ASSUME ReportInv, [Report!Next]_(Report!vars) PROVE ReportInv'
    OBVIOUS
  <2> USE DEF Report!url, Report!screen
  <2>1. ReportTypes /\ ReportAnswers /\ ReportAddress
    BY DEF ReportInv
  <2>2. ASSUME UNCHANGED <<page, query, settled, timer, entries, pos, lastWritten, replaceNext,
                           moved, hurried>>,
               /\ request'.busy \in BOOLEAN /\ error' \in BOOLEAN
               /\ request'.busy => request'.query = Report!Question(Sought)
               /\ ~request'.busy /\ ~error' => report' = Report!Question(Sought)
        PROVE  ReportInv'
    BY <2>1, <2>2 DEF ReportInv, ReportTypes, ReportAnswers, ReportAddress, Sought, Report!Current
  <2>2b. ASSUME UNCHANGED <<page, query, settled, timer, entries, pos, lastWritten, replaceNext,
                            moved, hurried, request, report, error>>
         PROVE  ReportInv'
    BY <2>1, <2>2, <2>2b DEF ReportTypes, ReportAnswers
  <2>3. ASSUME NEW f \in Filters, Report!filter(f)  PROVE ReportInv'
    <3> DEFINE q == [query EXCEPT !.filters = f, !.window = 0,
                                  !.layout = IF "notes" \in page THEN Report!Plain ELSE @]
    <3>1. q \in Controls
      BY <2>1, PlainIsALayout DEF ReportTypes, Controls
    <3>2. Report!setQuery(q)
      BY <2>3 DEF Report!filter
    <3> HIDE DEF q
    <3> QED  BY <2>1, <3>1, <3>2, ControlKeeps DEF Report!setQuery, ReportTypes
  <2>4. ASSUME NEW f \in Filters, Report!replaceQuery(f)  PROVE ReportInv'
    <3> DEFINE q == [query EXCEPT !.filters = f]
    <3>1. q \in Controls
      BY <2>1 DEF ReportTypes, Controls
    <3>2. /\ Report!Click /\ replaceNext' = TRUE /\ query' = q /\ timer' = TRUE
          /\ Report!AskAtOnce(q)
          /\ UNCHANGED <<settled, entries, pos, lastWritten, moved, report>>
      BY <2>4 DEF Report!replaceQuery
    <3> HIDE DEF q
    <3> QED  BY <2>1, <3>1, <3>2, ControlKeeps
  <2>5. ASSUME NEW l \in Layouts, Report!layout(l)  PROVE ReportInv'
    <3> DEFINE q == [query EXCEPT !.layout = l]
    <3>1. q \in Controls
      BY <2>1 DEF ReportTypes, Controls
    <3>2. Report!setQuery(q)
      BY <2>5 DEF Report!layout
    <3> HIDE DEF q
    <3> QED  BY <2>1, <3>1, <3>2, ControlKeeps DEF Report!setQuery, ReportTypes
  <2>6. ASSUME NEW w \in Windows, Report!turn(w)  PROVE ReportInv'
    <3> DEFINE q == [query EXCEPT !.window = w]
    <3>1. q \in Controls
      BY <2>1 DEF ReportTypes, Controls
    <3>2. Report!setQuery(q)
      BY <2>6 DEF Report!turn
    <3> HIDE DEF q
    <3> QED  BY <2>1, <3>1, <3>2, ControlKeeps DEF Report!setQuery, ReportTypes
  <2>7. ASSUME NEW to \in 1 .. Len(entries), Report!Walk(to)  PROVE ReportInv'
    <3>1. /\ ~moved /\ hurried' = (hurried \/ timer) /\ pos' = to
          /\ moved' = (entries[to] # Report!Current)
          /\ UNCHANGED <<page, query, settled, timer, entries, lastWritten, replaceNext, request,
                         report, error>>
      BY <2>7 DEF Report!Walk, Report!Click
    <3>2. ReportTypes'
      <4>1. hurried' \in BOOLEAN /\ moved' \in BOOLEAN
        BY <2>1, <3>1 DEF ReportTypes
      <4> QED  BY <2>1, <3>1, <4>1 DEF ReportTypes
    <3>3. ReportAnswers'
      BY <2>1, <3>1 DEF ReportAnswers, Sought
    <3>4. ReportAddress'
      <4>1. CASE hurried \/ timer
        BY <3>1, <4>1 DEF ReportAddress
      <4>2. CASE ~hurried /\ ~timer
        <5>1. lastWritten = Report!Current /\ Canonical(Report!Current) = Report!serialize(settled)
          BY <2>1, <3>1, <4>2 DEF ReportAddress
        <5>2. Report!Current' = entries[to]
          BY <3>1 DEF Report!Current
        <5>3. CASE entries[to] = Report!Current
          BY <3>1, <4>2, <5>1, <5>2, <5>3 DEF ReportAddress
        <5>4. CASE entries[to] # Report!Current
          BY <3>1, <4>2, <5>1, <5>4 DEF ReportAddress
        <5> QED  BY <5>3, <5>4
      <4> QED  BY <4>1, <4>2
    <3> QED  BY <3>2, <3>3, <3>4 DEF ReportInv
  <2>8. ASSUME Report!reload  PROVE ReportInv'
    <3>1. "at once" \notin page
      BY <2>1, <2>8, PagesLoadOneWay DEF Report!reload, ReportTypes
    <3>2. request' = [busy |-> TRUE, query |-> Report!Question(Sought)] /\ error' = FALSE
      BY <2>8, <3>1 DEF Report!reload, Report!Asked, Sought
    <3>3. request'.busy = TRUE /\ request'.query = Report!Question(Sought)
      BY <3>2
    <3>4. UNCHANGED <<page, query, settled, timer, entries, pos, lastWritten, replaceNext, moved,
                      hurried>>
      BY <2>8 DEF Report!reload
    <3> QED  BY <2>2, <3>2, <3>3, <3>4
  <2>9. ASSUME Report!Answer  PROVE ReportInv'
    <3>1. request'.busy = FALSE
      BY <2>9 DEF Report!Answer, Report!Idle
    <3>2. report' = Report!Question(Sought)
      BY <2>1, <2>9 DEF Report!Answer, ReportAnswers
    <3> QED  BY <2>1, <2>2, <2>9, <3>1, <3>2 DEF Report!Answer, ReportTypes
  <2>10. ASSUME Report!Fail  PROVE ReportInv'
    <3>1. request'.busy = FALSE
      BY <2>10 DEF Report!Fail, Report!Idle
    <3> QED  BY <2>2, <2>10, <3>1 DEF Report!Fail
  <2>11. CASE UNCHANGED Report!vars
    BY <2>11, <2>2b DEF Report!vars
  <2>12. ASSUME NEW w \in Windows, Report!turnEvents(w)  PROVE ReportInv'
    BY <2>2b, <2>12 DEF Report!turnEvents
  <2>13. ASSUME Report!generate  PROVE ReportInv'
    BY <2>2b, <2>13 DEF Report!generate
  <2>14. ASSUME Report!EventsAnswer \/ Report!NotesAnswer  PROVE ReportInv'
    BY <2>2b, <2>14 DEF Report!EventsAnswer, Report!NotesAnswer
  <2> QED  BY <2>3, <2>4, <2>5, <2>6, <2>7, <2>8, <2>9, <2>10, <2>11, <2>12, <2>13, <2>14,
              CommitKeeps, SettleKeeps
           DEF Report!Next
<1>3. Report!Init /\ ReportInv => ReportBeside
  <2> SUFFICES ASSUME Report!Init, ReportInv PROVE ReportBeside
    OBVIOUS
  <2>1. query.filters \in Filters /\ settled = query
    BY DEF Report!Init, ReportInv, ReportTypes, Controls
  <2>2. notes \in NotesTypes /\ notes.shown = Report!NoQuestion /\ ~notes.request.busy
    BY DEF Report!Init, Report!NoNotes, Report!Idle, NotesTypes, NotesAsk
  <2>3. events \in EventsTypes
    BY <2>1 DEF Report!Init, Report!NoEvents, Report!Idle, EventsTypes, EventsAsk
  <2>4. "events" \in page => EventsAreAnswered
    BY <2>1 DEF Report!Init, Report!NoEvents, Report!Idle, EventsAreAnswered
  <2> QED  BY <2>2, <2>3, <2>4 DEF ReportBeside, NotesAreAnswered
<1>4. ReportInv /\ ReportBeside /\ [Report!Next]_(Report!vars) => ReportBeside'
  BY BesideKeeps
<1>5. ReportInv /\ ReportBeside => Report!ScreenIsTheAddress
  <2> SUFFICES ASSUME ReportInv, ReportBeside, ~timer, ~moved
               PROVE  /\ query = settled
                      /\ ~request.busy /\ ~error => report = Report!Question(query)
                      /\ \/ Report!serialize(Report!parse(Report!Current)) = Report!serialize(query)
                         \/ hurried
                      /\ Report!EventsFollow /\ Report!NotesFollow
    BY DEF Report!ScreenIsTheAddress, Report!AtRest, Report!Loaded
  <2>1. ReportAnswers /\ ReportAddress /\ query = settled
    BY DEF ReportInv, ReportAnswers
  <2>2. Sought = query
    BY <2>1 DEF Sought
  <2>3. Report!EventsFollow
    BY DEF ReportBeside, EventsAreAnswered, Report!EventsFollow
  <2>4. Report!NotesFollow
    BY DEF ReportBeside, NotesAreAnswered, Report!NotesFollow, Report!Loaded
  <2> QED  BY <2>1, <2>2, <2>3, <2>4 DEF ReportAnswers, ReportAddress, Canonical
<1> QED  BY <1>1, <1>2, <1>3, <1>4, <1>5, PTL DEF Report!Spec

-----------------------------------------------------------------------------
(* The sources of the address.                                             *)

AddressesInv ==
  /\ sources \in Seq(Addresses!Source)
  /\ list \in Seq(Addresses!Source)
  /\ loaded /\ ~reading /\ ~behind => list = sources

\* Removing a source leaves a list of the others.
LEMMA RemovedIsAList ==
  ASSUME NEW s \in Seq(Addresses!Source), NEW i \in DOMAIN s
  PROVE  [j \in 1 .. (Len(s) - 1) |-> IF j < i THEN s[j] ELSE s[j + 1]] \in Seq(Addresses!Source)
<1> DEFINE r == [j \in 1 .. (Len(s) - 1) |-> IF j < i THEN s[j] ELSE s[j + 1]]
<1>1. Len(s) \in Nat /\ DOMAIN s = 1 .. Len(s) /\ \A j \in 1 .. Len(s) : s[j] \in Addresses!Source
  OBVIOUS
<1>2. Len(s) - 1 \in Nat
  BY <1>1
<1>3. \A j \in 1 .. (Len(s) - 1) : (IF j < i THEN s[j] ELSE s[j + 1]) \in Addresses!Source
  BY <1>1
<1> QED  BY <1>2, <1>3

\* Renaming a source, and making it the favourite or not, leaves a source.
LEMMA ChangedIsASource ==
  ASSUME NEW x \in Addresses!Source, NEW slug \in Slugs, NEW b \in BOOLEAN
  PROVE  /\ [x EXCEPT !.slug = slug] \in Addresses!Source
         /\ [x EXCEPT !.isDefault = b] \in Addresses!Source
  BY DEF Addresses!Source

\* Replacing an element leaves a sequence.
LEMMA ReplacedIsAList ==
  ASSUME NEW S, NEW s \in Seq(S), NEW i, NEW x \in S
  PROVE  [s EXCEPT ![i] = x] \in Seq(S)
<1>1. Len(s) \in Nat /\ s \in [1 .. Len(s) -> S]
  OBVIOUS
<1>2. [s EXCEPT ![i] = x] \in [1 .. Len(s) -> S]
  BY <1>1
<1> QED  BY <1>1, <1>2

\* The picker shows a listed source, if there is any.
LEMMA ActiveIsListed ==
  ASSUME list \in Seq(Addresses!Source)
  PROVE  Addresses!activeSource \in Addresses!SlugsOf(list) \/ list = <<>>
<1> DEFINE favourites == {i \in DOMAIN list : list[i].isDefault}
<1>1. list # <<>> => 1 \in DOMAIN list
  OBVIOUS
<1>2. favourites # {} => (CHOOSE i \in favourites : TRUE) \in DOMAIN list
  OBVIOUS
<1> QED  BY <1>1, <1>2 DEF Addresses!activeSource, Addresses!SlugsOf

\* Once the list was read after the last change, neither the picker nor a link
\* points at a source that is not stored, and they point at the one on screen where
\* a page is about one (activeSource, withSource).
THEOREM LinksStayTrue ==
  ASSUME MaxSources \in Nat
  PROVE  Addresses!Spec => []Addresses!LinksLeadSomewhere
<1>1. Addresses!Init => AddressesInv
  <2> SUFFICES ASSUME Addresses!Init PROVE AddressesInv
    OBVIOUS
  <2>1. PICK n \in 0 .. MaxSources : sources \in [1 .. n -> Addresses!Source]
    BY DEF Addresses!Init
  <2>2. sources \in Seq(Addresses!Source)
    BY <2>1
  <2>3. list = <<>> /\ ~loaded
    BY DEF Addresses!Init
  <2> QED  BY <2>2, <2>3 DEF AddressesInv
<1>2. AddressesInv /\ [Addresses!Next]_(Addresses!vars) => AddressesInv'
  <2> SUFFICES ASSUME AddressesInv, [Addresses!Next]_(Addresses!vars) PROVE AddressesInv'
    OBVIOUS
  <2>1. CASE UNCHANGED <<sources, list, loaded, reading, behind>>
    BY <2>1 DEF AddressesInv
  <2>2. ASSUME Addresses!refresh  PROVE AddressesInv'
    BY <2>2 DEF Addresses!refresh, AddressesInv
  <2>3. ASSUME NEW next \in Seq(Addresses!Source), Addresses!Change(next)  PROVE AddressesInv'
    BY <2>3 DEF Addresses!Change, AddressesInv
  <2>4. ASSUME NEW slug \in Slugs, Addresses!Create(slug)  PROVE AddressesInv'
    <3>1. Append(sources, [slug |-> slug, isDefault |-> FALSE]) \in Seq(Addresses!Source)
      BY DEF AddressesInv, Addresses!Source
    <3> QED  BY <2>3, <2>4, <3>1 DEF Addresses!Create
  <2>5. ASSUME NEW i \in DOMAIN sources, NEW slug \in Slugs, Addresses!Rename(i, slug)
        PROVE  AddressesInv'
    <3> DEFINE x == [sources[i] EXCEPT !.slug = slug]
               r == [sources EXCEPT ![i] = x]
    <3>1. sources[i] \in Addresses!Source
      BY DEF AddressesInv
    <3>2. x \in Addresses!Source
      BY <3>1, ChangedIsASource
    <3>3. r = [sources EXCEPT ![i].slug = slug]
      OBVIOUS
    <3>4. Addresses!Change(r)
      BY <2>5, <3>3 DEF Addresses!Rename
    <3>5. r \in Seq(Addresses!Source)
      <4> HIDE DEF x
      <4> QED  BY <3>2, ReplacedIsAList DEF AddressesInv
    <3> HIDE DEF r
    <3> QED  BY <2>3, <3>4, <3>5
  <2>6. ASSUME NEW i \in DOMAIN sources, Addresses!Remove(i)  PROVE AddressesInv'
    <3> DEFINE r == [j \in 1 .. (Len(sources) - 1) |-> IF j < i THEN sources[j] ELSE sources[j + 1]]
    <3>1. r \in Seq(Addresses!Source)
      BY RemovedIsAList DEF AddressesInv
    <3>2. Addresses!Change(r)
      BY <2>6 DEF Addresses!Remove
    <3> HIDE DEF r
    <3> QED  BY <2>3, <3>1, <3>2
  <2>7. ASSUME NEW i \in DOMAIN sources, Addresses!MakeDefault(i)  PROVE AddressesInv'
    <3> DEFINE r == [j \in DOMAIN sources |-> [sources[j] EXCEPT !.isDefault = (j = i)]]
    <3>1. \A j \in DOMAIN sources : [sources[j] EXCEPT !.isDefault = (j = i)] \in Addresses!Source
      <4> SUFFICES ASSUME NEW j \in DOMAIN sources
                   PROVE  [sources[j] EXCEPT !.isDefault = (j = i)] \in Addresses!Source
        OBVIOUS
      <4>1. sources[j] \in Addresses!Source
        BY DEF AddressesInv
      <4>2. (j = i) \in BOOLEAN
        OBVIOUS
      <4>3. ASSUME NEW b \in BOOLEAN
            PROVE  [sources[j] EXCEPT !.isDefault = b] \in Addresses!Source
        BY <4>1 DEF Addresses!Source
      <4> QED  BY <4>2, <4>3, Zenon
    <3>2. r \in Seq(Addresses!Source)
      BY <3>1 DEF AddressesInv
    <3>3. Addresses!Change(r)
      BY <2>7 DEF Addresses!MakeDefault
    <3> HIDE DEF r
    <3> QED  BY <2>3, <3>2, <3>3
  <2>8. ASSUME \/ Addresses!OpenSettings \/ Addresses!FirstSource \/ Addresses!SourcePage
               \/ \E base \in Bases : Addresses!withSource(base)
               \/ \E base \in Bases, slug \in Slugs \cup {Addresses!NoSlug} :
                    Addresses!Visit(base, slug)
               \/ \E slug \in Slugs : Addresses!changeSource(slug)
        PROVE  AddressesInv'
    BY <2>1, <2>8 DEF Addresses!OpenSettings, Addresses!FirstSource, Addresses!SourcePage,
       Addresses!withSource, Addresses!Visit, Addresses!changeSource
  <2> QED  BY <2>1, <2>2, <2>4, <2>5, <2>6, <2>7, <2>8 DEF Addresses!Next, Addresses!vars
<1>3. AddressesInv => Addresses!LinksLeadSomewhere
  <2> SUFFICES ASSUME AddressesInv, Addresses!AtRest, ~behind
               PROVE  /\ Addresses!activeSource \in Addresses!SlugsOf(sources) \/ sources = <<>>
                      /\ path.slug # Addresses!NoSlug => path.slug = Addresses!activeSource
    BY DEF Addresses!LinksLeadSomewhere
  <2>1. list = sources /\ list \in Seq(Addresses!Source)
    BY DEF AddressesInv, Addresses!AtRest
  <2>2. path.slug \in Addresses!SlugsOf(list) \cup {Addresses!NoSlug}
    BY DEF Addresses!AtRest
  <2>3. path.slug # Addresses!NoSlug => path.slug = Addresses!activeSource
    BY <2>2 DEF Addresses!activeSource
  <2> QED  BY <2>1, <2>3, ActiveIsListed
<1> QED  BY <1>1, <1>2, <1>3, PTL DEF Addresses!Spec

-----------------------------------------------------------------------------
(* The administration pages.                                               *)

\* A call is a record of its five fields.
IsCall(r) == DOMAIN r = {"kind", "id", "q", "stage", "answer"}

CallsAreCalls ==
  /\ calls = [c \in Callers |-> calls[c]]
  /\ \A c \in Callers : IsCall(calls[c])

\* What the page asks for now, answered now.
Fresh == Catalogue!Listed(Catalogue!Here)

\* What the one call in flight may say while nothing has crossed: a list asks the
\* page's own question and answers it, and a write that has not been made known
\* has changed nothing.
CallIsCurrent(c) ==
  /\ calls[c].kind = "list" =>
       /\ calls[c].q = Catalogue!Here
       /\ calls[c].stage = "done" => calls[c].answer = Fresh
  /\ calls[c].kind # "list" /\ calls[c].stage # "done" => shown = Fresh

CatalogueInv ==
  /\ CallsAreCalls
  /\ ~excused =>
       /\ Catalogue!Quiet => shown = Fresh
       /\ \A c \in Callers : ~Catalogue!Free(c) => Catalogue!Alone(c) /\ CallIsCurrent(c)

\* A call that is sent.
LEMMA SentParts ==
  ASSUME NEW k, NEW i, NEW p
  PROVE  LET s == Catalogue!Sent(k, i, p)
         IN IsCall(s) /\ s.kind = k /\ s.q = p /\ s.stage = "sent" /\ (k # "idle" => s # Catalogue!Idle)
BY DEF Catalogue!Sent, Catalogue!Idle, IsCall

\* The absence of a call.
LEMMA IdleParts == IsCall(Catalogue!Idle) /\ Catalogue!Idle.stage = "idle" /\ Catalogue!Idle.kind = "idle"
BY DEF Catalogue!Idle, IsCall

\* Changing one call.
LEMMA OneCall ==
  ASSUME CallsAreCalls, NEW c \in Callers, NEW r, IsCall(r), calls' = [calls EXCEPT ![c] = r]
  PROVE  CallsAreCalls' /\ calls'[c] = r /\ \A d \in Callers \ {c} : calls'[d] = calls[d]
BY DEF CallsAreCalls, IsCall

\* The answer to the page's question moves with the table and the question only.
LEMMA FreshStays ==
  ASSUME UNCHANGED <<page, rows, tab, window>>
  PROVE  Fresh' = Fresh /\ Catalogue!Here' = Catalogue!Here
BY DEF Fresh, Catalogue!Here, Catalogue!Listed, Catalogue!Stored

\* A request started while the page was quiet: a list of what the page asks for
\* from now on, or a write.
LEMMA StartKeeps ==
  ASSUME CatalogueInv, NEW c \in Callers, NEW k \in {"list", "save", "act", "remove"}, NEW i, NEW p,
         Catalogue!Free(c), calls' = [calls EXCEPT ![c] = Catalogue!Sent(k, i, p)],
         ~excused' => /\ Catalogue!Quiet
                      /\ k = "list" => p = Catalogue!Here'
                      /\ k # "list" => shown' = Fresh'
  PROVE  CatalogueInv'
<1> DEFINE s == Catalogue!Sent(k, i, p)
<1>1. IsCall(s) /\ s.kind = k /\ s.q = p /\ s.stage = "sent" /\ s # Catalogue!Idle
  BY SentParts
<1> HIDE DEF s
<1>2. CallsAreCalls' /\ calls'[c] = s /\ \A d \in Callers \ {c} : calls'[d] = calls[d]
  BY <1>1, OneCall DEF CatalogueInv, s
<1>3. ~Catalogue!Quiet'
  BY <1>1, <1>2 DEF Catalogue!Quiet, Catalogue!Free
<1>4. ASSUME ~excused', NEW d \in Callers, ~Catalogue!Free(d)'
      PROVE  Catalogue!Alone(d)' /\ CallIsCurrent(d)'
  <2>1. d = c /\ Catalogue!Alone(c)'
    BY <1>2, <1>4 DEF Catalogue!Quiet, Catalogue!Free, Catalogue!Alone
  <2> QED  BY <1>1, <1>2, <1>4, <2>1 DEF CallIsCurrent
<1> QED  BY <1>2, <1>3, <1>4 DEF CatalogueInv

\* The one call in flight moves on without a word to the page: served, refused, or
\* read again after a write.
LEMMA CallMoves ==
  ASSUME CatalogueInv, NEW c \in Callers, ~Catalogue!Free(c), NEW r, IsCall(r), r # Catalogue!Idle,
         calls' = [calls EXCEPT ![c] = r],
         ~excused' => /\ Catalogue!Alone(c)
                      /\ CallIsCurrent(c)'
  PROVE  CatalogueInv'
<1>1. CallsAreCalls' /\ calls'[c] = r /\ \A d \in Callers \ {c} : calls'[d] = calls[d]
  BY OneCall DEF CatalogueInv
<1>2. ~Catalogue!Quiet'
  BY <1>1 DEF Catalogue!Quiet, Catalogue!Free
<1>3. ASSUME ~excused', NEW d \in Callers, ~Catalogue!Free(d)'
      PROVE  Catalogue!Alone(d)' /\ CallIsCurrent(d)'
  <2>1. d = c /\ Catalogue!Alone(c)'
    BY <1>1, <1>3 DEF Catalogue!Free, Catalogue!Alone
  <2> QED  BY <1>3, <2>1
<1> QED  BY <1>1, <1>2, <1>3 DEF CatalogueInv

\* The one call in flight ends.
LEMMA CallEnds ==
  ASSUME CatalogueInv, NEW c \in Callers, ~Catalogue!Free(c),
         calls' = [calls EXCEPT ![c] = Catalogue!Idle],
         ~excused' => ~excused /\ shown' = Fresh'
  PROVE  CatalogueInv'
<1>1. CallsAreCalls' /\ calls'[c] = Catalogue!Idle
      /\ \A d \in Callers \ {c} : calls'[d] = calls[d]
  BY OneCall, IdleParts DEF CatalogueInv
<1>2. ASSUME ~excused', NEW d \in Callers PROVE Catalogue!Free(d)'
  <2>1. Catalogue!Alone(c)
    BY <1>2 DEF CatalogueInv
  <2> QED  BY <1>1, <2>1 DEF Catalogue!Alone, Catalogue!Free
<1> QED  BY <1>1, <1>2 DEF CatalogueInv

\* The reader's own steps.
LEMMA ReaderKeeps ==
  ASSUME CatalogueInv, NEW c \in Callers,
         \/ Catalogue!setPage(c) \/ Catalogue!submit(c) \/ Catalogue!remove(c)
         \/ Catalogue!makeDefault(c)
  PROVE  CatalogueInv'
<1>1. ASSUME Catalogue!setPage(c)  PROVE CatalogueInv'
  <2>1. /\ Catalogue!Free(c) /\ excused' = ~Catalogue!Quiet
        /\ calls' = [calls EXCEPT ![c] = Catalogue!Sent("list", 0, [tab |-> tab, window |-> window'])]
        /\ tab' = tab
    BY <1>1 DEF Catalogue!setPage, Catalogue!Reload
  <2>2. [tab |-> tab, window |-> window'] = Catalogue!Here'
    BY <2>1 DEF Catalogue!Here
  <2> QED  BY <2>1, <2>2, StartKeeps
<1>2. ASSUME NEW k \in {"save", "act", "remove"}, NEW i,
             Catalogue!Free(c), Catalogue!Crossing,
             calls' = [calls EXCEPT ![c] = Catalogue!Sent(k, i, Catalogue!Here)],
             UNCHANGED <<page, rows, tab, window, shown>>
      PROVE  CatalogueInv'
  <2>1. ~excused' => Catalogue!Quiet /\ shown' = Fresh'
    BY <1>2, FreshStays DEF CatalogueInv, Catalogue!Crossing
  <2> QED  BY <1>2, <2>1, StartKeeps
<1>3. ASSUME Catalogue!submit(c) \/ Catalogue!remove(c)  PROVE CatalogueInv'
  BY <1>2, <1>3 DEF Catalogue!submit, Catalogue!remove
<1>4. ASSUME Catalogue!makeDefault(c)  PROVE CatalogueInv'
  BY <1>2, <1>4 DEF Catalogue!makeDefault
<1> QED  BY <1>1, <1>3, <1>4

\* Another tab, at its first window at once or after the one it was left at.
LEMMA TabKeeps ==
  ASSUME CatalogueInv, NEW t \in Tabs, NEW c \in Callers, NEW d \in Callers,
         Catalogue!setTarget(t, c, d)
  PROVE  CatalogueInv'
<1>1. CASE window = 0
  <2>1. /\ Catalogue!Free(c) /\ excused' = ~Catalogue!Quiet /\ tab' = t /\ window' = 0
        /\ calls' = [calls EXCEPT ![c] = Catalogue!Sent("list", 0, [tab |-> t, window |-> 0])]
    BY <1>1 DEF Catalogue!setTarget, Catalogue!Reload
  <2>2. [tab |-> t, window |-> 0] = Catalogue!Here'
    BY <2>1 DEF Catalogue!Here
  <2> QED  BY <2>1, <2>2, StartKeeps
<1>2. CASE window # 0
  <2> DEFINE r == Catalogue!Sent("list", 0, [tab |-> t, window |-> window])
             s == Catalogue!Sent("list", 0, [tab |-> t, window |-> 0])
  <2>1. calls' = [calls EXCEPT ![c] = r, ![d] = s] /\ excused' = TRUE
    BY <1>2 DEF Catalogue!setTarget
  <2>2. IsCall(r) /\ IsCall(s)
    BY SentParts
  <2> HIDE DEF r, s
  <2>3. CallsAreCalls'
    BY <2>1, <2>2 DEF CatalogueInv, CallsAreCalls, IsCall
  <2> QED  BY <2>1, <2>3 DEF CatalogueInv
<1> QED  BY <1>1, <1>2

\* What the API does with a request.
LEMMA ServeKeeps ==
  ASSUME CatalogueInv, NEW c \in Callers, Catalogue!Serve(c)
  PROVE  CatalogueInv'
<1> DEFINE r == calls[c]
<1>1. r.stage = "sent" /\ UNCHANGED <<page, tab, window, shown>>
  BY DEF Catalogue!Serve
<1>2. IsCall(r) /\ ~Catalogue!Free(c) /\ (~excused => Catalogue!Alone(c) /\ CallIsCurrent(c))
  BY <1>1, IdleParts DEF CatalogueInv, CallsAreCalls, Catalogue!Free
<1>3. ASSUME NEW st \in {"done", "failed"}
      PROVE  LET n == [r EXCEPT !.stage = st]
             IN IsCall(n) /\ n.stage = st /\ n.kind = r.kind /\ n.q = r.q /\ n # Catalogue!Idle
                /\ n.answer = r.answer
  BY <1>2, IdleParts DEF IsCall
<1>4. CASE calls' = [calls EXCEPT ![c].stage = "failed"] /\ UNCHANGED <<rows, excused>>
  <2> DEFINE n == [r EXCEPT !.stage = "failed"]
  <2>1. calls' = [calls EXCEPT ![c] = n] /\ calls'[c] = n
    BY <1>4 DEF CatalogueInv, CallsAreCalls
  <2>2. IsCall(n) /\ n.stage = "failed" /\ n.kind = r.kind /\ n.q = r.q /\ n # Catalogue!Idle
    BY <1>3
  <2> HIDE DEF n
  <2>3. ~excused => CallIsCurrent(c)'
    BY <1>1, <1>2, <1>4, <2>1, <2>2, FreshStays DEF CallIsCurrent
  <2> QED  BY <1>2, <1>4, <2>1, <2>2, <2>3, CallMoves
<1>5. CASE /\ r.kind = "list"
           /\ calls' = [calls EXCEPT ![c].stage = "done", ![c].answer = Catalogue!Listed(r.q)]
           /\ UNCHANGED <<rows, excused>>
  <2> DEFINE a == Catalogue!Listed(r.q)
             n == [r EXCEPT !.stage = "done", !.answer = a]
  <2>1. ~excused => a = Fresh
    BY <1>2, <1>5 DEF CallIsCurrent, Fresh
  <2> HIDE DEF a
  <2>2. calls' = [calls EXCEPT ![c] = n] /\ calls'[c] = n
    BY <1>5 DEF CatalogueInv, CallsAreCalls, a
  <2>3. IsCall(n) /\ n.stage = "done" /\ n.kind = "list" /\ n.q = r.q /\ n.answer = a
        /\ n # Catalogue!Idle
    BY <1>2, <1>5, IdleParts DEF IsCall
  <2> HIDE DEF n
  <2>4. ~excused => CallIsCurrent(c)'
    BY <1>1, <1>2, <1>5, <2>1, <2>2, <2>3, FreshStays DEF CallIsCurrent
  <2> QED  BY <1>2, <1>5, <2>2, <2>3, <2>4, CallMoves
<1>6. CASE /\ r.kind \in {"save", "act", "remove"}
           /\ \E stage \in {"done", "failed"} :
                /\ calls' = [calls EXCEPT ![c].stage = stage]
                /\ excused' = (excused \/ stage = "failed")
  <2>1. PICK st \in {"done", "failed"} :
                /\ calls' = [calls EXCEPT ![c].stage = st]
                /\ excused' = (excused \/ st = "failed")
    BY <1>6
  <2> DEFINE n == [r EXCEPT !.stage = st]
  <2>2. calls' = [calls EXCEPT ![c] = n] /\ calls'[c] = n
    BY <2>1 DEF CatalogueInv, CallsAreCalls
  <2>3. IsCall(n) /\ n.stage = st /\ n.kind = r.kind /\ n # Catalogue!Idle
    BY <1>3
  <2> HIDE DEF n
  <2>4. ~excused' => ~excused /\ CallIsCurrent(c)'
    BY <1>6, <2>1, <2>2, <2>3 DEF CallIsCurrent
  <2> QED  BY <1>2, <2>2, <2>3, <2>4, CallMoves
<1> QED  BY <1>4, <1>5, <1>6 DEF Catalogue!Serve

\* What the page does with an answer.
LEMMA AnswerKeeps ==
  ASSUME CatalogueInv, NEW c \in Callers,
         \/ Catalogue!setRules(c) \/ Catalogue!ListFails(c) \/ Catalogue!saved(c)
         \/ Catalogue!refused(c) \/ Catalogue!acted(c)
  PROVE  CatalogueInv'
<1>1. /\ calls[c].stage \in {"done", "failed"} /\ UNCHANGED <<page, rows, tab, window>>
      /\ \/ shown' = shown \/ (calls[c].kind = "list" /\ calls[c].stage = "done")
  BY DEF Catalogue!setRules, Catalogue!ListFails, Catalogue!saved, Catalogue!refused,
         Catalogue!acted
<1>2. ~Catalogue!Free(c) /\ (~excused => Catalogue!Alone(c) /\ CallIsCurrent(c))
  BY <1>1, IdleParts DEF CatalogueInv, Catalogue!Free
<1>3. CASE /\ calls[c].kind # "list" /\ calls[c].stage = "failed" /\ UNCHANGED <<shown, excused>>
           /\ calls' = [calls EXCEPT ![c] = Catalogue!Idle]
  <2>1. ~excused' => ~excused /\ shown' = Fresh'
    BY <1>1, <1>2, <1>3, FreshStays DEF CallIsCurrent
  <2> QED  BY <1>2, <1>3, <2>1, CallEnds
<1>4. CASE Catalogue!Again(c) /\ UNCHANGED shown
  <2> DEFINE n == Catalogue!Sent("list", 0, calls[c].q)
  <2>1. /\ calls' = [calls EXCEPT ![c] = n]
        /\ excused' = ~(Catalogue!Alone(c) /\ calls[c].q = Catalogue!Here)
    BY <1>4 DEF Catalogue!Again
  <2>2. IsCall(n) /\ n.kind = "list" /\ n.q = calls[c].q /\ n.stage = "sent" /\ n # Catalogue!Idle
    BY SentParts
  <2> HIDE DEF n
  <2>3. calls'[c] = n
    BY <2>1, <2>2, OneCall DEF CatalogueInv
  <2>4. ~excused' => CallIsCurrent(c)'
    BY <1>1, <2>1, <2>2, <2>3, FreshStays DEF CallIsCurrent
  <2> QED  BY <1>2, <2>1, <2>2, <2>4, CallMoves
<1>5. ASSUME Catalogue!setRules(c)  PROVE CatalogueInv'
  <2>1. /\ calls[c].kind = "list" /\ calls[c].stage = "done" /\ shown' = calls[c].answer
        /\ calls' = [calls EXCEPT ![c] = Catalogue!Idle] /\ UNCHANGED excused
    BY <1>5 DEF Catalogue!setRules
  <2>2. ~excused' => ~excused /\ shown' = Fresh'
    BY <1>1, <1>2, <2>1, FreshStays DEF CallIsCurrent
  <2> QED  BY <1>2, <2>1, <2>2, CallEnds
<1>6. ASSUME Catalogue!ListFails(c)  PROVE CatalogueInv'
  <2>1. excused' = TRUE /\ calls' = [calls EXCEPT ![c] = Catalogue!Idle]
    BY <1>6 DEF Catalogue!ListFails
  <2> QED  BY <1>2, <2>1, CallEnds
<1>7. ASSUME Catalogue!saved(c) \/ Catalogue!refused(c) \/ Catalogue!acted(c)  PROVE CatalogueInv'
  BY <1>3, <1>4, <1>7 DEF Catalogue!saved, Catalogue!refused, Catalogue!acted
<1> QED  BY <1>5, <1>6, <1>7

\* A list at rest is what the tables hold, after every save, removal and row
\* action and after walking the windows, unless requests crossed or one was lost
\* (the load of the administration pages).
THEOREM ListStaysCurrent == Catalogue!Spec => []Catalogue!ListIsCurrent
<1>1. Catalogue!Init => CatalogueInv
  <2> SUFFICES ASSUME Catalogue!Init PROVE CatalogueInv
    OBVIOUS
  <2> DEFINE s == Catalogue!Sent("list", 0, [tab |-> tab, window |-> 0])
  <2>1. PICK c \in Callers : calls = [d \in Callers |-> IF d = c THEN s ELSE Catalogue!Idle]
    BY DEF Catalogue!Init
  <2>2. IsCall(s) /\ s.kind = "list" /\ s.q = Catalogue!Here /\ s.stage = "sent" /\ s # Catalogue!Idle
    BY SentParts DEF Catalogue!Init, Catalogue!Here
  <2> HIDE DEF s
  <2>3. CallsAreCalls /\ calls[c] = s /\ \A d \in Callers \ {c} : calls[d] = Catalogue!Idle
    BY <2>1, <2>2, IdleParts DEF CallsAreCalls
  <2>4. ~Catalogue!Quiet
    BY <2>2, <2>3 DEF Catalogue!Quiet, Catalogue!Free
  <2>5. ASSUME NEW d \in Callers, ~Catalogue!Free(d) PROVE Catalogue!Alone(d) /\ CallIsCurrent(d)
    BY <2>2, <2>3, <2>5 DEF Catalogue!Free, Catalogue!Alone, CallIsCurrent
  <2> QED  BY <2>3, <2>4, <2>5 DEF CatalogueInv
<1>2. CatalogueInv /\ [Catalogue!Next]_(Catalogue!vars) => CatalogueInv'
  <2> SUFFICES ASSUME CatalogueInv, [Catalogue!Next]_(Catalogue!vars) PROVE CatalogueInv'
    OBVIOUS
  <2>1. CASE UNCHANGED <<page, rows, tab, window, shown, calls, excused>>
    BY <2>1, FreshStays DEF CatalogueInv, CallsAreCalls, CallIsCurrent, Catalogue!Quiet,
       Catalogue!Free, Catalogue!Alone
  <2>2. ASSUME Catalogue!Close \/ \E kind \in {"edit", "delete"}, i \in TableRows : Catalogue!Open(kind, i)
        PROVE  CatalogueInv'
    BY <2>1, <2>2 DEF Catalogue!Close, Catalogue!Open
  <2> QED  BY <2>1, <2>2, ReaderKeeps, TabKeeps, ServeKeeps, AnswerKeeps
           DEF Catalogue!Next, Catalogue!vars
<1>3. CatalogueInv => Catalogue!ListIsCurrent
  BY DEF CatalogueInv, Fresh, Catalogue!ListIsCurrent
<1> QED  BY <1>1, <1>2, <1>3, PTL DEF Catalogue!Spec

-----------------------------------------------------------------------------
(* The session.                                                            *)

\* A request is a record of its five fields.
IsRequest(r) == DOMAIN r = {"kind", "user", "patch", "stage", "answer"}

RequestsAreRequests ==
  /\ calls = [c \in Callers |-> calls[c]]
  /\ \A c \in Callers : IsRequest(calls[c])

\* An answer about the session which is the session's, and so is the screen's.
SessionIs(answer) == answer.known /\ answer.user = session

\* What the one request in flight may say while nothing has crossed: an answer
\* about the session is the session's; a request that neither opens, closes nor
\* reads it leaves a screen that is.
RequestIsCurrent(c) ==
  /\ calls[c].kind \in {"state", "login"} /\ calls[c].stage = "done" => SessionIs(calls[c].answer)
  /\ calls[c].kind \notin {"state", "login", "logout"} => SessionIs(state)

SessionInv ==
  /\ RequestsAreRequests
  /\ ~excused =>
       /\ Reader!Quiet => SessionIs(state)
       /\ \A c \in Callers : ~Reader!Free(c) => Reader!Alone(c) /\ RequestIsCurrent(c)

\* A request that is sent.
LEMMA RequestParts ==
  ASSUME NEW k, NEW u, NEW p
  PROVE  LET s == Reader!Sent(k, u, p)
         IN IsRequest(s) /\ s.kind = k /\ s.stage = "sent" /\ s # Reader!Idle
BY DEF Reader!Sent, Reader!Idle, IsRequest

\* The absence of one.
LEMMA NoRequest == IsRequest(Reader!Idle) /\ Reader!Idle.stage = "idle"
BY DEF Reader!Idle, IsRequest

\* Changing one request.
LEMMA OneRequest ==
  ASSUME RequestsAreRequests, NEW c \in Callers, NEW r, IsRequest(r),
         calls' = [calls EXCEPT ![c] = r]
  PROVE  RequestsAreRequests' /\ calls'[c] = r /\ \A d \in Callers \ {c} : calls'[d] = calls[d]
BY DEF RequestsAreRequests, IsRequest

\* A request is sent while nothing moves on the screen or the server.
LEMMA SendKeeps ==
  ASSUME SessionInv, NEW c \in Callers, NEW k, NEW u, NEW p, Reader!Send(c, k, u, p),
         UNCHANGED <<session, state>>
  PROVE  SessionInv'
<1> DEFINE s == Reader!Sent(k, u, p)
<1>1. IsRequest(s) /\ s.kind = k /\ s.stage = "sent" /\ s # Reader!Idle
  BY RequestParts
<1>2. Reader!Free(c) /\ calls' = [calls EXCEPT ![c] = s] /\ excused' = (excused \/ ~Reader!Quiet)
  BY DEF Reader!Send
<1> HIDE DEF s
<1>3. RequestsAreRequests' /\ calls'[c] = s /\ \A d \in Callers \ {c} : calls'[d] = calls[d]
  BY <1>1, <1>2, OneRequest DEF SessionInv
<1>4. ~Reader!Quiet'
  BY <1>1, <1>3 DEF Reader!Quiet, Reader!Free
<1>5. ASSUME ~excused', NEW d \in Callers, ~Reader!Free(d)'
      PROVE  Reader!Alone(d)' /\ RequestIsCurrent(d)'
  <2>1. d = c /\ Reader!Alone(c)' /\ SessionIs(state)
    BY <1>2, <1>3, <1>5 DEF SessionInv, Reader!Quiet, Reader!Free, Reader!Alone
  <2> QED  BY <1>1, <1>3, <2>1 DEF RequestIsCurrent, SessionIs
<1> QED  BY <1>3, <1>4, <1>5 DEF SessionInv

\* The one request in flight moves on: served, refused, or followed by a reading.
LEMMA RequestMoves ==
  ASSUME SessionInv, NEW c \in Callers, ~Reader!Free(c), NEW r, IsRequest(r), r # Reader!Idle,
         calls' = [calls EXCEPT ![c] = r],
         ~excused' => Reader!Alone(c) /\ RequestIsCurrent(c)'
  PROVE  SessionInv'
<1>1. RequestsAreRequests' /\ calls'[c] = r /\ \A d \in Callers \ {c} : calls'[d] = calls[d]
  BY OneRequest DEF SessionInv
<1>2. ~Reader!Quiet'
  BY <1>1 DEF Reader!Quiet, Reader!Free
<1>3. ASSUME ~excused', NEW d \in Callers, ~Reader!Free(d)'
      PROVE  Reader!Alone(d)' /\ RequestIsCurrent(d)'
  <2>1. d = c /\ Reader!Alone(c)'
    BY <1>1, <1>3 DEF Reader!Free, Reader!Alone
  <2> QED  BY <1>3, <2>1
<1> QED  BY <1>1, <1>2, <1>3 DEF SessionInv

\* The one request in flight ends.
LEMMA RequestEnds ==
  ASSUME SessionInv, NEW c \in Callers, ~Reader!Free(c), calls' = [calls EXCEPT ![c] = Reader!Idle],
         ~excused' => ~excused /\ SessionIs(state)'
  PROVE  SessionInv'
<1>1. RequestsAreRequests' /\ calls'[c] = Reader!Idle
      /\ \A d \in Callers \ {c} : calls'[d] = calls[d]
  BY OneRequest, NoRequest DEF SessionInv
<1>2. ASSUME ~excused', NEW d \in Callers PROVE Reader!Free(d)'
  <2>1. Reader!Alone(c)
    BY <1>2 DEF SessionInv
  <2> QED  BY <1>1, <2>1 DEF Reader!Alone, Reader!Free
<1> QED  BY <1>1, <1>2 DEF SessionInv

\* What the server does with a request.
LEMMA ServedKeeps ==
  ASSUME SessionInv, NEW c \in Callers, Reader!Serve(c)
  PROVE  SessionInv'
<1> DEFINE r == calls[c]
<1>1. r.stage = "sent" /\ UNCHANGED <<state, excused>>
  BY DEF Reader!Serve
<1>2. IsRequest(r) /\ ~Reader!Free(c) /\ (~excused => Reader!Alone(c) /\ RequestIsCurrent(c))
  BY <1>1, NoRequest DEF SessionInv, RequestsAreRequests, Reader!Free
<1>3. ASSUME NEW st \in {"refused", "failed"}, calls' = [calls EXCEPT ![c].stage = st],
             UNCHANGED session
      PROVE  SessionInv'
  <2> DEFINE n == [r EXCEPT !.stage = st]
  <2>1. IsRequest(n) /\ n.stage = st /\ n.kind = r.kind /\ n # Reader!Idle
    BY <1>2, NoRequest DEF IsRequest
  <2>2. calls' = [calls EXCEPT ![c] = n] /\ calls'[c] = n
    BY <1>3 DEF SessionInv, RequestsAreRequests
  <2> HIDE DEF n
  <2>3. ~excused => RequestIsCurrent(c)'
    BY <1>1, <1>2, <1>3, <2>1, <2>2 DEF RequestIsCurrent, SessionIs
  <2> QED  BY <1>1, <1>2, <2>1, <2>2, <2>3, RequestMoves
<1>4. ASSUME NEW a, calls' = [calls EXCEPT ![c].stage = "done", ![c].answer = a],
             r.kind \in {"state", "login"} => SessionIs(a)',
             r.kind \notin {"state", "login", "logout"} => UNCHANGED session
      PROVE  SessionInv'
  <2> DEFINE n == [r EXCEPT !.stage = "done", !.answer = a]
  <2>1. IsRequest(n) /\ n.stage = "done" /\ n.answer = a /\ n.kind = r.kind /\ n # Reader!Idle
    BY <1>2, NoRequest DEF IsRequest
  <2>2. calls' = [calls EXCEPT ![c] = n] /\ calls'[c] = n
    BY <1>4 DEF SessionInv, RequestsAreRequests
  <2> HIDE DEF n
  <2>3. ~excused => RequestIsCurrent(c)'
    BY <1>1, <1>2, <1>4, <2>1, <2>2 DEF RequestIsCurrent, SessionIs
  <2> QED  BY <1>1, <1>2, <2>1, <2>2, <2>3, RequestMoves
<1>5. CASE \E st \in {"refused", "failed"} :
             calls' = [calls EXCEPT ![c].stage = st] /\ UNCHANGED session
  BY <1>3, <1>5
<1>6. CASE /\ r.kind \in {"state", "read"} /\ UNCHANGED session
           /\ calls' = [calls EXCEPT ![c].stage = "done", ![c].answer = Reader!AuthState(session)]
  <2>1. Reader!AuthState(session).known /\ Reader!AuthState(session).user = session
    BY DEF Reader!AuthState
  <2> DEFINE a == Reader!AuthState(session)
  <2>2. a.known /\ a.user = session' /\ calls' = [calls EXCEPT ![c].stage = "done", ![c].answer = a]
    BY <1>6, <2>1
  <2> HIDE DEF a
  <2> QED  BY <1>4, <1>6, <2>2 DEF SessionIs
<1>7. CASE /\ r.kind = "login" /\ session' = r.user
           /\ calls' = [calls EXCEPT ![c].stage = "done", ![c].answer = Reader!AuthState(r.user)]
  <2>1. Reader!AuthState(r.user).known /\ Reader!AuthState(r.user).user = r.user
    BY DEF Reader!AuthState
  <2> QED  BY <1>4, <1>7, <2>1 DEF SessionIs
<1>8. CASE /\ r.kind \in {"logout", "display", "account"}
           /\ r.kind # "logout" => UNCHANGED session
           /\ calls' = [calls EXCEPT ![c].stage = "done", ![c].answer = Reader!Unknown]
  BY <1>4, <1>8
<1> QED  BY <1>5, <1>6, <1>7, <1>8 DEF Reader!Serve

\* What the page does with an answer.
LEMMA AnsweredKeeps ==
  ASSUME SessionInv, NEW c \in Callers,
         Reader!setState(c) \/ Reader!Answered(c) \/ Reader!Failed(c)
  PROVE  SessionInv'
<1>1. calls[c].stage \in {"done", "refused", "failed"} /\ UNCHANGED session
      /\ (state' = state \/ Reader!setState(c))
  BY DEF Reader!setState, Reader!Answered, Reader!Failed
<1>2. ~Reader!Free(c) /\ (~excused => Reader!Alone(c) /\ RequestIsCurrent(c))
  BY <1>1, NoRequest DEF SessionInv, Reader!Free
<1>3. ASSUME Reader!refresh(c)  PROVE SessionInv'
  <2> DEFINE u == IF calls[c].kind = "account" THEN Reader!Saving ELSE Reader!None
             n == Reader!Sent("state", u, Reader!Blank)
  <2>1. calls' = [calls EXCEPT ![c] = n] /\ excused' = ~Reader!Alone(c)
    BY <1>3 DEF Reader!refresh
  <2>2. IsRequest(n) /\ n.kind = "state" /\ n.stage = "sent" /\ n # Reader!Idle
    BY RequestParts
  <2> HIDE DEF n
  <2>3. calls'[c] = n
    BY <2>1, <2>2, OneRequest DEF SessionInv
  <2>4. RequestIsCurrent(c)'
    BY <2>2, <2>3 DEF RequestIsCurrent
  <2> QED  BY <1>2, <2>1, <2>2, <2>4, RequestMoves
<1>4. ASSUME Reader!setState(c)  PROVE SessionInv'
  <2>1. /\ calls[c].kind \in {"state", "login"} /\ calls[c].stage = "done"
        /\ state' = calls[c].answer /\ excused' = excused
        /\ calls' = [calls EXCEPT ![c] = Reader!Idle]
    BY <1>4 DEF Reader!setState, Reader!Drop
  <2>2. ~excused => SessionIs(state)'
    BY <1>1, <1>2, <2>1 DEF RequestIsCurrent, SessionIs
  <2> QED  BY <1>2, <2>1, <2>2, RequestEnds
<1>5. CASE /\ calls[c].kind \notin {"state", "login", "logout"} /\ UNCHANGED <<state, excused>>
           /\ calls' = [calls EXCEPT ![c] = Reader!Idle]
  <2>1. ~excused => SessionIs(state)'
    BY <1>1, <1>2, <1>5 DEF RequestIsCurrent, SessionIs
  <2> QED  BY <1>2, <1>5, <2>1, RequestEnds
<1>6. ASSUME Reader!Answered(c)  PROVE SessionInv'
  BY <1>3, <1>5, <1>6 DEF Reader!Answered, Reader!Drop
<1>7. ASSUME Reader!Failed(c)  PROVE SessionInv'
  <2>1. CASE Reader!refresh(c)
    BY <1>3, <2>1
  <2>2. CASE /\ calls' = [calls EXCEPT ![c] = Reader!Idle] /\ state' = state
             /\ excused' = (excused \/ calls[c].kind \in {"state", "login", "logout"})
    <3>1. ~excused' => ~excused /\ SessionIs(state)'
      BY <1>1, <1>2, <2>2 DEF RequestIsCurrent, SessionIs
    <3> QED  BY <1>2, <2>2, <3>1, RequestEnds
  <2> QED  BY <1>7, <2>1, <2>2 DEF Reader!Failed
<1> QED  BY <1>4, <1>6, <1>7

\* Once everything is answered the screen belongs to the account the session opens,
\* unless requests crossed, one about the session was lost or nothing was asked
\* since it ended (AuthProvider).
THEOREM ScreenStaysTheSessions == Reader!Spec => []Reader!ScreenIsTheSessions
<1>1. Reader!Init => SessionInv
  <2> SUFFICES ASSUME Reader!Init PROVE SessionInv
    OBVIOUS
  <2> DEFINE s == Reader!Sent("state", Reader!None, Reader!Blank)
  <2>1. PICK c \in Callers : calls = [d \in Callers |-> IF d = c THEN s ELSE Reader!Idle]
    BY DEF Reader!Init
  <2>2. IsRequest(s) /\ s.kind = "state" /\ s.stage = "sent" /\ s # Reader!Idle
    BY RequestParts
  <2> HIDE DEF s
  <2>3. RequestsAreRequests /\ calls[c] = s /\ \A d \in Callers \ {c} : calls[d] = Reader!Idle
    BY <2>1, <2>2, NoRequest DEF RequestsAreRequests
  <2>4. ~Reader!Quiet
    BY <2>2, <2>3 DEF Reader!Quiet, Reader!Free
  <2>5. ASSUME NEW d \in Callers, ~Reader!Free(d) PROVE Reader!Alone(d) /\ RequestIsCurrent(d)
    BY <2>2, <2>3, <2>5 DEF Reader!Free, Reader!Alone, RequestIsCurrent
  <2> QED  BY <2>3, <2>4, <2>5 DEF SessionInv
<1>2. SessionInv /\ [Reader!Next]_(Reader!vars) => SessionInv'
  <2> SUFFICES ASSUME SessionInv, [Reader!Next]_(Reader!vars) PROVE SessionInv'
    OBVIOUS
  <2>1. CASE UNCHANGED <<session, state, calls, excused>>
    BY <2>1 DEF SessionInv, RequestsAreRequests, RequestIsCurrent, SessionIs, Reader!Quiet,
       Reader!Free, Reader!Alone
  <2>2. ASSUME Reader!Expire  PROVE SessionInv'
    BY <2>2 DEF Reader!Expire, SessionInv, RequestsAreRequests
  <2>3. ASSUME \/ Reader!OpenAccount \/ Reader!LeaveAccount
               \/ \E n \in Names, m \in Modes \cup {Reader!None} : Reader!set(n, m)
               \/ \E u \in Users, n \in Names : Reader!Rename(u, n)
        PROVE  SessionInv'
    BY <2>1, <2>3 DEF Reader!OpenAccount, Reader!LeaveAccount, Reader!set, Reader!Rename
  <2>4. ASSUME NEW c \in Callers,
               \/ Reader!signOut(c) \/ Reader!Read(c) \/ Reader!submit(c)
               \/ \E u \in Users : Reader!signIn(c, u)
        PROVE  SessionInv'
    BY <2>4, SendKeeps DEF Reader!signOut, Reader!Read, Reader!submit, Reader!signIn
  <2>5. ASSUME NEW c \in Callers, NEW m \in Modes, Reader!changeDisplay(c, m)
        PROVE  SessionInv'
    BY <2>1, <2>5, SendKeeps DEF Reader!changeDisplay
  <2> QED  BY <2>1, <2>2, <2>3, <2>4, <2>5, ServedKeeps, AnsweredKeeps DEF Reader!Next, Reader!vars
<1>3. SessionInv => Reader!ScreenIsTheSessions
  BY DEF SessionInv, SessionIs, Reader!ScreenIsTheSessions
<1> QED  BY <1>1, <1>2, <1>3, PTL DEF Reader!Spec

-----------------------------------------------------------------------------
(* The runs a page follows.                                                *)

Readings == [step: {"none", "job", "state", "read"},
             state: {"none", "gone", "waiting", "active", "completed", "failed", "unknown", "null"},
             warns: BOOLEAN]
Answering == [live: BOOLEAN, got: [Sources -> Readings]]

FollowerTypes ==
  /\ job \in [Sources -> [state: {"gone", "waiting", "active", "completed", "failed"},
                          warns: BOOLEAN]]
  /\ row \in [Sources -> {"idle", "pending", "refused", "failed", "evicted", "warned", "done"}]
  /\ round \in [Callers -> Answering]
  /\ starting \subseteq Sources /\ following \subseteq Sources
  /\ ended \in [Sources -> SUBSET {"failed", "warned", "done"}]

\* A source whose run is asked for or followed says so.
PendingInv ==
  /\ starting \cap following = {}
  /\ \A s \in starting \cup following : row[s] = "pending"

\* A job at its end ended, and what a reading in progress found is so.
JobEnded(s) ==
  /\ job[s].warns => job[s].state = "completed" /\ "warned" \in ended[s]
  /\ job[s].state = "completed" /\ ~job[s].warns => "done" \in ended[s]
  /\ job[s].state = "failed" => "failed" \in ended[s]
  /\ job[s].state = "gone" /\ s \in following => ended[s] # {}
Told(got, s) ==
  /\ got.step = "state" /\ got.warns => "warned" \in ended[s]
  /\ got.step = "read" /\ got.state = "failed" => "failed" \in ended[s]
  /\ got.step = "read" /\ got.state = "completed" /\ got.warns => "warned" \in ended[s]
  /\ got.step = "read" /\ got.state = "completed" /\ ~got.warns =>
       "done" \in ended[s] \/ ("warned" \in ended[s] /\ s \in split)
  /\ got.step = "read" /\ got.state = "unknown" => ended[s] # {} \/ s \in lost

\* A tick that is listened to is about what is followed now.
HeardInv == \A k \in Callers, s \in Sources :
  round[k].live => /\ round[k].got[s].step # "none" => s \in following
                   /\ Told(round[k].got[s], s)

FollowerInv ==
  /\ FollowerTypes /\ PendingInv /\ HeardInv
  /\ \A s \in Sources : JobEnded(s)
  /\ Follower!OutcomeIsTheRuns

\* A tick asks for what is followed, and found nothing yet.
LEMMA TickAsks ==
  ASSUME NEW of
  PROVE  /\ Follower!Tick(of) \in Answering
         /\ \A s \in Sources : /\ Follower!Tick(of).got[s].step \in {"none", "job"}
                               /\ Follower!Tick(of).got[s].step = "none" \/ s \in of
<1> DEFINE got == [s \in Sources |-> IF s \in of THEN Follower!Asking ELSE Follower!Unasked]
<1>1. /\ Follower!Unasked \in Readings /\ Follower!Unasked.step = "none"
      /\ Follower!Asking \in Readings /\ Follower!Asking.step = "job"
  BY DEF Follower!Unasked, Follower!Asking, Readings
<1>2. got \in [Sources -> Readings]
  BY <1>1
<1>3. Follower!Tick(of) = [live |-> TRUE, got |-> got]
  BY DEF Follower!Tick
<1>4. \A s \in Sources : got[s].step \in {"none", "job"} /\ (got[s].step = "none" \/ s \in of)
  BY <1>1
<1> HIDE DEF got
<1> QED  BY <1>2, <1>3, <1>4 DEF Answering

\* A tick that is over, or never started, is not listened to.
LEMMA NoRoundIsDead == Follower!NoRound \in Answering /\ ~Follower!NoRound.live
<1>1. Follower!Unasked \in Readings
  BY DEF Follower!Unasked, Readings
<1>2. [s \in Sources |-> Follower!Unasked] \in [Sources -> Readings]
  BY <1>1
<1> QED  BY <1>2 DEF Follower!NoRound, Answering

\* A tick that is no longer listened to keeps what it found.
LEMMA StoppedIsDead ==
  ASSUME NEW r \in Answering
  PROVE  [r EXCEPT !.live = FALSE] \in Answering /\ ~[r EXCEPT !.live = FALSE].live
  BY DEF Answering

\* What a change of what is followed does to the ticks.
LEMMA FollowTicks ==
  ASSUME FollowerTypes, NEW of, NEW k \in Callers, Follower!Follow(of, k)
  PROVE  /\ following' = of
         /\ round' \in [Callers -> Answering]
         /\ \A j \in Callers : ~round'[j].live \/ round'[j] = Follower!Tick(of)
<1> DEFINE stopped == [j \in Callers |-> IF Follower!Free(j) THEN Follower!NoRound
                                         ELSE [round[j] EXCEPT !.live = FALSE]]
<1>1. \A j \in Callers : round[j] \in Answering
  BY DEF FollowerTypes
<1>2. \A j \in Callers : stopped[j] \in Answering /\ ~stopped[j].live
  BY <1>1, NoRoundIsDead, StoppedIsDead
<1>3. stopped \in [Callers -> Answering]
  BY <1>1, NoRoundIsDead, StoppedIsDead
<1>4. /\ following' = of
      /\ round' = stopped \/ round' = [stopped EXCEPT ![k] = Follower!Tick(of)]
  BY DEF Follower!Follow
<1> HIDE DEF stopped
<1> QED  BY <1>2, <1>3, <1>4, TickAsks

\* What an answer does to them.
LEMMA AnswerTicks ==
  ASSUME FollowerTypes, NEW k \in Callers, NEW next \in Callers, NEW of,
         LET others == [j \in Callers |-> IF Follower!Free(j) \/ j = k THEN Follower!NoRound
                                          ELSE [round[j] EXCEPT !.live = FALSE]]
         IN \/ round' = others
            \/ round' = [others EXCEPT ![next] = Follower!Tick(of)]
  PROVE  /\ round' \in [Callers -> Answering]
         /\ \A j \in Callers : ~round'[j].live \/ round'[j] = Follower!Tick(of)
<1> DEFINE others == [j \in Callers |-> IF Follower!Free(j) \/ j = k THEN Follower!NoRound
                                        ELSE [round[j] EXCEPT !.live = FALSE]]
<1>1. \A j \in Callers : round[j] \in Answering
  BY DEF FollowerTypes
<1>2. \A j \in Callers : others[j] \in Answering /\ ~others[j].live
  BY <1>1, NoRoundIsDead, StoppedIsDead
<1>3. others \in [Callers -> Answering]
  BY <1>1, NoRoundIsDead, StoppedIsDead
<1>4. round' = others \/ round' = [others EXCEPT ![next] = Follower!Tick(of)]
  OBVIOUS
<1> HIDE DEF others
<1> QED  BY <1>2, <1>3, <1>4, TickAsks

\* When every tick is over or new, nothing found before is listened to.
LEMMA FreshTicksAreHeard ==
  ASSUME \A j \in Callers : ~round'[j].live \/ round'[j] = Follower!Tick(following')
  PROVE  HeardInv'
<1> SUFFICES ASSUME NEW j \in Callers, NEW s \in Sources, round'[j].live
             PROVE  /\ round'[j].got[s].step # "none" => s \in following'
                    /\ Told(round[j].got[s], s)'
  BY DEF HeardInv
<1>1. round'[j] = Follower!Tick(following')
  OBVIOUS
<1>2. /\ round'[j].got[s].step \in {"none", "job"}
      /\ round'[j].got[s].step = "none" \/ s \in following'
  BY <1>1, TickAsks
<1> QED  BY <1>2 DEF Told

\* What was found stays so while the runs go on: what ended stays ended.
LEMMA FoundStaysSo ==
  ASSUME HeardInv, UNCHANGED <<round, following>>,
         \A s \in Sources : ended[s] \subseteq ended'[s],
         split \subseteq split', lost \subseteq lost'
  PROVE  HeardInv'
<1> SUFFICES ASSUME NEW k \in Callers, NEW s \in Sources, round[k].live
             PROVE  /\ round'[k].got[s].step # "none" => s \in following'
                    /\ Told(round[k].got[s], s)'
  BY DEF HeardInv
<1>1. Told(round[k].got[s], s) /\ (round[k].got[s].step # "none" => s \in following)
  BY DEF HeardInv
<1> QED  BY <1>1 DEF Told

\* A reading that took one more step found what is so.
LEMMA StepIsHeard ==
  ASSUME FollowerTypes, HeardInv, NEW k \in Callers, NEW s \in Sources, NEW entry \in Readings,
         Follower!Step(k, s, entry), round[k].got[s].step # "none",
         split \subseteq split', lost \subseteq lost',
         round[k].live => Told(entry, s)'
  PROVE  HeardInv' /\ round' \in [Callers -> Answering]
<1>1. round' = [round EXCEPT ![k].got[s] = entry] /\ UNCHANGED <<ended, following>>
  BY DEF Follower!Step, Follower!queue
<1>2. round[k] \in Answering /\ round[k].got \in [Sources -> Readings]
  BY DEF FollowerTypes, Answering
<1>3. round' \in [Callers -> Answering]
  BY <1>1, <1>2 DEF FollowerTypes, Answering
<1>4. ASSUME NEW j \in Callers, NEW t \in Sources
      PROVE  /\ round'[j].live = round[j].live
             /\ round'[j].got[t] = IF j = k /\ t = s THEN entry ELSE round[j].got[t]
  BY <1>1, <1>2 DEF FollowerTypes, Answering
<1>5. HeardInv'
  <2> SUFFICES ASSUME NEW j \in Callers, NEW t \in Sources, round'[j].live
               PROVE  /\ round'[j].got[t].step # "none" => t \in following'
                      /\ Told(round[j].got[t], t)'
    BY DEF HeardInv
  <2>1. CASE j = k /\ t = s
    BY <1>1, <1>4, <2>1 DEF HeardInv, Told
  <2>2. CASE ~(j = k /\ t = s)
    <3>1. round'[j].got[t] = round[j].got[t] /\ round[j].live
      BY <1>4, <2>2
    <3>2. Told(round[j].got[t], t) /\ (round[j].got[t].step # "none" => t \in following)
      BY <3>1 DEF HeardInv
    <3> QED  BY <1>1, <3>1, <3>2 DEF Told
  <2> QED  BY <2>1, <2>2
<1> QED  BY <1>3, <1>5

\* How a run reads on its row is how it ended.
LEMMA OutcomeIsTold ==
  ASSUME NEW s \in Sources, NEW got \in Readings, Told(got, s),
         got.step = "read", got.state \in Follower!Settled
  PROVE  /\ Follower!outcomeOf(got) \in {"failed", "evicted", "warned", "done"}
         /\ Follower!outcomeOf(got) = "failed" => "failed" \in ended[s]
         /\ Follower!outcomeOf(got) = "warned" => "warned" \in ended[s]
         /\ Follower!outcomeOf(got) = "done" =>
              "done" \in ended[s] \/ ("warned" \in ended[s] /\ s \in split)
         /\ Follower!outcomeOf(got) = "evicted" => ended[s] # {} \/ s \in lost
<1>1. CASE got.state = "failed"
  <2>1. Follower!outcomeOf(got) = "failed"
    BY <1>1 DEF Follower!outcomeOf
  <2> QED  BY <1>1, <2>1 DEF Told
<1>2. CASE got.state = "unknown"
  <2>1. Follower!outcomeOf(got) = "evicted"
    BY <1>2 DEF Follower!outcomeOf
  <2> QED  BY <1>2, <2>1 DEF Told
<1>3. CASE got.state = "completed"
  <2>1. Follower!outcomeOf(got) = IF got.warns THEN "warned" ELSE "done"
    BY <1>3 DEF Follower!outcomeOf
  <2> QED  BY <1>3, <2>1 DEF Told, Readings
<1> QED  BY <1>1, <1>2, <1>3 DEF Follower!Settled

\* A job that moves on, or is dropped, at its place in the queue.
LEMMA JobMoves ==
  ASSUME FollowerInv, NEW s \in Sources,
         NEW next \in [state: {"gone", "waiting", "active", "completed", "failed"}, warns: BOOLEAN],
         NEW how \in SUBSET {"failed", "warned", "done"},
         job' = [job EXCEPT ![s] = next], ended' = [ended EXCEPT ![s] = @ \cup how],
         UNCHANGED <<row, starting, following, round, split, lost>>,
         next.warns => next.state = "completed" /\ "warned" \in ended'[s],
         next.state = "completed" /\ ~next.warns => "done" \in ended'[s],
         next.state = "failed" => "failed" \in ended'[s],
         next.state = "gone" => ended'[s] # {}
  PROVE  FollowerInv'
<1>1. FollowerTypes /\ PendingInv /\ HeardInv
  BY DEF FollowerInv
<1>2. FollowerTypes'
  BY <1>1 DEF FollowerTypes
<1>3. ASSUME NEW t \in Sources
      PROVE  /\ ended[t] \subseteq ended'[t]
             /\ t # s => job'[t] = job[t] /\ ended'[t] = ended[t]
             /\ job'[s] = next
  BY <1>1 DEF FollowerTypes
<1>4. HeardInv'
  BY <1>1, <1>3, FoundStaysSo
<1>5. PendingInv'
  BY <1>1 DEF PendingInv
<1>6. \A t \in Sources : JobEnded(t)'
  <2> SUFFICES ASSUME NEW t \in Sources PROVE JobEnded(t)'
    OBVIOUS
  <2>1. CASE t = s
    BY <1>3, <2>1 DEF JobEnded
  <2>2. CASE t # s
    BY <1>3, <2>2 DEF JobEnded, FollowerInv
  <2> QED  BY <2>1, <2>2
<1>7. Follower!OutcomeIsTheRuns'
  BY <1>3 DEF FollowerInv, Follower!OutcomeIsTheRuns
<1> QED  BY <1>2, <1>4, <1>5, <1>6, <1>7 DEF FollowerInv

\* The first half of a status finds what is so.
LEMMA GetJobKeeps ==
  ASSUME FollowerInv, NEW k \in Callers, NEW s \in Sources, Follower!getJob(k, s)
  PROVE  FollowerInv'
<1> USE DEF Follower!queue
<1>1. FollowerTypes /\ PendingInv /\ HeardInv /\ JobEnded(s)
  BY DEF FollowerInv
<1>2. PICK entry \in Readings :
        /\ Follower!Step(k, s, entry)
        /\ round[k].live => Told(entry, s)
  <2>1. round[k].live => s \in following
    BY <1>1 DEF Follower!getJob, HeardInv
  <2>2. CASE job[s].state = "gone" /\ Follower!Step(k, s, Follower!Read("unknown", FALSE))
    <3>1. Follower!Read("unknown", FALSE) \in Readings
      BY DEF Follower!Read, Readings
    <3>2. round[k].live => Told(Follower!Read("unknown", FALSE), s)
      BY <1>1, <2>1, <2>2 DEF Told, Follower!Read, JobEnded
    <3> QED  BY <2>2, <3>1, <3>2
  <2>3. CASE Follower!Step(k, s, [step |-> "state", state |-> "none", warns |-> job[s].warns])
    <3> DEFINE r == [step |-> "state", state |-> "none", warns |-> job[s].warns]
    <3>1. r \in Readings
      BY <1>1 DEF Readings, FollowerTypes
    <3>2. Told(r, s)
      BY <1>1 DEF Told, JobEnded
    <3> QED  BY <2>3, <3>1, <3>2
  <2>4. CASE Follower!Step(k, s, Follower!Read("null", FALSE))
    <3>1. Follower!Read("null", FALSE) \in Readings
      BY DEF Follower!Read, Readings
    <3>2. Told(Follower!Read("null", FALSE), s)
      BY DEF Told, Follower!Read
    <3> QED  BY <2>4, <3>1, <3>2
  <2> QED  BY <2>2, <2>3, <2>4 DEF Follower!getJob, Follower!Gone
<1>3. UNCHANGED <<job, row, starting, following, ended, split, lost>>
  BY <1>2 DEF Follower!getJob, Follower!Step
<1>4. Told(entry, s)' <=> Told(entry, s)
  BY <1>3 DEF Told
<1>5. round[k].got[s].step = "job"
  BY DEF Follower!getJob
<1>6. HeardInv' /\ round' \in [Callers -> Answering]
  BY <1>1, <1>2, <1>3, <1>4, <1>5, StepIsHeard
<1>7. FollowerTypes' /\ PendingInv'
  BY <1>1, <1>3, <1>6 DEF FollowerTypes, PendingInv
<1>8. \A t \in Sources : JobEnded(t)'
  BY <1>3 DEF FollowerInv, JobEnded
<1>9. Follower!OutcomeIsTheRuns'
  BY <1>3 DEF FollowerInv, Follower!OutcomeIsTheRuns
<1> QED  BY <1>6, <1>7, <1>8, <1>9 DEF FollowerInv

\* And the second, warned or not between the two.
LEMMA GetStateKeeps ==
  ASSUME FollowerInv, NEW k \in Callers, NEW s \in Sources, Follower!getState(k, s)
  PROVE  FollowerInv'
<1> USE DEF Follower!queue
<1>1. FollowerTypes /\ PendingInv /\ HeardInv /\ JobEnded(s)
  BY DEF FollowerInv
<1>2. /\ round[k].got[s] \in Readings /\ round[k].got[s].step = "state"
      /\ round[k].live => s \in following /\ Told(round[k].got[s], s)
  BY <1>1 DEF Follower!getState, HeardInv, FollowerTypes, Answering
<1>3. PICK entry \in Readings :
        /\ Follower!Step(k, s, entry)
        /\ split \subseteq split' /\ lost \subseteq lost'
        /\ round[k].live => Told(entry, s)'
  <2> DEFINE found == IF job[s].state = Follower!Gone THEN "unknown" ELSE job[s].state
  <2>1. CASE /\ Follower!Step(k, s, Follower!Read(found, round[k].got[s].warns))
             /\ split' = IF job[s].warns # round[k].got[s].warns THEN split \cup {s} ELSE split
             /\ UNCHANGED <<faults, lost>>
    <3> DEFINE r == Follower!Read(found, round[k].got[s].warns)
    <3>1. /\ r.step = "read" /\ r.state = found /\ r.warns = round[k].got[s].warns
          /\ ended' = ended
      BY <2>1 DEF Follower!Read, Follower!Step
    <3>2. found \in {"unknown", "waiting", "active", "completed", "failed"}
      BY <1>1 DEF FollowerTypes, Follower!Gone
    <3>3. r \in Readings
      BY <1>2, <3>2 DEF Follower!Read, Readings
    <3>4. PICK entry \in Readings : entry = r
      BY <3>3
    <3>6. ASSUME round[k].live  PROVE Told(entry, s)'
      <4>1. found = "unknown" => ended[s] # {}
        BY <1>1, <1>2, <3>6 DEF JobEnded, FollowerTypes, Follower!Gone
      <4>2. found = "failed" => "failed" \in ended[s]
        BY <1>1 DEF JobEnded
      <4>3. round[k].got[s].warns => "warned" \in ended[s]
        BY <1>2, <3>6 DEF Told
      <4>4. found = "completed" /\ ~round[k].got[s].warns =>
              "done" \in ended[s] \/ ("warned" \in ended[s] /\ s \in split')
        <5>1. found = "completed" => job[s].state = "completed"
          OBVIOUS
        <5>2. CASE job[s].warns /\ ~round[k].got[s].warns
          BY <1>1, <2>1, <5>2 DEF JobEnded
        <5>3. CASE ~job[s].warns
          BY <1>1, <5>1, <5>3 DEF JobEnded
        <5> QED  BY <5>2, <5>3
      <4> HIDE DEF r, found
      <4> QED  BY <3>1, <3>4, <4>1, <4>2, <4>3, <4>4 DEF Told
    <3> QED  BY <2>1, <3>4, <3>6
  <2>2. CASE /\ Follower!Step(k, s, Follower!Read("unknown", FALSE))
             /\ lost' = lost \cup {s}
             /\ UNCHANGED split
    <3>1. Follower!Read("unknown", FALSE) \in Readings
      BY DEF Follower!Read, Readings
    <3>2. Told(Follower!Read("unknown", FALSE), s)'
      BY <2>2 DEF Told, Follower!Read
    <3> QED  BY <2>2, <3>1, <3>2
  <2> QED  BY <2>1, <2>2 DEF Follower!getState
<1>4. UNCHANGED <<job, row, starting, following, ended>>
  BY <1>3 DEF Follower!Step
<1>5. HeardInv' /\ round' \in [Callers -> Answering]
  BY <1>1, <1>2, <1>3, StepIsHeard
<1>6. FollowerTypes' /\ PendingInv'
  BY <1>1, <1>4, <1>5 DEF FollowerTypes, PendingInv
<1>7. \A t \in Sources : JobEnded(t)'
  BY <1>4 DEF FollowerInv, JobEnded
<1>8. Follower!OutcomeIsTheRuns'
  BY <1>3, <1>4 DEF FollowerInv, Follower!OutcomeIsTheRuns
<1> QED  BY <1>5, <1>6, <1>7, <1>8 DEF FollowerInv

\* A tick answered in full reports the runs it is heard about.
LEMMA TickAnswersKeep ==
  ASSUME FollowerInv, NEW k \in Callers, NEW next \in Callers, Follower!Answered(k, next)
  PROVE  FollowerInv'
<1> USE DEF Follower!queue
<1> DEFINE got == round[k].got
           over == {s \in Sources : got[s].step = "read" /\ got[s].state \in Follower!Settled}
<1>1. FollowerTypes /\ PendingInv /\ HeardInv /\ UNCHANGED <<job, ended, starting, split, lost>>
  BY DEF FollowerInv, Follower!Answered
<1>2. CASE Follower!Heard(k) /\ over # {}
  <2>1. /\ row' = [s \in Sources |-> IF s \in over THEN Follower!outcomeOf(got[s]) ELSE row[s]]
        /\ following' = following \ over
        /\ LET others == [j \in Callers |-> IF Follower!Free(j) \/ j = k THEN Follower!NoRound
                                            ELSE [round[j] EXCEPT !.live = FALSE]]
           IN \/ round' = others
              \/ round' = [others EXCEPT ![next] = Follower!Tick(following \ over)]
    BY <1>2 DEF Follower!Answered
  <2>2. ASSUME NEW s \in over
        PROVE  /\ s \in Sources /\ s \in following /\ s \notin starting
               /\ got[s] \in Readings /\ got[s].step = "read" /\ got[s].state \in Follower!Settled
               /\ Told(got[s], s)
    BY <1>1, <1>2 DEF HeardInv, PendingInv, Follower!Heard, FollowerTypes, Answering
  <2>3. ASSUME NEW s \in over
        PROVE  /\ row'[s] = Follower!outcomeOf(got[s])
               /\ row'[s] \in {"failed", "evicted", "warned", "done"}
               /\ row'[s] = "failed" => "failed" \in ended[s]
               /\ row'[s] = "warned" => "warned" \in ended[s]
               /\ row'[s] = "done" => "done" \in ended[s] \/ ("warned" \in ended[s] /\ s \in split)
               /\ row'[s] = "evicted" => ended[s] # {} \/ s \in lost
    <3>1. row'[s] = Follower!outcomeOf(got[s])
      BY <2>1, <2>2
    <3> HIDE DEF got, over
    <3> QED  BY <2>2, <3>1, OutcomeIsTold
  <2>4. \A s \in Sources \ over : row'[s] = row[s]
    BY <2>1
  <2> HIDE DEF over, got
  <2>5. /\ round' \in [Callers -> Answering]
        /\ \A j \in Callers : ~round'[j].live \/ round'[j] = Follower!Tick(following')
    BY <1>1, <2>1, AnswerTicks
  <2>6. HeardInv'
    BY <2>5, FreshTicksAreHeard
  <2>7. FollowerTypes'
    <3>1. \A s \in Sources :
            row'[s] \in {"idle", "pending", "refused", "failed", "evicted", "warned", "done"}
      BY <1>1, <2>3, <2>4 DEF FollowerTypes
    <3>2. row' \in [Sources -> {"idle", "pending", "refused", "failed", "evicted", "warned", "done"}]
      BY <2>1, <3>1
    <3> QED  BY <1>1, <2>1, <2>5, <3>2 DEF FollowerTypes
  <2>8. PendingInv'
    <3>1. \A s \in starting' \cup following' : s \in Sources \ over /\ row[s] = "pending"
      BY <1>1, <2>1, <2>2 DEF PendingInv, FollowerTypes
    <3>2. starting' \cap following' = {}
      BY <1>1, <2>1 DEF PendingInv
    <3> QED  BY <2>4, <3>1, <3>2 DEF PendingInv
  <2>9. \A t \in Sources : JobEnded(t)'
    BY <1>1, <2>1 DEF FollowerInv, JobEnded
  <2>10. Follower!OutcomeIsTheRuns'
    <3> SUFFICES ASSUME NEW s \in Sources \ starting'
                 PROVE  /\ row'[s] = "failed" => "failed" \in ended'[s]
                        /\ row'[s] = "warned" => "warned" \in ended'[s]
                        /\ row'[s] = "done" =>
                             "done" \in ended'[s] \/ ("warned" \in ended'[s] /\ s \in split')
                        /\ row'[s] = "evicted" => ended'[s] # {} \/ s \in lost'
      BY DEF Follower!OutcomeIsTheRuns
    <3>1. CASE s \in over
      BY <1>1, <2>3, <3>1
    <3>2. CASE s \notin over
      BY <1>1, <2>4, <3>2 DEF FollowerInv, Follower!OutcomeIsTheRuns
    <3> QED  BY <3>1, <3>2
  <2> QED  BY <2>6, <2>7, <2>8, <2>9, <2>10 DEF FollowerInv
<1>3. CASE ~(Follower!Heard(k) /\ over # {})
  <2>1. round' = [round EXCEPT ![k] = Follower!NoRound] /\ UNCHANGED <<row, following>>
    BY <1>3 DEF Follower!Answered
  <2>2. ASSUME NEW j \in Callers
        PROVE  round'[j] = IF j = k THEN Follower!NoRound ELSE round[j]
    BY <1>1, <2>1 DEF FollowerTypes
  <2>3. HeardInv'
    <3> SUFFICES ASSUME NEW j \in Callers, NEW s \in Sources, round'[j].live
                 PROVE  /\ round'[j].got[s].step # "none" => s \in following'
                        /\ Told(round[j].got[s], s)'
      BY DEF HeardInv
    <3>1. round'[j] = round[j]
      BY <2>2, NoRoundIsDead
    <3>2. Told(round[j].got[s], s) /\ (round[j].got[s].step # "none" => s \in following)
      BY <1>1, <3>1 DEF HeardInv
    <3> QED  BY <1>1, <2>1, <3>1, <3>2 DEF Told
  <2>4. FollowerTypes'
    BY <1>1, <2>1, NoRoundIsDead DEF FollowerTypes
  <2>5. PendingInv' /\ Follower!OutcomeIsTheRuns'
    BY <1>1, <2>1 DEF PendingInv, FollowerInv, Follower!OutcomeIsTheRuns
  <2>6. \A t \in Sources : JobEnded(t)'
    BY <1>1, <2>1 DEF FollowerInv, JobEnded
  <2> QED  BY <2>3, <2>4, <2>5, <2>6 DEF FollowerInv
<1> QED  BY <1>2, <1>3

\* A run that was queued is followed, and the ticks before it are not.
LEMMA EnqueuedKeeps ==
  ASSUME FollowerInv, NEW k \in Callers, NEW s \in Sources, Follower!Enqueued(s, k)
  PROVE  FollowerInv'
<1>1. FollowerTypes /\ PendingInv /\ HeardInv
  BY DEF FollowerInv
<1>2. /\ s \in starting /\ starting' = starting \ {s}
      /\ job' = [job EXCEPT ![s] = [state |-> "waiting", warns |-> FALSE]]
      /\ ended' = [ended EXCEPT ![s] = {}]
      /\ split' = split \ {s} /\ lost' = lost \ {s} /\ row' = row
      /\ Follower!Follow(following \cup {s}, k)
  BY DEF Follower!Enqueued
<1>3. /\ following' = following \cup {s}
      /\ round' \in [Callers -> Answering]
      /\ \A j \in Callers : ~round'[j].live \/ round'[j] = Follower!Tick(following')
  BY <1>1, <1>2, FollowTicks
<1>4. HeardInv'
  BY <1>3, FreshTicksAreHeard
<1>5. FollowerTypes'
  BY <1>1, <1>2, <1>3 DEF FollowerTypes
<1>6. PendingInv'
  BY <1>1, <1>2, <1>3 DEF PendingInv
<1>7. ASSUME NEW t \in Sources
      PROVE  /\ t # s => job'[t] = job[t] /\ ended'[t] = ended[t]
             /\ job'[s] = [state |-> "waiting", warns |-> FALSE]
  BY <1>1, <1>2 DEF FollowerTypes
<1>8. \A t \in Sources : JobEnded(t)'
  <2> SUFFICES ASSUME NEW t \in Sources PROVE JobEnded(t)'
    OBVIOUS
  <2>1. CASE t = s
    BY <1>7, <2>1 DEF JobEnded
  <2>2. CASE t # s
    BY <1>3, <1>7, <2>2 DEF JobEnded, FollowerInv
  <2> QED  BY <2>1, <2>2
<1>9. Follower!OutcomeIsTheRuns'
  <2> SUFFICES ASSUME NEW t \in Sources \ starting'
               PROVE  /\ row'[t] = "failed" => "failed" \in ended'[t]
                      /\ row'[t] = "warned" => "warned" \in ended'[t]
                      /\ row'[t] = "done" =>
                           "done" \in ended'[t] \/ ("warned" \in ended'[t] /\ t \in split')
                      /\ row'[t] = "evicted" => ended'[t] # {} \/ t \in lost'
    BY DEF Follower!OutcomeIsTheRuns
  <2>1. CASE t = s
    BY <1>1, <1>2, <2>1 DEF PendingInv
  <2>2. CASE t # s
    BY <1>2, <1>7, <2>2 DEF FollowerInv, Follower!OutcomeIsTheRuns
  <2> QED  BY <2>1, <2>2
<1> QED  BY <1>4, <1>5, <1>6, <1>8, <1>9 DEF FollowerInv

\* A run that was asked for, or refused, is on its row.
LEMMA ButtonKeeps ==
  ASSUME FollowerInv, NEW s \in Sources, Follower!startRefresh(s) \/ Follower!NotEnqueued(s)
  PROVE  FollowerInv'
<1> USE DEF Follower!queue
<1>1. FollowerTypes /\ PendingInv /\ HeardInv
  BY DEF FollowerInv
<1>2. /\ UNCHANGED <<job, ended, following, round, split, lost>>
      /\ \/ /\ row[s] # "pending" /\ row' = [row EXCEPT ![s] = "pending"]
            /\ starting' = starting \cup {s}
         \/ /\ s \in starting /\ row' = [row EXCEPT ![s] = "refused"]
            /\ starting' = starting \ {s}
  BY DEF Follower!startRefresh, Follower!NotEnqueued
<1>3. HeardInv'
  BY <1>1, <1>2, FoundStaysSo
<1>4. FollowerTypes'
  BY <1>1, <1>2 DEF FollowerTypes
<1>5. \A t \in Sources : t # s => row'[t] = row[t]
  BY <1>1, <1>2 DEF FollowerTypes
<1>6. (row'[s] = "pending" /\ s \in starting') \/ row'[s] = "refused"
  BY <1>1, <1>2 DEF FollowerTypes
<1>7. PendingInv'
  BY <1>1, <1>2, <1>5, <1>6 DEF PendingInv, FollowerTypes
<1>8. \A t \in Sources : JobEnded(t)'
  BY <1>2 DEF FollowerInv, JobEnded
<1>9. Follower!OutcomeIsTheRuns'
  BY <1>2, <1>5, <1>6 DEF FollowerInv, Follower!OutcomeIsTheRuns
<1> QED  BY <1>3, <1>4, <1>7, <1>8, <1>9 DEF FollowerInv

\* A worker takes a run and ends it, the queue evicts it, somebody retries or
\* drops it.
LEMMA QueueKeeps ==
  ASSUME FollowerInv, NEW s \in Sources,
         \/ Follower!Work(s) \/ Follower!Fail(s) \/ Follower!Evict(s) \/ Follower!retry(s)
         \/ Follower!discard(s) \/ \E w \in BOOLEAN : Follower!Complete(s, w)
  PROVE  FollowerInv'
<1> USE DEF Follower!page
<1>1. FollowerTypes /\ JobEnded(s)
  BY DEF FollowerInv
<1>2. ended[s] \cup {} = ended[s] /\ ended = [ended EXCEPT ![s] = @ \cup {}]
  BY <1>1 DEF FollowerTypes
<1>3. CASE Follower!Work(s) \/ Follower!retry(s)
  <2> DEFINE next == [job[s] EXCEPT !.state = "waiting"]
             taken == [job[s] EXCEPT !.state = "active"]
  <2>1. job' = [job EXCEPT ![s] = next] \/ job' = [job EXCEPT ![s] = taken]
    BY <1>3 DEF Follower!Work, Follower!retry
  <2>2. UNCHANGED <<ended, row, starting, following, round, split, lost>>
    BY <1>3 DEF Follower!Work, Follower!retry
  <2>3. ~job[s].warns
    BY <1>1, <1>3 DEF JobEnded, Follower!Work, Follower!retry
  <2>4. /\ next \in [state: {"gone", "waiting", "active", "completed", "failed"}, warns: BOOLEAN]
        /\ taken \in [state: {"gone", "waiting", "active", "completed", "failed"}, warns: BOOLEAN]
        /\ next.state = "waiting" /\ taken.state = "active" /\ ~next.warns /\ ~taken.warns
    BY <1>1, <2>3 DEF FollowerTypes
  <2> HIDE DEF next, taken
  <2>5. ended' = [ended EXCEPT ![s] = @ \cup {}]
    BY <1>2, <2>2
  <2> QED  BY <2>1, <2>2, <2>4, <2>5, JobMoves
<1>4. CASE Follower!Fail(s)
  <2> DEFINE next == [job[s] EXCEPT !.state = "failed"]
  <2>1. /\ job' = [job EXCEPT ![s] = next] /\ ended' = [ended EXCEPT ![s] = @ \cup {"failed"}]
        /\ UNCHANGED <<row, starting, following, round, split, lost>>
    BY <1>4 DEF Follower!Fail
  <2>2. ~job[s].warns
    BY <1>1, <1>4 DEF JobEnded, Follower!Fail
  <2>3. /\ next \in [state: {"gone", "waiting", "active", "completed", "failed"}, warns: BOOLEAN]
        /\ next.state = "failed" /\ ~next.warns
    BY <1>1, <2>2 DEF FollowerTypes
  <2>4. "failed" \in ended'[s]
    BY <1>1, <2>1 DEF FollowerTypes
  <2> HIDE DEF next
  <2> QED  BY <2>1, <2>3, <2>4, JobMoves
<1>5. CASE Follower!Evict(s) \/ Follower!discard(s)
  <2>1. /\ job' = [job EXCEPT ![s] = Follower!NoJob]
        /\ UNCHANGED <<ended, row, starting, following, round, split, lost>>
    BY <1>5 DEF Follower!Evict, Follower!discard
  <2>2. /\ Follower!NoJob \in
             [state: {"gone", "waiting", "active", "completed", "failed"}, warns: BOOLEAN]
        /\ Follower!NoJob.state = "gone" /\ ~Follower!NoJob.warns
    BY DEF Follower!NoJob, Follower!Gone
  <2>3. ended[s] # {}
    <3>1. job[s].state \in {"completed", "failed"}
      BY <1>5 DEF Follower!Evict, Follower!discard
    <3> QED  BY <1>1, <3>1 DEF JobEnded
  <2>4. ended' = [ended EXCEPT ![s] = @ \cup {}] /\ ended'[s] # {}
    BY <1>2, <2>1, <2>3
  <2> QED  BY <2>1, <2>2, <2>4, JobMoves
<1>6. ASSUME NEW w \in BOOLEAN, Follower!Complete(s, w)  PROVE FollowerInv'
  <2> DEFINE next == [state |-> "completed", warns |-> w]
             how  == IF w THEN "warned" ELSE "done"
  <2>1. /\ job' = [job EXCEPT ![s] = next]
        /\ ended' = [ended EXCEPT ![s] = @ \cup {how}]
        /\ UNCHANGED <<row, starting, following, round, split, lost>>
    BY <1>6 DEF Follower!Complete
  <2>2. how \in ended'[s]
    BY <1>1, <2>1 DEF FollowerTypes
  <2>3. next \in [state: {"gone", "waiting", "active", "completed", "failed"}, warns: BOOLEAN]
    OBVIOUS
  <2>4. {how} \in SUBSET {"failed", "warned", "done"}
    OBVIOUS
  <2>5. /\ next.state = "completed"
        /\ next.warns => "warned" \in ended'[s]
        /\ ~next.warns => "done" \in ended'[s]
    BY <2>2
  <2> HIDE DEF next, how
  <2> QED  BY <2>1, <2>3, <2>4, <2>5, JobMoves
<1> QED  BY <1>3, <1>4, <1>5, <1>6

\* The interval asks again for what is followed.
LEMMA IntervalKeeps ==
  ASSUME FollowerInv, NEW k \in Callers, Follower!Interval(k)
  PROVE  FollowerInv'
<1> USE DEF Follower!queue
<1>1. FollowerTypes /\ PendingInv /\ HeardInv
  BY DEF FollowerInv
<1>2. /\ round' = [round EXCEPT ![k] = Follower!Tick(following)]
      /\ UNCHANGED <<job, ended, row, starting, following, split, lost>>
  BY DEF Follower!Interval
<1>3. FollowerTypes'
  BY <1>1, <1>2, TickAsks DEF FollowerTypes
<1>4. ASSUME NEW j \in Callers
      PROVE  round'[j] = IF j = k THEN Follower!Tick(following) ELSE round[j]
  BY <1>1, <1>2 DEF FollowerTypes
<1>5. HeardInv'
  <2> SUFFICES ASSUME NEW j \in Callers, NEW s \in Sources, round'[j].live
               PROVE  /\ round'[j].got[s].step # "none" => s \in following'
                      /\ Told(round[j].got[s], s)'
    BY DEF HeardInv
  <2>1. CASE j = k
    <3>1. /\ round'[j].got[s].step \in {"none", "job"}
          /\ round'[j].got[s].step = "none" \/ s \in following
      BY <1>4, <2>1, TickAsks
    <3> QED  BY <1>2, <3>1 DEF Told
  <2>2. CASE j # k
    <3>1. round'[j] = round[j]
      BY <1>4, <2>2
    <3>2. Told(round[j].got[s], s) /\ (round[j].got[s].step # "none" => s \in following)
      BY <1>1, <3>1 DEF HeardInv
    <3> QED  BY <1>2, <3>1, <3>2 DEF Told
  <2> QED  BY <2>1, <2>2
<1>6. PendingInv' /\ Follower!OutcomeIsTheRuns'
  BY <1>1, <1>2 DEF PendingInv, FollowerInv, Follower!OutcomeIsTheRuns
<1>7. \A t \in Sources : JobEnded(t)'
  BY <1>2 DEF FollowerInv, JobEnded
<1> QED  BY <1>3, <1>5, <1>6, <1>7 DEF FollowerInv

\* What a row reports happened to the run it is about, whatever ticks are still
\* being answered (SourcesPage, JobsService.getStatus).
THEOREM RowsStayTheRuns == Follower!Spec => []Follower!OutcomeIsTheRuns
<1>1. Follower!Init => FollowerInv
  <2> SUFFICES ASSUME Follower!Init PROVE FollowerInv
    OBVIOUS
  <2>1. /\ job = [s \in Sources |-> Follower!NoJob] /\ row = [s \in Sources |-> "idle"]
        /\ starting = {} /\ following = {} /\ round = [k \in Callers |-> Follower!NoRound]
        /\ ended = [s \in Sources |-> {}]
    BY DEF Follower!Init
  <2>2. /\ Follower!NoJob \in
             [state: {"gone", "waiting", "active", "completed", "failed"}, warns: BOOLEAN]
        /\ Follower!NoJob.state = "gone" /\ ~Follower!NoJob.warns
    BY DEF Follower!NoJob, Follower!Gone
  <2>3. FollowerTypes
    BY <2>1, <2>2, NoRoundIsDead DEF FollowerTypes
  <2>4. HeardInv
    BY <2>1, NoRoundIsDead DEF HeardInv
  <2>5. PendingInv /\ Follower!OutcomeIsTheRuns
    BY <2>1 DEF PendingInv, Follower!OutcomeIsTheRuns
  <2>6. \A s \in Sources : JobEnded(s)
    BY <2>1, <2>2 DEF JobEnded
  <2> QED  BY <2>3, <2>4, <2>5, <2>6 DEF FollowerInv
<1>2. FollowerInv /\ [Follower!Next]_(Follower!vars) => FollowerInv'
  <2> SUFFICES ASSUME FollowerInv, [Follower!Next]_(Follower!vars) PROVE FollowerInv'
    OBVIOUS
  <2>1. CASE UNCHANGED Follower!vars
    BY <2>1 DEF Follower!vars, FollowerInv, FollowerTypes, PendingInv, HeardInv, JobEnded, Told,
       Follower!OutcomeIsTheRuns
  <2>2. CASE Follower!Next
    BY <2>2, ButtonKeeps, QueueKeeps, IntervalKeeps, EnqueuedKeeps, GetJobKeeps, GetStateKeeps,
       TickAnswersKeep DEF Follower!Next
  <2> QED  BY <2>1, <2>2
<1>3. FollowerInv => Follower!OutcomeIsTheRuns
  BY DEF FollowerInv
<1> QED  BY <1>1, <1>2, <1>3, PTL DEF Follower!Spec

-----------------------------------------------------------------------------
(* The dialog of a source.                                                 *)

SourceRow ==
  [kind : {"github", "gitlab"}, authKind : {"token", "app"}, mode : {"live", "stored"},
   webhooksEnabled : BOOLEAN, scope : Source!Scopes, rules : SUBSET Source!Rules,
   trackers : SUBSET Trackers, incidentTracker : Trackers \cup {Source!None}]

SourceType ==
  /\ stored \in SourceRow
  /\ form \in [source : SourceRow, typed : {"token", "app", Source!None}]
  /\ repos \in [shown : BOOLEAN, names : SUBSET Repos]
  /\ selected \subseteq Repos
  /\ open \in BOOLEAN /\ hookSecret \in BOOLEAN /\ unissued \in BOOLEAN

\* The boxes that are ticked are the repositories the scope covers, whether or not
\* the dialog is still open.
BoxesAreTheScope ==
  repos.shown =>
    \A r \in repos.names : Source!scopeTracks(form.source.scope, r) <=> r \in selected

SourceInv ==
  /\ open => BoxesAreTheScope
  /\ credential = stored.authKind
  /\ stored.webhooksEnabled => hookSecret \/ unissued

\* A scope made of a selection covers the part of the catalogue that was picked,
\* whichever side it is written on (scopeFromSelection).
LEMMA SelectionIsCovered ==
  ASSUME NEW s \in Source!Scopes, NEW names \in SUBSET Repos, NEW picked \in SUBSET names,
         NEW new \in BOOLEAN
  PROVE  LET t == Source!scopeFromSelection(s, names, picked, new)
         IN /\ t \in Source!Scopes
            /\ \A r \in names : Source!scopeTracks(t, r) <=> r \in picked
BY DEF Source!scopeFromSelection, Source!scopeTracks, Source!Scopes

\* An edit of the form that keeps its scope, the catalogue and the boxes.
LEMMA EditKeeps ==
  ASSUME SourceType, SourceInv, NEW f \in [source : SourceRow, typed : {"token", "app", Source!None}],
         f.source.scope = form.source.scope, Source!Edit(f), UNCHANGED <<repos, selected>>
  PROVE  SourceType' /\ SourceInv'
BY DEF SourceType, SourceInv, BoxesAreTheScope, Source!Edit, Source!scopeTracks

\* The dialog opens on the stored source, closes, and asks for the catalogue.
LEMMA DialogKeeps ==
  ASSUME SourceType, SourceInv,
         \/ Source!Open \/ Source!Close \/ Source!showRepos \/ Source!ReposFail
         \/ \E n \in SUBSET Repos : Source!ReposAnswer(n)
  PROVE  SourceType' /\ SourceInv'
<1>1. ASSUME Source!Open  PROVE SourceType' /\ SourceInv'
  BY <1>1 DEF SourceType, SourceInv, BoxesAreTheScope, Source!Open, Source!toForm, Source!Hidden
<1>2. ASSUME Source!Close  PROVE SourceType' /\ SourceInv'
  BY <1>2 DEF SourceType, SourceInv, Source!Close
<1>3. ASSUME Source!showRepos \/ Source!ReposFail  PROVE SourceType' /\ SourceInv'
  BY <1>3 DEF SourceType, SourceInv, BoxesAreTheScope, Source!scopeTracks, Source!showRepos,
              Source!ReposFail
<1>4. ASSUME NEW n \in SUBSET Repos, Source!ReposAnswer(n)  PROVE SourceType' /\ SourceInv'
  BY <1>4 DEF SourceType, SourceInv, BoxesAreTheScope, Source!scopeTracks, Source!ReposAnswer
<1> QED  BY <1>1, <1>2, <1>3, <1>4

\* The edits.
LEMMA EditsKeep ==
  ASSUME SourceType, SourceInv,
         \/ \E k \in {"github", "gitlab"} : Source!changeKind(k)
         \/ \E a \in {"token", "app"} : Source!setAuthKind(a) \/ Source!typeSecret(a)
         \/ \E m \in {"live", "stored"} : Source!setMode(m)
         \/ \E b \in BOOLEAN : Source!setWebhooks(b)
         \/ \E t \in SUBSET Trackers : Source!changeTrackers(t)
         \/ \E t \in Trackers \cup {Source!None} : Source!setIncident(t)
         \/ \E r \in SUBSET Offered : Source!changeRules(r)
  PROVE  SourceType' /\ SourceInv'
<1> DEFINE Forms == [source : SourceRow, typed : {"token", "app", Source!None}]
           At(s, t) == [source |-> s, typed |-> t]
           Same(f) == f \in Forms /\ f.source.scope = form.source.scope
<1>0. form.source \in SourceRow /\ form.typed \in {"token", "app", Source!None}
      /\ form = [source |-> form.source, typed |-> form.typed]
  BY DEF SourceType
<1>1. ASSUME NEW s \in SourceRow, s.scope = form.source.scope
      PROVE  Same(Source!With(s)) /\ Source!With(s) = At(s, form.typed)
  BY <1>0, <1>1 DEF Source!With, SourceType
<1>2. ASSUME NEW s \in SourceRow, s.scope = form.source.scope,
             NEW t \in {"token", "app", Source!None}
      PROVE  Same(At(s, t))
  BY <1>2
<1>3. ASSUME NEW k \in {"github", "gitlab"}, Source!changeKind(k)
      PROVE  SourceType' /\ SourceInv'
  <2> DEFINE s == [form.source EXCEPT !.kind = k,
                                      !.authKind = IF k = "gitlab" THEN "token" ELSE @]
  <2>1. s \in SourceRow /\ s.scope = form.source.scope
    BY <1>0 DEF SourceRow
  <2>2. Source!Edit(Source!With(s)) /\ UNCHANGED <<repos, selected>>
    BY <1>3 DEF Source!changeKind
  <2> HIDE DEF s
  <2> QED  BY <1>1, <2>1, <2>2, EditKeeps
<1>4. ASSUME NEW s \in SourceRow, s.scope = form.source.scope,
             NEW t \in {"token", "app", Source!None}, Source!set(s, t)
      PROVE  SourceType' /\ SourceInv'
  BY <1>2, <1>4, EditKeeps DEF Source!set
<1>5. ASSUME NEW a \in {"token", "app"}, Source!setAuthKind(a) \/ Source!typeSecret(a)
      PROVE  SourceType' /\ SourceInv'
  <2> DEFINE s == [form.source EXCEPT !.authKind = a]
  <2>1. s \in SourceRow /\ s.scope = form.source.scope
    BY <1>0 DEF SourceRow
  <2>2. Source!set(s, form.typed) \/ Source!set(form.source, a)
    BY <1>5 DEF Source!setAuthKind, Source!typeSecret
  <2> HIDE DEF s
  <2> QED  BY <1>0, <1>4, <2>1, <2>2
<1>6. ASSUME NEW m \in {"live", "stored"}, Source!setMode(m)
      PROVE  SourceType' /\ SourceInv'
  <2> DEFINE s == [form.source EXCEPT !.mode = m]
  <2>1. s \in SourceRow /\ s.scope = form.source.scope
    BY <1>0 DEF SourceRow
  <2>2. Source!set(s, form.typed)
    BY <1>6 DEF Source!setMode
  <2> HIDE DEF s
  <2> QED  BY <1>0, <1>4, <2>1, <2>2
<1>7. ASSUME NEW b \in BOOLEAN, Source!setWebhooks(b)
      PROVE  SourceType' /\ SourceInv'
  <2> DEFINE s == [form.source EXCEPT !.webhooksEnabled = b]
  <2>1. s \in SourceRow /\ s.scope = form.source.scope
    BY <1>0 DEF SourceRow
  <2>2. Source!set(s, form.typed)
    BY <1>7 DEF Source!setWebhooks
  <2> HIDE DEF s
  <2> QED  BY <1>0, <1>4, <2>1, <2>2
<1>8. ASSUME NEW t \in SUBSET Trackers, Source!changeTrackers(t)
      PROVE  SourceType' /\ SourceInv'
  <2> DEFINE s == [form.source EXCEPT !.trackers = t,
                                      !.incidentTracker = IF @ \in t THEN @ ELSE Source!None]
  <2>1. s \in SourceRow /\ s.scope = form.source.scope
    BY <1>0 DEF SourceRow
  <2>2. Source!Edit(Source!With(s)) /\ UNCHANGED <<repos, selected>>
    BY <1>8 DEF Source!changeTrackers
  <2> HIDE DEF s
  <2> QED  BY <1>1, <2>1, <2>2, EditKeeps
<1>9. ASSUME NEW t \in Trackers \cup {Source!None}, Source!setIncident(t)
      PROVE  SourceType' /\ SourceInv'
  <2> DEFINE s == [form.source EXCEPT !.incidentTracker = t]
  <2>1. s \in SourceRow /\ s.scope = form.source.scope
    BY <1>0 DEF SourceRow
  <2>2. Source!set(s, form.typed)
    BY <1>9 DEF Source!setIncident
  <2> HIDE DEF s
  <2> QED  BY <1>0, <1>4, <2>1, <2>2
<1>10. ASSUME NEW r \in SUBSET Offered, Source!changeRules(r)
       PROVE  SourceType' /\ SourceInv'
  <2> DEFINE s == [form.source EXCEPT !.rules = r]
  <2>1. s \in SourceRow /\ s.scope = form.source.scope
    BY <1>0 DEF SourceRow, Source!Rules
  <2>2. Source!Edit(Source!With(s)) /\ UNCHANGED <<repos, selected>>
    BY <1>10 DEF Source!changeRules
  <2> HIDE DEF s
  <2> QED  BY <1>1, <2>1, <2>2, EditKeeps
<1> QED  BY <1>3, <1>5, <1>6, <1>7, <1>8, <1>9, <1>10

\* The edits of the scope: another owner drops the catalogue, another selection
\* rewrites the scope to cover it.
LEMMA ScopeKeeps ==
  ASSUME SourceType, SourceInv,
         \/ \E o \in Owners : Source!changeOwner(o)
         \/ \E n \in SUBSET repos.names, b \in BOOLEAN : Source!changeSelection(n, b)
  PROVE  SourceType' /\ SourceInv'
<1>0. form.source \in SourceRow /\ form.typed \in {"token", "app", Source!None}
      /\ form.source.scope \in Source!Scopes
  BY DEF SourceType, SourceRow
<1>1. ASSUME NEW o \in Owners, Source!changeOwner(o)
      PROVE  SourceType' /\ SourceInv'
  <2> DEFINE s == [form.source EXCEPT !.scope.owner = o]
  <2>1. s.scope \in Source!Scopes /\ s = [form.source EXCEPT !.scope = s.scope]
    BY <1>0 DEF SourceRow, Source!Scopes
  <2>2. s \in SourceRow
    BY <1>0, <2>1 DEF SourceRow
  <2>3. Source!Edit(Source!With(s)) /\ repos' = Source!Hidden /\ UNCHANGED <<selected, touched>>
    BY <1>1 DEF Source!changeOwner
  <2> HIDE DEF s
  <2> QED  BY <2>2, <2>3 DEF SourceType, SourceInv, BoxesAreTheScope, Source!Edit, Source!With,
                             Source!Hidden
<1>2. ASSUME NEW n \in SUBSET repos.names, NEW b \in BOOLEAN, Source!changeSelection(n, b)
      PROVE  SourceType' /\ SourceInv'
  <2> DEFINE c == Source!scopeFromSelection(form.source.scope, repos.names, n, b)
             s == [form.source EXCEPT !.scope = c]
  <2>1. repos.names \in SUBSET Repos
    BY DEF SourceType
  <2>2. c \in Source!Scopes /\ \A r \in repos.names : Source!scopeTracks(c, r) <=> r \in n
    BY <1>0, <2>1, SelectionIsCovered
  <2>3. Source!Edit(Source!With(s)) /\ selected' = n /\ UNCHANGED <<repos, touched>>
    BY <1>2 DEF Source!changeSelection
  <2> HIDE DEF c
  <2>4. s \in SourceRow /\ s.scope = c
    BY <1>0, <2>2 DEF SourceRow
  <2> HIDE DEF s
  <2>5. form' = Source!With(s) /\ UNCHANGED <<stored, credential, hookSecret, open, unissued>>
    BY <2>3 DEF Source!Edit
  <2>6. form'.source = s /\ form' \in [source : SourceRow, typed : {"token", "app", Source!None}]
    BY <2>4, <2>5 DEF Source!With, SourceType
  <2>7. BoxesAreTheScope'
    BY <2>2, <2>3, <2>4, <2>6 DEF BoxesAreTheScope, Source!scopeTracks
  <2> QED  BY <2>1, <2>3, <2>5, <2>6, <2>7 DEF SourceType, SourceInv
<1> QED  BY <1>1, <1>2

\* A save: the credentials of the scheme are typed whenever the scheme changed, and
\* a source that starts to listen has its secret issued, or says that it was not.
LEMMA SaveKeeps ==
  ASSUME SourceType, SourceInv, NEW issued \in BOOLEAN, Source!submit(issued)
  PROVE  SourceType' /\ SourceInv'
<1> DEFINE s == Source!toUpdateInput(form)
<1>1. s \in SourceRow /\ s.authKind = form.source.authKind
  BY DEF SourceType, SourceRow, Source!toUpdateInput
<1>2. /\ stored' = s /\ open' = FALSE /\ UNCHANGED <<form, repos, selected>>
      /\ (s.webhooksEnabled /\ ~stored.webhooksEnabled) \/ issued
      /\ form.source.authKind # stored.authKind => form.typed = form.source.authKind
      /\ credential' = IF form.typed = form.source.authKind THEN form.typed ELSE credential
  BY DEF Source!submit, Source!SecretRequired
<1>3. /\ hookSecret' = (s.webhooksEnabled
           /\ (hookSecret \/ (s.webhooksEnabled /\ ~stored.webhooksEnabled /\ issued)))
      /\ unissued' = (s.webhooksEnabled /\ (unissued \/ ~issued))
  BY DEF Source!submit
<1> HIDE DEF s
<1>4. SourceType'
  BY <1>1, <1>2, <1>3 DEF SourceType
<1>5. credential' = stored'.authKind
  BY <1>1, <1>2 DEF SourceInv
<1>6. stored'.webhooksEnabled => hookSecret' \/ unissued'
  BY <1>2, <1>3 DEF SourceInv
<1> QED  BY <1>2, <1>4, <1>5, <1>6 DEF SourceInv

\* What the dialog saved can be read with what was saved: the scope covers what was
\* ticked, the credentials are of the scheme, and a listening source has its
\* secret unless none could be issued (submit, scopeFromSelection).
THEOREM SavedStaysUsable == Source!Spec => []Source!SavedIsUsable
<1>1. Source!Init => SourceType /\ SourceInv
  <2> SUFFICES ASSUME Source!Init PROVE SourceType /\ SourceInv
    OBVIOUS
  <2>1. stored \in SourceRow
    <3> DEFINE Whole == {[owner |-> o, include |-> {}, exclude |-> {}, trackNewRepos |-> TRUE] :
                           o \in Owners}
    <3>1. Whole \subseteq Source!Scopes
      <4>1. \A o \in Owners : [owner |-> o, include |-> {}, exclude |-> {}, trackNewRepos |-> TRUE]
                               \in Source!Scopes
        BY DEF Source!Scopes
      <4> QED  BY <4>1, Zenon
    <3>2. stored \in [kind : {"github"}, authKind : {"token", "app"}, mode : {"live", "stored"},
                      webhooksEnabled : BOOLEAN, scope : Whole, rules : SUBSET Source!Rules,
                      trackers : {Trackers}, incidentTracker : Trackers \cup {Source!None}]
      BY DEF Source!Init
    <3> HIDE DEF Whole
    <3> QED  BY <3>1, <3>2 DEF SourceRow
  <2>2. form = [source |-> stored, typed |-> Source!None] /\ repos = [shown |-> FALSE, names |-> {}]
    BY DEF Source!Init, Source!toForm, Source!Hidden
  <2>3. stored.webhooksEnabled \in BOOLEAN
    BY <2>1 DEF SourceRow
  <2>4. selected = {} /\ open = FALSE /\ unissued = FALSE /\ hookSecret = stored.webhooksEnabled
        /\ credential = stored.authKind
    BY DEF Source!Init
  <2> QED  BY <2>1, <2>2, <2>3, <2>4 DEF SourceType, SourceInv
<1>2. SourceType /\ SourceInv /\ [Source!Next]_(Source!vars) => SourceType' /\ SourceInv'
  <2> SUFFICES ASSUME SourceType, SourceInv, [Source!Next]_(Source!vars)
               PROVE  SourceType' /\ SourceInv'
    OBVIOUS
  <2>1. CASE UNCHANGED Source!vars
    BY <2>1 DEF Source!vars, Source!dialogs, SourceType, SourceInv, BoxesAreTheScope,
                Source!scopeTracks
  <2>2. CASE Source!Next
    BY <2>2, DialogKeeps, EditsKeep, ScopeKeeps, SaveKeeps DEF Source!Next
  <2> QED  BY <2>1, <2>2
<1>3. SourceType /\ SourceInv => Source!SavedIsUsable
  BY DEF SourceInv, BoxesAreTheScope, Source!SavedIsUsable
<1> QED  BY <1>1, <1>2, <1>3, PTL DEF Source!Spec

-----------------------------------------------------------------------------
(* The dialogs of a row.                                                   *)

IsForm(draft) ==
  DOMAIN draft = Rows!Fields /\ \A f \in Rows!Fields : draft[f] \in dialog.values[f]
IsEditor(x) == DOMAIN x = {"open", "form", "touched", "stale"} /\ x.open \in BOOLEAN

\* What a form of the stored row shows where its reader typed nothing.
RowsInv ==
  /\ dialog \in Rows!Dialogs
  /\ \A f \in Rows!Fields : row[f] \in Rows!StoredValues(dialog, f)
  /\ DOMAIN editor = Callers
  /\ \A e \in Callers :
       /\ IsEditor(editor[e])
       /\ editor[e].open =>
            /\ IsForm(editor[e].form)
            /\ \A f \in Rows!Fields :
                 ~editor[e].stale /\ f \notin editor[e].touched =>
                   editor[e].form[f] = Rows!toForm(row)[f]

\* What every dialog has in common: no field shows a null, only a list of lines
\* has an unnamed one, what can be left out or blanked can be blank, and a blanked
\* field is not one that must be filled in.
FieldIsMade(d, f) ==
  /\ "null" \notin d.values[f]
  /\ "unnamed" \in d.values[f] => f \in d.lines
  /\ f \in d.lines \cup d.blanked => "" \in d.values[f] /\ f \notin d.required
  /\ f \in d.optional \cup d.secrets => "" \in d.values[f]
WellMade(d) == \A f \in DOMAIN d.values : FieldIsMade(d, f)

\* Each of the eight dialogs is made that way.
LEMMA DialogsAreWellMade == \A d \in Rows!Dialogs : WellMade(d)
<1> USE DEF Rows!Texts, Rows!Lines
<1>1. WellMade(Rows!EnvRuleDialog)
  <2>1. DOMAIN Rows!EnvRuleDialog.values = {"name", "repo", "kind", "attributes"}
    BY DEF Rows!EnvRuleDialog
  <2>2. FieldIsMade(Rows!EnvRuleDialog, "name")
    BY DEF FieldIsMade, Rows!EnvRuleDialog
  <2>3. FieldIsMade(Rows!EnvRuleDialog, "repo")
    BY DEF FieldIsMade, Rows!EnvRuleDialog
  <2>4. FieldIsMade(Rows!EnvRuleDialog, "kind")
    BY DEF FieldIsMade, Rows!EnvRuleDialog
  <2>5. FieldIsMade(Rows!EnvRuleDialog, "attributes")
    BY DEF FieldIsMade, Rows!EnvRuleDialog
  <2> QED  BY <2>1, <2>2, <2>3, <2>4, <2>5 DEF WellMade
<1>2. WellMade(Rows!EnvUrlRuleDialog)
  <2>1. DOMAIN Rows!EnvUrlRuleDialog.values = {"name", "repo", "mode"}
    BY DEF Rows!EnvUrlRuleDialog
  <2>2. FieldIsMade(Rows!EnvUrlRuleDialog, "name")
    BY DEF FieldIsMade, Rows!EnvUrlRuleDialog
  <2>3. FieldIsMade(Rows!EnvUrlRuleDialog, "repo")
    BY DEF FieldIsMade, Rows!EnvUrlRuleDialog
  <2>4. FieldIsMade(Rows!EnvUrlRuleDialog, "mode")
    BY DEF FieldIsMade, Rows!EnvUrlRuleDialog
  <2> QED  BY <2>1, <2>2, <2>3, <2>4 DEF WellMade
<1>3. WellMade(Rows!ManualEnvironmentDialog)
  <2>1. DOMAIN Rows!ManualEnvironmentDialog.values = {"environment", "repo", "url", "attributes", "mode"}
    BY DEF Rows!ManualEnvironmentDialog
  <2>2. FieldIsMade(Rows!ManualEnvironmentDialog, "environment")
    BY DEF FieldIsMade, Rows!ManualEnvironmentDialog
  <2>3. FieldIsMade(Rows!ManualEnvironmentDialog, "repo")
    BY DEF FieldIsMade, Rows!ManualEnvironmentDialog
  <2>4. FieldIsMade(Rows!ManualEnvironmentDialog, "url")
    BY DEF FieldIsMade, Rows!ManualEnvironmentDialog
  <2>5. FieldIsMade(Rows!ManualEnvironmentDialog, "attributes")
    BY DEF FieldIsMade, Rows!ManualEnvironmentDialog
  <2>6. FieldIsMade(Rows!ManualEnvironmentDialog, "mode")
    BY DEF FieldIsMade, Rows!ManualEnvironmentDialog
  <2> QED  BY <2>1, <2>2, <2>3, <2>4, <2>5, <2>6 DEF WellMade
<1>4. WellMade(Rows!TicketRuleDialog)
  <2>1. DOMAIN Rows!TicketRuleDialog.values = {"name", "trackerId", "sources"}
    BY DEF Rows!TicketRuleDialog
  <2>2. FieldIsMade(Rows!TicketRuleDialog, "name")
    BY DEF FieldIsMade, Rows!TicketRuleDialog
  <2>3. FieldIsMade(Rows!TicketRuleDialog, "trackerId")
    BY DEF FieldIsMade, Rows!TicketRuleDialog
  <2>4. FieldIsMade(Rows!TicketRuleDialog, "sources")
    BY DEF FieldIsMade, Rows!TicketRuleDialog
  <2> QED  BY <2>1, <2>2, <2>3, <2>4 DEF WellMade
<1>5. WellMade(Rows!VersionRuleDialog)
  <2>1. DOMAIN Rows!VersionRuleDialog.values =
         {"environment", "format", "pattern", "authKind", "authHeader", "headers", "secret"}
    BY DEF Rows!VersionRuleDialog
  <2>2. FieldIsMade(Rows!VersionRuleDialog, "environment")
    BY DEF FieldIsMade, Rows!VersionRuleDialog
  <2>3. FieldIsMade(Rows!VersionRuleDialog, "format")
    BY DEF FieldIsMade, Rows!VersionRuleDialog
  <2>4. FieldIsMade(Rows!VersionRuleDialog, "pattern")
    BY DEF FieldIsMade, Rows!VersionRuleDialog
  <2>5. FieldIsMade(Rows!VersionRuleDialog, "authKind")
    BY DEF FieldIsMade, Rows!VersionRuleDialog
  <2>6. FieldIsMade(Rows!VersionRuleDialog, "authHeader")
    BY DEF FieldIsMade, Rows!VersionRuleDialog
  <2>7. FieldIsMade(Rows!VersionRuleDialog, "headers")
    BY DEF FieldIsMade, Rows!VersionRuleDialog
  <2>8. FieldIsMade(Rows!VersionRuleDialog, "secret")
    BY DEF FieldIsMade, Rows!VersionRuleDialog
  <2> QED  BY <2>1, <2>2, <2>3, <2>4, <2>5, <2>6, <2>7, <2>8 DEF WellMade
<1>6. WellMade(Rows!ProviderDialog)
  <2>1. DOMAIN Rows!ProviderDialog.values = {"kind", "model", "apiKey", "baseUrl"}
    BY DEF Rows!ProviderDialog
  <2>2. FieldIsMade(Rows!ProviderDialog, "kind")
    BY DEF FieldIsMade, Rows!ProviderDialog
  <2>3. FieldIsMade(Rows!ProviderDialog, "model")
    BY DEF FieldIsMade, Rows!ProviderDialog
  <2>4. FieldIsMade(Rows!ProviderDialog, "apiKey")
    BY DEF FieldIsMade, Rows!ProviderDialog
  <2>5. FieldIsMade(Rows!ProviderDialog, "baseUrl")
    BY DEF FieldIsMade, Rows!ProviderDialog
  <2> QED  BY <2>1, <2>2, <2>3, <2>4, <2>5 DEF WellMade
<1>7. WellMade(Rows!TrackerDialog)
  <2>1. DOMAIN Rows!TrackerDialog.values = {"name", "kind", "urlTemplate"}
    BY DEF Rows!TrackerDialog
  <2>2. FieldIsMade(Rows!TrackerDialog, "name")
    BY DEF FieldIsMade, Rows!TrackerDialog
  <2>3. FieldIsMade(Rows!TrackerDialog, "kind")
    BY DEF FieldIsMade, Rows!TrackerDialog
  <2>4. FieldIsMade(Rows!TrackerDialog, "urlTemplate")
    BY DEF FieldIsMade, Rows!TrackerDialog
  <2> QED  BY <2>1, <2>2, <2>3, <2>4 DEF WellMade
<1>8. WellMade(Rows!UserDialog)
  <2>1. DOMAIN Rows!UserDialog.values = {"name", "role", "password"}
    BY DEF Rows!UserDialog
  <2>2. FieldIsMade(Rows!UserDialog, "name")
    BY DEF FieldIsMade, Rows!UserDialog
  <2>3. FieldIsMade(Rows!UserDialog, "role")
    BY DEF FieldIsMade, Rows!UserDialog
  <2>4. FieldIsMade(Rows!UserDialog, "password")
    BY DEF FieldIsMade, Rows!UserDialog
  <2> QED  BY <2>1, <2>2, <2>3, <2>4 DEF WellMade
<1> QED  BY <1>1, <1>2, <1>3, <1>4, <1>5, <1>6, <1>7, <1>8 DEF Rows!Dialogs

\* The secret of a version rule is shown under an authentication.
LEMMA VersionRuleFields ==
  ASSUME dialog = Rows!VersionRuleDialog
  PROVE  /\ dialog.secrets = {"secret"} /\ "authKind" \in Rows!Fields
         /\ "authKind" \notin dialog.blanked /\ "authKind" \notin dialog.lines
         /\ "secret" \in DOMAIN dialog.shown
         /\ dialog.shown["secret"].by = "authKind" /\ "none" \notin dialog.shown["secret"].when
  BY DEF Rows!VersionRuleDialog, Rows!Fields

\* A vendor brings a model its field can show.
LEMMA ProviderFields ==
  ASSUME dialog = Rows!ProviderDialog
  PROVE  /\ "kind" \in Rows!Fields /\ "model" \in Rows!Fields
         /\ {"", "default"} \subseteq dialog.values["model"]
  BY DEF Rows!ProviderDialog, Rows!Fields

\* A row on screen shows values its fields can show.
LEMMA RowIsAForm ==
  ASSUME RowsInv
  PROVE  IsForm(Rows!toForm(row))
<1>1. WellMade(dialog)
  BY DialogsAreWellMade DEF RowsInv
<1>2. ASSUME NEW f \in Rows!Fields
      PROVE  /\ Rows!toForm(row)[f] =
                  IF f \in dialog.secrets \/ row[f] = "null" THEN "" ELSE row[f]
             /\ Rows!toForm(row)[f] \in dialog.values[f]
  <2>1. row[f] \in Rows!StoredValues(dialog, f)
    BY DEF RowsInv
  <2>2. Rows!toForm(row)[f] = IF f \in dialog.secrets \/ row[f] = "null" THEN "" ELSE row[f]
    BY DEF Rows!toForm
  <2>3. f \in DOMAIN dialog.values
    BY DEF Rows!Fields
  <2> QED  BY <1>1, <2>1, <2>2, <2>3 DEF WellMade, FieldIsMade, Rows!StoredValues
<1> QED  BY <1>2 DEF IsForm, Rows!toForm

\* What a save leaves in a field of the table, from what its form said.
LEMMA SavedField ==
  ASSUME RowsInv, NEW e \in Callers, Rows!submit(e), NEW f \in Rows!Fields,
         NEW draft, draft = editor[e].form, NEW sent, sent = Rows!payload(draft)
  PROVE  /\ row'[f] \in Rows!StoredValues(dialog, f)
         /\ \/ Rows!Moot(draft, f)
            \/ ~Rows!Shown(draft, f) /\ f \in dialog.secrets
            \/ row'[f] = row[f] /\ f \in dialog.secrets /\ draft[f] = ""
            \/ draft[f] = "unnamed" /\ f \in dialog.lines /\ row'[f] \in {"null", ""}
            \/ /\ f \in dialog.secrets => draft[f] # ""
               /\ row'[f] = IF f \in dialog.optional \cup dialog.secrets /\ draft[f] = ""
                            THEN "null" ELSE draft[f]
<1>1. WellMade(dialog) /\ f \in DOMAIN dialog.values
  BY DialogsAreWellMade DEF RowsInv, Rows!Fields
<1>2. draft[f] \in dialog.values[f] /\ (f \in dialog.required => draft[f] # "")
  BY DEF RowsInv, IsForm, Rows!submit
<1>3. row' = Rows!update(row, sent)
  BY DEF Rows!submit
<1>4. /\ DOMAIN sent = {g \in Rows!Fields : g \in dialog.secrets => draft[g] # ""}
      /\ \A g \in DOMAIN sent :
           sent[g] = IF Rows!Moot(draft, g) \/ (g \in dialog.lines /\ draft[g] = "unnamed")
                     THEN "" ELSE draft[g]
  BY DEF Rows!payload
<1>5. row'[f] = IF f \in DOMAIN sent
                THEN IF f \in dialog.optional \cup dialog.secrets /\ sent[f] = ""
                     THEN "null" ELSE sent[f]
                ELSE IF dialog = Rows!VersionRuleDialog /\ sent.authKind = "none"
                     THEN "null" ELSE row[f]
  BY <1>3 DEF Rows!update
<1>6. CASE f \notin DOMAIN sent
  <2>1. f \in dialog.secrets /\ draft[f] = ""
    BY <1>4, <1>6
  <2>2. CASE dialog = Rows!VersionRuleDialog /\ sent.authKind = "none"
    <3>1. f = "secret" /\ "authKind" \in DOMAIN sent
      BY <1>4, <2>1, <2>2, VersionRuleFields
    <3>2. sent["authKind"] = draft["authKind"]
      BY <1>4, <2>2, <3>1, VersionRuleFields DEF Rows!Moot
    <3>3. ~Rows!Shown(draft, f)
      BY <2>2, <3>1, <3>2, VersionRuleFields DEF Rows!Shown
    <3>4. row'[f] = "null"
      BY <1>5, <1>6, <2>2
    <3> QED  BY <2>1, <3>3, <3>4 DEF Rows!StoredValues
  <2>3. CASE ~(dialog = Rows!VersionRuleDialog /\ sent.authKind = "none")
    <3>1. row'[f] = row[f]
      BY <1>5, <1>6, <2>3
    <3> QED  BY <2>1, <3>1 DEF RowsInv
  <2> QED  BY <2>2, <2>3
<1>7. CASE f \in DOMAIN sent
  <2>1. f \in dialog.secrets => draft[f] # ""
    BY <1>4, <1>7
  <2>2. CASE Rows!Moot(draft, f) \/ (f \in dialog.lines /\ draft[f] = "unnamed")
    <3>1. row'[f] = IF f \in dialog.optional \cup dialog.secrets THEN "null" ELSE ""
      BY <1>4, <1>5, <1>7, <2>2
    <3>2. "" \in dialog.values[f] /\ f \notin dialog.required
      BY <1>1, <2>2 DEF WellMade, FieldIsMade, Rows!Moot
    <3>3. row'[f] \in Rows!StoredValues(dialog, f)
      BY <3>1, <3>2 DEF Rows!StoredValues
    <3> QED  BY <2>2, <3>1, <3>3
  <2>3. CASE ~(Rows!Moot(draft, f) \/ (f \in dialog.lines /\ draft[f] = "unnamed"))
    <3>1. row'[f] = IF f \in dialog.optional \cup dialog.secrets /\ draft[f] = ""
                    THEN "null" ELSE draft[f]
      BY <1>4, <1>5, <1>7, <2>3
    <3>2. draft[f] # "unnamed"
      BY <1>1, <1>2, <2>3 DEF WellMade, FieldIsMade
    <3>3. row'[f] \in Rows!StoredValues(dialog, f)
      BY <1>2, <3>1, <3>2 DEF Rows!StoredValues
    <3> QED  BY <2>1, <3>1, <3>3
  <2> QED  BY <2>2, <2>3
<1> QED  BY <1>6, <1>7

\* A field the reader sets shows what was typed, and a vendor's model with it.
LEMMA SetKeeps ==
  ASSUME RowsInv, NEW e \in Callers, NEW f \in Rows!Fields, NEW v \in dialog.values[f],
         Rows!set(e, f, v)
  PROVE  RowsInv'
<1> DEFINE vendor == dialog = Rows!ProviderDialog /\ f = "kind"
           old == editor[e].form
           draft == IF vendor THEN Rows!changeKind(old, v) ELSE [old EXCEPT ![f] = v]
           typed == editor[e].touched \cup {f} \cup (IF vendor THEN {"model"} ELSE {})
<1>1. UNCHANGED <<dialog, row>> /\ editor[e].open
  BY DEF Rows!set
<1>2. editor' = [editor EXCEPT ![e].form = draft, ![e].touched = typed]
  BY DEF Rows!set
<1>3. DOMAIN editor = Callers /\ IsEditor(editor[e])
  BY DEF RowsInv
<1>4. /\ DOMAIN editor' = Callers
      /\ \A d \in Callers \ {e} : editor'[d] = editor[d]
      /\ editor'[e] = [editor[e] EXCEPT !.form = draft, !.touched = typed]
  <2> HIDE DEF draft, typed
  <2> QED  BY <1>2, <1>3
<1>5. /\ IsEditor(editor'[e]) /\ editor'[e].open = editor[e].open
      /\ editor'[e].form = draft /\ editor'[e].touched = typed
      /\ editor'[e].stale = editor[e].stale
  <2> HIDE DEF draft, typed
  <2> QED  BY <1>3, <1>4 DEF IsEditor
<1>6. IsForm(old) /\ DOMAIN old = Rows!Fields
  BY <1>1 DEF RowsInv, IsForm
<1>7. /\ DOMAIN draft = Rows!Fields
      /\ \A g \in Rows!Fields : /\ draft[g] \in dialog.values[g]
                                /\ g \notin typed => draft[g] = old[g]
  <2>1. CASE vendor
    <3>1. draft = [old EXCEPT !["kind"] = v, !["model"] = IF v = "anthropic" THEN "default" ELSE ""]
      BY <2>1 DEF Rows!changeKind
    <3> DEFINE model == IF v = "anthropic" THEN "default" ELSE ""
    <3>2. model \in dialog.values["model"] /\ "kind" \in Rows!Fields /\ "model" \in Rows!Fields
      BY <2>1, ProviderFields
    <3>3. /\ DOMAIN draft = Rows!Fields
          /\ \A g \in Rows!Fields : draft[g] = IF g = "model" THEN model
                                              ELSE IF g = "kind" THEN v ELSE old[g]
      <4> HIDE DEF draft, old
      <4> QED  BY <1>6, <3>1, <3>2
    <3> HIDE DEF draft, old, model
    <3> QED  BY <1>6, <2>1, <3>2, <3>3 DEF IsForm
  <2>2. CASE ~vendor
    <3>1. draft = [old EXCEPT ![f] = v]
      BY <2>2
    <3> HIDE DEF draft, old, vendor
    <3> QED  BY <1>6, <2>2, <3>1 DEF IsForm
  <2> QED  BY <2>1, <2>2
<1>8. Rows!Fields' = Rows!Fields /\ Rows!toForm(row)' = Rows!toForm(row)
  BY <1>1 DEF Rows!Fields, Rows!toForm
<1>9. ASSUME NEW d \in Callers
      PROVE  /\ IsEditor(editor'[d])
             /\ editor'[d].open =>
                  /\ IsForm(editor[d].form)'
                  /\ \A g \in Rows!Fields :
                       ~editor'[d].stale /\ g \notin editor'[d].touched =>
                         editor'[d].form[g] = Rows!toForm(row)[g]
  <2>1. CASE d = e
    <3> HIDE DEF draft, typed
    <3>1. \A g \in Rows!Fields : ~editor[e].stale /\ g \notin editor[e].touched =>
                                   old[g] = Rows!toForm(row)[g]
      BY <1>1 DEF RowsInv
    <3>2. editor[e].touched \subseteq typed
      BY DEF typed
    <3> QED  BY <1>1, <1>5, <1>7, <1>8, <2>1, <3>1, <3>2 DEF IsForm
  <2>2. CASE d # e
    BY <1>1, <1>4, <1>8, <2>2 DEF RowsInv, IsForm
  <2> QED  BY <2>1, <2>2
<1> HIDE DEF draft, typed, old, vendor
<1>10. Rows!Dialogs' = Rows!Dialogs /\ \A g \in Rows!Fields :
         Rows!StoredValues(dialog, g)' = Rows!StoredValues(dialog, g)
  BY <1>1 DEF Rows!StoredValues
<1> QED  BY <1>1, <1>4, <1>8, <1>9, <1>10 DEF RowsInv

\* A dialog opens on the stored row, and closes.
LEMMA OpenKeeps ==
  ASSUME RowsInv, NEW e \in Callers, Rows!Open(e) \/ Rows!Close(e)
  PROVE  RowsInv'
<1> DEFINE opened == [open |-> TRUE, form |-> Rows!toForm(row), touched |-> {}, stale |-> FALSE]
<1>1. /\ UNCHANGED <<dialog, row>>
      /\ editor' = [editor EXCEPT ![e] = opened] \/ editor' = [editor EXCEPT ![e] = Rows!Closed]
  BY DEF Rows!Open, Rows!Close
<1>2. /\ IsEditor(opened) /\ opened.form = Rows!toForm(row)
      /\ IsEditor(Rows!Closed) /\ ~Rows!Closed.open
  BY DEF IsEditor, Rows!Closed
<1>3. IsForm(Rows!toForm(row))
  BY RowIsAForm
<1> HIDE DEF opened
<1>4. /\ DOMAIN editor' = Callers
      /\ \A d \in Callers \ {e} : editor'[d] = editor[d]
      /\ editor'[e] = opened \/ editor'[e] = Rows!Closed
  BY <1>1 DEF RowsInv
<1>5. /\ Rows!Fields' = Rows!Fields /\ Rows!toForm(row)' = Rows!toForm(row)
      /\ \A g \in Rows!Fields : Rows!StoredValues(dialog, g)' = Rows!StoredValues(dialog, g)
  BY <1>1 DEF Rows!Fields, Rows!toForm, Rows!StoredValues
<1>6. ASSUME NEW d \in Callers
      PROVE  /\ IsEditor(editor'[d])
             /\ editor'[d].open =>
                  /\ IsForm(editor[d].form)'
                  /\ \A g \in Rows!Fields :
                       ~editor'[d].stale /\ g \notin editor'[d].touched =>
                         editor'[d].form[g] = Rows!toForm(row)[g]
  <2>1. CASE d = e
    BY <1>1, <1>2, <1>3, <1>4, <1>5, <2>1 DEF IsForm
  <2>2. CASE d # e
    BY <1>1, <1>4, <1>5, <2>2 DEF RowsInv, IsForm
  <2> QED  BY <2>1, <2>2
<1> QED  BY <1>1, <1>4, <1>5, <1>6 DEF RowsInv, Rows!Dialogs

\* A save closes its dialog and leaves the others about an older row.
LEMMA SubmitKeeps ==
  ASSUME RowsInv, NEW e \in Callers, Rows!submit(e)
  PROVE  RowsInv'
<1>1. /\ dialog' = dialog
      /\ editor' = [x \in Callers |-> IF x = e THEN Rows!Closed ELSE [editor[x] EXCEPT !.stale = TRUE]]
  BY DEF Rows!submit
<1>2. IsEditor(Rows!Closed) /\ ~Rows!Closed.open
  BY DEF IsEditor, Rows!Closed
<1>3. ASSUME NEW d \in Callers \ {e}
      PROVE  /\ IsEditor(editor'[d]) /\ editor'[d].stale = TRUE
             /\ editor'[d].open = editor[d].open /\ editor'[d].form = editor[d].form
  <2>1. IsEditor(editor[d]) /\ editor'[d] = [editor[d] EXCEPT !.stale = TRUE]
    BY <1>1 DEF RowsInv
  <2> QED  BY <2>1 DEF IsEditor
<1>4. /\ Rows!Fields' = Rows!Fields
      /\ \A f \in Rows!Fields : row'[f] \in Rows!StoredValues(dialog, f)'
  <2>1. Rows!Fields' = Rows!Fields
    BY <1>1 DEF Rows!Fields
  <2>2. ASSUME NEW f \in Rows!Fields  PROVE row'[f] \in Rows!StoredValues(dialog, f)'
    <3>1. PICK draft : draft = editor[e].form
      OBVIOUS
    <3>2. PICK sent : sent = Rows!payload(draft)
      OBVIOUS
    <3>3. row'[f] \in Rows!StoredValues(dialog, f)
      BY <3>1, <3>2, SavedField
    <3> QED  BY <1>1, <3>3 DEF Rows!StoredValues
  <2> QED  BY <2>1, <2>2
<1>5. ASSUME NEW d \in Callers
      PROVE  /\ IsEditor(editor'[d])
             /\ editor'[d].open =>
                  /\ IsForm(editor[d].form)'
                  /\ \A g \in Rows!Fields :
                       ~editor'[d].stale /\ g \notin editor'[d].touched =>
                         editor'[d].form[g] = Rows!toForm(row)'[g]
  <2>1. CASE d = e
    BY <1>1, <1>2, <2>1
  <2>2. CASE d # e
    BY <1>1, <1>3, <1>4, <2>2 DEF RowsInv, IsForm
  <2> QED  BY <2>1, <2>2
<1> QED  BY <1>1, <1>4, <1>5 DEF RowsInv, Rows!Dialogs

\* A save stores what its author typed and nothing else, secrets that were not
\* retyped included, unless the row was saved by somebody else meanwhile
\* (the dialogs' forms, and the services' update).
THEOREM SaveStoresWhatWasTyped == Rows!Spec => [][Rows!SaveTouchesOnly]_(Rows!vars)
<1>1. Rows!Init => RowsInv
  <2> SUFFICES ASSUME Rows!Init PROVE RowsInv
    OBVIOUS
  <2>1. IsEditor(Rows!Closed) /\ ~Rows!Closed.open
    BY DEF IsEditor, Rows!Closed
  <2>2. dialog \in Rows!Dialogs /\ editor = [e \in Callers |-> Rows!Closed]
    BY DEF Rows!Init
  <2>3. \A f \in Rows!Fields : row[f] \in Rows!StoredValues(dialog, f)
    BY DEF Rows!Init, Rows!Rows, Rows!Fields
  <2> QED  BY <2>1, <2>2, <2>3 DEF RowsInv
<1>2. RowsInv /\ [Rows!Next]_(Rows!vars) => RowsInv'
  <2> SUFFICES ASSUME RowsInv, [Rows!Next]_(Rows!vars) PROVE RowsInv'
    OBVIOUS
  <2>1. CASE UNCHANGED Rows!vars
    <3>1. UNCHANGED <<dialog, row, editor>>
      BY <2>1 DEF Rows!vars
    <3>2. /\ Rows!Fields' = Rows!Fields /\ Rows!toForm(row)' = Rows!toForm(row)
          /\ \A g \in Rows!Fields : Rows!StoredValues(dialog, g)' = Rows!StoredValues(dialog, g)
      BY <3>1 DEF Rows!Fields, Rows!toForm, Rows!StoredValues
    <3>3. \A e \in Callers : IsForm(editor[e].form) => IsForm(editor[e].form)'
      BY <3>1, <3>2 DEF IsForm
    <3> QED  BY <3>1, <3>2, <3>3 DEF RowsInv, Rows!Dialogs
  <2>2. CASE Rows!Next
    BY <2>2, OpenKeeps, SubmitKeeps, SetKeeps DEF Rows!Next
  <2> QED  BY <2>1, <2>2
<1>3. RowsInv /\ [Rows!Next]_(Rows!vars) => [Rows!SaveTouchesOnly]_(Rows!vars)
  <2> SUFFICES ASSUME RowsInv, Rows!Next, NEW e \in Callers,
                      editor[e].open, row' # row, ~editor'[e].open, NEW f \in Rows!Fields,
                      NEW draft, draft = editor[e].form
               PROVE  \/ /\ row'[f] = row[f]
                         /\ f \notin editor[e].touched \/ draft[f] = Rows!toForm(row)[f]
                      \/ f \in editor[e].touched /\ row'[f] = draft[f]
                      \/ /\ f \in editor[e].touched
                         /\ draft[f] \in {"", "unnamed"} /\ row'[f] \in {"null", ""}
                      \/ Rows!Moot(draft, f)
                      \/ ~Rows!Shown(draft, f) /\ f \in dialog.secrets
                      \/ editor[e].stale
    BY DEF Rows!SaveTouchesOnly
  <2>1. Rows!submit(e)
    <3>1. PICK x \in Callers : Rows!submit(x)
      BY DEF Rows!Next, Rows!Open, Rows!Close, Rows!set
    <3>2. ASSUME x # e  PROVE FALSE
      <4>1. editor'[e] = [editor[e] EXCEPT !.stale = TRUE] /\ IsEditor(editor[e])
        BY <3>1, <3>2 DEF Rows!submit, RowsInv
      <4>2. editor'[e].open = editor[e].open
        BY <4>1 DEF IsEditor
      <4> QED  BY <4>2
    <3> QED  BY <3>1, <3>2
  <2>2. PICK sent : sent = Rows!payload(draft)
    OBVIOUS
  <2>3. WellMade(dialog) /\ f \in DOMAIN dialog.values
    BY DialogsAreWellMade DEF RowsInv, Rows!Fields
  <2>4. row[f] \in Rows!StoredValues(dialog, f)
    BY DEF RowsInv
  <2>5. ~editor[e].stale /\ f \notin editor[e].touched => draft[f] = Rows!toForm(row)[f]
    BY DEF RowsInv
  <2>6. Rows!toForm(row)[f] = IF f \in dialog.secrets \/ row[f] = "null" THEN "" ELSE row[f]
    BY DEF Rows!toForm
  <2>7. CASE \/ Rows!Moot(draft, f)
             \/ ~Rows!Shown(draft, f) /\ f \in dialog.secrets
             \/ editor[e].stale
    BY <2>7
  <2>8. CASE row'[f] = row[f] /\ f \in dialog.secrets /\ draft[f] = "" /\ ~editor[e].stale
    BY <2>6, <2>8
  <2>9. CASE /\ draft[f] = "unnamed" /\ f \in dialog.lines /\ row'[f] \in {"null", ""}
             /\ ~editor[e].stale
    <3>1. row[f] # "unnamed"
      BY <2>4 DEF Rows!StoredValues
    <3>2. f \in editor[e].touched
      BY <2>5, <2>6, <2>9, <3>1
    <3> QED  BY <2>9, <3>2
  <2>10. CASE /\ f \in dialog.secrets => draft[f] # ""
              /\ row'[f] = IF f \in dialog.optional \cup dialog.secrets /\ draft[f] = ""
                           THEN "null" ELSE draft[f]
              /\ ~editor[e].stale
    <3>1. CASE f \in editor[e].touched
      BY <2>10, <3>1
    <3>2. CASE f \notin editor[e].touched
      <4>1. row[f] = "null" => f \in dialog.optional \cup dialog.secrets
        BY <2>3, <2>4 DEF WellMade, FieldIsMade, Rows!StoredValues
      <4>2. row[f] = "" => f \notin dialog.optional \cup dialog.secrets
        BY <2>4 DEF Rows!StoredValues
      <4> QED  BY <2>5, <2>6, <2>10, <3>2, <4>1, <4>2
    <3> QED  BY <3>1, <3>2
  <2> QED  BY <2>1, <2>2, <2>7, <2>8, <2>9, <2>10, SavedField
<1> QED  BY <1>1, <1>2, <1>3, PTL DEF Rows!Spec

-----------------------------------------------------------------------------
(* The jobs page.                                                          *)

\* What comes before one of S, by the pairs in their order.
Ahead(S, earlier, x) == {y \in S : <<y, x>> \in earlier}

\* The pairs put the members of S one after the other.
Strict(S, earlier) ==
  /\ \A x \in S : <<x, x>> \notin earlier
  /\ \A x, y \in S : x # y => <<x, y>> \in earlier \/ <<y, x>> \in earlier
  /\ \A x, y, z \in S : <<x, y>> \in earlier /\ <<y, z>> \in earlier => <<x, z>> \in earlier

\* The page counts as everything else does.
LEMMA QueueCounts == \A S : Queue!Cardinality(S) = Cardinality(S)
BY DEF Cardinality, Queue!Cardinality

\* One that comes earlier has fewer before it, and nobody has all.
LEMMA AheadCounts ==
  ASSUME NEW S, IsFiniteSet(S), NEW R, Strict(S, R), NEW x \in S
  PROVE  /\ Cardinality(S) \in Nat
         /\ Cardinality(Ahead(S, R, x)) \in 0 .. Cardinality(S) - 1
         /\ \A y \in S : <<y, x>> \in R => Cardinality(Ahead(S, R, y)) < Cardinality(Ahead(S, R, x))
<1>1. Cardinality(S) \in Nat
  BY FS_CardinalityType
<1>2. \A T \in SUBSET S : IsFiniteSet(T) /\ Cardinality(T) \in Nat /\ Cardinality(T) <= Cardinality(S)
                          /\ (Cardinality(S) = Cardinality(T) => S = T)
  BY FS_Subset, FS_CardinalityType
<1>3. Ahead(S, R, x) \in SUBSET S /\ x \notin Ahead(S, R, x)
  BY DEF Ahead, Strict
<1>4. ASSUME NEW y \in S, <<y, x>> \in R
      PROVE  Cardinality(Ahead(S, R, y)) < Cardinality(Ahead(S, R, x))
  <2>1. /\ Ahead(S, R, y) \in SUBSET Ahead(S, R, x) /\ Ahead(S, R, y) # Ahead(S, R, x)
        /\ Ahead(S, R, y) \in SUBSET S
    BY <1>4 DEF Ahead, Strict
  <2>2. IsFiniteSet(Ahead(S, R, x))
    BY <1>2, <1>3
  <2>3. /\ Cardinality(Ahead(S, R, y)) <= Cardinality(Ahead(S, R, x))
        /\ Cardinality(Ahead(S, R, x)) = Cardinality(Ahead(S, R, y))
              => Ahead(S, R, x) = Ahead(S, R, y)
    BY <2>1, <2>2, FS_Subset
  <2>4. Cardinality(Ahead(S, R, y)) \in Nat /\ Cardinality(Ahead(S, R, x)) \in Nat
    BY <1>2, <1>3, <2>1
  <2> QED
    BY <2>1, <2>3, <2>4
<1>5. Cardinality(Ahead(S, R, x)) \in Nat /\ Cardinality(Ahead(S, R, x)) <= Cardinality(S)
  BY <1>2, <1>3
<1>6. Cardinality(Ahead(S, R, x)) # Cardinality(S)
  BY <1>2, <1>3
<1> QED
  BY <1>1, <1>4, <1>5, <1>6

\* Every member of S has a place of its own, and every place a member.
LEMMA EveryPlaceIsTaken ==
  ASSUME NEW S, IsFiniteSet(S), NEW R, Strict(S, R)
  PROVE  \A i \in 1 .. Cardinality(S) : \E x \in S : Cardinality(Ahead(S, R, x)) = i - 1
<1> DEFINE n == Cardinality(S)
           f == [x \in S |-> Cardinality(Ahead(S, R, x))]
<1>1. n \in Nat
  BY FS_CardinalityType
<1>2. f \in [S -> 0 .. n - 1]
  BY AheadCounts
<1>3. ASSUME NEW x \in S, NEW y \in S, f[x] = f[y] PROVE x = y
  <2>1. /\ <<y, x>> \in R => Cardinality(Ahead(S, R, y)) < Cardinality(Ahead(S, R, x))
        /\ <<x, y>> \in R => Cardinality(Ahead(S, R, x)) < Cardinality(Ahead(S, R, y))
        /\ Cardinality(Ahead(S, R, x)) \in Nat /\ Cardinality(Ahead(S, R, y)) \in Nat
    BY AheadCounts
  <2>2. Cardinality(Ahead(S, R, x)) = Cardinality(Ahead(S, R, y))
    BY <1>3
  <2>3. <<y, x>> \notin R /\ <<x, y>> \notin R
    BY <2>1, <2>2
  <2> QED
    BY <2>3 DEF Strict
<1>4. f \in Injection(S, 0 .. n - 1)
  BY <1>2, <1>3 DEF Injection, IsInjective
<1>5. IsFiniteSet(0 .. n - 1) /\ Cardinality(0 .. n - 1) = n
  BY <1>1, FS_Interval
<1>6. f \in Surjection(S, 0 .. n - 1)
  BY <1>4, <1>5, FS_Injection
<1>7. ASSUME NEW i \in 1 .. n PROVE \E x \in S : Cardinality(Ahead(S, R, x)) = i - 1
  <2>1. i - 1 \in 0 .. n - 1
    BY <1>1
  <2>2. PICK x \in S : f[x] = i - 1
    BY <1>6, <2>1 DEF Surjection
  <2> QED
    BY <2>2
<1> QED
  BY <1>7

\* The members of S in order: each at the place its number of earlier ones says.
LEMMA InOrderPlaces ==
  ASSUME NEW S, IsFiniteSet(S), NEW R, Strict(S, R)
  PROVE  LET f == Queue!InOrder(S, R)
             n == Cardinality(S)
         IN  /\ n \in Nat /\ f \in [1 .. n -> S]
             /\ \A i \in 1 .. n : Cardinality(Ahead(S, R, f[i])) = i - 1
             /\ \A x \in S : \E i \in 1 .. n : f[i] = x
<1> DEFINE f == Queue!InOrder(S, R)
           n == Cardinality(S)
<1>1. n \in Nat
  BY FS_CardinalityType
<1> DEFINE at(i) == CHOOSE x \in S : Queue!Cardinality({y \in S : <<y, x>> \in R}) = i - 1
<1>2. f = [i \in 1 .. n |-> at(i)]
  BY QueueCounts DEF Queue!InOrder
<1>3. \A i \in 1 .. n : f[i] \in S /\ Cardinality(Ahead(S, R, f[i])) = i - 1
  <2> SUFFICES ASSUME NEW i \in 1 .. n
               PROVE  f[i] \in S /\ Cardinality(Ahead(S, R, f[i])) = i - 1
    OBVIOUS
  <2>1. \E x \in S : Queue!Cardinality({y \in S : <<y, x>> \in R}) = i - 1
    BY EveryPlaceIsTaken, QueueCounts DEF Ahead
  <2>2. at(i) \in S /\ Queue!Cardinality({y \in S : <<y, at(i)>> \in R}) = i - 1
    BY <2>1
  <2>3. f[i] = at(i)
    BY <1>2
  <2> HIDE DEF at, f
  <2>4. f[i] \in S /\ Queue!Cardinality({y \in S : <<y, f[i]>> \in R}) = i - 1
    BY <2>2, <2>3
  <2> QED
    BY <2>4, QueueCounts DEF Ahead
<1>4. ASSUME NEW x \in S PROVE \E i \in 1 .. n : f[i] = x
  <2> DEFINE i == Cardinality(Ahead(S, R, x)) + 1
  <2>1. i \in 1 .. n /\ i - 1 = Cardinality(Ahead(S, R, x))
    BY <1>1, AheadCounts
  <2> HIDE DEF i
  <2>2. f[i] \in S /\ Cardinality(Ahead(S, R, f[i])) = Cardinality(Ahead(S, R, x))
    BY <1>3, <2>1
  <2>3. /\ <<f[i], x>> \in R => Cardinality(Ahead(S, R, f[i])) < Cardinality(Ahead(S, R, x))
        /\ <<x, f[i]>> \in R => Cardinality(Ahead(S, R, x)) < Cardinality(Ahead(S, R, f[i]))
        /\ Cardinality(Ahead(S, R, x)) \in Nat
    BY <2>2, AheadCounts
  <2>4. <<f[i], x>> \notin R /\ <<x, f[i]>> \notin R
    BY <2>2, <2>3
  <2>5. f[i] = x
    BY <2>2, <2>4 DEF Strict
  <2> QED
    BY <2>1, <2>5
<1>5. f \in [1 .. n -> S]
  BY <1>2, <1>3
<1> QED
  BY <1>1, <1>3, <1>4, <1>5

\* How many of n a window of them shows.
Windowed(n, limit) == IF n < limit THEN n ELSE limit

\* What a sequence written out as a function is.
LEMMA IsASequence ==
  ASSUME NEW n \in Nat, NEW s, s = [i \in 1 .. n |-> s[i]]
  PROVE  s \in Seq({s[i] : i \in 1 .. n}) /\ Len(s) = n
OBVIOUS

\* What a window of a sequence holds.
LEMMA WindowHolds ==
  ASSUME NEW n \in Nat, NEW s, s = [i \in 1 .. n |-> s[i]], NEW limit \in Nat
  PROVE  /\ Windowed(n, limit) \in Nat /\ Windowed(n, limit) <= limit /\ Windowed(n, limit) <= n
         /\ Queue!Window(s, limit) = [i \in 1 .. Windowed(n, limit) |-> s[i]]
<1> DEFINE m == Windowed(n, limit)
<1>1. m \in Nat /\ m <= limit /\ m <= n
  BY DEF Windowed
<1>2. s \in Seq({s[i] : i \in 1 .. n}) /\ Len(s) = n
  BY IsASequence
<1>3. Queue!Window(s, limit) = SubSeq(s, 1, m)
  BY <1>2 DEF Queue!Window, Windowed
<1> HIDE DEF m
<1>4. SubSeq(s, 1, m) = [i \in 1 .. m |-> s[i]]
  BY <1>1, <1>2
<1> QED
  BY <1>1, <1>3, <1>4 DEF m

\* What a page of a sequence holds.
LEMMA PageHolds ==
  ASSUME NEW n \in Nat, NEW s, s = [i \in 1 .. n |-> s[i]], LIST_LIMIT \in Nat
  PROVE  Queue!Ids(Queue!paginate(s)) = [i \in 1 .. Windowed(n, LIST_LIMIT) |-> s[i].id]
<1>1. Queue!paginate(s) = Queue!Window(s, LIST_LIMIT)
  BY DEF Queue!paginate
<1>2. Queue!paginate(s) = [i \in 1 .. Windowed(n, LIST_LIMIT) |-> s[i]]
  BY <1>1, WindowHolds
<1> QED
  BY <1>2 DEF Queue!Ids

\* A page is never longer than its limit.
LEMMA PageIsShort ==
  ASSUME NEW n \in Nat, NEW s, s = [i \in 1 .. n |-> s[i]], LIST_LIMIT \in Nat
  PROVE  Len(Queue!Ids(Queue!paginate(s))) <= LIST_LIMIT
<1> DEFINE m == Windowed(n, LIST_LIMIT)
           ids == Queue!Ids(Queue!paginate(s))
<1>1. m \in Nat /\ m <= LIST_LIMIT
  BY WindowHolds
<1>2. ids = [i \in 1 .. m |-> s[i].id]
  BY PageHolds
<1> HIDE DEF m, ids
<1>3. ids = [i \in 1 .. m |-> ids[i]]
  BY <1>2
<1>4. Len(ids) = m
  BY <1>1, <1>3, IsASequence
<1> QED
  BY <1>1, <1>4 DEF ids

\* A page of rows in order holds the ones fewer than a page of others come before.
LEMMA PageOfOrder ==
  ASSUME NEW K, IsFiniteSet(K), NEW R, Strict(K, R), NEW w, LIST_LIMIT \in Nat
  PROVE  LET q == [i \in 1 .. Cardinality(K) |-> w[Queue!InOrder(K, R)[i]]]
         IN  Queue!Listed(Queue!Ids(Queue!paginate(q)))
               = {w[k].id : k \in {x \in K : Cardinality(Ahead(K, R, x)) < LIST_LIMIT}}
<1> DEFINE n == Cardinality(K)
           f == Queue!InOrder(K, R)
           q == [i \in 1 .. n |-> w[f[i]]]
           m == Windowed(n, LIST_LIMIT)
           few == {x \in K : Cardinality(Ahead(K, R, x)) < LIST_LIMIT}
<1>1. /\ n \in Nat /\ f \in [1 .. n -> K]
      /\ \A i \in 1 .. n : Cardinality(Ahead(K, R, f[i])) = i - 1
      /\ \A x \in K : \E i \in 1 .. n : f[i] = x
  BY InOrderPlaces
<1> HIDE DEF n, f
<1>2. m \in Nat /\ m <= LIST_LIMIT /\ m <= n
  BY <1>1 DEF Windowed
<1>3. \A i \in 1 .. n : i \in 1 .. m <=> i - 1 < LIST_LIMIT
  BY <1>1 DEF Windowed
<1>4. q = [i \in 1 .. n |-> q[i]]
  OBVIOUS
<1> HIDE DEF m, q
<1>5. Queue!Ids(Queue!paginate(q)) = [i \in 1 .. m |-> q[i].id]
  BY <1>1, <1>4, PageHolds DEF m
<1>6. \A i \in 1 .. m : q[i] = w[f[i]]
  BY <1>1, <1>2 DEF q
<1>7. Queue!Listed(Queue!Ids(Queue!paginate(q))) = {w[f[i]].id : i \in 1 .. m}
  BY <1>5, <1>6 DEF Queue!Listed
<1>8. \A i \in 1 .. m : f[i] \in few
  BY <1>1, <1>2, <1>3
<1>9. \A x \in few : \E i \in 1 .. m : f[i] = x
  BY <1>1, <1>3
<1> HIDE DEF few
<1>10. {w[f[i]].id : i \in 1 .. m} = {w[k].id : k \in few}
  BY <1>8, <1>9
<1> QED
  BY <1>7, <1>10 DEF n, f, few, q

\* The rows of w at K are about the jobs of S, one each, in the same order.
RowsOfOrder(K, R, w, S, G) ==
  /\ \A x \in K : w[x].id \in S
  /\ \A x, y \in K : w[x].id = w[y].id => x = y
  /\ \A j \in S : \E x \in K : w[x].id = j
  /\ \A x, y \in K : <<x, y>> \in R <=> <<w[x].id, w[y].id>> \in G

\* Counted by the jobs they are about, rows have as many before them as by their
\* places.
LEMMA SameNumberAhead ==
  ASSUME NEW K, IsFiniteSet(K), NEW R, NEW w, NEW S, NEW G,
         RowsOfOrder(K, R, w, S, G)
  PROVE  \A k \in K : Cardinality(Ahead(K, R, k)) = Cardinality(Ahead(S, G, w[k].id))
<1> SUFFICES ASSUME NEW k \in K
             PROVE  Cardinality(Ahead(K, R, k)) = Cardinality(Ahead(S, G, w[k].id))
  OBVIOUS
<1> DEFINE h == [x \in Ahead(K, R, k) |-> w[x].id]
<1>1. h \in [Ahead(K, R, k) -> Ahead(S, G, w[k].id)]
  BY DEF Ahead, RowsOfOrder
<1>2. h \in Injection(Ahead(K, R, k), Ahead(S, G, w[k].id))
  BY <1>1 DEF Ahead, Injection, IsInjective, RowsOfOrder
<1>3. h \in Surjection(Ahead(K, R, k), Ahead(S, G, w[k].id))
  BY <1>1 DEF Ahead, Surjection, RowsOfOrder
<1>4. ExistsBijection(Ahead(K, R, k), Ahead(S, G, w[k].id))
  BY <1>2, <1>3 DEF ExistsBijection, Bijection
<1>5. IsFiniteSet(Ahead(K, R, k))
  BY FS_Subset DEF Ahead
<1> QED
  BY <1>4, <1>5, FS_Bijection

\* A page of rows in order holds the jobs fewer than a page of others come before.
LEMMA PageOfJobs ==
  ASSUME NEW K, IsFiniteSet(K), NEW R, Strict(K, R), NEW w, LIST_LIMIT \in Nat,
         NEW S, NEW G,
         RowsOfOrder(K, R, w, S, G)
  PROVE  Queue!Listed(Queue!Ids(Queue!paginate([i \in 1 .. Cardinality(K) |-> w[Queue!InOrder(K, R)[i]]])))
           = {j \in S : Cardinality(Ahead(S, G, j)) < LIST_LIMIT}
<1>1. \A k \in K : Cardinality(Ahead(K, R, k)) = Cardinality(Ahead(S, G, w[k].id))
  BY SameNumberAhead
<1>2. {w[k].id : k \in {x \in K : Cardinality(Ahead(K, R, x)) < LIST_LIMIT}}
        = {j \in S : Cardinality(Ahead(S, G, j)) < LIST_LIMIT}
  BY <1>1 DEF RowsOfOrder
<1> QED
  BY <1>2, PageOfOrder

\* The dates a job carries.
Dates(j) == {job[j].enqueued, job[j].started, job[j].ended} \ {Queue!None}

\* What the queue holds of a job.
JobType == [state : {"none"} \cup Queue!Lists, attempts : Int, warned : BOOLEAN,
            enqueued : Int, started : Int, ended : Int]

\* No date is given out twice.
JobsAreDated ==
  /\ job \in [Callers -> JobType] /\ clock \in Nat /\ clock >= 1
  /\ \A j \in Callers : Dates(j) \subseteq 0 .. clock - 1
  /\ \A j, k \in Callers : j # k => Dates(j) \cap Dates(k) = {}
  /\ \A j \in Callers : job[j].state # "none" => job[j].enqueued # Queue!None
  /\ \A j \in Callers : job[j].state \in {"failed", "completed"} => job[j].ended # Queue!None

\* What a load reads of one.
RowType == [id : Callers, state : Queue!Lists, warned : BOOLEAN, ended : Int, since : Int]

\* The rows are those of S, each once, as the jobs are now.
TellsOf(s, S) ==
  /\ s \in Seq(RowType)
  /\ \A i \in 1 .. Len(s) : s[i].id \in S /\ s[i] = Queue!Row(s[i].id, job[s[i].id].state)
  /\ \A i, k \in 1 .. Len(s) : s[i].id = s[k].id => i = k
  /\ \A j \in S : \E i \in 1 .. Len(s) : s[i].id = j

\* The jobs in a state.
In(l) == {j \in Callers : job[j].state = l}

\* The rows a list would be read as now.
RowsOf(l) == [i \in DOMAIN Queue!getJobs(l) |-> Queue!Row(Queue!getJobs(l)[i], l)]

\* The order the queue keeps a list in.
QueueOrder(l) == {p \in In(l) \X In(l) : IF l \in {"failed", "completed"}
                                     THEN job[p[1]].ended > job[p[2]].ended
                                     ELSE job[p[1]].enqueued < job[p[2]].enqueued}

\* No two jobs of a list carry the same date, so the queue's order tells them apart.
LEMMA QueueOrderIsStrict ==
  ASSUME JobsAreDated, NEW l \in Queue!Lists
  PROVE  Strict(In(l), QueueOrder(l))
<1> DEFINE date(j) == IF l \in {"failed", "completed"} THEN job[j].ended ELSE job[j].enqueued
<1>1. \A j \in In(l) : date(j) \in Dates(j) /\ date(j) \in Int
  <2> SUFFICES ASSUME NEW j \in In(l) PROVE date(j) \in Dates(j) /\ date(j) \in Int
    OBVIOUS
  <2>1. job[j] \in JobType /\ job[j].state = l /\ l # "none" /\ j \in Callers
    BY DEF JobsAreDated, In, Queue!Lists
  <2>2. job[j].enqueued # Queue!None /\ (l \in {"failed", "completed"} => job[j].ended # Queue!None)
    BY <2>1 DEF JobsAreDated
  <2>3. job[j].enqueued \in Int /\ job[j].ended \in Int
    BY <2>1 DEF JobType
  <2> QED
    BY <2>2, <2>3 DEF Dates
<1>2. \A j, k \in In(l) : j # k => date(j) # date(k)
  BY <1>1 DEF JobsAreDated, In
<1>3. \A j, k \in In(l) : <<j, k>> \in QueueOrder(l)
        <=> IF l \in {"failed", "completed"} THEN date(j) > date(k) ELSE date(j) < date(k)
  BY DEF QueueOrder
<1> HIDE DEF date
<1> QED
  BY <1>1, <1>2, <1>3 DEF Strict

\* What is read of a list is rows, and of a queue the scan is deep enough for, every
\* job of the list once.
LEMMA ListTells ==
  ASSUME JobsAreDated, NEW l \in Queue!Lists, IsFiniteSet(Callers), JOB_SCAN_DEPTH \in Nat
  PROVE  /\ RowsOf(l) \in Seq(RowType)
         /\ Cardinality(Callers) <= JOB_SCAN_DEPTH => TellsOf(RowsOf(l), In(l))
<1> DEFINE S == In(l)
           n == Cardinality(S)
           f == Queue!InOrder(S, QueueOrder(l))
           m == Windowed(n, JOB_SCAN_DEPTH)
           s == RowsOf(l)
<1>1. S \in SUBSET Callers
  BY DEF In
<1>2. IsFiniteSet(S) /\ n <= Cardinality(Callers) /\ Cardinality(Callers) \in Nat
  BY <1>1, FS_Subset, FS_CardinalityType
<1>3. /\ n \in Nat /\ f \in [1 .. n -> S]
      /\ \A i \in 1 .. n : Cardinality(Ahead(S, QueueOrder(l), f[i])) = i - 1
      /\ \A x \in S : \E i \in 1 .. n : f[i] = x
  BY <1>2, QueueOrderIsStrict, InOrderPlaces
<1>4. Queue!getJobs(l) = Queue!Window(f, JOB_SCAN_DEPTH)
  BY DEF Queue!getJobs, QueueOrder, In
<1> HIDE DEF n, f
<1>5. /\ m \in Nat /\ m <= n
      /\ Queue!getJobs(l) = [i \in 1 .. m |-> f[i]]
  BY <1>3, <1>4, WindowHolds
<1>6. Cardinality(Callers) <= JOB_SCAN_DEPTH => m = n
  BY <1>2, <1>3 DEF Windowed, n
<1> HIDE DEF m
<1>7. s = [i \in 1 .. m |-> Queue!Row(f[i], l)]
  BY <1>5 DEF RowsOf
<1>8. \A j \in S : Queue!Row(j, l) \in RowType /\ Queue!Row(j, l).id = j /\ job[j].state = l
  BY DEF Queue!Row, RowType, In, JobsAreDated, JobType
<1> HIDE DEF s, S
<1>9. s \in Seq(RowType) /\ Len(s) = m
  BY <1>3, <1>5, <1>7, <1>8
<1>10. \A i \in 1 .. m : s[i].id = f[i] /\ s[i].id \in S /\ s[i] = Queue!Row(s[i].id, job[s[i].id].state)
  BY <1>3, <1>5, <1>7, <1>8
<1>11. \A i, k \in 1 .. m : s[i].id = s[k].id => i = k
  <2> SUFFICES ASSUME NEW i \in 1 .. m, NEW k \in 1 .. m, s[i].id = s[k].id PROVE i = k
    OBVIOUS
  <2>1. /\ Cardinality(Ahead(S, QueueOrder(l), f[i])) = i - 1
        /\ Cardinality(Ahead(S, QueueOrder(l), f[k])) = k - 1
    BY <1>3, <1>5
  <2>2. f[i] = f[k]
    BY <1>10
  <2> QED
    BY <1>5, <2>1, <2>2
<1>12. m = n => \A j \in S : \E i \in 1 .. m : s[i].id = j
  BY <1>3, <1>10
<1> QED
  BY <1>6, <1>9, <1>10, <1>11, <1>12 DEF TellsOf, s, S

\* What two lists hold of different jobs, one after the other.
LEMMA TellsOfBoth ==
  ASSUME NEW s, NEW S, NEW t, NEW T, TellsOf(s, S), TellsOf(t, T), S \cap T = {}
  PROVE  TellsOf(s \o t, S \cup T)
<1> DEFINE u == s \o t
           m == Len(s)
           n == Len(t)
<1>1. s \in Seq(RowType) /\ t \in Seq(RowType)
  BY DEF TellsOf
<1>2. /\ m \in Nat /\ n \in Nat /\ u \in Seq(RowType) /\ Len(u) = m + n
      /\ \A i \in 1 .. m : u[i] = s[i]
      /\ \A i \in m + 1 .. m + n : u[i] = t[i - m]
      /\ \A i \in 1 .. n : m + i \in 1 .. m + n /\ u[m + i] = t[i]
  BY <1>1
<1>3. \A i \in 1 .. m + n : i \in 1 .. m \/ (i \in m + 1 .. m + n /\ i - m \in 1 .. n)
  BY <1>2
<1>4. /\ \A i \in 1 .. m : s[i].id \in S /\ s[i] = Queue!Row(s[i].id, job[s[i].id].state)
      /\ \A i, k \in 1 .. m : s[i].id = s[k].id => i = k
      /\ \A j \in S : \E i \in 1 .. m : s[i].id = j
      /\ \A i \in 1 .. n : t[i].id \in T /\ t[i] = Queue!Row(t[i].id, job[t[i].id].state)
      /\ \A i, k \in 1 .. n : t[i].id = t[k].id => i = k
      /\ \A j \in T : \E i \in 1 .. n : t[i].id = j
  BY DEF TellsOf
<1> HIDE DEF u, m, n
<1>5. ASSUME NEW i \in 1 .. m + n
      PROVE  /\ i \in 1 .. m => u[i] = s[i] /\ u[i].id \in S
             /\ i \notin 1 .. m => i - m \in 1 .. n /\ u[i] = t[i - m] /\ u[i].id \in T
  BY <1>2, <1>3, <1>4
<1>6. \A i \in 1 .. m + n : u[i].id \in S \cup T /\ u[i] = Queue!Row(u[i].id, job[u[i].id].state)
  <2> SUFFICES ASSUME NEW i \in 1 .. m + n
               PROVE  u[i].id \in S \cup T /\ u[i] = Queue!Row(u[i].id, job[u[i].id].state)
    OBVIOUS
  <2>1. CASE i \in 1 .. m
    <3>1. u[i] = s[i]
      BY <1>5, <2>1
    <3> QED
      BY <1>4, <2>1, <3>1
  <2>2. CASE i \notin 1 .. m
    <3>1. i - m \in 1 .. n /\ u[i] = t[i - m]
      BY <1>5, <2>2
    <3> QED
      BY <1>4, <3>1
  <2> QED
    BY <2>1, <2>2
<1>7. \A i, k \in 1 .. m + n : u[i].id = u[k].id => i = k
  <2> SUFFICES ASSUME NEW i \in 1 .. m + n, NEW k \in 1 .. m + n, u[i].id = u[k].id PROVE i = k
    OBVIOUS
  <2>1. CASE i \in 1 .. m /\ k \in 1 .. m
    BY <1>4, <1>5, <2>1
  <2>2. CASE i \notin 1 .. m /\ k \notin 1 .. m
    <3>1. i - m \in 1 .. n /\ k - m \in 1 .. n /\ t[i - m].id = t[k - m].id
      BY <1>5, <2>2
    <3>2. i - m = k - m
      BY <1>4, <3>1
    <3> QED
      BY <1>2, <3>2
  <2>3. (i \in 1 .. m) <=> (k \in 1 .. m)
    BY <1>5
  <2> QED
    BY <2>1, <2>2, <2>3
<1>8. \A j \in S : \E i \in 1 .. m + n : u[i].id = j
  <2> SUFFICES ASSUME NEW j \in S PROVE \E i \in 1 .. m + n : u[i].id = j
    OBVIOUS
  <2>1. PICK i \in 1 .. m : s[i].id = j
    BY <1>4
  <2>2. i \in 1 .. m + n /\ u[i] = s[i]
    BY <1>2
  <2> QED
    BY <2>1, <2>2
<1>9. \A j \in T : \E i \in 1 .. m + n : u[i].id = j
  <2> SUFFICES ASSUME NEW j \in T PROVE \E i \in 1 .. m + n : u[i].id = j
    OBVIOUS
  <2>1. PICK i \in 1 .. n : t[i].id = j
    BY <1>4
  <2>2. m + i \in 1 .. m + n /\ u[m + i] = t[i]
    BY <1>2
  <2> QED
    BY <2>1, <2>2
<1> QED
  BY <1>2, <1>6, <1>7, <1>8, <1>9 DEF TellsOf, u

\* The pairs of jobs of which the first ended later.
Later(S) == {p \in S \X S : job[p[1]].ended > job[p[2]].ended}

\* The places of s, the newest first, as a list is sorted.
NewestFirst(s) == {p \in (DOMAIN s) \X (DOMAIN s) :
                     \/ s[p[1]].ended > s[p[2]].ended
                     \/ ~(s[p[2]].ended > s[p[1]].ended) /\ p[1] < p[2]}

\* The pairs of jobs of which the first is in flight before the other.
Sooner(S) == {p \in S \X S :
                \/ Queue!RankOf(job[p[1]].state) < Queue!RankOf(job[p[2]].state)
                \/ /\ job[p[1]].state = job[p[2]].state
                   /\ Queue!Row(p[1], job[p[1]].state).since < Queue!Row(p[2], job[p[2]].state).since}

\* The places of s, the ones in flight first, as a list is sorted.
InFlightFirst(s) == {p \in (DOMAIN s) \X (DOMAIN s) :
                       \/ Queue!byInFlight(s[p[1]], s[p[2]])
                       \/ ~Queue!byInFlight(s[p[2]], s[p[1]]) /\ p[1] < p[2]}

\* The places of a sequence.
LEMMA Places ==
  ASSUME NEW n \in Nat
  PROVE  Cardinality(1 .. n) = n /\ IsFiniteSet(1 .. n)
BY FS_Interval

\* What is sorted is listed by the order of its places.
LEMMA ScanIsSorted ==
  ASSUME NEW l, NEW n \in Nat, DOMAIN read[l].ids = 1 .. n
  PROVE  /\ Cardinality(1 .. n) = n /\ IsFiniteSet(1 .. n)
         /\ Queue!scan(l) = [i \in 1 .. n |-> read[l].ids[Queue!InOrder(1 .. n, NewestFirst(read[l].ids))[i]]]
<1>1. Cardinality(1 .. n) = n /\ IsFiniteSet(1 .. n)
  BY Places
<1> QED
  BY <1>1 DEF Queue!scan, Queue!Sort, Queue!byEndedDesc, NewestFirst

\* The rows in flight, list after list.
Waiting == read["active"].ids \o read["waiting"].ids \o read["delayed"].ids

\* What is in flight is listed by the order of its places.
LEMMA RunningIsSorted ==
  ASSUME NEW n \in Nat, DOMAIN Waiting = 1 .. n
  PROVE  Queue!running =
           Queue!paginate([i \in 1 .. n |->
                             Waiting[Queue!InOrder(1 .. n, InFlightFirst(Waiting))[i]]])
BY DEF Queue!running, Queue!Sort, InFlightFirst, Waiting

\* What a row says of its job.
LEMMA RowParts ==
  ASSUME NEW j, NEW st
  PROVE  /\ Queue!Row(j, st).id = j /\ Queue!Row(j, st).state = st
         /\ Queue!Row(j, st).warned = job[j].warned
         /\ Queue!Row(j, st).ended = job[j].ended
         /\ Queue!Row(j, st).since = IF job[j].started # Queue!None THEN job[j].started
                                         ELSE job[j].enqueued
BY DEF Queue!Row

\* The rows of one ending, in the order of their dates.
LEMMA NewestFirstIsLater ==
  ASSUME JobsAreDated, NEW l \in {"failed", "completed"}, NEW s, TellsOf(s, In(l))
  PROVE  /\ Strict(1 .. Len(s), NewestFirst(s))
         /\ RowsOfOrder(1 .. Len(s), NewestFirst(s), s, In(l), Later(In(l)))
<1> DEFINE K == 1 .. Len(s)
<1>1. DOMAIN s = K /\ Len(s) \in Nat
  BY DEF TellsOf
<1>2. \A i \in K : s[i].id \in In(l) /\ s[i].ended = job[s[i].id].ended
  BY RowParts DEF TellsOf
<1>3. \A j \in In(l) : job[j].ended \in Dates(j) /\ job[j].ended \in Int
  BY DEF JobsAreDated, JobType, In, Dates
<1>4. \A j, k \in In(l) : j # k => job[j].ended # job[k].ended
  BY <1>3 DEF JobsAreDated, In
<1>5. \A i, k \in K : i # k => s[i].id # s[k].id
  BY DEF TellsOf
<1>6. \A i, k \in K : i # k => s[i].ended # s[k].ended
  BY <1>2, <1>4, <1>5
<1>7. \A i \in K : s[i].ended \in Int
  BY <1>2, <1>3
<1>8. \A i, k \in K : <<i, k>> \in NewestFirst(s) <=> s[i].ended > s[k].ended
  <2> SUFFICES ASSUME NEW i \in K, NEW k \in K
               PROVE  <<i, k>> \in NewestFirst(s) <=> s[i].ended > s[k].ended
    OBVIOUS
  <2>1. <<i, k>> \in NewestFirst(s) <=> \/ s[i].ended > s[k].ended
                                        \/ ~(s[k].ended > s[i].ended) /\ i < k
    BY <1>1 DEF NewestFirst
  <2>2. s[i].ended \in Int /\ s[k].ended \in Int /\ (i # k => s[i].ended # s[k].ended)
        /\ i \in Nat /\ k \in Nat
    BY <1>1, <1>6, <1>7
  <2> QED
    BY <2>1, <2>2
<1>9. Strict(K, NewestFirst(s))
  BY <1>6, <1>7, <1>8 DEF Strict
<1>10. \A i, k \in K : <<i, k>> \in NewestFirst(s) <=> <<s[i].id, s[k].id>> \in Later(In(l))
  BY <1>2, <1>8 DEF Later
<1> QED
  BY <1>2, <1>5, <1>9, <1>10 DEF RowsOfOrder, TellsOf

\* What is in flight has a rank.
LEMMA Ranks ==
  /\ Queue!RankOf("active") = 1 /\ Queue!RankOf("waiting") = 2 /\ Queue!RankOf("delayed") = 3
BY DEF Queue!RankOf, Queue!InFlight

\* The jobs in flight.
InFlightJobs == {j \in Callers : job[j].state \in {"active", "waiting", "delayed"}}

\* The rows in flight, in the order a page shows them.
LEMMA InFlightFirstIsSooner ==
  ASSUME JobsAreDated, NEW s, TellsOf(s, InFlightJobs)
  PROVE  /\ Strict(1 .. Len(s), InFlightFirst(s))
         /\ RowsOfOrder(1 .. Len(s), InFlightFirst(s), s, InFlightJobs, Sooner(InFlightJobs))
<1> DEFINE K == 1 .. Len(s)
           since(j) == Queue!Row(j, job[j].state).since
           rank(j) == Queue!RankOf(job[j].state)
           first(j, k) == rank(j) < rank(k) \/ (job[j].state = job[k].state /\ since(j) < since(k))
<1>1. DOMAIN s = K /\ Len(s) \in Nat
  BY DEF TellsOf
<1>2. \A i \in K : s[i].id \in InFlightJobs /\ s[i] = Queue!Row(s[i].id, job[s[i].id].state)
  BY DEF TellsOf
<1>3. \A i \in K : s[i].state = job[s[i].id].state /\ s[i].since = since(s[i].id)
  BY <1>2, RowParts
<1>4. \A j \in InFlightJobs : since(j) \in Dates(j) /\ since(j) \in Int /\ rank(j) \in 1 .. 3
  <2> SUFFICES ASSUME NEW j \in InFlightJobs
               PROVE  since(j) \in Dates(j) /\ since(j) \in Int /\ rank(j) \in 1 .. 3
    OBVIOUS
  <2>1. /\ job[j].state \in {"active", "waiting", "delayed"} /\ job[j].enqueued # Queue!None
        /\ job[j].enqueued \in Int /\ job[j].started \in Int
    BY DEF InFlightJobs, JobsAreDated, JobType
  <2>2. since(j) = IF job[j].started # Queue!None THEN job[j].started ELSE job[j].enqueued
    BY DEF Queue!Row
  <2> QED
    BY <2>1, <2>2, Ranks DEF Dates
<1>5. \A j, k \in InFlightJobs : j # k => since(j) # since(k)
  BY <1>4 DEF JobsAreDated, InFlightJobs
<1>6. \A j, k \in InFlightJobs : rank(j) = rank(k) <=> job[j].state = job[k].state
  BY Ranks DEF InFlightJobs
<1>7. \A i, k \in K : i # k => s[i].id # s[k].id
  BY DEF TellsOf
<1>8. \A i, k \in K : Queue!byInFlight(s[i], s[k]) <=> first(s[i].id, s[k].id)
  BY <1>3 DEF Queue!byInFlight
<1> HIDE DEF since, rank
<1>9. /\ \A j \in InFlightJobs : ~first(j, j)
      /\ \A j, k \in InFlightJobs : j # k => (first(j, k) <=> ~first(k, j))
      /\ \A j, k, o \in InFlightJobs : first(j, k) /\ first(k, o) => first(j, o)
  BY <1>4, <1>5, <1>6
<1> HIDE DEF first
<1>10. \A i, k \in K : <<i, k>> \in InFlightFirst(s) <=> first(s[i].id, s[k].id)
  <2> SUFFICES ASSUME NEW i \in K, NEW k \in K
               PROVE  <<i, k>> \in InFlightFirst(s) <=> first(s[i].id, s[k].id)
    OBVIOUS
  <2>1. <<i, k>> \in InFlightFirst(s) <=> \/ Queue!byInFlight(s[i], s[k])
                                          \/ ~Queue!byInFlight(s[k], s[i]) /\ i < k
    BY <1>1 DEF InFlightFirst
  <2>2. <<i, k>> \in InFlightFirst(s) <=> first(s[i].id, s[k].id) \/ (~first(s[k].id, s[i].id) /\ i < k)
    BY <1>8, <2>1
  <2>3. i = k => ~(i < k)
    BY <1>1
  <2> QED
    BY <1>2, <1>7, <1>9, <2>2, <2>3
<1>11. Strict(K, InFlightFirst(s))
  BY <1>2, <1>7, <1>9, <1>10 DEF Strict
<1>12. \A j, k \in InFlightJobs : <<j, k>> \in Sooner(InFlightJobs) <=> first(j, k)
  BY DEF Sooner, first, since, rank
<1>13. \A i, k \in K : <<i, k>> \in InFlightFirst(s) <=> <<s[i].id, s[k].id>> \in Sooner(InFlightJobs)
  BY <1>2, <1>10, <1>12
<1> QED
  BY <1>2, <1>7, <1>11, <1>13 DEF RowsOfOrder, TellsOf

\* The runs that gave up on part of their work.
WarnedJobs == {j \in Callers : job[j].state = "completed" /\ job[j].warned}

\* The places of the rows that did.
Kept(s) == {k \in DOMAIN s : s[k].warned}

\* Places from the first to the last.
Ascending(K) == {p \in K \X K : p[1] < p[2]}

\* What is sorted ascends in the order it is sorted by.
LEMMA InOrderAscends ==
  ASSUME NEW S, IsFiniteSet(S), NEW R, Strict(S, R),
         NEW i \in 1 .. Cardinality(S), NEW k \in 1 .. Cardinality(S)
  PROVE  /\ Queue!InOrder(S, R)[i] \in S
         /\ <<Queue!InOrder(S, R)[i], Queue!InOrder(S, R)[k]>> \in R <=> i < k
         /\ Queue!InOrder(S, R)[i] = Queue!InOrder(S, R)[k] => i = k
<1> DEFINE f == Queue!InOrder(S, R)
           n == Cardinality(S)
<1>1. /\ n \in Nat /\ f \in [1 .. n -> S]
      /\ \A x \in 1 .. n : Cardinality(Ahead(S, R, f[x])) = x - 1
  BY InOrderPlaces
<1> HIDE DEF f
<1>2. f[i] \in S /\ f[k] \in S
  BY <1>1
<1>3. /\ <<f[i], f[k]>> \in R => Cardinality(Ahead(S, R, f[i])) < Cardinality(Ahead(S, R, f[k]))
      /\ <<f[k], f[i]>> \in R => Cardinality(Ahead(S, R, f[k])) < Cardinality(Ahead(S, R, f[i]))
  BY <1>2, AheadCounts
<1>4. Cardinality(Ahead(S, R, f[i])) = i - 1 /\ Cardinality(Ahead(S, R, f[k])) = k - 1
  BY <1>1
<1>5. f[i] = f[k] => i = k
  BY <1>1, <1>4
<1>6. f[i] # f[k] => <<f[i], f[k]>> \in R \/ <<f[k], f[i]>> \in R
  BY <1>2 DEF Strict
<1>7. i < k => f[i] # f[k]
  <2> SUFFICES ASSUME i < k, f[i] = f[k] PROVE FALSE
    OBVIOUS
  <2>1. i - 1 = k - 1
    BY <1>4
  <2> QED
    BY <1>1, <2>1
<1> QED
  BY <1>1, <1>2, <1>3, <1>4, <1>5, <1>6, <1>7 DEF f

\* The rows of the warned runs, in the order of their dates.
LEMMA WarnedAreLater ==
  ASSUME JobsAreDated, TellsOf(read["completed"].ids, In("completed"))
  PROVE  LET w == Queue!scan("completed")
         IN  /\ IsFiniteSet(Kept(w)) /\ Strict(Kept(w), Ascending(Kept(w)))
             /\ RowsOfOrder(Kept(w), Ascending(Kept(w)), w, WarnedJobs, Later(WarnedJobs))
             /\ Queue!Warned(w) = [i \in 1 .. Cardinality(Kept(w)) |->
                                     w[Queue!InOrder(Kept(w), Ascending(Kept(w)))[i]]]
<1> DEFINE s == read["completed"].ids
           S == In("completed")
           n == Len(s)
           K == 1 .. n
           R == NewestFirst(s)
           f == Queue!InOrder(K, R)
           w == Queue!scan("completed")
           kept == Kept(w)
<1>1. n \in Nat /\ DOMAIN s = K
  BY DEF TellsOf
<1>2. Cardinality(K) = n /\ IsFiniteSet(K) /\ w = [i \in K |-> s[f[i]]]
  BY <1>1, ScanIsSorted
<1>3. Strict(K, R) /\ RowsOfOrder(K, R, s, S, Later(S))
  BY NewestFirstIsLater
<1>4. \A i, k \in K : /\ f[i] \in K /\ (<<f[i], f[k]>> \in R <=> i < k) /\ (f[i] = f[k] => i = k)
  BY <1>2, <1>3, InOrderAscends
<1>5. \A x \in K : \E i \in K : f[i] = x
  <2>1. \A x \in K : \E i \in 1 .. Cardinality(K) : f[i] = x
    BY <1>2, <1>3, InOrderPlaces
  <2> QED
    BY <1>2, <2>1
<1>6. \A x \in K : s[x].id \in S /\ s[x].warned = job[s[x].id].warned
  BY RowParts DEF TellsOf
<1>7. kept = {k \in K : w[k].warned} /\ kept \in SUBSET K
  BY <1>2 DEF Kept
<1> HIDE DEF f, w, R, n, K
<1>8. \A i \in K : w[i].id = s[f[i]].id /\ w[i].id \in S /\ w[i].warned = job[w[i].id].warned
  BY <1>2, <1>4, <1>6
<1>9. \A j \in S : \E i \in K : w[i].id = j
  <2> SUFFICES ASSUME NEW j \in S PROVE \E i \in K : w[i].id = j
    OBVIOUS
  <2>1. PICK x \in K : s[x].id = j
    BY <1>3 DEF RowsOfOrder
  <2>2. PICK i \in K : f[i] = x
    BY <1>5
  <2> QED
    BY <1>8, <2>1, <2>2
<1>10. \A i, k \in K : (w[i].id = w[k].id => i = k) /\ (i < k <=> <<w[i].id, w[k].id>> \in Later(S))
  <2> SUFFICES ASSUME NEW i \in K, NEW k \in K
               PROVE  (w[i].id = w[k].id => i = k) /\ (i < k <=> <<w[i].id, w[k].id>> \in Later(S))
    OBVIOUS
  <2>1. f[i] \in K /\ f[k] \in K /\ w[i].id = s[f[i]].id /\ w[k].id = s[f[k]].id
    BY <1>4, <1>8
  <2>2. w[i].id = w[k].id => f[i] = f[k]
    <3>1. \A x, y \in K : s[x].id = s[y].id => x = y
      BY <1>3 DEF RowsOfOrder
    <3> QED
      BY <2>1, <3>1
  <2>3. <<f[i], f[k]>> \in R <=> <<w[i].id, w[k].id>> \in Later(S)
    BY <1>3, <2>1 DEF RowsOfOrder
  <2> QED
    BY <1>4, <2>2, <2>3
<1>11. WarnedJobs = {j \in S : job[j].warned}
  BY DEF WarnedJobs, In
<1>12. \A x \in kept : x \in K /\ w[x].id \in WarnedJobs
  BY <1>7, <1>8, <1>11
<1>13. \A j \in WarnedJobs : \E x \in kept : w[x].id = j
  BY <1>7, <1>8, <1>9, <1>11
<1>14. \A x, y \in kept : <<x, y>> \in Ascending(kept) <=> <<w[x].id, w[y].id>> \in Later(WarnedJobs)
  BY <1>10, <1>12, <1>11 DEF Ascending, Later
<1>15. RowsOfOrder(kept, Ascending(kept), w, WarnedJobs, Later(WarnedJobs))
  BY <1>10, <1>12, <1>13, <1>14 DEF RowsOfOrder
<1>16. IsFiniteSet(kept)
  BY <1>2, <1>7, FS_Subset
<1>17. Strict(kept, Ascending(kept))
  BY <1>1, <1>7 DEF Strict, Ascending, K
<1>18. Queue!Warned(w) = [i \in 1 .. Cardinality(kept) |-> w[Queue!InOrder(kept, Ascending(kept))[i]]]
  BY QueueCounts DEF Queue!Warned, Kept, Ascending
<1> QED
  BY <1>15, <1>16, <1>17, <1>18 DEF w

\* A load nothing moved under: every list is in, as the jobs are.
QuietLoad ==
  /\ JobsAreDated /\ LIST_LIMIT \in Nat
  /\ \A l \in Queue!Lists : TellsOf(read[l].ids, In(l))

\* The members of S that fewer than a page of others come before.
OnAPage(S, G) == {j \in S : Cardinality(Ahead(S, G, j)) < LIST_LIMIT}

\* The failures of a quiet load are the failed jobs, a page of them, newest first.
LEMMA FailuresAreWhole ==
  ASSUME QuietLoad
  PROVE  Queue!Listed(Queue!Ids(Queue!failures)) = OnAPage(In("failed"), Later(In("failed")))
<1> DEFINE s == read["failed"].ids
           n == Len(s)
           R == NewestFirst(s)
<1>1. TellsOf(s, In("failed")) /\ JobsAreDated /\ LIST_LIMIT \in Nat
  BY DEF QuietLoad, Queue!Lists
<1>2. n \in Nat /\ DOMAIN s = 1 .. n
  BY <1>1 DEF TellsOf
<1>3. /\ Cardinality(1 .. n) = n /\ IsFiniteSet(1 .. n)
      /\ Queue!scan("failed") = [i \in 1 .. n |-> s[Queue!InOrder(1 .. n, R)[i]]]
  BY <1>2, ScanIsSorted
<1>4. Strict(1 .. n, R) /\ RowsOfOrder(1 .. n, R, s, In("failed"), Later(In("failed")))
  BY <1>1, NewestFirstIsLater
<1>5. Queue!failures = Queue!paginate(Queue!scan("failed"))
  BY DEF Queue!failures
<1> HIDE DEF s, R
<1> QED
  BY <1>1, <1>3, <1>4, <1>5, PageOfJobs DEF OnAPage

\* What a quiet load shows in flight is what is, a page of it, running first.
LEMMA RunningIsWhole ==
  ASSUME QuietLoad
  PROVE  Queue!Listed(Queue!Ids(Queue!running)) = OnAPage(InFlightJobs, Sooner(InFlightJobs))
<1> DEFINE s == Waiting
           n == Len(s)
           R == InFlightFirst(s)
<1>1. JobsAreDated /\ LIST_LIMIT \in Nat
  BY DEF QuietLoad
<1>2. TellsOf(s, InFlightJobs)
  <2> DEFINE a == read["active"].ids
             b == read["waiting"].ids
             d == read["delayed"].ids
  <2>1. TellsOf(a, In("active")) /\ TellsOf(b, In("waiting")) /\ TellsOf(d, In("delayed"))
    BY DEF QuietLoad, Queue!Lists
  <2>2. /\ In("active") \cap In("waiting") = {}
        /\ (In("active") \cup In("waiting")) \cap In("delayed") = {}
        /\ InFlightJobs = (In("active") \cup In("waiting")) \cup In("delayed")
    BY DEF In, InFlightJobs
  <2> HIDE DEF a, b, d
  <2>3. TellsOf(a \o b, In("active") \cup In("waiting"))
    BY <2>1, <2>2, TellsOfBoth
  <2>4. TellsOf((a \o b) \o d, (In("active") \cup In("waiting")) \cup In("delayed"))
    BY <2>1, <2>2, <2>3, TellsOfBoth
  <2>5. s = (a \o b) \o d
    BY DEF Waiting, a, b, d
  <2> QED
    BY <2>2, <2>4, <2>5
<1>3. n \in Nat /\ DOMAIN s = 1 .. n
  BY <1>2 DEF TellsOf
<1>4. Cardinality(1 .. n) = n /\ IsFiniteSet(1 .. n)
  BY <1>3, Places
<1>5. Queue!running = Queue!paginate([i \in 1 .. n |-> s[Queue!InOrder(1 .. n, R)[i]]])
  BY <1>3, RunningIsSorted
<1>6. Strict(1 .. n, R) /\ RowsOfOrder(1 .. n, R, s, InFlightJobs, Sooner(InFlightJobs))
  BY <1>1, <1>2, InFlightFirstIsSooner
<1> HIDE DEF s, R
<1> QED
  BY <1>1, <1>4, <1>5, <1>6, PageOfJobs DEF OnAPage

\* The degraded runs of a quiet load are the warned ones, a page of them, newest
\* first: clean ones push none out.
LEMMA DegradedAreWhole ==
  ASSUME QuietLoad
  PROVE  Queue!Listed(Queue!Ids(Queue!degraded)) = OnAPage(WarnedJobs, Later(WarnedJobs))
<1> DEFINE w == Queue!scan("completed")
           K == Kept(w)
<1>1. TellsOf(read["completed"].ids, In("completed")) /\ JobsAreDated /\ LIST_LIMIT \in Nat
  BY DEF QuietLoad, Queue!Lists
<1>2. /\ IsFiniteSet(K) /\ Strict(K, Ascending(K))
      /\ RowsOfOrder(K, Ascending(K), w, WarnedJobs, Later(WarnedJobs))
      /\ Queue!Warned(w) = [i \in 1 .. Cardinality(K) |-> w[Queue!InOrder(K, Ascending(K))[i]]]
  BY <1>1, WarnedAreLater
<1>3. Queue!degraded = Queue!paginate(Queue!Warned(w))
  BY DEF Queue!degraded
<1> HIDE DEF w, K
<1> QED
  BY <1>1, <1>2, <1>3, PageOfJobs DEF OnAPage

\* What has been read, of a load nothing moved under, is what there is.
QueueInv ==
  /\ JobsAreDated /\ moved \in BOOLEAN
  /\ read \in [Queue!Lists -> [done : BOOLEAN, ids : Seq(RowType)]]
  /\ \A l \in Queue!Lists : read[l].done /\ ~moved => read[l].ids = RowsOf(l)

\* The dates of a job as it would be.
DatesOf(new) == {new.enqueued, new.started, new.ended} \ {Queue!None}

\* What a job is once its columns are written, move by move: one that is enqueued.
LEMMA EnqueuedJob ==
  ASSUME NEW r \in JobType, NEW d \in Int
  PROVE  LET new == [r EXCEPT !.state = "waiting", !.enqueued = d]
         IN  /\ new \in JobType /\ new.state = "waiting"
             /\ new.enqueued = d /\ new.started = r.started /\ new.ended = r.ended
BY DEF JobType, Queue!Lists

\* A job that starts.
LEMMA StartedJob ==
  ASSUME NEW r \in JobType, NEW d \in Int
  PROVE  LET new == [r EXCEPT !.state = "active", !.started = d]
         IN  /\ new \in JobType /\ new.state = "active"
             /\ new.enqueued = r.enqueued /\ new.started = d /\ new.ended = r.ended
BY DEF JobType, Queue!Lists

\* A job that completes is one.
LEMMA CompletedJob ==
  ASSUME NEW r \in JobType, NEW d \in Int, NEW w \in BOOLEAN
  PROVE  [r EXCEPT !.state = "completed", !.warned = w, !.ended = d] \in JobType
BY DEF JobType, Queue!Lists

\* Completing dates the end and no other moment.
LEMMA CompletedDates ==
  ASSUME NEW r \in JobType, NEW d, NEW w
  PROVE  LET new == [r EXCEPT !.state = "completed", !.warned = w, !.ended = d]
         IN  /\ new.state = "completed" /\ new.ended = d
             /\ new.enqueued = r.enqueued /\ new.started = r.started
BY DEF JobType

\* A job behind a backoff keeps its dates.
LEMMA DelayedJob ==
  ASSUME NEW r \in JobType
  PROVE  LET new == [r EXCEPT !.state = "delayed", !.attempts = @ + 1]
         IN  /\ new \in JobType /\ new.state = "delayed"
             /\ new.enqueued = r.enqueued /\ new.started = r.started /\ new.ended = r.ended
<1>1. r.attempts \in Int /\ r.attempts + 1 \in Int
  BY DEF JobType
<1> QED
  BY <1>1 DEF JobType, Queue!Lists

\* A job given up on.
LEMMA FailedJob ==
  ASSUME NEW r \in JobType, NEW d \in Int
  PROVE  LET new == [r EXCEPT !.state = "failed", !.attempts = @ + 1, !.ended = d]
         IN  /\ new \in JobType /\ new.state = "failed"
             /\ new.enqueued = r.enqueued /\ new.started = r.started /\ new.ended = d
<1>1. r.attempts \in Int /\ r.attempts + 1 \in Int
  BY DEF JobType
<1> QED
  BY <1>1 DEF JobType, Queue!Lists

\* A job whose backoff is over keeps its dates.
LEMMA PromotedJob ==
  ASSUME NEW r \in JobType
  PROVE  LET new == [r EXCEPT !.state = "waiting"]
         IN  /\ new \in JobType /\ new.state = "waiting"
             /\ new.enqueued = r.enqueued /\ new.started = r.started /\ new.ended = r.ended
BY DEF JobType, Queue!Lists

\* A job retried by hand starts over.
LEMMA RenewedJob ==
  ASSUME NEW r \in JobType, NEW d \in Int
  PROVE  LET new == [r EXCEPT !.state = "waiting", !.started = d, !.ended = d]
         IN  /\ new \in JobType /\ new.state = "waiting"
             /\ new.enqueued = r.enqueued /\ new.started = d /\ new.ended = d
BY DEF JobType, Queue!Lists

\* A job that moves keeps dates of its own, or takes the one that is given out.
LEMMA MovesKeepDates ==
  ASSUME JobsAreDated, NEW j \in Callers, NEW new \in JobType,
         job' = [job EXCEPT ![j] = new],
         NEW fresh, DatesOf(new) \subseteq Dates(j) \cup fresh,
         (fresh = {} /\ clock' = clock) \/ (fresh = {clock} /\ clock' = clock + 1),
         new.state # "none" => new.enqueued # Queue!None,
         new.state \in {"failed", "completed"} => new.ended # Queue!None
  PROVE  JobsAreDated'
<1>1. /\ job \in [Callers -> JobType] /\ clock \in Nat /\ clock >= 1
      /\ \A k \in Callers : Dates(k) \subseteq 0 .. clock - 1
      /\ \A i, k \in Callers : i # k => Dates(i) \cap Dates(k) = {}
      /\ \A k \in Callers : job[k].state # "none" => job[k].enqueued # Queue!None
      /\ \A k \in Callers : job[k].state \in {"failed", "completed"} => job[k].ended # Queue!None
  BY DEF JobsAreDated
<1>2. job' \in [Callers -> JobType] /\ job'[j] = new /\ \A k \in Callers : k # j => job'[k] = job[k]
  BY <1>1
<1>3. Dates(j)' = DatesOf(new) /\ \A k \in Callers : k # j => Dates(k)' = Dates(k)
  BY <1>2 DEF Dates, DatesOf
<1>4. /\ clock' \in Nat /\ clock' >= 1 /\ 0 .. clock - 1 \subseteq 0 .. clock' - 1
      /\ fresh \subseteq 0 .. clock' - 1 /\ fresh \cap (0 .. clock - 1) = {}
  <2>1. CASE fresh = {} /\ clock' = clock
    BY <1>1, <2>1
  <2>2. CASE fresh = {clock} /\ clock' = clock + 1
    BY <1>1, <2>2
  <2> QED
    BY <2>1, <2>2
<1>5. \A k \in Callers : Dates(k)' \subseteq 0 .. clock' - 1
  <2>1. \A k \in Callers : Dates(k) \subseteq 0 .. clock' - 1
    BY <1>1, <1>4
  <2> QED
    BY <1>3, <1>4, <2>1
<1>6. ASSUME NEW i \in Callers, NEW k \in Callers, i # k PROVE Dates(i)' \cap Dates(k)' = {}
  <2>1. CASE i = j
    BY <1>1, <1>3, <1>4, <1>6, <2>1
  <2>2. CASE k = j
    BY <1>1, <1>3, <1>4, <1>6, <2>2
  <2>3. CASE i # j /\ k # j
    BY <1>1, <1>3, <1>6, <2>3
  <2> QED
    BY <2>1, <2>2, <2>3
<1>7. /\ \A k \in Callers : job'[k].state # "none" => job'[k].enqueued # Queue!None
      /\ \A k \in Callers : job'[k].state \in {"failed", "completed"} => job'[k].ended # Queue!None
  BY <1>1, <1>2
<1> QED
  BY <1>2, <1>4, <1>5, <1>6, <1>7 DEF JobsAreDated

\* A job that moves under a load ends its being quiet.
LEMMA MovesAreNoticed ==
  ASSUME QueueInv, NEW j, NEW new, Queue!Moves(j, new), JobsAreDated'
  PROVE  QueueInv'
<1>1. moved' = Queue!Loading /\ read' = read
  BY DEF Queue!Moves
<1>2. CASE Queue!Loading
  BY <1>1, <1>2 DEF QueueInv
<1>3. CASE ~Queue!Loading
  BY <1>1, <1>3 DEF QueueInv, Queue!Loading
<1> QED
  BY <1>2, <1>3

\* The page starts with at most one job of the past, dated before the clock.
LEMMA QueueStarts == Queue!Init => QueueInv
<1> SUFFICES ASSUME Queue!Init PROVE QueueInv
  OBVIOUS
<1>1. PICK old \in {{}} \cup {{j} : j \in Callers} :
        job = [j \in Callers |-> IF j \in old THEN Queue!Past ELSE Queue!Absent]
  BY DEF Queue!Init
<1>2. /\ Queue!Past \in JobType /\ DatesOf(Queue!Past) = {0}
      /\ Queue!Past.enqueued # Queue!None /\ Queue!Past.ended # Queue!None
  BY DEF Queue!Past, JobType, DatesOf, Queue!None, Queue!Lists
<1>3. Queue!Absent \in JobType /\ DatesOf(Queue!Absent) = {} /\ Queue!Absent.state = "none"
  BY DEF Queue!Absent, JobType, DatesOf, Queue!None
<1>4. \A j \in Callers : job[j] \in {Queue!Past, Queue!Absent} /\ Dates(j) = DatesOf(job[j])
  BY <1>1 DEF Dates, DatesOf
<1>5. \A j, k \in Callers : j # k => job[j] = Queue!Absent \/ job[k] = Queue!Absent
  BY <1>1
<1>6. job \in [Callers -> JobType]
  BY <1>1, <1>2, <1>3
<1>7. \A j \in Callers : Dates(j) \subseteq 0 .. 1 - 1
  BY <1>2, <1>3, <1>4
<1>8. \A j, k \in Callers : j # k => Dates(j) \cap Dates(k) = {}
  BY <1>3, <1>4, <1>5
<1>9. /\ \A j \in Callers : job[j].state # "none" => job[j].enqueued # Queue!None
      /\ \A j \in Callers : job[j].state \in {"failed", "completed"} => job[j].ended # Queue!None
  BY <1>2, <1>3, <1>4
<1>10. clock = 1 /\ read = Queue!NotLoading /\ moved = FALSE
  BY DEF Queue!Init
<1>11. JobsAreDated
  BY <1>6, <1>7, <1>8, <1>9, <1>10 DEF JobsAreDated
<1>12. \A l \in Queue!Lists : read[l] = Queue!Unread
  BY <1>10 DEF Queue!NotLoading
<1>13. Queue!Unread \in [done : BOOLEAN, ids : Seq(RowType)] /\ ~Queue!Unread.done
  BY DEF Queue!Unread
<1>14. read \in [Queue!Lists -> [done : BOOLEAN, ids : Seq(RowType)]]
  BY <1>10, <1>13 DEF Queue!NotLoading
<1> QED
  BY <1>10, <1>11, <1>12, <1>13, <1>14 DEF QueueInv

\* Every move of a job keeps the dates apart.
LEMMA JobsMove ==
  ASSUME QueueInv, NEW j \in Callers,
         \/ Queue!Enqueue(j) \/ Queue!Start(j) \/ Queue!Fail(j) \/ Queue!Promote(j)
         \/ Queue!Retried(j) /\ job[j].state = "failed"
         \/ Queue!discard(j)
         \/ \E w \in BOOLEAN : Queue!Complete(j, w)
  PROVE  QueueInv'
<1>1. /\ job[j] \in JobType /\ clock \in Nat /\ clock \in Int /\ Queue!None \in Int
      /\ job \in [Callers -> JobType]
  BY DEF QueueInv, JobsAreDated, Queue!None
<1>2. job[j].state # "none" => job[j].enqueued # Queue!None
  BY DEF QueueInv, JobsAreDated
<1>3. CASE Queue!Enqueue(j)
  <2> DEFINE new == [job[j] EXCEPT !.state = "waiting", !.enqueued = clock]
  <2>1. Queue!Moves(j, new) /\ clock' = clock + 1
    BY <1>3 DEF Queue!Enqueue, Queue!Dated
  <2>2. /\ new \in JobType /\ new.state = "waiting" /\ new.enqueued = clock
        /\ new.started = job[j].started /\ new.ended = job[j].ended
    BY <1>1, EnqueuedJob
  <2> HIDE DEF new
  <2>3. /\ DatesOf(new) \subseteq Dates(j) \cup {clock} /\ new.enqueued # Queue!None
        /\ new.state \in {"failed", "completed"} => new.ended # Queue!None
    BY <1>1, <1>2, <2>1, <2>2 DEF DatesOf, Dates, Queue!None
  <2>4. JobsAreDated'
    BY <1>1, <2>1, <2>2, <2>3, MovesKeepDates DEF QueueInv, Queue!Moves
  <2> QED
    BY <2>1, <2>4, MovesAreNoticed
<1>4. CASE Queue!Start(j)
  <2> DEFINE new == [job[j] EXCEPT !.state = "active", !.started = clock]
  <2>1. Queue!Moves(j, new) /\ clock' = clock + 1 /\ job[j].state = "waiting"
    BY <1>4 DEF Queue!Start, Queue!Dated
  <2>2. /\ new \in JobType /\ new.state = "active" /\ new.started = clock
        /\ new.enqueued = job[j].enqueued /\ new.ended = job[j].ended
    BY <1>1, StartedJob
  <2> HIDE DEF new
  <2>3. /\ DatesOf(new) \subseteq Dates(j) \cup {clock} /\ new.enqueued # Queue!None
        /\ new.state \in {"failed", "completed"} => new.ended # Queue!None
    BY <1>1, <1>2, <2>1, <2>2 DEF DatesOf, Dates, Queue!None
  <2>4. JobsAreDated'
    BY <1>1, <1>2, <2>1, <2>2, <2>3, MovesKeepDates DEF QueueInv, Queue!Moves
  <2> QED
    BY <2>1, <2>4, MovesAreNoticed
<1>5. CASE Queue!Fail(j) /\ job[j].attempts + 1 < Attempts
  <2> DEFINE new == [job[j] EXCEPT !.state = "delayed", !.attempts = @ + 1]
  <2>1. Queue!Moves(j, new) /\ clock' = clock /\ job[j].state = "active"
    BY <1>5 DEF Queue!Fail
  <2>2. /\ new \in JobType /\ new.state = "delayed" /\ new.started = job[j].started
        /\ new.enqueued = job[j].enqueued /\ new.ended = job[j].ended
    BY <1>1, DelayedJob
  <2> HIDE DEF new
  <2>3. JobsAreDated'
    BY <1>1, <1>2, <2>1, <2>2, MovesKeepDates DEF QueueInv, Queue!Moves, DatesOf, Dates
  <2> QED
    BY <2>1, <2>3, MovesAreNoticed
<1>6. CASE Queue!Fail(j) /\ ~(job[j].attempts + 1 < Attempts)
  <2> DEFINE new == [job[j] EXCEPT !.state = "failed", !.attempts = @ + 1, !.ended = clock]
  <2>1. Queue!Moves(j, new) /\ clock' = clock + 1 /\ job[j].state = "active"
    BY <1>6 DEF Queue!Fail, Queue!Dated
  <2>2. /\ new \in JobType /\ new.state = "failed" /\ new.started = job[j].started
        /\ new.enqueued = job[j].enqueued /\ new.ended = clock
    BY <1>1, FailedJob
  <2> HIDE DEF new
  <2>3. /\ DatesOf(new) \subseteq Dates(j) \cup {clock} /\ new.enqueued # Queue!None
        /\ new.state \in {"failed", "completed"} => new.ended # Queue!None
    BY <1>1, <1>2, <2>1, <2>2 DEF DatesOf, Dates, Queue!None
  <2>4. JobsAreDated'
    BY <1>1, <1>2, <2>1, <2>2, <2>3, MovesKeepDates DEF QueueInv, Queue!Moves
  <2> QED
    BY <2>1, <2>4, MovesAreNoticed
<1>7. CASE Queue!Promote(j)
  <2> DEFINE new == [job[j] EXCEPT !.state = "waiting"]
  <2>1. Queue!Moves(j, new) /\ clock' = clock /\ job[j].state = "delayed"
    BY <1>7 DEF Queue!Promote
  <2>2. /\ new \in JobType /\ new.state = "waiting" /\ new.started = job[j].started
        /\ new.enqueued = job[j].enqueued /\ new.ended = job[j].ended
    BY <1>1, PromotedJob
  <2> HIDE DEF new
  <2>3. JobsAreDated'
    BY <1>1, <1>2, <2>1, <2>2, MovesKeepDates DEF QueueInv, Queue!Moves, DatesOf, Dates
  <2> QED
    BY <2>1, <2>3, MovesAreNoticed
<1>8. CASE Queue!Retried(j) /\ job[j].state = "failed"
  <2> DEFINE new == [job[j] EXCEPT !.state = "waiting", !.started = Queue!None, !.ended = Queue!None]
  <2>1. Queue!Moves(j, new) /\ clock' = clock
    BY <1>8 DEF Queue!Retried
  <2>2. /\ new \in JobType /\ new.state = "waiting" /\ new.started = Queue!None
        /\ new.enqueued = job[j].enqueued /\ new.ended = Queue!None
    BY <1>1, RenewedJob DEF Queue!None
  <2> HIDE DEF new
  <2>3. JobsAreDated'
    BY <1>1, <1>2, <1>8, <2>1, <2>2, MovesKeepDates DEF QueueInv, Queue!Moves, DatesOf, Dates
  <2> QED
    BY <2>1, <2>3, MovesAreNoticed
<1>9. CASE Queue!discard(j)
  <2> DEFINE new == Queue!Absent
  <2>1. Queue!Moves(j, new) /\ clock' = clock
    BY <1>9 DEF Queue!discard
  <2>2. /\ new \in JobType /\ new.state = "none" /\ new.started = Queue!None
        /\ new.enqueued = Queue!None /\ new.ended = Queue!None
    BY DEF JobType, Queue!Absent, Queue!None
  <2> HIDE DEF new
  <2>3. JobsAreDated'
    BY <1>1, <2>1, <2>2, MovesKeepDates DEF QueueInv, Queue!Moves, DatesOf, Dates
  <2> QED
    BY <2>1, <2>3, MovesAreNoticed
<1>10. ASSUME NEW w \in BOOLEAN, Queue!Complete(j, w) PROVE QueueInv'
  <2> DEFINE new == [job[j] EXCEPT !.state = "completed", !.warned = w, !.ended = clock]
  <2>1. Queue!Moves(j, new) /\ clock' = clock + 1 /\ job[j].state = "active"
    BY <1>10 DEF Queue!Complete, Queue!Dated
  <2>2. /\ new \in JobType /\ new.state = "completed" /\ new.started = job[j].started
        /\ new.enqueued = job[j].enqueued /\ new.ended = clock
    <3>1. new \in JobType
      BY <1>1, CompletedJob
    <3>2. /\ new.state = "completed" /\ new.ended = clock
          /\ new.enqueued = job[j].enqueued /\ new.started = job[j].started
      BY <1>1, CompletedDates
    <3> QED
      BY <3>1, <3>2
  <2> HIDE DEF new
  <2>3. /\ DatesOf(new) \subseteq Dates(j) \cup {clock} /\ new.enqueued # Queue!None
        /\ new.state \in {"failed", "completed"} => new.ended # Queue!None
    BY <1>1, <1>2, <2>1, <2>2 DEF DatesOf, Dates, Queue!None
  <2>4. JobsAreDated'
    BY <1>1, <1>2, <2>1, <2>2, <2>3, MovesKeepDates DEF QueueInv, Queue!Moves
  <2> QED
    BY <2>1, <2>4, MovesAreNoticed
<1> QED
  BY <1>3, <1>4, <1>5, <1>6, <1>7, <1>8, <1>9, <1>10

\* Where no job moves, the dates and the rows there are stay.
LEMMA JobsAtRest ==
  ASSUME job' = job, clock' = clock
  PROVE  /\ JobsAreDated' <=> JobsAreDated
         /\ \A l \in Queue!Lists : RowsOf(l)' = RowsOf(l)
<1>1. JobsAreDated' <=> JobsAreDated
  BY DEF JobsAreDated, Dates
<1>2. ASSUME NEW l \in Queue!Lists PROVE RowsOf(l)' = RowsOf(l)
  BY DEF RowsOf, Queue!getJobs, Queue!Row
<1> QED
  BY <1>1, <1>2

\* A load that starts over has read nothing.
LEMMA NothingIsRead ==
  ASSUME JobsAreDated, job' = job, clock' = clock, read' = Queue!NotLoading, moved' = FALSE
  PROVE  QueueInv'
<1>1. \A l \in Queue!Lists : read'[l] = Queue!Unread
  BY DEF Queue!NotLoading
<1>2. Queue!Unread \in [done : BOOLEAN, ids : Seq(RowType)] /\ ~Queue!Unread.done
  BY DEF Queue!Unread
<1>3. read' \in [Queue!Lists -> [done : BOOLEAN, ids : Seq(RowType)]]
  BY <1>2 DEF Queue!NotLoading
<1> QED
  BY <1>1, <1>2, <1>3, JobsAtRest DEF QueueInv

\* A list that is read holds the jobs as they are.
LEMMA ListsAreRead ==
  ASSUME QueueInv, NEW l \in Queue!Lists, Queue!Read(l),
         IsFiniteSet(Callers), JOB_SCAN_DEPTH \in Nat
  PROVE  QueueInv'
<1> DEFINE entry == [done |-> TRUE, ids |-> RowsOf(l)]
<1>1. /\ job' = job /\ clock' = clock /\ moved' = moved
      /\ read' = [read EXCEPT ![l] = entry]
  BY DEF Queue!Read, RowsOf
<1>2. JobsAreDated /\ read \in [Queue!Lists -> [done : BOOLEAN, ids : Seq(RowType)]]
  BY DEF QueueInv
<1>3. entry \in [done : BOOLEAN, ids : Seq(RowType)] /\ entry.ids = RowsOf(l)
  BY <1>2, ListTells
<1> HIDE DEF entry
<1>4. /\ read' \in [Queue!Lists -> [done : BOOLEAN, ids : Seq(RowType)]]
      /\ read'[l] = entry /\ \A k \in Queue!Lists : k # l => read'[k] = read[k]
  BY <1>1, <1>2, <1>3
<1>5. \A k \in Queue!Lists : read'[k].done /\ ~moved => read'[k].ids = RowsOf(k)
  <2> SUFFICES ASSUME NEW k \in Queue!Lists, read'[k].done, ~moved PROVE read'[k].ids = RowsOf(k)
    OBVIOUS
  <2>1. CASE k = l
    BY <1>3, <1>4, <2>1
  <2>2. CASE k # l
    BY <1>4, <2>2 DEF QueueInv
  <2> QED
    BY <2>1, <2>2
<1>6. JobsAreDated' /\ \A k \in Queue!Lists : RowsOf(k)' = RowsOf(k)
  BY <1>1, <1>2, JobsAtRest
<1> QED
  BY <1>1, <1>4, <1>5, <1>6 DEF QueueInv

\* Every step of the page keeps what was read of a quiet load what there is.
LEMMA QueueStaysRead ==
  ASSUME QueueInv, [Queue!Next]_(Queue!vars), IsFiniteSet(Callers), JOB_SCAN_DEPTH \in Nat
  PROVE  QueueInv'
<1>1. ASSUME NEW j \in Callers,
             \/ Queue!Enqueue(j) \/ Queue!Start(j) \/ Queue!Fail(j) \/ Queue!Promote(j)
             \/ Queue!Retried(j) /\ job[j].state = "failed"
             \/ Queue!discard(j)
             \/ \E w \in BOOLEAN : Queue!Complete(j, w)
      PROVE  QueueInv'
  BY <1>1, JobsMove
<1>2. ASSUME job' = job, clock' = clock, read' = read, moved' = moved PROVE QueueInv'
  BY <1>2, JobsAtRest DEF QueueInv
<1>3. ASSUME NEW j \in Callers, Queue!retry(j) PROVE QueueInv'
  BY <1>2, <1>3 DEF Queue!retry
<1>4. ASSUME NEW j \in Callers, Queue!Retried(j), job[j].state # "failed" PROVE QueueInv'
  BY <1>2, <1>4 DEF Queue!Retried
<1>5. ASSUME NEW l \in Queue!Lists, Queue!Read(l) PROVE QueueInv'
  BY <1>5, ListsAreRead
<1>6. CASE Queue!reload
  BY <1>6, NothingIsRead DEF Queue!reload, QueueInv
<1>7. CASE Queue!Loaded
  BY <1>7, NothingIsRead DEF Queue!Loaded, QueueInv
<1>8. CASE UNCHANGED Queue!vars
  BY <1>2, <1>8 DEF Queue!vars
<1> QED
  BY <1>1, <1>3, <1>4, <1>5, <1>6, <1>7, <1>8 DEF Queue!Next


\* Whatever was read, no list is longer than its page.
LEMMA ListsAreShort ==
  ASSUME QueueInv, LIST_LIMIT \in Nat
  PROVE  /\ Len(Queue!Ids(Queue!running)) <= LIST_LIMIT
         /\ Len(Queue!Ids(Queue!failures)) <= LIST_LIMIT
         /\ Len(Queue!Ids(Queue!degraded)) <= LIST_LIMIT
<1>1. \A l \in Queue!Lists : read[l].ids \in Seq(RowType)
  BY DEF QueueInv
<1>2. \A l \in Queue!Lists : \E n \in Nat : /\ DOMAIN Queue!scan(l) = 1 .. n
                                            /\ Queue!scan(l) = [i \in 1 .. n |-> Queue!scan(l)[i]]
  <2> SUFFICES ASSUME NEW l \in Queue!Lists
               PROVE  \E n \in Nat : /\ DOMAIN Queue!scan(l) = 1 .. n
                                     /\ Queue!scan(l) = [i \in 1 .. n |-> Queue!scan(l)[i]]
    OBVIOUS
  <2> DEFINE s == read[l].ids
             n == Len(s)
  <2>1. n \in Nat /\ DOMAIN s = 1 .. n
    BY <1>1
  <2>2. Queue!scan(l) = [i \in 1 .. n |-> s[Queue!InOrder(1 .. n, NewestFirst(s))[i]]]
    BY <2>1, ScanIsSorted
  <2> HIDE DEF s, n
  <2>3. Queue!scan(l) = [i \in 1 .. n |-> Queue!scan(l)[i]] /\ DOMAIN Queue!scan(l) = 1 .. n
    BY <2>2
  <2> QED
    BY <2>1, <2>3
<1>3. Len(Queue!Ids(Queue!failures)) <= LIST_LIMIT
  <2>1. PICK n \in Nat : Queue!scan("failed") = [i \in 1 .. n |-> Queue!scan("failed")[i]]
    BY <1>2 DEF Queue!Lists
  <2>2. Queue!failures = Queue!paginate(Queue!scan("failed"))
    BY DEF Queue!failures
  <2> QED
    BY <2>1, <2>2, PageIsShort
<1>4. Len(Queue!Ids(Queue!degraded)) <= LIST_LIMIT
  <2> DEFINE w == Queue!scan("completed")
             K == Kept(w)
             s == [i \in 1 .. Cardinality(K) |-> w[Queue!InOrder(K, Ascending(K))[i]]]
  <2>1. PICK n \in Nat : DOMAIN w = 1 .. n
    BY <1>2 DEF Queue!Lists
  <2>2. K \in SUBSET (1 .. n) /\ IsFiniteSet(1 .. n)
    BY <2>1, Places DEF Kept
  <2>3. Cardinality(K) \in Nat
    BY <2>2, FS_Subset, FS_CardinalityType
  <2>4. Queue!Warned(w) = s
    BY QueueCounts DEF Queue!Warned, Kept, Ascending
  <2>5. Queue!degraded = Queue!paginate(s)
    BY <2>4 DEF Queue!degraded
  <2>6. s = [i \in 1 .. Cardinality(K) |-> s[i]]
    OBVIOUS
  <2> HIDE DEF s, K
  <2> QED
    BY <2>3, <2>5, <2>6, PageIsShort
<1>5. Len(Queue!Ids(Queue!running)) <= LIST_LIMIT
  <2> DEFINE n == Len(Waiting)
             s == [i \in 1 .. n |-> Waiting[Queue!InOrder(1 .. n, InFlightFirst(Waiting))[i]]]
  <2>1. n \in Nat /\ DOMAIN Waiting = 1 .. n
    <3>1. Waiting \in Seq(RowType)
      BY <1>1 DEF Waiting, Queue!Lists
    <3> QED
      BY <3>1
  <2>2. Queue!running = Queue!paginate(s)
    BY <2>1, RunningIsSorted
  <2>3. s = [i \in 1 .. n |-> s[i]]
    OBVIOUS
  <2> HIDE DEF s, n
  <2> QED
    BY <2>1, <2>2, <2>3, PageIsShort
<1> QED
  BY <1>3, <1>4, <1>5

\* A load nothing moved under has read all there is.
LEMMA NothingMoved ==
  ASSUME QueueInv, ~moved, \A l \in Queue!Lists : read[l].done, LIST_LIMIT \in Nat,
         IsFiniteSet(Callers), JOB_SCAN_DEPTH \in Nat, Cardinality(Callers) <= JOB_SCAN_DEPTH
  PROVE  QuietLoad
<1>1. JobsAreDated /\ \A l \in Queue!Lists : read[l].ids = RowsOf(l)
  BY DEF QueueInv
<1>2. \A l \in Queue!Lists : TellsOf(RowsOf(l), In(l))
  BY <1>1, ListTells
<1> QED
  BY <1>1, <1>2 DEF QuietLoad

\* Fewer than a page is fewer than a page, however they are counted.
LEMMA FewAhead == \A S : Queue!Few(S) <=> Cardinality(S) < LIST_LIMIT
BY QueueCounts DEF Queue!Few

\* How the page puts its lists in order is how they are counted.
LEMMA PagesByTheirOrder ==
  ASSUME JobsAreDated
  PROVE  LET since(j) == IF job[j].started # Queue!None THEN job[j].started ELSE job[j].enqueued
             sooner(k, j) == \/ Queue!RankOf(job[k].state) < Queue!RankOf(job[j].state)
                             \/ job[k].state = job[j].state /\ since(k) < since(j)
             later(k, j)  == job[k].ended > job[j].ended
         IN  /\ OnAPage(InFlightJobs, Sooner(InFlightJobs))
                  = {j \in InFlightJobs : Queue!Few(Queue!Before(InFlightJobs, j, sooner))}
             /\ OnAPage(In("failed"), Later(In("failed")))
                  = {j \in In("failed") : Queue!Few(Queue!Before(In("failed"), j, later))}
             /\ OnAPage(WarnedJobs, Later(WarnedJobs))
                  = {j \in WarnedJobs : Queue!Few(Queue!Before(WarnedJobs, j, later))}
<1> DEFINE since(j) == IF job[j].started # Queue!None THEN job[j].started ELSE job[j].enqueued
           sooner(k, j) == \/ Queue!RankOf(job[k].state) < Queue!RankOf(job[j].state)
                           \/ job[k].state = job[j].state /\ since(k) < since(j)
           later(k, j)  == job[k].ended > job[j].ended
<1>1. \A j \in Callers : job[j].started \in Int /\ job[j].enqueued \in Int /\ job[j].ended \in Int
  BY DEF JobsAreDated, JobType
<1>2. \A j \in InFlightJobs : since(j) \in Int /\ Queue!RankOf(job[j].state) \in 1 .. 3
  BY <1>1, Ranks DEF InFlightJobs
<1>3. \A j \in Callers : Queue!Row(j, job[j].state).since = since(j)
  BY RowParts
<1> HIDE DEF since
<1>4. \A j, k \in InFlightJobs : <<k, j>> \in Sooner(InFlightJobs) <=> sooner(k, j)
  BY <1>3 DEF Sooner, InFlightJobs
<1>5. \A j \in InFlightJobs : ~sooner(j, j)
  BY <1>2
<1> HIDE DEF sooner
<1>6. \A j, k \in InFlightJobs : <<k, j>> \in Sooner(InFlightJobs) <=> k # j /\ sooner(k, j)
  BY <1>4, <1>5
<1>7. OnAPage(InFlightJobs, Sooner(InFlightJobs))
        = {j \in InFlightJobs : Queue!Few(Queue!Before(InFlightJobs, j, sooner))}
  <2>1. \A j \in InFlightJobs :
          Ahead(InFlightJobs, Sooner(InFlightJobs), j) = {k \in InFlightJobs : k # j /\ sooner(k, j)}
    BY <1>6 DEF Ahead
  <2>2. \A j \in InFlightJobs :
          Queue!Before(InFlightJobs, j, sooner) = Ahead(InFlightJobs, Sooner(InFlightJobs), j)
    BY <2>1 DEF Queue!Before
  <2> QED
    BY <2>2, FewAhead DEF OnAPage
<1>8. \A j, k \in Callers : later(k, j) => k # j
  BY <1>1
<1>9. ASSUME NEW S \in SUBSET Callers
      PROVE  OnAPage(S, Later(S)) = {j \in S : Queue!Few(Queue!Before(S, j, later))}
  <2>1. \A j, k \in S : <<k, j>> \in Later(S) <=> later(k, j)
    BY DEF Later
  <2>2. \A j, k \in S : <<k, j>> \in Later(S) <=> k # j /\ later(k, j)
    BY <1>8, <2>1
  <2> HIDE DEF later
  <2>3. \A j \in S : Ahead(S, Later(S), j) = {k \in S : k # j /\ later(k, j)}
    BY <2>2 DEF Ahead
  <2>4. \A j \in S : Queue!Before(S, j, later) = Ahead(S, Later(S), j)
    BY <2>3 DEF Queue!Before
  <2> QED
    BY <2>4, FewAhead DEF OnAPage
<1>10. In("failed") \in SUBSET Callers /\ WarnedJobs \in SUBSET Callers
  BY DEF In, WarnedJobs
<1> HIDE DEF later
<1> QED
  BY <1>7, <1>9, <1>10 DEF sooner, later, since

\* What is shown all at once is each list's page.
LEMMA LoadsAreWhole ==
  ASSUME QueueInv, Queue!Loaded, LIST_LIMIT \in Nat,
         IsFiniteSet(Callers), JOB_SCAN_DEPTH \in Nat, Cardinality(Callers) <= JOB_SCAN_DEPTH
  PROVE  Queue!QuietPageIsWhole
<1> DEFINE since(j) == IF job[j].started # Queue!None THEN job[j].started ELSE job[j].enqueued
           sooner(k, j) == \/ Queue!RankOf(job[k].state) < Queue!RankOf(job[j].state)
                           \/ job[k].state = job[j].state /\ since(k) < since(j)
           later(k, j)  == job[k].ended > job[j].ended
<1>1. /\ shown' = [running |-> Queue!Ids(Queue!running), failures |-> Queue!Ids(Queue!failures),
                   degraded |-> Queue!Ids(Queue!degraded)]
      /\ \A l \in Queue!Lists : read[l].done
  BY DEF Queue!Loaded
<1>2. \A l \in DOMAIN shown' : Len(shown'[l]) <= LIST_LIMIT
  BY <1>1, ListsAreShort
<1>3. ASSUME ~moved
      PROVE  /\ Queue!Listed(shown'.running)
                  = {j \in InFlightJobs : Queue!Few(Queue!Before(InFlightJobs, j, sooner))}
             /\ Queue!Listed(shown'.failures)
                  = {j \in In("failed") : Queue!Few(Queue!Before(In("failed"), j, later))}
             /\ Queue!Listed(shown'.degraded)
                  = {j \in WarnedJobs : Queue!Few(Queue!Before(WarnedJobs, j, later))}
  <2>1. QuietLoad
    BY <1>1, <1>3, NothingMoved
  <2>2. JobsAreDated
    BY DEF QueueInv
  <2>3. /\ Queue!Listed(shown'.running) = OnAPage(InFlightJobs, Sooner(InFlightJobs))
        /\ Queue!Listed(shown'.failures) = OnAPage(In("failed"), Later(In("failed")))
        /\ Queue!Listed(shown'.degraded) = OnAPage(WarnedJobs, Later(WarnedJobs))
    BY <1>1, <2>1, RunningIsWhole, FailuresAreWhole, DegradedAreWhole
  <2> QED
    BY <2>2, <2>3, PagesByTheirOrder DEF Queue!Before
<1> QED
  BY <1>2, <1>3 DEF Queue!QuietPageIsWhole, InFlightJobs, In, WarnedJobs, Queue!Before

\* Every load of the jobs page under which no job moved shows the jobs of each
\* list that belong on its page, and no list is longer than one (JobsService's
\* running, failures and degraded, and the page's load), for any number of jobs
\* the scan is deep enough for.
THEOREM QuietLoadsAreWhole ==
  ASSUME LIST_LIMIT \in Nat, IsFiniteSet(Callers), JOB_SCAN_DEPTH \in Nat,
         Cardinality(Callers) <= JOB_SCAN_DEPTH
  PROVE  Queue!Spec => [][Queue!QuietPageIsWhole]_(Queue!vars)
<1>1. Queue!Init => QueueInv
  BY QueueStarts
<1>2. QueueInv /\ [Queue!Next]_(Queue!vars) => QueueInv'
  BY QueueStaysRead
<1>3. QueueInv /\ [Queue!Next]_(Queue!vars) => [Queue!QuietPageIsWhole]_(Queue!vars)
  <2>1. QueueInv /\ Queue!Loaded => Queue!QuietPageIsWhole
    BY LoadsAreWhole
  <2>2. ~Queue!Loaded => Queue!QuietPageIsWhole
    BY DEF Queue!QuietPageIsWhole
  <2> QED  BY <2>1, <2>2
<1> QED
  BY <1>1, <1>2, <1>3, PTL DEF Queue!Spec

-----------------------------------------------------------------------------
(* The screens together, as the run takes them.                            *)

\* No step changes which screen a behaviour is about.
LEMMA WhichIsFixed ==
  ASSUME [MCNext]_all PROVE which' = which
BY DEF MCNext, all

\* A step of a report and its address is a step of FilteredPage.
LEMMA ReportSteps ==
  ASSUME which = "report", [MCNext]_all
  PROVE  [Report!Next]_(Report!vars)
BY DEF MCNext, all, Screen, ofReport, Report!vars, Report!url, Report!screen,
       Report!beside

\* A step of the sources of the address is a step of Navigation.
LEMMA AddressesSteps ==
  ASSUME which = "navigation", [MCNext]_all
  PROVE  [Addresses!Next]_(Addresses!vars)
BY DEF MCNext, all, Screen, ofAddresses, Addresses!vars

\* A step of a list of rules is a step of CataloguePage.
LEMMA CatalogueSteps ==
  ASSUME which = "catalogue", [MCNext]_all
  PROVE  [Catalogue!Next]_(Catalogue!vars)
BY DEF MCNext, all, Screen, ofCatalogue, Catalogue!vars

\* A step of the jobs page is a step of JobsPage.
LEMMA QueueSteps ==
  ASSUME which = "queue", [MCNext]_all
  PROVE  [Queue!Next]_(Queue!vars)
BY DEF MCNext, all, Screen, ofQueue, Queue!vars

\* A step of the dialogs of a row is a step of RowDialogs.
LEMMA RowsSteps ==
  ASSUME which = "rows", [MCNext]_all
  PROVE  [Rows!Next]_(Rows!vars)
BY DEF MCNext, all, Screen, Rows!vars

\* A step of the dialog of a source is a step of SourceDialog.
LEMMA SourceSteps ==
  ASSUME which = "source", [MCNext]_all
  PROVE  [Source!Next]_(Source!vars)
BY DEF MCNext, all, Screen, ofSource, Source!vars, Source!dialogs

\* A step of the session on screen is a step of Session.
LEMMA ReaderSteps ==
  ASSUME which = "session", [MCNext]_all
  PROVE  [Reader!Next]_(Reader!vars)
BY DEF MCNext, all, Screen, ofReader, Reader!vars

\* A step of the runs a page follows is a step of JobWatch.
LEMMA FollowerSteps ==
  ASSUME which = "jobs", [MCNext]_all
  PROVE  [Follower!Next]_(Follower!vars)
BY DEF MCNext, all, Screen, ofFollower, Follower!vars

\* What a report page shows answers the question its address spells
\* (useUrlQuery, useCancellableLoad), and every link leads to a source that is
\* there (activeSource), for any filters and sources and however often the reader
\* acts.
THEOREM ScreenStaysTheAddress ==
  ASSUME MaxSources \in Nat
  PROVE  MCSpec => []ScreenIsTheAddress
<1> DEFINE A == which = "report"
           B == which = "navigation"
<1>1. MCInit /\ A => Report!Init
  BY DEF MCInit, Start
<1>2. A /\ [MCNext]_all => A' /\ [Report!Next]_(Report!vars)
  BY ReportSteps, WhichIsFixed
<1>3. ~A /\ [MCNext]_all => (~A)'
  BY WhichIsFixed
<1>4. Report!Spec => []Report!ScreenIsTheAddress
  BY PageStaysItsAddress
<1>5. MCInit /\ B => Addresses!Init
  BY DEF MCInit, Start
<1>6. B /\ [MCNext]_all => B' /\ [Addresses!Next]_(Addresses!vars)
  BY AddressesSteps, WhichIsFixed
<1>7. ~B /\ [MCNext]_all => (~B)'
  BY WhichIsFixed
<1>8. Addresses!Spec => []Addresses!LinksLeadSomewhere
  BY LinksStayTrue
<1>9. (A => Report!ScreenIsTheAddress) /\ (B => Addresses!LinksLeadSomewhere) => ScreenIsTheAddress
  BY DEF ScreenIsTheAddress
<1> HIDE DEF A, B
<1> QED
  BY <1>1, <1>2, <1>3, <1>4, <1>5, <1>6, <1>7, <1>8, <1>9, PTL
  DEF MCSpec, Report!Spec, Addresses!Spec

\* A list at rest is what the tables hold (the pages over a rule table), the
\* session on screen is the server's (AuthProvider), and a run is reported as it
\* ended (SourcesPage), for any number of requests and runs.
THEOREM AnswersStayCurrent == MCSpec => []AnswersAreCurrent
<1> DEFINE A == which = "catalogue"
           B == which = "session"
           D == which = "jobs"
<1>1. MCInit /\ A => Catalogue!Init
  BY DEF MCInit, Start
<1>2. A /\ [MCNext]_all => A' /\ [Catalogue!Next]_(Catalogue!vars)
  BY CatalogueSteps, WhichIsFixed
<1>3. ~A /\ [MCNext]_all => (~A)'
  BY WhichIsFixed
<1>4. Catalogue!Spec => []Catalogue!ListIsCurrent
  BY ListStaysCurrent
<1>5. MCInit /\ B => Reader!Init
  BY DEF MCInit, Start
<1>6. B /\ [MCNext]_all => B' /\ [Reader!Next]_(Reader!vars)
  BY ReaderSteps, WhichIsFixed
<1>7. ~B /\ [MCNext]_all => (~B)'
  BY WhichIsFixed
<1>8. Reader!Spec => []Reader!ScreenIsTheSessions
  BY ScreenStaysTheSessions
<1>9. MCInit /\ D => Follower!Init
  BY DEF MCInit, Start
<1>10. D /\ [MCNext]_all => D' /\ [Follower!Next]_(Follower!vars)
  BY FollowerSteps, WhichIsFixed
<1>11. ~D /\ [MCNext]_all => (~D)'
  BY WhichIsFixed
<1>12. Follower!Spec => []Follower!OutcomeIsTheRuns
  BY RowsStayTheRuns
<1>13. (/\ A => Catalogue!ListIsCurrent
        /\ B => Reader!ScreenIsTheSessions
        /\ D => Follower!OutcomeIsTheRuns) => AnswersAreCurrent
  BY DEF AnswersAreCurrent
<1> HIDE DEF A, B, D
<1> QED
  BY <1>1, <1>2, <1>3, <1>4, <1>5, <1>6, <1>7, <1>8, <1>9, <1>10, <1>11, <1>12, <1>13, PTL
  DEF MCSpec, Catalogue!Spec, Reader!Spec, Follower!Spec

\* A source the dialog saved can be read with what was saved (SourcesPage's
\* dialog, SourcesService), for any providers, repositories and trackers.
THEOREM SavedSourcesStayUsable == MCSpec => []SavedIsUsable
<1> DEFINE A == which = "source"
<1>1. MCInit /\ A => Source!Init
  BY DEF MCInit, Start
<1>2. A /\ [MCNext]_all => A' /\ [Source!Next]_(Source!vars)
  BY SourceSteps, WhichIsFixed
<1>3. ~A /\ [MCNext]_all => (~A)'
  BY WhichIsFixed
<1>4. Source!Spec => []Source!SavedIsUsable
  BY SavedStaysUsable
<1>5. (A => Source!SavedIsUsable) => SavedIsUsable
  BY DEF SavedIsUsable
<1> HIDE DEF A
<1> QED  BY <1>1, <1>2, <1>3, <1>4, <1>5, PTL DEF MCSpec, Source!Spec

\* Saving a row changes the fields its author edited and no other, whatever
\* other administrators save meanwhile (the dialogs' forms), for any number of them.
THEOREM FormsStoreWhatWasTyped == MCSpec => FormsTouchOnly
<1> DEFINE A == which = "rows"
           T == Rows!SaveTouchesOnly
           K == which = "rows" => T
<1>1. MCInit /\ A => Rows!Init
  BY DEF MCInit, Start
<1>2. A /\ [MCNext]_all => A' /\ [Rows!Next]_(Rows!vars)
  BY RowsSteps, WhichIsFixed
<1>3. ~A /\ [MCNext]_all => (~A)'
  BY WhichIsFixed
<1>4. Rows!Spec => [][T]_(Rows!vars)
  BY SaveStoresWhatWasTyped
<1>5. A /\ [T]_(Rows!vars) => [K]_all
  BY DEF Rows!vars, Rows!SaveTouchesOnly
<1>6. ~A => [K]_all
  OBVIOUS
<1> HIDE DEF A
<1> QED
  BY <1>1, <1>2, <1>3, <1>4, <1>5, <1>6, PTL DEF MCSpec, Rows!Spec, FormsTouchOnly

\* Every load of the jobs page during which nothing moved has a job on a list
\* exactly when it is in that state and fewer than a page of others come before it
\* (JobsService, JobsSettings), for any number of jobs within the depth of the
\* scan, any attempts and any length of page.
THEOREM QuietLoadStaysWhole ==
  ASSUME LIST_LIMIT \in Nat, IsFiniteSet(Callers), JOB_SCAN_DEPTH \in Nat,
         Cardinality(Callers) <= JOB_SCAN_DEPTH
  PROVE  MCSpec => QuietLoadIsWhole
<1> DEFINE A == which = "queue"
           T == Queue!QuietPageIsWhole
           K == which = "queue" => T
<1>1. MCInit /\ A => Queue!Init
  BY DEF MCInit, Start
<1>2. A /\ [MCNext]_all => A' /\ [Queue!Next]_(Queue!vars)
  BY QueueSteps, WhichIsFixed
<1>3. ~A /\ [MCNext]_all => (~A)'
  BY WhichIsFixed
<1>4. Queue!Spec => [][T]_(Queue!vars)
  BY QuietLoadsAreWhole
<1>5. A /\ [T]_(Queue!vars) => [K]_all
  <2>1. Queue!Loaded => read' # read
    BY DEF Queue!Loaded, Queue!NotLoading, Queue!Unread, Queue!Lists
  <2>2. UNCHANGED Queue!vars => T
    BY <2>1 DEF Queue!vars, Queue!QuietPageIsWhole
  <2> QED  BY <2>2
<1>6. ~A => [K]_all
  OBVIOUS
<1> HIDE DEF A
<1> QED
  BY <1>1, <1>2, <1>3, <1>4, <1>5, <1>6, PTL DEF MCSpec, Queue!Spec, QuietLoadIsWhole
=============================================================================
