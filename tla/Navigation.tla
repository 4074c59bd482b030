----------------------------- MODULE Navigation -----------------------------
(***************************************************************************)
(* Which source a page is about: the address names it by its slug, which   *)
(* follows its name; the list of sources is read once and again after a    *)
(* change made on this screen; links, the picker and the redirections are  *)
(* computed from that list, from the address and from the last slug seen.  *)
(* The list is answered and shown in one step.                             *)
(***************************************************************************)
EXTENDS Integers, Sequences, FiniteSets

CONSTANTS
  Slugs,        \* the names a source can have
  Bases,        \* the pages that are about a source
  MaxSources,
  MaxMoves      \* how often the reader, or an administrator, acts

VARIABLES
  sources,      \* what is stored, oldest first
  list, loaded, \* the copy on screen
  reading,      \* the list was asked for
  path,         \* the address: a page, and the source it names if any
  lastSlug,     \* the last source an address named
  landed,       \* the address was opened without a source
  moves,
  behind        \* the sources changed elsewhere since the list was read

vars == <<sources, list, loaded, reading, path, lastSlug, landed, moves, behind>>

NoSlug == "none"
Settings == "settings"
Source == [slug: Slugs, isDefault: BOOLEAN]
SlugsOf(s) == {s[i].slug : i \in DOMAIN s}
Named(s, slug) == CHOOSE i \in DOMAIN s : s[i].slug = slug

Init ==
  /\ sources \in UNION {[1..n -> Source] : n \in 0..MaxSources}
  /\ \A i, j \in DOMAIN sources : i # j => sources[i].slug # sources[j].slug
  /\ Cardinality({i \in DOMAIN sources : sources[i].isDefault}) <= 1
  /\ list = <<>>
  /\ loaded = FALSE
  /\ reading = TRUE
  /\ \E base \in Bases, slug \in Slugs \cup {NoSlug} : path = [base |-> base, slug |-> slug]
  /\ lastSlug = path.slug
  /\ landed = (path.slug = NoSlug)
  /\ moves = 0
  /\ behind = FALSE

Move == moves < MaxMoves /\ moves' = moves + 1

\* The address changes; the slug it names is remembered.
GoTo(base, slug) ==
  /\ path' = [base |-> base, slug |-> slug]
  /\ lastSlug' = IF slug # NoSlug THEN slug ELSE lastSlug

\* The source list arrives, or its request fails: either way the page renders.
refresh ==
  /\ reading
  /\ reading' = FALSE
  /\ loaded' = TRUE
  /\ \/ list' = sources /\ behind' = FALSE
     \/ UNCHANGED list /\ behind' = TRUE
  /\ UNCHANGED <<sources, path, lastSlug, landed, moves>>

\* A mutation: whatever was last named, listed or not.
activeSource_Last ==
  IF lastSlug # NoSlug THEN lastSlug ELSE IF list = <<>> THEN NoSlug ELSE list[1].slug

\* What the picker shows and the links point at: the source named by the
\* address, or last named by one, if it is listed; else the favourite; else the
\* first.
activeSource ==
  LET candidate == IF path.slug # NoSlug THEN path.slug ELSE lastSlug
      favourites == {i \in DOMAIN list : list[i].isDefault}
  IN IF candidate \in SlugsOf(list) THEN candidate
     ELSE IF favourites # {} THEN list[CHOOSE i \in favourites : TRUE].slug
     ELSE IF list = <<>> THEN NoSlug
     ELSE list[1].slug

\* An address typed, or a link somebody sent.
Visit(base, slug) ==
  /\ Move
  /\ GoTo(base, slug)
  /\ landed' = (slug = NoSlug)
  /\ UNCHANGED <<sources, list, loaded, reading, behind>>

\* A link of the bar.
withSource(base) ==
  /\ Move
  /\ GoTo(base, activeSource)
  /\ landed' = FALSE
  /\ UNCHANGED <<sources, list, loaded, reading, behind>>

OpenSettings ==
  /\ Move
  /\ GoTo(Settings, NoSlug)
  /\ landed' = FALSE
  /\ UNCHANGED <<sources, list, loaded, reading, behind>>

\* The picker: the same page on another source, or remembered for the next.
changeSource(slug) ==
  /\ Move
  /\ path.base # Settings
  /\ slug \in SlugsOf(list)
  /\ path' = IF path.slug # NoSlug THEN [path EXCEPT !.slug = slug] ELSE path
  /\ lastSlug' = slug
  /\ landed' = FALSE
  /\ UNCHANGED <<sources, list, loaded, reading, behind>>

\* An address without a source goes to the first one.
FirstSource ==
  /\ loaded
  /\ path.base \in Bases
  /\ path.slug = NoSlug
  /\ list # <<>>
  /\ GoTo(path.base, list[1].slug)
  /\ UNCHANGED <<sources, list, loaded, reading, landed, moves, behind>>

\* An address that names an unknown source loses it.
SourcePage ==
  /\ loaded
  /\ path.slug \notin SlugsOf(list) \cup {NoSlug}
  /\ GoTo(path.base, NoSlug)
  /\ landed' = FALSE
  /\ UNCHANGED <<sources, list, loaded, reading, moves, behind>>

\* Sources are created, renamed, removed or made the favourite: here, on the
\* settings page, which reads the list again, or elsewhere.
Change(next) ==
  /\ Move
  /\ sources' = next
  /\ \/ path.base = Settings /\ reading' = TRUE /\ UNCHANGED behind
     \/ behind' = TRUE /\ UNCHANGED reading
  /\ UNCHANGED <<list, loaded, path, lastSlug, landed>>

Create(slug) ==
  /\ slug \notin SlugsOf(sources)
  /\ Len(sources) < MaxSources
  /\ Change(Append(sources, [slug |-> slug, isDefault |-> FALSE]))
Rename(i, slug) ==
  /\ slug \notin SlugsOf(sources)
  /\ Change([sources EXCEPT ![i].slug = slug])
Remove(i) == Change([j \in 1..(Len(sources) - 1) |-> IF j < i THEN sources[j] ELSE sources[j + 1]])
MakeDefault(i) ==
  /\ ~sources[i].isDefault
  /\ Change([j \in DOMAIN sources |-> [sources[j] EXCEPT !.isDefault = (j = i)]])

Next ==
  \/ refresh \/ OpenSettings \/ FirstSource \/ SourcePage
  \/ \E base \in Bases : withSource(base)
  \/ \E base \in Bases, slug \in Slugs \cup {NoSlug} : Visit(base, slug)
  \/ \E slug \in Slugs : changeSource(slug) \/ Create(slug)
  \/ \E i \in DOMAIN sources : Remove(i) \/ MakeDefault(i) \/ \E slug \in Slugs : Rename(i, slug)

Spec == Init /\ [][Next]_vars

AtRest ==
  /\ loaded /\ ~reading
  /\ path.slug \in SlugsOf(list) \cup {NoSlug}
  /\ path.slug = NoSlug => path.base = Settings \/ list = <<>>

\* Neither the picker nor a link ever points at a source that no longer exists
\* (App.tsx:109): once the list was read after the last change, they point at
\* a stored source, and at the one on screen when a page is about one.
LinksLeadSomewhere ==
  (AtRest /\ ~behind) =>
    /\ activeSource \in SlugsOf(sources) \/ sources = <<>>
    /\ path.slug # NoSlug => path.slug = activeSource

\* The favourite is the source a reader lands on when the address names none
\* (index.ts:152-157).
LandsOnTheFavourite ==
  (AtRest /\ ~behind /\ landed /\ path.slug # NoSlug /\ moves = 0) =>
    \A i \in DOMAIN list : list[i].isDefault => path.slug = list[i].slug

=============================================================================
