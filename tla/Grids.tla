-------------------------------- MODULE Grids --------------------------------
(***************************************************************************)
(* The two grids of the overview.  Readings are judged against the furthest *)
(* release of their own repository, then laid out over two axes; the        *)
(* environments are crossed, or folded, over what the rules extract.  One   *)
(* pair of axes travels in the address, and each grid honours it or falls   *)
(* back to its own.                                                         *)
(***************************************************************************)
EXTENDS Integers, Sequences, FiniteSets, SequencesExt

CONSTANTS
  Repos, Clients,
  Versions,    \* what an environment may answer: a text and the release in it
  Names,       \* the environments listed, in order
  Linked,      \* the pairs an address may come with
  GROUPING_THRESHOLD,
  MaxMoves     \* how often the reader picks an axis or another grid

VARIABLES
  readings,    \* the environments, in the order of the report
  axes,        \* the pair the address holds
  direction,   \* which grid is open
  moves

vars == <<readings, axes, direction, moves>>

UNCLASSIFIED == ""
Never == -1
Pair(rows, columns) == [rows |-> rows, columns |-> columns]
NoAxes == Pair("none", "none")
REPO_AXIS == "repo"
ENVIRONMENT_AXIS == "environment"
DEFAULT_VERSION_AXES == Pair(REPO_AXIS, ENVIRONMENT_AXIS)
NoRelease == <<>>
Unread == [text |-> "", release |-> NoRelease]

\* Every environment has its own name and tier; an old one may only be declared.
Init ==
  /\ \E repo \in [DOMAIN Names -> Repos], client \in [DOMAIN Names -> Clients \cup {UNCLASSIFIED}],
        version \in [DOMAIN Names -> Versions \cup {Unread}], dated \in [DOMAIN Names -> BOOLEAN] :
       readings = [i \in DOMAIN Names |->
         [repo |-> repo[i], environment |-> Names[i], client |-> client[i], tier |-> Names[i], version |-> version[i],
          lastDeployAt |-> IF dated[i] THEN i ELSE Never]]
  /\ axes \in Linked
  /\ direction \in {"matrix", "versions"}
  /\ moves = 0

Indices == DOMAIN readings
Null == 2

\* The release a text states, a dotted number.
releaseIn(version) == version.release

\* Segment by segment, a missing one counting as zero; null when either side
\* states no release.
compareReleases(a, b) ==
  LET ours == releaseIn(a)
      theirs == releaseIn(b)
      seg(r, i) == IF i <= Len(r) THEN r[i] ELSE 0
      last == IF Len(ours) > Len(theirs) THEN Len(ours) ELSE Len(theirs)
      differ == {i \in 1..last : seg(ours, i) # seg(theirs, i)}
  IN IF ours = NoRelease \/ theirs = NoRelease THEN Null
     ELSE IF differ = {} THEN 0
     ELSE LET i == CHOOSE j \in differ : \A k \in differ : j <= k
          IN IF seg(ours, i) < seg(theirs, i) THEN -1 ELSE 1

\* The furthest version of a repository: the first one read, until a later one
\* is ahead of it.
furthest(repo) ==
  LET further(held, r) ==
        IF r.version = Unread \/ r.repo # repo THEN held
        ELSE IF held = Unread \/ compareReleases(r.version, held) = 1 THEN r.version
        ELSE held
  IN FoldLeft(further, Unread, readings)

\* A mutation: the furthest release of them all.
judgeReadings_Together(i) == \E j \in Indices : compareReleases(readings[i].version, readings[j].version) = -1

judgeReadings(i) == compareReleases(readings[i].version, furthest(readings[i].repo)) = -1

axisValue(i, axis) ==
  CASE axis = REPO_AXIS -> readings[i].repo
    [] axis = ENVIRONMENT_AXIS -> readings[i].environment
    [] axis = "client" -> readings[i].client
    [] OTHER -> readings[i].tier

distinct(axis) == {axisValue(i, axis) : i \in Indices}

crossing(row, column, rowKey, columnKey) ==
  {i \in Indices : axisValue(i, rowKey) = row /\ axisValue(i, columnKey) = column}

\* The releases of a cell, by the first spelling of each.
distinctReleases(held) ==
  LET named(i) == IF releaseIn(readings[i].version) = NoRelease THEN readings[i].version
                  ELSE [text |-> "", release |-> releaseIn(readings[i].version)]
      said == {i \in held : readings[i].version # Unread}
  IN {readings[i].version : i \in {j \in said : \A k \in said : k < j => named(k) # named(j)}}

versionCell(row, column, rowKey, columnKey) ==
  LET held == crossing(row, column, rowKey, columnKey)
      releases == distinctReleases(held)
  IN [readings |-> held, version |-> IF Cardinality(releases) = 1 THEN CHOOSE v \in releases : TRUE ELSE Unread,
      mixed |-> Cardinality(releases) > 1, behind |-> \E i \in held : judgeReadings(i)]

\* The most recently deployed environment of a crossing stands for it, a
\* declared one last.
pivotCell(row, column, rowKey, columnKey) ==
  SetToSortSeq(crossing(row, column, rowKey, columnKey),
               LAMBDA a, b : readings[a].lastDeployAt > readings[b].lastDeployAt)

\* What the rules extracted, and over how many values.
dimensions == [key \in {"client", "tier"} |-> distinct(key) \ {UNCLASSIFIED}]
usable == {key \in DOMAIN dimensions : dimensions[key] # {}}
versionAxisKeys == {REPO_AXIS, ENVIRONMENT_AXIS} \cup usable

\* The widest two, the API's order breaking a tie.
defaultAxes ==
  IF Cardinality(usable) < 2 THEN NoAxes
  ELSE IF Cardinality(dimensions["tier"]) > Cardinality(dimensions["client"])
       THEN Pair("tier", "client") ELSE Pair("client", "tier")

\* The coarsest of the keys with more than one value, for a long board only.
defaultGroupBy ==
  LET keys == {k \in DOMAIN dimensions : Cardinality(dimensions[k]) > 1}
  IN IF Len(Names) <= GROUPING_THRESHOLD \/ keys = {} THEN "none"
     ELSE IF keys = DOMAIN dimensions
          THEN IF Cardinality(dimensions["tier"]) < Cardinality(dimensions["client"]) THEN "tier" ELSE "client"
          ELSE CHOOSE k \in keys : TRUE

groupEnvironments(key) ==
  IF key = "none" THEN {Indices} ELSE {{i \in Indices : axisValue(i, key) = v} : v \in distinct(key)}

\* A mutation: a pair crossing a key with itself is drawn.
resolveAxes_SameKey(stored, available, fallback) ==
  IF stored.rows \in available /\ stored.columns \in available THEN stored ELSE fallback

resolveAxes(stored, available, fallback) ==
  IF stored.rows # stored.columns /\ stored.rows \in available /\ stored.columns \in available THEN stored ELSE fallback

available == IF direction = "versions" THEN versionAxisKeys ELSE DOMAIN dimensions

shownAxes ==
  IF direction = "versions" THEN resolveAxes(axes, versionAxisKeys, DEFAULT_VERSION_AXES)
  ELSE resolveAxes(axes, DOMAIN dimensions, defaultAxes)

KeyOrder == <<REPO_AXIS, ENVIRONMENT_AXIS, "client", "tier">>

Move == moves < MaxMoves /\ moves' = moves + 1 /\ UNCHANGED readings

\* Rows moved onto the columns' key push the columns to the first other key.
changeRows(key) ==
  /\ Move
  /\ shownAxes # NoAxes
  /\ LET others == available \ {key}
     IN axes' = Pair(key, IF key # shownAxes.columns \/ others = {} THEN shownAxes.columns
                          ELSE KeyOrder[CHOOSE i \in 1..4 : KeyOrder[i] \in others /\ \A j \in 1..(i - 1) : KeyOrder[j] \notin others])
  /\ UNCHANGED direction

\* The columns are not offered the rows' key.
changeColumns(key) ==
  /\ Move
  /\ key # shownAxes.rows
  /\ shownAxes # NoAxes
  /\ axes' = Pair(shownAxes.rows, key)
  /\ UNCHANGED direction

\* The address is left alone: the pair belongs to the grid that wrote it.
changeDirection ==
  /\ Move
  /\ direction' = IF direction = "versions" THEN "matrix" ELSE "versions"
  /\ UNCHANGED axes

Next ==
  \/ \E key \in available : changeRows(key) \/ changeColumns(key)
  \/ changeDirection

Spec == Init /\ [][Next]_vars

-----------------------------------------------------------------------------
Stated(i) == releaseIn(readings[i].version) # NoRelease
Ahead(j, i) == compareReleases(readings[j].version, readings[i].version) = 1

\* An environment that answered something that is not a release: it holds the
\* place of the furthest when it comes first, and counts as a release of its own.
Wordy(S) == \E i \in S : readings[i].version # Unread /\ ~Stated(i)

\* Two spellings that compare as one release.
Padded(S) == \E i, j \in S : Stated(i) /\ Stated(j) /\ releaseIn(readings[i].version) # releaseIn(readings[j].version)
                               /\ compareReleases(readings[i].version, readings[j].version) = 0

\* Whatever the axes: an environment is behind exactly when another of its own
\* repository runs a later release; a cell names a version only when its
\* readings do not contradict it; every reading lands on the grid, and one
\* environment stands for a crossing, the last deployed; the crossing drawn is
\* of two different keys, whatever pair the address holds.  Two exceptions, both
\* the code's: a version that states no release, and two spellings of one
\* release (releases.ts:31-60, 100-140, pivot.ts:24-50, axes.ts:60-93).
GridIsHonest ==
  /\ \A i \in Indices :
       LET own == {j \in Indices : readings[j].repo = readings[i].repo}
           late == \E j \in own : Ahead(j, i)
       IN (judgeReadings(i) => late) /\ (late => judgeReadings(i) \/ Wordy(own))
  /\ LET r == shownAxes.rows
         c == shownAxes.columns
     IN shownAxes # NoAxes =>
          /\ r # c
          /\ \A row \in distinct(r), column \in distinct(c) :
               LET cell == versionCell(row, column, r, c)
                   order == pivotCell(row, column, r, c)
               IN /\ cell.version # Unread =>
                       \A i \in cell.readings : compareReleases(readings[i].version, cell.version) \in {0, Null}
                  /\ cell.mixed =>
                       \/ \E i, j \in cell.readings : Ahead(i, j)
                       \/ Wordy(cell.readings) \/ Padded(cell.readings)
                  /\ ToSet(order) = cell.readings
                  /\ \A i \in cell.readings : readings[order[1]].lastDeployAt >= readings[i].lastDeployAt
          /\ \A i \in Indices : i \in versionCell(axisValue(i, r), axisValue(i, c), r, c).readings
  /\ UNION groupEnvironments(defaultGroupBy) = Indices

\* Behind: not on the furthest release its own repository runs anywhere
\* (releases.ts:31-37).
BehindIsBehindItsOwn ==
  \A i, j \in Indices : readings[i].repo = readings[j].repo /\ Ahead(j, i) => judgeReadings(i)

=============================================================================
