------------------------------ MODULE MCReports ------------------------------
(* What is reported out of what was read, each part on a small instance of   *)
(* its own.  `which` says which part a behaviour is about and never changes; *)
(* the parts share the slots below, a part's variables first and the rest at *)
(* rest.                                                                     *)
EXTENDS Naturals

CONSTANT Parts

VARIABLES which, v1, v2, v3, v4, v5, v6, v7, v8, v9, v10

slots == <<v1, v2, v3, v4, v5, v6, v7, v8, v9, v10>>
all == <<which, slots>>

Template == INSTANCE VersionTemplate WITH Values <- {"a", "b"}, MaxTokens <- 4,
  tree <- v1, path <- v2

Engines == INSTANCE Classification WITH Ids <- {1, 2},
  Topics <- {"env", "url", "version", "ticket", "branch"},
  topic <- v1, rules <- v2, order <- v3, subject <- v4

Dora == INSTANCE DoraMetrics WITH Environments <- {"e1", "e2"}, Components <- {"x"},
  MaxTime <- 2, MaxDeployments <- 2, MaxPrs <- 1, MaxIncidents <- 1,
  FailureSources <- {"incidents", "both"}, DAY <- 3,
  now <- v1, deployments <- v2, prs <- v3, incidents <- v4, failureSource <- v5

Releases == INSTANCE ReleaseNotes WITH Platforms <- {"github", "gitlab"},
  Requests <- {1, 2}, Stacked <- {<<2, 1>>}, Components <- {"front", "api"},
  COMPARE_CAP <- 1, MaxEvents <- 3, kind <- v1, history <- v2, tags <- v3, notes <- v4

Board == INSTANCE Boards WITH Repos <- {"r1", "r2"}, Environments <- {"e1"},
  Values <- {"x", "y"}, Declarable <- {"e1", "e2"}, DEPLOYMENTS_PER_REPO <- 1,
  EVENT_WINDOW <- 1, MaxTime <- 2, MaxDeployments <- 2, MaxFaults <- 1,
  stored <- v1, label <- v2, declared <- v3, synced <- v4, now <- v5, report <- v6,
  faults <- v7

Rollouts == INSTANCE DeploymentList WITH Environments <- {"e1", "e2"}, Limit <- 1,
  MaxDeployments <- 2, MaxTime <- 2, MaxClicks <- 2,
  deployments <- v1, now <- v2, frozen <- v3, current <- v4, archive <- v5, query <- v6,
  page <- v7, fresh <- v8, clicks <- v9, timeline <- v10

Answers == {[text |-> "1.0", release |-> <<1, 0>>], [text |-> "2", release |-> <<2>>],
            [text |-> "main", release |-> <<>>]}
Axes(r, c) == [rows |-> r, columns |-> c]

Standing == INSTANCE Grids WITH Repos <- {"a", "b"}, Clients <- {"x"},
  Versions <- Answers, Names <- <<"e1", "e2", "e3">>, Linked <- {Axes("none", "none")},
  GROUPING_THRESHOLD <- 1, MaxMoves <- 0,
  readings <- v1, axes <- v2, direction <- v3, moves <- v4

Grid == INSTANCE Grids WITH Repos <- {"a", "b"}, Clients <- {"x"},
  Versions <- Answers, Names <- <<"e1", "e2">>,
  Linked <- {Axes("none", "none"), Axes("repo", "client"), Axes("client", "client")},
  GROUPING_THRESHOLD <- 1, MaxMoves <- 2,
  readings <- v1, axes <- v2, direction <- v3, moves <- v4

-----------------------------------------------------------------------------
\* The slots from the n-th on, which a part that needs no more of them leaves
\* alone.
tail8 == <<v8, v9, v10>>
tail6 == <<v6, v7, tail8>>
tail5 == <<v5, tail6>>
tail3 == <<v3, v4, tail5>>

Rest8 == v8 = 0 /\ v9 = 0 /\ v10 = 0
Rest6 == v6 = 0 /\ v7 = 0 /\ Rest8
Rest5 == v5 = 0 /\ Rest6
Rest3 == v3 = 0 /\ v4 = 0 /\ Rest5

Start(part) ==
  CASE part = "template" -> Template!Init /\ Rest3
    [] part = "engines" -> Engines!Init /\ Rest5
    [] part = "dora" -> Dora!Init /\ Rest6
    [] part = "notes" -> Releases!Init /\ Rest5
    [] part = "board" -> Board!Init /\ Rest8
    [] part = "rollouts" -> Rollouts!Init
    [] part = "standing" -> Standing!Init /\ Rest5
    [] part = "grid" -> Grid!Init /\ Rest5

MCInit == which \in Parts /\ Start(which)

Report ==
  \/ which = "engines" /\ Engines!Next /\ UNCHANGED tail5
  \/ which = "dora" /\ Dora!Next /\ UNCHANGED tail6
  \/ which = "notes" /\ Releases!Next /\ UNCHANGED tail5
  \/ which = "board" /\ Board!Next /\ UNCHANGED tail8
  \/ which = "rollouts" /\ Rollouts!Next
  \/ which = "grid" /\ Grid!Next /\ UNCHANGED tail5

MCNext == Report /\ UNCHANGED which

MCSpec == MCInit /\ [][MCNext]_all

-----------------------------------------------------------------------------
\* The engines answer as their rules say: the order of a listing decides no
\* more than it should (Classification), a path reads the value the grammar
\* gives it (VersionTemplate), and the figures of a report come from disjoint
\* and complete attributions (DoraMetrics).
EnginesAreSound ==
  /\ which = "engines" => Engines!EngineIsSound
  /\ which = "template" => Template!WrappingIsTransparent /\ Template!ParserReadsTheGrammar
  /\ which = "dora" => Dora!FiguresAreSound

\* The overview says what the store holds (Boards), a page of rollouts what
\* went out and in which order (DeploymentList), and the notes of a release are
\* the commits of its range (ReleaseNotes).
ReportsAreTheStores ==
  /\ which = "board" => Board!ReportIsTheStores
  /\ which = "rollouts" => Rollouts!RowsAreTrue
  /\ which = "notes" => Releases!NotesAreTheRanges

\* A grid shows every reading once, where its axes say, and judges it against
\* its own repository (Grids).
GridIsHonest ==
  /\ which = "standing" => Standing!GridIsHonest
  /\ which = "grid" => Grid!GridIsHonest
============================================================================
