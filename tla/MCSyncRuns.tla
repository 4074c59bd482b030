----------------------------- MODULE MCSyncRuns -----------------------------
(* SyncRuns on small instances, and beside it the other readers that work     *)
(* through what waits for them, and what both read of the platform.  `which`   *)
(* says which part a behaviour is about and never changes.  SyncRuns is run in *)
(* three settings: overlapping runs no event has reached yet, runs that follow *)
(* one another where events, refusals and the scope interfere, and runs of a   *)
(* source whose repositories come and go.  The platform's parts have variables *)
(* of their own, and those that wait share the slots below, a part's variables *)
(* first and the rest at rest.                                                 *)
EXTENDS SyncRuns, TLC

CONSTANTS
  Parts,
  Home,                                   \* the repository of all parts but one
  MaxMerges,                              \* bound: the merges that ever happen
  Kinds, LastDate,                        \* the platforms, and the dates of what they hold
  Ids, PAGE, MAX_PAGES, MaxMoves          \* Listings

\* What Listings and EventMappers are given.
ASSUME PlatformAssumption ==
  /\ Kinds \subseteq {"github", "gitlab"} /\ LastDate \in Nat
  /\ Ids \subseteq Nat /\ IsFiniteSet(Ids)
  /\ PAGE \in Nat \ {0} /\ MAX_PAGES \in Nat \ {0} /\ MaxMoves \in Nat

VARIABLES
  which,
  kind, rows, clock, asked, page, got, truncated, listed, phase, moves, before,   \* Listings
  object, event, row,                                                             \* EventMappers
  v1, v2, v3, v4, v5, v6, v7, v8, v9, v10

ofPlatform == <<rows, clock, asked, page, got, truncated, listed, phase, moves, before>>
ofMappers == <<object, event, row>>
slots == <<v1, v2, v3, v4, v5, v6, v7, v8, v9, v10>>
others == <<kind, ofPlatform, ofMappers>>
all == <<which, vars, others, slots>>

RunSymmetry == Permutations(Runs)

Readings == INSTANCE VersionReadings WITH Envs <- <<"e1">>, Claimed <- {"e1"},
  Rules <- <<"r1">>, Versions <- {"v1"}, Batch <- 1, MaxDeployments <- 1,
  app <- v1, latest <- v2, row <- v3, newest <- v4, frozen <- v5, job <- v6, ask <- v7,
  reader <- v8

Logs == INSTANCE Changelogs WITH Last <- 3, Runs <- {"r1"}, Batch <- 1,
  status <- v1, gone <- v2, from <- v3, archive <- v4, run <- v5

Follower == INSTANCE JobWatch WITH Sources <- {"s1"}, Rounds <- {"k1", "k2"},
  MaxStarts <- 2, MaxFaults <- 1, job <- v1, row <- v2, starting <- v3, following <- v4,
  round <- v5, starts <- v6, faults <- v7, ended <- v8, split <- v9, lost <- v10

Platform == INSTANCE Listings WITH MaxTime <- LastDate, now <- clock

Mappers == INSTANCE EventMappers WITH MaxTime <- LastDate

-----------------------------------------------------------------------------
\* The slots from the n-th on, which a part that needs no more of them leaves
\* alone.
tail9 == <<v9, v10>>
tail6 == <<v6, v7, v8, tail9>>

Rest9 == v9 = 0 /\ v10 = 0
Rest6 == v6 = 0 /\ v7 = 0 /\ v8 = 0 /\ Rest9

NoPlatform == /\ rows = 0 /\ clock = 0 /\ asked = 0 /\ page = 0 /\ got = 0 /\ truncated = 0
              /\ listed = 0 /\ phase = 0 /\ moves = 0 /\ before = 0
NoMappers == object = 0 /\ event = 0 /\ row = 0

Slots == CASE which = "readings" -> Readings!Init /\ Rest9
           [] which = "changelogs" -> Logs!Init /\ Rest6
           [] which = "jobs" -> Follower!Init
           [] OTHER -> v1 = 0 /\ v2 = 0 /\ v3 = 0 /\ v4 = 0 /\ v5 = 0 /\ Rest6

OfRuns == {"unheard", "reached", "rescoped"}

MCInit ==
  /\ which \in Parts /\ Init
  /\ CASE which = "unheard" -> scope = {Home} [] which = "reached" -> scope \subseteq {Home}
       [] which = "rescoped" -> TRUE [] OTHER -> scope = {}
  /\ IF which = "listings" THEN Platform!Init ELSE NoPlatform
  /\ IF which = "mappers" THEN Mappers!Init ELSE NoMappers
  /\ IF which \in {"listings", "mappers"} THEN TRUE ELSE kind = 0
  /\ Slots

\* What a setting of SyncRuns keeps to.  Of overlapping runs a merge happens early
\* enough for a bound to be past it; the other settings end a moment sooner.
Setting ==
  /\ which = "unheard" => /\ lastEvent' = Null /\ scope' = {Home} /\ fails' = 0
                          /\ \A m \in merges' : m.at + Lag < MaxTime
  /\ which = "reached" => OneAtATime' /\ scope' \subseteq {Home}
  /\ which = "rescoped" => OneAtATime' /\ lastEvent' = Null /\ fails' = 0
  /\ which # "rescoped" => covered' \subseteq {Home} /\ \A m \in merges' : m.repo = Home
  /\ which # "unheard" => now' < MaxTime
  /\ Cardinality(merges') <= MaxMerges

Waiter ==
  \/ which = "readings" /\ Readings!Next /\ UNCHANGED tail9
  \/ which = "changelogs" /\ Logs!Next /\ UNCHANGED tail6
  \/ which = "jobs" /\ Follower!Next

MCNext ==
  \/ which \in OfRuns /\ Next /\ Setting /\ UNCHANGED <<which, others, slots>>
  \/ which = "listings" /\ Platform!Next /\ UNCHANGED <<which, vars, ofMappers, slots>>
  \/ which = "mappers" /\ Mappers!Next /\ UNCHANGED <<which, vars, ofPlatform, slots>>
  \/ Waiter /\ UNCHANGED <<which, vars, others>>

MCSpec == MCInit /\ [][MCNext]_all

\* The fairness of each part, as its module states it: a condition on the n-th
\* turn is one on the n-th step of the part the behaviour is about.  There is
\* one run, one environment and one source here.
RunTurn(n) ==
  /\ which = "reached" /\ UNCHANGED <<which, others, slots>>
  /\ \E r \in Runs : (n = 1 /\ Begin(r)) \/ (n = 2 /\ RunStep(r))

WaiterTurn(n) ==
  /\ UNCHANGED <<which, vars, others>>
  /\ \/ /\ which = "readings" /\ UNCHANGED tail9
        /\ \/ (n = 1 /\ Readings!RunStart("run", FALSE)) \/ (n = 2 /\ Readings!ReadOn("run", "e1"))
           \/ (n = 3 /\ Readings!ReadOn("job", "e1")) \/ (n = 4 /\ Readings!AskOn("e1"))
           \/ (n = 5 /\ Readings!JobStart("e1")) \/ (n = 6 /\ Readings!Elapse("e1"))
     \/ /\ which = "changelogs" /\ UNCHANGED tail6
        /\ (n = 1 /\ Logs!RunOn("r1"))
     \/ /\ which = "jobs"
        /\ \/ (n = 1 /\ Follower!RunOn("s1"))
           \/ (n = 2 /\ Follower!Poll("k1")) \/ (n = 3 /\ Follower!Poll("k2"))

Step(n) == RunTurn(n) \/ WaiterTurn(n)

Answer ==
  /\ UNCHANGED <<which, vars, others>>
  /\ \/ which = "changelogs" /\ Logs!StepAnswered("r1") /\ UNCHANGED tail6
     \/ which = "jobs" /\ Follower!Queued("s1")

MCFairness == (\A n \in 1 .. 6 : WF_all(Step(n))) /\ SF_all(Answer)

MCFairSpec == MCSpec /\ MCFairness

-----------------------------------------------------------------------------
\* What a platform is read as is what it holds: a listing is whole down to its
\* bound, whatever moves under its pages (Listings), and an event says what a
\* listing would (EventMappers).
PlatformIsReadTrue ==
  /\ which = "listings" => Platform!ListingIsWhole
  /\ which = "mappers" => Mappers!EventsAgreeWithListings

\* What waits is worked through.  A listing that is overdue is reconciled again,
\* however many events spare the deltas in between and wherever earlier runs
\* died (SyncRuns!NeverLeftBehind); a deployment that landed on a claimed
\* environment is read against (VersionReadings!EveryDeploymentRead); one that
\* stays in the window has its changelog filed though older ones wait before it
\* (Changelogs!EveryDeploymentFiled); and a run the page follows is reported
\* (JobWatch!EveryRunReported).
Waits(n) ==
  \/ which = "reached" /\ Overdue(<<"repos", "pulls", "pipelines", "deployments">>[n])
  \/ which = "readings" /\ n = 1 /\ ~Readings!Current("e1")
  \/ which = "changelogs" /\ n <= 3 /\ Logs!Waiting(n)
  \/ which = "jobs" /\ n = 1 /\ Follower!Pending("s1")
EveryWaitEnds == \A n \in 1 .. 4 : Waits(n) ~> ~Waits(n)
============================================================================
