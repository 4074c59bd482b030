------------------------------ MODULE SyncRuns ------------------------------
(***************************************************************************)
(* SyncService.sync: what decides that a run reconciles, what it lists,    *)
(* the cursor it leaves per listing, and the pruning that closes a full    *)
(* run.  Runs of one source overlap (the schedule's and one asked for),    *)
(* any listing may be refused and a run may die between any two of its     *)
(* awaits.                                                                 *)
(*                                                                         *)
(* The rows of the store are reduced to what the cursors promise about     *)
(* them: `merges` are the pull requests merged, by repository and instant, *)
(* `known` the ones the store has heard of, `covered` the repositories     *)
(* that have rows at all.  How a listing merges into the rows is           *)
(* PullRequestStore's business.  A listing stops at a page ceiling, and    *)
(* then all it does is warn: its mark is that of a whole one.              *)
(***************************************************************************)
EXTENDS Naturals, FiniteSets, Merge, Cadence

CONSTANTS
  Runs,      \* runs of this source that may overlap
  Repos,     \* repositories the scope may cover
  Depth,     \* depth the source is ingested at
  Lag,       \* how late the provider's listing may show a merge
  Webhooks,  \* do events reach this install
  MaxTime,   \* bound: the last instant
  MaxFails   \* bound: listings refused and runs that died, in all

ASSUME SyncAssumption ==
  /\ Depth \in Nat /\ MaxTime \in Nat /\ MaxFails \in Nat
  /\ Lag \in Nat /\ 0 < Lag /\ Lag <= DELTA_OVERLAP
  /\ Webhooks \in BOOLEAN

VARIABLES
  now,       \* the clock
  scope,     \* repositories the source covers
  steady,    \* observation: the ones it has covered all along
  merges,    \* what the provider merged, and when
  known,     \* the ones the store holds
  lastEvent, \* receivedAt of the last delivery
  sync,      \* SyncState, per listing
  covered,   \* repositories with rows in the store
  cut,       \* observation: missing, and a listing warned that it stopped short
  lost,      \* observation: what a full run's list of merges does not answer for
  pc, res, at, full, since, repos, left,  \* the runs, see below
  fails      \* listings refused and runs dead so far

env == <<now, scope, steady, merges, lastEvent>>
store == <<known, sync, covered>>
observed == <<cut, lost>>
run == <<pc, res, at, full, since, repos, left>>
vars == <<env, store, observed, run, fails>>

\* A pull request merged: at most one per instant and repository.
MergeOf == [at: Nat, repo: Repos]

Resources == {"repos", "pulls", "pipelines", "deployments"}

Steps == {"idle", "due", "decide", "skipping", "from", "list", "mark", "prune"}

\* A SyncState row: cursor and lastSyncAt are always written together, `at`
\* is both; lastError decides nothing and is left out.
SyncRow == [exists: {TRUE}, at: Nat, lastFullSyncAt: Nat]

Held(resource) == IF sync[resource].exists THEN sync[resource].at ELSE Null

\* Mutant: the row is created with only the columns it was given.
Marked_Partial(row, started, isFull) ==
  IF isFull \/ row.exists
    THEN [exists |-> TRUE, at |-> started, lastFullSyncAt |-> started]
    ELSE [exists |-> TRUE, at |-> started]

\* mark: an upsert that only touches the columns it is given.
Marked(row, started, isFull) ==
  [exists |-> TRUE,
   at |-> started,
   lastFullSyncAt |-> IF isFull THEN started
                      ELSE IF row.exists THEN row.lastFullSyncAt ELSE Null]

\* The same for a refusal, which only records the error.
MarkedFailed(row) ==
  IF row.exists THEN row
  ELSE [exists |-> TRUE, at |-> Null, lastFullSyncAt |-> Null]

Init ==
  /\ now = 1 /\ scope \in SUBSET Repos /\ merges = {} /\ lastEvent = Null
  /\ steady = scope
  /\ known = {} /\ covered = {} /\ cut = {} /\ lost = [r \in Runs |-> {}]
  /\ sync = [resource \in Resources |-> NoRow]
  /\ pc = [r \in Runs |-> "idle"]
  /\ res = [r \in Runs |-> "repos"]
  /\ at = [r \in Runs |-> Null]
  /\ full = [r \in Runs |-> FALSE]
  /\ since = [r \in Runs |-> Null]
  /\ repos = [r \in Runs |-> {}]
  /\ left = [r \in Runs |-> {}]
  /\ fails = 0

----------------------------------------------------------------------------
(* The environment (external): time, the provider and the source's scope.  *)

Tick ==
  /\ now < MaxTime
  /\ now' = now + 1
  /\ UNCHANGED <<scope, steady, merges, lastEvent, store, observed, run, fails>>

Rescope ==
  /\ \E S \in SUBSET Repos : S # scope /\ scope' = S /\ steady' = steady \cap S
  /\ UNCHANGED <<now, merges, lastEvent, store, observed, run, fails>>

\* A merge, whose event is delivered and ingested, or never arrives.  Events are
\* ingested whatever the scope.
MergeHappens ==
  /\ \E repo \in Repos :
       LET m == [at |-> now, repo |-> repo]
       IN  /\ m \notin merges
           /\ merges' = merges \cup {m}
           /\ \/ /\ Webhooks
                 /\ known' = known \cup {m} /\ covered' = covered \cup {repo}
                 /\ lastEvent' = now
              \/ UNCHANGED <<known, covered, lastEvent>>
  /\ UNCHANGED <<now, scope, steady, sync, observed, run, fails>>

\* Any other event of this source, which may leave a row of its repository.
OtherEvent ==
  /\ Webhooks /\ lastEvent # now
  /\ lastEvent' = now
  /\ covered' \in {covered} \cup {covered \cup {repo} : repo \in Repos}
  /\ UNCHANGED <<now, scope, steady, merges, known, sync, observed, run, fails>>

----------------------------------------------------------------------------
(* One run.                                                                *)

Forget(r) ==
  /\ pc' = [pc EXCEPT ![r] = "idle"]
  /\ res' = [res EXCEPT ![r] = "repos"]
  /\ at' = [at EXCEPT ![r] = Null]
  /\ full' = [full EXCEPT ![r] = FALSE]
  /\ since' = [since EXCEPT ![r] = Null]
  /\ repos' = [repos EXCEPT ![r] = {}]
  /\ left' = [left EXCEPT ![r] = {}]

Begin(r) ==
  /\ pc[r] = "idle"
  /\ pc' = [pc EXCEPT ![r] = "due"]
  /\ at' = [at EXCEPT ![r] = now]
  /\ \E force \in BOOLEAN : full' = [full EXCEPT ![r] = force]
  /\ UNCHANGED <<env, store, observed, res, since, repos, left, fails>>

\* `force || dueForFullSync`.
DueForFullSync(r) ==
  /\ pc[r] = "due"
  /\ pc' = [pc EXCEPT ![r] = "decide"]
  /\ full' = [full EXCEPT ![r] =
       @ \/ IsDueForFullSync(
              {sync[x].lastFullSyncAt : x \in {y \in Resources : sync[y].exists}},
              at[r])]
  /\ UNCHANGED <<env, store, observed, res, at, since, repos, left, fails>>

Decide(r) ==
  /\ pc[r] = "decide"
  /\ IF SkipsDelta(lastEvent, at[r], full[r])
       THEN pc' = [pc EXCEPT ![r] = "skipping"]
            /\ left' = [left EXCEPT ![r] = Resources]
       ELSE pc' = [pc EXCEPT ![r] = "list"] /\ UNCHANGED left
  /\ UNCHANGED <<env, store, observed, res, at, full, since, repos, fails>>

\* The four marks of a skipped run go out at once and land in any order.
MarkSkipped(r, resource) ==
  /\ pc[r] = "skipping" /\ resource \in left[r]
  /\ sync' = [sync EXCEPT ![resource] = Marked(@, at[r], FALSE)]
  /\ IF left[r] = {resource}
       THEN Forget(r)
       ELSE left' = [left EXCEPT ![r] = @ \ {resource}]
            /\ UNCHANGED <<pc, res, at, full, since, repos>>
  /\ UNCHANGED <<env, known, covered, observed, fails>>

ListRepos(r) ==
  /\ pc[r] = "list" /\ res[r] = "repos"
  /\ repos' = [repos EXCEPT ![r] = scope]
  /\ covered' = covered \cup scope
  /\ pc' = [pc EXCEPT ![r] = "mark"]
  /\ UNCHANGED <<env, known, sync, observed, res, at, full, since, left, fails>>

MergedFrom(r) ==
  /\ pc[r] = "from"
  /\ since' = [since EXCEPT ![r] = MergedSince(Held("pulls"), at[r], Depth, full[r])]
  /\ pc' = [pc EXCEPT ![r] = "list"]
  /\ UNCHANGED <<env, store, observed, res, at, full, repos, left, fails>>

\* Mutant: a merge at the bound itself is dropped.
Asked_AfterBound(r) == {m \in merges : m.repo \in repos[r] /\ m.at > since[r]}

\* What a run asks the provider for: the merges of the repositories it has
\* listed, since its bound.
Asked(r) == {m \in merges : m.repo \in repos[r] /\ m.at >= since[r]}

\* What is younger than the lag may be missed, and so may any of them past the
\* page ceiling, the listing being ordered by the last update; then it warns.
ListPulls(r) ==
  /\ pc[r] = "list" /\ res[r] = "pulls"
  /\ \E young \in SUBSET {m \in Asked(r) : m.at + Lag > now}, beyond \in SUBSET Asked(r) :
       /\ known' = known \cup (Asked(r) \ (young \cup beyond))
       /\ cut' = (cut \cup beyond) \ known'
       /\ lost' = [lost EXCEPT ![r] = IF full[r] THEN beyond ELSE {}]
  /\ covered' = covered \cup repos[r]
  /\ pc' = [pc EXCEPT ![r] = "mark"]
  /\ UNCHANGED <<env, sync, res, at, full, since, repos, left, fails>>

\* Pipelines, then deployments.
ListRuns(r) ==
  /\ pc[r] = "list" /\ res[r] \in {"pipelines", "deployments"}
  /\ covered' = covered \cup repos[r]
  /\ pc' = [pc EXCEPT ![r] = "mark"]
  /\ UNCHANGED <<env, known, sync, observed, res, at, full, since, repos, left, fails>>

\* Where a run goes once a listing is done with, one way or the other.
Advance(r) ==
  CASE res[r] = "repos" ->
         /\ pc' = [pc EXCEPT ![r] = "from"] /\ res' = [res EXCEPT ![r] = "pulls"]
         /\ UNCHANGED <<at, full, since, repos, left>>
    [] res[r] = "pulls" ->
         /\ pc' = [pc EXCEPT ![r] = "list"] /\ res' = [res EXCEPT ![r] = "pipelines"]
         /\ since' = [since EXCEPT ![r] = Null]
         /\ UNCHANGED <<at, full, repos, left>>
    [] res[r] = "pipelines" ->
         /\ pc' = [pc EXCEPT ![r] = "list"] /\ res' = [res EXCEPT ![r] = "deployments"]
         /\ UNCHANGED <<at, full, since, repos, left>>
    [] res[r] = "deployments" /\ full[r] ->
         /\ pc' = [pc EXCEPT ![r] = "prune"]
         /\ UNCHANGED <<res, at, full, since, repos, left>>
    [] OTHER -> Forget(r)

Mark(r) ==
  /\ pc[r] = "mark"
  /\ sync' = [sync EXCEPT ![res[r]] = Marked(@, at[r], full[r])]
  /\ Advance(r)
  /\ lost' = [lost EXCEPT ![r] = {}]
  /\ UNCHANGED <<env, known, covered, cut, fails>>

\* The listing or its mark threw: the error is recorded, the run goes on,
\* unless there is no repository list to go on with.
Fail(r) ==
  /\ pc[r] \in {"list", "mark"} /\ fails < MaxFails
  /\ fails' = fails + 1
  /\ sync' = [sync EXCEPT ![res[r]] = MarkedFailed(@)]
  /\ IF res[r] = "repos" THEN Forget(r) ELSE Advance(r)
  /\ lost' = [lost EXCEPT ![r] = {}]
  /\ UNCHANGED <<env, known, covered, cut>>

\* Mutant: an empty list is a scope like any other.
PrunedTo_Empty(names) == names

\* What pruneOutOfScope spares: an empty list erases nothing.
PrunedTo(names) == IF names = {} THEN Repos ELSE names

HasReconciled(r) == full[r] /\ pc[r] = "mark" /\ res[r] = "pulls"

Prune(r) ==
  /\ pc[r] = "prune"
  /\ covered' = covered \cap PrunedTo(repos[r])
  /\ known' = {m \in known : m.repo \in PrunedTo(repos[r])}
  /\ lost' = [x \in Runs |-> IF HasReconciled(x) THEN lost[x] \cup (known \ known')
                                                ELSE lost[x]]
  /\ Forget(r)
  /\ UNCHANGED <<env, sync, cut, fails>>

\* The process died, or something outside the listings threw.
Crash(r) ==
  /\ pc[r] # "idle" /\ fails < MaxFails
  /\ fails' = fails + 1
  /\ Forget(r)
  /\ lost' = [lost EXCEPT ![r] = {}]
  /\ UNCHANGED <<env, store, cut>>

RunStep(r) ==
  \/ DueForFullSync(r) \/ Decide(r)
  \/ \E resource \in Resources : MarkSkipped(r, resource)
  \/ ListRepos(r) \/ MergedFrom(r) \/ ListPulls(r) \/ ListRuns(r)
  \/ Mark(r) \/ Prune(r)

Next ==
  \/ Tick \/ Rescope \/ MergeHappens \/ OtherEvent
  \/ \E r \in Runs : Begin(r) \/ RunStep(r) \/ Fail(r) \/ Crash(r)

Spec == Init /\ [][Next]_vars

\* The schedule starts runs for ever and each of their awaits ends.
Fairness == \A r \in Runs : WF_vars(Begin(r)) /\ WF_vars(RunStep(r))

FairSpec == Spec /\ Fairness

----------------------------------------------------------------------------
(* Properties.                                                             *)

\* The types of the clock, the sync state and the runs.
TypeOK ==
  /\ now \in Nat /\ lastEvent \in Nat /\ fails \in Nat
  /\ steady \subseteq scope /\ scope \subseteq Repos /\ covered \subseteq Repos
  /\ merges \subseteq MergeOf /\ known \subseteq merges /\ cut \subseteq merges
  /\ lost \in [Runs -> SUBSET merges]
  /\ sync \in [Resources -> SyncRow \cup {NoRow}]
  /\ pc \in [Runs -> Steps] /\ res \in [Runs -> Resources]
  /\ at \in [Runs -> Nat] /\ full \in [Runs -> BOOLEAN]
  /\ since \in [Runs -> Nat]
  /\ repos \in [Runs -> SUBSET Repos]
  /\ left \in [Runs -> SUBSET Resources]

\* Merged within the depth, and long enough before `t` for a listing made at
\* `t` to show it.
Due(m, t) == m.at >= Before(now, Depth) /\ m.at + Lag <= t

\* Held, or of what the log says is missing.
Accounted(m) == m \in known \cup cut

\* The cursor never runs ahead of what was read: whatever was merged within the
\* depth and before the cursor, in a repository covered all along, is in the
\* store, or a listing warned that it stopped short of it.
NoGap ==
  \A m \in merges : m.repo \in steady /\ Due(m, Held("pulls")) => Accounted(m)

\* As long as no event has come that could spare a delta, it does not.
\* Overlapping runs may move the cursor back and forth, the scope may change
\* around a repository, runs may fail, die and prune; no merge of it falls
\* silently between two windows (mergedSince backs off by the overlap).
NoGapUnheard == lastEvent = Null => NoGap

\* The same for what a run is about to promise: nothing is missing below the
\* bound it lists from, nor below its own start once it has listed.
NoGapInFlight ==
  \A r \in Runs : res[r] = "pulls" => \A m \in merges : m.repo \in steady =>
    /\ pc[r] = "list" /\ m.at >= Before(now, Depth) /\ m.at < since[r] => Accounted(m)
    /\ pc[r] = "mark" /\ Due(m, at[r]) => Accounted(m)

\* What a run asks and prunes to has the repositories covered all along.
ListsTheSteady ==
  \A r \in Runs : res[r] # "repos" \/ pc[r] \in {"mark", "prune"} => steady \subseteq repos[r]

Clocked ==
  /\ Held("pulls") <= now
  /\ \A r \in Runs : at[r] <= now /\ since[r] <= now

Phased ==
  \A r \in Runs : pc[r] \in {"idle", "due", "decide"} => res[r] = "repos"

NoEvents == lastEvent = Null /\ \A r \in Runs : pc[r] # "skipping"

\* The inductive invariant behind NoGap while no event has come: it
\* adds what the runs in flight are about to promise to what the cursor does.
CursorInv == Clocked /\ Phased /\ NoEvents /\ NoGap /\ NoGapInFlight

\* What a mark of the requests by a reconciliation leaves missing of the
\* repositories it has listed: nothing within the depth.
FullRestores ==
  \A r \in Runs :
    pc[r] = "mark" /\ res[r] = "pulls" /\ full[r] /\ sync' # sync
      /\ sync'["pulls"].exists /\ sync'["pulls"].lastFullSyncAt = at[r]
    => \A m \in merges : m.repo \in repos[r] /\ Due(m, at[r]) => m \in known \cup lost[r]

\* A reconciliation leaves nothing missing within the depth, whatever the
\* events delivered or spared before it and however late a repository joined,
\* but what its own listing warned that it left out and what another run has
\* pruned under it.
EveryFullRestores == [][FullRestores]_vars

Overdue(resource) ==
  \/ ~sync[resource].exists
  \/ sync[resource].lastFullSyncAt = Null
  \/ now - sync[resource].lastFullSyncAt >= FULL_SYNC_INTERVAL

\* No listing is left behind: once overdue it is reconciled again, however
\* many events spare the deltas in between and wherever earlier runs died.
NeverLeftBehind ==
  \A resource \in Resources : Overdue(resource) ~> ~Overdue(resource)

OneAtATime == \A r, s \in Runs : pc[r] # "idle" /\ pc[s] # "idle" => r = s

NeverEmptied == covered # {} => covered' # {}

\* A reconciliation never leaves the store without a single repository: a list
\* that came back empty is taken for a failure to read it, whatever the runs
\* before had written and the scope has become since.  Of runs that overlap it
\* holds only while the scope stays: each prunes to the list it began with.
StoreNeverEmptied == [][NeverEmptied]_vars
============================================================================
