# GitPulse: a verification project

GitPulse shows the pull requests, pipelines, deployments, versions and delivery
metrics of several GitHub and GitLab sources on one board. It keeps its own copy
of what the providers hold, and feeds that copy from two sides at once: runs
that list everything since a cursor, and events the providers push. Around that
core stand the services that read versions, file changelogs, count API calls and
keep accounts, sources and rules; the reports computed from the copy; and a
front end whose pages, dialogs and timers keep asking. This directory holds TLA+
models of those parts, the TLC runs that check them on small instances, and
proofs checked by TLAPS for every instance of the core.

Paths below are relative to `src/back/src/` unless they start otherwise.
`PROJECT.json` has the exact correspondence: for every definition the lines it
models, for every property the run that checks it and a mutant it rejects.

## The system

| Part | State | Operations | Module |
|---|---|---|---|
| Merge rules, `ingest/merge.ts` | none | merge an open reading, a merged reading, a pipeline, a deployment into a stored row | `Merge` |
| Cadence rules, `ingest/sync-cadence.ts` | none | skip a delta, where a delta starts, when to reconcile | `Cadence` |
| Store, pull requests, `ingest/store.service.ts` | `StoredPullRequest` | upsert the open feed, upsert the merged feed, close what is stale on the board, prune | `PullRequestStore` |
| Store, pipelines and deployments | `StoredPipeline`, `StoredDeployment` | upsert, prune | `RunStore` |
| Synchronisation, `ingest/sync.service.ts` | `SyncState` per listing | decide full, delta or skipped; four listings; marks; pruning of the scope | `SyncRuns` |
| Webhook delivery, `ingest/webhooks/` | `WebhookDelivery`, the `ingest` queue | accept, remember, queue, process, retry, sweep | `WebhookDelivery`, with `EventLife` what it promises |
| Event mappers, `ingest/webhooks/events.ts` | none | what an event asks the store to record, beside what a listing says | `EventMappers` |
| Retention, `ingest/retention.service.ts` | none of its own | one sweep per table, at the depth of each source | an action of each table's module, and of `Collection` |
| Provider connectors, `sources/connectors/` | none | list pages down to a bound, give up calls under the reserve, report truncation; compare refs | `Listings`, `ReleaseNotes` |
| Collection, `collection/` | the `collection` queue | collect a source, refresh, rebuild, fan out | `Collection` |
| Settings and schedules, `settings/`, `collection/collection.scheduler.ts` | `AppSetting`, repeatable jobs | update, notify, reschedule, boot | `Settings` |
| Sources and trackers, `sources/`, `trackers/` | `Source`, `Credential`, `IssueTracker` | create, patch, delete in several awaits | `SourceRegistry`; the default source and LLM provider in `Defaults`; the secret of the events in `WebhookSecret`, depth in `Collection` |
| Rule tables, `env-rules/`, `version-rules/`, `ticket-rules/`, `env-urls/` | the rules, their secrets, the declared environments | create, patch, remove | `RuleCatalogue` |
| Rule engines | none | classify, address, extract, rank, nearest branch | `Classification` |
| Version readings, `version-rules/` | `EnvironmentVersion`, `VersionChange`, `DeploymentVersion`, the `probe` queue | select, walk the rules, record, ask again | `VersionReadings`; templates in `VersionTemplate`; the timeline's pages in `DeploymentList` |
| Changelogs, `changelogs/` | `DeploymentChangelog` | archive once, oldest first, in batches | `Changelogs` |
| API quota and budget, `api-quota/` | readings in memory, `ApiQuota` rows, declared budgets | record, count, flush, forget, restart | `ApiQuota` |
| Accounts, `auth/` | `User`, `Session`, reset links, failed sign-ins | setup, sign in, roles, removal, resets, throttle | `Accounts`, `LoginThrottle` |
| DORA, `dora/` | `MetricSnapshot` | figures, folds, slices, series, report; snapshot and rebuild | `DoraMetrics`; the days written in `Collection` |
| Overview and dashboard, `overview/`, `dashboard/` | none | read, classify, fold | `Boards` |
| Deployments page, `deployments/` | none | filter, page, compare with the previous one | `DeploymentList` |
| Release notes, `release-notes/` | none | range, expand squashes, group, render, link tickets | `ReleaseNotes` |
| Background jobs, `jobs/` | the queues | read back, retry, discard | `JobsPage`, `JobWatch`, `Collection` |
| Front end, `src/front/src` | view state | report pages, navigation, catalogues, dialogs, session, grids | `FilteredPage`, `Navigation`, `CataloguePage`, `RowDialogs`, `SourceDialog`, `Session`, `Grids` |
| Crypto, the probe's HTTP call, LLM and tracker calls, rendering | none | | not modelled |

### How the parts meet

The schedule or an administrator starts a collection, which calls
`SyncService.sync`. A run decides whether it reconciles (`isDueForFullSync`),
whether recent events spare it (`skipsDelta`), then lists repositories, pull
requests, pipelines and deployments in turn. Each listing upserts through
`StoreService` and advances that listing's cursor to the instant the run
*started*; a full run ends by pruning the repositories that left the scope.
Meanwhile a provider posts an event; `WebhookService.accept` verifies it,
records its delivery id and queues a job, and `IngestProcessor.process` upserts
one row through the same `StoreService`. Nothing serialises the two sides: they
meet in the rows, and every `await` between loading a row and writing it is a
place where the other may step in.

A deep re-read is asked for by hand. `queueRefresh` writes the depth to the
source, looks for a job under an id made of the source, removes it if it has
settled and adds a new one; the worker runs it: synchronise, replay the DORA
history at the depth the source has *by then*, take the snapshots, read the
versions, file the changelogs. The sweep reads the same depth and deletes what
lies beyond it. A collection may also be run in a request of its own, next to
the worker's. A deployment event asks, besides its row, for a reading of the
version, through a queue of its own.

What the administrators edit is read, judged and written in separate awaits
everywhere: two of them meet in the same way as the writers of a row do. The
front end asks the API from timers and clicks, and applies what comes back in
whatever order it comes.

### What is hard here

Listed one by one, at their lines, as `hazards` in `PROJECT.json`:

* **interleavings**: two writers load the same row and write it in either order;
  two both find no row and both create; two runs of one source move one cursor;
  two admins each withdraw the other; two updates reschedule one job;
* **order**: events arrive late, twice, or after a listing that knows better;
  retried jobs carry the payload they had; quota answers come back out of order;
  a page's answer arrives after its next question;
* **stale reads**: rows are loaded once for a whole listing; the pruning uses a
  repository list many awaits old; any event spares every listing; a form sends
  back the row it was opened on; offsets move under a listing's pages;
* **boundaries**: dates with a second's resolution, a listing that lags behind
  the merge it should report, ids made from a clock, period slices, page joints,
  a truncation told from the rows that came back;
* **ids and queues**: `add` ignores an id that is taken, `remove` takes whatever
  holds it; a depth is read once to list, again to replay, and again to sweep;
* **failure in the middle**: a run dies between two listings, an instance
  between the delivery record and the job, a worker between the write and the
  completion, a deletion between its rows; calls given up under the reserve; an
  empty listing; Redis refusing halfway through a rescheduling;
* **progress**: a flood of events must not postpone the reconciliation for
  ever, an accepted event must reach the store, a batch must not be blocked by
  what cannot be read, and a run followed by a page must be reported.

## The modules

`Merge` and `Cadence` are operators, one per function of the two pure files.
Dates are naturals, `Null` (0) the absent one. A row keeps the columns the rules
tell apart. `open` stands for open and draft, which every rule and every query
treats alike; "success" and "failed" stand for the four terminal statuses.

### The core

**`PullRequestStore`** composes `Merge` and `Cadence` with the table, the
synchronisation runs and the ingest workers. `proc[x]` is one run or worker; its
`pc` stands at the awaits of `syncPullRequests` and `upsertPullRequests`:
`from` → `list` → `load` → (`write` ⇄ `create`) → `close` → `listMerged` →
`loadMerged` → (`write` ⇄ `create`) → idle. A worker goes through `load` and
`write` only. `Load` merges every reading against the rows it finds there;
`Update` is the guarded `updateMany`; `Create` is `createOrLose`, which loses
when the row exists; `TouchStale` is the final `updateMany` on the readings that
had nothing to add, and is part of the action that ends the upsert. The listing of
the merges stops at the connector's page ceiling with a warning, and as it is ordered
by the last update it may leave out any of them (`cut`). `FailRun`
and `FailJob` may happen at any await. The provider opens, edits, closes,
reopens and merges, each change delivered as an event or not. `quiet` and `calm`
are observations: they record which runs nobody disturbed, and guard nothing.

**`RunStore`** is the same for one reading of a pipeline or a deployment. The
difference between the two tables is whether a reading states an update date;
`pipelines` is chosen in the initial state and never changes. A deployment's
status may be read as "unknown" when the status call is given up.

**`SyncRuns`** keeps the run and its cursors, and reduces the rows to what the
cursors promise about them: `merges` are the instants of merges, `known` the
ones the store has, `covered` the repositories that have rows. A run asks for the
merges of the repositories it listed (`Asked`), which the scope may have outgrown by
then, and past the page ceiling any of them may be left out: that is a warning in the
log, and the mark that follows is the same. `steady`, `cut` and `lost` are
observations: the repositories covered all along, the merges missing since a listing
warned that it stopped short, and what a reconciliation's own listing does not answer
for, either because it was cut or because another run has pruned under it. `Fail` is a
listing or a mark that threw (recorded, and the run goes on unless it was the
repository listing), `Crash` a run that dies at any await, `MarkSkipped` one of
the four concurrent marks of a spared run.

**`WebhookDelivery`** follows one source's events from delivery to rows.
`handler[h]` is a request on any instance, at one of its awaits: verified,
remembered. `Deliver` reads the source and verifies; the signature is abstracted
to equality of secrets. `Remember` is the insert the unique index decides.
`Break` is anything that ends the request there: the insert or `queue.add`
throws, or the instance dies. `EditSource` is a step of the administrators' requests,
which are `WebhookSecret`'s. `job` follows BullMQ's states with the attempts of
`JOB_RETRIES` and the single recovery of a stalled job. `Stamped` are the events
that carry the provider's own delivery id; the others get the name and the
millisecond.

**`EventLife`** is the abstract specification of the ingest: an event goes from
unheard to claimed to queued to applied, or is lost or fails on the way; it never
goes back and never skips a step, and one that was claimed or queued settles.
`WebhookDelivery` implements it for the events with an id of their own:
`Stage(e)` reads the stage off the requests, the record, the jobs and the rows
(a record that was swept included), `Life == INSTANCE EventLife WITH stage <- …`
and the run `deliveries` checks `KeepsEventLife == Life!Spec` of
`WebhookDelivery!FairSpec`.

**`Collection`** follows one stored source through the `collection` queue.
`req[a]` is an administrator's request at one of the awaits of `queueRefresh` or
`queueRebuild` (`spec` → `depth` → `get` → `state` → `remove` → `add`), `job[k]`
the job under each id, `run[x]` what the worker or a direct caller is executing
at one of the awaits of `collect`, `rebuild` or `prune`. One worker, as the
processor's default concurrency is one, on one instance. Days count back from
today: the store reaches `deep` days back and `history` are the days with a DORA
reading; a whole listing deepens the store, the sweep cuts it, and a replay
replaces a range of the history by the days the store can restate. `Retry`,
`Discard` and `Evict` are the jobs page and BullMQ's own cleaning; `Fail` is what
nothing catches, `Refused`, `SyncThrew` and `RebuildThrew` what is swallowed or
turned into a warning, `Crash` a stalled job. `stamp`, `answered`, `held` and
`lost` are observations: they number the depths written and record which of them
a run has read.

### The services

One variable per table or cache, one action per await, `req`, `updater`,
`reader`, `run` or `flush` for what is between two of them. What is race-prone
by design is stated as such: a property named `…OnlyByRace` says that the bad
state is entered only by a writer that was overtaken between its check and its
write, which an observation (`raced`, `stale`, `late`) records.

* **`Accounts`**, **`LoginThrottle`**: cookies, roles, the last admin, password
  changes and the sessions they close, reset links; failed attempts counted only
  after the password was verified. `pass` observes what a session was opened on: a
  change of access makes those before it `past`, a sign-in that had verified the old
  password opens a `late` one, and `Break`, a request that throws or dies at any
  await, makes `left` the ones it was about to close.
* **`Settings`**: an update is judged on the merged state, written, read back,
  and starts one rescheduling per job. The labels of incidents are modelled with
  their conversion: `Judged` is what the check counts, `Text` what is stored,
  `readList` what is read back.
* **`SourceRegistry`**, **`Defaults`**, **`RuleCatalogue`**: read, merge or lay
  over, judge, write; deletions in several awaits, any of which may throw (`Break`):
  a removal whose row is gone cannot be asked for again.
* **`WebhookSecret`**: the switch of a source and the secret it verifies events
  with. A save that ends with the events off deletes the secret outside its
  transaction; issuing one reads the flag, then writes. Several administrators, any
  request of whom may break at its await. `WebhookDelivery` takes its steps
  (`Switch == INSTANCE WebhookSecret`).
* **`VersionReadings`**: due environments, the walk over the rules, the
  look-up outside the transaction, the three tables, the probe job and its id.
* **`Changelogs`**: batches, refs that disappear, a window that slides,
  `upsert` with an empty update.
* **`ApiQuota`**: counters from headers or counted against a declared ceiling,
  the write-behind flush, restart, the removal of a source. Who had resolved the
  source before its removal (`context`) goes on calling, recording and flushing after
  it, until the process restarts; the removal may break at any of its awaits. Run as
  two parts: `quota` (metered, two flushes, a crash) and `budget` (declared ceilings).

### Readings and reports

Engines and folds are operators over a state that grows a step at a time, and
are checked against a reference definition stated another way.

* **`Classification`**: `order` is the listing the database returned, which is
  free within a priority; `Relist` the next reading. Five engines: environments,
  addresses, version rules, tickets, nearest branch.
* **`VersionTemplate`**: the path grammar and its walk, against the tree.
* **`Listings`**: both connectors' pages while rows appear, are touched, closed or
  merged. A page is a set of rows, each at its place: the number of rows the
  provider lists before it when the page is read (`Ahead`), which is what the
  offset of a page is about. It runs beside `SyncRuns`, whose listings these are.
* **`EventMappers`**: the row an event asks for beside the row a listing gives, of
  an object that moves between the two. It runs beside `SyncRuns` too.
* **`ReleaseNotes`**: history, ranges, squashes, both renderers, tickets.
* **`DoraMetrics`**: attribution of merges and incidents, the figures, medians,
  slices, trends, the series of the snapshots, and the report with its line and
  its samples.
* **`Boards`**, **`DeploymentList`**, **`Grids`**: the overview, the list of
  rollouts with its comparisons and timelines, and the two grids.

### The screens

* **`FilteredPage`**: state, debounced state, address and history, one request
  at a time, automatic refresh; the six report pages are its configurations, each a
  set of what sets it apart. Beside its load, the page of one metric reads its
  `events`, a load of its own started by the settled filters and by the reader's
  paging, whose failure nothing tells; and the release notes are generated on a click
  (`notes`), not aborted by anything. The search box of the changelogs stays live
  during a load, unlike the filters of the other pages.
* **`Navigation`**, **`CataloguePage`**, **`JobsPage`**, **`JobWatch`**: slugs and
  redirections; lists, dialogs and confirmations without cancellation; queue
  lists each read at its own instant; runs followed by a timer.
* **`RowDialogs`**, **`SourceDialog`**, **`Session`**: the conversions from a row
  to a form and back, and what another administrator or another answer changes
  in between.

### Instances

`MC*` modules instantiate these for TLC. `MCServices`, `MCReports`, `MCScreens`
and `MCSyncRuns` check several modules in one run: `which` selects the part a
behaviour is about and never changes, and the variables of the other parts are
at rest. A property of such a run is the conjunction over the parts of what
their modules state. `MCServices` and `MCScreens` keep the variables and the
constants of the modules under their own names, a name several parts have being
one variable, so that what the run checks is stated, and proved, for every value
of those constants; so does `MCSyncRuns` for `SyncRuns`, `Listings` and
`EventMappers`. It runs `SyncRuns` in three settings: `unheard` (overlapping runs, no
event, failure or change of scope), `reached` (all of these, under runs that
follow one another, on one repository) and `rescoped` (two repositories that come
and go under runs that follow one another). `MCReports` maps them to the slots `v1`, `v2`, …
(`INSTANCE … WITH`), and so does `MCSyncRuns` for what waits beside the runs
(readings, changelogs, followed jobs). In `MCPullRequestStore` the constant of the behaviour is `setting`: one
run and one worker with events, or two overlapping runs. `*Proofs` modules
extend the modules they are named after with lemmas and theorems:
`ServicesProofs` extends `MCServices` and holds those of every service and of
`RunStore`, `ScreensProofs` extends `MCScreens` and holds those of every screen,
and `SyncRunsProofs` extends `MCSyncRuns` and holds those of the runs, of the
listings and of the events. The proofs of
`LoginThrottle` are few and in the module itself. In every module a definition
whose name has a suffix (`UpdateMatches_ByKey`) and whose comment begins with
"Mutant" or "A mutation" is a plausible mistake, used by nothing: `PROJECT.json`
names the property that notices it.


## The runs

| Run | Instance | Checks |
|---|---|---|
| `pull_requests` | 1 pull request, 3 instants; one run and one worker with an event waiting and 2 attempts, or two overlapping runs | `TypeOK`, `DatedMeansMerged`, `BoardIsReal`, `EveryCopyHonest`, `UpdatedAtNeverBack`, `MergeIsFinal`, `ConvergesWhenQuiet`, `ListedIsSpared` |
| `sync` | two overlapping runs, no events, a fixed scope, lag and overlap 2, 4 instants; or the same two one after the other, 3 instants, with events, a changing scope and 1 failure, one repository; or with two repositories and a changing scope; 1 merge each, at the first instant for the overlapping runs; or 3 rows in pages of one, a ceiling of 2 pages and 2 moves under them; or one object of each kind, every payload of it | `NoGapUnheard`, `EveryFullRestores`, `StoreNeverEmptied`, `PlatformIsReadTrue` |
| `progress` | sync runs, version readings, changelogs, followed jobs, each under its fairness | `EveryWaitEnds` |
| `deliveries` | 2 events, 2 requests, 1 administrator, 5 instants, 2 deliveries, 1 broken request, 3 attempts, fairness | `HandledOnce`, `HeardIsApplied`, `KeepsEventLife` |
| `collection` | 2 administrators, 1 direct caller, depths none and 3, window 2, 2 requests, 2 failures, 2 attempts | `AcceptedIsRead`, `DepthIsKept`, `DeepRunIsWhole` |
| `services` | 14 parts, 2 writers each | `EveryRunHonest`, `SettledStays`, `UndoneOnlyByRace`, `NeverBlanked`, `RepairedByReading`, `AccountsAreKept`, `OldSessionsAreClosed`, `SettledStateIsExact`, `SourcesLeaveNothing`, `SecretFollowsSwitch`, `BrokenOnlyByRace`, `HistoryIsFinal`, `QuotaIsKept` |
| `reports` | 8 parts, every small input | `EnginesAreSound`, `ReportsAreTheStores`, `GridIsHonest` |
| `screens` | 8 parts, 2 readers or requests | `ScreenIsTheAddress`, `AnswersAreCurrent`, `SavedIsUsable`, `FormsTouchOnly`, `QuietLoadIsWhole` |
| `sync_skip_gap` | 1 run, 3 instants, events | finds `NoGap` violated |
| `deliveries_lost` | 1 event, 1 request, 1 broken request | finds `DuplicateIsHandled` violated |
| `collection_green` | 1 administrator, 1 request, 1 failure | finds `GreenMeansIngested` violated |
| `listings_truncated` | 3 rows, pages of one | finds `TruncatedMeansTheCeiling` violated |

**Why these bounds.** The rules compare two dates and a row has one writer at a
time, so two concurrent writers and three dates (one before, one at, one after)
reach every outcome of a comparison and every order of two load/write pairs.
Rows of different pull requests never interact except through the listing's set
operations, so one row is enough for the races and the proofs cover any number.
Pipelines take a fourth instant because a status moves through three ranks. In
`SyncRuns` a gap needs a merge, a cursor past it and an overlap of at least the
lag, hence three instants with a lag and an overlap of two: with a lag of one the
inclusive bound of the listing alone would close the gap; the overlapping runs have a
fourth, so that a run may list from a bound past the merge, which happens at the first.
One merge is enough there, as a property speaks of one at a time and merges never meet: each is
listed, cut, pruned or heard of on its own. A scope that loses a repository and takes it
back needs two, one to stay. In `WebhookDelivery`
five instants let a record be swept (retention two) while redeliveries (window
one) and requests (one) are still possible or just over; two deliveries are the
least that can be duplicates. In `Collection` a depth (3) beyond the window (2)
tells the two apart, two requests are the least that race on an id or overtake
each other's depth, and two failures let one break a request while another
stalls or fails the job it meets; the margin of the sweep is zero, which leaves
it the least slack. `MaxFaults`, `MaxFails` and `ATTEMPTS` are chosen so that a
failure happens, is retried, and can be final.

The races of the services are between two requests over one row, so each part
has two writers and the fewest rows that can meet: two accounts with two tokens
(each admin can withdraw the other), one schedule with two patterns and a Redis
failure, one source with its tracker, three secrets (one before a switch, one issued
across it, one after), three ids for one default, limits of two and three sign-ins (so that
the one of the address and the one of the network are reached apart), two rules
and two versions, three deployments in batches of one, two calls in two windows
with a crash, which is the least that can come back out of order, after a window that is
over, or after the removal of their source. A listing has three rows in pages of one and a ceiling of two pages,
so that a bound and the ceiling can both end the reading, and two moves between
its pages, so that one can undo what the other did to the order; its dates are
two instants, the least that are told apart. The reports run over every value of
their small inputs: two deployments, one merge and one incident at two instants; two rules, which is
the least that can tie. A screen has two answers under way, the least that can
come back in the wrong order, and one other administrator who changes a row.

**Deadlock** is switched off where the instance really may stop: the clock, the
provider, the deliveries and the requests are bounded, and a store in which
nobody has anything to write is at rest. `sync` keeps it on: a run can always
begin again.

**Fairness.** `SyncRuns!FairSpec` assumes that the schedule goes on starting
runs (a BullMQ repeatable job) and that every await of a run ends, by a result
or an error (an assumption on the HTTP client and the database driver: the code
sets no timeout of its own on these calls). `progress` assumes the same of the
version readings and the changelogs, whose runs the same schedule starts, and of
the timer by which a page follows a job. Strong fairness is used twice: a
comparison a changelog waits for does not fail for ever, nor does the reserve
refuse it for ever, and a request that starts a followed run is answered.
Retrying is no help against a call that always fails, and the property does not
claim it. `WebhookDelivery!FairSpec` assumes that a request
that has begun proceeds and that the worker takes waiting jobs. Nothing obliges
the provider, the clock, an administrator or a failure to act. Symmetry is used
only where no liveness is checked.

### What they show

*Pull requests.* Whatever the interleaving, the date of a row never goes back, a
recorded merge is never revoked, state and merge date agree, and the board shows
a merged pull request as open only on the strength of a reading older than the
merge. Races do leave rows behind the provider for a while; a run that nobody
disturbs repairs all of them, merges older than its window excepted and those that
its listing warned it left out at the page ceiling (`ConvergesWhenQuiet`). These stay
missing until a later listing brings them, and "the ingestion then holds less history
than was asked for" (`sources/connectors/github.connector.ts:53-55`). A run never closes what it has itself listed as open
unless somebody wrote that row between its load and its reconciliation.

*Pipelines and deployments.* The end of a pipeline is never undone. That of a
deployment, which has no date to compare, can be, but only by a writer that
merged against a row another writer has since replaced, never by a late or a
degraded reading alone; and the next reading taken in quiet repairs it.

*Synchronisation.* Until an event comes, overlapping, failing and dying runs never
leave a merge of a repository that stays in the scope silently between two windows:
either the store has it, or a listing that stopped at the page ceiling warned
(`NoGapUnheard`; the run checks the overlap, and the scope around it, the
proof the failures too). A warned gap is a real one: the cursor and the date of the
reconciliation advance over it (`ingest/sync.service.ts:228-236`), and so they do over
the merges of a repository that was out of the scope meanwhile. After an event, a
skipped delta can leave one too (see below). A
reconciliation puts back everything within the depth, of every repository it listed,
but what its own listing warned of and what an overlapping run prunes under it.
Every overdue listing is reconciled again, however many events spare the deltas.
A reconciliation never prunes the last repository because a listing came back
empty. A bounded listing holds every row of its window that stood still, or says
it was cut, whatever moved between its pages; a listing of open requests, which
has no bound, holds every one unless another left it between two pages. Listing
and event agree on what they both state.

*Deliveries.* An event with an id of its own is queued at most once, although
its record is swept, as long as the retention outlasts the provider's retries
and the life of a request. One that was answered as accepted or as a repeat
reaches the store, unless its job spent its attempts or one of its requests
broke halfway. All of it
is summed up in `EventLife`, which the detailed specification implements, its
progress included.

*Collection.* A caller given a handle is given a run that reads the depth it
wrote, although two callers may share one job, a retry may overtake a request,
and a request may remove another's waiting job; only a job discarded by hand, or
removed by a request that then broke, is lost. A depth once read whole is kept
until it is written again; a sweep that read the depth before that may cut it. A
deep run in which everything was read leaves a reading on every day of the
depth.

*Services.* Closed sessions stay closed and a change of access closes the ones
before it: what stays of before is a session a sign-in opened after the change on the old
password it had verified before, or one a request that broke never got to close. The
next change closes these. A source that stops listening keeps no secret, unless the
deletion never ran or a request that read the switch before it writes afterwards; the
next save with the events off deletes that one, the next secret replaces it. A removed
source leaves nothing, unless its removal broke: then its secret, its declared ceiling
or its readings stay, and no one can ask again. The last admin, a rule that contributes nothing, a source without its
secret, unlabelled incidents: each is reached only when two requests overlap
(and the last in one more way, below), and each such overlap is real. Schedules
settle on what the settings say; a frozen version and a filed changelog never
change; a held quota reading is marked or on disk, unless it came in while
the one before it was being written; and what was held of a source when it was
forgotten is not written back. What a run that resolved the source before records
afterwards is, and nobody deletes those rows.

*Reports.* Engines give the answer their reference definition gives, whatever
order the database returned; figures over slices add up to the figure over the period; the rows
of the pages, put end to end, are the rows of the table.

*Screens.* What a page shows is the answer to what its address asks once it has
settled, or an error says why not; the events of a metric too, unless their load failed;
and release notes are of the repository picked, unless they were still being generated
when it was. A load of the jobs page under which nothing moved shows every list as
the queue holds it. A list that was read after the last write is the table's; a dialog
writes the fields its reader edited and gives back the others as they were.

### Where the code and its comments part

Checked by a run each:

* `deliveries_lost`. The delivery is recorded before the job is queued. If the
  request ends in between, the redelivery is answered as a duplicate although
  nobody handles the event (`webhook.service.ts:60-61` says somebody does).
* `sync_skip_gap`. A spared delta advances the cursor because "the view really
  is up to date" (`sync.service.ts:96-97`); a merge whose own event was lost
  then lies before the cursor, and waits for the next reconciliation.
* `collection_green`. The processor returns warnings so that a job is not
  completed "green over a source whose ingestion failed outright"
  (`collection.processor.ts:53-55`). A refused listing, that of the repositories
  included, is recorded in `SyncState` and in an outcome nobody reads, and the
  job completes without a warning.
* `listings_truncated`. GitLab filters its bounded listings itself, so none of
  their rows is past the bound, and the test for a truncation
  (`gitlab.connector.ts:88`) takes that for a listing that never got there: any
  that is not empty is reported as cut.

Stated in the modules as the comments have it, and refuted by TLC on the same
instances (`Boards` with two environments); no run is kept for them:

| Definition | What the code does instead |
|---|---|
| `PullRequestStore!SegmentsAreKept` (`merge.ts:95-96`) | the open feed writes back the lead-time segments it loaded, which may be older than the ones written since |
| `Settings!UnlabelledNeverAlone` (`settings.service.ts:163-167`) | a null or a blank label passes the check and is read back as none, without any race |
| `Accounts!AdminIsLeft` | two withdrawals, each checked before the other is written, leave no admin |
| `SourceRegistry!IncidentTrackerSupported` | a tracker already designated changes kind afterwards |
| `VersionReadings!RetriedMeansQueued` | the retry is asked for from within the job that holds its id, and is ignored |
| `Classification!DeclarationOrderBreaksTies` | the order within a priority is whatever the database returned |
| `EventMappers!NeitherContradictsTheOther` (`events.ts:4-7`) | a merge event without its date is a closed request (GitHub) or an open one (GitLab), a merged one in the listing |
| `DoraMetrics!BothReadTheSameIncidents` (`dora-metrics.ts:216`) | measured by incidents, one attributed to a deployment counts as a failure and drops out of the restore times, which then look at no deployment |
| `DeploymentList!CurrentOnlyOnTheNewest` (`src/front/src/versions.ts:22-25`) | filtered by status, the first row shown of an environment is taken for its newest deployment |
| `Boards!RunningStands` (`src/packages/shared/src/index.ts:2101-2107`) | a repository's last deployments are read up to a number; an environment deployed before them is not on the matrix |
| `Grids!BehindIsBehindItsOwn` | a version that is no release takes its repository out of the comparison |
| `FilteredPage!AddressFollows` (`urlQuery.ts:30-31`) | going back and undoing that within the debounce leaves the address of before the filters on screen |
| `FilteredPage!EventsAreTold` (`src/front/src/hooks.ts:27-36`) | the error of the load of a metric's events is not read (`DoraMetricPage.tsx:118`): rows of earlier filters stay, and nothing says so |
| `Navigation!LandsOnTheFavourite` (`src/packages/shared/src/index.ts:152-157`) | the redirection takes the first source of the list (`App.tsx:450`) |
| `CataloguePage!TabsNeverMix` (`EnvRulesPage.tsx:42-44`) | a late answer is shown under the tab that replaced its own |
| `SourceDialog!CatalogueIsTheOwners` (`SourcesPage.tsx:1078-1082`) | the catalogue of the stored owner arrives after another was typed |
| `SourceDialog!RulesAreAllOffered` (`SourcesPage.tsx:1014`) | a rule beyond the page that was read is dropped by the first edit |
| `Session!PresentationIsTheAccounts` (`App.tsx:195-196`) | a refused save snaps back to what was read when the session began, not to what was stored since |
| `Session!UntouchedIsLeftOut` (`AccountPage.tsx:45-47`) | after two overlapping sign-ins, a form filled from one account is compared with the other |
| `JobWatch!GreenIsClean` (`SourcesPage.tsx:207-208`) | warnings and state are read one after the other; a run that ends in between is done and clean |
| `JobWatch!UnknownRan` (`SourcesPage.tsx:299-300`) | a state that could not be read is unknown too, of a job that still waits |
| `RowDialogs!NoAuthNoSecret` (`version-rules.service.ts:132-135`) | a secret typed before the scheme is dropped is sent and stored with it |

Noticed while modelling, and stated as exceptions of the properties: the values
of declared environments are not in the overview's filter; "1.4" and "1.4.0" are
two releases in a cell; two deployments of one instant are each other's
previous; a request can be missing from an open listing when another closes
between two pages, one that was opened under them included; a squash stacked on
another is listed in two consecutive releases; a subject that says "(#n)" by hand is replaced by that request's
commits; a comparison capped by GitHub at 250 commits is only logged;
a reading of the quota that comes in while the one before it is being written loses its
mark with it, and is not written until its bucket is read again, although "a failed
flush keeps its reading" and the mark is to stay "since the last successful write"
(`api-quota/api-quota.service.ts:43`, `219-221`); a change of access closes the other
sessions in a statement of its own, which may fail, and not those a sign-in under way
opens after it, although it "invalidates the account's other sessions at once"
(`auth/auth.service.ts:189-192`); a removal of a source that breaks leaves its
credential, its ceiling or its readings to nobody, and a run that had resolved the
source leaves readings after it; a deletion of a webhook secret that breaks leaves one
that verifies deliveries once the events are switched on again; release notes on screen
may be of an earlier range than the one picked, and of another repository when they were
being generated as it was picked; a job that moves while the lists of the jobs page are
read may be on two of them or on none.

## What is proved

TLAPS checks these for every value of the constants.

| Theorem | States | Rests on |
|---|---|---|
| `PullRequestStoreProofs!TypeCorrect` | `Spec => []TypeOK` | |
| `DatesNeverGoBack` | `UpdatedAtNeverBack` | `RowSteps`: the four things a step may do to a row |
| `HonestCopies` | `[]EveryCopyHonest` | `TypeCorrect`; assumes `MergeDateInEvents`, `~SameStamp` |
| `MergeFinality` | `MergeIsFinal` | `HonestCopies`, `RowSteps` |
| `TableIsHonest` | `[]DatedMeansMerged` | `HonestCopies` |
| `BoardIsHonest` | `[]BoardIsReal` | `HonestCopies` |
| `ListedRowsAreSpared` | `ListedIsSpared` | `CalmRunsSpare`; no assumption |
| `QuietRunConverges` | `ConvergesWhenQuiet` | `QuietRunsAgree`, `HonestCopies` |
| `SyncRunsProofs!NoMergeFallsBetween` | `[]NoGapUnheard` | `CursorIsSound`: `CursorInv` is inductive until an event comes, `SteadyIsListed`; no assumption |
| `ReconciliationRestores` | `EveryFullRestores` | `ReconcilesFromDepth`; no assumption |
| `LoneRunKeepsRows` | `StoreNeverEmptied`, of behaviours whose runs follow one another (`[]OneAtATime`) | `ListedHaveRows`, `IdleHoldsNothing` |
| `SteadyScopeKeepsRows` | `[][NeverEmptied]_vars`, of behaviours whose scope stays | `OneScope`; any number of runs |
| `PlatformStaysRead` | `MCSpec => []PlatformIsReadTrue` | `ListingInv`, `TellingInv`; assumes finitely many rows (`PlatformAssumption`) |
| `WebhookDeliveryProofs!DeliveriesAreClaimedOnce` | `[]DeliveryInv` | |
| `EventsAreHandledOnce` | `[]HandledOnce` | `DeliveriesAreClaimedOnce` |
| `DeliveryKeepsEventLife` | `Spec => Life!Safe` | `LifeInv`, `DeliveriesAreClaimedOnce` |
| `CollectionProofs!AcceptedRereadIsRead` | `[]AcceptedIsRead` | `CollectionInvariant` |
| `StoreKeepsDepth` | `[]DepthIsKept` | `CollectionInvariant` |
| `DeepRereadIsWhole` | `DeepRunIsWhole` | `DeepInv`, `CollectionInvariant` |
| `LoginThrottle!ThrottleHolds` | `[]LimitIsPassedOnlyInFlight` | itself inductive; assumes positive limits and finite `Attempts` |
| `ServicesProofs!RunHonest` | `[]EveryRunHonest` | assumes `~SameStamp`, `~Reruns` |
| `PipelinesStaySettled` | `SettledStays` | `RunHonest` |
| `DeploymentsUndoneOnlyByRace` | `UndoneOnlyByRace` | what a calm writer merged against; no assumption |
| `UrlsBlankedOnlyByRace` | `NeverBlanked` | the same; no assumption |
| `QuietReadingRepairs` | `RepairedByReading` | what a quiet writer read; assumes `~Reruns` |
| `ClosedStaysClosed` | `[][Accounts!RevokedStaysRevoked]` | `SessionSteps` |
| `PasswordChangeClosesSessions` | `[]Accounts!OldSessionsRevoked` | itself inductive |
| `LastAdminGoesOnlyByRace` | `[][Accounts!LastAdminOnlyByRace]` | `ChecksAreSound`; assumes `Users` finite |
| `SettledJobsAreExact` | `[]Settings!SettledIsExact` | `SettingsInvariant` |
| `LabelsGoOnlyByRace` | `[][Settings!UnlabelledOnlyByRace]` | `SettingsInvariant` |
| `SettledHasOneDefault` | `[]Defaults!OneDefault` | `DefaultsSteps` |
| `KeysKeepTheirOwners` | `[]Defaults!KeysHaveOwners` | `DefaultsSteps` |
| `SourceLeavesNothing` | `[](OnlyStoredListens /\ NothingOutlives)` of `SourceRegistry` | `RegistryInvariant` |
| `SecretIsLostOnlyByRace` | `[][Registry!WrongSecretOnlyByRace]` | `RegistryInvariant` |
| `RulesBreakOnlyByRace` | `[][SilentOnlyByRace /\ UnwritableOnlyByRace /\ OrphanOnlyByRace]` of `RuleCatalogue` | `CatalogueSteps` |
| `RowAndHistoryAgree` | `[]Readings!RowAndFrozenAgree` | `ReadingsStep`; assumes `MaxDeployments` a natural |
| `TimelineFollowsTheRow` | `[][Readings!TimelinePartsOnlyByRace]` | the same |
| `FiledMeansWentOut` | `[]Logs!FiledWentOut` | `LogsStep`; assumes `Last` a natural |
| `FiledStaysFiled` | `[][Logs!FiledIsFinal]` | the same |
| `CountsNeverShrink` | `[][CountNeverShrinks /\ ObservedIsNotRecounted]` of `ApiQuota` | `QuotaSteps`; assumes natural bounds |
| `StoredFollowsTheHeld` | `[](StoredLagsOnlyByRace /\ NothingHeldComesBack)` of `ApiQuota` | the same |
| `SecretEndsWithTheSwitch` | `[]Webhook!SecretFollowsSwitch` | `WebhookInv`; no assumption |
| `OldSessionsStayClosed` | `MCSpec => []OldSessionsAreClosed` | `PasswordChangeClosesSessions`, `ThrottleHolds` and their assumptions |
| `SettledStaysExact` | `[]SettledStateIsExact` | `SettledJobsAreExact`, `SettledHasOneDefault`, `KeysKeepTheirOwners` |
| `SourcesStayWhole` | `[]SourcesLeaveNothing` | `SourceLeavesNothing` |
| `SwitchedOffHasNoSecret` | `MCSpec => []SecretFollowsSwitch` | `SecretEndsWithTheSwitch` |
| `AccountsStayKept` | `AccountsAreKept` | `ClosedStaysClosed`, `LastAdminGoesOnlyByRace`; assumes `Users` finite |
| `HistoryStaysFinal` | `HistoryIsFinal` | the four of readings and changelogs |
| `QuotaStaysKept` | `QuotaIsKept` | `CountsNeverShrink`, `StoredFollowsTheHeld` |
| `WritesBreakOnlyByRace` | `BrokenOnlyByRace` | `LabelsGoOnlyByRace`, `RulesBreakOnlyByRace`, `SecretIsLostOnlyByRace` |
| `ScreensProofs!PageStaysItsAddress` | `[]Report!ScreenIsTheAddress` | `ReportInv` |
| `LinksStayTrue` | `[]Addresses!LinksLeadSomewhere` | `AddressesInv`; assumes `MaxSources` a natural |
| `ListStaysCurrent` | `[]Catalogue!ListIsCurrent` | `CatalogueInv` |
| `ScreenStaysTheSessions` | `[]Reader!ScreenIsTheSessions` | `SessionInv` |
| `RowsStayTheRuns` | `[]Follower!OutcomeIsTheRuns` | `FollowerInv` |
| `SavedStaysUsable` | `[]Source!SavedIsUsable` | `SourceInv` |
| `SaveStoresWhatWasTyped` | `[][Rows!SaveTouchesOnly]` | `RowsInv`, `DialogsAreWellMade` |
| `ScreenStaysTheAddress` | `MCSpec => []ScreenIsTheAddress` | `PageStaysItsAddress`, `LinksStayTrue` |
| `AnswersStayCurrent` | `[]AnswersAreCurrent` | `ListStaysCurrent`, `ScreenStaysTheSessions`, `RowsStayTheRuns` |
| `SavedSourcesStayUsable` | `[]SavedIsUsable` | `SavedStaysUsable` |
| `FormsStoreWhatWasTyped` | `FormsTouchOnly` | `SaveStoresWhatWasTyped` |
| `QuietLoadStaysWhole` | `QuietLoadIsWhole` | `QueueInv`; assumes finitely many jobs, no more than `JOB_SCAN_DEPTH`, and natural limits |

Behind these stand the type invariants (`RunTypeCorrect`, `SyncTypeCorrect`,
`DeliveryTypeCorrect`, `CollectionTypeCorrect`, `AccountsTypeCorrect`,
`ThrottleTypeCorrect`, `SettingsTypeCorrect`, `RegistryTypeCorrect`) and the inductive
invariants, which are no property of a run: the theorems hold them for every
instance. The statements about a service or a screen are parts of the properties of
`services` and `screens`, and the theorems that end each group (`… MCSpec => …`) put them
together: every property of those two runs is proved as the run checks it, for all
values of the constants of `MCServices` and `MCScreens`.

**The arguments.** `MergeIsFinal` is not inductive: a process may hold a row it
is about to write, computed long ago. `EveryCopyHonest` says of *every* copy in
flight (the reading in a queued job, the readings and merged rows a process
carries, the stored row) that it was true at its own date, and that it knows of
the merge if its date is not before it. The guard of the update lets through
only dates that are not older, so what replaces a merged row carries a date at
or after the merge, and therefore knows of it. The assumptions are real: a
merge event without `merged_at` is mapped to open with the merge's own date, and
two changes stamped alike defeat the comparison; with either, `EveryCopyHonest`
fails at once.

`EveryRunHonest` is the same idea for pipelines: a settled copy carries the date
of the run's end, which is its last. It needs a run to have one life. A run that
is started again under its own id is running at a later date than its stored
end, and `laterStatus` keeps the old end over it.

`CursorInv` adds to `NoGap`, while no event has come, what the runs in flight are
about to promise:
nothing is missing, unwarned of, below the bound a run lists from, nor, once it has
listed, below its own start. It speaks of the repositories covered all along, which every
list a run prunes to has (`SteadyIsListed`). The step that needs `Lag <= DELTA_OVERLAP` is the one that
computes that bound from a cursor another run may just have moved.

`DeliveryInv` says that a claimed or queued event is on record for as long as a
delivery of it may still be handled: the provider stops within `RETRY_WINDOW`, a
request lives `REQUEST_TIME`, and `DELIVERY_RETENTION` is at least their sum
(`DeliveryAssumption`; in the code the retention is seven days, and its comment
counts on providers giving up within hours).

`AcceptedIsRead` is not inductive: the `add` that is ignored must find a job that
will still read the depth. `Pending` says so of every request past its check:
under the id there is no job, a waiting one, or one whose run has not read the
depth yet. It holds because the job of a run is active until the run ends
(`WorkerHolds`), so nobody can pass the check while one is past that point, and
because no request is numbered after the last stamp (`Ordered`), so a run that
reads the depth answers everybody. `DepthIsKept` needs `DepthsCurrent`: a depth a
listing or a sweep carries, read since the last write, is the source's.

`ListedIsSpared` needs, of a run nobody overtook, that every pull request it
listed as open is among those its reconciliation spares (`CalmRunsSpare`).
`ConvergesWhenQuiet` needs what each phase of an undisturbed run has achieved so
far (`QuietRunsAgree`): the readings are the provider's but for what its listing
left out at the page ceiling, the rows written so far
agree with them, the rest is still to come. It also needs that a stored row has a
state, which `HonestTo` did not say: no step of the code stores one without, and
the invariant now says so.

`UndoneOnlyByRace` and `NeverBlanked` hold because the row of a writer nobody
overtook is the merge of its reading with the row it is about to replace, and
`laterStatus` and `??` lose nothing that is in the second. `RepairedByReading`
adds, of a writer since whose reading nothing moved, that its reading is the
provider's; with `Reruns` the stored end of an earlier life wins over it.

`FullRestores` needs that a reconciling run lists from the start of the depth and
that, once it has listed, what was due at its own start, of the repositories it listed,
is known or in its `lost` (`ReconcilesFromDepth`). Whatever another run prunes in between
goes there. `NeverEmptied` needs that what a run lists has rows
(`ListedHaveRows`). With two runs that overlap and a scope that changes between
them this fails, and TLC finds it: each prunes to the list it began with, and the
second drops what the first had just written. One of the two has to be absent:
either the runs follow one another (`OneAtATime`; `IdleHoldsNothing` says that the
one that begins carries nothing over), or the scope stays, in which case all the lists
are the same (`OneScope`).

`SecretFollowsSwitch` is the promise of two statements, the secret and the
switch, for any number of administrators. A secret is told from the ones of before by
its number: `stale` is the last one issued when a save ended with the events off, and
no secret is numbered beyond those issued, so that `WebhookInv` is inductive. Its
exceptions are the three ways in which one outlives the switch, and `left` keeps which of
them it was only until a deletion or a secret issued under the switch ends it.

`PlatformIsReadTrue` speaks of two readers. *Listings.* A row is looked for while the
rows around it move, so `ListingIsWhole` at the end needs to know, at every page,
where a row that has stood still is. `ListingInv` says it: either a page has brought
it, or at least as many rows are ahead of it as the pages already read hold
(`StandingIsAhead`), so that it is still to come. It is kept because a row that
appears or moves goes ahead of those that stand still and never back behind them
(`AheadGrows`: dates only go forward, ids are handed out upwards), but for an open
request that leaves the listing, which is the exception the property names. A row
the next page would have to bring is on it, for the places of a listing are filled
without a hole: a row with *n* or more ahead of it comes after one with exactly *n*
(`PlacesAreFilled`, from the smallest of the places that are not below *n*; no
induction over the rows is needed). A loop that stops at a row older than the bound
stops below every row of the window, for what comes after the row is older still;
and one that stops at the ceiling says so. The other half, that a quiet listing
hands no row over twice, needs that a row is at one place as long as nothing moves
(`StillIsExact`). *Events.* The states an object goes through are kept by
`TellingInv` (what was told and what was listed are of an object the platform has
held, dated in order), and the rest is what the two sets of mappers make of one
object: a lemma for requests, one for runs, one for deployments (`RequestsAgree`,
`RunsAgree`, `DeploymentsAgree`), each with the exceptions the property names.

The refinement maps an event to the stage of its life. `LifeInv` says that an event
has one job at most and is on record only after it was born; from it each step
of the clock, of a job and of a request is a step of `EventLife` or leaves the
stage where it is, one lemma for each (`ClockMoves`, `JobMoves`, `RequestMoves`).
`Life!Spec` adds progress, which TLC checks (`KeepsEventLife`).

`DeepRunIsWhole` needs that the run which replays holds what it has replayed so
far (`DeepRunHolds`) and that no direct caller replays (`DirectsCollect`): a sweep
cuts only below a depth it has read since the last write, which is `DepthsCurrent`.

`OldSessionsRevoked` gives every session of before a change of access the request that
is about to close it, and is inductive: a request that breaks takes its sessions with it
to `left`, unless another is about to close them too. `LastAdminOnlyByRace`
needs the check of a withdrawal to stay good until its write: `ChecksAreSound`
says that a withdrawal nobody overtook concerns an account that has been opened,
and that is not the only admin. The first half was not there at the start, and TLC
refuted the rest: an account removed and opened again as the only admin is
withdrawn on the strength of a check of its former self. The code's accounts have
ids that are not used twice, which the model had not said; `Accounts` now does.

`LimitIsPassedOnlyInFlight` counts the attempts in flight together with those that
were counted, and is inductive as it stands: an attempt that fails moves from one
to the other, and one that is let through finds its counters below their limits.

*The services.* `NothingOutlives` needs that a removal under way has taken the row
(`RemovalHolds`), which holds because no id is used twice. `WrongSecretOnlyByRace`
needs, of an update nobody overtook and which brings no secret, that the scheme it
is about to write is the one the source has (`MergeHolds`).

`SettledIsExact` needs, of a rescheduling nothing disturbed, that it carries the
stored pattern, that no other is at its job, and that what it still has to drop
covers every schedule of the job but its own (`TaskHolds`). `OneDefault` holds as
long as no write landed between another's reading and its write (`~raced`): what a
request read is then still so, and only a request that removed the default and has
yet to name its heir leaves a table with rows without one (`ReadingHolds`, `Owing`).
The rules' `OnlyByRace` properties rest on `Judged`: a request past its check, which
no landed write overtook, would pass it again. `TimelinePartsOnlyByRace` needs that a
reading nobody made obsolete compares with the row as it is (`ComparesWithRow`), and
`FiledWentOut` that a run holds only deployments whose success cannot be taken back
(`Walks`), and that the window of its listing has a latest earlier success.
`StoredLagsOnlyByRace` is inductive. `NothingHeldComesBack` needs, from the moment the
memory of a source is cleared, that a bucket nobody recorded since, and none was writing
then, has no reading in memory and is under no write (`ForgottenQuietly`): a flush that
comes to it finds nothing to take.

*The screens.* That a page shows what its address says is about four things that
follow one another: what is typed, what has settled, the address and what is
remembered of it. `ReportAddress` lists the ways in which they may differ while the
debounce runs (what was typed last is ahead of the address, or the address was
walked to and one of the two is what it spells), and no other way is left once it
has run. What is read beside the report has an invariant of its own (`ReportBeside`): a
load of the events is of what has settled and of the window picked, whatever the report
does (`EventsAreAnswered`), and a pick of another repository starts a load that puts the
notes on screen away, or fails and says so (`NotesAreAnswered`). `ListIsCurrent` and `ScreenIsTheSessions` need that, as long as nothing
crossed, a request in flight is the only one, and its answer what the page will ask
for (`CallIsCurrent`, `RequestIsCurrent`). In `JobWatch` answers of several ticks may
be on their way; `HeardInv` speaks of those that are listened to, which are about
what is followed now, because following anything makes all the ticks of before deaf.
`SavedIsUsable` needs that the boxes are the scope as long as they are shown
(`BoxesAreTheScope`), and that a scope made of a selection covers it, on whichever
side it is written (`SelectionIsCovered`). `SaveTouchesOnly` is about what a field
goes through on its way from a row to a form, to a request, and back to a row, for
every field of the eight dialogs: `DialogsAreWellMade` says what those have in
common, `SavedField` what becomes of a field, and the invariant that a field nobody
typed in shows the row's, unless another administrator saved meanwhile.
`QuietLoadIsWhole` is about lists that are read one after the other, sorted and cut
to a page. A sorted list puts each of its rows at the place its number of earlier
ones says, and there is one for every place (`InOrderPlaces`, from counting the rows
before each, with no induction over the list), so a page is the rows fewer than a
page of others come before (`PageOfOrder`), and rows of the same order as the jobs
they are about have as many before them as those (`SameNumberAhead`). `QueueInv`
says that no date is given out twice (`JobsAreDated`), so that no two jobs tie, and
that what a load nothing moved under has read is what the queue holds: a step that
moves a job under a load marks it moved, and the others leave the jobs alone. Above
`JOB_SCAN_DEPTH` jobs of a state the page shows a window of a window, about which
nothing is claimed but that no list is longer than its page, which holds whatever moved.
Every load counts, also one that leaves the lists as they were.

Several definitions had been written as a `CASE` with guards that overlap, which TLC
reads from the top and the logic leaves open. They say `IF … ELSE IF …` now, as the
code does.

**Only model-checked.** Liveness under fairness (`EveryWaitEnds`, `HeardIsApplied`,
the progress in `KeepsEventLife`), which the prover does not handle. The engines,
the folds and the pages of the `reports` run (`EnginesAreSound`,
`ReportsAreTheStores`, `GridIsHonest`): most of what they say is
what a recursive definition or a fold computes, over inputs of any length, and
that takes an induction over data.

## What is left out, and why

Within the modelled parts: titles, urls, logging and error texts; HTTP; the bytes
of a signature, a password or a token; the creation date by which a run is swept
(any row may be, which is weaker). Two overlapping reconciliations prune by
their own lists, so the older may drop rows the newer has just written; only one
pruning run at a time is checked. The deliveries are checked with one administrator, the
secret with two and proved for any number. A failed or late statement of a removal is a
`Break`, whatever threw; a second removal finds no row and is left out. `SameStamp`, `Reruns`
and `MergeDateInEvents` are settings of the environment under which the theorems
above lose their assumption; the runs use the settings the theorems name.

The summary snapshots, which a collection appends and nothing there reads, are
left out of `Collection`, and a day has events whenever the store reaches it. A
schedule is an input there, one job of a kind at a time; how the schedules
themselves are replaced is in `Settings`. Text is a member of a small set: a
pattern either matches or not, a template is a list of tokens, a commit subject
names a type, a request or neither.

Not modelled: the HTTP request of the version probe and its guards, the calls to
language models, GitHub, GitLab and issue trackers, encryption and digests,
module wiring, and the rendering, styling and translation of the front end. They
keep no state a model would say anything about, or are another program's.

## Plan

Every safety and action property of the runs is proved, but for the three of
`reports`, whose engines and folds an induction over data would have to follow; and
liveness stays with TLC. What is left to model is in the section above.
