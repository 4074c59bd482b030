-------------------------- MODULE PullRequestStore --------------------------
(***************************************************************************)
(* The pull-request table of the store and everyone who writes it at once: *)
(* the synchronisation runs (SyncService.syncPullRequests), the workers of *)
(* the ingest queue (IngestProcessor.process) and the retention sweep.     *)
(*                                                                         *)
(* Every `await` between a load and a write is a place where another       *)
(* writer may step in, so an upsert is the sequence                        *)
(*   load -> per row: updateMany, then create when it matched nothing      *)
(* and not one step.  The provider moves underneath: it stamps a change    *)
(* with its own clock and may or may not manage to deliver an event.       *)
(***************************************************************************)
EXTENDS Naturals, FiniteSets, Merge, Cadence

CONSTANTS
  PRs,               \* pull requests of the source
  Runs,              \* synchronisation runs that may overlap (schedule, manual)
  Workers,           \* concurrent jobs of the `ingest` queue
  Depth,             \* depth the source is ingested at
  Margin,            \* retention margin past the depth
  ATTEMPTS,          \* attempts of a queued job (common/job-options.ts)
  MergeDateInEvents, \* does a merge event carry merged_at
  SameStamp,         \* may the provider stamp two changes alike
  MaxTime,           \* bound: the last instant
  MaxQueue           \* bound: events waiting at once

ASSUME StoreAssumption ==
  /\ Runs \cap Workers = {}
  /\ Depth \in Nat /\ Margin \in Nat /\ ATTEMPTS \in Nat
  /\ MergeDateInEvents \in BOOLEAN /\ SameStamp \in BOOLEAN
  /\ MaxTime \in Nat /\ MaxQueue \in Nat

VARIABLES
  now,     \* the clock, shared by the provider and the application
  prov,    \* what the provider holds of each pull request
  queue,   \* events accepted and not yet taken by a worker
  rows,    \* StoredPullRequest
  cursor,  \* SyncState.cursor of the `pulls` resource
  proc,    \* what each run and each worker is doing
  quiet,   \* observation: runs that started after every row was last seen and
           \* since whose start nobody else wrote and the provider stood still
  calm     \* observation: runs since whose last load nobody else wrote a row

vars == <<now, prov, queue, rows, cursor, proc, quiet, calm>>

Procs == Runs \cup Workers

ProviderPR ==
  [state: {"none"} \cup PullRequestStates, updatedAt: Nat, mergedAt: Nat]

NoReading == [exists |-> FALSE]

Readings == {NoReading} \cup Reading

MergedReadings == {NoReading} \cup MergedReading

Job == [pr: PRs, reading: Reading, tries: Nat]

Steps == {"idle", "from", "list", "load", "write", "create", "close",
          "listMerged", "loadMerged"}

(***************************************************************************)
(* A process: `seenAt` is startedAt of a run and the job's start of a      *)
(* worker; `reads` and `merges` are what the listings reported, `todo` the *)
(* merged rows still to write, `stale` the readings with nothing to add,   *)
(* `creating` the row whose update matched nothing, `cut` what the merged  *)
(* listing warned that it left out.                                        *)
(***************************************************************************)
Process ==
  [pc: Steps, seenAt: Nat, full: BOOLEAN, since: Nat, unread: SUBSET PRs,
   reads: [PRs -> Readings], merges: [PRs -> MergedReadings],
   todo: [PRs -> PullRequestRow \cup {NoRow}], stale: SUBSET PRs,
   creating: SUBSET PRs, merging: BOOLEAN, cut: SUBSET PRs, tries: Nat]

Idle ==
  [pc |-> "idle", seenAt |-> Null, full |-> FALSE, since |-> Null,
   unread |-> {}, reads |-> [p \in PRs |-> NoReading],
   merges |-> [p \in PRs |-> NoReading],
   todo |-> [p \in PRs |-> NoRow], stale |-> {}, creating |-> {},
   merging |-> FALSE, cut |-> {}, tries |-> 0]

Init ==
  /\ now = 1
  /\ prov = [p \in PRs |-> [state |-> "none", updatedAt |-> Null, mergedAt |-> Null]]
  /\ queue = {}
  /\ rows = [p \in PRs |-> NoRow]
  /\ cursor = Null
  /\ proc = [x \in Procs |-> Idle]
  /\ quiet = {} /\ calm = {}

----------------------------------------------------------------------------
(* The provider (external).                                                *)

\* Mutant: the provider's word for the state is believed over the merge date.
PullRequestState_Undated(raw, mergedAt) ==
  IF raw = "closed" THEN "closed" ELSE "open"

\* The event mappers: a merge date settles the state, and a payload without
\* one falls through to open whatever the provider called it.
PullRequestState(raw, mergedAt) ==
  IF mergedAt # Null THEN "merged"
  ELSE IF raw = "closed" THEN "closed" ELSE "open"

EventReading(pr) ==
  LET mergedAt == IF MergeDateInEvents THEN pr.mergedAt ELSE Null
  IN  [exists |-> TRUE, state |-> PullRequestState(pr.state, mergedAt),
       updatedAt |-> pr.updatedAt, mergedAt |-> mergedAt]

\* Mutant: the provider's own word for open is passed through.
ListedReading_Raw(pr) ==
  [exists |-> TRUE, state |-> "opened", updatedAt |-> pr.updatedAt,
   mergedAt |-> pr.mergedAt]

\* What the open listing reports of a pull request that is open.
ListedReading(pr) ==
  [exists |-> TRUE, state |-> "open", updatedAt |-> pr.updatedAt,
   mergedAt |-> pr.mergedAt]

\* A provider change and the event it may deliver (or not: hooks off, lost).
Change(p, state, mergedAt) ==
  LET pr == [state |-> state, updatedAt |-> now, mergedAt |-> mergedAt]
  IN  /\ prov[p].updatedAt < now \/ SameStamp
      /\ prov' = [prov EXCEPT ![p] = pr]
      /\ \/ /\ Cardinality(queue) < MaxQueue
            /\ queue' = queue \cup
                 {[pr |-> p, reading |-> EventReading(pr), tries |-> 0]}
         \/ UNCHANGED queue
      /\ quiet' = {}
      /\ UNCHANGED <<now, rows, cursor, proc, calm>>

OpenOrEdit(p) ==
  /\ prov[p].state \in {"none", "open"}
  /\ Change(p, "open", Null)

Close(p) ==
  /\ prov[p].state = "open"
  /\ Change(p, "closed", Null)

Reopen(p) ==
  /\ prov[p].state = "closed"
  /\ Change(p, "open", Null)

MergeIt(p) ==
  /\ prov[p].state = "open"
  /\ Change(p, "merged", now)

\* A label or a comment on a merged pull request: updated_at moves again.
EditMerged(p) ==
  /\ prov[p].state = "merged"
  /\ Change(p, "merged", prov[p].mergedAt)

Tick ==
  /\ now < MaxTime
  /\ now' = now + 1
  /\ UNCHANGED <<prov, queue, rows, cursor, proc, quiet, calm>>

----------------------------------------------------------------------------
(* Upserting: StoreService.upsertPullRequests / upsertMergedPullRequests.  *)

\* A write of x is seen by every run but x itself.
Wrote(x) == quiet' = quiet \cap {x} /\ calm' = calm \cap {x}

\* loadPullRequests, then the merge of every reading against what it held.
Load(x) ==
  LET reads == proc[x].reads
      seenAt == proc[x].seenAt
      Fresh(p) == reads[p].exists /\ ~IsStale(rows[p], reads[p])
  IN  /\ proc[x].pc = "load"
      /\ proc' = [proc EXCEPT
           ![x].pc = "write",
           ![x].todo = [p \in PRs |->
              IF Fresh(p) THEN MergeOpenPullRequest(rows[p], reads[p], seenAt)
                          ELSE NoRow],
           ![x].stale = {p \in PRs : reads[p].exists /\ ~Fresh(p)}]
      /\ calm' = calm \cup ({x} \cap Runs)
      /\ UNCHANGED <<now, prov, queue, rows, cursor, quiet>>

LoadMerged(x) ==
  LET merges == proc[x].merges
      seenAt == proc[x].seenAt
  IN  /\ proc[x].pc = "loadMerged"
      /\ proc' = [proc EXCEPT
           ![x].pc = "write",
           ![x].merging = TRUE,
           ![x].todo = [p \in PRs |->
              IF merges[p].exists
                THEN MergeMergedPullRequest(rows[p], merges[p], seenAt)
                ELSE NoRow],
           ![x].merges = Idle.merges]
      /\ UNCHANGED <<now, prov, queue, rows, cursor, quiet, calm>>

\* Mutant: the update is by key alone.
UpdateMatches_ByKey(stored, row) == stored.exists

\* The `where` of writePullRequest's updateMany.
UpdateMatches(stored, row) ==
  stored.exists /\ stored.updatedAt <= row.updatedAt

\* writePullRequest: the guarded update; a miss goes on to the create.
Update(x, p) ==
  LET row == proc[x].todo[p]
  IN  /\ proc[x].pc = "write"
      /\ row.exists
      /\ IF UpdateMatches(rows[p], row)
           THEN /\ rows' = [rows EXCEPT ![p] = row]
                /\ proc' = [proc EXCEPT ![x].todo[p] = NoRow]
                /\ Wrote(x)
           ELSE /\ proc' = [proc EXCEPT ![x].pc = "create", ![x].creating = {p}]
                /\ UNCHANGED <<rows, quiet, calm>>
      /\ UNCHANGED <<now, prov, queue, cursor>>

\* createOrLose: the unique index refuses the create when the row exists.
Create(x, p) ==
  /\ proc[x].pc = "create"
  /\ p \in proc[x].creating
  /\ IF rows[p].exists
       THEN UNCHANGED <<rows, quiet, calm>>
       ELSE rows' = [rows EXCEPT ![p] = proc[x].todo[p]] /\ Wrote(x)
  /\ proc' = [proc EXCEPT ![x].pc = "write", ![x].creating = {},
                          ![x].todo[p] = NoRow]
  /\ UNCHANGED <<now, prov, queue, cursor>>

Written(x) == proc[x].pc = "write" /\ \A p \in PRs : ~proc[x].todo[p].exists

\* Mutant: a reading with nothing to add is dropped altogether.
TouchStale_Dropped(x) == rows

\* The readings with nothing to add still mark their rows as seen.
TouchStale(x) ==
  [p \in PRs |-> IF p \in proc[x].stale /\ rows[p].exists
                   THEN [rows[p] EXCEPT !.seenAt = proc[x].seenAt]
                   ELSE rows[p]]

----------------------------------------------------------------------------
(* SyncService.syncPullRequests.                                           *)

Start(r) ==
  /\ proc[r].pc = "idle"
  /\ \E full \in BOOLEAN :
       proc' = [proc EXCEPT ![r] =
                 [Idle EXCEPT !.pc = "from", !.seenAt = now, !.full = full]]
  /\ quiet' = IF \E p \in PRs : rows[p].exists /\ rows[p].seenAt >= now
                THEN quiet ELSE quiet \cup {r}
  /\ UNCHANGED <<now, prov, queue, rows, cursor, calm>>

MergedFrom(r) ==
  /\ proc[r].pc = "from"
  /\ proc' = [proc EXCEPT
       ![r].pc = "list", ![r].unread = PRs,
       ![r].since = MergedSince(cursor, proc[r].seenAt, Depth, proc[r].full),
       ![r].full = FALSE]
  /\ UNCHANGED <<now, prov, queue, rows, cursor, quiet, calm>>

\* One page of the open listing; pull requests are read at different moments.
ListPullRequest(r, p) ==
  /\ proc[r].pc = "list"
  /\ p \in proc[r].unread
  /\ proc' = [proc EXCEPT
       ![r].unread = @ \ {p},
       ![r].pc = IF proc[r].unread = {p} THEN "load" ELSE "list",
       ![r].reads[p] = IF prov[p].state = "open"
                         THEN ListedReading(prov[p]) ELSE NoReading]
  /\ UNCHANGED <<now, prov, queue, rows, cursor, quiet, calm>>

EndOpenUpsert(r) ==
  /\ r \in Runs
  /\ Written(r) /\ ~proc[r].merging
  /\ rows' = TouchStale(r)
  /\ proc' = [proc EXCEPT ![r].pc = "close"]
  /\ IF rows' # rows THEN Wrote(r) ELSE UNCHANGED <<quiet, calm>>
  /\ UNCHANGED <<now, prov, queue, cursor>>

\* Mutant: the reconciliation forgets which states are on the board.
IsStaleOnBoard_AnyState(row, before) == row.exists /\ row.seenAt < before

\* On the board and not seen since the run began.
IsStaleOnBoard(row, before) ==
  row.exists /\ row.state = "open" /\ row.seenAt < before

CloseStalePullRequests(r) ==
  /\ proc[r].pc = "close"
  /\ rows' = [p \in PRs |->
       IF IsStaleOnBoard(rows[p], proc[r].seenAt)
         THEN [rows[p] EXCEPT !.state = "closed", !.seenAt = proc[r].seenAt]
         ELSE rows[p]]
  /\ proc' = [proc EXCEPT ![r].pc = "listMerged", ![r].stale = {},
                          ![r].reads = Idle.reads]
  /\ IF rows' # rows THEN Wrote(r) ELSE UNCHANGED <<quiet, calm>>
  /\ UNCHANGED <<now, prov, queue, cursor>>

MergedSinceBound(r) ==
  {p \in PRs : prov[p].state = "merged" /\ prov[p].mergedAt >= proc[r].since}

\* Every merge since the bound, but for what lies past the page ceiling: the
\* listing is ordered by the last update, so any of them may, and a list cut short
\* is a warning in the log.  The segments may be given up under the reserve.
ListMergedPullRequests(r) ==
  /\ proc[r].pc = "listMerged"
  /\ \E enriched \in SUBSET PRs, cut \in SUBSET MergedSinceBound(r) :
       proc' = [proc EXCEPT
         ![r].pc = "loadMerged",
         ![r].cut = cut,
         ![r].merges = [p \in PRs |->
            IF p \in MergedSinceBound(r) \ cut
              THEN [exists |-> TRUE, mergedAt |-> prov[p].mergedAt,
                    segments |-> p \in enriched]
              ELSE NoReading]]
  /\ UNCHANGED <<now, prov, queue, rows, cursor, quiet, calm>>

\* The step succeeded: mark advances the cursor to the run's start.
Finish(r) ==
  /\ r \in Runs
  /\ Written(r) /\ proc[r].merging
  /\ cursor' = proc[r].seenAt
  /\ proc' = [proc EXCEPT ![r] = Idle]
  /\ quiet' = quiet \ {r} /\ calm' = calm \ {r}
  /\ UNCHANGED <<now, prov, queue, rows>>

\* The step threw, or the process died: the cursor is not advanced.
FailRun(r) ==
  /\ proc[r].pc # "idle"
  /\ proc' = [proc EXCEPT ![r] = Idle]
  /\ quiet' = quiet \ {r} /\ calm' = calm \ {r}
  /\ UNCHANGED <<now, prov, queue, rows, cursor>>

----------------------------------------------------------------------------
(* IngestProcessor.process on a pull-request event.                        *)

Take(w, job) ==
  /\ proc[w].pc = "idle"
  /\ queue' = queue \ {job}
  /\ proc' = [proc EXCEPT ![w] =
       [Idle EXCEPT !.pc = "load", !.seenAt = now, !.tries = job.tries + 1,
          !.reads = [Idle.reads EXCEPT ![job.pr] = job.reading]]]
  /\ UNCHANGED <<now, prov, rows, cursor, quiet, calm>>

EndJob(w) ==
  /\ w \in Workers
  /\ Written(w)
  /\ rows' = TouchStale(w)
  /\ proc' = [proc EXCEPT ![w] = Idle]
  /\ IF rows' # rows THEN Wrote(w) ELSE UNCHANGED <<quiet, calm>>
  /\ UNCHANGED <<now, prov, queue, cursor>>

\* A job that threw or stalled: back on the queue until its attempts are spent.
FailJob(w) ==
  /\ proc[w].pc # "idle"
  /\ queue' =
       IF proc[w].tries < ATTEMPTS
         THEN queue \cup
           {[pr |-> p, reading |-> proc[w].reads[p], tries |-> proc[w].tries] :
              p \in {q \in PRs : proc[w].reads[q].exists}}
         ELSE queue
  /\ proc' = [proc EXCEPT ![w] = Idle]
  /\ UNCHANGED <<now, prov, rows, cursor, quiet, calm>>

----------------------------------------------------------------------------
(* RetentionService.prune on this table: open rows are exempt.             *)

Expired(row) ==
  /\ row.exists
  /\ row.state # "open"
  /\ row.updatedAt < Before(now, Depth + Margin)

Prune ==
  /\ \E p \in PRs : Expired(rows[p])
  /\ rows' = [p \in PRs |-> IF Expired(rows[p]) THEN NoRow ELSE rows[p]]
  /\ quiet' = {} /\ calm' = {}
  /\ UNCHANGED <<now, prov, queue, cursor, proc>>

----------------------------------------------------------------------------
ProviderStep ==
  \E p \in PRs : OpenOrEdit(p) \/ Close(p) \/ Reopen(p) \/ MergeIt(p) \/ EditMerged(p)

UpsertStep(x) ==
  \/ Load(x)
  \/ \E p \in PRs : Update(x, p) \/ Create(x, p)

RunStep(r) ==
  \/ Start(r) \/ MergedFrom(r)
  \/ \E p \in PRs : ListPullRequest(r, p)
  \/ UpsertStep(r)
  \/ EndOpenUpsert(r)
  \/ CloseStalePullRequests(r)
  \/ ListMergedPullRequests(r)
  \/ LoadMerged(r)
  \/ Finish(r)
  \/ FailRun(r)

WorkerStep(w) ==
  \/ \E job \in queue : Take(w, job)
  \/ UpsertStep(w)
  \/ EndJob(w)
  \/ FailJob(w)

Next ==
  \/ ProviderStep
  \/ Tick
  \/ Prune
  \/ \E r \in Runs : RunStep(r)
  \/ \E w \in Workers : WorkerStep(w)

Spec == Init /\ [][Next]_vars

----------------------------------------------------------------------------
(* Properties.                                                             *)

\* The types of the table, the queue and the processes.
TypeOK ==
  /\ now \in Nat /\ cursor \in Nat
  /\ prov \in [PRs -> ProviderPR]
  /\ rows \in [PRs -> PullRequestRow \cup {NoRow}]
  /\ queue \subseteq Job
  /\ quiet \subseteq Runs /\ calm \subseteq Runs
  /\ proc \in [Procs -> Process]

DateNotLowered(p) ==
  rows[p].exists /\ rows'[p].exists => rows[p].updatedAt <= rows'[p].updatedAt

\* Two writers may touch a row at the same moment, but the date of what is
\* stored never goes back: the guard in the `where` of writePullRequest.
UpdatedAtNeverBack == [][\A p \in PRs : DateNotLowered(p)]_vars

StaysMerged(p) ==
  rows[p].exists /\ rows[p].state = "merged" /\ rows'[p].exists =>
    rows'[p].state = "merged" /\ rows'[p].mergedAt = rows[p].mergedAt

\* A merge already recorded is a fact no later write revokes: whatever order
\* listings, events and retries land in, the row stays merged until swept.
MergeIsFinal == [][\A p \in PRs : StaysMerged(p)]_vars

\* The stored state and the stored merge date never contradict each other, and
\* the date is the provider's own (settledState, mergedAt ?? stored.mergedAt).
DatedMeansMerged ==
  \A p \in PRs : rows[p].exists =>
    /\ rows[p].state = "merged" <=> rows[p].mergedAt # Null
    /\ rows[p].mergedAt # Null => rows[p].mergedAt = prov[p].mergedAt

\* The board never shows open a pull request on the strength of a reading made
\* after its merge: what is stale on the board is only what nobody re-read.
BoardIsReal ==
  \A p \in PRs :
    rows[p].exists /\ rows[p].state = "open" /\ prov[p].mergedAt # Null =>
      rows[p].updatedAt < prov[p].mergedAt

\* What a copy says of a pull request the provider holds as pr was true at the
\* copy's date, and knows of the merge if it postdates it.  Nobody has a copy of
\* what the provider has never held.
HonestTo(pr, r) == r.exists =>
  /\ pr.state # "none" /\ r.updatedAt <= pr.updatedAt
  /\ r.state = "merged" <=> r.mergedAt # Null
  /\ r.mergedAt # Null => r.mergedAt = pr.mergedAt /\ r.mergedAt <= r.updatedAt
  /\ pr.mergedAt # Null /\ pr.mergedAt <= r.updatedAt => r.state = "merged"

MergeOf(pr, m) == m.exists => pr.mergedAt # Null /\ m.mergedAt = pr.mergedAt

CarriesHonest(provider, q) ==
  \A p \in PRs : /\ HonestTo(provider[p], q.reads[p])
                 /\ HonestTo(provider[p], q.todo[p])
                 /\ MergeOf(provider[p], q.merges[p])

SoundPR(pr) ==
  /\ pr.mergedAt <= pr.updatedAt /\ pr.updatedAt <= now
  /\ pr.state = "merged" <=> pr.mergedAt # Null

\* The inductive invariant behind MergeIsFinal: every copy of a pull request in
\* flight between the provider, the queue, the writers and the table is honest.
EveryCopyHonest ==
  /\ \A p \in PRs : SoundPR(prov[p]) /\ HonestTo(prov[p], rows[p])
  /\ \A job \in queue : HonestTo(prov[job.pr], job.reading)
  /\ \A x \in Procs : CarriesHonest(prov, proc[x])

\* The board as the provider has it, and every merge since `since` but the ones
\* in `cut`, which are off the board all the same.
Agrees(p, since, cut) ==
  CASE prov'[p].state = "none"   -> ~rows'[p].exists
    [] prov'[p].state = "open"   -> rows'[p].exists /\ rows'[p].state = "open"
    [] prov'[p].state = "closed" -> rows'[p].exists => rows'[p].state = "closed"
    [] OTHER -> /\ rows'[p].exists => rows'[p].state # "open"
                /\ prov'[p].mergedAt >= since /\ p \notin cut =>
                     rows'[p].exists /\ rows'[p].state = "merged"

\* A run that completes while the provider stands still and nobody else writes
\* leaves the store agreeing with the provider, whatever state earlier races,
\* failed runs, lost or late events had left it in.  A merge may stay missing only
\* past the page ceiling, of which the listing warned.
ConvergesWhenQuiet ==
  [][\A r \in Runs : r \in quiet /\ Finish(r) =>
        \A p \in PRs : Agrees(p, proc[r].since, proc[r].cut)]_vars

ListedThenClosed(r, p) ==
  /\ proc[r].pc = "close" /\ proc'[r].pc = "listMerged"
  /\ proc[r].reads[p].exists
  /\ rows[p].state = "open" /\ rows'[p].state = "closed"

\* A run never closes a pull request it has itself listed as open, as long as
\* nobody wrote the row between its load and its reconciliation: a reading
\* with nothing to add still marks the row as seen.
ListedIsSpared ==
  [][\A r \in calm, p \in PRs :
        rows[p].exists => ~ListedThenClosed(r, p)]_vars

\* A lead-time segment once stored is never blanked by the feed that does not
\* report it (mergeOpenPullRequest keeps the stored one).
SegmentsAreKept ==
  [][\A p \in PRs : rows[p].exists /\ rows[p].segments /\ rows'[p].exists =>
        rows'[p].segments]_vars
============================================================================
