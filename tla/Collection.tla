----------------------------- MODULE Collection -----------------------------
(***************************************************************************)
(* The collection of one stored source: the requests that queue a deep     *)
(* re-read or a replay, the BullMQ jobs they meet, the worker that runs    *)
(* them one at a time, the collections a caller runs on the spot, and the  *)
(* sweep.                                                                  *)
(*                                                                         *)
(* Days are counted back from today, day 0, which lasts.  The store        *)
(* reaches `deep` days back; `history` are the days that have a DORA       *)
(* reading.  Something was deployed on every day, so a window over the     *)
(* store is empty only where the store does not reach.  The summary        *)
(* snapshots, which are appended and read by nothing here, are left out.   *)
(***************************************************************************)
EXTENDS Naturals, TLC

CONSTANTS
  Admins,    \* callers of the refresh, rebuild and jobs routes
  Direct,    \* callers of the collect route, which runs in their request
  Depths,    \* depths a source may be given, in days
  Window,    \* doraWindowDays
  Margin,    \* retentionMarginDays
  ATTEMPTS,  \* attempts of JOB_RETRIES
  MaxDays,   \* bound: the oldest day of the history
  MaxAsks,   \* bound: requests of all these callers
  MaxFails   \* bound: failures, in all

Null == 0

ASSUME CollectionAssumption ==
  /\ MaxDays \in Nat /\ MaxAsks \in Nat /\ MaxFails \in Nat /\ Margin \in Nat
  /\ Window \in 1 .. MaxDays
  /\ Depths \subseteq 1 .. MaxDays
  /\ ATTEMPTS \in Nat \ {0}
  /\ "worker" \notin Direct

VARIABLES
  depth,     \* historyDays of the source, Null when it states none
  deep,      \* how far back the store reaches
  history,   \* days with a DORA reading
  job,       \* the jobs of the collection queue, by kind
  run,       \* what the worker and each direct caller are executing
  req,       \* the administrators' requests
  asks, fails,
  stamp,     \* observation: numbers the re-reads asked for and the depths written
  answered,  \* observation: the last one a deep run, or its failure, answered
  held,      \* observation: the last one whose depth a whole listing has read
  lost       \* observation: a queued re-read was removed and not put back

data == <<depth, deep, history>>
bounds == <<asks, fails>>
seen == <<stamp, answered, held, lost>>
vars == <<data, job, run, req, bounds, seen>>

Scheduled == {"collect", "prune"}
Kinds == {"refresh", "rebuild"} \cup Scheduled
Procs == Direct \cup {"worker"}

JobStates == {"none", "waiting", "active", "completed", "failed"}

\* `days` is the payload of a replay, `warned` whether the result carries
\* warnings.  A job waiting out its backoff is waiting.
Job == [state: JobStates, tries: 0 .. ATTEMPTS, stalled: BOOLEAN,
        days: 0 .. MaxDays, warned: BOOLEAN]

NewJob(state, days) ==
  [state |-> state, tries |-> 0, stalled |-> FALSE, days |-> days, warned |-> FALSE]

NoJob == NewJob("none", Null)
Waiting(days) == NewJob("waiting", days)

\* JOB_DEFAULTS for the fan-out; JOB_ONESHOT, or no attempts, for the others.
Attempts(k) == IF k = "collect" THEN ATTEMPTS ELSE 1

RunPcs == {"idle", "sync", "list", "spec", "gather", "replace", "count",
           "capture", "rest", "sweep", "delete"}

\* `upTo` is the depth read, at the time of `stamp`; `days` what a replay is to
\* cover and `found` how deep it found the store; `listed` is FALSE once a
\* listing was refused, `whole` once a replay was.
Run == [pc: RunPcs, kind: Kinds, full: BOOLEAN, upTo: 0 .. MaxDays, stamp: Nat,
        days: 0 .. MaxDays, found: Nat, listed: BOOLEAN, whole: BOOLEAN,
        warned: BOOLEAN]

At(pc, kind, days) ==
  [pc |-> pc, kind |-> kind, full |-> FALSE, upTo |-> Null, stamp |-> 0,
   days |-> days, found |-> 0, listed |-> TRUE, whole |-> TRUE, warned |-> FALSE]

Idle == At("idle", "collect", Null)

ReqPcs == {"idle", "spec", "depth", "get", "state", "remove", "add", "accepted"}

AtRest == {"idle", "accepted"}

Req == [pc: ReqPcs, kind: {"refresh", "rebuild"}, days: 0 .. MaxDays, stamp: Nat]

NoReq == [pc |-> "idle", kind |-> "refresh", days |-> Null, stamp |-> 0]

\* What a source that states no depth follows.
DepthDays(historyDays) == IF historyDays = Null THEN Window ELSE historyDays

\* A source that was ingested today for the first time; an earlier attempt at
\* a deep re-read may have failed.
Init ==
  /\ depth \in Depths \cup {Null}
  /\ deep = DepthDays(depth)
  /\ history = {0}
  /\ \E past \in {"none", "failed"} :
       job = [[k \in Kinds |-> NoJob] EXCEPT !["refresh"].state = past]
  /\ run = [x \in Procs |-> Idle]
  /\ req = [a \in Admins |-> NoReq]
  /\ asks = 0 /\ fails = 0
  /\ stamp = 1 /\ answered = 1 /\ held = 0 /\ lost = FALSE

----------------------------------------------------------------------------
(* The requests: queueRefresh and queueRebuild.                            *)

Request(a, r) == req' = [req EXCEPT ![a] = r]

Moved(a, pc) == Request(a, [req[a] EXCEPT !.pc = pc])

\* The caller is told: it is refused, or something threw.
Told(a) == Request(a, NoReq)

Ask(a) ==
  /\ req[a].pc \in AtRest /\ asks < MaxAsks
  /\ asks' = asks + 1
  /\ \E kind \in {"refresh", "rebuild"}, days \in Depths \cup {Null} :
       Request(a, [pc |-> "spec", kind |-> kind, days |-> days, stamp |-> 0])
  /\ UNCHANGED <<data, job, run, fails, seen>>

\* The source exists.  A re-read that states a depth goes on to write it.
ReadSpec(a) ==
  /\ req[a].pc = "spec"
  /\ IF req[a].kind = "rebuild"
       THEN Moved(a, "get") /\ UNCHANGED stamp
       ELSE IF req[a].days # Null
       THEN Moved(a, "depth") /\ UNCHANGED stamp
       ELSE /\ stamp' = stamp + 1
            /\ Request(a, [req[a] EXCEPT !.pc = "get", !.stamp = stamp + 1])
  /\ UNCHANGED <<data, job, run, bounds, answered, held, lost>>

SetHistoryDays(a) ==
  /\ req[a].pc = "depth"
  /\ depth' = req[a].days
  /\ stamp' = stamp + 1
  /\ Request(a, [req[a] EXCEPT !.pc = "get", !.stamp = stamp + 1, !.days = Null])
  /\ UNCHANGED <<deep, history, job, run, bounds, answered, held, lost>>

GetJob(a) ==
  /\ req[a].pc = "get"
  /\ Moved(a, IF job[req[a].kind].state = "none" THEN "add" ELSE "state")
  /\ UNCHANGED <<data, job, run, bounds, seen>>

\* "none" is what BullMQ calls unknown: the job is gone since it was fetched.
Settled(state) == state \in {"completed", "failed", "none"}

GetState(a) ==
  /\ req[a].pc = "state"
  /\ IF Settled(job[req[a].kind].state) THEN Moved(a, "remove") ELSE Told(a)
  /\ UNCHANGED <<data, job, run, bounds, seen>>

\* By id: whatever holds the id by now.  A job being run is locked.
Remove(a) ==
  /\ req[a].pc = "remove"
  /\ IF job[req[a].kind].state = "active"
       THEN Told(a) /\ UNCHANGED job
       ELSE Moved(a, "add") /\ job' = [job EXCEPT ![req[a].kind] = NoJob]
  /\ UNCHANGED <<data, run, bounds, seen>>

\* Mutant: the depth is written once the job is queued.
Enqueue_ThenDepth(a) ==
  /\ req[a].pc = "add"
  /\ IF job[req[a].kind].state = "none"
       THEN job' = [job EXCEPT ![req[a].kind] = Waiting(req[a].days)]
       ELSE UNCHANGED job
  /\ stamp' = stamp + 1
  /\ Request(a, [req[a] EXCEPT !.pc = "accepted", !.days = Null, !.stamp = stamp + 1])
  /\ UNCHANGED <<data, run, bounds, answered, held, lost>>

\* queue.add leaves a job that already holds the id as it is.
Enqueue(a) ==
  /\ req[a].pc = "add"
  /\ Request(a, [req[a] EXCEPT !.pc = "accepted", !.days = Null])
  /\ IF job[req[a].kind].state = "none"
       THEN job' = [job EXCEPT ![req[a].kind] = Waiting(req[a].days)]
       ELSE UNCHANGED job
  /\ UNCHANGED <<data, run, bounds, seen>>

\* Any of these awaits may throw, and the instance may die in any of them.
Break(a) ==
  /\ req[a].pc \notin AtRest /\ fails < MaxFails
  /\ fails' = fails + 1
  /\ Told(a)
  /\ lost' = (lost \/ (req[a].kind = "refresh" /\ req[a].pc = "add"))
  /\ UNCHANGED <<data, job, run, asks, stamp, answered, held>>

\* The depth is also a field of the source's own form.
UpdateSource ==
  /\ asks < MaxAsks
  /\ asks' = asks + 1
  /\ depth' \in Depths \cup {Null}
  /\ stamp' = stamp + 1
  /\ UNCHANGED <<deep, history, job, run, req, fails, answered, held, lost>>

----------------------------------------------------------------------------
(* The background-jobs page, and the queue itself.                         *)

\* BullMQ moves a job back only if it is still failed.
Retry(k) ==
  /\ job[k].state = "failed" /\ asks < MaxAsks
  /\ asks' = asks + 1
  /\ job' = [job EXCEPT ![k].state = "waiting"]
  /\ UNCHANGED <<data, run, req, fails, seen>>

Discard(k) ==
  /\ job[k].state \notin {"none", "active"} /\ asks < MaxAsks
  /\ asks' = asks + 1
  /\ job' = [job EXCEPT ![k] = NoJob]
  /\ lost' = (lost \/ (k = "refresh" /\ job[k].state = "waiting"))
  /\ UNCHANGED <<data, run, req, fails, stamp, answered, held>>

\* JOB_HISTORY: only so many finished jobs are kept.
Evict(k) ==
  /\ job[k].state \in {"completed", "failed"}
  /\ job' = [job EXCEPT ![k] = NoJob]
  /\ UNCHANGED <<data, run, req, bounds, seen>>

\* The schedules: collect-all, which the worker itself runs, and prune-store.
\* Bound: one scheduled job of a kind at a time.
Schedule(k) ==
  /\ k \in Scheduled /\ Settled(job[k].state)
  /\ run["worker"].pc = "idle"
  /\ job' = [job EXCEPT ![k] = Waiting(Null)]
  /\ UNCHANGED <<data, run, req, bounds, seen>>

----------------------------------------------------------------------------
(* CollectionProcessor.process and CollectorService.collect.               *)

Becomes(x, r) == run' = [run EXCEPT ![x] = r]

FirstStep(k) ==
  CASE k = "rebuild" -> "gather" [] k = "prune" -> "sweep" [] OTHER -> "sync"

Take(k) ==
  /\ run["worker"].pc = "idle" /\ job[k].state = "waiting"
  /\ job' = [job EXCEPT ![k].state = "active"]
  /\ Becomes("worker", At(FirstStep(k), k, job[k].days))
  /\ UNCHANGED <<data, req, bounds, seen>>

\* POST sources/:id/collect.
Collect(x) ==
  /\ x \in Direct /\ run[x].pc = "idle" /\ asks < MaxAsks
  /\ asks' = asks + 1
  /\ Becomes(x, At("sync", "collect", Null))
  /\ UNCHANGED <<data, job, req, fails, seen>>

Forced(x) == run[x].kind = "refresh"

AfterSync(x) == IF Forced(x) THEN "spec" ELSE "capture"

\* syncIfStored, up to the depth it will read at.
SyncFrom(x) ==
  /\ run[x].pc = "sync"
  /\ \E due \in BOOLEAN :
       Becomes(x, [run[x] EXCEPT !.pc = "list", !.full = Forced(x) \/ due,
                                 !.upTo = DepthDays(depth), !.stamp = stamp])
  /\ answered' = IF Forced(x) THEN stamp ELSE answered
  /\ UNCHANGED <<data, job, req, bounds, stamp, held, lost>>

Listed(x) ==
  /\ run[x].pc = "list"
  /\ Becomes(x, [run[x] EXCEPT !.pc = AfterSync(x), !.full = FALSE, !.upTo = Null])
  /\ IF run[x].full
       THEN /\ deep' = IF deep > run[x].upTo THEN deep ELSE run[x].upTo
            /\ held' = run[x].stamp
       ELSE UNCHANGED <<deep, held>>
  /\ UNCHANGED <<depth, history, job, req, bounds, stamp, answered, lost>>

\* A listing was refused, or the one of the repositories and with it all: sync
\* records it and returns.
Refused(x) ==
  /\ run[x].pc = "list" /\ fails < MaxFails
  /\ fails' = fails + 1
  /\ Becomes(x, [run[x] EXCEPT !.pc = AfterSync(x), !.listed = FALSE])
  /\ UNCHANGED <<data, job, req, asks, seen>>

\* The synchronisation itself threw: caught, with a warning.
SyncThrew(x) ==
  /\ run[x].pc \in {"sync", "list"} /\ fails < MaxFails
  /\ fails' = fails + 1
  /\ Becomes(x, [run[x] EXCEPT !.pc = AfterSync(x), !.listed = FALSE,
                            !.warned = TRUE])
  /\ answered' = IF Forced(x) THEN stamp ELSE answered
  /\ UNCHANGED <<data, job, req, asks, stamp, held, lost>>

\* The depth again, for the replay: the one the source has by now.
ReplayDepth(x) ==
  /\ run[x].pc = "spec"
  /\ Becomes(x, [run[x] EXCEPT !.pc = "gather", !.days = depth])
  /\ UNCHANGED <<data, job, req, bounds, seen>>

\* Mutants: a null passed on replays a single day; the range starts a day early.
ReplayDays_Null(days) == IF days = Null THEN 1 ELSE days
ReplayDays_DayEarly(days) == (IF days = Null THEN Window ELSE days) + 1

ReplayDays(days) == IF days = Null THEN Window ELSE days

\* DoraService.rebuild: one reading of the store.  A listing it is refused
\* there counts as empty.
Gather(x) ==
  /\ run[x].pc = "gather"
  /\ \/ /\ Becomes(x, [run[x] EXCEPT !.pc = "replace", !.found = deep,
                                  !.days = ReplayDays(run[x].days)])
        /\ UNCHANGED fails
     \/ /\ fails < MaxFails /\ fails' = fails + 1
        /\ Becomes(x, [run[x] EXCEPT !.pc = "replace", !.found = 0,
                                  !.days = ReplayDays(run[x].days), !.whole = FALSE])
  /\ UNCHANGED <<data, job, req, asks, seen>>

\* The range up to yesterday is deleted; a day without events writes no row.
Replayed(days, found) ==
  (history \ (1 .. days)) \cup {d \in 1 .. days : d <= found}

\* The end of a run: the worker's job completes.  Nothing refers to a scheduled
\* job once it has.
Done(x, warned) ==
  /\ Becomes(x, Idle)
  /\ job' = IF x # "worker" THEN job
            ELSE [job EXCEPT ![run[x].kind] =
                    IF run[x].kind \in Scheduled THEN NoJob
                    ELSE [@ EXCEPT !.state = "completed", !.warned = warned]]

Replace(x) ==
  /\ run[x].pc = "replace"
  /\ history' = Replayed(run[x].days, run[x].found)
  /\ Becomes(x, [run[x] EXCEPT !.pc = "count"])
  /\ UNCHANGED <<depth, deep, job, req, bounds, seen>>

\* Then the readings kept before the range are counted, for the result.
Count(x) ==
  /\ run[x].pc = "count"
  /\ IF run[x].kind = "rebuild"
       THEN Done(x, FALSE)
       ELSE Becomes(x, [run[x] EXCEPT !.pc = "capture"]) /\ UNCHANGED job
  /\ UNCHANGED <<data, req, bounds, seen>>

\* The replay of a deep re-read threw: caught, with a warning.
RebuildThrew(x) ==
  /\ run[x].pc \in {"gather", "replace", "count"} /\ Forced(x) /\ fails < MaxFails
  /\ fails' = fails + 1
  /\ Becomes(x, [run[x] EXCEPT !.pc = "capture", !.whole = FALSE,
                            !.warned = TRUE])
  /\ UNCHANGED <<data, job, req, asks, seen>>

\* The board is read and its summary appended.
Capture(x) ==
  /\ run[x].pc = "capture"
  /\ Becomes(x, [run[x] EXCEPT !.pc = "rest"])
  /\ UNCHANGED <<data, job, req, bounds, seen>>

\* The day's DORA reading, the versions and the changelogs, each caught.
Rest(x) ==
  /\ run[x].pc = "rest"
  /\ \E dora, others \in BOOLEAN :
       /\ IF dora /\ others THEN UNCHANGED fails
          ELSE fails < MaxFails /\ fails' = fails + 1
       /\ history' = IF dora THEN history \cup {0} ELSE history
       /\ Done(x, run[x].warned \/ ~dora \/ ~others)
  /\ UNCHANGED <<depth, deep, req, asks, seen>>

\* RetentionService.prune: the depths first, then one transaction.
SweepFrom(x) ==
  /\ run[x].pc = "sweep"
  /\ Becomes(x, [run[x] EXCEPT !.pc = "delete", !.upTo = DepthDays(depth),
                            !.stamp = stamp])
  /\ UNCHANGED <<data, job, req, bounds, seen>>

\* Mutant: every source is swept at the reporting window.
Kept_Window(days) == Window + Margin

Kept(days) == days + Margin

Delete(x) ==
  /\ run[x].pc = "delete"
  /\ LET kept == Kept(run[x].upTo) IN deep' = IF deep > kept THEN kept ELSE deep
  /\ held' = IF run[x].stamp = stamp THEN held ELSE 0
  /\ Done(x, FALSE)
  /\ UNCHANGED <<depth, history, req, bounds, stamp, answered, lost>>

\* What nothing catches: the job is tried again, or fails.
Fail(x) ==
  /\ \/ run[x].pc \in {"spec", "capture", "sweep", "delete"}
     \/ run[x].kind = "rebuild" /\ run[x].pc \in {"gather", "replace", "count"}
  /\ fails < MaxFails
  /\ fails' = fails + 1
  /\ Becomes(x, Idle)
  /\ job' = IF x # "worker" THEN job
            ELSE LET k == run[x].kind
                 IN  IF job[k].tries + 1 < Attempts(k)
                       THEN [job EXCEPT ![k] = [job[k] EXCEPT !.state = "waiting",
                                                         !.tries = @ + 1]]
                       ELSE [job EXCEPT ![k].state = "failed"]
  /\ UNCHANGED <<data, req, asks, seen>>

\* The process died: BullMQ puts a stalled job back once, then fails it.
Crash(x) ==
  /\ run[x].pc # "idle" /\ fails < MaxFails
  /\ fails' = fails + 1
  /\ Becomes(x, Idle)
  /\ job' = IF x # "worker" THEN job
            ELSE LET k == run[x].kind
                 IN  IF job[k].stalled
                       THEN [job EXCEPT ![k].state = "failed"]
                       ELSE [job EXCEPT ![k] = [@ EXCEPT !.state = "waiting", !.stalled = TRUE]]
  /\ answered' = IF Forced(x) /\ job[run[x].kind].stalled THEN stamp ELSE answered
  /\ UNCHANGED <<data, req, asks, stamp, held, lost>>

----------------------------------------------------------------------------
ReqStep(a) ==
  \/ ReadSpec(a) \/ SetHistoryDays(a) \/ GetJob(a) \/ GetState(a)
  \/ Remove(a) \/ Enqueue(a)

RunStep(x) ==
  \/ SyncFrom(x) \/ Listed(x) \/ ReplayDepth(x) \/ Gather(x) \/ Replace(x)
  \/ Count(x) \/ Capture(x) \/ Rest(x) \/ SweepFrom(x) \/ Delete(x)

Next ==
  \/ \E a \in Admins : Ask(a) \/ ReqStep(a) \/ Break(a)
  \/ UpdateSource
  \/ \E k \in Kinds : Retry(k) \/ Discard(k) \/ Evict(k) \/ Schedule(k) \/ Take(k)
  \/ \E x \in Procs : \/ Collect(x) \/ RunStep(x)
                      \/ Refused(x) \/ SyncThrew(x) \/ RebuildThrew(x)
                      \/ Fail(x) \/ Crash(x)

Spec == Init /\ [][Next]_vars

\* The administrators are alike: what permutes them changes nothing.
AdminSymmetry == Permutations(Admins)

----------------------------------------------------------------------------
(* Properties.                                                             *)

\* The types of the source, the jobs, the runs and the requests.
TypeOK ==
  /\ depth \in 0 .. MaxDays /\ deep \in Nat /\ history \subseteq 0 .. MaxDays
  /\ job \in [Kinds -> Job] /\ run \in [Procs -> Run] /\ req \in [Admins -> Req]
  /\ asks \in Nat /\ fails \in Nat
  /\ stamp \in Nat /\ answered \in Nat /\ held \in Nat /\ lost \in BOOLEAN

\* A re-read that nobody has answered yet.
Owed(a) == req[a].kind = "refresh" /\ req[a].pc = "accepted" /\ answered < req[a].stamp

\* A deep run that has not settled its depth yet is on its way.
OnItsWay ==
  \/ job["refresh"].state = "waiting"
  \/ run["worker"].kind = "refresh" /\ run["worker"].pc = "sync"
  \/ \E a \in Admins : req[a].kind = "refresh" /\ req[a].pc = "add"

\* A caller given a handle is given a run that reads the depth it wrote, even
\* when its own queue.add was ignored because another request holds the id,
\* was overtaken by a retry, or had its job replaced by a later request.
AcceptedIsRead == lost \/ \A a \in Admins : Owed(a) => OnItsWay

\* Once a whole listing has read the source at its depth, the store keeps
\* reaching that far: only a sweep that read the depth before it was last
\* written may cut it.
DepthIsKept == held = stamp => deep >= DepthDays(depth)

\* A deep re-read in which everything was read, at a depth nobody changed in
\* the meantime, ends with a reading for every day of that depth.
DeepRunIsWhole ==
  [][run["worker"].kind = "refresh" /\ run["worker"].pc = "rest"
       /\ run'["worker"].pc = "idle" /\ job'["refresh"].state = "completed"
       /\ run["worker"].listed /\ run["worker"].whole /\ run["worker"].stamp = stamp
     => 1 .. DepthDays(depth) \subseteq history']_vars

\* A collection that completes without a warning is one whose listings were
\* read (CollectionProcessor returns the warnings so that a job is not green
\* over a source whose ingestion failed).
GreenMeansIngested ==
  [][job["refresh"].state = "active" /\ job'["refresh"].state = "completed"
       /\ ~job'["refresh"].warned
     => run["worker"].listed]_vars
============================================================================
