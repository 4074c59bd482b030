-------------------------- MODULE CollectionProofs --------------------------
(***************************************************************************)
(* Proofs about Collection, for any number of administrators and direct    *)
(* callers, any depths and any bounds: its types, that an accepted re-read *)
(* is read, that the store keeps the depth it was read at, and that a deep *)
(* re-read leaves a reading for every day of it.                           *)
(***************************************************************************)
EXTENDS Collection, TLAPS

----------------------------------------------------------------------------
(* What the operators return.                                              *)

\* The effective depth of a source is a number of days within the bound.
LEMMA DepthDaysType ==
  ASSUME NEW d \in 0 .. MaxDays
  PROVE  DepthDays(d) \in 0 .. MaxDays
BY CollectionAssumption DEF DepthDays

\* So is the number of days a replay covers.
LEMMA ReplayDaysType ==
  ASSUME NEW d \in 0 .. MaxDays
  PROVE  ReplayDays(d) \in 0 .. MaxDays
BY CollectionAssumption DEF ReplayDays

\* The fields of a run.
LEMMA RunFields ==
  ASSUME NEW r \in Run
  PROVE  /\ r.pc \in RunPcs /\ r.kind \in Kinds /\ r.full \in BOOLEAN
         /\ r.upTo \in 0 .. MaxDays /\ r.stamp \in Nat
         /\ r.days \in 0 .. MaxDays /\ r.found \in Nat
         /\ r.listed \in BOOLEAN /\ r.whole \in BOOLEAN /\ r.warned \in BOOLEAN
BY DEF Run

\* A run that begins is a run.
LEMMA AtType ==
  ASSUME NEW pc \in RunPcs, NEW kind \in Kinds, NEW days \in 0 .. MaxDays
  PROVE  At(pc, kind, days) \in Run
BY CollectionAssumption DEF At, Run, Null

\* A job that is added is a job.
LEMMA NewJobType ==
  ASSUME NEW state \in JobStates, NEW days \in 0 .. MaxDays
  PROVE  NewJob(state, days) \in Job /\ NewJob(state, days).state = state
BY CollectionAssumption DEF NewJob, Job

\* The run at rest, the empty job and the empty request.
LEMMA Blanks ==
  /\ Idle \in Run /\ Idle.pc = "idle"
  /\ NoJob \in Job /\ NoJob.state = "none"
  /\ NoReq \in Req /\ NoReq.pc = "idle" /\ NoReq.stamp = 0
<1>1. Null \in 0 .. MaxDays
  BY CollectionAssumption DEF Null
<1>2. Idle \in Run /\ Idle.pc = "idle"
  <2>1. "idle" \in RunPcs /\ "collect" \in Kinds
    BY DEF RunPcs, Kinds, Scheduled
  <2> QED BY <1>1, <2>1, AtType DEF Idle, At
<1>3. NoJob \in Job /\ NoJob.state = "none"
  BY <1>1, NewJobType DEF NoJob, JobStates
<1>4. NoReq \in Req /\ NoReq.pc = "idle" /\ NoReq.stamp = 0
  BY <1>1 DEF NoReq, Req, ReqPcs
<1> QED BY <1>2, <1>3, <1>4

\* A new job is waiting with its payload.
LEMMA WaitingType ==
  ASSUME NEW d \in 0 .. MaxDays
  PROVE  Waiting(d) \in Job /\ Waiting(d).state = "waiting"
BY NewJobType DEF Waiting, JobStates

\* What a step writes into a request, a run or a job.
LEMMA ReqUpdated ==
  ASSUME NEW r \in Req, NEW pc \in ReqPcs, NEW d \in 0 .. MaxDays, NEW n \in Nat
  PROVE  /\ [r EXCEPT !.pc = pc] \in Req
         /\ [r EXCEPT !.pc = pc, !.stamp = n] \in Req
         /\ [r EXCEPT !.pc = pc, !.stamp = n, !.days = d] \in Req
         /\ [r EXCEPT !.pc = pc, !.days = d] \in Req
<1>1. [r EXCEPT !.pc = pc] \in Req
  BY DEF Req
<1>2. [r EXCEPT !.pc = pc, !.stamp = n] \in Req
  BY DEF Req
<1>3. [r EXCEPT !.pc = pc, !.stamp = n, !.days = d] \in Req
  BY DEF Req
<1>4. [r EXCEPT !.pc = pc, !.days = d] \in Req
  BY DEF Req
<1> QED BY <1>1, <1>2, <1>3, <1>4

\* Every way a step rewrites a run leaves a run.
LEMMA RunUpdated ==
  ASSUME NEW r \in Run, NEW pc \in RunPcs, NEW d \in 0 .. MaxDays, NEW n \in Nat,
         NEW b \in BOOLEAN, NEW c \in BOOLEAN
  PROVE  /\ [r EXCEPT !.pc = pc] \in Run
         /\ [r EXCEPT !.pc = pc, !.days = d] \in Run
         /\ [r EXCEPT !.pc = pc, !.listed = b] \in Run
         /\ [r EXCEPT !.pc = pc, !.listed = b, !.warned = c] \in Run
         /\ [r EXCEPT !.pc = pc, !.whole = b, !.warned = c] \in Run
         /\ [r EXCEPT !.pc = pc, !.upTo = d, !.stamp = n] \in Run
         /\ [r EXCEPT !.pc = pc, !.full = b, !.upTo = d] \in Run
         /\ [r EXCEPT !.pc = pc, !.full = b, !.upTo = d, !.stamp = n] \in Run
         /\ [r EXCEPT !.pc = pc, !.found = n, !.days = d] \in Run
         /\ [r EXCEPT !.pc = pc, !.found = n, !.days = d, !.whole = b] \in Run
<1>1. [r EXCEPT !.pc = pc] \in Run
  BY DEF Run
<1>2. [r EXCEPT !.pc = pc, !.days = d] \in Run
  BY DEF Run
<1>3. [r EXCEPT !.pc = pc, !.listed = b] \in Run
  BY DEF Run
<1>4. [r EXCEPT !.pc = pc, !.listed = b, !.warned = c] \in Run
  BY DEF Run
<1>5. [r EXCEPT !.pc = pc, !.whole = b, !.warned = c] \in Run
  BY DEF Run
<1>6. [r EXCEPT !.pc = pc, !.upTo = d, !.stamp = n] \in Run
  BY DEF Run
<1>7. [r EXCEPT !.pc = pc, !.full = b, !.upTo = d] \in Run
  BY DEF Run
<1>8. [r EXCEPT !.pc = pc, !.full = b, !.upTo = d, !.stamp = n] \in Run
  BY DEF Run
<1>9. [r EXCEPT !.pc = pc, !.found = n, !.days = d] \in Run
  BY DEF Run
<1>10. [r EXCEPT !.pc = pc, !.found = n, !.days = d, !.whole = b] \in Run
  BY DEF Run
<1> QED BY <1>1, <1>2, <1>3, <1>4, <1>5, <1>6, <1>7, <1>8, <1>9, <1>10

\* A job moved to another state is a job.
LEMMA JobMoved ==
  ASSUME NEW j \in Job, NEW s \in JobStates
  PROVE  [j EXCEPT !.state = s] \in Job /\ [j EXCEPT !.state = s].state = s
BY DEF Job

\* So is one that also counts an attempt, a warning or a stall.
LEMMA JobUpdated ==
  ASSUME NEW j \in Job, NEW s \in JobStates, NEW t \in 0 .. ATTEMPTS, NEW b \in BOOLEAN
  PROVE  /\ [j EXCEPT !.state = s, !.warned = b] \in Job
         /\ [j EXCEPT !.state = s, !.tries = t] \in Job
         /\ [j EXCEPT !.state = s, !.stalled = b] \in Job
<1>1. [j EXCEPT !.state = s, !.warned = b] \in Job
  BY DEF Job
<1>2. [j EXCEPT !.state = s, !.tries = t] \in Job
  BY DEF Job
<1>3. [j EXCEPT !.state = s, !.stalled = b] \in Job
  BY DEF Job
<1> QED BY <1>1, <1>2, <1>3

\* A request, a run or a job replaced by another leaves the functions typed.
LEMMA Replaced ==
  ASSUME TypeOK
  PROVE  /\ \A a \in Admins, r \in Req : Request(a, r) => req' \in [Admins -> Req]
         /\ \A x \in Procs, r \in Run : Becomes(x, r) => run' \in [Procs -> Run]
         /\ \A k \in Kinds, j \in Job : [job EXCEPT ![k] = j] \in [Kinds -> Job]
BY DEF TypeOK, Request, Becomes

----------------------------------------------------------------------------
(* Types, action by action.                                                *)

\* What every step of the requests leaves of the types.
LEMMA ReqTypes ==
  ASSUME TypeOK, NEW a \in Admins, Ask(a) \/ ReqStep(a) \/ Break(a)
  PROVE  TypeOK'
<1> USE CollectionAssumption DEF TypeOK
<1>1. req[a] \in Req /\ req[a].days \in 0 .. MaxDays /\ req[a].kind \in Kinds
  BY DEF Req, Kinds
<1>2. Null \in 0 .. MaxDays
  BY DEF Null
<1>3. CASE Ask(a)
  <2>1. PICK kind \in {"refresh", "rebuild"}, days \in Depths \cup {Null} :
          Request(a, [pc |-> "spec", kind |-> kind, days |-> days, stamp |-> 0])
    BY <1>3 DEF Ask
  <2>2. [pc |-> "spec", kind |-> kind, days |-> days, stamp |-> 0] \in Req
    BY DEF Req, ReqPcs, Null
  <2>3. req' \in [Admins -> Req]
    BY <2>1, <2>2, Replaced
  <2> QED BY <1>3, <2>3 DEF Ask, data, seen
<1>4. CASE ReadSpec(a)
  <2>1. [req[a] EXCEPT !.pc = "get"] \in Req /\ [req[a] EXCEPT !.pc = "depth"] \in Req
    BY <1>1, <1>2, ReqUpdated DEF ReqPcs
  <2>2. [req[a] EXCEPT !.pc = "get", !.stamp = stamp + 1] \in Req
    <3>1. stamp + 1 \in Nat /\ "get" \in ReqPcs
      BY DEF ReqPcs
    <3> QED BY <1>1, <1>2, <3>1, ReqUpdated
  <2>3. req' \in [Admins -> Req] /\ stamp' \in Nat
    BY <1>4, <2>1, <2>2, Replaced DEF ReadSpec, Moved
  <2> QED BY <1>4, <2>3 DEF ReadSpec, data, bounds
<1>5. CASE SetHistoryDays(a)
  <2>1. [req[a] EXCEPT !.pc = "get", !.stamp = stamp + 1, !.days = Null] \in Req
    <3>1. stamp + 1 \in Nat /\ "get" \in ReqPcs
      BY DEF ReqPcs
    <3> QED BY <1>1, <1>2, <3>1, ReqUpdated
  <2>2. req' \in [Admins -> Req]
    BY <1>5, <2>1, Replaced DEF SetHistoryDays
  <2> QED BY <1>1, <1>5, <2>2 DEF SetHistoryDays, bounds
<1>6. CASE GetJob(a)
  <2>1. [req[a] EXCEPT !.pc = "add"] \in Req /\ [req[a] EXCEPT !.pc = "state"] \in Req
    BY <1>1, <1>2, ReqUpdated DEF ReqPcs
  <2>2. req' \in [Admins -> Req]
    BY <1>6, <2>1, Replaced DEF GetJob, Moved
  <2> QED BY <1>6, <2>2 DEF GetJob, data, bounds, seen
<1>7. CASE GetState(a)
  <2>1. [req[a] EXCEPT !.pc = "remove"] \in Req
    BY <1>1, <1>2, ReqUpdated DEF ReqPcs
  <2>2. req' \in [Admins -> Req]
    BY <1>7, <2>1, Replaced, Blanks DEF GetState, Moved, Told
  <2> QED BY <1>7, <2>2 DEF GetState, data, bounds, seen
<1>8. CASE Remove(a)
  <2>1. [req[a] EXCEPT !.pc = "add"] \in Req
    BY <1>1, <1>2, ReqUpdated DEF ReqPcs
  <2>2. req' \in [Admins -> Req]
    BY <1>8, <2>1, Replaced, Blanks DEF Remove, Moved, Told
  <2>3. job' \in [Kinds -> Job]
    BY <1>1, <1>8, Replaced, Blanks DEF Remove
  <2> QED BY <1>8, <2>2, <2>3 DEF Remove, data, bounds, seen
<1>9. CASE Enqueue(a)
  <2>1. [req[a] EXCEPT !.pc = "accepted", !.days = Null] \in Req
    BY <1>1, <1>2, ReqUpdated DEF ReqPcs
  <2>2. req' \in [Admins -> Req]
    BY <1>9, <2>1, Replaced DEF Enqueue
  <2>3. job' \in [Kinds -> Job]
    BY <1>1, <1>9, WaitingType, Replaced DEF Enqueue
  <2> QED BY <1>9, <2>2, <2>3 DEF Enqueue, data, bounds, seen
<1>10. CASE Break(a)
  <2>1. req' \in [Admins -> Req] /\ lost' \in BOOLEAN /\ fails' \in Nat
    BY <1>10, Blanks, Replaced DEF Break, Told
  <2> QED BY <1>10, <2>1 DEF Break, data
<1> QED BY <1>3, <1>4, <1>5, <1>6, <1>7, <1>8, <1>9, <1>10 DEF ReqStep

\* What every step of the queue leaves of the types.
LEMMA JobTypes ==
  ASSUME TypeOK, NEW k \in Kinds,
         Retry(k) \/ Discard(k) \/ Evict(k) \/ Schedule(k) \/ Take(k)
  PROVE  TypeOK'
<1> USE CollectionAssumption DEF TypeOK
<1>1. job[k] \in Job /\ job[k].days \in 0 .. MaxDays
  BY DEF Job
<1>2. CASE Retry(k)
  <2>1. job' \in [Kinds -> Job]
    BY <1>1, <1>2, JobMoved, Replaced DEF Retry, JobStates
  <2> QED BY <1>2, <2>1 DEF Retry, data, seen
<1>3. CASE Discard(k)
  <2>1. job' \in [Kinds -> Job] /\ lost' \in BOOLEAN
    BY <1>3, Blanks DEF Discard
  <2> QED BY <1>3, <2>1 DEF Discard, data
<1>4. CASE Evict(k)
  BY <1>4, Blanks DEF Evict, data, bounds, seen
<1>5. CASE Schedule(k)
  <2>1. Waiting(Null) \in Job
    BY WaitingType DEF Null
  <2> QED BY <1>5, <2>1 DEF Schedule, data, bounds, seen
<1>6. CASE Take(k)
  <2>1. job' \in [Kinds -> Job]
    BY <1>1, <1>6, JobMoved, Replaced DEF Take, JobStates
  <2>2. At(FirstStep(k), k, job[k].days) \in Run
    BY <1>1, AtType DEF RunPcs, FirstStep
  <2>3. run' \in [Procs -> Run]
    BY <1>6, <2>2, Replaced DEF Take, Procs
  <2> QED BY <1>6, <2>1, <2>3 DEF Take, data, bounds, seen
<1> QED BY <1>2, <1>3, <1>4, <1>5, <1>6

\* What ends a run, or breaks it, leaves of the jobs and the runs.
LEMMA EndTypes ==
  ASSUME TypeOK, NEW x \in Procs
  PROVE  /\ \A warned \in BOOLEAN : Done(x, warned)
                => run' \in [Procs -> Run] /\ job' \in [Kinds -> Job]
         /\ Fail(x) => run' \in [Procs -> Run] /\ job' \in [Kinds -> Job]
         /\ Crash(x) => run' \in [Procs -> Run] /\ job' \in [Kinds -> Job]
<1> USE CollectionAssumption
<1>1. run[x] \in Run /\ run[x].kind \in Kinds
  BY RunFields DEF TypeOK
<1>2. job[run[x].kind] \in Job /\ job[run[x].kind].tries \in 0 .. ATTEMPTS
  BY <1>1 DEF TypeOK, Job
<1>3. Becomes(x, Idle) => run' \in [Procs -> Run]
  BY Blanks, Replaced
<1>4. ASSUME NEW warned \in BOOLEAN, Done(x, warned)
      PROVE  job' \in [Kinds -> Job]
  <2>1. [job[run[x].kind] EXCEPT !.state = "completed", !.warned = warned] \in Job
    BY <1>2, JobUpdated DEF JobStates
  <2>2. CASE x # "worker"
    BY <1>4, <2>2 DEF Done, TypeOK
  <2>3. CASE x = "worker" /\ run[x].kind \in Scheduled
    BY <1>1, <1>4, <2>3, Blanks, Replaced DEF Done
  <2>4. CASE x = "worker" /\ run[x].kind \notin Scheduled
    BY <1>1, <1>4, <2>1, <2>4, Replaced DEF Done
  <2> QED BY <2>2, <2>3, <2>4
<1>5. ASSUME Fail(x)
      PROVE  job' \in [Kinds -> Job]
  <2> DEFINE k == run[x].kind
  <2>1. CASE x # "worker"
    BY <1>5, <2>1 DEF Fail, TypeOK
  <2>2. CASE x = "worker" /\ job[k].tries + 1 < Attempts(k)
    <3>1. job[k].tries + 1 \in 0 .. ATTEMPTS
      BY <1>2, <2>2 DEF Attempts
    <3>2. [job[k] EXCEPT !.state = "waiting", !.tries = job[k].tries + 1] \in Job
      BY <1>2, <3>1, JobUpdated DEF JobStates
    <3>3. job' = [job EXCEPT ![k] =
                    [job[k] EXCEPT !.state = "waiting", !.tries = job[k].tries + 1]]
      BY <1>5, <1>1, <2>2 DEF Fail
    <3> QED BY <1>1, <3>2, <3>3, Replaced
  <2>3. CASE x = "worker" /\ ~(job[k].tries + 1 < Attempts(k))
    <3>1. [job[k] EXCEPT !.state = "failed"] \in Job
      BY <1>2, JobMoved DEF JobStates
    <3>2. job' = [job EXCEPT ![k].state = "failed"]
      BY <1>5, <2>3 DEF Fail
    <3>3. job' = [job EXCEPT ![k] = [job[k] EXCEPT !.state = "failed"]]
      BY <3>2
    <3> QED BY <1>1, <3>1, <3>3, Replaced
  <2> QED BY <2>1, <2>2, <2>3
<1>6. ASSUME Crash(x)
      PROVE  job' \in [Kinds -> Job]
  <2> DEFINE k == run[x].kind
  <2>1. CASE x # "worker"
    BY <1>6, <2>1 DEF Crash, TypeOK
  <2>2. CASE x = "worker" /\ ~job[k].stalled
    <3>1. [job[k] EXCEPT !.state = "waiting", !.stalled = TRUE] \in Job
      BY <1>2, JobUpdated DEF JobStates
    <3>2. job' = [job EXCEPT ![k] =
                    [job[k] EXCEPT !.state = "waiting", !.stalled = TRUE]]
      BY <1>6, <1>1, <2>2 DEF Crash
    <3> QED BY <1>1, <3>1, <3>2, Replaced
  <2>3. CASE x = "worker" /\ job[k].stalled
    <3>1. [job[k] EXCEPT !.state = "failed"] \in Job
      BY <1>2, JobMoved DEF JobStates
    <3>2. job' = [job EXCEPT ![k] = [job[k] EXCEPT !.state = "failed"]]
      BY <1>6, <1>1, <2>3 DEF Crash
    <3> QED BY <1>1, <3>1, <3>2, Replaced
  <2> QED BY <2>1, <2>2, <2>3
<1> QED BY <1>3, <1>4, <1>5, <1>6 DEF Done, Fail, Crash

\* What the steps of the worker and of the direct callers leave of the types.
LEMMA RunTypes ==
  ASSUME TypeOK, NEW x \in Procs,
         Collect(x) \/ RunStep(x) \/ Refused(x) \/ SyncThrew(x) \/ RebuildThrew(x)
  PROVE  TypeOK'
<1> USE CollectionAssumption
<1>1. /\ run[x] \in Run /\ run[x].upTo \in 0 .. MaxDays /\ run[x].stamp \in Nat
      /\ run[x].days \in 0 .. MaxDays /\ run[x].found \in Nat
      /\ run[x].warned \in BOOLEAN /\ run[x].full \in BOOLEAN
  BY RunFields DEF TypeOK
<1>2. /\ Null \in 0 .. MaxDays /\ DepthDays(depth) \in 0 .. MaxDays
      /\ ReplayDays(run[x].days) \in 0 .. MaxDays
      /\ depth \in 0 .. MaxDays /\ deep \in Nat /\ stamp \in Nat
  BY <1>1, DepthDaysType, ReplayDaysType DEF TypeOK, Null
<1>3. RunPcs = {"idle", "sync", "list", "spec", "gather", "replace", "count",
                "capture", "rest", "sweep", "delete"}
  BY DEF RunPcs
<1>4. AfterSync(x) \in RunPcs
  BY DEF AfterSync, RunPcs
<1>5. CASE Collect(x)
  <2>1. At("sync", "collect", Null) \in Run
    BY <1>2, AtType DEF RunPcs, Kinds, Scheduled
  <2>2. run' \in [Procs -> Run]
    BY <1>5, <2>1, Replaced DEF Collect
  <2> QED BY <1>5, <2>2 DEF Collect, TypeOK, data, seen
<1>6. CASE SyncFrom(x)
  <2>1. PICK full \in BOOLEAN :
          Becomes(x, [run[x] EXCEPT !.pc = "list", !.full = full,
                                    !.upTo = DepthDays(depth), !.stamp = stamp])
    BY <1>6 DEF SyncFrom, Forced
  <2>2. [run[x] EXCEPT !.pc = "list", !.full = full,
                       !.upTo = DepthDays(depth), !.stamp = stamp] \in Run
    BY <1>1, <1>2, <1>3, RunUpdated
  <2>3. run' \in [Procs -> Run]
    BY <2>1, <2>2, Replaced
  <2> QED BY <1>6, <2>3 DEF SyncFrom, TypeOK, data, bounds
<1>7. CASE Listed(x)
  <2>1. [run[x] EXCEPT !.pc = AfterSync(x), !.full = FALSE, !.upTo = Null] \in Run
    BY <1>1, <1>2, <1>4, RunUpdated
  <2>2. run' \in [Procs -> Run]
    BY <1>7, <2>1, Replaced DEF Listed
  <2>3. deep' \in Nat /\ held' \in Nat
    BY <1>1, <1>2, <1>7 DEF Listed, TypeOK
  <2> QED BY <1>7, <2>2, <2>3 DEF Listed, TypeOK, bounds
<1>8. CASE ReplayDepth(x)
  <2>1. [run[x] EXCEPT !.pc = "gather", !.days = depth] \in Run
    BY <1>1, <1>2, <1>3, RunUpdated
  <2>2. run' \in [Procs -> Run]
    BY <1>8, <2>1, Replaced DEF ReplayDepth
  <2> QED BY <1>8, <2>2 DEF ReplayDepth, TypeOK, data, bounds, seen
<1>9. CASE Gather(x)
  <2>1. [run[x] EXCEPT !.pc = "replace", !.found = deep,
                       !.days = ReplayDays(run[x].days)] \in Run
    BY <1>1, <1>2, <1>3, RunUpdated
  <2>2. [run[x] EXCEPT !.pc = "replace", !.found = 0,
                       !.days = ReplayDays(run[x].days), !.whole = FALSE] \in Run
    BY <1>1, <1>2, <1>3, RunUpdated
  <2>3. run' \in [Procs -> Run] /\ fails' \in Nat
    BY <1>9, <2>1, <2>2, Replaced DEF Gather, TypeOK
  <2> QED BY <1>9, <2>3 DEF Gather, TypeOK, data, seen
<1>10. CASE Replace(x)
  <2>1. [run[x] EXCEPT !.pc = "count"] \in Run
    BY <1>1, <1>2, <1>3, RunUpdated
  <2>2. run' \in [Procs -> Run]
    BY <1>10, <2>1, Replaced DEF Replace
  <2>3. history' \subseteq 0 .. MaxDays
    BY <1>1, <1>10 DEF Replace, Replayed, TypeOK
  <2> QED BY <1>10, <2>2, <2>3 DEF Replace, TypeOK, bounds, seen
<1>11. CASE Count(x)
  <2>1. [run[x] EXCEPT !.pc = "capture"] \in Run
    BY <1>1, <1>2, <1>3, RunUpdated
  <2>2. run' \in [Procs -> Run] /\ job' \in [Kinds -> Job]
    <3>1. CASE run[x].kind = "rebuild"
      BY <1>11, <3>1, EndTypes DEF Count
    <3>2. CASE run[x].kind # "rebuild"
      BY <1>11, <2>1, <3>2, Replaced DEF Count, TypeOK
    <3> QED BY <3>1, <3>2
  <2> QED BY <1>11, <2>2 DEF Count, TypeOK, data, bounds, seen
<1>12. CASE Capture(x)
  <2>1. [run[x] EXCEPT !.pc = "rest"] \in Run
    BY <1>1, <1>2, <1>3, RunUpdated
  <2>2. run' \in [Procs -> Run]
    BY <1>12, <2>1, Replaced DEF Capture
  <2> QED BY <1>12, <2>2 DEF Capture, TypeOK, data, bounds, seen
<1>13. CASE Rest(x)
  <2>1. PICK dora \in BOOLEAN, others \in BOOLEAN :
          /\ IF dora /\ others THEN UNCHANGED fails
             ELSE fails < MaxFails /\ fails' = fails + 1
          /\ history' = IF dora THEN history \cup {0} ELSE history
          /\ Done(x, run[x].warned \/ ~dora \/ ~others)
    BY <1>13 DEF Rest
  <2>2. (run[x].warned \/ ~dora \/ ~others) \in BOOLEAN
    OBVIOUS
  <2>3. run' \in [Procs -> Run] /\ job' \in [Kinds -> Job]
    BY <2>1, <2>2, EndTypes
  <2>4. fails' \in Nat /\ history' \subseteq 0 .. MaxDays
    BY <2>1 DEF TypeOK
  <2> QED BY <1>13, <2>3, <2>4 DEF Rest, TypeOK, seen
<1>14. CASE SweepFrom(x)
  <2>1. [run[x] EXCEPT !.pc = "delete", !.upTo = DepthDays(depth), !.stamp = stamp] \in Run
    BY <1>1, <1>2, <1>3, RunUpdated
  <2>2. run' \in [Procs -> Run]
    BY <1>14, <2>1, Replaced DEF SweepFrom
  <2> QED BY <1>14, <2>2 DEF SweepFrom, TypeOK, data, bounds, seen
<1>15. CASE Delete(x)
  <2>1. run' \in [Procs -> Run] /\ job' \in [Kinds -> Job]
    BY <1>15, EndTypes DEF Delete
  <2>2. deep' \in Nat /\ held' \in Nat
    BY <1>1, <1>15 DEF Delete, Kept, TypeOK
  <2> QED BY <1>15, <2>1, <2>2 DEF Delete, TypeOK, bounds
<1>16. CASE Refused(x)
  <2>1. [run[x] EXCEPT !.pc = AfterSync(x), !.listed = FALSE] \in Run
    BY <1>1, <1>2, <1>4, RunUpdated
  <2>2. run' \in [Procs -> Run]
    BY <1>16, <2>1, Replaced DEF Refused
  <2> QED BY <1>16, <2>2 DEF Refused, TypeOK, data, seen
<1>17. CASE SyncThrew(x)
  <2>1. [run[x] EXCEPT !.pc = AfterSync(x), !.listed = FALSE, !.warned = TRUE] \in Run
    BY <1>1, <1>2, <1>4, RunUpdated
  <2>2. run' \in [Procs -> Run]
    BY <1>17, <2>1, Replaced DEF SyncThrew
  <2> QED BY <1>17, <2>2 DEF SyncThrew, TypeOK, data
<1>18. CASE RebuildThrew(x)
  <2>1. [run[x] EXCEPT !.pc = "capture", !.whole = FALSE, !.warned = TRUE] \in Run
    BY <1>1, <1>2, <1>3, RunUpdated
  <2>2. run' \in [Procs -> Run]
    BY <1>18, <2>1, Replaced DEF RebuildThrew
  <2> QED BY <1>18, <2>2 DEF RebuildThrew, TypeOK, data, seen
<1> QED BY <1>5, <1>6, <1>7, <1>8, <1>9, <1>10, <1>11, <1>12, <1>13, <1>14, <1>15,
           <1>16, <1>17, <1>18 DEF RunStep

\* And what the uncaught failures leave of them.
LEMMA FailTypes ==
  ASSUME TypeOK, NEW x \in Procs, Fail(x) \/ Crash(x)
  PROVE  TypeOK'
<1>1. run' \in [Procs -> Run] /\ job' \in [Kinds -> Job]
  BY EndTypes
<1>2. CASE Fail(x)
  BY <1>1, <1>2 DEF Fail, TypeOK, data, seen
<1>3. CASE Crash(x)
  BY <1>1, <1>3 DEF Crash, TypeOK, data
<1> QED BY <1>2, <1>3

\* Nor does an edit of the source.
LEMMA UpdateTypes == ASSUME TypeOK, UpdateSource PROVE TypeOK'
<1>1. depth' \in 0 .. MaxDays
  BY CollectionAssumption DEF UpdateSource, Null
<1> QED BY <1>1 DEF UpdateSource, TypeOK

\* A source at its first ingestion is typed.
LEMMA InitTypes == ASSUME Init PROVE TypeOK
<1> USE CollectionAssumption
<1>1. depth \in 0 .. MaxDays /\ deep \in Nat
  <2>1. depth \in 0 .. MaxDays
    BY DEF Init, Null
  <2> QED BY <2>1, DepthDaysType DEF Init
<1>2. job \in [Kinds -> Job]
  <2>1. PICK past \in {"none", "failed"} :
          job = [[k \in Kinds |-> NoJob] EXCEPT !["refresh"].state = past]
    BY DEF Init
  <2>2. [NoJob EXCEPT !.state = past] \in Job
    BY Blanks, JobMoved DEF JobStates
  <2>3. "refresh" \in Kinds
    BY DEF Kinds
  <2> QED BY <2>1, <2>2, <2>3, Blanks
<1>3. run \in [Procs -> Run] /\ req \in [Admins -> Req]
  BY Blanks DEF Init
<1>4. /\ history = {0} /\ asks = 0 /\ fails = 0
      /\ stamp = 1 /\ answered = 1 /\ held = 0 /\ lost = FALSE
  BY DEF Init
<1>5. history \subseteq 0 .. MaxDays
  BY <1>4
<1>6. asks \in Nat /\ fails \in Nat /\ stamp \in Nat /\ answered \in Nat /\ held \in Nat
  BY <1>4
<1> QED BY <1>1, <1>2, <1>3, <1>4, <1>5, <1>6 DEF TypeOK

\* The source, the jobs, the runs and the requests keep their types, whoever
\* asks, retries or crashes in between.
THEOREM CollectionTypeCorrect == Spec => []TypeOK
<1>1. Init => TypeOK
  BY InitTypes
<1>2. TypeOK /\ [Next]_vars => TypeOK'
  <2> SUFFICES ASSUME TypeOK, [Next]_vars PROVE TypeOK'
    OBVIOUS
  <2>1. CASE UNCHANGED vars
    BY <2>1 DEF vars, data, bounds, seen, TypeOK
  <2>2. CASE Next
    BY <2>2, ReqTypes, UpdateTypes, JobTypes, RunTypes, FailTypes DEF Next
  <2> QED BY <2>1, <2>2
<1> QED BY <1>1, <1>2, PTL DEF Spec

----------------------------------------------------------------------------
(* The inductive invariant.                                                *)

\* Nothing is ahead of the last re-read asked for.
Ordered ==
  /\ stamp > 0 /\ answered <= stamp /\ held <= stamp
  /\ \A a \in Admins : req[a].stamp <= stamp
  /\ \A x \in Procs : run[x].stamp <= stamp

\* A depth read since the source was last written is its depth.
DepthsCurrent ==
  \A x \in Procs :
    run[x].pc \in {"list", "delete"} /\ run[x].stamp = stamp
      => run[x].upTo = DepthDays(depth)

\* The job the worker runs is active: nobody removes or re-queues it.
WorkerHolds == run["worker"].pc # "idle" => job[run["worker"].kind].state = "active"

Syncing == run["worker"].kind = "refresh" /\ run["worker"].pc = "sync"

Unanswered(a) ==
  /\ req[a].kind = "refresh" /\ req[a].pc \in {"add", "accepted"}
  /\ answered < req[a].stamp

\* A request past its check finds no settled job under its id, only one that
\* will still read the depth.
Pending ==
  (\E a \in Admins : Unanswered(a))
    => job["refresh"].state \in {"none", "waiting"} \/ Syncing

CollectionInv ==
  /\ Ordered /\ DepthsCurrent /\ DepthIsKept
  /\ WorkerHolds /\ Pending /\ AcceptedIsRead

\* What a step of a run leaves to the others, and what it may do to the job.
RunEffect(x) ==
  /\ stamp' = stamp /\ depth' = depth /\ req' = req /\ lost' = lost
  /\ \A y \in Procs \ {x} : run'[y] = run[y]
  /\ run'[x].stamp <= stamp
  /\ run'[x].pc \in {"list", "delete"} => run'[x].upTo = DepthDays(depth)
  /\ answered' \in {answered, stamp}

\* The job of the worker: kept while it runs, let go of when it ends.
JobEffect(x) ==
  /\ x # "worker" => job' = job
  /\ x = "worker" =>
       /\ \A k \in Kinds \ {run[x].kind} : job'[k] = job[k]
       /\ \/ run'[x].pc = "idle"
          \/ run[x].pc # "idle" /\ run'[x].kind = run[x].kind /\ job' = job
  /\ x = "worker" /\ Syncing =>
       answered' = stamp \/ job'["refresh"].state = "waiting"
  /\ x = "worker" /\ run[x].kind # "refresh" => answered' = answered

\* A run replaced leaves the others as they are.
LEMMA OthersKept ==
  ASSUME TypeOK, NEW x \in Procs, NEW r, Becomes(x, r)
  PROVE  run'[x] = r /\ \A y \in Procs \ {x} : run'[y] = run[y]
BY DEF TypeOK, Becomes

\* The step of a run that has not ended, and keeps its kind, stamp and job.
LEMMA Advanced ==
  ASSUME TypeOK, Ordered, NEW x \in Procs, NEW r, Becomes(x, r),
         r.pc \notin {"idle", "list", "delete"}, r.stamp = run[x].stamp,
         r.kind = run[x].kind, run[x].pc # "idle",
         UNCHANGED <<depth, job, req, stamp, lost>>,
         \/ answered' = answered /\ (x = "worker" => ~Syncing)
         \/ Forced(x) /\ answered' = stamp
  PROVE  RunEffect(x) /\ JobEffect(x)
<1>1. run'[x] = r /\ \A y \in Procs \ {x} : run'[y] = run[y]
  BY OthersKept
<1>2. RunEffect(x)
  BY <1>1 DEF RunEffect, Ordered
<1>3. JobEffect(x)
  BY <1>1 DEF JobEffect, Syncing, Forced
<1> QED BY <1>2, <1>3

\* A run that ends.
LEMMA Ended ==
  ASSUME TypeOK, Ordered, NEW x \in Procs, Becomes(x, Idle),
         UNCHANGED <<depth, req, stamp, lost>>,
         x # "worker" => job' = job,
         \A k \in Kinds \ {run[x].kind} : job'[k] = job[k],
         \/ answered' = answered /\ (x = "worker" => ~Syncing)
         \/ answered' = answered /\ job'["refresh"].state = "waiting"
         \/ Forced(x) /\ answered' = stamp
  PROVE  RunEffect(x) /\ JobEffect(x)
<1>1. run'[x] = Idle /\ \A y \in Procs \ {x} : run'[y] = run[y]
  BY OthersKept
<1>2. Idle.pc = "idle" /\ Idle.stamp = 0
  BY DEF Idle, At
<1>3. RunEffect(x)
  <2>1. run'[x].stamp <= stamp
    BY <1>1, <1>2 DEF TypeOK
  <2> QED BY <1>1, <1>2, <2>1 DEF RunEffect
<1>4. JobEffect(x)
  BY <1>1, <1>2 DEF JobEffect, Syncing, Forced
<1> QED BY <1>3, <1>4

\* The jobs a run that ends does not hold stay as they are.
LEMMA OtherJobs ==
  ASSUME TypeOK, NEW x \in Procs,
         (\E warned \in BOOLEAN : Done(x, warned)) \/ Fail(x) \/ Crash(x)
  PROVE  /\ x # "worker" => job' = job
         /\ \A k \in Kinds \ {run[x].kind} : job'[k] = job[k]
BY DEF TypeOK, Done, Fail, Crash

\* The steps of a collection up to the replay.
LEMMA SyncEffects ==
  ASSUME TypeOK, Ordered, NEW x \in Procs,
         \/ SyncFrom(x) \/ Listed(x) \/ Refused(x) \/ SyncThrew(x)
         \/ ReplayDepth(x) \/ Capture(x)
  PROVE  RunEffect(x) /\ JobEffect(x)
<1>1. run[x] \in Run
  BY DEF TypeOK
<1>2. AfterSync(x) \in {"spec", "capture"}
  BY DEF AfterSync
<1>3. run[x].pc # "sync" /\ x = "worker" => ~Syncing
  BY DEF Syncing
<1>4. CASE SyncFrom(x)
  <2>1. PICK full \in BOOLEAN :
          Becomes(x, [run[x] EXCEPT !.pc = "list", !.full = full,
                                    !.upTo = DepthDays(depth), !.stamp = stamp])
    BY <1>4 DEF SyncFrom, Forced
  <2>2. /\ run'[x] = [run[x] EXCEPT !.pc = "list", !.full = full,
                                    !.upTo = DepthDays(depth), !.stamp = stamp]
        /\ \A y \in Procs \ {x} : run'[y] = run[y]
    BY <2>1, OthersKept
  <2>3. /\ run'[x].pc = "list" /\ run'[x].upTo = DepthDays(depth)
        /\ run'[x].stamp = stamp /\ run'[x].kind = run[x].kind
    BY <1>1, <2>2 DEF Run
  <2>4. RunEffect(x)
    <3>1. run'[x].stamp <= stamp
      BY <2>3 DEF TypeOK
    <3>2. answered' \in {answered, stamp} /\ UNCHANGED <<depth, stamp, req, lost>>
      BY <1>4 DEF SyncFrom, data
    <3> QED BY <2>2, <2>3, <3>1, <3>2 DEF RunEffect
  <2>5. JobEffect(x)
    BY <1>4, <2>2, <2>3 DEF JobEffect, Syncing, Forced, SyncFrom
  <2> QED BY <2>4, <2>5
<1>5. CASE Listed(x)
  <2> DEFINE r == [run[x] EXCEPT !.pc = AfterSync(x), !.full = FALSE, !.upTo = Null]
  <2>1. r.pc \notin {"idle", "list", "delete"} /\ r.stamp = run[x].stamp
        /\ r.kind = run[x].kind
    BY <1>1, <1>2 DEF Run
  <2>2. Becomes(x, r)
    BY <1>5 DEF Listed
  <2> HIDE DEF r
  <2>3. run[x].pc # "idle" /\ UNCHANGED <<depth, job, req, stamp, lost>>
    BY <1>5 DEF Listed, data, seen
  <2>4. \/ answered' = answered /\ (x = "worker" => ~Syncing)
        \/ Forced(x) /\ answered' = stamp
    BY <1>3, <1>5 DEF Listed, seen
  <2> QED BY <2>1, <2>2, <2>3, <2>4, Advanced
<1>6. CASE Refused(x)
  <2> DEFINE r == [run[x] EXCEPT !.pc = AfterSync(x), !.listed = FALSE]
  <2>1. r.pc \notin {"idle", "list", "delete"} /\ r.stamp = run[x].stamp
        /\ r.kind = run[x].kind
    BY <1>1, <1>2 DEF Run
  <2>2. Becomes(x, r)
    BY <1>6 DEF Refused
  <2> HIDE DEF r
  <2>3. run[x].pc # "idle" /\ UNCHANGED <<depth, job, req, stamp, lost>>
    BY <1>6 DEF Refused, data, seen
  <2>4. \/ answered' = answered /\ (x = "worker" => ~Syncing)
        \/ Forced(x) /\ answered' = stamp
    BY <1>3, <1>6 DEF Refused, seen
  <2> QED BY <2>1, <2>2, <2>3, <2>4, Advanced
<1>7. CASE SyncThrew(x)
  <2> DEFINE r == [run[x] EXCEPT !.pc = AfterSync(x), !.listed = FALSE, !.warned = TRUE]
  <2>1. r.pc \notin {"idle", "list", "delete"} /\ r.stamp = run[x].stamp
        /\ r.kind = run[x].kind
    BY <1>1, <1>2 DEF Run
  <2>2. Becomes(x, r)
    BY <1>7 DEF SyncThrew
  <2> HIDE DEF r
  <2>3. run[x].pc # "idle" /\ UNCHANGED <<depth, job, req, stamp, lost>>
    BY <1>7 DEF SyncThrew, data, seen
  <2>4. \/ answered' = answered /\ (x = "worker" => ~Syncing)
        \/ Forced(x) /\ answered' = stamp
    BY <1>3, <1>7 DEF SyncThrew, seen, Syncing, Forced
  <2> QED BY <2>1, <2>2, <2>3, <2>4, Advanced
<1>8. CASE ReplayDepth(x)
  <2> DEFINE r == [run[x] EXCEPT !.pc = "gather", !.days = depth]
  <2>1. r.pc \notin {"idle", "list", "delete"} /\ r.stamp = run[x].stamp
        /\ r.kind = run[x].kind
    BY <1>1, <1>2 DEF Run
  <2>2. Becomes(x, r)
    BY <1>8 DEF ReplayDepth
  <2> HIDE DEF r
  <2>3. run[x].pc # "idle" /\ UNCHANGED <<depth, job, req, stamp, lost>>
    BY <1>8 DEF ReplayDepth, data, seen
  <2>4. \/ answered' = answered /\ (x = "worker" => ~Syncing)
        \/ Forced(x) /\ answered' = stamp
    BY <1>3, <1>8 DEF ReplayDepth, seen
  <2> QED BY <2>1, <2>2, <2>3, <2>4, Advanced
<1>9. CASE Capture(x)
  <2> DEFINE r == [run[x] EXCEPT !.pc = "rest"]
  <2>1. r.pc \notin {"idle", "list", "delete"} /\ r.stamp = run[x].stamp
        /\ r.kind = run[x].kind
    BY <1>1, <1>2 DEF Run
  <2>2. Becomes(x, r)
    BY <1>9 DEF Capture
  <2> HIDE DEF r
  <2>3. run[x].pc # "idle" /\ UNCHANGED <<depth, job, req, stamp, lost>>
    BY <1>9 DEF Capture, data, seen
  <2>4. \/ answered' = answered /\ (x = "worker" => ~Syncing)
        \/ Forced(x) /\ answered' = stamp
    BY <1>3, <1>9 DEF Capture, seen
  <2> QED BY <2>1, <2>2, <2>3, <2>4, Advanced
<1> QED BY <1>4, <1>5, <1>6, <1>7, <1>8, <1>9

\* The steps of a replay.
LEMMA ReplayEffects ==
  ASSUME TypeOK, Ordered, NEW x \in Procs,
         Gather(x) \/ Replace(x) \/ RebuildThrew(x)
  PROVE  RunEffect(x) /\ JobEffect(x)
<1>1. run[x] \in Run
  BY DEF TypeOK
<1>2. run[x].pc # "sync" /\ x = "worker" => ~Syncing
  BY DEF Syncing
<1>3. ASSUME NEW r, Becomes(x, r), r.pc \notin {"idle", "list", "delete"},
             r.stamp = run[x].stamp, r.kind = run[x].kind
      PROVE  RunEffect(x) /\ JobEffect(x)
  <2>1. run[x].pc \notin {"idle", "sync"} /\ UNCHANGED <<depth, job, req, seen>>
    BY DEF Gather, Replace, RebuildThrew, data
  <2> QED BY <1>2, <1>3, <2>1, Advanced DEF seen
<1>4. CASE Gather(x)
  <2>1. PICK n, b :
          Becomes(x, [run[x] EXCEPT !.pc = "replace", !.found = n,
                                    !.days = ReplayDays(run[x].days), !.whole = b])
    <3>1. CASE Becomes(x, [run[x] EXCEPT !.pc = "replace", !.found = deep,
                                         !.days = ReplayDays(run[x].days)])
      <4>1. [run[x] EXCEPT !.pc = "replace", !.found = deep,
                           !.days = ReplayDays(run[x].days)]
            = [run[x] EXCEPT !.pc = "replace", !.found = deep,
                             !.days = ReplayDays(run[x].days), !.whole = run[x].whole]
        BY <1>1 DEF Run
      <4> QED BY <3>1, <4>1
    <3> QED BY <1>4, <3>1 DEF Gather
  <2> DEFINE r == [run[x] EXCEPT !.pc = "replace", !.found = n,
                                 !.days = ReplayDays(run[x].days), !.whole = b]
  <2>2. r.pc = "replace" /\ r.stamp = run[x].stamp /\ r.kind = run[x].kind
    BY <1>1 DEF Run
  <2> HIDE DEF r
  <2> QED BY <1>3, <2>1, <2>2 DEF r
<1>5. CASE Replace(x)
  <2> DEFINE r == [run[x] EXCEPT !.pc = "count"]
  <2>1. r.pc = "count" /\ r.stamp = run[x].stamp /\ r.kind = run[x].kind
    BY <1>1 DEF Run
  <2>2. Becomes(x, r)
    BY <1>5 DEF Replace
  <2> HIDE DEF r
  <2> QED BY <1>3, <2>1, <2>2
<1>6. CASE RebuildThrew(x)
  <2> DEFINE r == [run[x] EXCEPT !.pc = "capture", !.whole = FALSE, !.warned = TRUE]
  <2>1. r.pc = "capture" /\ r.stamp = run[x].stamp /\ r.kind = run[x].kind
    BY <1>1 DEF Run
  <2>2. Becomes(x, r)
    BY <1>6 DEF RebuildThrew
  <2> HIDE DEF r
  <2> QED BY <1>3, <2>1, <2>2
<1> QED BY <1>4, <1>5, <1>6

\* The ends of a run, good or bad.
LEMMA EndEffects ==
  ASSUME TypeOK, Ordered, NEW x \in Procs,
         Count(x) \/ Rest(x) \/ Delete(x) \/ Fail(x) \/ Crash(x)
  PROVE  RunEffect(x) /\ JobEffect(x)
<1>1. run[x] \in Run /\ run[x].warned \in BOOLEAN
  BY RunFields DEF TypeOK
<1>2. run[x].pc # "sync" /\ x = "worker" => ~Syncing
  BY DEF Syncing
<1>3. ASSUME NEW warned \in BOOLEAN, Done(x, warned), run[x].pc # "sync",
             UNCHANGED <<depth, req, stamp, answered, lost>>
      PROVE  RunEffect(x) /\ JobEffect(x)
  <2>1. Becomes(x, Idle)
    BY <1>3 DEF Done
  <2>2. /\ x # "worker" => job' = job
        /\ \A k \in Kinds \ {run[x].kind} : job'[k] = job[k]
    BY <1>3, OtherJobs
  <2> QED BY <1>2, <1>3, <2>1, <2>2, Ended
<1>4. CASE Count(x)
  <2>1. UNCHANGED <<depth, req, stamp, answered, lost>> /\ run[x].pc = "count"
    BY <1>4 DEF Count, data, seen
  <2>2. CASE Done(x, FALSE)
    BY <1>3, <2>1, <2>2
  <2>3. CASE Becomes(x, [run[x] EXCEPT !.pc = "capture"]) /\ UNCHANGED job
    <3> DEFINE r == [run[x] EXCEPT !.pc = "capture"]
    <3>1. r.pc = "capture" /\ r.stamp = run[x].stamp /\ r.kind = run[x].kind
      BY <1>1 DEF Run
    <3>2. Becomes(x, r)
      BY <2>3
    <3> HIDE DEF r
    <3> QED BY <1>2, <2>1, <2>3, <3>1, <3>2, Advanced
  <2> QED BY <1>4, <2>2, <2>3 DEF Count
<1>5. CASE Rest(x)
  <2>1. PICK dora \in BOOLEAN, others \in BOOLEAN :
          Done(x, run[x].warned \/ ~dora \/ ~others)
    BY <1>5 DEF Rest
  <2>2. (run[x].warned \/ ~dora \/ ~others) \in BOOLEAN
    OBVIOUS
  <2>3. UNCHANGED <<depth, req, stamp, answered, lost>> /\ run[x].pc = "rest"
    BY <1>5 DEF Rest, seen
  <2> QED BY <1>3, <2>1, <2>2, <2>3
<1>6. CASE Delete(x)
  <2>1. UNCHANGED <<depth, req, stamp, answered, lost>> /\ run[x].pc = "delete"
    BY <1>6 DEF Delete
  <2> QED BY <1>3, <1>6, <2>1 DEF Delete
<1>7. CASE Fail(x)
  <2>1. UNCHANGED <<depth, req, stamp, answered, lost>> /\ run[x].pc # "sync"
    BY <1>7 DEF Fail, data, seen
  <2>2. Becomes(x, Idle)
    BY <1>7 DEF Fail
  <2>3. /\ x # "worker" => job' = job
        /\ \A k \in Kinds \ {run[x].kind} : job'[k] = job[k]
    BY <1>7, OtherJobs
  <2> QED BY <1>2, <2>1, <2>2, <2>3, Ended
<1>8. CASE Crash(x)
  <2>1. UNCHANGED <<depth, req, stamp, lost>> /\ Becomes(x, Idle)
    BY <1>8 DEF Crash, data
  <2>2. /\ x # "worker" => job' = job
        /\ \A k \in Kinds \ {run[x].kind} : job'[k] = job[k]
    BY <1>8, OtherJobs
  <2>3. \/ answered' = answered /\ (x = "worker" => ~Syncing)
        \/ answered' = answered /\ job'["refresh"].state = "waiting"
        \/ Forced(x) /\ answered' = stamp
    <3>1. CASE Forced(x) /\ job[run[x].kind].stalled
      BY <1>8, <3>1 DEF Crash
    <3>2. CASE ~Forced(x)
      BY <1>8, <3>2 DEF Crash, Forced, Syncing
    <3>3. CASE Forced(x) /\ ~job[run[x].kind].stalled /\ x # "worker"
      BY <1>8, <3>3 DEF Crash
    <3>4. CASE Forced(x) /\ ~job[run[x].kind].stalled /\ x = "worker"
      <4>1. job' = [job EXCEPT !["refresh"] =
                      [job["refresh"] EXCEPT !.state = "waiting", !.stalled = TRUE]]
        BY <1>8, <3>4 DEF Crash, Forced
      <4>2. "refresh" \in Kinds /\ job["refresh"] \in Job
        BY DEF TypeOK, Kinds
      <4>3. job'["refresh"].state = "waiting"
        BY <4>1, <4>2 DEF TypeOK, Job
      <4>4. answered' = answered
        BY <1>8, <3>4 DEF Crash
      <4> QED BY <4>3, <4>4
    <3> QED BY <3>1, <3>2, <3>3, <3>4
  <2> QED BY <2>1, <2>2, <2>3, Ended
<1> QED BY <1>4, <1>5, <1>6, <1>7, <1>8

\* The beginning of a sweep, and of a collection in the caller's request.
LEMMA StartEffects ==
  ASSUME TypeOK, Ordered, NEW x \in Procs, SweepFrom(x) \/ Collect(x)
  PROVE  RunEffect(x) /\ JobEffect(x)
<1>1. run[x] \in Run
  BY DEF TypeOK
<1>2. CASE SweepFrom(x)
  <2>1. /\ run'[x] = [run[x] EXCEPT !.pc = "delete", !.upTo = DepthDays(depth),
                                    !.stamp = stamp]
        /\ \A y \in Procs \ {x} : run'[y] = run[y]
    BY <1>2, OthersKept DEF SweepFrom
  <2>2. /\ run'[x].pc = "delete" /\ run'[x].upTo = DepthDays(depth)
        /\ run'[x].stamp = stamp /\ run'[x].kind = run[x].kind
    BY <1>1, <2>1 DEF Run
  <2>3. run'[x].stamp <= stamp
    BY <2>2 DEF TypeOK
  <2>4. UNCHANGED <<depth, job, req, seen>> /\ run[x].pc = "sweep"
    BY <1>2 DEF SweepFrom, data
  <2>5. RunEffect(x)
    BY <2>1, <2>2, <2>3, <2>4 DEF RunEffect, seen
  <2>6. JobEffect(x)
    BY <2>2, <2>4 DEF JobEffect, Syncing, seen
  <2> QED BY <2>5, <2>6
<1>3. CASE Collect(x)
  <2>1. /\ run'[x] = At("sync", "collect", Null)
        /\ \A y \in Procs \ {x} : run'[y] = run[y]
    BY <1>3, OthersKept DEF Collect
  <2>2. run'[x].pc = "sync" /\ run'[x].stamp = 0
    BY <2>1 DEF At
  <2>3. run'[x].stamp <= stamp
    BY <2>2 DEF TypeOK
  <2>4. UNCHANGED <<depth, job, req, seen>> /\ x # "worker"
    BY <1>3, CollectionAssumption DEF Collect, data
  <2>5. RunEffect(x)
    BY <2>1, <2>2, <2>3, <2>4 DEF RunEffect, seen
  <2>6. JobEffect(x)
    BY <2>4 DEF JobEffect
  <2> QED BY <2>5, <2>6
<1> QED BY <1>2, <1>3

\* Every step of a run, at a glance.
Step(x) ==
  \/ Collect(x) \/ RunStep(x) \/ Refused(x) \/ SyncThrew(x) \/ RebuildThrew(x)
  \/ Fail(x) \/ Crash(x)

\* Every step of a run has the effects named above on runs and on jobs.
LEMMA StepEffects ==
  ASSUME TypeOK, Ordered, NEW x \in Procs, Step(x)
  PROVE  RunEffect(x) /\ JobEffect(x)
BY StartEffects, SyncEffects, ReplayEffects, EndEffects DEF Step, RunStep

\* Only a whole listing and a sweep touch how far the store reaches.
LEMMA StepKeepsDepth ==
  ASSUME TypeOK, Ordered, DepthsCurrent, DepthIsKept, NEW x \in Procs, Step(x)
  PROVE  held' <= stamp' /\ DepthIsKept'
<1>1. stamp' = stamp /\ depth' = depth
  BY StepEffects DEF RunEffect
<1>2. /\ run[x].upTo \in 0 .. MaxDays /\ run[x].stamp \in Nat
      /\ DepthDays(depth) \in 0 .. MaxDays /\ stamp \in Nat /\ deep \in Nat
      /\ MaxDays \in Nat /\ Margin \in Nat
  BY RunFields, DepthDaysType, CollectionAssumption DEF TypeOK
<1>3. CASE Listed(x)
  <2>1. CASE run[x].full
    <3>1. deep' = (IF deep > run[x].upTo THEN deep ELSE run[x].upTo) /\ held' = run[x].stamp
          /\ run[x].pc = "list"
      BY <1>3, <2>1 DEF Listed
    <3>2. held' <= stamp
      <4>1. run[x].stamp <= stamp
        BY DEF Ordered
      <4> QED BY <3>1, <4>1
    <3>3. held' = stamp => deep' >= DepthDays(depth)
      <4>1. held' = stamp => run[x].upTo = DepthDays(depth)
        BY <3>1 DEF DepthsCurrent
      <4>2. deep' >= run[x].upTo
        BY <1>2, <3>1
      <4> QED BY <4>1, <4>2
    <3> QED BY <1>1, <3>2, <3>3 DEF DepthIsKept
  <2>2. CASE ~run[x].full
    BY <1>1, <1>3, <2>2 DEF Listed, DepthIsKept, Ordered
  <2> QED BY <2>1, <2>2
<1>4. CASE Delete(x)
  <2>1. /\ deep' = (IF deep > run[x].upTo + Margin THEN run[x].upTo + Margin ELSE deep)
        /\ held' = (IF run[x].stamp = stamp THEN held ELSE 0)
        /\ run[x].pc = "delete"
    BY <1>4 DEF Delete, Kept
  <2>2. held' <= stamp
    BY <1>2, <2>1 DEF Ordered
  <2>3. held' = stamp => deep' >= DepthDays(depth)
    <3> SUFFICES ASSUME held' = stamp PROVE deep' >= DepthDays(depth)
      OBVIOUS
    <3>1. run[x].stamp = stamp /\ held = stamp
      BY <2>1 DEF Ordered, TypeOK
    <3>2. run[x].upTo = DepthDays(depth)
      BY <2>1, <3>1 DEF DepthsCurrent
    <3> QED BY <1>2, <2>1, <3>1, <3>2 DEF DepthIsKept
  <2> QED BY <1>1, <2>2, <2>3 DEF DepthIsKept
<1>5. CASE ~Listed(x) /\ ~Delete(x)
  <2>1. UNCHANGED <<deep, held>>
    <3> USE DEF data, seen
    <3>1. CASE Collect(x) \/ SyncFrom(x) \/ ReplayDepth(x) \/ Gather(x) \/ Replace(x)
      BY <3>1 DEF Collect, SyncFrom, ReplayDepth, Gather, Replace
    <3>2. CASE Count(x) \/ Capture(x) \/ Rest(x) \/ SweepFrom(x)
      BY <3>2 DEF Count, Capture, Rest, SweepFrom
    <3>3. CASE Refused(x) \/ SyncThrew(x) \/ RebuildThrew(x) \/ Fail(x) \/ Crash(x)
      BY <3>3 DEF Refused, SyncThrew, RebuildThrew, Fail, Crash
    <3> QED BY <1>5, <3>1, <3>2, <3>3 DEF Step, RunStep
  <2> QED BY <1>1, <2>1 DEF DepthIsKept, Ordered
<1> QED BY <1>3, <1>4, <1>5

\* No request is ahead of the last stamp.
LEMMA ReqBehind ==
  ASSUME TypeOK, Ordered, NEW a \in Admins
  PROVE  ~(stamp < req[a].stamp) /\ req[a].stamp \in Nat
<1>1. req[a].stamp \in Nat
  BY DEF TypeOK, Req
<1>2. stamp \in Nat /\ req[a].stamp <= stamp
  BY DEF TypeOK, Ordered
<1> QED BY <1>1, <1>2

\* A step of a run keeps the invariant.
LEMMA StepKeepsInv ==
  ASSUME TypeOK, CollectionInv, NEW x \in Procs, Step(x)
  PROVE  CollectionInv'
<1> USE DEF CollectionInv
<1>1. RunEffect(x) /\ JobEffect(x) /\ held' <= stamp' /\ DepthIsKept'
  BY StepEffects, StepKeepsDepth
<1>2. "worker" \in Procs /\ "refresh" \in Kinds /\ run["worker"].kind \in Kinds
  BY RunFields DEF Procs, Kinds, TypeOK
<1>3. stamp' = stamp /\ depth' = depth /\ req' = req /\ lost' = lost
      /\ answered' \in {answered, stamp}
  BY <1>1 DEF RunEffect
<1>4. Ordered'
  <2>1. \A y \in Procs : run'[y].stamp <= stamp
    BY <1>1 DEF RunEffect, Ordered
  <2>2. answered' <= stamp
    BY <1>3 DEF Ordered, TypeOK
  <2> QED BY <1>1, <1>3, <2>1, <2>2 DEF Ordered
<1>5. DepthsCurrent'
  BY <1>1 DEF RunEffect, DepthsCurrent
<1>6. WorkerHolds'
  <2>1. CASE x # "worker"
    BY <1>1, <1>2, <2>1 DEF RunEffect, JobEffect, WorkerHolds
  <2>2. CASE x = "worker"
    BY <1>1, <1>2, <2>2 DEF JobEffect, WorkerHolds
  <2> QED BY <2>1, <2>2
<1>7. \A a \in Admins : /\ Unanswered(a)' => Unanswered(a) /\ answered' = answered
                        /\ Unanswered(a) => answered # stamp
  <2> TAKE a \in Admins
  <2>1. ~(stamp < req[a].stamp)
    BY ReqBehind
  <2> QED BY <1>3, <2>1 DEF Unanswered
<1>8. \A a \in Admins : Owed(a)' => Owed(a) /\ Unanswered(a) /\ answered' = answered
  <2> TAKE a \in Admins
  <2>1. ~(stamp < req[a].stamp)
    BY ReqBehind
  <2> QED BY <1>3, <2>1 DEF Unanswered, Owed
<1>9. ASSUME answered' = answered, \E a \in Admins : Unanswered(a)
      PROVE  /\ job'["refresh"].state \in {"none", "waiting"} \/ Syncing'
             /\ OnItsWay => OnItsWay'
  <2>1. answered # stamp
    BY <1>7, <1>9
  <2>2. CASE x # "worker"
    <3>1. job' = job /\ run'["worker"] = run["worker"]
      BY <1>1, <1>2, <2>2 DEF RunEffect, JobEffect
    <3> QED BY <1>3, <1>9, <3>1 DEF Pending, Syncing, OnItsWay
  <2>3. CASE x = "worker" /\ Syncing
    BY <1>1, <1>9, <2>1, <2>3 DEF JobEffect, OnItsWay
  <2>4. CASE x = "worker" /\ ~Syncing /\ run[x].kind = "refresh" /\ run[x].pc # "idle"
    BY <1>9, <2>4 DEF Pending, WorkerHolds
  <2>5. CASE x = "worker" /\ run[x].kind # "refresh"
    <3>1. job'["refresh"] = job["refresh"]
      BY <1>1, <1>2, <2>5 DEF JobEffect
    <3> QED BY <1>3, <1>9, <2>5, <3>1 DEF Pending, Syncing, OnItsWay
  <2>6. CASE x = "worker" /\ run[x].pc = "idle"
    BY <2>6, CollectionAssumption
       DEF Step, RunStep, Collect, SyncFrom, Listed, ReplayDepth, Gather, Replace, Count,
           Capture, Rest, SweepFrom, Delete, Refused, SyncThrew, RebuildThrew, Fail, Crash
  <2> QED BY <2>2, <2>3, <2>4, <2>5, <2>6
<1>10. Pending'
  BY <1>7, <1>9 DEF Pending
<1>11. AcceptedIsRead'
  <2> SUFFICES ASSUME ~lost', NEW a \in Admins, Owed(a)'
               PROVE  OnItsWay'
    BY DEF AcceptedIsRead
  <2>1. Owed(a) /\ Unanswered(a) /\ answered' = answered
    BY <1>8
  <2>2. OnItsWay
    BY <1>3, <2>1 DEF AcceptedIsRead
  <2> QED BY <1>9, <2>1, <2>2
<1> QED BY <1>1, <1>4, <1>5, <1>6, <1>10, <1>11

----------------------------------------------------------------------------
(* The requests and the queue.                                             *)

\* A request replaced leaves the others as they are.
LEMMA OthersAsk ==
  ASSUME TypeOK, NEW a \in Admins, NEW r, Request(a, r)
  PROVE  req'[a] = r /\ \A b \in Admins \ {a} : req'[b] = req[b]
BY DEF TypeOK, Request

\* What a step of a request may do: move, be numbered, be told.
AskEffect(a) ==
  /\ run' = run /\ deep' = deep /\ held' = held /\ answered' = answered
  /\ \A b \in Admins \ {a} : req'[b] = req[b]
  /\ (stamp' = stamp /\ depth' = depth) \/ stamp' = stamp + 1
  /\ req'[a].stamp <= stamp'

\* What it may do to the re-read under way.
RereadEffect(a) ==
  \/ /\ req'[a].pc \notin {"add", "accepted"} /\ job' = job
     /\ lost' \/ (lost' = lost /\ ~(req[a].kind = "refresh" /\ req[a].pc = "add"))
  \/ /\ req'[a].kind = "refresh" /\ req'[a].pc = "add" /\ lost' = lost
     /\ job'["refresh"].state = "none" /\ \A k \in Kinds \ {"refresh"} : job'[k] = job[k]
     /\ job["refresh"].state # "active"
  \/ /\ req'[a].kind = "refresh" /\ req'[a].pc = "accepted" /\ lost' = lost
     /\ job["refresh"].state = "none" /\ job'["refresh"].state = "waiting"
     /\ \A k \in Kinds \ {"refresh"} : job'[k] = job[k]
  \/ /\ req'[a].kind = "refresh" /\ req'[a].pc = "accepted" /\ lost' = lost
     /\ req[a].kind = "refresh" /\ req[a].pc = "add" /\ req'[a].stamp = req[a].stamp
     /\ job' = job /\ job["refresh"].state # "none"
  \/ /\ req'[a].kind # "refresh" /\ req[a].kind # "refresh" /\ lost' = lost
     /\ job'["refresh"] = job["refresh"]
     /\ \A k \in Kinds : job[k].state = "active" => job'[k] = job[k]

\* Every step of a request has the effects named above on it and on the job it asks for.
LEMMA AskEffects ==
  ASSUME TypeOK, Ordered, NEW a \in Admins, Ask(a) \/ ReqStep(a) \/ Break(a)
  PROVE  AskEffect(a) /\ RereadEffect(a)
<1>1. /\ req[a] \in Req /\ req[a].kind \in Kinds /\ req[a].kind \in {"refresh", "rebuild"}
      /\ req[a].stamp \in Nat /\ stamp \in Nat /\ req[a].stamp <= stamp
      /\ "refresh" \in Kinds /\ job \in [Kinds -> Job] /\ lost \in BOOLEAN
  BY DEF TypeOK, Req, Kinds, Ordered
<1>2. stamp <= stamp + 1 /\ stamp + 1 <= stamp + 1 /\ 0 <= stamp
  BY <1>1
<1>3. CASE Ask(a)
  <2>1. PICK kind \in {"refresh", "rebuild"}, days \in Depths \cup {Null} :
          Request(a, [pc |-> "spec", kind |-> kind, days |-> days, stamp |-> 0])
    BY <1>3 DEF Ask
  <2>2. /\ req'[a] = [pc |-> "spec", kind |-> kind, days |-> days, stamp |-> 0]
        /\ \A b \in Admins \ {a} : req'[b] = req[b]
    BY <2>1, OthersAsk
  <2>3. req'[a].pc = "spec" /\ req'[a].stamp = 0
    BY <2>2
  <2>4. UNCHANGED <<data, job, run, seen>> /\ req[a].pc \in AtRest
    BY <1>3 DEF Ask
  <2> QED BY <1>2, <2>2, <2>3, <2>4 DEF AskEffect, RereadEffect, data, seen, AtRest
<1>4. CASE ReadSpec(a)
  <2>1. PICK n \in {req[a].stamp, stamp + 1}, pc \in {"get", "depth"} :
          /\ Request(a, [req[a] EXCEPT !.pc = pc, !.stamp = n])
          /\ (stamp' = stamp /\ n = req[a].stamp) \/ stamp' = stamp + 1
    <3>1. /\ [req[a] EXCEPT !.pc = "get"] = [req[a] EXCEPT !.pc = "get", !.stamp = req[a].stamp]
          /\ [req[a] EXCEPT !.pc = "depth"] = [req[a] EXCEPT !.pc = "depth", !.stamp = req[a].stamp]
      BY <1>1 DEF Req
    <3> QED BY <1>4, <3>1 DEF ReadSpec, Moved
  <2>2. /\ req'[a] = [req[a] EXCEPT !.pc = pc, !.stamp = n]
        /\ \A b \in Admins \ {a} : req'[b] = req[b]
    BY <2>1, OthersAsk
  <2>3. req'[a].pc = pc /\ req'[a].stamp = n
    BY <1>1, <2>2 DEF Req
  <2>4. req'[a].stamp <= stamp'
    BY <1>1, <2>1, <2>3
  <2>5. UNCHANGED <<data, job, run, answered, held, lost>> /\ req[a].pc = "spec"
    BY <1>4 DEF ReadSpec
  <2>6. AskEffect(a)
    BY <2>1, <2>2, <2>4, <2>5 DEF AskEffect, data
  <2>7. RereadEffect(a)
    BY <2>3, <2>5 DEF RereadEffect
  <2> QED BY <2>6, <2>7
<1>5. CASE SetHistoryDays(a)
  <2>1. /\ req'[a] = [req[a] EXCEPT !.pc = "get", !.stamp = stamp + 1, !.days = Null]
        /\ \A b \in Admins \ {a} : req'[b] = req[b]
    BY <1>5, OthersAsk DEF SetHistoryDays
  <2>2. req'[a].pc = "get" /\ req'[a].stamp = stamp + 1
    BY <1>1, <2>1 DEF Req
  <2>3. UNCHANGED <<deep, job, run, answered, held, lost>> /\ req[a].pc = "depth"
        /\ stamp' = stamp + 1
    BY <1>5 DEF SetHistoryDays
  <2>4. req'[a].stamp <= stamp'
    BY <1>1, <2>2, <2>3
  <2>5. AskEffect(a)
    BY <2>1, <2>3, <2>4 DEF AskEffect
  <2>6. RereadEffect(a)
    BY <2>2, <2>3 DEF RereadEffect
  <2> QED BY <2>5, <2>6
<1>6. ASSUME NEW pc, Moved(a, pc), UNCHANGED <<data, run, stamp, answered, held>>
      PROVE  /\ AskEffect(a) /\ req'[a].pc = pc /\ req'[a].kind = req[a].kind
             /\ req'[a].stamp = req[a].stamp
  <2>1. /\ req'[a] = [req[a] EXCEPT !.pc = pc] /\ \A b \in Admins \ {a} : req'[b] = req[b]
    BY <1>6, OthersAsk DEF Moved
  <2>2. req'[a].pc = pc /\ req'[a].kind = req[a].kind /\ req'[a].stamp = req[a].stamp
    BY <1>1, <2>1 DEF Req
  <2>3. req'[a].stamp <= stamp'
    BY <1>1, <1>6, <2>2
  <2> QED BY <1>6, <2>1, <2>2, <2>3 DEF AskEffect, data
<1>7. ASSUME Told(a), UNCHANGED <<data, run, stamp, answered, held>>
      PROVE  AskEffect(a) /\ req'[a].pc = "idle"
  <2>1. /\ req'[a] = NoReq /\ \A b \in Admins \ {a} : req'[b] = req[b]
    BY <1>7, OthersAsk DEF Told
  <2>2. req'[a].pc = "idle" /\ req'[a].stamp = 0
    BY <2>1, Blanks
  <2>3. req'[a].stamp <= stamp'
    BY <1>2, <1>7, <2>2
  <2> QED BY <1>7, <2>1, <2>2, <2>3 DEF AskEffect, data
<1>8. CASE GetJob(a)
  <2>1. PICK pc : Moved(a, pc) /\ pc = (IF job[req[a].kind].state = "none" THEN "add" ELSE "state")
    BY <1>8 DEF GetJob
  <2>2. UNCHANGED <<data, job, run, seen>> /\ req[a].pc = "get"
    BY <1>8 DEF GetJob
  <2>3. /\ AskEffect(a) /\ req'[a].pc = pc /\ req'[a].kind = req[a].kind
    BY <1>6, <2>1, <2>2 DEF seen
  <2>4. RereadEffect(a)
    BY <1>1, <2>1, <2>2, <2>3 DEF RereadEffect, seen
  <2> QED BY <2>3, <2>4
<1>9. CASE GetState(a)
  <2>1. UNCHANGED <<data, job, run, seen>> /\ req[a].pc = "state"
    BY <1>9 DEF GetState
  <2>2. AskEffect(a) /\ req'[a].pc \in {"idle", "remove"}
    BY <1>6, <1>7, <1>9, <2>1 DEF GetState, seen
  <2>3. RereadEffect(a)
    BY <2>1, <2>2 DEF RereadEffect, seen
  <2> QED BY <2>2, <2>3
<1>10. CASE Remove(a)
  <2>1. UNCHANGED <<data, run, seen>> /\ req[a].pc = "remove"
    BY <1>10 DEF Remove
  <2>2. CASE Told(a) /\ UNCHANGED job
    BY <1>7, <2>1, <2>2 DEF RereadEffect, seen
  <2>3. CASE /\ Moved(a, "add") /\ job[req[a].kind].state # "active"
             /\ job' = [job EXCEPT ![req[a].kind] = NoJob]
    <3>1. AskEffect(a) /\ req'[a].pc = "add" /\ req'[a].kind = req[a].kind
      BY <1>6, <2>1, <2>3 DEF seen
    <3>2. /\ job'[req[a].kind].state = "none"
          /\ \A k \in Kinds \ {req[a].kind} : job'[k] = job[k]
      BY <1>1, <2>3, Blanks
    <3>3. RereadEffect(a)
      BY <1>1, <2>1, <2>3, <3>1, <3>2 DEF RereadEffect, seen
    <3> QED BY <3>1, <3>3
  <2> QED BY <1>10, <2>2, <2>3 DEF Remove
<1>11. CASE Enqueue(a)
  <2>1. UNCHANGED <<data, run, seen>> /\ req[a].pc = "add"
    BY <1>11 DEF Enqueue
  <2>2. /\ req'[a] = [req[a] EXCEPT !.pc = "accepted", !.days = Null]
        /\ \A b \in Admins \ {a} : req'[b] = req[b]
    BY <1>11, OthersAsk DEF Enqueue
  <2>3. /\ req'[a].pc = "accepted" /\ req'[a].kind = req[a].kind
        /\ req'[a].stamp = req[a].stamp
    BY <1>1, <2>2 DEF Req
  <2>4. AskEffect(a)
    <3>1. req'[a].stamp <= stamp'
      BY <1>1, <2>1, <2>3 DEF seen
    <3> QED BY <2>1, <2>2, <3>1 DEF AskEffect, data, seen
  <2>5. CASE job[req[a].kind].state = "none"
    <3>1. req[a].days \in 0 .. MaxDays
      BY <1>1 DEF Req
    <3>2. /\ job'[req[a].kind].state = "waiting"
          /\ \A k \in Kinds \ {req[a].kind} : job'[k] = job[k]
      BY <1>1, <1>11, <2>5, <3>1, WaitingType DEF Enqueue
    <3>3. RereadEffect(a)
      BY <1>1, <2>1, <2>3, <2>5, <3>2 DEF RereadEffect, seen
    <3> QED BY <2>4, <3>3
  <2>6. CASE job[req[a].kind].state # "none"
    <3>1. job' = job
      BY <1>11, <2>6 DEF Enqueue
    <3>2. RereadEffect(a)
      BY <1>1, <2>1, <2>3, <2>6, <3>1 DEF RereadEffect, seen
    <3> QED BY <2>4, <3>2
  <2> QED BY <2>5, <2>6
<1>12. CASE Break(a)
  <2>1. /\ UNCHANGED <<data, job, run, stamp, answered, held>> /\ Told(a)
        /\ lost' = (lost \/ (req[a].kind = "refresh" /\ req[a].pc = "add"))
    BY <1>12 DEF Break
  <2>2. AskEffect(a) /\ req'[a].pc = "idle"
    BY <1>7, <2>1
  <2>3. lost' \/ (lost' = lost /\ ~(req[a].kind = "refresh" /\ req[a].pc = "add"))
    <3>1. CASE req[a].kind = "refresh" /\ req[a].pc = "add"
      BY <2>1, <3>1
    <3>2. CASE ~(req[a].kind = "refresh" /\ req[a].pc = "add")
      BY <1>1, <2>1, <3>2
    <3> QED BY <3>1, <3>2
  <2>4. RereadEffect(a)
    BY <2>1, <2>2, <2>3 DEF RereadEffect
  <2> QED BY <2>2, <2>4
<1> QED BY <1>3, <1>4, <1>5, <1>8, <1>9, <1>10, <1>11, <1>12 DEF ReqStep

\* A step of a request keeps the invariant.
LEMMA AskKeepsInv ==
  ASSUME TypeOK, CollectionInv, NEW a \in Admins, Ask(a) \/ ReqStep(a) \/ Break(a)
  PROVE  CollectionInv'
<1> USE DEF CollectionInv
<1>1. AskEffect(a) /\ RereadEffect(a)
  BY AskEffects
<1>2. run' = run /\ deep' = deep /\ held' = held /\ answered' = answered
  BY <1>1 DEF AskEffect
<1>3. /\ stamp \in Nat /\ held \in Nat /\ answered \in Nat
      /\ \A b \in Admins : req[b].stamp \in Nat /\ \A x \in Procs : run[x].stamp \in Nat
      /\ "worker" \in Procs /\ "refresh" \in Kinds /\ run["worker"].kind \in Kinds
  <2>1. \A x \in Procs : run[x].stamp \in Nat
    BY RunFields DEF TypeOK
  <2>2. \A b \in Admins : req[b].stamp \in Nat
    BY DEF TypeOK, Req
  <2>3. "worker" \in Procs /\ "refresh" \in Kinds /\ run["worker"].kind \in Kinds
    BY RunFields DEF TypeOK, Procs, Kinds
  <2> QED BY <2>1, <2>2, <2>3 DEF TypeOK
<1>4. (stamp' = stamp /\ depth' = depth) \/ stamp' = stamp + 1
  BY <1>1 DEF AskEffect
<1>5. Ordered'
  <2>1. \A b \in Admins : req'[b].stamp <= stamp'
    <3> TAKE b \in Admins
    <3>1. CASE b = a
      BY <1>1, <3>1 DEF AskEffect
    <3>2. CASE b # a
      <4>1. req'[b] = req[b] /\ req[b].stamp <= stamp
        BY <1>1, <3>2 DEF AskEffect, Ordered
      <4> QED BY <1>3, <1>4, <4>1
    <3> QED BY <3>1, <3>2
  <2>2. \A x \in Procs : run[x].stamp <= stamp'
    BY <1>3, <1>4 DEF Ordered
  <2>3. stamp' > 0 /\ answered <= stamp' /\ held <= stamp'
    BY <1>3, <1>4 DEF Ordered
  <2> QED BY <1>2, <2>1, <2>2, <2>3 DEF Ordered
<1>6. DepthsCurrent' /\ DepthIsKept'
  <2>1. CASE stamp' = stamp /\ depth' = depth
    BY <1>2, <2>1 DEF DepthsCurrent, DepthIsKept
  <2>2. CASE stamp' = stamp + 1
    <3>1. held' # stamp' /\ \A x \in Procs : run'[x].stamp # stamp'
      BY <1>2, <1>3, <2>2 DEF Ordered
    <3> QED BY <3>1 DEF DepthsCurrent, DepthIsKept
  <2> QED BY <1>4, <2>1, <2>2
<1>7. WorkerHolds'
  <2>1. \A k \in Kinds : job[k].state = "active" => job'[k] = job[k]
    BY <1>1, <1>3 DEF RereadEffect
  <2> QED BY <1>2, <1>3, <2>1 DEF WorkerHolds
<1>8. \A b \in Admins \ {a} : /\ Unanswered(b)' <=> Unanswered(b)
                              /\ Owed(b)' <=> Owed(b)
  BY <1>1, <1>2 DEF AskEffect, Unanswered, Owed
<1>9. Syncing' <=> Syncing
  BY <1>2 DEF Syncing
<1>10. Pending' /\ AcceptedIsRead'
  <2>1. CASE /\ req'[a].pc \notin {"add", "accepted"} /\ job' = job
             /\ lost' \/ (lost' = lost /\ ~(req[a].kind = "refresh" /\ req[a].pc = "add"))
    <3>1. ~Unanswered(a)' /\ ~Owed(a)'
      BY <2>1 DEF Unanswered, Owed
    <3>2. Pending'
      BY <1>8, <1>9, <2>1, <3>1 DEF Pending
    <3>3. ASSUME lost' = lost, ~(req[a].kind = "refresh" /\ req[a].pc = "add"), OnItsWay
          PROVE  OnItsWay'
      BY <1>1, <1>2, <2>1, <3>3 DEF OnItsWay, AskEffect
    <3> QED BY <1>8, <2>1, <3>1, <3>2, <3>3 DEF AcceptedIsRead
  <2>2. CASE /\ req'[a].kind = "refresh" /\ req'[a].pc = "add"
             /\ job'["refresh"].state = "none"
    <3>1. OnItsWay'
      BY <2>2 DEF OnItsWay
    <3> QED BY <2>2, <3>1 DEF Pending, AcceptedIsRead
  <2>3. CASE job'["refresh"].state = "waiting"
    BY <2>3 DEF Pending, AcceptedIsRead, OnItsWay
  <2>4. CASE /\ req'[a].kind = "refresh" /\ req'[a].pc = "accepted" /\ lost' = lost
             /\ req[a].kind = "refresh" /\ req[a].pc = "add" /\ req'[a].stamp = req[a].stamp
             /\ job' = job /\ job["refresh"].state # "none"
    <3>1. Unanswered(a)' <=> Unanswered(a)
      BY <1>2, <2>4 DEF Unanswered
    <3>2. \A b \in Admins : Owed(b)' => Unanswered(b)'
      BY DEF Owed, Unanswered
    <3>3. Pending'
      BY <1>8, <1>9, <2>4, <3>1 DEF Pending
    <3>4. job'["refresh"].state = "waiting" \/ Syncing' => OnItsWay'
      BY DEF OnItsWay, Syncing
    <3> QED BY <2>4, <3>2, <3>3, <3>4 DEF Pending, AcceptedIsRead
  <2>5. CASE /\ req'[a].kind # "refresh" /\ req[a].kind # "refresh" /\ lost' = lost
             /\ job'["refresh"] = job["refresh"]
    <3>1. ~Unanswered(a)' /\ ~Owed(a)'
      BY <2>5 DEF Unanswered, Owed
    <3>2. Pending'
      BY <1>8, <1>9, <2>5, <3>1 DEF Pending
    <3>3. OnItsWay => OnItsWay'
      BY <1>1, <1>2, <2>5 DEF OnItsWay, AskEffect
    <3> QED BY <1>8, <2>5, <3>1, <3>2, <3>3 DEF AcceptedIsRead
  <2> QED BY <1>1, <2>1, <2>2, <2>3, <2>4, <2>5 DEF RereadEffect
<1> QED BY <1>5, <1>6, <1>7, <1>10

\* An edit of the source numbers a new depth, which nothing has read yet.
LEMMA UpdateKeepsInv ==
  ASSUME TypeOK, CollectionInv, UpdateSource
  PROVE  CollectionInv'
<1> USE DEF CollectionInv
<1>1. UNCHANGED <<job, run, req, answered, held, lost>> /\ stamp' = stamp + 1
  BY DEF UpdateSource
<1>2. /\ stamp \in Nat /\ held \in Nat /\ answered \in Nat
      /\ \A x \in Procs : run[x].stamp \in Nat
      /\ \A a \in Admins : req[a].stamp \in Nat
  <2>1. \A x \in Procs : run[x].stamp \in Nat
    BY RunFields DEF TypeOK
  <2>2. \A a \in Admins : req[a].stamp \in Nat
    BY ReqBehind
  <2> QED BY <2>1, <2>2 DEF TypeOK
<1>3. Ordered'
  BY <1>1, <1>2 DEF Ordered
<1>4. DepthsCurrent' /\ DepthIsKept'
  <2>1. held' # stamp' /\ \A x \in Procs : run'[x].stamp # stamp'
    BY <1>1, <1>2 DEF Ordered
  <2> QED BY <2>1 DEF DepthsCurrent, DepthIsKept
<1>5. WorkerHolds' /\ Pending' /\ AcceptedIsRead'
  BY <1>1 DEF WorkerHolds, Pending, Unanswered, Syncing, AcceptedIsRead, Owed, OnItsWay
<1> QED BY <1>3, <1>4, <1>5

\* A step of the queue, the schedules and the background-jobs page keeps the
\* invariant.
LEMMA QueueKeepsInv ==
  ASSUME TypeOK, CollectionInv, NEW k \in Kinds,
         Retry(k) \/ Discard(k) \/ Evict(k) \/ Schedule(k) \/ Take(k)
  PROVE  CollectionInv'
<1> USE DEF CollectionInv
<1>1. /\ "worker" \in Procs /\ "refresh" \in Kinds /\ run["worker"].kind \in Kinds
      /\ job \in [Kinds -> Job] /\ job[k] \in Job /\ job[k].days \in 0 .. MaxDays
  BY RunFields DEF TypeOK, Procs, Kinds, Job
<1>2. /\ UNCHANGED <<depth, deep, req, stamp, answered, held>>
      /\ \A j \in Kinds \ {k} : job'[j] = job[j]
  <2>1. UNCHANGED <<data, req, stamp, answered, held>>
    BY DEF Retry, Discard, Evict, Schedule, Take, seen
  <2>2. \A j \in Kinds \ {k} : job'[j] = job[j]
    BY <1>1 DEF Retry, Discard, Evict, Schedule, Take
  <2> QED BY <2>1, <2>2 DEF data
<1>3. /\ \A a \in Admins : (Unanswered(a)' <=> Unanswered(a)) /\ (Owed(a)' <=> Owed(a))
      /\ \A a \in Admins : Owed(a) => Unanswered(a)
  BY <1>2 DEF Unanswered, Owed
<1>4. DepthIsKept'
  BY <1>2 DEF DepthIsKept
<1>5. CASE ~Take(k)
  <2>1. run' = run /\ (lost => lost')
    <3>1. CASE Retry(k) \/ Evict(k) \/ Schedule(k)
      BY <3>1 DEF Retry, Evict, Schedule, seen
    <3>2. CASE Discard(k)
      <4>1. lost' = (lost \/ (k = "refresh" /\ job[k].state = "waiting")) /\ run' = run
        BY <3>2 DEF Discard
      <4> QED BY <4>1
    <3> QED BY <1>5, <3>1, <3>2
  <2>2. Ordered' /\ DepthsCurrent' /\ (Syncing' <=> Syncing)
    BY <1>2, <2>1 DEF Ordered, DepthsCurrent, Syncing
  <2>3. job[k].state # "active"
    BY <1>5 DEF Retry, Discard, Evict, Schedule, Settled
  <2>4. WorkerHolds'
    BY <1>1, <1>2, <2>1, <2>3 DEF WorkerHolds
  <2>5. Syncing => job["refresh"].state = "active"
    BY DEF Syncing, WorkerHolds
  <2>6. CASE k # "refresh"
    <3>1. job'["refresh"] = job["refresh"]
      BY <1>1, <1>2, <2>6
    <3>2. Pending'
      BY <1>3, <2>2, <3>1 DEF Pending
    <3>3. OnItsWay' <=> OnItsWay
      BY <1>2, <2>1, <3>1 DEF OnItsWay
    <3>4. AcceptedIsRead'
      BY <1>3, <2>1, <3>3 DEF AcceptedIsRead
    <3> QED BY <1>4, <2>2, <2>4, <3>2, <3>4
  <2>7. CASE k = "refresh" /\ job["refresh"].state = "waiting"
    <3>1. lost' /\ job'["refresh"].state = "none"
      <4>1. Discard(k)
        BY <1>5, <2>7 DEF Retry, Evict, Schedule, Settled
      <4>2. lost' = (lost \/ (k = "refresh" /\ job[k].state = "waiting"))
        BY <4>1 DEF Discard
      <4>3. job'["refresh"].state = "none"
        BY <1>1, <2>7, <4>1, Blanks DEF Discard
      <4> QED BY <2>7, <4>2, <4>3
    <3> QED BY <1>4, <2>2, <2>4, <3>1 DEF Pending, AcceptedIsRead
  <2>8. CASE k = "refresh" /\ job["refresh"].state # "waiting"
    <3>1. CASE Retry(k)
      <4>1. job'["refresh"].state = "waiting"
        <5>1. job' = [job EXCEPT !["refresh"].state = "waiting"]
          BY <2>8, <3>1 DEF Retry
        <5> QED BY <1>1, <5>1 DEF Job
      <4>2. OnItsWay'
        BY <4>1 DEF OnItsWay
      <4> QED BY <1>4, <2>2, <2>4, <4>1, <4>2 DEF Pending, AcceptedIsRead
    <3>2. CASE ~Retry(k)
      <4>1. job["refresh"].state \in {"completed", "failed"}
        <5>1. job["refresh"].state \in JobStates
          BY <1>1 DEF Job
        <5>2. Discard(k) \/ Evict(k)
          BY <1>5, <2>8, <3>2 DEF Schedule, Scheduled
        <5> QED BY <2>8, <5>1, <5>2 DEF Discard, Evict, JobStates
      <4>2. \A a \in Admins : ~Unanswered(a)
        BY <2>5, <4>1 DEF Pending
      <4>3. \A a \in Admins : ~Unanswered(a)' /\ ~Owed(a)'
        BY <1>3, <4>2
      <4>4. Pending' /\ AcceptedIsRead'
        BY <4>3 DEF Pending, AcceptedIsRead
      <4> QED BY <1>4, <2>2, <2>4, <4>4
    <3> QED BY <3>1, <3>2
  <2> QED BY <2>6, <2>7, <2>8
<1>6. CASE Take(k)
  <2> DEFINE r == At(FirstStep(k), k, job[k].days)
  <2>1. /\ run'["worker"] = r /\ \A y \in Procs \ {"worker"} : run'[y] = run[y]
    BY <1>1, <1>6, OthersKept DEF Take
  <2>2. /\ r.pc \in {"sync", "gather", "sweep"} /\ r.stamp = 0 /\ r.kind = k
        /\ k = "refresh" => r.pc = "sync"
    BY DEF At, FirstStep
  <2> HIDE DEF r
  <2>3. lost' = lost /\ run["worker"].pc = "idle" /\ job'[k].state = "active"
    <3>1. job' = [job EXCEPT ![k].state = "active"]
      BY <1>6 DEF Take
    <3>2. job'[k].state = "active"
      BY <1>1, <3>1 DEF Job
    <3> QED BY <1>6, <3>2 DEF Take, seen
  <2>4. Ordered'
    <3>1. 0 <= stamp
      BY DEF TypeOK
    <3>2. \A y \in Procs : run'[y].stamp <= stamp
      BY <2>1, <2>2, <3>1 DEF Ordered
    <3> QED BY <1>2, <3>2 DEF Ordered
  <2>5. DepthsCurrent'
    BY <1>2, <2>1, <2>2 DEF DepthsCurrent
  <2>6. WorkerHolds'
    BY <2>1, <2>2, <2>3 DEF WorkerHolds
  <2>7. CASE k = "refresh"
    <3>1. Syncing' /\ OnItsWay'
      BY <2>1, <2>2, <2>7 DEF Syncing, OnItsWay
    <3> QED BY <1>4, <2>4, <2>5, <2>6, <3>1 DEF Pending, AcceptedIsRead
  <2>8. CASE k # "refresh"
    <3>1. job'["refresh"] = job["refresh"] /\ ~Syncing
      BY <1>1, <1>2, <2>3, <2>8 DEF Syncing
    <3>2. Pending'
      BY <1>3, <3>1 DEF Pending
    <3>3. OnItsWay => OnItsWay'
      BY <1>2, <3>1 DEF OnItsWay, Syncing
    <3>4. AcceptedIsRead'
      BY <1>3, <2>3, <3>3 DEF AcceptedIsRead
    <3> QED BY <1>4, <2>4, <2>5, <2>6, <3>2, <3>4
  <2> QED BY <2>7, <2>8
<1> QED BY <1>5, <1>6

\* A source at its first ingestion satisfies the invariant.
LEMMA InitInv == ASSUME Init PROVE CollectionInv
<1>1. TypeOK
  BY InitTypes
<1>2. /\ stamp = 1 /\ answered = 1 /\ held = 0
      /\ run = [x \in Procs |-> Idle] /\ req = [a \in Admins |-> NoReq]
  BY DEF Init
<1>3. /\ \A x \in Procs : run[x].pc = "idle" /\ run[x].stamp = 0
      /\ "worker" \in Procs
  BY <1>2 DEF Idle, At, Procs
<1>4. \A a \in Admins : req[a].pc = "idle" /\ req[a].stamp = 0
  BY <1>2, Blanks
<1>5. Ordered
  BY <1>2, <1>3, <1>4 DEF Ordered
<1>6. DepthsCurrent /\ WorkerHolds
  BY <1>3 DEF DepthsCurrent, WorkerHolds
<1>7. Pending /\ AcceptedIsRead
  BY <1>4 DEF Pending, Unanswered, AcceptedIsRead, Owed
<1>8. DepthIsKept
  BY <1>2 DEF DepthIsKept
<1> QED BY <1>5, <1>6, <1>7, <1>8 DEF CollectionInv

\* The invariant holds throughout.
THEOREM CollectionInvariant == Spec => []CollectionInv
<1>1. Init => CollectionInv
  BY InitInv
<1>2. TypeOK /\ CollectionInv /\ [Next]_vars => CollectionInv'
  <2> SUFFICES ASSUME TypeOK, CollectionInv, [Next]_vars PROVE CollectionInv'
    OBVIOUS
  <2>1. CASE UNCHANGED vars
    BY <2>1 DEF vars, data, bounds, seen, CollectionInv, Ordered, DepthsCurrent,
                DepthIsKept, WorkerHolds, Pending, Unanswered, Syncing,
                AcceptedIsRead, Owed, OnItsWay
  <2>2. CASE Next
    BY <2>2, AskKeepsInv, UpdateKeepsInv, QueueKeepsInv, StepKeepsInv DEF Next, Step
  <2> QED BY <2>1, <2>2
<1> QED BY <1>1, <1>2, CollectionTypeCorrect, PTL DEF Spec

\* A caller given a handle by queueRefresh is given a run that reads the depth
\* it wrote, unless a queued re-read was discarded or removed and not put back.
THEOREM AcceptedRereadIsRead == Spec => []AcceptedIsRead
<1>1. CollectionInv => AcceptedIsRead
  BY DEF CollectionInv
<1> QED BY <1>1, CollectionInvariant, PTL

\* Once a whole listing has read the source at its depth, retention keeps the
\* store at that depth.
THEOREM StoreKeepsDepth == Spec => []DepthIsKept
<1>1. CollectionInv => DepthIsKept
  BY DEF CollectionInv
<1> QED BY <1>1, CollectionInvariant, PTL

----------------------------------------------------------------------------
(* A deep re-read is whole.                                                *)

\* Only the worker replays, sweeps and re-reads: a collection asked for on the
\* spot reads the store and adds to it.
DirectsCollect ==
  \A x \in Direct :
    run[x].kind = "collect" /\ run[x].pc \in {"idle", "sync", "list", "capture", "rest"}

\* What a re-read that nothing has refused holds at each of its steps, while
\* the depth is the one it read.
DeepRunHolds ==
  LET w == run["worker"] IN
  w.kind = "refresh" /\ w.listed /\ w.stamp = stamp =>
    /\ w.pc = "list" => w.full
    /\ w.pc \in {"spec", "gather"} => deep >= DepthDays(depth)
    /\ w.pc = "gather" => w.days = depth
    /\ w.pc = "replace" /\ w.whole =>
         w.days = DepthDays(depth) /\ w.found >= DepthDays(depth)
    /\ w.pc \in {"count", "capture", "rest"} /\ w.whole =>
         1 .. DepthDays(depth) \subseteq history

DeepInv == DirectsCollect /\ DeepRunHolds

\* A step of somebody else that takes nothing from the store, or that writes
\* the depth again.
LEMMA OthersSpareDeepRun ==
  ASSUME TypeOK, Ordered, DeepRunHolds, run'["worker"] = run["worker"],
         \/ stamp' = stamp + 1
         \/ /\ stamp' = stamp /\ depth' = depth
            /\ deep' \in Nat /\ deep' >= deep /\ history \subseteq history'
  PROVE  DeepRunHolds'
<1>1. "worker" \in Procs
  BY DEF Procs
<1>2. /\ run["worker"].stamp <= stamp /\ stamp \in Nat /\ run["worker"].stamp \in Nat
      /\ DepthDays(depth) \in 0 .. MaxDays /\ deep \in Nat
  BY <1>1, RunFields, DepthDaysType DEF Ordered, TypeOK
<1>3. CASE stamp' = stamp + 1
  BY <1>2, <1>3 DEF DeepRunHolds
<1>4. CASE /\ stamp' = stamp /\ depth' = depth
           /\ deep' \in Nat /\ deep' >= deep /\ history \subseteq history'
  <2>1. deep >= DepthDays(depth) => deep' >= DepthDays(depth)'
    BY <1>2, <1>4
  <2> QED
    BY <1>4, <2>1 DEF DeepRunHolds
<1> QED
  BY <1>3, <1>4

\* The requests, the queue and the source's form leave the readings alone.
LEMMA AsksSpareDeepRun ==
  ASSUME TypeOK, Ordered, DeepInv,
         \/ UpdateSource
         \/ \E a \in Admins : Ask(a) \/ ReqStep(a) \/ Break(a)
         \/ \E k \in Kinds : Retry(k) \/ Discard(k) \/ Evict(k) \/ Schedule(k)
  PROVE  DeepInv'
<1> USE DEF data, seen, bounds
<1>1. run' = run /\ deep' = deep /\ history' = history
  <2>1. ASSUME NEW a \in Admins, Ask(a) \/ ReqStep(a) \/ Break(a)
        PROVE  run' = run /\ deep' = deep /\ history' = history
    BY <2>1 DEF Ask, ReqStep, Break, ReadSpec, SetHistoryDays, GetJob, GetState, Remove,
       Enqueue
  <2>2. ASSUME NEW k \in Kinds, Retry(k) \/ Discard(k) \/ Evict(k) \/ Schedule(k)
        PROVE  run' = run /\ deep' = deep /\ history' = history
    BY <2>2 DEF Retry, Discard, Evict, Schedule
  <2> QED
    BY <2>1, <2>2 DEF UpdateSource
<1>2. stamp' = stamp + 1 \/ (stamp' = stamp /\ depth' = depth)
  <2>1. ASSUME NEW a \in Admins, Ask(a) \/ ReqStep(a) \/ Break(a)
        PROVE  stamp' = stamp + 1 \/ (stamp' = stamp /\ depth' = depth)
    BY <2>1 DEF Ask, ReqStep, Break, ReadSpec, SetHistoryDays, GetJob, GetState, Remove,
       Enqueue
  <2>2. ASSUME NEW k \in Kinds, Retry(k) \/ Discard(k) \/ Evict(k) \/ Schedule(k)
        PROVE  stamp' = stamp /\ depth' = depth
    BY <2>2 DEF Retry, Discard, Evict, Schedule
  <2> QED
    BY <2>1, <2>2 DEF UpdateSource
<1>3. deep \in Nat
  BY DEF TypeOK
<1>4. DeepRunHolds'
  BY <1>1, <1>2, <1>3, OthersSpareDeepRun DEF DeepInv
<1> QED
  BY <1>1, <1>4 DEF DeepInv, DirectsCollect

\* A run that goes on under the same kind, with the same reading of the depth.
Same(r, q) == r.kind = q.kind /\ r.stamp = q.stamp /\ r.listed = q.listed

\* The run a step leaves, by the step.
LEMMA RunMoves ==
  ASSUME TypeOK, NEW x \in Procs
  PROVE  LET q == run[x]
             r == run'[x] IN
         /\ SyncFrom(x) => /\ r.pc = "list" /\ r.kind = q.kind /\ (Forced(x) => r.full)
         /\ Listed(x) => r.pc = AfterSync(x) /\ Same(r, q)
         /\ Refused(x) \/ SyncThrew(x) => r.pc = AfterSync(x) /\ r.kind = q.kind /\ ~r.listed
         /\ ReplayDepth(x) => r.pc = "gather" /\ Same(r, q) /\ r.days = depth
         /\ Gather(x) => /\ r.pc = "replace" /\ Same(r, q)
                         /\ r.whole => r.days = ReplayDays(q.days) /\ r.found = deep
         /\ Replace(x) => r.pc = "count" /\ Same(r, q) /\ r.whole = q.whole
         /\ Count(x) => \/ r = Idle
                        \/ r.pc = "capture" /\ Same(r, q) /\ r.whole = q.whole
         /\ RebuildThrew(x) => r.pc = "capture" /\ ~r.whole
         /\ Capture(x) => r.pc = "rest" /\ Same(r, q) /\ r.whole = q.whole
         /\ SweepFrom(x) => r.pc = "delete"
         /\ Rest(x) \/ Delete(x) \/ Fail(x) \/ Crash(x) => r = Idle
         /\ Collect(x) => r.pc = "sync" /\ r.kind = "collect" /\ x \in Direct
<1> DEFINE q == run[x]
<1>0. q \in Run
  BY DEF TypeOK
<1>a. ASSUME NEW r, Becomes(x, r) PROVE run'[x] = r
  BY <1>a, OthersKept
<1>1. ASSUME SyncFrom(x)
      PROVE  run'[x].pc = "list" /\ run'[x].kind = q.kind /\ (Forced(x) => run'[x].full)
  <2>1. PICK due \in BOOLEAN :
          Becomes(x, [q EXCEPT !.pc = "list", !.full = Forced(x) \/ due,
                               !.upTo = DepthDays(depth), !.stamp = stamp])
    BY <1>1 DEF SyncFrom
  <2>2. run'[x] = [q EXCEPT !.pc = "list", !.full = Forced(x) \/ due,
                            !.upTo = DepthDays(depth), !.stamp = stamp]
    BY <1>a, <2>1
  <2>3. run'[x].pc = "list" /\ run'[x].kind = q.kind /\ run'[x].full = (Forced(x) \/ due)
    BY <1>0, <2>2 DEF Run
  <2> QED
    BY <2>3
<1>2. ASSUME Listed(x) PROVE run'[x].pc = AfterSync(x) /\ Same(run'[x], q)
  <2>1. run'[x] = [q EXCEPT !.pc = AfterSync(x), !.full = FALSE, !.upTo = Null]
    BY <1>2, <1>a DEF Listed
  <2> QED
    BY <1>0, <2>1 DEF Run, Same
<1>3. ASSUME Refused(x) \/ SyncThrew(x)
      PROVE  run'[x].pc = AfterSync(x) /\ run'[x].kind = q.kind /\ ~run'[x].listed
  <2>1. \/ run'[x] = [q EXCEPT !.pc = AfterSync(x), !.listed = FALSE]
        \/ run'[x] = [q EXCEPT !.pc = AfterSync(x), !.listed = FALSE, !.warned = TRUE]
    BY <1>3, <1>a DEF Refused, SyncThrew
  <2> QED
    BY <1>0, <2>1 DEF Run
<1>4. ASSUME ReplayDepth(x)
      PROVE  run'[x].pc = "gather" /\ Same(run'[x], q) /\ run'[x].days = depth
  <2>1. run'[x] = [q EXCEPT !.pc = "gather", !.days = depth]
    BY <1>4, <1>a DEF ReplayDepth
  <2> QED
    BY <1>0, <2>1 DEF Run, Same
<1>5. ASSUME Gather(x)
      PROVE  /\ run'[x].pc = "replace" /\ Same(run'[x], q)
             /\ run'[x].whole => run'[x].days = ReplayDays(q.days) /\ run'[x].found = deep
  <2>1. \/ run'[x] = [q EXCEPT !.pc = "replace", !.found = deep, !.days = ReplayDays(q.days)]
        \/ run'[x] = [q EXCEPT !.pc = "replace", !.found = 0, !.days = ReplayDays(q.days),
                               !.whole = FALSE]
    BY <1>5, <1>a DEF Gather
  <2> QED
    BY <1>0, <2>1 DEF Run, Same
<1>6. ASSUME Replace(x)
      PROVE  run'[x].pc = "count" /\ Same(run'[x], q) /\ run'[x].whole = q.whole
  <2>1. run'[x] = [q EXCEPT !.pc = "count"]
    BY <1>6, <1>a DEF Replace
  <2> QED
    BY <1>0, <2>1 DEF Run, Same
<1>7. ASSUME Count(x)
      PROVE  \/ run'[x] = Idle
             \/ run'[x].pc = "capture" /\ Same(run'[x], q) /\ run'[x].whole = q.whole
  <2>1. run'[x] \in {Idle, [q EXCEPT !.pc = "capture"]}
    BY <1>7, <1>a DEF Count, Done
  <2> QED
    BY <1>0, <2>1 DEF Run, Same
<1>8. ASSUME RebuildThrew(x) PROVE run'[x].pc = "capture" /\ ~run'[x].whole
  <2>1. run'[x] = [q EXCEPT !.pc = "capture", !.whole = FALSE, !.warned = TRUE]
    BY <1>8, <1>a DEF RebuildThrew
  <2> QED
    BY <1>0, <2>1 DEF Run
<1>9. ASSUME Capture(x)
      PROVE  run'[x].pc = "rest" /\ Same(run'[x], q) /\ run'[x].whole = q.whole
  <2>1. run'[x] = [q EXCEPT !.pc = "rest"]
    BY <1>9, <1>a DEF Capture
  <2> QED
    BY <1>0, <2>1 DEF Run, Same
<1>10. ASSUME SweepFrom(x) PROVE run'[x].pc = "delete"
  <2>1. run'[x] = [q EXCEPT !.pc = "delete", !.upTo = DepthDays(depth), !.stamp = stamp]
    BY <1>10, <1>a DEF SweepFrom
  <2> QED
    BY <1>0, <2>1 DEF Run
<1>11. ASSUME Rest(x) \/ Delete(x) \/ Fail(x) \/ Crash(x) PROVE run'[x] = Idle
  BY <1>11, <1>a DEF Rest, Delete, Fail, Crash, Done
<1>12. ASSUME Collect(x)
       PROVE  run'[x].pc = "sync" /\ run'[x].kind = "collect" /\ x \in Direct
  <2>1. run'[x] = At("sync", "collect", Null) /\ x \in Direct
    BY <1>12, <1>a DEF Collect
  <2> QED
    BY <2>1 DEF At
<1> QED
  BY <1>1, <1>2, <1>3, <1>4, <1>5, <1>6, <1>7, <1>8, <1>9, <1>10, <1>11, <1>12

\* A collection asked for on the spot spares the worker's re-read.
LEMMA DirectSparesDeepRun ==
  ASSUME TypeOK, Ordered, DeepInv, NEW x \in Direct, Step(x)
  PROVE  DeepInv'
<1> USE DEF data, seen, bounds
<1>0. x \in Procs /\ x # "worker" /\ "worker" \in Procs /\ Direct \subseteq Procs
  BY CollectionAssumption DEF Procs
<1>1. /\ stamp' = stamp /\ depth' = depth
      /\ \A y \in Procs \ {x} : run'[y] = run[y]
  BY <1>0, StepEffects DEF RunEffect
<1>2. run[x].kind = "collect" /\ run[x].pc \in {"idle", "sync", "list", "capture", "rest"}
  BY DEF DeepInv, DirectsCollect
<1>3. \/ Collect(x) \/ SyncFrom(x) \/ Listed(x) \/ Refused(x) \/ SyncThrew(x)
      \/ Capture(x) \/ Rest(x) \/ Fail(x) \/ Crash(x)
  BY <1>2 DEF Step, RunStep, ReplayDepth, Gather, Replace, Count, SweepFrom, Delete,
     RebuildThrew
<1>4. /\ run'[x].kind = "collect"
      /\ run'[x].pc \in {"idle", "sync", "list", "capture", "rest"}
  <2>1. AfterSync(x) = "capture" /\ Idle.kind = "collect" /\ Idle.pc = "idle"
    BY <1>2 DEF AfterSync, Forced, Idle, At
  <2> QED
    BY <1>0, <1>2, <1>3, <2>1, RunMoves DEF Same
<1>5. deep' \in Nat /\ deep' >= deep /\ history \subseteq history'
  <2>1. CASE Listed(x)
    <3>1. run[x].upTo \in Nat /\ deep \in Nat
      BY <1>0, RunFields DEF TypeOK
    <3> QED
      BY <2>1, <3>1 DEF Listed
  <2>2. CASE Rest(x)
    BY <2>2 DEF Rest, TypeOK
  <2>3. CASE ~Listed(x) /\ ~Rest(x)
    <3>1. deep' = deep /\ history' = history
      BY <1>3, <2>3 DEF Collect, SyncFrom, Refused, SyncThrew, Capture, Fail, Crash
    <3>2. deep \in Nat
      BY DEF TypeOK
    <3> QED
      BY <3>1, <3>2
  <2> QED
    BY <2>1, <2>2, <2>3
<1>6. DeepRunHolds'
  BY <1>0, <1>1, <1>5, OthersSpareDeepRun DEF DeepInv
<1>7. DirectsCollect'
  BY <1>0, <1>1, <1>4 DEF DeepInv, DirectsCollect
<1> QED
  BY <1>6, <1>7 DEF DeepInv

\* The worker takes a re-read through its steps.
LEMMA WorkerKeepsDeepRun ==
  ASSUME TypeOK, Ordered, DepthsCurrent, DeepInv, Step("worker")
  PROVE  DeepInv'
<1> USE DEF data, seen, bounds
<1> DEFINE w == run["worker"]
<1>0. "worker" \in Procs /\ "worker" \notin Direct /\ Direct \subseteq Procs
  BY CollectionAssumption DEF Procs
<1>1. /\ stamp' = stamp /\ depth' = depth
      /\ \A y \in Procs \ {"worker"} : run'[y] = run[y]
  BY <1>0, StepEffects DEF RunEffect
<1>2. DirectsCollect'
  BY <1>0, <1>1 DEF DeepInv, DirectsCollect
<1>3. /\ w \in Run /\ w.upTo \in Nat /\ w.found \in Nat /\ deep \in Nat
      /\ DepthDays(depth) \in Nat /\ depth \in 0 .. MaxDays
  BY <1>0, RunFields, DepthDaysType DEF TypeOK
<1>4. Idle.kind = "collect"
  BY DEF Idle, At
<1>5. SUFFICES ASSUME /\ run'["worker"].kind = "refresh" /\ run'["worker"].listed
                      /\ run'["worker"].stamp = stamp
               PROVE  DeepRunHolds'
  BY <1>1, <1>2 DEF DeepInv, DeepRunHolds
<1>6. w.kind = "refresh" => AfterSync("worker") = "spec" /\ Forced("worker")
  BY DEF AfterSync, Forced
<1>7. CASE SyncFrom("worker")
  <2>1. run'["worker"].pc = "list" /\ run'["worker"].kind = w.kind
        /\ (Forced("worker") => run'["worker"].full)
    BY <1>0, <1>7, RunMoves
  <2> QED
    BY <1>5, <1>6, <2>1 DEF DeepRunHolds
<1>8. CASE Listed("worker")
  <2>1. /\ run'["worker"].pc = AfterSync("worker") /\ w.pc = "list"
        /\ w.kind = "refresh" /\ w.stamp = stamp /\ w.listed
    BY <1>0, <1>5, <1>8, RunMoves DEF Same, Listed
  <2>2. w.full /\ w.upTo = DepthDays(depth)
    BY <1>0, <2>1 DEF DeepInv, DeepRunHolds, DepthsCurrent
  <2>3. deep' >= DepthDays(depth)
    BY <1>3, <1>8, <2>2 DEF Listed
  <2> QED
    BY <1>1, <1>6, <2>1, <2>3 DEF DeepRunHolds
<1>9. CASE ReplayDepth("worker")
  <2>1. /\ run'["worker"].pc = "gather" /\ run'["worker"].days = depth /\ w.pc = "spec"
        /\ w.kind = "refresh" /\ w.stamp = stamp /\ w.listed /\ deep' = deep
    BY <1>0, <1>5, <1>9, RunMoves DEF Same, ReplayDepth
  <2>2. deep >= DepthDays(depth)
    BY <2>1 DEF DeepInv, DeepRunHolds
  <2> QED
    BY <1>1, <2>1, <2>2 DEF DeepRunHolds
<1>10. CASE Gather("worker")
  <2>1. /\ run'["worker"].pc = "replace" /\ w.pc = "gather"
        /\ w.kind = "refresh" /\ w.stamp = stamp /\ w.listed
        /\ run'["worker"].whole =>
             run'["worker"].days = ReplayDays(w.days) /\ run'["worker"].found = deep
    BY <1>0, <1>5, <1>10, RunMoves DEF Same, Gather
  <2>2. deep >= DepthDays(depth) /\ w.days = depth
    BY <2>1 DEF DeepInv, DeepRunHolds
  <2>3. ReplayDays(depth) = DepthDays(depth)
    BY DEF ReplayDays, DepthDays
  <2> QED
    BY <1>1, <2>1, <2>2, <2>3 DEF DeepRunHolds
<1>11. CASE Replace("worker")
  <2>1. /\ run'["worker"].pc = "count" /\ w.pc = "replace"
        /\ run'["worker"].whole = w.whole
        /\ w.kind = "refresh" /\ w.stamp = stamp /\ w.listed
        /\ history' = Replayed(w.days, w.found)
    BY <1>0, <1>5, <1>11, RunMoves DEF Same, Replace
  <2>2. w.whole => 1 .. DepthDays(depth) \subseteq history'
    <3> SUFFICES ASSUME w.whole, NEW d \in 1 .. DepthDays(depth) PROVE d \in history'
      OBVIOUS
    <3>1. w.days = DepthDays(depth) /\ w.found >= DepthDays(depth)
      BY <2>1 DEF DeepInv, DeepRunHolds
    <3>2. d <= w.found
      BY <1>3, <3>1
    <3> QED
      BY <2>1, <3>1, <3>2 DEF Replayed
  <2> QED
    BY <1>1, <2>1, <2>2 DEF DeepRunHolds
<1>12. CASE Count("worker") \/ Capture("worker")
  <2>1. /\ run'["worker"].pc \in {"capture", "rest"} /\ w.pc \in {"count", "capture"}
        /\ run'["worker"].whole = w.whole
        /\ w.kind = "refresh" /\ w.stamp = stamp /\ w.listed
    BY <1>0, <1>4, <1>5, <1>12, RunMoves DEF Same, Count, Capture
  <2>2. history' = history
    BY <1>12 DEF Count, Capture
  <2>3. w.whole => 1 .. DepthDays(depth) \subseteq history
    BY <2>1 DEF DeepInv, DeepRunHolds
  <2> QED
    BY <1>1, <2>1, <2>2, <2>3 DEF DeepRunHolds
<1>13. CASE RebuildThrew("worker")
  <2>1. run'["worker"].pc = "capture" /\ ~run'["worker"].whole
    BY <1>0, <1>13, RunMoves
  <2> QED
    BY <2>1 DEF DeepRunHolds
<1>14. CASE SweepFrom("worker")
  <2>1. run'["worker"].pc = "delete"
    BY <1>0, <1>14, RunMoves
  <2> QED
    BY <2>1 DEF DeepRunHolds
<1>15. CASE \/ Refused("worker") \/ SyncThrew("worker") \/ Rest("worker")
            \/ Delete("worker") \/ Fail("worker") \/ Crash("worker") \/ Collect("worker")
  BY <1>0, <1>4, <1>5, <1>15, RunMoves
<1> QED
  BY <1>7, <1>8, <1>9, <1>10, <1>11, <1>12, <1>13, <1>14, <1>15 DEF Step, RunStep

\* The worker takes a job.
LEMMA TakeKeepsDeepRun ==
  ASSUME TypeOK, DeepInv, NEW k \in Kinds, Take(k)
  PROVE  DeepInv'
<1>0. "worker" \in Procs /\ "worker" \notin Direct /\ Direct \subseteq Procs
  BY CollectionAssumption DEF Procs
<1>1. /\ run'["worker"] = At(FirstStep(k), k, job[k].days)
      /\ \A y \in Procs \ {"worker"} : run'[y] = run[y]
  BY <1>0, OthersKept DEF Take
<1>2. run'["worker"].kind = "refresh" => run'["worker"].pc = "sync"
  BY <1>1 DEF At, FirstStep
<1> QED
  BY <1>0, <1>1, <1>2 DEF DeepInv, DirectsCollect, DeepRunHolds

\* A deep re-read in which everything was read, at a depth nobody changed in
\* the meantime, ends with a reading for every day of that depth, whatever the
\* collections, requests and failures beside it.
THEOREM DeepRereadIsWhole == Spec => DeepRunIsWhole
<1> USE DEF data, seen, bounds
<1> DEFINE Whole ==
      run["worker"].kind = "refresh" /\ run["worker"].pc = "rest"
        /\ run'["worker"].pc = "idle" /\ job'["refresh"].state = "completed"
        /\ run["worker"].listed /\ run["worker"].whole /\ run["worker"].stamp = stamp
      => 1 .. DepthDays(depth) \subseteq history'
<1>1. Init => DeepInv
  <2>1. Init => \A x \in Procs : run[x] = Idle
    BY DEF Init
  <2>2. Idle.kind = "collect" /\ Idle.pc = "idle"
    BY DEF Idle, At
  <2> QED
    BY <2>1, <2>2 DEF DeepInv, DirectsCollect, DeepRunHolds, Procs
<1>2. TypeOK /\ CollectionInv /\ DeepInv /\ [Next]_vars => DeepInv'
  <2> SUFFICES ASSUME TypeOK, CollectionInv, DeepInv, [Next]_vars PROVE DeepInv'
    OBVIOUS
  <2>1. CASE UNCHANGED vars
    BY <2>1 DEF vars, DeepInv, DirectsCollect, DeepRunHolds
  <2>2. ASSUME NEW x \in Procs, Step(x) PROVE DeepInv'
    BY <2>2, DirectSparesDeepRun, WorkerKeepsDeepRun DEF CollectionInv, Procs
  <2>3. CASE Next
    BY <2>2, <2>3, AsksSpareDeepRun, TakeKeepsDeepRun DEF Next, Step, CollectionInv
  <2> QED
    BY <2>1, <2>3
<1>3. TypeOK /\ CollectionInv /\ DeepInv /\ [Next]_vars => Whole
  <2> SUFFICES ASSUME TypeOK, CollectionInv, DeepInv, [Next]_vars,
                      run["worker"].kind = "refresh", run["worker"].pc = "rest",
                      run'["worker"].pc = "idle",
                      run["worker"].listed, run["worker"].whole, run["worker"].stamp = stamp
               PROVE  1 .. DepthDays(depth) \subseteq history'
    OBVIOUS
  <2>1. 1 .. DepthDays(depth) \subseteq history
    BY DEF DeepInv, DeepRunHolds
  <2>2. Step("worker")
    <3>1. run' # run /\ "worker" \in Procs
      BY DEF Procs
    <3>2. ASSUME NEW x \in Direct, Step(x) PROVE FALSE
      BY <3>2, StepEffects, CollectionAssumption DEF RunEffect, CollectionInv, Procs
    <3>3. \A k \in Kinds : ~Take(k)
      BY DEF Take
    <3>4. ASSUME NEW a \in Admins, Ask(a) \/ ReqStep(a) \/ Break(a) PROVE run' = run
      BY <3>4 DEF Ask, ReqStep, Break, ReadSpec, SetHistoryDays, GetJob, GetState, Remove,
         Enqueue
    <3>5. ASSUME NEW k \in Kinds, Retry(k) \/ Discard(k) \/ Evict(k) \/ Schedule(k)
          PROVE  run' = run
      BY <3>5 DEF Retry, Discard, Evict, Schedule
    <3>6. UpdateSource \/ UNCHANGED vars => run' = run
      BY DEF UpdateSource, vars
    <3> QED
      BY <3>1, <3>2, <3>3, <3>4, <3>5, <3>6 DEF Next, Step, Procs
  <2>3. Rest("worker") \/ Crash("worker")
    BY <2>2, CollectionAssumption DEF Step, RunStep, Collect, SyncFrom, Listed, ReplayDepth, Gather, Replace,
       Count, Capture, SweepFrom, Delete, Refused, SyncThrew, RebuildThrew, Fail
  <2>4. history \subseteq history'
    BY <2>3 DEF Rest, Crash
  <2> QED
    BY <2>1, <2>4
<1> QED
  BY <1>1, <1>2, <1>3, CollectionTypeCorrect, CollectionInvariant, PTL
     DEF Spec, DeepRunIsWhole
============================================================================
