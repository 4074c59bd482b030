----------------------- MODULE PullRequestStoreProofs -----------------------
(***************************************************************************)
(* Proofs about PullRequestStore, for any set of pull requests, runs and   *)
(* workers and any bounds.                                                 *)
(***************************************************************************)
EXTENDS PullRequestStore, TLAPS

USE DEF Null

\* What merge.ts returns is a row.
LEMMA MergeOpenType ==
  ASSUME NEW stored \in PullRequestRow \cup {NoRow}, NEW r \in Reading, NEW t \in Nat
  PROVE  MergeOpenPullRequest(stored, r, t) \in PullRequestRow
<1>1. stored.exists => stored \in PullRequestRow
  BY DEF NoRow
<1> QED
  BY <1>1 DEF MergeOpenPullRequest, PullRequestRow, Reading, NoRow, Coalesce,
              SettledState, PullRequestStates

\* What the merged feed leaves in a row is a row.
LEMMA MergeMergedType ==
  ASSUME NEW stored \in PullRequestRow \cup {NoRow}, NEW r \in MergedReading,
         NEW t \in Nat
  PROVE  MergeMergedPullRequest(stored, r, t) \in PullRequestRow
<1>1. stored.exists => stored \in PullRequestRow
  BY DEF NoRow
<1> QED
  BY <1>1 DEF MergeMergedPullRequest, PullRequestRow, MergedReading, NoRow,
              PullRequestStates

\* The fields of a row or of its absence.
LEMMA RowFields ==
  ASSUME NEW row \in PullRequestRow
  PROVE  /\ row.exists /\ row.state \in PullRequestStates
         /\ row.updatedAt \in Nat /\ row.mergedAt \in Nat
BY DEF PullRequestRow

\* The fields of a reading or of its absence.
LEMMA ReadingFields ==
  ASSUME NEW r \in Reading
  PROVE  r.exists /\ r.updatedAt \in Nat /\ r.mergedAt \in Nat
BY DEF Reading

\* The bound of a delta is a date.
LEMMA SinceType ==
  ASSUME NEW c \in Nat, NEW t \in Nat, NEW w \in Nat, NEW full
  PROVE  MergedSince(c, t, w, full) \in Nat
BY CadenceAssumption DEF MergedSince, Before

\* A process at rest is well formed.
LEMMA IdleType == Idle \in Process
BY DEF Idle, Process, Steps, Readings, MergedReadings

\* Each way an action updates a process leaves it a process.
LEMMA StepType ==
  ASSUME NEW q \in Process, NEW s \in Steps
  PROVE  [q EXCEPT !.pc = s] \in Process
BY DEF Process

\* A process that has loaded and merged the open readings.
LEMMA LoadedType ==
  ASSUME NEW q \in Process, NEW s \in Steps, NEW todo \in [PRs -> PullRequestRow \cup {NoRow}], NEW S \in SUBSET PRs
  PROVE  [q EXCEPT !.pc = s, !.todo = todo, !.stale = S] \in Process
BY DEF Process

\* A process that has loaded and merged the merged readings.
LEMMA MergedLoadedType ==
  ASSUME NEW q \in Process, NEW s \in Steps, NEW todo \in [PRs -> PullRequestRow \cup {NoRow}],
         NEW merges \in [PRs -> MergedReadings]
  PROVE  [q EXCEPT !.pc = s, !.merging = TRUE, !.todo = todo, !.merges = merges] \in Process
BY DEF Process

\* A process done with one of its rows.
LEMMA WrittenType ==
  ASSUME NEW q \in Process, NEW p \in PRs
  PROVE  [q EXCEPT !.todo[p] = NoRow] \in Process
BY DEF Process

\* A process whose update matched nothing.
LEMMA CreatingType ==
  ASSUME NEW q \in Process, NEW s \in Steps, NEW S \in SUBSET PRs
  PROVE  [q EXCEPT !.pc = s, !.creating = S] \in Process
BY DEF Process

\* A process whose create went through, or lost.
LEMMA CreatedType ==
  ASSUME NEW q \in Process, NEW s \in Steps, NEW p \in PRs
  PROVE  [q EXCEPT !.pc = s, !.creating = {}, !.todo[p] = NoRow] \in Process
BY DEF Process

\* A run that has just started.
LEMMA StartedType ==
  ASSUME NEW q \in Process, NEW s \in Steps, NEW n \in Nat, NEW b \in BOOLEAN
  PROVE  [q EXCEPT !.pc = s, !.seenAt = n, !.full = b] \in Process
BY DEF Process

\* A run that knows how far back it lists.
LEMMA BoundedType ==
  ASSUME NEW q \in Process, NEW s \in Steps, NEW n \in Nat, NEW S \in SUBSET PRs
  PROVE  [q EXCEPT !.pc = s, !.unread = S, !.since = n, !.full = FALSE] \in Process
BY DEF Process

\* A run that has read one more pull request.
LEMMA ListedType ==
  ASSUME NEW q \in Process, NEW s \in Steps, NEW p \in PRs, NEW S \in SUBSET PRs, NEW rd \in Readings
  PROVE  [q EXCEPT !.unread = S, !.pc = s, !.reads[p] = rd] \in Process
BY DEF Process

\* A run that has reconciled the board.
LEMMA ClosedType ==
  ASSUME NEW q \in Process, NEW s \in Steps, NEW reads \in [PRs -> Readings]
  PROVE  [q EXCEPT !.pc = s, !.stale = {}, !.reads = reads] \in Process
BY DEF Process

\* A run that has read the merged listing.
LEMMA MergesType ==
  ASSUME NEW q \in Process, NEW s \in Steps, NEW cut \in SUBSET PRs,
         NEW merges \in [PRs -> MergedReadings]
  PROVE  [q EXCEPT !.pc = s, !.cut = cut, !.merges = merges] \in Process
BY DEF Process

\* A worker that has taken a job.
LEMMA TakenType ==
  ASSUME NEW q \in Process, NEW s \in Steps, NEW n \in Nat, NEW k \in Nat, NEW reads \in [PRs -> Readings]
  PROVE  [q EXCEPT !.pc = s, !.seenAt = n, !.tries = k, !.reads = reads] \in Process
BY DEF Process

\* Type correctness: whatever the interleaving, the table holds rows, the
\* queue holds jobs and every process is in a state the code can be in.
THEOREM TypeCorrect == Spec => []TypeOK
<1>1. Init => TypeOK
  BY IdleType DEF Init, TypeOK, ProviderPR, PullRequestStates
<1>2. TypeOK /\ [Next]_vars => TypeOK'
  <2> SUFFICES ASSUME TypeOK, [Next]_vars PROVE TypeOK'
    OBVIOUS
  <2> USE StoreAssumption
  <2>1. ASSUME NEW p \in PRs, NEW state \in PullRequestStates, NEW m \in Nat,
               Change(p, state, m)
        PROVE  TypeOK'
    <3>1. EventReading([state |-> state, updatedAt |-> now, mergedAt |-> m]) \in Reading
      BY DEF EventReading, PullRequestState, Reading, PullRequestStates, TypeOK
    <3>2. queue' \subseteq Job
      BY <2>1, <3>1 DEF Change, Job, TypeOK
    <3> QED
      BY <2>1, <3>2 DEF Change, TypeOK, ProviderPR
  <2>2. CASE ProviderStep
    <3>1. PICK p \in PRs : OpenOrEdit(p) \/ Close(p) \/ Reopen(p) \/ MergeIt(p) \/ EditMerged(p)
      BY <2>2 DEF ProviderStep
    <3>2. now \in Nat /\ prov[p].mergedAt \in Nat
      BY DEF TypeOK, ProviderPR
    <3> QED
      BY <2>1, <3>1, <3>2
         DEF OpenOrEdit, Close, Reopen, MergeIt, EditMerged, PullRequestStates
  <2>3. CASE Tick
    BY <2>3 DEF Tick, TypeOK
  <2>4. CASE Prune
    BY <2>4 DEF Prune, TypeOK
  <2>5. ASSUME NEW x \in Procs, Load(x) PROVE TypeOK'
    <3> DEFINE r == proc[x].reads
               todo == [p \in PRs |-> IF r[p].exists /\ ~IsStale(rows[p], r[p])
                          THEN MergeOpenPullRequest(rows[p], r[p], proc[x].seenAt) ELSE NoRow]
    <3>1. ASSUME NEW p \in PRs, r[p].exists PROVE r[p] \in Reading
      BY <3>1 DEF TypeOK, Process, Readings, NoReading
    <3>2. todo \in [PRs -> PullRequestRow \cup {NoRow}]
      BY <3>1, MergeOpenType DEF TypeOK, Process
    <3> HIDE DEF todo
    <3>3. proc' = [proc EXCEPT ![x].pc = "write", ![x].todo = todo,
             ![x].stale = {p \in PRs : r[p].exists /\ ~(r[p].exists /\ ~IsStale(rows[p], r[p]))}]
      BY <2>5 DEF Load, todo
    <3>4. proc' \in [Procs -> Process]
      BY <3>2, <3>3, LoadedType DEF TypeOK, Steps
    <3> QED
      BY <2>5, <3>4 DEF Load, TypeOK
  <2>6. ASSUME NEW x \in Procs, LoadMerged(x) PROVE TypeOK'
    <3> DEFINE r == proc[x].merges
               todo == [p \in PRs |-> IF r[p].exists
                          THEN MergeMergedPullRequest(rows[p], r[p], proc[x].seenAt) ELSE NoRow]
    <3>1. ASSUME NEW p \in PRs, r[p].exists PROVE r[p] \in MergedReading
      BY <3>1 DEF TypeOK, Process, MergedReadings, NoReading
    <3>2. todo \in [PRs -> PullRequestRow \cup {NoRow}]
      BY <3>1, MergeMergedType DEF TypeOK, Process
    <3> HIDE DEF todo
    <3>3. proc' = [proc EXCEPT ![x].pc = "write", ![x].merging = TRUE, ![x].todo = todo,
                               ![x].merges = Idle.merges]
      BY <2>6 DEF LoadMerged, todo
    <3>4. proc' \in [Procs -> Process]
      <4>1. Idle.merges \in [PRs -> MergedReadings]
        BY IdleType DEF Process
      <4> QED
        BY <3>2, <3>3, <4>1, MergedLoadedType DEF TypeOK, Steps
    <3> QED
      BY <2>6, <3>4 DEF LoadMerged, TypeOK
  <2>7. ASSUME NEW x \in Procs, NEW p \in PRs, Update(x, p) PROVE TypeOK'
    <3>1. proc[x].todo[p] \in PullRequestRow \cup {NoRow}
      BY DEF TypeOK, Process
    <3> QED
      <4>1. CASE UpdateMatches(rows[p], proc[x].todo[p])
        BY <2>7, <3>1, <4>1, WrittenType DEF Update, TypeOK, Wrote
      <4>2. CASE ~UpdateMatches(rows[p], proc[x].todo[p])
        <5>1. {p} \in SUBSET PRs /\ "create" \in Steps
          BY DEF Steps
        <5> QED
          <6>1. proc' = [proc EXCEPT ![x] = [proc[x] EXCEPT !.pc = "create", !.creating = {p}]]
            BY <2>7, <4>2 DEF Update
          <6>2. [proc[x] EXCEPT !.pc = "create", !.creating = {p}] \in Process
            BY <5>1, CreatingType DEF TypeOK
          <6>3. proc' \in [Procs -> Process]
            BY <6>1, <6>2 DEF TypeOK
          <6> QED
            BY <2>7, <4>2, <6>3 DEF Update, TypeOK
      <4> QED
        BY <4>1, <4>2
  <2>8. ASSUME NEW x \in Procs, NEW p \in PRs, Create(x, p) PROVE TypeOK'
    <3>1. proc[x].todo[p] \in PullRequestRow \cup {NoRow}
      BY DEF TypeOK, Process
    <3> QED
      BY <2>8, <3>1, CreatedType DEF Create, TypeOK, Steps, Wrote
  <2>9. ASSUME NEW x \in Procs PROVE TouchStale(x) \in [PRs -> PullRequestRow \cup {NoRow}]
    <3>1. ASSUME NEW p \in PRs, rows[p].exists
          PROVE  [rows[p] EXCEPT !.seenAt = proc[x].seenAt] \in PullRequestRow
      <4>1. proc[x].seenAt \in Nat
        BY DEF TypeOK, Process
      <4>2. rows[p] \in PullRequestRow
        BY <3>1 DEF TypeOK, NoRow
      <4> QED
        BY <4>1, <4>2 DEF PullRequestRow
    <3> QED
      BY <3>1 DEF TouchStale, TypeOK
  <2>10. ASSUME NEW r \in Runs, RunStep(r) PROVE TypeOK'
    <3> r \in Procs
      BY DEF Procs
    <3>1. CASE Start(r)
      <4>1. PICK full \in BOOLEAN :
              proc' = [proc EXCEPT ![r] =
                        [Idle EXCEPT !.pc = "from", !.seenAt = now, !.full = full]]
        BY <3>1 DEF Start
      <4> DEFINE q == [Idle EXCEPT !.pc = "from", !.seenAt = now, !.full = full]
      <4>2. q \in Process
        <5>1. "from" \in Steps /\ now \in Nat
          BY DEF Steps, TypeOK
        <5> QED
          BY <5>1, IdleType, StartedType
      <4> HIDE DEF q
      <4>3. proc' \in [Procs -> Process]
        BY <4>1, <4>2 DEF TypeOK, q
      <4> QED
        BY <3>1, <4>3 DEF Start, TypeOK
    <3>2. CASE MergedFrom(r)
      <4>1. MergedSince(cursor, proc[r].seenAt, Depth, proc[r].full) \in Nat
        BY SinceType DEF TypeOK, Process
      <4> QED
        BY <3>2, <4>1, BoundedType DEF MergedFrom, TypeOK, Steps
    <3>3. ASSUME NEW p \in PRs, ListPullRequest(r, p) PROVE TypeOK'
      <4>1. (IF prov[p].state = "open" THEN ListedReading(prov[p]) ELSE NoReading) \in Readings
        BY DEF ListedReading, Readings, Reading, TypeOK, ProviderPR, PullRequestStates
      <4> QED
        <5>1. proc[r].unread \ {p} \in SUBSET PRs
          BY DEF TypeOK, Process
        <5> QED
          BY <3>3, <4>1, <5>1, ListedType DEF ListPullRequest, TypeOK, Steps
    <3>4. CASE UpsertStep(r)
      BY <3>4, <2>5, <2>7, <2>8 DEF UpsertStep
    <3>5. CASE EndOpenUpsert(r)
      BY <3>5, <2>9, StepType DEF EndOpenUpsert, TypeOK, Steps, Wrote
    <3>6. CASE CloseStalePullRequests(r)
      <4>1. rows' \in [PRs -> PullRequestRow \cup {NoRow}]
        <5>1. ASSUME NEW p \in PRs, rows[p].exists
              PROVE  [rows[p] EXCEPT !.state = "closed", !.seenAt = proc[r].seenAt]
                       \in PullRequestRow
          <6>1. proc[r].seenAt \in Nat
            BY DEF TypeOK, Process
          <6>2. rows[p] \in PullRequestRow
            BY <5>1 DEF TypeOK, NoRow
          <6> QED
            BY <6>1, <6>2 DEF PullRequestRow, PullRequestStates
        <5> QED
          BY <3>6, <5>1 DEF CloseStalePullRequests, IsStaleOnBoard, TypeOK
      <4>2. proc' \in [Procs -> Process]
        <5>1. Idle.reads \in [PRs -> Readings]
          BY IdleType DEF Process
        <5> QED
          BY <3>6, <5>1, ClosedType DEF CloseStalePullRequests, TypeOK, Steps
      <4> QED
        BY <3>6, <4>1, <4>2 DEF CloseStalePullRequests, TypeOK, Wrote
    <3>7. CASE ListMergedPullRequests(r)
      <4>1. PICK e \in SUBSET PRs, c \in SUBSET MergedSinceBound(r) :
              proc' = [proc EXCEPT ![r].pc = "loadMerged", ![r].cut = c,
                ![r].merges = [p \in PRs |->
                   IF p \in MergedSinceBound(r) \ c
                     THEN [exists |-> TRUE, mergedAt |-> prov[p].mergedAt,
                           segments |-> p \in e]
                     ELSE NoReading]]
        BY <3>7 DEF ListMergedPullRequests
      <4>2. proc' \in [Procs -> Process]
        <5> DEFINE m == [p \in PRs |->
                   IF p \in MergedSinceBound(r) \ c
                     THEN [exists |-> TRUE, mergedAt |-> prov[p].mergedAt,
                           segments |-> p \in e]
                     ELSE NoReading]
        <5>1. m \in [PRs -> MergedReadings]
          BY DEF TypeOK, MergedReadings, MergedReading, ProviderPR
        <5>2. c \in SUBSET PRs
          BY DEF MergedSinceBound
        <5> HIDE DEF m
        <5> QED
          BY <4>1, <5>1, <5>2, MergesType DEF TypeOK, Steps, m
      <4> QED
        BY <3>7, <4>2 DEF ListMergedPullRequests, TypeOK
    <3>8. CASE LoadMerged(r)
      BY <3>8, <2>6
    <3>9. CASE Finish(r)
      <4>1. proc[r].seenAt \in Nat
        BY DEF TypeOK, Process
      <4> QED
        BY <3>9, <4>1, IdleType DEF Finish, TypeOK
    <3>10. CASE FailRun(r)
      BY <3>10, IdleType DEF FailRun, TypeOK
    <3> QED
      BY <2>10, <3>1, <3>2, <3>3, <3>4, <3>5, <3>6, <3>7, <3>8, <3>9, <3>10 DEF RunStep
  <2>11. ASSUME NEW w \in Workers, WorkerStep(w) PROVE TypeOK'
    <3> w \in Procs
      BY DEF Procs
    <3>1. ASSUME NEW job \in queue, Take(w, job) PROVE TypeOK'
      <4>1. job.pr \in PRs /\ job.reading \in Readings /\ job.tries \in Nat
        BY DEF TypeOK, Job, Readings
      <4>2. Idle.reads \in [PRs -> Readings]
        BY IdleType DEF Process
      <4>3. proc' \in [Procs -> Process]
        <5>1. [Idle.reads EXCEPT ![job.pr] = job.reading] \in [PRs -> Readings]
          BY <4>1, <4>2
        <5> QED
          <6> DEFINE q == [Idle EXCEPT !.pc = "load", !.seenAt = now, !.tries = job.tries + 1,
                             !.reads = [Idle.reads EXCEPT ![job.pr] = job.reading]]
          <6>1. q \in Process
            <7>1. "load" \in Steps /\ now \in Nat /\ job.tries + 1 \in Nat
              BY <4>1 DEF Steps, TypeOK
            <7> QED
              BY <5>1, <7>1, IdleType, TakenType
          <6> HIDE DEF q
          <6> QED
            BY <3>1, <6>1 DEF Take, TypeOK, q
      <4> QED
        BY <3>1, <4>3 DEF Take, TypeOK
    <3>2. CASE UpsertStep(w)
      BY <3>2, <2>5, <2>7, <2>8 DEF UpsertStep
    <3>3. CASE EndJob(w)
      BY <3>3, <2>9, IdleType DEF EndJob, TypeOK, Wrote
    <3>4. CASE FailJob(w)
      <4>1. ASSUME NEW p \in PRs, proc[w].reads[p].exists PROVE proc[w].reads[p] \in Reading
        BY <4>1 DEF TypeOK, Process, Readings, NoReading
      <4>2. queue' \subseteq Job
        BY <3>4, <4>1 DEF FailJob, TypeOK, Process, Job
      <4> QED
        BY <3>4, <4>2, IdleType DEF FailJob, TypeOK
    <3> QED
      BY <2>11, <3>1, <3>2, <3>3, <3>4 DEF WorkerStep
  <2>12. CASE UNCHANGED vars
    BY <2>12 DEF vars, TypeOK
  <2> QED
    BY <2>2, <2>3, <2>4, <2>10, <2>11, <2>12 DEF Next
<1> QED
  BY <1>1, <1>2, PTL DEF Spec

----------------------------------------------------------------------------
(* What one step can do to a row that exists before and after it.          *)

Overwritten(p) ==
  \E x \in Procs : /\ proc[x].todo[p].exists
                   /\ rows[p].updatedAt <= proc[x].todo[p].updatedAt
                   /\ rows'[p] = proc[x].todo[p]

SameDates(a, b) ==
  a.updatedAt = b.updatedAt /\ a.mergedAt = b.mergedAt

SeenAgain(p) == rows'[p].state = rows[p].state /\ SameDates(rows'[p], rows[p])

Reconciled(p) ==
  /\ rows[p].state = "open" /\ rows'[p].state = "closed"
  /\ SameDates(rows'[p], rows[p])

\* Marking a row as seen touches nothing else; closing it, its state besides.
LEMMA SeenKeeps ==
  ASSUME NEW row \in PullRequestRow, NEW t \in Nat,
         NEW seen, seen = [row EXCEPT !.seenAt = t]
  PROVE  seen.state = row.state /\ SameDates(seen, row)
BY DEF PullRequestRow, SameDates

\* Closing or touching a row leaves its dates alone.
LEMMA ClosedKeeps ==
  ASSUME NEW row \in PullRequestRow, NEW t \in Nat,
         NEW gone, gone = [row EXCEPT !.state = "closed", !.seenAt = t]
  PROVE  gone.state = "closed" /\ SameDates(gone, row)
BY DEF PullRequestRow, SameDates

\* Everything a step may do to a row it does not delete: leave it, write what a
\* process carries, mark it seen, or close it.
LEMMA RowSteps ==
  ASSUME TypeOK, [Next]_vars, NEW p \in PRs, rows[p].exists, rows'[p].exists
  PROVE  rows'[p] = rows[p] \/ Overwritten(p) \/ SeenAgain(p) \/ Reconciled(p)
<1>1. CASE ProviderStep \/ Tick
  BY <1>1 DEF ProviderStep, Tick, OpenOrEdit, Close, Reopen, MergeIt, EditMerged, Change
<1>2. CASE Prune
  BY <1>2 DEF Prune, NoRow, TypeOK
<1>3. ASSUME NEW x \in Procs PROVE proc[x].seenAt \in Nat
  BY DEF TypeOK, Process
<1>9. rows[p] \in PullRequestRow
  BY DEF TypeOK, NoRow
<1>4. ASSUME NEW x \in Procs, UpsertStep(x)
      PROVE  rows'[p] = rows[p] \/ Overwritten(p)
  <2>1. CASE Load(x)
    BY <2>1 DEF Load
  <2>2. ASSUME NEW q \in PRs, Update(x, q) PROVE rows'[p] = rows[p] \/ Overwritten(p)
    BY <2>2 DEF Update, UpdateMatches, Overwritten, TypeOK
  <2>3. ASSUME NEW q \in PRs, Create(x, q) PROVE rows'[p] = rows[p]
    BY <2>3 DEF Create, TypeOK
  <2> QED
    BY <1>4, <2>1, <2>2, <2>3 DEF UpsertStep
<1>5. ASSUME NEW x \in Procs, rows' = TouchStale(x)
      PROVE  rows'[p] = rows[p] \/ SeenAgain(p)
  <2>1. rows'[p] = rows[p] \/ rows'[p] = [rows[p] EXCEPT !.seenAt = proc[x].seenAt]
    BY <1>5 DEF TouchStale
  <2> QED
    BY <2>1, <1>3, <1>9, SeenKeeps DEF SeenAgain
<1>6. ASSUME NEW r \in Runs, RunStep(r)
      PROVE  rows'[p] = rows[p] \/ Overwritten(p) \/ SeenAgain(p) \/ Reconciled(p)
  <2> r \in Procs
    BY DEF Procs
  <2>1. CASE UpsertStep(r)
    BY <2>1, <1>4
  <2>2. CASE EndOpenUpsert(r)
    BY <2>2, <1>5 DEF EndOpenUpsert
  <2>3. CASE CloseStalePullRequests(r)
    <3>1. \/ rows'[p] = rows[p]
          \/ /\ rows[p].state = "open"
             /\ rows'[p] = [rows[p] EXCEPT !.state = "closed", !.seenAt = proc[r].seenAt]
      BY <2>3 DEF CloseStalePullRequests, IsStaleOnBoard
    <3>2. proc[r].seenAt \in Nat
      BY <1>3
    <3>3. CASE rows[p].state = "open" /\ rows'[p] # rows[p]
      <4>1. rows'[p] = [rows[p] EXCEPT !.state = "closed", !.seenAt = proc[r].seenAt]
        BY <3>1, <3>3
      <4>2. rows'[p].state = "closed" /\ SameDates(rows'[p], rows[p])
        BY <4>1, <3>2, <1>9, ClosedKeeps
      <4> QED
        BY <3>3, <4>2 DEF Reconciled
    <3> QED
      BY <3>1, <3>3
  <2> QED
    BY <1>6, <2>1, <2>2, <2>3
       DEF RunStep, Start, MergedFrom, ListPullRequest, ListMergedPullRequests,
           LoadMerged, Finish, FailRun
<1>7. ASSUME NEW w \in Workers, WorkerStep(w)
      PROVE  rows'[p] = rows[p] \/ Overwritten(p) \/ SeenAgain(p)
  <2> w \in Procs
    BY DEF Procs
  <2>1. CASE UpsertStep(w)
    BY <2>1, <1>4
  <2>2. CASE EndJob(w)
    BY <2>2, <1>5 DEF EndJob
  <2> QED
    BY <1>7, <2>1, <2>2 DEF WorkerStep, Take, FailJob
<1>8. CASE UNCHANGED vars
  BY <1>8 DEF vars
<1> QED
  BY <1>1, <1>2, <1>6, <1>7, <1>8 DEF Next

\* The store never goes back in time: no interleaving of runs, workers,
\* retries and sweeps lowers the date of a row, ties between stamps and
\* undated merge events included.
THEOREM DatesNeverGoBack == Spec => UpdatedAtNeverBack
<1>1. TypeOK /\ [Next]_vars => \A p \in PRs : DateNotLowered(p)
  <2> SUFFICES ASSUME TypeOK, [Next]_vars, NEW p \in PRs, rows[p].exists, rows'[p].exists
               PROVE  rows[p].updatedAt <= rows'[p].updatedAt
    BY DEF DateNotLowered
  <2>1. rows[p].updatedAt \in Nat
    <3>1. rows[p] \in PullRequestRow
      BY DEF TypeOK, NoRow
    <3> QED
      BY <3>1, RowFields
  <2>2. CASE Overwritten(p)
    BY <2>2 DEF Overwritten
  <2>3. CASE SeenAgain(p) \/ Reconciled(p)
    <3>1. rows'[p].updatedAt = rows[p].updatedAt
      BY <2>3 DEF SeenAgain, Reconciled, SameDates
    <3> QED
      BY <2>1, <3>1
  <2>4. CASE rows'[p] = rows[p]
    BY <2>1, <2>4
  <2> QED
    BY <2>2, <2>3, <2>4, RowSteps
<1> QED
  BY <1>1, TypeCorrect, PTL DEF Spec, UpdatedAtNeverBack

----------------------------------------------------------------------------
(* Every copy is honest.                                                   *)

\* How the provider's record of a pull request moves: a later stamp, and a
\* merge date that is set once, to the stamp of the merge.
Succeeds(old, new) ==
  /\ old.updatedAt < new.updatedAt /\ new.state # "none"
  /\ IF old.mergedAt # Null THEN new.mergedAt = old.mergedAt
                            ELSE new.mergedAt \in {Null, new.updatedAt}

Dated(r) == r.exists => r.updatedAt \in Nat /\ r.mergedAt \in Nat

\* A copy stays honest when the provider moves on.
LEMMA StaysHonest ==
  ASSUME NEW old \in ProviderPR, NEW new \in ProviderPR, NEW r, Dated(r),
         Succeeds(old, new), HonestTo(old, r)
  PROVE  HonestTo(new, r)
BY DEF HonestTo, Succeeds, ProviderPR, Dated

\* Merging an honest, not stale reading into an honest row: the stored merge
\* date is never needed, because the reading would already carry it.
LEMMA MergeOpenHonest ==
  ASSUME NEW pr \in ProviderPR, NEW stored \in PullRequestRow \cup {NoRow},
         NEW r \in Reading, NEW t \in Nat, ~IsStale(stored, r),
         HonestTo(pr, stored), HonestTo(pr, r)
  PROVE  HonestTo(pr, MergeOpenPullRequest(stored, r, t))
<1> DEFINE m == IF stored.exists THEN Coalesce(r.mergedAt, stored.mergedAt)
                ELSE r.mergedAt
<1>1. r.exists /\ r.updatedAt \in Nat /\ r.mergedAt \in Nat
  BY DEF Reading
<1>2. stored.exists => stored.updatedAt \in Nat /\ stored.mergedAt \in Nat
  BY RowFields DEF NoRow
<1>3. m = r.mergedAt
  <2>1. CASE ~stored.exists \/ r.mergedAt # Null
    BY <2>1 DEF Coalesce
  <2>2. CASE stored.exists /\ r.mergedAt = Null
    <3>1. stored.updatedAt <= r.updatedAt
      BY <1>1, <1>2, <2>2 DEF IsStale
    <3>2. stored.mergedAt = Null
      BY <1>1, <1>2, <2>2, <3>1 DEF HonestTo, ProviderPR
    <3> QED
      BY <2>2, <3>2 DEF Coalesce
  <2> QED
    BY <2>1, <2>2
<1>4. SettledState(r.state, r.mergedAt) = r.state
  BY <1>1 DEF SettledState, HonestTo
<1> QED
  BY <1>1, <1>3, <1>4 DEF HonestTo, MergeOpenPullRequest

\* Merging a merged reading into an honest row gives an honest row.
LEMMA MergeMergedHonest ==
  ASSUME NEW pr \in ProviderPR, NEW stored \in PullRequestRow \cup {NoRow},
         NEW m \in MergedReading, NEW t \in Nat, pr.mergedAt <= pr.updatedAt,
         pr.mergedAt # Null => pr.state = "merged",
         HonestTo(pr, stored), MergeOf(pr, m)
  PROVE  HonestTo(pr, MergeMergedPullRequest(stored, m, t))
<1>1. m.exists /\ m.mergedAt \in Nat
  BY DEF MergedReading
<1>2. stored.exists => stored.updatedAt \in Nat
  BY RowFields DEF NoRow
<1>3. pr.updatedAt \in Nat /\ pr.mergedAt \in Nat
  BY DEF ProviderPR
<1> QED
  BY <1>1, <1>2, <1>3 DEF HonestTo, MergeOf, MergeMergedPullRequest

(* What a process carries after each update an action makes of it.         *)

Holds(q, reads, todo, merges) ==
  q.reads = reads /\ q.todo = todo /\ q.merges = merges

\* A process at rest carries nothing.
LEMMA IdleHolds == CarriesHonest(prov, Idle)
BY DEF CarriesHonest, Idle, HonestTo, MergeOf, NoReading, NoRow

\* Moving a process along changes nothing of what it carries.
LEMMA StepHolds ==
  ASSUME NEW q \in Process, NEW s, NEW S
  PROVE  /\ Holds([q EXCEPT !.pc = s], q.reads, q.todo, q.merges)
         /\ Holds([q EXCEPT !.pc = s, !.creating = S], q.reads, q.todo, q.merges)
BY DEF Process, Holds

\* Computing the bound changes nothing of what a run carries.
LEMMA BoundedHolds ==
  ASSUME NEW q \in Process, NEW s, NEW S, NEW n
  PROVE  Holds([q EXCEPT !.pc = s, !.unread = S, !.since = n, !.full = FALSE],
               q.reads, q.todo, q.merges)
BY DEF Process, Holds

\* Starting changes nothing of what a process carries.
LEMMA StartedHolds ==
  ASSUME NEW q \in Process, NEW s, NEW n, NEW b
  PROVE  Holds([q EXCEPT !.pc = s, !.seenAt = n, !.full = b],
               q.reads, q.todo, q.merges)
BY DEF Process, Holds

\* A load replaces the rows to write, and nothing else.
LEMMA LoadedHolds ==
  ASSUME NEW q \in Process, NEW s, NEW todo, NEW S
  PROVE  Holds([q EXCEPT !.pc = s, !.todo = todo, !.stale = S], q.reads, todo, q.merges)
BY DEF Process, Holds

\* The load of the merged feed also drops what it has read.
LEMMA MergedLoadedHolds ==
  ASSUME NEW q \in Process, NEW s, NEW todo, NEW merges
  PROVE  Holds([q EXCEPT !.pc = s, !.merging = TRUE, !.todo = todo, !.merges = merges],
               q.reads, todo, merges)
BY DEF Process, Holds

\* A written row is dropped from what is left to write.
LEMMA WrittenHolds ==
  ASSUME NEW q \in Process, NEW s, NEW p
  PROVE  /\ Holds([q EXCEPT !.todo[p] = NoRow],
                  q.reads, [q.todo EXCEPT ![p] = NoRow], q.merges)
         /\ Holds([q EXCEPT !.pc = s, !.creating = {}, !.todo[p] = NoRow],
                  q.reads, [q.todo EXCEPT ![p] = NoRow], q.merges)
BY DEF Process, Holds

\* A line of the open listing adds one reading.
LEMMA ListedHolds ==
  ASSUME NEW q \in Process, NEW s, NEW S, NEW p, NEW rd
  PROVE  Holds([q EXCEPT !.unread = S, !.pc = s, !.reads[p] = rd],
               [q.reads EXCEPT ![p] = rd], q.todo, q.merges)
BY DEF Process, Holds

\* The reconciliation forgets the readings.
LEMMA ClosedHolds ==
  ASSUME NEW q \in Process, NEW s, NEW reads
  PROVE  Holds([q EXCEPT !.pc = s, !.stale = {}, !.reads = reads],
               reads, q.todo, q.merges)
BY DEF Process, Holds

\* The merged listing replaces the merges a run carries.
LEMMA MergesHolds ==
  ASSUME NEW q \in Process, NEW s, NEW cut, NEW merges
  PROVE  Holds([q EXCEPT !.pc = s, !.cut = cut, !.merges = merges], q.reads, q.todo, merges)
BY DEF Process, Holds

\* A worker carries the reading of the job it has taken.
LEMMA TakenHolds ==
  ASSUME NEW q \in Process, NEW s, NEW n, NEW k, NEW reads
  PROVE  Holds([q EXCEPT !.pc = s, !.seenAt = n, !.tries = k, !.reads = reads],
               reads, q.todo, q.merges)
BY DEF Process, Holds

\* A process carries honest copies when each part of what it carries is.
LEMMA HoldsHonest ==
  ASSUME NEW q, NEW reads, NEW todo, NEW merges, Holds(q, reads, todo, merges),
         \A p \in PRs : /\ HonestTo(prov[p], reads[p])
                        /\ HonestTo(prov[p], todo[p])
                        /\ MergeOf(prov[p], merges[p])
  PROVE  CarriesHonest(prov, q)
BY DEF Holds, CarriesHonest

\* Replacing one process by one that carries honest copies keeps them all
\* honest.
LEMMA OneProcess ==
  ASSUME TypeOK, \A y \in Procs : CarriesHonest(prov, proc[y]),
         NEW x \in Procs, NEW q, proc' = [proc EXCEPT ![x] = q],
         CarriesHonest(prov, q)
  PROVE  \A y \in Procs : CarriesHonest(prov, proc'[y])
BY DEF TypeOK

\* The processes stay honest over every step of a run or a worker.
LEMMA ProcessesStayHonest ==
  ASSUME TypeOK, EveryCopyHonest, NEW x \in Procs, RunStep(x) \/ WorkerStep(x)
  PROVE  \A y \in Procs : CarriesHonest(prov, proc'[y])
<1> DEFINE Goal == \A y \in Procs : CarriesHonest(prov, proc'[y])
           q == proc[x]
<1>1. /\ q \in Process
      /\ CarriesHonest(prov, q)
      /\ \A y \in Procs : CarriesHonest(prov, proc[y])
  BY DEF TypeOK, EveryCopyHonest
<1>2. \A p \in PRs : /\ HonestTo(prov[p], q.reads[p])
                     /\ HonestTo(prov[p], q.todo[p])
                     /\ MergeOf(prov[p], q.merges[p])
  BY <1>1 DEF CarriesHonest
<1>3. ASSUME NEW n, proc' = [proc EXCEPT ![x] = n], CarriesHonest(prov, n) PROVE Goal
  BY <1>1, <1>3, OneProcess
<1>4. ASSUME NEW n, proc' = [proc EXCEPT ![x] = n],
             Holds(n, q.reads, q.todo, q.merges)
      PROVE  Goal
  BY <1>2, <1>3, <1>4, HoldsHonest
<1>5. q.seenAt \in Nat
  BY <1>1 DEF Process
<1> HIDE DEF Goal
<1> SUFFICES Goal
  BY DEF Goal
<1>6. CASE Load(x)
  <2> DEFINE todo == [p \in PRs |-> IF q.reads[p].exists /\ ~IsStale(rows[p], q.reads[p])
                        THEN MergeOpenPullRequest(rows[p], q.reads[p], q.seenAt) ELSE NoRow]
             stale == {p \in PRs : q.reads[p].exists
                         /\ ~(q.reads[p].exists /\ ~IsStale(rows[p], q.reads[p]))}
             n == [q EXCEPT !.pc = "write", !.todo = todo, !.stale = stale]
  <2>1. ASSUME NEW p \in PRs PROVE HonestTo(prov[p], todo[p])
    <3>1. CASE q.reads[p].exists /\ ~IsStale(rows[p], q.reads[p])
      <4>1. q.reads[p] \in Reading
        BY <1>1, <3>1 DEF Process, Readings, NoReading
      <4>2. /\ rows[p] \in PullRequestRow \cup {NoRow} /\ prov[p] \in ProviderPR
            /\ HonestTo(prov[p], rows[p]) /\ HonestTo(prov[p], q.reads[p])
        BY <1>2 DEF TypeOK, EveryCopyHonest
      <4> HIDE DEF q
      <4> QED
        BY <1>5, <3>1, <4>1, <4>2, MergeOpenHonest
    <3>2. CASE ~(q.reads[p].exists /\ ~IsStale(rows[p], q.reads[p]))
      BY <3>2 DEF HonestTo, NoRow
    <3> QED
      BY <3>1, <3>2
  <2> HIDE DEF todo, stale
  <2>2. proc' = [proc EXCEPT ![x] = n]
    BY <1>6 DEF Load, todo, stale
  <2>3. Holds(n, q.reads, todo, q.merges)
    BY <1>1, LoadedHolds
  <2> HIDE DEF n, q
  <2> QED
    BY <1>2, <1>3, <2>1, <2>2, <2>3, HoldsHonest
<1>7. CASE LoadMerged(x)
  <2> DEFINE todo == [p \in PRs |-> IF q.merges[p].exists
                        THEN MergeMergedPullRequest(rows[p], q.merges[p], q.seenAt) ELSE NoRow]
             n == [q EXCEPT !.pc = "write", !.merging = TRUE, !.todo = todo,
                            !.merges = Idle.merges]
  <2>1. ASSUME NEW p \in PRs PROVE HonestTo(prov[p], todo[p])
    <3>1. CASE q.merges[p].exists
      <4>1. q.merges[p] \in MergedReading
        BY <1>1, <3>1 DEF Process, MergedReadings, NoReading
      <4>2. /\ rows[p] \in PullRequestRow \cup {NoRow} /\ prov[p] \in ProviderPR
            /\ HonestTo(prov[p], rows[p]) /\ MergeOf(prov[p], q.merges[p])
            /\ prov[p].mergedAt <= prov[p].updatedAt
            /\ prov[p].mergedAt # Null => prov[p].state = "merged"
        BY <1>2 DEF TypeOK, EveryCopyHonest, SoundPR
      <4> HIDE DEF q
      <4> QED
        BY <1>5, <3>1, <4>1, <4>2, MergeMergedHonest
    <3>2. CASE ~q.merges[p].exists
      BY <3>2 DEF HonestTo, NoRow
    <3> QED
      BY <3>1, <3>2
  <2>2. ASSUME NEW p \in PRs PROVE MergeOf(prov[p], Idle.merges[p])
    BY DEF MergeOf, Idle, NoReading
  <2> HIDE DEF todo
  <2>3. proc' = [proc EXCEPT ![x] = n]
    BY <1>7 DEF LoadMerged, todo
  <2>4. Holds(n, q.reads, todo, Idle.merges)
    BY <1>1, MergedLoadedHolds
  <2> HIDE DEF n, q
  <2> QED
    BY <1>2, <1>3, <2>1, <2>2, <2>3, <2>4, HoldsHonest
<1>8. ASSUME NEW p \in PRs, Update(x, p) \/ Create(x, p) PROVE Goal
  <2> DEFINE todo == [q.todo EXCEPT ![p] = NoRow]
  <2>1. ASSUME NEW r \in PRs PROVE HonestTo(prov[r], todo[r])
    <3>1. q.todo \in [PRs -> PullRequestRow \cup {NoRow}]
      BY <1>1 DEF Process
    <3> QED
      BY <1>2, <3>1 DEF HonestTo, NoRow
  <2> HIDE DEF todo
  <2>2. ASSUME NEW n, proc' = [proc EXCEPT ![x] = n], Holds(n, q.reads, todo, q.merges)
        PROVE  Goal
    BY <1>2, <1>3, <2>1, <2>2, HoldsHonest
  <2>3. CASE proc' = [proc EXCEPT ![x].todo[p] = NoRow]
    BY <1>1, <2>2, <2>3, WrittenHolds DEF todo
  <2>4. CASE proc' = [proc EXCEPT ![x].pc = "create", ![x].creating = {p}]
    BY <1>1, <1>4, <2>4, StepHolds
  <2>5. CASE proc' = [proc EXCEPT ![x].pc = "write", ![x].creating = {},
                                  ![x].todo[p] = NoRow]
    <3> DEFINE n == [q EXCEPT !.pc = "write", !.creating = {}, !.todo[p] = NoRow]
    <3>1. Holds(n, q.reads, todo, q.merges)
      BY <1>1, WrittenHolds DEF todo
    <3>2. proc' = [proc EXCEPT ![x] = n]
      BY <2>5
    <3> HIDE DEF n
    <3> QED
      BY <2>2, <3>1, <3>2
  <2> QED
    BY <1>8, <2>3, <2>4, <2>5 DEF Update, Create
<1>9. CASE UpsertStep(x)
  BY <1>6, <1>8, <1>9 DEF UpsertStep
<1>10. CASE proc' = [proc EXCEPT ![x] = Idle]
  BY <1>3, <1>10, IdleHolds
<1>11. CASE Start(x)
  <2>1. PICK full \in BOOLEAN : proc' = [proc EXCEPT ![x] =
            [Idle EXCEPT !.pc = "from", !.seenAt = now, !.full = full]]
    BY <1>11 DEF Start
  <2> DEFINE n == [Idle EXCEPT !.pc = "from", !.seenAt = now, !.full = full]
  <2>2. Holds(n, Idle.reads, Idle.todo, Idle.merges)
    BY IdleType, StartedHolds
  <2>3. CarriesHonest(prov, n)
    BY <2>2, IdleHolds DEF Holds, CarriesHonest
  <2> HIDE DEF n
  <2> QED
    BY <1>3, <2>1, <2>3 DEF n
<1>12. CASE MergedFrom(x)
  <2> DEFINE since == MergedSince(cursor, q.seenAt, Depth, q.full)
             n == [q EXCEPT !.pc = "list", !.unread = PRs, !.since = since, !.full = FALSE]
  <2> HIDE DEF since
  <2>1. proc' = [proc EXCEPT ![x] = n]
    BY <1>12 DEF MergedFrom, since
  <2>2. Holds(n, q.reads, q.todo, q.merges)
    BY <1>1, BoundedHolds
  <2> HIDE DEF n, q
  <2> QED
    BY <1>4, <2>1, <2>2
<1>13. ASSUME NEW p \in PRs, ListPullRequest(x, p) PROVE Goal
  <2> DEFINE rd == IF prov[p].state = "open" THEN ListedReading(prov[p]) ELSE NoReading
             s == IF q.unread = {p} THEN "load" ELSE "list"
             n == [q EXCEPT !.unread = q.unread \ {p}, !.pc = s, !.reads[p] = rd]
  <2>1. HonestTo(prov[p], rd)
    BY DEF HonestTo, ListedReading, NoReading, EveryCopyHonest, SoundPR, TypeOK, ProviderPR
  <2> HIDE DEF rd, s
  <2>2. proc' = [proc EXCEPT ![x] = n]
    BY <1>13 DEF ListPullRequest, rd, s
  <2>3. Holds(n, [q.reads EXCEPT ![p] = rd], q.todo, q.merges)
    BY <1>1, ListedHolds
  <2>4. \A r \in PRs : HonestTo(prov[r], [q.reads EXCEPT ![p] = rd][r])
    <3>1. q.reads \in [PRs -> Readings]
      BY <1>1 DEF Process
    <3> QED
      BY <1>2, <2>1, <3>1
  <2> HIDE DEF n, q
  <2> QED
    BY <1>2, <1>3, <2>2, <2>3, <2>4, HoldsHonest
<1>14. CASE EndOpenUpsert(x)
  BY <1>1, <1>4, <1>14, StepHolds DEF EndOpenUpsert
<1>15. CASE CloseStalePullRequests(x)
  <2> DEFINE n == [q EXCEPT !.pc = "listMerged", !.stale = {}, !.reads = Idle.reads]
  <2>1. proc' = [proc EXCEPT ![x] = n]
    BY <1>15 DEF CloseStalePullRequests
  <2>2. Holds(n, Idle.reads, q.todo, q.merges)
    BY <1>1, ClosedHolds
  <2>3. \A p \in PRs : HonestTo(prov[p], Idle.reads[p])
    BY DEF HonestTo, Idle, NoReading
  <2> HIDE DEF n, q
  <2> QED
    BY <1>2, <1>3, <2>1, <2>2, <2>3, HoldsHonest
<1>16. CASE ListMergedPullRequests(x)
  <2>1. PICK e \in SUBSET PRs, c \in SUBSET MergedSinceBound(x) :
          proc' = [proc EXCEPT ![x].pc = "loadMerged", ![x].cut = c,
            ![x].merges = [p \in PRs |->
               IF p \in MergedSinceBound(x) \ c
                 THEN [exists |-> TRUE, mergedAt |-> prov[p].mergedAt,
                       segments |-> p \in e]
                 ELSE NoReading]]
    BY <1>16 DEF ListMergedPullRequests
  <2> DEFINE m == [p \in PRs |->
                IF p \in MergedSinceBound(x) \ c
                  THEN [exists |-> TRUE, mergedAt |-> prov[p].mergedAt,
                        segments |-> p \in e]
                  ELSE NoReading]
             n == [q EXCEPT !.pc = "loadMerged", !.cut = c, !.merges = m]
  <2>2. \A p \in PRs : MergeOf(prov[p], m[p])
    BY DEF MergeOf, NoReading, EveryCopyHonest, SoundPR, MergedSinceBound
  <2> HIDE DEF m
  <2>3. proc' = [proc EXCEPT ![x] = n]
    BY <2>1 DEF m
  <2>4. Holds(n, q.reads, q.todo, m)
    BY <1>1, MergesHolds
  <2> HIDE DEF n, q
  <2> QED
    BY <1>2, <1>3, <2>2, <2>3, <2>4, HoldsHonest
<1>17. ASSUME NEW job \in queue, Take(x, job) PROVE Goal
  <2> DEFINE reads == [Idle.reads EXCEPT ![job.pr] = job.reading]
             n == [Idle EXCEPT !.pc = "load", !.seenAt = now, !.tries = job.tries + 1,
                               !.reads = reads]
  <2>1. \A p \in PRs : HonestTo(prov[p], reads[p])
    <3>1. HonestTo(prov[job.pr], job.reading)
      BY DEF EveryCopyHonest
    <3>2. \A p \in PRs : p # job.pr => reads[p] = NoReading
      BY DEF Idle
    <3>3. Idle.reads \in [PRs -> Readings]
      BY IdleType DEF Process
    <3>4. \A p \in PRs : p = job.pr => reads[p] = job.reading
      BY <3>3
    <3> HIDE DEF reads
    <3> QED
      BY <3>1, <3>2, <3>4 DEF HonestTo, NoReading
  <2> HIDE DEF reads
  <2>2. proc' = [proc EXCEPT ![x] = n]
    BY <1>17 DEF Take, reads
  <2>3. Holds(n, reads, Idle.todo, Idle.merges)
    BY IdleType, TakenHolds
  <2>4. \A p \in PRs : HonestTo(prov[p], Idle.todo[p]) /\ MergeOf(prov[p], Idle.merges[p])
    BY IdleHolds DEF CarriesHonest
  <2> HIDE DEF n
  <2> QED
    BY <1>3, <2>1, <2>2, <2>3, <2>4, HoldsHonest
<1> QED
  BY <1>7, <1>9, <1>10, <1>11, <1>12, <1>13, <1>14, <1>15, <1>16, <1>17
     DEF RunStep, WorkerStep, Finish, FailRun, EndJob, FailJob

\* A row appears only as the copy some process was about to write.
LEMMA RowCreated ==
  ASSUME TypeOK, [Next]_vars, NEW p \in PRs, ~rows[p].exists, rows'[p].exists
  PROVE  \E x \in Procs : rows'[p] = proc[x].todo[p]
<1>1. CASE ProviderStep \/ Tick
  BY <1>1 DEF ProviderStep, Tick, OpenOrEdit, Close, Reopen, MergeIt, EditMerged, Change
<1>2. CASE Prune
  BY <1>2 DEF Prune, NoRow, TypeOK
<1>3. ASSUME NEW x \in Procs, UpsertStep(x)
      PROVE  rows'[p] = rows[p] \/ rows'[p] = proc[x].todo[p]
  <2>1. CASE Load(x)
    BY <2>1 DEF Load
  <2>2. ASSUME NEW q \in PRs, Update(x, q)
        PROVE  rows'[p] = rows[p] \/ rows'[p] = proc[x].todo[p]
    BY <2>2 DEF Update, TypeOK
  <2>3. ASSUME NEW q \in PRs, Create(x, q)
        PROVE  rows'[p] = rows[p] \/ rows'[p] = proc[x].todo[p]
    BY <2>3 DEF Create, TypeOK
  <2> QED
    BY <1>3, <2>1, <2>2, <2>3 DEF UpsertStep
<1>4. ASSUME NEW x \in Procs, rows' = TouchStale(x) PROVE rows'[p] = rows[p]
  BY <1>4 DEF TouchStale
<1>5. ASSUME NEW r \in Runs, RunStep(r)
      PROVE  rows'[p] = rows[p] \/ rows'[p] = proc[r].todo[p]
  <2> r \in Procs
    BY DEF Procs
  <2>1. CASE UpsertStep(r) \/ EndOpenUpsert(r)
    BY <2>1, <1>3, <1>4 DEF EndOpenUpsert
  <2>2. CASE CloseStalePullRequests(r)
    BY <2>2 DEF CloseStalePullRequests, IsStaleOnBoard
  <2> QED
    BY <1>5, <2>1, <2>2
       DEF RunStep, Start, MergedFrom, ListPullRequest, ListMergedPullRequests,
           LoadMerged, Finish, FailRun
<1>6. ASSUME NEW w \in Workers, WorkerStep(w)
      PROVE  rows'[p] = rows[p] \/ rows'[p] = proc[w].todo[p]
  <2> w \in Procs
    BY DEF Procs
  <2>1. CASE UpsertStep(w) \/ EndJob(w)
    BY <2>1, <1>3, <1>4 DEF EndJob
  <2> QED
    BY <1>6, <2>1 DEF WorkerStep, Take, FailJob
<1>7. CASE UNCHANGED vars
  BY <1>7 DEF vars
<1> QED
  BY <1>1, <1>2, <1>5, <1>6, <1>7 DEF Next, Procs

\* What a step leaves in the table is honest.
LEMMA RowsStayHonest ==
  ASSUME TypeOK, EveryCopyHonest, [Next]_vars, NEW p \in PRs
  PROVE  HonestTo(prov[p], rows'[p])
<1>1. HonestTo(prov[p], rows[p]) /\ \A x \in Procs : HonestTo(prov[p], proc[x].todo[p])
  BY DEF EveryCopyHonest, CarriesHonest
<1>2. CASE ~rows'[p].exists
  BY <1>2 DEF HonestTo
<1>3. CASE ~rows[p].exists /\ rows'[p].exists
  BY <1>1, <1>3, RowCreated
<1>4. CASE rows[p].exists /\ rows'[p].exists
  <2>1. CASE rows'[p] = rows[p] \/ Overwritten(p)
    BY <1>1, <2>1 DEF Overwritten
  <2>2. CASE SeenAgain(p) \/ Reconciled(p)
    BY <1>1, <1>4, <2>2 DEF SeenAgain, Reconciled, SameDates, HonestTo
  <2> QED
    BY <1>4, <2>1, <2>2, RowSteps
<1> QED
  BY <1>2, <1>3, <1>4

\* What a step leaves on the queue is honest.
LEMMA JobsStayHonest ==
  ASSUME TypeOK, EveryCopyHonest, NEW x \in Procs, RunStep(x) \/ WorkerStep(x)
  PROVE  \A job \in queue' : HonestTo(prov[job.pr], job.reading)
<1>1. \A p \in PRs : HonestTo(prov[p], proc[x].reads[p])
  BY DEF EveryCopyHonest, CarriesHonest
<1>2. CASE FailJob(x)
  BY <1>1, <1>2 DEF FailJob, EveryCopyHonest
<1>3. CASE queue' \subseteq queue
  BY <1>3 DEF EveryCopyHonest
<1> QED
  BY <1>2, <1>3 DEF RunStep, WorkerStep, UpsertStep, Start, MergedFrom, ListPullRequest,
     Load, Update, Create, EndOpenUpsert, CloseStalePullRequests, ListMergedPullRequests,
     LoadMerged, Finish, FailRun, Take, EndJob

\* The provider moves: every copy in flight, made before, stays honest, and
\* so is the event the change may deliver.
LEMMA ChangeHonest ==
  ASSUME TypeOK, EveryCopyHonest, MergeDateInEvents, ~SameStamp, NEW p \in PRs,
         NEW state \in PullRequestStates, NEW m \in Nat, Change(p, state, m),
         state = "merged" <=> m # Null,
         IF prov[p].mergedAt # Null THEN m = prov[p].mergedAt ELSE m \in {Null, now}
  PROVE  EveryCopyHonest'
<1> DEFINE new == [state |-> state, updatedAt |-> now, mergedAt |-> m]
<1>1. new \in ProviderPR /\ new.updatedAt = now /\ new.mergedAt = m /\ new.state = state
  BY DEF ProviderPR, TypeOK
<1>2. prov' = [prov EXCEPT ![p] = new] /\ prov[p].updatedAt < now
      /\ now' = now /\ rows' = rows /\ proc' = proc
  BY DEF Change
<1>3. prov[p] \in ProviderPR /\ prov[p].updatedAt \in Nat /\ prov[p].mergedAt \in Nat
      /\ now \in Nat /\ SoundPR(prov[p])
  BY DEF TypeOK, ProviderPR, EveryCopyHonest
<1>4. Succeeds(prov[p], new)
  BY <1>1, <1>2 DEF Succeeds, PullRequestStates
<1>5. EventReading(new).exists /\ HonestTo(new, EventReading(new))
  BY <1>3 DEF EventReading, PullRequestState, HonestTo, SoundPR, PullRequestStates
<1>6. m <= now
  BY <1>2, <1>3 DEF SoundPR
<1> HIDE DEF new
<1>7. ASSUME NEW q \in PRs, NEW r, Dated(r), HonestTo(prov[q], r)
      PROVE  HonestTo(prov'[q], r)
  BY <1>1, <1>2, <1>3, <1>4, <1>7, StaysHonest DEF TypeOK
<1>8. \A q \in PRs : SoundPR(prov[q])'
  BY <1>1, <1>2, <1>3, <1>6 DEF SoundPR, EveryCopyHonest, TypeOK
<1>9. \A q \in PRs : HonestTo(prov'[q], rows'[q])
  <2>1. ASSUME NEW q \in PRs PROVE Dated(rows[q]) /\ HonestTo(prov[q], rows[q])
    BY RowFields DEF TypeOK, Dated, NoRow, EveryCopyHonest
  <2> QED
    BY <1>2, <1>7, <2>1
<1>10. \A job \in queue' : HonestTo(prov'[job.pr], job.reading)
  <2>1. ASSUME NEW job \in queue PROVE HonestTo(prov'[job.pr], job.reading)
    <3>1. job.pr \in PRs /\ Dated(job.reading) /\ HonestTo(prov[job.pr], job.reading)
      BY DEF TypeOK, Job, Reading, Dated, EveryCopyHonest
    <3> QED
      BY <1>7, <3>1
  <2>2. prov'[p] = new
    BY <1>2 DEF TypeOK
  <2>3. \A job \in queue' : job \in queue \/ (job.pr = p /\ job.reading = EventReading(new))
    BY DEF Change, new
  <2> QED
    BY <1>5, <2>1, <2>2, <2>3
<1>11. \A x \in Procs : CarriesHonest(prov', proc'[x])
  <2> SUFFICES ASSUME NEW x \in Procs, NEW q \in PRs
               PROVE  /\ HonestTo(prov'[q], proc[x].reads[q])
                      /\ HonestTo(prov'[q], proc[x].todo[q])
                      /\ MergeOf(prov'[q], proc[x].merges[q])
    BY <1>2 DEF CarriesHonest
  <2>1. /\ HonestTo(prov[q], proc[x].reads[q])
        /\ HonestTo(prov[q], proc[x].todo[q])
        /\ MergeOf(prov[q], proc[x].merges[q])
    BY DEF EveryCopyHonest, CarriesHonest
  <2>2. proc[x].reads[q] \in Readings /\ proc[x].todo[q] \in PullRequestRow \cup {NoRow}
    BY DEF TypeOK, Process
  <2>3. Dated(proc[x].reads[q])
    BY <2>2, ReadingFields DEF Dated, Readings, NoReading
  <2>4. Dated(proc[x].todo[q])
    BY <2>2, RowFields DEF Dated, NoRow
  <2>5. prov[q].mergedAt # Null => prov'[q].mergedAt = prov[q].mergedAt
    BY <1>1, <1>2 DEF TypeOK
  <2>6. MergeOf(prov'[q], proc[x].merges[q])
    BY <2>1, <2>5 DEF MergeOf
  <2> QED
    BY <1>7, <2>1, <2>3, <2>4, <2>6
<1> QED
  BY <1>8, <1>9, <1>10, <1>11 DEF EveryCopyHonest

\* Under events that carry the merge date and distinct stamps, everything the
\* store, the queue and the writers hold of a pull request stays honest.
THEOREM HonestCopies ==
  ASSUME MergeDateInEvents, ~SameStamp
  PROVE  Spec => []EveryCopyHonest
<1>1. Init => EveryCopyHonest
  BY IdleHolds DEF Init, EveryCopyHonest, SoundPR, HonestTo, NoRow, PullRequestStates
<1>2. TypeOK /\ EveryCopyHonest /\ [Next]_vars => EveryCopyHonest'
  <2> SUFFICES ASSUME TypeOK, EveryCopyHonest, [Next]_vars PROVE EveryCopyHonest'
    OBVIOUS
  <2>1. CASE ProviderStep
    <3>1. PICK p \in PRs : OpenOrEdit(p) \/ Close(p) \/ Reopen(p) \/ MergeIt(p) \/ EditMerged(p)
      BY <2>1 DEF ProviderStep
    <3>2. now \in Nat /\ prov[p].mergedAt \in Nat /\ prov[p].updatedAt \in Nat
          /\ SoundPR(prov[p])
      BY DEF TypeOK, ProviderPR, EveryCopyHonest
    <3>3. CASE OpenOrEdit(p) \/ Close(p) \/ Reopen(p)
      BY <3>2, <3>3, ChangeHonest DEF OpenOrEdit, Close, Reopen, SoundPR, PullRequestStates
    <3>4. CASE MergeIt(p)
      <4>1. now # Null
        BY <3>2, <3>4 DEF MergeIt, Change
      <4> QED
        BY <3>2, <3>4, <4>1, ChangeHonest DEF MergeIt, SoundPR, PullRequestStates
    <3>5. CASE EditMerged(p)
      BY <3>2, <3>5, ChangeHonest DEF EditMerged, SoundPR, PullRequestStates
    <3> QED
      BY <3>1, <3>3, <3>4, <3>5
  <2>2. CASE Tick
    <3>1. \A p \in PRs : prov[p].updatedAt \in Nat /\ now \in Nat
      BY DEF TypeOK, ProviderPR
    <3> QED
      BY <2>2, <3>1 DEF Tick, EveryCopyHonest, SoundPR
  <2>3. CASE Prune
    BY <2>3 DEF Prune, EveryCopyHonest, SoundPR, HonestTo, NoRow
  <2>4. ASSUME NEW x \in Procs, RunStep(x) \/ WorkerStep(x) PROVE EveryCopyHonest'
    <3>1. prov' = prov /\ now' = now
      BY <2>4 DEF RunStep, WorkerStep, UpsertStep, Start, MergedFrom, ListPullRequest,
         Load, Update, Create, EndOpenUpsert, CloseStalePullRequests,
         ListMergedPullRequests, LoadMerged, Finish, FailRun, Take, EndJob, FailJob
    <3>2. \A p \in PRs : HonestTo(prov[p], rows'[p])
      BY RowsStayHonest
    <3>3. \A p \in PRs : SoundPR(prov[p])'
      BY <3>1 DEF EveryCopyHonest, SoundPR
    <3> QED
      BY <2>4, <3>1, <3>2, <3>3, JobsStayHonest, ProcessesStayHonest DEF EveryCopyHonest
  <2>5. CASE UNCHANGED vars
    BY <2>5 DEF vars, EveryCopyHonest, SoundPR
  <2> QED
    BY <2>1, <2>2, <2>3, <2>4, <2>5 DEF Next, Procs
<1> QED
  BY <1>1, <1>2, TypeCorrect, PTL DEF Spec

\* A recorded merge is final, for any number of writers, events and retries.
THEOREM MergeFinality ==
  ASSUME MergeDateInEvents, ~SameStamp
  PROVE  Spec => MergeIsFinal
<1>1. TypeOK /\ EveryCopyHonest /\ [Next]_vars => \A p \in PRs : StaysMerged(p)
  <2> SUFFICES ASSUME TypeOK, EveryCopyHonest, [Next]_vars, NEW p \in PRs,
                      rows[p].exists, rows[p].state = "merged", rows'[p].exists
               PROVE  rows'[p].state = "merged" /\ rows'[p].mergedAt = rows[p].mergedAt
    BY DEF StaysMerged
  <2>1. rows[p].updatedAt \in Nat /\ rows[p].mergedAt \in Nat
    <3>1. rows[p] \in PullRequestRow
      BY DEF TypeOK, NoRow
    <3> QED
      BY <3>1, RowFields
  <2>2. HonestTo(prov[p], rows[p]) /\ HonestTo(prov[p], rows'[p])
    BY RowsStayHonest DEF EveryCopyHonest
  <2>3. /\ rows[p].mergedAt # Null /\ rows[p].mergedAt = prov[p].mergedAt
        /\ rows[p].mergedAt <= rows[p].updatedAt
    BY <2>2 DEF HonestTo
  <2>4. CASE Overwritten(p)
    <3>1. PICK x \in Procs : /\ proc[x].todo[p].exists
                             /\ rows[p].updatedAt <= proc[x].todo[p].updatedAt
                             /\ rows'[p] = proc[x].todo[p]
      BY <2>4 DEF Overwritten
    <3>2. proc[x].todo[p].updatedAt \in Nat
      <4>1. proc[x].todo[p] \in PullRequestRow
        BY <3>1 DEF TypeOK, Process, NoRow
      <4> QED
        BY <4>1, RowFields
    <3>3. prov[p].mergedAt <= rows'[p].updatedAt
      BY <2>1, <2>3, <3>1, <3>2
    <3> QED
      BY <2>2, <2>3, <3>3 DEF HonestTo
  <2>5. CASE SeenAgain(p) \/ rows'[p] = rows[p]
    BY <2>5 DEF SeenAgain, SameDates
  <2>6. CASE Reconciled(p)
    BY <2>6 DEF Reconciled
  <2> QED
    BY <2>4, <2>5, <2>6, RowSteps
<1> QED
  BY <1>1, TypeCorrect, HonestCopies, PTL DEF Spec, MergeIsFinal

\* What honesty of every copy says of the table.
LEMMA HonestRows ==
  ASSUME TypeOK, EveryCopyHonest
  PROVE  DatedMeansMerged /\ BoardIsReal
<1> SUFFICES ASSUME NEW p \in PRs, rows[p].exists
             PROVE  /\ rows[p].state = "merged" <=> rows[p].mergedAt # Null
                    /\ rows[p].mergedAt # Null => rows[p].mergedAt = prov[p].mergedAt
                    /\ rows[p].state = "open" /\ prov[p].mergedAt # Null =>
                         rows[p].updatedAt < prov[p].mergedAt
  BY DEF DatedMeansMerged, BoardIsReal
<1>1. HonestTo(prov[p], rows[p]) /\ prov[p].mergedAt \in Nat
  BY DEF EveryCopyHonest, TypeOK, ProviderPR
<1>2. rows[p].updatedAt \in Nat
  <2>1. rows[p] \in PullRequestRow
    BY DEF TypeOK, NoRow
  <2> QED
    BY <2>1, RowFields
<1> QED
  BY <1>1, <1>2 DEF HonestTo

\* State and merge date never contradict each other in the table, and the date
\* is the provider's own.
THEOREM TableIsHonest ==
  ASSUME MergeDateInEvents, ~SameStamp
  PROVE  Spec => []DatedMeansMerged
<1>1. TypeOK /\ EveryCopyHonest => DatedMeansMerged
  BY HonestRows
<1> QED
  BY <1>1, TypeCorrect, HonestCopies, PTL

\* A row shown open on the board after its merge predates it: no reading made
\* after the merge ever leaves, or puts back, an open row.
THEOREM BoardIsHonest ==
  ASSUME MergeDateInEvents, ~SameStamp
  PROVE  Spec => []BoardIsReal
<1>1. TypeOK /\ EveryCopyHonest => BoardIsReal
  BY HonestRows
<1> QED
  BY <1>1, TypeCorrect, HonestCopies, PTL

----------------------------------------------------------------------------
(* A run spares what it has listed, and agrees with a provider at rest.    *)

Carried(n, q) == n.reads = q.reads /\ n.stale = q.stale /\ n.merging = q.merging

Timed(n, q) == n.seenAt = q.seenAt /\ n.since = q.since /\ n.cut = q.cut

\* The fields of a process that has just loaded its rows.
LEMMA LoadedFields ==
  ASSUME NEW q \in Process, NEW todo, NEW S
  PROVE  LET n == [q EXCEPT !.pc = "write", !.todo = todo, !.stale = S]
         IN  /\ n.pc = "write" /\ n.todo = todo /\ n.stale = S
             /\ n.reads = q.reads /\ n.merging = q.merging /\ Timed(n, q)
BY DEF Process, Timed

\* The fields of a process that is done with one of its rows.
LEMMA WrittenFields ==
  ASSUME NEW q \in Process, NEW p \in PRs
  PROVE  LET n == [q EXCEPT !.todo[p] = NoRow]
         IN  /\ n.pc = q.pc /\ n.creating = q.creating /\ Carried(n, q) /\ Timed(n, q)
             /\ n.todo = [q.todo EXCEPT ![p] = NoRow]
BY DEF Process, Carried, Timed

\* The fields of a process that is back from the create.
LEMMA CreatedFields ==
  ASSUME NEW q \in Process, NEW p \in PRs
  PROVE  LET n == [q EXCEPT !.pc = "write", !.creating = {}, !.todo[p] = NoRow]
         IN  /\ n.pc = "write" /\ n.creating = {} /\ Carried(n, q) /\ Timed(n, q)
             /\ n.todo = [q.todo EXCEPT ![p] = NoRow]
BY DEF Process, Carried, Timed

\* The fields of a run that goes on to the reconciliation.
LEMMA ToCloseFields ==
  ASSUME NEW q \in Process
  PROVE  LET n == [q EXCEPT !.pc = "close"]
         IN  n.pc = "close" /\ n.todo = q.todo /\ Carried(n, q) /\ Timed(n, q)
BY DEF Process, Carried, Timed

\* The fields of a run that knows how far back it lists.
LEMMA BoundedFields ==
  ASSUME NEW q \in Process, NEW S, NEW t
  PROVE  LET n == [q EXCEPT !.pc = "list", !.unread = S, !.since = t, !.full = FALSE]
         IN  n.pc = "list" /\ n.unread = S /\ Carried(n, q) /\ n.seenAt = q.seenAt
BY DEF Process, Carried

\* The fields of a run that has reconciled the board.
LEMMA ClosedFields ==
  ASSUME NEW q \in Process, NEW reads
  PROVE  LET n == [q EXCEPT !.pc = "listMerged", !.stale = {}, !.reads = reads]
         IN  n.pc = "listMerged" /\ n.merging = q.merging /\ Timed(n, q)
BY DEF Process, Timed

\* The fields of a run that has read the merged listing.
LEMMA MergesFields ==
  ASSUME NEW q \in Process, NEW c, NEW m
  PROVE  LET n == [q EXCEPT !.pc = "loadMerged", !.cut = c, !.merges = m]
         IN  /\ n.pc = "loadMerged" /\ n.merges = m /\ n.cut = c
             /\ n.merging = q.merging /\ n.since = q.since
BY DEF Process

\* The fields of a run that has loaded the rows of the merged listing.
LEMMA MergedLoadedFields ==
  ASSUME NEW q \in Process, NEW todo, NEW m
  PROVE  LET n == [q EXCEPT !.pc = "write", !.merging = TRUE, !.todo = todo, !.merges = m]
         IN  n.pc = "write" /\ n.merging /\ n.todo = todo /\ Timed(n, q)
BY DEF Process, Timed

\* The process a merged listing leaves behind.
LEMMA MergesListed ==
  ASSUME TypeOK, NEW r \in Procs, ListMergedPullRequests(r)
  PROVE  \E c, m : proc'[r] = [proc[r] EXCEPT !.pc = "loadMerged", !.cut = c, !.merges = m]
<1>1. PICK e \in SUBSET PRs, c \in SUBSET MergedSinceBound(r) :
        proc' = [proc EXCEPT ![r].pc = "loadMerged", ![r].cut = c,
          ![r].merges = [p \in PRs |->
             IF p \in MergedSinceBound(r) \ c
               THEN [exists |-> TRUE, mergedAt |-> prov[p].mergedAt,
                     segments |-> p \in e]
               ELSE NoReading]]
  BY DEF ListMergedPullRequests
<1> DEFINE m == [p \in PRs |->
             IF p \in MergedSinceBound(r) \ c
               THEN [exists |-> TRUE, mergedAt |-> prov[p].mergedAt,
                     segments |-> p \in e]
               ELSE NoReading]
<1> HIDE DEF m
<1>2. proc'[r] = [proc[r] EXCEPT !.pc = "loadMerged", !.cut = c, !.merges = m]
  BY <1>1 DEF m, TypeOK
<1> QED
  BY <1>2

\* Nobody else touches a run, its table or, while it is quiet, the provider.
LEMMA OthersLeave ==
  ASSUME TypeOK, [Next]_vars, NEW r \in Runs, ~RunStep(r)
  PROVE  /\ proc'[r] = proc[r]
         /\ r \in calm' => r \in calm /\ rows' = rows
         /\ r \in quiet' => r \in quiet /\ rows' = rows /\ prov' = prov
<1>0. r \in Procs /\ \A w \in Workers : w # r /\ w \notin Runs
  BY StoreAssumption DEF Procs
<1>1. CASE ProviderStep
  BY <1>1 DEF ProviderStep, OpenOrEdit, Close, Reopen, MergeIt, EditMerged, Change
<1>2. CASE Tick \/ Prune \/ UNCHANGED vars
  BY <1>2 DEF Tick, Prune, vars
<1>3. ASSUME NEW x \in Procs, x # r, RunStep(x) \/ WorkerStep(x)
      PROVE  proc'[r] = proc[r]
  <2>1. \A n : proc' = [proc EXCEPT ![x] = n] => proc'[r] = proc[r]
    BY <1>0, <1>3 DEF TypeOK
  <2> QED
    BY <1>0, <1>3, <2>1 DEF RunStep, WorkerStep, UpsertStep, Start, MergedFrom,
       ListPullRequest, Load, Update, Create, EndOpenUpsert, CloseStalePullRequests,
       ListMergedPullRequests, LoadMerged, Finish, FailRun, Take, EndJob, FailJob, TypeOK
<1>4. ASSUME NEW x \in Procs, x # r, RunStep(x) \/ WorkerStep(x)
      PROVE  /\ prov' = prov
             /\ r \in calm' => r \in calm /\ rows' = rows
             /\ r \in quiet' => r \in quiet /\ rows' = rows
  <2>1. Wrote(x) => r \notin calm' /\ r \notin quiet'
    BY <1>4 DEF Wrote
  <2>2. CASE UpsertStep(x)
    BY <1>4, <2>1, <2>2 DEF UpsertStep, Load, Update, Create
  <2>3. CASE EndOpenUpsert(x) \/ EndJob(x) \/ CloseStalePullRequests(x)
    BY <2>1, <2>3 DEF EndOpenUpsert, EndJob, CloseStalePullRequests
  <2>4. CASE \/ Start(x) \/ MergedFrom(x) \/ (\E p \in PRs : ListPullRequest(x, p))
             \/ ListMergedPullRequests(x) \/ LoadMerged(x) \/ Finish(x) \/ FailRun(x)
    BY <1>4, <2>4 DEF Start, MergedFrom, ListPullRequest, ListMergedPullRequests,
       LoadMerged, Finish, FailRun
  <2>5. CASE (\E job \in queue : Take(x, job)) \/ FailJob(x)
    BY <2>5 DEF Take, FailJob
  <2> QED
    BY <1>4, <2>2, <2>3, <2>4, <2>5 DEF RunStep, WorkerStep
<1> QED
  BY <1>0, <1>1, <1>2, <1>3, <1>4 DEF Next, Procs

(* What a calm run still has to write wins against the row, and what it    *)
(* has listed is marked as seen, or about to be.                           *)
CalmSpares(q, table) ==
  q.pc = "close" \/ (q.pc \in {"write", "create"} /\ ~q.merging) => \A p \in PRs :
    /\ q.todo[p].exists =>
         /\ q.todo[p].seenAt = q.seenAt
         /\ table[p].exists => /\ table[p].updatedAt <= q.todo[p].updatedAt
                               /\ q.pc = "create" => p \notin q.creating
    /\ q.reads[p].exists /\ table[p].exists =>
         \/ table[p].seenAt = q.seenAt
         \/ q.pc # "close" /\ (p \in q.stale \/ q.todo[p].exists)

CalmRunsSpare == \A r \in calm : CalmSpares(proc[r], rows)

\* What a merge of the open feed carries over from the reading.
LEMMA MergeOpenFields ==
  ASSUME NEW stored, NEW rd, NEW t
  PROVE  LET m == MergeOpenPullRequest(stored, rd, t)
         IN  m.exists /\ m.updatedAt = rd.updatedAt /\ m.seenAt = t
BY DEF MergeOpenPullRequest

\* A load makes a calm run.
LEMMA LoadSpares ==
  ASSUME TypeOK, NEW r \in Procs, Load(r)
  PROVE  CalmSpares(proc'[r], rows')
<1> DEFINE q == proc[r]
           todo == [p \in PRs |-> IF q.reads[p].exists /\ ~IsStale(rows[p], q.reads[p])
                      THEN MergeOpenPullRequest(rows[p], q.reads[p], q.seenAt) ELSE NoRow]
           stale == {p \in PRs : q.reads[p].exists
                       /\ ~(q.reads[p].exists /\ ~IsStale(rows[p], q.reads[p]))}
           n == [q EXCEPT !.pc = "write", !.todo = todo, !.stale = stale]
<1>1. q \in Process /\ rows' = rows
  BY DEF TypeOK, Load
<1>2. \A p \in PRs : /\ q.reads[p].exists => q.reads[p].updatedAt \in Nat
                     /\ rows[p].exists => rows[p].updatedAt \in Nat
  BY <1>1, RowFields, ReadingFields DEF TypeOK, Process, Readings, NoReading, NoRow
<1>3. ASSUME NEW p \in PRs, todo[p].exists
      PROVE  /\ todo[p].seenAt = q.seenAt
             /\ rows[p].exists => rows[p].updatedAt <= todo[p].updatedAt
  <2>1. q.reads[p].exists /\ ~IsStale(rows[p], q.reads[p])
    BY <1>3 DEF NoRow
  <2>2. todo[p] = MergeOpenPullRequest(rows[p], q.reads[p], q.seenAt)
    BY <2>1
  <2> HIDE DEF todo, q
  <2>3. todo[p].seenAt = q.seenAt /\ todo[p].updatedAt = q.reads[p].updatedAt
    BY <2>2, MergeOpenFields
  <2> QED
    BY <1>2, <2>1, <2>3 DEF IsStale
<1>4. ASSUME NEW p \in PRs, q.reads[p].exists PROVE p \in stale \/ todo[p].exists
  BY <1>4, MergeOpenFields
<1> HIDE DEF todo, stale
<1>5. proc'[r] = n
  BY DEF Load, todo, stale, TypeOK
<1>6. /\ n.pc = "write" /\ n.todo = todo /\ n.stale = stale
      /\ n.reads = q.reads /\ n.seenAt = q.seenAt
  BY <1>1, LoadedFields DEF Timed
<1> HIDE DEF n, q
<1> QED
  BY <1>1, <1>3, <1>4, <1>5, <1>6 DEF CalmSpares

\* A calm run that writes or creates a row marks it as seen, and never loses.
LEMMA WriteSpares ==
  ASSUME TypeOK, NEW r \in Procs, CalmSpares(proc[r], rows), NEW p \in PRs,
         Update(r, p) \/ Create(r, p)
  PROVE  CalmSpares(proc'[r], rows')
<1> DEFINE q == proc[r]
           n == proc'[r]
<1>1. /\ q \in Process /\ rows \in [PRs -> PullRequestRow \cup {NoRow}]
      /\ q.todo \in [PRs -> PullRequestRow \cup {NoRow}]
  BY DEF TypeOK, Process
<1>2. /\ q.pc \in {"write", "create"} /\ n.pc \in {"write", "create"}
      /\ Carried(n, q) /\ n.seenAt = q.seenAt
  <2>1. CASE n = [q EXCEPT !.todo[p] = NoRow]
    BY <1>1, <2>1, WrittenFields DEF Update, Create, Timed
  <2>2. CASE n = [q EXCEPT !.pc = "create", !.creating = {p}]
    BY <1>1, <2>2 DEF Update, Create, Process, Carried
  <2>3. CASE n = [q EXCEPT !.pc = "write", !.creating = {}, !.todo[p] = NoRow]
    BY <1>1, <2>3 DEF Update, Create, Process, Carried
  <2> QED
    BY <2>1, <2>2, <2>3 DEF Update, Create, TypeOK
<1>3. SUFFICES ASSUME ~q.merging PROVE CalmSpares(n, rows')
  BY <1>2 DEF Carried, CalmSpares
<1>4. \A s \in PRs :
        /\ q.todo[s].exists =>
             /\ q.todo[s].seenAt = q.seenAt
             /\ rows[s].exists => /\ rows[s].updatedAt <= q.todo[s].updatedAt
                                  /\ q.pc = "create" => s \notin q.creating
        /\ q.reads[s].exists /\ rows[s].exists =>
             rows[s].seenAt = q.seenAt \/ s \in q.stale \/ q.todo[s].exists
  BY <1>2, <1>3 DEF CalmSpares
<1>5. CASE Update(r, p) /\ UpdateMatches(rows[p], q.todo[p])
  <2>1. /\ rows' = [rows EXCEPT ![p] = q.todo[p]] /\ q.todo[p].exists
        /\ n = [q EXCEPT !.todo[p] = NoRow] /\ q.pc = "write"
    BY <1>5 DEF Update, TypeOK
  <2>2. n.pc = "write" /\ n.todo = [q.todo EXCEPT ![p] = NoRow]
    BY <1>1, <2>1, WrittenFields
  <2> HIDE DEF n, q
  <2> QED
    BY <1>1, <1>2, <1>4, <2>1, <2>2 DEF CalmSpares, Carried, NoRow
<1>6. CASE Update(r, p) /\ ~UpdateMatches(rows[p], q.todo[p])
  <2>1. /\ rows' = rows /\ q.todo[p].exists /\ q.pc = "write"
        /\ n = [q EXCEPT !.pc = "create", !.creating = {p}]
    BY <1>6 DEF Update, TypeOK
  <2>2. n.pc = "create" /\ n.todo = q.todo /\ n.creating = {p}
    BY <1>1, <2>1 DEF Process
  <2>3. ~rows[p].exists
    BY <1>4, <1>6, <2>1 DEF UpdateMatches
  <2> HIDE DEF n, q
  <2> QED
    BY <1>2, <1>4, <2>1, <2>2, <2>3 DEF CalmSpares, Carried
<1>7. CASE Create(r, p)
  <2>1. /\ p \in q.creating /\ q.pc = "create"
        /\ IF rows[p].exists THEN rows' = rows
                             ELSE rows' = [rows EXCEPT ![p] = q.todo[p]]
        /\ n = [q EXCEPT !.pc = "write", !.creating = {}, !.todo[p] = NoRow]
    BY <1>7 DEF Create, TypeOK
  <2>2. n.pc = "write" /\ n.todo = [q.todo EXCEPT ![p] = NoRow]
    BY <1>1, <2>1, CreatedFields
  <2>3. q.todo[p].exists => ~rows[p].exists
    BY <1>4, <2>1
  <2> HIDE DEF n, q
  <2> QED
    BY <1>1, <1>2, <1>4, <2>1, <2>2, <2>3 DEF CalmSpares, Carried, NoRow
<1> QED
  BY <1>5, <1>6, <1>7

\* A calm run goes to its reconciliation with everything it listed marked.
LEMMA TouchSpares ==
  ASSUME TypeOK, NEW r \in Procs, CalmSpares(proc[r], rows), EndOpenUpsert(r)
  PROVE  CalmSpares(proc'[r], rows')
<1> DEFINE q == proc[r]
           n == proc'[r]
<1>1. /\ q \in Process /\ rows \in [PRs -> PullRequestRow \cup {NoRow}]
      /\ q.seenAt \in Nat
  BY DEF TypeOK, Process
<1>2. /\ q.pc = "write" /\ ~q.merging /\ \A p \in PRs : ~q.todo[p].exists
      /\ n = [q EXCEPT !.pc = "close"] /\ rows' = TouchStale(r)
  BY DEF EndOpenUpsert, Written, TypeOK
<1>3. n.pc = "close" /\ n.todo = q.todo /\ Carried(n, q) /\ n.seenAt = q.seenAt
  BY <1>1, <1>2, ToCloseFields DEF Timed
<1>4. ASSUME NEW p \in PRs, rows'[p].exists, q.reads[p].exists
      PROVE  rows'[p].seenAt = q.seenAt
  <2>1. rows'[p] = IF p \in q.stale /\ rows[p].exists
                     THEN [rows[p] EXCEPT !.seenAt = q.seenAt] ELSE rows[p]
    BY <1>2 DEF TouchStale
  <2>2. CASE p \in q.stale /\ rows[p].exists
    <3>1. rows[p] \in PullRequestRow
      BY <1>1, <2>2 DEF NoRow
    <3> QED
      BY <2>1, <2>2, <3>1 DEF PullRequestRow
  <2>3. CASE ~(p \in q.stale /\ rows[p].exists)
    BY <1>2, <1>4, <2>1, <2>3 DEF CalmSpares
  <2> QED
    BY <2>2, <2>3
<1> HIDE DEF q
<1> QED
  BY <1>2, <1>3, <1>4 DEF CalmSpares, Carried

\* CalmRunsSpare is inductive: a run that loads becomes calm, and stays so only
\* while every write to the table is its own.
LEMMA CalmRuns == Spec => []CalmRunsSpare
<1>1. Init => CalmRunsSpare
  BY DEF Init, CalmRunsSpare
<1>2. TypeOK /\ TypeOK' /\ CalmRunsSpare /\ [Next]_vars => CalmRunsSpare'
  <2> SUFFICES ASSUME TypeOK, TypeOK', CalmRunsSpare, [Next]_vars, NEW r \in calm'
               PROVE  CalmSpares(proc'[r], rows')
    BY DEF CalmRunsSpare
  <2>0. r \in Runs /\ r \in Procs /\ proc[r] \in Process
    BY DEF Procs, TypeOK
  <2>1. CASE ~RunStep(r)
    BY <2>0, <2>1, OthersLeave DEF CalmRunsSpare
  <2>2. CASE Load(r)
    BY <2>0, <2>2, LoadSpares
  <2>4. ASSUME NEW p \in PRs, Update(r, p) \/ Create(r, p) PROVE CalmSpares(proc'[r], rows')
    <3>1. r \in calm
      BY <2>4 DEF Update, Create, Wrote
    <3> QED
      BY <2>0, <2>4, <3>1, WriteSpares DEF CalmRunsSpare
  <2>5. CASE EndOpenUpsert(r)
    <3>1. r \in calm
      BY <2>5 DEF EndOpenUpsert, Wrote
    <3> QED
      BY <2>0, <2>5, <3>1, TouchSpares DEF CalmRunsSpare
  <2>6. CASE LoadMerged(r)
    <3>1. PICK todo : proc'[r] = [proc[r] EXCEPT !.pc = "write", !.merging = TRUE,
                                     !.todo = todo, !.merges = Idle.merges]
      BY <2>0, <2>6 DEF LoadMerged, TypeOK
    <3> QED
      BY <2>0, <3>1 DEF CalmSpares, Process
  <2>7. CASE MergedFrom(r)
    <3>1. PICK t : proc'[r] = [proc[r] EXCEPT !.pc = "list", !.unread = PRs, !.since = t,
                                  !.full = FALSE]
      BY <2>0, <2>7 DEF MergedFrom, TypeOK
    <3> QED
      BY <2>0, <3>1, BoundedFields DEF CalmSpares
  <2>8. CASE CloseStalePullRequests(r)
    <3>1. proc'[r] = [proc[r] EXCEPT !.pc = "listMerged", !.stale = {}, !.reads = Idle.reads]
      BY <2>0, <2>8 DEF CloseStalePullRequests, TypeOK
    <3> QED
      BY <2>0, <3>1, ClosedFields DEF CalmSpares
  <2>11. CASE ListMergedPullRequests(r)
    <3>1. PICK c, m : proc'[r] = [proc[r] EXCEPT !.pc = "loadMerged", !.cut = c, !.merges = m]
      BY <2>0, <2>11, MergesListed
    <3> QED
      BY <2>0, <3>1, MergesFields DEF CalmSpares
  <2>12. ASSUME NEW p \in PRs, ListPullRequest(r, p) PROVE CalmSpares(proc'[r], rows')
    <3> DEFINE S == proc[r].unread \ {p}
               c == IF proc[r].unread = {p} THEN "load" ELSE "list"
               rd == IF prov[p].state = "open" THEN ListedReading(prov[p]) ELSE NoReading
    <3>1. c \in {"load", "list"}
      OBVIOUS
    <3> HIDE DEF S, c, rd
    <3>2. proc'[r] = [proc[r] EXCEPT !.unread = S, !.pc = c, !.reads[p] = rd]
      BY <2>0, <2>12 DEF ListPullRequest, TypeOK, S, c, rd
    <3>3. proc'[r].pc = c
      BY <2>0, <3>2 DEF Process
    <3> QED
      BY <3>1, <3>3 DEF CalmSpares
  <2>9. CASE Start(r)
    <3>1. PICK full \in BOOLEAN : proc'[r] =
            [Idle EXCEPT !.pc = "from", !.seenAt = now, !.full = full]
      BY <2>0, <2>9 DEF Start, TypeOK
    <3>2. proc'[r].pc = "from"
      BY <3>1, IdleType DEF Process
    <3> QED
      BY <3>2 DEF CalmSpares
  <2>10. CASE Finish(r) \/ FailRun(r)
    BY <2>10 DEF Finish, FailRun
  <2> QED
    BY <2>1, <2>2, <2>4, <2>5, <2>6, <2>7, <2>8, <2>9, <2>10, <2>11, <2>12
       DEF RunStep, UpsertStep
<1> QED
  BY <1>1, <1>2, TypeCorrect, PTL DEF Spec

\* A run never closes a pull request it has itself listed as open, unless
\* somebody else wrote between its load and its reconciliation: a stale reading
\* still marks its row, for any number of runs, workers and rows.
THEOREM ListedRowsAreSpared == Spec => ListedIsSpared
<1>1. TypeOK /\ CalmRunsSpare /\ [Next]_vars =>
        \A r \in calm, p \in PRs : rows[p].exists => ~ListedThenClosed(r, p)
  <2> SUFFICES ASSUME TypeOK, CalmRunsSpare, [Next]_vars, NEW r \in calm, NEW p \in PRs,
                      rows[p].exists, ListedThenClosed(r, p)
               PROVE  FALSE
    OBVIOUS
  <2>0. r \in Runs /\ r \in Procs /\ proc[r] \in Process
    BY DEF TypeOK, Procs
  <2>1. RunStep(r)
    BY <2>0, OthersLeave DEF ListedThenClosed
  <2>2. CloseStalePullRequests(r) \/ rows' = rows
    BY <2>1 DEF ListedThenClosed, RunStep, UpsertStep, Load, Update, Create, Start,
       MergedFrom, ListPullRequest, EndOpenUpsert, Written, ListMergedPullRequests,
       LoadMerged, Finish, FailRun
  <2>3. CloseStalePullRequests(r) /\ rows'[p] # rows[p]
    BY <2>2 DEF ListedThenClosed
  <2>4. rows[p].seenAt < proc[r].seenAt
    BY <2>3 DEF CloseStalePullRequests, IsStaleOnBoard
  <2>5. rows[p].seenAt = proc[r].seenAt
    BY DEF CalmRunsSpare, CalmSpares, ListedThenClosed
  <2>6. proc[r].seenAt \in Nat
    BY <2>0 DEF Process
  <2> QED
    BY <2>4, <2>5, <2>6
<1> QED
  BY <1>1, TypeCorrect, CalmRuns, PTL DEF Spec, ListedIsSpared

(* A quiet run, phase by phase: the row of a pull request has not been     *)
(* seen, then is as the open listing has it, then as both listings have    *)
(* it.  Everything a quiet run still has to write wins against the row.    *)
Unseen(q, row) == row.exists => row.seenAt < q.seenAt

OnBoard(row) == row.exists /\ row.state = "open"

SeenOpen(q, row) == OnBoard(row) /\ row.seenAt = q.seenAt

Wins(q, p, row) ==
  row.exists => /\ row.updatedAt <= q.todo[p].updatedAt
                /\ q.pc = "create" => p \notin q.creating

ListedAs(pr) == IF pr.state = "open" THEN ListedReading(pr) ELSE NoReading

Due(q, p, pr) == pr.state = "merged" /\ pr.mergedAt >= q.since /\ p \notin q.cut

BeforeLoad(q, p, pr, row) ==
  /\ Unseen(q, row) /\ ~q.merging
  /\ q.pc = "load" \/ (q.pc = "list" /\ p \notin q.unread) => q.reads[p] = ListedAs(pr)

OpenFeed(q, p, pr, row) ==
  /\ p \notin q.stale
  /\ IF pr.state = "open"
       THEN \/ /\ q.todo[p].exists /\ q.todo[p].state = "open"
               /\ q.todo[p].seenAt = q.seenAt /\ Wins(q, p, row)
            \/ ~q.todo[p].exists /\ SeenOpen(q, row)
       ELSE ~q.todo[p].exists /\ Unseen(q, row)

Reconciles(q, pr, row) ==
  IF pr.state = "open" THEN SeenOpen(q, row) ELSE Unseen(q, row)

MergedFeed(q, p, pr, row) ==
  /\ q.todo[p].exists =>
       pr.state = "merged" /\ q.todo[p].state = "merged" /\ Wins(q, p, row)
  /\ Due(q, p, pr) => q.todo[p].exists \/ (row.exists /\ row.state = "merged")

QuietPR(q, p, pr, row) ==
  /\ q.pc \in {"from", "list", "load"} => BeforeLoad(q, p, pr, row)
  /\ q.pc \in {"write", "create"} /\ ~q.merging => OpenFeed(q, p, pr, row)
  /\ q.pc = "close" => Reconciles(q, pr, row) /\ ~q.merging
  /\ q.pc \in {"listMerged", "loadMerged"} \/ (q.pc \in {"write", "create"} /\ q.merging) =>
       (OnBoard(row) <=> pr.state = "open")
  /\ q.pc = "loadMerged" => (q.merges[p].exists <=> Due(q, p, pr))
  /\ q.pc \in {"write", "create"} /\ q.merging => MergedFeed(q, p, pr, row)

QuietRunsAgree ==
  \A r \in quiet : /\ proc[r].pc # "idle"
                   /\ \A p \in PRs : QuietPR(proc[r], p, prov[p], rows[p])

\* The row that the open feed leaves of a pull request that is open is open.
LEMMA OpenMergesOpen ==
  ASSUME NEW pr \in ProviderPR, NEW stored \in PullRequestRow \cup {NoRow}, NEW t \in Nat,
         SoundPR(pr), pr.state = "open", HonestTo(pr, stored)
  PROVE  LET m == MergeOpenPullRequest(stored, ListedReading(pr), t)
         IN  /\ ~IsStale(stored, ListedReading(pr)) /\ ListedReading(pr).exists
             /\ m.exists /\ m.state = "open" /\ m.seenAt = t
             /\ stored.exists => stored.updatedAt <= m.updatedAt
<1>1. pr.mergedAt = Null /\ pr.updatedAt \in Nat
  BY DEF SoundPR, ProviderPR
<1>2. stored.exists =>
        stored.updatedAt \in Nat /\ stored.updatedAt <= pr.updatedAt /\ stored.mergedAt = Null
  BY <1>1, RowFields DEF NoRow, HonestTo
<1> QED
  BY <1>1, <1>2 DEF MergeOpenPullRequest, ListedReading, IsStale, Coalesce, SettledState

\* The row the merged feed leaves is merged and no older than the stored one.
LEMMA MergedMergesMerged ==
  ASSUME NEW stored \in PullRequestRow \cup {NoRow}, NEW m \in MergedReading, NEW t \in Nat
  PROVE  LET n == MergeMergedPullRequest(stored, m, t)
         IN  /\ n.exists /\ n.state = "merged"
             /\ stored.exists => stored.updatedAt <= n.updatedAt
<1>1. m.mergedAt \in Nat /\ (stored.exists => stored.updatedAt \in Nat)
  BY RowFields DEF NoRow, MergedReading
<1> QED
  BY <1>1 DEF MergeMergedPullRequest

\* A quiet run loads: every open pull request is to be written, no other is.
LEMMA LoadKeepsQuiet ==
  ASSUME TypeOK, EveryCopyHonest, NEW r \in Procs, Load(r), NEW p \in PRs,
         QuietPR(proc[r], p, prov[p], rows[p])
  PROVE  QuietPR(proc'[r], p, prov[p], rows[p])
<1> DEFINE q == proc[r]
           todo == [s \in PRs |-> IF q.reads[s].exists /\ ~IsStale(rows[s], q.reads[s])
                      THEN MergeOpenPullRequest(rows[s], q.reads[s], q.seenAt) ELSE NoRow]
           stale == {s \in PRs : q.reads[s].exists
                       /\ ~(q.reads[s].exists /\ ~IsStale(rows[s], q.reads[s]))}
           n == [q EXCEPT !.pc = "write", !.todo = todo, !.stale = stale]
<1>1. /\ q \in Process /\ q.pc = "load" /\ q.seenAt \in Nat
      /\ prov[p] \in ProviderPR /\ rows[p] \in PullRequestRow \cup {NoRow}
      /\ SoundPR(prov[p]) /\ HonestTo(prov[p], rows[p])
  BY DEF TypeOK, Load, EveryCopyHonest, Process
<1>2. Unseen(q, rows[p]) /\ ~q.merging /\ q.reads[p] = ListedAs(prov[p])
  BY <1>1 DEF QuietPR, BeforeLoad
<1>3. CASE prov[p].state = "open"
  <2>1. q.reads[p] = ListedReading(prov[p])
    BY <1>2, <1>3 DEF ListedAs
  <2>2. q.reads[p].exists /\ ~IsStale(rows[p], q.reads[p])
    BY <1>1, <1>3, <2>1, OpenMergesOpen
  <2>3. todo[p] = MergeOpenPullRequest(rows[p], ListedReading(prov[p]), q.seenAt)
    BY <2>1, <2>2
  <2>4. p \notin stale
    BY <2>2
  <2> HIDE DEF todo, stale
  <2>5. /\ todo[p].exists /\ todo[p].state = "open" /\ todo[p].seenAt = q.seenAt
        /\ rows[p].exists => rows[p].updatedAt <= todo[p].updatedAt
    BY <1>1, <1>3, <2>3, OpenMergesOpen
  <2>6. proc'[r] = n
    BY DEF Load, todo, stale, TypeOK
  <2>7. /\ n.pc = "write" /\ n.todo = todo /\ n.stale = stale
        /\ n.merging = q.merging /\ n.seenAt = q.seenAt
    BY <1>1, LoadedFields DEF Timed
  <2> HIDE DEF n, q
  <2> QED
    BY <1>2, <1>3, <2>4, <2>5, <2>6, <2>7 DEF QuietPR, OpenFeed, Wins
<1>4. CASE prov[p].state # "open"
  <2>1. ~q.reads[p].exists
    BY <1>2, <1>4 DEF ListedAs, NoReading
  <2>2. ~todo[p].exists /\ p \notin stale
    BY <2>1 DEF NoRow
  <2> HIDE DEF todo, stale
  <2>3. proc'[r] = n
    BY DEF Load, todo, stale, TypeOK
  <2>4. /\ n.pc = "write" /\ n.todo = todo /\ n.stale = stale
        /\ n.merging = q.merging /\ n.seenAt = q.seenAt
    BY <1>1, LoadedFields DEF Timed
  <2> HIDE DEF n, q
  <2> QED
    BY <1>2, <1>4, <2>2, <2>3, <2>4 DEF QuietPR, OpenFeed, Unseen
<1> QED
  BY <1>3, <1>4

\* A quiet run writes a row, or creates it: it never loses to a stored one.
LEMMA WriteKeepsQuiet ==
  ASSUME TypeOK, NEW r \in Procs, NEW p \in PRs, NEW s \in PRs,
         Update(r, s) \/ Create(r, s), QuietPR(proc[r], p, prov[p], rows[p])
  PROVE  QuietPR(proc'[r], p, prov[p], rows'[p])
<1> DEFINE q == proc[r]
           n == proc'[r]
<1>1. /\ q \in Process /\ rows \in [PRs -> PullRequestRow \cup {NoRow}]
      /\ q.todo \in [PRs -> PullRequestRow \cup {NoRow}]
      /\ q.pc \in {"write", "create"}
  BY DEF TypeOK, Process, Update, Create
<1>2. /\ ~q.merging => OpenFeed(q, p, prov[p], rows[p])
      /\ q.merging => /\ OnBoard(rows[p]) <=> prov[p].state = "open"
                      /\ MergedFeed(q, p, prov[p], rows[p])
  BY <1>1 DEF QuietPR
<1>3. ASSUME n.pc \in {"write", "create"}, n.merging = q.merging,
             ~q.merging => OpenFeed(n, p, prov[p], rows'[p]),
             q.merging => /\ OnBoard(rows'[p]) <=> prov[p].state = "open"
                          /\ MergedFeed(n, p, prov[p], rows'[p])
      PROVE  QuietPR(n, p, prov[p], rows'[p])
  BY <1>3 DEF QuietPR
<1> SUFFICES QuietPR(n, p, prov[p], rows'[p])
  OBVIOUS
<1>4. CASE Update(r, s) /\ UpdateMatches(rows[s], q.todo[s])
  <2>1. /\ rows' = [rows EXCEPT ![s] = q.todo[s]] /\ q.todo[s].exists
        /\ n = [q EXCEPT !.todo[s] = NoRow] /\ q.pc = "write"
    BY <1>4 DEF Update, TypeOK
  <2>2. /\ n.pc = "write" /\ n.todo = [q.todo EXCEPT ![s] = NoRow]
        /\ n.stale = q.stale /\ n.merging = q.merging /\ Timed(n, q)
    BY <1>1, <2>1, WrittenFields DEF Carried
  <2>3. CASE p = s
    <3>1. rows'[p] = q.todo[p] /\ q.todo[p].exists /\ ~n.todo[p].exists
      BY <1>1, <2>1, <2>2, <2>3 DEF NoRow
    <3> HIDE DEF n, q
    <3> QED
      BY <1>2, <1>3, <2>2, <3>1 DEF OpenFeed, MergedFeed, SeenOpen, OnBoard, Timed, Due
  <2>4. CASE p # s
    <3>1. rows'[p] = rows[p] /\ n.todo[p] = q.todo[p]
      BY <1>1, <2>1, <2>2, <2>4
    <3> HIDE DEF n, q
    <3> QED
      BY <1>2, <1>3, <2>1, <2>2, <3>1
         DEF OpenFeed, MergedFeed, SeenOpen, Unseen, Wins, Timed, Due
  <2> QED
    BY <2>3, <2>4
<1>5. CASE Update(r, s) /\ ~UpdateMatches(rows[s], q.todo[s])
  <2>1. /\ rows' = rows /\ q.todo[s].exists /\ q.pc = "write"
        /\ n = [q EXCEPT !.pc = "create", !.creating = {s}]
    BY <1>5 DEF Update, TypeOK
  <2>2. /\ n.pc = "create" /\ n.todo = q.todo /\ n.creating = {s}
        /\ n.stale = q.stale /\ n.merging = q.merging /\ Timed(n, q)
    BY <1>1, <2>1 DEF Process, Timed
  <2>3. p = s /\ Wins(q, p, rows[p]) => ~rows[p].exists
    BY <1>5, <2>1 DEF Wins, UpdateMatches
  <2> HIDE DEF n, q
  <2>4. Wins(q, p, rows[p]) => Wins(n, p, rows[p])
    BY <2>2, <2>3 DEF Wins
  <2> QED
    BY <1>2, <1>3, <2>1, <2>2, <2>4 DEF OpenFeed, MergedFeed, SeenOpen, Unseen, Timed, Due
<1>6. CASE Create(r, s)
  <2>1. /\ s \in q.creating /\ q.pc = "create"
        /\ IF rows[s].exists THEN rows' = rows
                             ELSE rows' = [rows EXCEPT ![s] = q.todo[s]]
        /\ n = [q EXCEPT !.pc = "write", !.creating = {}, !.todo[s] = NoRow]
    BY <1>6 DEF Create, TypeOK
  <2>2. /\ n.pc = "write" /\ n.todo = [q.todo EXCEPT ![s] = NoRow]
        /\ n.stale = q.stale /\ n.merging = q.merging /\ Timed(n, q)
    BY <1>1, <2>1 DEF Process, Timed
  <2>3. CASE p = s
    <3>1. /\ ~n.todo[p].exists /\ p \in q.creating
          /\ IF rows[p].exists THEN rows'[p] = rows[p] ELSE rows'[p] = q.todo[p]
      BY <1>1, <2>1, <2>2, <2>3 DEF NoRow
    <3>2. Wins(q, p, rows[p]) => ~rows[p].exists
      BY <2>1, <3>1 DEF Wins
    <3> HIDE DEF n, q
    <3>3. CASE ~q.merging
      BY <1>2, <1>3, <2>2, <3>1, <3>2, <3>3 DEF OpenFeed, SeenOpen, OnBoard, Unseen, Timed
    <3>4. CASE q.merging
      BY <1>2, <1>3, <2>2, <3>1, <3>2, <3>4 DEF MergedFeed, OnBoard, Timed, Due
    <3> QED
      BY <3>3, <3>4
  <2>4. CASE p # s
    <3>1. rows'[p] = rows[p] /\ n.todo[p] = q.todo[p]
      BY <1>1, <2>1, <2>2, <2>4
    <3> HIDE DEF n, q
    <3> QED
      BY <1>2, <1>3, <2>1, <2>2, <3>1
         DEF OpenFeed, MergedFeed, SeenOpen, Unseen, Wins, Timed, Due
  <2> QED
    BY <2>3, <2>4
<1> QED
  BY <1>4, <1>5, <1>6

\* A quiet run has no stale reading to mark: the provider's own is never older.
LEMMA TouchKeepsQuiet ==
  ASSUME TypeOK, NEW r \in Procs, EndOpenUpsert(r), NEW p \in PRs,
         QuietPR(proc[r], p, prov[p], rows[p])
  PROVE  QuietPR(proc'[r], p, prov[p], rows'[p])
<1> DEFINE q == proc[r]
           n == proc'[r]
<1>1. /\ q \in Process /\ q.pc = "write" /\ ~q.merging /\ ~q.todo[p].exists
      /\ n = [q EXCEPT !.pc = "close"] /\ rows' = TouchStale(r)
  BY DEF EndOpenUpsert, Written, TypeOK
<1>2. OpenFeed(q, p, prov[p], rows[p])
  BY <1>1 DEF QuietPR
<1>3. rows'[p] = rows[p]
  BY <1>1, <1>2 DEF TouchStale, OpenFeed
<1>4. n.pc = "close" /\ n.merging = q.merging /\ n.seenAt = q.seenAt
  BY <1>1, ToCloseFields DEF Carried, Timed
<1> SUFFICES QuietPR(n, p, prov[p], rows'[p])
  OBVIOUS
<1> HIDE DEF n, q
<1> QED
  BY <1>1, <1>2, <1>3, <1>4 DEF QuietPR, OpenFeed, Reconciles, SeenOpen, Unseen

\* The reconciliation closes what is not open, and nothing that is.
LEMMA CloseKeepsQuiet ==
  ASSUME TypeOK, NEW r \in Procs, CloseStalePullRequests(r), NEW p \in PRs,
         QuietPR(proc[r], p, prov[p], rows[p])
  PROVE  QuietPR(proc'[r], p, prov[p], rows'[p])
<1> DEFINE q == proc[r]
           n == proc'[r]
<1>1. /\ q \in Process /\ q.pc = "close" /\ q.seenAt \in Nat
      /\ rows[p] \in PullRequestRow \cup {NoRow}
      /\ n = [q EXCEPT !.pc = "listMerged", !.stale = {}, !.reads = Idle.reads]
  BY DEF CloseStalePullRequests, TypeOK, Process
<1>2. rows'[p] = IF IsStaleOnBoard(rows[p], q.seenAt)
                   THEN [rows[p] EXCEPT !.state = "closed", !.seenAt = q.seenAt]
                   ELSE rows[p]
  BY DEF CloseStalePullRequests
<1>3. Reconciles(q, prov[p], rows[p]) /\ ~q.merging
  BY <1>1 DEF QuietPR
<1>4. n.pc = "listMerged" /\ n.merging = q.merging
  BY <1>1 DEF Process
<1>5. OnBoard(rows'[p]) <=> prov[p].state = "open"
  <2>1. CASE prov[p].state = "open"
    <3>1. ~IsStaleOnBoard(rows[p], q.seenAt)
      BY <1>1, <1>3, <2>1 DEF Reconciles, SeenOpen, IsStaleOnBoard
    <3> QED
      BY <1>2, <1>3, <2>1, <3>1 DEF Reconciles, SeenOpen
  <2>2. CASE prov[p].state # "open" /\ OnBoard(rows[p])
    <3>1. IsStaleOnBoard(rows[p], q.seenAt) /\ rows[p] \in PullRequestRow
      BY <1>1, <1>3, <2>2 DEF Reconciles, Unseen, OnBoard, IsStaleOnBoard, NoRow
    <3>2. rows'[p].state = "closed"
      BY <1>2, <3>1 DEF PullRequestRow
    <3> QED
      BY <2>2, <3>2 DEF OnBoard
  <2>3. CASE prov[p].state # "open" /\ ~OnBoard(rows[p])
    BY <1>2, <2>3 DEF OnBoard, IsStaleOnBoard
  <2> QED
    BY <2>1, <2>2, <2>3
<1> SUFFICES QuietPR(n, p, prov[p], rows'[p])
  OBVIOUS
<1> HIDE DEF n, q
<1> QED
  BY <1>3, <1>4, <1>5 DEF QuietPR

\* The merged listing has every merge since the bound, and its load carries it.
LEMMA MergesKeepQuiet ==
  ASSUME TypeOK, NEW r \in Procs, ListMergedPullRequests(r) \/ LoadMerged(r), NEW p \in PRs,
         QuietPR(proc[r], p, prov[p], rows[p])
  PROVE  QuietPR(proc'[r], p, prov[p], rows[p])
<1> DEFINE q == proc[r]
<1>1. q \in Process /\ q.seenAt \in Nat /\ rows[p] \in PullRequestRow \cup {NoRow}
  BY DEF TypeOK, Process
<1>2. OnBoard(rows[p]) <=> prov[p].state = "open"
  BY DEF QuietPR, ListMergedPullRequests, LoadMerged
<1>3. CASE ListMergedPullRequests(r)
  <2>1. PICK e \in SUBSET PRs, c \in SUBSET MergedSinceBound(r) :
          proc' = [proc EXCEPT ![r].pc = "loadMerged", ![r].cut = c,
            ![r].merges = [s \in PRs |->
               IF s \in MergedSinceBound(r) \ c
                 THEN [exists |-> TRUE, mergedAt |-> prov[s].mergedAt,
                       segments |-> s \in e]
                 ELSE NoReading]]
    BY <1>3 DEF ListMergedPullRequests
  <2> DEFINE m == [s \in PRs |->
                IF s \in MergedSinceBound(r) \ c
                  THEN [exists |-> TRUE, mergedAt |-> prov[s].mergedAt,
                        segments |-> s \in e]
                  ELSE NoReading]
             n == [q EXCEPT !.pc = "loadMerged", !.cut = c, !.merges = m]
  <2>2. m[p].exists <=> prov[p].state = "merged" /\ prov[p].mergedAt >= q.since /\ p \notin c
    BY DEF MergedSinceBound, NoReading
  <2> HIDE DEF m
  <2>3. proc'[r] = n
    BY <2>1 DEF m, TypeOK
  <2>4. n.pc = "loadMerged" /\ n.merges = m /\ n.since = q.since /\ n.cut = c
    BY <1>1, MergesFields
  <2> HIDE DEF n, q
  <2> QED
    BY <1>2, <2>2, <2>3, <2>4 DEF QuietPR, Due
<1>4. CASE LoadMerged(r)
  <2> DEFINE todo == [s \in PRs |-> IF q.merges[s].exists
                        THEN MergeMergedPullRequest(rows[s], q.merges[s], q.seenAt) ELSE NoRow]
             n == [q EXCEPT !.pc = "write", !.merging = TRUE, !.todo = todo,
                            !.merges = Idle.merges]
  <2>1. q.merges[p].exists <=> Due(q, p, prov[p])
    BY <1>4 DEF QuietPR, LoadMerged
  <2>2. CASE q.merges[p].exists
    <3>1. q.merges[p] \in MergedReading
      BY <1>1, <2>2 DEF Process, MergedReadings, NoReading
    <3>2. todo[p] = MergeMergedPullRequest(rows[p], q.merges[p], q.seenAt)
      BY <2>2
    <3> HIDE DEF todo
    <3>3. /\ todo[p].exists /\ todo[p].state = "merged"
          /\ rows[p].exists => rows[p].updatedAt <= todo[p].updatedAt
      BY <1>1, <3>1, <3>2, MergedMergesMerged
    <3>4. proc'[r] = n
      BY <1>4 DEF LoadMerged, todo, TypeOK
    <3>5. n.pc = "write" /\ n.merging /\ n.todo = todo /\ n.since = q.since /\ n.cut = q.cut
      BY <1>1, MergedLoadedFields DEF Timed
    <3> HIDE DEF n, q
    <3> QED
      BY <1>2, <2>1, <2>2, <3>3, <3>4, <3>5 DEF QuietPR, MergedFeed, Wins, Due
  <2>3. CASE ~q.merges[p].exists
    <3>1. ~todo[p].exists
      BY <2>3 DEF NoRow
    <3> HIDE DEF todo
    <3>2. proc'[r] = n
      BY <1>4 DEF LoadMerged, todo, TypeOK
    <3>3. n.pc = "write" /\ n.merging /\ n.todo = todo /\ n.since = q.since /\ n.cut = q.cut
      BY <1>1, MergedLoadedFields DEF Timed
    <3> HIDE DEF n, q
    <3> QED
      BY <1>2, <2>1, <2>3, <3>1, <3>2, <3>3 DEF QuietPR, MergedFeed, Due
  <2> QED
    BY <2>2, <2>3
<1> QED
  BY <1>3, <1>4

\* Listing the open pull requests one by one, each as the provider has it.
LEMMA ListKeepsQuiet ==
  ASSUME TypeOK, NEW r \in Procs, NEW p \in PRs,
         MergedFrom(r) \/ \E s \in PRs : ListPullRequest(r, s),
         QuietPR(proc[r], p, prov[p], rows[p])
  PROVE  QuietPR(proc'[r], p, prov[p], rows[p])
<1> DEFINE q == proc[r]
<1>1. /\ q \in Process /\ q.reads \in [PRs -> Readings]
      /\ BeforeLoad(q, p, prov[p], rows[p])
  BY DEF TypeOK, Process, MergedFrom, ListPullRequest, QuietPR
<1>2. CASE MergedFrom(r)
  <2>1. PICK t : proc'[r] = [q EXCEPT !.pc = "list", !.unread = PRs, !.since = t,
                                      !.full = FALSE]
    BY <1>2 DEF MergedFrom, TypeOK
  <2> DEFINE n == [q EXCEPT !.pc = "list", !.unread = PRs, !.since = t, !.full = FALSE]
  <2>2. n.pc = "list" /\ n.unread = PRs /\ n.merging = q.merging /\ n.seenAt = q.seenAt
    BY <1>1, BoundedFields DEF Carried
  <2> HIDE DEF n, q
  <2> QED
    BY <1>1, <2>1, <2>2 DEF QuietPR, BeforeLoad, Unseen, n
<1>3. ASSUME NEW s \in PRs, ListPullRequest(r, s)
      PROVE  QuietPR(proc'[r], p, prov[p], rows[p])
  <2> DEFINE S == q.unread \ {s}
             c == IF q.unread = {s} THEN "load" ELSE "list"
             rd == IF prov[s].state = "open" THEN ListedReading(prov[s]) ELSE NoReading
             n == [q EXCEPT !.unread = S, !.pc = c, !.reads[s] = rd]
  <2>1. c \in {"load", "list"} /\ (p \notin S => p = s \/ p \notin q.unread)
        /\ (c = "load" => p = s \/ p \notin q.unread) /\ q.pc = "list"
    BY <1>3 DEF ListPullRequest
  <2>2. rd = ListedAs(prov[s])
    BY DEF ListedAs
  <2> HIDE DEF S, c, rd
  <2>3. proc'[r] = n
    BY <1>3 DEF ListPullRequest, TypeOK, S, c, rd
  <2>4. /\ n.pc = c /\ n.unread = S /\ n.reads = [q.reads EXCEPT ![s] = rd]
        /\ n.merging = q.merging /\ n.seenAt = q.seenAt
    BY <1>1 DEF Process
  <2>5. n.reads[p] = IF p = s THEN rd ELSE q.reads[p]
    BY <1>1, <2>4
  <2> HIDE DEF n, q
  <2>6. BeforeLoad(n, p, prov[p], rows[p])
    BY <1>1, <2>1, <2>2, <2>4, <2>5 DEF BeforeLoad, Unseen
  <2> QED
    BY <2>1, <2>3, <2>4, <2>6 DEF QuietPR
<1> QED
  BY <1>2, <1>3

\* A run that starts after every row was last seen has them all unseen.
LEMMA StartIsQuiet ==
  ASSUME TypeOK, NEW r \in Procs, Start(r), NEW p \in PRs,
         rows[p].exists => rows[p].seenAt < now
  PROVE  QuietPR(proc'[r], p, prov[p], rows[p]) /\ proc'[r].pc # "idle"
<1>1. PICK full \in BOOLEAN : proc'[r] =
        [Idle EXCEPT !.pc = "from", !.seenAt = now, !.full = full]
  BY DEF Start, TypeOK
<1>2. proc'[r].pc = "from" /\ proc'[r].seenAt = now /\ ~proc'[r].merging
  BY <1>1 DEF Idle
<1> QED
  BY <1>2 DEF QuietPR, BeforeLoad, Unseen

\* A step that neither ends a run nor fails it leaves it at work.
LEMMA StepNotIdle ==
  ASSUME TypeOK, NEW r \in Procs, RunStep(r), ~Start(r), ~Finish(r), ~FailRun(r),
         proc[r].pc # "idle"
  PROVE  proc'[r].pc # "idle"
<1>1. proc[r] \in Process
  BY DEF TypeOK
<1>3. CASE Load(r)
  <2>1. PICK todo, S : proc'[r] = [proc[r] EXCEPT !.pc = "write", !.todo = todo, !.stale = S]
    BY <1>3 DEF Load, TypeOK
  <2> QED
    BY <1>1, <2>1 DEF Process
<1>8. CASE LoadMerged(r)
  <2>1. PICK todo, m : proc'[r] = [proc[r] EXCEPT !.pc = "write", !.merging = TRUE,
                                      !.todo = todo, !.merges = m]
    BY <1>8 DEF LoadMerged, TypeOK
  <2> QED
    BY <1>1, <2>1 DEF Process
<1>7. CASE MergedFrom(r) \/ ListMergedPullRequests(r)
  <2>1. PICK t, c, m :
          \/ proc'[r] = [proc[r] EXCEPT !.pc = "list", !.unread = PRs, !.since = t,
                                        !.full = FALSE]
          \/ proc'[r] = [proc[r] EXCEPT !.pc = "loadMerged", !.cut = c, !.merges = m]
    <3>1. CASE MergedFrom(r)
      BY <1>7, <3>1 DEF MergedFrom, TypeOK
    <3> QED
      BY <1>7, <3>1, MergesListed
  <2> QED
    BY <1>1, <2>1 DEF Process
<1>4. CASE EndOpenUpsert(r) \/ CloseStalePullRequests(r)
  BY <1>1, <1>4 DEF EndOpenUpsert, CloseStalePullRequests, Process, TypeOK
<1>5. CASE \E s \in PRs : Update(r, s) \/ Create(r, s)
  BY <1>1, <1>5 DEF Update, Create, Process, TypeOK
<1>6. ASSUME NEW s \in PRs, ListPullRequest(r, s) PROVE proc'[r].pc # "idle"
  <2> DEFINE S == proc[r].unread \ {s}
             c == IF proc[r].unread = {s} THEN "load" ELSE "list"
             rd == IF prov[s].state = "open" THEN ListedReading(prov[s]) ELSE NoReading
  <2>1. c # "idle"
    OBVIOUS
  <2> HIDE DEF S, c, rd
  <2>2. proc'[r] = [proc[r] EXCEPT !.unread = S, !.pc = c, !.reads[s] = rd]
    BY <1>6 DEF ListPullRequest, TypeOK, S, c, rd
  <2> QED
    BY <1>1, <2>1, <2>2 DEF Process
<1> QED
  BY <1>3, <1>4, <1>5, <1>6, <1>7, <1>8 DEF RunStep, UpsertStep

\* QuietRunsAgree is inductive.
LEMMA QuietRuns ==
  ASSUME MergeDateInEvents, ~SameStamp
  PROVE  Spec => []QuietRunsAgree
<1>1. Init => QuietRunsAgree
  BY DEF Init, QuietRunsAgree
<1>2. TypeOK /\ TypeOK' /\ EveryCopyHonest /\ QuietRunsAgree /\ [Next]_vars => QuietRunsAgree'
  <2> SUFFICES ASSUME TypeOK, TypeOK', EveryCopyHonest, QuietRunsAgree, [Next]_vars,
                      NEW r \in quiet'
               PROVE  /\ proc'[r].pc # "idle"
                      /\ \A p \in PRs : QuietPR(proc'[r], p, prov'[p], rows'[p])
    BY DEF QuietRunsAgree
  <2>0. r \in Runs /\ r \in Procs /\ proc[r] \in Process
    BY DEF Procs, TypeOK
  <2>1. CASE ~RunStep(r)
    BY <2>0, <2>1, OthersLeave DEF QuietRunsAgree
  <2>2. CASE Start(r)
    <3>1. r \in quiet \/ \A p \in PRs : ~(rows[p].exists /\ rows[p].seenAt >= now)
      BY <2>2 DEF Start
    <3>2. r \notin quiet
      BY <2>2 DEF Start, QuietRunsAgree
    <3>3. \A p \in PRs : rows[p].exists => rows[p].seenAt < now
      <4> SUFFICES ASSUME NEW p \in PRs, rows[p].exists PROVE rows[p].seenAt < now
        OBVIOUS
      <4>0. rows[p] \in PullRequestRow /\ now \in Nat
        BY DEF TypeOK, NoRow
      <4>1. rows[p].seenAt \in Nat
        BY <4>0 DEF PullRequestRow
      <4> QED
        BY <3>1, <3>2, <4>0, <4>1
    <3>4. CASE PRs = {}
      <4>1. PICK full \in BOOLEAN : proc'[r] =
              [Idle EXCEPT !.pc = "from", !.seenAt = now, !.full = full]
        BY <2>0, <2>2 DEF Start, TypeOK
      <4>2. proc'[r].pc = "from"
        BY <4>1 DEF Idle
      <4> QED
        BY <3>4, <4>2
    <3>5. rows' = rows /\ prov' = prov
      BY <2>2 DEF Start
    <3> QED
      BY <2>0, <2>2, <3>3, <3>4, <3>5, StartIsQuiet
  <2>3. ASSUME RunStep(r), ~Start(r), ~Finish(r), ~FailRun(r)
        PROVE  r \in quiet /\ prov' = prov /\ proc'[r].pc # "idle"
    <3>1. r \in quiet /\ prov' = prov
      BY <2>3 DEF RunStep, UpsertStep, Load, Update, Create, MergedFrom, ListPullRequest,
         EndOpenUpsert, CloseStalePullRequests, ListMergedPullRequests, LoadMerged, Wrote
    <3>2. QED
      BY <2>0, <2>3, <3>1, StepNotIdle DEF QuietRunsAgree
  <2>4. CASE Finish(r) \/ FailRun(r)
    BY <2>4 DEF Finish, FailRun
  <2>5. ASSUME RunStep(r), ~Start(r), ~Finish(r), ~FailRun(r), NEW p \in PRs
        PROVE  QuietPR(proc'[r], p, prov[p], rows'[p])
    <3>0. QuietPR(proc[r], p, prov[p], rows[p])
      BY <2>3, <2>5 DEF QuietRunsAgree
    <3>1. CASE Load(r)
      <4>1. rows' = rows
        BY <3>1 DEF Load
      <4> QED
        BY <2>0, <3>0, <3>1, <4>1, LoadKeepsQuiet
    <3>2. CASE \E s \in PRs : Update(r, s) \/ Create(r, s)
      BY <2>0, <3>0, <3>2, WriteKeepsQuiet
    <3>3. CASE EndOpenUpsert(r)
      BY <2>0, <3>0, <3>3, TouchKeepsQuiet
    <3>4. CASE CloseStalePullRequests(r)
      BY <2>0, <3>0, <3>4, CloseKeepsQuiet
    <3>5. CASE ListMergedPullRequests(r) \/ LoadMerged(r)
      <4>1. rows' = rows
        BY <3>5 DEF ListMergedPullRequests, LoadMerged
      <4> QED
        BY <2>0, <3>0, <3>5, <4>1, MergesKeepQuiet
    <3>6. CASE MergedFrom(r) \/ \E s \in PRs : ListPullRequest(r, s)
      <4>1. rows' = rows
        BY <3>6 DEF MergedFrom, ListPullRequest
      <4> QED
        BY <2>0, <3>0, <3>6, <4>1, ListKeepsQuiet
    <3> QED
      BY <2>5, <3>1, <3>2, <3>3, <3>4, <3>5, <3>6 DEF RunStep, UpsertStep
  <2> QED
    BY <2>1, <2>2, <2>3, <2>4, <2>5
<1> QED
  BY <1>1, <1>2, TypeCorrect, HonestCopies, PTL DEF Spec

\* A run that completes while the provider stands still and nobody else writes
\* leaves the store agreeing with the provider, whatever earlier races, failed
\* runs, lost or late events left there: for any number of pull requests, and
\* but for the merges a listing warned that it left out.
THEOREM QuietRunConverges ==
  ASSUME MergeDateInEvents, ~SameStamp
  PROVE  Spec => ConvergesWhenQuiet
<1>1. TypeOK /\ EveryCopyHonest /\ QuietRunsAgree /\ [Next]_vars =>
        \A r \in Runs : r \in quiet /\ Finish(r) => \A p \in PRs : Agrees(p, proc[r].since, proc[r].cut)
  <2> SUFFICES ASSUME TypeOK, EveryCopyHonest, QuietRunsAgree, NEW r \in Runs, r \in quiet,
                      Finish(r), NEW p \in PRs
               PROVE  Agrees(p, proc[r].since, proc[r].cut)
    OBVIOUS
  <2>1. /\ proc[r].pc = "write" /\ proc[r].merging /\ ~proc[r].todo[p].exists
        /\ rows' = rows /\ prov' = prov
    BY DEF Finish, Written
  <2>2. /\ OnBoard(rows[p]) <=> prov[p].state = "open"
        /\ MergedFeed(proc[r], p, prov[p], rows[p])
    BY <2>1 DEF QuietRunsAgree, QuietPR
  <2>3. /\ HonestTo(prov[p], rows[p]) /\ SoundPR(prov[p])
        /\ rows[p].exists => rows[p].state \in PullRequestStates
    BY RowFields DEF EveryCopyHonest, TypeOK, NoRow
  <2>4. prov[p].state \in {"none"} \cup PullRequestStates
    BY DEF TypeOK, ProviderPR
  <2>5. prov[p].state = "none" => ~rows[p].exists
    BY <2>3 DEF HonestTo
  <2>6. prov[p].state = "closed" /\ rows[p].exists => rows[p].state = "closed"
    BY <2>2, <2>3 DEF HonestTo, SoundPR, OnBoard, PullRequestStates
  <2> QED
    BY <2>1, <2>2, <2>4, <2>5, <2>6
       DEF Agrees, OnBoard, MergedFeed, Due, PullRequestStates
<1> QED
  BY <1>1, TypeCorrect, HonestCopies, QuietRuns, PTL DEF Spec, ConvergesWhenQuiet
============================================================================
