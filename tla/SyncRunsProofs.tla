--------------------------- MODULE SyncRunsProofs ---------------------------
(***************************************************************************)
(* Proofs about SyncRuns, for any number of overlapping runs, any depth,   *)
(* any overlap at least as long as the provider's lag; and about what the  *)
(* runs read of a platform, for any number of rows and any length of page: *)
(* Listings and EventMappers, as MCSyncRuns takes them.                    *)
(***************************************************************************)
EXTENDS MCSyncRuns, FiniteSetTheorems, WellFoundedInduction, TLAPS

USE DEF Null

\* The fields of a sync state or of its absence.
LEMMA SyncRowParts ==
  ASSUME NEW mark \in SyncRow
  PROVE  mark.exists /\ mark.at \in Nat /\ mark.lastFullSyncAt \in Nat
BY DEF SyncRow

\* What a mark leaves is a sync state.
LEMMA MarkedType ==
  ASSUME NEW mark \in SyncRow \cup {NoRow}, NEW t \in Nat, NEW b
  PROVE  Marked(mark, t, b) \in SyncRow /\ MarkedFailed(mark) \in SyncRow
         /\ Marked(mark, t, b).exists /\ Marked(mark, t, b).at = t
<1>1. CASE mark \in SyncRow
  <2>1. mark.exists /\ mark.lastFullSyncAt \in Nat
    BY <1>1, SyncRowParts
  <2> QED
    BY <1>1, <2>1 DEF Marked, MarkedFailed, SyncRow
<1>2. CASE mark = NoRow
  BY <1>2 DEF Marked, MarkedFailed, SyncRow, NoRow
<1> QED
  BY <1>1, <1>2

\* A cursor is a date.
LEMMA HeldType ==
  ASSUME TypeOK, NEW x \in Resources
  PROVE  Held(x) \in Nat
BY SyncRowParts DEF TypeOK, Held, NoRow

\* The bound a listing starts from is either the depth's or the cursor's,
\* backed off by the overlap.
LEMMA MergedSinceParts ==
  ASSUME NEW c \in Nat, NEW t \in Nat, NEW b
  PROVE  /\ MergedSince(c, t, Depth, b) \in Nat
         /\ \/ MergedSince(c, t, Depth, b) = Before(t, Depth)
            \/ MergedSince(c, t, Depth, b) = Before(c, DELTA_OVERLAP)
BY CadenceAssumption, SyncAssumption DEF MergedSince, Before

\* Every step of a run, one way to go on: what Advance and Forget leave.
LEMMA AdvanceType ==
  ASSUME TypeOK, NEW r \in Runs, Advance(r) \/ Forget(r)
  PROVE  /\ pc' \in [Runs -> Steps] /\ res' \in [Runs -> Resources]
         /\ at' \in [Runs -> Nat] /\ full' \in [Runs -> BOOLEAN]
         /\ since' \in [Runs -> Nat] /\ repos' \in [Runs -> SUBSET Repos]
         /\ left' \in [Runs -> SUBSET Resources]
<1>1. CASE Forget(r)
  BY <1>1 DEF Forget, TypeOK, Steps, Resources
<1>2. CASE Advance(r)
  <2>1. res[r] \in Resources
    BY DEF TypeOK
  <2>2. CASE res[r] \in {"repos", "pulls", "pipelines"}
    <3>1. UNCHANGED <<at, full, repos, left>> /\ since' \in {since, [since EXCEPT ![r] = Null]}
      BY <1>2, <2>2 DEF Advance
    <3>2. /\ \E s \in Steps : pc' = [pc EXCEPT ![r] = s]
          /\ \E x \in Resources : res' = [res EXCEPT ![r] = x]
      BY <1>2, <2>2 DEF Advance, Steps, Resources
    <3> QED
      BY <3>1, <3>2 DEF TypeOK
  <2>3. CASE res[r] = "deployments" /\ full[r]
    <3>1. pc' = [pc EXCEPT ![r] = "prune"] /\ UNCHANGED <<res, at, full, since, repos, left>>
      BY <1>2, <2>3 DEF Advance
    <3> QED
      BY <3>1 DEF TypeOK, Steps
  <2>4. CASE res[r] = "deployments" /\ ~full[r]
    BY <1>1, <1>2, <2>4 DEF Advance
  <2> QED
    BY <2>1, <2>2, <2>3, <2>4 DEF Resources
<1> QED
  BY <1>1, <1>2

\* Type correctness of the sync state and of the runs.
THEOREM SyncTypeCorrect == Spec => []TypeOK
<1>1. Init => TypeOK
  BY DEF Init, TypeOK, Steps, Resources
<1>2. TypeOK /\ [Next]_vars => TypeOK'
  <2> SUFFICES ASSUME TypeOK, [Next]_vars PROVE TypeOK'
    OBVIOUS
  <2> USE DEF env, store, observed, run
  <2>1. CASE Tick \/ Rescope \/ MergeHappens \/ OtherEvent
    <3>1. CASE Tick
      BY <3>1 DEF Tick, TypeOK
    <3>2. CASE Rescope
      BY <3>2 DEF Rescope, TypeOK
    <3>3. CASE MergeHappens
      <4>1. PICK repo \in Repos :
              /\ merges' = merges \cup {[at |-> now, repo |-> repo]}
              /\ known' \in {known, known \cup {[at |-> now, repo |-> repo]}}
              /\ covered' \in {covered, covered \cup {repo}}
              /\ lastEvent' \in {lastEvent, now}
        BY <3>3 DEF MergeHappens
      <4>2. /\ merges' \subseteq MergeOf /\ merges \subseteq merges' /\ known' \subseteq merges'
            /\ lastEvent' \in Nat /\ covered' \subseteq Repos
        BY <4>1 DEF TypeOK, MergeOf
      <4>3. UNCHANGED <<now, scope, steady, sync, observed, run, fails>>
        BY <3>3 DEF MergeHappens
      <4> QED
        BY <4>2, <4>3 DEF TypeOK
    <3>4. CASE OtherEvent
      BY <3>4 DEF OtherEvent, TypeOK
    <3> QED
      BY <2>1, <3>1, <3>2, <3>3, <3>4
  <2>2. ASSUME NEW r \in Runs, Begin(r) \/ DueForFullSync(r) \/ Decide(r) PROVE TypeOK'
    <3>1. CASE Begin(r)
      BY <3>1 DEF Begin, TypeOK, Steps
    <3>2. CASE DueForFullSync(r)
      <4> DEFINE due == IsDueForFullSync(
              {sync[x].lastFullSyncAt : x \in {y \in Resources : sync[y].exists}}, at[r])
      <4>1. due \in BOOLEAN
        BY DEF IsDueForFullSync
      <4> HIDE DEF due
      <4>2. full' = [full EXCEPT ![r] = full[r] \/ due]
        BY <3>2 DEF DueForFullSync, due
      <4>3. full' \in [Runs -> BOOLEAN]
        BY <4>1, <4>2 DEF TypeOK
      <4> QED
        BY <3>2, <4>3 DEF DueForFullSync, TypeOK, Steps
    <3>3. CASE Decide(r)
      BY <3>3 DEF Decide, TypeOK, Steps
    <3> QED
      BY <2>2, <3>1, <3>2, <3>3
  <2>3. ASSUME NEW r \in Runs, NEW x \in Resources, MarkSkipped(r, x) PROVE TypeOK'
    <3>1. sync' \in [Resources -> SyncRow \cup {NoRow}]
      BY <2>3, MarkedType DEF MarkSkipped, TypeOK
    <3>2. CASE left[r] = {x}
      <4>1. Forget(r) /\ UNCHANGED <<env, known, covered, observed, fails>>
        BY <2>3, <3>2 DEF MarkSkipped
      <4> QED
        BY <3>1, <4>1, AdvanceType DEF TypeOK
    <3>3. CASE left[r] # {x}
      <4>1. left' \in [Runs -> SUBSET Resources]
        BY <2>3, <3>3 DEF MarkSkipped, TypeOK
      <4>2. UNCHANGED <<env, known, covered, observed, fails, pc, res, at, full, since, repos>>
        BY <2>3, <3>3 DEF MarkSkipped
      <4> QED
        BY <3>1, <4>1, <4>2 DEF TypeOK
    <3> QED
      BY <3>2, <3>3
  <2>4. ASSUME NEW r \in Runs, ListRepos(r) PROVE TypeOK'
    BY <2>4 DEF ListRepos, TypeOK, Steps
  <2>5. ASSUME NEW r \in Runs, MergedFrom(r) PROVE TypeOK'
    <3>1. MergedSince(Held("pulls"), at[r], Depth, full[r]) \in Nat
      BY HeldType, MergedSinceParts DEF TypeOK, Resources
    <3> QED
      BY <2>5, <3>1 DEF MergedFrom, TypeOK, Steps
  <2>6. ASSUME NEW r \in Runs, covered' = covered \cup repos[r]
        PROVE  covered' \subseteq Repos
    BY <2>6 DEF TypeOK
  <2>7. ASSUME NEW r \in Runs, ListPulls(r) PROVE TypeOK'
    <3>1. known' \subseteq merges /\ cut' \subseteq merges /\ lost' \in [Runs -> SUBSET merges]
      BY <2>7 DEF ListPulls, Asked, TypeOK
    <3> QED
      BY <2>6, <2>7, <3>1 DEF ListPulls, TypeOK, Steps
  <2>8. ASSUME NEW r \in Runs, ListRuns(r) PROVE TypeOK'
    BY <2>6, <2>8 DEF ListRuns, TypeOK, Steps
  <2>9. ASSUME NEW r \in Runs, Mark(r) PROVE TypeOK'
    <3>1. sync' \in [Resources -> SyncRow \cup {NoRow}]
      BY <2>9, MarkedType DEF Mark, TypeOK
    <3> QED
      BY <2>9, <3>1, AdvanceType DEF Mark, TypeOK
  <2>10. ASSUME NEW r \in Runs, Fail(r) PROVE TypeOK'
    <3>1. sync' \in [Resources -> SyncRow \cup {NoRow}]
      BY <2>10, MarkedType DEF Fail, TypeOK
    <3> QED
      BY <2>10, <3>1, AdvanceType DEF Fail, TypeOK
  <2>11. ASSUME NEW r \in Runs, Prune(r) \/ Crash(r) PROVE TypeOK'
    <3>1. Forget(r) /\ UNCHANGED <<env, cut, sync>>
      BY <2>11 DEF Prune, Crash
    <3>2. covered' \subseteq Repos /\ fails' \in Nat /\ known' \subseteq known
      BY <2>11 DEF Prune, PrunedTo, Crash, TypeOK
    <3>3. lost' \in [Runs -> SUBSET merges]
      BY <2>11 DEF Prune, Crash, TypeOK
    <3> QED
      BY <3>1, <3>2, <3>3, AdvanceType DEF TypeOK
  <2>12. CASE UNCHANGED vars
    BY <2>12 DEF vars, TypeOK
  <2> QED
    BY <2>1, <2>2, <2>3, <2>4, <2>5, <2>7, <2>8, <2>9, <2>10, <2>11, <2>12
       DEF Next, RunStep
<1> QED
  BY <1>1, <1>2, PTL DEF Spec

----------------------------------------------------------------------------
(* No merge falls between two windows.                                     *)

\* What is accounted for of the repositories covered all along stays so.
Remembers ==
  /\ steady' \subseteq steady
  /\ \A m \in merges : m.repo \in steady' /\ Accounted(m) => m \in known' \cup cut'

\* A run that has its list of repositories lists what is covered all along.
LEMMA SteadyIsListed == Spec => []ListsTheSteady
<1>1. Init => ListsTheSteady
  BY DEF Init, ListsTheSteady
<1>2. TypeOK /\ ListsTheSteady /\ [Next]_vars => ListsTheSteady'
  <2> SUFFICES ASSUME TypeOK, ListsTheSteady, [Next]_vars PROVE ListsTheSteady'
    OBVIOUS
  <2> USE DEF env, store, observed, run
  <2>1. CASE Tick \/ Rescope \/ MergeHappens \/ OtherEvent \/ UNCHANGED vars
    BY <2>1 DEF Tick, Rescope, MergeHappens, OtherEvent, vars, ListsTheSteady
  <2>2. ASSUME NEW r \in Runs, Begin(r) \/ DueForFullSync(r) \/ Decide(r) \/ MergedFrom(r)
        PROVE  ListsTheSteady'
    <3>1. UNCHANGED <<steady, res, repos>> /\ pc'[r] \notin {"mark", "prune"}
      BY <2>2 DEF Begin, DueForFullSync, Decide, MergedFrom, TypeOK
    <3>2. \A x \in Runs : x # r => pc'[x] = pc[x]
      BY <2>2 DEF Begin, DueForFullSync, Decide, MergedFrom, TypeOK
    <3> QED
      BY <3>1, <3>2 DEF ListsTheSteady
  <2>3. ASSUME NEW r \in Runs, ListRepos(r) PROVE ListsTheSteady'
    BY <2>3 DEF ListRepos, ListsTheSteady, TypeOK
  <2>4. ASSUME NEW r \in Runs, ListPulls(r) \/ ListRuns(r) PROVE ListsTheSteady'
    <3>1. UNCHANGED <<steady, res, repos>> /\ res[r] # "repos"
      BY <2>4 DEF ListPulls, ListRuns
    <3>2. \A x \in Runs : x # r => pc'[x] = pc[x]
      BY <2>4 DEF ListPulls, ListRuns, TypeOK
    <3> QED
      BY <3>1, <3>2 DEF ListsTheSteady
  <2>5. ASSUME NEW r \in Runs, Forget(r), UNCHANGED steady PROVE ListsTheSteady'
    BY <2>5 DEF Forget, ListsTheSteady, TypeOK
  <2>6. ASSUME NEW r \in Runs, Advance(r), UNCHANGED steady, pc[r] = "mark" \/ res[r] # "repos"
        PROVE  ListsTheSteady'
    <3>1. steady \subseteq repos[r] /\ res[r] \in Resources
      BY <2>6 DEF ListsTheSteady, TypeOK
    <3>2. CASE ~Forget(r)
      <4>1. UNCHANGED repos /\ \A x \in Runs : x # r => pc'[x] = pc[x] /\ res'[x] = res[x]
        BY <2>6, <3>1, <3>2 DEF Advance, Resources, TypeOK
      <4> QED
        BY <2>6, <3>1, <4>1 DEF ListsTheSteady
    <3> QED
      BY <2>5, <2>6, <3>2
  <2>7. ASSUME NEW r \in Runs, Mark(r) \/ Fail(r) \/ Prune(r) \/ Crash(r)
        PROVE  ListsTheSteady'
    BY <2>5, <2>6, <2>7 DEF Mark, Fail, Prune, Crash
  <2>8. ASSUME NEW r \in Runs, NEW x \in Resources, MarkSkipped(r, x) PROVE ListsTheSteady'
    <3>1. UNCHANGED steady /\ (Forget(r) \/ UNCHANGED <<pc, res, repos>>)
      BY <2>8 DEF MarkSkipped
    <3> QED
      BY <2>5, <3>1 DEF ListsTheSteady
  <2> QED
    BY <2>1, <2>2, <2>3, <2>4, <2>7, <2>8 DEF Next, RunStep
<1> QED
  BY <1>1, <1>2, SyncTypeCorrect, PTL DEF Spec

\* A listing of the merges forgets none, and what it asked for and was old
\* enough to be shown is held, or it warned.
LEMMA PullsAreListed ==
  ASSUME TypeOK, NEW r \in Runs, ListPulls(r)
  PROVE  /\ known \subseteq known' /\ known \cup cut \subseteq known' \cup cut'
         /\ \A x \in Runs : x # r => lost'[x] = lost[x]
         /\ \A m \in Asked(r) : m.at + Lag <= now =>
              /\ m \in known' \cup cut'
              /\ full[r] => m \in known' \cup lost'[r]
<1>1. PICK young \in SUBSET {m \in Asked(r) : m.at + Lag > now}, beyond \in SUBSET Asked(r) :
        /\ known' = known \cup (Asked(r) \ (young \cup beyond))
        /\ cut' = (cut \cup beyond) \ known'
        /\ lost' = [lost EXCEPT ![r] = IF full[r] THEN beyond ELSE {}]
  BY DEF ListPulls
<1>2. \A m \in Asked(r) : m.at \in Nat
  BY DEF Asked, TypeOK, MergeOf
<1>3. \A m \in Asked(r) : m.at + Lag <= now => m \notin young
  BY <1>1, <1>2, SyncAssumption DEF TypeOK
<1>4. full[r] => lost'[r] = beyond
  BY <1>1 DEF TypeOK
<1> QED
  BY <1>1, <1>3, <1>4 DEF TypeOK

\* A step that moves neither the clock nor the merges nor the cursor, loses
\* sight of nothing, and leaves each run where it was or outside its listing of
\* pull requests, keeps the invariant.
LEMMA ElsewhereIsSafe ==
  ASSUME TypeOK, CursorInv, UNCHANGED <<now, merges, lastEvent>>,
         Held("pulls")' = Held("pulls"), Remembers,
         \A r \in Runs :
           \/ /\ pc'[r] = pc[r] /\ res'[r] = res[r]
              /\ at'[r] = at[r] /\ since'[r] = since[r]
           \/ /\ pc'[r] # "skipping"
              /\ pc'[r] \in {"list", "mark"} => res'[r] # "pulls"
              /\ pc'[r] \in {"idle", "due", "decide"} => res'[r] = "repos"
              /\ at'[r] <= now /\ since'[r] <= now
  PROVE  CursorInv'
<1>1. Clocked'
  BY DEF CursorInv, Clocked
<1>2. Phased' /\ NoEvents'
  BY DEF CursorInv, Phased, NoEvents
<1>3. NoGap'
  BY DEF CursorInv, NoGap, Due, Remembers, Accounted
<1>4. NoGapInFlight'
  BY DEF CursorInv, NoGapInFlight, Due, Remembers, Accounted
<1> QED
  BY <1>1, <1>2, <1>3, <1>4 DEF CursorInv

\* What a run keeps of itself when it goes on, or is over.
LEMMA AdvanceLeaves ==
  ASSUME TypeOK, Clocked, NEW r \in Runs, Advance(r) \/ Forget(r),
         pc[r] \in {"list", "mark", "prune", "from", "due", "decide"}
  PROVE  /\ \A x \in Runs : x # r =>
              /\ pc'[x] = pc[x] /\ res'[x] = res[x]
              /\ at'[x] = at[x] /\ since'[x] = since[x]
         /\ pc'[r] # "skipping"
         /\ pc'[r] \in {"list", "mark"} => res'[r] # "pulls"
         /\ pc'[r] \in {"idle", "due", "decide"} => res'[r] = "repos"
         /\ at'[r] <= now /\ since'[r] <= now
<1>0. now \in Nat /\ at[r] <= now /\ since[r] <= now
  BY DEF TypeOK, Clocked
<1>1. CASE Forget(r)
  BY <1>0, <1>1 DEF Forget, TypeOK
<1>2. CASE Advance(r)
  <2>1. res[r] \in Resources
    BY DEF TypeOK
  <2>2. CASE res[r] = "repos"
    BY <1>0, <1>2, <2>2 DEF Advance, TypeOK
  <2>3. CASE res[r] = "pulls"
    BY <1>0, <1>2, <2>3 DEF Advance, TypeOK
  <2>4. CASE res[r] = "pipelines"
    BY <1>0, <1>2, <2>4 DEF Advance, TypeOK
  <2>5. CASE res[r] = "deployments" /\ full[r]
    BY <1>0, <1>2, <2>5 DEF Advance, TypeOK
  <2>6. CASE res[r] = "deployments" /\ ~full[r]
    BY <1>1, <1>2, <2>6 DEF Advance
  <2> QED
    BY <2>1, <2>2, <2>3, <2>4, <2>5, <2>6 DEF Resources
<1> QED
  BY <1>1, <1>2

\* The clock does not go back, and an event that came has come.
LEMMA EventsStay ==
  ASSUME TypeOK, now # 0, [Next]_vars
  PROVE  now' # 0 /\ (lastEvent' = Null => lastEvent = Null)
<1> USE DEF env, store, observed, run
<1>1. CASE Tick \/ Rescope \/ MergeHappens \/ OtherEvent \/ UNCHANGED vars
  <2>1. now' \in {now, now + 1} /\ lastEvent' \in {lastEvent, now}
    <3>1. CASE MergeHappens
      <4>1. now' = now
        BY <3>1 DEF MergeHappens
      <4>2. lastEvent' \in {lastEvent, now}
        BY <3>1 DEF MergeHappens
      <4> QED
        BY <4>1, <4>2
    <3> QED
      BY <1>1, <3>1 DEF Tick, Rescope, OtherEvent, vars
  <2> QED
    BY <2>1 DEF TypeOK
<1>2. ASSUME NEW r \in Runs, Begin(r) \/ RunStep(r) \/ Fail(r) \/ Crash(r)
      PROVE  UNCHANGED <<now, lastEvent>>
  BY <1>2 DEF Begin, RunStep, DueForFullSync, Decide, MarkSkipped, ListRepos, MergedFrom,
     ListPulls, ListRuns, Mark, Prune, Fail, Crash
<1> QED
  BY <1>1, <1>2 DEF Next

\* Until an event comes, the cursor and every run in flight promise only what
\* the store holds: CursorInv is inductive as long as none has.
THEOREM CursorIsSound == Spec => [](lastEvent = Null => CursorInv)
<1> DEFINE Inv == now # 0 /\ (lastEvent = Null => CursorInv)
<1>1. Init => CursorInv
  BY DEF Init, CursorInv, Clocked, Phased, NoEvents, NoGap, NoGapInFlight, Held, NoRow,
         Resources
<1>2. TypeOK /\ ListsTheSteady /\ CursorInv /\ now # 0 /\ lastEvent' = Null /\ [Next]_vars
        => CursorInv'
  <2> SUFFICES ASSUME TypeOK, ListsTheSteady, CursorInv, now # 0, lastEvent' = Null, [Next]_vars
               PROVE  CursorInv'
    OBVIOUS
  <2> USE DEF env, store, observed, run
  <2>0. /\ now \in Nat /\ (\A m \in merges : m.at \in Nat) /\ Held("pulls") \in Nat
        /\ \A r \in Runs : at[r] \in Nat /\ since[r] \in Nat /\ at[r] <= now /\ since[r] <= now
        /\ Held("pulls") <= now /\ "pulls" \in Resources
    BY HeldType DEF TypeOK, CursorInv, Clocked, Resources, MergeOf
  <2>1. CASE Tick
    <3>1. now' = now + 1 /\ UNCHANGED <<steady, merges, known, cut, lastEvent, sync, pc, res, at, since>>
      BY <2>1 DEF Tick
    <3>2. \A m \in merges : m.at >= Before(now', Depth) => m.at >= Before(now, Depth)
      BY <2>0, <3>1, SyncAssumption DEF Before
    <3>3. Held("pulls")' = Held("pulls")
      BY <3>1 DEF Held
    <3>4. Clocked'
      BY <2>0, <3>1, <3>3 DEF Clocked
    <3>5. NoGap' /\ NoGapInFlight'
      BY <3>1, <3>2, <3>3 DEF CursorInv, NoGap, NoGapInFlight, Due, Accounted
    <3> QED
      BY <3>1, <3>4, <3>5 DEF CursorInv, Phased, NoEvents
  <2>2. CASE MergeHappens
    <3>1. PICK repo \in Repos :
            /\ merges' = merges \cup {[at |-> now, repo |-> repo]}
            /\ known \subseteq known'
      BY <2>2 DEF MergeHappens
    <3>2. UNCHANGED <<now, steady, cut, lastEvent, sync, pc, res, at, since>>
      BY <2>0, <2>2 DEF MergeHappens
    <3>3. Held("pulls")' = Held("pulls")
      BY <3>2 DEF Held
    <3>4. ~(now + Lag <= Held("pulls")) /\ \A r \in Runs : ~(now < since[r]) /\ ~(now + Lag <= at[r])
      BY <2>0, SyncAssumption
    <3>5. \A m \in merges' : m \in merges \/ m.at = now
      BY <3>1
    <3>6. NoGap'
      BY <3>1, <3>2, <3>3, <3>4, <3>5 DEF CursorInv, NoGap, Due, Accounted
    <3>7. NoGapInFlight'
      BY <3>1, <3>2, <3>4, <3>5 DEF CursorInv, NoGapInFlight, Due, Accounted
    <3> QED
      BY <3>2, <3>3, <3>6, <3>7 DEF CursorInv, Clocked, Phased, NoEvents
  <2>3. CASE Rescope \/ OtherEvent
    <3>1. UNCHANGED <<now, merges, lastEvent, sync, known, cut, pc, res, at, since>>
      BY <2>0, <2>3 DEF Rescope, OtherEvent
    <3>2. steady' \subseteq steady
      BY <2>3 DEF Rescope, OtherEvent
    <3> QED
      BY <3>1, <3>2, ElsewhereIsSafe DEF Held, Remembers, Accounted
  <2>4. ASSUME NEW r \in Runs, UNCHANGED <<now, merges, lastEvent>>,
               Held("pulls")' = Held("pulls"), Remembers,
               Advance(r) \/ Forget(r),
               pc[r] \in {"list", "mark", "prune", "from", "due", "decide"}
        PROVE  CursorInv'
    BY <2>4, AdvanceLeaves, ElsewhereIsSafe DEF CursorInv
  <2>5. ASSUME NEW r \in Runs, Begin(r) \/ DueForFullSync(r) \/ Decide(r) PROVE CursorInv'
    <3>1. ~SkipsDelta(lastEvent, at[r], full[r])
      BY DEF SkipsDelta, CursorInv, NoEvents
    <3>2. UNCHANGED <<now, steady, merges, lastEvent, sync, known, cut, res, since>>
      BY <2>5 DEF Begin, DueForFullSync, Decide
    <3>3. res[r] = "repos"
      BY <2>5 DEF Begin, DueForFullSync, Decide, CursorInv, Phased
    <3>4. \A x \in Runs : x # r => pc'[x] = pc[x] /\ at'[x] = at[x]
      BY <2>5 DEF Begin, DueForFullSync, Decide, TypeOK
    <3>5. pc'[r] # "skipping" /\ at'[r] <= now
      BY <2>0, <2>5, <3>1 DEF Begin, DueForFullSync, Decide, TypeOK
    <3> QED
      BY <2>0, <3>2, <3>3, <3>4, <3>5, ElsewhereIsSafe DEF Held, Remembers, Accounted
  <2>6. ASSUME NEW r \in Runs, NEW x \in Resources, MarkSkipped(r, x) PROVE CursorInv'
    BY <2>6 DEF MarkSkipped, CursorInv, NoEvents
  <2>7. ASSUME NEW r \in Runs, ListRepos(r) \/ ListRuns(r) PROVE CursorInv'
    <3>1. UNCHANGED <<now, steady, merges, lastEvent, sync, known, cut, res, at, since>>
      BY <2>7 DEF ListRepos, ListRuns
    <3>2. pc' = [pc EXCEPT ![r] = "mark"] /\ res[r] # "pulls"
      BY <2>7 DEF ListRepos, ListRuns
    <3> QED
      BY <2>0, <3>1, <3>2, ElsewhereIsSafe DEF Held, TypeOK, Remembers, Accounted
  <2>8. ASSUME NEW r \in Runs, MergedFrom(r) PROVE CursorInv'
    <3> DEFINE s == MergedSince(Held("pulls"), at[r], Depth, full[r])
    <3>1. /\ s \in Nat
          /\ s = Before(at[r], Depth) \/ s = Before(Held("pulls"), DELTA_OVERLAP)
      BY <2>0, MergedSinceParts
    <3> HIDE DEF s
    <3>2. /\ pc' = [pc EXCEPT ![r] = "list"] /\ since' = [since EXCEPT ![r] = s]
          /\ UNCHANGED <<now, steady, merges, lastEvent, sync, known, cut, res, at>>
      BY <2>8 DEF MergedFrom, s
    <3>3. s <= now
      BY <2>0, <3>1, CadenceAssumption, SyncAssumption DEF Before
    <3>4. ASSUME NEW m \in merges, m.repo \in steady, m.at >= Before(now, Depth), m.at < s
          PROVE  Accounted(m)
      <4>1. s # Before(at[r], Depth)
        BY <2>0, <3>1, <3>4, SyncAssumption DEF Before
      <4>2. m.at + Lag <= Held("pulls")
        BY <2>0, <3>1, <3>4, <4>1, SyncAssumption, CadenceAssumption DEF Before
      <4> QED
        BY <3>4, <4>2 DEF CursorInv, NoGap, Due
    <3>5. Held("pulls")' = Held("pulls")
      BY <3>2 DEF Held
    <3>6. Clocked'
      BY <2>0, <3>2, <3>3, <3>5 DEF Clocked, TypeOK
    <3>7. Phased' /\ NoEvents'
      BY <3>2 DEF CursorInv, Phased, NoEvents, TypeOK
    <3>8. NoGap'
      BY <3>2, <3>5 DEF CursorInv, NoGap, Due, Accounted
    <3>9. NoGapInFlight'
      BY <3>2, <3>4 DEF CursorInv, NoGapInFlight, Due, Accounted, TypeOK
    <3> QED
      BY <3>6, <3>7, <3>8, <3>9 DEF CursorInv
  <2>9. ASSUME NEW r \in Runs, ListPulls(r) PROVE CursorInv'
    <3>1. /\ pc' = [pc EXCEPT ![r] = "mark"] /\ pc[r] = "list" /\ res[r] = "pulls"
          /\ UNCHANGED <<now, steady, merges, lastEvent, sync, res, at, since>>
      BY <2>9 DEF ListPulls
    <3>2. /\ \A m \in merges : Accounted(m) => m \in known' \cup cut'
          /\ \A m \in Asked(r) : m.at + Lag <= now => m \in known' \cup cut'
      BY <2>9, PullsAreListed DEF Accounted
    <3>3. ASSUME NEW m \in merges, m.repo \in steady, Due(m, at[r]) PROVE m \in known' \cup cut'
      <4>1. m.at + Lag <= now
        BY <2>0, <3>3, SyncAssumption DEF Due
      <4>2. CASE m.at < since[r]
        BY <3>1, <3>2, <3>3, <4>2 DEF CursorInv, NoGapInFlight, Due
      <4>3. CASE m.at >= since[r]
        <5>1. m \in Asked(r)
          BY <3>1, <3>3, <4>3 DEF ListsTheSteady, Asked
        <5> QED
          BY <3>2, <4>1, <5>1
      <4> QED
        BY <2>0, <4>2, <4>3
    <3>4. Held("pulls")' = Held("pulls")
      BY <3>1 DEF Held
    <3>5. Clocked'
      BY <3>1, <3>4 DEF CursorInv, Clocked
    <3>6. Phased' /\ NoEvents'
      BY <3>1 DEF CursorInv, Phased, NoEvents, TypeOK
    <3>7. NoGap'
      BY <3>1, <3>2, <3>4 DEF CursorInv, NoGap, Due, Accounted
    <3>8. NoGapInFlight'
      BY <3>1, <3>2, <3>3 DEF CursorInv, NoGapInFlight, Due, Accounted, TypeOK
    <3> QED
      BY <3>5, <3>6, <3>7, <3>8 DEF CursorInv
  <2>10. ASSUME NEW r \in Runs, Mark(r) PROVE CursorInv'
    <3>1. /\ UNCHANGED <<now, steady, merges, lastEvent, known, cut>> /\ Advance(r) /\ pc[r] = "mark"
          /\ sync' = [sync EXCEPT ![res[r]] = Marked(sync[res[r]], at[r], full[r])]
          /\ Remembers
      BY <2>10 DEF Mark, Remembers, Accounted
    <3>2. CASE res[r] # "pulls"
      <4>1. Held("pulls")' = Held("pulls")
        BY <3>1, <3>2 DEF Held, TypeOK
      <4> QED
        BY <2>4, <3>1, <4>1
    <3>3. CASE res[r] = "pulls"
      <4>1. Held("pulls")' = at[r]
        <5>1. sync'["pulls"] = Marked(sync["pulls"], at[r], full[r])
          BY <2>0, <3>1, <3>3 DEF TypeOK
        <5>2. sync["pulls"] \in SyncRow \cup {NoRow}
          BY <2>0 DEF TypeOK
        <5>3. Held("pulls")' = Marked(sync["pulls"], at[r], full[r]).at
          BY <2>0, <5>1, <5>2, MarkedType DEF Held
        <5>4. full[r] \in BOOLEAN /\ at[r] \in Nat
          BY <2>0 DEF TypeOK
        <5> QED
          BY <5>2, <5>3, <5>4, MarkedType
      <4>2. \A m \in merges : m.repo \in steady /\ Due(m, at[r]) => Accounted(m)
        BY <3>1, <3>3 DEF CursorInv, NoGapInFlight
      <4>3. NoGap'
        BY <3>1, <4>1, <4>2 DEF NoGap, Due, Accounted
      <4>4. /\ \A x \in Runs : x # r =>
                 /\ pc'[x] = pc[x] /\ res'[x] = res[x]
                 /\ at'[x] = at[x] /\ since'[x] = since[x]
            /\ pc'[r] # "skipping"
            /\ pc'[r] \in {"list", "mark"} => res'[r] # "pulls"
            /\ pc'[r] \in {"idle", "due", "decide"} => res'[r] = "repos"
            /\ at'[r] <= now /\ since'[r] <= now
        BY <3>1, AdvanceLeaves DEF CursorInv
      <4>5. Clocked'
        BY <2>0, <3>1, <4>1, <4>4 DEF Clocked
      <4>6. Phased' /\ NoEvents'
        BY <3>1, <4>4 DEF CursorInv, Phased, NoEvents
      <4>7. NoGapInFlight'
        BY <3>1, <4>4 DEF CursorInv, NoGapInFlight, Due, Accounted
      <4> QED
        BY <4>3, <4>5, <4>6, <4>7 DEF CursorInv
    <3> QED
      BY <3>2, <3>3
  <2>11. ASSUME NEW r \in Runs, Fail(r) PROVE CursorInv'
    <3>1. /\ UNCHANGED <<now, merges, lastEvent>> /\ pc[r] \in {"list", "mark"}
          /\ Advance(r) \/ Forget(r)
          /\ sync' = [sync EXCEPT ![res[r]] = MarkedFailed(sync[res[r]])]
          /\ Remembers
      BY <2>11 DEF Fail, Remembers, Accounted
    <3>2. Held("pulls")' = Held("pulls")
      BY <2>0, <3>1 DEF Held, MarkedFailed, TypeOK
    <3> QED
      BY <2>4, <3>1, <3>2
  <2>12. ASSUME NEW r \in Runs, Prune(r) \/ Crash(r) PROVE CursorInv'
    <3>1. /\ UNCHANGED <<now, merges, lastEvent, sync>> /\ Forget(r)
          /\ pc[r] \in {"list", "mark", "prune", "from", "due", "decide"}
      BY <2>12 DEF Prune, Crash, CursorInv, NoEvents, TypeOK, Steps
    <3>2. ASSUME Crash(r) PROVE Remembers
      <4>1. UNCHANGED <<steady, known, cut>>
        BY <3>2 DEF Crash
      <4> QED
        BY <4>1 DEF Remembers, Accounted
    <3>3. ASSUME Prune(r) PROVE Remembers
      <4>1. steady \subseteq PrunedTo(repos[r])
        BY <3>3 DEF Prune, ListsTheSteady, PrunedTo
      <4>2. UNCHANGED <<steady, cut>> /\ known' = {m \in known : m.repo \in PrunedTo(repos[r])}
        BY <3>3 DEF Prune
      <4> QED
        BY <4>1, <4>2 DEF Remembers, Accounted
    <3> QED
      BY <2>4, <2>12, <3>1, <3>2, <3>3 DEF Held
  <2>13. CASE UNCHANGED vars
    BY <2>13, ElsewhereIsSafe DEF vars, Held, Remembers, Accounted
  <2> QED
    BY <2>1, <2>2, <2>3, <2>5, <2>6, <2>7, <2>8, <2>9, <2>10, <2>11, <2>12, <2>13
       DEF Next, RunStep
<1>3. TypeOK /\ now # 0 /\ [Next]_vars => now' # 0 /\ (lastEvent' = Null => lastEvent = Null)
  BY EventsStay
<1>4. Init => Inv
  BY <1>1 DEF Init
<1>5. TypeOK /\ ListsTheSteady /\ Inv /\ [Next]_vars => Inv'
  BY <1>2, <1>3
<1>6. Inv => (lastEvent = Null => CursorInv)
  OBVIOUS
<1> HIDE DEF Inv
<1> QED
  BY <1>4, <1>5, <1>6, SyncTypeCorrect, SteadyIsListed, PTL DEF Spec

\* As long as no event has come, every merge within the depth and older than the
\* cursor, of a repository covered all along, is in the store or a listing warned
\* that it stopped short of it, however runs overlap, fail, die and prune.
THEOREM NoMergeFallsBetween == Spec => []NoGapUnheard
<1>1. (lastEvent = Null => CursorInv) => NoGapUnheard
  BY DEF CursorInv, NoGapUnheard
<1> QED
  BY <1>1, CursorIsSound, PTL

----------------------------------------------------------------------------
(* A reconciliation, on any install.                                       *)

\* A reconciling run lists from the depth, whatever the cursor says, and holds
\* what it has to promise once it has listed.
ReconcilesFromDepth ==
  /\ Phased
  /\ \A r \in Runs : at[r] <= now
  /\ \A r \in Runs : full[r] /\ res[r] = "pulls" =>
       /\ pc[r] = "list" => since[r] = Before(at[r], Depth)
       /\ pc[r] = "mark" => \A m \in merges :
                           m.repo \in repos[r] /\ Due(m, at[r]) => m \in known \cup lost[r]

\* Whatever r does, the reconciliations beside it answer for what they did.
StillAnswers(r) ==
  \A x \in Runs : x # r /\ HasReconciled(x) => known \cup lost[x] \subseteq known' \cup lost'[x]

\* What a run keeps of its date and of its kind when it goes on or is over.
LEMMA AdvanceKeepsKind ==
  ASSUME TypeOK, NEW r \in Runs, Advance(r) \/ Forget(r)
  PROVE  /\ \A x \in Runs : x # r =>
              /\ pc'[x] = pc[x] /\ res'[x] = res[x] /\ at'[x] = at[x]
              /\ since'[x] = since[x] /\ full'[x] = full[x] /\ repos'[x] = repos[x]
         /\ pc'[r] \in {"list", "mark"} => res'[r] # "pulls"
         /\ pc'[r] \in {"idle", "due", "decide"} => res'[r] = "repos"
         /\ at'[r] \in {at[r], Null}
<1>1. CASE Forget(r)
  BY <1>1 DEF Forget, TypeOK
<1>2. CASE Advance(r)
  <2>1. res[r] \in Resources
    BY DEF TypeOK
  <2>2. CASE res[r] = "repos"
    BY <1>2, <2>2 DEF Advance, TypeOK
  <2>3. CASE res[r] = "pulls"
    BY <1>2, <2>3 DEF Advance, TypeOK
  <2>4. CASE res[r] = "pipelines"
    BY <1>2, <2>4 DEF Advance, TypeOK
  <2>5. CASE res[r] = "deployments" /\ full[r]
    BY <1>2, <2>5 DEF Advance, TypeOK
  <2>6. CASE res[r] = "deployments" /\ ~full[r]
    BY <1>1, <1>2, <2>6 DEF Advance
  <2> QED
    BY <2>1, <2>2, <2>3, <2>4, <2>5, <2>6 DEF Resources
<1> QED
  BY <1>1, <1>2

\* ReconcilesFromDepth is inductive, whether or not events reach the install.
LEMMA ReconciliationsHold == Spec => []ReconcilesFromDepth
<1>1. Init => ReconcilesFromDepth
  BY DEF Init, ReconcilesFromDepth, Phased
<1>2. TypeOK /\ ReconcilesFromDepth /\ [Next]_vars => ReconcilesFromDepth'
  <2> SUFFICES ASSUME TypeOK, ReconcilesFromDepth, [Next]_vars PROVE ReconcilesFromDepth'
    OBVIOUS
  <2> USE DEF env, store, observed, run
  <2>0. /\ now \in Nat /\ \A m \in merges : m.at \in Nat
        /\ \A r \in Runs : at[r] \in Nat /\ at[r] <= now
    BY DEF TypeOK, ReconcilesFromDepth, MergeOf
  <2>1. CASE Tick
    <3>1. now' = now + 1 /\ UNCHANGED <<merges, known, lost, pc, res, at, full, since, repos>>
      BY <2>1 DEF Tick
    <3>2. \A m \in merges : m.at >= Before(now', Depth) => m.at >= Before(now, Depth)
      BY <2>0, <3>1, SyncAssumption DEF Before
    <3> QED
      BY <2>0, <3>1, <3>2 DEF ReconcilesFromDepth, Phased, Due
  <2>2. CASE MergeHappens
    <3>1. PICK repo \in Repos :
            /\ merges' = merges \cup {[at |-> now, repo |-> repo]}
            /\ known \subseteq known'
      BY <2>2 DEF MergeHappens
    <3>2. UNCHANGED <<now, lost, pc, res, at, full, since, repos>>
      BY <2>2 DEF MergeHappens
    <3>3. \A r \in Runs : ~(now + Lag <= at[r])
      BY <2>0, SyncAssumption
    <3>4. \A m \in merges' : m \in merges \/ m.at = now
      BY <3>1
    <3> QED
      BY <3>1, <3>2, <3>3, <3>4 DEF ReconcilesFromDepth, Phased, Due
  <2>3. CASE Rescope \/ OtherEvent \/ UNCHANGED vars
    BY <2>3 DEF Rescope, OtherEvent, vars, ReconcilesFromDepth, Phased, Due
  <2>4. ASSUME NEW r \in Runs, UNCHANGED <<now, merges>>, StillAnswers(r),
               \A x \in Runs : x # r =>
                 /\ pc'[x] = pc[x] /\ res'[x] = res[x] /\ at'[x] = at[x]
                 /\ since'[x] = since[x] /\ full'[x] = full[x] /\ repos'[x] = repos[x],
               pc'[r] \in {"list", "mark"} => res'[r] # "pulls",
               pc'[r] \in {"idle", "due", "decide"} => res'[r] = "repos",
               at'[r] <= now
        PROVE  ReconcilesFromDepth'
    BY <2>4 DEF ReconcilesFromDepth, Phased, Due, StillAnswers, HasReconciled
  <2>5. ASSUME NEW r \in Runs, UNCHANGED <<now, merges>>, StillAnswers(r),
               Advance(r) \/ Forget(r)
        PROVE  ReconcilesFromDepth'
    <3>1. at'[r] <= now
      BY <2>0, <2>5, AdvanceKeepsKind
    <3> QED
      BY <2>4, <2>5, <3>1, AdvanceKeepsKind
  <2>6. ASSUME NEW r \in Runs, Begin(r) \/ DueForFullSync(r) \/ Decide(r)
        PROVE  ReconcilesFromDepth'
    <3>1. UNCHANGED <<now, merges, known, lost, res, since, repos>> /\ res[r] = "repos"
      BY <2>6 DEF Begin, DueForFullSync, Decide, ReconcilesFromDepth, Phased
    <3>2. \A x \in Runs : x # r =>
            pc'[x] = pc[x] /\ at'[x] = at[x] /\ full'[x] = full[x]
      BY <2>6 DEF Begin, DueForFullSync, Decide, TypeOK
    <3>3. at'[r] <= now
      BY <2>0, <2>6 DEF Begin, DueForFullSync, Decide, TypeOK
    <3> QED
      BY <2>4, <3>1, <3>2, <3>3 DEF StillAnswers
  <2>7. ASSUME NEW r \in Runs, NEW x \in Resources, MarkSkipped(r, x)
        PROVE  ReconcilesFromDepth'
    <3>1. UNCHANGED <<now, merges>> /\ pc[r] = "skipping" /\ StillAnswers(r)
      BY <2>7 DEF MarkSkipped, StillAnswers
    <3>2. CASE Forget(r)
      BY <2>5, <3>1, <3>2
    <3>3. CASE UNCHANGED <<pc, res, at, full, since, repos>>
      BY <2>0, <2>4, <3>1, <3>3
    <3> QED
      BY <2>7, <3>2, <3>3 DEF MarkSkipped
  <2>8. ASSUME NEW r \in Runs, ListRepos(r) \/ ListRuns(r) PROVE ReconcilesFromDepth'
    <3>1. /\ UNCHANGED <<now, merges, known, lost, res, at, full, since>> /\ res[r] # "pulls"
          /\ pc' = [pc EXCEPT ![r] = "mark"] /\ \A x \in Runs : x # r => repos'[x] = repos[x]
      BY <2>8 DEF ListRepos, ListRuns, TypeOK
    <3> QED
      BY <2>0, <2>4, <3>1 DEF TypeOK, StillAnswers
  <2>9. ASSUME NEW r \in Runs, MergedFrom(r) PROVE ReconcilesFromDepth'
    <3> DEFINE s == MergedSince(Held("pulls"), at[r], Depth, full[r])
    <3>1. full[r] => s = Before(at[r], Depth)
      BY DEF MergedSince
    <3> HIDE DEF s
    <3>2. /\ pc' = [pc EXCEPT ![r] = "list"] /\ since' = [since EXCEPT ![r] = s]
          /\ UNCHANGED <<now, merges, known, lost, res, at, full, repos>>
      BY <2>9 DEF MergedFrom, s
    <3> QED
      BY <3>1, <3>2 DEF ReconcilesFromDepth, Phased, Due, TypeOK
  <2>10. ASSUME NEW r \in Runs, ListPulls(r) PROVE ReconcilesFromDepth'
    <3>1. /\ pc' = [pc EXCEPT ![r] = "mark"] /\ pc[r] = "list" /\ res[r] = "pulls"
          /\ UNCHANGED <<now, merges, res, at, full, since, repos>>
      BY <2>10 DEF ListPulls
    <3>2. /\ known \subseteq known' /\ \A x \in Runs : x # r => lost'[x] = lost[x]
          /\ full[r] => \A m \in Asked(r) : m.at + Lag <= now => m \in known' \cup lost'[r]
      BY <2>10, PullsAreListed
    <3>3. ASSUME full[r], NEW m \in merges, m.repo \in repos[r], Due(m, at[r])
          PROVE  m \in known' \cup lost'[r]
      <4>1. since[r] = Before(at[r], Depth)
        BY <3>1, <3>3 DEF ReconcilesFromDepth
      <4>2. m.at + Lag <= now /\ m.at >= since[r]
        BY <2>0, <3>3, <4>1, SyncAssumption DEF Due, Before
      <4>3. m \in Asked(r)
        BY <3>3, <4>2 DEF Asked
      <4> QED
        BY <3>2, <3>3, <4>2, <4>3
    <3> QED
      BY <3>1, <3>2, <3>3 DEF ReconcilesFromDepth, Phased, Due, TypeOK
  <2>11. ASSUME NEW r \in Runs, Mark(r) \/ Fail(r) \/ Prune(r) \/ Crash(r)
         PROVE  ReconcilesFromDepth'
    <3>1. UNCHANGED <<now, merges>> /\ (Advance(r) \/ Forget(r))
      BY <2>11 DEF Mark, Fail, Prune, Crash
    <3>2. ASSUME Mark(r) \/ Fail(r) \/ Crash(r) PROVE StillAnswers(r)
      <4>1. known' = known /\ \A x \in Runs : x # r => lost'[x] = lost[x]
        BY <3>2 DEF Mark, Fail, Crash, TypeOK
      <4> QED
        BY <4>1 DEF StillAnswers
    <3>3. ASSUME Prune(r) PROVE StillAnswers(r)
      <4>1. \A x \in Runs : HasReconciled(x) => lost'[x] = lost[x] \cup (known \ known')
        BY <3>3 DEF Prune
      <4> QED
        BY <4>1 DEF StillAnswers
    <3> QED
      BY <2>5, <2>11, <3>1, <3>2, <3>3
  <2> QED
    BY <2>1, <2>2, <2>3, <2>6, <2>7, <2>8, <2>9, <2>10, <2>11 DEF Next, RunStep
<1> QED
  BY <1>1, <1>2, SyncTypeCorrect, PTL DEF Spec

\* A reconciliation leaves nothing missing within the depth of the repositories
\* it has listed, on an install events reach as on one they do not: what the
\* deltas they spared had missed, and what a repository that joined had before,
\* is in the store when the mark of a full run is written, but for what its own
\* listing warned that it left out and what another run has pruned under it.
THEOREM ReconciliationRestores == Spec => EveryFullRestores
<1>1. ReconcilesFromDepth => FullRestores
  BY DEF ReconcilesFromDepth, FullRestores
<1> QED
  BY <1>1, ReconciliationsHold, PTL DEF EveryFullRestores

----------------------------------------------------------------------------
(* The pruning that closes a full run.                                     *)

\* The repositories a run has listed have rows.
ListedHaveRows == \A r \in Runs : repos[r] \subseteq covered

\* Runs that overlap have listed the same scope.
OneScope == \A r \in Runs : repos[r] \in {{}, scope}

\* Only a pruning takes rows away, and a run that is not pruning keeps the
\* repositories it has listed until it is over.
LEMMA RowsSteps ==
  ASSUME TypeOK, [Next]_vars
  PROVE  \/ \E r \in Runs : Prune(r)
         \/ /\ covered \subseteq covered'
            /\ \A r \in Runs :
                 \/ repos'[r] \in {repos[r], {}}
                 \/ repos'[r] = scope /\ scope \subseteq covered'
<1> USE DEF env, store, observed, run
<1>1. ASSUME NEW r \in Runs, Advance(r) \/ Forget(r), covered' = covered
      PROVE  covered \subseteq covered' /\ \A x \in Runs : repos'[x] \in {repos[x], {}}
  <2>1. CASE Forget(r)
    BY <1>1, <2>1 DEF Forget, TypeOK
  <2>2. CASE UNCHANGED repos
    BY <1>1, <2>2
  <2>3. res[r] \in {"repos", "pulls", "pipelines", "deployments"}
    BY DEF TypeOK, Resources
  <2> QED
    BY <1>1, <2>1, <2>2, <2>3 DEF Advance
<1>2. CASE Tick \/ Rescope \/ MergeHappens \/ OtherEvent \/ UNCHANGED vars
  BY <1>2 DEF Tick, Rescope, MergeHappens, OtherEvent, vars
<1>3. ASSUME NEW r \in Runs,
             Begin(r) \/ DueForFullSync(r) \/ Decide(r) \/ MergedFrom(r) \/ ListPulls(r)
               \/ ListRuns(r)
      PROVE  covered \subseteq covered' /\ UNCHANGED repos
  BY <1>3 DEF Begin, DueForFullSync, Decide, MergedFrom, ListPulls, ListRuns
<1>4. ASSUME NEW r \in Runs, ListRepos(r)
      PROVE  /\ covered \subseteq covered' /\ scope \subseteq covered'
             /\ \A x \in Runs : repos'[x] \in {repos[x], scope}
  BY <1>4 DEF ListRepos, TypeOK
<1>5. ASSUME NEW r \in Runs, Mark(r) \/ Fail(r) \/ Crash(r)
      PROVE  covered' = covered /\ (Advance(r) \/ Forget(r))
  BY <1>5 DEF Mark, Fail, Crash
<1>6. ASSUME NEW r \in Runs, NEW x \in Resources, MarkSkipped(r, x)
      PROVE  covered' = covered /\ (UNCHANGED repos \/ Forget(r))
  BY <1>6 DEF MarkSkipped
<1> QED
  BY <1>1, <1>2, <1>3, <1>4, <1>5, <1>6 DEF Next, RunStep

\* A pruning keeps what it has listed, and leaves the run without a list.
LEMMA PruneKeepsListed ==
  ASSUME TypeOK, ListedHaveRows, NEW r \in Runs, Prune(r)
  PROVE  /\ covered' = IF repos[r] = {} THEN covered ELSE repos[r]
         /\ repos'[r] = {} /\ \A x \in Runs : x # r => repos'[x] = repos[x]
         /\ UNCHANGED scope
BY DEF Prune, PrunedTo, Forget, ListedHaveRows, TypeOK, env

\* A run that is over holds no list.
IdleHoldsNothing == \A r \in Runs : pc[r] = "idle" => repos[r] = {}

LEMMA IdleSteps == TypeOK /\ IdleHoldsNothing /\ [Next]_vars => IdleHoldsNothing'
<1> SUFFICES ASSUME TypeOK, IdleHoldsNothing, [Next]_vars, NEW x \in Runs, pc'[x] = "idle"
             PROVE  repos'[x] = {}
  BY DEF IdleHoldsNothing
<1> USE DEF env, store, observed, run
<1>1. ASSUME NEW r \in Runs, Advance(r) \/ Forget(r)
      PROVE  \/ Forget(r)
             \/ UNCHANGED repos /\ pc'[r] # "idle" /\ \A y \in Runs : y # r => pc'[y] = pc[y]
  <2>1. res[r] \in {"repos", "pulls", "pipelines", "deployments"}
    BY DEF TypeOK, Resources
  <2> QED
    BY <1>1, <2>1 DEF Advance, TypeOK
<1>2. ASSUME NEW r \in Runs, Advance(r) \/ Forget(r) PROVE repos'[x] = {}
  BY <1>1, <1>2 DEF Forget, IdleHoldsNothing, TypeOK
<1>3. ASSUME UNCHANGED <<pc, repos>> PROVE repos'[x] = {}
  BY <1>3 DEF IdleHoldsNothing
<1>4. CASE Tick \/ Rescope \/ MergeHappens \/ OtherEvent \/ UNCHANGED vars
  BY <1>3, <1>4 DEF Tick, Rescope, MergeHappens, OtherEvent, vars
<1>5. ASSUME NEW r \in Runs,
             Begin(r) \/ DueForFullSync(r) \/ Decide(r) \/ ListRepos(r) \/ MergedFrom(r)
               \/ ListPulls(r) \/ ListRuns(r)
      PROVE  repos'[x] = {}
  <2>1. /\ pc'[r] # "idle" /\ \A y \in Runs : y # r => pc'[y] = pc[y]
        /\ \A y \in Runs : y # r => repos'[y] = repos[y]
    BY <1>5 DEF Begin, DueForFullSync, Decide, ListRepos, MergedFrom, ListPulls, ListRuns, TypeOK
  <2> QED
    BY <2>1 DEF IdleHoldsNothing
<1>6. ASSUME NEW r \in Runs, Mark(r) \/ Fail(r) \/ Crash(r) \/ Prune(r) PROVE repos'[x] = {}
  BY <1>2, <1>6 DEF Mark, Fail, Crash, Prune
<1>7. ASSUME NEW r \in Runs, NEW y \in Resources, MarkSkipped(r, y) PROVE repos'[x] = {}
  BY <1>2, <1>3, <1>7 DEF MarkSkipped
<1> QED
  BY <1>4, <1>5, <1>6, <1>7 DEF Next, RunStep

\* When the runs of a source follow one another, no reconciliation empties the
\* store, however the scope changes under it and whatever listing is refused.
THEOREM LoneRunKeepsRows == Spec /\ []OneAtATime => StoreNeverEmptied
<1> DEFINE Inv == ListedHaveRows /\ IdleHoldsNothing
<1>1. Init => Inv
  BY DEF Init, ListedHaveRows, IdleHoldsNothing
<1>2. TypeOK /\ Inv /\ OneAtATime /\ [Next]_vars => Inv'
  <2> SUFFICES ASSUME TypeOK, Inv, OneAtATime, [Next]_vars PROVE ListedHaveRows'
    BY IdleSteps
  <2>1. ASSUME NEW r \in Runs, Prune(r) PROVE ListedHaveRows'
    <3>1. \A x \in Runs : x # r => repos[x] = {}
      BY <2>1 DEF Prune, OneAtATime, IdleHoldsNothing
    <3> QED
      BY <2>1, <3>1, PruneKeepsListed DEF ListedHaveRows
  <2> QED
    BY <2>1, RowsSteps DEF ListedHaveRows
<1>3. TypeOK /\ Inv /\ [Next]_vars => NeverEmptied
  BY RowsSteps, PruneKeepsListed DEF NeverEmptied
<1> HIDE DEF Inv
<1> QED
  BY <1>1, <1>2, <1>3, SyncTypeCorrect, PTL DEF Spec, StoreNeverEmptied

\* Runs that overlap do not empty it either while the scope stays what it is:
\* what one prunes to is what the other has listed.
THEOREM SteadyScopeKeepsRows == Spec /\ [][scope' = scope]_vars => [][NeverEmptied]_vars
<1> DEFINE Inv == ListedHaveRows /\ OneScope
<1>1. Init => Inv
  BY DEF Init, ListedHaveRows, OneScope
<1>2. TypeOK /\ Inv /\ [Next]_vars /\ [scope' = scope]_vars => Inv'
  <2> SUFFICES ASSUME TypeOK, Inv, [Next]_vars, [scope' = scope]_vars PROVE Inv'
    OBVIOUS
  <2>1. scope' = scope
    BY DEF vars, env
  <2>2. ASSUME NEW r \in Runs, Prune(r) PROVE Inv'
    BY <2>1, <2>2, PruneKeepsListed DEF ListedHaveRows, OneScope
  <2>3. CASE /\ covered \subseteq covered'
             /\ \A r \in Runs :
                  \/ repos'[r] \in {repos[r], {}}
                  \/ repos'[r] = scope /\ scope \subseteq covered'
    BY <2>1, <2>3 DEF ListedHaveRows, OneScope
  <2> QED
    BY <2>2, <2>3, RowsSteps
<1>3. TypeOK /\ Inv /\ [Next]_vars => NeverEmptied
  BY RowsSteps, PruneKeepsListed DEF NeverEmptied
<1> HIDE DEF Inv
<1> QED
  BY <1>1, <1>2, <1>3, SyncTypeCorrect, PTL DEF Spec

-----------------------------------------------------------------------------
(* A listing of a platform (Listings), whatever its page and its rows.      *)

\* A set of numbers has a smallest one.
LEMMA SmallestNumber ==
  ASSUME NEW T, T \subseteq Nat, T # {}
  PROVE  \E x \in T : \A y \in T : x <= y
<1>1. \E x \in T : \A y \in T : ~ (<<y, x>> \in OpToRel(<, Nat))
  BY NatLessThanWellFounded, WFMin
<1>2. PICK x \in T : \A y \in T : ~ (<<y, x>> \in OpToRel(<, Nat))
  BY <1>1
<1>3. ASSUME NEW y \in T PROVE x <= y
  <2>1. ~(y < x)
    BY <1>2 DEF OpToRel
  <2> QED
    BY <2>1
<1> QED
  BY <1>3

\* The rows of a platform, one listing of it, and the dates they carry.
ListingTypeOK ==
  /\ kind \in Kinds
  /\ rows \in [Ids -> Platform!Row \cup {Platform!Absent}]
  /\ before \in [Ids -> Platform!Row \cup {Platform!Absent}]
  /\ clock \in 0 .. LastDate
  /\ asked \in [what : Platform!Resources, since : {Platform!Live} \cup 0 .. LastDate]
  /\ page \in Nat
  /\ got \in SUBSET [place : Nat, id : Ids, row : Platform!Row]
  /\ listed \in SUBSET [place : Nat, id : Ids, row : Platform!Row,
                        detail : {"own", "read", "none"}]
  /\ truncated \in BOOLEAN
  /\ phase \in {"idle", "paging", "detailing", "done", "failed"}
  /\ moves \in Nat

\* The fields of a row that is there, and of one that is not.
LEMMA RowParts ==
  ASSUME NEW row_ \in Platform!Row \cup {Platform!Absent}
  PROVE  /\ row_.created \in Int /\ row_.updated \in Int /\ row_.merged \in Int
         /\ row_.state \in Platform!States
         /\ row_ # Platform!Absent =>
              /\ row_ \in Platform!Row
              /\ row_.created \in 0 .. LastDate /\ row_.updated \in 0 .. LastDate
         /\ row_ = Platform!Absent =>
              row_.created = -1 /\ row_.updated = -1 /\ row_.merged = -1
BY PlatformAssumption DEF Platform!Row, Platform!Absent, Platform!States, Platform!Never

\* An ordering goes by dates.
LEMMA OrderingIsDated ==
  ASSUME ListingTypeOK, NEW i \in Ids
  PROVE  Platform!OrderedBy(rows[i]) \in Int
BY RowParts DEF ListingTypeOK, Platform!OrderedBy, Platform!GitHubAt

\* What precedes is before whatever the other precedes, never itself, and one
\* of two rows precedes the other.
LEMMA PrecedesOrders ==
  ASSUME ListingTypeOK, NEW i \in Ids, NEW j \in Ids, NEW k \in Ids
  PROVE  /\ ~Platform!Precedes(i, i)
         /\ Platform!Precedes(i, j) /\ Platform!Precedes(j, k) => Platform!Precedes(i, k)
         /\ i # j => Platform!Precedes(i, j) \/ Platform!Precedes(j, i)
<1>1. i \in Nat /\ j \in Nat /\ k \in Nat
  BY PlatformAssumption
<1> QED
  BY <1>1, OrderingIsDated DEF Platform!Precedes

\* The rows offered, and those ahead of one, are finitely many.
LEMMA AheadIsFinite ==
  ASSUME ListingTypeOK, NEW i
  PROVE  /\ Platform!Offered \subseteq Ids /\ IsFiniteSet(Platform!Offered)
         /\ Platform!Ahead(i) \subseteq Platform!Offered /\ IsFiniteSet(Platform!Ahead(i))
         /\ Cardinality(Platform!Ahead(i)) \in Nat /\ Cardinality(Platform!Offered) \in Nat
         /\ Cardinality(Platform!Ahead(i)) <= Cardinality(Platform!Offered)
         /\ Cardinality(Platform!Offered) <= Cardinality(Ids) /\ Cardinality(Ids) \in Nat
<1>1. Platform!Offered \subseteq Ids
  BY DEF Platform!Offered, Platform!GitHubOffered, Platform!GitLabOffered, Platform!Present
<1>2. IsFiniteSet(Platform!Offered) /\ Cardinality(Platform!Offered) <= Cardinality(Ids)
  BY <1>1, FS_Subset, PlatformAssumption
<1>3. Platform!Ahead(i) \subseteq Platform!Offered
  BY DEF Platform!Ahead
<1>4. /\ IsFiniteSet(Platform!Ahead(i))
      /\ Cardinality(Platform!Ahead(i)) <= Cardinality(Platform!Offered)
  BY <1>2, <1>3, FS_Subset
<1> QED
  BY <1>1, <1>2, <1>3, <1>4, FS_CardinalityType, PlatformAssumption

\* A row ahead of another has fewer ahead of it.
LEMMA AheadHasFewer ==
  ASSUME ListingTypeOK, NEW i \in Platform!Offered, NEW j \in Ids,
         Platform!Precedes(i, j)
  PROVE  Cardinality(Platform!Ahead(i)) < Cardinality(Platform!Ahead(j))
<1> DEFINE A == Platform!Ahead(i)
           B == Platform!Ahead(j)
<1>1. i \in Ids /\ IsFiniteSet(A) /\ IsFiniteSet(B) /\ A \subseteq Ids
  BY AheadIsFinite
<1>2. i \in B /\ i \notin A
  BY <1>1, PrecedesOrders DEF Platform!Ahead
<1>3. A \subseteq B
  BY <1>1, PrecedesOrders DEF Platform!Ahead
<1>4. Cardinality(A) <= Cardinality(B) /\ (Cardinality(A) = Cardinality(B) => A = B)
  BY <1>1, <1>3, FS_Subset
<1>5. Cardinality(A) \in Nat /\ Cardinality(B) \in Nat
  BY <1>1, FS_CardinalityType
<1> HIDE DEF A, B
<1>6. Cardinality(A) < Cardinality(B)
  BY <1>2, <1>4, <1>5
<1> QED
  BY <1>6 DEF A, B

\* Every row is ahead of fewer rows than are offered.
LEMMA AheadIsNotAll ==
  ASSUME ListingTypeOK, NEW i \in Platform!Offered
  PROVE  Cardinality(Platform!Ahead(i)) < Cardinality(Platform!Offered)
<1> DEFINE A == Platform!Ahead(i)
           B == Platform!Offered
<1>1. i \in Ids /\ IsFiniteSet(A) /\ IsFiniteSet(B) /\ A \subseteq B
  BY AheadIsFinite
<1>2. i \notin A
  BY <1>1, PrecedesOrders DEF Platform!Ahead
<1>3. Cardinality(A) <= Cardinality(B) /\ (Cardinality(A) = Cardinality(B) => A = B)
  BY <1>1, FS_Subset
<1>4. Cardinality(A) \in Nat /\ Cardinality(B) \in Nat
  BY <1>1, FS_CardinalityType
<1> HIDE DEF A
<1> QED
  BY <1>2, <1>3, <1>4 DEF A

\* No place of an ordering is empty below a place that is not: a row with n
\* or more ahead of it comes after one with exactly n.
LEMMA PlacesAreFilled ==
  ASSUME ListingTypeOK, NEW i \in Platform!Offered, NEW n \in Nat,
         Cardinality(Platform!Ahead(i)) >= n
  PROVE  \E m \in Platform!Offered : Cardinality(Platform!Ahead(m)) = n
<1> DEFINE place(j) == Cardinality(Platform!Ahead(j))
           Later == {j \in Platform!Offered : place(j) >= n}
<1>1. \A j \in Platform!Offered : place(j) \in Nat /\ j \in Ids
  BY AheadIsFinite
<1>2. PICK m \in Later : \A j \in Later : place(m) <= place(j)
  <2> DEFINE T == {place(j) : j \in Later}
  <2>1. T \subseteq Nat /\ T # {}
    BY <1>1
  <2> HIDE DEF T
  <2>2. PICK x \in T : \A y \in T : x <= y
    BY <2>1, SmallestNumber
  <2> QED
    BY <2>2 DEF T
<1>3. SUFFICES ASSUME place(m) # n PROVE FALSE
  BY <1>2
<1>4. place(m) > n /\ m \in Platform!Offered /\ place(m) \in Nat /\ m \in Ids
  BY <1>1, <1>2, <1>3
<1>5. Platform!Ahead(m) # {} /\ IsFiniteSet(Platform!Ahead(m))
  BY <1>4, FS_EmptySet, AheadIsFinite
<1>6. \A q \in Platform!Ahead(m) :
        /\ q \in Platform!Offered /\ q \in Ids /\ Platform!Precedes(q, m)
        /\ place(q) \in Nat /\ place(q) < n
  <2> SUFFICES ASSUME NEW q \in Platform!Ahead(m)
               PROVE  /\ q \in Platform!Offered /\ q \in Ids /\ Platform!Precedes(q, m)
                      /\ place(q) \in Nat /\ place(q) < n
    OBVIOUS
  <2>1. q \in Platform!Offered /\ Platform!Precedes(q, m) /\ q \in Ids
    BY AheadIsFinite DEF Platform!Ahead
  <2>2. place(q) < place(m) /\ place(q) \in Nat
    BY <1>4, <2>1, AheadHasFewer, <1>1
  <2>3. q \notin Later
    BY <1>2, <2>2, <1>4
  <2> QED
    BY <2>1, <2>2, <2>3
<1>7. PICK p \in Platform!Ahead(m) : \A q \in Platform!Ahead(m) : place(q) <= place(p)
  <2> DEFINE T == {n - place(q) : q \in Platform!Ahead(m)}
  <2>1. T \subseteq Nat /\ T # {}
    BY <1>5, <1>6
  <2> HIDE DEF T
  <2>2. PICK x \in T : \A y \in T : x <= y
    BY <2>1, SmallestNumber
  <2>3. PICK p \in Platform!Ahead(m) : x = n - place(p)
    BY <2>2 DEF T
  <2>4. ASSUME NEW q \in Platform!Ahead(m) PROVE place(q) <= place(p)
    <3>1. n - place(p) <= n - place(q)
      BY <2>2, <2>3 DEF T
    <3> QED
      BY <3>1, <1>6
  <2> QED
    BY <2>4
<1>8. Platform!Ahead(m) \subseteq Platform!Ahead(p) \cup {p}
  <2> SUFFICES ASSUME NEW q \in Platform!Ahead(m), q # p PROVE q \in Platform!Ahead(p)
    OBVIOUS
  <2>1. ~Platform!Precedes(p, q)
    <3> SUFFICES ASSUME Platform!Precedes(p, q) PROVE FALSE
      OBVIOUS
    <3>1. place(p) < place(q)
      BY AheadHasFewer, <1>6
    <3> QED
      BY <3>1, <1>7, <1>6
  <2>2. Platform!Precedes(q, p)
    BY <2>1, <1>6, PrecedesOrders
  <2> QED
    BY <2>2, <1>6 DEF Platform!Ahead
<1>9. place(m) <= place(p) + 1
  <2>1. IsFiniteSet(Platform!Ahead(p) \cup {p})
        /\ Cardinality(Platform!Ahead(p) \cup {p}) <= place(p) + 1
    <3>1. IsFiniteSet(Platform!Ahead(p)) /\ Cardinality(Platform!Ahead(p)) \in Nat
      BY AheadIsFinite
    <3>2. IsFiniteSet(Platform!Ahead(p) \cup {p})
      BY <3>1, FS_AddElement
    <3>3. \/ Cardinality(Platform!Ahead(p) \cup {p}) = Cardinality(Platform!Ahead(p))
          \/ Cardinality(Platform!Ahead(p) \cup {p}) = Cardinality(Platform!Ahead(p)) + 1
      BY <3>1, FS_AddElement
    <3> QED
      BY <3>1, <3>2, <3>3
  <2>2. Cardinality(Platform!Ahead(m)) <= Cardinality(Platform!Ahead(p) \cup {p})
    BY <1>8, <2>1, FS_Subset
  <2>3. Cardinality(Platform!Ahead(p) \cup {p}) \in Nat
    BY <2>1, FS_CardinalityType
  <2> QED
    BY <2>1, <2>2, <2>3, <1>4, <1>6
<1> QED
  BY <1>9, <1>4, <1>6

-----------------------------------------------------------------------------
\* A row keeps its merge date with its state, and is dated by the clock.
RowsAreDated ==
  \A i \in Ids :
    /\ rows[i].updated <= clock
    /\ rows[i].state = "merged" <=> rows[i].merged # Platform!Never

\* A row goes one way while a listing is read: it never goes back to a date, to
\* being open, or to not being there.
RowsGoForward ==
  phase \in {"paging", "detailing", "done"} =>
    \A i \in Ids : before[i] # Platform!Absent =>
      /\ rows[i] # Platform!Absent
      /\ rows[i].created = before[i].created
      /\ rows[i].updated >= before[i].updated
      /\ before[i].state # "open" => rows[i].state = before[i].state

\* What is asked for is bounded as its kind is.
AskedIsBounded ==
  /\ asked.what = "open" => asked.since = Platform!Live
  /\ asked.what = "merged" => asked.since # Platform!Live

\* The rows of the window that stand where they stood.
Standing(i) == Platform!Wanted(before[i]) /\ rows[i] = before[i]

\* The pages hold a row as it stood.
Brought(i) == \E item \in got : item.id = i /\ item.row = before[i]

ListingIsWide == asked.since # Platform!Live \/ asked.what = "open"

Excused == asked.what = "open" /\ \E j \in Ids : Platform!Left(j)

\* While pages are read, a row that stands still is in the pages read, or has
\* at least as many rows ahead of it as the pages have places.
StandingIsAhead ==
  phase = "paging" /\ ListingIsWide =>
    \A i \in Ids : Standing(i) =>
      Excused \/ Brought(i) \/ Cardinality(Platform!Ahead(i)) >= page * PAGE

\* Once they are, it is in them, or the listing says it is short.
StandingIsBrought ==
  phase = "detailing" /\ ListingIsWide =>
    \A i \in Ids : Standing(i) => truncated \/ Excused \/ Brought(i)

\* GitLab's pages hold no row older than the bound, nor do GitHub's once read.
BroughtIsInside ==
  kind = "gitlab" \/ phase = "detailing" =>
    \A item \in got : asked.since = Platform!Live \/ Platform!At(item.row) >= asked.since

\* While nothing moves, what the pages hold is what is offered, each row at its place.
StillIsExact ==
  phase \in {"paging", "detailing", "done"} /\ moves = 0 =>
    /\ rows = before
    /\ \A item \in got : /\ item.id \in Platform!Offered
                         /\ item.row = rows[item.id]
                         /\ item.place = Cardinality(Platform!Ahead(item.id))

ListingInv ==
  /\ ListingTypeOK /\ RowsAreDated /\ RowsGoForward /\ AskedIsBounded
  /\ StandingIsAhead /\ StandingIsBrought /\ BroughtIsInside /\ StillIsExact
  /\ Platform!ListingIsWhole

-----------------------------------------------------------------------------
\* What a step of the repository leaves of a row: it goes forward, keeps its
\* merge date with its state, and changes only by its date or its state.
MovesForward(j) ==
  /\ rows'[j] \in Platform!Row \cup {Platform!Absent}
  /\ rows'[j].updated <= clock'
  /\ rows'[j].state = "merged" <=> rows'[j].merged # Platform!Never
  /\ rows[j] = Platform!Absent /\ rows'[j] # Platform!Absent => rows'[j].state = "open"
  /\ rows[j] # Platform!Absent =>
       /\ rows'[j] # Platform!Absent
       /\ rows'[j].created = rows[j].created
       /\ rows'[j].updated >= rows[j].updated
       /\ rows[j].state # "open" => rows'[j].state = rows[j].state
       /\ rows'[j].state # rows[j].state => rows'[j].state # "open"
       /\ rows'[j].updated = rows[j].updated /\ rows'[j].state = rows[j].state =>
            rows'[j] = rows[j]

\* What appears is dated by the clock, and moves no row.
LEMMA AppearForward ==
  ASSUME ListingTypeOK, RowsAreDated, Platform!Appear, NEW j \in Ids
  PROVE  MovesForward(j) /\ clock' \in 0 .. LastDate /\ rows' \in [Ids -> Platform!Row \cup {Platform!Absent}]
<1>1. PICK i \in Ids \ Platform!Present(rows) :
        /\ clock' \in {clock, clock + 1} /\ clock' <= LastDate
        /\ rows' = [rows EXCEPT ![i] = [created |-> clock', updated |-> clock',
                                       merged |-> Platform!Never, state |-> "open"]]
  BY DEF Platform!Appear
<1>2. clock' \in 0 .. LastDate /\ clock' >= clock /\ clock \in Nat
  BY <1>1, PlatformAssumption DEF ListingTypeOK
<1>3. rows[i] = Platform!Absent
  BY <1>1 DEF Platform!Present
<1> DEFINE new == [created |-> clock', updated |-> clock', merged |-> Platform!Never, state |-> "open"]
<1>4. new \in Platform!Row /\ new # Platform!Absent
  BY <1>2, PlatformAssumption DEF Platform!Row, Platform!States, Platform!Absent, Platform!Never
<1>5. rows'[j] = IF j = i THEN new ELSE rows[j]
  BY <1>1 DEF ListingTypeOK
<1>6. rows' \in [Ids -> Platform!Row \cup {Platform!Absent}]
  BY <1>1, <1>4 DEF ListingTypeOK
<1>7. CASE j = i
  <2>1. new.updated = clock' /\ new.state = "open" /\ new.merged = Platform!Never
    OBVIOUS
  <2> HIDE DEF new
  <2> QED
    BY <1>2, <1>3, <1>4, <1>5, <1>6, <1>7, <2>1 DEF MovesForward
<1>8. CASE j # i
  <2>1. rows'[j] = rows[j] /\ rows[j] \in Platform!Row \cup {Platform!Absent}
    BY <1>5, <1>8 DEF ListingTypeOK
  <2>2. /\ rows[j].updated \in Int /\ rows[j].updated <= clock
        /\ rows[j].state = "merged" <=> rows[j].merged # Platform!Never
    BY <2>1, RowParts DEF RowsAreDated
  <2> QED
    BY <1>2, <1>6, <2>1, <2>2 DEF MovesForward
<1> QED
  BY <1>7, <1>8

\* A touch dates a row by the clock and never undoes what it was.
LEMMA TouchForward ==
  ASSUME ListingTypeOK, RowsAreDated, Platform!Touch, NEW j \in Ids
  PROVE  MovesForward(j) /\ clock' \in 0 .. LastDate /\ rows' \in [Ids -> Platform!Row \cup {Platform!Absent}]
<1>1. PICK i \in Platform!Present(rows), state \in Platform!States :
        /\ rows[i].state = "open" \/ state = rows[i].state
        /\ clock' \in {clock, clock + 1} /\ clock' <= LastDate
        /\ rows' = [rows EXCEPT ![i] =
                [created |-> @.created, updated |-> clock', state |-> state,
                 merged |-> IF state = "merged" /\ @.merged = Platform!Never
                              THEN clock' ELSE @.merged]]
  BY DEF Platform!Touch
<1>2. clock' \in 0 .. LastDate /\ clock' >= clock /\ clock \in Nat
  BY <1>1, PlatformAssumption DEF ListingTypeOK
<1>3. rows[i] # Platform!Absent /\ rows[i] \in Platform!Row /\ i \in Ids
  BY <1>1 DEF Platform!Present, ListingTypeOK
<1> DEFINE merged == IF state = "merged" /\ rows[i].merged = Platform!Never THEN clock' ELSE rows[i].merged
           new == [created |-> rows[i].created, updated |-> clock', state |-> state, merged |-> merged]
<1>4. rows' = [rows EXCEPT ![i] = new]
  BY <1>1
<1>5. new \in Platform!Row /\ new # Platform!Absent
  BY <1>2, <1>3, PlatformAssumption DEF Platform!Row, Platform!Absent, Platform!Never
<1>6. rows'[j] = IF j = i THEN new ELSE rows[j]
  BY <1>4 DEF ListingTypeOK
<1>7. rows' \in [Ids -> Platform!Row \cup {Platform!Absent}]
  BY <1>4, <1>5 DEF ListingTypeOK
<1>8. CASE j = i
  <2>1. /\ rows[i].updated \in Int /\ rows[i].updated <= clock
        /\ rows[i].state = "merged" <=> rows[i].merged # Platform!Never
    BY <1>3, RowParts DEF RowsAreDated
  <2>2. /\ new.created = rows[i].created /\ new.updated = clock' /\ new.state = state
        /\ new.merged = merged
    OBVIOUS
  <2>3. clock' # Platform!Never
    BY <1>2 DEF Platform!Never
  <2>4. state = "merged" <=> merged # Platform!Never
    BY <1>1, <2>1, <2>3
  <2>5. state = rows[i].state => merged = rows[i].merged
    BY <2>1
  <2>6. clock' = rows[i].updated /\ state = rows[i].state => new = rows[i]
    BY <2>5, <1>3 DEF Platform!Row
  <2>7. rows'[i] = new /\ rows'[j] = rows'[i] /\ rows[j] = rows[i]
    BY <1>6, <1>8
  <2> HIDE DEF new, merged
  <2>8. /\ rows'[i] \in Platform!Row \cup {Platform!Absent} /\ rows'[i] # Platform!Absent
        /\ rows'[i].updated <= clock' /\ rows'[i].created = rows[i].created
        /\ rows'[i].updated >= rows[i].updated
    BY <1>2, <1>5, <2>1, <2>2, <2>7
  <2>9. rows'[i].state = "merged" <=> rows'[i].merged # Platform!Never
    BY <2>2, <2>4, <2>7
  <2>10. /\ rows[i].state # "open" => rows'[i].state = rows[i].state
         /\ rows'[i].state # rows[i].state => rows'[i].state # "open"
    BY <1>1, <2>2, <2>7
  <2>11. rows'[i].updated = rows[i].updated /\ rows'[i].state = rows[i].state =>
            rows'[i] = rows[i]
    BY <2>2, <2>6, <2>7
  <2> QED
    BY <1>2, <1>3, <1>7, <2>7, <2>8, <2>9, <2>10, <2>11 DEF MovesForward
<1>9. CASE j # i
  <2>1. rows'[j] = rows[j] /\ rows[j] \in Platform!Row \cup {Platform!Absent}
    BY <1>6, <1>9 DEF ListingTypeOK
  <2>2. /\ rows[j].updated \in Int /\ rows[j].updated <= clock
        /\ rows[j].state = "merged" <=> rows[j].merged # Platform!Never
    BY <2>1, RowParts DEF RowsAreDated
  <2> QED
    BY <1>2, <1>7, <2>1, <2>2 DEF MovesForward
<1> QED
  BY <1>8, <1>9

\* A step of the repository moves rows forward, between listings or under one.
LEMMA RepositoryForward ==
  ASSUME ListingInv, Platform!Appear \/ Platform!Touch
  PROVE  /\ \A j \in Ids : MovesForward(j)
         /\ rows' \in [Ids -> Platform!Row \cup {Platform!Absent}]
         /\ clock' \in 0 .. LastDate
         /\ phase \in {"idle", "paging"}
         /\ moves' = IF phase = "idle" THEN moves ELSE moves + 1
         /\ UNCHANGED <<kind, asked, page, got, truncated, listed, phase, before>>
<1>1. ListingTypeOK /\ RowsAreDated
  BY DEF ListingInv
<1>2. Platform!Moving
  BY DEF Platform!Appear, Platform!Touch
<1>3. rows' \in [Ids -> Platform!Row \cup {Platform!Absent}] /\ clock' \in 0 .. LastDate
  <2>1. \E j : j \in Ids
    BY DEF Platform!Appear, Platform!Touch, Platform!Present
  <2> QED
    BY <1>1, <2>1, AppearForward, TouchForward
<1> QED
  BY <1>1, <1>2, <1>3, AppearForward, TouchForward DEF Platform!Moving

\* Under the pages of a listing, no row goes back to what it was.
LEMMA NoReturn ==
  ASSUME ListingInv, Platform!Appear \/ Platform!Touch, phase = "paging",
         NEW i \in Ids, before[i] # Platform!Absent
  PROVE  /\ rows'[i] = before[i] => rows[i] = before[i]
         /\ rows'[i] # Platform!Absent
         /\ rows'[i].created = before[i].created
         /\ rows'[i].updated >= before[i].updated
         /\ before[i].state # "open" => rows'[i].state = before[i].state
<1>1. /\ rows[i] # Platform!Absent /\ rows[i].created = before[i].created
      /\ rows[i].updated >= before[i].updated
      /\ before[i].state # "open" => rows[i].state = before[i].state
  BY DEF ListingInv, RowsGoForward
<1>2. MovesForward(i)
  BY RepositoryForward
<1>3. rows[i] \in Platform!Row \cup {Platform!Absent} /\ before[i] \in Platform!Row \cup {Platform!Absent}
  BY DEF ListingInv, ListingTypeOK
<1>4. rows[i].updated \in Int /\ rows'[i].updated \in Int /\ before[i].updated \in Int
  BY <1>2, <1>3, RowParts DEF MovesForward
<1> QED
  BY <1>1, <1>2, <1>4 DEF MovesForward

\* A row which leaves a listing under its pages was an open request, and is one no more.
LEMMA OfferedStays ==
  ASSUME ListingInv, Platform!Appear \/ Platform!Touch, phase = "paging", ~Excused',
         NEW j \in Platform!Offered
  PROVE  /\ j \in Platform!Offered'
         /\ Platform!OrderedBy(rows[j])' >= Platform!OrderedBy(rows[j])
<1>1. /\ MovesForward(j) /\ UNCHANGED <<kind, asked, before, phase>> /\ j \in Ids
      /\ rows[j] # Platform!Absent
  BY RepositoryForward DEF Platform!Offered, Platform!GitHubOffered, Platform!GitLabOffered,
       Platform!Present
<1>2. rows'[j] # Platform!Absent /\ rows'[j].created = rows[j].created
      /\ rows'[j].updated >= rows[j].updated
      /\ (rows[j].state # "open" => rows'[j].state = rows[j].state)
  BY <1>1 DEF MovesForward
<1>3. /\ rows[j] \in Platform!Row \cup {Platform!Absent}
      /\ rows'[j] \in Platform!Row \cup {Platform!Absent}
  BY <1>1 DEF MovesForward, ListingInv, ListingTypeOK
<1>4. /\ rows[j].updated \in Int /\ rows'[j].updated \in Int
      /\ rows[j].created \in Int /\ rows'[j].created \in Int
  BY <1>3, RowParts
<1>5. /\ asked.what \in Platform!Resources
      /\ asked.since \in Int
      /\ asked.what = "open" => asked.since = Platform!Live
  BY PlatformAssumption DEF ListingInv, ListingTypeOK, AskedIsBounded, Platform!Live
<1>6. ASSUME asked.what = "open" PROVE rows[j].state = "open" /\ rows'[j].state = "open"
  <2>1. rows[j].state = "open"
    BY <1>6 DEF Platform!Offered, Platform!GitHubOffered, Platform!GitLabOffered,
         Platform!gitlab_listPullRequests
  <2>2. before[j] = Platform!Absent \/ before[j].state = "open"
    BY <2>1, <1>1 DEF ListingInv, RowsGoForward
  <2>3. ~Platform!Left(j)'
    BY <1>1, <1>6 DEF Excused
  <2> QED
    BY <2>1, <2>2, <2>3, <1>1, <1>2 DEF Platform!Left
<1>7. Platform!OrderedBy(rows[j])' >= Platform!OrderedBy(rows[j])
  BY <1>1, <1>2, <1>4 DEF Platform!OrderedBy, Platform!GitHubAt
<1>8. CASE kind = "github"
  <2>1. j \in Platform!GitHubOffered(asked.what)
    BY <1>8 DEF Platform!Offered
  <2>2. j \in Platform!GitHubOffered(asked.what)'
    BY <1>1, <1>2, <1>5, <1>6, <2>1 DEF Platform!GitHubOffered, Platform!Present, Platform!Resources
  <2> QED
    BY <1>1, <1>7, <1>8, <2>2 DEF Platform!Offered
<1>9. CASE kind # "github"
  <2>1. j \in Platform!GitLabOffered(asked.what, asked.since)
    BY <1>9 DEF Platform!Offered
  <2>2. ASSUME asked.what = "open"
       PROVE  j \in Platform!GitLabOffered(asked.what, asked.since)'
    BY <1>1, <1>2, <1>6, <2>2 DEF Platform!GitLabOffered, Platform!Present,
         Platform!gitlab_listPullRequests
  <2>3. ASSUME asked.what = "merged"
       PROVE  j \in Platform!GitLabOffered(asked.what, asked.since)'
    <3>1. rows[j].state = "merged" /\ rows[j].updated >= asked.since
      BY <2>1, <2>3 DEF Platform!GitLabOffered, Platform!gitlab_listMergedPullRequests
    <3>2. rows'[j].state = "merged" /\ rows'[j].updated >= asked.since
      BY <3>1, <1>2, <1>4, <1>5
    <3> QED
      BY <1>1, <1>2, <2>3, <3>2 DEF Platform!GitLabOffered, Platform!Present,
           Platform!gitlab_listMergedPullRequests
  <2>4. ASSUME asked.what = "pipelines"
       PROVE  j \in Platform!GitLabOffered(asked.what, asked.since)'
    BY <1>1, <1>2, <2>1, <2>4 DEF Platform!GitLabOffered, Platform!Present,
         Platform!gitlab_listPipelines
  <2>5. ASSUME asked.what \notin {"open", "merged", "pipelines"}
       PROVE  j \in Platform!GitLabOffered(asked.what, asked.since)'
    <3>1. asked.since = Platform!Live \/ rows[j].updated >= asked.since
      BY <2>1, <2>5 DEF Platform!GitLabOffered, Platform!gitlab_listDeployments
    <3>2. asked.since = Platform!Live \/ rows'[j].updated >= asked.since
      BY <3>1, <1>2, <1>4, <1>5
    <3> QED
      BY <1>1, <1>2, <2>5, <3>2 DEF Platform!GitLabOffered, Platform!Present,
           Platform!gitlab_listDeployments
  <2>6. j \in Platform!GitLabOffered(asked.what, asked.since)'
    BY <2>2, <2>3, <2>4, <2>5, <1>1
  <2> QED
    BY <1>1, <1>7, <1>9, <2>6 DEF Platform!Offered
<1> QED
  BY <1>8, <1>9

\* What is ahead of a row that stands still stays ahead of it.
LEMMA AheadGrows ==
  ASSUME ListingInv, ListingTypeOK', Platform!Appear \/ Platform!Touch, phase = "paging",
         ~Excused', NEW i \in Ids, rows'[i] = rows[i]
  PROVE  Cardinality(Platform!Ahead(i))' >= Cardinality(Platform!Ahead(i))
<1>1. ListingTypeOK /\ UNCHANGED <<kind, asked>>
  BY RepositoryForward DEF ListingInv
<1>2. ASSUME NEW j \in Platform!Ahead(i) PROVE j \in Platform!Ahead(i)'
  <2>1. j \in Platform!Offered /\ Platform!Precedes(j, i) /\ j \in Ids
    BY <1>1, AheadIsFinite DEF Platform!Ahead
  <2>2. j \in Platform!Offered'
        /\ Platform!OrderedBy(rows[j])' >= Platform!OrderedBy(rows[j])
    BY <2>1, OfferedStays
  <2>3. Platform!OrderedBy(rows[i])' = Platform!OrderedBy(rows[i])
    BY <1>1 DEF Platform!OrderedBy, Platform!GitHubAt
  <2>4. /\ Platform!OrderedBy(rows[i]) \in Int /\ Platform!OrderedBy(rows[j]) \in Int
        /\ Platform!OrderedBy(rows[j])' \in Int
    <3>1. Platform!OrderedBy(rows[i]) \in Int /\ Platform!OrderedBy(rows[j]) \in Int
      BY <1>1, <2>1, OrderingIsDated
    <3>2. rows'[j] \in Platform!Row \cup {Platform!Absent}
      BY <2>1 DEF ListingTypeOK
    <3>3. Platform!OrderedBy(rows[j])' \in Int
      BY <3>2, RowParts DEF Platform!OrderedBy, Platform!GitHubAt
    <3> QED
      BY <3>1, <3>3
  <2>5. Platform!Precedes(j, i)'
    BY <2>1, <2>2, <2>3, <2>4 DEF Platform!Precedes
  <2> QED
    BY <2>2, <2>5 DEF Platform!Ahead
<1>3. Platform!Ahead(i) \subseteq Platform!Ahead(i)'
  BY <1>2
<1>4. /\ Cardinality(Platform!Ahead(i)) \in Nat
      /\ IsFiniteSet(Platform!Ahead(i)') /\ Cardinality(Platform!Ahead(i))' \in Nat
  <2>1. Platform!Ahead(i)' \subseteq Ids
    BY DEF Platform!Ahead, Platform!Offered, Platform!GitHubOffered, Platform!GitLabOffered,
         Platform!Present
  <2>2. IsFiniteSet(Platform!Ahead(i)')
    BY <2>1, FS_Subset, PlatformAssumption
  <2>3. Cardinality(Platform!Ahead(i)') \in Nat
    BY <2>2, FS_CardinalityType
  <2> QED
    BY <1>1, <2>2, <2>3, AheadIsFinite
<1>5. Cardinality(Platform!Ahead(i)) <= Cardinality(Platform!Ahead(i)')
  BY <1>3, <1>4, FS_Subset
<1> QED
  BY <1>4, <1>5

\* A step of the repository keeps the invariant.
LEMMA RepositoryKeeps ==
  ASSUME ListingInv, Platform!Appear \/ Platform!Touch
  PROVE  ListingInv'
<1>1. /\ \A j \in Ids : MovesForward(j)
      /\ rows' \in [Ids -> Platform!Row \cup {Platform!Absent}]
      /\ clock' \in 0 .. LastDate
      /\ phase \in {"idle", "paging"}
      /\ moves' = IF phase = "idle" THEN moves ELSE moves + 1
      /\ UNCHANGED <<kind, asked, page, got, truncated, listed, phase, before>>
  BY RepositoryForward
<1>2. ListingTypeOK'
  BY <1>1 DEF ListingInv, ListingTypeOK
<1>3. RowsAreDated'
  BY <1>1 DEF RowsAreDated, MovesForward
<1>4. RowsGoForward'
  BY <1>1, NoReturn DEF RowsGoForward
<1>5. AskedIsBounded'
  BY <1>1 DEF ListingInv, AskedIsBounded
<1>6. StandingIsAhead'
  <2> SUFFICES ASSUME phase' = "paging", ListingIsWide', NEW i \in Ids, Standing(i)', ~Excused'
               PROVE  Brought(i)' \/ Cardinality(Platform!Ahead(i))' >= page' * PAGE
    BY DEF StandingIsAhead
  <2>1. phase = "paging" /\ ListingIsWide
    BY <1>1 DEF ListingIsWide
  <2>2. Platform!Wanted(before[i]) /\ before[i] # Platform!Absent /\ rows'[i] = before[i]
    BY <1>1 DEF Standing, Platform!Wanted, Platform!At
  <2>3. rows[i] = before[i] /\ Standing(i)
    BY <2>1, <2>2, NoReturn DEF Standing
  <2>4. ~Excused
    <3> SUFFICES ASSUME asked.what = "open", NEW j \in Ids, Platform!Left(j) PROVE FALSE
      BY DEF Excused
    <3>1. Platform!Left(j)'
      BY <1>1 DEF Platform!Left, MovesForward
    <3> QED
      BY <3>1, <1>1 DEF Excused
  <2>5. Brought(i) \/ Cardinality(Platform!Ahead(i)) >= page * PAGE
    BY <2>1, <2>3, <2>4 DEF ListingInv, StandingIsAhead
  <2>6. Cardinality(Platform!Ahead(i))' >= Cardinality(Platform!Ahead(i))
    BY <1>2, <2>1, <2>2, <2>3, AheadGrows
  <2>7. /\ Cardinality(Platform!Ahead(i)) \in Nat /\ Cardinality(Platform!Ahead(i))' \in Nat
        /\ page * PAGE \in Nat
    <3>1. Cardinality(Platform!Ahead(i)) \in Nat
      BY AheadIsFinite DEF ListingInv
    <3>2. Platform!Ahead(i)' \subseteq Ids
      BY DEF Platform!Ahead, Platform!Offered, Platform!GitHubOffered, Platform!GitLabOffered,
           Platform!Present
    <3>3. Cardinality(Platform!Ahead(i)') \in Nat
      BY <3>2, FS_Subset, FS_CardinalityType, PlatformAssumption
    <3>4. page * PAGE \in Nat
      BY PlatformAssumption DEF ListingInv, ListingTypeOK
    <3> QED
      BY <3>1, <3>3, <3>4
  <2>8. CASE Brought(i)
    BY <2>8, <1>1 DEF Brought
  <2>9. CASE Cardinality(Platform!Ahead(i)) >= page * PAGE
    BY <2>6, <2>7, <2>9, <1>1
  <2> QED
    BY <2>5, <2>8, <2>9
<1>7. StandingIsBrought' /\ Platform!ListingIsWhole'
  BY <1>1 DEF StandingIsBrought, Platform!ListingIsWhole
<1>8. BroughtIsInside'
  BY <1>1 DEF ListingInv, BroughtIsInside, Platform!At
<1>9. StillIsExact'
  BY <1>1 DEF ListingInv, ListingTypeOK, StillIsExact
<1> QED
  BY <1>2, <1>3, <1>4, <1>5, <1>6, <1>7, <1>8, <1>9 DEF ListingInv

\* The listings count as everything else does.
LEMMA SameCount == \A S : Platform!Cardinality(S) = Cardinality(S)
BY DEF Cardinality, Platform!Cardinality

\* What a listing offers, and in which order, is the rows' and the question's.
LEMMA OfferedIsTheRows ==
  ASSUME UNCHANGED <<kind, rows, asked>>, NEW i
  PROVE  Platform!Offered' = Platform!Offered /\ Platform!Ahead(i)' = Platform!Ahead(i)
<1>1. Platform!Offered' = Platform!Offered
  BY DEF Platform!Offered, Platform!GitHubOffered, Platform!GitLabOffered, Platform!Present,
       Platform!gitlab_listPullRequests, Platform!gitlab_listMergedPullRequests,
       Platform!gitlab_listPipelines, Platform!gitlab_listDeployments
<1>2. \A j : Platform!Precedes(j, i)' <=> Platform!Precedes(j, i)
  BY DEF Platform!Precedes, Platform!OrderedBy, Platform!GitHubAt
<1>3. Platform!Ahead(i)' = Platform!Ahead(i)
  BY <1>1, <1>2 DEF Platform!Ahead
<1> QED
  BY <1>1, <1>3

\* A page holds offered rows as they stand, each at its place.
LEMMA PageIsOffered ==
  ASSUME ListingTypeOK, NEW p, NEW item \in Platform!Slice(p)
  PROVE  /\ item \in [place : Nat, id : Ids, row : Platform!Row]
         /\ item.id \in Platform!Offered /\ item.row = rows[item.id]
         /\ item.place = Cardinality(Platform!Ahead(item.id))
         /\ Platform!OnPage(item.id, p)
<1>1. PICK j \in Platform!Offered :
        /\ Platform!OnPage(j, p)
        /\ item = [place |-> Cardinality(Platform!Ahead(j)), id |-> j, row |-> rows[j]]
  BY SameCount DEF Platform!Slice
<1>2. j \in Ids /\ Cardinality(Platform!Ahead(j)) \in Nat
  BY AheadIsFinite
<1>3. rows[j] \in Platform!Row
  BY <1>1, <1>2 DEF ListingTypeOK, Platform!Offered, Platform!GitHubOffered,
       Platform!GitLabOffered, Platform!Present
<1> QED
  BY <1>1, <1>2, <1>3

\* A row of the window that stands still is offered.
LEMMA StandingIsOffered ==
  ASSUME ListingInv, NEW i \in Ids, Standing(i)
  PROVE  /\ i \in Platform!Offered /\ rows[i] = before[i] /\ rows[i] # Platform!Absent
         /\ asked.since = Platform!Live \/ Platform!At(rows[i]) >= asked.since
<1>1. /\ rows[i] = before[i] /\ rows[i] # Platform!Absent
      /\ asked.since = Platform!Live \/ Platform!At(rows[i]) >= asked.since
      /\ asked.what = "open" => rows[i].state = "open"
      /\ asked.what = "merged" => rows[i].merged # Platform!Never
  BY DEF Standing, Platform!Wanted
<1>2. rows[i].state = "merged" <=> rows[i].merged # Platform!Never
  BY DEF ListingInv, RowsAreDated
<1>3. asked.what \in {"open", "pipelines", "deployments", "merged"}
      /\ (asked.what = "merged" => asked.since # Platform!Live)
  BY DEF ListingInv, ListingTypeOK, AskedIsBounded, Platform!Resources
<1>4. i \in Platform!Present(rows)
  BY <1>1 DEF Platform!Present
<1>5. CASE kind = "github"
  <2>1. i \in Platform!GitHubOffered(asked.what)
    BY <1>1, <1>2, <1>3, <1>4 DEF Platform!GitHubOffered
  <2> QED
    BY <1>1, <1>5, <2>1 DEF Platform!Offered
<1>6. CASE kind # "github"
  <2>1. asked.since = Platform!Live \/ Platform!GitLabAt(asked.what, rows[i]) >= asked.since
    BY <1>1, <1>6 DEF Platform!At
  <2>2. i \in Platform!GitLabOffered(asked.what, asked.since)
    BY <1>1, <1>2, <1>3, <1>4, <2>1 DEF Platform!GitLabOffered, Platform!GitLabAt,
         Platform!gitlab_listPullRequests, Platform!gitlab_listMergedPullRequests,
         Platform!gitlab_listPipelines, Platform!gitlab_listDeployments
  <2> QED
    BY <1>1, <1>6, <2>2 DEF Platform!Offered
<1> QED
  BY <1>5, <1>6

\* One page further, a row that stands still is brought, or has a page more ahead of it.
LEMMA PageAdvances ==
  ASSUME ListingInv, phase = "paging", ListingIsWide, NEW i \in Ids, Standing(i), ~Excused
  PROVE  \/ \E item \in got \cup Platform!Slice(page + 1) : item.id = i /\ item.row = before[i]
         \/ Cardinality(Platform!Ahead(i)) >= (page + 1) * PAGE
<1>1. Brought(i) \/ Cardinality(Platform!Ahead(i)) >= page * PAGE
  BY DEF ListingInv, StandingIsAhead
<1>2. i \in Platform!Offered /\ rows[i] = before[i]
  BY StandingIsOffered
<1>3. /\ page \in Nat /\ PAGE \in Nat /\ Cardinality(Platform!Ahead(i)) \in Nat
      /\ (page + 1) * PAGE \in Nat /\ (page + 1) - 1 = page
  BY AheadIsFinite, PlatformAssumption DEF ListingInv, ListingTypeOK
<1>4. CASE Brought(i)
  BY <1>4 DEF Brought
<1>5. CASE Cardinality(Platform!Ahead(i)) >= page * PAGE
           /\ ~(Cardinality(Platform!Ahead(i)) >= (page + 1) * PAGE)
  <2>1. Platform!OnPage(i, page + 1)
    BY <1>3, <1>5, SameCount DEF Platform!OnPage
  <2>2. [place |-> Cardinality(Platform!Ahead(i)), id |-> i, row |-> rows[i]]
          \in Platform!Slice(page + 1)
    BY <1>2, <2>1, SameCount DEF Platform!Slice
  <2> QED
    BY <1>2, <2>2
<1> QED
  BY <1>1, <1>4, <1>5

\* While a row is yet to come, the next page is not empty, and holds none older.
LEMMA PageBeforeRow ==
  ASSUME ListingInv, NEW i \in Platform!Offered,
         Cardinality(Platform!Ahead(i)) >= (page + 1) * PAGE
  PROVE  /\ Platform!Slice(page + 1) # {}
         /\ \A item \in Platform!Slice(page + 1) : ~Platform!Precedes(i, item.id)
         /\ ~Platform!NoNext(page + 1)
<1>1. /\ page \in Nat /\ PAGE \in Nat \ {0} /\ Cardinality(Platform!Ahead(i)) \in Nat
      /\ ListingTypeOK
  BY AheadIsFinite, PlatformAssumption DEF ListingInv, ListingTypeOK
<1>2. /\ page * PAGE \in Nat /\ (page + 1) * PAGE \in Nat /\ (page + 1) - 1 = page
      /\ page * PAGE < (page + 1) * PAGE
  <2>1. (page + 1) * PAGE = page * PAGE + PAGE
    BY <1>1
  <2>2. page * PAGE \in Nat
    BY <1>1
  <2> QED
    BY <1>1, <2>1, <2>2
<1>3. Platform!Slice(page + 1) # {}
  <2>1. PICK m \in Platform!Offered : Cardinality(Platform!Ahead(m)) = page * PAGE
    BY <1>1, <1>2, PlacesAreFilled
  <2>2. Platform!OnPage(m, page + 1)
    BY <1>2, <2>1, SameCount DEF Platform!OnPage
  <2> QED
    BY <2>1, <2>2 DEF Platform!Slice
<1>4. ASSUME NEW item \in Platform!Slice(page + 1), Platform!Precedes(i, item.id) PROVE FALSE
  <2>1. item.id \in Platform!Offered /\ item.id \in Ids /\ Platform!OnPage(item.id, page + 1)
    BY <1>1, PageIsOffered, AheadIsFinite
  <2>2. Cardinality(Platform!Ahead(i)) < Cardinality(Platform!Ahead(item.id))
    BY <1>1, <1>4, <2>1, AheadHasFewer
  <2>3. Cardinality(Platform!Ahead(item.id)) \in Nat
    BY <1>1, AheadIsFinite
  <2> QED
    BY <1>1, <1>2, <2>1, <2>2, <2>3, SameCount DEF Platform!OnPage
<1>5. ~Platform!NoNext(page + 1)
  <2>1. Cardinality(Platform!Ahead(i)) < Cardinality(Platform!Offered)
        /\ Cardinality(Platform!Offered) \in Nat
    BY <1>1, AheadIsNotAll, AheadIsFinite
  <2> QED
    BY <1>1, <1>2, <2>1, SameCount DEF Platform!NoNext
<1> QED
  BY <1>3, <1>4, <1>5

-----------------------------------------------------------------------------
(* A page is read.                                                          *)

\* A page of either platform: what is brought is more, and what stood still
\* and is not brought has a page more ahead of it.
PageRead(last) ==
  /\ phase = "paging" /\ last \in BOOLEAN
  /\ page' = page + 1
  /\ got' \subseteq got \cup Platform!Slice(page + 1)
  /\ \A item \in got \cup Platform!Slice(page + 1) :
        asked.since = Platform!Live \/ Platform!At(item.row) >= asked.since => item \in got'
  /\ truncated' \in BOOLEAN
  /\ phase' = IF last THEN "detailing" ELSE "paging"
  /\ UNCHANGED <<kind, rows, clock, asked, listed, moves, before>>

\* A page brings the rows at its places, and nothing that stood is passed over.
LEMMA PageKeeps ==
  ASSUME ListingInv, NEW last, PageRead(last), BroughtIsInside',
         last /\ ListingIsWide =>
           \A i \in Platform!Offered :
             /\ Cardinality(Platform!Ahead(i)) >= (page + 1) * PAGE
             /\ asked.since = Platform!Live \/ Platform!At(rows[i]) >= asked.since
             => truncated'
  PROVE  ListingInv'
<1>1. /\ phase = "paging" /\ phase' \in {"paging", "detailing"} /\ page' = page + 1
      /\ (phase' = "detailing" => last)
      /\ UNCHANGED <<kind, rows, clock, asked, listed, moves, before>>
  BY DEF PageRead
<1>2. got' \subseteq got \cup Platform!Slice(page + 1)
  BY DEF PageRead
<1>3. ListingTypeOK
  BY DEF ListingInv
<1>4. ListingTypeOK'
  <2>1. \A item \in Platform!Slice(page + 1) : item \in [place : Nat, id : Ids, row : Platform!Row]
    BY <1>3, PageIsOffered
  <2>2. got' \in SUBSET [place : Nat, id : Ids, row : Platform!Row]
    BY <1>2, <1>3, <2>1 DEF ListingTypeOK
  <2> QED
    BY <1>1, <1>3, <2>2 DEF ListingTypeOK, PageRead
<1>5. RowsAreDated' /\ RowsGoForward' /\ AskedIsBounded'
  BY <1>1 DEF ListingInv, RowsAreDated, RowsGoForward, AskedIsBounded
<1>6. ASSUME ListingIsWide, NEW i \in Ids, Standing(i)', ~Excused'
      PROVE  \/ Brought(i)'
             \/ Cardinality(Platform!Ahead(i)) >= (page + 1) * PAGE
  <2>1. Standing(i) /\ ~Excused
    BY <1>1, <1>6 DEF Standing, Platform!Wanted, Platform!At, Excused, Platform!Left
  <2>2. i \in Platform!Offered /\ rows[i] = before[i]
        /\ (asked.since = Platform!Live \/ Platform!At(rows[i]) >= asked.since)
    BY <2>1, StandingIsOffered
  <2>3. CASE \E item \in got \cup Platform!Slice(page + 1) : item.id = i /\ item.row = before[i]
    <3>1. PICK item \in got \cup Platform!Slice(page + 1) : item.id = i /\ item.row = before[i]
      BY <2>3
    <3>2. item \in got'
      BY <2>2, <3>1 DEF PageRead
    <3> QED
      BY <1>1, <3>1, <3>2 DEF Brought
  <2> QED
    BY <1>1, <1>6, <2>1, <2>3, PageAdvances
<1>7. StandingIsAhead'
  <2> SUFFICES ASSUME phase' = "paging", ListingIsWide', NEW i \in Ids, Standing(i)', ~Excused'
               PROVE  Brought(i)' \/ Cardinality(Platform!Ahead(i))' >= page' * PAGE
    BY DEF StandingIsAhead
  <2>1. Platform!Ahead(i)' = Platform!Ahead(i) /\ ListingIsWide
    BY <1>1, OfferedIsTheRows DEF ListingIsWide
  <2> QED
    BY <1>1, <1>6, <2>1
<1>8. StandingIsBrought'
  <2> SUFFICES ASSUME phase' = "detailing", ListingIsWide', NEW i \in Ids, Standing(i)', ~Excused'
               PROVE  truncated' \/ Brought(i)'
    BY DEF StandingIsBrought
  <2>1. ListingIsWide /\ last
    BY <1>1 DEF ListingIsWide
  <2>2. Standing(i)
    BY <1>1 DEF Standing, Platform!Wanted, Platform!At
  <2> QED
    BY <1>6, <2>1, <2>2, StandingIsOffered
<1>9. StillIsExact'
  <2> SUFFICES ASSUME moves' = 0
               PROVE  /\ rows' = before'
                      /\ \A item \in got' : /\ item.id \in Platform!Offered'
                                            /\ item.row = rows'[item.id]
                                            /\ item.place = Cardinality(Platform!Ahead(item.id))'
    BY DEF StillIsExact
  <2>1. /\ rows = before
        /\ \A item \in got : /\ item.id \in Platform!Offered
                             /\ item.row = rows[item.id]
                             /\ item.place = Cardinality(Platform!Ahead(item.id))
    BY <1>1 DEF ListingInv, StillIsExact
  <2>2. ASSUME NEW item \in got'
        PROVE  /\ item.id \in Platform!Offered'
               /\ item.row = rows'[item.id]
               /\ item.place = Cardinality(Platform!Ahead(item.id))'
    <3>1. /\ item.id \in Platform!Offered
          /\ item.row = rows[item.id]
          /\ item.place = Cardinality(Platform!Ahead(item.id))
      BY <1>2, <1>3, <2>1, PageIsOffered
    <3>2. Platform!Offered' = Platform!Offered
          /\ Platform!Ahead(item.id)' = Platform!Ahead(item.id)
      BY <1>1, OfferedIsTheRows
    <3> QED
      BY <1>1, <3>1, <3>2
  <2> QED
    BY <1>1, <2>1, <2>2
<1>10. Platform!ListingIsWhole'
  BY <1>1 DEF Platform!ListingIsWhole
<1> QED
  BY <1>4, <1>5, <1>7, <1>8, <1>9, <1>10 DEF ListingInv

\* The bound is a date, and a row brought has one.
LEMMA ItemsAreDated ==
  ASSUME ListingTypeOK, NEW item \in got \cup Platform!Slice(page + 1)
  PROVE  /\ Platform!GitHubAt(asked.what, item.row) \in Int
         /\ Platform!GitLabAt(asked.what, item.row) \in Int
         /\ asked.since \in Int
<1>1. item.row \in Platform!Row
  BY PageIsOffered DEF ListingTypeOK
<1> QED
  BY <1>1, RowParts, PlatformAssumption
     DEF ListingTypeOK, Platform!GitHubAt, Platform!GitLabAt, Platform!Live

\* A page of GitHub keeps the invariant, the last one included.
LEMMA GitHubKeeps ==
  ASSUME ListingInv, Platform!pagesDownTo
  PROVE  ListingInv'
<1> DEFINE next == Platform!Slice(page + 1)
           stale(item) == Platform!GitHubAt(asked.what, item.row) < asked.since
           met == next = {} \/ \E item \in next : stale(item)
           last == \/ /\ asked.since = Platform!Live
                      /\ asked.what = "open" => Platform!NoNext(page + 1)
                   \/ asked.since # Platform!Live /\ (met \/ page + 1 = MAX_PAGES)
<1>1. /\ kind = "github" /\ phase = "paging" /\ page' = page + 1
      /\ truncated' = (last /\ asked.since # Platform!Live /\ ~met)
      /\ got' = IF last /\ asked.since # Platform!Live
                  THEN {item \in got \cup next : ~stale(item)} ELSE got \cup next
      /\ phase' = IF last THEN "detailing" ELSE "paging"
      /\ UNCHANGED <<kind, rows, clock, asked, listed, moves, before>>
  BY DEF Platform!pagesDownTo, Platform!older
<1>2. ListingTypeOK /\ AskedIsBounded
  BY DEF ListingInv
<1>3. \A item \in got \cup next :
        /\ Platform!At(item.row) = Platform!GitHubAt(asked.what, item.row)
        /\ stale(item) <=> ~(Platform!At(item.row) >= asked.since)
  BY <1>1, <1>2, ItemsAreDated DEF Platform!At
<1>4. PageRead(last)
  <2>1. \A item \in got \cup next :
           asked.since = Platform!Live \/ Platform!At(item.row) >= asked.since => item \in got'
    BY <1>1, <1>3
  <2> QED
    BY <1>1, <2>1 DEF PageRead
<1>5. BroughtIsInside'
  <2> SUFFICES ASSUME phase' = "detailing", NEW item \in got', asked.since # Platform!Live
               PROVE  Platform!At(item.row)' >= asked'.since
    BY <1>1 DEF BroughtIsInside
  <2>1. last
    BY <1>1
  <2>2. item \in got \cup next /\ ~stale(item)
    BY <1>1, <2>1
  <2>3. Platform!At(item.row)' = Platform!At(item.row)
    BY <1>1 DEF Platform!At
  <2> QED
    BY <1>1, <1>3, <2>2, <2>3
<1>6. ASSUME last, ListingIsWide, NEW i \in Platform!Offered,
             Cardinality(Platform!Ahead(i)) >= (page + 1) * PAGE,
             asked.since = Platform!Live \/ Platform!At(rows[i]) >= asked.since
      PROVE  truncated'
  <2>1. /\ next # {} /\ \A item \in next : ~Platform!Precedes(i, item.id)
        /\ ~Platform!NoNext(page + 1)
    BY <1>6, PageBeforeRow
  <2>2. asked.since # Platform!Live
    BY <1>6, <2>1 DEF ListingIsWide
  <2>3. ASSUME NEW item \in next, stale(item) PROVE FALSE
    <3>1. item.row = rows[item.id] /\ item.id \in Ids /\ i \in Ids
      BY <1>2, PageIsOffered, AheadIsFinite
    <3>2. Platform!OrderedBy(rows[i]) > Platform!OrderedBy(rows[item.id])
      <4>1. /\ Platform!OrderedBy(rows[i]) = Platform!At(rows[i])
            /\ Platform!OrderedBy(rows[item.id]) = Platform!GitHubAt(asked.what, item.row)
        BY <1>1, <3>1 DEF Platform!OrderedBy, Platform!At
      <4>2. Platform!OrderedBy(rows[i]) \in Int /\ Platform!OrderedBy(rows[item.id]) \in Int
            /\ asked.since \in Int
        BY <1>2, <3>1, OrderingIsDated, ItemsAreDated
      <4> QED
        BY <1>6, <2>2, <2>3, <4>1, <4>2
    <3> QED
      BY <2>1, <3>2 DEF Platform!Precedes
  <2>4. ~met
    BY <2>1, <2>3
  <2> QED
    BY <1>1, <1>6, <2>2, <2>4
<1> HIDE DEF last
<1> QED
  BY <1>4, <1>5, <1>6, PageKeeps

\* A page of GitLab keeps the invariant, the last one included.
LEMMA GitLabKeeps ==
  ASSUME ListingInv, Platform!GitLabPage
  PROVE  ListingInv'
<1> DEFINE next == Platform!Slice(page + 1)
           last == Platform!NoNext(page + 1) \/ page + 1 = Platform!bound
<1>1. /\ kind = "gitlab" /\ phase = "paging" /\ page' = page + 1
      /\ got' = got \cup next
      /\ truncated' = (last /\ asked.what # "open" /\ Platform!reportIfTruncated(got \cup next))
      /\ phase' = IF last THEN "detailing" ELSE "paging"
      /\ UNCHANGED <<kind, rows, clock, asked, listed, moves, before>>
  BY DEF Platform!GitLabPage
<1>2. ListingTypeOK /\ AskedIsBounded /\ BroughtIsInside
  BY DEF ListingInv
<1>3. PageRead(last)
  BY <1>1 DEF PageRead, Platform!reportIfTruncated
<1>4. \A item \in got \cup next :
        asked.since = Platform!Live \/ Platform!At(item.row) >= asked.since
  <2> SUFFICES ASSUME NEW item \in next, asked.since # Platform!Live
               PROVE  Platform!At(item.row) >= asked.since
    BY <1>1, <1>2 DEF BroughtIsInside
  <2>1. item.id \in Platform!GitLabOffered(asked.what, asked.since) /\ item.row = rows[item.id]
    BY <1>1, <1>2, PageIsOffered DEF Platform!Offered
  <2>2. asked.what \in {"pipelines", "deployments", "merged"}
    BY <1>2 DEF ListingTypeOK, AskedIsBounded, Platform!Resources
  <2>3. Platform!At(item.row) = Platform!GitLabAt(asked.what, item.row)
    BY <1>1 DEF Platform!At
  <2> QED
    BY <2>1, <2>2, <2>3 DEF Platform!GitLabAt, Platform!GitLabOffered,
         Platform!gitlab_listMergedPullRequests, Platform!gitlab_listPipelines,
         Platform!gitlab_listDeployments
<1>5. BroughtIsInside'
  <2>1. \A item \in got' : Platform!At(item.row)' = Platform!At(item.row)
    BY <1>1 DEF Platform!At
  <2> QED
    BY <1>1, <1>4, <2>1 DEF BroughtIsInside
<1>6. ASSUME last, ListingIsWide, NEW i \in Platform!Offered,
             Cardinality(Platform!Ahead(i)) >= (page + 1) * PAGE
      PROVE  truncated'
  <2>1. next # {} /\ ~Platform!NoNext(page + 1)
    BY <1>6, PageBeforeRow
  <2>2. page + 1 = Platform!bound
    BY <1>6, <2>1
  <2>3. asked.what # "open"
    <3> SUFFICES ASSUME asked.what = "open" PROVE FALSE
      OBVIOUS
    <3>1. page + 1 = Cardinality(Ids) + 1
      BY <2>2, SameCount DEF Platform!bound
    <3>2. Cardinality(Platform!Ahead(i)) \in Nat /\ Cardinality(Platform!Ahead(i)) < Cardinality(Ids)
          /\ Cardinality(Ids) \in Nat
      <4>1. /\ Cardinality(Platform!Ahead(i)) < Cardinality(Platform!Offered)
            /\ Cardinality(Platform!Ahead(i)) \in Nat /\ Cardinality(Platform!Offered) \in Nat
            /\ Cardinality(Platform!Offered) <= Cardinality(Ids) /\ Cardinality(Ids) \in Nat
        BY <1>2, AheadIsNotAll, AheadIsFinite
      <4> QED
        BY <4>1
    <3>3. (page + 1) * PAGE >= page + 1
      <4>1. \A m, n \in Nat \ {0} : m * n >= m
        OBVIOUS
      <4>2. page + 1 \in Nat \ {0} /\ PAGE \in Nat \ {0}
        BY <1>2, PlatformAssumption DEF ListingTypeOK
      <4> QED
        BY <4>1, <4>2
    <3>4. (page + 1) * PAGE \in Nat /\ page + 1 \in Nat
      BY <1>2, PlatformAssumption DEF ListingTypeOK
    <3> HIDE DEF last
    <3> QED
      BY <1>6, <3>1, <3>2, <3>3, <3>4
  <2>4. asked.since # Platform!Live
    BY <1>6, <2>3 DEF ListingIsWide
  <2>5. ASSUME NEW item \in got \cup next
        PROVE  ~(Platform!GitLabAt(asked.what, item.row) < asked.since)
    <3>1. Platform!GitLabAt(asked.what, item.row) >= asked.since
      BY <1>1, <1>4, <2>4 DEF Platform!At
    <3> QED
      BY <1>2, <3>1, ItemsAreDated
  <2>6. Platform!reportIfTruncated(got \cup next)
    BY <2>1, <2>4, <2>5 DEF Platform!reportIfTruncated
  <2> QED
    BY <1>1, <1>6, <2>3, <2>6
<1> HIDE DEF last
<1> QED
  BY <1>3, <1>5, <1>6, PageKeeps

\* A listing starts anew over the rows of the moment.
LEMMA AskKeeps ==
  ASSUME ListingInv, Platform!Ask
  PROVE  ListingInv'
<1>1. PICK what \in Platform!Resources, since_ \in {Platform!Live} \cup 0 .. LastDate :
        /\ phase \in {"idle", "done", "failed"}
        /\ what = "open" => since_ = Platform!Live
        /\ what = "merged" => since_ # Platform!Live
        /\ asked' = [what |-> what, since |-> since_]
        /\ page' = 0 /\ got' = {} /\ truncated' = FALSE /\ listed' = {}
        /\ phase' = "paging" /\ moves' = 0 /\ before' = rows
        /\ UNCHANGED <<kind, rows, clock>>
  BY DEF Platform!Ask
<1>2. ListingTypeOK' /\ RowsAreDated'
  BY <1>1 DEF ListingInv, ListingTypeOK, RowsAreDated
<1>3. RowsGoForward'
  <2>1. \A i \in Ids : rows[i].updated \in Int
    BY RowParts DEF ListingInv, ListingTypeOK
  <2> QED
    BY <1>1, <2>1 DEF RowsGoForward
<1>4. AskedIsBounded'
  BY <1>1 DEF AskedIsBounded
<1>5. StandingIsAhead'
  <2> SUFFICES ASSUME NEW i \in Ids PROVE Cardinality(Platform!Ahead(i))' >= page' * PAGE
    BY DEF StandingIsAhead
  <2>1. Platform!Ahead(i)' \subseteq Ids
    BY DEF Platform!Ahead, Platform!Offered, Platform!GitHubOffered, Platform!GitLabOffered,
         Platform!Present
  <2>2. Cardinality(Platform!Ahead(i)') \in Nat
    BY <2>1, FS_Subset, FS_CardinalityType, PlatformAssumption
  <2>3. page' * PAGE = 0
    BY <1>1, PlatformAssumption
  <2> QED
    BY <2>2, <2>3
<1>6. /\ StandingIsBrought' /\ BroughtIsInside' /\ StillIsExact' /\ Platform!ListingIsWhole'
  BY <1>1 DEF StandingIsBrought, BroughtIsInside, StillIsExact, Platform!ListingIsWhole
<1> QED
  BY <1>2, <1>3, <1>4, <1>5, <1>6 DEF ListingInv

\* The answer is handed over: a row may have waited for its own call or not.
LEMMA DetailKeeps ==
  ASSUME ListingInv, Platform!Detail
  PROVE  ListingInv'
<1> DEFINE needs == \/ Platform!deploymentStatus \/ Platform!github_segments
                    \/ Platform!gitlab_segments
<1>1. PICK answered \in SUBSET got :
        /\ phase = "detailing"
        /\ listed' = {Platform!Handed(item, IF ~needs THEN "own"
                         ELSE IF item \in answered THEN "read" ELSE "none") :
                       item \in {x \in got : Platform!Kept(x)}}
        /\ phase' = "done" /\ got' = {}
        /\ UNCHANGED <<kind, rows, clock, asked, page, truncated, moves, before>>
  BY DEF Platform!Detail
<1> DEFINE said(item) == IF ~needs THEN "own" ELSE IF item \in answered THEN "read" ELSE "none"
<1>2. /\ ListingTypeOK /\ RowsAreDated /\ RowsGoForward /\ AskedIsBounded
      /\ StandingIsBrought /\ BroughtIsInside /\ StillIsExact
  BY DEF ListingInv
<1>3. listed' = {Platform!Handed(item, said(item)) : item \in {x \in got : Platform!Kept(x)}}
  BY <1>1
<1>4. \A item : said(item) \in {"own", "read", "none"}
  OBVIOUS
<1> HIDE DEF said
<1>5. ListingTypeOK'
  <2>1. listed' \in SUBSET [place : Nat, id : Ids, row : Platform!Row,
                           detail : {"own", "read", "none"}]
    BY <1>2, <1>3, <1>4 DEF Platform!Handed, ListingTypeOK
  <2> QED
    BY <1>1, <1>2, <2>1 DEF ListingTypeOK
<1>6. RowsAreDated' /\ RowsGoForward' /\ AskedIsBounded'
  BY <1>1, <1>2 DEF RowsAreDated, RowsGoForward, AskedIsBounded
<1>7. StandingIsAhead' /\ StandingIsBrought' /\ BroughtIsInside'
  BY <1>1 DEF StandingIsAhead, StandingIsBrought, BroughtIsInside
<1>8. StillIsExact'
  BY <1>1, <1>2 DEF StillIsExact
<1>9. ASSUME ListingIsWide, NEW i \in Ids, Platform!Wanted(before[i]), rows[i] = before[i]
      PROVE  truncated \/ (\E item \in listed' : item.id = i) \/ Excused
  <2>1. truncated \/ Excused \/ Brought(i)
    BY <1>1, <1>2, <1>9 DEF StandingIsBrought, Standing
  <2>2. CASE Brought(i)
    <3>1. PICK item \in got : item.id = i /\ item.row = before[i]
      BY <2>2 DEF Brought
    <3>2. Platform!Kept(item)
      BY <1>9, <3>1 DEF Platform!Kept, Platform!Wanted
    <3>3. Platform!Handed(item, said(item)) \in listed'
      BY <1>3, <3>1, <3>2
    <3>4. Platform!Handed(item, said(item)).id = i
      BY <3>1 DEF Platform!Handed
    <3> QED
      BY <3>3, <3>4
  <2> QED
    BY <2>1, <2>2
<1>10. ASSUME moves = 0
       PROVE  /\ \A x, y \in listed' : x.id = y.id => x = y
              /\ \A item \in listed' : Platform!Wanted(before[item.id])
  <2>1. /\ rows = before
        /\ \A item \in got : /\ item.id \in Platform!Offered
                             /\ item.row = rows[item.id]
                             /\ item.place = Cardinality(Platform!Ahead(item.id))
    BY <1>1, <1>2, <1>10 DEF StillIsExact
  <2>2. \A a, b \in got : a.id = b.id => a = b
    <3> SUFFICES ASSUME NEW a \in got, NEW b \in got, a.id = b.id PROVE a = b
      OBVIOUS
    <3>1. a.row = b.row /\ a.place = b.place
      BY <2>1
    <3>2. a \in [place : Nat, id : Ids, row : Platform!Row] /\ b \in [place : Nat, id : Ids, row : Platform!Row]
      BY <1>2 DEF ListingTypeOK
    <3> QED
      BY <3>1, <3>2
  <2>3. ASSUME NEW x \in listed', NEW y \in listed', x.id = y.id PROVE x = y
    <3>1. PICK a \in got : x = Platform!Handed(a, said(a))
      BY <1>3
    <3>2. PICK b \in got : y = Platform!Handed(b, said(b))
      BY <1>3
    <3>3. a.id = b.id
      BY <2>3, <3>1, <3>2 DEF Platform!Handed
    <3>4. a = b
      BY <2>2, <3>3
    <3> QED
      BY <3>1, <3>2, <3>4
  <2>4. ASSUME NEW x \in listed' PROVE Platform!Wanted(before[x.id])
    <3>1. PICK item \in got : Platform!Kept(item) /\ x = Platform!Handed(item, said(item))
      BY <1>3
    <3>2. /\ x.id = item.id /\ item.row = before[item.id] /\ item.id \in Platform!Offered
          /\ before[item.id] = rows[item.id]
      BY <2>1, <3>1 DEF Platform!Handed
    <3>3. asked.since = Platform!Live \/ Platform!At(item.row) >= asked.since
      BY <1>1, <1>2 DEF BroughtIsInside
    <3>4. item.row # Platform!Absent
      BY <3>2 DEF Platform!Offered, Platform!GitHubOffered, Platform!GitLabOffered, Platform!Present
    <3>5. asked.what = "open" => item.row.state = "open"
      BY <3>2 DEF Platform!Offered, Platform!GitHubOffered, Platform!GitLabOffered,
           Platform!gitlab_listPullRequests
    <3>6. asked.what = "merged" => item.row.merged # Platform!Never /\ item.row.merged >= asked.since
      BY <3>1 DEF Platform!Kept
    <3> QED
      BY <3>2, <3>3, <3>4, <3>5, <3>6 DEF Platform!Wanted
  <2> QED
    BY <2>3, <2>4
<1>11. Platform!ListingIsWhole'
  <2>1. \A i \in Ids : /\ Platform!Wanted(before[i])' <=> Platform!Wanted(before[i])
                       /\ Platform!Left(i)' <=> Platform!Left(i)
    BY <1>1 DEF Platform!Wanted, Platform!At, Platform!Left
  <2>2. ASSUME asked'.since # Platform!Live \/ asked'.what = "open",
               NEW i \in Ids, Platform!Wanted(before[i])', rows'[i] = before'[i]
        PROVE  \/ truncated' \/ \E item \in listed' : item.id = i
               \/ asked'.what = "open" /\ \E j \in Ids : Platform!Left(j)'
    BY <1>1, <1>9, <2>1, <2>2 DEF ListingIsWide, Excused
  <2>3. ASSUME moves' = 0
        PROVE  /\ \A x, y \in listed' : x.id = y.id => x = y
               /\ \A item \in listed' : Platform!Wanted(before[item.id])'
    <3>1. \A item \in listed' : item.id \in Ids
      BY <1>5 DEF ListingTypeOK
    <3> QED
      BY <1>1, <1>10, <2>1, <2>3, <3>1
  <2> QED
    BY <2>2, <2>3 DEF Platform!ListingIsWhole
<1> QED
  BY <1>5, <1>6, <1>7, <1>8, <1>11 DEF ListingInv

\* A listing that fails hands nothing over.
LEMMA FailKeeps ==
  ASSUME ListingInv, Platform!Fail
  PROVE  ListingInv'
<1>1. /\ phase' = "failed" /\ listed' = {} /\ got' = {}
      /\ UNCHANGED <<kind, rows, clock, asked, page, truncated, moves, before>>
  BY DEF Platform!Fail
<1> QED
  BY <1>1 DEF ListingInv, ListingTypeOK, RowsAreDated, RowsGoForward, AskedIsBounded,
     StandingIsAhead, StandingIsBrought, BroughtIsInside, StillIsExact, Platform!ListingIsWhole

\* The invariant holds at first.
LEMMA ListingStarts ==
  ASSUME Platform!Init
  PROVE  ListingInv
<1>1. /\ kind \in Kinds /\ rows = [i \in Ids |-> Platform!Absent] /\ clock = 0
      /\ asked = [what |-> "open", since |-> Platform!Live]
      /\ page = 0 /\ got = {} /\ truncated = FALSE
      /\ listed = {} /\ phase = "idle" /\ moves = 0 /\ before = rows
  BY DEF Platform!Init
<1>2. ListingTypeOK
  <2>1. rows \in [Ids -> Platform!Row \cup {Platform!Absent}]
    BY <1>1
  <2>2. asked \in [what : Platform!Resources, since : {Platform!Live} \cup 0 .. LastDate]
    BY <1>1 DEF Platform!Resources
  <2>3. clock \in 0 .. LastDate
    BY <1>1, PlatformAssumption
  <2>4. got \in SUBSET [place : Nat, id : Ids, row : Platform!Row]
        /\ listed \in SUBSET [place : Nat, id : Ids, row : Platform!Row,
                              detail : {"own", "read", "none"}]
    BY <1>1
  <2>5. page \in Nat /\ truncated \in BOOLEAN /\ moves \in Nat
        /\ phase \in {"idle", "paging", "detailing", "done", "failed"}
    BY <1>1
  <2>6. before \in [Ids -> Platform!Row \cup {Platform!Absent}] /\ kind \in Kinds
    BY <1>1, <2>1
  <2> QED
    BY <2>1, <2>2, <2>3, <2>4, <2>5, <2>6 DEF ListingTypeOK
<1>3. RowsAreDated
  BY <1>1 DEF RowsAreDated, Platform!Absent, Platform!Never
<1> QED
  BY <1>1, <1>2, <1>3 DEF ListingInv, RowsGoForward, AskedIsBounded,
     StandingIsAhead, StandingIsBrought, BroughtIsInside, StillIsExact, Platform!ListingIsWhole

\* Every step of the platform and of its listing keeps it.
LEMMA ListingNext ==
  ASSUME ListingInv, Platform!Next
  PROVE  ListingInv'
<1>1. CASE Platform!Appear \/ Platform!Touch
  BY <1>1, RepositoryKeeps
<1>2. CASE Platform!Ask
  BY <1>2, AskKeeps
<1>3. CASE Platform!pagesDownTo
  BY <1>3, GitHubKeeps
<1>4. CASE Platform!GitLabPage
  BY <1>4, GitLabKeeps
<1>5. CASE Platform!Detail
  BY <1>5, DetailKeeps
<1>6. CASE Platform!Fail
  BY <1>6, FailKeeps
<1> QED
  BY <1>1, <1>2, <1>3, <1>4, <1>5, <1>6 DEF Platform!Next

\* A step that leaves the platform alone keeps it.
LEMMA ListingRests ==
  ASSUME ListingInv, UNCHANGED <<kind, ofPlatform>>
  PROVE  ListingInv'
<1>1. UNCHANGED <<kind, rows, clock, asked, page, got, truncated, listed, phase, moves, before>>
  BY DEF ofPlatform
<1>2. \A i \in Ids : Platform!Ahead(i)' = Platform!Ahead(i)
  BY <1>1, OfferedIsTheRows
<1>3. \A i \in Ids : /\ Platform!Wanted(before[i])' <=> Platform!Wanted(before[i])
                     /\ Platform!Left(i)' <=> Platform!Left(i)
  BY <1>1 DEF Platform!Wanted, Platform!At, Platform!Left
<1> QED
  BY <1>1, <1>2, <1>3, OfferedIsTheRows DEF ListingInv, ListingTypeOK, RowsAreDated, RowsGoForward,
     AskedIsBounded, StandingIsAhead, StandingIsBrought, BroughtIsInside, StillIsExact, Standing,
     Excused, Brought, ListingIsWide, Platform!At, Platform!ListingIsWhole, Platform!Wanted

-----------------------------------------------------------------------------
(* What an event makes of an object, and what a listing makes of it          *)
(* (EventMappers).                                                            *)

\* An object, as its platform holds it.
ObjectOK(o) ==
  /\ o.created \in Nat /\ o.updated \in Nat /\ o.created <= o.updated
  /\ o.what \in Mappers!Things /\ o.id = 1

\* What was told and what was listed are each of an object the platform held,
\* the listing not of a request closed without a merge.
TellingInv ==
  /\ kind \in Kinds
  /\ ObjectOK(object)
  /\ event.sent => /\ ObjectOK(event.of)
                   /\ event.row = Mappers!Intent(event.of, event.given)
  /\ row.sent => /\ ObjectOK(row.of)
                 /\ row.row = Mappers!ListedRow(row.of)
                 /\ ~ (row.of.what = "request" /\ row.of.merged = Mappers!Never
                         /\ row.of.state \in {"closed", "locked"})

\* What an event and a listing each make of one object.
Agrees(o, given, e, l) ==
  /\ e.id = l.id
  /\ \/ e.state = l.state
     \/ o.merged # Mappers!Never /\ "merged_at" \notin given
     \/ o.draft /\ "draft" \notin given /\ o.merged = Mappers!Never /\ e.state = "open"
  /\ \/ e.created = l.created
     \/ kind = "gitlab" /\ o.what = "deployment" /\ e.created >= l.created
  /\ e.updated <= l.updated \/ o.what = "deployment"
  /\ "updated_at" \in given =>
       \/ e.updated = l.updated \/ o.what = "deployment"
       \/ kind = "gitlab" /\ o.what = "run" /\ ~Mappers!Settled(o.state)

\* A request: the two platforms' payloads are read alike.
LEMMA RequestsAgree ==
  ASSUME NEW o, ObjectOK(o), NEW given, o.what = "request",
         ~ (o.merged = Mappers!Never /\ o.state \in {"closed", "locked"})
  PROVE  Agrees(o, given, Mappers!FromRequest(o, given), Mappers!ListedRow(o))
<1> DEFINE e == Mappers!FromRequest(o, given)
           l == Mappers!ListedRow(o)
           merged == Mappers!asString("merged_at", given, o.merged)
<1>1. /\ l.id = o.id /\ l.created = o.created /\ l.updated = o.updated
      /\ l.state = IF o.merged # Mappers!Never THEN "merged"
                   ELSE IF o.draft THEN "draft" ELSE "open"
  BY DEF Mappers!ListedRow
<1>2. /\ e.id = o.id /\ e.created = o.created
      /\ e.updated = IF "updated_at" \in given THEN o.updated ELSE o.created
      /\ e.state = Mappers!pullRequestState(o.state, o.draft /\ "draft" \in given, merged)
  BY DEF Mappers!FromRequest, Mappers!asString, Mappers!Never, ObjectOK
<1>3. \/ e.state = l.state
      \/ o.merged # Mappers!Never /\ "merged_at" \notin given
      \/ o.draft /\ "draft" \notin given /\ o.merged = Mappers!Never /\ e.state = "open"
  BY <1>1, <1>2 DEF Mappers!pullRequestState, Mappers!asString
<1> HIDE DEF e, l
<1>4. e.updated <= l.updated
  BY <1>1, <1>2 DEF ObjectOK
<1> QED
  BY <1>1, <1>2, <1>3, <1>4 DEF Agrees, e, l

\* A run: GitHub's by its conclusion, GitLab's by its status.
LEMMA RunsAgree ==
  ASSUME NEW o, ObjectOK(o), NEW given, o.what = "run"
  PROVE  /\ kind = "github" => Agrees(o, given, Mappers!gitHubWorkflowRun(o, given), Mappers!ListedRow(o))
         /\ kind = "gitlab" => Agrees(o, given, Mappers!gitLabPipeline(o, given), Mappers!ListedRow(o))
<1> DEFINE l == Mappers!ListedRow(o)
           g == Mappers!gitHubWorkflowRun(o, given)
           p == Mappers!gitLabPipeline(o, given)
<1>1. /\ l.id = o.id /\ l.created = o.created /\ l.updated = o.updated
      /\ kind = "github" => l.state = Mappers!mapGitHubStatus(o.state, o.conclusion)
      /\ kind = "gitlab" => l.state = Mappers!mapGitLabStatus(o.state)
  BY DEF Mappers!ListedRow
<1>2. /\ g.id = o.id /\ g.created = o.created
      /\ g.updated = IF "updated_at" \in given THEN o.updated ELSE o.created
      /\ g.state = Mappers!mapGitHubStatus(o.state, o.conclusion)
  BY DEF Mappers!gitHubWorkflowRun, Mappers!asString, Mappers!Never, ObjectOK
<1>3. /\ p.id = o.id /\ p.created = o.created
      /\ p.updated = IF Mappers!Settled(o.state) /\ "updated_at" \in given
                     THEN o.updated ELSE o.created
      /\ p.state = Mappers!mapGitLabStatus(o.state)
  BY DEF Mappers!gitLabPipeline
<1> HIDE DEF l, g, p
<1>4. g.updated <= l.updated /\ p.updated <= l.updated
  BY <1>1, <1>2, <1>3 DEF ObjectOK
<1>5. kind = "github" => Agrees(o, given, g, l)
  BY <1>1, <1>2, <1>4 DEF Agrees
<1>6. kind = "gitlab" => Agrees(o, given, p, l)
  BY <1>1, <1>3, <1>4 DEF Agrees
<1> QED
  BY <1>5, <1>6 DEF l, g, p

\* A deployment: GitLab's payload dates the change of its status.
LEMMA DeploymentsAgree ==
  ASSUME NEW o, ObjectOK(o), NEW given, o.what = "deployment"
  PROVE  /\ kind = "github" => Agrees(o, given, Mappers!gitHubDeployment(o, given), Mappers!ListedRow(o))
         /\ kind = "gitlab" => Agrees(o, given, Mappers!gitLabDeployment(o, given), Mappers!ListedRow(o))
<1> DEFINE l == Mappers!ListedRow(o)
           g == Mappers!gitHubDeployment(o, given)
           p == Mappers!gitLabDeployment(o, given)
<1>1. /\ l.id = o.id /\ l.created = o.created
      /\ kind = "github" => l.state = Mappers!mapGitHubDeploymentState(o.state)
      /\ kind = "gitlab" => l.state = Mappers!mapGitLabStatus(o.state)
  BY DEF Mappers!ListedRow
<1>2. /\ g.id = o.id /\ g.created = o.created
      /\ g.state = Mappers!mapGitHubDeploymentState(o.state)
  BY DEF Mappers!gitHubDeployment
<1>3. /\ p.id = o.id /\ p.created = o.updated
      /\ p.state = Mappers!mapGitLabStatus(o.state)
  BY DEF Mappers!gitLabDeployment
<1> HIDE DEF l, g, p
<1>4. p.created >= l.created
  BY <1>1, <1>3 DEF ObjectOK
<1>5. kind = "github" => Agrees(o, given, g, l)
  BY <1>1, <1>2 DEF Agrees
<1>6. kind = "gitlab" => Agrees(o, given, p, l)
  BY <1>1, <1>3, <1>4 DEF Agrees
<1> QED
  BY <1>5, <1>6 DEF l, g, p

\* What was told of an object agrees with what was listed of it.
LEMMA TellingAgrees ==
  ASSUME TellingInv
  PROVE  Mappers!EventsAgreeWithListings
<1> SUFFICES ASSUME event.sent, row.sent, event.of = row.of, event.row # Mappers!NoRow
             PROVE  Agrees(event.of, event.given, event.row, row.row)
  BY DEF Mappers!EventsAgreeWithListings, Agrees
<1> DEFINE o == event.of
           given == event.given
<1>1. /\ ObjectOK(o) /\ row.row = Mappers!ListedRow(o)
      /\ ~ (o.what = "request" /\ o.merged = Mappers!Never /\ o.state \in {"closed", "locked"})
      /\ event.row = Mappers!Intent(o, given)
      /\ kind \in {"github", "gitlab"} /\ o.what \in {"request", "run", "deployment"}
  BY PlatformAssumption DEF TellingInv, ObjectOK, Mappers!Things
<1>2. event.row = IF kind = "github" THEN Mappers!toGitHubIntent(o, given)
                  ELSE Mappers!toGitLabIntent(o, given)
  BY <1>1 DEF Mappers!Intent
<1> HIDE DEF o, given
<1>3. CASE o.what = "request"
  <2>1. event.row = Mappers!FromRequest(o, given)
    BY <1>2, <1>3 DEF Mappers!toGitHubIntent, Mappers!toGitLabIntent,
         Mappers!gitHubPullRequest, Mappers!gitLabMergeRequest
  <2>2. Agrees(o, given, event.row, row.row)
    BY <1>1, <1>3, <2>1, RequestsAgree
  <2> QED
    BY <2>2 DEF o, given
<1>4. CASE o.what = "run"
  <2>1. event.row = IF kind = "github" THEN Mappers!gitHubWorkflowRun(o, given)
                    ELSE Mappers!gitLabPipeline(o, given)
    BY <1>2, <1>4 DEF Mappers!toGitHubIntent, Mappers!toGitLabIntent
  <2>2. Agrees(o, given, event.row, row.row)
    BY <1>1, <1>4, <2>1, RunsAgree
  <2> QED
    BY <2>2 DEF o, given
<1>5. CASE o.what = "deployment"
  <2>1. event.row = IF kind = "github" THEN Mappers!gitHubDeployment(o, given)
                    ELSE Mappers!gitLabDeployment(o, given)
    BY <1>2, <1>5 DEF Mappers!toGitHubIntent, Mappers!toGitLabIntent
  <2>2. Agrees(o, given, event.row, row.row)
    BY <1>1, <1>5, <2>1, DeploymentsAgree
  <2> QED
    BY <2>2 DEF o, given
<1> QED
  BY <1>1, <1>3, <1>4, <1>5

\* What was told and listed holds at first: neither was.
LEMMA TellingStarts ==
  ASSUME Mappers!Init
  PROVE  TellingInv
<1>1. PICK what \in Mappers!Things : \E state, draft :
        object = Mappers!Object(what, state, Mappers!None, draft, 0, 0, Mappers!Never)
  BY DEF Mappers!Init
<1>2. ~event.sent /\ ~row.sent /\ kind \in Kinds
  BY DEF Mappers!Init, Mappers!Nothing
<1>3. ObjectOK(object)
  BY <1>1 DEF Mappers!Object, ObjectOK
<1> QED
  BY <1>2, <1>3 DEF TellingInv

\* Every step of an object and of its readings keeps it.
LEMMA TellingNext ==
  ASSUME TellingInv, Mappers!Next
  PROVE  TellingInv'
<1>1. CASE Mappers!Move
  <2>1. PICK at_ \in object.updated .. LastDate : \E state, conclusion, draft, merged :
          /\ object' = Mappers!Object(object.what, state, conclusion, draft, object.created,
                                      at_, merged)
          /\ UNCHANGED <<kind, event, row>>
    BY <1>1 DEF Mappers!Move
  <2>2. ObjectOK(object)'
    BY <2>1, PlatformAssumption DEF TellingInv, ObjectOK, Mappers!Object
  <2> QED
    BY <2>1, <2>2 DEF TellingInv, Mappers!Intent, Mappers!ListedRow, Mappers!toGitHubIntent
<1>2. CASE Mappers!Receive
  <2>1. PICK given :
          /\ event' = [sent |-> TRUE, of |-> object, row |-> Mappers!Intent(object, given),
                       given |-> given]
          /\ UNCHANGED <<kind, object, row>>
    BY <1>2 DEF Mappers!Receive
  <2>2. /\ event'.of = object /\ event'.given = given
        /\ event'.row = Mappers!Intent(object, given)
    BY <2>1
  <2>3. Mappers!Intent(object, given)' = Mappers!Intent(object, given)
    BY <2>1 DEF Mappers!Intent
  <2> QED
    BY <2>1, <2>2, <2>3 DEF TellingInv, Mappers!Intent, Mappers!ListedRow
<1>3. CASE Mappers!List
  <2>1. /\ ~ (object.what = "request" /\ object.merged = Mappers!Never
                /\ object.state \in {"closed", "locked"})
        /\ row' = [sent |-> TRUE, of |-> object, row |-> Mappers!ListedRow(object),
                   given |-> Mappers!Optional \cup Mappers!Required]
        /\ UNCHANGED <<kind, object, event>>
    BY <1>3 DEF Mappers!List
  <2>2. row'.of = object /\ row'.row = Mappers!ListedRow(object)
    BY <2>1
  <2> QED
    BY <2>1, <2>2 DEF TellingInv, Mappers!Intent, Mappers!ListedRow
<1> QED
  BY <1>1, <1>2, <1>3 DEF Mappers!Next

\* A step that leaves the object alone keeps it.
LEMMA TellingRests ==
  ASSUME TellingInv, UNCHANGED <<kind, ofMappers>>
  PROVE  TellingInv'
BY DEF ofMappers, TellingInv, Mappers!Intent, Mappers!ListedRow

-----------------------------------------------------------------------------
(* The two readings of a platform, as the run takes them.                   *)

\* What holds of the part a behaviour is about.
ReadingInv ==
  /\ which = "listings" => ListingInv
  /\ which = "mappers" => TellingInv

\* Both hold at first.
LEMMA ReadingStarts == MCInit => ReadingInv
BY ListingStarts, TellingStarts DEF MCInit, ReadingInv

\* A step of the run keeps both.
LEMMA ReadingNext == ReadingInv /\ [MCNext]_all => ReadingInv'
<1> SUFFICES ASSUME ReadingInv, [MCNext]_all PROVE ReadingInv'
  OBVIOUS
<1>1. CASE which \in OfRuns /\ Next /\ Setting /\ UNCHANGED <<which, others, slots>>
  BY <1>1 DEF OfRuns, ReadingInv
<1>2. CASE which = "listings" /\ Platform!Next /\ UNCHANGED <<which, vars, ofMappers, slots>>
  BY <1>2, ListingNext DEF ReadingInv
<1>3. CASE which = "mappers" /\ Mappers!Next /\ UNCHANGED <<which, vars, ofPlatform, slots>>
  BY <1>3, TellingNext DEF ReadingInv
<1>4. CASE UNCHANGED <<which, others>>
  <2>1. UNCHANGED which /\ UNCHANGED <<kind, ofPlatform>> /\ UNCHANGED <<kind, ofMappers>>
    BY <1>4 DEF others
  <2> QED
    BY <2>1, ListingRests, TellingRests DEF ReadingInv
<1>5. CASE Waiter /\ UNCHANGED <<which, vars, others>>
  BY <1>4, <1>5
<1>6. CASE UNCHANGED all
  BY <1>4, <1>6 DEF all
<1> QED
  BY <1>1, <1>2, <1>3, <1>5, <1>6 DEF MCNext

\* What a platform is read as is what it holds, whatever its rows, the length of
\* its pages and their ceiling.  A listing that neither failed nor said it was
\* cut short brought every row of its window that stood still, though others
\* appeared, were touched, closed or merged between its pages; and an event
\* says of an object what a listing says of it, from any payload but those
\* EventsAgreeWithListings names.
THEOREM PlatformStaysRead == MCSpec => []PlatformIsReadTrue
<1>1. ReadingInv => PlatformIsReadTrue
  BY TellingAgrees DEF ReadingInv, PlatformIsReadTrue, ListingInv
<1> QED
  BY <1>1, ReadingStarts, ReadingNext, PTL DEF MCSpec
=============================================================================
