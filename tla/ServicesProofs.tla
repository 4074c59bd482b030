--------------------------- MODULE ServicesProofs ---------------------------
(***************************************************************************)
(* What the run of MCServices checks on small instances, proved for every  *)
(* value of the constants: RunStore first, then each service that has no   *)
(* module of proofs of its own, as theorems about its instance in          *)
(* MCServices, and last the properties of the run, whose parts those       *)
(* theorems and the ones of LoginThrottle prove one by one.                *)
(***************************************************************************)
EXTENDS MCServices, Sequences, FiniteSetTheorems, WellFoundedInduction, TLAPS

-----------------------------------------------------------------------------
(* The store of runs.                                                      *)

USE DEF Null

\* The fields of a row or of its absence.
LEMMA RowParts ==
  ASSUME NEW r \in RunRow
  PROVE  r.exists /\ r.status \in Statuses /\ r.updatedAt \in Nat /\ r.url \in BOOLEAN
BY DEF RunRow

\* The fields of a reading or of its absence.
LEMMA ReadingParts ==
  ASSUME NEW r \in RunReading
  PROVE  r.exists /\ r.status \in Statuses /\ r.updatedAt \in Nat /\ r.url \in BOOLEAN
BY DEF RunReading

\* Of two statuses the later is one of them, and settled as soon as one is.
LEMMA LaterIsOneOfThem ==
  ASSUME NEW a \in Statuses, NEW b \in Statuses
  PROVE  /\ LaterStatus(a, b) \in {a, b}
         /\ Settled(LaterStatus(a, b)) <=> Settled(a) \/ Settled(b)
BY DEF LaterStatus, Settled, STATUS_RANK, Statuses

\* What a merge leaves in a row is a row.
LEMMA MergeRunType ==
  ASSUME NEW held \in RunRow \cup {NoRow}, NEW r \in RunReading
  PROVE  MergeRun(held, r) \in RunRow
<1>1. CASE held \in RunRow
  <2>1. LaterStatus(held.status, r.status) \in Statuses
    BY <1>1, RowParts, ReadingParts, LaterIsOneOfThem
  <2> QED
    BY <1>1, <2>1, RowParts, ReadingParts DEF MergeRun, RunRow
<1>2. CASE held = NoRow
  BY <1>2, ReadingParts DEF MergeRun, RunRow, NoRow
<1> QED
  BY <1>1, <1>2

\* Type correctness of the two tables and of their writers.
THEOREM RunTypeCorrect == Spec => []TypeOK
<1>1. Init => TypeOK
  BY DEF Init, TypeOK, Statuses, NoRow, NoReading
<1>2. TypeOK /\ [Next]_vars => TypeOK'
  <2> SUFFICES ASSUME TypeOK, [Next]_vars PROVE TypeOK'
    OBVIOUS
  <2>0. pipelines' \subseteq Ids
    BY DEF Next, vars, TypeOK
  <2>1. CASE Tick
    BY <2>0, <2>1 DEF Tick, TypeOK
  <2>2. ASSUME NEW i \in Ids, Sweep(i) PROVE TypeOK'
    BY <2>0, <2>2 DEF Sweep, TypeOK
  <2>3. ASSUME NEW i \in Ids, NEW st \in Statuses, Advance(i, st) PROVE TypeOK'
    BY <2>0, <2>3 DEF Advance, TypeOK
  <2>4. ASSUME NEW w \in Writers, NEW i \in Ids, Read(w, i) PROVE TypeOK'
    <3>1. PICK st \in {prov[i].status} \cup (IF i \in pipelines THEN {} ELSE {"unknown"}),
               url \in BOOLEAN :
            reading' = [reading EXCEPT ![w] =
              [exists |-> TRUE, status |-> st, url |-> url,
               updatedAt |-> IF i \in pipelines THEN prov[i].updatedAt ELSE Null]]
      BY <2>4 DEF Read
    <3>2. st \in Statuses /\ prov[i].updatedAt \in Nat
      BY DEF TypeOK, Statuses
    <3>3. reading' \in [Writers -> RunReading \cup {NoReading}]
      BY <3>1, <3>2 DEF TypeOK, RunReading
    <3>4. quiet' \subseteq Writers
      BY <2>4 DEF Read
    <3>5. /\ reading'[w].exists /\ pc' = [pc EXCEPT ![w] = "load"] /\ pc[w] = "idle"
          /\ \A x \in Writers : x # w => reading'[x] = reading[x]
      BY <2>4, <3>1 DEF Read, TypeOK
    <3>6. \A x \in Writers : /\ reading'[x].exists <=> pc'[x] # "idle"
                             /\ row[x].exists <=> pc'[x] \in {"update", "create"}
      BY <3>5 DEF TypeOK
    <3>7. id' \in [Writers -> Ids] /\ UNCHANGED <<now, prov, rows, row, calm>>
      BY <2>4 DEF Read, TypeOK
    <3> QED
      BY <2>0, <3>3, <3>4, <3>5, <3>6, <3>7 DEF TypeOK
  <2>5. ASSUME NEW w \in Writers, Load(w) PROVE TypeOK'
    <3>1. CASE IsStale(rows[id[w]], reading[w])
      <4>1. /\ pc' = [pc EXCEPT ![w] = "idle"] /\ pc[w] = "load"
            /\ reading' = [reading EXCEPT ![w] = NoReading]
            /\ calm' = calm \cup {w}
            /\ UNCHANGED <<now, prov, rows, row, id, quiet>>
        BY <2>5, <3>1 DEF Load
      <4> QED
        BY <2>0, <4>1 DEF TypeOK, NoReading
    <3>2. CASE ~IsStale(rows[id[w]], reading[w])
      <4>1. reading[w] \in RunReading /\ rows[id[w]] \in RunRow \cup {NoRow}
        BY <2>5 DEF TypeOK, Load, NoReading
      <4> DEFINE new == MergeRun(rows[id[w]], reading[w])
      <4>2. new \in RunRow /\ new.exists
        BY <4>1, MergeRunType, RowParts
      <4> HIDE DEF new
      <4>3. /\ pc' = [pc EXCEPT ![w] = "update"] /\ row' = [row EXCEPT ![w] = new]
            /\ calm' = calm \cup {w}
            /\ UNCHANGED <<now, prov, rows, id, quiet, reading>>
        BY <2>5, <3>2 DEF Load, new
      <4>4. pc[w] = "load"
        BY <2>5 DEF Load
      <4> QED
        BY <2>0, <4>2, <4>3, <4>4 DEF TypeOK
    <3> QED
      BY <3>1, <3>2
  <2>6. ASSUME NEW w \in Writers, Done(w), UNCHANGED <<now, prov, id>>,
               rows' \in [Ids -> RunRow \cup {NoRow}], quiet' \subseteq quiet, calm' \subseteq calm
        PROVE  TypeOK'
    BY <2>0, <2>6 DEF Done, TypeOK, NoReading, NoRow
  <2>7. ASSUME NEW w \in Writers, Update(w) PROVE TypeOK'
    <3>1. CASE UpdateMatches(rows[id[w]], row[w])
      BY <2>6, <2>7, <3>1 DEF Update, Wrote, TypeOK
    <3>2. CASE ~UpdateMatches(rows[id[w]], row[w])
      BY <2>0, <2>7, <3>2 DEF Update, TypeOK
    <3> QED
      BY <3>1, <3>2
  <2>8. ASSUME NEW w \in Writers, Create(w) PROVE TypeOK'
    BY <2>6, <2>8 DEF Create, Wrote, TypeOK
  <2>9. ASSUME NEW w \in Writers, Retry(w) PROVE TypeOK'
    BY <2>0, <2>9 DEF Retry, TypeOK, NoRow
  <2>10. ASSUME NEW w \in Writers, GiveUp(w) PROVE TypeOK'
    <3>1. rows' \in [Ids -> RunRow \cup {NoRow}] /\ quiet' \subseteq quiet /\ calm' \subseteq calm
      BY <2>10 DEF GiveUp, TypeOK
    <3> QED
      BY <2>6, <2>10, <3>1 DEF GiveUp
  <2>11. CASE UNCHANGED vars
    BY <2>0, <2>11 DEF vars, TypeOK
  <2> QED
    BY <2>1, <2>2, <2>3, <2>4, <2>5, <2>7, <2>8, <2>9, <2>10, <2>11
       DEF Next, WriterStep
<1> QED
  BY <1>1, <1>2, PTL DEF Spec

-----------------------------------------------------------------------------
(* Pipelines: a run that ended stays ended.                                *)

\* An honest copy stays honest while the run moves on, as long as it has not
\* ended: an ended run does not move.
LEMMA RunStaysHonest ==
  ASSUME NEW old, NEW new, NEW r, r.exists => r.updatedAt \in Nat,
         old.updatedAt \in Nat, new.updatedAt \in Nat,
         old.updatedAt < new.updatedAt, ~Settled(old.status), HonestRun(old, r)
  PROVE  HonestRun(new, r)
BY DEF HonestRun

\* Merging an honest reading that is not stale into an honest row is honest.
LEMMA MergeRunHonest ==
  ASSUME NEW pr, pr.updatedAt \in Nat, NEW held \in RunRow \cup {NoRow},
         NEW r \in RunReading, ~IsStale(held, r),
         HonestRun(pr, held), HonestRun(pr, r)
  PROVE  HonestRun(pr, MergeRun(held, r))
<1>1. r.exists /\ r.updatedAt \in Nat /\ r.status \in Statuses
  BY ReadingParts
<1>2. CASE held = NoRow
  BY <1>1, <1>2 DEF HonestRun, MergeRun, NoRow
<1>3. CASE held \in RunRow
  <2>1. held.exists /\ held.updatedAt \in Nat /\ held.status \in Statuses
    BY <1>3, RowParts
  <2>2. held.updatedAt <= r.updatedAt
    BY <1>1, <2>1 DEF IsStale
  <2>3. Settled(LaterStatus(held.status, r.status))
          <=> Settled(held.status) \/ Settled(r.status)
    BY <1>1, <2>1, LaterIsOneOfThem
  <2> QED
    BY <1>1, <2>1, <2>2, <2>3 DEF HonestRun, MergeRun
<1> QED
  BY <1>2, <1>3

\* No copy of a pipeline says more than the provider did at its date, in the
\* table or in a writer's hands: EveryRunHonest is inductive when a run has one
\* life.
THEOREM RunHonest ==
  ASSUME ~SameStamp, ~Reruns
  PROVE  Spec => []EveryRunHonest
<1>1. Init => EveryRunHonest
  BY DEF Init, EveryRunHonest, HonestRun, NoRow, NoReading
<1>2. TypeOK /\ EveryRunHonest /\ [Next]_vars => EveryRunHonest'
  <2> SUFFICES ASSUME TypeOK, EveryRunHonest, [Next]_vars PROVE EveryRunHonest'
    OBVIOUS
  <2>0. pipelines' = pipelines /\ pipelines \subseteq Ids
    BY DEF Next, vars, TypeOK
  <2>1. CASE Tick
    <3>1. now' = now + 1 /\ UNCHANGED <<prov, rows, id, reading, row>>
      BY <2>1 DEF Tick
    <3>2. \A i \in Ids : prov[i].updatedAt \in Nat /\ now \in Nat
      BY DEF TypeOK
    <3> QED
      BY <2>0, <3>1, <3>2 DEF EveryRunHonest
  <2>2. ASSUME NEW i \in Ids, Sweep(i) PROVE EveryRunHonest'
    BY <2>0, <2>2 DEF Sweep, EveryRunHonest, HonestRun, NoRow, TypeOK
  <2>3. ASSUME NEW i \in Ids, NEW st \in Statuses, Advance(i, st)
        PROVE  EveryRunHonest'
    <3> DEFINE new == [status |-> st, updatedAt |-> now]
    <3>1. /\ prov' = [prov EXCEPT ![i] = new] /\ prov[i].updatedAt < now
          /\ new.updatedAt = now /\ now' = now
          /\ rows' = rows /\ id' = id /\ reading' = reading /\ row' = row
      BY <2>3 DEF Advance
    <3> HIDE DEF new
    <3>2. now \in Nat /\ \A j \in Ids : prov[j].updatedAt \in Nat /\ prov[j].status \in Statuses
      BY DEF TypeOK
    <3>3. ~Settled(prov[i].status)
      BY <2>3, <3>2 DEF Advance, Follows, Settled, STATUS_RANK, Statuses
    <3>4. ASSUME NEW j \in Ids, NEW r, r.exists => r.updatedAt \in Nat, HonestRun(prov[j], r)
          PROVE  HonestRun(prov'[j], r)
      <4>1. CASE j = i
        <5>1. prov'[j] = new
          BY <3>1, <4>1 DEF TypeOK
        <5> QED
          BY <3>1, <3>2, <3>3, <3>4, <4>1, <5>1, RunStaysHonest
      <4>2. CASE j # i
        BY <3>1, <3>4, <4>2 DEF TypeOK
      <4> QED
        BY <4>1, <4>2
    <3>5. \A j \in pipelines : HonestRun(prov'[j], rows[j])
      <4>1. ASSUME NEW j \in Ids PROVE rows[j].exists => rows[j].updatedAt \in Nat
        BY RowParts DEF TypeOK, NoRow
      <4> QED
        BY <2>0, <3>4, <4>1 DEF EveryRunHonest
    <3>6. \A w \in Writers : id[w] \in pipelines =>
            HonestRun(prov'[id[w]], reading[w]) /\ HonestRun(prov'[id[w]], row[w])
      <4>1. ASSUME NEW w \in Writers
            PROVE  /\ id[w] \in Ids
                   /\ reading[w].exists => reading[w].updatedAt \in Nat
                   /\ row[w].exists => row[w].updatedAt \in Nat
        BY RowParts, ReadingParts DEF TypeOK, NoRow, NoReading
      <4> QED
        BY <3>4, <4>1 DEF EveryRunHonest
    <3>7. \A j \in pipelines : prov'[j].updatedAt <= now
      BY <2>0, <3>1, <3>2 DEF EveryRunHonest, TypeOK
    <3> QED
      BY <2>0, <3>1, <3>5, <3>6, <3>7 DEF EveryRunHonest
  <2>4. ASSUME NEW w \in Writers, NEW i \in Ids, Read(w, i) PROVE EveryRunHonest'
    <3>1. PICK st \in {prov[i].status} \cup (IF i \in pipelines THEN {} ELSE {"unknown"}),
               url \in BOOLEAN :
            reading' = [reading EXCEPT ![w] =
              [exists |-> TRUE, status |-> st, url |-> url,
               updatedAt |-> IF i \in pipelines THEN prov[i].updatedAt ELSE Null]]
      BY <2>4 DEF Read
    <3>2. id' = [id EXCEPT ![w] = i] /\ UNCHANGED <<now, prov, rows, row>>
      BY <2>4 DEF Read
    <3>3. ~row[w].exists /\ prov[i].updatedAt \in Nat
      BY <2>4 DEF Read, TypeOK
    <3>4. i \in pipelines => HonestRun(prov[i], reading'[w]) /\ HonestRun(prov[i], row[w])
      BY <3>1, <3>3 DEF HonestRun, TypeOK
    <3>5. \A x \in Writers : x # w => id'[x] = id[x] /\ reading'[x] = reading[x]
      BY <3>1, <3>2 DEF TypeOK
    <3>6. id'[w] = i
      BY <3>2 DEF TypeOK
    <3> QED
      BY <2>0, <3>2, <3>4, <3>5, <3>6 DEF EveryRunHonest
  <2>5. ASSUME NEW w \in Writers, Load(w) PROVE EveryRunHonest'
    <3>1. CASE IsStale(rows[id[w]], reading[w])
      <4>1. /\ reading' = [reading EXCEPT ![w] = NoReading]
            /\ UNCHANGED <<now, prov, rows, row, id>>
        BY <2>5, <3>1 DEF Load
      <4>2. \A x \in Writers : id[x] \in pipelines => HonestRun(prov[id[x]], reading'[x])
        BY <4>1 DEF EveryRunHonest, HonestRun, NoReading, TypeOK
      <4> QED
        BY <2>0, <4>1, <4>2 DEF EveryRunHonest
    <3>2. CASE ~IsStale(rows[id[w]], reading[w])
      <4>1. /\ reading[w] \in RunReading /\ rows[id[w]] \in RunRow \cup {NoRow}
            /\ prov[id[w]].updatedAt \in Nat
        BY <2>5 DEF TypeOK, Load, NoReading
      <4> DEFINE new == MergeRun(rows[id[w]], reading[w])
      <4>2. id[w] \in pipelines => HonestRun(prov[id[w]], new)
        BY <3>2, <4>1, MergeRunHonest DEF EveryRunHonest
      <4> HIDE DEF new
      <4>3. row' = [row EXCEPT ![w] = new] /\ UNCHANGED <<now, prov, rows, id, reading>>
        BY <2>5, <3>2 DEF Load, new
      <4> QED
        BY <2>0, <4>2, <4>3 DEF EveryRunHonest, TypeOK
    <3> QED
      BY <3>1, <3>2
  <2>6. ASSUME NEW w \in Writers, Done(w), UNCHANGED <<now, prov, id>>,
               rows' = rows \/ rows' = [rows EXCEPT ![id[w]] = row[w]]
        PROVE  EveryRunHonest'
    <3>1. \A i \in pipelines : HonestRun(prov[i], rows'[i])
      BY <2>0, <2>6 DEF EveryRunHonest, TypeOK
    <3>2. \A x \in Writers : id[x] \in pipelines =>
            HonestRun(prov[id[x]], reading'[x]) /\ HonestRun(prov[id[x]], row'[x])
      BY <2>6 DEF Done, EveryRunHonest, HonestRun, NoReading, NoRow, TypeOK
    <3> QED
      BY <2>0, <2>6, <3>1, <3>2 DEF EveryRunHonest
  <2>7. ASSUME NEW w \in Writers, Update(w) \/ Create(w) \/ GiveUp(w)
        PROVE  EveryRunHonest'
    BY <2>0, <2>6, <2>7 DEF Update, Create, GiveUp, EveryRunHonest
  <2>8. ASSUME NEW w \in Writers, Retry(w) PROVE EveryRunHonest'
    BY <2>0, <2>8 DEF Retry, EveryRunHonest, HonestRun, NoRow, TypeOK
  <2>9. CASE UNCHANGED vars
    BY <2>9 DEF vars, EveryRunHonest
  <2> QED
    BY <2>1, <2>2, <2>3, <2>4, <2>5, <2>7, <2>8, <2>9 DEF Next, WriterStep
<1> QED
  BY <1>1, <1>2, RunTypeCorrect, PTL DEF Spec

\* Only a writer changes a row that exists before and after the step, and only
\* with a row the `where` of its update let through.
LEMMA RunRowSteps ==
  ASSUME TypeOK, [Next]_vars, NEW i \in Ids, rows[i].exists, rows'[i].exists
  PROVE  \/ rows'[i] = rows[i]
         \/ \E w \in Writers : /\ id[w] = i /\ pc[w] = "update" /\ row[w].exists
                               /\ rows'[i] = row[w]
                               /\ rows[i].updatedAt <= row[w].updatedAt
<1>1. CASE Tick \/ \E j \in Ids, st \in Statuses : Advance(j, st)
  BY <1>1 DEF Tick, Advance
<1>2. ASSUME NEW j \in Ids, Sweep(j) PROVE rows'[i] = rows[i]
  BY <1>2 DEF Sweep, NoRow, TypeOK
<1>3. ASSUME NEW w \in Writers, Update(w)
      PROVE  \/ rows'[i] = rows[i]
             \/ /\ id[w] = i /\ pc[w] = "update" /\ row[w].exists
                /\ rows'[i] = row[w]
                /\ rows[i].updatedAt <= row[w].updatedAt
  BY <1>3 DEF Update, UpdateMatches, TypeOK
<1>4. ASSUME NEW w \in Writers, Create(w) PROVE rows'[i] = rows[i]
  BY <1>4 DEF Create, TypeOK
<1>5. ASSUME NEW w \in Writers, \/ \E j \in Ids : Read(w, j)
                                \/ Load(w) \/ Retry(w) \/ GiveUp(w)
      PROVE  rows'[i] = rows[i]
  BY <1>5 DEF Read, Load, Retry, GiveUp
<1>6. CASE UNCHANGED vars
  BY <1>6 DEF vars
<1> QED
  BY <1>1, <1>2, <1>3, <1>4, <1>5, <1>6 DEF Next, WriterStep

\* A pipeline whose end is stored stays ended, for any number of writers, late
\* readings and retries: the date that the merge and the update both compare
\* is what a deployment lacks.
THEOREM PipelinesStaySettled ==
  ASSUME ~SameStamp, ~Reruns
  PROVE  Spec => SettledStays
<1>1. TypeOK /\ EveryRunHonest /\ [Next]_vars => \A i \in pipelines : StaysSettled(i)
  <2> SUFFICES ASSUME TypeOK, EveryRunHonest, [Next]_vars, NEW i \in pipelines,
                      rows[i].exists, Settled(rows[i].status), rows'[i].exists
               PROVE  Settled(rows'[i].status)
    BY DEF StaysSettled
  <2>0. i \in Ids
    BY DEF TypeOK
  <2>1. CASE rows'[i] = rows[i]
    BY <2>1
  <2>2. ASSUME NEW w \in Writers, id[w] = i, row[w].exists, rows'[i] = row[w],
               rows[i].updatedAt <= row[w].updatedAt
        PROVE  Settled(rows'[i].status)
    <3>1. HonestRun(prov[i], rows[i]) /\ HonestRun(prov[i], row[w])
      BY <2>2 DEF EveryRunHonest
    <3>2. prov[i].updatedAt \in Nat
      BY <2>0 DEF TypeOK
    <3>3. row[w].updatedAt \in Nat
      BY <2>2, RowParts DEF TypeOK, NoRow
    <3>4. row[w].updatedAt = prov[i].updatedAt /\ Settled(prov[i].status)
      BY <2>2, <3>1, <3>2, <3>3 DEF HonestRun
    <3> QED
      BY <2>2, <3>1, <3>4 DEF HonestRun
  <2> QED
    BY <2>0, <2>1, <2>2, RunRowSteps
<1> QED
  BY <1>1, RunTypeCorrect, RunHonest, PTL DEF Spec, SettledStays
-----------------------------------------------------------------------------
(* Deployments: what the settling order alone gives, and what it does not. *)

\* The row c covers the row s: it is settled if s is, and has the url s has.
Covers(c, s) == s.exists =>
  /\ Settled(s.status) => Settled(c.status)
  /\ s.url => c.url

\* What a writer nobody overtook is about to write covers what is stored.
CalmCovers ==
  \A w \in calm : row[w].exists => Covers(row[w], rows[id[w]])

\* A merge covers the row it was made from.
LEMMA MergeRunCovers ==
  ASSUME NEW held \in RunRow \cup {NoRow}, NEW r \in RunReading
  PROVE  Covers(MergeRun(held, r), held)
<1>1. CASE held \in RunRow
  <2>1. Settled(LaterStatus(held.status, r.status))
          <=> Settled(held.status) \/ Settled(r.status)
    BY <1>1, RowParts, ReadingParts, LaterIsOneOfThem
  <2> QED
    BY <1>1, <2>1, RowParts DEF Covers, MergeRun
<1>2. CASE held = NoRow
  BY <1>2 DEF Covers, NoRow
<1> QED
  BY <1>1, <1>2

\* CalmCovers is inductive: a load makes a covering row, a sweep leaves nothing
\* to cover, and whoever writes a row makes an overtaken writer of everyone
\* else who holds a copy of it.
LEMMA CalmWritersCover == Spec => []CalmCovers
<1>1. Init => CalmCovers
  BY DEF Init, CalmCovers
<1>2. TypeOK /\ CalmCovers /\ [Next]_vars => CalmCovers'
  <2> SUFFICES ASSUME TypeOK, CalmCovers, [Next]_vars PROVE CalmCovers'
    OBVIOUS
  <2>1. CASE \/ Tick \/ UNCHANGED vars
             \/ \E i \in Ids, st \in Statuses : Advance(i, st)
    BY <2>1 DEF Tick, Advance, vars, CalmCovers
  <2>2. ASSUME NEW i \in Ids, Sweep(i) PROVE CalmCovers'
    <3>1. rows' = [rows EXCEPT ![i] = NoRow] /\ UNCHANGED <<id, row, calm>>
      BY <2>2 DEF Sweep
    <3>2. \A j \in Ids : rows'[j] = rows[j] \/ rows'[j] = NoRow
      BY <3>1 DEF TypeOK
    <3>3. \A w \in calm : id[w] \in Ids
      BY DEF TypeOK
    <3> QED
      BY <3>1, <3>2, <3>3 DEF CalmCovers, Covers, NoRow
  <2>3. ASSUME NEW w \in Writers, NEW i \in Ids, Read(w, i) PROVE CalmCovers'
    <3>1. id' = [id EXCEPT ![w] = i] /\ UNCHANGED <<rows, row, calm>> /\ ~row[w].exists
      BY <2>3 DEF Read, TypeOK
    <3> QED
      BY <3>1 DEF CalmCovers, TypeOK
  <2>4. ASSUME NEW w \in Writers, Load(w) PROVE CalmCovers'
    <3>0. calm' = calm \cup {w} /\ UNCHANGED <<rows, id>> /\ ~row[w].exists
      BY <2>4 DEF Load, TypeOK
    <3>1. CASE row' = row
      BY <3>0, <3>1 DEF CalmCovers
    <3>2. CASE row' = [row EXCEPT ![w] = MergeRun(rows[id[w]], reading[w])]
      <4>1. reading[w] \in RunReading /\ rows[id[w]] \in RunRow \cup {NoRow}
        BY <2>4 DEF TypeOK, Load, NoReading
      <4>2. Covers(row'[w], rows[id[w]])
        BY <3>2, <4>1, MergeRunCovers DEF TypeOK
      <4>3. \A x \in Writers : x # w => row'[x] = row[x]
        BY <3>2 DEF TypeOK
      <4> QED
        BY <3>0, <4>2, <4>3 DEF CalmCovers, TypeOK
    <3> QED
      BY <2>4, <3>1, <3>2 DEF Load
  <2>5. ASSUME NEW w \in Writers, row' = [row EXCEPT ![w] = NoRow], id' = id,
               \/ rows' = rows /\ calm' \subseteq calm
               \/ rows' = [rows EXCEPT ![id[w]] = row[w]] /\ Wrote(w)
        PROVE  CalmCovers'
    <3>1. /\ ~row'[w].exists /\ \A x \in Writers : x # w => row'[x] = row[x]
          /\ calm' \subseteq Writers
      BY <2>5 DEF TypeOK, NoRow, Wrote
    <3>2. \A x \in calm' : x \in calm /\ rows'[id[x]] = rows[id[x]]
      BY <2>5 DEF Wrote, TypeOK
    <3> QED
      BY <2>5, <3>1, <3>2 DEF CalmCovers
  <2>6. ASSUME NEW w \in Writers, Update(w) PROVE CalmCovers'
    <3>1. CASE UpdateMatches(rows[id[w]], row[w])
      BY <2>5, <2>6, <3>1 DEF Update, Done
    <3>2. CASE ~UpdateMatches(rows[id[w]], row[w])
      BY <2>6, <3>2 DEF Update, CalmCovers
    <3> QED
      BY <3>1, <3>2
  <2>7. ASSUME NEW w \in Writers, Create(w) \/ Retry(w) \/ GiveUp(w) PROVE CalmCovers'
    BY <2>5, <2>7 DEF Create, Retry, GiveUp, Done, Wrote
  <2> QED
    BY <2>1, <2>2, <2>3, <2>4, <2>6, <2>7 DEF Next, WriterStep
<1> QED
  BY <1>1, <1>2, RunTypeCorrect, PTL DEF Spec

\* A row changes into one that covers it, unless its writer was overtaken.
LEMMA CoveredOrOvertaken ==
  ASSUME TypeOK, CalmCovers, [Next]_vars, NEW i \in Ids, rows[i].exists, rows'[i].exists
  PROVE  Covers(rows'[i], rows[i]) \/ Overtaken(i)
<1>1. CASE rows'[i] = rows[i]
  BY <1>1 DEF Covers
<1>2. ASSUME NEW w \in Writers, id[w] = i, pc[w] = "update", row[w].exists, rows'[i] = row[w]
      PROVE  Covers(rows'[i], rows[i]) \/ Overtaken(i)
  BY <1>2 DEF CalmCovers, Overtaken
<1> QED
  BY <1>1, <1>2, RunRowSteps

\* The end of a deployment is undone only by a writer that merged against a row
\* since replaced: laterStatus absorbs every late, repeated or degraded reading,
\* for any number of writers and whatever the provider does, reruns included.
THEOREM DeploymentsUndoneOnlyByRace == Spec => UndoneOnlyByRace
<1>1. TypeOK /\ CalmCovers /\ [Next]_vars =>
        \A i \in Ids \ pipelines : StaysSettled(i) \/ Overtaken(i)
  BY CoveredOrOvertaken DEF StaysSettled, Covers
<1> QED
  BY <1>1, RunTypeCorrect, CalmWritersCover, PTL DEF Spec, UndoneOnlyByRace

\* A column one feed knows survives the readings of the feed that does not
\* report it, for any number of writers, a race between two of them excepted.
THEOREM UrlsBlankedOnlyByRace == Spec => NeverBlanked
<1>1. TypeOK /\ CalmCovers /\ [Next]_vars =>
        \A i \in Ids : rows[i].exists /\ rows[i].url /\ rows'[i].exists =>
          rows'[i].url \/ Overtaken(i)
  BY CoveredOrOvertaken DEF Covers
<1> QED
  BY <1>1, RunTypeCorrect, CalmWritersCover, PTL DEF Spec, NeverBlanked
-----------------------------------------------------------------------------
(* One quiet reading repairs the row.                                      *)

\* The copy r of a run is no further than the run itself.
NotAhead(pr, r) == r.exists => STATUS_RANK[r.status] <= STATUS_RANK[pr.status]

\* No copy is ahead of its run, and while nothing else moves a writer holds
\* what the provider says.
QuietHolds ==
  /\ \A i \in Ids : NotAhead(prov[i], rows[i])
  /\ \A w \in Writers :
       NotAhead(prov[id[w]], reading[w]) /\ NotAhead(prov[id[w]], row[w])
  /\ \A w \in quiet : /\ reading[w].exists => reading[w].status = prov[id[w]].status
                      /\ row[w].exists => row[w].status = prov[id[w]].status

\* Statuses have their rank among the naturals, and "unknown" the lowest.
LEMMA Ranks ==
  ASSUME NEW s \in Statuses
  PROVE  STATUS_RANK[s] \in Nat /\ STATUS_RANK["unknown"] <= STATUS_RANK[s]
BY DEF Statuses, STATUS_RANK

\* A merge is not ahead of a run neither of its parts is ahead of, and is the
\* reading's status when that is the run's own.
LEMMA MergeNotAhead ==
  ASSUME NEW pr, pr.status \in Statuses, NEW held \in RunRow \cup {NoRow},
         NEW r \in RunReading, NotAhead(pr, held), NotAhead(pr, r)
  PROVE  /\ NotAhead(pr, MergeRun(held, r))
         /\ r.status = pr.status => MergeRun(held, r).status = pr.status
<1>1. r.exists /\ r.status \in Statuses
  BY ReadingParts
<1>2. CASE held = NoRow
  BY <1>1, <1>2 DEF NotAhead, MergeRun, NoRow
<1>3. CASE held \in RunRow
  <2>1. held.exists /\ held.status \in Statuses
    BY <1>3, RowParts
  <2> QED
    BY <1>1, <2>1 DEF NotAhead, MergeRun, LaterStatus
<1> QED
  BY <1>2, <1>3

\* QuietHolds is inductive when a finished run is not started again.
LEMMA QuietReadings ==
  ASSUME ~Reruns
  PROVE  Spec => []QuietHolds
<1>1. Init => QuietHolds
  BY DEF Init, QuietHolds, NotAhead, NoRow, NoReading
<1>2. TypeOK /\ QuietHolds /\ [Next]_vars => QuietHolds'
  <2> SUFFICES ASSUME TypeOK, QuietHolds, [Next]_vars PROVE QuietHolds'
    OBVIOUS
  <2>1. CASE Tick \/ UNCHANGED vars
    BY <2>1 DEF Tick, vars, QuietHolds
  <2>2. ASSUME NEW i \in Ids, Sweep(i) PROVE QuietHolds'
    <3>1. /\ rows' = [rows EXCEPT ![i] = NoRow]
          /\ UNCHANGED <<prov, id, reading, row, quiet>>
      BY <2>2 DEF Sweep
    <3>2. \A j \in Ids : NotAhead(prov[j], rows'[j])
      BY <3>1 DEF QuietHolds, NotAhead, NoRow, TypeOK
    <3> QED
      BY <3>1, <3>2 DEF QuietHolds
  <2>3. ASSUME NEW i \in Ids, NEW st \in Statuses, Advance(i, st) PROVE QuietHolds'
    <3>1. /\ prov' = [prov EXCEPT ![i] = [status |-> st, updatedAt |-> now]]
          /\ STATUS_RANK[st] > STATUS_RANK[prov[i].status]
          /\ quiet' = {} /\ UNCHANGED <<rows, id, reading, row>>
      BY <2>3 DEF Advance, Follows
    <3>2. ASSUME NEW j \in Ids, NEW r, r.exists => r.status \in Statuses, NotAhead(prov[j], r)
          PROVE  NotAhead(prov'[j], r)
      <4>1. CASE j = i
        <5>1. prov'[j].status = st /\ prov[j].status \in Statuses
          BY <3>1, <4>1 DEF TypeOK
        <5> QED
          BY <3>1, <3>2, <4>1, <5>1, Ranks DEF NotAhead
      <4>2. CASE j # i
        BY <3>1, <3>2, <4>2 DEF TypeOK
      <4> QED
        BY <4>1, <4>2
    <3>3. \A j \in Ids : rows[j].exists => rows[j].status \in Statuses
      BY RowParts DEF TypeOK, NoRow
    <3>4. \A w \in Writers : /\ id[w] \in Ids
                             /\ reading[w].exists => reading[w].status \in Statuses
                             /\ row[w].exists => row[w].status \in Statuses
      BY RowParts, ReadingParts DEF TypeOK, NoRow, NoReading
    <3> QED
      BY <3>1, <3>2, <3>3, <3>4 DEF QuietHolds
  <2>4. ASSUME NEW w \in Writers, NEW i \in Ids, Read(w, i) PROVE QuietHolds'
    <3>1. PICK st \in {prov[i].status} \cup (IF i \in pipelines THEN {} ELSE {"unknown"}),
               url \in BOOLEAN :
            reading' = [reading EXCEPT ![w] =
              [exists |-> TRUE, status |-> st, url |-> url,
               updatedAt |-> IF i \in pipelines THEN prov[i].updatedAt ELSE Null]]
      BY <2>4 DEF Read
    <3>2. /\ id' = [id EXCEPT ![w] = i] /\ UNCHANGED <<prov, rows, row>>
          /\ quiet' = IF pc = [x \in Writers |-> "idle"] /\ reading'[w].status # "unknown"
                        THEN {w} ELSE {}
          /\ ~row[w].exists /\ prov[i].status \in Statuses
      BY <2>4 DEF Read, TypeOK
    <3>3. /\ reading'[w].status = st /\ id'[w] = i
          /\ \A x \in Writers : x # w => id'[x] = id[x] /\ reading'[x] = reading[x]
      BY <3>1, <3>2 DEF TypeOK
    <3>4. NotAhead(prov[i], reading'[w]) /\ NotAhead(prov[i], row[w])
      BY <3>1, <3>2, <3>3, Ranks DEF NotAhead
    <3>5. \A x \in quiet' : /\ x = w /\ reading'[x].status = prov[id'[x]].status
                            /\ ~row[x].exists
      BY <3>1, <3>2, <3>3
    <3> QED
      BY <3>2, <3>3, <3>4, <3>5 DEF QuietHolds
  <2>5. ASSUME NEW w \in Writers, Load(w) PROVE QuietHolds'
    <3>1. CASE IsStale(rows[id[w]], reading[w])
      <4>1. /\ reading' = [reading EXCEPT ![w] = NoReading]
            /\ UNCHANGED <<prov, rows, row, id, quiet>>
        BY <2>5, <3>1 DEF Load
      <4>2. \A x \in Writers : reading'[x] = reading[x] \/ ~reading'[x].exists
        BY <4>1 DEF NoReading, TypeOK
      <4>3. \A x \in quiet : x \in Writers
        BY DEF TypeOK
      <4> QED
        BY <4>1, <4>2, <4>3 DEF QuietHolds, NotAhead
    <3>2. CASE ~IsStale(rows[id[w]], reading[w])
      <4>1. /\ reading[w] \in RunReading /\ rows[id[w]] \in RunRow \cup {NoRow}
            /\ prov[id[w]].status \in Statuses /\ id[w] \in Ids
        BY <2>5 DEF TypeOK, Load, NoReading
      <4> DEFINE new == MergeRun(rows[id[w]], reading[w])
      <4>2. /\ NotAhead(prov[id[w]], new)
            /\ reading[w].status = prov[id[w]].status => new.status = prov[id[w]].status
        BY <4>1, MergeNotAhead DEF QuietHolds
      <4> HIDE DEF new
      <4>3. row' = [row EXCEPT ![w] = new] /\ UNCHANGED <<prov, rows, id, reading, quiet>>
        BY <2>5, <3>2 DEF Load, new
      <4>4. row'[w] = new /\ \A x \in Writers : x # w => row'[x] = row[x]
        BY <4>3 DEF TypeOK
      <4>5. reading[w].exists /\ quiet \subseteq Writers
        BY <4>1, ReadingParts DEF TypeOK
      <4> QED
        BY <4>2, <4>3, <4>4, <4>5 DEF QuietHolds
    <3> QED
      BY <3>1, <3>2
  <2>6. ASSUME NEW w \in Writers, UNCHANGED <<prov, id>>, quiet' \subseteq quiet,
               row' = row \/ row' = [row EXCEPT ![w] = NoRow],
               reading' = reading \/ reading' = [reading EXCEPT ![w] = NoReading],
               rows' = rows \/ rows' = [rows EXCEPT ![id[w]] = row[w]]
        PROVE  QuietHolds'
    <3>1. \A x \in Writers : /\ row'[x] = row[x] \/ ~row'[x].exists
                             /\ reading'[x] = reading[x] \/ ~reading'[x].exists
      BY <2>6 DEF TypeOK, NoRow, NoReading
    <3>2. \A i \in Ids : NotAhead(prov[i], rows'[i])
      BY <2>6 DEF TypeOK, QuietHolds
    <3>3. quiet \subseteq Writers
      BY DEF TypeOK
    <3> QED
      BY <2>6, <3>1, <3>2, <3>3 DEF QuietHolds, NotAhead
  <2>7. ASSUME NEW w \in Writers, Update(w) \/ Create(w) \/ Retry(w) \/ GiveUp(w)
        PROVE  QuietHolds'
    BY <2>6, <2>7 DEF Update, Create, Retry, GiveUp, Done
  <2> QED
    BY <2>1, <2>2, <2>3, <2>4, <2>5, <2>7 DEF Next, WriterStep
<1> QED
  BY <1>1, <1>2, RunTypeCorrect, PTL DEF Spec

\* A reading taken and written while nothing else moved leaves the row with the
\* provider's status, whatever order of readings, races and sweeps came before,
\* when a finished run is not started again under its own id.
THEOREM QuietReadingRepairs ==
  ASSUME ~Reruns
  PROVE  Spec => RepairedByReading
<1>1. TypeOK /\ QuietHolds /\ [Next]_vars =>
        \A w \in quiet : pc[w] \in {"update", "create"} /\ rows' # rows
            /\ rows'[id[w]] = row[w] => rows'[id[w]].status = prov[id[w]].status
  BY DEF TypeOK, QuietHolds
<1> QED
  BY <1>1, RunTypeCorrect, QuietReadings, PTL DEF Spec, RepairedByReading

-----------------------------------------------------------------------------
(* Settings.                                                               *)

KnownPatterns == Patterns \cup {Fallback}

SettingsRow ==
  [cron: [Jobs -> KnownPatterns], source: {"pipelines", "incidents"},
   labels: {"", "blank", "named"}]

WritingRow == [at: {"write"}, change: Settings!Changes, raced: BOOLEAN]

Listing == [at: {"list"}, pattern: KnownPatterns, alone: BOOLEAN]

Dropping == [at: {"drop"}, pattern: KnownPatterns, alone: BOOLEAN,
             todo: SUBSET (Jobs \X KnownPatterns)]

TaskRow == {Settings!Off} \cup Listing \cup Dropping

SettingsTypeOK ==
  /\ stored \in SettingsRow
  /\ schedules \subseteq Jobs \X KnownPatterns
  /\ updater \in [Writers -> {Settings!Idle} \cup WritingRow \cup [at: {"notify"}]]
  /\ task \in [Settings!Owners -> [Jobs -> TaskRow]]
  /\ settled \subseteq Jobs

\* The schedules of a job on another pattern than p.
Others(j, p) == {s \in schedules : s[1] = j /\ s[2] # p}

\* What a rescheduling of j takes down is of j, and all of it if it is alone: then
\* it works on the stored pattern, and nobody else is at j.
TaskHolds(o, j) ==
  /\ task[o][j].at = "drop" => \A s \in task[o][j].todo : s[1] = j
  /\ task[o][j] # Settings!Off /\ task[o][j].alone =>
       /\ task[o][j].pattern = stored.cron[j]
       /\ \A p \in Settings!Owners \ {o} : task[p][j] = Settings!Off
       /\ task[o][j].at = "drop" => Others(j, task[o][j].pattern) \subseteq task[o][j].todo

\* Nobody is at a job that has settled, and it is on the stored schedule alone.
JobHolds(j) ==
  j \in settled => /\ \A o \in Settings!Owners : task[o][j] = Settings!Off
                   /\ {s \in schedules : s[1] = j} = {<<j, stored.cron[j]>>}

\* An update nobody overtook is one the check would still accept.
UpdateHolds(u) ==
  updater[u].at = "write" /\ ~updater[u].raced => Settings!Accepted(updater[u].change)

SettingsInv ==
  /\ \A o \in Settings!Owners, j \in Jobs : TaskHolds(o, j)
  /\ \A j \in Jobs : JobHolds(j)
  /\ \A u \in Writers : UpdateHolds(u)

\* A task is off, or at one of its two steps.
LEMMA TaskParts ==
  ASSUME NEW t \in TaskRow
  PROVE  /\ t # Settings!Off <=> t.at \in {"list", "drop"}
         /\ t.at = "list" => t \in Listing
         /\ t.at = "drop" => t \in Dropping
         /\ t # Settings!Off => /\ t.pattern \in KnownPatterns /\ t.alone \in BOOLEAN
                                /\ [t EXCEPT !.alone = FALSE] \in TaskRow
                                /\ [t EXCEPT !.alone = FALSE] # Settings!Off
                                /\ [t EXCEPT !.alone = FALSE].at = t.at
                                /\ ~[t EXCEPT !.alone = FALSE].alone
                                /\ t.at = "drop" => [t EXCEPT !.alone = FALSE].todo = t.todo
<1> DEFINE m == [t EXCEPT !.alone = FALSE]
<1>1. CASE t \in Listing
  <2>1. /\ m \in Listing /\ ~m.alone /\ t.at = "list" /\ t.pattern \in KnownPatterns
        /\ t.alone \in BOOLEAN
    BY <1>1 DEF Listing
  <2>2. \A x \in Listing : x.at = "list" /\ x # Settings!Off /\ x \in TaskRow
    BY DEF Listing, Settings!Off, TaskRow
  <2> HIDE DEF m
  <2>3. m.at = "list" /\ m # Settings!Off /\ m \in TaskRow /\ t # Settings!Off
    BY <1>1, <2>1, <2>2
  <2> QED
    BY <1>1, <2>1, <2>3 DEF m
<1>2. CASE t \in Dropping
  <2>1. /\ m \in Dropping /\ ~m.alone /\ t.at = "drop" /\ t.pattern \in KnownPatterns
        /\ t.alone \in BOOLEAN /\ m.todo = t.todo
    BY <1>2 DEF Dropping
  <2>2. \A x \in Dropping : x.at = "drop" /\ x # Settings!Off /\ x \in TaskRow
    BY DEF Dropping, Settings!Off, TaskRow
  <2> HIDE DEF m
  <2>3. m.at = "drop" /\ m # Settings!Off /\ m \in TaskRow /\ t # Settings!Off
    BY <1>2, <2>1, <2>2
  <2> QED
    BY <1>2, <2>1, <2>3 DEF m
<1>3. CASE t = Settings!Off
  BY <1>3 DEF TaskRow, Listing, Dropping, Settings!Off
<1> QED
  BY <1>1, <1>2, <1>3 DEF TaskRow

\* The same task, met by somebody.
Met(t) == [t EXCEPT !.alone = FALSE]

\* A rescheduling that begins is alone unless somebody is at its job, who then is
\* not alone either; the other jobs are left alone.
LEMMA BegunGives ==
  ASSUME SettingsTypeOK, NEW tasks \in [Settings!Owners -> [Jobs -> TaskRow]],
         NEW o \in Settings!Owners, NEW j
  PROVE  LET b == Settings!Begun(tasks, o, j)
         IN  /\ b \in [Settings!Owners -> [Jobs -> TaskRow]]
             /\ \A p \in Settings!Owners, k \in Jobs \ {j} : b[p][k] = tasks[p][k]
             /\ j \in Jobs =>
                  /\ b[o][j].at = "list" /\ b[o][j].pattern = stored.cron[j]
                  /\ b[o][j].alone <=> \A p \in Settings!Owners \ {o} : tasks[p][j] = Settings!Off
                  /\ \A p \in Settings!Owners \ {o} :
                       b[p][j] = IF tasks[p][j] = Settings!Off THEN Settings!Off
                                 ELSE Met(tasks[p][j])
<1> DEFINE new == [at |-> "list", pattern |-> stored.cron[j],
                   alone |-> \A q \in Settings!Owners \ {o} : tasks[q][j] = Settings!Off]
           b == Settings!Begun(tasks, o, j)
<1>1. j \in Jobs => new \in TaskRow
  <2>1. (\A q \in Settings!Owners \ {o} : tasks[q][j] = Settings!Off) \in BOOLEAN
    OBVIOUS
  <2> QED
    BY <2>1 DEF TaskRow, Listing, SettingsTypeOK, SettingsRow
<1>2. \A p \in Settings!Owners, k \in Jobs :
        /\ tasks[p][k] \in TaskRow
        /\ tasks[p][k] # Settings!Off => [tasks[p][k] EXCEPT !.alone = FALSE] \in TaskRow
  BY TaskParts
<1>3. b = [p \in Settings!Owners |-> [k \in Jobs |->
             IF p = o /\ k = j THEN new
             ELSE IF k = j /\ tasks[p][k] # Settings!Off THEN [tasks[p][k] EXCEPT !.alone = FALSE]
             ELSE tasks[p][k]]]
  BY DEF Settings!Begun
<1>4. j \in Jobs => b[o][j] = new
  BY <1>3
<1>5. /\ new.at = "list" /\ new.pattern = stored.cron[j]
      /\ new.alone <=> \A p \in Settings!Owners \ {o} : tasks[p][j] = Settings!Off
  OBVIOUS
<1> HIDE DEF new, b
<1>6. b \in [Settings!Owners -> [Jobs -> TaskRow]]
  BY <1>1, <1>2, <1>3
<1>7. \A p \in Settings!Owners, k \in Jobs \ {j} : b[p][k] = tasks[p][k]
  BY <1>3
<1>8. j \in Jobs => \A p \in Settings!Owners \ {o} :
        b[p][j] = IF tasks[p][j] = Settings!Off THEN Settings!Off ELSE Met(tasks[p][j])
  BY <1>3 DEF Met
<1> QED
  BY <1>4, <1>5, <1>6, <1>7, <1>8 DEF b

\* What a form changes, by its key.
LEMMA ChangeParts ==
  ASSUME NEW c \in Settings!Changes
  PROVE  /\ c.key \in {"cron", "source", "labels"}
         /\ c.key = "cron" => c.job \in Jobs /\ c.value \in Patterns
         /\ c.key = "source" => c.value \in {"pipelines", "incidents"}
         /\ c.key = "labels" => c.value \in {"null", "none", "blank", "named"}
BY DEF Settings!Changes

\* The settings with one change laid over them.
LEMMA MergedGives ==
  ASSUME NEW s \in SettingsRow, NEW c \in Settings!Changes
  PROVE  /\ Settings!Merged(s, c) \in SettingsRow
         /\ c.key # "cron" => Settings!Merged(s, c).cron = s.cron
         /\ c.key = "cron" => \A j \in Jobs \ {c.job} : Settings!Merged(s, c).cron[j] = s.cron[j]
         /\ c.key # "source" => Settings!Merged(s, c).source = s.source
         /\ c.key = "source" => Settings!Merged(s, c).source = c.value
         /\ c.key # "labels" => Settings!Merged(s, c).labels = s.labels
         /\ c.key = "labels" => Settings!Merged(s, c).labels = Settings!Text(c.value)
<1>1. CASE c.key = "cron"
  BY <1>1, ChangeParts DEF Settings!Merged, SettingsRow, KnownPatterns
<1>2. CASE c.key = "source"
  BY <1>2, ChangeParts DEF Settings!Merged, SettingsRow
<1>3. CASE c.key = "labels"
  BY <1>3, ChangeParts DEF Settings!Merged, SettingsRow, Settings!Text
<1> QED
  BY <1>1, <1>2, <1>3, ChangeParts

\* One step of a rescheduling moves that one only.
LEMMA StepGives ==
  ASSUME SettingsTypeOK, NEW o \in Settings!Owners, NEW j \in Jobs, NEW t \in TaskRow,
         Settings!Step(o, j, t)
  PROVE  /\ task' \in [Settings!Owners -> [Jobs -> TaskRow]]
         /\ task'[o][j] = t
         /\ \A p \in Settings!Owners, k \in Jobs : p # o \/ k # j => task'[p][k] = task[p][k]
BY DEF Settings!Step, SettingsTypeOK

\* The update that is written is a change, and leaves the others as they were but
\* for what they are told.
LEMMA WriteGives ==
  ASSUME SettingsTypeOK, NEW u \in Writers, Settings!Write(u)
  PROVE  /\ updater[u].change \in Settings!Changes /\ updater[u].at = "write"
         /\ stored' = Settings!Merged(stored, updater[u].change) /\ stored' \in SettingsRow
         /\ schedules' = schedules
         /\ updater' \in [Writers -> {Settings!Idle} \cup WritingRow \cup [at: {"notify"}]]
         /\ \A v \in Writers : updater'[v].at = "write" => updater'[v].raced
         /\ task' \in [Settings!Owners -> [Jobs -> TaskRow]]
         /\ \A o \in Settings!Owners, j \in Jobs :
              task'[o][j] = IF /\ task[o][j] # Settings!Off /\ updater[u].change.key = "cron"
                               /\ updater[u].change.job = j
                            THEN Met(task[o][j]) ELSE task[o][j]
         /\ settled' = IF updater[u].change.key = "cron" THEN settled \ {updater[u].change.job}
                       ELSE settled
<1> DEFINE c == updater[u].change
<1>1. updater[u] \in WritingRow
  BY DEF Settings!Write, SettingsTypeOK, WritingRow, Settings!Idle
<1>2. c \in Settings!Changes
  BY <1>1 DEF WritingRow
<1>3. /\ updater[u].at = "write" /\ schedules' = schedules
      /\ stored' = Settings!Merged(stored, c)
      /\ settled' = IF c.key = "cron" THEN settled \ {c.job} ELSE settled
      /\ task' = [o \in Settings!Owners |-> [j \in Jobs |->
              IF task[o][j] # Settings!Off /\ c.key = "cron" /\ c.job = j
              THEN [task[o][j] EXCEPT !.alone = FALSE] ELSE task[o][j]]]
      /\ updater' = [v \in Writers |->
              IF v = u THEN [at |-> "notify"]
              ELSE IF updater[v].at = "write" THEN [updater[v] EXCEPT !.raced = TRUE]
              ELSE updater[v]]
  BY DEF Settings!Write
<1>4. stored' \in SettingsRow
  BY <1>2, <1>3, MergedGives DEF SettingsTypeOK
<1>5. ASSUME NEW v \in Writers, updater[v].at = "write"
      PROVE  LET r == [updater[v] EXCEPT !.raced = TRUE]
             IN  r \in WritingRow /\ r.raced /\ r.at = "write"
  <2>1. updater[v] \in WritingRow
    BY <1>5 DEF SettingsTypeOK, WritingRow, Settings!Idle
  <2> QED
    BY <2>1 DEF WritingRow
<1>6. /\ updater' \in [Writers -> {Settings!Idle} \cup WritingRow \cup [at: {"notify"}]]
      /\ \A v \in Writers : updater'[v].at = "write" => updater'[v].raced
  BY <1>3, <1>5 DEF SettingsTypeOK
<1>7. \A o \in Settings!Owners, j \in Jobs :
        /\ task[o][j] \in TaskRow
        /\ task[o][j] # Settings!Off => [task[o][j] EXCEPT !.alone = FALSE] \in TaskRow
  BY TaskParts DEF SettingsTypeOK
<1> HIDE DEF c
<1>8. task' \in [Settings!Owners -> [Jobs -> TaskRow]]
  BY <1>3, <1>7
<1>9. \A o \in Settings!Owners, j \in Jobs :
        task'[o][j] = IF task[o][j] # Settings!Off /\ c.key = "cron" /\ c.job = j
                      THEN Met(task[o][j]) ELSE task[o][j]
  BY <1>3 DEF Met
<1> QED
  BY <1>2, <1>3, <1>4, <1>6, <1>8, <1>9 DEF c

\* Telling the listeners begins a rescheduling of every job.
LEMMA NotifyGives ==
  ASSUME SettingsTypeOK, NEW u \in Writers, Settings!Notify(u)
  PROVE  /\ task' \in [Settings!Owners -> [Jobs -> TaskRow]]
         /\ \A j \in Jobs :
              /\ task'[u][j].at = "list" /\ task'[u][j].pattern = stored.cron[j]
              /\ task'[u][j].alone
                   <=> \A p \in Settings!Owners \ {u} : task[p][j] = Settings!Off
              /\ \A p \in Settings!Owners \ {u} :
                   task'[p][j] = IF task[p][j] = Settings!Off THEN Settings!Off
                                 ELSE Met(task[p][j])
<1>1. u \in Settings!Owners /\ task \in [Settings!Owners -> [Jobs -> TaskRow]]
  BY DEF Settings!Owners, SettingsTypeOK
<1>2. task' = [o \in Settings!Owners |-> [j \in Jobs |-> Settings!Begun(task, u, j)[o][j]]]
  BY DEF Settings!Notify
<1>3. ASSUME NEW j \in Jobs
      PROVE  LET b == Settings!Begun(task, u, j)
             IN  /\ b \in [Settings!Owners -> [Jobs -> TaskRow]]
                 /\ b[u][j].at = "list" /\ b[u][j].pattern = stored.cron[j]
                 /\ b[u][j].alone <=> \A p \in Settings!Owners \ {u} : task[p][j] = Settings!Off
                 /\ \A p \in Settings!Owners \ {u} :
                      b[p][j] = IF task[p][j] = Settings!Off THEN Settings!Off ELSE Met(task[p][j])
  BY <1>1, BegunGives
<1>4. task' \in [Settings!Owners -> [Jobs -> TaskRow]]
  BY <1>2, <1>3
<1>5. \A p \in Settings!Owners, j \in Jobs : task'[p][j] = Settings!Begun(task, u, j)[p][j]
  BY <1>2
<1> QED
  BY <1>1, <1>3, <1>4, <1>5

\* A rescheduling that registers its schedule is done, and the boot begins the
\* next job.
LEMMA AddGives ==
  ASSUME SettingsTypeOK, NEW o \in Settings!Owners, NEW j \in Jobs, Settings!Add(o, j)
  PROVE  /\ task[o][j] \in Dropping /\ task[o][j].todo = {}
         /\ schedules' = schedules \cup {<<j, task[o][j].pattern>>}
         /\ stored' = stored /\ updater' = updater
         /\ task' \in [Settings!Owners -> [Jobs -> TaskRow]]
         /\ settled' \subseteq settled \cup (IF task[o][j].alone THEN {j} ELSE {})
         /\ task'[o][j] = Settings!Off
         /\ \A p \in Settings!Owners \ {o} : task'[p][j] = task[p][j]
         /\ \A k \in Jobs \ {j} :
              \/ \A p \in Settings!Owners : task'[p][k] = task[p][k]
              \/ /\ k \notin settled'
                 /\ task'[o][k].at = "list" /\ task'[o][k].pattern = stored.cron[k]
                 /\ task'[o][k].alone
                      <=> \A p \in Settings!Owners \ {o} : task[p][k] = Settings!Off
                 /\ \A p \in Settings!Owners \ {o} :
                      task'[p][k] = IF task[p][k] = Settings!Off THEN Settings!Off
                                    ELSE Met(task[p][k])
<1> DEFINE done == [task EXCEPT ![o] = [task[o] EXCEPT ![j] = Settings!Off]]
           mine == IF task[o][j].alone THEN {j} ELSE {}
           next == IF o = "boot" /\ j = Settings!First THEN Jobs \ {Settings!First} ELSE {}
<1>1. /\ task[o][j].at = "drop" /\ task[o][j].todo = {}
      /\ schedules' = schedules \cup {<<j, task[o][j].pattern>>}
      /\ stored' = stored /\ updater' = updater
      /\ \/ task' = done /\ settled' = settled \cup mine
         \/ \E k \in next : /\ task' = Settings!Begun(done, o, k)
                            /\ settled' = (settled \cup mine) \ {k}
  BY DEF Settings!Add
<1>2. task[o][j] \in Dropping
  <2>1. task[o][j] \in TaskRow
    BY DEF SettingsTypeOK
  <2> QED
    BY <1>1, <2>1, TaskParts
<1>3. /\ done \in [Settings!Owners -> [Jobs -> TaskRow]]
      /\ done[o][j] = Settings!Off
      /\ \A p \in Settings!Owners, k \in Jobs : p # o \/ k # j => done[p][k] = task[p][k]
  BY DEF SettingsTypeOK, TaskRow
<1>4. next \subseteq Jobs \ {j}
  OBVIOUS
<1> HIDE DEF done, mine, next
<1>5. CASE task' = done /\ settled' = settled \cup mine
  BY <1>1, <1>2, <1>3, <1>5 DEF mine
<1>6. ASSUME NEW k \in next, task' = Settings!Begun(done, o, k),
             settled' = (settled \cup mine) \ {k}
      PROVE  /\ task' \in [Settings!Owners -> [Jobs -> TaskRow]]
             /\ \A p \in Settings!Owners : task'[p][j] = done[p][j]
             /\ \A x \in Jobs \ {j} :
                  \/ \A p \in Settings!Owners : task'[p][x] = task[p][x]
                  \/ /\ x \notin settled'
                     /\ task'[o][x].at = "list" /\ task'[o][x].pattern = stored.cron[x]
                     /\ task'[o][x].alone
                          <=> \A p \in Settings!Owners \ {o} : task[p][x] = Settings!Off
                     /\ \A p \in Settings!Owners \ {o} :
                          task'[p][x] = IF task[p][x] = Settings!Off THEN Settings!Off
                                        ELSE Met(task[p][x])
  <2>1. k \in Jobs /\ k # j
    BY <1>4
  <2>2. /\ task' \in [Settings!Owners -> [Jobs -> TaskRow]]
        /\ \A p \in Settings!Owners, x \in Jobs \ {k} : task'[p][x] = done[p][x]
        /\ task'[o][k].at = "list" /\ task'[o][k].pattern = stored.cron[k]
        /\ task'[o][k].alone <=> \A p \in Settings!Owners \ {o} : done[p][k] = Settings!Off
        /\ \A p \in Settings!Owners \ {o} :
             task'[p][k] = IF done[p][k] = Settings!Off THEN Settings!Off ELSE Met(done[p][k])
    <3> DEFINE b == Settings!Begun(done, o, k)
    <3>1. /\ b \in [Settings!Owners -> [Jobs -> TaskRow]]
          /\ \A p \in Settings!Owners, x \in Jobs \ {k} : b[p][x] = done[p][x]
          /\ b[o][k].at = "list" /\ b[o][k].pattern = stored.cron[k]
          /\ b[o][k].alone <=> \A p \in Settings!Owners \ {o} : done[p][k] = Settings!Off
          /\ \A p \in Settings!Owners \ {o} :
               b[p][k] = IF done[p][k] = Settings!Off THEN Settings!Off ELSE Met(done[p][k])
      BY <1>3, <2>1, BegunGives
    <3>2. task' = b
      BY <1>6
    <3> HIDE DEF b
    <3> QED
      BY <3>1, <3>2
  <2>3. \A p \in Settings!Owners : task'[p][j] = done[p][j]
    BY <2>1, <2>2
  <2>4. \A p \in Settings!Owners, x \in Jobs \ {j} : done[p][x] = task[p][x]
    BY <1>3
  <2>5. ASSUME NEW x \in Jobs \ {j}, x # k
        PROVE  \A p \in Settings!Owners : task'[p][x] = task[p][x]
    BY <2>2, <2>4, <2>5
  <2>6. k \notin settled'
    BY <1>6
  <2> QED
    BY <2>1, <2>2, <2>3, <2>4, <2>5, <2>6
<1>7. CASE \E k \in next : /\ task' = Settings!Begun(done, o, k)
                           /\ settled' = (settled \cup mine) \ {k}
  BY <1>1, <1>2, <1>3, <1>6, <1>7 DEF mine
<1> QED
  BY <1>1, <1>5, <1>7

\* The settings, the schedules, the updates and the reschedulings keep their
\* types.
THEOREM SettingsTypeCorrect == Settings!Spec => []SettingsTypeOK
<1>1. ASSUME Settings!Init PROVE SettingsTypeOK
  <2>1. stored \in SettingsRow
    BY <1>1 DEF Settings!Init, SettingsRow, KnownPatterns
  <2>2. updater \in [Writers -> {Settings!Idle} \cup WritingRow \cup [at: {"notify"}]]
    BY <1>1 DEF Settings!Init
  <2>3. task \in [Settings!Owners -> [Jobs -> TaskRow]]
    BY <1>1 DEF Settings!Init, TaskRow
  <2> QED
    BY <1>1, <2>1, <2>2, <2>3 DEF Settings!Init, SettingsTypeOK
<1>2. ASSUME SettingsTypeOK, [Settings!Next]_(Settings!vars) PROVE SettingsTypeOK'
  <2>1. CASE Settings!Boot
    <3>1. /\ task' = Settings!Begun(task, "boot", Settings!First)
          /\ settled' = settled \ {Settings!First} /\ UNCHANGED <<stored, schedules, updater>>
      BY <2>1 DEF Settings!Boot
    <3>2. "boot" \in Settings!Owners /\ task \in [Settings!Owners -> [Jobs -> TaskRow]]
      BY <1>2 DEF Settings!Owners, SettingsTypeOK
    <3>3. Settings!Begun(task, "boot", Settings!First) \in [Settings!Owners -> [Jobs -> TaskRow]]
      BY <1>2, <3>2, BegunGives
    <3> QED
      BY <1>2, <3>1, <3>3 DEF SettingsTypeOK
  <2>2. CASE Settings!Stop
    BY <1>2, <2>2 DEF Settings!Stop, SettingsTypeOK, TaskRow
  <2>3. ASSUME NEW u \in Writers, Settings!Write(u) PROVE SettingsTypeOK'
    BY <1>2, <2>3, WriteGives DEF SettingsTypeOK
  <2>4. ASSUME NEW u \in Writers, Settings!Notify(u) PROVE SettingsTypeOK'
    BY <1>2, <2>4, NotifyGives DEF Settings!Notify, SettingsTypeOK
  <2>5. ASSUME NEW u \in Writers, NEW c \in Settings!Changes, Settings!Ask(u, c)
        PROVE  SettingsTypeOK'
    <3>1. [at |-> "write", change |-> c, raced |-> FALSE] \in WritingRow
      BY DEF WritingRow
    <3> QED
      BY <1>2, <2>5, <3>1 DEF Settings!Ask, SettingsTypeOK
  <2>6. ASSUME NEW o \in Settings!Owners, NEW j \in Jobs, Settings!List(o, j)
        PROVE  SettingsTypeOK'
    <3> DEFINE t == task[o][j]
               new == [at |-> "drop", pattern |-> t.pattern, alone |-> t.alone,
                       todo |-> {s \in schedules : s[1] = j /\ s[2] # t.pattern}]
    <3>1. t \in TaskRow /\ t.at = "list"
      BY <1>2, <2>6 DEF Settings!List, SettingsTypeOK
    <3>2. t \in Listing
      BY <3>1, TaskParts
    <3>3. new \in TaskRow
      BY <1>2, <3>2 DEF Listing, Dropping, TaskRow, SettingsTypeOK
    <3>4. Settings!Step(o, j, new) /\ UNCHANGED <<stored, schedules, updater, settled>>
      BY <2>6 DEF Settings!List
    <3> HIDE DEF new
    <3> QED
      BY <1>2, <3>3, <3>4, StepGives DEF SettingsTypeOK
  <2>7. ASSUME NEW o \in Settings!Owners, NEW j \in Jobs, Settings!Drop(o, j)
        PROVE  SettingsTypeOK'
    <3>1. PICK s \in task[o][j].todo :
            /\ schedules' = schedules \ {s}
            /\ Settings!Step(o, j, [task[o][j] EXCEPT !.todo = @ \ {s}])
            /\ UNCHANGED <<stored, updater, settled>>
      BY <2>7 DEF Settings!Drop
    <3>2. task[o][j] \in TaskRow /\ task[o][j].at = "drop"
      BY <1>2, <2>7 DEF Settings!Drop, SettingsTypeOK
    <3>3. task[o][j] \in Dropping
      BY <3>2, TaskParts
    <3>4. [task[o][j] EXCEPT !.todo = @ \ {s}] \in TaskRow
      BY <3>3 DEF Dropping, TaskRow
    <3> QED
      BY <1>2, <3>1, <3>4, StepGives DEF SettingsTypeOK
  <2>8. ASSUME NEW o \in Settings!Owners, NEW j \in Jobs, Settings!Add(o, j)
        PROVE  SettingsTypeOK'
    <3>1. task[o][j].pattern \in KnownPatterns
      BY <1>2, <2>8, AddGives DEF Dropping
    <3> QED
      BY <1>2, <2>8, <3>1, AddGives DEF SettingsTypeOK
  <2>9. ASSUME NEW o \in Settings!Owners, NEW j \in Jobs, Settings!Refused(o, j)
        PROVE  SettingsTypeOK'
    <3>1. Settings!Off \in TaskRow
      BY DEF TaskRow
    <3> QED
      BY <1>2, <2>9, <3>1, StepGives DEF Settings!Refused, SettingsTypeOK
  <2>10. CASE UNCHANGED Settings!vars
    BY <1>2, <2>10 DEF Settings!vars, SettingsTypeOK
  <2> QED
    BY <1>2, <2>1, <2>2, <2>3, <2>4, <2>5, <2>6, <2>7, <2>8, <2>9, <2>10 DEF Settings!Next
<1> QED
  BY <1>1, <1>2, PTL DEF Settings!Spec

\* The updates hold as long as neither they nor the settings move.
LEMMA UpdatesStay ==
  ASSUME SettingsInv, stored' = stored, NEW u \in Writers, updater'[u] = updater[u]
  PROVE  UpdateHolds(u)'
BY DEF SettingsInv, UpdateHolds, Settings!Accepted, Settings!IncidentsConfigured,
   Settings!readList, Settings!Judged

\* A rescheduling that begins at a job, alone or not, and whoever it met.
LEMMA BeginningHolds ==
  ASSUME SettingsTypeOK, SettingsInv, NEW o \in Settings!Owners, NEW j \in Jobs,
         stored' = stored, j \notin settled',
         task'[o][j].at = "list", task'[o][j].pattern = stored.cron[j],
         task'[o][j].alone <=> \A p \in Settings!Owners \ {o} : task[p][j] = Settings!Off,
         \A p \in Settings!Owners \ {o} :
           task'[p][j] = IF task[p][j] = Settings!Off THEN Settings!Off ELSE Met(task[p][j])
  PROVE  JobHolds(j)' /\ \A p \in Settings!Owners : TaskHolds(p, j)'
<1>1. JobHolds(j)'
  BY DEF JobHolds
<1>2. ASSUME NEW p \in Settings!Owners PROVE TaskHolds(p, j)'
  <2>1. CASE p = o
    BY <2>1 DEF TaskHolds
  <2>2. CASE p # o /\ task[p][j] = Settings!Off
    BY <2>2 DEF TaskHolds, Settings!Off
  <2>3. CASE p # o /\ task[p][j] # Settings!Off
    <3>1. task[p][j] \in TaskRow /\ task'[p][j] = [task[p][j] EXCEPT !.alone = FALSE]
      BY <2>3 DEF SettingsTypeOK, Met
    <3>2. /\ task'[p][j].at = task[p][j].at /\ ~task'[p][j].alone
          /\ task[p][j].at = "drop" => task'[p][j].todo = task[p][j].todo
      BY <2>3, <3>1, TaskParts
    <3> QED
      BY <3>2 DEF SettingsInv, TaskHolds
  <2> QED
    BY <2>1, <2>2, <2>3
<1> QED
  BY <1>1, <1>2

\* A job at which nothing moved.
LEMMA JobStays ==
  ASSUME SettingsTypeOK, SettingsInv, NEW j \in Jobs, stored'.cron[j] = stored.cron[j],
         \A s : s \in schedules' /\ s[1] = j <=> s \in schedules /\ s[1] = j,
         j \in settled' => j \in settled,
         \A p \in Settings!Owners : task'[p][j] = task[p][j]
  PROVE  JobHolds(j)' /\ \A p \in Settings!Owners : TaskHolds(p, j)'
<1>1. \A p : Others(j, p)' = Others(j, p)
  BY DEF Others
<1>2. {s \in schedules : s[1] = j}' = {s \in schedules : s[1] = j}
  OBVIOUS
<1>3. JobHolds(j)'
  BY <1>2 DEF SettingsInv, JobHolds
<1>4. ASSUME NEW p \in Settings!Owners PROVE TaskHolds(p, j)'
  BY <1>1 DEF SettingsInv, TaskHolds
<1> QED
  BY <1>3, <1>4

\* Every step of the settings and of their reschedulings keeps what each holds.
LEMMA SettingsSteps ==
  ASSUME SettingsTypeOK, SettingsTypeOK', SettingsInv, Settings!Next
  PROVE  SettingsInv'
<1>1. ASSUME \A j \in Jobs : JobHolds(j)' /\ \A p \in Settings!Owners : TaskHolds(p, j)',
             \A u \in Writers : UpdateHolds(u)'
      PROVE  SettingsInv'
  BY <1>1 DEF SettingsInv
<1>2. CASE Settings!Boot
  <2>1. /\ task' = Settings!Begun(task, "boot", Settings!First)
        /\ settled' = settled \ {Settings!First} /\ UNCHANGED <<stored, schedules, updater>>
    BY <1>2 DEF Settings!Boot
  <2>2. "boot" \in Settings!Owners /\ task \in [Settings!Owners -> [Jobs -> TaskRow]]
    BY DEF Settings!Owners, SettingsTypeOK
  <2> DEFINE b == Settings!Begun(task, "boot", Settings!First)
  <2>3. /\ \A p \in Settings!Owners, k \in Jobs \ {Settings!First} : b[p][k] = task[p][k]
        /\ Settings!First \in Jobs =>
             /\ b["boot"][Settings!First].at = "list"
             /\ b["boot"][Settings!First].pattern = stored.cron[Settings!First]
             /\ b["boot"][Settings!First].alone
                  <=> \A p \in Settings!Owners \ {"boot"} : task[p][Settings!First] = Settings!Off
             /\ \A p \in Settings!Owners \ {"boot"} :
                  b[p][Settings!First] = IF task[p][Settings!First] = Settings!Off
                                         THEN Settings!Off ELSE Met(task[p][Settings!First])
    BY <2>2, BegunGives
  <2>4. task' = b
    BY <2>1
  <2> HIDE DEF b
  <2>5. ASSUME NEW j \in Jobs PROVE JobHolds(j)' /\ \A p \in Settings!Owners : TaskHolds(p, j)'
    <3>1. CASE j = Settings!First
      BY <2>1, <2>2, <2>3, <2>4, <3>1, BeginningHolds
    <3>2. CASE j # Settings!First
      BY <2>1, <2>3, <2>4, <3>2, JobStays
    <3> QED
      BY <3>1, <3>2
  <2>6. \A u \in Writers : UpdateHolds(u)'
    BY <2>1, UpdatesStay
  <2> QED
    BY <1>1, <2>5, <2>6
<1>3. CASE Settings!Stop
  <2>1. /\ \A p \in Settings!Owners, j \in Jobs : task'[p][j] = Settings!Off
        /\ \A u \in Writers : updater'[u] = Settings!Idle
        /\ UNCHANGED <<stored, schedules, settled>>
    BY <1>3 DEF Settings!Stop
  <2>2. ASSUME NEW j \in Jobs PROVE JobHolds(j)' /\ \A p \in Settings!Owners : TaskHolds(p, j)'
    BY <2>1 DEF SettingsInv, JobHolds, TaskHolds, Settings!Off
  <2>3. \A u \in Writers : UpdateHolds(u)'
    BY <2>1 DEF UpdateHolds, Settings!Idle
  <2> QED
    BY <1>1, <2>2, <2>3
<1>4. ASSUME NEW u \in Writers, Settings!Write(u) PROVE SettingsInv'
  <2> DEFINE c == updater[u].change
  <2>1. /\ c \in Settings!Changes /\ stored' = Settings!Merged(stored, c)
        /\ schedules' = schedules
        /\ \A v \in Writers : updater'[v].at = "write" => updater'[v].raced
        /\ \A o \in Settings!Owners, j \in Jobs :
             task'[o][j] = IF task[o][j] # Settings!Off /\ c.key = "cron" /\ c.job = j
                           THEN Met(task[o][j]) ELSE task[o][j]
        /\ settled' = IF c.key = "cron" THEN settled \ {c.job} ELSE settled
    BY <1>4, WriteGives
  <2>2. \A v \in Writers : UpdateHolds(v)'
    BY <2>1 DEF UpdateHolds
  <2> HIDE DEF c
  <2>3. ASSUME NEW j \in Jobs PROVE JobHolds(j)' /\ \A p \in Settings!Owners : TaskHolds(p, j)'
    <3>1. CASE c.key = "cron" /\ c.job = j
      <4>1. JobHolds(j)'
        BY <2>1, <3>1 DEF JobHolds
      <4>2. ASSUME NEW p \in Settings!Owners PROVE TaskHolds(p, j)'
        <5>1. CASE task[p][j] = Settings!Off
          BY <2>1, <5>1 DEF TaskHolds, Settings!Off
        <5>2. CASE task[p][j] # Settings!Off
          <6>1. task[p][j] \in TaskRow /\ task'[p][j] = [task[p][j] EXCEPT !.alone = FALSE]
            BY <2>1, <3>1, <5>2 DEF SettingsTypeOK, Met
          <6>2. /\ task'[p][j].at = task[p][j].at /\ ~task'[p][j].alone
                /\ task[p][j].at = "drop" => task'[p][j].todo = task[p][j].todo
            BY <5>2, <6>1, TaskParts
          <6> QED
            BY <6>2 DEF SettingsInv, TaskHolds
        <5> QED
          BY <5>1, <5>2
      <4> QED
        BY <4>1, <4>2
    <3>2. CASE ~(c.key = "cron" /\ c.job = j)
      <4>1. stored'.cron[j] = stored.cron[j]
        BY <2>1, <3>2, MergedGives DEF SettingsTypeOK
      <4>2. \A p \in Settings!Owners : task'[p][j] = task[p][j]
        BY <2>1, <3>2
      <4>3. j \in settled' => j \in settled
        BY <2>1
      <4> QED
        BY <2>1, <4>1, <4>2, <4>3, JobStays
    <3> QED
      BY <3>1, <3>2
  <2> QED
    BY <1>1, <2>2, <2>3
<1>5. ASSUME NEW u \in Writers, Settings!Notify(u) PROVE SettingsInv'
  <2>1. /\ stored' = stored /\ settled' = {}
        /\ \A v \in Writers : updater'[v] = updater[v] \/ updater'[v] = Settings!Idle
        /\ u \in Settings!Owners
    BY <1>5 DEF Settings!Notify, SettingsTypeOK, Settings!Owners
  <2>2. ASSUME NEW j \in Jobs PROVE JobHolds(j)' /\ \A p \in Settings!Owners : TaskHolds(p, j)'
    BY <1>5, <2>1, NotifyGives, BeginningHolds
  <2>3. ASSUME NEW v \in Writers PROVE UpdateHolds(v)'
    BY <2>1, UpdatesStay DEF UpdateHolds, Settings!Idle
  <2> QED
    BY <1>1, <2>2, <2>3
<1>6. ASSUME NEW u \in Writers, NEW c \in Settings!Changes, Settings!Ask(u, c)
      PROVE  SettingsInv'
  <2>1. /\ UNCHANGED <<stored, schedules, task, settled>> /\ Settings!Accepted(c)
        /\ updater'[u] = [at |-> "write", change |-> c, raced |-> FALSE]
        /\ \A v \in Writers \ {u} : updater'[v] = updater[v]
    BY <1>6 DEF Settings!Ask, SettingsTypeOK
  <2>2. ASSUME NEW j \in Jobs PROVE JobHolds(j)' /\ \A p \in Settings!Owners : TaskHolds(p, j)'
    BY <2>1, JobStays
  <2>3. UpdateHolds(u)'
    BY <2>1 DEF UpdateHolds, Settings!Accepted, Settings!IncidentsConfigured,
       Settings!readList, Settings!Judged
  <2>4. ASSUME NEW v \in Writers \ {u} PROVE UpdateHolds(v)'
    BY <2>1, UpdatesStay
  <2> QED
    BY <1>1, <2>2, <2>3, <2>4
<1>7. ASSUME NEW o \in Settings!Owners, NEW j \in Jobs, Settings!List(o, j)
      PROVE  SettingsInv'
  <2> DEFINE t == task[o][j]
             new == [at |-> "drop", pattern |-> t.pattern, alone |-> t.alone,
                     todo |-> Others(j, t.pattern)]
  <2>1. t \in TaskRow /\ t.at = "list"
    BY <1>7 DEF Settings!List, SettingsTypeOK
  <2>2. t \in Listing
    BY <2>1, TaskParts
  <2>3. /\ new \in TaskRow /\ new # Settings!Off /\ new.at = "drop" /\ new.pattern = t.pattern
        /\ new.alone = t.alone /\ new.todo = Others(j, t.pattern)
    BY <2>2 DEF Listing, Dropping, TaskRow, SettingsTypeOK, Others, Settings!Off
  <2>4. Settings!Step(o, j, new) /\ UNCHANGED <<stored, schedules, updater, settled>>
    BY <1>7 DEF Settings!List, Others
  <2> HIDE DEF new
  <2>5. /\ task'[o][j] = new
        /\ \A p \in Settings!Owners, k \in Jobs : p # o \/ k # j => task'[p][k] = task[p][k]
    BY <2>3, <2>4, StepGives
  <2>6. t # Settings!Off
    BY <2>1, TaskParts
  <2>7. ASSUME NEW k \in Jobs \ {j} PROVE JobHolds(k)' /\ \A p \in Settings!Owners : TaskHolds(p, k)'
    BY <2>4, <2>5, <2>7, JobStays
  <2>8. JobHolds(j)'
    BY <2>4, <2>6 DEF SettingsInv, JobHolds
  <2>9. TaskHolds(o, j)'
    <3>1. \A x : Others(j, x)' = Others(j, x)
      BY <2>4 DEF Others
    <3>2. new.alone => t.pattern = stored.cron[j]
                       /\ \A p \in Settings!Owners \ {o} : task[p][j] = Settings!Off
      BY <2>3, <2>6 DEF SettingsInv, TaskHolds
    <3>3. \A s \in new.todo : s[1] = j
      BY <2>3 DEF Others
    <3>4. \A x : x = new.pattern => Others(j, x)' = new.todo
      BY <2>3, <3>1
    <3> QED
      BY <2>3, <2>4, <2>5, <3>2, <3>3, <3>4 DEF TaskHolds, Others
  <2>10. ASSUME NEW p \in Settings!Owners \ {o} PROVE TaskHolds(p, j)'
    <3>1. task'[p][j] = task[p][j] /\ (task[p][j] # Settings!Off => ~task[p][j].alone)
      BY <2>5, <2>6 DEF SettingsInv, TaskHolds
    <3> QED
      BY <3>1 DEF SettingsInv, TaskHolds
  <2>11. \A u \in Writers : UpdateHolds(u)'
    BY <2>4, UpdatesStay
  <2>12. \A p \in Settings!Owners : TaskHolds(p, j)'
    BY <2>9, <2>10
  <2>13. \A k \in Jobs : JobHolds(k)' /\ \A p \in Settings!Owners : TaskHolds(p, k)'
    BY <2>7, <2>8, <2>12
  <2> QED
    BY <1>1, <2>11, <2>13
<1>8. ASSUME NEW o \in Settings!Owners, NEW j \in Jobs, Settings!Drop(o, j)
      PROVE  SettingsInv'
  <2> DEFINE t == task[o][j]
  <2>1. PICK s \in t.todo :
          /\ schedules' = schedules \ {s}
          /\ Settings!Step(o, j, [t EXCEPT !.todo = @ \ {s}])
          /\ UNCHANGED <<stored, updater, settled>>
    BY <1>8 DEF Settings!Drop
  <2>2. t \in TaskRow /\ t.at = "drop"
    BY <1>8 DEF Settings!Drop, SettingsTypeOK
  <2>3. t \in Dropping /\ t # Settings!Off
    BY <2>2, TaskParts
  <2> DEFINE new == [t EXCEPT !.todo = @ \ {s}]
  <2>4. /\ new \in TaskRow /\ new # Settings!Off /\ new.at = "drop" /\ new.pattern = t.pattern
        /\ new.alone = t.alone /\ new.todo = t.todo \ {s}
    BY <2>3 DEF Dropping, TaskRow, Settings!Off
  <2>5. Settings!Step(o, j, new)
    BY <2>1
  <2>6. s[1] = j
    BY <2>2 DEF SettingsInv, TaskHolds
  <2> HIDE DEF new
  <2>7. /\ task'[o][j] = new
        /\ \A p \in Settings!Owners, k \in Jobs : p # o \/ k # j => task'[p][k] = task[p][k]
    BY <2>4, <2>5, StepGives
  <2>8. ASSUME NEW k \in Jobs \ {j}
        PROVE  JobHolds(k)' /\ \A p \in Settings!Owners : TaskHolds(p, k)'
    BY <2>1, <2>6, <2>7, <2>8, JobStays
  <2>9. JobHolds(j)'
    BY <2>1, <2>3 DEF SettingsInv, JobHolds
  <2>10. TaskHolds(o, j)'
    <3>1. new.alone => /\ t.pattern = stored.cron[j]
                       /\ \A p \in Settings!Owners \ {o} : task[p][j] = Settings!Off
                       /\ Others(j, t.pattern) \subseteq t.todo
      BY <2>2, <2>3, <2>4 DEF SettingsInv, TaskHolds
    <3>2. \A x \in new.todo : x[1] = j
      BY <2>2, <2>4 DEF SettingsInv, TaskHolds
    <3>3. new.alone => \A x : x = new.pattern => Others(j, x)' \subseteq new.todo
      BY <2>1, <2>4, <3>1 DEF Others
    <3> QED
      BY <2>1, <2>4, <2>7, <3>1, <3>2, <3>3 DEF TaskHolds, Others
  <2>11. ASSUME NEW p \in Settings!Owners \ {o} PROVE TaskHolds(p, j)'
    <3>1. task'[p][j] = task[p][j] /\ (task[p][j] # Settings!Off => ~task[p][j].alone)
      BY <2>3, <2>7 DEF SettingsInv, TaskHolds
    <3> QED
      BY <3>1 DEF SettingsInv, TaskHolds
  <2>12. \A u \in Writers : UpdateHolds(u)'
    BY <2>1, UpdatesStay
  <2>13. \A p \in Settings!Owners : TaskHolds(p, j)'
    BY <2>10, <2>11
  <2>14. \A k \in Jobs : JobHolds(k)' /\ \A p \in Settings!Owners : TaskHolds(p, k)'
    BY <2>8, <2>9, <2>13
  <2> QED
    BY <1>1, <2>12, <2>14
<1>9. ASSUME NEW o \in Settings!Owners, NEW j \in Jobs, Settings!Add(o, j)
      PROVE  SettingsInv'
  <2> DEFINE t == task[o][j]
  <2>1. /\ t \in Dropping /\ t.todo = {} /\ schedules' = schedules \cup {<<j, t.pattern>>}
        /\ stored' = stored /\ updater' = updater
        /\ settled' \subseteq settled \cup (IF t.alone THEN {j} ELSE {})
        /\ task'[o][j] = Settings!Off
        /\ \A p \in Settings!Owners \ {o} : task'[p][j] = task[p][j]
    BY <1>9, AddGives
  <2>2. t \in TaskRow /\ t.at = "drop"
    BY <2>1 DEF Dropping, TaskRow
  <2>3. t # Settings!Off
    BY <2>2, TaskParts
  <2>4. ASSUME NEW k \in Jobs \ {j}
        PROVE  JobHolds(k)' /\ \A p \in Settings!Owners : TaskHolds(p, k)'
    <3>1. CASE \A p \in Settings!Owners : task'[p][k] = task[p][k]
      <4>1. \A s : s \in schedules' /\ s[1] = k <=> s \in schedules /\ s[1] = k
        BY <2>1, <2>4
      <4>2. k \in settled' => k \in settled
        BY <2>1, <2>4
      <4> QED
        BY <2>1, <3>1, <4>1, <4>2, JobStays
    <3>2. CASE /\ k \notin settled'
               /\ task'[o][k].at = "list" /\ task'[o][k].pattern = stored.cron[k]
               /\ task'[o][k].alone
                    <=> \A p \in Settings!Owners \ {o} : task[p][k] = Settings!Off
               /\ \A p \in Settings!Owners \ {o} :
                    task'[p][k] = IF task[p][k] = Settings!Off THEN Settings!Off
                                  ELSE Met(task[p][k])
      BY <2>1, <2>4, <3>2, BeginningHolds
    <3> QED
      BY <1>9, <2>4, <3>1, <3>2, AddGives
  <2>5. JobHolds(j)'
    <3>1. j \notin settled
      BY <2>3 DEF SettingsInv, JobHolds
    <3>2. CASE t.alone
      <4>1. /\ t.pattern = stored.cron[j]
            /\ \A p \in Settings!Owners \ {o} : task[p][j] = Settings!Off
            /\ Others(j, t.pattern) = {}
        BY <2>1, <2>2, <2>3, <3>2 DEF SettingsInv, TaskHolds
      <4>2. ASSUME NEW s \in schedules', s[1] = j PROVE s = <<j, stored.cron[j]>>
        <5>1. CASE s \in schedules
          <6>1. s \in Jobs \X KnownPatterns /\ s[2] = t.pattern
            BY <4>1, <4>2, <5>1 DEF Others, SettingsTypeOK
          <6> QED
            BY <4>1, <4>2, <6>1
        <5>2. CASE s \notin schedules
          BY <2>1, <4>1, <4>2, <5>2
        <5> QED
          BY <5>1, <5>2
      <4>3. {s \in schedules' : s[1] = j} = {<<j, stored.cron[j]>>}
        BY <2>1, <4>1, <4>2
      <4> QED
        BY <2>1, <4>1, <4>3 DEF JobHolds
    <3>3. CASE ~t.alone
      BY <2>1, <3>1, <3>3 DEF JobHolds
    <3> QED
      BY <3>2, <3>3
  <2>6. ASSUME NEW p \in Settings!Owners PROVE TaskHolds(p, j)'
    <3>1. CASE p = o
      BY <2>1, <3>1 DEF TaskHolds, Settings!Off
    <3>2. CASE p # o
      <4>1. task'[p][j] = task[p][j] /\ (task[p][j] # Settings!Off => ~task[p][j].alone)
        BY <2>1, <2>3, <3>2 DEF SettingsInv, TaskHolds
      <4> QED
        BY <4>1 DEF SettingsInv, TaskHolds
    <3> QED
      BY <3>1, <3>2
  <2>7. \A u \in Writers : UpdateHolds(u)'
    BY <2>1, UpdatesStay
  <2>8. \A k \in Jobs : JobHolds(k)' /\ \A p \in Settings!Owners : TaskHolds(p, k)'
    BY <2>4, <2>5, <2>6
  <2> QED
    BY <1>1, <2>7, <2>8
<1>10. ASSUME NEW o \in Settings!Owners, NEW j \in Jobs, Settings!Refused(o, j)
       PROVE  SettingsInv'
  <2>1. /\ Settings!Step(o, j, Settings!Off) /\ task[o][j] # Settings!Off
        /\ UNCHANGED <<stored, schedules, updater, settled>>
    BY <1>10 DEF Settings!Refused
  <2>2. Settings!Off \in TaskRow
    BY DEF TaskRow
  <2>3. /\ task'[o][j] = Settings!Off
        /\ \A p \in Settings!Owners, k \in Jobs : p # o \/ k # j => task'[p][k] = task[p][k]
    BY <2>1, <2>2, StepGives
  <2>4. ASSUME NEW k \in Jobs \ {j}
        PROVE  JobHolds(k)' /\ \A p \in Settings!Owners : TaskHolds(p, k)'
    BY <2>1, <2>3, <2>4, JobStays
  <2>5. JobHolds(j)'
    BY <2>1 DEF SettingsInv, JobHolds
  <2>6. ASSUME NEW p \in Settings!Owners PROVE TaskHolds(p, j)'
    <3>1. CASE p = o
      BY <2>3, <3>1 DEF TaskHolds, Settings!Off
    <3>2. CASE p # o
      <4>1. task'[p][j] = task[p][j] /\ (task[p][j] # Settings!Off => ~task[p][j].alone)
        BY <2>1, <2>3, <3>2 DEF SettingsInv, TaskHolds
      <4> QED
        BY <4>1 DEF SettingsInv, TaskHolds
    <3> QED
      BY <3>1, <3>2
  <2>7. \A u \in Writers : UpdateHolds(u)'
    BY <2>1, UpdatesStay
  <2>8. \A k \in Jobs : JobHolds(k)' /\ \A p \in Settings!Owners : TaskHolds(p, k)'
    BY <2>4, <2>5, <2>6
  <2> QED
    BY <1>1, <2>7, <2>8
<1> QED
  BY <1>2, <1>3, <1>4, <1>5, <1>6, <1>7, <1>8, <1>9, <1>10 DEF Settings!Next

\* What the updates and the reschedulings hold is inductive.
THEOREM SettingsInvariant == Settings!Spec => []SettingsInv
<1>1. ASSUME Settings!Init PROVE SettingsInv
  <2>1. /\ \A p \in Settings!Owners, j \in Jobs : task[p][j] = Settings!Off
        /\ settled = {} /\ \A u \in Writers : updater[u] = Settings!Idle
    BY <1>1 DEF Settings!Init
  <2> QED
    BY <2>1 DEF SettingsInv, TaskHolds, JobHolds, UpdateHolds, Settings!Off, Settings!Idle
<1>2. ASSUME SettingsTypeOK, SettingsTypeOK', SettingsInv, [Settings!Next]_(Settings!vars)
      PROVE  SettingsInv'
  <2>1. CASE UNCHANGED Settings!vars
    <3>1. UNCHANGED <<stored, schedules, updater, task, settled>>
      BY <2>1 DEF Settings!vars
    <3>2. \A u \in Writers : UpdateHolds(u)'
      BY <1>2, <3>1, UpdatesStay
    <3>3. ASSUME NEW j \in Jobs
          PROVE  JobHolds(j)' /\ \A p \in Settings!Owners : TaskHolds(p, j)'
      BY <1>2, <3>1, JobStays
    <3> QED
      BY <3>2, <3>3 DEF SettingsInv
  <2> QED
    BY <1>2, <2>1, SettingsSteps
<1> QED
  BY <1>1, <1>2, SettingsTypeCorrect, PTL DEF Settings!Spec

\* A rescheduling that met no other one of its job, no later setting and no
\* refusal leaves the job on one schedule, the stored one, whatever an earlier
\* race or refusal had left behind (CollectionScheduler.schedule).
THEOREM SettledJobsAreExact == Settings!Spec => []Settings!SettledIsExact
<1>1. SettingsTypeOK /\ SettingsInv => Settings!SettledIsExact
  BY DEF SettingsTypeOK, SettingsInv, JobHolds, Settings!SettledIsExact
<1> QED
  BY <1>1, SettingsInvariant, SettingsTypeCorrect, PTL

\* Incidents come to be read without labels only by an update another one
\* overtook between its check and its write, or by labels the text does not keep
\* as they were judged (SettingsService.update).
THEOREM LabelsGoOnlyByRace == Settings!Spec => [][Settings!UnlabelledOnlyByRace]_(Settings!vars)
<1>1. ASSUME SettingsTypeOK, SettingsInv, [Settings!Next]_(Settings!vars)
      PROVE  Settings!UnlabelledOnlyByRace
  <2> SUFFICES ASSUME Settings!Configured(stored), ~Settings!Configured(stored')
               PROVE  \E u \in Writers :
                        /\ updater[u].at = "write"
                        /\ \/ updater[u].raced
                           \/ /\ updater[u].change.key = "labels"
                              /\ Settings!Judged(updater[u].change.value)
                                   # Settings!readList(Settings!Text(updater[u].change.value))
    BY DEF Settings!UnlabelledOnlyByRace
  <2>1. stored' # stored
    OBVIOUS
  <2>2. PICK u \in Writers : Settings!Write(u)
    BY <1>1, <2>1 DEF Settings!Next, Settings!vars, Settings!Boot, Settings!Stop, Settings!Notify,
       Settings!Ask, Settings!List, Settings!Drop, Settings!Add, Settings!Refused
  <2> DEFINE c == updater[u].change
  <2>3. /\ c \in Settings!Changes /\ updater[u].at = "write"
        /\ stored' = Settings!Merged(stored, c)
    BY <1>1, <2>2, WriteGives
  <2>4. ~updater[u].raced => Settings!Accepted(c)
    BY <1>1, <2>3 DEF SettingsInv, UpdateHolds
  <2>5. stored \in SettingsRow
    BY <1>1 DEF SettingsTypeOK
  <2> HIDE DEF c
  <2>6. CASE c.key = "cron"
    <3>1. stored'.source = stored.source /\ stored'.labels = stored.labels
      BY <2>3, <2>5, <2>6, MergedGives
    <3> QED
      BY <3>1 DEF Settings!Configured, Settings!IncidentsConfigured
  <2>7. CASE c.key = "source"
    <3>1. stored'.source = c.value /\ stored'.labels = stored.labels
      BY <2>3, <2>5, <2>7, MergedGives
    <3>2. ~Settings!Accepted(c)
      BY <2>7, <3>1 DEF Settings!Configured, Settings!Accepted
    <3> QED
      BY <2>3, <2>4, <3>2
  <2>8. CASE c.key = "labels"
    <3>1. stored'.source = stored.source /\ stored'.labels = Settings!Text(c.value)
      BY <2>3, <2>5, <2>8, MergedGives
    <3>2. ~updater[u].raced => Settings!IncidentsConfigured(stored.source, Settings!Judged(c.value))
      BY <2>4, <2>8 DEF Settings!Accepted
    <3>3. ~updater[u].raced =>
            Settings!Judged(c.value) # Settings!readList(Settings!Text(c.value))
      BY <3>1, <3>2 DEF Settings!Configured
    <3> QED
      BY <2>3, <2>8, <3>3 DEF c
  <2> QED
    BY <2>3, <2>6, <2>7, <2>8, ChangeParts
<1> QED
  BY <1>1, SettingsInvariant, SettingsTypeCorrect, PTL DEF Settings!Spec

-----------------------------------------------------------------------------
(* Defaults.                                                               *)

CreatingRow == [at: {"create"}, id: Providers, takes: BOOLEAN, others: SUBSET Providers]

TakingRow == [at: {"take"}, id: Providers, others: SUBSET Providers]

RemovingRow == [at: {"forget"}, id: Providers, was: BOOLEAN]

HeirRow == [at: {"heir"}, id: Providers]

DefaultsRequest == {Defaults!Idle} \cup CreatingRow \cup TakingRow \cup RemovingRow \cup HeirRow

DefaultsTypeOK ==
  /\ table \in Seq(Providers)
  /\ default \subseteq Providers /\ keys \subseteq Providers
  /\ req \in [Writers -> DefaultsRequest]
  /\ crashes \in Nat /\ raced \in BOOLEAN

\* A row is listed once, and what is being created is nobody else's.
EachOnce == \A m, n \in DOMAIN table : table[m] = table[n] => m = n

CreationHolds(q) ==
  req[q].at = "create" =>
    /\ req[q].id \notin Defaults!Rows
    /\ \A p \in Writers \ {q} : req[p] # Defaults!Idle => req[p].id # req[q].id

\* One default at most, a row, and one as soon as there is a row to take it.
AtMostOne == default \subseteq Defaults!Rows /\ \A a, b \in default : a = b

Chosen == Promotes /\ table # <<>> => default # {}

\* Who has removed the default and has not named its heir.
Owing(q) == Promotes /\ (req[q].at = "heir" \/ (req[q].at = "forget" /\ req[q].was))

\* While no write has landed between another request's reading and its writing,
\* what a request has read is still so; and only a request that removed the
\* default, alone, leaves the table without one.
ReadingHolds(q) ==
  /\ req[q].at = "create" => /\ req[q].others = IF req[q].takes THEN default ELSE {}
                             /\ ~req[q].takes => ~(Promotes /\ table = <<>>)
  /\ req[q].at = "take" => req[q].id \in Defaults!Rows /\ req[q].others = default \ {req[q].id}
  /\ req[q].at = "heir" => Promotes
  /\ Owing(q) => default = {}

DefaultHolds ==
  /\ AtMostOne
  /\ \A q \in Writers : ReadingHolds(q)
  /\ (\A q \in Writers : ~Owing(q)) => Chosen

DefaultsInv ==
  /\ EachOnce
  /\ \A q \in Writers : CreationHolds(q)
  /\ ~raced /\ crashes = 0 => DefaultHolds
  /\ Defaults!KeysHaveOwners

\* What is left of the rows without the n-th is a sequence of them, and every
\* other row is in it (remove).
LEMMA WithoutGives ==
  ASSUME NEW S, table \in Seq(S), NEW n \in DOMAIN table
  PROVE  /\ Defaults!Without(n) \in Seq(S)
         /\ DOMAIN Defaults!Without(n) = 1 .. Len(table) - 1
         /\ \A m \in 1 .. Len(table) - 1 :
              Defaults!Without(n)[m] = IF m < n THEN table[m] ELSE table[m + 1]
         /\ \A m \in DOMAIN table \ {n} :
              \E j \in DOMAIN Defaults!Without(n) : Defaults!Without(n)[j] = table[m]
<1> DEFINE w == Defaults!Without(n)
<1>1. Len(table) \in Nat \ {0} /\ DOMAIN table = 1 .. Len(table) /\ n \in 1 .. Len(table)
  OBVIOUS
<1>2. w = [m \in 1 .. Len(table) - 1 |-> IF m < n THEN table[m] ELSE table[m + 1]]
  BY DEF Defaults!Without
<1> HIDE DEF w
<1>3. \A m \in 1 .. Len(table) - 1 : table[m] \in S /\ table[m + 1] \in S
  BY <1>1
<1>4. w \in [1 .. Len(table) - 1 -> S]
  BY <1>2, <1>3
<1>5. Len(table) - 1 \in Nat
  BY <1>1
<1>6. w \in Seq(S)
  BY <1>4, <1>5
<1>7. DOMAIN w = 1 .. Len(table) - 1
     /\ \A m \in 1 .. Len(table) - 1 : w[m] = IF m < n THEN table[m] ELSE table[m + 1]
  BY <1>2
<1>8. ASSUME NEW m \in DOMAIN table \ {n}
      PROVE  \E j \in DOMAIN w : w[j] = table[m]
  <2>1. CASE m < n
    <3>1. m \in DOMAIN w /\ w[m] = table[m]
      BY <1>1, <1>7, <2>1
    <3> QED  BY <3>1
  <2>2. CASE ~(m < n)
    <3>1. m - 1 \in DOMAIN w /\ ~(m - 1 < n) /\ (m - 1) + 1 = m
      BY <1>1, <1>7, <2>2
    <3>2. w[m - 1] = table[m]
      BY <1>7, <3>1
    <3> QED  BY <3>1, <3>2
  <2> QED  BY <2>1, <2>2
<1> QED  BY <1>6, <1>7, <1>8 DEF w

\* The rows after a removal: all but the one removed, and it is gone when it was
\* listed once (remove).
LEMMA RemovalRows ==
  ASSUME table \in Seq(Providers), EachOnce, NEW n \in DOMAIN table, table' = Defaults!Without(n)
  PROVE  /\ table' \in Seq(Providers)
         /\ Defaults!Rows' = Defaults!Rows \ {table[n]}
         /\ EachOnce'
<1>0. Len(table) \in Nat /\ DOMAIN table = 1 .. Len(table) /\ n \in 1 .. Len(table)
  OBVIOUS
<1>1. /\ table' \in Seq(Providers)
      /\ DOMAIN table' = 1 .. Len(table) - 1
      /\ \A m \in 1 .. Len(table) - 1 : table'[m] = IF m < n THEN table[m] ELSE table[m + 1]
      /\ \A m \in DOMAIN table \ {n} : \E j \in DOMAIN table' : table'[j] = table[m]
  BY WithoutGives
<1>2. ASSUME NEW m \in DOMAIN table'
      PROVE  \E k \in DOMAIN table : k # n /\ table'[m] = table[k]
                                     /\ (m < n => k = m) /\ (~(m < n) => k = m + 1)
  <2>1. CASE m < n
    BY <1>0, <1>1, <2>1
  <2>2. CASE ~(m < n)
    <3>1. m + 1 \in DOMAIN table /\ m + 1 # n /\ table'[m] = table[m + 1]
      BY <1>0, <1>1, <2>2
    <3> QED  BY <3>1, <2>2
  <2> QED  BY <2>1, <2>2
<1>3. Defaults!Rows' = Defaults!Rows \ {table[n]}
  <2>1. ASSUME NEW x \in Defaults!Rows'  PROVE x \in Defaults!Rows \ {table[n]}
    <3>1. PICK m \in DOMAIN table' : x = table'[m]
      BY DEF Defaults!Rows
    <3>2. PICK k \in DOMAIN table : k # n /\ table'[m] = table[k]
      BY <1>2
    <3> QED  BY <3>1, <3>2 DEF EachOnce, Defaults!Rows
  <2>2. ASSUME NEW x \in Defaults!Rows \ {table[n]}  PROVE x \in Defaults!Rows'
    <3>1. PICK m \in DOMAIN table \ {n} : x = table[m]
      BY DEF Defaults!Rows
    <3> QED  BY <1>1, <3>1 DEF Defaults!Rows
  <2> QED  BY <2>1, <2>2
<1>4. EachOnce'
  <2>1. ASSUME NEW m \in DOMAIN table', NEW j \in DOMAIN table', table'[m] = table'[j]
        PROVE  m = j
    <3>1. PICK k \in DOMAIN table : k # n /\ table'[m] = table[k]
                                     /\ (m < n => k = m) /\ (~(m < n) => k = m + 1)
      BY <1>2
    <3>2. PICK l \in DOMAIN table : l # n /\ table'[j] = table[l]
                                     /\ (j < n => l = j) /\ (~(j < n) => l = j + 1)
      BY <1>2
    <3>3. k = l
      BY <2>1, <3>1, <3>2 DEF EachOnce
    <3>4. m \in Nat /\ j \in Nat
      BY <1>0, <1>1
    <3> QED  BY <1>0, <3>1, <3>2, <3>3, <3>4
  <2> QED  BY <2>1 DEF EachOnce
<1> QED  BY <1>1, <1>3, <1>4

\* The rows after a creation: the new one as well (create).
LEMMA CreationRows ==
  ASSUME table \in Seq(Providers), EachOnce, NEW i \in Providers, i \notin Defaults!Rows,
         table' = Append(table, i)
  PROVE  /\ table' \in Seq(Providers)
         /\ Defaults!Rows' = Defaults!Rows \cup {i}
         /\ EachOnce'
<1>0. Len(table) \in Nat /\ DOMAIN table = 1 .. Len(table)
  OBVIOUS
<1>1. /\ table' \in Seq(Providers)
      /\ DOMAIN table' = 1 .. Len(table) + 1
      /\ table'[Len(table) + 1] = i
      /\ \A m \in DOMAIN table : table'[m] = table[m]
  OBVIOUS
<1>2. DOMAIN table' = DOMAIN table \cup {Len(table) + 1}
  BY <1>0, <1>1
<1>3. Defaults!Rows' = Defaults!Rows \cup {i}
  BY <1>1, <1>2 DEF Defaults!Rows
<1>4. EachOnce'
  BY <1>1, <1>2 DEF EachOnce, Defaults!Rows
<1> QED  BY <1>1, <1>3, <1>4

\* What a request carries, by the step it is at (create, makeDefault, remove).
LEMMA RequestParts ==
  ASSUME NEW r \in DefaultsRequest
  PROVE  /\ r = Defaults!Idle \/ (r.at # "idle" /\ r.id \in Providers)
         /\ r.at = "create" => r \in CreatingRow
         /\ r.at = "take" => r \in TakingRow
         /\ r.at = "forget" => r \in RemovingRow
         /\ r.at = "heir" => r \in HeirRow
         /\ Defaults!Idle.at = "idle"
<1>1. CASE r = Defaults!Idle
  BY <1>1 DEF Defaults!Idle
<1>2. CASE r \in CreatingRow
  BY <1>2 DEF CreatingRow, Defaults!Idle
<1>3. CASE r \in TakingRow
  BY <1>3 DEF TakingRow, Defaults!Idle
<1>4. CASE r \in RemovingRow
  BY <1>4 DEF RemovingRow, Defaults!Idle
<1>5. CASE r \in HeirRow
  BY <1>5 DEF HeirRow, Defaults!Idle
<1> QED  BY <1>1, <1>2, <1>3, <1>4, <1>5 DEF DefaultsRequest

\* Replacing what one request is doing keeps the requests' type.
LEMMA BecomesKeeps ==
  ASSUME req \in [Writers -> DefaultsRequest], NEW q \in Writers, NEW r \in DefaultsRequest,
         Defaults!Becomes(q, r)
  PROVE  /\ req' \in [Writers -> DefaultsRequest]
         /\ req'[q] = r
         /\ \A p \in Writers \ {q} : req'[p] = req[p]
BY DEF Defaults!Becomes

\* The rows and the requests are of their types, whatever the bounds.
LEMMA DefaultsTypeStep ==
  ASSUME DefaultsTypeOK, EachOnce, \A q \in Writers : CreationHolds(q),
         [Defaults!Next]_(Defaults!vars)
  PROVE  DefaultsTypeOK' /\ EachOnce'
<1> USE DEF DefaultsTypeOK
<1>0. /\ \A q \in Writers : req[q] \in DefaultsRequest
      /\ Defaults!Idle \in DefaultsRequest
  BY DEF DefaultsRequest
<1>1. CASE UNCHANGED Defaults!vars
  BY <1>1 DEF Defaults!vars, EachOnce
<1>2. ASSUME NEW q \in Writers, Defaults!CommitCreate(q)
      PROVE  DefaultsTypeOK' /\ EachOnce'
  <2>1. req[q] \in CreatingRow
    BY <1>0, <1>2, RequestParts DEF Defaults!CommitCreate
  <2>2. req[q].id \in Providers /\ req[q].id \notin Defaults!Rows
    BY <1>2, <2>1 DEF CreatingRow, CreationHolds, Defaults!CommitCreate
  <2>3. table' \in Seq(Providers) /\ EachOnce'
    BY <1>2, <2>2, CreationRows DEF Defaults!CommitCreate
  <2>4. default' \subseteq Providers /\ keys' \subseteq Providers /\ crashes' \in Nat
    BY <1>2, <2>2 DEF Defaults!CommitCreate
  <2>5. req' \in [Writers -> DefaultsRequest]
    BY <1>0, <1>2, BecomesKeeps DEF Defaults!CommitCreate
  <2>6. raced' \in BOOLEAN
    BY <1>2 DEF Defaults!CommitCreate, Defaults!Lands
  <2> QED  BY <2>3, <2>4, <2>5, <2>6
<1>3. ASSUME NEW q \in Writers, Defaults!CommitTake(q)
      PROVE  DefaultsTypeOK' /\ EachOnce'
  <2>1. req[q].id \in Providers
    BY <1>0, <1>3, RequestParts DEF Defaults!CommitTake, TakingRow
  <2>2. table' = table /\ default' \subseteq Providers /\ keys' = keys /\ crashes' = crashes
    BY <1>3, <2>1 DEF Defaults!CommitTake
  <2>3. req' \in [Writers -> DefaultsRequest]
    BY <1>0, <1>3, BecomesKeeps DEF Defaults!CommitTake
  <2>4. raced' \in BOOLEAN
    BY <1>3 DEF Defaults!CommitTake, Defaults!Lands
  <2> QED  BY <2>2, <2>3, <2>4 DEF EachOnce
<1>4. ASSUME NEW q \in Writers, Defaults!Forget(q)
      PROVE  DefaultsTypeOK' /\ EachOnce'
  <2> DEFINE r == IF Promotes /\ req[q].was THEN [at |-> "heir", id |-> req[q].id] ELSE Defaults!Idle
  <2>1. req[q].id \in Providers
    BY <1>0, <1>4, RequestParts DEF Defaults!Forget, RemovingRow
  <2>2. [at |-> "heir", id |-> req[q].id] \in HeirRow
    BY <2>1 DEF HeirRow
  <2>3. r \in DefaultsRequest
    BY <1>0, <2>2 DEF DefaultsRequest
  <2>4. Defaults!Becomes(q, r)
    BY <1>4 DEF Defaults!Forget
  <2>5. UNCHANGED <<table, default, crashes, raced>> /\ keys' \subseteq Providers
    BY <1>4 DEF Defaults!Forget
  <2> HIDE DEF r
  <2>6. req' \in [Writers -> DefaultsRequest]
    BY <2>3, <2>4, BecomesKeeps
  <2> QED  BY <2>5, <2>6 DEF EachOnce
<1>5. ASSUME NEW q \in Writers, Defaults!Promote(q)
      PROVE  DefaultsTypeOK' /\ EachOnce'
  <2>1. table' = table /\ default' \subseteq Providers /\ keys' = keys /\ crashes' = crashes
    BY <1>5 DEF Defaults!Promote
  <2>2. req' \in [Writers -> DefaultsRequest]
    BY <1>0, <1>5, BecomesKeeps DEF Defaults!Promote
  <2>3. raced' \in BOOLEAN
    BY <1>5 DEF Defaults!Promote, Defaults!Lands
  <2> QED  BY <2>1, <2>2, <2>3 DEF EachOnce
<1>6. ASSUME NEW q \in Writers, Defaults!Crash(q)
      PROVE  DefaultsTypeOK' /\ EachOnce'
  <2>1. UNCHANGED <<table, default, keys, raced>> /\ crashes' \in Nat
    BY <1>6 DEF Defaults!Crash
  <2>2. req' \in [Writers -> DefaultsRequest]
    BY <1>0, <1>6, BecomesKeeps DEF Defaults!Crash
  <2> QED  BY <2>1, <2>2 DEF EachOnce
<1>7. ASSUME NEW q \in Writers, NEW i \in Providers, Defaults!Take(q, i)
      PROVE  DefaultsTypeOK' /\ EachOnce'
  <2> DEFINE r == [at |-> "take", id |-> i, others |-> default \ {i}]
  <2>1. r \in TakingRow
    BY DEF TakingRow
  <2>2. Defaults!Becomes(q, r) /\ UNCHANGED <<table, default, keys, crashes, raced>>
    BY <1>7 DEF Defaults!Take
  <2> HIDE DEF r
  <2>3. req' \in [Writers -> DefaultsRequest]
    BY <2>1, <2>2, BecomesKeeps DEF DefaultsRequest
  <2> QED  BY <2>2, <2>3 DEF EachOnce
<1>8. ASSUME NEW q \in Writers, NEW i \in Providers, Defaults!SaveKey(q, i)
      PROVE  DefaultsTypeOK' /\ EachOnce'
  BY <1>8 DEF Defaults!SaveKey, EachOnce
<1>9. ASSUME NEW q \in Writers, NEW i \in Providers, Defaults!RemoveRow(q, i)
      PROVE  DefaultsTypeOK' /\ EachOnce'
  <2> DEFINE r == [at |-> "forget", id |-> i, was |-> i \in default]
  <2>1. r \in RemovingRow
    BY DEF RemovingRow
  <2>2. Defaults!Becomes(q, r) /\ default' \subseteq Providers /\ UNCHANGED <<keys, crashes>>
    BY <1>9 DEF Defaults!RemoveRow
  <2> HIDE DEF r
  <2>3. req' \in [Writers -> DefaultsRequest]
    BY <2>1, <2>2, BecomesKeeps DEF DefaultsRequest
  <2>4. PICK n \in DOMAIN table : table[n] = i /\ table' = Defaults!Without(n)
    BY <1>9 DEF Defaults!RemoveRow
  <2>5. table' \in Seq(Providers) /\ EachOnce'
    BY <2>4, RemovalRows
  <2>6. raced' \in BOOLEAN
    BY <1>9 DEF Defaults!RemoveRow, Defaults!Lands
  <2> QED  BY <2>2, <2>3, <2>5, <2>6
<1>10. ASSUME NEW q \in Writers, NEW i \in Providers, NEW chosen \in BOOLEAN,
              Defaults!Create(q, i, chosen)
       PROVE  DefaultsTypeOK' /\ EachOnce'
  <2> DEFINE t == Promotes /\ (table = <<>> \/ chosen)
             r == [at |-> "create", id |-> i, takes |-> t, others |-> IF t THEN default ELSE {}]
  <2>1. r \in CreatingRow
    BY DEF CreatingRow
  <2>2. Defaults!Becomes(q, r) /\ UNCHANGED <<table, default, keys, crashes, raced>>
    BY <1>10 DEF Defaults!Create
  <2> HIDE DEF r
  <2>3. req' \in [Writers -> DefaultsRequest]
    BY <2>1, <2>2, BecomesKeeps DEF DefaultsRequest
  <2> QED  BY <2>2, <2>3 DEF EachOnce
<1> QED  BY <1>1, <1>2, <1>3, <1>4, <1>5, <1>6, <1>7, <1>8, <1>9, <1>10 DEF Defaults!Next

\* How each step of the table changes the rows and who is doing what.
LEMMA DefaultsGives ==
  ASSUME DefaultsTypeOK, EachOnce, \A q \in Writers : CreationHolds(q)
  PROVE  /\ \A q \in Writers : Defaults!CommitCreate(q) =>
              Defaults!Rows' = Defaults!Rows \cup {req[q].id}
         /\ \A q \in Writers, i \in Providers : Defaults!RemoveRow(q, i) =>
              i \in Defaults!Rows /\ Defaults!Rows' = Defaults!Rows \ {i}
<1> USE DEF DefaultsTypeOK
<1>1. ASSUME NEW q \in Writers, Defaults!CommitCreate(q)
      PROVE  Defaults!Rows' = Defaults!Rows \cup {req[q].id}
  <2>1. req[q] \in CreatingRow
    BY <1>1, RequestParts DEF Defaults!CommitCreate
  <2>2. req[q].id \in Providers /\ req[q].id \notin Defaults!Rows
    BY <1>1, <2>1 DEF CreatingRow, CreationHolds, Defaults!CommitCreate
  <2> QED  BY <1>1, <2>2, CreationRows DEF Defaults!CommitCreate
<1>2. ASSUME NEW q \in Writers, NEW i \in Providers, Defaults!RemoveRow(q, i)
      PROVE  i \in Defaults!Rows /\ Defaults!Rows' = Defaults!Rows \ {i}
  <2>1. PICK n \in DOMAIN table : table[n] = i /\ table' = Defaults!Without(n)
    BY <1>2 DEF Defaults!RemoveRow
  <2> QED  BY <2>1, RemovalRows DEF Defaults!Rows
<1> QED  BY <1>1, <1>2

\* One request moves on at a time, to its next step, and the others stay where
\* they are.
LEMMA OneMoves ==
  ASSUME DefaultsTypeOK, NEW q \in Writers, NEW r, Defaults!Becomes(q, r)
  PROVE  req'[q] = r /\ \A p \in Writers \ {q} : req'[p] = req[p]
BY DEF DefaultsTypeOK, Defaults!Becomes

\* A request that has landed, or has died, is done.
LEMMA DoneMoves ==
  ASSUME DefaultsTypeOK, NEW q \in Writers,
         \/ Defaults!CommitCreate(q) \/ Defaults!CommitTake(q) \/ Defaults!Promote(q)
         \/ Defaults!Crash(q)
  PROVE  req'[q] = Defaults!Idle /\ \A p \in Writers \ {q} : req'[p] = req[p]
BY OneMoves
   DEF Defaults!CommitCreate, Defaults!CommitTake, Defaults!Promote, Defaults!Crash

\* A removal goes on to name an heir when it took the default away.
LEMMA ForgetMoves ==
  ASSUME DefaultsTypeOK, NEW q \in Writers, Defaults!Forget(q)
  PROVE  /\ req'[q] = IF Promotes /\ req[q].was THEN [at |-> "heir", id |-> req[q].id]
                                                 ELSE Defaults!Idle
         /\ \A p \in Writers \ {q} : req'[p] = req[p]
BY OneMoves DEF Defaults!Forget

\* A taking starts with what it will clear.
LEMMA TakeMoves ==
  ASSUME DefaultsTypeOK, NEW q \in Writers, NEW i \in Providers, Defaults!Take(q, i)
  PROVE  /\ req'[q].at = "take" /\ req'[q].id = i /\ req'[q].others = default \ {i}
         /\ \A p \in Writers \ {q} : req'[p] = req[p]
<1>1. /\ req'[q] = [at |-> "take", id |-> i, others |-> default \ {i}]
      /\ \A p \in Writers \ {q} : req'[p] = req[p]
  BY OneMoves DEF Defaults!Take
<1> QED  BY <1>1

\* A removal starts with whether it took the default away.
LEMMA RemoveMoves ==
  ASSUME DefaultsTypeOK, NEW q \in Writers, NEW i \in Providers, Defaults!RemoveRow(q, i)
  PROVE  /\ req'[q].at = "forget" /\ req'[q].id = i /\ req'[q].was = (i \in default)
         /\ \A p \in Writers \ {q} : req'[p] = req[p]
<1>1. /\ req'[q] = [at |-> "forget", id |-> i, was |-> i \in default]
      /\ \A p \in Writers \ {q} : req'[p] = req[p]
  BY OneMoves DEF Defaults!RemoveRow
<1> QED  BY <1>1

\* A creation starts with what it will clear, when it takes the default.
LEMMA CreateMoves ==
  ASSUME DefaultsTypeOK, NEW q \in Writers, NEW i \in Providers, NEW chosen \in BOOLEAN,
         Defaults!Create(q, i, chosen)
  PROVE  /\ req'[q].at = "create" /\ req'[q].id = i
         /\ req'[q].takes = (Promotes /\ (table = <<>> \/ chosen))
         /\ req'[q].others = IF req'[q].takes THEN default ELSE {}
         /\ \A p \in Writers \ {q} : req'[p] = req[p]
<1> DEFINE t == Promotes /\ (table = <<>> \/ chosen)
<1>1. /\ req'[q] = [at |-> "create", id |-> i, takes |-> t,
                    others |-> IF t THEN default ELSE {}]
      /\ \A p \in Writers \ {q} : req'[p] = req[p]
  BY OneMoves DEF Defaults!Create
<1> HIDE DEF t
<1>2. /\ req'[q].at = "create" /\ req'[q].id = i /\ req'[q].takes = t
      /\ req'[q].others = IF t THEN default ELSE {}
  BY <1>1
<1> QED  BY <1>1, <1>2 DEF t

\* What is being created is not a row yet, and nobody else is at it.
LEMMA CreationStep ==
  ASSUME DefaultsTypeOK, EachOnce, \A q \in Writers : CreationHolds(q),
         [Defaults!Next]_(Defaults!vars)
  PROVE  \A q \in Writers : CreationHolds(q)'
<1>0. \A q \in Writers : req[q] = Defaults!Idle \/ (req[q].at # "idle" /\ req[q].id \in Providers)
  BY RequestParts DEF DefaultsTypeOK
<1>1. CASE UNCHANGED Defaults!vars
  BY <1>1 DEF Defaults!vars, CreationHolds, Defaults!Rows
<1>2. ASSUME NEW q \in Writers, Defaults!CommitCreate(q)
      PROVE  \A p \in Writers : CreationHolds(p)'
  <2>1. req'[q] = Defaults!Idle /\ \A p \in Writers \ {q} : req'[p] = req[p]
    BY <1>2, DoneMoves
  <2>2. Defaults!Rows' = Defaults!Rows \cup {req[q].id}
    BY <1>2, DefaultsGives
  <2>3. req[q] # Defaults!Idle
    BY <1>2 DEF Defaults!CommitCreate, Defaults!Idle
  <2> QED  BY <2>1, <2>2, <2>3 DEF CreationHolds, Defaults!Idle
<1>3. ASSUME NEW q \in Writers,
             Defaults!CommitTake(q) \/ Defaults!Promote(q) \/ Defaults!Crash(q)
      PROVE  \A p \in Writers : CreationHolds(p)'
  <2>1. req'[q] = Defaults!Idle /\ \A p \in Writers \ {q} : req'[p] = req[p]
    BY <1>3, DoneMoves
  <2>2. Defaults!Rows' = Defaults!Rows
    BY <1>3 DEF Defaults!CommitTake, Defaults!Promote, Defaults!Crash, Defaults!Rows
  <2> QED  BY <2>1, <2>2 DEF CreationHolds, Defaults!Idle
<1>4. ASSUME NEW q \in Writers, Defaults!Forget(q)
      PROVE  \A p \in Writers : CreationHolds(p)'
  <2>1. /\ req'[q] = IF Promotes /\ req[q].was THEN [at |-> "heir", id |-> req[q].id]
                                                     ELSE Defaults!Idle
        /\ \A p \in Writers \ {q} : req'[p] = req[p]
    BY <1>4, ForgetMoves
  <2>2. Defaults!Rows' = Defaults!Rows
    BY <1>4 DEF Defaults!Forget, Defaults!Rows
  <2>3. req[q] # Defaults!Idle
    BY <1>4 DEF Defaults!Forget, Defaults!Idle
  <2>4. req'[q].at # "create" /\ (req'[q] # Defaults!Idle => req'[q].id = req[q].id)
    BY <2>1 DEF Defaults!Idle
  <2> QED  BY <2>1, <2>2, <2>3, <2>4 DEF CreationHolds
<1>5. ASSUME NEW q \in Writers, NEW i \in Providers, Defaults!Take(q, i)
      PROVE  \A p \in Writers : CreationHolds(p)'
  <2>1. /\ req'[q].at # "create" /\ req'[q].id = i
        /\ \A p \in Writers \ {q} : req'[p] = req[p]
    BY <1>5, TakeMoves
  <2>2. Defaults!Rows' = Defaults!Rows /\ i \in Defaults!Rows
    BY <1>5 DEF Defaults!Take, Defaults!Rows
  <2> QED  BY <2>1, <2>2 DEF CreationHolds
<1>6. ASSUME NEW q \in Writers, NEW i \in Providers, Defaults!SaveKey(q, i)
      PROVE  \A p \in Writers : CreationHolds(p)'
  BY <1>6 DEF Defaults!SaveKey, CreationHolds, Defaults!Rows
<1>7. ASSUME NEW q \in Writers, NEW i \in Providers, Defaults!RemoveRow(q, i)
      PROVE  \A p \in Writers : CreationHolds(p)'
  <2>1. /\ req'[q].at # "create" /\ req'[q].id = i
        /\ \A p \in Writers \ {q} : req'[p] = req[p]
    BY <1>7, RemoveMoves
  <2>2. Defaults!Rows' = Defaults!Rows \ {i} /\ i \in Defaults!Rows
    BY <1>7, DefaultsGives
  <2> QED  BY <2>1, <2>2 DEF CreationHolds
<1>8. ASSUME NEW q \in Writers, NEW i \in Providers, NEW chosen \in BOOLEAN,
             Defaults!Create(q, i, chosen)
      PROVE  \A p \in Writers : CreationHolds(p)'
  <2>1. /\ req'[q].id = i
        /\ \A p \in Writers \ {q} : req'[p] = req[p]
    BY <1>8, CreateMoves
  <2>2. Defaults!Rows' = Defaults!Rows /\ i \notin Defaults!Rows
    BY <1>8 DEF Defaults!Create, Defaults!Fresh, Defaults!Rows
  <2>3. \A p \in Writers : req[p] # Defaults!Idle => req[p].id # i
    BY <1>8 DEF Defaults!Create, Defaults!Fresh
  <2>4. \A p \in Writers \ {q} : req[p].at = "create" => req[p] # Defaults!Idle
    BY DEF Defaults!Idle
  <2> QED  BY <2>1, <2>2, <2>3, <2>4 DEF CreationHolds
<1> QED  BY <1>1, <1>2, <1>3, <1>4, <1>5, <1>6, <1>7, <1>8 DEF Defaults!Next

\* A key is dropped by the removal of its row, and saved for a row there is.
LEMMA KeysStep ==
  ASSUME DefaultsTypeOK, EachOnce, \A q \in Writers : CreationHolds(q), Defaults!KeysHaveOwners,
         [Defaults!Next]_(Defaults!vars)
  PROVE  Defaults!KeysHaveOwners'
<1> SUFFICES ASSUME crashes' = 0, NEW k \in keys'
             PROVE  k \in Defaults!Rows' \/ \E q \in Writers : req'[q].at = "forget" /\ req'[q].id = k
  BY DEF Defaults!KeysHaveOwners
<1>1. CASE UNCHANGED Defaults!vars
  BY <1>1 DEF Defaults!vars, Defaults!KeysHaveOwners, Defaults!Rows
<1>2. ASSUME NEW q \in Writers, Defaults!CommitCreate(q)
      PROVE  k \in Defaults!Rows' \/ \E p \in Writers : req'[p].at = "forget" /\ req'[p].id = k
  <2>1. Defaults!Rows' = Defaults!Rows \cup {req[q].id} /\ keys' = keys \cup {req[q].id}
        /\ crashes = 0 /\ req[q].at = "create"
    BY <1>2, DefaultsGives DEF Defaults!CommitCreate
  <2> QED  BY <1>2, <2>1, DoneMoves DEF Defaults!KeysHaveOwners
<1>3. ASSUME NEW q \in Writers, Defaults!CommitTake(q) \/ Defaults!Promote(q)
      PROVE  k \in Defaults!Rows' \/ \E p \in Writers : req'[p].at = "forget" /\ req'[p].id = k
  <2>1. Defaults!Rows' = Defaults!Rows /\ keys' = keys /\ crashes = 0 /\ req[q].at # "forget"
    BY <1>3 DEF Defaults!CommitTake, Defaults!Promote, Defaults!Rows
  <2> QED  BY <1>3, <2>1, DoneMoves DEF Defaults!KeysHaveOwners
<1>4. ASSUME NEW q \in Writers, Defaults!Forget(q)
      PROVE  k \in Defaults!Rows' \/ \E p \in Writers : req'[p].at = "forget" /\ req'[p].id = k
  <2>1. Defaults!Rows' = Defaults!Rows /\ keys' = keys \ {req[q].id} /\ crashes = 0
    BY <1>4 DEF Defaults!Forget, Defaults!Rows
  <2> QED  BY <1>4, <2>1, ForgetMoves DEF Defaults!KeysHaveOwners
<1>5. ASSUME NEW q \in Writers, Defaults!Crash(q)
      PROVE  FALSE
  BY <1>5 DEF Defaults!Crash, DefaultsTypeOK
<1>6. ASSUME NEW q \in Writers, NEW i \in Providers, Defaults!Take(q, i)
      PROVE  k \in Defaults!Rows' \/ \E p \in Writers : req'[p].at = "forget" /\ req'[p].id = k
  <2>1. Defaults!Rows' = Defaults!Rows /\ keys' = keys /\ crashes = 0 /\ req[q].at # "forget"
    BY <1>6 DEF Defaults!Take, Defaults!Rows, Defaults!Idle
  <2> QED  BY <1>6, <2>1, TakeMoves DEF Defaults!KeysHaveOwners
<1>7. ASSUME NEW q \in Writers, NEW i \in Providers, Defaults!SaveKey(q, i)
      PROVE  k \in Defaults!Rows' \/ \E p \in Writers : req'[p].at = "forget" /\ req'[p].id = k
  BY <1>7 DEF Defaults!SaveKey, Defaults!KeysHaveOwners, Defaults!Rows
<1>8. ASSUME NEW q \in Writers, NEW i \in Providers, Defaults!RemoveRow(q, i)
      PROVE  k \in Defaults!Rows' \/ \E p \in Writers : req'[p].at = "forget" /\ req'[p].id = k
  <2>1. Defaults!Rows' = Defaults!Rows \ {i} /\ keys' = keys /\ crashes = 0
        /\ req[q].at # "forget"
    BY <1>8, DefaultsGives DEF Defaults!RemoveRow, Defaults!Idle
  <2>2. req'[q].at = "forget" /\ req'[q].id = i /\ \A p \in Writers \ {q} : req'[p] = req[p]
    BY <1>8, RemoveMoves
  <2> QED  BY <2>1, <2>2 DEF Defaults!KeysHaveOwners
<1>9. ASSUME NEW q \in Writers, NEW i \in Providers, NEW chosen \in BOOLEAN,
             Defaults!Create(q, i, chosen)
      PROVE  k \in Defaults!Rows' \/ \E p \in Writers : req'[p].at = "forget" /\ req'[p].id = k
  <2>1. Defaults!Rows' = Defaults!Rows /\ keys' = keys /\ crashes = 0 /\ req[q].at # "forget"
    BY <1>9 DEF Defaults!Create, Defaults!Rows, Defaults!Idle
  <2>2. \A p \in Writers \ {q} : req'[p] = req[p]
    BY <1>9, CreateMoves
  <2> QED  BY <2>1, <2>2 DEF Defaults!KeysHaveOwners
<1> QED  BY <1>1, <1>2, <1>3, <1>4, <1>5, <1>6, <1>7, <1>8, <1>9 DEF Defaults!Next

\* A request that does nothing has read nothing and owes nothing.
LEMMA IdleHolds ==
  ASSUME NEW q \in Writers, req[q] = Defaults!Idle
  PROVE  ReadingHolds(q) /\ ~Owing(q)
BY DEF ReadingHolds, Owing, Defaults!Idle

\* While nothing has raced and nothing has died, what the requests have read of
\* the table is still so when they land, and the default is where it should be.
LEMMA DefaultHoldsStep ==
  ASSUME DefaultsTypeOK, DefaultsInv, [Defaults!Next]_(Defaults!vars), ~raced', crashes' = 0
  PROVE  DefaultHolds'
<1>0. CASE UNCHANGED Defaults!vars
  BY <1>0 DEF Defaults!vars, DefaultsInv, DefaultHolds, AtMostOne, ReadingHolds, Owing, Chosen,
       Defaults!Rows
<1> SUFFICES ASSUME Defaults!Next  PROVE DefaultHolds'
  BY <1>0
<1>a. /\ \A q \in Writers : req[q] \in DefaultsRequest
      /\ table \in Seq(Providers) /\ crashes \in Nat /\ raced \in BOOLEAN
      /\ EachOnce /\ (\A q \in Writers : CreationHolds(q))
  BY DEF DefaultsTypeOK, DefaultsInv
<1>b. Defaults!Rows # {} => table # <<>>
  BY DEF Defaults!Rows
<1>1. ASSUME NEW q \in Writers, Defaults!Crash(q)  PROVE FALSE
  BY <1>a, <1>1 DEF Defaults!Crash
<1>2. ASSUME ~raced, crashes = 0
      PROVE  DefaultHolds
  BY <1>2 DEF DefaultsInv
<1>3. ASSUME NEW q \in Writers, Defaults!Lands(q)
      PROVE  ~raced /\ \A p \in Writers \ {q} : req[p] = Defaults!Idle
  BY <1>3 DEF Defaults!Lands
<1>4. ASSUME NEW q \in Writers, Defaults!CommitCreate(q)
      PROVE  DefaultHolds'
  <2>1. ~raced /\ crashes = 0 /\ \A p \in Writers \ {q} : req[p] = Defaults!Idle
    BY <1>3, <1>4 DEF Defaults!CommitCreate
  <2>2. DefaultHolds
    BY <1>2, <2>1
  <2>3. \A p \in Writers : req'[p] = Defaults!Idle
    BY <1>4, <2>1, DoneMoves
  <2>4. \A p \in Writers : ReadingHolds(p)' /\ ~Owing(p)'
    BY <2>3 DEF ReadingHolds, Owing, Defaults!Idle
  <2>5. /\ Defaults!Rows' = Defaults!Rows \cup {req[q].id}
        /\ default' = (default \ req[q].others) \cup (IF req[q].takes THEN {req[q].id} ELSE {})
        /\ req[q].at = "create"
    BY <1>4, <1>a, DefaultsGives DEF Defaults!CommitCreate
  <2>6. /\ req[q].others = IF req[q].takes THEN default ELSE {}
        /\ ~req[q].takes => ~(Promotes /\ table = <<>>)
    BY <2>2, <2>5 DEF DefaultHolds, ReadingHolds
  <2>7. req[q].takes \in BOOLEAN
    BY <1>a, <2>5, RequestParts DEF CreatingRow
  <2>8. AtMostOne /\ Chosen
    <3>1. ~Owing(q)
      BY <2>5 DEF Owing
    <3>2. \A p \in Writers \ {q} : ~Owing(p)
      BY <2>1, IdleHolds
    <3> QED  BY <2>2, <3>1, <3>2 DEF DefaultHolds
  <2>9. AtMostOne'
    BY <2>5, <2>6, <2>7, <2>8 DEF AtMostOne
  <2>10. Promotes => default' # {}
    BY <2>5, <2>6, <2>7, <2>8 DEF Chosen
  <2> QED  BY <2>4, <2>9, <2>10 DEF DefaultHolds, Chosen
<1>5. ASSUME NEW q \in Writers, Defaults!CommitTake(q)
      PROVE  DefaultHolds'
  <2>1. ~raced /\ crashes = 0 /\ \A p \in Writers \ {q} : req[p] = Defaults!Idle
    BY <1>3, <1>5 DEF Defaults!CommitTake
  <2>2. DefaultHolds
    BY <1>2, <2>1
  <2>3. \A p \in Writers : req'[p] = Defaults!Idle
    BY <1>5, <2>1, DoneMoves
  <2>4. \A p \in Writers : ReadingHolds(p)' /\ ~Owing(p)'
    BY <2>3 DEF ReadingHolds, Owing, Defaults!Idle
  <2>5. req[q].id \in Defaults!Rows /\ req[q].others = default \ {req[q].id}
    BY <1>5, <2>2 DEF DefaultHolds, ReadingHolds, Defaults!CommitTake
  <2>6. Defaults!Rows' = Defaults!Rows /\ default' = (default \ req[q].others) \cup {req[q].id}
    BY <1>5, <2>5 DEF Defaults!CommitTake, Defaults!Rows
  <2> QED  BY <2>2, <2>4, <2>5, <2>6 DEF DefaultHolds, AtMostOne, Chosen
<1>6. ASSUME NEW q \in Writers, Defaults!Forget(q)
      PROVE  DefaultHolds'
  <2>1. UNCHANGED <<table, default, crashes, raced>> /\ req[q].at = "forget"
    BY <1>6 DEF Defaults!Forget
  <2>2. DefaultHolds
    BY <1>2, <2>1
  <2>3. /\ req'[q] = IF Promotes /\ req[q].was THEN [at |-> "heir", id |-> req[q].id]
                                                ELSE Defaults!Idle
        /\ \A p \in Writers \ {q} : req'[p] = req[p]
    BY <1>6, ForgetMoves
  <2>4. /\ req'[q].at \notin {"create", "take", "forget"}
        /\ req'[q].at = "heir" <=> Promotes /\ req[q].was
    BY <2>3 DEF Defaults!Idle
  <2>5. Owing(q)' <=> Owing(q)
    BY <2>1, <2>4 DEF Owing
  <2>6. \A p \in Writers \ {q} : ReadingHolds(p)' /\ (Owing(p)' <=> Owing(p))
    BY <2>1, <2>2, <2>3 DEF DefaultHolds, ReadingHolds, Owing, Defaults!Rows
  <2>7. ReadingHolds(q)'
    BY <2>1, <2>2, <2>4, <2>5 DEF DefaultHolds, ReadingHolds
  <2>8. AtMostOne' /\ (Chosen => Chosen')
    BY <2>1, <2>2 DEF DefaultHolds, AtMostOne, Chosen, Defaults!Rows
  <2> QED  BY <2>2, <2>5, <2>6, <2>7, <2>8 DEF DefaultHolds
<1>7. ASSUME NEW q \in Writers, Defaults!Promote(q)
      PROVE  DefaultHolds'
  <2>1. ~raced /\ crashes = 0 /\ \A p \in Writers \ {q} : req[p] = Defaults!Idle
    BY <1>3, <1>7 DEF Defaults!Promote
  <2>2. DefaultHolds
    BY <1>2, <2>1
  <2>3. \A p \in Writers : req'[p] = Defaults!Idle
    BY <1>7, <2>1, DoneMoves
  <2>4. \A p \in Writers : ReadingHolds(p)' /\ ~Owing(p)'
    BY <2>3 DEF ReadingHolds, Owing, Defaults!Idle
  <2>5. /\ table' = table /\ Defaults!Rows' = Defaults!Rows /\ req[q].at = "heir"
        /\ default' = IF table = <<>> THEN default ELSE default \cup {Head(table)}
    BY <1>7 DEF Defaults!Promote, Defaults!Rows
  <2>6. table # <<>> => Head(table) \in Defaults!Rows
    BY <1>a DEF Defaults!Rows
  <2>7. Promotes => default = {}
    BY <2>2, <2>5 DEF DefaultHolds, ReadingHolds, Owing
  <2>8. CASE Promotes
    BY <2>4, <2>5, <2>6, <2>7, <2>8 DEF DefaultHolds, AtMostOne, Chosen
  <2>9. CASE ~Promotes
    BY <2>2, <2>5, <2>9 DEF DefaultHolds, ReadingHolds
  <2> QED  BY <2>8, <2>9
<1>8. ASSUME NEW q \in Writers, NEW i \in Providers, Defaults!Take(q, i)
      PROVE  DefaultHolds'
  <2>1. UNCHANGED <<table, default, crashes, raced>> /\ req[q] = Defaults!Idle
        /\ i \in Defaults!Rows
    BY <1>8 DEF Defaults!Take
  <2>2. DefaultHolds
    BY <1>2, <2>1
  <2>3. /\ req'[q].at = "take" /\ req'[q].id = i /\ req'[q].others = default \ {i}
        /\ \A p \in Writers \ {q} : req'[p] = req[p]
    BY <1>8, TakeMoves
  <2>4. ~Owing(q) /\ ~Owing(q)'
    BY <2>1, <2>3, IdleHolds DEF Owing
  <2>5. \A p \in Writers \ {q} : ReadingHolds(p)' /\ (Owing(p)' <=> Owing(p))
    BY <2>1, <2>2, <2>3 DEF DefaultHolds, ReadingHolds, Owing, Defaults!Rows
  <2>6. ReadingHolds(q)'
    BY <2>1, <2>3, <2>4 DEF ReadingHolds, Defaults!Rows
  <2>7. AtMostOne' /\ (Chosen => Chosen')
    BY <2>1, <2>2 DEF DefaultHolds, AtMostOne, Chosen, Defaults!Rows
  <2> QED  BY <2>2, <2>4, <2>5, <2>6, <2>7 DEF DefaultHolds
<1>9. ASSUME NEW q \in Writers, NEW i \in Providers, Defaults!SaveKey(q, i)
      PROVE  DefaultHolds'
  <2>1. UNCHANGED <<table, default, req, crashes, raced>>
    BY <1>9 DEF Defaults!SaveKey
  <2>2. DefaultHolds
    BY <1>2, <2>1
  <2> QED  BY <2>1, <2>2 DEF DefaultHolds, AtMostOne, ReadingHolds, Owing, Chosen, Defaults!Rows
<1>10. ASSUME NEW q \in Writers, NEW i \in Providers, Defaults!RemoveRow(q, i)
       PROVE  DefaultHolds'
  <2>1. ~raced /\ crashes = 0 /\ req[q] = Defaults!Idle
        /\ \A p \in Writers \ {q} : req[p] = Defaults!Idle
    BY <1>3, <1>10 DEF Defaults!RemoveRow
  <2>2. DefaultHolds /\ \A p \in Writers : ~Owing(p)
    BY <1>2, <2>1, IdleHolds
  <2>3. AtMostOne /\ Chosen
    BY <2>2 DEF DefaultHolds
  <2>4. /\ req'[q].at = "forget" /\ req'[q].id = i /\ req'[q].was = (i \in default)
        /\ \A p \in Writers \ {q} : req'[p] = Defaults!Idle
    BY <1>10, <2>1, RemoveMoves
  <2>5. Defaults!Rows' = Defaults!Rows \ {i} /\ default' = default \ {i} /\ i \in Defaults!Rows
    BY <1>10, <1>a, DefaultsGives DEF Defaults!RemoveRow
  <2>6. AtMostOne'
    BY <2>3, <2>5 DEF AtMostOne
  <2>7. \A p \in Writers \ {q} : ReadingHolds(p)' /\ ~Owing(p)'
    BY <2>4 DEF ReadingHolds, Owing, Defaults!Idle
  <2>8. Owing(q)' => default' = {}
    BY <2>3, <2>4, <2>5 DEF Owing, AtMostOne
  <2>9. ReadingHolds(q)'
    BY <2>4, <2>8 DEF ReadingHolds
  <2>10. ~Owing(q)' => Chosen'
    <3>1. CASE ~Promotes
      BY <3>1 DEF Chosen
    <3>2. CASE Promotes /\ i \notin default
      <4>1. table # <<>>
        BY <1>b, <2>5
      <4>2. default' = default /\ default # {}
        BY <2>3, <2>5, <3>2, <4>1 DEF Chosen
      <4> QED  BY <4>2 DEF Chosen
    <3>3. CASE Promotes /\ i \in default
      BY <2>4, <3>3 DEF Owing
    <3> QED  BY <3>1, <3>2, <3>3
  <2> QED  BY <2>6, <2>7, <2>9, <2>10 DEF DefaultHolds
<1>11. ASSUME NEW q \in Writers, NEW i \in Providers, NEW chosen \in BOOLEAN,
              Defaults!Create(q, i, chosen)
       PROVE  DefaultHolds'
  <2>1. UNCHANGED <<table, default, crashes, raced>> /\ req[q] = Defaults!Idle
    BY <1>11 DEF Defaults!Create
  <2>2. DefaultHolds
    BY <1>2, <2>1
  <2>3. /\ req'[q].at = "create" /\ req'[q].takes = (Promotes /\ (table = <<>> \/ chosen))
        /\ req'[q].others = IF req'[q].takes THEN default ELSE {}
        /\ \A p \in Writers \ {q} : req'[p] = req[p]
    BY <1>11, CreateMoves
  <2>4. ~Owing(q) /\ ~Owing(q)'
    BY <2>1, <2>3, IdleHolds DEF Owing
  <2>5. \A p \in Writers \ {q} : ReadingHolds(p)' /\ (Owing(p)' <=> Owing(p))
    BY <2>1, <2>2, <2>3 DEF DefaultHolds, ReadingHolds, Owing, Defaults!Rows
  <2>6. ReadingHolds(q)'
    BY <2>1, <2>3, <2>4 DEF ReadingHolds
  <2>7. AtMostOne' /\ (Chosen => Chosen')
    BY <2>1, <2>2 DEF DefaultHolds, AtMostOne, Chosen, Defaults!Rows
  <2> QED  BY <2>2, <2>4, <2>5, <2>6, <2>7 DEF DefaultHolds
<1> QED  BY <1>1, <1>4, <1>5, <1>6, <1>7, <1>8, <1>9, <1>10, <1>11 DEF Defaults!Next

\* All of it, at the start and at every step.
LEMMA DefaultsSteps ==
  /\ Defaults!Init => DefaultsTypeOK /\ DefaultsInv
  /\ DefaultsTypeOK /\ DefaultsInv /\ [Defaults!Next]_(Defaults!vars)
       => DefaultsTypeOK' /\ DefaultsInv'
<1>1. ASSUME Defaults!Init  PROVE DefaultsTypeOK /\ DefaultsInv
  <2>1. \A q \in Writers : req[q] = Defaults!Idle
    BY <1>1 DEF Defaults!Init
  <2>2. \A q \in Writers : ReadingHolds(q) /\ ~Owing(q) /\ CreationHolds(q)
    BY <2>1, IdleHolds DEF CreationHolds, Defaults!Idle
  <2>3. DefaultsTypeOK
    <3>1. table \in Seq(Providers)
      BY <1>1 DEF Defaults!Init
    <3>3. raced \in BOOLEAN /\ crashes \in Nat /\ default = {} /\ keys = {}
      BY <1>1 DEF Defaults!Init
    <3>2. req \in [Writers -> DefaultsRequest]
      BY <1>1 DEF Defaults!Init, DefaultsRequest
    <3> QED  BY <3>1, <3>2, <3>3 DEF DefaultsTypeOK
  <2>4. EachOnce /\ AtMostOne /\ Chosen /\ Defaults!KeysHaveOwners
    BY <1>1 DEF Defaults!Init, EachOnce, AtMostOne, Chosen, Defaults!KeysHaveOwners
  <2> QED  BY <2>2, <2>3, <2>4 DEF DefaultsInv, DefaultHolds
<1>2. ASSUME DefaultsTypeOK, DefaultsInv, [Defaults!Next]_(Defaults!vars)
      PROVE  DefaultsTypeOK' /\ DefaultsInv'
  <2>1. EachOnce /\ (\A q \in Writers : CreationHolds(q)) /\ Defaults!KeysHaveOwners
    BY <1>2 DEF DefaultsInv
  <2>2. DefaultsTypeOK' /\ EachOnce'
    BY <1>2, <2>1, DefaultsTypeStep
  <2>3. \A q \in Writers : CreationHolds(q)'
    BY <1>2, <2>1, CreationStep
  <2>4. Defaults!KeysHaveOwners'
    BY <1>2, <2>1, KeysStep
  <2>5. ~raced' /\ crashes' = 0 => DefaultHolds'
    BY <1>2, DefaultHoldsStep
  <2> QED  BY <2>2, <2>3, <2>4, <2>5 DEF DefaultsInv
<1> QED  BY <1>1, <1>2

\* The cardinality the table counts with is the one the theorems are about.
LEMMA SameCount == ASSUME NEW S PROVE Defaults!Cardinality(S) = Cardinality(S)
BY DEF Cardinality, Defaults!Cardinality

\* Once the saves have settled, one after another and none of them dead, a
\* table has at most one default, a row of it, and the LLM providers have one
\* whenever there are any: makeDefault, create and remove between them.
THEOREM SettledHasOneDefault == Defaults!Spec => []Defaults!OneDefault
<1>1. DefaultsTypeOK /\ DefaultsInv => Defaults!OneDefault
  <2> SUFFICES ASSUME DefaultsTypeOK, DefaultsInv, ~raced, ~Defaults!Busy, crashes = 0
               PROVE  /\ Cardinality(default) <= 1 /\ default \subseteq Defaults!Rows
                      /\ Promotes /\ table # <<>> => default # {}
    BY SameCount DEF Defaults!OneDefault
  <2>1. DefaultHolds
    BY DEF DefaultsInv
  <2>2. \A q \in Writers : ~Owing(q)
    BY IdleHolds DEF Defaults!Busy
  <2>3. AtMostOne /\ Chosen
    BY <2>1, <2>2 DEF DefaultHolds
  <2>4. Cardinality(default) <= 1
    <3>1. CASE default = {}
      BY <3>1, FS_EmptySet
    <3>2. CASE default # {}
      <4>1. PICK d \in default : TRUE
        BY <3>2
      <4>2. default = {d}
        BY <2>3, <4>1 DEF AtMostOne
      <4> QED  BY <4>2, FS_Singleton
    <3> QED  BY <3>1, <3>2
  <2> QED  BY <2>3, <2>4 DEF AtMostOne, Chosen
<1> QED  BY <1>1, DefaultsSteps, PTL DEF Defaults!Spec

\* A credential outlives its provider only while the removal that drops it is
\* under way or has died (remove; create and update save the key with the row).
THEOREM KeysKeepTheirOwners == Defaults!Spec => []Defaults!KeysHaveOwners
<1>1. DefaultsTypeOK /\ DefaultsInv => Defaults!KeysHaveOwners
  BY DEF DefaultsInv
<1> QED  BY <1>1, DefaultsSteps, PTL DEF Defaults!Spec

-----------------------------------------------------------------------------
(* Changelogs.                                                             *)

\* A set of naturals has a least element.
LEMMA LeastOf ==
  ASSUME NEW S \in SUBSET Nat, S # {}
  PROVE  \E n \in S : \A m \in S : n <= m
<1> DEFINE Less == OpToRel(<, Nat)
<1>1. IsWellFoundedOn(Less, Nat)
  BY NatLessThanWellFounded, Zenon
<1>2. \A x, y \in Nat : <<x, y>> \in Less <=> x < y
  BY DEF OpToRel
<1> HIDE DEF Less
<1>3. PICK n \in S : \A m \in S : ~(<<m, n>> \in Less)
  BY <1>1, WFMin
<1>4. \A m \in S : m \in Nat /\ ~(m < n)
  BY <1>2, <1>3
<1> QED  BY <1>3, <1>4

\* A bounded set of naturals has a greatest element.
LEMMA GreatestOf ==
  ASSUME NEW N \in Nat, NEW S \in SUBSET (0 .. N), S # {}
  PROVE  \E n \in S : \A m \in S : m <= n
<1> DEFINE D == {N - s : s \in S}
<1>1. D \in SUBSET Nat /\ D # {}
  <2>1. \A s \in S : s \in Int /\ N - s \in Nat
    OBVIOUS
  <2>2. D # {}
    OBVIOUS
  <2> QED  BY <2>1, <2>2
<1>2. PICK e \in D : \A m \in D : e <= m
  BY <1>1, LeastOf
<1>3. PICK n \in S : e = N - n
  OBVIOUS
<1>4. ASSUME NEW m \in S PROVE m <= n
  <2>1. N - n <= N - m /\ m \in Int /\ n \in Int
    BY <1>2, <1>3
  <2> QED  BY <2>1
<1> QED  BY <1>4

\* What a run holds went out: its listing keeps the successes it was read with,
\* and a success stays one.
Walks(r) ==
  /\ \A d \in run[r].targets : status[d] = "success"
  /\ \A d \in run[r].listed : status[d] = "success"

LogsInv == (\A r \in Writers : Walks(r)) /\ Logs!FiledWentOut

LogRow == [filed : BOOLEAN, unreadable : BOOLEAN, base : {"none", "previous", "nearest"},
           baseRef : 0 .. Last, carries : BOOLEAN]

WalkRow == [pc : {"idle", "walk"}, targets : SUBSET Logs!Deployments,
            listed : SUBSET Logs!Deployments]

LogsType ==
  /\ status \in [Logs!Deployments -> {"absent", "running", "success", "failed"}]
  /\ archive \in [Logs!Deployments -> LogRow]
  /\ run \in [Writers -> WalkRow]

\* The deployment a walk is at is one of its targets, and what it is compared
\* with is an earlier success of the listing, or nothing (previousDeployment).
LEMMA WalkParts ==
  ASSUME Last \in Nat, LogsType, LogsInv, NEW r \in Writers, run[r].targets # {}
  PROVE  LET d    == Logs!Target(r)
             base == Logs!previousDeployment(run[r].listed, d)
         IN  /\ d \in Logs!Deployments /\ d \in run[r].targets /\ status[d] = "success"
             /\ base \in 0 .. Last /\ base < d
             /\ base # 0 => base \in Logs!Deployments /\ status[base] = "success"
<1> DEFINE d == Logs!Target(r)
           earlier == {o \in run[r].listed : o < d}
           base == Logs!previousDeployment(run[r].listed, d)
<1>1. run[r].targets \subseteq 1 .. Last /\ run[r].listed \subseteq 1 .. Last
      /\ Logs!Deployments = 1 .. Last
  BY DEF LogsType, WalkRow, Logs!Deployments
<1>2. run[r].targets \in SUBSET Nat
  BY <1>1
<1>3. \E n \in run[r].targets : \A m \in run[r].targets : n <= m
  BY <1>2, LeastOf
<1>4. d \in run[r].targets
  BY <1>3 DEF Logs!Target
<1>5. d \in 1 .. Last /\ status[d] = "success"
  BY <1>1, <1>4 DEF LogsInv, Walks
<1> HIDE DEF d
<1>6. base = IF earlier = {} THEN 0 ELSE CHOOSE o \in earlier : \A p \in earlier : p <= o
  BY DEF Logs!previousDeployment
<1>7. earlier \subseteq 0 .. Last
  BY <1>1
<1>8. CASE earlier = {}
  BY <1>1, <1>4, <1>5, <1>6, <1>8 DEF d
<1>9. CASE earlier # {}
  <2>1. \E o \in earlier : \A p \in earlier : p <= o
    BY <1>7, <1>9, GreatestOf
  <2>2. base \in earlier
    BY <1>6, <1>9, <2>1
  <2>3. base \in 1 .. Last /\ base < d /\ status[base] = "success"
    BY <1>1, <2>2 DEF LogsInv, Walks
  <2> QED  BY <1>1, <1>4, <1>5, <2>3 DEF d
<1> QED  BY <1>8, <1>9

\* What a step of a run files: nothing, or a record of its target against an
\* earlier success, and a row that exists is left as it was (record).
LEMMA StepFiles ==
  ASSUME Last \in Nat, LogsType, LogsInv, NEW r \in Writers, NEW previous, NEW nearest,
         previous \in Logs!Outcomes, Logs!Step(r, previous, nearest)
  PROVE  /\ archive' \in [Logs!Deployments -> LogRow]
         /\ \A e \in Logs!Deployments : archive[e].filed => archive'[e] = archive[e]
         /\ \A e \in Logs!Deployments : archive'[e] # archive[e] =>
              /\ status[e] = "success" /\ archive'[e].baseRef < e
              /\ archive'[e].baseRef # 0 => status[archive'[e].baseRef] = "success"
<1> DEFINE d == Logs!Target(r)
           base == Logs!previousDeployment(run[r].listed, d)
<1>1. /\ d \in Logs!Deployments /\ status[d] = "success"
      /\ base \in 0 .. Last /\ base < d
      /\ base # 0 => status[base] = "success"
  BY WalkParts DEF Logs!Step
<1>2. archive' = CASE previous = "unresolvable" -> Logs!Record(d, Logs!toUnreadable)
                   [] previous = "failed" -> archive
                   [] OTHER -> Logs!Record(d, Logs!carried(base, previous, nearest))
  BY DEF Logs!Step
<1> HIDE DEF d, base
<1>3. /\ Logs!toUnreadable \in LogRow /\ Logs!toUnreadable.baseRef = 0
  BY DEF Logs!toUnreadable, LogRow
<1>4. /\ Logs!carried(base, previous, nearest) \in LogRow
      /\ Logs!carried(base, previous, nearest).baseRef \in {0, base}
  BY <1>1 DEF Logs!carried, LogRow
<1>5. 0 < d /\ d \in Nat
  BY <1>1 DEF Logs!Deployments
<1>6. archive \in [Logs!Deployments -> LogRow]
  BY DEF LogsType
<1>7. ASSUME NEW log \in LogRow, log.baseRef \in {0, base}, archive' = Logs!Record(d, log)
      PROVE  /\ archive' \in [Logs!Deployments -> LogRow]
             /\ \A e \in Logs!Deployments : archive[e].filed => archive'[e] = archive[e]
             /\ \A e \in Logs!Deployments : archive'[e] # archive[e] =>
                  /\ status[e] = "success" /\ archive'[e].baseRef < e
                  /\ archive'[e].baseRef # 0 => status[archive'[e].baseRef] = "success"
  <2>1. CASE archive[d].filed
    BY <1>6, <1>7, <2>1 DEF Logs!Record
  <2>2. CASE ~archive[d].filed
    <3>1. archive' = [archive EXCEPT ![d] = log]
      BY <1>7, <2>2 DEF Logs!Record
    <3>2. archive'[d] = log /\ \A e \in Logs!Deployments \ {d} : archive'[e] = archive[e]
      BY <1>1, <1>6, <3>1
    <3>3. archive' \in [Logs!Deployments -> LogRow]
      BY <1>6, <1>7, <3>1
    <3> QED  BY <1>1, <1>5, <1>7, <2>2, <3>2, <3>3
  <2> QED  BY <2>1, <2>2
<1>8. CASE archive' = archive
  BY <1>6, <1>8
<1>9. \/ archive' = archive
      \/ archive' = Logs!Record(d, Logs!toUnreadable)
      \/ archive' = Logs!Record(d, Logs!carried(base, previous, nearest))
  BY <1>2
<1>10. CASE archive' = Logs!Record(d, Logs!toUnreadable)
  BY <1>3, <1>7, <1>10
<1>11. CASE archive' = Logs!Record(d, Logs!carried(base, previous, nearest))
  BY <1>4, <1>7, <1>11
<1> QED  BY <1>8, <1>9, <1>10, <1>11

\* A step changes no row that was filed, and no deployment that went out.
LEMMA LogsStep ==
  ASSUME Last \in Nat, LogsType, LogsInv, [Logs!Next]_(Logs!vars)
  PROVE  /\ LogsType' /\ LogsInv'
         /\ \A e \in Logs!Deployments : archive[e].filed => archive'[e] = archive[e]
<1> DEFINE Goal == /\ LogsType' /\ LogsInv'
                   /\ \A e \in Logs!Deployments : archive[e].filed => archive'[e] = archive[e]
<1>a. /\ \A e \in Logs!Deployments : archive[e] \in LogRow /\ archive[e].baseRef \in 0 .. Last
      /\ Logs!Deployments = 1 .. Last
      /\ \A r \in Writers : run[r] \in WalkRow /\ run[r].targets \subseteq Logs!Deployments
                            /\ run[r].listed \subseteq Logs!Deployments
      /\ Logs!Idle \in WalkRow /\ Logs!Idle.targets = {} /\ Logs!Idle.listed = {}
  BY DEF LogsType, LogRow, WalkRow, Logs!Idle, Logs!Deployments
\* A status that moves on is not a success, so what relied on one still can.
<1>b. ASSUME UNCHANGED <<archive, run>>,
             status' \in [Logs!Deployments -> {"absent", "running", "success", "failed"}],
             \A e \in Logs!Deployments : status[e] = "success" => status'[e] = "success"
      PROVE  Goal
  <2>1. LogsType'
    BY <1>b DEF LogsType
  <2>2. \A r \in Writers : Walks(r)'
    BY <1>a, <1>b DEF LogsInv, Walks
  <2>3. Logs!FiledWentOut'
    BY <1>a, <1>b DEF LogsInv, Logs!FiledWentOut
  <2> QED  BY <1>b, <2>1, <2>2, <2>3 DEF LogsInv
<1>1. CASE UNCHANGED Logs!vars
  BY <1>1, <1>b DEF Logs!vars, LogsType
<1>2. ASSUME NEW d \in Logs!Deployments, Logs!Create(d)  PROVE Goal
  <2>1. UNCHANGED <<archive, run>> /\ status[d] # "success"
        /\ status' = [status EXCEPT ![d] = "running"]
    BY <1>2 DEF Logs!Create
  <2> QED  BY <1>b, <2>1 DEF LogsType
<1>3. ASSUME NEW d \in Logs!Deployments, NEW to, Logs!Settle(d, to)  PROVE Goal
  <2>1. UNCHANGED <<archive, run>> /\ status[d] # "success" /\ to \in {"success", "failed"}
        /\ status' = [status EXCEPT ![d] = to]
    BY <1>3 DEF Logs!Settle
  <2> QED  BY <1>b, <2>1 DEF LogsType
<1>4. CASE Logs!Slide \/ \E d \in Logs!Deployments : Logs!DropRef(d)
  <2>1. UNCHANGED <<archive, run, status>>
    BY <1>4 DEF Logs!Slide, Logs!DropRef
  <2> QED  BY <1>b, <2>1 DEF LogsType
<1>5. ASSUME NEW r \in Writers, Logs!Start(r)  PROVE Goal
  <2> DEFINE w == [pc |-> "walk", targets |-> Logs!selectPending(Logs!Listed),
                   listed |-> {d \in Logs!Listed : status[d] = "success"}]
  <2>1. Logs!Listed \subseteq Logs!Deployments
    BY DEF Logs!Listed
  <2>2. /\ Logs!selectPending(Logs!Listed) \subseteq Logs!Deployments
        /\ \A d \in Logs!selectPending(Logs!Listed) : status[d] = "success"
    BY <2>1 DEF Logs!selectPending
  <2>3. w \in WalkRow
    BY <2>1, <2>2 DEF WalkRow
  <2>4. /\ \A d \in w.targets : status[d] = "success"
        /\ \A d \in w.listed : status[d] = "success"
    BY <2>2
  <2>5. run' = [run EXCEPT ![r] = w] /\ UNCHANGED <<status, archive>>
    BY <1>5 DEF Logs!Start
  <2> HIDE DEF w
  <2>6. run'[r] = w /\ \A q \in Writers \ {r} : run'[q] = run[q]
    BY <2>5 DEF LogsType
  <2>7. LogsType'
    BY <2>3, <2>5 DEF LogsType
  <2>8. \A q \in Writers : Walks(q)'
    BY <2>4, <2>5, <2>6 DEF LogsInv, Walks
  <2>9. Logs!FiledWentOut'
    BY <2>5 DEF LogsInv, Logs!FiledWentOut
  <2> QED  BY <2>5, <2>7, <2>8, <2>9 DEF LogsInv
<1>6. ASSUME NEW r \in Writers, NEW previous \in Logs!Outcomes, NEW nearest \in Logs!Outcomes,
             Logs!Step(r, previous, nearest)
      PROVE  Goal
  <2>1. /\ archive' \in [Logs!Deployments -> LogRow]
        /\ \A e \in Logs!Deployments : archive[e].filed => archive'[e] = archive[e]
        /\ \A e \in Logs!Deployments : archive'[e] # archive[e] =>
              /\ status[e] = "success" /\ archive'[e].baseRef < e
              /\ archive'[e].baseRef # 0 => status[archive'[e].baseRef] = "success"
    BY <1>6, StepFiles
  <2> DEFINE w == [run[r] EXCEPT !.targets = run[r].targets \ {Logs!Target(r)}]
  <2>2. run' = [run EXCEPT ![r] = w] /\ UNCHANGED status
    BY <1>6 DEF Logs!Step
  <2>3. w \in WalkRow /\ w.targets \subseteq run[r].targets /\ w.listed = run[r].listed
    BY <1>a DEF WalkRow
  <2> HIDE DEF w
  <2>4. run'[r] = w /\ \A q \in Writers \ {r} : run'[q] = run[q]
    BY <2>2 DEF LogsType
  <2>5. LogsType'
    BY <2>1, <2>2, <2>3 DEF LogsType
  <2>6. \A q \in Writers : Walks(q)'
    BY <2>2, <2>3, <2>4 DEF LogsInv, Walks
  <2>7. Logs!FiledWentOut'
    BY <2>1, <2>2 DEF LogsInv, Logs!FiledWentOut
  <2> QED  BY <2>1, <2>5, <2>6, <2>7 DEF LogsInv
<1>7. ASSUME NEW r \in Writers, NEW reserve \in BOOLEAN, Logs!End(r, reserve)  PROVE Goal
  <2>1. run' = [run EXCEPT ![r] = Logs!Idle] /\ UNCHANGED <<status, archive>>
    BY <1>7 DEF Logs!End
  <2>2. run'[r] = Logs!Idle /\ \A q \in Writers \ {r} : run'[q] = run[q]
    BY <2>1 DEF LogsType
  <2>3. LogsType'
    BY <1>a, <2>1 DEF LogsType
  <2>4. \A q \in Writers : Walks(q)'
    BY <1>a, <2>1, <2>2 DEF LogsInv, Walks
  <2>5. Logs!FiledWentOut'
    BY <2>1 DEF LogsInv, Logs!FiledWentOut
  <2> QED  BY <2>1, <2>3, <2>4, <2>5 DEF LogsInv
<1> QED  BY <1>1, <1>2, <1>3, <1>4, <1>5, <1>6, <1>7 DEF Logs!Next

\* The invariant holds where nothing went out and nothing is filed.
LEMMA LogsStart == ASSUME Last \in Nat, Logs!Init PROVE LogsType /\ LogsInv
<1>1. Logs!NoRecord \in LogRow /\ ~Logs!NoRecord.filed
  BY DEF Logs!NoRecord, LogRow
<1>2. Logs!Idle \in WalkRow /\ Logs!Idle.targets = {} /\ Logs!Idle.listed = {}
  BY DEF Logs!Idle, WalkRow
<1>3. LogsType
  BY <1>1, <1>2 DEF Logs!Init, LogsType
<1>4. LogsInv
  BY <1>1, <1>2 DEF Logs!Init, LogsInv, Walks, Logs!FiledWentOut
<1> QED  BY <1>3, <1>4

\* A changelog is filed only for a deployment that went out, against one that
\* went out before it, whatever overlapped, failed or was dropped (archive,
\* selectPending, previousDeployment).
THEOREM FiledMeansWentOut ==
  ASSUME Last \in Nat
  PROVE  Logs!Spec => []Logs!FiledWentOut
<1>1. Logs!Init => LogsType /\ LogsInv
  BY LogsStart
<1>2. LogsType /\ LogsInv /\ [Logs!Next]_(Logs!vars) => LogsType' /\ LogsInv'
  BY LogsStep
<1>3. LogsInv => Logs!FiledWentOut
  BY DEF LogsInv
<1> QED  BY <1>1, <1>2, <1>3, PTL DEF Logs!Spec

\* What is answered of a deployment once filed is answered for ever
\* (ChangelogStore.record, changes).
THEOREM FiledStaysFiled ==
  ASSUME Last \in Nat
  PROVE  Logs!Spec => [][Logs!FiledIsFinal]_(Logs!vars)
<1>1. Logs!Init => LogsType /\ LogsInv
  BY LogsStart
<1>2. LogsType /\ LogsInv /\ [Logs!Next]_(Logs!vars) => LogsType' /\ LogsInv'
  BY LogsStep
<1>3. LogsType /\ LogsInv /\ [Logs!Next]_(Logs!vars) => [Logs!FiledIsFinal]_(Logs!vars)
  <2> SUFFICES ASSUME LogsType, LogsInv, [Logs!Next]_(Logs!vars),
                      NEW d \in Logs!Deployments, archive[d].filed
               PROVE  Logs!changes(d)' = Logs!changes(d)
    BY DEF Logs!FiledIsFinal
  <2>1. archive'[d] = archive[d]
    BY LogsStep
  <2>2. archive[d].unreadable \in BOOLEAN
    BY DEF LogsType, LogRow
  <2>3. Logs!changes(d) = IF archive[d].unreadable
                          THEN [answer |-> "contentsLost", log |-> Logs!NoRecord]
                          ELSE [answer |-> "archived", log |-> archive[d]]
    BY <2>2 DEF Logs!changes
  <2>4. Logs!changes(d)' = IF archive'[d].unreadable
                           THEN [answer |-> "contentsLost", log |-> Logs!NoRecord]
                           ELSE [answer |-> "archived", log |-> archive'[d]]
    BY <2>1, <2>2 DEF Logs!changes, Logs!NoRecord
  <2> QED  BY <2>1, <2>3, <2>4
<1> QED  BY <1>1, <1>2, <1>3, PTL DEF Logs!Spec

-----------------------------------------------------------------------------
(* Version readings.                                                       *)

ReadingFields == {"pc", "dep", "prefers", "status", "rule", "version", "held", "stale"}

ShownFields == {"read", "version", "dep", "rule", "due"}

\* Every pair has its row, its readings and the readings kept for each of its
\* deployments.  Nothing is said of the rules and the versions themselves.
ReadingsShape ==
  /\ latest \in [Readings!Pairs -> Readings!Deployments]
  /\ DOMAIN shown = Readings!Pairs
  /\ \A e \in Readings!Pairs : DOMAIN shown[e] = ShownFields
  /\ DOMAIN newest = Readings!Pairs
  /\ DOMAIN frozen = Readings!Pairs
  /\ \A e \in Readings!Pairs : DOMAIN frozen[e] = Readings!Deployments
  /\ DOMAIN reader = Readings!Readers
  /\ \A w \in Readings!Readers : DOMAIN reader[w] = Readings!Pairs
  /\ \A w \in Readings!Readers, e \in Readings!Pairs :
       DOMAIN reader[w][e] = ReadingFields /\ reader[w][e].dep \in Readings!Deployments

\* A reading that is about to be written, and that no other write has made
\* obsolete, compares with the row as it is.
ComparesWithRow ==
  \A w \in Readings!Readers, e \in Readings!Pairs :
    reader[w][e].pc = "write" /\ ~reader[w][e].stale => reader[w][e].held = shown[e].version

ReadingsInv == ComparesWithRow /\ Readings!RowAndFrozenAgree

\* A step that replaces one reading, and leaves the tables as they are.
LEMMA ReadingMoves ==
  ASSUME ReadingsShape, ReadingsInv, NEW w \in Readings!Readers, NEW e \in Readings!Pairs, NEW r,
         UNCHANGED <<shown, newest, frozen>>,
         latest' \in [Readings!Pairs -> Readings!Deployments],
         reader' = [reader EXCEPT ![w][e] = r],
         DOMAIN r = ReadingFields, r.dep \in Readings!Deployments,
         r.pc = "write" /\ ~r.stale => r.held = shown[e].version
  PROVE  ReadingsShape' /\ ReadingsInv' /\ Readings!TimelinePartsOnlyByRace
<1>1. /\ DOMAIN reader' = Readings!Readers
      /\ \A x \in Readings!Readers : DOMAIN reader'[x] = Readings!Pairs
      /\ reader'[w][e] = r
      /\ \A x \in Readings!Readers, f \in Readings!Pairs :
           x # w \/ f # e => reader'[x][f] = reader[x][f]
  BY DEF ReadingsShape
<1>2. ReadingsShape'
  BY <1>1 DEF ReadingsShape
<1>3. ComparesWithRow'
  BY <1>1 DEF ReadingsInv, ComparesWithRow
<1>4. Readings!RowAndFrozenAgree'
  BY DEF ReadingsInv, Readings!RowAndFrozenAgree
<1>5. Readings!TimelinePartsOnlyByRace
  BY DEF Readings!TimelinePartsOnlyByRace, Readings!Parted
<1> QED  BY <1>2, <1>3, <1>4, <1>5 DEF ReadingsInv

\* A step that leaves the readings and the tables as they are.
LEMMA NothingRead ==
  ASSUME ReadingsShape, ReadingsInv, UNCHANGED <<shown, newest, frozen, reader>>,
         latest' \in [Readings!Pairs -> Readings!Deployments]
  PROVE  ReadingsShape' /\ ReadingsInv' /\ Readings!TimelinePartsOnlyByRace
<1>1. ReadingsShape'
  BY DEF ReadingsShape
<1>2. ReadingsInv'
  BY DEF ReadingsInv, ComparesWithRow, Readings!RowAndFrozenAgree
<1>3. Readings!TimelinePartsOnlyByRace
  BY DEF Readings!TimelinePartsOnlyByRace, Readings!Parted
<1> QED  BY <1>1, <1>2, <1>3

\* A reading that begins.
LEMMA Beginning ==
  ASSUME NEW d \in Readings!Deployments, NEW p
  PROVE  LET r == [Readings!Quiet EXCEPT !.pc = "ask", !.dep = d, !.prefers = p]
         IN  DOMAIN r = ReadingFields /\ r.dep = d /\ r.pc = "ask"
BY DEF Readings!Quiet, ReadingFields

\* record's transaction: the row, the timeline and what is kept for the
\* deployment are of one reading, and whoever was between the two halves is
\* stale from here on.
LEMMA WritingHolds ==
  ASSUME MaxDeployments \in Nat, ReadingsShape, ReadingsInv,
         NEW w \in Readings!Readers, NEW e \in Readings!Pairs, Readings!Write(w, e)
  PROVE  ReadingsShape' /\ ReadingsInv' /\ Readings!TimelinePartsOnlyByRace
<1> DEFINE r == reader[w][e]
           changed == Readings!Changed(r)
           new == [read |-> TRUE, version |-> r.version, dep |-> r.dep, rule |-> r.rule,
                   due |-> FALSE]
<1>1. /\ r.pc = "write" /\ latest' = latest
      /\ shown' = [shown EXCEPT ![e] = new]
      /\ newest' = IF changed THEN [newest EXCEPT ![e] = r.version] ELSE newest
      /\ frozen' = IF r.dep = 0 THEN frozen
                   ELSE [frozen EXCEPT ![e] = [frozen[e] EXCEPT ![r.dep] = r.version]]
  BY DEF Readings!Write, Readings!FrozenWrite
<1>2. reader' = [x \in Readings!Readers |->
          IF x = w THEN [reader[x] EXCEPT ![e] = Readings!Quiet]
          ELSE IF reader[x][e].pc = "write"
               THEN [reader[x] EXCEPT ![e] = [reader[x][e] EXCEPT !.stale = TRUE]]
               ELSE reader[x]]
  BY DEF Readings!Write
<1>3. /\ DOMAIN Readings!Quiet = ReadingFields /\ Readings!Quiet.dep = 0
      /\ Readings!Quiet.pc = "idle" /\ 0 \in Readings!Deployments
  BY DEF Readings!Quiet, ReadingFields, Readings!Deployments
<1>4. DOMAIN r = ReadingFields /\ r.dep \in Readings!Deployments
  BY DEF ReadingsShape
<1>5. DOMAIN new = ShownFields /\ new.version = r.version /\ new.dep = r.dep /\ new.read
  BY DEF ShownFields
<1>6. changed <=> r.version # "none" /\ r.version # r.held
  BY DEF Readings!Changed, Readings!None
<1> HIDE DEF new, changed
<1>7. /\ DOMAIN reader' = Readings!Readers
      /\ \A x \in Readings!Readers : DOMAIN reader'[x] = Readings!Pairs
      /\ \A x \in Readings!Readers, f \in Readings!Pairs : f # e => reader'[x][f] = reader[x][f]
      /\ reader'[w][e] = Readings!Quiet
  BY <1>2 DEF ReadingsShape
<1>8. ASSUME NEW x \in Readings!Readers \ {w}
      PROVE  /\ DOMAIN reader'[x][e] = ReadingFields
             /\ reader'[x][e].dep \in Readings!Deployments
             /\ reader'[x][e].pc = "write" => reader'[x][e].stale
  <2>1. DOMAIN reader[x][e] = ReadingFields /\ reader[x][e].dep \in Readings!Deployments
    BY DEF ReadingsShape
  <2>2. CASE reader[x][e].pc = "write"
    <3>1. reader'[x][e] = [reader[x][e] EXCEPT !.stale = TRUE]
      BY <1>2, <2>2 DEF ReadingsShape
    <3>2. reader'[x][e].stale = TRUE /\ reader'[x][e].dep = reader[x][e].dep
          /\ DOMAIN reader'[x][e] = ReadingFields
      BY <2>1, <3>1 DEF ReadingFields
    <3> QED  BY <2>1, <3>2
  <2>3. CASE reader[x][e].pc # "write"
    <3>1. reader'[x][e] = reader[x][e]
      BY <1>2, <2>3 DEF ReadingsShape
    <3> QED  BY <2>1, <2>3, <3>1
  <2> QED  BY <2>2, <2>3
<1>9. /\ DOMAIN shown' = Readings!Pairs /\ shown'[e] = new
      /\ \A f \in Readings!Pairs \ {e} : shown'[f] = shown[f]
  BY <1>1 DEF ReadingsShape
<1>10. /\ DOMAIN newest' = Readings!Pairs
       /\ newest'[e] = IF changed THEN r.version ELSE newest[e]
       /\ \A f \in Readings!Pairs \ {e} : newest'[f] = newest[f]
  BY <1>1 DEF ReadingsShape
<1>11. /\ DOMAIN frozen' = Readings!Pairs
       /\ \A f \in Readings!Pairs : DOMAIN frozen'[f] = Readings!Deployments
       /\ \A f \in Readings!Pairs \ {e} : frozen'[f] = frozen[f]
       /\ r.dep # 0 => frozen'[e][r.dep] = r.version
  BY <1>1, <1>4 DEF ReadingsShape
<1>12. ReadingsShape'
  <2>1. \A x \in Readings!Readers, f \in Readings!Pairs :
          DOMAIN reader'[x][f] = ReadingFields /\ reader'[x][f].dep \in Readings!Deployments
    BY <1>3, <1>7, <1>8 DEF ReadingsShape
  <2>2. \A f \in Readings!Pairs : DOMAIN shown'[f] = ShownFields
    BY <1>5, <1>9 DEF ReadingsShape
  <2> QED  BY <1>1, <1>7, <1>9, <1>10, <1>11, <2>1, <2>2 DEF ReadingsShape
<1>13. ComparesWithRow'
  <2>1. ASSUME NEW x \in Readings!Readers, NEW f \in Readings!Pairs,
               reader'[x][f].pc = "write", ~reader'[x][f].stale
        PROVE  reader'[x][f].held = shown'[f].version
    <3>1. f # e
      BY <1>3, <1>7, <1>8, <2>1
    <3> QED  BY <1>7, <1>9, <2>1, <3>1 DEF ReadingsInv, ComparesWithRow
  <2> QED  BY <2>1 DEF ComparesWithRow
<1>14. Readings!RowAndFrozenAgree'
  <2>1. ASSUME NEW f \in Readings!Pairs, shown'[f].read, shown'[f].dep # 0
        PROVE  frozen'[f][shown'[f].dep] = shown'[f].version
    <3>1. CASE f = e
      BY <1>5, <1>9, <1>11, <2>1, <3>1
    <3>2. CASE f # e
      BY <1>9, <1>11, <2>1, <3>2 DEF ReadingsInv, Readings!RowAndFrozenAgree
    <3> QED  BY <3>1, <3>2
  <2> QED  BY <2>1 DEF Readings!RowAndFrozenAgree
<1>15. Readings!TimelinePartsOnlyByRace
  <2>1. ASSUME NEW f \in Readings!Pairs, ~Readings!Parted(f), Readings!Parted(f)'
        PROVE  r.stale /\ f = e
    <3>1. f = e
      BY <1>9, <1>10, <2>1 DEF Readings!Parted
    <3>2. r.version # "none" /\ newest'[e] # r.version
      BY <1>5, <1>9, <2>1, <3>1 DEF Readings!Parted, Readings!None
    <3>3. ~changed /\ r.version = r.held /\ newest[e] # r.held
      BY <1>6, <1>10, <3>2
    <3>4. shown[e].version # r.held
      BY <2>1, <3>1, <3>2, <3>3 DEF Readings!Parted, Readings!None
    <3> QED  BY <1>1, <3>1, <3>4 DEF ReadingsInv, ComparesWithRow
  <2> QED  BY <1>1, <1>3, <1>7, <2>1 DEF Readings!TimelinePartsOnlyByRace
<1> QED  BY <1>12, <1>13, <1>14, <1>15 DEF ReadingsInv

\* Every step keeps the shape and what a reading compares with, and parts the
\* timeline from the row only where a stale reading is written.
LEMMA ReadingsStep ==
  ASSUME MaxDeployments \in Nat, ReadingsShape, ReadingsInv, [Readings!Next]_(Readings!vars)
  PROVE  ReadingsShape' /\ ReadingsInv' /\ Readings!TimelinePartsOnlyByRace
<1> DEFINE Goal == ReadingsShape' /\ ReadingsInv' /\ Readings!TimelinePartsOnlyByRace
<1>a. latest \in [Readings!Pairs -> Readings!Deployments]
  BY DEF ReadingsShape
<1>1. CASE UNCHANGED Readings!vars
  BY <1>1, <1>a, NothingRead DEF Readings!vars
<1>2. ASSUME NEW e \in Readings!Pairs, NEW v, NEW heard, Readings!Deploy(e, v, heard)  PROVE Goal
  <2>1. latest[e] + 1 \in Readings!Deployments
    BY <1>2, <1>a DEF Readings!Deploy, Readings!Deployments
  <2>2. latest' = [latest EXCEPT ![e] = latest[e] + 1] /\ UNCHANGED <<shown, newest, frozen, reader>>
    BY <1>2 DEF Readings!Deploy
  <2>3. latest' \in [Readings!Pairs -> Readings!Deployments]
    BY <1>a, <2>1, <2>2
  <2> QED  BY <2>2, <2>3, NothingRead
<1>3. ASSUME NEW e \in Readings!Pairs,
             Readings!Restart(e) \/ Readings!AskCheck(e) \/ Readings!AskAdd(e)
      PROVE  Goal
  <2>1. UNCHANGED <<latest, shown, newest, frozen, reader>>
    BY <1>3 DEF Readings!Restart, Readings!AskCheck, Readings!AskAdd
  <2> QED  BY <1>a, <2>1, NothingRead
<1>4. ASSUME NEW e \in Readings!Pairs, Readings!JobStart(e)  PROVE Goal
  <2>1. UNCHANGED <<latest, shown, newest, frozen>>
    BY <1>4 DEF Readings!JobStart
  <2>2. CASE UNCHANGED reader
    BY <1>a, <2>1, <2>2, NothingRead
  <2>3. CASE ~UNCHANGED reader
    <3> DEFINE r == [Readings!Quiet EXCEPT !.pc = "ask", !.dep = latest[e],
                                           !.prefers = shown[e].rule]
    <3>1. reader' = [reader EXCEPT !["job"][e] = r]
      BY <1>4, <2>3 DEF Readings!JobStart
    <3>2. DOMAIN r = ReadingFields /\ r.dep = latest[e] /\ r.pc = "ask"
      BY <1>a, Beginning
    <3> HIDE DEF r
    <3>3. "job" \in Readings!Readers /\ latest[e] \in Readings!Deployments
      BY <1>a DEF Readings!Readers
    <3> QED  BY <1>a, <2>1, <3>1, <3>2, <3>3, ReadingMoves
  <2> QED  BY <2>2, <2>3
<1>5. ASSUME NEW e \in Readings!Pairs, Readings!Elapse(e)  PROVE Goal
  <2>1. shown' = [shown EXCEPT ![e].due = TRUE] /\ UNCHANGED <<latest, newest, frozen, reader>>
    BY <1>5 DEF Readings!Elapse
  <2>2. DOMAIN shown[e] = ShownFields
    BY DEF ReadingsShape
  <2>3. /\ DOMAIN shown' = Readings!Pairs
        /\ \A f \in Readings!Pairs :
             /\ DOMAIN shown'[f] = ShownFields
             /\ shown'[f].version = shown[f].version
             /\ shown'[f].dep = shown[f].dep /\ shown'[f].read = shown[f].read
    BY <2>1, <2>2 DEF ReadingsShape, ShownFields
  <2>4. ReadingsShape'
    BY <2>1, <2>3 DEF ReadingsShape
  <2>5. ReadingsInv'
    BY <2>1, <2>3 DEF ReadingsInv, ComparesWithRow, Readings!RowAndFrozenAgree
  <2>6. Readings!TimelinePartsOnlyByRace
    BY <2>1, <2>3 DEF Readings!TimelinePartsOnlyByRace, Readings!Parted
  <2> QED  BY <2>4, <2>5, <2>6
<1>6. ASSUME NEW w \in Readings!Readers, NEW e \in Readings!Pairs, NEW answers,
             Readings!Ask(w, e, answers)
      PROVE  Goal
  <2> DEFINE old == reader[w][e]
             kept == Readings!Filed(Readings!preferring(Rules, old.prefers), answers)
             r == [old EXCEPT !.pc = "lookup", !.rule = kept, !.prefers = Readings!None,
                              !.status = Readings!StatusOf(answers[kept]),
                              !.version = IF answers[kept] = "ok" THEN app[e].serves
                                          ELSE Readings!None]
  <2>1. reader' = [reader EXCEPT ![w][e] = r] /\ UNCHANGED <<latest, shown, newest, frozen>>
    BY <1>6 DEF Readings!Ask
  <2>2. DOMAIN old = ReadingFields /\ old.dep \in Readings!Deployments
    BY DEF ReadingsShape
  <2> HIDE DEF old, kept
  <2>3. DOMAIN r = ReadingFields /\ r.dep = old.dep /\ r.pc = "lookup"
    BY <2>2 DEF ReadingFields
  <2> HIDE DEF r
  <2> QED  BY <1>a, <2>1, <2>2, <2>3, ReadingMoves
<1>7. ASSUME NEW w \in Readings!Readers, NEW e \in Readings!Pairs, Readings!Lookup(w, e)
      PROVE  Goal
  <2> DEFINE old == reader[w][e]
             r == [old EXCEPT !.pc = "write", !.held = shown[e].version, !.stale = FALSE]
  <2>1. reader' = [reader EXCEPT ![w][e] = r] /\ UNCHANGED <<latest, shown, newest, frozen>>
    BY <1>7 DEF Readings!Lookup
  <2>2. DOMAIN old = ReadingFields /\ old.dep \in Readings!Deployments
    BY DEF ReadingsShape
  <2> HIDE DEF old
  <2>3. DOMAIN r = ReadingFields /\ r.dep = old.dep /\ r.held = shown[e].version
    BY <2>2 DEF ReadingFields
  <2> HIDE DEF r
  <2> QED  BY <1>a, <2>1, <2>2, <2>3, ReadingMoves
<1>8. ASSUME NEW w \in Readings!Readers, NEW e \in Readings!Pairs, Readings!Write(w, e)
      PROVE  Goal
  BY <1>8, WritingHolds
<1>9. ASSUME NEW w \in Readings!RunReaders, NEW force \in BOOLEAN, Readings!RunStart(w, force)
      PROVE  Goal
  <2> DEFINE targets == Readings!selectProbes(force)
             new(e) == [Readings!Quiet EXCEPT !.pc = "ask", !.dep = latest[e],
                          !.prefers = IF force THEN Readings!None ELSE shown[e].rule]
  <2>1. /\ reader' = [reader EXCEPT ![w] =
              [e \in Readings!Pairs |->
                 IF e \in targets \cap Claimed THEN new(e) ELSE reader[w][e]]]
        /\ UNCHANGED <<latest, shown, newest, frozen>>
    BY <1>9 DEF Readings!RunStart
  <2>2. w \in Readings!Readers
    BY DEF Readings!RunReaders
  <2>3. \A e \in Readings!Pairs :
          /\ DOMAIN new(e) = ReadingFields /\ new(e).dep \in Readings!Deployments
          /\ new(e).pc = "ask"
    BY <1>a, Beginning
  <2> HIDE DEF new, targets
  <2>4. /\ DOMAIN reader' = Readings!Readers
        /\ \A x \in Readings!Readers : DOMAIN reader'[x] = Readings!Pairs
        /\ \A x \in Readings!Readers, e \in Readings!Pairs :
             reader'[x][e] = reader[x][e] \/ reader'[x][e] = new(e)
    BY <2>1, <2>2 DEF ReadingsShape
  <2>5. \A x \in Readings!Readers, e \in Readings!Pairs :
          DOMAIN reader'[x][e] = ReadingFields /\ reader'[x][e].dep \in Readings!Deployments
    BY <2>3, <2>4 DEF ReadingsShape
  <2>6. ReadingsShape'
    BY <2>1, <2>4, <2>5 DEF ReadingsShape
  <2>7. ComparesWithRow'
    BY <2>1, <2>3, <2>4 DEF ReadingsInv, ComparesWithRow
  <2>8. Readings!RowAndFrozenAgree'
    BY <2>1 DEF ReadingsInv, Readings!RowAndFrozenAgree
  <2>9. Readings!TimelinePartsOnlyByRace
    BY <2>1 DEF Readings!TimelinePartsOnlyByRace, Readings!Parted
  <2> QED  BY <2>6, <2>7, <2>8, <2>9 DEF ReadingsInv
<1> QED  BY <1>1, <1>2, <1>3, <1>4, <1>5, <1>6, <1>7, <1>8, <1>9 DEF Readings!Next

\* At the start nothing has been read.
LEMMA ReadingsStart ==
  ASSUME MaxDeployments \in Nat, Readings!Init
  PROVE  ReadingsShape /\ ReadingsInv
<1>1. /\ DOMAIN Readings!Quiet = ReadingFields /\ Readings!Quiet.dep = 0
      /\ Readings!Quiet.pc = "idle" /\ 0 \in Readings!Deployments
      /\ DOMAIN Readings!NoRow = ShownFields /\ ~Readings!NoRow.read
  BY DEF Readings!Quiet, ReadingFields, Readings!Deployments, Readings!NoRow, ShownFields
<1>2. ReadingsShape
  BY <1>1 DEF Readings!Init, ReadingsShape
<1>3. ReadingsInv
  BY <1>1 DEF Readings!Init, ReadingsInv, ComparesWithRow, Readings!RowAndFrozenAgree
<1> QED  BY <1>2, <1>3

\* What is kept for a deployment is the version its environment's row shows,
\* whatever readings of one environment overlapped (record, frozenWrite).
THEOREM RowAndHistoryAgree ==
  ASSUME MaxDeployments \in Nat
  PROVE  Readings!Spec => []Readings!RowAndFrozenAgree
<1>1. Readings!Init => ReadingsShape /\ ReadingsInv
  BY ReadingsStart
<1>2. ReadingsShape /\ ReadingsInv /\ [Readings!Next]_(Readings!vars)
        => ReadingsShape' /\ ReadingsInv'
  BY ReadingsStep
<1>3. ReadingsInv => Readings!RowAndFrozenAgree
  BY DEF ReadingsInv
<1> QED  BY <1>1, <1>2, <1>3, PTL DEF Readings!Spec

\* The timeline of an environment parts from its row only when a reading is
\* written on a comparison another one made obsolete (record).
THEOREM TimelineFollowsTheRow ==
  ASSUME MaxDeployments \in Nat
  PROVE  Readings!Spec => [][Readings!TimelinePartsOnlyByRace]_(Readings!vars)
<1>1. Readings!Init => ReadingsShape /\ ReadingsInv
  BY ReadingsStart
<1>2. ReadingsShape /\ ReadingsInv /\ [Readings!Next]_(Readings!vars)
        => ReadingsShape' /\ ReadingsInv' /\ [Readings!TimelinePartsOnlyByRace]_(Readings!vars)
  BY ReadingsStep
<1> QED  BY <1>1, <1>2, PTL DEF Readings!Spec

-----------------------------------------------------------------------------
(* Api quota.                                                              *)

\* What the bounds are.
QuotaBounds ==
  /\ BudgetBucket \in Buckets
  /\ MaxCalls \in Nat \ {0} /\ MaxWindows \in Nat \ {0} /\ MaxCrashes \in Nat

FlushRow == [pc : {"idle", "walk", "write"}, keys : SUBSET Buckets, key : Buckets,
             data : Quota!Readings]

CallRow == [bucket : Buckets, win : Quota!Windows, used : 1 .. MaxCalls]

BudgetRow == [cached : BOOLEAN, row : BOOLEAN, declaring : {"no", "row", "cache"},
              withdrawing : BOOLEAN]

\* A provider that is not known to meter has no reading of its own in memory.
MeteredIsKnown == ~metered => \A b \in Buckets : current[b].origin # "observed"

\* Once a source was forgotten, a bucket nobody recorded since, and which was
\* not being written then, is held by nothing that could write its row again,
\* and has no row once the rows are gone.
ForgottenQuietly ==
  Quota!Forgotten =>
    \A b \in Buckets \ late :
      /\ current[b] = Quota!NoReading
      /\ \A f \in Writers : flush[f].pc = "write" => flush[f].key # b
      /\ forgets = "done" => stored[b] = Quota!NoReading

QuotaInv == MeteredIsKnown /\ ForgottenQuietly /\ Quota!StoredLagsOnlyByRace

\* A reading is none, or of a window and a count.
LEMMA QuotaReadingParts ==
  ASSUME QuotaBounds, NEW r \in Quota!Readings
  PROVE  /\ r.used \in Nat /\ r.win \in Nat /\ r.origin \in {"none", "observed", "declared"}
         /\ r.origin # "none" => r \in [win : Quota!Windows, used : 1 .. MaxCalls,
                                        origin : {"observed", "declared"}]
         /\ Quota!NoReading \in Quota!Readings /\ Quota!NoReading.origin = "none"
<1>1. CASE r = Quota!NoReading
  BY <1>1 DEF Quota!NoReading, Quota!Readings
<1>2. CASE r \in [win : Quota!Windows, used : 1 .. MaxCalls, origin : {"observed", "declared"}]
  BY <1>2 DEF Quota!NoReading, Quota!Readings, Quota!Windows, QuotaBounds
<1> QED  BY <1>1, <1>2 DEF Quota!Readings

\* The type of everything held, by the parts the steps change.
QuotaType ==
  /\ window \in Quota!Windows
  /\ spent \in [Buckets -> 0 .. MaxCalls]
  /\ inflight \subseteq CallRow
  /\ current \in [Buckets -> Quota!Readings] /\ stored \in [Buckets -> Quota!Readings]
  /\ dirty \subseteq Buckets /\ lost \subseteq Buckets /\ late \subseteq Buckets
  /\ metered \in BOOLEAN /\ timer \in BOOLEAN /\ context \in BOOLEAN
  /\ flush \in [Writers -> FlushRow]
  /\ budget \in BudgetRow
  /\ forgets \in {"no", "removed", "budget", "rows", "done", "broken"}
  /\ crashes \in 0 .. MaxCrashes

\* What every step keeps, and what none may do.
QuotaKeeps ==
  QuotaType' /\ QuotaInv' /\ Quota!CountNeverShrinks /\ Quota!ObservedIsNotRecounted

\* Nothing under way, and what a flush is when it is over.
LEMMA NoFlushParts ==
  ASSUME QuotaBounds
  PROVE  /\ Quota!NoFlush \in FlushRow /\ Quota!NoFlush.pc = "idle"
         /\ \A K \in SUBSET Buckets :
              LET w == [Quota!NoFlush EXCEPT !.pc = "walk", !.keys = K]
              IN  w \in FlushRow /\ w.pc = "walk" /\ w.keys = K
<1>1. Quota!NoReading \in Quota!Readings
  BY DEF Quota!Readings
<1> QED  BY <1>1 DEF Quota!NoFlush, FlushRow, QuotaBounds

\* What is counted against a declared ceiling is a reading of this window.
LEMMA CountCallGives ==
  ASSUME QuotaBounds, window \in Quota!Windows, NEW held \in Quota!Readings,
         Quota!countCall(held).used <= MaxCalls
  PROVE  Quota!countCall(held) \in Quota!Readings /\ Quota!countCall(held).origin = "declared"
<1>1. CASE held.origin = "declared" /\ held.win >= window
  <2>1. held \in [win : Quota!Windows, used : 1 .. MaxCalls, origin : {"observed", "declared"}]
    BY <1>1, QuotaReadingParts
  <2> DEFINE c == [held EXCEPT !.used = held.used + 1]
  <2>2. Quota!countCall(held) = c
    BY <1>1 DEF Quota!countCall
  <2>3. c.used = held.used + 1 /\ c.win = held.win /\ c.origin = "declared"
        /\ c = [win |-> held.win, used |-> held.used + 1, origin |-> held.origin]
    BY <1>1, <2>1
  <2>4. held.used + 1 \in 1 .. MaxCalls
    BY <2>1, <2>2, <2>3 DEF QuotaBounds
  <2>5. c \in [win : Quota!Windows, used : 1 .. MaxCalls, origin : {"observed", "declared"}]
    BY <2>1, <2>3, <2>4
  <2> QED  BY <2>2, <2>3, <2>5 DEF Quota!Readings
<1>2. CASE ~(held.origin = "declared" /\ held.win >= window)
  BY <1>2 DEF Quota!countCall, Quota!Readings, QuotaBounds
<1> QED  BY <1>1, <1>2

\* Where the readings, the marks and the rows stay as they are, nothing is lost
\* of them, as long as nothing but a held reading is sent to the table.
LEMMA ReadingsStay ==
  ASSUME QuotaType, QuotaInv, QuotaType',
         UNCHANGED <<current, dirty, metered, stored, lost, late>>,
         \A f \in Writers : flush'[f].pc = "write" =>
           \/ flush[f].pc = "write" /\ flush'[f].key = flush[f].key
           \/ current[flush'[f].key] # Quota!NoReading,
         \/ forgets' = forgets \/ forgets' \in {"removed", "broken"}
         \/ forgets = "budget" /\ forgets' = "rows"
  PROVE  QuotaKeeps
<1>1. MeteredIsKnown'
  BY DEF QuotaInv, MeteredIsKnown
<1>2. ForgottenQuietly'
  BY DEF QuotaInv, ForgottenQuietly, Quota!Forgotten
<1>3. Quota!StoredLagsOnlyByRace'
  BY DEF QuotaInv, Quota!StoredLagsOnlyByRace
<1>4. Quota!CountNeverShrinks
  <2>1. \A b \in Buckets : current[b] \in Quota!Readings
    BY DEF QuotaType
  <2>2. \A b \in Buckets : current'[b].used = current[b].used
    OBVIOUS
  <2>3. \A r \in Quota!Readings : r.used >= r.used
    BY DEF Quota!Readings, Quota!NoReading
  <2> QED  BY <2>1, <2>2, <2>3 DEF Quota!CountNeverShrinks
<1>5. Quota!ObservedIsNotRecounted
  BY DEF Quota!ObservedIsNotRecounted
<1> QED  BY <1>1, <1>2, <1>3, <1>4, <1>5 DEF QuotaInv, QuotaKeeps

\* A call, a window that rolls over, a declaration, the start and the end of a
\* flush, and the parts of a removal that touch none leave the readings alone.
LEMMA QuietSteps ==
  ASSUME QuotaBounds, QuotaType, QuotaInv,
         \/ \E b \in Buckets : Quota!Call(b)
         \/ Quota!Roll \/ Quota!DeclareAsked \/ Quota!DeclareRow \/ Quota!DeclareCache
         \/ Quota!WithdrawCache \/ Quota!WithdrawRow
         \/ Quota!RemoveSource \/ Quota!ForgetBudget \/ Quota!ForgetFails
         \/ \E f \in Writers : Quota!FlushStart(f) \/ Quota!FlushEnd(f)
         \/ UNCHANGED Quota!vars
  PROVE  QuotaKeeps
<1> USE DEF QuotaType
<1>1. ASSUME NEW b \in Buckets, Quota!Call(b)  PROVE QuotaKeeps
  <2> DEFINE c == [bucket |-> b, win |-> window, used |-> spent[b] + 1]
  <2>1. spent[b] + 1 \in 0 .. MaxCalls /\ spent[b] + 1 \in 1 .. MaxCalls
    BY <1>1 DEF Quota!Call, QuotaBounds
  <2>2. c \in CallRow
    BY <2>1 DEF CallRow
  <2>3. /\ inflight' = inflight \cup {c} /\ spent' = [spent EXCEPT ![b] = spent[b] + 1]
        /\ UNCHANGED <<window, current, dirty, metered, timer, flush, stored, budget, forgets,
                       context, crashes, lost, late>>
    BY <1>1 DEF Quota!Call, Quota!memory
  <2> HIDE DEF c
  <2>4. QuotaType'
    BY <2>1, <2>2, <2>3
  <2> QED  BY <2>3, <2>4, ReadingsStay
<1>2. ASSUME Quota!Roll  PROVE QuotaKeeps
  <2>1. window' \in Quota!Windows /\ spent' \in [Buckets -> 0 .. MaxCalls]
    BY <1>2 DEF Quota!Roll, QuotaBounds, Quota!Windows
  <2>2. UNCHANGED <<inflight, current, dirty, metered, timer, flush, stored, budget, forgets,
                    context, crashes, lost, late>>
    BY <1>2 DEF Quota!Roll, Quota!memory
  <2>3. QuotaType'
    BY <2>1, <2>2
  <2> QED  BY <2>2, <2>3, ReadingsStay
<1>3. ASSUME \/ Quota!DeclareAsked \/ Quota!DeclareRow \/ Quota!DeclareCache
             \/ Quota!WithdrawCache \/ Quota!WithdrawRow
             \/ Quota!RemoveSource \/ Quota!ForgetBudget \/ Quota!ForgetFails
      PROVE  QuotaKeeps
  <2>1. budget' \in BudgetRow
    BY <1>3 DEF Quota!DeclareAsked, Quota!DeclareRow, Quota!DeclareCache, Quota!WithdrawCache,
         Quota!WithdrawRow, Quota!RemoveSource, Quota!ForgetBudget, Quota!ForgetFails, BudgetRow
  <2>2. /\ UNCHANGED <<window, spent, inflight, current, dirty, metered, timer, flush, stored,
                       context, crashes, lost, late>>
        /\ \/ forgets' = forgets \/ forgets' \in {"removed", "broken"}
           \/ forgets = "budget" /\ forgets' = "rows"
    BY <1>3 DEF Quota!DeclareAsked, Quota!DeclareRow, Quota!DeclareCache, Quota!WithdrawCache,
         Quota!WithdrawRow, Quota!RemoveSource, Quota!ForgetBudget, Quota!ForgetFails, Quota!memory
  <2>3. QuotaType'
    BY <2>1, <2>2
  <2> QED  BY <2>2, <2>3, ReadingsStay
<1>4. ASSUME NEW f \in Writers, Quota!FlushStart(f)  PROVE QuotaKeeps
  <2> DEFINE w == [Quota!NoFlush EXCEPT !.pc = "walk", !.keys = dirty]
  <2>1. w \in FlushRow /\ w.pc = "walk"
    BY NoFlushParts
  <2>2. /\ flush' = [flush EXCEPT ![f] = w] /\ timer' = FALSE
        /\ UNCHANGED <<window, spent, inflight, current, dirty, metered, stored, budget, forgets,
                       context, crashes, lost, late>>
    BY <1>4 DEF Quota!FlushStart
  <2> HIDE DEF w
  <2>3. flush' \in [Writers -> FlushRow]
    BY <2>1, <2>2
  <2>4. \A g \in Writers : flush'[g].pc = "write" =>
          flush[g].pc = "write" /\ flush'[g].key = flush[g].key
    BY <2>1, <2>2
  <2>5. QuotaType'
    BY <2>2, <2>3
  <2> QED  BY <2>2, <2>4, <2>5, ReadingsStay
<1>5. ASSUME NEW f \in Writers, Quota!FlushEnd(f)  PROVE QuotaKeeps
  <2>1. Quota!NoFlush \in FlushRow /\ Quota!NoFlush.pc = "idle"
    BY NoFlushParts
  <2>2. /\ flush' = [flush EXCEPT ![f] = Quota!NoFlush]
        /\ UNCHANGED <<window, spent, inflight, current, dirty, metered, stored, timer, budget,
                       forgets, context, crashes, lost, late>>
    BY <1>5 DEF Quota!FlushEnd
  <2>3. flush' \in [Writers -> FlushRow]
    BY <2>1, <2>2
  <2>4. \A g \in Writers : flush'[g].pc = "write" =>
          flush[g].pc = "write" /\ flush'[g].key = flush[g].key
    BY <2>1, <2>2
  <2>5. QuotaType'
    BY <2>2, <2>3
  <2> QED  BY <2>2, <2>4, <2>5, ReadingsStay
<1>6. CASE UNCHANGED Quota!vars
  <2>1. UNCHANGED <<window, spent, inflight, current, dirty, metered, timer, flush, stored, budget,
                    forgets, context, crashes, lost, late>>
    BY <1>6 DEF Quota!vars
  <2>2. QuotaType'
    BY <2>1
  <2> QED  BY <2>1, <2>2, ReadingsStay
<1> QED  BY <1>1, <1>2, <1>3, <1>4, <1>5, <1>6

\* A reading that is held is marked to be written, and known to be late once
\* the source was forgotten; the other buckets are as they were (hold).
LEMMA HoldGives ==
  ASSUME QuotaType, NEW b \in Buckets, NEW r \in Quota!Readings, Quota!hold(b, r)
  PROVE  /\ current' \in [Buckets -> Quota!Readings] /\ current'[b] = r
         /\ \A c \in Buckets \ {b} : current'[c] = current[c]
         /\ dirty' = dirty \cup {b} /\ timer' = TRUE /\ lost' = lost \ {b}
         /\ late' = IF Quota!Forgotten THEN late \cup {b} ELSE late
BY DEF QuotaType, Quota!hold

\* A count of one bucket that is its own never shrinks.
LEMMA NothingShrinks ==
  ASSUME QuotaBounds, NEW r \in Quota!Readings
  PROVE  r.used >= r.used
BY QuotaReadingParts

\* record, of an answer that carries counters: a late one is dropped, any other
\* counts at least as much as what was held of its window.
LEMMA RecordSteps ==
  ASSUME QuotaBounds, QuotaType, QuotaInv, NEW sample \in inflight, Quota!Record(sample)
  PROVE  QuotaKeeps
<1> DEFINE b == sample.bucket
           r == [win |-> sample.win, used |-> sample.used, origin |-> "observed"]
<1> USE DEF QuotaType
<1>1. b \in Buckets /\ sample.win \in Quota!Windows /\ sample.used \in 1 .. MaxCalls
  BY DEF CallRow
<1>2. r \in Quota!Readings /\ r.origin = "observed" /\ r.used = sample.used /\ r.win = sample.win
  BY <1>1 DEF Quota!Readings
<1>3. /\ inflight' \subseteq inflight /\ metered' = TRUE
      /\ UNCHANGED <<window, spent, stored, flush, budget, forgets, context, crashes>>
      /\ IF Quota!Stale(current[b], sample) THEN UNCHANGED <<current, dirty, timer, lost, late>>
         ELSE Quota!hold(b, r)
  BY DEF Quota!Record
<1> HIDE DEF b, r
<1>4. MeteredIsKnown'
  BY <1>3 DEF MeteredIsKnown
<1>5. CASE Quota!Stale(current[b], sample)
  <2>1. UNCHANGED <<current, dirty, timer, lost, late>>
    BY <1>3, <1>5
  <2>0. ForgottenQuietly'
    BY <1>3, <2>1 DEF QuotaInv, ForgottenQuietly, Quota!Forgotten
  <2>2. QuotaType'
    BY <1>3, <2>1
  <2>3. Quota!StoredLagsOnlyByRace'
    BY <1>3, <2>1 DEF QuotaInv, Quota!StoredLagsOnlyByRace
  <2>4. Quota!CountNeverShrinks
    <3>1. \A c \in Buckets : current'[c] = current[c] /\ current[c] \in Quota!Readings
      BY <2>1
    <3> QED  BY <3>1, NothingShrinks DEF Quota!CountNeverShrinks
  <2>5. Quota!ObservedIsNotRecounted
    BY <2>1 DEF Quota!ObservedIsNotRecounted
  <2> QED  BY <1>4, <2>0, <2>2, <2>3, <2>4, <2>5 DEF QuotaKeeps, QuotaInv
<1>6. CASE ~Quota!Stale(current[b], sample)
  <2>1. /\ current' \in [Buckets -> Quota!Readings] /\ current'[b] = r
        /\ \A c \in Buckets \ {b} : current'[c] = current[c]
        /\ dirty' = dirty \cup {b} /\ timer' = TRUE /\ lost' = lost \ {b}
        /\ late' = IF Quota!Forgotten THEN late \cup {b} ELSE late
    BY <1>1, <1>2, <1>3, <1>6, HoldGives
  <2>0. ForgottenQuietly'
    BY <1>3, <2>1 DEF QuotaInv, ForgottenQuietly, Quota!Forgotten
  <2>2. QuotaType'
    BY <1>1, <1>3, <2>1
  <2>3. Quota!StoredLagsOnlyByRace'
    BY <1>3, <2>1 DEF QuotaInv, Quota!StoredLagsOnlyByRace
  <2>4. Quota!CountNeverShrinks
    <3>1. ASSUME NEW c \in Buckets, current[c].origin = "observed", current'[c].win = current[c].win
          PROVE  current'[c].used >= current[c].used
      <4>1. current[c] \in Quota!Readings
        OBVIOUS
      <4>2. current[c].used \in Nat /\ current[c].win \in Nat
        BY <4>1, QuotaReadingParts
      <4>3. CASE c = b
        <5>1. sample.win \in Nat /\ sample.used \in Nat
          BY <1>1 DEF Quota!Windows
        <5>2. sample.win = current[c].win /\ current'[c].used = sample.used
          BY <1>2, <2>1, <3>1, <4>3
        <5> QED  BY <1>6, <3>1, <4>2, <4>3, <5>1, <5>2 DEF Quota!Stale
      <4>4. CASE c # b
        BY <2>1, <4>1, <4>4, NothingShrinks
      <4> QED  BY <4>3, <4>4
    <3> QED  BY <3>1 DEF Quota!CountNeverShrinks
  <2>5. Quota!ObservedIsNotRecounted
    BY <1>2, <2>1 DEF Quota!ObservedIsNotRecounted
  <2> QED  BY <1>4, <2>0, <2>2, <2>3, <2>4, <2>5 DEF QuotaKeeps, QuotaInv
<1> QED  BY <1>5, <1>6

\* record, of an answer without counters: it is counted only where no reading of
\* the provider is held.
LEMMA UnmeteredSteps ==
  ASSUME QuotaBounds, QuotaType, QuotaInv, Quota!RecordUnmetered
  PROVE  QuotaKeeps
<1> DEFINE b == BudgetBucket
           r == Quota!countCall(current[b])
<1> USE DEF QuotaType
<1>1. /\ ~metered /\ Quota!hold(b, r) /\ r.used <= MaxCalls
      /\ UNCHANGED <<window, spent, inflight, metered, stored, flush, budget, forgets, context,
                     crashes>>
  BY DEF Quota!RecordUnmetered, Quota!CountsAgainstBudget
<1>2. b \in Buckets /\ current[b] \in Quota!Readings
  BY DEF QuotaBounds
<1>3. r \in Quota!Readings /\ r.origin = "declared"
  BY <1>1, <1>2, CountCallGives
<1> HIDE DEF b, r
<1>4. /\ current' \in [Buckets -> Quota!Readings] /\ current'[b] = r
      /\ \A c \in Buckets \ {b} : current'[c] = current[c]
      /\ dirty' = dirty \cup {b} /\ timer' = TRUE /\ lost' = lost \ {b}
      /\ late' = IF Quota!Forgotten THEN late \cup {b} ELSE late
  BY <1>1, <1>2, <1>3, HoldGives
<1>5. QuotaType'
  BY <1>1, <1>2, <1>4
<1>6. \A c \in Buckets : current[c].origin # "observed" /\ current'[c].origin # "observed"
  BY <1>1, <1>2, <1>3, <1>4 DEF QuotaInv, MeteredIsKnown
<1>7. MeteredIsKnown' /\ ForgottenQuietly'
  BY <1>1, <1>4, <1>6 DEF QuotaInv, MeteredIsKnown, ForgottenQuietly, Quota!Forgotten
<1>8. Quota!StoredLagsOnlyByRace'
  BY <1>1, <1>4 DEF QuotaInv, Quota!StoredLagsOnlyByRace
<1>9. Quota!CountNeverShrinks /\ Quota!ObservedIsNotRecounted
  BY <1>6 DEF Quota!CountNeverShrinks, Quota!ObservedIsNotRecounted
<1> QED  BY <1>5, <1>7, <1>8, <1>9 DEF QuotaKeeps, QuotaInv

\* The next bucket of a flush: what is gone is unmarked, anything else is sent.
LEMMA FlushTakes ==
  ASSUME QuotaBounds, QuotaType, QuotaInv, NEW f \in Writers, NEW b \in Buckets,
         Quota!FlushTake(f, b)
  PROVE  QuotaKeeps
<1> USE DEF QuotaType
<1>1. /\ UNCHANGED <<window, spent, inflight, current, metered, stored, timer, budget, forgets,
                     context, crashes, lost, late>>
      /\ flush[f] \in FlushRow /\ current[b] \in Quota!Readings
  BY DEF Quota!FlushTake
<1>2. CASE current[b] = Quota!NoReading
  <2> DEFINE w == [flush[f] EXCEPT !.keys = flush[f].keys \ {b}]
  <2>1. dirty' = dirty \ {b} /\ flush' = [flush EXCEPT ![f] = w]
    BY <1>2 DEF Quota!FlushTake
  <2>2. w \in FlushRow /\ w.pc = flush[f].pc /\ w.key = flush[f].key
    BY <1>1 DEF FlushRow
  <2> HIDE DEF w
  <2>3. /\ flush' \in [Writers -> FlushRow]
        /\ \A g \in Writers : flush'[g].pc = flush[g].pc /\ flush'[g].key = flush[g].key
    BY <2>1, <2>2
  <2>4. QuotaType'
    BY <1>1, <2>1, <2>3
  <2>5. MeteredIsKnown' /\ ForgottenQuietly'
    BY <1>1, <2>3 DEF QuotaInv, MeteredIsKnown, ForgottenQuietly, Quota!Forgotten
  <2>6. Quota!StoredLagsOnlyByRace'
    BY <1>1, <1>2, <2>1 DEF QuotaInv, Quota!StoredLagsOnlyByRace
  <2>7. Quota!CountNeverShrinks
    <3>1. \A c \in Buckets : current'[c] = current[c] /\ current[c] \in Quota!Readings
      BY <1>1
    <3> QED  BY <3>1, NothingShrinks DEF Quota!CountNeverShrinks
  <2>8. Quota!ObservedIsNotRecounted
    BY <1>1 DEF Quota!ObservedIsNotRecounted
  <2> QED  BY <2>4, <2>5, <2>6, <2>7, <2>8 DEF QuotaKeeps, QuotaInv
<1>3. CASE current[b] # Quota!NoReading
  <2> DEFINE w == [pc |-> "write", keys |-> flush[f].keys \ {b}, key |-> b, data |-> current[b]]
  <2>1. dirty' = dirty /\ flush' = [flush EXCEPT ![f] = w]
    BY <1>3 DEF Quota!FlushTake
  <2>2. flush[f].keys \subseteq Buckets
    BY <1>1 DEF FlushRow
  <2>3. w \in FlushRow /\ w.key = b
    BY <1>1, <2>2 DEF FlushRow
  <2> HIDE DEF w
  <2>4. flush' \in [Writers -> FlushRow]
    BY <2>1, <2>3
  <2>5. QuotaType'
    BY <1>1, <2>1, <2>4
  <2>6. \A g \in Writers : flush'[g].pc = "write" =>
          \/ flush[g].pc = "write" /\ flush'[g].key = flush[g].key
          \/ current[flush'[g].key] # Quota!NoReading
    BY <1>3, <2>1, <2>3
  <2> QED  BY <1>1, <2>1, <2>5, <2>6, ReadingsStay
<1> QED  BY <1>2, <1>3

\* The write of a flush: the mark goes with it, and a bucket whose reading has
\* moved on meanwhile is the one the row trails.
LEMMA FlushWrites ==
  ASSUME QuotaBounds, QuotaType, QuotaInv, NEW f \in Writers, NEW ok \in BOOLEAN,
         Quota!FlushWrite(f, ok)
  PROVE  QuotaKeeps
<1> DEFINE b == flush[f].key
           data == flush[f].data
           w == [Quota!NoFlush EXCEPT !.pc = "walk", !.keys = flush[f].keys]
<1> USE DEF QuotaType
<1>1. flush[f] \in FlushRow
  OBVIOUS
<1>2. b \in Buckets /\ data \in Quota!Readings /\ flush[f].keys \subseteq Buckets
  BY <1>1 DEF FlushRow
<1>3. w \in FlushRow /\ w.pc = "walk"
  BY <1>2, NoFlushParts
<1>4. /\ flush[f].pc = "write"
      /\ stored' = IF ok THEN [stored EXCEPT ![b] = data] ELSE stored
      /\ dirty' = IF ok THEN dirty \ {b} ELSE dirty
      /\ lost' = IF ok /\ current[b] # data THEN lost \cup {b} ELSE lost
      /\ flush' = [flush EXCEPT ![f] = w]
      /\ UNCHANGED <<window, spent, inflight, current, metered, timer, budget, forgets, context,
                     crashes, late>>
  BY DEF Quota!FlushWrite, Quota!Unmark
<1> HIDE DEF b, data, w
<1>5. flush' \in [Writers -> FlushRow]
  BY <1>3, <1>4
<1>6. stored' \in [Buckets -> Quota!Readings] /\ dirty' \subseteq Buckets /\ lost' \subseteq Buckets
  BY <1>2, <1>4
<1>7. QuotaType'
  BY <1>4, <1>5, <1>6
<1>8. MeteredIsKnown'
  BY <1>4 DEF QuotaInv, MeteredIsKnown
<1>9. ForgottenQuietly'
  <2>1. Quota!Forgotten => b \in late
    BY <1>2, <1>4 DEF QuotaInv, ForgottenQuietly, b
  <2>2. \A c \in Buckets : c # b => stored'[c] = stored[c]
    BY <1>4
  <2>3. \A g \in Writers : flush'[g].pc = "write" =>
          flush[g].pc = "write" /\ flush'[g].key = flush[g].key
    BY <1>3, <1>4
  <2> QED  BY <1>4, <2>1, <2>2, <2>3 DEF QuotaInv, ForgottenQuietly, Quota!Forgotten
<1>10. Quota!StoredLagsOnlyByRace'
  <2>1. CASE ok
    BY <1>2, <1>4, <2>1 DEF QuotaInv, Quota!StoredLagsOnlyByRace
  <2>2. CASE ~ok
    BY <1>4, <2>2 DEF QuotaInv, Quota!StoredLagsOnlyByRace
  <2> QED  BY <2>1, <2>2
<1>11. Quota!CountNeverShrinks
  <2>1. \A c \in Buckets : current'[c] = current[c] /\ current[c] \in Quota!Readings
    BY <1>4
  <2> QED  BY <2>1, NothingShrinks DEF Quota!CountNeverShrinks
<1>12. Quota!ObservedIsNotRecounted
  BY <1>4 DEF Quota!ObservedIsNotRecounted
<1> QED  BY <1>7, <1>8, <1>9, <1>10, <1>11, <1>12 DEF QuotaKeeps, QuotaInv

\* The memory of a source that goes, the rows after it, and a restart that loads
\* what is stored.
LEMMA ForgetSteps ==
  ASSUME QuotaBounds, QuotaType, QuotaInv, Quota!ForgetMemory \/ Quota!ForgetRows
  PROVE  QuotaKeeps
<1> USE DEF QuotaType
<1>0. Quota!NoReading \in Quota!Readings /\ Quota!NoReading.origin = "none"
  BY DEF Quota!Readings, Quota!NoReading
<1>1. CASE Quota!ForgetMemory
  <2>1. /\ forgets' = "budget" /\ current' = [b \in Buckets |-> Quota!NoReading] /\ dirty' = {}
        /\ metered' = FALSE /\ lost' = {}
        /\ late' = {flush[f].key : f \in {g \in Writers : flush[g].pc = "write"}}
        /\ UNCHANGED <<window, spent, inflight, stored, timer, flush, context, crashes>>
    BY <1>1 DEF Quota!ForgetMemory, Quota!Cleared
  <2>2. budget' \in BudgetRow
    BY <1>1 DEF Quota!ForgetMemory, BudgetRow
  <2>3. \A b \in Buckets : current'[b] = Quota!NoReading
    BY <2>1
  <2>7. late' \subseteq Buckets
    BY <2>1 DEF FlushRow
  <2>4. QuotaType'
    BY <1>0, <2>1, <2>2, <2>7
  <2>5. MeteredIsKnown' /\ ForgottenQuietly' /\ Quota!StoredLagsOnlyByRace'
    BY <1>0, <2>1, <2>3 DEF MeteredIsKnown, ForgottenQuietly, Quota!Forgotten,
         Quota!StoredLagsOnlyByRace
  <2>6. Quota!CountNeverShrinks /\ Quota!ObservedIsNotRecounted
    BY <1>0, <2>3 DEF Quota!CountNeverShrinks, Quota!ObservedIsNotRecounted
  <2> QED  BY <2>4, <2>5, <2>6 DEF QuotaKeeps, QuotaInv
<1>2. CASE Quota!ForgetRows
  <2>1. /\ forgets = "rows" /\ forgets' = "done" /\ stored' = [b \in Buckets |-> Quota!NoReading]
        /\ lost' = {b \in Buckets : current[b] # Quota!NoReading}
        /\ UNCHANGED <<window, spent, inflight, current, dirty, metered, timer, flush, budget,
                       context, crashes, late>>
    BY <1>2 DEF Quota!ForgetRows, Quota!memory
  <2>2. \A b \in Buckets : stored'[b] = Quota!NoReading
    BY <2>1
  <2>3. QuotaType'
    BY <1>0, <2>1
  <2>4. MeteredIsKnown' /\ ForgottenQuietly' /\ Quota!StoredLagsOnlyByRace'
    BY <2>1, <2>2 DEF QuotaInv, MeteredIsKnown, ForgottenQuietly, Quota!Forgotten,
         Quota!StoredLagsOnlyByRace
  <2>5. Quota!CountNeverShrinks
    <3>1. \A c \in Buckets : current'[c] = current[c] /\ current[c] \in Quota!Readings
      BY <2>1
    <3> QED  BY <3>1, NothingShrinks DEF Quota!CountNeverShrinks
  <2>6. Quota!ObservedIsNotRecounted
    BY <2>1 DEF Quota!ObservedIsNotRecounted
  <2> QED  BY <2>3, <2>4, <2>5, <2>6 DEF QuotaKeeps, QuotaInv
<1> QED  BY <1>1, <1>2

\* A restart drops the readings held, or takes them from the store, and either
\* way keeps the invariant (onModuleInit).
LEMMA RestartSteps ==
  ASSUME QuotaBounds, QuotaType, QuotaInv, NEW loaded \in BOOLEAN, Quota!Restart(loaded)
  PROVE  QuotaKeeps
<1> USE DEF QuotaType
<1>0. Quota!NoReading \in Quota!Readings /\ Quota!NoReading.origin = "none"
  BY DEF Quota!Readings, Quota!NoReading
<1>1. /\ crashes < MaxCrashes /\ crashes' = crashes + 1
      /\ current' = IF loaded THEN stored ELSE [b \in Buckets |-> Quota!NoReading]
      /\ metered' = (loaded /\ \E b \in Buckets : stored[b].origin = "observed")
      /\ dirty' = {} /\ timer' = FALSE /\ flush' = [f \in Writers |-> Quota!NoFlush]
      /\ inflight' = {} /\ lost' = {}
      /\ forgets' = IF forgets \in {"removed", "budget", "rows"} THEN "broken" ELSE forgets
      /\ context' = (forgets = "no")
      /\ UNCHANGED <<window, spent, stored, late>>
  BY DEF Quota!Restart
<1>2. crashes' # crashes /\ crashes' \in 0 .. MaxCrashes
  BY <1>1 DEF QuotaBounds
<1>3. budget' \in BudgetRow
  BY DEF Quota!Restart, BudgetRow
<1>4. /\ \A f \in Writers : flush'[f] = Quota!NoFlush
      /\ flush' \in [Writers -> FlushRow] /\ Quota!NoFlush.pc = "idle"
  BY <1>1, NoFlushParts
<1>5. current' \in [Buckets -> Quota!Readings]
      /\ \A b \in Buckets : current'[b] = IF loaded THEN stored[b] ELSE Quota!NoReading
  BY <1>0, <1>1
<1>6. QuotaType'
  BY <1>1, <1>2, <1>3, <1>4, <1>5
<1>7. MeteredIsKnown'
  BY <1>0, <1>1, <1>5 DEF MeteredIsKnown
<1>8. ForgottenQuietly'
  BY <1>1, <1>4, <1>5 DEF QuotaInv, ForgottenQuietly, Quota!Forgotten
<1>9. Quota!StoredLagsOnlyByRace'
  BY <1>1, <1>5 DEF Quota!StoredLagsOnlyByRace
<1>10. Quota!CountNeverShrinks /\ Quota!ObservedIsNotRecounted
  BY <1>2 DEF Quota!CountNeverShrinks, Quota!ObservedIsNotRecounted
<1> QED  BY <1>6, <1>7, <1>8, <1>9, <1>10 DEF QuotaKeeps, QuotaInv

\* All the steps, and the start.
LEMMA QuotaSteps ==
  ASSUME QuotaBounds
  PROVE  /\ Quota!Init => QuotaType /\ QuotaInv
         /\ QuotaType /\ QuotaInv /\ [Quota!Next]_(Quota!vars) => QuotaKeeps
<1>1. ASSUME Quota!Init  PROVE QuotaType /\ QuotaInv
  <2>1. Quota!NoReading \in Quota!Readings /\ Quota!NoReading.origin = "none"
        /\ Quota!NoFlush \in FlushRow
    BY NoFlushParts DEF Quota!Readings, Quota!NoReading
  <2>2. /\ current = [b \in Buckets |-> Quota!NoReading] /\ stored = current
        /\ flush = [f \in Writers |-> Quota!NoFlush] /\ forgets = "no" /\ window = 1
        /\ spent = [b \in Buckets |-> 0] /\ inflight = {} /\ dirty = {} /\ lost = {} /\ late = {}
        /\ crashes = 0
    BY <1>1 DEF Quota!Init
  <2>3. metered \in BOOLEAN /\ timer \in BOOLEAN /\ context \in BOOLEAN /\ budget \in BudgetRow
    BY <1>1 DEF Quota!Init, BudgetRow
  <2>4. \A b \in Buckets : current[b] = Quota!NoReading
    BY <2>2
  <2>5. 1 \in Quota!Windows /\ 0 \in 0 .. MaxCalls /\ 0 \in 0 .. MaxCrashes
    BY DEF QuotaBounds, Quota!Windows
  <2>6. QuotaType
    BY <2>1, <2>2, <2>3, <2>5 DEF QuotaType
  <2>7. QuotaInv
    BY <2>1, <2>2, <2>4 DEF QuotaInv, MeteredIsKnown, ForgottenQuietly, Quota!Forgotten,
         Quota!StoredLagsOnlyByRace
  <2> QED  BY <2>6, <2>7
<1>2. ASSUME QuotaType, QuotaInv, [Quota!Next]_(Quota!vars)
      PROVE  QuotaKeeps
  BY <1>2, QuietSteps, RecordSteps, UnmeteredSteps, FlushTakes, FlushWrites, ForgetSteps,
     RestartSteps DEF Quota!Next
<1> QED  BY <1>1, <1>2

\* Answers that come back out of order never make a window's count go down, and
\* what the provider counted is not counted again by hand (record).
THEOREM CountsNeverShrink ==
  ASSUME QuotaBounds
  PROVE  Quota!Spec => [][Quota!CountNeverShrinks /\ Quota!ObservedIsNotRecounted]_(Quota!vars)
<1>1. Quota!Init => QuotaType /\ QuotaInv
  BY QuotaSteps
<1>2. QuotaType /\ QuotaInv /\ [Quota!Next]_(Quota!vars) =>
        /\ QuotaType' /\ QuotaInv'
        /\ [Quota!CountNeverShrinks /\ Quota!ObservedIsNotRecounted]_(Quota!vars)
  BY QuotaSteps DEF QuotaKeeps
<1> QED  BY <1>1, <1>2, PTL DEF Quota!Spec

\* A bucket without a mark is stored as it is held, but for the one a flush
\* unmarked after its reading moved on; and what was held of a source when it
\* was forgotten never writes a row of it again, whoever goes on calling with a
\* context of before (flush, forget).
THEOREM StoredFollowsTheHeld ==
  ASSUME QuotaBounds
  PROVE  Quota!Spec => [](Quota!StoredLagsOnlyByRace /\ Quota!NothingHeldComesBack)
<1>1. Quota!Init => QuotaType /\ QuotaInv
  BY QuotaSteps
<1>2. QuotaType /\ QuotaInv /\ [Quota!Next]_(Quota!vars) => QuotaType' /\ QuotaInv'
  BY QuotaSteps DEF QuotaKeeps
<1>3. QuotaType /\ QuotaInv => Quota!StoredLagsOnlyByRace /\ Quota!NothingHeldComesBack
  BY DEF QuotaInv, QuotaType, ForgottenQuietly, Quota!Forgotten, Quota!NothingHeldComesBack
<1> QED  BY <1>1, <1>2, <1>3, PTL DEF Quota!Spec

-----------------------------------------------------------------------------
(* Rule catalogues.                                                        *)

EnvRequest == [at : {"env"}, id : EnvRules, patch : Catalogue!EnvPatches, raced : BOOLEAN]

VersionRequest == [at : {"version"}, id : VersionRules, patch : Catalogue!VersionPatches,
                   secret : {Catalogue!Keep, "new", "empty"}, raced : BOOLEAN]

SecretRequest == [at : {"set", "forget"}, id : VersionRules, raced : BOOLEAN]

RuleRequest == EnvRequest \cup VersionRequest \cup SecretRequest

CatalogueType ==
  /\ envRule \in [EnvRules -> Catalogue!EnvRow \cup {Catalogue!NoEnvRow}]
  /\ versionRule \in [VersionRules -> Catalogue!VersionRow \cup {Catalogue!NoVersionRow}]
  /\ req \in [Writers -> {Catalogue!Idle} \cup RuleRequest]

\* What a request has judged, and nobody has overtaken, is still so: the rule as
\* it will be contributes, or can be written, and a secret about to be stored
\* has its rule.
Judged(q) ==
  req[q] # Catalogue!Idle /\ ~req[q].raced =>
    /\ req[q].at = "env" /\ envRule[req[q].id] # Catalogue!NoEnvRow =>
         Catalogue!Contributes(Catalogue!Laid(envRule[req[q].id], req[q].patch))
    /\ req[q].at = "version" /\ versionRule[req[q].id] # Catalogue!NoVersionRow =>
         Catalogue!Writable(Catalogue!Laid(versionRule[req[q].id], req[q].patch))
    /\ req[q].at = "set" => versionRule[req[q].id] # Catalogue!NoVersionRow

\* A patch carries keys of a row.
LEMMA PatchParts ==
  ASSUME NEW Rows, NEW p \in Catalogue!Patches(Rows)
  PROVE  \E r \in Rows : \A k \in DOMAIN p : p[k] = r[k]
BY DEF Catalogue!Patches

\* A patch laid over a rule gives a rule.
LEMMA LaidEnv ==
  ASSUME NEW r \in Catalogue!EnvRow, NEW p \in Catalogue!EnvPatches
  PROVE  Catalogue!Laid(r, p) \in Catalogue!EnvRow
<1>1. PICK s \in Catalogue!EnvRow : \A k \in DOMAIN p : p[k] = s[k]
  BY PatchParts DEF Catalogue!EnvPatches
<1>2. DOMAIN r = {"kind", "captures", "attributes"}
  BY DEF Catalogue!EnvRow
<1> DEFINE l == Catalogue!Laid(r, p)
<1>3. l = [k \in {"kind", "captures", "attributes"} |-> IF k \in DOMAIN p THEN p[k] ELSE r[k]]
  BY <1>2 DEF Catalogue!Laid
<1> HIDE DEF l
<1>4. l = [kind |-> l.kind, captures |-> l.captures, attributes |-> l.attributes]
  BY <1>3
<1>5. /\ l.kind \in {r.kind, s.kind} /\ l.captures \in {r.captures, s.captures}
      /\ l.attributes \in {r.attributes, s.attributes}
  BY <1>1, <1>3
<1>6. l \in Catalogue!EnvRow
  BY <1>4, <1>5 DEF Catalogue!EnvRow
<1> QED  BY <1>6 DEF l

\* A patch laid over a version rule gives a version rule.
LEMMA LaidVersion ==
  ASSUME NEW r \in Catalogue!VersionRow, NEW p \in Catalogue!VersionPatches
  PROVE  Catalogue!Laid(r, p) \in Catalogue!VersionRow
<1>1. PICK s \in Catalogue!VersionRow : \A k \in DOMAIN p : p[k] = s[k]
  BY PatchParts DEF Catalogue!VersionPatches
<1>2. DOMAIN r = {"format", "pattern", "authKind", "authHeader"}
  BY DEF Catalogue!VersionRow
<1> DEFINE l == Catalogue!Laid(r, p)
<1>3. l = [k \in {"format", "pattern", "authKind", "authHeader"} |->
             IF k \in DOMAIN p THEN p[k] ELSE r[k]]
  BY <1>2 DEF Catalogue!Laid
<1> HIDE DEF l
<1>4. l = [format |-> l.format, pattern |-> l.pattern, authKind |-> l.authKind,
           authHeader |-> l.authHeader]
  BY <1>3
<1>5. /\ l.format \in {r.format, s.format} /\ l.pattern \in {r.pattern, s.pattern}
      /\ l.authKind \in {r.authKind, s.authKind} /\ l.authHeader \in {r.authHeader, s.authHeader}
  BY <1>1, <1>3
<1>6. l \in Catalogue!VersionRow
  BY <1>4, <1>5 DEF Catalogue!VersionRow
<1> QED  BY <1>6 DEF l

\* A rule is not the lack of one, and the lack of one needs nothing.
LEMMA NoRules ==
  /\ Catalogue!NoEnvRow \notin Catalogue!EnvRow
  /\ Catalogue!NoVersionRow \notin Catalogue!VersionRow
  /\ Catalogue!Writable(Catalogue!NoVersionRow)
BY DEF Catalogue!NoEnvRow, Catalogue!EnvRow, Catalogue!NoVersionRow, Catalogue!VersionRow,
     Catalogue!Writable, Catalogue!None

\* What a request carries, and how it is overtaken.
LEMMA RuleRequestParts ==
  ASSUME NEW r \in RuleRequest
  PROVE  /\ r # Catalogue!Idle /\ r.raced \in BOOLEAN
         /\ r.at = "env" => r \in EnvRequest
         /\ r.at = "version" => r \in VersionRequest
         /\ r.at \in {"set", "forget"} => r \in SecretRequest
         /\ [r EXCEPT !.raced = TRUE] \in RuleRequest
         /\ [r EXCEPT !.raced = TRUE].at = r.at /\ [r EXCEPT !.raced = TRUE].id = r.id
         /\ [r EXCEPT !.raced = TRUE].raced = TRUE
<1>1. CASE r \in EnvRequest
  <2>1. [r EXCEPT !.raced = TRUE] \in EnvRequest
    BY <1>1 DEF EnvRequest
  <2> QED  BY <1>1, <2>1 DEF EnvRequest, RuleRequest, Catalogue!Idle
<1>2. CASE r \in VersionRequest
  <2>1. [r EXCEPT !.raced = TRUE] \in VersionRequest
    BY <1>2 DEF VersionRequest
  <2> QED  BY <1>2, <2>1 DEF VersionRequest, RuleRequest, Catalogue!Idle
<1>3. CASE r \in SecretRequest
  <2>1. [r EXCEPT !.raced = TRUE] \in SecretRequest
    BY <1>3 DEF SecretRequest
  <2> QED  BY <1>3, <2>1 DEF SecretRequest, RuleRequest, Catalogue!Idle
<1> QED  BY <1>1, <1>2, <1>3 DEF RuleRequest

CatalogueInv == CatalogueType /\ \A q \in Writers : Judged(q)

\* What every step keeps, and what none may do.
CatalogueKeeps ==
  /\ CatalogueInv' /\ Catalogue!SilentOnlyByRace /\ Catalogue!UnwritableOnlyByRace
  /\ Catalogue!OrphanOnlyByRace

\* A write that lands overtakes whoever has judged the same rule.
LEMMA LandedGives ==
  ASSUME CatalogueType, NEW q \in Writers, NEW i, NEW r \in {Catalogue!Idle} \cup RuleRequest,
         Catalogue!Landed(q, i, r)
  PROVE  /\ req' \in [Writers -> {Catalogue!Idle} \cup RuleRequest]
         /\ req'[q] = r
         /\ \A p \in Writers \ {q} :
              /\ req[p] = Catalogue!Idle <=> req'[p] = Catalogue!Idle
              /\ req[p] # Catalogue!Idle /\ ~req'[p].raced => req'[p] = req[p] /\ req[p].id # i
<1> DEFINE Over(p) == [req[p] EXCEPT !.raced = TRUE]
<1>1. req' = [p \in Writers |->
                IF p = q THEN r
                ELSE IF req[p] # Catalogue!Idle /\ req[p].id = i THEN Over(p)
                ELSE req[p]]
  BY DEF Catalogue!Landed
<1>2. \A p \in Writers : req[p] # Catalogue!Idle =>
        Over(p) \in RuleRequest /\ Over(p).raced = TRUE /\ Over(p) # Catalogue!Idle
  <2>1. \A p \in Writers : req[p] # Catalogue!Idle => req[p] \in RuleRequest
    BY DEF CatalogueType
  <2> QED  BY <2>1, RuleRequestParts
<1> HIDE DEF Over
<1>3. \A p \in Writers : req'[p] \in {Catalogue!Idle} \cup RuleRequest
  BY <1>1, <1>2 DEF CatalogueType
<1>4. req' \in [Writers -> {Catalogue!Idle} \cup RuleRequest]
  BY <1>1, <1>3
<1> QED  BY <1>1, <1>2, <1>4

\* Judging a rule, giving one up and whatever is not about these two catalogues
\* leave the rules as they are.
LEMMA RulesStay ==
  ASSUME CatalogueInv, UNCHANGED <<envRule, versionRule, secrets>>,
         \/ UNCHANGED req
         \/ \E q \in Writers : \E r \in {Catalogue!Idle} \cup RuleRequest :
              /\ Catalogue!Becomes(q, r)
              /\ r.at = "env" =>
                   Catalogue!Contributes(Catalogue!Laid(envRule[r.id], r.patch))
              /\ r.at = "version" =>
                   Catalogue!Writable(Catalogue!Laid(versionRule[r.id], r.patch))
              /\ r.at # "set"
  PROVE  CatalogueKeeps
<1>1. /\ Catalogue!SilentOnlyByRace /\ Catalogue!UnwritableOnlyByRace
      /\ Catalogue!OrphanOnlyByRace
  BY DEF Catalogue!SilentOnlyByRace, Catalogue!UnwritableOnlyByRace, Catalogue!OrphanOnlyByRace,
       Catalogue!Silent, Catalogue!Orphan
<1>2. CatalogueInv'
  <2>1. CASE UNCHANGED req
    BY <2>1 DEF CatalogueInv, CatalogueType, Judged
  <2>2. ASSUME NEW q \in Writers, NEW r \in {Catalogue!Idle} \cup RuleRequest,
               Catalogue!Becomes(q, r),
               r.at = "env" => Catalogue!Contributes(Catalogue!Laid(envRule[r.id], r.patch)),
               r.at = "version" =>
                 Catalogue!Writable(Catalogue!Laid(versionRule[r.id], r.patch)),
               r.at # "set"
        PROVE  CatalogueInv'
    <3>1. req' = [req EXCEPT ![q] = r]
      BY <2>2 DEF Catalogue!Becomes
    <3>2. /\ req' \in [Writers -> {Catalogue!Idle} \cup RuleRequest]
          /\ req'[q] = r /\ \A p \in Writers \ {q} : req'[p] = req[p]
      BY <3>1 DEF CatalogueInv, CatalogueType
    <3>3. CatalogueType'
      BY <3>2 DEF CatalogueInv, CatalogueType
    <3>4. Judged(q)'
      BY <2>2, <3>2 DEF Judged
    <3>5. \A p \in Writers \ {q} : Judged(p)'
      BY <3>2 DEF CatalogueInv, Judged
    <3> QED  BY <3>3, <3>4, <3>5 DEF CatalogueInv
  <2> QED  BY <2>1, <2>2
<1> QED  BY <1>1, <1>2 DEF CatalogueKeeps

\* A rule that is created is judged whole, under an id nobody is at.
LEMMA CreationsHold ==
  ASSUME CatalogueInv,
         \/ \E i \in EnvRules : \E r \in Catalogue!EnvRow : Catalogue!CreateEnvRule(i, r)
         \/ \E i \in VersionRules : \E r \in Catalogue!VersionRow, s \in BOOLEAN :
              Catalogue!CreateVersionRule(i, r, s)
  PROVE  CatalogueKeeps
<1>1. ASSUME NEW i \in EnvRules, NEW r \in Catalogue!EnvRow, Catalogue!CreateEnvRule(i, r)
      PROVE  CatalogueKeeps
  <2>1. /\ envRule' = [envRule EXCEPT ![i] = r] /\ Catalogue!Contributes(r)
        /\ UNCHANGED <<versionRule, secrets, req>>
        /\ \A q \in Writers : req[q] # Catalogue!Idle => req[q].id # i
    BY <1>1 DEF Catalogue!CreateEnvRule
  <2>2. /\ envRule'[i] = r /\ \A j \in EnvRules \ {i} : envRule'[j] = envRule[j]
        /\ envRule' \in [EnvRules -> Catalogue!EnvRow \cup {Catalogue!NoEnvRow}]
    BY <2>1 DEF CatalogueInv, CatalogueType
  <2>3. CatalogueType'
    BY <2>1, <2>2 DEF CatalogueInv, CatalogueType
  <2>4. \A q \in Writers : Judged(q)'
    <3>1. ASSUME NEW q \in Writers  PROVE Judged(q)'
      <4>1. req[q] # Catalogue!Idle => req[q].id # i
        BY <2>1
      <4>2. req[q] # Catalogue!Idle /\ req[q].at = "env" => req[q].id \in EnvRules
        BY RuleRequestParts DEF CatalogueInv, CatalogueType, EnvRequest
      <4> QED  BY <2>1, <2>2, <4>1, <4>2 DEF CatalogueInv, Judged
    <3> QED  BY <3>1
  <2>5. Catalogue!SilentOnlyByRace
    BY <2>1, <2>2 DEF Catalogue!SilentOnlyByRace, Catalogue!Silent
  <2>6. Catalogue!UnwritableOnlyByRace /\ Catalogue!OrphanOnlyByRace
    BY <2>1 DEF Catalogue!UnwritableOnlyByRace, Catalogue!OrphanOnlyByRace, Catalogue!Orphan
  <2> QED  BY <2>3, <2>4, <2>5, <2>6 DEF CatalogueKeeps, CatalogueInv
<1>2. ASSUME NEW i \in VersionRules, NEW r \in Catalogue!VersionRow, NEW s \in BOOLEAN,
             Catalogue!CreateVersionRule(i, r, s)
      PROVE  CatalogueKeeps
  <2>1. /\ versionRule' = [versionRule EXCEPT ![i] = r] /\ Catalogue!Writable(r)
        /\ UNCHANGED <<envRule, req>>
        /\ secrets' = IF s THEN secrets \cup {i} ELSE secrets
        /\ \A q \in Writers : req[q] # Catalogue!Idle => req[q].id # i
    BY <1>2 DEF Catalogue!CreateVersionRule
  <2>2. /\ versionRule'[i] = r /\ \A j \in VersionRules \ {i} : versionRule'[j] = versionRule[j]
        /\ versionRule' \in [VersionRules -> Catalogue!VersionRow \cup {Catalogue!NoVersionRow}]
    BY <2>1 DEF CatalogueInv, CatalogueType
  <2>3. CatalogueType'
    BY <2>1, <2>2 DEF CatalogueInv, CatalogueType
  <2>4. \A q \in Writers : Judged(q)'
    <3>1. ASSUME NEW q \in Writers  PROVE Judged(q)'
      <4>1. req[q] # Catalogue!Idle => req[q].id # i
        BY <2>1
      <4>2. req[q] # Catalogue!Idle /\ req[q].at \in {"version", "set"} => req[q].id \in VersionRules
        BY RuleRequestParts DEF CatalogueInv, CatalogueType, VersionRequest, SecretRequest
      <4> QED  BY <2>1, <2>2, <4>1, <4>2 DEF CatalogueInv, Judged
    <3> QED  BY <3>1
  <2>5. Catalogue!SilentOnlyByRace
    BY <2>1 DEF Catalogue!SilentOnlyByRace, Catalogue!Silent
  <2>6. Catalogue!UnwritableOnlyByRace
    BY <2>1, <2>2 DEF Catalogue!UnwritableOnlyByRace
  <2>7. Catalogue!OrphanOnlyByRace
    <3>1. r # Catalogue!NoVersionRow
      BY NoRules
    <3> QED  BY <2>1, <2>2, <3>1 DEF Catalogue!OrphanOnlyByRace, Catalogue!Orphan
  <2> QED  BY <2>3, <2>4, <2>5, <2>6, <2>7 DEF CatalogueKeeps, CatalogueInv
<1> QED  BY <1>1, <1>2

\* The ids a request is at are those of its catalogue.
LEMMA RequestIds ==
  ASSUME CatalogueType, NEW q \in Writers, req[q] # Catalogue!Idle
  PROVE  /\ req[q] \in RuleRequest
         /\ req[q].at = "env" => req[q].id \in EnvRules /\ req[q].patch \in Catalogue!EnvPatches
         /\ req[q].at = "version" =>
              req[q].id \in VersionRules /\ req[q].patch \in Catalogue!VersionPatches
         /\ req[q].at \in {"set", "forget"} => req[q].id \in VersionRules
<1>1. req[q] \in RuleRequest
  BY DEF CatalogueType
<1> QED  BY <1>1, RuleRequestParts DEF EnvRequest, VersionRequest, SecretRequest

\* A classification rule that goes was nobody's to write any more.
LEMMA EnvRemovalHolds ==
  ASSUME CatalogueInv, NEW q \in Writers, NEW i \in EnvRules, Catalogue!RemoveEnvRule(q, i)
  PROVE  CatalogueKeeps
<1>1. /\ envRule' = [envRule EXCEPT ![i] = Catalogue!NoEnvRow]
      /\ UNCHANGED <<versionRule, secrets, req>>
  BY DEF Catalogue!RemoveEnvRule
<1>2. /\ envRule'[i] = Catalogue!NoEnvRow /\ \A j \in EnvRules \ {i} : envRule'[j] = envRule[j]
      /\ envRule' \in [EnvRules -> Catalogue!EnvRow \cup {Catalogue!NoEnvRow}]
  BY <1>1 DEF CatalogueInv, CatalogueType
<1>3. CatalogueType'
  BY <1>1, <1>2 DEF CatalogueInv, CatalogueType
<1>4. ASSUME NEW p \in Writers  PROVE Judged(p)'
  <2>1. req[p] # Catalogue!Idle /\ req[p].at = "env" => req[p].id \in EnvRules
    BY RequestIds DEF CatalogueInv
  <2> QED  BY <1>1, <1>2, <2>1 DEF CatalogueInv, Judged
<1>5. Catalogue!SilentOnlyByRace
  BY <1>1, <1>2 DEF Catalogue!SilentOnlyByRace, Catalogue!Silent
<1>6. Catalogue!UnwritableOnlyByRace /\ Catalogue!OrphanOnlyByRace
  BY <1>1 DEF Catalogue!UnwritableOnlyByRace, Catalogue!OrphanOnlyByRace, Catalogue!Orphan
<1> QED  BY <1>3, <1>4, <1>5, <1>6 DEF CatalogueKeeps, CatalogueInv

\* A patch of a classification rule: what nobody overtook is what was judged.
LEMMA EnvWriteHolds ==
  ASSUME CatalogueInv, NEW q \in Writers, Catalogue!WriteEnvRule(q)
  PROVE  CatalogueKeeps
<1> DEFINE i == req[q].id
           r == Catalogue!Laid(envRule[i], req[q].patch)
<1>1. req[q].at = "env" /\ req[q] # Catalogue!Idle /\ UNCHANGED <<versionRule, secrets>>
  BY DEF Catalogue!WriteEnvRule, Catalogue!Idle
<1>2. i \in EnvRules /\ req[q].patch \in Catalogue!EnvPatches /\ req[q].raced \in BOOLEAN
  BY <1>1, RequestIds, RuleRequestParts DEF CatalogueInv
<1>3. CASE envRule[i] = Catalogue!NoEnvRow
  <2>1. Catalogue!Becomes(q, Catalogue!Idle) /\ UNCHANGED envRule
    BY <1>3 DEF Catalogue!WriteEnvRule
  <2>2. Catalogue!Idle.at \notin {"env", "version", "set"}
    BY DEF Catalogue!Idle
  <2> QED  BY <1>1, <2>1, <2>2, RulesStay
<1>4. CASE envRule[i] # Catalogue!NoEnvRow
  <2>1. envRule' = [envRule EXCEPT ![i] = r] /\ Catalogue!Landed(q, i, Catalogue!Idle)
    BY <1>4 DEF Catalogue!WriteEnvRule
  <2>2. envRule[i] \in Catalogue!EnvRow
    BY <1>2, <1>4 DEF CatalogueInv, CatalogueType
  <2>3. r \in Catalogue!EnvRow
    BY <1>2, <2>2, LaidEnv
  <2>4. ~req[q].raced => Catalogue!Contributes(r)
    BY <1>1, <1>4 DEF CatalogueInv, Judged
  <2>5. /\ req' \in [Writers -> {Catalogue!Idle} \cup RuleRequest]
        /\ req'[q] = Catalogue!Idle
        /\ \A p \in Writers \ {q} :
              /\ req[p] = Catalogue!Idle <=> req'[p] = Catalogue!Idle
              /\ req[p] # Catalogue!Idle /\ ~req'[p].raced => req'[p] = req[p] /\ req[p].id # i
    BY <2>1, LandedGives DEF CatalogueInv
  <2> HIDE DEF i, r
  <2>6. /\ envRule'[i] = r /\ \A j \in EnvRules \ {i} : envRule'[j] = envRule[j]
        /\ envRule' \in [EnvRules -> Catalogue!EnvRow \cup {Catalogue!NoEnvRow}]
    BY <1>2, <2>1, <2>3 DEF CatalogueInv, CatalogueType
  <2>7. CatalogueType'
    BY <1>1, <2>5, <2>6 DEF CatalogueInv, CatalogueType
  <2>8. ASSUME NEW p \in Writers  PROVE Judged(p)'
    <3>1. CASE p = q
      BY <2>5, <3>1 DEF Judged
    <3>2. CASE p # q
      <4>1. req[p] # Catalogue!Idle /\ req[p].at = "env" => req[p].id \in EnvRules
        BY RequestIds DEF CatalogueInv
      <4> QED  BY <1>1, <2>5, <2>6, <3>2, <4>1 DEF CatalogueInv, Judged
    <3> QED  BY <3>1, <3>2
  <2>9. Catalogue!SilentOnlyByRace
    <3>1. ASSUME NEW j \in EnvRules, ~Catalogue!Silent(j), Catalogue!Silent(j)'
          PROVE  req[q].at = "env" /\ req[q].id = j /\ req[q].raced
      <4>1. j = i
        BY <2>6, <3>1 DEF Catalogue!Silent
      <4>2. ~Catalogue!Contributes(r)
        BY <2>6, <3>1, <4>1 DEF Catalogue!Silent
      <4> QED  BY <1>1, <1>2, <2>4, <4>1, <4>2 DEF i
    <3> QED  BY <3>1 DEF Catalogue!SilentOnlyByRace
  <2>10. Catalogue!UnwritableOnlyByRace /\ Catalogue!OrphanOnlyByRace
    BY <1>1 DEF Catalogue!UnwritableOnlyByRace, Catalogue!OrphanOnlyByRace, Catalogue!Orphan
  <2> QED  BY <2>7, <2>8, <2>9, <2>10 DEF CatalogueKeeps, CatalogueInv
<1> QED  BY <1>3, <1>4

\* A patch of a version rule: what nobody overtook is what was judged, and the
\* secret it goes on to store has its rule.
LEMMA VersionWriteHolds ==
  ASSUME CatalogueInv, NEW q \in Writers, Catalogue!WriteVersionRule(q)
  PROVE  CatalogueKeeps
<1> DEFINE i == req[q].id
           r == Catalogue!Laid(versionRule[i], req[q].patch)
           then == Catalogue!OnSecret(req[q].patch, req[q].secret)
           n == IF then = Catalogue!Keep THEN Catalogue!Idle
                ELSE [at |-> then, id |-> i, raced |-> FALSE]
<1>1. req[q].at = "version" /\ req[q] # Catalogue!Idle /\ UNCHANGED <<envRule, secrets>>
  BY DEF Catalogue!WriteVersionRule, Catalogue!Idle
<1>2. i \in VersionRules /\ req[q].patch \in Catalogue!VersionPatches /\ req[q].raced \in BOOLEAN
  BY <1>1, RequestIds, RuleRequestParts DEF CatalogueInv
<1>3. CASE versionRule[i] = Catalogue!NoVersionRow
  <2>1. Catalogue!Becomes(q, Catalogue!Idle) /\ UNCHANGED versionRule
    BY <1>3 DEF Catalogue!WriteVersionRule
  <2>2. Catalogue!Idle.at \notin {"env", "version", "set"}
    BY DEF Catalogue!Idle
  <2> QED  BY <1>1, <2>1, <2>2, RulesStay
<1>4. CASE versionRule[i] # Catalogue!NoVersionRow
  <2>1. versionRule' = [versionRule EXCEPT ![i] = r] /\ Catalogue!Landed(q, i, n)
    BY <1>4 DEF Catalogue!WriteVersionRule
  <2>2. versionRule[i] \in Catalogue!VersionRow
    BY <1>2, <1>4 DEF CatalogueInv, CatalogueType
  <2>3. r \in Catalogue!VersionRow /\ r # Catalogue!NoVersionRow
    BY <1>2, <2>2, LaidVersion, NoRules
  <2>4. ~req[q].raced => Catalogue!Writable(r)
    BY <1>1, <1>4 DEF CatalogueInv, Judged
  <2>5. then \in {"set", "forget", Catalogue!Keep}
    BY DEF Catalogue!OnSecret
  <2> HIDE DEF then, i
  <2>6. /\ n \in {Catalogue!Idle} \cup RuleRequest
        /\ n # Catalogue!Idle => n.at \in {"set", "forget"} /\ n.id = i
    <3>1. CASE then = Catalogue!Keep
      BY <3>1
    <3>2. CASE then # Catalogue!Keep
      <4>1. n \in SecretRequest /\ n.at = then /\ n.id = i
        BY <1>2, <2>5, <3>2 DEF SecretRequest
      <4> QED  BY <2>5, <3>2, <4>1 DEF RuleRequest
    <3> QED  BY <3>1, <3>2
  <2> HIDE DEF r, n
  <2>7. /\ req' \in [Writers -> {Catalogue!Idle} \cup RuleRequest]
        /\ req'[q] = n
        /\ \A p \in Writers \ {q} :
              /\ req[p] = Catalogue!Idle <=> req'[p] = Catalogue!Idle
              /\ req[p] # Catalogue!Idle /\ ~req'[p].raced => req'[p] = req[p] /\ req[p].id # i
    BY <2>1, <2>6, LandedGives DEF CatalogueInv
  <2>8. /\ versionRule'[i] = r
        /\ \A j \in VersionRules \ {i} : versionRule'[j] = versionRule[j]
        /\ versionRule' \in [VersionRules -> Catalogue!VersionRow \cup {Catalogue!NoVersionRow}]
    BY <1>2, <2>1, <2>3 DEF CatalogueInv, CatalogueType
  <2>9. CatalogueType'
    BY <1>1, <2>7, <2>8 DEF CatalogueInv, CatalogueType
  <2>10. ASSUME NEW p \in Writers  PROVE Judged(p)'
    <3>1. CASE p = q
      BY <2>3, <2>6, <2>7, <2>8, <3>1 DEF Judged
    <3>2. CASE p # q
      <4>1. req[p] # Catalogue!Idle /\ req[p].at \in {"version", "set"} => req[p].id \in VersionRules
        BY RequestIds DEF CatalogueInv
      <4> QED  BY <1>1, <2>7, <2>8, <3>2, <4>1 DEF CatalogueInv, Judged
    <3> QED  BY <3>1, <3>2
  <2>11. Catalogue!UnwritableOnlyByRace
    <3>1. ASSUME NEW j \in VersionRules, Catalogue!Writable(versionRule[j]),
                 ~Catalogue!Writable(versionRule'[j])
          PROVE  req[q].at = "version" /\ req[q].id = j /\ req[q].raced
      BY <1>1, <1>2, <2>4, <2>8, <3>1 DEF i
    <3> QED  BY <3>1 DEF Catalogue!UnwritableOnlyByRace
  <2>12. Catalogue!SilentOnlyByRace
    BY <1>1 DEF Catalogue!SilentOnlyByRace, Catalogue!Silent
  <2>13. Catalogue!OrphanOnlyByRace
    BY <1>1, <2>3, <2>8 DEF Catalogue!OrphanOnlyByRace, Catalogue!Orphan
  <2> QED  BY <2>9, <2>10, <2>11, <2>12, <2>13 DEF CatalogueKeeps, CatalogueInv
<1> QED  BY <1>3, <1>4

\* A version rule that goes takes its secret along, and overtakes whoever was
\* about to store one.
LEMMA VersionRemovalHolds ==
  ASSUME CatalogueInv, NEW q \in Writers, NEW i \in VersionRules,
         Catalogue!RemoveVersionRule(q, i)
  PROVE  CatalogueKeeps
<1> DEFINE n == [at |-> "forget", id |-> i, raced |-> FALSE]
<1>1. /\ versionRule' = [versionRule EXCEPT ![i] = Catalogue!NoVersionRow]
      /\ Catalogue!Landed(q, i, n) /\ UNCHANGED <<envRule, secrets>>
  BY DEF Catalogue!RemoveVersionRule
<1>2. n \in SecretRequest /\ n.at = "forget" /\ n.id = i
  BY DEF SecretRequest
<1>3. n \in RuleRequest
  BY <1>2 DEF RuleRequest
<1> HIDE DEF n
<1>4. /\ req' \in [Writers -> {Catalogue!Idle} \cup RuleRequest]
      /\ req'[q] = n
      /\ \A p \in Writers \ {q} :
            /\ req[p] = Catalogue!Idle <=> req'[p] = Catalogue!Idle
            /\ req[p] # Catalogue!Idle /\ ~req'[p].raced => req'[p] = req[p] /\ req[p].id # i
  BY <1>1, <1>3, LandedGives DEF CatalogueInv
<1>5. /\ versionRule'[i] = Catalogue!NoVersionRow
      /\ \A j \in VersionRules \ {i} : versionRule'[j] = versionRule[j]
      /\ versionRule' \in [VersionRules -> Catalogue!VersionRow \cup {Catalogue!NoVersionRow}]
  BY <1>1 DEF CatalogueInv, CatalogueType
<1>6. CatalogueType'
  BY <1>1, <1>4, <1>5 DEF CatalogueInv, CatalogueType
<1>7. ASSUME NEW p \in Writers  PROVE Judged(p)'
  <2>1. CASE p = q
    BY <1>2, <1>4, <2>1 DEF Judged
  <2>2. CASE p # q
    <3>1. req[p] # Catalogue!Idle /\ req[p].at \in {"version", "set"} => req[p].id \in VersionRules
      BY RequestIds DEF CatalogueInv
    <3> QED  BY <1>1, <1>4, <1>5, <2>2, <3>1 DEF CatalogueInv, Judged
  <2> QED  BY <2>1, <2>2
<1>8. Catalogue!SilentOnlyByRace
  BY <1>1 DEF Catalogue!SilentOnlyByRace, Catalogue!Silent
<1>9. Catalogue!UnwritableOnlyByRace
  BY <1>5, NoRules DEF Catalogue!UnwritableOnlyByRace
<1>10. Catalogue!OrphanOnlyByRace
  BY <1>1, <1>2, <1>4, <1>5 DEF Catalogue!OrphanOnlyByRace, Catalogue!Orphan
<1> QED  BY <1>6, <1>7, <1>8, <1>9, <1>10 DEF CatalogueKeeps, CatalogueInv

\* The secret of a rule, stored or dropped after its row.
LEMMA SecretWriteHolds ==
  ASSUME CatalogueInv, NEW q \in Writers, Catalogue!WriteSecret(q)
  PROVE  CatalogueKeeps
<1>1. /\ req[q].at \in {"set", "forget"} /\ req[q] # Catalogue!Idle
      /\ secrets' = IF req[q].at = "set" THEN secrets \cup {req[q].id}
                    ELSE secrets \ {req[q].id}
      /\ req' = [req EXCEPT ![q] = Catalogue!Idle] /\ UNCHANGED <<envRule, versionRule>>
  BY DEF Catalogue!WriteSecret, Catalogue!Becomes, Catalogue!Idle
<1>2. req[q].id \in VersionRules /\ req[q].raced \in BOOLEAN
  BY <1>1, RequestIds, RuleRequestParts DEF CatalogueInv
<1>3. /\ req' \in [Writers -> {Catalogue!Idle} \cup RuleRequest]
      /\ req'[q] = Catalogue!Idle /\ \A p \in Writers \ {q} : req'[p] = req[p]
  BY <1>1 DEF CatalogueInv, CatalogueType
<1>4. CatalogueInv'
  <2>1. CatalogueType'
    BY <1>1, <1>3 DEF CatalogueInv, CatalogueType
  <2>2. \A p \in Writers : Judged(p)'
    BY <1>1, <1>3 DEF CatalogueInv, Judged
  <2> QED  BY <2>1, <2>2 DEF CatalogueInv
<1>5. Catalogue!SilentOnlyByRace /\ Catalogue!UnwritableOnlyByRace
  BY <1>1 DEF Catalogue!SilentOnlyByRace, Catalogue!Silent, Catalogue!UnwritableOnlyByRace
<1>6. Catalogue!OrphanOnlyByRace
  <2>1. ASSUME NEW j \in VersionRules, ~Catalogue!Orphan(j), Catalogue!Orphan(j)'
        PROVE  req[q].at = "set" /\ req[q].raced
    <3>1. req[q].at = "set" /\ req[q].id = j /\ versionRule[j] = Catalogue!NoVersionRow
      BY <1>1, <2>1 DEF Catalogue!Orphan
    <3> QED  BY <1>1, <1>2, <3>1 DEF CatalogueInv, Judged
  <2> QED  BY <2>1 DEF Catalogue!OrphanOnlyByRace
<1> QED  BY <1>4, <1>5, <1>6 DEF CatalogueKeeps

\* All the steps, and the start.
LEMMA CatalogueSteps ==
  /\ Catalogue!Init => CatalogueInv
  /\ CatalogueInv /\ [Catalogue!Next]_(Catalogue!vars) => CatalogueKeeps
<1>1. ASSUME Catalogue!Init  PROVE CatalogueInv
  <2>1. CatalogueType
    BY <1>1 DEF Catalogue!Init, CatalogueType
  <2>2. \A q \in Writers : req[q] = Catalogue!Idle
    BY <1>1 DEF Catalogue!Init
  <2> QED  BY <2>1, <2>2 DEF CatalogueInv, Judged
<1>2. ASSUME CatalogueInv, [Catalogue!Next]_(Catalogue!vars)
      PROVE  CatalogueKeeps
  <2>1. CASE UNCHANGED Catalogue!vars
    <3>1. UNCHANGED <<envRule, versionRule, secrets, req>>
      BY <2>1 DEF Catalogue!vars
    <3> QED  BY <1>2, <3>1, RulesStay
  <2>2. ASSUME NEW i, NEW x,
               \/ Catalogue!RemoveTicketRule(i) \/ Catalogue!SaveTicketRule(i, x)
               \/ Catalogue!RemoveUrlRule(i) \/ Catalogue!SaveUrlRule(i, x)
               \/ Catalogue!RemoveEnvironment(i) \/ Catalogue!SaveEnvironment(i, x)
        PROVE  CatalogueKeeps
    <3>1. UNCHANGED <<envRule, versionRule, secrets, req>>
      BY <2>2 DEF Catalogue!RemoveTicketRule, Catalogue!SaveTicketRule, Catalogue!RemoveUrlRule,
           Catalogue!SaveUrlRule, Catalogue!RemoveEnvironment, Catalogue!SaveEnvironment
    <3> QED  BY <1>2, <3>1, RulesStay
  <2>3. ASSUME NEW q \in Writers, NEW i \in EnvRules, NEW p \in Catalogue!EnvPatches,
               Catalogue!JudgeEnvRule(q, i, p)
        PROVE  CatalogueKeeps
    <3> DEFINE r == [at |-> "env", id |-> i, patch |-> p, raced |-> FALSE]
    <3>1. /\ Catalogue!Becomes(q, r) /\ UNCHANGED <<envRule, versionRule, secrets>>
          /\ Catalogue!Contributes(Catalogue!Laid(envRule[i], p))
      BY <2>3 DEF Catalogue!JudgeEnvRule, Catalogue!EnvAllowed
    <3>2. r \in EnvRequest /\ r.at = "env" /\ r.id = i /\ r.patch = p
      BY DEF EnvRequest
    <3>3. r \in RuleRequest
      BY <3>2 DEF RuleRequest
    <3> HIDE DEF r
    <3> QED  BY <1>2, <3>1, <3>2, <3>3, RulesStay
  <2>4. ASSUME NEW q \in Writers, NEW i \in VersionRules, NEW p \in Catalogue!VersionPatches,
               NEW s \in {Catalogue!Keep, "new", "empty"}, Catalogue!JudgeVersionRule(q, i, p, s)
        PROVE  CatalogueKeeps
    <3> DEFINE r == [at |-> "version", id |-> i, patch |-> p, secret |-> s, raced |-> FALSE]
    <3>1. /\ Catalogue!Becomes(q, r) /\ UNCHANGED <<envRule, versionRule, secrets>>
          /\ Catalogue!Writable(Catalogue!Laid(versionRule[i], p))
      BY <2>4 DEF Catalogue!JudgeVersionRule
    <3>2. r \in VersionRequest /\ r.at = "version" /\ r.id = i /\ r.patch = p
      BY DEF VersionRequest
    <3>3. r \in RuleRequest
      BY <3>2 DEF RuleRequest
    <3> HIDE DEF r
    <3> QED  BY <1>2, <3>1, <3>2, <3>3, RulesStay
  <2> QED  BY <1>2, <2>1, <2>2, <2>3, <2>4, CreationsHold, EnvRemovalHolds, EnvWriteHolds,
             VersionWriteHolds, VersionRemovalHolds, SecretWriteHolds DEF Catalogue!Next
<1> QED  BY <1>1, <1>2

\* What a rule may not be after an accepted patch, silent, unwritable or gone
\* from under its secret, it becomes only where two writes overlapped (update
\* and remove of the two catalogues).
THEOREM RulesBreakOnlyByRace ==
  Catalogue!Spec => [][/\ Catalogue!SilentOnlyByRace /\ Catalogue!UnwritableOnlyByRace
                       /\ Catalogue!OrphanOnlyByRace]_(Catalogue!vars)
<1>1. CatalogueInv /\ [Catalogue!Next]_(Catalogue!vars) =>
        CatalogueInv' /\ [/\ Catalogue!SilentOnlyByRace /\ Catalogue!UnwritableOnlyByRace
                          /\ Catalogue!OrphanOnlyByRace]_(Catalogue!vars)
  BY CatalogueSteps DEF CatalogueKeeps
<1> QED  BY <1>1, CatalogueSteps, PTL DEF Catalogue!Spec

-----------------------------------------------------------------------------
(* The registry of sources.                                                *)

SourceRow ==
  [scheme: Registry!Schemes, mode: {"live", "stored"}, hooks: BOOLEAN,
   incidents: Trackers \cup {Registry!None}]

MergedRow ==
  [at: {"merged"}, id: Sources, row: SourceRow, rebinds: BOOLEAN,
   resecret: BOOLEAN, raced: BOOLEAN]

RemovalRow == [at: {"forgetQuota", "forgetSecret"}, id: Sources]

RegistryType ==
  /\ source \in [Sources -> SourceRow \cup {Registry!NoRow}]
  /\ secret \in [Sources -> Registry!Schemes \cup {Registry!None}]
  /\ tracker \in [Trackers -> Registry!Kinds \cup {Registry!None}]
  /\ broken \subseteq Sources
  /\ req \in [Writers -> {Registry!Idle} \cup MergedRow \cup RemovalRow]

\* A row is not the absence of one.
LEMMA RowsExist ==
  ASSUME NEW r \in SourceRow PROVE r # Registry!NoRow
BY DEF SourceRow, Registry!NoRow, Registry!Row, Registry!None, Registry!Schemes

\* What the step of a request says of its fields.
LEMMA RegistryRequestParts ==
  ASSUME RegistryType, NEW q \in Writers
  PROVE  /\ req[q].at = "merged" => req[q] \in MergedRow
         /\ req[q].at \in {"forgetQuota", "forgetSecret"} => req[q] \in RemovalRow
         /\ req[q] # Registry!Idle => req[q].id \in Sources
BY DEF RegistryType, MergedRow, RemovalRow, Registry!Idle

\* What a form says, by its key.
LEMMA FormParts ==
  ASSUME NEW form \in Registry!Forms
  PROVE  /\ form.key = "scheme" => form.value \in Registry!Schemes
         /\ form.key = "mode" => form.value \in {"live", "stored"}
         /\ form.key = "hooks" => form.value \in BOOLEAN
         /\ form.key = "incidents" => form.value \in Trackers \cup {Registry!None}
BY DEF Registry!Forms

\* The merged state is a row, in which only a stored source listens, and whose
\* scheme is the one it had unless a new secret is asked for.
LEMMA MergeGives ==
  ASSUME NEW held \in SourceRow, NEW form \in Registry!Forms
  PROVE  /\ Registry!Merge(held, form) \in SourceRow
         /\ Registry!Merge(held, form).hooks => Registry!Merge(held, form).mode = "stored"
         /\ ~Registry!NewSecret(held, form) => Registry!Merge(held, form).scheme = held.scheme
         /\ Registry!NewSecret(held, form) \in BOOLEAN
<1>1. /\ Registry!Says(form, "scheme", held.scheme) \in Registry!Schemes
      /\ Registry!Says(form, "mode", held.mode) \in {"live", "stored"}
      /\ Registry!Says(form, "hooks", held.hooks) \in BOOLEAN
      /\ Registry!Says(form, "incidents", held.incidents) \in Trackers \cup {Registry!None}
  BY FormParts DEF Registry!Says, SourceRow
<1>2. ~Registry!NewSecret(held, form) => Registry!Says(form, "scheme", held.scheme) = held.scheme
  BY DEF Registry!NewSecret, Registry!Says
<1>3. Registry!NewSecret(held, form) \in BOOLEAN
  BY DEF Registry!NewSecret
<1> QED
  BY <1>1, <1>2, <1>3 DEF Registry!Merge, Registry!Row, SourceRow

\* A write that lands tells who is overtaken, and moves no other request.
LEMMA OthersWait ==
  ASSUME RegistryType, NEW q \in Writers, NEW s \in Sources, Registry!Landed(q, s, Registry!Idle)
  PROVE  /\ req'[q] = Registry!Idle /\ req' \in [Writers -> {Registry!Idle} \cup MergedRow \cup RemovalRow]
         /\ \A p \in Writers \ {q} :
              \/ req'[p] = req[p] /\ ~(req[p].at = "merged" /\ req[p].id = s)
              \/ /\ req[p].at = "merged" /\ req[p].id = s /\ req'[p].at = "merged"
                 /\ req'[p].row = req[p].row /\ req'[p].raced
<1>1. ASSUME NEW p \in Writers, req[p].at = "merged"
      PROVE  LET r == [req[p] EXCEPT !.raced = TRUE]
             IN  r \in MergedRow /\ r.at = "merged" /\ r.row = req[p].row /\ r.raced
  BY <1>1, RegistryRequestParts DEF MergedRow
<1> QED
  BY <1>1 DEF Registry!Landed, RegistryType

\* The types of the rows, and of what an admin's request carries between its
\* reading and its write.
THEOREM RegistryTypeCorrect == Registry!Spec => []RegistryType
<1>1. Registry!Init => RegistryType
  BY DEF Registry!Init, RegistryType
<1>2. ASSUME RegistryType, [Registry!Next]_(Registry!vars) PROVE RegistryType'
  <2>1. ASSUME NEW s \in Sources, NEW a \in Registry!Schemes, NEW m \in {"live", "stored"},
               NEW h \in BOOLEAN, NEW t \in Trackers \cup {Registry!None}, Registry!Create(s, a, m, h, t)
        PROVE  RegistryType'
    <3>1. Registry!Row(a, m, h, t) \in SourceRow
      BY DEF Registry!Row, SourceRow
    <3> QED
      BY <1>2, <2>1, <3>1 DEF Registry!Create, RegistryType
  <2>2. ASSUME NEW q \in Writers, Registry!Write(q) PROVE RegistryType'
    <3>1. req[q] \in MergedRow /\ req[q].id \in Sources /\ req[q].row \in SourceRow
      BY <1>2, <2>2, RegistryRequestParts DEF Registry!Write, MergedRow
    <3>2. CASE Registry!Becomes(q, Registry!Idle) /\ UNCHANGED <<source, secret>>
      BY <1>2, <2>2, <3>2 DEF Registry!Write, Registry!Becomes, RegistryType
    <3>3. CASE ~(Registry!Becomes(q, Registry!Idle) /\ UNCHANGED <<source, secret>>)
      <4>1. PICK bound : /\ bound = IF req[q].rebinds THEN req[q].row.incidents
                                    ELSE source[req[q].id].incidents
                         /\ Registry!Exists(req[q].id)
                         /\ source' = [source EXCEPT ![req[q].id] =
                              Registry!Row(req[q].row.scheme, req[q].row.mode, req[q].row.hooks, bound)]
                         /\ Registry!Landed(q, req[q].id, Registry!Idle)
        BY <2>2, <3>3 DEF Registry!Write
      <4>2. bound \in Trackers \cup {Registry!None}
        BY <1>2, <3>1, <4>1 DEF RegistryType, SourceRow, Registry!Exists
      <4>3. Registry!Row(req[q].row.scheme, req[q].row.mode, req[q].row.hooks, bound) \in SourceRow
        BY <3>1, <4>2 DEF Registry!Row, SourceRow
      <4>4. req' \in [Writers -> {Registry!Idle} \cup MergedRow \cup RemovalRow]
        BY <1>2, <3>1, <4>1, OthersWait
      <4>5. secret' \in [Sources -> Registry!Schemes \cup {Registry!None}] /\ UNCHANGED <<tracker, broken>>
        BY <1>2, <2>2, <3>1 DEF Registry!Write, RegistryType, SourceRow
      <4> QED
        BY <1>2, <4>1, <4>3, <4>4, <4>5 DEF RegistryType
    <3> QED
      BY <3>2, <3>3
  <2>3. ASSUME NEW q \in Writers, Registry!ForgetQuota(q) \/ Registry!ForgetSecret(q) PROVE RegistryType'
    <3>1. req[q] \in RemovalRow
      BY <1>2, <2>3, RegistryRequestParts DEF Registry!ForgetQuota, Registry!ForgetSecret
    <3>2. [req[q] EXCEPT !.at = "forgetSecret"] \in RemovalRow
      BY <3>1 DEF RemovalRow
    <3> QED
      BY <1>2, <2>3, <3>1, <3>2
      DEF Registry!ForgetQuota, Registry!ForgetSecret, Registry!Becomes, RegistryType
  <2>4. ASSUME NEW q \in Writers, NEW s \in Sources, Registry!Remove(q, s) PROVE RegistryType'
    <3>1. [at |-> "forgetQuota", id |-> s] \in RemovalRow
      BY DEF RemovalRow
    <3> QED
      BY <1>2, <2>4, <3>1 DEF Registry!Remove, Registry!Becomes, RegistryType
  <2>5. ASSUME NEW q \in Writers, NEW s \in Sources, NEW f \in Registry!Forms, Registry!Update(q, s, f)
        PROVE  RegistryType'
    <3>1. source[s] \in SourceRow
      BY <1>2, <2>5 DEF Registry!Update, Registry!Exists, RegistryType
    <3>2. [at |-> "merged", id |-> s, row |-> Registry!Merge(source[s], f),
           rebinds |-> f.key = "incidents",
           resecret |-> Registry!NewSecret(source[s], f), raced |-> FALSE] \in MergedRow
      BY <3>1, MergeGives DEF MergedRow
    <3> QED
      BY <1>2, <2>5, <3>2 DEF Registry!Update, Registry!Becomes, RegistryType
  <2>6. ASSUME NEW q \in Writers, Registry!Break(q) PROVE RegistryType'
    <3>1. req[q].id \in Sources
      BY <1>2, <2>6, RegistryRequestParts DEF Registry!Break
    <3> QED
      BY <1>2, <2>6, <3>1 DEF Registry!Break, Registry!Becomes, RegistryType
  <2>7. ASSUME NEW t \in Trackers, NEW k \in Registry!Kinds, Registry!UpdateTracker(t, k) PROVE RegistryType'
    BY <1>2, <2>7 DEF Registry!UpdateTracker, RegistryType
  <2>8. ASSUME NEW t \in Trackers, Registry!RemoveTracker(t) PROVE RegistryType'
    <3>1. \A s \in Sources : Registry!Exists(s) => [source[s] EXCEPT !.incidents = Registry!None] \in SourceRow
      BY <1>2 DEF RegistryType, Registry!Exists, SourceRow
    <3> QED
      BY <1>2, <2>8, <3>1 DEF Registry!RemoveTracker, RegistryType
  <2>9. CASE UNCHANGED Registry!vars
    BY <1>2, <2>9 DEF Registry!vars, RegistryType
  <2> QED
    BY <1>2, <2>1, <2>2, <2>3, <2>4, <2>5, <2>6, <2>7, <2>8, <2>9 DEF Registry!Next
<1> QED
  BY <1>1, <1>2, PTL DEF Registry!Spec

\* A removal under way has taken the row, and its id is not used again.
RemovalHolds(q) ==
  req[q].at \in {"forgetQuota", "forgetSecret"} => ~Registry!Exists(req[q].id)

\* An update about to write has a row in which only a stored source listens, and,
\* unless it was overtaken or brings a secret, the scheme the source still has.
MergeHolds(q) ==
  req[q].at = "merged" =>
    /\ req[q].row.hooks => req[q].row.mode = "stored"
    /\ ~req[q].raced /\ ~req[q].resecret /\ Registry!Exists(req[q].id) =>
         req[q].row.scheme = source[req[q].id].scheme

RegistryInv ==
  /\ \A q \in Writers : RemovalHolds(q) /\ MergeHolds(q)
  /\ Registry!OnlyStoredListens /\ Registry!NothingOutlives

\* The write of an update: a row of the merged state for the one that was there,
\* or nothing.
LEMMA WriteEffect ==
  ASSUME RegistryType, NEW q \in Writers, Registry!Write(q)
  PROVE  /\ req[q] \in MergedRow /\ req[q].id \in Sources
         /\ UNCHANGED <<tracker, broken>>
         /\ \/ Registry!Becomes(q, Registry!Idle) /\ UNCHANGED <<source, secret>>
            \/ /\ Registry!Exists(req[q].id) /\ Registry!Landed(q, req[q].id, Registry!Idle)
               /\ secret' = IF req[q].resecret
                            THEN [secret EXCEPT ![req[q].id] = req[q].row.scheme] ELSE secret
               /\ \E r \in SourceRow :
                    /\ source' = [source EXCEPT ![req[q].id] = r]
                    /\ r.scheme = req[q].row.scheme /\ r.mode = req[q].row.mode
                    /\ r.hooks = req[q].row.hooks
<1>1. req[q] \in MergedRow /\ req[q].id \in Sources /\ req[q].row \in SourceRow
  BY RegistryRequestParts DEF Registry!Write, MergedRow
<1> DEFINE bound == IF req[q].rebinds THEN req[q].row.incidents ELSE source[req[q].id].incidents
           r == Registry!Row(req[q].row.scheme, req[q].row.mode, req[q].row.hooks, bound)
<1>2. ASSUME Registry!Exists(req[q].id)
      PROVE  /\ r \in SourceRow /\ r.scheme = req[q].row.scheme
             /\ r.mode = req[q].row.mode /\ r.hooks = req[q].row.hooks
  <2>1. source[req[q].id] \in SourceRow
    BY <1>1, <1>2 DEF RegistryType, Registry!Exists
  <2>2. bound \in Trackers \cup {Registry!None}
    BY <1>1, <2>1 DEF SourceRow
  <2> QED
    BY <1>1, <2>2 DEF Registry!Row, SourceRow
<1>3. \/ Registry!Becomes(q, Registry!Idle) /\ UNCHANGED <<source, secret>>
      \/ /\ Registry!Exists(req[q].id) /\ Registry!Landed(q, req[q].id, Registry!Idle)
         /\ secret' = IF req[q].resecret
                      THEN [secret EXCEPT ![req[q].id] = req[q].row.scheme] ELSE secret
         /\ source' = [source EXCEPT ![req[q].id] = r]
  BY DEF Registry!Write
<1>4. UNCHANGED <<tracker, broken>>
  BY DEF Registry!Write
<1> HIDE DEF r
<1> QED
  BY <1>1, <1>2, <1>3, <1>4

\* Neither binding nor removing a tracker makes or unmakes a source.
LEMMA TrackerEffect ==
  ASSUME RegistryType, NEW t \in Trackers, Registry!RemoveTracker(t), NEW s \in Sources
  PROVE  /\ Registry!Exists(s)' <=> Registry!Exists(s)
         /\ source'[s].scheme = source[s].scheme /\ source'[s].mode = source[s].mode
         /\ source'[s].hooks = source[s].hooks
<1>1. source'[s] = IF Registry!Exists(s) /\ source[s].incidents = t
                   THEN [source[s] EXCEPT !.incidents = Registry!None] ELSE source[s]
  BY DEF Registry!RemoveTracker
<1>2. CASE ~Registry!Exists(s)
  BY <1>1, <1>2 DEF Registry!Exists
<1>3. CASE Registry!Exists(s)
  <2>1. source[s] \in SourceRow
    BY <1>3 DEF RegistryType, Registry!Exists
  <2>2. LET r == [source[s] EXCEPT !.incidents = Registry!None]
        IN  /\ r \in SourceRow /\ r.scheme = source[s].scheme
            /\ r.mode = source[s].mode /\ r.hooks = source[s].hooks
    BY <2>1 DEF SourceRow
  <2> QED
    BY <1>1, <1>3, <2>1, <2>2, RowsExist DEF Registry!Exists
<1> QED
  BY <1>2, <1>3

\* A step of one request leaves what the others carry, and what the source they
\* are about owes them.
LEMMA RegistryInvSteps ==
  ASSUME RegistryType, RegistryInv, Registry!Next
  PROVE  RegistryInv'
<1>1. ASSUME NEW s \in Sources, NEW a \in Registry!Schemes, NEW m \in {"live", "stored"},
             NEW h \in BOOLEAN, NEW t \in Trackers \cup {Registry!None}, Registry!Create(s, a, m, h, t)
      PROVE  RegistryInv'
  <2>1. Registry!Row(a, m, h, t) \in SourceRow /\ Registry!Row(a, m, h, t) # Registry!NoRow
        /\ (Registry!Row(a, m, h, t).hooks => Registry!Row(a, m, h, t).mode = "stored")
    BY <1>1, RowsExist DEF Registry!Row, SourceRow, Registry!Create, Registry!HooksAllowed
  <2>2. /\ source'[s] = Registry!Row(a, m, h, t) /\ req' = req /\ broken' = broken
        /\ \A x \in Sources \ {s} : source'[x] = source[x] /\ secret'[x] = secret[x]
        /\ \A q \in Writers : req[q] # Registry!Idle => req[q].id # s
    BY <1>1 DEF Registry!Create, RegistryType
  <2>3. ASSUME NEW q \in Writers PROVE RemovalHolds(q)' /\ MergeHolds(q)'
    <3>1. CASE req[q] = Registry!Idle
      BY <2>2, <3>1 DEF RemovalHolds, MergeHolds, Registry!Idle
    <3>2. CASE req[q] # Registry!Idle
      <4>1. req[q].id \in Sources \ {s}
        BY <2>2, <3>2, RegistryRequestParts
      <4> QED
        BY <2>2, <4>1 DEF RegistryInv, RemovalHolds, MergeHolds, Registry!Exists
    <3> QED
      BY <3>1, <3>2
  <2>4. Registry!OnlyStoredListens' /\ Registry!NothingOutlives'
    BY <2>1, <2>2
    DEF RegistryInv, Registry!OnlyStoredListens, Registry!NothingOutlives, Registry!Exists
  <2> QED
    BY <2>3, <2>4 DEF RegistryInv
<1>2. ASSUME NEW q \in Writers, Registry!Becomes(q, Registry!Idle), UNCHANGED <<source, secret, tracker>>,
             req[q] # Registry!Idle,
             broken' = IF req[q].at = "merged" THEN broken ELSE broken \cup {req[q].id}
      PROVE  RegistryInv'
  <2>1. req'[q] = Registry!Idle /\ \A p \in Writers \ {q} : req'[p] = req[p]
    BY <1>2 DEF Registry!Becomes, RegistryType
  <2> QED
    BY <1>2, <2>1
    DEF RegistryInv, RemovalHolds, MergeHolds, Registry!OnlyStoredListens, Registry!NothingOutlives,
       Registry!Exists, Registry!Idle
<1>3. ASSUME NEW q \in Writers, Registry!Write(q) PROVE RegistryInv'
  <2>0. req[q].at = "merged" /\ req[q].id \in Sources /\ broken' = broken /\ tracker' = tracker
    BY <1>3, WriteEffect DEF Registry!Write
  <2>1. CASE Registry!Becomes(q, Registry!Idle) /\ UNCHANGED <<source, secret>>
    BY <1>2, <2>0, <2>1 DEF Registry!Idle
  <2>2. CASE ~(Registry!Becomes(q, Registry!Idle) /\ UNCHANGED <<source, secret>>)
    <3> DEFINE s == req[q].id
    <3>1. PICK r \in SourceRow :
            /\ Registry!Exists(s) /\ Registry!Landed(q, s, Registry!Idle)
            /\ source' = [source EXCEPT ![s] = r]
            /\ secret' = IF req[q].resecret THEN [secret EXCEPT ![s] = req[q].row.scheme]
                         ELSE secret
            /\ r.hooks = req[q].row.hooks /\ r.mode = req[q].row.mode
      BY <1>3, <2>2, WriteEffect
    <3>2. /\ source'[s] = r /\ r # Registry!NoRow /\ (r.hooks => r.mode = "stored")
          /\ \A x \in Sources \ {s} : source'[x] = source[x] /\ secret'[x] = secret[x]
      BY <2>0, <3>1, RowsExist DEF RegistryType, RegistryInv, MergeHolds
    <3>3. \A x \in Sources : Registry!Exists(x)' <=> Registry!Exists(x)
      BY <3>1, <3>2 DEF Registry!Exists
    <3>4. /\ req'[q] = Registry!Idle
          /\ \A p \in Writers \ {q} :
              \/ req'[p] = req[p] /\ ~(req[p].at = "merged" /\ req[p].id = s)
              \/ /\ req[p].at = "merged" /\ req[p].id = s /\ req'[p].at = "merged"
                 /\ req'[p].row = req[p].row /\ req'[p].raced
      BY <2>0, <3>1, OthersWait
    <3>5. ASSUME NEW p \in Writers PROVE RemovalHolds(p)' /\ MergeHolds(p)'
      <4>1. CASE p = q
        BY <3>4, <4>1 DEF RemovalHolds, MergeHolds, Registry!Idle
      <4>2. CASE p # q /\ req'[p] = req[p] /\ ~(req[p].at = "merged" /\ req[p].id = s)
        <5>1. req[p] # Registry!Idle => req[p].id \in Sources
          BY RegistryRequestParts
        <5>2. req[p].at \in {"merged", "forgetQuota", "forgetSecret"} => req[p] # Registry!Idle
          BY DEF Registry!Idle
        <5> QED
          BY <2>0, <3>2, <3>3, <4>2, <5>1, <5>2
          DEF RegistryInv, RemovalHolds, MergeHolds, Registry!Exists
      <4>3. CASE req[p].at = "merged" /\ req'[p].at = "merged" /\ req'[p].row = req[p].row
                 /\ req'[p].raced
        BY <4>3 DEF RegistryInv, RemovalHolds, MergeHolds
      <4> QED
        BY <3>4, <4>1, <4>2, <4>3
    <3>6. Registry!OnlyStoredListens'
      BY <3>2, <3>3 DEF RegistryInv, Registry!OnlyStoredListens
    <3>7. Registry!NothingOutlives'
      <4>1. ASSUME NEW x \in Sources, secret'[x] # Registry!None
            PROVE  \/ Registry!Exists(x)' \/ x \in broken'
                   \/ \E p \in Writers : /\ req'[p].at \in {"forgetQuota", "forgetSecret"}
                                          /\ req'[p].id = x
        <5>1. CASE x = s
          BY <3>1, <3>3, <5>1
        <5>2. CASE x # s
          <6>1. \/ Registry!Exists(x) \/ x \in broken
                \/ \E p \in Writers : /\ req[p].at \in {"forgetQuota", "forgetSecret"}
                                       /\ req[p].id = x
            BY <2>0, <3>2, <4>1, <5>2 DEF RegistryInv, Registry!NothingOutlives
          <6> QED
            BY <2>0, <3>3, <3>4, <6>1
        <5> QED
          BY <5>1, <5>2
      <4> QED
        BY <4>1 DEF Registry!NothingOutlives
    <3> QED
      BY <3>5, <3>6, <3>7 DEF RegistryInv
  <2> QED
    BY <2>1, <2>2
<1>4. ASSUME NEW q \in Writers, Registry!ForgetQuota(q) PROVE RegistryInv'
  <2>1. req[q] \in RemovalRow /\ req[q].at = "forgetQuota"
    BY <1>4, RegistryRequestParts DEF Registry!ForgetQuota
  <2>2. /\ req'[q].at = "forgetSecret" /\ req'[q].id = req[q].id
        /\ \A p \in Writers \ {q} : req'[p] = req[p]
        /\ UNCHANGED <<source, secret, broken>>
    BY <1>4, <2>1 DEF Registry!ForgetQuota, Registry!Becomes, RegistryType, RemovalRow
  <2>3. Registry!OnlyStoredListens' /\ Registry!NothingOutlives'
    BY <2>1, <2>2
    DEF RegistryInv, Registry!OnlyStoredListens, Registry!NothingOutlives, Registry!Exists
  <2>4. ASSUME NEW p \in Writers PROVE RemovalHolds(p)' /\ MergeHolds(p)'
    BY <2>1, <2>2 DEF RegistryInv, RemovalHolds, MergeHolds, Registry!Exists
  <2> QED
    BY <2>3, <2>4 DEF RegistryInv
<1>5. ASSUME NEW q \in Writers, Registry!ForgetSecret(q) PROVE RegistryInv'
  <2>1. req[q] \in RemovalRow /\ req[q].at = "forgetSecret" /\ req[q].id \in Sources
    BY <1>5, RegistryRequestParts DEF Registry!ForgetSecret, RemovalRow
  <2>2. /\ req'[q] = Registry!Idle /\ \A p \in Writers \ {q} : req'[p] = req[p]
        /\ secret' = [secret EXCEPT ![req[q].id] = Registry!None] /\ UNCHANGED <<source, broken>>
    BY <1>5, <2>1 DEF Registry!ForgetSecret, Registry!Becomes, RegistryType
  <2>3. ASSUME NEW p \in Writers PROVE RemovalHolds(p)' /\ MergeHolds(p)'
    BY <2>2 DEF RegistryInv, RemovalHolds, MergeHolds, Registry!Exists, Registry!Idle
  <2>4. Registry!OnlyStoredListens'
    BY <2>2 DEF RegistryInv, Registry!OnlyStoredListens, Registry!Exists
  <2>5. Registry!NothingOutlives'
    <3>1. secret'[req[q].id] = Registry!None
          /\ \A x \in Sources : x # req[q].id => secret'[x] = secret[x]
      BY <2>1, <2>2 DEF RegistryType
    <3> QED
      BY <2>2, <3>1 DEF RegistryInv, Registry!NothingOutlives, Registry!Exists
  <2> QED
    BY <2>3, <2>4, <2>5 DEF RegistryInv
<1>6. ASSUME NEW q \in Writers, NEW s \in Sources, Registry!Remove(q, s) PROVE RegistryInv'
  <2>1. /\ req[q] = Registry!Idle /\ req'[q] = [at |-> "forgetQuota", id |-> s]
        /\ \A p \in Writers \ {q} : req'[p] = req[p]
        /\ source'[s] = Registry!NoRow /\ \A x \in Sources \ {s} : source'[x] = source[x]
        /\ UNCHANGED <<secret, broken>>
    BY <1>6 DEF Registry!Remove, Registry!Becomes, RegistryType
  <2>2. ASSUME NEW p \in Writers PROVE RemovalHolds(p)' /\ MergeHolds(p)'
    <3>1. CASE p = q
      BY <2>1, <3>1 DEF RemovalHolds, MergeHolds, Registry!Exists
    <3>2. CASE p # q
      <4>1. req[p].at \in {"merged", "forgetQuota", "forgetSecret"} => req[p].id \in Sources
        BY RegistryRequestParts DEF Registry!Idle
      <4> QED
        BY <2>1, <3>2, <4>1 DEF RegistryInv, RemovalHolds, MergeHolds, Registry!Exists
    <3> QED
      BY <3>1, <3>2
  <2>3. Registry!OnlyStoredListens'
    BY <2>1 DEF RegistryInv, Registry!OnlyStoredListens, Registry!Exists
  <2>4. Registry!NothingOutlives'
    BY <2>1 DEF RegistryInv, Registry!NothingOutlives, Registry!Exists, Registry!Idle
  <2> QED
    BY <2>2, <2>3, <2>4 DEF RegistryInv
<1>7. ASSUME NEW q \in Writers, NEW s \in Sources, NEW f \in Registry!Forms, Registry!Update(q, s, f)
      PROVE  RegistryInv'
  <2>1. source[s] \in SourceRow
    BY <1>7 DEF Registry!Update, Registry!Exists, RegistryType
  <2>2. /\ req[q] = Registry!Idle /\ \A p \in Writers \ {q} : req'[p] = req[p]
        /\ req'[q] = [at |-> "merged", id |-> s, row |-> Registry!Merge(source[s], f),
                      rebinds |-> f.key = "incidents",
                      resecret |-> Registry!NewSecret(source[s], f), raced |-> FALSE]
        /\ UNCHANGED <<source, secret, broken>>
    BY <1>7 DEF Registry!Update, Registry!Becomes, RegistryType
  <2>3. /\ req'[q].at = "merged" /\ req'[q].id = s /\ req'[q].row = Registry!Merge(source[s], f)
        /\ req'[q].resecret = Registry!NewSecret(source[s], f)
    BY <2>2
  <2>4. RemovalHolds(q)' /\ MergeHolds(q)'
    BY <2>1, <2>2, <2>3, MergeGives DEF RemovalHolds, MergeHolds, Registry!Exists
  <2>5. ASSUME NEW p \in Writers \ {q} PROVE RemovalHolds(p)' /\ MergeHolds(p)'
    BY <2>2 DEF RegistryInv, RemovalHolds, MergeHolds, Registry!Exists
  <2>6. Registry!OnlyStoredListens' /\ Registry!NothingOutlives'
    BY <2>2
    DEF RegistryInv, Registry!OnlyStoredListens, Registry!NothingOutlives, Registry!Exists,
        Registry!Idle
  <2> QED
    BY <2>4, <2>5, <2>6 DEF RegistryInv
<1>8. ASSUME NEW q \in Writers, Registry!Break(q) PROVE RegistryInv'
  BY <1>2, <1>8 DEF Registry!Break
<1>9. ASSUME NEW t \in Trackers, NEW k \in Registry!Kinds, Registry!UpdateTracker(t, k) PROVE RegistryInv'
  BY <1>9
  DEF Registry!UpdateTracker, RegistryInv, RemovalHolds, MergeHolds, Registry!OnlyStoredListens,
     Registry!NothingOutlives, Registry!Exists
<1>10. ASSUME NEW t \in Trackers, Registry!RemoveTracker(t) PROVE RegistryInv'
  <2>1. \A s \in Sources :
          /\ Registry!Exists(s)' <=> Registry!Exists(s)
          /\ source'[s].scheme = source[s].scheme /\ source'[s].mode = source[s].mode
          /\ source'[s].hooks = source[s].hooks
    BY <1>10, TrackerEffect
  <2>2. UNCHANGED <<secret, broken, req>>
    BY <1>10 DEF Registry!RemoveTracker
  <2>3. ASSUME NEW q \in Writers PROVE RemovalHolds(q)' /\ MergeHolds(q)'
    <3>1. req[q].at \in {"merged", "forgetQuota", "forgetSecret"} => req[q].id \in Sources
      BY RegistryRequestParts DEF Registry!Idle
    <3> QED
      BY <2>1, <2>2, <3>1 DEF RegistryInv, RemovalHolds, MergeHolds
  <2>4. Registry!OnlyStoredListens' /\ Registry!NothingOutlives'
    BY <2>1, <2>2 DEF RegistryInv, Registry!OnlyStoredListens, Registry!NothingOutlives
  <2> QED
    BY <2>3, <2>4 DEF RegistryInv
<1> QED
  BY <1>1, <1>3, <1>4, <1>5, <1>6, <1>7, <1>8, <1>9, <1>10 DEF Registry!Next

\* The invariant is inductive, whichever updates, removals, failures and changes
\* of trackers interleave.
THEOREM RegistryInvariant == Registry!Spec => []RegistryInv
<1>1. Registry!Init => RegistryInv
  <2>1. ASSUME Registry!Init, NEW s \in Sources PROVE ~Registry!Exists(s)
    BY <2>1 DEF Registry!Init, Registry!Exists
  <2> QED
    BY <2>1
    DEF Registry!Init, RegistryInv, RemovalHolds, MergeHolds, Registry!OnlyStoredListens,
        Registry!NothingOutlives,
       Registry!Idle
<1>2. ASSUME RegistryType, RegistryInv, [Registry!Next]_(Registry!vars) PROVE RegistryInv'
  <2>1. CASE UNCHANGED Registry!vars
    BY <1>2, <2>1
    DEF Registry!vars, RegistryInv, RemovalHolds, MergeHolds, Registry!OnlyStoredListens,
       Registry!NothingOutlives, Registry!Exists
  <2> QED
    BY <1>2, <2>1, RegistryInvSteps
<1> QED
  BY <1>1, <1>2, RegistryTypeCorrect, PTL DEF Registry!Spec

\* Only a stored source listens for events, and a removed source leaves its
\* secret behind only while its removal is under way or where it broke half way,
\* whatever updates and removals overlap (update, remove).
THEOREM SourceLeavesNothing == Registry!Spec => [](Registry!OnlyStoredListens /\ Registry!NothingOutlives)
<1>1. RegistryInv => Registry!OnlyStoredListens /\ Registry!NothingOutlives
  BY DEF RegistryInv
<1> QED
  BY <1>1, RegistryInvariant, PTL

\* A source loses the secret it signs in with only to an update that another one
\* overtook between its reading and its write (update, one transaction).
THEOREM SecretIsLostOnlyByRace == Registry!Spec => [][Registry!WrongSecretOnlyByRace]_(Registry!vars)
<1>1. ASSUME RegistryType, RegistryInv, [Registry!Next]_(Registry!vars), NEW s \in Sources,
             Registry!Authenticates(s), ~Registry!Authenticates(s)'
      PROVE  \E q \in Writers : req[q].at = "merged" /\ req[q].id = s /\ req[q].raced
  <2>1. Registry!Exists(s)' /\ secret'[s] # source'[s].scheme
    BY <1>1 DEF Registry!Authenticates
  <2>2. ASSUME Registry!Exists(s), secret'[s] = secret[s], source'[s].scheme = source[s].scheme
        PROVE  FALSE
    BY <1>1, <2>1, <2>2 DEF Registry!Authenticates
  <2>3. ASSUME source' = source, secret' = secret PROVE FALSE
    BY <2>1, <2>2, <2>3 DEF Registry!Exists
  <2>4. ASSUME NEW x \in Sources, NEW a \in Registry!Schemes, NEW m \in {"live", "stored"},
               NEW h \in BOOLEAN, NEW t \in Trackers \cup {Registry!None}, Registry!Create(x, a, m, h, t)
        PROVE  FALSE
    <3>1. CASE x = s
      BY <1>1, <2>1, <2>4, <3>1 DEF Registry!Create, RegistryType, Registry!Row
    <3>2. CASE x # s
      BY <1>1, <2>1, <2>2, <2>4, <3>2 DEF Registry!Create, RegistryType, Registry!Exists
    <3> QED
      BY <3>1, <3>2
  <2>5. ASSUME NEW q \in Writers, NEW x \in Sources, Registry!Remove(q, x) PROVE FALSE
    BY <1>1, <2>1, <2>2, <2>5 DEF Registry!Remove, RegistryType, Registry!Exists
  <2>6. ASSUME NEW q \in Writers, Registry!ForgetSecret(q) PROVE FALSE
    <3>1. req[q].id \in Sources /\ ~Registry!Exists(req[q].id)
      BY <1>1, <2>6, RegistryRequestParts
      DEF Registry!ForgetSecret, RegistryInv, RemovalHolds, RemovalRow
    <3>2. Registry!Exists(s)
      BY <2>1, <2>6 DEF Registry!ForgetSecret, Registry!Exists
    <3>3. secret'[s] = secret[s] /\ source' = source
      BY <1>1, <2>6, <3>1, <3>2 DEF Registry!ForgetSecret, RegistryType
    <3> QED
      BY <2>2, <3>2, <3>3
  <2>7. ASSUME NEW t \in Trackers, Registry!RemoveTracker(t) PROVE FALSE
    <3>1. Registry!Exists(s) /\ source'[s].scheme = source[s].scheme
      BY <1>1, <2>1, <2>7, TrackerEffect
    <3>2. secret' = secret
      BY <2>7 DEF Registry!RemoveTracker
    <3> QED
      BY <2>2, <3>1, <3>2
  <2>8. ASSUME NEW q \in Writers, Registry!Write(q)
        PROVE  req[q].at = "merged" /\ req[q].id = s /\ req[q].raced
    <3>1. req[q].at = "merged" /\ req[q] \in MergedRow
      BY <1>1, <2>8, WriteEffect DEF Registry!Write
    <3>2. PICK r \in SourceRow :
            /\ Registry!Exists(req[q].id) /\ req[q].id \in Sources
            /\ source' = [source EXCEPT ![req[q].id] = r]
            /\ secret' = IF req[q].resecret THEN [secret EXCEPT ![req[q].id] = req[q].row.scheme]
                         ELSE secret
            /\ r.scheme = req[q].row.scheme
      BY <1>1, <2>3, <2>8, WriteEffect
    <3>3. req[q].id = s
      BY <1>1, <2>1, <2>2, <3>2 DEF RegistryType, Registry!Exists
    <3>4. source'[s] = r /\ (req[q].resecret => secret'[s] = r.scheme)
      BY <1>1, <3>2, <3>3 DEF RegistryType
    <3>5. ~req[q].resecret
      BY <2>1, <3>4
    <3>6. req[q].row.scheme # source[s].scheme
      BY <2>2, <3>2, <3>3, <3>4, <3>5
    <3>7. req[q].raced
      BY <1>1, <3>1, <3>2, <3>3, <3>5, <3>6 DEF RegistryInv, MergeHolds
    <3> QED
      BY <3>1, <3>3, <3>7
  <2>9. ASSUME NEW q \in Writers,
               Registry!ForgetQuota(q) \/ \E x \in Sources, f \in Registry!Forms : Registry!Update(q, x, f)
        PROVE  FALSE
    BY <2>3, <2>9 DEF Registry!ForgetQuota, Registry!Update
  <2>10. ASSUME \/ \E q \in Writers : Registry!Break(q)
                \/ \E t \in Trackers, k \in Registry!Kinds : Registry!UpdateTracker(t, k)
                \/ UNCHANGED Registry!vars
         PROVE  FALSE
    BY <2>3, <2>10 DEF Registry!Break, Registry!UpdateTracker, Registry!vars
  <2> QED
    BY <1>1, <2>4, <2>5, <2>6, <2>7, <2>8, <2>9, <2>10 DEF Registry!Next
<1>2. ASSUME RegistryType, RegistryInv, [Registry!Next]_(Registry!vars) PROVE Registry!WrongSecretOnlyByRace
  BY <1>1, <1>2 DEF Registry!WrongSecretOnlyByRace
<1> QED
  BY <1>2, RegistryInvariant, RegistryTypeCorrect, PTL DEF Registry!Spec

-----------------------------------------------------------------------------
(* Accounts, for any number of accounts and of requests that interleave:   *)
(* its types, that a change of access closes the sessions of before it,     *)
(* that a closed session stays closed, and that only a race takes the last  *)
(* admin away.                                                              *)

AnyRole == Accounts!Roles \cup {"none", "gone"}

SessionRow == [token: Nat, user: Users, left: 0 .. 2, pass: Accounts!Passes]

LinkRow == [token: Nat, user: Users, left: 0 .. 1]

CheckedRow ==
  [at: {"checked"}, token: Nat, was: AnyRole, asked: Accounts!Asked, raced: BOOLEAN]

\* A request, by the step it is about to take.
RequestRow ==
  {Accounts!Idle} \cup CheckedRow \cup
  [at: {"refresh", "guard"}, token: Nat, user: Users, role: AnyRole] \cup
  [at: {"granted"}, asked: Accounts!Asked, token: Nat] \cup
  [at: {"setup"}] \cup [at: {"open"}, user: Users, pass: {"current", "late"}] \cup
  [at: {"found"}, user: Users] \cup
  [at: {"revoke"}, user: Users, token: Nat] \cup
  [at: {"issue"}, user: Users, old: SUBSET LinkRow]

AccountsTypeOK ==
  /\ users \in [Users -> AnyRole] /\ minted \in Nat
  /\ sessions \subseteq SessionRow /\ links \subseteq LinkRow
  /\ req \in [Writers -> RequestRow]

\* What the step of a request says of its fields.
LEMMA AccountsRequestParts ==
  ASSUME NEW r \in RequestRow
  PROVE  /\ r.at = "checked" => r \in CheckedRow
         /\ r.at \in {"refresh", "guard"} =>
              r.token \in Nat /\ r.user \in Users /\ r.role \in AnyRole
         /\ r.at = "granted" => r.asked \in Accounts!Asked /\ r.token \in Nat
         /\ r.at \in {"open", "found", "revoke", "issue"} => r.user \in Users
         /\ r.at = "open" => r.pass \in {"current", "late"}
         /\ r.at = "revoke" => r.token \in Nat
         /\ r.at = "issue" => r.old \subseteq LinkRow
BY DEF RequestRow, CheckedRow, Accounts!Idle

\* A sign-in that was overtaken still is one.
LEMMA OpenParts ==
  ASSUME NEW r \in RequestRow, r.at = "open"
  PROVE  LET o == [r EXCEPT !.pass = "late"]
         IN  o \in RequestRow /\ o.at = "open"
<1>1. r \in [at: {"open"}, user: Users, pass: {"current", "late"}]
  BY DEF RequestRow, CheckedRow, Accounts!Idle
<1>2. [r EXCEPT !.pass = "late"] \in [at: {"open"}, user: Users, pass: {"current", "late"}]
  BY <1>1
<1>3. [at: {"open"}, user: Users, pass: {"current", "late"}] \subseteq RequestRow
  BY DEF RequestRow
<1> QED
  BY <1>2, <1>3

\* What is asked concerns an account.
LEMMA AskedParts ==
  ASSUME NEW a \in Accounts!Asked
  PROVE  /\ a.user \in Users /\ a.op \in {"update", "remove", "link"}
         /\ a.role \in Accounts!Roles \cup {"keep"} /\ a.password \in BOOLEAN
         /\ a.op = "link" => ~Accounts!Withdraws(a)
BY DEF Accounts!Asked, Accounts!Roles, Accounts!Withdraws

\* The rows a session becomes: older or renewed, outdated or current again.
LEMMA SessionTimed ==
  ASSUME NEW s \in SessionRow, NEW n \in 0 .. 2
  PROVE  LET t == [s EXCEPT !.left = n]
         IN  t \in SessionRow /\ t.token = s.token /\ t.user = s.user /\ t.pass = s.pass
BY DEF SessionRow

\* A session outdated by a change of access, or left by it.
LEMMA SessionDated ==
  ASSUME NEW s \in SessionRow, NEW b \in Accounts!Passes
  PROVE  LET t == [s EXCEPT !.pass = b]
         IN  t \in SessionRow /\ t.token = s.token /\ t.user = s.user /\ t.pass = b
BY DEF SessionRow

\* A row grown older.
LEMMA OlderSession ==
  ASSUME NEW s \in SessionRow
  PROVE  /\ Accounts!Older(s) \in SessionRow /\ Accounts!Older(s).token = s.token
         /\ Accounts!Older(s).user = s.user /\ Accounts!Older(s).pass = s.pass
<1>1. PICK n \in 0 .. 2 : n = IF s.left = 0 THEN 0 ELSE s.left - 1
  BY DEF SessionRow
<1>2. Accounts!Older(s) = [s EXCEPT !.left = n]
  BY <1>1 DEF Accounts!Older
<1> QED
  BY <1>2, SessionTimed

\* A reset link grown older.
LEMMA OlderLink ==
  ASSUME NEW l \in LinkRow
  PROVE  Accounts!Older(l) \in LinkRow
BY DEF Accounts!Older, LinkRow

-----------------------------------------------------------------------------
(* What the steps do to the sessions and to the requests.                  *)

\* Every session left was there, of the same account, under the same token and
\* of the same access.
AccountsKept ==
  \A t \in sessions' :
    /\ t \in SessionRow
    /\ \E s \in sessions : t.token = s.token /\ t.user = s.user /\ t.pass = s.pass

\* One step of the request q.
RequestStep(q) ==
  \/ \E s \in sessions : Accounts!Resolve(q, s)
  \/ Accounts!Refresh(q) \/ Accounts!UpdateSelf(q) \/ Accounts!SetupAsked(q) \/ Accounts!OpenSession(q)
  \/ \E asked \in Accounts!Asked : Accounts!Guarded(q, asked)
  \/ \E u \in Users :
       \/ Accounts!Setup(q, u) \/ Accounts!Login(q, u)
       \/ \E role \in Accounts!Roles : Accounts!CreateUser(q, u, role)
  \/ Accounts!Check(q) \/ Accounts!Update(q) \/ Accounts!Revoke(q) \/ Accounts!RemoveUser(q)
  \/ Accounts!IssueBegin(q) \/ Accounts!IssueResetLink(q) \/ Accounts!ConsumeResetLink(q)
  \/ (\E l \in links : Accounts!FindReset(q, l)) \/ Accounts!Break(q)

\* Only a sign-in opens a session, only a change of access outdates one, and only
\* a request that breaks leaves one outdated.
LEMMA SessionSteps ==
  ASSUME AccountsTypeOK, [Accounts!Next]_(Accounts!vars)
  PROVE  AccountsKept \/ \E q \in Writers : Accounts!OpenSession(q) \/ Accounts!Update(q) \/ Accounts!Break(q)
<1>1. ASSUME sessions' \subseteq sessions PROVE AccountsKept
  BY <1>1 DEF AccountsKept, AccountsTypeOK
<1>2. CASE Accounts!Tick
  BY <1>2, OlderSession DEF Accounts!Tick, AccountsKept, AccountsTypeOK
<1>3. CASE \E s \in sessions : Accounts!Logout(s)
  BY <1>1, <1>3 DEF Accounts!Logout
<1>4. CASE UNCHANGED Accounts!vars
  BY <1>1, <1>4 DEF Accounts!vars
<1>5. ASSUME NEW q \in Writers, RequestStep(q),
             ~(Accounts!OpenSession(q) \/ Accounts!Update(q) \/ Accounts!Break(q))
      PROVE  AccountsKept
  <2>1. CASE Accounts!Refresh(q)
    <3>1. CASE UNCHANGED sessions
      BY <1>1, <3>1
    <3>2. CASE sessions' = {IF s.token = req[q].token THEN [s EXCEPT !.left = Accounts!SESSION_TTL]
                            ELSE s : s \in sessions}
      <4>0. Accounts!SESSION_TTL \in 0 .. 2 /\ sessions \subseteq SessionRow
        BY DEF Accounts!SESSION_TTL, AccountsTypeOK
      <4>1. \A s \in sessions :
              /\ s \in SessionRow /\ [s EXCEPT !.left = Accounts!SESSION_TTL] \in SessionRow
              /\ [s EXCEPT !.left = Accounts!SESSION_TTL].token = s.token
              /\ [s EXCEPT !.left = Accounts!SESSION_TTL].user = s.user
              /\ [s EXCEPT !.left = Accounts!SESSION_TTL].pass = s.pass
        BY <4>0, SessionTimed
      <4> QED
        BY <3>2, <4>1 DEF AccountsKept
    <3> QED
      BY <2>1, <3>1, <3>2 DEF Accounts!Refresh
  <2>2. CASE ~Accounts!Refresh(q)
    <3>1. sessions' \subseteq sessions
      BY <1>5, <2>2
      DEF RequestStep, Accounts!Resolve, Accounts!UpdateSelf, Accounts!SetupAsked,
          Accounts!Guarded, Accounts!Setup, Accounts!Login,
         Accounts!CreateUser, Accounts!Check, Accounts!Revoke, Accounts!RemoveUser,
         Accounts!IssueBegin, Accounts!IssueResetLink, Accounts!ConsumeResetLink, Accounts!FindReset
    <3> QED
      BY <1>1, <3>1
  <2> QED
    BY <2>1, <2>2
<1> QED
  BY <1>2, <1>3, <1>4, <1>5 DEF Accounts!Next, RequestStep

\* The request a step is about is the only one it moves: the others are at most
\* told that they were overtaken, by an admin that went or by a new password.
LEMMA AccountsOthersWait ==
  ASSUME AccountsTypeOK, NEW q \in Writers, RequestStep(q), NEW p \in Writers, p # q
  PROVE  \/ req'[p] = req[p]
         \/ /\ Accounts!Admins' # Accounts!Admins /\ Accounts!Withdraws(req[p].asked)
            /\ req[p].at = "checked" /\ req'[p] = [req[p] EXCEPT !.raced = TRUE]
         \/ req[p].at = "open" /\ req'[p] = [req[p] EXCEPT !.pass = "late"]
<1>1. ASSUME NEW r, Accounts!Becomes(q, r) PROVE req'[p] = req[p]
  BY <1>1 DEF Accounts!Becomes, AccountsTypeOK
<1>2. ASSUME NEW r, NEW C, Accounts!Done(q, r, C)
      PROVE  \/ req'[p] = req[p]
             \/ /\ Accounts!Admins' # Accounts!Admins /\ Accounts!Withdraws(req[p].asked)
                /\ req[p].at = "checked" /\ req'[p] = [req[p] EXCEPT !.raced = TRUE]
             \/ req[p].at = "open" /\ req'[p] = [req[p] EXCEPT !.pass = "late"]
  BY <1>2 DEF Accounts!Done, Accounts!Overtaken
<1>3. CASE Accounts!Update(q) \/ Accounts!RemoveUser(q) \/ Accounts!ConsumeResetLink(q)
  BY <1>1, <1>2, <1>3 DEF Accounts!Update, Accounts!RemoveUser, Accounts!ConsumeResetLink
<1>4. CASE \/ \E s \in sessions : Accounts!Resolve(q, s)
           \/ Accounts!Refresh(q) \/ Accounts!UpdateSelf(q) \/ Accounts!SetupAsked(q) \/ Accounts!OpenSession(q)
  BY <1>1, <1>4
  DEF Accounts!Resolve, Accounts!Refresh, Accounts!UpdateSelf, Accounts!Decided,
      Accounts!SetupAsked, Accounts!OpenSession
<1>5. CASE \/ \E asked \in Accounts!Asked : Accounts!Guarded(q, asked)
           \/ \E u \in Users : \/ Accounts!Setup(q, u) \/ Accounts!Login(q, u)
                               \/ \E role \in Accounts!Roles : Accounts!CreateUser(q, u, role)
  BY <1>1, <1>5 DEF Accounts!Guarded, Accounts!Setup, Accounts!Login, Accounts!CreateUser
<1>6. CASE \/ Accounts!Check(q) \/ Accounts!Revoke(q) \/ Accounts!IssueBegin(q) \/ Accounts!IssueResetLink(q)
           \/ Accounts!Break(q) \/ \E l \in links : Accounts!FindReset(q, l)
  BY <1>1, <1>6
  DEF Accounts!Check, Accounts!Decided, Accounts!Revoke, Accounts!IssueBegin,
      Accounts!IssueResetLink, Accounts!Break, Accounts!FindReset
<1> QED
  BY <1>3, <1>4, <1>5, <1>6 DEF RequestStep

\* The step of a request leaves requests.
LEMMA RequestTypes ==
  ASSUME AccountsTypeOK, NEW q \in Writers, RequestStep(q)
  PROVE  req' \in [Writers -> RequestRow]
<1>1. ASSUME NEW r \in RequestRow, Accounts!Becomes(q, r) PROVE req' \in [Writers -> RequestRow]
  BY <1>1 DEF Accounts!Becomes, AccountsTypeOK
<1>2. ASSUME NEW r \in RequestRow, NEW C, Accounts!Done(q, r, C) PROVE req' \in [Writers -> RequestRow]
  <2>1. ASSUME NEW p \in Writers, req[p].at = "checked"
        PROVE  [req[p] EXCEPT !.raced = TRUE] \in RequestRow
    BY <2>1, AccountsRequestParts DEF AccountsTypeOK, CheckedRow, RequestRow
  <2>2. ASSUME NEW p \in Writers, req[p].at = "open"
        PROVE  [req[p] EXCEPT !.pass = "late"] \in RequestRow
    BY <2>2, OpenParts DEF AccountsTypeOK
  <2>3. \A p \in Writers : Accounts!Overtaken(req[p], C) \in RequestRow
    BY <2>1, <2>2 DEF Accounts!Overtaken, AccountsTypeOK
  <2> QED
    BY <1>2, <2>3 DEF Accounts!Done
<1>3. Accounts!Idle \in RequestRow /\ req[q] \in RequestRow
  BY DEF RequestRow, AccountsTypeOK
<1>4. CASE \E s \in sessions : Accounts!Resolve(q, s)
  <2>1. PICK s \in sessions : Accounts!Resolve(q, s)
    BY <1>4
  <2>2. s.token \in Nat /\ s.user \in Users /\ users[s.user] \in AnyRole
    BY DEF AccountsTypeOK, SessionRow
  <2>3. \A at \in {"refresh", "guard"} :
          [at |-> at, token |-> s.token, user |-> s.user, role |-> users[s.user]] \in RequestRow
    BY <2>2 DEF RequestRow
  <2>4. CASE UNCHANGED req
    BY <2>4 DEF AccountsTypeOK
  <2>5. CASE Accounts!Becomes(q, [at |-> IF s.left < Accounts!SESSION_TTL THEN "refresh" ELSE "guard",
                         token |-> s.token, user |-> s.user, role |-> users[s.user]])
    BY <1>1, <2>3, <2>5
  <2> QED
    BY <2>1, <2>4, <2>5 DEF Accounts!Resolve
<1>5. CASE Accounts!Refresh(q)
  <2>1. [req[q] EXCEPT !.at = "guard"] \in RequestRow
    <3>1. req[q] \in [at: {"refresh", "guard"}, token: Nat, user: Users, role: AnyRole]
      BY <1>3, <1>5 DEF Accounts!Refresh, RequestRow, CheckedRow, Accounts!Idle
    <3> QED
      BY <3>1 DEF RequestRow
  <2> QED
    BY <1>1, <1>3, <1>5, <2>1 DEF Accounts!Refresh
<1>6. CASE \E asked \in Accounts!Asked : Accounts!Guarded(q, asked)
  <2>1. PICK asked \in Accounts!Asked : Accounts!Guarded(q, asked)
    BY <1>6
  <2>2. req[q].token \in Nat
    BY <1>3, <2>1, AccountsRequestParts DEF Accounts!Guarded
  <2>3. \A t \in Nat : [at |-> "granted", asked |-> asked, token |-> t] \in RequestRow
    BY DEF RequestRow
  <2> QED
    BY <1>1, <1>3, <2>1, <2>2, <2>3 DEF Accounts!Guarded
<1>7. ASSUME NEW t \in Nat, NEW was \in AnyRole, NEW asked \in Accounts!Asked, Accounts!Decided(q, t, was, asked)
      PROVE  req' \in [Writers -> RequestRow]
  <2>1. [at |-> "checked", token |-> t, was |-> was, asked |-> asked, raced |-> FALSE]
          \in RequestRow
    BY DEF RequestRow, CheckedRow
  <2> QED
    BY <1>1, <1>7, <2>1 DEF Accounts!Decided
<1>8. CASE Accounts!UpdateSelf(q)
  <2>1. req[q].token \in Nat /\ req[q].user \in Users /\ req[q].role \in AnyRole
    BY <1>3, <1>8, AccountsRequestParts DEF Accounts!UpdateSelf
  <2>2. [op |-> "update", user |-> req[q].user, role |-> "keep", password |-> TRUE] \in Accounts!Asked
    BY <2>1 DEF Accounts!Asked
  <2> QED
    BY <1>1, <1>3, <1>7, <1>8, <2>1, <2>2 DEF Accounts!UpdateSelf
<1>9. CASE Accounts!Check(q)
  <2>1. req[q].asked \in Accounts!Asked /\ req[q].token \in Nat
    BY <1>3, <1>9, AccountsRequestParts DEF Accounts!Check
  <2>2. users[req[q].asked.user] \in AnyRole
    BY <2>1, AskedParts DEF AccountsTypeOK
  <2> QED
    BY <1>1, <1>3, <1>7, <1>9, <2>1, <2>2 DEF Accounts!Check
<1>10. CASE \/ Accounts!SetupAsked(q) \/ \E u \in Users : Accounts!Setup(q, u) \/ Accounts!Login(q, u)
  <2>1. /\ [at |-> "setup"] \in RequestRow
        /\ \A u \in Users : [at |-> "open", user |-> u, pass |-> "current"] \in RequestRow
    BY DEF RequestRow
  <2> QED
    BY <1>1, <1>3, <1>10, <2>1 DEF Accounts!SetupAsked, Accounts!Setup, Accounts!Login
<1>11. CASE \/ Accounts!OpenSession(q) \/ Accounts!Revoke(q) \/ Accounts!IssueResetLink(q)
            \/ Accounts!ConsumeResetLink(q) \/ Accounts!Break(q)
            \/ \E u \in Users, role \in Accounts!Roles : Accounts!CreateUser(q, u, role)
  BY <1>1, <1>2, <1>3, <1>11
  DEF Accounts!OpenSession, Accounts!Revoke, Accounts!IssueResetLink, Accounts!ConsumeResetLink,
      Accounts!Break, Accounts!CreateUser
<1>12. ASSUME req[q].at = "checked"
       PROVE  req[q].asked \in Accounts!Asked /\ req[q].asked.user \in Users /\ req[q].token \in Nat
  <2>1. req[q] \in CheckedRow
    BY <1>3, <1>12, AccountsRequestParts
  <2> QED
    BY <2>1, AskedParts DEF CheckedRow
<1>13. CASE Accounts!Update(q)
  <2>1. req[q].asked.user \in Users /\ req[q].token \in Nat
    BY <1>12, <1>13 DEF Accounts!Update, Accounts!Checked
  <2>2. [at |-> "revoke", user |-> req[q].asked.user, token |-> req[q].token] \in RequestRow
    BY <2>1 DEF RequestRow
  <2> QED
    BY <1>1, <1>2, <1>3, <1>13, <2>2 DEF Accounts!Update
<1>14. CASE Accounts!RemoveUser(q)
  BY <1>2, <1>3, <1>14 DEF Accounts!RemoveUser
<1>15. CASE Accounts!IssueBegin(q)
  <2>1. req[q].asked.user \in Users
    BY <1>12, <1>15 DEF Accounts!IssueBegin, Accounts!Checked
  <2>2. {l \in links : l.user = req[q].asked.user} \subseteq LinkRow
    BY DEF AccountsTypeOK
  <2>3. [at |-> "issue", user |-> req[q].asked.user,
         old |-> {l \in links : l.user = req[q].asked.user}] \in RequestRow
    BY <2>1, <2>2 DEF RequestRow
  <2> QED
    BY <1>1, <1>15, <2>3 DEF Accounts!IssueBegin
<1>16. CASE \E l \in links : Accounts!FindReset(q, l)
  <2>1. \A l \in links : [at |-> "found", user |-> l.user] \in RequestRow
    BY DEF RequestRow, AccountsTypeOK, LinkRow
  <2>2. UNCHANGED req => req' \in [Writers -> RequestRow]
    BY DEF AccountsTypeOK
  <2> QED
    BY <1>1, <1>16, <2>1, <2>2 DEF Accounts!FindReset
<1> QED
  BY <1>4, <1>5, <1>6, <1>8, <1>9, <1>10, <1>11, <1>13, <1>14, <1>15, <1>16 DEF RequestStep

\* The fields of a request that has checked.
LEMMA CheckedParts ==
  ASSUME AccountsTypeOK, NEW q \in Writers, req[q].at = "checked"
  PROVE  /\ req[q] \in CheckedRow /\ req[q].asked \in Accounts!Asked
         /\ req[q].asked.user \in Users /\ req[q].raced \in BOOLEAN
<1>1. req[q] \in CheckedRow
  BY AccountsRequestParts DEF AccountsTypeOK
<1> QED
  BY <1>1, AskedParts DEF CheckedRow

\* What the steps that write an account make of it.
LEMMA UserSteps ==
  ASSUME AccountsTypeOK, NEW q \in Writers, RequestStep(q)
  PROVE  \/ UNCHANGED users
         \/ \E u \in Users, role \in Accounts!Roles :
              users[u] = "none" /\ users' = [users EXCEPT ![u] = role]
         \/ Accounts!Update(q) \/ Accounts!RemoveUser(q)
<1>1. "admin" \in Accounts!Roles
  BY DEF Accounts!Roles
<1>2. CASE \E u \in Users : Accounts!Setup(q, u)
  BY <1>1, <1>2 DEF Accounts!Setup, Accounts!Create
<1>3. CASE \E u \in Users, role \in Accounts!Roles : Accounts!CreateUser(q, u, role)
  BY <1>3 DEF Accounts!CreateUser, Accounts!Create
<1> QED
  BY <1>2, <1>3
  DEF RequestStep, Accounts!Resolve, Accounts!Refresh, Accounts!UpdateSelf, Accounts!SetupAsked,
      Accounts!OpenSession,
     Accounts!Guarded, Accounts!Login, Accounts!Check, Accounts!Revoke, Accounts!IssueBegin, Accounts!IssueResetLink, Accounts!ConsumeResetLink, Accounts!FindReset,
     Accounts!Break

\* An update gives the account one of the roles.
LEMMA UpdateWrites ==
  ASSUME AccountsTypeOK, NEW q \in Writers, Accounts!Update(q)
  PROVE  LET a == req[q].asked
         IN  /\ a.user \in Users
             /\ \/ UNCHANGED users /\ Accounts!Becomes(q, Accounts!Idle) /\ ~Accounts!Exists(a.user)
                \/ /\ Accounts!Exists(a.user)
                   /\ \E role \in Accounts!Roles :
                        /\ users' = [users EXCEPT ![a.user] = role]
                        /\ role = IF a.role = "keep" THEN users[a.user] ELSE a.role
<1>1. req[q].asked \in Accounts!Asked /\ req[q].asked.user \in Users
  BY CheckedParts DEF Accounts!Update, Accounts!Checked
<1>2. req[q].asked.role \in Accounts!Roles \cup {"keep"}
  BY <1>1, AskedParts
<1> QED
  BY <1>1, <1>2 DEF Accounts!Update, Accounts!Exists

\* The accounts keep their type.
LEMMA UserTypes ==
  ASSUME AccountsTypeOK, NEW q \in Writers, RequestStep(q)
  PROVE  users' \in [Users -> AnyRole]
<1>0. users \in [Users -> AnyRole] /\ Accounts!Roles \subseteq AnyRole /\ "gone" \in AnyRole
  BY DEF AccountsTypeOK, AnyRole
<1>1. CASE Accounts!Update(q)
  BY <1>0, <1>1, UpdateWrites
<1>2. CASE Accounts!RemoveUser(q)
  BY <1>0, <1>2 DEF Accounts!RemoveUser
<1> QED
  BY <1>0, <1>1, <1>2, UserSteps

\* The sessions an update leaves: those there were, outdated when the access of
\* their account changed and they are not the caller's own.
LEMMA UpdateAges ==
  ASSUME AccountsTypeOK, NEW q \in Writers, Accounts!Update(q), NEW t \in sessions'
  PROVE  /\ t \in SessionRow
         /\ \E s \in sessions :
              /\ t.token = s.token /\ t.user = s.user
              /\ \/ t.pass = s.pass
                 \/ /\ t.user = req[q].asked.user /\ t.token # req[q].token
                    /\ req'[q] = [at |-> "revoke", user |-> t.user, token |-> req[q].token]
<1>1. CASE sessions' = sessions
  BY <1>1 DEF AccountsTypeOK
<1>2. CASE /\ sessions' = Accounts!Aged(sessions, req[q].asked.user, req[q].token)
           /\ req'[q] = [at |-> "revoke", user |-> req[q].asked.user, token |-> req[q].token]
  <2>1. PICK s \in sessions :
          t = IF s.user = req[q].asked.user /\ s.token # req[q].token
              THEN [s EXCEPT !.pass = "past"] ELSE s
    BY <1>2 DEF Accounts!Aged
  <2>2. s \in SessionRow /\ "past" \in Accounts!Passes
    BY DEF AccountsTypeOK, Accounts!Passes
  <2>3. LET a == [s EXCEPT !.pass = "past"]
        IN  a \in SessionRow /\ a.token = s.token /\ a.user = s.user
    BY <2>2, SessionDated
  <2> QED
    BY <1>2, <2>1, <2>2, <2>3
<1>3. CASE sessions' # sessions
  BY <1>2, <1>3 DEF Accounts!Update, Accounts!Done
<1> QED
  BY <1>1, <1>3

\* The sessions a request that breaks leaves: those there were, but that those it
\* alone was about to close are known to be left.
LEMMA BreakLeaves ==
  ASSUME AccountsTypeOK, NEW q \in Writers, Accounts!Break(q), NEW t \in sessions'
  PROVE  /\ t \in SessionRow
         /\ \E s \in sessions :
              /\ t.token = s.token /\ t.user = s.user
              /\ \/ t.pass = "left"
                 \/ /\ t.pass = s.pass
                    /\ s.pass = "past" /\ Accounts!Closes(q, s) =>
                         \E p \in Writers \ {q} : Accounts!Closes(p, s)
<1>1. PICK s \in sessions :
        t = IF /\ s.pass = "past" /\ Accounts!Closes(q, s)
               /\ \A p \in Writers \ {q} : ~Accounts!Closes(p, s)
            THEN [s EXCEPT !.pass = "left"] ELSE s
  BY DEF Accounts!Break
<1>2. s \in SessionRow /\ "left" \in Accounts!Passes
  BY DEF AccountsTypeOK, Accounts!Passes
<1>3. LET a == [s EXCEPT !.pass = "left"]
      IN  a \in SessionRow /\ a.token = s.token /\ a.user = s.user /\ a.pass = "left"
  BY <1>2, SessionDated
<1> QED
  BY <1>1, <1>2, <1>3

\* The session a sign-in opens.
LEMMA OpenAdds ==
  ASSUME AccountsTypeOK, NEW q \in Writers, Accounts!OpenSession(q), NEW t \in sessions'
  PROVE  t \in SessionRow /\ (t \in sessions \/ (t.token = minted + 1 /\ t.pass # "past"))
<1>1. CASE t \in sessions
  BY <1>1 DEF AccountsTypeOK
<1>2. CASE t \notin sessions
  <2>1. /\ t = [token |-> minted + 1, user |-> req[q].user, left |-> Accounts!SESSION_TTL,
                pass |-> req[q].pass]
        /\ req[q].at = "open"
    BY <1>2 DEF Accounts!OpenSession
  <2>2. /\ req[q].user \in Users /\ minted + 1 \in Nat /\ Accounts!SESSION_TTL \in 0 .. 2
        /\ req[q].pass \in {"current", "late"}
    BY <2>1, AccountsRequestParts DEF AccountsTypeOK, Accounts!SESSION_TTL
  <2> QED
    BY <2>1, <2>2 DEF SessionRow, Accounts!Passes
<1> QED
  BY <1>1, <1>2

\* The links and the tokens keep their types.
LEMMA RowTypes ==
  ASSUME AccountsTypeOK, NEW q \in Writers, RequestStep(q)
  PROVE  links' \subseteq LinkRow /\ minted' \in Nat
<1>1. CASE Accounts!IssueResetLink(q)
  <2>1. req[q].user \in Users /\ minted \in Nat /\ minted + 1 \in Nat /\ Accounts!RESET_TTL \in 0 .. 1
    BY <1>1, AccountsRequestParts DEF AccountsTypeOK, Accounts!RESET_TTL, Accounts!IssueResetLink
  <2>2. [token |-> minted + 1, user |-> req[q].user, left |-> Accounts!RESET_TTL] \in LinkRow
    BY <2>1 DEF LinkRow
  <2> QED
    BY <1>1, <2>1, <2>2 DEF Accounts!IssueResetLink, AccountsTypeOK
<1>2. CASE Accounts!OpenSession(q)
  BY <1>2 DEF Accounts!OpenSession, AccountsTypeOK
<1>3. CASE ~Accounts!IssueResetLink(q) /\ ~Accounts!OpenSession(q)
  <2>1. links' \subseteq links /\ minted' = minted
    BY <1>3
    DEF RequestStep, Accounts!Resolve, Accounts!Refresh, Accounts!UpdateSelf,
        Accounts!SetupAsked, Accounts!Guarded, Accounts!Setup, Accounts!Login,
       Accounts!CreateUser, Accounts!Check, Accounts!Update, Accounts!Revoke, Accounts!RemoveUser, Accounts!IssueBegin, Accounts!ConsumeResetLink, Accounts!FindReset,
       Accounts!Break
  <2> QED
    BY <2>1 DEF AccountsTypeOK
<1> QED
  BY <1>1, <1>2, <1>3

\* The types of an account, of its sessions and links, and of what a request keeps
\* between two of its awaits, whatever the requests that interleave with it.
THEOREM AccountsTypeCorrect == Accounts!Spec => []AccountsTypeOK
<1>1. Accounts!Init => AccountsTypeOK
  BY DEF Accounts!Init, AccountsTypeOK, AnyRole, RequestRow
<1>2. ASSUME AccountsTypeOK, [Accounts!Next]_(Accounts!vars) PROVE AccountsTypeOK'
  <2>1. sessions' \subseteq SessionRow
    BY <1>2, SessionSteps, OpenAdds, UpdateAges, BreakLeaves DEF AccountsKept
  <2>2. CASE Accounts!Tick
    BY <1>2, <2>1, <2>2, OlderLink DEF Accounts!Tick, AccountsTypeOK
  <2>3. CASE \E s \in sessions : Accounts!Logout(s)
    BY <1>2, <2>1, <2>3 DEF Accounts!Logout, AccountsTypeOK
  <2>4. CASE UNCHANGED Accounts!vars
    BY <1>2, <2>4 DEF Accounts!vars, AccountsTypeOK
  <2>5. ASSUME NEW q \in Writers, RequestStep(q) PROVE AccountsTypeOK'
    BY <1>2, <2>1, <2>5, RequestTypes, UserTypes, RowTypes DEF AccountsTypeOK
  <2> QED
    BY <1>2, <2>2, <2>3, <2>4, <2>5 DEF Accounts!Next, RequestStep
<1> QED
  BY <1>1, <1>2, PTL DEF Accounts!Spec

-----------------------------------------------------------------------------
(* Sessions.                                                               *)

\* A session that was revoked, closed or swept never answers again: of the tokens
\* a step leaves, each was there or is minted by it, whatever a request that had
\* resolved a session was about to write (resolve's refresh).
THEOREM ClosedStaysClosed == Accounts!Spec => [][Accounts!RevokedStaysRevoked]_(Accounts!vars)
<1>1. ASSUME AccountsTypeOK, [Accounts!Next]_(Accounts!vars) PROVE Accounts!RevokedStaysRevoked
  <2>1. ASSUME NEW t \in sessions', \E s \in sessions : t.token = s.token
        PROVE  t.token \in Accounts!TokensOf(sessions)
    BY <2>1 DEF Accounts!TokensOf
  <2>2. ASSUME NEW t \in sessions' PROVE t.token \in Accounts!TokensOf(sessions) \/ t.token > minted
    <3>1. CASE AccountsKept
      BY <2>1, <3>1 DEF AccountsKept
    <3>2. CASE \E q \in Writers : Accounts!OpenSession(q)
      <4>1. t \in sessions \/ t.token = minted + 1
        BY <1>1, <3>2, OpenAdds
      <4> QED
        BY <1>1, <2>1, <4>1 DEF AccountsTypeOK
    <3>3. CASE \E q \in Writers : Accounts!Update(q)
      BY <1>1, <2>1, <3>3, UpdateAges
    <3>4. CASE \E q \in Writers : Accounts!Break(q)
      BY <1>1, <2>1, <3>4, BreakLeaves
    <3> QED
      BY <1>1, <3>1, <3>2, <3>3, <3>4, SessionSteps
  <2> QED
    BY <2>2 DEF Accounts!RevokedStaysRevoked, Accounts!TokensOf
<1> QED
  BY <1>1, AccountsTypeCorrect, PTL DEF Accounts!Spec

\* A request about to revoke leaves by revoking, or breaks.
LEMMA RevokersStay ==
  ASSUME AccountsTypeOK, [Accounts!Next]_(Accounts!vars), NEW q \in Writers, req[q].at = "revoke",
         ~Accounts!Revoke(q), ~Accounts!Break(q)
  PROVE  req'[q] = req[q]
<1>1. CASE Accounts!Tick \/ (\E s \in sessions : Accounts!Logout(s)) \/ UNCHANGED Accounts!vars
  BY <1>1 DEF Accounts!Tick, Accounts!Logout, Accounts!vars
<1>2. ASSUME NEW p \in Writers, RequestStep(p) PROVE req'[q] = req[q]
  <2>1. CASE p # q
    BY <1>2, <2>1, AccountsOthersWait
  <2>2. CASE p = q
    <3>1. req[q] # Accounts!Idle
      BY DEF Accounts!Idle
    <3> QED
      BY <1>2, <2>2, <3>1
      DEF RequestStep, Accounts!Resolve, Accounts!Refresh, Accounts!UpdateSelf,
          Accounts!SetupAsked, Accounts!OpenSession,
         Accounts!Guarded, Accounts!Setup, Accounts!Login, Accounts!CreateUser, Accounts!Check, Accounts!Update, Accounts!Checked, Accounts!RemoveUser, Accounts!IssueBegin,
         Accounts!IssueResetLink, Accounts!ConsumeResetLink, Accounts!FindReset
  <2> QED
    BY <2>1, <2>2
<1> QED
  BY <1>1, <1>2 DEF Accounts!Next, RequestStep

\* A session opened on access that was changed since is about to be closed by the
\* request that changed it, however many requests change passwords and roles, sign
\* in, refresh and break meanwhile (updateUser and its deleteMany).
THEOREM PasswordChangeClosesSessions == Accounts!Spec => []Accounts!OldSessionsRevoked
<1> USE DEF Accounts!OldSessionsRevoked
<1>1. Accounts!Init => Accounts!OldSessionsRevoked
  BY DEF Accounts!Init
<1>2. ASSUME AccountsTypeOK, Accounts!OldSessionsRevoked, [Accounts!Next]_(Accounts!vars),
             NEW t \in sessions', t.pass = "past"
      PROVE  \E q \in Writers : Accounts!Closes(q, t)'
  <2>1. ASSUME NEW p \in Writers, Accounts!Becomes(p, Accounts!Idle),
               NEW q \in Writers \ {p}, Accounts!Closes(q, t)
        PROVE  Accounts!Closes(q, t)'
    BY <1>2, <2>1 DEF Accounts!Becomes, Accounts!Closes, AccountsTypeOK
  <2>2. ASSUME NEW s \in sessions, t.token = s.token, t.user = s.user, NEW q \in Writers
        PROVE  Accounts!Closes(q, t) <=> Accounts!Closes(q, s)
    BY <2>2 DEF Accounts!Closes
  <2>3. CASE \E p \in Writers : Accounts!Revoke(p)
    <3>1. PICK p \in Writers : Accounts!Revoke(p)
      BY <2>3
    <3>2. t \in sessions /\ ~Accounts!Closes(p, t) /\ Accounts!Becomes(p, Accounts!Idle)
      BY <1>2, <3>1 DEF Accounts!Revoke
    <3>3. PICK q \in Writers : Accounts!Closes(q, t)
      BY <1>2, <3>2
    <3> QED
      BY <2>1, <3>2, <3>3
  <2>4. CASE \E p \in Writers : Accounts!Break(p)
    <3>1. PICK p \in Writers : Accounts!Break(p)
      BY <2>4
    <3>2. PICK s \in sessions :
            /\ t.token = s.token /\ t.user = s.user
            /\ \/ t.pass = "left"
               \/ /\ t.pass = s.pass
                  /\ s.pass = "past" /\ Accounts!Closes(p, s) =>
                       \E q \in Writers \ {p} : Accounts!Closes(q, s)
      BY <1>2, <3>1, BreakLeaves
    <3>3. PICK q \in Writers \ {p} : Accounts!Closes(q, s)
      BY <1>2, <3>2
    <3>4. Accounts!Becomes(p, Accounts!Idle)
      BY <3>1 DEF Accounts!Break
    <3> QED
      BY <2>1, <2>2, <3>2, <3>3, <3>4
  <2>5. CASE ~\E p \in Writers : Accounts!Revoke(p) \/ Accounts!Break(p)
    <3>1. ASSUME NEW s \in sessions, t.token = s.token, t.user = s.user, t.pass = s.pass
          PROVE  \E q \in Writers : Accounts!Closes(q, t)'
      <4>1. PICK q \in Writers : Accounts!Closes(q, s)
        BY <1>2, <3>1
      <4>2. req'[q] = req[q]
        BY <1>2, <2>5, <4>1, RevokersStay DEF Accounts!Closes
      <4> QED
        BY <3>1, <4>1, <4>2 DEF Accounts!Closes
    <3>2. CASE AccountsKept
      BY <3>1, <3>2 DEF AccountsKept
    <3>3. CASE \E q \in Writers : Accounts!OpenSession(q)
      <4>1. t \in sessions
        BY <1>2, <3>3, OpenAdds
      <4> QED
        BY <3>1, <4>1
    <3>4. CASE \E q \in Writers : Accounts!Update(q)
      <4>1. PICK q \in Writers : Accounts!Update(q)
        BY <3>4
      <4>2. CASE /\ t.token # req[q].token
                 /\ req'[q] = [at |-> "revoke", user |-> t.user, token |-> req[q].token]
        BY <4>2 DEF Accounts!Closes
      <4> QED
        BY <1>2, <3>1, <4>1, <4>2, UpdateAges
    <3> QED
      BY <1>2, <2>5, <3>2, <3>3, <3>4, SessionSteps
  <2> QED
    BY <2>3, <2>4, <2>5
<1>3. AccountsTypeOK /\ Accounts!OldSessionsRevoked /\ [Accounts!Next]_(Accounts!vars)
      => Accounts!OldSessionsRevoked'
  BY <1>2
<1> QED
  BY <1>1, <1>3, AccountsTypeCorrect, PTL DEF Accounts!Spec

-----------------------------------------------------------------------------
(* The last admin.                                                         *)

\* A withdrawal that has checked and was not overtaken: its account has been
\* opened, and while it is an admin it is not the only one.
Sound(q) ==
  req[q].at = "checked" /\ Accounts!Withdraws(req[q].asked) /\ ~req[q].raced =>
    /\ users[req[q].asked.user] # "none"
    /\ users[req[q].asked.user] = "admin" => Cardinality(Accounts!Admins) > 1

ChecksAreSound == \A q \in Writers : Sound(q)

\* The step that a withdrawal makes when it is let through.
LEMMA CheckIsSound ==
  ASSUME AccountsTypeOK, NEW q \in Writers, RequestStep(q)
  PROVE  Sound(q)'
<1> SUFFICES ASSUME req'[q].at = "checked", Accounts!Withdraws(req'[q].asked), ~req'[q].raced
             PROVE  /\ users'[req'[q].asked.user] # "none"
                    /\ users'[req'[q].asked.user] = "admin" => Cardinality(Accounts!Admins') > 1
  BY DEF Sound, Accounts!Withdraws
<1>0. ASSUME NEW r, Accounts!Becomes(q, r) \/ \E C : Accounts!Done(q, r, C) PROVE req'[q] = r
  BY <1>0 DEF Accounts!Becomes, Accounts!Done, AccountsTypeOK
<1>1. Accounts!Idle.at # "checked"
  BY DEF Accounts!Idle
<1>2. CASE Accounts!Check(q)
  <2>1. Accounts!Exists(req[q].asked.user) /\ UNCHANGED users
        /\ (Accounts!Withdraws(req[q].asked) => Accounts!NotLastAdmin(users[req[q].asked.user]))
        /\ req'[q].asked = req[q].asked
    BY <1>0, <1>1, <1>2 DEF Accounts!Check, Accounts!Decided
  <2>2. Accounts!Cardinality(Accounts!Admins) = Cardinality(Accounts!Admins)
    BY DEF Cardinality, Accounts!Cardinality
  <2> QED
    BY <2>1, <2>2 DEF Accounts!Exists, Accounts!NotLastAdmin, Accounts!Admins, Accounts!Roles
<1>3. CASE Accounts!UpdateSelf(q)
  BY <1>0, <1>1, <1>3 DEF Accounts!UpdateSelf, Accounts!Decided, Accounts!Withdraws
<1>4. CASE \E s \in sessions : Accounts!Resolve(q, s)
  BY <1>0, <1>1, <1>4 DEF Accounts!Resolve
<1>5. CASE Accounts!Refresh(q)
  <2>1. [req[q] EXCEPT !.at = "guard"].at # "checked"
    <3>1. req[q] \in [at: {"refresh", "guard"}, token: Nat, user: Users, role: AnyRole]
      BY <1>5 DEF AccountsTypeOK, Accounts!Refresh, RequestRow, CheckedRow, Accounts!Idle
    <3> QED
      BY <3>1
  <2> QED
    BY <1>0, <1>1, <1>5, <2>1 DEF Accounts!Refresh
<1>6. CASE Accounts!Update(q)
  BY <1>0, <1>1, <1>6 DEF Accounts!Update
<1>7. CASE \/ Accounts!RemoveUser(q) \/ Accounts!OpenSession(q) \/ Accounts!Revoke(q)
           \/ Accounts!IssueResetLink(q) \/ Accounts!ConsumeResetLink(q) \/ Accounts!Break(q)
  <2>1. Accounts!Becomes(q, Accounts!Idle) \/ \E C : Accounts!Done(q, Accounts!Idle, C)
    BY <1>7
    DEF Accounts!RemoveUser, Accounts!OpenSession, Accounts!Revoke, Accounts!IssueResetLink,
        Accounts!ConsumeResetLink, Accounts!Break
  <2> QED
    BY <1>0, <1>1, <2>1
<1>11. CASE Accounts!SetupAsked(q) \/ Accounts!IssueBegin(q)
  BY <1>0, <1>11 DEF Accounts!SetupAsked, Accounts!IssueBegin
<1>8. CASE \E asked \in Accounts!Asked : Accounts!Guarded(q, asked)
  <2>1. PICK asked \in Accounts!Asked : Accounts!Guarded(q, asked)
    BY <1>8
  <2>2. PICK t : \/ Accounts!Becomes(q, Accounts!Idle)
                 \/ Accounts!Becomes(q, [at |-> "granted", asked |-> asked, token |-> t])
    BY <2>1 DEF Accounts!Guarded
  <2>3. [at |-> "granted", asked |-> asked, token |-> t].at # "checked"
    OBVIOUS
  <2> QED
    BY <1>0, <1>1, <2>2, <2>3
<1>9. CASE \E u \in Users : \/ Accounts!Setup(q, u) \/ Accounts!Login(q, u)
                            \/ \E role \in Accounts!Roles : Accounts!CreateUser(q, u, role)
  <2>1. PICK u \in Users : \/ Accounts!Becomes(q, Accounts!Idle)
                       \/ Accounts!Becomes(q, [at |-> "open", user |-> u, pass |-> "current"])
    BY <1>9 DEF Accounts!Setup, Accounts!Login, Accounts!CreateUser
  <2>2. [at |-> "open", user |-> u, pass |-> "current"].at # "checked"
    OBVIOUS
  <2> QED
    BY <1>0, <1>1, <2>1, <2>2
<1>10. CASE \E l \in links : Accounts!FindReset(q, l)
  BY <1>0, <1>1, <1>10 DEF Accounts!FindReset
<1> QED
  BY <1>2, <1>3, <1>4, <1>5, <1>6, <1>7, <1>8, <1>9, <1>10, <1>11 DEF RequestStep

\* What another request does to an account leaves the check of a withdrawal that
\* it does not overtake as good as it was: an account that is opened adds at most
\* an admin, and one that is changed leaves the admins it does not report.
LEMMA OthersKeepSound ==
  ASSUME AccountsTypeOK, IsFiniteSet(Users), NEW q \in Writers, RequestStep(q),
         NEW u \in Users, users[u] # "none", users[u] = "admin" => Cardinality(Accounts!Admins) > 1,
         Accounts!Update(q) \/ Accounts!RemoveUser(q) => Accounts!Admins' = Accounts!Admins
  PROVE  users'[u] # "none" /\ (users'[u] = "admin" => Cardinality(Accounts!Admins') > 1)
<1>1. CASE UNCHANGED users
  BY <1>1 DEF Accounts!Admins
<1>2. CASE \E v \in Users, role \in Accounts!Roles :
             users[v] = "none" /\ users' = [users EXCEPT ![v] = role]
  <2>1. PICK v \in Users, role \in Accounts!Roles :
          users[v] = "none" /\ users' = [users EXCEPT ![v] = role]
    BY <1>2
  <2>2. users'[u] = users[u]
    BY <2>1 DEF AccountsTypeOK
  <2>3. Accounts!Admins \subseteq Accounts!Admins' /\ Accounts!Admins' \subseteq Users /\ Accounts!Admins \subseteq Users
    BY <2>1 DEF AccountsTypeOK, Accounts!Admins
  <2>4. IsFiniteSet(Accounts!Admins')
    BY <2>3, FS_Subset
  <2>5. IsFiniteSet(Accounts!Admins) /\ Cardinality(Accounts!Admins) <= Cardinality(Accounts!Admins')
    BY <2>3, <2>4, FS_Subset
  <2>6. Cardinality(Accounts!Admins) \in Nat /\ Cardinality(Accounts!Admins') \in Nat
    BY <2>4, <2>5, FS_CardinalityType
  <2> QED
    BY <2>2, <2>5, <2>6
<1>3. CASE Accounts!Update(q) \/ Accounts!RemoveUser(q)
  <2>1. users'[u] = "admin" => users[u] = "admin"
    BY <1>3 DEF Accounts!Admins
  <2>2. users'[u] # "none"
    <3>1. CASE Accounts!Update(q)
      <4>1. "none" \notin Accounts!Roles
        BY DEF Accounts!Roles
      <4> QED
        BY <3>1, <4>1, UpdateWrites DEF AccountsTypeOK
    <3>2. CASE Accounts!RemoveUser(q)
      BY <3>2 DEF Accounts!RemoveUser, AccountsTypeOK
    <3> QED
      BY <1>3, <3>1, <3>2
  <2> QED
    BY <1>3, <2>1, <2>2
<1> QED
  BY <1>1, <1>2, <1>3, UserSteps

\* The checks stay sound at every step.
LEMMA ChecksStaySound ==
  ASSUME AccountsTypeOK, IsFiniteSet(Users), ChecksAreSound, [Accounts!Next]_(Accounts!vars)
  PROVE  ChecksAreSound'
<1>1. CASE Accounts!Tick \/ (\E s \in sessions : Accounts!Logout(s)) \/ UNCHANGED Accounts!vars
  BY <1>1
  DEF Accounts!Tick, Accounts!Logout, Accounts!vars, ChecksAreSound, Sound, Accounts!Admins,
      Accounts!Withdraws
<1>2. ASSUME NEW q \in Writers, RequestStep(q), NEW p \in Writers PROVE Sound(p)'
  <2>1. CASE p = q
    BY <1>2, <2>1, CheckIsSound
  <2>2. CASE p # q /\ req'[p] = req[p]
    <3>1. SUFFICES ASSUME req[p].at = "checked", Accounts!Withdraws(req[p].asked), ~req[p].raced
                   PROVE  /\ users'[req[p].asked.user] # "none"
                          /\ users'[req[p].asked.user] = "admin" => Cardinality(Accounts!Admins') > 1
      BY <2>2 DEF Sound, Accounts!Withdraws
    <3>2. req[p].asked.user \in Users
      BY <3>1, CheckedParts
    <3>3. /\ users[req[p].asked.user] # "none"
          /\ users[req[p].asked.user] = "admin" => Cardinality(Accounts!Admins) > 1
      BY <3>1 DEF ChecksAreSound, Sound
    <3>4. Accounts!Update(q) \/ Accounts!RemoveUser(q) => Accounts!Admins' = Accounts!Admins
      <4>1. ASSUME NEW r, NEW C, Accounts!Done(q, r, C), Accounts!Admins' # Accounts!Admins
            PROVE  FALSE
        <5>1. req'[p] = [req[p] EXCEPT !.raced = TRUE] /\ req[p] \in CheckedRow
          BY <2>2, <3>1, <4>1, CheckedParts DEF Accounts!Done, Accounts!Overtaken
        <5>2. req'[p].raced
          BY <5>1 DEF CheckedRow
        <5> QED
          BY <2>2, <3>1, <5>2
      <4>2. UNCHANGED users => Accounts!Admins' = Accounts!Admins
        BY DEF Accounts!Admins
      <4> QED
        BY <4>1, <4>2 DEF Accounts!Update, Accounts!RemoveUser
    <3> QED
      BY <1>2, <3>2, <3>3, <3>4, OthersKeepSound
  <2>3. CASE req[p].at = "checked" /\ req'[p] = [req[p] EXCEPT !.raced = TRUE]
    <3>1. req[p] \in CheckedRow
      BY <2>3, CheckedParts
    <3>2. req'[p].raced
      BY <2>3, <3>1 DEF CheckedRow
    <3> QED
      BY <3>2 DEF Sound
  <2>4. CASE req[p].at = "open" /\ req'[p] = [req[p] EXCEPT !.pass = "late"]
    <3>1. req'[p].at = "open"
      BY <2>4, OpenParts DEF AccountsTypeOK
    <3> QED
      BY <3>1 DEF Sound
  <2> QED
    BY <1>2, <2>1, <2>2, <2>3, <2>4, AccountsOthersWait
<1> QED
  BY <1>1, <1>2 DEF Accounts!Next, RequestStep, ChecksAreSound

\* The last admin goes only when two withdrawals overlapped: a demotion or a removal
\* that checked and was not overtaken always leaves one (assertNotLastAdmin).
THEOREM LastAdminGoesOnlyByRace ==
  ASSUME IsFiniteSet(Users)
  PROVE  Accounts!Spec => [][Accounts!LastAdminOnlyByRace]_(Accounts!vars)
<1>1. Accounts!Init => ChecksAreSound
  BY DEF Accounts!Init, ChecksAreSound, Sound, Accounts!Idle
<1>2. ASSUME AccountsTypeOK, ChecksAreSound, [Accounts!Next]_(Accounts!vars) PROVE Accounts!LastAdminOnlyByRace
  <2>1. SUFFICES ASSUME Accounts!Admins # {}, Accounts!Admins' = {}
                 PROVE  \E q \in Writers : /\ req[q].at = "checked" /\ req[q].raced
                                            /\ req'[q] # req[q]
    BY DEF Accounts!LastAdminOnlyByRace
  <2>2. ~UNCHANGED users
    BY <2>1 DEF Accounts!Admins
  <2>3. PICK q \in Writers : RequestStep(q)
    BY <1>2, <2>2 DEF Accounts!Next, RequestStep, Accounts!Tick, Accounts!Logout, Accounts!vars
  <2>4. Accounts!Update(q) \/ Accounts!RemoveUser(q)
    <3>1. ASSUME NEW u \in Users, NEW role \in Accounts!Roles, users[u] = "none",
                 users' = [users EXCEPT ![u] = role]
          PROVE  Accounts!Admins \subseteq Accounts!Admins'
      BY <1>2, <3>1 DEF AccountsTypeOK, Accounts!Admins
    <3> QED
      BY <1>2, <2>1, <2>2, <2>3, <3>1, UserSteps
  <2> DEFINE u == req[q].asked.user
  <2>5. req[q].at = "checked" /\ u \in Users /\ req[q].asked \in Accounts!Asked /\ req[q].raced \in BOOLEAN
    BY <1>2, <2>4, CheckedParts DEF Accounts!Update, Accounts!RemoveUser, Accounts!Checked
  <2>6. PICK role \in AnyRole : users' = [users EXCEPT ![u] = role]
    <3>1. Accounts!Roles \subseteq AnyRole /\ "gone" \in AnyRole
      BY DEF AnyRole
    <3> QED
      BY <1>2, <2>2, <2>4, <3>1, UpdateWrites DEF Accounts!RemoveUser
  <2>7. Accounts!Admins = {u}
    BY <1>2, <2>1, <2>5, <2>6 DEF AccountsTypeOK, Accounts!Admins
  <2>8. users[u] = "admin" /\ users'[u] # "admin"
    BY <2>1, <2>5, <2>7 DEF Accounts!Admins
  <2>9. Accounts!Withdraws(req[q].asked)
    <3>1. CASE Accounts!Update(q)
      <4>1. req[q].asked.role \in Accounts!Roles \cup {"keep"}
        BY <2>5, AskedParts
      <4>2. users'[u] = IF req[q].asked.role = "keep" THEN users[u] ELSE req[q].asked.role
        BY <1>2, <2>2, <2>5, <3>1, UpdateWrites DEF AccountsTypeOK
      <4> QED
        BY <2>8, <4>1, <4>2 DEF Accounts!Withdraws, Accounts!Roles
    <3>2. CASE Accounts!RemoveUser(q)
      BY <3>2 DEF Accounts!RemoveUser, Accounts!Checked, Accounts!Withdraws
    <3> QED
      BY <2>4, <3>1, <3>2
  <2>10. Cardinality(Accounts!Admins) = 1
    BY <2>7, FS_Singleton
  <2>11. req[q].raced
    BY <1>2, <2>5, <2>8, <2>9, <2>10 DEF ChecksAreSound, Sound
  <2>12. req'[q] # req[q]
    <3>1. ASSUME NEW r, Accounts!Becomes(q, r) \/ \E C : Accounts!Done(q, r, C) PROVE req'[q] = r
      BY <1>2, <3>1 DEF Accounts!Becomes, Accounts!Done, AccountsTypeOK
    <3>2. Accounts!Idle.at # "checked"
      BY DEF Accounts!Idle
    <3>3. CASE Accounts!Update(q)
      BY <2>5, <3>1, <3>2, <3>3 DEF Accounts!Update
    <3>4. CASE Accounts!RemoveUser(q)
      BY <2>5, <3>1, <3>2, <3>4 DEF Accounts!RemoveUser
    <3> QED
      BY <2>4, <3>3, <3>4
  <2> QED
    BY <2>5, <2>11, <2>12
<1>3. ASSUME AccountsTypeOK, ChecksAreSound, [Accounts!Next]_(Accounts!vars) PROVE ChecksAreSound'
  BY <1>3, ChecksStaySound
<1> QED
  BY <1>1, <1>2, <1>3, AccountsTypeCorrect, PTL DEF Accounts!Spec

-----------------------------------------------------------------------------
(* The secret a source verifies its deliveries with.                       *)

\* What the property needs: no save has switched off a secret yet to be issued.
WebhookInv == Webhook!TypeOK /\ stale <= issued /\ Webhook!SecretFollowsSwitch

\* A secret outlives the switch only while a deletion is to come, or because one
\* never ran or came too early, however many administrators edit the source and
\* wherever their requests break.
THEOREM SecretEndsWithTheSwitch == Webhook!Spec => []Webhook!SecretFollowsSwitch
<1> USE DEF WebhookInv, Webhook!Outlived, Webhook!SecretFollowsSwitch
<1>1. Webhook!Init => WebhookInv
  <2> SUFFICES ASSUME Webhook!Init PROVE WebhookInv
    OBVIOUS
  <2>1. enabled \in BOOLEAN
    BY DEF Webhook!Init
  <2>2. ~Webhook!Outlived
    BY DEF Webhook!Init, Webhook!Null
  <2> QED  BY <2>1, <2>2 DEF Webhook!Init, Webhook!TypeOK, Webhook!Null
<1>2. WebhookInv /\ [Webhook!Next]_(Webhook!vars) => WebhookInv'
  <2> SUFFICES ASSUME WebhookInv, [Webhook!Next]_(Webhook!vars) PROVE WebhookInv'
    OBVIOUS
  <2> USE DEF Webhook!TypeOK
  <2>1. ASSUME NEW a \in Writers, Webhook!SwitchOn(a) PROVE WebhookInv'
    BY <2>1 DEF Webhook!SwitchOn
  <2>2. ASSUME NEW a \in Writers, Webhook!SwitchOff(a) PROVE WebhookInv'
    <3>1. admin'[a] = "dropping"
      BY <2>2 DEF Webhook!SwitchOff
    <3>2. Webhook!TypeOK'
      BY <2>2 DEF Webhook!SwitchOff
    <3>3. (stale <= issued)'
      BY <2>2 DEF Webhook!SwitchOff
    <3> QED  BY <3>1, <3>2, <3>3
  <2>3. ASSUME NEW a \in Writers, Webhook!DropSecret(a) PROVE WebhookInv'
    BY <2>3 DEF Webhook!DropSecret, Webhook!Null
  <2>4. ASSUME NEW a \in Writers, Webhook!AskForSecret(a) PROVE WebhookInv'
    <3>1. \A b \in Writers : admin[b] = "dropping" => admin'[b] = "dropping"
      BY <2>4 DEF Webhook!AskForSecret
    <3> QED  BY <2>4, <3>1 DEF Webhook!AskForSecret
  <2>5. ASSUME NEW a \in Writers, Webhook!IssueSecret(a) PROVE WebhookInv'
    <3>1. \A b \in Writers : admin[b] = "dropping" => admin'[b] = "dropping"
      BY <2>5 DEF Webhook!IssueSecret
    <3>2. Webhook!Outlived' => left' = "overtaken"
      BY <2>5 DEF Webhook!IssueSecret
    <3>3. Webhook!TypeOK' /\ (stale <= issued)'
      BY <2>5 DEF Webhook!IssueSecret
    <3> QED  BY <3>2, <3>3
  <2>6. ASSUME NEW a \in Writers, Webhook!BreakEdit(a) PROVE WebhookInv'
    <3>1. \A b \in Writers : b # a => admin'[b] = admin[b]
      BY <2>6 DEF Webhook!BreakEdit
    <3>2. admin[a] = "dropping" /\ Webhook!Outlived => left' = "lost"
      BY <2>6 DEF Webhook!BreakEdit
    <3>3. ~(admin[a] = "dropping" /\ Webhook!Outlived) => left' = left
      BY <2>6 DEF Webhook!BreakEdit
    <3>4. UNCHANGED <<enabled, hook, issued, stale>>
      BY <2>6 DEF Webhook!BreakEdit
    <3>5. Webhook!TypeOK'
      BY <2>6, <3>2, <3>3, <3>4 DEF Webhook!BreakEdit
    <3> QED  BY <3>1, <3>2, <3>3, <3>4, <3>5
  <2>7. CASE UNCHANGED Webhook!vars
    BY <2>7 DEF Webhook!vars
  <2> QED  BY <2>1, <2>2, <2>3, <2>4, <2>5, <2>6, <2>7 DEF Webhook!Next
<1>3. WebhookInv => Webhook!SecretFollowsSwitch
  OBVIOUS
<1> QED  BY <1>1, <1>2, <1>3, PTL DEF Webhook!Spec

-----------------------------------------------------------------------------
(* The services together, as the run takes them.                           *)

\* No step changes which service a behaviour is about.
LEMMA WhichIsFixed ==
  ASSUME [MCNext]_all PROVE which' = which
BY DEF MCNext, all

\* A step of the part about accounts is a step of Accounts.
LEMMA AccountsSteps ==
  ASSUME which = "accounts", [MCNext]_all
  PROVE  [Accounts!Next]_(Accounts!vars)
BY DEF MCNext, all, Service, ofAccounts, Accounts!vars, OfRules, OfQuota

\* A step of the part about sign-ins is a step of LoginThrottle.
LEMMA ThrottleSteps ==
  ASSUME which = "throttle", [MCNext]_all
  PROVE  [Throttle!Next]_(Throttle!vars)
BY DEF MCNext, all, Service, ofThrottle, Throttle!vars, OfRules, OfQuota

\* A session of before a change of access stays only while the request that made
\* the change is about to close it (Accounts), and a sign-in passes a limit only
\* while another one is in flight (LoginThrottle), for any number of users,
\* requests and attempts.
THEOREM OldSessionsStayClosed ==
  ASSUME WINDOW \in Nat, EMAIL_LIMIT \in Nat \ {0}, IP_LIMIT \in Nat \ {0},
         IsFiniteSet(Writers)
  PROVE  MCSpec => []OldSessionsAreClosed
<1> DEFINE A == which = "accounts"
           T == which = "throttle"
<1>1. MCInit /\ A => Accounts!Init
  BY DEF MCInit, Start
<1>2. A /\ [MCNext]_all => A' /\ [Accounts!Next]_(Accounts!vars)
  BY AccountsSteps, WhichIsFixed
<1>3. ~A /\ [MCNext]_all => (~A)'
  BY WhichIsFixed
<1>4. Accounts!Spec => []Accounts!OldSessionsRevoked
  BY PasswordChangeClosesSessions
<1>5. MCInit /\ T => Throttle!Init
  BY DEF MCInit, Start
<1>6. T /\ [MCNext]_all => T' /\ [Throttle!Next]_(Throttle!vars)
  BY ThrottleSteps, WhichIsFixed
<1>7. ~T /\ [MCNext]_all => (~T)'
  BY WhichIsFixed
<1>8. Throttle!Spec => []Throttle!LimitIsPassedOnlyInFlight
  <2>1. Throttle!IsFiniteSet(Writers)
    BY DEF IsFiniteSet, Throttle!IsFiniteSet
  <2> QED  BY <2>1, Throttle!ThrottleHolds
<1>9. (A => Accounts!OldSessionsRevoked) /\ (T => Throttle!LimitIsPassedOnlyInFlight)
      => OldSessionsAreClosed
  BY DEF OldSessionsAreClosed
<1> HIDE DEF A, T
<1> QED
  BY <1>1, <1>2, <1>3, <1>4, <1>5, <1>6, <1>7, <1>8, <1>9, PTL
  DEF MCSpec, Accounts!Spec, Throttle!Spec

\* A step of the part about sources is a step of SourceRegistry.
LEMMA RegistrySteps ==
  ASSUME which = "registry", [MCNext]_all
  PROVE  [Registry!Next]_(Registry!vars)
BY DEF MCNext, all, Service, ofRegistry, Registry!vars, OfRules, OfQuota

\* A step of the part about settings is a step of Settings.
LEMMA SettingsStepsOf ==
  ASSUME which = "settings", [MCNext]_all
  PROVE  [Settings!Next]_(Settings!vars)
BY DEF MCNext, all, Service, ofSettings, Settings!vars, OfRules, OfQuota

\* A step of the part about default providers is a step of Defaults.
LEMMA DefaultsStepsOf ==
  ASSUME which = "defaults", [MCNext]_all
  PROVE  [Defaults!Next]_(Defaults!vars)
BY DEF MCNext, all, Service, ofDefaults, Defaults!vars, OfRules, OfQuota

\* Only a stored source listens for events and nothing of a source outlives it
\* (SourceRegistry.remove), for any number of sources and requests.
THEOREM SourcesStayWhole == MCSpec => []SourcesLeaveNothing
<1> DEFINE A == which = "registry"
<1>1. MCInit /\ A => Registry!Init
  BY DEF MCInit, Start
<1>2. A /\ [MCNext]_all => A' /\ [Registry!Next]_(Registry!vars)
  BY RegistrySteps, WhichIsFixed
<1>3. ~A /\ [MCNext]_all => (~A)'
  BY WhichIsFixed
<1>4. Registry!Spec => [](Registry!OnlyStoredListens /\ Registry!NothingOutlives)
  BY SourceLeavesNothing
<1>5. (A => Registry!OnlyStoredListens /\ Registry!NothingOutlives) => SourcesLeaveNothing
  BY DEF SourcesLeaveNothing
<1> HIDE DEF A
<1> QED  BY <1>1, <1>2, <1>3, <1>4, <1>5, PTL DEF MCSpec, Registry!Spec

\* A step of the part about a webhook secret is a step of WebhookSecret.
LEMMA WebhookSteps ==
  ASSUME which = "webhook secret", [MCNext]_all
  PROVE  [Webhook!Next]_(Webhook!vars)
BY DEF MCNext, all, Service, ofWebhook, Webhook!vars, OfRules, OfQuota

\* A secret ends with the switch of its source, for any number of administrators
\* whose requests interleave and break: it outlives the switch only by a deletion
\* that is to come or never ran, or by a request that read the flag before it.
THEOREM SwitchedOffHasNoSecret == MCSpec => []SecretFollowsSwitch
<1> DEFINE A == which = "webhook secret"
<1>1. MCInit /\ A => Webhook!Init
  BY DEF MCInit, Start
<1>2. A /\ [MCNext]_all => A' /\ [Webhook!Next]_(Webhook!vars)
  BY WebhookSteps, WhichIsFixed
<1>3. ~A /\ [MCNext]_all => (~A)'
  BY WhichIsFixed
<1>4. Webhook!Spec => []Webhook!SecretFollowsSwitch
  BY SecretEndsWithTheSwitch
<1>5. (A => Webhook!SecretFollowsSwitch) => SecretFollowsSwitch
  BY DEF SecretFollowsSwitch
<1> HIDE DEF A
<1> QED  BY <1>1, <1>2, <1>3, <1>4, <1>5, PTL DEF MCSpec, Webhook!Spec

\* What the run checks of a settled state holds for any number of jobs, rows and
\* requests: a rescheduling nothing disturbed leaves Redis with the schedules of
\* the settings (Settings), and writes that came one at a time a table with one
\* default and no key without its row (Defaults).
THEOREM SettledStaysExact == MCSpec => []SettledStateIsExact
<1> DEFINE A == which = "settings"
           D == which = "defaults"
<1>1. MCInit /\ A => Settings!Init
  BY DEF MCInit, Start
<1>2. A /\ [MCNext]_all => A' /\ [Settings!Next]_(Settings!vars)
  BY SettingsStepsOf, WhichIsFixed
<1>3. ~A /\ [MCNext]_all => (~A)'
  BY WhichIsFixed
<1>4. Settings!Spec => []Settings!SettledIsExact
  BY SettledJobsAreExact
<1>5. MCInit /\ D => Defaults!Init
  BY DEF MCInit, Start
<1>6. D /\ [MCNext]_all => D' /\ [Defaults!Next]_(Defaults!vars)
  BY DefaultsStepsOf, WhichIsFixed
<1>7. ~D /\ [MCNext]_all => (~D)'
  BY WhichIsFixed
<1>8. Defaults!Spec => []Defaults!OneDefault
  BY SettledHasOneDefault
<1>9. Defaults!Spec => []Defaults!KeysHaveOwners
  BY KeysKeepTheirOwners
<1>10. /\ A => Settings!SettledIsExact
       /\ D => Defaults!OneDefault /\ Defaults!KeysHaveOwners
       => SettledStateIsExact
  BY DEF SettledStateIsExact
<1> HIDE DEF A, D
<1> QED
  BY <1>1, <1>2, <1>3, <1>4, <1>5, <1>6, <1>7, <1>8, <1>9, <1>10, PTL
  DEF MCSpec, Settings!Spec, Defaults!Spec

\* A step that leaves the accounts as they were leaves the rest as it was.
LEMMA AccountsStill ==
  ASSUME which = "accounts", [MCNext]_all, UNCHANGED Accounts!vars
  PROVE  UNCHANGED all
BY DEF MCNext, all, Service, ofAccounts, Accounts!vars, OfRules, OfQuota

\* The last admin goes only to two withdrawals that overlapped, and a closed
\* session stays closed (Accounts), for any finite set of users.
THEOREM AccountsStayKept ==
  ASSUME IsFiniteSet(Users)
  PROVE  MCSpec => AccountsAreKept
<1> DEFINE A == which = "accounts"
           L == Accounts!LastAdminOnlyByRace
           R == Accounts!RevokedStaysRevoked
           K == which = "accounts" => L /\ R
<1>1. MCInit /\ A => Accounts!Init
  BY DEF MCInit, Start
<1>2. A /\ [MCNext]_all => A' /\ [Accounts!Next]_(Accounts!vars)
  BY AccountsSteps, WhichIsFixed
<1>3. ~A /\ [MCNext]_all => (~A)'
  BY WhichIsFixed
<1>4. Accounts!Spec => [][Accounts!RevokedStaysRevoked]_(Accounts!vars)
  BY ClosedStaysClosed
<1>5. Accounts!Spec => [][Accounts!LastAdminOnlyByRace]_(Accounts!vars)
  BY LastAdminGoesOnlyByRace
<1>6. A /\ [MCNext]_all /\ [L]_(Accounts!vars) /\ [R]_(Accounts!vars) => [K]_all
  BY AccountsStill
<1>7. ~A => [K]_all
  OBVIOUS
<1> HIDE DEF A
<1> QED
  BY <1>1, <1>2, <1>3, <1>4, <1>5, <1>6, <1>7, PTL
  DEF MCSpec, Accounts!Spec, AccountsAreKept

\* A step of the part about versions is a step of VersionReadings, and stutters
\* with it.
LEMMA ReadingsStepsOf ==
  ASSUME which = "readings", [MCNext]_all
  PROVE  [Readings!Next]_(Readings!vars) /\ (UNCHANGED Readings!vars => UNCHANGED all)
BY DEF MCNext, all, Service, ofReadings, Readings!vars, OfRules, OfQuota

\* A step of the part about changelogs is a step of Changelogs, and stutters with
\* it.
LEMMA LogsStepsOf ==
  ASSUME which = "changelogs", [MCNext]_all
  PROVE  [Logs!Next]_(Logs!vars) /\ (UNCHANGED Logs!vars => UNCHANGED all)
BY DEF MCNext, all, Service, ofLogs, Logs!vars, OfRules, OfQuota

\* A deployment's row and its frozen version agree and its timeline parts from
\* them only by a race (VersionReadings); a filed changelog went out and is never
\* rewritten (Changelogs), however many deployments there are.
THEOREM HistoryStaysFinal ==
  ASSUME Last \in Nat, MaxDeployments \in Nat
  PROVE  MCSpec => HistoryIsFinal
<1> DEFINE A == which = "readings"
           B == which = "changelogs"
           K == /\ which = "readings" =>
                     Readings!TimelinePartsOnlyByRace /\ Readings!RowAndFrozenAgree'
                /\ which = "changelogs" => Logs!FiledIsFinal /\ Logs!FiledWentOut'
<1>1. MCInit /\ A => Readings!Init
  BY DEF MCInit, Start
<1>2. A /\ [MCNext]_all => A' /\ [Readings!Next]_(Readings!vars)
  BY ReadingsStepsOf, WhichIsFixed
<1>3. ~A /\ [MCNext]_all => (~A)'
  BY WhichIsFixed
<1>4. Readings!Spec => []Readings!RowAndFrozenAgree
  BY RowAndHistoryAgree
<1>5. Readings!Spec => [][Readings!TimelinePartsOnlyByRace]_(Readings!vars)
  BY TimelineFollowsTheRow
<1>6. MCInit /\ B => Logs!Init
  BY DEF MCInit, Start
<1>7. B /\ [MCNext]_all => B' /\ [Logs!Next]_(Logs!vars)
  BY LogsStepsOf, WhichIsFixed
<1>8. ~B /\ [MCNext]_all => (~B)'
  BY WhichIsFixed
<1>9. Logs!Spec => []Logs!FiledWentOut
  BY FiledMeansWentOut
<1>10. Logs!Spec => [][Logs!FiledIsFinal]_(Logs!vars)
  BY FiledStaysFiled
<1>11. A /\ [MCNext]_all /\ [Readings!TimelinePartsOnlyByRace]_(Readings!vars)
       /\ Readings!RowAndFrozenAgree' => [K]_all
  BY ReadingsStepsOf
<1>12. B /\ [MCNext]_all /\ [Logs!FiledIsFinal]_(Logs!vars) /\ Logs!FiledWentOut' => [K]_all
  BY LogsStepsOf
<1>13. ~A /\ ~B => [K]_all
  OBVIOUS
<1> HIDE DEF A, B
<1> QED
  BY <1>1, <1>2, <1>3, <1>4, <1>5, <1>6, <1>7, <1>8, <1>9, <1>10, <1>11, <1>12, <1>13, PTL
  DEF MCSpec, Readings!Spec, Logs!Spec, HistoryIsFinal

\* A step of the part about quotas is a step of ApiQuota, and stutters with it.
LEMMA QuotaStepsOf ==
  ASSUME which \in OfQuota, [MCNext]_all
  PROVE  [Quota!Next]_(Quota!vars) /\ (UNCHANGED Quota!vars => UNCHANGED all)
BY DEF MCNext, all, Service, ofQuota, Quota!vars, OfRules, OfQuota

\* The same of the parts about rules.
LEMMA CatalogueStepsOf ==
  ASSUME which \in OfRules, [MCNext]_all
  PROVE  [Catalogue!Next]_(Catalogue!vars) /\ (UNCHANGED Catalogue!vars => UNCHANGED all)
BY DEF MCNext, all, Service, ofCatalogue, Catalogue!vars, OfRules, OfQuota

\* The same of the settings.
LEMMA SettingsStill ==
  ASSUME which = "settings", [MCNext]_all, UNCHANGED Settings!vars
  PROVE  UNCHANGED all
BY DEF MCNext, all, Service, ofSettings, Settings!vars, OfRules, OfQuota

\* The same of the sources.
LEMMA RegistryStill ==
  ASSUME which = "registry", [MCNext]_all, UNCHANGED Registry!vars
  PROVE  UNCHANGED all
BY DEF MCNext, all, Service, ofRegistry, Registry!vars, OfRules, OfQuota

\* A window's count never goes down and counts nothing twice, the stored count
\* trails the held one only by a race, and what was held of a forgotten source
\* never writes a row of it again (ApiQuota), within any bounds.
THEOREM QuotaStaysKept ==
  ASSUME QuotaBounds
  PROVE  MCSpec => QuotaIsKept
<1> DEFINE A == which \in OfQuota
           C == Quota!CountNeverShrinks /\ Quota!ObservedIsNotRecounted
           S == Quota!StoredLagsOnlyByRace /\ Quota!NothingHeldComesBack
           K == /\ which \in OfQuota => C
                /\ (which \in OfQuota => S)'
<1>1. MCInit /\ A => Quota!Init
  BY DEF MCInit, Start
<1>2. A /\ [MCNext]_all => A' /\ [Quota!Next]_(Quota!vars)
  BY QuotaStepsOf, WhichIsFixed
<1>3. ~A /\ [MCNext]_all => (~A)'
  BY WhichIsFixed
<1>4. Quota!Spec => [][C]_(Quota!vars)
  BY CountsNeverShrink
<1>5. Quota!Spec => []S
  BY StoredFollowsTheHeld
<1>6. A /\ [MCNext]_all /\ [C]_(Quota!vars) /\ S' => [K]_all
  BY QuotaStepsOf
<1>7. ~A /\ [MCNext]_all => [K]_all
  BY WhichIsFixed
<1> HIDE DEF A
<1> QED
  BY <1>1, <1>2, <1>3, <1>4, <1>5, <1>6, <1>7, PTL DEF MCSpec, Quota!Spec, QuotaIsKept

\* Incidents lose their label (Settings), a rule its effect or its secret its rule
\* (RuleCatalogue), and a source the secret it signs in with (SourceRegistry),
\* only where two writes overlapped.
THEOREM WritesBreakOnlyByRace == MCSpec => BrokenOnlyByRace
<1> DEFINE A == which = "settings"
           B == which \in OfRules
           D == which = "registry"
           U == Settings!UnlabelledOnlyByRace
           R == /\ Catalogue!SilentOnlyByRace /\ Catalogue!UnwritableOnlyByRace
                /\ Catalogue!OrphanOnlyByRace
           W == Registry!WrongSecretOnlyByRace
           K == /\ which = "settings" => U
                /\ which \in OfRules => R
                /\ which = "registry" => W
<1>1. MCInit /\ A => Settings!Init
  BY DEF MCInit, Start
<1>2. A /\ [MCNext]_all => A' /\ [Settings!Next]_(Settings!vars)
  BY SettingsStepsOf, WhichIsFixed
<1>3. ~A /\ [MCNext]_all => (~A)'
  BY WhichIsFixed
<1>4. Settings!Spec => [][U]_(Settings!vars)
  BY LabelsGoOnlyByRace
<1>5. MCInit /\ B => Catalogue!Init
  BY DEF MCInit, Start
<1>6. B /\ [MCNext]_all => B' /\ [Catalogue!Next]_(Catalogue!vars)
  BY CatalogueStepsOf, WhichIsFixed
<1>7. ~B /\ [MCNext]_all => (~B)'
  BY WhichIsFixed
<1>8. Catalogue!Spec => [][R]_(Catalogue!vars)
  BY RulesBreakOnlyByRace
<1>9. MCInit /\ D => Registry!Init
  BY DEF MCInit, Start
<1>10. D /\ [MCNext]_all => D' /\ [Registry!Next]_(Registry!vars)
  BY RegistrySteps, WhichIsFixed
<1>11. ~D /\ [MCNext]_all => (~D)'
  BY WhichIsFixed
<1>12. Registry!Spec => [][W]_(Registry!vars)
  BY SecretIsLostOnlyByRace
<1>13. A /\ [MCNext]_all /\ [U]_(Settings!vars) => [K]_all
  BY SettingsStill DEF OfRules
<1>14. B /\ [MCNext]_all /\ [R]_(Catalogue!vars) => [K]_all
  BY CatalogueStepsOf DEF OfRules
<1>15. D /\ [MCNext]_all /\ [W]_(Registry!vars) => [K]_all
  BY RegistryStill DEF OfRules
<1>16. ~A /\ ~B /\ ~D => [K]_all
  OBVIOUS
<1> HIDE DEF A, B, D
<1> QED
  BY <1>1, <1>2, <1>3, <1>4, <1>5, <1>6, <1>7, <1>8, <1>9, <1>10, <1>11, <1>12, <1>13, <1>14,
     <1>15, <1>16, PTL
  DEF MCSpec, Settings!Spec, Catalogue!Spec, Registry!Spec, BrokenOnlyByRace
=============================================================================
