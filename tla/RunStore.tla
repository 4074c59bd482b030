------------------------------ MODULE RunStore ------------------------------
(***************************************************************************)
(* The pipeline and deployment tables and the writers that meet in them:   *)
(* StoreService.upsertPipelines / upsertDeployments, called by a           *)
(* synchronisation and by the ingest workers.                              *)
(*                                                                         *)
(* The two tables differ in one thing: a pipeline states when it was       *)
(* updated, and both the merge and the `where` of its update compare that  *)
(* date; a deployment does not, so its readings all carry Null, the        *)
(* comparisons never bite and the settling order is the whole guard.       *)
(*                                                                         *)
(* A writer takes a reading (an event's payload or a line of a listing),   *)
(* may hold it for as long as a queue or a retry does, loads the row,      *)
(* merges, and writes: four steps, others in between.                      *)
(***************************************************************************)
EXTENDS Naturals, Merge

CONSTANTS
  Ids,        \* pipelines and deployments
  Writers,    \* synchronisations and workers that may overlap
  SameStamp,  \* may the provider stamp two changes alike
  Reruns,     \* may a finished run be started again under its own id
  MaxTime     \* bound: the last instant

ASSUME RunAssumption ==
  /\ SameStamp \in BOOLEAN /\ Reruns \in BOOLEAN
  /\ MaxTime \in Nat

VARIABLES
  pipelines, \* the ids that are pipelines; it never changes
  now,      \* the provider's clock
  prov,     \* the run as the provider has it
  rows,     \* StoredPipeline / StoredDeployment
  pc, id, reading, row,  \* the writers
  quiet,    \* observation: writers since whose reading nothing else moved
  calm      \* observation: writers since whose load nobody wrote their row

vars == <<pipelines, now, prov, rows, pc, id, reading, row, quiet, calm>>

NoReading == [exists |-> FALSE]

Init ==
  /\ pipelines \in SUBSET Ids
  /\ now = 1
  /\ prov = [i \in Ids |-> [status |-> "unknown", updatedAt |-> Null]]
  /\ rows = [i \in Ids |-> NoRow]
  /\ pc = [w \in Writers |-> "idle"]
  /\ id \in [Writers -> Ids]
  /\ reading = [w \in Writers |-> NoReading]
  /\ row = [w \in Writers |-> NoRow]
  /\ quiet = {} /\ calm = {}

----------------------------------------------------------------------------
(* The provider (external).  A status it does not name yet is "unknown".   *)

Follows(old, new) ==
  \/ STATUS_RANK[new] > STATUS_RANK[old]
  \/ Reruns /\ Settled(old) /\ new = "running"

Advance(i, status) ==
  /\ Follows(prov[i].status, status)
  /\ prov[i].updatedAt < now \/ SameStamp
  /\ prov' = [prov EXCEPT ![i] = [status |-> status, updatedAt |-> now]]
  /\ quiet' = {}
  /\ UNCHANGED <<now, rows, pc, id, reading, row, calm>>

Tick ==
  /\ now < MaxTime
  /\ now' = now + 1
  /\ UNCHANGED <<prov, rows, pc, id, reading, row, quiet, calm>>

----------------------------------------------------------------------------
(* A writer.                                                               *)

\* The connector or the event mapper reads the run.  Only the status call of a
\* deployment listing is given up under the reserve, and reported "unknown".
Read(w, i) ==
  /\ pc[w] = "idle" /\ prov[i].updatedAt # Null
  /\ \E status \in {prov[i].status} \cup (IF i \in pipelines THEN {} ELSE {"unknown"}),
        url \in BOOLEAN :
       reading' = [reading EXCEPT ![w] =
         [exists |-> TRUE, status |-> status, url |-> url,
          updatedAt |-> IF i \in pipelines THEN prov[i].updatedAt ELSE Null]]
  /\ id' = [id EXCEPT ![w] = i]
  /\ pc' = [pc EXCEPT ![w] = "load"]
  /\ quiet' = IF pc = [x \in Writers |-> "idle"] /\ reading'[w].status # "unknown"
                THEN {w} ELSE {}
  /\ UNCHANGED <<now, prov, rows, row, calm>>

\* loadPipelines / loadDeployments and the merge; a pipeline reading older than
\* the row has nothing to write.
Load(w) ==
  LET stored == rows[id[w]]
  IN  /\ pc[w] = "load"
      /\ IF IsStale(stored, reading[w])
           THEN /\ pc' = [pc EXCEPT ![w] = "idle"]
                /\ reading' = [reading EXCEPT ![w] = NoReading]
                /\ UNCHANGED row
           ELSE /\ pc' = [pc EXCEPT ![w] = "update"]
                /\ row' = [row EXCEPT ![w] = MergeRun(stored, reading[w])]
                /\ UNCHANGED reading
      /\ calm' = calm \cup {w}
      /\ UNCHANGED <<now, prov, rows, id, quiet>>

\* Mutant: the update is by key alone.
UpdateMatches_ByKey(stored, new) == stored.exists

\* The `where` of writePipeline, which a deployment always satisfies.
UpdateMatches(stored, new) ==
  stored.exists /\ stored.updatedAt <= new.updatedAt

\* A write of w is seen by whoever holds a copy of the row.
Wrote(w) == calm' = {x \in calm : id[x] # id[w]}

\* Mutant: the row of one reading is still there when the next is loaded.
Done_KeepsRow(w) ==
  /\ pc' = [pc EXCEPT ![w] = "idle"]
  /\ reading' = [reading EXCEPT ![w] = NoReading]
  /\ UNCHANGED row

Done(w) ==
  /\ pc' = [pc EXCEPT ![w] = "idle"]
  /\ reading' = [reading EXCEPT ![w] = NoReading]
  /\ row' = [row EXCEPT ![w] = NoRow]

Update(w) ==
  /\ pc[w] = "update"
  /\ IF UpdateMatches(rows[id[w]], row[w])
       THEN rows' = [rows EXCEPT ![id[w]] = row[w]] /\ Done(w) /\ Wrote(w)
       ELSE pc' = [pc EXCEPT ![w] = "create"] /\ UNCHANGED <<rows, reading, row, calm>>
  /\ UNCHANGED <<now, prov, id, quiet>>

\* createOrLose.
Create(w) ==
  /\ pc[w] = "create"
  /\ rows' = IF rows[id[w]].exists THEN rows ELSE [rows EXCEPT ![id[w]] = row[w]]
  /\ Done(w) /\ Wrote(w)
  /\ UNCHANGED <<now, prov, id, quiet>>

\* The job threw and is tried again with the same payload, or is given up.
Retry(w) ==
  /\ pc[w] \in {"update", "create"}
  /\ pc' = [pc EXCEPT ![w] = "load"]
  /\ row' = [row EXCEPT ![w] = NoRow]
  /\ UNCHANGED <<now, prov, rows, id, reading, quiet, calm>>

GiveUp(w) ==
  /\ pc[w] # "idle"
  /\ Done(w)
  /\ quiet' = quiet \ {w}
  /\ UNCHANGED <<now, prov, rows, id, calm>>

\* RetentionService.prune on a row past its depth; creation dates are not kept
\* here, so any row may be one.
Sweep(i) ==
  /\ rows[i].exists
  /\ rows' = [rows EXCEPT ![i] = NoRow]
  /\ UNCHANGED <<now, prov, pc, id, reading, row, quiet, calm>>

WriterStep(w) ==
  \/ \E i \in Ids : Read(w, i)
  \/ Load(w) \/ Update(w) \/ Create(w) \/ Retry(w) \/ GiveUp(w)

Next ==
  /\ \/ Tick
     \/ \E i \in Ids : Sweep(i) \/ \E status \in Statuses : Advance(i, status)
     \/ \E w \in Writers : WriterStep(w)
  /\ UNCHANGED pipelines

Spec == Init /\ [][Next]_vars

----------------------------------------------------------------------------
(* Properties.                                                             *)

\* The types of the table and of what a writer holds: a reading from the read
\* on, a merged row from the load on.
TypeOK ==
  /\ pipelines \subseteq Ids
  /\ now \in Nat
  /\ prov \in [Ids -> [status: Statuses, updatedAt: Nat]]
  /\ rows \in [Ids -> RunRow \cup {NoRow}]
  /\ pc \in [Writers -> {"idle", "load", "update", "create"}]
  /\ id \in [Writers -> Ids]
  /\ reading \in [Writers -> RunReading \cup {NoReading}]
  /\ row \in [Writers -> RunRow \cup {NoRow}]
  /\ quiet \subseteq Writers /\ calm \subseteq Writers
  /\ \A w \in Writers : /\ reading[w].exists <=> pc[w] # "idle"
                        /\ row[w].exists <=> pc[w] \in {"update", "create"}

StaysSettled(i) ==
  rows[i].exists /\ Settled(rows[i].status) /\ rows'[i].exists =>
    Settled(rows'[i].status)

\* A pipeline only moves forward: once its row says how it ended, no reading
\* taken earlier puts it back to pending, running or unknown, whatever order
\* the readings arrive and the writers interleave in.
SettledStays == [][\A i \in pipelines : StaysSettled(i)]_vars

\* The row is overwritten by a writer somebody overtook since its load.
Overtaken(i) ==
  \E w \in Writers \ calm : id[w] = i /\ pc[w] = "update" /\ rows'[i] = row[w]

\* A deployment has no date to compare, so laterStatus is all it has: its end
\* is undone only by a writer that merged against a row since replaced, never
\* by a late or degraded reading alone.
UndoneOnlyByRace ==
  [][\A i \in Ids \ pipelines : StaysSettled(i) \/ Overtaken(i)]_vars

\* The copy r of a run was true of it at r's date: it is no more settled than
\* the provider then was, and settled if the provider has not moved since it
\* settled.
HonestRun(pr, r) == r.exists =>
  /\ r.updatedAt <= pr.updatedAt
  /\ Settled(pr.status) /\ r.updatedAt = pr.updatedAt => Settled(r.status)
  /\ Settled(r.status) => Settled(pr.status) /\ r.updatedAt = pr.updatedAt

\* The inductive invariant behind SettledStays, when a run
\* has one life: a settled copy carries the date of the run's end, which is its
\* last, and so does every copy that may overwrite it.
EveryRunHonest ==
  /\ \A i \in pipelines : HonestRun(prov[i], rows[i]) /\ prov[i].updatedAt <= now
  /\ \A w \in Writers : id[w] \in pipelines =>
       HonestRun(prov[id[w]], reading[w]) /\ HonestRun(prov[id[w]], row[w])

\* A reading taken and written while nothing else moved leaves the row with the
\* provider's status, whatever the races before it had left there.
RepairedByReading ==
  [][\A w \in quiet : pc[w] \in {"update", "create"} /\ rows' # rows
        /\ rows'[id[w]] = row[w]
        => rows'[id[w]].status = prov[id[w]].status]_vars

\* What one feed knows and the other does not report is not blanked, a race
\* between two writers excepted (`incoming ?? stored` of the merge).
NeverBlanked ==
  [][\A i \in Ids : rows[i].exists /\ rows[i].url /\ rows'[i].exists =>
        rows'[i].url \/ Overtaken(i)]_vars
============================================================================
