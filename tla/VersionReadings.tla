--------------------------- MODULE VersionReadings ---------------------------
(***************************************************************************)
(* What each environment runs, as the program reads and files it: the      *)
(* scheduled probe of every environment that is due, the probe a           *)
(* deployment event asks for through a queue of its own, the walk over the *)
(* rules that may answer, and the three tables one reading is written to.  *)
(* Two readings of one environment may overlap, and `record` reads the     *)
(* row it compares with before the transaction that replaces it.           *)
(***************************************************************************)
EXTENDS Naturals, Sequences, FiniteSets

CONSTANTS Envs,           \* the (repo, environment) pairs, in listing order
          Claimed,        \* those some version rule claims
          Rules,          \* the rules, in declared order
          Versions,       \* what an environment may answer
          Batch,          \* PROBE_BATCH
          MaxDeployments  \* bound: deployments per environment

VARIABLES
  app,      \* the application: what it serves, what the last deployment ships
  latest,   \* the latest successful deployment the store lists, 0 for none
  row,      \* EnvironmentVersion: the current row of each environment
  newest,   \* VersionChange: the newest version of the timeline
  frozen,   \* DeploymentVersion: the reading kept for each deployment
  job,      \* the BullMQ job under the environment's id
  ask,      \* enqueueProbe on behalf of a deployment event
  reader    \* the readings under way

vars == <<app, latest, row, newest, frozen, job, ask, reader>>

None == "none"
Pairs == {Envs[i] : i \in DOMAIN Envs}
RuleIds == {Rules[i] : i \in DOMAIN Rules}
Deployments == 0 .. MaxDeployments
Statuses == {"ok", "noMatch", "unreachable", "skipped"}
Readers == {"run", "job"}
RunReaders == Readers \ {"job"}

\* No reading yet: no row in EnvironmentVersion.
NoRow == [read |-> FALSE, version |-> None, dep |-> 0, rule |-> None, due |-> TRUE]
NoJob == [state |-> "none", attempt |-> 0, retried |-> FALSE]
Quiet == [pc |-> "idle", dep |-> 0, prefers |-> None, status |-> "skipped",
          rule |-> None, version |-> None, held |-> None, stale |-> FALSE]

-----------------------------------------------------------------------------
\* The rule that last answered is tried first; the others keep their order.
preferring(rules, last) ==
  IF \E i \in DOMAIN rules : rules[i] = last
  THEN <<last>> \o SelectSeq(rules, LAMBDA r : r # last)
  ELSE rules

reach(answer) ==
  CASE answer \in {"wrongPage", "noVersion"} -> 2
    [] answer = "unreachable" -> 1
    [] OTHER -> 0

\* An answer that ends the walk: a version, or the right address whose
\* template reads nothing. Every other one tries the next rule.
Settles(answer) == answer \in {"ok", "noVersion"}

\* The attempt that is filed: the first that settles, else the first of those
\* that got furthest.
Filed(rules, answers) ==
  LET settling == {i \in DOMAIN rules : Settles(answers[rules[i]])}
      walked   == IF settling = {} THEN DOMAIN rules
                  ELSE {i \in DOMAIN rules : \A j \in settling : i <= j}
      best     == IF settling # {} THEN CHOOSE i \in settling : \A j \in settling : i <= j
                  ELSE CHOOSE i \in walked :
                         \A j \in walked : \/ reach(answers[rules[i]]) > reach(answers[rules[j]])
                                           \/ /\ reach(answers[rules[i]]) = reach(answers[rules[j]])
                                              /\ i <= j
  IN rules[best]

StatusOf(answer) ==
  CASE answer \in {"wrongPage", "noVersion"} -> "noMatch"
    [] OTHER -> answer

Answers == {"skipped", "unreachable", "wrongPage", "noVersion", "ok"}

-----------------------------------------------------------------------------
\* Which environments a run reads.

\* Due: never read, read against another deployment, or read long ago. A
\* forced run waits for no interval.
Due(e, force) ==
  \/ ~row[e].read
  \/ row[e].dep # latest[e]
  \/ row[e].due
  \/ force

\* Lower goes first: never read, then a deployment the last reading did not
\* see, then the stalest. Two levels of staleness: past the interval or not.
rank(e) ==
  IF ~row[e].read THEN 0
  ELSE IF row[e].dep # latest[e] THEN 1
  ELSE IF row[e].due THEN 2 ELSE 3

Position(e) == CHOOSE i \in DOMAIN Envs : Envs[i] = e

Before(a, b) ==
  \/ rank(a) < rank(b)
  \/ rank(a) = rank(b) /\ Position(a) < Position(b)

\* The targets of a run: the due environments, the first Batch of them by
\* rank. The sort is stable, so equal ranks keep the listing's order.
selectProbes(force) ==
  LET due == {e \in Pairs : Due(e, force)}
  IN {e \in due : Cardinality({o \in due : Before(o, e)}) < Batch}

-----------------------------------------------------------------------------
Init ==
  /\ app \in [Pairs -> {[serves |-> v, ships |-> v] : v \in Versions}]
  /\ latest = [e \in Pairs |-> 0]
  /\ row = [e \in Pairs |-> NoRow]
  /\ newest = [e \in Pairs |-> None]
  /\ frozen = [e \in Pairs |-> [d \in Deployments |-> None]]
  /\ job = [e \in Pairs |-> NoJob]
  /\ ask = [e \in Pairs |-> "idle"]
  /\ reader = [w \in Readers |-> [e \in Pairs |-> Quiet]]

\* A deployment succeeds: the store lists it, the application will restart on
\* what it ships, and its event may ask for a reading.
Deploy(e, v, heard) ==
  /\ latest[e] < MaxDeployments
  /\ ask[e] = "idle"
  /\ latest' = [latest EXCEPT ![e] = latest[e] + 1]
  /\ app' = [app EXCEPT ![e].ships = v]
  /\ ask' = IF heard THEN [ask EXCEPT ![e] = "check"] ELSE ask
  /\ UNCHANGED <<row, newest, frozen, job, reader>>

\* External: the application finishes restarting.
Restart(e) ==
  /\ app[e].serves # app[e].ships
  /\ app' = [app EXCEPT ![e].serves = app[e].ships]
  /\ UNCHANGED <<latest, row, newest, frozen, job, ask, reader>>

-----------------------------------------------------------------------------
\* isJobSettled: completed or failed. A job waiting out its delay, and one
\* being processed, are not.
Settled(state) == state \in {"none", "settled"}

\* enqueueProbe, first half: the job holding the id is looked up; one that is
\* not settled ends the call.
AskCheck(e) ==
  /\ ask[e] = "check"
  /\ ask' = [ask EXCEPT ![e] = IF Settled(job[e].state) THEN "add" ELSE "idle"]
  /\ UNCHANGED <<app, latest, row, newest, frozen, job, reader>>

\* Second half: a settled job is removed and the new one is added, delayed.
AskAdd(e) ==
  /\ ask[e] = "add"
  /\ ask' = [ask EXCEPT ![e] = "idle"]
  /\ job' = [job EXCEPT ![e] = [state |-> "delayed", attempt |-> 1, retried |-> FALSE]]
  /\ UNCHANGED <<app, latest, row, newest, frozen, reader>>

\* The settling delay is over and a worker takes the job: its target is
\* resolved now. Without a rule or a deployment there is nothing to read.
JobStart(e) ==
  /\ job[e].state = "delayed"
  /\ IF Rules # <<>> /\ e \in Claimed /\ latest[e] # 0
     THEN /\ job' = [job EXCEPT ![e].state = "active"]
          /\ reader' = [reader EXCEPT !["job"][e] =
                          [Quiet EXCEPT !.pc = "ask", !.dep = latest[e],
                                        !.prefers = row[e].rule]]
     ELSE /\ job' = [job EXCEPT ![e].state = "settled"]
          /\ UNCHANGED reader
  /\ UNCHANGED <<app, latest, row, newest, frozen, ask>>

\* probeSource: the targets are selected on the rows as they are, and every one
\* starts its walk. A target no rule claims is given up before anything is
\* written.
RunStart(w, force) ==
  LET targets == selectProbes(force)
  IN /\ \A e \in Pairs : reader[w][e].pc = "idle"
     /\ Rules # <<>>
     /\ targets \cap Claimed # {}
     /\ reader' = [reader EXCEPT ![w] =
          [e \in Pairs |->
             IF e \in targets \cap Claimed
             THEN [Quiet EXCEPT !.pc = "ask", !.dep = latest[e],
                                !.prefers = IF force THEN None ELSE row[e].rule]
             ELSE reader[w][e]]]
     /\ UNCHANGED <<app, latest, row, newest, frozen, job, ask>>

\* readOne's walk: each rule answers something, and one answer is kept. A rule
\* that reads a version reads what the application serves at that moment.
Ask(w, e, answers) ==
  LET rules == preferring(Rules, reader[w][e].prefers)
      kept  == Filed(rules, answers)
  IN /\ reader[w][e].pc = "ask"
     /\ reader' = [reader EXCEPT ![w][e] =
          [reader[w][e] EXCEPT !.pc = "lookup", !.rule = kept, !.prefers = None,
                               !.status = StatusOf(answers[kept]),
                               !.version = IF answers[kept] = "ok" THEN app[e].serves ELSE None]]
     /\ UNCHANGED <<app, latest, row, newest, frozen, job, ask>>

\* record, first half: the row held so far is read outside the transaction.
Lookup(w, e) ==
  /\ reader[w][e].pc = "lookup"
  /\ reader' = [reader EXCEPT ![w][e] =
       [reader[w][e] EXCEPT !.pc = "write", !.held = row[e].version, !.stale = FALSE]]
  /\ UNCHANGED <<app, latest, row, newest, frozen, job, ask>>

Changed_NotTheFirst(r) == r.version # None /\ r.held # None /\ r.version # r.held

\* A reading is news when it produced a version, and another one than the row
\* held.
Changed(r) == r.version # None /\ r.version # r.held

FrozenWrite_KeepsFirst(kept, r) == IF kept = None THEN r.version ELSE kept

\* frozenWrite: an upsert, so that a later reading of one deployment replaces
\* an earlier one.
FrozenWrite(kept, r) == r.version

\* record, second half: the transaction over the three tables. Other writes of
\* the pair that were between the two halves become stale ones. The processor
\* then asks for one more reading when the version has not moved, but its own
\* job still holds the id.
Write(w, e) ==
  LET r       == reader[w][e]
      changed == Changed(r)
      again   == w = "job" /\ r.status # "skipped" /\ ~changed /\ job[e].attempt < 2
  IN /\ r.pc = "write"
     /\ row' = [row EXCEPT ![e] = [read |-> TRUE, version |-> r.version, dep |-> r.dep,
                                   rule |-> r.rule, due |-> FALSE]]
     /\ newest' = IF changed THEN [newest EXCEPT ![e] = r.version] ELSE newest
     /\ frozen' = IF r.dep = 0 THEN frozen
                  ELSE [frozen EXCEPT ![e] =
                          [frozen[e] EXCEPT ![r.dep] = FrozenWrite(frozen[e][r.dep], r)]]
     /\ reader' = [x \in Readers |->
          IF x = w THEN [reader[x] EXCEPT ![e] = Quiet]
          ELSE IF reader[x][e].pc = "write"
               THEN [reader[x] EXCEPT ![e] = [reader[x][e] EXCEPT !.stale = TRUE]]
               ELSE reader[x]]
     /\ job' = IF w # "job" THEN job
               ELSE [job EXCEPT ![e] =
                       IF again /\ Settled(job[e].state)
                       THEN [state |-> "delayed", attempt |-> job[e].attempt + 1, retried |-> TRUE]
                       ELSE [state |-> "settled", attempt |-> job[e].attempt, retried |-> again]]
     /\ UNCHANGED <<app, latest, ask>>

\* PROBE_MIN_INTERVAL_MINUTES pass since the last reading.
Elapse(e) ==
  /\ row[e].read /\ ~row[e].due
  /\ row' = [row EXCEPT ![e].due = TRUE]
  /\ UNCHANGED <<app, latest, newest, frozen, job, ask, reader>>

Next ==
  \/ \E e \in Pairs : \/ \E v \in Versions, heard \in BOOLEAN : Deploy(e, v, heard)
                      \/ Restart(e)
                      \/ AskCheck(e)
                      \/ AskAdd(e)
                      \/ JobStart(e)
                      \/ Elapse(e)
                      \/ \E w \in Readers : \/ \E answers \in [RuleIds -> Answers] : Ask(w, e, answers)
                                            \/ Lookup(w, e)
                                            \/ Write(w, e)
  \/ \E w \in RunReaders, force \in BOOLEAN : RunStart(w, force)

Spec == Init /\ [][Next]_vars

\* The collection runs on its schedule, and every step of a reading ends: each
\* request has a timeout. A person's click is not relied on.
ReadOn(w, e) ==
  \/ \E answers \in [RuleIds -> Answers] : Ask(w, e, answers)
  \/ Lookup(w, e) \/ Write(w, e)
AskOn(e) == AskCheck(e) \/ AskAdd(e)

Fairness ==
  /\ \A w \in RunReaders : WF_vars(RunStart(w, FALSE))
  /\ \A w \in Readers, e \in Pairs : WF_vars(ReadOn(w, e))
  /\ \A e \in Pairs : WF_vars(AskOn(e)) /\ WF_vars(JobStart(e)) /\ WF_vars(Elapse(e))

FairSpec == Spec /\ Fairness

-----------------------------------------------------------------------------
TypeOK ==
  /\ app \in [Pairs -> [serves : Versions, ships : Versions]]
  /\ latest \in [Pairs -> Deployments]
  /\ row \in [Pairs -> [read : BOOLEAN, version : Versions \cup {None}, dep : Deployments,
                        rule : RuleIds \cup {None}, due : BOOLEAN]]
  /\ newest \in [Pairs -> Versions \cup {None}]
  /\ frozen \in [Pairs -> [Deployments -> Versions \cup {None}]]
  /\ job \in [Pairs -> [state : {"none", "delayed", "active", "settled"}, attempt : 0 .. 2,
                        retried : BOOLEAN]]
  /\ ask \in [Pairs -> {"idle", "check", "add"}]
  /\ reader \in [Readers -> [Pairs ->
       [pc : {"idle", "ask", "lookup", "write"}, dep : Deployments,
        prefers : RuleIds \cup {None}, status : Statuses, rule : RuleIds \cup {None},
        version : Versions \cup {None}, held : Versions \cup {None}, stale : BOOLEAN]]]

\* One request is told the same way by both tables: the reading kept for the
\* deployment a row names is the reading of that row, whatever overlapped.
RowAndFrozenAgree ==
  \A e \in Pairs : row[e].read /\ row[e].dep # 0 => frozen[e][row[e].dep] = row[e].version

\* Where the timeline does not end at the version the row displays.
Parted(e) == row[e].version # None /\ newest[e] # row[e].version

\* The timeline follows the row, through failed readings and first ones: the
\* two part only when a reading is written on a comparison another one made
\* obsolete, `existing` being read outside the transaction.
TimelinePartsOnlyByRace ==
  \A e \in Pairs : ~Parted(e) /\ Parted(e)' =>
    \E w \in Readers : reader[w][e].pc = "write" /\ reader[w][e].stale
                       /\ reader'[w][e].pc = "idle"

\* A deployment that lands on an environment some rule claims is read against,
\* by its event or by the scheduled run, unless another one replaces it first.
Current(e) == row[e].read /\ row[e].dep = latest[e]
EveryDeploymentRead == \A e \in Claimed : ~Current(e) ~> Current(e)

\* A job that says it asked for one more reading left one in the queue.
RetriedMeansQueued ==
  \A e \in Pairs : job[e].retried => job[e].state = "delayed" \/ job[e].attempt = 2
=============================================================================
