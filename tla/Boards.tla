------------------------------- MODULE Boards -------------------------------
(***************************************************************************)
(* The overview of a source: deployments read over a period and, at a later *)
(* instant, the most recent ones of every repository; both classified,      *)
(* filtered, then folded into one row per environment.  The board is the    *)
(* period's, the matrix is what stands now, the journal is the recent past. *)
(* A listing that fails becomes a warning and an empty list.                *)
(***************************************************************************)
EXTENDS Integers, Sequences, FiniteSets, SequencesExt

CONSTANTS
  Repos, Environments, Values,
  Declarable,             \* the environments somebody may have written down
  DEPLOYMENTS_PER_REPO,   \* the cap of an unbounded reading, per repository
  EVENT_WINDOW,           \* how far back the journal reaches
  MaxTime, MaxDeployments, MaxFaults

VARIABLES
  stored,     \* the deployments of the source, by the date of their arrival
  label,      \* what the rules say of an environment deployed from a repository
  declared,   \* the environments written down by hand, and what they are
  synced,     \* the source was collected once
  now,
  report,     \* the report being put together
  faults

vars == <<stored, label, declared, synced, now, report, faults>>

UNCLASSIFIED == ""
Labels == Values \cup {UNCLASSIFIED}
Never == -1

NoReport ==
  [step |-> "none", from |-> 0, repos |-> {}, only |-> {},
   deployments |-> <<>>, latest |-> <<>>, warned |-> FALSE, quiet |-> TRUE]

Init ==
  /\ stored = <<>>
  /\ label \in [Repos \X Environments -> Labels]
  /\ declared \in UNION {[E -> Values] : E \in SUBSET Declarable}
  /\ synced = FALSE
  /\ now = 1
  /\ report = NoReport
  /\ faults = 0

\* A deployment reaches the store, possibly long after it happened.  A report
\* changes nothing, so a behaviour ends with the one it puts together.
Arrive(repo, env, at) ==
  /\ report.step # "done"
  /\ Len(stored) < MaxDeployments
  /\ at <= now
  /\ stored' = Append(stored, [id |-> Len(stored) + 1, repo |-> repo, environment |-> env, at |-> at])
  /\ synced' = TRUE
  /\ report' = [report EXCEPT !.quiet = FALSE]
  /\ UNCHANGED <<label, declared, now, faults>>

Tick ==
  /\ report.step # "done"
  /\ now < MaxTime
  /\ now' = now + 1
  /\ report' = [report EXCEPT !.quiet = FALSE]
  /\ UNCHANGED <<stored, label, declared, synced, faults>>

-----------------------------------------------------------------------------
newestFirst(a, b) == a.at > b.at \/ (a.at = b.at /\ a.id > b.id)
Read(S) == SetToSortSeq(S, newestFirst)
Rows == ToSet(stored)

\* Bounded by a date, every deployment of the window; unbounded, the most
\* recent of each repository.
readDeployments(repos, since) ==
  IF since # Never
  THEN Read({d \in Rows : d.repo \in repos /\ d.at >= since})
  ELSE Read({d \in Rows : d.repo \in repos /\
               Cardinality({e \in Rows : e.repo = d.repo /\ newestFirst(e, d)}) < DEPLOYMENTS_PER_REPO})

\* Some repository has more deployments than an unbounded reading returns.
Capped(repos) == \E r \in repos : Cardinality({d \in Rows : d.repo = r}) > DEPLOYMENTS_PER_REPO

\* An empty or absent selection means every repository.
filterRepos(all, wanted) == IF wanted = {} THEN all ELSE all \cap wanted

\* A mutation: the period decides alone how far back to read.
readFrom_Period(from) == from

\* The journal covers the recent past whatever the period is.
readFrom(from) == IF now - EVENT_WINDOW < from THEN now - EVENT_WINDOW ELSE from

\* The period is settled before anything is read.
startReport(only, from) ==
  /\ report.step = "none"
  /\ report' = [NoReport EXCEPT !.step = "repos", !.only = only, !.from = from]
  /\ UNCHANGED <<stored, label, declared, synced, now, faults>>

\* A listing that fails costs its own list and is said to have failed.
safe(list, read, next) ==
  \/ /\ report' = [report EXCEPT ![list] = read, !.step = next]
     /\ UNCHANGED faults
  \/ /\ faults < MaxFaults
     /\ faults' = faults + 1
     /\ report' = [report EXCEPT !.warned = TRUE, !.step = next]

listRepositories ==
  /\ report.step = "repos"
  /\ safe("repos", filterRepos(Repos, report.only), "deployments")
  /\ UNCHANGED <<stored, label, declared, synced, now>>

listDeployments ==
  /\ report.step = "deployments"
  /\ safe("deployments", readDeployments(report.repos, readFrom(report.from)), "latest")
  /\ UNCHANGED <<stored, label, declared, synced, now>>

\* What runs now, read after the window; and a board never filled says so.
listRunning ==
  /\ report.step = "latest"
  /\ \/ /\ report' = [report EXCEPT !.latest = readDeployments(report.repos, Never), !.step = "done",
                                    !.warned = @ \/ ~synced]
        /\ UNCHANGED faults
     \/ /\ faults < MaxFaults
        /\ faults' = faults + 1
        /\ report' = [report EXCEPT !.warned = TRUE, !.step = "done"]
  /\ UNCHANGED <<stored, label, declared, synced, now>>

Next ==
  \/ \E r \in Repos, e \in Environments, at \in 1..MaxTime : Arrive(r, e, at)
  \/ Tick
  \/ \E only \in {{}} \cup {{r} : r \in Repos}, from \in 1..MaxTime : from <= now /\ startReport(only, from)
  \/ listRepositories
  \/ listDeployments
  \/ listRunning

Spec == Init /\ [][Next]_vars

-----------------------------------------------------------------------------
\* What the report shows, once everything is read: under the filter f, up to
\* the date to.

attributesOf(d) == label[<<d.repo, d.environment>>]

matches(f, value) == f = UNCLASSIFIED \/ value = f

within(d, to) == report.from <= d.at /\ d.at <= to

\* A mutation: what is missing from one repository is a disagreement.
agreedAttributes_Silence(items) ==
  LET said == {attributesOf(items[i]) : i \in DOMAIN items}
  IN IF Cardinality(said) = 1 THEN CHOOSE v \in said : TRUE ELSE UNCLASSIFIED

\* What the deployments say, minus what they disagree about: a contradicted
\* claim never comes back.
agreedAttributes(items) ==
  LET claim(held, d) ==
        IF attributesOf(d) = UNCLASSIFIED THEN held
        ELSE IF ~held.said THEN [said |-> TRUE, value |-> attributesOf(d)]
        ELSE IF held.value = attributesOf(d) THEN held
        ELSE [said |-> TRUE, value |-> UNCLASSIFIED]
  IN FoldLeft(claim, [said |-> FALSE, value |-> UNCLASSIFIED], items).value

\* The declared environments that no deployment accounts for.
declaredRows(decl, names) ==
  {[name |-> n, attributes |-> decl[n], repos |-> {}, deployments |-> 0, lastDeployAt |-> Never, declared |-> TRUE] :
     n \in DOMAIN decl \ names}

byLastDeploy(a, b) == a.lastDeployAt > b.lastDeployAt

\* One row per environment name, whatever its repositories; the declared ones
\* come last.
foldEnvironments(items, decl) ==
  LET names == {items[i].environment : i \in DOMAIN items}
      of(n) == SelectSeq(items, LAMBDA d : d.environment = n)
      row(n) ==
        [name |-> n, attributes |-> agreedAttributes(of(n)), repos |-> {d.repo : d \in ToSet(of(n))},
         deployments |-> Len(of(n)), lastDeployAt |-> of(n)[1].at, declared |-> FALSE]
  IN SetToSortSeq({row(n) : n \in names} \cup declaredRows(decl, names), byLastDeploy)

NoneDeclared == [e \in {} |-> UNCLASSIFIED]

\* Filtered as deployments, then folded.
matching(f) == SelectSeq(report.deployments, LAMBDA d : matches(f, attributesOf(d)))
environments(f, to) == foldEnvironments(SelectSeq(matching(f), LAMBDA d : within(d, to)), NoneDeclared)
running(f) ==
  foldEnvironments(SelectSeq(report.latest, LAMBDA d : matches(f, attributesOf(d))),
                   [e \in {n \in DOMAIN declared : matches(f, declared[n])} |-> declared[e]])
vocabulary == {attributesOf(d) : d \in ToSet(report.deployments) \cup ToSet(report.latest)} \ {UNCLASSIFIED}
events(f) == SelectSeq(matching(f), LAMBDA d : d.at >= now - EVENT_WINDOW)

-----------------------------------------------------------------------------
\* A row claims a value exactly when some deployment of it says so and none
\* says otherwise.
RowsAgree(f, to) ==
  LET says(n, v) == \E d \in ToSet(matching(f)) : within(d, to) /\ d.environment = n /\ attributesOf(d) = v
  IN \A row \in ToSet(environments(f, to)), v \in Values :
       row.attributes = v <=> says(row.name, v) /\ \A w \in Values \ {v} : ~says(row.name, w)

\* Every value on a row is one the filter offers.
ValuesAreOffered(f, to) ==
  \A row \in ToSet(environments(f, to)) \cup ToSet(running(f)) :
    row.attributes \in vocabulary \cup {UNCLASSIFIED} \/ row.declared

\* An environment of the period also stands now, and no older.
PeriodStands(f, to) ==
  \A row \in ToSet(environments(f, to)) : \E other \in ToSet(running(f)) :
    other.name = row.name /\ other.lastDeployAt >= row.lastDeployAt

\* The board counts every deployment of the period, the journal misses none.
NothingMissed(f, to) ==
  LET inScope == {d \in Rows : d.repo \in filterRepos(Repos, report.only) /\ matches(f, attributesOf(d))}
      counted(n) == {d \in inScope : d.environment = n /\ within(d, to)}
  IN /\ {<<row.name, row.deployments>> : row \in ToSet(environments(f, to))}
           = {<<n, Cardinality(counted(n))>> : n \in {m \in Environments : counted(m) # {}}}
     /\ ToSet(events(f)) = {d \in inScope : d.at >= now - EVENT_WINDOW}

\* A finished report is what the store holds, whatever filter is laid over it:
\* rows claim what their deployments agree on and only what the filter offers,
\* even when deployments arrived between its readings; what it reports over the
\* period also stands now, unless a repository has more deployments than an
\* unbounded reading returns; and when nothing arrived meanwhile it misses
\* nothing.  A failed listing may cost all of that, and is then said to have
\* failed (overview.service.ts:68-128, dashboard.service.ts:124-220,
\* environments.ts:44-80).
ReportIsTheStores ==
  report.step = "done" =>
    \A f \in Labels, to \in report.from..MaxTime :
      /\ RowsAgree(f, to)
      /\ ValuesAreOffered(f, to)
      /\ ~report.warned /\ ~Capped(report.repos) => PeriodStands(f, to)
      /\ ~report.warned /\ report.quiet => NothingMissed(f, to)

\* The environments as they stand, whatever the period
\* (packages/shared/src/index.ts:2101-2107): what is live is on the matrix
\* however long ago it was deployed.
RunningStands ==
  report.step = "done" /\ ~report.warned /\ report.quiet /\ report.only = {} =>
    {row.name : row \in ToSet(running(UNCLASSIFIED))} = {d.environment : d \in Rows} \cup DOMAIN declared

=============================================================================
