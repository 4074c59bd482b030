---------------------------- MODULE DoraMetrics ----------------------------
(***************************************************************************)
(* The DORA figures (dora/dora-metrics.ts), how slices are folded into one *)
(* (aggregate.ts, trend.ts) and how a period is cut (series.ts), as        *)
(* DoraService.computeOver puts them together.  Deployments, merged pull   *)
(* requests and incidents happen; every figure is computed over what has   *)
(* happened.                                                               *)
(*                                                                         *)
(* One repository: the correlation never crosses two.  An environment is   *)
(* the combination its rules give it; a combination is an environment, and *)
(* an incident's labels name one.  A rate is kept as the pair it divides.  *)
(***************************************************************************)
EXTENDS Integers, FiniteSets, SequencesExt, FiniteSetsExt

CONSTANTS
  Environments, Components,  \* what the rules extract
  MaxTime, MaxDeployments, MaxPrs, MaxIncidents,
  FailureSources,            \* the settings under study
  DAY                        \* DAY_MS

VARIABLES
  now,
  deployments,    \* DeploymentEvent, by its place in the listing
  prs,            \* MergedPrEvent
  incidents,      \* IncidentEvent
  failureSource   \* the setting, read once
vars == <<now, deployments, prs, incidents, failureSource>>

None == "none"
Tickets == {"t1"}
Instants == 1 .. MaxTime

\* toDeploymentEvents: what is neither a success nor a failure is "other".
toEventStatus(status) == IF status \in {"success", "failed"} THEN status ELSE "other"

Init ==
  /\ now = 1
  /\ deployments = <<>> /\ prs = <<>> /\ incidents = <<>>
  /\ failureSource \in FailureSources

Tick ==
  /\ now < MaxTime
  /\ now' = now + 1
  /\ UNCHANGED <<deployments, prs, incidents, failureSource>>
Deployed(env, status, component) ==
  /\ Len(deployments) < MaxDeployments
  /\ deployments' = Append(deployments,
       [env |-> env, status |-> toEventStatus(status), component |-> component, at |-> now])
  /\ UNCHANGED <<now, prs, incidents, failureSource>>
Merged(component, tickets) ==
  /\ Len(prs) < MaxPrs
  /\ prs' = Append(prs, [component |-> component, tickets |-> tickets, at |-> now])
  /\ UNCHANGED <<now, deployments, incidents, failureSource>>
Opened(env, tickets) ==
  /\ Len(incidents) < MaxIncidents
  /\ incidents' = Append(incidents,
       [env |-> env, tickets |-> tickets, at |-> now, resolved |-> 0])
  /\ UNCHANGED <<now, deployments, prs, failureSource>>
Resolved(i) ==
  /\ i \in DOMAIN incidents /\ incidents[i].resolved = 0
  /\ incidents' = [incidents EXCEPT ![i].resolved = now]
  /\ UNCHANGED <<now, deployments, prs, failureSource>>

Next ==
  \/ Tick
  \/ \E e \in Environments, s \in {"success", "failed", "running"}, c \in Components \cup {None} :
       Deployed(e, s, c)
  \/ \E c \in Components \cup {None}, t \in SUBSET Tickets : Merged(c, t)
  \/ \E e \in Environments, t \in SUBSET Tickets : Opened(e, t)
  \/ \E i \in DOMAIN incidents : Resolved(i)
Spec == Init /\ [][Next]_vars

----------------------------------------------------------------------------
(* Which deployment carried which request.                                 *)

Successes == {d \in DOMAIN deployments : deployments[d].status = "success"}
\* successTimeline's lists: oldest first, the listing's order within an instant.
Timeline(D) ==
  SetToSortSeq(D, LAMBDA x, y : \/ deployments[x].at < deployments[y].at
                                \/ deployments[x].at = deployments[y].at /\ x < y)
\* Mutant: the search gives up the instant of the merge itself.
firstAfter_Strictly(times, at) ==
  LET search[low \in 0 .. Len(times), high \in 0 .. Len(times)] ==
        IF low >= high THEN low
        ELSE LET mid == (low + high) \div 2
             IN  IF times[mid + 1] <= at THEN search[mid + 1, high] ELSE search[low, mid]
  IN  search[0, Len(times)] + 1

\* firstAfter: the index of the oldest entry not older than `at`, past the end
\* when there is none.
firstAfter(times, at) ==
  LET search[low \in 0 .. Len(times), high \in 0 .. Len(times)] ==
        IF low >= high THEN low
        ELSE LET mid == (low + high) \div 2
             IN  IF times[mid + 1] < at THEN search[mid + 1, high] ELSE search[low, mid]
  IN  search[0, Len(times)] + 1

Landing(D, at) ==
  LET timeline == Timeline(D)
      n == firstAfter([i \in DOMAIN timeline |-> deployments[timeline[i]].at], at)
  IN  IF n > Len(timeline) THEN 0 ELSE timeline[n]
earlier(a, b) ==
  IF a = 0 THEN b ELSE IF b = 0 THEN a
  ELSE IF deployments[a].at <= deployments[b].at THEN a ELSE b

\* carriedBy: one landing per environment; a request that states a component
\* looks among its releases and among those that state none.
LandingIn(env, pr, componentKey) ==
  LET all == {d \in Successes : deployments[d].env = env}
      stating(c) == {d \in all : deployments[d].component = c}
  IN  IF ~componentKey \/ pr.component = None THEN Landing(all, pr.at)
      ELSE earlier(Landing(stating(pr.component), pr.at), Landing(stating(None), pr.at))
carriedBy(pr, componentKey) ==
  {LandingIn(e, pr, componentKey) : e \in Environments} \ {0}

\* The reference: silence on either side falls back on repository and time.
sameComponent(pr, d) ==
  pr.component = None \/ deployments[d].component \in {None, pr.component}

\* deploymentCarrying: where the change landed first.
Earliest(landings) ==
  IF landings = {} THEN 0
  ELSE CHOOSE d \in landings : \A o \in landings :
         \/ deployments[d].at < deployments[o].at
         \/ deployments[d].at = deployments[o].at /\ d <= o
deploymentCarrying(pr) == Earliest(carriedBy(pr, TRUE))

\* The last request that names a ticket, and was carried, decides its carrier.
LastNaming(carrying, ticket) ==
  LET naming == {p \in DOMAIN prs : ticket \in prs[p].tickets /\ carrying[p] # 0}
  IN  IF naming = {} THEN 0 ELSE carrying[Max(naming)]
Carrier(ticket) == LastNaming([p \in DOMAIN prs |-> deploymentCarrying(prs[p])], ticket)
\* incidentsByDeployment: an incident goes to the first of its tickets whose
\* carrier was out before it opened.
OneOf(D) == IF D = {} THEN 0 ELSE CHOOSE d \in D : TRUE
Linked(i) ==
  OneOf({d \in {Carrier(t) : t \in incidents[i].tickets} \ {0} :
           deployments[d].at <= incidents[i].at})

componentMismatches ==
  {p \in DOMAIN prs : /\ prs[p].component # None
                      /\ carriedBy(prs[p], TRUE) = {}
                      /\ carriedBy(prs[p], FALSE) # {}}

----------------------------------------------------------------------------
(* The figures.                                                            *)

Known == {d \in DOMAIN deployments : deployments[d].status # "other"}
In(D, env) == {d \in D : deployments[d].env = env}
\* Incidents no deployment is blamed for: they stay in their own slice.
Unattributed(env) == {i \in DOMAIN incidents : incidents[i].env = env /\ Linked(i) = 0}

deploymentFrequency == [e \in Environments |-> Cardinality(In(Successes, e))]

\* Mutant: an incident that was attributed still counts in its own slice.
Related_Twice(env, D) ==
  {i \in DOMAIN incidents : Linked(i) \in D \/ incidents[i].env = env}

\* The incidents of a slice: those linked to its deployments, and its own.
Related(env, D) == {i \in DOMAIN incidents : Linked(i) \in D} \cup Unattributed(env)

\* changeFailureRate: only a slice that deployed has one.
Failures(env) ==
  LET items == In(Known, env)
      failed == {d \in items : deployments[d].status = "failed"}
  IN  [deploys |-> IF failureSource = "incidents" THEN {} ELSE failed,
       incidents |-> IF failureSource = "pipelines" THEN {} ELSE Related(env, items)]
Rated == {e \in Environments : In(Known, e) # {}}
orphanIncidents == UNION {Unattributed(e) : e \in Environments \ Rated}

\* mttr: the restores of a slice, each with what it restored.
RestoredBy(d) ==
  LET later == {o \in In(Successes, deployments[d].env) :
                  \/ deployments[o].at > deployments[d].at
                  \/ deployments[o].at = deployments[d].at /\ o > d}
  IN  IF later = {} THEN 0 ELSE Head(Timeline(later))
mttr(env) ==
  LET deploys == IF failureSource = "incidents" THEN {} ELSE In(DOMAIN deployments, env)
      related == IF failureSource = "pipelines" THEN {} ELSE Related(env, deploys)
  IN  [deploys |-> {d \in deploys : deployments[d].status = "failed" /\ RestoredBy(d) # 0},
       incidents |-> {i \in related : incidents[i].resolved # 0}]

clamp(n) == IF n < 0 THEN 0 ELSE n
\* deployTime: a sample per landing, under the landing's own combination.
deployTime(env) ==
  LET landings == {x \in (DOMAIN prs) \X In(Successes, env) : x[2] \in carriedBy(prs[x[1]], TRUE)}
  IN  {[pr |-> x[1], took |-> clamp(deployments[x[2]].at - prs[x[1]].at)] : x \in landings}

\* computeOver: one correlation, read by every figure, and the two ways a
\* slice goes missing.
computeOver ==
  [frequency  |-> deploymentFrequency,
   rate       |-> [e \in Rated |-> Failures(e)],
   mttr       |-> [e \in Environments |-> mttr(e)],
   deployTime |-> [e \in Environments |-> deployTime(e)],
   orphans    |-> orphanIncidents,
   mismatched |-> componentMismatches]

----------------------------------------------------------------------------
(* Folding.                                                                *)

\* Twice the median, so that it stays an integer; measured asks for it only
\* where there is something to measure.
median(values) ==
  LET sorted == SortSeq(values, <)
      mid == Len(sorted) \div 2
  IN  IF values = <<>> THEN 0
      ELSE IF Len(sorted) % 2 = 0 THEN sorted[mid] + sorted[mid + 1] ELSE 2 * sorted[mid + 1]
measured(samples) == IF samples = <<>> THEN {} ELSE {median(samples)}
\* leadTimeBreakdown: a segment that cannot be measured has no sample.
leadTimeBreakdown(pr) ==
  [coding |-> IF pr.commit = 0 THEN {} ELSE measured(<<clamp(pr.opened - pr.commit)>>),
   lead   |-> IF pr.commit = 0 THEN {} ELSE measured(<<clamp(pr.merged - pr.commit)>>),
   pickup |-> IF pr.review = 0 THEN {} ELSE measured(<<clamp(pr.review - pr.opened)>>),
   review |-> IF pr.review = 0 THEN {} ELSE measured(<<clamp(pr.merged - pr.review)>>)]
\* foldValue: rates add up, durations take one median of everything measured.
foldValue(unit, results) ==
  IF unit = "per_day" THEN FoldSeq(LAMBDA r, n : r.value + n, 0, results)
  ELSE median(FlattenSeq([i \in DOMAIN results |-> results[i].population]))
\* foldTrend: the last capture of a day stands for it, per combination.
foldTrend(rows, day) ==
  LET of(c) == {i \in DOMAIN rows : rows[i].day = day /\ rows[i].combination = c}
      last(c) == CHOOSE i \in of(c) : \A j \in of(c) :
                   \/ rows[j].at < rows[i].at
                   \/ rows[j].at = rows[i].at /\ j <= i
      combinations == {rows[i].combination : i \in {j \in DOMAIN rows : rows[j].day = day}}
  IN  MapThenSumSet(LAMBDA c : rows[last(c)].value, combinations)

\* Math.round(from + i * span / count).
SliceStart(from, i, span, count) == from + ((2 * i * span + count) \div (2 * count))

\* sliceRange: consecutive, never finer than a day, the last one ending on the
\* period's own bound.
sliceRange(from, to, maxSlices) ==
  LET span == to - from
      count == Max({1, Min({maxSlices, span \div DAY})})
  IN  IF maxSlices < 1 \/ span <= 0 THEN <<>>
      ELSE [i \in 1 .. count |->
              [from |-> SliceStart(from, i - 1, span, count),
               to |-> IF i = count THEN to ELSE SliceStart(from, i, span, count) - 1]]

\* resolvePeriod: an explicit start, or a window back from the end; an
\* inverted one is refused.
resolvePeriod(from, to, window) ==
  LET start == IF from = 0 THEN to - window ELSE from
  IN  IF start > to THEN {} ELSE {[from |-> start, to |-> to]}
within(at, period) == period.from <= at /\ at <= period.to

\* snapshotsMatching: a reading is stored under a whole combination, a set of
\* key and value pairs here, and matches every filter the combination contains.
snapshotsMatching(rows, filter, period) ==
  SelectSeq(rows, LAMBDA r : filter \subseteq r.combination /\ within(r.at, period))
\* series: a point for every day that has a reading.
series(rows, filter, period) ==
  LET of == snapshotsMatching(rows, filter, period)
  IN  [day \in {of[i].day : i \in DOMAIN of} |-> foldTrend(of, day)]

----------------------------------------------------------------------------
(* The report, read on the deployment frequency: how many, and which.      *)

\* matchesDimensions: no filter keeps every combination.
Matching(filter) == IF filter = None THEN Environments ELSE {filter}
\* The population of a reading: build, over a period, before any fold.
Population(env, period) == {d \in In(Successes, env) : within(deployments[d].at, period)}
\* report: the combinations of the slice folded into one reading.
report(filter, period) ==
  MapThenSumSet(LAMBDA e : Cardinality(Population(e, period)), Matching(filter))
\* reportOverTime: the same gathering, folded over each slice of the period.
reportOverTime(filter, period, maxPoints) ==
  LET slices == sliceRange(period.from, period.to, maxPoints)
  IN  [s \in DOMAIN slices |-> report(filter, slices[s])]
\* samples: a page of the events behind a reading, newest first.
samples(filter, period, offset, limit) ==
  LET events == Reverse(Timeline(UNION {Population(e, period) : e \in Matching(filter)}))
  IN  SubSeq(events, offset + 1, Min({offset + limit, Len(events)}))

----------------------------------------------------------------------------
(* Properties.                                                             *)

\* What is about the operators alone is asked once, before anything happens.
Blank == now = 1 /\ deployments = <<>> /\ prs = <<>> /\ incidents = <<>>

\* The index finds what the walk it replaced found: per environment, the
\* oldest success since the merge that speaks of the same deployable.
CarriedAsWalked ==
  \A p \in DOMAIN prs, e \in Environments :
    LET d == LandingIn(e, prs[p], TRUE)
        walked == {o \in Successes : /\ deployments[o].env = e /\ deployments[o].at >= prs[p].at
                                     /\ sameComponent(prs[p], o)}
    IN  /\ d = 0 <=> walked = {}
        /\ d # 0 => d \in walked /\ \A o \in walked : deployments[d].at <= deployments[o].at

\* No incident is counted twice and none goes missing: it is a failure of one
\* slice that deployed, or it is reported as having none.
IncidentsCountedOnce ==
  failureSource # "pipelines" =>
    \A i \in DOMAIN incidents :
      Cardinality({e \in Rated : i \in Failures(e).incidents})
        + (IF i \in orphanIncidents THEN 1 ELSE 0) = 1

\* Every instant of a period is in one slice, and the slices are in order.
SlicesPartition ==
  Blank => \A from \in 0 .. 2, length \in 1 .. 14, n \in 1 .. 5 :
    LET slices == sliceRange(from, from + length, n)
    IN  /\ Len(slices) <= n
        /\ \A at \in from .. from + length :
             Cardinality({s \in DOMAIN slices : within(at, slices[s])}) = 1

\* A fold over slices is the figure over everything: half of what was measured
\* is on either side of it.
MedianIsCentral ==
  Blank => \A s \in UNION {[1 .. n -> 0 .. 3] : n \in 1 .. 4} :
    LET fold == foldValue("seconds", <<[population |-> s, value |-> 0]>>)
    IN  /\ 2 * Cardinality({i \in DOMAIN s : 2 * s[i] <= fold}) >= Len(s)
        /\ 2 * Cardinality({i \in DOMAIN s : 2 * s[i] >= fold}) >= Len(s)

\* A request that time alone would have paired has a deploy time, or is named
\* as the one the component test left with nothing.
NothingEmptiesSilently ==
  \A p \in DOMAIN prs : (\E d \in Successes : deployments[d].at >= prs[p].at) =>
    \/ \E e \in Environments : \E s \in deployTime(e) : s.pr = p
    \/ p \in componentMismatches

\* The segments of a lead time add up to it, wherever all of them are known
\* and the dates are in order.
SegmentsAddUp ==
  Blank => \A pr \in [commit : 0 .. 2, opened : 1 .. 3, review : {0, 2, 3}, merged : {3}] :
    LET b == leadTimeBreakdown(pr)
    IN  /\ b.lead = {} <=> pr.commit = 0
        /\ (pr.commit # 0 /\ pr.commit <= pr.opened /\ pr.opened <= pr.review) =>
             \A c \in b.coding, p \in b.pickup, r \in b.review : b.lead = {c + p + r}

\* A day's point is what its last captures say, in whatever order the rows were
\* inserted: which is what makes a replay safe to run twice.
TrendIgnoresInsertion ==
  Blank => \A values \in [1 .. 3 -> 1 .. 2], combos \in [1 .. 3 -> {"a", "b"}] :
    \A p \in SetToAllKPermutations(1 .. 3) : Len(p) = 3 =>
      foldTrend([i \in 1 .. 3 |-> [day |-> 1, at |-> i, value |-> values[i], combination |-> combos[i]]], 1)
      = foldTrend([i \in 1 .. 3 |-> [day |-> 1, at |-> p[i], value |-> values[p[i]], combination |-> combos[p[i]]]], 1)

\* The lines of a rate add up: the unfiltered one is, day by day, the sum of
\* those of the values of a key every combination has; and a period that opens
\* on a day's own start changes no point of it.
SeriesAddUp ==
  Blank =>
    LET client(c) == {<<"client", c>>}
        combinations == {client("x"), client("y"), client("x") \cup {<<"type", "prod">>}}
        readings == {[day |-> at \div 3, at |-> at, value |-> v, combination |-> c] :
                       at \in 1 .. 4, v \in 1 .. 2, c \in combinations}
        from(at) == [from |-> at, to |-> 4]
        Point(points, day) == IF day \in DOMAIN points THEN points[day] ELSE 0
    IN  \A rows \in [1 .. 3 -> readings] :
          LET whole == series(rows, {}, from(1))
          IN  \A day \in 0 .. 1 :
                /\ Point(whole, day) = Point(series(rows, client("x"), from(1)), day)
                                      + Point(series(rows, client("y"), from(1)), day)
                /\ day = 1 => Point(whole, day) = Point(series(rows, {}, from(3)), day)

\* A reading, the line beside it and the list behind it are about the same
\* events: the points of a count add up to it however the period is cut, and
\* its pages list every event it counts, once, newest first.
ReadingIsAudited ==
  prs = <<>> /\ incidents = <<>> =>
  \A filter \in Environments \cup {None}, from \in -4 .. 0 :
    LET period == [from |-> from, to |-> from + 6]
        pages == FlattenSeq([n \in 1 .. MaxDeployments + 1 |-> samples(filter, period, n - 1, 1)])
    IN  /\ \A points \in 1 .. 2 :
             FoldSeq(LAMBDA n, total : n + total, 0, reportOverTime(filter, period, points))
               = report(filter, period)
        /\ Len(pages) = report(filter, period)
        /\ IsInjective(pages)
        /\ \A i, j \in DOMAIN pages : i < j => deployments[pages[i]].at >= deployments[pages[j]].at

FiguresAreSound ==
  /\ CarriedAsWalked /\ NothingEmptiesSilently /\ SegmentsAddUp /\ TrendIgnoresInsertion
  /\ SeriesAddUp /\ ReadingIsAudited
  /\ IncidentsCountedOnce /\ SlicesPartition /\ MedianIsCentral

\* "Same attribution as the failure rate, so both read the same incidents":
\* a resolved incident that is a failure of some slice is a restore of one.
BothReadTheSameIncidents ==
  LET figures == computeOver
  IN  \A e \in Rated : \A i \in figures.rate[e].incidents :
        incidents[i].resolved # 0 => \E f \in Environments : i \in figures.mttr[f].incidents
=============================================================================
