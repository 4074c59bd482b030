--------------------------- MODULE DeploymentList ---------------------------
(***************************************************************************)
(* The deployments page: the deployments of a period, filtered, windowed,   *)
(* each row with the version frozen against it or, failing that, with what  *)
(* its environment runs now; and the comparison of a deployment with what   *)
(* went out before it, filed once and answered from the archive after.      *)
(* Deployments go out, are probed and archived while the page is read; what *)
(* each environment ran before is a timeline, read a page at a time.        *)
(***************************************************************************)
EXTENDS Integers, Sequences, FiniteSets, SequencesExt

CONSTANTS
  Environments,
  Limit,            \* the rows of a page
  MaxDeployments, MaxTime,
  MaxClicks

VARIABLES
  deployments,   \* what went out, in the order the platform reports it
  now,
  frozen,        \* the deployments whose version was read for them
  current,       \* the deployment each environment was last read running
  timeline,      \* VersionChange: what each environment was seen to start running
  archive,       \* the predecessor filed for each deployment
  query,         \* what the page asks for
  page,          \* what it shows
  fresh,         \* nothing moved since the page was read
  clicks

vars == <<deployments, now, frozen, current, timeline, archive, query, page, fresh, clicks>>

Nothing == 0
NotFiled == -1
Statuses == {"success", "failed"}
Query(env, status, offset) == [environment |-> env, status |-> status, offset |-> offset]
Every == "any"
NoPage == [rows |-> <<>>, frozen |-> {}, current |-> [e \in Environments |-> Nothing], total |-> 0, offset |-> 0]
Ids == DOMAIN deployments

Init ==
  /\ deployments = <<>>
  /\ now = 1
  /\ frozen = {}
  /\ current = [e \in Environments |-> Nothing]
  /\ timeline = [e \in Environments |-> <<>>]
  /\ archive = <<>>
  /\ query = Query(Every, Every, 0)
  /\ page = NoPage
  /\ fresh = FALSE
  /\ clicks = 0

\* Two deployments may carry the same date.
Deploy(env, status, later) ==
  /\ Len(deployments) < MaxDeployments
  /\ now + later <= MaxTime
  /\ now' = now + later
  /\ deployments' = Append(deployments, [environment |-> env, status |-> status, at |-> now'])
  /\ archive' = Append(archive, NotFiled)
  /\ fresh' = FALSE
  /\ UNCHANGED <<frozen, current, timeline, query, page, clicks>>

\* A version another one than the last read is a change, newest first.
Observed(env, d) ==
  timeline' = IF current[env] = d THEN timeline
              ELSE [timeline EXCEPT ![env] = <<[version |-> d, at |-> now]>> \o @]

\* The newest success of the environment is read: for itself, and as what runs.
Probe(env, d) ==
  /\ deployments[d].environment = env /\ deployments[d].status = "success"
  /\ \A e \in Ids : deployments[e].environment = env /\ deployments[e].status = "success" => e <= d
  /\ d \notin frozen \/ current[env] # d
  /\ frozen' = frozen \cup {d}
  /\ current' = [current EXCEPT ![env] = d]
  /\ Observed(env, d)
  /\ fresh' = FALSE
  /\ UNCHANGED <<deployments, now, archive, query, page, clicks>>

\* What an environment runs was read without a deployment to file it against:
\* the rules came after it.
ProbeLate(env, d) ==
  /\ deployments[d].environment = env /\ deployments[d].status = "success"
  /\ \A e \in Ids : deployments[e].environment = env /\ deployments[e].status = "success" => e <= d
  /\ current[env] # d
  /\ current' = [current EXCEPT ![env] = d]
  /\ Observed(env, d)
  /\ fresh' = FALSE
  /\ UNCHANGED <<deployments, now, frozen, archive, query, page, clicks>>

-----------------------------------------------------------------------------
\* A mutation: what came before includes what failed.
previousDeployment_Any(d) ==
  LET candidates == {e \in Ids \ {d} : deployments[e].environment = deployments[d].environment
                                        /\ deployments[e].at <= deployments[d].at}
  IN IF candidates = {} THEN Nothing
     ELSE CHOOSE e \in candidates : \A f \in candidates :
            deployments[f].at < deployments[e].at \/ (deployments[f].at = deployments[e].at /\ e >= f)

\* The most recent success of the same environment that landed no later; on a
\* tie the platform's own order, newest first, decides.
previousDeployment(d) ==
  LET candidates == {e \in Ids \ {d} : /\ deployments[e].environment = deployments[d].environment
                                       /\ deployments[e].status = "success"
                                       /\ deployments[e].at <= deployments[d].at}
  IN IF candidates = {} THEN Nothing
     ELSE CHOOSE e \in candidates : \A f \in candidates :
            deployments[f].at < deployments[e].at \/ (deployments[f].at = deployments[e].at /\ e >= f)

\* The archiver files the comparison, once.
File(d) ==
  /\ archive[d] = NotFiled
  /\ archive' = [archive EXCEPT ![d] = previousDeployment(d)]
  /\ UNCHANGED <<deployments, now, frozen, current, timeline, query, page, fresh, clicks>>

\* The archive answers first, and only about the predecessor.
changes(d) == IF archive[d] # NotFiled THEN archive[d] ELSE previousDeployment(d)

-----------------------------------------------------------------------------
byMostRecent(a, b) ==
  deployments[a].at > deployments[b].at \/ (deployments[a].at = deployments[b].at /\ a > b)

applyFilters(q) ==
  {d \in Ids : /\ q.environment = Every \/ deployments[d].environment = q.environment
               /\ q.status = Every \/ deployments[d].status = q.status}

\* A mutation: the window opens one row late.
paginate_OffByOne(s, offset) == SubSeq(s, offset + 2, IF offset + Limit < Len(s) THEN offset + Limit ELSE Len(s))

paginate(s, offset) == SubSeq(s, offset + 1, IF offset + Limit < Len(s) THEN offset + Limit ELSE Len(s))

hasMore(p) == p.offset + Len(p.rows) < p.total

\* What the filters offer is what was read before any of them applied.
vocabularies == {deployments[d].environment : d \in Ids}

Listed(q) ==
  LET matching == SetToSortSeq(applyFilters(q), byMostRecent)
      rows     == paginate(matching, q.offset)
  IN [rows |-> rows, frozen |-> frozen \cap ToSet(rows), current |-> current,
      total |-> Len(matching), offset |-> q.offset]

\* The page asks again at every change of its query, and when it is refreshed.
list ==
  /\ page' = Listed(query)
  /\ fresh' = TRUE
  /\ page # page' \/ ~fresh
  /\ UNCHANGED <<deployments, now, frozen, current, timeline, archive, query, clicks>>

-----------------------------------------------------------------------------
\* A version ends where the next one begins: the row above it, which for the
\* first row of a page is on the page before.
toEntries(rows, newer) ==
  [i \in DOMAIN rows |-> [version |-> rows[i].version, at |-> rows[i].at,
                          until |-> IF i = 1 THEN newer ELSE rows[i - 1].at]]

\* A mutation: the page is read as asked for.
overRead_Never(offset) == 0

\* One row earlier, unless the window opens at the newest change.
overRead(offset) == IF offset > 0 THEN 1 ELSE 0

\* A page of an environment's timeline.
history(env, offset) ==
  LET over == overRead(offset)
      last == IF offset + Limit < Len(timeline[env]) THEN offset + Limit ELSE Len(timeline[env])
      rows == SubSeq(timeline[env], offset - over + 1, last)
  IN  IF over = 0 \/ rows = <<>> THEN toEntries(rows, Nothing)
      ELSE toEntries(Tail(rows), rows[1].at)

-----------------------------------------------------------------------------
Click == clicks < MaxClicks /\ clicks' = clicks + 1

Ask(q) ==
  /\ query' = q
  /\ page' = Listed(q)
  /\ fresh' = TRUE
  /\ UNCHANGED <<deployments, now, frozen, current, timeline, archive>>

\* Every change to the filters starts the page over.
filter(env, status) ==
  /\ Click
  /\ env \in vocabularies \cup {Every}
  /\ Ask(Query(env, status, 0))

next ==
  /\ Click
  /\ hasMore(page)
  /\ Ask([query EXCEPT !.offset = @ + Limit])

previous ==
  /\ Click
  /\ query.offset > 0
  /\ Ask([query EXCEPT !.offset = @ - Limit])

Next ==
  \/ \E e \in Environments, s \in Statuses, later \in 0..1 : Deploy(e, s, later)
  \/ \E e \in Environments, d \in Ids : Probe(e, d) \/ ProbeLate(e, d)
  \/ \E d \in Ids : File(d)
  \/ list
  \/ \E e \in Environments \cup {Every}, s \in Statuses \cup {Every} : filter(e, s)
  \/ next
  \/ previous

Spec == Init /\ [][Next]_vars

-----------------------------------------------------------------------------
\* The newest row of each environment among those shown.
newestPerEnvironment(p) ==
  {p.rows[i] : i \in {j \in DOMAIN p.rows :
     \A k \in DOMAIN p.rows :
       deployments[p.rows[k]].environment = deployments[p.rows[j]].environment =>
         \/ deployments[p.rows[k]].at < deployments[p.rows[j]].at
         \/ deployments[p.rows[k]].at = deployments[p.rows[j]].at /\ j <= k}}

\* What a row says runs: its own frozen reading, or what its environment runs.
Claim(p, d) ==
  IF d \in p.frozen THEN d
  ELSE IF d \in newestPerEnvironment(p) THEN p.current[deployments[d].environment]
  ELSE Nothing

\* However a timeline is cut into pages, every version ends where the next one
\* began, at the pages' joints too, and only the newest is still running.
TimelineHasNoJoints ==
  \A e \in Environments :
    LET whole == toEntries(timeline[e], Nothing)
    IN  \A offset \in 0 .. Len(whole) :
          LET entries == history(e, offset)
          IN  /\ Len(entries) = (IF offset + Limit < Len(whole) THEN Limit ELSE Len(whole) - offset)
              /\ \A i \in DOMAIN entries : entries[i] = whole[offset + i]

\* Walking the pages while nothing moves shows every matching deployment once,
\* newest first; a comparison is with a success of the same environment no later
\* than the deployment, filed or not, and two filed ones are never each other's
\* predecessor unless they carry one date; and on an unfiltered first page, the
\* row that says what its environment runs is the last one that went out there
\* (filter.ts:66-110, deployments.service.ts:68-135, versions.ts:20-50).
RowsAreTrue ==
  /\ TimelineHasNoJoints
  /\ LET whole == SetToSortSeq(applyFilters(query), byMostRecent)
     IN fresh => /\ \A i \in DOMAIN page.rows : page.rows[i] = whole[page.offset + i]
                 /\ hasMore(page) <=> page.offset + Limit < Len(whole)
                 /\ ~hasMore(page) => page.offset + Len(page.rows) = Len(whole)
  /\ \A d \in Ids : changes(d) > Nothing =>
       LET base == changes(d)
       IN /\ deployments[base].status = "success"
          /\ deployments[base].environment = deployments[d].environment
          /\ deployments[base].at <= deployments[d].at
          /\ changes(base) = d => deployments[base].at = deployments[d].at
  /\ fresh /\ query = Query(Every, Every, 0) =>
       \A i \in DOMAIN page.rows :
         LET d == page.rows[i]
         IN Claim(page, d) # Nothing /\ d \notin page.frozen =>
              \A e \in Ids : deployments[e].environment = deployments[d].environment => deployments[e].at <= deployments[d].at

\* On any older row the current reading would be plainly false
\* (versions.ts:22-25): a row never says its environment runs what went out
\* after it.
CurrentOnlyOnTheNewest ==
  fresh => \A i \in DOMAIN page.rows : Claim(page, page.rows[i]) <= page.rows[i]

=============================================================================
