------------------------------ MODULE JobsPage ------------------------------
(***************************************************************************)
(* The background jobs page: JobsService reads the queue back, one list per *)
(* state and each at its own instant, sorts and windows what it found, and  *)
(* the page shows the answers of its latest load all at once.  A failing    *)
(* job waits out a backoff until its attempts are spent; a failed one is    *)
(* retried or dropped by hand.                                              *)
(***************************************************************************)
EXTENDS Integers, Sequences, FiniteSets

CONSTANTS
  Jobs,
  Attempts,         \* how often a job is tried before it is given up on
  JOB_SCAN_DEPTH,   \* how many jobs of a state are read back
  LIST_LIMIT,       \* how many rows a list shows
  MaxTime           \* a bound on the dates that are given out

VARIABLES
  job,      \* the jobs as the queue holds them
  clock,
  read,     \* what the load in progress has read so far, list by list
  moved,    \* a job moved while the load was in progress
  shown,    \* the lists on the page
  retrying  \* the jobs seen failed by a retry that has not moved them yet

vars == <<job, clock, read, moved, shown, retrying>>

None == -1
InFlight == <<"active", "waiting", "delayed">>
Lists == {"active", "waiting", "delayed", "failed", "completed"}
Unread == [done |-> FALSE, ids |-> <<>>]
NotLoading == [l \in Lists |-> Unread]
Blank == [running |-> <<>>, failures |-> <<>>, degraded |-> <<>>]
Loading == \E l \in Lists : read[l].done
Absent == [state |-> "none", attempts |-> 0, warned |-> FALSE, enqueued |-> None, started |-> None, ended |-> None]

\* A run of the past that gave up on part of its work.
Past == [state |-> "completed", attempts |-> 0, warned |-> TRUE, enqueued |-> 0, started |-> 0, ended |-> 0]

Init ==
  /\ \E old \in {{}} \cup {{j} : j \in Jobs} : job = [j \in Jobs |-> IF j \in old THEN Past ELSE Absent]
  /\ clock = 1
  /\ read = NotLoading
  /\ moved = FALSE
  /\ shown = Blank
  /\ retrying = {}

Moves(j, new) ==
  /\ job' = [job EXCEPT ![j] = new]
  /\ moved' = Loading
  /\ UNCHANGED <<read, shown>>

Dated == clock < MaxTime /\ clock' = clock + 1

Enqueue(j) ==
  /\ job[j].state = "none"
  /\ Dated
  /\ Moves(j, [job[j] EXCEPT !.state = "waiting", !.enqueued = clock])
  /\ UNCHANGED retrying

Start(j) ==
  /\ job[j].state = "waiting"
  /\ Dated
  /\ Moves(j, [job[j] EXCEPT !.state = "active", !.started = clock])
  /\ UNCHANGED retrying

Complete(j, warned) ==
  /\ job[j].state = "active"
  /\ Dated
  /\ Moves(j, [job[j] EXCEPT !.state = "completed", !.warned = warned, !.ended = clock])
  /\ UNCHANGED retrying

\* A failed attempt: put back behind a backoff, or given up on.
Fail(j) ==
  /\ job[j].state = "active"
  /\ IF job[j].attempts + 1 < Attempts
     THEN /\ Moves(j, [job[j] EXCEPT !.state = "delayed", !.attempts = @ + 1])
          /\ UNCHANGED clock
     ELSE /\ Dated
          /\ Moves(j, [job[j] EXCEPT !.state = "failed", !.attempts = @ + 1, !.ended = clock])
  /\ UNCHANGED retrying

Promote(j) ==
  /\ job[j].state = "delayed"
  /\ Moves(j, [job[j] EXCEPT !.state = "waiting"])
  /\ UNCHANGED <<clock, retrying>>

\* A retry reads the state, refuses what is not failed, then asks the queue.
retry(j) ==
  /\ job[j].state = "failed"
  /\ j \notin retrying
  /\ retrying' = retrying \cup {j}
  /\ UNCHANGED <<job, clock, read, moved, shown>>

\* The queue refuses a job somebody else has moved by then.
Retried(j) ==
  /\ j \in retrying
  /\ retrying' = retrying \ {j}
  /\ IF job[j].state = "failed"
     THEN Moves(j, [job[j] EXCEPT !.state = "waiting", !.started = None, !.ended = None])
     ELSE UNCHANGED <<job, read, moved, shown>>
  /\ UNCHANGED clock

discard(j) ==
  /\ job[j].state = "failed"
  /\ Moves(j, Absent)
  /\ UNCHANGED <<clock, retrying>>

Window(s, n) == SubSeq(s, 1, IF Len(s) < n THEN Len(s) ELSE n)

\* The members of S one after the other, earlier being the pairs in their order.
InOrder(S, earlier) ==
  [i \in 1..Cardinality(S) |-> CHOOSE x \in S : Cardinality({y \in S : <<y, x>> \in earlier}) = i - 1]

\* A stable sort, as the language's own is, by what comes first.
Sort(s, first(_, _)) ==
  LET places == DOMAIN s
      earlier == {p \in places \X places :
                    \/ first(s[p[1]], s[p[2]])
                    \/ ~first(s[p[2]], s[p[1]]) /\ p[1] < p[2]}
  IN [i \in places |-> s[InOrder(places, earlier)[i]]]

\* The rows of runs that gave up on part of their work, in the order of s.
Warned(s) ==
  LET kept == {k \in DOMAIN s : s[k].warned}
      earlier == {p \in kept \X kept : p[1] < p[2]}
  IN [i \in 1..Cardinality(kept) |-> s[InOrder(kept, earlier)[i]]]

\* One of the queue's lists, in its own order: in flight the oldest first, ended
\* the newest first.
getJobs(list) ==
  LET of == {j \in Jobs : job[j].state = list}
      earlier == {p \in of \X of : IF list \in {"failed", "completed"}
                                   THEN job[p[1]].ended > job[p[2]].ended
                                   ELSE job[p[1]].enqueued < job[p[2]].enqueued}
  IN Window(InOrder(of, earlier), JOB_SCAN_DEPTH)

Row(j, state) == [id |-> j, state |-> state, warned |-> job[j].warned, ended |-> job[j].ended,
                  since |-> IF job[j].started # None THEN job[j].started ELSE job[j].enqueued]

\* One of the lists is read; the rows are what the jobs are at that instant.
Read(list) ==
  /\ ~read[list].done
  /\ read' = [read EXCEPT ![list] =
       [done |-> TRUE, ids |-> [i \in DOMAIN getJobs(list) |-> Row(getJobs(list)[i], list)]]]
  /\ UNCHANGED <<job, clock, moved, shown, retrying>>

\* The timer, or a click: what was read for the load before is dropped.
reload ==
  /\ Loading
  /\ read' = NotLoading
  /\ moved' = FALSE
  /\ UNCHANGED <<job, clock, shown, retrying>>

RankOf(state) == CHOOSE i \in 1..3 : InFlight[i] = state

\* Running before queued, and within a state the one waiting longest first.
byInFlight(a, b) ==
  \/ RankOf(a.state) < RankOf(b.state)
  \/ a.state = b.state /\ a.since < b.since

paginate(s) == Window(s, LIST_LIMIT)

byEndedDesc(a, b) == a.ended > b.ended

\* What is read of one state across the queues, newest first.
scan(list) == Sort(read[list].ids, byEndedDesc)

running == paginate(Sort(read["active"].ids \o read["waiting"].ids \o read["delayed"].ids, byInFlight))
failures == paginate(scan("failed"))

\* A mutation: the degraded runs are looked for among a page of the completed.
degraded_OfAPage == Warned(paginate(scan("completed")))

\* Filtered before it is windowed.
degraded == paginate(Warned(scan("completed")))

Ids(rows) == [i \in DOMAIN rows |-> rows[i].id]

\* Every answer is in: the page shows them together.
Loaded ==
  /\ \A l \in Lists : read[l].done
  /\ shown' = [running |-> Ids(running), failures |-> Ids(failures), degraded |-> Ids(degraded)]
  /\ read' = NotLoading
  /\ moved' = FALSE
  /\ UNCHANGED <<job, clock, retrying>>

Next ==
  \/ \E j \in Jobs :
       \/ Enqueue(j) \/ Start(j) \/ Fail(j) \/ Promote(j) \/ retry(j) \/ Retried(j) \/ discard(j)
       \/ \E w \in BOOLEAN : Complete(j, w)
  \/ \E l \in Lists : Read(l)
  \/ reload
  \/ Loaded

Spec == Init /\ [][Next]_vars

-----------------------------------------------------------------------------
\* How many of S come before j.
Before(S, j, earlier(_, _)) == {k \in S : k # j /\ earlier(k, j)}
Few(S) == Cardinality(S) < LIST_LIMIT
\* The jobs on a list.
Listed(s) == {s[i] : i \in DOMAIN s}
\* Each load that no job moved under is shown whole: a job is on a list exactly
\* when it is in that state and fewer than a page of the others come before it -
\* running before queued and the oldest first, so the one that is stuck is
\* never off the page, and a run that gave up on part of its work is not pushed
\* out by clean ones (jobs.service.ts:80-132).  A job that moved under a load may
\* be on two lists or on none; no list ever holds more than its page.
QuietPageIsWhole ==
  Loaded =>
    LET inflight == {j \in Jobs : job[j].state \in {"active", "waiting", "delayed"}}
        failed   == {j \in Jobs : job[j].state = "failed"}
        warned   == {j \in Jobs : job[j].state = "completed" /\ job[j].warned}
        since(j) == IF job[j].started # None THEN job[j].started ELSE job[j].enqueued
        sooner(k, j) == \/ RankOf(job[k].state) < RankOf(job[j].state)
                        \/ job[k].state = job[j].state /\ since(k) < since(j)
        later(k, j)  == job[k].ended > job[j].ended
    IN /\ ~moved => /\ Listed(shown'.running) = {j \in inflight : Few(Before(inflight, j, sooner))}
                    /\ Listed(shown'.failures) = {j \in failed : Few(Before(failed, j, later))}
                    /\ Listed(shown'.degraded) = {j \in warned : Few(Before(warned, j, later))}
       /\ \A l \in DOMAIN shown' : Len(shown'[l]) <= LIST_LIMIT

=============================================================================
