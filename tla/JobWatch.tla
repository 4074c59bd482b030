------------------------------ MODULE JobWatch ------------------------------
(***************************************************************************)
(* A run somebody asked for by hand (a deep re-read, a replay of the        *)
(* metrics) is queued, and the sources page follows it: a timer asks for    *)
(* the status of every followed run, and a settled one becomes the outcome  *)
(* on its row.  JobsService reads a job and its state at two instants.  The *)
(* queue evicts what ended; the background jobs page retries or discards    *)
(* what failed.                                                             *)
(***************************************************************************)
EXTENDS Integers, FiniteSets

CONSTANTS
  Sources,
  Rounds,       \* the ticks of the timer whose answers can be awaited at once
  MaxStarts,    \* how many runs are asked for
  MaxFaults     \* how many readings fail

VARIABLES
  job,          \* the run of each source, as the queue holds it
  row,          \* what the source's row says of it
  starting,     \* the sources whose run is being queued
  following,    \* the sources whose run is being followed
  round,        \* the ticks being answered
  starts, faults,
  ended,        \* how the run ended, over its life
  split,        \* the run ended between the two readings of a status
  lost          \* a reading failed between the two

vars == <<job, row, starting, following, round, starts, faults, ended, split, lost>>

Gone == "gone"
Settled == {"completed", "failed", "unknown"}
NoJob == [state |-> Gone, warns |-> FALSE]

\* A reading in progress: of the job, then of its state.
Unasked == [step |-> "none", state |-> "none", warns |-> FALSE]
Asking == [Unasked EXCEPT !.step = "job"]
Read(state, warns) == [step |-> "read", state |-> state, warns |-> warns]
NoRound == [live |-> FALSE, got |-> [s \in Sources |-> Unasked]]
Tick(of) == [live |-> TRUE, got |-> [s \in Sources |-> IF s \in of THEN Asking ELSE Unasked]]
Free(k) == round[k] = NoRound

Init ==
  /\ job = [s \in Sources |-> NoJob]
  /\ row = [s \in Sources |-> "idle"]
  /\ starting = {}
  /\ following = {}
  /\ round = [k \in Rounds |-> NoRound]
  /\ starts = 0
  /\ faults = 0
  /\ ended = [s \in Sources |-> {}]
  /\ split = {}
  /\ lost = {}

queue == <<job, ended>>
page == <<row, starting, following, round, split, lost>>

\* The effect of a change of what is followed: the ticks before it are no
\* longer listened to, and one starts at once.
Follow(of, k) ==
  LET stopped == [j \in Rounds |-> IF Free(j) THEN NoRound ELSE [round[j] EXCEPT !.live = FALSE]]
  IN /\ following' = of
     /\ IF of = {} THEN round' = stopped
        ELSE Free(k) /\ round' = [stopped EXCEPT ![k] = Tick(of)]

\* The button, which is disabled while a run is followed.
startRefresh(s) ==
  /\ row[s] # "pending"
  /\ starts < MaxStarts
  /\ starts' = starts + 1
  /\ row' = [row EXCEPT ![s] = "pending"]
  /\ starting' = starting \cup {s}
  /\ UNCHANGED <<queue, following, round, faults, split, lost>>

Enqueued(s, k) ==
  /\ s \in starting
  /\ starting' = starting \ {s}
  /\ job' = [job EXCEPT ![s] = [state |-> "waiting", warns |-> FALSE]]
  /\ ended' = [ended EXCEPT ![s] = {}]
  /\ split' = split \ {s}
  /\ lost' = lost \ {s}
  /\ Follow(following \cup {s}, k)
  /\ UNCHANGED <<row, starts, faults>>

NotEnqueued(s) ==
  /\ s \in starting
  /\ faults < MaxFaults
  /\ faults' = faults + 1
  /\ starting' = starting \ {s}
  /\ row' = [row EXCEPT ![s] = "refused"]
  /\ UNCHANGED <<queue, following, round, starts, split, lost>>

\* The interval fires, whether or not the ticks before were answered.
Interval(k) ==
  /\ following # {}
  /\ Free(k)
  /\ round' = [round EXCEPT ![k] = Tick(following)]
  /\ UNCHANGED <<queue, row, starting, following, starts, faults, split, lost>>

Step(k, s, reading) ==
  /\ round' = [round EXCEPT ![k].got[s] = reading]
  /\ UNCHANGED <<queue, row, starting, following, starts>>

\* The first half of a status: the job, its warnings as they are now.  An
\* evicted one is unknown, a failed reading says nothing.
getJob(k, s) ==
  /\ round[k].got[s].step = "job"
  /\ \/ /\ job[s].state = Gone
        /\ Step(k, s, Read("unknown", FALSE))
        /\ UNCHANGED faults
     \/ /\ job[s].state # Gone
        /\ Step(k, s, [step |-> "state", state |-> "none", warns |-> job[s].warns])
        /\ UNCHANGED faults
     \/ /\ faults < MaxFaults
        /\ faults' = faults + 1
        /\ Step(k, s, Read("null", FALSE))
  /\ UNCHANGED <<split, lost>>

\* The second half: its state, unknown too when it cannot be read.
getState(k, s) ==
  /\ round[k].got[s].step = "state"
  /\ \/ /\ Step(k, s, Read(IF job[s].state = Gone THEN "unknown" ELSE job[s].state, round[k].got[s].warns))
        /\ split' = IF job[s].warns # round[k].got[s].warns THEN split \cup {s} ELSE split
        /\ UNCHANGED <<faults, lost>>
     \/ /\ faults < MaxFaults
        /\ faults' = faults + 1
        /\ Step(k, s, Read("unknown", FALSE))
        /\ lost' = lost \cup {s}
        /\ UNCHANGED split

\* How a settled run reads on its row.
outcomeOf(reading) ==
  CASE reading.state = "failed"  -> "failed"
    [] reading.state = "unknown" -> "evicted"
    [] OTHER -> IF reading.warns THEN "warned" ELSE "done"

\* A mutation: an answer is applied whatever is followed by now.
Heard_Always(k) == TRUE

\* Only the ticks of what is followed now are listened to.
Heard(k) == round[k].live

\* A tick is answered in full: the settled runs are reported and no longer
\* followed.
Answered(k, next) ==
  LET got  == round[k].got
      over == {s \in Sources : got[s].step = "read" /\ got[s].state \in Settled}
  IN /\ ~Free(k)
     /\ \A s \in Sources : got[s].step \in {"none", "read"}
     /\ IF Heard(k) /\ over # {}
        THEN /\ row' = [s \in Sources |-> IF s \in over THEN outcomeOf(got[s]) ELSE row[s]]
             /\ following' = following \ over
             /\ LET others == [j \in Rounds |-> IF Free(j) \/ j = k THEN NoRound ELSE [round[j] EXCEPT !.live = FALSE]]
                IN IF following \ over = {} THEN next = k /\ round' = others
                   ELSE /\ others[next] = NoRound
                        /\ round' = [others EXCEPT ![next] = Tick(following \ over)]
        ELSE /\ next = k
             /\ round' = [round EXCEPT ![k] = NoRound]
             /\ UNCHANGED <<row, following>>
     /\ UNCHANGED <<queue, starting, starts, faults, split, lost>>

\* A worker takes the run, and ends it: having given up on part of it or not.
Work(s) ==
  /\ job[s].state = "waiting"
  /\ job' = [job EXCEPT ![s].state = "active"]
  /\ UNCHANGED <<ended, page, starts, faults>>

Complete(s, warns) ==
  /\ job[s].state = "active"
  /\ job' = [job EXCEPT ![s] = [state |-> "completed", warns |-> warns]]
  /\ ended' = [ended EXCEPT ![s] = @ \cup {IF warns THEN "warned" ELSE "done"}]
  /\ UNCHANGED <<page, starts, faults>>

Fail(s) ==
  /\ job[s].state = "active"
  /\ job' = [job EXCEPT ![s].state = "failed"]
  /\ ended' = [ended EXCEPT ![s] = @ \cup {"failed"}]
  /\ UNCHANGED <<page, starts, faults>>

\* The queue keeps a bounded history.
Evict(s) ==
  /\ job[s].state \in {"completed", "failed"}
  /\ job' = [job EXCEPT ![s] = NoJob]
  /\ UNCHANGED <<ended, page, starts, faults>>

\* The background jobs page: what failed is tried again, or dropped.
retry(s) ==
  /\ job[s].state = "failed"
  /\ starts < MaxStarts
  /\ starts' = starts + 1
  /\ job' = [job EXCEPT ![s].state = "waiting"]
  /\ UNCHANGED <<ended, page, faults>>

discard(s) ==
  /\ job[s].state = "failed"
  /\ job' = [job EXCEPT ![s] = NoJob]
  /\ UNCHANGED <<ended, page, starts, faults>>

Next ==
  \/ \E s \in Sources :
       \/ startRefresh(s) \/ NotEnqueued(s)
       \/ Work(s) \/ Fail(s) \/ Evict(s) \/ retry(s) \/ discard(s)
       \/ \E w \in BOOLEAN : Complete(s, w)
       \/ \E k \in Rounds : Enqueued(s, k) \/ getJob(k, s) \/ getState(k, s)
  \/ \E k \in Rounds : Interval(k) \/ \E next \in Rounds : Answered(k, next)

Spec == Init /\ [][Next]_vars

\* The workers run what is queued, requests are answered, the interval fires.
RunOn(s) == Work(s) \/ Fail(s) \/ \E w \in BOOLEAN : Complete(s, w)
Poll(k) ==
  \/ Interval(k)
  \/ \E s \in Sources : getJob(k, s) \/ getState(k, s)
  \/ \E next \in Rounds : Answered(k, next)
Queued(s) == \E k \in Rounds : Enqueued(s, k)

FairSpec ==
  /\ Spec
  /\ \A s \in Sources : WF_vars(RunOn(s)) /\ SF_vars(Queued(s))
  /\ \A k \in Rounds : WF_vars(Poll(k))

\* What a row reports happened to the run it is about, and not to the one
\* before it, whatever ticks are still being answered: a failure failed, a
\* warning warned, a clean end ended, an eviction left the queue
\* (SourcesPage.tsx:199-212, 294-301).  The two readings of a status leave the
\* exceptions: warnings that came in between them are missed, and a state that
\* could not be read counts as an eviction.
OutcomeIsTheRuns ==
  \A s \in Sources \ starting :
    /\ row[s] = "failed" => "failed" \in ended[s]
    /\ row[s] = "warned" => "warned" \in ended[s]
    /\ row[s] = "done" => "done" \in ended[s] \/ ("warned" \in ended[s] /\ s \in split)
    /\ row[s] = "evicted" => ended[s] # {} \/ s \in lost

\* A green job is not a clean one (SourcesPage.tsx:207-208): a run that gave up
\* on part of its work never reads as done.
GreenIsClean == \A s \in Sources : row[s] = "done" => "done" \in ended[s] \/ s \in starting

\* An unknown job ran (SourcesPage.tsx:299-300, jobs.service.ts:149-154).
UnknownRan == \A s \in Sources : row[s] = "evicted" => ended[s] # {} \/ s \in starting

\* A followed run is reported: whatever the order of the answers, and whatever
\* other runs are started and settle meanwhile.
Pending(s) == row[s] = "pending"
EveryRunReported == \A s \in Sources : Pending(s) ~> ~Pending(s)

=============================================================================
