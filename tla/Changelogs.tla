----------------------------- MODULE Changelogs -----------------------------
(***************************************************************************)
(* The archive of what each deployment carried: runs that list the window, *)
(* file the successful deployments nothing was filed for, a batch at a     *)
(* time and oldest first, against the deployment before each or, when that *)
(* carries nothing, against the nearest branch; and the readers that are   *)
(* answered from the archive.  Two runs may overlap, refs disappear from   *)
(* the platform, and deployments slide out of the window.                  *)
(***************************************************************************)
EXTENDS Naturals, FiniteSets

CONSTANTS Last,   \* the deployments of one environment are 1 .. Last, in creation order
          Runs,   \* archiving runs that may overlap
          Batch   \* ARCHIVE_BATCH

VARIABLES
  status,   \* what the store says of each deployment
  gone,     \* External: deployments whose ref the platform dropped
  from,     \* the oldest deployment still in the window
  archive,  \* the DeploymentChangelog rows
  run       \* the runs under way

vars == <<status, gone, from, archive, run>>

Deployments == 1 .. Last
NoRecord == [filed |-> FALSE, unreadable |-> FALSE, base |-> "none", baseRef |-> 0, carries |-> FALSE]
Idle == [pc |-> "idle", targets |-> {}, listed |-> {}]

Init ==
  /\ status = [d \in Deployments |-> "absent"]
  /\ gone = {}
  /\ from = 1
  /\ archive = [d \in Deployments |-> NoRecord]
  /\ run = [r \in Runs |-> Idle]

-----------------------------------------------------------------------------
\* External: a deployment is created, and succeeds or fails, in any order.
Create(d) ==
  /\ status[d] = "absent"
  /\ \A o \in 1 .. d - 1 : status[o] # "absent"
  /\ status' = [status EXCEPT ![d] = "running"]
  /\ UNCHANGED <<gone, from, archive, run>>

Settle(d, to) ==
  /\ status[d] = "running"
  /\ to \in {"success", "failed"}
  /\ status' = [status EXCEPT ![d] = to]
  /\ UNCHANGED <<gone, from, archive, run>>

\* External: a branch or a tag is deleted; the platform no longer resolves it.
DropRef(d) ==
  /\ status[d] # "absent" /\ d \notin gone
  /\ gone' = gone \cup {d}
  /\ UNCHANGED <<status, from, archive, run>>

\* The oldest deployment leaves the period the runs read.
Slide ==
  /\ from < Last
  /\ from' = from + 1
  /\ UNCHANGED <<status, gone, archive, run>>

-----------------------------------------------------------------------------
\* classified: the deployments of the period, as they are now.
Listed == {d \in Deployments : d >= from /\ status[d] # "absent"}

\* previousDeployment, over the listing the run holds: the latest success
\* before the target, 0 when there is none.
previousDeployment(listed, d) ==
  LET earlier == {o \in listed : o < d}
  IN IF earlier = {} THEN 0 ELSE CHOOSE o \in earlier : \A p \in earlier : p <= o

\* selectPending: the successes nothing is filed for, the oldest Batch of them.
selectPending(listed) ==
  LET pending == {d \in listed : status[d] = "success" /\ ~archive[d].filed}
  IN {d \in pending : Cardinality({o \in pending : o < d}) < Batch}

\* archive: the window is listed, the filed ones are set aside, and the
\* selection is walked. The listing keeps the statuses it was read with.
Start(r) ==
  LET listed == Listed
  IN /\ run[r].pc = "idle"
     /\ selectPending(listed) # {}
     /\ run' = [run EXCEPT ![r] =
          [pc |-> "walk", targets |-> selectPending(listed),
           listed |-> {d \in listed : status[d] = "success"}]]
     /\ UNCHANGED <<status, gone, from, archive>>

Target(r) == CHOOSE d \in run[r].targets : \A o \in run[r].targets : d <= o

\* What comparing a deployment with the one before it may answer: nothing to
\* compare against is an empty answer; a dropped ref is unresolvable; anything
\* else may carry commits, carry none, or fail for a moment.
Compared(d, base) ==
  IF base = 0 THEN {"empty"}
  ELSE IF {d, base} \cap gone # {} THEN {"unresolvable", "failed"}
  ELSE {"entries", "empty", "failed"}

\* The nearest branch, asked when the first comparison carries nothing.
ComparedNearest(d) ==
  IF d \in gone THEN {"failed"} ELSE {"entries", "empty", "failed"}

\* carried: the empty answer stands unless the branch comparison carries
\* something; a branch that will not compare loses nothing.
carried(base, previous, nearest) ==
  IF previous = "empty" /\ nearest = "entries"
  THEN [filed |-> TRUE, unreadable |-> FALSE, base |-> "nearest", baseRef |-> 0, carries |-> TRUE]
  ELSE [filed |-> TRUE, unreadable |-> FALSE, base |-> "previous", baseRef |-> base,
        carries |-> previous = "entries"]

\* Mutant: what no longer resolves is left for a later run, like a failure.
toUnreadable_Nothing == NoRecord

\* toUnreadable: no base, no contents.
toUnreadable == [filed |-> TRUE, unreadable |-> TRUE, base |-> "previous", baseRef |-> 0,
                 carries |-> FALSE]

\* Mutant: the last to file has the last word.
Record_Overwrites(d, log) == [archive EXCEPT ![d] = log]

\* ChangelogStore.record: a row that exists is left exactly as it was.
Record(d, log) == IF archive[d].filed THEN archive ELSE [archive EXCEPT ![d] = log]

\* One target of the walk. What is unresolvable is filed as such and never
\* asked again; what failed for a moment is left for a later run.
Step(r, previous, nearest) ==
  LET d    == Target(r)
      base == previousDeployment(run[r].listed, d)
  IN /\ run[r].pc = "walk" /\ run[r].targets # {}
     /\ previous \in Compared(d, base)
     /\ nearest \in (IF previous = "empty" THEN ComparedNearest(d) ELSE {"failed"})
     /\ archive' = CASE previous = "unresolvable" -> Record(d, toUnreadable)
                     [] previous = "failed" -> archive
                     [] OTHER -> Record(d, carried(base, previous, nearest))
     /\ run' = [run EXCEPT ![r] = [run[r] EXCEPT !.targets = run[r].targets \ {d}]]
     /\ UNCHANGED <<status, gone, from>>

\* The walk is over, or the API reserve is reached and the rest is deferred.
End(r, reserve) ==
  /\ run[r].pc = "walk"
  /\ run[r].targets = {} \/ reserve
  /\ run' = [run EXCEPT ![r] = Idle]
  /\ UNCHANGED <<status, gone, from, archive>>

\* changes, of a reader who asks against the previous deployment: the archive
\* answers first, in the negative when the contents were lost; then the
\* platform, for a deployment still in the window.
changes(d) ==
  IF archive[d].filed
  THEN IF archive[d].unreadable THEN [answer |-> "contentsLost", log |-> NoRecord]
       ELSE [answer |-> "archived", log |-> archive[d]]
  ELSE IF d \in Listed THEN [answer |-> "compared", log |-> NoRecord]
       ELSE [answer |-> "notFound", log |-> NoRecord]

Outcomes == {"entries", "empty", "unresolvable", "failed"}

Next ==
  \/ \E d \in Deployments : \/ Create(d)
                            \/ \E to \in {"success", "failed"} : Settle(d, to)
                            \/ DropRef(d)
  \/ Slide
  \/ \E r \in Runs : \/ Start(r)
                     \/ \E previous, nearest \in Outcomes : Step(r, previous, nearest)
                     \/ \E reserve \in BOOLEAN : End(r, reserve)

Spec == Init /\ [][Next]_vars

\* A run's step that does not fail for a moment.
StepAnswered(r) ==
  \E previous, nearest \in Outcomes : previous # "failed" /\ Step(r, previous, nearest)

\* The collection runs on its schedule and each run ends; a call that can
\* succeed does not fail for ever, and the reserve is not reached for ever.
RunOn(r) == Start(r) \/ End(r, FALSE)

Fairness == \A r \in Runs : WF_vars(RunOn(r)) /\ SF_vars(StepAnswered(r))

FairSpec == Spec /\ Fairness

-----------------------------------------------------------------------------
TypeOK ==
  /\ status \in [Deployments -> {"absent", "running", "success", "failed"}]
  /\ gone \subseteq Deployments
  /\ from \in Deployments
  /\ archive \in [Deployments -> [filed : BOOLEAN, unreadable : BOOLEAN,
                                  base : {"none", "previous", "nearest"},
                                  baseRef : 0 .. Last, carries : BOOLEAN]]
  /\ run \in [Runs -> [pc : {"idle", "walk"}, targets : SUBSET Deployments,
                       listed : SUBSET Deployments]]

\* What was filed for a deployment is what is answered for ever, though its
\* ref is deleted, it leaves the window, or a second run started before files
\* it as lost.
FiledIsFinal ==
  \A d \in Deployments : archive[d].filed => changes(d)' = changes(d)

\* Only what went out is filed, and against a deployment that went out before
\* it, never a failed one.
FiledWentOut ==
  \A d \in Deployments :
    archive[d].filed => /\ status[d] = "success"
                        /\ archive[d].baseRef < d
                        /\ archive[d].baseRef # 0 => status[archive[d].baseRef] = "success"

\* A deployment that stays in the window is filed, readable or not, however
\* many older ones wait before it.
Waiting(d) == status[d] = "success" /\ d >= from /\ ~archive[d].filed
EveryDeploymentFiled == \A d \in Deployments : Waiting(d) ~> ~Waiting(d)
=============================================================================
