------------------------------- MODULE Merge -------------------------------
(***************************************************************************)
(* The rules of back/src/ingest/merge.ts: how an incoming reading merges   *)
(* into the stored row.  Pure operators, shared by every writer.           *)
(*                                                                         *)
(* Dates are positive naturals; Null (0) is the absent date.  NoRow is the *)
(* `undefined` a lookup of an unknown id returns.  A pull request keeps    *)
(* the columns the rules tell apart: the state, the two dates, who wrote   *)
(* the author (the open feed alone) and the lead-time segments (the merged *)
(* feed alone); titles, labels, urls and the like are last-write-wins and  *)
(* are left out.  "open" stands for open and draft, which every rule and   *)
(* every query treats alike.                                               *)
(***************************************************************************)
EXTENDS Naturals

Null == 0

NoRow == [exists |-> FALSE]

PullRequestStates == {"open", "closed", "merged"}

PullRequestRow ==
  [exists: {TRUE}, state: PullRequestStates, updatedAt: Nat, mergedAt: Nat,
   author: BOOLEAN, segments: BOOLEAN, seenAt: Nat]

\* What the open listing or an event reports of a pull request.
Reading ==
  [exists: {TRUE}, state: PullRequestStates, updatedAt: Nat, mergedAt: Nat]

\* What the merged listing reports; the enrichment may have been given up.
MergedReading == [exists: {TRUE}, mergedAt: Nat, segments: BOOLEAN]

\* `incoming ?? stored` on a nullable date.
Coalesce(incoming, stored) == IF incoming # Null THEN incoming ELSE stored

\* An open state is a contradiction once a merge date is known.
SettledState(state, mergedAt) ==
  IF mergedAt # Null /\ state = "open" THEN "merged" ELSE state

\* Mutant: a reading of the same date is taken for an older one.
IsStale_OnTie(stored, incoming) ==
  stored.exists /\ stored.updatedAt >= incoming.updatedAt

\* The reading is older than what is stored: mergeOpenPullRequest returns null.
IsStale(stored, incoming) ==
  stored.exists /\ stored.updatedAt > incoming.updatedAt

MergeOpenPullRequest(stored, incoming, seenAt) ==
  LET mergedAt == IF stored.exists
                    THEN Coalesce(incoming.mergedAt, stored.mergedAt)
                    ELSE incoming.mergedAt
  IN  [exists    |-> TRUE,
       state     |-> SettledState(incoming.state, mergedAt),
       updatedAt |-> incoming.updatedAt,
       mergedAt  |-> mergedAt,
       author    |-> TRUE,
       segments  |-> stored.exists /\ stored.segments,
       seenAt    |-> seenAt]

\* Mutants: the stored state, or the stored merge date, is what the merged feed
\* leaves in the row.
MergeMergedPullRequest_KeepsState(stored, incoming, seenAt) ==
  [exists    |-> TRUE,
   state     |-> IF stored.exists THEN stored.state ELSE "merged",
   updatedAt |-> IF stored.exists /\ stored.updatedAt > incoming.mergedAt
                   THEN stored.updatedAt ELSE incoming.mergedAt,
   mergedAt  |-> incoming.mergedAt, author |-> FALSE,
   segments  |-> incoming.segments, seenAt |-> seenAt]

MergeMergedPullRequest_KeepsDate(stored, incoming, seenAt) ==
  [MergeMergedPullRequest_KeepsState(stored, incoming, seenAt) EXCEPT
     !.state = "merged",
     !.mergedAt = IF stored.exists THEN stored.mergedAt ELSE incoming.mergedAt]

MergeMergedPullRequest(stored, incoming, seenAt) ==
  [exists    |-> TRUE,
   state     |-> "merged",
   updatedAt |-> IF stored.exists /\ stored.updatedAt > incoming.mergedAt
                   THEN stored.updatedAt ELSE incoming.mergedAt,
   mergedAt  |-> incoming.mergedAt,
   author    |-> stored.exists /\ stored.author,
   segments  |-> incoming.segments \/ (stored.exists /\ stored.segments),
   seenAt    |-> seenAt]

(***************************************************************************)
(* Runs: pipelines and deployments.  "success" stands for the four         *)
(* terminal statuses of rank 3 that a run can end in, "failed" for another *)
(* one of them, so that a tie between terminals is expressible.            *)
(***************************************************************************)
Statuses == {"unknown", "pending", "running", "success", "failed"}

STATUS_RANK ==
  [unknown |-> 0, pending |-> 1, running |-> 2, success |-> 3, failed |-> 3]

Settled(status) == STATUS_RANK[status] = 3

\* Mutants: only an ending moves the row; the last reading always does.
LaterStatus_EndingsOnly(stored, incoming) ==
  IF Settled(incoming) THEN incoming ELSE stored

LaterStatus_LastWins(stored, incoming) == incoming

\* The more settled of the two, the incoming one winning a tie.
LaterStatus(stored, incoming) ==
  IF STATUS_RANK[incoming] >= STATUS_RANK[stored] THEN incoming ELSE stored

(***************************************************************************)
(* One row shape for the two tables.  `url` is environmentUrl/url of a     *)
(* deployment and durationSec of a pipeline: the column a feed may not     *)
(* have read, kept by `incoming ?? stored`.  A deployment has no update    *)
(* date: its updatedAt is Null throughout.                                 *)
(***************************************************************************)
RunRow ==
  [exists: {TRUE}, status: Statuses, updatedAt: Nat, url: BOOLEAN]

RunReading ==
  [exists: {TRUE}, status: Statuses, updatedAt: Nat, url: BOOLEAN]

\* Mutants: what this feed did not read is written as absent; the row keeps
\* the date it had.
MergeRun_Blanks(stored, incoming) ==
  [exists    |-> TRUE,
   status    |-> IF stored.exists
                   THEN LaterStatus(stored.status, incoming.status)
                   ELSE incoming.status,
   updatedAt |-> incoming.updatedAt,
   url       |-> incoming.url]

MergeRun_KeepsDate(stored, incoming) ==
  [MergeRun_Blanks(stored, incoming) EXCEPT
     !.updatedAt = IF stored.exists THEN stored.updatedAt ELSE incoming.updatedAt]

MergeRun(stored, incoming) ==
  [exists    |-> TRUE,
   status    |-> IF stored.exists
                   THEN LaterStatus(stored.status, incoming.status)
                   ELSE incoming.status,
   updatedAt |-> incoming.updatedAt,
   url       |-> incoming.url \/ (stored.exists /\ stored.url)]
============================================================================
