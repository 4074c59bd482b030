------------------------- MODULE MCPullRequestStore -------------------------
(***************************************************************************)
(* PullRequestStore in the two settings its writers meet in: a run against *)
(* the worker that applies the provider's events, and two overlapping runs *)
(* of a source no event reaches.                                           *)
(***************************************************************************)
EXTENDS PullRequestStore

CONSTANTS r1, r2, w1

VARIABLE setting   \* which of the two this behaviour is in

MCRuns == {r1, r2}
MCWorkers == {w1}

MCInit == Init /\ setting \in {"events", "two runs"}

MCNext ==
  /\ Next
  /\ setting = "events" => proc'[r2] = Idle
  /\ setting = "two runs" => proc'[w1] = Idle /\ queue' = {}
  /\ UNCHANGED setting

MCSpec == MCInit /\ [][MCNext]_<<vars, setting>>
============================================================================
