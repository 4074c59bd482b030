------------------------------ MODULE Cadence ------------------------------
(***************************************************************************)
(* The decisions of back/src/ingest/sync-cadence.ts: when the ingestion    *)
(* reconciles, when it may skip a delta, and how far back it reads.        *)
(* Durations are constants in one unit; only their order matters here.     *)
(***************************************************************************)
EXTENDS Naturals, Merge

CONSTANTS
  DELTA_OVERLAP,       \* how far back a delta re-reads (10 minutes)
  FULL_SYNC_INTERVAL,  \* how often the reconciliation pass runs (6 hours)
  EVENT_QUIET          \* how recent an event spares a listing (15 minutes)

ASSUME CadenceAssumption ==
  /\ DELTA_OVERLAP \in Nat
  /\ FULL_SYNC_INTERVAL \in Nat \ {0}
  /\ EVENT_QUIET \in Nat

\* A date `d` before `t`, the epoch standing for anything earlier.
Before(t, d) == IF t > d THEN t - d ELSE Null

\* Mutant: the delta starts at the cursor itself.
MergedSince_NoOverlap(cursor, now, windowDays, full) ==
  LET windowStart == Before(now, windowDays)
  IN  IF full \/ cursor = Null \/ cursor < windowStart THEN windowStart ELSE cursor

MergedSince(cursor, now, windowDays, full) ==
  LET windowStart == Before(now, windowDays)
      backedOff   == Before(cursor, DELTA_OVERLAP)
  IN  IF full \/ cursor = Null \/ backedOff < windowStart
        THEN windowStart ELSE backedOff

\* Mutant: recent events spare a reconciliation too.
SkipsDelta_FullToo(lastEventAt, now, full) ==
  lastEventAt # Null /\ now - lastEventAt < EVENT_QUIET

SkipsDelta(lastEventAt, now, full) ==
  /\ ~full
  /\ lastEventAt # Null
  /\ now - lastEventAt < EVENT_QUIET

\* `lastFullSyncAts` is the set of the values held by the rows that exist.
IsDueForFullSync(lastFullSyncAts, now) ==
  \/ lastFullSyncAts = {}
  \/ \E at \in lastFullSyncAts :
       at = Null \/ now - at >= FULL_SYNC_INTERVAL
============================================================================
