------------------------------ MODULE ApiQuota ------------------------------
(***************************************************************************)
(* What one source has consumed of its provider's rate limit: readings     *)
(* taken from the headers of every response, or calls counted against a    *)
(* declared ceiling where the provider meters nothing; held in memory,     *)
(* written behind by a delayed flush, reloaded at a restart, and forgotten *)
(* with the source. Responses come back out of order, a flush awaits each  *)
(* write while new readings arrive, and who has resolved the source before *)
(* its removal goes on calling with it.                                    *)
(***************************************************************************)
EXTENDS Naturals, FiniteSets

CONSTANTS Buckets,      \* the buckets the provider meters
          BudgetBucket, \* the one a declared ceiling is charged to
          Flushes,      \* flushes that may be under way at once
          MaxCalls,     \* bound: calls per bucket and window
          MaxWindows,   \* bound: windows of the rate limit
          MaxCrashes    \* bound: restarts of the process

VARIABLES
  window,    \* the window the provider is in; a reading of an earlier one is over
  spent,     \* External: what the provider has counted in this window
  inflight,  \* responses that carry counters and have not come back
  current,   \* readings held in memory, per bucket
  dirty,     \* buckets whose reading is to be written
  metered,   \* whether the provider was seen to meter this source
  stored,    \* the ApiQuota rows
  timer,     \* the delayed flush is armed
  flush,     \* the flushes under way
  budget,    \* the declared ceiling: cached, in the table, and who is changing it
  forgets,   \* how far the removal of the source is
  context,   \* a context of the source, with its sink, may be in use
  crashes,
  lost,      \* observation: held, without a mark, and not what is on disk
  late       \* observation: buckets recorded, or being written, once it was forgotten

vars == <<window, spent, inflight, current, dirty, metered, stored, timer, flush,
          budget, forgets, context, crashes, lost, late>>
memory == <<current, dirty, metered, timer, flush>>

Windows == 1 .. MaxWindows
NoReading == [win |-> 0, used |-> 0, origin |-> "none"]
Readings == {NoReading} \cup [win : Windows, used : 1 .. MaxCalls, origin : {"observed", "declared"}]
NoFlush == [pc |-> "idle", keys |-> {}, key |-> BudgetBucket, data |-> NoReading]

Init ==
  /\ window = 1
  /\ spent = [b \in Buckets |-> 0]
  /\ inflight = {}
  /\ current = [b \in Buckets |-> NoReading]
  /\ dirty = {}
  /\ metered = FALSE
  /\ stored = [b \in Buckets |-> NoReading]
  /\ timer = FALSE
  /\ flush = [f \in Flushes |-> NoFlush]
  /\ budget = [cached |-> FALSE, row |-> FALSE, declaring |-> "no", withdrawing |-> FALSE]
  /\ forgets = "no"
  /\ context = TRUE
  /\ crashes = 0
  /\ lost = {}
  /\ late = {}

\* The memory of a removed source has been cleared, and its removal goes on.
Forgotten == forgets \in {"budget", "rows", "done"}

-----------------------------------------------------------------------------
\* External: the provider answers a call of a bucket, with its counters; the
\* answer is not back yet. A context outlives the row it was resolved from.
Call(b) ==
  /\ context
  /\ spent[b] < MaxCalls
  /\ spent' = [spent EXCEPT ![b] = spent[b] + 1]
  /\ inflight' = inflight \cup {[bucket |-> b, win |-> window, used |-> spent[b] + 1]}
  /\ UNCHANGED <<window, memory, stored, budget, forgets, context, crashes, lost, late>>

\* External: the window of the rate limit rolls over.
Roll ==
  /\ window < MaxWindows
  /\ window' = window + 1
  /\ spent' = [b \in Buckets |-> 0]
  /\ UNCHANGED <<inflight, memory, stored, budget, forgets, context, crashes, lost, late>>

\* hold: the reading replaces the one held, is marked, and the flush armed.
hold(b, reading) ==
  /\ current' = [current EXCEPT ![b] = reading]
  /\ dirty' = dirty \cup {b}
  /\ timer' = TRUE
  /\ lost' = lost \ {b}
  /\ late' = IF Forgotten THEN late \cup {b} ELSE late

Stale_Never(held, sample) == FALSE

\* An answer of the held window, or of an earlier one, that counts less is a
\* late one.
Stale(held, sample) ==
  /\ held.origin = "observed"
  /\ sample.win <= held.win
  /\ sample.used < held.used

\* record, of a response with counters.
Record(sample) ==
  LET b == sample.bucket
  IN /\ sample \in inflight
     /\ inflight' = inflight \ {sample}
     /\ metered' = TRUE
     /\ IF Stale(current[b], sample) THEN UNCHANGED <<current, dirty, timer, lost, late>>
        ELSE hold(b, [win |-> sample.win, used |-> sample.used, origin |-> "observed"])
     /\ UNCHANGED <<window, spent, stored, flush, budget, forgets, context, crashes>>

\* countCall: one call charged to the declared ceiling; a window that is over
\* starts again at 1.
countCall(held) ==
  IF held.origin = "declared" /\ held.win >= window
  THEN [held EXCEPT !.used = held.used + 1]
  ELSE [win |-> window, used |-> 1, origin |-> "declared"]

CountsAgainstBudget_Always == budget.cached

\* countAgainstBudget counts nothing for a source its provider meters, nor
\* without a declared ceiling.
CountsAgainstBudget == ~metered /\ budget.cached

\* record, of a response without counters.
RecordUnmetered ==
  LET reading == countCall(current[BudgetBucket])
  IN /\ context
     /\ CountsAgainstBudget
     /\ reading.used <= MaxCalls
     /\ hold(BudgetBucket, reading)
     /\ UNCHANGED <<window, spent, inflight, metered, stored, flush, budget, forgets, context,
                    crashes>>

-----------------------------------------------------------------------------
\* The timer fires, or a connection test or the shutdown forces it: a flush
\* starts over the buckets marked now. An earlier one may still be writing.
FlushStart(f) ==
  /\ timer \/ dirty # {}
  /\ flush[f].pc = "idle"
  /\ timer' = FALSE
  /\ flush' = [flush EXCEPT ![f] = [NoFlush EXCEPT !.pc = "walk", !.keys = dirty]]
  /\ UNCHANGED <<window, spent, inflight, current, dirty, metered, stored, budget, forgets,
                 context, crashes, lost, late>>

\* The next marked bucket: a reading that is gone is unmarked, any other is
\* sent to the table.
FlushTake(f, b) ==
  /\ flush[f].pc = "walk"
  /\ b \in flush[f].keys
  /\ IF current[b] = NoReading
     THEN /\ dirty' = dirty \ {b}
          /\ flush' = [flush EXCEPT ![f] = [flush[f] EXCEPT !.keys = flush[f].keys \ {b}]]
     ELSE /\ flush' = [flush EXCEPT ![f] =
                         [pc |-> "write", keys |-> flush[f].keys \ {b}, key |-> b,
                          data |-> current[b]]]
          /\ UNCHANGED dirty
  /\ UNCHANGED <<window, spent, inflight, current, metered, stored, timer, budget, forgets,
                 context, crashes, lost, late>>

Unmark_BeforeTheWrite(b, ok) == dirty \ {b}

\* The mark goes once the write succeeded; a failed one leaves it for the next
\* flush.
Unmark(b, ok) == IF ok THEN dirty \ {b} ELSE dirty

\* The upsert succeeds or fails. Whatever was held since goes unwritten until
\* the bucket is read again.
FlushWrite(f, ok) ==
  LET b    == flush[f].key
      data == flush[f].data
  IN /\ flush[f].pc = "write"
     /\ stored' = IF ok THEN [stored EXCEPT ![b] = data] ELSE stored
     /\ dirty' = Unmark(b, ok)
     /\ lost' = IF ok /\ current[b] # data THEN lost \cup {b} ELSE lost
     /\ flush' = [flush EXCEPT ![f] = [NoFlush EXCEPT !.pc = "walk", !.keys = flush[f].keys]]
     /\ UNCHANGED <<window, spent, inflight, current, metered, timer, budget, forgets, context,
                    crashes, late>>

FlushEnd(f) ==
  /\ flush[f].pc = "walk"
  /\ flush[f].keys = {}
  /\ flush' = [flush EXCEPT ![f] = NoFlush]
  /\ UNCHANGED <<window, spent, inflight, current, dirty, metered, stored, timer, budget, forgets,
                 context, crashes, lost, late>>

-----------------------------------------------------------------------------
\* declareForSource, of a source that is there: then the row, then the cache.
DeclareAsked ==
  /\ forgets = "no" /\ budget.declaring = "no"
  /\ budget' = [budget EXCEPT !.declaring = "row"]
  /\ UNCHANGED <<window, spent, inflight, memory, stored, forgets, context, crashes, lost, late>>

DeclareRow ==
  /\ budget.declaring = "row"
  /\ budget' = [budget EXCEPT !.row = TRUE, !.declaring = "cache"]
  /\ UNCHANGED <<window, spent, inflight, memory, stored, forgets, context, crashes, lost, late>>

DeclareCache ==
  /\ budget.declaring = "cache"
  /\ budget' = [budget EXCEPT !.cached = TRUE, !.declaring = "no"]
  /\ UNCHANGED <<window, spent, inflight, memory, stored, forgets, context, crashes, lost, late>>

\* ApiBudgetService.forget: the cache, then the row. A removal of the source
\* does the same on its way.
WithdrawCache ==
  /\ ~budget.withdrawing
  /\ budget' = [budget EXCEPT !.cached = FALSE, !.withdrawing = TRUE]
  /\ UNCHANGED <<window, spent, inflight, memory, stored, forgets, context, crashes, lost, late>>

WithdrawRow ==
  /\ budget.withdrawing
  /\ budget' = [budget EXCEPT !.row = FALSE, !.withdrawing = FALSE]
  /\ UNCHANGED <<window, spent, inflight, memory, stored, forgets, context, crashes, lost, late>>

-----------------------------------------------------------------------------
Cleared_Nothing == [current |-> current, dirty |-> dirty]

\* Everything held about the source goes, before anything is awaited.
Cleared == [current |-> [b \in Buckets |-> NoReading], dirty |-> {}]

\* remove: the row of the source goes, and with it any new context.
RemoveSource ==
  /\ forgets = "no"
  /\ forgets' = "removed"
  /\ UNCHANGED <<window, spent, inflight, memory, stored, budget, context, crashes, lost, late>>

\* forget: memory first, then the declaration, then the rows, each awaited.
ForgetMemory ==
  /\ forgets = "removed"
  /\ forgets' = "budget"
  /\ current' = Cleared.current
  /\ dirty' = Cleared.dirty
  /\ metered' = FALSE
  /\ budget' = [budget EXCEPT !.cached = FALSE]
  /\ lost' = {}
  /\ late' = {flush[f].key : f \in {g \in Flushes : flush[g].pc = "write"}}
  /\ UNCHANGED <<window, spent, inflight, stored, timer, flush, context, crashes>>

ForgetBudget ==
  /\ forgets = "budget"
  /\ forgets' = "rows"
  /\ budget' = [budget EXCEPT !.row = FALSE]
  /\ UNCHANGED <<window, spent, inflight, memory, stored, context, crashes, lost, late>>

ForgetRows ==
  /\ forgets = "rows"
  /\ forgets' = "done"
  /\ stored' = [b \in Buckets |-> NoReading]
  /\ lost' = {b \in Buckets : current[b] # NoReading}
  /\ UNCHANGED <<window, spent, inflight, memory, budget, context, crashes, late>>

\* One of the two threw: what it and the rest would have deleted stays, and no
\* removal of the source can be asked for again.
ForgetFails ==
  /\ forgets \in {"budget", "rows"}
  /\ forgets' = "broken"
  /\ UNCHANGED <<window, spent, inflight, memory, stored, budget, context, crashes, lost, late>>

\* The process stops, writing nothing, and starts again: the readings and the
\* ceiling are loaded from their tables, unless the load fails. Nobody goes on
\* with a removal, nor with a context.
Restart(loaded) ==
  /\ crashes < MaxCrashes
  /\ crashes' = crashes + 1
  /\ current' = IF loaded THEN stored ELSE [b \in Buckets |-> NoReading]
  /\ metered' = (loaded /\ \E b \in Buckets : stored[b].origin = "observed")
  /\ dirty' = {}
  /\ timer' = FALSE
  /\ flush' = [f \in Flushes |-> NoFlush]
  /\ inflight' = {}
  /\ budget' = [cached |-> loaded /\ budget.row, row |-> budget.row, declaring |-> "no",
                withdrawing |-> FALSE]
  /\ forgets' = IF forgets \in {"removed", "budget", "rows"} THEN "broken" ELSE forgets
  /\ context' = (forgets = "no")
  /\ lost' = {}
  /\ UNCHANGED <<window, spent, stored, late>>

Next ==
  \/ \E b \in Buckets : Call(b)
  \/ Roll
  \/ \E sample \in inflight : Record(sample)
  \/ RecordUnmetered
  \/ \E f \in Flushes : \/ FlushStart(f)
                        \/ \E b \in Buckets : FlushTake(f, b)
                        \/ \E ok \in BOOLEAN : FlushWrite(f, ok)
                        \/ FlushEnd(f)
  \/ DeclareAsked \/ DeclareRow \/ DeclareCache \/ WithdrawCache \/ WithdrawRow
  \/ RemoveSource \/ ForgetMemory \/ ForgetBudget \/ ForgetRows \/ ForgetFails
  \/ \E loaded \in BOOLEAN : Restart(loaded)

Spec == Init /\ [][Next]_vars

-----------------------------------------------------------------------------
TypeOK ==
  /\ window \in Windows
  /\ spent \in [Buckets -> 0 .. MaxCalls]
  /\ inflight \subseteq [bucket : Buckets, win : Windows, used : 1 .. MaxCalls]
  /\ current \in [Buckets -> Readings] /\ stored \in [Buckets -> Readings]
  /\ dirty \subseteq Buckets /\ lost \subseteq Buckets /\ late \subseteq Buckets
  /\ metered \in BOOLEAN /\ timer \in BOOLEAN /\ context \in BOOLEAN
  /\ flush \in [Flushes -> [pc : {"idle", "walk", "write"}, keys : SUBSET Buckets,
                            key : Buckets, data : Readings]]
  /\ budget \in [cached : BOOLEAN, row : BOOLEAN, declaring : {"no", "row", "cache"},
                 withdrawing : BOOLEAN]
  /\ forgets \in {"no", "removed", "budget", "rows", "done", "broken"}
  /\ crashes \in 0 .. MaxCrashes

\* Answers that come back out of order never make the consumption of a window
\* shrink: a reading of the same window only counts up.
CountNeverShrinks ==
  \A b \in Buckets :
    /\ current[b].origin = "observed" /\ current'[b].origin = "observed"
    /\ current'[b].win = current[b].win /\ crashes' = crashes
    => current'[b].used >= current[b].used

\* A reading of the provider is never replaced by a local count: only a
\* restart, which may lose it, starts the counting again.
ObservedIsNotRecounted ==
  \A b \in Buckets :
    current[b].origin = "observed" /\ current'[b].origin = "declared" => crashes' # crashes

\* A bucket without a mark is on disk as it is in memory, through failed
\* writes and overlapping flushes, except where a reading came in while the one
\* before it was being written (flush unmarks it all the same, and nothing
\* writes it until the bucket is read again), or the rows were deleted under it.
StoredLagsOnlyByRace ==
  \A b \in Buckets :
    current[b] # NoReading /\ b \notin dirty \cup lost => stored[b] = current[b]

\* What was held of a source when it was forgotten never writes itself back: a
\* row it has after that was being written then, or is of a bucket somebody who
\* had resolved the source before has recorded since (forget).
NothingHeldComesBack ==
  forgets = "done" => \A b \in Buckets : stored[b] # NoReading => b \in late
=============================================================================
