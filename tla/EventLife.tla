------------------------------ MODULE EventLife ------------------------------
(***************************************************************************)
(* What the ingest promises of an event the provider delivers under an id  *)
(* of its own, whatever becomes of its deliveries: one request takes it up,*)
(* one job carries it, it is written or given up on, and nothing that has  *)
(* been taken up stays in the air.  WebhookDelivery implements it.         *)
(***************************************************************************)
CONSTANT Events

VARIABLE stage   \* where each event is

Moves ==
  { <<"unheard", "claimed">>,   \* a request has the record of its delivery
    <<"unheard", "lost">>,      \* the provider has given up delivering it
    <<"claimed", "queued">>,
    <<"claimed", "lost">>,      \* nothing to do, or the request broke halfway
    <<"queued", "applied">>,
    <<"queued", "failed">> }    \* the job spent its attempts

Init == stage = [e \in Events |-> "unheard"]

\* Events move apart or together (the clock gives up on several), each along
\* the one road: none goes back, and none skips a step.
Next == \A e \in Events : stage'[e] # stage[e] => <<stage[e], stage'[e]>> \in Moves

Settled(e) == stage[e] \in {"applied", "failed", "lost"}

Safe == Init /\ [][Next]_stage

Spec == Safe /\ \A e \in Events : stage[e] \in {"claimed", "queued"} ~> Settled(e)
=============================================================================
