--------------------------- MODULE WebhookDelivery ---------------------------
(***************************************************************************)
(* From a provider's delivery to the rows it asks for: WebhookService      *)
(* .accept on several API instances, the job it queues, IngestProcessor    *)
(* .process, the sweep of the delivery records, and the operations of      *)
(* SourcesService that decide whether a source listens (WebhookSecret).    *)
(*                                                                         *)
(* One source.  An event is something the provider has to say; it delivers *)
(* each at least once, and stops retrying RETRY_WINDOW after the first.    *)
(* What the rows become is PullRequestStore's and RunStore's business:     *)
(* here an event is applied or it is not.                                  *)
(***************************************************************************)
EXTENDS Naturals

CONSTANTS
  Events,             \* what the provider has to say, all under one header
  Telling,            \* the ones toIntent has an intent for
  Handlers,           \* requests in flight, whatever the instance
  Admins,             \* administrators editing the source
  Stamped,            \* the ones the provider delivers under an id of its own
  RETRY_WINDOW,       \* how long the provider keeps redelivering
  REQUEST_TIME,       \* how long a request lives
  DELIVERY_RETENTION, \* how long a delivery is remembered
  ATTEMPTS,           \* what a job gets before it is given up on
  MaxTime, MaxSends, MaxFaults, MaxSecrets  \* bounds

ASSUME DeliveryAssumption ==
  /\ Telling \subseteq Events
  /\ Stamped \subseteq Events /\ Stamped \cap (1 .. MaxTime) = {}
  /\ RETRY_WINDOW \in Nat /\ REQUEST_TIME \in Nat /\ DELIVERY_RETENTION \in Nat
  /\ RETRY_WINDOW + REQUEST_TIME <= DELIVERY_RETENTION
  /\ ATTEMPTS \in Nat \ {0}
  /\ MaxTime \in Nat \ {0} /\ MaxSends \in Nat /\ MaxFaults \in Nat
  /\ MaxSecrets \in Nat \ {0}

VARIABLES
  now,       \* the clock, in the smallest unit Date.now() tells apart
  hook,      \* the secret the provider signs with
  born,      \* when an event was first delivered, Null before
  sends,     \* deliveries so far
  enabled, secret, issued, admin, stale, left,   \* WebhookSecret
  seen,      \* WebhookDelivery: receivedAt by delivery id, Null when absent
  handler,   \* the requests being handled
  queued,    \* jobs added for each event
  job,       \* the jobs of the ingest queue, the k-th of an event at <<e, k>>
  applied,   \* events whose rows have been written
  answered,  \* observation: what the deliveries of each event were answered
  faults     \* requests that failed or died halfway so far

provider == <<hook, born, sends>>
source == <<enabled, secret, issued, admin, stale, left>>
ingest == <<queued, job, applied>>
vars == <<now, provider, source, seen, handler, ingest, answered, faults>>

Null == 0

Switch == INSTANCE WebhookSecret

\* Delivery ids: the provider's, and the ones made of the clock.
Ids == Stamped \cup 1 .. MaxTime

Idle == [step |-> "idle"]

Handling == [step: {"verified", "remembered"}, event: Events, id: Ids, since: Nat]

NoJob == [state |-> "none", tries |-> 0, stalled |-> FALSE]

NewJob == [state |-> "waiting", tries |-> 0, stalled |-> FALSE]

Jobs == Events \X (1 .. MaxSends)

Init ==
  /\ now = 1
  /\ born = [e \in Events |-> Null] /\ sends = 0
  /\ Switch!Init /\ hook = issued
  /\ seen = [id \in Ids |-> Null]
  /\ handler = [h \in Handlers |-> Idle]
  /\ queued = [e \in Events |-> 0]
  /\ job = [j \in Jobs |-> NoJob]
  /\ applied = {}
  /\ answered = [e \in Events |-> {}]
  /\ faults = 0

----------------------------------------------------------------------------
(* The environment (external).                                             *)

\* No request outlives REQUEST_TIME.
Tick ==
  /\ now < MaxTime
  /\ \A h \in Handlers :
       handler[h].step # "idle" => now < handler[h].since + REQUEST_TIME
  /\ now' = now + 1
  /\ UNCHANGED <<provider, source, seen, handler, ingest, answered, faults>>

\* The operator pastes the secret last issued into the provider's form.
Configure ==
  /\ hook # issued
  /\ hook' = issued
  /\ UNCHANGED <<now, born, sends, source, seen, handler, ingest, answered, faults>>

\* An administrator's request takes a step.
EditSource ==
  /\ Switch!Next
  /\ UNCHANGED <<now, provider, seen, handler, ingest, answered, faults>>

----------------------------------------------------------------------------
(* WebhookService.accept, up to its awaits.                                *)

\* The id verify returns: the provider's, or the event and the millisecond.
DeliveryId(e) == IF e \in Stamped THEN e ELSE now

\* Answers the request h was handling.
Answer(h, e, answer) ==
  /\ handler' = [handler EXCEPT ![h] = Idle]
  /\ answered' = [answered EXCEPT ![e] = @ \cup {answer}]

\* A delivery arrives.  The source is read, and the signature is verified
\* against the secret that reading returned.
Deliver(h, e) ==
  /\ handler[h] = Idle /\ sends < MaxSends
  /\ born[e] = Null \/ now <= born[e] + RETRY_WINDOW
  /\ born' = [born EXCEPT ![e] = IF @ = Null THEN now ELSE @]
  /\ sends' = sends + 1
  /\ \/ /\ enabled /\ secret # Null /\ hook = secret
        /\ handler' = [handler EXCEPT ![h] =
                         [step |-> "verified", event |-> e,
                          id |-> DeliveryId(e), since |-> now]]
        /\ UNCHANGED answered
     \/ /\ ~(enabled /\ secret # Null /\ hook = secret)
        /\ Answer(h, e, "refused")
  /\ UNCHANGED <<now, hook, source, seen, ingest, faults>>

\* Mutant: looking the id up before creating it leaves the record to the
\* caller that looked second.
Remember_Unchecked(h) ==
  LET q == handler[h] IN
  /\ q.step = "verified"
  /\ seen' = [seen EXCEPT ![q.id] = now]
  /\ handler' = [handler EXCEPT ![h] = [q EXCEPT !.step = "remembered"]]
  /\ UNCHANGED <<now, provider, source, ingest, answered, faults>>

\* remember: the unique index decides who handles the delivery.
Remember(h) ==
  LET q == handler[h] IN
  /\ q.step = "verified"
  /\ \/ /\ seen[q.id] = Null
        /\ seen' = [seen EXCEPT ![q.id] = now]
        /\ handler' = [handler EXCEPT ![h] = [q EXCEPT !.step = "remembered"]]
        /\ UNCHANGED answered
     \/ /\ seen[q.id] # Null
        /\ Answer(h, q.event, "duplicate")
        /\ UNCHANGED seen
  /\ UNCHANGED <<now, provider, source, ingest, faults>>

\* toIntent has nothing to say.
Ignore(h) ==
  LET q == handler[h] IN
  /\ q.step = "remembered" /\ q.event \notin Telling
  /\ Answer(h, q.event, "ignored")
  /\ UNCHANGED <<now, provider, source, seen, ingest, faults>>

\* queue.add, with no job id of its own: every call adds a job.
QueueAdd(h) ==
  LET q == handler[h]
      k == queued[q.event] + 1 IN
  /\ q.step = "remembered" /\ q.event \in Telling
  /\ queued' = [queued EXCEPT ![q.event] = k]
  /\ job' = [job EXCEPT ![<<q.event, k>>] = NewJob]
  /\ Answer(h, q.event, "accepted")
  /\ UNCHANGED <<now, provider, source, seen, applied, faults>>

\* The insert or queue.add throws, or the instance dies: the caller gets a
\* 500 or nothing, and whatever was recorded stays.
Break(h) ==
  /\ handler[h].step # "idle" /\ faults < MaxFaults
  /\ faults' = faults + 1
  /\ Answer(h, handler[h].event, "error")
  /\ UNCHANGED <<now, provider, source, seen, ingest>>

----------------------------------------------------------------------------
(* The ingest queue (external, as BullMQ runs it) and IngestProcessor.     *)

Take(j) ==
  /\ job[j].state = "waiting"
  /\ job' = [job EXCEPT ![j].state = "active"]
  /\ UNCHANGED <<now, provider, source, seen, handler, queued, applied,
                 answered, faults>>

\* process writes the rows through the store.
Process(j) ==
  /\ job[j].state = "active"
  /\ applied' = applied \cup {j[1]}
  /\ job' = [job EXCEPT ![j].state = "written"]
  /\ UNCHANGED <<now, provider, source, seen, handler, queued, answered, faults>>

\* What follows the write (askForReading) is caught, so the job completes.
Complete(j) ==
  /\ job[j].state = "written"
  /\ job' = [job EXCEPT ![j].state = "completed"]
  /\ UNCHANGED <<now, provider, source, seen, handler, queued, applied,
                 answered, faults>>

\* Mutant: the tries of a job are not counted.
Retried_Uncounted(q) == [q EXCEPT !.state = "waiting"]

\* Mutant: one attempt too many.
Retried_OneMore(q) ==
  [state |-> IF q.tries + 1 <= ATTEMPTS THEN "waiting" ELSE "failed",
   tries |-> q.tries + 1, stalled |-> q.stalled]

\* JOB_RETRIES: back to the queue until the attempts are spent.
Retried(q) ==
  [state |-> IF q.tries + 1 < ATTEMPTS THEN "waiting" ELSE "failed",
   tries |-> q.tries + 1, stalled |-> q.stalled]

\* The store refuses the write.
FailJob(j) ==
  /\ job[j].state = "active"
  /\ job' = [job EXCEPT ![j] = Retried(@)]
  /\ UNCHANGED <<now, provider, source, seen, handler, queued, applied,
                 answered, faults>>

\* The worker dies: the job is taken back once, then given up on.
TakenBack(q) ==
  [state |-> IF q.stalled THEN "failed" ELSE "waiting",
   tries |-> q.tries, stalled |-> TRUE]

Stall(j) ==
  /\ job[j].state \in {"active", "written"}
  /\ job' = [job EXCEPT ![j] = TakenBack(@)]
  /\ UNCHANGED <<now, provider, source, seen, handler, queued, applied,
                 answered, faults>>

----------------------------------------------------------------------------

\* Mutant: the record goes with the provider's retries.
Expired_Early(id) == seen[id] # Null /\ seen[id] + RETRY_WINDOW <= now

\* RetentionService.prune keeps what was received at the cutoff.
Expired(id) == seen[id] # Null /\ seen[id] + DELIVERY_RETENTION < now

Prune ==
  /\ \E id \in Ids : Expired(id)
  /\ seen' = [id \in Ids |-> IF Expired(id) THEN Null ELSE seen[id]]
  /\ UNCHANGED <<now, provider, source, handler, ingest, answered, faults>>

Next ==
  \/ Tick \/ Configure \/ Prune \/ EditSource
  \/ \E h \in Handlers, e \in Events : Deliver(h, e)
  \/ \E h \in Handlers : Remember(h) \/ Ignore(h) \/ QueueAdd(h) \/ Break(h)
  \/ \E j \in Jobs : Take(j) \/ Process(j) \/ Complete(j) \/ FailJob(j) \/ Stall(j)

Spec == Init /\ [][Next]_vars

\* Handlers and the worker run; nothing obliges the provider, the clock, an
\* administrator or a failure.
FairSpec ==
  /\ Spec
  /\ \A h \in Handlers : WF_vars(Remember(h) \/ Ignore(h) \/ QueueAdd(h))
  /\ \A j \in Jobs : WF_vars(Take(j) \/ Process(j) \/ Complete(j))

----------------------------------------------------------------------------
(* What is checked.                                                        *)

TypeOK ==
  /\ now \in 1 .. MaxTime /\ hook \in Nat
  /\ born \in [Events -> Nat] /\ sends \in 0 .. MaxSends
  /\ Switch!TypeOK
  /\ seen \in [Ids -> Nat]
  /\ handler \in [Handlers -> Handling \cup {Idle}]
  /\ queued \in [Events -> Nat]
  /\ job \in [Jobs -> [state: {"none", "waiting", "active", "written",
                               "completed", "failed"},
                       tries: 0 .. ATTEMPTS, stalled: BOOLEAN]]
  /\ applied \subseteq Events
  /\ answered \in [Events -> SUBSET {"accepted", "duplicate", "ignored",
                                     "refused", "error"}]
  /\ faults \in 0 .. MaxFaults

\* With an id of the provider's own, an event is queued once at most: however
\* often it is delivered, to however many instances, and although the record
\* that recognises it is swept.
HandledOnce == \A e \in Stamped : queued[e] <= 1

\* What makes it so: someone holds the event or has handled it, and then the
\* record is there, or the last request of that event is over.
Claims(e) == {h \in Handlers : handler[h].step = "remembered" /\ handler[h].event = e}

\* An event is claimed by one request, and not after it has been queued.
OneClaim ==
  \A e \in Stamped :
    /\ \A h, g \in Claims(e) : h = g
    /\ Claims(e) # {} => queued[e] = 0
    /\ queued[e] <= 1

\* A claimed or queued event is on record for as long as a delivery of it may
\* still be handled.
RecordOutlivesRetries ==
  \A e \in Stamped :
    Claims(e) # {} \/ queued[e] > 0 =>
      \/ seen[e] # Null /\ born[e] <= seen[e]
      \/ now > born[e] + DELIVERY_RETENTION

\* A request carries the id of its event, and started while the provider was
\* still delivering it.
RequestsAreTimely ==
  /\ \A e \in Events : born[e] <= now
  /\ \A h \in Handlers : handler[h].step # "idle" =>
       /\ handler[h].event \in Stamped \/ handler[h].id \in Stamped =>
            handler[h].id = handler[h].event
       /\ born[handler[h].event] # Null
       /\ born[handler[h].event] <= handler[h].since
       /\ handler[h].since <= now
       /\ handler[h].since <= born[handler[h].event] + RETRY_WINDOW
       /\ now <= handler[h].since + REQUEST_TIME
  /\ \A e \in Stamped : seen[e] # Null \/ queued[e] > 0 => born[e] # Null

DeliveryInv == OneClaim /\ RecordOutlivesRetries /\ RequestsAreTimely

\* Whoever loses the insert knows that somebody else is already handling the
\* delivery: its event is about to be queued, or has been.
DuplicateIsHandled ==
  \A e \in Telling \cap Stamped :
    "duplicate" \in answered[e] => Claims(e) # {} \/ queued[e] > 0

Exhausted(e) == \E k \in 1 .. MaxSends : job[<<e, k>>].state = "failed"

\* An event the provider was told had arrived, as a first delivery or as a
\* repeat, is written in the end, unless its job spent its attempts or one of
\* its requests broke halfway.
HeardIsApplied ==
  \A e \in Telling \cap Stamped :
    answered[e] \cap {"accepted", "duplicate"} # {}
      ~> e \in applied \/ Exhausted(e) \/ "error" \in answered[e]

\* Where an event of the provider's own id is: its request, its job, its rows
\* or its record say so.
Stage(e) ==
  IF Claims(e) # {} THEN "claimed"
  ELSE IF e \in applied THEN "applied"
  ELSE IF Exhausted(e) THEN "failed"
  ELSE IF queued[e] > 0 THEN "queued"
  ELSE IF seen[e] # Null \/ (born[e] # Null /\ now > born[e] + DELIVERY_RETENTION)
       THEN "lost" ELSE "unheard"

Life == INSTANCE EventLife WITH
          Events <- Stamped, stage <- [e \in Stamped |-> Stage(e)]

\* The requests, the unique index, the queue and the sweep together keep the
\* promise of EventLife: every event with an id of its own lives one life,
\* however its deliveries repeat, race, break and are forgotten.
KeepsEventLife == Life!Spec
=============================================================================
