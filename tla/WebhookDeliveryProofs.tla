------------------------ MODULE WebhookDeliveryProofs ------------------------
(***************************************************************************)
(* Proofs about WebhookDelivery, for any number of requests, events,       *)
(* redeliveries and faults: its types, that an event is queued once at     *)
(* most, and that every step is a step of EventLife or leaves the event    *)
(* where it is.                                                            *)
(***************************************************************************)
EXTENDS WebhookDelivery, TLAPS

JobRecord == [state: {"none", "waiting", "active", "written", "completed", "failed"},
              tries: 0 .. ATTEMPTS, stalled: BOOLEAN]

\* The fields of a request that is being handled.
LEMMA RequestParts ==
  ASSUME NEW q \in Handling \cup {Idle}
  PROVE  /\ q.step \in {"idle", "verified", "remembered"}
         /\ q.step # "idle" =>
              q \in Handling /\ q.event \in Events /\ q.id \in Ids /\ q.since \in Nat
  BY DEF Handling, Idle

\* Recording a delivery keeps its request well formed.
LEMMA RememberedType ==
  ASSUME NEW q \in Handling
  PROVE  /\ [q EXCEPT !.step = "remembered"] \in Handling
         /\ [q EXCEPT !.step = "remembered"].step = "remembered"
         /\ [q EXCEPT !.step = "remembered"].event = q.event
         /\ [q EXCEPT !.step = "remembered"].id = q.id
         /\ [q EXCEPT !.step = "remembered"].since = q.since
  BY DEF Handling

\* A job that may still run has attempts left.
Unspent(q) == q.state \in {"none", "waiting", "active", "written"} => q.tries < ATTEMPTS

\* Moving a job along keeps it well formed.
LEMMA MovedType ==
  ASSUME NEW q \in JobRecord, Unspent(q),
         NEW s \in {"waiting", "active", "written", "completed"},
         q.state \in {"none", "waiting", "active", "written"}
  PROVE  /\ [q EXCEPT !.state = s] \in JobRecord
         /\ Unspent([q EXCEPT !.state = s])
  BY DEF JobRecord, Unspent

\* A job taken back after its worker died.
LEMMA TakenBackType ==
  ASSUME NEW q \in JobRecord, Unspent(q), q.state \in {"active", "written"}
  PROVE  TakenBack(q) \in JobRecord /\ Unspent(TakenBack(q))
  BY DEF JobRecord, Unspent, TakenBack

\* A job whose attempt failed.
LEMMA RetriedType ==
  ASSUME NEW q \in JobRecord, Unspent(q), q.state = "active"
  PROVE  Retried(q) \in JobRecord /\ Unspent(Retried(q))
  <1>1. q.tries \in Nat /\ q.tries < ATTEMPTS
    BY DeliveryAssumption DEF JobRecord, Unspent
  <1>2. CASE q.tries + 1 < ATTEMPTS
    BY <1>1, <1>2, DeliveryAssumption DEF JobRecord, Unspent, Retried
  <1>3. CASE ~(q.tries + 1 < ATTEMPTS)
    BY <1>1, <1>3, DeliveryAssumption DEF JobRecord, Unspent, Retried
  <1> QED BY <1>2, <1>3

\* What leaves the source alone leaves it well formed.
LEMMA SwitchRests ==
  ASSUME Switch!TypeOK, UNCHANGED source
  PROVE  Switch!TypeOK'
BY DEF Switch!TypeOK, source

\* The requests of the administrators keep the switch and its secret well formed.
LEMMA SwitchTypes ==
  ASSUME Switch!TypeOK, Switch!Next
  PROVE  Switch!TypeOK'
<1> USE DEF Switch!Next, Switch!SwitchOn, Switch!SwitchOff, Switch!DropSecret,
           Switch!AskForSecret, Switch!IssueSecret, Switch!BreakEdit, Switch!TypeOK
<1>1. enabled' \in BOOLEAN
  OBVIOUS
<1>2. secret' \in Nat /\ issued' \in Nat /\ stale' \in Nat
  BY DEF Switch!Null
<1>3. admin' \in [Admins -> {"idle", "dropping", "issuing"}]
  OBVIOUS
<1>4. left' \in {"no", "lost", "overtaken"}
  OBVIOUS
<1> QED
  BY <1>1, <1>2, <1>3, <1>4

----------------------------------------------------------------------------

JobsRun == \A j \in Jobs : Unspent(job[j])

\* One step on one job, with the rest of the state left alone.
JobStep(j) == Take(j) \/ Process(j) \/ Complete(j) \/ FailJob(j) \/ Stall(j)

\* The type invariant of WebhookDelivery: every request, record, job and
\* answer stays in its set, and a job never spends more than its attempts.
THEOREM DeliveryTypeCorrect == Spec => []TypeOK
<1> DEFINE Inv == TypeOK /\ JobsRun
<1>1. Init => Inv
  <2> SUFFICES ASSUME Init PROVE Inv
    OBVIOUS
  <2>1. NoJob \in JobRecord /\ Unspent(NoJob)
    BY DeliveryAssumption DEF NoJob, JobRecord, Unspent
  <2>2. job \in [Jobs -> JobRecord] /\ JobsRun
    BY <2>1 DEF Init, JobsRun
  <2>3. now \in 1 .. MaxTime /\ faults \in 0 .. MaxFaults
    BY DeliveryAssumption DEF Init
  <2>4. /\ born \in [Events -> Nat] /\ sends \in 0 .. MaxSends
        /\ queued \in [Events -> Nat] /\ seen \in [Ids -> Nat]
    BY DeliveryAssumption DEF Init, Null
  <2>5. Switch!TypeOK
    <3>1. enabled \in BOOLEAN
      BY DEF Init, Switch!Init
    <3> QED BY <3>1 DEF Init, Switch!Init, Switch!TypeOK, Switch!Null
  <2>6. hook \in Nat
    BY <2>5 DEF Init, Switch!TypeOK
  <2>7. /\ handler \in [Handlers -> Handling \cup {Idle}]
        /\ applied \subseteq Events
        /\ answered \in [Events -> SUBSET {"accepted", "duplicate", "ignored",
                                           "refused", "error"}]
    BY DEF Init
  <2>8. TypeOK
    BY <2>2, <2>3, <2>4, <2>5, <2>6, <2>7 DEF TypeOK, JobRecord
  <2> QED BY <2>2, <2>8
<1>2. Inv /\ [Next]_vars => Inv'
  <2> SUFFICES ASSUME Inv, [Next]_vars PROVE Inv'
    OBVIOUS
  <2> USE DEF Inv
  <2>0. job \in [Jobs -> JobRecord]
    BY DEF TypeOK, JobRecord
  <2>a. ASSUME job' \in [Jobs -> JobRecord] PROVE
          job' \in [Jobs -> [state: {"none", "waiting", "active", "written",
                                      "completed", "failed"},
                             tries: 0 .. ATTEMPTS, stalled: BOOLEAN]]
    BY <2>a DEF JobRecord
  <2>1. CASE Tick
    BY <2>1, SwitchRests, DeliveryAssumption DEF Tick, TypeOK, JobsRun, provider, ingest
  <2>2. CASE Configure
    <3>1. hook' \in Nat
      BY <2>2 DEF Configure, TypeOK, Switch!TypeOK
    <3> QED BY <2>2, <3>1, SwitchRests DEF Configure, TypeOK, JobsRun, ingest
  <2>3. CASE Prune
    BY <2>3, SwitchRests DEF Prune, TypeOK, JobsRun, provider, ingest, Null
  <2>4. CASE EditSource
    <3>1. Switch!TypeOK'
      <4>1. Switch!TypeOK /\ Switch!Next
        BY <2>4 DEF EditSource, TypeOK
      <4> QED BY <4>1, SwitchTypes
    <3>2. UNCHANGED <<now, hook, born, sends, seen, handler, queued, job, applied,
                      answered, faults>>
      BY <2>4 DEF EditSource, provider, ingest
    <3> QED BY <3>1, <3>2 DEF TypeOK, JobsRun
  <2>5. ASSUME NEW h \in Handlers, NEW e \in Events, Deliver(h, e) PROVE Inv'
    <3>1. DeliveryId(e) \in Ids /\ now \in Nat
      BY DeliveryAssumption DEF DeliveryId, Ids, TypeOK
    <3>2. [step |-> "verified", event |-> e, id |-> DeliveryId(e), since |-> now] \in Handling
      BY <3>1 DEF Handling
    <3>3. /\ handler' \in [Handlers -> Handling \cup {Idle}]
          /\ answered' \in [Events -> SUBSET {"accepted", "duplicate", "ignored",
                                              "refused", "error"}]
      BY <2>5, <3>2 DEF Deliver, Answer, TypeOK
    <3>4. /\ born' \in [Events -> Nat] /\ sends' \in 0 .. MaxSends
      BY <2>5, <3>1, DeliveryAssumption DEF Deliver, TypeOK
    <3>5. UNCHANGED <<now, hook, seen, queued, job, applied, faults>> /\ Switch!TypeOK'
      BY <2>5, SwitchRests DEF Deliver, ingest, TypeOK
    <3> QED BY <3>3, <3>4, <3>5 DEF TypeOK, JobsRun
  <2>6. ASSUME NEW h \in Handlers, Remember(h) \/ Ignore(h) \/ QueueAdd(h) \/ Break(h)
        PROVE  Inv'
    <3> DEFINE q == handler[h]
    <3>1. q \in Handling
      BY <2>6, RequestParts DEF Remember, Ignore, QueueAdd, Break, TypeOK
    <3>2. /\ q.event \in Events /\ q.id \in Ids
          /\ [q EXCEPT !.step = "remembered"] \in Handling
      BY <3>1, RememberedType DEF Handling
    <3>3. UNCHANGED <<now, hook, born, sends, applied>> /\ Switch!TypeOK'
      BY <2>6, SwitchRests DEF Remember, Ignore, QueueAdd, Break, provider, ingest, TypeOK
    <3>4. handler' \in [Handlers -> Handling \cup {Idle}]
      BY <2>6, <3>2 DEF Remember, Ignore, QueueAdd, Break, Answer, TypeOK
    <3>5. answered' \in [Events -> SUBSET {"accepted", "duplicate", "ignored",
                                           "refused", "error"}]
      BY <2>6, <3>2 DEF Remember, Ignore, QueueAdd, Break, Answer, TypeOK
    <3>6. seen' \in [Ids -> Nat]
      BY <2>6, <3>2 DEF Remember, Ignore, QueueAdd, Break, TypeOK
    <3>7. queued' \in [Events -> Nat] /\ faults' \in 0 .. MaxFaults
      BY <2>6, <3>2, DeliveryAssumption
      DEF Remember, Ignore, QueueAdd, Break, ingest, TypeOK
    <3>8. job' \in [Jobs -> JobRecord] /\ JobsRun'
      <4>1. CASE job' = job
        BY <4>1, <2>0 DEF JobsRun
      <4>2. CASE QueueAdd(h)
        <5>1. NewJob \in JobRecord /\ Unspent(NewJob)
          BY DeliveryAssumption DEF NewJob, JobRecord, Unspent
        <5>2. job' = [job EXCEPT ![<<q.event, queued[q.event] + 1>>] = NewJob]
          BY <4>2 DEF QueueAdd
        <5> QED BY <5>1, <5>2, <2>0 DEF JobsRun
      <4> QED BY <2>6, <4>1, <4>2 DEF Remember, Ignore, Break, ingest
    <3> QED BY <3>3, <3>4, <3>5, <3>6, <3>7, <3>8, <2>a DEF TypeOK
  <2>7. ASSUME NEW j \in Jobs, JobStep(j) PROVE Inv'
    <3>1. job[j] \in JobRecord /\ Unspent(job[j])
      BY <2>0 DEF JobsRun
    <3>2. /\ UNCHANGED <<now, hook, born, sends, seen, handler, queued, answered, faults>>
          /\ Switch!TypeOK'
      BY <2>7, SwitchRests DEF JobStep, Take, Process, Complete, FailJob, Stall, provider, TypeOK
    <3>3. applied' \subseteq Events
      BY <2>7 DEF JobStep, Take, Process, Complete, FailJob, Stall, TypeOK, Jobs
    <3>4. PICK r : /\ job' = [job EXCEPT ![j] = r]
                   /\ r \in JobRecord /\ Unspent(r)
      <4>1. CASE Take(j)
        BY <4>1, <3>1, MovedType DEF Take
      <4>2. CASE Process(j)
        BY <4>2, <3>1, MovedType DEF Process
      <4>3. CASE Complete(j)
        BY <4>3, <3>1, MovedType DEF Complete
      <4>4. CASE FailJob(j)
        BY <4>4, <3>1, RetriedType DEF FailJob
      <4>5. CASE Stall(j)
        BY <4>5, <3>1, TakenBackType DEF Stall
      <4> QED BY <2>7, <4>1, <4>2, <4>3, <4>4, <4>5 DEF JobStep
    <3>5. job' \in [Jobs -> JobRecord] /\ JobsRun'
      BY <2>0, <3>4 DEF JobsRun
    <3> QED BY <3>2, <3>3, <3>5, <2>a DEF TypeOK
  <2>8. CASE UNCHANGED vars
    BY <2>8, SwitchRests DEF vars, provider, ingest, TypeOK, JobsRun
  <2> QED
    BY <2>1, <2>2, <2>3, <2>4, <2>5, <2>6, <2>7, <2>8 DEF Next, JobStep
<1> QED
  BY <1>1, <1>2, PTL DEF Spec

----------------------------------------------------------------------------
(* An event is queued once.  The record of a claimed event is there as     *)
(* long as a request for it may be in flight, because the retries and the  *)
(* request both end before the retention does.                             *)

\* A step that touches no request, no record and no count.
LEMMA DeliveryInvStutters ==
  ASSUME DeliveryInv, UNCHANGED <<now, born, seen, handler, queued>>
  PROVE  DeliveryInv'
  BY DEF DeliveryInv, OneClaim, RecordOutlivesRetries, RequestsAreTimely, Claims, Null

\* DeliveryInv holds of every reachable state: one claim per event delivered
\* under an id of its own, on record for as long as it matters.
THEOREM DeliveriesAreClaimedOnce == Spec => []DeliveryInv
<1> USE DEF Ids
<1>1. Init => DeliveryInv
  BY DeliveryAssumption DEF Init, DeliveryInv, OneClaim, RecordOutlivesRetries, RequestsAreTimely,
         Claims, Null, Idle
<1>2. TypeOK /\ DeliveryInv /\ [Next]_vars => DeliveryInv'
  <2> SUFFICES ASSUME TypeOK, DeliveryInv, [Next]_vars PROVE DeliveryInv'
    OBVIOUS
  <2>0. now \in Nat /\ RETRY_WINDOW \in Nat /\ REQUEST_TIME \in Nat
        /\ DELIVERY_RETENTION \in Nat /\ RETRY_WINDOW + REQUEST_TIME <= DELIVERY_RETENTION
        /\ Stamped \subseteq Events /\ Stamped \subseteq Ids
    BY DeliveryAssumption DEF TypeOK
  <2>1. CASE Tick
    <3>1. now' = now + 1 /\ UNCHANGED <<born, seen, handler, queued>>
      BY <2>1 DEF Tick, provider, ingest
    <3>2. \A e \in Events : Claims(e)' = Claims(e)
      BY <3>1 DEF Claims
    <3>3. OneClaim'
      BY <2>0, <3>1, <3>2 DEF DeliveryInv, OneClaim
    <3>4. RecordOutlivesRetries'
      BY <3>1, <3>2, <2>0 DEF DeliveryInv, RecordOutlivesRetries, TypeOK, Null
    <3>5. RequestsAreTimely'
      <4>1. \A e \in Events : born[e] \in Nat
        BY DEF TypeOK
      <4>2. \A h \in Handlers : handler[h].step # "idle" =>
              /\ handler[h].since \in Nat /\ now < handler[h].since + REQUEST_TIME
              /\ handler[h].event \in Events
        BY <2>1, RequestParts DEF Tick, TypeOK
      <4> QED BY <3>1, <4>1, <4>2, <2>0 DEF DeliveryInv, RequestsAreTimely
    <3> QED BY <3>3, <3>4, <3>5 DEF DeliveryInv
  <2>2. CASE Configure
    BY <2>2, DeliveryInvStutters DEF Configure, ingest
  <2>3. CASE Prune
    <3>1. /\ UNCHANGED <<now, born, handler, queued>>
          /\ \A e \in Stamped :
               \/ seen'[e] = seen[e]
               \/ seen'[e] = Null /\ seen[e] # Null /\ seen[e] + DELIVERY_RETENTION < now
      BY <2>3 DEF Prune, Expired, provider, ingest
    <3>2. \A e \in Events : Claims(e)' = Claims(e)
      BY <3>1 DEF Claims
    <3>3. RecordOutlivesRetries'
      BY <3>1, <3>2, <2>0 DEF DeliveryInv, RecordOutlivesRetries, TypeOK, Null
    <3>4. OneClaim' /\ RequestsAreTimely'
      BY <2>0, <3>1, <3>2 DEF DeliveryInv, OneClaim, RequestsAreTimely
    <3> QED BY <3>3, <3>4 DEF DeliveryInv
  <2>4. CASE EditSource
    BY <2>4, DeliveryInvStutters DEF EditSource, provider, ingest
  <2>5. ASSUME NEW h \in Handlers, NEW e \in Events, Deliver(h, e) PROVE DeliveryInv'
    <3>1. PICK r : /\ handler' = [handler EXCEPT ![h] = r]
                   /\ \/ r = Idle
                      \/ /\ r.step = "verified" /\ r.event = e /\ r.since = now
                         /\ r.id = IF e \in Stamped THEN e ELSE now
      BY <2>5 DEF Deliver, Answer, DeliveryId
    <3>2. /\ UNCHANGED <<now, seen, queued>>
          /\ handler[h] = Idle
          /\ born' = [born EXCEPT ![e] = IF @ = Null THEN now ELSE @]
          /\ born[e] = Null \/ now <= born[e] + RETRY_WINDOW
      BY <2>5 DEF Deliver, source, ingest
    <3>3. /\ born \in [Events -> Nat] /\ now > 0
          /\ \A d \in Events : born[d] # Null => born'[d] = born[d]
          /\ \A d \in Events : born'[d] <= now
          /\ born'[e] # Null
      BY <3>2, <2>0 DEF TypeOK, DeliveryInv, RequestsAreTimely, Null
    <3>4. r.step # "remembered"
      BY <3>1 DEF Idle
    <3>5. \A d \in Events : Claims(d)' = Claims(d)
      <4>1. /\ handler'[h].step # "remembered" /\ handler[h].step # "remembered"
            /\ \A g \in Handlers : g # h => handler'[g] = handler[g]
        BY <3>1, <3>2, <3>4 DEF TypeOK, Idle
      <4> QED BY <4>1 DEF Claims
    <3>6. OneClaim'
      BY <3>2, <3>5, <2>0 DEF DeliveryInv, OneClaim
    <3>7. ASSUME NEW d \in Stamped, Claims(d) # {} \/ queued[d] > 0
          PROVE  born[d] # Null
      BY <3>7, <2>0 DEF DeliveryInv, RequestsAreTimely, Claims
    <3>8. RecordOutlivesRetries'
      BY <3>2, <3>3, <3>5, <3>7, <2>0 DEF DeliveryInv, RecordOutlivesRetries
    <3>9. RequestsAreTimely'
      <4>1. now \notin Stamped
        BY DeliveryAssumption DEF TypeOK
      <4> QED BY <3>1, <3>2, <3>3, <4>1, <2>0 DEF DeliveryInv, RequestsAreTimely, TypeOK, Null, Idle
    <3> QED BY <3>6, <3>8, <3>9 DEF DeliveryInv
  <2>6. ASSUME NEW h \in Handlers, Remember(h), seen[handler[h].id] = Null,
               handler[h].event \in Stamped
        PROVE  DeliveryInv'
    <3>0. PICK q \in Handling, e \in Stamped : q = handler[h] /\ e = q.event
      BY <2>6, RequestParts DEF Remember, TypeOK
    <3> DEFINE r == [q EXCEPT !.step = "remembered"]
    <3>1. q.step = "verified" /\ q \in Handling
      BY <2>6, <3>0 DEF Remember
    <3>2. /\ e \in Stamped /\ q.id = e /\ q.since \in Nat
          /\ r.step = "remembered" /\ r.event = e /\ r.id = e /\ r.since = q.since
      BY <3>0, <3>1, RequestParts, RememberedType DEF DeliveryInv, RequestsAreTimely
    <3>3. /\ born[e] \in Nat /\ seen[e] = Null
          /\ born[e] # Null /\ born[e] <= q.since /\ q.since <= now
          /\ q.since <= born[e] + RETRY_WINDOW /\ now <= q.since + REQUEST_TIME
      BY <2>0, <2>6, <3>0, <3>1, <3>2 DEF DeliveryInv, RequestsAreTimely, TypeOK
    <3>4. born[e] <= now /\ ~(now > born[e] + DELIVERY_RETENTION)
      BY <3>2, <3>3, <2>0
    <3>5. Claims(e) = {} /\ queued[e] = 0
      BY <2>0, <3>2, <3>3, <3>4 DEF DeliveryInv, RecordOutlivesRetries, TypeOK
    <3>6. /\ handler' = [handler EXCEPT ![h] = r]
          /\ seen' = [seen EXCEPT ![e] = now]
          /\ UNCHANGED <<now, born, queued>>
      BY <2>6, <3>0, <3>2 DEF Remember, Answer, provider, ingest
    <3> HIDE DEF r
    <3>7. /\ Claims(e)' = {h}
          /\ \A d \in Events : d # e => Claims(d)' = Claims(d) \ {h}
      <4>1. handler'[h] = r /\ \A g \in Handlers : g # h => handler'[g] = handler[g]
        BY <3>6 DEF TypeOK
      <4> QED BY <3>2, <3>5, <4>1 DEF Claims
    <3>8. \A d \in Events : d # e => Claims(d)' = Claims(d)
      BY <3>0, <3>1, <3>7 DEF Claims
    <3>9. OneClaim'
      BY <2>0, <3>5, <3>6, <3>7, <3>8 DEF DeliveryInv, OneClaim
    <3>10. now # Null /\ seen'[e] = now
           /\ \A d \in Stamped : d # e => seen'[d] = seen[d]
      BY <2>0, <3>2, <3>6 DEF TypeOK, Null
    <3>11. RecordOutlivesRetries'
      BY <2>0, <3>4, <3>6, <3>8, <3>10 DEF DeliveryInv, RecordOutlivesRetries
    <3>12. RequestsAreTimely'
      <4>1. \A d \in Events : born'[d] <= now'
        BY <3>6 DEF DeliveryInv, RequestsAreTimely
      <4>2. \A d \in Stamped : seen'[d] # Null \/ queued'[d] > 0 => born'[d] # Null
        BY <3>3, <3>6, <3>10 DEF DeliveryInv, RequestsAreTimely
      <4>3. \A g \in Handlers : g # h => handler'[g] = handler[g]
        BY <3>6 DEF TypeOK
      <4>4. handler'[h] = r
        BY <3>6 DEF TypeOK
      <4>5. ASSUME NEW g \in Handlers, handler'[g].step # "idle"
            PROVE  /\ handler'[g].event \in Stamped \/ handler'[g].id \in Stamped =>
                        handler'[g].id = handler'[g].event
                   /\ born'[handler'[g].event] # Null
                   /\ born'[handler'[g].event] <= handler'[g].since
                   /\ handler'[g].since <= now'
                   /\ handler'[g].since <= born'[handler'[g].event] + RETRY_WINDOW
                   /\ now' <= handler'[g].since + REQUEST_TIME
        <5>1. CASE g = h
          BY <5>1, <4>4, <3>2, <3>3, <3>6
        <5>2. CASE g # h
          BY <5>2, <4>5, <4>3, <3>6 DEF DeliveryInv, RequestsAreTimely
        <5> QED BY <5>1, <5>2
      <4> QED BY <4>1, <4>2, <4>5 DEF RequestsAreTimely
    <3> QED BY <3>9, <3>11, <3>12 DEF DeliveryInv
  <2>7. ASSUME NEW h \in Handlers, handler' = [handler EXCEPT ![h] = Idle],
               UNCHANGED <<now, born, seen, queued>>
        PROVE  DeliveryInv'
    <3>1. \A d \in Events : Claims(d)' = Claims(d) \ {h}
      <4>1. handler'[h].step = "idle" /\ \A g \in Handlers : g # h => handler'[g] = handler[g]
        BY <2>7 DEF TypeOK, Idle
      <4> QED BY <4>1 DEF Claims
    <3>2. \A g \in Handlers :
            handler'[g].step # "idle" => handler'[g] = handler[g] /\ handler[g].step # "idle"
      BY <2>7 DEF TypeOK, Idle
    <3>3. OneClaim' /\ RecordOutlivesRetries'
      BY <2>0, <2>7, <3>1 DEF DeliveryInv, OneClaim, RecordOutlivesRetries
    <3>4. RequestsAreTimely'
      BY <2>7, <3>2 DEF DeliveryInv, RequestsAreTimely
    <3> QED BY <3>3, <3>4 DEF DeliveryInv
  <2>8. ASSUME NEW h \in Handlers, QueueAdd(h), handler[h].event \in Stamped
        PROVE  DeliveryInv'
    <3>0. PICK e \in Stamped : e = handler[h].event
      BY <2>8
    <3>1. /\ handler[h].step = "remembered"
          /\ handler' = [handler EXCEPT ![h] = Idle]
          /\ queued' = [queued EXCEPT ![e] = queued[e] + 1]
          /\ UNCHANGED <<now, born, seen>>
      BY <2>8, <3>0 DEF QueueAdd, Answer, provider
    <3>2. h \in Claims(e)
      BY <3>0, <3>1 DEF Claims
    <3>3. Claims(e) = {h} /\ queued[e] = 0
      BY <3>1, <3>2 DEF DeliveryInv, OneClaim
    <3>4. \A d \in Events : Claims(d)' = Claims(d) \ {h}
      <4>1. handler'[h].step = "idle" /\ \A g \in Handlers : g # h => handler'[g] = handler[g]
        BY <3>1 DEF TypeOK, Idle
      <4> QED BY <4>1 DEF Claims
    <3>5. /\ queued'[e] = 1 /\ Claims(e)' = {}
          /\ \A d \in Events : d # e => queued'[d] = queued[d] /\ Claims(d)' = Claims(d)
      <4>1. \A d \in Events : d # e => h \notin Claims(d)
        BY <3>0 DEF Claims
      <4>2. queued'[e] = 1 /\ \A d \in Events : d # e => queued'[d] = queued[d]
        BY <2>0, <3>1, <3>3 DEF TypeOK
      <4>3. Claims(e)' = {} /\ \A d \in Events : d # e => Claims(d)' = Claims(d)
        BY <2>0, <3>3, <3>4, <4>1
      <4> QED BY <4>2, <4>3
    <3>6. OneClaim'
      BY <2>0, <3>1, <3>5 DEF DeliveryInv, OneClaim
    <3>7. RecordOutlivesRetries'
      BY <2>0, <3>1, <3>2, <3>5 DEF DeliveryInv, RecordOutlivesRetries
    <3>8. \A g \in Handlers :
            handler'[g].step # "idle" => handler'[g] = handler[g] /\ handler[g].step # "idle"
      BY <3>1 DEF TypeOK, Idle
    <3>9. born[e] # Null
      BY <3>0, <3>1 DEF DeliveryInv, RequestsAreTimely
    <3>10. RequestsAreTimely'
      BY <2>0, <3>1, <3>5, <3>8, <3>9 DEF DeliveryInv, RequestsAreTimely
    <3> QED BY <3>6, <3>7, <3>10 DEF DeliveryInv
  <2>12. ASSUME NEW h \in Handlers, handler[h].event \notin Stamped,
               (Remember(h) /\ seen[handler[h].id] = Null) \/ QueueAdd(h)
        PROVE  DeliveryInv'
    <3>1. handler[h] \in Handling /\ handler[h].step # "idle"
      BY <2>12, RequestParts DEF Remember, QueueAdd, TypeOK
    <3>2. PICK r : /\ handler' = [handler EXCEPT ![h] = r]
                   /\ \/ r = Idle
                      \/ /\ r.step = "remembered" /\ r.event = handler[h].event
                         /\ r.id = handler[h].id /\ r.since = handler[h].since
      <4>1. CASE Remember(h) /\ seen[handler[h].id] = Null
        BY <4>1, <3>1, RememberedType DEF Remember
      <4>2. CASE QueueAdd(h)
        BY <4>2 DEF QueueAdd, Answer
      <4> QED BY <2>12, <4>1, <4>2
    <3>3. now' = now /\ born' = born
      BY <2>12 DEF Remember, QueueAdd, provider
    <3>4. \A d \in Stamped : seen'[d] = seen[d] /\ queued'[d] = queued[d]
      <4>1. handler[h].id \notin Stamped
        BY <2>12, <3>1 DEF DeliveryInv, RequestsAreTimely
      <4> QED BY <2>0, <2>12, <4>1 DEF Remember, QueueAdd, ingest, TypeOK
    <3>5. handler'[h] = r /\ \A g \in Handlers : g # h => handler'[g] = handler[g]
      BY <3>2 DEF TypeOK
    <3>6. \A d \in Stamped : Claims(d)' = Claims(d)
      BY <2>12, <3>2, <3>5 DEF Claims, Idle
    <3>7. OneClaim' /\ RecordOutlivesRetries'
      BY <3>3, <3>4, <3>6 DEF DeliveryInv, OneClaim, RecordOutlivesRetries
    <3>8. RequestsAreTimely'
      BY <3>1, <3>2, <3>3, <3>4, <3>5 DEF DeliveryInv, RequestsAreTimely, Idle
    <3> QED BY <3>7, <3>8 DEF DeliveryInv
  <2>9. ASSUME NEW j \in Jobs, JobStep(j) PROVE DeliveryInv'
    BY <2>9, DeliveryInvStutters
    DEF JobStep, Take, Process, Complete, FailJob, Stall, provider
  <2>10. ASSUME NEW h \in Handlers, Remember(h) \/ Ignore(h) \/ Break(h)
         PROVE  DeliveryInv'
    <3>1. CASE Remember(h) /\ seen[handler[h].id] = Null
      BY <3>1, <2>6, <2>12
    <3>2. CASE (Remember(h) /\ seen[handler[h].id] # Null) \/ Ignore(h) \/ Break(h)
      BY <3>2, <2>7 DEF Remember, Ignore, Break, Answer, provider, ingest
    <3> QED BY <2>10, <3>1, <3>2
  <2>11. CASE UNCHANGED vars
    BY <2>11, DeliveryInvStutters DEF vars, provider, ingest
  <2> QED
    BY <2>1, <2>2, <2>3, <2>4, <2>5, <2>8, <2>12, <2>9, <2>10, <2>11 DEF Next, JobStep
<1> QED
  BY <1>1, <1>2, DeliveryTypeCorrect, PTL DEF Spec

\* With an id of the provider's own, an event is queued once at most, however
\* many requests carry it and however late the record of it is swept.
THEOREM EventsAreHandledOnce == Spec => []HandledOnce
<1>1. DeliveryInv => HandledOnce
  BY DEF DeliveryInv, OneClaim, HandledOnce
<1> QED
  BY <1>1, DeliveriesAreClaimedOnce, PTL

----------------------------------------------------------------------------
(* The life of an event.                                                   *)

\* An event with an id of its own has one job, and has been written once that
\* job says so.
OneJob ==
  \A e \in Stamped :
    /\ queued[e] = 0 => e \notin applied
    /\ \A k \in 1 .. MaxSends :
         /\ job[<<e, k>>].state # "none" => k = 1 /\ queued[e] = 1
         /\ job[<<e, k>>].state \in {"written", "completed"} => e \in applied

\* Its record is no older than its first delivery, so that the record is swept
\* only when the provider has given up.
RecordedAfterBirth ==
  \A e \in Stamped : seen[e] # Null => born[e] <= seen[e]

LifeInv == OneJob /\ RecordedAfterBirth

\* What a step on the job j leaves of every job, and of what is written.
LEMMA JobSteps ==
  ASSUME TypeOK, NEW j \in Jobs, JobStep(j)
  PROVE  /\ UNCHANGED <<now, born, seen, handler, queued>>
         /\ \A i \in Jobs : i # j => job'[i] = job[i]
         /\ job[j].state \in {"waiting", "active", "written"} /\ job'[j].state # "none"
         /\ \/ applied' = applied
            \/ /\ applied' = applied \cup {j[1]}
               /\ job[j].state = "active" /\ job'[j].state = "written"
         /\ job'[j].state = "written" => applied' = applied \cup {j[1]}
         /\ job'[j].state = "completed" => job[j].state = "written"
<1>1. job[j] \in JobRecord /\ job \in [Jobs -> JobRecord]
  BY DEF TypeOK, JobRecord
<1>2. CASE Take(j)
  BY <1>1, <1>2 DEF Take, JobRecord, provider
<1>3. CASE Process(j)
  BY <1>1, <1>3 DEF Process, JobRecord, provider
<1>4. CASE Complete(j)
  BY <1>1, <1>4 DEF Complete, JobRecord, provider
<1>5. CASE FailJob(j)
  BY <1>1, <1>5 DEF FailJob, Retried, JobRecord, provider
<1>6. CASE Stall(j)
  BY <1>1, <1>6 DEF Stall, TakenBack, JobRecord, provider
<1> QED
  BY <1>2, <1>3, <1>4, <1>5, <1>6 DEF JobStep

\* What a step of the request h leaves of the queue.
LEMMA RequestSteps ==
  ASSUME TypeOK, NEW h \in Handlers, Remember(h) \/ Ignore(h) \/ QueueAdd(h) \/ Break(h)
  PROVE  /\ UNCHANGED <<now, born, applied>>
         /\ handler[h] \in Handling /\ handler[h].event \in Events /\ handler[h].id \in Ids
         /\ \A g \in Handlers : g # h => handler'[g] = handler[g]
         /\ \/ UNCHANGED <<queued, job>>
            \/ /\ QueueAdd(h)
               /\ queued' = [queued EXCEPT ![handler[h].event] = queued[handler[h].event] + 1]
               /\ job' = [job EXCEPT ![<<handler[h].event, queued[handler[h].event] + 1>>] = NewJob]
         /\ \/ UNCHANGED seen
            \/ /\ Remember(h) /\ seen[handler[h].id] = Null
               /\ seen' = [seen EXCEPT ![handler[h].id] = now]
<1>1. handler[h].step # "idle"
  BY DEF Remember, Ignore, QueueAdd, Break
<1>2. handler[h] \in Handling /\ handler[h].event \in Events /\ handler[h].id \in Ids
  BY <1>1, RequestParts DEF TypeOK
<1>3. \A g \in Handlers : g # h => handler'[g] = handler[g]
  BY DEF Remember, Ignore, QueueAdd, Break, Answer, TypeOK
<1>4. UNCHANGED <<now, born, applied>>
  BY DEF Remember, Ignore, QueueAdd, Break, provider, ingest
<1> QED
  BY <1>2, <1>3, <1>4 DEF Remember, Ignore, QueueAdd, Break, ingest

\* LifeInv is inductive.
LEMMA LifeInvariant == Spec => []LifeInv
<1>1. Init => LifeInv
  <2> SUFFICES ASSUME Init PROVE LifeInv
    OBVIOUS
  <2>1. \A e \in Stamped, k \in 1 .. MaxSends : job[<<e, k>>].state = "none"
    <3>1. \A e \in Stamped, k \in 1 .. MaxSends : <<e, k>> \in Jobs
      BY DeliveryAssumption DEF Jobs
    <3> QED
      BY <3>1 DEF Init, NoJob
  <2>2. \A e \in Stamped : seen[e] = Null
    BY DEF Init, Ids
  <2>3. applied = {}
    BY DEF Init
  <2> QED
    BY <2>1, <2>2, <2>3 DEF LifeInv, OneJob, RecordedAfterBirth
<1>2. TypeOK /\ DeliveryInv /\ LifeInv /\ [Next]_vars => LifeInv'
  <2> SUFFICES ASSUME TypeOK, DeliveryInv, LifeInv, [Next]_vars PROVE LifeInv'
    OBVIOUS
  <2>0. /\ Stamped \subseteq Events /\ Stamped \subseteq Ids /\ now \in Nat
        /\ \A e \in Stamped : born[e] \in Nat /\ queued[e] \in Nat
        /\ \A e \in Stamped, k \in 1 .. MaxSends : <<e, k>> \in Jobs
    BY DeliveryAssumption DEF TypeOK, Ids, Jobs
  <2>1. ASSUME UNCHANGED <<queued, job, applied>> PROVE OneJob'
    BY <2>1 DEF LifeInv, OneJob
  <2>2. ASSUME UNCHANGED <<born, seen>> PROVE RecordedAfterBirth'
    BY <2>2 DEF LifeInv, RecordedAfterBirth
  <2>3. CASE Tick \/ Configure \/ UNCHANGED vars
    BY <2>1, <2>2, <2>3 DEF Tick, Configure, vars, provider, ingest, LifeInv
  <2>4. CASE EditSource
    BY <2>1, <2>2, <2>4 DEF EditSource, provider, ingest, LifeInv
  <2>5. CASE Prune
    <3>1. /\ UNCHANGED <<born, queued, job, applied>>
          /\ \A e \in Stamped : seen'[e] # Null => seen'[e] = seen[e]
      BY <2>0, <2>5 DEF Prune, provider, ingest
    <3> QED
      BY <2>1, <3>1 DEF LifeInv, RecordedAfterBirth
  <2>6. ASSUME NEW h \in Handlers, NEW e \in Events, Deliver(h, e) PROVE LifeInv'
    <3>1. /\ UNCHANGED <<seen, queued, job, applied>>
          /\ \A d \in Events : born[d] # Null => born'[d] = born[d]
      BY <2>6 DEF Deliver, ingest, TypeOK
    <3>2. \A d \in Stamped : seen[d] # Null => born[d] # Null
      BY DEF DeliveryInv, RequestsAreTimely
    <3> QED
      BY <2>0, <2>1, <3>1, <3>2 DEF LifeInv, RecordedAfterBirth
  <2>7. ASSUME NEW h \in Handlers, Remember(h) \/ Ignore(h) \/ QueueAdd(h) \/ Break(h)
        PROVE  LifeInv'
    <3> DEFINE e == handler[h].event
    <3>1. RecordedAfterBirth'
      <4>1. CASE UNCHANGED seen
        BY <2>2, <2>7, <4>1, RequestSteps
      <4>2. CASE seen' = [seen EXCEPT ![handler[h].id] = now]
        BY <2>0, <2>7, <4>2, RequestSteps
           DEF LifeInv, RecordedAfterBirth, DeliveryInv, RequestsAreTimely, TypeOK
      <4> QED
        BY <2>7, <4>1, <4>2, RequestSteps
    <3>2. CASE UNCHANGED <<queued, job>>
      BY <2>1, <2>7, <3>1, <3>2, RequestSteps DEF LifeInv
    <3>3. CASE /\ QueueAdd(h)
               /\ queued' = [queued EXCEPT ![e] = queued[e] + 1]
               /\ job' = [job EXCEPT ![<<e, queued[e] + 1>>] = NewJob]
      <4>1. e \in Stamped => queued[e] = 0
        <5>1. h \in Claims(e)
          BY <3>3 DEF QueueAdd, Claims
        <5> QED
          BY <5>1 DEF DeliveryInv, OneClaim
      <4>2. applied' = applied /\ e \in Events
        BY <2>7, RequestSteps
      <4>3. \A d \in Stamped : d # e => queued'[d] = queued[d]
        BY <2>0, <3>3 DEF TypeOK
      <4>4. \A d \in Stamped, k \in 1 .. MaxSends :
              \/ job'[<<d, k>>] = job[<<d, k>>]
              \/ d = e /\ k = queued[e] + 1 /\ job'[<<d, k>>] = NewJob
        BY <2>0, <3>3 DEF TypeOK
      <4>5. e \in Stamped => queued'[e] = 1
        BY <2>0, <3>3, <4>1 DEF TypeOK
      <4> HIDE DEF e
      <4>6. ASSUME NEW d \in Stamped PROVE queued'[d] = 0 => d \notin applied'
        BY <4>2, <4>3, <4>5 DEF LifeInv, OneJob
      <4>7. ASSUME NEW d \in Stamped, NEW k \in 1 .. MaxSends
            PROVE  /\ job'[<<d, k>>].state # "none" => k = 1 /\ queued'[d] = 1
                   /\ job'[<<d, k>>].state \in {"written", "completed"} => d \in applied'
        <5>1. CASE d = e /\ k = queued[e] + 1 /\ job'[<<d, k>>] = NewJob
          BY <4>1, <4>5, <5>1 DEF NewJob
        <5>2. CASE job'[<<d, k>>] = job[<<d, k>>]
          BY <4>1, <4>2, <4>3, <4>5, <5>2 DEF LifeInv, OneJob
        <5> QED
          BY <4>4, <5>1, <5>2
      <4>8. OneJob'
        BY <4>6, <4>7 DEF OneJob
      <4> QED
        BY <3>1, <4>8 DEF LifeInv
    <3> QED
      BY <2>7, <3>2, <3>3, RequestSteps
  <2>8. ASSUME NEW j \in Jobs, JobStep(j) PROVE LifeInv'
    <3>1. RecordedAfterBirth' /\ UNCHANGED queued
      BY <2>2, <2>8, JobSteps
    <3>2. ASSUME NEW d \in Stamped PROVE queued'[d] = 0 => d \notin applied'
      <4>1. CASE j[1] = d
        <5>1. PICK k \in 1 .. MaxSends : j = <<d, k>>
          BY <4>1 DEF Jobs
        <5>2. job[<<d, k>>].state # "none"
          BY <2>8, <5>1, JobSteps
        <5>3. queued[d] = 1
          BY <5>2 DEF LifeInv, OneJob
        <5> QED
          BY <3>1, <5>3
      <4>2. CASE j[1] # d
        BY <2>8, <3>1, <4>2, JobSteps DEF LifeInv, OneJob
      <4> QED
        BY <4>1, <4>2
    <3>3. ASSUME NEW d \in Stamped, NEW k \in 1 .. MaxSends
          PROVE  /\ job'[<<d, k>>].state # "none" => k = 1 /\ queued'[d] = 1
                 /\ job'[<<d, k>>].state \in {"written", "completed"} => d \in applied'
      <4>1. CASE j = <<d, k>>
        <5>1. k = 1 /\ queued[d] = 1
          BY <2>8, <4>1, JobSteps DEF LifeInv, OneJob
        <5>2. job'[<<d, k>>].state = "written" => d \in applied'
          BY <2>8, <4>1, JobSteps
        <5>3. job'[<<d, k>>].state = "completed" => d \in applied'
          BY <2>8, <4>1, JobSteps DEF LifeInv, OneJob
        <5> QED
          BY <3>1, <5>1, <5>2, <5>3
      <4>2. CASE j # <<d, k>>
        <5>1. job'[<<d, k>>] = job[<<d, k>>] /\ applied \subseteq applied'
          BY <2>0, <2>8, <4>2, JobSteps
        <5> QED
          BY <3>1, <5>1 DEF LifeInv, OneJob
      <4> QED
        BY <4>1, <4>2
    <3> QED
      BY <3>1, <3>2, <3>3 DEF LifeInv, OneJob
  <2> QED
    BY <2>3, <2>4, <2>5, <2>6, <2>7, <2>8 DEF Next, JobStep
<1> QED
  BY <1>1, <1>2, DeliveryTypeCorrect, DeliveriesAreClaimedOnce, PTL DEF Spec

\* The record of e is there, or the provider has given up delivering it.
Over(e) == seen[e] # Null \/ (born[e] # Null /\ now > born[e] + DELIVERY_RETENTION)

\* What the invariants say of one event, in the terms of its stage.
LEMMA StageFacts ==
  ASSUME TypeOK, DeliveryInv, LifeInv, NEW e \in Stamped
  PROVE  /\ Claims(e) # {} => queued[e] = 0 /\ born[e] # Null
         /\ Claims(e) # {} \/ queued[e] > 0 => Over(e)
         /\ e \in applied \/ Exhausted(e) => queued[e] > 0
         /\ queued[e] \in Nat /\ born[e] \in Nat /\ seen[e] \in Nat
<1>1. queued[e] \in Nat /\ born[e] \in Nat /\ seen[e] \in Nat
  BY DeliveryAssumption DEF TypeOK, Ids
<1>2. Claims(e) # {} => queued[e] = 0 /\ born[e] # Null
  BY DEF DeliveryInv, OneClaim, RequestsAreTimely, Claims
<1>3. Claims(e) # {} \/ queued[e] > 0 => Over(e)
  BY <1>2 DEF DeliveryInv, RecordOutlivesRetries, RequestsAreTimely, Over
<1>4. Exhausted(e) => queued[e] > 0
  BY DEF LifeInv, OneJob, Exhausted
<1>5. e \in applied => queued[e] > 0
  BY <1>1 DEF LifeInv, OneJob
<1> QED
  BY <1>1, <1>2, <1>3, <1>4, <1>5

\* The stage of an event depends on these five answers only.
LEMMA SameStage ==
  ASSUME NEW e \in Stamped,
         Claims(e)' = {} <=> Claims(e) = {}, e \in applied' <=> e \in applied,
         Exhausted(e)' <=> Exhausted(e), queued'[e] > 0 <=> queued[e] > 0,
         Over(e)' <=> Over(e)
  PROVE  Stage(e)' = Stage(e)
  BY DEF Stage, Over

\* A step that touches neither the requests nor the jobs may still end the
\* provider's retries.
LEMMA ClockMoves ==
  ASSUME TypeOK, DeliveryInv, LifeInv, NEW e \in Stamped,
         UNCHANGED <<handler, queued, job, applied>>, Over(e) => Over(e)'
  PROVE  Stage(e)' # Stage(e) => Stage(e) = "unheard" /\ Stage(e)' = "lost"
<1>1. Claims(e)' = Claims(e) /\ (Exhausted(e)' <=> Exhausted(e))
  BY DEF Claims, Exhausted
<1>2. CASE Over(e)' <=> Over(e)
  BY <1>1, <1>2, SameStage
<1>3. CASE Over(e)' /\ ~Over(e)
  <2>1. Claims(e) = {} /\ e \notin applied /\ ~Exhausted(e) /\ ~(queued[e] > 0)
    BY <1>3, StageFacts
  <2> QED
    BY <1>1, <1>3, <2>1 DEF Stage, Over
<1> QED
  BY <1>2, <1>3

\* The jobs carry an event from the queue to its rows, or give it up.
LEMMA JobMoves ==
  ASSUME TypeOK, DeliveryInv, LifeInv, NEW e \in Stamped, NEW j \in Jobs, JobStep(j)
  PROVE  Stage(e)' # Stage(e) => Stage(e) = "queued" /\ Stage(e)' \in {"applied", "failed"}
<1>1. /\ UNCHANGED <<now, born, seen, handler, queued>>
      /\ \A i \in Jobs : i # j => job'[i] = job[i]
  BY JobSteps
<1>2. Claims(e)' = Claims(e) /\ (Over(e)' <=> Over(e))
  BY <1>1 DEF Claims, Over
<1>0. \A k \in 1 .. MaxSends : <<e, k>> \in Jobs
  BY DeliveryAssumption DEF Jobs
<1>3. CASE j[1] # e
  <2>1. \A k \in 1 .. MaxSends : job'[<<e, k>>] = job[<<e, k>>]
    BY <1>0, <1>1, <1>3
  <2>2. e \in applied' <=> e \in applied
    BY <1>3, JobSteps
  <2> QED
    BY <1>1, <1>2, <2>1, <2>2, SameStage DEF Exhausted
<1>4. CASE j[1] = e
  <2>1. PICK k \in 1 .. MaxSends : j = <<e, k>>
    BY <1>4 DEF Jobs
  <2>2. /\ job[<<e, k>>].state \in {"waiting", "active", "written"}
        /\ \A l \in 1 .. MaxSends : job[<<e, l>>].state # "none" => l = 1
        /\ k = 1 /\ queued[e] = 1
    BY <2>1, JobSteps DEF LifeInv, OneJob
  <2>3. ~Exhausted(e)
    BY <2>2 DEF Exhausted
  <2>4. Claims(e) = {} /\ Claims(e)' = {}
    BY <1>2, <2>2, StageFacts
  <2>5. CASE e \in applied
    <3>1. e \in applied'
      BY <2>5, JobSteps
    <3> QED
      BY <2>4, <2>5, <3>1 DEF Stage
  <2>6. CASE e \notin applied
    <3>1. Stage(e) = "queued"
      BY <2>2, <2>3, <2>4, <2>6 DEF Stage
    <3>2. Stage(e)' \in {"applied", "failed", "queued"}
      BY <1>1, <2>2, <2>4 DEF Stage
    <3> QED
      BY <3>1, <3>2
  <2> QED
    BY <2>5, <2>6
<1> QED
  BY <1>3, <1>4

\* What a step of the request h leaves of the claims.
LEMMA RequestClaims ==
  ASSUME TypeOK, NEW h \in Handlers, NEW d \in Events,
         Remember(h) \/ Ignore(h) \/ QueueAdd(h) \/ Break(h)
  PROVE  /\ handler[h].event # d => Claims(d)' = Claims(d)
         /\ Remember(h) /\ seen[handler[h].id] # Null => Claims(d)' = Claims(d)
         /\ Remember(h) /\ seen[handler[h].id] = Null /\ handler[h].event = d
              => h \in Claims(d)'
         /\ ~Remember(h) => Claims(d)' = Claims(d) \ {h}
<1>0. handler[h] \in Handling /\ \A g \in Handlers : g # h => handler'[g] = handler[g]
  BY RequestSteps
<1>1. PICK r : /\ handler'[h] = r
               /\ \/ r = Idle
                  \/ /\ Remember(h) /\ seen[handler[h].id] = Null
                     /\ r = [handler[h] EXCEPT !.step = "remembered"]
               /\ Remember(h) /\ seen[handler[h].id] = Null
                    => r = [handler[h] EXCEPT !.step = "remembered"]
  BY DEF Remember, Ignore, QueueAdd, Break, Answer, TypeOK
<1>2. r.step = "remembered" =>
        Remember(h) /\ seen[handler[h].id] = Null /\ r.event = handler[h].event
  <2>1. Idle.step # "remembered"
    BY DEF Idle
  <2> QED
    BY <1>0, <1>1, <2>1, RememberedType
<1>3. Remember(h) /\ seen[handler[h].id] = Null
        => r.step = "remembered" /\ r.event = handler[h].event
  BY <1>0, <1>1, RememberedType
<1>4. Remember(h) => handler[h].step = "verified"
  BY DEF Remember
<1>5. \A g \in Handlers \ {h} : g \in Claims(d)' <=> g \in Claims(d)
  BY <1>0 DEF Claims
<1>6. h \in Claims(d)' <=> r.step = "remembered" /\ r.event = d
  BY <1>1 DEF Claims
<1>7. h \in Claims(d) <=> handler[h].step = "remembered" /\ handler[h].event = d
  BY DEF Claims
<1>8. Claims(d) \subseteq Handlers /\ Claims(d)' \subseteq Handlers
  BY DEF Claims
<1> HIDE DEF Claims
<1>9. handler[h].event # d => Claims(d)' = Claims(d)
  BY <1>2, <1>5, <1>6, <1>7, <1>8
<1>10. Remember(h) /\ seen[handler[h].id] # Null => Claims(d)' = Claims(d)
  BY <1>2, <1>4, <1>5, <1>6, <1>7, <1>8
<1>11. ~Remember(h) => Claims(d)' = Claims(d) \ {h}
  BY <1>2, <1>5, <1>6, <1>8
<1> QED
  BY <1>3, <1>6, <1>9, <1>10, <1>11

\* A request claims an event nobody had heard of, and queues it or loses it.
LEMMA RequestMoves ==
  ASSUME TypeOK, DeliveryInv, LifeInv, NEW e \in Stamped, NEW h \in Handlers,
         Remember(h) \/ Ignore(h) \/ QueueAdd(h) \/ Break(h)
  PROVE  Stage(e)' # Stage(e) =>
           \/ Stage(e) = "unheard" /\ Stage(e)' = "claimed"
           \/ Stage(e) = "claimed" /\ Stage(e)' \in {"queued", "lost"}
<1> DEFINE q == handler[h]
<1>0. /\ UNCHANGED <<now, born, applied>> /\ e \in Events /\ e \in Ids
      /\ q \in Handling /\ q.step # "idle" /\ q.event \in Events /\ q.id \in Ids
      /\ \A k \in 1 .. MaxSends : <<e, k>> \in Jobs
  BY RequestSteps, DeliveryAssumption DEF Ids, Jobs, Remember, Ignore, QueueAdd, Break
<1>1. CASE q.event # e
  <2>1. q.id # e
    BY <1>0, <1>1 DEF DeliveryInv, RequestsAreTimely
  <2>2. seen'[e] = seen[e] /\ queued'[e] = queued[e]
    BY <1>0, <1>1, <2>1, RequestSteps DEF TypeOK
  <2>3. \A k \in 1 .. MaxSends : job'[<<e, k>>] = job[<<e, k>>]
    BY <1>0, <1>1, RequestSteps DEF TypeOK
  <2>4. Claims(e)' = Claims(e)
    BY <1>0, <1>1, RequestClaims
  <2> QED
    BY <1>0, <2>2, <2>3, <2>4, SameStage DEF Over, Exhausted
<1>2. CASE q.event = e /\ Remember(h) /\ seen[q.id] # Null
  <2>1. Claims(e)' = Claims(e) /\ UNCHANGED <<seen, queued, job>>
    BY <1>0, <1>2, RequestClaims DEF Remember, ingest
  <2> QED
    BY <1>0, <2>1, SameStage DEF Over, Exhausted
<1>3. CASE q.event = e /\ Remember(h) /\ seen[q.id] = Null
  <2>1. h \in Claims(e)'
    BY <1>0, <1>3, RequestClaims
  <2>2. Stage(e)' = "claimed"
    BY <2>1 DEF Stage
  <2>3. ~Over(e)
    <3>1. /\ q.id = e /\ born[e] # Null /\ q.since <= born[e] + RETRY_WINDOW
          /\ now <= q.since + REQUEST_TIME
      BY <1>0, <1>3 DEF DeliveryInv, RequestsAreTimely
    <3>2. now \in Nat /\ q.since \in Nat /\ born[e] \in Nat
      BY <1>0 DEF TypeOK, Handling
    <3>3. now <= born[e] + DELIVERY_RETENTION
      BY <3>1, <3>2, DeliveryAssumption
    <3>4. ~(now > born[e] + DELIVERY_RETENTION)
      BY <3>2, <3>3, DeliveryAssumption
    <3> QED
      BY <1>3, <3>1, <3>4 DEF Over
  <2>4. Stage(e) = "unheard"
    BY <2>3, StageFacts DEF Stage, Over
  <2> QED
    BY <2>2, <2>4
<1>4. CASE q.event = e /\ ~Remember(h)
  <2>1. Claims(e)' = Claims(e) \ {h} /\ seen' = seen
    BY <1>0, <1>4, RequestClaims, RequestSteps
  <2>2. Over(e)' <=> Over(e)
    BY <1>0, <2>1 DEF Over
  <2>3. CASE q.step = "verified"
    <3>1. h \notin Claims(e) /\ ~QueueAdd(h)
      BY <2>3 DEF Claims, QueueAdd
    <3>2. Claims(e)' = Claims(e) /\ UNCHANGED <<queued, job>>
      BY <2>1, <3>1, RequestSteps
    <3> QED
      BY <1>0, <2>2, <3>2, SameStage DEF Exhausted
  <2>4. CASE q.step = "remembered"
    <3>1. h \in Claims(e)
      BY <1>4, <2>4 DEF Claims
    <3>2. Claims(e)' = {}
      BY <2>1, <3>1 DEF DeliveryInv, OneClaim
    <3>3. Stage(e) = "claimed"
      BY <3>1 DEF Stage
    <3>4. /\ queued[e] = 0 /\ Over(e)
          /\ e \notin applied' /\ ~Exhausted(e)
      BY <1>0, <3>1, StageFacts
    <3>5. ~Exhausted(e)'
      <4>1. \A k \in 1 .. MaxSends : job'[<<e, k>>] \in {job[<<e, k>>], NewJob}
        BY <1>0, RequestSteps DEF TypeOK
      <4> QED
        BY <3>4, <4>1 DEF Exhausted, NewJob
    <3>6. Stage(e)' \in {"queued", "lost"}
      BY <2>2, <3>2, <3>4, <3>5 DEF Stage, Over
    <3> QED
      BY <3>3, <3>6
  <2> QED
    BY <1>0, <2>3, <2>4 DEF Handling
<1> QED
  BY <1>1, <1>2, <1>3, <1>4

\* WebhookDelivery implements EventLife: whatever the requests, the workers,
\* the clock and the sweep do, an event delivered under an id of its own moves
\* along the one road from unheard to written, and never back.
THEOREM DeliveryKeepsEventLife == Spec => Life!Safe
<1>1. Init => Life!Init
  <2> SUFFICES ASSUME Init, NEW e \in Stamped PROVE Stage(e) = "unheard"
    BY DEF Life!Init
  <2>1. e \in Events /\ e \in Ids /\ \A k \in 1 .. MaxSends : <<e, k>> \in Jobs
    BY DeliveryAssumption DEF Ids, Jobs
  <2>2. Claims(e) = {} /\ ~Exhausted(e)
    BY <2>1 DEF Init, Claims, Idle, Exhausted, NoJob
  <2>3. e \notin applied /\ queued[e] = 0 /\ seen[e] = Null /\ born[e] = Null
    BY <2>1 DEF Init
  <2> QED
    BY <2>2, <2>3 DEF Stage, Null
<1>2. TypeOK /\ DeliveryInv /\ LifeInv /\ [Next]_vars
        => [Life!Next]_([e \in Stamped |-> Stage(e)])
  <2> SUFFICES ASSUME TypeOK, DeliveryInv, LifeInv, [Next]_vars, NEW e \in Stamped,
                      Stage(e)' # Stage(e)
               PROVE  <<Stage(e), Stage(e)'>> \in Life!Moves
    BY DEF Life!Next
  <2>0. /\ e \in Events /\ e \in Ids /\ now \in Nat /\ born[e] \in Nat /\ seen[e] \in Nat
        /\ DELIVERY_RETENTION \in Nat
    BY DeliveryAssumption DEF TypeOK, Ids
  <2>1. CASE Tick
    <3>1. UNCHANGED <<handler, queued, job, applied>> /\ (Over(e) => Over(e)')
      BY <2>0, <2>1 DEF Tick, ingest, provider, Over
    <3> QED
      BY <3>1, ClockMoves DEF Life!Moves
  <2>2. CASE Prune
    <3>1. UNCHANGED <<now, born, handler, queued, job, applied>>
      BY <2>2 DEF Prune, ingest, provider
    <3>2. Over(e) => Over(e)'
      <4>1. CASE Expired(e)
        <5>1. born[e] # Null /\ born[e] <= seen[e]
          BY <4>1 DEF Expired, DeliveryInv, RequestsAreTimely, LifeInv, RecordedAfterBirth
        <5>2. now > born[e] + DELIVERY_RETENTION
          BY <2>0, <4>1, <5>1 DEF Expired
        <5> QED
          BY <3>1, <5>1, <5>2 DEF Over
      <4>2. CASE ~Expired(e)
        BY <2>0, <2>2, <3>1, <4>2 DEF Prune, Over
      <4> QED
        BY <4>1, <4>2
    <3> QED
      BY <3>1, <3>2, ClockMoves DEF Life!Moves
  <2>3. CASE Configure \/ UNCHANGED vars
    <3>1. UNCHANGED <<now, born, seen, handler, queued, job, applied>>
      BY <2>3 DEF Configure, vars, provider, ingest
    <3> QED
      BY <3>1, ClockMoves DEF Life!Moves, Over
  <2>4. CASE EditSource
    <3>1. UNCHANGED <<now, born, seen, handler, queued, job, applied>>
      BY <2>4 DEF EditSource, provider, ingest
    <3> QED
      BY <3>1, ClockMoves DEF Life!Moves, Over
  <2>5. ASSUME NEW h \in Handlers, NEW d \in Events, Deliver(h, d)
        PROVE  <<Stage(e), Stage(e)'>> \in Life!Moves
    <3>1. UNCHANGED <<now, seen, queued, job, applied>>
      BY <2>5 DEF Deliver, ingest
    <3>2. Claims(e)' = Claims(e)
      <4>1. handler[h].step # "remembered" /\ handler'[h].step # "remembered"
        BY <2>5 DEF Deliver, Answer, Idle, TypeOK
      <4>2. \A g \in Handlers : g # h => handler'[g] = handler[g]
        BY <2>5 DEF Deliver, Answer, TypeOK
      <4> QED
        BY <4>1, <4>2 DEF Claims
    <3>3. born'[e] = born[e] \/ (born[e] = Null /\ born'[e] = now)
      BY <2>0, <2>5 DEF Deliver, TypeOK
    <3>4. Over(e)' <=> Over(e)
      BY <2>0, <3>1, <3>3 DEF Over
    <3> QED
      BY <3>1, <3>2, <3>4, SameStage DEF Exhausted
  <2>6. ASSUME NEW h \in Handlers, Remember(h) \/ Ignore(h) \/ QueueAdd(h) \/ Break(h)
        PROVE  <<Stage(e), Stage(e)'>> \in Life!Moves
    BY <2>6, RequestMoves DEF Life!Moves
  <2>7. ASSUME NEW j \in Jobs, JobStep(j) PROVE <<Stage(e), Stage(e)'>> \in Life!Moves
    BY <2>7, JobMoves DEF Life!Moves
  <2> QED
    BY <2>1, <2>2, <2>3, <2>4, <2>5, <2>6, <2>7 DEF Next, JobStep
<1> QED
  BY <1>1, <1>2, DeliveryTypeCorrect, DeliveriesAreClaimedOnce, LifeInvariant, PTL
     DEF Spec, Life!Safe
=============================================================================
