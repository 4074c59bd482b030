---------------------------- MODULE LoginThrottle ----------------------------
(***************************************************************************)
(* The failed sign-in counter (auth/login-throttle.ts) under AuthService   *)
(* .login: an attempt is let through, its password is verified - which     *)
(* takes a while - and only then is it counted or forgiven.  Several       *)
(* attempts are at that point at once.                                     *)
(***************************************************************************)
EXTENDS Naturals, FiniteSetTheorems, TLAPS

CONSTANTS
  Emails, Ips,      \* what an attempt is counted against
  Attempts,         \* attempts in flight
  EMAIL_LIMIT, IP_LIMIT,  \* LIMITS
  WINDOW,           \* WINDOW_MS
  PRUNE_AT          \* the size the map is swept at

VARIABLES
  buckets,  \* the counters: what is counted and how long it is remembered
  attempt   \* what each attempt in flight is counted against

vars == <<buckets, attempt>>

Keys == ({"email"} \X Emails) \cup ({"ip"} \X Ips)

Limit(k) == IF k[1] = "email" THEN EMAIL_LIMIT ELSE IP_LIMIT

NoBucket == [count |-> 0, left |-> 0]

Idle == {}

Init ==
  /\ buckets = [k \in Keys |-> NoBucket]
  /\ attempt = [a \in Attempts |-> Idle]

KeysOf(e, ip) == {<<"email", e>>, <<"ip", ip>>}

\* Mutant: a bucket is compared against a limit it never reaches exactly.
Closed_Late(k) == buckets[k].left > 0 /\ buckets[k].count > Limit(k)

\* retryAfter: some bucket is still remembered and has reached its limit.
Closed(k) == buckets[k].left > 0 /\ buckets[k].count >= Limit(k)

RetryAfter(keys) == \E k \in keys : Closed(k)

\* The sweep takes what nobody remembers any more, once the map is large.
Prune(b) ==
  IF Cardinality({k \in Keys : b[k] # NoBucket}) < PRUNE_AT THEN b
  ELSE [k \in Keys |-> IF b[k].left = 0 THEN NoBucket ELSE b[k]]

RecordFailure(keys) ==
  buckets' = Prune([k \in Keys |->
    IF k \in keys
    THEN [count |-> IF buckets[k].left > 0 THEN buckets[k].count + 1 ELSE 1,
          left |-> WINDOW]
    ELSE buckets[k]])

Clear(keys) ==
  buckets' = [k \in Keys |-> IF k \in keys THEN NoBucket ELSE buckets[k]]

\* login, up to the verification: turned away, or let through.
Arrive(a, e, ip) ==
  /\ attempt[a] = Idle
  /\ ~RetryAfter(KeysOf(e, ip))
  /\ attempt' = [attempt EXCEPT ![a] = KeysOf(e, ip)]
  /\ UNCHANGED buckets

\* The verification answers: counted against both keys, or forgiven for both.
Verified(a) ==
  /\ attempt[a] # Idle
  /\ \/ RecordFailure(attempt[a])
     \/ Clear(attempt[a])
  /\ attempt' = [attempt EXCEPT ![a] = Idle]

Tick ==
  /\ buckets' = [k \in Keys |->
       [buckets[k] EXCEPT !.left = IF buckets[k].left = 0 THEN 0 ELSE buckets[k].left - 1]]
  /\ UNCHANGED attempt

Next ==
  \/ Tick
  \/ \E a \in Attempts :
       \/ Verified(a)
       \/ \E e \in Emails, ip \in Ips : Arrive(a, e, ip)

Spec == Init /\ [][Next]_vars

\* Attempts let through before the door closed are counted after it, but they
\* are the only ones: a limit is never passed by more than the attempts that
\* were already being verified (login's check and its count are an await apart).
LimitIsPassedOnlyInFlight ==
  \A k \in Keys :
    buckets[k].left > 0 =>
      buckets[k].count + Cardinality({a \in Attempts : k \in attempt[a]})
        <= Limit(k) + Cardinality(Attempts) - 1

----------------------------------------------------------------------------
(* Proofs, for any limits, any window and any number of attempts.          *)

\* A counter, and how long it is remembered.
Bucket == [count: Nat, left: Nat]

TypeOK ==
  /\ buckets \in [Keys -> Bucket]
  /\ attempt \in [Attempts -> SUBSET Keys]

\* The attempts being verified that will be counted against a key.
InFlight(k) == {a \in Attempts : k \in attempt[a]}

\* What an attempt is counted against are keys.
LEMMA KeysOfType ==
  ASSUME NEW e \in Emails, NEW ip \in Ips
  PROVE  KeysOf(e, ip) \subseteq Keys
BY DEF KeysOf, Keys

\* The sweep forgets counters nobody remembers, and no other.
LEMMA PruneForgets ==
  ASSUME NEW b \in [Keys -> Bucket]
  PROVE  /\ Prune(b) \in [Keys -> Bucket]
         /\ \A k \in Keys : Prune(b)[k].left > 0 => Prune(b)[k] = b[k]
<1>1. NoBucket \in Bucket /\ NoBucket.left = 0
  BY DEF NoBucket, Bucket
<1> QED
  BY <1>1 DEF Prune

\* A failure counts one more against each key of the attempt, or the first.
LEMMA FailureCounts ==
  ASSUME TypeOK, WINDOW \in Nat, NEW keys \in SUBSET Keys, RecordFailure(keys)
  PROVE  /\ buckets' \in [Keys -> Bucket]
         /\ \A k \in Keys : buckets'[k].left > 0 =>
              \/ k \notin keys /\ buckets'[k] = buckets[k]
              \/ /\ k \in keys
                 /\ buckets'[k].count =
                      IF buckets[k].left > 0 THEN buckets[k].count + 1 ELSE 1
<1> DEFINE b == [k \in Keys |->
                   IF k \in keys
                   THEN [count |-> IF buckets[k].left > 0 THEN buckets[k].count + 1 ELSE 1,
                         left |-> WINDOW]
                   ELSE buckets[k]]
<1>1. b \in [Keys -> Bucket]
  BY DEF TypeOK, Bucket
<1>2. buckets' = Prune(b)
  BY DEF RecordFailure
<1>3. \A k \in Keys :
        \/ k \notin keys /\ b[k] = buckets[k]
        \/ /\ k \in keys
           /\ b[k].count = IF buckets[k].left > 0 THEN buckets[k].count + 1 ELSE 1
  OBVIOUS
<1> HIDE DEF b
<1>4. /\ buckets' \in [Keys -> Bucket]
      /\ \A k \in Keys : buckets'[k].left > 0 => buckets'[k] = b[k]
  BY <1>1, <1>2, PruneForgets
<1> QED
  BY <1>3, <1>4

\* The counters and the attempts keep their types.
THEOREM ThrottleTypeCorrect ==
  ASSUME WINDOW \in Nat
  PROVE  Spec => []TypeOK
<1>1. Init => TypeOK
  BY DEF Init, TypeOK, NoBucket, Bucket, Idle
<1>2. ASSUME TypeOK, [Next]_vars PROVE TypeOK'
  <2>1. CASE Tick
    <3>1. \A k \in Keys :
            [buckets[k] EXCEPT !.left = IF buckets[k].left = 0 THEN 0 ELSE buckets[k].left - 1]
              \in Bucket
      BY <1>2 DEF TypeOK, Bucket
    <3> QED
      BY <1>2, <2>1, <3>1 DEF Tick, TypeOK
  <2>2. ASSUME NEW a \in Attempts, Verified(a) PROVE TypeOK'
    <3>1. attempt[a] \in SUBSET Keys /\ attempt' \in [Attempts -> SUBSET Keys]
      BY <1>2, <2>2 DEF TypeOK, Verified, Idle
    <3>2. CASE RecordFailure(attempt[a])
      BY <1>2, <3>1, <3>2, FailureCounts DEF TypeOK
    <3>3. CASE Clear(attempt[a])
      BY <1>2, <3>1, <3>3 DEF Clear, TypeOK, NoBucket, Bucket
    <3> QED
      BY <2>2, <3>2, <3>3 DEF Verified
  <2>3. ASSUME NEW a \in Attempts, NEW e \in Emails, NEW ip \in Ips, Arrive(a, e, ip)
        PROVE  TypeOK'
    BY <1>2, <2>3, KeysOfType DEF Arrive, TypeOK
  <2>4. CASE UNCHANGED vars
    BY <1>2, <2>4 DEF vars, TypeOK
  <2> QED
    BY <1>2, <2>1, <2>2, <2>3, <2>4 DEF Next
<1> QED
  BY <1>1, <1>2, PTL DEF Spec

\* The attempts in flight are no more than the attempts.
LEMMA InFlightBounded ==
  ASSUME IsFiniteSet(Attempts), NEW k \in Keys
  PROVE  /\ IsFiniteSet(InFlight(k)) /\ Cardinality(InFlight(k)) \in Nat
         /\ Cardinality(InFlight(k)) <= Cardinality(Attempts)
         /\ Cardinality(Attempts) \in Nat
<1>1. InFlight(k) \in SUBSET Attempts
  BY DEF InFlight
<1>2. IsFiniteSet(InFlight(k)) /\ Cardinality(InFlight(k)) <= Cardinality(Attempts)
  BY <1>1, FS_Subset
<1> QED
  BY <1>2, FS_CardinalityType

\* However many attempts were let through before the door closed, a limit is never
\* passed by more than those still being verified at that moment: the check of
\* login and its count are an await apart, and the count is what a bound rests on.
THEOREM ThrottleHolds ==
  ASSUME WINDOW \in Nat, EMAIL_LIMIT \in Nat \ {0}, IP_LIMIT \in Nat \ {0},
         IsFiniteSet(Attempts)
  PROVE  Spec => []LimitIsPassedOnlyInFlight
<1> DEFINE Held(k) == buckets[k].left > 0 =>
             buckets[k].count + Cardinality(InFlight(k)) <= Limit(k) + Cardinality(Attempts) - 1
<1>1. LimitIsPassedOnlyInFlight <=> \A k \in Keys : Held(k)
  BY DEF LimitIsPassedOnlyInFlight, InFlight
<1>2. Init => LimitIsPassedOnlyInFlight
  BY DEF Init, LimitIsPassedOnlyInFlight, NoBucket
<1>3. ASSUME TypeOK, LimitIsPassedOnlyInFlight, [Next]_vars, TypeOK', NEW k \in Keys
      PROVE  Held(k)'
  <2>1. /\ buckets[k] \in Bucket /\ buckets'[k] \in Bucket
        /\ Limit(k) \in Nat \ {0} /\ Limit(k)' = Limit(k) /\ Held(k)
    BY <1>1, <1>3 DEF TypeOK, Limit
  <2>2. /\ Cardinality(InFlight(k)) \in Nat /\ Cardinality(InFlight(k)') \in Nat
        /\ IsFiniteSet(InFlight(k)) /\ Cardinality(InFlight(k)') <= Cardinality(Attempts)
        /\ Cardinality(Attempts) \in Nat
    <3>1. InFlight(k)' \in SUBSET Attempts
      BY DEF InFlight
    <3>2. IsFiniteSet(InFlight(k)') /\ Cardinality(InFlight(k)') <= Cardinality(Attempts)
      BY <3>1, FS_Subset
    <3> QED
      BY <3>2, InFlightBounded, FS_CardinalityType
  <2>3. CASE Tick
    <3>1. InFlight(k)' = InFlight(k) /\ buckets'[k].count = buckets[k].count
      BY <1>3, <2>3 DEF Tick, InFlight, TypeOK, Bucket
    <3>2. buckets'[k].left > 0 => buckets[k].left > 0
      BY <1>3, <2>1, <2>3 DEF Tick, Bucket
    <3> QED
      BY <2>1, <3>1, <3>2
  <2>4. ASSUME NEW a \in Attempts, Verified(a) PROVE Held(k)'
    <3>1. InFlight(k)' = InFlight(k) \ {a} /\ attempt[a] \in SUBSET Keys
      BY <1>3, <2>4 DEF Verified, InFlight, TypeOK, Idle
    <3>2. Cardinality(InFlight(k)') = IF k \in attempt[a] THEN Cardinality(InFlight(k)) - 1
                                      ELSE Cardinality(InFlight(k))
      <4>1. a \in InFlight(k) <=> k \in attempt[a]
        BY DEF InFlight
      <4> QED
        BY <2>2, <3>1, <4>1, FS_RemoveElement
    <3>3. CASE Clear(attempt[a])
      BY <1>3, <2>1, <2>2, <3>2, <3>3 DEF Clear, NoBucket
    <3>4. CASE RecordFailure(attempt[a])
      <4>1. buckets'[k].left > 0 =>
              \/ k \notin attempt[a] /\ buckets'[k] = buckets[k]
              \/ /\ k \in attempt[a]
                 /\ buckets'[k].count =
                      IF buckets[k].left > 0 THEN buckets[k].count + 1 ELSE 1
        BY <1>3, <3>1, <3>4, FailureCounts
      <4>2. Cardinality(InFlight(k)) <= Cardinality(Attempts)
        BY InFlightBounded
      <4> QED
        BY <2>1, <2>2, <3>2, <4>1, <4>2 DEF Bucket
    <3> QED
      BY <2>4, <3>3, <3>4 DEF Verified
  <2>5. ASSUME NEW a \in Attempts, NEW e \in Emails, NEW ip \in Ips, Arrive(a, e, ip)
        PROVE  Held(k)'
    <3>1. buckets' = buckets
      BY <2>5 DEF Arrive
    <3>2. CASE k \in KeysOf(e, ip)
      <4>1. buckets[k].left > 0 => buckets[k].count < Limit(k)
        BY <2>1, <2>5, <3>2 DEF Arrive, RetryAfter, Closed, Bucket
      <4> QED
        BY <2>1, <2>2, <3>1, <4>1 DEF Bucket
    <3>3. CASE k \notin KeysOf(e, ip)
      <4>1. InFlight(k)' = InFlight(k)
        BY <1>3, <2>5, <3>3 DEF Arrive, InFlight, TypeOK, Idle
      <4> QED
        BY <2>1, <3>1, <4>1
    <3> QED
      BY <3>2, <3>3
  <2>6. CASE UNCHANGED vars
    <3>1. InFlight(k)' = InFlight(k) /\ buckets' = buckets
      BY <2>6 DEF vars, InFlight
    <3> QED
      BY <2>1, <3>1
  <2> QED
    BY <1>3, <2>3, <2>4, <2>5, <2>6 DEF Next
<1>4. ASSUME TypeOK, LimitIsPassedOnlyInFlight, [Next]_vars, TypeOK'
      PROVE  LimitIsPassedOnlyInFlight'
  BY <1>3, <1>4 DEF LimitIsPassedOnlyInFlight, InFlight
<1> QED
  BY <1>2, <1>4, ThrottleTypeCorrect, PTL DEF Spec
=============================================================================
