--------------------------- MODULE SourceRegistry ---------------------------
(***************************************************************************)
(* The sources an admin declares (sources/sources.service.ts), the secret  *)
(* each one owns (crypto/credentials.service.ts) and the tracker its       *)
(* incidents come from (trackers/trackers.service.ts).  An update reads    *)
(* the row, merges the form into what it read and writes the result, so    *)
(* two of them may each write what the other one changed.                  *)
(*                                                                         *)
(* The deletion of a source's webhook secret is WebhookDelivery's, its     *)
(* depth Collection's, the default flag Defaults', what it spent of its    *)
(* provider's quota ApiQuota's; names, addresses and scopes are not told   *)
(* apart.                                                                  *)
(***************************************************************************)
EXTENDS Naturals, FiniteSets

CONSTANTS
  Sources,   \* ids a source may be created under, minted by the caller
  Trackers,  \* the trackers
  Requests   \* admins saving

VARIABLES
  source,    \* Source with its trackers, NoRow where there is no row
  secret,    \* Credential: the scheme of the secret an owner has, None without
  tracker,   \* Tracker: its kind, None where there is no row
  req,       \* what each request is doing
  broken     \* observation: sources whose removal stopped half way

vars == <<source, secret, tracker, req, broken>>

None == "none"

Schemes == {"token", "app"}

Kinds == {"git", "jira"}   \* kinds an incident provider exists for, and others

Idle == [at |-> "idle"]

Row(scheme, mode, hooks, bound) ==
  [scheme |-> scheme, mode |-> mode, hooks |-> hooks, incidents |-> bound]

NoRow == Row(None, None, FALSE, None)

Init ==
  /\ source = [s \in Sources |-> NoRow]
  /\ secret = [s \in Sources |-> None]
  /\ tracker \in [Trackers -> Kinds]
  /\ req = [q \in Requests |-> Idle]
  /\ broken = {}

Becomes(q, r) == req' = [req EXCEPT ![q] = r]

Exists(s) == source[s] # NoRow

\* A write has landed: whoever has read the row and not written is overtaken.
Landed(q, s, r) ==
  req' = [p \in Requests |->
    IF p = q THEN r
    ELSE IF req[p].at = "merged" /\ req[p].id = s THEN [req[p] EXCEPT !.raced = TRUE]
    ELSE req[p]]

----------------------------------------------------------------------------
(* Creating and updating.                                                  *)

\* What a form may say; one key at a time, the others merging like it.
Forms ==
  {[key |-> "scheme", value |-> a] : a \in Schemes} \cup
  {[key |-> "mode", value |-> m] : m \in {"live", "stored"}} \cup
  {[key |-> "hooks", value |-> h] : h \in BOOLEAN} \cup
  {[key |-> "incidents", value |-> t] : t \in Trackers \cup {None}} \cup
  {[key |-> "secret"], [key |-> "name"]}

Says(form, key, kept) == IF form.key = key THEN form.value ELSE kept

\* assertTrackers: the tracker incidents are read from exists, and is of a
\* kind a provider exists for.
TrackersAllowed(form) ==
  (form.key = "incidents" /\ form.value # None) => tracker[form.value] = "git"

\* assertWebhooksAllowed: events only ever feed the store.
HooksAllowed(mode, asked) == asked => mode = "stored"

\* create: the row and its secret in one transaction, under an id nobody has
\* held before.
Create(s, scheme, mode, hooks, bound) ==
  /\ source[s] = NoRow /\ secret[s] = None
  /\ \A q \in Requests : req[q] # Idle => req[q].id # s
  /\ TrackersAllowed([key |-> "incidents", value |-> bound])
  /\ HooksAllowed(mode, hooks)
  /\ source' = [source EXCEPT ![s] = Row(scheme, mode, hooks, bound)]
  /\ secret' = [secret EXCEPT ![s] = scheme]
  /\ UNCHANGED <<tracker, req, broken>>

\* Mutant: switching back to live leaves the events on.
Merge_KeepsHooks(row, form) ==
  Row(Says(form, "scheme", row.scheme), Says(form, "mode", row.mode),
      Says(form, "hooks", row.hooks), Says(form, "incidents", row.incidents))

\* update, up to its write: the merged state, in which only a stored source
\* listens.
Merge(row, form) ==
  LET mode == Says(form, "mode", row.mode)
  IN  Row(Says(form, "scheme", row.scheme), mode,
          mode = "stored" /\ Says(form, "hooks", row.hooks),
          Says(form, "incidents", row.incidents))

\* A new secret is asked for when one is supplied, or when the scheme changes
\* and makes the old one unusable.
NewSecret(row, form) ==
  form.key = "secret" \/ (form.key = "scheme" /\ form.value # row.scheme)

Update(q, s, form) ==
  /\ req[q] = Idle /\ Exists(s)
  /\ TrackersAllowed(form)
  /\ HooksAllowed(Merge(source[s], form).mode, Says(form, "hooks", FALSE))
  /\ Becomes(q, [at |-> "merged", id |-> s, row |-> Merge(source[s], form),
                 rebinds |-> form.key = "incidents",
                 resecret |-> NewSecret(source[s], form), raced |-> FALSE])
  /\ UNCHANGED <<source, secret, tracker, broken>>

\* The write: kind, scheme, mode and events as merged, the trackers only when
\* the form had them, the secret in the same transaction.  A row that is gone
\* refuses it, and so does a tracker that is.
Write(q) ==
  /\ req[q].at = "merged"
  /\ LET s == req[q].id
         r == req[q].row
         bound == IF req[q].rebinds THEN r.incidents ELSE source[s].incidents
     IN  IF Exists(s) /\ (req[q].rebinds /\ r.incidents # None => tracker[r.incidents] # None)
         THEN /\ source' = [source EXCEPT ![s] =
                   Row(r.scheme, r.mode, r.hooks, bound)]
              /\ secret' = IF req[q].resecret THEN [secret EXCEPT ![s] = r.scheme] ELSE secret
              /\ Landed(q, s, Idle)
         ELSE Becomes(q, Idle) /\ UNCHANGED <<source, secret>>
  /\ UNCHANGED <<tracker, broken>>

----------------------------------------------------------------------------
(* Removing, and the world around.                                         *)

\* Mutant: what no cascade reaches is left behind.
Remove_Leaks(q, s) ==
  /\ req[q] = Idle /\ Exists(s)
  /\ source' = [source EXCEPT ![s] = NoRow]
  /\ UNCHANGED <<secret, tracker, req, broken>>

\* remove: the row first, then what hangs off no relation.
Remove(q, s) ==
  /\ req[q] = Idle /\ Exists(s)
  /\ source' = [source EXCEPT ![s] = NoRow]
  /\ Becomes(q, [at |-> "forgetQuota", id |-> s])
  /\ UNCHANGED <<secret, tracker, broken>>

\* quotas.forget (ApiQuota), awaited before what comes after it.
ForgetQuota(q) ==
  /\ req[q].at = "forgetQuota"
  /\ Becomes(q, [req[q] EXCEPT !.at = "forgetSecret"])
  /\ UNCHANGED <<source, secret, tracker, broken>>

ForgetSecret(q) ==
  /\ req[q].at = "forgetSecret"
  /\ secret' = [secret EXCEPT ![req[q].id] = None]
  /\ Becomes(q, Idle)
  /\ UNCHANGED <<source, tracker, broken>>

\* What a request awaits throws, or the process dies: what is left of it never
\* happens, and a removal whose row is gone cannot be asked for again.
Break(q) ==
  /\ req[q] # Idle
  /\ broken' = IF req[q].at = "merged" THEN broken ELSE broken \cup {req[q].id}
  /\ Becomes(q, Idle)
  /\ UNCHANGED <<source, secret, tracker>>

\* TrackersService.update: any kind, whoever reads incidents from it.
UpdateTracker(t, kind) ==
  /\ tracker[t] # None
  /\ tracker' = [tracker EXCEPT ![t] = kind]
  /\ UNCHANGED <<source, secret, req, broken>>

\* TrackersService.remove: the bindings go with the row.
RemoveTracker(t) ==
  /\ tracker[t] # None
  /\ tracker' = [tracker EXCEPT ![t] = None]
  /\ source' = [s \in Sources |->
       IF Exists(s) /\ source[s].incidents = t
       THEN [source[s] EXCEPT !.incidents = None] ELSE source[s]]
  /\ UNCHANGED <<secret, req, broken>>

Next ==
  \/ \E s \in Sources :
       \E a \in Schemes, m \in {"live", "stored"}, h \in BOOLEAN, t \in Trackers \cup {None} :
         Create(s, a, m, h, t)
  \/ \E q \in Requests :
       \/ Write(q) \/ ForgetQuota(q) \/ ForgetSecret(q) \/ Break(q)
       \/ \E s \in Sources :
            Remove(q, s) \/ \E f \in Forms : Update(q, s, f)
  \/ \E t \in Trackers : RemoveTracker(t) \/ \E k \in Kinds : UpdateTracker(t, k)

Spec == Init /\ [][Next]_vars

----------------------------------------------------------------------------
(* Properties.                                                             *)

\* Only a stored source listens, whatever two updates each merged: mode and
\* switch are written together, from one reading (update).
OnlyStoredListens ==
  \A s \in Sources : Exists(s) /\ source[s].hooks => source[s].mode = "stored"

\* A source stops being readable with its secret only when an update writes
\* back the scheme it had read before another one changed it: otherwise scheme
\* and secret change together (update, one transaction).
Authenticates(s) == Exists(s) => secret[s] = source[s].scheme

WrongSecretOnlyByRace ==
  \A s \in Sources :
    Authenticates(s) /\ ~Authenticates(s)' =>
      \E q \in Requests : req[q].at = "merged" /\ req[q].id = s /\ req[q].raced

\* The secret, which no cascade reaches, outlives its owner only while the
\* removal is under way or when it broke half way (remove, credentials.forget).
NothingOutlives ==
  \A s \in Sources : secret[s] # None =>
    \/ Exists(s) \/ s \in broken
    \/ \E q \in Requests : req[q].at \in {"forgetQuota", "forgetSecret"} /\ req[q].id = s

\* "SourcesService refuses to designate one": incidents are read from a tracker
\* a provider exists for.
IncidentTrackerSupported ==
  \A s \in Sources :
    Exists(s) /\ source[s].incidents # None => tracker[source[s].incidents] = "git"
=============================================================================
