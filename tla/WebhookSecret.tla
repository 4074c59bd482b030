---------------------------- MODULE WebhookSecret ----------------------------
(***************************************************************************)
(* Whether a source listens for events and the secret it verifies them     *)
(* with: the part of SourcesService.update that decides both, and          *)
(* issueWebhookSecret.  Nothing locks the source, so the requests of its   *)
(* administrators interleave at every await, and each may break there.     *)
(***************************************************************************)
EXTENDS Naturals

CONSTANTS
  Admins,      \* administrators editing the source
  MaxSecrets   \* bound on the secrets

VARIABLES
  enabled,   \* Source.webhooksEnabled, which implies mode = 'stored'
  secret,    \* WebhookSecret, Null when there is none
  issued,    \* secrets issued so far
  admin,     \* what each administrator's request is about to do
  stale,     \* observation: secrets issued by the last save that ended switched off
  left       \* observation: how a secret came to outlive the switch, if one did

vars == <<enabled, secret, issued, admin, stale, left>>

Null == 0

Init ==
  /\ \/ enabled = FALSE /\ secret = Null /\ issued = 0
     \/ enabled = TRUE /\ secret = 1 /\ issued = 1
  /\ admin = [a \in Admins |-> "idle"]
  /\ stale = 0 /\ left = "no"

\* A secret from before a save that ended switched off: held although the
\* source does not listen, or although it listens again.
Outlived == secret # Null /\ (~enabled \/ secret <= stale)

----------------------------------------------------------------------------

\* A save that ends with the events on, because it asks for them or because it
\* read the flag before somebody switched it off.
SwitchOn(a) ==
  /\ admin[a] = "idle" /\ ~enabled
  /\ enabled' = TRUE
  /\ UNCHANGED <<secret, issued, admin, stale, left>>

\* A save that ends with the events off, whatever it changed: the transaction,
\* and then, outside it, the deletion.
SwitchOff(a) ==
  /\ admin[a] = "idle"
  /\ enabled' = FALSE
  /\ stale' = issued
  /\ admin' = [admin EXCEPT ![a] = "dropping"]
  /\ UNCHANGED <<secret, issued, left>>

\* Mutant: the secret outlives the switch.
DropSecret_Kept(a) ==
  /\ admin[a] = "dropping"
  /\ admin' = [admin EXCEPT ![a] = "idle"]
  /\ UNCHANGED <<enabled, secret, issued, stale, left>>

\* The deletion, of whatever secret there is by now.
DropSecret(a) ==
  /\ admin[a] = "dropping"
  /\ secret' = Null /\ left' = "no"
  /\ admin' = [admin EXCEPT ![a] = "idle"]
  /\ UNCHANGED <<enabled, issued, stale>>

\* issueWebhookSecret reads the flag, and refuses when it is off ...
AskForSecret(a) ==
  /\ admin[a] = "idle" /\ enabled /\ issued < MaxSecrets
  /\ admin' = [admin EXCEPT ![a] = "issuing"]
  /\ UNCHANGED <<enabled, secret, issued, stale, left>>

\* ... then writes the secret it has drawn, over whatever there is by now.
IssueSecret(a) ==
  /\ admin[a] = "issuing"
  /\ issued' = issued + 1
  /\ secret' = issued + 1
  /\ left' = IF enabled THEN "no" ELSE "overtaken"
  /\ admin' = [admin EXCEPT ![a] = "idle"]
  /\ UNCHANGED <<enabled, stale>>

\* The deletion or the upsert throws, or the instance dies before it: the
\* administrator is told of a failure, and the switch stays as it was saved.
BreakEdit(a) ==
  /\ admin[a] # "idle"
  /\ left' = IF admin[a] = "dropping" /\ Outlived THEN "lost" ELSE left
  /\ admin' = [admin EXCEPT ![a] = "idle"]
  /\ UNCHANGED <<enabled, secret, issued, stale>>

Next ==
  \E a \in Admins :
    SwitchOn(a) \/ SwitchOff(a) \/ DropSecret(a) \/ AskForSecret(a) \/ IssueSecret(a)
      \/ BreakEdit(a)

Spec == Init /\ [][Next]_vars

----------------------------------------------------------------------------
(* What is checked.                                                        *)

TypeOK ==
  /\ enabled \in BOOLEAN /\ secret \in Nat /\ issued \in Nat
  /\ admin \in [Admins -> {"idle", "dropping", "issuing"}]
  /\ stale \in Nat /\ left \in {"no", "lost", "overtaken"}

\* A secret ends with the switch: none outlives it, to be held by a source that
\* does not listen or to verify deliveries again once it does, unless the
\* deletion is still to come, never ran, or came before the write of a request
\* that had read the flag while it was on.  A later save with the events off
\* deletes what was left, and a new secret replaces it.
SecretFollowsSwitch ==
  Outlived => \/ \E a \in Admins : admin[a] = "dropping"
              \/ left \in {"lost", "overtaken"}
=============================================================================
