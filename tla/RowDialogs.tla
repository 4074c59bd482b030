----------------------------- MODULE RowDialogs -----------------------------
(***************************************************************************)
(* The dialogs that create and change a row of the administration pages.   *)
(* A dialog copies the row into a form when it opens, holds its own state  *)
(* while the reader types, and sends the whole form back: what is stored   *)
(* afterwards is the row through three conversions, and through whatever   *)
(* another administrator saved in between.                                 *)
(*                                                                         *)
(* Texts are "" or a letter, "null" is an absent value of the store, and   *)
(* "unnamed" is a key/value line whose key was not typed.                  *)
(***************************************************************************)
EXTENDS Integers, FiniteSets

CONSTANTS
  Editors,      \* the administrators
  MaxEdits      \* how many times one changes a field

VARIABLES
  dialog,       \* the dialog, and so the table it is about
  row,          \* what is stored
  editor,       \* each administrator's open dialog
  edits

vars == <<dialog, row, editor, edits>>

Texts == {"", "a"}
Lines == {"", "a", "unnamed"}

\* A dialog: its fields and what each can show; the fields that must be filled
\* in; those whose blank is a null in the store; those never shown again; the
\* lists of lines; the fields that are shown only while another has one of
\* these values, and of those the ones that are blanked when it has not.
Always == <<>>
EnvRuleDialog ==
  [values   |-> [name |-> {"a", "b"}, repo |-> Texts, kind |-> {"simple", "meta"}, attributes |-> Lines],
   required |-> {"name"}, optional |-> {"repo"}, secrets |-> {}, lines |-> {"attributes"},
   shown    |-> [attributes |-> [by |-> "kind", when |-> {"simple"}]], blanked |-> {"attributes"}]
EnvUrlRuleDialog ==
  [values   |-> [name |-> {"a", "b"}, repo |-> Texts, mode |-> {"fill", "override"}],
   required |-> {"name"}, optional |-> {"repo"}, secrets |-> {}, lines |-> {}, shown |-> Always, blanked |-> {}]
ManualEnvironmentDialog ==
  [values   |-> [environment |-> {"a", "b"}, repo |-> Texts, url |-> Texts, attributes |-> Lines, mode |-> {"fill", "override"}],
   required |-> {"environment"}, optional |-> {"url"}, secrets |-> {}, lines |-> {"attributes"},
   shown |-> Always, blanked |-> {}]
TicketRuleDialog ==
  [values   |-> [name |-> {"a", "b"}, trackerId |-> {"a", "b"}, sources |-> {"", "title", "title,body"}],
   required |-> {"name", "sources"}, optional |-> {}, secrets |-> {}, lines |-> {}, shown |-> Always, blanked |-> {}]
VersionRuleDialog ==
  [values   |-> [environment |-> Texts, format |-> {"json", "text"}, pattern |-> Texts,
                 authKind |-> {"none", "bearer", "header"}, authHeader |-> Texts, headers |-> Lines, secret |-> Texts],
   required |-> {}, optional |-> {"environment", "pattern", "authHeader"}, secrets |-> {"secret"},
   lines    |-> {"headers"},
   shown    |-> [pattern    |-> [by |-> "format", when |-> {"text"}],
                 authHeader |-> [by |-> "authKind", when |-> {"header"}],
                 secret     |-> [by |-> "authKind", when |-> {"bearer", "header"}]],
   blanked  |-> {"pattern", "authHeader"}]
ProviderDialog ==
  [values   |-> [kind |-> {"anthropic", "custom"}, model |-> {"", "a", "default"}, apiKey |-> Texts, baseUrl |-> Texts],
   required |-> {"model"}, optional |-> {"baseUrl"}, secrets |-> {"apiKey"}, lines |-> {}, shown |-> Always, blanked |-> {}]
TrackerDialog ==
  [values   |-> [name |-> {"a", "b"}, kind |-> {"github", "jira"}, urlTemplate |-> Texts],
   required |-> {"name"}, optional |-> {"urlTemplate"}, secrets |-> {}, lines |-> {}, shown |-> Always, blanked |-> {}]
UserDialog ==
  [values   |-> [name |-> {"a", "b"}, role |-> {"admin", "member"}, password |-> {"", "a", "b"}],
   required |-> {"name"}, optional |-> {}, secrets |-> {"password"}, lines |-> {}, shown |-> Always, blanked |-> {}]
Dialogs == {EnvRuleDialog, EnvUrlRuleDialog, ManualEnvironmentDialog, TicketRuleDialog, VersionRuleDialog,
            ProviderDialog, TrackerDialog, UserDialog}

Fields == DOMAIN dialog.values

\* A field that is on screen.
Shown(form, f) ==
  f \in DOMAIN dialog.shown => form[dialog.shown[f].by] \in dialog.shown[f].when

\* What the table can hold.
StoredValues(d, f) ==
  ((d.values[f] \ {"unnamed"}) \ (IF f \in d.required \cup d.optional \cup d.secrets THEN {""} ELSE {}))
  \cup (IF f \in d.optional \cup d.secrets THEN {"null"} ELSE {})

\* A secret belongs to an authentication, a pattern to the format that reads
\* one and a name to the header that carries one.
Coherent(d, r) ==
  \A f \in DOMAIN d.shown : r[d.shown[f].by] \notin d.shown[f].when => r[f] \in {"null", ""}

Rows(d) == {r \in [DOMAIN d.values -> UNION {StoredValues(d, f) : f \in DOMAIN d.values}] :
              /\ \A f \in DOMAIN d.values : r[f] \in StoredValues(d, f)
              /\ Coherent(d, r)}

Closed == [open |-> FALSE, form |-> <<>>, touched |-> {}, stale |-> FALSE]

Init ==
  /\ dialog \in Dialogs
  /\ row \in Rows(dialog)
  /\ editor = [e \in Editors |-> Closed]
  /\ edits = 0

\* A mutation: optional fields are not prefilled.
toForm_Forgets(r) ==
  [f \in Fields |-> IF f \in dialog.secrets \cup dialog.optional THEN "" ELSE r[f]]

\* The form of a row: a null is a blank, and a secret is never read back.
toForm(r) ==
  [f \in Fields |-> IF f \in dialog.secrets \/ r[f] = "null" THEN "" ELSE r[f]]

Open(e) ==
  /\ ~editor[e].open
  /\ editor' = [editor EXCEPT ![e] = [open |-> TRUE, form |-> toForm(row), touched |-> {}, stale |-> FALSE]]
  /\ UNCHANGED <<dialog, row, edits>>

\* Another vendor brings its own model, or none.
changeKind(form, v) ==
  [form EXCEPT !.kind = v, !.model = IF v = "anthropic" THEN "default" ELSE ""]

set(e, f, v) ==
  /\ editor[e].open
  /\ edits < MaxEdits
  /\ Shown(editor[e].form, f)
  /\ v \in dialog.values[f] \ {editor[e].form[f]}
  /\ edits' = edits + 1
  /\ editor' = [editor EXCEPT
       ![e].form = IF dialog = ProviderDialog /\ f = "kind" THEN changeKind(@, v) ELSE [@ EXCEPT ![f] = v],
       ![e].touched = @ \cup {f} \cup (IF dialog = ProviderDialog /\ f = "kind" THEN {"model"} ELSE {})]
  /\ UNCHANGED <<dialog, row>>

\* A field the other settings of the form make meaningless.
Moot(form, f) == f \in dialog.blanked /\ ~Shown(form, f)

\* A mutation: an untouched secret is sent blank.
payload_BlankSecret(form) ==
  [f \in Fields |->
     IF Moot(form, f) \/ (f \in dialog.lines /\ form[f] = "unnamed") THEN "" ELSE form[f]]

\* What is sent: everything, but a secret that was not typed; a line without a
\* key is left out.
payload(form) ==
  [f \in {f \in Fields : f \in dialog.secrets => form[f] # ""} |->
     IF Moot(form, f) \/ (f \in dialog.lines /\ form[f] = "unnamed") THEN "" ELSE form[f]]

\* What the API stores: an omitted key keeps its value, an empty one is a
\* null.  Without authentication there is no secret to keep, and an empty one
\* is forgotten.
update(r, sent) ==
  [f \in Fields |->
     IF f \in DOMAIN sent
     THEN IF f \in dialog.optional \cup dialog.secrets /\ sent[f] = "" THEN "null" ELSE sent[f]
     ELSE IF dialog = VersionRuleDialog /\ sent.authKind = "none" THEN "null" ELSE r[f]]

\* Saved: the dialog closes, and every other open one is about an older row.
submit(e) ==
  /\ editor[e].open
  /\ \A f \in dialog.required : editor[e].form[f] # ""
  /\ row' = update(row, payload(editor[e].form))
  /\ editor' = [x \in Editors |-> IF x = e THEN Closed ELSE [editor[x] EXCEPT !.stale = TRUE]]
  /\ UNCHANGED <<dialog, edits>>

Close(e) ==
  /\ editor[e].open
  /\ editor' = [editor EXCEPT ![e] = Closed]
  /\ UNCHANGED <<dialog, row, edits>>

Next ==
  \E e \in Editors :
    \/ Open(e) \/ submit(e) \/ Close(e)
    \/ \E f \in Fields : \E v \in dialog.values[f] : set(e, f, v)

Spec == Init /\ [][Next]_vars

\* A save stores what its author typed and nothing else: a field that was not
\* touched keeps its value, a secret that was not retyped included
\* (VersionRulesPage.tsx:299-302, LlmProvidersPage.tsx:251-253,
\* UsersSettings.tsx:271-272).  The exceptions are the field the form itself
\* made meaningless, the secret of a rule that dropped authentication, and a
\* row saved by somebody else while the dialog was open, which is overwritten.
SaveTouchesOnly ==
  \A e \in Editors : (editor[e].open /\ row' # row /\ ~editor'[e].open) =>
    LET form == editor[e].form IN
    \A f \in Fields :
      \/ row'[f] = row[f] /\ (f \notin editor[e].touched \/ form[f] = toForm(row)[f])
      \/ f \in editor[e].touched /\ row'[f] = form[f]
      \/ f \in editor[e].touched /\ form[f] \in {"", "unnamed"} /\ row'[f] \in {"null", ""}
      \/ Moot(form, f)
      \/ ~Shown(form, f) /\ f \in dialog.secrets
      \/ editor[e].stale

\* Dropping authentication altogether takes the secret with it
\* (version-rules.service.ts:132-135).
NoAuthNoSecret ==
  dialog = VersionRuleDialog => (row.authKind = "none" => row.secret = "null")

=============================================================================
