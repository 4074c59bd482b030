---------------------------- MODULE SourceDialog ----------------------------
(***************************************************************************)
(* The dialog that changes a source, with the API's update behind it: the  *)
(* picking of its repositories against a catalogue read on demand, the     *)
(* credentials it never shows, its trackers and rules, and what saving     *)
(* starts (a first collection, a webhook secret).                          *)
(***************************************************************************)
EXTENDS Integers, FiniteSets

CONSTANTS
  Owners, Repos,
  Trackers,     \* the trackers declared
  Offered,      \* the rules this dialog lists: environment, repository, incident
  Unlisted,     \* the rules it does not: pull request, pull request title
  MaxEdits

VARIABLES
  stored,       \* the source
  credential,   \* what the stored secret is: a token or an app's key
  hookSecret,   \* a webhook secret is stored
  open,         \* the dialog is open
  form,
  repos,        \* the catalogue on screen
  selected,     \* the repositories ticked
  asked,        \* the catalogue was asked for and has not answered
  touched,      \* whether the rules were edited
  edits,
  unissued      \* a webhook secret could not be issued

dialogs == <<open, form, repos, selected, asked, touched>>
vars == <<stored, credential, hookSecret, dialogs, edits, unissued>>

Rules == Offered \cup Unlisted
None == "none"
Hidden == [shown |-> FALSE, names |-> {}]

Scopes == [owner: Owners, include: SUBSET Repos, exclude: SUBSET Repos, trackNewRepos: BOOLEAN]

\* Whether a scope covers a repository.
scopeTracks(scope, repo) ==
  /\ repo \notin scope.exclude
  /\ repo \in scope.include \/ scope.trackNewRepos

\* A mutation: the names are written on the side of the default.
scopeFromSelection_OtherSide(scope, catalogue, picked, trackNew) ==
  [scope EXCEPT !.include = IF trackNew THEN catalogue \cap picked ELSE {},
                !.exclude = IF trackNew THEN {} ELSE catalogue \ picked,
                !.trackNewRepos = trackNew]

\* A selection made against a catalogue, as a scope: only the side that
\* contradicts the default is written down.
scopeFromSelection(scope, catalogue, picked, trackNew) ==
  [scope EXCEPT !.include = IF trackNew THEN {} ELSE catalogue \cap picked,
                !.exclude = IF trackNew THEN catalogue \ picked ELSE {},
                !.trackNewRepos = trackNew]

\* The sources the API accepts.
Accepted(s) ==
  /\ s.kind = "gitlab" => s.authKind = "token"
  /\ s.webhooksEnabled => s.mode = "stored"
  /\ s.incidentTracker \in s.trackers \cup {None}

\* The form starts from the source, its credentials blank.
toForm(source) == [source |-> source, typed |-> None]

Init ==
  /\ stored \in [kind: {"github"}, authKind: {"token", "app"}, mode: {"live", "stored"},
                 webhooksEnabled: BOOLEAN, scope: {[owner |-> o, include |-> {}, exclude |-> {},
                 trackNewRepos |-> TRUE] : o \in Owners}, rules: SUBSET Rules,
                 trackers: {Trackers}, incidentTracker: Trackers \cup {None}]
  /\ Accepted(stored)
  /\ credential = stored.authKind
  /\ hookSecret = stored.webhooksEnabled
  /\ open = FALSE
  /\ form = toForm(stored)
  /\ repos = Hidden
  /\ selected = {}
  /\ asked = FALSE
  /\ touched = FALSE
  /\ edits = 0
  /\ unissued = FALSE

Open ==
  /\ ~open
  /\ open' = TRUE
  /\ form' = toForm(stored)
  /\ repos' = Hidden
  /\ selected' = {}
  /\ asked' = FALSE
  /\ touched' = FALSE
  /\ UNCHANGED <<stored, credential, hookSecret, edits, unissued>>

Edit(f) ==
  /\ open
  /\ edits < MaxEdits
  /\ f # form
  /\ edits' = edits + 1
  /\ form' = f
  /\ UNCHANGED <<stored, credential, hookSecret, open, asked, unissued>>

With(source) == [form EXCEPT !.source = source]

\* GitLab has tokens only.
changeKind(kind) ==
  /\ Edit(With([form.source EXCEPT !.kind = kind, !.authKind = IF kind = "gitlab" THEN "token" ELSE @]))
  /\ UNCHANGED <<repos, selected, touched>>

\* The fields that move alone: events are offered to a stored source only, and
\* apps to GitHub only.
set(source, typed) ==
  /\ Edit([source |-> source, typed |-> typed])
  /\ UNCHANGED <<repos, selected, touched>>

setAuthKind(authKind) ==
  /\ form.source.kind = "github"
  /\ set([form.source EXCEPT !.authKind = authKind], form.typed)
setMode(mode) == set([form.source EXCEPT !.mode = mode], form.typed)
setWebhooks(on) ==
  /\ form.source.mode = "stored"
  /\ set([form.source EXCEPT !.webhooksEnabled = on], form.typed)
setIncident(t) ==
  /\ t \in form.source.trackers \cup {None}
  /\ set([form.source EXCEPT !.incidentTracker = t], form.typed)
typeSecret(typed) == set(form.source, typed)

\* Detaching the tracker that supplied incidents clears the designation.
changeTrackers(trackers) ==
  /\ Edit(With([form.source EXCEPT !.trackers = trackers,
                                   !.incidentTracker = IF @ \in trackers THEN @ ELSE None]))
  /\ UNCHANGED <<repos, selected, touched>>

\* Another choice among the rules on offer replaces the whole list.
changeRules(picked) ==
  /\ touched' = TRUE
  /\ Edit(With([form.source EXCEPT !.rules = picked]))
  /\ UNCHANGED <<repos, selected>>

\* A typed owner invalidates the catalogue.
changeOwner(owner) ==
  /\ repos' = Hidden
  /\ Edit(With([form.source EXCEPT !.scope.owner = owner]))
  /\ UNCHANGED <<selected, touched>>

\* The catalogue is asked for, which is offered for the owner that is stored.
showRepos ==
  /\ open
  /\ ~repos.shown
  /\ ~asked
  /\ form.source.scope.owner = stored.scope.owner
  /\ asked' = TRUE
  /\ UNCHANGED <<stored, credential, hookSecret, open, form, repos, selected, touched, edits, unissued>>

\* It answers: the boxes are ticked as the scope says.
ReposAnswer(names) ==
  /\ open
  /\ asked
  /\ asked' = FALSE
  /\ repos' = [shown |-> TRUE, names |-> names]
  /\ selected' = {r \in names : scopeTracks(form.source.scope, r)}
  /\ UNCHANGED <<stored, credential, hookSecret, open, form, touched, edits, unissued>>

ReposFail ==
  /\ open
  /\ asked
  /\ asked' = FALSE
  /\ UNCHANGED <<stored, credential, hookSecret, open, form, repos, selected, touched, edits, unissued>>

\* Ticking, one repository or all of a visibility, and the default for the
\* repositories to come: each rewrites the scope.
changeSelection(next, trackNew) ==
  /\ repos.shown
  /\ selected' = next
  /\ Edit(With([form.source EXCEPT !.scope = scopeFromSelection(@, repos.names, next, trackNew)]))
  /\ UNCHANGED <<repos, touched>>

\* What is sent: no events for a live source.
toUpdateInput(f) ==
  [f.source EXCEPT !.webhooksEnabled = @ /\ f.source.mode = "stored"]

\* A mutation: the credentials are kept whatever the scheme.
SecretRequired_Never(f) == FALSE

\* The stored credentials can be kept unless the scheme changed.
SecretRequired(f) == f.source.authKind # stored.authKind

\* Saved: the source and its credentials in one transaction, the webhook
\* secret dropped with the events.  Then, for a source that has just been
\* switched to the store, a collection is asked for; and for one that has
\* just started listening, a secret, which can fail.
submit(issued) ==
  LET source == toUpdateInput(form)
      starts == source.webhooksEnabled /\ ~stored.webhooksEnabled
  IN /\ open
     /\ SecretRequired(form) => form.typed = form.source.authKind
     /\ Accepted(source)
     /\ ~starts => issued
     /\ stored' = source
     /\ credential' = IF form.typed = form.source.authKind THEN form.typed ELSE credential
     /\ hookSecret' = (source.webhooksEnabled /\ (hookSecret \/ (starts /\ issued)))
     /\ unissued' = (source.webhooksEnabled /\ (unissued \/ ~issued))
     /\ open' = FALSE
     /\ UNCHANGED <<form, repos, selected, asked, touched, edits>>

Close ==
  /\ open
  /\ open' = FALSE
  /\ UNCHANGED <<stored, credential, hookSecret, form, repos, selected, asked, touched, edits, unissued>>

Next ==
  \/ Open \/ Close \/ showRepos \/ ReposFail
  \/ \E k \in {"github", "gitlab"} : changeKind(k)
  \/ \E a \in {"token", "app"} : setAuthKind(a) \/ typeSecret(a)
  \/ \E m \in {"live", "stored"} : setMode(m)
  \/ \E b \in BOOLEAN : setWebhooks(b) \/ submit(b)
  \/ \E t \in SUBSET Trackers : changeTrackers(t)
  \/ \E t \in Trackers \cup {None} : setIncident(t)
  \/ \E r \in SUBSET Offered : changeRules(r)
  \/ \E o \in Owners : changeOwner(o)
  \/ \E n \in SUBSET Repos : ReposAnswer(n)
  \/ \E n \in SUBSET repos.names, b \in BOOLEAN : changeSelection(n, b)

Spec == Init /\ [][Next]_vars

\* The boxes are the scope: whatever was ticked, and however the default for
\* new repositories was flipped meanwhile, the scope on the form covers exactly
\* the ticked part of the catalogue (index.ts:88-97).  And what is saved is
\* usable: its credentials are of its scheme, and a source that listens has a
\* secret to check deliveries with, unless none could be issued
\* (sources.service.ts:309-310, SourcesPage.tsx:1172-1177).
SavedIsUsable ==
  /\ (open /\ repos.shown) => \A r \in repos.names : scopeTracks(form.source.scope, r) <=> r \in selected
  /\ credential = stored.authKind
  /\ stored.webhooksEnabled => hookSecret \/ unissued

\* A typed owner invalidates the catalogue: keeping the boxes ticked would let
\* a selection be made against repositories this source is about to stop
\* reading (SourcesPage.tsx:1078-1082).
CatalogueIsTheOwners ==
  (open /\ repos.shown) => form.source.scope.owner = stored.scope.owner

\* Every rule is selectable (SourcesPage.tsx:1014): editing the rules drops none
\* that the reader could not see.
RulesAreAllOffered ==
  [][(open /\ ~open' /\ stored' # stored) => stored.rules \cap Unlisted \subseteq stored'.rules]_vars

=============================================================================
