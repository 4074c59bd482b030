---------------------------- MODULE EventMappers ----------------------------
(***************************************************************************)
(* What a webhook event asks the store to record, beside what a listing of *)
(* the same object says.  A request, a run or a deployment moves on its    *)
(* platform; after each move the platform may send an event, whose payload *)
(* leaves out what its version does not send, and a listing may read the   *)
(* object.  Both write the same row, so they have to agree on it.          *)
(***************************************************************************)
EXTENDS Integers, FiniteSets

CONSTANTS
    Kinds,          \* the platforms: a subset of {"github", "gitlab"}
    MaxTime         \* bound on the dates

Never == -1         \* a date that is not there
None == "none"      \* a text that is not there
NoId == 0           \* a number that is not there

Things == {"request", "run", "deployment"}

\* The optional parts of a payload: every other field is one an event without
\* it is refused for.
Optional == {"updated_at", "merged_at", "draft"}
Required == {"id", "repo", "created_at"}

VARIABLES
    kind,           \* the platform
    object,         \* the object as the platform holds it
    event,          \* the intent of the last event, and the object it was about
    row             \* the row of the last listing, and the object it was about

vars == <<kind, object, event, row>>

\* States by the platform's own names.  A run on GitHub has a conclusion once
\* it is completed.
RequestStates == IF kind = "github" THEN {"open", "closed"}
                 ELSE {"opened", "closed", "locked", "merged"}
RunStates == IF kind = "github" THEN {"queued", "in_progress", "completed"}
             ELSE {"created", "pending", "running", "success", "failed", "canceled",
                   "skipped", "manual"}
Conclusions == {"success", "failure", "timed_out", "cancelled", "skipped", "neutral"}
DeploymentStates == IF kind = "github"
                    THEN {"queued", "in_progress", "success", "failure", "error", "inactive"}
                    ELSE {"created", "running", "success", "failed", "canceled"}

Object(what, state, conclusion, draft, created, updated, merged) ==
    [what |-> what, id |-> 1, state |-> state, conclusion |-> conclusion,
     draft |-> draft, created |-> created, updated |-> updated, merged |-> merged]

NoRow == [id |-> NoId, state |-> None, created |-> Never, updated |-> Never,
          merged |-> Never, timed |-> FALSE]
Nothing == [sent |-> FALSE, of |-> Object(None, None, None, FALSE, Never, Never, Never),
            row |-> NoRow, given |-> {}]

-----------------------------------------------------------------------------
(* The vocabulary.                                                          *)

mapGitHubDeploymentState(state) ==
    CASE state = "success" -> "success"
      [] state \in {"failure", "error"} -> "failed"
      [] state = "in_progress" -> "running"
      [] state \in {"queued", "pending"} -> "pending"
      [] OTHER -> "unknown"

mapGitHubStatus(status, conclusion) ==
    IF status = "in_progress" THEN "running"
    ELSE IF status # "completed" THEN "pending"
    ELSE CASE conclusion = "success" -> "success"
           [] conclusion \in {"failure", "timed_out"} -> "failed"
           [] conclusion = "cancelled" -> "canceled"
           [] conclusion = "skipped" -> "skipped"
           [] OTHER -> "unknown"

mapGitLabStatus(status) ==
    CASE status \in {"success", "failed", "running", "canceled", "skipped"} -> status
      [] status \in {"created", "waiting_for_resource", "preparing", "pending"} -> "pending"
      [] OTHER -> "unknown"

\* A state read before the merge date is.
pullRequestState_RawFirst(raw, draft, merged) ==
    IF raw \in {"closed", "locked"} THEN "closed"
    ELSE IF merged # Never THEN "merged"
    ELSE IF draft THEN "draft" ELSE "open"

\* A merge date settles it, whatever the platform calls the state.
pullRequestState(raw, draft, merged) ==
    IF merged # Never THEN "merged"
    ELSE IF raw \in {"closed", "locked"} THEN "closed"
    ELSE IF draft THEN "draft" ELSE "open"

-----------------------------------------------------------------------------
(* The mappers.  `given` are the fields the payload carries.                *)

asString(field, given, value) == IF field \in given THEN value ELSE Never

\* Both platforms' requests: the merge date, the update falling back on the
\* creation, and a draft only where the payload says so.
FromRequest(o, given) ==
    LET merged == asString("merged_at", given, o.merged)
        updated == asString("updated_at", given, o.updated)
    IN  [id |-> o.id,
         state |-> pullRequestState(o.state, o.draft /\ "draft" \in given, merged),
         created |-> o.created,
         updated |-> IF updated = Never THEN o.created ELSE updated,
         merged |-> merged, timed |-> FALSE]
gitHubPullRequest(o, given) == FromRequest(o, given)
gitLabMergeRequest(o, given) == FromRequest(o, given)

gitHubWorkflowRun(o, given) ==
    LET updated == asString("updated_at", given, o.updated)
    IN  [id |-> o.id, state |-> mapGitHubStatus(o.state, o.conclusion),
         created |-> o.created,
         updated |-> IF updated = Never THEN o.created ELSE updated,
         merged |-> Never, timed |-> o.state = "completed"]

\* GitLab dates a pipeline's end, and states how long it took.
Settled(state) == state \in {"success", "failed", "canceled", "skipped"}
gitLabPipeline(o, given) ==
    [id |-> o.id, state |-> mapGitLabStatus(o.state), created |-> o.created,
     updated |-> IF Settled(o.state) /\ "updated_at" \in given THEN o.updated ELSE o.created,
     merged |-> Never, timed |-> Settled(o.state)]

gitHubDeployment(o, given) ==
    [id |-> o.id, state |-> mapGitHubDeploymentState(o.state), created |-> o.created,
     updated |-> o.created, merged |-> Never, timed |-> FALSE]

\* GitLab's hook dates the change of status, and that is all it dates.
gitLabDeployment(o, given) ==
    [id |-> o.id, state |-> mapGitLabStatus(o.state), created |-> o.updated,
     updated |-> o.updated, merged |-> Never, timed |-> FALSE]

toGitHubIntent(o, given) ==
    CASE o.what = "request" -> gitHubPullRequest(o, given)
      [] o.what = "run" -> gitHubWorkflowRun(o, given)
      [] OTHER -> gitHubDeployment(o, given)

toGitLabIntent(o, given) ==
    CASE o.what = "request" -> gitLabMergeRequest(o, given)
      [] o.what = "run" -> gitLabPipeline(o, given)
      [] OTHER -> gitLabDeployment(o, given)

\* An event which does not name its object, its repository and a date says nothing.
Intent(o, given) ==
    IF ~ (Required \subseteq given) THEN NoRow
    ELSE IF kind = "github" THEN toGitHubIntent(o, given) ELSE toGitLabIntent(o, given)

\* The row a listing of the connectors makes of the same object.  The merged
\* requests are listed apart, the open ones as open or draft; a closed one is
\* in no listing.
ListedRow(o) ==
    [id |-> o.id,
     state |-> CASE o.what = "request" -> IF o.merged # Never THEN "merged"
                                          ELSE IF o.draft THEN "draft" ELSE "open"
                 [] o.what = "run" /\ kind = "github" -> mapGitHubStatus(o.state, o.conclusion)
                 [] o.what = "deployment" /\ kind = "github" -> mapGitHubDeploymentState(o.state)
                 [] OTHER -> mapGitLabStatus(o.state),
     created |-> o.created,
     updated |-> IF o.what = "deployment" THEN o.created ELSE o.updated,
     merged |-> o.merged,
     timed |-> o.what = "run" /\ kind = "github" /\ o.state = "completed"]

-----------------------------------------------------------------------------
Init ==
    /\ kind \in Kinds
    /\ \E what \in Things, draft \in BOOLEAN :
        object = Object(what,
            IF kind = "github" THEN (IF what = "request" THEN "open" ELSE "queued")
                               ELSE (IF what = "request" THEN "opened" ELSE "created"),
            None, what = "request" /\ draft, 0, 0, Never)
    /\ event = Nothing /\ row = Nothing

\* External: the object moves.
Move ==
    \E at \in object.updated .. MaxTime,
       state \in CASE object.what = "request" -> RequestStates
                   [] object.what = "run" -> RunStates
                   [] OTHER -> DeploymentStates,
       conclusion \in Conclusions \cup {None}, draft, merges \in BOOLEAN :
        LET done == merges /\ state = (IF kind = "github" THEN "closed" ELSE "merged")
        IN  /\ object.merged = Never
            /\ (conclusion # None) <=> (state = "completed")
            /\ draft => object.what = "request"
            /\ merges => object.what = "request"
            /\ (state = "merged") => merges
            /\ object' = Object(object.what, state, conclusion, draft, object.created, at,
                                IF done THEN at ELSE Never)
            /\ UNCHANGED <<kind, event, row>>

\* An event about the object as it stands, with the fields its version sends.
Receive ==
    \E given \in {Optional \cup Required} \cup {Required \cup s : s \in SUBSET Optional}
                   \cup {(Optional \cup Required) \ {f} : f \in Required} :
        /\ event' = [sent |-> TRUE, of |-> object, row |-> Intent(object, given),
                     given |-> given]
        /\ UNCHANGED <<kind, object, row>>

\* A listing reads the object, unless it is a request closed without a merge.
List ==
    /\ ~ (object.what = "request" /\ object.merged = Never
            /\ object.state \in {"closed", "locked"})
    /\ row' = [sent |-> TRUE, of |-> object, row |-> ListedRow(object),
               given |-> Optional \cup Required]
    /\ UNCHANGED <<kind, object, event>>

Next == Move \/ Receive \/ List

Spec == Init /\ [][Next]_vars

-----------------------------------------------------------------------------
\* An event and a listing of the same object write the same row: the same id,
\* the same state and the same dates, as far as the payload carries them.
\* Named exceptions: a deployment event on GitLab is dated by its status
\* change, never before the deployment itself; a pipeline under way there is
\* dated by its creation; and a request merged without a merge date on its
\* event is not seen as merged.
EventsAgreeWithListings ==
    event.sent /\ row.sent /\ event.of = row.of /\ event.row # NoRow =>
        LET e == event.row  l == row.row  o == event.of IN
        /\ e.id = l.id
        /\ \/ e.state = l.state
           \/ o.merged # Never /\ "merged_at" \notin event.given
           \/ o.draft /\ "draft" \notin event.given /\ o.merged = Never /\ e.state = "open"
        /\ \/ e.created = l.created
           \/ kind = "gitlab" /\ o.what = "deployment" /\ e.created >= l.created
        /\ e.updated <= l.updated \/ o.what = "deployment"
        /\ "updated_at" \in event.given =>
             \/ e.updated = l.updated \/ o.what = "deployment"
             \/ kind = "gitlab" /\ o.what = "run" /\ ~Settled(o.state)

\* Code comment: an event and a listing can never contradict each other about
\* what a pull request is.
NeitherContradictsTheOther ==
    event.sent /\ row.sent /\ event.of = row.of /\ event.row # NoRow
      /\ event.of.what = "request" /\ "draft" \in event.given =>
        event.row.state = row.row.state
=============================================================================
