------------------------------ MODULE Listings ------------------------------
(***************************************************************************)
(* The listings of the two connectors: what a source of GitHub or GitLab   *)
(* reads of a repository, a page at a time, while the repository goes on   *)
(* moving under the pages.                                                 *)
(*                                                                         *)
(* A live listing reads the first page.  A bounded one reads pages down to *)
(* a date, and at most MAX_PAGES of them: GitHub's loop stops at the first *)
(* row older than the date, GitLab's platform filters by the date and the  *)
(* client library follows the pages.  Pages are offsets into an ordering,  *)
(* so a row which appears, or moves to the head, shifts every page below.  *)
(* Each row may then cost a call of its own, which is given up once the    *)
(* API reserve is reached and which may fail.                              *)
(***************************************************************************)
EXTENDS Integers, FiniteSets

CONSTANTS
    Kinds,          \* the platforms: a subset of {"github", "gitlab"}
    Ids,            \* row numbers, handed out upwards: 1 .. n
    PAGE,           \* rows of a page
    MAX_PAGES,      \* pages a bounded listing reads at most
    MaxTime,        \* bound on the dates
    MaxMoves        \* bound on the changes while a listing is under way

Resources == {"open", "pipelines", "deployments", "merged"}
Live == -1          \* the bound of a live listing: none
Never == -1         \* the date of what has not happened

VARIABLES
    kind,           \* the platform of the source
    rows,           \* the repository's rows: id -> its dates and its state
    now,            \* the clock the dates are taken from
    asked,          \* the listing under way: what, down to which date
    page,           \* pages read so far
    got,            \* the rows the pages brought, each at its place
    truncated,      \* what onTruncated was told
    listed,         \* the rows handed to the caller, with what their own call said
    phase,          \* "idle" | "paging" | "detailing" | "done" | "failed"
    moves,          \* changes while the listing was under way
    before          \* the rows as they stood when the listing was asked for

vars == <<kind, rows, now, asked, page, got, truncated, listed, phase,
          moves, before>>

\* A draft is an open request under another label.
States == {"open", "closed", "merged"}
Row == [created: 0 .. MaxTime, updated: 0 .. MaxTime,
        merged: {Never} \cup 0 .. MaxTime, state: States]
Absent == [created |-> Never, updated |-> Never, merged |-> Never, state |-> "closed"]

Present(table) == {i \in Ids : table[i] # Absent}

-----------------------------------------------------------------------------
(* What each platform lists, and in which order.                            *)

\* GitHub: closed requests by their last update, runs and deployments by
\* their creation, open requests whole.  Nothing is filtered by a date.
GitHubAt(what, row) == IF what = "merged" THEN row.updated ELSE row.created

GitHubOffered(what) ==
    {i \in Present(rows) :
        CASE what = "open" -> rows[i].state = "open"
          [] what = "merged" -> rows[i].state \in {"closed", "merged"}
          [] OTHER -> TRUE}

\* GitLab filters by the date itself, on the update except for pipelines,
\* and lists by creation whatever it filtered on.
GitLabAt(what, row) == IF what = "pipelines" THEN row.created ELSE row.updated

gitlab_listPipelines(row, since) == since = Live \/ row.created >= since

gitlab_listDeployments(row, since) == since = Live \/ row.updated >= since

gitlab_listMergedPullRequests(row, since) == row.state = "merged" /\ row.updated >= since

gitlab_listPullRequests(row) == row.state = "open"

GitLabOffered(what, since) ==
    {i \in Present(rows) :
        CASE what = "open" -> gitlab_listPullRequests(rows[i])
          [] what = "merged" -> gitlab_listMergedPullRequests(rows[i], since)
          [] what = "pipelines" -> gitlab_listPipelines(rows[i], since)
          [] OTHER -> gitlab_listDeployments(rows[i], since)}

Offered == IF kind = "github" THEN GitHubOffered(asked.what)
           ELSE GitLabOffered(asked.what, asked.since)

\* The rows listed before the i-th: the newer ones, of one date the later made.
OrderedBy(row) == IF kind = "github" THEN GitHubAt(asked.what, row) ELSE row.created

Precedes(j, i) == \/ OrderedBy(rows[j]) > OrderedBy(rows[i])
                  \/ OrderedBy(rows[j]) = OrderedBy(rows[i]) /\ j > i

Ahead(i) == {j \in Offered : Precedes(j, i)}

\* A page, by its offset: the rows as they stand when it is read.
OnPage(i, p) == (p - 1) * PAGE <= Cardinality(Ahead(i)) /\ Cardinality(Ahead(i)) < p * PAGE

Slice(p) == {[place |-> Cardinality(Ahead(i)), id |-> i, row |-> rows[i]] :
                 i \in {j \in Offered : OnPage(j, p)}}

\* A page names the next one while there is one.
NoNext(p) == Cardinality(Offered) <= p * PAGE

-----------------------------------------------------------------------------
Init ==
    /\ kind \in Kinds
    /\ rows = [i \in Ids |-> Absent]
    /\ now = 0
    /\ asked = [what |-> "open", since |-> Live]
    /\ page = 0 /\ got = {} /\ truncated = FALSE
    /\ listed = {} /\ phase = "idle" /\ moves = 0
    /\ before = rows

(* The repository.                                                          *)

Moving ==
    /\ moves' = IF phase = "idle" THEN moves ELSE moves + 1
    /\ moves' <= MaxMoves
    /\ phase \in {"idle", "paging"}
    /\ UNCHANGED <<kind, asked, page, got, truncated, listed, phase,
                   before>>

\* A row appears: a run starts, a deployment is created, a request is opened.
Appear ==
    \E i \in Ids \ Present(rows) :
        /\ \A j \in Ids : j < i => j \in Present(rows)
        /\ now' \in {now, now + 1} /\ now' <= MaxTime
        /\ rows' = [rows EXCEPT ![i] = [created |-> now', updated |-> now',
                                        merged |-> Never, state |-> "open"]]
        /\ Moving

\* A row is touched: commented, closed or merged.
Touch ==
    \E i \in Present(rows), state \in States :
        /\ rows[i].state = "open" \/ state = rows[i].state
        /\ now' \in {now, now + 1} /\ now' <= MaxTime
        /\ rows' = [rows EXCEPT ![i] =
                [created |-> @.created, updated |-> now', state |-> state,
                 merged |-> IF state = "merged" /\ @.merged = Never THEN now' ELSE @.merged]]
        /\ Moving

(* The listing.                                                             *)

\* A listing is asked for, afresh whatever became of the one before.  The open
\* requests are never bounded, the merged ones always are.
Ask ==
    \E what \in Resources, since \in {Live} \cup 0 .. MaxTime :
        /\ phase \in {"idle", "done", "failed"}
        /\ what = "open" => since = Live
        /\ what = "merged" => since # Live
        /\ asked' = [what |-> what, since |-> since]
        /\ page' = 0 /\ got' = {} /\ truncated' = FALSE /\ listed' = {}
        /\ phase' = "paging" /\ moves' = 0 /\ before' = rows
        /\ UNCHANGED <<kind, rows, now>>

\* A bound which leaves out the instant it names.
older_OrEqual(what, since, row) == GitHubAt(what, row) <= since

\* Whether a row is older than the bound.
older(what, since, row) == GitHubAt(what, row) < since

\* GitHub's loop: a page which is empty or which crosses the date is the last;
\* running out of pages before it is reported; what lies below the date is
\* dropped.  The open requests are paginated to their end.
pagesDownTo ==
    LET next == Slice(page + 1)
        all == got \cup next
        met == next = {} \/ (\E item \in next : older(asked.what, asked.since, item.row))
        last == \/ /\ asked.since = Live
                   /\ asked.what = "open" => NoNext(page + 1)
                \/ asked.since # Live /\ (met \/ page + 1 = MAX_PAGES)
    IN  /\ kind = "github" /\ phase = "paging"
        /\ page' = page + 1
        /\ truncated' = (last /\ asked.since # Live /\ ~met)
        /\ got' = IF last /\ asked.since # Live
                    THEN {item \in all : ~older(asked.what, asked.since, item.row)}
                    ELSE all
        /\ phase' = IF last THEN "detailing" ELSE "paging"
        /\ UNCHANGED <<kind, rows, now, asked, listed, moves, before>>

\* The page ceiling of a GitLab listing: one page live, MAX_PAGES bounded, and
\* none for the open requests, which are read to their end.
bound == IF asked.what = "open" THEN Cardinality(Ids) + 1
         ELSE IF asked.since = Live THEN 1 ELSE MAX_PAGES

\* GitLab's question about its own answer: a bounded listing none of whose
\* rows is older than the bound is reported as short of it.
reportIfTruncated(items) ==
    /\ asked.since # Live /\ items # {}
    /\ ~ \E item \in items : GitLabAt(asked.what, item.row) < asked.since

\* The client library follows the pages until one names no next or the ceiling is met.
GitLabPage ==
    LET all == got \cup Slice(page + 1)
        last == NoNext(page + 1) \/ page + 1 = bound
    IN  /\ kind = "gitlab" /\ phase = "paging"
        /\ page' = page + 1
        /\ got' = all
        /\ truncated' = (last /\ asked.what # "open" /\ reportIfTruncated(all))
        /\ phase' = IF last THEN "detailing" ELSE "paging"
        /\ UNCHANGED <<kind, rows, now, asked, listed, moves, before>>

\* What a row is handed over with.  `detail` is what its own call said: "own"
\* when the row needs none, "read", or "none" when the call was given up
\* under the reserve or failed.
Handed(item, detail) ==
    [place |-> item.place, id |-> item.id, row |-> item.row, detail |-> detail]

\* Both connectors take the merged requests merged inside the window only.
Kept(item) == asked.what = "merged" =>
                item.row.merged # Never /\ item.row.merged >= asked.since

\* The calls of their own: a deployment's status on GitHub, the first commit
\* and the first review of a merged request on both.
deploymentStatus == kind = "github" /\ asked.what = "deployments"
github_segments == kind = "github" /\ asked.what = "merged"
gitlab_segments == kind = "gitlab" /\ asked.what = "merged"

\* The rows of the answer, as their pages held them.  Each may cost a call of
\* its own; `answered` are the ones that came back before the reserve was met.
Detail ==
    \E answered \in SUBSET got :
        LET needs == deploymentStatus \/ github_segments \/ gitlab_segments
            said(item) == IF ~needs THEN "own" ELSE IF item \in answered THEN "read" ELSE "none"
        IN  /\ phase = "detailing"
            /\ ~needs => answered = {}
            /\ listed' = {Handed(item, said(item)) : item \in {x \in got : Kept(x)}}
            /\ phase' = "done" /\ got' = {}
            /\ UNCHANGED <<kind, rows, now, asked, page, truncated, moves, before>>

\* A page which is refused, or a caller which gives up, fails the whole listing.
Fail ==
    /\ phase \in {"paging", "detailing"}
    /\ phase' = "failed" /\ listed' = {} /\ got' = {}
    /\ UNCHANGED <<kind, rows, now, asked, page, truncated, moves,
                   before>>

Next == Appear \/ Touch \/ Ask \/ pagesDownTo \/ GitLabPage \/ Detail \/ Fail

Spec == Init /\ [][Next]_vars

-----------------------------------------------------------------------------
\* The listing's own date of a row.
At(row) == IF kind = "github" THEN GitHubAt(asked.what, row) ELSE GitLabAt(asked.what, row)

Wanted(row) ==
    /\ row # Absent
    /\ CASE asked.what = "open" -> row.state = "open"
         [] asked.what = "merged" -> row.merged # Never /\ row.merged >= asked.since
         [] OTHER -> TRUE
    /\ asked.since = Live \/ At(row) >= asked.since

\* An open request left the listing between two pages: it was closed or merged,
\* wherever it had come from, and the rows below it moved up.
Left(j) ==
    /\ before[j] = Absent \/ before[j].state = "open"
    /\ rows[j] # Absent /\ rows[j].state # "open"

\* Every row of the window which did not move while the pages were read is in
\* a bounded listing, or the listing says it was cut short, whatever appeared
\* or moved meanwhile; and no row is handed over twice unless something moved.
\* The open requests are never cut, and one of them is missed only when another
\* left the listing between two pages.
ListingIsWhole ==
    phase = "done" =>
        /\ asked.since # Live \/ asked.what = "open" =>
             \A i \in Ids :
                Wanted(before[i]) /\ rows[i] = before[i] =>
                    \/ truncated
                    \/ \E item \in listed : item.id = i
                    \/ asked.what = "open" /\ \E j \in Ids : Left(j)
        /\ moves = 0 =>
             /\ \A x, y \in listed : x.id = y.id => x = y
             /\ \A item \in listed : Wanted(before[item.id])

\* Code comment: `DoraReport.truncated` says whether the page ceiling was
\* reached.  A report of a truncation means the ceiling was.
TruncatedMeansTheCeiling == truncated => page = MAX_PAGES
=============================================================================
