---------------------------- MODULE ReleaseNotes ----------------------------
(***************************************************************************)
(* Release notes: a repository's history lands by merges, squashes and     *)
(* pushes, components of it are tagged, and the notes of a range between   *)
(* two refs are read off it.  The range is completed from the tags of one  *)
(* component, each commit is traced to the request it came in on, a        *)
(* squashed commit is replaced by the commits it was made of, and the      *)
(* result is rendered by one of two generators, whose references the       *)
(* ticket rules then settle.                                               *)
(*                                                                         *)
(* A sha is <<r, n>>: request r's own commits for 0 < n < 5, its squash at *)
(* 0, a copy of that squash at 5 and its merge commit at 9; <<0, n>> is    *)
(* pushed straight to the branch.  Generating changes nothing, so a        *)
(* behaviour generates once, at any point of the history.                  *)
(***************************************************************************)
EXTENDS Integers, Sequences, FiniteSets, SequencesExt

CONSTANTS
    Platforms,      \* the kinds of source: a subset of {"github", "gitlab"}
    Requests,       \* request numbers
    Stacked,        \* <<r, s>>: the branch of r was cut from the branch of s
    Components,     \* what the repository releases
    COMPARE_CAP,    \* commits GitHub reports for one comparison at most
    MaxEvents       \* bound on the commits of the branch and the tags, together

Main == "main"
Unstated == "unstated"      \* a bound or a pattern left out of the query
Unreadable == "unreadable"  \* a pattern which is no regular expression
NoRequest == 0
NoRef == [component |-> "none", n |-> 0]
MainRef == [component |-> Main, n |-> 0]

VARIABLES
    kind,           \* the platform
    history,        \* the commits of the default branch, oldest first
    tags,           \* the tags, newest first: a component's n-th, at a position
    notes           \* what the last generation answered

vars == <<kind, history, tags, notes>>

NoNotes == [status |-> "none", from |-> NoRef, to |-> NoRef, commits |-> <<>>,
            entries |-> <<>>, lines |-> <<>>, read |-> {}, component |-> Unstated,
            generator |-> "built-in"]

Commit(sha, parents, shape) == [sha |-> sha, parents |-> parents, shape |-> shape]

Shas(seq) == {seq[i].sha : i \in DOMAIN seq}

\* The commits of a request's branch, those of the branch it was cut from first.
Own(r) == <<Commit(<<r, 1>>, 1, "plain"), Commit(<<r, 2>>, 1, "plain")>>
Branch(r) ==
    LET below == {s \in Requests : <<r, s>> \in Stacked}
    IN  IF below = {} THEN Own(r) ELSE Own(CHOOSE s \in below : TRUE) \o Own(r)

-----------------------------------------------------------------------------
(* What is read off a commit.                                               *)

\* Which request a message names, and whether it names its branch.  A merge
\* commit does both, a footer names the request alone, and a subject closing
\* on (#n) names a request on GitHub and an issue on GitLab.
readMergeCommit(commit) ==
    CASE commit.shape = "merge" -> [number |-> commit.sha[1], branch |-> TRUE]
      [] commit.shape = "footer" -> [number |-> commit.sha[1], branch |-> FALSE]
      [] commit.shape = "parens" /\ kind = "github" ->
            [number |-> commit.sha[1], branch |-> FALSE]
      [] OTHER -> [number |-> NoRequest, branch |-> FALSE]

\* The convention a message follows: the first commit of a branch is a feature,
\* whatever the platform writes over a merge follows none.
parseConventionalCommit(commit) ==
    IF commit.sha[2] = 1 THEN "feat"
    ELSE IF commit.shape \in {"parens", "footer"} THEN "fix" ELSE "other"

\* The keys a message names: a request's number where a squash wrote it, and
\* a number of somebody else's in what was pushed.
Key(r) == [kind |-> "ticket", n |-> r]
Hash(n) == [kind |-> "hash", n |-> n]
Keys(commit) ==
    IF commit.shape = "parens" THEN {Hash(commit.sha[1])}
    ELSE IF commit.sha[1] = NoRequest THEN {Hash(7)} ELSE {}

-----------------------------------------------------------------------------
Init ==
    /\ kind \in Platforms
    /\ history = <<>> /\ tags = <<>> /\ notes = NoNotes

(* The repository.                                                          *)

Land(commits) ==
    /\ notes = NoNotes
    /\ history' = history \o commits
    /\ Len(history') + Len(tags) <= MaxEvents
    /\ UNCHANGED <<kind, tags, notes>>

Landed(sha) == sha \in Shas(history)
Fresh(r) == SelectSeq(Branch(r), LAMBDA c : ~Landed(c.sha))

Push == \E n \in 1 .. MaxEvents :
    /\ ~Landed(<<0, n>>) /\ \A k \in 1 .. n - 1 : Landed(<<0, k>>)
    /\ Land(<<Commit(<<0, n>>, 1, "plain")>>)

\* A merge brings the branch's own commits along.
MergeRequest == \E r \in Requests :
    /\ ~Landed(<<r, 0>>) /\ ~Landed(<<r, 9>>)
    /\ Land(Append(Fresh(r), Commit(<<r, 9>>, 2, "merge")))

\* A squash writes one commit, which names its request.
SquashShape == IF kind = "github" THEN "parens" ELSE "footer"
SquashRequest == \E r \in Requests :
    /\ ~Landed(<<r, 0>>) /\ ~Landed(<<r, 9>>)
    /\ Land(<<Commit(<<r, 0>>, 1, SquashShape)>>)

\* A squashed commit is taken over a second time, message and all.
CherryPick == \E r \in Requests :
    /\ Landed(<<r, 0>>) /\ ~Landed(<<r, 5>>)
    /\ Land(<<Commit(<<r, 5>>, 1, SquashShape)>>)

\* A component is released.
Release == \E c \in Components :
    /\ notes = NoNotes /\ history # <<>> /\ Len(history) + Len(tags) < MaxEvents
    /\ LET n == Cardinality({i \in DOMAIN tags : tags[i].name.component = c})
       IN  tags' = <<[name |-> [component |-> c, n |-> n + 1],
                      at |-> Len(history)]>> \o tags
    /\ UNCHANGED <<kind, history, notes>>

-----------------------------------------------------------------------------
(* The range.                                                               *)

\* The tags of one component.  A pattern nobody can read narrows nothing; one
\* nothing matches leaves no tag at all.
tagsMatching(all, pattern) ==
    IF pattern \in {Unstated, Unreadable} THEN all
    ELSE SelectSeq(all, LAMBDA tag : tag.name.component = pattern)

\* A default which reads the most recent tag of the repository.
resolveRange_AnyTag(query, of) ==
    LET to == IF query.to # NoRef THEN query.to
              ELSE IF tags # <<>> THEN tags[1].name ELSE MainRef
        at == {i \in DOMAIN tags : tags[i].name = to}
        below == IF at = {} THEN 1 ELSE (CHOOSE i \in at : TRUE) + 1
    IN  [to |-> to,
         from |-> IF query.from # NoRef THEN query.from
                  ELSE IF below \in DOMAIN tags THEN tags[below].name ELSE NoRef]

\* The bounds filled in: up to the most recent tag or the default branch, from
\* the tag below it, or from the most recent one when the upper bound is no tag.
resolveRange(query, of) ==
    LET to == IF query.to # NoRef THEN query.to
              ELSE IF of # <<>> THEN of[1].name ELSE MainRef
        at == {i \in DOMAIN of : of[i].name = to}
        below == IF at = {} THEN 1 ELSE (CHOOSE i \in at : TRUE) + 1
    IN  [to |-> to,
         from |-> IF query.from # NoRef THEN query.from
                  ELSE IF below \in DOMAIN of THEN of[below].name ELSE NoRef]

\* Where a ref points.
Position(ref) ==
    IF ref = MainRef THEN Len(history)
    ELSE IF ref = NoRef THEN 0
    ELSE tags[CHOOSE i \in DOMAIN tags : tags[i].name = ref].at

\* The commits reachable from one ref and not from the other.  GitHub reports
\* the oldest COMPARE_CAP of a comparison; without a lower bound the log is
\* walked whole, newest first.
Between(from, to) == SubSeq(history, Position(from) + 1, Position(to))
compare(from, to) ==
    LET all == Between(from, to)
    IN  IF Len(all) > COMPARE_CAP THEN SubSeq(all, 1, COMPARE_CAP) ELSE all
github_listCommitsBetween(from, to) ==
    IF from = NoRef THEN Reverse(Between(from, to)) ELSE compare(from, to)
gitlab_listCommitsBetween(from, to) ==
    IF from = NoRef THEN Reverse(Between(from, to)) ELSE Between(from, to)
listCommitsBetween(from, to) ==
    IF kind = "github" THEN github_listCommitsBetween(from, to)
                       ELSE gitlab_listCommitsBetween(from, to)

-----------------------------------------------------------------------------
(* The entries.                                                             *)

\* The request a commit came in on: its own message first, then the platform's
\* association, asked for only when the message left something wanted out.
\* `answers` are the requests the platform associated before the API reserve.
Unresolved(commit, wanted) ==
    \/ readMergeCommit(commit).number = NoRequest
    \/ "title" \in wanted
    \/ "branch" \in wanted /\ ~readMergeCommit(commit).branch

commitPullRequests(commit, answers) ==
    IF commit.sha[1] \in answers THEN commit.sha[1] ELSE NoRequest

requestsOf(commits, wanted, answers) ==
    [i \in DOMAIN commits |->
        LET read == readMergeCommit(commits[i])
            found == IF Unresolved(commits[i], wanted)
                       THEN commitPullRequests(commits[i], answers) ELSE NoRequest
        IN  [commit |-> commits[i],
             ref |-> IF read.number # NoRequest THEN read.number ELSE found,
             branch |-> IF read.branch THEN read.number ELSE found]]

\* The commits of the requests the platform detailed.
pullRequestCommits(number, detailed) ==
    IF number \in detailed THEN Branch(number) ELSE <<>>

\* What stands for one entry: the commits of its request which nothing before
\* it holds, or itself.
Squashed(entry) ==
    entry.commit.parents = 1 /\ readMergeCommit(entry.commit).number # NoRequest

Expanded_Whole(entry, seen, detailed) ==
    LET fresh == IF Squashed(entry) THEN pullRequestCommits(entry.ref, detailed) ELSE <<>>
    IN  IF fresh = <<>> THEN <<entry>>
        ELSE [i \in DOMAIN fresh |-> [entry EXCEPT !.commit = fresh[i]]]

Expanded(entry, seen, detailed) ==
    LET children == IF Squashed(entry) THEN pullRequestCommits(entry.ref, detailed)
                                       ELSE <<>>
        fresh == SelectSeq(children, LAMBDA c : c.sha \notin seen)
    IN  IF fresh = <<>> THEN <<entry>>
        ELSE [i \in DOMAIN fresh |-> [entry EXCEPT !.commit = fresh[i]]]

\* Each squashed commit replaced by the commits it was made of, in one pass:
\* what the range holds, or an earlier squash already brought, is not repeated.
expandSquashes(landed, detailed) ==
    LET range == {landed[i].commit.sha : i \in DOMAIN landed}
        pass[i \in 0 .. Len(landed)] ==
            IF i = 0 THEN [out |-> <<>>, seen |-> range]
            ELSE LET done == pass[i - 1]
                     more == Expanded(landed[i], done.seen, detailed)
                 IN  [out |-> done.out \o more,
                      seen |-> done.seen \cup {more[k].commit.sha : k \in DOMAIN more}]
    IN  pass[Len(landed)].out

\* The tickets of an entry: the one its request's branch carries, when a rule
\* reads branches and the branch is known.
toEntries(commits, wanted, answers, detailed) ==
    LET landed == expandSquashes(requestsOf(commits, wanted, answers), detailed)
    IN  [i \in DOMAIN landed |->
            [sha |-> landed[i].commit.sha,
             type |-> parseConventionalCommit(landed[i].commit),
             names |-> Keys(landed[i].commit),
             request |-> landed[i].ref,
             tickets |-> IF "branch" \in wanted /\ landed[i].branch # NoRequest
                           THEN {Key(landed[i].branch)} ELSE {}]]

-----------------------------------------------------------------------------
(* The text.  A line is the commit it is about and the keys it mentions,    *)
(* each with what it links to: "plain", "issue", "request" or "tracker".    *)

Mention(key, link) == [key |-> key, link |-> link]

\* The sections of the built-in generator: every entry in exactly one, those
\* that follow no convention included.
groupByType(entries) ==
    LET of(type) == SelectSeq(entries, LAMBDA e : e.type = type)
    IN  of("feat") \o of("fix") \o of("other")

bullet(entry) ==
    [sha |-> entry.sha,
     says |-> {Mention(k, "plain") : k \in entry.names}
                \cup {Mention(k, "tracker") : k \in entry.tickets}]

\* The convention's own writer: only what it can parse, every #n an issue link.
Written(entry) ==
    [sha |-> entry.sha, says |-> {Mention(k, "issue") : k \in entry.names}]

\* What a reference points at is settled by the rules: a claimed key is linked
\* to its tracker, the writer's own links are kept for the requests of the
\* range and taken off everything else.
linkTickets(line, claimed, requests, defaults) ==
    [line EXCEPT !.says = {
        IF m.key \in claimed THEN Mention(m.key, "tracker")
        ELSE IF m.link # "issue" \/ ~defaults THEN m
        ELSE IF m.key.n \in requests THEN Mention(m.key, "request")
        ELSE Mention(m.key, "plain") : m \in line.says}]

\* The tickets of its entry a line does not name yet.
mentionTickets(line, entries) ==
    LET missing == UNION {entries[i].tickets : i \in {j \in DOMAIN entries :
                              entries[j].sha = line.sha}}
                     \ {m.key : m \in line.says}
    IN  [line EXCEPT !.says = @ \cup {Mention(k, "tracker") : k \in missing}]

renderChangelog(entries, claimed) ==
    LET requests == {entries[i].request : i \in DOMAIN entries} \ {NoRequest}
        parsed == SelectSeq(entries, LAMBDA e : e.type # "other")
    IN  [i \in DOMAIN parsed |->
            mentionTickets(linkTickets(Written(parsed[i]), claimed, requests, TRUE),
                           entries)]

\* The built-in bullet links what the rules claim wherever it is written.
render(generator, entries) ==
    LET claimed == UNION {entries[i].tickets : i \in DOMAIN entries}
        grouped == groupByType(entries)
    IN  IF generator = "conventional-changelog" THEN renderChangelog(entries, claimed)
        ELSE [i \in DOMAIN grouped |->
                 linkTickets(bullet(grouped[i]), claimed, {}, FALSE)]

-----------------------------------------------------------------------------
Refs == {NoRef, MainRef} \cup {tags[i].name : i \in DOMAIN tags}

\* Somebody asks for the notes of a range.
generate ==
    \E from \in Refs \ {MainRef}, to \in Refs,
       pattern \in {Unstated, Unreadable} \cup Components,
       wanted \in {{}, {"branch"}}, answers, detailed \in {{}, Requests},
       generator \in {"built-in", "conventional-changelog"} :
        LET range == resolveRange([from |-> from, to |-> to], tagsMatching(tags, pattern))
            commits == listCommitsBetween(range.from, range.to)
            entries == toEntries(commits, wanted, answers, detailed)
        IN  /\ notes = NoNotes /\ history # <<>>
            /\ notes' = [status |-> "read", from |-> range.from, to |-> range.to,
                         commits |-> commits, entries |-> entries,
                         lines |-> render(generator, entries), read |-> detailed,
                         component |-> IF from = NoRef /\ to = NoRef /\ pattern \in Components
                                         THEN pattern ELSE Unstated,
                         generator |-> generator]
            /\ UNCHANGED <<kind, history, tags>>

Next == Push \/ MergeRequest \/ SquashRequest \/ CherryPick \/ Release \/ generate

Spec == Init /\ [][Next]_vars

-----------------------------------------------------------------------------
EntryShas == {notes.entries[i].sha : i \in DOMAIN notes.entries}

\* No commit is listed twice.  A commit of the range is listed as it was written,
\* or it names a request whose commits are all listed in its place; and nothing
\* from outside the range is listed but those.
NothingTwiceNothingLost ==
    /\ Cardinality(EntryShas) = Len(notes.entries)
    /\ \A sha \in Shas(notes.commits) \ EntryShas :
         Shas(Branch(sha[1])) \subseteq EntryShas
    /\ \A sha \in EntryShas \ Shas(notes.commits) :
         \E c \in Shas(notes.commits) :
            c[1] \in notes.read /\ sha \in Shas(Branch(c[1]))

\* The notes of a component are those of its own last release: they end at its
\* newest tag and begin at the one it released before, whatever the other
\* components released meanwhile.  A component never released is read whole.
RangeIsTheComponents ==
    notes.component \in Components =>
        LET own == {i \in DOMAIN tags : tags[i].name.component = notes.component}
        IN  IF own = {} THEN notes.to = MainRef /\ notes.from = NoRef
            ELSE /\ notes.to.component = notes.component
                 /\ notes.to.n = Cardinality(own)
                 /\ notes.from = IF Cardinality(own) = 1 THEN NoRef
                                 ELSE [notes.to EXCEPT !.n = @ - 1]

\* A line names every ticket of its entry, linked to the tracker, and links no
\* number to an issue nobody claimed.  The built-in text leaves no entry out.
LinksAreTheRules ==
    /\ \A i \in DOMAIN notes.lines : LET line == notes.lines[i] IN
        /\ \A m \in line.says : m.link # "issue"
        /\ \A j \in DOMAIN notes.entries : notes.entries[j].sha = line.sha =>
             \A k \in notes.entries[j].tickets : Mention(k, "tracker") \in line.says
    /\ notes.generator = "built-in" => Len(notes.lines) = Len(notes.entries)

NotesAreTheRanges ==
    NothingTwiceNothingLost /\ RangeIsTheComponents /\ LinksAreTheRules
=============================================================================
