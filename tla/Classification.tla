--------------------------- MODULE Classification ---------------------------
(***************************************************************************)
(* The rule engines: what an environment is (env-classifier.ts), where it  *)
(* answers (env-url.ts), where its version is asked (version-target.ts),   *)
(* which tickets a text names (ticket-extractor.ts) and which branch a ref *)
(* parted from (nearest-branch.ts).                                        *)
(*                                                                         *)
(* Each folds over a list the database or the platform returned.  The      *)
(* database is asked for priority order alone, so that two rules of one    *)
(* priority come in either order, and in another one at the next reading:  *)
(* `order` is the listing, Relist the next reading.  A rule is known by    *)
(* the order it was declared in, and the value it contributes by the rule  *)
(* and by whether it was captured or forced.                               *)
(***************************************************************************)
EXTENDS Integers, FiniteSets, SequencesExt

CONSTANTS
  Ids,     \* rules, numbered in the order of their declaration
  Topics   \* the engines under study

VARIABLES
  topic,    \* the engine
  rules,    \* its rules, or the branches, by id
  order,    \* the listing
  subject   \* what is classified, addressed or read
vars == <<topic, rules, order, subject>>

None == "none"
Priorities == {1, 2}
Rank(i) == IF topic = "branch" THEN 0 ELSE rules[i].priority
\* What `orderBy: { priority: 'asc' }` may return.
Listings == {p \in SetToAllKPermutations(Ids) :
               Len(p) = Cardinality(Ids)
               /\ \A i, j \in 1 .. Len(p) : i < j => Rank(p[i]) <= Rank(p[j])}

\* A rule bound to no repo applies everywhere, one bound to a repo only where
\* the repo is known and matches.
appliesToRepo(rule, repo) == rule.repo = None \/ (repo # None /\ rule.repo = repo)

----------------------------------------------------------------------------
(* What an environment is.                                                 *)

Keys == {"tier"}
EnvRules == [priority : Priorities, kind : {"simple", "meta"}, repo : {None, "a", "b"},
             matches : BOOLEAN, forced : SUBSET Keys, captured : SUBSET Keys]
EnvSubjects == [repo : {None, "a"}]
Unset == [by |-> 0, captured |-> FALSE]
Speaks(i) == rules[i].matches /\ appliesToRepo(rules[i], subject.repo)

\* A key is taken by the first rule that has it, or by one of a lower number.
Takes(held, i) == held = Unset \/ rules[i].priority < rules[held.by].priority

\* One rule's contribution: its forced values, its groups over them.
Contributed(attributes, i) ==
  [k \in Keys |->
     IF k \in rules[i].forced \cup rules[i].captured /\ Takes(attributes[k], i)
     THEN [by |-> i, captured |-> k \in rules[i].captured] ELSE attributes[k]]

classifyEnvironment(listing) ==
  LET speaking == SelectSeq(listing, Speaks)
      simple == SelectSeq(speaking, LAMBDA i : rules[i].kind = "simple")
  IN  [attributes |-> FoldLeft(Contributed, [k \in Keys |-> Unset], simple),
       meta |-> {i \in Ids : Speaks(i) /\ rules[i].kind = "meta"}]

----------------------------------------------------------------------------
(* Where it answers.                                                       *)

\* Whether the template resolves stands for its placeholders.
UrlRules == [priority : Priorities, repo : {None, "b"}, matches : BOOLEAN,
             mode : {"fill", "overwrite"}, resolves : BOOLEAN]
\* The pair may be declared for its repo, for none, or for both; `mode` None
\* stands for no such declaration.
UrlSubjects == [repo : {None, "a"}, published : BOOLEAN,
                bound : {[url |-> u, mode |-> m] : u \in BOOLEAN, m \in {"fill", "overwrite", None}},
                loose : {[url |-> u, mode |-> m] : u \in BOOLEAN, m \in {"overwrite", None}}]
Absent(d) == d.mode = None

\* The pair's own declaration first, then one bound to no repo.
declarationFor(s) == IF Absent(s.bound) THEN s.loose ELSE s.bound

\* Mutant: the platform's own address is written over whatever the mode.
allowed_Always(mode, published) == TRUE

\* `fill` stands down as soon as the platform published something.
allowed(mode, published) == mode = "overwrite" \/ ~published

\* The first of the lowest number among those that claim the environment.
ruleFor(listing) ==
  LET claiming == SelectSeq(listing, Speaks)
  IN  IF claiming = <<>> THEN 0
      ELSE FoldLeft(LAMBDA best, i : IF rules[i].priority < rules[best].priority THEN i ELSE best,
                    Head(claiming), Tail(claiming))

Published == [from |-> IF subject.published THEN "platform" ELSE "nowhere", rule |-> 0]
resolveEnvUrl(listing) ==
  LET manual == declarationFor(subject)
      i == ruleFor(listing)
  IN  IF ~Absent(manual) /\ manual.url /\ allowed(manual.mode, subject.published)
      THEN [from |-> "declaration", rule |-> 0]
      ELSE IF i = 0 THEN Published
      ELSE IF allowed(rules[i].mode, subject.published) /\ rules[i].resolves
      THEN [from |-> "rule", rule |-> i]
      ELSE [Published EXCEPT !.rule = i]

----------------------------------------------------------------------------
(* Which tickets a text names.                                             *)

TICKET_SOURCES == <<"branch", "title">>
Tickets == {"k1"}
\* A rule reads some texts; `keys` is what its pattern finds in each of them.
TicketRules == [priority : Priorities, sources : SUBSET {"branch", "title"},
                keys : SUBSET ({"branch", "title"} \X Tickets)]
TicketSubjects == [texts : {{"branch"}, {"branch", "title"}}]
Unclaimed == [by |-> 0, foundIn |-> None]
\* The sort is stable: equal numbers keep the listing's order.
Sorted(listing) == SortSeq(listing, LAMBDA i, j : rules[i].priority < rules[j].priority)
Reads(i, t) == t \in rules[i].sources /\ t \in subject.texts

\* A key keeps its first attribution, unless a rule of a lower number claims it.
ReadText(found, i, t) ==
  [k \in Tickets |->
     IF /\ Reads(i, t) /\ <<t, k>> \in rules[i].keys
        /\ found[k] = Unclaimed \/ rules[found[k].by].priority > rules[i].priority
     THEN [by |-> i, foundIn |-> t] ELSE found[k]]

extractTickets(listing) ==
  FoldLeft(LAMBDA found, i : FoldLeft(LAMBDA f, t : ReadText(f, i, t), found, TICKET_SOURCES),
           [k \in Tickets |-> Unclaimed], Sorted(listing))

----------------------------------------------------------------------------
(* Which branch a ref parted from.                                         *)

\* A branch: whether it is the default one, when it parted from the ref (0 for
\* a base without a date), whether the base is the ref's own tip.
Branches == [isDefault : BOOLEAN, sibling : BOOLEAN, when : 0 .. 2, tip : BOOLEAN]
BranchSubjects == [limit : 1 .. 2]
BranchRank(i) == IF rules[i].isDefault THEN 0 ELSE IF rules[i].sibling THEN 1 ELSE 2

\* The default branch, then the siblings, then the rest, as listed.
Ranked(listing) ==
  SortSeq([n \in DOMAIN listing |-> <<BranchRank(listing[n]), n, listing[n]>>],
          LAMBDA x, y : x[1] < y[1] \/ (x[1] = y[1] /\ x[2] < y[2]))
candidateBranches(listing) ==
  LET ranked == Ranked(listing)
  IN  [n \in 1 .. (IF Len(ranked) < subject.limit THEN Len(ranked) ELSE subject.limit) |->
         ranked[n][3]]

Usable(i) == rules[i].when > 0 /\ ~rules[i].tip
Nearer(i, best) ==
  \/ rules[i].when > rules[best].when
  \/ rules[i].when = rules[best].when /\ rules[i].isDefault /\ ~rules[best].isDefault
nearestBranch(candidates) ==
  LET usable == SelectSeq(candidates, Usable)
  IN  IF usable = <<>> THEN 0
      ELSE FoldLeft(LAMBDA best, i : IF Nearer(i, best) THEN i ELSE best,
                    Head(usable), Tail(usable))

----------------------------------------------------------------------------
(* Where its version is asked.                                             *)

\* A template is the placeholders it names, in order.
VersionRules == [priority : Priorities, repo : {None, "a"}, matches : BOOLEAN,
                 names : {<<>>, <<"attr.client", "environmentUrl">>, <<"ref">>, <<"typo">>}]
\* `last` is the rule that answered at the last reading, 0 for none; it may have
\* been deleted since, or no longer apply.
VersionSubjects == [repo : {None, "a"}, has : SUBSET {"environmentUrl", "attr.client", "ref"},
                    last : Ids \cup {0, -1}]

\* Every rule that answers for the environment, lowest number first.
rulesFor(listing) == Sorted(SelectSeq(listing, Speaks))

\* Mutant: the rule that last answered is put first whether it applies or not.
preferring_Blindly(ranked, last) ==
  IF last = 0 THEN ranked ELSE <<last>> \o SelectSeq(ranked, LAMBDA i : i # last)

\* The rule that last answered is tried first, if it still applies.
preferring(ranked, last) ==
  IF last \in ToSet(ranked) THEN <<last>> \o SelectSeq(ranked, LAMBDA i : i # last) ELSE ranked

reasonFor(name) ==
  CASE name = "environmentUrl" -> "noEnvironmentUrl"
    [] name = "attr.client" -> "noAttribute"
    [] name = "ref" -> "noRef"
    [] OTHER -> "unknownPlaceholder"

\* The first placeholder without a value is the reason there is no address.
probeUrl(i) ==
  LET missing == SelectSeq(rules[i].names, LAMBDA name : name \notin subject.has)
  IN  IF missing = <<>> THEN [ok |-> TRUE, reason |-> None]
      ELSE [ok |-> FALSE, reason |-> reasonFor(Head(missing))]

----------------------------------------------------------------------------
Init ==
  /\ topic \in Topics
  /\ \/ topic = "env" /\ rules \in [Ids -> EnvRules] /\ subject \in EnvSubjects
     \/ topic = "url" /\ rules \in [Ids -> UrlRules] /\ subject \in UrlSubjects
     \/ topic = "version" /\ rules \in [Ids -> VersionRules] /\ subject \in VersionSubjects
     \/ topic = "ticket" /\ rules \in [Ids -> TicketRules] /\ subject \in TicketSubjects
     \/ /\ topic = "branch" /\ rules \in [Ids -> Branches] /\ subject \in BranchSubjects
        /\ \A i, j \in Ids : rules[i].isDefault /\ rules[j].isDefault => i = j
  /\ order \in Listings

\* The list is read again.
Relist ==
  /\ order' \in Listings
  /\ UNCHANGED <<topic, rules, subject>>
Next == Relist
Spec == Init /\ [][Next]_vars

----------------------------------------------------------------------------
(* Properties.                                                             *)

Least(S) == CHOOSE i \in S : \A j \in S : rules[i].priority <= rules[j].priority
Distinct == \A i, j \in Ids : i # j => rules[i].priority # rules[j].priority

\* Distinct numbers decide alone, whatever order the list came in: a key goes
\* to the lowest number that has it, its group before its forced value.
ClassifiedByPriority ==
  topic = "env" /\ Distinct => \A k \in Keys :
    LET having == {i \in Ids : Speaks(i) /\ rules[i].kind = "simple"
                               /\ k \in rules[i].forced \cup rules[i].captured}
    IN  classifyEnvironment(order).attributes[k] =
          IF having = {} THEN Unset
          ELSE [by |-> Least(having), captured |-> k \in rules[Least(having)].captured]

\* Only a deliberate claim is written over the address the platform published,
\* and an address that cannot be completed never replaces one that is there.
PublishedGivesWayToOverwrite ==
  topic = "url" => LET r == resolveEnvUrl(order) IN
    /\ subject.published /\ r.from = "rule" => rules[r.rule].mode = "overwrite" /\ rules[r.rule].resolves
    /\ subject.published /\ r.from = "declaration" => declarationFor(subject).mode = "overwrite"
    /\ subject.published => r.from # "nowhere"

\* A ticket belongs to the lowest number that finds it, in the first text of
\* the declared order it is found in.
TicketsByPriority ==
  topic = "ticket" /\ Distinct => \A k \in Tickets :
    LET finding == {i \in Ids : \E t \in {"branch", "title"} : Reads(i, t) /\ <<t, k>> \in rules[i].keys}
        i == Least(finding)
    IN  extractTickets(order)[k] =
          IF finding = {} THEN Unclaimed
          ELSE [by |-> i,
                foundIn |-> IF Reads(i, "branch") /\ <<"branch", k>> \in rules[i].keys
                            THEN "branch" ELSE "title"]

\* The default branch is never cut by the cap, and no usable branch among the
\* candidates parted later than the one retained.
NearestIsNearest ==
  topic = "branch" =>
    LET candidates == candidateBranches(order)
        best == nearestBranch(candidates)
    IN  /\ \A i \in Ids : rules[i].isDefault => i \in ToSet(candidates)
        /\ \A i \in ToSet(candidates) : Usable(i) => best # 0 /\ rules[i].when <= rules[best].when

\* Whatever answered last, and whatever order the list came in: every rule that
\* claims the environment is tried, once, and no other; the one that answered
\* last goes first only while it still claims it, and the others keep their
\* numbers' order.  An address is tried only when every placeholder has a value.
AttemptsAreDeclared ==
  topic = "version" =>
    LET tried == preferring(rulesFor(order), subject.last)
        claiming == {i \in Ids : Speaks(i)}
        held == claiming \cap {subject.last}
    IN  /\ ToSet(tried) = claiming /\ Len(tried) = Cardinality(claiming)
        /\ held # {} => tried[1] = subject.last
        /\ \A m, n \in DOMAIN tried :
             m < n /\ tried[m] \notin held => rules[tried[m]].priority <= rules[tried[n]].priority
        /\ \A i \in claiming : probeUrl(i).ok <=> ToSet(rules[i].names) \subseteq subject.has

EngineIsSound ==
  AttemptsAreDeclared /\ ClassifiedByPriority /\ PublishedGivesWayToOverwrite /\ TicketsByPriority /\ NearestIsNearest

\* "declaration order breaking a tie" (ruleFor).
DeclarationOrderBreaksTies ==
  topic = "url" =>
    LET claiming == {i \in Ids : Speaks(i)}
    IN  ruleFor(order) = IF claiming = {} THEN 0
          ELSE CHOOSE i \in claiming : \A j \in claiming :
                 \/ rules[i].priority < rules[j].priority
                 \/ rules[i].priority = rules[j].priority /\ i <= j
=============================================================================
