--------------------------- MODULE VersionTemplate ---------------------------
(***************************************************************************)
(* How a version is read out of what an environment answered: a template's *)
(* placeholders are paths, a path is a list of steps, and each step walks  *)
(* one level of the parsed body.  A body is a tree of values, arrays and   *)
(* objects; whether a list of one was wrapped or not depends on the format *)
(* and must not matter.                                                    *)
(***************************************************************************)
EXTENDS Naturals, Sequences

CONSTANTS Values,      \* the texts a leaf may hold
          MaxTokens    \* bound: tokens of a path

VARIABLES tree,   \* the parsed body
          path    \* the path as written, in tokens

vars == <<tree, path>>

-----------------------------------------------------------------------------
\* Parsed bodies. An object's members carry their key, an array's carry none.
Leaf(v) == [tag |-> "value", text |-> v, items |-> <<>>]
Null == [tag |-> "null", text |-> "", items |-> <<>>]
Arr(nodes) == [tag |-> "array", text |-> "",
               items |-> [i \in DOMAIN nodes |-> [key |-> "", node |-> nodes[i]]]]
Obj(members) == [tag |-> "object", text |-> "", items |-> members]
Member(k, n) == [key |-> k, node |-> n]

Scalars == {Null} \cup {Leaf(v) : v \in Values}
Objects == {Obj(<<Member("k", n)>>) : n \in Scalars}
           \cup {Obj(<<Member("#text", n)>>) : n \in Scalars}
           \cup {Obj(<<Member("k", n), Member("m", o)>>) : n, o \in Scalars}
Flat == Scalars \cup Objects \cup {Arr(<<>>)} \cup {Arr(<<n>>) : n \in Scalars}
        \cup {Arr(<<n, o>>) : n, o \in Scalars}
Trees == Flat \cup {Obj(<<Member("k", n)>>) : n \in Flat} \cup {Arr(<<n>>) : n \in Objects}
         \cup {Arr(<<n, o>>) : n, o \in Objects}

-----------------------------------------------------------------------------
\* One step of a path.
Found(n) == [kind |-> "found", node |-> n]
Missing == [kind |-> "missing", node |-> Null]
Ambiguous == [kind |-> "ambiguous", node |-> Null]

\* Reading a key of an array of one reads it of its element.
RECURSIVE byKey(_, _)
byKey(node, name) ==
  IF node.tag = "array"
  THEN CASE Len(node.items) = 1 -> byKey(node.items[1].node, name)
         [] Len(node.items) = 0 -> Missing
         [] OTHER -> Ambiguous
  ELSE LET held == {i \in DOMAIN node.items : node.items[i].key = name}
       IN IF node.tag # "object" \/ held = {} THEN Missing
          ELSE Found(node.items[CHOOSE i \in held : TRUE].node)

\* Mutant: only a list answers to an index.
byIndex_Strict(node, index) ==
  IF node.tag = "array" /\ index < Len(node.items) THEN Found(node.items[index + 1].node)
  ELSE Missing

\* What was never wrapped answers to [0].
byIndex(node, index) ==
  IF node.tag = "array"
  THEN IF index < Len(node.items) THEN Found(node.items[index + 1].node) ELSE Missing
  ELSE IF index = 0 THEN Found(node) ELSE Missing

\* The text of a node: an array of one is its element, an XML element is its text.
RECURSIVE toText(_)
toText(node) ==
  CASE node.tag = "null" -> Missing
    [] node.tag = "value" -> [kind |-> "value", node |-> node]
    [] node.tag = "array" -> (CASE Len(node.items) = 1 -> toText(node.items[1].node)
                                [] Len(node.items) = 0 -> Missing
                                [] OTHER -> Ambiguous)
    [] OTHER -> IF \E i \in DOMAIN node.items : node.items[i].key = "#text"
                THEN toText(byKey(node, "#text").node)
                ELSE [kind |-> "notAValue", node |-> Null]

\* The first candidate whose key reads the wanted value.
byPredicate(node, key, value) ==
  LET nodes == IF node.tag = "array" THEN [i \in DOMAIN node.items |-> node.items[i].node]
               ELSE <<node>>
      holds(n) == /\ byKey(n, key).kind = "found"
                  /\ toText(byKey(n, key).node).kind = "value"
                  /\ toText(byKey(n, key).node).node.text = value
      matching == {i \in DOMAIN nodes : holds(nodes[i])}
  IN IF matching = {} THEN Missing
     ELSE Found(nodes[CHOOSE i \in matching : \A j \in matching : i <= j])

apply(node, step) ==
  CASE step.kind = "key" -> byKey(node, step.name)
    [] step.kind = "index" -> byIndex(node, step.index)
    [] OTHER -> byPredicate(node, step.name, step.value)

-----------------------------------------------------------------------------
\* The path language. A token is a name, a dot, a bracket that indexes, one
\* that selects, or something unreadable.
Key(n) == [kind |-> "key", name |-> n, index |-> 0, value |-> ""]
Index(i) == [kind |-> "index", name |-> "", index |-> i, value |-> ""]
Where(n, v) == [kind |-> "where", name |-> n, index |-> 0, value |-> v]
Dot == [kind |-> "dot", name |-> "", index |-> 0, value |-> ""]
Bad == [kind |-> "bad", name |-> "", index |-> 0, value |-> ""]

Tokens == {Key("k"), Key("m"), Index(0), Index(1), Dot, Bad}
          \cup {Where("k", v) : v \in Values}
Brackets == {"index", "where"}

Kind(tokens, i) == IF i \in DOMAIN tokens THEN tokens[i].kind ELSE "end"

Refused == [ok |-> FALSE, steps |-> <<>>]

\* parsePath from position i: a segment is a name, brackets, or both; the next
\* one starts with a dot, or directly with a bracket.
RECURSIVE parseFrom(_, _, _, _)
parseFrom(tokens, i, first, steps) ==
  IF i > Len(tokens) THEN [ok |-> steps # <<>>, steps |-> steps]
  ELSE LET dotted == ~first /\ Kind(tokens, i) = "dot"
           at     == IF dotted THEN i + 1 ELSE i
           named  == Kind(tokens, at) = "key"
           after  == IF named THEN at + 1 ELSE at
           last   == CHOOSE j \in after - 1 .. Len(tokens) :
                       /\ \A p \in after .. j : Kind(tokens, p) \in Brackets
                       /\ Kind(tokens, j + 1) \notin Brackets
       IN IF \/ ~first /\ ~dotted /\ Kind(tokens, i) \notin Brackets
             \/ ~named /\ Kind(tokens, at) \notin Brackets
          THEN Refused
          ELSE parseFrom(tokens, last + 1, FALSE, steps \o SubSeq(tokens, at, last))

parsePath(tokens) == parseFrom(tokens, 1, TRUE, <<>>)

\* resolvePath: the steps are applied in turn, and what they reach must be a
\* text. The outcome is the text, or the reason there is none.
RECURSIVE walk(_, _)
walk(node, steps) ==
  IF steps = <<>> THEN toText(node)
  ELSE LET next == apply(node, Head(steps))
       IN IF next.kind = "found" THEN walk(next.node, Tail(steps)) ELSE next

resolvePath(root, tokens) ==
  IF ~parsePath(tokens).ok THEN [kind |-> "pathUnreadable", node |-> Null]
  ELSE walk(root, parsePath(tokens).steps)

-----------------------------------------------------------------------------
\* Templates: literal parts, placeholders, and the two ways to write one
\* wrong. The first failure is the answer; a partial version never is.
Pieces == {"literal", "hole", "emptyHole", "unclosed"}

\* `lookup` says whether the placeholder of a part resolves.
RECURSIVE fillTemplate(_, _)
fillTemplate(parts, resolves) ==
  IF parts = <<>> THEN "ok"
  ELSE CASE Head(parts) = "unclosed" -> "templateUnclosed"
         [] Head(parts) = "emptyHole" -> "templateEmptyPath"
         [] Head(parts) = "hole" /\ ~resolves -> "unresolved"
         [] OTHER -> fillTemplate(Tail(parts), resolves)

templateReadsSomething(parts) ==
  fillTemplate(parts, TRUE) = "ok" /\ \E i \in DOMAIN parts : parts[i] = "hole"

\* extractVersion of a body and a template of one placeholder among literals.
extractVersion(parsed, root, tokens) ==
  IF ~parsed THEN "unparsable"
  ELSE IF resolvePath(root, tokens).kind # "value" THEN resolvePath(root, tokens).kind
  ELSE "ok"

\* A body that does not parse, or a text the pattern does not match, speaks of
\* the address; anything else speaks of the template.
blamesTheAddress(reason) == reason \in {"unparsable", "noMatch"}

-----------------------------------------------------------------------------
Paths == UNION {[1 .. n -> Tokens] : n \in 1 .. MaxTokens}

\* Every tree with the paths of one step, and every path on one tree.
Init ==
  \/ tree \in Trees /\ path = <<>>
  \/ tree = Arr(<<>>) /\ path \in Paths

Next == UNCHANGED vars

Spec == Init /\ [][Next]_vars

-----------------------------------------------------------------------------
Steps == {Key("k"), Key("m"), Index(0), Index(1)} \cup {Where("k", v) : v \in Values}
StepPaths == UNION {[1 .. n -> Steps] : n \in 1 .. 2}

\* A node, or one of its direct members, wrapped in an array of one, unless it
\* is a list already.
Wrapped(node) == IF node.tag = "array" THEN node ELSE Arr(<<node>>)

Wrappings(node) ==
  {Wrapped(node)} \cup
  {[node EXCEPT !.items = [node.items EXCEPT ![i] =
      [key |-> node.items[i].key, node |-> Wrapped(node.items[i].node)]]] :
     i \in DOMAIN node.items}

\* One path reads both shapes of a body: it reads a text exactly when it reads
\* the same text once an element is wrapped in a list of one, as an XML body
\* wraps every element it holds once.
WrappingIsTransparent ==
  path = <<>> =>
    \A steps \in StepPaths, w \in Wrappings(tree) :
      /\ walk(tree, steps).kind = "value" <=> walk(w, steps).kind = "value"
      /\ walk(tree, steps).kind = "value" => walk(w, steps).node.text = walk(tree, steps).node.text

\* The grammar, said without a parser: names and brackets at both ends, and
\* every neighbour allowed.
Neighbours == {<<"key", "dot">>, <<"dot", "key">>} \cup {<<"key", b>> : b \in Brackets}
              \cup {<<b, "dot">> : b \in Brackets} \cup {<<"dot", b>> : b \in Brackets}
              \cup (Brackets \X Brackets)

WellFormed(tokens) ==
  /\ tokens # <<>>
  /\ tokens[1].kind \in Brackets \cup {"key"}
  /\ tokens[Len(tokens)].kind \in Brackets \cup {"key"}
  /\ \A i \in 1 .. Len(tokens) - 1 : <<tokens[i].kind, tokens[i + 1].kind>> \in Neighbours

\* A path is read exactly when it is well formed, and its steps are its names
\* and brackets in order.
ParserReadsTheGrammar ==
  path # <<>> =>
    /\ parsePath(path).ok <=> WellFormed(path)
    /\ parsePath(path).ok => parsePath(path).steps = SelectSeq(path, LAMBDA t : t.kind # "dot")
=============================================================================
