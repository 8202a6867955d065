---------------------------- MODULE EntityQuery ----------------------------
(***************************************************************************)
(* The entity query language between its tokens and the rows it selects:   *)
(* the recursive-descent parser with its limits, the compilation of the    *)
(* tree to a SQL condition, and what PostgreSQL makes of that condition.   *)
(* Both ends are checked against a reference: the grammar in the file's    *)
(* header as a set of derivations, and the node's rule of what matches.    *)
(*                                                                         *)
(* Values are sequences of small numbers: a number is a sequence of one,   *)
(* a string the sequence of its bytes.  TopByte stands for 0xff and I64Max *)
(* for the largest bigint.                                                 *)
(***************************************************************************)
EXTENDS Integers, Sequences, FiniteSets

CONSTANTS
  MaxDepth, MaxPredicates,
  TopByte, I64Max,
  Vocabularies,   \* bound: sets of chunks, each with how many of them make a query
  Entities        \* rows: createdAt, owner, and the attribute: name, type, value, indexed

QueryAssumption == {MaxDepth, MaxPredicates, TopByte, I64Max} \subseteq Nat

Token(t) == [t |-> t, name |-> "", type |-> "", value |-> << >>]
Name(n) == [Token("name") EXCEPT !.name = n]
System(f) == [Token("sysname") EXCEPT !.name = f]
Tagged(type, value) == [Token("tagged") EXCEPT !.type = type, !.value = value]
Number(n) == [Token("int") EXCEPT !.value = <<n>>]

Ranges == {"lt", "lte", "gt", "gte"}
Operators == Ranges \union {"eq"}
Ordered == {"i32", "u64"}
builtinType == [owner |-> "addr", createdAt |-> "u64"]

-----------------------------------------------------------------------------
(* The parser: the rest of the tokens is ts from pos on. *)

At(ts, pos) == IF pos <= Len(ts) THEN ts[pos].t ELSE "end"
Refused(kind) == [ok |-> FALSE, kind |-> kind]
Parsed(ast, pos, predicates) == [ok |-> TRUE, ast |-> ast, pos |-> pos, predicates |-> predicates]

\* parseValue, checkValueType: the type of the value decides, untagged ones by the attribute.
valueOf(key, v) ==
  LET builtin == key.t = "sysname" IN
  CASE v.t = "tagged" /\ (builtin => v.type = builtinType[key.name]) -> [ok |-> TRUE, type |-> v.type, value |-> v.value]
    [] v.t = "true" /\ ~builtin -> [ok |-> TRUE, type |-> "bool", value |-> <<1>>]
    [] v.t = "int" /\ ~builtin -> [ok |-> TRUE, type |-> "i32", value |-> v.value]
    [] v.t = "str" /\ builtin /\ builtinType[key.name] = "addr" -> [ok |-> TRUE, type |-> "addr", value |-> v.value]
    [] v.t \notin {"tagged", "true", "int", "str"} -> Refused("malformed")
    [] OTHER -> Refused("type")

\* checkOperator, and STARTSWITH: which operator suits which type.
comparable(op, type) == (op \in Ranges => type \in Ordered) /\ (op = "startswith" => type = "str")

parsePredicate(ts, pos, predicates) ==
  LET key == ts[pos]
      op == At(ts, pos + 1)
      v == valueOf(key, IF pos + 2 <= Len(ts) THEN ts[pos + 2] ELSE Token("end"))
      error ==
        IF predicates = MaxPredicates THEN "limit"
        ELSE IF At(ts, pos) \notin {"name", "sysname", "exists"} THEN "malformed"
        ELSE IF key.t = "exists" \/ (key.t = "sysname" /\ key.name \notin DOMAIN builtinType) THEN "type"
        ELSE IF op = "neq" THEN "type"
        ELSE IF op \notin Operators \union {"startswith"} THEN "malformed"
        ELSE IF ~v.ok THEN v.kind
        ELSE IF ~comparable(op, v.type) THEN "type"
        ELSE "none"
  IN IF error # "none" THEN Refused(error)
     ELSE Parsed([kind |-> IF op = "startswith" THEN "startsWith" ELSE "compare", op |-> op,
                  builtin |-> key.t = "sysname", name |-> key.name, type |-> v.type, value |-> v.value],
                 pos + 3, predicates + 1)

RECURSIVE parseExpr(_, _, _, _), parseUnary(_, _, _, _), AndChain(_, _, _), OrChain(_, _, _)

\* descend: NOT and '(' go one level down.
TooDeep(depth) == depth = MaxDepth

\* parsePrimary, a group.
parseGroup(ts, pos, depth, predicates) ==
  LET inner == parseExpr(ts, pos + 1, depth + 1, predicates) IN
  IF TooDeep(depth) THEN Refused("limit")
  ELSE IF ~inner.ok THEN inner
  ELSE IF At(ts, inner.pos) # "rparen" THEN Refused("malformed")
  ELSE [inner EXCEPT !.pos = @ + 1]

\* NOT binds tighter than AND.
parseUnary(ts, pos, depth, predicates) ==
  LET t == At(ts, pos)
      inner == parseUnary(ts, pos + 1, depth + 1, predicates)
  IN CASE t = "end" -> Refused("malformed")
       [] t = "not" -> IF TooDeep(depth) THEN Refused("limit")
                       ELSE IF inner.ok THEN [inner EXCEPT !.ast = [kind |-> "not", inner |-> @]] ELSE inner
       [] t = "lparen" -> parseGroup(ts, pos, depth, predicates)
       [] t \notin {"end", "not", "lparen"} -> parsePredicate(ts, pos, predicates)

\* The tree grows to the left.
Joined(kind, left, right) ==
  IF right.ok THEN [right EXCEPT !.ast = [kind |-> kind, left |-> left.ast, right |-> @]] ELSE right

\* The loop of parseAnd.
AndChain(ts, left, depth) ==
  IF ~left.ok THEN left
  ELSE IF At(ts, left.pos) # "and" THEN left
  ELSE AndChain(ts, Joined("and", left, parseUnary(ts, left.pos + 1, depth, left.predicates)), depth)

\* parseAnd.
parseAnd(ts, pos, depth, predicates) == AndChain(ts, parseUnary(ts, pos, depth, predicates), depth)

\* The loop of parseExpr.
OrChain(ts, left, depth) ==
  IF ~left.ok THEN left
  ELSE IF At(ts, left.pos) # "or" THEN left
  ELSE OrChain(ts, Joined("or", left, parseAnd(ts, left.pos + 1, depth, left.predicates)), depth)

parseExpr(ts, pos, depth, predicates) == OrChain(ts, parseAnd(ts, pos, depth, predicates), depth)

parseTopLevel(ts) ==
  LET query == parseExpr(ts, 1, 0, 0) IN
  IF At(ts, 1) = "star"
  THEN IF Len(ts) = 1 THEN Parsed([kind |-> "all"], 2, 0) ELSE Refused("malformed")
  ELSE IF ~query.ok \/ query.pos > Len(ts) THEN query
  ELSE Refused("malformed")

-----------------------------------------------------------------------------
(* compileNode, and PostgreSQL's reading of what it writes. *)

\* Byte strings in their order.
Below(s, t) ==
  \/ Len(s) < Len(t) /\ \A i \in 1..Len(s) : s[i] = t[i]
  \/ \E i \in 1..Len(s) : i <= Len(t) /\ s[i] < t[i] /\ \A j \in 1..(i - 1) : s[j] = t[j]

holds(op, x, y) ==
  CASE op = "eq" -> x = y
    [] op = "lt" -> Below(x, y)
    [] op = "lte" -> x = y \/ Below(x, y)
    [] op = "gt" -> Below(y, x)
    [] op = "gte" -> x = y \/ Below(y, x)

\* Mutant of nextBytePrefix: the last byte is raised, also where it is the top one.
nextBytePrefixWrapping(prefix) ==
  IF prefix = << >> THEN << >> ELSE [prefix EXCEPT ![Len(prefix)] = (@ + 1) % (TopByte + 1)]

\* The smallest byte string above all that start with prefix; the empty one if there is none.
nextBytePrefix(prefix) ==
  LET low == {i \in DOMAIN prefix : prefix[i] # TopByte} IN
  IF low = {} THEN << >>
  ELSE LET last == CHOOSE i \in low : \A j \in low : j <= i
       IN [i \in 1..last |-> IF i = last THEN prefix[i] + 1 ELSE prefix[i]]

\* EXISTS over the attribute rows of the version: of this name and type, and indexed.
existsRow(e, node, conditions) ==
  /\ e.indexed /\ e.name = node.name /\ e.type = node.type
  /\ \A c \in conditions : holds(c.op, e.value, c.operand)

\* A system column; created_at is a bigint, above which a literal is decided without it.
builtinHolds(e, node) ==
  IF node.name = "owner" THEN holds(node.op, e.owner, node.value)
  ELSE IF node.value[1] > I64Max THEN node.op \in {"lt", "lte"}
  ELSE holds(node.op, e.createdAt, node.value)

RECURSIVE compileNode(_, _)
compileNode(node, e) ==
  CASE node.kind = "all" -> TRUE
    [] node.kind = "and" -> compileNode(node.left, e) /\ compileNode(node.right, e)
    [] node.kind = "or" -> compileNode(node.left, e) \/ compileNode(node.right, e)
    [] node.kind = "not" -> ~compileNode(node.inner, e)
    [] node.kind = "compare" ->
         IF node.builtin THEN builtinHolds(e, node)
         ELSE existsRow(e, node, {[op |-> node.op, operand |-> node.value]})
    [] node.kind = "startsWith" ->
         existsRow(e, node, {[op |-> "gte", operand |-> node.value]} \union
           (IF nextBytePrefix(node.value) = << >> THEN {}
            ELSE {[op |-> "lt", operand |-> nextBytePrefix(node.value)]}))

-----------------------------------------------------------------------------
(* A client writes a query, chunk by chunk; every text is parsed.          *)

VARIABLES vocabulary, length, text, verdict
vars == <<vocabulary, length, text, verdict>>

Init ==
  /\ vocabulary \in Vocabularies
  /\ length = 0 /\ text = << >> /\ verdict = Refused("malformed")

Write(chunk) ==
  /\ length < vocabulary.length
  /\ length' = length + 1
  /\ text' = text \o chunk
  /\ verdict' = parseTopLevel(text')
  /\ UNCHANGED vocabulary

Next == \E chunk \in vocabulary.chunks : Write(chunk)
Spec == Init /\ [][Next]_vars

-----------------------------------------------------------------------------
(* The reference: the grammar of the header, as the set of the derivations *)
(* of a text, each with its tree, its nesting and its predicates.          *)

Derived(ast, depth, predicates) == [ast |-> ast, depth |-> depth, predicates |-> predicates]
Deeper(d) == [d EXCEPT !.depth = @ + 1]
Both(kind, l, r) ==
  Derived([kind |-> kind, left |-> l.ast, right |-> r.ast],
          IF l.depth > r.depth THEN l.depth ELSE r.depth, l.predicates + r.predicates)

\* attrRef compOp value | attrRef STARTSWITH strValue
PredicateOf(ts) ==
  IF Len(ts) # 3 THEN {}
  ELSE LET key == ts[1] op == ts[2].t v == ts[3]
           user == key.t = "name"
           type == CASE v.t = "tagged" -> v.type
                     [] v.t = "int" /\ user -> "i32"
                     [] v.t = "true" -> "bool"
                     [] v.t = "str" /\ ~user -> "addr"
                     [] OTHER -> "none"
           value == IF v.t = "true" THEN <<1>> ELSE v.value
       IN IF /\ user \/ (key.t = "sysname" /\ key.name \in DOMAIN builtinType /\ type = builtinType[key.name])
             /\ type # "none"
             /\ \/ op = "eq" \/ (op \in Ranges /\ type \in Ordered)
                \/ (op = "startswith" /\ type = "str")
          THEN {Derived([kind |-> IF op = "startswith" THEN "startsWith" ELSE "compare", op |-> op,
                         builtin |-> ~user, name |-> key.name, type |-> type, value |-> value], 0, 1)}
          ELSE {}

RECURSIVE ExprOf(_), AndOf(_), UnaryOf(_)

UnaryOf(ts) ==
  IF At(ts, 1) = "not"
  THEN {Deeper([d EXCEPT !.ast = [kind |-> "not", inner |-> @]]) : d \in UnaryOf(Tail(ts))}
  ELSE IF Len(ts) > 2 /\ At(ts, 1) = "lparen" /\ At(ts, Len(ts)) = "rparen"
  THEN {Deeper(d) : d \in ExprOf(SubSeq(ts, 2, Len(ts) - 1))}
  ELSE PredicateOf(ts)

AndOf(ts) == UnaryOf(ts) \union
  UNION {{Both("and", l, r) : l \in AndOf(SubSeq(ts, 1, i - 1)), r \in UnaryOf(SubSeq(ts, i + 1, Len(ts)))} :
         i \in {j \in DOMAIN ts : ts[j].t = "and"}}

ExprOf(ts) == AndOf(ts) \union
  UNION {{Both("or", l, r) : l \in ExprOf(SubSeq(ts, 1, i - 1)), r \in AndOf(SubSeq(ts, i + 1, Len(ts)))} :
         i \in {j \in DOMAIN ts : ts[j].t = "or"}}

TopOf(ts) == IF At(ts, 1) = "star" /\ Len(ts) = 1 THEN {Derived([kind |-> "all"], 0, 0)} ELSE ExprOf(ts)

Within(d) == d.depth <= MaxDepth /\ d.predicates <= MaxPredicates

\* The language is the grammar of entityQueryLanguage.ts:10-17: a query is accepted if and only
\* if it derives within the limits, as the one tree it derives; one that only the limits forbid
\* is refused for them.
ParsesAsDocumented ==
  LET derived == TopOf(text) IN
  /\ verdict.ok => {d.ast : d \in {x \in derived : Within(x)}} = {verdict.ast}
  /\ ~verdict.ok => \A d \in derived : ~Within(d) /\ verdict.kind = "limit"

\* The node's reading: a predicate matches an indexed attribute of its name and type.
RECURSIVE Matches(_, _)
Matches(node, e) ==
  CASE node.kind = "all" -> TRUE
    [] node.kind = "and" -> Matches(node.left, e) /\ Matches(node.right, e)
    [] node.kind = "or" -> Matches(node.left, e) \/ Matches(node.right, e)
    [] node.kind = "not" -> ~Matches(node.inner, e)
    [] node.kind \in {"compare", "startsWith"} ->
         LET x == CASE node.builtin /\ node.name = "owner" -> e.owner
                    [] node.builtin /\ node.name = "createdAt" -> e.createdAt
                    [] ~node.builtin -> e.value
         IN /\ ~node.builtin => e.indexed /\ e.name = node.name /\ e.type = node.type
            /\ IF node.kind = "compare" THEN holds(node.op, x, node.value)
               ELSE Len(x) >= Len(node.value) /\ SubSeq(x, 1, Len(node.value)) = node.value

\* The compiled condition selects what the node would: also around the largest bigint, and for
\* prefixes that end in the largest byte, where the range has another end or none.
SelectsAsNode ==
  verdict.ok => \A e \in Entities : compileNode(verdict.ast, e) = Matches(verdict.ast, e)
=============================================================================
