----------------------------- MODULE MCRecords -----------------------------
(***************************************************************************)
(* TLC instance of Records, and of the query language beside it: small     *)
(* sets that put the interesting cases next to each other.                 *)
(***************************************************************************)
EXTENDS Records, EntityQuery, TLC

CONSTANTS g, k, a, alice, bob, t1, t2

-----------------------------------------------------------------------------
(* Reads: a genesis entity g and an entity k that the chain creates, one   *)
(* attribute, two owners; what a block may hold.                           *)

OpOf(kind, key, sender) ==
  [kind |-> kind, key |-> key, sender |-> sender, newOwner |-> None,
   cells |-> << >>, expires |-> 0, lifetime |-> 0]

Create    == [OpOf("create", k, alice) EXCEPT !.lifetime = 2,
                !.cells = <<[name |-> a, value |-> 1]>>]
Retag(e)  == [OpOf("patch", e, alice) EXCEPT !.cells = <<[name |-> a, value |-> 2]>>]
Untag(e)  == [OpOf("patch", e, alice) EXCEPT
                !.cells = <<[name |-> a, value |-> 2], [name |-> a, value |-> None]>>]
Extend(e) == [OpOf("extend", e, bob) EXCEPT !.expires = 3, !.lifetime = 3]
Give(e)   == [OpOf("transfer", e, alice) EXCEPT !.newOwner = bob]
Delete(e) == OpOf("delete", e, alice)

MCContents ==
  { << >>, <<Create>>, <<Create, Untag(k)>>, <<Untag(g), Retag(g)>>,
    <<Extend(g), Extend(k)>>, <<Give(k), Delete(g)>>, <<Delete(k), Create>>,
    <<Retag(k)>> }

MCGenesis == [e \in {g, k} |-> IF e = g
  THEN [from |-> 0, to |-> None, deleted |-> FALSE, owner |-> alice,
        created |-> <<0, 0, 0>>, expires |-> 3, attributes |-> [n \in {a} |-> 1]]
  ELSE None]

\* Values with a tie within a block and ties across blocks.
MCValue == [t \in (0..2) \X (0..1) |->
  CASE t = <<1, 1>> -> 3
    [] t \in {<<0, 1>>, <<2, 0>>} -> 1
    [] OTHER -> 2]

-----------------------------------------------------------------------------
(* Calls of the endpoint: every method at the head, at the first stored    *)
(* block, at a block by number and by hash; ranges within and beyond them. *)

AtNumber(b) == [kind |-> "number", block |-> b]
AtHash(b)   == [kind |-> "hash", block |-> b]
Latest      == [kind |-> "latest", block |-> 0]
Earliest    == [kind |-> "earliest", block |-> 0]
CallOf(method, from, to, count) ==
  [method |-> method, from |-> from, to |-> to, count |-> count]

MCRequests ==
  {CallOf("blockNumber", Latest, Latest, 1)}
  \union {CallOf(m, Latest, t, 1) : m \in {"count", "balance", "block"},
            t \in {Latest, Earliest, AtNumber(1), AtHash(1), AtNumber(3)}}
  \union {CallOf("fees", Latest, t, c) : t \in {Latest, AtNumber(2), AtHash(1)}, c \in 1..3}
  \union {CallOf("logs", f, t, 1) : f \in {Latest, Earliest, AtNumber(0), AtNumber(1)},
            t \in {Latest, Earliest, AtNumber(2), AtHash(2)}}
  \union {CallOf("logs", AtHash(1), Latest, 1)}

-----------------------------------------------------------------------------
(* The board has two windows, the last of which is the retention.          *)

MCSpans == <<1, 3>>

-----------------------------------------------------------------------------
(* Queries: their structure up to the limits, two connectives deep; every  *)
(* sequence of four tokens; rows on both sides of every boundary.          *)

Chunks(tokens) == {<<t>> : t \in tokens}
APredicate == <<Name("a"), Token("eq"), Number(1)>>
BelowBoundary == <<Name("a"), Token("lt"), Tagged("u64", <<2>>)>>
Connectives == {Token(t) : t \in {"and", "or", "not"}}
Parentheses == {Token(t) : t \in {"star", "lparen", "rparen"}}
Strings == {<<0>>, <<0, 1>>, <<1>>, <<1, 1>>, << >>}
Attributes == {Name("a"), System("owner"), System("createdAt"),
               System("updatedAt"), Token("exists")}
Values == {Number(1), Token("true"), [Token("str") EXCEPT !.value = <<1>>],
           Tagged("u64", <<1>>), Tagged("u64", <<3>>), Tagged("addr", <<1>>),
           Tagged("i32", <<2>>)} \union {Tagged("str", s) : s \in Strings}
Comparisons == {Token(o) : o \in Operators \union {"startswith", "neq"}}

MCVocabularies ==
  { [chunks |-> Chunks(Connectives \union Parentheses) \union {APredicate}, length |-> 6],
    [chunks |-> Chunks(Connectives) \union {APredicate, BelowBoundary}, length |-> 7],
    [chunks |-> Chunks(Attributes \union Values \union Comparisons \union {Token("not")}),
     length |-> 4] }

MCEntities ==
  {[owner |-> <<1>>, createdAt |-> <<c>>, name |-> "a", type |-> "str", value |-> v,
    indexed |-> i] : c \in {0, 1}, v \in Strings \union {<<0, 0>>}, i \in BOOLEAN}
  \union
  {[owner |-> <<2>>, createdAt |-> <<1>>, name |-> "a", type |-> t, value |-> <<v>>,
    indexed |-> TRUE] : t \in {"i32", "u64"}, v \in 1..3}

-----------------------------------------------------------------------------
(* The parser has no state that another component reads, and is no part of *)
(* Records: it parses when part is "queries".                              *)

ASSUME QueryBounds == QueryAssumption

ReadersInit ==
  /\ AllInit
  /\ Init /\ (part # "queries" => vocabulary = CHOOSE v \in Vocabularies : TRUE)

QueryStep == part = "queries" /\ Next /\ UNCHANGED allVars

ReadersNext == (AllNext /\ UNCHANGED vars) \/ QueryStep

ReadersSpec == ReadersInit /\ [][ReadersNext]_<<allVars, vars>>

\* The parser accepts what the grammar of its header derives, gives it that tree
\* and refuses the rest; and the SQL of an accepted query selects the entities
\* the node would, with numbers beyond bigint and prefixes that end in the
\* highest byte (EntityQuery).
QueriesAnswered == part = "queries" => ParsesAsDocumented /\ SelectsAsNode

-----------------------------------------------------------------------------
\* The variables of the component that moves: the others keep the only value they start with.
View ==
  CASE part = "endpoint" -> <<part, endpointVars>>
    [] part = "relay"    -> <<part, relayVars>>
    [] part = "lists"    -> <<part, listVars>>
    [] part = "reads"    -> <<part, readVars>>
    [] part = "top"      -> <<part, topVars>>
    [] part = "guzzlers" -> <<part, boardVars>>
    [] part = "sync"     -> <<part, syncVars>>
    [] part = "sessions" -> <<part, sessionVars>>
    [] part = "queries"  -> <<part, vars>>

\* The two tabs are interchangeable.
Symmetry == Permutations({t1, t2})
=============================================================================
