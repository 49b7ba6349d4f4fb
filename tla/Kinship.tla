------------------------------- MODULE Kinship -------------------------------
(***************************************************************************)
(* The queries that walk the pedigree (internal/query): the ancestor tree  *)
(* and list (pedigree_queries.go), its numbering (ahnentafel_queries.go),  *)
(* the descendant tree (descendancy_queries.go) and the relationship of    *)
(* two persons (relationship_queries.go), as the depth-first searches they *)
(* are, over the pedigree edges of the read model.                         *)
(*                                                                         *)
(* The pedigree grows by one child's parents at a time; parents have       *)
(* larger numbers than their children, which any acyclic pedigree allows   *)
(* (FamilyTree is about keeping it acyclic).                               *)
(*                                                                         *)
(* Not here: persons the edges name and the store does not have, branches, *)
(* names, dates and wording, edges that change while a query runs.         *)
(***************************************************************************)
EXTENDS Integers, FiniteSets, FiniteSetsExt, TLC

CONSTANTS
  Size,               \* bound: the number of persons
  Limits,             \* the numbers of generations that clients ask for
  RelationshipLimit   \* maxRelationshipGenerations

\* What is assumed of the constants; the modules that instantiate this one assert it.
LimitsArePositive == Limits \subseteq 1..10 /\ RelationshipLimit \in Nat

Everyone == 1..Size
Unknown  == 0

VARIABLE parents    \* the pedigree edges: [father, mother]

vars == <<parents>>

NoEdge == [father |-> Unknown, mother |-> Unknown]

\* The partners of the family that a child is linked to; of one parent, the
\* mother is the unknown one (bound).
Couples(c) ==
  {couple \in [father : (c + 1)..Size, mother : ((c + 1)..Size) \union {Unknown}] :
     couple.father # couple.mother}

Init == parents = [p \in Everyone |-> NoEdge]

LinkChild ==
  \E c \in Everyone :
    /\ parents[c] = NoEdge
    /\ \E couple \in Couples(c) : parents' = [parents EXCEPT ![c] = couple]

Next == LinkChild

Spec == Init /\ [][Next]_vars

ParentsOf(p)  == {parents[p].father, parents[p].mother} \ {Unknown}
ChildrenOf(p) == {c \in Everyone : p \in ParentsOf(c)}

-----------------------------------------------------------------------------
(* A search's state is what it has visited and what it has found.          *)

Nothing == [visited |-> {}, nodes |-> {}]

Visit(seen, p, number, generation) ==
  [visited |-> seen.visited \union {p},
   nodes |-> seen.nodes \union {[id |-> p, number |-> number, generation |-> generation]}]

\* Mutant: one generation more than was asked for.
BeyondLimit(generation, maxGen) == generation > maxGen

AtLimit(generation, maxGen) == generation >= maxGen

\* Mutant: the mother gets the father's number.
MotherUnnumbered(number) == 2 * number

MotherNumber(number) == 2 * number + 1

RECURSIVE BuildNode(_, _, _, _, _)
\* buildNode, with the numbers that the Ahnentafel's traverseTree gives the nodes.
BuildNode(p, number, generation, maxGen, seen) ==
  IF p \in {Unknown} \union seen.visited THEN seen
  ELSE LET here == Visit(seen, p, number, generation)
           withFather == BuildNode(parents[p].father, 2 * number, generation + 1, maxGen, here)
       IN  IF AtLimit(generation, maxGen) THEN here
           ELSE BuildNode(parents[p].mother, MotherNumber(number), generation + 1, maxGen, withFather)

Pedigree(p, maxGen) == BuildNode(p, 1, 0, maxGen, Nothing).nodes

RECURSIVE CollectAncestors(_, _, _, _)
\* A parent is listed each time it is met; what is above it, the first time.
CollectAncestors(p, generation, maxGen, seen) ==
  LET Parent(q, found) ==
        IF q = Unknown THEN found
        ELSE CollectAncestors(q, generation + 1, maxGen, [found EXCEPT !.nodes = @ \union {q}])
  IN  IF generation >= maxGen \/ p \in seen.visited THEN seen
      ELSE Parent(parents[p].mother,
             Parent(parents[p].father, [seen EXCEPT !.visited = @ \union {p}]))

Ancestors(p, maxGen) == CollectAncestors(p, 0, maxGen, Nothing).nodes

\* Mutant: the children of a person's second partner are left out.
ChildrenOfFirst(p) ==
  LET children == ChildrenOf(p)
      couple == parents[CHOOSE c \in children : TRUE]
  IN  IF children = {} THEN {} ELSE {c \in children : parents[c] = couple}

\* The children of the families in which a person is a partner.
FamilyChildren(p) == ChildrenOf(p)

RECURSIVE BuildDescendancyNode(_, _, _, _)
\* The children of every family of the person, in an order the stores leave open.
BuildDescendancyNode(p, generation, maxGen, seen) ==
  IF p \in seen.visited THEN seen
  ELSE LET here == Visit(seen, p, 0, generation)
       IN  IF generation >= maxGen THEN here
           ELSE FoldSet(LAMBDA c, found : BuildDescendancyNode(c, generation + 1, maxGen, found),
                        here, FamilyChildren(p))

Descendancy(p, maxGen) == BuildDescendancyNode(p, 0, maxGen, Nothing).nodes

-----------------------------------------------------------------------------
(* The relationship of two persons.                                        *)

RECURSIVE CollectWithPath(_, _, _)
\* The generation of each ancestor: the shortest found, above whom the search
\* has gone the first time only.
CollectWithPath(p, generation, seen) ==
  LET Known(found, q) == q \in DOMAIN found.nodes /\ found.nodes[q] <= generation + 1
      Parent(q, found) ==
        IF q = Unknown THEN found
        ELSE CollectWithPath(q, generation + 1,
               IF Known(found, q) THEN found
               ELSE [found EXCEPT !.nodes = (q :> generation + 1) @@ @])
  IN  IF generation >= RelationshipLimit \/ p \in seen.visited THEN seen
      ELSE Parent(parents[p].mother,
             Parent(parents[p].father, [seen EXCEPT !.visited = @ \union {p}]))

AncestorMap(p) == CollectWithPath(p, 0, [visited |-> {}, nodes |-> <<>>]).nodes

\* Mutant: closer on one side is close enough.
CloserOnOneSide(mapA, mapB, y, x) == mapA[y] < mapA[x] \/ mapB[y] < mapB[x]

\* filterToLowestCommonAncestors: y is closer than x on both sides.
Closer(mapA, mapB, y, x) == mapA[y] < mapA[x] /\ mapB[y] < mapB[x]

FindCommonAncestors(mapA, mapB) ==
  LET common == DOMAIN mapA \intersect DOMAIN mapB
  IN  {x \in common : ~\E y \in common : Closer(mapA, mapB, y, x)}

\* GetRelationship: the common ancestor of each path and its two distances.
GetRelationship(a, b) ==
  LET mapA == AncestorMap(a)
      mapB == AncestorMap(b)
      Path(x, genA, genB) == [ancestor |-> x, genA |-> genA, genB |-> genB]
  IN  IF a = b THEN {Path(a, 0, 0)}
      ELSE {Path(a, 0, mapB[x]) : x \in {a} \intersect DOMAIN mapB}
             \union {Path(b, mapA[x], 0) : x \in {b} \intersect DOMAIN mapA}
             \union {Path(x, mapA[x], mapB[x]) : x \in FindCommonAncestors(mapA, mapB)}

-----------------------------------------------------------------------------
(* Properties.                                                             *)

RECURSIVE DepthsAbove(_)
\* The generations in which x is above q, for every q >= p and every x.
DepthsAbove(p) ==
  IF p > Size THEN <<>>
  ELSE LET above == DepthsAbove(p + 1)
           OfX(x) == IF x = p THEN {0} ELSE {n + 1 : n \in UNION {above[q][x] : q \in ParentsOf(p)}}
       IN  (p :> [x \in Everyone |-> OfX(x)]) @@ above

\* Every line from p to an ancestor is as long: no ancestor in two generations.
Graded(depths, p) == \A x \in Everyone : Cardinality(depths[p][x]) <= 1

\* The person that a number leads to from p.
RECURSIVE Numbered(_, _)
Numbered(p, number) ==
  IF number = 1 THEN p
  ELSE LET below == Numbered(p, number \div 2)
       IN  IF number % 2 = 0 THEN parents[below].father ELSE parents[below].mother

(***************************************************************************)
(* The queries agree on who is an ancestor of whom and how far up: each    *)
(* ancestor tree shows the ancestors within its limit, once, under a       *)
(* number that leads to the person ("Father of person N = 2N, Mother of    *)
(* person N = 2N + 1"), the list names the same persons and the            *)
(* relationship's map the same distances, and the descendant trees of      *)
(* these ancestors show the person.  That is so when no ancestor of either *)
(* is in two generations or no limit cuts a line: the searches do not go   *)
(* above a person twice, even when a later line reaches it lower.          *)
(***************************************************************************)
QueriesAgree ==
  LET depths == DepthsAbove(1) IN
  \A p \in Everyone, limit \in Limits :
    LET tree   == Pedigree(p, limit)
        within == {x \in Everyone \ {p} : \E n \in depths[p][x] : n <= limit}
    IN  (\A q \in Everyone : Graded(depths, q)) \/ limit >= Size =>
          /\ {node.id : node \in tree} = within \union {p}
          /\ Cardinality({node.number : node \in tree}) = Cardinality(within) + 1
          /\ \A node \in tree : Numbered(p, node.number) = node.id
          /\ Ancestors(p, limit) = within
          /\ {x \in Everyone \ {p} : \E node \in Descendancy(x, limit) : node.id = p} = within
          /\ Graded(depths, p) => \A node \in tree : node.id # p => AncestorMap(p)[node.id] = node.generation

(***************************************************************************)
(* Of the common ancestors of two persons that are not each other's, the   *)
(* paths keep the nearest, and none above one they keep ("filter out       *)
(* ancestors of common ancestors"), when the lines to them are as long.    *)
(***************************************************************************)
LowestAreKept ==
  LET depths == DepthsAbove(1) IN
  \A a, b \in Everyone :
    LET Common  == {x \in Everyone : depths[a][x] # {} /\ depths[b][x] # {}}
        Span(x) == (CHOOSE n \in depths[a][x] : TRUE) + (CHOOSE n \in depths[b][x] : TRUE)
        Kept    == {path.ancestor : path \in GetRelationship(a, b)}
    IN  a < b /\ b \notin Common /\ Graded(depths, a) /\ Graded(depths, b) =>
          /\ Kept \subseteq Common
          /\ \A x \in Common : (\A y \in Common : Span(x) <= Span(y)) => x \in Kept
          /\ \A x, y \in Kept : x # y => depths[x][y] = {}
=============================================================================
