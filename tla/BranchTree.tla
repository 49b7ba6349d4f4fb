----------------------------- MODULE BranchTree ------------------------------
(***************************************************************************)
(* A research branch's work on the tree, promoted: persons and families    *)
(* are made, linked, unlinked and deleted on the branch, one request at a  *)
(* time, while main stands still; a merge then replays the branch's events *)
(* onto main stream by stream (internal/command/family_commands.go,        *)
(* person_commands.go, branch_merge_commands.go; the projections of        *)
(* internal/repository/projection.go).  BranchMerge is about what may      *)
(* happen between the steps of a merge, FamilyTree about requests that     *)
(* race; this is about the order in which the events of several streams    *)
(* come to main.                                                           *)
(*                                                                         *)
(* Not here: changes of main meanwhile, names and other fields, a change   *)
(* of a family's partners (FieldChanges), a person's change of gender.     *)
(***************************************************************************)
EXTENDS Integers, FiniteSets, Sequences

CONSTANTS
  Persons, Men,   \* ids of persons; those of male gender
  Families,       \* ids of families
  Nobody,         \* the absent partner
  Branch,         \* the branch's id, the stream of its lifecycle events
  Trees,          \* the trees main may have at the fork
  MaxEvents       \* bound: the events of the branch

VARIABLES
  tree,     \* each line's rows: [people, couple, kids, count, edge]
  log,      \* the branch's events, in position order: [type, stream, arg]
  merged,   \* whether a merge has claimed the branch
  replayed  \* the positions of the log that the merge has brought to main

vars == <<tree, log, merged, replayed>>

NoFamily == <<Nobody, Nobody>>
NoEdge   == [father |-> Nobody, mother |-> Nobody, exists |-> FALSE]

FamiliesOf(t)   == {f \in Families : t.couple[f] # NoFamily}
Partners(t, f)  == {t.couple[f][1], t.couple[f][2]} \ {Nobody}
ParentsOf(t, p) == UNION {Partners(t, f) : f \in {g \in Families : <<g, p>> \in t.kids}}

\* isAncestor: everyone reached upwards from the family's partners, themselves included.
Above(t, f) ==
  LET up[n \in 0..Cardinality(Persons)] ==
        IF n = 0 THEN Partners(t, f) ELSE up[n - 1] \union UNION {ParentsOf(t, q) : q \in up[n - 1]}
  IN  up[Cardinality(Persons)]

\* What is assumed of the constants.
IdsApart ==
  /\ Persons \intersect Families = {}
  /\ Nobody \notin Persons /\ Branch \notin Persons \union Families

Edges == [father : Persons \union {Nobody}, mother : Persons \union {Nobody}, exists : BOOLEAN]

Rows ==
  [people : SUBSET Persons,
   couple : [Families -> (Persons \union {Nobody}) \X (Persons \union {Nobody})],
   kids   : SUBSET (Families \X Persons),
   count  : [Families -> Nat],
   edge   : [Persons -> Edges]]

\* Partners exist, and children are children of families that exist.
Whole(t) ==
  /\ \A f \in Families : Partners(t, f) \subseteq t.people
  /\ \A k \in t.kids : k[1] \in FamiliesOf(t)

TreesWhole == \A t \in Trees : t \in Rows /\ Whole(t)

ASSUME IdsAreApart == IdsApart
ASSUME TreesAreWhole == TreesWhole

-----------------------------------------------------------------------------
(* The projections.                                                        *)

EdgeTo(t, f) ==
  LET p1 == t.couple[f][1]
      p2 == t.couple[f][2]
      Fathers == {p1, p2} \intersect t.people \intersect Men
      Mothers == ({p1, p2} \intersect t.people) \ Men
      Later(S) == IF S = {} THEN Nobody ELSE IF p2 \in S THEN p2 ELSE p1
  IN  [father |-> Later(Fathers), mother |-> Later(Mothers), exists |-> TRUE]

\* A link to a family without a row saves the child's row alone.
ChildLinked(t, f, p) ==
  LET linked == [t EXCEPT !.kids = @ \union {<<f, p>>}]
  IN  IF f \in FamiliesOf(t)
      THEN [linked EXCEPT !.edge[p] = EdgeTo(t, f), !.count[f] = @ + 1]
      ELSE linked

\* The pedigree edge goes, whichever family drew it.
ChildUnlinked(t, f, p) ==
  [t EXCEPT !.kids = @ \ {<<f, p>>}, !.edge[p] = NoEdge, !.count[f] = IF @ > 0 THEN @ - 1 ELSE @]

FamilyDeleted(t, f) ==
  [t EXCEPT !.couple[f] = NoFamily, !.count[f] = 0,
            !.kids = {k \in @ : k[1] # f},
            !.edge = [p \in Persons |-> IF <<f, p>> \in t.kids THEN NoEdge ELSE @[p]]]

PersonDeleted(t, p) ==
  [t EXCEPT !.people = @ \ {p}, !.kids = {k \in @ : k[2] # p}, !.edge[p] = NoEdge]

Project(t, e) ==
  CASE e.type = "PersonCreated"  -> [t EXCEPT !.people = @ \union {e.stream}]
    [] e.type = "PersonDeleted"  -> PersonDeleted(t, e.stream)
    [] e.type = "FamilyCreated"  -> [t EXCEPT !.couple[e.stream] = e.arg, !.count[e.stream] = 0]
    [] e.type = "FamilyDeleted"  -> FamilyDeleted(t, e.stream)
    [] e.type = "ChildLinked"    -> ChildLinked(t, e.stream, e.arg)
    [] e.type = "ChildUnlinked"  -> ChildUnlinked(t, e.stream, e.arg)
    [] OTHER                     -> t

-----------------------------------------------------------------------------
(* The branch's commands.                                                  *)

Here == tree["branch"]

\* An id is fresh on the branch if nobody has written its stream.
Unborn(i) == i \notin Here.people /\ \A n \in DOMAIN log : log[n].stream # i

Init ==
  /\ \E t \in Trees : tree = [line \in {"main", "branch"} |-> t]
  /\ log = <<[type |-> "BranchCreated", stream |-> Branch, arg |-> Nobody]>>
  /\ merged = FALSE /\ replayed = {}

Write(type, stream, arg) ==
  /\ ~merged /\ Len(log) < MaxEvents
  /\ LET e == [type |-> type, stream |-> stream, arg |-> arg]
     IN  log' = Append(log, e) /\ tree' = [tree EXCEPT !["branch"] = Project(@, e)]
  /\ UNCHANGED <<merged, replayed>>

CreatePerson == \E p \in Persons : Unborn(p) /\ Write("PersonCreated", p, Nobody)

\* The fields that stay out of the tree.
UpdatePerson == \E p \in Here.people : Write("PersonUpdated", p, Nobody)
UpdateFamily == \E f \in FamiliesOf(Here) : Write("FamilyUpdated", f, Nobody)

DeletePerson ==
  \E p \in Here.people :
    /\ ParentsOf(Here, p) = {}
    /\ \A f \in FamiliesOf(Here) : p \notin Partners(Here, f)
    /\ Write("PersonDeleted", p, Nobody)

CreateFamily ==
  \E f \in Families, p \in Here.people, q \in Here.people \union {Nobody} :
    /\ Here.couple[f] = NoFamily /\ Unborn(f) /\ p # q
    /\ Write("FamilyCreated", f, <<p, q>>)

DeleteFamily ==
  \E f \in FamiliesOf(Here) :
    /\ \A p \in Persons : <<f, p>> \notin Here.kids
    /\ Write("FamilyDeleted", f, Nobody)

LinkChild ==
  \E f \in FamiliesOf(Here), p \in Here.people :
    /\ ParentsOf(Here, p) = {}
    /\ p \notin Above(Here, f)
    /\ Write("ChildLinked", f, p)

UnlinkChild ==
  \E k \in Here.kids : Write("ChildUnlinked", k[1], k[2])

-----------------------------------------------------------------------------
(* The merge, which claims the branch and then replays its events.         *)

\* Mutant: what deletes is taken for the branch's own lifecycle.
GenealogyWithoutDeletes ==
  {n \in DOMAIN log : log[n].type \notin {"BranchCreated", "PersonDeleted", "FamilyDeleted"}}

Genealogy == {n \in DOMAIN log : log[n].type # "BranchCreated"}

\* The groups keep the order in which the branch first touched their streams.
TouchedBefore(s, u) ==
  \E m \in Genealogy : log[m].stream = s /\ \A n \in Genealogy : log[n].stream = u => m < n

\* Mutant: a stream's events are put before those already in its group.
BeforeInReverse(m, n) ==
  IF log[m].stream = log[n].stream THEN m > n ELSE TouchedBefore(log[m].stream, log[n].stream)

Before(m, n) ==
  IF log[m].stream = log[n].stream THEN m < n ELSE TouchedBefore(log[m].stream, log[n].stream)

ClaimMerge ==
  /\ ~merged /\ merged' = TRUE
  /\ UNCHANGED <<tree, log, replayed>>

ReplayEvent ==
  \E n \in Genealogy \ replayed :
    /\ merged
    /\ \A m \in Genealogy \ replayed : ~Before(m, n)
    /\ replayed' = replayed \union {n}
    /\ tree' = [tree EXCEPT !["main"] = Project(@, log[n])]
    /\ UNCHANGED <<log, merged>>

Next ==
  \/ CreatePerson \/ UpdatePerson \/ DeletePerson
  \/ CreateFamily \/ UpdateFamily \/ DeleteFamily
  \/ LinkChild \/ UnlinkChild
  \/ ClaimMerge \/ ReplayEvent

Spec == Init /\ [][Next]_vars

-----------------------------------------------------------------------------
(* Properties.                                                             *)

Promoted == merged /\ replayed = Genealogy

Moved(p) == \E n \in DOMAIN log : log[n].type = "ChildUnlinked" /\ log[n].arg = p

(***************************************************************************)
(* After the merge main has the branch's persons, families, child rows and *)
(* numbers of children, though the events of different streams come in     *)
(* another order than the branch had them, and the branch's pedigree edges *)
(* for whoever it has not taken out of a family ("A merge is the replay of *)
(* a branch's own entity/domain mutation events onto main").               *)
(***************************************************************************)
TreeIsPromoted ==
  Promoted =>
    LET main == tree["main"] branch == tree["branch"] IN
    /\ main.people = branch.people /\ main.couple = branch.couple
    /\ main.kids = branch.kids /\ main.count = branch.count
    /\ \A p \in Persons : ~Moved(p) => main.edge[p] = branch.edge[p]

(***************************************************************************)
(* After the merge main has all of the branch's pedigree edges: not so     *)
(* when a child's new family was touched before the one it left.           *)
(***************************************************************************)
EdgesArePromoted ==
  Promoted => tree["main"].edge = tree["branch"].edge
=============================================================================
