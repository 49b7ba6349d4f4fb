----------------------------- MODULE FamilyTree ------------------------------
(***************************************************************************)
(* The commands that shape the tree on the mainline, as concurrent         *)
(* requests: families, their children and the merging of two persons       *)
(* (internal/command/family_commands.go, merge_commands.go, DeletePerson;  *)
(* the projections of internal/repository/projection.go; the cascades of   *)
(* memory/readmodel.go).                                                   *)
(*                                                                         *)
(* A request checks the read model, then appends one event to one stream   *)
(* and projects it.  Optimistic concurrency guards that one stream only:   *)
(* what was read of any other aggregate may have changed.  The append and  *)
(* the projection are one step here; CommandExec separates them.           *)
(*                                                                         *)
(* A row's version is its stream's version as long as the row exists, so   *)
(* one `version' stands for both.  A version a client sends is either the  *)
(* row's or refused, so requests are begun with the row's.                 *)
(*                                                                         *)
(* Not here: names, citations, media and the rest of what a merge carries  *)
(* over, relationship types and dates.                                     *)
(***************************************************************************)
EXTENDS Integers, FiniteSets

CONSTANTS
  Persons,      \* the persons there are to begin with
  Men,          \* those of them whose gender is male
  Families,     \* ids for families
  Nobody,       \* the absent partner, and the absent child family
  Slots,        \* request slots
  Settings,     \* what a behaviour may be bounded to, see `setting'
  MaxVersion    \* bound: the version no stream passes

ASSUME NobodyApart == Nobody \notin Persons \union Families

\* Ids are UUIDs of their own, and there are finitely many.
ASSUME StreamsApart == Persons \intersect Families = {}
ASSUME FinitelyMany == IsFiniteSet(Persons) /\ IsFiniteSet(Slots) /\ MaxVersion \in Nat

\* Someone or nobody, twice.
Pair == (Persons \union {Nobody}) \X (Persons \union {Nobody})

ASSUME SettingsAssumption ==
  \A s \in Settings : s.slots \subseteq Slots /\ s.people \subseteq Persons /\ s.couples \subseteq Pair

VARIABLES
  setting,   \* the request slots and commands in use, the first persons and
             \* the couples that clients ask for: [slots, kinds, people, couples]
  people,    \* person rows
  families,  \* family rows
  couple,    \* each family's two partners
  count,     \* each family row's denormalized number of children
  kids,      \* child rows: pairs of a family and a person
  edge,      \* each person's pedigree edge: father and mother, or NoEdge
  version,   \* each stream's version; 0 before its first event
  req        \* what each request slot has decided to write

vars == <<setting, people, families, couple, count, kids, edge, version, req>>
rows == <<people, families, couple, count, kids, edge>>

Idle   == [do |-> "idle"]
NoEdge == [father |-> Nobody, mother |-> Nobody, exists |-> FALSE]

Init ==
  /\ setting \in Settings
  /\ people = setting.people /\ families = {} /\ kids = {}
  /\ couple = [f \in Families |-> <<Nobody, Nobody>>]
  /\ count = [f \in Families |-> 0]
  /\ edge = [p \in Persons |-> NoEdge]
  /\ version = [s \in Persons \union Families |-> IF s \in setting.people THEN 1 ELSE 0]
  /\ req = [c \in Slots |-> Idle]

-----------------------------------------------------------------------------
(* What the checks read.                                                   *)

Partners(f) == {couple[f][1], couple[f][2]} \ {Nobody}

\* The families GetChildFamily may answer with: the one found first.
ChildFamilies(p) == {f \in families : <<f, p>> \in kids}

\* One answer per person; there is a choice only for a child of two families.
Answers ==
  {a \in [Persons -> Families \union {Nobody}] :
     \A p \in Persons : IF ChildFamilies(p) = {} THEN a[p] = Nobody ELSE a[p] \in ChildFamilies(p)}

\* One generation up, under the answers `a'.
Parents(a, p) == IF a[p] = Nobody THEN {} ELSE Partners(a[p])

\* A set of persons that has the parents of everyone in it.
Closed(a, S) == \A q \in S : Parents(a, q) \subseteq S

\* Everyone reached upwards from p, p itself included: those in every closed set with p.
Line(a, p) == {q \in Persons : \A S \in SUBSET Persons : p \in S /\ Closed(a, S) => q \in S}

\* isAncestor: q is p or above p.
IsAncestor(a, q, p) == q \in Line(a, p)

\* isAncestor recurses without a guard: above a cycle it may never return.
Returns(a, p) ==
  \A q \in Line(a, p) : \A parent \in Parents(a, q) : ~IsAncestor(a, q, parent)

-----------------------------------------------------------------------------
(* Requests decide.                                                        *)

Decide(c, do, stream, expected, arg) ==
  req' = [req EXCEPT ![c] =
            [do |-> do, stream |-> stream, expected |-> expected, arg |-> arg]]

Ready(c, do) == do \in setting.kinds /\ req[c] = Idle

\* A family gets a fresh id, so nothing is expected of its stream.
Fresh(f) == version[f] = 0 /\ \A c \in Slots : req[c] # Idle => req[c].stream # f

CreateFamily(c) ==
  /\ Ready(c, "create")
  /\ \E f \in Families, pair \in setting.couples :
       /\ Fresh(f)
       /\ pair # <<Nobody, Nobody>> /\ pair[1] # pair[2]
       /\ {pair[1], pair[2]} \ {Nobody} \subseteq people
       /\ Decide(c, "create", f, -1, pair)
  /\ UNCHANGED <<rows, version>>

\* UpdateFamily checks nothing of the partners it is given: any of the two
\* places, or none when only dates or the like change.
UpdateFamily(c) ==
  /\ Ready(c, "update")
  /\ \E f \in families, places \in SUBSET {1, 2} : Decide(c, "update", f, version[f], places)
  /\ UNCHANGED <<rows, version>>

\* Mutant: only the partners themselves are compared, not their ancestors.
ClosesNoCycleShallow(a, f, p) == p \notin Partners(f)

\* The child is neither a partner of the family nor an ancestor of one.
ClosesNoCycle(a, f, p) ==
  \A partner \in Partners(f) : Returns(a, partner) /\ ~IsAncestor(a, p, partner)

\* Mutant: the child's other families are not looked up.
HasNoFamilyUnchecked(p) == TRUE

HasNoFamily(p) == ChildFamilies(p) = {}

\* Mutant: a family's events are appended without an expected version.
FamilyExpectsAnything(f) == -1

\* LinkChild and UnlinkChild expect the version of the family row they read.
FamilyExpects(f) == version[f]

LinkChild(c) ==
  /\ Ready(c, "link")
  /\ \E f \in families, p \in people :
       /\ HasNoFamily(p)
       /\ \E a \in Answers : ClosesNoCycle(a, f, p)
       /\ Decide(c, "link", f, FamilyExpects(f), p)
  /\ UNCHANGED <<rows, version>>

UnlinkChild(c) ==
  /\ Ready(c, "unlink")
  /\ \E f \in families, p \in Persons :
       /\ f \in ChildFamilies(p)
       /\ Decide(c, "unlink", f, FamilyExpects(f), p)
  /\ UNCHANGED <<rows, version>>

\* GetChildrenOfFamily lists the children whose person rows exist.
DeleteFamily(c) ==
  /\ Ready(c, "drop")
  /\ \E f \in families :
       /\ \A p \in people : <<f, p>> \notin kids
       /\ Decide(c, "drop", f, version[f], Nobody)
  /\ UNCHANGED <<rows, version>>

\* Mutant: only the families the person is a child of keep it.
UnlinkedChildOnly(p) == ChildFamilies(p) = {}

\* No family has the person as a partner or as a child.
Unlinked(p) == ChildFamilies(p) = {} /\ \A f \in families : p \notin Partners(f)

DeletePerson(c) ==
  /\ Ready(c, "delete")
  /\ \E p \in people : Unlinked(p) /\ Decide(c, "delete", p, version[p], Nobody)
  /\ UNCHANGED <<rows, version>>

\* MergePersons: the event goes to the survivor's stream alone.
MergePersons(c) ==
  /\ Ready(c, "merge")
  /\ \E survivor, merged \in people, a \in Answers :
       /\ survivor # merged
       /\ Returns(a, survivor) /\ Returns(a, merged)
       /\ ~IsAncestor(a, merged, survivor) /\ ~IsAncestor(a, survivor, merged)
       /\ a[survivor] = Nobody \/ a[merged] = Nobody \/ a[survivor] = a[merged]
       /\ Decide(c, "merge", survivor, version[survivor], merged)
  /\ UNCHANGED <<rows, version>>

-----------------------------------------------------------------------------
(* Requests append and project.                                            *)

Accepted(c) == req[c].expected < 0 \/ req[c].expected = version[req[c].stream]

Refuse(c) ==
  /\ req[c] # Idle /\ ~Accepted(c)
  /\ req' = [req EXCEPT ![c] = Idle]
  /\ UNCHANGED <<rows, version>>

Append(c, do) ==
  /\ req[c].do = do /\ Accepted(c)
  /\ version[req[c].stream] < MaxVersion
  /\ version' = [version EXCEPT ![req[c].stream] = @ + 1]
  /\ req' = [req EXCEPT ![c] = Idle]

FamilyCreated(c) ==
  LET f == req[c].stream IN
  /\ Append(c, "create")
  /\ families' = families \union {f}
  /\ couple' = [couple EXCEPT ![f] = req[c].arg]
  /\ UNCHANGED <<people, count, kids, edge>>

\* resolvePartnerChange takes strings and the command's event holds ids: a
\* partner that is given leaves its place empty until a rebuild.
Cleared(pair, places) ==
  <<IF 1 \in places THEN Nobody ELSE pair[1], IF 2 \in places THEN Nobody ELSE pair[2]>>

FamilyUpdated(c) ==
  LET f == req[c].stream IN
  /\ Append(c, "update")
  /\ couple' = IF f \in families THEN [couple EXCEPT ![f] = Cleared(@, req[c].arg)] ELSE couple
  /\ UNCHANGED <<people, families, count, kids, edge>>

(***************************************************************************)
(* The edge a link draws: a male partner is the father, any other is the   *)
(* mother, the second partner last; a partner without a row is left out.   *)
(***************************************************************************)
EdgeTo(f) ==
  LET p1 == couple[f][1]
      p2 == couple[f][2]
      Fathers == {p1, p2} \intersect people \intersect Men
      Mothers == ({p1, p2} \intersect people) \ Men
      Later(S) == IF S = {} THEN Nobody ELSE IF p2 \in S THEN p2 ELSE p1
  IN  [father |-> Later(Fathers), mother |-> Later(Mothers), exists |-> TRUE]

\* Mutant: the count moves the wrong way.
CountedDown(n) == n - 1

Counted(n) == n + 1

ChildLinked(c) ==
  LET f == req[c].stream
      p == req[c].arg
  IN  /\ Append(c, "link")
      /\ kids' = kids \union {<<f, p>>}
      /\ IF f \in families
         THEN edge' = [edge EXCEPT ![p] = EdgeTo(f)] /\ count' = [count EXCEPT ![f] = Counted(@)]
         ELSE UNCHANGED <<edge, count>>
      /\ UNCHANGED <<people, families, couple>>

ChildUnlinked(c) ==
  LET f == req[c].stream
      p == req[c].arg
  IN  /\ Append(c, "unlink")
      /\ kids' = kids \ {<<f, p>>}
      /\ edge' = [edge EXCEPT ![p] = NoEdge]
      /\ count' = IF f \in families /\ count[f] > 0 THEN [count EXCEPT ![f] = @ - 1] ELSE count
      /\ UNCHANGED <<people, families, couple>>

FamilyDeleted(c) ==
  LET f == req[c].stream IN
  /\ Append(c, "drop")
  /\ families' = families \ {f}
  /\ kids' = {k \in kids : k[1] # f}
  /\ edge' = [p \in Persons |-> IF <<f, p>> \in kids THEN NoEdge ELSE edge[p]]
  /\ UNCHANGED <<people, couple, count>>

\* The store's cascade: the person's edge and child rows go, no count changes.
PersonDeleted(c) ==
  LET p == req[c].stream IN
  /\ Append(c, "delete")
  /\ people' = people \ {p}
  /\ kids' = {k \in kids : k[2] # p}
  /\ edge' = [edge EXCEPT ![p] = NoEdge]
  /\ UNCHANGED <<families, couple, count>>

\* Mutant: a survivor that becomes a child gets no pedigree edge.
InheritedEdgeForgotten(own, merged) == own

\* A survivor that becomes a child takes over the merged person's edge.
InheritedEdge(own, merged) == edge[merged]

(***************************************************************************)
(* projectPersonMerged, with the cascade that ends it: the survivor takes  *)
(* the merged person's place as a partner, and as a child if it has no     *)
(* family of its own.  Children of the merged person keep their edges.     *)
(* When the survivor's row is gone the projection does nothing.            *)
(***************************************************************************)
PersonMerged(c) ==
  LET survivor == req[c].stream
      merged   == req[c].arg
      Inst(p)  == IF p = merged THEN survivor ELSE p
      others   == {k \in kids : k[2] # merged}
      moves    == edge[merged].exists /\ ChildFamilies(merged) # {} /\ HasNoFamily(survivor)
  IN  /\ Append(c, "merge")
      /\ IF survivor \in people
         THEN /\ people' = people \ {merged}
              /\ couple' = [f \in Families |->
                              IF f \in families THEN <<Inst(couple[f][1]), Inst(couple[f][2])>>
                              ELSE couple[f]]
              /\ IF moves
                 THEN \E f \in ChildFamilies(merged) : kids' = others \union {<<f, survivor>>}
                 ELSE kids' = others
              /\ edge' = [edge EXCEPT ![survivor] = IF moves THEN InheritedEdge(@, merged) ELSE @,
                                      ![merged] = NoEdge]
         ELSE UNCHANGED <<people, couple, kids, edge>>
      /\ UNCHANGED <<families, count>>

-----------------------------------------------------------------------------
Step(c) ==
  \/ CreateFamily(c) \/ UpdateFamily(c) \/ LinkChild(c) \/ UnlinkChild(c)
  \/ DeleteFamily(c) \/ DeletePerson(c) \/ MergePersons(c)
  \/ FamilyCreated(c) \/ FamilyUpdated(c) \/ ChildLinked(c) \/ ChildUnlinked(c)
  \/ FamilyDeleted(c) \/ PersonDeleted(c) \/ PersonMerged(c)
  \/ Refuse(c)

Next == UNCHANGED setting /\ \E c \in setting.slots : Step(c)

Spec == Init /\ [][Next]_vars

-----------------------------------------------------------------------------
(* Properties.                                                             *)

\* One request at a time.
Guarded == Cardinality(setting.slots) = 1

\* The partners of every family that p is a child of.
AllParents(p) == UNION {Partners(f) : f \in ChildFamilies(p)}

\* p's parents, their parents, and so on.
Ancestors(p) ==
  {q \in Persons : \A S \in SUBSET Persons :
     AllParents(p) \subseteq S /\ (\A x \in S : AllParents(x) \subseteq S) => q \in S}

(***************************************************************************)
(* Nobody is their own ancestor along any child rows (LinkChild's          *)
(* "circular ancestry detection", MergePersons's ErrCircularMerge).        *)
(***************************************************************************)
NoCycle == Guarded => \A p \in Persons : p \notin Ancestors(p)

(***************************************************************************)
(* No child row is left of a family that is gone, however links and        *)
(* deletions of the family race; and one by one, no family keeps a partner *)
(* or child without a person row (ErrPersonHasFamilies, DeleteFamily, a    *)
(* merge's hand-over).                                                     *)
(***************************************************************************)
NothingDangles ==
  /\ \A k \in kids : k[1] \in families
  /\ Guarded => /\ \A f \in families : Partners(f) \subseteq people
                /\ \A k \in kids : k[2] \in people

\* A cascade takes child rows without counting them: a merge's, and that of a
\* person's deletion that a link has overtaken.
Counting ==
  /\ "merge" \notin setting.kinds
  /\ "delete" \in setting.kinds => Cardinality(setting.slots) = 1

(***************************************************************************)
(* The denormalized number of children is the number of child rows, as     *)
(* long as no cascade takes a child row uncounted (projectChildLinked,     *)
(* projectChildUnlinked, projectPersonMerged, projectPersonDeleted).       *)
(***************************************************************************)
ChildCountMatches ==
  Counting =>
    \A f \in families : count[f] = Cardinality({p \in Persons : <<f, p>> \in kids})

(***************************************************************************)
(* A person is a child of one family at most (ErrChildAlreadyLinked), and  *)
(* has a pedigree edge exactly when they are, across unlinks, deletions    *)
(* and merges that hand the edge over (projectPersonMerged).               *)
(***************************************************************************)
EdgeIffChild ==
  Guarded => \A p \in Persons : /\ Cardinality(ChildFamilies(p)) <= 1
                                /\ edge[p].exists <=> ChildFamilies(p) # {}

=============================================================================
