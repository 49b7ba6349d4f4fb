-------------------------- MODULE FamilyTree_proofs --------------------------
(***************************************************************************)
(* Proofs about FamilyTree: child rows, their families, their number and   *)
(* the pedigree edges, for every number of persons, families and requests. *)
(***************************************************************************)
EXTENDS FamilyTree, FiniteSetTheorems, TLAPS

Edge == [father : Persons \union {Nobody}, mother : Persons \union {Nobody}, exists : BOOLEAN]

Request ==
  [do : {"create"}, stream : Families, expected : Int, arg : Pair]
    \union [do : {"update"}, stream : Families, expected : Int, arg : SUBSET {1, 2}]
    \union [do : {"link", "unlink"}, stream : Families, expected : Int, arg : Persons]
    \union [do : {"drop"}, stream : Families, expected : Int, arg : {Nobody}]
    \union [do : {"delete"}, stream : Persons, expected : Int, arg : {Nobody}]
    \union [do : {"merge"}, stream : Persons, expected : Int, arg : Persons]

TypeOK ==
  /\ setting \in Settings
  /\ people \in SUBSET Persons
  /\ families \in SUBSET Families
  /\ couple \in [Families -> Pair]
  /\ count \in [Families -> Int]
  /\ kids \in SUBSET (Families \X Persons)
  /\ edge \in [Persons -> Edge]
  /\ version \in [Persons \union Families -> Nat]
  /\ req \in [Slots -> {Idle} \union Request]

-----------------------------------------------------------------------------
(* What holds however requests race.                                       *)

Pending(c, do) == req[c] # Idle /\ req[c].do = do

\* The version the request expects is still the stream's.
Current(c) == req[c].expected = version[req[c].stream]

\* Requests are those of the setting.
RequestsInUse ==
  \A c \in Slots : req[c] # Idle => c \in setting.slots /\ req[c].do \in setting.kinds

KidsHaveFamily == \A f \in Families, p \in Persons : <<f, p>> \in kids => f \in families

\* A family row is there only after its first event, and is counted only then.
FamilyHasVersion ==
  \A f \in Families : /\ f \in families => version[f] > 0
                      /\ version[f] = 0 => count[f] = 0

\* A family to be created is new, and this request is the only one that knows it.
CreatesFresh ==
  \A c \in Slots : Pending(c, "create") =>
    /\ version[req[c].stream] = 0
    /\ \A d \in Slots : d # c /\ req[d] # Idle => req[d].stream # req[c].stream

(***************************************************************************)
(* A request on a family expects a version the family has or has had, and  *)
(* while it is the family's version the family is there.  That is what a   *)
(* family's optimistic concurrency guards.                                 *)
(***************************************************************************)
FamilyGuarded ==
  \A c \in Slots, do \in {"update", "link", "unlink", "drop"} : Pending(c, do) =>
    /\ req[c].expected >= 0 /\ req[c].expected <= version[req[c].stream]
    /\ Current(c) => req[c].stream \in families

RaceInv ==
  /\ RequestsInUse /\ KidsHaveFamily /\ FamilyHasVersion /\ CreatesFresh /\ FamilyGuarded

-----------------------------------------------------------------------------
(* What holds of the count, as long as no cascade takes child rows.        *)

ChildrenOf(f) == {p \in Persons : <<f, p>> \in kids}

CountInv ==
  Counting =>
    /\ \A f \in families : count[f] = Cardinality(ChildrenOf(f))
    /\ \A c \in Slots :
         /\ Pending(c, "link") /\ Current(c) => <<req[c].stream, req[c].arg>> \notin kids
         /\ Pending(c, "unlink") /\ Current(c) => <<req[c].stream, req[c].arg>> \in kids
         /\ Pending(c, "delete") => \A f \in Families : <<f, req[c].stream>> \notin kids

-----------------------------------------------------------------------------
(* What holds when requests come one at a time.                            *)

NobodyMissing ==
  /\ \A f \in families : Partners(f) \subseteq people
  /\ \A f \in Families, p \in Persons : <<f, p>> \in kids => p \in people

OneFamilyEach ==
  \A p \in Persons, f, g \in Families : <<f, p>> \in kids /\ <<g, p>> \in kids => f = g

EdgeWithFamily ==
  \A p \in Persons : edge[p].exists <=> \E f \in Families : <<f, p>> \in kids

\* The request in hand was decided in this very state.
StillDecided ==
  \A c \in Slots :
    /\ Pending(c, "create") => {req[c].arg[1], req[c].arg[2]} \ {Nobody} \subseteq people
    /\ Pending(c, "link") => req[c].arg \in people /\ HasNoFamily(req[c].arg)
    /\ Pending(c, "unlink") => <<req[c].stream, req[c].arg>> \in kids
    /\ Pending(c, "delete") => Unlinked(req[c].stream)
    /\ Pending(c, "merge") => req[c].arg \in people /\ req[c].stream \in people /\ req[c].arg # req[c].stream

GuardedInv ==
  Guarded => /\ NobodyMissing /\ OneFamilyEach /\ EdgeWithFamily /\ StillDecided

-----------------------------------------------------------------------------
(* What holds of lines of descent when requests come one at a time.        *)

\* R is a strict order that has every parent of `up' above the child.
Orders(R, up) ==
  /\ \A x \in Persons : <<x, x>> \notin R
  /\ \A x, y, z \in Persons : <<x, y>> \in R /\ <<y, z>> \in R => <<x, z>> \in R
  /\ \A p \in Persons : \A q \in up[p] : <<p, q>> \in R

Acyclic(up) == \E R : Orders(R, up)

\* Everyone's parents, and the sets that have the parents of everyone in them.
AllUp == [p \in Persons |-> AllParents(p)]
ClosedUp(up, L) == L \subseteq Persons /\ \A x \in L : up[x] \subseteq L

\* The links and merges that LinkChild and MergePersons would find no cycle in.
LinkIsApart(f, p)  == \E a \in Answers : ClosesNoCycle(a, f, p)
MergeIsApart(s, m) == \E a \in Answers : ~IsAncestor(a, m, s) /\ ~IsAncestor(a, s, m)
ApartLinks  == {e \in Families \X Persons : LinkIsApart(e[1], e[2])}
ApartMerges == {e \in Persons \X Persons : MergeIsApart(e[1], e[2])}

StillApart ==
  \A c \in Slots : /\ Pending(c, "link") => <<req[c].stream, req[c].arg>> \in ApartLinks
                   /\ Pending(c, "merge") => <<req[c].stream, req[c].arg>> \in ApartMerges

LineInv == Guarded => Acyclic(AllUp) /\ StillApart

IInv == TypeOK /\ RaceInv /\ CountInv /\ GuardedInv /\ LineInv

-----------------------------------------------------------------------------
(* Requests and their records.                                             *)

(***************************************************************************)
(* A slot that does something holds a request, and the kind of command     *)
(* says what its stream and its argument are.                              *)
(***************************************************************************)
LEMMA RequestShape ==
  ASSUME TypeOK, NEW c \in Slots, req[c] # Idle
  PROVE  /\ req[c] \in Request
         /\ req[c].do = "create" => req[c].stream \in Families /\ req[c].arg \in Pair
         /\ req[c].do = "update" => req[c].stream \in Families
         /\ req[c].do \in {"link", "unlink"} => req[c].stream \in Families /\ req[c].arg \in Persons
         /\ req[c].do = "drop" => req[c].stream \in Families
         /\ req[c].do = "delete" => req[c].stream \in Persons
         /\ req[c].do = "merge" => req[c].stream \in Persons /\ req[c].arg \in Persons
         /\ req[c].stream \in Persons \union Families
         /\ req[c].expected \in Int
  BY DEF TypeOK, Request

(***************************************************************************)
(* A request's own command tells it from an idle slot.                     *)
(***************************************************************************)
LEMMA DoingIsNotIdle ==
  ASSUME NEW c, req[c].do \in {"create", "update", "link", "unlink", "drop", "delete", "merge"}
  PROVE  req[c] # Idle
  BY DEF Idle

(***************************************************************************)
(* Deciding fills one slot with a request and leaves the others.           *)
(***************************************************************************)
LEMMA DecideStep ==
  ASSUME TypeOK, NEW c \in Slots, NEW do, NEW s, NEW v, NEW arg,
         Decide(c, do, s, v, arg),
         [do |-> do, stream |-> s, expected |-> v, arg |-> arg] \in Request
  PROVE  /\ req' \in [Slots -> {Idle} \union Request]
         /\ req'[c] # Idle
         /\ req'[c].do = do /\ req'[c].stream = s /\ req'[c].expected = v /\ req'[c].arg = arg
         /\ \A d \in Slots : d # c => req'[d] = req[d]
<1>1. req' = [req EXCEPT ![c] = [do |-> do, stream |-> s, expected |-> v, arg |-> arg]]
  BY DEF Decide
<1>2. req'[c] = [do |-> do, stream |-> s, expected |-> v, arg |-> arg]
  BY <1>1 DEF TypeOK
<1>3. do # "idle"
  BY DEF Request
<1> QED
  BY <1>1, <1>2, <1>3 DEF TypeOK, Idle

(***************************************************************************)
(* An append moves its stream's version by one, was accepted at it, and    *)
(* frees its slot.                                                         *)
(***************************************************************************)
LEMMA AppendStep ==
  ASSUME TypeOK, NEW c \in Slots,
         NEW do \in {"create", "update", "link", "unlink", "drop", "delete", "merge"},
         Append(c, do)
  PROVE  /\ req[c] # Idle /\ req[c].do = do /\ Pending(c, do)
         /\ req[c].expected < 0 \/ Current(c)
         /\ version' \in [Persons \union Families -> Nat]
         /\ version'[req[c].stream] = version[req[c].stream] + 1
         /\ \A s \in Persons \union Families : s # req[c].stream => version'[s] = version[s]
         /\ req' \in [Slots -> {Idle} \union Request]
         /\ req'[c] = Idle
         /\ \A d \in Slots : d # c => req'[d] = req[d]
<1>1. req[c] # Idle /\ req[c].do = do
  BY DoingIsNotIdle DEF Append
<1>2. req[c].stream \in Persons \union Families
  BY <1>1, RequestShape
<1>3. version' = [version EXCEPT ![req[c].stream] = @ + 1] /\ req' = [req EXCEPT ![c] = Idle]
  BY DEF Append
<1>4. req[c].expected < 0 \/ Current(c)
  BY DEF Append, Accepted, Current
<1> QED
  BY <1>1, <1>2, <1>3, <1>4 DEF TypeOK, Pending

(***************************************************************************)
(* Clearing places leaves a pair, of whom it had.                          *)
(***************************************************************************)
LEMMA ClearedTakes ==
  ASSUME NEW pair \in Pair, NEW places
  PROVE  /\ Cleared(pair, places) \in Pair
         /\ \A i \in {1, 2} : Cleared(pair, places)[i] \in {pair[1], pair[2], Nobody}
  BY DEF Cleared, Pair

(***************************************************************************)
(* An update gives no family a partner it did not have.                    *)
(***************************************************************************)
LEMMA UpdateTakes ==
  ASSUME TypeOK, NEW c \in Slots, FamilyUpdated(c)
  PROVE  \A f \in families : Partners(f)' \subseteq Partners(f)
<1> SUFFICES ASSUME NEW f \in families PROVE Partners(f)' \subseteq Partners(f)
  OBVIOUS
<1>1. f \in Families /\ couple[f] \in Pair
  BY DEF TypeOK
<1>2. couple'[f] = couple[f] \/ couple'[f] = Cleared(couple[f], req[c].arg)
  BY <1>1 DEF FamilyUpdated, TypeOK
<1> QED
  BY <1>1, <1>2, ClearedTakes DEF Partners

(***************************************************************************)
(* Every step of a request keeps the types.                                *)
(***************************************************************************)
LEMMA TypeStep ==
  ASSUME TypeOK, UNCHANGED setting, NEW c \in Slots, Step(c)
  PROVE  TypeOK'
<1>s. /\ setting \in Settings /\ setting.people \subseteq Persons /\ setting.couples \subseteq Pair
  BY SettingsAssumption DEF TypeOK
<1>1. CASE CreateFamily(c)
  <2>1. PICK f \in Families, pair \in setting.couples : Decide(c, "create", f, -1, pair)
    BY <1>1 DEF CreateFamily
  <2>2. [do |-> "create", stream |-> f, expected |-> -1, arg |-> pair] \in Request
    BY <1>s DEF Request
  <2>3. req' \in [Slots -> {Idle} \union Request]
    BY <2>1, <2>2, DecideStep
  <2> QED
    BY <1>1, <2>3 DEF CreateFamily, rows, TypeOK
<1>2. CASE UpdateFamily(c)
  <2>1. PICK f \in families, places \in SUBSET {1, 2} : Decide(c, "update", f, version[f], places)
    BY <1>2 DEF UpdateFamily
  <2>2. [do |-> "update", stream |-> f, expected |-> version[f], arg |-> places] \in Request
    BY DEF Request, TypeOK
  <2>3. req' \in [Slots -> {Idle} \union Request]
    BY <2>1, <2>2, DecideStep
  <2> QED
    BY <1>2, <2>3 DEF UpdateFamily, rows, TypeOK
<1>3. CASE LinkChild(c)
  <2>1. PICK f \in families, p \in people : Decide(c, "link", f, FamilyExpects(f), p)
    BY <1>3 DEF LinkChild
  <2>2. [do |-> "link", stream |-> f, expected |-> FamilyExpects(f), arg |-> p] \in Request
    BY DEF Request, TypeOK, FamilyExpects
  <2>3. req' \in [Slots -> {Idle} \union Request]
    BY <2>1, <2>2, DecideStep
  <2> QED
    BY <1>3, <2>3 DEF LinkChild, rows, TypeOK
<1>4. CASE UnlinkChild(c)
  <2>1. PICK f \in families, p \in Persons : Decide(c, "unlink", f, FamilyExpects(f), p)
    BY <1>4 DEF UnlinkChild
  <2>2. [do |-> "unlink", stream |-> f, expected |-> FamilyExpects(f), arg |-> p] \in Request
    BY DEF Request, TypeOK, FamilyExpects
  <2>3. req' \in [Slots -> {Idle} \union Request]
    BY <2>1, <2>2, DecideStep
  <2> QED
    BY <1>4, <2>3 DEF UnlinkChild, rows, TypeOK
<1>5. CASE DeleteFamily(c)
  <2>1. PICK f \in families : Decide(c, "drop", f, version[f], Nobody)
    BY <1>5 DEF DeleteFamily
  <2>2. [do |-> "drop", stream |-> f, expected |-> version[f], arg |-> Nobody] \in Request
    BY DEF Request, TypeOK
  <2>3. req' \in [Slots -> {Idle} \union Request]
    BY <2>1, <2>2, DecideStep
  <2> QED
    BY <1>5, <2>3 DEF DeleteFamily, rows, TypeOK
<1>6. CASE DeletePerson(c)
  <2>1. PICK p \in people : Decide(c, "delete", p, version[p], Nobody)
    BY <1>6 DEF DeletePerson
  <2>2. [do |-> "delete", stream |-> p, expected |-> version[p], arg |-> Nobody] \in Request
    BY DEF Request, TypeOK
  <2>3. req' \in [Slots -> {Idle} \union Request]
    BY <2>1, <2>2, DecideStep
  <2> QED
    BY <1>6, <2>3 DEF DeletePerson, rows, TypeOK
<1>7. CASE MergePersons(c)
  <2>1. PICK survivor \in people, merged \in people :
          Decide(c, "merge", survivor, version[survivor], merged)
    BY <1>7 DEF MergePersons
  <2>2. [do |-> "merge", stream |-> survivor, expected |-> version[survivor], arg |-> merged] \in Request
    BY DEF Request, TypeOK
  <2>3. req' \in [Slots -> {Idle} \union Request]
    BY <2>1, <2>2, DecideStep
  <2> QED
    BY <1>7, <2>3 DEF MergePersons, rows, TypeOK
<1>8. CASE FamilyCreated(c)
  <2>1. Append(c, "create")
    BY <1>8 DEF FamilyCreated
  <2>2. /\ version' \in [Persons \union Families -> Nat] /\ req' \in [Slots -> {Idle} \union Request]
        /\ req[c] # Idle /\ req[c].do = "create"
    BY <2>1, AppendStep
  <2>3. req[c].stream \in Families /\ req[c].arg \in Pair
    BY <2>2, RequestShape
  <2> QED
    BY <1>8, <2>2, <2>3 DEF FamilyCreated, TypeOK
<1>9. CASE FamilyUpdated(c)
  <2>1. Append(c, "update")
    BY <1>9 DEF FamilyUpdated
  <2>2. /\ version' \in [Persons \union Families -> Nat] /\ req' \in [Slots -> {Idle} \union Request]
        /\ req[c] # Idle /\ req[c].do = "update"
    BY <2>1, AppendStep
  <2>3. req[c].stream \in Families
    BY <2>2, RequestShape
  <2>4. Cleared(couple[req[c].stream], req[c].arg) \in Pair
    BY <2>3, ClearedTakes DEF TypeOK
  <2> QED
    BY <1>9, <2>2, <2>3, <2>4 DEF FamilyUpdated, TypeOK
<1>10. CASE ChildLinked(c)
  <2>1. Append(c, "link")
    BY <1>10 DEF ChildLinked
  <2>2. /\ version' \in [Persons \union Families -> Nat] /\ req' \in [Slots -> {Idle} \union Request]
        /\ req[c] # Idle /\ req[c].do = "link"
    BY <2>1, AppendStep
  <2>3. req[c].stream \in Families /\ req[c].arg \in Persons
    BY <2>2, RequestShape
  <2>4. EdgeTo(req[c].stream) \in Edge
    <3>1. couple[req[c].stream] \in Pair
      BY <2>3 DEF TypeOK
    <3> QED
      BY <3>1 DEF EdgeTo, Edge, TypeOK, Pair
  <2>5. edge' \in [Persons -> Edge] /\ count' \in [Families -> Int]
    BY <1>10, <2>3, <2>4 DEF ChildLinked, TypeOK, Counted
  <2>6. kids' \in SUBSET (Families \X Persons)
    BY <1>10, <2>3 DEF ChildLinked, TypeOK
  <2> QED
    BY <1>10, <2>2, <2>5, <2>6 DEF ChildLinked, TypeOK
<1>11. CASE ChildUnlinked(c)
  <2>1. Append(c, "unlink")
    BY <1>11 DEF ChildUnlinked
  <2>2. /\ version' \in [Persons \union Families -> Nat] /\ req' \in [Slots -> {Idle} \union Request]
        /\ req[c] # Idle /\ req[c].do = "unlink"
    BY <2>1, AppendStep
  <2>3. req[c].stream \in Families /\ req[c].arg \in Persons
    BY <2>2, RequestShape
  <2>4. NoEdge \in Edge
    BY DEF NoEdge, Edge
  <2>5. edge' \in [Persons -> Edge]
    BY <1>11, <2>3, <2>4 DEF ChildUnlinked, TypeOK
  <2>6. count' \in [Families -> Int]
    BY <1>11, <2>3 DEF ChildUnlinked, TypeOK
  <2>7. kids' \in SUBSET (Families \X Persons)
    BY <1>11 DEF ChildUnlinked, TypeOK
  <2> QED
    BY <1>11, <2>2, <2>5, <2>6, <2>7 DEF ChildUnlinked, TypeOK
<1>12. CASE FamilyDeleted(c)
  <2>1. Append(c, "drop")
    BY <1>12 DEF FamilyDeleted
  <2>2. /\ version' \in [Persons \union Families -> Nat] /\ req' \in [Slots -> {Idle} \union Request]
    BY <2>1, AppendStep
  <2>3. NoEdge \in Edge
    BY DEF NoEdge, Edge
  <2>4. edge' \in [Persons -> Edge]
    BY <1>12, <2>3 DEF FamilyDeleted, TypeOK
  <2>5. families' \in SUBSET Families /\ kids' \in SUBSET (Families \X Persons)
    BY <1>12 DEF FamilyDeleted, TypeOK
  <2> QED
    BY <1>12, <2>2, <2>4, <2>5 DEF FamilyDeleted, TypeOK
<1>13. CASE PersonDeleted(c)
  <2>1. Append(c, "delete")
    BY <1>13 DEF PersonDeleted
  <2>2. /\ version' \in [Persons \union Families -> Nat] /\ req' \in [Slots -> {Idle} \union Request]
        /\ req[c] # Idle /\ req[c].do = "delete"
    BY <2>1, AppendStep
  <2>3. req[c].stream \in Persons
    BY <2>2, RequestShape
  <2>4. NoEdge \in Edge
    BY DEF NoEdge, Edge
  <2> QED
    BY <1>13, <2>2, <2>3, <2>4 DEF PersonDeleted, TypeOK
<1>14. CASE PersonMerged(c)
  <2> DEFINE survivor == req[c].stream
             merged   == req[c].arg
             Inst(p)  == IF p = merged THEN survivor ELSE p
             others   == {k \in kids : k[2] # merged}
             moves    == edge[merged].exists /\ ChildFamilies(merged) # {} /\ HasNoFamily(survivor)
  <2>1. Append(c, "merge")
    BY <1>14 DEF PersonMerged
  <2>2. /\ version' \in [Persons \union Families -> Nat] /\ req' \in [Slots -> {Idle} \union Request]
        /\ req[c] # Idle /\ req[c].do = "merge"
    BY <2>1, AppendStep
  <2>3. survivor \in Persons /\ merged \in Persons
    BY <2>2, RequestShape
  <2>4. CASE survivor \notin people
    BY <1>14, <2>2, <2>4 DEF PersonMerged, TypeOK
  <2>5. CASE survivor \in people
    <3>1. /\ people' = people \ {merged}
          /\ couple' = [f \in Families |->
                          IF f \in families THEN <<Inst(couple[f][1]), Inst(couple[f][2])>> ELSE couple[f]]
          /\ IF moves THEN \E f \in ChildFamilies(merged) : kids' = others \union {<<f, survivor>>}
                      ELSE kids' = others
          /\ edge' = [edge EXCEPT ![survivor] = IF moves THEN edge[merged] ELSE @, ![merged] = NoEdge]
          /\ UNCHANGED <<families, count>>
      BY <1>14, <2>5 DEF PersonMerged, InheritedEdge
    <3>2. ASSUME NEW f \in Families
          PROVE  <<Inst(couple[f][1]), Inst(couple[f][2])>> \in Pair
      <4>1. couple[f] \in Pair
        BY DEF TypeOK
      <4> QED
        BY <2>3, <4>1 DEF Pair
    <3>3. couple' \in [Families -> Pair]
      BY <3>1, <3>2 DEF TypeOK
    <3>4. kids' \in SUBSET (Families \X Persons)
      <4>1. others \in SUBSET (Families \X Persons)
        BY DEF TypeOK
      <4>2. \A f \in ChildFamilies(merged) : <<f, survivor>> \in Families \X Persons
        BY <2>3 DEF TypeOK, ChildFamilies
      <4> HIDE DEF others, moves, survivor, merged
      <4> QED
        BY <3>1, <4>1, <4>2
    <3>5. NoEdge \in Edge
      BY DEF NoEdge, Edge
    <3>6. edge' \in [Persons -> Edge]
      BY <3>1, <2>3, <3>5 DEF TypeOK
    <3> QED
      BY <3>1, <2>2, <3>3, <3>4, <3>6 DEF TypeOK
  <2> QED
    BY <2>4, <2>5
<1>15. CASE Refuse(c)
  BY <1>15 DEF Refuse, rows, TypeOK
<1> QED
  BY <1>1, <1>2, <1>3, <1>4, <1>5, <1>6, <1>7, <1>8, <1>9, <1>10, <1>11, <1>12, <1>13, <1>14, <1>15
  DEF Step

-----------------------------------------------------------------------------
(* However requests race.                                                  *)

(***************************************************************************)
(* Deciding on a family that is there at its version, or on a fresh one,   *)
(* keeps what guards the families.                                         *)
(***************************************************************************)
LEMMA RaceDecided ==
  ASSUME TypeOK, RaceInv, UNCHANGED <<setting, rows, version>>,
         NEW c \in Slots, c \in setting.slots, req[c] = Idle,
         NEW do \in setting.kinds, NEW s, NEW v, NEW arg, Decide(c, do, s, v, arg),
         [do |-> do, stream |-> s, expected |-> v, arg |-> arg] \in Request,
         do = "create" => Fresh(s),
         do \in {"update", "link", "unlink", "drop"} => s \in families /\ v = version[s],
         do \in {"delete", "merge"} => s \in Persons
  PROVE  RaceInv'
<1>1. /\ req'[c] # Idle
      /\ req'[c].do = do /\ req'[c].stream = s /\ req'[c].expected = v /\ req'[c].arg = arg
      /\ \A d \in Slots : d # c => req'[d] = req[d]
  BY DecideStep
<1>2. do \in {"create", "update", "link", "unlink", "drop", "delete", "merge"}
  BY DEF Request
<1>3. UNCHANGED <<families, kids, count, version, setting>>
  BY DEF rows
<1>4. RequestsInUse'
  BY <1>1, <1>3 DEF RaceInv, RequestsInUse
<1>5. KidsHaveFamily' /\ FamilyHasVersion'
  BY <1>3 DEF RaceInv, KidsHaveFamily, FamilyHasVersion
<1>6. CreatesFresh'
  <2>1. ASSUME NEW d \in Slots, d # c, Pending(d, "create") PROVE req[d].stream # s
    <3>1. version[req[d].stream] = 0 /\ req[d].stream \in Families
      BY <2>1, RequestShape DEF RaceInv, CreatesFresh, Pending
    <3>2. CASE do = "create"
      BY <2>1, <3>2 DEF Fresh, Pending
    <3>3. CASE do \in {"update", "link", "unlink", "drop"}
      BY <3>1, <3>3 DEF RaceInv, FamilyHasVersion, TypeOK
    <3>4. CASE do \in {"delete", "merge"}
      BY <3>1, <3>4, StreamsApart
    <3> QED
      BY <1>2, <3>2, <3>3, <3>4
  <2>2. ASSUME NEW d \in Slots, Pending(d, "create")'
        PROVE  /\ version'[req'[d].stream] = 0
               /\ \A e \in Slots : e # d /\ req'[e] # Idle => req'[e].stream # req'[d].stream
    <3>1. CASE d = c
      BY <1>1, <1>3, <2>2, <3>1 DEF Pending, Fresh
    <3>2. CASE d # c
      <4>1. Pending(d, "create") /\ req'[d] = req[d]
        BY <1>1, <2>2, <3>2 DEF Pending
      <4>2. version[req[d].stream] = 0
        BY <4>1 DEF RaceInv, CreatesFresh
      <4>3. \A e \in Slots : e # d /\ req[e] # Idle => req[e].stream # req[d].stream
        BY <4>1 DEF RaceInv, CreatesFresh
      <4> QED
        BY <1>1, <1>3, <2>1, <3>2, <4>1, <4>2, <4>3
    <3> QED
      BY <3>1, <3>2
  <2> QED
    BY <2>2 DEF CreatesFresh
<1>7. FamilyGuarded'
  <2> SUFFICES ASSUME NEW d \in Slots, NEW do2 \in {"update", "link", "unlink", "drop"},
                      Pending(d, do2)'
               PROVE  /\ req'[d].expected >= 0 /\ req'[d].expected <= version'[req'[d].stream]
                      /\ Current(d)' => req'[d].stream \in families'
    BY DEF FamilyGuarded
  <2>1. CASE d = c
    BY <1>1, <1>3, <2>1 DEF Pending, TypeOK
  <2>2. CASE d # c
    <3>1. Pending(d, do2) /\ req'[d] = req[d]
      BY <1>1, <2>2 DEF Pending
    <3> QED
      BY <1>3, <3>1 DEF RaceInv, FamilyGuarded, Current
  <2> QED
    BY <2>1, <2>2
<1> QED
  BY <1>4, <1>5, <1>6, <1>7 DEF RaceInv

(***************************************************************************)
(* An append that touches its own stream's family only keeps what guards   *)
(* the others: their requests still expect the versions they read, and its *)
(* own family's requests are behind now.                                   *)
(***************************************************************************)
LEMMA RaceAppended ==
  ASSUME TypeOK, RaceInv, UNCHANGED setting, NEW c \in Slots,
         NEW do \in {"create", "update", "link", "unlink", "drop", "delete", "merge"},
         Append(c, do),
         families \ {req[c].stream} \subseteq families',
         families' \subseteq families \union {req[c].stream},
         \A f \in Families : f # req[c].stream => count'[f] = count[f]
  PROVE  RequestsInUse' /\ FamilyHasVersion' /\ CreatesFresh' /\ FamilyGuarded'
<1> DEFINE s == req[c].stream
<1>1. /\ req[c] # Idle
      /\ version' \in [Persons \union Families -> Nat]
      /\ version'[s] = version[s] + 1
      /\ \A t \in Persons \union Families : t # s => version'[t] = version[t]
      /\ req'[c] = Idle
      /\ \A d \in Slots : d # c => req'[d] = req[d]
  BY AppendStep
<1>2. s \in Persons \union Families /\ version[s] \in Nat
  BY <1>1, RequestShape DEF TypeOK
<1>3. RequestsInUse'
  BY <1>1 DEF RaceInv, RequestsInUse
<1>4. FamilyHasVersion'
  <2> SUFFICES ASSUME NEW f \in Families
               PROVE  /\ f \in families' => version'[f] > 0
                      /\ version'[f] = 0 => count'[f] = 0
    BY DEF FamilyHasVersion
  <2>1. CASE f = s
    BY <1>1, <1>2, <2>1
  <2>2. CASE f # s
    BY <1>1, <2>2 DEF RaceInv, FamilyHasVersion
  <2> QED
    BY <2>1, <2>2
<1>5. CreatesFresh'
  <2> SUFFICES ASSUME NEW d \in Slots, Pending(d, "create")'
               PROVE  /\ version'[req'[d].stream] = 0
                      /\ \A e \in Slots : e # d /\ req'[e] # Idle => req'[e].stream # req'[d].stream
    BY DEF CreatesFresh
  <2>1. d # c /\ req'[d] = req[d] /\ Pending(d, "create")
    BY <1>1 DEF Pending
  <2>2. /\ version[req[d].stream] = 0
        /\ \A e \in Slots : e # d /\ req[e] # Idle => req[e].stream # req[d].stream
    BY <2>1 DEF RaceInv, CreatesFresh
  <2>3. req[d].stream # s /\ req[d].stream \in Persons \union Families
    BY <1>1, <2>1, <2>2, RequestShape DEF Pending
  <2> QED
    BY <1>1, <2>1, <2>2, <2>3
<1>6. FamilyGuarded'
  <2> SUFFICES ASSUME NEW d \in Slots, NEW do2 \in {"update", "link", "unlink", "drop"},
                      Pending(d, do2)'
               PROVE  /\ req'[d].expected >= 0 /\ req'[d].expected <= version'[req'[d].stream]
                      /\ Current(d)' => req'[d].stream \in families'
    BY DEF FamilyGuarded
  <2>1. d # c /\ req'[d] = req[d] /\ Pending(d, do2)
    BY <1>1 DEF Pending
  <2>2. /\ req[d].expected >= 0 /\ req[d].expected <= version[req[d].stream]
        /\ Current(d) => req[d].stream \in families
    BY <2>1 DEF RaceInv, FamilyGuarded
  <2>3. req[d].stream \in Persons \union Families /\ version[req[d].stream] \in Nat /\ req[d].expected \in Int
    BY <2>1, RequestShape DEF Pending, TypeOK
  <2>4. CASE req[d].stream = s
    <3>1. version'[req[d].stream] = version[req[d].stream] + 1
      BY <1>1, <2>4
    <3> QED
      BY <2>1, <2>2, <2>3, <3>1 DEF Current
  <2>5. CASE req[d].stream # s
    BY <1>1, <2>1, <2>2, <2>3, <2>5 DEF Current
  <2> QED
    BY <2>4, <2>5
<1> QED
  BY <1>3, <1>4, <1>5, <1>6

(***************************************************************************)
(* Every step of a request keeps what holds however requests race: links   *)
(* and deletions of a family cannot leave a child row behind.              *)
(***************************************************************************)
LEMMA RaceStep ==
  ASSUME TypeOK, RaceInv, UNCHANGED setting, NEW c \in Slots, c \in setting.slots, Step(c)
  PROVE  RaceInv'
<1>s. setting.people \subseteq Persons /\ setting.couples \subseteq Pair
  BY SettingsAssumption DEF TypeOK
<1>1. CASE CreateFamily(c)
  <2>1. PICK f \in Families, pair \in setting.couples :
          Fresh(f) /\ Decide(c, "create", f, -1, pair)
    BY <1>1 DEF CreateFamily
  <2>2. [do |-> "create", stream |-> f, expected |-> -1, arg |-> pair] \in Request
    BY <1>s DEF Request
  <2>3. req[c] = Idle /\ "create" \in setting.kinds /\ UNCHANGED <<setting, rows, version>>
    BY <1>1 DEF CreateFamily, Ready
  <2> QED
    BY <2>1, <2>2, <2>3, RaceDecided
<1>2. CASE UpdateFamily(c)
  <2>1. PICK f \in families, places \in SUBSET {1, 2} : Decide(c, "update", f, version[f], places)
    BY <1>2 DEF UpdateFamily
  <2>2. [do |-> "update", stream |-> f, expected |-> version[f], arg |-> places] \in Request
    BY DEF Request, TypeOK
  <2>3. req[c] = Idle /\ "update" \in setting.kinds /\ UNCHANGED <<setting, rows, version>>
    BY <1>2 DEF UpdateFamily, Ready
  <2> QED
    BY <2>1, <2>2, <2>3, RaceDecided
<1>3. CASE LinkChild(c)
  <2>1. PICK f \in families, p \in people : Decide(c, "link", f, version[f], p)
    BY <1>3 DEF LinkChild, FamilyExpects
  <2>2. [do |-> "link", stream |-> f, expected |-> version[f], arg |-> p] \in Request
    BY DEF Request, TypeOK
  <2>3. req[c] = Idle /\ "link" \in setting.kinds /\ UNCHANGED <<setting, rows, version>>
    BY <1>3 DEF LinkChild, Ready
  <2> QED
    BY <2>1, <2>2, <2>3, RaceDecided
<1>4. CASE UnlinkChild(c)
  <2>1. PICK f \in families, p \in Persons : Decide(c, "unlink", f, version[f], p)
    BY <1>4 DEF UnlinkChild, FamilyExpects
  <2>2. [do |-> "unlink", stream |-> f, expected |-> version[f], arg |-> p] \in Request
    BY DEF Request, TypeOK
  <2>3. req[c] = Idle /\ "unlink" \in setting.kinds /\ UNCHANGED <<setting, rows, version>>
    BY <1>4 DEF UnlinkChild, Ready
  <2> QED
    BY <2>1, <2>2, <2>3, RaceDecided
<1>5. CASE DeleteFamily(c)
  <2>1. PICK f \in families : Decide(c, "drop", f, version[f], Nobody)
    BY <1>5 DEF DeleteFamily
  <2>2. [do |-> "drop", stream |-> f, expected |-> version[f], arg |-> Nobody] \in Request
    BY DEF Request, TypeOK
  <2>3. req[c] = Idle /\ "drop" \in setting.kinds /\ UNCHANGED <<setting, rows, version>>
    BY <1>5 DEF DeleteFamily, Ready
  <2> QED
    BY <2>1, <2>2, <2>3, RaceDecided
<1>6. CASE DeletePerson(c)
  <2>1. PICK p \in people : Decide(c, "delete", p, version[p], Nobody)
    BY <1>6 DEF DeletePerson
  <2>2. p \in Persons /\ [do |-> "delete", stream |-> p, expected |-> version[p], arg |-> Nobody] \in Request
    BY DEF Request, TypeOK
  <2>3. req[c] = Idle /\ "delete" \in setting.kinds /\ UNCHANGED <<setting, rows, version>>
    BY <1>6 DEF DeletePerson, Ready
  <2> QED
    BY <2>1, <2>2, <2>3, RaceDecided
<1>7. CASE MergePersons(c)
  <2>1. PICK survivor \in people, merged \in people :
          Decide(c, "merge", survivor, version[survivor], merged)
    BY <1>7 DEF MergePersons
  <2>2. /\ survivor \in Persons
        /\ [do |-> "merge", stream |-> survivor, expected |-> version[survivor], arg |-> merged] \in Request
    BY DEF Request, TypeOK
  <2>3. req[c] = Idle /\ "merge" \in setting.kinds /\ UNCHANGED <<setting, rows, version>>
    BY <1>7 DEF MergePersons, Ready
  <2> QED
    BY <2>1, <2>2, <2>3, RaceDecided
<1>8. CASE FamilyCreated(c)
  <2>1. /\ Append(c, "create") /\ families' = families \union {req[c].stream}
        /\ UNCHANGED <<kids, count>>
    BY <1>8 DEF FamilyCreated
  <2>2. KidsHaveFamily'
    BY <2>1 DEF RaceInv, KidsHaveFamily
  <2> QED
    BY <2>1, <2>2, RaceAppended DEF RaceInv
<1>9. CASE FamilyUpdated(c)
  <2>1. Append(c, "update") /\ UNCHANGED <<families, kids, count>>
    BY <1>9 DEF FamilyUpdated
  <2>2. KidsHaveFamily'
    BY <2>1 DEF RaceInv, KidsHaveFamily
  <2> QED
    BY <2>1, <2>2, RaceAppended DEF RaceInv
<1>10. CASE ChildLinked(c)
  <2>1. /\ Append(c, "link") /\ UNCHANGED families
        /\ kids' = kids \union {<<req[c].stream, req[c].arg>>}
        /\ count' = count \/ count' = [count EXCEPT ![req[c].stream] = Counted(@)]
    BY <1>10 DEF ChildLinked
  <2>2. Pending(c, "link") /\ (req[c].expected < 0 \/ Current(c)) /\ req[c].expected \in Int
    BY <2>1, AppendStep, RequestShape
  <2>3. req[c].stream \in families
    BY <2>2 DEF RaceInv, FamilyGuarded
  <2>4. KidsHaveFamily'
    BY <2>1, <2>3 DEF RaceInv, KidsHaveFamily
  <2>5. \A f \in Families : f # req[c].stream => count'[f] = count[f]
    BY <2>1 DEF TypeOK
  <2> QED
    BY <2>1, <2>4, <2>5, RaceAppended DEF RaceInv
<1>11. CASE ChildUnlinked(c)
  <2>1. /\ Append(c, "unlink") /\ UNCHANGED families
        /\ kids' = kids \ {<<req[c].stream, req[c].arg>>}
        /\ count' = count \/ count' = [count EXCEPT ![req[c].stream] = @ - 1]
    BY <1>11 DEF ChildUnlinked
  <2>2. KidsHaveFamily'
    BY <2>1 DEF RaceInv, KidsHaveFamily
  <2>3. \A f \in Families : f # req[c].stream => count'[f] = count[f]
    BY <2>1 DEF TypeOK
  <2> QED
    BY <2>1, <2>2, <2>3, RaceAppended DEF RaceInv
<1>12. CASE FamilyDeleted(c)
  <2>1. /\ Append(c, "drop") /\ families' = families \ {req[c].stream} /\ UNCHANGED count
        /\ kids' = {k \in kids : k[1] # req[c].stream}
    BY <1>12 DEF FamilyDeleted
  <2>2. KidsHaveFamily'
    BY <2>1 DEF RaceInv, KidsHaveFamily
  <2> QED
    BY <2>1, <2>2, RaceAppended DEF RaceInv
<1>13. CASE PersonDeleted(c)
  <2>1. /\ Append(c, "delete") /\ UNCHANGED <<families, count>>
        /\ kids' = {k \in kids : k[2] # req[c].stream}
    BY <1>13 DEF PersonDeleted
  <2>2. KidsHaveFamily'
    BY <2>1 DEF RaceInv, KidsHaveFamily
  <2> QED
    BY <2>1, <2>2, RaceAppended DEF RaceInv
<1>14. CASE PersonMerged(c)
  <2>1. /\ Append(c, "merge") /\ UNCHANGED <<families, count>>
        /\ \/ kids' \subseteq kids
           \/ \E f \in ChildFamilies(req[c].arg) : kids' \subseteq kids \union {<<f, req[c].stream>>}
    BY <1>14 DEF PersonMerged
  <2>2. KidsHaveFamily'
    BY <2>1 DEF RaceInv, KidsHaveFamily, ChildFamilies
  <2> QED
    BY <2>1, <2>2, RaceAppended DEF RaceInv
<1>15. CASE Refuse(c)
  <2>1. /\ UNCHANGED <<families, kids, count, version>>
        /\ req' = [req EXCEPT ![c] = Idle]
    BY <1>15 DEF Refuse, rows
  <2>2. KidsHaveFamily' /\ FamilyHasVersion'
    BY <2>1 DEF RaceInv, KidsHaveFamily, FamilyHasVersion
  <2>3. \A d \in Slots : req'[d] # Idle => req'[d] = req[d]
    BY <2>1 DEF TypeOK
  <2>4. RequestsInUse' /\ CreatesFresh'
    BY <2>1, <2>3 DEF RaceInv, RequestsInUse, CreatesFresh, Pending
  <2>5. FamilyGuarded'
    BY <2>1, <2>3 DEF RaceInv, FamilyGuarded, Pending, Current
  <2> QED
    BY <2>2, <2>4, <2>5 DEF RaceInv
<1> QED
  BY <1>1, <1>2, <1>3, <1>4, <1>5, <1>6, <1>7, <1>8, <1>9, <1>10, <1>11, <1>12, <1>13, <1>14, <1>15
  DEF Step

-----------------------------------------------------------------------------
(* The number of children.                                                 *)

(***************************************************************************)
(* With one slot in use, the request in it is the only one there is.       *)
(***************************************************************************)
LEMMA OneSlot ==
  ASSUME TypeOK, RequestsInUse, Cardinality(setting.slots) = 1,
         NEW c \in setting.slots, NEW d \in Slots, req[d] # Idle
  PROVE  d = c
<1>1. setting.slots \in SUBSET Slots
  BY SettingsAssumption DEF TypeOK
<1>2. IsFiniteSet(setting.slots)
  BY <1>1, FinitelyMany, FS_Subset
<1>3. PICK x : setting.slots = {x}
  BY <1>2, FS_Singleton
<1>4. d \in setting.slots
  BY DEF RequestsInUse
<1> QED
  BY <1>3, <1>4

(***************************************************************************)
(* A decision on what the child rows say now keeps the count's invariant.  *)
(***************************************************************************)
LEMMA CountDecided ==
  ASSUME TypeOK, RaceInv, CountInv, UNCHANGED <<setting, rows, version>>,
         NEW c \in Slots, NEW do, NEW s, NEW v, NEW arg, Decide(c, do, s, v, arg),
         [do |-> do, stream |-> s, expected |-> v, arg |-> arg] \in Request,
         do = "link" => <<s, arg>> \notin kids,
         do = "unlink" => <<s, arg>> \in kids,
         do = "delete" => \A f \in Families : <<f, s>> \notin kids
  PROVE  CountInv'
<1>1. /\ req'[c].do = do /\ req'[c].stream = s /\ req'[c].expected = v /\ req'[c].arg = arg
      /\ \A d \in Slots : d # c => req'[d] = req[d]
  BY DecideStep
<1>2. UNCHANGED <<families, kids, count, version, setting>>
  BY DEF rows
<1> SUFFICES ASSUME Counting'
             PROVE  /\ \A f \in families' : count'[f] = Cardinality(ChildrenOf(f))'
                    /\ \A d \in Slots :
                         /\ (Pending(d, "link") /\ Current(d))' => <<req'[d].stream, req'[d].arg>> \notin kids'
                         /\ (Pending(d, "unlink") /\ Current(d))' => <<req'[d].stream, req'[d].arg>> \in kids'
                         /\ Pending(d, "delete")' => \A f \in Families : <<f, req'[d].stream>> \notin kids'
  BY DEF CountInv
<1>3. Counting
  BY <1>2 DEF Counting
<1>4. \A f \in families' : count'[f] = Cardinality(ChildrenOf(f))'
  BY <1>2, <1>3 DEF CountInv, ChildrenOf
<1>5. ASSUME NEW d \in Slots
      PROVE  /\ (Pending(d, "link") /\ Current(d))' => <<req'[d].stream, req'[d].arg>> \notin kids'
             /\ (Pending(d, "unlink") /\ Current(d))' => <<req'[d].stream, req'[d].arg>> \in kids'
             /\ Pending(d, "delete")' => \A f \in Families : <<f, req'[d].stream>> \notin kids'
  <2>1. CASE d = c
    BY <1>1, <1>2, <2>1 DEF Pending
  <2>2. CASE d # c
    <3>1. req'[d] = req[d]
      BY <1>1, <2>2
    <3> QED
      BY <1>2, <1>3, <3>1 DEF CountInv, Pending, Current
  <2> QED
    BY <2>1, <2>2
<1> QED
  BY <1>4, <1>5

(***************************************************************************)
(* An append that touches the child rows of its own stream's family only   *)
(* leaves the other requests' view of the child rows true.                 *)
(***************************************************************************)
LEMMA CountAppended ==
  ASSUME TypeOK, RaceInv, CountInv, UNCHANGED setting, Counting,
         NEW c \in Slots, c \in setting.slots,
         NEW do \in {"create", "update", "link", "unlink", "drop", "delete"}, Append(c, do),
         \A f \in Families, p \in Persons :
            f # req[c].stream => (<<f, p>> \in kids' <=> <<f, p>> \in kids)
  PROVE  \A d \in Slots :
           /\ (Pending(d, "link") /\ Current(d))' => <<req'[d].stream, req'[d].arg>> \notin kids'
           /\ (Pending(d, "unlink") /\ Current(d))' => <<req'[d].stream, req'[d].arg>> \in kids'
           /\ Pending(d, "delete")' => \A f \in Families : <<f, req'[d].stream>> \notin kids'
<1>1. /\ req[c] # Idle
      /\ version'[req[c].stream] = version[req[c].stream] + 1
      /\ \A t \in Persons \union Families : t # req[c].stream => version'[t] = version[t]
      /\ req'[c] = Idle
      /\ \A d \in Slots : d # c => req'[d] = req[d]
  BY AppendStep
<1>2. ASSUME NEW d \in Slots, NEW do2 \in {"link", "unlink"}, (Pending(d, do2) /\ Current(d))'
      PROVE  /\ req'[d] = req[d] /\ Pending(d, do2) /\ Current(d)
             /\ req[d].stream # req[c].stream
             /\ req[d].stream \in Families /\ req[d].arg \in Persons
  <2>1. req'[d] = req[d] /\ Pending(d, do2)
    BY <1>1, <1>2 DEF Pending
  <2>2. req[d].stream \in Families /\ req[d].arg \in Persons /\ req[d].expected \in Int
    BY <2>1, RequestShape DEF Pending
  <2>3. req[d].expected <= version[req[d].stream] /\ version[req[d].stream] \in Nat
    BY <2>1, <2>2 DEF RaceInv, FamilyGuarded, TypeOK
  <2>4. req[d].stream # req[c].stream
    <3> SUFFICES ASSUME req[d].stream = req[c].stream PROVE FALSE
      OBVIOUS
    <3>1. version'[req[d].stream] = version[req[d].stream] + 1
      BY <1>1
    <3> QED
      BY <1>2, <2>1, <2>2, <2>3, <3>1 DEF Current
  <2>5. Current(d)
    BY <1>1, <1>2, <2>1, <2>2, <2>4 DEF Current
  <2> QED
    BY <2>1, <2>2, <2>4, <2>5
<1>3. ASSUME NEW d \in Slots, (Pending(d, "link") /\ Current(d))'
      PROVE  <<req'[d].stream, req'[d].arg>> \notin kids'
  BY <1>2, <1>3 DEF CountInv
<1>4. ASSUME NEW d \in Slots, (Pending(d, "unlink") /\ Current(d))'
      PROVE  <<req'[d].stream, req'[d].arg>> \in kids'
  BY <1>2, <1>4 DEF CountInv
<1>5. ASSUME NEW d \in Slots, Pending(d, "delete")'
      PROVE  FALSE
  <2>1. req[d] # Idle /\ d # c /\ req[d].do = "delete"
    BY <1>1, <1>5 DEF Pending
  <2>2. Cardinality(setting.slots) = 1
    BY <2>1 DEF RaceInv, RequestsInUse, Counting
  <2> QED
    BY <2>1, <2>2, OneSlot DEF RaceInv
<1> QED
  BY <1>3, <1>4, <1>5

(***************************************************************************)
(* The children of a family are finitely many, and one more or one less    *)
(* counts as one.                                                          *)
(***************************************************************************)
LEMMA ChildrenCounted ==
  ASSUME NEW S, S \subseteq Persons, NEW p \in Persons
  PROVE  /\ IsFiniteSet(S) /\ Cardinality(S) \in Nat
         /\ p \notin S => Cardinality(S \union {p}) = Cardinality(S) + 1
         /\ p \in S => Cardinality(S) > 0 /\ Cardinality(S \ {p}) = Cardinality(S) - 1
<1>1. IsFiniteSet(S)
  BY FinitelyMany, FS_Subset
<1>2. Cardinality(S) \in Nat
  BY <1>1, FS_CardinalityType
<1>3. p \notin S => Cardinality(S \union {p}) = Cardinality(S) + 1
  BY <1>1, FS_AddElement
<1>4. p \in S => Cardinality(S \ {p}) = Cardinality(S) - 1
  BY <1>1, FS_RemoveElement
<1>5. p \in S => Cardinality(S) # 0
  BY <1>1, FS_EmptySet
<1> QED
  BY <1>1, <1>2, <1>3, <1>4, <1>5

(***************************************************************************)
(* Every step keeps the count: a link adds a child that was not there, an  *)
(* unlink takes one that was, and no other append changes the children of  *)
(* a family that stays.                                                    *)
(***************************************************************************)
LEMMA CountStep ==
  ASSUME TypeOK, RaceInv, CountInv, UNCHANGED setting,
         NEW c \in Slots, c \in setting.slots, Step(c)
  PROVE  CountInv'
<1>s. setting.people \subseteq Persons /\ setting.couples \subseteq Pair
  BY SettingsAssumption DEF TypeOK
<1>c. Counting' = Counting
  BY DEF Counting
<1>a. ASSUME Counting, NEW do \in {"create", "update", "link", "unlink", "drop", "delete"}, Append(c, do),
             \A f \in Families, p \in Persons : f # req[c].stream => (<<f, p>> \in kids' <=> <<f, p>> \in kids),
             \A f \in families' : count'[f] = Cardinality(ChildrenOf(f)')
      PROVE  CountInv'
  BY <1>a, CountAppended DEF CountInv
<1>b. ASSUME NEW f \in Families, \A p \in Persons : <<f, p>> \in kids' <=> <<f, p>> \in kids
      PROVE  ChildrenOf(f)' = ChildrenOf(f)
  BY <1>b DEF ChildrenOf
<1>n. ASSUME ~Counting PROVE CountInv'
  BY <1>c, <1>n DEF CountInv
<1>1. CASE CreateFamily(c)
  <2>1. PICK f \in Families, pair \in setting.couples : Decide(c, "create", f, -1, pair)
    BY <1>1 DEF CreateFamily
  <2>2. [do |-> "create", stream |-> f, expected |-> -1, arg |-> pair] \in Request
    BY <1>s DEF Request
  <2>3. UNCHANGED <<setting, rows, version>>
    BY <1>1 DEF CreateFamily
  <2> QED
    BY <2>1, <2>2, <2>3, CountDecided
<1>2. CASE UpdateFamily(c)
  <2>1. PICK f \in families, places \in SUBSET {1, 2} : Decide(c, "update", f, version[f], places)
    BY <1>2 DEF UpdateFamily
  <2>2. [do |-> "update", stream |-> f, expected |-> version[f], arg |-> places] \in Request
    BY DEF Request, TypeOK
  <2>3. UNCHANGED <<setting, rows, version>>
    BY <1>2 DEF UpdateFamily
  <2> QED
    BY <2>1, <2>2, <2>3, CountDecided
<1>3. CASE LinkChild(c)
  <2>1. PICK f \in families, p \in people : HasNoFamily(p) /\ Decide(c, "link", f, version[f], p)
    BY <1>3 DEF LinkChild, FamilyExpects
  <2>2. [do |-> "link", stream |-> f, expected |-> version[f], arg |-> p] \in Request
    BY DEF Request, TypeOK
  <2>3. UNCHANGED <<setting, rows, version>>
    BY <1>3 DEF LinkChild
  <2>4. <<f, p>> \notin kids
    BY <2>1 DEF HasNoFamily, ChildFamilies
  <2> QED
    BY <2>1, <2>2, <2>3, <2>4, CountDecided
<1>4. CASE UnlinkChild(c)
  <2>1. PICK f \in families, p \in Persons : f \in ChildFamilies(p) /\ Decide(c, "unlink", f, version[f], p)
    BY <1>4 DEF UnlinkChild, FamilyExpects
  <2>2. [do |-> "unlink", stream |-> f, expected |-> version[f], arg |-> p] \in Request
    BY DEF Request, TypeOK
  <2>3. UNCHANGED <<setting, rows, version>>
    BY <1>4 DEF UnlinkChild
  <2>4. <<f, p>> \in kids
    BY <2>1 DEF ChildFamilies
  <2> QED
    BY <2>1, <2>2, <2>3, <2>4, CountDecided
<1>5. CASE DeleteFamily(c)
  <2>1. PICK f \in families : Decide(c, "drop", f, version[f], Nobody)
    BY <1>5 DEF DeleteFamily
  <2>2. [do |-> "drop", stream |-> f, expected |-> version[f], arg |-> Nobody] \in Request
    BY DEF Request, TypeOK
  <2>3. UNCHANGED <<setting, rows, version>>
    BY <1>5 DEF DeleteFamily
  <2> QED
    BY <2>1, <2>2, <2>3, CountDecided
<1>6. CASE DeletePerson(c)
  <2>1. PICK p \in people : Unlinked(p) /\ Decide(c, "delete", p, version[p], Nobody)
    BY <1>6 DEF DeletePerson
  <2>2. p \in Persons /\ [do |-> "delete", stream |-> p, expected |-> version[p], arg |-> Nobody] \in Request
    BY DEF Request, TypeOK
  <2>3. UNCHANGED <<setting, rows, version>>
    BY <1>6 DEF DeletePerson
  <2>4. \A f \in Families : <<f, p>> \notin kids
    BY <2>1, <2>2 DEF Unlinked, ChildFamilies, RaceInv, KidsHaveFamily
  <2> QED
    BY <2>1, <2>2, <2>3, <2>4, CountDecided
<1>7. CASE MergePersons(c)
  <2>1. "merge" \in setting.kinds
    BY <1>7 DEF MergePersons, Ready
  <2> QED
    BY <1>n, <2>1 DEF Counting
<1>8. CASE FamilyCreated(c)
  <2> SUFFICES ASSUME Counting PROVE CountInv'
    BY <1>n
  <2>1. /\ Append(c, "create") /\ families' = families \union {req[c].stream} /\ UNCHANGED <<kids, count>>
    BY <1>8 DEF FamilyCreated
  <2>2. Pending(c, "create") /\ req[c].stream \in Families
    BY <2>1, AppendStep, RequestShape
  <2>3. version[req[c].stream] = 0
    BY <2>2 DEF RaceInv, CreatesFresh
  <2>4. count[req[c].stream] = 0 /\ req[c].stream \notin families
    BY <2>2, <2>3 DEF RaceInv, FamilyHasVersion
  <2>5. ChildrenOf(req[c].stream) = {}
    BY <2>2, <2>4 DEF ChildrenOf, RaceInv, KidsHaveFamily
  <2>6. Cardinality(ChildrenOf(req[c].stream)) = 0
    BY <2>5, FS_EmptySet
  <2>7. \A f \in families' : count'[f] = Cardinality(ChildrenOf(f)')
    BY <2>1, <2>4, <2>6 DEF CountInv, ChildrenOf
  <2> QED
    BY <1>a, <2>1, <2>7
<1>9. CASE FamilyUpdated(c)
  <2> SUFFICES ASSUME Counting PROVE CountInv'
    BY <1>n
  <2>1. Append(c, "update") /\ UNCHANGED <<families, kids, count>>
    BY <1>9 DEF FamilyUpdated
  <2>2. \A f \in families' : count'[f] = Cardinality(ChildrenOf(f)')
    BY <2>1 DEF CountInv, ChildrenOf
  <2> QED
    BY <1>a, <2>1, <2>2
<1>10. CASE ChildLinked(c)
  <2> SUFFICES ASSUME Counting PROVE CountInv'
    BY <1>n
  <2>0. PICK s \in Families, p \in Persons : s = req[c].stream /\ p = req[c].arg
    <3>1. Append(c, "link")
      BY <1>10 DEF ChildLinked
    <3> QED
      BY <3>1, AppendStep, RequestShape
  <2>1. /\ Append(c, "link") /\ UNCHANGED families
        /\ kids' = kids \union {<<s, p>>}
        /\ s \in families => count' = [count EXCEPT ![s] = Counted(@)]
    BY <1>10, <2>0 DEF ChildLinked
  <2>2. /\ Pending(c, "link") /\ (req[c].expected < 0 \/ Current(c)) /\ req[c].expected \in Int
    BY <2>1, AppendStep, RequestShape
  <2>3. s \in families /\ Current(c)
    BY <2>0, <2>2 DEF RaceInv, FamilyGuarded
  <2>4. <<s, p>> \notin kids
    BY <2>0, <2>2, <2>3 DEF CountInv
  <2>5. ChildrenOf(s)' = ChildrenOf(s) \union {p} /\ p \notin ChildrenOf(s)
    BY <2>1, <2>4 DEF ChildrenOf
  <2>6. Cardinality(ChildrenOf(s)') = Cardinality(ChildrenOf(s)) + 1
    BY <2>5, ChildrenCounted DEF ChildrenOf
  <2>7. \A f \in Families, q \in Persons : f # s => (<<f, q>> \in kids' <=> <<f, q>> \in kids)
    BY <2>1
  <2>8. ASSUME NEW f \in families' PROVE count'[f] = Cardinality(ChildrenOf(f)')
    <3>0. f \in families /\ f \in Families /\ count[f] = Cardinality(ChildrenOf(f))
      BY <2>1, <2>8 DEF CountInv, TypeOK
    <3>1. CASE f = s
      BY <2>1, <2>2, <2>3, <2>6, <3>0, <3>1 DEF TypeOK, Counted
    <3>2. CASE f # s
      <4>1. ChildrenOf(f)' = ChildrenOf(f)
        BY <1>b, <2>7, <3>0, <3>2
      <4> QED
        BY <2>1, <2>3, <3>0, <3>2, <4>1 DEF TypeOK
    <3> QED
      BY <3>1, <3>2
  <2> QED
    BY <1>a, <2>0, <2>1, <2>7, <2>8
<1>11. CASE ChildUnlinked(c)
  <2> SUFFICES ASSUME Counting PROVE CountInv'
    BY <1>n
  <2>0. PICK s \in Families, p \in Persons : s = req[c].stream /\ p = req[c].arg
    <3>1. Append(c, "unlink")
      BY <1>11 DEF ChildUnlinked
    <3> QED
      BY <3>1, AppendStep, RequestShape
  <2>1. /\ Append(c, "unlink") /\ UNCHANGED families
        /\ kids' = kids \ {<<s, p>>}
        /\ count' = IF s \in families /\ count[s] > 0 THEN [count EXCEPT ![s] = @ - 1] ELSE count
    BY <1>11, <2>0 DEF ChildUnlinked
  <2>2. /\ Pending(c, "unlink") /\ (req[c].expected < 0 \/ Current(c)) /\ req[c].expected \in Int
    BY <2>1, AppendStep, RequestShape
  <2>3. s \in families /\ Current(c)
    BY <2>0, <2>2 DEF RaceInv, FamilyGuarded
  <2>4. <<s, p>> \in kids
    BY <2>0, <2>2, <2>3 DEF CountInv
  <2>5. ChildrenOf(s)' = ChildrenOf(s) \ {p} /\ p \in ChildrenOf(s)
    BY <2>1, <2>4 DEF ChildrenOf
  <2>6. /\ Cardinality(ChildrenOf(s)') = Cardinality(ChildrenOf(s)) - 1
        /\ Cardinality(ChildrenOf(s)) > 0
    BY <2>5, ChildrenCounted DEF ChildrenOf
  <2>7. \A f \in Families, q \in Persons : f # s => (<<f, q>> \in kids' <=> <<f, q>> \in kids)
    BY <2>1
  <2>8. ASSUME NEW f \in families' PROVE count'[f] = Cardinality(ChildrenOf(f)')
    <3>0. f \in families /\ f \in Families /\ count[f] = Cardinality(ChildrenOf(f))
      BY <2>1, <2>8 DEF CountInv, TypeOK
    <3>1. CASE f = s
      BY <2>1, <2>2, <2>3, <2>6, <3>0, <3>1 DEF TypeOK
    <3>2. CASE f # s
      <4>1. ChildrenOf(f)' = ChildrenOf(f)
        BY <1>b, <2>7, <3>0, <3>2
      <4> QED
        BY <2>1, <2>3, <3>0, <3>2, <4>1 DEF TypeOK
    <3> QED
      BY <3>1, <3>2
  <2> QED
    BY <1>a, <2>0, <2>1, <2>7, <2>8
<1>12. CASE FamilyDeleted(c)
  <2> SUFFICES ASSUME Counting PROVE CountInv'
    BY <1>n
  <2>0. PICK s : s = req[c].stream
    OBVIOUS
  <2>1. /\ Append(c, "drop") /\ families' = families \ {s} /\ UNCHANGED count
        /\ kids' = {k \in kids : k[1] # s}
    BY <1>12, <2>0 DEF FamilyDeleted
  <2>2. \A f \in Families, q \in Persons : f # s => (<<f, q>> \in kids' <=> <<f, q>> \in kids)
    BY <2>1
  <2>3. ASSUME NEW f \in families' PROVE count'[f] = Cardinality(ChildrenOf(f)')
    <3>1. f \in families /\ f \in Families /\ f # s
      BY <2>1, <2>3 DEF TypeOK
    <3>2. ChildrenOf(f)' = ChildrenOf(f)
      BY <1>b, <2>2, <3>1
    <3> QED
      BY <2>1, <3>1, <3>2 DEF CountInv
  <2> QED
    BY <1>a, <2>0, <2>1, <2>2, <2>3
<1>13. CASE PersonDeleted(c)
  <2> SUFFICES ASSUME Counting PROVE CountInv'
    BY <1>n
  <2>1. /\ Append(c, "delete") /\ UNCHANGED <<families, count>>
        /\ kids' = {k \in kids : k[2] # req[c].stream}
    BY <1>13 DEF PersonDeleted
  <2>2. Pending(c, "delete")
    BY <2>1, AppendStep
  <2>3. \A f \in Families : <<f, req[c].stream>> \notin kids
    BY <2>2 DEF CountInv
  <2>4. \A f \in Families, q \in Persons : <<f, q>> \in kids' <=> <<f, q>> \in kids
    BY <2>1, <2>3
  <2>5. ASSUME NEW f \in families' PROVE count'[f] = Cardinality(ChildrenOf(f)')
    <3>1. f \in families /\ f \in Families
      BY <2>1, <2>5 DEF TypeOK
    <3>2. ChildrenOf(f)' = ChildrenOf(f)
      BY <1>b, <2>4, <3>1
    <3> QED
      BY <2>1, <3>1, <3>2 DEF CountInv
  <2> QED
    BY <1>a, <2>1, <2>4, <2>5
<1>14. CASE PersonMerged(c)
  <2>1. Append(c, "merge")
    BY <1>14 DEF PersonMerged
  <2>2. "merge" \in setting.kinds
    BY <2>1, AppendStep DEF RaceInv, RequestsInUse
  <2> QED
    BY <1>n, <2>2 DEF Counting
<1>15. CASE Refuse(c)
  <2>1. UNCHANGED <<families, kids, count, version>> /\ req' = [req EXCEPT ![c] = Idle]
    BY <1>15 DEF Refuse, rows
  <2>2. \A d \in Slots : req'[d] # Idle => req'[d] = req[d]
    BY <2>1 DEF TypeOK
  <2> QED
    BY <1>c, <2>1, <2>2 DEF CountInv, ChildrenOf, Pending, Current
<1> QED
  BY <1>1, <1>2, <1>3, <1>4, <1>5, <1>6, <1>7, <1>8, <1>9, <1>10, <1>11, <1>12, <1>13, <1>14, <1>15
  DEF Step

-----------------------------------------------------------------------------
(* One request at a time.                                                  *)

(***************************************************************************)
(* A request decided in this state, with no other in hand, finds this      *)
(* state when it writes.                                                   *)
(***************************************************************************)
LEMMA GuardedDecided ==
  ASSUME TypeOK, RaceInv, GuardedInv, UNCHANGED <<setting, rows, version>>,
         NEW c \in setting.slots, c \in Slots, req[c] = Idle,
         NEW do, NEW s, NEW v, NEW arg, Decide(c, do, s, v, arg),
         [do |-> do, stream |-> s, expected |-> v, arg |-> arg] \in Request,
         do = "create" => {arg[1], arg[2]} \ {Nobody} \subseteq people,
         do = "link" => arg \in people /\ HasNoFamily(arg),
         do = "unlink" => <<s, arg>> \in kids,
         do = "delete" => Unlinked(s),
         do = "merge" => arg \in people /\ s \in people /\ arg # s
  PROVE  GuardedInv'
<1>1. /\ req'[c].do = do /\ req'[c].stream = s /\ req'[c].expected = v /\ req'[c].arg = arg
      /\ \A d \in Slots : d # c => req'[d] = req[d]
  BY DecideStep
<1>2. UNCHANGED <<people, families, couple, kids, edge, setting>>
  BY DEF rows
<1> SUFFICES ASSUME Guarded'
             PROVE  NobodyMissing' /\ OneFamilyEach' /\ EdgeWithFamily' /\ StillDecided'
  BY DEF GuardedInv
<1>3. Guarded
  BY <1>2 DEF Guarded
<1>4. NobodyMissing' /\ OneFamilyEach' /\ EdgeWithFamily'
  BY <1>2, <1>3 DEF GuardedInv, NobodyMissing, OneFamilyEach, EdgeWithFamily, Partners
<1>5. \A d \in Slots : d # c => req'[d] = Idle
  <2> SUFFICES ASSUME NEW d \in Slots, d # c, req[d] # Idle PROVE FALSE
    BY <1>1
  <2> QED
    BY <1>3, OneSlot DEF RaceInv, Guarded
<1>6. StillDecided'
  BY <1>1, <1>2, <1>5 DEF StillDecided, Pending, HasNoFamily, Unlinked, ChildFamilies, Partners
<1> QED
  BY <1>4, <1>6

(***************************************************************************)
(* After an append nothing is in hand.                                     *)
(***************************************************************************)
LEMMA GuardedAppended ==
  ASSUME TypeOK, RaceInv, Guarded, UNCHANGED setting, NEW c \in setting.slots, c \in Slots,
         req'[c] = Idle, \A d \in Slots : d # c => req'[d] = req[d]
  PROVE  StillDecided'
<1>1. ASSUME NEW d \in Slots, req'[d] # Idle PROVE FALSE
  <2>1. d # c /\ req[d] # Idle
    BY <1>1
  <2> QED
    BY <2>1, OneSlot DEF RaceInv, Guarded
<1> QED
  BY <1>1 DEF StillDecided, Pending

(***************************************************************************)
(* The survivor of a merge takes the merged person's place.                *)
(***************************************************************************)
LEMMA MergeKeepsTree ==
  ASSUME TypeOK, RaceInv, NobodyMissing, OneFamilyEach, EdgeWithFamily,
         NEW survivor \in people, NEW merged \in people, merged # survivor,
         people' = people \ {merged}, UNCHANGED families,
         couple' = [f \in Families |->
                      IF f \in families
                      THEN <<IF couple[f][1] = merged THEN survivor ELSE couple[f][1],
                             IF couple[f][2] = merged THEN survivor ELSE couple[f][2]>>
                      ELSE couple[f]],
         NEW others, others = {k \in kids : k[2] # merged},
         NEW moves, moves = (edge[merged].exists /\ ChildFamilies(merged) # {} /\ HasNoFamily(survivor)),
         IF moves THEN \E f \in ChildFamilies(merged) : kids' = others \union {<<f, survivor>>}
                  ELSE kids' = others,
         edge' = [edge EXCEPT ![survivor] = IF moves THEN edge[merged] ELSE @, ![merged] = NoEdge]
  PROVE  NobodyMissing' /\ OneFamilyEach' /\ EdgeWithFamily'
<1>1. survivor \in Persons /\ merged \in Persons
  BY DEF TypeOK
<1>2. ASSUME NEW f \in families PROVE Partners(f)' \subseteq people'
  <2>1. f \in Families /\ Partners(f) \subseteq people
    BY DEF TypeOK, NobodyMissing
  <2>2. /\ couple'[f][1] = (IF couple[f][1] = merged THEN survivor ELSE couple[f][1])
        /\ couple'[f][2] = (IF couple[f][2] = merged THEN survivor ELSE couple[f][2])
    BY <2>1
  <2> QED
    BY <2>1, <2>2 DEF Partners
<1>3. \A f \in Families : (<<f, survivor>> \in kids => f \in ChildFamilies(survivor))
                       /\ (<<f, merged>> \in kids => f \in ChildFamilies(merged))
  BY <1>1 DEF RaceInv, KidsHaveFamily, ChildFamilies
<1>4. /\ edge'[merged].exists = FALSE
      /\ moves => edge'[survivor].exists = TRUE
      /\ ~moves => edge'[survivor].exists = edge[survivor].exists
  <2>1. edge'[merged] = NoEdge /\ edge'[survivor] = IF moves THEN edge[merged] ELSE edge[survivor]
    BY <1>1 DEF TypeOK
  <2>2. moves => edge[merged].exists = TRUE
    BY <1>1 DEF TypeOK, Edge
  <2>3. NoEdge.exists = FALSE
    BY DEF NoEdge
  <2>4. CASE moves
    BY <2>1, <2>2, <2>3, <2>4
  <2>5. CASE ~moves
    BY <2>1, <2>3, <2>5
  <2> QED
    BY <2>4, <2>5
<1>5. \A p \in Persons : p # merged /\ p # survivor => edge'[p] = edge[p]
  BY <1>1 DEF TypeOK
<1>6. CASE ~moves
  <2>1. \A f, p : <<f, p>> \in kids' <=> <<f, p>> \in kids /\ p # merged
    BY <1>6
  <2>2. NobodyMissing'
    BY <1>2, <2>1 DEF NobodyMissing
  <2>3. OneFamilyEach'
    BY <2>1 DEF OneFamilyEach
  <2>4. EdgeWithFamily'
    BY <1>4, <1>5, <1>6, <2>1 DEF EdgeWithFamily
  <2> QED
    BY <2>2, <2>3, <2>4
<1>7. CASE moves
  <2>1. PICK g \in ChildFamilies(merged) : kids' = others \union {<<g, survivor>>}
    BY <1>7
  <2>2. g \in families /\ g \in Families /\ <<g, merged>> \in kids
    BY <2>1 DEF ChildFamilies, TypeOK
  <2>3. \A f \in Families : <<f, survivor>> \notin kids
    BY <1>3, <1>7 DEF HasNoFamily
  <2>4. \A f, p : <<f, p>> \in kids' <=> (<<f, p>> \in kids /\ p # merged) \/ (f = g /\ p = survivor)
    BY <2>1
  <2>5. NobodyMissing'
    BY <1>2, <2>4 DEF NobodyMissing
  <2>6. OneFamilyEach'
    BY <2>3, <2>4 DEF OneFamilyEach
  <2>7. EdgeWithFamily'
    <3> SUFFICES ASSUME NEW p \in Persons
                 PROVE  edge'[p].exists <=> \E f \in Families : <<f, p>> \in kids'
      BY DEF EdgeWithFamily
    <3>1. CASE p = merged
      BY <1>4, <2>4, <3>1
    <3>2. CASE p = survivor
      BY <1>4, <1>7, <2>2, <2>4, <3>2
    <3>3. CASE p # merged /\ p # survivor
      BY <1>5, <2>4, <3>3 DEF EdgeWithFamily
    <3> QED
      BY <3>1, <3>2, <3>3
  <2> QED
    BY <2>5, <2>6, <2>7
<1> QED
  BY <1>6, <1>7

(***************************************************************************)
(* One request at a time, every step keeps the tree whole.                 *)
(***************************************************************************)
LEMMA GuardedStep ==
  ASSUME TypeOK, RaceInv, GuardedInv, UNCHANGED setting,
         NEW c \in setting.slots, c \in Slots, Step(c)
  PROVE  GuardedInv'
<1>s. setting.people \subseteq Persons /\ setting.couples \subseteq Pair
  BY SettingsAssumption DEF TypeOK
<1>c. Guarded' = Guarded
  BY DEF Guarded
<1>n. ASSUME ~Guarded PROVE GuardedInv'
  BY <1>c, <1>n DEF GuardedInv
<1>a. ASSUME Guarded, NEW do \in {"create", "update", "link", "unlink", "drop", "delete", "merge"},
             Append(c, do), NobodyMissing' /\ OneFamilyEach' /\ EdgeWithFamily'
      PROVE  GuardedInv'
  <2>1. req'[c] = Idle /\ \A d \in Slots : d # c => req'[d] = req[d]
    BY <1>a, AppendStep
  <2>2. StillDecided'
    BY <1>a, <2>1, GuardedAppended
  <2> QED
    BY <1>a, <2>2 DEF GuardedInv
<1>1. CASE CreateFamily(c)
  <2>1. PICK f \in Families, pair \in setting.couples :
          {pair[1], pair[2]} \ {Nobody} \subseteq people /\ Decide(c, "create", f, -1, pair)
    BY <1>1 DEF CreateFamily
  <2>2. [do |-> "create", stream |-> f, expected |-> -1, arg |-> pair] \in Request
    BY <1>s DEF Request
  <2>3. req[c] = Idle /\ UNCHANGED <<setting, rows, version>>
    BY <1>1 DEF CreateFamily, Ready
  <2> QED
    BY <2>1, <2>2, <2>3, GuardedDecided
<1>2. CASE UpdateFamily(c)
  <2>1. PICK f \in families, places \in SUBSET {1, 2} : Decide(c, "update", f, version[f], places)
    BY <1>2 DEF UpdateFamily
  <2>2. [do |-> "update", stream |-> f, expected |-> version[f], arg |-> places] \in Request
    BY DEF Request, TypeOK
  <2>3. req[c] = Idle /\ UNCHANGED <<setting, rows, version>>
    BY <1>2 DEF UpdateFamily, Ready
  <2> QED
    BY <2>1, <2>2, <2>3, GuardedDecided
<1>3. CASE LinkChild(c)
  <2>1. PICK f \in families, p \in people : HasNoFamily(p) /\ Decide(c, "link", f, version[f], p)
    BY <1>3 DEF LinkChild, FamilyExpects
  <2>2. [do |-> "link", stream |-> f, expected |-> version[f], arg |-> p] \in Request
    BY DEF Request, TypeOK
  <2>3. req[c] = Idle /\ UNCHANGED <<setting, rows, version>>
    BY <1>3 DEF LinkChild, Ready
  <2> QED
    BY <2>1, <2>2, <2>3, GuardedDecided
<1>4. CASE UnlinkChild(c)
  <2>1. PICK f \in families, p \in Persons : f \in ChildFamilies(p) /\ Decide(c, "unlink", f, version[f], p)
    BY <1>4 DEF UnlinkChild, FamilyExpects
  <2>2. [do |-> "unlink", stream |-> f, expected |-> version[f], arg |-> p] \in Request
    BY DEF Request, TypeOK
  <2>3. req[c] = Idle /\ UNCHANGED <<setting, rows, version>>
    BY <1>4 DEF UnlinkChild, Ready
  <2>4. <<f, p>> \in kids
    BY <2>1 DEF ChildFamilies
  <2> QED
    BY <2>1, <2>2, <2>3, <2>4, GuardedDecided
<1>5. CASE DeleteFamily(c)
  <2>1. PICK f \in families : Decide(c, "drop", f, version[f], Nobody)
    BY <1>5 DEF DeleteFamily
  <2>2. [do |-> "drop", stream |-> f, expected |-> version[f], arg |-> Nobody] \in Request
    BY DEF Request, TypeOK
  <2>3. req[c] = Idle /\ UNCHANGED <<setting, rows, version>>
    BY <1>5 DEF DeleteFamily, Ready
  <2> QED
    BY <2>1, <2>2, <2>3, GuardedDecided
<1>6. CASE DeletePerson(c)
  <2>1. PICK p \in people : Unlinked(p) /\ Decide(c, "delete", p, version[p], Nobody)
    BY <1>6 DEF DeletePerson
  <2>2. [do |-> "delete", stream |-> p, expected |-> version[p], arg |-> Nobody] \in Request
    BY DEF Request, TypeOK
  <2>3. req[c] = Idle /\ UNCHANGED <<setting, rows, version>>
    BY <1>6 DEF DeletePerson, Ready
  <2> QED
    BY <2>1, <2>2, <2>3, GuardedDecided
<1>7. CASE MergePersons(c)
  <2>1. PICK survivor \in people, merged \in people :
          survivor # merged /\ Decide(c, "merge", survivor, version[survivor], merged)
    BY <1>7 DEF MergePersons
  <2>2. [do |-> "merge", stream |-> survivor, expected |-> version[survivor], arg |-> merged] \in Request
    BY DEF Request, TypeOK
  <2>3. req[c] = Idle /\ UNCHANGED <<setting, rows, version>>
    BY <1>7 DEF MergePersons, Ready
  <2> QED
    BY <2>1, <2>2, <2>3, GuardedDecided
<1>8. CASE FamilyCreated(c)
  <2> SUFFICES ASSUME Guarded PROVE GuardedInv'
    BY <1>n
  <2>1. /\ Append(c, "create") /\ families' = families \union {req[c].stream}
        /\ couple' = [couple EXCEPT ![req[c].stream] = req[c].arg]
        /\ UNCHANGED <<people, kids, edge>>
    BY <1>8 DEF FamilyCreated
  <2>2. Pending(c, "create") /\ req[c].stream \in Families
    BY <2>1, AppendStep, RequestShape
  <2>3. {req[c].arg[1], req[c].arg[2]} \ {Nobody} \subseteq people
    BY <2>2 DEF GuardedInv, StillDecided
  <2>4. ASSUME NEW f \in families' PROVE Partners(f)' \subseteq people'
    <3>1. CASE f = req[c].stream
      BY <2>1, <2>2, <2>3, <3>1 DEF Partners, TypeOK
    <3>2. CASE f # req[c].stream
      BY <2>1, <2>4, <3>2 DEF Partners, TypeOK, GuardedInv, NobodyMissing
    <3> QED
      BY <3>1, <3>2
  <2>5. NobodyMissing'
    BY <2>1, <2>4 DEF GuardedInv, NobodyMissing
  <2>6. OneFamilyEach' /\ EdgeWithFamily'
    BY <2>1 DEF GuardedInv, OneFamilyEach, EdgeWithFamily
  <2> QED
    BY <1>a, <2>1, <2>5, <2>6
<1>9. CASE FamilyUpdated(c)
  <2> SUFFICES ASSUME Guarded PROVE GuardedInv'
    BY <1>n
  <2>1. Append(c, "update") /\ UNCHANGED <<people, families, kids, edge>>
    BY <1>9 DEF FamilyUpdated
  <2>2. \A f \in families : Partners(f)' \subseteq Partners(f)
    BY <1>9, UpdateTakes
  <2>3. NobodyMissing'
    BY <2>1, <2>2 DEF GuardedInv, NobodyMissing
  <2>4. OneFamilyEach' /\ EdgeWithFamily'
    BY <2>1 DEF GuardedInv, OneFamilyEach, EdgeWithFamily
  <2> QED
    BY <1>a, <2>1, <2>3, <2>4
<1>10. CASE ChildLinked(c)
  <2> SUFFICES ASSUME Guarded PROVE GuardedInv'
    BY <1>n
  <2>0. Append(c, "link")
    BY <1>10 DEF ChildLinked
  <2>1. PICK s \in Families, p \in Persons : s = req[c].stream /\ p = req[c].arg
    BY <2>0, AppendStep, RequestShape
  <2>2. /\ kids' = kids \union {<<s, p>>} /\ UNCHANGED <<people, families, couple>>
        /\ s \in families => edge' = [edge EXCEPT ![p] = EdgeTo(s)]
    BY <1>10, <2>1 DEF ChildLinked
  <2>3. Pending(c, "link") /\ (req[c].expected < 0 \/ Current(c)) /\ req[c].expected \in Int
    BY <2>0, AppendStep, RequestShape
  <2>4. s \in families
    BY <2>1, <2>3 DEF RaceInv, FamilyGuarded
  <2>5. p \in people /\ HasNoFamily(p)
    BY <2>1, <2>3 DEF GuardedInv, StillDecided
  <2>6. \A f \in Families : <<f, p>> \notin kids
    BY <2>5 DEF HasNoFamily, ChildFamilies, RaceInv, KidsHaveFamily
  <2>7. EdgeTo(s).exists = TRUE
    BY DEF EdgeTo
  <2>8. NobodyMissing'
    BY <2>2, <2>5 DEF GuardedInv, NobodyMissing, Partners
  <2>9. OneFamilyEach'
    BY <2>2, <2>6 DEF GuardedInv, OneFamilyEach
  <2>10. EdgeWithFamily'
    <3> SUFFICES ASSUME NEW q \in Persons
                 PROVE  edge'[q].exists <=> \E f \in Families : <<f, q>> \in kids'
      BY DEF EdgeWithFamily
    <3>1. CASE q = p
      BY <2>2, <2>4, <2>7, <3>1 DEF TypeOK
    <3>2. CASE q # p
      BY <2>2, <2>4, <3>2 DEF TypeOK, GuardedInv, EdgeWithFamily
    <3> QED
      BY <3>1, <3>2
  <2> QED
    BY <1>a, <2>0, <2>8, <2>9, <2>10
<1>11. CASE ChildUnlinked(c)
  <2> SUFFICES ASSUME Guarded PROVE GuardedInv'
    BY <1>n
  <2>0. Append(c, "unlink")
    BY <1>11 DEF ChildUnlinked
  <2>1. PICK s \in Families, p \in Persons : s = req[c].stream /\ p = req[c].arg
    BY <2>0, AppendStep, RequestShape
  <2>2. /\ kids' = kids \ {<<s, p>>} /\ UNCHANGED <<people, families, couple>>
        /\ edge' = [edge EXCEPT ![p] = NoEdge]
    BY <1>11, <2>1 DEF ChildUnlinked
  <2>3. Pending(c, "unlink")
    BY <2>0, AppendStep
  <2>4. <<s, p>> \in kids
    BY <2>1, <2>3 DEF GuardedInv, StillDecided
  <2>5. \A f \in Families : <<f, p>> \notin kids'
    BY <2>2, <2>4 DEF GuardedInv, OneFamilyEach
  <2>6. NoEdge.exists = FALSE
    BY DEF NoEdge
  <2>7. NobodyMissing' /\ OneFamilyEach'
    BY <2>2 DEF GuardedInv, NobodyMissing, Partners, OneFamilyEach
  <2>8. EdgeWithFamily'
    <3> SUFFICES ASSUME NEW q \in Persons
                 PROVE  edge'[q].exists <=> \E f \in Families : <<f, q>> \in kids'
      BY DEF EdgeWithFamily
    <3>1. CASE q = p
      BY <2>2, <2>5, <2>6, <3>1 DEF TypeOK
    <3>2. CASE q # p
      BY <2>2, <3>2 DEF TypeOK, GuardedInv, EdgeWithFamily
    <3> QED
      BY <3>1, <3>2
  <2> QED
    BY <1>a, <2>0, <2>7, <2>8
<1>12. CASE FamilyDeleted(c)
  <2> SUFFICES ASSUME Guarded PROVE GuardedInv'
    BY <1>n
  <2>0. Append(c, "drop")
    BY <1>12 DEF FamilyDeleted
  <2>1. PICK s \in Families : s = req[c].stream
    BY <2>0, AppendStep, RequestShape
  <2>2. /\ families' = families \ {s} /\ UNCHANGED <<people, couple>>
        /\ kids' = {k \in kids : k[1] # s}
        /\ edge' = [p \in Persons |-> IF <<s, p>> \in kids THEN NoEdge ELSE edge[p]]
    BY <1>12, <2>1 DEF FamilyDeleted
  <2>3. \A f, p : <<f, p>> \in kids' <=> <<f, p>> \in kids /\ f # s
    BY <2>2
  <2>4. NoEdge.exists = FALSE
    BY DEF NoEdge
  <2>5. NobodyMissing' /\ OneFamilyEach'
    BY <2>2, <2>3 DEF GuardedInv, NobodyMissing, Partners, OneFamilyEach
  <2>6. EdgeWithFamily'
    <3> SUFFICES ASSUME NEW q \in Persons
                 PROVE  edge'[q].exists <=> \E f \in Families : <<f, q>> \in kids'
      BY DEF EdgeWithFamily
    <3>1. CASE <<s, q>> \in kids
      BY <2>2, <2>3, <2>4, <3>1 DEF GuardedInv, OneFamilyEach
    <3>2. CASE <<s, q>> \notin kids
      BY <2>2, <2>3, <3>2 DEF GuardedInv, EdgeWithFamily
    <3> QED
      BY <3>1, <3>2
  <2> QED
    BY <1>a, <2>0, <2>5, <2>6
<1>13. CASE PersonDeleted(c)
  <2> SUFFICES ASSUME Guarded PROVE GuardedInv'
    BY <1>n
  <2>0. Append(c, "delete")
    BY <1>13 DEF PersonDeleted
  <2>1. PICK p \in Persons : p = req[c].stream
    BY <2>0, AppendStep, RequestShape
  <2>2. /\ people' = people \ {p} /\ UNCHANGED <<families, couple>>
        /\ kids' = {k \in kids : k[2] # p}
        /\ edge' = [edge EXCEPT ![p] = NoEdge]
    BY <1>13, <2>1 DEF PersonDeleted
  <2>3. Unlinked(p)
    BY <2>0, <2>1, AppendStep DEF GuardedInv, StillDecided
  <2>4. \A f \in families : p \notin Partners(f)
    BY <2>3 DEF Unlinked
  <2>5. \A f, q : <<f, q>> \in kids' <=> <<f, q>> \in kids /\ q # p
    BY <2>2
  <2>6. NoEdge.exists = FALSE
    BY DEF NoEdge
  <2>7. NobodyMissing' /\ OneFamilyEach'
    BY <2>2, <2>4, <2>5 DEF GuardedInv, NobodyMissing, Partners, OneFamilyEach
  <2>8. EdgeWithFamily'
    BY <2>2, <2>5, <2>6 DEF TypeOK, GuardedInv, EdgeWithFamily
  <2> QED
    BY <1>a, <2>0, <2>7, <2>8
<1>14. CASE PersonMerged(c)
  <2> SUFFICES ASSUME Guarded PROVE GuardedInv'
    BY <1>n
  <2>0. Append(c, "merge")
    BY <1>14 DEF PersonMerged
  <2>1. PICK survivor \in Persons, merged \in Persons :
          survivor = req[c].stream /\ merged = req[c].arg
    BY <2>0, AppendStep, RequestShape
  <2>2. survivor \in people /\ merged \in people /\ merged # survivor
    BY <2>0, <2>1, AppendStep DEF GuardedInv, StillDecided
  <2>3. PICK others, moves :
          /\ others = {k \in kids : k[2] # merged}
          /\ moves = (edge[merged].exists /\ ChildFamilies(merged) # {} /\ HasNoFamily(survivor))
    OBVIOUS
  <2>4. /\ people' = people \ {merged} /\ UNCHANGED families
        /\ couple' = [f \in Families |->
                        IF f \in families
                        THEN <<IF couple[f][1] = merged THEN survivor ELSE couple[f][1],
                               IF couple[f][2] = merged THEN survivor ELSE couple[f][2]>>
                        ELSE couple[f]]
        /\ IF moves THEN \E f \in ChildFamilies(merged) : kids' = others \union {<<f, survivor>>}
                    ELSE kids' = others
        /\ edge' = [edge EXCEPT ![survivor] = IF moves THEN edge[merged] ELSE @, ![merged] = NoEdge]
    BY <1>14, <2>1, <2>2, <2>3 DEF PersonMerged, InheritedEdge
  <2>5. NobodyMissing' /\ OneFamilyEach' /\ EdgeWithFamily'
    BY <2>2, <2>3, <2>4, MergeKeepsTree DEF GuardedInv
  <2> QED
    BY <1>a, <2>0, <2>5
<1>15. CASE Refuse(c)
  <2> SUFFICES ASSUME Guarded PROVE GuardedInv'
    BY <1>n
  <2>1. UNCHANGED <<people, families, couple, kids, edge>> /\ req' = [req EXCEPT ![c] = Idle]
    BY <1>15 DEF Refuse, rows
  <2>2. req'[c] = Idle /\ \A d \in Slots : d # c => req'[d] = req[d]
    BY <2>1 DEF TypeOK
  <2>3. StillDecided'
    BY <2>2, GuardedAppended
  <2>4. NobodyMissing' /\ OneFamilyEach' /\ EdgeWithFamily'
    BY <2>1 DEF GuardedInv, NobodyMissing, OneFamilyEach, EdgeWithFamily, Partners
  <2> QED
    BY <2>3, <2>4 DEF GuardedInv
<1> QED
  BY <1>1, <1>2, <1>3, <1>4, <1>5, <1>6, <1>7, <1>8, <1>9, <1>10, <1>11, <1>12, <1>13, <1>14, <1>15
  DEF Step

-----------------------------------------------------------------------------
(* Nobody is their own ancestor.                                           *)

(***************************************************************************)
(* The parents drawn anew: everyone keeps parents they had, and those      *)
(* outside a closed set may be given parents inside it.  The order that    *)
(* puts the closed set above everyone else has no cycle.                   *)
(***************************************************************************)
LEMMA Raise ==
  ASSUME NEW up, Acyclic(up), NEW L, ClosedUp(up, L), NEW w,
         \A x \in Persons : w[x] \subseteq Persons,
         \A x \in Persons : w[x] \subseteq up[x] \/ (x \notin L /\ w[x] \subseteq up[x] \union L)
  PROVE  Acyclic(w)
<1>1. PICK R : Orders(R, up)
  BY DEF Acyclic
<1> DEFINE Over(x, y) == \/ x \notin L /\ y \in L
                         \/ (x \in L <=> y \in L) /\ <<x, y>> \in R
           Q == {e \in Persons \X Persons : Over(e[1], e[2])}
<1>2. \A x, y \in Persons : <<x, y>> \in Q <=> Over(x, y)
  OBVIOUS
<1>3. \A x \in Persons : <<x, x>> \notin Q
  BY <1>1, <1>2 DEF Orders
<1>4. ASSUME NEW x \in Persons, NEW y \in Persons, NEW z \in Persons, <<x, y>> \in Q, <<y, z>> \in Q
      PROVE  <<x, z>> \in Q
  <2>1. Over(x, y) /\ Over(y, z)
    BY <1>2, <1>4
  <2>2. <<x, y>> \in R /\ <<y, z>> \in R => <<x, z>> \in R
    BY <1>1 DEF Orders
  <2>3. Over(x, z)
    BY <2>1, <2>2
  <2> QED
    BY <1>2, <2>3
<1>5. ASSUME NEW x \in Persons, NEW y \in w[x] PROVE <<x, y>> \in Q
  <2>1. y \in Persons
    OBVIOUS
  <2>2. CASE y \in up[x]
    <3>1. <<x, y>> \in R
      BY <1>1, <2>2 DEF Orders
    <3>2. x \in L => y \in L
      BY <2>2 DEF ClosedUp
    <3> QED
      BY <1>2, <2>1, <3>1, <3>2
  <2>3. CASE y \notin up[x]
    <3>1. x \notin L /\ y \in L
      BY <2>3
    <3> QED
      BY <1>2, <2>1, <3>1
  <2> QED
    BY <2>2, <2>3
<1>6. Orders(Q, w)
  BY <1>3, <1>4, <1>5 DEF Orders
<1> QED
  BY <1>6 DEF Acyclic

(***************************************************************************)
(* Parents are persons.                                                    *)
(***************************************************************************)
LEMMA ParentsArePersons ==
  ASSUME TypeOK
  PROVE  \A p \in Persons : AllUp[p] = AllParents(p) /\ AllParents(p) \subseteq Persons
<1>1. \A f \in Families : Partners(f) \subseteq Persons
  BY DEF TypeOK, Partners, Pair
<1>2. \A p : ChildFamilies(p) \subseteq Families
  BY DEF TypeOK, ChildFamilies
<1>3. ASSUME NEW p PROVE AllParents(p) \subseteq Persons
  BY <1>1, <1>2 DEF AllParents
<1> QED
  BY <1>3 DEF AllUp

(***************************************************************************)
(* Where every child has one family, isAncestor's answers leave it no      *)
(* choice: one generation up are all parents.                              *)
(***************************************************************************)
LEMMA AnswersAreParents ==
  ASSUME TypeOK, OneFamilyEach, NEW a \in Answers, NEW p \in Persons
  PROVE  Parents(a, p) = AllParents(p)
<1>1. ChildFamilies(p) \subseteq Families /\ \A f, g \in ChildFamilies(p) : f = g
  BY DEF TypeOK, ChildFamilies, OneFamilyEach
<1>2. IF ChildFamilies(p) = {} THEN a[p] = Nobody ELSE a[p] \in ChildFamilies(p)
  BY DEF Answers
<1>3. CASE ChildFamilies(p) = {}
  BY <1>2, <1>3 DEF Parents, AllParents
<1>4. CASE ChildFamilies(p) # {}
  <2>1. a[p] # Nobody /\ ChildFamilies(p) = {a[p]}
    BY <1>1, <1>2, <1>4, NobodyApart
  <2> QED
    BY <2>1 DEF Parents, AllParents
<1> QED
  BY <1>3, <1>4

(***************************************************************************)
(* A person's line is closed, and all in it but the person are above the   *)
(* person in every order of the tree.                                      *)
(***************************************************************************)
LEMMA LineFacts ==
  ASSUME TypeOK, OneFamilyEach, NEW a \in Answers, NEW p \in Persons
  PROVE  /\ p \in Line(a, p) /\ ClosedUp(AllUp, Line(a, p))
         /\ \A R : Orders(R, AllUp) => \A x \in Line(a, p) : x = p \/ <<p, x>> \in R
<1>1. \A q \in Persons : AllUp[q] = Parents(a, q) /\ AllUp[q] \subseteq Persons
  BY ParentsArePersons, AnswersAreParents
<1>2. p \in Line(a, p) /\ Line(a, p) \subseteq Persons
  BY DEF Line
<1>3. ASSUME NEW x \in Line(a, p), NEW y \in AllUp[x] PROVE y \in Line(a, p)
  <2>1. y \in Persons /\ y \in Parents(a, x)
    BY <1>1, <1>2
  <2>2. ASSUME NEW S \in SUBSET Persons, p \in S, Closed(a, S) PROVE y \in S
    <3>1. x \in S
      BY <2>2 DEF Line
    <3> QED
      BY <2>1, <2>2, <3>1 DEF Closed
  <2> QED
    BY <2>1, <2>2 DEF Line
<1>4. ASSUME NEW R, Orders(R, AllUp), NEW x \in Line(a, p) PROVE x = p \/ <<p, x>> \in R
  <2> DEFINE S == {q \in Persons : q = p \/ <<p, q>> \in R}
  <2>1. ASSUME NEW q \in S, NEW y \in Parents(a, q) PROVE y \in S
    <3>1. q \in Persons /\ y \in Persons /\ <<q, y>> \in R
      BY <1>1, <1>4, <2>1 DEF Orders
    <3>2. <<p, q>> \in R => <<p, y>> \in R
      BY <1>4, <3>1 DEF Orders
    <3> QED
      BY <3>1, <3>2
  <2>2. S \in SUBSET Persons /\ p \in S /\ Closed(a, S)
    BY <2>1 DEF Closed
  <2>3. x \in S
    BY <2>2 DEF Line
  <2> QED
    BY <2>3
<1> QED
  BY <1>2, <1>3, <1>4 DEF ClosedUp

(***************************************************************************)
(* Whatever takes child rows, families, partners or nothing at all away,   *)
(* and gives nobody any, leaves the tree without a cycle.                  *)
(***************************************************************************)
LEMMA FewerParents ==
  ASSUME TypeOK, Acyclic(AllUp),
         \A p \in Persons : ChildFamilies(p)' \subseteq ChildFamilies(p),
         \A f \in families : Partners(f)' \subseteq Partners(f)
  PROVE  Acyclic(AllUp)'
<1>1. ASSUME NEW p \in Persons PROVE AllUp'[p] \subseteq AllUp[p] /\ AllUp'[p] \subseteq Persons
  <2>1. \A f \in ChildFamilies(p)' : f \in ChildFamilies(p) /\ Partners(f)' \subseteq Partners(f)
    BY DEF ChildFamilies
  <2>2. AllParents(p)' \subseteq AllParents(p)
    BY <2>1 DEF AllParents
  <2>3. AllUp'[p] = AllParents(p)'
    BY DEF AllUp
  <2> QED
    BY <2>2, <2>3, ParentsArePersons
<1>2. ClosedUp(AllUp, {})
  BY DEF ClosedUp
<1>3. Acyclic(AllUp')
  BY <1>1, <1>2, Raise
<1> QED
  BY <1>3 DEF Acyclic, Orders

(***************************************************************************)
(* Linking a child that is in no partner's line (projectChildLinked after  *)
(* LinkChild's circular ancestry detection).                               *)
(***************************************************************************)
LEMMA LinkKeepsOrder ==
  ASSUME TypeOK, OneFamilyEach, Acyclic(AllUp), NEW f \in Families, NEW p \in Persons,
         LinkIsApart(f, p), kids' = kids \union {<<f, p>>}, families' = families, couple' = couple
  PROVE  Acyclic(AllUp)'
<1>1. PICK a \in Answers : ClosesNoCycle(a, f, p)
  BY DEF LinkIsApart
<1>2. Partners(f) \subseteq Persons
  BY DEF TypeOK, Partners, Pair
<1> DEFINE L == UNION {Line(a, q) : q \in Partners(f)}
<1>3. ClosedUp(AllUp, L) /\ Partners(f) \subseteq L
  BY <1>2, LineFacts DEF ClosedUp
<1>4. p \notin L
  BY <1>1 DEF ClosesNoCycle, IsAncestor
<1>5. ASSUME NEW x \in Persons
      PROVE  /\ AllUp'[x] \subseteq Persons
             /\ AllUp'[x] \subseteq AllUp[x] \/ (x \notin L /\ AllUp'[x] \subseteq AllUp[x] \union L)
  <2>1. AllUp'[x] = AllParents(x)' /\ AllUp[x] = AllParents(x) /\ AllParents(x) \subseteq Persons
    BY ParentsArePersons DEF AllUp
  <2>2. \A g : Partners(g)' = Partners(g)
    BY DEF Partners
  <2>3. CASE x # p
    <3>1. ChildFamilies(x)' = ChildFamilies(x)
      BY <2>3 DEF ChildFamilies
    <3> QED
      BY <2>1, <2>2, <3>1 DEF AllParents
  <2>4. CASE x = p
    <3>1. ChildFamilies(x)' \subseteq ChildFamilies(x) \union {f}
      BY DEF ChildFamilies
    <3>2. AllParents(x)' \subseteq AllParents(x) \union Partners(f)
      BY <2>2, <3>1 DEF AllParents
    <3> QED
      BY <1>2, <1>3, <1>4, <2>1, <2>4, <3>2
  <2> QED
    BY <2>3, <2>4
<1> HIDE DEF L
<1>6. Acyclic(AllUp')
  BY <1>3, <1>5, Raise
<1> QED
  BY <1>6 DEF Acyclic, Orders

(***************************************************************************)
(* Merging two persons of whom neither is above the other.  First the      *)
(* survivor is given the merged person's parents; then whoever has the     *)
(* merged person as a parent is given the survivor instead.                *)
(***************************************************************************)
LEMMA MergeKeepsOrder ==
  ASSUME NEW up, NEW w, NEW s \in Persons, NEW m \in Persons, NEW S, NEW M,
         \A x \in Persons : up[x] \subseteq Persons,
         Acyclic(up), ClosedUp(up, S), ClosedUp(up, M), s \in S, m \in M, m \notin S, s \notin M,
         \A R : Orders(R, up) => \A x \in M : x = m \/ <<m, x>> \in R,
         w[m] = {}, w[s] \subseteq up[s] \union up[m],
         \A x \in Persons \ {s, m} : w[x] \subseteq (up[x] \ {m}) \union (IF m \in up[x] THEN {s} ELSE {})
  PROVE  Acyclic(w)
<1>1. PICK R : Orders(R, up)
  BY DEF Acyclic
<1>2. \A x \in M : m \notin up[x]
  BY <1>1 DEF Orders, ClosedUp
<1>3. ClosedUp(up, M \ {m})
  BY <1>2 DEF ClosedUp
<1>4. up[m] \subseteq M \ {m}
  BY <1>2 DEF ClosedUp
<1>5. PICK v : v = [x \in Persons |-> IF x = s THEN up[s] \union up[m] ELSE up[x]]
  OBVIOUS
<1>6. \A x \in Persons : v[x] = IF x = s THEN up[s] \union up[m] ELSE up[x]
  BY <1>5
<1>7. /\ \A x \in Persons : v[x] \subseteq Persons
      /\ \A x \in Persons : \/ v[x] \subseteq up[x]
                            \/ x \notin M \ {m} /\ v[x] \subseteq up[x] \union (M \ {m})
  BY <1>4, <1>6
<1>8. Acyclic(v)
  BY <1>3, <1>7, Raise
<1>9. PICK L : L = S \union (M \ {m})
  OBVIOUS
<1>10. ClosedUp(v, L)
  <2>1. L \subseteq Persons
    BY <1>9 DEF ClosedUp
  <2>2. ASSUME NEW x \in L PROVE v[x] \subseteq L
    BY <1>3, <1>4, <1>6, <1>9, <2>1, <2>2 DEF ClosedUp
  <2> QED
    BY <2>1, <2>2 DEF ClosedUp
<1>11. \A x \in Persons : m \in up[x] => x \notin L
  BY <1>2, <1>9 DEF ClosedUp
<1>12. ASSUME NEW x \in Persons
       PROVE  /\ w[x] \subseteq Persons
              /\ w[x] \subseteq v[x] \/ (x \notin L /\ w[x] \subseteq v[x] \union L)
  <2>1. CASE x = m
    BY <2>1
  <2>2. CASE x = s
    BY <1>6, <1>7, <2>2
  <2>3. CASE x \notin {s, m}
    BY <1>6, <1>7, <1>9, <1>11, <2>3
  <2> QED
    BY <2>1, <2>2, <2>3
<1> QED
  BY <1>8, <1>10, <1>12, Raise

(***************************************************************************)
(* The same applied to projectPersonMerged.                                *)
(***************************************************************************)
LEMMA PersonMergeKeepsOrder ==
  ASSUME TypeOK, OneFamilyEach, Acyclic(AllUp), NEW s \in Persons, NEW m \in Persons, s # m,
         <<s, m>> \in ApartMerges, families' = families,
         couple' = [f \in Families |->
                      IF f \in families
                      THEN <<IF couple[f][1] = m THEN s ELSE couple[f][1],
                             IF couple[f][2] = m THEN s ELSE couple[f][2]>>
                      ELSE couple[f]],
         kids' \subseteq {k \in kids : k[2] # m} \union {<<f, s>> : f \in ChildFamilies(m)}
  PROVE  Acyclic(AllUp)'
<1>1. PICK a \in Answers : ~IsAncestor(a, m, s) /\ ~IsAncestor(a, s, m)
  BY DEF ApartMerges, MergeIsApart
<1>2. PICK S, M : S = Line(a, s) /\ M = Line(a, m)
  OBVIOUS
<1>3. /\ ClosedUp(AllUp, S) /\ s \in S /\ m \notin S
      /\ ClosedUp(AllUp, M) /\ m \in M /\ s \notin M
      /\ \A R : Orders(R, AllUp) => \A x \in M : x = m \/ <<m, x>> \in R
  BY <1>1, <1>2, LineFacts DEF IsAncestor
<1>4. \A x \in Persons : AllUp[x] = AllParents(x) /\ AllUp[x] \subseteq Persons /\ AllUp'[x] = AllParents(x)'
  BY ParentsArePersons DEF AllUp
<1>5. PICK R : Orders(R, AllUp)
  BY DEF Acyclic
<1>6. m \notin AllUp[m] /\ m \notin AllUp[s]
  BY <1>3, <1>5 DEF Orders, ClosedUp
<1>7. ASSUME NEW f \in families
      PROVE  Partners(f)' \subseteq (Partners(f) \ {m}) \union (IF m \in Partners(f) THEN {s} ELSE {})
  <2>1. /\ couple'[f][1] = IF couple[f][1] = m THEN s ELSE couple[f][1]
        /\ couple'[f][2] = IF couple[f][2] = m THEN s ELSE couple[f][2]
    BY DEF TypeOK
  <2>2. m # Nobody
    BY NobodyApart
  <2> QED
    BY <2>1, <2>2 DEF Partners
<1>8. ASSUME NEW x \in Persons, NEW F, F \subseteq ChildFamilies(x)
      PROVE  LET W == UNION {Partners(f)' : f \in F} IN
             W \subseteq (AllUp[x] \ {m}) \union (IF m \in AllUp[x] THEN {s} ELSE {})
  <2>1. AllUp[x] = UNION {Partners(f) : f \in ChildFamilies(x)}
    BY <1>4 DEF AllParents
  <2>2. \A f \in ChildFamilies(x) : Partners(f) \subseteq AllUp[x]
    BY <2>1
  <2>3. \A f \in F : f \in families /\ Partners(f) \subseteq AllUp[x]
    BY <1>8, <2>2 DEF ChildFamilies
  <2> QED
    BY <1>7, <2>3
<1>9. AllUp'[m] = {}
  <2>1. ChildFamilies(m)' = {}
    BY DEF ChildFamilies
  <2> QED
    BY <1>4, <2>1 DEF AllParents
<1>10. AllUp'[s] \subseteq AllUp[s] \union AllUp[m]
  <2>1. ChildFamilies(s)' \subseteq ChildFamilies(s) \union ChildFamilies(m)
    BY DEF ChildFamilies
  <2>2. UNION {Partners(f)' : f \in ChildFamilies(s)} \subseteq AllUp[s]
    BY <1>6, <1>8
  <2>3. UNION {Partners(f)' : f \in ChildFamilies(m)} \subseteq AllUp[m]
    BY <1>6, <1>8
  <2>4. AllUp'[s] = UNION {Partners(f)' : f \in ChildFamilies(s)'}
    BY <1>4 DEF AllParents
  <2> QED
    BY <2>1, <2>2, <2>3, <2>4
<1>11. ASSUME NEW x \in Persons \ {s, m}
       PROVE  AllUp'[x] \subseteq (AllUp[x] \ {m}) \union (IF m \in AllUp[x] THEN {s} ELSE {})
  <2>1. ChildFamilies(x)' \subseteq ChildFamilies(x)
    BY DEF ChildFamilies
  <2>2. AllUp'[x] = UNION {Partners(f)' : f \in ChildFamilies(x)'}
    BY <1>4 DEF AllParents
  <2> QED
    BY <1>8, <2>1, <2>2
<1>12. Acyclic(AllUp')
  BY <1>3, <1>4, <1>9, <1>10, <1>11, MergeKeepsOrder
<1> QED
  BY <1>12 DEF Acyclic, Orders

(***************************************************************************)
(* What a check finds of lines of descent depends on the families, their   *)
(* partners and the child rows only.                                       *)
(***************************************************************************)
LEMMA SameLines ==
  ASSUME UNCHANGED <<families, couple, kids>>
  PROVE  ApartLinks' = ApartLinks /\ ApartMerges' = ApartMerges /\ AllUp' = AllUp
<1>1. \A f : Partners(f)' = Partners(f)
  BY DEF Partners
<1>2. \A p : ChildFamilies(p)' = ChildFamilies(p)
  BY DEF ChildFamilies
<1>3. Answers' = Answers
  BY <1>2 DEF Answers
<1>4. \A a, p : Parents(a, p)' = Parents(a, p)
  BY <1>1 DEF Parents
<1>5. \A a, S : Closed(a, S)' <=> Closed(a, S)
  BY <1>4 DEF Closed
<1>6. \A a, p : Line(a, p)' = Line(a, p)
  BY <1>5 DEF Line
<1>7. \A a, q, p : IsAncestor(a, q, p)' <=> IsAncestor(a, q, p)
  BY <1>6 DEF IsAncestor
<1>8. \A a, p : Returns(a, p)' <=> Returns(a, p)
  BY <1>4, <1>6, <1>7 DEF Returns
<1>9. \A a, f, p : ClosesNoCycle(a, f, p)' <=> ClosesNoCycle(a, f, p)
  BY <1>1, <1>7, <1>8 DEF ClosesNoCycle
<1>10. \A f, p : LinkIsApart(f, p)' <=> LinkIsApart(f, p)
  BY <1>3, <1>9 DEF LinkIsApart
<1>11. \A s, m : MergeIsApart(s, m)' <=> MergeIsApart(s, m)
  BY <1>3, <1>7 DEF MergeIsApart
<1>12. ApartLinks' = ApartLinks
  BY <1>10 DEF ApartLinks
<1>13. ApartMerges' = ApartMerges
  BY <1>11 DEF ApartMerges
<1>14. \A p : AllParents(p)' = AllParents(p)
  BY <1>1, <1>2 DEF AllParents
<1> QED
  BY <1>12, <1>13, <1>14 DEF AllUp

(***************************************************************************)
(* A request decided in this state, with no other in hand, finds lines of  *)
(* descent as its check found them.                                        *)
(***************************************************************************)
LEMMA LineDecided ==
  ASSUME TypeOK, RaceInv, LineInv, UNCHANGED <<setting, rows, version>>,
         NEW c \in setting.slots, c \in Slots, req[c] = Idle,
         NEW do, NEW s, NEW v, NEW arg, Decide(c, do, s, v, arg),
         [do |-> do, stream |-> s, expected |-> v, arg |-> arg] \in Request,
         do = "link" => <<s, arg>> \in ApartLinks,
         do = "merge" => <<s, arg>> \in ApartMerges
  PROVE  LineInv'
<1>1. /\ req'[c].do = do /\ req'[c].stream = s /\ req'[c].arg = arg
      /\ \A d \in Slots : d # c => req'[d] = req[d]
  BY DecideStep
<1>2. ApartLinks' = ApartLinks /\ ApartMerges' = ApartMerges /\ AllUp' = AllUp
  BY SameLines DEF rows
<1> SUFFICES ASSUME Guarded PROVE Acyclic(AllUp)' /\ StillApart'
  BY DEF LineInv, Guarded
<1>3. Acyclic(AllUp)'
  BY <1>2 DEF LineInv, Acyclic, Orders
<1>4. ASSUME NEW d \in Slots, d # c PROVE req'[d] = Idle
  <2>1. req[d] # Idle => d = c
    BY OneSlot DEF RaceInv, Guarded
  <2> QED
    BY <1>1, <1>4, <2>1
<1>5. StillApart'
  BY <1>1, <1>2, <1>4 DEF StillApart, Pending
<1> QED
  BY <1>3, <1>5

(***************************************************************************)
(* Every step of a request keeps the tree without a cycle.                 *)
(***************************************************************************)
LEMMA LineStep ==
  ASSUME TypeOK, RaceInv, GuardedInv, LineInv, UNCHANGED setting,
         NEW c \in setting.slots, c \in Slots, Step(c)
  PROVE  LineInv'
<1>s. setting.people \subseteq Persons /\ setting.couples \subseteq Pair
  BY SettingsAssumption DEF TypeOK
<1> SUFFICES ASSUME Guarded PROVE LineInv'
  BY DEF Guarded, LineInv
<1>i. OneFamilyEach /\ Acyclic(AllUp) /\ StillApart /\ StillDecided
  BY DEF GuardedInv, LineInv
<1>f. \A f \in Families, p \in Persons : <<f, p>> \in kids => f \in families
  BY DEF RaceInv, KidsHaveFamily
<1>e. ASSUME req'[c] = Idle, \A d \in Slots : d # c => req'[d] = req[d], Acyclic(AllUp)'
      PROVE  LineInv'
  <2>1. ASSUME NEW d \in Slots, req'[d] # Idle PROVE FALSE
    <3>1. d # c /\ req[d] # Idle
      BY <1>e, <2>1
    <3> QED
      BY <3>1, OneSlot DEF RaceInv, Guarded
  <2>2. StillApart'
    BY <2>1 DEF StillApart, Pending
  <2> QED
    BY <1>e, <2>2 DEF LineInv
<1>a. ASSUME NEW do \in {"create", "update", "link", "unlink", "drop", "delete", "merge"},
             Append(c, do), Acyclic(AllUp)'
      PROVE  LineInv'
  <2>1. req'[c] = Idle /\ \A d \in Slots : d # c => req'[d] = req[d]
    BY <1>a, AppendStep
  <2> QED
    BY <1>a, <1>e, <2>1
<1>1. CASE CreateFamily(c)
  <2>1. PICK f \in Families, pair \in setting.couples : Decide(c, "create", f, -1, pair)
    BY <1>1 DEF CreateFamily
  <2>2. [do |-> "create", stream |-> f, expected |-> -1, arg |-> pair] \in Request
    BY <1>s DEF Request
  <2>3. req[c] = Idle /\ UNCHANGED <<setting, rows, version>>
    BY <1>1 DEF CreateFamily, Ready
  <2> QED
    BY <2>1, <2>2, <2>3, LineDecided
<1>2. CASE UpdateFamily(c)
  <2>1. PICK f \in families, places \in SUBSET {1, 2} : Decide(c, "update", f, version[f], places)
    BY <1>2 DEF UpdateFamily
  <2>2. [do |-> "update", stream |-> f, expected |-> version[f], arg |-> places] \in Request
    BY DEF Request, TypeOK
  <2>3. req[c] = Idle /\ UNCHANGED <<setting, rows, version>>
    BY <1>2 DEF UpdateFamily, Ready
  <2> QED
    BY <2>1, <2>2, <2>3, LineDecided
<1>3. CASE LinkChild(c)
  <2>1. PICK f \in families, p \in people :
          /\ Decide(c, "link", f, version[f], p)
          /\ \E a \in Answers : ClosesNoCycle(a, f, p)
    BY <1>3 DEF LinkChild, FamilyExpects
  <2>2. [do |-> "link", stream |-> f, expected |-> version[f], arg |-> p] \in Request
    BY DEF Request, TypeOK
  <2>3. req[c] = Idle /\ UNCHANGED <<setting, rows, version>>
    BY <1>3 DEF LinkChild, Ready
  <2>4. f \in Families /\ p \in Persons
    BY DEF TypeOK
  <2>5. <<f, p>> \in ApartLinks
    BY <2>1, <2>4 DEF ApartLinks, LinkIsApart
  <2> QED
    BY <2>1, <2>2, <2>3, <2>5, LineDecided
<1>4. CASE UnlinkChild(c)
  <2>1. PICK f \in families, p \in Persons : Decide(c, "unlink", f, version[f], p)
    BY <1>4 DEF UnlinkChild, FamilyExpects
  <2>2. [do |-> "unlink", stream |-> f, expected |-> version[f], arg |-> p] \in Request
    BY DEF Request, TypeOK
  <2>3. req[c] = Idle /\ UNCHANGED <<setting, rows, version>>
    BY <1>4 DEF UnlinkChild, Ready
  <2> QED
    BY <2>1, <2>2, <2>3, LineDecided
<1>5. CASE DeleteFamily(c)
  <2>1. PICK f \in families : Decide(c, "drop", f, version[f], Nobody)
    BY <1>5 DEF DeleteFamily
  <2>2. [do |-> "drop", stream |-> f, expected |-> version[f], arg |-> Nobody] \in Request
    BY DEF Request, TypeOK
  <2>3. req[c] = Idle /\ UNCHANGED <<setting, rows, version>>
    BY <1>5 DEF DeleteFamily, Ready
  <2> QED
    BY <2>1, <2>2, <2>3, LineDecided
<1>6. CASE DeletePerson(c)
  <2>1. PICK p \in people : Decide(c, "delete", p, version[p], Nobody)
    BY <1>6 DEF DeletePerson
  <2>2. [do |-> "delete", stream |-> p, expected |-> version[p], arg |-> Nobody] \in Request
    BY DEF Request, TypeOK
  <2>3. req[c] = Idle /\ UNCHANGED <<setting, rows, version>>
    BY <1>6 DEF DeletePerson, Ready
  <2> QED
    BY <2>1, <2>2, <2>3, LineDecided
<1>7. CASE MergePersons(c)
  <2>1. PICK survivor \in people, merged \in people, a \in Answers :
          /\ ~IsAncestor(a, merged, survivor) /\ ~IsAncestor(a, survivor, merged)
          /\ Decide(c, "merge", survivor, version[survivor], merged)
    BY <1>7 DEF MergePersons
  <2>2. [do |-> "merge", stream |-> survivor, expected |-> version[survivor], arg |-> merged] \in Request
    BY DEF Request, TypeOK
  <2>3. req[c] = Idle /\ UNCHANGED <<setting, rows, version>>
    BY <1>7 DEF MergePersons, Ready
  <2>4. <<survivor, merged>> \in ApartMerges
    BY <2>1 DEF ApartMerges, MergeIsApart, TypeOK
  <2> QED
    BY <2>1, <2>2, <2>3, <2>4, LineDecided
<1>8. CASE FamilyCreated(c)
  <2>1. PICK s : s = req[c].stream
    OBVIOUS
  <2>2. /\ Append(c, "create") /\ families' = families \union {s}
        /\ couple' = [couple EXCEPT ![s] = req[c].arg] /\ UNCHANGED kids
    BY <1>8, <2>1 DEF FamilyCreated
  <2>3. Pending(c, "create") /\ s \in Families
    BY <2>1, <2>2, AppendStep, RequestShape
  <2>4. s \notin families
    BY <2>1, <2>3 DEF RaceInv, CreatesFresh, FamilyHasVersion
  <2>5. \A p \in Persons : <<s, p>> \notin kids
    BY <1>f, <2>3, <2>4
  <2>6. \A p \in Persons : ChildFamilies(p)' \subseteq ChildFamilies(p)
    BY <2>2, <2>5 DEF ChildFamilies
  <2>7. \A f \in families : Partners(f)' \subseteq Partners(f)
    BY <2>2, <2>4 DEF TypeOK, Partners
  <2> QED
    BY <1>i, <1>a, <2>2, <2>6, <2>7, FewerParents
<1>9. CASE FamilyUpdated(c)
  <2>1. Append(c, "update") /\ UNCHANGED <<families, kids>>
    BY <1>9 DEF FamilyUpdated
  <2>2. \A p \in Persons : ChildFamilies(p)' \subseteq ChildFamilies(p)
    BY <2>1 DEF ChildFamilies
  <2>3. \A f \in families : Partners(f)' \subseteq Partners(f)
    BY <1>9, UpdateTakes
  <2> QED
    BY <1>i, <1>a, <2>1, <2>2, <2>3, FewerParents
<1>10. CASE ChildLinked(c)
  <2>0. Append(c, "link")
    BY <1>10 DEF ChildLinked
  <2>1. PICK s \in Families, p \in Persons : s = req[c].stream /\ p = req[c].arg
    BY <2>0, AppendStep, RequestShape
  <2>2. kids' = kids \union {<<s, p>>} /\ families' = families /\ couple' = couple
    BY <1>10, <2>1 DEF ChildLinked
  <2>3. LinkIsApart(s, p)
    BY <1>i, <2>0, <2>1, AppendStep DEF StillApart, ApartLinks
  <2>4. Acyclic(AllUp)'
    BY <1>i, <2>2, <2>3, LinkKeepsOrder
  <2> QED
    BY <1>a, <2>0, <2>4
<1>11. CASE ChildUnlinked(c)
  <2>1. Append(c, "unlink") /\ kids' \subseteq kids /\ UNCHANGED <<families, couple>>
    BY <1>11 DEF ChildUnlinked
  <2>2. \A p \in Persons : ChildFamilies(p)' \subseteq ChildFamilies(p)
    BY <2>1 DEF ChildFamilies
  <2>3. \A f \in families : Partners(f)' \subseteq Partners(f)
    BY <2>1 DEF Partners
  <2> QED
    BY <1>i, <1>a, <2>1, <2>2, <2>3, FewerParents
<1>12. CASE FamilyDeleted(c)
  <2>1. /\ Append(c, "drop") /\ kids' \subseteq kids /\ families' \subseteq families
        /\ UNCHANGED couple
    BY <1>12 DEF FamilyDeleted
  <2>2. \A p \in Persons : ChildFamilies(p)' \subseteq ChildFamilies(p)
    BY <2>1 DEF ChildFamilies
  <2>3. \A f \in families : Partners(f)' \subseteq Partners(f)
    BY <2>1 DEF Partners
  <2> QED
    BY <1>i, <1>a, <2>1, <2>2, <2>3, FewerParents
<1>13. CASE PersonDeleted(c)
  <2>1. Append(c, "delete") /\ kids' \subseteq kids /\ UNCHANGED <<families, couple>>
    BY <1>13 DEF PersonDeleted
  <2>2. \A p \in Persons : ChildFamilies(p)' \subseteq ChildFamilies(p)
    BY <2>1 DEF ChildFamilies
  <2>3. \A f \in families : Partners(f)' \subseteq Partners(f)
    BY <2>1 DEF Partners
  <2> QED
    BY <1>i, <1>a, <2>1, <2>2, <2>3, FewerParents
<1>14. CASE PersonMerged(c)
  <2>0. Append(c, "merge")
    BY <1>14 DEF PersonMerged
  <2>1. PICK survivor \in Persons, merged \in Persons :
          survivor = req[c].stream /\ merged = req[c].arg
    BY <2>0, AppendStep, RequestShape
  <2>2. /\ survivor \in people /\ merged # survivor
        /\ <<survivor, merged>> \in ApartMerges
    BY <1>i, <2>0, <2>1, AppendStep DEF StillDecided, StillApart
  <2>3. PICK others, moves :
          /\ others = {k \in kids : k[2] # merged}
          /\ moves = (edge[merged].exists /\ ChildFamilies(merged) # {} /\ HasNoFamily(survivor))
    OBVIOUS
  <2>4. /\ UNCHANGED families
        /\ couple' = [f \in Families |->
                        IF f \in families
                        THEN <<IF couple[f][1] = merged THEN survivor ELSE couple[f][1],
                               IF couple[f][2] = merged THEN survivor ELSE couple[f][2]>>
                        ELSE couple[f]]
        /\ IF moves THEN \E f \in ChildFamilies(merged) : kids' = others \union {<<f, survivor>>}
                    ELSE kids' = others
    BY <1>14, <2>1, <2>2, <2>3 DEF PersonMerged
  <2>5. kids' \subseteq {k \in kids : k[2] # merged} \union {<<f, survivor>> : f \in ChildFamilies(merged)}
    BY <2>3, <2>4
  <2>6. Acyclic(AllUp)'
    BY <1>i, <2>2, <2>4, <2>5, PersonMergeKeepsOrder
  <2> QED
    BY <1>a, <2>0, <2>6
<1>15. CASE Refuse(c)
  <2>1. UNCHANGED <<families, couple, kids>> /\ req' = [req EXCEPT ![c] = Idle]
    BY <1>15 DEF Refuse, rows
  <2>2. req'[c] = Idle /\ \A d \in Slots : d # c => req'[d] = req[d]
    BY <2>1 DEF TypeOK
  <2>3. AllUp' = AllUp
    BY <2>1, SameLines
  <2>4. Acyclic(AllUp)'
    BY <1>i, <2>3 DEF Acyclic, Orders
  <2> QED
    BY <1>e, <2>2, <2>4
<1> QED
  BY <1>1, <1>2, <1>3, <1>4, <1>5, <1>6, <1>7, <1>8, <1>9, <1>10, <1>11, <1>12, <1>13, <1>14, <1>15
  DEF Step

-----------------------------------------------------------------------------
(* Every behaviour.                                                        *)

(***************************************************************************)
(* The first states satisfy the invariant.                                 *)
(***************************************************************************)
LEMMA InvInit == Init => IInv
<1> SUFFICES ASSUME Init PROVE IInv
  OBVIOUS
<1>1. setting.people \subseteq Persons
  BY SettingsAssumption DEF Init
<1>2. TypeOK
  <2>1. NoEdge \in Edge
    BY DEF NoEdge, Edge
  <2>2. <<Nobody, Nobody>> \in Pair
    BY DEF Pair
  <2> QED
    BY <1>1, <2>1, <2>2 DEF Init, TypeOK
<1>3. \A c \in Slots : req[c] = Idle
  BY DEF Init
<1>4. RaceInv
  BY <1>3 DEF Init, RaceInv, RequestsInUse, KidsHaveFamily, FamilyHasVersion, CreatesFresh,
              FamilyGuarded, Pending
<1>5. CountInv
  BY <1>3 DEF Init, CountInv, Pending
<1>6. NoEdge.exists = FALSE
  BY DEF NoEdge
<1>7. GuardedInv
  BY <1>3, <1>6 DEF Init, GuardedInv, NobodyMissing, OneFamilyEach, EdgeWithFamily, StillDecided, Pending
<1>8. LineInv
  <2>1. \A p \in Persons : AllUp[p] = {}
    BY DEF Init, AllUp, AllParents, ChildFamilies
  <2>2. Orders({}, AllUp)
    BY <2>1 DEF Orders
  <2> QED
    BY <1>3, <2>2 DEF LineInv, Acyclic, StillApart, Pending
<1> QED
  BY <1>2, <1>4, <1>5, <1>7, <1>8 DEF IInv

(***************************************************************************)
(* Every step keeps the invariant.                                         *)
(***************************************************************************)
LEMMA InvNext == IInv /\ [Next]_vars => IInv'
<1> SUFFICES ASSUME IInv, [Next]_vars PROVE IInv'
  OBVIOUS
<1>1. CASE Next
  <2>1. PICK c \in setting.slots : Step(c)
    BY <1>1 DEF Next
  <2>2. c \in Slots /\ UNCHANGED setting
    BY <1>1, SettingsAssumption DEF Next, IInv, TypeOK
  <2>3. TypeOK'
    BY <2>1, <2>2, TypeStep DEF IInv
  <2>4. RaceInv'
    BY <2>1, <2>2, RaceStep DEF IInv
  <2>5. CountInv'
    BY <2>1, <2>2, CountStep DEF IInv
  <2>6. GuardedInv'
    BY <2>1, <2>2, GuardedStep DEF IInv
  <2>7. LineInv'
    BY <2>1, <2>2, LineStep DEF IInv
  <2> QED
    BY <2>3, <2>4, <2>5, <2>6, <2>7 DEF IInv
<1>2. CASE UNCHANGED vars
  <2>1. TypeOK'
    BY <1>2 DEF vars, IInv, TypeOK
  <2>2. RaceInv'
    BY <1>2 DEF vars, IInv, RaceInv, RequestsInUse, KidsHaveFamily, FamilyHasVersion,
                CreatesFresh, FamilyGuarded, Pending, Current
  <2>3. CountInv'
    BY <1>2 DEF vars, IInv, CountInv, Counting, ChildrenOf, Pending, Current
  <2>4. Guarded' = Guarded
    BY <1>2 DEF vars, Guarded
  <2>5. ASSUME Guarded PROVE NobodyMissing' /\ OneFamilyEach' /\ EdgeWithFamily' /\ StillDecided'
    BY <1>2, <2>5 DEF vars, IInv, GuardedInv, NobodyMissing, OneFamilyEach, EdgeWithFamily,
                      StillDecided, Pending, Partners, HasNoFamily, Unlinked, ChildFamilies
  <2>6. ApartLinks' = ApartLinks /\ ApartMerges' = ApartMerges /\ AllUp' = AllUp
    BY <1>2, SameLines DEF vars
  <2>7. ASSUME Guarded PROVE Acyclic(AllUp)' /\ StillApart'
    BY <1>2, <2>6, <2>7 DEF vars, IInv, LineInv, Acyclic, Orders, StillApart, Pending
  <2> QED
    BY <2>1, <2>2, <2>3, <2>4, <2>5, <2>7 DEF IInv, GuardedInv, LineInv
<1> QED
  BY <1>1, <1>2

(***************************************************************************)
(* The rows, versions and requests have their types in every behaviour.    *)
(***************************************************************************)
THEOREM TypeCorrect == Spec => []TypeOK
<1>1. Init => IInv
  BY InvInit
<1>2. IInv /\ [Next]_vars => IInv'
  BY InvNext
<1>3. IInv => TypeOK
  BY DEF IInv
<1> QED
  BY <1>1, <1>2, <1>3, PTL DEF Spec

(***************************************************************************)
(* Whatever races, no child row outlives its family (LinkChild's expected  *)
(* version is the family's); and one by one no family keeps a partner or   *)
(* child without a person row.                                             *)
(***************************************************************************)
THEOREM NothingDanglesHolds == Spec => []NothingDangles
<1>1. Init => IInv
  BY InvInit
<1>2. IInv /\ [Next]_vars => IInv'
  BY InvNext
<1>3. IInv => NothingDangles
  <2> SUFFICES ASSUME IInv PROVE NothingDangles
    OBVIOUS
  <2>1. \A k \in kids : k[1] \in Families /\ k[2] \in Persons /\ <<k[1], k[2]>> \in kids
    BY DEF IInv, TypeOK
  <2> QED
    BY <2>1 DEF IInv, RaceInv, KidsHaveFamily, GuardedInv, NobodyMissing, NothingDangles
<1> QED
  BY <1>1, <1>2, <1>3, PTL DEF Spec

(***************************************************************************)
(* One by one, nobody becomes their own ancestor: LinkChild refuses a      *)
(* child that is in a partner's line, and MergePersons two persons of whom *)
(* one is above the other (ErrCircularMerge).                              *)
(***************************************************************************)
THEOREM NoCycleHolds == Spec => []NoCycle
<1>1. Init => IInv
  BY InvInit
<1>2. IInv /\ [Next]_vars => IInv'
  BY InvNext
<1>3. IInv => NoCycle
  <2> SUFFICES ASSUME IInv, Guarded, NEW p \in Persons PROVE p \notin Ancestors(p)
    BY DEF NoCycle
  <2>1. PICK R : Orders(R, AllUp)
    BY DEF IInv, LineInv, Acyclic
  <2>2. \A x \in Persons : AllUp[x] = AllParents(x) /\ AllParents(x) \subseteq Persons
    BY ParentsArePersons DEF IInv
  <2> DEFINE S == {q \in Persons : <<p, q>> \in R}
  <2>3. AllParents(p) \subseteq S
    BY <2>1, <2>2 DEF Orders
  <2>4. ASSUME NEW x \in S, NEW y \in AllParents(x) PROVE y \in S
    <3>1. y \in Persons /\ <<x, y>> \in R
      BY <2>1, <2>2 DEF Orders
    <3> QED
      BY <2>1, <3>1 DEF Orders
  <2>5. S \in SUBSET Persons /\ p \notin S
    BY <2>1 DEF Orders
  <2> QED
    BY <2>3, <2>4, <2>5 DEF Ancestors
<1> QED
  BY <1>1, <1>2, <1>3, PTL DEF Spec

(***************************************************************************)
(* One by one, a person is a child of one family at most and has a         *)
(* pedigree edge exactly when they are, through unlinks, deletions and     *)
(* merges (projectPersonMerged hands the edge over).                       *)
(***************************************************************************)
THEOREM EdgeIffChildHolds == Spec => []EdgeIffChild
<1>1. Init => IInv
  BY InvInit
<1>2. IInv /\ [Next]_vars => IInv'
  BY InvNext
<1>3. IInv => EdgeIffChild
  <2> SUFFICES ASSUME IInv, Guarded, NEW p \in Persons
               PROVE  /\ Cardinality(ChildFamilies(p)) <= 1
                      /\ edge[p].exists <=> ChildFamilies(p) # {}
    BY DEF EdgeIffChild
  <2>1. \A f \in Families : <<f, p>> \in kids <=> f \in ChildFamilies(p)
    BY DEF IInv, RaceInv, KidsHaveFamily, ChildFamilies
  <2>2. ChildFamilies(p) \subseteq Families
    BY DEF ChildFamilies, IInv, TypeOK
  <2>3. edge[p].exists <=> ChildFamilies(p) # {}
    BY <2>1, <2>2 DEF IInv, GuardedInv, EdgeWithFamily
  <2>4. \A f, g \in ChildFamilies(p) : f = g
    BY <2>1, <2>2 DEF IInv, GuardedInv, OneFamilyEach
  <2>5. ChildFamilies(p) = {} \/ \E f : ChildFamilies(p) = {f}
    BY <2>4
  <2>6. Cardinality(ChildFamilies(p)) = 0 \/ Cardinality(ChildFamilies(p)) = 1
    BY <2>5, FS_EmptySet, FS_Singleton
  <2> QED
    BY <2>3, <2>6
<1> QED
  BY <1>1, <1>2, <1>3, PTL DEF Spec

(***************************************************************************)
(* A family's denormalized number of children is the number of its child   *)
(* rows, however links, unlinks and deletions of families race: each was   *)
(* decided at the version it is appended at.                               *)
(***************************************************************************)
THEOREM ChildCountHolds == Spec => []ChildCountMatches
<1>1. Init => IInv
  BY InvInit
<1>2. IInv /\ [Next]_vars => IInv'
  BY InvNext
<1>3. IInv => ChildCountMatches
  BY DEF IInv, CountInv, ChildCountMatches, ChildrenOf
<1> QED
  BY <1>1, <1>2, <1>3, PTL DEF Spec

=============================================================================
