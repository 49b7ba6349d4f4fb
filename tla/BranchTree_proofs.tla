-------------------------- MODULE BranchTree_proofs --------------------------
(***************************************************************************)
(* Proofs about the promotion of a branch's tree, for every tree that main *)
(* may have, every number of persons and families and every branch.        *)
(***************************************************************************)
EXTENDS BranchTree, WellFoundedInduction, TLAPS

-----------------------------------------------------------------------------
(* Induction.                                                              *)

(***************************************************************************)
(* A set of naturals that is not empty has a least element.                *)
(***************************************************************************)
LEMMA LeastPosition ==
  ASSUME NEW T, T \subseteq Nat, T # {}
  PROVE  \E n \in T : \A m \in T : n <= m
<1> DEFINE R == {ss \in Nat \X Nat : ss[1] < ss[2]}
<1>1. \A x, y \in Nat : y < x => <<y, x>> \in R
  OBVIOUS
<1>2. IsWellFoundedOn(R, Nat)
  BY NatLessThanWellFounded DEF OpToRel
<1> HIDE DEF R
<1>3. PICK n \in T : \A m \in T : ~ (<<m, n>> \in R)
  BY <1>2, WFMin
<1>4. \A m \in T : ~ (m < n)
  BY <1>1, <1>3
<1> QED
  BY <1>4

(***************************************************************************)
(* What holds at k, and stays from each position to the next, holds at m.  *)
(***************************************************************************)
LEMMA HoldsOn ==
  ASSUME NEW S, NEW k \in Nat, NEW m \in Nat, k <= m, k \in S,
         \A i \in k + 1..m : i - 1 \in S => i \in S
  PROVE  m \in S
<1> DEFINE T == {i \in k..m : i \notin S}
<1> SUFFICES ASSUME m \notin S PROVE FALSE
  OBVIOUS
<1>1. T \subseteq Nat /\ m \in T
  OBVIOUS
<1>2. PICK n \in T : \A i \in T : n <= i
  <2> HIDE DEF T
  <2> QED
    BY <1>1, LeastPosition
<1>3. n \in k + 1..m /\ n - 1 \in k..m
  OBVIOUS
<1> QED
  BY <1>2, <1>3

-----------------------------------------------------------------------------
(* The inductive invariant.                                                *)

Formed(e) ==
  \/ e.type = "BranchCreated" /\ e.stream = Branch
  \/ e.type \in {"PersonCreated", "PersonUpdated", "PersonDeleted"} /\ e.stream \in Persons
  \/ e.type \in {"FamilyUpdated", "FamilyDeleted"} /\ e.stream \in Families
  \/ /\ e.type = "FamilyCreated" /\ e.stream \in Families
     /\ e.arg \in (Persons \union {Nobody}) \X (Persons \union {Nobody})
  \/ e.type \in {"ChildLinked", "ChildUnlinked"} /\ e.stream \in Families /\ e.arg \in Persons

(***************************************************************************)
(* What the branch's commands have made sure of when they write an event:  *)
(* t is the branch's tree before it.                                       *)
(***************************************************************************)
Allowed(t, e) ==
  /\ Formed(e)
  /\ e.type = "PersonDeleted" => \A f \in Families : <<f, e.stream>> \notin t.kids
  /\ e.type = "FamilyDeleted" => \A p \in Persons : <<e.stream, p>> \notin t.kids
  /\ e.type = "ChildLinked" => e.stream \in FamiliesOf(t)

\* h is the branch's past: its tree after each of its events.
Past(h) ==
  /\ h[0] \in Trees /\ h[Len(log)] = tree["branch"]
  /\ \A n \in 0..Len(log) : h[n] \in Rows
  /\ \A n \in 1..Len(log) : h[n] = Project(h[n - 1], log[n]) /\ Allowed(h[n - 1], log[n])

Created(c, p) == c \in DOMAIN log /\ log[c].type = "PersonCreated" /\ log[c].stream = p
Deletes(n, p) == n \in DOMAIN log /\ log[n].type = "PersonDeleted" /\ log[n].stream = p
Links(n, p)   == n \in DOMAIN log /\ log[n].type = "ChildLinked" /\ log[n].arg = p
Deleted(p)    == \E n \in DOMAIN log : Deletes(n, p)

\* A person that main did not have comes before every event of their families.
PartnersFirst(base) ==
  \A f \in Families : \A q \in Partners(Here, f) :
    \/ q \in base.people
    \/ \E c \in DOMAIN log : Created(c, q) /\ \A m \in DOMAIN log : log[m].stream = f => c < m

PeopleAreKnown(base) ==
  \A p \in Here.people : p \in base.people \/ \E c \in DOMAIN log : Created(c, p)

DeletedStayAway ==
  \A p \in Persons : Deleted(p) => p \notin Here.people /\ \A f \in Families : <<f, p>> \notin Here.kids

\* Who has not been taken out of a family is where a link has put them.
EdgesAreLinks(h) ==
  \A p \in Persons : ~Moved(p) =>
    /\ Deleted(p) => Here.edge[p] = NoEdge /\ \A n \in DOMAIN log : ~Links(n, p)
    /\ ~Deleted(p) => \A n \in DOMAIN log : Links(n, p) =>
         LET f == log[n].stream IN
         /\ <<f, p>> \in Here.kids /\ Here.couple[f] = h[n - 1].couple[f]
         /\ Here.edge[p] = EdgeTo(h[n - 1], f)
    /\ (\A n \in DOMAIN log : ~Links(n, p)) /\ ~Deleted(p) => Here.edge[p] = h[0].edge[p]

BranchInv(h) ==
  /\ Whole(Here) /\ PeopleAreKnown(h[0]) /\ PartnersFirst(h[0])
  /\ DeletedStayAway /\ EdgesAreLinks(h)

\* k is the position of the last event of stream s that has come to main, or 0.
Latest(s, k) ==
  /\ k \in 0..Len(log)
  /\ k = 0 \/ (k \in replayed /\ log[k].stream = s)
  /\ \A m \in replayed : log[m].stream = s => m <= k

Main == tree["main"]

\* Main's records are the branch's of then, but for rows of children that are to go.
FamilyIsThen(h, f, k) ==
  /\ Main.couple[f] = h[k].couple[f] /\ Main.count[f] = h[k].count[f]
  /\ \A p \in Persons :
       /\ <<f, p>> \in Main.kids => <<f, p>> \in h[k].kids
       /\ <<f, p>> \in h[k].kids /\ ~Deleted(p) => <<f, p>> \in Main.kids

PersonIsThen(h, p, k) == p \in Main.people <=> p \in h[k].people

EdgeIsThen(h, p) ==
  /\ (\E n \in replayed : Deletes(n, p)) => Main.edge[p] = NoEdge
  /\ ~Deleted(p) =>
       IF \E n \in replayed : Links(n, p)
       THEN Main.edge[p] = Here.edge[p] ELSE Main.edge[p] = h[0].edge[p]

MainInv(h) ==
  /\ replayed \subseteq Genealogy
  /\ \A n \in replayed : \A m \in Genealogy : Before(m, n) => m \in replayed
  /\ \A f \in Families, k \in 0..Len(log) : Latest(f, k) => FamilyIsThen(h, f, k)
  /\ \A p \in Persons, k \in 0..Len(log) : Latest(p, k) => PersonIsThen(h, p, k)
  /\ \A p \in Persons : ~Moved(p) => EdgeIsThen(h, p)

Args   == Persons \union {Nobody} \union ((Persons \union {Nobody}) \X (Persons \union {Nobody}))
Types  == {"BranchCreated", "PersonCreated", "PersonUpdated", "PersonDeleted",
           "FamilyCreated", "FamilyUpdated", "FamilyDeleted", "ChildLinked", "ChildUnlinked"}
Events == [type : Types, stream : Persons \union Families \union {Branch}, arg : Args]

TypeInv ==
  /\ tree \in [{"main", "branch"} -> Rows]
  /\ log \in Seq(Events) /\ merged \in BOOLEAN

Inv(h) ==
  /\ TypeInv
  /\ Past(h) /\ BranchInv(h)
  /\ IF merged THEN MainInv(h) ELSE replayed = {} /\ Main = h[0]

IInv == \E h : Inv(h)

-----------------------------------------------------------------------------
(* What a projection does to each row.                                     *)

(***************************************************************************)
(* A projection leaves a tree.                                             *)
(***************************************************************************)
LEMMA ProjectRows ==
  ASSUME IdsApart, NEW t \in Rows, NEW e, Formed(e)
  PROVE  Project(t, e) \in Rows
<1>1. CASE e.type \in {"BranchCreated", "PersonUpdated", "FamilyUpdated"}
  BY <1>1 DEF Project
<1>2. CASE e.type = "PersonCreated"
  BY <1>2 DEF Project, Formed, Rows
<1>3. CASE e.type = "PersonDeleted"
  BY <1>3 DEF Project, PersonDeleted, Formed, Rows, NoEdge, Edges
<1>4. CASE e.type = "FamilyCreated"
  BY <1>4 DEF Project, Formed, Rows
<1>5. CASE e.type = "FamilyDeleted"
  <2>1. e.stream \in Families /\ Project(t, e) = FamilyDeleted(t, e.stream)
    BY <1>5 DEF Project, Formed
  <2>2. NoFamily \in (Persons \union {Nobody}) \X (Persons \union {Nobody}) /\ NoEdge \in Edges
    BY DEF NoFamily, NoEdge, Edges
  <2> DEFINE f == e.stream
             couple == [t.couple EXCEPT ![f] = NoFamily]
             count == [t.count EXCEPT ![f] = 0]
             edge == [p \in Persons |-> IF <<f, p>> \in t.kids THEN NoEdge ELSE t.edge[p]]
             kids == {k \in t.kids : k[1] # f}
  <2>3. FamilyDeleted(t, f) =
          [people |-> t.people, couple |-> couple, kids |-> kids, count |-> count, edge |-> edge]
    <3>1. FamilyDeleted(t, f) =
            [t EXCEPT !.couple = couple, !.count = count, !.kids = kids, !.edge = edge]
      BY Zenon DEF FamilyDeleted
    <3> HIDE DEF couple, count, edge, kids
    <3> QED
      BY <3>1 DEF Rows
  <2>4. couple \in [Families -> (Persons \union {Nobody}) \X (Persons \union {Nobody})]
    BY <2>2 DEF Rows
  <2>5. count \in [Families -> Nat] /\ edge \in [Persons -> Edges]
    BY <2>2 DEF Rows
  <2>6. kids \subseteq Families \X Persons
    BY DEF Rows
  <2> HIDE DEF couple, count, edge, kids
  <2> QED
    BY <2>1, <2>3, <2>4, <2>5, <2>6 DEF Rows
<1>6. CASE e.type = "ChildLinked"
  <2>1. e.stream \in Families /\ e.arg \in Persons /\ Project(t, e) = ChildLinked(t, e.stream, e.arg)
    BY <1>6 DEF Project, Formed
  <2>2. EdgeTo(t, e.stream) \in Edges
    BY <2>1 DEF EdgeTo, Edges, Rows
  <2> DEFINE f == e.stream
             count == [t.count EXCEPT ![f] = @ + 1]
             edge == [t.edge EXCEPT ![e.arg] = EdgeTo(t, f)]
             kids == t.kids \union {<<f, e.arg>>}
  <2>3. \/ ChildLinked(t, f, e.arg) = [people |-> t.people, couple |-> t.couple, kids |-> kids,
                                      count |-> count, edge |-> edge]
        \/ ChildLinked(t, f, e.arg) = [people |-> t.people, couple |-> t.couple, kids |-> kids,
                                      count |-> t.count, edge |-> t.edge]
    BY DEF ChildLinked, Rows
  <2>4. count \in [Families -> Nat] /\ edge \in [Persons -> Edges] /\ kids \subseteq Families \X Persons
    BY <2>1, <2>2 DEF Rows
  <2> HIDE DEF count, edge, kids
  <2> QED
    BY <2>1, <2>3, <2>4 DEF Rows
<1>7. CASE e.type = "ChildUnlinked"
  <2>1. e.stream \in Families /\ e.arg \in Persons /\ Project(t, e) = ChildUnlinked(t, e.stream, e.arg)
    BY <1>7 DEF Project, Formed
  <2>2. NoEdge \in Edges
    BY DEF NoEdge, Edges
  <2> DEFINE f == e.stream
             count == [t.count EXCEPT ![f] = IF @ > 0 THEN @ - 1 ELSE @]
             edge == [t.edge EXCEPT ![e.arg] = NoEdge]
  <2>3. ChildUnlinked(t, f, e.arg) =
          [people |-> t.people, couple |-> t.couple, kids |-> t.kids \ {<<f, e.arg>>},
           count |-> count, edge |-> edge]
    <3>1. ChildUnlinked(t, f, e.arg) =
            [t EXCEPT !.kids = @ \ {<<f, e.arg>>}, !.edge = edge, !.count = count]
      BY Zenon DEF ChildUnlinked
    <3> HIDE DEF count, edge
    <3> QED
      BY <3>1 DEF Rows
  <2>4. count \in [Families -> Nat] /\ edge \in [Persons -> Edges]
    BY <2>1, <2>2 DEF Rows
  <2> HIDE DEF count, edge
  <2> QED
    BY <2>1, <2>3, <2>4 DEF Rows
<1> QED
  BY <1>1, <1>2, <1>3, <1>4, <1>5, <1>6, <1>7 DEF Formed

\* The row of a child, and the pedigree edge, after an event.
KidAfter(t, e, f, p) ==
  \/ e.type = "ChildLinked" /\ e.stream = f /\ e.arg = p
  \/ /\ <<f, p>> \in t.kids
     /\ ~(e.type = "ChildUnlinked" /\ e.stream = f /\ e.arg = p)
     /\ ~(e.type = "FamilyDeleted" /\ e.stream = f)
     /\ ~(e.type = "PersonDeleted" /\ e.stream = p)

Cuts(t, e, p) ==
  \/ e.type = "ChildUnlinked" /\ e.arg = p
  \/ e.type = "FamilyDeleted" /\ <<e.stream, p>> \in t.kids
  \/ e.type = "PersonDeleted" /\ e.stream = p

EdgeAfter(t, e, p) ==
  IF Cuts(t, e, p) THEN NoEdge
  ELSE IF e.type = "ChildLinked" /\ e.arg = p /\ e.stream \in FamiliesOf(t) THEN EdgeTo(t, e.stream)
  ELSE t.edge[p]

CoupleAfter(t, e, f) ==
  IF e.type = "FamilyCreated" /\ e.stream = f THEN e.arg
  ELSE IF e.type = "FamilyDeleted" /\ e.stream = f THEN NoFamily ELSE t.couple[f]

PersonAfter(t, e, p) ==
  \/ e.type = "PersonCreated" /\ e.stream = p
  \/ p \in t.people /\ ~(e.type = "PersonDeleted" /\ e.stream = p)

CountAfter(t, e, f) ==
  IF e.type \in {"FamilyCreated", "FamilyDeleted"} /\ e.stream = f THEN 0
  ELSE IF e.type = "ChildLinked" /\ e.stream = f /\ t.couple[f] # NoFamily THEN t.count[f] + 1
  ELSE IF e.type = "ChildUnlinked" /\ e.stream = f THEN IF t.count[f] > 0 THEN t.count[f] - 1 ELSE 0
  ELSE t.count[f]

(***************************************************************************)
(* Every row after an event, from the rows before it.                      *)
(***************************************************************************)
LEMMA ProjectIs ==
  ASSUME IdsApart, NEW t \in Rows, NEW e, Formed(e)
  PROVE  /\ \A p \in Persons : p \in Project(t, e).people <=> PersonAfter(t, e, p)
         /\ \A f \in Families : Project(t, e).couple[f] = CoupleAfter(t, e, f)
         /\ \A f \in Families : Project(t, e).count[f] = CountAfter(t, e, f)
         /\ \A f \in Families, p \in Persons : <<f, p>> \in Project(t, e).kids <=> KidAfter(t, e, f, p)
         /\ \A p \in Persons : Project(t, e).edge[p] = EdgeAfter(t, e, p)
<1> USE DEF PersonAfter, CoupleAfter, CountAfter, KidAfter, EdgeAfter, Cuts
<1>1. CASE e.type \in {"BranchCreated", "PersonUpdated", "FamilyUpdated"}
  BY <1>1 DEF Project
<1>2. CASE e.type = "PersonCreated"
  BY <1>2 DEF Project, Formed, Rows
<1>3. CASE e.type = "PersonDeleted"
  BY <1>3 DEF Project, PersonDeleted, Formed, Rows
<1>4. CASE e.type = "FamilyCreated"
  BY <1>4 DEF Project, Formed, Rows
<1>5. CASE e.type = "FamilyDeleted"
  <2>1. e.stream \in Families /\ Project(t, e) = FamilyDeleted(t, e.stream)
    BY <1>5 DEF Project, Formed
  <2> QED
    BY <1>5, <2>1 DEF FamilyDeleted, Rows
<1>6. CASE e.type = "ChildLinked"
  <2>1. e.stream \in Families /\ e.arg \in Persons /\ Project(t, e) = ChildLinked(t, e.stream, e.arg)
    BY <1>6 DEF Project, Formed
  <2>2. CASE e.stream \in FamiliesOf(t)
    BY <1>6, <2>1, <2>2 DEF ChildLinked, Rows, FamiliesOf
  <2>3. CASE e.stream \notin FamiliesOf(t)
    BY <1>6, <2>1, <2>3 DEF ChildLinked, Rows, FamiliesOf
  <2> QED
    BY <2>2, <2>3
<1>7. CASE e.type = "ChildUnlinked"
  <2>1. e.stream \in Families /\ e.arg \in Persons /\ Project(t, e) = ChildUnlinked(t, e.stream, e.arg)
    BY <1>7 DEF Project, Formed
  <2> QED
    BY <1>7, <2>1 DEF ChildUnlinked, Rows
<1> QED
  BY <1>1, <1>2, <1>3, <1>4, <1>5, <1>6, <1>7 DEF Formed
-----------------------------------------------------------------------------
(* The past.                                                               *)

(***************************************************************************)
(* Every event of the past is one, and made its tree of the one before.    *)
(***************************************************************************)
LEMMA PastStep ==
  ASSUME TypeInv, NEW h, Past(h), NEW i \in 1..Len(log)
  PROVE  /\ i - 1 \in 0..Len(log) /\ i \in 0..Len(log)
         /\ h[i - 1] \in Rows /\ h[i] \in Rows
         /\ h[i] = Project(h[i - 1], log[i]) /\ Allowed(h[i - 1], log[i]) /\ Formed(log[i])
<1>1. Len(log) \in Nat
  BY DEF TypeInv
<1>2. i - 1 \in 0..Len(log) /\ i \in 0..Len(log)
  BY <1>1
<1> QED
  BY <1>2 DEF Past, Allowed

(***************************************************************************)
(* A family stays as it is between two events of its stream: nobody        *)
(* deletes a person that is a child.                                       *)
(***************************************************************************)
LEMMA FamilyStill ==
  ASSUME IdsApart, TypeInv, NEW h, Past(h), NEW f \in Families,
         NEW k \in 0..Len(log), NEW m \in 0..Len(log), k <= m,
         \A i \in k + 1..m : log[i].stream # f
  PROVE  /\ h[m].couple[f] = h[k].couple[f] /\ h[m].count[f] = h[k].count[f]
         /\ \A p \in Persons : <<f, p>> \in h[m].kids <=> <<f, p>> \in h[k].kids
<1> DEFINE Same(i) == /\ h[i].couple[f] = h[k].couple[f] /\ h[i].count[f] = h[k].count[f]
                      /\ \A p \in Persons : <<f, p>> \in h[i].kids <=> <<f, p>> \in h[k].kids
           S == {i \in k..m : Same(i)}
<1>1. Len(log) \in Nat
  BY DEF TypeInv
<1>2. k \in S
  BY <1>1
<1>3. ASSUME NEW i \in k + 1..m, i - 1 \in S
      PROVE  i \in S
  <2>1. i \in 1..Len(log) /\ i \in k..m
    BY <1>1
  <2> DEFINE t == h[i - 1]
             e == log[i]
  <2>2. t \in Rows /\ h[i] = Project(t, e) /\ Formed(e) /\ Allowed(t, e)
    BY <2>1, PastStep
  <2>3. Same(i - 1) /\ e.stream # f
    BY <1>3
  <2> HIDE DEF t, e
  <2>4. h[i].couple[f] = t.couple[f] /\ h[i].count[f] = t.count[f]
    BY <2>2, <2>3, ProjectIs DEF CoupleAfter, CountAfter
  <2>5. ASSUME NEW p \in Persons PROVE <<f, p>> \in h[i].kids <=> <<f, p>> \in t.kids
    <3>1. <<f, p>> \in h[i].kids <=> KidAfter(t, e, f, p)
      BY <2>2, ProjectIs
    <3> QED
      BY <2>2, <2>3, <3>1 DEF KidAfter, Allowed
  <2>6. Same(i)
    BY <2>3, <2>4, <2>5 DEF t
  <2> QED
    BY <2>1, <2>6
<1> HIDE DEF S
<1>4. m \in S
  BY <1>1, <1>2, <1>3, HoldsOn
<1> QED
  BY <1>4 DEF S

(***************************************************************************)
(* A person comes and goes with events of the stream alone.                *)
(***************************************************************************)
LEMMA PersonStill ==
  ASSUME IdsApart, TypeInv, NEW h, Past(h), NEW p \in Persons,
         NEW k \in 0..Len(log), NEW m \in 0..Len(log), k <= m,
         \A i \in k + 1..m : log[i].stream # p
  PROVE  p \in h[m].people <=> p \in h[k].people
<1> DEFINE S == {i \in k..m : p \in h[i].people <=> p \in h[k].people}
<1>1. Len(log) \in Nat
  BY DEF TypeInv
<1>2. k \in S
  BY <1>1
<1>3. ASSUME NEW i \in k + 1..m, i - 1 \in S
      PROVE  i \in S
  <2>1. i \in 1..Len(log) /\ i \in k..m
    BY <1>1
  <2>2. p \in h[i].people <=> PersonAfter(h[i - 1], log[i], p)
    BY <2>1, PastStep, ProjectIs
  <2>3. log[i].stream # p
    OBVIOUS
  <2> QED
    BY <1>3, <2>1, <2>2, <2>3 DEF PersonAfter
<1> HIDE DEF S
<1>4. m \in S
  BY <1>1, <1>2, <1>3, HoldsOn
<1> QED
  BY <1>4 DEF S

(***************************************************************************)
(* A person that is there and is never deleted is there ever after.        *)
(***************************************************************************)
LEMMA PersonStays ==
  ASSUME IdsApart, TypeInv, NEW h, Past(h), NEW p \in Persons, ~Deleted(p),
         NEW k \in 0..Len(log), NEW m \in 0..Len(log), k <= m, p \in h[k].people
  PROVE  p \in h[m].people
<1> DEFINE S == {i \in k..m : p \in h[i].people}
<1>1. Len(log) \in Nat /\ DOMAIN log = 1..Len(log)
  BY DEF TypeInv
<1>2. k \in S
  BY <1>1
<1>3. ASSUME NEW i \in k + 1..m, i - 1 \in S
      PROVE  i \in S
  <2>1. i \in 1..Len(log) /\ i \in k..m
    BY <1>1
  <2>2. p \in h[i].people <=> PersonAfter(h[i - 1], log[i], p)
    BY <2>1, PastStep, ProjectIs
  <2>3. ~(log[i].type = "PersonDeleted" /\ log[i].stream = p)
    BY <1>1, <2>1 DEF Deleted, Deletes
  <2> QED
    BY <1>3, <2>1, <2>2, <2>3 DEF PersonAfter
<1> HIDE DEF S
<1>4. m \in S
  BY <1>1, <1>2, <1>3, HoldsOn
<1> QED
  BY <1>4 DEF S
-----------------------------------------------------------------------------
(* The branch's commands.                                                  *)

\* What a command has checked besides, on the branch as it is.
Checked(e) ==
  /\ Allowed(Here, e) /\ e \in Events /\ e.type # "BranchCreated"
  /\ e.type \in {"PersonCreated", "FamilyCreated"} => \A n \in DOMAIN log : log[n].stream # e.stream
  /\ e.type = "PersonDeleted" => \A f \in Families : e.stream \notin Partners(Here, f)
  /\ e.type = "FamilyCreated" => \A i \in {1, 2} : e.arg[i] \in Here.people \union {Nobody}
  /\ e.type = "ChildLinked" => e.arg \in Here.people /\ \A f \in Families : <<f, e.arg>> \notin Here.kids

(***************************************************************************)
(* What the log says after one more event.                                 *)
(***************************************************************************)
LEMMA LogGrows ==
  ASSUME TypeInv, NEW e \in Events, log' = Append(log, e), NEW N, N = Len(log) + 1
  PROVE  /\ Len(log') = N /\ log' \in Seq(Events)
         /\ DOMAIN log = 1..Len(log) /\ DOMAIN log' = DOMAIN log \union {N}
         /\ Len(log) \in Nat /\ N \notin DOMAIN log
         /\ \A n \in DOMAIN log : log'[n] = log[n]
         /\ log'[N] = e
         /\ \A p : Deleted(p)' <=> Deleted(p) \/ (e.type = "PersonDeleted" /\ e.stream = p)
         /\ \A p : Moved(p)' <=> Moved(p) \/ (e.type = "ChildUnlinked" /\ e.arg = p)
         /\ \A n \in DOMAIN log : \A p : (Links(n, p)' <=> Links(n, p)) /\ (Created(n, p)' <=> Created(n, p))
         /\ \A p : Links(N, p)' <=> e.type = "ChildLinked" /\ e.arg = p
         /\ \A p : Created(N, p)' <=> e.type = "PersonCreated" /\ e.stream = p
<1>1. /\ Len(log') = N /\ log' \in Seq(Events)
      /\ DOMAIN log = 1..Len(log) /\ DOMAIN log' = DOMAIN log \union {N}
      /\ Len(log) \in Nat /\ N \notin DOMAIN log
      /\ \A n \in DOMAIN log : log'[n] = log[n]
      /\ log'[N] = e
  BY DEF TypeInv
<1>2. \A p : Deleted(p)' <=> Deleted(p) \/ (e.type = "PersonDeleted" /\ e.stream = p)
  BY <1>1, Zenon DEF Deleted, Deletes
<1>3. \A p : Moved(p)' <=> Moved(p) \/ (e.type = "ChildUnlinked" /\ e.arg = p)
  BY <1>1, Zenon DEF Moved
<1>4. \A n \in DOMAIN log : \A p : (Links(n, p)' <=> Links(n, p)) /\ (Created(n, p)' <=> Created(n, p))
  BY <1>1 DEF Links, Created
<1>5. \A p : Links(N, p)' <=> e.type = "ChildLinked" /\ e.arg = p
  BY <1>1 DEF Links
<1>6. \A p : Created(N, p)' <=> e.type = "PersonCreated" /\ e.stream = p
  BY <1>1 DEF Created
<1> QED
  BY <1>1, <1>2, <1>3, <1>4, <1>5, <1>6

(***************************************************************************)
(* The branch's tree stays whole.                                          *)
(***************************************************************************)
LEMMA WholeStays ==
  ASSUME IdsApart, NEW t \in Rows, Whole(t), NEW e, Allowed(t, e),
         e.type = "PersonDeleted" => \A f \in Families : e.stream \notin Partners(t, f),
         e.type = "FamilyCreated" =>
           (\A i \in {1, 2} : e.arg[i] \in t.people \union {Nobody}) /\ t.couple[e.stream] = NoFamily
  PROVE  Whole(Project(t, e))
<1> DEFINE u == Project(t, e)
<1>1. Formed(e)
  BY DEF Allowed
<1>2. /\ \A p \in Persons : p \in u.people <=> PersonAfter(t, e, p)
      /\ \A f \in Families : u.couple[f] = CoupleAfter(t, e, f)
      /\ \A f \in Families, p \in Persons : <<f, p>> \in u.kids <=> KidAfter(t, e, f, p)
  BY <1>1, ProjectIs
<1>3. u \in Rows
  BY <1>1, ProjectRows
<1> HIDE DEF u
<1>4. ASSUME NEW f \in Families PROVE Partners(u, f) \subseteq u.people
  <2> SUFFICES ASSUME NEW q \in Partners(u, f) PROVE q \in u.people
    OBVIOUS
  <2>1. q \in Persons /\ q # Nobody
    BY <1>3 DEF Partners, Rows
  <2>2. CASE e.type = "FamilyCreated" /\ e.stream = f
    <3>1. q \in t.people
      BY <1>2, <2>1, <2>2 DEF Partners, CoupleAfter
    <3> QED
      BY <1>2, <2>1, <2>2, <3>1 DEF PersonAfter
  <2>3. CASE e.type = "FamilyDeleted" /\ e.stream = f
    BY <1>2, <2>1, <2>3 DEF Partners, CoupleAfter, NoFamily
  <2>4. CASE ~(e.type \in {"FamilyCreated", "FamilyDeleted"} /\ e.stream = f)
    <3>1. u.couple[f] = t.couple[f]
      BY <1>2, <2>4 DEF CoupleAfter
    <3>2. q \in Partners(t, f) /\ q \in t.people
      BY <3>1 DEF Partners, Whole
    <3> QED
      BY <1>2, <2>1, <3>2 DEF PersonAfter
  <2> QED
    BY <2>2, <2>3, <2>4
<1>5. ASSUME NEW k \in u.kids PROVE k[1] \in FamiliesOf(u)
  <2>1. PICK f \in Families, p \in Persons : k = <<f, p>>
    BY <1>3 DEF Rows
  <2>2. KidAfter(t, e, f, p)
    BY <1>2, <2>1
  <2>3. f \in FamiliesOf(t) /\ ~(e.type = "FamilyDeleted" /\ e.stream = f)
    BY <2>2 DEF KidAfter, Whole, Allowed
  <2>4. u.couple[f] = t.couple[f]
    BY <1>2, <2>3 DEF CoupleAfter, FamiliesOf
  <2> QED
    BY <2>1, <2>3, <2>4 DEF FamiliesOf
<1> QED
  BY <1>4, <1>5 DEF Whole, u

(***************************************************************************)
(* A family with a row has a partner, so whoever has parents nowhere has   *)
(* no row as a child.                                                      *)
(***************************************************************************)
LEMMA NoParentsNoRow ==
  ASSUME NEW t \in Rows, Whole(t), NEW p \in Persons, ParentsOf(t, p) = {}
  PROVE  \A f \in Families : <<f, p>> \notin t.kids
<1> SUFFICES ASSUME NEW f \in Families, <<f, p>> \in t.kids PROVE FALSE
  OBVIOUS
<1>1. t.couple[f] # NoFamily
  BY DEF Whole, FamiliesOf
<1>2. PICK q \in Partners(t, f) : TRUE
  BY <1>1 DEF Partners, NoFamily, Rows
<1> QED
  BY <1>2 DEF ParentsOf

(***************************************************************************)
(* Who was there, or came, on the branch.                                  *)
(***************************************************************************)
LEMMA KnownStay ==
  ASSUME IdsApart, TypeInv, NEW b, PeopleAreKnown(b), PartnersFirst(b), Whole(Here),
         NEW e, Checked(e), log' = Append(log, e), tree'["branch"] = Project(Here, e)
  PROVE  PeopleAreKnown(b)' /\ PartnersFirst(b)'
<1> DEFINE t == Here
           u == Project(t, e)
<1>0. PICK N : N = Len(log) + 1
  OBVIOUS
<1>1. t \in Rows /\ Formed(e) /\ e \in Events
  BY DEF TypeInv, Checked, Allowed, Here
<1>2. /\ \A p \in Persons : p \in u.people <=> PersonAfter(t, e, p)
      /\ \A f \in Families : u.couple[f] = CoupleAfter(t, e, f)
  BY <1>1, ProjectIs
<1>3. u \in Rows
  BY <1>1, ProjectRows
<1>4. /\ DOMAIN log = 1..Len(log) /\ DOMAIN log' = DOMAIN log \union {N}
      /\ Len(log) \in Nat /\ N \notin DOMAIN log
      /\ \A n \in DOMAIN log : log'[n] = log[n]
      /\ log'[N] = e
      /\ \A n \in DOMAIN log : \A p : Created(n, p)' <=> Created(n, p)
      /\ \A p : Created(N, p)' <=> e.type = "PersonCreated" /\ e.stream = p
  BY <1>1, <1>0, LogGrows
<1>5. Here' = u
  BY DEF Here
<1> HIDE DEF u, t
<1>6. ASSUME NEW p \in u.people
      PROVE  p \in b.people \/ \E c \in DOMAIN log' : Created(c, p)'
  <2>1. p \in Persons
    BY <1>3 DEF Rows
  <2>2. CASE e.type = "PersonCreated" /\ e.stream = p
    <3>1. N \in DOMAIN log' /\ Created(N, p)'
      BY <1>4, <2>2
    <3> QED
      BY <3>1
  <2>3. CASE p \in t.people
    BY <1>4, <2>3 DEF PeopleAreKnown, t
  <2> QED
    BY <1>2, <2>1, <2>2, <2>3 DEF PersonAfter
<1>7. ASSUME NEW f \in Families, NEW q \in Partners(u, f)
      PROVE  \/ q \in b.people
             \/ \E c \in DOMAIN log' : Created(c, q)' /\ \A m \in DOMAIN log' : log'[m].stream = f => c < m
  <2>1. CASE e.type = "FamilyCreated" /\ e.stream = f
    <3>1. q \in t.people
      BY <1>2, <2>1 DEF Partners, CoupleAfter, Checked, t
    <3>2. q \in b.people \/ \E c \in DOMAIN log : Created(c, q)
      BY <3>1 DEF PeopleAreKnown, t
    <3>3. \A m \in DOMAIN log' : log'[m].stream = f => m = N
      BY <1>4, <2>1 DEF Checked
    <3>4. \A c \in DOMAIN log : c < N
      BY <1>4, <1>0
    <3> QED
      BY <1>4, <3>2, <3>3, <3>4
  <2>2. CASE e.type = "FamilyDeleted" /\ e.stream = f
    BY <1>2, <2>2 DEF Partners, CoupleAfter, NoFamily
  <2>3. CASE ~(e.type \in {"FamilyCreated", "FamilyDeleted"} /\ e.stream = f)
    <3>1. u.couple[f] = t.couple[f]
      BY <1>2, <2>3 DEF CoupleAfter
    <3>2. q \in Partners(t, f)
      BY <3>1 DEF Partners
    <3>3. \A c \in DOMAIN log : c < N
      BY <1>4, <1>0
    <3>4. CASE q \in b.people
      BY <3>4
    <3>5. ASSUME NEW c \in DOMAIN log, Created(c, q), \A m \in DOMAIN log : log[m].stream = f => c < m
          PROVE  Created(c, q)' /\ \A m \in DOMAIN log' : log'[m].stream = f => c < m
      BY <1>4, <3>3, <3>5
    <3> QED
      BY <1>4, <3>2, <3>4, <3>5 DEF PartnersFirst, t
  <2> QED
    BY <2>1, <2>2, <2>3
<1> QED
  BY <1>5, <1>6, <1>7 DEF PeopleAreKnown, PartnersFirst

(***************************************************************************)
(* A deleted person has no place on the branch again.                      *)
(***************************************************************************)
LEMMA AwayStays ==
  ASSUME IdsApart, TypeInv, DeletedStayAway,
         NEW e, Checked(e), log' = Append(log, e), tree'["branch"] = Project(Here, e)
  PROVE  DeletedStayAway'
<1> DEFINE t == Here
           u == Project(t, e)
<1>1. t \in Rows /\ Formed(e) /\ e \in Events
  BY DEF TypeInv, Checked, Allowed, Here
<1>2. /\ \A p \in Persons : p \in u.people <=> PersonAfter(t, e, p)
      /\ \A f \in Families, p \in Persons : <<f, p>> \in u.kids <=> KidAfter(t, e, f, p)
  BY <1>1, ProjectIs
<1>3. Here' = u
  BY DEF Here
<1> HIDE DEF u
<1>4. ASSUME NEW p \in Persons, Deleted(p)'
      PROVE  p \notin u.people /\ \A f \in Families : <<f, p>> \notin u.kids
  <2>1. CASE e.type = "PersonDeleted" /\ e.stream = p
    BY <1>2, <2>1 DEF PersonAfter, KidAfter
  <2>2. CASE Deleted(p)
    <3>1. p \notin t.people /\ \A f \in Families : <<f, p>> \notin t.kids
      BY <2>2 DEF DeletedStayAway
    <3>2. ~(e.type = "PersonCreated" /\ e.stream = p)
      BY <2>2 DEF Deleted, Deletes, Checked
    <3>3. ~(e.type = "ChildLinked" /\ e.arg = p)
      BY <3>1 DEF Checked
    <3> QED
      BY <1>2, <3>1, <3>2, <3>3 DEF PersonAfter, KidAfter
  <2> QED
    BY <1>1, <1>4, <2>1, <2>2, LogGrows
<1> QED
  BY <1>3, <1>4 DEF DeletedStayAway
(***************************************************************************)
(* Who has not been taken out of a family stays where a link has put them: *)
(* nothing else cuts their edge, and nobody is linked twice.               *)
(***************************************************************************)
LEMMA LinksStay ==
  ASSUME IdsApart, TypeInv, NEW h, Past(h), DeletedStayAway, EdgesAreLinks(h),
         NEW e, Checked(e), log' = Append(log, e), tree'["branch"] = Project(Here, e),
         NEW g, \A i \in 0..Len(log) : g[i] = h[i]
  PROVE  EdgesAreLinks(g)'
<1> DEFINE t == Here
           u == Project(t, e)
<1>0. PICK N : N = Len(log) + 1
  OBVIOUS
<1>1. t \in Rows /\ Formed(e) /\ e \in Events /\ Allowed(t, e)
  BY DEF TypeInv, Checked, Allowed, Here
<1>2. /\ \A f \in Families : u.couple[f] = CoupleAfter(t, e, f)
      /\ \A f \in Families, p \in Persons : <<f, p>> \in u.kids <=> KidAfter(t, e, f, p)
      /\ \A p \in Persons : u.edge[p] = EdgeAfter(t, e, p)
  BY <1>1, ProjectIs
<1>3. /\ DOMAIN log = 1..Len(log) /\ DOMAIN log' = DOMAIN log \union {N}
      /\ Len(log) \in Nat /\ N \notin DOMAIN log
      /\ \A n \in DOMAIN log : log'[n] = log[n]
      /\ log'[N] = e
      /\ \A p : Deleted(p)' <=> Deleted(p) \/ (e.type = "PersonDeleted" /\ e.stream = p)
      /\ \A p : Moved(p)' <=> Moved(p) \/ (e.type = "ChildUnlinked" /\ e.arg = p)
      /\ \A n \in DOMAIN log : \A p : Links(n, p)' <=> Links(n, p)
      /\ \A p : Links(N, p)' <=> e.type = "ChildLinked" /\ e.arg = p
  BY <1>0, <1>1, LogGrows
<1>4. Here' = u
  BY DEF Here
<1>5. \A n \in DOMAIN log : g[n - 1] = h[n - 1]
  BY <1>3
<1>6. N - 1 = Len(log) /\ g[N - 1] = t /\ g[0] = h[0]
  BY <1>0, <1>3 DEF Past, Here
<1> HIDE DEF u, t
<1>7. ASSUME NEW p \in Persons, ~Moved(p)'
      PROVE  /\ Deleted(p)' => u.edge[p] = NoEdge /\ \A n \in DOMAIN log' : ~Links(n, p)'
             /\ ~Deleted(p)' => \A n \in DOMAIN log' : Links(n, p)' =>
                  /\ <<log'[n].stream, p>> \in u.kids
                  /\ u.couple[log'[n].stream] = g[n - 1].couple[log'[n].stream]
                  /\ u.edge[p] = EdgeTo(g[n - 1], log'[n].stream)
             /\ (\A n \in DOMAIN log' : ~Links(n, p)') /\ ~Deleted(p)' => u.edge[p] = g[0].edge[p]
  <2>1. ~Moved(p) /\ ~(e.type = "ChildUnlinked" /\ e.arg = p)
    BY <1>3, <1>7
  <2>2. /\ Deleted(p) => t.edge[p] = NoEdge /\ \A n \in DOMAIN log : ~Links(n, p)
        /\ ~Deleted(p) => \A n \in DOMAIN log : Links(n, p) =>
             /\ <<log[n].stream, p>> \in t.kids
             /\ t.couple[log[n].stream] = h[n - 1].couple[log[n].stream]
             /\ t.edge[p] = EdgeTo(h[n - 1], log[n].stream)
        /\ (\A n \in DOMAIN log : ~Links(n, p)) /\ ~Deleted(p) => t.edge[p] = h[0].edge[p]
    BY <2>1 DEF EdgesAreLinks, t
  <2>3. e.type = "ChildLinked" /\ e.arg = p => ~Deleted(p) /\ \A f \in Families : <<f, p>> \notin t.kids
    BY DEF Checked, DeletedStayAway, t
  <2>4. \A n \in DOMAIN log : Links(n, p) => log[n].stream \in Families
    BY <1>3, PastStep DEF Links, Formed
  <2>5. ~(e.type = "FamilyDeleted" /\ <<e.stream, p>> \in t.kids)
    BY <1>1 DEF Allowed
  <2>6. CASE Deleted(p)'
    <3>1. \A n \in DOMAIN log : ~Links(n, p)
      <4>1. CASE Deleted(p)
        BY <2>2, <4>1
      <4>2. CASE e.type = "PersonDeleted" /\ e.stream = p /\ ~Deleted(p)
        BY <1>1, <2>2, <2>4, <4>2 DEF Allowed
      <4> QED
        BY <1>3, <2>6, <4>1, <4>2
    <3>2. ~(e.type = "ChildLinked" /\ e.arg = p)
      BY <1>3, <2>3, <2>6
    <3>3. u.edge[p] = NoEdge
      BY <1>2, <1>3, <2>2, <2>6, <3>2 DEF EdgeAfter, Cuts
    <3>4. \A n \in DOMAIN log' : ~Links(n, p)'
      BY <1>3, <3>1, <3>2
    <3> QED
      BY <2>6, <3>3, <3>4
  <2>7. CASE ~Deleted(p)'
    <3>1. ~Deleted(p) /\ ~(e.type = "PersonDeleted" /\ e.stream = p)
      BY <1>3, <2>7
    <3>2. ~Cuts(t, e, p)
      BY <2>1, <2>5, <3>1 DEF Cuts
    <3>3. ASSUME NEW n \in DOMAIN log, Links(n, p)'
          PROVE  /\ <<log'[n].stream, p>> \in u.kids
                 /\ u.couple[log'[n].stream] = g[n - 1].couple[log'[n].stream]
                 /\ u.edge[p] = EdgeTo(g[n - 1], log'[n].stream)
      <4> DEFINE f == log[n].stream
      <4>1. f \in Families /\ log'[n].stream = f /\ Links(n, p)
        BY <1>3, <2>4, <3>3
      <4>2. /\ <<f, p>> \in t.kids /\ t.couple[f] = g[n - 1].couple[f]
            /\ t.edge[p] = EdgeTo(g[n - 1], f)
        BY <1>5, <2>2, <3>1, <4>1
      <4>3. ~(e.type = "FamilyDeleted" /\ e.stream = f) /\ ~(e.type = "FamilyCreated" /\ e.stream = f)
        BY <2>5, <4>2 DEF Checked
      <4> HIDE DEF f
      <4>4. <<f, p>> \in u.kids
        BY <1>2, <2>1, <3>1, <4>1, <4>2, <4>3 DEF KidAfter
      <4>5. u.couple[f] = t.couple[f]
        BY <1>2, <4>1, <4>3 DEF CoupleAfter
      <4>6. u.edge[p] = t.edge[p]
        BY <1>2, <2>3, <3>2, <4>1, <4>2 DEF EdgeAfter
      <4> QED
        BY <4>1, <4>2, <4>4, <4>5, <4>6
    <3>4. ASSUME Links(N, p)'
          PROVE  /\ <<log'[N].stream, p>> \in u.kids
                 /\ u.couple[log'[N].stream] = g[N - 1].couple[log'[N].stream]
                 /\ u.edge[p] = EdgeTo(g[N - 1], log'[N].stream)
      <4>0. Links(N, p)'
        BY <3>4
      <4>1. e.type = "ChildLinked" /\ e.arg = p /\ log'[N] = e
        BY <1>3, <4>0
      <4>2. e.stream \in Families /\ e.stream \in FamiliesOf(t)
        BY <1>1, <4>1 DEF Formed, Allowed
      <4>3. <<e.stream, p>> \in u.kids /\ u.couple[e.stream] = t.couple[e.stream]
        BY <1>2, <4>1, <4>2 DEF KidAfter, CoupleAfter
      <4>4. u.edge[p] = EdgeTo(t, e.stream)
        BY <1>2, <3>2, <4>1, <4>2 DEF EdgeAfter
      <4> QED
        BY <1>6, <4>1, <4>3, <4>4
    <3>5. ASSUME \A n \in DOMAIN log' : ~Links(n, p)'
          PROVE  u.edge[p] = g[0].edge[p]
      <4>1. \A n \in DOMAIN log : ~Links(n, p)
        BY <1>3, <3>5
      <4>2. ~(e.type = "ChildLinked" /\ e.arg = p)
        BY <1>3, <3>5
      <4> QED
        BY <1>2, <1>6, <2>2, <3>1, <3>2, <4>1, <4>2 DEF EdgeAfter
    <3> QED
      BY <1>3, <2>7, <3>3, <3>4, <3>5
  <2> QED
    BY <2>6, <2>7
<1> QED
  BY <1>4, <1>7 DEF EdgesAreLinks
(***************************************************************************)
(* A command's event keeps the invariant: the past is one event longer.    *)
(***************************************************************************)
LEMMA WriteKeeps ==
  ASSUME IdsApart, TreesWhole, NEW h, Inv(h),
         NEW type, NEW stream, NEW arg, Write(type, stream, arg),
         NEW e, e = [type |-> type, stream |-> stream, arg |-> arg], Checked(e),
         e.type = "FamilyCreated" => Here.couple[e.stream] = NoFamily
  PROVE  IInv'
<1> DEFINE t == Here
           u == Project(t, e)
<1>0. PICK N : N = Len(log) + 1
  OBVIOUS
<1>1. t \in Rows /\ Formed(e) /\ e \in Events /\ Allowed(t, e) /\ u \in Rows
  <2>1. t \in Rows /\ Formed(e) /\ e \in Events /\ Allowed(t, e)
    BY DEF Inv, TypeInv, Checked, Allowed, Here
  <2> QED
    BY <2>1, ProjectRows
<1>2. /\ ~merged /\ merged' = merged /\ replayed' = replayed
      /\ log' = Append(log, e) /\ tree' = [tree EXCEPT !["branch"] = u]
  BY DEF Write, Here
<1>3. /\ TypeInv /\ Past(h) /\ BranchInv(h) /\ replayed = {} /\ Main = h[0]
  BY <1>2 DEF Inv
<1>4. tree'["branch"] = u /\ tree'["main"] = Main /\ tree' \in [{"main", "branch"} -> Rows]
  BY <1>1, <1>2, <1>3 DEF TypeInv, Main
<1>5. /\ Len(log') = N /\ log' \in Seq(Events)
      /\ DOMAIN log = 1..Len(log) /\ Len(log) \in Nat /\ N \notin DOMAIN log
      /\ \A n \in DOMAIN log : log'[n] = log[n]
      /\ log'[N] = e
  BY <1>0, <1>1, <1>2, <1>3, LogGrows
<1>6. PICK g : g = [i \in 0..N |-> IF i = N THEN u ELSE h[i]]
  OBVIOUS
<1>7. /\ \A i \in 0..Len(log) : g[i] = h[i]
      /\ g[N] = u
  BY <1>0, <1>5, <1>6
<1>8. TypeInv'
  BY <1>2, <1>3, <1>4, <1>5 DEF TypeInv
<1>9. Past(g)'
  <2>1. g[0] \in Trees /\ g[N] = tree'["branch"]
    BY <1>3, <1>4, <1>5, <1>7 DEF Past
  <2>2. ASSUME NEW n \in 0..N PROVE g[n] \in Rows
    BY <1>0, <1>1, <1>3, <1>5, <1>7 DEF Past
  <2>3. ASSUME NEW n \in 1..N
        PROVE  g[n] = Project(g[n - 1], log'[n]) /\ Allowed(g[n - 1], log'[n])
    <3>1. CASE n = N
      <4>1. g[N - 1] = t
        BY <1>0, <1>3, <1>5, <1>7 DEF Past, Here
      <4> QED
        BY <1>1, <1>5, <1>7, <3>1, <4>1
    <3>2. CASE n # N
      <4>1. n \in 1..Len(log) /\ n - 1 \in 0..Len(log) /\ n \in 0..Len(log)
        BY <1>0, <1>5, <3>2
      <4>2. g[n] = h[n] /\ g[n - 1] = h[n - 1] /\ log'[n] = log[n]
        BY <1>5, <1>7, <4>1
      <4> QED
        BY <1>3, <4>1, <4>2 DEF Past
    <3> QED
      BY <3>1, <3>2
  <2> QED
    BY <1>5, <2>1, <2>2, <2>3 DEF Past
<1>10. BranchInv(g)'
  <2>1. Whole(Here)'
    <3>1. Whole(u)
      BY <1>1, <1>3, WholeStays DEF BranchInv, Checked
    <3> QED
      BY <1>4, <3>1 DEF Here
  <2>2. PeopleAreKnown(g[0])' /\ PartnersFirst(g[0])'
    <3>1. g[0] = h[0]
      BY <1>5, <1>7
    <3>2. PICK b : b = h[0]
      OBVIOUS
    <3>3. PeopleAreKnown(b)' /\ PartnersFirst(b)'
      BY <1>2, <1>3, <1>4, <3>2, KnownStay DEF BranchInv
    <3> QED
      BY <3>1, <3>2, <3>3
  <2>3. DeletedStayAway'
    BY <1>2, <1>3, <1>4, AwayStays DEF BranchInv
  <2>4. EdgesAreLinks(g)'
    BY <1>2, <1>3, <1>4, <1>7, LinksStay DEF BranchInv
  <2> QED
    BY <2>1, <2>2, <2>3, <2>4 DEF BranchInv
<1>11. ~merged' /\ replayed' = {} /\ Main' = g[0]
  BY <1>2, <1>3, <1>4, <1>5, <1>7 DEF Main
<1>12. Inv(g)'
  BY <1>8, <1>9, <1>10, <1>11 DEF Inv
<1> QED
  BY <1>12 DEF IInv

(***************************************************************************)
(* The branch's commands keep the invariant.                               *)
(***************************************************************************)
LEMMA CommandsKeep ==
  ASSUME IdsApart, TreesWhole, NEW h, Inv(h),
         \/ CreatePerson \/ UpdatePerson \/ DeletePerson
         \/ CreateFamily \/ UpdateFamily \/ DeleteFamily
         \/ LinkChild \/ UnlinkChild
  PROVE  IInv'
<1>1. Here \in Rows /\ Whole(Here)
  BY DEF Inv, TypeInv, Here, BranchInv
<1>2. /\ Here.people \subseteq Persons /\ FamiliesOf(Here) \subseteq Families
      /\ Here.kids \subseteq Families \X Persons
  BY <1>1 DEF Rows, FamiliesOf
<1>3. CASE CreatePerson
  <2>1. PICK p \in Persons : Unborn(p) /\ Write("PersonCreated", p, Nobody)
    BY <1>3 DEF CreatePerson
  <2> DEFINE e == [type |-> "PersonCreated", stream |-> p, arg |-> Nobody]
  <2>8. e = [type |-> "PersonCreated", stream |-> p, arg |-> Nobody]
    OBVIOUS
  <2>7. p \in Persons \union Families /\ Nobody \in Args
    BY <1>2, <2>1 DEF Args
  <2>9. e.type = "PersonCreated" /\ e.stream = p /\ e.arg = Nobody /\ e \in Events
    BY <2>7 DEF Events, Types
  <2> HIDE DEF e
  <2>2. Checked(e)
    BY <2>1, <2>9 DEF Checked, Allowed, Formed, Unborn
  <2> QED
    BY <2>1, <2>2, <2>8, <2>9, WriteKeeps
<1>4. CASE UpdatePerson
  <2>1. PICK p \in Here.people : Write("PersonUpdated", p, Nobody)
    BY <1>4 DEF UpdatePerson
  <2> DEFINE e == [type |-> "PersonUpdated", stream |-> p, arg |-> Nobody]
  <2>8. e = [type |-> "PersonUpdated", stream |-> p, arg |-> Nobody]
    OBVIOUS
  <2>7. p \in Persons \union Families /\ Nobody \in Args
    BY <1>2, <2>1 DEF Args
  <2>9. e.type = "PersonUpdated" /\ e.stream = p /\ e.arg = Nobody /\ e \in Events
    BY <2>7 DEF Events, Types
  <2> HIDE DEF e
  <2>2. Checked(e)
    BY <1>2, <2>1, <2>9 DEF Checked, Allowed, Formed
  <2> QED
    BY <2>1, <2>2, <2>8, <2>9, WriteKeeps
<1>5. CASE DeletePerson
  <2>1. PICK p \in Here.people :
          /\ ParentsOf(Here, p) = {} /\ \A f \in FamiliesOf(Here) : p \notin Partners(Here, f)
          /\ Write("PersonDeleted", p, Nobody)
    BY <1>5 DEF DeletePerson
  <2> DEFINE e == [type |-> "PersonDeleted", stream |-> p, arg |-> Nobody]
  <2>8. e = [type |-> "PersonDeleted", stream |-> p, arg |-> Nobody]
    OBVIOUS
  <2>7. p \in Persons \union Families /\ Nobody \in Args
    BY <1>2, <2>1 DEF Args
  <2>9. e.type = "PersonDeleted" /\ e.stream = p /\ e.arg = Nobody /\ e \in Events
    BY <2>7 DEF Events, Types
  <2> HIDE DEF e
  <2>2. \A f \in Families : p \notin Partners(Here, f)
    BY <2>1 DEF FamiliesOf, Partners, NoFamily
  <2>3. \A f \in Families : <<f, p>> \notin Here.kids
    BY <1>1, <1>2, <2>1, NoParentsNoRow
  <2>4. Checked(e)
    BY <1>2, <2>2, <2>3, <2>9 DEF Checked, Allowed, Formed
  <2> QED
    BY <2>1, <2>4, <2>8, <2>9, WriteKeeps
<1>6. CASE CreateFamily
  <2>1. PICK f \in Families, p \in Here.people, q \in Here.people \union {Nobody} :
          /\ Here.couple[f] = NoFamily /\ Unborn(f) /\ p # q
          /\ Write("FamilyCreated", f, <<p, q>>)
    BY <1>6 DEF CreateFamily
  <2> DEFINE e == [type |-> "FamilyCreated", stream |-> f, arg |-> <<p, q>>]
  <2>8. e = [type |-> "FamilyCreated", stream |-> f, arg |-> <<p, q>>]
    OBVIOUS
  <2>7. f \in Persons \union Families /\ <<p, q>> \in Args
    BY <1>2, <2>1 DEF Args
  <2>9. e.type = "FamilyCreated" /\ e.stream = f /\ e.arg = <<p, q>> /\ e \in Events
    BY <2>7 DEF Events, Types
  <2> HIDE DEF e
  <2>2. Checked(e)
    BY <1>2, <2>1, <2>9 DEF Checked, Allowed, Formed, Unborn
  <2> QED
    BY <2>1, <2>2, <2>8, <2>9, WriteKeeps
<1>7. CASE UpdateFamily
  <2>1. PICK f \in FamiliesOf(Here) : Write("FamilyUpdated", f, Nobody)
    BY <1>7 DEF UpdateFamily
  <2> DEFINE e == [type |-> "FamilyUpdated", stream |-> f, arg |-> Nobody]
  <2>8. e = [type |-> "FamilyUpdated", stream |-> f, arg |-> Nobody]
    OBVIOUS
  <2>7. f \in Persons \union Families /\ Nobody \in Args
    BY <1>2, <2>1 DEF Args
  <2>9. e.type = "FamilyUpdated" /\ e.stream = f /\ e.arg = Nobody /\ e \in Events
    BY <2>7 DEF Events, Types
  <2> HIDE DEF e
  <2>2. Checked(e)
    BY <1>2, <2>1, <2>9 DEF Checked, Allowed, Formed
  <2> QED
    BY <2>1, <2>2, <2>8, <2>9, WriteKeeps
<1>8. CASE DeleteFamily
  <2>1. PICK f \in FamiliesOf(Here) :
          (\A p \in Persons : <<f, p>> \notin Here.kids) /\ Write("FamilyDeleted", f, Nobody)
    BY <1>8 DEF DeleteFamily
  <2> DEFINE e == [type |-> "FamilyDeleted", stream |-> f, arg |-> Nobody]
  <2>8. e = [type |-> "FamilyDeleted", stream |-> f, arg |-> Nobody]
    OBVIOUS
  <2>7. f \in Persons \union Families /\ Nobody \in Args
    BY <1>2, <2>1 DEF Args
  <2>9. e.type = "FamilyDeleted" /\ e.stream = f /\ e.arg = Nobody /\ e \in Events
    BY <2>7 DEF Events, Types
  <2> HIDE DEF e
  <2>2. Checked(e)
    BY <1>2, <2>1, <2>9 DEF Checked, Allowed, Formed
  <2> QED
    BY <2>1, <2>2, <2>8, <2>9, WriteKeeps
<1>9. CASE LinkChild
  <2>1. PICK f \in FamiliesOf(Here), p \in Here.people :
          ParentsOf(Here, p) = {} /\ Write("ChildLinked", f, p)
    BY <1>9 DEF LinkChild
  <2> DEFINE e == [type |-> "ChildLinked", stream |-> f, arg |-> p]
  <2>8. e = [type |-> "ChildLinked", stream |-> f, arg |-> p]
    OBVIOUS
  <2>7. f \in Persons \union Families /\ p \in Args
    BY <1>2, <2>1 DEF Args
  <2>9. e.type = "ChildLinked" /\ e.stream = f /\ e.arg = p /\ e \in Events
    BY <2>7 DEF Events, Types
  <2> HIDE DEF e
  <2>2. \A g \in Families : <<g, p>> \notin Here.kids
    BY <1>1, <1>2, <2>1, NoParentsNoRow
  <2>3. Checked(e)
    BY <1>2, <2>1, <2>2, <2>9 DEF Checked, Allowed, Formed
  <2> QED
    BY <2>1, <2>3, <2>8, <2>9, WriteKeeps
<1>10. CASE UnlinkChild
  <2>1. PICK k \in Here.kids : Write("ChildUnlinked", k[1], k[2])
    BY <1>10 DEF UnlinkChild
  <2> DEFINE e == [type |-> "ChildUnlinked", stream |-> k[1], arg |-> k[2]]
  <2>8. e = [type |-> "ChildUnlinked", stream |-> k[1], arg |-> k[2]]
    OBVIOUS
  <2>7. k[1] \in Persons \union Families /\ k[2] \in Args
    BY <1>2, <2>1 DEF Args
  <2>9. e.type = "ChildUnlinked" /\ e.stream = k[1] /\ e.arg = k[2] /\ e \in Events
    BY <2>7 DEF Events, Types
  <2> HIDE DEF e
  <2>2. Checked(e)
    BY <1>2, <2>1, <2>9 DEF Checked, Allowed, Formed
  <2> QED
    BY <2>1, <2>2, <2>8, <2>9, WriteKeeps
<1> QED
  BY <1>3, <1>4, <1>5, <1>6, <1>7, <1>8, <1>9, <1>10
-----------------------------------------------------------------------------
(* The merge.                                                              *)

(***************************************************************************)
(* Every stream has a last event that has come to main, or none has.       *)
(***************************************************************************)
LEMMA LatestExists ==
  ASSUME TypeInv, replayed \subseteq Genealogy, NEW s
  PROVE  \E k \in 0..Len(log) : Latest(s, k)
<1> DEFINE T == {k \in 0..Len(log) : \A m \in replayed : log[m].stream = s => m <= k}
<1>1. Len(log) \in Nat /\ replayed \subseteq 1..Len(log)
  BY DEF TypeInv, Genealogy
<1>2. Len(log) \in T /\ T \subseteq Nat
  BY <1>1
<1>3. PICK k \in T : \A i \in T : k <= i
  <2> HIDE DEF T
  <2> QED
    BY <1>2, LeastPosition
<1>4. k = 0 \/ (k \in replayed /\ log[k].stream = s)
  <2> SUFFICES ASSUME k # 0, ~(k \in replayed /\ log[k].stream = s) PROVE FALSE
    OBVIOUS
  <2>1. k \in 1..Len(log) /\ k - 1 \in 0..Len(log)
    BY <1>1
  <2>2. ASSUME NEW m \in replayed, log[m].stream = s PROVE m <= k - 1
    <3>1. m <= k /\ m # k /\ m \in Int
      BY <1>1, <2>2
    <3> QED
      BY <2>1, <3>1
  <2>3. k - 1 \in T
    BY <2>1, <2>2
  <2> QED
    BY <1>3, <2>1, <2>3
<1> QED
  BY <1>4 DEF Latest

(***************************************************************************)
(* Before the first event has come to main it is as at the fork.           *)
(***************************************************************************)
LEMMA ClaimKeeps ==
  ASSUME NEW h, Inv(h), ClaimMerge
  PROVE  IInv'
<1>1. /\ TypeInv /\ Past(h) /\ BranchInv(h) /\ replayed = {} /\ Main = h[0]
      /\ merged' = TRUE /\ tree' = tree /\ log' = log /\ replayed' = replayed
  BY DEF Inv, ClaimMerge
<1>2. MainInv(h)
  <2>1. \A s, k : Latest(s, k) => k = 0
    BY <1>1 DEF Latest
  <2>2. \A f \in Families : FamilyIsThen(h, f, 0)
    BY <1>1 DEF FamilyIsThen
  <2>3. \A p \in Persons : PersonIsThen(h, p, 0) /\ EdgeIsThen(h, p)
    BY <1>1 DEF PersonIsThen, EdgeIsThen
  <2> QED
    BY <1>1, <2>1, <2>2, <2>3 DEF MainInv
<1>3. Past(h)' /\ TypeInv'
  BY <1>1 DEF Past, TypeInv
<1>4. BranchInv(h)'
  BY <1>1 DEF BranchInv, Here, PeopleAreKnown, PartnersFirst, DeletedStayAway, EdgesAreLinks, Created,
              Deleted, Deletes, Links, Moved
<1>5. MainInv(h)'
  BY <1>1, <1>2 DEF MainInv, Genealogy, Before, TouchedBefore, Latest, FamilyIsThen, PersonIsThen,
                    EdgeIsThen, Main, Here, Deleted, Deletes, Links, Moved
<1>6. Inv(h)'
  BY <1>1, <1>3, <1>4, <1>5 DEF Inv
<1> QED
  BY <1>6 DEF IInv

(***************************************************************************)
(* What a merge replays is what was written to persons and families.       *)
(***************************************************************************)
LEMMA GenealogyIs ==
  ASSUME IdsApart, TypeInv, NEW h, Past(h), NEW i \in 1..Len(log)
  PROVE  i \in Genealogy <=> log[i].stream \in Persons \union Families
<1>1. Formed(log[i]) /\ i \in DOMAIN log
  BY PastStep DEF TypeInv
<1> QED
  BY <1>1 DEF Formed, Genealogy, IdsApart

(***************************************************************************)
(* When an event comes to main, the branch's tree was before the event, in *)
(* the stream's rows, as it was after the stream's last event on main.     *)
(***************************************************************************)
LEMMA NextOfStream ==
  ASSUME IdsApart, TypeInv, NEW h, Past(h), MainInv(h), NEW n \in Genealogy \ replayed,
         \A m \in Genealogy \ replayed : ~Before(m, n),
         NEW j \in 0..Len(log), Latest(log[n].stream, j)
  PROVE  /\ n \in 1..Len(log) /\ n - 1 \in 0..Len(log) /\ j <= n - 1
         /\ \A i \in j + 1..n - 1 : log[i].stream # log[n].stream
<1>1. Len(log) \in Nat /\ Genealogy \subseteq 1..Len(log) /\ n \in 1..Len(log) /\ replayed \subseteq Genealogy
  BY DEF TypeInv, Genealogy, MainInv
<1>2. \A m \in Genealogy : Before(m, n) => m \in replayed
  OBVIOUS
<1>3. j < n
  <2>1. CASE j = 0
    BY <1>1, <2>1
  <2>2. CASE j \in replayed /\ log[j].stream = log[n].stream
    <3>1. j # n /\ ~Before(n, j)
      BY <2>2 DEF MainInv
    <3>2. ~(n < j)
      BY <2>2, <3>1 DEF Before
    <3> QED
      BY <1>1, <3>1, <3>2
  <2> QED
    BY <2>1, <2>2 DEF Latest
<1>4. ASSUME NEW i \in j + 1..n - 1, log[i].stream = log[n].stream PROVE FALSE
  <2>1. i \in 1..Len(log) /\ i < n /\ j < i
    BY <1>1, <1>3
  <2>2. i \in Genealogy
    BY <1>1, <1>4, <2>1, GenealogyIs
  <2>3. Before(i, n)
    BY <1>4, <2>1 DEF Before
  <2>4. i \in replayed
    BY <1>2, <2>2, <2>3
  <2> QED
    BY <1>4, <2>1, <2>4 DEF Latest
<1> QED
  BY <1>1, <1>3, <1>4
(***************************************************************************)
(* The partners whom a link that holds found on the branch are on main     *)
(* when it comes there: they are not deleted, and if main did not have     *)
(* them, their creation was written before the family's first event.       *)
(***************************************************************************)
LEMMA PartnersCame ==
  ASSUME IdsApart, TypeInv, NEW h, Past(h), BranchInv(h), MainInv(h), NEW n \in Genealogy \ replayed,
         \A m \in Genealogy \ replayed : ~Before(m, n), n - 1 \in 0..Len(log),
         NEW p \in Persons, ~Moved(p), ~Deleted(p), Links(n, p),
         NEW q \in Partners(h[n - 1], log[n].stream)
  PROVE  q \in h[n - 1].people /\ q \in Main.people
<1> DEFINE f == log[n].stream
<1>1. Len(log) \in Nat /\ DOMAIN log = 1..Len(log) /\ n \in 1..Len(log) /\ replayed \subseteq Genealogy
  BY DEF TypeInv, Genealogy, MainInv
<1>2. f \in Families /\ Here.couple[f] = h[n - 1].couple[f] /\ h[n - 1] \in Rows
  BY <1>1, PastStep DEF Links, Formed, BranchInv, EdgesAreLinks
<1>3. q \in Persons /\ q \in Partners(Here, f) /\ q # f
  BY <1>2 DEF Partners, Rows, IdsApart
<1>4. ~Deleted(q)
  BY <1>2, <1>3 DEF BranchInv, Whole, DeletedStayAway
<1>5. PICK k \in 0..Len(log) : Latest(q, k)
  BY LatestExists DEF MainInv
<1>6. q \in Main.people <=> q \in h[k].people
  BY <1>3, <1>5 DEF MainInv, PersonIsThen
<1>7. CASE q \in h[0].people
  <2>1. q \in h[n - 1].people /\ q \in h[k].people
    BY <1>1, <1>3, <1>4, <1>5, <1>7, PersonStays
  <2> QED
    BY <1>6, <2>1
<1>8. ASSUME NEW c \in DOMAIN log, Created(c, q), \A m \in DOMAIN log : log[m].stream = f => c < m
      PROVE  q \in h[n - 1].people /\ q \in h[k].people
  <2>1. c \in 1..Len(log) /\ c <= n - 1 /\ c \in 0..Len(log)
    BY <1>1, <1>8
  <2>2. log[c].type = "PersonCreated" /\ log[c].stream = q
    BY <1>8 DEF Created
  <2>3. q \in h[c].people
    BY <1>3, <2>1, <2>2, PastStep, ProjectIs DEF PersonAfter
  <2>4. c \in Genealogy
    BY <1>1, <2>2 DEF Genealogy
  <2>5. TouchedBefore(q, f)
    BY <1>1, <1>8, <2>2, <2>4 DEF TouchedBefore, Genealogy
  <2>6. Before(c, n)
    BY <1>3, <2>2, <2>5 DEF Before
  <2>7. c \in replayed
    BY <2>4, <2>6
  <2>8. c <= k
    BY <1>5, <2>2, <2>7 DEF Latest
  <2> QED
    BY <1>1, <1>3, <1>4, <1>5, <2>1, <2>3, <2>8, PersonStays
<1> QED
  BY <1>2, <1>3, <1>6, <1>7, <1>8 DEF BranchInv, PartnersFirst
(***************************************************************************)
(* So a link draws the edge that it drew on the branch.                    *)
(***************************************************************************)
LEMMA SameEdge ==
  ASSUME NEW v \in Rows, NEW t \in Rows, NEW f \in Families, v.couple[f] = t.couple[f],
         \A q \in Partners(t, f) : q \in t.people /\ q \in v.people, Nobody \notin Persons
  PROVE  EdgeTo(v, f) = EdgeTo(t, f)
<1> DEFINE p1 == t.couple[f][1]
           p2 == t.couple[f][2]
<1>1. {p1, p2} \intersect v.people = {p1, p2} \intersect t.people
  BY DEF Partners, Rows
<1> QED
  BY <1>1 DEF EdgeTo

(***************************************************************************)
(* An event that comes to main leaves main as the branch was.              *)
(***************************************************************************)
LEMMA ReplayKeeps ==
  ASSUME IdsApart, NEW h, Inv(h), ReplayEvent
  PROVE  IInv'
<1>1. PICK n \in Genealogy \ replayed :
        /\ merged /\ \A m \in Genealogy \ replayed : ~Before(m, n)
        /\ replayed' = replayed \union {n} /\ tree' = [tree EXCEPT !["main"] = Project(@, log[n])]
        /\ log' = log /\ merged' = merged
  BY DEF ReplayEvent
<1>0. PICK s : s = log[n].stream
  OBVIOUS
<1> DEFINE e == log[n]
           t == h[n - 1]
           v == Main
           u == Project(v, e)
<1>2. TypeInv /\ Past(h) /\ BranchInv(h) /\ MainInv(h)
  BY <1>1 DEF Inv
<1>3. /\ n \in 1..Len(log) /\ n - 1 \in 0..Len(log) /\ n \in 0..Len(log) /\ Len(log) \in Nat
      /\ DOMAIN log = 1..Len(log)
  BY <1>2 DEF TypeInv, Genealogy
<1>4. t \in Rows /\ h[n] = Project(t, e) /\ Allowed(t, e) /\ Formed(e)
  BY <1>2, <1>3, PastStep
<1>5. v \in Rows /\ Here \in Rows
  BY <1>2 DEF TypeInv, Main, Here
<1>6. u \in Rows
  BY <1>4, <1>5, ProjectRows
<1>7. Main' = u /\ Here' = Here /\ tree' \in [{"main", "branch"} -> Rows]
  BY <1>1, <1>2, <1>6 DEF Main, Here, TypeInv
<1>8. /\ \A p \in Persons : p \in u.people <=> PersonAfter(v, e, p)
      /\ \A f \in Families : u.couple[f] = CoupleAfter(v, e, f)
      /\ \A f \in Families : u.count[f] = CountAfter(v, e, f)
      /\ \A f \in Families, p \in Persons : <<f, p>> \in u.kids <=> KidAfter(v, e, f, p)
      /\ \A p \in Persons : u.edge[p] = EdgeAfter(v, e, p)
  BY <1>4, <1>5, ProjectIs
<1>9. /\ \A p \in Persons : p \in h[n].people <=> PersonAfter(t, e, p)
      /\ \A f \in Families : h[n].couple[f] = CoupleAfter(t, e, f)
      /\ \A f \in Families : h[n].count[f] = CountAfter(t, e, f)
      /\ \A f \in Families, p \in Persons : <<f, p>> \in h[n].kids <=> KidAfter(t, e, f, p)
  BY <1>4, ProjectIs
<1>10. PICK j \in 0..Len(log) : Latest(s, j)
  BY <1>2, LatestExists DEF MainInv
<1>11. j <= n - 1 /\ (\A i \in j + 1..n - 1 : log[i].stream # s) /\ e.stream = s
  BY <1>0, <1>1, <1>2, <1>10, NextOfStream
<1> HIDE DEF e, t, v, u
<1>12. /\ \A x, k : Latest(x, k)' /\ x # s => Latest(x, k)
       /\ \A k : Latest(s, k)' => k = n
  <2>1. n \in replayed' /\ log'[n].stream = s /\ replayed \subseteq 1..Len(log)
    BY <1>0, <1>1, <1>2 DEF MainInv, Genealogy, TypeInv
  <2>2. ASSUME NEW x, NEW k, Latest(x, k)', x # s PROVE Latest(x, k)
    <3>1. /\ k \in 0..Len(log) /\ (k = 0 \/ (k \in replayed \union {n} /\ log[k].stream = x))
          /\ \A m \in replayed : log[m].stream = x => m <= k
      BY <1>1, <2>2 DEF Latest
    <3>2. x # s
      BY <2>2
    <3>3. k = 0 \/ (k \in replayed /\ log[k].stream = x)
      BY <1>0, <3>1, <3>2
    <3>4. \A m : m \in replayed => (log[m].stream = x => m <= k)
      BY <3>1
    <3>5. k \in 0..Len(log) /\ (k = 0 \/ (k \in replayed /\ log[k].stream = x))
      BY <3>1, <3>3
    <3> QED
      BY <3>4, <3>5 DEF Latest
  <2>3. ASSUME NEW k, Latest(s, k)' PROVE k = n
    <3>1. /\ k \in 0..Len(log) /\ n <= k
          /\ k = 0 \/ (k \in replayed \union {n} /\ log[k].stream = s)
      BY <1>1, <2>1, <2>3 DEF Latest
    <3>2. k \in replayed => k <= j
      BY <1>3, <1>10, <3>1 DEF Latest
    <3> QED
      BY <1>3, <1>10, <1>11, <3>1, <3>2
  <2>4. \A k : Latest(s, k)' => k = n
    BY <2>3
  <2> QED
    BY <2>2, <2>4
<1>13. \A p : Deleted(p)' <=> Deleted(p)
  BY <1>1 DEF Deleted, Deletes
<1>14. ASSUME NEW f \in Families, NEW k \in 0..Len(log), Latest(f, k)'
       PROVE  FamilyIsThen(h, f, k)'
  <2>1. CASE f # s
    <3>1. Latest(f, k)
      BY <1>12, <1>14, <2>1
    <3>2. FamilyIsThen(h, f, k)
      BY <1>2, <3>1 DEF MainInv
    <3>3. u.couple[f] = v.couple[f] /\ u.count[f] = v.count[f]
      BY <1>8, <1>11, <2>1 DEF CoupleAfter, CountAfter
    <3>4. \A p \in Persons : /\ <<f, p>> \in u.kids => <<f, p>> \in v.kids
                             /\ <<f, p>> \in v.kids /\ ~Deleted(p) => <<f, p>> \in u.kids
      <4>1. \A p : e.type = "PersonDeleted" /\ e.stream = p => Deleted(p)
        BY <1>3 DEF e, Deleted, Deletes
      <4> QED
        BY <1>8, <1>11, <2>1, <4>1 DEF KidAfter
    <3>5. /\ u.couple[f] = h[k].couple[f] /\ u.count[f] = h[k].count[f]
          /\ \A p \in Persons : /\ <<f, p>> \in u.kids => <<f, p>> \in h[k].kids
                                /\ <<f, p>> \in h[k].kids /\ ~Deleted(p) => <<f, p>> \in u.kids
      <4>1. /\ v.couple[f] = h[k].couple[f] /\ v.count[f] = h[k].count[f]
            /\ \A p \in Persons : /\ <<f, p>> \in v.kids => <<f, p>> \in h[k].kids
                                  /\ <<f, p>> \in h[k].kids /\ ~Deleted(p) => <<f, p>> \in v.kids
        BY <3>2 DEF FamilyIsThen, v
      <4>2. ASSUME NEW p \in Persons
            PROVE  /\ <<f, p>> \in u.kids => <<f, p>> \in h[k].kids
                   /\ <<f, p>> \in h[k].kids /\ ~Deleted(p) => <<f, p>> \in u.kids
        BY <3>4, <4>1, Zenon
      <4> QED
        BY <3>3, <4>1, <4>2
    <3> QED
      BY <1>7, <1>13, <3>5, Zenon DEF FamilyIsThen
  <2>2. CASE f = s
    <3>1. k = n
      BY <1>12, <1>14, <2>2
    <3>2. FamilyIsThen(h, f, j)
      BY <1>2, <1>10, <2>2 DEF MainInv
    <3>3. /\ t.couple[f] = h[j].couple[f] /\ t.count[f] = h[j].count[f]
          /\ \A p \in Persons : <<f, p>> \in t.kids <=> <<f, p>> \in h[j].kids
      <4>1. j <= n - 1 /\ \A i \in j + 1..n - 1 : log[i].stream # f
        BY <1>11, <2>2
      <4> QED
        BY <1>2, <1>3, <4>1, FamilyStill DEF t
    <3>4. /\ v.couple[f] = t.couple[f] /\ v.count[f] = t.count[f]
          /\ \A p \in Persons : /\ <<f, p>> \in v.kids => <<f, p>> \in t.kids
                                /\ <<f, p>> \in t.kids /\ ~Deleted(p) => <<f, p>> \in v.kids
      BY <3>2, <3>3 DEF FamilyIsThen, v
    <3>5. u.couple[f] = h[n].couple[f] /\ u.count[f] = h[n].count[f]
      BY <1>8, <1>9, <3>4 DEF CoupleAfter, CountAfter
    <3>6. \A p \in Persons : /\ <<f, p>> \in u.kids => <<f, p>> \in h[n].kids
                             /\ <<f, p>> \in h[n].kids /\ ~Deleted(p) => <<f, p>> \in u.kids
      BY <1>8, <1>9, <3>4 DEF KidAfter
    <3>7. /\ u.couple[f] = h[k].couple[f] /\ u.count[f] = h[k].count[f]
          /\ \A p \in Persons : /\ <<f, p>> \in u.kids => <<f, p>> \in h[k].kids
                                /\ <<f, p>> \in h[k].kids /\ ~Deleted(p) => <<f, p>> \in u.kids
      <4>1. h[n] = h[k]
        BY <3>1
      <4>2. u.couple[f] = h[k].couple[f] /\ u.count[f] = h[k].count[f]
        BY <3>5, <4>1
      <4>3. ASSUME NEW p \in Persons
            PROVE  /\ <<f, p>> \in u.kids => <<f, p>> \in h[k].kids
                   /\ <<f, p>> \in h[k].kids /\ ~Deleted(p) => <<f, p>> \in u.kids
        BY <3>6, <4>1
      <4> QED
        BY <4>2, <4>3
    <3> QED
      BY <1>7, <1>13, <3>7, Zenon DEF FamilyIsThen
  <2> QED
    BY <2>1, <2>2
<1>15. ASSUME NEW p \in Persons, NEW k \in 0..Len(log), Latest(p, k)'
       PROVE  PersonIsThen(h, p, k)'
  <2>1. CASE p # s
    <3>1. Latest(p, k)
      BY <1>12, <1>15, <2>1
    <3>2. p \in v.people <=> p \in h[k].people
      BY <1>2, <3>1 DEF MainInv, PersonIsThen, v
    <3>3. p \in u.people <=> p \in v.people
      BY <1>8, <1>11, <2>1 DEF PersonAfter
    <3> QED
      BY <1>7, <3>2, <3>3 DEF PersonIsThen
  <2>2. CASE p = s
    <3>1. k = n
      BY <1>12, <1>15, <2>2
    <3>2. p \in v.people <=> p \in h[j].people
      BY <1>2, <1>10, <2>2 DEF MainInv, PersonIsThen, v
    <3>3. p \in t.people <=> p \in h[j].people
      BY <1>2, <1>3, <1>11, <2>2, PersonStill DEF t
    <3>4. p \in u.people <=> p \in h[n].people
      BY <1>8, <1>9, <3>2, <3>3 DEF PersonAfter
    <3> QED
      BY <1>7, <3>1, <3>4 DEF PersonIsThen
  <2> QED
    BY <2>1, <2>2
<1>16. ASSUME NEW p \in Persons, ~Moved(p)
       PROVE  EdgeIsThen(h, p)'
  <2>1. EdgeIsThen(h, p)
    BY <1>2, <1>16 DEF MainInv
  <2>2. /\ \A m : Deletes(m, p)' <=> Deletes(m, p)
        /\ \A m : Links(m, p)' <=> Links(m, p)
        /\ Deletes(n, p) <=> e.type = "PersonDeleted" /\ e.stream = p
        /\ Links(n, p) <=> e.type = "ChildLinked" /\ e.arg = p
    BY <1>1, <1>3 DEF Deletes, Links, e
  <2>3. ASSUME NEW m \in replayed', Deletes(m, p) PROVE u.edge[p] = NoEdge
    <3>1. Deleted(p)
      BY <2>3 DEF Deleted, Deletes
    <3>2. ~Links(n, p)
      BY <1>2, <1>3, <1>16, <3>1 DEF BranchInv, EdgesAreLinks
    <3>3. CASE m = n
      BY <1>8, <2>2, <2>3, <3>3 DEF EdgeAfter, Cuts
    <3>4. CASE m \in replayed
      <4>1. v.edge[p] = NoEdge
        BY <2>1, <2>3, <3>4 DEF EdgeIsThen, v
      <4> QED
        BY <1>8, <2>2, <3>2, <4>1 DEF EdgeAfter
    <3> QED
      BY <1>1, <2>3, <3>3, <3>4
  <2>4. ASSUME ~Deleted(p)
        PROVE  u.edge[p] = IF \E m \in replayed' : Links(m, p) THEN Here.edge[p] ELSE h[0].edge[p]
    <3>1. ~Cuts(v, e, p)
      <4>1. ~(e.type = "ChildUnlinked" /\ e.arg = p)
        BY <1>3, <1>16 DEF Moved, e
      <4>2. ~(e.type = "PersonDeleted" /\ e.stream = p)
        BY <1>3, <2>2, <2>4 DEF Deleted
      <4>3. ASSUME e.type = "FamilyDeleted" PROVE <<e.stream, p>> \notin v.kids
        <5>1. s \in Families /\ \A q \in Persons : <<s, q>> \notin t.kids
          BY <1>4, <1>11, <4>3 DEF Formed, Allowed
        <5>2. FamilyIsThen(h, s, j)
          BY <1>2, <1>10, <5>1 DEF MainInv
        <5>3. \A q \in Persons : <<s, q>> \in t.kids <=> <<s, q>> \in h[j].kids
          BY <1>2, <1>3, <1>11, <5>1, FamilyStill DEF t
        <5> QED
          BY <1>11, <5>1, <5>2, <5>3 DEF FamilyIsThen, v
      <4> QED
        BY <4>1, <4>2, <4>3 DEF Cuts
    <3>2. v.edge[p] = IF \E m \in replayed : Links(m, p) THEN Here.edge[p] ELSE h[0].edge[p]
      BY <2>1, <2>4 DEF EdgeIsThen, v
    <3>3. CASE Links(n, p)
      <4>1. /\ e.type = "ChildLinked" /\ e.arg = p
            /\ s \in Families /\ s \in FamiliesOf(t)
        BY <1>4, <1>11, <2>2, <3>3 DEF Formed, Allowed
      <4>2. FamilyIsThen(h, s, j)
        BY <1>2, <1>10, <4>1 DEF MainInv
      <4>3. t.couple[s] = h[j].couple[s]
        BY <1>2, <1>3, <1>11, <4>1, FamilyStill DEF t
      <4>4. v.couple[s] = t.couple[s] /\ s \in FamiliesOf(v)
        BY <4>1, <4>2, <4>3 DEF FamilyIsThen, FamiliesOf, v
      <4>5. \A q \in Partners(t, s) : q \in t.people /\ q \in v.people
        BY <1>1, <1>2, <1>3, <1>16, <2>4, <3>3, <1>0, PartnersCame DEF t, v
      <4>6. EdgeTo(v, s) = EdgeTo(t, s)
        BY <1>4, <1>5, <4>1, <4>4, <4>5, SameEdge DEF IdsApart
      <4>7. Here.edge[p] = EdgeTo(t, s)
        BY <1>0, <1>2, <1>3, <1>16, <2>4, <3>3 DEF BranchInv, EdgesAreLinks, t
      <4>8. u.edge[p] = EdgeTo(v, s)
        BY <1>8, <1>11, <3>1, <4>1, <4>4 DEF EdgeAfter
      <4> QED
        BY <1>1, <3>3, <4>6, <4>7, <4>8
    <3>4. CASE ~Links(n, p)
      <4>1. u.edge[p] = v.edge[p]
        BY <1>8, <2>2, <3>1, <3>4 DEF EdgeAfter
      <4>2. (\E m \in replayed' : Links(m, p)) <=> \E m \in replayed : Links(m, p)
        BY <1>1, <3>4
      <4> QED
        BY <3>2, <4>1, <4>2
    <3> QED
      BY <3>3, <3>4
  <2> QED
    BY <1>7, <1>13, <2>2, <2>3, <2>4 DEF EdgeIsThen
<1>17. MainInv(h)'
  <2>1. replayed' \subseteq Genealogy'
    BY <1>1, <1>2 DEF MainInv, Genealogy
  <2>2. \A m \in replayed' : \A i \in Genealogy' : Before(i, m)' => i \in replayed'
    <3>1. Genealogy' = Genealogy /\ \A i, m : Before(i, m)' <=> Before(i, m)
      BY <1>1 DEF Genealogy, Before, TouchedBefore
    <3>2. \A i \in Genealogy : Before(i, n) => i \in replayed
      BY <1>1
    <3> QED
      BY <1>1, <1>2, <3>1, <3>2 DEF MainInv
  <2>3. \A p : Moved(p)' <=> Moved(p)
    BY <1>1 DEF Moved
  <2> QED
    BY <1>1, <1>14, <1>15, <1>16, <2>1, <2>2, <2>3 DEF MainInv
<1>18. TypeInv' /\ Past(h)'
  <2>1. tree'["branch"] = tree["branch"]
    BY <1>7 DEF Here
  <2> QED
    BY <1>1, <1>2, <1>7, <2>1 DEF TypeInv, Past
<1>19. BranchInv(h)'
  BY <1>1, <1>2, <1>7 DEF BranchInv, PeopleAreKnown, PartnersFirst, DeletedStayAway, EdgesAreLinks,
                          Created, Deleted, Deletes, Links, Moved
<1>20. Inv(h)'
  BY <1>1, <1>17, <1>18, <1>19 DEF Inv
<1> QED
  BY <1>20 DEF IInv

-----------------------------------------------------------------------------
(* What the merge ends in.                                                 *)

(***************************************************************************)
(* A branch begins as main is.                                             *)
(***************************************************************************)
LEMMA BeginsWhole ==
  ASSUME IdsApart, TreesWhole, Init
  PROVE  IInv
<1>1. PICK t \in Trees : tree = [line \in {"main", "branch"} |-> t]
  BY DEF Init
<1> DEFINE e == [type |-> "BranchCreated", stream |-> Branch, arg |-> Nobody]
           h == [i \in 0..1 |-> t]
<1>2. t \in Rows /\ Whole(t) /\ tree["main"] = t /\ tree["branch"] = t
  BY <1>1 DEF TreesWhole
<1>3. log = <<e>> /\ merged = FALSE /\ replayed = {}
  BY DEF Init
<1>4. Len(log) = 1 /\ log[1] = e /\ DOMAIN log = {1}
  BY <1>3
<1>5. h[0] = t /\ h[1] = t
  OBVIOUS
<1>6. e.type = "BranchCreated" /\ e.stream = Branch
  OBVIOUS
<1>7. e \in Events
  BY DEF Events, Types, Args
<1> HIDE DEF e, h
<1>8. Project(t, e) = t /\ Allowed(t, e)
  BY <1>6 DEF Project, Allowed, Formed
<1>9. TypeInv
  <2>1. tree \in [{"main", "branch"} -> Rows]
    BY <1>1, <1>2
  <2>2. log \in Seq(Events)
    BY <1>3, <1>7
  <2> QED
    BY <1>3, <2>1, <2>2 DEF TypeInv
<1>10. Past(h)
  BY <1>2, <1>4, <1>5, <1>8 DEF Past
<1>11. BranchInv(h)
  <2>1. \A n, p : ~Deletes(n, p) /\ ~Links(n, p)
    BY <1>4, <1>6 DEF Deletes, Links
  <2>2. \A f \in Families : \A q \in Partners(t, f) : q \in t.people
    BY <1>2 DEF Whole
  <2> QED
    BY <1>2, <1>5, <2>1, <2>2 DEF BranchInv, Here, PeopleAreKnown, PartnersFirst, DeletedStayAway,
                                 EdgesAreLinks, Deleted
<1> QED
  BY <1>2, <1>3, <1>5, <1>9, <1>10, <1>11 DEF IInv, Inv, Main

(***************************************************************************)
(* When all of the branch's events have come to main, main is as the       *)
(* branch.                                                                 *)
(***************************************************************************)
LEMMA PromotedIsWhole ==
  ASSUME IdsApart, NEW h, Inv(h)
  PROVE  TreeIsPromoted
<1> SUFFICES ASSUME merged, replayed = Genealogy
             PROVE  /\ Main.people = Here.people /\ Main.couple = Here.couple
                    /\ Main.kids = Here.kids /\ Main.count = Here.count
                    /\ \A p \in Persons : ~Moved(p) => Main.edge[p] = Here.edge[p]
  BY DEF TreeIsPromoted, Promoted, Main, Here
<1>1. TypeInv /\ Past(h) /\ BranchInv(h) /\ MainInv(h)
  BY DEF Inv
<1>2. Main \in Rows /\ Here \in Rows /\ h[Len(log)] = Here /\ Len(log) \in Nat /\ DOMAIN log = 1..Len(log)
  BY <1>1 DEF TypeInv, Past, Main, Here
<1>3. ASSUME NEW s \in Persons \union Families, NEW k \in 0..Len(log), Latest(s, k)
      PROVE  \A i \in k + 1..Len(log) : log[i].stream # s
  <2> SUFFICES ASSUME NEW i \in k + 1..Len(log), log[i].stream = s PROVE FALSE
    OBVIOUS
  <2>1. i \in 1..Len(log) /\ ~(i <= k)
    BY <1>2
  <2>2. i \in replayed
    BY <1>1, <2>1, GenealogyIs
  <2> QED
    BY <1>3, <2>1, <2>2 DEF Latest
<1>4. ASSUME NEW f \in Families
      PROVE  /\ Main.couple[f] = Here.couple[f] /\ Main.count[f] = Here.count[f]
             /\ \A p \in Persons : <<f, p>> \in Main.kids <=> <<f, p>> \in Here.kids
  <2>1. PICK k \in 0..Len(log) : Latest(f, k)
    BY <1>1, LatestExists DEF MainInv
  <2>2. FamilyIsThen(h, f, k)
    BY <1>1, <2>1 DEF MainInv
  <2>3. Len(log) \in 0..Len(log) /\ k <= Len(log)
    BY <1>2
  <2>4. /\ Here.couple[f] = h[k].couple[f] /\ Here.count[f] = h[k].count[f]
        /\ \A p \in Persons : <<f, p>> \in Here.kids <=> <<f, p>> \in h[k].kids
    BY <1>1, <1>2, <1>3, <2>1, <2>3, FamilyStill
  <2>5. \A p \in Persons : <<f, p>> \in Here.kids => ~Deleted(p)
    BY <1>1 DEF BranchInv, DeletedStayAway
  <2> QED
    BY <2>2, <2>4, <2>5 DEF FamilyIsThen
<1>5. ASSUME NEW p \in Persons
      PROVE  p \in Main.people <=> p \in Here.people
  <2>1. PICK k \in 0..Len(log) : Latest(p, k)
    BY <1>1, LatestExists DEF MainInv
  <2>2. PersonIsThen(h, p, k)
    BY <1>1, <2>1 DEF MainInv
  <2>3. Len(log) \in 0..Len(log) /\ k <= Len(log)
    BY <1>2
  <2>4. p \in Here.people <=> p \in h[k].people
    BY <1>1, <1>2, <1>3, <2>1, <2>3, PersonStill
  <2> QED
    BY <2>2, <2>4 DEF PersonIsThen
<1>6. ASSUME NEW p \in Persons, ~Moved(p)
      PROVE  Main.edge[p] = Here.edge[p]
  <2>1. EdgeIsThen(h, p)
    BY <1>1, <1>6 DEF MainInv
  <2>2. \A n : Deletes(n, p) \/ Links(n, p) => n \in replayed
    BY DEF Deletes, Links, Genealogy
  <2>3. CASE Deleted(p)
    <3>1. Here.edge[p] = NoEdge
      BY <1>1, <1>6, <2>3 DEF BranchInv, EdgesAreLinks
    <3>2. \E n \in replayed : Deletes(n, p)
      BY <2>2, <2>3 DEF Deleted
    <3> QED
      BY <2>1, <3>1, <3>2 DEF EdgeIsThen
  <2>4. CASE ~Deleted(p)
    <3>1. CASE \E n \in replayed : Links(n, p)
      BY <2>1, <2>4, <3>1 DEF EdgeIsThen
    <3>2. CASE \A n \in replayed : ~Links(n, p)
      <4>1. Main.edge[p] = h[0].edge[p]
        BY <2>1, <2>4, <3>2 DEF EdgeIsThen
      <4>2. \A n \in DOMAIN log : ~Links(n, p)
        BY <2>2, <3>2
      <4>3. Here.edge[p] = h[0].edge[p]
        BY <1>1, <1>6, <2>4, <4>2 DEF BranchInv, EdgesAreLinks
      <4> QED
        BY <4>1, <4>3
    <3> QED
      BY <3>1, <3>2
  <2> QED
    BY <2>3, <2>4
<1>7. Main.couple = Here.couple /\ Main.count = Here.count
  BY <1>2, <1>4 DEF Rows
<1>8. Main.people = Here.people
  BY <1>2, <1>5 DEF Rows
<1>9. Main.kids = Here.kids
  <2>1. Main.kids \subseteq Families \X Persons /\ Here.kids \subseteq Families \X Persons
    BY <1>2 DEF Rows
  <2>2. \A f \in Families, p \in Persons : <<f, p>> \in Main.kids <=> <<f, p>> \in Here.kids
    BY <1>4
  <2> QED
    BY <2>1, <2>2
<1> QED
  BY <1>6, <1>7, <1>8, <1>9

(***************************************************************************)
(* The invariant holds of every branch: main is, stream by stream, what    *)
(* the branch was after the last of the stream's events that came to main. *)
(***************************************************************************)
THEOREM PromotionInvariant == Spec => []IInv
<1>1. Init => IInv
  BY IdsAreApart, TreesAreWhole, BeginsWhole
<1>2. IInv /\ [Next]_vars => IInv'
  <2> SUFFICES ASSUME IInv, [Next]_vars PROVE IInv'
    OBVIOUS
  <2>1. PICK h : Inv(h)
    BY DEF IInv
  <2>2. CASE \/ CreatePerson \/ UpdatePerson \/ DeletePerson
             \/ CreateFamily \/ UpdateFamily \/ DeleteFamily
             \/ LinkChild \/ UnlinkChild
    BY <2>1, <2>2, IdsAreApart, TreesAreWhole, CommandsKeep
  <2>3. CASE ClaimMerge
    BY <2>1, <2>3, ClaimKeeps
  <2>4. CASE ReplayEvent
    BY <2>1, <2>4, IdsAreApart, ReplayKeeps
  <2>5. CASE UNCHANGED vars
    <3>1. Inv(h)'
      BY <2>1, <2>5
         DEF vars, Inv, TypeInv, Past, BranchInv, PeopleAreKnown, PartnersFirst, DeletedStayAway,
             EdgesAreLinks, Created, Deleted, Deletes, Links, Moved, Main, Here, MainInv, Genealogy,
             Before, TouchedBefore, Latest, FamilyIsThen, PersonIsThen, EdgeIsThen
    <3> QED
      BY <3>1 DEF IInv
  <2> QED
    BY <2>2, <2>3, <2>4, <2>5 DEF Next
<1> QED
  BY <1>1, <1>2, PTL DEF Spec

(***************************************************************************)
(* After the merge main has the branch's persons, families, child rows and *)
(* numbers of children, and its pedigree edges for whoever the branch has  *)
(* not taken out of a family.                                              *)
(***************************************************************************)
THEOREM TreeIsPromotedHolds == Spec => []TreeIsPromoted
<1>1. IInv => TreeIsPromoted
  BY IdsAreApart, PromotedIsWhole DEF IInv
<1> QED
  BY <1>1, PromotionInvariant, PTL
=============================================================================
