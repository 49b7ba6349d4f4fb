-------------------------- MODULE ReadModels_proofs --------------------------
(***************************************************************************)
(* Proofs about the read-model stores, for every number of branches,       *)
(* persons, names, families and calls: each is a copy-on-write overlay     *)
(* (IInv), and they agree (AgreeInv).                                      *)
(***************************************************************************)
EXTENDS ReadModels, TLAPS

-----------------------------------------------------------------------------
(* Layers and tables.                                                      *)

IsLayer(g) == g = [k \in DOMAIN g |-> g[k]]
IsTable(t) == t = [l \in Lines |-> t[l]] /\ \A l \in Lines : IsLayer(t[l])

\* The table w is t with its layer l rewritten.
Touches(t, w, l) == IsTable(w) /\ \A k \in Lines \ {l} : w[k] = t[k]

\* A branch has not lost a key.
Keeps(t, w, l) == l # Main => DOMAIN t[l] \subseteq DOMAIN w[l]

(***************************************************************************)
(* Writing rows into a line.                                               *)
(***************************************************************************)
LEMMA PutTouches ==
  ASSUME NEW t, IsTable(t), NEW l \in Lines, NEW f
  PROVE  /\ Touches(t, Put(t, l, f), l)
         /\ Keeps(t, Put(t, l, f), l)
         /\ Put(t, l, f)[l] = Over(f, t[l])
         /\ DOMAIN Put(t, l, f)[l] = DOMAIN f \union DOMAIN t[l]
<1>1. PICK g : g = Over(f, t[l])
  OBVIOUS
<1>2. IsLayer(g) /\ DOMAIN g = DOMAIN f \union DOMAIN t[l]
  BY <1>1 DEF Over, IsLayer
<1>3. PICK w : w = [t EXCEPT ![l] = g]
  OBVIOUS
<1>4. w[l] = g /\ w = [k \in Lines |-> w[k]] /\ \A k \in Lines \ {l} : w[k] = t[k]
  BY <1>3 DEF IsTable
<1>5. IsTable(w)
  BY <1>2, <1>4 DEF IsTable
<1>6. Put(t, l, f) = w
  BY <1>1, <1>3 DEF Put
<1> QED
  BY <1>1, <1>2, <1>4, <1>5, <1>6 DEF Touches, Keeps

(***************************************************************************)
(* Removing rows from a line.                                              *)
(***************************************************************************)
LEMMA DropTouches ==
  ASSUME NEW t, IsTable(t), NEW l \in Lines, NEW S
  PROVE  /\ Touches(t, Drop(t, l, S), l)
         /\ DOMAIN Drop(t, l, S)[l] = DOMAIN t[l] \ S
<1>1. PICK g : g = Restrict(t[l], DOMAIN t[l] \ S)
  OBVIOUS
<1>2. IsLayer(g) /\ DOMAIN g = DOMAIN t[l] \ S
  BY <1>1 DEF Restrict, IsLayer
<1>3. PICK w : w = [t EXCEPT ![l] = g]
  OBVIOUS
<1>4. w[l] = g /\ w = [k \in Lines |-> w[k]] /\ \A k \in Lines \ {l} : w[k] = t[k]
  BY <1>3 DEF IsTable
<1>5. IsTable(w)
  BY <1>2, <1>4 DEF IsTable
<1>6. Drop(t, l, S) = w
  BY <1>1, <1>3 DEF Drop
<1> QED
  BY <1>1, <1>2, <1>4, <1>5, <1>6 DEF Touches

-----------------------------------------------------------------------------
(* What an overlay is.                                                     *)

\* What a line shows of a unit that no layer has a row for.
Blank(u) == IF u[1] = "ids" THEN Nothing ELSE Gone

(***************************************************************************)
(* A view laid out from layers: has[l] is what the line l has of its own,  *)
(* holds[l] what it says of that.                                          *)
(***************************************************************************)
Laid(has, holds) ==
  [l \in Lines |-> [u \in Units |-> IF u \in has[l] THEN holds[l][u]
                                    ELSE IF u \in has[Main] THEN holds[Main][u] ELSE Blank(u)]]

OwnOf(has) == [b \in Branches |-> has[b]]

\* BranchView's steps, from the view v and the own units o to w and p.
MainWrite(v, o, w, p) ==
  p = o /\ \A b \in Branches, u \in Units : w[b][u] = IF u \in o[b] THEN v[b][u] ELSE w[Main][u]

Apart(v, o, w, p, b) ==
  /\ \A l \in Lines \ {b} : w[l] = v[l]
  /\ \A c \in Branches \ {b} : p[c] = o[c]

BranchWrite(v, o, w, p, b) ==
  /\ o[b] \subseteq p[b]
  /\ \A u \in Units : w[b][u] # v[b][u] => u \in p[b]
  /\ Apart(v, o, w, p, b)

Purged(v, o, w, p, b) == p[b] = {} /\ w[b] = v[Main] /\ Apart(v, o, w, p, b)

(***************************************************************************)
(* A write that leaves the branches' layers alone is a write on main; one  *)
(* that touches the layer of a branch, and takes nothing from what the     *)
(* branch has of its own, is a write on that branch; one that leaves the   *)
(* branch nothing is a purge.                                              *)
(***************************************************************************)
LEMMA OverlaySteps ==
  ASSUME NEW has, NEW holds, NEW has2, NEW holds2
  PROVE  /\ (\A b \in Branches : has2[b] = has[b] /\ holds2[b] = holds[b])
              => MainWrite(Laid(has, holds), OwnOf(has), Laid(has2, holds2), OwnOf(has2))
         /\ \A b \in Branches :
              (\A l \in Lines \ {b} : has2[l] = has[l] /\ holds2[l] = holds[l]) =>
                /\ has[b] \subseteq has2[b]
                     => BranchWrite(Laid(has, holds), OwnOf(has), Laid(has2, holds2), OwnOf(has2), b)
                /\ has2[b] = {}
                     => Purged(Laid(has, holds), OwnOf(has), Laid(has2, holds2), OwnOf(has2), b)
<1> DEFINE v == Laid(has, holds)
           w == Laid(has2, holds2)
<1>1. \A b \in Branches : b \in Lines /\ Main \in Lines \ {b}
  BY MainIsApart DEF Lines
<1>2. \A l \in Lines : /\ v[l] = [u \in Units |-> v[l][u]]
                        /\ \A u \in Units : v[l][u] = IF u \in has[l] THEN holds[l][u]
                             ELSE IF u \in has[Main] THEN holds[Main][u] ELSE Blank(u)
  BY DEF Laid
<1>3. \A l \in Lines : /\ w[l] = [u \in Units |-> w[l][u]]
                        /\ \A u \in Units : w[l][u] = IF u \in has2[l] THEN holds2[l][u]
                             ELSE IF u \in has2[Main] THEN holds2[Main][u] ELSE Blank(u)
  BY DEF Laid
<1>4. \A u \in Units : v[Main][u] = IF u \in has[Main] THEN holds[Main][u] ELSE Blank(u)
  BY <1>2 DEF Lines
<1>5. \A u \in Units : w[Main][u] = IF u \in has2[Main] THEN holds2[Main][u] ELSE Blank(u)
  BY <1>3 DEF Lines
<1> HIDE DEF v, w
<1>6. ASSUME \A b \in Branches : has2[b] = has[b] /\ holds2[b] = holds[b]
      PROVE  MainWrite(v, OwnOf(has), w, OwnOf(has2))
  <2>1. OwnOf(has2) = OwnOf(has)
    BY <1>6 DEF OwnOf
  <2>2. ASSUME NEW b \in Branches, NEW u \in Units
        PROVE  w[b][u] = IF u \in OwnOf(has)[b] THEN v[b][u] ELSE w[Main][u]
    <3>1. OwnOf(has)[b] = has[b] /\ b \in Lines
      BY <1>1 DEF OwnOf
    <3>2. has2[b] = has[b] /\ holds2[b] = holds[b]
      BY <1>6
    <3>3. v[b][u] = IF u \in has[b] THEN holds[b][u]
                    ELSE IF u \in has[Main] THEN holds[Main][u] ELSE Blank(u)
      BY <1>2, <3>1
    <3>4. w[b][u] = IF u \in has2[b] THEN holds2[b][u]
                    ELSE IF u \in has2[Main] THEN holds2[Main][u] ELSE Blank(u)
      BY <1>3, <3>1
    <3>5. w[Main][u] = IF u \in has2[Main] THEN holds2[Main][u] ELSE Blank(u)
      BY <1>5
    <3> QED
      BY <3>1, <3>2, <3>3, <3>4, <3>5
  <2> QED
    BY <2>1, <2>2 DEF MainWrite
<1>7. ASSUME NEW b \in Branches, \A l \in Lines \ {b} : has2[l] = has[l] /\ holds2[l] = holds[l]
      PROVE  /\ has[b] \subseteq has2[b] => BranchWrite(v, OwnOf(has), w, OwnOf(has2), b)
             /\ has2[b] = {} => Purged(v, OwnOf(has), w, OwnOf(has2), b)
  <2>1. Apart(v, OwnOf(has), w, OwnOf(has2), b)
    <3>1. \A l \in Lines \ {b} : w[l] = v[l]
      <4>1. has2[Main] = has[Main] /\ holds2[Main] = holds[Main]
        BY <1>1, <1>7
      <4>2. ASSUME NEW l \in Lines \ {b} PROVE w[l] = v[l]
        <5>1. ASSUME NEW u \in Units PROVE w[l][u] = v[l][u]
          <6>1. has2[l] = has[l] /\ holds2[l] = holds[l]
            BY <1>7
          <6>2. v[l][u] = IF u \in has[l] THEN holds[l][u]
                          ELSE IF u \in has[Main] THEN holds[Main][u] ELSE Blank(u)
            BY <1>2
          <6>3. w[l][u] = IF u \in has2[l] THEN holds2[l][u]
                          ELSE IF u \in has2[Main] THEN holds2[Main][u] ELSE Blank(u)
            BY <1>3
          <6> QED
            BY <4>1, <6>1, <6>2, <6>3
        <5> QED
          BY <1>2, <1>3, <5>1
      <4> QED
        BY <4>2
    <3>2. \A c \in Branches \ {b} : OwnOf(has2)[c] = OwnOf(has)[c]
      BY <1>1, <1>7 DEF OwnOf
    <3> QED
      BY <3>1, <3>2 DEF Apart
  <2>2. OwnOf(has)[b] = has[b] /\ OwnOf(has2)[b] = has2[b] /\ b \in Lines
    BY <1>1 DEF OwnOf
  <2>3. \A u \in Units : u \notin has2[b] => w[b][u] = v[Main][u]
    <3>1. w[Main] = v[Main]
      BY <1>1, <2>1 DEF Apart
    <3> QED
      BY <1>3, <1>5, <2>2, <3>1
  <2>4. ASSUME has[b] \subseteq has2[b] PROVE BranchWrite(v, OwnOf(has), w, OwnOf(has2), b)
    <3>1. ASSUME NEW u \in Units, u \notin has2[b] PROVE w[b][u] = v[b][u]
      <4>1. u \notin has[b]
        BY <2>4, <3>1
      <4>2. v[b][u] = v[Main][u]
        BY <1>2, <1>4, <2>2, <4>1
      <4> QED
        BY <2>3, <3>1, <4>2
    <3> QED
      BY <2>1, <2>2, <2>4, <3>1 DEF BranchWrite
  <2>5. ASSUME has2[b] = {} PROVE Purged(v, OwnOf(has), w, OwnOf(has2), b)
    <3>1. \A u \in Units : w[b][u] = v[Main][u]
      BY <2>3, <2>5
    <3>2. Main \in Lines
      BY DEF Lines
    <3>3. w[b] = [u \in Units |-> w[b][u]] /\ v[Main] = [u \in Units |-> v[Main][u]]
      BY <1>2, <1>3, <2>2, <3>2
    <3>4. w[b] = v[Main]
      BY <3>1, <3>3
    <3> QED
      BY <2>1, <2>2, <2>5, <3>4 DEF Purged
  <2> QED
    BY <2>4, <2>5
<1> QED
  BY <1>6, <1>7 DEF v, w

-----------------------------------------------------------------------------
(* Stores.                                                                 *)

\* A store is its six tables.
IsStore(m) ==
  /\ m = [persons |-> m.persons, names |-> m.names, exids |-> m.exids,
          families |-> m.families, kids |-> m.kids, edges |-> m.edges]
  /\ IsTable(m.persons) /\ IsTable(m.names) /\ IsTable(m.exids)
  /\ IsTable(m.families) /\ IsTable(m.kids) /\ IsTable(m.edges)

\* The store n is m with rows of line l rewritten.
Wrote(m, n, l) ==
  /\ IsStore(n)
  /\ Touches(m.persons, n.persons, l) /\ Touches(m.names, n.names, l)
  /\ Touches(m.exids, n.exids, l) /\ Touches(m.families, n.families, l)
  /\ Touches(m.kids, n.kids, l) /\ Touches(m.edges, n.edges, l)

\* What a line has of its own of each unit, and what it says of it: in memory,
MOwns(m, l, u) ==
  CASE u[1] = "person" -> u[2] \in DOMAIN m.persons[l]
    [] u[1] = "edge"   -> u[2] \in DOMAIN m.edges[l]
    [] u[1] = "family" -> u[2] \in DOMAIN m.families[l]
    [] u[1] = "ids"    -> u[2] \in DOMAIN m.exids[l]
    [] u[1] = "name"   -> u[2] \in DOMAIN m.names[l]
    [] u[1] = "child"  -> u[2] \in DOMAIN m.kids[l]

MSays(m, l, u) ==
  CASE u[1] = "person" -> m.persons[l][u[2]]
    [] u[1] = "edge"   -> m.edges[l][u[2]]
    [] u[1] = "family" -> m.families[l][u[2]]
    [] u[1] = "ids"    -> m.exids[l][u[2]]
    [] u[1] = "name"   -> RowOf(m.names[l][u[2]], u[3])
    [] u[1] = "child"  -> RowOf(m.kids[l][u[2]], u[3])

\* and in the SQL stores.
SOwns(m, l, u) ==
  CASE u[1] = "person" -> u[2] \in DOMAIN m.persons[l]
    [] u[1] = "edge"   -> u[2] \in DOMAIN m.edges[l]
    [] u[1] = "family" -> u[2] \in DOMAIN m.families[l]
    [] u[1] = "ids"    -> u[2] \in DOMAIN m.exids[l]
    [] u[1] = "name"   -> \/ DeletedOn(m.persons, l, u[2])
                          \/ u[3] \in DOMAIN m.names[l] /\ m.names[l][u[3]].owner = u[2]
    [] u[1] = "child"  -> \/ DeletedOn(m.families, l, u[2])
                          \/ <<u[2], u[3]>> \in DOMAIN m.kids[l]

SSays(m, l, u) ==
  CASE u[1] = "person" -> m.persons[l][u[2]]
    [] u[1] = "edge"   -> m.edges[l][u[2]]
    [] u[1] = "family" -> m.families[l][u[2]]
    [] u[1] = "ids"    -> m.exids[l][u[2]]
    [] u[1] = "name"   -> IF DeletedOn(m.persons, l, u[2]) THEN Gone ELSE m.names[l][u[3]].value
    [] u[1] = "child"  -> IF DeletedOn(m.families, l, u[2]) THEN Gone ELSE m.kids[l][<<u[2], u[3]>>]

MHas(m)   == [l \in Lines |-> {u \in Units : MOwns(m, l, u)}]
MHolds(m) == [l \in Lines |-> [u \in Units |-> MSays(m, l, u)]]
SHas(m)   == [l \in Lines |-> {u \in Units : SOwns(m, l, u)}]
SHolds(m) == [l \in Lines |-> [u \in Units |-> SSays(m, l, u)]]

-----------------------------------------------------------------------------
(* The inductive invariant.                                                *)

\* The mainline keeps no tombstone of a key in S.
Living(t, S) == \A k \in S : ~DeletedOn(t, Main, k)

MainLives(m) == Living(m.persons, Persons) /\ Living(m.families, Families)

\* The tables that are alike in all three stores.
Twins(m, n) == m.persons = n.persons /\ m.families = n.families

\* Every id with a row has been created somewhere.
KnownRows(t, S, were) == \A l \in Lines : \A k \in S : k \in DOMAIN t[l] => were[k] # {}
KnownNames(s, were) == \A l \in Lines : \A k \in DOMAIN s[l] : k \in Names /\ were[k] # {}

\* The SQL stores have the same names on main, none of them a tombstone.
MainNames(s, t) == s[Main] = t[Main] /\ \A k \in DOMAIN s[Main] : s[Main][k].value # Gone

\* Apart from names of persons that b has deleted in d, s has b's rows of t, with their owners.
Owned(t, s, d, b) ==
  \A k \in DOMAIN t[b] : \/ DeletedOn(d, b, t[b][k].owner)
                         \/ k \in DOMAIN s[b] /\ s[b][k].owner = t[b][k].owner

(***************************************************************************)
(* On a branch the two SQL stores delete a person's names differently:     *)
(* SQLite's own rows go, PostgreSQL's are marked.  Apart from names of a   *)
(* person the branch has deleted, PostgreSQL has no row whose owner        *)
(* SQLite does not agree with.                                             *)
(***************************************************************************)
Follows(s, t, d, b) == DOMAIN s[b] \subseteq DOMAIN t[b] /\ Owned(t, s, d, b)

RowsInv ==
  /\ Twins(mem, lite) /\ Twins(mem, pg) /\ MainLives(mem)
  /\ KnownRows(mem.persons, Persons, made) /\ KnownRows(mem.families, Families, made)

NamesInv ==
  /\ KnownNames(lite.names, made) /\ KnownNames(pg.names, made)
  /\ MainNames(lite.names, pg.names)
  /\ \A b \in Branches : Follows(lite.names, pg.names, pg.persons, b)

IInv == IsStore(mem) /\ IsStore(lite) /\ IsStore(pg) /\ RowsInv /\ NamesInv

-----------------------------------------------------------------------------
(* What the stores show is laid out from layers.                           *)

(***************************************************************************)
(* The mainline is a line, and apart from the branches.                    *)
(***************************************************************************)
LEMMA MainLine == Main \in Lines /\ \A b \in Branches : b \in Lines /\ b # Main
BY MainIsApart DEF Lines

(***************************************************************************)
(* What a unit is.                                                         *)
(***************************************************************************)
LEMMA UnitKinds ==
  ASSUME NEW u \in Units
  PROVE  \/ u[1] \in {"person", "edge", "ids"}
         \/ u[1] = "family" /\ u[2] \in Families
         \/ u[1] = "name" /\ u[2] \in Persons /\ u[3] \in Names
         \/ u[1] = "child" /\ u[2] \in Families /\ u[3] \in Persons
BY DEF Units

(***************************************************************************)
(* The in-memory store shows a line's own rows and buckets, or main's.     *)
(***************************************************************************)
LEMMA MemoryLaid ==
  [l \in Lines |-> [u \in Units |-> Memory!Shows(l, u)]] = Laid(MHas(mem), MHolds(mem))
<1>1. ASSUME NEW l \in Lines, NEW u \in Units
      PROVE  Memory!Shows(l, u) = IF MOwns(mem, l, u) THEN MSays(mem, l, u)
                                  ELSE IF MOwns(mem, Main, u) THEN MSays(mem, Main, u) ELSE Blank(u)
  <2>1. \A k : RowOf(Nothing, k) = Gone
    BY DEF RowOf, Nothing
  <2>2. \A f, k : Memory!RowOf(f, k) = RowOf(f, k)
    BY DEF Memory!RowOf, RowOf
  <2>3. CASE u[1] \in {"person", "edge", "family"}
    BY <2>3 DEF Memory!Shows, MOwns, MSays, Blank, Memory!GetPerson, Memory!GetFamily,
       Memory!GetPedigreeEdge, Memory!ResolveRow, Memory!Winner
  <2>4. CASE u[1] = "ids"
    BY <2>4 DEF Memory!Shows, MOwns, MSays, Blank, Memory!GetExternalIDs, Memory!ResolveBucket,
       Memory!Nothing, Nothing
  <2>5. CASE u[1] \in {"name", "child"}
    BY <2>1, <2>2, <2>5 DEF Memory!Shows, MOwns, MSays, Blank, Memory!GetPersonNames,
       Memory!GetFamilyChildren, Memory!ResolveBucket, Memory!Nothing, Nothing
  <2> QED
    BY <2>3, <2>4, <2>5, UnitKinds
<1>2. Main \in Lines
  BY DEF Lines
<1>3. ASSUME NEW l \in Lines, NEW u \in Units
      PROVE  /\ u \in MHas(mem)[l] <=> MOwns(mem, l, u)
             /\ MHolds(mem)[l][u] = MSays(mem, l, u)
  BY DEF MHas, MHolds
<1> QED
  BY <1>1, <1>2, <1>3 DEF Laid

(***************************************************************************)
(* So does SQLite, row by row: a name of a person, and a child of a        *)
(* family, that the line has deleted counts as the line's own.             *)
(***************************************************************************)
LEMMA SqliteLaid ==
  IsStore(lite) /\ MainLives(lite) =>
    [l \in Lines |-> [u \in Units |-> Sqlite!Shows(l, u)]] = Laid(SHas(lite), SHolds(lite))
<1> SUFFICES ASSUME IsStore(lite), MainLives(lite)
             PROVE  [l \in Lines |-> [u \in Units |-> Sqlite!Shows(l, u)]] = Laid(SHas(lite), SHolds(lite))
  OBVIOUS
<1>1. ASSUME NEW l \in Lines, NEW u \in Units
      PROVE  Sqlite!Shows(l, u) = IF SOwns(lite, l, u) THEN SSays(lite, l, u)
                                  ELSE IF SOwns(lite, Main, u) THEN SSays(lite, Main, u) ELSE Blank(u)
  <2>1. \A f, k : Sqlite!RowOf(f, k) = IF k \in DOMAIN f THEN f[k] ELSE Gone
    BY DEF Sqlite!RowOf
  <2>2. \A t, k, j : Sqlite!DeletedOn(t, k, j) = DeletedOn(t, k, j)
    BY DEF Sqlite!DeletedOn, DeletedOn
  <2>3. CASE u[1] \in {"person", "edge", "family"}
    BY <2>3 DEF Sqlite!Shows, SOwns, SSays, Blank, Sqlite!GetPerson, Sqlite!GetFamily,
       Sqlite!GetPedigreeEdge, Sqlite!Winner
  <2>4. CASE u[1] = "ids"
    BY <2>4 DEF Sqlite!Shows, SOwns, SSays, Blank, Sqlite!GetExternalIDs, Sqlite!Nothing, Nothing
  <2>5. CASE u[1] = "name"
    <3>1. u[2] \in Persons /\ u[3] \in Names
      BY <2>5, UnitKinds
    <3>2. ~DeletedOn(lite.persons, Main, u[2])
      BY <3>1 DEF MainLives, Living
    <3> DEFINE Of(k) == {n \in DOMAIN lite.names[k] : lite.names[k][n].owner = u[2]}
    <3>3. PICK rows : rows = Sqlite!OwnedBy(l, u[2])
      OBVIOUS
    <3>4. \A k \in {l, Main} : DOMAIN rows[k] = Of(k) /\ \A n \in Of(k) : rows[k][n] = lite.names[k][n]
      BY <3>3, MainLine DEF Sqlite!OwnedBy, IsStore, IsTable, Sqlite!Restrict
    <3>5. u[3] \in Sqlite!Keys(rows, l) <=> u[3] \in Of(l) \/ u[3] \in Of(Main)
      BY <3>4 DEF Sqlite!Keys
    <3>6. Sqlite!Winner(rows, l, u[3]) = IF u[3] \in Of(l) THEN lite.names[l][u[3]]
                                         ELSE IF u[3] \in Of(Main) THEN lite.names[Main][u[3]] ELSE Gone
      BY <3>4 DEF Sqlite!Winner
    <3>7. Sqlite!RowOf(Sqlite!GetPersonNames(l, u[2]), u[3]) =
            IF u[3] \in Sqlite!Keys(rows, l) /\ Sqlite!Winner(rows, l, u[3]).value # Gone
            THEN Sqlite!Winner(rows, l, u[3]).value ELSE Gone
      BY <2>1, <3>3 DEF Sqlite!GetPersonNames
    <3> QED
      BY <2>2, <2>5, <3>2, <3>5, <3>6, <3>7 DEF Sqlite!Shows, SOwns, SSays, Blank
  <2>6. CASE u[1] = "child"
    <3>1. u[2] \in Families /\ u[3] \in Persons
      BY <2>6, UnitKinds
    <3>2. ~DeletedOn(lite.families, Main, u[2])
      BY <3>1 DEF MainLives, Living
    <3> DEFINE k == <<u[2], u[3]>>
               row == Sqlite!Winner(lite.kids, l, k)
    <3>3. Sqlite!RowOf(Sqlite!GetFamilyChildren(l, u[2]), u[3]) = row
      BY <2>1, <3>1 DEF Sqlite!GetFamilyChildren
    <3> QED
      BY <2>2, <2>6, <3>2, <3>3 DEF Sqlite!Shows, SOwns, SSays, Blank, Sqlite!Winner
  <2> QED
    BY <2>3, <2>4, <2>5, <2>6, UnitKinds
<1>2. Main \in Lines
  BY DEF Lines
<1>3. ASSUME NEW l \in Lines, NEW u \in Units
      PROVE  /\ u \in SHas(lite)[l] <=> SOwns(lite, l, u)
             /\ SHolds(lite)[l][u] = SSays(lite, l, u)
  BY DEF SHas, SHolds
<1> QED
  BY <1>1, <1>2, <1>3 DEF Laid

(***************************************************************************)
(* And PostgreSQL.                                                         *)
(***************************************************************************)
LEMMA PostgresLaid ==
  IsStore(pg) /\ MainLives(pg) =>
    [l \in Lines |-> [u \in Units |-> Postgres!Shows(l, u)]] = Laid(SHas(pg), SHolds(pg))
<1> SUFFICES ASSUME IsStore(pg), MainLives(pg)
             PROVE  [l \in Lines |-> [u \in Units |-> Postgres!Shows(l, u)]] = Laid(SHas(pg), SHolds(pg))
  OBVIOUS
<1>1. ASSUME NEW l \in Lines, NEW u \in Units
      PROVE  Postgres!Shows(l, u) = IF SOwns(pg, l, u) THEN SSays(pg, l, u)
                                    ELSE IF SOwns(pg, Main, u) THEN SSays(pg, Main, u) ELSE Blank(u)
  <2>1. \A f, k : Postgres!RowOf(f, k) = IF k \in DOMAIN f THEN f[k] ELSE Gone
    BY DEF Postgres!RowOf
  <2>2. \A t, k, j : Postgres!DeletedOn(t, k, j) = DeletedOn(t, k, j)
    BY DEF Postgres!DeletedOn, DeletedOn
  <2>3. ASSUME NEW t, NEW k
        PROVE  Postgres!RowOf(Postgres!Visible(t, l), k) =
                 IF k \in DOMAIN t[l] THEN t[l][k] ELSE IF k \in DOMAIN t[Main] THEN t[Main][k] ELSE Gone
    <3>1. PICK rows : rows = Postgres!Distinct(t, l)
      OBVIOUS
    <3>2. /\ DOMAIN rows = DOMAIN t[l] \union DOMAIN t[Main]
          /\ \A j \in DOMAIN rows : rows[j] = IF j \in DOMAIN t[l] THEN t[l][j] ELSE t[Main][j]
      BY <3>1 DEF Postgres!Distinct, Postgres!Keys, Postgres!Winner
    <3>3. Postgres!RowOf(Postgres!Visible(t, l), k) = IF k \in DOMAIN rows THEN rows[k] ELSE Gone
      BY <2>1, <3>1 DEF Postgres!Visible, Postgres!Restrict
    <3> QED
      BY <3>2, <3>3
  <2>4. CASE u[1] \in {"person", "edge", "family"}
    BY <2>3, <2>4 DEF Postgres!Shows, SOwns, SSays, Blank, Postgres!GetPerson, Postgres!GetFamily,
       Postgres!GetPedigreeEdge
  <2>5. CASE u[1] = "ids"
    BY <2>5 DEF Postgres!Shows, SOwns, SSays, Blank, Postgres!GetExternalIDs, Postgres!Nothing, Nothing
  <2>6. CASE u[1] = "name"
    <3>1. u[2] \in Persons /\ u[3] \in Names
      BY <2>6, UnitKinds
    <3>2. ~DeletedOn(pg.persons, Main, u[2])
      BY <3>1 DEF MainLives, Living
    <3> DEFINE Of(k) == {n \in DOMAIN pg.names[k] : pg.names[k][n].owner = u[2]}
    <3>3. PICK rows : rows = Postgres!NamesOf(l, u[2])
      OBVIOUS
    <3>4. PICK t : t = [m \in Lines |-> Postgres!Restrict(pg.names[m], Of(m))]
      OBVIOUS
    <3>5. \A k \in {l, Main} : DOMAIN t[k] = Of(k) /\ \A n \in Of(k) : t[k][n] = pg.names[k][n]
      BY <3>4, MainLine DEF Postgres!Restrict
    <3>6. rows = Postgres!Distinct(t, l)
      BY <3>3, <3>4 DEF Postgres!NamesOf, Postgres!Lines, Lines
    <3>7. /\ u[3] \in DOMAIN rows <=> u[3] \in Of(l) \/ u[3] \in Of(Main)
          /\ u[3] \in DOMAIN rows =>
               rows[u[3]] = IF u[3] \in Of(l) THEN pg.names[l][u[3]] ELSE pg.names[Main][u[3]]
      BY <3>5, <3>6 DEF Postgres!Distinct, Postgres!Keys, Postgres!Winner
    <3>8. Postgres!RowOf(Postgres!GetPersonNames(l, u[2]), u[3]) =
            IF u[3] \in DOMAIN rows /\ rows[u[3]].value # Gone THEN rows[u[3]].value ELSE Gone
      BY <2>1, <3>3 DEF Postgres!GetPersonNames
    <3> QED
      BY <2>2, <2>6, <3>2, <3>7, <3>8 DEF Postgres!Shows, SOwns, SSays, Blank
  <2>7. CASE u[1] = "child"
    <3>1. u[2] \in Families /\ u[3] \in Persons
      BY <2>7, UnitKinds
    <3>2. ~DeletedOn(pg.families, Main, u[2])
      BY <3>1 DEF MainLives, Living
    <3> DEFINE k == <<u[2], u[3]>>
    <3>3. Postgres!RowOf(Postgres!GetFamilyChildren(l, u[2]), u[3]) =
            Postgres!RowOf(Postgres!Children(l), k)
      BY <2>1, <3>1 DEF Postgres!GetFamilyChildren
    <3> QED
      BY <2>2, <2>3, <2>7, <3>2, <3>3 DEF Postgres!Shows, SOwns, SSays, Blank, Postgres!Children
  <2> QED
    BY <2>4, <2>5, <2>6, <2>7, UnitKinds
<1>2. Main \in Lines
  BY DEF Lines
<1>3. ASSUME NEW l \in Lines, NEW u \in Units
      PROVE  /\ u \in SHas(pg)[l] <=> SOwns(pg, l, u)
             /\ SHolds(pg)[l][u] = SSays(pg, l, u)
  BY DEF SHas, SHolds
<1> QED
  BY <1>1, <1>2, <1>3 DEF Laid

-----------------------------------------------------------------------------
(* What the calls do to the tables.                                        *)

\* The table w is t with rows of line l rewritten; a branch has lost no key.
Edit(t, w, l) == Touches(t, w, l) /\ Keeps(t, w, l)

(***************************************************************************)
(* A table left alone, written to, or with rows removed on main is edited. *)
(***************************************************************************)
LEMMA Edits ==
  ASSUME NEW t, IsTable(t), NEW l \in Lines
  PROVE  /\ Edit(t, t, l)
         /\ \A f : Edit(t, Put(t, l, f), l)
         /\ \A S : Edit(t, Drop(t, Main, S), Main)
<1>1. \A f : Edit(t, Put(t, l, f), l)
  BY PutTouches DEF Edit
<1>2. \A S : Touches(t, Drop(t, Main, S), Main)
  BY DropTouches, MainLine
<1> QED
  BY <1>1, <1>2 DEF Edit, Touches, Keeps

(***************************************************************************)
(* The stores write tables alike.                                          *)
(***************************************************************************)
LEMMA SameWriting ==
  /\ \A t, l, f : Memory!Put(t, l, f) = Put(t, l, f)
  /\ \A t, l, f : Sqlite!Put(t, l, f) = Put(t, l, f)
  /\ \A t, l, f : Postgres!Put(t, l, f) = Put(t, l, f)
  /\ \A t, l, S : Memory!Drop(t, l, S) = Drop(t, l, S)
  /\ \A t, l, S : Sqlite!Drop(t, l, S) = Drop(t, l, S)
  /\ \A t, l, S : Postgres!Drop(t, l, S) = Drop(t, l, S)
  /\ \A k, v : Memory!Row(k, v) = Row(k, v) /\ Sqlite!Row(k, v) = Row(k, v) /\ Postgres!Row(k, v) = Row(k, v)
<1>1. \A f, g : /\ Memory!Over(f, g) = Over(f, g)
                /\ Sqlite!Over(f, g) = Over(f, g)
                /\ Postgres!Over(f, g) = Over(f, g)
  BY DEF Memory!Over, Sqlite!Over, Postgres!Over, Over
<1>2. \A f, S : /\ Memory!Restrict(f, S) = Restrict(f, S)
                /\ Sqlite!Restrict(f, S) = Restrict(f, S)
                /\ Postgres!Restrict(f, S) = Restrict(f, S)
  BY DEF Memory!Restrict, Sqlite!Restrict, Postgres!Restrict, Restrict
<1>3. \A k, v : Memory!Row(k, v) = Row(k, v) /\ Sqlite!Row(k, v) = Row(k, v) /\ Postgres!Row(k, v) = Row(k, v)
  BY DEF Memory!Row, Sqlite!Row, Postgres!Row, Row
<1>4. \A t, l, f : /\ Memory!Put(t, l, f) = Put(t, l, f)
                   /\ Sqlite!Put(t, l, f) = Put(t, l, f)
                   /\ Postgres!Put(t, l, f) = Put(t, l, f)
  BY <1>1 DEF Memory!Put, Sqlite!Put, Postgres!Put, Put
<1>5. \A t, l, S : /\ Memory!Drop(t, l, S) = Drop(t, l, S)
                   /\ Sqlite!Drop(t, l, S) = Drop(t, l, S)
                   /\ Postgres!Drop(t, l, S) = Drop(t, l, S)
  BY <1>2 DEF Memory!Drop, Sqlite!Drop, Postgres!Drop, Drop
<1> QED
  BY <1>3, <1>4, <1>5

(***************************************************************************)
(* Edits of one line add up.                                               *)
(***************************************************************************)
LEMMA EditsChain ==
  ASSUME NEW t, NEW w, NEW x, NEW l, Edit(t, w, l), Edit(w, x, l)
  PROVE  Edit(t, x, l)
BY DEF Edit, Touches, Keeps

(***************************************************************************)
(* Rewriting main's layer, whatever becomes of its keys, is an edit of     *)
(* main.                                                                   *)
(***************************************************************************)
LEMMA MainEdit ==
  ASSUME NEW t, IsTable(t), NEW g, IsLayer(g)
  PROVE  Edit(t, [t EXCEPT ![Main] = g], Main)
<1>1. PICK w : w = [t EXCEPT ![Main] = g]
  OBVIOUS
<1>2. w = [k \in Lines |-> w[k]] /\ w[Main] = g /\ \A k \in Lines \ {Main} : w[k] = t[k]
  BY <1>1, MainLine DEF IsTable
<1>3. \A k \in Lines : IsLayer(w[k])
  BY <1>2 DEF IsTable
<1> QED
  BY <1>1, <1>2, <1>3 DEF Edit, Touches, Keeps, IsTable

\* The store n is m with rows of line l rewritten, and no key of a branch lost.
EditStore(m, n, l) ==
  /\ n = [persons |-> n.persons, names |-> n.names, exids |-> n.exids,
          families |-> n.families, kids |-> n.kids, edges |-> n.edges]
  /\ Edit(m.persons, n.persons, l) /\ Edit(m.names, n.names, l) /\ Edit(m.exids, n.exids, l)
  /\ Edit(m.families, n.families, l) /\ Edit(m.kids, n.kids, l) /\ Edit(m.edges, n.edges, l)

(***************************************************************************)
(* The buckets of the in-memory store.                                     *)
(***************************************************************************)
LEMMA BucketEdits ==
  ASSUME NEW t, IsTable(t), NEW l \in Lines
  PROVE  /\ \A k, rows : Edit(t, Memory!StoreBucket(t, l, k, rows), l)
         /\ \A p : Edit(t, Memory!DropChild(t, p), Main)
<1>1. \A k, rows : Edit(t, Memory!StoreBucket(t, l, k, rows), l)
  BY Edits, SameWriting DEF Memory!StoreBucket
<1>2. ASSUME NEW p PROVE Edit(t, Memory!DropChild(t, p), Main)
  <2> DEFINE cleared == [f \in DOMAIN t[Main] |-> Memory!Without(t[Main][f], p)]
             g == Memory!Restrict(cleared, {f \in DOMAIN cleared : cleared[f] # Memory!Nothing})
  <2>1. IsLayer(g)
    BY DEF IsLayer, Memory!Restrict
  <2>2. Memory!DropChild(t, p) = [t EXCEPT ![Main] = g]
    BY DEF Memory!DropChild
  <2> HIDE DEF g
  <2> QED
    BY <2>1, <2>2, MainEdit
<1> QED
  BY <1>1, <1>2

(***************************************************************************)
(* Every call of the in-memory store edits the line it is made on.         *)
(***************************************************************************)
LEMMA MemoryEdits ==
  ASSUME IsStore(mem), NEW l \in Lines
  PROVE  /\ \A p, v : Memory!SavePerson(l, p, v) => EditStore(mem, mem', l)
         /\ \A p : Memory!DeletePerson(l, p) => EditStore(mem, mem', l)
         /\ \A p, n, v : Memory!SavePersonName(l, p, n, v) => EditStore(mem, mem', l)
         /\ \A n : Memory!DeletePersonName(l, n) => EditStore(mem, mem', l)
         /\ \A x, ids : Memory!ReplaceExternalIDs(l, x, ids) => EditStore(mem, mem', l)
         /\ \A f, v : Memory!SaveFamily(l, f, v) => EditStore(mem, mem', l)
         /\ \A f : Memory!DeleteFamily(l, f) => EditStore(mem, mem', l)
         /\ \A f, p, v : Memory!SaveFamilyChild(l, f, p, v) => EditStore(mem, mem', l)
         /\ \A f, p : Memory!DeleteFamilyChild(l, f, p) => EditStore(mem, mem', l)
         /\ \A p, v : Memory!SavePedigreeEdge(l, p, v) => EditStore(mem, mem', l)
         /\ \A p : Memory!DeletePedigreeEdge(l, p) => EditStore(mem, mem', l)
         /\ \A p, q : Memory!MoveNames(p, q) => EditStore(mem, mem', Main)
<1>1. \A t \in {mem.persons, mem.names, mem.exids, mem.families, mem.kids, mem.edges} :
        /\ Edit(t, t, l) /\ Edit(t, t, Main)
        /\ \A f : Edit(t, Memory!Put(t, l, f), l)
        /\ \A S : Edit(t, Memory!Drop(t, Main, S), Main)
        /\ \A k, rows : Edit(t, Memory!StoreBucket(t, l, k, rows), l)
        /\ \A k, rows : Edit(t, Memory!StoreBucket(t, Main, k, rows), Main)
        /\ \A p : Edit(t, Memory!DropChild(t, p), Main)
  BY Edits, BucketEdits, SameWriting, MainLine DEF IsStore
<1>2. \A p, v : Memory!SavePerson(l, p, v) => EditStore(mem, mem', l)
  BY <1>1 DEF Memory!SavePerson, IsStore, EditStore
<1>3. ASSUME NEW p, Memory!DeletePerson(l, p) PROVE EditStore(mem, mem', l)
  <2>1. CASE l = Main
    BY <1>1, <1>3, <2>1 DEF Memory!DeletePerson, IsStore, EditStore
  <2>2. CASE l # Main
    BY <1>1, <1>3, <2>2 DEF Memory!DeletePerson, IsStore, EditStore
  <2> QED
    BY <2>1, <2>2
<1>4. \A p, n, v : Memory!SavePersonName(l, p, n, v) => EditStore(mem, mem', l)
  BY <1>1 DEF Memory!SavePersonName, IsStore, EditStore
<1>5. \A n : Memory!DeletePersonName(l, n) => EditStore(mem, mem', l)
  BY <1>1 DEF Memory!DeletePersonName, IsStore, EditStore
<1>6. \A x, ids : Memory!ReplaceExternalIDs(l, x, ids) => EditStore(mem, mem', l)
  BY <1>1 DEF Memory!ReplaceExternalIDs, IsStore, EditStore
<1>7. \A f, v : Memory!SaveFamily(l, f, v) => EditStore(mem, mem', l)
  BY <1>1 DEF Memory!SaveFamily, IsStore, EditStore
<1>8. ASSUME NEW f, Memory!DeleteFamily(l, f) PROVE EditStore(mem, mem', l)
  <2>1. CASE l = Main
    BY <1>1, <1>8, <2>1 DEF Memory!DeleteFamily, IsStore, EditStore
  <2>2. CASE l # Main
    BY <1>1, <1>8, <2>2 DEF Memory!DeleteFamily, IsStore, EditStore
  <2> QED
    BY <2>1, <2>2
<1>9. \A f, p, v : Memory!SaveFamilyChild(l, f, p, v) => EditStore(mem, mem', l)
  BY <1>1 DEF Memory!SaveFamilyChild, IsStore, EditStore
<1>10. \A f, p : Memory!DeleteFamilyChild(l, f, p) => EditStore(mem, mem', l)
  BY <1>1 DEF Memory!DeleteFamilyChild, IsStore, EditStore
<1>11. \A p, v : Memory!SavePedigreeEdge(l, p, v) => EditStore(mem, mem', l)
  BY <1>1 DEF Memory!SavePedigreeEdge, IsStore, EditStore
<1>12. \A p : Memory!DeletePedigreeEdge(l, p) => EditStore(mem, mem', l)
  BY <1>1 DEF Memory!DeletePedigreeEdge, IsStore, EditStore
<1>13. ASSUME NEW p, NEW q, Memory!MoveNames(p, q) PROVE EditStore(mem, mem', Main)
  <2>1. PICK w, rows : w = Memory!StoreBucket(mem.names, Main, p, rows) /\ mem'.names = Memory!Drop(w, Main, {q})
    BY <1>13 DEF Memory!MoveNames, IsStore
  <2>2. Edit(mem.names, w, Main)
    BY <1>1, <2>1
  <2>3. Edit(w, Memory!Drop(w, Main, {q}), Main)
    BY <2>2, Edits, SameWriting, MainLine DEF Edit, Touches
  <2>4. Edit(mem.names, mem'.names, Main)
    BY <2>1, <2>2, <2>3, EditsChain
  <2> QED
    BY <1>1, <1>13, <2>4 DEF Memory!MoveNames, IsStore, EditStore
<1> QED
  BY <1>2, <1>3, <1>4, <1>5, <1>6, <1>7, <1>8, <1>9, <1>10, <1>11, <1>12, <1>13

(***************************************************************************)
(* On main SQLite's cascade removes main's rows of the person's names.     *)
(***************************************************************************)
LEMMA SqliteCascade ==
  ASSUME IsStore(lite), NEW p, Sqlite!DeletePersonMain(p)
  PROVE  lite'.names = Drop(lite.names, Main, {n \in DOMAIN lite.names[Main] : lite.names[Main][n].owner = p})
<1> DEFINE gone == {n \in DOMAIN lite.names[Main] : lite.names[Main][n].owner = p}
           w == [l \in Lines |-> Restrict(lite.names[l], DOMAIN lite.names[l] \ Sqlite!RemovedNames(p)[l])]
<1>1. lite'.names = w
  <2>1. \A f, S : Sqlite!Restrict(f, S) = Restrict(f, S)
    BY DEF Sqlite!Restrict, Restrict
  <2> QED
    BY <2>1 DEF Sqlite!DeletePersonMain, IsStore, Sqlite!Lines, Lines
<1>2. PICK x : x = Drop(lite.names, Main, gone)
  OBVIOUS
<1>3. /\ x = [l \in Lines |-> x[l]]
      /\ x[Main] = Restrict(lite.names[Main], DOMAIN lite.names[Main] \ gone)
      /\ \A l \in Lines \ {Main} : x[l] = lite.names[l]
  <2> HIDE DEF gone
  <2>1. IsTable(lite.names) /\ Main \in Lines
    BY MainLine DEF IsStore
  <2>2. Touches(lite.names, Drop(lite.names, Main, gone), Main)
    BY <2>1, DropTouches
  <2>3. Drop(lite.names, Main, gone)[Main] = Restrict(lite.names[Main], DOMAIN lite.names[Main] \ gone)
    BY <2>1 DEF Drop, IsTable
  <2> QED
    BY <1>2, <2>2, <2>3 DEF Touches, IsTable
<1>4. \A l \in Lines : Sqlite!RemovedNames(p)[l] = IF l = Main THEN gone ELSE {}
  BY DEF Sqlite!RemovedNames, Sqlite!Lines, Lines
<1>5. \A l \in Lines : w[l] = x[l]
  <2>1. ASSUME NEW l \in Lines \ {Main} PROVE Restrict(lite.names[l], DOMAIN lite.names[l] \ {}) = lite.names[l]
    BY DEF Restrict, IsStore, IsTable, IsLayer
  <2> QED
    BY <1>3, <1>4, <2>1
<1> QED
  BY <1>1, <1>2, <1>3, <1>5

(***************************************************************************)
(* Every call of SQLite edits the line it is made on, except that a delete *)
(* on a branch also removes rows.                                          *)
(***************************************************************************)
LEMMA SqliteEdits ==
  ASSUME IsStore(lite), NEW l \in Lines
  PROVE  /\ \A p, v : Sqlite!SavePerson(l, p, v) => EditStore(lite, lite', l)
         /\ \A p, n, v : Sqlite!SavePersonName(l, p, n, v) => EditStore(lite, lite', l)
         /\ \A n : Sqlite!DeletePersonName(l, n) => EditStore(lite, lite', l)
         /\ \A x, ids : Sqlite!ReplaceExternalIDs(l, x, ids) => EditStore(lite, lite', l)
         /\ \A f, v : Sqlite!SaveFamily(l, f, v) => EditStore(lite, lite', l)
         /\ \A f, p, v : Sqlite!SaveFamilyChild(l, f, p, v) => EditStore(lite, lite', l)
         /\ \A f, p : Sqlite!DeleteFamilyChild(l, f, p) => EditStore(lite, lite', l)
         /\ \A p, v : Sqlite!SavePedigreeEdge(l, p, v) => EditStore(lite, lite', l)
         /\ \A p : Sqlite!DeletePedigreeEdge(l, p) => EditStore(lite, lite', l)
         /\ \A p : Sqlite!DeletePersonMain(p) => EditStore(lite, lite', Main)
         /\ \A f : Sqlite!DeleteFamily(Main, f) => EditStore(lite, lite', Main)
         /\ \A p, q : Sqlite!MoveNames(p, q) => EditStore(lite, lite', Main)
<1>1. \A t \in {lite.persons, lite.names, lite.exids, lite.families, lite.kids, lite.edges} :
        /\ Edit(t, t, l) /\ Edit(t, t, Main)
        /\ \A f : Edit(t, Sqlite!Put(t, l, f), l)
        /\ \A f : Edit(t, Sqlite!Put(t, Main, f), Main)
        /\ \A S : Edit(t, Sqlite!Drop(t, Main, S), Main)
  BY Edits, SameWriting, MainLine DEF IsStore
<1>2. \A p, v : Sqlite!SavePerson(l, p, v) => EditStore(lite, lite', l)
  BY <1>1 DEF Sqlite!SavePerson, IsStore, EditStore
<1>3. \A p, n, v : Sqlite!SavePersonName(l, p, n, v) => EditStore(lite, lite', l)
  BY <1>1 DEF Sqlite!SavePersonName, IsStore, EditStore
<1>4. \A n : Sqlite!DeletePersonName(l, n) => EditStore(lite, lite', l)
  BY <1>1 DEF Sqlite!DeletePersonName, Sqlite!Tombstones, IsStore, EditStore
<1>5. \A x, ids : Sqlite!ReplaceExternalIDs(l, x, ids) => EditStore(lite, lite', l)
  BY <1>1 DEF Sqlite!ReplaceExternalIDs, IsStore, EditStore
<1>6. \A f, v : Sqlite!SaveFamily(l, f, v) => EditStore(lite, lite', l)
  BY <1>1 DEF Sqlite!SaveFamily, IsStore, EditStore
<1>7. \A f, p, v : Sqlite!SaveFamilyChild(l, f, p, v) => EditStore(lite, lite', l)
  BY <1>1 DEF Sqlite!SaveFamilyChild, IsStore, EditStore
<1>8. \A f, p : Sqlite!DeleteFamilyChild(l, f, p) => EditStore(lite, lite', l)
  BY <1>1 DEF Sqlite!DeleteFamilyChild, IsStore, EditStore
<1>9. \A p, v : Sqlite!SavePedigreeEdge(l, p, v) => EditStore(lite, lite', l)
  BY <1>1 DEF Sqlite!SavePedigreeEdge, IsStore, EditStore
<1>10. \A p : Sqlite!DeletePedigreeEdge(l, p) => EditStore(lite, lite', l)
  BY <1>1 DEF Sqlite!DeletePedigreeEdge, IsStore, EditStore
<1>11. ASSUME NEW p, Sqlite!DeletePersonMain(p) PROVE EditStore(lite, lite', Main)
  <2>1. /\ lite'.persons = Sqlite!Drop(lite.persons, Main, {p})
        /\ lite'.exids = Sqlite!Drop(lite.exids, Main, {p})
        /\ lite'.edges = Sqlite!Drop(lite.edges, Main, {p})
        /\ lite'.kids = Sqlite!Drop(lite.kids, Main, Families \X {p})
        /\ lite'.names = Sqlite!Drop(lite.names, Main, {n \in DOMAIN lite.names[Main] : lite.names[Main][n].owner = p})
        /\ lite'.families = lite.families
        /\ lite' = [persons |-> lite'.persons, names |-> lite'.names, exids |-> lite'.exids,
                  families |-> lite'.families, kids |-> lite'.kids, edges |-> lite'.edges]
    BY <1>11, SqliteCascade, SameWriting DEF Sqlite!DeletePersonMain, IsStore
  <2> QED
    BY <1>1, <2>1 DEF EditStore
<1>12. ASSUME NEW f, Sqlite!DeleteFamily(Main, f) PROVE EditStore(lite, lite', Main)
  <2>1. /\ lite'.families = Sqlite!Drop(lite.families, Main, {f})
        /\ lite'.exids = Sqlite!Drop(lite.exids, Main, {f})
        /\ lite'.kids = Sqlite!Drop(lite.kids, Main, {f} \X Persons)
        /\ lite'.persons = lite.persons
        /\ lite'.names = lite.names
        /\ lite'.edges = lite.edges
        /\ lite' = [persons |-> lite'.persons, names |-> lite'.names, exids |-> lite'.exids,
                  families |-> lite'.families, kids |-> lite'.kids, edges |-> lite'.edges]
    BY <1>12 DEF Sqlite!DeleteFamily, IsStore
  <2> QED
    BY <1>1, <2>1 DEF EditStore
<1>13. ASSUME NEW p, NEW q, Sqlite!MoveNames(p, q) PROVE EditStore(lite, lite', Main)
  <2>1. /\ lite'.persons = Sqlite!Drop(lite.persons, Main, {q})
        /\ lite'.exids = Sqlite!Drop(lite.exids, Main, {q})
        /\ lite'.edges = Sqlite!Drop(lite.edges, Main, {q})
        /\ lite'.kids = Sqlite!Drop(lite.kids, Main, Families \X {q})
        /\ \E moved : lite'.names = Sqlite!Put(lite.names, Main, moved)
        /\ lite'.families = lite.families
        /\ lite' = [persons |-> lite'.persons, names |-> lite'.names, exids |-> lite'.exids,
                  families |-> lite'.families, kids |-> lite'.kids, edges |-> lite'.edges]
    BY <1>13 DEF Sqlite!MoveNames, IsStore
  <2> QED
    BY <1>1, <2>1 DEF EditStore
<1> QED
  BY <1>2, <1>3, <1>4, <1>5, <1>6, <1>7, <1>8, <1>9, <1>10, <1>11, <1>12, <1>13

(***************************************************************************)
(* Every call of PostgreSQL edits the line it is made on.                  *)
(***************************************************************************)
LEMMA PostgresEdits ==
  ASSUME IsStore(pg), NEW l \in Lines
  PROVE  /\ \A p, v : Postgres!SavePerson(l, p, v) => EditStore(pg, pg', l)
         /\ \A p, n, v : Postgres!SavePersonName(l, p, n, v) => EditStore(pg, pg', l)
         /\ \A n : Postgres!DeletePersonName(l, n) => EditStore(pg, pg', l)
         /\ \A x, ids : Postgres!ReplaceExternalIDs(l, x, ids) => EditStore(pg, pg', l)
         /\ \A f, v : Postgres!SaveFamily(l, f, v) => EditStore(pg, pg', l)
         /\ \A f, p, v : Postgres!SaveFamilyChild(l, f, p, v) => EditStore(pg, pg', l)
         /\ \A f, p : Postgres!DeleteFamilyChild(l, f, p) => EditStore(pg, pg', l)
         /\ \A p, v : Postgres!SavePedigreeEdge(l, p, v) => EditStore(pg, pg', l)
         /\ \A p : Postgres!DeletePedigreeEdge(l, p) => EditStore(pg, pg', l)
         /\ \A p : Postgres!DeletePerson(l, p) => EditStore(pg, pg', l)
         /\ \A f : Postgres!DeleteFamily(l, f) => EditStore(pg, pg', l)
         /\ \A p, q : Postgres!MoveNames(p, q) => EditStore(pg, pg', Main)
<1>1. \A t \in {pg.persons, pg.names, pg.exids, pg.families, pg.kids, pg.edges} :
        /\ Edit(t, t, l) /\ Edit(t, t, Main)
        /\ \A f : Edit(t, Postgres!Put(t, l, f), l)
        /\ \A f : Edit(t, Postgres!Put(t, Main, f), Main)
        /\ \A S : Edit(t, Postgres!Drop(t, Main, S), Main)
  BY Edits, SameWriting, MainLine DEF IsStore
<1>2. \A p, v : Postgres!SavePerson(l, p, v) => EditStore(pg, pg', l)
  BY <1>1 DEF Postgres!SavePerson, IsStore, EditStore
<1>3. \A p, n, v : Postgres!SavePersonName(l, p, n, v) => EditStore(pg, pg', l)
  BY <1>1 DEF Postgres!SavePersonName, IsStore, EditStore
<1>4. \A n : Postgres!DeletePersonName(l, n) => EditStore(pg, pg', l)
  BY <1>1 DEF Postgres!DeletePersonName, Postgres!TombstoneNames, IsStore, EditStore
<1>5. \A x, ids : Postgres!ReplaceExternalIDs(l, x, ids) => EditStore(pg, pg', l)
  BY <1>1 DEF Postgres!ReplaceExternalIDs, IsStore, EditStore
<1>6. \A f, v : Postgres!SaveFamily(l, f, v) => EditStore(pg, pg', l)
  BY <1>1 DEF Postgres!SaveFamily, IsStore, EditStore
<1>7. \A f, p, v : Postgres!SaveFamilyChild(l, f, p, v) => EditStore(pg, pg', l)
  BY <1>1 DEF Postgres!SaveFamilyChild, IsStore, EditStore
<1>8. \A f, p : Postgres!DeleteFamilyChild(l, f, p) => EditStore(pg, pg', l)
  BY <1>1 DEF Postgres!DeleteFamilyChild, Postgres!Tombstone, IsStore, EditStore
<1>9. \A p, v : Postgres!SavePedigreeEdge(l, p, v) => EditStore(pg, pg', l)
  BY <1>1 DEF Postgres!SavePedigreeEdge, IsStore, EditStore
<1>10. \A p : Postgres!DeletePedigreeEdge(l, p) => EditStore(pg, pg', l)
  BY <1>1 DEF Postgres!DeletePedigreeEdge, Postgres!Tombstone, IsStore, EditStore
<1>11. ASSUME NEW p, Postgres!DeletePerson(l, p) PROVE EditStore(pg, pg', l)
  <2>1. CASE l = Main
    BY <1>1, <1>11, <2>1
       DEF Postgres!DeletePerson, Postgres!Cascade, Postgres!Tombstone, Postgres!TombstoneNames, IsStore,
           EditStore
  <2>2. CASE l # Main
    BY <1>1, <1>11, <2>2
       DEF Postgres!DeletePerson, Postgres!Cascade, Postgres!Tombstone, Postgres!TombstoneNames, IsStore,
           EditStore
  <2> QED
    BY <2>1, <2>2
<1>12. ASSUME NEW f, Postgres!DeleteFamily(l, f) PROVE EditStore(pg, pg', l)
  <2>1. CASE l = Main
    BY <1>1, <1>12, <2>1 DEF Postgres!DeleteFamily, Postgres!Tombstone, IsStore, EditStore
  <2>2. CASE l # Main
    BY <1>1, <1>12, <2>2 DEF Postgres!DeleteFamily, Postgres!Tombstone, IsStore, EditStore
  <2> QED
    BY <2>1, <2>2
<1>13. ASSUME NEW p, NEW q, Postgres!MoveNames(p, q) PROVE EditStore(pg, pg', Main)
  <2>1. /\ pg'.persons = Postgres!Drop(pg.persons, Main, {q})
        /\ pg'.exids = Postgres!Drop(pg.exids, Main, {q})
        /\ pg'.edges = Postgres!Drop(pg.edges, Main, {q})
        /\ pg'.kids = Postgres!Drop(pg.kids, Main, Families \X {q})
        /\ \E moved : pg'.names = Postgres!Put(pg.names, Main, moved)
        /\ pg'.families = pg.families
        /\ pg' = [persons |-> pg'.persons, names |-> pg'.names, exids |-> pg'.exids,
                  families |-> pg'.families, kids |-> pg'.kids, edges |-> pg'.edges]
    BY <1>13 DEF Postgres!MoveNames, Postgres!Cascade, IsStore
  <2> QED
    BY <1>1, <2>1 DEF EditStore
<1> QED
  BY <1>2, <1>3, <1>4, <1>5, <1>6, <1>7, <1>8, <1>9, <1>10, <1>11, <1>12, <1>13

-----------------------------------------------------------------------------
(* Rows after an edit.                                                     *)

(***************************************************************************)
(* What is in a layer after rows were written to it, or removed from it.   *)
(***************************************************************************)
LEMMA PutRows ==
  ASSUME NEW t, IsTable(t), NEW l \in Lines, NEW f
  PROVE  /\ DOMAIN Put(t, l, f)[l] = DOMAIN f \union DOMAIN t[l]
         /\ \A k \in DOMAIN f : Put(t, l, f)[l][k] = f[k]
         /\ \A k \in DOMAIN t[l] : k \notin DOMAIN f => Put(t, l, f)[l][k] = t[l][k]
         /\ \A m \in Lines \ {l} : Put(t, l, f)[m] = t[m]
<1>1. Put(t, l, f)[l] = Over(f, t[l]) /\ Touches(t, Put(t, l, f), l)
  BY PutTouches
<1> QED
  BY <1>1 DEF Over, Touches

(***************************************************************************)
(* One row put: the line has that key, with that row, and the others as    *)
(* before.                                                                 *)
(***************************************************************************)
LEMMA PutRow ==
  ASSUME NEW t, IsTable(t), NEW l \in Lines, NEW k, NEW v
  PROVE  /\ DOMAIN Put(t, l, Row(k, v))[l] = {k} \union DOMAIN t[l]
         /\ Put(t, l, Row(k, v))[l][k] = v
         /\ \A j \in DOMAIN t[l] : j # k => Put(t, l, Row(k, v))[l][j] = t[l][j]
         /\ \A m \in Lines \ {l} : Put(t, l, Row(k, v))[m] = t[m]
<1>1. DOMAIN Row(k, v) = {k} /\ Row(k, v)[k] = v
  BY DEF Row
<1> QED
  BY <1>1, PutRows

(***************************************************************************)
(* Rows dropped: the line loses those keys, and no other line changes.     *)
(***************************************************************************)
LEMMA DropRows ==
  ASSUME NEW t, IsTable(t), NEW l \in Lines, NEW S
  PROVE  /\ DOMAIN Drop(t, l, S)[l] = DOMAIN t[l] \ S
         /\ \A k \in DOMAIN t[l] \ S : Drop(t, l, S)[l][k] = t[l][k]
         /\ \A m \in Lines \ {l} : Drop(t, l, S)[m] = t[m]
<1>1. PICK w : w = Drop(t, l, S)
  OBVIOUS
<1>2. w[l] = Restrict(t[l], DOMAIN t[l] \ S)
  BY <1>1 DEF Drop, IsTable
<1>3. Touches(t, w, l)
  BY <1>1, DropTouches
<1> QED
  BY <1>1, <1>2, <1>3 DEF Restrict, Touches

\* Ids created before are created after.
More(were, are) == \A i \in Ids : were[i] # {} => are[i] # {}

\* What a branch has deleted stays deleted.
StaysDeleted(t, w) == \A b \in Branches : \A k : DeletedOn(t, b, k) => DeletedOn(w, b, k)

(***************************************************************************)
(* A person or family saved on a line that had not deleted it, or deleted  *)
(* on a branch; and one deleted from main.                                 *)
(***************************************************************************)
LEMMA SavedRow ==
  ASSUME NEW t, IsTable(t), NEW l \in Lines, NEW S, NEW k, NEW v,
         NEW were, NEW are, S \subseteq Ids, More(were, are), Living(t, S), KnownRows(t, S, were),
         l = Main => v # Gone, k \in S => are[k] # {},
         v = Gone \/ ~DeletedOn(t, l, k)
  PROVE  /\ Living(Put(t, l, Row(k, v)), S)
         /\ KnownRows(Put(t, l, Row(k, v)), S, are)
         /\ StaysDeleted(t, Put(t, l, Row(k, v)))
<1>1. PICK w : w = Put(t, l, Row(k, v))
  OBVIOUS
<1>2. /\ DOMAIN w[l] = {k} \union DOMAIN t[l]
      /\ w[l][k] = v
      /\ \A j \in DOMAIN t[l] : j # k => w[l][j] = t[l][j]
      /\ \A m \in Lines \ {l} : w[m] = t[m]
  BY <1>1, PutRow
<1>3. Living(w, S)
  BY <1>2, MainLine DEF Living, DeletedOn
<1>4. KnownRows(w, S, are)
  BY <1>2 DEF KnownRows, More
<1>5. StaysDeleted(t, w)
  BY <1>2, MainLine DEF StaysDeleted, DeletedOn
<1> QED
  BY <1>1, <1>3, <1>4, <1>5

(***************************************************************************)
(* After rows of main are dropped, as a delete on main does, main still    *)
(* has no tombstone, known ids stay known and a branch's tombstones stay.  *)
(***************************************************************************)
LEMMA DroppedRow ==
  ASSUME NEW t, IsTable(t), NEW S, NEW D,
         NEW were, NEW are, S \subseteq Ids, More(were, are), Living(t, S), KnownRows(t, S, were)
  PROVE  /\ Living(Drop(t, Main, D), S)
         /\ KnownRows(Drop(t, Main, D), S, are)
         /\ StaysDeleted(t, Drop(t, Main, D))
<1>1. PICK w : w = Drop(t, Main, D)
  OBVIOUS
<1>2. /\ DOMAIN w[Main] = DOMAIN t[Main] \ D
      /\ \A j \in DOMAIN t[Main] \ D : w[Main][j] = t[Main][j]
      /\ \A m \in Lines \ {Main} : w[m] = t[m]
  BY <1>1, DropRows, MainLine
<1>3. Living(w, S)
  BY <1>2 DEF Living, DeletedOn
<1>4. KnownRows(w, S, are)
  BY <1>2 DEF KnownRows, More
<1>5. StaysDeleted(t, w)
  BY <1>2, MainLine DEF StaysDeleted, DeletedOn
<1> QED
  BY <1>1, <1>3, <1>4, <1>5

(***************************************************************************)
(* A table of which no row changed.                                        *)
(***************************************************************************)
LEMMA SameRows ==
  ASSUME NEW t, NEW S, NEW were, NEW are, S \subseteq Ids, More(were, are), KnownRows(t, S, were)
  PROVE  KnownRows(t, S, are) /\ StaysDeleted(t, t)
BY DEF KnownRows, More, StaysDeleted

(***************************************************************************)
(* The names are not disturbed when no row of theirs changes and what the  *)
(* branches have deleted stays deleted.                                    *)
(***************************************************************************)
LEMMA SameNames ==
  ASSUME NamesInv, lite'.names = lite.names, pg'.names = pg.names,
         More(made, made'), StaysDeleted(pg.persons, pg'.persons)
  PROVE  NamesInv'
<1>1. KnownNames(lite'.names, made') /\ KnownNames(pg'.names, made')
  BY DEF NamesInv, KnownNames, More, Ids
<1>2. ASSUME NEW b \in Branches PROVE Follows(lite'.names, pg'.names, pg'.persons, b)
  BY DEF NamesInv, Follows, Owned, StaysDeleted
<1> QED
  BY <1>1, <1>2 DEF NamesInv, MainNames

-----------------------------------------------------------------------------
(* What a call does to the three stores.                                   *)

\* What a branch of a SQL store has of its own it keeps.
Kept(m, n, b) ==
  /\ DOMAIN m.persons[b] \subseteq DOMAIN n.persons[b]
  /\ DOMAIN m.edges[b] \subseteq DOMAIN n.edges[b]
  /\ DOMAIN m.families[b] \subseteq DOMAIN n.families[b]
  /\ DOMAIN m.exids[b] \subseteq DOMAIN n.exids[b]
  /\ \A k : DeletedOn(m.persons, b, k) => DeletedOn(n.persons, b, k)
  /\ \A k : DeletedOn(m.families, b, k) => DeletedOn(n.families, b, k)
  /\ Owned(m.names, n.names, n.persons, b)
  /\ \A f \in Families, p \in Persons :
       <<f, p>> \in DOMAIN m.kids[b] => DeletedOn(n.families, b, f) \/ <<f, p>> \in DOMAIN n.kids[b]

SqlEdit(m, n, l) ==
  /\ n = [persons |-> n.persons, names |-> n.names, exids |-> n.exids,
          families |-> n.families, kids |-> n.kids, edges |-> n.edges]
  /\ Touches(m.persons, n.persons, l) /\ Touches(m.names, n.names, l) /\ Touches(m.exids, n.exids, l)
  /\ Touches(m.families, n.families, l) /\ Touches(m.kids, n.kids, l) /\ Touches(m.edges, n.edges, l)
  /\ l # Main => Kept(m, n, l)

(***************************************************************************)
(* An edit that takes no name row from its owner, on a branch, nor a       *)
(* tombstone.                                                              *)
(***************************************************************************)
LEMMA EditIsSqlEdit ==
  ASSUME NEW m, NEW n, NEW l \in Lines, EditStore(m, n, l),
         StaysDeleted(m.persons, n.persons), StaysDeleted(m.families, n.families),
         l # Main => Owned(m.names, n.names, n.persons, l)
  PROVE  SqlEdit(m, n, l)
<1>1. l # Main => l \in Branches
  BY DEF Lines
<1> QED
  BY <1>1 DEF SqlEdit, EditStore, Edit, Keeps, Kept, StaysDeleted

\* The three stores took a call on the line l, and the invariant holds.
Took(l) ==
  /\ IInv'
  /\ EditStore(mem, mem', l) /\ SqlEdit(lite, lite', l) /\ SqlEdit(pg, pg', l)

(***************************************************************************)
(* The stores are stores after edits.                                      *)
(***************************************************************************)
LEMMA StillStores ==
  ASSUME NEW m, NEW n, NEW l
  PROVE  EditStore(m, n, l) \/ SqlEdit(m, n, l) => IsStore(n) /\ Wrote(m, n, l)
BY DEF EditStore, SqlEdit, Edit, Touches, IsStore, Wrote

(***************************************************************************)
(* A call leaves the ids that were created before created, and counts.     *)
(***************************************************************************)
LEMMA CallFacts ==
  ASSUME NEW l, NEW born, NEW ids, Call(l, born, ids)
  PROVE  /\ More(made, made')
         /\ \A i \in Ids : i \in ids => made'[i] # {}
         /\ calls' = [calls EXCEPT ![l] = @ + 1]
BY DEF Call, More

(***************************************************************************)
(* Calls that write edges, identifiers and children only.                  *)
(***************************************************************************)
LEMMA OtherTables ==
  ASSUME IInv, NEW l \in Lines, More(made, made'),
         EditStore(mem, mem', l), EditStore(lite, lite', l), EditStore(pg, pg', l),
         Twins(mem', mem), Twins(lite', lite), Twins(pg', pg),
         lite'.names = lite.names, pg'.names = pg.names
  PROVE  Took(l)
<1>1. Persons \subseteq Ids /\ Families \subseteq Ids
  BY DEF Ids
<1>2. RowsInv'
  BY <1>1, SameRows DEF IInv, RowsInv, Twins, MainLives
<1>3. \A t : StaysDeleted(t, t)
  BY DEF StaysDeleted
<1>4. NamesInv'
  BY <1>3, SameNames DEF IInv, Twins
<1>5. \A t, d, b : Owned(t, t, d, b)
  BY DEF Owned
<1>6. SqlEdit(lite, lite', l) /\ SqlEdit(pg, pg', l)
  BY <1>3, <1>5, EditIsSqlEdit DEF Twins
<1> QED
  BY <1>2, <1>4, <1>6, StillStores DEF IInv, Took

(***************************************************************************)
(* Identifier lists, child rows and pedigree edges: no call on them writes *)
(* a table that the invariant relates to another, and each is a write of   *)
(* its line.                                                               *)
(***************************************************************************)
LEMMA OtherCalls ==
  ASSUME IInv, NEW l \in Lines
  PROVE  /\ \A x, ids : ReplaceExternalIDs(l, x, ids) => Took(l)
         /\ \A f, p : SaveFamilyChild(l, f, p) => Took(l)
         /\ \A f, p : DeleteFamilyChild(l, f, p) => Took(l)
         /\ \A p : SavePedigreeEdge(l, p) => Took(l)
         /\ \A p : DeletePedigreeEdge(l, p) => Took(l)
<1>1. ASSUME NEW x, NEW ids, ReplaceExternalIDs(l, x, ids) PROVE Took(l)
  <2>1. More(made, made')
    BY <1>1, CallFacts DEF ReplaceExternalIDs
  <2>2. EditStore(mem, mem', l) /\ EditStore(lite, lite', l) /\ EditStore(pg, pg', l)
    BY <1>1, MemoryEdits, SqliteEdits, PostgresEdits DEF ReplaceExternalIDs, IInv
  <2>3. /\ Twins(mem', mem) /\ Twins(lite', lite) /\ Twins(pg', pg)
        /\ lite'.names = lite.names /\ pg'.names = pg.names
    BY <1>1 DEF ReplaceExternalIDs, Memory!ReplaceExternalIDs, Sqlite!ReplaceExternalIDs,
       Postgres!ReplaceExternalIDs, IInv, IsStore, Twins
  <2> QED
    BY <2>1, <2>2, <2>3, OtherTables
<1>2. ASSUME NEW f, NEW p, SaveFamilyChild(l, f, p) PROVE Took(l)
  <2>1. More(made, made')
    BY <1>2, CallFacts DEF SaveFamilyChild
  <2>2. EditStore(mem, mem', l) /\ EditStore(lite, lite', l) /\ EditStore(pg, pg', l)
    BY <1>2, MemoryEdits, SqliteEdits, PostgresEdits DEF SaveFamilyChild, IInv
  <2>3. /\ Twins(mem', mem) /\ Twins(lite', lite) /\ Twins(pg', pg)
        /\ lite'.names = lite.names /\ pg'.names = pg.names
    BY <1>2 DEF SaveFamilyChild, Memory!SaveFamilyChild, Sqlite!SaveFamilyChild,
       Postgres!SaveFamilyChild, IInv, IsStore, Twins
  <2> QED
    BY <2>1, <2>2, <2>3, OtherTables
<1>3. ASSUME NEW f, NEW p, DeleteFamilyChild(l, f, p) PROVE Took(l)
  <2>1. More(made, made')
    BY <1>3, CallFacts DEF DeleteFamilyChild
  <2>2. EditStore(mem, mem', l) /\ EditStore(lite, lite', l) /\ EditStore(pg, pg', l)
    BY <1>3, MemoryEdits, SqliteEdits, PostgresEdits DEF DeleteFamilyChild, IInv
  <2>3. /\ Twins(mem', mem) /\ Twins(lite', lite) /\ Twins(pg', pg)
        /\ lite'.names = lite.names /\ pg'.names = pg.names
    BY <1>3 DEF DeleteFamilyChild, Memory!DeleteFamilyChild, Sqlite!DeleteFamilyChild,
       Postgres!DeleteFamilyChild, IInv, IsStore, Twins
  <2> QED
    BY <2>1, <2>2, <2>3, OtherTables
<1>4. ASSUME NEW p, SavePedigreeEdge(l, p) PROVE Took(l)
  <2>1. More(made, made')
    BY <1>4, CallFacts DEF SavePedigreeEdge
  <2>2. EditStore(mem, mem', l) /\ EditStore(lite, lite', l) /\ EditStore(pg, pg', l)
    BY <1>4, MemoryEdits, SqliteEdits, PostgresEdits DEF SavePedigreeEdge, IInv
  <2>3. /\ Twins(mem', mem) /\ Twins(lite', lite) /\ Twins(pg', pg)
        /\ lite'.names = lite.names /\ pg'.names = pg.names
    BY <1>4 DEF SavePedigreeEdge, Memory!SavePedigreeEdge, Sqlite!SavePedigreeEdge,
       Postgres!SavePedigreeEdge, IInv, IsStore, Twins
  <2> QED
    BY <2>1, <2>2, <2>3, OtherTables
<1>5. ASSUME NEW p, DeletePedigreeEdge(l, p) PROVE Took(l)
  <2>1. More(made, made')
    BY <1>5, CallFacts DEF DeletePedigreeEdge
  <2>2. EditStore(mem, mem', l) /\ EditStore(lite, lite', l) /\ EditStore(pg, pg', l)
    BY <1>5, MemoryEdits, SqliteEdits, PostgresEdits DEF DeletePedigreeEdge, IInv
  <2>3. /\ Twins(mem', mem) /\ Twins(lite', lite) /\ Twins(pg', pg)
        /\ lite'.names = lite.names /\ pg'.names = pg.names
    BY <1>5 DEF DeletePedigreeEdge, Memory!DeletePedigreeEdge, Sqlite!DeletePedigreeEdge,
       Postgres!DeletePedigreeEdge, IInv, IsStore, Twins
  <2> QED
    BY <2>1, <2>2, <2>3, OtherTables
<1> QED
  BY <1>1, <1>2, <1>3, <1>4, <1>5

(***************************************************************************)
(* A row the line sees is a row of the line or of main, and not deleted.   *)
(***************************************************************************)
LEMMA Seen ==
  ASSUME NEW l, NEW k
  PROVE  /\ SeesPerson(l, k) => /\ ~DeletedOn(mem.persons, l, k)
                                /\ k \in DOMAIN mem.persons[l] \union DOMAIN mem.persons[Main]
         /\ SeesFamily(l, k) => /\ ~DeletedOn(mem.families, l, k)
                                /\ k \in DOMAIN mem.families[l] \union DOMAIN mem.families[Main]
BY DEF SeesPerson, SeesFamily, Memory!GetPerson, Memory!GetFamily, Memory!ResolveRow, Memory!Winner, DeletedOn

(***************************************************************************)
(* Nor is a row that is new deleted on the line.                           *)
(***************************************************************************)
LEMMA NewIsNotDeleted ==
  ASSUME NEW t, NEW S, NEW l \in Lines, NEW k \in S, Living(t, S), KnownRows(t, S, made), New(l, k)
  PROVE  ~DeletedOn(t, l, k)
BY DEF Living, KnownRows, New, DeletedOn

(***************************************************************************)
(* Saving a person.                                                        *)
(***************************************************************************)
LEMMA SavePersonTook ==
  ASSUME IInv, NEW l \in Lines, NEW p \in Persons, SavePerson(l, p)
  PROVE  Took(l)
<1>1. Persons \subseteq Ids /\ Families \subseteq Ids
  BY DEF Ids
<1>2. More(made, made') /\ made'[p] # {}
  BY <1>1, CallFacts DEF SavePerson
<1>3. /\ EditStore(mem, mem', l) /\ EditStore(lite, lite', l) /\ EditStore(pg, pg', l)
      /\ IsTable(mem.persons)
  BY MemoryEdits, SqliteEdits, PostgresEdits DEF SavePerson, IInv, IsStore
<1>4. /\ mem'.persons = Put(mem.persons, l, Row(p, l))
      /\ lite'.persons = Put(lite.persons, l, Row(p, l))
      /\ pg'.persons = Put(pg.persons, l, Row(p, l))
      /\ mem'.families = mem.families /\ lite'.families = lite.families /\ pg'.families = pg.families
      /\ lite'.names = lite.names /\ pg'.names = pg.names
  BY SameWriting DEF SavePerson, Memory!SavePerson, Sqlite!SavePerson, Postgres!SavePerson, IInv, IsStore
<1>5. ~DeletedOn(mem.persons, l, p)
  BY Seen, NewIsNotDeleted DEF SavePerson, IInv, RowsInv, MainLives
<1>6. l = Main => l # Gone
  BY GoneIsApart
<1>7. /\ Living(mem'.persons, Persons)
      /\ KnownRows(mem'.persons, Persons, made')
      /\ StaysDeleted(mem.persons, mem'.persons)
  BY <1>1, <1>2, <1>3, <1>4, <1>5, <1>6, SavedRow DEF IInv, RowsInv, MainLives
<1>8. RowsInv'
  BY <1>1, <1>2, <1>4, <1>7, SameRows DEF IInv, RowsInv, MainLives, Twins
<1>9. /\ StaysDeleted(lite.persons, lite'.persons) /\ StaysDeleted(pg.persons, pg'.persons)
      /\ StaysDeleted(lite.families, lite'.families) /\ StaysDeleted(pg.families, pg'.families)
  BY <1>4, <1>7 DEF IInv, RowsInv, Twins, StaysDeleted
<1>10. NamesInv'
  BY <1>2, <1>4, <1>9, SameNames DEF IInv
<1>11. \A t, d, b : Owned(t, t, d, b)
  BY DEF Owned
<1>12. SqlEdit(lite, lite', l) /\ SqlEdit(pg, pg', l)
  BY <1>3, <1>4, <1>9, <1>11, EditIsSqlEdit
<1> QED
  BY <1>3, <1>8, <1>10, <1>12, StillStores DEF IInv, Took

(***************************************************************************)
(* Saving a family.                                                        *)
(***************************************************************************)
LEMMA SaveFamilyTook ==
  ASSUME IInv, NEW l \in Lines, NEW f \in Families, NEW p \in Persons, SaveFamily(l, f, p)
  PROVE  Took(l)
<1>1. Persons \subseteq Ids /\ Families \subseteq Ids
  BY DEF Ids
<1>2. More(made, made') /\ made'[f] # {}
  BY <1>1, CallFacts DEF SaveFamily
<1>3. /\ EditStore(mem, mem', l) /\ EditStore(lite, lite', l) /\ EditStore(pg, pg', l)
      /\ IsTable(mem.families)
  BY MemoryEdits, SqliteEdits, PostgresEdits DEF SaveFamily, IInv, IsStore
<1>4. /\ mem'.families = Put(mem.families, l, Row(f, p))
      /\ lite'.families = Put(lite.families, l, Row(f, p))
      /\ pg'.families = Put(pg.families, l, Row(f, p))
      /\ mem'.persons = mem.persons /\ lite'.persons = lite.persons /\ pg'.persons = pg.persons
      /\ lite'.names = lite.names /\ pg'.names = pg.names
  BY SameWriting DEF SaveFamily, Memory!SaveFamily, Sqlite!SaveFamily, Postgres!SaveFamily, IInv, IsStore
<1>5. ~DeletedOn(mem.families, l, f)
  BY Seen, NewIsNotDeleted DEF SaveFamily, IInv, RowsInv, MainLives
<1>6. p # Gone
  BY GoneIsApart
<1>7. /\ Living(mem'.families, Families)
      /\ KnownRows(mem'.families, Families, made')
      /\ StaysDeleted(mem.families, mem'.families)
  BY <1>1, <1>2, <1>3, <1>4, <1>5, <1>6, SavedRow DEF IInv, RowsInv, MainLives
<1>8. RowsInv'
  BY <1>1, <1>2, <1>4, <1>7, SameRows DEF IInv, RowsInv, MainLives, Twins
<1>9. /\ StaysDeleted(lite.persons, lite'.persons) /\ StaysDeleted(pg.persons, pg'.persons)
      /\ StaysDeleted(lite.families, lite'.families) /\ StaysDeleted(pg.families, pg'.families)
  BY <1>4, <1>7 DEF IInv, RowsInv, Twins, StaysDeleted
<1>10. NamesInv'
  BY <1>2, <1>4, <1>9, SameNames DEF IInv
<1>11. \A t, d, b : Owned(t, t, d, b)
  BY DEF Owned
<1>12. SqlEdit(lite, lite', l) /\ SqlEdit(pg, pg', l)
  BY <1>3, <1>4, <1>9, <1>11, EditIsSqlEdit
<1> QED
  BY <1>3, <1>8, <1>10, <1>12, StillStores DEF IInv, Took

(***************************************************************************)
(* What SQLite does to a family's children on a branch that deletes the    *)
(* family: rows go, but only rows of that family.                          *)
(***************************************************************************)
LEMMA SqliteDropsChildren ==
  ASSUME IsStore(lite), NEW b \in Branches, NEW f
  PROVE  LET w == Sqlite!TombstoneChildrenBranch(lite.kids, b, f)
         IN  /\ Touches(lite.kids, w, b)
             /\ \A g, p : (g # f /\ <<g, p>> \in DOMAIN lite.kids[b]) => <<g, p>> \in DOMAIN w[b]
<1>1. PICK S, t : S = {f} \X Persons /\ t = Drop(lite.kids, b, S)
  OBVIOUS
<1>2. PICK rows : Sqlite!TombstoneChildrenBranch(lite.kids, b, f) = Put(t, b, rows)
  BY <1>1, SameWriting DEF Sqlite!TombstoneChildrenBranch
<1>3. b \in Lines /\ IsTable(lite.kids)
  BY MainLine DEF IsStore
<1>4. Touches(lite.kids, t, b) /\ DOMAIN t[b] = DOMAIN lite.kids[b] \ S
  BY <1>1, <1>3, DropTouches
<1>5. Touches(t, Put(t, b, rows), b) /\ DOMAIN Put(t, b, rows)[b] = DOMAIN rows \union DOMAIN t[b]
  BY <1>3, <1>4, PutTouches DEF Touches
<1> QED
  BY <1>1, <1>2, <1>4, <1>5 DEF Touches

(***************************************************************************)
(* Deleting a family.                                                      *)
(***************************************************************************)
LEMMA DeleteFamilyTook ==
  ASSUME IInv, NEW l \in Lines, NEW f \in Families, DeleteFamily(l, f)
  PROVE  Took(l)
<1>1. Persons \subseteq Ids /\ Families \subseteq Ids
  BY DEF Ids
<1>2. More(made, made')
  BY CallFacts DEF DeleteFamily
<1>3. /\ EditStore(mem, mem', l) /\ EditStore(pg, pg', l)
      /\ IsTable(mem.families)
      /\ l = Main => EditStore(lite, lite', l)
  BY MemoryEdits, SqliteEdits, PostgresEdits DEF DeleteFamily, IInv, IsStore
<1>4. /\ mem'.persons = mem.persons /\ lite'.persons = lite.persons /\ pg'.persons = pg.persons
      /\ lite'.names = lite.names /\ pg'.names = pg.names
  BY DEF DeleteFamily, Memory!DeleteFamily, Sqlite!DeleteFamily, Postgres!DeleteFamily, IInv, IsStore
<1>5. /\ Living(mem'.families, Families)
      /\ KnownRows(mem'.families, Families, made')
      /\ StaysDeleted(mem.families, mem'.families)
      /\ mem'.families = lite'.families /\ mem'.families = pg'.families
      /\ l # Main => DeletedOn(mem'.families, l, f)
  <2>1. CASE l = Main
    <3>1. /\ mem'.families = Drop(mem.families, l, {f})
          /\ lite'.families = Drop(lite.families, l, {f})
          /\ pg'.families = Drop(pg.families, l, {f})
      BY <2>1, SameWriting DEF DeleteFamily, Memory!DeleteFamily, Sqlite!DeleteFamily, Postgres!DeleteFamily,
         IInv, IsStore
    <3> QED
      BY <1>1, <1>2, <1>3, <2>1, <3>1, DroppedRow DEF IInv, RowsInv, MainLives, Twins
  <2>2. CASE l # Main
    <3>1. f \in DOMAIN pg.families[l] \union DOMAIN pg.families[Main]
      BY Seen DEF DeleteFamily, IInv, RowsInv, Twins
    <3>2. Postgres!All({f}, Gone) = Row(f, Gone)
      BY DEF Postgres!All, Row
    <3>3. {f} \intersect Postgres!Keys(pg.families, l) = {f}
      BY <3>1 DEF Postgres!Keys
    <3>4. /\ mem'.families = Put(mem.families, l, Row(f, Gone))
          /\ lite'.families = Put(lite.families, l, Row(f, Gone))
          /\ pg'.families = Put(pg.families, l, Row(f, Gone))
      BY <2>2, <3>2, <3>3, SameWriting DEF DeleteFamily, Memory!DeleteFamily, Sqlite!DeleteFamily,
         Postgres!DeleteFamily, Postgres!Tombstone, IInv, IsStore
    <3>5. made'[f] # {}
      BY <1>1, <1>2, <3>1, MainLine DEF IInv, RowsInv, Twins, KnownRows, More
    <3>6. DeletedOn(mem'.families, l, f)
      BY <1>3, <3>4, PutRow DEF DeletedOn
    <3>7. /\ Living(mem'.families, Families)
          /\ KnownRows(mem'.families, Families, made')
          /\ StaysDeleted(mem.families, mem'.families)
      BY <1>1, <1>2, <1>3, <2>2, <3>4, <3>5, SavedRow DEF IInv, RowsInv, MainLives
    <3> QED
      BY <3>4, <3>6, <3>7 DEF IInv, RowsInv, Twins
  <2> QED
    BY <2>1, <2>2
<1>6. RowsInv'
  BY <1>1, <1>2, <1>4, <1>5, SameRows DEF IInv, RowsInv, MainLives, Twins
<1>7. /\ StaysDeleted(lite.persons, lite'.persons) /\ StaysDeleted(pg.persons, pg'.persons)
      /\ StaysDeleted(lite.families, lite'.families) /\ StaysDeleted(pg.families, pg'.families)
  BY <1>4, <1>5 DEF IInv, RowsInv, Twins, StaysDeleted
<1>8. NamesInv'
  BY <1>2, <1>4, <1>7, SameNames DEF IInv
<1>9. \A t, d, b : Owned(t, t, d, b)
  BY DEF Owned
<1>10. SqlEdit(pg, pg', l) /\ (l = Main => SqlEdit(lite, lite', l))
  BY <1>3, <1>4, <1>7, <1>9, EditIsSqlEdit
<1>11. ASSUME l # Main PROVE SqlEdit(lite, lite', l)
  <2>1. l \in Branches /\ IsStore(lite)
    BY <1>11 DEF Lines, IInv
  <2>2. /\ lite'.families = Put(lite.families, l, Row(f, Gone))
        /\ lite'.kids = Sqlite!TombstoneChildrenBranch(lite.kids, l, f)
        /\ lite'.exids = Put(lite.exids, l, Row(f, Nothing))
        /\ lite'.edges = lite.edges
        /\ lite' = [persons |-> lite'.persons, names |-> lite'.names, exids |-> lite'.exids,
                    families |-> lite'.families, kids |-> lite'.kids, edges |-> lite'.edges]
    BY <1>11, SameWriting DEF DeleteFamily, Sqlite!DeleteFamily, IInv, IsStore, Sqlite!Nothing, Nothing
  <2>3. /\ Touches(lite.kids, lite'.kids, l)
        /\ \A g, p : (g # f /\ <<g, p>> \in DOMAIN lite.kids[l]) => <<g, p>> \in DOMAIN lite'.kids[l]
    BY <2>1, <2>2, SqliteDropsChildren
  <2>4. /\ Edit(lite.families, lite'.families, l) /\ Edit(lite.exids, lite'.exids, l)
        /\ Edit(lite.persons, lite'.persons, l) /\ Edit(lite.names, lite'.names, l)
        /\ Edit(lite.edges, lite'.edges, l)
    BY <1>4, <2>1, <2>2, Edits DEF IsStore
  <2>5. DeletedOn(lite'.families, l, f)
    BY <1>5, <1>11
  <2>6. Kept(lite, lite', l)
    BY <1>4, <1>7, <1>9, <1>11, <2>1, <2>3, <2>4, <2>5 DEF Kept, Edit, Keeps, StaysDeleted
  <2> QED
    BY <2>2, <2>3, <2>4, <2>6 DEF SqlEdit, Edit
<1> QED
  BY <1>3, <1>6, <1>8, <1>10, <1>11, StillStores DEF IInv, Took

(***************************************************************************)
(* The person a line sees a name with owns the line's row for it, and so   *)
(* does whoever is given a name that is new.                               *)
(***************************************************************************)
LEMMA NameOwner ==
  ASSUME NamesInv, NEW l \in Lines, NEW p, NEW n \in Names, SeesName(l, p, n) \/ New(l, n), l # Main
  PROVE  /\ n \in DOMAIN lite.names[l] => lite.names[l][n].owner = p
         /\ n \in DOMAIN pg.names[l] => \/ DeletedOn(pg.persons, l, pg.names[l][n].owner)
                                        \/ pg.names[l][n].owner = p
<1>1. n \in DOMAIN lite.names[l] => lite.names[l][n].owner = p
  <2>1. CASE SeesName(l, p, n)
    BY <2>1 DEF SeesName, Sqlite!GetPersonName, Sqlite!Keys, Sqlite!Winner
  <2>2. CASE New(l, n)
    BY <2>2 DEF New, NamesInv, KnownNames
  <2> QED
    BY <2>1, <2>2
<1>2. l \in Branches
  BY DEF Lines
<1>3. Follows(lite.names, pg.names, pg.persons, l)
  BY <1>2 DEF NamesInv
<1> QED
  BY <1>1, <1>3 DEF Follows, Owned

(***************************************************************************)
(* Saving a name.                                                          *)
(***************************************************************************)
LEMMA SavePersonNameTook ==
  ASSUME IInv, NEW l \in Lines, NEW p \in Persons, NEW n \in Names, SavePersonName(l, p, n)
  PROVE  Took(l)
<1>1. Persons \subseteq Ids /\ Families \subseteq Ids /\ Names \subseteq Ids
  BY DEF Ids
<1>2. More(made, made') /\ made'[n] # {}
  BY <1>1, CallFacts DEF SavePersonName
<1>3. /\ EditStore(mem, mem', l) /\ EditStore(lite, lite', l) /\ EditStore(pg, pg', l)
      /\ IsTable(lite.names) /\ IsTable(pg.names)
  BY MemoryEdits, SqliteEdits, PostgresEdits DEF SavePersonName, IInv, IsStore
<1>4. PICK row : row = [owner |-> p, value |-> l]
  OBVIOUS
<1>5. /\ mem'.persons = mem.persons /\ lite'.persons = lite.persons /\ pg'.persons = pg.persons
      /\ mem'.families = mem.families /\ lite'.families = lite.families /\ pg'.families = pg.families
      /\ lite'.names = Put(lite.names, l, Row(n, row))
      /\ pg'.names = Put(pg.names, l, Row(n, row))
  BY <1>4, SameWriting DEF SavePersonName, Memory!SavePersonName, Sqlite!SavePersonName, Postgres!SavePersonName,
     IInv, IsStore, Sqlite!NameRow, Postgres!Named
<1>6. RowsInv'
  BY <1>1, <1>2, <1>5, SameRows DEF IInv, RowsInv, MainLives, Twins
<1>7. /\ StaysDeleted(lite.persons, lite'.persons) /\ StaysDeleted(pg.persons, pg'.persons)
      /\ StaysDeleted(lite.families, lite'.families) /\ StaysDeleted(pg.families, pg'.families)
  BY <1>5 DEF StaysDeleted
<1>8. /\ DOMAIN lite'.names[l] = {n} \union DOMAIN lite.names[l]
      /\ lite'.names[l][n] = row
      /\ \A k \in DOMAIN lite.names[l] : k # n => lite'.names[l][k] = lite.names[l][k]
      /\ \A m \in Lines \ {l} : lite'.names[m] = lite.names[m]
  BY <1>3, <1>5, PutRow
<1>9. /\ DOMAIN pg'.names[l] = {n} \union DOMAIN pg.names[l]
      /\ pg'.names[l][n] = row
      /\ \A k \in DOMAIN pg.names[l] : k # n => pg'.names[l][k] = pg.names[l][k]
      /\ \A m \in Lines \ {l} : pg'.names[m] = pg.names[m]
  BY <1>3, <1>5, PutRow
<1>10. row.owner = p /\ row.value # Gone
  BY <1>4, GoneIsApart DEF Lines
<1>11. KnownNames(lite'.names, made') /\ KnownNames(pg'.names, made')
  BY <1>1, <1>2, <1>8, <1>9 DEF IInv, NamesInv, KnownNames, More
<1>12. MainNames(lite'.names, pg'.names)
  <2>1. MainNames(lite.names, pg.names) /\ Main \in Lines
    BY MainLine DEF IInv, NamesInv
  <2>2. CASE l # Main
    BY <1>8, <1>9, <2>1, <2>2 DEF MainNames
  <2>3. CASE l = Main
    <3>1. Put(lite.names, Main, Row(n, row))[Main] = Over(Row(n, row), lite.names[Main])
      BY <1>3, <2>1, PutTouches
    <3>2. Put(pg.names, Main, Row(n, row))[Main] = Over(Row(n, row), pg.names[Main])
      BY <1>3, <2>1, PutTouches
    <3>3. lite'.names[Main] = pg'.names[Main]
      BY <1>5, <2>1, <2>3, <3>1, <3>2 DEF MainNames
    <3> QED
      BY <1>8, <1>10, <2>1, <2>3, <3>3 DEF MainNames
  <2> QED
    BY <2>2, <2>3
<1>13. ASSUME NEW b \in Branches PROVE Follows(lite'.names, pg'.names, pg'.persons, b)
  <2>1. Follows(lite.names, pg.names, pg.persons, b) /\ b \in Lines
    BY MainLine DEF IInv, NamesInv
  <2>2. CASE b # l
    BY <1>5, <1>8, <1>9, <2>1, <2>2 DEF Follows, Owned
  <2>3. CASE b = l
    BY <1>5, <1>8, <1>9, <1>10, <2>1, <2>3 DEF Follows, Owned
  <2> QED
    BY <2>2, <2>3
<1>14. l # Main => /\ Owned(lite.names, lite'.names, lite'.persons, l)
                   /\ Owned(pg.names, pg'.names, pg'.persons, l)
  <2> SUFFICES ASSUME l # Main
               PROVE  /\ Owned(lite.names, lite'.names, lite'.persons, l)
                      /\ Owned(pg.names, pg'.names, pg'.persons, l)
    OBVIOUS
  <2>1. SeesName(l, p, n) \/ New(l, n)
    BY DEF SavePersonName
  <2>2. NamesInv
    BY DEF IInv
  <2>3. n \in DOMAIN lite.names[l] => lite.names[l][n].owner = p
    BY <2>1, <2>2, NameOwner
  <2>4. n \in DOMAIN pg.names[l] => \/ DeletedOn(pg.persons, l, pg.names[l][n].owner)
                                    \/ pg.names[l][n].owner = p
    BY <2>1, <2>2, NameOwner
  <2>5. Owned(lite.names, lite'.names, lite'.persons, l)
    BY <1>8, <1>10, <2>3 DEF Owned
  <2> QED
    BY <1>5, <1>9, <1>10, <2>4, <2>5 DEF Owned
<1>15. SqlEdit(lite, lite', l) /\ SqlEdit(pg, pg', l)
  BY <1>3, <1>7, <1>14, EditIsSqlEdit
<1> QED
  BY <1>3, <1>6, <1>11, <1>12, <1>13, <1>15, StillStores DEF IInv, NamesInv, Took

-----------------------------------------------------------------------------
(* Names deleted.                                                          *)

\* The rows of line l for the names in S, and copies of main's, are tombstones of their owners.
Marked(t, l, S) ==
  Put(t, l, [n \in S |-> [owner |-> IF n \in DOMAIN t[l] THEN t[l][n].owner ELSE t[Main][n].owner,
                          value |-> Gone]])

(***************************************************************************)
(* Both SQL stores mark names so, and a row that is there keeps its owner. *)
(***************************************************************************)
LEMMA Marks ==
  /\ \A t, l, S : Sqlite!Tombstones(t, l, S) = Marked(t, l, S)
  /\ \A t, l, S : Postgres!TombstoneNames(t, l, S) = Marked(t, l, S)
<1>1. \A t, l, S : Sqlite!Tombstones(t, l, S) = Marked(t, l, S)
  BY SameWriting DEF Sqlite!Tombstones, Sqlite!NameGone, Marked
<1>2. \A t, l, S : Postgres!TombstoneNames(t, l, S) = Marked(t, l, S)
  BY SameWriting DEF Postgres!TombstoneNames, Postgres!Named, Marked
<1> QED
  BY <1>1, <1>2

(***************************************************************************)
(* The rows marked as deleted keep their owner; no other row changes.      *)
(***************************************************************************)
LEMMA MarkedRows ==
  ASSUME NEW t, IsTable(t), NEW l \in Lines, NEW S
  PROVE  /\ DOMAIN Marked(t, l, S)[l] = S \union DOMAIN t[l]
         /\ \A k \in DOMAIN t[l] : Marked(t, l, S)[l][k].owner = t[l][k].owner
         /\ \A k \in S : k \notin DOMAIN t[l] => Marked(t, l, S)[l][k].owner = t[Main][k].owner
         /\ \A m \in Lines \ {l} : Marked(t, l, S)[m] = t[m]
         /\ Edit(t, Marked(t, l, S), l)
<1>1. PICK f : f = [n \in S |-> [owner |-> IF n \in DOMAIN t[l] THEN t[l][n].owner ELSE t[Main][n].owner,
                                 value |-> Gone]]
  OBVIOUS
<1>2. /\ DOMAIN f = S
      /\ \A k \in S : f[k].owner = IF k \in DOMAIN t[l] THEN t[l][k].owner ELSE t[Main][k].owner
  BY <1>1
<1>3. PICK w : w = Put(t, l, f)
  OBVIOUS
<1>4. /\ DOMAIN w[l] = DOMAIN f \union DOMAIN t[l]
      /\ \A k \in DOMAIN f : w[l][k] = f[k]
      /\ \A k \in DOMAIN t[l] : k \notin DOMAIN f => w[l][k] = t[l][k]
      /\ \A m \in Lines \ {l} : w[m] = t[m]
  BY <1>3, PutRows
<1>5. Edit(t, w, l)
  BY <1>3, Edits
<1>6. Marked(t, l, S) = w
  BY <1>1, <1>3 DEF Marked
<1> QED
  BY <1>2, <1>4, <1>5, <1>6

(***************************************************************************)
(* The same names removed from main in both stores.                        *)
(***************************************************************************)
LEMMA DroppedNames ==
  ASSUME NamesInv, IsTable(lite.names), IsTable(pg.names), NEW S,
         lite'.names = Drop(lite.names, Main, S), pg'.names = Drop(pg.names, Main, S),
         More(made, made'), StaysDeleted(pg.persons, pg'.persons)
  PROVE  NamesInv'
<1>1. /\ DOMAIN lite'.names[Main] = DOMAIN lite.names[Main] \ S
      /\ \A k \in DOMAIN lite.names[Main] \ S : lite'.names[Main][k] = lite.names[Main][k]
      /\ \A m \in Lines \ {Main} : lite'.names[m] = lite.names[m]
  BY DropRows, MainLine
<1>2. /\ DOMAIN pg'.names[Main] = DOMAIN pg.names[Main] \ S
      /\ \A k \in DOMAIN pg.names[Main] \ S : pg'.names[Main][k] = pg.names[Main][k]
      /\ \A m \in Lines \ {Main} : pg'.names[m] = pg.names[m]
  BY DropRows, MainLine
<1>3. KnownNames(lite'.names, made') /\ KnownNames(pg'.names, made')
  BY <1>1, <1>2 DEF NamesInv, KnownNames, More, Ids
<1>4. MainNames(lite'.names, pg'.names)
  <2>1. lite'.names[Main] = Restrict(lite.names[Main], DOMAIN lite.names[Main] \ S)
    BY MainLine DEF Drop, IsTable
  <2>2. pg'.names[Main] = Restrict(pg.names[Main], DOMAIN pg.names[Main] \ S)
    BY MainLine DEF Drop, IsTable
  <2> QED
    BY <1>1, <2>1, <2>2 DEF NamesInv, MainNames
<1>5. ASSUME NEW b \in Branches PROVE Follows(lite'.names, pg'.names, pg'.persons, b)
  BY <1>1, <1>2, MainLine DEF NamesInv, Follows, Owned, StaysDeleted
<1> QED
  BY <1>3, <1>4, <1>5 DEF NamesInv

(***************************************************************************)
(* Names marked on a branch leave main's names and other branches alone.   *)
(***************************************************************************)
LEMMA BranchNames ==
  ASSUME NamesInv, NEW l \in Branches,
         \A m \in Lines \ {l} : lite'.names[m] = lite.names[m] /\ pg'.names[m] = pg.names[m],
         \A k \in DOMAIN lite'.names[l] : k \in DOMAIN lite.names[l] \union DOMAIN lite.names[Main],
         \A k \in DOMAIN pg'.names[l] : k \in DOMAIN pg.names[l] \union DOMAIN pg.names[Main],
         More(made, made'), StaysDeleted(pg.persons, pg'.persons),
         Follows(lite'.names, pg'.names, pg'.persons, l)
  PROVE  NamesInv'
<1>1. l \in Lines \ {Main} /\ Main \in Lines \ {l}
  BY MainLine
<1>2. KnownNames(lite'.names, made')
  BY <1>1 DEF NamesInv, KnownNames, More, Ids
<1>3. KnownNames(pg'.names, made')
  BY <1>1 DEF NamesInv, KnownNames, More, Ids
<1>4. MainNames(lite'.names, pg'.names)
  BY <1>1 DEF NamesInv, MainNames
<1>5. ASSUME NEW b \in Branches \ {l} PROVE Follows(lite'.names, pg'.names, pg'.persons, b)
  BY MainLine DEF NamesInv, Follows, Owned, StaysDeleted
<1> QED
  BY <1>2, <1>3, <1>4, <1>5 DEF NamesInv

(***************************************************************************)
(* Deleting a name.                                                        *)
(***************************************************************************)
LEMMA DeletePersonNameTook ==
  ASSUME IInv, NEW l \in Lines, NEW n \in Names, DeletePersonName(l, n)
  PROVE  Took(l)
<1>1. Persons \subseteq Ids /\ Families \subseteq Ids
  BY DEF Ids
<1>2. More(made, made')
  BY CallFacts DEF DeletePersonName
<1>3. /\ EditStore(mem, mem', l) /\ EditStore(lite, lite', l) /\ EditStore(pg, pg', l)
      /\ IsTable(lite.names) /\ IsTable(pg.names)
  BY MemoryEdits, SqliteEdits, PostgresEdits DEF DeletePersonName, IInv, IsStore
<1>4. /\ mem'.persons = mem.persons /\ lite'.persons = lite.persons /\ pg'.persons = pg.persons
      /\ mem'.families = mem.families /\ lite'.families = lite.families /\ pg'.families = pg.families
  BY DEF DeletePersonName, Memory!DeletePersonName, Sqlite!DeletePersonName, Postgres!DeletePersonName,
     IInv, IsStore
<1>5. RowsInv'
  BY <1>1, <1>2, <1>4, SameRows DEF IInv, RowsInv, MainLives, Twins
<1>6. /\ StaysDeleted(lite.persons, lite'.persons) /\ StaysDeleted(pg.persons, pg'.persons)
      /\ StaysDeleted(lite.families, lite'.families) /\ StaysDeleted(pg.families, pg'.families)
  BY <1>4 DEF StaysDeleted
<1>7. CASE l = Main
  <2>1. lite'.names = Drop(lite.names, Main, {n}) /\ pg'.names = Drop(pg.names, Main, {n})
    BY <1>7, SameWriting DEF DeletePersonName, Sqlite!DeletePersonName, Postgres!DeletePersonName, IInv, IsStore
  <2>2. NamesInv'
    BY <1>2, <1>3, <1>6, <2>1, DroppedNames DEF IInv
  <2>3. SqlEdit(lite, lite', l) /\ SqlEdit(pg, pg', l)
    BY <1>3, <1>6, <1>7, EditIsSqlEdit
  <2> QED
    BY <1>3, <1>5, <2>2, <2>3, StillStores DEF IInv, Took
<1>8. CASE l # Main
  <2>1. l \in Branches /\ NamesInv
    BY <1>8 DEF Lines, IInv
  <2>2. PICK S, T : /\ S = {n} \intersect (DOMAIN lite.names[l] \union DOMAIN lite.names[Main])
                    /\ T = {n} \intersect (DOMAIN pg.names[l] \union DOMAIN pg.names[Main])
    OBVIOUS
  <2>3. lite'.names = Marked(lite.names, l, S) /\ pg'.names = Marked(pg.names, l, T)
    BY <1>8, <2>2, Marks DEF DeletePersonName, Sqlite!DeletePersonName, Postgres!DeletePersonName, IInv, IsStore,
       Sqlite!Keys, Postgres!Keys
  <2>4. /\ DOMAIN lite'.names[l] = S \union DOMAIN lite.names[l]
        /\ \A k \in DOMAIN lite.names[l] : lite'.names[l][k].owner = lite.names[l][k].owner
        /\ \A k \in S : k \notin DOMAIN lite.names[l] => lite'.names[l][k].owner = lite.names[Main][k].owner
        /\ \A m \in Lines \ {l} : lite'.names[m] = lite.names[m]
    BY <1>3, <2>3, MarkedRows
  <2>5. /\ DOMAIN pg'.names[l] = T \union DOMAIN pg.names[l]
        /\ \A k \in DOMAIN pg.names[l] : pg'.names[l][k].owner = pg.names[l][k].owner
        /\ \A k \in T : k \notin DOMAIN pg.names[l] => pg'.names[l][k].owner = pg.names[Main][k].owner
        /\ \A m \in Lines \ {l} : pg'.names[m] = pg.names[m]
    BY <1>3, <2>3, MarkedRows
  <2>6. Follows(lite.names, pg.names, pg.persons, l) /\ lite.names[Main] = pg.names[Main]
    BY <2>1 DEF NamesInv, MainNames
  <2>7. Follows(lite'.names, pg'.names, pg'.persons, l)
    <3>1. DOMAIN lite'.names[l] \subseteq DOMAIN pg'.names[l]
      BY <2>2, <2>4, <2>5, <2>6 DEF Follows
    <3>2. ASSUME NEW k \in DOMAIN pg.names[l]
          PROVE  \/ DeletedOn(pg'.persons, l, pg'.names[l][k].owner)
                 \/ k \in DOMAIN lite'.names[l] /\ lite'.names[l][k].owner = pg'.names[l][k].owner
      BY <1>4, <2>4, <2>5, <2>6 DEF Follows, Owned
    <3>3. ASSUME NEW k \in T, k \notin DOMAIN pg.names[l]
          PROVE  k \in DOMAIN lite'.names[l] /\ lite'.names[l][k].owner = pg'.names[l][k].owner
      BY <2>2, <2>4, <2>5, <2>6, <3>3 DEF Follows
    <3> QED
      BY <2>5, <3>1, <3>2, <3>3 DEF Follows, Owned
  <2>8. NamesInv'
    <3>1. /\ \A m \in Lines \ {l} : lite'.names[m] = lite.names[m] /\ pg'.names[m] = pg.names[m]
          /\ \A k \in DOMAIN lite'.names[l] : k \in DOMAIN lite.names[l] \union DOMAIN lite.names[Main]
          /\ \A k \in DOMAIN pg'.names[l] : k \in DOMAIN pg.names[l] \union DOMAIN pg.names[Main]
      BY <2>2, <2>4, <2>5
    <3> QED
      BY <1>2, <1>6, <2>1, <2>7, <3>1, BranchNames
  <2>9. Owned(lite.names, lite'.names, lite'.persons, l) /\ Owned(pg.names, pg'.names, pg'.persons, l)
    BY <2>4, <2>5 DEF Owned
  <2>10. SqlEdit(lite, lite', l) /\ SqlEdit(pg, pg', l)
    BY <1>3, <1>6, <2>9, EditIsSqlEdit
  <2> QED
    BY <1>3, <1>5, <2>8, <2>10, StillStores DEF IInv, Took
<1> QED
  BY <1>7, <1>8

-----------------------------------------------------------------------------
(* Persons deleted.                                                        *)

(***************************************************************************)
(* PostgreSQL resolves, for a line, the names of a person: rows of the     *)
(* line or of main with that owner, and every row of main with that owner  *)
(* that the line has no row of its own for.                                *)
(***************************************************************************)
LEMMA NamesResolved ==
  ASSUME NEW l \in Lines, NEW p, MainNames(lite.names, pg.names)
  PROVE  /\ \A k \in DOMAIN Postgres!GetPersonNames(l, p) :
               k \in DOMAIN pg.names[l] \/ (k \in DOMAIN pg.names[Main] /\ pg.names[Main][k].owner = p)
         /\ \A k \in DOMAIN pg.names[Main] :
               (pg.names[Main][k].owner = p /\ k \notin DOMAIN pg.names[l])
                 => k \in DOMAIN Postgres!GetPersonNames(l, p)
<1> DEFINE Of(k) == {n \in DOMAIN pg.names[k] : pg.names[k][n].owner = p}
<1>1. PICK rows : rows = Postgres!NamesOf(l, p)
  OBVIOUS
<1>2. PICK t : t = [m \in Lines |-> Postgres!Restrict(pg.names[m], Of(m))]
  OBVIOUS
<1>3. \A k \in {l, Main} : DOMAIN t[k] = Of(k) /\ \A n \in Of(k) : t[k][n] = pg.names[k][n]
  BY <1>2, MainLine DEF Postgres!Restrict
<1>4. rows = Postgres!Distinct(t, l)
  BY <1>1, <1>2 DEF Postgres!NamesOf, Postgres!Lines, Lines
<1>5. /\ DOMAIN rows = Of(l) \union Of(Main)
      /\ \A k \in DOMAIN rows : rows[k] = IF k \in Of(l) THEN pg.names[l][k] ELSE pg.names[Main][k]
  BY <1>3, <1>4 DEF Postgres!Distinct, Postgres!Keys, Postgres!Winner
<1>6. DOMAIN Postgres!GetPersonNames(l, p) = {n \in DOMAIN rows : rows[n].value # Gone}
  BY <1>1 DEF Postgres!GetPersonNames
<1>7. \A k \in DOMAIN pg.names[Main] : pg.names[Main][k].value # Gone
  BY DEF MainNames
<1> QED
  BY <1>5, <1>6, <1>7

(***************************************************************************)
(* Deleting a person on a branch does to the names of the two SQL stores   *)
(* what keeps the one following the other.                                 *)
(***************************************************************************)
LEMMA PersonsNames ==
  ASSUME IInv, NEW l \in Branches, NEW p, NEW own, NEW main, NEW seen,
         own = {n \in DOMAIN lite.names[l] : lite.names[l][n].owner = p},
         main = {n \in DOMAIN lite.names[Main] : lite.names[Main][n].owner = p},
         seen = DOMAIN Postgres!GetPersonNames(l, p),
         lite'.names = Marked(Drop(lite.names, l, own), l, main),
         pg'.names = Marked(pg.names, l, seen),
         More(made, made'), StaysDeleted(pg.persons, pg'.persons),
         DeletedOn(pg'.persons, l, p), DeletedOn(lite'.persons, l, p)
  PROVE  /\ NamesInv'
         /\ Touches(lite.names, lite'.names, l)
         /\ Owned(lite.names, lite'.names, lite'.persons, l)
         /\ Owned(pg.names, pg'.names, pg'.persons, l)
<1>1. IsTable(lite.names) /\ IsTable(pg.names) /\ NamesInv /\ l \in Lines /\ Main \in Lines \ {l}
  BY MainLine DEF IInv, IsStore
<1>2. PICK t : t = Drop(lite.names, l, own)
  OBVIOUS
<1>3. /\ DOMAIN t[l] = DOMAIN lite.names[l] \ own
      /\ \A k \in DOMAIN lite.names[l] \ own : t[l][k] = lite.names[l][k]
      /\ \A m \in Lines \ {l} : t[m] = lite.names[m]
      /\ IsTable(t)
  BY <1>1, <1>2, DropRows, DropTouches DEF Touches
<1>4. /\ DOMAIN lite'.names[l] = main \union DOMAIN t[l]
      /\ \A k \in DOMAIN t[l] : lite'.names[l][k].owner = t[l][k].owner
      /\ \A m \in Lines \ {l} : lite'.names[m] = t[m]
      /\ Edit(t, lite'.names, l)
  <2>1. PICK w : w = Marked(t, l, main)
    OBVIOUS
  <2>2. IsTable(t) /\ l \in Lines
    BY <1>1, <1>3
  <2>3. /\ DOMAIN w[l] = main \union DOMAIN t[l]
        /\ \A k \in DOMAIN t[l] : w[l][k].owner = t[l][k].owner
        /\ \A m \in Lines \ {l} : w[m] = t[m]
    BY <2>1, <2>2, MarkedRows
  <2>4. Edit(t, w, l)
    BY <2>1, <2>2, MarkedRows
  <2>5. lite'.names = w
    BY <1>2, <2>1
  <2> QED
    BY <2>3, <2>4, <2>5
<1>5. /\ DOMAIN pg'.names[l] = seen \union DOMAIN pg.names[l]
      /\ \A k \in DOMAIN pg.names[l] : pg'.names[l][k].owner = pg.names[l][k].owner
      /\ \A k \in seen : k \notin DOMAIN pg.names[l] => pg'.names[l][k].owner = pg.names[Main][k].owner
      /\ \A m \in Lines \ {l} : pg'.names[m] = pg.names[m]
  BY <1>1, MarkedRows
<1>6. /\ Follows(lite.names, pg.names, pg.persons, l)
      /\ lite.names[Main] = pg.names[Main]
      /\ MainNames(lite.names, pg.names)
  BY <1>1 DEF NamesInv, MainNames
<1>7. /\ \A k \in seen : k \in DOMAIN pg.names[l] \/ (k \in DOMAIN pg.names[Main] /\ pg.names[Main][k].owner = p)
      /\ \A k \in main : k \notin DOMAIN pg.names[l] => k \in seen
  BY <1>1, <1>6, NamesResolved
<1>8. Follows(lite'.names, pg'.names, pg'.persons, l)
  <2>1. DOMAIN lite'.names[l] \subseteq DOMAIN pg'.names[l]
    BY <1>3, <1>4, <1>5, <1>6, <1>7 DEF Follows
  <2>2. ASSUME NEW k \in DOMAIN pg.names[l]
        PROVE  \/ DeletedOn(pg'.persons, l, pg'.names[l][k].owner)
               \/ k \in DOMAIN lite'.names[l] /\ lite'.names[l][k].owner = pg'.names[l][k].owner
    <3>1. CASE DeletedOn(pg.persons, l, pg.names[l][k].owner)
      BY <1>5, <3>1 DEF StaysDeleted
    <3>2. CASE k \in DOMAIN lite.names[l] /\ lite.names[l][k].owner = pg.names[l][k].owner
      <4>1. CASE k \in own
        BY <1>5, <3>2, <4>1
      <4>2. CASE k \notin own
        BY <1>3, <1>4, <1>5, <3>2, <4>2
      <4> QED
        BY <4>1, <4>2
    <3> QED
      BY <1>6, <3>1, <3>2 DEF Follows, Owned
  <2>3. ASSUME NEW k \in seen, k \notin DOMAIN pg.names[l]
        PROVE  DeletedOn(pg'.persons, l, pg'.names[l][k].owner)
    BY <1>5, <1>7, <2>3
  <2> QED
    BY <1>5, <2>1, <2>2, <2>3 DEF Follows, Owned
<1>9. NamesInv'
  <2>1. /\ \A m \in Lines \ {l} : lite'.names[m] = lite.names[m] /\ pg'.names[m] = pg.names[m]
        /\ \A k \in DOMAIN lite'.names[l] : k \in DOMAIN lite.names[l] \union DOMAIN lite.names[Main]
        /\ \A k \in DOMAIN pg'.names[l] : k \in DOMAIN pg.names[l] \union DOMAIN pg.names[Main]
    BY <1>3, <1>4, <1>5, <1>7
  <2> QED
    BY <1>1, <1>8, <2>1, BranchNames
<1>10. Touches(lite.names, lite'.names, l)
  BY <1>3, <1>4 DEF Touches, Edit
<1>11. Owned(lite.names, lite'.names, lite'.persons, l)
  <2>1. ASSUME NEW k \in DOMAIN lite.names[l]
        PROVE  \/ DeletedOn(lite'.persons, l, lite.names[l][k].owner)
               \/ k \in DOMAIN lite'.names[l] /\ lite'.names[l][k].owner = lite.names[l][k].owner
    <3>1. CASE k \in own
      BY <3>1
    <3>2. CASE k \notin own
      BY <1>3, <1>4, <3>2
    <3> QED
      BY <3>1, <3>2
  <2> QED
    BY <2>1 DEF Owned
<1>12. Owned(pg.names, pg'.names, pg'.persons, l)
  BY <1>5 DEF Owned
<1> QED
  BY <1>9, <1>10, <1>11, <1>12

(***************************************************************************)
(* Deleting a person.                                                      *)
(***************************************************************************)
LEMMA DeletePersonTook ==
  ASSUME IInv, NEW l \in Lines, NEW p \in Persons, DeletePerson(l, p)
  PROVE  Took(l)
<1>1. Persons \subseteq Ids /\ Families \subseteq Ids
  BY DEF Ids
<1>2. More(made, made')
  BY CallFacts DEF DeletePerson
<1>3. /\ EditStore(mem, mem', l) /\ EditStore(pg, pg', l)
      /\ IsTable(mem.persons) /\ IsTable(lite.names) /\ IsTable(pg.names)
  BY MemoryEdits, PostgresEdits DEF DeletePerson, IInv, IsStore
<1>4. mem'.families = mem.families /\ lite'.families = lite.families /\ pg'.families = pg.families
  BY DEF DeletePerson, Memory!DeletePerson, Sqlite!DeletePerson, Sqlite!DeletePersonMain,
     Sqlite!TombstonePersonBranch, Postgres!DeletePerson, Postgres!Cascade, IInv, IsStore
<1>5. CASE l = Main
  <2>1. Sqlite!DeletePersonMain(p) /\ IsStore(lite)
    BY <1>5 DEF DeletePerson, Sqlite!DeletePerson, IInv
  <2>2. EditStore(lite, lite', l)
    BY <1>5, <2>1, SqliteEdits, MainLine
  <2>3. PICK S : S = {n \in DOMAIN lite.names[Main] : lite.names[Main][n].owner = p}
    OBVIOUS
  <2>4. lite'.names = Drop(lite.names, Main, S)
    BY <2>1, <2>3, SqliteCascade
  <2>5. pg'.names = Drop(pg.names, Main, S)
    <3>1. lite.names[Main] = pg.names[Main]
      BY DEF IInv, NamesInv, MainNames
    <3> QED
      BY <1>5, <2>3, <3>1, SameWriting DEF DeletePerson, Postgres!DeletePerson, Postgres!Cascade
  <2>6. /\ mem'.persons = Drop(mem.persons, Main, {p})
        /\ pg'.persons = Drop(pg.persons, Main, {p})
    BY <1>5, SameWriting DEF DeletePerson, Memory!DeletePerson, Postgres!DeletePerson, Postgres!Cascade,
       IInv, IsStore
  <2>7. lite'.persons = Drop(lite.persons, Main, {p})
    BY <2>1, SameWriting DEF Sqlite!DeletePersonMain, IsStore
  <2>8. /\ Living(mem'.persons, Persons)
        /\ KnownRows(mem'.persons, Persons, made')
        /\ StaysDeleted(mem.persons, mem'.persons)
    BY <1>1, <1>2, <1>3, <2>6, DroppedRow DEF IInv, RowsInv, MainLives
  <2>9. RowsInv'
    BY <1>1, <1>2, <1>4, <2>6, <2>7, <2>8, SameRows DEF IInv, RowsInv, MainLives, Twins
  <2>10. /\ StaysDeleted(lite.persons, lite'.persons) /\ StaysDeleted(pg.persons, pg'.persons)
         /\ StaysDeleted(lite.families, lite'.families) /\ StaysDeleted(pg.families, pg'.families)
    BY <1>4, <2>6, <2>7, <2>8 DEF IInv, RowsInv, Twins, StaysDeleted
  <2>11. NamesInv'
    BY <1>2, <1>3, <2>4, <2>5, <2>10, DroppedNames DEF IInv
  <2>12. SqlEdit(lite, lite', l) /\ SqlEdit(pg, pg', l)
    BY <1>3, <1>5, <2>2, <2>10, EditIsSqlEdit
  <2> QED
    BY <1>3, <2>9, <2>11, <2>12, StillStores DEF IInv, Took
<1>6. CASE l # Main
  <2>1. l \in Branches /\ IsStore(lite) /\ IsStore(pg) /\ IsStore(mem)
    BY <1>6 DEF Lines, IInv
  <2>2. Sqlite!TombstonePersonBranch(l, p)
    BY <1>6 DEF DeletePerson, Sqlite!DeletePerson
  <2>3. p \in DOMAIN mem.persons[l] \union DOMAIN mem.persons[Main]
    BY Seen DEF DeletePerson
  <2>4. mem'.persons = Put(mem.persons, l, Row(p, Gone))
    BY <1>6, <2>1, SameWriting DEF DeletePerson, Memory!DeletePerson, IsStore
  <2>5. pg'.persons = Put(pg.persons, l, Row(p, Gone))
    <3>1. Postgres!All({p}, Gone) = Row(p, Gone)
      BY DEF Postgres!All, Row
    <3>2. {p} \intersect Postgres!Keys(pg.persons, l) = {p}
      BY <2>3 DEF Postgres!Keys, IInv, RowsInv, Twins
    <3> QED
      BY <1>6, <2>1, <3>1, <3>2, SameWriting DEF DeletePerson, Postgres!DeletePerson, Postgres!Tombstone, IsStore
  <2>6. /\ lite'.persons = Put(lite.persons, l, Row(p, Gone))
        /\ lite'.exids = Put(lite.exids, l, Row(p, Nothing))
        /\ lite'.edges = Put(lite.edges, l, Row(p, Gone))
        /\ lite'.kids = lite.kids
        /\ lite' = [persons |-> lite'.persons, names |-> lite'.names, exids |-> lite'.exids,
                    families |-> lite'.families, kids |-> lite'.kids, edges |-> lite'.edges]
    BY <2>1, <2>2, SameWriting DEF Sqlite!TombstonePersonBranch, IsStore, Sqlite!Nothing, Nothing
  <2>7. PICK own, main, seen :
          /\ own = {n \in DOMAIN lite.names[l] : lite.names[l][n].owner = p}
          /\ main = {n \in DOMAIN lite.names[Main] : lite.names[Main][n].owner = p}
          /\ seen = DOMAIN Postgres!GetPersonNames(l, p)
    OBVIOUS
  <2>8. lite'.names = Marked(Drop(lite.names, l, own), l, main)
    BY <2>1, <2>2, <2>7, SameWriting, Marks DEF Sqlite!TombstonePersonBranch, Sqlite!TombstoneNamesBranch, IsStore
  <2>9. pg'.names = Marked(pg.names, l, seen)
    BY <1>6, <2>1, <2>7, Marks DEF DeletePerson, Postgres!DeletePerson, IsStore
  <2>10. made'[p] # {}
    BY <1>1, <1>2, <2>1, <2>3, MainLine DEF IInv, RowsInv, KnownRows, More
  <2>11. /\ Living(mem'.persons, Persons)
         /\ KnownRows(mem'.persons, Persons, made')
         /\ StaysDeleted(mem.persons, mem'.persons)
    BY <1>1, <1>2, <1>3, <1>6, <2>4, <2>10, SavedRow DEF IInv, RowsInv, MainLives
  <2>12. DeletedOn(mem'.persons, l, p)
    BY <1>3, <2>4, PutRow DEF DeletedOn
  <2>13. mem'.persons = lite'.persons /\ mem'.persons = pg'.persons
    BY <2>4, <2>5, <2>6 DEF IInv, RowsInv, Twins
  <2>14. RowsInv'
    BY <1>1, <1>2, <1>4, <2>11, <2>13, SameRows DEF IInv, RowsInv, MainLives, Twins
  <2>15. /\ StaysDeleted(lite.persons, lite'.persons) /\ StaysDeleted(pg.persons, pg'.persons)
         /\ StaysDeleted(lite.families, lite'.families) /\ StaysDeleted(pg.families, pg'.families)
    BY <1>4, <2>11, <2>13 DEF IInv, RowsInv, Twins, StaysDeleted
  <2>16. DeletedOn(pg'.persons, l, p) /\ DeletedOn(lite'.persons, l, p)
    BY <2>12, <2>13
  <2>17. /\ NamesInv'
         /\ Touches(lite.names, lite'.names, l)
         /\ Owned(lite.names, lite'.names, lite'.persons, l)
         /\ Owned(pg.names, pg'.names, pg'.persons, l)
    BY <1>2, <2>1, <2>7, <2>8, <2>9, <2>15, <2>16, PersonsNames
  <2>18. SqlEdit(pg, pg', l)
    BY <1>3, <2>15, <2>17, EditIsSqlEdit
  <2>19. SqlEdit(lite, lite', l)
    <3>1. /\ Edit(lite.persons, lite'.persons, l) /\ Edit(lite.exids, lite'.exids, l)
          /\ Edit(lite.families, lite'.families, l) /\ Edit(lite.kids, lite'.kids, l)
          /\ Edit(lite.edges, lite'.edges, l)
      BY <1>4, <2>1, <2>6, Edits DEF IsStore
    <3>2. Kept(lite, lite', l)
      BY <1>6, <2>1, <2>6, <2>15, <2>17, <3>1 DEF Kept, Edit, Keeps, StaysDeleted
    <3> QED
      BY <2>6, <2>17, <3>1, <3>2 DEF SqlEdit, Edit
  <2> QED
    BY <1>3, <2>14, <2>17, <2>18, <2>19, StillStores DEF IInv, Took
<1> QED
  BY <1>5, <1>6

-----------------------------------------------------------------------------
(* Persons merged, branches purged.                                        *)

\* The names of a person on main, and what they say.
MainNamesOf(s, p) ==
  [n \in {k \in DOMAIN s[Main] : s[Main][k].owner = p /\ s[Main][k].value # Gone} |-> s[Main][n].value]

(***************************************************************************)
(* Both SQL stores read them so.                                           *)
(***************************************************************************)
LEMMA ReadsMainNames ==
  ASSUME IsStore(lite), NEW p
  PROVE  /\ Sqlite!GetPersonNames(Main, p) = MainNamesOf(lite.names, p)
         /\ Postgres!GetPersonNames(Main, p) = MainNamesOf(pg.names, p)
<1>1. Sqlite!GetPersonNames(Main, p) = MainNamesOf(lite.names, p)
  <2> DEFINE D == {n \in DOMAIN lite.names[Main] : lite.names[Main][n].owner = p}
  <2>1. PICK rows : rows = Sqlite!OwnedBy(Main, p)
    OBVIOUS
  <2>2. DOMAIN rows[Main] = D /\ \A n \in D : rows[Main][n] = lite.names[Main][n]
    BY <2>1, MainLine DEF Sqlite!OwnedBy, IsStore, IsTable, Sqlite!Restrict
  <2>3. \A n : Sqlite!Winner(rows, Main, n) = IF n \in D THEN lite.names[Main][n] ELSE Gone
    BY <2>2 DEF Sqlite!Winner
  <2>4. Sqlite!Keys(rows, Main) = D
    BY <2>2 DEF Sqlite!Keys
  <2>5. Sqlite!GetPersonNames(Main, p) =
          [n \in {k \in D : lite.names[Main][k].value # Gone} |-> lite.names[Main][n].value]
    BY <2>1, <2>3, <2>4 DEF Sqlite!GetPersonNames
  <2> QED
    BY <2>5 DEF MainNamesOf
<1>2. Postgres!GetPersonNames(Main, p) = MainNamesOf(pg.names, p)
  <2> DEFINE Of(k) == {n \in DOMAIN pg.names[k] : pg.names[k][n].owner = p}
  <2>1. PICK rows : rows = Postgres!NamesOf(Main, p)
    OBVIOUS
  <2>2. PICK t : t = [m \in Lines |-> Postgres!Restrict(pg.names[m], Of(m))]
    OBVIOUS
  <2>3. DOMAIN t[Main] = Of(Main) /\ \A n \in Of(Main) : t[Main][n] = pg.names[Main][n]
    BY <2>2, MainLine DEF Postgres!Restrict
  <2>4. rows = Postgres!Distinct(t, Main)
    BY <2>1, <2>2 DEF Postgres!NamesOf, Postgres!Lines, Lines
  <2>5. DOMAIN rows = Of(Main) /\ \A n \in Of(Main) : rows[n] = pg.names[Main][n]
    BY <2>3, <2>4 DEF Postgres!Distinct, Postgres!Keys, Postgres!Winner
  <2>6. Postgres!GetPersonNames(Main, p) =
          [n \in {k \in Of(Main) : pg.names[Main][k].value # Gone} |-> pg.names[Main][n].value]
    BY <2>1, <2>5 DEF Postgres!GetPersonNames
  <2> QED
    BY <2>6 DEF MainNamesOf
<1> QED
  BY <1>1, <1>2

(***************************************************************************)
(* The same rows written to main's names in both stores.                   *)
(***************************************************************************)
LEMMA MovedNames ==
  ASSUME NamesInv, IsTable(lite.names), IsTable(pg.names), NEW f,
         DOMAIN f \subseteq DOMAIN lite.names[Main], \A k \in DOMAIN f : f[k].value # Gone,
         lite'.names = Put(lite.names, Main, f), pg'.names = Put(pg.names, Main, f),
         More(made, made'), StaysDeleted(pg.persons, pg'.persons)
  PROVE  NamesInv'
<1>1. /\ DOMAIN lite'.names[Main] = DOMAIN f \union DOMAIN lite.names[Main]
      /\ \A k \in DOMAIN f : lite'.names[Main][k] = f[k]
      /\ \A k \in DOMAIN lite.names[Main] : k \notin DOMAIN f => lite'.names[Main][k] = lite.names[Main][k]
      /\ \A m \in Lines \ {Main} : lite'.names[m] = lite.names[m]
  BY PutRows, MainLine
<1>2. /\ DOMAIN pg'.names[Main] = DOMAIN f \union DOMAIN pg.names[Main]
      /\ \A m \in Lines \ {Main} : pg'.names[m] = pg.names[m]
  BY PutRows, MainLine
<1>3. lite.names[Main] = pg.names[Main]
  BY DEF NamesInv, MainNames
<1>4. KnownNames(lite'.names, made') /\ KnownNames(pg'.names, made')
  BY <1>1, <1>2, <1>3 DEF NamesInv, KnownNames, More, Ids
<1>5. MainNames(lite'.names, pg'.names)
  <2>1. lite'.names[Main] = Over(f, lite.names[Main])
    BY PutTouches, MainLine
  <2>2. pg'.names[Main] = Over(f, pg.names[Main])
    BY PutTouches, MainLine
  <2> QED
    BY <1>1, <1>3, <2>1, <2>2 DEF NamesInv, MainNames
<1>6. ASSUME NEW b \in Branches PROVE Follows(lite'.names, pg'.names, pg'.persons, b)
  BY <1>1, <1>2, MainLine DEF NamesInv, Follows, Owned, StaysDeleted
<1> QED
  BY <1>4, <1>5, <1>6 DEF NamesInv

(***************************************************************************)
(* Merging two persons.                                                    *)
(***************************************************************************)
LEMMA MergePersonsTook ==
  ASSUME IInv, NEW survivor \in Persons, NEW merged \in Persons, MergePersons(survivor, merged)
  PROVE  Took(Main)
<1>1. Persons \subseteq Ids /\ Families \subseteq Ids
  BY DEF Ids
<1>2. More(made, made')
  BY CallFacts DEF MergePersons
<1>3. /\ EditStore(mem, mem', Main) /\ EditStore(lite, lite', Main) /\ EditStore(pg, pg', Main)
      /\ IsTable(mem.persons) /\ IsTable(lite.names) /\ IsTable(pg.names)
  BY MemoryEdits, SqliteEdits, PostgresEdits, MainLine DEF MergePersons, IInv, IsStore
<1>4. /\ mem'.families = mem.families
      /\ mem'.persons = Drop(mem.persons, Main, {merged})
  BY SameWriting DEF MergePersons, Memory!MoveNames, IInv, IsStore
<1>5. PICK f : f = [n \in DOMAIN MainNamesOf(lite.names, merged) |->
                      [owner |-> survivor, value |-> MainNamesOf(lite.names, merged)[n]]]
  OBVIOUS
<1>6. /\ lite'.families = lite.families
      /\ lite'.persons = Drop(lite.persons, Main, {merged})
      /\ lite'.names = Put(lite.names, Main, f)
  <2>1. Sqlite!GetPersonNames(Main, merged) = MainNamesOf(lite.names, merged)
    BY ReadsMainNames DEF IInv
  <2> QED
    BY <1>5, <2>1, SameWriting DEF MergePersons, Sqlite!MoveNames, Sqlite!NameRow, IInv, IsStore
<1>7. /\ pg'.families = pg.families
      /\ pg'.persons = Drop(pg.persons, Main, {merged})
      /\ pg'.names = Put(pg.names, Main, f)
  <2>1. Postgres!GetPersonNames(Main, merged) = MainNamesOf(pg.names, merged)
    BY ReadsMainNames DEF IInv
  <2>2. MainNamesOf(pg.names, merged) = MainNamesOf(lite.names, merged)
    BY DEF IInv, NamesInv, MainNames, MainNamesOf
  <2> QED
    BY <1>5, <2>1, <2>2, SameWriting DEF MergePersons, Postgres!MoveNames, Postgres!Cascade, Postgres!Named,
       IInv, IsStore
<1>8. /\ Living(mem'.persons, Persons)
      /\ KnownRows(mem'.persons, Persons, made')
      /\ StaysDeleted(mem.persons, mem'.persons)
  BY <1>1, <1>2, <1>3, <1>4, DroppedRow DEF IInv, RowsInv, MainLives
<1>9. RowsInv'
  BY <1>1, <1>2, <1>4, <1>6, <1>7, <1>8, SameRows DEF IInv, RowsInv, MainLives, Twins
<1>10. /\ StaysDeleted(lite.persons, lite'.persons) /\ StaysDeleted(pg.persons, pg'.persons)
       /\ StaysDeleted(lite.families, lite'.families) /\ StaysDeleted(pg.families, pg'.families)
  BY <1>4, <1>6, <1>7, <1>8 DEF IInv, RowsInv, Twins, StaysDeleted
<1>11. DOMAIN f \subseteq DOMAIN lite.names[Main] /\ \A k \in DOMAIN f : f[k].value # Gone
  BY <1>5 DEF MainNamesOf
<1>12. NamesInv'
  BY <1>2, <1>3, <1>6, <1>7, <1>10, <1>11, MovedNames DEF IInv
<1>13. SqlEdit(lite, lite', Main) /\ SqlEdit(pg, pg', Main)
  BY <1>3, <1>10, EditIsSqlEdit, MainLine
<1> QED
  BY <1>3, <1>9, <1>12, <1>13, StillStores DEF IInv, Took

\* The store n is m with nothing left on line b.
Cleared(m, n, b) ==
  /\ IsStore(n) /\ Wrote(m, n, b)
  /\ DOMAIN n.persons[b] = {} /\ DOMAIN n.names[b] = {} /\ DOMAIN n.exids[b] = {}
  /\ DOMAIN n.families[b] = {} /\ DOMAIN n.kids[b] = {} /\ DOMAIN n.edges[b] = {}

(***************************************************************************)
(* Purging a branch clears it in every store.                              *)
(***************************************************************************)
LEMMA EmptiedTable ==
  ASSUME NEW t, IsTable(t), NEW b \in Lines
  PROVE  /\ Touches(t, [t EXCEPT ![b] = Nothing], b)
         /\ DOMAIN [t EXCEPT ![b] = Nothing][b] = {}
<1>1. IsLayer(Nothing) /\ DOMAIN Nothing = {}
  BY DEF IsLayer, Nothing
<1>2. PICK w : w = [t EXCEPT ![b] = Nothing]
  OBVIOUS
<1>3. w[b] = Nothing /\ w = [k \in Lines |-> w[k]] /\ \A k \in Lines \ {b} : w[k] = t[k]
  BY <1>2 DEF IsTable
<1>4. IsTable(w)
  BY <1>1, <1>3 DEF IsTable
<1> QED
  BY <1>1, <1>2, <1>3, <1>4 DEF Touches

(***************************************************************************)
(* PurgeBranch empties the branch's layer of all six tables, in all three  *)
(* stores.                                                                 *)
(***************************************************************************)
LEMMA PurgeClears ==
  ASSUME IInv, NEW b \in Branches, PurgeBranch(b)
  PROVE  Cleared(mem, mem', b) /\ Cleared(lite, lite', b) /\ Cleared(pg, pg', b)
<1>1. b \in Lines
  BY MainLine
<1>2. ASSUME NEW m, NEW n, IsStore(m),
             n = [persons |-> [m.persons EXCEPT ![b] = Nothing], names |-> [m.names EXCEPT ![b] = Nothing],
                  exids |-> [m.exids EXCEPT ![b] = Nothing], families |-> [m.families EXCEPT ![b] = Nothing],
                  kids |-> [m.kids EXCEPT ![b] = Nothing], edges |-> [m.edges EXCEPT ![b] = Nothing]]
      PROVE  Cleared(m, n, b)
  <2>1. \A t \in {m.persons, m.names, m.exids, m.families, m.kids, m.edges} :
          /\ Touches(t, [t EXCEPT ![b] = Nothing], b)
          /\ DOMAIN [t EXCEPT ![b] = Nothing][b] = {}
    BY <1>1, <1>2, EmptiedTable DEF IsStore
  <2>2. /\ n.persons = [m.persons EXCEPT ![b] = Nothing] /\ n.names = [m.names EXCEPT ![b] = Nothing]
        /\ n.exids = [m.exids EXCEPT ![b] = Nothing] /\ n.families = [m.families EXCEPT ![b] = Nothing]
        /\ n.kids = [m.kids EXCEPT ![b] = Nothing] /\ n.edges = [m.edges EXCEPT ![b] = Nothing]
        /\ n = [persons |-> n.persons, names |-> n.names, exids |-> n.exids,
                families |-> n.families, kids |-> n.kids, edges |-> n.edges]
    BY <1>2
  <2> QED
    BY <2>1, <2>2 DEF Cleared, Wrote, IsStore, Touches
<1>3. mem' = [persons |-> [mem.persons EXCEPT ![b] = Nothing], names |-> [mem.names EXCEPT ![b] = Nothing],
              exids |-> [mem.exids EXCEPT ![b] = Nothing], families |-> [mem.families EXCEPT ![b] = Nothing],
              kids |-> [mem.kids EXCEPT ![b] = Nothing], edges |-> [mem.edges EXCEPT ![b] = Nothing]]
  BY DEF PurgeBranch, Memory!PurgeBranch, IInv, IsStore, Memory!Nothing, Nothing
<1>4. lite' = [persons |-> [lite.persons EXCEPT ![b] = Nothing], names |-> [lite.names EXCEPT ![b] = Nothing],
               exids |-> [lite.exids EXCEPT ![b] = Nothing], families |-> [lite.families EXCEPT ![b] = Nothing],
               kids |-> [lite.kids EXCEPT ![b] = Nothing], edges |-> [lite.edges EXCEPT ![b] = Nothing]]
  BY DEF PurgeBranch, Sqlite!PurgeBranch, IInv, IsStore, Sqlite!Nothing, Nothing
<1>5. pg' = [persons |-> [pg.persons EXCEPT ![b] = Nothing], names |-> [pg.names EXCEPT ![b] = Nothing],
             exids |-> [pg.exids EXCEPT ![b] = Nothing], families |-> [pg.families EXCEPT ![b] = Nothing],
             kids |-> [pg.kids EXCEPT ![b] = Nothing], edges |-> [pg.edges EXCEPT ![b] = Nothing]]
  BY DEF PurgeBranch, Postgres!PurgeBranch, IInv, IsStore, Postgres!Nothing, Nothing
<1> QED
  BY <1>2, <1>3, <1>4, <1>5 DEF IInv

(***************************************************************************)
(* A purge keeps the invariant: an empty layer has nothing to agree on.    *)
(***************************************************************************)
LEMMA PurgeTook ==
  ASSUME IInv, NEW b \in Branches, PurgeBranch(b)
  PROVE  IInv'
<1>1. Cleared(mem, mem', b) /\ Cleared(lite, lite', b) /\ Cleared(pg, pg', b)
  BY PurgeClears
<1>2. made' = made /\ b \in Lines \ {Main} /\ Main \in Lines \ {b}
  BY MainLine DEF PurgeBranch
<1>3. Twins(mem', lite') /\ Twins(mem', pg')
  BY DEF PurgeBranch, Memory!PurgeBranch, Sqlite!PurgeBranch, Postgres!PurgeBranch, IInv, RowsInv, Twins, IsStore,
     Memory!Nothing, Sqlite!Nothing, Postgres!Nothing
<1>4. RowsInv'
  BY <1>1, <1>2, <1>3 DEF IInv, RowsInv, MainLives, Living, DeletedOn, KnownRows, Cleared, Wrote, Touches
<1>5. KnownNames(lite'.names, made') /\ KnownNames(pg'.names, made')
  BY <1>1, <1>2 DEF IInv, NamesInv, KnownNames, Cleared, Wrote, Touches
<1>6. MainNames(lite'.names, pg'.names)
  BY <1>1, <1>2 DEF IInv, NamesInv, MainNames, Cleared, Wrote, Touches
<1>7. ASSUME NEW c \in Branches PROVE Follows(lite'.names, pg'.names, pg'.persons, c)
  <2>1. CASE c = b
    BY <1>1, <2>1 DEF Follows, Owned, Cleared
  <2>2. CASE c # b
    BY <1>1, <2>2, MainLine DEF IInv, NamesInv, Follows, Owned, DeletedOn, Cleared, Wrote, Touches
  <2> QED
    BY <2>1, <2>2
<1> QED
  BY <1>1, <1>4, <1>5, <1>6, <1>7 DEF IInv, NamesInv, Cleared

(***************************************************************************)
(* The invariant holds at the start.                                       *)
(***************************************************************************)
LEMMA StartHolds == Init => IInv
<1> SUFFICES ASSUME Init PROVE IInv
  OBVIOUS
<1>1. PICK p \in Persons, n \in Names, f \in Families : Start(p, n, f)
  <2>1. /\ (CHOOSE p \in Persons : TRUE) \in Persons
        /\ (CHOOSE n \in Names : TRUE) \in Names
        /\ (CHOOSE f \in Families : TRUE) \in Families
    BY SomeOfEach
  <2> QED
    BY <2>1 DEF Init
<1> DEFINE OnMain(rows) == [Empty EXCEPT ![Main] = rows]
<1>2. ASSUME NEW k, NEW v
      PROVE  LET t == OnMain(Row(k, v))
             IN  /\ IsTable(t) /\ DOMAIN t[Main] = {k} /\ t[Main][k] = v
                 /\ \A b \in Lines \ {Main} : DOMAIN t[b] = {}
  <2>1. IsLayer(Nothing) /\ DOMAIN Nothing = {}
    BY DEF IsLayer, Nothing
  <2>2. PICK g : g = Row(k, v)
    OBVIOUS
  <2>3. IsLayer(g) /\ DOMAIN g = {k} /\ g[k] = v
    BY <2>2 DEF Row, IsLayer
  <2>4. PICK t : t = OnMain(g)
    OBVIOUS
  <2>5. t[Main] = g /\ t = [b \in Lines |-> t[b]] /\ \A b \in Lines \ {Main} : t[b] = Nothing
    BY <2>4, MainLine DEF Empty
  <2>6. IsTable(t)
    BY <2>1, <2>3, <2>5 DEF IsTable
  <2> QED
    BY <2>1, <2>2, <2>3, <2>4, <2>5, <2>6
<1>3. PICK bucket, row, kid :
        /\ bucket = Row(n, Base) /\ kid = Row(p, Base)
        /\ row = [owner |-> p, value |-> Base]
  OBVIOUS
<1>4. /\ mem = [persons |-> OnMain(Row(p, Base)), names |-> OnMain(Row(p, bucket)),
                exids |-> OnMain(Row(p, Base)), families |-> OnMain(Row(f, p)),
                kids |-> OnMain(Row(f, kid)), edges |-> OnMain(Row(p, Base))]
      /\ lite = [persons |-> OnMain(Row(p, Base)), names |-> OnMain(Row(n, row)),
                 exids |-> OnMain(Row(p, Base)), families |-> OnMain(Row(f, p)),
                 kids |-> OnMain(Row(<<f, p>>, Base)), edges |-> OnMain(Row(p, Base))]
      /\ pg = [persons |-> OnMain(Row(p, Base)), names |-> OnMain(Row(n, row)),
               exids |-> OnMain(Row(p, Base)), families |-> OnMain(Row(f, p)),
               kids |-> OnMain(Row(<<f, p>>, Base)), edges |-> OnMain(Row(p, Base))]
      /\ made = [i \in Ids |-> IF i \in {p, n, f} THEN {Main} ELSE {}]
  BY <1>1, <1>3 DEF Start, Memory!Init, Sqlite!Init, Postgres!Init, Sqlite!NameRow, Postgres!Named
<1> HIDE DEF OnMain
<1>5. /\ IsTable(OnMain(Row(p, Base))) /\ IsTable(OnMain(Row(f, p))) /\ IsTable(OnMain(Row(p, bucket)))
      /\ IsTable(OnMain(Row(f, kid))) /\ IsTable(OnMain(Row(n, row))) /\ IsTable(OnMain(Row(<<f, p>>, Base)))
  BY <1>2
<1>6. IsStore(mem) /\ IsStore(lite) /\ IsStore(pg)
  BY <1>4, <1>5 DEF IsStore
<1>7. made[p] # {} /\ made[n] # {} /\ made[f] # {}
  BY <1>4 DEF Ids
<1>8. /\ DOMAIN mem.persons[Main] = {p} /\ mem.persons[Main][p] = Base
      /\ DOMAIN mem.families[Main] = {f} /\ mem.families[Main][f] = p
      /\ \A b \in Lines \ {Main} : DOMAIN mem.persons[b] = {} /\ DOMAIN mem.families[b] = {}
  BY <1>2, <1>4
<1>9. RowsInv
  <2>1. Base # Gone /\ p # Gone
    BY BaseIsApart, GoneIsApart
  <2>2. Twins(mem, lite) /\ Twins(mem, pg)
    BY <1>4 DEF Twins
  <2>3. MainLives(mem)
    BY <1>8, <2>1 DEF MainLives, Living, DeletedOn
  <2>4. KnownRows(mem.persons, Persons, made) /\ KnownRows(mem.families, Families, made)
    BY <1>7, <1>8 DEF KnownRows
  <2> QED
    BY <2>2, <2>3, <2>4 DEF RowsInv
<1>10. /\ DOMAIN lite.names[Main] = {n} /\ lite.names[Main][n] = row
       /\ \A b \in Lines \ {Main} : DOMAIN lite.names[b] = {}
       /\ pg.names = lite.names
  BY <1>2, <1>4
<1>11. NamesInv
  <2>1. row.value # Gone
    BY <1>3, BaseIsApart
  <2> QED
    BY <1>7, <1>10, <2>1, MainLine DEF NamesInv, KnownNames, MainNames, Follows, Owned
<1> QED
  BY <1>6, <1>9, <1>11 DEF IInv

(***************************************************************************)
(* Every step is a call that the stores took on a line, or a purge.        *)
(***************************************************************************)
LEMMA Steps ==
  ASSUME IInv, [Next]_vars
  PROVE  \/ \E l \in Lines : Took(l) /\ calls' = [calls EXCEPT ![l] = @ + 1]
         \/ \E b \in Branches : PurgeBranch(b)
         \/ UNCHANGED vars
<1>1. \A l, p : SavePerson(l, p) \/ DeletePerson(l, p) \/ SavePedigreeEdge(l, p) \/ DeletePedigreeEdge(l, p)
        => calls' = [calls EXCEPT ![l] = @ + 1]
  BY DEF SavePerson, DeletePerson, SavePedigreeEdge, DeletePedigreeEdge, Call
<1>2. \A l, p, n : SavePersonName(l, p, n) \/ DeletePersonName(l, n) => calls' = [calls EXCEPT ![l] = @ + 1]
  BY DEF SavePersonName, DeletePersonName, Call
<1>3. \A l, p, f : SaveFamily(l, f, p) \/ SaveFamilyChild(l, f, p) \/ DeleteFamilyChild(l, f, p) \/ DeleteFamily(l, f)
        => calls' = [calls EXCEPT ![l] = @ + 1]
  BY DEF SaveFamily, SaveFamilyChild, DeleteFamilyChild, DeleteFamily, Call
<1>4. \A l, x, ids : ReplaceExternalIDs(l, x, ids) => calls' = [calls EXCEPT ![l] = @ + 1]
  BY DEF ReplaceExternalIDs, Call
<1>5. \A p, q : MergePersons(p, q) => calls' = [calls EXCEPT ![Main] = @ + 1]
  BY DEF MergePersons, Call
<1>6. ASSUME NEW l \in Lines, NEW p \in Persons,
             \/ SavePerson(l, p) \/ DeletePerson(l, p)
             \/ SavePedigreeEdge(l, p) \/ DeletePedigreeEdge(l, p)
      PROVE  Took(l)
  BY <1>6, SavePersonTook, DeletePersonTook, OtherCalls
<1>7. ASSUME NEW l \in Lines, NEW p \in Persons, NEW n \in Names, SavePersonName(l, p, n) \/ DeletePersonName(l, n)
      PROVE  Took(l)
  BY <1>7, SavePersonNameTook, DeletePersonNameTook
<1>8. ASSUME NEW l \in Lines, NEW p \in Persons, NEW f \in Families,
             SaveFamily(l, f, p) \/ SaveFamilyChild(l, f, p) \/ DeleteFamilyChild(l, f, p) \/ DeleteFamily(l, f)
      PROVE  Took(l)
  BY <1>8, SaveFamilyTook, DeleteFamilyTook, OtherCalls
<1>9. ASSUME NEW l \in Lines, NEW x, NEW ids, ReplaceExternalIDs(l, x, ids) PROVE Took(l)
  BY <1>9, OtherCalls
<1>10. ASSUME NEW p \in Persons, NEW q \in Persons, MergePersons(p, q) PROVE Took(Main)
  BY <1>10, MergePersonsTook
<1>11. \E p \in Persons : TRUE
  BY SomeOfEach
<1>12. CASE Next
  <2>1. \/ \E l \in Lines, p \in Persons : \/ SavePerson(l, p) \/ DeletePerson(l, p)
                                           \/ SavePedigreeEdge(l, p) \/ DeletePedigreeEdge(l, p)
        \/ \E l \in Lines, p \in Persons, n \in Names : SavePersonName(l, p, n) \/ DeletePersonName(l, n)
        \/ \E l \in Lines, p \in Persons, f \in Families :
             SaveFamily(l, f, p) \/ SaveFamilyChild(l, f, p) \/ DeleteFamilyChild(l, f, p) \/ DeleteFamily(l, f)
        \/ \E l \in Lines, x \in Holders, ids \in UNION {{Nothing, m} : m \in Lines} : ReplaceExternalIDs(l, x, ids)
        \/ \E p, q \in Persons : MergePersons(p, q)
        \/ \E b \in Branches : PurgeBranch(b)
    BY <1>11, <1>12 DEF Next
  <2> QED
    BY <1>1, <1>2, <1>3, <1>4, <1>5, <1>6, <1>7, <1>8, <1>9, <1>10, <2>1, MainLine
<1> QED
  BY <1>12

(***************************************************************************)
(* The invariant holds of every behaviour.                                 *)
(***************************************************************************)
LEMMA StepHolds == IInv /\ [Next]_vars => IInv'
<1> SUFFICES ASSUME IInv, [Next]_vars PROVE IInv'
  OBVIOUS
<1>1. CASE \E l \in Lines : Took(l) /\ calls' = [calls EXCEPT ![l] = @ + 1]
  BY <1>1 DEF Took
<1>2. CASE \E b \in Branches : PurgeBranch(b)
  BY <1>2, PurgeTook
<1>3. CASE UNCHANGED vars
  BY <1>3 DEF vars, IInv, RowsInv, NamesInv
<1> QED
  BY <1>1, <1>2, <1>3, Steps

(***************************************************************************)
(* The invariant holds of every behaviour of the three stores.             *)
(***************************************************************************)
LEMMA Invariance == Spec => []IInv
BY StartHolds, StepHolds, PTL DEF Spec

-----------------------------------------------------------------------------
(* The refinement.                                                         *)

(***************************************************************************)
(* A call on one line leaves the other lines what they have of their own.  *)
(***************************************************************************)
LEMMA OtherLayers ==
  ASSUME NEW m, NEW n, NEW l \in Lines, Wrote(m, n, l)
  PROVE  \A k \in Lines \ {l} : /\ MHas(n)[k] = MHas(m)[k] /\ MHolds(n)[k] = MHolds(m)[k]
                                /\ SHas(n)[k] = SHas(m)[k] /\ SHolds(n)[k] = SHolds(m)[k]
<1> SUFFICES ASSUME NEW k \in Lines \ {l}
             PROVE  /\ MHas(n)[k] = MHas(m)[k] /\ MHolds(n)[k] = MHolds(m)[k]
                    /\ SHas(n)[k] = SHas(m)[k] /\ SHolds(n)[k] = SHolds(m)[k]
  OBVIOUS
<1>1. /\ n.persons[k] = m.persons[k] /\ n.names[k] = m.names[k] /\ n.exids[k] = m.exids[k]
      /\ n.families[k] = m.families[k] /\ n.kids[k] = m.kids[k] /\ n.edges[k] = m.edges[k]
  BY DEF Wrote, Touches
<1>2. \A u : MOwns(n, k, u) = MOwns(m, k, u) /\ MSays(n, k, u) = MSays(m, k, u)
  BY <1>1 DEF MOwns, MSays
<1>3. \A u : SOwns(n, k, u) = SOwns(m, k, u) /\ SSays(n, k, u) = SSays(m, k, u)
  BY <1>1 DEF SOwns, SSays, DeletedOn
<1> QED
  BY <1>2, <1>3 DEF MHas, MHolds, SHas, SHolds

(***************************************************************************)
(* What a branch has of its own only grows with its calls, and is nothing  *)
(* after a purge.                                                          *)
(***************************************************************************)
LEMMA OwnGrows ==
  ASSUME NEW m, NEW n, NEW b \in Branches
  PROVE  /\ EditStore(m, n, b) => MHas(m)[b] \subseteq MHas(n)[b]
         /\ SqlEdit(m, n, b) => SHas(m)[b] \subseteq SHas(n)[b]
         /\ Cleared(m, n, b) => MHas(n)[b] = {} /\ SHas(n)[b] = {}
<1>1. b \in Lines /\ b # Main
  BY MainLine
<1>2. ASSUME EditStore(m, n, b) PROVE MHas(m)[b] \subseteq MHas(n)[b]
  <2>1. ASSUME NEW u \in Units, MOwns(m, b, u) PROVE MOwns(n, b, u)
    BY <1>1, <1>2, <2>1, UnitKinds DEF EditStore, Edit, Keeps, MOwns
  <2> QED
    BY <1>1, <2>1 DEF MHas
<1>3. ASSUME SqlEdit(m, n, b) PROVE SHas(m)[b] \subseteq SHas(n)[b]
  <2>1. Kept(m, n, b)
    BY <1>1, <1>3 DEF SqlEdit
  <2>2. ASSUME NEW u \in Units, SOwns(m, b, u) PROVE SOwns(n, b, u)
    <3>1. CASE u[1] \in {"person", "edge", "family", "ids"}
      BY <2>1, <2>2, <3>1 DEF Kept, SOwns
    <3>2. CASE u[1] = "name"
      BY <2>1, <2>2, <3>2 DEF Kept, Owned, SOwns
    <3>3. CASE u[1] = "child"
      BY <2>1, <2>2, <3>3, UnitKinds DEF Kept, SOwns
    <3> QED
      BY <3>1, <3>2, <3>3, UnitKinds
  <2> QED
    BY <1>1, <2>2 DEF SHas
<1>4. ASSUME Cleared(m, n, b) PROVE MHas(n)[b] = {} /\ SHas(n)[b] = {}
  <2>1. \A u \in Units : ~MOwns(n, b, u) /\ ~SOwns(n, b, u)
    BY <1>4, UnitKinds DEF Cleared, MOwns, SOwns, DeletedOn
  <2> QED
    BY <1>1, <2>1 DEF MHas, SHas
<1> QED
  BY <1>2, <1>3, <1>4

\* BranchView's step, from the view v and the own units o to w and p.
ViewStep(v, o, w, p) ==
  \/ MainWrite(v, o, w, p) /\ calls' = [calls EXCEPT ![Main] = @ + 1]
  \/ \E b \in Branches : \/ BranchWrite(v, o, w, p, b) /\ calls' = [calls EXCEPT ![b] = @ + 1]
                         \/ Purged(v, o, w, p, b) /\ calls' = calls
  \/ v = w /\ o = p /\ calls' = calls

(***************************************************************************)
(* So each store's layers take a step of the overlay.                      *)
(***************************************************************************)
LEMMA LayersStep ==
  ASSUME IInv, [Next]_vars
  PROVE  /\ ViewStep(Laid(MHas(mem), MHolds(mem)), OwnOf(MHas(mem)),
                     Laid(MHas(mem'), MHolds(mem')), OwnOf(MHas(mem')))
         /\ ViewStep(Laid(SHas(lite), SHolds(lite)), OwnOf(SHas(lite)),
                     Laid(SHas(lite'), SHolds(lite')), OwnOf(SHas(lite')))
         /\ ViewStep(Laid(SHas(pg), SHolds(pg)), OwnOf(SHas(pg)),
                     Laid(SHas(pg'), SHolds(pg')), OwnOf(SHas(pg')))
<1>1. ASSUME NEW l \in Lines, Took(l)
      PROVE  \A k \in Lines \ {l} :
               /\ MHas(mem')[k] = MHas(mem)[k] /\ MHolds(mem')[k] = MHolds(mem)[k]
               /\ SHas(lite')[k] = SHas(lite)[k] /\ SHolds(lite')[k] = SHolds(lite)[k]
               /\ SHas(pg')[k] = SHas(pg)[k] /\ SHolds(pg')[k] = SHolds(pg)[k]
  <2>1. Wrote(mem, mem', l) /\ Wrote(lite, lite', l) /\ Wrote(pg, pg', l)
    BY <1>1, StillStores DEF Took
  <2>2. \A k \in Lines \ {l} : MHas(mem')[k] = MHas(mem)[k] /\ MHolds(mem')[k] = MHolds(mem)[k]
    BY <2>1, OtherLayers
  <2>3. \A k \in Lines \ {l} : SHas(lite')[k] = SHas(lite)[k] /\ SHolds(lite')[k] = SHolds(lite)[k]
    BY <2>1, OtherLayers
  <2>4. \A k \in Lines \ {l} : SHas(pg')[k] = SHas(pg)[k] /\ SHolds(pg')[k] = SHolds(pg)[k]
    BY <2>1, OtherLayers
  <2> QED
    BY <2>2, <2>3, <2>4
<1>2. CASE Took(Main) /\ calls' = [calls EXCEPT ![Main] = @ + 1]
  <2>1. \A b \in Branches :
          /\ MHas(mem')[b] = MHas(mem)[b] /\ MHolds(mem')[b] = MHolds(mem)[b]
          /\ SHas(lite')[b] = SHas(lite)[b] /\ SHolds(lite')[b] = SHolds(lite)[b]
          /\ SHas(pg')[b] = SHas(pg)[b] /\ SHolds(pg')[b] = SHolds(pg)[b]
    BY <1>1, <1>2, MainLine
  <2> QED
    BY <1>2, <2>1, OverlaySteps DEF ViewStep
<1>3. ASSUME NEW b \in Branches, Took(b), calls' = [calls EXCEPT ![b] = @ + 1]
      PROVE  /\ ViewStep(Laid(MHas(mem), MHolds(mem)), OwnOf(MHas(mem)),
                         Laid(MHas(mem'), MHolds(mem')), OwnOf(MHas(mem')))
             /\ ViewStep(Laid(SHas(lite), SHolds(lite)), OwnOf(SHas(lite)),
                         Laid(SHas(lite'), SHolds(lite')), OwnOf(SHas(lite')))
             /\ ViewStep(Laid(SHas(pg), SHolds(pg)), OwnOf(SHas(pg)),
                         Laid(SHas(pg'), SHolds(pg')), OwnOf(SHas(pg')))
  <2>1. /\ MHas(mem)[b] \subseteq MHas(mem')[b]
        /\ SHas(lite)[b] \subseteq SHas(lite')[b]
        /\ SHas(pg)[b] \subseteq SHas(pg')[b]
    BY <1>3, OwnGrows DEF Took
  <2>2. \A l \in Lines \ {b} :
          /\ MHas(mem')[l] = MHas(mem)[l] /\ MHolds(mem')[l] = MHolds(mem)[l]
          /\ SHas(lite')[l] = SHas(lite)[l] /\ SHolds(lite')[l] = SHolds(lite)[l]
          /\ SHas(pg')[l] = SHas(pg)[l] /\ SHolds(pg')[l] = SHolds(pg)[l]
    BY <1>1, <1>3, MainLine
  <2> QED
    BY <1>3, <2>1, <2>2, OverlaySteps DEF ViewStep
<1>4. ASSUME NEW b \in Branches, PurgeBranch(b)
      PROVE  /\ ViewStep(Laid(MHas(mem), MHolds(mem)), OwnOf(MHas(mem)),
                         Laid(MHas(mem'), MHolds(mem')), OwnOf(MHas(mem')))
             /\ ViewStep(Laid(SHas(lite), SHolds(lite)), OwnOf(SHas(lite)),
                         Laid(SHas(lite'), SHolds(lite')), OwnOf(SHas(lite')))
             /\ ViewStep(Laid(SHas(pg), SHolds(pg)), OwnOf(SHas(pg)),
                         Laid(SHas(pg'), SHolds(pg')), OwnOf(SHas(pg')))
  <2>1. Cleared(mem, mem', b) /\ Cleared(lite, lite', b) /\ Cleared(pg, pg', b)
    BY <1>4, PurgeClears
  <2>2. MHas(mem')[b] = {} /\ SHas(lite')[b] = {} /\ SHas(pg')[b] = {}
    BY <2>1, OwnGrows
  <2>3. \A l \in Lines \ {b} :
          /\ MHas(mem')[l] = MHas(mem)[l] /\ MHolds(mem')[l] = MHolds(mem)[l]
          /\ SHas(lite')[l] = SHas(lite)[l] /\ SHolds(lite')[l] = SHolds(lite)[l]
          /\ SHas(pg')[l] = SHas(pg)[l] /\ SHolds(pg')[l] = SHolds(pg)[l]
    <3>1. b \in Lines /\ Wrote(mem, mem', b) /\ Wrote(lite, lite', b) /\ Wrote(pg, pg', b)
      BY <2>1, MainLine DEF Cleared
    <3>2. \A k \in Lines \ {b} : MHas(mem')[k] = MHas(mem)[k] /\ MHolds(mem')[k] = MHolds(mem)[k]
      BY <3>1, OtherLayers
    <3>3. \A k \in Lines \ {b} : SHas(lite')[k] = SHas(lite)[k] /\ SHolds(lite')[k] = SHolds(lite)[k]
      BY <3>1, OtherLayers
    <3>4. \A k \in Lines \ {b} : SHas(pg')[k] = SHas(pg)[k] /\ SHolds(pg')[k] = SHolds(pg)[k]
      BY <3>1, OtherLayers
    <3> QED
      BY <3>2, <3>3, <3>4
  <2>4. calls' = calls
    BY <1>4 DEF PurgeBranch
  <2> QED
    BY <2>2, <2>3, <2>4, OverlaySteps DEF ViewStep
<1>5. CASE UNCHANGED vars
  BY <1>5 DEF vars, ViewStep
<1>6. \A l \in Lines : l = Main \/ l \in Branches
  BY DEF Lines
<1> QED
  BY <1>2, <1>3, <1>4, <1>5, <1>6, Steps

(***************************************************************************)
(* What a branch owns, as the stores answer it.                            *)
(***************************************************************************)
LEMMA OwnIsLaid ==
  /\ [b \in Branches |-> {u \in Units : Memory!Owns(b, u)}] = OwnOf(MHas(mem))
  /\ [b \in Branches |-> {u \in Units : Sqlite!Owns(b, u)}] = OwnOf(SHas(lite))
  /\ [b \in Branches |-> {u \in Units : Postgres!Owns(b, u)}] = OwnOf(SHas(pg))
<1>1. \A u \in Units, b \in Branches : Memory!Owns(b, u) <=> MOwns(mem, b, u)
  BY UnitKinds DEF Memory!Owns, MOwns
<1>2. \A u \in Units, b \in Branches : Sqlite!Owns(b, u) <=> SOwns(lite, b, u)
  BY UnitKinds DEF Sqlite!Owns, SOwns, Sqlite!DeletedOn, DeletedOn
<1>3. \A u \in Units, b \in Branches : Postgres!Owns(b, u) <=> SOwns(pg, b, u)
  BY UnitKinds DEF Postgres!Owns, SOwns, Postgres!DeletedOn, DeletedOn
<1> QED
  BY <1>1, <1>2, <1>3, MainLine DEF OwnOf, MHas, SHas

(***************************************************************************)
(* To begin with the branches have nothing of their own.                   *)
(***************************************************************************)
LEMMA StartBare ==
  ASSUME Init, NEW b \in Branches
  PROVE  MHas(mem)[b] = {} /\ SHas(lite)[b] = {} /\ SHas(pg)[b] = {}
<1>1. PICK p, n, f : Start(p, n, f)
  BY DEF Init
<1>2. b \in Lines /\ b # Main /\ DOMAIN Nothing = {}
  BY MainLine DEF Nothing
<1>3. \A rows : [Empty EXCEPT ![Main] = rows][b] = Nothing
  BY <1>2 DEF Empty
<1>4. ASSUME NEW m, IsStore(m),
             /\ m.persons[b] = Nothing /\ m.names[b] = Nothing /\ m.exids[b] = Nothing
             /\ m.families[b] = Nothing /\ m.kids[b] = Nothing /\ m.edges[b] = Nothing
      PROVE  MHas(m)[b] = {} /\ SHas(m)[b] = {}
  <2>1. \A u \in Units : ~MOwns(m, b, u) /\ ~SOwns(m, b, u)
    BY <1>2, <1>4, UnitKinds DEF MOwns, SOwns, DeletedOn
  <2> QED
    BY <1>2, <2>1 DEF MHas, SHas
<1>5. /\ mem.persons[b] = Nothing /\ mem.names[b] = Nothing /\ mem.exids[b] = Nothing
      /\ mem.families[b] = Nothing /\ mem.kids[b] = Nothing /\ mem.edges[b] = Nothing
  BY <1>1, <1>3 DEF Start, Memory!Init
<1>6. /\ lite.persons[b] = Nothing /\ lite.names[b] = Nothing /\ lite.exids[b] = Nothing
      /\ lite.families[b] = Nothing /\ lite.kids[b] = Nothing /\ lite.edges[b] = Nothing
  BY <1>1, <1>3 DEF Start, Sqlite!Init
<1>7. /\ pg.persons[b] = Nothing /\ pg.names[b] = Nothing /\ pg.exids[b] = Nothing
      /\ pg.families[b] = Nothing /\ pg.kids[b] = Nothing /\ pg.edges[b] = Nothing
  BY <1>1, <1>3 DEF Start, Postgres!Init
<1>8. IsStore(mem) /\ IsStore(lite) /\ IsStore(pg)
  BY StartHolds DEF IInv
<1> QED
  BY <1>4, <1>5, <1>6, <1>7, <1>8

(***************************************************************************)
(* A branch with nothing of its own has main's view.                       *)
(***************************************************************************)
LEMMA BareView ==
  ASSUME NEW has, NEW holds, NEW b \in Branches, has[b] = {}
  PROVE  Laid(has, holds)[b] = Laid(has, holds)[Main]
BY MainLine DEF Laid

\* The views of the three stores, and what their branches own.
ViewOfMemory   == [l \in Lines |-> [u \in Units |-> Memory!Shows(l, u)]]
ViewOfSqlite   == [l \in Lines |-> [u \in Units |-> Sqlite!Shows(l, u)]]
ViewOfPostgres == [l \in Lines |-> [u \in Units |-> Postgres!Shows(l, u)]]
OwnInMemory    == [b \in Branches |-> {u \in Units : Memory!Owns(b, u)}]
OwnInSqlite    == [b \in Branches |-> {u \in Units : Sqlite!Owns(b, u)}]
OwnInPostgres  == [b \in Branches |-> {u \in Units : Postgres!Owns(b, u)}]

(***************************************************************************)
(* They are laid out from layers, before a step and after it.              *)
(***************************************************************************)
LEMMA Views ==
  IInv => /\ ViewOfMemory = Laid(MHas(mem), MHolds(mem)) /\ OwnInMemory = OwnOf(MHas(mem))
          /\ ViewOfSqlite = Laid(SHas(lite), SHolds(lite)) /\ OwnInSqlite = OwnOf(SHas(lite))
          /\ ViewOfPostgres = Laid(SHas(pg), SHolds(pg)) /\ OwnInPostgres = OwnOf(SHas(pg))
<1>1. IInv => IsStore(lite) /\ MainLives(lite) /\ IsStore(pg) /\ MainLives(pg)
  BY DEF IInv, RowsInv, Twins, MainLives
<1> QED
  BY <1>1, MemoryLaid, SqliteLaid, PostgresLaid, OwnIsLaid
     DEF ViewOfMemory, ViewOfSqlite, ViewOfPostgres, OwnInMemory, OwnInSqlite, OwnInPostgres

(***************************************************************************)
(* The same of the views after a step.                                     *)
(***************************************************************************)
LEMMA NextViews ==
  IInv' => /\ ViewOfMemory' = Laid(MHas(mem'), MHolds(mem')) /\ OwnInMemory' = OwnOf(MHas(mem'))
           /\ ViewOfSqlite' = Laid(SHas(lite'), SHolds(lite')) /\ OwnInSqlite' = OwnOf(SHas(lite'))
           /\ ViewOfPostgres' = Laid(SHas(pg'), SHolds(pg')) /\ OwnInPostgres' = OwnOf(SHas(pg'))
<1>1. (IInv => /\ ViewOfMemory = Laid(MHas(mem), MHolds(mem)) /\ OwnInMemory = OwnOf(MHas(mem))
               /\ ViewOfSqlite = Laid(SHas(lite), SHolds(lite)) /\ OwnInSqlite = OwnOf(SHas(lite))
               /\ ViewOfPostgres = Laid(SHas(pg), SHolds(pg)) /\ OwnInPostgres = OwnOf(SHas(pg)))'
  BY Views, PTL
<1> QED
  BY <1>1

(***************************************************************************)
(* The stores' views take steps of the overlay.                            *)
(***************************************************************************)
LEMMA ViewsStep ==
  IInv /\ [Next]_vars =>
    /\ ViewStep(ViewOfMemory, OwnInMemory, ViewOfMemory', OwnInMemory')
    /\ ViewStep(ViewOfSqlite, OwnInSqlite, ViewOfSqlite', OwnInSqlite')
    /\ ViewStep(ViewOfPostgres, OwnInPostgres, ViewOfPostgres', OwnInPostgres')
<1> SUFFICES ASSUME IInv, [Next]_vars
             PROVE  /\ ViewStep(ViewOfMemory, OwnInMemory, ViewOfMemory', OwnInMemory')
                    /\ ViewStep(ViewOfSqlite, OwnInSqlite, ViewOfSqlite', OwnInSqlite')
                    /\ ViewStep(ViewOfPostgres, OwnInPostgres, ViewOfPostgres', OwnInPostgres')
  OBVIOUS
<1>1. IInv'
  BY StepHolds
<1> QED
  BY <1>1, Views, NextViews, LayersStep

(***************************************************************************)
(* Each store is a copy-on-write overlay: no write on a line changes what  *)
(* another line has of its own, a tombstone keeps hiding main's row, and a *)
(* purge gives main's view back (ADR-005), in memory, in SQLite and in     *)
(* PostgreSQL, for any number of branches, persons, names and families.    *)
(***************************************************************************)
THEOREM StoresAreOverlaysHold == Spec => StoresAreOverlays
<1>1. Init => MemoryOverlay!Init
  <2> SUFFICES ASSUME Init, NEW b \in Branches PROVE OwnInMemory[b] = {} /\ ViewOfMemory[b] = ViewOfMemory[Main]
    BY DEF MemoryOverlay!Init, ViewOfMemory, OwnInMemory
  <2>1. IInv
    BY StartHolds
  <2>2. ViewOfMemory = Laid(MHas(mem), MHolds(mem)) /\ OwnInMemory = OwnOf(MHas(mem))
    BY <2>1, Views
  <2>3. MHas(mem)[b] = {}
    BY StartBare
  <2> QED
    BY <2>2, <2>3, BareView DEF OwnOf
<1>2. IInv /\ [Next]_vars => [MemoryOverlay!Next]_<<ViewOfMemory, OwnInMemory, calls>>
  <2> SUFFICES ASSUME ViewStep(ViewOfMemory, OwnInMemory, ViewOfMemory', OwnInMemory')
               PROVE  [MemoryOverlay!Next]_<<ViewOfMemory, OwnInMemory, calls>>
    BY ViewsStep
  <2>1. MemoryOverlay!Units = Units
    BY MainLine DEF MemoryOverlay!Units
  <2>2. CASE /\ MainWrite(ViewOfMemory, OwnInMemory, ViewOfMemory', OwnInMemory')
             /\ calls' = [calls EXCEPT ![Main] = @ + 1]
    BY <2>1, <2>2
       DEF MainWrite, MemoryOverlay!Next, MemoryOverlay!WriteMain, MemoryOverlay!Counts, ViewOfMemory,
           OwnInMemory
  <2>3. ASSUME NEW b \in Branches,
               BranchWrite(ViewOfMemory, OwnInMemory, ViewOfMemory', OwnInMemory', b),
               calls' = [calls EXCEPT ![b] = @ + 1]
        PROVE  MemoryOverlay!Next
    BY <2>1, <2>3
       DEF BranchWrite, Apart, Lines, MemoryOverlay!Next, MemoryOverlay!WriteBranch, MemoryOverlay!Counts,
           MemoryOverlay!Elsewhere, ViewOfMemory, OwnInMemory
  <2>4. ASSUME NEW b \in Branches, Purged(ViewOfMemory, OwnInMemory, ViewOfMemory', OwnInMemory', b), calls' = calls
        PROVE  MemoryOverlay!Next
    BY <2>4
       DEF Purged, Apart, Lines, MemoryOverlay!Next, MemoryOverlay!Purge, MemoryOverlay!Elsewhere,
           ViewOfMemory, OwnInMemory
  <2> QED
    BY <2>2, <2>3, <2>4 DEF ViewStep
<1>3. Init => SqliteOverlay!Init
  <2> SUFFICES ASSUME Init, NEW b \in Branches PROVE OwnInSqlite[b] = {} /\ ViewOfSqlite[b] = ViewOfSqlite[Main]
    BY DEF SqliteOverlay!Init, ViewOfSqlite, OwnInSqlite
  <2>1. IInv
    BY StartHolds
  <2>2. ViewOfSqlite = Laid(SHas(lite), SHolds(lite)) /\ OwnInSqlite = OwnOf(SHas(lite))
    BY <2>1, Views
  <2>3. SHas(lite)[b] = {}
    BY StartBare
  <2> QED
    BY <2>2, <2>3, BareView DEF OwnOf
<1>4. IInv /\ [Next]_vars => [SqliteOverlay!Next]_<<ViewOfSqlite, OwnInSqlite, calls>>
  <2> SUFFICES ASSUME ViewStep(ViewOfSqlite, OwnInSqlite, ViewOfSqlite', OwnInSqlite')
               PROVE  [SqliteOverlay!Next]_<<ViewOfSqlite, OwnInSqlite, calls>>
    BY ViewsStep
  <2>1. SqliteOverlay!Units = Units
    BY MainLine DEF SqliteOverlay!Units
  <2>2. CASE /\ MainWrite(ViewOfSqlite, OwnInSqlite, ViewOfSqlite', OwnInSqlite')
             /\ calls' = [calls EXCEPT ![Main] = @ + 1]
    BY <2>1, <2>2
       DEF MainWrite, SqliteOverlay!Next, SqliteOverlay!WriteMain, SqliteOverlay!Counts, ViewOfSqlite,
           OwnInSqlite
  <2>3. ASSUME NEW b \in Branches,
               BranchWrite(ViewOfSqlite, OwnInSqlite, ViewOfSqlite', OwnInSqlite', b),
               calls' = [calls EXCEPT ![b] = @ + 1]
        PROVE  SqliteOverlay!Next
    BY <2>1, <2>3
       DEF BranchWrite, Apart, Lines, SqliteOverlay!Next, SqliteOverlay!WriteBranch, SqliteOverlay!Counts,
           SqliteOverlay!Elsewhere, ViewOfSqlite, OwnInSqlite
  <2>4. ASSUME NEW b \in Branches, Purged(ViewOfSqlite, OwnInSqlite, ViewOfSqlite', OwnInSqlite', b), calls' = calls
        PROVE  SqliteOverlay!Next
    BY <2>4
       DEF Purged, Apart, Lines, SqliteOverlay!Next, SqliteOverlay!Purge, SqliteOverlay!Elsewhere,
           ViewOfSqlite, OwnInSqlite
  <2> QED
    BY <2>2, <2>3, <2>4 DEF ViewStep
<1>5. Init => PostgresOverlay!Init
  <2> SUFFICES ASSUME Init, NEW b \in Branches PROVE OwnInPostgres[b] = {} /\ ViewOfPostgres[b] = ViewOfPostgres[Main]
    BY DEF PostgresOverlay!Init, ViewOfPostgres, OwnInPostgres
  <2>1. IInv
    BY StartHolds
  <2>2. ViewOfPostgres = Laid(SHas(pg), SHolds(pg)) /\ OwnInPostgres = OwnOf(SHas(pg))
    BY <2>1, Views
  <2>3. SHas(pg)[b] = {}
    BY StartBare
  <2> QED
    BY <2>2, <2>3, BareView DEF OwnOf
<1>6. IInv /\ [Next]_vars => [PostgresOverlay!Next]_<<ViewOfPostgres, OwnInPostgres, calls>>
  <2> SUFFICES ASSUME ViewStep(ViewOfPostgres, OwnInPostgres, ViewOfPostgres', OwnInPostgres')
               PROVE  [PostgresOverlay!Next]_<<ViewOfPostgres, OwnInPostgres, calls>>
    BY ViewsStep
  <2>1. PostgresOverlay!Units = Units
    BY MainLine DEF PostgresOverlay!Units
  <2>2. CASE /\ MainWrite(ViewOfPostgres, OwnInPostgres, ViewOfPostgres', OwnInPostgres')
             /\ calls' = [calls EXCEPT ![Main] = @ + 1]
    BY <2>1, <2>2
       DEF MainWrite, PostgresOverlay!Next, PostgresOverlay!WriteMain, PostgresOverlay!Counts,
           ViewOfPostgres, OwnInPostgres
  <2>3. ASSUME NEW b \in Branches,
               BranchWrite(ViewOfPostgres, OwnInPostgres, ViewOfPostgres', OwnInPostgres', b),
               calls' = [calls EXCEPT ![b] = @ + 1]
        PROVE  PostgresOverlay!Next
    BY <2>1, <2>3
       DEF BranchWrite, Apart, Lines, PostgresOverlay!Next, PostgresOverlay!WriteBranch,
           PostgresOverlay!Counts, PostgresOverlay!Elsewhere, ViewOfPostgres, OwnInPostgres
  <2>4. ASSUME NEW b \in Branches,
               Purged(ViewOfPostgres, OwnInPostgres, ViewOfPostgres', OwnInPostgres', b),
               calls' = calls
        PROVE  PostgresOverlay!Next
    BY <2>4
       DEF Purged, Apart, Lines, PostgresOverlay!Next, PostgresOverlay!Purge, PostgresOverlay!Elsewhere,
           ViewOfPostgres, OwnInPostgres
  <2> QED
    BY <2>2, <2>3, <2>4 DEF ViewStep
<1> QED
  BY Invariance, <1>1, <1>2, <1>3, <1>4, <1>5, <1>6, PTL
     DEF Spec, StoresAreOverlays, MemoryOverlay!Spec, SqliteOverlay!Spec, PostgresOverlay!Spec,
         ViewOfMemory, ViewOfSqlite, ViewOfPostgres, OwnInMemory, OwnInSqlite, OwnInPostgres

-----------------------------------------------------------------------------
(* The stores agree: a second invariant.                                   *)

\* What main has in memory of a person's names or a family's children.
MainBucket(t, k) == IF k \in DOMAIN t[Main] THEN t[Main][k] ELSE Nothing

\* The names main's rows give a person, and the children they give a family.
OwnedOnMain(s, p) == {n \in DOMAIN s[Main] : s[Main][n].owner = p}
ChildrenOnMain(t, f) == {p \in Persons : <<f, p>> \in DOMAIN t[Main]}

\* Tables that no store keeps in another way, and whose keys they are.
TablesInv ==
  /\ lite.edges = mem.edges /\ pg.edges = mem.edges
  /\ lite.exids = mem.exids /\ pg.exids = mem.exids
  /\ \A l \in Lines : DOMAIN mem.persons[l] \subseteq Persons /\ DOMAIN mem.families[l] \subseteq Families

\* The line l has the same row for k in both tables, or none.
SameRow(s, t, l, k) ==
  /\ k \in DOMAIN s[l] <=> k \in DOMAIN t[l]
  /\ k \in DOMAIN s[l] => s[l][k] = t[l][k]

(***************************************************************************)
(* Children: main's are the same rows in SQL, and in memory what these     *)
(* say; a branch's the same rows but for families it has deleted.          *)
(***************************************************************************)
KidsOnMain(g, t, f) ==
  DOMAIN g = ChildrenOnMain(t, f) /\ \A p \in ChildrenOnMain(t, f) : g[p] = t[Main][<<f, p>>]

KidsInv ==
  /\ lite.kids[Main] = pg.kids[Main]
  /\ \A k \in DOMAIN lite.kids[Main] : lite.kids[Main][k] # Gone
  /\ \A f \in Families : KidsOnMain(MainBucket(mem.kids, f), lite.kids, f)
  /\ \A b \in Branches, f \in Families, p \in Persons :
       DeletedOn(mem.families, b, f) \/ SameRow(lite.kids, pg.kids, b, <<f, p>>)

\* The line l has a row for the name, and it is p's.
HasName(s, l, p, n) == n \in DOMAIN s[l] /\ s[l][n].owner = p

\* Both tables give a person of l the same rows.
SameName(s, t, l, p, n) ==
  /\ HasName(s, l, p, n) <=> HasName(t, l, p, n)
  /\ HasName(s, l, p, n) => s[l][n].value = t[l][n].value

NamesOnMain(g, s, p) ==
  DOMAIN g = OwnedOnMain(s, p) /\ \A n \in OwnedOnMain(s, p) : g[n] = s[Main][n].value

(***************************************************************************)
(* Names: likewise, person by person.                                      *)
(***************************************************************************)
BucketsInv ==
  /\ \A p \in Persons : NamesOnMain(MainBucket(mem.names, p), lite.names, p)
  /\ \A b \in Branches, p \in Persons, n \in Names :
       DeletedOn(mem.persons, b, p) \/ SameName(lite.names, pg.names, b, p, n)

\* Whoever has a row for the name is the one it was first added to.
AsBorn(n) ==
  \A l \in Lines :
    /\ n \in DOMAIN lite.names[l] => lite.names[l][n].owner = bornTo[n] /\ bornTo[n] \in Persons
    /\ n \in DOMAIN pg.names[l] => pg.names[l][n].owner = bornTo[n] /\ bornTo[n] \in Persons

\* Or main has handed it to another, and the one it was first added to is gone from main for good.
HandedOn(n) ==
  /\ Main \in made[n] /\ bornTo[n] \in Persons /\ Main \in made[bornTo[n]]
  /\ bornTo[n] \notin DOMAIN mem.persons[Main]
  /\ n \in DOMAIN lite.names[Main] => lite.names[Main][n].owner # bornTo[n]

BornInv ==
  /\ bornTo = [n \in Names |-> bornTo[n]]
  /\ \A p \in Persons : p \in DOMAIN mem.persons[Main] => Main \in made[p]
  /\ \A n \in DOMAIN lite.names[Main] : Main \in made[n]
  /\ \A n \in Names : AsBorn(n) \/ HandedOn(n)

AgreeInv == TablesInv /\ KidsInv /\ BucketsInv /\ BornInv

(***************************************************************************)
(* A call leaves deleted on a branch what the branch has deleted, and ids  *)
(* where they have been created.                                           *)
(***************************************************************************)
LEMMA TookKeeps ==
  ASSUME IInv, NEW l \in Lines, Took(l)
  PROVE  StaysDeleted(mem.persons, mem'.persons) /\ StaysDeleted(mem.families, mem'.families)
<1>1. SqlEdit(lite, lite', l) /\ Twins(mem, lite) /\ Twins(mem', lite')
  BY DEF Took, IInv, RowsInv
<1>2. ASSUME NEW b \in Branches
      PROVE  /\ \A k : DeletedOn(mem.persons, b, k) => DeletedOn(mem'.persons, b, k)
             /\ \A k : DeletedOn(mem.families, b, k) => DeletedOn(mem'.families, b, k)
  <2>1. CASE b = l
    BY <1>1, <2>1, MainLine DEF SqlEdit, Kept, Twins
  <2>2. CASE b # l
    BY <1>1, <2>2, MainLine DEF SqlEdit, Touches, Twins, DeletedOn
  <2> QED
    BY <2>1, <2>2
<1> QED
  BY <1>2 DEF StaysDeleted

\* Ids stay created where they were.
Spread(were, are) == \A i \in Ids : were[i] \subseteq are[i]

(***************************************************************************)
(* A call creates ids on its line.                                         *)
(***************************************************************************)
LEMMA CallSpreads ==
  ASSUME NEW l, NEW born, NEW ids, Call(l, born, ids)
  PROVE  /\ Spread(made, made') /\ bornTo' = born
         /\ \A i \in Ids : i \in ids => l \in made'[i]
BY DEF Call, Spread

(***************************************************************************)
(* Children after an edit of a branch.                                     *)
(***************************************************************************)
LEMMA BranchKids ==
  ASSUME KidsInv, NEW l \in Branches, StaysDeleted(mem.families, mem'.families),
         \A m \in Lines \ {l} : /\ mem'.kids[m] = mem.kids[m] /\ lite'.kids[m] = lite.kids[m]
                                /\ pg'.kids[m] = pg.kids[m],
         \A f \in Families, p \in Persons :
           DeletedOn(mem'.families, l, f) \/ SameRow(lite'.kids, pg'.kids, l, <<f, p>>)
  PROVE  KidsInv'
<1>1. /\ mem'.kids[Main] = mem.kids[Main] /\ lite'.kids[Main] = lite.kids[Main]
      /\ pg'.kids[Main] = pg.kids[Main]
  BY MainLine
<1>2. \A f \in Families : KidsOnMain(MainBucket(mem'.kids, f), lite'.kids, f)
  BY <1>1 DEF KidsInv, KidsOnMain, MainBucket, ChildrenOnMain
<1>3. ASSUME NEW b \in Branches, NEW f \in Families, NEW p \in Persons
      PROVE  DeletedOn(mem'.families, b, f) \/ SameRow(lite'.kids, pg'.kids, b, <<f, p>>)
  <2>1. CASE b = l
    BY <2>1
  <2>2. CASE b # l
    BY <2>2, MainLine DEF KidsInv, SameRow, StaysDeleted
  <2> QED
    BY <2>1, <2>2
<1> QED
  BY <1>1, <1>2, <1>3 DEF KidsInv

(***************************************************************************)
(* Children after an edit of main.                                         *)
(***************************************************************************)
LEMMA MainKids ==
  ASSUME KidsInv, StaysDeleted(mem.families, mem'.families),
         \A b \in Branches : lite'.kids[b] = lite.kids[b] /\ pg'.kids[b] = pg.kids[b],
         lite'.kids[Main] = pg'.kids[Main],
         \A k \in DOMAIN lite'.kids[Main] : lite'.kids[Main][k] # Gone,
         \A f \in Families : KidsOnMain(MainBucket(mem'.kids, f), lite'.kids, f)
  PROVE  KidsInv'
<1>1. ASSUME NEW b \in Branches, NEW f \in Families, NEW p \in Persons
      PROVE  DeletedOn(mem'.families, b, f) \/ SameRow(lite'.kids, pg'.kids, b, <<f, p>>)
  BY DEF KidsInv, SameRow, StaysDeleted
<1> QED
  BY <1>1 DEF KidsInv

(***************************************************************************)
(* Children that no store writes.                                          *)
(***************************************************************************)
LEMMA SameKids ==
  ASSUME KidsInv, StaysDeleted(mem.families, mem'.families),
         mem'.kids = mem.kids, lite'.kids = lite.kids, pg'.kids = pg.kids
  PROVE  KidsInv'
<1>1. \A f \in Families : KidsOnMain(MainBucket(mem'.kids, f), lite'.kids, f)
  BY DEF KidsInv, KidsOnMain, MainBucket, ChildrenOnMain
<1> QED
  BY <1>1, MainKids DEF KidsInv

(***************************************************************************)
(* Names after an edit of a branch.                                        *)
(***************************************************************************)
LEMMA BranchBuckets ==
  ASSUME BucketsInv, NEW l \in Branches, StaysDeleted(mem.persons, mem'.persons),
         \A m \in Lines \ {l} : /\ mem'.names[m] = mem.names[m] /\ lite'.names[m] = lite.names[m]
                                /\ pg'.names[m] = pg.names[m],
         \A p \in Persons, n \in Names :
           DeletedOn(mem'.persons, l, p) \/ SameName(lite'.names, pg'.names, l, p, n)
  PROVE  BucketsInv'
<1>1. mem'.names[Main] = mem.names[Main] /\ lite'.names[Main] = lite.names[Main]
  BY MainLine
<1>2. \A p \in Persons : NamesOnMain(MainBucket(mem'.names, p), lite'.names, p)
  BY <1>1 DEF BucketsInv, NamesOnMain, MainBucket, OwnedOnMain
<1>3. ASSUME NEW b \in Branches, NEW p \in Persons, NEW n \in Names
      PROVE  DeletedOn(mem'.persons, b, p) \/ SameName(lite'.names, pg'.names, b, p, n)
  <2>1. CASE b = l
    BY <2>1
  <2>2. CASE b # l
    BY <2>2, MainLine DEF BucketsInv, SameName, HasName, StaysDeleted
  <2> QED
    BY <2>1, <2>2
<1> QED
  BY <1>2, <1>3 DEF BucketsInv

(***************************************************************************)
(* Names after an edit of main.                                            *)
(***************************************************************************)
LEMMA MainBuckets ==
  ASSUME BucketsInv, StaysDeleted(mem.persons, mem'.persons),
         \A b \in Branches : lite'.names[b] = lite.names[b] /\ pg'.names[b] = pg.names[b],
         \A p \in Persons : NamesOnMain(MainBucket(mem'.names, p), lite'.names, p)
  PROVE  BucketsInv'
<1>1. ASSUME NEW b \in Branches, NEW p \in Persons, NEW n \in Names
      PROVE  DeletedOn(mem'.persons, b, p) \/ SameName(lite'.names, pg'.names, b, p, n)
  BY DEF BucketsInv, SameName, HasName, StaysDeleted
<1> QED
  BY <1>1 DEF BucketsInv

(***************************************************************************)
(* Names that no store writes.                                             *)
(***************************************************************************)
LEMMA SameBuckets ==
  ASSUME BucketsInv, StaysDeleted(mem.persons, mem'.persons),
         mem'.names = mem.names, lite'.names = lite.names, pg'.names = pg.names
  PROVE  BucketsInv'
<1>1. \A p \in Persons : NamesOnMain(MainBucket(mem'.names, p), lite'.names, p)
  BY DEF BucketsInv, NamesOnMain, MainBucket, OwnedOnMain
<1> QED
  BY <1>1, MainBuckets

\* A row of line l in w is the line's in t, or main's, as to its owner.
Taken(t, w, l) ==
  \A n \in DOMAIN w[l] : \/ n \in DOMAIN t[l] /\ w[l][n].owner = t[l][n].owner
                         \/ n \in DOMAIN t[Main] /\ w[l][n].owner = t[Main][n].owner

(***************************************************************************)
(* Nobody is given a name, and who comes to main has not been there.       *)
(***************************************************************************)
LEMMA KeepsBorn ==
  ASSUME BornInv, Spread(made, made'), bornTo' = bornTo,
         \A l \in Lines : Taken(lite.names, lite'.names, l) /\ Taken(pg.names, pg'.names, l),
         \A p \in DOMAIN mem'.persons[Main] : \/ p \in DOMAIN mem.persons[Main]
                                              \/ Main \in made'[p] /\ Main \notin made[p],
         KnownNames(lite.names, made)
  PROVE  BornInv'
<1>1. Main \in Lines /\ Persons \subseteq Ids /\ Names \subseteq Ids
  BY MainLine DEF Ids
<1>2. \A p \in Persons : p \in DOMAIN mem'.persons[Main] => Main \in made'[p]
  BY <1>1 DEF BornInv, Spread
<1>3. \A n \in DOMAIN lite'.names[Main] :
        n \in DOMAIN lite.names[Main] /\ lite'.names[Main][n].owner = lite.names[Main][n].owner
  BY <1>1 DEF Taken
<1>4. \A n \in DOMAIN lite'.names[Main] : Main \in made'[n]
  BY <1>1, <1>3 DEF BornInv, Spread, KnownNames
<1>5. ASSUME NEW n \in Names, AsBorn(n) PROVE AsBorn(n)'
  BY <1>1, <1>5 DEF AsBorn, Taken
<1>6. ASSUME NEW n \in Names, HandedOn(n) PROVE HandedOn(n)'
  BY <1>1, <1>3, <1>6 DEF HandedOn, Spread
<1> QED
  BY <1>2, <1>4, <1>5, <1>6 DEF BornInv

-----------------------------------------------------------------------------
(* Calls that write neither names nor children.                            *)

\* No name and no child is written.
OthersOnly ==
  /\ mem'.names = mem.names /\ lite'.names = lite.names /\ pg'.names = pg.names
  /\ mem'.kids = mem.kids /\ lite'.kids = lite.kids /\ pg'.kids = pg.kids

(***************************************************************************)
(* Such a call keeps what is said of names and children.                   *)
(***************************************************************************)
LEMMA OthersAgree ==
  ASSUME IInv, AgreeInv, NEW l \in Lines, Took(l), OthersOnly, Spread(made, made'), bornTo' = bornTo,
         \A p \in DOMAIN mem'.persons[Main] : \/ p \in DOMAIN mem.persons[Main]
                                              \/ Main \in made'[p] /\ Main \notin made[p],
         TablesInv'
  PROVE  AgreeInv'
<1>1. StaysDeleted(mem.persons, mem'.persons) /\ StaysDeleted(mem.families, mem'.families)
  BY TookKeeps
<1>2. KidsInv'
  BY <1>1, SameKids DEF AgreeInv, OthersOnly
<1>3. BucketsInv'
  BY <1>1, SameBuckets DEF AgreeInv, OthersOnly
<1>4. KnownNames(lite.names, made)
  BY DEF IInv, NamesInv
<1>5. \A m \in Lines : Taken(lite.names, lite'.names, m) /\ Taken(pg.names, pg'.names, m)
  BY DEF OthersOnly, Taken
<1>6. BornInv'
  BY <1>4, <1>5, KeepsBorn DEF AgreeInv
<1> QED
  BY <1>2, <1>3, <1>6 DEF AgreeInv

(***************************************************************************)
(* A person saved is one that main had, or that is new to it.              *)
(***************************************************************************)
LEMMA SavePersonAgrees ==
  ASSUME IInv, AgreeInv, NEW l \in Lines, NEW p \in Persons, SavePerson(l, p)
  PROVE  AgreeInv'
<1>1. Took(l) /\ IsTable(mem.persons) /\ p \in Ids /\ Main \in Lines
  BY SavePersonTook, MainLine DEF IInv, IsStore, Ids
<1>2. /\ mem'.persons = Put(mem.persons, l, Row(p, l)) /\ mem'.families = mem.families
      /\ mem'.edges = mem.edges /\ lite'.edges = lite.edges /\ pg'.edges = pg.edges
      /\ mem'.exids = mem.exids /\ lite'.exids = lite.exids /\ pg'.exids = pg.exids
      /\ OthersOnly
  BY SameWriting DEF SavePerson, Memory!SavePerson, Sqlite!SavePerson, Postgres!SavePerson, IInv, IsStore, OthersOnly
<1>3. /\ DOMAIN mem'.persons[l] = {p} \union DOMAIN mem.persons[l]
      /\ \A m \in Lines \ {l} : mem'.persons[m] = mem.persons[m]
  BY <1>1, <1>2, PutRow
<1>4. Spread(made, made') /\ bornTo' = bornTo /\ l \in made'[p]
  BY <1>1, CallSpreads DEF SavePerson
<1>5. TablesInv'
  BY <1>2, <1>3 DEF AgreeInv, TablesInv
<1>6. l = Main => p \in DOMAIN mem.persons[Main] \/ Main \notin made[p]
  BY Seen DEF SavePerson, New
<1>7. \A q \in DOMAIN mem'.persons[Main] : \/ q \in DOMAIN mem.persons[Main]
                                           \/ Main \in made'[q] /\ Main \notin made[q]
  BY <1>1, <1>3, <1>4, <1>6
<1> QED
  BY <1>1, <1>2, <1>4, <1>5, <1>7, OthersAgree

(***************************************************************************)
(* A family saved.                                                         *)
(***************************************************************************)
LEMMA SaveFamilyAgrees ==
  ASSUME IInv, AgreeInv, NEW l \in Lines, NEW f \in Families, NEW p \in Persons, SaveFamily(l, f, p)
  PROVE  AgreeInv'
<1>1. Took(l) /\ IsTable(mem.families)
  BY SaveFamilyTook DEF IInv, IsStore
<1>2. /\ mem'.families = Put(mem.families, l, Row(f, p)) /\ mem'.persons = mem.persons
      /\ mem'.edges = mem.edges /\ lite'.edges = lite.edges /\ pg'.edges = pg.edges
      /\ mem'.exids = mem.exids /\ lite'.exids = lite.exids /\ pg'.exids = pg.exids
      /\ OthersOnly
  BY SameWriting DEF SaveFamily, Memory!SaveFamily, Sqlite!SaveFamily, Postgres!SaveFamily, IInv, IsStore, OthersOnly
<1>3. /\ DOMAIN mem'.families[l] = {f} \union DOMAIN mem.families[l]
      /\ \A m \in Lines \ {l} : mem'.families[m] = mem.families[m]
  BY <1>1, <1>2, PutRow
<1>4. Spread(made, made') /\ bornTo' = bornTo
  BY CallSpreads DEF SaveFamily
<1>5. TablesInv'
  BY <1>2, <1>3 DEF AgreeInv, TablesInv
<1> QED
  BY <1>1, <1>2, <1>4, <1>5, OthersAgree

(***************************************************************************)
(* Edges and identifiers: every store writes the same table.               *)
(***************************************************************************)
LEMMA EdgesAgree ==
  ASSUME IInv, AgreeInv, NEW l \in Lines, NEW p, SavePedigreeEdge(l, p) \/ DeletePedigreeEdge(l, p)
  PROVE  AgreeInv'
<1>1. Took(l)
  BY OtherCalls
<1>2. \A k : Postgres!All({k}, Gone) = Row(k, Gone)
  BY DEF Postgres!All, Row
<1>3. /\ mem'.families = mem.families /\ mem'.persons = mem.persons
      /\ mem'.exids = mem.exids /\ lite'.exids = lite.exids /\ pg'.exids = pg.exids
      /\ OthersOnly
  BY DEF SavePedigreeEdge, Memory!SavePedigreeEdge, Sqlite!SavePedigreeEdge, Postgres!SavePedigreeEdge,
     DeletePedigreeEdge, Memory!DeletePedigreeEdge, Sqlite!DeletePedigreeEdge, Postgres!DeletePedigreeEdge,
     IInv, IsStore, OthersOnly
<1>4. lite'.edges = mem'.edges /\ pg'.edges = mem'.edges
  <2>1. CASE SavePedigreeEdge(l, p)
    BY <2>1, SameWriting DEF SavePedigreeEdge, Memory!SavePedigreeEdge, Sqlite!SavePedigreeEdge,
       Postgres!SavePedigreeEdge, IInv, IsStore, AgreeInv, TablesInv
  <2>2. CASE DeletePedigreeEdge(l, p) /\ l = Main
    BY <2>2, SameWriting DEF DeletePedigreeEdge, Memory!DeletePedigreeEdge, Sqlite!DeletePedigreeEdge,
       Postgres!DeletePedigreeEdge, IInv, IsStore, AgreeInv, TablesInv
  <2>3. CASE DeletePedigreeEdge(l, p) /\ l # Main
    BY <1>2, <2>3, SameWriting DEF DeletePedigreeEdge, Memory!DeletePedigreeEdge, Sqlite!DeletePedigreeEdge,
       Postgres!DeletePedigreeEdge, Postgres!Tombstone, IInv, IsStore, AgreeInv, TablesInv
  <2> QED
    BY <2>1, <2>2, <2>3
<1>5. Spread(made, made') /\ bornTo' = bornTo
  BY CallSpreads DEF SavePedigreeEdge, DeletePedigreeEdge
<1>6. TablesInv'
  BY <1>3, <1>4 DEF AgreeInv, TablesInv
<1> QED
  BY <1>1, <1>3, <1>5, <1>6, OthersAgree

(***************************************************************************)
(* The same of the lists of identifiers.                                   *)
(***************************************************************************)
LEMMA IdsAgree ==
  ASSUME IInv, AgreeInv, NEW l \in Lines, NEW x, NEW ids, ReplaceExternalIDs(l, x, ids)
  PROVE  AgreeInv'
<1>1. Took(l)
  BY OtherCalls
<1>2. /\ mem'.families = mem.families /\ mem'.persons = mem.persons
      /\ mem'.edges = mem.edges /\ lite'.edges = lite.edges /\ pg'.edges = pg.edges
      /\ OthersOnly
  BY DEF ReplaceExternalIDs, Memory!ReplaceExternalIDs, Sqlite!ReplaceExternalIDs, Postgres!ReplaceExternalIDs,
     IInv, IsStore, OthersOnly
<1>3. lite'.exids = mem'.exids /\ pg'.exids = mem'.exids
  BY SameWriting DEF ReplaceExternalIDs, Memory!ReplaceExternalIDs, Sqlite!ReplaceExternalIDs,
     Postgres!ReplaceExternalIDs, Memory!StoreBucket, Memory!Nothing, Sqlite!Nothing, Postgres!Nothing,
     IInv, IsStore, AgreeInv, TablesInv
<1>4. Spread(made, made') /\ bornTo' = bornTo
  BY CallSpreads DEF ReplaceExternalIDs
<1>5. TablesInv'
  BY <1>2, <1>3 DEF AgreeInv, TablesInv
<1> QED
  BY <1>1, <1>2, <1>4, <1>5, OthersAgree

-----------------------------------------------------------------------------
(* Children.                                                               *)

(***************************************************************************)
(* A bucket stored on main is main's, an empty one too, and the others     *)
(* stay; main's own is what main resolves.                                 *)
(***************************************************************************)
LEMMA BucketStored ==
  ASSUME NEW t, IsTable(t), NEW k, NEW rows
  PROVE  /\ MainBucket(Memory!StoreBucket(t, Main, k, rows), k) = rows
         /\ \A j : j # k => MainBucket(Memory!StoreBucket(t, Main, k, rows), j) = MainBucket(t, j)
         /\ \A j : Memory!ResolveBucket(t, Main, j) = MainBucket(t, j)
<1>1. \A j : Memory!ResolveBucket(t, Main, j) = MainBucket(t, j)
  BY DEF Memory!ResolveBucket, MainBucket, Memory!Nothing, Nothing
<1>2. Memory!Nothing = Nothing /\ Main \in Lines
  BY MainLine DEF Memory!Nothing, Nothing
<1>3. PICK w : w = Memory!StoreBucket(t, Main, k, rows)
  OBVIOUS
<1>4. CASE rows = Nothing
  <2>1. w = Drop(t, Main, {k})
    BY <1>2, <1>3, <1>4, SameWriting DEF Memory!StoreBucket
  <2>2. DOMAIN w[Main] = DOMAIN t[Main] \ {k} /\ \A j \in DOMAIN t[Main] \ {k} : w[Main][j] = t[Main][j]
    BY <1>2, <2>1, DropRows
  <2> QED
    BY <1>1, <1>3, <1>4, <2>2 DEF MainBucket
<1>5. CASE rows # Nothing
  <2>1. w = Put(t, Main, Row(k, rows))
    BY <1>2, <1>3, <1>5, SameWriting DEF Memory!StoreBucket
  <2>2. /\ DOMAIN w[Main] = {k} \union DOMAIN t[Main] /\ w[Main][k] = rows
        /\ \A j \in DOMAIN t[Main] : j # k => w[Main][j] = t[Main][j]
    BY <1>2, <2>1, PutRow
  <2> QED
    BY <1>1, <1>3, <2>2 DEF MainBucket
<1> QED
  BY <1>4, <1>5

(***************************************************************************)
(* Stores after a call: the other lines as before.                         *)
(***************************************************************************)
LEMMA TookLines ==
  ASSUME NEW l, Took(l)
  PROVE  \A m \in Lines \ {l} :
           /\ mem'.kids[m] = mem.kids[m] /\ lite'.kids[m] = lite.kids[m] /\ pg'.kids[m] = pg.kids[m]
           /\ mem'.names[m] = mem.names[m] /\ lite'.names[m] = lite.names[m] /\ pg'.names[m] = pg.names[m]
BY DEF Took, EditStore, SqlEdit, Edit, Touches

\* No name and no row of a person is written.
NamesLeft ==
  /\ mem'.names = mem.names /\ lite'.names = lite.names /\ pg'.names = pg.names
  /\ mem'.persons = mem.persons

(***************************************************************************)
(* Such a call keeps what is said of names.                                *)
(***************************************************************************)
LEMMA NamesLeftAgree ==
  ASSUME IInv, AgreeInv, NEW l \in Lines, Took(l), NamesLeft, Spread(made, made'), bornTo' = bornTo,
         TablesInv', KidsInv'
  PROVE  AgreeInv'
<1>1. BucketsInv'
  BY TookKeeps, SameBuckets DEF AgreeInv, NamesLeft
<1>2. KnownNames(lite.names, made)
  BY DEF IInv, NamesInv
<1>3. \A m \in Lines : Taken(lite.names, lite'.names, m) /\ Taken(pg.names, pg'.names, m)
  BY DEF NamesLeft, Taken
<1>4. BornInv'
  BY <1>2, <1>3, KeepsBorn DEF AgreeInv, NamesLeft
<1> QED
  BY <1>1, <1>4 DEF AgreeInv

(***************************************************************************)
(* A child saved.                                                          *)
(***************************************************************************)
LEMMA SaveFamilyChildAgrees ==
  ASSUME IInv, AgreeInv, NEW l \in Lines, NEW f \in Families, NEW p \in Persons, SaveFamilyChild(l, f, p)
  PROVE  AgreeInv'
<1>1. /\ Took(l) /\ IsTable(mem.kids) /\ IsTable(lite.kids) /\ IsTable(pg.kids) /\ Main \in Lines
      /\ KidsInv /\ StaysDeleted(mem.families, mem'.families) /\ l # Gone
  BY OtherCalls, TookKeeps, MainLine, GoneIsApart DEF IInv, IsStore, AgreeInv, Lines
<1>2. /\ mem'.kids = Memory!StoreBucket(mem.kids, l, f,
                       Memory!Over(Memory!Row(p, l), Memory!ResolveBucket(mem.kids, l, f)))
      /\ lite'.kids = Put(lite.kids, l, Row(<<f, p>>, l))
      /\ pg'.kids = Put(pg.kids, l, Row(<<f, p>>, l))
      /\ mem'.families = mem.families /\ NamesLeft
      /\ mem'.edges = mem.edges /\ lite'.edges = lite.edges /\ pg'.edges = pg.edges
      /\ mem'.exids = mem.exids /\ lite'.exids = lite.exids /\ pg'.exids = pg.exids
  BY SameWriting DEF SaveFamilyChild, Memory!SaveFamilyChild, Memory!GetFamilyChildren, Sqlite!SaveFamilyChild,
     Postgres!SaveFamilyChild, IInv, IsStore, NamesLeft
<1>3. /\ DOMAIN lite'.kids[l] = {<<f, p>>} \union DOMAIN lite.kids[l] /\ lite'.kids[l][<<f, p>>] = l
      /\ \A k \in DOMAIN lite.kids[l] : k # <<f, p>> => lite'.kids[l][k] = lite.kids[l][k]
      /\ DOMAIN pg'.kids[l] = {<<f, p>>} \union DOMAIN pg.kids[l] /\ pg'.kids[l][<<f, p>>] = l
      /\ \A k \in DOMAIN pg.kids[l] : k # <<f, p>> => pg'.kids[l][k] = pg.kids[l][k]
  BY <1>1, <1>2, PutRow
<1>4. Spread(made, made') /\ bornTo' = bornTo
  BY CallSpreads DEF SaveFamilyChild
<1>5. TablesInv'
  BY <1>2 DEF AgreeInv, TablesInv, NamesLeft
<1>6. KidsInv'
  <2>1. CASE l = Main
    <3>1. lite'.kids[Main] = pg'.kids[Main]
      <4>1. Put(lite.kids, Main, Row(<<f, p>>, l))[Main] = Over(Row(<<f, p>>, l), lite.kids[Main])
        BY <1>1, PutTouches
      <4>2. Put(pg.kids, Main, Row(<<f, p>>, l))[Main] = Over(Row(<<f, p>>, l), pg.kids[Main])
        BY <1>1, PutTouches
      <4> QED
        BY <1>1, <1>2, <2>1, <4>1, <4>2 DEF KidsInv
    <3>2. \A k \in DOMAIN lite'.kids[Main] : lite'.kids[Main][k] # Gone
      BY <1>1, <1>3, <2>1 DEF KidsInv
    <3>3. PICK bucket, rows : bucket = MainBucket(mem.kids, f) /\ rows = Memory!Over(Memory!Row(p, l), bucket)
      OBVIOUS
    <3>4. MainBucket(mem'.kids, f) = rows /\ \A g : g # f => MainBucket(mem'.kids, g) = MainBucket(mem.kids, g)
      BY <1>1, <1>2, <2>1, <3>3, BucketStored
    <3>5. DOMAIN rows = {p} \union DOMAIN bucket /\ rows[p] = l /\ \A j \in DOMAIN bucket : j # p => rows[j] = bucket[j]
      BY <3>3 DEF Memory!Over, Memory!Row
    <3>6. \A g, q : <<g, q>> = <<f, p>> <=> g = f /\ q = p
      OBVIOUS
    <3>7. KidsOnMain(bucket, lite.kids, f)
      BY <1>1, <3>3 DEF KidsInv
    <3>8. KidsOnMain(rows, lite'.kids, f)
      <4>1. ChildrenOnMain(lite'.kids, f) = {p} \union ChildrenOnMain(lite.kids, f)
        BY <1>3, <2>1, <3>6 DEF ChildrenOnMain
      <4>2. ASSUME NEW q \in ChildrenOnMain(lite'.kids, f) PROVE rows[q] = lite'.kids[Main][<<f, q>>]
        BY <1>3, <2>1, <3>5, <3>6, <3>7, <4>1 DEF KidsOnMain, ChildrenOnMain
      <4> QED
        BY <3>5, <3>7, <4>1, <4>2 DEF KidsOnMain
    <3>9. ASSUME NEW g \in Families, g # f PROVE KidsOnMain(MainBucket(mem'.kids, g), lite'.kids, g)
      <4>1. KidsOnMain(MainBucket(mem.kids, g), lite.kids, g)
        BY <1>1 DEF KidsInv
      <4>2. ChildrenOnMain(lite'.kids, g) = ChildrenOnMain(lite.kids, g)
        BY <1>3, <2>1, <3>6, <3>9 DEF ChildrenOnMain
      <4> QED
        BY <1>3, <2>1, <3>4, <3>6, <3>9, <4>1, <4>2 DEF KidsOnMain, ChildrenOnMain
    <3> QED
      BY <1>1, <2>1, <3>1, <3>2, <3>4, <3>8, <3>9, TookLines, MainLine, MainKids
  <2>2. CASE l # Main
    <3>1. ASSUME NEW g \in Families, NEW q \in Persons
          PROVE  DeletedOn(mem'.families, l, g) \/ SameRow(lite'.kids, pg'.kids, l, <<g, q>>)
      BY <1>1, <1>2, <1>3, <2>2 DEF KidsInv, SameRow, Lines
    <3> QED
      BY <1>1, <2>2, <3>1, TookLines, BranchKids DEF Lines
  <2> QED
    BY <2>1, <2>2
<1> QED
  BY <1>1, <1>2, <1>4, <1>5, <1>6, NamesLeftAgree

(***************************************************************************)
(* A child taken out.  SaveFamilyChild's like: the row is dropped on main, *)
(* and both SQL stores leave a tombstone on a branch.                      *)
(***************************************************************************)
LEMMA DeleteFamilyChildAgrees ==
  ASSUME IInv, AgreeInv, NEW l \in Lines, NEW f \in Families, NEW p \in Persons, DeleteFamilyChild(l, f, p)
  PROVE  AgreeInv'
<1>1. /\ Took(l) /\ IsTable(mem.kids) /\ IsTable(lite.kids) /\ IsTable(pg.kids) /\ Main \in Lines
      /\ KidsInv /\ StaysDeleted(mem.families, mem'.families)
  BY OtherCalls, TookKeeps, MainLine DEF IInv, IsStore, AgreeInv
<1>2. ~DeletedOn(mem.families, l, f) /\ <<f, p>> \in DOMAIN lite.kids[l] \union DOMAIN lite.kids[Main]
  <2>1. ~DeletedOn(mem.families, l, f)
    BY Seen DEF DeleteFamilyChild
  <2>2. p \in DOMAIN Sqlite!GetFamilyChildren(l, f)
    BY DEF DeleteFamilyChild
  <2>3. Sqlite!Winner(lite.kids, l, <<f, p>>) # Gone
    BY <2>2 DEF Sqlite!GetFamilyChildren
  <2> QED
    BY <2>1, <2>3 DEF Sqlite!Winner
<1>3. /\ mem'.kids = Memory!StoreBucket(mem.kids, l, f, Memory!Without(Memory!ResolveBucket(mem.kids, l, f), p))
      /\ mem'.families = mem.families /\ NamesLeft
      /\ mem'.edges = mem.edges /\ lite'.edges = lite.edges /\ pg'.edges = pg.edges
      /\ mem'.exids = mem.exids /\ lite'.exids = lite.exids /\ pg'.exids = pg.exids
  BY DEF DeleteFamilyChild, Memory!DeleteFamilyChild, Memory!GetFamilyChildren, Sqlite!DeleteFamilyChild,
     Postgres!DeleteFamilyChild, IInv, IsStore, NamesLeft
<1>4. Spread(made, made') /\ bornTo' = bornTo
  BY CallSpreads DEF DeleteFamilyChild
<1>5. TablesInv'
  BY <1>3 DEF AgreeInv, TablesInv, NamesLeft
<1>6. \A g, q : <<g, q>> = <<f, p>> <=> g = f /\ q = p
  OBVIOUS
<1>7. KidsInv'
  <2>1. CASE l = Main
    <3>1. lite'.kids = Drop(lite.kids, Main, {<<f, p>>}) /\ pg'.kids = Drop(pg.kids, Main, {<<f, p>>})
      BY <2>1, SameWriting DEF DeleteFamilyChild, Sqlite!DeleteFamilyChild, Postgres!DeleteFamilyChild, IInv, IsStore
    <3>2. /\ DOMAIN lite'.kids[Main] = DOMAIN lite.kids[Main] \ {<<f, p>>}
          /\ \A k \in DOMAIN lite.kids[Main] \ {<<f, p>>} : lite'.kids[Main][k] = lite.kids[Main][k]
      BY <1>1, <3>1, DropRows
    <3>3. lite'.kids[Main] = pg'.kids[Main]
      BY <1>1, <3>1 DEF KidsInv, Drop, IsTable
    <3>4. \A k \in DOMAIN lite'.kids[Main] : lite'.kids[Main][k] # Gone
      BY <1>1, <3>2 DEF KidsInv
    <3>5. PICK bucket, rows : bucket = MainBucket(mem.kids, f) /\ rows = Memory!Without(bucket, p)
      OBVIOUS
    <3>6. MainBucket(mem'.kids, f) = rows /\ \A g : g # f => MainBucket(mem'.kids, g) = MainBucket(mem.kids, g)
      BY <1>1, <1>3, <2>1, <3>5, BucketStored
    <3>7. DOMAIN rows = DOMAIN bucket \ {p} /\ \A j \in DOMAIN bucket : j # p => rows[j] = bucket[j]
      BY <3>5 DEF Memory!Without, Memory!Restrict
    <3>8. KidsOnMain(rows, lite'.kids, f)
      <4>1. KidsOnMain(bucket, lite.kids, f)
        BY <1>1, <3>5 DEF KidsInv
      <4>2. ChildrenOnMain(lite'.kids, f) = ChildrenOnMain(lite.kids, f) \ {p}
        BY <1>6, <3>2 DEF ChildrenOnMain
      <4>3. ASSUME NEW q \in ChildrenOnMain(lite'.kids, f) PROVE rows[q] = lite'.kids[Main][<<f, q>>]
        BY <1>6, <3>2, <3>7, <4>1, <4>2 DEF KidsOnMain, ChildrenOnMain
      <4> QED
        BY <3>7, <4>1, <4>2, <4>3 DEF KidsOnMain
    <3>9. ASSUME NEW g \in Families, g # f PROVE KidsOnMain(MainBucket(mem'.kids, g), lite'.kids, g)
      <4>1. KidsOnMain(MainBucket(mem.kids, g), lite.kids, g)
        BY <1>1 DEF KidsInv
      <4>2. ChildrenOnMain(lite'.kids, g) = ChildrenOnMain(lite.kids, g)
        BY <1>6, <3>2, <3>9 DEF ChildrenOnMain
      <4> QED
        BY <1>6, <3>2, <3>6, <3>9, <4>1, <4>2 DEF KidsOnMain, ChildrenOnMain
    <3> QED
      BY <1>1, <2>1, <3>3, <3>4, <3>6, <3>8, <3>9, TookLines, MainLine, MainKids
  <2>2. CASE l # Main
    <3>1. l \in Branches
      BY <2>2 DEF Lines
    <3>2. <<f, p>> \in DOMAIN pg.kids[l] \union DOMAIN pg.kids[Main]
      BY <1>1, <1>2, <3>1 DEF KidsInv, SameRow
    <3>3. Postgres!All({<<f, p>>}, Gone) = Row(<<f, p>>, Gone)
      BY DEF Postgres!All, Row
    <3>4. {<<f, p>>} \intersect Postgres!Keys(pg.kids, l) = {<<f, p>>}
      BY <3>2 DEF Postgres!Keys
    <3>5. lite'.kids = Put(lite.kids, l, Row(<<f, p>>, Gone)) /\ pg'.kids = Put(pg.kids, l, Row(<<f, p>>, Gone))
      BY <2>2, <3>3, <3>4, SameWriting DEF DeleteFamilyChild, Sqlite!DeleteFamilyChild, Postgres!DeleteFamilyChild,
         Postgres!Tombstone, IInv, IsStore
    <3>6. /\ DOMAIN lite'.kids[l] = {<<f, p>>} \union DOMAIN lite.kids[l] /\ lite'.kids[l][<<f, p>>] = Gone
          /\ \A k \in DOMAIN lite.kids[l] : k # <<f, p>> => lite'.kids[l][k] = lite.kids[l][k]
          /\ DOMAIN pg'.kids[l] = {<<f, p>>} \union DOMAIN pg.kids[l] /\ pg'.kids[l][<<f, p>>] = Gone
          /\ \A k \in DOMAIN pg.kids[l] : k # <<f, p>> => pg'.kids[l][k] = pg.kids[l][k]
      BY <1>1, <3>5, PutRow
    <3>7. ASSUME NEW g \in Families, NEW q \in Persons
          PROVE  DeletedOn(mem'.families, l, g) \/ SameRow(lite'.kids, pg'.kids, l, <<g, q>>)
      BY <1>1, <1>3, <3>1, <3>6 DEF KidsInv, SameRow
    <3> QED
      BY <1>1, <3>1, <3>7, TookLines, BranchKids
  <2> QED
    BY <2>1, <2>2
<1> QED
  BY <1>1, <1>3, <1>4, <1>5, <1>7, NamesLeftAgree

(***************************************************************************)
(* A family deleted.  On main its children go in every store; on a branch  *)
(* no other family's rows are touched.                                     *)
(***************************************************************************)
LEMMA DeleteFamilyAgrees ==
  ASSUME IInv, AgreeInv, NEW l \in Lines, NEW f \in Families, DeleteFamily(l, f)
  PROVE  AgreeInv'
<1>1. /\ Took(l) /\ IsTable(mem.kids) /\ IsTable(lite.kids) /\ IsTable(pg.kids) /\ IsTable(mem.families)
      /\ Main \in Lines /\ KidsInv /\ StaysDeleted(mem.families, mem'.families)
  BY DeleteFamilyTook, TookKeeps, MainLine DEF IInv, IsStore, AgreeInv
<1>2. /\ NamesLeft /\ mem'.edges = mem.edges /\ lite'.edges = lite.edges /\ pg'.edges = pg.edges
      /\ mem'.families = IF l = Main THEN Drop(mem.families, l, {f}) ELSE Put(mem.families, l, Row(f, Gone))
  BY SameWriting DEF DeleteFamily, Memory!DeleteFamily, Sqlite!DeleteFamily, Postgres!DeleteFamily,
     IInv, IsStore, NamesLeft
<1>3. Spread(made, made') /\ bornTo' = bornTo
  BY CallSpreads DEF DeleteFamily
<1>4. lite'.exids = mem'.exids /\ pg'.exids = mem'.exids
  BY SameWriting DEF DeleteFamily, Memory!DeleteFamily, Sqlite!DeleteFamily, Postgres!DeleteFamily,
     Memory!Nothing, Sqlite!Nothing, Postgres!Nothing, IInv, IsStore, AgreeInv, TablesInv
<1>5. \A m \in Lines : DOMAIN mem'.families[m] \subseteq Families
  <2>1. CASE l = Main
    BY <1>1, <1>2, <2>1, DropRows DEF AgreeInv, TablesInv
  <2>2. CASE l # Main
    BY <1>1, <1>2, <2>2, PutRow DEF AgreeInv, TablesInv
  <2> QED
    BY <2>1, <2>2
<1>6. TablesInv'
  BY <1>2, <1>4, <1>5 DEF AgreeInv, TablesInv, NamesLeft
<1>7. KidsInv'
  <2>1. CASE l = Main
    <3>1. PICK S : S = {f} \X Persons
      OBVIOUS
    <3>2. /\ mem'.kids = Drop(mem.kids, Main, {f})
          /\ lite'.kids = Drop(lite.kids, Main, S) /\ pg'.kids = Drop(pg.kids, Main, S)
      BY <2>1, <3>1, SameWriting DEF DeleteFamily, Memory!DeleteFamily, Sqlite!DeleteFamily, Postgres!DeleteFamily,
         IInv, IsStore
    <3>3. /\ DOMAIN lite'.kids[Main] = DOMAIN lite.kids[Main] \ S
          /\ \A k \in DOMAIN lite.kids[Main] \ S : lite'.kids[Main][k] = lite.kids[Main][k]
      BY <1>1, <3>2, DropRows
    <3>4. /\ DOMAIN mem'.kids[Main] = DOMAIN mem.kids[Main] \ {f}
          /\ \A k \in DOMAIN mem.kids[Main] \ {f} : mem'.kids[Main][k] = mem.kids[Main][k]
      BY <1>1, <3>2, DropRows
    <3>5. lite'.kids[Main] = pg'.kids[Main]
      BY <1>1, <3>2 DEF KidsInv, Drop, IsTable
    <3>6. \A k \in DOMAIN lite'.kids[Main] : lite'.kids[Main][k] # Gone
      BY <1>1, <3>3 DEF KidsInv
    <3>7. KidsOnMain(MainBucket(mem'.kids, f), lite'.kids, f)
      <4>1. MainBucket(mem'.kids, f) = Nothing /\ DOMAIN Nothing = {}
        BY <3>4 DEF MainBucket, Nothing
      <4>2. ChildrenOnMain(lite'.kids, f) = {}
        BY <3>1, <3>3 DEF ChildrenOnMain
      <4> QED
        BY <4>1, <4>2 DEF KidsOnMain
    <3>8. ASSUME NEW g \in Families, g # f PROVE KidsOnMain(MainBucket(mem'.kids, g), lite'.kids, g)
      <4>1. KidsOnMain(MainBucket(mem.kids, g), lite.kids, g)
        BY <1>1 DEF KidsInv
      <4>2. MainBucket(mem'.kids, g) = MainBucket(mem.kids, g)
        BY <3>4, <3>8 DEF MainBucket
      <4>3. \A q : <<g, q>> \notin S
        BY <3>1, <3>8
      <4>4. ChildrenOnMain(lite'.kids, g) = ChildrenOnMain(lite.kids, g)
        BY <3>3, <4>3 DEF ChildrenOnMain
      <4> QED
        BY <3>3, <4>1, <4>2, <4>3, <4>4 DEF KidsOnMain, ChildrenOnMain
    <3> QED
      BY <1>1, <2>1, <3>5, <3>6, <3>7, <3>8, TookLines, MainLine, MainKids
  <2>2. CASE l # Main
    <3>1. l \in Branches
      BY <2>2 DEF Lines
    <3>2. PICK S, T, U : /\ S = {f} \X Persons
                         /\ T = {k \in DOMAIN lite.kids[Main] : k[1] = f}
                         /\ U = {k \in DOMAIN Postgres!Children(l) : k[1] = f}
      OBVIOUS
    <3>3. PICK t, fs, gs : t = Drop(lite.kids, l, S) /\ fs = Postgres!All(T, Gone) /\ gs = Postgres!All(U, Gone)
      OBVIOUS
    <3>4. \A x : Sqlite!All(x, Gone) = Postgres!All(x, Gone)
      BY DEF Sqlite!All, Postgres!All
    <3>5. lite'.kids = Put(t, l, fs) /\ pg'.kids = Put(pg.kids, l, gs)
      BY <2>2, <3>2, <3>3, <3>4, SameWriting DEF DeleteFamily, Sqlite!DeleteFamily, Sqlite!TombstoneChildrenBranch,
         Postgres!DeleteFamily, Postgres!Tombstone, IInv, IsStore
    <3>6. DOMAIN fs = T /\ DOMAIN gs = U
      BY <3>3 DEF Postgres!All
    <3>7. /\ IsTable(t) /\ DOMAIN t[l] = DOMAIN lite.kids[l] \ S
          /\ \A k \in DOMAIN lite.kids[l] \ S : t[l][k] = lite.kids[l][k]
      BY <1>1, <3>3, DropRows, DropTouches DEF Touches
    <3>8. /\ DOMAIN lite'.kids[l] = T \union DOMAIN t[l]
          /\ \A k \in DOMAIN t[l] : k \notin T => lite'.kids[l][k] = t[l][k]
      BY <3>5, <3>6, <3>7, PutRows
    <3>9. /\ DOMAIN pg'.kids[l] = U \union DOMAIN pg.kids[l]
          /\ \A k \in DOMAIN pg.kids[l] : k \notin U => pg'.kids[l][k] = pg.kids[l][k]
      BY <1>1, <3>5, <3>6, PutRows
    <3>10. DeletedOn(mem'.families, l, f)
      BY <1>1, <1>2, <2>2, PutRow DEF DeletedOn
    <3>11. ASSUME NEW g \in Families, NEW q \in Persons, g # f
           PROVE  DeletedOn(mem'.families, l, g) \/ SameRow(lite'.kids, pg'.kids, l, <<g, q>>)
      <4>1. <<g, q>> \notin S /\ <<g, q>> \notin T /\ <<g, q>> \notin U
        BY <3>2, <3>11
      <4>2. DeletedOn(mem.families, l, g) \/ SameRow(lite.kids, pg.kids, l, <<g, q>>)
        BY <1>1, <3>1 DEF KidsInv
      <4> QED
        BY <1>1, <3>1, <3>7, <3>8, <3>9, <4>1, <4>2 DEF SameRow, StaysDeleted
    <3> QED
      BY <1>1, <3>1, <3>10, <3>11, TookLines, BranchKids
  <2> QED
    BY <2>1, <2>2
<1> QED
  BY <1>1, <1>2, <1>3, <1>6, <1>7, NamesLeftAgree

-----------------------------------------------------------------------------
(* Persons deleted.                                                        *)

\* The bucket `is' has what `was' has, but for k.
LacksOnly(was, is, k) == DOMAIN is = DOMAIN was \ {k} /\ \A j \in DOMAIN was : j # k => is[j] = was[j]

(***************************************************************************)
(* In memory a bucket of main loses the child, and goes when it was the    *)
(* last one: what is left reads the same.                                  *)
(***************************************************************************)
LEMMA ChildDropped ==
  ASSUME NEW t, IsTable(t), NEW p, NEW w, w = Memory!DropChild(t, p), NEW f
  PROVE  LacksOnly(MainBucket(t, f), MainBucket(w, f), p)
<1>1. PICK g, cleared : g = t[Main] /\ cleared = [k \in DOMAIN g |-> Memory!Without(g[k], p)]
  OBVIOUS
<1>2. PICK S : S = {k \in DOMAIN cleared : cleared[k] # Memory!Nothing}
  OBVIOUS
<1>3. w[Main] = Memory!Restrict(cleared, S)
  BY <1>1, <1>2, MainLine DEF Memory!DropChild, IsTable
<1>4. DOMAIN cleared = DOMAIN g
  BY <1>1
<1>5. DOMAIN w[Main] = S /\ \A k \in S : w[Main][k] = cleared[k]
  BY <1>2, <1>3, <1>4 DEF Memory!Restrict
<1>6. Nothing = Memory!Nothing /\ DOMAIN Nothing = {}
  BY DEF Nothing, Memory!Nothing
<1>7. CASE f \in DOMAIN g
  <2>1. PICK rows, left : rows = g[f] /\ left = cleared[f]
    OBVIOUS
  <2>2. left = Memory!Without(rows, p)
    BY <1>1, <1>7, <2>1
  <2>3. DOMAIN left = DOMAIN rows \ {p} /\ \A q \in DOMAIN rows : q # p => left[q] = rows[q]
    BY <2>2 DEF Memory!Without, Memory!Restrict
  <2>4. MainBucket(t, f) = rows
    BY <1>1, <1>7, <2>1 DEF MainBucket
  <2>5. MainBucket(w, f) = left
    BY <1>2, <1>4, <1>5, <1>6, <1>7, <2>1 DEF MainBucket
  <2> QED
    BY <2>3, <2>4, <2>5 DEF LacksOnly
<1>8. CASE f \notin DOMAIN g
  BY <1>1, <1>2, <1>4, <1>5, <1>6, <1>8 DEF MainBucket, LacksOnly
<1> QED
  BY <1>7, <1>8

(***************************************************************************)
(* Tables that have the same rows on main, and lose the same ones.         *)
(***************************************************************************)
LEMMA DroppedAlike ==
  ASSUME NEW t, NEW w, IsTable(t), IsTable(w), t[Main] = w[Main], NEW S
  PROVE  Drop(t, Main, S)[Main] = Drop(w, Main, S)[Main]
BY MainLine DEF Drop, IsTable

(***************************************************************************)
(* So when a person goes from main, the child rows go in every store.      *)
(***************************************************************************)
LEMMA KidsDropped ==
  ASSUME KidsInv, NEW p, StaysDeleted(mem.families, mem'.families),
         IsTable(mem.kids), IsTable(lite.kids), IsTable(pg.kids), NEW S, S = Families \X {p},
         mem'.kids = Memory!DropChild(mem.kids, p),
         lite'.kids = Drop(lite.kids, Main, S), pg'.kids = Drop(pg.kids, Main, S)
  PROVE  KidsInv'
<1>1. Main \in Lines /\ \A b \in Branches : b \in Lines \ {Main}
  BY MainLine
<1>2. /\ DOMAIN lite'.kids[Main] = DOMAIN lite.kids[Main] \ S
      /\ \A k \in DOMAIN lite.kids[Main] \ S : lite'.kids[Main][k] = lite.kids[Main][k]
      /\ \A m \in Lines \ {Main} : lite'.kids[m] = lite.kids[m]
  BY <1>1, DropRows
<1>3. \A m \in Lines \ {Main} : pg'.kids[m] = pg.kids[m]
  BY <1>1, DropRows
<1>4. lite'.kids[Main] = pg'.kids[Main]
  BY DroppedAlike DEF KidsInv
<1>5. \A k \in DOMAIN lite'.kids[Main] : lite'.kids[Main][k] # Gone
  BY <1>2 DEF KidsInv
<1>6. ASSUME NEW f \in Families PROVE KidsOnMain(MainBucket(mem'.kids, f), lite'.kids, f)
  <2>1. PICK was, is : was = MainBucket(mem.kids, f) /\ is = MainBucket(mem'.kids, f)
    OBVIOUS
  <2>2. DOMAIN is = DOMAIN was \ {p} /\ \A q \in DOMAIN was : q # p => is[q] = was[q]
    <3>1. LacksOnly(was, is, p)
      BY <2>1, ChildDropped
    <3> QED
      BY <3>1 DEF LacksOnly
  <2>3. KidsOnMain(was, lite.kids, f)
    BY <2>1 DEF KidsInv
  <2>4. \A q : <<f, q>> \in S <=> q = p
    OBVIOUS
  <2>5. ChildrenOnMain(lite'.kids, f) = ChildrenOnMain(lite.kids, f) \ {p}
    BY <1>2, <2>4 DEF ChildrenOnMain
  <2>6. ASSUME NEW q \in ChildrenOnMain(lite'.kids, f) PROVE is[q] = lite'.kids[Main][<<f, q>>]
    BY <1>2, <2>2, <2>3, <2>4, <2>5 DEF KidsOnMain, ChildrenOnMain
  <2> QED
    BY <2>1, <2>2, <2>3, <2>5, <2>6 DEF KidsOnMain
<1> QED
  BY <1>1, <1>2, <1>3, <1>4, <1>5, <1>6, MainKids

(***************************************************************************)
(* Which of a person's names PostgreSQL resolves for a line: the line's    *)
(* own row of that owner decides, if it has one, else main's.              *)
(***************************************************************************)
LEMMA NamesSeen ==
  ASSUME NEW l \in Lines, NEW p, NEW n, MainNames(lite.names, pg.names)
  PROVE  n \in DOMAIN Postgres!GetPersonNames(l, p) <=>
           \/ HasName(pg.names, l, p, n) /\ pg.names[l][n].value # Gone
           \/ ~HasName(pg.names, l, p, n) /\ HasName(pg.names, Main, p, n)
<1> DEFINE Of(k) == {m \in DOMAIN pg.names[k] : pg.names[k][m].owner = p}
<1>1. PICK rows : rows = Postgres!NamesOf(l, p)
  OBVIOUS
<1>2. PICK t : t = [m \in Lines |-> Postgres!Restrict(pg.names[m], Of(m))]
  OBVIOUS
<1>3. \A k \in {l, Main} : DOMAIN t[k] = Of(k) /\ \A m \in Of(k) : t[k][m] = pg.names[k][m]
  BY <1>2, MainLine DEF Postgres!Restrict
<1>4. rows = Postgres!Distinct(t, l)
  BY <1>1, <1>2 DEF Postgres!NamesOf, Postgres!Lines, Lines
<1>5. /\ DOMAIN rows = Of(l) \union Of(Main)
      /\ \A k \in DOMAIN rows : rows[k] = IF k \in Of(l) THEN pg.names[l][k] ELSE pg.names[Main][k]
  BY <1>3, <1>4 DEF Postgres!Distinct, Postgres!Keys, Postgres!Winner
<1>6. DOMAIN Postgres!GetPersonNames(l, p) = {m \in DOMAIN rows : rows[m].value # Gone}
  BY <1>1 DEF Postgres!GetPersonNames
<1>7. \A k \in DOMAIN pg.names[Main] : pg.names[Main][k].value # Gone
  BY DEF MainNames
<1> QED
  BY <1>5, <1>6, <1>7 DEF HasName

(***************************************************************************)
(* What the marked rows say: nothing, and the others what they said.       *)
(***************************************************************************)
LEMMA MarkedValues ==
  ASSUME NEW t, IsTable(t), NEW l \in Lines, NEW S
  PROVE  /\ \A k \in S : Marked(t, l, S)[l][k].value = Gone
         /\ \A k \in DOMAIN t[l] : k \notin S => Marked(t, l, S)[l][k] = t[l][k]
<1>1. PICK f : f = [n \in S |-> [owner |-> IF n \in DOMAIN t[l] THEN t[l][n].owner ELSE t[Main][n].owner,
                                 value |-> Gone]]
  OBVIOUS
<1>2. DOMAIN f = S /\ \A k \in S : f[k].value = Gone
  BY <1>1
<1>3. Marked(t, l, S) = Put(t, l, f)
  BY <1>1 DEF Marked
<1> QED
  BY <1>2, <1>3, PutRows

(***************************************************************************)
(* Deleting a person on a branch does to the names of anybody else the     *)
(* same in both SQL stores.                                                *)
(***************************************************************************)
LEMMA OthersNames ==
  ASSUME IInv, AgreeInv, NEW l \in Branches, NEW p, NEW own, NEW main, NEW seen,
         own = {n \in DOMAIN lite.names[l] : lite.names[l][n].owner = p},
         main = {n \in DOMAIN lite.names[Main] : lite.names[Main][n].owner = p},
         seen = DOMAIN Postgres!GetPersonNames(l, p),
         lite'.names = Marked(Drop(lite.names, l, own), l, main),
         pg'.names = Marked(pg.names, l, seen)
  PROVE  /\ \A q \in Persons, n \in Names :
              q # p /\ SameName(lite.names, pg.names, l, q, n) => SameName(lite'.names, pg'.names, l, q, n)
         /\ \A m \in Lines : Taken(lite.names, lite'.names, m) /\ Taken(pg.names, pg'.names, m)
<1>1. /\ IsTable(lite.names) /\ IsTable(pg.names) /\ l \in Lines /\ Main \in Lines \ {l}
      /\ MainNames(lite.names, pg.names) /\ lite.names[Main] = pg.names[Main]
  BY MainLine DEF IInv, IsStore, NamesInv, MainNames
<1>2. PICK t : t = Drop(lite.names, l, own)
  OBVIOUS
<1>3. /\ DOMAIN t[l] = DOMAIN lite.names[l] \ own
      /\ \A k \in DOMAIN lite.names[l] \ own : t[l][k] = lite.names[l][k]
      /\ \A m \in Lines \ {l} : t[m] = lite.names[m]
      /\ IsTable(t)
  BY <1>1, <1>2, DropRows, DropTouches DEF Touches
<1>4. PICK w, x : w = Marked(t, l, main) /\ x = Marked(pg.names, l, seen)
  OBVIOUS
<1>5. lite'.names = w /\ pg'.names = x
  BY <1>2, <1>4
<1>6. /\ DOMAIN w[l] = main \union DOMAIN t[l]
      /\ \A k \in DOMAIN t[l] : w[l][k].owner = t[l][k].owner
      /\ \A k \in main : k \notin DOMAIN t[l] => w[l][k].owner = t[Main][k].owner
      /\ \A m \in Lines \ {l} : w[m] = t[m]
  BY <1>1, <1>3, <1>4, MarkedRows
<1>7. /\ \A k \in main : w[l][k].value = Gone
      /\ \A k \in DOMAIN t[l] : k \notin main => w[l][k] = t[l][k]
  BY <1>1, <1>3, <1>4, MarkedValues
<1>8. /\ DOMAIN x[l] = seen \union DOMAIN pg.names[l]
      /\ \A k \in DOMAIN pg.names[l] : x[l][k].owner = pg.names[l][k].owner
      /\ \A k \in seen : k \notin DOMAIN pg.names[l] => x[l][k].owner = pg.names[Main][k].owner
      /\ \A m \in Lines \ {l} : x[m] = pg.names[m]
  BY <1>1, <1>4, MarkedRows
<1>9. /\ \A k \in seen : x[l][k].value = Gone
      /\ \A k \in DOMAIN pg.names[l] : k \notin seen => x[l][k] = pg.names[l][k]
  BY <1>1, <1>4, MarkedValues
<1>10. \A n : n \in seen <=> \/ HasName(pg.names, l, p, n) /\ pg.names[l][n].value # Gone
                             \/ ~HasName(pg.names, l, p, n) /\ n \in main
  BY <1>1, NamesSeen DEF HasName
<1>11. ASSUME NEW q \in Persons, NEW n \in Names, q # p, SameName(lite.names, pg.names, l, q, n)
       PROVE  SameName(w, x, l, q, n)
  <2>1. HasName(w, l, q, n) <=> HasName(lite.names, l, q, n)
    BY <1>1, <1>3, <1>6, <1>11 DEF HasName
  <2>2. HasName(x, l, q, n) <=> HasName(pg.names, l, q, n)
    BY <1>1, <1>8, <1>10, <1>11 DEF HasName
  <2>3. ASSUME HasName(lite.names, l, q, n) PROVE w[l][n].value = x[l][n].value
    <3>1. HasName(pg.names, l, q, n) /\ lite.names[l][n].value = pg.names[l][n].value
      BY <1>11, <2>3 DEF SameName
    <3>2. n \in seen <=> n \in main
      BY <1>10, <1>11, <3>1 DEF HasName
    <3>3. n \in DOMAIN t[l] /\ t[l][n] = lite.names[l][n]
      BY <1>3, <1>11, <2>3 DEF HasName
    <3> QED
      BY <1>7, <1>9, <3>1, <3>2, <3>3 DEF HasName
  <2> QED
    BY <1>11, <2>1, <2>2, <2>3 DEF SameName
<1>12. Taken(lite.names, w, l)
  <2>1. \A n \in DOMAIN t[l] : n \in DOMAIN lite.names[l] /\ w[l][n].owner = lite.names[l][n].owner
    BY <1>3, <1>6
  <2>2. \A n \in main : n \notin DOMAIN t[l] => n \in DOMAIN lite.names[Main] /\ w[l][n].owner = lite.names[Main][n].owner
    BY <1>1, <1>3, <1>6
  <2> QED
    BY <1>6, <2>1, <2>2 DEF Taken
<1>13. Taken(pg.names, x, l)
  <2>1. \A n \in seen : n \notin DOMAIN pg.names[l] => n \in DOMAIN pg.names[Main]
    BY <1>1, <1>10 DEF HasName
  <2> QED
    BY <1>8, <2>1 DEF Taken
<1>14. ASSUME NEW m \in Lines \ {l} PROVE Taken(lite.names, w, m) /\ Taken(pg.names, x, m)
  BY <1>3, <1>6, <1>8 DEF Taken
<1> QED
  BY <1>5, <1>11, <1>12, <1>13, <1>14

(***************************************************************************)
(* On main a person's bucket goes with the rows that it stands for.        *)
(***************************************************************************)
LEMMA NamesDropped ==
  ASSUME IInv, AgreeInv, NEW p, StaysDeleted(mem.persons, mem'.persons),
         NEW S, S = OwnedOnMain(lite.names, p),
         mem'.names = Drop(mem.names, Main, {p}),
         lite'.names = Drop(lite.names, Main, S), pg'.names = Drop(pg.names, Main, S)
  PROVE  /\ BucketsInv'
         /\ \A m \in Lines : Taken(lite.names, lite'.names, m) /\ Taken(pg.names, pg'.names, m)
<1>1. /\ IsTable(mem.names) /\ IsTable(lite.names) /\ IsTable(pg.names) /\ BucketsInv
      /\ Main \in Lines /\ \A b \in Branches : b \in Lines \ {Main}
  BY MainLine DEF IInv, IsStore, AgreeInv
<1>2. /\ DOMAIN lite'.names[Main] = DOMAIN lite.names[Main] \ S
      /\ \A k \in DOMAIN lite.names[Main] \ S : lite'.names[Main][k] = lite.names[Main][k]
      /\ \A m \in Lines \ {Main} : lite'.names[m] = lite.names[m]
  BY <1>1, DropRows
<1>3. /\ DOMAIN pg'.names[Main] = DOMAIN pg.names[Main] \ S
      /\ \A k \in DOMAIN pg.names[Main] \ S : pg'.names[Main][k] = pg.names[Main][k]
      /\ \A m \in Lines \ {Main} : pg'.names[m] = pg.names[m]
  BY <1>1, DropRows
<1>4. /\ DOMAIN mem'.names[Main] = DOMAIN mem.names[Main] \ {p}
      /\ \A k \in DOMAIN mem.names[Main] \ {p} : mem'.names[Main][k] = mem.names[Main][k]
  BY <1>1, DropRows
<1>5. ASSUME NEW q \in Persons PROVE NamesOnMain(MainBucket(mem'.names, q), lite'.names, q)
  <2>1. CASE q = p
    <3>1. MainBucket(mem'.names, q) = Nothing /\ DOMAIN Nothing = {}
      <4>1. DOMAIN Nothing = {}
        BY DEF Nothing
      <4> QED
        BY <1>4, <2>1, <4>1 DEF MainBucket
    <3>2. OwnedOnMain(lite'.names, q) = {}
      BY <1>2, <2>1 DEF OwnedOnMain
    <3> QED
      BY <3>1, <3>2 DEF NamesOnMain
  <2>2. CASE q # p
    <3>1. NamesOnMain(MainBucket(mem.names, q), lite.names, q)
      BY <1>1 DEF BucketsInv
    <3>2. MainBucket(mem'.names, q) = MainBucket(mem.names, q)
      BY <1>4, <2>2 DEF MainBucket
    <3>3. \A n \in DOMAIN lite.names[Main] : lite.names[Main][n].owner = q => n \notin S
      BY <2>2 DEF OwnedOnMain
    <3>4. OwnedOnMain(lite'.names, q) = OwnedOnMain(lite.names, q)
      BY <1>2, <3>3 DEF OwnedOnMain
    <3> QED
      BY <1>2, <3>1, <3>2, <3>3, <3>4 DEF NamesOnMain, OwnedOnMain
  <2> QED
    BY <2>1, <2>2
<1>6. BucketsInv'
  BY <1>1, <1>2, <1>3, <1>5, MainBuckets
<1>7. ASSUME NEW m \in Lines PROVE Taken(lite.names, lite'.names, m) /\ Taken(pg.names, pg'.names, m)
  BY <1>2, <1>3 DEF Taken
<1> QED
  BY <1>6, <1>7

(***************************************************************************)
(* A person deleted.                                                       *)
(***************************************************************************)
LEMMA DeletePersonAgrees ==
  ASSUME IInv, AgreeInv, NEW l \in Lines, NEW p \in Persons, DeletePerson(l, p)
  PROVE  AgreeInv'
<1>1. /\ Took(l) /\ IsStore(mem) /\ IsStore(lite) /\ IsStore(pg) /\ IsTable(mem.persons)
      /\ StaysDeleted(mem.persons, mem'.persons) /\ StaysDeleted(mem.families, mem'.families)
      /\ TablesInv /\ KidsInv /\ BucketsInv /\ BornInv
  BY DeletePersonTook, TookKeeps DEF IInv, IsStore, AgreeInv
<1>2. Spread(made, made') /\ bornTo' = bornTo /\ KnownNames(lite.names, made)
  BY CallSpreads DEF DeletePerson, IInv, NamesInv
<1>3. CASE l = Main
  <2>1. PICK S, T : S = OwnedOnMain(lite.names, p) /\ T = Families \X {p}
    OBVIOUS
  <2>2. Sqlite!DeletePersonMain(p)
    BY <1>3 DEF DeletePerson, Sqlite!DeletePerson
  <2>3. lite'.names = Drop(lite.names, Main, S)
    BY <1>1, <2>1, <2>2, SqliteCascade DEF OwnedOnMain
  <2>4. /\ mem'.names = Drop(mem.names, Main, {p}) /\ mem'.persons = Drop(mem.persons, Main, {p})
        /\ mem'.exids = Drop(mem.exids, Main, {p}) /\ mem'.edges = Drop(mem.edges, Main, {p})
        /\ mem'.kids = Memory!DropChild(mem.kids, p) /\ mem'.families = mem.families
    BY <1>1, <1>3, SameWriting DEF DeletePerson, Memory!DeletePerson, IsStore
  <2>5. /\ lite'.exids = Drop(lite.exids, Main, {p}) /\ lite'.edges = Drop(lite.edges, Main, {p})
        /\ lite'.kids = Drop(lite.kids, Main, T)
    BY <1>1, <2>1, <2>2, SameWriting DEF Sqlite!DeletePersonMain, IsStore
  <2>6. /\ pg'.exids = Drop(pg.exids, Main, {p}) /\ pg'.edges = Drop(pg.edges, Main, {p})
        /\ pg'.kids = Drop(pg.kids, Main, T) /\ pg'.names = Drop(pg.names, Main, S)
    <3>1. lite.names[Main] = pg.names[Main]
      BY DEF IInv, NamesInv, MainNames
    <3> QED
      BY <1>3, <2>1, <3>1, SameWriting DEF DeletePerson, Postgres!DeletePerson, Postgres!Cascade, OwnedOnMain
  <2>7. /\ \A m \in Lines : DOMAIN mem'.persons[m] \subseteq DOMAIN mem.persons[m]
        /\ DOMAIN mem'.persons[Main] \subseteq DOMAIN mem.persons[Main]
    BY <1>1, <2>4, MainLine, DropRows
  <2>8. TablesInv'
    BY <1>1, <2>4, <2>5, <2>6, <2>7 DEF TablesInv
  <2>9. KidsInv'
    BY <1>1, <2>1, <2>4, <2>5, <2>6, KidsDropped DEF IsStore
  <2>10. /\ BucketsInv'
         /\ \A m \in Lines : Taken(lite.names, lite'.names, m) /\ Taken(pg.names, pg'.names, m)
    BY <1>1, <2>1, <2>3, <2>4, <2>6, NamesDropped
  <2>11. BornInv'
    BY <1>1, <1>2, <2>7, <2>10, KeepsBorn
  <2> QED
    BY <2>8, <2>9, <2>10, <2>11 DEF AgreeInv
<1>4. CASE l # Main
  <2>1. l \in Branches
    BY <1>4 DEF Lines
  <2>2. PICK own, main, seen :
          /\ own = {n \in DOMAIN lite.names[l] : lite.names[l][n].owner = p}
          /\ main = {n \in DOMAIN lite.names[Main] : lite.names[Main][n].owner = p}
          /\ seen = DOMAIN Postgres!GetPersonNames(l, p)
    OBVIOUS
  <2>3. Sqlite!TombstonePersonBranch(l, p)
    BY <1>4 DEF DeletePerson, Sqlite!DeletePerson
  <2>4. lite'.names = Marked(Drop(lite.names, l, own), l, main)
    BY <1>1, <2>2, <2>3, SameWriting, Marks DEF Sqlite!TombstonePersonBranch, Sqlite!TombstoneNamesBranch, IsStore
  <2>5. pg'.names = Marked(pg.names, l, seen)
    BY <1>1, <1>4, <2>2, Marks DEF DeletePerson, Postgres!DeletePerson, IsStore
  <2>6. /\ \A q \in Persons, n \in Names :
             q # p /\ SameName(lite.names, pg.names, l, q, n) => SameName(lite'.names, pg'.names, l, q, n)
        /\ \A m \in Lines : Taken(lite.names, lite'.names, m) /\ Taken(pg.names, pg'.names, m)
    BY <2>1, <2>2, <2>4, <2>5, OthersNames
  <2>7. /\ mem'.persons = Put(mem.persons, l, Row(p, Gone)) /\ mem'.families = mem.families
        /\ mem'.kids = mem.kids /\ lite'.kids = lite.kids /\ pg'.kids = pg.kids
    BY <1>1, <1>4, <2>3, SameWriting DEF DeletePerson, Memory!DeletePerson, Sqlite!TombstonePersonBranch,
       Postgres!DeletePerson, IsStore
  <2>8. Postgres!All({p}, Gone) = Row(p, Gone)
    BY DEF Postgres!All, Row
  <2>9. /\ lite'.exids = mem'.exids /\ pg'.exids = mem'.exids
        /\ lite'.edges = mem'.edges /\ pg'.edges = mem'.edges
    BY <1>1, <1>4, <2>3, <2>8, SameWriting DEF DeletePerson, Memory!DeletePerson, Sqlite!TombstonePersonBranch,
       Postgres!DeletePerson, Postgres!Tombstone, IsStore, Memory!Nothing, Sqlite!Nothing, Postgres!Nothing, TablesInv
  <2>10. /\ DOMAIN mem'.persons[l] = {p} \union DOMAIN mem.persons[l]
         /\ mem'.persons[l][p] = Gone
         /\ \A m \in Lines \ {l} : mem'.persons[m] = mem.persons[m]
    BY <1>1, <2>7, PutRow
  <2>11. TablesInv'
    BY <1>1, <2>7, <2>9, <2>10 DEF TablesInv
  <2>12. KidsInv'
    BY <1>1, <2>7, SameKids
  <2>13. ASSUME NEW q \in Persons, NEW n \in Names
         PROVE  DeletedOn(mem'.persons, l, q) \/ SameName(lite'.names, pg'.names, l, q, n)
    <3>1. CASE q = p
      BY <2>10, <3>1 DEF DeletedOn
    <3>2. CASE q # p
      BY <1>1, <2>1, <2>6, <3>2 DEF BucketsInv, StaysDeleted
    <3> QED
      BY <3>1, <3>2
  <2>14. BucketsInv'
    BY <1>1, <2>1, <2>13, TookLines, BranchBuckets
  <2>15. mem'.persons[Main] = mem.persons[Main]
    BY <2>1, <2>10, MainLine
  <2>16. BornInv'
    BY <1>1, <1>2, <2>6, <2>15, KeepsBorn
  <2> QED
    BY <2>11, <2>12, <2>14, <2>16 DEF AgreeInv
<1> QED
  BY <1>3, <1>4

-----------------------------------------------------------------------------
(* Names saved and deleted.                                                *)

(***************************************************************************)
(* Who is seen to have a name has the row that wins, in both SQL stores.   *)
(***************************************************************************)
LEMMA NameSeen ==
  ASSUME NEW l \in Lines, NEW p, NEW n, SeesName(l, p, n)
  PROVE  /\ HasName(lite.names, l, p, n) \/ (n \notin DOMAIN lite.names[l] /\ HasName(lite.names, Main, p, n))
         /\ HasName(pg.names, l, p, n) \/ (n \notin DOMAIN pg.names[l] /\ HasName(pg.names, Main, p, n))
<1>1. HasName(lite.names, l, p, n) \/ (n \notin DOMAIN lite.names[l] /\ HasName(lite.names, Main, p, n))
  <2>1. Sqlite!GetPersonName(l, n) = {p}
    BY DEF SeesName
  <2> QED
    BY <2>1 DEF Sqlite!GetPersonName, Sqlite!Keys, Sqlite!Winner, HasName
<1>2. HasName(pg.names, l, p, n) \/ (n \notin DOMAIN pg.names[l] /\ HasName(pg.names, Main, p, n))
  <2>1. p \in Postgres!GetPersonName(l, n)
    BY DEF SeesName
  <2>2. PICK rows : rows = Postgres!Distinct(pg.names, l)
    OBVIOUS
  <2>3. n \in DOMAIN rows /\ rows[n].owner = p
    BY <2>1, <2>2 DEF Postgres!GetPersonName
  <2>4. /\ DOMAIN rows = DOMAIN pg.names[l] \union DOMAIN pg.names[Main]
        /\ \A k \in DOMAIN rows : rows[k] = IF k \in DOMAIN pg.names[l] THEN pg.names[l][k] ELSE pg.names[Main][k]
    BY <2>2 DEF Postgres!Distinct, Postgres!Keys, Postgres!Winner
  <2> QED
    BY <2>3, <2>4 DEF HasName
<1> QED
  BY <1>1, <1>2

(***************************************************************************)
(* A name that is new to a line is not seen there.                         *)
(***************************************************************************)
LEMMA NewIsUnseen ==
  ASSUME IInv, BornInv, NEW l \in Lines, NEW p, NEW n \in Names, New(l, n)
  PROVE  ~SeesName(l, p, n) /\ (l # Main => \A m \in Lines : n \notin DOMAIN lite.names[m] /\ n \notin DOMAIN pg.names[m])
<1>1. KnownNames(lite.names, made) /\ KnownNames(pg.names, made) /\ Main \in Lines
  BY MainLine DEF IInv, NamesInv
<1>2. l # Main => \A m \in Lines : n \notin DOMAIN lite.names[m] /\ n \notin DOMAIN pg.names[m]
  BY <1>1 DEF KnownNames, New
<1>3. l = Main => n \notin DOMAIN lite.names[Main]
  BY DEF BornInv, New
<1> QED
  BY <1>1, <1>2, <1>3, NameSeen DEF HasName

(***************************************************************************)
(* A name saved.                                                           *)
(***************************************************************************)
LEMMA SavePersonNameAgrees ==
  ASSUME IInv, AgreeInv, NEW l \in Lines, NEW p \in Persons, NEW n \in Names, SavePersonName(l, p, n)
  PROVE  AgreeInv'
<1>1. /\ Took(l) /\ IsStore(mem) /\ IsStore(lite) /\ IsStore(pg)
      /\ IsTable(mem.names) /\ IsTable(lite.names) /\ IsTable(pg.names)
      /\ StaysDeleted(mem.persons, mem'.persons) /\ StaysDeleted(mem.families, mem'.families)
      /\ TablesInv /\ KidsInv /\ BucketsInv /\ BornInv
      /\ Main \in Lines /\ n \in Ids /\ Persons \subseteq Ids /\ Names \subseteq Ids
  BY SavePersonNameTook, TookKeeps, MainLine DEF IInv, IsStore, AgreeInv, Ids
<1>2. PICK row : row = [owner |-> p, value |-> l]
  OBVIOUS
<1>3. /\ mem'.persons = mem.persons /\ mem'.families = mem.families
      /\ mem'.edges = mem.edges /\ lite'.edges = lite.edges /\ pg'.edges = pg.edges
      /\ mem'.exids = mem.exids /\ lite'.exids = lite.exids /\ pg'.exids = pg.exids
      /\ mem'.kids = mem.kids /\ lite'.kids = lite.kids /\ pg'.kids = pg.kids
      /\ mem'.names = Memory!StoreBucket(mem.names, l, p,
                        Memory!Over(Memory!Row(n, l), Memory!ResolveBucket(mem.names, l, p)))
      /\ lite'.names = Put(lite.names, l, Row(n, row))
      /\ pg'.names = Put(pg.names, l, Row(n, row))
  BY <1>1, <1>2, SameWriting DEF SavePersonName, Memory!SavePersonName, Memory!GetPersonNames,
     Sqlite!SavePersonName, Postgres!SavePersonName, IsStore, Sqlite!NameRow, Postgres!Named
<1>4. row.owner = p /\ row.value = l
  BY <1>2
<1>5. /\ DOMAIN lite'.names[l] = {n} \union DOMAIN lite.names[l]
      /\ lite'.names[l][n] = row
      /\ \A k \in DOMAIN lite.names[l] : k # n => lite'.names[l][k] = lite.names[l][k]
      /\ \A m \in Lines \ {l} : lite'.names[m] = lite.names[m]
  BY <1>1, <1>3, PutRow
<1>6. /\ DOMAIN pg'.names[l] = {n} \union DOMAIN pg.names[l]
      /\ pg'.names[l][n] = row
      /\ \A k \in DOMAIN pg.names[l] : k # n => pg'.names[l][k] = pg.names[l][k]
      /\ \A m \in Lines \ {l} : pg'.names[m] = pg.names[m]
  BY <1>1, <1>3, PutRow
<1>7. /\ Spread(made, made') /\ l \in made'[n]
      /\ bornTo' = IF New(l, n) THEN [bornTo EXCEPT ![n] = p] ELSE bornTo
  BY <1>1, CallSpreads DEF SavePersonName
<1>8. TablesInv'
  BY <1>1, <1>3 DEF TablesInv
<1>9. KidsInv'
  BY <1>1, <1>3, SameKids
<1>10. SeesName(l, p, n) \/ (New(l, n) /\ ~SeesName(l, p, n) /\ bornTo[n] \in {p, Gone})
  BY DEF SavePersonName
<1>11. BucketsInv'
  <2>1. CASE l = Main
    <3>1. n \in DOMAIN lite.names[Main] => lite.names[Main][n].owner = p
      BY <1>1, <1>10, <2>1, NameSeen DEF HasName, BornInv, New
    <3>2. PICK bucket, rows : bucket = MainBucket(mem.names, p) /\ rows = Memory!Over(Memory!Row(n, l), bucket)
      OBVIOUS
    <3>3. MainBucket(mem'.names, p) = rows /\ \A q : q # p => MainBucket(mem'.names, q) = MainBucket(mem.names, q)
      BY <1>1, <1>3, <2>1, <3>2, BucketStored
    <3>4. DOMAIN rows = {n} \union DOMAIN bucket /\ rows[n] = l /\ \A j \in DOMAIN bucket : j # n => rows[j] = bucket[j]
      BY <3>2 DEF Memory!Over, Memory!Row
    <3>5. NamesOnMain(rows, lite'.names, p)
      <4>1. NamesOnMain(bucket, lite.names, p)
        BY <1>1, <3>2 DEF BucketsInv
      <4>2. OwnedOnMain(lite'.names, p) = {n} \union OwnedOnMain(lite.names, p)
        BY <1>4, <1>5, <2>1 DEF OwnedOnMain
      <4>3. ASSUME NEW k \in OwnedOnMain(lite'.names, p) PROVE rows[k] = lite'.names[Main][k].value
        BY <1>4, <1>5, <2>1, <3>4, <4>1, <4>2 DEF NamesOnMain, OwnedOnMain
      <4> QED
        BY <3>4, <4>1, <4>2, <4>3 DEF NamesOnMain
    <3>6. ASSUME NEW q \in Persons, q # p PROVE NamesOnMain(MainBucket(mem'.names, q), lite'.names, q)
      <4>1. NamesOnMain(MainBucket(mem.names, q), lite.names, q)
        BY <1>1 DEF BucketsInv
      <4>2. \A k : k \in OwnedOnMain(lite'.names, q) <=> k \in OwnedOnMain(lite.names, q)
        BY <1>4, <1>5, <2>1, <3>1, <3>6 DEF OwnedOnMain
      <4>3. \A k \in OwnedOnMain(lite.names, q) : lite'.names[Main][k] = lite.names[Main][k]
        BY <1>5, <2>1, <3>1, <3>6 DEF OwnedOnMain
      <4> QED
        BY <3>3, <3>6, <4>1, <4>2, <4>3 DEF NamesOnMain
    <3> QED
      BY <1>1, <1>5, <1>6, <2>1, <3>3, <3>5, <3>6, MainLine, MainBuckets
  <2>2. CASE l # Main
    <3>1. l \in Branches
      BY <2>2 DEF Lines
    <3>2. ASSUME NEW q \in Persons, NEW k \in Names
          PROVE  DeletedOn(mem'.persons, l, q) \/ SameName(lite'.names, pg'.names, l, q, k)
      <4>1. CASE k = n
        BY <1>5, <1>6, <4>1 DEF SameName, HasName
      <4>2. CASE k # n
        BY <1>1, <1>3, <1>5, <1>6, <3>1, <4>2 DEF BucketsInv, SameName, HasName
      <4> QED
        BY <4>1, <4>2
    <3> QED
      BY <1>1, <3>1, <3>2, TookLines, BranchBuckets
  <2> QED
    BY <2>1, <2>2
<1>12. BornInv'
  <2>1. \A q \in Persons : q \in DOMAIN mem'.persons[Main] => Main \in made'[q]
    BY <1>1, <1>3, <1>7 DEF BornInv, Spread
  <2>2. \A k \in DOMAIN lite'.names[Main] : Main \in made'[k]
    <3>1. \A k \in DOMAIN lite.names[Main] : k \in Names /\ Main \in made'[k]
      BY <1>1, <1>7 DEF BornInv, Spread, IInv, NamesInv, KnownNames
    <3> QED
      BY <1>1, <1>5, <1>7, <3>1
  <2>3. /\ bornTo' = [m \in Names |-> bornTo'[m]]
        /\ \A m \in Names : m # n => bornTo'[m] = bornTo[m]
        /\ bornTo'[n] = IF New(l, n) THEN p ELSE bornTo[n]
    BY <1>1, <1>7 DEF BornInv
  <2>4. ASSUME NEW m \in Names, m # n PROVE AsBorn(m)' \/ HandedOn(m)'
    <3>1. AsBorn(m) => AsBorn(m)'
      BY <1>1, <1>5, <1>6, <2>3, <2>4 DEF AsBorn
    <3>2. HandedOn(m) => HandedOn(m)'
      BY <1>1, <1>3, <1>5, <1>6, <1>7, <2>3, <2>4 DEF HandedOn, Spread
    <3> QED
      BY <1>1, <3>1, <3>2 DEF BornInv
  <2>5. CASE New(l, n)
    <3>1. bornTo'[n] = p /\ ~SeesName(l, p, n)
      BY <1>1, <2>3, <2>5, NewIsUnseen
    <3>2. \A m \in Lines : /\ n \in DOMAIN lite.names[m] => lite.names[m][n].owner = p
                           /\ n \in DOMAIN pg.names[m] => pg.names[m][n].owner = p
      <4>1. CASE l = Main
        <5>1. AsBorn(n)
          BY <1>1, <2>5, <4>1 DEF BornInv, HandedOn, New
        <5>2. bornTo[n] \in Persons => bornTo[n] = p
          BY <1>10, <3>1, GoneIsApart
        <5> QED
          BY <5>1, <5>2 DEF AsBorn
      <4>2. CASE l # Main
        BY <1>1, <2>5, <4>2, NewIsUnseen
      <4> QED
        BY <4>1, <4>2
    <3>3. AsBorn(n)'
      BY <1>4, <1>5, <1>6, <3>1, <3>2 DEF AsBorn
    <3> QED
      BY <2>1, <2>2, <2>3, <2>4, <3>3 DEF BornInv
  <2>6. CASE ~New(l, n)
    <3>1. SeesName(l, p, n) /\ bornTo'[n] = bornTo[n]
      BY <1>10, <2>3, <2>6
    <3>2. HasName(lite.names, l, p, n) \/ HasName(lite.names, Main, p, n)
      BY <3>1, NameSeen
    <3>3. CASE AsBorn(n)
      <4>1. bornTo[n] = p
        BY <1>1, <3>2, <3>3 DEF AsBorn, HasName
      <4>2. AsBorn(n)'
        BY <1>4, <1>5, <1>6, <3>1, <3>3, <4>1 DEF AsBorn
      <4> QED
        BY <2>1, <2>2, <2>3, <2>4, <4>2 DEF BornInv
    <3>4. CASE HandedOn(n)
      <4>1. n \in DOMAIN lite'.names[Main] => lite'.names[Main][n].owner # bornTo[n]
        <5>1. CASE l = Main
          BY <1>4, <1>5, <3>2, <3>4, <5>1 DEF HandedOn, HasName
        <5>2. CASE l # Main
          BY <1>1, <1>5, <3>4, <5>2 DEF HandedOn
        <5> QED
          BY <5>1, <5>2
      <4>2. HandedOn(n)'
        BY <1>1, <1>3, <1>7, <3>1, <3>4, <4>1 DEF HandedOn, Spread
      <4> QED
        BY <2>1, <2>2, <2>3, <2>4, <4>2 DEF BornInv
    <3> QED
      BY <1>1, <3>3, <3>4 DEF BornInv
  <2> QED
    BY <2>5, <2>6
<1> QED
  BY <1>8, <1>9, <1>11, <1>12 DEF AgreeInv

(***************************************************************************)
(* A name deleted.                                                         *)
(***************************************************************************)
LEMMA DeletePersonNameAgrees ==
  ASSUME IInv, AgreeInv, NEW l \in Lines, NEW n \in Names, DeletePersonName(l, n)
  PROVE  AgreeInv'
<1>1. /\ Took(l) /\ IsStore(mem) /\ IsStore(lite) /\ IsStore(pg)
      /\ IsTable(mem.names) /\ IsTable(lite.names) /\ IsTable(pg.names)
      /\ StaysDeleted(mem.persons, mem'.persons) /\ StaysDeleted(mem.families, mem'.families)
      /\ TablesInv /\ KidsInv /\ BucketsInv /\ BornInv /\ Main \in Lines
      /\ KnownNames(lite.names, made) /\ lite.names[Main] = pg.names[Main]
  BY DeletePersonNameTook, TookKeeps, MainLine DEF IInv, IsStore, AgreeInv, NamesInv, MainNames
<1>2. PICK p \in Persons : SeesName(l, p, n)
  BY DEF DeletePersonName
<1>3. /\ mem'.persons = mem.persons /\ mem'.families = mem.families
      /\ mem'.edges = mem.edges /\ lite'.edges = lite.edges /\ pg'.edges = pg.edges
      /\ mem'.exids = mem.exids /\ lite'.exids = lite.exids /\ pg'.exids = pg.exids
      /\ mem'.kids = mem.kids /\ lite'.kids = lite.kids /\ pg'.kids = pg.kids
  BY <1>1 DEF DeletePersonName, Memory!DeletePersonName, Sqlite!DeletePersonName, Postgres!DeletePersonName, IsStore
<1>4. mem'.names = Memory!StoreBucket(mem.names, l, p, Memory!Without(Memory!ResolveBucket(mem.names, l, p), n))
  <2>1. Memory!GetPersonName(l, n) = {p}
    BY <1>2 DEF SeesName
  <2> QED
    BY <1>1, <2>1 DEF DeletePersonName, Memory!DeletePersonName, Memory!GetPersonNames, IsStore
<1>5. Spread(made, made') /\ bornTo' = bornTo
  BY CallSpreads DEF DeletePersonName
<1>6. TablesInv'
  BY <1>1, <1>3 DEF TablesInv
<1>7. KidsInv'
  BY <1>1, <1>3, SameKids
<1>8. /\ HasName(lite.names, l, p, n) \/ (n \notin DOMAIN lite.names[l] /\ HasName(lite.names, Main, p, n))
      /\ HasName(pg.names, l, p, n) \/ (n \notin DOMAIN pg.names[l] /\ HasName(pg.names, Main, p, n))
  BY <1>2, NameSeen
<1>9. CASE l = Main
  <2>1. lite'.names = Drop(lite.names, Main, {n}) /\ pg'.names = Drop(pg.names, Main, {n})
    BY <1>1, <1>9, SameWriting DEF DeletePersonName, Sqlite!DeletePersonName, Postgres!DeletePersonName, IsStore
  <2>2. /\ DOMAIN lite'.names[Main] = DOMAIN lite.names[Main] \ {n}
        /\ \A k \in DOMAIN lite.names[Main] \ {n} : lite'.names[Main][k] = lite.names[Main][k]
        /\ \A m \in Lines \ {Main} : lite'.names[m] = lite.names[m]
    BY <1>1, <2>1, DropRows
  <2>3. /\ DOMAIN pg'.names[Main] = DOMAIN pg.names[Main] \ {n}
        /\ \A k \in DOMAIN pg.names[Main] \ {n} : pg'.names[Main][k] = pg.names[Main][k]
        /\ \A m \in Lines \ {Main} : pg'.names[m] = pg.names[m]
    BY <1>1, <2>1, DropRows
  <2>4. PICK bucket, rows : bucket = MainBucket(mem.names, p) /\ rows = Memory!Without(bucket, n)
    OBVIOUS
  <2>5. MainBucket(mem'.names, p) = rows /\ \A q : q # p => MainBucket(mem'.names, q) = MainBucket(mem.names, q)
    BY <1>1, <1>4, <1>9, <2>4, BucketStored
  <2>6. DOMAIN rows = DOMAIN bucket \ {n} /\ \A j \in DOMAIN bucket : j # n => rows[j] = bucket[j]
    BY <2>4 DEF Memory!Without, Memory!Restrict
  <2>7. NamesOnMain(rows, lite'.names, p)
    <3>1. NamesOnMain(bucket, lite.names, p)
      BY <1>1, <2>4 DEF BucketsInv
    <3>2. OwnedOnMain(lite'.names, p) = OwnedOnMain(lite.names, p) \ {n}
      BY <2>2 DEF OwnedOnMain
    <3>3. ASSUME NEW k \in OwnedOnMain(lite'.names, p) PROVE rows[k] = lite'.names[Main][k].value
      BY <2>2, <2>6, <3>1, <3>2 DEF NamesOnMain, OwnedOnMain
    <3> QED
      BY <2>6, <3>1, <3>2, <3>3 DEF NamesOnMain
  <2>8. ASSUME NEW q \in Persons, q # p PROVE NamesOnMain(MainBucket(mem'.names, q), lite'.names, q)
    <3>1. NamesOnMain(MainBucket(mem.names, q), lite.names, q)
      BY <1>1 DEF BucketsInv
    <3>2. \A k : k \in OwnedOnMain(lite'.names, q) <=> k \in OwnedOnMain(lite.names, q)
      BY <1>8, <1>9, <2>2, <2>8 DEF OwnedOnMain, HasName
    <3>3. \A k \in OwnedOnMain(lite.names, q) : lite'.names[Main][k] = lite.names[Main][k]
      BY <1>8, <1>9, <2>2, <2>8 DEF OwnedOnMain, HasName
    <3> QED
      BY <2>5, <2>8, <3>1, <3>2, <3>3 DEF NamesOnMain
  <2>9. BucketsInv'
    BY <1>1, <2>2, <2>3, <2>5, <2>7, <2>8, MainLine, MainBuckets
  <2>10. \A m \in Lines : Taken(lite.names, lite'.names, m) /\ Taken(pg.names, pg'.names, m)
    BY <2>2, <2>3 DEF Taken
  <2>11. BornInv'
    BY <1>1, <1>3, <1>5, <2>10, KeepsBorn
  <2> QED
    BY <1>6, <1>7, <2>9, <2>11 DEF AgreeInv
<1>10. CASE l # Main
  <2>1. l \in Branches
    BY <1>10 DEF Lines
  <2>2. /\ {n} \intersect Sqlite!Keys(lite.names, l) = {n}
        /\ {n} \intersect Postgres!Keys(pg.names, l) = {n}
    BY <1>8 DEF Sqlite!Keys, Postgres!Keys, HasName
  <2>3. PICK w, x : w = Marked(lite.names, l, {n}) /\ x = Marked(pg.names, l, {n})
    OBVIOUS
  <2>4. lite'.names = w /\ pg'.names = x
    BY <1>1, <1>10, <2>2, <2>3, Marks DEF DeletePersonName, Sqlite!DeletePersonName, Postgres!DeletePersonName, IsStore
  <2>5. /\ DOMAIN w[l] = {n} \union DOMAIN lite.names[l]
        /\ \A k \in DOMAIN lite.names[l] : w[l][k].owner = lite.names[l][k].owner
        /\ n \notin DOMAIN lite.names[l] => w[l][n].owner = lite.names[Main][n].owner
        /\ \A m \in Lines \ {l} : w[m] = lite.names[m]
    BY <1>1, <2>3, MarkedRows
  <2>6. w[l][n].value = Gone /\ \A k \in DOMAIN lite.names[l] : k # n => w[l][k] = lite.names[l][k]
    BY <1>1, <2>3, MarkedValues
  <2>7. /\ DOMAIN x[l] = {n} \union DOMAIN pg.names[l]
        /\ \A k \in DOMAIN pg.names[l] : x[l][k].owner = pg.names[l][k].owner
        /\ n \notin DOMAIN pg.names[l] => x[l][n].owner = pg.names[Main][n].owner
        /\ \A m \in Lines \ {l} : x[m] = pg.names[m]
    BY <1>1, <2>3, MarkedRows
  <2>8. x[l][n].value = Gone /\ \A k \in DOMAIN pg.names[l] : k # n => x[l][k] = pg.names[l][k]
    BY <1>1, <2>3, MarkedValues
  <2>9. w[l][n].owner = p /\ x[l][n].owner = p
    BY <1>8, <2>5, <2>7 DEF HasName
  <2>10. ASSUME NEW q \in Persons, NEW k \in Names
         PROVE  DeletedOn(mem'.persons, l, q) \/ SameName(w, x, l, q, k)
    <3>1. CASE k = n
      BY <2>5, <2>6, <2>7, <2>8, <2>9, <3>1 DEF SameName, HasName
    <3>2. CASE k # n
      <4>1. DeletedOn(mem.persons, l, q) \/ SameName(lite.names, pg.names, l, q, k)
        BY <1>1, <2>1 DEF BucketsInv
      <4>2. /\ k \in DOMAIN w[l] <=> k \in DOMAIN lite.names[l]
            /\ k \in DOMAIN lite.names[l] => w[l][k] = lite.names[l][k]
            /\ k \in DOMAIN x[l] <=> k \in DOMAIN pg.names[l]
            /\ k \in DOMAIN pg.names[l] => x[l][k] = pg.names[l][k]
        BY <2>5, <2>6, <2>7, <2>8, <3>2
      <4> QED
        BY <1>3, <4>1, <4>2 DEF SameName, HasName
    <3> QED
      BY <3>1, <3>2
  <2>11. BucketsInv'
    BY <1>1, <2>1, <2>4, <2>10, TookLines, BranchBuckets
  <2>12. Taken(lite.names, w, l) /\ Taken(pg.names, x, l)
    BY <1>1, <1>8, <2>5, <2>7 DEF Taken, HasName
  <2>13. \A m \in Lines : Taken(lite.names, lite'.names, m) /\ Taken(pg.names, pg'.names, m)
    BY <2>4, <2>5, <2>7, <2>12 DEF Taken
  <2>14. BornInv'
    BY <1>1, <1>3, <1>5, <2>13, KeepsBorn
  <2> QED
    BY <1>6, <1>7, <2>11, <2>14 DEF AgreeInv
<1> QED
  BY <1>9, <1>10

-----------------------------------------------------------------------------
(* Persons merged, branches purged.                                        *)

(***************************************************************************)
(* Main's names of the merged person become the survivor's, in memory by   *)
(* joining the buckets.                                                    *)
(***************************************************************************)
LEMMA NamesJoined ==
  ASSUME IInv, AgreeInv, NEW survivor \in Persons, NEW merged \in Persons, survivor # merged,
         StaysDeleted(mem.persons, mem'.persons), NEW f, DOMAIN f = OwnedOnMain(lite.names, merged),
         \A n \in DOMAIN f : f[n].owner = survivor /\ f[n].value = lite.names[Main][n].value,
         mem'.names = Drop(Memory!StoreBucket(mem.names, Main, survivor,
                             Memory!Over(Memory!ResolveBucket(mem.names, Main, merged),
                                         Memory!ResolveBucket(mem.names, Main, survivor))), Main, {merged}),
         lite'.names = Put(lite.names, Main, f), pg'.names = Put(pg.names, Main, f)
  PROVE  BucketsInv'
<1>1. /\ IsTable(mem.names) /\ IsTable(lite.names) /\ IsTable(pg.names) /\ BucketsInv
      /\ Main \in Lines /\ \A b \in Branches : b \in Lines \ {Main}
  BY MainLine DEF IInv, IsStore, AgreeInv
<1>2. /\ DOMAIN lite'.names[Main] = DOMAIN f \union DOMAIN lite.names[Main]
      /\ \A k \in DOMAIN f : lite'.names[Main][k] = f[k]
      /\ \A k \in DOMAIN lite.names[Main] : k \notin DOMAIN f => lite'.names[Main][k] = lite.names[Main][k]
      /\ \A m \in Lines \ {Main} : lite'.names[m] = lite.names[m]
  BY <1>1, PutRows
<1>3. \A m \in Lines \ {Main} : pg'.names[m] = pg.names[m]
  BY <1>1, PutRows
<1>4. PICK gs, gm, rows : /\ gs = MainBucket(mem.names, survivor) /\ gm = MainBucket(mem.names, merged)
                          /\ rows = Memory!Over(gm, gs)
  OBVIOUS
<1>5. PICK t : t = Memory!StoreBucket(mem.names, Main, survivor, rows)
  OBVIOUS
<1>6. /\ MainBucket(t, survivor) = rows
      /\ \A j : j # survivor => MainBucket(t, j) = MainBucket(mem.names, j)
      /\ mem'.names = Drop(t, Main, {merged})
  BY <1>1, <1>4, <1>5, BucketStored
<1>7. IsTable(t)
  BY <1>1, <1>5, BucketEdits DEF Edit, Touches
<1>8. /\ DOMAIN mem'.names[Main] = DOMAIN t[Main] \ {merged}
      /\ \A k \in DOMAIN t[Main] \ {merged} : mem'.names[Main][k] = t[Main][k]
  <2>1. PICK w : w = Drop(t, Main, {merged})
    OBVIOUS
  <2>2. DOMAIN w[Main] = DOMAIN t[Main] \ {merged} /\ \A k \in DOMAIN t[Main] \ {merged} : w[Main][k] = t[Main][k]
    BY <1>1, <1>7, <2>1, DropRows
  <2>3. mem'.names = w
    BY <1>6, <2>1
  <2> QED
    BY <2>2, <2>3
<1>9. MainBucket(mem'.names, merged) = Nothing /\ \A j : j # merged => MainBucket(mem'.names, j) = MainBucket(t, j)
  BY <1>8 DEF MainBucket
<1>10. /\ DOMAIN rows = DOMAIN gm \union DOMAIN gs
       /\ \A k \in DOMAIN rows : rows[k] = IF k \in DOMAIN gm THEN gm[k] ELSE gs[k]
  BY <1>4 DEF Memory!Over
<1>11. NamesOnMain(gs, lite.names, survivor) /\ NamesOnMain(gm, lite.names, merged)
  BY <1>1, <1>4 DEF BucketsInv
<1>12. DOMAIN f \subseteq DOMAIN lite.names[Main]
  BY DEF OwnedOnMain
<1>13. ASSUME NEW q \in Persons PROVE NamesOnMain(MainBucket(mem'.names, q), lite'.names, q)
  <2>1. CASE q = survivor
    <3>1. OwnedOnMain(lite'.names, survivor) = OwnedOnMain(lite.names, merged) \union OwnedOnMain(lite.names, survivor)
      BY <1>2, <1>12 DEF OwnedOnMain
    <3>2. ASSUME NEW k \in OwnedOnMain(lite'.names, survivor) PROVE rows[k] = lite'.names[Main][k].value
      <4>1. CASE k \in OwnedOnMain(lite.names, merged)
        BY <1>2, <1>10, <1>11, <4>1 DEF NamesOnMain
      <4>2. CASE k \notin OwnedOnMain(lite.names, merged)
        <5>1. k \in OwnedOnMain(lite.names, survivor)
          BY <3>1, <4>2
        <5>2. k \in DOMAIN lite.names[Main]
          BY <5>1 DEF OwnedOnMain
        <5> QED
          BY <1>2, <1>10, <1>11, <4>2, <5>1, <5>2 DEF NamesOnMain
      <4> QED
        BY <4>1, <4>2
    <3> QED
      BY <1>6, <1>9, <1>10, <1>11, <2>1, <3>1, <3>2 DEF NamesOnMain
  <2>2. CASE q = merged
    <3>1. OwnedOnMain(lite'.names, merged) = {}
      BY <1>2, <1>12 DEF OwnedOnMain
    <3>2. DOMAIN Nothing = {}
      BY DEF Nothing
    <3> QED
      BY <1>9, <2>2, <3>1, <3>2 DEF NamesOnMain
  <2>3. CASE q # survivor /\ q # merged
    <3>1. NamesOnMain(MainBucket(mem.names, q), lite.names, q)
      BY <1>1 DEF BucketsInv
    <3>2. MainBucket(mem'.names, q) = MainBucket(mem.names, q)
      BY <1>6, <1>9, <2>3
    <3>3. \A k \in OwnedOnMain(lite.names, q) : k \notin DOMAIN f /\ k \in DOMAIN lite.names[Main]
      BY <2>3 DEF OwnedOnMain
    <3>4. OwnedOnMain(lite'.names, q) = OwnedOnMain(lite.names, q)
      BY <1>2, <1>12, <2>3, <3>3 DEF OwnedOnMain
    <3> QED
      BY <1>2, <3>1, <3>2, <3>3, <3>4 DEF NamesOnMain
  <2> QED
    BY <2>1, <2>2, <2>3
<1> QED
  BY <1>1, <1>2, <1>3, <1>13, MainBuckets

(***************************************************************************)
(* Two persons merged.  Who first had a name that is moved is gone from    *)
(* main for good.                                                          *)
(***************************************************************************)
LEMMA MergePersonsAgrees ==
  ASSUME IInv, AgreeInv, NEW survivor \in Persons, NEW merged \in Persons, MergePersons(survivor, merged)
  PROVE  AgreeInv'
<1>1. /\ Took(Main) /\ IsStore(mem) /\ IsStore(lite) /\ IsStore(pg)
      /\ IsTable(mem.persons) /\ IsTable(lite.names) /\ IsTable(pg.names)
      /\ StaysDeleted(mem.persons, mem'.persons) /\ StaysDeleted(mem.families, mem'.families)
      /\ TablesInv /\ KidsInv /\ BucketsInv /\ BornInv
      /\ MainNames(lite.names, pg.names) /\ KnownNames(lite.names, made)
      /\ Main \in Lines /\ Persons \subseteq Ids /\ Names \subseteq Ids
  BY MergePersonsTook, TookKeeps, MainLine DEF IInv, IsStore, AgreeInv, NamesInv, Ids
<1>2. survivor # merged /\ survivor \in DOMAIN mem.persons[Main] /\ merged \in DOMAIN mem.persons[Main]
  BY Seen DEF MergePersons
<1>3. PICK names, f, T : /\ names = MainNamesOf(lite.names, merged)
                         /\ f = [n \in DOMAIN names |-> [owner |-> survivor, value |-> names[n]]]
                         /\ T = Families \X {merged}
  OBVIOUS
<1>4. /\ DOMAIN names = OwnedOnMain(lite.names, merged)
      /\ \A n \in DOMAIN names : names[n] = lite.names[Main][n].value
  BY <1>1, <1>3 DEF MainNamesOf, OwnedOnMain, MainNames
<1>5. /\ DOMAIN f = OwnedOnMain(lite.names, merged)
      /\ \A n \in DOMAIN f : f[n].owner = survivor /\ f[n].value = lite.names[Main][n].value
  BY <1>3, <1>4
<1>6. Sqlite!GetPersonNames(Main, merged) = names /\ Postgres!GetPersonNames(Main, merged) = names
  <2>1. MainNamesOf(pg.names, merged) = MainNamesOf(lite.names, merged)
    BY <1>1 DEF MainNames, MainNamesOf
  <2> QED
    BY <1>1, <1>3, <2>1, ReadsMainNames
<1>7. /\ mem'.persons = Drop(mem.persons, Main, {merged}) /\ mem'.families = mem.families
      /\ mem'.exids = Drop(mem.exids, Main, {merged}) /\ mem'.edges = Drop(mem.edges, Main, {merged})
      /\ mem'.kids = Memory!DropChild(mem.kids, merged)
      /\ mem'.names = Drop(Memory!StoreBucket(mem.names, Main, survivor,
                             Memory!Over(Memory!ResolveBucket(mem.names, Main, merged),
                                         Memory!ResolveBucket(mem.names, Main, survivor))), Main, {merged})
  BY <1>1, SameWriting DEF MergePersons, Memory!MoveNames, Memory!GetPersonNames, IsStore
<1>8. /\ lite'.exids = Drop(lite.exids, Main, {merged}) /\ lite'.edges = Drop(lite.edges, Main, {merged})
      /\ lite'.kids = Drop(lite.kids, Main, T) /\ lite'.names = Put(lite.names, Main, f)
  BY <1>1, <1>3, <1>6, SameWriting DEF MergePersons, Sqlite!MoveNames, Sqlite!NameRow, IsStore
<1>9. /\ pg'.exids = Drop(pg.exids, Main, {merged}) /\ pg'.edges = Drop(pg.edges, Main, {merged})
      /\ pg'.kids = Drop(pg.kids, Main, T) /\ pg'.names = Put(pg.names, Main, f)
  BY <1>1, <1>3, <1>6, SameWriting DEF MergePersons, Postgres!MoveNames, Postgres!Named, Postgres!Cascade, IsStore
<1>10. /\ \A m \in Lines : DOMAIN mem'.persons[m] \subseteq DOMAIN mem.persons[m]
       /\ DOMAIN mem'.persons[Main] = DOMAIN mem.persons[Main] \ {merged}
  BY <1>1, <1>7, DropRows
<1>11. TablesInv'
  BY <1>1, <1>7, <1>8, <1>9, <1>10 DEF TablesInv
<1>12. KidsInv'
  BY <1>1, <1>3, <1>7, <1>8, <1>9, KidsDropped DEF IsStore
<1>13. BucketsInv'
  BY <1>1, <1>2, <1>5, <1>7, <1>8, <1>9, NamesJoined
<1>14. /\ DOMAIN lite'.names[Main] = DOMAIN f \union DOMAIN lite.names[Main]
       /\ \A k \in DOMAIN f : lite'.names[Main][k] = f[k]
       /\ \A k \in DOMAIN lite.names[Main] : k \notin DOMAIN f => lite'.names[Main][k] = lite.names[Main][k]
       /\ \A m \in Lines \ {Main} : lite'.names[m] = lite.names[m]
  BY <1>1, <1>8, PutRows
<1>15. /\ DOMAIN pg'.names[Main] = DOMAIN f \union DOMAIN pg.names[Main]
       /\ \A k \in DOMAIN pg.names[Main] : k \notin DOMAIN f => pg'.names[Main][k] = pg.names[Main][k]
       /\ \A m \in Lines \ {Main} : pg'.names[m] = pg.names[m]
  BY <1>1, <1>9, PutRows
<1>16. DOMAIN f \subseteq DOMAIN lite.names[Main] /\ DOMAIN lite.names[Main] = DOMAIN pg.names[Main]
  BY <1>1, <1>5 DEF OwnedOnMain, MainNames
<1>17. Spread(made, made') /\ bornTo' = bornTo
  BY CallSpreads DEF MergePersons
<1>18. BornInv'
  <2>1. \A p \in Persons : p \in DOMAIN mem'.persons[Main] => Main \in made'[p]
    BY <1>1, <1>10, <1>17 DEF BornInv, Spread
  <2>2. \A n \in DOMAIN lite'.names[Main] : Main \in made'[n]
    <3>1. \A n \in DOMAIN lite.names[Main] : n \in Ids /\ Main \in made[n]
      BY <1>1 DEF BornInv, KnownNames
    <3> QED
      BY <1>14, <1>16, <1>17, <3>1 DEF Spread
  <2>3. ASSUME NEW n \in Names, n \in DOMAIN f PROVE HandedOn(n)'
    <3>1. n \in DOMAIN lite.names[Main] /\ lite.names[Main][n].owner = merged
      BY <1>5, <2>3 DEF OwnedOnMain
    <3>2. lite'.names[Main][n].owner = survivor /\ Main \in made'[n]
      BY <1>5, <1>14, <2>2, <2>3
    <3>3. CASE AsBorn(n)
      <4>1. bornTo[n] = merged
        BY <1>1, <3>1, <3>3 DEF AsBorn
      <4>2. Main \in made'[merged]
        BY <1>1, <1>2, <1>17 DEF BornInv, Spread
      <4> QED
        BY <1>2, <1>10, <1>17, <3>2, <4>1, <4>2 DEF HandedOn
    <3>4. CASE HandedOn(n)
      <4>1. bornTo[n] \in Persons /\ Main \in made'[bornTo[n]]
        BY <1>1, <1>17, <3>4 DEF HandedOn, Spread
      <4>2. bornTo[n] # survivor /\ bornTo[n] \notin DOMAIN mem'.persons[Main]
        BY <1>2, <1>10, <3>4 DEF HandedOn
      <4> QED
        BY <1>17, <3>2, <4>1, <4>2 DEF HandedOn
    <3> QED
      BY <1>1, <3>3, <3>4 DEF BornInv
  <2>4. ASSUME NEW n \in Names, n \notin DOMAIN f PROVE AsBorn(n)' \/ HandedOn(n)'
    <3>1. \A m \in Lines : /\ n \in DOMAIN lite'.names[m] <=> n \in DOMAIN lite.names[m]
                           /\ n \in DOMAIN lite.names[m] => lite'.names[m][n] = lite.names[m][n]
                           /\ n \in DOMAIN pg'.names[m] <=> n \in DOMAIN pg.names[m]
                           /\ n \in DOMAIN pg.names[m] => pg'.names[m][n] = pg.names[m][n]
      BY <1>14, <1>15, <2>4
    <3>2. AsBorn(n) => AsBorn(n)'
      BY <1>17, <3>1 DEF AsBorn
    <3>3. HandedOn(n) => HandedOn(n)'
      BY <1>1, <1>10, <1>17, <3>1 DEF HandedOn, Spread
    <3> QED
      BY <1>1, <3>2, <3>3 DEF BornInv
  <2>5. bornTo' = [n \in Names |-> bornTo'[n]]
    BY <1>1, <1>17 DEF BornInv
  <2> QED
    BY <2>1, <2>2, <2>3, <2>4, <2>5 DEF BornInv
<1> QED
  BY <1>11, <1>12, <1>13, <1>18 DEF AgreeInv

(***************************************************************************)
(* A branch purged: it has no rows left to agree on.                       *)
(***************************************************************************)
LEMMA PurgeAgrees ==
  ASSUME IInv, AgreeInv, NEW b \in Branches, PurgeBranch(b)
  PROVE  AgreeInv'
<1>1. /\ Cleared(mem, mem', b) /\ Cleared(lite, lite', b) /\ Cleared(pg, pg', b)
      /\ TablesInv /\ KidsInv /\ BucketsInv /\ BornInv /\ KnownNames(lite.names, made)
      /\ b \in Lines /\ Main \in Lines \ {b}
  BY PurgeClears, MainLine DEF AgreeInv, IInv, NamesInv
<1>2. made' = made /\ bornTo' = bornTo
  BY DEF PurgeBranch
<1>3. \A m \in Lines \ {b} :
        /\ mem'.persons[m] = mem.persons[m] /\ mem'.families[m] = mem.families[m]
        /\ mem'.names[m] = mem.names[m] /\ lite'.names[m] = lite.names[m] /\ pg'.names[m] = pg.names[m]
        /\ mem'.kids[m] = mem.kids[m] /\ lite'.kids[m] = lite.kids[m] /\ pg'.kids[m] = pg.kids[m]
  BY <1>1 DEF Cleared, Wrote, Touches
<1>4. /\ lite'.edges = mem'.edges /\ pg'.edges = mem'.edges
      /\ lite'.exids = mem'.exids /\ pg'.exids = mem'.exids
  BY <1>1 DEF PurgeBranch, Memory!PurgeBranch, Sqlite!PurgeBranch, Postgres!PurgeBranch, IInv, IsStore, TablesInv,
     Memory!Nothing, Sqlite!Nothing, Postgres!Nothing
<1>5. TablesInv'
  BY <1>1, <1>3, <1>4 DEF TablesInv, Cleared
<1>6. KidsInv'
  <2>1. \A f \in Families : KidsOnMain(MainBucket(mem'.kids, f), lite'.kids, f)
    BY <1>1, <1>3 DEF KidsInv, KidsOnMain, MainBucket, ChildrenOnMain
  <2>2. ASSUME NEW c \in Branches, NEW f \in Families, NEW p \in Persons
        PROVE  DeletedOn(mem'.families, c, f) \/ SameRow(lite'.kids, pg'.kids, c, <<f, p>>)
    <3>1. CASE c = b
      BY <1>1, <3>1 DEF Cleared, SameRow
    <3>2. CASE c # b
      BY <1>1, <1>3, <3>2, MainLine DEF KidsInv, SameRow, DeletedOn
    <3> QED
      BY <3>1, <3>2
  <2> QED
    BY <1>1, <1>3, <2>1, <2>2 DEF KidsInv
<1>7. BucketsInv'
  <2>1. \A p \in Persons : NamesOnMain(MainBucket(mem'.names, p), lite'.names, p)
    BY <1>1, <1>3 DEF BucketsInv, NamesOnMain, MainBucket, OwnedOnMain
  <2>2. ASSUME NEW c \in Branches, NEW p \in Persons, NEW n \in Names
        PROVE  DeletedOn(mem'.persons, c, p) \/ SameName(lite'.names, pg'.names, c, p, n)
    <3>1. CASE c = b
      BY <1>1, <3>1 DEF Cleared, SameName, HasName
    <3>2. CASE c # b
      BY <1>1, <1>3, <3>2, MainLine DEF BucketsInv, SameName, HasName, DeletedOn
    <3> QED
      BY <3>1, <3>2
  <2> QED
    BY <2>1, <2>2 DEF BucketsInv
<1>8. \A m \in Lines : Taken(lite.names, lite'.names, m) /\ Taken(pg.names, pg'.names, m)
  BY <1>1, <1>3 DEF Taken, Cleared
<1>9. BornInv'
  BY <1>1, <1>2, <1>3, <1>8, KeepsBorn DEF Spread
<1> QED
  BY <1>5, <1>6, <1>7, <1>9 DEF AgreeInv

(***************************************************************************)
(* To begin with main has one family, one child and one name, and the      *)
(* branches have nothing.                                                  *)
(***************************************************************************)
LEMMA StartAgrees == Init => AgreeInv
<1> SUFFICES ASSUME Init PROVE AgreeInv
  OBVIOUS
<1>1. PICK p \in Persons, n \in Names, f \in Families : Start(p, n, f)
  <2>1. /\ (CHOOSE p \in Persons : TRUE) \in Persons
        /\ (CHOOSE n \in Names : TRUE) \in Names
        /\ (CHOOSE f \in Families : TRUE) \in Families
    BY SomeOfEach
  <2> QED
    BY <2>1 DEF Init
<1> DEFINE OnMain(rows) == [Empty EXCEPT ![Main] = rows]
<1>2. ASSUME NEW k, NEW v
      PROVE  LET t == OnMain(Row(k, v))
             IN  DOMAIN t[Main] = {k} /\ t[Main][k] = v /\ \A b \in Lines \ {Main} : DOMAIN t[b] = {}
  <2>1. DOMAIN Nothing = {}
    BY DEF Nothing
  <2>2. PICK g : g = Row(k, v)
    OBVIOUS
  <2>3. DOMAIN g = {k} /\ g[k] = v
    BY <2>2 DEF Row
  <2>4. PICK t : t = OnMain(g)
    OBVIOUS
  <2>5. t[Main] = g /\ \A b \in Lines \ {Main} : t[b] = Nothing
    BY <2>4, MainLine DEF Empty
  <2> QED
    BY <2>1, <2>2, <2>3, <2>4, <2>5
<1>3. PICK bucket, row, kid : bucket = Row(n, Base) /\ kid = Row(p, Base) /\ row = [owner |-> p, value |-> Base]
  OBVIOUS
<1>4. /\ mem.persons = OnMain(Row(p, Base)) /\ mem.families = OnMain(Row(f, p))
      /\ mem.names = OnMain(Row(p, bucket)) /\ mem.kids = OnMain(Row(f, kid))
      /\ lite.names = OnMain(Row(n, row)) /\ lite.kids = OnMain(Row(<<f, p>>, Base))
      /\ pg.names = lite.names /\ pg.kids = lite.kids
      /\ lite.edges = mem.edges /\ pg.edges = mem.edges /\ lite.exids = mem.exids /\ pg.exids = mem.exids
  BY <1>1, <1>3 DEF Start, Memory!Init, Sqlite!Init, Postgres!Init, Sqlite!NameRow, Postgres!Named
<1>5. /\ made[p] = {Main} /\ made[n] = {Main}
      /\ bornTo = [m \in Names |-> IF m = n THEN p ELSE Gone]
  BY <1>1 DEF Start, Ids
<1> HIDE DEF OnMain
<1>6. /\ DOMAIN mem.persons[Main] = {p} /\ DOMAIN mem.families[Main] = {f}
      /\ \A b \in Lines \ {Main} : DOMAIN mem.persons[b] = {} /\ DOMAIN mem.families[b] = {}
  BY <1>2, <1>4
<1>7. /\ DOMAIN mem.names[Main] = {p} /\ mem.names[Main][p] = bucket
      /\ DOMAIN mem.kids[Main] = {f} /\ mem.kids[Main][f] = kid
  BY <1>2, <1>4
<1>8. /\ DOMAIN lite.names[Main] = {n} /\ lite.names[Main][n] = row
      /\ DOMAIN lite.kids[Main] = {<<f, p>>} /\ lite.kids[Main][<<f, p>>] = Base
      /\ \A b \in Lines \ {Main} : DOMAIN lite.names[b] = {} /\ DOMAIN lite.kids[b] = {}
  BY <1>2, <1>4
<1>9. DOMAIN bucket = {n} /\ bucket[n] = Base /\ DOMAIN kid = {p} /\ kid[p] = Base
  BY <1>3 DEF Row
<1>10. row.owner = p /\ row.value = Base /\ DOMAIN Nothing = {}
  BY <1>3 DEF Nothing
<1>11. TablesInv
  BY <1>4, <1>6 DEF TablesInv
<1>12. KidsInv
  <2>1. ASSUME NEW g \in Families PROVE KidsOnMain(MainBucket(mem.kids, g), lite.kids, g)
    <3>1. CASE g = f
      BY <1>7, <1>8, <1>9, <3>1 DEF KidsOnMain, MainBucket, ChildrenOnMain
    <3>2. CASE g # f
      BY <1>7, <1>8, <1>10, <3>2 DEF KidsOnMain, MainBucket, ChildrenOnMain
    <3> QED
      BY <3>1, <3>2
  <2> QED
    BY <1>4, <1>8, <2>1, BaseIsApart DEF KidsInv, SameRow
<1>13. BucketsInv
  <2>1. ASSUME NEW q \in Persons PROVE NamesOnMain(MainBucket(mem.names, q), lite.names, q)
    <3>1. CASE q = p
      BY <1>7, <1>8, <1>9, <1>10, <3>1 DEF NamesOnMain, MainBucket, OwnedOnMain
    <3>2. CASE q # p
      BY <1>7, <1>8, <1>10, <3>2 DEF NamesOnMain, MainBucket, OwnedOnMain
    <3> QED
      BY <3>1, <3>2
  <2> QED
    BY <1>4, <2>1 DEF BucketsInv, SameName
<1>14. BornInv
  <2>1. \A m \in Names : AsBorn(m)
    BY <1>4, <1>5, <1>8, <1>10, MainLine DEF AsBorn
  <2> QED
    BY <1>5, <1>6, <1>8, <2>1 DEF BornInv
<1> QED
  BY <1>11, <1>12, <1>13, <1>14 DEF AgreeInv

(***************************************************************************)
(* Every step keeps the stores alike.                                      *)
(***************************************************************************)
LEMMA AgreeSteps == IInv /\ AgreeInv /\ [Next]_vars => AgreeInv'
<1> SUFFICES ASSUME IInv, AgreeInv, [Next]_vars PROVE AgreeInv'
  OBVIOUS
<1>1. \E p \in Persons : TRUE
  BY SomeOfEach
<1>2. CASE Next
  <2>1. \/ \E l \in Lines, p \in Persons : \/ SavePerson(l, p) \/ DeletePerson(l, p)
                                           \/ SavePedigreeEdge(l, p) \/ DeletePedigreeEdge(l, p)
        \/ \E l \in Lines, p \in Persons, n \in Names : SavePersonName(l, p, n) \/ DeletePersonName(l, n)
        \/ \E l \in Lines, p \in Persons, f \in Families :
             SaveFamily(l, f, p) \/ SaveFamilyChild(l, f, p) \/ DeleteFamilyChild(l, f, p) \/ DeleteFamily(l, f)
        \/ \E l \in Lines, x \in Holders, ids \in UNION {{Nothing, m} : m \in Lines} : ReplaceExternalIDs(l, x, ids)
        \/ \E p, q \in Persons : MergePersons(p, q)
        \/ \E b \in Branches : PurgeBranch(b)
    BY <1>1, <1>2 DEF Next
  <2>2. ASSUME NEW l \in Lines, NEW p \in Persons,
               SavePerson(l, p) \/ DeletePerson(l, p) \/ SavePedigreeEdge(l, p) \/ DeletePedigreeEdge(l, p)
        PROVE  AgreeInv'
    BY <2>2, SavePersonAgrees, DeletePersonAgrees, EdgesAgree
  <2>3. ASSUME NEW l \in Lines, NEW p \in Persons, NEW n \in Names, SavePersonName(l, p, n) \/ DeletePersonName(l, n)
        PROVE  AgreeInv'
    BY <2>3, SavePersonNameAgrees, DeletePersonNameAgrees
  <2>4. ASSUME NEW l \in Lines, NEW p \in Persons, NEW f \in Families,
               SaveFamily(l, f, p) \/ SaveFamilyChild(l, f, p) \/ DeleteFamilyChild(l, f, p) \/ DeleteFamily(l, f)
        PROVE  AgreeInv'
    BY <2>4, SaveFamilyAgrees, SaveFamilyChildAgrees, DeleteFamilyChildAgrees, DeleteFamilyAgrees
  <2>5. ASSUME NEW l \in Lines, NEW x, NEW ids, ReplaceExternalIDs(l, x, ids) PROVE AgreeInv'
    BY <2>5, IdsAgree
  <2> QED
    BY <2>1, <2>2, <2>3, <2>4, <2>5, MergePersonsAgrees, PurgeAgrees
<1>3. CASE UNCHANGED vars
  <2>1. mem' = mem /\ lite' = lite /\ pg' = pg /\ made' = made /\ bornTo' = bornTo
    BY <1>3 DEF vars
  <2>2. TablesInv' /\ KidsInv' /\ BucketsInv'
    BY <2>1 DEF AgreeInv, TablesInv, KidsInv, BucketsInv, KidsOnMain, MainBucket, ChildrenOnMain, NamesOnMain, OwnedOnMain
  <2>3. BornInv'
    BY <2>1 DEF AgreeInv, BornInv, AsBorn, HandedOn
  <2> QED
    BY <2>2, <2>3 DEF AgreeInv
<1> QED
  BY <1>2, <1>3

(***************************************************************************)
(* In every behaviour of the three stores, whatever calls are made.        *)
(***************************************************************************)
LEMMA AgreeInvariance == Spec => []AgreeInv
BY StartHolds, StepHolds, StartAgrees, AgreeSteps, Invariance, PTL DEF Spec

-----------------------------------------------------------------------------
(* What the invariants say of the answers.                                 *)

\* The persons and the families that a line lists.
People(l) == {p \in Persons : Winner(mem.persons, l, p) # Gone}
Houses(l) == {f \in Families : Winner(mem.families, l, f) # Gone}

(***************************************************************************)
(* The three stores choose the winning row alike.                          *)
(***************************************************************************)
LEMMA SameWinner ==
  /\ \A t, l, k : Memory!Winner(t, l, k) = Winner(t, l, k)
  /\ \A t, l, k : Sqlite!Winner(t, l, k) = Winner(t, l, k)
  /\ \A t, l, k : Postgres!RowOf(Postgres!Visible(t, l), k) = Winner(t, l, k)
  /\ \A t, l, k : k \in DOMAIN Postgres!Visible(t, l) <=> Winner(t, l, k) # Gone
<1>1. \A t, l, k : Memory!Winner(t, l, k) = Winner(t, l, k) /\ Sqlite!Winner(t, l, k) = Winner(t, l, k)
  BY DEF Memory!Winner, Sqlite!Winner, Winner
<1>2. ASSUME NEW t, NEW l, NEW k
      PROVE  /\ Postgres!RowOf(Postgres!Visible(t, l), k) = Winner(t, l, k)
             /\ k \in DOMAIN Postgres!Visible(t, l) <=> Winner(t, l, k) # Gone
  <2>1. PICK rows : rows = Postgres!Distinct(t, l)
    OBVIOUS
  <2>2. /\ DOMAIN rows = DOMAIN t[l] \union DOMAIN t[Main]
        /\ \A j \in DOMAIN rows : rows[j] = IF j \in DOMAIN t[l] THEN t[l][j] ELSE t[Main][j]
    BY <2>1 DEF Postgres!Distinct, Postgres!Keys, Postgres!Winner
  <2>3. PICK w : w = Postgres!Visible(t, l)
    OBVIOUS
  <2>4. /\ DOMAIN w = {j \in DOMAIN rows : rows[j] # Gone}
        /\ \A j \in DOMAIN w : w[j] = rows[j]
    BY <2>1, <2>3 DEF Postgres!Visible, Postgres!Restrict
  <2>5. Postgres!RowOf(w, k) = IF k \in DOMAIN w THEN w[k] ELSE Gone
    BY DEF Postgres!RowOf
  <2> QED
    BY <2>2, <2>3, <2>4, <2>5 DEF Winner
<1> QED
  BY <1>1, <1>2

(***************************************************************************)
(* They read the same persons and families on every line.                  *)
(***************************************************************************)
LEMMA RowsRead ==
  ASSUME IInv, AgreeInv, NEW l \in Lines
  PROVE  /\ Memory!ListPersons(l) = People(l) /\ Sqlite!ListPersons(l) = People(l)
         /\ Postgres!ListPersons(l) = People(l)
         /\ Memory!ListFamilies(l) = Houses(l) /\ Sqlite!ListFamilies(l) = Houses(l)
         /\ Postgres!ListFamilies(l) = Houses(l)
         /\ \A p : Memory!GetPerson(l, p) = Winner(mem.persons, l, p)
         /\ \A f : /\ Memory!GetFamily(l, f) = Winner(mem.families, l, f)
                   /\ Sqlite!GetFamily(l, f) = Winner(mem.families, l, f)
                   /\ Postgres!GetFamily(l, f) = Winner(mem.families, l, f)
<1>1. /\ lite.persons = mem.persons /\ pg.persons = mem.persons
      /\ lite.families = mem.families /\ pg.families = mem.families
  BY DEF IInv, RowsInv, Twins
<1>2. /\ DOMAIN mem.persons[l] \union DOMAIN mem.persons[Main] \subseteq Persons
      /\ DOMAIN mem.families[l] \union DOMAIN mem.families[Main] \subseteq Families
  BY MainLine DEF AgreeInv, TablesInv
<1>3. /\ \A p : Winner(mem.persons, l, p) # Gone => p \in Persons
      /\ \A f : Winner(mem.families, l, f) # Gone => f \in Families
  BY <1>2 DEF Winner
<1>4. Memory!ListPersons(l) = People(l) /\ Memory!ListFamilies(l) = Houses(l)
  BY <1>2, SameWinner DEF Memory!ListPersons, Memory!ListFamilies, Memory!ResolveAllRows, Memory!Keys,
     People, Houses, Winner
<1>5. /\ \A p : Memory!GetPerson(l, p) = Winner(mem.persons, l, p)
      /\ \A f : Memory!GetFamily(l, f) = Winner(mem.families, l, f)
  BY SameWinner DEF Memory!GetPerson, Memory!GetFamily, Memory!ResolveRow
<1>6. /\ \A p : Sqlite!GetPerson(l, p) = Winner(mem.persons, l, p)
      /\ \A f : Sqlite!GetFamily(l, f) = Winner(mem.families, l, f)
  BY <1>1, SameWinner DEF Sqlite!GetPerson, Sqlite!GetFamily
<1>7. Sqlite!ListPersons(l) = People(l) /\ Sqlite!ListFamilies(l) = Houses(l)
  BY <1>6 DEF Sqlite!ListPersons, Sqlite!ListFamilies, People, Houses
<1>8. \A f : Postgres!GetFamily(l, f) = Winner(mem.families, l, f)
  BY <1>1, SameWinner DEF Postgres!GetFamily
<1>9. Postgres!ListPersons(l) = People(l) /\ Postgres!ListFamilies(l) = Houses(l)
  <2>1. /\ \A p : p \in Postgres!ListPersons(l) <=> Winner(mem.persons, l, p) # Gone
        /\ \A f : f \in Postgres!ListFamilies(l) <=> Winner(mem.families, l, f) # Gone
    BY <1>1, SameWinner DEF Postgres!ListPersons, Postgres!ListFamilies
  <2> QED
    BY <1>3, <2>1 DEF People, Houses
<1> QED
  BY <1>4, <1>5, <1>6, <1>7, <1>8, <1>9

(***************************************************************************)
(* Where the line has a family, both SQL stores see the same children of   *)
(* it, and on main the memory store sees them too.                         *)
(***************************************************************************)
LEMMA ChildrenRead ==
  ASSUME IInv, AgreeInv, NEW l \in Lines, NEW f \in Houses(l), NEW p \in Persons
  PROVE  /\ p \in DOMAIN Sqlite!GetFamilyChildren(l, f) <=> Winner(lite.kids, l, <<f, p>>) # Gone
         /\ <<f, p>> \in DOMAIN Postgres!Children(l) <=> Winner(lite.kids, l, <<f, p>>) # Gone
         /\ l = Main => (p \in DOMAIN Memory!GetFamilyChildren(l, f) <=> Winner(lite.kids, l, <<f, p>>) # Gone)
<1>1. p \in DOMAIN Sqlite!GetFamilyChildren(l, f) <=> Winner(lite.kids, l, <<f, p>>) # Gone
  BY SameWinner DEF Sqlite!GetFamilyChildren
<1>2. f \in Families /\ KidsInv /\ ~DeletedOn(mem.families, l, f)
  BY DEF AgreeInv, Houses, Winner, DeletedOn
<1>3. Winner(pg.kids, l, <<f, p>>) = Winner(lite.kids, l, <<f, p>>)
  <2>1. CASE l = Main
    BY <1>2, <2>1 DEF KidsInv, Winner
  <2>2. CASE l \in Branches
    <3>1. SameRow(lite.kids, pg.kids, l, <<f, p>>) /\ lite.kids[Main] = pg.kids[Main]
      BY <1>2, <2>2 DEF KidsInv
    <3> QED
      BY <3>1 DEF SameRow, Winner
  <2> QED
    BY <2>1, <2>2 DEF Lines
<1>4. <<f, p>> \in DOMAIN Postgres!Children(l) <=> Winner(lite.kids, l, <<f, p>>) # Gone
  BY <1>3, SameWinner DEF Postgres!Children
<1>5. ASSUME l = Main
      PROVE  p \in DOMAIN Memory!GetFamilyChildren(l, f) <=> Winner(lite.kids, l, <<f, p>>) # Gone
  <2>1. Memory!GetFamilyChildren(l, f) = MainBucket(mem.kids, f)
    BY <1>5 DEF Memory!GetFamilyChildren, Memory!ResolveBucket, Memory!Nothing, MainBucket, Nothing
  <2>2. p \in DOMAIN MainBucket(mem.kids, f) <=> <<f, p>> \in DOMAIN lite.kids[Main]
    BY <1>2 DEF KidsInv, KidsOnMain, ChildrenOnMain
  <2>3. <<f, p>> \in DOMAIN lite.kids[Main] => lite.kids[Main][<<f, p>>] # Gone
    BY <1>2 DEF KidsInv
  <2> QED
    BY <1>5, <2>1, <2>2, <2>3 DEF Winner
<1> QED
  BY <1>1, <1>4, <1>5

(***************************************************************************)
(* So the families of a person, the children of a family and the family    *)
(* of a child are read alike.                                              *)
(***************************************************************************)
LEMMA FamiliesRead ==
  ASSUME IInv, AgreeInv, NEW l \in Lines
  PROVE  /\ Sqlite!Answers(l).partner = Postgres!Answers(l).partner
         /\ Sqlite!Answers(l).children = Postgres!Answers(l).children
         /\ Sqlite!Answers(l).childOf = Postgres!Answers(l).childOf
         /\ l = Main => /\ Memory!Answers(l).partner = Sqlite!Answers(l).partner
                        /\ Memory!Answers(l).children = Sqlite!Answers(l).children
                        /\ Memory!Answers(l).childOf = Sqlite!Answers(l).childOf
<1>1. /\ Memory!ListPersons(l) = People(l) /\ Sqlite!ListPersons(l) = People(l)
      /\ Postgres!ListPersons(l) = People(l)
      /\ Memory!ListFamilies(l) = Houses(l) /\ Sqlite!ListFamilies(l) = Houses(l)
      /\ Postgres!ListFamilies(l) = Houses(l)
      /\ \A p : Memory!GetPerson(l, p) = Winner(mem.persons, l, p)
      /\ \A f : /\ Memory!GetFamily(l, f) = Winner(mem.families, l, f)
                /\ Sqlite!GetFamily(l, f) = Winner(mem.families, l, f)
                /\ Postgres!GetFamily(l, f) = Winner(mem.families, l, f)
  BY RowsRead
<1>2. \A p : /\ Sqlite!GetFamiliesForPerson(l, p) = {f \in Houses(l) : Winner(mem.families, l, f) = p}
             /\ Postgres!GetFamiliesForPerson(l, p) = {f \in Houses(l) : Winner(mem.families, l, f) = p}
             /\ Memory!GetFamiliesForPerson(l, p) = {f \in Houses(l) : Winner(mem.families, l, f) = p}
  BY <1>1 DEF Sqlite!GetFamiliesForPerson, Postgres!GetFamiliesForPerson, Memory!GetFamiliesForPerson
<1>3. People(l) \subseteq Persons /\ Houses(l) \subseteq Families
  BY DEF People, Houses
<1>4. ASSUME NEW f \in Houses(l)
      PROVE  /\ Sqlite!GetChildrenOfFamily(l, f) = {p \in People(l) : Winner(lite.kids, l, <<f, p>>) # Gone}
             /\ Postgres!GetChildrenOfFamily(l, f) = {p \in People(l) : Winner(lite.kids, l, <<f, p>>) # Gone}
  BY <1>1, <1>3, ChildrenRead DEF Sqlite!GetChildrenOfFamily, Postgres!GetChildrenOfFamily
<1>5. ASSUME NEW p \in Persons
      PROVE  /\ Sqlite!GetChildFamily(l, p) = {f \in Houses(l) : Winner(lite.kids, l, <<f, p>>) # Gone}
             /\ Postgres!GetChildFamily(l, p) = {f \in Houses(l) : Winner(lite.kids, l, <<f, p>>) # Gone}
  <2>1. \A f \in Houses(l) : <<f, p>> \in DOMAIN Postgres!Children(l) <=> Winner(lite.kids, l, <<f, p>>) # Gone
    BY ChildrenRead
  <2> QED
    BY <1>1, <2>1, SameWinner DEF Sqlite!GetChildFamily, Postgres!GetChildFamily
<1>6. ASSUME l = Main
      PROVE  /\ \A f \in Houses(l) :
                  Memory!GetChildrenOfFamily(l, f) = {p \in People(l) : Winner(lite.kids, l, <<f, p>>) # Gone}
             /\ \A p \in Persons :
                  Memory!GetChildFamily(l, p) = {f \in Houses(l) : Winner(lite.kids, l, <<f, p>>) # Gone}
  <2>1. \A f \in Houses(l), p \in Persons :
          p \in DOMAIN Memory!GetFamilyChildren(l, f) <=> Winner(lite.kids, l, <<f, p>>) # Gone
    BY <1>6, ChildrenRead
  <2>2. ASSUME NEW f \in Houses(l)
        PROVE  Memory!GetChildrenOfFamily(l, f) = {p \in People(l) : Winner(lite.kids, l, <<f, p>>) # Gone}
    <3>1. \A p : Winner(mem.persons, l, p) # Gone => p \in Persons
      BY MainLine DEF AgreeInv, TablesInv, Winner
    <3>2. \A p : p \in People(l) <=> Winner(mem.persons, l, p) # Gone
      BY <3>1 DEF People
    <3>3. Memory!GetChildrenOfFamily(l, f) =
            {p \in DOMAIN Memory!GetFamilyChildren(l, f) : Winner(mem.persons, l, p) # Gone}
      BY <1>1 DEF Memory!GetChildrenOfFamily
    <3> QED
      BY <2>1, <3>1, <3>2, <3>3
  <2>3. ASSUME NEW p \in Persons
        PROVE  Memory!GetChildFamily(l, p) = {f \in Houses(l) : Winner(lite.kids, l, <<f, p>>) # Gone}
    <3>1. \A f : f \in Houses(l) <=> f \in Families /\ Winner(mem.families, l, f) # Gone
      BY DEF Houses
    <3>2. Memory!GetChildFamily(l, p) =
            {f \in Families : p \in DOMAIN Memory!GetFamilyChildren(l, f) /\ Winner(mem.families, l, f) # Gone}
      BY <1>1 DEF Memory!GetChildFamily
    <3> QED
      BY <2>1, <3>1, <3>2
  <2> QED
    BY <2>2, <2>3
<1>7. /\ Sqlite!Answers(l).partner = [p \in Persons |-> {f \in Houses(l) : Winner(mem.families, l, f) = p}]
      /\ Postgres!Answers(l).partner = [p \in Persons |-> {f \in Houses(l) : Winner(mem.families, l, f) = p}]
      /\ Memory!Answers(l).partner = [p \in Persons |-> {f \in Houses(l) : Winner(mem.families, l, f) = p}]
  BY <1>2 DEF Sqlite!Answers, Postgres!Answers, Memory!Answers
<1>8. /\ Sqlite!Answers(l).children = [f \in Houses(l) |-> Sqlite!GetChildrenOfFamily(l, f)]
      /\ Postgres!Answers(l).children = [f \in Houses(l) |-> Postgres!GetChildrenOfFamily(l, f)]
      /\ Memory!Answers(l).children = [f \in Houses(l) |-> Memory!GetChildrenOfFamily(l, f)]
  BY <1>1 DEF Sqlite!Answers, Postgres!Answers, Memory!Answers
<1>9. /\ Sqlite!Answers(l).childOf = [p \in Persons |-> Sqlite!GetChildFamily(l, p)]
      /\ Postgres!Answers(l).childOf = [p \in Persons |-> Postgres!GetChildFamily(l, p)]
      /\ Memory!Answers(l).childOf = [p \in Persons |-> Memory!GetChildFamily(l, p)]
  BY DEF Sqlite!Answers, Postgres!Answers, Memory!Answers
<1>10. /\ \A f \in Houses(l) : Sqlite!GetChildrenOfFamily(l, f) = Postgres!GetChildrenOfFamily(l, f)
       /\ \A p \in Persons : Sqlite!GetChildFamily(l, p) = Postgres!GetChildFamily(l, p)
       /\ l = Main => \A f \in Houses(l) : Memory!GetChildrenOfFamily(l, f) = Sqlite!GetChildrenOfFamily(l, f)
       /\ l = Main => \A p \in Persons : Memory!GetChildFamily(l, p) = Sqlite!GetChildFamily(l, p)
  <2>1. /\ \A f \in Houses(l) : Sqlite!GetChildrenOfFamily(l, f) = Postgres!GetChildrenOfFamily(l, f)
        /\ \A p \in Persons : Sqlite!GetChildFamily(l, p) = Postgres!GetChildFamily(l, p)
    BY <1>4, <1>5
  <2>2. ASSUME l = Main
        PROVE  /\ \A f \in Houses(l) : Memory!GetChildrenOfFamily(l, f) = Sqlite!GetChildrenOfFamily(l, f)
               /\ \A p \in Persons : Memory!GetChildFamily(l, p) = Sqlite!GetChildFamily(l, p)
    BY <1>4, <1>5, <1>6, <2>2
  <2> QED
    BY <2>1, <2>2
<1>11. /\ Sqlite!Answers(l).children = Postgres!Answers(l).children
       /\ l = Main => Memory!Answers(l).children = Sqlite!Answers(l).children
  BY <1>8, <1>10
<1>12. /\ Sqlite!Answers(l).childOf = Postgres!Answers(l).childOf
       /\ l = Main => Memory!Answers(l).childOf = Sqlite!Answers(l).childOf
  BY <1>9, <1>10
<1> QED
  BY <1>7, <1>11, <1>12

(***************************************************************************)
(* What a line has of its own of a unit, and what it says of it, is the    *)
(* same in both SQL stores.                                                *)
(***************************************************************************)
LEMMA SqlUnits ==
  ASSUME IInv, AgreeInv, NEW l \in Lines, NEW u \in Units
  PROVE  /\ SOwns(pg, l, u) <=> SOwns(lite, l, u)
         /\ SOwns(lite, l, u) => SSays(pg, l, u) = SSays(lite, l, u)
<1>1. /\ lite.persons = mem.persons /\ pg.persons = mem.persons
      /\ lite.families = mem.families /\ pg.families = mem.families
      /\ lite.edges = pg.edges /\ lite.exids = pg.exids
  BY DEF IInv, RowsInv, Twins, AgreeInv, TablesInv
<1>2. CASE u[1] = "name"
  <2>1. u[2] \in Persons /\ u[3] \in Names
    BY <1>2, UnitKinds
  <2>2. DeletedOn(mem.persons, l, u[2]) \/ SameName(lite.names, pg.names, l, u[2], u[3])
    <3>1. CASE l = Main
      BY <3>1 DEF IInv, NamesInv, MainNames, SameName, HasName
    <3>2. CASE l \in Branches
      BY <2>1, <3>2 DEF AgreeInv, BucketsInv
    <3> QED
      BY <3>1, <3>2 DEF Lines
  <2> QED
    BY <1>1, <1>2, <2>2 DEF SOwns, SSays, SameName, HasName
<1>3. CASE u[1] = "child"
  <2>1. u[2] \in Families /\ u[3] \in Persons
    BY <1>3, UnitKinds
  <2>2. DeletedOn(mem.families, l, u[2]) \/ SameRow(lite.kids, pg.kids, l, <<u[2], u[3]>>)
    <3>1. CASE l = Main
      BY <3>1 DEF AgreeInv, KidsInv, SameRow
    <3>2. CASE l \in Branches
      BY <2>1, <3>2 DEF AgreeInv, KidsInv
    <3> QED
      BY <3>1, <3>2 DEF Lines
  <2> QED
    BY <1>1, <1>3, <2>2 DEF SOwns, SSays, SameRow
<1>4. CASE u[1] \in {"person", "edge", "family", "ids"}
  BY <1>1, <1>4 DEF SOwns, SSays
<1> QED
  BY <1>2, <1>3, <1>4, UnitKinds

(***************************************************************************)
(* So their views are the same.                                            *)
(***************************************************************************)
LEMMA SqlShows ==
  ASSUME IInv, AgreeInv, NEW l \in Lines
  PROVE  Sqlite!Answers(l).shows = Postgres!Answers(l).shows
<1>1. MainLives(lite) /\ MainLives(pg) /\ IsStore(lite) /\ IsStore(pg)
  BY DEF IInv, RowsInv, Twins, MainLives
<1>2. /\ Sqlite!Units = Units /\ Postgres!Units = Units
      /\ Sqlite!Answers(l).shows = [u \in Units |-> Sqlite!Shows(l, u)]
      /\ Postgres!Answers(l).shows = [u \in Units |-> Postgres!Shows(l, u)]
  BY DEF Sqlite!Answers, Postgres!Answers, Sqlite!Units, Postgres!Units, Units
<1>3. ASSUME NEW u \in Units PROVE Sqlite!Shows(l, u) = Postgres!Shows(l, u)
  <2>1. Main \in Lines
    BY MainLine
  <2>2. /\ [k \in Lines |-> [w \in Units |-> Sqlite!Shows(k, w)]][l][u] = Laid(SHas(lite), SHolds(lite))[l][u]
        /\ [k \in Lines |-> [w \in Units |-> Postgres!Shows(k, w)]][l][u] = Laid(SHas(pg), SHolds(pg))[l][u]
    BY <1>1, SqliteLaid, PostgresLaid
  <2>3. /\ Sqlite!Shows(l, u) = IF SOwns(lite, l, u) THEN SSays(lite, l, u)
                                ELSE IF SOwns(lite, Main, u) THEN SSays(lite, Main, u) ELSE Blank(u)
        /\ Postgres!Shows(l, u) = IF SOwns(pg, l, u) THEN SSays(pg, l, u)
                                  ELSE IF SOwns(pg, Main, u) THEN SSays(pg, Main, u) ELSE Blank(u)
    BY <2>1, <2>2 DEF Laid, SHas, SHolds
  <2> QED
    BY <2>1, <2>3, SqlUnits
<1> QED
  BY <1>2, <1>3

(***************************************************************************)
(* On main the memory store's view is theirs too.                          *)
(***************************************************************************)
LEMMA MainShows ==
  ASSUME IInv, AgreeInv
  PROVE  Memory!Answers(Main).shows = Sqlite!Answers(Main).shows
<1>1. /\ lite.persons = mem.persons /\ lite.families = mem.families
      /\ lite.edges = mem.edges /\ lite.exids = mem.exids
      /\ MainLives(lite) /\ IsStore(lite) /\ Main \in Lines
      /\ BucketsInv /\ KidsInv
  BY MainLine DEF IInv, RowsInv, Twins, MainLives, AgreeInv, TablesInv
<1>2. /\ Memory!Units = Units /\ Sqlite!Units = Units
      /\ Memory!Answers(Main).shows = [u \in Units |-> Memory!Shows(Main, u)]
      /\ Sqlite!Answers(Main).shows = [u \in Units |-> Sqlite!Shows(Main, u)]
  BY DEF Sqlite!Answers, Memory!Answers, Sqlite!Units, Memory!Units, Units
<1>3. ASSUME NEW u \in Units PROVE Memory!Shows(Main, u) = Sqlite!Shows(Main, u)
  <2>1. /\ [k \in Lines |-> [w \in Units |-> Memory!Shows(k, w)]][Main][u] = Laid(MHas(mem), MHolds(mem))[Main][u]
        /\ [k \in Lines |-> [w \in Units |-> Sqlite!Shows(k, w)]][Main][u] = Laid(SHas(lite), SHolds(lite))[Main][u]
    BY <1>1, MemoryLaid, SqliteLaid
  <2>2. /\ Memory!Shows(Main, u) = IF MOwns(mem, Main, u) THEN MSays(mem, Main, u) ELSE Blank(u)
        /\ Sqlite!Shows(Main, u) = IF SOwns(lite, Main, u) THEN SSays(lite, Main, u) ELSE Blank(u)
    BY <1>1, <2>1 DEF Laid, MHas, MHolds, SHas, SHolds
  <2>3. DOMAIN Nothing = {}
    BY DEF Nothing
  <2>4. CASE u[1] = "name"
    <3>1. u[2] \in Persons /\ u[3] \in Names /\ ~DeletedOn(lite.persons, Main, u[2])
      BY <1>1, <2>4, UnitKinds DEF MainLives, Living
    <3>2. PICK g : g = MainBucket(mem.names, u[2])
      OBVIOUS
    <3>3. Memory!Shows(Main, u) = RowOf(g, u[3])
      BY <2>2, <2>3, <2>4, <3>2 DEF MOwns, MSays, Blank, MainBucket, RowOf
    <3>4. /\ u[3] \in DOMAIN g <=> HasName(lite.names, Main, u[2], u[3])
          /\ u[3] \in DOMAIN g => g[u[3]] = lite.names[Main][u[3]].value
      BY <1>1, <3>1, <3>2 DEF BucketsInv, NamesOnMain, OwnedOnMain, HasName
    <3>5. Sqlite!Shows(Main, u) = IF HasName(lite.names, Main, u[2], u[3])
                                  THEN lite.names[Main][u[3]].value ELSE Gone
      BY <2>2, <2>4, <3>1 DEF SOwns, SSays, Blank, HasName
    <3> QED
      BY <3>3, <3>4, <3>5 DEF RowOf
  <2>5. CASE u[1] = "child"
    <3>1. u[2] \in Families /\ u[3] \in Persons /\ ~DeletedOn(lite.families, Main, u[2])
      BY <1>1, <2>5, UnitKinds DEF MainLives, Living
    <3>2. PICK g : g = MainBucket(mem.kids, u[2])
      OBVIOUS
    <3>3. Memory!Shows(Main, u) = RowOf(g, u[3])
      BY <2>2, <2>3, <2>5, <3>2 DEF MOwns, MSays, Blank, MainBucket, RowOf
    <3>4. /\ u[3] \in DOMAIN g <=> <<u[2], u[3]>> \in DOMAIN lite.kids[Main]
          /\ u[3] \in DOMAIN g => g[u[3]] = lite.kids[Main][<<u[2], u[3]>>]
      BY <1>1, <3>1, <3>2 DEF KidsInv, KidsOnMain, ChildrenOnMain
    <3>5. Sqlite!Shows(Main, u) = IF <<u[2], u[3]>> \in DOMAIN lite.kids[Main]
                                  THEN lite.kids[Main][<<u[2], u[3]>>] ELSE Gone
      BY <2>2, <2>5, <3>1 DEF SOwns, SSays, Blank
    <3> QED
      BY <3>3, <3>4, <3>5 DEF RowOf
  <2>6. CASE u[1] \in {"person", "edge", "family", "ids"}
    BY <1>1, <2>2, <2>6 DEF MOwns, MSays, SOwns, SSays
  <2> QED
    BY <2>4, <2>5, <2>6, UnitKinds
<1> QED
  BY <1>2, <1>3

(***************************************************************************)
(* Whom a name is found to belong to, among the persons the line lists.    *)
(***************************************************************************)
LEMMA OwnersRead ==
  ASSUME IInv, AgreeInv, NEW l \in Lines, NEW n \in Names
  PROVE  /\ Sqlite!Answers(l).owner[n] = {p \in People(l) : p \in Sqlite!GetPersonName(l, n)}
         /\ Postgres!Answers(l).owner[n] = {p \in People(l) : p \in Postgres!GetPersonName(l, n)}
         /\ Memory!Answers(l).owner[n] = {p \in People(l) : p \in Memory!GetPersonName(l, n)}
<1>1. /\ Memory!ListPersons(l) = People(l) /\ Sqlite!ListPersons(l) = People(l)
      /\ Postgres!ListPersons(l) = People(l)
  BY RowsRead
<1>2. /\ Sqlite!Answers(l).owner[n] = {p \in Sqlite!GetPersonName(l, n) : p \in Sqlite!ListPersons(l)}
      /\ Postgres!Answers(l).owner[n] = {p \in Postgres!GetPersonName(l, n) : p \in Postgres!ListPersons(l)}
      /\ Memory!Answers(l).owner[n] = {p \in Memory!GetPersonName(l, n) : p \in Memory!ListPersons(l)}
  BY DEF Sqlite!Answers, Postgres!Answers, Memory!Answers
<1> QED
  BY <1>1, <1>2

(***************************************************************************)
(* A SQL store goes by the row that wins.                                  *)
(***************************************************************************)
LEMMA NameRead ==
  ASSUME NEW l, NEW n, NEW p
  PROVE  /\ p \in Sqlite!GetPersonName(l, n) <=>
              \/ HasName(lite.names, l, p, n) /\ lite.names[l][n].value # Gone
              \/ n \notin DOMAIN lite.names[l] /\ HasName(lite.names, Main, p, n) /\ lite.names[Main][n].value # Gone
         /\ p \in Postgres!GetPersonName(l, n) <=>
              /\ p \in Persons
              /\ \/ HasName(pg.names, l, p, n) /\ pg.names[l][n].value # Gone
                 \/ n \notin DOMAIN pg.names[l] /\ HasName(pg.names, Main, p, n) /\ pg.names[Main][n].value # Gone
<1>1. p \in Sqlite!GetPersonName(l, n) <=>
        \/ HasName(lite.names, l, p, n) /\ lite.names[l][n].value # Gone
        \/ n \notin DOMAIN lite.names[l] /\ HasName(lite.names, Main, p, n) /\ lite.names[Main][n].value # Gone
  BY DEF Sqlite!GetPersonName, Sqlite!Keys, Sqlite!Winner, HasName
<1>2. p \in Postgres!GetPersonName(l, n) <=>
        /\ p \in Persons
        /\ \/ HasName(pg.names, l, p, n) /\ pg.names[l][n].value # Gone
           \/ n \notin DOMAIN pg.names[l] /\ HasName(pg.names, Main, p, n) /\ pg.names[Main][n].value # Gone
  <2>1. PICK rows : rows = Postgres!Distinct(pg.names, l)
    OBVIOUS
  <2>2. /\ DOMAIN rows = DOMAIN pg.names[l] \union DOMAIN pg.names[Main]
        /\ \A j \in DOMAIN rows : rows[j] = IF j \in DOMAIN pg.names[l] THEN pg.names[l][j] ELSE pg.names[Main][j]
    BY <2>1 DEF Postgres!Distinct, Postgres!Keys, Postgres!Winner
  <2>3. p \in Postgres!GetPersonName(l, n) <=>
          p \in Persons /\ n \in DOMAIN rows /\ rows[n].owner = p /\ rows[n].value # Gone
    BY <2>1 DEF Postgres!GetPersonName
  <2> QED
    BY <2>2, <2>3 DEF HasName
<1> QED
  BY <1>1, <1>2

(***************************************************************************)
(* On main, it is the same person in every store.                          *)
(***************************************************************************)
LEMMA OwnersOnMain ==
  ASSUME IInv, AgreeInv
  PROVE  /\ Memory!Answers(Main).owner = Sqlite!Answers(Main).owner
         /\ Sqlite!Answers(Main).owner = Postgres!Answers(Main).owner
<1>1. MainNames(lite.names, pg.names) /\ Main \in Lines /\ BucketsInv
  BY MainLine DEF IInv, NamesInv, AgreeInv
<1>2. ASSUME NEW n \in Names
      PROVE  /\ Memory!Answers(Main).owner[n] = Sqlite!Answers(Main).owner[n]
             /\ Sqlite!Answers(Main).owner[n] = Postgres!Answers(Main).owner[n]
  <2>1. ASSUME NEW p \in People(Main)
        PROVE  /\ p \in Sqlite!GetPersonName(Main, n) <=> HasName(lite.names, Main, p, n)
               /\ p \in Postgres!GetPersonName(Main, n) <=> HasName(lite.names, Main, p, n)
               /\ p \in Memory!GetPersonName(Main, n) <=> HasName(lite.names, Main, p, n)
    <3>1. p \in Persons
      BY DEF People
    <3>2. n \in DOMAIN lite.names[Main] => lite.names[Main][n].value # Gone
      BY <1>1 DEF MainNames
    <3>3. lite.names[Main] = pg.names[Main]
      BY <1>1 DEF MainNames
    <3>4. Memory!GetPersonNames(Main, p) = MainBucket(mem.names, p)
      BY DEF Memory!GetPersonNames, Memory!ResolveBucket, Memory!Nothing, MainBucket, Nothing
    <3>5. p \in Memory!GetPersonName(Main, n) <=> n \in DOMAIN MainBucket(mem.names, p)
      BY <3>1, <3>4 DEF Memory!GetPersonName
    <3>6. n \in DOMAIN MainBucket(mem.names, p) <=> HasName(lite.names, Main, p, n)
      BY <1>1, <3>1 DEF BucketsInv, NamesOnMain, OwnedOnMain, HasName
    <3> QED
      BY <3>1, <3>2, <3>3, <3>5, <3>6, NameRead DEF HasName
  <2> QED
    BY <1>1, <2>1, OwnersRead
<1>3. /\ Memory!Answers(Main).owner = [n \in Names |-> Memory!Answers(Main).owner[n]]
      /\ Sqlite!Answers(Main).owner = [n \in Names |-> Sqlite!Answers(Main).owner[n]]
      /\ Postgres!Answers(Main).owner = [n \in Names |-> Postgres!Answers(Main).owner[n]]
  BY DEF Memory!Answers, Sqlite!Answers, Postgres!Answers
<1> QED
  BY <1>2, <1>3

(***************************************************************************)
(* On a branch both SQL stores find the same owner, unless PostgreSQL      *)
(* kept the mark on the name of a person deleted there, and main has       *)
(* handed the name to another since.                                       *)
(***************************************************************************)
LEMMA OwnersOnBranch ==
  ASSUME IInv, AgreeInv, NEW b \in Branches, NEW n \in Names
  PROVE  \/ Sqlite!Answers(b).owner[n] = Postgres!Answers(b).owner[n]
         \/ Moved(n) /\ Postgres!Answers(b).owner[n] = {}
<1>1. /\ MainNames(lite.names, pg.names) /\ b \in Lines /\ BucketsInv /\ BornInv
      /\ Follows(lite.names, pg.names, mem.persons, b)
  BY MainLine DEF IInv, RowsInv, Twins, NamesInv, AgreeInv
<1>2. ASSUME NEW p \in People(b)
      PROVE  /\ p \in Persons /\ ~DeletedOn(mem.persons, b, p)
             /\ SameName(lite.names, pg.names, b, p, n)
  BY <1>1 DEF People, Winner, DeletedOn, BucketsInv
<1>3. /\ lite.names[Main] = pg.names[Main]
      /\ n \in DOMAIN lite.names[Main] => lite.names[Main][n].value # Gone
  BY <1>1 DEF MainNames
<1>4. CASE n \notin DOMAIN pg.names[b]
  <2>1. n \notin DOMAIN lite.names[b]
    BY <1>1, <1>4 DEF Follows
  <2>2. \A p \in People(b) : p \in Sqlite!GetPersonName(b, n) <=> p \in Postgres!GetPersonName(b, n)
    BY <1>2, <1>3, <1>4, <2>1, NameRead DEF HasName
  <2> QED
    BY <1>1, <2>2, OwnersRead
<1>5. CASE n \in DOMAIN lite.names[b] /\ n \in DOMAIN pg.names[b]
  <2>1. \A p \in People(b) : p \in Sqlite!GetPersonName(b, n) <=> p \in Postgres!GetPersonName(b, n)
    BY <1>2, <1>5, NameRead DEF SameName
  <2> QED
    BY <1>1, <2>1, OwnersRead
<1>6. CASE n \notin DOMAIN lite.names[b] /\ n \in DOMAIN pg.names[b]
  <2>1. PICK o : o = pg.names[b][n].owner
    OBVIOUS
  <2>2. DeletedOn(mem.persons, b, o)
    BY <1>1, <1>6, <2>1 DEF Follows, Owned
  <2>3. o \notin People(b)
    BY <1>2, <2>2
  <2>4. \A p \in People(b) : p \notin Postgres!GetPersonName(b, n)
    BY <1>6, <2>1, <2>3, NameRead DEF HasName
  <2>5. Postgres!Answers(b).owner[n] = {}
    BY <1>1, <2>4, OwnersRead
  <2>6. \A p \in People(b) : p \in Sqlite!GetPersonName(b, n) => HasName(lite.names, Main, p, n)
    BY <1>6, NameRead DEF HasName
  <2>7. CASE \A p \in People(b) : ~HasName(lite.names, Main, p, n)
    BY <1>1, <2>5, <2>6, <2>7, OwnersRead
  <2>8. CASE \E p \in People(b) : HasName(lite.names, Main, p, n)
    <3>1. PICK p \in People(b) : HasName(lite.names, Main, p, n)
      BY <2>8
    <3>2. ~AsBorn(n)
      BY <1>1, <1>6, <2>1, <2>3, <3>1, MainLine DEF AsBorn, HasName
    <3>3. bornTo[n] # p
      BY <1>1, <3>1, <3>2 DEF BornInv, HandedOn, HasName
    <3>4. p \in Sqlite!GetPersonName(Main, n)
      BY <1>3, <3>1, NameRead DEF HasName
    <3>5. Moved(n)
      BY <3>3, <3>4 DEF Moved
    <3> QED
      BY <2>5, <3>5
  <2> QED
    BY <2>7, <2>8
<1> QED
  BY <1>4, <1>5, <1>6

(***************************************************************************)
(* So under the invariants the backends agree.                             *)
(***************************************************************************)
LEMMA AgreeImplied ==
  ASSUME IInv, AgreeInv
  PROVE  BackendsAgree
<1>1. Main \in Lines /\ \A b \in Branches : b \in Lines
  BY MainLine
<1>2. ASSUME NEW l \in Lines
      PROVE  /\ Sqlite!Answers(l) = [persons |-> People(l), families |-> Houses(l),
                  partner |-> Sqlite!Answers(l).partner, children |-> Sqlite!Answers(l).children,
                  childOf |-> Sqlite!Answers(l).childOf, owner |-> Sqlite!Answers(l).owner,
                  shows |-> Sqlite!Answers(l).shows]
             /\ Postgres!Answers(l) = [persons |-> People(l), families |-> Houses(l),
                  partner |-> Postgres!Answers(l).partner, children |-> Postgres!Answers(l).children,
                  childOf |-> Postgres!Answers(l).childOf, owner |-> Postgres!Answers(l).owner,
                  shows |-> Postgres!Answers(l).shows]
             /\ Memory!Answers(l) = [persons |-> People(l), families |-> Houses(l),
                  partner |-> Memory!Answers(l).partner, children |-> Memory!Answers(l).children,
                  childOf |-> Memory!Answers(l).childOf, owner |-> Memory!Answers(l).owner,
                  shows |-> Memory!Answers(l).shows]
  BY RowsRead DEF Sqlite!Answers, Postgres!Answers, Memory!Answers
<1>3. Memory!Answers(Main) = Sqlite!Answers(Main)
  BY <1>1, <1>2, FamiliesRead, MainShows, OwnersOnMain
<1>4. Sqlite!Answers(Main) = Postgres!Answers(Main)
  BY <1>1, <1>2, FamiliesRead, SqlShows, OwnersOnMain
<1>5. ASSUME NEW b \in Branches
      PROVE  /\ [Sqlite!Answers(b) EXCEPT !.owner = Postgres!Answers(b).owner] = Postgres!Answers(b)
             /\ \A n \in Names : \/ Sqlite!Answers(b).owner[n] = Postgres!Answers(b).owner[n]
                                 \/ Moved(n) /\ Postgres!Answers(b).owner[n] = {}
  <2>1. PICK lites, pgs : lites = Sqlite!Answers(b) /\ pgs = Postgres!Answers(b)
    OBVIOUS
  <2>2. /\ lites = [persons |-> People(b), families |-> Houses(b), partner |-> lites.partner,
                    children |-> lites.children, childOf |-> lites.childOf, owner |-> lites.owner,
                    shows |-> lites.shows]
        /\ pgs = [persons |-> People(b), families |-> Houses(b), partner |-> pgs.partner,
                  children |-> pgs.children, childOf |-> pgs.childOf, owner |-> pgs.owner,
                  shows |-> pgs.shows]
    BY <1>1, <1>2, <2>1
  <2>3. /\ lites.partner = pgs.partner /\ lites.children = pgs.children
        /\ lites.childOf = pgs.childOf /\ lites.shows = pgs.shows
    BY <1>1, <2>1, FamiliesRead, SqlShows
  <2>4. [lites EXCEPT !.owner = pgs.owner] = pgs
    BY <2>2, <2>3
  <2> QED
    BY <2>1, <2>4, OwnersOnBranch
<1> QED
  BY <1>3, <1>4, <1>5 DEF BackendsAgree

(***************************************************************************)
(* In every behaviour of the three stores, for any persons, names,         *)
(* families, branches and numbers of calls, the backends agree.            *)
(***************************************************************************)
THEOREM BackendsAgreeHold == Spec => []BackendsAgree
BY AgreeInvariance, Invariance, AgreeImplied, PTL

=============================================================================
