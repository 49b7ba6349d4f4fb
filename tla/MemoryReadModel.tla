--------------------------- MODULE MemoryReadModel ---------------------------
(***************************************************************************)
(* The branch-scoped part of the in-memory read model                      *)
(* (internal/repository/memory/readmodel.go).  Persons, families and       *)
(* pedigree edges are rows; a person's names, a family's children and an   *)
(* entity's external identifiers are buckets, copied whole from the        *)
(* mainline when a branch first writes one.  An empty bucket of a branch   *)
(* is a tombstone.  Each call holds the store's lock.                      *)
(*                                                                         *)
(* Not here: paging, sorting, search, and the tables without a branch.     *)
(***************************************************************************)
EXTENDS OverlayTables

VARIABLE mem   \* the maps, each keyed by line and id

Init(persons, names, exids, families, kids, edges) ==
  mem = [persons |-> persons, names |-> names, exids |-> exids,
         families |-> families, kids |-> kids, edges |-> edges]

-----------------------------------------------------------------------------
(* Resolution.                                                             *)

ResolveRow(t, l, id) == Winner(t, l, id)

ResolveAllRows(t, l) == {id \in Keys(t, l) : Winner(t, l, id) # Gone}

\* Mutant: an empty bucket of a branch falls back to main's.
ResolveBucketEmptyFallsBack(t, l, id) ==
  IF id \in DOMAIN t[l] /\ t[l][id] # Nothing THEN t[l][id]
  ELSE IF id \in DOMAIN t[Main] THEN t[Main][id] ELSE Nothing

\* A present bucket wins, an empty one too.
ResolveBucket(t, l, id) ==
  IF id \in DOMAIN t[l] THEN t[l][id]
  ELSE IF id \in DOMAIN t[Main] THEN t[Main][id] ELSE Nothing

\* An empty bucket is removed on main and kept as a tombstone on a branch.
StoreBucket(t, l, id, rows) ==
  IF l = Main /\ rows = Nothing THEN Drop(t, l, {id}) ELSE Put(t, l, Row(id, rows))

Without(bucket, k) == Restrict(bucket, DOMAIN bucket \ {k})

-----------------------------------------------------------------------------
(* Reads.                                                                  *)

GetPerson(l, p) == ResolveRow(mem.persons, l, p)
GetFamily(l, f) == ResolveRow(mem.families, l, f)
GetPedigreeEdge(l, p) == ResolveRow(mem.edges, l, p)
ListPersons(l)  == ResolveAllRows(mem.persons, l)
ListFamilies(l) == ResolveAllRows(mem.families, l)

GetPersonNames(l, p) == ResolveBucket(mem.names, l, p)
GetExternalIDs(l, x) == ResolveBucket(mem.exids, l, x)
GetFamilyChildren(l, f) == ResolveBucket(mem.kids, l, f)

\* The owner it answers with: any whose bucket has the name.
GetPersonName(l, n) == {p \in Persons : n \in DOMAIN GetPersonNames(l, p)}

GetFamiliesForPerson(l, p) == {f \in ListFamilies(l) : GetFamily(l, f) = p}

GetChildrenOfFamily(l, f) == {p \in DOMAIN GetFamilyChildren(l, f) : GetPerson(l, p) # Gone}

\* Any family that exists and has the child may be found first.
GetChildFamily(l, p) ==
  {f \in Families : p \in DOMAIN GetFamilyChildren(l, f) /\ GetFamily(l, f) # Gone}

-----------------------------------------------------------------------------
(* Writes.                                                                 *)

SavePerson(l, p, v) == mem' = [mem EXCEPT !.persons = Put(@, l, Row(p, v))]

\* Main's child rows of the person go with the person.
DropChild(t, p) ==
  [t EXCEPT ![Main] =
     LET cleared == [f \in DOMAIN @ |-> Without(@[f], p)]
     IN  Restrict(cleared, {f \in DOMAIN cleared : cleared[f] # Nothing})]

DeletePerson(l, p) ==
  mem' = IF l = Main
         THEN [mem EXCEPT !.persons = Drop(@, l, {p}), !.names = Drop(@, l, {p}),
                          !.exids = Drop(@, l, {p}), !.edges = Drop(@, l, {p}),
                          !.kids = DropChild(@, p)]
         ELSE [mem EXCEPT !.persons = Put(@, l, Row(p, Gone)), !.names = Put(@, l, Row(p, Nothing)),
                          !.exids = Put(@, l, Row(p, Nothing)), !.edges = Put(@, l, Row(p, Gone))]

\* Mutant: the bucket is changed where it lies, on main.
SavePersonNameInPlace(l, p, n, v) ==
  mem' = [mem EXCEPT !.names =
            StoreBucket(@, IF p \in DOMAIN @[l] THEN l ELSE Main, p, Over(Row(n, v), GetPersonNames(l, p)))]

\* bucketForWrite copies what the line sees.
SavePersonName(l, p, n, v) ==
  mem' = [mem EXCEPT !.names = StoreBucket(@, l, p, Over(Row(n, v), GetPersonNames(l, p)))]

\* The first bucket found to have the name loses it.
DeletePersonName(l, n) ==
  IF GetPersonName(l, n) = {} THEN mem' = mem
  ELSE \E p \in GetPersonName(l, n) :
         mem' = [mem EXCEPT !.names = StoreBucket(@, l, p, Without(GetPersonNames(l, p), n))]

ReplaceExternalIDs(l, x, ids) == mem' = [mem EXCEPT !.exids = StoreBucket(@, l, x, ids)]

SaveFamily(l, f, v) == mem' = [mem EXCEPT !.families = Put(@, l, Row(f, v))]

DeleteFamily(l, f) ==
  mem' = IF l = Main
         THEN [mem EXCEPT !.families = Drop(@, l, {f}), !.kids = Drop(@, l, {f}),
                          !.exids = Drop(@, l, {f})]
         ELSE [mem EXCEPT !.families = Put(@, l, Row(f, Gone)), !.kids = Put(@, l, Row(f, Nothing)),
                          !.exids = Put(@, l, Row(f, Nothing))]

SaveFamilyChild(l, f, p, v) ==
  mem' = [mem EXCEPT !.kids = StoreBucket(@, l, f, Over(Row(p, v), GetFamilyChildren(l, f)))]

DeleteFamilyChild(l, f, p) ==
  IF p \in DOMAIN GetFamilyChildren(l, f)
  THEN mem' = [mem EXCEPT !.kids = StoreBucket(@, l, f, Without(GetFamilyChildren(l, f), p))]
  ELSE mem' = mem

SavePedigreeEdge(l, p, v) == mem' = [mem EXCEPT !.edges = Put(@, l, Row(p, v))]

DeletePedigreeEdge(l, p) ==
  mem' = [mem EXCEPT !.edges = IF l = Main THEN Drop(@, l, {p}) ELSE Put(@, l, Row(p, Gone))]

PurgeBranch(b) == mem' = [t \in DOMAIN mem |-> [mem[t] EXCEPT ![b] = Nothing]]

\* The end of projectPersonMerged: the names move, the merged person goes.
MoveNames(survivor, merged) ==
  mem' = [mem EXCEPT !.names = Drop(StoreBucket(@, Main, survivor,
                                      Over(GetPersonNames(Main, merged), GetPersonNames(Main, survivor))),
                                    Main, {merged}),
                     !.persons = Drop(@, Main, {merged}), !.exids = Drop(@, Main, {merged}),
                     !.edges = Drop(@, Main, {merged}), !.kids = DropChild(@, merged)]

-----------------------------------------------------------------------------
(* What the reads show of each unit, and the units a branch has its own of.*)

Shows(l, u) ==
  CASE u[1] = "person" -> GetPerson(l, u[2])
    [] u[1] = "edge"   -> GetPedigreeEdge(l, u[2])
    [] u[1] = "family" -> GetFamily(l, u[2])
    [] u[1] = "ids"    -> GetExternalIDs(l, u[2])
    [] u[1] = "name"   -> RowOf(GetPersonNames(l, u[2]), u[3])
    [] u[1] = "child"  -> RowOf(GetFamilyChildren(l, u[2]), u[3])

\* A bucket is the branch's own as a whole.
Owns(b, u) ==
  u[2] \in DOMAIN mem[CASE u[1] = "person" -> "persons" [] u[1] = "edge" -> "edges"
                        [] u[1] = "family" -> "families" [] u[1] = "ids" -> "exids"
                        [] u[1] = "name" -> "names" [] u[1] = "child" -> "kids"][b]

\* What the store answers about a line.
Answers(l) ==
  [persons  |-> ListPersons(l),
   families |-> ListFamilies(l),
   partner  |-> [p \in Persons |-> GetFamiliesForPerson(l, p)],
   children |-> [f \in ListFamilies(l) |-> GetChildrenOfFamily(l, f)],
   childOf  |-> [p \in Persons |-> GetChildFamily(l, p)],
   owner    |-> [n \in Names |-> {p \in GetPersonName(l, n) : p \in ListPersons(l)}],
   shows    |-> [u \in Units |-> Shows(l, u)]]

=============================================================================
