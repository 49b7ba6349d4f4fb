--------------------------- MODULE SqliteReadModel ---------------------------
(***************************************************************************)
(* The branch-scoped tables of the SQLite read model                       *)
(* (internal/repository/sqlite/readmodel.go).  Every table is keyed by id  *)
(* and line; a name row has its owner as a column, and a child row is      *)
(* keyed by family and person, so a branch shadows one name or one child   *)
(* at a time.  External identifiers are buckets.  Each call is one         *)
(* statement or one transaction.                                           *)
(*                                                                         *)
(* Not here: a database older than branches, whose branch writes           *)
(* guardBranchWrite refuses; paging, sorting and search.                   *)
(***************************************************************************)
EXTENDS OverlayTables

VARIABLE lite   \* the tables, each keyed by line and id

\* A name row; deleted = 1 keeps the owner.
NameRow(p, v) == [owner |-> p, value |-> v]
NameGone(p)   == [owner |-> p, value |-> Gone]

Init(persons, names, exids, families, kids, edges) ==
  lite = [persons |-> persons, names |-> names, exids |-> exids,
          families |-> families, kids |-> kids, edges |-> edges]

-----------------------------------------------------------------------------
(* Reads: ROW_NUMBER() picks the branch's row first, rn = 1 AND deleted = 0.*)

GetPerson(l, p) == Winner(lite.persons, l, p)
GetFamily(l, f) == Winner(lite.families, l, f)
GetPedigreeEdge(l, p) == Winner(lite.edges, l, p)

\* personOverlaySubquery and familyOverlaySubquery.
ListPersons(l)  == {p \in Persons : GetPerson(l, p) # Gone}
ListFamilies(l) == {f \in Families : GetFamily(l, f) # Gone}

\* The owner of the row that wins for the name.
GetPersonName(l, n) ==
  IF n \notin Keys(lite.names, l) \/ Winner(lite.names, l, n).value = Gone THEN {}
  ELSE {Winner(lite.names, l, n).owner}

\* The rows are ranked among those with the owner asked for.
OwnedBy(l, p) ==
  [lite.names EXCEPT ![Main] = Restrict(@, {n \in DOMAIN @ : @[n].owner = p}),
                     ![l]    = Restrict(@, {n \in DOMAIN @ : @[n].owner = p})]

GetPersonNames(l, p) ==
  LET rows == OwnedBy(l, p)
      seen == {n \in Keys(rows, l) : Winner(rows, l, n).value # Gone}
  IN  [n \in seen |-> Winner(rows, l, n).value]

\* externalIDsOverlayQuery: any row of the branch, a marker too, selects its bucket.
GetExternalIDs(l, x) ==
  IF x \in DOMAIN lite.exids[l] THEN lite.exids[l][x]
  ELSE IF x \in DOMAIN lite.exids[Main] THEN lite.exids[Main][x] ELSE Nothing

GetFamilyChildren(l, f) ==
  LET seen == {p \in Persons : Winner(lite.kids, l, <<f, p>>) # Gone}
  IN  [p \in seen |-> Winner(lite.kids, l, <<f, p>>)]

GetFamiliesForPerson(l, p) == {f \in ListFamilies(l) : GetFamily(l, f) = p}

GetChildrenOfFamily(l, f) == DOMAIN GetFamilyChildren(l, f) \intersect ListPersons(l)

GetChildFamily(l, p) == {f \in ListFamilies(l) : Winner(lite.kids, l, <<f, p>>) # Gone}

-----------------------------------------------------------------------------
(* Writes.                                                                 *)

SavePerson(l, p, v) == lite' = [lite EXCEPT !.persons = Put(@, l, Row(p, v))]

\* Mutant: the cascade deletes by owner on every line.
RemoveEveryonesNames(p) == [l \in Lines |-> {n \in DOMAIN lite.names[l] : lite.names[l][n].owner = p}]

\* deletePersonMain deletes from person_names WHERE person_id AND branch_id = main.
RemovedNames(p) ==
  [l \in Lines |-> IF l = Main THEN {n \in DOMAIN lite.names[l] : lite.names[l][n].owner = p} ELSE {}]

DeletePersonMain(p) ==
  lite' = [lite EXCEPT !.persons = Drop(@, Main, {p}),
                       !.names = [l \in Lines |-> Restrict(@[l], DOMAIN @[l] \ RemovedNames(p)[l])],
                       !.exids = Drop(@, Main, {p}), !.edges = Drop(@, Main, {p}),
                       !.kids = Drop(@, Main, Families \X {p})]

\* INSERT ... ON CONFLICT DO UPDATE SET deleted = 1: a row that is there keeps its owner.
Tombstones(t, l, S) ==
  Put(t, l, [n \in S |-> NameGone(IF n \in DOMAIN t[l] THEN t[l][n].owner ELSE t[Main][n].owner)])

(***************************************************************************)
(* tombstoneNamesBranch: the branch's own rows of the person go, and the   *)
(* person's mainline names get tombstones.                                 *)
(***************************************************************************)
TombstoneNamesBranch(t, b, p) ==
  LET cleared == Drop(t, b, {n \in DOMAIN t[b] : t[b][n].owner = p})
  IN  Tombstones(cleared, b, {n \in DOMAIN t[Main] : t[Main][n].owner = p})

TombstonePersonBranch(b, p) ==
  lite' = [lite EXCEPT !.persons = Put(@, b, Row(p, Gone)),
                       !.names = TombstoneNamesBranch(@, b, p),
                       !.exids = Put(@, b, Row(p, Nothing)),
                       !.edges = Put(@, b, Row(p, Gone))]

DeletePerson(l, p) == IF l = Main THEN DeletePersonMain(p) ELSE TombstonePersonBranch(l, p)

SavePersonName(l, p, n, v) == lite' = [lite EXCEPT !.names = Put(@, l, Row(n, NameRow(p, v)))]

\* Mutant: the row is removed on a branch as well.
DeletePersonNameOutright(l, n) == lite' = [lite EXCEPT !.names = Drop(@, l, {n})]

\* On a branch the tombstone is seeded from the row that wins, if there is one.
DeletePersonName(l, n) ==
  lite' = [lite EXCEPT !.names = IF l = Main THEN Drop(@, l, {n})
                                 ELSE Tombstones(@, l, {n} \intersect Keys(@, l))]

\* replaceExternalIDs: on a branch an empty set leaves a marker row.
ReplaceExternalIDs(l, x, ids) ==
  lite' = [lite EXCEPT !.exids = IF l = Main /\ ids = Nothing THEN Drop(@, l, {x})
                                 ELSE Put(@, l, Row(x, ids))]

SaveFamily(l, f, v) == lite' = [lite EXCEPT !.families = Put(@, l, Row(f, v))]

\* tombstoneChildrenBranch drops the branch's child rows and hides main's.
TombstoneChildrenBranch(t, b, f) ==
  Put(Drop(t, b, {f} \X Persons), b, All({k \in DOMAIN t[Main] : k[1] = f}, Gone))

DeleteFamily(l, f) ==
  lite' = IF l = Main
          THEN [lite EXCEPT !.families = Drop(@, l, {f}), !.kids = Drop(@, l, {f} \X Persons),
                            !.exids = Drop(@, l, {f})]
          ELSE [lite EXCEPT !.families = Put(@, l, Row(f, Gone)),
                            !.kids = TombstoneChildrenBranch(@, l, f),
                            !.exids = Put(@, l, Row(f, Nothing))]

SaveFamilyChild(l, f, p, v) == lite' = [lite EXCEPT !.kids = Put(@, l, Row(<<f, p>>, v))]

\* A branch always writes a tombstone.
DeleteFamilyChild(l, f, p) ==
  lite' = [lite EXCEPT !.kids = IF l = Main THEN Drop(@, l, {<<f, p>>})
                                ELSE Put(@, l, Row(<<f, p>>, Gone))]

SavePedigreeEdge(l, p, v) == lite' = [lite EXCEPT !.edges = Put(@, l, Row(p, v))]

DeletePedigreeEdge(l, p) ==
  lite' = [lite EXCEPT !.edges = IF l = Main THEN Drop(@, l, {p}) ELSE Put(@, l, Row(p, Gone))]

PurgeBranch(b) == lite' = [t \in DOMAIN lite |-> [lite[t] EXCEPT ![b] = Nothing]]

\* The end of projectPersonMerged: each name's row changes owner, the person goes.
MoveNames(survivor, merged) ==
  LET moved == [n \in DOMAIN GetPersonNames(Main, merged) |->
                  NameRow(survivor, GetPersonNames(Main, merged)[n])]
  IN  lite' = [lite EXCEPT !.names = Put(@, Main, moved), !.persons = Drop(@, Main, {merged}),
                           !.exids = Drop(@, Main, {merged}), !.edges = Drop(@, Main, {merged}),
                           !.kids = Drop(@, Main, Families \X {merged})]

-----------------------------------------------------------------------------
(***************************************************************************)
(* What the reads show of each unit, and the units a branch has its own    *)
(* of.  A branch that deleted a person is not asked for the person's       *)
(* names, nor for the children of a family it deleted.                     *)
(***************************************************************************)

Shows(l, u) ==
  CASE u[1] = "person" -> GetPerson(l, u[2])
    [] u[1] = "edge"   -> GetPedigreeEdge(l, u[2])
    [] u[1] = "family" -> GetFamily(l, u[2])
    [] u[1] = "ids"    -> GetExternalIDs(l, u[2])
    [] u[1] = "name"   -> IF DeletedOn(lite.persons, l, u[2]) THEN Gone
                          ELSE RowOf(GetPersonNames(l, u[2]), u[3])
    [] u[1] = "child"  -> IF DeletedOn(lite.families, l, u[2]) THEN Gone
                          ELSE RowOf(GetFamilyChildren(l, u[2]), u[3])

Owns(b, u) ==
  CASE u[1] = "person" -> u[2] \in DOMAIN lite.persons[b]
    [] u[1] = "edge"   -> u[2] \in DOMAIN lite.edges[b]
    [] u[1] = "family" -> u[2] \in DOMAIN lite.families[b]
    [] u[1] = "ids"    -> u[2] \in DOMAIN lite.exids[b]
    [] u[1] = "name"   -> \/ DeletedOn(lite.persons, b, u[2])
                          \/ u[3] \in DOMAIN lite.names[b] /\ lite.names[b][u[3]].owner = u[2]
    [] u[1] = "child"  -> \/ DeletedOn(lite.families, b, u[2])
                          \/ <<u[2], u[3]>> \in DOMAIN lite.kids[b]

\* What the store answers about a line.
Answers(l) ==
  [persons  |-> ListPersons(l),
   families |-> ListFamilies(l),
   partner  |-> [p \in Persons |-> GetFamiliesForPerson(l, p)],
   children |-> [f \in ListFamilies(l) |-> GetChildrenOfFamily(l, f)],
   childOf  |-> [p \in Persons |-> GetChildFamily(l, p)],
   owner    |-> [n \in Names |-> {p \in GetPersonName(l, n) : p \in ListPersons(l)}],
   shows    |-> [u \in Units |-> Shows(l, u)]]

=============================================================================
