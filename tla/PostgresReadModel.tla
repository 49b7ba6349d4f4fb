-------------------------- MODULE PostgresReadModel --------------------------
(***************************************************************************)
(* The branch-scoped tables of the PostgreSQL read model                   *)
(* (internal/repository/postgres/readmodel.go).  The keys are SQLite's;    *)
(* a read takes DISTINCT ON the id, the branch's row first, and drops the  *)
(* deleted rows outside; a branch's delete copies the rows it resolves and *)
(* marks the copies.  Each call is one statement or one transaction.       *)
(*                                                                         *)
(* Not here: paging, sorting, search and the tables without a branch.      *)
(***************************************************************************)
EXTENDS OverlayTables

VARIABLE pg   \* the tables, each keyed by line and id

Named(p, v) == [owner |-> p, value |-> v]

Init(persons, names, exids, families, kids, edges) ==
  pg = [persons |-> persons, names |-> names, exids |-> exids,
        families |-> families, kids |-> kids, edges |-> edges]

-----------------------------------------------------------------------------
(* DISTINCT ON (id) ... ORDER BY id, (branch_id = $2) DESC, then deleted.  *)

Distinct(t, l) == [k \in Keys(t, l) |-> Winner(t, l, k)]

Visible(t, l) == LET rows == Distinct(t, l) IN Restrict(rows, {k \in DOMAIN rows : rows[k] # Gone})

GetPerson(l, p) == RowOf(Visible(pg.persons, l), p)
GetFamily(l, f) == RowOf(Visible(pg.families, l), f)
GetPedigreeEdge(l, p) == RowOf(Visible(pg.edges, l), p)
ListPersons(l)  == DOMAIN Visible(pg.persons, l)
ListFamilies(l) == DOMAIN Visible(pg.families, l)

GetPersonName(l, n) ==
  LET rows == Distinct(pg.names, l)
  IN  {p \in Persons : n \in DOMAIN rows /\ rows[n].owner = p /\ rows[n].value # Gone}

\* The name rows of one owner, one per id.
NamesOf(l, p) ==
  Distinct([m \in Lines |-> Restrict(pg.names[m], {n \in DOMAIN pg.names[m] : pg.names[m][n].owner = p})], l)

GetPersonNames(l, p) ==
  LET rows == NamesOf(l, p)
      seen == {n \in DOMAIN rows : rows[n].value # Gone}
  IN  [n \in seen |-> rows[n].value]

GetExternalIDs(l, x) ==
  LET from == IF x \in DOMAIN pg.exids[l] THEN l ELSE Main
  IN  IF x \in DOMAIN pg.exids[from] THEN pg.exids[from][x] ELSE Nothing

Children(l) == Visible(pg.kids, l)

GetFamilyChildren(l, f) ==
  LET rows == Children(l) IN [p \in {q \in Persons : <<f, q>> \in DOMAIN rows} |-> rows[<<f, p>>]]

GetFamiliesForPerson(l, p) == {f \in ListFamilies(l) : GetFamily(l, f) = p}

GetChildrenOfFamily(l, f) == {p \in ListPersons(l) : <<f, p>> \in DOMAIN Children(l)}

GetChildFamily(l, p) == {f \in ListFamilies(l) : <<f, p>> \in DOMAIN Children(l)}

-----------------------------------------------------------------------------
(* Writes.                                                                 *)

SavePerson(l, p, v) == pg' = [pg EXCEPT !.persons = Put(@, l, Row(p, v))]

\* Mutant: a branch deletes its rows and leaves no tombstone.
TombstoneDropping(t, l, S) == Drop(t, l, S)

\* INSERT ... SELECT, TRUE ON CONFLICT DO UPDATE SET deleted = TRUE.
Tombstone(t, l, S) == Put(t, l, All(S, Gone))

TombstoneNames(t, l, S) ==
  Put(t, l, [n \in S |-> Named(IF n \in DOMAIN t[l] THEN t[l][n].owner ELSE t[Main][n].owner, Gone)])

\* Main's cascade: each DELETE names the mainline.
Cascade(p) ==
  [persons  |-> Drop(pg.persons, Main, {p}),
   names    |-> Drop(pg.names, Main, {n \in DOMAIN pg.names[Main] : pg.names[Main][n].owner = p}),
   exids    |-> Drop(pg.exids, Main, {p}),
   edges    |-> Drop(pg.edges, Main, {p}),
   kids     |-> Drop(pg.kids, Main, Families \X {p}),
   families |-> pg.families]

DeletePerson(l, p) ==
  pg' = IF l = Main THEN Cascade(p)
        ELSE [pg EXCEPT !.persons = Tombstone(@, l, {p} \intersect Keys(@, l)),
                        !.names = TombstoneNames(@, l, DOMAIN GetPersonNames(l, p)),
                        !.exids = Put(@, l, Row(p, Nothing)),
                        !.edges = Tombstone(@, l, {p})]

SavePersonName(l, p, n, v) == pg' = [pg EXCEPT !.names = Put(@, l, Row(n, Named(p, v)))]

DeletePersonName(l, n) ==
  pg' = [pg EXCEPT !.names = IF l = Main THEN Drop(@, l, {n})
                             ELSE TombstoneNames(@, l, {n} \intersect Keys(@, l))]

\* On a branch an empty set is a marker row.
ReplaceExternalIDs(l, x, ids) ==
  pg' = [pg EXCEPT !.exids = IF l = Main /\ ids = Nothing THEN Drop(@, l, {x}) ELSE Put(@, l, Row(x, ids))]

SaveFamily(l, f, v) == pg' = [pg EXCEPT !.families = Put(@, l, Row(f, v))]

DeleteFamily(l, f) ==
  pg' = IF l = Main
        THEN [pg EXCEPT !.families = Drop(@, l, {f}), !.kids = Drop(@, l, {f} \X Persons),
                        !.exids = Drop(@, l, {f})]
        ELSE [pg EXCEPT !.families = Tombstone(@, l, {f} \intersect Keys(@, l)),
                        !.kids = Tombstone(@, l, {k \in DOMAIN Children(l) : k[1] = f}),
                        !.exids = Put(@, l, Row(f, Nothing))]

SaveFamilyChild(l, f, p, v) == pg' = [pg EXCEPT !.kids = Put(@, l, Row(<<f, p>>, v))]

\* A tombstone only where a row is copied.
DeleteFamilyChild(l, f, p) ==
  pg' = [pg EXCEPT !.kids = IF l = Main THEN Drop(@, l, {<<f, p>>})
                            ELSE Tombstone(@, l, {<<f, p>>} \intersect Keys(@, l))]

SavePedigreeEdge(l, p, v) == pg' = [pg EXCEPT !.edges = Put(@, l, Row(p, v))]

DeletePedigreeEdge(l, p) ==
  pg' = [pg EXCEPT !.edges = IF l = Main THEN Drop(@, l, {p}) ELSE Tombstone(@, l, {p})]

PurgeBranch(b) == pg' = [t \in DOMAIN pg |-> [pg[t] EXCEPT ![b] = Nothing]]

\* The end of projectPersonMerged: each name is saved for the survivor, the person goes.
MoveNames(survivor, merged) ==
  LET names == GetPersonNames(Main, merged)
  IN  pg' = [Cascade(merged) EXCEPT
               !.names = Put(pg.names, Main, [n \in DOMAIN names |-> Named(survivor, names[n])])]

-----------------------------------------------------------------------------
(***************************************************************************)
(* What the reads show of each unit, and the units a branch has its own    *)
(* of.  A branch that deleted a person is not asked for the person's       *)
(* names, nor for the children of a family it deleted.                     *)
(***************************************************************************)

Shows(l, u) ==
  CASE u[1] = "person" -> GetPerson(l, u[2])
    [] u[1] = "edge"   -> GetPedigreeEdge(l, u[2])
    [] u[1] = "family" -> GetFamily(l, u[2])
    [] u[1] = "ids"    -> GetExternalIDs(l, u[2])
    [] u[1] = "name"   -> IF DeletedOn(pg.persons, l, u[2]) THEN Gone
                          ELSE RowOf(GetPersonNames(l, u[2]), u[3])
    [] u[1] = "child"  -> IF DeletedOn(pg.families, l, u[2]) THEN Gone
                          ELSE RowOf(GetFamilyChildren(l, u[2]), u[3])

Owns(b, u) ==
  CASE u[1] = "person" -> u[2] \in DOMAIN pg.persons[b]
    [] u[1] = "edge"   -> u[2] \in DOMAIN pg.edges[b]
    [] u[1] = "family" -> u[2] \in DOMAIN pg.families[b]
    [] u[1] = "ids"    -> u[2] \in DOMAIN pg.exids[b]
    [] u[1] = "name"   -> \/ DeletedOn(pg.persons, b, u[2])
                          \/ u[3] \in DOMAIN pg.names[b] /\ pg.names[b][u[3]].owner = u[2]
    [] u[1] = "child"  -> \/ DeletedOn(pg.families, b, u[2])
                          \/ <<u[2], u[3]>> \in DOMAIN pg.kids[b]

\* What the store answers about a line.
Answers(l) ==
  [persons  |-> ListPersons(l),
   families |-> ListFamilies(l),
   partner  |-> [p \in Persons |-> GetFamiliesForPerson(l, p)],
   children |-> [f \in ListFamilies(l) |-> GetChildrenOfFamily(l, f)],
   childOf  |-> [p \in Persons |-> GetChildFamily(l, p)],
   owner    |-> [n \in Names |-> {p \in GetPersonName(l, n) : p \in ListPersons(l)}],
   shows    |-> [u \in Units |-> Shows(l, u)]]

=============================================================================
