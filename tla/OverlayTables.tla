---------------------------- MODULE OverlayTables ----------------------------
(***************************************************************************)
(* What the three read-model backends share: the keys of the branch-scoped *)
(* tables and how a table with one layer per line is written               *)
(* (internal/repository/readmodel.go, the BRANCH-SCOPED methods).          *)
(*                                                                         *)
(* A table gives each line (the mainline or a branch) a layer: a function  *)
(* from the keys the line has a row for to the rows.  Gone is a tombstone. *)
(***************************************************************************)
EXTENDS Functions

CONSTANTS
  Main,        \* the mainline
  Branches,    \* research branches, Main not among them
  Persons, Names, Families,   \* ids
  Holders,     \* the persons and families that have external identifiers
  Gone         \* a deleted row: nil in memory, deleted = 1 in SQL

ASSUME MainIsApart == Main \notin Branches
ASSUME HoldersAreKnown == Holders \subseteq Persons \union Families
ASSUME GoneIsApart == Gone \notin Branches \union {Main} \union Persons

Lines == Branches \union {Main}

\* The things a line may show.
Units ==
  ({"person", "edge"} \X Persons) \union ({"ids"} \X Holders) \union ({"family"} \X Families)
    \union ({"name"} \X Persons \X Names) \union ({"child"} \X Families \X Persons)

\* A layer with no rows, and a table with no layer written.
Nothing == <<>>
Empty == [l \in Lines |-> Nothing]

\* A layer with one row; the rows of f, and those of g with other keys.
Row(k, row) == [x \in {k} |-> row]
Over(f, g) == [k \in DOMAIN f \union DOMAIN g |-> IF k \in DOMAIN f THEN f[k] ELSE g[k]]

\* Write the rows `f' into line l; remove the rows with keys in S from it.
Put(t, l, f) == [t EXCEPT ![l] = Over(f, @)]
Drop(t, l, S) == [t EXCEPT ![l] = Restrict(@, DOMAIN @ \ S)]

\* The row that wins for a key on a line: the line's own, else the mainline's.
Winner(t, l, k) ==
  IF k \in DOMAIN t[l] THEN t[l][k]
  ELSE IF k \in DOMAIN t[Main] THEN t[Main][k] ELSE Gone

\* The line itself has deleted the row.
DeletedOn(t, l, k) == k \in DOMAIN t[l] /\ t[l][k] = Gone

RowOf(rows, k) == IF k \in DOMAIN rows THEN rows[k] ELSE Gone

\* The keys a line can see a row for, whatever the row says.
Keys(t, l) == DOMAIN t[l] \union DOMAIN t[Main]

\* The same row for every key in S.
All(S, row) == [k \in S |-> row]

=============================================================================
