------------------------------ MODULE ReadModels ------------------------------
(***************************************************************************)
(* The three read-model backends under the same calls, as the projector    *)
(* makes them (internal/repository/projection.go), each compared with the  *)
(* overlay of BranchView and with the others.                              *)
(*                                                                         *)
(* A call is made for an event that was appended to a line, so it is about *)
(* rows the line sees, or about an id that is new: ids are fresh, a branch *)
(* makes its own, and merging a branch makes the branch's ids on main.  A  *)
(* call is one step.  A value is the line that wrote it.                   *)
(***************************************************************************)
EXTENDS OverlayTables, Integers

CONSTANTS
  Base,       \* the value rows start with
  MaxMain, MaxBranch   \* bounds: calls on the mainline, and on a branch

\* A row is no tombstone, and there is something to begin with.
ASSUME BaseIsApart == Base # Gone
ASSUME SomeOfEach == Persons # {} /\ Names # {} /\ Families # {}

VARIABLES
  mem, lite, pg,   \* the three backends
  made,            \* the lines each id has been created on
  bornTo,          \* the person each name was first added to, or Gone
  open,            \* the branches not yet purged
  calls            \* how many calls there were on each line

stores == <<mem, lite, pg>>
vars   == <<mem, lite, pg, made, bornTo, open, calls>>

Memory   == INSTANCE MemoryReadModel
Sqlite   == INSTANCE SqliteReadModel
Postgres == INSTANCE PostgresReadModel

Ids == Persons \union Names \union Families

\* To begin with main has one family, with a child who has a name and identifiers.
Start(p, n, f) ==
  LET OnMain(rows) == [Empty EXCEPT ![Main] = rows] IN
  /\ Memory!Init(OnMain(Row(p, Base)), OnMain(Row(p, Row(n, Base))), OnMain(Row(p, Base)),
                 OnMain(Row(f, p)), OnMain(Row(f, Row(p, Base))), OnMain(Row(p, Base)))
  /\ Sqlite!Init(OnMain(Row(p, Base)), OnMain(Row(n, Sqlite!NameRow(p, Base))), OnMain(Row(p, Base)),
                 OnMain(Row(f, p)), OnMain(Row(<<f, p>>, Base)), OnMain(Row(p, Base)))
  /\ Postgres!Init(OnMain(Row(p, Base)), OnMain(Row(n, Postgres!Named(p, Base))), OnMain(Row(p, Base)),
                   OnMain(Row(f, p)), OnMain(Row(<<f, p>>, Base)), OnMain(Row(p, Base)))
  /\ made = [i \in Ids |-> IF i \in {p, n, f} THEN {Main} ELSE {}]
  /\ bornTo = [m \in Names |-> IF m = n THEN p ELSE Gone]

Init ==
  /\ open = Branches /\ calls = [l \in Lines |-> 0]
  /\ Start(CHOOSE p \in Persons : TRUE, CHOOSE n \in Names : TRUE, CHOOSE f \in Families : TRUE)

-----------------------------------------------------------------------------
(* Which calls the projector makes.                                        *)

\* A call on a line, which may create ids there.
Call(l, born, ids) ==
  /\ l \in open \union {Main}
  /\ calls[l] < IF l = Main THEN MaxMain ELSE MaxBranch
  /\ calls' = [calls EXCEPT ![l] = @ + 1]
  /\ made' = [i \in Ids |-> IF i \in ids THEN made[i] \union {l} ELSE made[i]]
  /\ bornTo' = born
  /\ UNCHANGED open

\* An id may be created on a line once: it is new, or a branch made it and it comes to main.
New(l, i) == l \notin made[i] /\ (l # Main => made[i] = {})

SeesPerson(l, p) == Memory!GetPerson(l, p) # Gone
SeesFamily(l, f) == Memory!GetFamily(l, f) # Gone

\* Every backend finds the name with that owner.
SeesName(l, p, n) ==
  /\ Memory!GetPersonName(l, n) = {p} /\ Sqlite!GetPersonName(l, n) = {p}
  /\ Postgres!GetPersonName(l, n) = {p}

SavePerson(l, p) ==
  /\ SeesPerson(l, p) \/ New(l, p)
  /\ Call(l, bornTo, {p})
  /\ Memory!SavePerson(l, p, l) /\ Sqlite!SavePerson(l, p, l) /\ Postgres!SavePerson(l, p, l)

DeletePerson(l, p) ==
  /\ SeesPerson(l, p)
  /\ Call(l, bornTo, {})
  /\ Memory!DeletePerson(l, p) /\ Sqlite!DeletePerson(l, p) /\ Postgres!DeletePerson(l, p)

SavePersonName(l, p, n) ==
  /\ SeesPerson(l, p)
  /\ SeesName(l, p, n) \/ (New(l, n) /\ bornTo[n] \in {p, Gone})
  /\ Call(l, IF New(l, n) THEN [bornTo EXCEPT ![n] = p] ELSE bornTo, {n})
  /\ Memory!SavePersonName(l, p, n, l) /\ Sqlite!SavePersonName(l, p, n, l)
  /\ Postgres!SavePersonName(l, p, n, l)

DeletePersonName(l, n) ==
  /\ \E p \in Persons : SeesPerson(l, p) /\ SeesName(l, p, n)
  /\ Call(l, bornTo, {})
  /\ Memory!DeletePersonName(l, n) /\ Sqlite!DeletePersonName(l, n)
  /\ Postgres!DeletePersonName(l, n)

\* Only the import calls it, on main; the interface admits a branch.
ReplaceExternalIDs(l, x, ids) ==
  /\ SeesPerson(l, x) \/ SeesFamily(l, x)
  /\ Call(l, bornTo, {})
  /\ Memory!ReplaceExternalIDs(l, x, ids) /\ Sqlite!ReplaceExternalIDs(l, x, ids)
  /\ Postgres!ReplaceExternalIDs(l, x, ids)

SaveFamily(l, f, p) ==
  /\ SeesFamily(l, f) \/ New(l, f)
  /\ SeesPerson(l, p)
  /\ Call(l, bornTo, {f})
  /\ Memory!SaveFamily(l, f, p) /\ Sqlite!SaveFamily(l, f, p) /\ Postgres!SaveFamily(l, f, p)

DeleteFamily(l, f) ==
  /\ SeesFamily(l, f)
  /\ Call(l, bornTo, {})
  /\ Memory!DeleteFamily(l, f) /\ Sqlite!DeleteFamily(l, f) /\ Postgres!DeleteFamily(l, f)

SaveFamilyChild(l, f, p) ==
  /\ SeesFamily(l, f) /\ SeesPerson(l, p)
  /\ Call(l, bornTo, {})
  /\ Memory!SaveFamilyChild(l, f, p, l) /\ Sqlite!SaveFamilyChild(l, f, p, l)
  /\ Postgres!SaveFamilyChild(l, f, p, l)

\* UnlinkChild looks the child up first.
DeleteFamilyChild(l, f, p) ==
  /\ SeesFamily(l, f)
  /\ p \in DOMAIN Memory!GetFamilyChildren(l, f) \intersect DOMAIN Sqlite!GetFamilyChildren(l, f)
  /\ Call(l, bornTo, {})
  /\ Memory!DeleteFamilyChild(l, f, p) /\ Sqlite!DeleteFamilyChild(l, f, p)
  /\ Postgres!DeleteFamilyChild(l, f, p)

SavePedigreeEdge(l, p) ==
  /\ SeesPerson(l, p)
  /\ Call(l, bornTo, {})
  /\ Memory!SavePedigreeEdge(l, p, l) /\ Sqlite!SavePedigreeEdge(l, p, l)
  /\ Postgres!SavePedigreeEdge(l, p, l)

DeletePedigreeEdge(l, p) ==
  /\ Call(l, bornTo, {})
  /\ Memory!DeletePedigreeEdge(l, p) /\ Sqlite!DeletePedigreeEdge(l, p)
  /\ Postgres!DeletePedigreeEdge(l, p)

\* MergePersons runs on the mainline only.
MergePersons(survivor, merged) ==
  /\ survivor # merged /\ SeesPerson(Main, survivor) /\ SeesPerson(Main, merged)
  /\ Call(Main, bornTo, {})
  /\ Memory!MoveNames(survivor, merged) /\ Sqlite!MoveNames(survivor, merged)
  /\ Postgres!MoveNames(survivor, merged)

\* projectBranchDeleted.
PurgeBranch(b) ==
  /\ b \in open /\ open' = open \ {b}
  /\ Memory!PurgeBranch(b) /\ Sqlite!PurgeBranch(b) /\ Postgres!PurgeBranch(b)
  /\ UNCHANGED <<made, bornTo, calls>>

Next ==
  \/ \E l \in Lines, p \in Persons :
       \/ SavePerson(l, p) \/ DeletePerson(l, p)
       \/ SavePedigreeEdge(l, p) \/ DeletePedigreeEdge(l, p)
       \/ \E n \in Names : SavePersonName(l, p, n)
       \/ \E f \in Families : \/ SaveFamily(l, f, p)
                              \/ SaveFamilyChild(l, f, p) \/ DeleteFamilyChild(l, f, p)
       \/ \E q \in Persons : l = Main /\ MergePersons(p, q)
  \/ \E l \in Lines : \/ \E n \in Names : DeletePersonName(l, n)
                      \/ \E f \in Families : DeleteFamily(l, f)
                      \/ \E x \in Holders, ids \in {Nothing, l} : ReplaceExternalIDs(l, x, ids)
  \/ \E b \in Branches : PurgeBranch(b)

Spec == Init /\ [][Next]_vars

-----------------------------------------------------------------------------
(* Properties.                                                             *)

\* The three stores' views, each judged by the one abstract overlay.
MemoryOverlay == INSTANCE BranchView WITH
  view <- [l \in Lines |-> [u \in Units |-> Memory!Shows(l, u)]],
  own  <- [b \in Branches |-> {u \in Units : Memory!Owns(b, u)}],
  writes <- calls

SqliteOverlay == INSTANCE BranchView WITH
  view <- [l \in Lines |-> [u \in Units |-> Sqlite!Shows(l, u)]],
  own  <- [b \in Branches |-> {u \in Units : Sqlite!Owns(b, u)}],
  writes <- calls

PostgresOverlay == INSTANCE BranchView WITH
  view <- [l \in Lines |-> [u \in Units |-> Postgres!Shows(l, u)]],
  own  <- [b \in Branches |-> {u \in Units : Postgres!Owns(b, u)}],
  writes <- calls

(***************************************************************************)
(* Each store is a copy-on-write overlay: no write on a line changes what  *)
(* another line has of its own, a tombstone keeps hiding main's row, and a *)
(* purge gives main's view back (ADR-005).  The SQL stores overlay name by *)
(* name and child by child, the in-memory one bucket by bucket.            *)
(***************************************************************************)
StoresAreOverlays == MemoryOverlay!Spec /\ SqliteOverlay!Spec /\ PostgresOverlay!Spec

\* A person merge has given the name another owner.
Moved(n) == Sqlite!GetPersonName(Main, n) \notin {{}, {bornTo[n]}}

(***************************************************************************)
(* The backends answer every read of the mainline alike, whatever the      *)
(* branches did, and the two SQL backends every read of a branch ("Run     *)
(* identical scenario bodies against memory, SQLite and PostgreSQL",       *)
(* TESTING-STRATEGY.md).  But a name that a branch had of its own when it  *)
(* deleted the person, PostgreSQL no longer finds there by its id, should  *)
(* main hand it to a survivor.                                             *)
(***************************************************************************)
BackendsAgree ==
  /\ Memory!Answers(Main) = Sqlite!Answers(Main) /\ Sqlite!Answers(Main) = Postgres!Answers(Main)
  /\ \A b \in Branches :
       LET lites == Sqlite!Answers(b)
           pgs   == Postgres!Answers(b)
       IN  /\ [lites EXCEPT !.owner = pgs.owner] = pgs
           /\ \A n \in Names : lites.owner[n] = pgs.owner[n] \/ (Moved(n) /\ pgs.owner[n] = {})

=============================================================================
