------------------------------ MODULE Listings -------------------------------
(***************************************************************************)
(* The mainline tables of the read model and how they are listed: each     *)
(* table is read by id, saved whole, deleted, and listed in pages, in      *)
(* memory (internal/repository/memory/readmodel.go), SQLite and PostgreSQL *)
(* (sqlite/readmodel.go, postgres/readmodel.go).  What differs is the      *)
(* order of the list: which columns, and whether rows that tie on them are *)
(* told apart.  Exports, validation and quality reports read whole tables  *)
(* page by page (ListAll in internal/repository/readmodel.go) while        *)
(* requests go on writing.                                                 *)
(*                                                                         *)
(* A behaviour follows one list of one store and one walk through it, as  *)
(* the callers that page through it ask for it: without a sort field.      *)
(* Rows that tie come in any order, a new one for each query.              *)
(*                                                                         *)
(* Not here: what a row holds besides the sort columns, filters, branches  *)
(* (ReadModels), rows that go with a deleted one (SourceCitations,         *)
(* PersonRecords), search.                                                 *)
(***************************************************************************)
EXTENDS Integers, Sequences, FiniteSets

CONSTANTS
  Ids,        \* ids of rows, as numbers: lists are ordered by them
  Keys,       \* what a row can hold in the columns a list is sorted by, as numbers
  PageSize,   \* rows to a page
  MaxChanges  \* bound: the saves and deletes of a behaviour

\* What is assumed of the constants; the modules that instantiate this one assert it.
NumbersAsIds == Ids \subseteq Nat /\ Keys \subseteq Nat /\ PageSize \in Nat \ {0}

VARIABLES
  list,     \* the list followed: [by, whole, told]
  rows,     \* the table: Absent, or [key, updated] by id
  clock,    \* the time of the last save
  changes,  \* the number of saves and deletes so far
  walk,     \* the reader in ListAll: [pc, offset, total, got]
  since     \* since the walk began: [there, saved, gap], see Since

vars == <<list, rows, clock, changes, walk, since>>

Absent == [key |-> -1, updated |-> -1]

-----------------------------------------------------------------------------
(***************************************************************************)
(* The lists.  `by' is the order: "key" for the columns a client sees,     *)
(* "updated" for the time of the last save, newest first, "id"; `whole'    *)
(* says that a page and the count that comes with it are read under one    *)
(* lock, which only the memory store does; `told' that the code breaks     *)
(* ties on purpose, so that pages are the same from one query to the next. *)
(***************************************************************************)

InMemory(by, told) == [by |-> by, whole |-> TRUE, told |-> told]
InSql(by, told)    == [by |-> by, whole |-> FALSE, told |-> told]

\* Mutant: the map is listed as it comes, citations of one source in any order.
MemoryCitationsTied == InMemory(<<"key">>, TRUE)

MemoryPersons == InMemory(<<"key">>, FALSE)
MemoryFamilies == InMemory(<<>>, FALSE)
MemorySources == InMemory(<<"key">>, FALSE)
MemoryCitations == InMemory(<<"key", "id">>, TRUE)

MemoryMedia == InMemory(<<"updated">>, FALSE)
MemoryEvents == InMemory(<<"key", "id">>, TRUE)
MemoryAttributes == InMemory(<<"key", "id">>, TRUE)
MemoryPersonsBySurname == InMemory(<<"key">>, FALSE)
MemoryPersonsByPlace == InMemory(<<"key">>, FALSE)
MemoryPersonsByCemetery == InMemory(<<"key">>, FALSE)
MemoryNotes == InMemory(<<"updated">>, FALSE)
MemorySubmitters == InMemory(<<"key">>, FALSE)
MemoryRepositories == InMemory(<<"updated", "id">>, TRUE)
MemoryAssociations == InMemory(<<"updated">>, FALSE)
MemoryLDSOrdinances == InMemory(<<"updated">>, FALSE)
MemoryEvidenceAnalyses == InMemory(<<"updated", "id">>, TRUE)
MemoryEvidenceConflicts == InMemory(<<"updated", "id">>, TRUE)
MemoryResearchLogs == InMemory(<<"updated", "id">>, TRUE)
MemoryProofSummaries == InMemory(<<"updated", "id">>, TRUE)

\* Mutant: repositories that tie on updated_at come in any order.
SqliteRepositoriesTied == InSql(<<"updated">>, TRUE)

SqlitePersons == InSql(<<"key">>, FALSE)
SqliteFamilies == InSql(<<"updated">>, FALSE)
SqliteSources == InSql(<<"key">>, FALSE)
SqliteCitations == InSql(<<"key", "id">>, TRUE)
SqliteMedia == InSql(<<"updated">>, FALSE)
SqliteEvents == InSql(<<"key", "id">>, TRUE)
SqliteAttributes == InSql(<<"key", "id">>, TRUE)
SqlitePersonsBySurname == InSql(<<"key">>, FALSE)
SqlitePersonsByPlace == InSql(<<"key">>, FALSE)
SqlitePersonsByCemetery == InSql(<<"key">>, FALSE)
SqliteNotes == InSql(<<"updated">>, FALSE)
SqliteSubmitters == InSql(<<"updated">>, FALSE)
SqliteRepositories == InSql(<<"updated", "id">>, TRUE)

SqliteAssociations == InSql(<<"updated">>, FALSE)
SqliteLDSOrdinances == InSql(<<"updated">>, FALSE)
SqliteEvidenceAnalyses == InSql(<<"updated", "id">>, TRUE)
SqliteEvidenceConflicts == InSql(<<"updated", "id">>, TRUE)
SqliteResearchLogs == InSql(<<"updated", "id">>, TRUE)
SqliteProofSummaries == InSql(<<"updated", "id">>, TRUE)

PostgresPersons == InSql(<<"key">>, FALSE)
PostgresFamilies == InSql(<<"updated">>, FALSE)
PostgresSources == InSql(<<"key">>, FALSE)
PostgresCitations == InSql(<<"key", "id">>, TRUE)
PostgresMedia == InSql(<<"updated">>, FALSE)
PostgresEvents == InSql(<<"key", "id">>, TRUE)
PostgresAttributes == InSql(<<"key", "id">>, TRUE)
PostgresPersonsBySurname == InSql(<<"key">>, FALSE)
PostgresPersonsByPlace == InSql(<<"key">>, FALSE)
PostgresPersonsByCemetery == InSql(<<"key">>, FALSE)
PostgresNotes == InSql(<<"updated">>, FALSE)
PostgresSubmitters == InSql(<<"updated">>, FALSE)
PostgresRepositories == InSql(<<"updated", "id">>, TRUE)
PostgresAssociations == InSql(<<"updated">>, FALSE)
PostgresLDSOrdinances == InSql(<<"updated">>, FALSE)
PostgresEvidenceAnalyses == InSql(<<"updated", "id">>, TRUE)
PostgresEvidenceConflicts == InSql(<<"updated", "id">>, TRUE)
PostgresResearchLogs == InSql(<<"updated", "id">>, TRUE)
PostgresProofSummaries == InSql(<<"updated", "id">>, TRUE)

Lists ==
  {MemoryPersons, MemoryFamilies, MemorySources, MemoryCitations,
   MemoryMedia, MemoryEvents, MemoryAttributes, MemoryPersonsBySurname,
   MemoryPersonsByPlace, MemoryPersonsByCemetery, MemoryNotes,
   MemorySubmitters, MemoryRepositories, MemoryAssociations,
   MemoryLDSOrdinances, MemoryEvidenceAnalyses, MemoryEvidenceConflicts,
   MemoryResearchLogs, MemoryProofSummaries, SqlitePersons, SqliteFamilies,
   SqliteSources, SqliteCitations, SqliteMedia, SqliteEvents,
   SqliteAttributes, SqlitePersonsBySurname, SqlitePersonsByPlace,
   SqlitePersonsByCemetery, SqliteNotes, SqliteSubmitters,
   SqliteRepositories, SqliteAssociations, SqliteLDSOrdinances,
   SqliteEvidenceAnalyses, SqliteEvidenceConflicts, SqliteResearchLogs,
   SqliteProofSummaries, PostgresPersons, PostgresFamilies,
   PostgresSources, PostgresCitations, PostgresMedia, PostgresEvents,
   PostgresAttributes, PostgresPersonsBySurname, PostgresPersonsByPlace,
   PostgresPersonsByCemetery, PostgresNotes, PostgresSubmitters,
   PostgresRepositories, PostgresAssociations, PostgresLDSOrdinances,
   PostgresEvidenceAnalyses, PostgresEvidenceConflicts,
   PostgresResearchLogs, PostgresProofSummaries}

-----------------------------------------------------------------------------
(* What a query returns.                                                   *)

Present == {i \in Ids : rows[i] # Absent}

Column(c, i) == CASE c = "key"     -> rows[i].key
                  [] c = "updated" -> -rows[i].updated
                  [] c = "id"      -> i

Before(i, j) ==
  \E n \in DOMAIN list.by :
    /\ Column(list.by[n], i) < Column(list.by[n], j)
    /\ \A m \in 1 .. n - 1 : Column(list.by[m], i) = Column(list.by[m], j)

\* The table in every order the list allows.
Orders ==
  {s \in [1 .. Cardinality(Present) -> Present] :
     \A m, n \in DOMAIN s : m < n => s[m] # s[n] /\ ~Before(s[n], s[m])}

Page(s, offset) ==
  SubSeq(s, offset + 1, IF offset + PageSize < Len(s) THEN offset + PageSize ELSE Len(s))

-----------------------------------------------------------------------------
(***************************************************************************)
(* Reading a whole list.  `total' is -1 while no count is pending.  ListAll*)
(* goes on with the next page unless it has as many rows as the count, or  *)
(* the page was short.                                                     *)
(***************************************************************************)

Idle == [pc |-> "idle", offset |-> 0, total |-> -1, got |-> <<>>]

\* Since: the rows that were there when the walk began and still are, those
\* saved meanwhile, and whether a row was deleted or moved back in the list.
Quiet == [there |-> Present, saved |-> {}, gap |-> FALSE]

Init ==
  /\ list \in Lists
  /\ rows = [i \in Ids |-> Absent]
  /\ clock = 0
  /\ changes = 0
  /\ walk = Idle
  /\ since = [there |-> {}, saved |-> {}, gap |-> FALSE]

StartWalk ==
  /\ walk.pc = "idle"
  /\ walk' = [Idle EXCEPT !.pc = "paging"]
  /\ since' = Quiet
  /\ UNCHANGED <<list, rows, clock, changes>>

\* Mutant: the walk ends with a page that is not longer than a page.
TookStoppingEarly(s, total) ==
  LET page == Page(s, walk.offset)
      got  == walk.got \o page
  IN [pc     |-> IF Len(got) >= total \/ Len(page) <= PageSize THEN "done" ELSE "paging",
      offset |-> walk.offset + PageSize,
      total  |-> -1,
      got    |-> got]

Took(s, total) ==
  LET page == Page(s, walk.offset)
      got  == walk.got \o page
  IN [pc     |-> IF Len(got) >= total \/ Len(page) < PageSize THEN "done" ELSE "paging",
      offset |-> walk.offset + PageSize,
      total  |-> -1,
      got    |-> got]

\* The memory store sorts a copy of the table and cuts the page out of it.
ReadPage ==
  /\ walk.pc = "paging"
  /\ list.whole
  /\ \E s \in Orders : walk' = Took(s, Cardinality(Present))
  /\ UNCHANGED <<list, rows, clock, changes, since>>

\* SELECT COUNT(*) and SELECT ... LIMIT ... OFFSET are two statements.
CountRows ==
  /\ walk.pc = "paging"
  /\ ~list.whole
  /\ walk.total = -1
  /\ walk' = [walk EXCEPT !.total = Cardinality(Present)]
  /\ UNCHANGED <<list, rows, clock, changes, since>>

ReadRows ==
  /\ walk.pc = "paging"
  /\ ~list.whole
  /\ walk.total >= 0
  /\ \E s \in Orders : walk' = Took(s, walk.total)
  /\ UNCHANGED <<list, rows, clock, changes, since>>

-----------------------------------------------------------------------------
(* Writing.  Two saves may bear the same time.  Bound: a behaviour is not  *)
(* followed beyond the end of its walk, nor beyond MaxChanges writes.      *)

InBound == changes < MaxChanges /\ walk.pc # "done"

MovesBack(i, key) == rows[i] # Absent /\ list.by # <<>> /\ list.by[1] = "key" /\ key > rows[i].key

Save(i, key) ==
  /\ InBound
  /\ changes' = changes + 1
  /\ clock' \in {clock, clock + 1}
  /\ rows' = [rows EXCEPT ![i] = [key |-> key, updated |-> clock']]
  /\ since' = IF walk.pc = "paging"
              THEN [since EXCEPT !.saved = @ \cup {i}, !.gap = @ \/ MovesBack(i, key)]
              ELSE since
  /\ UNCHANGED <<list, walk>>

Delete(i) ==
  /\ InBound
  /\ rows[i] # Absent
  /\ changes' = changes + 1
  /\ rows' = [rows EXCEPT ![i] = Absent]
  /\ since' = IF walk.pc = "paging"
              THEN [since EXCEPT !.there = @ \ {i}, !.gap = TRUE]
              ELSE since
  /\ UNCHANGED <<list, clock, walk>>

Next ==
  \/ StartWalk \/ ReadPage \/ CountRows \/ ReadRows
  \/ \E i \in Ids, key \in Keys : Save(i, key)
  \/ \E i \in Ids : Delete(i)

Spec == Init /\ [][Next]_vars

-----------------------------------------------------------------------------
Got == {walk.got[n] : n \in DOMAIN walk.got}

(***************************************************************************)
(* Where the code breaks ties ("id is a stable tie-breaker so LIMIT/OFFSET *)
(* pagination is deterministic"), and nothing is written while a reader    *)
(* pages through the table, it gets every row once.  Where count and page  *)
(* are read together too, a row that was there throughout is missed only   *)
(* if it was saved meanwhile, or if a row was deleted or moved back: rows  *)
(* that are added push none out.                                           *)
(***************************************************************************)
WalkIsComplete ==
  walk.pc = "done" /\ list.told /\ ~since.gap =>
    /\ since.saved = {} => Got = since.there /\ Len(walk.got) = Cardinality(Got)
    /\ list.whole => since.there \ since.saved \subseteq Got
=============================================================================
