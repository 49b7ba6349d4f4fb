--------------------------- MODULE SourceCitations ---------------------------
(***************************************************************************)
(* Sources and the citations that point at them, under concurrent requests *)
(* (internal/command/source_commands.go; the projections of sources and    *)
(* citations in internal/repository/projection.go; the two tables of the   *)
(* read-model stores).                                                     *)
(*                                                                         *)
(* A citation has a stream and a row of its own, and its projection also   *)
(* reads and saves the whole row of its source, to keep the number of      *)
(* citations there: no version guards that.  A request therefore goes in   *)
(* steps: its checks, the append, and each read and each save of its       *)
(* projection.  Requests do not stop half way here; CommandExec has those. *)
(*                                                                         *)
(* In the SQL stores a citation row refers to its source by a foreign key  *)
(* (without a cascade), so a save or a delete against it fails, and the    *)
(* rest of that projection is dropped.                                     *)
(*                                                                         *)
(* Not here: fields other than a source's title, rollbacks (they append    *)
(* and project as updates do), the citations' copy of the title.           *)
(***************************************************************************)
EXTENDS Integers, FiniteSets, Sequences

CONSTANTS
  Sources,      \* ids of sources
  Citations,    \* ids of citations
  Titles,       \* titles of sources
  Slots,        \* request slots
  Settings,     \* what a behaviour may be bounded to, see `setting'
  MaxVersion    \* bound: the version no stream passes

\* What is assumed of the constants; the modules that instantiate this one assert it.
IdsApart == Sources \intersect Citations = {}
SlotsInUse == \A s \in Settings : s.slots \subseteq Slots /\ IsFiniteSet(s.slots)

VARIABLES
  setting,    \* the request slots and ids in use, and the store: [slots, ids, store]
  sources,    \* source rows: [version, title, count], or NoRow
  citations,  \* citation rows: [version, source], or NoRow
  head,       \* each stream's last event: [version, alive]; version 0 if none
  req         \* request slots

vars == <<setting, sources, citations, head, req>>

NoRow == [version |-> 0]
Idle  == [pc |-> "idle"]

Exists(row) == row.version > 0

CitationsOf(s) == {c \in Citations : Exists(citations[c]) /\ citations[c].source = s}

Init ==
  /\ setting \in Settings
  /\ sources = [s \in Sources |-> NoRow]
  /\ citations = [c \in Citations |-> NoRow]
  /\ head = [i \in Sources \union Citations |-> [version |-> 0, alive |-> FALSE]]
  /\ req = [r \in Slots |-> Idle]

-----------------------------------------------------------------------------
(* Requests check the read model.  A client sends the version of the row   *)
(* it has seen; any other is refused, so requests begin with the row's.    *)

Decide(r, do, stream, expected, arg) ==
  /\ req[r] = Idle
  /\ req' = [req EXCEPT ![r] = [pc |-> "append", do |-> do, stream |-> stream,
                                expected |-> expected, arg |-> arg, todo |-> <<>>]]
  /\ UNCHANGED <<sources, citations, head>>

\* The id is new, so no other request has it.
Fresh(i) ==
  /\ i \in setting.ids /\ head[i].version = 0
  /\ \A q \in Slots : req[q] # Idle => req[q].stream # i

\* Mutant: a citation is moved whatever version its row has by now.
AnyVersion(row) == -1

\* Updates and deletes expect the version of the row they read.
RowVersion(row) == row.version

CreateSource(r) ==
  \E s \in Sources, t \in Titles : Fresh(s) /\ Decide(r, "createSource", s, -1, t)

UpdateSource(r) ==
  \E s \in Sources, t \in Titles :
    Exists(sources[s]) /\ Decide(r, "updateSource", s, RowVersion(sources[s]), t)

\* DeleteSource refuses a source with citations (ErrSourceHasCitations).
Uncited(s) == CitationsOf(s) = {}

DeleteSource(r) ==
  \E s \in Sources :
    Exists(sources[s]) /\ Uncited(s) /\ Decide(r, "deleteSource", s, RowVersion(sources[s]), s)

CreateCitation(r) ==
  \E c \in Citations, s \in Sources :
    Fresh(c) /\ Exists(sources[s]) /\ Decide(r, "createCitation", c, -1, s)

\* UpdateCitation with a source: the new one must exist.
MoveCitation(r) ==
  \E c \in Citations, s \in Sources :
    /\ Exists(citations[c]) /\ Exists(sources[s])
    /\ Decide(r, "moveCitation", c, RowVersion(citations[c]), s)

DeleteCitation(r) ==
  \E c \in Citations :
    /\ Exists(citations[c])
    /\ Decide(r, "deleteCitation", c, RowVersion(citations[c]), c)

-----------------------------------------------------------------------------
(* The append.                                                             *)

Accepted(r) == req[r].expected < 0 \/ req[r].expected = head[req[r].stream].version

Ends(do) == do \in {"deleteSource", "deleteCitation"}

AppendEvent(r) ==
  LET q == req[r]
      v == head[q.stream].version + 1
  IN  /\ q.pc = "append"
      /\ Accepted(r) => v <= MaxVersion
      /\ IF Accepted(r)
         THEN /\ head' = [head EXCEPT ![q.stream] = [version |-> v, alive |-> ~Ends(q.do)]]
              /\ req' = [req EXCEPT ![r].pc = "project", ![r].expected = v]
         ELSE /\ req' = [req EXCEPT ![r] = Idle]
              /\ UNCHANGED head
      /\ UNCHANGED <<sources, citations>>

-----------------------------------------------------------------------------
(* Projections.  "todo" holds the sources whose count is still to change:  *)
(* each is read in one step and saved, as a whole row, in the next.        *)

CountChange(s, delta) == [source |-> s, delta |-> delta]

Finished(r) == req' = [req EXCEPT ![r] = Idle]
Then(r, pc, todo) == req' = [req EXCEPT ![r].pc = pc, ![r].todo = todo]

Sql == setting.store = "sql"

\* The foreign key: in the SQL stores a citation's source has a row.
KeyHolds(s) == Sql => Exists(sources[s])

\* projectSourceCreated, projectSourceDeleted.
ProjectSource(r) ==
  LET q == req[r] IN
  /\ q.pc = "project" /\ q.do \in {"createSource", "deleteSource"}
  /\ sources' = [sources EXCEPT ![q.stream] =
       IF q.do = "createSource" THEN [version |-> q.expected, title |-> q.arg, count |-> 0]
       ELSE IF Sql /\ CitationsOf(q.stream) # {} THEN @ ELSE NoRow]
  /\ Finished(r)
  /\ UNCHANGED <<citations, head>>

\* projectSourceUpdated: the row is read ...
ReadForUpdate(r) ==
  LET q == req[r] IN
  /\ q.pc = "project" /\ q.do = "updateSource"
  /\ req' = [req EXCEPT ![r] =
       IF Exists(sources[q.stream])
       THEN [pc |-> "save", do |-> q.do, stream |-> q.stream, todo |-> <<>>,
             row |-> [sources[q.stream] EXCEPT !.title = q.arg, !.version = q.expected]]
       ELSE Idle]
  /\ UNCHANGED <<sources, citations, head>>

\* ... and saved.
SaveUpdate(r) ==
  LET q == req[r] IN
  /\ q.pc = "save" /\ q.do = "updateSource"
  /\ sources' = [sources EXCEPT ![q.stream] = q.row]
  /\ Finished(r)
  /\ UNCHANGED <<citations, head>>

\* projectCitationCreated: the citation's row, then its source's count.
ProjectCreated(r) ==
  LET q == req[r] IN
  /\ q.pc = "project" /\ q.do = "createCitation"
  /\ IF KeyHolds(q.arg)
     THEN /\ citations' = [citations EXCEPT ![q.stream] = [version |-> q.expected, source |-> q.arg]]
          /\ Then(r, "count", <<CountChange(q.arg, 1)>>)
     ELSE Finished(r) /\ UNCHANGED citations
  /\ UNCHANGED <<sources, head>>

\* Mutant: the source that is left keeps its count.
LeavesKeepingCount(from, to) == <<CountChange(to, 1)>>

Leaves(from, to) == IF from = to THEN <<>> ELSE <<CountChange(from, -1), CountChange(to, 1)>>

\* projectCitationUpdated and projectCitationDeleted: the counts, then the row.
ProjectLeaving(r) ==
  LET q == req[r]
      row == citations[q.stream]
  IN  /\ q.pc = "project" /\ q.do \in {"moveCitation", "deleteCitation"}
      /\ IF ~Exists(row) THEN Finished(r)
         ELSE Then(r, "count", IF q.do = "moveCitation" THEN Leaves(row.source, q.arg)
                               ELSE <<CountChange(row.source, -1)>>)
      /\ UNCHANGED <<sources, citations, head>>

ReadForCount(r) ==
  LET q == req[r] IN
  /\ q.pc = "count" /\ q.todo # <<>>
  /\ IF Exists(sources[q.todo[1].source])
     THEN LET row == sources[q.todo[1].source]
              n   == row.count + q.todo[1].delta
          IN  req' = [req EXCEPT ![r] =
                [pc |-> "saveCount", do |-> q.do, stream |-> q.stream, arg |-> q.arg,
                 expected |-> q.expected, todo |-> q.todo,
                 row |-> [row EXCEPT !.count = IF n < 0 THEN 0 ELSE n]]]
     ELSE Then(r, "count", Tail(q.todo))
  /\ UNCHANGED <<sources, citations, head>>

SaveCount(r) ==
  LET q == req[r] IN
  /\ q.pc = "saveCount"
  /\ sources' = [sources EXCEPT ![q.todo[1].source] = q.row]
  /\ Then(r, "count", Tail(q.todo))
  /\ UNCHANGED <<citations, head>>

FinishCitation(r) ==
  LET q == req[r] IN
  /\ q.pc = "count" /\ q.todo = <<>>
  /\ citations' = [citations EXCEPT ![q.stream] =
       CASE q.do = "deleteCitation" -> NoRow
         [] q.do = "moveCitation" /\ KeyHolds(q.arg) -> [version |-> q.expected, source |-> q.arg]
         [] OTHER -> @]
  /\ Finished(r)
  /\ UNCHANGED <<sources, head>>

-----------------------------------------------------------------------------
Step(r) ==
  \/ CreateSource(r) \/ UpdateSource(r) \/ DeleteSource(r)
  \/ CreateCitation(r) \/ MoveCitation(r) \/ DeleteCitation(r)
  \/ AppendEvent(r)
  \/ ProjectSource(r) \/ ReadForUpdate(r) \/ SaveUpdate(r)
  \/ ProjectCreated(r) \/ ProjectLeaving(r)
  \/ ReadForCount(r) \/ SaveCount(r) \/ FinishCitation(r)

Next == UNCHANGED setting /\ \E r \in setting.slots : Step(r)

Spec == Init /\ [][Next]_vars

-----------------------------------------------------------------------------
(* Properties.                                                             *)

AtRest == \A r \in Slots : req[r] = Idle
OneByOne == Cardinality(setting.slots) = 1

(***************************************************************************)
(* Between requests that come one by one, every citation's source exists   *)
(* and counts the citations that point at it, across moves and deletes     *)
(* (ErrSourceHasCitations; CitationCount).                                 *)
(***************************************************************************)
CountsMatch ==
  OneByOne /\ AtRest =>
    /\ \A s \in Sources : Exists(sources[s]) => sources[s].count = Cardinality(CitationsOf(s))
    /\ \A c \in Citations : Exists(citations[c]) => Exists(sources[citations[c].source])

(***************************************************************************)
(* However requests race, once none is in flight a citation's row is at    *)
(* its stream's version, and gone if that ended (PR-002, PR-003: "Read     *)
(* model version matches event stream version").  In the SQL stores this   *)
(* takes that no source was deleted: the foreign key may have refused the  *)
(* row.                                                                    *)
(***************************************************************************)
CitationFollowsStream ==
  AtRest /\ (Sql => \A s \in Sources : head[s].version > 0 => head[s].alive) =>
    \A c \in Citations :
      citations[c].version = IF head[c].alive THEN head[c].version ELSE 0

(***************************************************************************)
(* The same of sources (PR-002), whose rows the projections of citations   *)
(* save too: does not hold when requests race.                             *)
(***************************************************************************)
SourceFollowsStream ==
  AtRest => \A s \in Sources :
              sources[s].version = IF head[s].alive THEN head[s].version ELSE 0
=============================================================================
