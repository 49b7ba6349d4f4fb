------------------------------- MODULE History -------------------------------
(***************************************************************************)
(* Reading the log: the paged change history of one entity and of          *)
(* everything, walked page by page while others write, and research        *)
(* snapshots, which mark a position of the log and are compared later      *)
(* (internal/query/history_queries.go, snapshot_queries.go; the stores'    *)
(* ReadByStream, ReadGlobalByTime and ReadAll; the pager of                *)
(* web/src/lib/components/ChangeHistory.svelte).                           *)
(*                                                                         *)
(* An event carries the time it occurred.  A merge replays events with     *)
(* their original times and a request stamps its events before it appends  *)
(* them, so times need not follow the log's order.                         *)
(*                                                                         *)
(* Not here: names and changes shown with an entry, the filters by event   *)
(* type and by a narrower time range, and two pager requests in flight.    *)
(***************************************************************************)
EXTENDS EventLog, FiniteSets

CONSTANTS
  Streams,        \* aggregate ids
  Import,         \* the stream of a GEDCOM import's marker event
  Branches,       \* research branches, forked from the empty log
  Times,          \* the times events may have: numbers, in tenths of a second
  Orders,         \* how stores order a global page: "scan" (memory), "text"
                  \* (SQLite) and "time" (PostgreSQL)
  MaxComparison,  \* maxComparisonEvents: what a comparison reads at most
  DefaultLimit, MaxLimit,  \* the page size used for none, and the largest
  Sizes,          \* page sizes that clients ask for
  Readers,        \* pagers
  Snapshots,      \* snapshot ids
  Walks,          \* the histories walked: Streams, or Everything
  Everything,     \* the global history
  NoMark,         \* the position of a snapshot that does not exist
  MaxLog          \* bound: length of the log

\* What is assumed of the constants; the modules that instantiate this one assert it.
ImportApart == Import \notin Streams
EverythingApart == Everything \notin Streams
NumbersAsTimes ==
  Times \subseteq Int /\ \E first, last \in Times : \A t \in Times : first <= t /\ t <= last
NumbersAsSizes ==
  Sizes \subseteq Int /\ MaxComparison \in Int /\ DefaultLimit \in Nat /\ MaxLimit \in Nat

VARIABLES
  log,    \* the event log
  order,  \* how this store orders a global page: it never changes
  mark,   \* each snapshot's position
  view    \* what each pager shows, with the page it is at

vars == <<log, order, mark, view>>

Closed == [of |-> "closed"]

Init ==
  /\ log = <<>>
  /\ order \in Orders
  /\ mark = [s \in Snapshots |-> NoMark]
  /\ view = [r \in Readers |-> Closed]

-----------------------------------------------------------------------------
(* Writes.                                                                 *)

Write(s, b) ==
  /\ Len(log) < MaxLog
  /\ \E t \in Times :
       log' = log \o Stored(log, s, b,
                            CurrentVersion(log, StreamVersion(log, s, b), s, b, 0), <<[time |-> t]>>)
  /\ UNCHANGED <<order, mark, view>>

\* Every import's marker has a stream of its own; one id stands for them.
ImportMarker == Write(Import, Main)

-----------------------------------------------------------------------------
(* Histories.                                                              *)

\* A missing or wild page size is replaced.
Limit(size) ==
  IF size <= 0 THEN DefaultLimit ELSE IF size > MaxLimit THEN MaxLimit ELSE size

\* transformStoredEvents drops the entries of imports.
Entries(events) == OnlyIn(events, {e \in EventsOf(events) : e.stream # Import})

\* Mutant: the page is of every branch's events.
EntityPageUnfiltered(s, limit, offset) == Page(ReadStream(log, s), limit, offset)

\* GetEntityHistory: main's events of the entity, in version order.
EntityPage(s, limit, offset) == ReadByStream(log, s, Main, limit, offset)

(***************************************************************************)
(* SQLite compares timestamps as text, and the text has no trailing zeros: *)
(* "05Z" follows "05.1Z" and "05.9Z", '.' being less than 'Z'.             *)
(***************************************************************************)
SortKey(time) == IF order = "text" /\ time % 10 = 0 THEN time + 10 ELSE time

\* By time as the store has it, then by position.
Earlier(d, e) ==
  \/ SortKey(d.body.time) < SortKey(e.body.time)
  \/ SortKey(d.body.time) = SortKey(e.body.time) /\ d.position < e.position

\* The place of an event among all, the first being at 1.
Place(e) == Cardinality({d \in EventsOf(log) : ~Earlier(e, d)})

ByTime == [n \in 1..Len(log) |-> CHOOSE e \in EventsOf(log) : Place(e) = n]

\* GetGlobalHistory over all time: every branch's events.
GlobalPage(limit, offset) ==
  IF order # "scan" THEN Page(ByTime, limit, offset)
  ELSE LET now == CHOOSE t \in Times : \A u \in Times : u <= t
           old == CHOOSE t \in Times : \A u \in Times : t <= u
       IN  ReadGlobalByTime(log, old, now, limit, offset)

HistoryPage(of, limit, offset) ==
  IF of = Everything THEN GlobalPage(limit, offset) ELSE EntityPage(of, limit, offset)

(***************************************************************************)
(* loadHistory: the first page replaces what is shown.  `began' is         *)
(* history: how long the log was then.                                     *)
(***************************************************************************)
LoadHistory(r) ==
  /\ view[r] = Closed
  /\ \E of \in Walks, size \in Sizes :
       LET limit == Limit(size)
           page  == HistoryPage(of, limit, 0)
       IN  view' = [view EXCEPT ![r] =
                      [of |-> of, limit |-> limit, offset |-> 0, began |-> Len(log),
                       items |-> Entries(page.events), hasMore |-> page.hasMore]]
  /\ UNCHANGED <<log, order, mark>>

\* Mutant: the next page starts after the items shown.
NextOffsetByItems(v) == Len(v.items) + 1

\* loadMore asks for the page after the one it has.
NextOffset(v) == v.offset + v.limit

LoadMore(r) ==
  LET v    == view[r]
      page == HistoryPage(v.of, v.limit, NextOffset(v))
  IN  /\ v # Closed /\ v.hasMore
      /\ view' = [view EXCEPT ![r].offset = NextOffset(v), ![r].hasMore = page.hasMore,
                              ![r].items = @ \o Entries(page.events)]
      /\ UNCHANGED <<log, order, mark>>

-----------------------------------------------------------------------------
(* Snapshots.                                                              *)

\* CreateSnapshot marks the position of the last event, 0 without one.
CreateSnapshot(s) ==
  /\ mark[s] = NoMark
  /\ mark' = [mark EXCEPT ![s] = Len(log)]
  /\ UNCHANGED <<log, order, view>>

DeleteSnapshot(s) ==
  /\ mark[s] # NoMark
  /\ mark' = [mark EXCEPT ![s] = NoMark]
  /\ UNCHANGED <<log, order, view>>

\* Mutant: what a comparison read is not cut at the later snapshot.
UpToHead(events, to) == events

UpTo(events, to) == OnlyIn(events, {e \in EventsOf(events) : e.position <= to})

\* Mutant: a full read is not taken for a truncated one.
ReadCapBeyond(events) == Len(events) > MaxComparison

\* A full read is taken for a truncated one.
ReadCap(events) == Len(events) >= MaxComparison

\* CompareSnapshots: what a log holds between two positions, older first.
Comparison(events, m1, m2) ==
  LET from == IF m1 > m2 THEN m2 ELSE m1
      to   == IF m1 > m2 THEN m1 ELSE m2
      read == ReadAll(events, from, MaxComparison)
  IN  [changes |-> Entries(UpTo(read, to)), hasMore |-> ReadCap(read)]

-----------------------------------------------------------------------------
Writing == ImportMarker \/ \E s \in Streams, b \in Branches \union {Main} : Write(s, b)
Paging  == \E r \in Readers : LoadHistory(r) \/ LoadMore(r)
Marking == \E s \in Snapshots : CreateSnapshot(s) \/ DeleteSnapshot(s)

Next == Writing \/ Paging \/ Marking

Spec == Init /\ [][Next]_vars

-----------------------------------------------------------------------------
(* Properties.                                                             *)

Marked == {s \in Snapshots : mark[s] # NoMark}

(***************************************************************************)
(* A pager shows an entity's mainline history from its beginning, without  *)
(* a gap, an echo or a branch's event, however much is written between its *)
(* pages; when it offers no more, it shows at least what there was when it *)
(* began (ReadByStream: the branch filter runs before pagination).         *)
(***************************************************************************)
EntityWalkIsPrefix ==
  \A r \in Readers :
    (view[r] # Closed /\ view[r].of \in Streams) =>
      LET v    == view[r]
          mine == OnlyIn(log, OwnEvents(log, v.of, Main))
      IN  /\ Len(v.items) <= Len(mine) /\ \A i \in DOMAIN v.items : v.items[i] = mine[i]
          /\ ~v.hasMore => \A i \in DOMAIN mine : mine[i].position <= v.began => i <= Len(v.items)

(***************************************************************************)
(* The global pager misses nothing that was there when it began, though    *)
(* events dated in the past arrive between its pages and shift them.       *)
(***************************************************************************)
GlobalWalkMissesNothing ==
  \A r \in Readers :
    (view[r] # Closed /\ view[r].of = Everything /\ ~view[r].hasMore) =>
      \A i \in 1..view[r].began :
        log[i].stream # Import => \E j \in DOMAIN view[r].items : view[r].items[j] = log[i]

(***************************************************************************)
(* A comparison shows changes from between its two snapshots only, whatever*)
(* has been written since, and one that claims to be whole has every one   *)
(* of them (CompareSnapshots' cut and its has_more).                       *)
(***************************************************************************)
WholeComparison ==
  \A s, t \in Marked :
    LET c == Comparison(log, mark[s], mark[t])
        Between(i) == log[i].stream # Import /\ ((mark[s] < i) # (mark[t] < i))
        Shown(i) == \E j \in DOMAIN c.changes : c.changes[j] = log[i]
    IN  /\ \A j \in DOMAIN c.changes : \E i \in DOMAIN log : Between(i) /\ c.changes[j] = log[i]
        /\ ~c.hasMore => \A i \in DOMAIN log : Between(i) => Shown(i)

=============================================================================
