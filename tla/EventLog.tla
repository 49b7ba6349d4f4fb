------------------------------ MODULE EventLog ------------------------------
(***************************************************************************)
(* The event log of my-family and the queries every layer asks of it.      *)
(*                                                                         *)
(* The log is one global sequence of stored events.  An event belongs to a *)
(* stream (an aggregate, or a branch's own lifecycle stream) and is tagged *)
(* with the research branch it was written on; `Main' is the mainline.     *)
(* Versions count per (stream, branch).  The operators take the log as a   *)
(* parameter, so the event store, the merge and the readers share them.    *)
(*                                                                         *)
(* An event is a record with at least the fields                           *)
(*     stream, branch, version, position                                   *)
(* plus whatever payload the using module gives it.                        *)
(***************************************************************************)
EXTENDS Integers, Sequences

CONSTANT Main   \* the reserved mainline branch id, domain.MainBranchID

(***************************************************************************)
(* COALESCE(MAX(version), 0) over a set of events: the greatest version,   *)
(* or 0 when there is none.                                                *)
(***************************************************************************)
TopVersion(S) ==
  IF S = {} THEN 0
  ELSE CHOOSE v \in {e.version : e \in S} : \A e \in S : e.version <= v

EventsOf(log) == {log[i] : i \in 1..Len(log)}

\* The events one branch holds for one stream.
OwnEvents(log, s, b) == {e \in EventsOf(log) : e.stream = s /\ e.branch = b}

\* GetStreamVersion as the SQL stores compute it: 0 when the branch holds none.
StreamVersion(log, s, b) == TopVersion(OwnEvents(log, s, b))

\* Mutant: seed from main's head instead of main as of the fork.
SeedFromHead(log, s, base) == TopVersion(OwnEvents(log, s, Main))

(***************************************************************************)
(* The version a branch's first write to a stream continues from: main's   *)
(* version as of the branch's base position.                               *)
(***************************************************************************)
SeedVersion(log, s, base) ==
  TopVersion({e \in OwnEvents(log, s, Main) : e.position <= base})

\* Mutant: a branch's version line starts at zero.
CurrentFromZero(log, own, s, b, base) == own

(***************************************************************************)
(* The version line Append compares the expected version with.  `own' is   *)
(* the branch's own version of the stream, wherever it is kept.            *)
(***************************************************************************)
CurrentVersion(log, own, s, b, base) ==
  IF own = 0 /\ b # Main THEN SeedVersion(log, s, base) ELSE own

\* Optimistic concurrency: a negative expected version skips the comparison.
Accepts(expected, current) == expected < 0 \/ expected = current

\* Mutant: the version is stamped before it is incremented.
StoredBeforeIncrement(log, s, b, current, batch) ==
  [i \in 1..Len(batch) |->
     [stream |-> s, branch |-> b,
      version |-> current + i - 1, position |-> Len(log) + i, body |-> batch[i]]]

(***************************************************************************)
(* The stored form of a batch of payload records: consecutive versions     *)
(* from `current', consecutive positions from the head of the log.         *)
(***************************************************************************)
Stored(log, s, b, current, batch) ==
  [i \in 1..Len(batch) |->
     [stream |-> s, branch |-> b,
      version |-> current + i, position |-> Len(log) + i, body |-> batch[i]]]

-----------------------------------------------------------------------------
(* Reads.                                                                  *)

(***************************************************************************)
(* The in-memory scans append an event and then test the limit, so a limit *)
(* below one still yields the first match.                                 *)
(***************************************************************************)
Capped(seq, limit) ==
  LET n == IF limit < 1 THEN 1 ELSE limit
  IN  IF Len(seq) <= n THEN seq ELSE SubSeq(seq, 1, n)

\* The elements of a sequence that are in S, in their order.
OnlyIn(seq, S) ==
  LET kept[i \in 0..Len(seq)] ==
        IF i = 0 THEN <<>>
        ELSE IF seq[i] \in S THEN Append(kept[i - 1], seq[i])
        ELSE kept[i - 1]
  IN  kept[Len(seq)]

\* One stream's events, in their order.
OnStream(events, s) == OnlyIn(events, {e \in EventsOf(events) : e.stream = s})

\* The log from a position on, exclusive, oldest first, at most `limit'.
ReadAll(log, from, limit) ==
  Capped(OnlyIn(log, {e \in EventsOf(log) : e.position > from}), limit)

\* One branch's own events from a position on.
ReadBranch(log, b, from, limit) ==
  Capped(OnlyIn(log, {e \in EventsOf(log) : e.branch = b /\ e.position > from}), limit)

\* One branch's events for a set of streams; here a limit below one is empty.
ReadStreamsForBranch(log, streams, b, from, limit) ==
  IF streams = {} \/ limit <= 0 THEN <<>>
  ELSE Capped(OnlyIn(log, {e \in EventsOf(log) : /\ e.branch = b
                                                 /\ e.position > from
                                                 /\ e.stream \in streams}), limit)

\* Every branch's events for one stream.
ReadStream(log, s) == SelectSeq(log, LAMBDA e : e.stream = s)

(***************************************************************************)
(* An offset page of `matching': the events, how many match in all and     *)
(* whether more follow.                                                    *)
(***************************************************************************)
Page(matching, limit, offset) ==
  LET total == Len(matching)
      first == IF offset > total THEN total ELSE offset
      last  == IF first + limit > total THEN total ELSE first + limit
  IN  [events |-> SubSeq(matching, first + 1, last),
       totalCount |-> total, hasMore |-> last < total]

\* The branch filter runs before pagination.
ReadByStream(log, s, b, limit, offset) ==
  Page(OnlyIn(log, OwnEvents(log, s, b)), limit, offset)

\* The in-memory scan keeps log order.  A body that is read by time has a time.
ReadGlobalByTime(log, from, to, limit, offset) ==
  Page(OnlyIn(log, {e \in EventsOf(log) : from <= e.body.time /\ e.body.time <= to}), limit, offset)

=============================================================================
