--------------------------- MODULE SqlEventStore ----------------------------
(***************************************************************************)
(* The event store as the SQLite and PostgreSQL backends implement it: no  *)
(* version is kept beside the log, every Append derives the current        *)
(* version with MAX(version) in its own transaction.  This is the contract *)
(* the in-memory store is checked against (DB-001: the backends pass the   *)
(* same interface tests).                                                  *)
(***************************************************************************)
EXTENDS EventLog

CONSTANTS Streams, Branches, Bodies, NotForked, MaxEvents, MaxBatch

Scopes == Branches \union {Main}

VARIABLES
  log,    \* the events table in position order
  base    \* the base position of each branch

vars == <<log, base>>

Init ==
  /\ log = <<>>
  /\ base = [b \in Branches |-> NotForked]

BaseOf(b) == IF b = Main THEN 0 ELSE base[b]

Fork(b) ==
  /\ base[b] = NotForked
  /\ \E p \in 0..Len(log) : base' = [base EXCEPT ![b] = p]
  /\ UNCHANGED log

\* UNIQUE(stream_id, branch_id, version) holds for each row a batch inserts.
Unused(s, b, current, n) ==
  \A e \in OwnEvents(log, s, b), k \in 1..n : e.version # current + k

\* One transaction: derive the version, compare, insert the batch.
AppendEvents(s, b, batch, expected) ==
  LET current == CurrentVersion(log, StreamVersion(log, s, b), s, b, BaseOf(b))
  IN  /\ b \in Branches => base[b] # NotForked
      /\ Accepts(expected, current)
      /\ Len(log) + Len(batch) <= MaxEvents
      /\ Unused(s, b, current, Len(batch))
      /\ log' = log \o Stored(log, s, b, current, batch)
      /\ UNCHANGED base

Batches == UNION {[1..n -> Bodies] : n \in 0..MaxBatch}

Next ==
  \/ \E b \in Branches : Fork(b)
  \/ \E s \in Streams, b \in Scopes, batch \in Batches, expected \in -1..MaxEvents :
       AppendEvents(s, b, batch, expected)

Spec == Init /\ [][Next]_vars

=============================================================================
