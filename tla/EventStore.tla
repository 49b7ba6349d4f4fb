----------------------------- MODULE EventStore -----------------------------
(***************************************************************************)
(* The in-memory event store the server is wired with                      *)
(* (internal/repository/memory/eventstore.go): the log, and beside it a    *)
(* map that caches the version of every (stream, branch).                  *)
(*                                                                         *)
(* Every call runs under the store's lock, so an Append is one step.  A    *)
(* refused Append changes nothing and is not a step.  Branches enter with  *)
(* the base position CreateBranch read: a position the log had reached.    *)
(*                                                                         *)
(* Not here: Reset, which only tests call, and the byte form of an event:  *)
(* Append encodes the batch's events as it stores them, and an event that  *)
(* failed to encode would leave the earlier ones stored and uncounted; but *)
(* no domain event holds a value json.Marshal refuses.                     *)
(***************************************************************************)
EXTENDS EventLog

CONSTANTS
  Streams,     \* aggregate ids
  Branches,    \* research branch ids, Main not among them
  Bodies,      \* event payloads, opaque to the store
  NotForked,   \* the base position of a branch that does not exist yet
  MaxEvents,   \* bound: length of the log
  MaxBatch     \* bound: events in one Append

ASSUME MainApart == Main \notin Branches
ASSUME NotForkedApart == NotForked \notin Nat
ASSUME BoundsAreNat == MaxEvents \in Nat /\ MaxBatch \in Nat

Scopes == Branches \union {Main}

VARIABLES
  log,         \* s.events; s.streams is its partition by stream
  versions,    \* s.versions, absent keys read as 0
  base         \* domain.Branch.BasePosition of each branch

vars == <<log, versions, base>>

Event == [stream : Streams, branch : Scopes, version : Nat \ {0},
          position : Nat \ {0}, body : Bodies]

TypeOK ==
  /\ log \in Seq(Event)
  /\ versions \in [Streams \X Scopes -> Nat]
  /\ base \in [Branches -> Nat \union {NotForked}]

Init ==
  /\ log = <<>>
  /\ versions = [k \in Streams \X Scopes |-> 0]
  /\ base = [b \in Branches |-> NotForked]

-----------------------------------------------------------------------------
\* A scope can be written once its branch is forked; Main always can.
Writable(b) == b \in Branches => base[b] # NotForked

BaseOf(b) == IF b = Main THEN 0 ELSE base[b]

\* Mutant: a branch's first write restarts the aggregate's numbering.
CurrentUnseeded(s, b) == versions[<<s, b>>]

\* What Append compares with: the cached version, or the seed of a first write.
Current(s, b) == CurrentVersion(log, versions[<<s, b>>], s, b, BaseOf(b))

(***************************************************************************)
(* CreateBranch reads the head of the log and later records it as the      *)
(* branch's base, so other events may have landed in between.              *)
(***************************************************************************)
Fork(b) ==
  /\ base[b] = NotForked
  /\ \E p \in 0..Len(log) : base' = [base EXCEPT ![b] = p]
  /\ UNCHANGED <<log, versions>>

\* Mutant: record the current version even when nothing was appended.
RecordedAlways(s, b, batch) ==
  [versions EXCEPT ![<<s, b>>] = Current(s, b) + Len(batch)]

(***************************************************************************)
(* The version map after an Append: an empty batch must not record the     *)
(* seed, because the branch still holds no event for the stream.           *)
(***************************************************************************)
Recorded(s, b, batch) ==
  IF batch = <<>> THEN versions
  ELSE [versions EXCEPT ![<<s, b>>] = Current(s, b) + Len(batch)]

AppendEvents(s, b, batch, expected) ==
  /\ Writable(b)
  /\ Accepts(expected, Current(s, b))
  /\ Len(log) + Len(batch) <= MaxEvents
  /\ log' = log \o Stored(log, s, b, Current(s, b), batch)
  /\ versions' = Recorded(s, b, batch)
  /\ UNCHANGED base

Batches == UNION {[1..n -> Bodies] : n \in 0..MaxBatch}

Next ==
  \/ \E b \in Branches : Fork(b)
  \/ \E s \in Streams, b \in Scopes, batch \in Batches, expected \in -1..MaxEvents :
       AppendEvents(s, b, batch, expected)

Spec == Init /\ [][Next]_vars

-----------------------------------------------------------------------------
(***************************************************************************)
(* Properties.                                                             *)
(***************************************************************************)

(***************************************************************************)
(* The cached version of a (stream, branch) is the greatest version the    *)
(* log holds for it: an empty Append that recorded its seed, or a batch    *)
(* counted wrongly, would make GetStreamVersion disagree with the log.     *)
(***************************************************************************)
CacheMatchesLog ==
  \A s \in Streams, b \in Scopes : versions[<<s, b>>] = StreamVersion(log, s, b)

(***************************************************************************)
(* UNIQUE(stream_id, branch_id, version), and in log order: a later event  *)
(* of a (stream, branch) has a greater version, even when -1 skipped the   *)
(* optimistic check.                                                       *)
(***************************************************************************)
VersionsIncrease ==
  \A i, j \in 1..Len(log) :
     (i < j /\ log[i].stream = log[j].stream /\ log[i].branch = log[j].branch)
       => log[i].version < log[j].version

(***************************************************************************)
(* A version line has no hole: an event either continues the event before  *)
(* it on its (stream, branch) or opens a branch's line at main's version   *)
(* as of the fork (BR-005).                                                *)
(***************************************************************************)
VersionsGapless ==
  \A i \in 1..Len(log) :
     LET e == log[i] IN
     \/ \E j \in 1..(i-1) : /\ log[j].stream = e.stream
                            /\ log[j].branch = e.branch
                            /\ log[j].version = e.version - 1
     \/ e.branch = Main /\ e.version = 1
     \/ e.branch # Main /\ e.version = SeedVersion(log, e.stream, base[e.branch]) + 1

(***************************************************************************)
(* What a branch seeds from is fixed when it forks: no later write on main *)
(* or on any branch moves it, so a first write years later still continues *)
(* main's line as of the fork.                                             *)
(***************************************************************************)
SeedIsStable ==
  [][\A s \in Streams, b \in Branches :
       base[b] # NotForked =>
         SeedVersion(log', s, base'[b]) = SeedVersion(log, s, base[b])]_vars

(***************************************************************************)
(* Whatever the in-memory store does with its version cache, the SQL       *)
(* backends, which derive versions from the log, do the same: they accept  *)
(* the same appends and store the same versions (DB-001).                  *)
(***************************************************************************)
Sql == INSTANCE SqlEventStore

ImplementsSql == Sql!Spec

=============================================================================
