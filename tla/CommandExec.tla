---------------------------- MODULE CommandExec -----------------------------
(***************************************************************************)
(* The person commands on the mainline as concurrent requests: each reads  *)
(* the read-model row, appends one event and projects it onto the row      *)
(* (internal/command/handler.go execute, person_commands.go;               *)
(* internal/query/rollback_queries.go; internal/repository/projection.go). *)
(*                                                                         *)
(* Create, Update and Delete take the expected version from the row; a     *)
(* rollback takes it from the event store.  Append and projection are      *)
(* separate store calls, and execute drops a projection's error, so a      *)
(* projection may also be lost.                                            *)
(*                                                                         *)
(* One person is enough: no command here reads another's row.  Research    *)
(* branches appear as the events they put into the person's stream.        *)
(*                                                                         *)
(* Not here: validation of the values, and the read model's denormalized   *)
(* copies of a name.                                                       *)
(***************************************************************************)
EXTENDS EventLog, SequencesExt

CONSTANTS
  Person,          \* the person's aggregate id
  Branches,        \* research branches, Main not among them
  Commands,        \* request slots
  Kinds,           \* the commands in use: "create", "update", "delete", "rollback"
  Beginnings,      \* what a person may be created with: functions from fields to values
  Changes,         \* what an update may set: functions from fields to values
  NotForked,       \* the base position of a branch that does not exist
  MaxLog           \* bound: length of the log

ASSUME BranchesApart == Main \notin Branches

\* The value a rollback gives a field that its target does not have: JSON null.
Null == "null"

\* A client's values are strings, so no create or update carries a null.
ASSUME ValuesAreStrings ==
  \A f \in Beginnings \union Changes : /\ f = [x \in DOMAIN f |-> f[x]]
                                      /\ \A x \in DOMAIN f : f[x] # Null

VARIABLES
  log,     \* the event log
  base,    \* each branch's base position
  row,     \* main's read-model row of the person
  cmd      \* what each request slot is doing, with its local variables

vars == <<log, base, row, cmd>>

Idle == [pc |-> "idle"]
NoRow == [exists |-> FALSE, version |-> 0, fields |-> <<>>]

Init ==
  /\ log = <<>>
  /\ base = [b \in Branches |-> NotForked]
  /\ row = NoRow
  /\ cmd = [c \in Commands |-> Idle]

Goto(c, pc) == cmd' = [cmd EXCEPT ![c].pc = pc]
Return(c)   == cmd' = [cmd EXCEPT ![c] = Idle]

MainVersion == StreamVersion(log, Person, Main)

-----------------------------------------------------------------------------
(* Create, Update, Delete: from the row to an event and the version it     *)
(* expects.  The client's version has to be the row's.                     *)

Prepared(body, expected) == [pc |-> "append", body |-> body, expected |-> expected]

BeginCreate(c) ==
  /\ "create" \in Kinds /\ cmd[c] = Idle /\ log = <<>>
  /\ \A d \in Commands : cmd[d] = Idle
  /\ \E fields \in Beginnings :
       cmd' = [cmd EXCEPT ![c] = Prepared([type |-> "Created", changes |-> fields], -1)]
  /\ UNCHANGED <<log, base, row>>

\* Mutant: the command trusts the version the event store has by now.
ExpectsHead == MainVersion

\* The version a command expects is the one it read with the row.
ExpectsRow == row.version

BeginUpdate(c) ==
  /\ "update" \in Kinds /\ cmd[c] = Idle /\ row.exists
  /\ \E changes \in Changes :
       cmd' = [cmd EXCEPT ![c] = Prepared([type |-> "Updated", changes |-> changes], ExpectsRow)]
  /\ UNCHANGED <<log, base, row>>

BeginDelete(c) ==
  /\ "delete" \in Kinds /\ cmd[c] = Idle /\ row.exists
  /\ cmd' = [cmd EXCEPT ![c] = Prepared([type |-> "Deleted"], ExpectsRow)]
  /\ UNCHANGED <<log, base, row>>

-----------------------------------------------------------------------------
(* Rollback.                                                               *)

\* new's fields, and old's where new has none.
Over(new, old) ==
  [f \in DOMAIN new \union DOMAIN old |-> IF f \in DOMAIN new THEN new[f] ELSE old[f]]

\* applyEventToState: a null drops the field, a delete keeps the state.
ApplyToState(state, body) ==
  CASE body.type = "Created" -> Over(body.changes, state)
    [] body.type = "Updated" ->
         LET merged == Over(body.changes, state)
         IN  [f \in {g \in DOMAIN merged : merged[g] # Null} |-> merged[f]]
    [] OTHER -> state

StateOf(events) == FoldLeft(LAMBDA state, e : ApplyToState(state, e.body), <<>>, events)

(***************************************************************************)
(* GetStateAtVersion: every event of the stream, in version order, up to   *)
(* the version.  ReadStream is not filtered by branch.  The short sorts    *)
(* here are stable: events of one version stay in the log's order.         *)
(***************************************************************************)
InVersionOrder(version) ==
  LET upTo[v \in 0..version] ==
        IF v = 0 THEN <<>>
        ELSE upTo[v - 1] \o OnlyIn(log, {e \in EventsOf(log) : e.stream = Person /\ e.version = v})
  IN  upTo[version]

StateAtVersion(version) == StateOf(InVersionOrder(version))

\* Mutant: fields the target does not have are left alone.
StateDiffKept(current, target) ==
  [f \in {g \in DOMAIN target : g \in DOMAIN current => current[g] # target[g]} |-> target[f]]

\* computeStateDiff: the target's values where they differ, null where it has none.
StateDiff(current, target) ==
  LET changed == {f \in DOMAIN target : f \in DOMAIN current => current[f] # target[f]}
      removed == DOMAIN current \ DOMAIN target
  IN  [f \in changed \union removed |-> IF f \in changed THEN target[f] ELSE Null]

\* rollbackEntity reads main's version first.
BeginRollback(c) ==
  /\ "rollback" \in Kinds /\ cmd[c] = Idle
  /\ \E target \in 1..MainVersion - 1 :
       cmd' = [cmd EXCEPT ![c] = [pc |-> "deleted", target |-> target, expected |-> MainVersion]]
  /\ UNCHANGED <<log, base, row>>

\* Then it refuses a person main's read model does not have.
CheckDeleted(c) ==
  /\ cmd[c].pc = "deleted"
  /\ IF row.exists THEN Goto(c, "compute") ELSE Return(c)
  /\ UNCHANGED <<log, base, row>>

(***************************************************************************)
(* ComputeRollbackChanges: its three reads of the stream are one step.     *)
(* Its current version is the greatest of the stream, whatever the branch. *)
(* An empty difference is a no-op.  `target' in the body is history: no    *)
(* step reads it.                                                          *)
(***************************************************************************)
Compute(c) ==
  LET r       == cmd[c]
      current == TopVersion({e \in EventsOf(log) : e.stream = Person})
      diff    == StateDiff(StateAtVersion(current), StateAtVersion(r.target))
  IN  /\ r.pc = "compute"
      /\ IF diff = <<>> THEN Return(c)
         ELSE cmd' = [cmd EXCEPT ![c] =
                        Prepared([type |-> "Updated", changes |-> diff, target |-> r.target],
                                 r.expected)]
      /\ UNCHANGED <<log, base, row>>

-----------------------------------------------------------------------------
(* execute: append, then project.                                          *)

AppendEvent(c) ==
  LET r == cmd[c] IN
  /\ r.pc = "append"
  /\ \/ /\ Accepts(r.expected, MainVersion)
        /\ Len(log) < MaxLog
        /\ log' = log \o Stored(log, Person, Main, MainVersion, <<r.body>>)
        /\ Goto(c, "project")
     \/ /\ ~Accepts(r.expected, MainVersion)
        /\ Return(c)
        /\ UNCHANGED log
  /\ UNCHANGED <<base, row>>

\* Mutant: the counter is read before it is incremented.
ProjectedVersionBefore(r) == IF r.expected < 0 THEN 0 ELSE r.expected

\* The version execute hands the projector.
ProjectedVersion(r) == (IF r.expected < 0 THEN 0 ELSE r.expected) + 1

\* projectPersonUpdated applies strings only: a null leaves the row as it is.
Projected(fields, changes) ==
  Over([f \in {g \in DOMAIN changes : changes[g] # Null} |-> changes[f]], fields)

\* projectPersonCreated and projectPersonDeleted are one store call each.
ProjectWhole(c) ==
  LET r == cmd[c] IN
  /\ r.pc = "project" /\ r.body.type # "Updated"
  /\ row' = IF r.body.type = "Deleted" THEN NoRow
            ELSE [exists |-> TRUE, version |-> ProjectedVersion(r), fields |-> r.body.changes]
  /\ Return(c)
  /\ UNCHANGED <<log, base>>

\* projectPersonUpdated reads the row and saves it back changed.
LoadProjected(c) ==
  LET r == cmd[c] IN
  /\ r.pc = "project" /\ r.body.type = "Updated"
  /\ IF row.exists
     THEN cmd' = [cmd EXCEPT ![c] = [pc |-> "save",
                    row |-> [row EXCEPT !.version = ProjectedVersion(r),
                                        !.fields = Projected(@, r.body.changes)]]]
     ELSE Return(c)
  /\ UNCHANGED <<log, base, row>>

SaveProjected(c) ==
  /\ cmd[c].pc = "save"
  /\ row' = cmd[c].row
  /\ Return(c)
  /\ UNCHANGED <<log, base>>

\* The projector's error is dropped; the command has succeeded.
LoseProjection(c) ==
  /\ cmd[c].pc \in {"project", "save"}
  /\ Return(c)
  /\ UNCHANGED <<log, base, row>>

-----------------------------------------------------------------------------
(* Branches: a fork, and an edit of the person on a branch, which leaves   *)
(* main's row alone.  A branch's first edit reads main's row, so it is     *)
(* refused unless that row is where the person was at the fork.            *)

Fork(b) ==
  /\ base[b] = NotForked
  /\ base' = [base EXCEPT ![b] = Len(log)]
  /\ UNCHANGED <<log, row, cmd>>

BranchEdit(b) ==
  /\ base[b] # NotForked /\ row.exists /\ Len(log) < MaxLog
  /\ StreamVersion(log, Person, b) = 0 => row.version = SeedVersion(log, Person, base[b])
  /\ \E changes \in Changes :
       log' = log \o Stored(log, Person, b,
                            CurrentVersion(log, StreamVersion(log, Person, b), Person, b, base[b]),
                            <<[type |-> "Updated", changes |-> changes]>>)
  /\ UNCHANGED <<base, row, cmd>>

-----------------------------------------------------------------------------
Next ==
  \/ \E c \in Commands :
       \/ BeginCreate(c) \/ BeginUpdate(c) \/ BeginDelete(c)
       \/ BeginRollback(c) \/ CheckDeleted(c) \/ Compute(c)
       \/ AppendEvent(c) \/ ProjectWhole(c) \/ LoadProjected(c) \/ SaveProjected(c)
       \/ LoseProjection(c)
  \/ \E b \in Branches : Fork(b) \/ BranchEdit(b)

Spec == Init /\ [][Next]_vars

-----------------------------------------------------------------------------
(* Properties.                                                             *)

\* The person's own history on main, up to a version.
InHistory(e, version) == e.stream = Person /\ e.branch = Main /\ e.version <= version

\* What that history makes of the person.
StateTo(events, version) ==
  FoldLeft(LAMBDA state, e : IF InHistory(e, version) THEN ApplyToState(state, e.body) ELSE state,
           <<>>, events)

RolledBack == \E e \in EventsOf(log) : "target" \in DOMAIN e.body

(***************************************************************************)
(* The row is always a state main's log has been in: what the events up to *)
(* the row's version make of the person, even when projections were lost   *)
(* and several updates were in flight (execute's row-derived expected      *)
(* version serializes the projections).  A rollback takes its version from *)
(* the store instead.                                                      *)
(***************************************************************************)
RowIsPast ==
  row.exists /\ ~RolledBack => /\ row.version \in 1..MainVersion
                               /\ row.fields = StateTo(log, row.version)

(***************************************************************************)
(* No update is projected onto a row that has lost an earlier one: the     *)
(* row's version never goes back while the person exists and only the      *)
(* commands that read it write.                                            *)
(***************************************************************************)
RowNeverGoesBack ==
  [][row.exists /\ row'.exists /\ ~RolledBack => row'.version >= row.version]_row

(***************************************************************************)
(* A rollback restores: the history up to a rollback's event gives the     *)
(* state the history up to its target gave, whatever was written while it  *)
(* was computed ("Restores the person's data to match the state at the     *)
(* specified version"), unless a branch has written to the stream it       *)
(* folds.                                                                  *)
(***************************************************************************)
RollbackRestores ==
  (\A e \in EventsOf(log) : e.branch = Main) =>
    \A e \in EventsOf(log) :
      "target" \in DOMAIN e.body => StateTo(log, e.version) = StateTo(log, e.body.target)

=============================================================================
