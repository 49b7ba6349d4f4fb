-------------------------- MODULE EvidenceConflicts --------------------------
(***************************************************************************)
(* Evidence analyses and the conflicts detected between them, under        *)
(* concurrent requests (internal/command/evidence_commands.go and the      *)
(* projections of both in internal/repository/projection.go).              *)
(*                                                                         *)
(* An analysis concludes something on a fact of a subject.  The command    *)
(* that writes one appends and projects it, then reads the other analyses  *)
(* of the fact, then the fact's conflicts, and opens a conflict if there   *)
(* is a disagreement and none is open; nothing ties these steps together.  *)
(* A request stops after its append only where CommandExec says so.        *)
(*                                                                         *)
(* Not here: citation ids, statuses and notes, research logs and proof     *)
(* summaries, which concern one aggregate each.                            *)
(***************************************************************************)
EXTENDS Integers, FiniteSets

CONSTANTS
  Analyses,     \* ids of analyses
  Conflicts,    \* ids of conflicts
  Facts,        \* a fact type of a subject
  Conclusions,  \* what an analysis may conclude
  Slots,        \* request slots
  Settings,     \* the sets of request slots a behaviour may use
  MaxVersion    \* bound: the version no stream passes

\* What is assumed of the constants; the modules that instantiate this one assert it.
SlotsInUse == \A s \in Settings : s \subseteq Slots /\ IsFiniteSet(s)

VARIABLES
  slots,      \* the request slots in use
  analyses,   \* analysis rows: [version, fact, says]
  conflicts,  \* conflict rows: [version, fact, open]
  head,       \* the version of each analysis's and conflict's stream
  unsettled,  \* facts with an analysis written since a conflict was resolved
  req         \* request slots

vars == <<slots, analyses, conflicts, head, unsettled, req>>

Idle  == [pc |-> "idle"]
NoRow == [version |-> 0]
Exists(row) == row.version > 0

Init ==
  /\ slots \in Settings
  /\ analyses = [a \in Analyses |-> NoRow]
  /\ conflicts = [k \in Conflicts |-> NoRow]
  /\ head = [i \in Analyses \union Conflicts |-> 0]
  /\ unsettled = {}
  /\ req = [r \in Slots |-> Idle]

-----------------------------------------------------------------------------
Decide(r, do, stream, expected, row) ==
  /\ req[r] = Idle
  /\ req' = [req EXCEPT ![r] = [pc |-> "append", do |-> do, stream |-> stream,
                                expected |-> expected, row |-> row]]
  /\ UNCHANGED <<analyses, conflicts, head, unsettled>>

\* The id is new, so no other request has it.
Fresh(i) == head[i] = 0 /\ \A q \in Slots : req[q] # Idle => req[q].stream # i

Row(version, fact, says) == [version |-> version, fact |-> fact, says |-> says]

CreateEvidenceAnalysis(r) ==
  \E a \in Analyses, f \in Facts, c \in Conclusions :
    Fresh(a) /\ Decide(r, "write", a, -1, Row(1, f, c))

\* Either field may keep its value.
UpdateEvidenceAnalysis(r) ==
  \E a \in Analyses, f \in Facts, c \in Conclusions :
    /\ Exists(analyses[a])
    /\ Decide(r, "write", a, analyses[a].version, Row(analyses[a].version + 1, f, c))

DeleteEvidenceAnalysis(r) ==
  \E a \in Analyses :
    Exists(analyses[a]) /\ Decide(r, "delete", a, analyses[a].version, NoRow)

\* A conflict may be resolved again, and nobody looks at the analyses.
ResolveEvidenceConflict(r) ==
  \E k \in Conflicts :
    /\ Exists(conflicts[k])
    /\ Decide(r, "resolve", k, conflicts[k].version,
              [conflicts[k] EXCEPT !.version = @ + 1, !.open = FALSE])

AppendEvent(r) ==
  LET q == req[r]
      accepted == q.expected < 0 \/ q.expected = head[q.stream]
  IN  /\ q.pc = "append"
      /\ accepted => head[q.stream] < MaxVersion
      /\ IF accepted
         THEN head' = [head EXCEPT ![q.stream] = @ + 1] /\ req' = [req EXCEPT ![r].pc = "project"]
         ELSE UNCHANGED head /\ req' = [req EXCEPT ![r] = Idle]
      /\ UNCHANGED <<analyses, conflicts, unsettled>>

-----------------------------------------------------------------------------
(* Projections.  An analysis written is then compared with the others.     *)

ProjectAnalysis(r) ==
  LET q == req[r] IN
  /\ q.pc = "project" /\ q.do = "write"
  /\ analyses' = IF q.expected < 0 \/ Exists(analyses[q.stream])
                 THEN [analyses EXCEPT ![q.stream] = q.row] ELSE analyses
  /\ req' = [req EXCEPT ![r].pc = "compare"]
  /\ unsettled' = unsettled \union {q.row.fact}
  /\ UNCHANGED <<conflicts, head>>

ProjectDelete(r) ==
  /\ req[r].pc = "project" /\ req[r].do = "delete"
  /\ analyses' = [analyses EXCEPT ![req[r].stream] = NoRow]
  /\ req' = [req EXCEPT ![r] = Idle]
  /\ UNCHANGED <<conflicts, head, unsettled>>

ProjectResolved(r) ==
  LET q == req[r] IN
  /\ q.pc = "project" /\ q.do = "resolve"
  /\ conflicts' = [conflicts EXCEPT ![q.stream] = q.row]
  /\ unsettled' = unsettled \ {q.row.fact}
  /\ req' = [req EXCEPT ![r] = Idle]
  /\ UNCHANGED <<analyses, head>>

\* GetAnalysesForFact: those that disagree with what was just written.
Disagreeing(a, row) ==
  {b \in Analyses \ {a} : Exists(analyses[b]) /\ analyses[b].fact = row.fact /\ analyses[b].says # row.says}

Compare(r) ==
  LET q == req[r] IN
  /\ q.pc = "compare"
  /\ req' = [req EXCEPT ![r] = IF Disagreeing(q.stream, q.row) = {} THEN Idle
                               ELSE [q EXCEPT !.pc = "lookup"]]
  /\ UNCHANGED <<analyses, conflicts, head, unsettled>>

OpenOf(f) == {k \in Conflicts : Exists(conflicts[k]) /\ conflicts[k].fact = f /\ conflicts[k].open}

\* Mutant: any conflict of the fact counts, resolved ones too.
KnownAtAll(f) == \E k \in Conflicts : Exists(conflicts[k]) /\ conflicts[k].fact = f

\* GetConflictsForSubject, and the status looked for among them.
AlreadyOpen(f) == OpenOf(f) # {}

LookUpConflict(r) ==
  LET q == req[r] IN
  /\ q.pc = "lookup"
  /\ req' = [req EXCEPT ![r] = IF AlreadyOpen(q.row.fact) THEN Idle ELSE [q EXCEPT !.pc = "open"]]
  /\ UNCHANGED <<analyses, conflicts, head, unsettled>>

\* A stream nobody else knows: append and projection are one step.
OpenConflict(r) ==
  /\ req[r].pc = "open"
  /\ \E k \in Conflicts :
       /\ head[k] = 0
       /\ head' = [head EXCEPT ![k] = 1]
       /\ conflicts' = [conflicts EXCEPT ![k] = [version |-> 1, fact |-> req[r].row.fact, open |-> TRUE]]
  /\ req' = [req EXCEPT ![r] = Idle]
  /\ UNCHANGED <<analyses, unsettled>>

-----------------------------------------------------------------------------
Step(r) ==
  \/ CreateEvidenceAnalysis(r) \/ UpdateEvidenceAnalysis(r) \/ DeleteEvidenceAnalysis(r)
  \/ ResolveEvidenceConflict(r) \/ AppendEvent(r)
  \/ ProjectAnalysis(r) \/ ProjectDelete(r) \/ ProjectResolved(r)
  \/ Compare(r) \/ LookUpConflict(r) \/ OpenConflict(r)

Next == UNCHANGED slots /\ \E r \in slots : Step(r)

Spec == Init /\ [][Next]_vars

-----------------------------------------------------------------------------
(* Properties.                                                             *)

AtRest == \A r \in Slots : req[r] = Idle

(***************************************************************************)
(* However requests race, once none is in flight a disagreement on a fact  *)
(* that was written to since its last resolution has an open conflict      *)
(* (detectEvidenceConflicts); and if requests come one by one, a fact has  *)
(* no two open ones ("Check for existing open conflict to avoid            *)
(* duplicates").                                                           *)
(***************************************************************************)
DisagreementIsOpen ==
  /\ AtRest =>
       \A a \in Analyses :
         /\ Exists(analyses[a]) /\ analyses[a].fact \in unsettled
         /\ Disagreeing(a, analyses[a]) # {}
         => OpenOf(analyses[a].fact) # {}
  /\ Cardinality(slots) = 1 => \A f \in Facts : Cardinality(OpenOf(f)) <= 1
=============================================================================
