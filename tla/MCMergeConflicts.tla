-------------------------- MODULE MCMergeConflicts --------------------------
(***************************************************************************)
(* The conflict verdict against what it is for.  The two sides of a fork   *)
(* are grown event by event: every pair of histories of one shared family, *)
(* and of an entity each side creates, up to the two bounds.               *)
(*                                                                         *)
(* A side writes an aggregate only while it has it: nothing follows a      *)
(* delete, and only its creator can know a created aggregate.              *)
(***************************************************************************)
EXTENDS MergeConflicts

CONSTANTS
  Shared,       \* an aggregate that exists on main at the fork
  BranchNew,    \* an aggregate the branch may create
  MainNew,      \* an aggregate main may create
  Xref,         \* a GEDCOM xref
  MaxBranch,    \* bound: events on the branch's side
  MaxMain       \* bound: events on main's side

VARIABLES branchEvents, mainEvents

vars == <<branchEvents, mainEvents>>

Edits ==
  {[type |-> "Updated", changes |-> c] :
     c \in [{"date"} -> {"1", "2"}] \union [{"date", "place"} -> {"2"}]}
  \union {[type |-> t, child |-> "ann"] : t \in {"ChildLinked", "ChildUnlinked"}}
  \union {[type |-> "NameSet", name |-> "n", value |-> v] : v \in {"x"}}
  \union {[type |-> "NameRemoved", name |-> "n"]}

Creations == {[type |-> "Created", xref |-> x] : x \in {NoXref, Xref}}

Deletes == {[type |-> "Deleted"]}

\* What a side that wrote `events' may write next to s.
Writes(events, s, own) ==
  IF Side(events, s).deleted THEN {}
  ELSE IF s = Shared \/ (s = own /\ Touches(events, s)) THEN Edits \union Deletes
  ELSE IF s = own THEN Creations
  ELSE {}

Grow(events, own) ==
  UNION {{Append(events, [stream |-> s, body |-> body]) : body \in Writes(events, s, own)} :
           s \in {Shared, own}}

\* MergePersons is main-only: a branch may not write PersonMerged.
PersonMerges ==
  {[type |-> "PersonMerged", resolved |-> c] : c \in [{"date"} -> {"1", "2"}]}

Init == branchEvents = <<>> /\ mainEvents = <<>>

Next ==
  \/ /\ Len(branchEvents) < MaxBranch
     /\ branchEvents' \in Grow(branchEvents, BranchNew)
     /\ UNCHANGED mainEvents
  \/ /\ Len(mainEvents) < MaxMain
     /\ mainEvents' \in Grow(mainEvents, MainNew)
     /\ UNCHANGED branchEvents
  \/ /\ Len(mainEvents) < MaxMain
     /\ ~Side(mainEvents, Shared).deleted
     /\ \E body \in PersonMerges :
          mainEvents' = Append(mainEvents, [stream |-> Shared, body |-> body])
     /\ UNCHANGED branchEvents

Spec == Init /\ [][Next]_vars

-----------------------------------------------------------------------------
(* What an aggregate looks like after a history, one event at a time: this *)
(* is the projection's view, which knows nothing of sides.                 *)

Written(body) ==
  IF body.type = "PersonMerged" THEN Tagged(body.resolved) ELSE Asserted(body)

Apply(row, body) ==
  CASE body.type = "Deleted" -> [exists |-> FALSE, fields |-> <<>>]
    [] body.type = "Created" -> [exists |-> TRUE, fields |-> <<>>]
    [] OTHER -> IF row.exists THEN [row EXCEPT !.fields = Written(body) @@ @] ELSE row

Row(events, s) ==
  FoldLeft(LAMBDA row, e : Apply(row, e.body),
           [exists |-> s = Shared, fields |-> <<>>],
           SelectSeq(events, LAMBDA e : e.stream = s))

MainSeen == SelectSeq(mainEvents, LAMBDA e : e.stream \in StreamsOf(branchEvents))
MainTail == IF NeedsCreateTail(branchEvents) THEN mainEvents ELSE <<>>
Verdict  == ClassifyConflicts(branchEvents, MainSeen, MainTail)
ConflictsOn(s) == {c \in Verdict : c.stream = s}

(***************************************************************************)
(* The verdict does not read PersonMerged, which writes the survivor's     *)
(* fields; on a survivor it is no judge of what commutes.                  *)
(***************************************************************************)
Survivors == {e.stream : e \in {x \in EventsOf(mainEvents) : x.body.type = "PersonMerged"}}

(***************************************************************************)
(* A stream the verdict calls clean merges the same in either order: the   *)
(* branch's events on top of main's give the row main's on top of the      *)
(* branch's would, so neither side's final word is overwritten.            *)
(***************************************************************************)
CleanStreamsCommute ==
  \A s \in StreamsOf(branchEvents) \ Survivors :
     ConflictsOn(s) = {} =>
       Row(mainEvents \o branchEvents, s) = Row(branchEvents \o mainEvents, s)

(***************************************************************************)
(* An edit conflict is real: the two orders leave different rows.  No      *)
(* merge is held up by edits that would have met.  (A delete against an    *)
(* edit is always reported, whichever order wins.)                         *)
(***************************************************************************)
EditConflictsAreReal ==
  \A c \in Verdict :
     (c.kind = "edit_edit" /\ c.stream \notin Survivors) =>
       Row(mainEvents \o branchEvents, c.stream) # Row(branchEvents \o mainEvents, c.stream)

(***************************************************************************)
(* Every resolution offered does what it says: "branch" leaves main with   *)
(* the branch's final word on every field it touched, and gone if the      *)
(* branch deleted it.                                                      *)
(***************************************************************************)
OfferedIsEffective ==
  \A c \in Verdict :
     "branch" \in c.supported =>
       LET merged == Row(mainEvents \o branchEvents, c.stream)
           branch == Side(branchEvents, c.stream)
       IN  /\ merged.exists = ~branch.deleted
           /\ ~branch.deleted =>
                \A f \in DOMAIN branch.fields : merged.fields[f] = branch.fields[f]

(***************************************************************************)
(* A merge never leaves two entities with one GEDCOM xref: when each side  *)
(* created one with the same xref, the branch's is reported and only       *)
(* "main" is offered, however either side went on.  In this version only   *)
(* an import assigns xrefs and none is made on a branch, so the rule waits *)
(* for its first use (readMainCreateTail).                                 *)
(***************************************************************************)
XrefsStayUnique ==
  (/\ XrefOf(branchEvents, BranchNew) = Xref
   /\ XrefOf(mainEvents, MainNew) = Xref)
     => \E c \in Verdict : c.stream = BranchNew /\ c.supported = {"main"}

=============================================================================
