--------------------------- MODULE MergeConflicts ---------------------------
(***************************************************************************)
(* The conflict verdict of a branch merge                                  *)
(* (internal/query/merge_conflicts.go): a pure function over the branch's  *)
(* own events and main's events after the fork.                            *)
(*                                                                         *)
(* An event's `body' is its payload, one of                                *)
(*   [type |-> "Created", xref |-> a GEDCOM xref or NoXref]                *)
(*   [type |-> "Updated", changes |-> a function from fields to values]    *)
(*   [type |-> "Deleted"]                                                  *)
(*   [type |-> "ChildLinked" or "ChildUnlinked", child |-> a person]       *)
(*   [type |-> "NameSet", name |-> an id, value |-> the name's fields]     *)
(*   [type |-> "NameRemoved", name |-> an id]                              *)
(*   [type |-> "PersonMerged", resolved |-> like changes], on main only    *)
(* "Updated" and "Deleted" stand for every <Entity>Updated and             *)
(* <Entity>Deleted, "NameSet" for NameAdded and NameUpdated, which the     *)
(* code folds alike.  Events always decode: the store only holds what the  *)
(* handler encoded.  The wording of a conflict is left out.                *)
(***************************************************************************)
EXTENDS EventLog, SequencesExt

CONSTANT NoXref   \* a Created event without a GEDCOM xref

\* A changes map with its fields tagged.
Tagged(changes) ==
  [f \in {<<"field", g>> : g \in DOMAIN changes} |-> changes[f[2]]]

(***************************************************************************)
(* The values an event asserts, by field.  Fields are tagged so that a     *)
(* child link, a name and a plain field never coincide.  A PersonMerged    *)
(* asserts nothing here: conflictFoldFor ignores every type it does not    *)
(* name, though the projection applies its resolved fields.                *)
(***************************************************************************)
Asserted(body) ==
  CASE body.type = "ChildLinked"   -> <<"children", body.child>> :> "linked"
    [] body.type = "ChildUnlinked" -> <<"children", body.child>> :> "unlinked"
    [] body.type = "NameSet"       -> <<"names", body.name>> :> body.value
    [] body.type = "NameRemoved"   -> <<"names", body.name>> :> "removed"
    [] body.type = "Updated"       -> Tagged(body.changes)
    [] OTHER                       -> <<>>

\* Mutant: the first assertion of a field wins, not the last.
FoldKeepingFirst(fields, body) == fields @@ Asserted(body)

\* One event folded into the fields asserted so far.
FoldFields(fields, body) == Asserted(body) @@ fields

\* The final value of each field that a stream's events touch.
FinalFields(own) == FoldLeft(LAMBDA fields, e : FoldFields(fields, e.body), <<>>, own)

(***************************************************************************)
(* A side's net effect on one aggregate: whether it deleted it, and the    *)
(* final value of each field it touched.                                   *)
(***************************************************************************)
Side(events, s) ==
  LET own == OnStream(events, s)
  IN  [deleted |-> \E i \in DOMAIN own : own[i].body.type = "Deleted",
       fields  |-> FinalFields(own)]

Touches(events, s) == \E i \in DOMAIN events : events[i].stream = s

StreamsOf(events) == {events[i].stream : i \in DOMAIN events}

\* Mutant: a field is compared even when only one side touched it.
DivergentOrLone(branchFields, mainFields) ==
  {f \in DOMAIN branchFields :
     f \notin DOMAIN mainFields \/ branchFields[f] # mainFields[f]}

\* The fields both sides touched and left at different values.
DivergentFields(branchFields, mainFields) ==
  {f \in DOMAIN branchFields \intersect DOMAIN mainFields :
     branchFields[f] # mainFields[f]}

Conflict(s, kind, fields, supported) ==
  [stream |-> s, kind |-> kind, fields |-> fields, supported |-> supported]

Both == {"branch", "main"}

\* Mutant: "branch" is offered whoever deleted.
ClassifyOfferingBoth(s, branchEvents, mainEvents) ==
  LET branch == Side(branchEvents, s)
      main   == Side(mainEvents, s)
      fields == DivergentFields(branch.fields, main.fields)
  IN  IF ~Touches(mainEvents, s) THEN {}
      ELSE IF branch.deleted # main.deleted THEN {Conflict(s, "delete_edit", {}, Both)}
      ELSE IF branch.deleted \/ fields = {} THEN {}
      ELSE {Conflict(s, "edit_edit", fields, Both)}

(***************************************************************************)
(* Delete-vs-edit and edit-vs-edit on one aggregate, as a set of at most   *)
(* one conflict.  When main deleted, only "main" is offered: the branch's  *)
(* edits cannot be replayed onto an entity that is gone.                   *)
(***************************************************************************)
ClassifyStream(s, branchEvents, mainEvents) ==
  LET branch == Side(branchEvents, s)
      main   == Side(mainEvents, s)
      fields == DivergentFields(branch.fields, main.fields)
  IN  IF ~Touches(mainEvents, s) THEN {}
      ELSE IF branch.deleted # main.deleted
           THEN {Conflict(s, "delete_edit", {}, IF main.deleted THEN {"main"} ELSE Both)}
      ELSE IF branch.deleted \/ fields = {} THEN {}
      ELSE {Conflict(s, "edit_edit", fields, Both)}

\* The creations of `events' that carry an xref, oldest first.
XrefCreations(events) ==
  OnlyIn(events, {e \in EventsOf(events) : e.body.type = "Created" /\ e.body.xref # NoXref})

\* The xref a stream was created with on this side: the first one counts.
XrefOf(events, s) ==
  LET created == OnStream(XrefCreations(events), s)
  IN  IF created = <<>> THEN NoXref ELSE created[1].body.xref

\* The streams that claimed an xref on this side: the first one, or none.
OwnerOf(events, xref) ==
  LET creations == XrefCreations(events)
      claims    == OnlyIn(creations, {e \in EventsOf(creations) : e.body.xref = xref})
  IN  IF claims = <<>> THEN {} ELSE {claims[1].stream}

\* Mutant: only the branch's own stream is taken for a claimant.
CollisionWithItself(s, branchEvents, mainTail) ==
  LET xref == XrefOf(branchEvents, s)
  IN  IF xref # NoXref /\ OwnerOf(mainTail, xref) = {s}
      THEN {Conflict(s, "create_create", {}, {"main"})}
      ELSE {}

\* Create-vs-create: another aggregate on main already claimed the xref.
ClassifyCreateCollision(s, branchEvents, mainTail) ==
  LET xref == XrefOf(branchEvents, s)
  IN  IF xref # NoXref /\ OwnerOf(mainTail, xref) \ {s} # {}
      THEN {Conflict(s, "create_create", {}, {"main"})}
      ELSE {}

(***************************************************************************)
(* At most one conflict per stream the branch touched; the create          *)
(* collision is looked for only when the stream itself is clean.           *)
(***************************************************************************)
ClassifyConflicts(branchEvents, mainEvents, mainTail) ==
  UNION {LET own == ClassifyStream(s, branchEvents, mainEvents)
         IN  IF own # {} THEN own ELSE ClassifyCreateCollision(s, branchEvents, mainTail) :
         s \in StreamsOf(branchEvents)}

(***************************************************************************)
(* Main's tail is read for create collisions only when the branch created  *)
(* an entity with an xref.                                                 *)
(***************************************************************************)
NeedsCreateTail(branchEvents) == XrefCreations(branchEvents) # <<>>

=============================================================================
