---------------------------- MODULE FieldChanges ----------------------------
(***************************************************************************)
(* The fields an update changes, from the command that puts a typed value  *)
(* into an event's Changes (internal/command) to the projection that takes *)
(* it out again by type assertion (internal/repository/projection.go).     *)
(* The projection sees the values the command made when it runs right      *)
(* after the append, and what JSON makes of them when the events are read  *)
(* back from the log: the replay of a branch onto main, and any rebuild.   *)
(*                                                                         *)
(* A behaviour follows one field of one record.  Five kinds of record can  *)
(* be rolled back (internal/query/rollback_queries.go; no route leads to   *)
(* RollbackMedia): a fold of the log of its own says what the field was.   *)
(*                                                                         *)
(* Not here: versions, races and lost projections (CommandExec), validity  *)
(* of the values, what a field's value is derived into (dates, full names, *)
(* partner names), fields no command changes.                              *)
(***************************************************************************)
EXTENDS Integers, Sequences

CONSTANTS
  Kinds,     \* kinds of record followed
  Values,    \* values of a field
  Empty,     \* the value of a field that has none
  MaxLog     \* bound: the events of a record

\* What is assumed of the constants; the modules that instantiate this one assert it.
EmptyApart == Empty \notin Values

VARIABLES
  subject,  \* [kind, field]: what the behaviour follows
  log,      \* the record's events as the log returns them: [type, value]
  row       \* the field in the record's row

vars == <<subject, log, row>>

-----------------------------------------------------------------------------
(* The Go type under which a command puts each field into Changes.         *)

All(type, fields) == [f \in fields |-> type]

\* As in the module TLC, whose definition proofs cannot look into.
f @@ g == [x \in DOMAIN f \union DOMAIN g |-> IF x \in DOMAIN f THEN f[x] ELSE g[x]]

\* UpdatePerson
PersonSends ==
  All("string", {"given_name", "surname", "gender", "birth_date", "birth_place",
                 "death_date", "death_place", "notes", "research_status"})

\* UpdateFamily
FamilySends ==
  All("*uuid", {"partner1_id", "partner2_id"}) @@ All("RelationType", {"relationship_type"})
    @@ All("*GenDate", {"marriage_date"}) @@ All("string", {"marriage_place"})

\* UpdateSource
SourceSends ==
  All("string", {"source_type", "title", "author", "publisher", "publish_date", "url",
                 "repository_name", "collection_name", "call_number", "notes"})

\* UpdateCitation
CitationSends ==
  All("string", {"source_id", "fact_type", "fact_owner_id", "page", "volume", "source_quality",
                 "informant_type", "evidence_type", "quoted_text", "analysis", "template_id"})
    @@ All("map", {"fields"})

\* UpdateNote
NoteSends == All("string", {"text"})

\* UpdateRepository
RepositorySends == All("string", {"name", "notes", "gedcom_xref"}) @@ All("*Address", {"address"})

\* UpdateLDSOrdinance
OrdinanceSends == All("string", {"date", "place", "temple", "status"})

\* UpdateEvidenceAnalysis
AnalysisSends ==
  All("string", {"fact_type", "subject_id", "conclusion", "research_status", "notes"})
    @@ All("[]uuid", {"citation_ids"})

\* UpdateResearchLog
LogSends ==
  All("string", {"subject_id", "subject_type", "repository", "search_description", "outcome", "notes"})
    @@ All("Time", {"search_date"})

\* UpdateProofSummary
SummarySends ==
  All("string", {"fact_type", "subject_id", "conclusion", "argument", "research_status"})
    @@ All("[]uuid", {"analysis_ids"})

\* UpdateAssociation
AssociationSends == All("string", {"role", "phrase", "notes"}) @@ All("[]uuid", {"note_ids"})

\* UpdateMedia
MediaSends ==
  All("string", {"title", "description", "media_type"})
    @@ All("int", {"crop_left", "crop_top", "crop_width", "crop_height"})

\* UpdateSubmitter
SubmitterSends ==
  All("string", {"name", "language"}) @@ All("*Address", {"address"})
    @@ All("[]string", {"phone", "email"}) @@ All("*uuid", {"media_id"})

Sends ==
  [Person |-> PersonSends, Family |-> FamilySends, Source |-> SourceSends, Citation |-> CitationSends,
   Note |-> NoteSends, Repository |-> RepositorySends, LDSOrdinance |-> OrdinanceSends,
   EvidenceAnalysis |-> AnalysisSends, ResearchLog |-> LogSends, ProofSummary |-> SummarySends,
   Association |-> AssociationSends, Media |-> MediaSends, Submitter |-> SubmitterSends]

\* What is assumed of Kinds; the modules that instantiate this one assert it.
KindsKnown == Kinds \subseteq DOMAIN Sends

\* A pointer that is nil is left out of Changes, so only these can be emptied.
\* UpdateFamily sends an empty marriage date as nil.
Emptied(type) ==
  CASE type \in {"string", "map", "[]uuid", "[]string"} -> {[type |-> type, value |-> Empty]}
    [] type = "*GenDate" -> {[type |-> "nil", value |-> Empty]}
    [] OTHER -> {}

\* What JSON gives back for a value of a type.
Decoded(change) ==
  [change EXCEPT !.type =
     CASE @ \in {"*uuid", "RelationType", "Time"} -> "string"
       [] @ \in {"*GenDate", "*Address"} -> "map"
       [] @ \in {"[]uuid", "[]string"} -> "list"
       [] @ = "int" -> "float64"
       [] OTHER -> @]

-----------------------------------------------------------------------------
(* The types from which a projection takes a field's value, by field.      *)

AnyType == {"string", "*uuid", "uuid", "RelationType", "Time", "map", "*GenDate", "*Address", "list",
            "[]uuid", "[]string", "int", "float64", "nil"}

\* projectPersonUpdated
PersonTakes == All({"string"}, DOMAIN PersonSends)

\* projectFamilyUpdated; resolvePartnerChange clears for any other type.
FamilyTakes == All({"string"}, DOMAIN FamilySends)

\* projectSourceUpdated
SourceTakes == All({"string"}, DOMAIN SourceSends)

\* Mutant: ids are taken as ids, only.
CitationTakesIds ==
  [All({"string"}, DOMAIN CitationSends) EXCEPT !["fields"] = AnyType,
     !["source_id"] = {"uuid"}, !["fact_owner_id"] = {"uuid"}]

\* projectCitationUpdated re-encodes the fields, whatever they are.
CitationTakes == [All({"string"}, DOMAIN CitationSends) EXCEPT !["fields"] = AnyType]

\* projectNoteUpdated
NoteTakes == All({"string"}, {"text"})

\* Mutant: the repository's address is taken as the command made it, only.
RepositoryTakesLive == All({"string"}, {"name", "notes", "gedcom_xref"}) @@ All({"*Address", "nil"}, {"address"})

\* projectRepositoryUpdated takes an address as made and as decoded.
RepositoryTakes ==
  All({"string"}, {"name", "notes", "gedcom_xref"}) @@ All({"*Address", "map", "nil"}, {"address"})

\* projectLDSOrdinanceUpdated
OrdinanceTakes == All({"string"}, DOMAIN OrdinanceSends)

\* projectEvidenceAnalysisUpdated re-encodes the list, whatever it is.
AnalysisTakes == [All({"string"}, DOMAIN AnalysisSends) EXCEPT !["citation_ids"] = AnyType]

\* projectResearchLogUpdated
LogTakes == All({"string"}, DOMAIN LogSends)

\* projectProofSummaryUpdated
SummaryTakes == [All({"string"}, DOMAIN SummarySends) EXCEPT !["analysis_ids"] = AnyType]

\* projectAssociationUpdated
AssociationTakes == [All({"string"}, DOMAIN AssociationSends) EXCEPT !["note_ids"] = {"[]uuid"}]

\* projectMediaUpdated
MediaTakes ==
  All({"string"}, {"title", "description", "media_type"})
    @@ All({"int"}, {"crop_left", "crop_top", "crop_width", "crop_height"})

\* projectSubmitterUpdated
SubmitterTakes ==
  All({"string"}, {"name", "language"}) @@ All({"*Address"}, {"address"})
    @@ All({"[]string"}, {"phone", "email"}) @@ All({"*uuid"}, {"media_id"})

Takes ==
  [Person |-> PersonTakes, Family |-> FamilyTakes, Source |-> SourceTakes, Citation |-> CitationTakes,
   Note |-> NoteTakes, Repository |-> RepositoryTakes, LDSOrdinance |-> OrdinanceTakes,
   EvidenceAnalysis |-> AnalysisTakes, ResearchLog |-> LogTakes, ProofSummary |-> SummaryTakes,
   Association |-> AssociationTakes, Media |-> MediaTakes, Submitter |-> SubmitterTakes]

\* resolvePartnerChange: what is not a string clears the partner.
ClearedByOthers == {[kind |-> "Family", field |-> f] : f \in {"partner1_id", "partner2_id"}}

\* Another type is ignored.
Projected(old, change) ==
  IF change.type \in Takes[subject.kind][subject.field] THEN change.value
  ELSE IF subject \in ClearedByOthers THEN Empty
  ELSE old

-----------------------------------------------------------------------------
(* Rollback.                                                               *)

RolledBack == {"Person", "Family", "Source", "Citation", "Media"}

\* What applyEventToState does not take from the creation; a crop is not in it.
Forgotten ==
  {[kind |-> "Person", field |-> "research_status"], [kind |-> "Citation", field |-> "fields"]}
    \union [kind : {"Media"}, field : {"crop_left", "crop_top", "crop_width", "crop_height"}]

\* Those that it states though they are empty.
Stated ==
  [kind : {"Person"}, field : {"given_name", "surname"}]
    \union [kind : {"Source", "Media"}, field : {"title"}]
    \union [kind : {"Citation"}, field : {"source_id", "fact_type", "fact_owner_id"}]

Null == [type |-> "nil", value |-> Empty]

(***************************************************************************)
(* applyEventToState: other fields that the creation leaves empty are not  *)
(* in the state, a value of it is text by now, and a change stands for     *)
(* itself, in the type JSON gave it; a null drops the field.               *)
(***************************************************************************)
StateTo(version) ==
  LET change == log[version] IN
  IF change.type # "created" THEN change
  ELSE IF subject \in Forgotten \/ (change.value = Empty /\ subject \notin Stated) THEN Null
  ELSE [type |-> "string", value |-> change.value]

\* computeStateDiff, for one field: null differs from an empty text.
Differ(current, target) ==
  current.value # target.value \/ (current = Null) # (target = Null)

-----------------------------------------------------------------------------
Init ==
  /\ subject \in UNION {[kind : {k}, field : DOMAIN Sends[k]] : k \in Kinds}
  /\ row \in Values \union {Empty}
  /\ log = <<[type |-> "created", value |-> row]>>

Happens(change) ==
  /\ Len(log) < MaxLog
  /\ log' = Append(log, Decoded(change))
  /\ row' = Projected(row, change)
  /\ UNCHANGED subject

\* A client sets the field; the projection gets the value as the command made it.
Update ==
  \E change \in [type : {Sends[subject.kind][subject.field]}, value : Values]
                  \union Emptied(Sends[subject.kind][subject.field]) :
    Happens(change)

\* A client rolls the record back; a state that does not differ is not written.
Rollback ==
  /\ subject.kind \in RolledBack
  /\ \E version \in 1..(Len(log) - 1) :
       /\ Differ(StateTo(version), StateTo(Len(log)))
       /\ Happens(StateTo(version))

Next == Update \/ Rollback

Spec == Init /\ [][Next]_vars

-----------------------------------------------------------------------------
(* Properties.                                                             *)

\* What a projection of the log from its beginning gives the field, event by event.
Rebuilt(after) ==
  /\ after[1] = log[1].value
  /\ \A n \in 2..Len(log) : after[n] = Projected(after[n - 1], log[n])

RebuiltAs(value) ==
  \E after \in [1..Len(log) -> Values \union {Empty}] : Rebuilt(after) /\ after[Len(log)] = value

\* The fields of which the live projection and a rebuild may not agree.
Exceptions ==
  [kind : {"Family"}, field : DOMAIN FamilySends \ {"marriage_place"}]
    \union [kind : {"ResearchLog"}, field : {"search_date"}]
    \union [kind : {"Association"}, field : {"note_ids"}]
    \union [kind : {"Media"}, field : {"crop_left", "crop_top", "crop_width", "crop_height"}]
    \union [kind : {"Submitter"}, field : {"address", "phone", "email", "media_id"}]

(***************************************************************************)
(* A row is rebuilt from the log as it was left by the live projections    *)
(* ("Projections can be rebuilt from events"), so a branch's replay onto   *)
(* main ends where the branch's row was.  The fields whose types the       *)
(* commands, JSON and the projections do not agree on are excepted.        *)
(***************************************************************************)
RowIsRebuilt == subject \notin Exceptions => RebuiltAs(row)

(***************************************************************************)
(* The row shows what the field's history, folded for a rollback, ends in, *)
(* when it ends in a value: a projection and the rollback service read the *)
(* same changes in the same way.  A null is dropped by the one and ignored *)
(* by the other.                                                           *)
(***************************************************************************)
RowShowsHistory ==
  LET state == StateTo(Len(log))
  IN  subject \notin Exceptions /\ state # Null => row = state.value

(***************************************************************************)
(* Every field's row is rebuilt from the log.                              *)
(***************************************************************************)
RowIsAlwaysRebuilt == RebuiltAs(row)

=============================================================================
