---------------------------- MODULE ApiHandlers -----------------------------
(***************************************************************************)
(* What each operation's handler does between the request and the answer,  *)
(* as data: the refusals before its command, the command's own, how it     *)
(* answers an error, what it writes at which expected version, and what it *)
(* reads back (internal/api/server_strict.go, handlers_evidence.go,        *)
(* branch_handlers.go, snapshot_handlers.go, middleware.go).  Requests     *)
(* runs them.                                                              *)
(*                                                                         *)
(* More causes of a refusal than CommandRefusals has:                      *)
(*   scope      the branch named is not there, or has ended                *)
(*   off        the server has no branches                                 *)
(*   lost       what was written is not there to be read back              *)
(***************************************************************************)
EXTENDS ApiContract, CommandRefusals, FiniteSetsExt

\* A refusal whose answer is written where it is made.
Says(cause, status) == [cause |-> cause, error |-> {}, says |-> status]

Scope(mode) == Refusal("scope", {mode})
Off         == Says("off", 503)
Missing     == Says("gone", 404)
Malformed   == Says("invalid", 400)
Lost        == Refusal("lost", {"ErrNotFound"})
LostRow     == Refusal("lost", {})       \* a nil row: an error, or a panic the server recovers
LostName    == Refusal("lost name", {})  \* the same, of a record within the one named

-----------------------------------------------------------------------------
(* From an error to a status.  A table is read from the top.               *)

Answered(table, error) ==
  LET rows == {k \in DOMAIN table : table[k][1] \in error}
  IN  IF rows = {} THEN 0 ELSE table[Min(rows)][2]

PeopleTable ==
  << <<"ErrPersonNotFound", 404>>, <<"ErrNotFound", 404>>,
     <<"ErrConcurrencyConflict", 409>>, <<"ErrPersonHasFamilies", 409>>,
     <<"ErrFamilyNotFound", 404>>, <<"ErrFamilyHasChildren", 409>>,
     <<"ErrChildAlreadyLinked", 409>>, <<"ErrChildNotInFamily", 400>>,
     <<"ErrCircularAncestry", 409>>, <<"ErrInvalidInput", 400>> >>

SourceTable ==
  << <<"ErrSourceNotFound", 404>>, <<"ErrSourceHasCitations", 409>>,
     <<"ErrCitationNotFound", 404>> >>

\* Mutant: the cases of the sources are forgotten.
ForgetsSources(error) ==
  LET status == Answered(PeopleTable, error)
  IN  IF status = 0 THEN 500 ELSE status

\* The last case is of every error nobody has named.
customErrorHandler(error) ==
  LET status == Answered(PeopleTable \o SourceTable, error)
  IN  IF status = 0 THEN 500 ELSE status

\* What a handler looks for itself: the older ones, and the newer ones.
OldTable == << <<"ErrConcurrencyConflict", 409>>, <<"ErrNotFound", 404>> >>
NotFoundTable == << <<"ErrNotFound", 404>> >>
OwnTable(notFound) ==
  << <<notFound, 404>>, <<"ErrConcurrencyConflict", 409>>, <<"ErrInvalidInput", 400>> >>

handleRollbackErrorStrict ==
  << <<"ErrRollbackInvalidVersion", 400>>, <<"ErrRollbackDeletedEntity", 409>>,
     <<"ErrRollbackNoChanges", 400>>, <<"ErrNoEvents", 404>>, <<"ErrInvalidVersion", 400>> >>

MergeRefusedTable ==
  << <<"ErrMergeConflicts", 409>>, <<"ErrBranchNotActive", 409>>,
     <<"ErrMergeAlreadyClaimed", 409>>, <<"ErrBranchTooLargeToMerge", 409>>,
     <<"ErrMainTooFarAheadToMerge", 409>>, <<"ErrMergeDanglingReference", 409>>,
     <<"ErrUnknownResolution", 400>>, <<"ErrUnsupportedResolution", 400>> >>

\* Mutant: the stale plan is looked for before the partial merge.
StaleFirst ==
  MergeRefusedTable
  \o << <<"ErrMergePlanStale", 409>>, <<"ErrMergePartiallyApplied", 500>>,
        <<"ErrBranchMergeNoteTooLong", 400>>, <<"ErrBranchNotFound", 404>> >>

mergeBranchErrorResponse ==
  MergeRefusedTable
  \o << <<"ErrMergePartiallyApplied", 500>>, <<"ErrMergePlanStale", 409>>,
        <<"ErrBranchMergeNoteTooLong", 400>>, <<"ErrBranchNotFound", 404>> >>

\* Mutant: reads and writes the wrong way round.
resolveBranchScopeTurned(mode, branch) ==
  CASE branch \in {"main", "active"} -> 0
    [] branch = "unknown"            -> 404
    [] branch = "ended"              -> IF mode = "read" THEN 409 ELSE 404

\* The branch a request names: 0 to go on, or a status.
resolveBranchScope(mode, branch) ==
  CASE branch \in {"main", "active"} -> 0
    [] branch = "unknown"            -> 404
    [] branch = "ended"              -> IF mode = "write" THEN 409 ELSE 404

-----------------------------------------------------------------------------
(* The shapes of handlers.                                                 *)

(***************************************************************************)
(* before   refusals before the command, and before a read's answer        *)
(* command  the command's refusals                                         *)
(* own      how its errors are answered, before customErrorHandler is asked*)
(* effect   what the command writes: none, create, update, delete,         *)
(*          direct (a row, past the event store) or batch                  *)
(* expects  the version the append expects: the client's, the one a        *)
(*          `before' read saw, the one the command read, any as long as    *)
(*          it is there, or none                                           *)
(* conflict the sentinel of a refused append                               *)
(* skips    whether the command may have nothing to write                  *)
(* after    refusals after the write, answered by `late'                   *)
(* unread   the status of a first read that fails                          *)
(***************************************************************************)
Handler ==
  [before |-> <<>>, command |-> <<>>, own |-> <<>>, effect |-> "none", expects |-> "none",
   conflict |-> "ErrConcurrencyConflict", skips |-> FALSE, after |-> {}, late |-> <<>>,
   unread |-> 500]

Reads(refusals) == [Handler EXCEPT !.before = refusals]
Writes(effect, expects, command, own) ==
  [Handler EXCEPT !.effect = effect, !.expects = expects, !.command = command, !.own = own]

Creates(command, own) == [Writes("create", "none", command, own) EXCEPT !.after = {Lost}]
Edits(command, own) ==
  [Writes("update", "client", command, own) EXCEPT !.skips = TRUE, !.after = {Lost}]
Deletes(command, own) == Writes("delete", "client", command, own)

\* Rollback reads its entity, looks at the target, and gives the command's result.
RollsBack ==
  [Writes("update", "row", rollbackEntity, handleRollbackErrorStrict) EXCEPT
     !.before = <<Missing, Malformed>>, !.skips = TRUE]

After(refusals, h) == [h EXCEPT !.before = refusals \o @]
Scoped(mode, h)    == After(<<Scope(mode)>>, h)

Histories == Reads(<<Missing>>)
RestorePoints == Reads(<<Missing, Says("unknown", 404)>>)

-----------------------------------------------------------------------------
(* server_strict.go, from the top.                                         *)

AhnentafelHandlers == [GetAhnentafel |-> Reads(<<Malformed, Missing>>)]

\* A bad escape in a path is an error without a sentinel.
BrowseHandlers ==
  [BrowsePlaces |-> Scoped("read", Handler), BrowseSurnames |-> Scoped("read", Handler),
   GetPersonsByPlace |-> Scoped("read", Reads(<<Unnamed("invalid")>>)),
   GetPersonsBySurname |-> Scoped("read", Reads(<<Unnamed("invalid")>>))]

BrowseMoreHandlers ==
  [BrowseCemeteries |-> Handler, GetMapLocations |-> Scoped("read", Handler),
   GetPersonsByCemetery |-> Scoped("read", Reads(<<Unnamed("invalid")>>)),
   GetBrickWalls |-> Handler,
   SetPersonBrickWall |-> After(<<Missing>>, Writes("direct", "none", <<>>, <<>>)),
   ResolvePersonBrickWall |-> After(<<Missing>>, Writes("direct", "none", <<>>, <<>>))]

CitationHandlers ==
  [CreateCitation |-> Creates(CreateCitation, <<>>), GetCitation |-> Reads(<<Missing>>),
   UpdateCitation |-> Edits(UpdateCitation, OldTable),
   DeleteCitation |-> Deletes(DeleteCitation, NotFoundTable)]

TemplateHandlers ==
  [ListCitationTemplates |-> Handler, GetCitationTemplate |-> Reads(<<Says("unknown", 404)>>),
   PreviewCitationTemplate |-> Reads(<<Says("unknown", 404), Malformed>>),
   FormatCitation |-> Reads(<<Missing>>)]

CitationPastHandlers ==
  [GetCitationRestorePoints |-> RestorePoints, RollbackCitation |-> RollsBack]

ExportHandlers ==
  [op \in {"ExportFamilies", "ExportPersons", "ExportTree", "GetExportEstimate", "ExportSources",
           "ExportCitations", "ExportEvents", "ExportAttributes"} |-> Handler]

\* A conflict on a family is answered as a bad request.
FamilyHandlers ==
  [ListFamilies |-> Handler, CreateFamily |-> Scoped("write", Creates(CreateFamily, <<>>)),
   GetFamily |-> Scoped("read", Reads(<<Missing>>)),
   UpdateFamily |-> Scoped("write", Edits(UpdateFamily,
                      << <<"ErrConcurrencyConflict", 400>>, <<"ErrNotFound", 404>> >>)),
   DeleteFamily |-> Scoped("write", After(<<Missing>>,
                      Writes("delete", "seen", DeleteFamily, NotFoundTable)))]

ChildHandlers ==
  [AddChildToFamily |-> Scoped("write", Writes("update", "row", LinkChild, NotFoundTable)),
   RemoveChildFromFamily |-> Scoped("write", Writes("update", "row", UnlinkChild, NotFoundTable))]

FamilyPastHandlers ==
  [GetFamilyGroupSheet |-> Reads(<<Missing>>), GetFamilyHistory |-> Histories,
   GetFamilyRestorePoints |-> RestorePoints, RollbackFamily |-> RollsBack]

\* An import collects the failures of single records and answers 200.
GedcomHandlers ==
  [ExportGedcom |-> Reads(<<Malformed>>), PreviewGedcomExport |-> Reads(<<Malformed>>),
   ImportGedcom |-> After(<<Malformed>>, Writes("batch", "none", <<Malformed>>, <<>>)),
   ListHistory |-> Handler]

MediaHandlers ==
  [DeleteMedia |-> Deletes(DeleteMedia, NotFoundTable), GetMedia |-> Reads(<<Missing>>),
   UpdateMedia |-> [Edits(UpdateMedia, OldTable) EXCEPT !.after = {Says("lost", 404)}]]

\* A picture may have no thumbnail.
FileHandlers ==
  [DownloadMedia |-> Reads(<<Missing>>),
   GetMediaThumbnail |-> Reads(<<Missing, Says("unknown", 404)>>)]

TreeHandlers ==
  [GetPedigree |-> Scoped("read", Reads(<<Missing>>)), GetDescendancy |-> Reads(<<Missing>>)]

\* A list's sort order is looked at before its branch.  CreatePerson goes on to
\* AddName, whose error it drops: no status depends on it.
PersonsHandlers ==
  [ListPersons |-> After(<<Malformed>>, Scoped("read", Handler)),
   CreatePerson |-> Scoped("write", Creates(CreatePerson, <<>>))]

\* A deletion is at the version its own read saw.
PersonHandlers ==
  [GetPerson |-> Scoped("read", Reads(<<Missing>>)),
   UpdatePerson |-> Scoped("write", Edits(UpdatePerson, OldTable)),
   DeletePerson |-> Scoped("write", After(<<Missing>>,
                      Writes("delete", "seen", DeletePerson, NotFoundTable)))]

\* The citations of a person are listed without a look at the person.
PersonsOwnHandlers ==
  [GetCitationsForPerson |-> Handler, GetPersonHistory |-> Histories,
   ListPersonMedia |-> Reads(<<Missing>>),
   UploadPersonMedia |->
     [Creates(UploadMedia, <<>>) EXCEPT
        !.before = <<Says("unknown", 404), Malformed>>, !.after = {LostRow}]]

NameHandlers ==
  [GetPersonNames |-> Scoped("read", Handler),
   AddPersonName |-> Scoped("write", [Writes("update", "row", AddName, NotFoundTable) EXCEPT
                                        !.after = {LostName}]),
   UpdatePersonName |-> Scoped("write", [Writes("update", "row", UpdateName, NotFoundTable) EXCEPT
                                           !.after = {LostName}]),
   DeletePersonName |-> Scoped("write", Writes("update", "row", DeleteName, NotFoundTable))]

PersonPastHandlers ==
  [GetPersonRestorePoints |-> RestorePoints, RollbackPerson |-> RollsBack]

QualityHandlers ==
  [GetQualityOverview |-> Handler, GetPersonQuality |-> Reads(<<Missing>>),
   GetDiscoveryFeed |-> Handler, GetQualityReport |-> Handler, GetValidationIssues |-> Handler]

DuplicateHandlers ==
  [GetPersonsDuplicates |-> Handler,
   MergePersons |->
     [Writes("update", "client", MergePersons,
        << <<"ErrSamePersonMerge", 400>>, <<"ErrPersonNotFound", 404>>,
           <<"ErrConcurrencyConflict", 409>>, <<"ErrCircularMerge", 409>>,
           <<"ErrChildFamilyConflict", 409>> >>) EXCEPT !.after = {Lost}],
   DismissDuplicate |-> Reads(<<Missing, Says("unknown", 404)>>)]

\* A batch answers 200 with a result per item.
BatchHandlers ==
  [BatchMergePersons |-> After(<<Malformed>>, Writes("batch", "none", <<>>, <<>>)),
   BatchDismissDuplicates |-> Reads(<<Malformed>>)]

SearchHandlers == [SearchPersons |-> Reads(<<Malformed>>)]

SourceHandlers ==
  [ListSources |-> Reads(<<Malformed>>), CreateSource |-> Creates(CreateSource, <<>>),
   SearchSources |-> Reads(<<Malformed>>), GetSource |-> Reads(<<Missing>>),
   UpdateSource |-> Edits(UpdateSource, OldTable),
   DeleteSource |-> Deletes(DeleteSource, NotFoundTable)]

SourcePastHandlers ==
  [GetCitationsForSource |-> Reads(<<Missing>>), GetSourceHistory |-> Histories,
   GetSourceRestorePoints |-> RestorePoints, RollbackSource |-> RollsBack,
   GetStatistics |-> Handler]

\* Either person may be missing.
RelationshipHandlers == [GetRelationship |-> Reads(<<Missing, Says("unknown", 404)>>)]

-----------------------------------------------------------------------------
(* The newer handlers look for the sentinels of their own command.         *)

NoteHandlers ==
  [ListNotes |-> Reads(<<Malformed>>), GetNote |-> Reads(<<Missing>>),
   CreateNote |-> Creates(CreateNote, OwnTable("ErrNoteNotFound")),
   UpdateNote |-> Edits(UpdateNote, OwnTable("ErrNoteNotFound")),
   DeleteNote |-> Deletes(DeleteNote, OwnTable("ErrNoteNotFound"))]

SubmitterHandlers ==
  [ListSubmitters |-> Reads(<<Malformed>>), GetSubmitter |-> Reads(<<Missing>>),
   CreateSubmitter |-> Creates(CreateSubmitter, OwnTable("ErrSubmitterNotFound")),
   UpdateSubmitter |-> Edits(UpdateSubmitter, OwnTable("ErrSubmitterNotFound")),
   DeleteSubmitter |-> Deletes(DeleteSubmitter, OwnTable("ErrSubmitterNotFound"))]

RepositoryHandlers ==
  [ListRepositories |-> Reads(<<Malformed>>), GetRepository |-> Reads(<<Missing>>),
   CreateRepository |-> Creates(CreateRepository, OwnTable("ErrRepositoryNotFound")),
   UpdateRepository |-> Edits(UpdateRepository, OwnTable("ErrRepositoryNotFound")),
   DeleteRepository |-> Deletes(DeleteRepository, OwnTable("ErrRepositoryNotFound"))]

\* Reading an association back gives a nil row, not an error; any error of a
\* first read is answered as a missing record.
AssociationHandlers ==
  [ListAssociations |-> Reads(<<Malformed>>),
   GetAssociation |-> [Reads(<<Missing>>) EXCEPT !.unread = 404],
   CreateAssociation |->
     [Creates(CreateAssociation, OwnTable("ErrAssociationNotFound")) EXCEPT !.after = {LostRow}],
   UpdateAssociation |->
     [Edits(UpdateAssociation, OwnTable("ErrAssociationNotFound")) EXCEPT !.after = {LostRow}],
   DeleteAssociation |-> Deletes(DeleteAssociation, OwnTable("ErrAssociationNotFound")),
   ListAssociationsForPerson |-> [Reads(<<Missing>>) EXCEPT !.unread = 404]]

OrdinanceHandlers ==
  [ListLDSOrdinances |-> Reads(<<Malformed>>), GetLDSOrdinance |-> Reads(<<Missing>>),
   CreateLDSOrdinance |-> Creates(CreateLDSOrdinance, OwnTable("ErrLDSOrdinanceNotFound")),
   UpdateLDSOrdinance |-> Edits(UpdateLDSOrdinance, OwnTable("ErrLDSOrdinanceNotFound")),
   DeleteLDSOrdinance |-> Deletes(DeleteLDSOrdinance, OwnTable("ErrLDSOrdinanceNotFound"))]

OrdinanceListHandlers ==
  [ListLDSOrdinancesForPerson |-> Reads(<<Missing>>),
   ListLDSOrdinancesForFamily |-> Reads(<<Missing>>)]

\* handlers_evidence.go.
AnalysisHandlers ==
  [ListEvidenceAnalyses |-> Reads(<<Malformed>>), GetEvidenceAnalysis |-> Reads(<<Missing>>),
   CreateEvidenceAnalysis |->
     Creates(CreateEvidenceAnalysis, OwnTable("ErrEvidenceAnalysisNotFound")),
   UpdateEvidenceAnalysis |->
     Edits(UpdateEvidenceAnalysis, OwnTable("ErrEvidenceAnalysisNotFound")),
   DeleteEvidenceAnalysis |->
     Deletes(DeleteEvidenceAnalysis, OwnTable("ErrEvidenceAnalysisNotFound")),
   GetAnalysesByFact |-> Handler]

ConflictHandlers ==
  [ListEvidenceConflicts |-> Handler, GetEvidenceConflict |-> Reads(<<Missing>>),
   ResolveEvidenceConflict |->
     [Edits(ResolveEvidenceConflict, OwnTable("ErrEvidenceConflictNotFound")) EXCEPT
        !.skips = FALSE],
   GetConflictsBySubject |-> Handler]

LogHandlers ==
  [ListResearchLogs |-> Reads(<<Malformed>>), GetResearchLog |-> Reads(<<Missing>>),
   CreateResearchLog |-> Creates(CreateResearchLog, OwnTable("ErrResearchLogNotFound")),
   UpdateResearchLog |-> Edits(UpdateResearchLog, OwnTable("ErrResearchLogNotFound")),
   DeleteResearchLog |-> Deletes(DeleteResearchLog, OwnTable("ErrResearchLogNotFound")),
   GetResearchLogsBySubject |-> Handler]

SummaryHandlers ==
  [ListProofSummaries |-> Reads(<<Malformed>>), GetProofSummary |-> Reads(<<Missing>>),
   CreateProofSummary |-> Creates(CreateProofSummary, OwnTable("ErrProofSummaryNotFound")),
   UpdateProofSummary |-> Edits(UpdateProofSummary, OwnTable("ErrProofSummaryNotFound")),
   DeleteProofSummary |-> Deletes(DeleteProofSummary, OwnTable("ErrProofSummaryNotFound")),
   GetProofSummaryByFact |-> Handler]

-----------------------------------------------------------------------------
(* branch_handlers.go, snapshot_handlers.go.                               *)

BranchHandlers ==
  [ListBranches |-> Reads(<<Off>>), GetBranch |-> Reads(<<Off, Missing>>),
   CompareBranch |-> Reads(<<Off, Missing>>),
   CreateBranch |->
     [Creates(CreateBranch, << <<"ErrBranchNameRequired", 400>>, <<"ErrBranchNameTooLong", 400>>,
                               <<"ErrBranchDescTooLong", 400>> >>) EXCEPT
        !.before = <<Off, Malformed>>, !.after = {}],
   DeleteBranch |->
     After(<<Off>>, Writes("update", "row", DeleteBranch,
                      << <<"ErrBranchNotFound", 404>>, <<"ErrBranchNotActive", 409>> >>))]

\* Everything the command returns goes through the one table, also what it
\* returns after it has written.
MergeHandlers ==
  [MergeBranch |->
     [Writes("update", "row", MergeBranch, mergeBranchErrorResponse) EXCEPT
        !.before = <<Off, Malformed>>, !.conflict = "ErrMergeAlreadyClaimed",
        !.after = replayOntoMain, !.late = mergeBranchErrorResponse]]

SnapshotTable == << <<"ErrSnapshotNotFound", 404>> >>

\* The store deletes a snapshot and says whether it was there.
SnapshotHandlers ==
  [ListSnapshots |-> Handler, GetSnapshot |-> Reads(<<Missing>>),
   CreateSnapshot |->
     [Creates(CreateSnapshot, << <<"ErrSnapshotNameRequired", 400>>,
                                 <<"ErrSnapshotNameTooLong", 400>>,
                                 <<"ErrSnapshotDescTooLong", 400>> >>) EXCEPT
        !.before = <<Malformed>>, !.after = {}],
   DeleteSnapshot |->
     [Writes("delete", "there", <<>>, SnapshotTable) EXCEPT !.conflict = "ErrSnapshotNotFound"],
   CompareSnapshots |-> Reads(<<Missing, Says("unknown", 404)>>)]

-----------------------------------------------------------------------------
Handlers ==
  AhnentafelHandlers @@ BrowseHandlers @@ BrowseMoreHandlers @@ CitationHandlers
  @@ TemplateHandlers @@ CitationPastHandlers @@ ExportHandlers @@ FamilyHandlers
  @@ ChildHandlers @@ FamilyPastHandlers @@ GedcomHandlers @@ MediaHandlers @@ FileHandlers
  @@ TreeHandlers @@ PersonsHandlers @@ PersonHandlers @@ PersonsOwnHandlers @@ NameHandlers
  @@ PersonPastHandlers @@ QualityHandlers @@ DuplicateHandlers @@ BatchHandlers
  @@ SearchHandlers @@ SourceHandlers @@ SourcePastHandlers @@ RelationshipHandlers
  @@ NoteHandlers @@ SubmitterHandlers @@ RepositoryHandlers @@ AssociationHandlers
  @@ OrdinanceHandlers @@ OrdinanceListHandlers @@ AnalysisHandlers @@ ConflictHandlers
  @@ LogHandlers @@ SummaryHandlers @@ BranchHandlers @@ MergeHandlers @@ SnapshotHandlers
=============================================================================
