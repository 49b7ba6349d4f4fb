---------------------------- MODULE ApiContract -----------------------------
(***************************************************************************)
(* What internal/api/generated.go, generated from the OpenAPI document,    *)
(* says of each operation: the statuses it may answer with, and the        *)
(* refusals it makes itself before the operation's handler is called.      *)
(*                                                                         *)
(* The bodies of the answers are left out, and so is the refusal of a      *)
(* content type.                                                           *)
(***************************************************************************)
EXTENDS Integers, TLC

-----------------------------------------------------------------------------
(* The types a handler's answer can have: one status each.                 *)

AhnentafelAnswers ==
  [GetAhnentafel |-> {200, 400, 404}]
DiscoveryAnswers ==
  [GetDiscoveryFeed |-> {200}]
AssociationAnswers ==
  [ListAssociations |-> {200, 400}, CreateAssociation |-> {201, 400},
   DeleteAssociation |-> {204, 400, 404, 409}, GetAssociation |-> {200, 404},
   UpdateAssociation |-> {200, 400, 404, 409}]
BranchAnswers ==
  [ListBranches |-> {200, 503}, CreateBranch |-> {201, 400, 503},
   DeleteBranch |-> {204, 404, 409, 503}, GetBranch |-> {200, 404, 503},
   CompareBranch |-> {200, 404, 503}, MergeBranch |-> {200, 400, 404, 409, 500, 503}]
BrowseAnswers ==
  [GetBrickWalls |-> {200}, BrowseCemeteries |-> {200},
   GetPersonsByCemetery |-> {200}, BrowsePlaces |-> {200},
   GetPersonsByPlace |-> {200}, BrowseSurnames |-> {200},
   GetPersonsBySurname |-> {200}]
TemplateAnswers ==
  [ListCitationTemplates |-> {200}, GetCitationTemplate |-> {200, 404},
   PreviewCitationTemplate |-> {200, 400, 404}]
CitationAnswers ==
  [CreateCitation |-> {201, 400, 404}, DeleteCitation |-> {204, 400, 404, 409},
   GetCitation |-> {200, 404}, UpdateCitation |-> {200, 400, 404, 409}]
CitationPastAnswers ==
  [FormatCitation |-> {200, 404}, GetCitationRestorePoints |-> {200, 404},
   RollbackCitation |-> {200, 400, 404, 409}]
DescendancyAnswers ==
  [GetDescendancy |-> {200, 404}]
AnalysisAnswers ==
  [ListEvidenceAnalyses |-> {200, 400}, CreateEvidenceAnalysis |-> {201, 400},
   GetAnalysesByFact |-> {200, 400}, DeleteEvidenceAnalysis |-> {204, 400, 404, 409},
   GetEvidenceAnalysis |-> {200, 404},
   UpdateEvidenceAnalysis |-> {200, 400, 404, 409}]
ConflictAnswers ==
  [ListEvidenceConflicts |-> {200, 400}, GetConflictsBySubject |-> {200},
   GetEvidenceConflict |-> {200, 404},
   ResolveEvidenceConflict |-> {200, 400, 404, 409}]
ExportAnswers ==
  [ExportAttributes |-> {200}, ExportCitations |-> {200},
   GetExportEstimate |-> {200}, ExportEvents |-> {200}, ExportFamilies |-> {200},
   ExportPersons |-> {200}, ExportSources |-> {200}, ExportTree |-> {200}]
FamilyAnswers ==
  [ListFamilies |-> {200}, CreateFamily |-> {201, 400, 404, 409},
   DeleteFamily |-> {204, 404, 409}, GetFamily |-> {200, 404},
   UpdateFamily |-> {200, 400, 404, 409}]
ChildAnswers ==
  [AddChildToFamily |-> {201, 400, 404, 409},
   RemoveChildFromFamily |-> {204, 404, 409}]
FamilyPastAnswers ==
  [GetFamilyGroupSheet |-> {200, 404}, GetFamilyHistory |-> {200, 404},
   ListLDSOrdinancesForFamily |-> {200, 404}, GetFamilyRestorePoints |-> {200, 404},
   RollbackFamily |-> {200, 400, 404, 409}]
GedcomAnswers ==
  [ExportGedcom |-> {200, 400}, PreviewGedcomExport |-> {200, 400},
   ImportGedcom |-> {200, 400}]
HistoryAnswers ==
  [ListHistory |-> {200, 400}]
OrdinanceAnswers ==
  [ListLDSOrdinances |-> {200, 400}, CreateLDSOrdinance |-> {201, 400},
   DeleteLDSOrdinance |-> {204, 400, 404, 409}, GetLDSOrdinance |-> {200, 404},
   UpdateLDSOrdinance |-> {200, 400, 404, 409}]
MapAnswers ==
  [GetMapLocations |-> {200}]
MediaAnswers ==
  [DeleteMedia |-> {204, 400, 404, 409}, GetMedia |-> {200, 404},
   UpdateMedia |-> {200, 400, 404, 409}]
FileAnswers ==
  [DownloadMedia |-> {200, 404}, GetMediaThumbnail |-> {200, 404}]
NoteAnswers ==
  [ListNotes |-> {200, 400}, CreateNote |-> {201, 400},
   DeleteNote |-> {204, 400, 404, 409}, GetNote |-> {200, 404},
   UpdateNote |-> {200, 400, 404, 409}]
PedigreeAnswers ==
  [GetPedigree |-> {200, 404}]
PersonsAnswers ==
  [ListPersons |-> {200, 400, 404}, CreatePerson |-> {201, 400, 404, 409}]
DuplicateAnswers ==
  [GetPersonsDuplicates |-> {200}, BatchDismissDuplicates |-> {200, 400},
   DismissDuplicate |-> {204, 400, 404}, MergePersons |-> {200, 400, 404, 409},
   BatchMergePersons |-> {200, 400}]
PersonAnswers ==
  [DeletePerson |-> {204, 404, 409}, GetPerson |-> {200, 404},
   UpdatePerson |-> {200, 400, 404, 409}]
PersonsOwnAnswers ==
  [ListAssociationsForPerson |-> {200, 404}, ResolvePersonBrickWall |-> {204, 404},
   SetPersonBrickWall |-> {204, 404}, GetCitationsForPerson |-> {200, 404},
   GetPersonHistory |-> {200, 404}, ListLDSOrdinancesForPerson |-> {200, 404},
   ListPersonMedia |-> {200, 404}, UploadPersonMedia |-> {201, 400, 404, 413}]
NameAnswers ==
  [GetPersonNames |-> {200, 404}, AddPersonName |-> {201, 400, 404, 409},
   DeletePersonName |-> {204, 400, 404, 409},
   UpdatePersonName |-> {200, 400, 404, 409}]
PersonPastAnswers ==
  [GetPersonRestorePoints |-> {200, 404}, RollbackPerson |-> {200, 400, 404, 409}]
SummaryAnswers ==
  [ListProofSummaries |-> {200, 400}, CreateProofSummary |-> {201, 400},
   GetProofSummaryByFact |-> {200, 400}, DeleteProofSummary |-> {204, 400, 404, 409},
   GetProofSummary |-> {200, 404}, UpdateProofSummary |-> {200, 400, 404, 409}]
QualityAnswers ==
  [GetQualityOverview |-> {200}, GetPersonQuality |-> {200, 404},
   GetQualityReport |-> {200}, GetValidationIssues |-> {200}]
RelationshipAnswers ==
  [GetRelationship |-> {200, 404}]
RepositoryAnswers ==
  [ListRepositories |-> {200, 400}, CreateRepository |-> {201, 400},
   DeleteRepository |-> {204, 400, 404, 409}, GetRepository |-> {200, 404},
   UpdateRepository |-> {200, 400, 404, 409}]
LogAnswers ==
  [ListResearchLogs |-> {200, 400}, CreateResearchLog |-> {201, 400},
   GetResearchLogsBySubject |-> {200}, DeleteResearchLog |-> {204, 400, 404, 409},
   GetResearchLog |-> {200, 404}, UpdateResearchLog |-> {200, 400, 404, 409}]
SearchAnswers ==
  [SearchPersons |-> {200, 400}]
SnapshotAnswers ==
  [ListSnapshots |-> {200}, CreateSnapshot |-> {201, 400},
   CompareSnapshots |-> {200, 404}, DeleteSnapshot |-> {204, 404},
   GetSnapshot |-> {200, 404}]
SourceAnswers ==
  [ListSources |-> {200, 400}, CreateSource |-> {201, 400},
   SearchSources |-> {200, 400}, DeleteSource |-> {204, 400, 404, 409},
   GetSource |-> {200, 404}, UpdateSource |-> {200, 400, 404, 409}]
SourcePastAnswers ==
  [GetCitationsForSource |-> {200, 404}, GetSourceHistory |-> {200, 404},
   GetSourceRestorePoints |-> {200, 404}, RollbackSource |-> {200, 400, 404, 409}]
StatisticsAnswers ==
  [GetStatistics |-> {200}]
SubmitterAnswers ==
  [ListSubmitters |-> {200, 400}, CreateSubmitter |-> {201, 400},
   DeleteSubmitter |-> {204, 400, 404, 409}, GetSubmitter |-> {200, 404},
   UpdateSubmitter |-> {200, 400, 404, 409}]

Answers ==
  AhnentafelAnswers @@ DiscoveryAnswers @@ AssociationAnswers @@ BranchAnswers
  @@ BrowseAnswers @@ TemplateAnswers @@ CitationAnswers @@ CitationPastAnswers
  @@ DescendancyAnswers @@ AnalysisAnswers @@ ConflictAnswers @@ ExportAnswers
  @@ FamilyAnswers @@ ChildAnswers @@ FamilyPastAnswers @@ GedcomAnswers
  @@ HistoryAnswers @@ OrdinanceAnswers @@ MapAnswers @@ MediaAnswers @@ FileAnswers
  @@ NoteAnswers @@ PedigreeAnswers @@ PersonsAnswers @@ DuplicateAnswers
  @@ PersonAnswers @@ PersonsOwnAnswers @@ NameAnswers @@ PersonPastAnswers
  @@ SummaryAnswers @@ QualityAnswers @@ RelationshipAnswers @@ RepositoryAnswers
  @@ LogAnswers @@ SearchAnswers @@ SnapshotAnswers @@ SourceAnswers
  @@ SourcePastAnswers @@ StatisticsAnswers @@ SubmitterAnswers

-----------------------------------------------------------------------------
(* The operations with a parameter that may not parse, or be missing: the  *)
(* wrapper answers 400.                                                    *)

AhnentafelParsed ==
  {"GetAhnentafel"}
DiscoveryParsed ==
  {"GetDiscoveryFeed"}
AssociationParsed ==
  {"ListAssociations", "DeleteAssociation", "GetAssociation", "UpdateAssociation"}
BranchParsed ==
  {"DeleteBranch", "GetBranch", "CompareBranch", "MergeBranch"}
BrowseParsed ==
  {"GetBrickWalls", "GetPersonsByCemetery", "BrowsePlaces", "GetPersonsByPlace",
   "BrowseSurnames", "GetPersonsBySurname"}
CitationParsed ==
  {"DeleteCitation", "GetCitation", "UpdateCitation"}
CitationPastParsed ==
  {"FormatCitation", "GetCitationRestorePoints", "RollbackCitation"}
DescendancyParsed ==
  {"GetDescendancy"}
AnalysisParsed ==
  {"ListEvidenceAnalyses", "GetAnalysesByFact", "DeleteEvidenceAnalysis",
   "GetEvidenceAnalysis", "UpdateEvidenceAnalysis"}
ConflictParsed ==
  {"ListEvidenceConflicts", "GetConflictsBySubject", "GetEvidenceConflict",
   "ResolveEvidenceConflict"}
FamilyParsed ==
  {"ListFamilies", "CreateFamily", "DeleteFamily", "GetFamily", "UpdateFamily"}
ChildParsed ==
  {"AddChildToFamily", "RemoveChildFromFamily"}
FamilyPastParsed ==
  {"GetFamilyGroupSheet", "GetFamilyHistory", "ListLDSOrdinancesForFamily",
   "GetFamilyRestorePoints", "RollbackFamily"}
HistoryParsed ==
  {"ListHistory"}
OrdinanceParsed ==
  {"ListLDSOrdinances", "DeleteLDSOrdinance", "GetLDSOrdinance", "UpdateLDSOrdinance"}
MapParsed ==
  {"GetMapLocations"}
MediaParsed ==
  {"DeleteMedia", "GetMedia", "UpdateMedia"}
FileParsed ==
  {"DownloadMedia", "GetMediaThumbnail"}
NoteParsed ==
  {"ListNotes", "DeleteNote", "GetNote", "UpdateNote"}
PedigreeParsed ==
  {"GetPedigree"}
PersonsParsed ==
  {"ListPersons", "CreatePerson"}
DuplicateParsed ==
  {"GetPersonsDuplicates", "DismissDuplicate"}
PersonParsed ==
  {"DeletePerson", "GetPerson", "UpdatePerson"}
PersonsOwnParsed ==
  {"ListAssociationsForPerson", "ResolvePersonBrickWall", "SetPersonBrickWall",
   "GetCitationsForPerson", "GetPersonHistory", "ListLDSOrdinancesForPerson",
   "ListPersonMedia", "UploadPersonMedia"}
NameParsed ==
  {"GetPersonNames", "AddPersonName", "DeletePersonName", "UpdatePersonName"}
PersonPastParsed ==
  {"GetPersonRestorePoints", "RollbackPerson"}
SummaryParsed ==
  {"ListProofSummaries", "GetProofSummaryByFact", "DeleteProofSummary",
   "GetProofSummary", "UpdateProofSummary"}
QualityParsed ==
  {"GetPersonQuality", "GetValidationIssues"}
RelationshipParsed ==
  {"GetRelationship"}
RepositoryParsed ==
  {"ListRepositories", "DeleteRepository", "GetRepository", "UpdateRepository"}
LogParsed ==
  {"ListResearchLogs", "GetResearchLogsBySubject", "DeleteResearchLog",
   "GetResearchLog", "UpdateResearchLog"}
SearchParsed ==
  {"SearchPersons"}
SnapshotParsed ==
  {"CompareSnapshots", "DeleteSnapshot", "GetSnapshot"}
SourceParsed ==
  {"ListSources", "SearchSources", "DeleteSource", "GetSource", "UpdateSource"}
SourcePastParsed ==
  {"GetCitationsForSource", "GetSourceHistory", "GetSourceRestorePoints",
   "RollbackSource"}
SubmitterParsed ==
  {"ListSubmitters", "DeleteSubmitter", "GetSubmitter", "UpdateSubmitter"}

Parsed ==
  AhnentafelParsed \union DiscoveryParsed \union AssociationParsed
  \union BranchParsed \union BrowseParsed \union CitationParsed
  \union CitationPastParsed \union DescendancyParsed \union AnalysisParsed
  \union ConflictParsed \union FamilyParsed \union ChildParsed
  \union FamilyPastParsed \union HistoryParsed \union OrdinanceParsed
  \union MapParsed \union MediaParsed \union FileParsed \union NoteParsed
  \union PedigreeParsed \union PersonsParsed \union DuplicateParsed
  \union PersonParsed \union PersonsOwnParsed \union NameParsed
  \union PersonPastParsed \union SummaryParsed \union QualityParsed
  \union RelationshipParsed \union RepositoryParsed \union LogParsed
  \union SearchParsed \union SnapshotParsed \union SourceParsed
  \union SourcePastParsed \union SubmitterParsed

-----------------------------------------------------------------------------
(* The operations with a JSON body: one that cannot be read is a 400.      *)

AssociationBodies ==
  {"CreateAssociation", "UpdateAssociation"}
BranchBodies ==
  {"CreateBranch", "MergeBranch"}
TemplateBodies ==
  {"PreviewCitationTemplate"}
CitationBodies ==
  {"CreateCitation", "UpdateCitation"}
CitationPastBodies ==
  {"RollbackCitation"}
AnalysisBodies ==
  {"CreateEvidenceAnalysis", "UpdateEvidenceAnalysis"}
ConflictBodies ==
  {"ResolveEvidenceConflict"}
FamilyBodies ==
  {"CreateFamily", "UpdateFamily"}
ChildBodies ==
  {"AddChildToFamily"}
FamilyPastBodies ==
  {"RollbackFamily"}
OrdinanceBodies ==
  {"CreateLDSOrdinance", "UpdateLDSOrdinance"}
MediaBodies ==
  {"UpdateMedia"}
NoteBodies ==
  {"CreateNote", "UpdateNote"}
PersonsBodies ==
  {"CreatePerson"}
DuplicateBodies ==
  {"BatchDismissDuplicates", "DismissDuplicate", "MergePersons", "BatchMergePersons"}
PersonBodies ==
  {"UpdatePerson"}
PersonsOwnBodies ==
  {"SetPersonBrickWall"}
NameBodies ==
  {"AddPersonName", "UpdatePersonName"}
PersonPastBodies ==
  {"RollbackPerson"}
SummaryBodies ==
  {"CreateProofSummary", "UpdateProofSummary"}
RepositoryBodies ==
  {"CreateRepository", "UpdateRepository"}
LogBodies ==
  {"CreateResearchLog", "UpdateResearchLog"}
SnapshotBodies ==
  {"CreateSnapshot"}
SourceBodies ==
  {"CreateSource", "UpdateSource"}
SourcePastBodies ==
  {"RollbackSource"}
SubmitterBodies ==
  {"CreateSubmitter", "UpdateSubmitter"}

Bodies ==
  AssociationBodies \union BranchBodies \union TemplateBodies \union CitationBodies
  \union CitationPastBodies \union AnalysisBodies \union ConflictBodies
  \union FamilyBodies \union ChildBodies \union FamilyPastBodies
  \union OrdinanceBodies \union MediaBodies \union NoteBodies \union PersonsBodies
  \union DuplicateBodies \union PersonBodies \union PersonsOwnBodies
  \union NameBodies \union PersonPastBodies \union SummaryBodies
  \union RepositoryBodies \union LogBodies \union SnapshotBodies \union SourceBodies
  \union SourcePastBodies \union SubmitterBodies

\* A multipart body: a bad one is an error without a status.
Uploads == {"ImportGedcom", "UploadPersonMedia"}
=============================================================================
