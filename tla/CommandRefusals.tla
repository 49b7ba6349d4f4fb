-------------------------- MODULE CommandRefusals ---------------------------
(***************************************************************************)
(* The commands as the API sees them: the refusals each may return, in the *)
(* order of its checks (internal/command).                                 *)
(*                                                                         *)
(* An error is the set of sentinels errors.Is finds in it.  A refusal has  *)
(* a cause: why a client should think it was refused.                      *)
(*   gone       what the path names is not there                           *)
(*   stale      it has another version than the client has seen            *)
(*   unknown    something else the request names is not there              *)
(*   invalid    the request makes no sense, whatever is stored             *)
(*   blocked    what is stored does not allow it                           *)
(*   deleted    it was there when the handler looked, and is not any more  *)
(*   partial    the write stopped halfway                                  *)
(*                                                                         *)
(* What a check looks at in other rows is left open: it may refuse.        *)
(***************************************************************************)
EXTENDS Sequences

\* `says' is a status given where the refusal is made; a command gives none.
Refusal(cause, error) == [cause |-> cause, error |-> error, says |-> 0]

Gone(error)    == Refusal("gone", {error})
Unknown(error) == Refusal("unknown", {error})
Blocked(error) == Refusal("blocked", {error})
Bad(error)     == Refusal("invalid", {error})
Unnamed(cause) == Refusal(cause, {})          \* an error with no sentinel
Stale          == Refusal("stale", {"ErrConcurrencyConflict"})
Invalid        == Bad("ErrInvalidInput")

-----------------------------------------------------------------------------
(* Persons and their names.                                                *)

CreatePerson == <<Invalid>>
UpdatePerson == <<Gone("ErrPersonNotFound"), Stale, Invalid>>
DeletePerson == <<Gone("ErrPersonNotFound"), Stale, Blocked("ErrPersonHasFamilies")>>

AddName == <<Invalid, Gone("ErrPersonNotFound"), Invalid>>
UpdateName == <<Gone("ErrPersonNotFound"), Unknown("ErrNameNotFound"), Invalid>>
DeleteName ==
  <<Gone("ErrPersonNotFound"), Unknown("ErrNameNotFound"),
    Blocked("ErrCannotDeleteLast"), Blocked("ErrCannotDeletePrimary")>>

\* The merged person's version is checked after the survivor's.
MergePersons ==
  <<Bad("ErrSamePersonMerge"), Gone("ErrPersonNotFound"), Unknown("ErrPersonNotFound"),
    Stale, Blocked("ErrConcurrencyConflict"),
    Blocked("ErrCircularMerge"), Blocked("ErrChildFamilyConflict")>>

-----------------------------------------------------------------------------
(* Families.                                                               *)

CreateFamily == <<Unnamed("invalid"), Unnamed("unknown")>>
UpdateFamily == <<Gone("ErrFamilyNotFound")>>
DeleteFamily == <<Gone("ErrFamilyNotFound"), Blocked("ErrFamilyHasChildren")>>

LinkChild ==
  <<Gone("ErrFamilyNotFound"), Unknown("ErrPersonNotFound"),
    Blocked("ErrChildAlreadyLinked"), Blocked("ErrCircularAncestry")>>
UnlinkChild == <<Gone("ErrFamilyNotFound"), Unknown("ErrChildNotInFamily")>>

-----------------------------------------------------------------------------
(* Sources, citations, media.                                              *)

CreateSource == <<Invalid>>
UpdateSource == <<Gone("ErrSourceNotFound"), Stale, Invalid>>
DeleteSource == <<Gone("ErrSourceNotFound"), Stale, Blocked("ErrSourceHasCitations")>>

CreateCitation == <<Invalid, Unknown("ErrInvalidInput"), Invalid>>
UpdateCitation ==
  <<Gone("ErrCitationNotFound"), Stale, Unknown("ErrInvalidInput"), Invalid>>
DeleteCitation == <<Gone("ErrCitationNotFound"), Stale>>

UploadMedia == <<Invalid>>
UpdateMedia == <<Gone("ErrMediaNotFound"), Stale>>
DeleteMedia == <<Gone("ErrMediaNotFound"), Stale>>

-----------------------------------------------------------------------------
(* Records of one aggregate each.                                          *)

CreateNote == <<Invalid>>
UpdateNote == <<Gone("ErrNoteNotFound"), Stale>>
DeleteNote == <<Gone("ErrNoteNotFound"), Stale>>

CreateSubmitter == <<Invalid>>
UpdateSubmitter == <<Gone("ErrSubmitterNotFound"), Stale>>
DeleteSubmitter == <<Gone("ErrSubmitterNotFound"), Stale>>

CreateRepository == <<Invalid>>
UpdateRepository == <<Gone("ErrRepositoryNotFound"), Stale>>
DeleteRepository == <<Gone("ErrRepositoryNotFound"), Stale>>

CreateAssociation == <<Invalid, Unknown("ErrInvalidInput")>>
UpdateAssociation == <<Gone("ErrAssociationNotFound"), Stale, Invalid>>
DeleteAssociation == <<Gone("ErrAssociationNotFound"), Stale>>

CreateLDSOrdinance == <<Invalid>>
UpdateLDSOrdinance == <<Gone("ErrLDSOrdinanceNotFound"), Stale>>
DeleteLDSOrdinance == <<Gone("ErrLDSOrdinanceNotFound"), Stale>>

CreateEvidenceAnalysis == <<Invalid>>
UpdateEvidenceAnalysis == <<Gone("ErrEvidenceAnalysisNotFound"), Stale, Invalid>>
DeleteEvidenceAnalysis == <<Gone("ErrEvidenceAnalysisNotFound"), Stale>>

ResolveEvidenceConflict == <<Gone("ErrEvidenceConflictNotFound"), Stale, Invalid>>

CreateResearchLog == <<Invalid>>
UpdateResearchLog == <<Gone("ErrResearchLogNotFound"), Stale, Invalid>>
DeleteResearchLog == <<Gone("ErrResearchLogNotFound"), Stale>>

CreateProofSummary == <<Invalid>>
UpdateProofSummary == <<Gone("ErrProofSummaryNotFound"), Stale, Invalid>>
DeleteProofSummary == <<Gone("ErrProofSummaryNotFound"), Stale>>

-----------------------------------------------------------------------------
(* Rollback, branches, snapshots.                                          *)

rollbackEntity ==
  <<Bad("ErrRollbackInvalidVersion"), Unknown("ErrNoEvents"),
    Bad("ErrRollbackNoChanges"), Bad("ErrRollbackInvalidVersion"),
    Refusal("deleted", {"ErrRollbackDeletedEntity"})>>

CreateBranch == <<Bad("ErrBranchNameRequired"), Bad("ErrBranchNameTooLong"),
                  Bad("ErrBranchDescTooLong")>>
DeleteBranch == <<Gone("ErrBranchNotFound"), Blocked("ErrBranchNotActive")>>

MergeBranch ==
  <<Gone("ErrBranchNotFound"), Blocked("ErrBranchNotActive"), Bad("ErrBranchMergeNoteTooLong"),
    Blocked("ErrBranchTooLargeToMerge"), Blocked("ErrMainTooFarAheadToMerge"),
    Bad("ErrUnknownResolution"), Bad("ErrUnsupportedResolution"),
    Blocked("ErrMergeDanglingReference"), Blocked("ErrMergeConflicts"),
    Blocked("ErrMergePlanStale"), Blocked("ErrMergeAlreadyClaimed")>>

\* After the claim: the error of the stream that failed, wrapped.
replayOntoMain ==
  {Refusal("partial", {"ErrMergePartiallyApplied", why}) :
     why \in {"ErrMergePlanStale", "ErrConcurrencyConflict"}}

CreateSnapshot == <<Bad("ErrSnapshotNameRequired"), Bad("ErrSnapshotNameTooLong"),
                    Bad("ErrSnapshotDescTooLong")>>
=============================================================================
