------------------------------ MODULE Records -------------------------------
(***************************************************************************)
(* The records beside the families, the lists of the read model and what   *)
(* is read of the log in pages: a behaviour is one of one part, chosen at  *)
(* its start.  The parts have nothing to do with each other, but share the *)
(* request slots and, each for itself, the variables `setting', `head',    *)
(* `req' and `log'.                                                        *)
(***************************************************************************)
EXTENDS EventLog, FiniteSets

CONSTANTS
  Parts,                                           \* the parts followed
  Slots, MaxVersion,                               \* of every part with requests
  Sources, Citations, Titles, SourceSettings,      \* see SourceCitations
  Persons, Names, Things, Nobody,                  \* see PersonRecords
  PersonSettings, MaxPersonVersion,
  Analyses, Conflicts, Facts, Conclusions,         \* see EvidenceConflicts
  EvidenceSettings,
  Kinds, Values, Empty, MaxLog,                    \* see FieldChanges
  Ids, Keys, PageSize, MaxChanges,                 \* see Listings
  Streams, Import, Branches, Times, StoreOrders,   \* see History
  MaxComparison, DefaultLimit, MaxLimit, Sizes,
  Readers, Snapshots, Histories, Everything, NoMark, MaxHistory,
  Unused                                           \* the value of other parts' variables

ASSUME PartsAreKnown ==
  Parts \subseteq {"citations", "people", "evidence", "fields", "lists", "pages", "snapshots"}

VARIABLES
  part,
  setting, head, req,
  sources, citations,
  people, absorbed, names, things,
  slots, analyses, conflicts, unsettled,
  subject, log, row,
  list, rows, clock, changes, walk, since,
  order, mark, view

SC == INSTANCE SourceCitations WITH Settings <- SourceSettings
PR == INSTANCE PersonRecords WITH MaxVersion <- MaxPersonVersion, Settings <- PersonSettings
EC == INSTANCE EvidenceConflicts WITH Settings <- EvidenceSettings
FC == INSTANCE FieldChanges
LS == INSTANCE Listings
HI == INSTANCE History WITH Orders <- StoreOrders, Walks <- Histories, MaxLog <- MaxHistory

ASSUME SourceIds  == SC!IdsApart
ASSUME NobodyElse == PR!NobodyApart
ASSUME SlotsBound == SC!SlotsInUse /\ PR!SlotsInUse /\ EC!SlotsInUse
ASSUME FieldsKnown == FC!EmptyApart /\ FC!KindsKnown
ASSUME Numbers    == LS!NumbersAsIds /\ HI!NumbersAsTimes /\ HI!NumbersAsSizes
ASSUME NoStream   == HI!ImportApart /\ HI!EverythingApart

shared        == <<setting, head, req>>
sourceVars    == <<sources, citations>>
personVars    == <<people, absorbed, names, things>>
evidenceVars  == <<slots, analyses, conflicts, unsettled>>
fieldVars     == <<subject, row>>
listVars      == <<list, rows, clock, changes, walk, since>>
historyVars   == <<order, mark, view>>

vars == <<part, shared, log, sourceVars, personVars, evidenceVars, fieldVars, listVars, historyVars>>

Init ==
  /\ part \in Parts
  /\ IF part = "citations" THEN SC!Init ELSE sources = Unused /\ citations = Unused
  /\ IF part = "people" THEN PR!Init
     ELSE people = Unused /\ absorbed = Unused /\ names = Unused /\ things = Unused
  /\ IF part = "evidence" THEN EC!Init /\ setting = Unused
     ELSE slots = Unused /\ analyses = Unused /\ conflicts = Unused /\ unsettled = Unused
  /\ IF part = "fields" THEN FC!Init ELSE subject = Unused /\ row = Unused
  /\ IF part = "lists" THEN LS!Init
     ELSE list = Unused /\ rows = Unused /\ clock = Unused /\ changes = Unused
          /\ walk = Unused /\ since = Unused
  /\ IF part \in {"pages", "snapshots"} THEN HI!Init
     ELSE order = Unused /\ mark = Unused /\ view = Unused
  /\ part \notin {"citations", "people", "evidence"} =>
       setting = Unused /\ head = Unused /\ req = Unused
  /\ part \notin {"fields", "pages", "snapshots"} => log = Unused

\* A walk and a snapshot do not meet: they are followed one at a time.
Next ==
  \/ /\ part = "citations" /\ SC!Next
     /\ UNCHANGED <<part, log, personVars, evidenceVars, fieldVars, listVars, historyVars>>
  \/ /\ part = "people" /\ PR!Next
     /\ UNCHANGED <<part, log, sourceVars, evidenceVars, fieldVars, listVars, historyVars>>
  \/ /\ part = "evidence" /\ EC!Next
     /\ UNCHANGED <<part, setting, log, sourceVars, personVars, fieldVars, listVars, historyVars>>
  \/ /\ part = "fields" /\ FC!Next
     /\ UNCHANGED <<part, shared, sourceVars, personVars, evidenceVars, listVars, historyVars>>
  \/ /\ part = "lists" /\ LS!Next
     /\ UNCHANGED <<part, shared, log, sourceVars, personVars, evidenceVars, fieldVars, historyVars>>
  \/ /\ part = "pages" /\ (HI!Writing \/ HI!Paging)
     /\ UNCHANGED <<part, shared, sourceVars, personVars, evidenceVars, fieldVars, listVars>>
  \/ /\ part = "snapshots" /\ (HI!Writing \/ HI!Marking)
     /\ UNCHANGED <<part, shared, sourceVars, personVars, evidenceVars, fieldVars, listVars>>

Spec == Init /\ [][Next]_vars

-----------------------------------------------------------------------------
(***************************************************************************)
(* SourceCitations: between requests that come one by one, every citation's*)
(* source exists and counts its citations (ErrSourceHasCitations); however *)
(* they race, a citation's row ends at its stream's version (PR-002).      *)
(***************************************************************************)
CitationsAddUp == part = "citations" => SC!CountsMatch /\ SC!CitationFollowsStream

(***************************************************************************)
(* PersonRecords: however commands and merges race, a person never has two *)
(* primary names (PersonName.IsPrimary).                                   *)
(***************************************************************************)
OnePrimaryName == part = "people" => PR!OnePrimaryName

(***************************************************************************)
(* PersonRecords: after a merge, everything recorded of the merged person  *)
(* belongs to the survivor (projectPersonMerged).                          *)
(***************************************************************************)
MergeMovesAll == part = "people" => PR!MergeMovesAll

(***************************************************************************)
(* EvidenceConflicts: once requests are done, analyses that disagree have  *)
(* an open conflict (detectEvidenceConflicts).                             *)
(***************************************************************************)
DisagreementIsOpen == part = "evidence" => EC!DisagreementIsOpen

(***************************************************************************)
(* FieldChanges: a row is rebuilt from the log as the live projections     *)
(* left it ("Projections can be rebuilt from events").                     *)
(***************************************************************************)
RowIsRebuilt == part = "fields" => FC!RowIsRebuilt

(***************************************************************************)
(* FieldChanges: the row shows what the fold for a rollback ends in        *)
(* (applyEventToState).                                                    *)
(***************************************************************************)
RowShowsHistory == part = "fields" => FC!RowShowsHistory

(***************************************************************************)
(* FieldChanges: every field's row is rebuilt from the log, whatever the   *)
(* types of its values.                                                    *)
(***************************************************************************)
RowIsAlwaysRebuilt == part = "fields" => FC!RowIsAlwaysRebuilt

(***************************************************************************)
(* Listings: a reader that pages through a list whose ties are broken      *)
(* misses no row that nobody moved (ListAll).                              *)
(***************************************************************************)
WalkIsComplete == part = "lists" => LS!WalkIsComplete

(***************************************************************************)
(* History: an entity's pager shows a prefix of its mainline history,      *)
(* whole when it offers no more (ReadByStream).                            *)
(***************************************************************************)
EntityWalkIsPrefix == part = "pages" => HI!EntityWalkIsPrefix

(***************************************************************************)
(* History: the global pager misses nothing that was there when it began   *)
(* (ReadGlobalByTime).                                                     *)
(***************************************************************************)
GlobalWalkMissesNothing == part = "pages" => HI!GlobalWalkMissesNothing

(***************************************************************************)
(* History: a comparison shows what lies between its two snapshots only,   *)
(* and all of it when it claims to be whole (CompareSnapshots' cut at the  *)
(* later position and its has_more).                                       *)
(***************************************************************************)
WholeComparison == part = "snapshots" => HI!WholeComparison
=============================================================================
