------------------------------ MODULE MCQueries ------------------------------
(***************************************************************************)
(* What is computed from the log and from the pedigree, and a merge's      *)
(* replay of the tree, on small instances: a behaviour is one of one part, *)
(* chosen at its start.  The verdict on conflicts is MCMergeConflicts', the*)
(* relationships are Kinship's, the replay is BranchTree's.                *)
(***************************************************************************)
EXTENDS BranchTree, TLC

CONSTANTS
  Parts,                                               \* the parts checked
  Main, NoXref, Shared, BranchNew, MainNew, Xref, MaxBranch, MaxMain,  \* conflicts
  Size, Limits, RelationshipLimit,                     \* kinship
  adam, kim, f1, f2                                    \* promotion: who is there at the fork

ASSUME PartsAreKnown == Parts \subseteq {"conflicts", "kinship", "promotion"}

VARIABLES part, branchEvents, mainEvents, parents

Verdicts == INSTANCE MCMergeConflicts
Pedigree == INSTANCE Kinship

ASSUME Generations == Pedigree!LimitsArePositive

\* Adam, his family and his child Kim are main's; another person and family may come.
MCTrees ==
  {[people |-> {adam, kim},
    couple |-> (f1 :> <<adam, Nobody>>) @@ (f2 :> NoFamily),
    kids   |-> {<<f1, kim>>},
    count  |-> (f1 :> 1) @@ (f2 :> 0),
    edge   |-> [p \in Persons |->
                  IF p = kim THEN [father |-> adam, mother |-> Nobody, exists |-> TRUE] ELSE NoEdge]]}

conflictVars == <<branchEvents, mainEvents>>
allVars      == <<part, vars, conflictVars, parents>>

\* The parts of a behaviour that is not about them stay at their beginning.
InitQueries ==
  /\ part \in Parts
  /\ Verdicts!Init
  /\ Pedigree!Init
  /\ Init

NextQueries ==
  \/ part = "conflicts" /\ Verdicts!Next /\ UNCHANGED <<part, vars, parents>>
  \/ part = "kinship" /\ Pedigree!Next /\ UNCHANGED <<part, vars, conflictVars>>
  \/ part = "promotion" /\ Next /\ UNCHANGED <<part, conflictVars, parents>>

SpecQueries == InitQueries /\ [][NextQueries]_allVars

-----------------------------------------------------------------------------
(***************************************************************************)
(* Conflicts: a stream the verdict calls clean merges the same in either   *)
(* order (ClassifyConflicts).                                              *)
(***************************************************************************)
CleanStreamsCommute == part = "conflicts" => Verdicts!CleanStreamsCommute

(***************************************************************************)
(* Conflicts: an edit conflict is reported only of edits that leave        *)
(* different rows in the two orders (divergentFields).                     *)
(***************************************************************************)
EditConflictsAreReal == part = "conflicts" => Verdicts!EditConflictsAreReal

(***************************************************************************)
(* Conflicts: a resolution offered does what it says (classifyStream).     *)
(***************************************************************************)
OfferedIsEffective == part = "conflicts" => Verdicts!OfferedIsEffective

(***************************************************************************)
(* Conflicts: a merge leaves no two entities with one GEDCOM xref          *)
(* (classifyCreateCollision).                                              *)
(***************************************************************************)
XrefsStayUnique == part = "conflicts" => Verdicts!XrefsStayUnique

(***************************************************************************)
(* Kinship: the queries on the pedigree agree on who is whose ancestor and *)
(* at which distance (BuildPedigree, GetAhnentafel, GetDescendancy), and   *)
(* two persons' relationship goes through their nearest common ancestors   *)
(* (filterToLowestCommonAncestors).                                        *)
(***************************************************************************)
QueriesAgree == part = "kinship" => Pedigree!QueriesAgree /\ Pedigree!LowestAreKept
=============================================================================
