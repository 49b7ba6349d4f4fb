----------------------------- MODULE MCRecords ------------------------------
(***************************************************************************)
(* The records, the lists and the histories on small instances, with       *)
(* requests one by one on everything, and in races on less.                *)
(***************************************************************************)
EXTENDS Records, TLC

CONSTANT RecordKinds  \* what is recorded of persons

OneByOne == {{r} : r \in Slots}

MCSourceSettings ==
  [slots : OneByOne, ids : {Sources \union Citations}, store : {"memory", "sql"}]
    \union [slots : {Slots}, store : {"memory", "sql"},
            ids : {{s} \union Citations : s \in Sources} \union {Sources \union {c} : c \in Citations}]

MCPersonSettings ==
  [slots : OneByOne, store : {"sql"}, kinds : {RecordKinds}]
    \union [slots : {Slots}, store : {"sql"}, kinds : {{}}]

MCEvidenceSettings == OneByOne \union {Slots}

Symmetry ==
  Permutations(Sources) \union Permutations(Citations) \union Permutations(Persons)
    \union Permutations(Names) \union Permutations(Analyses) \union Permutations(Conflicts)
    \union Permutations(Facts) \union Permutations(Conclusions) \union Permutations(Values)
    \union Permutations(Slots) \union Permutations(Snapshots)
=============================================================================
