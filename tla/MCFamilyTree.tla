----------------------------- MODULE MCFamilyTree ----------------------------
(* Small instances of FamilyTree: a man, two women or one, few families.   *)
EXTENDS FamilyTree, TLC
CONSTANTS adam, eve, kim, f1, f2, c1, c2

RequestSymmetry == Permutations(Slots)
FamilySymmetry  == Permutations(Families)
Symmetry == RequestSymmetry \union FamilySymmetry

\* Partners come as a pair of different persons, or alone.
Pairs(P) == {<<p, q>> : p \in P, q \in P \union {Nobody}}
Lone(P)  == {<<p, Nobody>> : p \in P}

(* One request at a time: the checks of a command hold when it writes.     *)
OneByOne(c, kinds) ==
  [slots |-> {c}, people |-> {adam, eve, kim}, couples |-> Pairs({adam, eve, kim}),
   kinds |-> kinds]

(* Two requests race, over what one family's version guards.               *)
Racing ==
  [slots |-> Slots, people |-> {adam, eve}, couples |-> Lone({adam, eve}),
   kinds |-> {"create", "update", "link", "unlink", "drop"}]

Shaping == {"create", "update", "link", "unlink", "drop", "delete"}

MCSettings ==
  {OneByOne(c, Shaping) : c \in Slots} \union {OneByOne(c, Shaping \union {"merge"}) : c \in Slots}
    \union {Racing}
=============================================================================
