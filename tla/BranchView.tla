------------------------------ MODULE BranchView ------------------------------
(***************************************************************************)
(* What the branch overlay promises of any backend (ADR-005): each line    *)
(* has its view of the tree; a branch sees the mainline's rows except      *)
(* where it has written, or deleted, rows of its own.                      *)
(*                                                                         *)
(* A unit is one thing a line can show: a person, one name of a person,    *)
(* one child of a family.  own[b] is what branch b has made its own.       *)
(***************************************************************************)
EXTENDS Integers

CONSTANTS
  Main,      \* the mainline
  Branches   \* research branches

VARIABLES
  view,      \* what each line shows of each unit
  own,       \* the units each branch has made its own
  writes     \* how many calls there were on each line

Units == DOMAIN view[Main]

Counts(l) == writes' = [writes EXCEPT ![l] = @ + 1]

Init == \A b \in Branches : own[b] = {} /\ view[b] = view[Main]

(***************************************************************************)
(* A write on the mainline shows on a branch where the branch has nothing  *)
(* of its own, and nowhere else.                                           *)
(***************************************************************************)
WriteMain ==
  LET before == view
      after  == view'
  IN  /\ Counts(Main)
      /\ own' = own
      /\ \A b \in Branches, u \in Units :
           after[b][u] = IF u \in own[b] THEN before[b][u] ELSE after[Main][u]

\* Nothing changes on the lines other than b.
Elsewhere(b) ==
  /\ \A l \in (Branches \union {Main}) \ {b} : view'[l] = view[l]
  /\ \A c \in Branches \ {b} : own'[c] = own[c]

(***************************************************************************)
(* A write on a branch shows on that branch only, and what it changes      *)
(* belongs to the branch from then on.                                     *)
(***************************************************************************)
WriteBranch(b) ==
  LET before == view[b]
      after  == view'[b]
      mine   == own'[b]
  IN  /\ Counts(b)
      /\ own[b] \subseteq mine
      /\ \A u \in Units : after[u] # before[u] => u \in mine
      /\ Elsewhere(b)

\* Purging a branch leaves it with the mainline's view.
Purge(b) ==
  /\ writes' = writes
  /\ own'[b] = {}
  /\ view'[b] = view[Main]
  /\ Elsewhere(b)

Next == WriteMain \/ \E b \in Branches : WriteBranch(b) \/ Purge(b)

Spec == Init /\ [][Next]_<<view, own, writes>>

=============================================================================
