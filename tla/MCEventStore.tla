---------------------------- MODULE MCEventStore ----------------------------
(***************************************************************************)
(* TLC instance of EventStore.  Streams and branches are interchangeable.  *)
(***************************************************************************)
EXTENDS EventStore, TLC

Symmetry == Permutations(Streams) \union Permutations(Branches)

=============================================================================
