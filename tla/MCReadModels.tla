---------------------------- MODULE MCReadModels -----------------------------
(* A small tree and one research branch.                                   *)
EXTENDS ReadModels
=============================================================================
