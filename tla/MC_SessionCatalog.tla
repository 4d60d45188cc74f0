-------------------------- MODULE MC_SessionCatalog --------------------------
(* Finite instances of SessionCatalog for TLC. *)
EXTENDS SessionCatalog, TLC

Interchangeable == Permutations(Procs)
==============================================================================
