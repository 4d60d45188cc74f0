------------------------ MODULE MC_HeavyweightLock ------------------------
(* Finite instances of HeavyweightLock for TLC. *)
EXTENDS HeavyweightLock, TLC

CONSTANTS p1, c1

(* c1, where it is a process, is spawned by p1. *)
MC_Parent == [p \in Procs |-> IF p = c1 THEN p1 ELSE NoProc]

(* The processes that neither spawn nor are spawned are interchangeable. *)
Independent == Permutations(Procs \ {p1, c1})
===========================================================================
