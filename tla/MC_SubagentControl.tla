------------------------ MODULE MC_SubagentControl ------------------------
(* Finite instances of SubagentControl for TLC. *)
EXTENDS SubagentControl, TLC

(* Runs and children are interchangeable until a workspace is chosen in Init. *)
Identities == Permutations(Runs) \cup Permutations(Children) \cup Permutations(Workspaces)

(* Every wait of the supervisor ends: an admission is answered, a shutdown that *)
(* has begun settles.                                                          *)
WaitsEnd == EveryAdmissionSettles /\ ShutdownSettles
===========================================================================
