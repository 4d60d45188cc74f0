------------------------ MODULE MC_SubagentChildren ------------------------
(* Finite instances of SubagentChildren for TLC. *)
EXTENDS SubagentChildren

CONSTANTS c1, c2, start1, start2, prompt1

(* Two children; the first one may be prompted once by a human. *)
MC_Owner == [r \in Runs |-> IF r = start2 THEN c2 ELSE c1]

(* Closing ends, of a child and of the supervisor that waits for its children:  *)
(* neither waits for an operation that waits for it.                           *)
ClosingSettles == CloseEnds /\ ShutdownSettles
===========================================================================
