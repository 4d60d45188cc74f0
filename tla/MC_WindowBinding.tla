-------------------------- MODULE MC_WindowBinding --------------------------
(* Finite instances of WindowBinding for TLC. *)
EXTENDS WindowBinding, TLC

CONSTANTS p1, p2, p3, w1, w2, w3

(* Two panes of one window and a window the coordinator may make. *)
MC_WindowOf == [p \in Procs |-> IF p = p3 THEN w2 ELSE w1]

(* One tmux session, and one where the second window has its own. *)
MC_OneSession == [w \in Windows |-> 1]
MC_TwoSessions == [w \in Windows |-> IF w = w2 THEN 2 ELSE 1]

MC_Symmetry == Permutations(Sids)
=============================================================================
