----------------------------- MODULE AtomicCatalog -----------------------------
(***************************************************************************)
(* What storage.ts of extensions/session-manager promises the processes that *)
(* share a workspace, with no files and no locks: each process asks for one   *)
(* update after the other; an update takes effect at once and once, between   *)
(* the asking and the answer, and the answer says whether it did.              *)
(*                                                                          *)
(* A holder that loses its lock to another ends the promise, not all of it:    *)
(* from then on an update may undo others, and an answer may tell of one that  *)
(* is undone.  One that was answered with a failure never takes effect.         *)
(*                                                                          *)
(* SessionCatalog implements this specification (ImplementsAtomicCatalog).     *)
(***************************************************************************)
EXTENDS Integers

CONSTANTS
  Procs,        \* processes that share the workspace
  MaxUpdates    \* bound: updates each process makes

VARIABLES
  applied,      \* the updates that are in effect
  revision,     \* how many took effect
  answer,       \* [Updates -> Answers]
  kept          \* no lock was lost so far

catalogVars == <<applied, revision, answer, kept>>

Updates == Procs \X (1..MaxUpdates)
Answers == {"unasked", "none", "ok", "releaseFailed", "indeterminate", "failed"}

Init == /\ applied = {} /\ revision = 0
        /\ answer = [u \in Updates |-> "unasked"] /\ kept = TRUE

(* One update of a process after the other. *)
Ask(u) ==
  /\ answer[u] = "unasked"
  /\ \A v \in Updates : v[1] = u[1] /\ v[2] < u[2] => answer[v] \notin {"unasked", "none"}
  /\ answer' = [answer EXCEPT ![u] = "none"]
  /\ UNCHANGED <<applied, revision, kept>>

Apply(u) ==
  /\ kept /\ answer[u] = "none" /\ u \notin applied
  /\ applied' = applied \cup {u} /\ revision' = revision + 1
  /\ UNCHANGED <<answer, kept>>

(* The caller is told that it was, or that it may have been. *)
Acknowledge(u) ==
  /\ answer[u] = "none" /\ (kept => u \in applied)
  /\ \E a \in {"ok", "releaseFailed", "indeterminate"} : answer' = [answer EXCEPT ![u] = a]
  /\ UNCHANGED <<applied, revision, kept>>

Refuse(u) ==
  /\ answer[u] = "none" /\ u \notin applied
  /\ answer' = [answer EXCEPT ![u] = "failed"]
  /\ UNCHANGED <<applied, revision, kept>>

LoseLock == /\ kept /\ kept' = FALSE
            /\ UNCHANGED <<applied, revision, answer>>

Overwrite(u) ==
  /\ ~kept /\ answer[u] = "none" /\ u \in applied'
  /\ \A v \in applied' : v \in Updates /\ answer[v] \notin {"unasked", "failed"}
  /\ revision' \in Nat
  /\ UNCHANGED <<answer, kept>>

Next == \/ \E u \in Updates : Ask(u) \/ Apply(u) \/ Acknowledge(u) \/ Refuse(u) \/ Overwrite(u)
        \/ LoseLock

Spec == Init /\ [][Next]_catalogVars
==============================================================================
