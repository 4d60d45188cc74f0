---------------------------- MODULE SessionCatalog ----------------------------
(***************************************************************************)
(* extensions/session-manager/storage.ts: the manifest of a workspace, a    *)
(* file that Pi processes update under a lock directory (proper-lockfile).  *)
(*                                                                          *)
(* What an update does to the manifest is to be applied to it: an update is *)
(* named by its process and a number, and the manifest holds its revision   *)
(* and the updates applied.  Every action is one call of the storage        *)
(* adapter with the synchronous code up to it.  A process may crash         *)
(* anywhere; a lock that is not refreshed in time goes stale, whether its   *)
(* holder is dead or only paused, and is then taken over.                   *)
(***************************************************************************)
EXTENDS Integers, FiniteSets

CONSTANTS
  Procs,        \* processes that share the workspace
  NoProc,
  MaxUpdates    \* bound: updates each process makes

ASSUME CatalogAssumption == NoProc \notin Procs /\ MaxUpdates \in Nat

VARIABLES
  manifest,     \* [revision, applied]: the file
  temps,        \* temporary files, named by the update that wrote them
  lock,         \* the process whose lock directory it is
  stale,        \* the lock directory has not been refreshed for STALE ms
  told,         \* processes whose lock library reported the lock compromised
  pc,           \* what each process does next
  n,            \* updates each process began
  draft,        \* the manifest each process is to write
  result,       \* how each process's operation ended, before its lock is released
  outcome,      \* what each update reported
  overlapped    \* history: updates whose lock was lost while they held it

vars == <<manifest, temps, lock, stale, told, pc, n, draft, result, outcome, overlapped>>

Updates == Procs \X (1..MaxUpdates)

Mine(p) == <<p, n[p]>>

Holding == {"read", "clean", "open", "assert", "rename", "sync", "reread", "release"}
PcStates == {"idle", "acquire", "dead"} \cup Holding

(* "failed" stands for every failure that is reported as not committed:     *)
(* lock timeout, lock compromised, commit failure, operation failure,        *)
(* rejected transform, interruption.                                         *)
Outcomes == {"none", "ok", "releaseFailed", "indeterminate", "failed"}

Empty == [revision |-> 0, applied |-> {}]

Init == /\ manifest = Empty /\ temps = {}
        /\ lock = NoProc /\ stale = FALSE /\ told = {}
        /\ pc = [p \in Procs |-> "idle"]
        /\ n = [p \in Procs |-> 0]
        /\ draft = [p \in Procs |-> Empty]
        /\ result = [p \in Procs |-> "none"]
        /\ outcome = [u \in Updates |-> "none"]
        /\ overlapped = {}

Goto(p, label) == pc' = [pc EXCEPT ![p] = label]

(* The operation is over; withLock() releases whatever its exit is. *)
Ends(p, r) == Goto(p, "release") /\ result' = [result EXCEPT ![p] = r]

(* The update whose lock is lost unless its process is done with it or dead. *)
Lost == IF lock \in Procs /\ pc[lock] \in Holding THEN {Mine(lock)} ELSE {}

-----------------------------------------------------------------------------
(* The lock library *)

Update(p) ==
  /\ pc[p] = "idle" /\ n[p] < MaxUpdates
  /\ n' = [n EXCEPT ![p] = @ + 1]
  /\ Goto(p, "acquire")
  /\ UNCHANGED <<manifest, temps, lock, stale, told, draft, result, outcome, overlapped>>

Acquire(p) ==
  /\ pc[p] = "acquire"
  /\ lock = NoProc \/ stale
  /\ lock' = p /\ stale' = FALSE
  /\ overlapped' = overlapped \cup Lost
  /\ Goto(p, "read")
  /\ UNCHANGED <<manifest, temps, told, n, draft, result, outcome>>

(* Twenty retries, or the directory cannot be made. *)
AcquireFails(p) ==
  /\ pc[p] = "acquire"
  /\ outcome' = [outcome EXCEPT ![Mine(p)] = "failed"]
  /\ Goto(p, "idle")
  /\ UNCHANGED <<manifest, temps, lock, stale, told, n, draft, result, overlapped>>

(* The holder crashed, or is paused, or its event loop is blocked. *)
GoStale ==
  /\ lock # NoProc /\ ~stale
  /\ stale' = TRUE
  /\ UNCHANGED <<manifest, temps, lock, told, pc, n, draft, result, outcome, overlapped>>

(* The update timer refreshes the lock, or finds out that it is not ours. *)
Heartbeat(p) ==
  /\ pc[p] \in Holding /\ p \notin told
  /\ IF lock = p THEN stale' = FALSE /\ UNCHANGED told
                 ELSE told' = told \cup {p} /\ UNCHANGED stale
  /\ UNCHANGED <<manifest, temps, lock, pc, n, draft, result, outcome, overlapped>>

-----------------------------------------------------------------------------
(* update(): read, clean up, transform *)

Read(p) ==
  /\ pc[p] = "read"
  /\ draft' = [draft EXCEPT ![p] = [revision |-> manifest.revision + 1,
                                    applied |-> manifest.applied \cup {Mine(p)}]]
  /\ Goto(p, "clean")
  /\ UNCHANGED <<manifest, temps, lock, stale, told, n, result, outcome, overlapped>>

(* cleanTemps() removes the temporary files that are old enough. *)
Clean(p) ==
  /\ pc[p] = "clean"
  /\ \E old \in SUBSET temps : temps' = temps \ old
  /\ Goto(p, "open")
  /\ UNCHANGED <<manifest, lock, stale, told, n, draft, result, outcome, overlapped>>

(* A read or a transform fails, or the update is interrupted: until commit().  *)
Abandon(p) ==
  /\ pc[p] \in {"read", "clean", "open"}
  /\ Ends(p, "failed")
  /\ UNCHANGED <<manifest, temps, lock, stale, told, n, draft, outcome, overlapped>>

-----------------------------------------------------------------------------
(* commit() *)

OpenTemp(p) ==
  /\ pc[p] = "open" /\ p \notin told
  /\ temps' = temps \cup {Mine(p)}
  /\ Goto(p, "assert")
  /\ UNCHANGED <<manifest, lock, stale, told, n, draft, result, outcome, overlapped>>

AssertOwned(p) ==
  /\ pc[p] = "assert" /\ p \notin told
  /\ Goto(p, "rename")
  /\ UNCHANGED <<manifest, temps, lock, stale, told, n, draft, result, outcome, overlapped>>

(* A compromised writer leaves its file behind; any other failure before the *)
(* rename removes it, if that succeeds.                                      *)
CommitFails(p) ==
  /\ pc[p] \in {"open", "assert", "rename"}
  /\ \/ pc[p] # "rename" /\ p \in told /\ UNCHANGED temps
     \/ temps' \in {temps, temps \ {Mine(p)}}
  /\ Ends(p, "failed")
  /\ UNCHANGED <<manifest, lock, stale, told, n, draft, outcome, overlapped>>

(* Another writer may have cleaned the file away. *)
Rename(p) ==
  /\ pc[p] = "rename" /\ Mine(p) \in temps
  /\ manifest' = draft[p]
  /\ temps' = temps \ {Mine(p)}
  /\ Goto(p, "sync")
  /\ UNCHANGED <<lock, stale, told, n, draft, result, outcome, overlapped>>

(* Mutant: the flag is set once the directory is flushed. *)
SyncBeforeRenamed(p) ==
  /\ pc[p] = "sync"
  /\ \/ p \notin told /\ Goto(p, "reread") /\ UNCHANGED result
     \/ Ends(p, "failed")
  /\ UNCHANGED <<manifest, temps, lock, stale, told, n, draft, outcome, overlapped>>

Sync(p) ==
  /\ pc[p] = "sync"
  /\ \/ p \notin told /\ Goto(p, "reread") /\ UNCHANGED result
     \/ Ends(p, "indeterminate")
  /\ UNCHANGED <<manifest, temps, lock, stale, told, n, draft, outcome, overlapped>>

Reread(p) ==
  /\ pc[p] = "reread"
  /\ \/ p \notin told /\ manifest.revision = draft[p].revision /\ Ends(p, "ok")
     \/ Ends(p, "indeterminate")
  /\ UNCHANGED <<manifest, temps, lock, stale, told, n, draft, outcome, overlapped>>

-----------------------------------------------------------------------------
(* withLock() after the operation.  The library removes the directory, whoever's *)
(* it is by now, unless it reported the lock compromised or fails.               *)
Reports(p, r) ==
  /\ outcome' = [outcome EXCEPT ![Mine(p)] = r]
  /\ result' = [result EXCEPT ![p] = "none"]
  /\ draft' = [draft EXCEPT ![p] = Empty]
  /\ told' = told \ {p}
  /\ Goto(p, "idle")

Release(p) ==
  /\ pc[p] = "release" /\ p \notin told
  /\ lock' = NoProc /\ stale' = FALSE
  /\ overlapped' = overlapped \cup (Lost \ {Mine(p)})
  /\ Reports(p, result[p])
  /\ UNCHANGED <<manifest, temps, n>>

ReleaseFails(p) ==
  /\ pc[p] = "release"
  /\ Reports(p, IF result[p] = "ok" THEN "releaseFailed" ELSE result[p])
  /\ UNCHANGED <<manifest, temps, lock, stale, n, overlapped>>

Crash(p) ==
  /\ pc[p] # "dead"
  /\ Goto(p, "dead")
  /\ told' = told \ {p}
  /\ draft' = [draft EXCEPT ![p] = Empty]
  /\ result' = [result EXCEPT ![p] = "none"]
  /\ UNCHANGED <<manifest, temps, lock, stale, n, outcome, overlapped>>

-----------------------------------------------------------------------------
Commit(p) ==
  \/ OpenTemp(p) \/ AssertOwned(p) \/ CommitFails(p) \/ Rename(p) \/ Sync(p) \/ Reread(p)

Step(p) ==
  \/ Acquire(p) \/ AcquireFails(p) \/ Read(p) \/ Clean(p) \/ Abandon(p)
  \/ Commit(p) \/ Release(p) \/ ReleaseFails(p)

Next == \/ \E p \in Procs : Update(p) \/ Step(p) \/ Heartbeat(p) \/ Crash(p)
        \/ GoStale

Spec == Init /\ [][Next]_vars

-----------------------------------------------------------------------------
Committed == {u \in Updates : outcome[u] \in {"ok", "releaseFailed"}}

(* An update that was reported committed stays in the manifest, and every     *)
(* revision is one update, unless some holder's lock was taken while it used  *)
(* it: crashes, failed releases and failures of any step lose nothing.        *)
AcknowledgedSurvives ==
  overlapped = {} =>
    /\ Committed \subseteq manifest.applied
    /\ manifest.revision = Cardinality(manifest.applied)

(* An update that was reported as not committed is not in the manifest: not   *)
(* even where locks are lost, and although others read what it wrote.         *)
FailedIsAbsent == \A u \in manifest.applied : outcome[u] # "failed"

(* What a process was told of its update is what became of the manifest. *)
OutcomesAreTrue == AcknowledgedSurvives /\ FailedIsAbsent

-----------------------------------------------------------------------------
(* What a process knows of an update. *)
AnswerOf(u) == IF outcome[u] # "none" THEN outcome[u]
               ELSE IF u[2] <= n[u[1]] THEN "none" ELSE "unasked"

Atomic == INSTANCE AtomicCatalog
            WITH applied <- manifest.applied, revision <- manifest.revision,
                 answer <- [u \in Updates |-> AnswerOf(u)], kept <- overlapped = {}

(* storage.ts implements the atomic catalog: reading, writing a temporary file,  *)
(* renaming it and reading it back are one update, made at the rename, whatever  *)
(* crashes, fails or is cleaned away in between.                                 *)
ImplementsAtomicCatalog == Atomic!Spec
=============================================================================
