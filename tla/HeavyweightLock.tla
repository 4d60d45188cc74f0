--------------------------- MODULE HeavyweightLock ---------------------------
(***************************************************************************)
(* scripts/heavyweight-lock.mjs: the lock directory in Git's common         *)
(* directory that keeps heavyweight operations of sibling worktrees apart.  *)
(*                                                                          *)
(* Every process is one call of acquireHeavyweightLock() in an operating    *)
(* system process of its own, and every action is one file system call or   *)
(* one liveness probe: processes interleave between any two of them, may be *)
(* killed anywhere, and are gone once they exit.  A process started by a    *)
(* lease holder inherits the holder's token (run-supervised-node.mjs).      *)
(***************************************************************************)
CONSTANTS
  Procs,       \* processes, named by the token of their call
  NoProc,      \* no process
  Absent,      \* no lock directory
  Ownerless,   \* a lock directory without owner.json
  Parent       \* Parent[p]: whose token p inherits, or NoProc

ASSUME ProcsAssumption ==
  /\ NoProc \notin Procs /\ Absent \notin Procs /\ Ownerless \notin Procs
  /\ Absent # Ownerless
  /\ Parent \in [Procs -> Procs \cup {NoProc}]

VARIABLES
  lock,   \* the lock directory: Absent, Ownerless, or the owner published in it
  guard,  \* the process that made the recovery directory, NoProc if there is none
  pc,     \* what each process does next
  seen    \* the owner each process read last, NoProc for none

vars == <<lock, guard, pc, seen>>

PcStates == {"new",        \* not started
             "create", "publish", "read", "check", "wait",
             "recover", "reread", "recheck", "steal", "unguard", "recovered",
             "held", "inherited", "release", "unlink", "rmdir",
             "failed",     \* left without ever holding the lock
             "exited",     \* left after releasing it
             "crashed"}

Alive(p) == pc[p] \notin {"new", "failed", "exited", "crashed"}

Init == /\ lock = Absent /\ guard = NoProc
        /\ pc = [p \in Procs |-> "new"]
        /\ seen = [p \in Procs |-> NoProc]

Goto(p, label) == pc' = [pc EXCEPT ![p] = label]

(* A child is spawned by the operation its parent's lease protects. *)
Start(p) ==
  /\ pc[p] = "new"
  /\ Parent[p] # NoProc => pc[Parent[p]] = "held"
  /\ Goto(p, "create")
  /\ UNCHANGED <<lock, guard, seen>>

-----------------------------------------------------------------------------
(* tryCreateLease() *)

MakeLock(p) ==
  /\ pc[p] = "create" /\ lock = Absent
  /\ lock' = Ownerless
  /\ Goto(p, "publish")
  /\ UNCHANGED <<guard, seen>>

LockExists(p) ==
  /\ pc[p] = "create" /\ lock # Absent
  /\ Goto(p, "read")
  /\ UNCHANGED <<lock, guard, seen>>

(* writeOwner() renames owner.json into whatever directory is there now, *)
Publish(p) ==
  /\ pc[p] = "publish" /\ lock # Absent
  /\ lock' = p
  /\ Goto(p, "held")
  /\ UNCHANGED <<guard, seen>>

(* and when it fails, that directory is removed. *)
PublishFails(p) ==
  /\ pc[p] = "publish"
  /\ lock' = Absent
  /\ Goto(p, "failed")
  /\ UNCHANGED <<guard, seen>>

-----------------------------------------------------------------------------
(* acquireHeavyweightLock(), after a lock directory was found. *)

ReadOwner(p) == seen' = [seen EXCEPT ![p] = IF lock \in Procs THEN lock ELSE NoProc]

Read(p) ==
  /\ pc[p] = "read"
  /\ ReadOwner(p)
  /\ Goto(p, IF Parent[p] # NoProc /\ lock = Parent[p] THEN "inherited" ELSE "check")
  /\ UNCHANGED <<lock, guard>>

SeenDead(p) == seen[p] \in Procs /\ ~Alive(seen[p])

Check(p) ==
  /\ pc[p] = "check"
  /\ Goto(p, IF SeenDead(p) THEN "recover" ELSE "wait")
  /\ UNCHANGED <<lock, guard, seen>>

Retry(p) == pc[p] = "wait" /\ Goto(p, "create") /\ UNCHANGED <<lock, guard, seen>>

(* The deadline has passed, or the signal is aborted. *)
GiveUp(p) ==
  /\ pc[p] \in {"create", "wait"}
  /\ Goto(p, "failed")
  /\ UNCHANGED <<lock, guard, seen>>

-----------------------------------------------------------------------------
(* recoverStaleLease() *)

MakeGuard(p) ==
  /\ pc[p] = "recover" /\ guard = NoProc
  /\ guard' = p
  /\ Goto(p, "reread")
  /\ UNCHANGED <<lock, seen>>

GuardExists(p) ==
  /\ pc[p] = "recover" /\ guard # NoProc
  /\ Goto(p, "wait")
  /\ UNCHANGED <<lock, guard, seen>>

Reread(p) ==
  /\ pc[p] = "reread"
  /\ ReadOwner(p)
  /\ Goto(p, "recheck")
  /\ UNCHANGED <<lock, guard>>

(* Mutant: the owner seen before the guard was taken is trusted. *)
TrustFirstRead(p) ==
  /\ pc[p] = "recheck"
  /\ Goto(p, "steal")
  /\ UNCHANGED <<lock, guard, seen>>

Recheck(p) ==
  /\ pc[p] = "recheck"
  /\ Goto(p, IF SeenDead(p) THEN "steal" ELSE "unguard")
  /\ UNCHANGED <<lock, guard, seen>>

(* The rename takes away whatever directory is there now. *)
Steal(p) ==
  /\ pc[p] = "steal"
  /\ lock' = Absent
  /\ Goto(p, IF lock = Absent THEN "unguard" ELSE "recovered")
  /\ UNCHANGED <<guard, seen>>

Unguard(p) ==
  /\ pc[p] \in {"unguard", "recovered"}
  /\ guard' = NoProc
  /\ Goto(p, IF pc[p] = "recovered" THEN "create" ELSE "wait")
  /\ UNCHANGED <<lock, seen>>

-----------------------------------------------------------------------------
(* The operation, and release(). *)

Children(p) == {q \in Procs : Parent[q] = p}

(* The holder awaits the processes it spawned. *)
OperationEnds(p) ==
  /\ pc[p] = "held"
  /\ \A q \in Children(p) : ~Alive(q)
  /\ Goto(p, "release")
  /\ UNCHANGED <<lock, guard, seen>>

(* An inherited lease releases nothing. *)
InheritedEnds(p) ==
  /\ pc[p] = "inherited"
  /\ Goto(p, "failed")
  /\ UNCHANGED <<lock, guard, seen>>

ReadForRelease(p) ==
  /\ pc[p] = "release"
  /\ ReadOwner(p)
  /\ Goto(p, IF lock = p THEN "unlink" ELSE "exited")
  /\ UNCHANGED <<lock, guard>>

(* rm -r: first owner.json, then the directory. *)
UnlinkOwner(p) ==
  /\ pc[p] = "unlink"
  /\ lock' = IF lock = Absent THEN Absent ELSE Ownerless
  /\ Goto(p, "rmdir")
  /\ UNCHANGED <<guard, seen>>

RemoveLock(p) ==
  /\ pc[p] = "rmdir"
  /\ lock' = Absent
  /\ Goto(p, "exited")
  /\ UNCHANGED <<guard, seen>>

Crash(p) == Alive(p) /\ Goto(p, "crashed") /\ UNCHANGED <<lock, guard, seen>>

-----------------------------------------------------------------------------
Acquire(p) ==
  \/ MakeLock(p) \/ LockExists(p) \/ Publish(p) \/ PublishFails(p)
  \/ Read(p) \/ Check(p) \/ Retry(p)
  \/ MakeGuard(p) \/ GuardExists(p) \/ Reread(p) \/ Recheck(p) \/ Steal(p) \/ Unguard(p)

Finish(p) ==
  \/ OperationEnds(p) \/ InheritedEnds(p)
  \/ ReadForRelease(p) \/ UnlinkOwner(p) \/ RemoveLock(p)

Next == \E p \in Procs : Start(p) \/ Acquire(p) \/ GiveUp(p) \/ Finish(p) \/ Crash(p)

Spec == Init /\ [][Next]_vars

(* A process that runs makes its next call; nobody has to start, to give up, *)
(* to finish its operation or to crash.                                       *)
LiveSpec == Spec /\ \A p \in Procs : WF_vars(Acquire(p))

-----------------------------------------------------------------------------
TypeOK ==
  /\ lock \in Procs \cup {Absent, Ownerless}
  /\ guard \in Procs \cup {NoProc}
  /\ pc \in [Procs -> PcStates]
  /\ seen \in [Procs -> Procs \cup {NoProc}]

(* Nobody released the lock and exited yet. *)
NobodyExited == \A r \in Procs : pc[r] # "exited"

(* Two processes never hold the lock together, and an inherited lease is      *)
(* covered by its holder unless that was killed, as long as no holder released *)
(* and exited: whatever crashes, wherever, and however many recoverers race.   *)
ExclusionUntilExit ==
  NobodyExited =>
    /\ \A p, q \in Procs : pc[p] = "held" /\ pc[q] = "held" => p = q
    /\ \A p \in Procs : pc[p] = "inherited" => pc[Parent[p]] \in {"held", "crashed"}

(* A lock whose published owner was killed is recovered by those who wait for *)
(* it, unless a recoverer was killed inside its guard.                        *)
Waiting(p) == pc[p] \in {"create", "read", "check", "wait", "recover", "reread",
                         "recheck", "steal", "unguard", "recovered"}
StaleLeaseRecovered ==
  \A d \in Procs :
    (lock = d /\ pc[d] = "crashed")
      ~> (lock # d \/ (guard \in Procs /\ pc[guard] = "crashed")
                   \/ \A p \in Procs : ~Waiting(p))

(* What the lock is for: one holder at a time.                                *)
MutualExclusion == \A p, q \in Procs : pc[p] = "held" /\ pc[q] = "held" => p = q
=============================================================================
