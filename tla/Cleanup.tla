------------------------------- MODULE Cleanup --------------------------------
(***************************************************************************)
(* extensions/dev-tools/cleanup-core.ts: /cleanup plans which worktrees and   *)
(* local branches can go, and applies the plan.                              *)
(*                                                                          *)
(* It looks at the repository with one git command after the other; others   *)
(* commit, push and edit meanwhile, so that what was planned for a branch may *)
(* no longer hold when it is its turn.  Any command may fail or time out,     *)
(* which planning takes for what it prints then: nothing.  git itself refuses *)
(* to remove a worktree with uncommitted work and a branch that a worktree is  *)
(* on and, with -d, a branch whose commits its upstream does not have or,      *)
(* without an upstream, what is checked out does not.                         *)
(***************************************************************************)
EXTENDS FiniteSets

CONSTANTS Branches, ProtectedBranches  \* the local branches but the current one

VARIABLES
  cleaning,      \* fetch, list, classify, worktrees, branches, done, failed
  force,         \* --force
  merged,        \* branches whose commits are in the base and in what is checked out
  onRemote,      \* branches that GitHub still has
  tracked,       \* branches with a remote-tracking ref, their upstream
  pushed,        \* branches whose commits GitHub was given
  trees,         \* branches a worktree was made for
  detached,      \* of these, where the worktree has left the branch for a commit
  dirty,         \* of these, where uncommitted work is
  stray,         \* ghost: where commits were made off the branch before worktrees were listed
  gone,          \* branches deleted
  listedTrees,   \* the worktrees that were listed
  plan,          \* the disposition of each branch
  turn           \* targets that were dealt with in this phase

refs == <<merged, onRemote, tracked, pushed>>
work == <<trees, detached, dirty, stray>>
planned == <<force, listedTrees, plan>>
vars == <<cleaning, planned, refs, work, gone, turn>>

Init == /\ cleaning = "fetch" /\ force \in BOOLEAN
        /\ merged \in SUBSET Branches /\ onRemote \in SUBSET Branches /\ pushed \in SUBSET Branches
        /\ tracked \in {onRemote, Branches}
        /\ trees \in SUBSET Branches /\ detached = {} /\ dirty \in SUBSET trees /\ stray = {}
        /\ gone = {} /\ listedTrees = {} /\ plan = [b \in Branches |-> "none"]
        /\ turn = {}

(* Branches whose commits are to be had elsewhere. *)
Kept == merged \cup (pushed \cap tracked)

-----------------------------------------------------------------------------
(* Planning *)

(* A fetch that fails is only warned of; --no-fetch leaves it out. *)
fetch == /\ cleaning = "fetch" /\ cleaning' = "list"
         /\ tracked' \in {onRemote, tracked}
         /\ UNCHANGED <<planned, merged, onRemote, pushed, work, gone, turn>>

(* A detached worktree is left alone.  Of a list that fails none is known. *)
listWorktrees == /\ cleaning = "list" /\ cleaning' = "classify"
                 /\ listedTrees' \in {trees \ detached, {}}
                 /\ UNCHANGED <<force, plan, refs, work, gone, turn>>

(* A status, merge-base or show-ref that fails is taken for one that found nothing  *)
(* uncommitted, no ancestor, no such ref.  A worktree's own commit may be merged     *)
(* instead of its branch's.                                                       *)
isDirty(b, used) == used => b \in listedTrees \cap dirty
isAncestor(b, found) == found => b \in merged \cup (listedTrees \cap detached)
remoteGone(b, none) == b \notin tracked => none

mergeState(found, none) == IF found THEN "safe" ELSE IF none THEN "needs-force" ELSE "skipped"

classifyTarget(b) ==
  /\ cleaning = "classify" /\ b \notin turn
  /\ \E used, found, none \in BOOLEAN :
       /\ isDirty(b, used) /\ isAncestor(b, found) /\ remoteGone(b, none)
       /\ plan' = [plan EXCEPT ![b] = IF b \in ProtectedBranches \/ used THEN "skipped" ELSE mergeState(found, none)]
  /\ turn' = IF turn \cup {b} = Branches THEN {} ELSE turn \cup {b}
  /\ cleaning' = IF turn' = {} THEN "worktrees" ELSE cleaning
  /\ UNCHANGED <<force, listedTrees, refs, work, gone>>

-----------------------------------------------------------------------------
(* Applying *)

Removable == {b \in Branches : plan[b] = "safe" \/ (force /\ plan[b] = "needs-force")}

(* A failed command ends the command: what was removed stays removed. *)
Fails == cleaning' = "failed" /\ UNCHANGED <<work, gone, turn>>
Settles(b) == turn' = turn \cup {b} /\ UNCHANGED cleaning

removeWorktree(b) ==
  /\ cleaning = "worktrees" /\ b \in (Removable \cap listedTrees) \ turn
  /\ \/ /\ b \in trees \ dirty /\ Settles(b)
        /\ trees' = trees \ {b} /\ detached' = detached \ {b} /\ UNCHANGED <<dirty, stray, gone>>
     \/ b \notin trees /\ Settles(b) /\ UNCHANGED <<work, gone>>
     \/ b \in trees /\ Fails
  /\ UNCHANGED <<planned, refs>>

worktreesRemoved ==
  /\ cleaning = "worktrees" /\ Removable \cap listedTrees \subseteq turn
  /\ cleaning' = "branches" /\ turn' = {}
  /\ UNCHANGED <<planned, refs, work, gone>>

(* -D for what needs force, -d for what is safe. *)
GitDeletes(b) == plan[b] = "needs-force" \/ b \in (IF b \in tracked THEN pushed ELSE merged)

(* A branch that git does not show is passed over. *)
deleteBranch(b) ==
  /\ cleaning = "branches" /\ b \in Removable \ turn
  /\ \/ /\ b \notin trees \ detached /\ GitDeletes(b) /\ Settles(b)
        /\ gone' = gone \cup {b} /\ UNCHANGED work
     \/ Settles(b) /\ UNCHANGED <<work, gone>>
     \/ Fails
  /\ UNCHANGED <<planned, refs>>

done == /\ cleaning = "branches" /\ Removable \subseteq turn /\ cleaning' = "done"
        /\ UNCHANGED <<planned, refs, work, gone, turn>>

applyCleanupPlan == (\E b \in Branches : removeWorktree(b) \/ deleteBranch(b)) \/ worktreesRemoved \/ done

-----------------------------------------------------------------------------
(* Whoever works in the repository meanwhile *)

Others == UNCHANGED <<cleaning, planned, gone, turn>>

Commit(b) == /\ b \notin gone /\ merged' = merged \ {b} /\ pushed' = pushed \ {b}
             /\ Others /\ UNCHANGED <<onRemote, tracked, work>>

(* A push makes a remote-tracking ref, here the branch's upstream. *)
Push(b) == /\ b \notin gone /\ pushed' = pushed \cup {b}
           /\ onRemote' = onRemote \cup {b} /\ tracked' = tracked \cup {b}
           /\ Others /\ UNCHANGED <<merged, work>>

Edit(b) == /\ b \in trees /\ dirty' = dirty \cup {b}
           /\ Others /\ UNCHANGED <<refs, trees, detached, stray>>

Detach(b) == /\ b \in trees /\ detached' = detached \cup {b}
             /\ Others /\ UNCHANGED <<refs, trees, dirty, stray>>

(* Commits off the branch after the worktrees were listed go with the worktree. *)
CommitDetached(b) == /\ b \in detached /\ cleaning \in {"fetch", "list"} /\ stray' = stray \cup {b}
                     /\ Others /\ UNCHANGED <<refs, trees, detached, dirty>>

TakeTree(b) == /\ b \in trees /\ trees' = trees \ {b} /\ detached' = detached \ {b}
               /\ dirty' = dirty \ {b} /\ stray' = stray \ {b}
               /\ Others /\ UNCHANGED refs

Next == \/ fetch \/ listWorktrees \/ applyCleanupPlan
        \/ \E b \in Branches : \/ classifyTarget(b) \/ Commit(b) \/ Push(b) \/ Edit(b)
                               \/ Detach(b) \/ CommitDetached(b) \/ TakeTree(b)

Spec == Init /\ [][Next]_vars

-----------------------------------------------------------------------------
(* A branch whose commits are nowhere else goes only by force, and then only if it  *)
(* was planned for it; one that was planned as safe is kept if others committed to  *)
(* it since.  A protected branch never goes.  Uncommitted work keeps its worktree,  *)
(* and so do commits on a detached HEAD that were made before worktrees were        *)
(* listed.  (By force the only copy of work does go: that of a branch never pushed, *)
(* one committed to after the plan, and any unmerged one whose remote ref git       *)
(* failed to show.)                                                              *)
CleanupKeepsWork ==
  /\ \A b \in gone : b \in Kept \/ (force /\ plan[b] = "needs-force")
  /\ gone \cap ProtectedBranches = {} /\ dirty \cup stray \subseteq trees
===============================================================================
