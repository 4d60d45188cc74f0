------------------------------- MODULE Closeout -------------------------------
(***************************************************************************)
(* extensions/dev-tools/closeout.ts: closing out a merged pull request.  Its *)
(* base branch is fast-forwarded, the worktree of its head is removed and    *)
(* the local head branch deleted.                                           *)
(*                                                                          *)
(* Closeouts of one repository exclude each other by a lock, as long as its   *)
(* holder refreshes it: a process that is blocked or paused for 10 s loses it *)
(* to another and goes on.  Whoever works in the repository does not take it: *)
(* files are edited and branches moved between any two git commands.  An      *)
(* action is one command, with the checks made on what it printed.            *)
(***************************************************************************)
EXTENDS FiniteSets

CONSTANTS Closeouts,  \* closeouts of the pull request, in one or several processes
          NoCloseout,
          Remotes, Repositories, PullRequestRepository  \* git remotes, GitHub repositories

VARIABLES
  pr,          \* merged, open, fork, protected
  closeStep, sawTree, sawHead,  \* of each closeout: where it is and what it saw
  holder,      \* who has pi-closeout.lock
  overtaken,   \* history: whether that was taken from a closeout that went on
  head,        \* the local head branch: at the PR's head, beyond it, or none
  tree,        \* the worktree of the head branch: on it, on another branch, on a commit, primary,
               \* around us, or none
  edited,      \* the worktrees with uncommitted work: "head", "base"
  base,        \* the local base branch: behind GitHub's, equal, or diverged
  fetched,     \* the remote-tracking base: stale, or fetched
  indexBusy,   \* another git process has the base worktree's index
  worked       \* ghost: what somebody did for the head branch: "edit", "commit", "stray"

repo == <<head, tree, edited, base, fetched, indexBusy, worked>>
lock == <<holder, overtaken>>
vars == <<pr, closeStep, sawTree, sawHead, lock, repo>>

Init == /\ pr \in {"merged", "open", "fork", "protected"}
        /\ closeStep = [c \in Closeouts |-> "start"]
        /\ sawTree = [c \in Closeouts |-> FALSE] /\ sawHead = [c \in Closeouts |-> FALSE]
        /\ holder = NoCloseout /\ overtaken = FALSE
        /\ head \in {"atPR", "beyond", "none"}
        /\ tree \in IF head = "none" THEN {"none"} ELSE {"onHead", "primary", "aroundUs", "none"}
        /\ edited \in {{}, {"base"}}
        /\ base \in {"behind", "equal", "diverged"}
        /\ fetched = "stale" /\ indexBusy = FALSE
        /\ worked = IF head = "beyond" THEN {"commit"} ELSE {}

Continues(c, s) == closeStep' = [closeStep EXCEPT ![c] = s] /\ UNCHANGED lock

(* A failure, or the end of the scope, removes the lock, whoever has it by then. *)
Locking == {"worktrees", "base", "head", "fetch", "ancestors", "reverify", "merge", "removeTree", "deleteHead"}

Ends(c, s) == /\ closeStep' = [closeStep EXCEPT ![c] = s]
              /\ holder' = IF closeStep[c] \in Locking THEN NoCloseout ELSE holder
              /\ UNCHANGED overtaken

(* Every command may fail by itself. *)
OrFails(c, check) == \/ Ends(c, "failed")
                     \/ check

Ensure(c, condition, s) == IF condition THEN Continues(c, s) ELSE Ends(c, "failed")

-----------------------------------------------------------------------------
(* Which pull request *)

(* The GitHub repositories of the remotes' URLs. *)
githubRepositoryFromRemote(urls) == [r \in Remotes |-> urls[r] \cap Repositories]

(* Without a URL all GitHub remotes must be of one repository; the remote that  *)
(* is taken must have one URL.                                                  *)
selectGitHubRemote(urls, requested) ==
  LET candidates == githubRepositoryFromRemote(urls)
      matches == UNION {candidates[r] : r \in Remotes} \cap (IF requested = {} THEN Repositories ELSE requested)
  IN IF Cardinality(matches) = 1 /\ \E r \in Remotes : urls[r] = matches THEN matches ELSE {}

(* The selected repository's pull request of that number or branch; one of     *)
(* another repository is refused.                                               *)
resolvePullRequest(c) ==
  /\ closeStep[c] = "start"
  /\ \E urls \in [Remotes -> SUBSET (Repositories \cup {"elsewhere"})],
        requested \in {{}} \cup {{r} : r \in Repositories} :
       Ensure(c, /\ selectGitHubRemote(urls, requested) = {PullRequestRepository}
                 /\ pr = "merged", "lock")
  /\ UNCHANGED <<pr, sawTree, sawHead, repo>>

-----------------------------------------------------------------------------
(* Under the lock *)

(* Taken when free, or when its holder has not refreshed it for 10 s, dead or not; *)
(* waited for, for two minutes.                                                   *)
acquireCloseoutLock(c) ==
  /\ closeStep[c] = "lock"
  /\ \/ /\ holder' = c /\ overtaken' = (overtaken \/ holder # NoCloseout)
        /\ closeStep' = [closeStep EXCEPT ![c] = "worktrees"]
     \/ Ends(c, "failed")
  /\ UNCHANGED <<pr, sawTree, sawHead, repo>>

verifiedHeadTree == tree \notin {"none", "elsewhere", "detached"} /\ "head" \notin edited

findWorktrees(c) ==
  /\ closeStep[c] = "worktrees"
  /\ sawTree' = [sawTree EXCEPT ![c] = tree \in {"onHead", "primary", "aroundUs"}]
  /\ OrFails(c, Ensure(c, sawTree'[c] => tree = "onHead" /\ verifiedHeadTree, "base"))
  /\ UNCHANGED <<pr, sawHead, repo>>

verifyBase(c) ==
  /\ closeStep[c] = "base"
  /\ OrFails(c, Ensure(c, "base" \notin edited, "head"))
  /\ UNCHANGED <<pr, sawTree, sawHead, repo>>

verifyLocalHead(c) ==
  /\ closeStep[c] = "head"
  /\ sawHead' = [sawHead EXCEPT ![c] = head # "none"]
  /\ OrFails(c, Ensure(c, (sawTree[c] => sawHead'[c]) /\ head # "beyond", "fetch"))
  /\ UNCHANGED <<pr, sawTree, repo>>

fetchPrune(c) ==
  /\ closeStep[c] = "fetch"
  /\ \/ fetched' = "fetched" /\ Continues(c, "ancestors")
     \/ Ends(c, "failed") /\ UNCHANGED fetched
  /\ UNCHANGED <<pr, sawTree, sawHead, head, tree, edited, base, indexBusy, worked>>

(* The base can fast-forward, and GitHub's base has the merge commit. *)
verifyAncestors(c) ==
  /\ closeStep[c] = "ancestors"
  /\ OrFails(c, Ensure(c, base # "diverged" /\ fetched = "fetched", "reverify"))
  /\ UNCHANGED <<pr, sawTree, sawHead, repo>>

(* What was seen before the fetch is looked at once more. *)
reverifyHead(c) ==
  /\ closeStep[c] = "reverify"
  /\ OrFails(c, Ensure(c, (sawTree[c] => verifiedHeadTree) /\ (sawHead[c] => head = "atPR"), "merge"))
  /\ UNCHANGED <<pr, sawTree, sawHead, repo>>

(* A busy index is waited for; each try looks at the base worktree again. *)
mergeBase(c) ==
  /\ closeStep[c] = "merge"
  /\ \/ /\ ~indexBusy /\ "base" \notin edited /\ base # "diverged"
        /\ base' = "equal" /\ Continues(c, "removeTree")
     \/ Ends(c, "failed") /\ UNCHANGED base
  /\ UNCHANGED <<pr, sawTree, sawHead, head, tree, edited, fetched, indexBusy, worked>>

(* Mutant: the worktree is removed by force. *)
removeWorktreeForced(c) ==
  /\ closeStep[c] = "removeTree"
  /\ IF ~sawTree[c] THEN Continues(c, "deleteHead") /\ UNCHANGED <<tree>>
     ELSE \/ /\ tree # "none"
             /\ tree' = "none" /\ Continues(c, "deleteHead")
          \/ Ends(c, "failed") /\ UNCHANGED tree
  /\ UNCHANGED <<pr, sawTree, sawHead, head, edited, base, fetched, indexBusy, worked>>

(* git removes a worktree only without uncommitted work. *)
removeWorktree(c) ==
  /\ closeStep[c] = "removeTree"
  /\ IF ~sawTree[c] THEN Continues(c, "deleteHead") /\ UNCHANGED <<tree>>
     ELSE \/ /\ tree # "none" /\ "head" \notin edited
             /\ tree' = "none" /\ Continues(c, "deleteHead")
          \/ Ends(c, "failed") /\ UNCHANGED tree
  /\ UNCHANGED <<pr, sawTree, sawHead, head, edited, base, fetched, indexBusy, worked>>

(* git deletes the branch only where the pull request left it. *)
deleteHeadBranch(c) ==
  /\ closeStep[c] = "deleteHead"
  /\ IF ~sawHead[c] THEN Ends(c, "closed") /\ UNCHANGED head
     ELSE \/ head = "atPR" /\ head' = "none" /\ Ends(c, "closed")
          \/ Ends(c, "failed") /\ UNCHANGED head
  /\ UNCHANGED <<pr, sawTree, sawHead, tree, edited, base, fetched, indexBusy, worked>>

-----------------------------------------------------------------------------
(* Whoever works in the repository *)

EditHead == /\ tree # "none" /\ edited' = edited \cup {"head"} /\ worked' = worked \cup {"edit"}
            /\ UNCHANGED <<pr, closeStep, sawTree, sawHead, lock, head, tree, base, fetched, indexBusy>>

(* In its worktree, or by moving the branch. *)
CommitHead == /\ (head # "none" \/ tree = "onHead") /\ head' = "beyond" /\ worked' = worked \cup {"commit"}
              /\ UNCHANGED <<pr, closeStep, sawTree, sawHead, lock, tree, edited, base, fetched, indexBusy>>

AddTree == /\ tree = "none" /\ head # "none" /\ tree' = "onHead"
           /\ UNCHANGED <<pr, closeStep, sawTree, sawHead, lock, head, edited, base, fetched, indexBusy, worked>>

SwitchHead == /\ tree = "onHead" /\ "head" \notin edited /\ tree' \in {"elsewhere", "detached"}
              /\ UNCHANGED <<pr, closeStep, sawTree, sawHead, lock, head, edited, base, fetched, indexBusy, worked>>

(* Commits that were made off the branch are left behind. *)
SwitchBack == /\ tree \in {"elsewhere", "detached"} /\ head # "none" /\ "head" \notin edited /\ tree' = "onHead"
              /\ worked' = worked \ {"stray"}
              /\ UNCHANGED <<pr, closeStep, sawTree, sawHead, lock, head, edited, base, fetched, indexBusy>>

(* A commit on no branch goes with the worktree.  Once a closeout has looked at the *)
(* worktree for the last time it is not counted.                                  *)
LookedLast(c) == sawTree[c] /\ closeStep[c] \in {"merge", "removeTree"}

CommitDetached == /\ tree = "detached" /\ \A c \in Closeouts : ~LookedLast(c)
                  /\ worked' = worked \cup {"stray"}
                  /\ UNCHANGED <<pr, closeStep, sawTree, sawHead, lock, head, tree, edited, base, fetched, indexBusy>>

EditBase == /\ edited' = IF "base" \in edited THEN edited \ {"base"} ELSE edited \cup {"base"}
            /\ UNCHANGED <<pr, closeStep, sawTree, sawHead, lock, head, tree, base, fetched, indexBusy, worked>>

CommitBase == /\ base = "behind" /\ base' = "diverged"
              /\ UNCHANGED <<pr, closeStep, sawTree, sawHead, lock, head, tree, edited, fetched, indexBusy, worked>>

UseIndex == /\ indexBusy' = ~indexBusy
            /\ UNCHANGED <<pr, closeStep, sawTree, sawHead, lock, head, tree, edited, base, fetched, worked>>

Others == \/ EditHead \/ CommitHead \/ AddTree \/ SwitchHead \/ SwitchBack \/ CommitDetached
          \/ EditBase \/ CommitBase \/ UseIndex

Next == \/ \E c \in Closeouts :
             \/ resolvePullRequest(c) \/ acquireCloseoutLock(c) \/ findWorktrees(c) \/ verifyBase(c)
             \/ verifyLocalHead(c) \/ fetchPrune(c) \/ verifyAncestors(c) \/ reverifyHead(c)
             \/ mergeBase(c) \/ removeWorktree(c) \/ deleteHeadBranch(c)
        \/ Others

Spec == Init /\ [][Next]_vars

-----------------------------------------------------------------------------
(* Work that anybody did in the head worktree, before or during a closeout, is *)
(* not lost, though the lock may have two holders: edits are in the worktree,   *)
(* commits on the branch, and those on no branch in the worktree, if they were  *)
(* made before a closeout that removes it looked at it last.  What a closeout   *)
(* takes away is on the local base branch first; and until a lock is overtaken  *)
(* closeouts take turns.                                                        *)
WorkSurvives == /\ worked \cap {"edit", "stray"} # {} => tree # "none"
                /\ "commit" \in worked => head = "beyond"

RemovesOnlyMerged ==
  \A c \in Closeouts :
    /\ closeStep[c] \in {"deleteHead", "closed"} => pr = "merged" /\ base = "equal"
    /\ closeStep[c] \in Locking => overtaken \/ holder = c

CloseoutKeepsWork == WorkSurvives /\ RemovesOnlyMerged
===============================================================================
