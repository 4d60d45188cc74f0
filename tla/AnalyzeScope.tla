----------------------------- MODULE AnalyzeScope ------------------------------
(***************************************************************************)
(* src/analyze/scope.ts and program.ts: the files an analysis is about, from  *)
(* explicit paths or from what git says has changed, and the sources that are  *)
(* loaded of them, within limits on their number and bytes.                   *)
(*                                                                          *)
(* The worktree goes on being edited between the steps.                       *)
(***************************************************************************)
EXTENDS Integers, SequencesExt, FiniteSetsExt

CONSTANTS
  Paths,         \* the files of the worktree, in git's order
  Dir,           \* a directory, and
  InDir,         \* those of the files that are in it
  Unanalyzable,  \* files without an extension that is looked at
  Skipped,       \* files below a directory that is skipped
  Tests,         \* files that are tests; others are production sources
  FileSizes,     \* sizes of a file; 0 is absent
  MaxFiles, MaxEntries, MaxFileBytes, MaxTotalBytes,
  MaxEdits       \* bound: edits of the worktree meanwhile

Files == ToSet(Paths)

(* What git says of a file: a name with a space gets a tab behind it in a diff, and   *)
(* one with other characters is quoted, in a diff and in a list.                     *)
Changes == {"same", "plain", "spaced", "quoted", "deleted", "untracked", "quotedUntracked"}

VARIABLES
  disk,      \* size of each file
  change,    \* what git says of each
  asked,     \* the request: diff, or paths
  select,    \* production, tests or both
  at,        \* where the analysis is
  left,      \* paths still to be expanded, or files to be read
  entries,   \* directory entries visited
  scope,     \* the files found
  hunks,     \* for a diff, the files whose hunks each file was given
  sources,   \* files loaded
  bytes,     \* and their bytes
  edits      \* bound: edits so far

scopeVars == <<disk, change, asked, select, at, left, entries, scope, hunks, sources, bytes, edits>>

Requests == {[mode |-> "diff", paths |-> {}]}
            \union {[mode |-> "paths", paths |-> p] : p \in (SUBSET (Files \union {Dir})) \ {{}}}

Init == /\ asked \in Requests /\ select \in {{"production"}, {"tests"}, {"production", "tests"}}
        /\ disk \in [Files -> FileSizes]
        /\ change \in IF asked.mode = "diff" THEN [Files -> Changes] ELSE [Files -> {"same"}]
        /\ \A f \in Files : change[f] = "deleted" => disk[f] = 0
        /\ \A f \in Files : change[f] \notin {"same", "deleted"} => disk[f] > 0
        /\ at = "resolve" /\ left = asked.paths /\ entries = 0 /\ scope = {} /\ hunks = <<>>
        /\ sources = {} /\ bytes = 0 /\ edits = 0

(* The worktree is edited: a file grows, or disappears. *)
Edit == /\ edits < MaxEdits /\ at \notin {"resolve", "loaded", "failed"} /\ edits' = edits + 1
        /\ \E f \in Files, size \in FileSizes : disk[f] # size /\ disk[f] > 0 /\ disk' = [disk EXCEPT ![f] = size]
        /\ UNCHANGED <<change, asked, select, at, left, entries, scope, hunks, sources, bytes>>

Failed == /\ at' = "failed"
          /\ UNCHANGED <<disk, change, asked, select, left, entries, scope, hunks, sources, bytes, edits>>

-----------------------------------------------------------------------------
(* The scope *)

eligibleScopePath(f) == f \notin Unanalyzable \union Skipped

(* A file is added when its extension is one that is looked at. *)
addAnalyzableFile(f) == {f} \ Unanalyzable

(* A directory is walked past those that are skipped, up to a number of entries. *)
walkDirectory == {f \in InDir : disk[f] > 0}

(* What is absent or skipped is passed over. *)
expandExplicitPath ==
  /\ at = "resolve" /\ asked.mode = "paths" /\ left # {}
  /\ \E p \in left :
       LET walked == IF p = Dir THEN walkDirectory ELSE {}
           added == IF p = Dir THEN UNION {addAnalyzableFile(f) : f \in walked \ Skipped}
                    ELSE IF disk[p] = 0 \/ p \in Skipped THEN {} ELSE addAnalyzableFile(p)
       IN
       IF entries + Cardinality(walked) > MaxEntries \/ Cardinality(scope \union added) > MaxFiles THEN Failed
       ELSE /\ left' = left \ {p} /\ entries' = entries + Cardinality(walked) /\ scope' = scope \union added
            /\ UNCHANGED <<disk, change, asked, select, at, hunks, sources, bytes, edits>>

(* parseUnifiedHunks: hunks belong to the file of the last header that was       *)
(* recognized.  One of a deleted file, or of a name that is quoted, is not.       *)
Sections == {i \in DOMAIN Paths : change[Paths[i]] \in {"plain", "spaced", "quoted", "deleted"}}
Headers == {i \in Sections : change[Paths[i]] \in {"plain", "spaced"}}

parseUnifiedHunks ==
  LET Header(i) == Max({j \in Headers : j <= i})
      Own(f) == {i \in Sections : (\E j \in Headers : j <= i) /\ Paths[Header(i)] = f}
  IN [f \in {Paths[i] : i \in Headers} |-> {Paths[i] : i \in Own(f)}]

(* What differs from the base, and all of what is not tracked.  The extension of a *)
(* name that has a tab or a quote behind it is none that is looked at.            *)
resolveDiff ==
  /\ at = "resolve" /\ asked.mode = "diff"
  /\ LET found == parseUnifiedHunks
         changed == {f \in DOMAIN found : change[f] = "plain" /\ eligibleScopePath(f)}
         untracked == {f \in Files : change[f] = "untracked" /\ eligibleScopePath(f)}
     IN
     IF Cardinality(changed \union untracked) > MaxFiles THEN Failed
     ELSE /\ hunks' = [f \in changed \union untracked |-> IF f \in untracked THEN {f} ELSE found[f]]
          /\ scope' = changed \union untracked /\ at' = "project"
          /\ UNCHANGED <<disk, change, asked, select, left, entries, sources, bytes, edits>>

(* Git fails, or says more than is read. *)
gitFails == at = "resolve" /\ asked.mode = "diff" /\ Failed

resolved == /\ at = "resolve" /\ asked.mode = "paths" /\ left = {}
            /\ at' = "project"
            /\ UNCHANGED <<disk, change, asked, select, left, entries, scope, hunks, sources, bytes, edits>>

-----------------------------------------------------------------------------
(* The project *)

sourceCategory(f) == IF f \in Tests THEN "tests" ELSE "production"

(* Every file of the scope must still be there; those of the category are taken. *)
createExplicitSyntaxProject ==
  /\ at = "project"
  /\ LET selected == {f \in scope : sourceCategory(f) \in select} IN
     IF (\E f \in scope : disk[f] = 0) \/ Cardinality(selected) > MaxFiles THEN Failed
     ELSE /\ left' = selected /\ at' = "read"
          /\ UNCHANGED <<disk, change, asked, select, entries, scope, hunks, sources, bytes, edits>>

(* readBoundedSource: no more of a file is read than the limit and one byte, so   *)
(* that a file that grows is noticed as well.                                    *)
readSource ==
  /\ at = "read"
  /\ \E f \in left :
       IF disk[f] = 0 \/ disk[f] > MaxFileBytes \/ bytes + disk[f] > MaxTotalBytes THEN Failed
       ELSE /\ left' = left \ {f} /\ sources' = sources \union {f} /\ bytes' = bytes + disk[f]
            /\ UNCHANGED <<disk, change, asked, select, at, entries, scope, hunks, edits>>

loaded == /\ at = "read" /\ left = {} /\ at' = "loaded"
          /\ UNCHANGED <<disk, change, asked, select, left, entries, scope, hunks, sources, bytes, edits>>

Next == \/ Edit \/ expandExplicitPath \/ resolveDiff \/ gitFails \/ resolved
        \/ createExplicitSyntaxProject \/ readSource \/ loaded
Spec == Init /\ [][Next]_scopeVars

-----------------------------------------------------------------------------
(* What the request is about: the paths and what is in them, or what git says has   *)
(* changed and is there.  Changed files that git writes in another way than they     *)
(* are called are overlooked, and nothing is said of them.                          *)
Asked == IF asked.mode = "diff" THEN {f \in Files : change[f] \notin {"same", "deleted"}}
         ELSE (asked.paths \ {Dir}) \union IF Dir \in asked.paths THEN InDir ELSE {}
Overlooked == IF asked.mode = "diff" THEN {f \in Files : change[f] \in {"spaced", "quoted", "quotedUntracked"}} ELSE {}

(* What is loaded is within the limits.  Of what was asked for and was not overlooked  *)
(* nothing is missing: every file that was there, can be looked at and is of the      *)
(* category, or the analysis has failed; nothing else is loaded.  Of a diff no hunk     *)
(* of such a file is lost, and hunks of others that it was given are those of files     *)
(* that were deleted or whose names are quoted.                                     *)
ScopeIsLoaded ==
  at = "loaded" =>
    /\ Cardinality(sources) <= MaxFiles /\ bytes <= MaxTotalBytes
    /\ sources \subseteq {f \in Asked \ Overlooked : eligibleScopePath(f) /\ sourceCategory(f) \in select}
    /\ \A f \in Asked \ Overlooked :
         disk[f] > 0 /\ eligibleScopePath(f) /\ sourceCategory(f) \in select => f \in sources
    /\ asked.mode = "diff" =>
         \A f \in scope : f \in hunks[f] /\ \A g \in hunks[f] : g = f \/ change[g] \in {"quoted", "deleted"}
================================================================================
