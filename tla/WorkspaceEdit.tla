----------------------------- MODULE WorkspaceEdit -----------------------------
(***************************************************************************)
(* extensions/dev-tools/workspace-edit.ts and handleRename: a rename, which *)
(* the language server turned into edits of several files.                  *)
(*                                                                          *)
(* New texts are staged beside the files, the files are compared once more, *)
(* and then each is moved aside and replaced.  Someone else may write a     *)
(* file at any time, any call of the file system may fail, and the daemon   *)
(* may die.  An action is one such call, or what one outcome of it does.    *)
(*                                                                          *)
(* A text is the set of the changes in it: "edit" is the rename, "theirs"   *)
(* what somebody else wrote.                                                *)
(***************************************************************************)
EXTENDS Integers, FiniteSets, SequencesExt

CONSTANTS
  Targets,    \* the files, in the order of the edit
  Versioned   \* those whose document version the server named

VARIABLES
  text, staged, aside,   \* the file, its staged text and its backup
  source,     \* the text each file was read with
  compared,   \* files found unchanged since
  backedUp,   \* files moved aside, in order
  undone,     \* of these, where the rollback of each is
  k,          \* the file staged or swapped next
  at,         \* where the edit is
  wrote       \* when someone else wrote each file: before it was compared or after

vars == <<text, staged, aside, source, compared, backedUp, undone, k, at, wrote>>

Absent == {"absent"}
Edited == ToSet(Targets)

Init == /\ text = [f \in Edited |-> {}]
        /\ staged = [f \in Edited |-> Absent]
        /\ aside = [f \in Edited |-> Absent]
        /\ source = [f \in Edited |-> Absent]
        /\ compared = {} /\ backedUp = <<>>
        /\ undone = [f \in Edited |-> "no"]
        /\ k = 1 /\ at = "parse"
        /\ wrote = [f \in Edited |-> "never"]

-----------------------------------------------------------------------------
(* Before anything is written *)

(* The edit is well formed and names no file twice, or it is refused. *)
Parse ==
  /\ at = "parse"
  /\ at' \in {"authorize", "failed"}
  /\ UNCHANGED <<text, staged, aside, source, compared, backedUp, undone, k, wrote>>

(* Every file lies in the workspace, by its path and by its real path, and      *)
(* belongs to one backend; or the edit is refused.                              *)
Authorize ==
  /\ at = "authorize"
  /\ at' \in {"read", "failed"}
  /\ UNCHANGED <<text, staged, aside, source, compared, backedUp, undone, k, wrote>>

(* A document of the server's version must also have the server's text.  The  *)
(* edits are applied once everything is read, unless they do not fit.          *)
Read(f) ==
  /\ at = "read" /\ source[f] = Absent
  /\ IF text[f] # Absent /\ (f \in Versioned => text[f] = {})
     THEN /\ source' = [source EXCEPT ![f] = text[f]]
          /\ at' \in IF \A g \in Edited \ {f} : source[g] # Absent
                     THEN {"stage", "failed"} ELSE {"read", "failed"}
     ELSE at' = "failed" /\ UNCHANGED source
  /\ UNCHANGED <<text, staged, aside, compared, backedUp, undone, k, wrote>>

(* What remains of the staged files if each removal may fail. *)
MayRemain(s) == {t \in [Edited -> {Absent} \cup {s[f] : f \in Edited}] : \A f \in Edited : t[f] \in {Absent, s[f]}}

Discard == /\ staged' \in MayRemain(staged)
           /\ at' = "failed"

Stage ==
  /\ at = "stage"
  /\ \/ /\ staged' = [staged EXCEPT ![Targets[k]] = source[Targets[k]] \cup {"edit"}]
        /\ k' = IF k = Len(Targets) THEN 1 ELSE k + 1
        /\ at' = IF k = Len(Targets) THEN "compare" ELSE at
     \/ Discard /\ UNCHANGED k
  /\ UNCHANGED <<text, aside, source, compared, backedUp, undone, wrote>>

Compare(f) ==
  /\ at = "compare" /\ f \notin compared
  /\ IF text[f] = source[f]
     THEN /\ compared' = compared \cup {f}
          /\ at' = IF compared' = Edited THEN "swap" ELSE at
          /\ UNCHANGED staged
     ELSE Discard /\ UNCHANGED compared
  /\ UNCHANGED <<text, aside, source, backedUp, undone, k, wrote>>

-----------------------------------------------------------------------------
(* Replacing *)

(* Mutant: a file counts as moved aside only when it was replaced as well. *)
MoveAsideUnrecorded ==
  /\ at = "swap"
  /\ \/ /\ text[Targets[k]] # Absent
        /\ aside' = [aside EXCEPT ![Targets[k]] = text[Targets[k]]]
        /\ text' = [text EXCEPT ![Targets[k]] = Absent]
        /\ backedUp' = SubSeq(Targets, 1, k - 1)
        /\ at' = "replace"
     \/ /\ at' = "rollback"
        /\ UNCHANGED <<text, aside, backedUp>>
  /\ UNCHANGED <<staged, source, compared, undone, k, wrote>>

MoveAside ==
  /\ at = "swap"
  /\ \/ /\ text[Targets[k]] # Absent
        /\ aside' = [aside EXCEPT ![Targets[k]] = text[Targets[k]]]
        /\ text' = [text EXCEPT ![Targets[k]] = Absent]
        /\ backedUp' = Append(backedUp, Targets[k])
        /\ at' = "replace"
     \/ /\ at' = "rollback"
        /\ UNCHANGED <<text, aside, backedUp>>
  /\ UNCHANGED <<staged, source, compared, undone, k, wrote>>

Replace ==
  /\ at = "replace"
  /\ \/ /\ text' = [text EXCEPT ![Targets[k]] = staged[Targets[k]]]
        /\ staged' = [staged EXCEPT ![Targets[k]] = Absent]
        /\ k' = IF k = Len(Targets) THEN k ELSE k + 1
        /\ at' = IF k = Len(Targets) THEN "tidy" ELSE "swap"
     \/ /\ at' = "rollback"
        /\ UNCHANGED <<text, staged, k>>
  /\ UNCHANGED <<aside, source, compared, backedUp, undone, wrote>>

(* Backups are removed if that succeeds.  The documents are refreshed in the  *)
(* server, which may fail; the edit is made all the same.                     *)
Tidy ==
  /\ at = "tidy"
  /\ aside' \in MayRemain(aside)
  /\ at' \in {"applied", "notRefreshed"}
  /\ UNCHANGED <<text, staged, source, compared, backedUp, undone, k, wrote>>

-----------------------------------------------------------------------------
(* Rolling back, every file on its own *)

RemoveNew(f) ==
  /\ at = "rollback" /\ f \in ToSet(backedUp) /\ undone[f] = "no"
  /\ \/ text' = [text EXCEPT ![f] = Absent] /\ undone' = [undone EXCEPT ![f] = "removed"]
     \/ undone' = [undone EXCEPT ![f] = "rejected"] /\ UNCHANGED text
  /\ UNCHANGED <<staged, aside, source, compared, backedUp, k, at, wrote>>

Restore(f) ==
  /\ at = "rollback" /\ undone[f] = "removed"
  /\ \/ /\ text' = [text EXCEPT ![f] = aside[f]]
        /\ aside' = [aside EXCEPT ![f] = Absent]
        /\ undone' = [undone EXCEPT ![f] = "fulfilled"]
     \/ undone' = [undone EXCEPT ![f] = "rejected"] /\ UNCHANGED <<text, aside>>
  /\ UNCHANGED <<staged, source, compared, backedUp, k, at, wrote>>

RolledBack ==
  /\ at = "rollback" /\ \A f \in ToSet(backedUp) : undone[f] \in {"fulfilled", "rejected"}
  /\ staged' \in MayRemain(staged)
  /\ at' = IF \E f \in Edited : undone[f] = "rejected" THEN "incomplete" ELSE "failed"
  /\ UNCHANGED <<text, aside, source, compared, backedUp, undone, k, wrote>>

-----------------------------------------------------------------------------
(* Someone else writes a file, once, or the daemon dies. *)

WrittenByOther(f) ==
  /\ wrote[f] = "never"
  /\ text' = [text EXCEPT ![f] = IF @ = Absent THEN {"theirs"} ELSE @ \cup {"theirs"}]
  /\ wrote' = [wrote EXCEPT ![f] = IF f \in compared THEN "late" ELSE "early"]
  /\ UNCHANGED <<staged, aside, source, compared, backedUp, undone, k, at>>

Over == {"applied", "notRefreshed", "failed", "incomplete", "dead"}

Crash == /\ at \notin Over /\ at' = "dead"
         /\ UNCHANGED <<text, staged, aside, source, compared, backedUp, undone, k, wrote>>

Next == \/ Parse \/ Authorize \/ Stage \/ MoveAside \/ Replace \/ Tidy \/ RolledBack \/ Crash
        \/ \E f \in Edited : Read(f) \/ Compare(f) \/ RemoveNew(f) \/ Restore(f) \/ WrittenByOther(f)

Spec == Init /\ [][Next]_vars

-----------------------------------------------------------------------------
(* What a file held, with what others wrote until it was compared, is never    *)
(* lost: it is the file, or its backup, or it is under the edit.  An edit that *)
(* was applied is in every file; one that failed is in none, and all are       *)
(* there.  (Nothing is promised to who writes after the comparison.)           *)
AllOrNothing ==
  LET Kept(f, t) == t # Absent /\ ("theirs" \in t <=> wrote[f] = "early")
      Early == {f \in Edited : wrote[f] # "late"}
  IN \A f \in Early :
       /\ Kept(f, text[f]) \/ Kept(f, aside[f])
       /\ at \in {"applied", "notRefreshed"} => Kept(f, text[f]) /\ "edit" \in text[f]
       /\ at = "failed" => Kept(f, text[f]) /\ "edit" \notin text[f]
=============================================================================
