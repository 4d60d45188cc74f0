---------------------------- MODULE AnalysisJournal ----------------------------
(***************************************************************************)
(* src/analyze/journal.ts: the record of analyses, a directory of bounded     *)
(* files.  Lines go to the current file, which is renamed aside when it is     *)
(* full; old files are removed by age, number and total size.                 *)
(*                                                                          *)
(* Each process opens its own journal of the same directory; nothing keeps     *)
(* two from listing, renaming and removing the same files at the same time.    *)
(***************************************************************************)
EXTENDS Integers, Sequences, FiniteSetsExt

CONSTANTS
  Writers,           \* processes, each opens the journal once
  JournalFileBytes, JournalTotalBytes, JournalFiles,  \* the limits of normalizeOptions
  LineBytes,         \* sizes of a line, none above that of a file
  MaxAppends         \* bound: lines that are appended

VARIABLES
  rotated,  \* the files renamed aside
  current,  \* the file at the name that is written to, or 0
  size,     \* the bytes of every file there was
  mtime,    \* when it was written last, the latest of all being the highest
  step,     \* where each process is
  after,    \* what it opens after it has pruned
  line,     \* the bytes of the line it appends
  handle,   \* the file it has open
  bytes,    \* the bytes it takes its file to have
  seen,     \* the names it listed
  opened,   \* processes that ever opened the journal
  appends   \* bound: lines so far

dirVars == <<rotated, current, size, mtime>>
journalVars == <<dirVars, step, after, line, handle, bytes, seen, opened, appends>>

None == 0
Unlisted == [rotated |-> {}, current |-> FALSE]

Init == /\ rotated = {} /\ current = None /\ size = <<>> /\ mtime = <<>>
        /\ step = [p \in Writers |-> "closed"] /\ after = [p \in Writers |-> "initOpen"]
        /\ line = [p \in Writers |-> 0] /\ handle = [p \in Writers |-> None] /\ bytes = [p \in Writers |-> 0]
        /\ seen = [p \in Writers |-> Unlisted] /\ opened = {} /\ appends = 0

(* The bytes of these files, and of the current one. *)
TotalBytes(files, isCurrent) ==
  Cardinality(UNION {{f} \X (1 .. size[f]) : f \in files \union (IF isCurrent /\ current # None THEN {current} ELSE {})})

GoTo(p, s) == step' = [step EXCEPT ![p] = s]

(* The journal gives up at the first error. *)
disable(p) == /\ GoTo(p, "disabled") /\ handle' = [handle EXCEPT ![p] = None]
              /\ UNCHANGED <<dirVars, after, line, bytes, seen, opened, appends>>

-----------------------------------------------------------------------------
open(p) ==
  /\ p \notin opened /\ GoTo(p, "prune") /\ after' = [after EXCEPT ![p] = "initOpen"]
  /\ opened' = opened \union {p} /\ line' = [line EXCEPT ![p] = 0]
  /\ UNCHANGED <<dirVars, handle, bytes, seen, appends>>

(* listJournalFiles, its first half: the names. *)
readdir(p) ==
  /\ step[p] \in {"prune", "capacity"}
  /\ seen' = [seen EXCEPT ![p] = [rotated |-> rotated, current |-> current # None]]
  /\ GoTo(p, IF step[p] = "prune" THEN "pruning" ELSE "making")
  /\ UNCHANGED <<dirVars, after, line, handle, bytes, opened, appends>>

(* The second half: a name that is gone by now is an error. *)
StatFails(p) == ~(seen[p].rotated \subseteq rotated) \/ (seen[p].current /\ current = None)

(* Files go from the oldest on: what is left of those listed was written last.  *)
Newest(p) == {kept \in SUBSET seen[p].rotated :
                \A f \in kept, g \in seen[p].rotated \ kept : mtime[g] < mtime[f]}

RemoveAllBut(p, kept) == rotated' = rotated \ (seen[p].rotated \ kept)

(* Files go by age, as many as there are; then the oldest until there are few    *)
(* enough, and until they are small enough together.                            *)
prune(p) ==
  /\ step[p] = "pruning"
  /\ \/ StatFails(p) /\ disable(p)
     \/ /\ ~StatFails(p)
        /\ \E kept \in Newest(p) :
             /\ kept = {} \/ (/\ Cardinality(kept) <= JournalFiles - 1
                            /\ TotalBytes(kept, seen[p].current) <= JournalTotalBytes)
             /\ RemoveAllBut(p, kept)
        /\ GoTo(p, after[p])
        /\ UNCHANGED <<current, size, mtime, after, line, handle, bytes, seen, opened, appends>>

(* The current file is opened or created.  Only at first is its size looked at.  *)
openCurrent(p) ==
  /\ step[p] \in {"initOpen", "reopen"}
  /\ LET file == IF current = None THEN Len(size) + 1 ELSE current
         there == IF current = None THEN 0 ELSE size[current]
         known == IF step[p] = "initOpen" THEN there ELSE 0
     IN
     /\ current' = file
     /\ IF current = None THEN size' = Append(size, 0) /\ mtime' = Append(mtime, 0) ELSE UNCHANGED <<size, mtime>>
     /\ handle' = [handle EXCEPT ![p] = file] /\ bytes' = [bytes EXCEPT ![p] = known]
     /\ GoTo(p, IF known >= JournalFileBytes THEN "rotate" ELSE IF line[p] > 0 THEN "capacity" ELSE "ready")
  /\ UNCHANGED <<rotated, after, line, seen, opened, appends>>

-----------------------------------------------------------------------------
append(p) ==
  /\ step[p] = "ready" /\ appends < MaxAppends
  /\ appends' = appends + 1
  /\ \E n \in LineBytes :
       /\ line' = [line EXCEPT ![p] = n]
       /\ GoTo(p, IF bytes[p] + n > JournalFileBytes THEN "rotate" ELSE "capacity")
  /\ UNCHANGED <<dirVars, after, handle, bytes, seen, opened>>

(* Whatever file has the name by now is renamed, unless it is empty. *)
rotate(p) ==
  /\ step[p] = "rotate"
  /\ handle' = [handle EXCEPT ![p] = None]
  /\ IF current # None /\ size[current] > 0
     THEN rotated' = rotated \union {current} /\ current' = None
     ELSE UNCHANGED <<rotated, current>>
  /\ after' = [after EXCEPT ![p] = "reopen"] /\ GoTo(p, "prune")
  /\ UNCHANGED <<size, mtime, line, bytes, seen, opened, appends>>

(* Mutant: the line that is to be written is not counted. *)
makeTotalCapacityWithout(p) ==
  LET Fits(kept) == TotalBytes(kept, seen[p].current) <= JournalTotalBytes IN
  /\ step[p] = "making"
  /\ \/ StatFails(p) /\ disable(p)
     \/ /\ ~StatFails(p)
        /\ \E kept \in Newest(p) :
             /\ kept = {} \/ Fits(kept)
             /\ \A more \in Newest(p) : kept \subseteq more /\ Fits(more) => more = kept
             /\ RemoveAllBut(p, kept)
             /\ GoTo(p, IF ~Fits(kept) /\ bytes[p] > 0 THEN "rotate" ELSE "write")
        /\ UNCHANGED <<current, size, mtime, after, line, handle, bytes, seen, opened, appends>>

(* Room for the line is made of the oldest files, then of the current one. *)
makeTotalCapacity(p) ==
  LET Fits(kept) == TotalBytes(kept, seen[p].current) + line[p] <= JournalTotalBytes IN
  /\ step[p] = "making"
  /\ \/ StatFails(p) /\ disable(p)
     \/ /\ ~StatFails(p)
        /\ \E kept \in Newest(p) :
             /\ kept = {} \/ Fits(kept)
             /\ \A more \in Newest(p) : kept \subseteq more /\ Fits(more) => more = kept
             /\ RemoveAllBut(p, kept)
             /\ GoTo(p, IF ~Fits(kept) /\ bytes[p] > 0 THEN "rotate" ELSE "write")
        /\ UNCHANGED <<current, size, mtime, after, line, handle, bytes, seen, opened, appends>>

(* The file may have been renamed or removed by now. *)
write(p) ==
  /\ step[p] = "write"
  /\ size' = [size EXCEPT ![handle[p]] = @ + line[p]]
  /\ mtime' = [mtime EXCEPT ![handle[p]] = Max({mtime[f] : f \in DOMAIN mtime}) + 1]
  /\ bytes' = [bytes EXCEPT ![p] = @ + line[p]] /\ line' = [line EXCEPT ![p] = 0]
  /\ GoTo(p, "ready")
  /\ UNCHANGED <<rotated, current, after, handle, seen, opened, appends>>

close(p) ==
  /\ step[p] \in {"ready", "disabled"} /\ GoTo(p, "closed") /\ handle' = [handle EXCEPT ![p] = None]
  /\ UNCHANGED <<dirVars, after, line, bytes, seen, opened, appends>>

Process(p) == open(p) \/ readdir(p) \/ prune(p) \/ openCurrent(p) \/ append(p)
              \/ rotate(p) \/ makeTotalCapacity(p) \/ write(p) \/ close(p)
Next == \E p \in Writers : Process(p)
Spec == Init /\ [][Next]_journalVars

-----------------------------------------------------------------------------
(* Alone, a process keeps the journal within its limits and never gives it up.     *)
(* Two exceed the whole by a line at most, because one may have counted as free     *)
(* what the other is about to write.  (More of them exceed it further: a file that  *)
(* a third renames is in nobody's listing until the next.)  However many there are,  *)
(* each fills a file once.                                                          *)
Others == Cardinality(opened) - 1
LongestLine == Max(LineBytes)

JournalIsBounded ==
  /\ Others = 0 => \A p \in opened : step[p] # "disabled" /\ (step[p] = "ready" => Cardinality(rotated) <= JournalFiles - 1)
  /\ Others = 0 => TotalBytes(rotated, TRUE) <= JournalTotalBytes
  /\ Others = 1 => TotalBytes(rotated, TRUE) <= JournalTotalBytes + LongestLine
  /\ \A f \in DOMAIN size : size[f] <= JournalFileBytes * (1 + Others)
================================================================================
