--------------------------- MODULE DevToolsRequests ---------------------------
(***************************************************************************)
(* extensions/dev-tools/handlers.ts, daemon-request.ts and file-cache.ts:    *)
(* what the daemon does for one request, for several at once.               *)
(*                                                                          *)
(* A handler opens the file in its language server, asks the server, reads   *)
(* the lines of the places it was told from the shared file cache, and       *)
(* answers.  An action is what a handler does between two awaits.  A request *)
(* of several paths opens a few of them at a time.                          *)
(*                                                                          *)
(* A text is "old" or, once the rename replaced it, "new".                  *)
(***************************************************************************)
EXTENDS Integers, FiniteSets, SequencesExt

CONSTANTS
  Handled,                \* the requests
  Sources,                \* paths of files
  Real,                   \* the file each path leads to, through symbolic links
  BULK_OPEN_CONCURRENCY,  \* how many paths are opened at once
  MaxPaths, MaxPlaces     \* bounds: paths of a request, places a server answers with

VARIABLES
  kind, step,         \* of each request
  want,               \* the files it reads, in order
  joined,             \* the loads it reads them from
  onDisk,             \* the text of each file
  editing,            \* the paths the rename edits
  entry, load,        \* the cache: the load of each path (0: none); each load's text
  next, worker, prepared, outcome, \* of the request of several paths
  happened,           \* ghost: what opening and finishing each path came to
  before              \* ghost: how many loads a request had asked for when the rename had left the cache

cacheVars == <<entry, load>>
renameVars == <<onDisk, editing, before>>
bulkVars == <<next, worker, prepared, outcome, happened>>
vars == <<kind, step, want, joined, renameVars, cacheVars, bulkVars>>

Contents == {Real[p] : p \in Sources}
Kinds == {"hover", "location", "calls", "references", "symbols", "rename", "diagnostics", "unknown"}
Waiting == {"prepare", "ask", "askPeers", "read", "commit", "invalidate", "refresh", "opening", "finishing"}
Paths == 1..MaxPaths
Workers == 1..(IF BULK_OPEN_CONCURRENCY < MaxPaths THEN BULK_OPEN_CONCURRENCY ELSE MaxPaths)

Init == /\ kind \in {ks \in [Handled -> Kinds] :
                      \A q \in {"rename", "diagnostics"} : Cardinality({r \in Handled : ks[r] = q}) <= 1}
        /\ step = [r \in Handled |-> "received"]
        /\ want = [r \in Handled |-> <<>>] /\ joined = [r \in Handled |-> <<>>]
        /\ onDisk = [f \in Contents |-> "old"] /\ editing = {} /\ before = [r \in Handled |-> 0]
        /\ entry = [f \in Sources |-> 0] /\ load = <<>>
        /\ next = 0 /\ worker = [w \in Workers |-> 0]
        /\ prepared = [i \in Paths |-> "none"] /\ outcome = [i \in Paths |-> "none"]
        /\ happened = [i \in Paths |-> "none"]

Goes(r, s) == step' = [step EXCEPT ![r] = s]

-----------------------------------------------------------------------------
(* FileCache: one load per path, which all who ask meanwhile share *)

(* Those of some files which the cache does not have; each is loaded once. *)
Missing(files) == SetToSeq({f \in Sources : entry[f] = 0 /\ f \in ToSet(files)})

(* readEntry for each of a sequence of files, in one turn. *)
JoinAll(r, files) ==
  LET missing == Missing(files) IN
    /\ load' = load \o [i \in DOMAIN missing |-> [file |-> missing[i], text |-> "unread", done |-> FALSE]]
    /\ entry' = [f \in Sources |-> IF \E i \in DOMAIN missing : missing[i] = f
                                   THEN Len(load) + CHOOSE i \in DOMAIN missing : missing[i] = f ELSE entry[f]]
    /\ joined' = [joined EXCEPT ![r] = @ \o [i \in DOMAIN files |-> entry'[files[i]]]]

(* A file is read at one time and handed to who waits for it later.  One that is  *)
(* missing, too large or unreadable is not remembered.                            *)
LoadReads(l) ==
  /\ load[l].text = "unread"
  /\ load' = [load EXCEPT ![l].text = onDisk[Real[load[l].file]]]
  /\ UNCHANGED <<kind, step, want, joined, renameVars, entry, bulkVars>>

LoadEnds(l) ==
  /\ ~load[l].done
  /\ load' = [load EXCEPT ![l].done = TRUE]
  /\ IF load[l].text = "unread"
     THEN entry' = [f \in Sources |-> IF entry[f] = l THEN 0 ELSE entry[f]]
     ELSE UNCHANGED entry
  /\ UNCHANGED <<kind, step, want, joined, renameVars, bulkVars>>

(* The least recently used entry makes room for others. *)
Evict(f) == /\ entry[f] # 0 /\ load[entry[f]].done
            /\ entry' = [entry EXCEPT ![f] = 0]
            /\ UNCHANGED <<kind, step, want, joined, renameVars, load, bulkVars>>

-----------------------------------------------------------------------------
(* Requests of one position or file *)

(* The executor: an action without a handler is refused. *)
dispatch(r) ==
  /\ step[r] = "received" /\ kind[r] # "diagnostics"
  /\ Goes(r, IF kind[r] = "unknown" THEN "refused" ELSE "prepare")
  /\ UNCHANGED <<kind, want, joined, renameVars, cacheVars, bulkVars>>

(* The position is valid, a backend handles the file and has opened it. *)
prepareRequest(r) ==
  /\ step[r] = "prepare"
  /\ Goes(r, "ask") \/ Goes(r, "refused")
  /\ UNCHANGED <<kind, want, joined, renameVars, cacheVars, bulkVars>>

(* Any call of the server may fail; the executor turns that into an answer. *)
AskFails(r) ==
  /\ step[r] \in {"ask", "askPeers"}
  /\ Goes(r, "refused")
  /\ UNCHANGED <<kind, want, joined, renameVars, cacheVars, bulkVars>>

handleHover(r) ==
  /\ step[r] = "ask" /\ kind[r] = "hover"
  /\ Goes(r, "answered") \/ Goes(r, "refused")
  /\ UNCHANGED <<kind, want, joined, renameVars, cacheVars, bulkVars>>

(* Symbols of a document or of every server: nothing is read. *)
handleSymbols(r) ==
  /\ step[r] = "ask" /\ kind[r] = "symbols"
  /\ Goes(r, "answered")
  /\ UNCHANGED <<kind, want, joined, renameVars, cacheVars, bulkVars>>

Places == UNION {[1..n -> Sources] : n \in 1..MaxPlaces}

(* Of each place first the end of its block is looked for and then its lines   *)
(* are read, one place after the other.                                        *)
handleLocationAction(r) ==
  /\ kind[r] = "location"
  /\ \/ /\ step[r] = "ask"
        /\ \/ Goes(r, "refused") /\ UNCHANGED <<want, joined, cacheVars>>
           \/ \E ps \in Places :
                /\ want' = [want EXCEPT ![r] = [i \in 1 .. 2 * Len(ps) |-> ps[(i + 1) \div 2]]]
                /\ Goes(r, "read") /\ JoinAll(r, <<ps[1]>>)
     \/ /\ step[r] = "read" /\ \A l \in ToSet(joined[r]) : load[l].done
        /\ Len(joined[r]) < Len(want[r])
        /\ JoinAll(r, <<want[r][Len(joined[r]) + 1]>>) /\ UNCHANGED <<step, want>>
  /\ UNCHANGED <<kind, renameVars, bulkVars>>

(* A line of every place is read, of all places at once. *)
ReadPlaces(r) ==
  \E ps \in Places : want' = [want EXCEPT ![r] = ps] /\ Goes(r, "read") /\ JoinAll(r, ps)

(* Without an item there is nothing to ask callers or callees of. *)
handleCallHierarchy(r) ==
  /\ kind[r] = "calls"
  /\ \/ step[r] = "ask" /\ (Goes(r, "refused") \/ Goes(r, "askPeers")) /\ UNCHANGED <<want, joined, cacheVars>>
     \/ step[r] = "askPeers" /\ Goes(r, "answered") /\ UNCHANGED <<want, joined, cacheVars>>
     \/ step[r] = "askPeers" /\ ReadPlaces(r)
  /\ UNCHANGED <<kind, renameVars, bulkVars>>

handleReferences(r) ==
  /\ kind[r] = "references" /\ step[r] = "ask"
  /\ \/ Goes(r, "answered") /\ UNCHANGED <<want, joined, cacheVars>>
     \/ ReadPlaces(r)
  /\ UNCHANGED <<kind, renameVars, bulkVars>>

(* An answer is made of what was read. *)
ReadEnds(r) ==
  /\ step[r] = "read" /\ Len(joined[r]) = Len(want[r])
  /\ \A l \in ToSet(joined[r]) : load[l].done
  /\ Goes(r, "answered")
  /\ UNCHANGED <<kind, want, joined, renameVars, cacheVars, bulkVars>>

-----------------------------------------------------------------------------
(* Rename: see WorkspaceEdit for how its files are replaced *)

(* The server says which paths to edit; no two of them may lead to one file. *)
handleRename(r) ==
  /\ kind[r] = "rename" /\ step[r] = "ask" /\ Goes(r, "commit")
  /\ \E ps \in SUBSET Sources \ {{}} :
       (\A p, q \in ps : Real[p] = Real[q] => p = q) /\ editing' = ps
  /\ UNCHANGED <<kind, want, joined, onDisk, before, cacheVars, bulkVars>>

(* The files the paths lead to are replaced one after the other; if that fails, *)
(* they are put back, or some are not.                                         *)
Commit(r) ==
  /\ step[r] = "commit"
  /\ \/ \E p \in editing :
          /\ onDisk[Real[p]] = "old" /\ onDisk' = [onDisk EXCEPT ![Real[p]] = "new"]
          /\ Goes(r, IF \A q \in editing \ {p} : onDisk[Real[q]] = "new" THEN "invalidate" ELSE "commit")
     \/ onDisk' \in {onDisk, [f \in Contents |-> "old"]} /\ Goes(r, "refused")
  /\ UNCHANGED <<kind, want, joined, editing, before, cacheVars, bulkVars>>

(* Mutant: a load that is under way is left to finish for those who ask later. *)
InvalidateSettled(r) ==
  /\ step[r] = "invalidate" /\ Goes(r, "refresh")
  /\ entry' = [p \in Sources |-> IF p \in editing /\ entry[p] # 0 /\ load[entry[p]].done THEN 0 ELSE entry[p]]
  /\ before' = [q \in Handled |-> Len(joined[q])]
  /\ UNCHANGED <<kind, want, joined, onDisk, editing, load, bulkVars>>

(* The paths that were edited leave the cache; others that lead to the same files *)
(* stay.  Every server is told of the new texts.                                 *)
Invalidate(r) ==
  /\ step[r] = "invalidate" /\ Goes(r, "refresh")
  /\ entry' = [p \in Sources |-> IF p \in editing THEN 0 ELSE entry[p]]
  /\ before' = [q \in Handled |-> Len(joined[q])]
  /\ UNCHANGED <<kind, want, joined, onDisk, editing, load, bulkVars>>

(* A server that cannot be told makes the answer an error; the files stay. *)
Refreshed(r) ==
  /\ step[r] = "refresh"
  /\ Goes(r, "answered") \/ Goes(r, "notRefreshed")
  /\ UNCHANGED <<kind, want, joined, renameVars, cacheVars, bulkVars>>

-----------------------------------------------------------------------------
(* Diagnostics of several paths *)

(* mapConcurrent starts its workers, which each take the next path. *)
handleDiagnostics(r) ==
  /\ step[r] = "received" /\ kind[r] = "diagnostics" /\ Goes(r, "opening")
  /\ worker' = [w \in Workers |-> w] /\ next' = Cardinality(Workers) + 1
  /\ UNCHANGED <<kind, want, joined, renameVars, cacheVars, prepared, outcome, happened>>

(* A path was opened, or not; the worker takes the next in the same turn.  When *)
(* no worker is left, what each opened path has is waited for.                  *)
PrepareEnds(r, w) ==
  LET i == worker[w] IN
  /\ step[r] = "opening" /\ i # 0
  /\ \E result \in {"fulfilled", "rejected"} :
       /\ prepared' = [prepared EXCEPT ![i] = result]
       /\ happened' = [happened EXCEPT ![i] = result]
  /\ worker' = [worker EXCEPT ![w] = IF next \in Paths THEN next ELSE 0]
  /\ next' = IF next \in Paths THEN next + 1 ELSE next
  /\ Goes(r, IF \A v \in Workers : worker'[v] = 0 THEN "finishing" ELSE "opening")
  /\ UNCHANGED <<kind, want, joined, renameVars, cacheVars, outcome>>

finishDiagnostics(r, i) ==
  /\ step[r] = "finishing" /\ outcome[i] = "none"
  /\ \E result \in {"fulfilled", "rejected"} :
       /\ prepared[i] = "rejected" => result = "rejected"
       /\ outcome' = [outcome EXCEPT ![i] = result]
       /\ happened' = [happened EXCEPT ![i] = IF prepared[i] = "rejected" THEN @ ELSE result]
  /\ Goes(r, IF \A j \in Paths \ {i} : outcome[j] # "none" THEN "answered" ELSE "finishing")
  /\ UNCHANGED <<kind, want, joined, renameVars, cacheVars, next, worker, prepared>>

Next == \/ \E l \in DOMAIN load : LoadReads(l) \/ LoadEnds(l)
        \/ \E f \in Sources : Evict(f)
        \/ \E r \in Handled : \/ dispatch(r) \/ prepareRequest(r) \/ AskFails(r) \/ handleHover(r)
                              \/ handleSymbols(r) \/ handleLocationAction(r) \/ handleCallHierarchy(r)
                              \/ handleReferences(r) \/ ReadEnds(r) \/ handleRename(r)
                              \/ Commit(r) \/ Invalidate(r)
                              \/ Refreshed(r) \/ handleDiagnostics(r)
                              \/ \E w \in Workers : PrepareEnds(r, w)
                              \/ \E i \in Paths : finishDiagnostics(r, i)

Spec == Init /\ [][Next]_vars

-----------------------------------------------------------------------------
(* What a request asks to read after a rename has left the cache behind is the new   *)
(* text, under the paths the rename edited, and is so in its answer, however loads     *)
(* and evictions met the rename.  Of what it had asked for before, and under other      *)
(* paths of the same files, nothing is said: it may be answered with old lines after     *)
(* the rename was.                                                                *)
NoLinesFromBeforeRename ==
  \A r \in Handled : kind[r] = "rename" /\ step[r] \in {"refresh", "answered", "notRefreshed"} =>
    \A q \in Handled : \A i \in DOMAIN joined[q] :
      i > before[q] /\ want[q][i] \in editing => load[joined[q][i]].text # "old"

(* Every path of a request is answered for, by what happened to that path. *)
EachPathItsOwnOutcome ==
  \A r \in Handled : kind[r] = "diagnostics" /\ step[r] = "answered" => outcome = happened
===============================================================================
