----------------------------- MODULE NotesStore -----------------------------
(***************************************************************************)
(* One note of an Obsidian vault and the calls that read, create, replace, *)
(* edit, extend and delete it (extensions/notes/obsidian-provider.ts and   *)
(* the store, Inbox and Worklog actions of extensions/notes/contract.ts).  *)
(*                                                                         *)
(* A revision digests the content, the inode and the change time, so no    *)
(* two contents of the note have the same one; what matters of a revision  *)
(* or of a resolved inode is whether it is still that of the note on disk, *)
(* and that is all the model keeps of it.                                  *)
(*                                                                         *)
(* The calls of one process serialize on the canonical path; editors and   *)
(* other processes write the file at any moment and know nothing of        *)
(* revisions.  The directories of the path, symbolic links and sizes are   *)
(* left out: they refuse a call before it reaches the file.                *)
(***************************************************************************)
EXTENDS Integers, Sequences, FiniteSets

CONSTANT Agents    \* agents of one process; each makes one call at a time

VARIABLES
    links,     \* link count of the note, 0 when there is none
    revision,  \* [Agents -> the revision the last answer gave]
    call,      \* [Agents -> the call in progress]
    queue,     \* withFileMutationQueue: agents holding or awaiting the path
    seen,      \* history: agents that read or wrote the content now on disk
    raced,     \* history: agents past whose last check that content arrived
               \* from outside
    lost       \* history: agents that destroyed content neither seen nor raced

noteVars == <<links, revision, call, queue, seen, raced, lost>>

Absent == links = 0
Idle == [kind |-> "none", at |-> "idle", expected |-> "null", target |-> "null"]

NotesTypeOK ==
    /\ links \in 0..2
    /\ revision \in [Agents -> {"null", "current", "stale"}]
    /\ queue \in Seq(Agents)
    /\ seen \cup raced \cup lost \subseteq Agents

Init ==
    /\ links \in {0, 1}
    /\ revision = [a \in Agents |-> "null"]
    /\ call = [a \in Agents |-> Idle]
    /\ queue = <<>>
    /\ seen = {} /\ raced = {} /\ lost = {}

-----------------------------------------------------------------------------
(* resolveExistingNote refuses a missing note and one with a second link. *)
Resolvable == links = 1

(* The note is still the file the call resolved. *)
sameTarget(a) == Resolvable /\ call[a].target = "current"

(* readDocument under a resolved target, compared with the expected revision. *)
Unchanged(a) == sameTarget(a) /\ call[a].expected = "current"

Move(a, at) == call' = [call EXCEPT ![a].at = at]

(* The end of a call, with or without success; it leaves the queue. *)
Ends(a) ==
    /\ call' = [call EXCEPT ![a] = Idle]
    /\ queue' = IF queue # <<>> /\ Head(queue) = a THEN Tail(queue) ELSE queue

Fails(a) ==
    /\ Ends(a)
    /\ UNCHANGED <<links, revision, seen, raced, lost>>

-----------------------------------------------------------------------------
(* The tool's actions.  A guarded mutation passes the revision of the       *)
(* agent's last answer.                                                     *)
Begins(a, kind, at, expected) ==
    /\ call[a] = Idle
    /\ call' = [call EXCEPT ![a] =
                   [kind |-> kind, at |-> at, expected |-> expected, target |-> "null"]]
    /\ UNCHANGED <<links, revision, queue, seen, raced, lost>>

requireExistingRevision(a) == revision[a] # "null"

readAction(a) == Begins(a, "read", "lookup", "null")

(* With revision null a write creates the note. *)
writeAction(a) ==
    \/ requireExistingRevision(a) /\ Begins(a, "write", "resolve", revision[a])
    \/ Begins(a, "create", "missing", "null")

editAction(a) == requireExistingRevision(a) /\ Begins(a, "edit", "lookup", revision[a])

deleteAction(a) == requireExistingRevision(a) /\ Begins(a, "delete", "resolve", revision[a])

(* An Inbox write or a Worklog record reads the day's note first, if there  *)
(* is one, and creates it otherwise.                                        *)
recordAction(a) == Begins(a, "record", "lookup", "null")

(* read: resolve the note ... *)
Lookup(a) ==
    /\ call[a].at = "lookup"
    /\ \/ /\ Resolvable
          /\ call' = [call EXCEPT ![a].at = "found", ![a].target = "current"]
          /\ UNCHANGED <<links, revision, queue, seen, raced, lost>>
       \/ /\ Absent /\ call[a].kind = "record"     \* readOptionalDocument
          /\ Move(a, "missing")
          /\ UNCHANGED <<links, revision, queue, seen, raced, lost>>
       \/ /\ ~Resolvable /\ ~(Absent /\ call[a].kind = "record")
          /\ Fails(a)

(* ... and read it, if the path still names the file that was resolved.  An *)
(* edit compares the revision it was given, a record adopts the one it read.*)
ReadNote(a) ==
    /\ call[a].at = "found"
    /\ IF Absent \/ call[a].target # "current"
       THEN Fails(a)
       ELSE /\ seen' = seen \cup {a}
            /\ CASE call[a].kind = "read" ->
                      /\ Ends(a)
                      /\ revision' = [revision EXCEPT ![a] = "current"]
                 [] call[a].kind = "edit" /\ call[a].expected # "current" ->
                      Ends(a) /\ UNCHANGED revision
                 [] OTHER ->
                      /\ call' = [call EXCEPT ![a].at = "resolve",
                                              ![a].expected = "current"]
                      /\ UNCHANGED <<queue, revision>>
            /\ UNCHANGED <<links, raced, lost>>

(* write and delete: resolve the target, then wait for the path's queue. *)
Resolve(a) ==
    /\ call[a].at = "resolve"
    /\ IF Resolvable
       THEN /\ call' = [call EXCEPT ![a].at = "queued", ![a].target = "current"]
            /\ queue' = Append(queue, a)
            /\ UNCHANGED <<links, revision, seen, raced, lost>>
       ELSE Fails(a)

(* create: the note must be missing, then wait for the path's queue. *)
RequireMissing(a) ==
    /\ call[a].at = "missing"
    /\ IF Absent
       THEN /\ Move(a, "queued")
            /\ queue' = Append(queue, a)
            /\ UNCHANGED <<links, revision, seen, raced, lost>>
       ELSE Fails(a)

Creates(a) == call[a].expected = "null"

(* The first steps in the queue: the target and revision are checked (or the *)
(* note is still missing), and the temporary file is written.              *)
Check(a) ==
    /\ call[a].at = "queued"
    /\ Head(queue) = a
    /\ IF Creates(a) THEN Absent ELSE Unchanged(a)
    /\ Move(a, "checked")
    /\ UNCHANGED <<links, revision, queue, seen, raced, lost>>

CheckFails(a) ==
    /\ call[a].at = "queued"
    /\ Head(queue) = a
    /\ ~(IF Creates(a) THEN Absent ELSE Unchanged(a))
    /\ Fails(a)

(* beforeCommit: verifyCurrent repeats the check directly before the commit. *)
verifyCurrent(a) == Unchanged(a)

Verify(a) ==
    /\ call[a].at = "checked"
    /\ ~Creates(a)
    /\ IF verifyCurrent(a)
       THEN /\ Move(a, "verified")
            /\ UNCHANGED <<links, revision, queue, seen, raced, lost>>
       ELSE Fails(a)

-----------------------------------------------------------------------------
(* The note gets other content, in place or as another file: revisions of   *)
(* it that agents hold are out of date, and so are inodes they resolved.    *)
Old(r) == IF r = "current" THEN "stale" ELSE r

Outdated(inPlace) ==
    [a \in Agents |-> [call[a] EXCEPT !.expected = Old(@),
                                      !.target = IF inPlace THEN @ ELSE Old(@)]]

Outdates == revision' = [a \in Agents |-> Old(revision[a])]

(* A call's commit destroys what is on disk; own is its content, if any. *)
Commits(a, own) ==
    /\ lost' = IF Absent \/ a \in seen \cup raced THEN lost ELSE lost \cup {a}
    /\ seen' = own /\ raced' = {}
    /\ Outdates

(* Commit points.  atomicReplace: rename puts the new version over whatever *)
(* is there.                                                               *)
Replace(a) ==
    /\ call[a].at = "verified" /\ call[a].kind # "delete"
    /\ links' = 1
    /\ Commits(a, {a})
    /\ call' = [Outdated(FALSE) EXCEPT ![a].at = "committed"]
    /\ UNCHANGED queue

Delete(a) ==
    /\ call[a].at = "verified" /\ call[a].kind = "delete"
    /\ links' = 0
    /\ Commits(a, {})
    /\ call' = [Outdated(FALSE) EXCEPT ![a] = Idle]
    /\ queue' = Tail(queue)

(* atomicCreate: the temporary file is linked to the name, which fails when  *)
(* the name exists.                                                        *)
link == Absent

Create(a) ==
    /\ call[a].at = "checked" /\ Creates(a)
    /\ IF link
       THEN /\ links' = 2
            /\ Commits(a, {a})
            /\ call' = [Outdated(FALSE) EXCEPT ![a].at = "linked", ![a].target = "current"]
            /\ UNCHANGED queue
       ELSE Fails(a)

(* Until the temporary name is removed the note has two links and no call   *)
(* can resolve it.                                                         *)
UnlinkTemporary(a) ==
    /\ call[a].at = "linked"
    /\ links' = IF call[a].target = "current" THEN 1 ELSE links
    /\ Move(a, "committed")
    /\ UNCHANGED <<revision, queue, seen, raced, lost>>

(* The answer's revision is read back from the path after the commit. *)
ReadBack(a) ==
    /\ call[a].at = "committed"
    /\ IF Resolvable
       THEN /\ revision' = [revision EXCEPT ![a] = "current"]
            /\ Ends(a)
            /\ UNCHANGED <<links, seen, raced, lost>>
       ELSE Fails(a)

(* Cancellation is noticed between the steps, also while reading back. *)
Abort(a) ==
    /\ call[a].at \notin {"idle", "linked"}
    /\ call[a].at = "queued" => Head(queue) = a
    /\ Fails(a)

-----------------------------------------------------------------------------
(* Another program writes the file in place, replaces it or removes it. *)
Exposed == {a \in Agents : call[a].at \in {"verified", "linked", "committed"}}

External(count, inPlace) ==
    /\ links' = count
    /\ Outdates
    /\ call' = Outdated(inPlace)
    /\ seen' = {}
    /\ raced' = Exposed
    /\ UNCHANGED <<queue, lost>>

ExternalWrite == External(1, FALSE) \/ (~Absent /\ External(links, TRUE))

ExternalDelete == ~Absent /\ External(0, FALSE)

(* The process dies; the agents of the next one have read nothing.  A note  *)
(* that was linked and not yet unlinked keeps its two links.               *)
Crash ==
    /\ \E a \in Agents : call[a] # Idle
    /\ revision' = [a \in Agents |-> "null"]
    /\ call' = [a \in Agents |-> Idle]
    /\ queue' = <<>>
    /\ seen' = {} /\ raced' = {}
    /\ UNCHANGED <<links, lost>>

Step(a) ==
    \/ Lookup(a) \/ ReadNote(a) \/ Resolve(a) \/ RequireMissing(a)
    \/ Check(a) \/ CheckFails(a) \/ Verify(a)
    \/ Replace(a) \/ Delete(a) \/ Create(a) \/ UnlinkTemporary(a) \/ ReadBack(a)
    \/ Abort(a)

Next ==
    \/ \E a \in Agents : \/ readAction(a) \/ writeAction(a) \/ editAction(a) \/ deleteAction(a)
                         \/ recordAction(a) \/ Step(a)
    \/ ExternalWrite \/ ExternalDelete \/ Crash

Spec == Init /\ [][Next]_noteVars

-----------------------------------------------------------------------------
(* No call destroys a version whose content its caller never saw, unless     *)
(* another program wrote that version after the call's last check: between   *)
(* verifyCurrent and the rename, or between the commit and the read-back,     *)
(* whose revision the caller then passes on without having read the note.    *)
(* Creating a note therefore never replaces one, and two calls of the same   *)
(* process never overwrite each other (README.md: mutations serialize on the *)
(* canonical target; the provider checks identity and content immediately    *)
(* before replace or delete).                                                *)
NothingLostUnread == lost = {}
=============================================================================
