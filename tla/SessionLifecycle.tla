--------------------------- MODULE SessionLifecycle ---------------------------
(***************************************************************************)
(* extensions/session-manager/lifecycle.ts and index.ts: one Pi process       *)
(* enrols its sessions in the workspace's manifest and binds its window to     *)
(* the one it manages.                                                        *)
(*                                                                          *)
(* Every event is a call with awaits of its own; what changes the manifest or   *)
(* the window is done one after the other.  A session may be replaced, closed    *)
(* or renamed while its enrolment is on its way.  The record of the session that   *)
(* is managed is kept as it was read last, and names are compared with that copy.   *)
(* A change of the manifest is one step here (see SessionCatalog), and so is one   *)
(* of the window (see WindowBinding).                                             *)
(***************************************************************************)
EXTENDS Naturals, Sequences, FiniteSets

CONSTANTS
  Sids,      \* ids of Pi sessions
  NoSid,
  MaxCalls,  \* bound: calls
  MaxNames   \* bound: names; 0 is none

VARIABLES
  files,      \* the sessions whose file exists
  record,     \* of each session, in the manifest
  tag,        \* the session the window is bound to
  session,    \* the session Pi runs
  name,       \* its name, as Pi has it and as it was shown last
  generation,
  managed,    \* the session that is managed
  cached,     \* its record, as an operation returned it
  finalization, workStartup, \* the calls that finalize and enrol, or 0
  transitions, \* calls whose operation waits for its turn
  calls,      \* every call so far
  finished,   \* sessions whose end the user was told
  spoiled     \* an error; an adoption during which the session was ended or renamed; the
              \* release of a finished session that another one overtook

sessionVars == <<files, record, tag, session, name, generation, managed, cached, finalization,
                 workStartup, transitions, calls, finished, spoiled>>
pi == <<session, name>>
workSession == <<managed, cached>>

Names == 0 .. MaxNames
NoRecord == [state |-> "absent", materialized |-> FALSE, name |-> 0]

Init == /\ files \in SUBSET Sids
        /\ record = [s \in Sids |-> NoRecord] /\ tag = NoSid
        /\ session = NoSid /\ name = 0
        /\ generation = 0 /\ managed = NoSid /\ cached = NoRecord /\ finalization = 0 /\ workStartup = 0
        /\ transitions = <<>> /\ calls = <<>> /\ finished = {} /\ spoiled = FALSE

Ids == DOMAIN calls
Busy(c) == calls[c].at # "end"
Goes(c, at) == calls' = [calls EXCEPT ![c].at = at]
Ends(c) == Goes(c, "end")
Drops(c, got) == calls' = [calls EXCEPT ![c].at = "end", ![c].got = got]
Sends(c, s, r) == calls' = [calls EXCEPT ![c].at = "queued", ![c].sid = s, ![c].snap = r]

(* A new call, with the name Pi has and the record that is managed; an operation it  *)
(* has waits for those before it.                                                  *)
Call(kind, s, at) == [kind |-> kind, sid |-> s, gen |-> generation, name |-> name, was |-> name, snap |-> cached,
                      at |-> at, got |-> "none"]
queue(c) == transitions' = Append(transitions, c)
Calls(kind, s) == /\ Len(calls) < MaxCalls
                  /\ calls' = Append(calls, Call(kind, s, "queued")) /\ queue(Len(calls) + 1)

(* What awaits an operation or the enrolment goes on before anything else happens. *)
Settled == \A c \in Ids : /\ calls[c].at \notin {"resolved", "released"}
                          /\ calls[c].at = "awaitStartup" => workStartup # 0

UnderWay(kind) == \E c \in Ids : Busy(c) /\ calls[c].kind = kind
Adopting == UnderWay("adopt")

-----------------------------------------------------------------------------
(* Events *)

(* Pi begins a session after the last one was shut down; its name is Pi's own, and    *)
(* need not be the one on record.                                                  *)
SessionStart(s, n) ==
  /\ session = NoSid /\ Len(calls) < MaxCalls
  /\ session' = s /\ name' = n
  /\ generation' = generation + 1
  /\ calls' = Append(calls, [Call("start", s, "queued") EXCEPT !.gen = generation + 1, !.name = n])
  /\ queue(Len(calls) + 1) /\ workStartup' = Len(calls) + 1
  /\ spoiled' = (spoiled \/ Adopting)
  /\ UNCHANGED <<files, record, tag, workSession, finalization, finished>>

SessionShutdown ==
  /\ session # NoSid /\ Len(calls) < MaxCalls
  /\ ~UnderWay("shutdown")
  /\ generation' = generation + 1
  /\ calls' = Append(calls, Call("shutdown", NoSid, "awaitStartup"))
  /\ spoiled' = (spoiled \/ Adopting)
  /\ UNCHANGED <<files, record, tag, pi, workSession, finalization, workStartup, transitions, finished>>

(* The user or the model names the session; the name is applied when the session  *)
(* is managed.                                                                  *)
SessionInfoChanged(n) ==
  /\ session # NoSid /\ Len(calls) < MaxCalls
  /\ name' = n /\ UNCHANGED session
  /\ calls' = Append(calls, [Call("rename", NoSid, "awaitStartup") EXCEPT !.name = n])
  /\ spoiled' = (spoiled \/ Adopting)
  /\ UNCHANGED <<files, record, tag, generation, workSession, finalization, workStartup, transitions, finished>>

(* agent_end, by which the session's file may be there, and /session-status. *)
AgentEnd ==
  /\ managed # NoSid /\ Calls("refresh", managed)
  /\ files' \in {files, files \cup {managed}}
  /\ UNCHANGED <<record, tag, pi, generation, workSession, finalization, workStartup, finished, spoiled>>

SessionAdopt ==
  /\ session # NoSid /\ Calls("adopt", session)
  /\ spoiled' = (spoiled \/ UnderWay("shutdown"))
  /\ UNCHANGED <<files, record, tag, pi, generation, workSession, finalization, workStartup, finished>>

(* /session-done or Ctrl+D. *)
finalize ==
  /\ managed # NoSid /\ finalization = 0 /\ Calls("close", managed)
  /\ finalization' = Len(calls) + 1
  /\ UNCHANGED <<files, record, tag, pi, generation, workSession, workStartup, finished, spoiled>>

-----------------------------------------------------------------------------
(* Operations: what each does with the manifest, then with the window. *)

Turn(c) == transitions # <<>> /\ c = Head(transitions)

(* The operation of c is over, and returns the record r. *)
Returns(c, got, r) == /\ calls' = [calls EXCEPT ![c].at = "resolved", ![c].got = got, ![c].snap = r]
                      /\ transitions' = Tail(transitions)
Resolves(c, got) == Returns(c, got, calls[c].snap)

Fails(c) == Resolves(c, "failed") /\ spoiled' = TRUE /\ UNCHANGED record

Commits(c, r) == /\ record' = [record EXCEPT ![calls[c].sid] = r]
                 /\ calls' = [calls EXCEPT ![c].at = "window", ![c].snap = r]
                 /\ UNCHANGED <<transitions, spoiled>>

(* A record that is closed is never opened again. *)
findOpenWorkRecord(s) == record[s].state # "closed"

Opened(s, n, materialized) == [state |-> "open", materialized |-> materialized \/ record[s].materialized, name |-> n]

(* start: a closed session, and a file nobody enrolled, stay unmanaged.  A record     *)
(* that has a name keeps it; Pi's name is read when the turn comes.                   *)
StartCommits(c) ==
  LET s == calls[c].sid IN
  /\ Turn(c) /\ calls[c].kind = "start" /\ calls[c].at = "queued"
  /\ \/ Fails(c)
     \/ /\ ~findOpenWorkRecord(s) \/ (record[s].state = "absent" /\ s \in files)
        /\ Resolves(c, "unmanaged") /\ UNCHANGED <<record, spoiled>>
     \/ /\ findOpenWorkRecord(s) /\ (record[s].state = "absent" => s \notin files)
        /\ \E n \in {calls[c].name, name} :
             Commits(c, Opened(s, IF record[s].name > 0 THEN record[s].name ELSE n, s \in files))

(* adopt: only of a file whose header names the session and the workspace.  Pi's      *)
(* name comes first.                                                               *)
AdoptCommits(c) ==
  LET s == calls[c].sid IN
  /\ Turn(c) /\ calls[c].kind = "adopt" /\ calls[c].at = "queued"
  /\ IF s \in files /\ findOpenWorkRecord(s)
     THEN Commits(c, Opened(s, IF calls[c].name > 0 THEN calls[c].name ELSE record[s].name, TRUE)) ELSE Fails(c)

CloseCommits(c) ==
  LET s == calls[c].sid IN
  /\ Turn(c) /\ calls[c].kind = "close" /\ calls[c].at = "queued"
  /\ \/ Fails(c)
     \/ /\ record[s].state # "absent" /\ Resolves(c, "done") /\ UNCHANGED spoiled
        /\ record' = [record EXCEPT ![s].state = "closed",
                       ![s].materialized = IF record[s].state = "closed" THEN @ ELSE calls[c].snap.materialized \/ s \in files]

RenameCommits(c) ==
  LET s == calls[c].sid IN
  /\ Turn(c) /\ calls[c].kind = "rename" /\ calls[c].at = "queued"
  /\ \/ Fails(c)
     \/ record[s].state = "open" /\ Commits(c, [record[s] EXCEPT !.name = calls[c].name])

(* A file that exists by now is recorded; if there is nothing to record the copy of    *)
(* the call is returned, however old it is.                                         *)
RefreshCommits(c) ==
  LET s == calls[c].sid IN
  /\ Turn(c) /\ calls[c].kind = "refresh" /\ calls[c].at = "queued"
  /\ IF calls[c].snap.materialized \/ s \notin files
     THEN Resolves(c, "done") /\ UNCHANGED <<record, spoiled>>
     ELSE IF record[s].state = "open"
     THEN /\ record' = [record EXCEPT ![s].materialized = TRUE]
          /\ Returns(c, "done", record'[s]) /\ UNCHANGED spoiled
     ELSE Fails(c)

(* The window was bound by this process, if it is: a binding of an earlier        *)
(* session is replaced.  A tmux command may fail before the binding or after it.  *)
Binds(c) ==
  /\ Turn(c) /\ calls[c].at = "window" /\ calls[c].kind \in {"start", "adopt"}
  /\ \/ tag' = calls[c].sid /\ Resolves(c, "managed") /\ UNCHANGED spoiled
     \/ tag' \in {tag, calls[c].sid} /\ Resolves(c, "unbound") /\ spoiled' = TRUE
  /\ UNCHANGED record

RenamesWindow(c) ==
  /\ Turn(c) /\ calls[c].at = "window" /\ calls[c].kind = "rename"
  /\ Resolves(c, "done") /\ UNCHANGED <<tag, record>>
  /\ (IF tag = calls[c].sid THEN UNCHANGED spoiled ELSE spoiled' = TRUE) \/ spoiled' = TRUE

(* Only a binding of the session itself is removed. *)
Released(s) == IF tag = s THEN NoSid ELSE tag

Releases(c) ==
  /\ Turn(c) /\ calls[c].at = "release"
  /\ tag' = Released(calls[c].sid) /\ Goes(c, "released") /\ transitions' = Tail(transitions)
  /\ UNCHANGED <<record, spoiled>>

Operates(c) ==
  /\ \/ (StartCommits(c) \/ AdoptCommits(c) \/ CloseCommits(c) \/ RenameCommits(c) \/ RefreshCommits(c)) /\ UNCHANGED tag
     \/ Binds(c) \/ RenamesWindow(c) \/ Releases(c)
  /\ UNCHANGED <<files, pi, generation, workSession, finalization, workStartup, finished>>

-----------------------------------------------------------------------------
(* What follows *)

Then(c, kind) == calls[c].kind = kind /\ calls[c].at = "resolved"
Stale(c) == calls[c].gen # generation
Started(c) == workStartup' = IF workStartup = c THEN 0 ELSE workStartup

(* What the operation of c returned is managed from now on. *)
Manages(c) == managed' = calls[c].sid /\ cached' = calls[c].snap
Bound(c) == calls[c].got \in {"managed", "unbound"}

(* Mutant: an enrolment that was overtaken is nobody's. *)
EnrolledAnyway(c) ==
  /\ Then(c, "start")
  /\ IF Bound(c) /\ ~Stale(c) THEN Manages(c) ELSE UNCHANGED workSession
  /\ Ends(c) /\ Started(c)
  /\ UNCHANGED <<files, record, tag, pi, generation, transitions, finalization, finished, spoiled>>

(* An enrolment that was overtaken releases what it bound.  Of a binding that     *)
(* failed the session is managed all the same.                                   *)
Enrolled(c) ==
  /\ Then(c, "start")
  /\ \/ /\ Stale(c) /\ Bound(c)
        /\ calls' = [calls EXCEPT ![c].at = "release"] /\ queue(c) /\ UNCHANGED <<workSession, workStartup>>
     \/ /\ ~(Stale(c) /\ Bound(c))
        /\ IF Bound(c) THEN Manages(c) ELSE UNCHANGED workSession
        /\ Ends(c) /\ Started(c) /\ UNCHANGED transitions
  /\ UNCHANGED <<files, record, tag, pi, generation, finalization, finished, spoiled>>

ReleasedOvertaken(c) ==
  /\ calls[c].kind = "start" /\ calls[c].at = "released" /\ Ends(c) /\ Started(c)
  /\ UNCHANGED <<files, record, tag, pi, generation, workSession, transitions, finalization, finished, spoiled>>

(* Nobody looks whether the session is still the one that runs. *)
Adopted(c) ==
  /\ Then(c, "adopt") /\ Ends(c)
  /\ IF calls[c].got = "failed" THEN UNCHANGED workSession ELSE Manages(c)
  /\ UNCHANGED <<files, record, tag, pi, generation, transitions, finalization, workStartup, finished, spoiled>>

(* /session-status looks at the session, agent_end at the generation too. *)
Refreshed(c) ==
  /\ Then(c, "refresh") /\ Ends(c) /\ UNCHANGED managed
  /\ \/ calls[c].got = "done" /\ managed = calls[c].sid /\ cached' = calls[c].snap
     \/ (calls[c].got = "failed" \/ managed # calls[c].sid \/ Stale(c)) /\ UNCHANGED cached
  /\ UNCHANGED <<files, record, tag, pi, generation, transitions, finalization, workStartup, finished, spoiled>>

(* A rename waits for the enrolment, as those before it.  A name the copy of the     *)
(* record has is taken for known: it is missed when the record has another, or is      *)
(* about to get it from a rename that waits.                                       *)
Known(c) == cached.name = calls[c].name
Missed(c) == \/ record[managed].name # calls[c].name
             \/ \E d \in Ids : /\ calls[d].kind = "rename" /\ calls[d].at = "queued"
                               /\ calls[d].name # calls[c].name

RenameBegins(c) ==
  /\ calls[c].kind = "rename" /\ calls[c].at = "awaitStartup" /\ workStartup = 0
  /\ \A d \in 1 .. c - 1 : calls[d].at # "awaitStartup"
  /\ \/ /\ Stale(c) \/ managed = NoSid \/ calls[c].name = 0
        /\ Ends(c) /\ UNCHANGED transitions
     \/ /\ ~Stale(c) /\ managed # NoSid /\ calls[c].name > 0 /\ Known(c)
        /\ Drops(c, IF Missed(c) THEN "missed" ELSE "none") /\ UNCHANGED transitions
     \/ /\ ~Stale(c) /\ managed # NoSid /\ calls[c].name > 0 /\ ~Known(c)
        /\ Sends(c, managed, cached) /\ queue(c)
  /\ UNCHANGED <<files, record, tag, pi, generation, workSession, finalization, workStartup, finished, spoiled>>

(* When a rename fails the name Pi had before it is given back. *)
Renamed(c) ==
  /\ Then(c, "rename") /\ Ends(c) /\ UNCHANGED <<session, managed>>
  /\ IF managed # calls[c].sid THEN UNCHANGED <<name, cached>>
     ELSE IF calls[c].got = "failed" THEN name' = calls[c].was /\ UNCHANGED cached
     ELSE cached' = calls[c].snap /\ UNCHANGED name
  /\ UNCHANGED <<files, record, tag, generation, transitions, finalization, workStartup, finished, spoiled>>

(* The session is closed: its window is released, and Pi is told to end.  When     *)
(* another session has begun it is left alone; while the window is released         *)
(* nobody looks again.                                                            *)
Finalized(c) ==
  /\ Then(c, "close")
  /\ IF calls[c].got = "done" /\ ~Stale(c) THEN Goes(c, "unbinds") /\ UNCHANGED finalization
     ELSE Ends(c) /\ finalization' = 0
  /\ UNCHANGED <<files, record, tag, pi, generation, workSession, transitions, workStartup, finished, spoiled>>

FinalizedReleases(c) ==
  /\ calls[c].at = "unbinds" /\ Ends(c)
  /\ tag' = Released(calls[c].sid)
  /\ managed' = NoSid /\ cached' = NoRecord /\ finished' = finished \cup {calls[c].sid} /\ finalization' = 0
  /\ spoiled' = (spoiled \/ Stale(c))
  /\ UNCHANGED <<files, record, pi, generation, transitions, workStartup>>

(* Shutdown waits for the enrolment, then releases the session that is managed. *)
ShutdownReleases(c) ==
  /\ calls[c].kind = "shutdown" /\ calls[c].at = "awaitStartup" /\ workStartup = 0
  /\ IF managed = NoSid THEN Goes(c, "released") /\ UNCHANGED transitions
     ELSE calls' = [calls EXCEPT ![c].at = "release", ![c].sid = managed] /\ queue(c)
  /\ UNCHANGED <<files, record, tag, pi, generation, workSession, finalization, workStartup, finished, spoiled>>

ShutdownEnds(c) ==
  /\ calls[c].kind = "shutdown" /\ calls[c].at = "released" /\ Ends(c)
  /\ managed' = NoSid /\ cached' = NoRecord /\ session' = NoSid /\ name' = 0
  /\ UNCHANGED <<files, record, tag, generation, transitions, finalization, workStartup, finished, spoiled>>

Continues(c) == Enrolled(c) \/ ReleasedOvertaken(c) \/ Adopted(c) \/ Refreshed(c) \/ RenameBegins(c) \/ Renamed(c)
                \/ Finalized(c) \/ ShutdownReleases(c) \/ ShutdownEnds(c)

Next == \/ /\ Settled
           /\ \/ \E s \in Sids, n \in Names : SessionStart(s, n)
              \/ \E n \in Names : SessionInfoChanged(n)
              \/ SessionShutdown \/ AgentEnd \/ SessionAdopt \/ finalize
              \/ \E c \in Ids : Operates(c) \/ FinalizedReleases(c)
        \/ \E c \in Ids : Continues(c)

Spec == Init /\ [][Next]_sessionVars

-----------------------------------------------------------------------------
(* The last name given to the session that runs. *)
Last(c) == /\ calls[c].kind = "rename" /\ ~Stale(c)
           /\ \A d \in Ids : calls[d].kind = "rename" /\ ~Stale(d) => d <= c

(* When nothing is under way and nothing failed, the window is bound to the         *)
(* session that is managed and to no other, and its record is open.  The record has   *)
(* the name the session was given last, in whatever order names, enrolment, refreshes   *)
(* and renames that wait met, unless the name was missed: taken for known because the    *)
(* copy of the record still had it, or had it again.  Whatever failed, a session the     *)
(* user was told is over is closed.                                                *)
BindingFollowsSession ==
  /\ (\A c \in Ids : ~Busy(c)) /\ ~spoiled =>
       /\ tag = managed
       /\ managed # NoSid =>
            /\ managed = session /\ record[managed].state = "open"
            /\ \A c \in Ids : Last(c) /\ calls[c].name > 0 /\ calls[c].got # "missed" =>
                 record[managed].name = calls[c].name
  /\ \A s \in finished : record[s].state = "closed"
================================================================================
