---------------------------- MODULE WorkspaceStart ----------------------------
(***************************************************************************)
(* extensions/session-manager/start.ts, launch.ts, runtime-path.ts and the      *)
(* coordinator's part of index.ts and runtime-bus.ts: `pi --start` elects one    *)
(* coordinator of a workspace.                                                 *)
(*                                                                          *)
(* A starter takes the start lock, asks the coordinator whether it is there, and  *)
(* when nothing shows one alive removes what the last one left and claims the     *)
(* start.  It then becomes the coordinator itself (execve keeps the pid): binds    *)
(* its window, listens on the socket, publishes metadata and removes the claim.    *)
(* The windows are those of one tmux session: another session's are not listed.     *)
(* Any process may die between two steps, or be paused there for as long as it      *)
(* takes.  The lock is proper-lockfile's: it is taken over when it has not been      *)
(* refreshed for 30 s, whether its holder is dead or only paused, and a holder that    *)
(* is overtaken goes on until its timer tells it, which ends the process (Crash).      *)
(***************************************************************************)
EXTENDS Naturals, FiniteSets

CONSTANTS
  Starters,  \* processes
  Nobody,
  Windows    \* tmux windows

VARIABLES
  at,        \* what each process does next
  window,    \* the window it runs in
  lock,      \* the start lock's holder
  known,     \* whether the manifest has a coordinator
  claim,     \* the process that created the claim file, which names it
  torn,      \* whether the claim file is still to be written
  socket,    \* the process that bound the socket file
  metadata,  \* the process named by the metadata file
  tag,       \* of each window, the process that bound it to the coordinator
  undone,    \* files a closing coordinator has yet to remove
  overtaken  \* history: starters whose lock was taken or removed while they held it

startVars == <<at, window, lock, known, claim, torn, socket, metadata, tag, undone, overtaken>>

Files == {"socket", "metadata"}
Init == /\ at = [p \in Starters |-> "off"] /\ window \in [Starters -> Windows]
        /\ lock = Nobody /\ known \in BOOLEAN
        /\ claim = Nobody /\ torn = FALSE /\ socket = Nobody /\ metadata = Nobody
        /\ tag = [w \in Windows |-> Nobody]
        /\ undone = [p \in Starters |-> {}] /\ overtaken = {}

processAlive(p) == p \in Starters /\ at[p] \notin {"off", "dead"}

(* Whether the socket file leads to a process that listens. *)
Listening == {"publish", "unclaim", "serving"}
Answers(p) == p \in Starters /\ at[p] \in Listening

Goes(p, step) == at' = [at EXCEPT ![p] = step]
Frozen == UNCHANGED window
Claim == <<claim, torn>>
Artifacts == <<Claim, socket, metadata>>
Lock == <<lock, overtaken>>

(* One process runs in a window at a time. *)
Main(p) ==
  /\ at[p] = "off" /\ Goes(p, "lock")
  /\ \A q \in Starters : window[q] = window[p] => ~processAlive(q)
  /\ Frozen /\ UNCHANGED <<Lock, known, Artifacts, tag, undone>>

(* The steps under the lock. *)
Locking == {"read", "ensure", "create", "probe", "claim", "metadata", "windows", "unlinkSocket", "unlinkMetadata",
            "unlinkClaim", "createClaim", "writeClaim"}

(* Who takes the lock or gives it up disturbs a live holder, if that is another. *)
Disturbs(p) == overtaken' = overtaken \cup {q \in Starters \ {p} : q = lock /\ processAlive(q)}

(* The lock's directory is removed, whoever made it. *)
Releases(p) == IF at[p] \in Locking THEN lock' = Nobody /\ Disturbs(p) ELSE UNCHANGED Lock

(* The error of a starter ends its process, and the lock is released. *)
Refused(p) == /\ Goes(p, "dead") /\ Releases(p)
              /\ UNCHANGED <<known, Artifacts, tag, undone>>

Passes(p, step) == Goes(p, step) /\ UNCHANGED <<Lock, known, Artifacts, tag, undone>>

-----------------------------------------------------------------------------
(* selectCoordinator *)

(* A lock that is there is stale, or is not within twenty retries: after a crash it    *)
(* takes 30 s to become stale, and it does so under a live holder that is paused.      *)
Overtakes(p) == lock' = p /\ Disturbs(p)

Locked(p) ==
  /\ at[p] = "lock" /\ Frozen
  /\ \/ Overtakes(p) /\ Goes(p, "read") /\ UNCHANGED <<known, Artifacts, tag, undone>>
     \/ lock # Nobody /\ Refused(p)

readCatalog(p) ==
  /\ at[p] = "read" /\ Frozen
  /\ Passes(p, IF known THEN "ensure" ELSE "create") \/ Refused(p)

(* The coordinator's record is created if there is none; if the catalog had none,   *)
(* nobody can run yet and the checks are skipped.                                  *)
ensureCoordinator(p) ==
  /\ at[p] \in {"ensure", "create"} /\ Frozen
  /\ \/ known' = TRUE /\ Goes(p, IF at[p] = "ensure" THEN "probe" ELSE "unlinkSocket")
        /\ UNCHANGED <<Lock, Artifacts, tag, undone>>
     \/ Refused(p)

(* A coordinator that is busy may not answer two pings in time. *)
probeCoordinator(p) ==
  /\ at[p] = "probe" /\ Frozen
  /\ \/ Answers(socket) /\ Releases(p) /\ Goes(p, "reconcile") /\ UNCHANGED <<known, Artifacts, tag, undone>>
     \/ Passes(p, "claim")

(* Mutant: only a claim that cannot be read refuses a start. *)
ClaimIsWhole == claim = Nobody \/ ~torn

(* A claim of a live process refuses the start, however old it is. *)
ClaimAllows == claim = Nobody \/ (~torn /\ ~processAlive(claim))

classifyLiveClaim(p) ==
  /\ at[p] = "claim" /\ Frozen
  /\ IF ClaimAllows THEN Passes(p, "metadata") ELSE Refused(p)

MetadataAllows == ~processAlive(metadata)

assertCoordinatorOffline(p) ==
  /\ at[p] = "metadata" /\ Frozen
  /\ IF MetadataAllows THEN Passes(p, "windows") ELSE Refused(p)

(* A window that is bound to the coordinator refuses it too,  *)
(* whether or not its owner is alive.                                             *)
Bound == {w \in Windows : tag[w] # Nobody}

coordinatorWindows(p) ==
  /\ at[p] = "windows" /\ Frozen
  /\ IF Bound = {} THEN Passes(p, "unlinkSocket") ELSE Refused(p)

removeOwnedSocket(p) ==
  /\ at[p] = "unlinkSocket" /\ Frozen
  /\ \/ socket' = Nobody /\ Goes(p, "unlinkMetadata") /\ UNCHANGED <<Lock, known, Claim, metadata, tag, undone>>
     \/ Refused(p)

removeFileIfPresent(p) ==
  /\ at[p] = "unlinkMetadata" /\ Frozen
  /\ metadata' = Nobody /\ Goes(p, "unlinkClaim") /\ UNCHANGED <<Lock, known, Claim, socket, tag, undone>>

removeClaim(p) ==
  /\ at[p] = "unlinkClaim" /\ Frozen
  /\ claim' = Nobody /\ torn' = FALSE /\ Goes(p, "createClaim")
  /\ UNCHANGED <<Lock, known, socket, metadata, tag, undone>>

(* The claim is created, then written: into a file that may have been unlinked since. *)
createClaim(p) ==
  /\ at[p] = "createClaim" /\ Frozen
  /\ IF claim = Nobody THEN /\ claim' = p /\ torn' = TRUE /\ Goes(p, "writeClaim")
                            /\ UNCHANGED <<Lock, known, socket, metadata, tag, undone>>
     ELSE Refused(p)

writeClaim(p) ==
  /\ at[p] = "writeClaim" /\ Frozen
  /\ torn' = (torn /\ claim # p) /\ Releases(p) /\ Goes(p, "exec")
  /\ UNCHANGED <<known, claim, socket, metadata, tag, undone>>

selectCoordinator(p) ==
  \/ Locked(p) \/ readCatalog(p) \/ ensureCoordinator(p) \/ probeCoordinator(p) \/ classifyLiveClaim(p) \/ assertCoordinatorOffline(p)
  \/ coordinatorWindows(p) \/ removeOwnedSocket(p) \/ removeFileIfPresent(p) \/ removeClaim(p) \/ createClaim(p)
  \/ writeClaim(p)

(* The coordinator that runs restores the workspace; the starter ends. *)
reconcileActive(p) ==
  /\ at[p] = "reconcile" /\ Goes(p, "dead") /\ Frozen
  /\ UNCHANGED <<Lock, known, Artifacts, tag, undone>>

-----------------------------------------------------------------------------
(* startCoordinatorSession *)

(* What fails here closes a bus that was started, and shuts the session down. *)
Fails(p) == /\ undone' = [undone EXCEPT ![p] = IF at[p] \in Listening THEN Files ELSE {}]
            /\ Goes(p, IF at[p] \in Listening THEN "closing" ELSE "release")
            /\ UNCHANGED <<Lock, known, Artifacts, tag>>

(* The process is replaced by Pi, told by its environment what it is to be. *)
launchCoordinator(p) == at[p] = "exec" /\ Frozen /\ (Passes(p, "launch") \/ Refused(p))

(* An environment of which a part is missing shuts Pi down. *)
parseLaunchIntent(p) == at[p] = "launch" /\ Frozen /\ (Passes(p, "boot") \/ Fails(p))

(* The launch, the manifest and the claim must name this very process. *)
claimed(p) ==
  /\ at[p] = "boot" /\ Frozen
  /\ \/ claim = p /\ ~torn /\ Passes(p, "bind")
     \/ Fails(p)

bindCurrent(p) ==
  /\ at[p] = "bind" /\ Frozen
  /\ \/ /\ Bound \subseteq {window[p]} /\ tag' = [tag EXCEPT ![window[p]] = p] /\ Goes(p, "listen")
        /\ UNCHANGED <<Lock, known, Artifacts, undone>>
     \/ Fails(p)

(* A socket file, stale or not, is in the way. *)
listen(p) ==
  /\ at[p] = "listen" /\ Frozen
  /\ IF socket = Nobody THEN /\ socket' = p /\ Goes(p, "publish") /\ UNCHANGED <<Lock, known, Claim, metadata, tag, undone>>
     ELSE Fails(p)

startRuntimeBus(p) ==
  /\ at[p] = "publish" /\ Frozen
  /\ \/ metadata' = p /\ Goes(p, "unclaim") /\ UNCHANGED <<Lock, known, Claim, socket, tag, undone>>
     \/ Fails(p)

unclaim(p) ==
  /\ at[p] = "unclaim" /\ Frozen
  /\ IF claim = Nobody THEN Fails(p)
     ELSE /\ claim' = Nobody /\ torn' = FALSE /\ Goes(p, "serving")
          /\ UNCHANGED <<Lock, known, socket, metadata, tag, undone>>

-----------------------------------------------------------------------------
(* The end of a coordinator *)

SessionShutdown(p) == at[p] = "serving" /\ Fails(p) /\ Frozen

(* The server is closed (which removes the socket file); both files are unlinked,   *)
(* whoever they are by now.                                                       *)
Unlinks(p, f) ==
  /\ at[p] = "closing" /\ f \in undone[p] /\ Frozen
  /\ undone' = [undone EXCEPT ![p] = @ \ {f}]
  /\ socket' = (IF f = "socket" THEN Nobody ELSE socket)
  /\ metadata' = (IF f = "metadata" THEN Nobody ELSE metadata)
  /\ Goes(p, IF undone[p] = {f} THEN "release" ELSE "closing")
  /\ UNCHANGED <<Lock, known, Claim, tag>>

releaseCurrent(p) ==
  /\ at[p] = "release" /\ Frozen /\ Goes(p, "dead")
  /\ tag' = [tag EXCEPT ![window[p]] = IF @ = p THEN Nobody ELSE @]
  /\ UNCHANGED <<Lock, known, Artifacts, undone>>

Coordinates(p) == launchCoordinator(p) \/ parseLaunchIntent(p) \/ claimed(p) \/ bindCurrent(p) \/ listen(p) \/ startRuntimeBus(p)
                  \/ unclaim(p) \/ releaseCurrent(p)
                  \/ \E f \in Files : Unlinks(p, f)

(* kill -9, or the error of the timer that finds the lock taken by another. *)
Crash(p) == processAlive(p) /\ Goes(p, "dead") /\ Frozen /\ UNCHANGED <<Lock, known, Artifacts, tag, undone>>

(* The user closes the window of a process that ended. *)
CloseWindow(w) ==
  /\ tag[w] # Nobody /\ \A p \in Starters : window[p] = w => ~processAlive(p)
  /\ tag' = [tag EXCEPT ![w] = Nobody]
  /\ Frozen /\ UNCHANGED <<at, Lock, known, Artifacts, undone>>

Next == \/ \E p \in Starters : \/ Main(p) \/ selectCoordinator(p) \/ reconcileActive(p) \/ Coordinates(p)
                               \/ SessionShutdown(p) \/ Crash(p)
        \/ \E w \in Windows : CloseWindow(w)

Spec == Init /\ [][Next]_startVars

(* A process that runs goes on; a coordinator serves as long as the user likes. *)
Fairness == \A p \in Starters : WF_startVars(selectCoordinator(p) \/ reconcileActive(p) \/ Coordinates(p))

-----------------------------------------------------------------------------
(* A coordinator that serves is alone and has its window, whatever was started,     *)
(* paused, closed or killed before: the binding of the window decides, even between  *)
(* starters that overtook each other.  While no starter was overtaken, what a        *)
(* client or the next `pi --start` finds leads to it too: an overtaken one that       *)
(* goes on after its checks may unlink the socket of a coordinator that serves.       *)
OneCoordinator ==
  \A p \in Starters : at[p] = "serving" =>
    /\ \A q \in Starters \ {p} : at[q] # "serving"
    /\ tag[window[p]] = p
    /\ overtaken = {} => socket = p /\ metadata = p

(* Every start ends: refused, taken over by the coordinator there is, or serving. *)
StartsEnd == []<>(\A p \in Starters : at[p] \in {"off", "dead", "serving"})
================================================================================
