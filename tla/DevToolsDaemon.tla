---------------------------- MODULE DevToolsDaemon ----------------------------
(***************************************************************************)
(* extensions/dev-tools/daemon.ts: daemons that serve language servers over *)
(* one Unix socket path.                                                    *)
(*                                                                          *)
(* A client that cannot connect spawns a daemon, so there may be several,   *)
(* each in a process of its own; the last to bind has the path.  A daemon   *)
(* is a state machine of promises: acquisition, startup, the finalizer      *)
(* (stopping) and one task per accepted request.  An action is one          *)
(* reaction, or one system call on what the daemons share.                  *)
(***************************************************************************)
CONSTANTS
  Daemons, NoDaemon,
  Conns,        \* connections of clients, each made once
  Requests,     \* requests, each sent once
  ConnOf,       \* the connection of each request
  Shutdowns     \* the requests that ask the daemon to shut down

ASSUME DaemonAssumption ==
  /\ NoDaemon \notin Daemons
  /\ ConnOf \in [Requests -> Conns]
  /\ Shutdowns \subseteq Requests

VARIABLES
  sock,         \* whose listener the socket path leads to
  pidFile,      \* who wrote the pid file
  phase,        \* admission of each daemon
  acquisition,  \* the promise of acquire()
  startup,      \* the promise of start()
  stopping,     \* the finalizer: where release() is, or how it settled
  owned,        \* what each daemon recorded as its own: "pid", "socket"
  backends,     \* the language servers of each daemon
  failed,       \* daemons one of whose releases failed
  peer,         \* the daemon each connection leads to
  conn,         \* each connection, as its daemon sees it
  request       \* each request

daemonVars == <<phase, acquisition, startup, stopping, owned, backends, failed>>
clientVars == <<peer, conn, request>>
vars == <<sock, pidFile, daemonVars, clientVars>>

Pending == {"called", "unlink", "bind", "listening"}
Releasing == {"await", "drain", "backends", "destroy", "unlink", "close"}

Init == /\ sock = NoDaemon /\ pidFile = NoDaemon
        /\ phase = [d \in Daemons |-> "closed"]
        /\ acquisition = [d \in Daemons |-> "none"]
        /\ startup = [d \in Daemons |-> "none"]
        /\ stopping = [d \in Daemons |-> "none"]
        /\ owned = [d \in Daemons |-> {}]
        /\ backends = [d \in Daemons |-> "up"]
        /\ failed = {}
        /\ peer = [c \in Conns |-> NoDaemon]
        /\ conn = [c \in Conns |-> "none"]
        /\ request = [r \in Requests |-> "unsent"]

-----------------------------------------------------------------------------
(* shutdown(): closes admission at once; later calls get the same finalizer. *)

ShutsDown(d) ==
  IF stopping[d] = "none"
    THEN /\ stopping' = [stopping EXCEPT ![d] = "await"]
         /\ phase' = [phase EXCEPT ![d] = "stopping"]
    ELSE UNCHANGED <<stopping, phase>>

-----------------------------------------------------------------------------
(* start() and acquire() *)

Start(d) ==
  /\ startup[d] = "none" /\ stopping[d] = "none"
  /\ acquisition' = [acquisition EXCEPT ![d] = "called"]
  /\ startup' = [startup EXCEPT ![d] = "pending"]
  /\ UNCHANGED <<sock, pidFile, phase, stopping, owned, backends, failed, clientVars>>

(* start() after shutdown() is refused. *)
StartRefused(d) ==
  /\ startup[d] = "none" /\ stopping[d] # "none"
  /\ startup' = [startup EXCEPT ![d] = "rejected"]
  /\ UNCHANGED <<sock, pidFile, phase, acquisition, stopping, owned, backends, failed, clientVars>>

Acquires(d, next) == acquisition' = [acquisition EXCEPT ![d] = next]

AcquirePid(d) ==
  /\ acquisition[d] = "called" /\ stopping[d] = "none"
  /\ pidFile' = d
  /\ owned' = [owned EXCEPT ![d] = @ \cup {"pid"}]
  /\ Acquires(d, "unlink")
  /\ UNCHANGED <<sock, phase, startup, stopping, backends, failed, clientVars>>

(* Stopped before it began, or the pid file cannot be written. *)
AcquireFails(d) ==
  /\ acquisition[d] = "called"
  /\ Acquires(d, "rejected")
  /\ UNCHANGED <<sock, pidFile, phase, startup, stopping, owned, backends, failed, clientVars>>

(* removeStaleArtifact(): whosever socket it is, if that succeeds. *)
AcquireUnlink(d) ==
  /\ acquisition[d] = "unlink"
  /\ sock' \in {sock, NoDaemon}
  /\ Acquires(d, "bind")
  /\ UNCHANGED <<pidFile, phase, startup, stopping, owned, backends, failed, clientVars>>

AcquireBind(d) ==
  /\ acquisition[d] = "bind" /\ sock = NoDaemon
  /\ sock' = d
  /\ Acquires(d, "listening")
  /\ UNCHANGED <<pidFile, phase, startup, stopping, owned, backends, failed, clientVars>>

AcquireInUse(d) ==
  /\ acquisition[d] = "bind" /\ sock # NoDaemon
  /\ Acquires(d, "rejected")
  /\ UNCHANGED <<sock, pidFile, phase, startup, stopping, owned, backends, failed, clientVars>>

AcquireListening(d) ==
  /\ acquisition[d] = "listening"
  /\ owned' = [owned EXCEPT ![d] = @ \cup {"socket"}]
  /\ Acquires(d, "fulfilled")
  /\ UNCHANGED <<sock, pidFile, phase, startup, stopping, backends, failed, clientVars>>

Started(d) ==
  /\ startup[d] = "pending" /\ acquisition[d] = "fulfilled" /\ stopping[d] = "none"
  /\ startup' = [startup EXCEPT ![d] = "fulfilled"]
  /\ phase' = [phase EXCEPT ![d] = "accepting"]
  /\ UNCHANGED <<sock, pidFile, acquisition, stopping, owned, backends, failed, clientVars>>

(* Acquisition failed, or the daemon was stopped meanwhile: clean up first. *)
StartupFails(d) ==
  /\ startup[d] = "pending"
  /\ acquisition[d] = "rejected" \/ (acquisition[d] = "fulfilled" /\ stopping[d] # "none")
  /\ ShutsDown(d)
  /\ startup' = [startup EXCEPT ![d] = "cleaning"]
  /\ UNCHANGED <<sock, pidFile, acquisition, owned, backends, failed, clientVars>>

StartupRejected(d) ==
  /\ startup[d] = "cleaning" /\ stopping[d] \in {"fulfilled", "rejected"}
  /\ startup' = [startup EXCEPT ![d] = "rejected"]
  /\ UNCHANGED <<sock, pidFile, phase, acquisition, stopping, owned, backends, failed, clientVars>>

-----------------------------------------------------------------------------
(* Who calls shutdown() *)

(* SIGTERM, SIGINT, an error of the listener. *)
Signal(d) ==
  /\ stopping[d] = "none"
  /\ ShutsDown(d)
  /\ UNCHANGED <<sock, pidFile, acquisition, startup, owned, backends, failed, clientVars>>

(* The timer runs while requests do: only new requests set it back. *)
Idle(d) ==
  /\ phase[d] = "accepting"
  /\ ShutsDown(d)
  /\ UNCHANGED <<sock, pidFile, acquisition, startup, owned, backends, failed, clientVars>>

-----------------------------------------------------------------------------
(* Connections and requests *)

Connect(c) ==
  /\ conn[c] = "none" /\ sock # NoDaemon /\ acquisition[sock] = "fulfilled"
  /\ peer' = [peer EXCEPT ![c] = sock]
  /\ conn' = [conn EXCEPT ![c] = IF phase[sock] = "accepting" THEN "open" ELSE "closed"]
  /\ UNCHANGED <<sock, pidFile, daemonVars, request>>

Disconnect(c) ==
  /\ conn[c] \in {"open", "endAfterDrain", "ended"}
  /\ conn' = [conn EXCEPT ![c] = "closed"]
  /\ UNCHANGED <<sock, pidFile, daemonVars, peer, request>>

Accept(r) ==
  LET c == ConnOf[r]  d == peer[c] IN
  /\ request[r] = "unsent" /\ conn[c] \in {"open", "endAfterDrain"}
  /\ phase[d] = "accepting"
  /\ request' = [request EXCEPT ![r] = "running"]
  /\ IF r \in Shutdowns
       THEN conn' = [conn EXCEPT ![c] = "endAfterDrain"] /\ ShutsDown(d)
       ELSE UNCHANGED <<conn, stopping, phase>>
  /\ UNCHANGED <<sock, pidFile, acquisition, startup, owned, backends, failed, peer>>

(* "Daemon is stopping", while there is somebody to say it to. *)
Refuse(r) ==
  LET c == ConnOf[r] IN
  /\ request[r] = "unsent" /\ conn[c] \in {"open", "endAfterDrain"}
  /\ phase[peer[c]] # "accepting"
  /\ request' = [request EXCEPT ![r] = "refused"]
  /\ UNCHANGED <<sock, pidFile, daemonVars, peer, conn>>

TaskEnds(r) ==
  /\ request[r] = "running"
  /\ request' = [request EXCEPT ![r] =
       IF conn[ConnOf[r]] \in {"open", "endAfterDrain"} THEN "answered" ELSE "unheard"]
  /\ UNCHANGED <<sock, pidFile, daemonVars, peer, conn>>

-----------------------------------------------------------------------------
(* The finalizer *)

Finalizes(d, next) == stopping' = [stopping EXCEPT ![d] = next]

(* Mutant: the finalizer waits for the public startup. *)
AwaitStartup(d) ==
  /\ stopping[d] = "await" /\ startup[d] \in {"none", "fulfilled", "rejected"}
  /\ Finalizes(d, "drain")
  /\ UNCHANGED <<sock, pidFile, phase, acquisition, startup, owned, backends, failed, clientVars>>

AwaitAcquisition(d) ==
  /\ stopping[d] = "await" /\ acquisition[d] \notin Pending
  /\ Finalizes(d, "drain")
  /\ UNCHANGED <<sock, pidFile, phase, acquisition, startup, owned, backends, failed, clientVars>>

Tasks(d) == {r \in Requests : request[r] = "running" /\ peer[ConnOf[r]] = d}

Closes(d, from, to) ==
  conn' = [c \in Conns |-> IF peer[c] = d /\ conn[c] \in from THEN to ELSE conn[c]]

(* Mutant: the connections end while requests run. *)
DrainLater(d) ==
  /\ stopping[d] = "drain"
  /\ Closes(d, {"endAfterDrain"}, "ended")
  /\ Finalizes(d, "backends")
  /\ UNCHANGED <<sock, pidFile, phase, acquisition, startup, owned, backends, failed,
                 peer, request>>

Drain(d) ==
  /\ stopping[d] = "drain" /\ Tasks(d) = {}
  /\ Closes(d, {"endAfterDrain"}, "ended")
  /\ Finalizes(d, "backends")
  /\ UNCHANGED <<sock, pidFile, phase, acquisition, startup, owned, backends, failed,
                 peer, request>>

(* Every backend is asked to shut down, and every answer awaited. *)
ShutdownBackends(d) ==
  /\ stopping[d] = "backends"
  /\ backends' = [backends EXCEPT ![d] = "down"]
  /\ failed' \in {failed, failed \cup {d}}
  /\ Finalizes(d, "destroy")
  /\ UNCHANGED <<sock, pidFile, phase, acquisition, startup, owned, clientVars>>

(* Sockets are destroyed; closing the listener removes the path it was bound to, *)
(* whoever has that path by now.                                                 *)
DestroyAndClose(d) ==
  /\ stopping[d] = "destroy"
  /\ Closes(d, {"open", "endAfterDrain", "ended"}, "closed")
  /\ sock' = IF acquisition[d] = "fulfilled" THEN NoDaemon ELSE sock
  /\ Finalizes(d, "unlink")
  /\ UNCHANGED <<pidFile, phase, acquisition, startup, owned, backends, failed, peer, request>>

(* Mutant: a daemon that never listened keeps its pid file. *)
UnlinkIfListened(d) ==
  /\ stopping[d] = "unlink"
  /\ IF "socket" \in owned[d] THEN sock' = NoDaemon /\ pidFile' = NoDaemon
                              ELSE UNCHANGED <<sock, pidFile>>
  /\ Finalizes(d, "close")
  /\ UNCHANGED <<phase, acquisition, startup, owned, backends, failed, clientVars>>

UnlinkOwned(d) ==
  /\ stopping[d] = "unlink"
  /\ sock' = IF "socket" \in owned[d] THEN NoDaemon ELSE sock
  /\ pidFile' = IF "pid" \in owned[d] THEN NoDaemon ELSE pidFile
  /\ Finalizes(d, "close")
  /\ UNCHANGED <<phase, acquisition, startup, owned, backends, failed, clientVars>>

(* Telemetry is disposed of, and the listener has closed. *)
Settle(d) ==
  /\ stopping[d] = "close"
  /\ Finalizes(d, IF d \in failed THEN "rejected" ELSE "fulfilled")
  /\ UNCHANGED <<sock, pidFile, phase, acquisition, startup, owned, backends, failed, clientVars>>

-----------------------------------------------------------------------------
Startup(d) ==
  \/ AcquirePid(d) \/ AcquireFails(d) \/ AcquireUnlink(d) \/ AcquireBind(d)
  \/ AcquireInUse(d) \/ AcquireListening(d)
  \/ Started(d) \/ StartupFails(d) \/ StartupRejected(d)

Finalizer(d) ==
  \/ AwaitAcquisition(d) \/ Drain(d) \/ ShutdownBackends(d)
  \/ DestroyAndClose(d) \/ UnlinkOwned(d) \/ Settle(d)

Next ==
  \/ \E d \in Daemons : \/ Start(d) \/ StartRefused(d) \/ Startup(d)
                        \/ Signal(d) \/ Idle(d) \/ Finalizer(d)
  \/ \E c \in Conns : Connect(c) \/ Disconnect(c)
  \/ \E r \in Requests : Accept(r) \/ Refuse(r) \/ TaskEnds(r)

Spec == Init /\ [][Next]_vars

(* Reactions run, system calls return, requests end (the backends bound them), *)
(* and the idle timer fires; nobody has to start, signal, connect or send.     *)
Fairness ==
  /\ \A d \in Daemons : WF_vars(Startup(d)) /\ WF_vars(Finalizer(d)) /\ WF_vars(Idle(d))
  /\ \A r \in Requests : WF_vars(TaskEnds(r))

LiveSpec == Spec /\ Fairness

-----------------------------------------------------------------------------
(* Work that was accepted is done, and heard unless its client hung up, before *)
(* a daemon ends its connections or its language servers.                      *)
DrainsAcceptedWork ==
  \A r \in Requests :
    request[r] = "running" =>
      /\ backends[peer[ConnOf[r]]] = "up"
      /\ conn[ConnOf[r]] # "ended"

(* A daemon whose finalizer settled, however far its startup had come, left no *)
(* socket, no pid file, no connection and no language server behind.           *)
LeavesNothing ==
  \A d \in Daemons :
    stopping[d] \in {"fulfilled", "rejected"} =>
      /\ sock # d /\ pidFile # d /\ backends[d] = "down"
      /\ \A c \in Conns : peer[c] = d => conn[c] = "closed"

(* Startup and the finalizer never wait for each other: whatever is called in  *)
(* whatever order, a daemon that was started settles both in the end.          *)
StartedDaemonEnds ==
  []<>( \A d \in Daemons :
          startup[d] = "pending" \/ stopping[d] # "none" =>
            startup[d] \notin {"pending", "cleaning"} /\ stopping[d] \in {"fulfilled", "rejected"} )
===============================================================================
