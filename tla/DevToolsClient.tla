---------------------------- MODULE DevToolsClient ----------------------------
(***************************************************************************)
(* extensions/dev-tools/client.ts: the one connection of a process to the   *)
(* dev-tools daemon, which its callers share.                               *)
(*                                                                          *)
(* Callers that find no connection share one attempt, which spawns a daemon *)
(* when nothing listens and polls for its socket.  A request that is not    *)
(* answered in time is sent once more; a second timeout takes the socket     *)
(* for dead, and everyone's.  An action is the code between two awaits, or   *)
(* one event of a socket.                                                   *)
(***************************************************************************)
EXTENDS Integers, FiniteSets

CONSTANTS
  Callers,   \* calls, each made once
  Polls,     \* how often a spawned daemon is tried
  MaxFaults  \* bound: faults of daemons and of the system

VARIABLES
  path,      \* the socket file: "none", "stale" or "live"
  attempt,   \* [at: where the shared attempt is, left: polls it may still make]
  socket,    \* the current socket: its number, and whether it is destroyed
  opened,    \* sockets connected so far
  nextId,
  registry,  \* pendingRequests: id -> caller, as records
  wire,      \* requests written and not answered: id, caller, socket
  caller,    \* [at, tries, id] of each caller
  answer,    \* whose request the answer of each caller belongs to
  isClosed, faults

vars == <<path, attempt, socket, opened, nextId, registry, wire, caller, answer, isClosed, faults>>

NoSocket == 0
NoAttempt == [at |-> "none", left |-> 0]
Ended == {"answered", "failed"}

Init == /\ path \in {"none", "stale", "live"}
        /\ attempt = NoAttempt
        /\ socket = [n |-> NoSocket, destroyed |-> FALSE]
        /\ opened = 0 /\ nextId = 1
        /\ registry = {} /\ wire = {}
        /\ caller = [c \in Callers |-> [at |-> "new", tries |-> 0, id |-> 0]]
        /\ answer = [c \in Callers |-> "none"]
        /\ isClosed = FALSE /\ faults = 0

(* Everyone who awaits at a place moves on. *)
Moved(cs, from, to) == [c \in Callers |-> IF cs[c].at = from THEN [cs[c] EXCEPT !.at = to] ELSE cs[c]]

Usable == socket.n # NoSocket /\ ~socket.destroyed

-----------------------------------------------------------------------------
(* The current socket goes, and every request that awaits an answer fails. *)

Settled(cs) ==
  [c \in Callers |-> IF \E r \in registry : r.caller = c THEN [cs[c] EXCEPT !.at = "failed"] ELSE cs[c]]

TearDown(cs) ==
  /\ socket' = [n |-> NoSocket, destroyed |-> FALSE]
  /\ registry' = {}
  /\ wire' = {w \in wire : w.socket # socket.n}
  /\ caller' = Settled(cs)

-----------------------------------------------------------------------------
(* The shared connection attempt *)

(* Whoever waits for the attempt learns how it ended. *)
AttemptEnds(to) ==
  /\ attempt' = NoAttempt
  /\ caller' = Moved(caller, "connecting", to)

(* ensureConnectedEffect: connected already, or one attempt for everyone. *)
EnsureConnected(c) ==
  /\ caller[c].at = "new"
  /\ \/ /\ isClosed
        /\ caller' = [caller EXCEPT ![c].at = "failed"]
        /\ UNCHANGED attempt
     \/ /\ ~isClosed /\ Usable
        /\ caller' = [caller EXCEPT ![c].at = "connected"]
        /\ UNCHANGED attempt
     \/ /\ ~isClosed /\ ~Usable
        /\ attempt' = IF attempt.at = "none" THEN [at |-> "first", left |-> Polls] ELSE attempt
        /\ caller' = [caller EXCEPT ![c].at = "connecting"]
  /\ UNCHANGED <<path, socket, opened, nextId, registry, wire, answer, isClosed, faults>>

(* A connect event: the socket is now the current one, in place of another. *)
Connected ==
  /\ attempt.at \in {"first", "polling"} /\ path = "live"
  /\ opened' = opened + 1
  /\ socket' = [n |-> opened + 1, destroyed |-> FALSE]
  /\ registry' = {}
  /\ wire' = {w \in wire : w.socket # socket.n}
  /\ attempt' = NoAttempt
  /\ caller' = Moved(Settled(caller), "connecting", "connected")
  /\ UNCHANGED <<path, nextId, answer, isClosed, faults>>

(* Nothing listens: remove what is left at the path and spawn a daemon. *)
NotListening ==
  /\ attempt.at = "first" /\ path # "live"
  /\ path' \in {"none", path}
  /\ attempt' = [attempt EXCEPT !.at = "spawning"]
  /\ UNCHANGED <<socket, opened, nextId, registry, wire, caller, answer, isClosed, faults>>

(* The error event of a connection that raced with the start of a daemon is   *)
(* the same, and unlinks the socket of a daemon that lives by now.            *)
Refused ==
  /\ attempt.at = "first" /\ path = "live" /\ faults < MaxFaults
  /\ faults' = faults + 1
  /\ path' = "none"
  /\ attempt' = [attempt EXCEPT !.at = "spawning"]
  /\ UNCHANGED <<socket, opened, nextId, registry, wire, caller, answer, isClosed>>

DaemonSpawned ==
  /\ attempt.at = "spawning"
  /\ attempt' = [attempt EXCEPT !.at = "polling"]
  /\ UNCHANGED <<path, socket, opened, nextId, registry, wire, caller, answer, isClosed, faults>>

(* A poll that finds no socket, or is refused. *)
NotReady ==
  /\ attempt.at = "polling" /\ path # "live"
  /\ IF attempt.left > 0
     THEN attempt' = [attempt EXCEPT !.left = @ - 1] /\ UNCHANGED caller
     ELSE AttemptEnds("failed")
  /\ UNCHANGED <<path, socket, opened, nextId, registry, wire, answer, isClosed, faults>>

(* connect() or spawn() throws, or the process has an error event. *)
AttemptThrows ==
  /\ attempt.at \in {"first", "spawning", "polling"} /\ faults < MaxFaults
  /\ faults' = faults + 1
  /\ AttemptEnds("failed")
  /\ UNCHANGED <<path, socket, opened, nextId, registry, wire, answer, isClosed>>

-----------------------------------------------------------------------------
(* Requests *)

(* Mutant: the second try of a request has the id of the first. *)
SameId == nextId' = nextId

FreshId == nextId' = nextId + 1

(* registerRequestEffect: a new id, and the line is written. *)
Register(c) ==
  /\ caller[c].at = "connected"
  /\ IF isClosed \/ ~Usable
     THEN /\ caller' = [caller EXCEPT ![c].at = "failed"]
          /\ UNCHANGED <<nextId, registry, wire>>
     ELSE /\ FreshId
          /\ registry' = registry \cup {[id |-> nextId, caller |-> c]}
          /\ wire' = wire \cup {[id |-> nextId, caller |-> c, socket |-> socket.n]}
          /\ caller' = [caller EXCEPT ![c] = [at |-> "awaiting", tries |-> @.tries + 1, id |-> nextId]]
  /\ UNCHANGED <<path, attempt, socket, opened, answer, isClosed, faults>>

(* A write that throws takes the registration back. *)
WriteFails(c) ==
  /\ caller[c].at = "connected" /\ Usable /\ faults < MaxFaults
  /\ faults' = faults + 1
  /\ FreshId
  /\ caller' = [caller EXCEPT ![c].at = "failed"]
  /\ UNCHANGED <<path, attempt, socket, opened, registry, wire, answer, isClosed>>

(* onSocketData: by its id, the answer finds whoever awaits it, if anyone. *)
Respond(w) ==
  /\ w \in wire /\ w.socket = socket.n
  /\ wire' = wire \ {w}
  /\ LET found == {r \in registry : r.id = w.id} IN
       /\ registry' = registry \ found
       /\ caller' = [c \in Callers |-> IF \E r \in found : r.caller = c
                                       THEN [caller[c] EXCEPT !.at = "answered"] ELSE caller[c]]
       /\ answer' = [c \in Callers |-> IF \E r \in found : r.caller = c THEN w.caller ELSE answer[c]]
  /\ UNCHANGED <<path, attempt, socket, opened, nextId, isClosed, faults>>

(* An answer that does not parse leaves its request where it is. *)
Garbled(w) ==
  /\ w \in wire /\ w.socket = socket.n /\ faults < MaxFaults
  /\ faults' = faults + 1
  /\ wire' = wire \ {w}
  /\ UNCHANGED <<path, attempt, socket, opened, nextId, registry, caller, answer, isClosed>>

(* The first timeout of a request: it is taken out and sent again. *)
TimesOut(c) ==
  /\ caller[c].at = "awaiting" /\ caller[c].tries = 1
  /\ registry' = {r \in registry : r.id # caller[c].id}
  /\ caller' = [caller EXCEPT ![c].at = "new"]
  /\ UNCHANGED <<path, attempt, socket, opened, nextId, wire, answer, isClosed, faults>>

(* The second: discardStaleSocket, the file and the socket of everyone. *)
GivesUp(c) ==
  /\ caller[c].at = "awaiting" /\ caller[c].tries = 2
  /\ path' \in {"none", path}
  /\ IF socket.n # NoSocket
     THEN TearDown([caller EXCEPT ![c].at = "failed"])
     ELSE /\ registry' = {r \in registry : r.id # caller[c].id}
          /\ caller' = [caller EXCEPT ![c].at = "failed"]
          /\ UNCHANGED <<socket, wire>>
  /\ UNCHANGED <<attempt, opened, nextId, answer, isClosed, faults>>

-----------------------------------------------------------------------------
(* What happens to the socket, and close() *)

(* The peer ends: Node destroys the socket before it tells of the close. *)
SocketEnds ==
  /\ Usable /\ faults < MaxFaults
  /\ faults' = faults + 1
  /\ socket' = [socket EXCEPT !.destroyed = TRUE]
  /\ wire' = {w \in wire : w.socket # socket.n}
  /\ path' \in {"none", "stale", path}
  /\ UNCHANGED <<attempt, opened, nextId, registry, caller, answer, isClosed>>

SocketCloses ==
  /\ socket.n # NoSocket /\ socket.destroyed
  /\ TearDown(caller)
  /\ UNCHANGED <<path, attempt, opened, nextId, answer, isClosed, faults>>

(* The waiters of the attempt fail, its fiber is interrupted and destroys its *)
(* socket; every request fails.                                               *)
Close ==
  /\ ~isClosed /\ isClosed' = TRUE
  /\ attempt' = NoAttempt
  /\ TearDown(Moved(caller, "connecting", "failed"))
  /\ UNCHANGED <<path, opened, nextId, answer, faults>>

(* Some daemon binds the path. *)
DaemonListens ==
  /\ path # "live"
  /\ path' = "live"
  /\ UNCHANGED <<attempt, socket, opened, nextId, registry, wire, caller, answer, isClosed, faults>>

-----------------------------------------------------------------------------
Connecting == \/ Connected \/ NotListening \/ Refused \/ DaemonSpawned \/ NotReady \/ AttemptThrows

Next ==
  \/ Connecting
  \/ \E c \in Callers : EnsureConnected(c) \/ Register(c) \/ WriteFails(c) \/ TimesOut(c) \/ GivesUp(c)
  \/ \E w \in wire : Respond(w) \/ Garbled(w)
  \/ SocketEnds \/ SocketCloses \/ Close \/ DaemonListens

(* The attempt and its timers go on, promises that are settled are continued,  *)
(* request timers fire and sockets tell of their close.  Nothing makes a       *)
(* daemon listen or answer.                                                    *)
Fairness ==
  /\ WF_vars(Connecting) /\ WF_vars(SocketCloses)
  /\ \A c \in Callers : /\ WF_vars(caller[c].tries > 0 /\ EnsureConnected(c))
                        /\ WF_vars(Register(c)) /\ WF_vars(TimesOut(c) \/ GivesUp(c))

Spec == Init /\ [][Next]_vars /\ Fairness

-----------------------------------------------------------------------------
(* Every request that awaits an answer was written on the socket that is read *)
(* now, nothing is left after close(), and an answer is for the caller who    *)
(* gets it: late answers to first tries, replaced and discarded sockets and   *)
(* callers that share them notwithstanding.                                   *)
AnswersReachTheirCallers ==
  /\ \A c \in Callers : answer[c] \in {"none", c}
  /\ registry # {} => socket.n # NoSocket
  /\ \A r \in registry : caller[r.caller].at = "awaiting" /\ caller[r.caller].id = r.id
  /\ \A w \in wire : w.socket = socket.n
  /\ isClosed => registry = {} /\ attempt = NoAttempt /\ socket.n = NoSocket

(* Every call ends: callers that join an attempt, lose their socket to the     *)
(* timeout of another, or are caught by close().                              *)
CallersSettle == []<>(\A c \in Callers : caller[c].at \notin {"connecting", "connected", "awaiting"})
=============================================================================
