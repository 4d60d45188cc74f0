----------------------------- MODULE MC_Workspace -----------------------------
(* Finite instances of the session manager: window bindings, the life of a     *)
(* session, and the workspace's coordinator as it starts, serves and restores.   *)
(* The parts share no state, so they are checked one at a time: the part in      *)
(* focus moves, the others rest.                                                 *)
EXTENDS MC_WindowBinding, Naturals

CONSTANTS MaxCalls, MaxNames,                             \* SessionLifecycle
          Starters, Nobody, StartWindows,                 \* WorkspaceStart
          Conns, Keys, MAX_CONNECTIONS, MAX_IN_FLIGHT, MAX_CACHE, MaxFrames, \* RuntimeBus
          MaxRounds, MaxLaunches                          \* WorkspaceRestore

(* Request keys are numbered from 1: 0 is a request without one. *)
ASSUME BusAssumption == MAX_CACHE \in Nat \ {0} /\ MAX_IN_FLIGHT \in Nat /\ Keys \subseteq Nat \ {0}
ASSUME StartAssumption == Nobody \notin Starters

VARIABLES focus,
  files, record, lifeTag, session, name, generation, managed, cached, finalization,
  workStartup, transitions, calls, finished, spoiled,
  at, window, startLock, known, claim, torn, socket, metadata, startTag, undone, overtaken,
  serving, conn, inFlight, frames, cache, runs, forgotten,
  restoreOpen, launches, ordinary, child, restoreBound, ready, fresh, published, waiters, rounds

theBinding == <<tag, owner, open, lock, pc, sess, bound, seen, target, made>>
theLifecycle == <<files, record, lifeTag, session, name, generation, managed, cached,
                  finalization, workStartup, transitions, calls, finished, spoiled>>
theStart == <<at, window, startLock, known, claim, torn, socket, metadata, startTag, undone, overtaken>>
theBus == <<serving, conn, inFlight, frames, cache, runs, forgotten>>
theRestore == <<restoreOpen, launches, ordinary, child, restoreBound, ready, fresh, published,
                waiters, rounds>>

Life == INSTANCE SessionLifecycle WITH tag <- lifeTag
Start == INSTANCE WorkspaceStart WITH lock <- startLock, tag <- startTag, Windows <- StartWindows
Bus == INSTANCE RuntimeBus
Rounds == INSTANCE WorkspaceRestore WITH open <- restoreOpen, bound <- restoreBound

(* The last starter has a window of its own, the others share one. *)
Placement == [p \in Starters |-> IF p + 1 \in Starters THEN 1 ELSE 2]

(* One session may have its file from before; which, makes no difference. *)
oldSession == CHOOSE s \in Sids : TRUE

(* Of a part that is not in focus one initial state is enough. *)
MC_Init ==
  /\ focus \in {"binding", "lifecycle", "start", "bus", "restore"}
  /\ Init
  /\ files \in SUBSET (IF focus = "lifecycle" THEN {oldSession} ELSE {}) /\ Life!Init
  /\ window = Placement /\ (focus # "start" => known = FALSE) /\ Start!Init
  /\ Bus!Init
  /\ (focus # "restore" => restoreOpen = {}) /\ Rounds!Init

MC_Next ==
  /\ UNCHANGED focus
  /\ \/ /\ focus = "binding" /\ Next
        /\ UNCHANGED <<theLifecycle, theStart, theBus, theRestore>>
     \/ /\ focus = "lifecycle" /\ Life!Next
        /\ UNCHANGED <<theBinding, theStart, theBus, theRestore>>
     \/ /\ focus = "start" /\ Start!Next
        /\ UNCHANGED <<theBinding, theLifecycle, theBus, theRestore>>
     \/ /\ focus = "bus" /\ Bus!Next
        /\ UNCHANGED <<theBinding, theLifecycle, theStart, theRestore>>
     \/ /\ focus = "restore" /\ Rounds!Next
        /\ UNCHANGED <<theBinding, theLifecycle, theStart, theBus>>

(* At rest nothing of a part is enabled that must happen. *)
MC_Spec ==
  /\ MC_Init
  /\ [][MC_Next]_<<focus, theBinding, theLifecycle, theStart, theBus, theRestore>>
  /\ Start!Fairness
  /\ Rounds!Fairness

(* The properties of the parts. *)
BindingFollowsSession == Life!BindingFollowsSession
OneCoordinator == Start!OneCoordinator
AskedOnceDoneOnce == Bus!AskedOnceDoneOnce
RestoredIsProven == Rounds!RestoredIsProven

(* Whoever starts the workspace comes to an end, and so does every reconciliation. *)
StartsAndRoundsEnd == Start!StartsEnd /\ Rounds!RoundsEnd
==============================================================================
