--------------------------- MODULE WorkspaceRestore ---------------------------
(***************************************************************************)
(* extensions/session-manager/coordinator.ts and the restored child's part of   *)
(* index.ts: a coordinator restores the open sessions of its workspace.           *)
(*                                                                          *)
(* A round reads the manifest, makes a window for each open session that has       *)
(* none and waits for the child in it to publish that it is ready.  A child        *)
(* enrols (see SessionLifecycle), publishes, and publishes again every five         *)
(* seconds.  Windows and their bindings are those of WindowBinding, the requests    *)
(* travel through RuntimeBus.                                                   *)
(***************************************************************************)
EXTENDS Naturals, Sequences, FiniteSets

CONSTANTS
  Sids,        \* work sessions
  MaxRounds,   \* bound: reconciliations
  MaxLaunches  \* bound: children

VARIABLES
  open,        \* sessions that are open in the manifest
  launches,    \* the session of every child that was launched
  ordinary,    \* launches of the user, which never publish
  child,       \* of each launch: "starting", "enrolled" or "ended"
  bound,       \* of each session, the launch whose window is bound to it, or 0
  ready,       \* of each session, the launch that published last, or 0
  fresh,       \* sessions whose publication is no older than fifteen seconds
  published,   \* launches that published
  waiters,     \* [round, sid, launch] that wait for a publication; launch 0: any
  rounds       \* every reconciliation

restoreVars == <<open, launches, ordinary, child, bound, ready, fresh, published, waiters, rounds>>

Init == /\ open \in SUBSET Sids /\ launches = <<>> /\ ordinary = {} /\ child = <<>> /\ bound = [s \in Sids |-> 0]
        /\ ready = [s \in Sids |-> 0] /\ fresh = {} /\ published = {} /\ waiters = {} /\ rounds = <<>>

Outcomes == {"restored", "active", "timed-out", "failed"}
Running(r) == r \in DOMAIN rounds /\ rounds[r].at = "running"
Puts(r, s, state, made) == rounds' = [rounds EXCEPT ![r].of[s] = state, ![r].made[s] = made]
Children == <<open, launches, ordinary, child, bound>>
Readiness == <<ready, fresh, published, waiters>>

-----------------------------------------------------------------------------
(* The coordinator *)

reconcile ==
  /\ Len(rounds) < MaxRounds
  /\ rounds' = Append(rounds, [at |-> "queued", of |-> [s \in Sids |-> "none"], made |-> [s \in Sids |-> 0]])
  /\ UNCHANGED <<Children, Readiness>>

(* Rounds run one after the other; a manifest that names another coordinator ends   *)
(* a round at once.                                                               *)
reconcileWorkspace(r) ==
  /\ rounds[r].at = "queued" /\ \A q \in 1 .. r - 1 : rounds[q].at = "ended"
  /\ \/ rounds' = [rounds EXCEPT ![r].at = "running", ![r].of = [s \in Sids |-> IF s \in open THEN "restoring" ELSE "none"]]
     \/ rounds' = [rounds EXCEPT ![r].at = "ended"]
  /\ UNCHANGED <<Children, Readiness>>

Launch(s) == /\ Len(launches) < MaxLaunches
             /\ launches' = Append(launches, s) /\ child' = Append(child, "starting")
New == Len(launches) + 1

(* A session whose window is bound is left as it is.  Otherwise a window is made     *)
(* with the child in it and tagged; when that fails the child runs all the same.     *)
restoreWindow(r, s) ==
  /\ Running(r) /\ rounds[r].of[s] = "restoring"
  /\ \/ Puts(r, s, "failed", 0) /\ UNCHANGED Children
     \/ /\ bound[s] # 0 /\ Puts(r, s, "window", 0) /\ UNCHANGED Children
     \/ /\ bound[s] = 0 /\ Launch(s) /\ UNCHANGED <<open, ordinary>>
        /\ \/ bound' = [bound EXCEPT ![s] = New] /\ Puts(r, s, "window", New)
           \/ Puts(r, s, "failed", New) /\ UNCHANGED bound
  /\ UNCHANGED Readiness

Matches(publication, launch) == publication # 0 /\ (launch = 0 \/ publication = launch)

(* Mutant: any child of the session will do. *)
AnyIsReady(s, launch) == s \in fresh /\ ready[s] # 0

isPresent(s, launch) == s \in fresh /\ Matches(ready[s], launch)

Outcome(made) == IF made = 0 THEN "active" ELSE "restored"

awaitReady(r, s) ==
  /\ Running(r) /\ rounds[r].of[s] = "window"
  /\ LET made == rounds[r].made[s] IN
     IF isPresent(s, made) THEN Puts(r, s, Outcome(made), made) /\ UNCHANGED waiters
     ELSE Puts(r, s, "waiting", made) /\ waiters' = waiters \cup {[round |-> r, sid |-> s, launch |-> made]}
  /\ UNCHANGED <<Children, ready, fresh, published>>

(* Mutant: a round waits as long as it takes. *)
TimeoutNever(r, s) == FALSE /\ UNCHANGED restoreVars

Timeout(r, s) ==
  /\ Running(r) /\ rounds[r].of[s] = "waiting"
  /\ Puts(r, s, "timed-out", rounds[r].made[s])
  /\ waiters' = {w \in waiters : w.round # r \/ w.sid # s}
  /\ UNCHANGED <<Children, ready, fresh, published>>

summary(r) ==
  /\ Running(r) /\ \A s \in Sids : rounds[r].of[s] \in Outcomes \cup {"none"}
  /\ rounds' = [rounds EXCEPT ![r].at = "ended"]
  /\ UNCHANGED <<Children, Readiness>>

(* Whoever waits for this launch is told; nobody waits for the session after that,    *)
(* those of another launch neither.                                               *)
publishReady(l) ==
  LET s == launches[l] IN
  /\ ready' = [ready EXCEPT ![s] = l] /\ fresh' = fresh \cup {s} /\ published' = published \cup {l}
  /\ waiters' = {w \in waiters : w.sid # s}
  /\ LET told == {w \in waiters : w.sid = s /\ Matches(l, w.launch)} IN
     rounds' = [r \in DOMAIN rounds |->
       [rounds[r] EXCEPT !.of[s] = IF \E w \in told : w.round = r THEN Outcome(rounds[r].made[s]) ELSE @]]

(* Nothing was published for fifteen seconds. *)
Ages(s) == /\ s \in fresh /\ fresh' = fresh \ {s}
           /\ UNCHANGED <<Children, ready, published, waiters, rounds>>

-----------------------------------------------------------------------------
(* A child *)

(* Its window is released with it, if it bound it. *)
Ended(l) == /\ child' = [child EXCEPT ![l] = "ended"]
            /\ bound' = [bound EXCEPT ![launches[l]] = IF @ = l THEN 0 ELSE @]
            /\ UNCHANGED <<launches, ordinary, Readiness, rounds>>

(* The user runs a session of the workspace in a window of its own. *)
OrdinaryStarts(s) ==
  /\ bound[s] = 0 /\ Len(launches) < MaxLaunches
  /\ launches' = Append(launches, s) /\ child' = Append(child, "enrolled") /\ ordinary' = ordinary \cup {New}
  /\ bound' = [bound EXCEPT ![s] = New] /\ open' = open \cup {s}
  /\ UNCHANGED <<Readiness, rounds>>

(* verifyRestoredWorkLaunch and its enrolment: a session that is no longer open, or   *)
(* bound elsewhere, shuts the child down.                                          *)
verifyRestoredWorkLaunch(l) ==
  LET s == launches[l] IN
  /\ child[l] = "starting"
  /\ \/ /\ s \in open /\ bound[s] \in {0, l}
        /\ bound' = [bound EXCEPT ![s] = l] /\ child' = [child EXCEPT ![l] = "enrolled"]
        /\ UNCHANGED <<open, launches, ordinary, Readiness, rounds>>
     \/ Ended(l) /\ UNCHANGED open

(* The first publication and those of startReadinessPublisher; a first one that      *)
(* fails shuts the child down (ChildEnds).                                        *)
publishChildReady(l) ==
  /\ child[l] = "enrolled" /\ l \notin ordinary /\ publishReady(l)
  /\ UNCHANGED Children

(* The user quits the child, or is done with its session. *)
ChildEnds(l) ==
  /\ child[l] = "enrolled" /\ Ended(l)
  /\ open' \in {open, open \ {launches[l]}}

Coordinates == \/ \E r \in DOMAIN rounds : reconcileWorkspace(r) \/ summary(r)
               \/ \E r \in DOMAIN rounds, s \in Sids : restoreWindow(r, s) \/ awaitReady(r, s) \/ Timeout(r, s)

Next == \/ reconcile \/ Coordinates
        \/ \E s \in Sids : Ages(s) \/ OrdinaryStarts(s)
        \/ \E l \in DOMAIN launches : verifyRestoredWorkLaunch(l) \/ publishChildReady(l) \/ ChildEnds(l)

Spec == Init /\ [][Next]_restoreVars

(* Timers fire and the rounds go on. *)
Fairness == /\ WF_restoreVars(\E r \in DOMAIN rounds : reconcileWorkspace(r) \/ summary(r))
            /\ WF_restoreVars(\E r \in DOMAIN rounds, s \in Sids : restoreWindow(r, s) \/ awaitReady(r, s) \/ Timeout(r, s))

-----------------------------------------------------------------------------
(* A session is reported as restored only when the very child this round launched     *)
(* for it said that it is ready, and as active only when one of its children did.       *)
(* No session has two children that are enrolled.                                    *)
RestoredIsProven ==
  /\ \A r \in DOMAIN rounds, s \in Sids :
       /\ rounds[r].of[s] = "restored" => /\ rounds[r].made[s] \in published /\ launches[rounds[r].made[s]] = s
                                          /\ \A q \in DOMAIN rounds \ {r} : rounds[q].made[s] # rounds[r].made[s]
       /\ rounds[r].of[s] = "active" => \E l \in published : launches[l] = s
  /\ \A k, l \in DOMAIN launches : k # l /\ launches[k] = launches[l] => "enrolled" # child[k] \/ "enrolled" # child[l]

(* Every round ends. *)
RoundsEnd == []<>(\A r \in DOMAIN rounds : rounds[r].at = "ended")
================================================================================
