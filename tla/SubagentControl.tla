--------------------------- MODULE SubagentControl ---------------------------
(***************************************************************************)
(* SubagentRunSupervisor of extensions/subagent/control.ts: the admission   *)
(* queue of delegated runs, the leases it grants, the child sessions it     *)
(* retains and evicts, and its shutdown.                                    *)
(*                                                                          *)
(* JavaScript runs every method to completion, so each action is one call   *)
(* or one promise reaction.  The caller of a run and the child sessions are *)
(* the environment here; SubagentChildren gives the children their code.    *)
(***************************************************************************)
EXTENDS Integers, FiniteSets

CONSTANTS
  Runs,               \* run identifiers, each asks for admission once
  Workspaces,         \* values of canonicalWorkspaceKey
  ReadOnly,           \* a request with workspaceAccess "read"
  Children,           \* child session identifiers
  MaxConcurrentRuns, MaxPendingRuns, MaxRetainedJobs   \* SubagentRuntimeConfig

ASSUME LimitsAssumption == /\ MaxConcurrentRuns \in Nat \ {0}
                           /\ MaxPendingRuns \in Nat \ {0}
                           /\ MaxRetainedJobs \in Nat \ {0}
ASSUME ReadOnlyAssumption == ReadOnly \notin Workspaces

VARIABLES
  wants,          \* request.cwd of a writing run, ReadOnly of a reading one
  signalAborted,  \* runs whose request.signal is aborted
  pending,        \* the pending array, as the set of its runs ...
  arrival,        \* ... and the position at which each run was pushed
  arrivals,       \* how many runs were pushed so far
  active,         \* keys of the active map
  writers,        \* activeWorkspaceWriters
  cancelled,      \* active runs whose own controller is aborted
  admission,      \* what became of the promise acquire returned
  closed,         \* closed
  shutdownPhase,  \* where shutdownOwnedRuns stands
  retained,       \* keys of the children map
  retainedAt,     \* [Children -> Nat], the map's insertion order ...
  retentions,     \* ... and how many children were inserted so far
  evicting,       \* evicting
  childState,     \* summary().state of each child, "Busy" for Queued and Running
  closing,        \* the promise child.close() returned
  failures,       \* evictionFailures.length
  omitted         \* omittedEvictionFailures > 0

admissionVars == <<wants, signalAborted, pending, arrival, arrivals, active,
                   writers, cancelled, admission>>
childVars == <<retained, retainedAt, retentions, evicting, childState, closing, failures, omitted>>
shutdownVars == <<closed, shutdownPhase>>
vars == <<admissionVars, childVars, shutdownVars>>

AdmissionStates == {"unasked", "waiting", "leased", "released",
                    "closed", "capacity", "aborted"}
ChildStates == {"New", "Idle", "Busy", "Closing", "Closed"}

Init ==
  /\ wants \in [Runs -> Workspaces \cup {ReadOnly}]
  /\ signalAborted = {}
  /\ pending = {} /\ arrival = [r \in Runs |-> 0] /\ arrivals = 0
  /\ active = {} /\ writers = {} /\ cancelled = {}
  /\ admission = [r \in Runs |-> "unasked"]
  /\ closed = FALSE /\ shutdownPhase = "open"
  /\ retained = {} /\ retainedAt = [c \in Children |-> 0] /\ retentions = 0 /\ evicting = {}
  /\ childState = [c \in Children |-> "New"]
  /\ closing = [c \in Children |-> "none"]
  /\ failures = 0 /\ omitted = FALSE

-----------------------------------------------------------------------------
(* Admission. *)

Writes(S) == {wants[r] : r \in S} \ {ReadOnly}

(* Mutants: the workspace test forgotten; one lease too many. *)
CanStartAnywhere(r, a, w) == Cardinality(a) < MaxConcurrentRuns
CanStartOneMore(r, a, w) ==
  /\ Cardinality(a) <= MaxConcurrentRuns
  /\ wants[r] # ReadOnly => wants[r] \notin w

CanStart(r, a, w) ==
  /\ Cardinality(a) < MaxConcurrentRuns
  /\ wants[r] # ReadOnly => wants[r] \notin w

(* drain() takes the first startable entry again and again.  Starting a run *)
(* only makes the others harder to start, so the loop takes an entry if and *)
(* only if it can start after the entries taken ahead of it.  An aborted    *)
(* entry is taken as well, but it is rejected and occupies nothing.         *)
Before(G, r) == {s \in G \ signalAborted : arrival'[s] < arrival'[r]}

(* Mutants: a blocked head blocks the whole queue; the youngest goes first. *)
TakenFromHead(p, a, w, G) ==
  \A r \in p : r \in G <=> /\ CanStart(r, a \cup Before(G, r), w \cup Writes(Before(G, r)))
                          /\ \A s \in p : arrival'[s] < arrival'[r] => s \in G
TakenYoungestFirst(p, a, w, G) ==
  \A r \in p : LET younger == {s \in G \ signalAborted : arrival'[s] > arrival'[r]}
              IN  r \in G <=> CanStart(r, a \cup younger, w \cup Writes(younger))

Taken(p, a, w, G) ==
  \A r \in p : r \in G <=> CanStart(r, a \cup Before(G, r), w \cup Writes(Before(G, r)))

(* drain() on queue p, running a, writers w, leaving admission as adm for   *)
(* every run it does not take.                                              *)
Drain(p, a, w, adm) ==
  \E G \in SUBSET p :
    LET started == G \ signalAborted
    IN  /\ IF closed THEN G = {} ELSE Taken(p, a, w, G)
        /\ pending' = p \ G
        /\ active' = a \cup started
        /\ writers' = w \cup Writes(started)
        /\ admission' = [r \in Runs |-> IF r \in started THEN "leased"
                                        ELSE IF r \in G THEN "aborted"
                                        ELSE adm[r]]

(* Mutant: a supervisor that is shutting down still admits. *)
RejectionWhenOpen(r) ==
  IF r \in signalAborted THEN "aborted"
  ELSE IF Cardinality(active) + Cardinality(pending) >= MaxPendingRuns + MaxConcurrentRuns
       THEN "capacity"
  ELSE "none"

(* rejection(), in the order of its tests. *)
Rejection(r) ==
  IF closed THEN "closed"
  ELSE IF r \in signalAborted THEN "aborted"
  ELSE IF Cardinality(active) + Cardinality(pending) >= MaxPendingRuns + MaxConcurrentRuns
       THEN "capacity"
  ELSE "none"

RefuseRequest(r) ==
  /\ admission[r] = "unasked"
  /\ Rejection(r) # "none"
  /\ admission' = [admission EXCEPT ![r] = Rejection(r)]
  /\ UNCHANGED <<wants, signalAborted, pending, arrival, arrivals, active, writers, cancelled>>

QueueRequest(r) ==
  /\ admission[r] = "unasked"
  /\ Rejection(r) = "none"
  /\ arrivals' = arrivals + 1
  /\ arrival' = [arrival EXCEPT ![r] = arrivals + 1]
  /\ Drain(pending \cup {r}, active, writers, [admission EXCEPT ![r] = "waiting"])
  /\ UNCHANGED <<wants, signalAborted, cancelled>>

(* acquire() *)
AcquireRejected(r) == RefuseRequest(r) /\ UNCHANGED <<childVars, shutdownVars>>
AcquireQueued(r) == QueueRequest(r) /\ UNCHANGED <<childVars, shutdownVars>>

(* The caller aborts its signal.  Other listeners of the same signal run     *)
(* before the queue's own one, so OnAbort is a step of its own.              *)
SignalAbort(r) ==
  /\ r \notin signalAborted
  /\ admission[r] \in {"unasked", "waiting", "leased"}
  /\ signalAborted' = signalAborted \cup {r}
  /\ UNCHANGED <<wants, pending, arrival, arrivals, active, writers, cancelled,
                 admission, childVars, shutdownVars>>

OnAbort(r) ==
  /\ r \in signalAborted \cap pending
  /\ pending' = pending \ {r}
  /\ admission' = [admission EXCEPT ![r] = "aborted"]
  /\ UNCHANGED <<wants, signalAborted, arrival, arrivals, active, writers, cancelled,
                 childVars, shutdownVars>>

(* The timer start() arms: maxRunMs has passed. *)
Deadline(r) ==
  /\ r \in active \ cancelled
  /\ cancelled' = cancelled \cup {r}
  /\ UNCHANGED <<wants, signalAborted, pending, arrival, arrivals, active, writers,
                 admission, childVars, shutdownVars>>

-----------------------------------------------------------------------------
(* Retained children. *)

Settled(cs, c) == cs[c] \in {"Idle", "Closed"}

(* Mutant: off by one. *)
ExcessOffByOne == Cardinality(retained) - Cardinality(evicting) - MaxRetainedJobs - 1

Excess == Cardinality(retained) - Cardinality(evicting) - MaxRetainedJobs

(* pruneChildren(): close the oldest settled children beyond the limit. *)
PruneChildren(cs) ==
  IF closed
  THEN /\ childState' = cs
       /\ UNCHANGED <<retained, retainedAt, retentions, evicting, closing, failures,
                      omitted>>
  ELSE
  LET evictable == {c \in retained \ evicting : Settled(cs, c)}
  IN  \E V \in SUBSET evictable :
        /\ Cardinality(V) <= Excess \/ V = {}
        /\ V # evictable => Cardinality(V) >= Excess
        /\ \A v \in V, e \in evictable \ V : retainedAt[v] < retainedAt[e]
        /\ evicting' = evicting \cup V
        /\ childState' = [c \in Children |->
                            IF c \in V /\ cs[c] = "Idle" THEN "Closing" ELSE cs[c]]
        /\ closing' = [c \in Children |->
                         IF c \in V /\ closing[c] = "none" THEN "pending" ELSE closing[c]]
        /\ UNCHANGED <<retained, retainedAt, retentions, failures, omitted>>

ReturnLease(r, w) ==
  /\ r \in active
  /\ UNCHANGED <<wants, signalAborted, arrival, arrivals, shutdownVars>>
  /\ cancelled' = cancelled \ {r}
  /\ PruneChildren(childState)
  /\ Drain(pending, active \ {r}, w, [admission EXCEPT ![r] = "released"])

(* Mutant: nothing is released once closed. *)
ReleaseWhileOpen(r) == ~closed /\ ReturnLease(r, writers \ {wants[r]})

(* release() of a lease: prune, then hand the room to the queue. *)
Release(r) == ReturnLease(r, writers \ {wants[r]})

(* retainChild(), then the child's initial run reserves it in the same turn. *)
RetainChild(c) ==
  /\ ~closed
  /\ childState[c] = "New"
  /\ retained' = retained \cup {c}
  /\ retentions' = retentions + 1
  /\ retainedAt' = [retainedAt EXCEPT ![c] = retentions + 1]
  /\ childState' = [childState EXCEPT ![c] = "Busy"]
  /\ UNCHANGED <<admissionVars, evicting, closing, failures, omitted, shutdownVars>>

(* A prompt reserves an idle child (schedule). *)
ChildPrompted(c) ==
  /\ childState[c] = "Idle"
  /\ childState' = [childState EXCEPT ![c] = "Busy"]
  /\ UNCHANGED <<admissionVars, retained, retainedAt, retentions, evicting, closing, failures,
                 omitted, shutdownVars>>

(* An operation of the child is over: the child is idle and prunes. *)
ChildOperationEnds(c) ==
  /\ childState[c] = "Busy"
  /\ PruneChildren([childState EXCEPT ![c] = "Idle"])
  /\ UNCHANGED <<admissionVars, shutdownVars>>

(* The initial run failed and closes the child. *)
ChildFails(c) ==
  /\ childState[c] \in {"Idle", "Busy"}
  /\ childState' = [childState EXCEPT ![c] = "Closing"]
  /\ closing' = [closing EXCEPT ![c] = "pending"]
  /\ UNCHANGED <<admissionVars, retained, retainedAt, retentions, evicting, failures, omitted,
                 shutdownVars>>

(* teardownNative() marks the child Closed whether or not its hooks failed. *)
ChildTornDown(c) ==
  /\ childState[c] = "Closing"
  /\ closing[c] = "pending"
  /\ childState' = [childState EXCEPT ![c] = "Closed"]
  /\ UNCHANGED <<admissionVars, retained, retainedAt, retentions, evicting, closing, failures,
                 omitted, shutdownVars>>

(* close() fulfils only after the teardown; a failing abort rejects it first. *)
ChildCloseSettles(c) ==
  /\ closing[c] = "pending"
  /\ \/ childState[c] = "Closed" /\ closing' = [closing EXCEPT ![c] = "fulfilled"]
     \/ closing' = [closing EXCEPT ![c] = "rejected"]
  /\ UNCHANGED <<admissionVars, retained, retainedAt, retentions, evicting, childState, failures,
                 omitted, shutdownVars>>

(* The two reactions pruneChildren attached to close(). *)
EvictionFulfilled(c) ==
  /\ c \in evicting
  /\ closing[c] = "fulfilled"
  /\ retained' = retained \ {c}
  /\ evicting' = evicting \ {c}
  /\ UNCHANGED <<admissionVars, retainedAt, retentions, childState, closing, failures, omitted,
                 shutdownVars>>

(* Mutant: the list of causes grows without bound. *)
RecordEveryFailure == failures' = failures + 1 /\ omitted' = omitted

RecordFailure ==
  IF failures < MaxRetainedJobs
  THEN failures' = failures + 1 /\ omitted' = omitted
  ELSE failures' = failures /\ omitted' = TRUE

EvictionRejected(c) ==
  /\ c \in evicting
  /\ closing[c] = "rejected"
  /\ RecordFailure
  /\ retained' = IF childState[c] = "Closed" THEN retained \ {c} ELSE retained
  /\ evicting' = evicting \ {c}
  /\ UNCHANGED <<admissionVars, retainedAt, retentions, childState, closing, shutdownVars>>

-----------------------------------------------------------------------------
(* shutdownOwnedRuns(), between its awaits. *)

Shutdown ==
  /\ ~closed
  /\ closed' = TRUE /\ shutdownPhase' = "awaitRuns"
  /\ pending' = {}
  /\ admission' = [r \in Runs |-> IF r \in pending THEN "closed" ELSE admission[r]]
  /\ cancelled' = active
  /\ childState' = [c \in Children |->
                      IF c \in retained /\ childState[c] # "Closed" THEN "Closing"
                      ELSE childState[c]]
  /\ closing' = [c \in Children |->
                   IF c \in retained /\ closing[c] = "none" THEN "pending"
                   ELSE closing[c]]
  /\ UNCHANGED <<wants, signalAborted, arrival, arrivals, active, writers,
                 retained, retainedAt, retentions, evicting, failures, omitted>>

ShutdownRunsDone ==
  /\ shutdownPhase = "awaitRuns"
  /\ active = {}
  /\ shutdownPhase' = "awaitChildren"
  /\ UNCHANGED <<admissionVars, childVars, closed>>

(* Mutant: only the closings shutdown itself awaited are looked at. *)
OutcomeOfClosings == IF \E c \in retained : closing[c] = "rejected" THEN "failed" ELSE "done"

ShutdownOutcome ==
  IF failures > 0 \/ \E c \in retained : closing[c] = "rejected" THEN "failed" ELSE "done"

(* The reactions of an eviction were attached to the child's promise before *)
(* allSettled was, so they have run when the outcomes arrive.               *)
ShutdownChildrenDone ==
  /\ shutdownPhase = "awaitChildren"
  /\ evicting = {}
  /\ \A c \in retained : closing[c] \in {"fulfilled", "rejected"}
  /\ retained' = {}
  /\ shutdownPhase' = ShutdownOutcome
  /\ UNCHANGED <<admissionVars, retainedAt, retentions, evicting, childState, closing, failures,
                 omitted, closed>>

-----------------------------------------------------------------------------
RunNext(r) == \/ AcquireRejected(r) \/ AcquireQueued(r)
              \/ SignalAbort(r) \/ OnAbort(r)
              \/ Deadline(r) \/ Release(r)

ChildNext(c) == \/ RetainChild(c) \/ ChildPrompted(c) \/ ChildOperationEnds(c)
                \/ ChildFails(c) \/ ChildTornDown(c) \/ ChildCloseSettles(c)
                \/ EvictionFulfilled(c) \/ EvictionRejected(c)

ShutdownNext == Shutdown \/ ShutdownRunsDone \/ ShutdownChildrenDone

Next == \/ \E r \in Runs : RunNext(r)
        \/ \E c \in Children : ChildNext(c)
        \/ ShutdownNext

Spec == Init /\ [][Next]_vars

(* What the callers owe: a lease holder releases when its native work has   *)
(* settled, and the promises of closing settle.  Timers, aborts, prompts    *)
(* and the shutdown request itself need not happen.                         *)
Fairness ==
  /\ \A r \in Runs : WF_vars(Release(r)) /\ WF_vars(OnAbort(r))
  /\ \A c \in Children : /\ WF_vars(ChildTornDown(c)) /\ WF_vars(ChildCloseSettles(c))
                         /\ WF_vars(EvictionFulfilled(c)) /\ WF_vars(EvictionRejected(c))
  /\ WF_vars(ShutdownRunsDone) /\ WF_vars(ShutdownChildrenDone)

LiveSpec == Spec /\ Fairness

-----------------------------------------------------------------------------
TypeOK ==
  /\ wants \in [Runs -> Workspaces \cup {ReadOnly}]
  /\ signalAborted \subseteq Runs
  /\ pending \subseteq Runs /\ IsFiniteSet(pending)
  /\ arrival \in [Runs -> Nat] /\ arrivals \in Nat
  /\ active \subseteq Runs /\ IsFiniteSet(active)
  /\ writers \subseteq Workspaces
  /\ cancelled \subseteq active
  /\ admission \in [Runs -> AdmissionStates]
  /\ closed \in BOOLEAN
  /\ shutdownPhase \in {"open", "awaitRuns", "awaitChildren", "done", "failed"}
  /\ retained \subseteq Children /\ evicting \subseteq retained
  /\ retainedAt \in [Children -> Nat] /\ retentions \in Nat
  /\ childState \in [Children -> ChildStates]
  /\ closing \in [Children -> {"none", "pending", "fulfilled", "rejected"}]
  /\ failures \in 0 .. MaxRetainedJobs /\ omitted \in BOOLEAN

(* At most maxConcurrentRuns leases are out and no two of them write to one  *)
(* workspace: the set activeWorkspaceWriters, which drain() consults and     *)
(* release() edits, never drifts from the leases it stands for.              *)
LeaseExclusion ==
  /\ Cardinality(active) <= MaxConcurrentRuns
  /\ \A r, s \in active : (r # s /\ wants[r] = wants[s]) => wants[r] = ReadOnly
  /\ writers = Writes(active)

(* A promise acquire() returned is unsettled exactly while its entry is      *)
(* queued, and holds a lease exactly while the run is active; a closed       *)
(* supervisor leaves nobody in the queue.                                    *)
AdmissionsAccounted ==
  /\ \A r \in Runs : /\ admission[r] = "waiting" <=> r \in pending
                     /\ admission[r] = "leased" <=> r \in active
  /\ closed => pending = {}

(* The queue is work-conserving: no event leaves behind a waiting run that   *)
(* could have started (drain() is called wherever room appears).             *)
NoStartableWaiter == \A r \in pending : ~CanStart(r, active, writers)

(* Once shutdown has begun nobody waits, and every run still holding a lease  *)
(* was told to stop: none is queued or started afterwards, by a late caller   *)
(* or by the drain of a late release().                                       *)
ShutdownReachesEveryRun == closed => pending = {} /\ active \subseteq cancelled

(* A run starts ahead of one that was queued earlier only if the earlier one *)
(* writes to a workspace that a third run holds: writers of one workspace    *)
(* are served in order.                                                      *)
NoUnjustOvertaking ==
  [][\A r \in active' \ active, s \in pending' :
       arrival'[s] < arrival'[r] => wants[s] \in writers' /\ wants[s] # wants[r]]_vars

(* Idle children beyond maxRetainedJobs are on their way out.                 *)
IdleWithinRetention ==
  Cardinality({c \in retained \ evicting : childState[c] = "Idle"}) <= MaxRetainedJobs

(* When shutdown() settles, every lease is back and every child that was ever *)
(* retained has finished closing; it resolves only if all of them succeeded,  *)
(* the evictions that failed before it included.                              *)
ShutdownOwnsEverything ==
  shutdownPhase \in {"done", "failed"} =>
    /\ active = {} /\ retained = {}
    /\ \A c \in Children : childState[c] # "New" => closing[c] \in {"fulfilled", "rejected"}
    /\ shutdownPhase = "done" => \A c \in Children : closing[c] # "rejected"

(* Every admission is answered: no waiting run is lost or starved.            *)
EveryAdmissionSettles ==
  \A r \in Runs : (admission[r] = "waiting") ~> (admission[r] # "waiting")

(* A shutdown that has begun comes to an end.                                 *)
ShutdownSettles == closed ~> (shutdownPhase \in {"done", "failed"})

-----------------------------------------------------------------------------
(* The promise of SubagentLeases, with the queue forgotten.                   *)
LeaseOf(r) == CASE admission[r] = "unasked"  -> "unasked"
                [] admission[r] = "waiting"  -> "asked"
                [] admission[r] = "leased"   -> "held"
                [] admission[r] = "released" -> "returned"
                [] OTHER                     -> "refused"

Leases == INSTANCE SubagentLeases WITH lease <- [r \in Runs |-> LeaseOf(r)],
                                       open <- ~closed

(* SubagentRunSupervisor implements the abstract lease service.               *)
ImplementsLeases == Leases!Spec
=============================================================================
