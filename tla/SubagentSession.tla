-------------------------- MODULE SubagentSession --------------------------
(***************************************************************************)
(* SubagentSessionRuntime of extensions/subagent/session-runtime.ts: the    *)
(* queue of session starts and shutdowns, what each of them disposes and    *)
(* creates, the background jobs of jobs.ts that live in a session, and the  *)
(* process-wide registry of supervisors of control.ts.                      *)
(*                                                                          *)
(* The transition with generation g creates job manager g, telemetry        *)
(* runtime g and, when the registry has none for the session id, supervisor *)
(* g.  A supervisor is reduced to its leases here, SubagentControl has the  *)
(* rest of it.                                                              *)
(***************************************************************************)
EXTENDS Naturals, FiniteSets, Sequences

CONSTANTS
  Sessions,             \* values of sessionManager.getSessionId()
  MaxConcurrentRuns, MaxRetainedJobs,   \* SubagentRuntimeConfig
  MaxGeneration,        \* bound: starts and shutdowns of the session
  MaxJobs               \* bound: background jobs

ASSUME BoundsAssumption == /\ MaxConcurrentRuns \in Nat \ {0}
                           /\ MaxRetainedJobs \in Nat \ {0}
                           /\ MaxGeneration \in Nat /\ MaxJobs \in Nat

Jobs == 1 .. MaxJobs          \* in the order of createdAt
Generations == 1 .. MaxGeneration

VARIABLES
  sessionState,   \* sessionState
  generation,     \* lifecycleGeneration
  transitions,    \* the transitions chained on transitionTail, the running one first
  phase,          \* the await the running transition stands at
  failed,         \* what the transition awaited has failed
  manager,        \* generation of jobs and telemetryRuntime, 0 for undefined
  supervisor,     \* generation of supervisor, 0 for undefined
  registry,       \* registry().supervisors, 0 for no entry
  outcome,        \* shutdownPromise of each supervisor
  telemetry,      \* telemetry runtimes created and not disposed
  jobManager,     \* generation of the manager a job was started in, 0 before
  jobSupervisor,  \* ... and of the supervisor that retains its child, 0 for none
  status,         \* job.status
  done,           \* jobs whose done is completed and finishedAt set
  aborted,        \* jobs whose controller is aborted
  kept,           \* the jobs maps of all managers
  run             \* where the native run of the job stands

sessionVars == <<sessionState, generation, transitions, phase, failed, manager,
                 supervisor, registry, outcome, telemetry>>
jobVars == <<jobManager, jobSupervisor, status, done, aborted, kept, run>>
vars == <<sessionVars, jobVars>>

Init ==
  /\ sessionState = "Inactive" /\ generation = 0
  /\ transitions = <<>> /\ phase = "none" /\ failed = FALSE
  /\ manager = 0 /\ supervisor = 0 /\ registry = [s \in Sessions |-> 0]
  /\ outcome = [g \in Generations |-> "open"] /\ telemetry = {}
  /\ jobManager = [j \in Jobs |-> 0] /\ jobSupervisor = [j \in Jobs |-> 0]
  /\ status = [j \in Jobs |-> "none"]
  /\ done = {} /\ aborted = {} /\ kept = {}
  /\ run = [j \in Jobs |-> "none"]

-----------------------------------------------------------------------------
(* Jobs. *)

Terminal(s) == s \in {"Completed", "Failed", "Interrupted", "Cancelled", "Rejected"}

(* Mutant: the oldest jobs go, finished or not. *)
PrunedByAge(m, st) ==
  {j \in kept : jobManager[j] = m =>
     Cardinality({i \in kept : jobManager[i] = m /\ i > j}) < MaxRetainedJobs}

(* pruneTerminalJobs() of manager m, with statuses st. *)
Pruned(m, st) ==
  {j \in kept : (jobManager[j] = m /\ Terminal(st[j])) =>
     Cardinality({i \in kept : jobManager[i] = m /\ Terminal(st[i]) /\ i > j})
       < MaxRetainedJobs}

(* The native run of a new job retains its child and asks for a lease, unless *)
(* it fails before.                                                           *)
StartJob(j) ==
  /\ sessionState = "Active"
  /\ status[j] = "none" /\ \A i \in Jobs : i < j => status[i] # "none"
  /\ jobManager' = [jobManager EXCEPT ![j] = manager]
  /\ status' = [status EXCEPT ![j] = "Queued"]
  /\ kept' = kept \cup {j}
  /\ \E r \in {"released", IF outcome[supervisor] = "open" THEN "queued" ELSE "rejected"} :
       /\ run' = [run EXCEPT ![j] = r]
       /\ jobSupervisor' = IF r = "released" THEN jobSupervisor
                           ELSE [jobSupervisor EXCEPT ![j] = supervisor]
  /\ UNCHANGED <<sessionVars, done, aborted>>

(* Mutant: a queued job is not cancelled. *)
CancelRunningJobs(S) ==
  /\ status' = [j \in Jobs |-> IF j \in S /\ status[j] = "Running" THEN "Cancelling"
                                ELSE status[j]]
  /\ aborted' = aborted \cup {j \in S : status[j] = "Running"}
  /\ UNCHANGED <<jobManager, jobSupervisor, done, kept, run>>

(* cancel() of every job of S. *)
CancelJobs(S) ==
  LET st == [j \in Jobs |-> IF j \notin S THEN status[j]
                            ELSE IF status[j] = "Queued" THEN "Cancelled"
                            ELSE IF status[j] = "Running" THEN "Cancelling"
                            ELSE status[j]]
  IN  /\ status' = st
      /\ done' = done \cup {j \in S : status[j] = "Queued"}
      /\ aborted' = aborted \cup {j \in S : status[j] \in {"Queued", "Running"}}
      /\ kept' = IF \E j \in S : status[j] = "Queued" THEN Pruned(manager, st) ELSE kept
      /\ UNCHANGED <<jobManager, jobSupervisor, run>>

CurrentJobs == {j \in kept : jobManager[j] = manager}

CancelJob(j) == j \in CurrentJobs /\ CancelJobs({j}) /\ UNCHANGED sessionVars

SettleJobsBeforeTreeNavigation == CancelJobs(CurrentJobs) /\ UNCHANGED sessionVars

(* onAdmitted(), in the reaction to the lease. *)
OnAdmitted(j) ==
  /\ run[j] = "leased"
  /\ run' = [run EXCEPT ![j] = "working"]
  /\ status' = [status EXCEPT ![j] = IF @ = "Queued" THEN "Running" ELSE @]
  /\ UNCHANGED <<sessionVars, jobManager, jobSupervisor, done, aborted, kept>>

(* onSuccess and onFailure, whose first test is on the Cancelled status. *)
Result(j) ==
  IF status[j] = "Cancelled" \/ j \in aborted THEN {"Cancelled"}
  ELSE IF run[j] = "rejected" THEN {"Rejected"}
  ELSE {"Completed", "Failed", "Interrupted"}

(* The fiber of the job ends: match, then the release of acquireUseRelease,   *)
(* which finishes a job that has no finishedAt yet.                           *)
FiberEnds(j) ==
  /\ run[j] \in {"released", "rejected"}
  /\ run' = [run EXCEPT ![j] = "over"]
  /\ \E s \in Result(j) : status' = [status EXCEPT ![j] = s]
  /\ done' = done \cup {j}
  /\ kept' = IF j \in done THEN kept ELSE Pruned(jobManager[j], status')
  /\ UNCHANGED <<sessionVars, jobManager, jobSupervisor, aborted>>

-----------------------------------------------------------------------------
(* The supervisor, as far as the jobs of one session see it. *)

Leased(g) == {j \in Jobs : jobSupervisor[j] = g /\ run[j] \in {"leased", "working"}}

Grant(j) ==
  /\ run[j] = "queued"
  /\ Cardinality(Leased(jobSupervisor[j])) < MaxConcurrentRuns
  /\ run' = [run EXCEPT ![j] = "leased"]
  /\ UNCHANGED <<sessionVars, jobManager, jobSupervisor, status, done, aborted, kept>>

AbortQueued(j) ==
  /\ run[j] = "queued" /\ j \in aborted
  /\ run' = [run EXCEPT ![j] = "rejected"]
  /\ UNCHANGED <<sessionVars, jobManager, jobSupervisor, status, done, aborted, kept>>

(* The native work has settled and the lease is back. *)
Release(j) ==
  /\ run[j] = "working"
  /\ run' = [run EXCEPT ![j] = "released"]
  /\ UNCHANGED <<sessionVars, jobManager, jobSupervisor, status, done, aborted, kept>>

-----------------------------------------------------------------------------
(* Transitions: generation and state at once, the rest behind the others. *)

Enqueue(t) ==
  /\ generation < MaxGeneration
  /\ generation' = generation + 1
  /\ sessionState' = "ShuttingDown"
  /\ transitions' = Append(transitions, t)
  /\ UNCHANGED <<phase, failed, manager, supervisor, registry, outcome, telemetry, jobVars>>

StartSession(s) == Enqueue([kind |-> "start", generation |-> generation + 1, session |-> s])
ShutdownSession(s) ==
  Enqueue([kind |-> "shutdown", generation |-> generation + 1, session |-> s])

Transition == Head(transitions)

(* Mutant: nobody asks whether a newer transition was requested. *)
AlwaysLatest(t) == TRUE

Latest(t) == t.generation = generation

(* disposeActiveResources(): manager.shutdown() cancels, then waits. *)
DisposeJobs ==
  /\ phase = "none" /\ transitions # <<>>
  /\ phase' = "jobs" /\ failed' = FALSE
  /\ CancelJobs(CurrentJobs)
  /\ UNCHANGED <<sessionState, generation, transitions, manager, supervisor, registry,
                 outcome, telemetry>>

(* Then the supervisor registered for the session shuts down: its queue is   *)
(* rejected, its runs are told to stop.                                      *)
DisposeSupervisor ==
  /\ phase = "jobs"
  /\ CurrentJobs \subseteq done
  /\ phase' = "supervisor"
  /\ outcome' = [g \in Generations |->
                   IF g = supervisor /\ outcome[g] = "open" THEN "closing" ELSE outcome[g]]
  /\ run' = [j \in Jobs |-> IF jobSupervisor[j] = supervisor /\ run[j] = "queued"
                            THEN "rejected" ELSE run[j]]
  /\ UNCHANGED <<sessionState, generation, transitions, failed, manager, supervisor,
                 registry, telemetry, jobManager, jobSupervisor, status, done, aborted, kept>>

(* shutdown() of the supervisor settles, once: a child may fail to close. *)
SupervisorCloses(g) ==
  /\ outcome[g] = "closing" /\ Leased(g) = {}
  /\ \E o \in {"fulfilled"} \cup {"rejected" : j \in {i \in Jobs : jobSupervisor[i] = g}} :
       outcome' = [outcome EXCEPT ![g] = o]
  /\ UNCHANGED <<sessionState, generation, transitions, phase, failed, manager, supervisor,
                 registry, telemetry, jobVars>>

SupervisorSettled == supervisor # 0 => outcome[supervisor] \in {"fulfilled", "rejected"}
SupervisorRejected == supervisor # 0 /\ outcome[supervisor] = "rejected"

(* disposeSubagentRunSupervisor() deletes the entry only if shutdown()        *)
(* fulfilled; the fields are cleared in any case, telemetry is disposed last,  *)
(* and that may fail too.                                                     *)
DisposeTelemetry ==
  /\ phase = "supervisor" /\ SupervisorSettled
  /\ phase' = "disposed"
  /\ failed' \in {SupervisorRejected, TRUE}
  /\ registry' = [s \in Sessions |->
                    IF registry[s] = supervisor /\ ~SupervisorRejected THEN 0 ELSE registry[s]]
  /\ manager' = 0 /\ supervisor' = 0
  /\ telemetry' = telemetry \ {manager}
  /\ UNCHANGED <<sessionState, generation, transitions, outcome, jobVars>>

EndTransition == phase' = "none" /\ transitions' = Tail(transitions)

(* shutdownSession(): its finally runs also after a failed disposal. *)
ShutdownEnds ==
  /\ phase = "disposed" /\ Transition.kind = "shutdown"
  /\ EndTransition
  /\ sessionState' = IF Latest(Transition) THEN "Inactive" ELSE sessionState
  /\ UNCHANGED <<generation, failed, manager, supervisor, registry, outcome, telemetry, jobVars>>

(* startSession() is over if the disposal failed, a newer one was asked for, or *)
(* there is no telemetry to be had: nothing is assumed of its factory.          *)
StartAbandoned ==
  /\ phase = "disposed" /\ Transition.kind = "start"
  /\ EndTransition
  /\ failed' = (failed \/ Latest(Transition))
  /\ UNCHANGED <<sessionState, generation, manager, supervisor, registry, outcome, telemetry,
                 jobVars>>

(* else it awaits a telemetry runtime ...                                      *)
CreateTelemetry ==
  /\ phase = "disposed" /\ Transition.kind = "start"
  /\ ~failed /\ Latest(Transition)
  /\ phase' = "created"
  /\ telemetry' = telemetry \cup {Transition.generation}
  /\ UNCHANGED <<sessionState, generation, transitions, failed, manager, supervisor, registry,
                 outcome, jobVars>>

(* ... and checks again.                                                       *)
StartStale ==
  /\ phase = "created" /\ ~Latest(Transition)
  /\ EndTransition
  /\ telemetry' = telemetry \ {Transition.generation}
  /\ UNCHANGED <<sessionState, generation, failed, manager, supervisor, registry, outcome,
                 jobVars>>

SessionActive ==
  /\ phase = "created" /\ Latest(Transition)
  /\ EndTransition
  /\ LET s == Transition.session
         g == Transition.generation
     IN  /\ registry' = [registry EXCEPT ![s] = IF @ = 0 THEN g ELSE @]
         /\ manager' = g /\ supervisor' = registry'[s]
  /\ sessionState' = "Active"
  /\ UNCHANGED <<generation, failed, outcome, telemetry, jobVars>>

-----------------------------------------------------------------------------
TransitionStep ==
  \/ DisposeJobs \/ DisposeSupervisor \/ DisposeTelemetry
  \/ ShutdownEnds \/ StartAbandoned \/ CreateTelemetry \/ StartStale \/ SessionActive

RunStep(j) == OnAdmitted(j) \/ FiberEnds(j) \/ Grant(j) \/ AbortQueued(j)

Next ==
  \/ \E s \in Sessions : StartSession(s) \/ ShutdownSession(s)
  \/ TransitionStep
  \/ \E g \in Generations : SupervisorCloses(g)
  \/ SettleJobsBeforeTreeNavigation
  \/ \E j \in Jobs : StartJob(j) \/ CancelJob(j) \/ RunStep(j) \/ Release(j)

Spec == Init /\ [][Next]_vars

(* Promise reactions run; native work that was told to stop settles.          *)
Stopped(j) == j \in aborted \/ outcome[jobSupervisor[j]] # "open"

Fairness ==
  /\ WF_vars(TransitionStep)
  /\ \A g \in Generations : WF_vars(SupervisorCloses(g))
  /\ \A j \in Jobs : WF_vars(RunStep(j)) /\ WF_vars(Release(j) /\ Stopped(j))

LiveSpec == Spec /\ Fairness

-----------------------------------------------------------------------------
(* A job that is not finished stays in the map of its manager, where cancel() *)
(* and shutdown() can reach it; finished ones are bounded.                     *)
UnfinishedJobsReachable ==
  /\ \A j \in Jobs : jobManager[j] # 0 /\ j \notin done => j \in kept
  /\ Cardinality({j \in CurrentJobs : Terminal(status[j])}) <= MaxRetainedJobs

(* Telemetry of a session is disposed only after the last of its leases came  *)
(* back, and no runtime outlives the session it was created for.              *)
TelemetryOutlivesWork ==
  /\ \A j \in Jobs : run[j] \in {"leased", "working"} => jobManager[j] \in telemetry
  /\ transitions = <<>> => telemetry \subseteq {manager} \ {0}

(* The session is active only as the latest request left it: a start that was *)
(* overtaken by a shutdown never reactivates it.  The latest is never lost     *)
(* either: only a failure leaves the session shutting down.                   *)
ActiveIsLatest ==
  /\ sessionState = "Active" => transitions = <<>> /\ manager = generation
  /\ transitions = <<>> /\ sessionState = "ShuttingDown" => failed

(* However starts and shutdowns overtake each other, the session belongs to    *)
(* the latest, and nothing of an earlier one is taken from under its work.     *)
TransitionsKeepOrder == ActiveIsLatest /\ TelemetryOutlivesWork

(* Every start and shutdown comes to an end, however many are queued.         *)
TransitionsEnd == transitions # <<>> ~> transitions = <<>>

(* An active session has a supervisor that admits: the closed one answers     *)
(* "Parent subagent session is not active." (control.ts:230-233).             *)
ActiveSessionAdmits == sessionState = "Active" => outcome[supervisor] = "open"
=============================================================================
