-------------------------- MODULE SubagentChildren --------------------------
(***************************************************************************)
(* NativeChildOwner of extensions/subagent/native-child.ts on top of the    *)
(* supervisor: what an operation of a child session does while it queues,   *)
(* starts, runs, fails and settles, how close() and teardownNative() meet   *)
(* it, and how execute.ts launches a child.                                 *)
(*                                                                          *)
(* Each action is the code between two awaits.  The native session (its     *)
(* prompts, aborts, hooks and shutdown handlers) is the environment: every  *)
(* promise of it may resolve or reject.  waitForIdle() is the exception, it *)
(* is taken to resolve.                                                     *)
(***************************************************************************)
EXTENDS SubagentControl

CONSTANTS
  Owner,           \* [Runs -> Children], whose operation a run id names
  InitialRuns,     \* the runs of runInitial(), the others are human prompts
  Inputs,          \* identifiers of steer and followUp inputs
  NoRun            \* no operation yet

ASSUME OwnerAssumption == /\ Owner \in [Runs -> Children]
                          /\ InitialRuns \subseteq Runs
                          /\ NoRun \notin Runs

VARIABLES
  op,              \* where the operation of a child stands
  run,             \* the run id of the latest operation
  native,          \* children whose session is constructed
  running,         \* children whose state is Running (childState says Busy)
  initialFailed,   \* children whose runInitial() has an error to catch
  teardown,        \* the memoised promise of teardownNative()
  pendingInputs,   \* pendingInputs
  awaited          \* the pendingInputs a settling operation waits for

opVars == <<op, run, native, running, initialFailed, teardown, pendingInputs, awaited>>
allVars == <<vars, opVars>>

OpStates == {"none",       \* no operation
             "acquire",    \* await supervisor.acquire
             "start",      \* await start()
             "operate",    \* await operation()
             "abort",      \* the catch of an initial run awaits session.abort()
             "teardown",   \* ... and teardownNative()
             "inputs",     \* the finally awaits pendingInputs
             "idle",       \* ... and waitForIdle()
             "done"}       \* settled, the reaction that clears it has not run

ChildrenInit ==
  /\ Init
  /\ \A r, s \in Runs : /\ wants[r] # ReadOnly      \* schedule asks for Write
                        /\ Owner[r] = Owner[s] => wants[r] = wants[s]
  /\ op = [c \in Children |-> "none"]
  /\ run = [c \in Children |-> NoRun]
  /\ native = {} /\ running = {} /\ initialFailed = {}
  /\ teardown = [c \in Children |-> "none"]
  /\ pendingInputs = [c \in Children |-> {}]
  /\ awaited = [c \in Children |-> {}]

(* lease.signal.aborted: the caller's signal, the child's controller or the   *)
(* supervisor's own one.                                                      *)
LeaseAborted(r) == r \in signalAborted \cup cancelled

Ask(r) == RefuseRequest(r) \/ QueueRequest(r)

-----------------------------------------------------------------------------
(* Launching a child and prompting it. *)

(* execute.ts: retainChild, then runInitial reserves the child and asks. *)
Launch(c, r) ==
  /\ ~closed
  /\ childState[c] = "New" /\ Owner[r] = c /\ r \in InitialRuns
  /\ Ask(r)
  /\ retained' = retained \cup {c}
  /\ retentions' = retentions + 1
  /\ retainedAt' = [retainedAt EXCEPT ![c] = retentions + 1]
  /\ childState' = [childState EXCEPT ![c] = "Busy"]
  /\ op' = [op EXCEPT ![c] = "acquire"]
  /\ run' = [run EXCEPT ![c] = r]
  /\ UNCHANGED <<evicting, closing, failures, omitted, shutdownVars,
                 native, running, initialFailed, teardown, pendingInputs, awaited>>

(* input() with mode Prompt: schedule() admits an idle child only. *)
Prompt(c, r) ==
  /\ childState[c] = "Idle" /\ Owner[r] = c /\ r \notin InitialRuns
  /\ Ask(r)
  /\ childState' = [childState EXCEPT ![c] = "Busy"]
  /\ op' = [op EXCEPT ![c] = "acquire"]
  /\ run' = [run EXCEPT ![c] = r]
  /\ UNCHANGED <<retained, retainedAt, retentions, evicting, closing, failures, omitted,
                 shutdownVars, native, running, initialFailed, teardown, pendingInputs, awaited>>

(* cancel(), or the abort of the initial run's own signal. *)
Cancel(c) ==
  /\ op[c] # "none"
  /\ SignalAbort(run[c])
  /\ UNCHANGED opVars

-----------------------------------------------------------------------------
(* The operation, await by await. *)

Fail(c) == initialFailed' = IF run[c] \in InitialRuns THEN initialFailed \cup {c}
                            ELSE initialFailed

(* Enter the finally block: pendingInputs is read once, here. *)
SettleOperation(c) ==
  /\ op' = [op EXCEPT ![c] = "inputs"]
  /\ awaited' = [awaited EXCEPT ![c] = pendingInputs[c]]

(* The promise of acquire() has resolved: an initial run starts its session, *)
AdmittedInitial(c) ==
  /\ op[c] = "acquire" /\ admission[run[c]] = "leased"
  /\ run[c] \in InitialRuns
  /\ op' = [op EXCEPT ![c] = "start"]
  /\ UNCHANGED <<vars, run, native, running, initialFailed, teardown, pendingInputs, awaited>>

(* a prompt runs, ...                                                         *)
AdmittedPrompt(c) ==
  /\ op[c] = "acquire" /\ admission[run[c]] = "leased"
  /\ run[c] \notin InitialRuns
  /\ ~LeaseAborted(run[c]) /\ childState[c] # "Closing"
  /\ op' = [op EXCEPT ![c] = "operate"]
  /\ running' = running \cup {c}
  /\ UNCHANGED <<vars, run, native, initialFailed, teardown, pendingInputs, awaited>>

(* Mutant: the cancelled prompt leaves before the try block. *)
AdmittedCancelledEarly(c) ==
  /\ op[c] = "acquire" /\ admission[run[c]] = "leased"
  /\ run[c] \notin InitialRuns
  /\ LeaseAborted(run[c]) \/ childState[c] = "Closing"
  /\ op' = [op EXCEPT ![c] = "done"]
  /\ UNCHANGED <<vars, run, native, running, initialFailed, teardown, pendingInputs, awaited>>

(* ... unless it was cancelled between the grant and this reaction.           *)
AdmittedCancelled(c) ==
  /\ op[c] = "acquire" /\ admission[run[c]] = "leased"
  /\ run[c] \notin InitialRuns
  /\ LeaseAborted(run[c]) \/ childState[c] = "Closing"
  /\ SettleOperation(c)
  /\ UNCHANGED <<vars, run, native, running, initialFailed, teardown, pendingInputs>>

NotAdmitted(c) ==
  /\ op[c] = "acquire"
  /\ admission[run[c]] \in {"closed", "capacity", "aborted"}
  /\ op' = [op EXCEPT ![c] = "done"]
  /\ Fail(c)
  /\ UNCHANGED <<vars, run, native, running, teardown, pendingInputs, awaited>>

(* The catch block of an initial run. *)
CatchInitial(c) ==
  /\ op' = [op EXCEPT ![c] = "abort"]
  /\ Fail(c)
  /\ childState' = [childState EXCEPT ![c] = "Closing"]
  /\ running' = running \ {c}
  /\ UNCHANGED <<admissionVars, retained, retainedAt, retentions, evicting, closing, failures,
                 omitted, shutdownVars, run, teardown, pendingInputs, awaited>>

Started(c) ==
  /\ op[c] = "start"
  /\ ~LeaseAborted(run[c]) /\ childState[c] # "Closing"
  /\ op' = [op EXCEPT ![c] = "operate"]
  /\ running' = running \cup {c}
  /\ native' = native \cup {c}
  /\ UNCHANGED <<vars, run, initialFailed, teardown, pendingInputs, awaited>>

(* start() rejects, before or after the session is there, or resolves after a *)
(* cancellation.                                                              *)
StartFailed(c) ==
  /\ op[c] = "start"
  /\ native' \in {native, native \cup {c}}
  /\ CatchInitial(c)

Operated(c) ==
  /\ op[c] = "operate"
  /\ SettleOperation(c)
  /\ UNCHANGED <<vars, run, native, running, initialFailed, teardown, pendingInputs>>

OperationFailed(c) ==
  /\ op[c] = "operate"
  /\ run[c] \in InitialRuns
  /\ CatchInitial(c)
  /\ UNCHANGED native

(* Mutant: the catch block closes the child instead of tearing it down. *)
CatchCallsClose(c) ==
  /\ op[c] = "abort"
  /\ op' = [op EXCEPT ![c] = "teardown"]
  /\ closing' = [closing EXCEPT ![c] = IF @ = "none" THEN "pending" ELSE @]
  /\ UNCHANGED <<admissionVars, retained, retainedAt, retentions, evicting, childState, failures,
                 omitted, shutdownVars, run, native, running, initialFailed, teardown,
                 pendingInputs, awaited>>

CatchAborted(c) ==
  /\ op[c] = "abort"
  /\ op' = [op EXCEPT ![c] = "teardown"]
  /\ teardown' = [teardown EXCEPT ![c] = IF @ = "none" THEN "pending" ELSE @]
  /\ UNCHANGED <<vars, run, native, running, initialFailed, pendingInputs, awaited>>

(* session.abort() rejects out of the catch block: no teardown yet. *)
CatchAbortFailed(c) ==
  /\ op[c] = "abort" /\ c \in native
  /\ SettleOperation(c)
  /\ UNCHANGED <<vars, run, native, running, initialFailed, teardown, pendingInputs>>

CatchTornDown(c) ==
  /\ op[c] = "teardown"
  /\ teardown[c] \in {"fulfilled", "rejected"}
  /\ SettleOperation(c)
  /\ UNCHANGED <<vars, run, native, running, initialFailed, teardown, pendingInputs>>

InputsSettled(c) ==
  /\ op[c] = "inputs"
  /\ awaited[c] \cap pendingInputs[c] = {}
  /\ op' = [op EXCEPT ![c] = "idle"]
  /\ awaited' = [awaited EXCEPT ![c] = {}]
  /\ UNCHANGED <<vars, run, native, running, initialFailed, teardown, pendingInputs>>

(* waitForIdle() resolved: the lease goes back. *)
IdleAndRelease(c) ==
  /\ op[c] = "idle"
  /\ Release(run[c])
  /\ op' = [op EXCEPT ![c] = "done"]
  /\ UNCHANGED <<run, native, running, initialFailed, teardown, pendingInputs, awaited>>

AfterOperation(c) ==
  IF childState[c] = "Busy" THEN [childState EXCEPT ![c] = "Idle"] ELSE childState

(* The reaction that ends every operation. *)
OperationCleared(c) ==
  /\ op[c] = "done"
  /\ op' = [op EXCEPT ![c] = "none"]
  /\ running' = running \ {c}
  /\ PruneChildren(AfterOperation(c))
  /\ UNCHANGED <<admissionVars, shutdownVars, run, native, initialFailed, teardown, pendingInputs,
                 awaited>>

-----------------------------------------------------------------------------
(* Inputs into a streaming child. *)

Input(c, i) ==
  /\ childState[c] = "Busy" /\ c \in running
  /\ op[c] \in {"operate", "inputs", "idle"}       \* session.isStreaming
  /\ \A d \in Children : i \notin pendingInputs[d]
  /\ pendingInputs' = [pendingInputs EXCEPT ![c] = @ \cup {i}]
  /\ UNCHANGED <<vars, op, run, native, running, initialFailed, teardown, awaited>>

InputSettles(c, i) ==
  /\ i \in pendingInputs[c]
  /\ pendingInputs' = [pendingInputs EXCEPT ![c] = @ \ {i}]
  /\ UNCHANGED <<vars, op, run, native, running, initialFailed, teardown, awaited>>

-----------------------------------------------------------------------------
(* Closing. *)

(* runInitial() catches: close(). *)
InitialCatch(c) ==
  /\ c \in initialFailed /\ op[c] = "none"
  /\ initialFailed' = initialFailed \ {c}
  /\ childState' = [childState EXCEPT ![c] = IF @ = "Closed" THEN @ ELSE "Closing"]
  /\ closing' = [closing EXCEPT ![c] = IF @ = "none" THEN "pending" ELSE @]
  /\ UNCHANGED <<admissionVars, retained, retainedAt, retentions, evicting, failures, omitted,
                 shutdownVars, op, run, native, running, teardown, pendingInputs, awaited>>

(* Mutant: close() does not wait for the operation it cancelled. *)
CancelRequested(c) == pendingInputs[c] = {}

(* What cancel() inside close() waits for: the operation and every input. *)
CancelSettled(c) == op[c] \in {"none", "done"} /\ pendingInputs[c] = {}

CloseTearsDown(c) ==
  /\ closing[c] = "pending" /\ CancelSettled(c)
  /\ teardown[c] = "none"
  /\ teardown' = [teardown EXCEPT ![c] = "pending"]
  /\ UNCHANGED <<vars, op, run, native, running, initialFailed, pendingInputs, awaited>>

(* The last session.abort() of cancel() rejects: close() tears nothing down. *)
CloseAbortFails(c) ==
  /\ closing[c] = "pending" /\ CancelSettled(c)
  /\ c \in native /\ teardown[c] # "pending"
  /\ closing' = [closing EXCEPT ![c] = "rejected"]
  /\ UNCHANGED <<admissionVars, retained, retainedAt, retentions, evicting, childState, failures,
                 omitted, shutdownVars, opVars>>

(* The shutdown hooks are done; the state is Closed even if one threw. *)
TornDown(c) ==
  /\ teardown[c] = "pending"
  /\ \E outcome \in {"fulfilled", "rejected"} : teardown' = [teardown EXCEPT ![c] = outcome]
  /\ childState' = [childState EXCEPT ![c] = "Closed"]
  /\ UNCHANGED <<admissionVars, retained, retainedAt, retentions, evicting, closing, failures,
                 omitted, shutdownVars, op, run, native, running, initialFailed, pendingInputs, awaited>>

CloseSettles(c) ==
  /\ closing[c] = "pending" /\ CancelSettled(c)
  /\ teardown[c] \in {"fulfilled", "rejected"}
  /\ closing' = [closing EXCEPT ![c] = teardown[c]]
  /\ UNCHANGED <<admissionVars, retained, retainedAt, retentions, evicting, childState, failures,
                 omitted, shutdownVars, opVars>>

-----------------------------------------------------------------------------
(* Reactions, and awaits of native calls that return by themselves. *)
OperationStep(c) ==
  \/ AdmittedInitial(c) \/ AdmittedPrompt(c) \/ AdmittedCancelled(c) \/ NotAdmitted(c)
  \/ Started(c) \/ StartFailed(c)
  \/ CatchAborted(c) \/ CatchAbortFailed(c) \/ CatchTornDown(c)
  \/ InputsSettled(c) \/ IdleAndRelease(c) \/ OperationCleared(c)

(* A model conversation lasts as long as it likes until it is aborted. *)
ConversationEnds(c) == Operated(c) \/ OperationFailed(c)

ClosingStep(c) ==
  \/ InitialCatch(c) \/ CloseTearsDown(c) \/ CloseAbortFails(c) \/ TornDown(c)
  \/ CloseSettles(c)

SupervisorStep ==
  /\ \/ \E r \in Runs : OnAbort(r) \/ Deadline(r)
     \/ \E c \in Children : EvictionFulfilled(c) \/ EvictionRejected(c)
     \/ ShutdownNext
  /\ UNCHANGED opVars

ChildrenNext ==
  \/ \E c \in Children, r \in Runs : Launch(c, r) \/ Prompt(c, r)
  \/ \E c \in Children : \/ Cancel(c) \/ OperationStep(c) \/ ConversationEnds(c)
                         \/ ClosingStep(c)
  \/ \E c \in Children, i \in Inputs : Input(c, i) \/ InputSettles(c, i)
  \/ SupervisorStep

ChildrenSpec == ChildrenInit /\ [][ChildrenNext]_allVars

(* Reactions run, native calls return, an aborted conversation ends.  Nobody *)
(* has to cancel, prompt, send input or close the session.                   *)
ChildrenFairness ==
  /\ \A c \in Children :
       /\ WF_allVars(OperationStep(c))
       /\ WF_allVars(ConversationEnds(c) /\ LeaseAborted(run[c]))
       /\ WF_allVars(InitialCatch(c)) /\ WF_allVars(TornDown(c))
       /\ WF_allVars(CloseTearsDown(c)) /\ WF_allVars(CloseSettles(c))
       /\ \A i \in Inputs : WF_allVars(InputSettles(c, i))
  /\ \A r \in Runs : WF_allVars(OnAbort(r) /\ UNCHANGED opVars)
  /\ \A c \in Children : WF_allVars((EvictionFulfilled(c) \/ EvictionRejected(c))
                                     /\ UNCHANGED opVars)
  /\ WF_allVars((ShutdownRunsDone \/ ShutdownChildrenDone) /\ UNCHANGED opVars)

ChildrenLiveSpec == ChildrenSpec /\ ChildrenFairness

-----------------------------------------------------------------------------
(* A lease is out exactly while the operation it was granted to may touch the *)
(* workspace: no path through schedule() loses one, and no native call runs   *)
(* without one.                                                               *)
LeaseSpansOperation ==
  /\ \A r \in active : run[Owner[r]] = r /\ op[Owner[r]] \notin {"none", "done"}
  /\ \A c \in Children : op[c] \notin {"none", "acquire", "done"} => run[c] \in active

(* A native session is never started or prompted once its teardown began.     *)
NothingAfterTeardown ==
  \A c \in Children : teardown[c] # "none" => op[c] \notin {"start", "operate"}

(* close() always ends: the operation it waits for does not wait for it.      *)
CloseEnds == \A c \in Children : (closing[c] = "pending") ~> (closing[c] # "pending")
=============================================================================
