------------------------------ MODULE AnalyzeRun ------------------------------
(***************************************************************************)
(* src/analyze/supervisor.ts with protocol.ts and the worker of              *)
(* extensions/analyze/worker-main.ts: one analysis in a process of its own,  *)
(* whose lines are checked against a protocol, with a deadline, a cancel     *)
(* and limits, and a record of the run in the journal.                       *)
(*                                                                          *)
(* The worker writes while the supervisor stops it; lines that arrived are   *)
(* handled one after the other, each with an await, and go on being handled  *)
(* when the run has already failed.                                         *)
(***************************************************************************)
EXTENDS Integers, FiniteSets, SequencesExt

CONSTANTS MaxDiagnostics,  \* bound: diagnostics the worker emits
          MaxLines         \* the lines that fit the limits of stdout

VARIABLES
  worker,     \* none, running, exited, closed
  program,    \* where the worker is
  pipe,       \* lines on their way
  arrived,    \* lines that arrived
  queue,      \* of these, still to be handled
  handling,   \* the line that is being handled, after the check
  phase,      \* the protocol's
  stopping,   \* the failure the run is stopped for
  main,       \* where the supervisor is
  recorded,   \* events of the run in the journal
  told,       \* lines the caller was told of
  cancelled,  \* the caller's signal
  verdict     \* what the caller is given

workerVars == <<worker, program>>
runVars == <<workerVars, pipe, arrived, queue, handling, phase, stopping, main, recorded, told, cancelled, verdict>>

Idle == "idle"

Init == /\ worker = "none" /\ program = "start" /\ pipe = <<>> /\ arrived = 0 /\ queue = <<>> /\ handling = Idle
        /\ phase = "initial" /\ stopping = "none" /\ main = "begin"
        /\ recorded = <<>> /\ told = <<>> /\ cancelled = FALSE /\ verdict = "none"

Record(e) == recorded' = Append(recorded, e)

-----------------------------------------------------------------------------
(* The worker *)

(* The request is read and confirmed; then come diagnostics and, once the       *)
(* engine is done, the bounded result and the completion, in one turn.          *)
Emits(line, p) == /\ pipe' = Append(pipe, line) /\ program' = p
                  /\ UNCHANGED <<worker, arrived, queue, handling, phase, stopping, main, recorded, told, cancelled, verdict>>

WorkerStarts == worker = "running" /\ program = "start" /\ main = "waitForClose" /\ Emits("started", "working")
WorkerReports == worker = "running" /\ program = "working" /\ Len(SelectSeq(pipe \o queue \o told, LAMBDA l : l = "diagnostic")) < MaxDiagnostics
                 /\ Emits("diagnostic", "working")
WorkerResults == worker = "running" /\ program = "working" /\ Emits("result", "result")
WorkerCompletes == worker = "running" /\ program = "result" /\ Emits("complete", "end")

(* Something else in the worker's process prints, an event of another run even. *)
WorkerNoise == worker = "running" /\ program = "working"
               /\ {"noise", "foreign"} \intersect ToSet(pipe \o queue) = {}
               /\ \E line \in {"noise", "foreign"} : Emits(line, "working")

(* It ends by itself, for what it did, a failure or the memory it was given. *)
WorkerExits ==
  /\ worker = "running" /\ main = "waitForClose" /\ worker' = "exited"
  /\ UNCHANGED <<program, pipe, arrived, queue, handling, phase, stopping, main, recorded, told, cancelled, verdict>>

(* The close event comes after all output. *)
WorkerCloses ==
  /\ worker = "exited" /\ pipe = <<>> /\ worker' = "closed"
  /\ UNCHANGED <<program, pipe, arrived, queue, handling, phase, stopping, main, recorded, told, cancelled, verdict>>

-----------------------------------------------------------------------------
(* The protocol *)

(* A line is an object of this version and a known type, with a run; a          *)
(* diagnostic is one the worker may send and never a terminal one.              *)
parseObjectLine(line) == line # "noise"
Events == {"started", "diagnostic", "result", "complete"}
parseAnalyzeWorkerEvent(line) == IF parseObjectLine(line) /\ line \in Events THEN line ELSE "refused"

(* The phase after a line, if it is one of this run that may come now. *)
acceptProtocolLine(p, line) ==
  LET event == parseAnalyzeWorkerEvent(line) IN
  CASE p = "initial" /\ event = "started" -> "started"
    [] p = "started" /\ event = "diagnostic" -> "started"
    [] p = "started" /\ event = "result" -> "result"
    [] p = "result" /\ event = "complete" -> "complete"
    [] OTHER -> "refused"

-----------------------------------------------------------------------------
(* Stopping *)

(* Once: the first reason is the failure of the run.  Closing the scope          *)
(* terminates the worker and waits for it (see ChildProcess).                    *)
stop(kind) == stopping' = IF stopping = "none" THEN kind ELSE stopping

Terminate ==
  /\ worker = "running" /\ stopping # "none" /\ worker' = "exited"
  /\ UNCHANGED <<program, pipe, arrived, queue, handling, phase, stopping, main, recorded, told, cancelled, verdict>>

Stopped == stopping # "none" => worker \in {"exited", "closed"}

(* The deadline runs, and the signal is listened to, from the spawn to the close. *)
Listening == main = "waitForClose"

(* Mutant: the deadline is cleared once the worker has begun. *)
TimeoutUntilStarted ==
  /\ Listening /\ phase = "initial" /\ stopping = "none" /\ stop("timeout")
  /\ UNCHANGED <<workerVars, pipe, arrived, queue, handling, phase, main, recorded, told, cancelled, verdict>>

Timeout ==
  /\ Listening /\ stopping = "none" /\ stop("timeout")
  /\ UNCHANGED <<workerVars, pipe, arrived, queue, handling, phase, main, recorded, told, cancelled, verdict>>

Cancel ==
  /\ ~cancelled /\ verdict = "none" /\ cancelled' = TRUE
  /\ IF Listening THEN stop("cancelled") ELSE UNCHANGED stopping
  /\ UNCHANGED <<workerVars, pipe, arrived, queue, handling, phase, main, recorded, told, verdict>>

(* Too much on stderr, or an error event of the process. *)
WorkerFails ==
  /\ Listening /\ worker = "running" /\ stopping = "none"
  /\ stop("protocol") \/ stop("process")
  /\ UNCHANGED <<workerVars, pipe, arrived, queue, handling, phase, main, recorded, told, cancelled, verdict>>

-----------------------------------------------------------------------------
(* Lines *)

(* A line arrives; one beyond the limit of stdout is dropped and stops the run. *)
Arrives ==
  /\ pipe # <<>> /\ worker # "closed"
  /\ pipe' = Tail(pipe) /\ arrived' = arrived + 1
  /\ IF arrived = MaxLines THEN stop("protocol") /\ UNCHANGED queue
     ELSE queue' = Append(queue, Head(pipe)) /\ UNCHANGED stopping
  /\ UNCHANGED <<workerVars, handling, phase, main, recorded, told, cancelled, verdict>>

(* A diagnostic is recorded before the caller is told; a line that is refused    *)
(* stops the run and the next waits until it has stopped.                        *)
Accept ==
  /\ handling = Idle /\ queue # <<>>
  /\ queue' = Tail(queue)
  /\ LET line == Head(queue) IN
       IF acceptProtocolLine(phase, line) = "refused"
       THEN handling' = "refused" /\ stop("protocol") /\ UNCHANGED <<phase, recorded>>
       ELSE /\ phase' = acceptProtocolLine(phase, line) /\ handling' = line
            /\ (IF line = "diagnostic" THEN Record("diagnostic") ELSE UNCHANGED recorded)
            /\ UNCHANGED stopping
  /\ UNCHANGED <<workerVars, pipe, arrived, main, told, cancelled, verdict>>

Handled ==
  /\ handling # Idle
  /\ \/ /\ handling = "refused" /\ Stopped
        /\ handling' = Idle /\ UNCHANGED <<told, stopping>>
     \/ /\ handling # "refused"
        /\ told' = Append(told, handling)
        /\ \/ handling' = Idle /\ UNCHANGED stopping
           \/ handling' = "refused" /\ stop("protocol")  \* the caller's function throws
  /\ UNCHANGED <<workerVars, pipe, arrived, queue, phase, main, recorded, cancelled, verdict>>

-----------------------------------------------------------------------------
(* The supervisor *)

RunStarted ==
  /\ main = "begin" /\ main' = "rejectIfCancelled" /\ Record("started")
  /\ UNCHANGED <<workerVars, pipe, arrived, queue, handling, phase, stopping, told, cancelled, verdict>>

finish(type, v) == Record(type) /\ verdict' = v /\ main' = "done"

(* A request cancelled before there is a worker ends here. *)
rejectIfCancelled ==
  /\ main = "rejectIfCancelled"
  /\ IF cancelled THEN finish("terminated", "cancelled") ELSE main' = "spawn" /\ UNCHANGED <<recorded, verdict>>
  /\ UNCHANGED <<workerVars, pipe, arrived, queue, handling, phase, stopping, told, cancelled>>

(* A cancel that came while the worker was spawned is seen at once.  A request   *)
(* that is too long is never sent.                                               *)
Spawn ==
  /\ main = "spawn"
  /\ \/ finish("terminated", "process") /\ UNCHANGED <<worker, stopping>>
     \/ /\ worker' = "running" /\ main' = "waitForClose"
        /\ \E tooLong \in BOOLEAN :
             stop(IF cancelled THEN "cancelled" ELSE IF tooLong THEN "configuration" ELSE "none")
        /\ UNCHANGED <<recorded, verdict>>
  /\ UNCHANGED <<program, pipe, arrived, queue, handling, phase, told, cancelled>>

waitForClose ==
  /\ main = "waitForClose" /\ worker = "closed" /\ main' = "protocolQueue"
  /\ UNCHANGED <<workerVars, pipe, arrived, queue, handling, phase, stopping, recorded, told, cancelled, verdict>>

(* Mutant: the state is taken as it is when the worker has closed. *)
settleAtClose ==
  /\ main = "protocolQueue"
  /\ \E trailing \in BOOLEAN :
       IF stopping # "none" THEN finish("terminated", stopping)
       ELSE IF phase # "complete" \/ trailing THEN finish("terminated", "process")
       ELSE finish("completed", "result")
  /\ UNCHANGED <<workerVars, pipe, arrived, queue, handling, phase, stopping, told, cancelled>>

(* Every line that arrived has been handled; a line without an end spoils it. *)
settle ==
  /\ main = "protocolQueue" /\ queue = <<>> /\ handling = Idle
  /\ \E trailing \in BOOLEAN :
       IF stopping # "none" THEN finish("terminated", stopping)
       ELSE IF phase # "complete" \/ trailing THEN finish("terminated", "process")
       ELSE finish("completed", "result")
  /\ UNCHANGED <<workerVars, pipe, arrived, queue, handling, phase, stopping, told, cancelled>>

Worker == WorkerStarts \/ WorkerReports \/ WorkerResults \/ WorkerCompletes \/ WorkerNoise \/ WorkerExits
Lines == Arrives \/ Accept \/ Handled
Supervisor == rejectIfCancelled \/ Spawn \/ waitForClose \/ settle

Next == Worker \/ WorkerCloses \/ Terminate \/ Timeout \/ Cancel \/ WorkerFails \/ Lines \/ RunStarted \/ Supervisor

(* The deadline comes, so that the worker needs no fairness of its own. *)
Fairness == WF_runVars(Lines) /\ WF_runVars(Supervisor) /\ WF_runVars(WorkerCloses) /\ WF_runVars(Terminate) /\ WF_runVars(Timeout)

Spec == Init /\ [][Next]_runVars /\ Fairness

-----------------------------------------------------------------------------
(* A run is recorded from its start to its end, which is the last entry and the *)
(* only end.  When the caller is answered the worker is gone and no line is left *)
(* to be handled; a result is one of which every line was accepted in order.     *)
RunIsWhole ==
  verdict # "none" =>
    /\ Head(recorded) = "started" /\ Last(recorded) \in {"terminated", "completed"}
    /\ Cardinality({i \in DOMAIN recorded : recorded[i] \in {"terminated", "completed"}}) = 1
    /\ worker \in {"none", "closed"} /\ queue = <<>> /\ handling = Idle
    /\ verdict = "result" <=> Last(recorded) = "completed"
    /\ verdict = "result" =>
         /\ stopping = "none" /\ "refused" \notin ToSet(told)
         /\ Head(told) = "started" /\ SubSeq(told, Len(told) - 1, Len(told)) = <<"result", "complete">>

(* Every run that was begun ends with a verdict. *)
RunEnds == []<>(main = "begin" \/ verdict # "none")
===============================================================================
