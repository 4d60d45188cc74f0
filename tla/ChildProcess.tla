----------------------------- MODULE ChildProcess -----------------------------
(***************************************************************************)
(* src/process/platform.ts: a command run to its end, with bounded output,  *)
(* a timeout and interruption (collectProcess), or on the caller's terminal  *)
(* within a scope (runInheritedProcess).  It has a process group of its own, *)
(* which is terminated when it is not left to end by itself                  *)
(* (terminateAndWait).                                                      *)
(*                                                                          *)
(* The command may start another process in its group, which may outlive it  *)
(* and keep its pipes open.  Node reports an exit as it happens and a close  *)
(* once the pipes are closed and drained.                                    *)
(***************************************************************************)
EXTENDS Integers

CONSTANTS
  Streams,        \* stdout, stderr
  Limit,          \* the bytes kept of each
  CombinedLimit,  \* and of both together
  Chunks,         \* bytes of a chunk
  MaxWritten      \* bound: the bytes the command writes to each

VARIABLES
  mode,         \* collect or inherit
  direct,       \* the child: none, running, exited
  ignores,      \* whether it lives on after SIGTERM
  descendant,   \* another of its group: none, running, holding the pipes open
  code,         \* the exit code: none, 0, 1 or by a signal
  written, kept,  \* bytes written to each stream, and kept of it
  unread,       \* bytes of each stream still in its pipe
  closeSeen,    \* whether the close event was handled
  terminalError, \* the first failure
  termination,  \* terminateAndWait: none, waiting, killed, done
  outcome       \* what the caller was given

streamVars == <<written, kept, unread>>
groupVars == <<mode, direct, ignores, descendant, code>>
procVars == <<groupVars, streamVars, closeSeen, terminalError, termination, outcome>>

Init == /\ mode \in {"collect", "inherit"} /\ direct = "none" /\ ignores \in BOOLEAN /\ descendant = "none" /\ code = "none"
        /\ written = [s \in Streams |-> 0] /\ kept = [s \in Streams |-> 0] /\ unread = [s \in Streams |-> 0]
        /\ closeSeen = FALSE /\ terminalError = "none" /\ termination = "none" /\ outcome = "none"

(* An invalid option, or a spawn that throws, is the outcome at once; a scoped  *)
(* command is only waited for after node has spawned it.                        *)
spawnStarted ==
  /\ direct = "none" /\ outcome = "none"
  /\ \/ direct' = "running" /\ UNCHANGED outcome
     \/ outcome' = "spawn" /\ UNCHANGED direct
  /\ UNCHANGED <<mode, ignores, descendant, code, streamVars, closeSeen, terminalError, termination>>

-----------------------------------------------------------------------------
(* The group *)

WriteOutput(s, n) ==
  /\ mode = "collect" /\ (direct = "running" \/ descendant = "holding")
  /\ written[s] + n <= MaxWritten
  /\ written' = [written EXCEPT ![s] = @ + n] /\ unread' = [unread EXCEPT ![s] = @ + n]
  /\ UNCHANGED <<groupVars, kept, closeSeen, terminalError, termination, outcome>>

Fork == /\ direct = "running" /\ descendant = "none"
        /\ descendant' \in {"running", "holding"}
        /\ UNCHANGED <<mode, direct, ignores, code, streamVars, closeSeen, terminalError, termination, outcome>>

Exit == /\ direct = "running" /\ direct' = "exited" /\ code' \in {"0", "1"}
        /\ UNCHANGED <<mode, ignores, descendant, streamVars, closeSeen, terminalError, termination, outcome>>

DescendantEnds == /\ descendant \in {"running", "holding"} /\ descendant' = "ended"
                  /\ UNCHANGED <<mode, direct, ignores, code, streamVars, closeSeen, terminalError, termination, outcome>>

(* signalChildTree: SIGKILL ends the group, SIGTERM what does not ignore it; a *)
(* descendant may have a handler.                                              *)
Killed == /\ direct' = "exited" /\ code' = IF direct = "running" THEN "signal" ELSE code
          /\ descendant' = IF descendant = "none" THEN "none" ELSE "ended"
Termed == /\ direct' = IF ignores THEN direct ELSE "exited"
          /\ code' = IF direct = "running" /\ ~ignores THEN "signal" ELSE code
          /\ descendant' \in IF descendant = "none" THEN {"none"} ELSE {descendant, "ended"}

-----------------------------------------------------------------------------
(* Termination *)

(* Once: a child that has exited leaves only its descendants to be killed. *)
beginTermination ==
  IF termination # "none" \/ direct = "none" \/ closeSeen THEN UNCHANGED <<termination, direct, code, descendant>>
  ELSE IF direct = "running" THEN Termed /\ termination' = "waiting"
  ELSE Killed /\ termination' = "done"

(* The group is killed when the child has closed or the time of grace is over. *)
Escalate == /\ termination = "waiting"
            /\ Killed /\ termination' = "killed"
            /\ UNCHANGED <<mode, ignores, streamVars, closeSeen, terminalError, outcome>>

(* Mutant: a child that closes within its grace is not followed by SIGKILL. *)
TerminatedEarly == /\ termination \in {"waiting", "killed"} /\ direct = "exited" /\ closeSeen
                   /\ termination' = "done"
                   /\ UNCHANGED <<groupVars, streamVars, closeSeen, terminalError, outcome>>

Terminated == /\ termination = "killed" /\ closeSeen
              /\ termination' = "done"
              /\ UNCHANGED <<groupVars, streamVars, closeSeen, terminalError, outcome>>

(* The first failure counts; later ones change nothing. *)
failAndTerminate(kind) ==
  IF terminalError # "none" \/ outcome # "none" THEN UNCHANGED <<terminalError, termination, direct, code, descendant>>
  ELSE terminalError' = kind /\ beginTermination

-----------------------------------------------------------------------------
(* Events *)

Smaller(a, b) == IF a < b THEN a ELSE b
Kept == kept["stdout"] + kept["stderr"]

(* As much of a chunk is kept as both limits leave room for. *)
collect(s, n) ==
  LET room == Smaller(Limit[s] - kept[s], CombinedLimit - Kept)
      remaining == IF room < 0 THEN 0 ELSE room
  IN
  /\ n <= unread[s] /\ outcome = "none"
  /\ unread' = [unread EXCEPT ![s] = @ - n]
  /\ IF terminalError # "none" THEN UNCHANGED <<kept, terminalError, termination, direct, code, descendant>>
     ELSE /\ kept' = [kept EXCEPT ![s] = @ + Smaller(n, remaining)]
          /\ IF n > remaining THEN failAndTerminate("output-limit")
             ELSE UNCHANGED <<terminalError, termination, direct, code, descendant>>
  /\ UNCHANGED <<mode, ignores, written, closeSeen, outcome>>

(* The command could not be started: node says so and closes it.  A scoped one  *)
(* has not been acquired, and leaves nothing to be released.                    *)
onError == /\ direct = "running" /\ terminalError = "none" /\ outcome = "none"
           /\ written = [s \in Streams |-> 0] /\ descendant = "none"
           /\ terminalError' = "spawn" /\ direct' = "exited" /\ code' = "1" /\ termination' = "done"
           /\ outcome' = IF mode = "inherit" THEN "spawn" ELSE outcome
           /\ UNCHANGED <<mode, ignores, descendant, streamVars, closeSeen>>

onTimeout == /\ outcome = "none" /\ direct # "none" /\ terminalError = "none"
             /\ failAndTerminate("timeout")
             /\ UNCHANGED <<mode, ignores, streamVars, closeSeen, outcome>>

(* Whatever failed before, the caller is told of the interruption. *)
Interrupt == /\ outcome = "none" /\ direct # "none" /\ terminalError # "interrupted"
             /\ terminalError' = "interrupted" /\ beginTermination
             /\ UNCHANGED <<mode, ignores, streamVars, closeSeen, outcome>>

onClose ==
  /\ mode = "collect"
  /\ ~closeSeen /\ direct = "exited" /\ descendant # "holding" /\ unread = [s \in Streams |-> 0]
  /\ closeSeen' = TRUE
  /\ outcome' = IF terminalError = "none" THEN (IF code = "0" THEN "success" ELSE "exit") ELSE outcome
  /\ UNCHANGED <<groupVars, streamVars, terminalError, termination>>

(* On the terminal a close follows the exit; the code, or 128 and the signal, is *)
(* the outcome, once the scope has killed what is left of the group.             *)
waitForExit ==
  /\ mode = "inherit" /\ ~closeSeen /\ direct = "exited"
  /\ closeSeen' = TRUE
  /\ IF terminalError = "none"
     THEN Killed /\ termination' = "done" /\ outcome' = "code"
     ELSE UNCHANGED <<direct, code, descendant, termination, outcome>>
  /\ UNCHANGED <<mode, ignores, streamVars, terminalError>>

(* A failure is the outcome once the group has been terminated and the child  *)
(* has closed; an interruption does not wait for that of a child that exited.  *)
settle == /\ outcome = "none" /\ terminalError # "none" /\ termination = "done"
          /\ closeSeen \/ terminalError = "interrupted"
          /\ outcome' = terminalError
          /\ UNCHANGED <<groupVars, streamVars, closeSeen, terminalError, termination>>

Next == \/ spawnStarted \/ Fork \/ Exit \/ DescendantEnds \/ Escalate \/ Terminated
        \/ onError \/ onTimeout \/ Interrupt \/ onClose \/ waitForExit \/ settle
        \/ \E s \in Streams, n \in Chunks : WriteOutput(s, n) \/ collect(s, n)

(* What is in a pipe is read, and the group is not left waiting. *)
Fairness == /\ WF_procVars(Escalate) /\ WF_procVars(Terminated) /\ WF_procVars(onClose) /\ WF_procVars(waitForExit)
            /\ WF_procVars(settle)
            /\ WF_procVars(\E s \in Streams, n \in Chunks : collect(s, n))

Spec == Init /\ [][Next]_procVars /\ Fairness

-----------------------------------------------------------------------------
(* Output is never kept beyond its limits, and a command that succeeds has all  *)
(* of its output.  One that is given up, or ran on the terminal, has nothing of  *)
(* its group left when the caller hears of it.                                  *)
NothingLeftBehind ==
  /\ \A s \in Streams : kept[s] <= Limit[s]
  /\ Kept <= CombinedLimit
  /\ outcome \in {"success", "exit"} => kept = written
  /\ outcome \in {"timeout", "output-limit", "interrupted", "code"} =>
       direct = "exited" /\ descendant \in {"none", "ended"}

(* A failure is told the caller, however the group behaves. *)
GivenUpIsTold == []<>(terminalError = "none" \/ outcome # "none")
===============================================================================
