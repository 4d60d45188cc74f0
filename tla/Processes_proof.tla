---------------------------- MODULE Processes_proof ----------------------------
(***************************************************************************)
(* What runs in processes, proved for every value of the constants: the      *)
(* heavyweight lock excludes until a holder has released it and exited, a     *)
(* command leaves none of its processes behind, an analysis is told of in      *)
(* order and once, its report says what it leaves out, what one side of the   *)
(* pipe sends the other side takes, and the journal of analyses stays within   *)
(* its limits.                                                               *)
(*                                                                          *)
(* The lock's invariant follows the one directory there is.  At most one     *)
(* process stands between mkdir and the end of its release, and the directory *)
(* is its own.  A recoverer about to take it away has the guard, and what it  *)
(* saw dead was killed while the directory was still there: with nobody to   *)
(* remove it, it stayed, and nobody could make another one.                  *)
(***************************************************************************)
EXTENDS MC_Processes, Integers, FiniteSetTheorems, FunctionTheorems, SequenceTheorems,
         WellFoundedInduction, TLAPS

(* From mkdir to the end of release(). *)
Critical(p) == pc[p] \in {"publish", "held", "release", "unlink", "rmdir"}

Recovering(p) == pc[p] \in {"reread", "recheck", "steal", "unguard", "recovered"}

OneCritical == \A p, q \in Procs : Critical(p) /\ Critical(q) => p = q

LockOfCritical ==
  \A p \in Procs : /\ pc[p] \in {"publish", "rmdir"} => lock = Ownerless
                   /\ pc[p] \in {"held", "release", "unlink"} => lock = p

OwnerPublished ==
  lock \in Procs => pc[lock] \in {"held", "release", "unlink", "crashed"}

GuardHeld == \A p \in Procs : Recovering(p) => guard = p

(* A lock directory that nobody will remove or replace. *)
Abandoned == lock # Absent /\ \A q \in Procs : ~Critical(q)

StealsAbandoned ==
  \A p \in Procs :
    /\ pc[p] = "steal" => Abandoned
    /\ pc[p] = "recheck" /\ seen[p] \in Procs =>
         \/ pc[seen[p]] \in {"held", "release", "unlink", "rmdir"}
         \/ pc[seen[p]] = "crashed" /\ Abandoned

HoldersOutliveChildren ==
  \A p \in Procs : pc[p] \in {"release", "unlink", "rmdir"} =>
                     \A q \in Procs : Parent[q] = p => ~Alive(q)

InheritedCovered ==
  \A p \in Procs : pc[p] = "inherited" =>
                     Parent[p] \in Procs /\ pc[Parent[p]] \in {"held", "crashed"}

Exclusion == /\ OneCritical /\ LockOfCritical /\ OwnerPublished /\ GuardHeld
             /\ StealsAbandoned /\ HoldersOutliveChildren /\ InheritedCovered

Inv == TypeOK /\ (NobodyExited => Exclusion)

-----------------------------------------------------------------------------
LEMMA InitInv == Init => Inv
  BY ProcsAssumption
  DEF Init, Inv, TypeOK, PcStates, NobodyExited, Exclusion, OneCritical, LockOfCritical,
      OwnerPublished, GuardHeld, StealsAbandoned, HoldersOutliveChildren, InheritedCovered,
      Critical, Recovering, Abandoned, Alive

(* Who has exited does not come back. *)
LEMMA ExitIsFinal ==
  ASSUME TypeOK, [Next]_vars, NobodyExited'
  PROVE  NobodyExited
  BY DEF NobodyExited, TypeOK, PcStates, Next, vars, Goto, Alive, ReadOwner,
         Start, GiveUp, Crash, Acquire, Finish,
         MakeLock, LockExists, Publish, PublishFails, Read, Check, Retry,
         MakeGuard, GuardExists, Reread, Recheck, Steal, Unguard,
         OperationEnds, InheritedEnds, ReadForRelease, UnlinkOwner, RemoveLock

LEMMA TypeStep ==
  ASSUME TypeOK, [Next]_vars
  PROVE  TypeOK'
  BY DEF TypeOK, PcStates, Next, vars, Goto, Alive, ReadOwner,
         Start, GiveUp, Crash, Acquire, Finish,
         MakeLock, LockExists, Publish, PublishFails, Read, Check, Retry,
         MakeGuard, GuardExists, Reread, Recheck, Steal, Unguard,
         OperationEnds, InheritedEnds, ReadForRelease, UnlinkOwner, RemoveLock

(* Making, publishing and giving up the directory. *)
LEMMA CreateStep ==
  ASSUME NEW p \in Procs, TypeOK, Exclusion,
         MakeLock(p) \/ LockExists(p) \/ Publish(p) \/ PublishFails(p)
  PROVE  Exclusion'
<1> USE ProcsAssumption DEF TypeOK, Exclusion, Goto, Critical, Recovering, Abandoned, Alive
<1>1. OneCritical'
  BY DEF OneCritical, LockOfCritical, MakeLock, LockExists, Publish, PublishFails
<1>2. LockOfCritical'
  BY DEF OneCritical, LockOfCritical, MakeLock, LockExists, Publish, PublishFails
<1>3. OwnerPublished'
  BY DEF OwnerPublished, MakeLock, LockExists, Publish, PublishFails
<1>4. GuardHeld'
  BY DEF GuardHeld, MakeLock, LockExists, Publish, PublishFails
<1>5. StealsAbandoned'
  BY DEF StealsAbandoned, MakeLock, LockExists, Publish, PublishFails
<1>6. HoldersOutliveChildren'
  BY DEF HoldersOutliveChildren, MakeLock, LockExists, Publish, PublishFails
<1>7. InheritedCovered'
  BY DEF InheritedCovered, MakeLock, LockExists, Publish, PublishFails
<1> QED BY <1>1, <1>2, <1>3, <1>4, <1>5, <1>6, <1>7

(* Looking at the owner, waiting, starting and leaving without the lock. *)
LEMMA ObserveStep ==
  ASSUME NEW p \in Procs, TypeOK, Exclusion,
         Start(p) \/ Read(p) \/ Check(p) \/ Retry(p) \/ GiveUp(p) \/ InheritedEnds(p)
  PROVE  Exclusion'
<1> USE ProcsAssumption
    DEF TypeOK, Exclusion, Goto, Critical, Recovering, Abandoned, Alive, ReadOwner, SeenDead,
        Start, Read, Check, Retry, GiveUp, InheritedEnds
<1>1. OneCritical'
  BY DEF OneCritical
<1>2. LockOfCritical'
  BY DEF LockOfCritical
<1>3. OwnerPublished'
  BY DEF OwnerPublished
<1>4. GuardHeld'
  BY DEF GuardHeld
<1>5. StealsAbandoned'
  BY DEF StealsAbandoned
<1>6. HoldersOutliveChildren'
  BY DEF HoldersOutliveChildren
<1>7. InheritedCovered'
  BY DEF InheritedCovered, HoldersOutliveChildren, OwnerPublished
<1> QED BY <1>1, <1>2, <1>3, <1>4, <1>5, <1>6, <1>7

(* Recovering a stale lease. *)
LEMMA RecoverStep ==
  ASSUME NEW p \in Procs, TypeOK, NobodyExited, Exclusion,
         \/ MakeGuard(p) \/ GuardExists(p) \/ Reread(p) \/ Recheck(p) \/ Steal(p)
         \/ Unguard(p)
  PROVE  Exclusion'
<1> USE ProcsAssumption
    DEF TypeOK, Exclusion, Goto, Critical, Recovering, Abandoned, Alive, ReadOwner, SeenDead,
        MakeGuard, GuardExists, Reread, Recheck, Steal, Unguard
<1>1. OneCritical'
  BY DEF OneCritical
<1>2. LockOfCritical'
  BY DEF LockOfCritical, StealsAbandoned
<1>3. OwnerPublished'
  BY DEF OwnerPublished
<1>4. GuardHeld'
  BY DEF GuardHeld
<1>5. StealsAbandoned'
  BY DEF StealsAbandoned, GuardHeld, OwnerPublished, LockOfCritical, NobodyExited
<1>6. HoldersOutliveChildren'
  BY DEF HoldersOutliveChildren
<1>7. InheritedCovered'
  BY DEF InheritedCovered
<1> QED BY <1>1, <1>2, <1>3, <1>4, <1>5, <1>6, <1>7

(* Releasing, as long as nobody exits, and being killed. *)
LEMMA ReleaseStep ==
  ASSUME NEW p \in Procs, TypeOK, Exclusion, NobodyExited',
         \/ OperationEnds(p) \/ ReadForRelease(p) \/ UnlinkOwner(p) \/ RemoveLock(p)
         \/ Crash(p)
  PROVE  Exclusion'
<1> USE ProcsAssumption
    DEF TypeOK, Exclusion, Goto, Critical, Recovering, Abandoned, Alive, ReadOwner, Children,
        OperationEnds, ReadForRelease, UnlinkOwner, RemoveLock, Crash
<1>1. OneCritical'
  BY DEF OneCritical
<1>2. LockOfCritical'
  BY DEF LockOfCritical, OneCritical, NobodyExited
<1>3. OwnerPublished'
  BY DEF OwnerPublished, NobodyExited
<1>4. GuardHeld'
  BY DEF GuardHeld
<1>5. StealsAbandoned'
  BY DEF StealsAbandoned, OneCritical, LockOfCritical, NobodyExited
<1>6. HoldersOutliveChildren'
  BY DEF HoldersOutliveChildren
<1>7. InheritedCovered'
  BY DEF InheritedCovered
<1> QED BY <1>1, <1>2, <1>3, <1>4, <1>5, <1>6, <1>7

LEMMA StepInv == Inv /\ [Next]_vars => Inv'
<1> SUFFICES ASSUME Inv, [Next]_vars, NobodyExited'
             PROVE  Exclusion'
  BY TypeStep DEF Inv
<1>1. TypeOK /\ NobodyExited /\ Exclusion
  BY ExitIsFinal DEF Inv
<1>2. CASE UNCHANGED vars
  BY <1>1, <1>2
  DEF vars, Exclusion, OneCritical, LockOfCritical, OwnerPublished, GuardHeld,
      StealsAbandoned, HoldersOutliveChildren, InheritedCovered, Critical, Recovering,
      Abandoned, Alive
<1>3. CASE Next
  <2>1. PICK p \in Procs : Start(p) \/ Acquire(p) \/ GiveUp(p) \/ Finish(p) \/ Crash(p)
    BY <1>3 DEF Next
  <2> QED
    BY <1>1, <2>1, CreateStep, ObserveStep, RecoverStep, ReleaseStep DEF Acquire, Finish
<1> QED BY <1>2, <1>3

-----------------------------------------------------------------------------
(* Inv is an invariant of the lock. *)
THEOREM InductiveInvariant == Spec => []Inv
  BY InitInv, StepInv, PTL DEF Spec

(* No two processes hold the lock at once, and an inherited lease is covered  *)
(* by its holder, until a holder has released it and exited                   *)
(* (scripts/heavyweight-lock.mjs, the two readOwner/isPidAlive pairs).        *)
THEOREM ExclusiveUntilExit == Spec => []ExclusionUntilExit
<1>1. Inv => ExclusionUntilExit
  BY DEF Inv, Exclusion, ExclusionUntilExit, OneCritical, InheritedCovered, Critical
<1> QED BY <1>1, InductiveInvariant, PTL

-----------------------------------------------------------------------------
(* ChildProcess: until something failed every byte is kept or still in its pipe;    *)
(* when the termination is over the whole group is.                                *)
Kinds == {"spawn", "timeout", "output-limit", "interrupted"}

ProcessTypeOK ==
  /\ mode \in {"collect", "inherit"} /\ direct \in {"none", "running", "exited"}
  /\ descendant \in {"none", "running", "holding", "ended"}
  /\ written \in [Streams -> Int] /\ kept \in [Streams -> Int] /\ unread \in [Streams -> Int]
  /\ terminalError \in {"none"} \cup Kinds /\ termination \in {"none", "waiting", "killed", "done"}
  /\ outcome \in {"none", "success", "exit", "code"} \cup Kinds

(* Nothing of the group runs. *)
GroupGone == direct = "exited" /\ descendant \in {"none", "ended"}

WithinLimits == (\A s \in Streams : kept[s] <= Limit[s]) /\ Process!Kept <= CombinedLimit

NothingDropped == terminalError = "none" => \A s \in Streams : written[s] = kept[s] + unread[s]

Told ==
  /\ outcome \in {"success", "exit"} => direct = "exited" /\ descendant # "holding" /\ kept = written
  /\ outcome \in {"timeout", "output-limit", "interrupted", "code"} => termination = "done"

ProcessInv == /\ ProcessTypeOK /\ WithinLimits /\ NothingDropped /\ Told
              /\ termination \in {"killed", "done"} => GroupGone

LEMMA ProcessInit == Process!Init => ProcessInv
  BY ProcessAssumption DEF Process!Init, ProcessInv, ProcessTypeOK, WithinLimits, NothingDropped, Told, Kinds, Process!Kept

(* What a failure does to the group. *)
LEMMA Fails ==
  ASSUME ProcessInv, outcome = "none", direct # "none", NEW kind_ \in Kinds,
         Process!failAndTerminate(kind_) \/ (terminalError' = kind_ /\ Process!beginTermination),
         UNCHANGED <<mode, ignores, closeSeen, outcome>>
  PROVE  /\ direct' \in {"running", "exited"} /\ descendant' \in {"none", "running", "holding", "ended"}
         /\ termination' \in {"none", "waiting", "killed", "done"}
         /\ terminalError' \in Kinds
         /\ termination' \in {"killed", "done"} => GroupGone'
  BY DEF ProcessInv, ProcessTypeOK, GroupGone, Process!failAndTerminate, Process!beginTermination, Process!Killed,
         Process!Termed, Kinds

LEMMA CollectStep ==
  ASSUME ProcessInv, NEW s \in Streams, NEW n \in Chunks, Process!collect(s, n)
  PROVE  ProcessInv'
<1> DEFINE room == Process!Smaller(Limit[s] - kept[s], CombinedLimit - Process!Kept)
           remaining == IF room < 0 THEN 0 ELSE room
<1> USE ProcessAssumption
<1>1. /\ n \in Nat /\ n <= unread[s] /\ outcome = "none" /\ unread' = [unread EXCEPT ![s] = @ - n]
      /\ UNCHANGED <<mode, ignores, written, closeSeen, outcome>>
  BY DEF Process!collect
<1>2. ProcessTypeOK /\ WithinLimits
  BY DEF ProcessInv
<1>3. unread' \in [Streams -> Int]
  BY <1>1, <1>2 DEF ProcessTypeOK
<1>4. CASE terminalError # "none"
  <2>1. UNCHANGED <<kept, terminalError, termination, direct, code, descendant>>
    BY <1>4 DEF Process!collect
  <2> QED BY <1>1, <1>3, <1>4, <2>1 DEF ProcessInv, ProcessTypeOK, WithinLimits, NothingDropped, Told, GroupGone, Process!Kept
<1>5. CASE terminalError = "none"
  <2>1. /\ kept' = [kept EXCEPT ![s] = @ + Process!Smaller(n, remaining)]
        /\ IF n > remaining THEN Process!failAndTerminate("output-limit")
           ELSE UNCHANGED <<terminalError, termination, direct, code, descendant>>
    BY <1>5 DEF Process!collect
  <2>2. /\ remaining \in Nat /\ kept[s] \in Int /\ kept[s] + remaining <= Limit[s] /\ Process!Kept + remaining <= CombinedLimit
    <3>1. kept["stdout"] \in Int /\ kept["stderr"] \in Int /\ kept[s] \in Int /\ Limit[s] \in Nat
      BY <1>2 DEF ProcessTypeOK
    <3>2. Process!Kept \in Int /\ Process!Kept <= CombinedLimit /\ kept[s] <= Limit[s]
      BY <1>2, <3>1 DEF WithinLimits, Process!Kept
    <3> QED BY <3>1, <3>2 DEF Process!Smaller
  <2>3. Process!Smaller(n, remaining) \in Nat /\ Process!Smaller(n, remaining) <= remaining
        /\ (~(n > remaining) => Process!Smaller(n, remaining) = n)
    BY <1>1, <2>2 DEF Process!Smaller
  <2> HIDE DEF remaining
  <2>4. kept' \in [Streams -> Int] /\ WithinLimits'
    <3>1. kept' \in [Streams -> Int]
      BY <1>2, <2>1, <2>2, <2>3 DEF ProcessTypeOK
    <3>2. \A t \in Streams : kept'[t] = IF t = s THEN kept[s] + Process!Smaller(n, remaining) ELSE kept[t]
      BY <1>2, <2>1 DEF ProcessTypeOK
    <3>3. \A t \in Streams : kept[t] \in Int /\ Limit[t] \in Nat
      BY <1>2 DEF ProcessTypeOK
    <3>4. \A t \in Streams : kept'[t] <= Limit[t]
      BY <1>2, <2>2, <2>3, <3>2, <3>3 DEF WithinLimits
    <3>5. Process!Kept' = Process!Kept + Process!Smaller(n, remaining)
      <4>1. "stdout" \in Streams /\ "stderr" \in Streams /\ s \in {"stdout", "stderr"}
        OBVIOUS
      <4>2. CASE s = "stdout"
        BY <3>2, <3>3, <4>1, <4>2, <2>3 DEF Process!Kept
      <4>3. CASE s = "stderr"
        BY <3>2, <3>3, <4>1, <4>3, <2>3 DEF Process!Kept
      <4> QED BY <4>1, <4>2, <4>3
    <3>6. Process!Kept \in Int
      BY <3>3 DEF Process!Kept
    <3> QED BY <2>2, <2>3, <3>1, <3>4, <3>5, <3>6 DEF WithinLimits
  <2>5. CASE n > remaining
    <3>1. Process!failAndTerminate("output-limit") /\ "output-limit" \in Kinds
      BY <2>1, <2>5 DEF Kinds
    <3>2. direct # "none" \/ (UNCHANGED <<direct, termination, descendant>> /\ terminalError' = "output-limit")
      BY <1>1, <1>5, <3>1 DEF Process!failAndTerminate, Process!beginTermination
    <3>3. /\ direct' \in {"none", "running", "exited"} /\ descendant' \in {"none", "running", "holding", "ended"}
          /\ termination' \in {"none", "waiting", "killed", "done"} /\ terminalError' \in Kinds
          /\ termination' \in {"killed", "done"} => GroupGone'
      <4>1. CASE direct # "none"
        BY <1>1, <3>1, <4>1, Fails
      <4>2. CASE direct = "none"
        BY <3>1, <3>2, <4>2 DEF ProcessInv, ProcessTypeOK, GroupGone
      <4> QED BY <4>1, <4>2
    <3> QED BY <1>1, <1>3, <2>4, <3>3 DEF ProcessInv, ProcessTypeOK, NothingDropped, Told, Kinds
  <2>6. CASE ~(n > remaining)
    <3>1. UNCHANGED <<terminalError, termination, direct, code, descendant>>
      BY <2>1, <2>6
    <3>2. NothingDropped'
      BY <1>1, <1>2, <1>5, <2>1, <2>2, <2>3, <2>6 DEF ProcessInv, ProcessTypeOK, NothingDropped
    <3> QED BY <1>1, <1>3, <2>4, <3>1, <3>2 DEF ProcessInv, ProcessTypeOK, Told, GroupGone
  <2> QED BY <2>5, <2>6
<1> QED BY <1>4, <1>5

LEMMA ProcessStep == ProcessInv /\ [Process!Next]_theProcess => ProcessInv'
<1> SUFFICES ASSUME ProcessInv, [Process!Next]_theProcess PROVE ProcessInv'
  OBVIOUS
<1> USE ProcessAssumption
<1>1. ASSUME UNCHANGED <<written, kept, unread>>, ProcessTypeOK', terminalError' = "none" => terminalError = "none",
             termination' \in {"killed", "done"} => GroupGone', Told'
      PROVE  ProcessInv'
  BY <1>1 DEF ProcessInv, WithinLimits, NothingDropped, Process!Kept
<1>2. CASE UNCHANGED theProcess
  BY <1>2 DEF theProcess, ProcessInv, ProcessTypeOK, WithinLimits, NothingDropped, Told, GroupGone, Process!Kept
<1>3. CASE Process!spawnStarted \/ Process!Fork \/ Process!Exit \/ Process!DescendantEnds
  BY <1>1, <1>3 DEF Process!spawnStarted, Process!Fork, Process!Exit, Process!DescendantEnds, ProcessInv, ProcessTypeOK, Told,
     GroupGone, Kinds, Process!streamVars
<1>4. CASE Process!Escalate \/ Process!Terminated
  BY <1>1, <1>4 DEF Process!Escalate, Process!Terminated, Process!Killed, ProcessInv, ProcessTypeOK, Told,
     GroupGone, Kinds, Process!streamVars, Process!groupVars
<1>5. CASE Process!onError
  BY <1>1, <1>5 DEF Process!onError, ProcessInv, ProcessTypeOK, Told, GroupGone, Kinds, Process!streamVars
<1>6. CASE Process!onTimeout \/ Process!Interrupt
  <2>1. /\ outcome = "none" /\ direct # "none" /\ UNCHANGED <<mode, ignores, written, kept, unread, closeSeen, outcome>>
        /\ \E e \in Kinds : Process!failAndTerminate(e) \/ (terminalError' = e /\ Process!beginTermination)
    BY <1>6 DEF Process!onTimeout, Process!Interrupt, Process!streamVars, Kinds
  <2>2. /\ direct' \in {"running", "exited"} /\ descendant' \in {"none", "running", "holding", "ended"}
        /\ termination' \in {"none", "waiting", "killed", "done"} /\ terminalError' \in Kinds
        /\ termination' \in {"killed", "done"} => GroupGone'
    BY <2>1, Fails
  <2> QED BY <1>1, <2>1, <2>2 DEF ProcessInv, ProcessTypeOK, Told, Kinds
<1>7. CASE Process!onClose
  <2>1. /\ direct = "exited" /\ descendant # "holding" /\ unread = [s \in Streams |-> 0]
        /\ outcome' = IF terminalError = "none" THEN (IF code = "0" THEN "success" ELSE "exit") ELSE outcome
        /\ UNCHANGED <<mode, direct, descendant, written, kept, unread, terminalError, termination>>
    BY <1>7 DEF Process!onClose, Process!groupVars, Process!streamVars
  <2>2. terminalError = "none" => kept = written
    <3> SUFFICES ASSUME terminalError = "none" PROVE kept = written
      OBVIOUS
    <3>1. kept \in [Streams -> Int] /\ written \in [Streams -> Int]
      BY DEF ProcessInv, ProcessTypeOK
    <3>2. \A s \in Streams : written[s] = kept[s]
      BY <2>1, <3>1 DEF ProcessInv, NothingDropped
    <3> QED BY <3>1, <3>2
  <2> QED BY <1>1, <2>1, <2>2 DEF ProcessInv, ProcessTypeOK, Told, GroupGone, Kinds
<1>8. CASE Process!waitForExit
  BY <1>1, <1>8 DEF Process!waitForExit, Process!Killed, ProcessInv, ProcessTypeOK, Told, GroupGone, Kinds, Process!streamVars
<1>9. CASE Process!settle
  BY <1>1, <1>9 DEF Process!settle, ProcessInv, ProcessTypeOK, Told, GroupGone, Kinds, Process!streamVars, Process!groupVars
<1>10. ASSUME NEW s \in Streams, NEW n \in Chunks, Process!WriteOutput(s, n) PROVE ProcessInv'
  <2>1. /\ mode = "collect" /\ (direct = "running" \/ descendant = "holding") /\ n \in Nat
        /\ written' = [written EXCEPT ![s] = @ + n] /\ unread' = [unread EXCEPT ![s] = @ + n]
        /\ UNCHANGED <<mode, direct, ignores, descendant, kept, closeSeen, terminalError, termination, outcome>>
    BY <1>10 DEF Process!WriteOutput, Process!groupVars
  <2>2. ProcessTypeOK' /\ NothingDropped'
    BY <2>1 DEF ProcessInv, ProcessTypeOK, NothingDropped
  <2> QED BY <2>1, <2>2 DEF ProcessInv, ProcessTypeOK, WithinLimits, Told, GroupGone, Process!Kept
<1> QED BY <1>2, <1>3, <1>4, <1>5, <1>6, <1>7, <1>8, <1>9, <1>10, CollectStep DEF Process!Next

LEMMA ProcessesEnd == ProcessInv => Process!NothingLeftBehind
  BY DEF ProcessInv, WithinLimits, Told, GroupGone, Process!NothingLeftBehind

LEMMA ProcessMove == [MC_Next]_<<focus, theLock, theProcess, theRun, theProtocol, theEngine, theScope, theJournal>>
                      => [Process!Next]_theProcess
  BY DEF MC_Next

(* When a command's outcome is told its group is gone, and what was kept of its      *)
(* output is within the limits (src/analyze/process.ts).                            *)
THEOREM NothingStaysBehind == MC_Spec => []NothingLeftBehind
<1>1. ProcessInv => NothingLeftBehind
  BY ProcessesEnd DEF NothingLeftBehind
<1>2. MC_Init => ProcessInv
  BY ProcessInit DEF MC_Init
<1> QED BY <1>1, <1>2, ProcessStep, ProcessMove, PTL DEF MC_Spec

-----------------------------------------------------------------------------
(* AnalyzeRun: what was accepted follows the phase of the protocol, what was          *)
(* recorded the supervisor, and once the worker is closed nothing more comes.          *)
LineKinds == {"started", "diagnostic", "result", "complete", "noise", "foreign"}
Ends == {"terminated", "completed"}
Reasons == {"timeout", "cancelled", "protocol", "process", "configuration"}

RunTypeOK ==
  /\ worker \in {"none", "running", "exited", "closed"} /\ program \in {"start", "working", "result", "end"}
  /\ pipe \in Seq(LineKinds) /\ queue \in Seq(LineKinds) /\ arrived \in Nat
  /\ handling \in {"idle", "refused"} \cup Run!Events
  /\ phase \in {"initial", "started", "result", "complete"}
  /\ stopping \in {"none"} \cup Reasons
  /\ main \in {"begin", "rejectIfCancelled", "spawn", "waitForClose", "protocolQueue", "done"}
  /\ recorded \in Seq({"started", "diagnostic"} \cup Ends) /\ told \in Seq(Run!Events)
  /\ cancelled \in BOOLEAN /\ verdict \in {"none", "result"} \cup Reasons

(* The lines that were accepted, the one that is being handled last. *)
Accepted == IF handling \in Run!Events THEN Append(told, handling) ELSE told

InOrder(lines) ==
  /\ phase = "initial" => lines = <<>>
  /\ phase # "initial" => lines # <<>> /\ lines[1] = "started"
  /\ phase = "result" => lines[Len(lines)] = "result"
  /\ phase = "complete" => Len(lines) >= 2 /\ lines[Len(lines) - 1] = "result" /\ lines[Len(lines)] = "complete"

(* The supervisor waits for a worker that was spawned, and goes on when it is closed. *)
WorkerFollowed ==
  /\ main \in {"begin", "rejectIfCancelled", "spawn"} => worker = "none"
  /\ main = "waitForClose" => worker # "none"
  /\ main = "protocolQueue" => worker = "closed"
  /\ main = "done" => worker \in {"none", "closed"}
  /\ worker \in {"none", "closed"} => pipe = <<>>
  /\ worker = "none" => queue = <<>> /\ handling = "idle"
  /\ main = "done" => queue = <<>> /\ handling = "idle"

RecordFollows ==
  /\ main = "begin" => recorded = <<>>
  /\ main # "begin" => recorded # <<>> /\ recorded[1] = "started"
  /\ \A i \in 1..Len(recorded) : recorded[i] \in Ends => main = "done" /\ i = Len(recorded)
  /\ main = "done" => recorded[Len(recorded)] \in Ends

Answered ==
  /\ verdict = "none" <=> main # "done"
  /\ main = "done" => (verdict = "result" <=> recorded[Len(recorded)] = "completed")
  /\ verdict = "result" => stopping = "none" /\ phase = "complete"

RunInv == RunTypeOK /\ InOrder(Accepted) /\ WorkerFollowed /\ RecordFollows /\ Answered

LEMMA RunInit == Run!Init => RunInv
<1> SUFFICES ASSUME Run!Init PROVE RunInv
  OBVIOUS
<1>1. pipe = <<>> /\ queue = <<>> /\ recorded = <<>> /\ told = <<>> /\ handling = "idle" /\ phase = "initial" /\ main = "begin"
  BY DEF Run!Init, Run!Idle
<1>2. RunTypeOK
  BY <1>1, EmptySeq DEF Run!Init, RunTypeOK
<1>3. InOrder(Accepted)
  BY <1>1 DEF InOrder, Accepted, Run!Events
<1>4. WorkerFollowed /\ Answered
  BY <1>1 DEF Run!Init, WorkerFollowed, Answered
<1>5. RecordFollows
  <2>1. Len(recorded) = 0
    BY <1>1, EmptySeq
  <2> QED BY <1>1, <2>1 DEF RecordFollows
<1> QED BY <1>2, <1>3, <1>4, <1>5 DEF RunInv

(* What an invariant of sequences knows of Append. *)
LEMMA Appended ==
  ASSUME NEW S, NEW s \in Seq(S), NEW e \in S
  PROVE  /\ Append(s, e) \in Seq(S) /\ Len(Append(s, e)) = Len(s) + 1 /\ Len(s) \in Nat
         /\ Append(s, e)[Len(s) + 1] = e /\ \A i \in 1..Len(s) : Append(s, e)[i] = s[i]
         /\ Append(s, e) # <<>> /\ (s # <<>> => Len(s) >= 1)
<1>1. Len(s) \in Nat /\ (s # <<>> => Len(s) >= 1)
  BY EmptySeq, LenProperties
<1> QED BY <1>1, AppendProperties

(* A step of the worker puts at most a line into its pipe. *)
LEMMA RunWorkerStep == RunInv /\ Run!Worker => RunInv'
<1> SUFFICES ASSUME RunInv, Run!Worker PROVE RunInv'
  OBVIOUS
<1>1. ASSUME NEW head \in LineKinds, NEW p \in {"start", "working", "result", "end"}, worker = "running", Run!Emits(head, p)
      PROVE  RunInv'
  <2>1. pipe' \in Seq(LineKinds)
    BY <1>1, Appended DEF Run!Emits, RunInv, RunTypeOK
  <2> QED BY <1>1, <2>1 DEF Run!Emits, RunInv, RunTypeOK, InOrder, Accepted, WorkerFollowed, RecordFollows, Answered
<1>2. CASE Run!WorkerExits
  BY <1>2 DEF Run!WorkerExits, RunInv, RunTypeOK, InOrder, Accepted, WorkerFollowed, RecordFollows, Answered
<1>3. CASE Run!WorkerStarts \/ Run!WorkerReports \/ Run!WorkerResults \/ Run!WorkerCompletes \/ Run!WorkerNoise
  BY <1>1, <1>3 DEF Run!WorkerStarts, Run!WorkerReports, Run!WorkerResults, Run!WorkerCompletes, Run!WorkerNoise, LineKinds
<1> QED BY <1>2, <1>3 DEF Run!Worker

(* Stopping and ending change neither lines nor records. *)
LEMMA RunAside ==
  ASSUME RunInv, Run!WorkerCloses \/ Run!Terminate \/ Run!Timeout \/ Run!Cancel \/ Run!WorkerFails
  PROVE  RunInv'
<1>1. CASE Run!WorkerCloses \/ Run!Terminate
  BY <1>1 DEF Run!WorkerCloses, Run!Terminate, RunInv, RunTypeOK, InOrder, Accepted, WorkerFollowed, RecordFollows, Answered
<1>2. ASSUME verdict = "none", stopping' \in {stopping} \cup Reasons, cancelled' \in BOOLEAN,
             UNCHANGED <<worker, program, pipe, arrived, queue, handling, phase, main, recorded, told, verdict>>
      PROVE  RunInv'
  BY <1>2 DEF RunInv, RunTypeOK, InOrder, Accepted, WorkerFollowed, RecordFollows, Answered
<1>3. \/ /\ verdict = "none" /\ stopping' \in {stopping} \cup Reasons /\ cancelled' \in BOOLEAN
         /\ UNCHANGED <<worker, program, pipe, arrived, queue, handling, phase, main, recorded, told, verdict>>
      \/ Run!WorkerCloses \/ Run!Terminate
  BY DEF Run!Timeout, Run!Cancel, Run!WorkerFails, Run!stop, Run!Listening, Run!workerVars, RunInv, RunTypeOK, Answered, Reasons
<1> QED BY <1>1, <1>2, <1>3

LEMMA RunLineStep == RunInv /\ Run!Lines => RunInv'
<1> SUFFICES ASSUME RunInv, Run!Lines PROVE RunInv'
  OBVIOUS
<1>1. main \in {"waitForClose", "protocolQueue"} /\ worker # "none" /\ verdict = "none"
  BY DEF Run!Lines, Run!Arrives, Run!Accept, Run!Handled, Run!Idle, RunInv, RunTypeOK, WorkerFollowed, Answered
<1>2. CASE Run!Arrives
  <2>1. pipe \in Seq(LineKinds) /\ pipe # <<>> /\ queue \in Seq(LineKinds) /\ arrived \in Nat
    BY <1>2 DEF Run!Arrives, RunInv, RunTypeOK
  <2>2. Tail(pipe) \in Seq(LineKinds) /\ Append(queue, Head(pipe)) \in Seq(LineKinds) /\ arrived + 1 \in Nat
    BY <2>1
  <2>3. /\ pipe' \in Seq(LineKinds) /\ queue' \in Seq(LineKinds) /\ arrived' \in Nat /\ stopping' \in {"none"} \cup Reasons
        /\ worker # "closed"
        /\ UNCHANGED <<worker, program, handling, phase, main, recorded, told, cancelled, verdict>>
    BY <1>2, <2>1, <2>2 DEF Run!Arrives, Run!stop, Run!workerVars, RunInv, RunTypeOK, Reasons
  <2> QED BY <1>1, <2>3 DEF RunInv, RunTypeOK, InOrder, Accepted, WorkerFollowed, RecordFollows, Answered
<1>3. CASE Run!Accept
  <2> DEFINE head == Head(queue)
             next == Run!acceptProtocolLine(phase, head)
  <2>1. /\ queue \in Seq(LineKinds) /\ queue # <<>> /\ handling = "idle" /\ queue' = Tail(queue)
        /\ UNCHANGED <<worker, program, pipe, arrived, main, told, cancelled, verdict>>
    BY <1>3 DEF Run!Accept, Run!Idle, Run!workerVars, RunInv, RunTypeOK
  <2>2. head \in LineKinds /\ queue' \in Seq(LineKinds)
    BY <2>1
  <2>3. Accepted = told /\ told \in Seq(Run!Events) /\ InOrder(told)
    BY <2>1 DEF Accepted, RunInv, RunTypeOK, Run!Events
  <2>4. CASE next = "refused"
    <3>1. /\ handling' = "refused" /\ stopping' \in {"none"} \cup Reasons /\ UNCHANGED <<phase, recorded>>
      BY <1>3, <2>4 DEF Run!Accept, Run!stop, RunInv, RunTypeOK, Reasons
    <3> QED BY <1>1, <2>1, <2>2, <2>3, <3>1 DEF RunInv, RunTypeOK, InOrder, Accepted, WorkerFollowed, RecordFollows, Answered, Run!Events
  <2>5. CASE next # "refused"
    <3>1. /\ phase' = next /\ handling' = head /\ UNCHANGED stopping
          /\ IF head = "diagnostic" THEN recorded' = Append(recorded, "diagnostic") ELSE UNCHANGED recorded
      BY <1>3, <2>5 DEF Run!Accept, Run!Record
    <3>2. /\ head \in Run!Events
          /\ \/ phase = "initial" /\ head = "started" /\ next = "started"
             \/ phase = "started" /\ head = "diagnostic" /\ next = "started"
             \/ phase = "started" /\ head = "result" /\ next = "result"
             \/ phase = "result" /\ head = "complete" /\ next = "complete"
      BY <2>2, <2>5 DEF Run!acceptProtocolLine, Run!parseAnalyzeWorkerEvent, Run!parseObjectLine, Run!Events, LineKinds
    <3> HIDE DEF head, next
    <3>3. Accepted' = Append(told, head)
      BY <2>1, <3>1, <3>2 DEF Accepted
    <3>4. InOrder(Accepted)'
      <4>1. /\ Len(Append(told, head)) = Len(told) + 1 /\ Len(told) \in Nat
            /\ Append(told, head)[Len(told) + 1] = head /\ \A i \in 1..Len(told) : Append(told, head)[i] = told[i]
            /\ Append(told, head) # <<>> /\ (told # <<>> => Len(told) >= 1)
        BY <2>3, <3>2, Appended
      <4>2. phase # "initial" => told # <<>> /\ told[1] = "started" /\ Append(told, head)[1] = "started"
        BY <2>3, <4>1 DEF InOrder
      <4>3. phase = "initial" => Append(told, head)[1] = head
        BY <2>3, <4>1 DEF InOrder
      <4>4. phase = "result" => Len(told) >= 1 /\ Append(told, head)[Len(told)] = "result"
        BY <2>3, <4>1, <4>2 DEF InOrder
      <4> QED BY <3>1, <3>2, <3>3, <4>1, <4>2, <4>3, <4>4 DEF InOrder
    <3>5. RecordFollows' /\ recorded' \in Seq({"started", "diagnostic"} \cup Ends)
      <4>1. recorded \in Seq({"started", "diagnostic"} \cup Ends) /\ RecordFollows
        BY DEF RunInv, RunTypeOK
      <4>2. CASE head # "diagnostic"
        BY <1>1, <2>1, <3>1, <4>1, <4>2 DEF RecordFollows
      <4>3. CASE head = "diagnostic"
        <5>1. recorded' = Append(recorded, "diagnostic") /\ recorded # <<>>
          BY <1>1, <3>1, <4>1, <4>3 DEF RecordFollows
        <5>2. /\ recorded' \in Seq({"started", "diagnostic"} \cup Ends) /\ Len(recorded') = Len(recorded) + 1 /\ Len(recorded) \in Nat
              /\ recorded'[Len(recorded) + 1] = "diagnostic" /\ \A i \in 1..Len(recorded) : recorded'[i] = recorded[i]
              /\ recorded' # <<>> /\ Len(recorded) >= 1
          BY <4>1, <5>1, Appended
        <5>3. \A i \in 1..Len(recorded') : recorded'[i] \notin Ends
          BY <1>1, <4>1, <5>2 DEF RecordFollows, Ends
        <5> QED BY <1>1, <2>1, <4>1, <5>2, <5>3 DEF RecordFollows
      <4> QED BY <4>2, <4>3
    <3>6. phase' \in {"initial", "started", "result", "complete"} /\ phase' # "initial"
      BY <3>1, <3>2
    <3>7. RunTypeOK'
      BY <2>1, <2>2, <3>1, <3>2, <3>5, <3>6 DEF RunInv, RunTypeOK
    <3>8. WorkerFollowed' /\ Answered'
      BY <1>1, <2>1, <3>1 DEF RunInv, WorkerFollowed, Answered
    <3> QED BY <3>4, <3>5, <3>7, <3>8 DEF RunInv
  <2> QED BY <2>4, <2>5
<1>4. CASE Run!Handled
  <2>1. /\ handling # "idle" /\ UNCHANGED <<worker, program, pipe, arrived, queue, phase, main, recorded, cancelled, verdict>>
        /\ handling' \in {"idle", "refused"} /\ stopping' \in {"none"} \cup Reasons
        /\ told' = IF handling = "refused" THEN told ELSE Append(told, handling)
    BY <1>4 DEF Run!Handled, Run!Idle, Run!stop, Run!workerVars, RunInv, RunTypeOK, Reasons
  <2>2. handling \in {"refused"} \cup Run!Events /\ told \in Seq(Run!Events)
    BY <2>1 DEF RunInv, RunTypeOK
  <2>3. told' \in Seq(Run!Events)
    BY <2>1, <2>2
  <2>4. Accepted' = Accepted
    BY <2>1, <2>2 DEF Accepted, Run!Events
  <2> QED BY <1>1, <2>1, <2>3, <2>4 DEF RunInv, RunTypeOK, InOrder, WorkerFollowed, RecordFollows, Answered
<1> QED BY <1>2, <1>3, <1>4 DEF Run!Lines

(* The last entry is the verdict's. *)
LEMMA Finishes ==
  ASSUME RunInv, NEW type \in Ends, NEW v \in {"result"} \cup Reasons, Run!finish(type, v),
         main \in {"rejectIfCancelled", "spawn", "protocolQueue"}, queue = <<>>, handling = "idle",
         type = "completed" <=> v = "result", v = "result" => stopping = "none" /\ phase = "complete",
         UNCHANGED <<worker, program, pipe, arrived, queue, handling, phase, stopping, told, cancelled>>
  PROVE  RunInv'
<1>1. recorded \in Seq({"started", "diagnostic"} \cup Ends) /\ RecordFollows /\ recorded # <<>>
  BY DEF RunInv, RunTypeOK, RecordFollows
<1>2. recorded' = Append(recorded, type) /\ verdict' = v /\ main' = "done"
  BY DEF Run!finish, Run!Record
<1>3. /\ recorded' \in Seq({"started", "diagnostic"} \cup Ends) /\ Len(recorded') = Len(recorded) + 1 /\ Len(recorded) \in Nat
      /\ recorded'[Len(recorded) + 1] = type /\ \A i \in 1..Len(recorded) : recorded'[i] = recorded[i]
      /\ recorded' # <<>> /\ Len(recorded) >= 1
  BY <1>1, <1>2, Appended
<1>4. \A i \in 1..Len(recorded) : recorded'[i] \notin Ends
  BY <1>1, <1>3 DEF RecordFollows
<1>5. RecordFollows'
  BY <1>1, <1>2, <1>3, <1>4 DEF RecordFollows
<1>6. Answered'
  BY <1>2, <1>3 DEF Answered, Reasons, Ends
<1>7. RunTypeOK' /\ WorkerFollowed' /\ InOrder(Accepted)'
  BY <1>2, <1>3 DEF RunInv, RunTypeOK, WorkerFollowed, InOrder, Accepted
<1> QED BY <1>5, <1>6, <1>7 DEF RunInv

LEMMA RunSupervisorStep == RunInv /\ (Run!RunStarted \/ Run!Supervisor) => RunInv'
<1> SUFFICES ASSUME RunInv, Run!RunStarted \/ Run!Supervisor PROVE RunInv'
  OBVIOUS
<1>1. CASE Run!RunStarted
  <2>1. recorded = <<>> /\ recorded' = <<"started">> /\ main' = "rejectIfCancelled" /\ main = "begin"
    BY <1>1 DEF Run!RunStarted, Run!Record, RunInv, RunTypeOK, RecordFollows
  <2> QED BY <1>1, <2>1 DEF Run!RunStarted, Run!workerVars, RunInv, RunTypeOK, InOrder, Accepted, WorkerFollowed, RecordFollows, Answered, Ends
<1>2. CASE Run!rejectIfCancelled
  <2>1. /\ main = "rejectIfCancelled" /\ queue = <<>> /\ handling = "idle"
        /\ UNCHANGED <<worker, program, pipe, arrived, queue, handling, phase, stopping, told, cancelled>>
    BY <1>2 DEF Run!rejectIfCancelled, Run!workerVars, RunInv, WorkerFollowed
  <2>2. CASE Run!finish("terminated", "cancelled")
    BY <2>1, <2>2, Finishes DEF Ends, Reasons
  <2>3. CASE main' = "spawn" /\ UNCHANGED <<recorded, verdict>>
    BY <2>1, <2>3 DEF RunInv, RunTypeOK, InOrder, Accepted, WorkerFollowed, RecordFollows, Answered
  <2> QED BY <1>2, <2>2, <2>3 DEF Run!rejectIfCancelled
<1>3. CASE Run!Spawn
  <2>1. /\ main = "spawn" /\ queue = <<>> /\ handling = "idle" /\ pipe = <<>>
        /\ UNCHANGED <<program, pipe, arrived, queue, handling, phase, told, cancelled>>
    BY <1>3 DEF Run!Spawn, RunInv, WorkerFollowed
  <2>2. CASE Run!finish("terminated", "process") /\ UNCHANGED <<worker, stopping>>
    BY <2>1, <2>2, Finishes DEF Ends, Reasons
  <2>3. CASE ~(Run!finish("terminated", "process") /\ UNCHANGED <<worker, stopping>>)
    <3>1. worker' = "running" /\ main' = "waitForClose" /\ UNCHANGED <<recorded, verdict>> /\ stopping' \in {"none"} \cup Reasons
      BY <1>3, <2>3 DEF Run!Spawn, Run!stop, RunInv, RunTypeOK, Reasons
    <3> QED BY <2>1, <3>1 DEF RunInv, RunTypeOK, InOrder, Accepted, WorkerFollowed, RecordFollows, Answered
  <2> QED BY <2>2, <2>3
<1>4. CASE Run!waitForClose
  BY <1>4 DEF Run!waitForClose, Run!workerVars, RunInv, RunTypeOK, InOrder, Accepted, WorkerFollowed, RecordFollows, Answered
<1>5. CASE Run!settle
  <2>1. /\ main = "protocolQueue" /\ queue = <<>> /\ handling = "idle" /\ stopping \in {"none"} \cup Reasons
        /\ UNCHANGED <<worker, program, pipe, arrived, queue, handling, phase, stopping, told, cancelled>>
    BY <1>5 DEF Run!settle, Run!workerVars, Run!Idle, RunInv, RunTypeOK
  <2>2. CASE stopping # "none"
    <3>1. Run!finish("terminated", stopping) /\ stopping \in Reasons
      BY <1>5, <2>1, <2>2 DEF Run!settle
    <3> QED BY <2>1, <3>1, Finishes DEF Ends, Reasons
  <2>3. CASE stopping = "none"
    <3>1. Run!finish("terminated", "process") \/ (phase = "complete" /\ Run!finish("completed", "result"))
      BY <1>5, <2>3 DEF Run!settle
    <3> QED BY <2>1, <2>3, <3>1, Finishes DEF Ends, Reasons
  <2> QED BY <2>2, <2>3
<1> QED BY <1>1, <1>2, <1>3, <1>4, <1>5 DEF Run!Supervisor

LEMMA RunStep == RunInv /\ [Run!Next]_theRun => RunInv'
<1>1. ASSUME RunInv, UNCHANGED theRun PROVE RunInv'
  BY <1>1 DEF theRun, RunInv, RunTypeOK, InOrder, Accepted, WorkerFollowed, RecordFollows, Answered
<1> QED BY <1>1, RunWorkerStep, RunAside, RunLineStep, RunSupervisorStep DEF Run!Next

LEMMA RunCardinality == \A S : Run!Cardinality(S) = Cardinality(S)
  BY DEF Run!Cardinality, Cardinality, Run!IsFiniteSet, IsFiniteSet

LEMMA RunIsWholeByInv == RunInv => Run!RunIsWhole
<1> SUFFICES ASSUME RunInv, verdict # "none" PROVE Run!RunIsWhole
  BY DEF Run!RunIsWhole
<1>1. main = "done" /\ recorded \in Seq({"started", "diagnostic"} \cup Ends) /\ recorded # <<>> /\ recorded[1] = "started"
      /\ recorded[Len(recorded)] \in Ends
  BY DEF RunInv, RunTypeOK, Answered, RecordFollows
<1>2. DOMAIN recorded = 1..Len(recorded) /\ Len(recorded) \in 1..Len(recorded) /\ Head(recorded) = recorded[1]
  BY <1>1
<1>3. {i \in DOMAIN recorded : recorded[i] \in Ends} = {Len(recorded)}
  BY <1>1, <1>2 DEF RunInv, RecordFollows
<1>4. Run!Cardinality({i \in DOMAIN recorded : recorded[i] \in Ends}) = 1
  BY <1>3, RunCardinality, FS_Singleton
<1>5. /\ worker \in {"none", "closed"} /\ queue = <<>> /\ handling = "idle"
      /\ (verdict = "result" <=> recorded[Len(recorded)] = "completed")
      /\ verdict = "result" => stopping = "none" /\ phase = "complete"
  BY <1>1 DEF RunInv, WorkerFollowed, Answered
<1>6. told \in Seq(Run!Events) /\ InOrder(told)
  BY <1>5 DEF RunInv, RunTypeOK, Accepted, Run!Events
<1>7. "refused" \notin Run!ToSet(told)
  <2>1. \A i \in DOMAIN told : told[i] # "refused"
    BY <1>6 DEF Run!Events
  <2> QED BY <2>1 DEF Run!ToSet
<1>8. phase = "complete" => Head(told) = "started" /\ SubSeq(told, Len(told) - 1, Len(told)) = <<"result", "complete">>
  <2> SUFFICES ASSUME phase = "complete" PROVE Head(told) = "started" /\ SubSeq(told, Len(told) - 1, Len(told)) = <<"result", "complete">>
    OBVIOUS
  <2>1. Len(told) \in Nat /\ Len(told) >= 2 /\ told[1] = "started" /\ told[Len(told) - 1] = "result" /\ told[Len(told)] = "complete"
        /\ told # <<>>
    BY <1>6 DEF InOrder
  <2>2. SubSeq(told, Len(told) - 1, Len(told)) = <<told[Len(told) - 1], told[Len(told)]>>
    <3> DEFINE end == SubSeq(told, Len(told) - 1, Len(told))
               pair == <<told[Len(told) - 1], told[Len(told)]>>
    <3>1. \A i \in Len(told) - 1 .. Len(told) : told[i] \in Run!Events
      BY <1>6, <2>1
    <3>2. /\ end \in Seq(Run!Events) /\ Len(end) = 2
          /\ \A i \in 1..2 : end[i] = told[Len(told) - 1 + i - 1]
      BY <2>1, <3>1, SubSeqProperties
    <3>3. /\ pair \in Seq(Run!Events) /\ Len(pair) = 2 /\ pair[1] = told[Len(told) - 1] /\ pair[2] = told[Len(told)]
      BY <2>1, <3>1
    <3> HIDE DEF end, pair
    <3>4. \A i \in 1..2 : end[i] = pair[i]
      BY <2>1, <3>2, <3>3
    <3>5. end = pair
      BY <3>2, <3>3, <3>4, SeqEqual
    <3> QED BY <3>5 DEF end, pair
  <2> QED BY <1>6, <2>1, <2>2
<1> QED BY <1>1, <1>2, <1>4, <1>5, <1>7, <1>8 DEF Run!RunIsWhole, Run!Last, Run!Idle, Ends

LEMMA RunMove == [MC_Next]_<<focus, theLock, theProcess, theRun, theProtocol, theEngine, theScope, theJournal>>
                      => [Run!Next]_theRun
  BY DEF MC_Next

(* The caller of an analysis is told of its start, its diagnostics, its result and    *)
(* its completion in this order, each once, and success is reported only of a whole    *)
(* run whose worker has exited (src/analyze/supervisor.ts).                          *)
THEOREM RunsAreWhole == MC_Spec => []RunIsWhole
<1>1. RunInv => RunIsWhole
  BY RunIsWholeByInv DEF RunIsWhole
<1>2. MC_Init => RunInv
  BY RunInit DEF MC_Init
<1> QED BY <1>1, <1>2, RunStep, RunMove, PTL DEF MC_Spec

-----------------------------------------------------------------------------
(* AnalyzeEngine: as long as nothing failed each check that was asked for has run,   *)
(* runs or has yet to, and those on syntax have their sources loaded.                *)
InProgress == [check : Checks, batches : Int, findings : Nat, outcome : {"none", "success", "failure"}, exceeded : BOOLEAN]

EngineTypeOK ==
  /\ selected \subseteq Checks /\ todo \subseteq selected /\ at \in {"setup", "scope", "checks", "done"}
  /\ found \in Nat /\ found <= MaxTotal /\ stopped \in BOOLEAN /\ benchmarks \in Nat
  /\ running = Engine!NoCheck \/ (running \in InProgress /\ at = "checks")

Underway == IF running = Engine!NoCheck THEN {} ELSE {running.check}

SourcesLoaded ==
  /\ loadedFor = "syntax" => \A c \in todo : Capability[c] = "syntax" => Source[c] \in loaded
  /\ \A c \in Underway : Capability[c] = "syntax" => Source[c] \in loaded

EngineInv ==
  /\ EngineTypeOK /\ SourcesLoaded
  /\ at = "setup" => todo = {} /\ failures = {} /\ ~stopped /\ ran = {}
  /\ at \in {"setup", "scope"} => loadedFor = "none"
  /\ failures = {} /\ at # "setup" => ~stopped /\ selected = ran \cup todo \cup Underway
  /\ failures = {} /\ at = "done" => todo = {} /\ benchmarks = 0

LEMMA EngineInit == Engine!Init => EngineInv
<1> SUFFICES ASSUME Engine!Init PROVE EngineInv
  OBVIOUS
<1>1. selected \subseteq Checks /\ benchmarks \in Nat
  BY EngineAssumption DEF Engine!Init
<1>2. EngineTypeOK
  <2>1. found \in Nat /\ found <= MaxTotal
    BY EngineAssumption DEF Engine!Init
  <2>2. running = Engine!NoCheck /\ todo = {} /\ at = "setup" /\ stopped = FALSE
    BY DEF Engine!Init
  <2> QED BY <1>1, <2>1, <2>2 DEF EngineTypeOK
<1> QED BY <1>2 DEF Engine!Init, EngineInv, SourcesLoaded, Underway

LEMMA RunsACheck == \A r \in InProgress : r # Engine!NoCheck
<1> SUFFICES ASSUME NEW r \in InProgress, r = Engine!NoCheck PROVE FALSE
  OBVIOUS
<1>1. "batches" \in DOMAIN r
  BY DEF InProgress
<1>2. "batches" \notin DOMAIN Engine!NoCheck
  BY DEF Engine!NoCheck
<1> QED BY <1>1, <1>2

(* An analysis that fails as a whole says so. *)
LEMMA EngineFails ==
  ASSUME EngineInv, NEW a, Engine!Fail(a), running = Engine!NoCheck
  PROVE  EngineInv'
  BY EngineAssumption DEF Engine!Fail, EngineInv, EngineTypeOK, SourcesLoaded, Underway

LEMMA EngineSetupStep ==
  ASSUME EngineInv, Engine!validateOptions \/ Engine!setupAnalysis \/ Engine!resolveScope
  PROVE  EngineInv'
<1>1. at \in {"setup", "scope"} /\ running = Engine!NoCheck
  BY DEF Engine!validateOptions, Engine!setupAnalysis, Engine!resolveScope, EngineInv, EngineTypeOK
<1>2. CASE \E a : Engine!Fail(a)
  BY <1>1, <1>2, EngineFails
<1>3. CASE Engine!setupAnalysis
  <2>1. PICK small \in SUBSET selected :
          /\ todo' = selected \ small /\ failures' = small
          /\ at' = IF selected # {} /\ small = selected THEN "done" ELSE "scope"
    BY <1>3 DEF Engine!setupAnalysis
  <2>2. at = "setup" /\ UNCHANGED <<selected, loaded, loadedFor, running, found, stopped, ran, benchmarks>>
    BY <1>3 DEF Engine!setupAnalysis
  <2> QED BY <1>1, <2>1, <2>2 DEF EngineInv, EngineTypeOK, SourcesLoaded, Underway
<1>4. CASE at = "scope" /\ at' = "checks"
           /\ UNCHANGED <<selected, todo, loaded, loadedFor, running, found, failures, stopped, ran, benchmarks>>
  BY <1>1, <1>4 DEF EngineInv, EngineTypeOK, SourcesLoaded, Underway
<1> QED BY <1>2, <1>3, <1>4 DEF Engine!validateOptions, Engine!resolveScope

(* Over the budget something has failed. *)
LEMMA EngineGuards ==
  ASSUME EngineInv, NEW c, Engine!memoryGuard(c), at = "checks"
  PROVE  EngineInv'
  BY DEF Engine!memoryGuard, EngineInv, EngineTypeOK, SourcesLoaded, Underway

LEMMA EngineLoadStep == EngineInv /\ Engine!loadProject => EngineInv'
<1> SUFFICES ASSUME EngineInv, Engine!loadProject PROVE EngineInv'
  OBVIOUS
<1>1. at = "checks" /\ running = Engine!NoCheck
  BY DEF Engine!loadProject
<1>2. CASE \E a : Engine!Fail(a)
  BY <1>1, <1>2, EngineFails
<1>3. CASE \E c : Engine!memoryGuard(c)
  BY <1>1, <1>3, EngineGuards
<1>4. CASE /\ loaded' = IF Engine!Current = "syntax" THEN Engine!syntaxSourceSelection ELSE {"types"}
           /\ loadedFor' = Engine!Current
           /\ UNCHANGED <<selected, at, todo, running, found, failures, stopped, ran, benchmarks>>
  <2>1. loadedFor' = "syntax" => \A c \in todo : Capability[c] = "syntax" => Source[c] \in loaded'
    BY <1>4 DEF Engine!syntaxSourceSelection, Engine!Of
  <2>2. SourcesLoaded'
    BY <1>1, <1>4, <2>1 DEF SourcesLoaded, Underway
  <2> QED BY <1>1, <1>4, <2>2 DEF EngineInv, EngineTypeOK, Underway
<1> QED BY <1>2, <1>3, <1>4 DEF Engine!loadProject

LEMMA EngineStartStep == EngineInv /\ Engine!startCheck => EngineInv'
<1> SUFFICES ASSUME EngineInv, Engine!startCheck PROVE EngineInv'
  OBVIOUS
<1>1. /\ at = "checks" /\ running = Engine!NoCheck
      /\ Engine!Current = "external" \/ loadedFor = Engine!Current
  BY DEF Engine!startCheck
<1>2. CASE \E c : Engine!memoryGuard(c)
  BY <1>1, <1>2, EngineGuards
<1>3. CASE ~ \E c : Engine!memoryGuard(c)
  <2>1. PICK c \in Engine!Of(Engine!Current), n \in Int :
          /\ todo' = todo \ {c}
          /\ running' = [check |-> c, batches |-> n, findings |-> 0, outcome |-> "none", exceeded |-> FALSE]
          /\ UNCHANGED <<selected, at, loaded, loadedFor, found, failures, stopped, ran, benchmarks>>
    BY <1>3 DEF Engine!startCheck
  <2>2. c \in todo /\ c \in Checks /\ Capability[c] = Engine!Current
    BY DEF Engine!Of, EngineInv, EngineTypeOK
  <2>3. running' \in InProgress /\ running'.check = c
    BY <2>1, <2>2 DEF InProgress
  <2>4. Underway = {} /\ Underway' = {c}
    BY <1>1, <2>3, RunsACheck DEF Underway
  <2>5. Capability[c] = "syntax" => Source[c] \in loaded
    BY <1>1, <2>2 DEF EngineInv, SourcesLoaded
  <2>6. SourcesLoaded'
    BY <2>1, <2>4, <2>5 DEF EngineInv, SourcesLoaded
  <2>7. EngineTypeOK'
    BY <1>1, <2>1, <2>3 DEF EngineInv, EngineTypeOK
  <2> QED BY <1>1, <2>1, <2>2, <2>4, <2>6, <2>7 DEF EngineInv
<1> QED BY <1>2, <1>3

(* The batches of a check leave the rest as it is. *)
LEMMA EngineBatchStep == EngineInv /\ (Engine!runBatch \/ Engine!bundleGate \/ Engine!lastBatch) => EngineInv'
<1> SUFFICES ASSUME EngineInv, Engine!runBatch \/ Engine!bundleGate \/ Engine!lastBatch PROVE EngineInv'
  OBVIOUS
<1>1. running # Engine!NoCheck /\ running \in InProgress /\ at = "checks"
  BY DEF Engine!runBatch, Engine!bundleGate, Engine!lastBatch, EngineInv, EngineTypeOK
<1>2. PICK r \in InProgress : Engine!Batch(r) /\ r.check = running.check
  <2>1. ASSUME NEW n \in Nat PROVE /\ [running EXCEPT !.batches = @ - 1, !.findings = @ + n] \in InProgress
                                   /\ [running EXCEPT !.batches = @ - 1, !.findings = @ + n].check = running.check
    <3> DEFINE r == [running EXCEPT !.batches = @ - 1, !.findings = @ + n]
    <3>1. /\ running.batches \in Int /\ running.findings \in Nat /\ running.check \in Checks
          /\ running.outcome \in {"none", "success", "failure"} /\ running.exceeded \in BOOLEAN
      BY <1>1 DEF InProgress
    <3>2. r = [check |-> running.check, batches |-> running.batches - 1, findings |-> running.findings + n,
               outcome |-> running.outcome, exceeded |-> running.exceeded]
      <4> DEFINE s == [running EXCEPT !.batches = @ - 1]
      <4>1. DOMAIN running = {"check", "batches", "findings", "outcome", "exceeded"}
        BY <1>1 DEF InProgress
      <4>2. /\ DOMAIN s = DOMAIN running /\ s.batches = running.batches - 1 /\ s.findings = running.findings
            /\ s.check = running.check /\ s.outcome = running.outcome /\ s.exceeded = running.exceeded
        BY <4>1
      <4>3. r = [s EXCEPT !.findings = running.findings + n]
        BY <4>1
      <4> HIDE DEF s
      <4> QED BY <4>1, <4>2, <4>3
    <3>3. running.batches - 1 \in Int /\ running.findings + n \in Nat
      BY <2>1, <3>1
    <3> HIDE DEF r
    <3>4. r \in InProgress /\ r.check = running.check
      BY <3>1, <3>2, <3>3 DEF InProgress
    <3> QED BY <3>4 DEF r
  <2>2. /\ [running EXCEPT !.outcome = "failure"] \in InProgress /\ [running EXCEPT !.outcome = "failure"].check = running.check
        /\ [running EXCEPT !.outcome = "success"] \in InProgress /\ [running EXCEPT !.outcome = "success"].check = running.check
        /\ [running EXCEPT !.outcome = "success", !.exceeded = TRUE] \in InProgress
        /\ [running EXCEPT !.outcome = "success", !.exceeded = TRUE].check = running.check
    BY <1>1 DEF InProgress
  <2>3. 0..MaxFound \subseteq Nat /\ 1 \in Nat
    BY EngineAssumption
  <2>4. CASE Engine!runBatch
    BY <2>1, <2>2, <2>3, <2>4 DEF Engine!runBatch
  <2> QED BY <2>2, <2>4 DEF Engine!bundleGate, Engine!lastBatch
<1>3. running' = r /\ UNCHANGED <<selected, at, todo, loaded, loadedFor, found, failures, stopped, ran, benchmarks>>
  BY <1>2 DEF Engine!Batch
<1>4. Underway' = Underway
  BY <1>1, <1>2, <1>3, RunsACheck DEF Underway
<1> QED BY <1>1, <1>3, <1>4 DEF EngineInv, EngineTypeOK, SourcesLoaded

LEMMA EngineEndStep == EngineInv /\ Engine!endCheck => EngineInv'
<1> SUFFICES ASSUME EngineInv, Engine!endCheck PROVE EngineInv'
  OBVIOUS
<1> DEFINE c == running.check
           clean == running.outcome = "success" /\ ~Engine!Dropped(running) /\ ~running.exceeded
<1>1. running # Engine!NoCheck /\ running \in InProgress /\ at = "checks" /\ Underway = {c}
  BY DEF Engine!endCheck, EngineInv, EngineTypeOK, Underway
<1>2. running' = Engine!NoCheck /\ UNCHANGED <<selected, at, todo, loaded, loadedFor, benchmarks>> /\ Underway' = {}
  BY DEF Engine!endCheck, Underway
<1>3. found' \in Nat /\ found' <= MaxTotal
  <2>1. found \in Nat /\ found <= MaxTotal /\ running.findings \in Nat
    BY <1>1 DEF EngineInv, EngineTypeOK, InProgress
  <2> QED BY <2>1, EngineAssumption DEF Engine!endCheck, Engine!addFindings, Engine!capFindings, Engine!room
<1>4. stopped' \in BOOLEAN
  BY <1>1 DEF Engine!endCheck, InProgress
<1>5. Capability[c] = "syntax" => Source[c] \in loaded
  BY <1>1 DEF EngineInv, SourcesLoaded
<1>6. failures' = {} => failures = {} /\ ~stopped' /\ clean
  <2> SUFFICES ASSUME failures' = {} PROVE failures = {} /\ ~stopped' /\ clean
    OBVIOUS
  <2>1. PICK over \in BOOLEAN :
          /\ stopped' = (over \/ running.exceeded)
          /\ failures' = failures \cup IF running.outcome = "failure" \/ running.exceeded \/ Engine!Dropped(running) \/ over THEN {c} ELSE {}
    BY DEF Engine!endCheck
  <2>2. failures = {} /\ ~(running.outcome = "failure" \/ running.exceeded \/ Engine!Dropped(running) \/ over)
    BY <2>1
  <2>3. running.outcome = "success"
    BY <1>1, <2>2 DEF Engine!endCheck, InProgress
  <2> QED BY <2>1, <2>2, <2>3
<1>7. clean => ran' = ran \cup {c}
  BY <1>5 DEF Engine!endCheck
<1> HIDE DEF clean, c
<1>8. failures' = {} => ~stopped' /\ selected' = ran' \cup todo' \cup Underway'
  BY <1>1, <1>2, <1>6, <1>7 DEF EngineInv
<1> QED BY <1>1, <1>2, <1>3, <1>4, <1>8 DEF EngineInv, EngineTypeOK, SourcesLoaded

LEMMA EngineStep == EngineInv /\ [Engine!Next]_theEngine => EngineInv'
<1>1. ASSUME EngineInv, UNCHANGED theEngine PROVE EngineInv'
  BY <1>1 DEF theEngine, EngineInv, EngineTypeOK, SourcesLoaded, Underway
<1>2. ASSUME EngineInv, Engine!runBenchmark PROVE EngineInv'
  <2>1. /\ at = "checks" /\ benchmarks' = benchmarks - 1 /\ benchmarks' \in Nat
        /\ failures' = {} => failures = {}
        /\ UNCHANGED <<selected, at, todo, loaded, loadedFor, running, found, stopped, ran>>
    BY <1>2 DEF Engine!runBenchmark, EngineInv, EngineTypeOK
  <2> QED BY <1>2, <2>1 DEF EngineInv, EngineTypeOK, SourcesLoaded, Underway
<1>3. ASSUME EngineInv, Engine!finalizeResult PROVE EngineInv'
  BY <1>3 DEF Engine!finalizeResult, EngineInv, EngineTypeOK, SourcesLoaded, Underway
<1> QED BY <1>1, <1>2, <1>3, EngineSetupStep, EngineLoadStep, EngineStartStep, EngineBatchStep, EngineEndStep DEF Engine!Next
 
LEMMA EngineIsComplete == EngineInv => Engine!CompleteOrSaid
  BY DEF EngineInv, EngineTypeOK, Underway, Engine!CompleteOrSaid

-----------------------------------------------------------------------------
(* AnalyzeScope: what was asked for, is there and can be looked at is in the scope or *)
(* has yet to be expanded, then is in the scope; of the scope what is of the category *)
(* is loaded or has yet to be.                                                       *)
Wanted == {f \in Scope!Asked \ Scope!Overlooked : Scope!eligibleScopePath(f)}
OwnHunk(f, given) == f \in given[f] /\ \A g \in given[f] : g = f \/ change[g] \in {"quoted", "deleted"}
OfCategory == {f \in scope : Scope!sourceCategory(f) \in select}

ScopeTypeOK ==
  /\ disk \in [Scope!Files -> Nat] /\ change \in [Scope!Files -> Scope!Changes]
  /\ scopeAsked \in Scope!Requests /\ bytes \in Nat
  /\ scopeAt \in {"resolve", "project", "read", "loaded", "failed"}

Expanding ==
  scopeAt = "resolve" /\ scopeAsked.mode = "paths" =>
    /\ left \subseteq scopeAsked.paths
    /\ \A f \in Wanted : disk[f] > 0 => f \in scope \/ f \in left \/ (f \in InDir /\ Dir \in left)

Expanded ==
  scopeAt \in {"project", "read", "loaded"} =>
    /\ \A f \in Wanted : disk[f] > 0 => f \in scope
    /\ scopeAsked.mode = "diff" => \A f \in scope : OwnHunk(f, hunks)

Loading ==
  /\ scopeAt \in {"resolve", "project"} => sources = {}
  /\ scopeAt \in {"read", "loaded"} => OfCategory = left \cup sources /\ Scope!Cardinality(OfCategory) <= MaxFiles
  /\ scopeAt = "loaded" => left = {}
  /\ bytes <= MaxTotalBytes

ScopeInv == ScopeTypeOK /\ scope \subseteq Wanted /\ Expanding /\ Expanded /\ Loading

-----------------------------------------------------------------------------
LEMMA ScopeFiles ==
  /\ Scope!Files = {Paths[i] : i \in DOMAIN Paths} /\ IsFiniteSet(Scope!Files) /\ Dir \notin Scope!Files
  /\ DOMAIN Paths \subseteq Int /\ InDir \subseteq Scope!Files
<1>1. Scope!Files = {Paths[i] : i \in DOMAIN Paths}
  BY DEF Scope!Files, Scope!ToSet
<1>2. Len(Paths) \in Nat /\ DOMAIN Paths = 1..Len(Paths)
  BY ScopeAssumption, LenProperties
<1>3. IsFiniteSet(DOMAIN Paths)
  BY <1>2, FS_Interval
<1>4. IsFiniteSet({Paths[i] : i \in DOMAIN Paths})
  <2>1. Paths \in Surjection(DOMAIN Paths, {Paths[i] : i \in DOMAIN Paths})
    BY <1>2, ScopeAssumption DEF Surjection
  <2> QED BY <1>3, <2>1, FS_Surjection
<1> QED BY <1>1, <1>2, <1>4, ScopeAssumption

LEMMA ScopeCardinality == \A S : Scope!Cardinality(S) = Cardinality(S)
  BY DEF Scope!Cardinality, Cardinality, Scope!IsFiniteSet, IsFiniteSet

LEMMA AskedAreFiles == scopeAsked \in Scope!Requests => Scope!Asked \subseteq Scope!Files
  BY ScopeFiles DEF Scope!Requests, Scope!Asked

LEMMA ScopeInit == Scope!Init => ScopeInv
<1> SUFFICES ASSUME Scope!Init PROVE ScopeInv
  OBVIOUS
<1>1. ScopeTypeOK
  BY ScopeAssumption DEF Scope!Init, ScopeTypeOK, Scope!Changes
<1>2. \A f \in Wanted : scopeAsked.mode = "paths" => f \in left \/ (f \in InDir /\ Dir \in left)
  BY DEF Scope!Init, Wanted, Scope!Asked, Scope!Overlooked
<1> QED BY <1>1, <1>2, ScopeAssumption DEF Scope!Init, ScopeInv, Expanding, Expanded, Loading

LEMMA ScopeFails == ScopeInv /\ Scope!Failed => ScopeInv'
  BY DEF Scope!Failed, ScopeInv, ScopeTypeOK, Wanted, Scope!Asked, Scope!Overlooked, Expanding, Expanded, Loading

(* What is edited away is no longer asked for. *)
LEMMA EditStep == ScopeInv /\ Scope!Edit => ScopeInv'
<1> SUFFICES ASSUME ScopeInv, Scope!Edit PROVE ScopeInv'
  OBVIOUS
<1>1. PICK f \in Scope!Files, length \in Nat : disk[f] > 0 /\ disk' = [disk EXCEPT ![f] = length]
  BY ScopeAssumption DEF Scope!Edit
<1>2. UNCHANGED <<change, scopeAsked, select, scopeAt, left, scope, hunks, sources, bytes>> /\ scopeAt # "resolve"
  BY DEF Scope!Edit
<1>3. disk' \in [Scope!Files -> Nat] /\ \A x \in Scope!Files : disk'[x] > 0 => disk[x] > 0
  BY <1>1 DEF ScopeInv, ScopeTypeOK
<1>4. Wanted' = Wanted /\ Wanted \subseteq Scope!Files /\ OfCategory' = OfCategory
  BY <1>2, AskedAreFiles DEF Wanted, OfCategory, Scope!Asked, Scope!Overlooked, ScopeInv, ScopeTypeOK
<1>5. ScopeTypeOK' /\ Loading'
  BY <1>2, <1>3, <1>4 DEF ScopeInv, ScopeTypeOK, Loading
<1> QED BY <1>2, <1>3, <1>4, <1>5 DEF ScopeInv, Expanding, Expanded, OwnHunk

(* An expanded path leaves what can be looked at in the scope. *)
LEMMA ExpandStep == ScopeInv /\ Scope!expandExplicitPath => ScopeInv'
<1> SUFFICES ASSUME ScopeInv, Scope!expandExplicitPath PROVE ScopeInv'
  OBVIOUS
<1> DEFINE walked(p) == IF p = Dir THEN Scope!walkDirectory ELSE {}
           added(p) == IF p = Dir THEN UNION {Scope!addAnalyzableFile(f) : f \in walked(p) \ Skipped}
                       ELSE IF disk[p] = 0 \/ p \in Skipped THEN {} ELSE Scope!addAnalyzableFile(p)
<1>1. /\ scopeAt = "resolve" /\ scopeAsked.mode = "paths" /\ left \subseteq scopeAsked.paths /\ sources = {}
      /\ scopeAsked.paths \subseteq Scope!Files \cup {Dir}
  BY DEF Scope!expandExplicitPath, ScopeInv, Expanding, Loading, ScopeTypeOK, Scope!Requests
<1>2. CASE Scope!Failed
  BY <1>2, ScopeFails
<1>3. CASE ~Scope!Failed
  <2>1. PICK p \in left :
          /\ left' = left \ {p} /\ scope' = scope \cup added(p)
          /\ UNCHANGED <<disk, change, scopeAsked, select, scopeAt, hunks, sources, bytes, edits>>
    BY <1>3, Zenon DEF Scope!expandExplicitPath
  <2>2. \A f \in added(p) : /\ f \notin Unanalyzable \cup Skipped
                            /\ IF p = Dir THEN f \in InDir ELSE f = p
    BY DEF Scope!addAnalyzableFile, Scope!walkDirectory
  <2>3. \A f \in Wanted : disk[f] > 0 /\ (f = p \/ (p = Dir /\ f \in InDir)) => f \in added(p)
    <3> SUFFICES ASSUME NEW f \in Wanted, disk[f] > 0, f = p \/ (p = Dir /\ f \in InDir) PROVE f \in added(p)
      OBVIOUS
    <3>1. f \notin Unanalyzable /\ f \notin Skipped /\ f \in Scope!Files /\ f # Dir /\ disk[f] \in Nat
      BY AskedAreFiles, ScopeFiles DEF Wanted, Scope!eligibleScopePath, ScopeInv, ScopeTypeOK
    <3>2. CASE p = Dir
      <4>1. f \in Scope!walkDirectory \ Skipped /\ f \in Scope!addAnalyzableFile(f)
        BY <3>1, <3>2 DEF Scope!walkDirectory, Scope!addAnalyzableFile
      <4> QED BY <3>2, <4>1
    <3>3. CASE p # Dir
      BY <3>1, <3>3 DEF Scope!addAnalyzableFile
    <3> QED BY <3>2, <3>3
  <2> HIDE DEF added
  <2>4. Wanted' = Wanted
    BY <2>1 DEF Wanted, Scope!Asked, Scope!Overlooked
  <2>5. added(p) \subseteq Wanted
    BY <1>1, <2>1, <2>2 DEF Wanted, Scope!Asked, Scope!Overlooked, Scope!eligibleScopePath
  <2>6. ScopeTypeOK' /\ Loading' /\ Expanded'
    BY <1>1, <2>1 DEF ScopeInv, ScopeTypeOK, Loading, Expanded
  <2>7. Expanding'
    BY <1>1, <2>1, <2>3, <2>4 DEF ScopeInv, Expanding
  <2> QED BY <2>1, <2>4, <2>5, <2>6, <2>7 DEF ScopeInv
<1> QED BY <1>2, <1>3

(* A header that was recognized has its own hunks, and of others only what has none. *)
LEMMA OwnHunks ==
  ASSUME NEW f \in DOMAIN Scope!parseUnifiedHunks
  PROVE  OwnHunk(f, Scope!parseUnifiedHunks) /\ f \in Scope!Files
<1> DEFINE Header(i) == Scope!Max({j \in Scope!Headers : j <= i})
           Own(x) == {i \in Scope!Sections : (\E j \in Scope!Headers : j <= i) /\ Paths[Header(i)] = x}
<1>1. PICK i \in Scope!Headers : f = Paths[i]
  BY DEF Scope!parseUnifiedHunks
<1>2. \A k \in Scope!Headers : k \in Scope!Sections /\ k \in Int /\ k \in DOMAIN Paths
  BY ScopeFiles DEF Scope!Headers, Scope!Sections
<1>3. ASSUME NEW k \in Scope!Headers PROVE Header(k) = k
  <2> DEFINE T == {j \in Scope!Headers : j <= k}
  <2>1. T \subseteq Int /\ k \in T /\ \A j \in T : j <= k
    BY <1>2
  <2> HIDE DEF T
  <2>2. \E x \in T : \A y \in T : x >= y
    BY <1>2, <2>1
  <2>3. Scope!Max(T) \in T /\ \A y \in T : Scope!Max(T) >= y
    BY <2>2 DEF Scope!Max
  <2> DEFINE m == Scope!Max(T)
  <2>4. m \in Int /\ m <= k /\ m >= k
    BY <2>1, <2>3
  <2> HIDE DEF m
  <2>5. m = k
    BY <1>2, <2>4
  <2> QED BY <2>5 DEF T, m
<1>4. i \in Own(f)
  BY <1>1, <1>2, <1>3
<1>5. Scope!parseUnifiedHunks[f] = {Paths[j] : j \in Own(f)}
  BY <1>1 DEF Scope!parseUnifiedHunks
<1>6. \A k \in Own(f) : k \in Scope!Headers => Paths[k] = f
  BY <1>3
<1>7. \A k \in Own(f) : k \notin Scope!Headers => change[Paths[k]] \in {"quoted", "deleted"}
  BY DEF Scope!Headers, Scope!Sections
<1> HIDE DEF Own
<1> QED BY <1>1, <1>2, <1>4, <1>5, <1>6, <1>7, ScopeFiles DEF OwnHunk

LEMMA DiffStep == ScopeInv /\ Scope!resolveDiff => ScopeInv'
<1> SUFFICES ASSUME ScopeInv, Scope!resolveDiff PROVE ScopeInv'
  OBVIOUS
<1> DEFINE given == Scope!parseUnifiedHunks
           changed == {f \in DOMAIN given : change[f] = "plain" /\ Scope!eligibleScopePath(f)}
           untracked == {f \in Scope!Files : change[f] = "untracked" /\ Scope!eligibleScopePath(f)}
<1>1. scopeAt = "resolve" /\ scopeAsked.mode = "diff" /\ sources = {}
  BY DEF Scope!resolveDiff, ScopeInv, Loading
<1>2. CASE Scope!Failed
  BY <1>2, ScopeFails
<1>3. CASE ~Scope!Failed
  <2>1. /\ hunks' = [f \in changed \cup untracked |-> IF f \in untracked THEN {f} ELSE given[f]]
        /\ scope' = changed \cup untracked /\ scopeAt' = "project"
        /\ UNCHANGED <<disk, change, scopeAsked, select, left, entries, sources, bytes, edits>>
    BY <1>3, Zenon DEF Scope!resolveDiff
  <2>2. \A f \in changed : OwnHunk(f, given) /\ f \in Scope!Files /\ change[f] = "plain"
    BY OwnHunks
  <2>3. \A f \in Scope!Files : change[f] = "plain" => f \in DOMAIN given
    <3> SUFFICES ASSUME NEW f \in Scope!Files, change[f] = "plain" PROVE f \in DOMAIN given
      OBVIOUS
    <3>1. PICK i \in DOMAIN Paths : f = Paths[i]
      BY ScopeFiles
    <3>2. i \in Scope!Headers
      BY <3>1 DEF Scope!Headers, Scope!Sections
    <3> QED BY <3>1, <3>2 DEF Scope!parseUnifiedHunks
  <2> HIDE DEF given
  <2>4. Wanted = changed \cup untracked
    BY <1>1, <2>2, <2>3 DEF Wanted, Scope!Asked, Scope!Overlooked, ScopeInv, ScopeTypeOK, Scope!Changes
  <2>5. \A f \in scope' : OwnHunk(f, hunks)'
    BY <2>1, <2>2 DEF OwnHunk
  <2>6. Wanted' = Wanted
    BY <2>1 DEF Wanted, Scope!Asked, Scope!Overlooked
  <2> HIDE DEF changed, untracked
  <2>7. ScopeTypeOK' /\ Loading' /\ Expanding'
    BY <1>1, <2>1 DEF ScopeInv, ScopeTypeOK, Loading, Expanding
  <2> QED BY <2>1, <2>4, <2>5, <2>6, <2>7 DEF ScopeInv, Expanded
<1> QED BY <1>2, <1>3

LEMMA ProjectStep ==
  ASSUME ScopeInv, Scope!resolved \/ Scope!createExplicitSyntaxProject \/ Scope!readSource \/ Scope!loaded
  PROVE  ScopeInv'
<1>1. CASE Scope!Failed
  BY <1>1, ScopeFails
<1>2. ASSUME UNCHANGED <<disk, change, scopeAsked, select, scope, hunks>>, scopeAt' \in {"project", "read", "loaded"},
             scopeAt \in {"project", "read", "loaded"} \/ (scopeAt = "resolve" /\ scopeAsked.mode = "paths" /\ left = {}),
             bytes' \in Nat, Loading'
      PROVE  ScopeInv'
  <2>1. Wanted' = Wanted
    BY <1>2 DEF Wanted, Scope!Asked, Scope!Overlooked
  <2>2. Expanded'
    BY <1>2, <2>1 DEF ScopeInv, Expanding, Expanded, OwnHunk
  <2> QED BY <1>2, <2>1, <2>2 DEF ScopeInv, ScopeTypeOK, Expanding
<1>3. CASE Scope!resolved
  <2>1. Loading'
    BY <1>3 DEF Scope!resolved, ScopeInv, Loading
  <2> QED BY <1>2, <1>3, <2>1 DEF Scope!resolved, ScopeInv, ScopeTypeOK
<1>4. CASE Scope!createExplicitSyntaxProject /\ ~Scope!Failed
  <2>1. /\ scopeAt = "project" /\ left' = OfCategory /\ scopeAt' = "read" /\ ~(Scope!Cardinality(OfCategory) > MaxFiles)
        /\ UNCHANGED <<disk, change, scopeAsked, select, entries, scope, hunks, sources, bytes, edits>>
    BY <1>4 DEF Scope!createExplicitSyntaxProject, OfCategory
  <2>2. OfCategory' = OfCategory /\ IsFiniteSet(OfCategory)
    <3>1. OfCategory \subseteq Scope!Files
      BY AskedAreFiles DEF OfCategory, ScopeInv, ScopeTypeOK, Wanted
    <3> QED BY <2>1, <3>1, ScopeFiles, FS_Subset DEF OfCategory
  <2>3. Scope!Cardinality(OfCategory) <= MaxFiles
    BY <2>1, <2>2, ScopeAssumption, ScopeCardinality, FS_CardinalityType
  <2>4. Loading'
    BY <2>1, <2>2, <2>3 DEF ScopeInv, Loading
  <2> QED BY <1>2, <2>1, <2>4 DEF ScopeInv, ScopeTypeOK
<1>5. CASE Scope!readSource /\ ~Scope!Failed
  <2>1. PICK f \in left :
          /\ ~(bytes + disk[f] > MaxTotalBytes) /\ left' = left \ {f} /\ sources' = sources \cup {f} /\ bytes' = bytes + disk[f]
          /\ UNCHANGED <<disk, change, scopeAsked, select, scopeAt, entries, scope, hunks, edits>>
    BY <1>5 DEF Scope!readSource
  <2>2. scopeAt = "read" /\ OfCategory = left \cup sources /\ OfCategory' = OfCategory
    BY <1>5, <2>1 DEF Scope!readSource, ScopeInv, Loading, OfCategory
  <2>3. disk[f] \in Nat /\ bytes \in Nat
    BY <2>2, AskedAreFiles DEF OfCategory, ScopeInv, ScopeTypeOK, Wanted
  <2>4. bytes' \in Nat /\ bytes' <= MaxTotalBytes
    BY <2>1, <2>3, ScopeAssumption
  <2>5. Loading'
    BY <2>1, <2>2, <2>4 DEF ScopeInv, Loading
  <2> QED BY <1>2, <2>1, <2>2, <2>4, <2>5 DEF ScopeInv, ScopeTypeOK
<1>6. CASE Scope!loaded
  <2>1. scopeAt = "read" /\ left = {} /\ scopeAt' = "loaded" /\ UNCHANGED <<disk, change, scopeAsked, select, left, scope, hunks, sources, bytes>>
    BY <1>6 DEF Scope!loaded
  <2>2. OfCategory' = OfCategory
    BY <2>1 DEF OfCategory
  <2>3. Loading'
    BY <2>1, <2>2 DEF ScopeInv, Loading
  <2> QED BY <1>2, <2>1, <2>3 DEF ScopeInv, ScopeTypeOK
<1> QED BY <1>1, <1>3, <1>4, <1>5, <1>6

LEMMA ScopeStep == ScopeInv /\ [Scope!Next]_theScope => ScopeInv'
<1>1. ASSUME ScopeInv, UNCHANGED theScope PROVE ScopeInv'
  BY <1>1 DEF theScope, ScopeInv, ScopeTypeOK, Wanted, OfCategory, Scope!Asked, Scope!Overlooked, Expanding, Expanded, OwnHunk, Loading
<1> QED BY <1>1, ScopeFails, EditStep, ExpandStep, DiffStep, ProjectStep DEF Scope!Next, Scope!gitFails

LEMMA ScopeIsWhole == ScopeInv => Scope!ScopeIsLoaded
<1> SUFFICES ASSUME ScopeInv, scopeAt = "loaded" PROVE Scope!ScopeIsLoaded
  BY DEF Scope!ScopeIsLoaded
<1>1. sources = OfCategory /\ Scope!Cardinality(OfCategory) <= MaxFiles /\ bytes <= MaxTotalBytes
  BY DEF ScopeInv, Loading
<1>2. \A f \in sources : f \in Scope!Asked \ Scope!Overlooked /\ Scope!eligibleScopePath(f) /\ Scope!sourceCategory(f) \in select
  BY <1>1 DEF OfCategory, ScopeInv, Wanted
<1>3. \A f \in Scope!Asked \ Scope!Overlooked : disk[f] > 0 /\ Scope!eligibleScopePath(f) /\ Scope!sourceCategory(f) \in select => f \in sources
  BY <1>1 DEF OfCategory, ScopeInv, Wanted, Expanded
<1>4. scopeAsked.mode = "diff" => \A f \in scope : OwnHunk(f, hunks)
  BY DEF ScopeInv, Expanded
<1> QED BY <1>1, <1>2, <1>3, <1>4 DEF Scope!ScopeIsLoaded, OwnHunk

LEMMA EngineMove == [MC_Next]_<<focus, theLock, theProcess, theRun, theProtocol, theEngine, theScope, theJournal>>
                      => [Engine!Next]_theEngine
  BY DEF MC_Next

LEMMA ScopeMove == [MC_Next]_<<focus, theLock, theProcess, theRun, theProtocol, theEngine, theScope, theJournal>>
                      => [Scope!Next]_theScope
  BY DEF MC_Next

LEMMA LeastNat ==
  ASSUME NEW T \in SUBSET Nat, T # {}
  PROVE  \E m \in T : \A n \in T : m <= n
<1>1. PICK m \in T : \A n \in T : <<n, m>> \notin OpToRel(<, Nat)
  BY NatLessThanWellFounded, WFMin
<1>2. \A n \in T : ~(n < m)
  BY <1>1, Zenon DEF OpToRel
<1> QED BY <1>2

-----------------------------------------------------------------------------
(* AnalyzeProtocol: each value is what the step before made of the one before. *)
SafeFindings == {r \in Protocol!AnyFinding : r.message <= MaxMessage /\ Len(r.related) <= MaxRelated}
SafeFailures == {r \in Protocol!AnyFailure : r.message <= MaxMessage}

ProtocolInv ==
  /\ asked \in Protocol!PublicRequests /\ step \in {"ask", "send", "work", "bound", "accept", "done"}
  /\ policy = IF step = "ask" THEN Protocol!Nothing ELSE Protocol!classifyAnalyzeRequest(asked)
  /\ step \in {"ask", "send"} => received = Protocol!Nothing
  /\ step \notin {"ask", "send"} => policy.tag = "safe" /\ received = Protocol!parseAnalyzeWorkerRequest(policy)
  /\ step \in {"bound", "accept", "done"} =>
       produced.findings \in Seq(Findings) /\ produced.failures \in Seq(Failures)
  /\ step \in {"accept", "done"} => sent = Protocol!boundedResult(produced)
  /\ accepted = IF step = "done" THEN Protocol!parseAnalysisResult(sent) ELSE Protocol!Nothing

LEMMA ProtocolInit == Protocol!Init => ProtocolInv
  BY DEF Protocol!Init, ProtocolInv

LEMMA ProtocolStep == ProtocolInv /\ [Protocol!Next]_theProtocol => ProtocolInv'
<1> SUFFICES ASSUME ProtocolInv, [Protocol!Next]_theProtocol PROVE ProtocolInv'
  OBVIOUS
<1>1. CASE UNCHANGED theProtocol
  BY <1>1 DEF theProtocol, ProtocolInv
<1>2. CASE Protocol!Classify
  BY <1>2 DEF Protocol!Classify, ProtocolInv
<1>3. CASE Protocol!Receive
  BY <1>3 DEF Protocol!Receive, ProtocolInv
<1>4. CASE Protocol!Work
  <2>0. PICK n \in 0..MaxProduced, m \in 0..MaxProduced :
          \E f \in [1..n -> Findings], g \in [1..m -> Failures] : produced' = [findings |-> f, failures |-> g]
    BY <1>4 DEF Protocol!Work
  <2>1. PICK f \in [1..n -> Findings], g \in [1..m -> Failures] : produced' = [findings |-> f, failures |-> g]
    BY <2>0
  <2>2. f \in Seq(Findings) /\ g \in Seq(Failures)
    OBVIOUS
  <2>3. produced'.findings \in Seq(Findings) /\ produced'.failures \in Seq(Failures)
    BY <2>1, <2>2
  <2> QED BY <1>4, <2>3 DEF Protocol!Work, ProtocolInv
<1>5. CASE Protocol!Bound
  BY <1>5 DEF Protocol!Bound, ProtocolInv
<1>6. CASE Protocol!Accept
  BY <1>6 DEF Protocol!Accept, ProtocolInv
<1> QED BY <1>1, <1>2, <1>3, <1>4, <1>5, <1>6 DEF Protocol!Next

-----------------------------------------------------------------------------
(* The request *)

LEMMA Smallest ==
  ASSUME NEW a \in Int, NEW b \in Int
  PROVE  Protocol!Min({a, b}) = IF a <= b THEN a ELSE b
<1>1. \E x \in {a, b} : \A y \in {a, b} : x <= y
  OBVIOUS
<1>2. Protocol!Min({a, b}) \in {a, b} /\ \A y \in {a, b} : Protocol!Min({a, b}) <= y
  BY <1>1 DEF Protocol!Min
<1> DEFINE m == Protocol!Min({a, b})
<1>3. m \in {a, b} /\ m <= a /\ m <= b
  BY <1>2
<1> HIDE DEF m
<1>4. m = IF a <= b THEN a ELSE b
  BY <1>3
<1> QED BY <1>4 DEF m

LEMMA Largest ==
  ASSUME NEW a \in Int, NEW b \in Int
  PROVE  Protocol!Max({a, b}) = IF a >= b THEN a ELSE b
<1>1. \E x \in {a, b} : \A y \in {a, b} : x >= y
  OBVIOUS
<1>2. Protocol!Max({a, b}) \in {a, b} /\ \A y \in {a, b} : Protocol!Max({a, b}) >= y
  BY <1>1 DEF Protocol!Max
<1> DEFINE m == Protocol!Max({a, b})
<1>3. m \in {a, b} /\ m >= a /\ m >= b
  BY <1>2
<1> HIDE DEF m
<1>4. m = IF a >= b THEN a ELSE b
  BY <1>3
<1> QED BY <1>4 DEF m

(* What is safe asks for no more, and the worker takes it. *)
LEMMA SafeIsTaken ==
  ASSUME NEW r \in Protocol!PublicRequests, Protocol!classifyAnalyzeRequest(r).tag = "safe"
  PROVE  /\ r.capability = "none" /\ r.checks = "safe" /\ r.scope # "all"
         /\ Protocol!parseAnalyzeWorkerRequest(Protocol!classifyAnalyzeRequest(r)) # Protocol!Refused
<1> DEFINE scope_ == Protocol!parseScopeSelection(r.scope, r.paths, r.ref)
           p == [tag |-> "safe", scope |-> scope_, paths |-> r.paths, ref |-> r.ref, checks |-> r.checks,
                 timeout |-> Protocol!parseSafeLimits(r.timeout)]
<1>1. /\ Protocol!classifyAnalyzeRequest(r) = p
      /\ r.timeout # 0 /\ r.capability \notin {"invalid", "strict"} /\ scope_ \notin {"invalid", "all"}
      /\ Protocol!parseChecks(r.checks) \notin {"invalid", "strict"}
  BY DEF Protocol!classifyAnalyzeRequest, Protocol!Invalid, Protocol!Strict
<1>2. r.checks = "safe"
  BY <1>1 DEF Protocol!parseChecks
<1>3. r.capability = "none" /\ r.timeout \in Nat \cup {-1}
  BY <1>1, ProtocolAssumption DEF Protocol!PublicRequests, Protocol!Unset
<1>4. /\ r.scope # "all"
      /\ \/ scope_ = "diff" /\ r.paths = Protocol!Omitted /\ r.ref \in {Protocol!Omitted, "valid"}
         \/ scope_ = "paths" /\ r.ref = Protocol!Omitted /\ r.paths = "inside"
  BY <1>1 DEF Protocol!parseScopeSelection, Protocol!Omitted
<1>5. Protocol!parseSafeLimits(r.timeout) \in 1..MaxTimeout
  <2>1. MaxTimeout \in Nat /\ MaxTimeout >= 1
    BY ProtocolAssumption
  <2>2. CASE r.timeout = -1
    BY <2>1, <2>2 DEF Protocol!parseSafeLimits, Protocol!Unset
  <2>3. CASE r.timeout # -1
    <3> DEFINE t == Protocol!Max({1, r.timeout})
    <3>1. r.timeout \in Nat
      BY <1>3, <2>3
    <3>2. t = IF 1 >= r.timeout THEN 1 ELSE r.timeout
      BY <3>1, Largest
    <3> HIDE DEF t
    <3>3. t \in Nat /\ t >= 1
      BY <3>1, <3>2
    <3>4. Protocol!Min({MaxTimeout, t}) = IF MaxTimeout <= t THEN MaxTimeout ELSE t
      BY <2>1, <3>3, Smallest
    <3>5. Protocol!parseSafeLimits(r.timeout) = Protocol!Min({MaxTimeout, t})
      BY <2>3 DEF Protocol!parseSafeLimits, Protocol!Unset, t
    <3> QED BY <2>1, <3>3, <3>4, <3>5
  <2> QED BY <2>2, <2>3
<1> HIDE DEF scope_
<1>6. Protocol!parseAnalyzeWorkerRequest(p) = p
  BY <1>2, <1>4, <1>5 DEF Protocol!parseAnalyzeWorkerRequest, Protocol!parseRequestScope, Protocol!validRequestLimits
<1>7. p # Protocol!Refused
  BY DEF Protocol!Refused
<1> QED BY <1>1, <1>2, <1>3, <1>4, <1>6, <1>7

-----------------------------------------------------------------------------
(* The result *)

LEMMA BytesOfNone == Protocol!Bytes(<<>>) = 0
<1> DEFINE F(iter) == iter = [s \in SUBSET {} |-> IF s = {} THEN 0 ELSE iter[s \ {Protocol!Max(s)}] + <<>>[Protocol!Max(s)].message]
<1>1. DOMAIN <<>> = {}
  OBVIOUS
<1>2. Protocol!Bytes(<<>>) = (CHOOSE iter : F(iter))[{}]
  BY <1>1 DEF Protocol!Bytes, Protocol!FoldLeft, Protocol!MapThenFoldSet
<1>3. F([s \in SUBSET {} |-> 0])
  OBVIOUS
<1>4. F(CHOOSE iter : F(iter))
  <2> HIDE DEF F
  <2> QED BY <1>3
<1>5. ASSUME NEW iter, F(iter) PROVE iter[{}] = 0
  BY <1>5
<1> HIDE DEF F
<1> QED BY <1>2, <1>4, <1>5

LEMMA BytesOfOne ==
  ASSUME NEW r, r.message \in Int
  PROVE  Protocol!Bytes(<<r>>) = r.message
<1> DEFINE F(iter) == iter = [s \in SUBSET {1} |-> IF s = {} THEN 0 ELSE iter[s \ {Protocol!Max(s)}] + <<r>>[Protocol!Max(s)].message]
<1>1. DOMAIN <<r>> = {1} /\ <<r>>[1] = r
  OBVIOUS
<1>2. Protocol!Bytes(<<r>>) = (CHOOSE iter : F(iter))[{1}]
  BY <1>1 DEF Protocol!Bytes, Protocol!FoldLeft, Protocol!MapThenFoldSet
<1>3. Protocol!Max({1}) = 1
  BY Largest
<1>4. \A s \in SUBSET {1} : s = {} \/ s = {1}
  OBVIOUS
<1> DEFINE w == [s \in SUBSET {1} |-> IF s = {} THEN 0 ELSE r.message]
<1>5. F(w)
  <2>1. \A s \in SUBSET {1} : w[s] = IF s = {} THEN 0 ELSE w[s \ {Protocol!Max(s)}] + <<r>>[Protocol!Max(s)].message
    <3>1. w[{}] = 0 /\ w[{1}] = r.message /\ {1} \ {1} = {} /\ 0 + r.message = r.message
      OBVIOUS
    <3> HIDE DEF w
    <3> SUFFICES ASSUME NEW s \in SUBSET {1}
                 PROVE  w[s] = IF s = {} THEN 0 ELSE w[s \ {Protocol!Max(s)}] + <<r>>[Protocol!Max(s)].message
      OBVIOUS
    <3>2. CASE s = {}
      BY <3>1, <3>2
    <3>3. CASE s = {1}
      BY <1>1, <1>3, <3>1, <3>3
    <3> QED BY <1>4, <3>2, <3>3
  <2> QED BY <2>1
<1>6. F(CHOOSE iter : F(iter))
  <2> HIDE DEF F, w
  <2> QED BY <1>5
<1>7. ASSUME NEW iter, F(iter) PROVE iter[{1}] = r.message
  <2>1. iter[{}] = 0
    BY <1>7
  <2>2. iter[{1}] = iter[{1} \ {Protocol!Max({1})}] + <<r>>[Protocol!Max({1})].message
    BY <1>7
  <2>3. {1} \ {1} = {}
    OBVIOUS
  <2> QED BY <1>1, <1>3, <2>1, <2>2, <2>3
<1> HIDE DEF F
<1> QED BY <1>2, <1>6, <1>7

(* What is taken of a list is bounded and safe. *)
LEMMA SafeFinding ==
  ASSUME NEW r \in Findings
  PROVE  Protocol!safeFinding(r) \in SafeFindings /\ Protocol!safeFinding(r).severity = r.severity
<1>1. r \in Protocol!AnyFinding /\ MaxMessage \in Nat /\ MaxRelated \in Nat
  BY ProtocolAssumption
<1> DEFINE m == Protocol!Min({r.message, MaxMessage})
           n == Protocol!Min({Len(r.related), MaxRelated})
           related == SubSeq(r.related, 1, n)
<1>2. r.message \in Nat /\ r.related \in Seq(Protocol!Locations) /\ Len(r.related) \in Nat
  BY <1>1 DEF Protocol!AnyFinding
<1>3. m = (IF r.message <= MaxMessage THEN r.message ELSE MaxMessage)
      /\ n = (IF Len(r.related) <= MaxRelated THEN Len(r.related) ELSE MaxRelated)
  BY <1>1, <1>2, Smallest
<1> HIDE DEF m, n
<1>4. m \in Nat /\ m <= MaxMessage /\ n \in Nat /\ n <= MaxRelated /\ n <= Len(r.related)
  BY <1>1, <1>2, <1>3
<1>5. related \in Seq(Protocol!Locations) /\ Len(related) = IF 1 <= n THEN n - 1 + 1 ELSE 0
  <2>1. \A i \in 1..n : r.related[i] \in Protocol!Locations
    BY <1>2, <1>4
  <2> QED BY <1>2, <1>4, <2>1, SubSeqProperties
<1>6. Len(related) <= MaxRelated
  BY <1>1, <1>4, <1>5
<1>7. Protocol!safeFinding(r) = [r EXCEPT !.message = m, !.related = related]
  BY DEF Protocol!safeFinding, m, n
<1> HIDE DEF related
<1>8. [r EXCEPT !.message = m, !.related = related] \in SafeFindings
  BY <1>1, <1>4, <1>5, <1>6 DEF SafeFindings, Protocol!AnyFinding
<1>9. [r EXCEPT !.message = m, !.related = related].severity = r.severity
  BY <1>1 DEF Protocol!AnyFinding
<1> QED BY <1>7, <1>8, <1>9

LEMMA SafeFailure ==
  ASSUME NEW r \in Failures
  PROVE  Protocol!safeFailure(r) \in SafeFailures
<1>1. r \in Protocol!AnyFailure /\ r.message \in Nat /\ MaxMessage \in Nat
  BY ProtocolAssumption DEF Protocol!AnyFailure
<1>2. Protocol!Min({r.message, MaxMessage}) = IF r.message <= MaxMessage THEN r.message ELSE MaxMessage
  BY <1>1, Smallest
<1>3. Protocol!Min({r.message, MaxMessage}) \in Nat /\ Protocol!Min({r.message, MaxMessage}) <= MaxMessage
  BY <1>1, <1>2
<1> QED BY <1>1, <1>3 DEF Protocol!safeFailure, Protocol!AnyFailure, SafeFailures

(* The bounded result is a cut that fits: with everything dropped there is only     *)
(* the failure that says so.                                                        *)
LEMMA BoundedFits ==
  ASSUME NEW res, res.findings \in Seq(Findings), res.failures \in Seq(Failures)
  PROVE  \E findings \in Seq(SafeFindings), refused \in Seq(SafeFailures), dropped \in Nat :
           /\ Protocol!boundedResult(res) = Protocol!materialize(findings, refused, dropped)
           /\ Protocol!Fits(Protocol!materialize(findings, refused, dropped))
           /\ Len(findings) <= MaxFindings /\ Len(refused) <= MaxFailures - 1
           /\ dropped = 0 => /\ Len(findings) = Len(res.findings) /\ Len(refused) = Len(res.failures)
                             /\ \A i \in 1..Len(findings) : findings[i].severity = res.findings[i].severity
<1> DEFINE n == Len(res.findings)
           m == Len(res.failures)
           findings == [i \in 1 .. Protocol!Min({n, MaxFindings}) |-> Protocol!safeFinding(res.findings[i])]
           refused == [i \in 1 .. Protocol!Min({m, MaxFailures - 1}) |-> Protocol!safeFailure(res.failures[i])]
           f(k) == Protocol!Max({0, Len(findings) - k})
           g(k) == Len(refused) - (k - (Len(findings) - f(k)))
           Cut(k) == Protocol!materialize(SubSeq(findings, 1, f(k)), SubSeq(refused, 1, g(k)), n + m - f(k) - g(k))
           T == {j \in 0 .. Len(findings) + Len(refused) : Protocol!Fits(Cut(j))}
<1>1. n \in Nat /\ m \in Nat /\ MaxFindings \in Nat /\ MaxFailures - 1 \in Nat
  BY ProtocolAssumption
<1>2. /\ Protocol!Min({n, MaxFindings}) \in Nat /\ Protocol!Min({n, MaxFindings}) <= n /\ Protocol!Min({n, MaxFindings}) <= MaxFindings
      /\ Protocol!Min({m, MaxFailures - 1}) \in Nat /\ Protocol!Min({m, MaxFailures - 1}) <= m
      /\ Protocol!Min({m, MaxFailures - 1}) <= MaxFailures - 1
  <2>1. Protocol!Min({n, MaxFindings}) = IF n <= MaxFindings THEN n ELSE MaxFindings
    BY <1>1, Smallest
  <2>2. Protocol!Min({m, MaxFailures - 1}) = IF m <= MaxFailures - 1 THEN m ELSE MaxFailures - 1
    BY <1>1, Smallest
  <2> QED BY <1>1, <2>1, <2>2
<1>3. /\ findings \in Seq(SafeFindings) /\ Len(findings) = Protocol!Min({n, MaxFindings})
      /\ \A i \in 1..Len(findings) : findings[i].severity = res.findings[i].severity
  <2> DEFINE c == Protocol!Min({n, MaxFindings})
  <2>1. \A i \in 1..c : res.findings[i] \in Findings
    BY <1>1, <1>2
  <2>2. \A i \in 1..c : Protocol!safeFinding(res.findings[i]) \in SafeFindings
                       /\ Protocol!safeFinding(res.findings[i]).severity = res.findings[i].severity
    BY <2>1, SafeFinding
  <2>3. c \in Nat
    BY <1>2
  <2>4. findings = [i \in 1..c |-> Protocol!safeFinding(res.findings[i])]
    OBVIOUS
  <2> HIDE DEF c, findings
  <2>5. findings \in [1..c -> SafeFindings]
    BY <2>2, <2>4
  <2>6. findings \in Seq(SafeFindings) /\ Len(findings) = c
    BY <2>3, <2>5
  <2>7. \A i \in 1..c : findings[i].severity = res.findings[i].severity
    BY <2>2, <2>4
  <2> QED BY <2>6, <2>7 DEF c
<1>4. refused \in Seq(SafeFailures) /\ Len(refused) = Protocol!Min({m, MaxFailures - 1})
  <2> DEFINE c == Protocol!Min({m, MaxFailures - 1})
  <2>1. \A i \in 1..c : res.failures[i] \in Failures
    BY <1>1, <1>2
  <2>2. \A i \in 1..c : Protocol!safeFailure(res.failures[i]) \in SafeFailures
    BY <2>1, SafeFailure
  <2>3. c \in Nat
    BY <1>2
  <2>4. refused = [i \in 1..c |-> Protocol!safeFailure(res.failures[i])]
    OBVIOUS
  <2> HIDE DEF c, refused
  <2>5. refused \in [1..c -> SafeFailures]
    BY <2>2, <2>4
  <2>6. refused \in Seq(SafeFailures) /\ Len(refused) = c
    BY <2>3, <2>5
  <2> QED BY <2>6 DEF c
<1>5. Protocol!boundedResult(res) = Cut(Protocol!Min(T))
  BY Zenon DEF Protocol!boundedResult
<1> HIDE DEF findings, refused
<1> DEFINE a == Len(findings)
           b == Len(refused)
<1>6. a \in Nat /\ b \in Nat /\ a <= n /\ b <= m /\ a <= MaxFindings /\ b <= MaxFailures - 1
  BY <1>2, <1>3, <1>4
<1> HIDE DEF n, m, a, b
<1>7. \A k \in 0..a + b : /\ f(k) \in 0..a /\ g(k) \in 0..b /\ f(k) + g(k) = a + b - k
                          /\ n + m - f(k) - g(k) \in Nat /\ f(k) <= n /\ g(k) <= m
  <2> SUFFICES ASSUME NEW k \in 0..a + b
               PROVE  /\ f(k) \in 0..a /\ g(k) \in 0..b /\ f(k) + g(k) = a + b - k
                      /\ n + m - f(k) - g(k) \in Nat /\ f(k) <= n /\ g(k) <= m
    OBVIOUS
  <2>1. f(k) = IF 0 >= a - k THEN 0 ELSE a - k
    BY <1>6, Largest DEF a
  <2>2. g(k) = b - (k - (a - f(k)))
    BY DEF a, b
  <2> HIDE DEF f, g
  <2> QED BY <1>1, <1>6, <2>1, <2>2
<1>8. Protocol!Fits(Cut(a + b))
  <2>1. f(a + b) = 0 /\ g(a + b) = 0
    <3>1. a + b \in 0..a + b
      BY <1>6
    <3>2. f(a + b) \in 0..a /\ g(a + b) \in 0..b /\ f(a + b) + g(a + b) = a + b - (a + b)
      BY <1>7, <3>1
    <3> HIDE DEF f, g
    <3> QED BY <1>6, <3>2
  <2>2. SubSeq(findings, 1, f(a + b)) = <<>> /\ SubSeq(refused, 1, g(a + b)) = <<>>
    <3> HIDE DEF f, g
    <3> QED BY <2>1, SubSeqEmpty
  <2>3. <<>> \o <<Protocol!Truncated>> = <<Protocol!Truncated>> /\ <<>> \o <<>> = <<>>
    OBVIOUS
  <2>4. Protocol!Bytes(<<Protocol!Truncated>>) = 1
    BY BytesOfOne DEF Protocol!Truncated
  <2>5. MaxResult \in Nat /\ MaxResult >= 1
    <3>1. MaxResult \in Nat \ {0}
      BY ProtocolAssumption
    <3> QED BY <3>1
  <2> DEFINE d == n + m - f(a + b) - g(a + b)
  <2>6. /\ Cut(a + b).findings = <<>>
        /\ Cut(a + b).failures = IF d > 0 THEN <<Protocol!Truncated>> ELSE <<>>
    <3>1. Cut(a + b) = Protocol!materialize(<<>>, <<>>, d)
      BY <2>2
    <3> HIDE DEF d, Cut
    <3> QED BY <2>3, <3>1 DEF Protocol!materialize
  <2> HIDE DEF f, g, Cut, d
  <2> QED BY <2>4, <2>5, <2>6, BytesOfNone DEF Protocol!Fits
<1>9. PICK k \in T : k = Protocol!Min(T)
  <2>1. a + b \in T /\ T \subseteq Nat
    BY <1>6, <1>8 DEF a, b
  <2> HIDE DEF T
  <2>2. \E x \in T : \A y \in T : x <= y
    BY <2>1, LeastNat
  <2> QED BY <2>2 DEF Protocol!Min
<1>10. k \in 0..a + b /\ Protocol!Fits(Cut(k))
  BY DEF a, b
<1> DEFINE fs == SubSeq(findings, 1, f(k))
           gs == SubSeq(refused, 1, g(k))
<1>11. /\ fs \in Seq(SafeFindings) /\ Len(fs) = f(k) /\ gs \in Seq(SafeFailures) /\ Len(gs) = g(k)
       /\ \A i \in 1..f(k) : fs[i] = findings[i]
  <2>1. f(k) \in Nat /\ g(k) \in Nat /\ f(k) <= Len(findings) /\ g(k) <= Len(refused)
    <3> HIDE DEF f, g
    <3> QED BY <1>6, <1>7, <1>10 DEF a, b
  <2> HIDE DEF f, g
  <2>2. /\ \A i \in 1..f(k) : findings[i] \in SafeFindings
        /\ \A i \in 1..g(k) : refused[i] \in SafeFailures
    BY <1>3, <1>4, <2>1
  <2>3. /\ fs \in Seq(SafeFindings) /\ Len(fs) = IF 1 <= f(k) THEN f(k) - 1 + 1 ELSE 0
        /\ \A i \in 1..f(k) - 1 + 1 : fs[i] = findings[1 + i - 1]
    BY <2>1, <2>2, SubSeqProperties
  <2>4. gs \in Seq(SafeFailures) /\ Len(gs) = IF 1 <= g(k) THEN g(k) - 1 + 1 ELSE 0
    BY <2>1, <2>2, SubSeqProperties
  <2> HIDE DEF fs, gs
  <2> QED BY <2>1, <2>3, <2>4
<1>12. Protocol!boundedResult(res) = Protocol!materialize(fs, gs, n + m - f(k) - g(k))
  BY <1>5, <1>9
<1>13. Protocol!Fits(Protocol!materialize(fs, gs, n + m - f(k) - g(k)))
  BY <1>10
<1> DEFINE d == n + m - f(k) - g(k)
<1>14. d \in Nat /\ f(k) \in 0..a /\ g(k) \in 0..b
  BY <1>7, <1>10
<1>15. d = 0 => f(k) = n /\ g(k) = m
  <2>1. f(k) <= n /\ g(k) <= m /\ d = n + m - f(k) - g(k)
    BY <1>7, <1>10
  <2> HIDE DEF d, f, g
  <2> QED BY <1>1, <1>6, <1>14, <2>1 DEF n, m
<1> HIDE DEF fs, gs, d, f, g
<1>16. Len(fs) <= MaxFindings /\ Len(gs) <= MaxFailures - 1
  BY <1>1, <1>6, <1>11, <1>14
<1>17. d = 0 => /\ Len(fs) = Len(res.findings) /\ Len(gs) = Len(res.failures)
                /\ \A i \in 1..Len(fs) : fs[i].severity = res.findings[i].severity
  <2>1. \A i \in 1..f(k) : i \in 1..Len(findings)
    BY <1>6, <1>14 DEF a
  <2> QED BY <1>3, <1>11, <1>15, <2>1 DEF n, m
<1> QED BY <1>11, <1>12, <1>13, <1>14, <1>16, <1>17 DEF d

(* What is materialized of safe parts that fit is taken as it is, unless a record is   *)
(* overlooked, and refused then.                                                    *)
LEMMA BoundedIsTaken ==
  ASSUME NEW res, res.findings \in Seq(Findings), res.failures \in Seq(Failures)
  PROVE  LET out == Protocol!boundedResult(res) IN
         /\ Protocol!parseAnalysisResult(out) = IF Protocol!Overlooked(out) THEN Protocol!Refused ELSE out
         /\ out.summary.failures = 0 =>
              /\ res.failures = <<>> /\ Len(out.findings) = Len(res.findings)
              /\ \A i \in DOMAIN out.findings : out.findings[i].severity = res.findings[i].severity
<1>1. PICK findings \in Seq(SafeFindings), refused \in Seq(SafeFailures), dropped \in Nat :
        /\ Protocol!boundedResult(res) = Protocol!materialize(findings, refused, dropped)
        /\ Protocol!Fits(Protocol!materialize(findings, refused, dropped))
        /\ Len(findings) <= MaxFindings /\ Len(refused) <= MaxFailures - 1
        /\ dropped = 0 => /\ Len(findings) = Len(res.findings) /\ Len(refused) = Len(res.failures)
                          /\ \A i \in 1..Len(findings) : findings[i].severity = res.findings[i].severity
  BY BoundedFits
<1> DEFINE said == refused \o IF dropped > 0 THEN <<Protocol!Truncated>> ELSE <<>>
           out == [findings |-> findings, failures |-> said, summary |-> Protocol!summaryOf(findings, said)]
           Parsed == {r \in [analyzer : {"check", "supervisor"}, message : Nat, nul : BOOLEAN] : r.message <= MaxMessage}
<1>2. Protocol!boundedResult(res) = out
  BY <1>1 DEF Protocol!materialize
<1>3. Protocol!Fits(out)
  BY <1>1 DEF Protocol!materialize
<1>4. said \in Seq(Parsed) /\ Len(said) = Len(refused) + IF dropped > 0 THEN 1 ELSE 0
  <2>1. refused \in Seq(Parsed)
    <3>1. \A i \in 1..Len(refused) : refused[i] \in SafeFailures
      BY ElementOfSeq
    <3>2. SafeFailures \subseteq Parsed
      BY DEF SafeFailures, Protocol!AnyFailure
    <3>3. Len(refused) \in Nat /\ refused = [i \in 1..Len(refused) |-> refused[i]]
      BY LenProperties
    <3> HIDE DEF Parsed
    <3>4. refused \in [1..Len(refused) -> Parsed]
      BY <3>1, <3>2, <3>3
    <3> QED BY <3>3, <3>4
  <2>2. Protocol!Truncated \in Parsed
    BY ProtocolAssumption DEF Protocol!Truncated
  <2>3. <<Protocol!Truncated>> \in Seq(Parsed) /\ Len(<<Protocol!Truncated>>) = 1
    BY <2>2
  <2>4. <<>> \in Seq(Parsed) /\ Len(<<>>) = 0
    OBVIOUS
  <2> HIDE DEF Parsed
  <2> QED BY <2>1, <2>3, <2>4, ConcatProperties
<1>5. Protocol!parseBoundedArrays(out) <=> ~Protocol!Overlooked(out)
  <2>1. Len(said) <= MaxFailures
    BY <1>1, <1>4, ProtocolAssumption
  <2>2. \A x \in Protocol!ToSet(findings) :
          Protocol!parseFinding(x) <=> ~(x.message = 0 \/ x.nul \/ x.location = "bad" \/ "bad" \in Protocol!ToSet(x.related))
    <3>1. \A i \in DOMAIN findings : findings[i] \in SafeFindings
      BY LenProperties, ElementOfSeq
    <3>2. \A x \in SafeFindings :
            /\ x.severity \in Protocol!Severities /\ x.message \in Nat /\ x.message <= MaxMessage /\ x.nul \in BOOLEAN
            /\ x.location \in {"inside", "bad"} /\ Len(x.related) <= MaxRelated
      BY DEF SafeFindings, Protocol!AnyFinding, Protocol!Locations
    <3>3. MaxMessage \in Nat
      BY ProtocolAssumption
    <3> QED BY <3>1, <3>2, <3>3 DEF Protocol!ToSet, Protocol!parseFinding, Protocol!isBoundedString, Protocol!parseRelatedLocations
  <2>3. \A x \in Protocol!ToSet(said) : Protocol!parseFailure(x) <=> ~(x.message = 0 \/ x.nul)
    <3> HIDE DEF said
    <3>1. \A i \in DOMAIN said : said[i] \in Parsed
      <4> HIDE DEF Parsed
      <4> QED BY <1>4
    <3>2. MaxMessage \in Nat
      BY ProtocolAssumption
    <3> QED BY <3>1, <3>2 DEF Protocol!ToSet, Protocol!parseFailure, Protocol!isBoundedString
  <2> HIDE DEF said
  <2> QED BY <1>1, <2>1, <2>2, <2>3 DEF Protocol!parseBoundedArrays, Protocol!Overlooked
<1>6. Protocol!parseAnalysisResult(out) = IF Protocol!Overlooked(out) THEN Protocol!Refused ELSE out
  <2>1. out.summary = Protocol!summaryOf(out.findings, out.failures)
    OBVIOUS
  <2> HIDE DEF said, out
  <2> QED BY <1>3, <1>5, <2>1 DEF Protocol!parseAnalysisResult
<1>8. out.summary.failures = Len(said)
  BY DEF Protocol!summaryOf
<1>9. Len(said) = 0 => dropped = 0 /\ Len(res.failures) = 0
  BY <1>1, <1>4
<1>10. Len(res.failures) = 0 => res.failures = <<>>
  <2>1. Failures # {} \/ Failures = {}
    OBVIOUS
  <2> QED BY EmptySeq
<1> HIDE DEF said
<1> QED BY <1>1, <1>2, <1>6, <1>8, <1>9, <1>10

LEMMA ProtocolAgrees == ProtocolInv => Protocol!SidesAgree
<1> SUFFICES ASSUME ProtocolInv PROVE Protocol!SidesAgree
  OBVIOUS
<1>1. policy.tag = "safe" => /\ policy = Protocol!classifyAnalyzeRequest(asked)
                             /\ asked.capability = "none" /\ asked.checks = "safe" /\ asked.scope # "all"
                             /\ Protocol!parseAnalyzeWorkerRequest(policy) # Protocol!Refused
  BY SafeIsTaken DEF ProtocolInv, Protocol!Nothing
<1>2. Protocol!Nothing # Protocol!Refused
  BY DEF Protocol!Nothing, Protocol!Refused
<1>3. received # Protocol!Refused
  BY <1>1, <1>2 DEF ProtocolInv
<1>4. step = "done" => /\ accepted = IF Protocol!Overlooked(sent) THEN Protocol!Refused ELSE sent
                       /\ sent.summary.failures = 0 =>
                            /\ produced.failures = <<>> /\ Len(sent.findings) = Len(produced.findings)
                            /\ \A i \in DOMAIN sent.findings : sent.findings[i].severity = produced.findings[i].severity
  BY BoundedIsTaken DEF ProtocolInv
<1> QED BY <1>1, <1>3, <1>4 DEF Protocol!SidesAgree

LEMMA ProtocolMove == [MC_Next]_<<focus, theLock, theProcess, theRun, theProtocol, theEngine, theScope, theJournal>>
                      => [Protocol!Next]_theProtocol
  BY DEF MC_Next

(* A request that is called safe is one the worker takes; a result the worker has        *)
(* bounded is one the supervisor takes as it is, unless a record it keeps has an empty     *)
(* text, a NUL or a bad location, which only the supervisor looks at                       *)
(* (extensions/analyze/worker-main.ts, src/analyze/protocol.ts).                          *)
THEOREM BothSidesAgree == MC_Spec => []Protocol!SidesAgree
<1>1. MC_Init => ProtocolInv
  BY ProtocolInit DEF MC_Init
<1> QED BY <1>1, ProtocolAgrees, ProtocolStep, ProtocolMove, PTL DEF MC_Spec

(* Without a failure the report covers each check that was selected and each file asked   *)
(* for that is of the category, except the changed files whose names git quotes or writes   *)
(* with a tab, which the scope overlooks (src/analyze/engine.ts, scope.ts); and it is read    *)
(* as it was sent, or refused whole.                                                      *)
THEOREM ReportsAreComplete == MC_Spec => []ReportIsComplete
<1>1. EngineInv /\ ScopeInv => Scope!ScopeIsLoaded /\ Engine!CompleteOrSaid
  BY EngineIsComplete, ScopeIsWhole
<1>2. MC_Init => EngineInv /\ ScopeInv
  BY EngineInit, ScopeInit DEF MC_Init
<1>3. MC_Spec => [](Scope!ScopeIsLoaded /\ Engine!CompleteOrSaid)
  BY <1>1, <1>2, EngineStep, ScopeStep, EngineMove, ScopeMove, PTL DEF MC_Spec
<1> QED BY <1>3, BothSidesAgree, PTL DEF ReportIsComplete

-----------------------------------------------------------------------------
(* AnalysisJournal: the journal stays within its limits, alone or with another.    *)

JournalSteps == {"closed", "prune", "pruning", "initOpen", "reopen", "rotate", "capacity", "making", "write",
                 "ready", "disabled"}

JournalTypeOK ==
  /\ size \in Seq(Nat)
  /\ rotated \subseteq 1 .. Len(size) /\ current \in 0 .. Len(size) /\ current \notin rotated
  /\ journalStep \in [Writers -> JournalSteps] /\ after \in [Writers -> {"initOpen", "reopen"}]
  /\ line \in [Writers -> LineBytes \cup {0}] /\ handle \in [Writers -> 0 .. Len(size)]
  /\ journalBytes \in [Writers -> Nat]
  /\ journalSeen \in [Writers -> [rotated : SUBSET (1 .. Len(size)), current : BOOLEAN]]
  /\ opened \subseteq Writers /\ IsFiniteSet(opened) /\ appends \in Nat

(* Until it has opened its first file; once it has and writes to it. *)
Initial(p) == journalStep[p] = "initOpen" \/ (journalStep[p] \in {"prune", "pruning"} /\ after[p] = "initOpen")
Using(p) == journalStep[p] \in {"ready", "capacity", "making", "write"}
Active(p) == journalStep[p] \notin {"closed", "disabled"}

HandlesKnown ==
  \A p \in Writers :
    /\ Using(p) => handle[p] # 0 /\ journalBytes[p] <= JournalFileBytes
    /\ journalStep[p] \in {"capacity", "making", "write"} => /\ line[p] \in LineBytes
                                                           /\ journalBytes[p] + line[p] <= JournalFileBytes
    /\ ~Using(p) /\ journalStep[p] # "rotate" => handle[p] = 0
    /\ Initial(p) => line[p] = 0
    /\ p \notin opened => journalStep[p] = "closed"
    /\ current \notin journalSeen[p].rotated

(* Nobody has been here; while the others have opened nothing yet, the current file is  *)
(* that of the one that writes.                                                      *)
Untouched == opened = {} => rotated = {} /\ current = 0
Settled ==
  \A q \in opened : Using(q) /\ (\A p \in opened \ {q} : Initial(p)) => handle[q] = current

(* Who wrote which bytes of a file: each process those that it counts, once.  What has *)
(* been renamed is not written to again by one that opens a file later.              *)
Shares(B) ==
  /\ B \in [1 .. Len(size) -> SUBSET (opened \X (1 .. JournalFileBytes))]
  /\ \A f \in 1 .. Len(size) :
       /\ Cardinality(B[f]) = size[f]
       /\ \A b \in B[f] : /\ ~Initial(b[1])
                          /\ Active(b[1]) /\ f = current => handle[b[1]] = f
                          /\ handle[b[1]] = f => b[2] <= journalBytes[b[1]]
Shared == \E B : Shares(B)

Present == rotated \cup ({current} \ {0})
Total == Journal!TotalBytes(rotated, TRUE)

(* What a process has in its listing, and whether a file, or one with bytes, is not. *)
Listed(q) == journalSeen[q].rotated \cup (IF journalSeen[q].current THEN {current} \ {0} ELSE {})
Missing(q) == ~(Present \subseteq Listed(q))
Behind(q) == \E f \in Present \ Listed(q) : size[f] > 0

Alone ==
  \A p : opened = {p} =>
    /\ journalStep[p] # "disabled" /\ Total <= JournalTotalBytes
    /\ journalStep[p] = "write" => Total + line[p] <= JournalTotalBytes
    /\ journalStep[p] \in {"pruning", "making"} => journalSeen[p] = [rotated |-> rotated, current |-> current # 0]
    /\ journalStep[p] \in {"prune", "pruning"} \/ Cardinality(rotated) <= JournalFiles - 1

(* Of two processes, the one whose listing is out of date counts as if the other had  *)
(* written nothing since; so what the other did since stayed within the limit.        *)
Lagging(p, q) ==
  journalStep[q] = "making" /\ Missing(q) =>
    /\ handle[q] # current
    /\ journalStep[p] = "write" => Total + line[p] <= JournalTotalBytes
    /\ journalStep[p] \in {"pruning", "making"} => ~Missing(p)
    /\ Behind(q) /\ (journalStep[p] = "reopen" \/ ~Journal!StatFails(q)) => Total <= JournalTotalBytes

Pending(p) == IF journalStep[p] = "write" THEN line[p] ELSE 0
Paired ==
  \A p, q : opened = {p, q} /\ p # q =>
    /\ Total + Pending(p) + Pending(q) <= JournalTotalBytes + Journal!LongestLine
    /\ Lagging(p, q)

JournalBase == JournalTypeOK /\ HandlesKnown /\ Untouched /\ Settled
JournalInv == JournalBase /\ Shared /\ Alone /\ Paired
-----------------------------------------------------------------------------
(* The bytes of a set of files: of fewer files there are no more, an empty file has    *)
(* none, and a line adds its own.                                                    *)
Bytes(sz, files) == UNION {{f} \X (1 .. sz[f]) : f \in files}

LEMMA BytesFinite ==
  ASSUME NEW sz \in Seq(Nat), NEW files \in SUBSET DOMAIN sz
  PROVE  IsFiniteSet(Bytes(sz, files)) /\ Cardinality(Bytes(sz, files)) \in Nat
<1> DEFINE h == [f \in files |-> {f} \X (1 .. sz[f])]
           all == {{f} \X (1 .. sz[f]) : f \in files}
<1>1. IsFiniteSet(files)
  <2>1. IsFiniteSet(1 .. Len(sz))
    BY FS_Interval
  <2> QED BY <2>1, FS_Subset
<1>2. h \in Surjection(files, all)
  BY DEF Surjection
<1>3. IsFiniteSet(all)
  <2> HIDE DEF h, all
  <2> QED BY <1>1, <1>2, FS_Surjection
<1>4. ASSUME NEW f \in files PROVE IsFiniteSet({f} \X (1 .. sz[f]))
  <2>1. sz[f] \in Int
    OBVIOUS
  <2>2. IsFiniteSet({f})
    BY FS_Singleton
  <2>3. IsFiniteSet(1 .. sz[f])
    BY <2>1, FS_Interval
  <2> QED BY <2>2, <2>3, FS_Product
<1>5. \A s \in all : IsFiniteSet(s)
  BY <1>4
<1>6. IsFiniteSet(UNION all)
  <2> HIDE DEF all
  <2> QED BY <1>3, <1>5, FS_UNION
<1> QED BY <1>6, FS_CardinalityType DEF Bytes

LEMMA BytesFewer ==
  ASSUME NEW sz \in Seq(Nat), NEW F \in SUBSET DOMAIN sz, NEW G \in SUBSET DOMAIN sz,
         \A f \in F \ G : sz[f] = 0
  PROVE  Cardinality(Bytes(sz, F)) <= Cardinality(Bytes(sz, G))
<1>1. Bytes(sz, F) \subseteq Bytes(sz, G)
  BY DEF Bytes
<1> QED BY <1>1, BytesFinite, FS_Subset

LEMMA BytesOfFile ==
  ASSUME NEW sz \in Seq(Nat), NEW f \in DOMAIN sz
  PROVE  Cardinality(Bytes(sz, {f})) = sz[f]
<1>1. Bytes(sz, {f}) = {f} \X (1 .. sz[f])
  BY DEF Bytes
<1>2. sz[f] \in Nat
  OBVIOUS
<1>3. IsFiniteSet({f}) /\ Cardinality({f}) = 1
  BY FS_Singleton
<1>4. IsFiniteSet(1 .. sz[f]) /\ Cardinality(1 .. sz[f]) = sz[f]
  BY <1>2, FS_Interval
<1>5. Cardinality({f} \X (1 .. sz[f])) = 1 * sz[f]
  BY <1>3, <1>4, FS_Product
<1>6. Cardinality(Bytes(sz, {f})) = 1 * sz[f]
  BY <1>1, <1>5
<1> QED BY <1>2, <1>6

LEMMA BytesAdded ==
  ASSUME NEW sz \in Seq(Nat), NEW files \in SUBSET DOMAIN sz, NEW h \in DOMAIN sz, NEW n \in Nat
  PROVE  LET to == [sz EXCEPT ![h] = @ + n] IN
         /\ to \in Seq(Nat) /\ Len(to) = Len(sz)
         /\ Cardinality(Bytes(to, files)) <= Cardinality(Bytes(sz, files)) + n
<1> DEFINE to == [sz EXCEPT ![h] = @ + n]
           new == {h} \X (sz[h] + 1 .. sz[h] + n)
<1>1. to \in Seq(Nat) /\ Len(to) = Len(sz) /\ DOMAIN to = DOMAIN sz
  OBVIOUS
<1>2. Bytes(to, files) \subseteq Bytes(sz, files) \cup new
  BY DEF Bytes
<1>3. IsFiniteSet(new) /\ Cardinality(new) = n
  <2>1. sz[h] \in Nat
    OBVIOUS
  <2>2. IsFiniteSet({h}) /\ Cardinality({h}) = 1
    BY FS_Singleton
  <2> DEFINE a == sz[h] + 1
             b == sz[h] + n
  <2>a. a \in Int /\ b \in Int /\ (a > b => n = 0) /\ (a <= b => b - a + 1 = n)
    BY <2>1
  <2> HIDE DEF a, b
  <2>3. IsFiniteSet(a .. b) /\ Cardinality(a .. b) = n
    BY <2>a, FS_Interval
  <2> USE DEF a, b
  <2>4. IsFiniteSet(new) /\ Cardinality(new) = 1 * n
    BY <2>2, <2>3, FS_Product
  <2> QED BY <2>4
<1>4. IsFiniteSet(Bytes(sz, files) \cup new) /\ Cardinality(Bytes(sz, files) \cup new) <= Cardinality(Bytes(sz, files)) + n
  <2>1. IsFiniteSet(Bytes(sz, files)) /\ Cardinality(Bytes(sz, files)) \in Nat
    BY BytesFinite
  <2>2. IsFiniteSet(Bytes(sz, files) \cap new)
    BY <2>1, FS_Intersection
  <2>3. Cardinality(Bytes(sz, files) \cap new) \in Nat
    BY <2>2, FS_CardinalityType
  <2> HIDE DEF new
  <2>4. /\ IsFiniteSet(Bytes(sz, files) \cup new)
        /\ Cardinality(Bytes(sz, files) \cup new) = Cardinality(Bytes(sz, files)) + Cardinality(new)
                                                   - Cardinality(Bytes(sz, files) \cap new)
    BY <2>1, <1>3, FS_Union
  <2> QED BY <2>1, <2>3, <2>4, <1>3
<1>5. Cardinality(Bytes(to, files)) <= Cardinality(Bytes(sz, files) \cup new)
  <2> HIDE DEF new, to
  <2> QED BY <1>2, <1>4, FS_Subset
<1>6. Cardinality(Bytes(to, files)) \in Nat /\ Cardinality(Bytes(sz, files)) \in Nat
  <2> HIDE DEF to
  <2> QED BY <1>1, BytesFinite
<1>7. Cardinality(Bytes(sz, files) \cup new) \in Nat
  BY <1>4, FS_CardinalityType
<1> HIDE DEF to, new
<1>8. Cardinality(Bytes(to, files)) <= Cardinality(Bytes(sz, files)) + n
  BY <1>4, <1>5, <1>6, <1>7
<1> QED BY <1>1, <1>8 DEF to

LEMMA JournalCardinality == \A S : Journal!Cardinality(S) = Cardinality(S)
  BY DEF Journal!Cardinality, Cardinality, Journal!IsFiniteSet, IsFiniteSet

LEMMA TotalIs ==
  ASSUME NEW K, NEW b \in BOOLEAN
  PROVE  /\ Total = Cardinality(Bytes(size, Present)) /\ Total' = Cardinality(Bytes(size', Present'))
         /\ Journal!TotalBytes(K, b) = Cardinality(Bytes(size, K \cup (IF b THEN {current} \ {0} ELSE {})))
<1> USE JournalCardinality
<1>1. \A c : (IF TRUE /\ c # 0 THEN {c} ELSE {}) = {c} \ {0}
  OBVIOUS
<1>2. (IF b /\ current # 0 THEN {current} ELSE {}) = IF b THEN {current} \ {0} ELSE {}
  OBVIOUS
<1>3. Total = Cardinality(Bytes(size, Present))
  BY <1>1 DEF Total, Present, Journal!TotalBytes, Bytes, Journal!None
<1>4. Total' = Cardinality(Bytes(size', Present'))
  BY <1>1 DEF Total, Present, Journal!TotalBytes, Bytes, Journal!None
<1>5. Journal!TotalBytes(K, b) = Cardinality(Bytes(size, K \cup (IF b THEN {current} \ {0} ELSE {})))
  BY <1>2 DEF Journal!TotalBytes, Bytes, Journal!None
<1> QED BY <1>3, <1>4, <1>5

LEMMA TotalKnown == JournalTypeOK => Present \subseteq DOMAIN size /\ size \in Seq(Nat) /\ Total \in Nat
<1> SUFFICES ASSUME JournalTypeOK PROVE Present \subseteq DOMAIN size /\ size \in Seq(Nat) /\ Total \in Nat
  OBVIOUS
<1>1. Present \subseteq DOMAIN size /\ size \in Seq(Nat)
  BY DEF JournalTypeOK, Present
<1> QED BY <1>1, BytesFinite, TotalIs

(* Fewer files have fewer bytes. *)
LEMMA TotalFalls ==
  ASSUME JournalTypeOK, size' = size, Present' \subseteq Present
  PROVE  Total' <= Total /\ Total' \in Nat /\ Total \in Nat
<1>1. Present \subseteq DOMAIN size /\ size \in Seq(Nat) /\ Total \in Nat
  BY TotalKnown
<1>2. Total = Cardinality(Bytes(size, Present)) /\ Total' = Cardinality(Bytes(size, Present'))
  BY TotalIs
<1> QED BY <1>1, <1>2, BytesFewer, BytesFinite

LEMMA LongestKnown ==
  /\ Journal!LongestLine \in Nat
  /\ \A n \in LineBytes : n \in Nat \ {0} /\ n <= Journal!LongestLine /\ n <= JournalFileBytes
<1>1. LineBytes \in SUBSET Nat /\ LineBytes # {} /\ \A n \in LineBytes : n <= JournalFileBytes
  BY JournalAssumption
<1>2. \E m \in LineBytes : \A n \in LineBytes : m >= n
  <2> DEFINE far == {k \in Nat : \E n \in LineBytes : k = JournalFileBytes - n}
  <2>0. PICK some \in LineBytes : some \in Nat /\ some <= JournalFileBytes
    BY <1>1
  <2>1. far # {} /\ far \in SUBSET Nat
    <3>1. JournalFileBytes - some \in far
      BY <2>0, JournalAssumption
    <3> QED BY <3>1
  <2>2. PICK k \in far : \A l \in far : <<l, k>> \notin OpToRel(<, Nat)
    <3> HIDE DEF far
    <3> QED BY <2>1, NatLessThanWellFounded, WFMin
  <2>3. PICK m \in LineBytes : k = JournalFileBytes - m
    BY <2>2
  <2>4. ASSUME NEW n \in LineBytes PROVE m >= n
    <3>0. n \in Nat /\ n <= JournalFileBytes /\ m \in Nat
      BY <1>1
    <3>1. JournalFileBytes - n \in far
      BY <3>0, JournalAssumption
    <3>2. ~(JournalFileBytes - n < k)
      BY <3>1, <2>2 DEF OpToRel
    <3> QED BY <3>0, <3>2, <2>3, JournalAssumption
  <2> QED BY <2>3, <2>4
<1>3. Journal!LongestLine = CHOOSE m \in LineBytes : \A n \in LineBytes : m >= n
  BY DEF Journal!LongestLine, Journal!Max
<1>4. Journal!LongestLine \in LineBytes /\ \A n \in LineBytes : Journal!LongestLine >= n
  BY <1>2, <1>3
<1>5. \A n \in LineBytes : n \in Nat \ {0} /\ n <= JournalFileBytes
  BY JournalAssumption
<1> QED BY <1>4, <1>5
-----------------------------------------------------------------------------
(* What each step keeps of types and handles, and of the file that is current.      *)
LEMMA JournalDisableBase ==
  ASSUME JournalBase, NEW p \in Writers, Journal!disable(p), p \in opened, journalStep[p] \in {"pruning", "making"}
  PROVE  JournalBase'
<1>3. JournalTypeOK'
  BY JournalAssumption DEF JournalBase, JournalTypeOK, JournalSteps, Journal!disable, Journal!GoTo, Journal!dirVars,
     Journal!None
<1>4. HandlesKnown'
  BY JournalAssumption DEF JournalBase, JournalTypeOK, JournalSteps, HandlesKnown, Using, Initial, Journal!disable,
     Journal!GoTo, Journal!dirVars, Journal!None
<1>5. Untouched'
  BY JournalAssumption DEF JournalBase, JournalTypeOK, JournalSteps, HandlesKnown, Untouched, Journal!disable,
     Journal!GoTo, Journal!dirVars, Journal!None
<1>6. Settled'
  BY JournalAssumption DEF JournalBase, JournalTypeOK, JournalSteps, Settled, HandlesKnown, Using, Initial,
     Journal!disable, Journal!GoTo, Journal!dirVars, Journal!None
<1> QED BY <1>3, <1>4, <1>5, <1>6 DEF JournalBase

LEMMA JournalOpenBase ==
  ASSUME JournalBase, NEW p \in Writers, Journal!open(p)
  PROVE  JournalBase'
<1>3. JournalTypeOK'
  <2>1. IsFiniteSet(opened \cup {p})
    BY FS_AddElement DEF JournalBase, JournalTypeOK
  <2> QED BY <2>1, JournalAssumption DEF JournalBase, JournalTypeOK, JournalSteps, Journal!open, Journal!GoTo,
             Journal!dirVars
<1>4. HandlesKnown'
  BY JournalAssumption DEF JournalBase, JournalTypeOK, JournalSteps, HandlesKnown, Using, Initial, Journal!open,
     Journal!GoTo, Journal!dirVars, Journal!None
<1>5. Untouched'
  BY JournalAssumption DEF JournalBase, JournalTypeOK, JournalSteps, HandlesKnown, Untouched, Journal!open,
     Journal!GoTo, Journal!dirVars, Journal!None
<1>6. Settled'
  BY JournalAssumption DEF JournalBase, JournalTypeOK, JournalSteps, Settled, HandlesKnown, Using, Initial,
     Journal!open, Journal!GoTo, Journal!dirVars, Journal!None
<1> QED BY <1>3, <1>4, <1>5, <1>6 DEF JournalBase

LEMMA JournalReaddirBase ==
  ASSUME JournalBase, NEW p \in Writers, Journal!readdir(p)
  PROVE  JournalBase'
<1>3. JournalTypeOK'
  BY JournalAssumption DEF JournalBase, JournalTypeOK, JournalSteps, Journal!readdir, Journal!GoTo, Journal!dirVars,
     Journal!None
<1>4. HandlesKnown'
  BY JournalAssumption DEF JournalBase, JournalTypeOK, JournalSteps, HandlesKnown, Using, Initial, Journal!readdir,
     Journal!GoTo, Journal!dirVars, Journal!None
<1>5. Untouched'
  BY JournalAssumption DEF JournalBase, JournalTypeOK, JournalSteps, HandlesKnown, Untouched, Journal!readdir,
     Journal!GoTo, Journal!dirVars, Journal!None
<1>6. Settled'
  BY JournalAssumption DEF JournalBase, JournalTypeOK, JournalSteps, Settled, HandlesKnown, Using, Initial,
     Journal!readdir, Journal!GoTo, Journal!dirVars, Journal!None
<1> QED BY <1>3, <1>4, <1>5, <1>6 DEF JournalBase

LEMMA JournalPruneBase ==
  ASSUME JournalBase, NEW p \in Writers, Journal!prune(p)
  PROVE  JournalBase'
<1>1. CASE Journal!disable(p)
  <2>1. p \in opened
    BY DEF JournalBase, HandlesKnown, Journal!prune
  <2> QED BY <1>1, <2>1, JournalDisableBase DEF Journal!prune
<1>2. CASE ~Journal!disable(p)
  <2>1. /\ rotated' \subseteq rotated /\ journalStep' = [journalStep EXCEPT ![p] = after[p]] /\ journalStep[p] = "pruning"
        /\ UNCHANGED <<current, size, after, line, handle, journalBytes, journalSeen, opened, appends>>
    BY <1>2 DEF Journal!prune, Journal!GoTo, Journal!RemoveAllBut
  <2>2. p \in opened
    BY <2>1 DEF JournalBase, HandlesKnown
  <2>3. JournalTypeOK'
    BY <2>1 DEF JournalBase, JournalTypeOK, JournalSteps
  <2>4. HandlesKnown'
    BY <2>1 DEF JournalBase, JournalTypeOK, HandlesKnown, Using, Initial
  <2>5. Untouched'
    BY <2>1, <2>2 DEF Untouched
  <2>6. Settled'
    <3>1. /\ journalStep \in [Writers -> JournalSteps] /\ after \in [Writers -> {"initOpen", "reopen"}]
          /\ opened \subseteq Writers
      BY DEF JournalBase, JournalTypeOK
    <3>2. ASSUME NEW q \in opened PROVE (Using(q)' => Using(q)) /\ (Initial(q)' => Initial(q))
      BY <2>1, <3>1 DEF Using, Initial
    <3> QED BY <2>1, <3>2 DEF JournalBase, Settled
  <2> QED BY <2>3, <2>4, <2>5, <2>6 DEF JournalBase
<1> QED BY <1>1, <1>2

LEMMA JournalOpenCurrentBase ==
  ASSUME JournalBase, NEW p \in Writers, Journal!openCurrent(p)
  PROVE  JournalBase'
<1>3. JournalTypeOK'
  <2> DEFINE file == IF current = 0 THEN Len(size) + 1 ELSE current
  <2>1. /\ size' \in Seq(Nat) /\ Len(size') \in Nat /\ Len(size) <= Len(size') /\ Len(size) \in Nat
        /\ file \in 1 .. Len(size') /\ file \notin rotated
    <3>1. CASE current = 0
      <4>1. size' = Append(size, 0) /\ size \in Seq(Nat) /\ rotated \subseteq 1 .. Len(size)
        BY <3>1 DEF JournalBase, JournalTypeOK, Journal!openCurrent, Journal!None
      <4>2. Len(size') = Len(size) + 1 /\ Len(size) \in Nat /\ size' \in Seq(Nat)
        BY <4>1
      <4> QED BY <3>1, <4>1, <4>2
    <3>2. CASE current # 0
      BY <3>2 DEF JournalBase, JournalTypeOK, Journal!openCurrent, Journal!None
    <3> QED BY <3>1, <3>2
  <2>2. /\ current' = file /\ handle' = [handle EXCEPT ![p] = file]
        /\ UNCHANGED <<rotated, after, line, journalSeen, opened, appends>>
    BY DEF Journal!openCurrent, Journal!None
  <2>5. \E n \in Nat : journalBytes' = [journalBytes EXCEPT ![p] = n]
    <3> DEFINE known == IF journalStep[p] = "initOpen" THEN IF current = 0 THEN 0 ELSE size[current] ELSE 0
    <3>1. journalBytes' = [journalBytes EXCEPT ![p] = known]
      BY DEF Journal!openCurrent, Journal!None
    <3>2. known \in Nat
      BY DEF JournalBase, JournalTypeOK
    <3> QED BY <3>1, <3>2
  <2>6. \E t \in JournalSteps : journalStep' = [journalStep EXCEPT ![p] = t]
    BY DEF JournalSteps, Journal!openCurrent, Journal!GoTo
  <2>3. \A q \in Writers : journalSeen[q] \in [rotated : SUBSET (1 .. Len(size')), current : BOOLEAN]
    BY <2>1 DEF JournalBase, JournalTypeOK
  <2>4. journalSeen' \in [Writers -> [rotated : SUBSET (1 .. Len(size')), current : BOOLEAN]]
    BY <2>2, <2>3 DEF JournalBase, JournalTypeOK
  <2> HIDE DEF file
  <2> QED BY <2>1, <2>2, <2>4, <2>5, <2>6 DEF JournalBase, JournalTypeOK
<1>4. HandlesKnown'
  <2>1. /\ current' \in Nat \ {0} /\ handle'[p] = current' /\ line' = line /\ after' = after /\ opened' = opened
        /\ journalSeen' = journalSeen
        /\ \A q \in Writers \ {p} : handle'[q] = handle[q] /\ journalStep'[q] = journalStep[q] /\ journalBytes'[q] = journalBytes[q]
    BY DEF JournalBase, JournalTypeOK, Journal!openCurrent, Journal!GoTo, Journal!None
  <2>2. \A q \in Writers : current' \notin journalSeen'[q].rotated
    BY DEF JournalBase, JournalTypeOK, HandlesKnown, Journal!openCurrent, Journal!None
  <2>3. /\ journalStep'[p] \in {"rotate", "capacity", "ready"}
        /\ journalStep'[p] # "rotate" => journalBytes'[p] < JournalFileBytes \/ journalBytes'[p] = 0
        /\ journalStep'[p] = "capacity" => line[p] \in LineBytes /\ journalStep[p] = "reopen" /\ journalBytes'[p] = 0
    BY JournalAssumption DEF JournalBase, JournalTypeOK, HandlesKnown, Initial, Journal!openCurrent, Journal!GoTo,
       Journal!None
  <2>4. p \in opened /\ journalBytes'[p] \in Nat
    BY JournalAssumption DEF JournalBase, JournalTypeOK, HandlesKnown, Journal!openCurrent, Journal!None
  <2>5. \A n \in LineBytes : n \in Nat /\ n <= JournalFileBytes
    BY JournalAssumption
  <2>6. SUFFICES ASSUME NEW q \in Writers
                 PROVE  /\ Using(q)' => handle'[q] # 0 /\ journalBytes'[q] <= JournalFileBytes
                        /\ journalStep'[q] \in {"capacity", "making", "write"} => /\ line'[q] \in LineBytes
                                                                                  /\ journalBytes'[q] + line'[q] <= JournalFileBytes
                        /\ ~Using(q)' /\ journalStep'[q] # "rotate" => handle'[q] = 0
                        /\ Initial(q)' => line'[q] = 0
                        /\ q \notin opened' => journalStep'[q] = "closed"
    BY <2>2 DEF HandlesKnown
  <2>7. CASE q = p
    <3>1. journalBytes'[p] <= JournalFileBytes \/ journalStep'[p] = "rotate"
      BY <2>3, <2>4, JournalAssumption
    <3>2. journalStep'[p] = "capacity" => line[p] \in LineBytes /\ journalBytes'[p] + line[p] <= JournalFileBytes
      BY <2>3, <2>5
    <3>3. /\ line' = line /\ opened' = opened /\ p \in opened /\ handle'[p] # 0
          /\ journalStep'[p] \in {"rotate", "capacity", "ready"}
      BY <2>1, <2>3, <2>4
    <3> QED BY <3>1, <3>2, <3>3, <2>7 DEF Using, Initial
  <2>8. CASE q # p
    <3>1. handle'[q] = handle[q] /\ journalStep'[q] = journalStep[q] /\ journalBytes'[q] = journalBytes[q]
          /\ line'[q] = line[q] /\ after'[q] = after[q] /\ opened' = opened
      BY <2>1, <2>8
    <3> QED BY <3>1 DEF JournalBase, HandlesKnown, Using, Initial
  <2> QED BY <2>7, <2>8
<1>5. Untouched'
  BY JournalAssumption DEF JournalBase, JournalTypeOK, JournalSteps, HandlesKnown, Untouched, Journal!openCurrent,
     Journal!GoTo, Journal!dirVars, Journal!None
<1>6. Settled'
  BY JournalAssumption DEF JournalBase, JournalTypeOK, JournalSteps, Settled, HandlesKnown, Using, Initial,
     Journal!openCurrent, Journal!GoTo, Journal!dirVars, Journal!None
<1> QED BY <1>3, <1>4, <1>5, <1>6 DEF JournalBase

LEMMA JournalAppendBase ==
  ASSUME JournalBase, NEW p \in Writers, Journal!append(p)
  PROVE  JournalBase'
<1>3. JournalTypeOK'
  BY JournalAssumption DEF JournalBase, JournalTypeOK, JournalSteps, Journal!append, Journal!GoTo, Journal!dirVars,
     Journal!None
<1>4. HandlesKnown'
  BY JournalAssumption DEF JournalBase, JournalTypeOK, JournalSteps, HandlesKnown, Using, Initial, Journal!append,
     Journal!GoTo, Journal!dirVars, Journal!None
<1>5. Untouched'
  BY JournalAssumption DEF JournalBase, JournalTypeOK, JournalSteps, HandlesKnown, Untouched, Journal!append,
     Journal!GoTo, Journal!dirVars, Journal!None
<1>6. Settled'
  BY JournalAssumption DEF JournalBase, JournalTypeOK, JournalSteps, Settled, HandlesKnown, Using, Initial,
     Journal!append, Journal!GoTo, Journal!dirVars, Journal!None
<1> QED BY <1>3, <1>4, <1>5, <1>6 DEF JournalBase

LEMMA JournalRotateBase ==
  ASSUME JournalBase, NEW p \in Writers, Journal!rotate(p)
  PROVE  JournalBase'
<1>3. JournalTypeOK'
  <2>1. rotated' \subseteq 1 .. Len(size) /\ current' \in 0 .. Len(size) /\ current' \notin rotated'
    <3>0. /\ Len(size) \in Nat /\ rotated \subseteq 1 .. Len(size) /\ current \in 0 .. Len(size)
          /\ current \notin rotated
      BY DEF JournalBase, JournalTypeOK
    <3>1. CASE current # 0 /\ size[current] > 0
      <4>1. rotated' = rotated \cup {current} /\ current' = 0
        BY <3>1 DEF Journal!rotate, Journal!None
      <4> QED BY <3>0, <3>1, <4>1
    <3>2. CASE ~(current # 0 /\ size[current] > 0)
      <4>1. rotated' = rotated /\ current' = current
        BY <3>2 DEF Journal!rotate, Journal!None
      <4> QED BY <3>0, <4>1
    <3> QED BY <3>1, <3>2
  <2>2. /\ UNCHANGED <<size, line, journalBytes, journalSeen, opened, appends>>
        /\ handle' = [handle EXCEPT ![p] = 0] /\ journalStep' = [journalStep EXCEPT ![p] = "prune"]
        /\ after' = [after EXCEPT ![p] = "reopen"]
    BY DEF Journal!rotate, Journal!GoTo, Journal!None
  <2> QED BY <2>1, <2>2 DEF JournalBase, JournalTypeOK, JournalSteps
<1>4. HandlesKnown'
  BY JournalAssumption DEF JournalBase, JournalTypeOK, JournalSteps, HandlesKnown, Using, Initial, Journal!rotate,
     Journal!GoTo, Journal!dirVars, Journal!None
<1>5. Untouched'
  BY JournalAssumption DEF JournalBase, JournalTypeOK, JournalSteps, HandlesKnown, Untouched, Journal!rotate,
     Journal!GoTo, Journal!dirVars, Journal!None
<1>6. Settled'
  BY JournalAssumption DEF JournalBase, JournalTypeOK, JournalSteps, Settled, HandlesKnown, Using, Initial,
     Journal!rotate, Journal!GoTo, Journal!dirVars, Journal!None
<1> QED BY <1>3, <1>4, <1>5, <1>6 DEF JournalBase

LEMMA JournalMakeTotalCapacityBase ==
  ASSUME JournalBase, NEW p \in Writers, Journal!makeTotalCapacity(p)
  PROVE  JournalBase'
<1>1. CASE Journal!disable(p)
  <2>1. p \in opened
    BY DEF JournalBase, HandlesKnown, Journal!makeTotalCapacity
  <2> QED BY <1>1, <2>1, JournalDisableBase DEF Journal!makeTotalCapacity
<1>2. CASE ~Journal!disable(p)
  <2>3. JournalTypeOK'
    <3>1. /\ rotated' \subseteq rotated /\ \E t \in {"rotate", "write"} : journalStep' = [journalStep EXCEPT ![p] = t]
          /\ UNCHANGED <<current, size, after, line, handle, journalBytes, journalSeen, opened, appends>>
      BY <1>2 DEF Journal!makeTotalCapacity, Journal!GoTo, Journal!RemoveAllBut
    <3> QED BY <3>1 DEF JournalBase, JournalTypeOK, JournalSteps
  <2>4. HandlesKnown'
    BY JournalAssumption, <1>2 DEF JournalBase, JournalTypeOK, JournalSteps, HandlesKnown, Using, Initial,
       Journal!makeTotalCapacity, Journal!GoTo, Journal!dirVars, Journal!None, Journal!Newest, Journal!RemoveAllBut
  <2>5. Untouched'
    BY JournalAssumption, <1>2 DEF JournalBase, JournalTypeOK, JournalSteps, HandlesKnown, Untouched,
       Journal!makeTotalCapacity, Journal!GoTo, Journal!dirVars, Journal!None, Journal!Newest, Journal!RemoveAllBut
  <2>6. Settled'
    <3>1. /\ rotated' \subseteq rotated /\ \E t \in {"rotate", "write"} : journalStep' = [journalStep EXCEPT ![p] = t]
          /\ UNCHANGED <<current, size, after, line, handle, journalBytes, journalSeen, opened, appends>>
      BY <1>2 DEF Journal!makeTotalCapacity, Journal!GoTo, Journal!RemoveAllBut
    <3>2. journalStep[p] = "making" /\ p \in opened
      BY DEF JournalBase, HandlesKnown, Journal!makeTotalCapacity
    <3> QED BY <3>2, <3>1 DEF JournalBase, JournalTypeOK, HandlesKnown, Settled, Using, Initial
  <2> QED BY <2>3, <2>4, <2>5, <2>6 DEF JournalBase
<1> QED BY <1>1, <1>2

LEMMA JournalWriteBase ==
  ASSUME JournalBase, NEW p \in Writers, Journal!write(p)
  PROVE  JournalBase'
<1>3. JournalTypeOK'
  <2>1. handle[p] \in DOMAIN size /\ line[p] \in Nat /\ journalBytes[p] \in Nat
    <3>1. journalStep[p] = "write" /\ Using(p)
      BY DEF Journal!write, Using
    <3>2. handle[p] # 0 /\ line[p] \in LineBytes
      BY <3>1 DEF JournalBase, HandlesKnown
    <3> QED BY <3>2, LongestKnown DEF JournalBase, JournalTypeOK
  <2>2. size' \in Seq(Nat) /\ Len(size') = Len(size)
    BY <2>1 DEF JournalBase, JournalTypeOK, Journal!write
  <2>3. /\ UNCHANGED <<rotated, current, after, handle, journalSeen, opened, appends>>
        /\ journalBytes' = [journalBytes EXCEPT ![p] = @ + line[p]] /\ line' = [line EXCEPT ![p] = 0]
        /\ journalStep' = [journalStep EXCEPT ![p] = "ready"]
    BY DEF Journal!write, Journal!GoTo
  <2> QED BY <2>1, <2>2, <2>3 DEF JournalBase, JournalTypeOK, JournalSteps
<1>4. HandlesKnown'
  BY JournalAssumption DEF JournalBase, JournalTypeOK, JournalSteps, HandlesKnown, Using, Initial, Journal!write,
     Journal!GoTo, Journal!dirVars, Journal!None
<1>5. Untouched'
  BY JournalAssumption DEF JournalBase, JournalTypeOK, JournalSteps, HandlesKnown, Untouched, Journal!write,
     Journal!GoTo, Journal!dirVars, Journal!None
<1>6. Settled'
  BY JournalAssumption DEF JournalBase, JournalTypeOK, JournalSteps, Settled, HandlesKnown, Using, Initial,
     Journal!write, Journal!GoTo, Journal!dirVars, Journal!None
<1> QED BY <1>3, <1>4, <1>5, <1>6 DEF JournalBase

LEMMA JournalCloseBase ==
  ASSUME JournalBase, NEW p \in Writers, Journal!close(p)
  PROVE  JournalBase'
<1>3. JournalTypeOK'
  BY JournalAssumption DEF JournalBase, JournalTypeOK, JournalSteps, Journal!close, Journal!GoTo, Journal!dirVars,
     Journal!None
<1>4. HandlesKnown'
  BY JournalAssumption DEF JournalBase, JournalTypeOK, JournalSteps, HandlesKnown, Using, Initial, Journal!close,
     Journal!GoTo, Journal!dirVars, Journal!None
<1>5. Untouched'
  BY JournalAssumption DEF JournalBase, JournalTypeOK, JournalSteps, HandlesKnown, Untouched, Journal!close,
     Journal!GoTo, Journal!dirVars, Journal!None
<1>6. Settled'
  BY JournalAssumption DEF JournalBase, JournalTypeOK, JournalSteps, Settled, HandlesKnown, Using, Initial,
     Journal!close, Journal!GoTo, Journal!dirVars, Journal!None
<1> QED BY <1>3, <1>4, <1>5, <1>6 DEF JournalBase

-----------------------------------------------------------------------------
(* The shares of a file are finite, and one process fills a file once.                *)
LEMMA SharesFinite ==
  ASSUME JournalTypeOK, NEW B, Shares(B), NEW f \in 1 .. Len(size)
  PROVE  /\ IsFiniteSet(B[f]) /\ Cardinality(B[f]) = size[f] /\ B[f] \subseteq opened \X (1 .. JournalFileBytes)
         /\ B[f] # {} <=> size[f] > 0
<1>1. IsFiniteSet(1 .. JournalFileBytes)
  BY FS_Interval, JournalAssumption
<1>2. IsFiniteSet(opened \X (1 .. JournalFileBytes))
  BY <1>1, FS_Product DEF JournalTypeOK
<1>3. B[f] \subseteq opened \X (1 .. JournalFileBytes) /\ Cardinality(B[f]) = size[f]
  BY DEF Shares
<1>4. IsFiniteSet(B[f])
  BY <1>2, <1>3, FS_Subset
<1>5. Cardinality(B[f]) = 0 <=> B[f] = {}
  BY <1>4, FS_EmptySet
<1>6. size[f] \in Nat
  BY DEF JournalTypeOK
<1> QED BY <1>3, <1>4, <1>5, <1>6

LEMMA SharedCarried ==
  ASSUME JournalTypeOK, JournalTypeOK', Shared, opened \subseteq opened', Len(size) <= Len(size'),
         \A f \in 1 .. Len(size') : size'[f] = IF f \in 1 .. Len(size) THEN size[f] ELSE 0,
         \A q \in opened, f \in 1 .. Len(size) :
           ~Initial(q) /\ size[f] > 0 /\ (Active(q) /\ f = current => handle[q] = f)
             => /\ ~Initial(q)' /\ (Active(q)' /\ f = current' => handle'[q] = f)
                /\ handle'[q] = f => handle[q] = f /\ journalBytes'[q] >= journalBytes[q]
  PROVE  Shared'
<1>1. PICK B : Shares(B)
  BY DEF Shared
<1>2. /\ B \in [1 .. Len(size) -> SUBSET (opened \X (1 .. JournalFileBytes))]
      /\ \A f \in 1 .. Len(size) :
           /\ Cardinality(B[f]) = size[f]
           /\ \A b \in B[f] : /\ ~Initial(b[1])
                              /\ Active(b[1]) /\ f = current => handle[b[1]] = f
                              /\ handle[b[1]] = f => b[2] <= journalBytes[b[1]]
  BY <1>1 DEF Shares
<1>3. /\ Len(size) \in Nat /\ Len(size') \in Nat /\ journalBytes \in [Writers -> Nat]
      /\ journalBytes' \in [Writers -> Nat]
      /\ opened \subseteq Writers
  BY DEF JournalTypeOK
<1> DEFINE C == [f \in 1 .. Len(size') |-> IF f \in 1 .. Len(size) THEN B[f] ELSE {}]
<1>4. C \in [1 .. Len(size') -> SUBSET (opened' \X (1 .. JournalFileBytes))]
  BY <1>2
<1>5. ASSUME NEW f \in 1 .. Len(size') PROVE Cardinality(C[f]) = size'[f]
  BY <1>2, FS_EmptySet
<1>6. ASSUME NEW f \in 1 .. Len(size'), NEW b \in C[f]
      PROVE  /\ ~Initial(b[1])'
             /\ Active(b[1])' /\ f = current' => handle'[b[1]] = f
             /\ handle'[b[1]] = f => b[2] <= journalBytes'[b[1]]
  <2>1. f \in 1 .. Len(size) /\ b \in B[f]
    BY <1>6
  <2>2. size[f] > 0 /\ b[1] \in opened /\ b[2] \in Nat
    BY <1>1, <2>1, SharesFinite
  <2>3. /\ ~Initial(b[1]) /\ (Active(b[1]) /\ f = current => handle[b[1]] = f)
        /\ handle[b[1]] = f => b[2] <= journalBytes[b[1]]
    BY <1>2, <2>1
  <2>4. /\ ~Initial(b[1])' /\ (Active(b[1])' /\ f = current' => handle'[b[1]] = f)
        /\ handle'[b[1]] = f => handle[b[1]] = f /\ journalBytes'[b[1]] >= journalBytes[b[1]]
    BY <2>1, <2>2, <2>3
  <2>5. journalBytes[b[1]] \in Nat /\ journalBytes'[b[1]] \in Nat
    BY <1>3, <2>2
  <2> QED BY <2>2, <2>3, <2>4, <2>5
<1> HIDE DEF C
<1>7. PICK D : D = C
  OBVIOUS
<1>8. Shares(D)'
  BY <1>4, <1>5, <1>6, <1>7 DEF Shares
<1> QED BY <1>8 DEF Shared

LEMMA JournalWriteShared ==
  ASSUME JournalBase, JournalBase', Shared, NEW p \in Writers, Journal!write(p)
  PROVE  Shared'
<1>1. PICK B : Shares(B)
  BY DEF Shared
<1> DEFINE h == handle[p]
           new == {p} \X (journalBytes[p] + 1 .. journalBytes[p] + line[p])
           C == [B EXCEPT ![h] = @ \cup new]
<1>2. /\ h \in 1 .. Len(size) /\ journalBytes[p] \in Nat /\ line[p] \in Nat \ {0} /\ p \in opened
      /\ journalBytes[p] + line[p] <= JournalFileBytes /\ journalStep[p] = "write"
  <2>1. journalStep[p] = "write" /\ Using(p)
    BY DEF Journal!write, Using
  <2>2. handle[p] # 0 /\ line[p] \in LineBytes /\ journalBytes[p] + line[p] <= JournalFileBytes /\ p \in opened
    BY <2>1 DEF JournalBase, HandlesKnown
  <2>3. line[p] \in Nat \ {0} /\ journalBytes[p] \in Nat /\ handle[p] \in 0 .. Len(size) /\ Len(size) \in Nat
    <3>1. line[p] \in Nat \ {0}
      BY <2>2, LongestKnown
    <3> QED BY <3>1 DEF JournalBase, JournalTypeOK
  <2> QED BY <2>1, <2>2, <2>3
<1>3. /\ UNCHANGED <<rotated, current, handle, opened, after>>
      /\ size' = [size EXCEPT ![h] = @ + line[p]] /\ journalBytes' = [journalBytes EXCEPT ![p] = @ + line[p]]
      /\ journalStep' = [journalStep EXCEPT ![p] = "ready"]
  BY DEF Journal!write, Journal!GoTo
<1>4. size \in Seq(Nat) /\ Len(size') = Len(size) /\ journalStep \in [Writers -> JournalSteps]
      /\ journalBytes \in [Writers -> Nat] /\ opened \subseteq Writers
  BY <1>2, <1>3 DEF JournalBase, JournalTypeOK
<1>5. /\ B \in [1 .. Len(size) -> SUBSET (opened \X (1 .. JournalFileBytes))]
      /\ \A f \in 1 .. Len(size) :
           /\ Cardinality(B[f]) = size[f]
           /\ \A b \in B[f] : /\ ~Initial(b[1])
                              /\ Active(b[1]) /\ f = current => handle[b[1]] = f
                              /\ handle[b[1]] = f => b[2] <= journalBytes[b[1]]
  BY <1>1 DEF Shares
<1>6. IsFiniteSet(new) /\ Cardinality(new) = line[p]
  <2>1. IsFiniteSet({p}) /\ Cardinality({p}) = 1
    BY FS_Singleton
  <2> DEFINE from == journalBytes[p] + 1
             to == journalBytes[p] + line[p]
  <2>2. from \in Int /\ to \in Int /\ from <= to /\ to - from + 1 = line[p]
    BY <1>2
  <2> HIDE DEF from, to
  <2>3. IsFiniteSet(from .. to) /\ Cardinality(from .. to) = line[p]
    BY <2>2, FS_Interval
  <2>4. IsFiniteSet({p} \X (from .. to)) /\ Cardinality({p} \X (from .. to)) = 1 * line[p]
    BY <2>1, <2>3, FS_Product
  <2> QED BY <1>2, <2>4 DEF from, to
<1>7. B[h] \cap new = {} /\ new \subseteq opened \X (1 .. JournalFileBytes)
  <2>1. ASSUME NEW b \in B[h], b \in new PROVE FALSE
    <3>1. b[1] = p /\ b[2] \in journalBytes[p] + 1 .. journalBytes[p] + line[p]
      BY <2>1
    <3>2. b[2] <= journalBytes[p]
      BY <1>2, <1>5, <3>1
    <3> QED BY <1>2, <3>1, <3>2
  <2>2. new \subseteq opened \X (1 .. JournalFileBytes)
    <3>1. (journalBytes[p] + 1 .. journalBytes[p] + line[p]) \subseteq 1 .. JournalFileBytes
      BY <1>2, JournalAssumption
    <3> QED BY <1>2, <3>1
  <2> QED BY <2>1, <2>2
<1>8. Cardinality(B[h] \cup new) = size[h] + line[p]
  <2>1. IsFiniteSet(B[h]) /\ Cardinality(B[h]) = size[h] /\ size[h] \in Nat
    BY <1>1, <1>2, <1>4, SharesFinite DEF JournalBase
  <2>2. Cardinality({}) = 0
    BY FS_EmptySet
  <2>3. Cardinality(B[h] \cap new) = 0
    BY <1>7, <2>2
  <2> HIDE DEF new, h
  <2>4. Cardinality(B[h] \cup new) = Cardinality(B[h]) + Cardinality(new) - Cardinality(B[h] \cap new)
    BY <1>6, <2>1, FS_Union
  <2> QED BY <1>2, <1>6, <2>1, <2>3, <2>4
<1> HIDE DEF new, h
<1>9. C \in [1 .. Len(size') -> SUBSET (opened' \X (1 .. JournalFileBytes))]
  BY <1>2, <1>3, <1>4, <1>5, <1>7
<1>10. ASSUME NEW f \in 1 .. Len(size') PROVE Cardinality(C[f]) = size'[f]
  BY <1>2, <1>3, <1>4, <1>5, <1>8
<1>11. ASSUME NEW f \in 1 .. Len(size'), NEW b \in C[f]
       PROVE  /\ ~Initial(b[1])'
              /\ Active(b[1])' /\ f = current' => handle'[b[1]] = f
              /\ handle'[b[1]] = f => b[2] <= journalBytes'[b[1]]
  <2>1. CASE b \in B[f]
    <3>0. f \in 1 .. Len(size)
      BY <1>4
    <3>1. b[1] \in opened /\ b[2] \in Nat
      <4>1. b \in opened \X (1 .. JournalFileBytes)
        BY <1>5, <2>1, <3>0
      <4> QED BY <4>1
    <3>2. /\ ~Initial(b[1]) /\ (Active(b[1]) /\ f = current => handle[b[1]] = f)
          /\ handle[b[1]] = f => b[2] <= journalBytes[b[1]]
      BY <1>5, <2>1, <3>0
    <3>3. ~Initial(b[1])' /\ (Active(b[1])' => Active(b[1]))
      BY <1>2, <1>3, <1>4, <3>1, <3>2 DEF Initial, Active
    <3>4. journalBytes[b[1]] \in Nat /\ journalBytes'[b[1]] \in Nat /\ journalBytes'[b[1]] >= journalBytes[b[1]]
      BY <1>2, <1>3, <1>4, <3>1
    <3> QED BY <1>3, <3>1, <3>2, <3>3, <3>4
  <2>2. CASE f = h /\ b \in new
    <3>1. b[1] = p /\ b[2] \in journalBytes[p] + 1 .. journalBytes[p] + line[p]
      BY <2>2 DEF new
    <3>2. ~Initial(p)' /\ handle'[p] = h /\ journalBytes'[p] = journalBytes[p] + line[p]
      BY <1>2, <1>3, <1>4 DEF Initial, h
    <3> QED BY <1>2, <2>2, <3>1, <3>2
  <2> QED BY <1>2, <1>4, <1>5, <1>11, <2>1, <2>2
<1> HIDE DEF C
<1>12. PICK D : D = C
  OBVIOUS
<1>13. Shares(D)'
  BY <1>9, <1>10, <1>11, <1>12 DEF Shares
<1> QED BY <1>13 DEF Shared

(* Where everyone keeps its file, or leaves it, and opens an empty one only.          *)
LEMMA JournalStepShared ==
  ASSUME JournalBase, JournalBase', Shared, NEW p \in Writers, Journal!Process(p)
  PROVE  Shared'
<1> USE DEF Journal!dirVars, Journal!None, Journal!GoTo
<1>1. CASE Journal!write(p)
  BY <1>1, JournalWriteShared
<1>2. CASE ~Journal!write(p)
  <2>1. /\ opened \subseteq opened' /\ Len(size) <= Len(size')
        /\ \A f \in 1 .. Len(size') : size'[f] = IF f \in 1 .. Len(size) THEN size[f] ELSE 0
    <3>1. CASE size' = Append(size, 0) /\ opened' = opened
      BY <3>1 DEF JournalBase, JournalTypeOK
    <3>2. CASE size' = size /\ opened \subseteq opened'
      BY <3>2 DEF JournalBase, JournalTypeOK
    <3> QED BY <1>2, <3>1, <3>2 DEF Journal!Process, Journal!open, Journal!readdir, Journal!prune,
               Journal!openCurrent,
              Journal!append, Journal!rotate, Journal!makeTotalCapacity, Journal!close, Journal!disable
  <2>2. SUFFICES ASSUME NEW q \in opened, NEW f \in 1 .. Len(size),
                        ~Initial(q), size[f] > 0, Active(q) /\ f = current => handle[q] = f
                 PROVE  /\ ~Initial(q)' /\ (Active(q)' /\ f = current' => handle'[q] = f)
                        /\ handle'[q] = f => handle[q] = f /\ journalBytes'[q] >= journalBytes[q]
    BY <2>1, SharedCarried DEF JournalBase
  <2>3. /\ q \in Writers /\ f \in Nat \ {0} /\ handle[q] \in Nat /\ journalBytes[q] \in Nat
        /\ journalStep \in [Writers -> JournalSteps] /\ handle \in [Writers -> 0 .. Len(size)]
        /\ after \in [Writers -> {"initOpen", "reopen"}] /\ journalBytes \in [Writers -> Nat]
    BY DEF JournalBase, JournalTypeOK
  <2>4. CASE Journal!open(p)
    <3>1. p # q /\ current' = current /\ handle' = handle /\ journalBytes' = journalBytes
      BY <2>4 DEF Journal!open
    <3>2. journalStep'[q] = journalStep[q] /\ after'[q] = after[q]
      BY <2>3, <2>4, <3>1 DEF Journal!open
    <3> QED BY <2>2, <2>3, <3>1, <3>2 DEF Initial, Active
  <2>5. CASE Journal!readdir(p)
    <3>1. current' = current /\ handle' = handle /\ journalBytes' = journalBytes /\ after' = after
      BY <2>5 DEF Journal!readdir
    <3>2. Initial(q)' = Initial(q) /\ Active(q)' = Active(q)
      BY <2>3, <2>5, <3>1 DEF Initial, Active, Journal!readdir
    <3> QED BY <2>2, <2>3, <3>1, <3>2
  <2>6. CASE Journal!disable(p)
    <3>1. current' = current /\ handle' = [handle EXCEPT ![p] = 0] /\ journalBytes' = journalBytes /\ after' = after
          /\ journalStep' = [journalStep EXCEPT ![p] = "disabled"]
      BY <2>6 DEF Journal!disable
    <3> QED BY <2>2, <2>3, <3>1 DEF Initial, Active
  <2>7. CASE Journal!prune(p) /\ ~Journal!disable(p)
    <3>1. /\ current' = current /\ handle' = handle /\ journalBytes' = journalBytes /\ after' = after
          /\ journalStep' = [journalStep EXCEPT ![p] = after[p]] /\ journalStep[p] = "pruning"
      BY <2>7 DEF Journal!prune
    <3> QED BY <2>2, <2>3, <3>1 DEF Initial, Active
  <2>8. CASE Journal!makeTotalCapacity(p) /\ ~Journal!disable(p)
    <3>1. /\ current' = current /\ handle' = handle /\ journalBytes' = journalBytes /\ after' = after
          /\ journalStep[p] = "making" /\ \E t \in {"rotate", "write"} : journalStep' = [journalStep EXCEPT ![p] = t]
      BY <2>8 DEF Journal!makeTotalCapacity
    <3> QED BY <2>2, <2>3, <3>1 DEF Initial, Active
  <2>9. CASE Journal!append(p)
    <3>1. /\ current' = current /\ handle' = handle /\ journalBytes' = journalBytes /\ after' = after
          /\ journalStep[p] = "ready" /\ \E t \in {"rotate", "capacity"} : journalStep' = [journalStep EXCEPT ![p] = t]
      BY <2>9 DEF Journal!append
    <3> QED BY <2>2, <2>3, <3>1 DEF Initial, Active
  <2>10. CASE Journal!close(p)
    <3>1. /\ current' = current /\ handle' = [handle EXCEPT ![p] = 0] /\ journalBytes' = journalBytes
          /\ after' = after
          /\ journalStep' = [journalStep EXCEPT ![p] = "closed"]
      BY <2>10 DEF Journal!close
    <3> QED BY <2>2, <2>3, <3>1 DEF Initial, Active
  <2>11. CASE Journal!rotate(p)
    <3>1. /\ handle' = [handle EXCEPT ![p] = 0] /\ journalBytes' = journalBytes /\ after' = [after EXCEPT ![p] = "reopen"]
          /\ journalStep' = [journalStep EXCEPT ![p] = "prune"] /\ journalStep[p] = "rotate"
      BY <2>11 DEF Journal!rotate
    <3>2. f # current'
      BY <2>2, <2>3, <2>11 DEF Journal!rotate, JournalBase, JournalTypeOK
    <3> QED BY <2>2, <2>3, <3>1, <3>2 DEF Initial, Active
  <2>12. CASE Journal!openCurrent(p)
    <3>1. /\ current' = IF current = 0 THEN Len(size) + 1 ELSE current
          /\ handle' = [handle EXCEPT ![p] = current'] /\ after' = after /\ journalStep[p] \in {"initOpen", "reopen"}
      BY <2>12 DEF Journal!openCurrent
    <3>2. \E t \in {"rotate", "capacity", "ready"} : journalStep' = [journalStep EXCEPT ![p] = t]
      BY <2>12 DEF Journal!openCurrent
    <3>3. f = current' => f = current
      BY <2>3, <3>1 DEF JournalBase, JournalTypeOK
    <3>4. CASE q = p
      <4>1. handle[p] = 0 /\ Active(p)
        BY <2>3, <3>1, <3>4 DEF JournalBase, HandlesKnown, Using, Active
      <4>2. f # current'
        BY <2>2, <2>3, <3>3, <3>4, <4>1
      <4> QED BY <2>2, <2>3, <3>1, <3>2, <3>4, <4>2 DEF Initial
    <3>5. CASE q # p
      <4>1. handle'[q] = handle[q] /\ journalStep'[q] = journalStep[q] /\ after'[q] = after[q]
        BY <2>3, <3>1, <3>2, <3>5
      <4>2. journalBytes'[q] = journalBytes[q]
        BY <2>3, <2>12, <3>5 DEF Journal!openCurrent
      <4> QED BY <2>2, <2>3, <3>3, <4>1, <4>2 DEF Initial, Active
    <3> QED BY <3>4, <3>5
  <2> QED BY <1>2, <2>4, <2>5, <2>6, <2>7, <2>8, <2>9, <2>10, <2>11, <2>12 DEF Journal!Process
<1> QED BY <1>1, <1>2

-----------------------------------------------------------------------------
(* Who has written nothing to the current file, as far as it knows.                   *)
Apart(p) == Initial(p) \/ (Active(p) /\ (handle[p] # current \/ journalBytes[p] = 0))
CurrentBytes == IF current = 0 THEN 0 ELSE size[current]

LEMMA CurrentKnown ==
  ASSUME JournalBase, Shared
  PROVE  /\ CurrentBytes \in Nat
         /\ (\A p \in opened : Apart(p)) => CurrentBytes = 0
<1>1. CurrentBytes \in Nat
  BY DEF JournalBase, JournalTypeOK, CurrentBytes
<1>2. ASSUME \A p \in opened : Apart(p), current # 0 PROVE size[current] = 0
  <2>1. PICK B : Shares(B)
    BY DEF Shared
  <2>2. current \in 1 .. Len(size) /\ size[current] \in Nat
    BY <1>2 DEF JournalBase, JournalTypeOK
  <2>3. ASSUME NEW b \in B[current] PROVE FALSE
    <3>1. b \in opened \X (1 .. JournalFileBytes)
      BY <2>1, <2>2, SharesFinite DEF JournalBase
    <3>2. /\ ~Initial(b[1]) /\ (Active(b[1]) => handle[b[1]] = current)
          /\ handle[b[1]] = current => b[2] <= journalBytes[b[1]]
      BY <2>1, <2>2 DEF Shares
    <3>3. b[1] \in opened /\ b[2] \in Nat \ {0}
      BY <3>1
    <3> QED BY <1>2, <3>2, <3>3 DEF Apart
  <2> QED BY <2>1, <2>2, <2>3, SharesFinite DEF JournalBase
<1> QED BY <1>1, <1>2 DEF CurrentBytes

LEMMA SharesOfOne ==
  ASSUME JournalTypeOK, NEW B, Shares(B), NEW f \in 1 .. Len(size), NEW q, NEW n \in Nat, B[f] \subseteq {q} \X (1 .. n)
  PROVE  size[f] <= n
<1>1. IsFiniteSet({q}) /\ Cardinality({q}) = 1
  BY FS_Singleton
<1>2. IsFiniteSet(1 .. n) /\ Cardinality(1 .. n) = n
  BY FS_Interval
<1>3. IsFiniteSet({q} \X (1 .. n)) /\ Cardinality({q} \X (1 .. n)) = 1 * n
  BY <1>1, <1>2, FS_Product
<1>4. Cardinality(B[f]) <= Cardinality({q} \X (1 .. n))
  BY <1>3, FS_Subset
<1>5. Cardinality(B[f]) = size[f]
  BY SharesFinite
<1> QED BY <1>3, <1>4, <1>5

(* The other, if it has, still fills the file only once.                              *)
LEMMA CurrentFits ==
  ASSUME JournalBase, Shared, NEW p \in Writers, NEW q \in Writers, opened = {p, q}, Apart(p)
  PROVE  CurrentBytes + Pending(q) <= JournalFileBytes /\ Pending(q) \in Nat
<1>1. Pending(q) \in Nat /\ Pending(q) <= JournalFileBytes
  <2>1. CASE journalStep[q] = "write"
    <3>1. line[q] \in LineBytes
      BY <2>1 DEF JournalBase, HandlesKnown
    <3>2. line[q] \in Nat /\ line[q] <= JournalFileBytes
      BY <3>1, LongestKnown
    <3> QED BY <2>1, <3>2 DEF Pending
  <2> QED BY <2>1, JournalAssumption DEF Pending
<1>2. CASE CurrentBytes = 0
  BY <1>1, <1>2
<1>3. CASE CurrentBytes # 0
  <2>1. current \in 1 .. Len(size) /\ CurrentBytes = size[current] /\ size[current] \in Nat
    BY <1>3 DEF CurrentBytes, JournalBase, JournalTypeOK
  <2>2. PICK B : Shares(B)
    BY DEF Shared
  <2>3. ASSUME NEW b \in B[current]
        PROVE  /\ b[1] = q /\ b[2] \in 1 .. JournalFileBytes /\ b = <<b[1], b[2]>>
               /\ Active(q) => b[2] \in 1 .. journalBytes[q]
    <3>1. b \in opened \X (1 .. JournalFileBytes)
      BY <2>1, <2>2, SharesFinite DEF JournalBase
    <3>2. /\ ~Initial(b[1]) /\ (Active(b[1]) => handle[b[1]] = current)
          /\ handle[b[1]] = current => b[2] <= journalBytes[b[1]]
      BY <2>1, <2>2 DEF Shares
    <3>3. b[1] \in opened /\ b[2] \in 1 .. JournalFileBytes /\ b = <<b[1], b[2]>>
      BY <3>1
    <3>4. b[1] # p
      BY <3>2, <3>3 DEF Apart
    <3>5. journalBytes[q] \in Nat
      BY DEF JournalBase, JournalTypeOK
    <3> QED BY <3>2, <3>3, <3>4, <3>5
  <2>4. CASE journalStep[q] # "write"
    <3>1. B[current] \subseteq {q} \X (1 .. JournalFileBytes)
      BY <2>3
    <3>2. size[current] <= JournalFileBytes
      BY <2>1, <2>2, <3>1, SharesOfOne, JournalAssumption DEF JournalBase
    <3> QED BY <2>1, <2>4, <3>2, JournalAssumption DEF Pending
  <2>5. CASE journalStep[q] = "write"
    <3>1. B[current] \subseteq {q} \X (1 .. journalBytes[q]) /\ journalBytes[q] \in Nat
      BY <2>3, <2>5 DEF Active, JournalBase, JournalTypeOK
    <3>2. size[current] <= journalBytes[q]
      BY <2>1, <2>2, <3>1, SharesOfOne DEF JournalBase
    <3>3. journalBytes[q] + line[q] <= JournalFileBytes
      BY <2>5 DEF JournalBase, HandlesKnown
    <3>4. Pending(q) = line[q]
      BY <2>5 DEF Pending
    <3> QED BY <1>1, <2>1, <3>1, <3>2, <3>3, <3>4, JournalAssumption
  <2> QED BY <2>4, <2>5
<1> QED BY <1>2, <1>3

(* What a step does to the whole.                                                     *)
LEMMA TotalWritten ==
  ASSUME JournalBase, NEW p \in Writers, Journal!write(p)
  PROVE  Total' <= Total + line[p] /\ Total' \in Nat /\ Total \in Nat /\ line[p] \in Nat /\ Present' = Present
<1>1. handle[p] \in DOMAIN size /\ line[p] \in LineBytes
  BY DEF JournalBase, JournalTypeOK, HandlesKnown, Using, Journal!write
<1>2. line[p] \in Nat
  BY <1>1, LongestKnown
<1>3. Present' = Present /\ size' = [size EXCEPT ![handle[p]] = @ + line[p]]
  BY DEF Present, Journal!write
<1>4. Present \subseteq DOMAIN size /\ size \in Seq(Nat) /\ Total \in Nat
  BY TotalKnown DEF JournalBase
<1>5. /\ size' \in Seq(Nat) /\ Len(size') = Len(size)
      /\ Cardinality(Bytes(size', Present)) <= Cardinality(Bytes(size, Present)) + line[p]
  BY <1>1, <1>2, <1>3, <1>4, BytesAdded
<1>6. Cardinality(Bytes(size', Present)) \in Nat
  BY <1>4, <1>5, BytesFinite
<1>7. Total = Cardinality(Bytes(size, Present)) /\ Total' = Cardinality(Bytes(size', Present))
  BY <1>3, TotalIs
<1> QED BY <1>2, <1>3, <1>4, <1>5, <1>6, <1>7

LEMMA TotalOpened ==
  ASSUME JournalBase, NEW p \in Writers, Journal!openCurrent(p)
  PROVE  Total' <= Total /\ Total' \in Nat /\ Total \in Nat
<1>1. Present \subseteq DOMAIN size /\ size \in Seq(Nat) /\ Total \in Nat
  BY TotalKnown DEF JournalBase
<1>2. CASE current # 0
  <2>1. Present' \subseteq Present /\ size' = size
    BY <1>2 DEF Present, Journal!openCurrent, Journal!None
  <2> QED BY <2>1, TotalFalls DEF JournalBase
<1>3. CASE current = 0
  <2>1. Present' = Present \cup {Len(size) + 1} /\ size' = Append(size, 0)
    BY <1>1, <1>3 DEF Present, Journal!openCurrent, Journal!None
  <2>2. Bytes(size', Present') = Bytes(size, Present)
    <3>1. \A f \in Present : size'[f] = size[f]
      BY <1>1, <2>1
    <3>2. size'[Len(size) + 1] = 0
      BY <1>1, <2>1
    <3>3. ASSUME NEW x PROVE x \in Bytes(size', Present') <=> x \in Bytes(size, Present)
      <4>1. ASSUME NEW f \in Present PROVE x \in {f} \X (1 .. size'[f]) <=> x \in {f} \X (1 .. size[f])
        BY <3>1
      <4>2. x \notin {Len(size) + 1} \X (1 .. 0)
        OBVIOUS
      <4>3. x \in Bytes(size', Present') <=> \E f \in Present' : x \in {f} \X (1 .. size'[f])
        BY DEF Bytes
      <4>4. x \in Bytes(size, Present) <=> \E f \in Present : x \in {f} \X (1 .. size[f])
        BY DEF Bytes
      <4> QED BY <2>1, <3>2, <4>1, <4>2, <4>3, <4>4
    <3> QED BY <3>3
  <2>3. Total = Cardinality(Bytes(size, Present)) /\ Total' = Cardinality(Bytes(size', Present'))
    BY TotalIs
  <2> QED BY <1>1, <2>2, <2>3
<1> QED BY <1>2, <1>3

LEMMA TotalRemains ==
  ASSUME JournalBase, NEW p \in Writers, ~Journal!StatFails(p), NEW saved \in Journal!Newest(p),
         Journal!RemoveAllBut(p, saved), current' = current, size' = size
  PROVE  /\ rotated' \subseteq rotated /\ Present' \subseteq Present
         /\ Total' <= Total /\ Total' \in Nat /\ Total \in Nat
         /\ Journal!TotalBytes(saved, journalSeen[p].current) \in Nat
         /\ ~Behind(p) => Total' <= Journal!TotalBytes(saved, journalSeen[p].current)
         /\ ~Behind(p) /\ saved = {} => Total' <= CurrentBytes
         /\ ~Missing(p) => ~Behind(p)
         /\ ~Missing(p) => rotated' = saved
<1> DEFINE listed == saved \cup (IF journalSeen[p].current THEN {current} \ {0} ELSE {})
<1>1. rotated' \subseteq rotated /\ Present' \subseteq Present /\ rotated' = rotated \ (journalSeen[p].rotated \ saved)
  BY DEF Journal!RemoveAllBut, Present
<1>2. Total' <= Total /\ Total' \in Nat /\ Total \in Nat
  BY <1>1, TotalFalls DEF JournalBase
<1>3. Present \subseteq DOMAIN size /\ size \in Seq(Nat)
  BY TotalKnown DEF JournalBase
<1>4. /\ saved \subseteq journalSeen[p].rotated /\ journalSeen[p].rotated \subseteq rotated
      /\ journalSeen[p].current \in BOOLEAN
      /\ current \notin journalSeen[p].rotated /\ current \notin rotated
      /\ journalSeen[p].current => current # 0
  BY DEF Journal!Newest, Journal!StatFails, Journal!None, JournalBase, JournalTypeOK, HandlesKnown
<1>5. listed \subseteq DOMAIN size
  BY <1>3, <1>4 DEF Present
<1>6. /\ Journal!TotalBytes(saved, journalSeen[p].current) = Cardinality(Bytes(size, listed))
      /\ Cardinality(Bytes(size, listed)) \in Nat
  <2>1. Journal!TotalBytes(saved, journalSeen[p].current) = Cardinality(Bytes(size, listed))
    BY <1>4, TotalIs
  <2> HIDE DEF listed
  <2> QED BY <1>3, <1>5, <2>1, BytesFinite
<1>7. Total' = Cardinality(Bytes(size, Present'))
  BY TotalIs
<1>8. ASSUME ~Behind(p) PROVE \A f \in Present' \ listed : size[f] = 0
  <2>1. \A f \in Present \ Listed(p) : ~(size[f] > 0) /\ size[f] \in Nat
    BY <1>3, <1>8 DEF Behind
  <2>2. ASSUME NEW f \in Present' \ listed PROVE f \in Present \ Listed(p)
    BY <1>1, <1>4, <2>2 DEF Listed, Present
  <2> QED BY <2>1, <2>2
<1>9. ~Behind(p) => Total' <= Journal!TotalBytes(saved, journalSeen[p].current)
  <2> HIDE DEF listed
  <2> QED BY <1>1, <1>3, <1>5, <1>6, <1>7, <1>8, BytesFewer
<1>10. ASSUME ~Behind(p), saved = {} PROVE Total' <= CurrentBytes
  <2>1. CASE current = 0
    <3>1. \A f \in Present' \ {} : size[f] = 0
      BY <1>8, <1>10, <2>1
    <3>2. Cardinality(Bytes(size, Present')) <= Cardinality(Bytes(size, {}))
      BY <1>1, <1>3, <3>1, BytesFewer
    <3>3. Cardinality(Bytes(size, {})) = 0
      BY FS_EmptySet DEF Bytes
    <3> QED BY <1>7, <2>1, <3>2, <3>3 DEF CurrentBytes
  <2>2. CASE current # 0
    <3>1. current \in DOMAIN size
      BY <1>3, <2>2 DEF Present
    <3>2. \A f \in Present' \ {current} : size[f] = 0
      BY <1>8, <1>10, <2>2
    <3>3. Cardinality(Bytes(size, Present')) <= Cardinality(Bytes(size, {current}))
      BY <1>1, <1>3, <3>1, <3>2, BytesFewer
    <3> QED BY <1>3, <1>7, <2>2, <3>1, <3>3, BytesOfFile DEF CurrentBytes
  <2> QED BY <2>1, <2>2
<1>11. ~Missing(p) => ~Behind(p)
  BY DEF Missing, Behind
<1>12. ~Missing(p) => rotated' = saved
  BY <1>1, <1>4 DEF Missing, Listed, Present
<1> QED BY <1>1, <1>2, <1>6, <1>9, <1>10, <1>11, <1>12

(* Who acts is among those that opened the journal; the first to open it finds nothing. *)
LEMMA JournalActor ==
  ASSUME JournalBase, NEW p \in Writers, Journal!Process(p)
  PROVE  /\ p \in opened'
         /\ ~Journal!open(p) => p \in opened /\ opened' = opened
         /\ Journal!open(p) => p \notin opened /\ opened' = opened \cup {p}
         /\ Journal!LongestLine \in Nat /\ JournalFileBytes \in Nat /\ JournalTotalBytes \in Nat
         /\ JournalFileBytes <= JournalTotalBytes /\ JournalFiles \in Nat \ {0}
<1>1. CASE Journal!open(p)
  BY <1>1, LongestKnown, JournalAssumption DEF Journal!open
<1>2. CASE ~Journal!open(p)
  <2>1. journalStep[p] # "closed" /\ opened' = opened
    BY <1>2 DEF Journal!Process, Journal!readdir, Journal!prune, Journal!openCurrent, Journal!append, Journal!rotate,
              Journal!makeTotalCapacity, Journal!write, Journal!close, Journal!disable
  <2> QED BY <1>2, <2>1, LongestKnown, JournalAssumption DEF JournalBase, HandlesKnown
<1> QED BY <1>1, <1>2

LEMMA JournalStepAlone ==
  ASSUME JournalBase, JournalBase', Shared, Alone, NEW p \in Writers, Journal!Process(p)
  PROVE  Alone'
<1> USE DEF Journal!GoTo, Journal!dirVars, Journal!None
<1>0. /\ p \in opened'
      /\ ~Journal!open(p) => p \in opened /\ opened' = opened
      /\ Journal!open(p) => p \notin opened /\ opened' = opened \cup {p}
      /\ Journal!LongestLine \in Nat /\ JournalFileBytes \in Nat /\ JournalTotalBytes \in Nat
      /\ JournalFileBytes <= JournalTotalBytes /\ JournalFiles \in Nat \ {0}
  BY JournalActor
<1>1. SUFFICES ASSUME opened' = {p}
      PROVE  /\ journalStep'[p] # "disabled" /\ Total' <= JournalTotalBytes
             /\ journalStep'[p] = "write" => Total' + line'[p] <= JournalTotalBytes
             /\ journalStep'[p] \in {"pruning", "making"} => journalSeen'[p] = [rotated |-> rotated', current |-> current' # 0]
             /\ journalStep'[p] \in {"prune", "pruning"} \/ Cardinality(rotated') <= JournalFiles - 1
  BY <1>0 DEF Alone
<1>2. /\ journalStep \in [Writers -> JournalSteps]
      /\ journalSeen \in [Writers -> [rotated : SUBSET (1 .. Len(size)), current : BOOLEAN]]
      /\ line \in [Writers -> LineBytes \cup {0}] /\ IsFiniteSet(rotated) /\ Cardinality(rotated) \in Nat
  <2>1. IsFiniteSet(1 .. Len(size))
    BY FS_Interval DEF JournalBase, JournalTypeOK
  <2>2. IsFiniteSet(rotated)
    BY <2>1, FS_Subset DEF JournalBase, JournalTypeOK
  <2> QED BY <2>2, FS_CardinalityType DEF JournalBase, JournalTypeOK
<1>3. CASE Journal!open(p)
  <2>1. journalStep' = [journalStep EXCEPT ![p] = "prune"] /\ opened = {}
    BY <1>0, <1>1, <1>3 DEF Journal!open
  <2>2. rotated' = {} /\ current' = 0
    BY <1>3, <2>1 DEF Journal!open, JournalBase, Untouched
  <2>3. Total' = 0
    <3>1. Present' = {}
      BY <2>2 DEF Present
    <3>2. Bytes(size', {}) = {}
      BY DEF Bytes
    <3> QED BY <3>1, <3>2, TotalIs, FS_EmptySet
  <2> QED BY <1>0, <1>2, <1>3, <2>1, <2>3
<1>4. CASE ~Journal!open(p)
  <2>1. /\ opened = {p} /\ journalStep[p] # "disabled" /\ Total <= JournalTotalBytes
        /\ journalStep[p] = "write" => Total + line[p] <= JournalTotalBytes
        /\ journalStep[p] \in {"pruning", "making"} => journalSeen[p] = [rotated |-> rotated, current |-> current # 0]
        /\ journalStep[p] \in {"prune", "pruning"} \/ Cardinality(rotated) <= JournalFiles - 1
    BY <1>0, <1>1, <1>4 DEF Alone
  <2>2. Total \in Nat
    BY TotalKnown DEF JournalBase
  <2>3. journalStep[p] \in {"pruning", "making"} => ~Journal!StatFails(p) /\ ~Missing(p) /\ journalSeen[p].rotated = rotated
    <3>1. SUFFICES ASSUME journalStep[p] \in {"pruning", "making"}
                   PROVE  ~Journal!StatFails(p) /\ ~Missing(p) /\ journalSeen[p].rotated = rotated
      OBVIOUS
    <3>2. journalSeen[p].rotated = rotated /\ journalSeen[p].current = (current # 0)
      BY <2>1, <3>1
    <3> QED BY <3>2 DEF Journal!StatFails, Missing, Listed, Present
  <2>4. UNCHANGED <<size, rotated, current>> => Total' = Total
    BY DEF Total, Journal!TotalBytes
  <2>5. CASE Journal!readdir(p)
    <3>1. /\ rotated' = rotated /\ current' = current /\ size' = size /\ line' = line
          /\ journalSeen'[p] = [rotated |-> rotated, current |-> current # 0]
      BY <1>2, <2>5 DEF Journal!readdir
    <3>2. \/ journalStep[p] = "prune" /\ journalStep'[p] = "pruning"
          \/ journalStep[p] = "capacity" /\ journalStep'[p] = "making"
      BY <1>2, <2>5 DEF Journal!readdir
    <3> QED BY <2>1, <2>4, <3>1, <3>2
  <2>6. CASE Journal!prune(p)
    <3>0. journalStep[p] = "pruning"
      BY <2>6 DEF Journal!prune
    <3>1. PICK saved \in Journal!Newest(p) :
            /\ saved = {} \/ Cardinality(saved) <= JournalFiles - 1
            /\ Journal!RemoveAllBut(p, saved) /\ current' = current /\ size' = size
            /\ journalStep' = [journalStep EXCEPT ![p] = after[p]]
      BY <2>3, <2>6, <3>0, JournalCardinality DEF Journal!prune
    <3>2. Total' <= Total /\ Total' \in Nat /\ rotated' = saved
      BY <2>3, <3>0, <3>1, TotalRemains
    <3>3. journalStep'[p] \in {"initOpen", "reopen"}
      BY <1>2, <3>1 DEF JournalBase, JournalTypeOK
    <3>4. Cardinality(saved) <= JournalFiles - 1
      BY <1>0, <3>1, FS_EmptySet
    <3> QED BY <1>0, <2>1, <2>2, <3>2, <3>3, <3>4
  <2>7. CASE Journal!openCurrent(p)
    <3>1. Total' <= Total /\ Total' \in Nat
      BY <2>7, TotalOpened
    <3>2. /\ rotated' = rotated /\ journalStep'[p] \in {"rotate", "capacity", "ready"}
          /\ journalStep[p] \in {"initOpen", "reopen"}
      BY <1>2, <2>7 DEF Journal!openCurrent
    <3> QED BY <1>0, <2>1, <2>2, <3>1, <3>2
  <2>8. CASE Journal!append(p)
    <3>1. /\ journalStep[p] = "ready" /\ journalStep'[p] \in {"rotate", "capacity"}
          /\ UNCHANGED <<size, rotated, current>>
      BY <1>2, <2>8 DEF Journal!append
    <3> QED BY <2>1, <2>4, <3>1
  <2>9. CASE Journal!rotate(p)
    <3>1. journalStep'[p] = "prune" /\ Present' \subseteq Present /\ size' = size
      BY <1>2, <2>9 DEF Journal!rotate, Present
    <3>2. Total' <= Total /\ Total' \in Nat
      BY <3>1, TotalFalls DEF JournalBase
    <3> QED BY <1>0, <2>1, <2>2, <3>1, <3>2
  <2>10. CASE Journal!makeTotalCapacity(p)
    <3> DEFINE Kept(saved) == Journal!TotalBytes(saved, journalSeen[p].current)
    <3>0. journalStep[p] = "making"
      BY <2>10 DEF Journal!makeTotalCapacity
    <3>1. PICK saved \in Journal!Newest(p) :
            /\ saved = {} \/ Kept(saved) + line[p] <= JournalTotalBytes
            /\ Journal!RemoveAllBut(p, saved) /\ current' = current /\ size' = size /\ line' = line
            /\ journalStep' = [journalStep EXCEPT ![p] =
                                IF ~(Kept(saved) + line[p] <= JournalTotalBytes) /\ journalBytes[p] > 0 THEN "rotate" ELSE "write"]
      BY <2>3, <2>10, <3>0 DEF Journal!makeTotalCapacity
    <3>2. /\ rotated' \subseteq rotated /\ Total' <= Total /\ Total' \in Nat /\ Kept(saved) \in Nat
          /\ Total' <= Kept(saved)
          /\ saved = {} => Total' <= CurrentBytes
      BY <2>3, <3>0, <3>1, TotalRemains
    <3>3. Cardinality(rotated') <= JournalFiles - 1
      <4>1. IsFiniteSet(rotated') /\ Cardinality(rotated') <= Cardinality(rotated)
        BY <1>2, <3>2, FS_Subset
      <4>2. Cardinality(rotated') \in Nat
        BY <4>1, FS_CardinalityType
      <4> QED BY <1>0, <1>2, <2>1, <3>0, <4>1, <4>2
    <3>4. journalStep'[p] \in {"rotate", "write"}
      BY <1>2, <3>1
    <3>5. line[p] \in Nat /\ line[p] <= JournalFileBytes
      BY <3>0, LongestKnown DEF JournalBase, HandlesKnown
    <3>6. ASSUME journalStep'[p] = "write" PROVE Total' + line[p] <= JournalTotalBytes
      <4>1. CASE Kept(saved) + line[p] <= JournalTotalBytes
        BY <1>0, <3>2, <3>5, <4>1
      <4>2. CASE ~(Kept(saved) + line[p] <= JournalTotalBytes)
        <5>1. saved = {} /\ journalBytes[p] = 0
          BY <1>2, <3>1, <3>6, <4>2 DEF JournalBase, JournalTypeOK
        <5>2. CurrentBytes = 0
          BY <2>1, <3>0, <5>1, CurrentKnown DEF Apart, Active
        <5> QED BY <1>0, <3>2, <3>5, <5>1, <5>2
      <4> QED BY <4>1, <4>2
    <3> QED BY <1>0, <2>1, <2>2, <3>1, <3>2, <3>3, <3>4, <3>6
  <2>11. CASE Journal!write(p)
    <3>1. Total' <= Total + line[p] /\ Total' \in Nat /\ line[p] \in Nat
      BY <2>11, TotalWritten
    <3>2. journalStep[p] = "write" /\ journalStep'[p] = "ready" /\ rotated' = rotated
      BY <1>2, <2>11 DEF Journal!write
    <3> QED BY <1>0, <2>1, <2>2, <3>1, <3>2
  <2>12. CASE Journal!close(p)
    <3>1. journalStep[p] = "ready" /\ journalStep'[p] = "closed" /\ UNCHANGED <<size, rotated, current>>
      BY <1>2, <2>1, <2>12 DEF Journal!close
    <3> QED BY <2>1, <2>4, <3>1
  <2> QED BY <1>4, <2>5, <2>6, <2>7, <2>8, <2>9, <2>10, <2>11, <2>12 DEF Journal!Process
<1> QED BY <1>3, <1>4

LEMMA JournalStepPaired ==
  ASSUME JournalBase, JournalBase', Shared, Alone, Paired, NEW p \in Writers, Journal!Process(p)
  PROVE  Paired'
<1> USE DEF Journal!GoTo, Journal!dirVars, Journal!None
<1>0. /\ p \in opened'
      /\ ~Journal!open(p) => p \in opened /\ opened' = opened
      /\ Journal!open(p) => p \notin opened /\ opened' = opened \cup {p}
      /\ Journal!LongestLine \in Nat /\ JournalFileBytes \in Nat /\ JournalTotalBytes \in Nat
      /\ JournalFileBytes <= JournalTotalBytes /\ JournalFiles \in Nat \ {0}
  BY JournalActor
<1>1. /\ journalStep \in [Writers -> JournalSteps]
      /\ journalSeen \in [Writers -> [rotated : SUBSET (1 .. Len(size)), current : BOOLEAN]]
      /\ line \in [Writers -> LineBytes \cup {0}] /\ handle \in [Writers -> 0 .. Len(size)]
      /\ journalBytes \in [Writers -> Nat]
      /\ after \in [Writers -> {"initOpen", "reopen"}] /\ opened' \subseteq Writers /\ Len(size) \in Nat
      /\ Total \in Nat /\ Total' \in Nat
  <2>1. JournalTypeOK /\ JournalTypeOK'
    BY DEF JournalBase
  <2>2. Total \in Nat /\ (Total \in Nat)'
    BY <2>1, TotalKnown, PTL
  <2> QED BY <2>1, <2>2 DEF JournalTypeOK
<1>2. ASSUME NEW q \in Writers
      PROVE  /\ Pending(q) \in Nat /\ Pending(q) <= Journal!LongestLine /\ Pending(q)' \in Nat
             /\ journalStep[q] # "write" => Pending(q) = 0
             /\ journalStep[q] = "write" => Pending(q) = line[q]
             /\ journalStep'[q] # "write" => Pending(q)' = 0
             /\ journalStep'[q] = "write" => Pending(q)' = line'[q]
  <2>1. (journalStep[q] = "write" => line[q] \in LineBytes) /\ (journalStep'[q] = "write" => line'[q] \in LineBytes)
    BY DEF JournalBase, HandlesKnown
  <2> QED BY <2>1, <1>0, LongestKnown DEF Pending
<1>3. SUFFICES ASSUME NEW o \in Writers, o # p, opened' = {p, o}
               PROVE  /\ Total' + Pending(p)' + Pending(o)' <= JournalTotalBytes + Journal!LongestLine
                      /\ Lagging(p, o)' /\ Lagging(o, p)'
  <2>1. SUFFICES ASSUME NEW a, NEW b, opened' = {a, b}, a # b
                 PROVE  /\ Total' + Pending(a)' + Pending(b)' <= JournalTotalBytes + Journal!LongestLine
                        /\ Lagging(a, b)'
    BY DEF Paired
  <2>2. a \in Writers /\ b \in Writers
    BY <1>1, <2>1
  <2>3. CASE a = p
    BY <1>3, <2>1, <2>2, <2>3
  <2>4. CASE b = p
    <3>1. Total' + Pending(b)' + Pending(a)' <= JournalTotalBytes + Journal!LongestLine /\ Lagging(a, b)'
      BY <1>3, <2>1, <2>2, <2>4
    <3> QED BY <1>1, <1>2, <2>2, <3>1
  <2> QED BY <1>0, <2>1, <2>3, <2>4
<1>4. /\ journalStep'[o] = journalStep[o] /\ line'[o] = line[o] /\ journalSeen'[o] = journalSeen[o]
      /\ handle'[o] = handle[o] /\ journalBytes'[o] = journalBytes[o]
  BY <1>1, <1>3 DEF Journal!Process, Journal!open, Journal!readdir, Journal!prune, Journal!openCurrent,
     Journal!append, Journal!rotate,
         Journal!makeTotalCapacity, Journal!write, Journal!close, Journal!disable
<1>5. Pending(o)' = Pending(o)
  BY <1>4 DEF Pending
<1>6. journalStep'[p] # "making" => Lagging(o, p)'
  BY DEF Lagging
<1>7. ASSUME UNCHANGED <<rotated, current>>
      PROVE  /\ Missing(o)' = Missing(o) /\ Journal!StatFails(o)' = Journal!StatFails(o) /\ Present' = Present
             /\ size' = size => Total' = Total /\ Behind(o)' = Behind(o)
  BY <1>4, <1>7 DEF Missing, Listed, Present, Behind, Journal!StatFails, Total, Journal!TotalBytes
<1>8. CASE Journal!open(p)
  <2>1. opened = {o} /\ UNCHANGED <<rotated, current, size>> /\ journalStep' = [journalStep EXCEPT ![p] = "prune"]
    BY <1>0, <1>3, <1>8 DEF Journal!open
  <2>2. /\ Total <= JournalTotalBytes /\ (journalStep[o] = "write" => Total + line[o] <= JournalTotalBytes)
        /\ journalStep[o] = "making" => journalSeen[o] = [rotated |-> rotated, current |-> current # 0]
    BY <2>1 DEF Alone
  <2>3. journalStep[o] = "making" => ~Missing(o)
    <3>1. SUFFICES ASSUME journalStep[o] = "making" PROVE ~Missing(o)
      OBVIOUS
    <3>2. journalSeen[o].rotated = rotated /\ journalSeen[o].current = (current # 0)
      BY <2>2, <3>1
    <3> QED BY <3>2 DEF Missing, Listed, Present
  <2>4. Lagging(p, o)'
    BY <1>4, <1>7, <2>1, <2>3 DEF Lagging
  <2>5. journalStep'[p] = "prune"
    BY <1>1, <2>1
  <2> QED BY <1>0, <1>1, <1>2, <1>5, <1>6, <1>7, <2>1, <2>2, <2>4, <2>5
<1>9. CASE ~Journal!open(p)
  <2>1. /\ opened = {p, o}
        /\ Total + Pending(p) + Pending(o) <= JournalTotalBytes + Journal!LongestLine
        /\ Lagging(p, o) /\ Lagging(o, p)
    <3>1. opened = {p, o} /\ opened = {o, p}
      BY <1>0, <1>3, <1>9
    <3> QED BY <1>3, <3>1 DEF Paired
  <2>2. ASSUME UNCHANGED <<rotated, current, size>>, journalStep'[p] \notin {"write", "pruning", "making", "reopen"}
        PROVE  /\ Total' + Pending(p)' + Pending(o)' <= JournalTotalBytes + Journal!LongestLine
               /\ Lagging(p, o)' /\ Lagging(o, p)'
    <3>1. Pending(p)' = 0 /\ Total' = Total
      BY <1>2, <1>7, <2>2
    <3>2. Lagging(p, o)'
      BY <1>4, <1>7, <2>1, <2>2 DEF Lagging
    <3> QED BY <1>0, <1>1, <1>2, <1>5, <1>6, <2>1, <2>2, <3>1, <3>2
  <2>3. journalStep[o] = "making" => Active(o) /\ Using(o) /\ handle[o] # 0
    BY DEF JournalBase, HandlesKnown, Active, Using
  <2>4. CASE Journal!readdir(p)
    <3>1. /\ rotated' = rotated /\ current' = current /\ size' = size
          /\ journalSeen'[p] = [rotated |-> rotated, current |-> current # 0]
          /\ journalStep[p] \in {"prune", "capacity"} /\ journalStep'[p] \in {"pruning", "making"}
      BY <1>1, <2>4 DEF Journal!readdir
    <3>2. ~Missing(p)'
      <4>1. journalSeen'[p].rotated = rotated' /\ journalSeen'[p].current = (current' # 0)
        BY <3>1
      <4> QED BY <4>1 DEF Missing, Listed, Present
    <3>3. Lagging(o, p)'
      BY <3>2 DEF Lagging
    <3>4. Lagging(p, o)'
      BY <1>4, <1>7, <2>1, <3>1, <3>2 DEF Lagging
    <3>5. Pending(p)' = 0 /\ Pending(p) = 0 /\ Total' = Total
      BY <1>2, <1>7, <3>1
    <3> QED BY <1>5, <2>1, <3>3, <3>4, <3>5
  <2>5. CASE Journal!disable(p)
    <3>1. UNCHANGED <<rotated, current, size>> /\ journalStep'[p] = "disabled"
      BY <1>1, <2>5 DEF Journal!disable
    <3> QED BY <2>2, <3>1
  <2>6. CASE Journal!prune(p) /\ ~Journal!disable(p)
    <3>0. journalStep[p] = "pruning" /\ ~Journal!StatFails(p)
      BY <2>6 DEF Journal!prune
    <3>1. PICK saved \in Journal!Newest(p) :
            /\ saved = {} \/ Journal!TotalBytes(saved, journalSeen[p].current) <= JournalTotalBytes
            /\ Journal!RemoveAllBut(p, saved) /\ current' = current /\ size' = size
            /\ journalStep' = [journalStep EXCEPT ![p] = after[p]]
      BY <2>6 DEF Journal!prune
    <3>2. /\ rotated' \subseteq rotated /\ Present' \subseteq Present /\ Total' <= Total
          /\ Journal!TotalBytes(saved, journalSeen[p].current) \in Nat
          /\ ~Behind(p) => Total' <= Journal!TotalBytes(saved, journalSeen[p].current)
          /\ ~Behind(p) /\ saved = {} => Total' <= CurrentBytes
          /\ ~Missing(p) => ~Behind(p)
      BY <3>0, <3>1, TotalRemains
    <3>3. journalStep'[p] \in {"initOpen", "reopen"} /\ Pending(p)' = 0 /\ Pending(p) = 0
      BY <1>1, <1>2, <3>0, <3>1
    <3>4. ASSUME journalStep[o] = "making", Missing(o)' PROVE handle[o] # current' /\ Total' <= JournalTotalBytes
      <4>1. Missing(o)
        BY <1>4, <3>1, <3>2, <3>4 DEF Missing, Listed
      <4>2. handle[o] # current /\ ~Missing(p)
        BY <2>1, <3>0, <3>4, <4>1 DEF Lagging
      <4>3. CASE saved = {}
        <5>1. Apart(o)
          BY <2>3, <3>4, <4>2 DEF Apart
        <5>2. handle[p] = 0 /\ Active(p)
          BY <3>0 DEF Active, JournalBase, HandlesKnown, Using
        <5>3. CurrentBytes = 0
          <6>1. CASE current = 0
            BY <6>1 DEF CurrentBytes
          <6>2. CASE current # 0
            <7>1. Apart(p)
              BY <5>2, <6>2 DEF Apart
            <7> QED BY <2>1, <5>1, <7>1, CurrentKnown
          <6> QED BY <6>1, <6>2
        <5> QED BY <1>0, <1>1, <3>1, <3>2, <4>2, <4>3, <5>3
      <4>4. CASE saved # {}
        BY <1>0, <1>1, <3>1, <3>2, <4>2, <4>4
      <4> QED BY <4>3, <4>4
    <3>5. Lagging(p, o)'
      BY <1>4, <3>3, <3>4 DEF Lagging
    <3> QED BY <1>0, <1>1, <1>2, <1>5, <1>6, <2>1, <3>2, <3>3, <3>5
  <2>7. CASE Journal!openCurrent(p)
    <3>1. Total' <= Total
      BY <2>7, TotalOpened
    <3>2. /\ journalStep'[p] \in {"rotate", "capacity", "ready"} /\ journalStep[p] \in {"initOpen", "reopen"}
          /\ rotated' = rotated /\ Pending(p)' = 0 /\ Pending(p) = 0
      BY <1>1, <1>2, <2>7 DEF Journal!openCurrent
    <3>3. CASE current # 0
      BY <2>2, <2>7, <3>2, <3>3 DEF Journal!openCurrent
    <3>4. CASE current = 0
      <4>1. current' = Len(size) + 1 /\ size' = Append(size, 0)
        BY <2>7, <3>4 DEF Journal!openCurrent
      <4>2. size'[current'] = 0 /\ \A f \in Present : size'[f] = size[f]
        <5>1. Present \subseteq DOMAIN size /\ size \in Seq(Nat)
          BY TotalKnown DEF JournalBase
        <5> QED BY <4>1, <5>1
      <4>3. handle[o] # current'
        BY <1>1, <4>1
      <4>4. ASSUME Behind(o)', ~Journal!StatFails(o)', journalStep[o] = "making" PROVE Total <= JournalTotalBytes
        <5>1. PICK f \in Present' \ Listed(o)' : size'[f] > 0
          BY <4>4 DEF Behind
        <5>2. f # current' /\ f \in Present /\ f \notin Listed(o) /\ size[f] > 0
          BY <1>4, <3>2, <3>4, <4>2, <5>1 DEF Present, Listed
        <5>3. Behind(o) /\ Missing(o)
          BY <5>2 DEF Behind, Missing
        <5>4. CASE journalStep[p] = "reopen"
          BY <2>1, <4>4, <5>3, <5>4 DEF Lagging
        <5>5. CASE journalStep[p] = "initOpen"
          <6>1. handle[o] = current
            BY <2>1, <2>3, <4>4, <5>5 DEF JournalBase, Settled, Initial
          <6> QED BY <2>3, <3>4, <4>4, <6>1
        <5> QED BY <3>2, <5>4, <5>5
      <4>5. Lagging(p, o)'
        BY <1>0, <1>1, <1>4, <3>1, <3>2, <4>3, <4>4 DEF Lagging
      <4> QED BY <1>0, <1>1, <1>2, <1>5, <1>6, <2>1, <3>1, <3>2, <4>5
    <3> QED BY <3>3, <3>4
  <2>8. CASE Journal!append(p)
    <3>1. journalStep'[p] \in {"rotate", "capacity"} /\ UNCHANGED <<size, rotated, current>>
      BY <1>1, <2>8 DEF Journal!append
    <3> QED BY <2>2, <3>1
  <2>9. CASE Journal!rotate(p)
    <3>1. journalStep'[p] = "prune" /\ size' = size /\ journalStep[p] = "rotate"
      BY <1>1, <2>9 DEF Journal!rotate
    <3>2. CASE ~(current # 0 /\ size[current] > 0)
      BY <2>2, <2>9, <3>1, <3>2 DEF Journal!rotate
    <3>3. CASE current # 0 /\ size[current] > 0
      <4>1. rotated' = rotated \cup {current} /\ current' = 0
        BY <2>9, <3>3 DEF Journal!rotate
      <4>2. Present' = Present
        BY <3>3, <4>1 DEF Present
      <4>3. Total' = Total
        BY <3>1, <4>2, TotalIs
      <4>4. current \notin journalSeen[o].rotated
        BY DEF JournalBase, HandlesKnown
      <4>5. ASSUME journalStep[o] = "making", Behind(o)', ~Journal!StatFails(o)' PROVE Total <= JournalTotalBytes
        <5>1. ~journalSeen[o].current /\ journalSeen[o].rotated \subseteq rotated
          BY <1>4, <4>1, <4>4, <4>5 DEF Journal!StatFails
        <5>2. ~Journal!StatFails(o) /\ Listed(o)' = Listed(o)
          BY <1>4, <5>1 DEF Journal!StatFails, Listed
        <5>3. Behind(o) /\ Missing(o)
          BY <3>1, <4>2, <4>5, <5>2 DEF Behind, Missing
        <5> QED BY <2>1, <4>5, <5>2, <5>3 DEF Lagging
      <4>6. Lagging(p, o)'
        BY <1>4, <2>3, <3>1, <4>1, <4>3, <4>5 DEF Lagging
      <4>7. Pending(p)' = 0 /\ Pending(p) = 0
        BY <1>2, <3>1
      <4> QED BY <1>5, <1>6, <2>1, <3>1, <4>3, <4>6, <4>7
    <3> QED BY <3>2, <3>3
  <2>10. CASE Journal!makeTotalCapacity(p) /\ ~Journal!disable(p)
    <3> DEFINE Kept(saved) == Journal!TotalBytes(saved, journalSeen[p].current)
    <3>0. journalStep[p] = "making" /\ ~Journal!StatFails(p)
      BY <2>10 DEF Journal!makeTotalCapacity
    <3>1. PICK saved \in Journal!Newest(p) :
            /\ saved = {} \/ Kept(saved) + line[p] <= JournalTotalBytes
            /\ Journal!RemoveAllBut(p, saved) /\ current' = current /\ size' = size /\ line' = line
            /\ journalStep' = [journalStep EXCEPT ![p] =
                                IF ~(Kept(saved) + line[p] <= JournalTotalBytes) /\ journalBytes[p] > 0 THEN "rotate" ELSE "write"]
      BY <2>10 DEF Journal!makeTotalCapacity
    <3>2. /\ rotated' \subseteq rotated /\ Present' \subseteq Present /\ Total' <= Total /\ Kept(saved) \in Nat
          /\ ~Behind(p) => Total' <= Kept(saved)
          /\ ~Behind(p) /\ saved = {} => Total' <= CurrentBytes
          /\ ~Missing(p) => ~Behind(p)
      BY <3>0, <3>1, TotalRemains
    <3> HIDE DEF Kept
    <3>3. journalStep'[p] \in {"rotate", "write"} /\ Pending(p) = 0 /\ line'[p] = line[p]
      BY <1>1, <1>2, <3>0, <3>1
    <3>4. line[p] \in Nat /\ line[p] <= JournalFileBytes /\ line[p] <= Journal!LongestLine
      BY <3>0, LongestKnown DEF JournalBase, HandlesKnown
    <3>5. journalStep'[p] = "write" => Kept(saved) + line[p] <= JournalTotalBytes \/ (saved = {} /\ journalBytes[p] = 0)
      BY <1>1, <3>1
    <3>6. CurrentBytes \in Nat
      BY CurrentKnown
    <3>7. ASSUME journalStep[o] = "making", Missing(o)'
          PROVE  /\ handle[o] # current' /\ (journalStep'[p] = "write" => Total' + line[p] <= JournalTotalBytes)
                 /\ Behind(o)' /\ ~Journal!StatFails(o)' => Total' <= JournalTotalBytes
      <4>1. Missing(o)
        BY <1>4, <3>1, <3>2, <3>7 DEF Missing, Listed
      <4>2. handle[o] # current /\ ~Missing(p)
        BY <2>1, <3>0, <3>7, <4>1 DEF Lagging
      <4>3. ASSUME journalStep'[p] = "write" PROVE Total' + line[p] <= JournalTotalBytes
        <5>1. CASE Kept(saved) + line[p] <= JournalTotalBytes
          BY <1>0, <1>1, <3>2, <3>4, <4>2, <5>1
        <5>2. CASE saved = {} /\ journalBytes[p] = 0
          <6>1. Apart(p) /\ Apart(o)
            BY <2>3, <3>0, <3>7, <4>2, <5>2 DEF Apart, Active
          <6>2. CurrentBytes = 0
            BY <2>1, <6>1, CurrentKnown
          <6> QED BY <1>0, <1>1, <3>2, <3>4, <4>2, <5>2, <6>2
        <5> QED BY <3>5, <4>3, <5>1, <5>2
      <4>4. ASSUME Behind(o)', ~Journal!StatFails(o)' PROVE Total' <= JournalTotalBytes
        <5>1. Behind(o) /\ ~Journal!StatFails(o)
          BY <1>4, <3>1, <3>2, <4>4 DEF Behind, Listed, Journal!StatFails
        <5>2. Total <= JournalTotalBytes
          BY <2>1, <3>7, <4>1, <5>1 DEF Lagging
        <5> QED BY <1>0, <1>1, <3>2, <5>2
      <4> QED BY <3>1, <4>2, <4>3, <4>4
    <3>8. Lagging(p, o)'
      BY <1>4, <3>3, <3>7 DEF Lagging
    <3>9. CASE journalStep'[p] = "rotate"
      <4>1. Pending(p)' = 0 /\ Pending(o) \in Nat
        BY <1>2, <3>9
      <4>2. Total' + Pending(p)' + Pending(o) <= Total + Pending(p) + Pending(o)
        BY <1>1, <3>2, <3>3, <4>1
      <4>3. Total' + Pending(p)' + Pending(o) <= JournalTotalBytes + Journal!LongestLine
        BY <1>0, <1>1, <2>1, <3>3, <4>1, <4>2
      <4> QED BY <1>5, <1>6, <3>8, <3>9, <4>3
    <3>10. CASE journalStep'[p] = "write"
      <4>1. Pending(p)' = line[p] /\ Pending(o) \in Nat /\ Pending(o) <= Journal!LongestLine
        BY <1>2, <3>3, <3>10
      <4>2. CASE Behind(p)
        <5>1. Missing(p)
          BY <4>2 DEF Behind, Missing
        <5>2. Total + Pending(o) <= JournalTotalBytes
          BY <1>0, <1>1, <1>2, <2>1, <3>0, <4>2, <5>1 DEF Lagging
        <5>3. Total' + Pending(p)' + Pending(o) <= JournalTotalBytes + Journal!LongestLine
          BY <1>0, <1>1, <3>2, <3>4, <4>1, <5>2
        <5> QED BY <1>5, <1>6, <3>8, <3>10, <5>3
      <4>3. CASE ~Behind(p)
        <5>1. CASE Kept(saved) + line[p] <= JournalTotalBytes
          <6>1. Total' + Pending(p)' + Pending(o) <= JournalTotalBytes + Journal!LongestLine
            BY <1>0, <1>1, <3>2, <3>4, <4>1, <4>3, <5>1
          <6> QED BY <1>5, <1>6, <3>8, <3>10, <6>1
        <5>2. CASE saved = {} /\ journalBytes[p] = 0
          <6>1. Apart(p)
            BY <3>0, <5>2 DEF Apart, Active
          <6>2. CurrentBytes + Pending(o) <= JournalFileBytes
            BY <2>1, <6>1, CurrentFits
          <6>3. Total' + Pending(p)' + Pending(o) <= JournalTotalBytes + Journal!LongestLine
            BY <1>0, <1>1, <3>2, <3>4, <3>6, <4>1, <4>3, <5>2, <6>2
          <6> QED BY <1>5, <1>6, <3>8, <3>10, <6>3
        <5> QED BY <3>5, <3>10, <5>1, <5>2
      <4> QED BY <4>2, <4>3
    <3> QED BY <3>3, <3>9, <3>10
  <2>11. CASE Journal!write(p)
    <3>1. Total' <= Total + line[p] /\ line[p] \in Nat /\ Present' = Present
      BY <2>11, TotalWritten
    <3>2. journalStep[p] = "write" /\ journalStep'[p] = "ready" /\ rotated' = rotated /\ current' = current
      BY <1>1, <2>11 DEF Journal!write
    <3>3. Pending(p) = line[p] /\ Pending(p)' = 0
      BY <1>2, <3>2
    <3>4. journalStep[o] = "making" /\ Missing(o)' => handle[o] # current' /\ Total' <= JournalTotalBytes
      <4>1. SUFFICES ASSUME journalStep[o] = "making", Missing(o)' PROVE handle[o] # current' /\ Total' <= JournalTotalBytes
        OBVIOUS
      <4>2. Missing(o)
        BY <1>7, <3>2, <4>1
      <4>3. handle[o] # current /\ Total + line[p] <= JournalTotalBytes
        BY <2>1, <3>2, <4>1, <4>2 DEF Lagging
      <4> QED BY <1>0, <1>1, <3>1, <3>2, <4>3
    <3>5. Lagging(p, o)'
      BY <1>4, <3>2, <3>4 DEF Lagging
    <3>6. Total' + Pending(p)' + Pending(o) <= Total + Pending(p) + Pending(o)
      BY <1>1, <1>2, <3>1, <3>3
    <3>7. Total' + Pending(p)' + Pending(o) <= JournalTotalBytes + Journal!LongestLine
      BY <1>0, <1>1, <1>2, <2>1, <3>6
    <3> QED BY <1>5, <1>6, <3>2, <3>5, <3>7
  <2>12. CASE Journal!close(p)
    <3>1. journalStep'[p] = "closed" /\ UNCHANGED <<size, rotated, current>>
      BY <1>1, <2>12 DEF Journal!close
    <3> QED BY <2>2, <3>1
  <2> QED BY <1>9, <2>4, <2>5, <2>6, <2>7, <2>8, <2>9, <2>10, <2>11, <2>12 DEF Journal!Process
<1> QED BY <1>8, <1>9

-----------------------------------------------------------------------------
LEMMA JournalInit == Journal!Init => JournalInv
<1> SUFFICES ASSUME Journal!Init PROVE JournalInv
  OBVIOUS
<1> USE DEF Journal!Init, Journal!None, Journal!Unlisted
<1>1. JournalTypeOK
  BY FS_EmptySet, JournalAssumption DEF JournalTypeOK, JournalSteps
<1>2. HandlesKnown /\ Untouched /\ Settled /\ Alone /\ Paired
  BY DEF HandlesKnown, Untouched, Settled, Alone, Paired, Using, Initial
<1>3. Shares(<<>>)
  BY DEF Shares
<1> QED BY <1>1, <1>2, <1>3 DEF JournalInv, JournalBase, Shared

LEMMA JournalProcessBase ==
  ASSUME JournalBase, NEW p \in Writers, Journal!Process(p)
  PROVE  JournalBase'
BY JournalOpenBase, JournalReaddirBase, JournalPruneBase, JournalOpenCurrentBase, JournalAppendBase,
   JournalRotateBase,
   JournalMakeTotalCapacityBase, JournalWriteBase, JournalCloseBase DEF Journal!Process

LEMMA JournalStep == JournalInv /\ [Journal!Next]_theJournal => JournalInv'
<1> SUFFICES ASSUME JournalInv, [Journal!Next]_theJournal PROVE JournalInv'
  OBVIOUS
<1>1. ASSUME NEW p \in Writers, Journal!Process(p) PROVE JournalInv'
  <2>1. JournalBase'
    BY <1>1, JournalProcessBase DEF JournalInv
  <2>2. Shared' /\ Alone' /\ Paired'
    BY <1>1, <2>1, JournalStepShared, JournalStepAlone, JournalStepPaired DEF JournalInv
  <2> QED BY <2>1, <2>2 DEF JournalInv
<1>2. CASE UNCHANGED theJournal
  <2>1. /\ UNCHANGED <<rotated, current, size, journalStep, after, line, handle, journalBytes, journalSeen, opened, appends>>
    BY <1>2 DEF theJournal
  <2>2. JournalBase'
    BY <2>1 DEF JournalInv, JournalBase, JournalTypeOK, HandlesKnown, Untouched, Settled, Using, Initial
  <2>3. Shared'
    BY <2>1 DEF JournalInv, Shared, Shares, Initial, Active
  <2>4. Total' = Total /\ Present' = Present
    BY <2>1 DEF Total, Journal!TotalBytes, Present
  <2>5. Alone'
    BY <2>1, <2>4 DEF JournalInv, Alone
  <2>6. Paired'
    BY <2>1, <2>4 DEF JournalInv, Paired, Pending, Lagging, Missing, Behind, Listed, Journal!StatFails, Journal!None
  <2> QED BY <2>2, <2>3, <2>5, <2>6 DEF JournalInv
<1> QED BY <1>1, <1>2 DEF Journal!Next

LEMMA JournalBounded == JournalInv => JournalIsBounded
<1> SUFFICES ASSUME JournalInv PROVE JournalIsBounded
  OBVIOUS
<1>1. /\ IsFiniteSet(opened) /\ opened \subseteq Writers /\ size \in Seq(Nat) /\ Cardinality(opened) \in Nat
      /\ JournalTypeOK /\ JournalBase /\ Shared /\ Alone /\ Paired
  BY FS_CardinalityType DEF JournalInv, JournalBase, JournalTypeOK
<1>2. Journal!Others = Cardinality(opened) - 1
  BY JournalCardinality DEF Journal!Others
<1>3. ASSUME Journal!Others = 0 PROVE \E p \in Writers : opened = {p}
  <2>1. Cardinality(opened) = 1
    BY <1>1, <1>2, <1>3
  <2> QED BY <1>1, <2>1, FS_Singleton
<1>4. ASSUME Journal!Others = 1 PROVE \E p, q \in Writers : opened = {p, q} /\ p # q
  <2>1. Cardinality(opened) = 2
    BY <1>1, <1>2, <1>4
  <2>2. PICK p \in opened : TRUE
    BY <2>1, FS_EmptySet
  <2>3. IsFiniteSet(opened \ {p}) /\ Cardinality(opened \ {p}) = Cardinality(opened) - 1
    BY <1>1, <2>2, FS_RemoveElement
  <2>4. PICK q : opened \ {p} = {q}
    BY <2>1, <2>3, FS_Singleton
  <2>5. opened = {p, q} /\ p # q /\ p \in Writers /\ q \in Writers
    BY <1>1, <2>2, <2>4
  <2> QED BY <2>5
<1>5. ASSUME Journal!Others = 0
      PROVE  /\ \A p \in opened : /\ journalStep[p] # "disabled"
                                  /\ journalStep[p] = "ready" => Cardinality(rotated) <= JournalFiles - 1
             /\ Total <= JournalTotalBytes
  <2>1. PICK p \in Writers : opened = {p}
    BY <1>3, <1>5
  <2> QED BY <1>1, <2>1 DEF Alone
<1>6. ASSUME Journal!Others = 1 PROVE Total <= JournalTotalBytes + Journal!LongestLine
  <2>1. PICK p, q \in Writers : opened = {p, q} /\ p # q
    BY <1>4, <1>6
  <2>2. Total + Pending(p) + Pending(q) <= JournalTotalBytes + Journal!LongestLine
    BY <1>1, <2>1 DEF Paired
  <2>3. ASSUME NEW r \in Writers PROVE Pending(r) \in Nat
    BY <1>1, LongestKnown DEF Pending, JournalBase, HandlesKnown
  <2>4. Total \in Nat /\ JournalTotalBytes \in Nat /\ Journal!LongestLine \in Nat
    BY <1>1, TotalKnown, LongestKnown, JournalAssumption
  <2> QED BY <2>2, <2>3, <2>4
<1>7. ASSUME NEW f \in DOMAIN size PROVE size[f] <= JournalFileBytes * (1 + Journal!Others)
  <2>1. PICK B : Shares(B)
    BY <1>1 DEF Shared
  <2>2. f \in 1 .. Len(size)
    BY <1>1
  <2>3. IsFiniteSet(B[f]) /\ Cardinality(B[f]) = size[f] /\ B[f] \subseteq opened \X (1 .. JournalFileBytes)
    BY <1>1, <2>1, <2>2, SharesFinite
  <2>4. IsFiniteSet(1 .. JournalFileBytes) /\ Cardinality(1 .. JournalFileBytes) = JournalFileBytes
    BY FS_Interval, JournalAssumption
  <2>5. /\ IsFiniteSet(opened \X (1 .. JournalFileBytes))
        /\ Cardinality(opened \X (1 .. JournalFileBytes)) = Cardinality(opened) * JournalFileBytes
    BY <1>1, <2>4, FS_Product
  <2>6. size[f] <= Cardinality(opened) * JournalFileBytes
    BY <2>3, <2>5, FS_Subset
  <2>7. \A n, k \in Nat : n * k = k * (1 + (n - 1))
    OBVIOUS
  <2> QED BY <1>1, <1>2, <2>6, <2>7, JournalAssumption
<1> QED BY <1>5, <1>6, <1>7, JournalCardinality DEF JournalIsBounded, Journal!JournalIsBounded, Total

LEMMA JournalMove == [MC_Next]_<<focus, theLock, theProcess, theRun, theProtocol, theEngine, theScope, theJournal>>
                     => [Journal!Next]_theJournal
  BY DEF MC_Next

(* The journal of analyses stays within its limits while one process appends to it, and *)
(* two exceed them by a line at most (src/analyze/journal.ts).                       *)
THEOREM JournalStaysBounded == MC_Spec => []JournalIsBounded
<1>1. MC_Init => JournalInv
  BY JournalInit DEF MC_Init
<1> QED BY <1>1, JournalBounded, JournalStep, JournalMove, PTL DEF MC_Spec
===============================================================================
