------------------------- MODULE SubagentSession_proof -------------------------
(***************************************************************************)
(* Theorems about SubagentSession, for any sessions, limits and bounds.      *)
(*                                                                          *)
(* Jobs: what leaves the map of a manager is finished, and of the finished    *)
(* ones the newest stay.  Transitions: the running one is the oldest, so the  *)
(* latest is alone; work that holds a lease or waits for one is that of the    *)
(* manager and the supervisor of the session, which are given up only after    *)
(* the supervisor settled.                                                   *)
(***************************************************************************)
EXTENDS SubagentSession, SequenceTheorems, FiniteSetTheorems, WellFoundedInduction, TLAPS

Statuses == {"none", "Queued", "Running", "Cancelling", "Completed", "Failed", "Interrupted",
             "Cancelled", "Rejected"}
RunStates == {"none", "queued", "leased", "working", "released", "rejected", "over"}
Transitions == [kind : {"start", "shutdown"}, generation : Generations, session : Sessions]

TypeOK ==
  /\ sessionState \in {"Inactive", "Active", "ShuttingDown"} /\ generation \in 0 .. MaxGeneration
  /\ transitions \in Seq(Transitions)
  /\ phase \in {"none", "jobs", "supervisor", "disposed", "created"}
  /\ manager \in 0 .. MaxGeneration /\ supervisor \in 0 .. MaxGeneration
  /\ registry \in [Sessions -> 0 .. MaxGeneration]
  /\ outcome \in [Generations -> {"open", "closing", "fulfilled", "rejected"}]
  /\ telemetry \subseteq Generations
  /\ jobManager \in [Jobs -> 0 .. MaxGeneration] /\ jobSupervisor \in [Jobs -> 0 .. MaxGeneration]
  /\ status \in [Jobs -> Statuses] /\ run \in [Jobs -> RunStates]
  /\ done \subseteq Jobs /\ aborted \subseteq Jobs /\ kept \subseteq Jobs

-----------------------------------------------------------------------------
(* Jobs *)

FinishedOf(m) == {j \in kept : jobManager[j] = m /\ Terminal(status[j])}

(* What is done and still runs was cancelled while it waited. *)
JobsDone ==
  \A j \in Jobs : /\ Terminal(status[j]) => j \in done
                  /\ j \in done /\ run[j] # "over" => status[j] = "Cancelled"
                  /\ status[j] = "none" => j \notin done /\ run[j] = "none" /\ jobManager[j] = 0
                  /\ j \in kept => jobManager[j] # 0

Reachable == \A j \in Jobs : jobManager[j] # 0 /\ j \notin done => j \in kept
Retained == \A m \in Generations : Cardinality(FinishedOf(m)) <= MaxRetainedJobs

JobsInv == JobsDone /\ Reachable /\ Retained

(* Of a finite set of numbers, those with fewer than n above them are at most n. *)
LEMMA NewestAreFew ==
  ASSUME NEW S \in SUBSET Nat, IsFiniteSet(S), NEW n \in Nat \ {0}
  PROVE  Cardinality({j \in S : Cardinality({i \in S : i > j}) < n}) <= n
<1> DEFINE T == {j \in S : Cardinality({i \in S : i > j}) < n}
<1>1. \A j \in T : j \in S /\ j \in Nat /\ Cardinality({i \in S : i > j}) < n
  OBVIOUS
<1>2. IsFiniteSet(T) /\ Cardinality(T) \in Nat
  BY FS_Subset, FS_CardinalityType
<1> SUFFICES Cardinality(T) <= n
  OBVIOUS
<1> HIDE DEF T
<1>3. CASE T = {}
  <2>1. Cardinality({}) = 0
    BY FS_EmptySet
  <2> QED BY <1>3, <2>1
<1>4. CASE T # {}
  <2>0. T \subseteq Nat
    BY <1>1
  <2>1. PICK m \in T : \A k \in T : <<k, m>> \notin OpToRel(<, Nat)
    BY <1>4, <2>0, NatLessThanWellFounded, WFMin
  <2>2. \A k \in T : ~(k < m)
    BY <2>0, <2>1, Zenon DEF OpToRel
  <2> DEFINE above == {i \in S : i > m}
             both == above \cup {m}
  <2>3. IsFiniteSet(above) /\ Cardinality(above) \in Nat /\ Cardinality(above) < n
    BY <1>1, FS_Subset, FS_CardinalityType
  <2>4. \A k \in T : k = m \/ k \in above
    <3> SUFFICES ASSUME NEW k \in T, k # m PROVE k > m /\ k \in S
      OBVIOUS
    <3>1. k \in Nat /\ m \in Nat /\ k \in S
      BY <1>1
    <3>2. ~(k < m)
      BY <2>2
    <3> QED BY <3>1, <3>2
  <2> HIDE DEF above
  <2>5. IsFiniteSet(both) /\ Cardinality(both) \in {Cardinality(above), Cardinality(above) + 1}
    BY <2>3, FS_AddElement
  <2>7. T \in SUBSET both
    BY <2>4
  <2> HIDE DEF both
  <2>6. Cardinality(T) <= Cardinality(both)
    BY <2>5, <2>7, FS_Subset
  <2> QED BY <1>2, <2>3, <2>5, <2>6
<1> QED BY <1>3, <1>4

(* Pruning leaves the newest of what one manager has finished. *)
LEMMA PrunedBound ==
  ASSUME kept \subseteq Jobs, NEW m, NEW st
  PROVE  LET few == {j \in Pruned(m, st) : jobManager[j] = m /\ Terminal(st[j])} IN
         Cardinality(few) <= MaxRetainedJobs
<1> DEFINE S == {j \in kept : jobManager[j] = m /\ Terminal(st[j])}
           T == {j \in S : Cardinality({i \in S : i > j}) < MaxRetainedJobs}
<1>1. S \subseteq Nat /\ IsFiniteSet(S)
  <2>1. IsFiniteSet(Jobs) /\ Jobs \subseteq Nat
    BY FS_Interval, BoundsAssumption DEF Jobs
  <2> QED BY <2>1, FS_Subset
<1>2. Cardinality(T) <= MaxRetainedJobs
  <2> HIDE DEF S
  <2> QED BY <1>1, NewestAreFew, BoundsAssumption
<1>3. \A j : {i \in S : i > j} = {i \in kept : jobManager[i] = m /\ Terminal(st[i]) /\ i > j}
  OBVIOUS
<1>4. {j \in Pruned(m, st) : jobManager[j] = m /\ Terminal(st[j])} = T
  BY <1>3 DEF Pruned
<1> QED BY <1>2, <1>4

-----------------------------------------------------------------------------
(* Transitions *)

(* The queue holds the latest requests, the newest last. *)
QueueInOrder ==
  /\ Len(transitions) <= generation
  /\ \A i \in 1 .. Len(transitions) : transitions[i].generation = generation - Len(transitions) + i
  /\ phase # "none" => transitions # <<>>
  /\ sessionState = "Active" => transitions = <<>> /\ manager = generation /\ manager # 0
  /\ transitions = <<>> /\ sessionState = "ShuttingDown" => failed

(* Manager and supervisor come and go together, and with them the telemetry. *)
Resources ==
  /\ manager = 0 <=> supervisor = 0
  /\ phase \in {"disposed", "created"} => manager = 0
  /\ phase = "supervisor" /\ supervisor # 0 => outcome[supervisor] # "open"
  /\ manager # 0 => manager \in telemetry
  /\ phase = "created" => transitions[1].generation \in telemetry
  /\ \A g \in telemetry : g = manager \/ (phase = "created" /\ g = transitions[1].generation)

Underway(j) == run[j] \in {"queued", "leased", "working"}

(* Work is that of the session; a supervisor that closes has no queue, one that  *)
(* settled no work.                                                             *)
WorkOwned ==
  \A j \in Jobs :
    Underway(j) => /\ manager # 0 /\ jobManager[j] = manager /\ jobSupervisor[j] = supervisor
                   /\ outcome[supervisor] \in {"closing", "fulfilled", "rejected"} => run[j] # "queued"
                   /\ outcome[supervisor] \in {"open", "closing"}

SessionInv == TypeOK /\ JobsInv /\ QueueInOrder /\ Resources /\ WorkOwned

-----------------------------------------------------------------------------
LEMMA InitInv == Init => SessionInv
<1> SUFFICES ASSUME Init PROVE SessionInv
  OBVIOUS
<1> USE BoundsAssumption
<1>1. TypeOK
  BY DEF Init, TypeOK, Statuses, RunStates
<1>2. Retained
  <2>1. \A m : FinishedOf(m) = {}
    BY DEF Init, FinishedOf
  <2> QED BY <2>1, FS_EmptySet DEF Retained
<1>3. JobsDone /\ Reachable
  BY DEF Init, JobsDone, Reachable, Terminal
<1>4. QueueInOrder /\ Resources /\ WorkOwned
  BY DEF Init, QueueInOrder, Resources, WorkOwned, Underway
<1> QED BY <1>1, <1>2, <1>3, <1>4 DEF SessionInv, JobsInv

(* No job moves: the bound on what is kept still holds. *)
LEMMA RetainedSame ==
  ASSUME TypeOK, Retained, \A m \in Generations : FinishedOf(m)' = FinishedOf(m)
  PROVE  Retained'
  BY DEF Retained

(* The statuses that pruning is given are those of the next state. *)
LEMMA PrunedRetained ==
  ASSUME TypeOK, Retained, NEW m, kept' = Pruned(m, status'), UNCHANGED jobManager,
         \A j \in Jobs : jobManager[j] # m => status'[j] = status[j]
  PROVE  Retained'
<1> SUFFICES ASSUME NEW n \in Generations PROVE Cardinality(FinishedOf(n)') <= MaxRetainedJobs
  BY DEF Retained
<1>1. CASE n = m
  <2>1. Cardinality({j \in Pruned(m, status') : jobManager[j] = m /\ Terminal(status'[j])}) <= MaxRetainedJobs
    BY PrunedBound DEF TypeOK
  <2>2. FinishedOf(n)' = {j \in Pruned(m, status') : jobManager[j] = m /\ Terminal(status'[j])}
    BY <1>1 DEF FinishedOf, Terminal
  <2> QED BY <2>1, <2>2
<1>2. CASE n # m
  <2>1. FinishedOf(n)' = FinishedOf(n)
    BY <1>2 DEF FinishedOf, Pruned, TypeOK
  <2> QED BY <2>1 DEF Retained
<1> QED BY <1>1, <1>2

LEMMA CancelJobsKeeps ==
  ASSUME TypeOK, JobsInv, NEW S \in SUBSET CurrentJobs, CancelJobs(S)
  PROVE  /\ JobsInv' /\ UNCHANGED <<jobManager, jobSupervisor, run>>
         /\ status' \in [Jobs -> Statuses] /\ kept' \subseteq Jobs /\ done' \subseteq Jobs /\ aborted' \subseteq Jobs
<1>1. /\ UNCHANGED <<jobManager, jobSupervisor, run>> /\ S \subseteq Jobs
      /\ done' = done \cup {j \in S : status[j] = "Queued"}
      /\ aborted' = aborted \cup {j \in S : status[j] \in {"Queued", "Running"}}
      /\ kept' = IF \E j \in S : status[j] = "Queued" THEN Pruned(manager, status') ELSE kept
  BY DEF CancelJobs, CurrentJobs, TypeOK
<1>2. /\ status' \in [Jobs -> Statuses]
      /\ \A j \in Jobs : status'[j] = IF j \notin S THEN status[j]
                                      ELSE IF status[j] = "Queued" THEN "Cancelled"
                                      ELSE IF status[j] = "Running" THEN "Cancelling"
                                      ELSE status[j]
  <2>1. status' = [j \in Jobs |-> IF j \notin S THEN status[j]
                                  ELSE IF status[j] = "Queued" THEN "Cancelled"
                                  ELSE IF status[j] = "Running" THEN "Cancelling"
                                  ELSE status[j]]
    BY DEF CancelJobs
  <2> QED BY <2>1 DEF TypeOK, Statuses
<1>3. kept' \subseteq kept /\ \A j \in kept \ kept' : Terminal(status'[j])
  BY <1>1 DEF Pruned
<1>4. JobsDone'
  BY <1>1, <1>2, <1>3 DEF TypeOK, JobsInv, JobsDone, Terminal
<1>5. Reachable'
  BY <1>1, <1>3, <1>4 DEF TypeOK, JobsInv, Reachable, JobsDone
<1>6. Retained'
  <2>1. CASE \E j \in S : status[j] = "Queued"
    <3>1. \A j \in Jobs : jobManager[j] # manager => status'[j] = status[j]
      BY <1>2 DEF CurrentJobs
    <3> QED BY <1>1, <2>1, <3>1, PrunedRetained DEF JobsInv
  <2>2. CASE ~ \E j \in S : status[j] = "Queued"
    <3>1. kept' = kept /\ \A j \in Jobs : Terminal(status'[j]) <=> Terminal(status[j])
      BY <1>1, <1>2, <2>2 DEF Terminal
    <3>2. \A m \in Generations : FinishedOf(m)' = FinishedOf(m)
      BY <1>1, <3>1 DEF FinishedOf, TypeOK
    <3> QED BY <3>2, RetainedSame DEF JobsInv
  <2> QED BY <2>1, <2>2
<1> QED BY <1>1, <1>2, <1>3, <1>4, <1>5, <1>6 DEF JobsInv, TypeOK

(* What the transitions are about does not depend on the statuses of jobs. *)
LEMMA JobsOnly ==
  ASSUME SessionInv, UNCHANGED sessionVars, UNCHANGED <<jobManager, jobSupervisor>>,
         \A j \in Jobs : Underway(j)' => Underway(j) /\ (run'[j] = "queued" => run[j] = "queued"),
         status' \in [Jobs -> Statuses], run' \in [Jobs -> RunStates],
         kept' \subseteq Jobs, done' \subseteq Jobs, aborted' \subseteq Jobs
  PROVE  TypeOK' /\ QueueInOrder' /\ Resources' /\ WorkOwned'
<1>1. TypeOK'
  BY DEF SessionInv, TypeOK, sessionVars
<1>2. QueueInOrder' /\ Resources'
  BY DEF SessionInv, QueueInOrder, Resources, sessionVars
<1>3. WorkOwned'
  BY DEF SessionInv, WorkOwned, sessionVars
<1> QED BY <1>1, <1>2, <1>3

LEMMA CancelStep ==
  ASSUME SessionInv, NEW S \in SUBSET CurrentJobs, CancelJobs(S), UNCHANGED sessionVars
  PROVE  SessionInv'
<1>1. /\ JobsInv' /\ UNCHANGED <<jobManager, jobSupervisor, run>>
      /\ status' \in [Jobs -> Statuses] /\ kept' \subseteq Jobs /\ done' \subseteq Jobs /\ aborted' \subseteq Jobs
  BY CancelJobsKeeps DEF SessionInv
<1>2. \A j \in Jobs : Underway(j)' => Underway(j) /\ (run'[j] = "queued" => run[j] = "queued")
  BY <1>1 DEF Underway
<1>3. run' \in [Jobs -> RunStates]
  BY <1>1 DEF SessionInv, TypeOK
<1> QED BY <1>1, <1>2, <1>3, JobsOnly DEF SessionInv

(* A step of the native run of one job. *)
LEMMA RunMoves ==
  ASSUME SessionInv, NEW j \in Jobs, OnAdmitted(j) \/ Grant(j) \/ AbortQueued(j) \/ Release(j)
  PROVE  SessionInv'
<1>1. /\ UNCHANGED <<sessionVars, jobManager, jobSupervisor, done, aborted, kept>>
      /\ run[j] \in {"queued", "leased", "working"}
  BY DEF OnAdmitted, Grant, AbortQueued, Release
<1>2. PICK to \in {"leased", "working", "released", "rejected"} :
        /\ run' = [run EXCEPT ![j] = to]
        /\ to \in {"leased", "working"} => Underway(j)
  BY <1>1 DEF OnAdmitted, Grant, AbortQueued, Release, Underway
<1>3. status' \in {status, [status EXCEPT ![j] = IF @ = "Queued" THEN "Running" ELSE @]}
  BY DEF OnAdmitted, Grant, AbortQueued, Release
<1>4. status' \in [Jobs -> Statuses] /\ run' \in [Jobs -> RunStates]
  BY <1>2, <1>3 DEF SessionInv, TypeOK, Statuses, RunStates
<1>5. \A i \in Jobs : /\ status'[i] = status[i] \/ (status[i] = "Queued" /\ status'[i] = "Running")
                      /\ run'[i] = run[i] \/ (i = j /\ run'[i] = to)
  BY <1>2, <1>3 DEF SessionInv, TypeOK
<1>6. TypeOK' /\ QueueInOrder' /\ Resources' /\ WorkOwned'
  <2>1. \A i \in Jobs : Underway(i)' => Underway(i) /\ (run'[i] = "queued" => run[i] = "queued")
    BY <1>2, <1>5 DEF Underway
  <2> QED BY <1>1, <1>4, <2>1, JobsOnly DEF SessionInv, TypeOK
<1>7. JobsDone'
  BY <1>1, <1>5 DEF SessionInv, JobsInv, JobsDone, Terminal
<1>8. Reachable'
  BY <1>1 DEF SessionInv, JobsInv, Reachable
<1>9. Retained'
  <2>1. \A i \in Jobs : Terminal(status'[i]) <=> Terminal(status[i])
    BY <1>5 DEF Terminal
  <2>2. \A m \in Generations : FinishedOf(m)' = FinishedOf(m)
    BY <1>1, <2>1 DEF SessionInv, TypeOK, FinishedOf
  <2> QED BY <2>2, RetainedSame DEF SessionInv, JobsInv
<1> QED BY <1>6, <1>7, <1>8, <1>9 DEF SessionInv, JobsInv

LEMMA FiberStep ==
  ASSUME SessionInv, NEW j \in Jobs, FiberEnds(j)
  PROVE  SessionInv'
<1>1. /\ UNCHANGED <<sessionVars, jobManager, jobSupervisor, aborted>>
      /\ run[j] \in {"released", "rejected"} /\ run' = [run EXCEPT ![j] = "over"]
      /\ done' = done \cup {j}
      /\ kept' = IF j \in done THEN kept ELSE Pruned(jobManager[j], status')
  BY DEF FiberEnds
<1>2. PICK r \in Result(j) : status' = [status EXCEPT ![j] = r]
  BY DEF FiberEnds
<1>3. Terminal(r) /\ r \in Statuses
  BY DEF Result, Terminal, Statuses
<1>4. /\ status' \in [Jobs -> Statuses] /\ run' \in [Jobs -> RunStates]
      /\ \A i \in Jobs : /\ status'[i] = IF i = j THEN r ELSE status[i]
                         /\ run'[i] = IF i = j THEN "over" ELSE run[i]
  BY <1>1, <1>2, <1>3 DEF SessionInv, TypeOK, RunStates
<1>5. kept' \subseteq kept /\ \A i \in kept \ kept' : Terminal(status'[i])
  BY <1>1 DEF Pruned
<1>6. TypeOK' /\ QueueInOrder' /\ Resources' /\ WorkOwned'
  <2>1. \A i \in Jobs : Underway(i)' => Underway(i) /\ (run'[i] = "queued" => run[i] = "queued")
    BY <1>4 DEF Underway
  <2> QED BY <1>1, <1>4, <1>5, <2>1, JobsOnly DEF SessionInv, TypeOK
<1>7. JobsDone'
  <2>1. status[j] # "none"
    BY <1>1 DEF SessionInv, JobsInv, JobsDone
  <2> QED BY <1>1, <1>3, <1>4, <1>5, <2>1 DEF SessionInv, JobsInv, JobsDone, Terminal
<1>8. Reachable'
  <2>1. \A i \in Jobs : Terminal(status'[i]) => i \in done'
    BY <1>7 DEF JobsDone
  <2> QED BY <1>1, <1>5, <2>1 DEF SessionInv, TypeOK, JobsInv, Reachable
<1>9. Retained'
  <2>1. CASE j \in done
    <3>1. Terminal(status[j])
      BY <1>1, <2>1 DEF SessionInv, JobsInv, JobsDone, Terminal
    <3>2. \A i \in Jobs : Terminal(status'[i]) <=> Terminal(status[i])
      BY <1>3, <1>4, <3>1
    <3>3. \A m \in Generations : FinishedOf(m)' = FinishedOf(m)
      BY <1>1, <2>1, <3>2 DEF SessionInv, TypeOK, FinishedOf
    <3> QED BY <3>3, RetainedSame DEF SessionInv, JobsInv
  <2>2. CASE j \notin done
    <3>1. \A i \in Jobs : jobManager[i] # jobManager[j] => status'[i] = status[i]
      BY <1>4
    <3> QED BY <1>1, <2>2, <3>1, PrunedRetained DEF SessionInv, JobsInv
  <2> QED BY <2>1, <2>2
<1> QED BY <1>6, <1>7, <1>8, <1>9 DEF SessionInv, JobsInv

LEMMA StartStep ==
  ASSUME SessionInv, NEW j \in Jobs, StartJob(j)
  PROVE  SessionInv'
<1>1. PICK r \in {"released", "queued", "rejected"} :
        /\ run' = [run EXCEPT ![j] = r]
        /\ r = "queued" => outcome[supervisor] = "open"
        /\ jobSupervisor' = IF r = "released" THEN jobSupervisor ELSE [jobSupervisor EXCEPT ![j] = supervisor]
  BY DEF StartJob
<1>2. /\ sessionState = "Active" /\ status[j] = "none"
      /\ jobManager' = [jobManager EXCEPT ![j] = manager] /\ status' = [status EXCEPT ![j] = "Queued"]
      /\ kept' = kept \cup {j} /\ UNCHANGED <<sessionVars, done, aborted>>
  BY DEF StartJob
<1>3. manager # 0 /\ supervisor # 0
  BY <1>2 DEF SessionInv, QueueInOrder, Resources
<1>4. TypeOK'
  BY <1>1, <1>2 DEF SessionInv, TypeOK, sessionVars, Statuses, RunStates
<1>5. QueueInOrder' /\ Resources'
  BY <1>2 DEF SessionInv, QueueInOrder, Resources, sessionVars
<1>6. WorkOwned'
  BY <1>1, <1>2, <1>3 DEF SessionInv, TypeOK, WorkOwned, Underway, sessionVars
<1>7. JobsDone' /\ Reachable'
  BY <1>1, <1>2, <1>3 DEF SessionInv, TypeOK, JobsInv, JobsDone, Reachable, Terminal
<1>8. Retained'
  <2>1. \A m \in Generations : FinishedOf(m)' = FinishedOf(m)
    <3>1. \A i \in Jobs : i # j => (i \in kept' <=> i \in kept) /\ jobManager'[i] = jobManager[i] /\ status'[i] = status[i]
      BY <1>2 DEF SessionInv, TypeOK
    <3>2. ~Terminal(status[j]) /\ ~Terminal(status'[j])
      BY <1>2 DEF SessionInv, TypeOK, Terminal
    <3> QED BY <1>4, <3>1, <3>2 DEF SessionInv, TypeOK, FinishedOf
  <2> QED BY <2>1, RetainedSame DEF SessionInv, JobsInv
<1> QED BY <1>4, <1>5, <1>6, <1>7, <1>8 DEF SessionInv, JobsInv

-----------------------------------------------------------------------------
LEMMA JobsUntouched ==
  ASSUME TypeOK, JobsInv, UNCHANGED <<jobManager, status, done, kept>>,
         \A j \in Jobs : run'[j] = run[j] \/ (run[j] = "queued" /\ run'[j] = "rejected")
  PROVE  JobsInv'
<1>1. JobsDone' /\ Reachable'
  BY DEF JobsInv, JobsDone, Reachable
<1>2. \A m \in Generations : FinishedOf(m)' = FinishedOf(m)
  BY DEF FinishedOf, TypeOK
<1> QED BY <1>1, <1>2, RetainedSame DEF JobsInv

LEMMA EnqueueStep ==
  ASSUME SessionInv, NEW s \in Sessions, StartSession(s) \/ ShutdownSession(s)
  PROVE  SessionInv'
<1>1. PICK t \in Transitions : t.generation = generation + 1 /\ Enqueue(t)
  <2>1. generation < MaxGeneration => generation + 1 \in Generations
    BY BoundsAssumption DEF SessionInv, TypeOK, Generations
  <2> QED BY <2>1 DEF StartSession, ShutdownSession, Enqueue, Transitions
<1>2. /\ generation < MaxGeneration /\ generation' = generation + 1
      /\ sessionState' = "ShuttingDown" /\ transitions' = Append(transitions, t)
      /\ UNCHANGED <<phase, failed, manager, supervisor, registry, outcome, telemetry, jobVars>>
  BY <1>1 DEF Enqueue
<1>3. /\ transitions' \in Seq(Transitions) /\ Len(transitions') = Len(transitions) + 1
      /\ \A i \in 1 .. Len(transitions) : transitions'[i] = transitions[i]
      /\ transitions'[Len(transitions) + 1] = t
  BY <1>1, <1>2, AppendProperties DEF SessionInv, TypeOK
<1>4. TypeOK'
  BY <1>2, <1>3, BoundsAssumption DEF SessionInv, TypeOK, jobVars
<1>5. JobsInv'
  BY <1>2, JobsUntouched DEF SessionInv, jobVars
<1>6. QueueInOrder'
  <2>1. Len(transitions) \in Nat /\ generation \in Nat
    BY BoundsAssumption DEF SessionInv, TypeOK
  <2>2. \A i \in 1 .. Len(transitions') : transitions'[i].generation = generation' - Len(transitions') + i
    <3> SUFFICES ASSUME NEW i \in 1 .. Len(transitions')
                 PROVE  transitions'[i].generation = generation' - Len(transitions') + i
      OBVIOUS
    <3>1. CASE i = Len(transitions) + 1
      BY <1>1, <1>2, <1>3, <2>1, <3>1
    <3>2. CASE i \in 1 .. Len(transitions)
      BY <1>2, <1>3, <2>1, <3>2 DEF SessionInv, QueueInOrder
    <3> QED BY <1>3, <2>1, <3>1, <3>2
  <2>3. transitions' # <<>>
    BY <1>3, <2>1
  <2> QED BY <1>2, <1>3, <2>1, <2>2, <2>3 DEF SessionInv, QueueInOrder
<1>7. Resources'
  <2>1. phase = "created" => transitions'[1] = transitions[1]
    BY <1>3 DEF SessionInv, TypeOK, QueueInOrder
  <2> QED BY <1>2, <2>1 DEF SessionInv, Resources
<1>8. WorkOwned'
  BY <1>2 DEF SessionInv, WorkOwned, Underway, jobVars
<1> QED BY <1>4, <1>5, <1>6, <1>7, <1>8 DEF SessionInv

LEMMA DisposeJobsStep == ASSUME SessionInv, DisposeJobs PROVE SessionInv'
<1>1. /\ phase = "none" /\ transitions # <<>> /\ phase' = "jobs"
      /\ UNCHANGED <<sessionState, generation, transitions, manager, supervisor, registry, outcome, telemetry>>
  BY DEF DisposeJobs
<1>2. /\ JobsInv' /\ UNCHANGED <<jobManager, jobSupervisor, run>>
      /\ status' \in [Jobs -> Statuses] /\ kept' \subseteq Jobs /\ done' \subseteq Jobs /\ aborted' \subseteq Jobs
  <2>1. CurrentJobs \in SUBSET CurrentJobs /\ CancelJobs(CurrentJobs)
    BY DEF DisposeJobs
  <2> QED BY <2>1, CancelJobsKeeps DEF SessionInv
<1>3. TypeOK'
  BY <1>1, <1>2 DEF SessionInv, TypeOK
<1>4. QueueInOrder' /\ Resources' /\ WorkOwned'
  BY <1>1, <1>2 DEF SessionInv, QueueInOrder, Resources, WorkOwned, Underway
<1> QED BY <1>2, <1>3, <1>4 DEF SessionInv

LEMMA DisposeSupervisorStep == ASSUME SessionInv, DisposeSupervisor PROVE SessionInv'
<1>1. /\ phase = "jobs" /\ phase' = "supervisor"
      /\ outcome' = [g \in Generations |-> IF g = supervisor /\ outcome[g] = "open" THEN "closing" ELSE outcome[g]]
      /\ run' = [j \in Jobs |-> IF jobSupervisor[j] = supervisor /\ run[j] = "queued" THEN "rejected" ELSE run[j]]
      /\ UNCHANGED <<sessionState, generation, transitions, failed, manager, supervisor,
                     registry, telemetry, jobManager, jobSupervisor, status, done, aborted, kept>>
  BY DEF DisposeSupervisor
<1>2. TypeOK'
  BY <1>1 DEF SessionInv, TypeOK, RunStates
<1>3. JobsInv'
  <2>1. \A j \in Jobs : run'[j] = run[j] \/ (run[j] = "queued" /\ run'[j] = "rejected")
    BY <1>1
  <2> QED BY <1>1, <2>1, JobsUntouched DEF SessionInv
<1>4. supervisor # 0 => supervisor \in Generations
  BY BoundsAssumption DEF SessionInv, TypeOK, Generations
<1>5. QueueInOrder' /\ Resources'
  BY <1>1, <1>4 DEF SessionInv, QueueInOrder, Resources
<1>6. WorkOwned'
  <2> SUFFICES ASSUME NEW j \in Jobs, Underway(j)'
               PROVE  /\ manager # 0 /\ jobManager[j] = manager /\ jobSupervisor[j] = supervisor
                      /\ run'[j] # "queued"
                      /\ outcome'[supervisor] \in {"open", "closing"}
    BY <1>1 DEF WorkOwned
  <2>1. run'[j] = run[j] /\ Underway(j)
    BY <1>1 DEF Underway
  <2>2. /\ manager # 0 /\ jobManager[j] = manager /\ jobSupervisor[j] = supervisor
        /\ outcome[supervisor] \in {"open", "closing"}
    BY <2>1 DEF SessionInv, WorkOwned
  <2>3. supervisor # 0
    BY <2>2 DEF SessionInv, Resources
  <2> QED BY <1>1, <1>4, <2>1, <2>2, <2>3
<1> QED BY <1>2, <1>3, <1>5, <1>6 DEF SessionInv

LEMMA SupervisorClosesStep ==
  ASSUME SessionInv, NEW g \in Generations, SupervisorCloses(g)
  PROVE  SessionInv'
<1>1. /\ outcome[g] = "closing" /\ Leased(g) = {}
      /\ UNCHANGED <<sessionState, generation, transitions, phase, failed, manager, supervisor, registry, telemetry, jobVars>>
  BY DEF SupervisorCloses
<1>2. PICK o \in {"fulfilled", "rejected"} : outcome' = [outcome EXCEPT ![g] = o]
  BY DEF SupervisorCloses
<1>3. TypeOK'
  BY <1>1, <1>2 DEF SessionInv, TypeOK, jobVars
<1>4. JobsInv'
  BY <1>1, JobsUntouched DEF SessionInv, jobVars
<1>5. QueueInOrder' /\ Resources'
  BY <1>1, <1>2 DEF SessionInv, TypeOK, QueueInOrder, Resources
<1>6. WorkOwned'
  <2> SUFFICES ASSUME NEW j \in Jobs, Underway(j)
               PROVE  /\ manager # 0 /\ jobManager[j] = manager /\ jobSupervisor[j] = supervisor
                      /\ outcome'[supervisor] = outcome[supervisor]
    BY <1>1 DEF SessionInv, WorkOwned, Underway, jobVars
  <2>1. /\ manager # 0 /\ jobManager[j] = manager /\ jobSupervisor[j] = supervisor
        /\ outcome[supervisor] \in {"closing"} => run[j] # "queued"
    BY DEF SessionInv, WorkOwned
  <2>2. supervisor # g
    BY <1>1, <2>1 DEF Underway, Leased
  <2> QED BY <1>2, <2>1, <2>2 DEF SessionInv, TypeOK
<1> QED BY <1>3, <1>4, <1>5, <1>6 DEF SessionInv

LEMMA DisposeTelemetryStep == ASSUME SessionInv, DisposeTelemetry PROVE SessionInv'
<1>1. /\ phase = "supervisor" /\ SupervisorSettled /\ phase' = "disposed"
      /\ manager' = 0 /\ supervisor' = 0 /\ telemetry' = telemetry \ {manager}
      /\ UNCHANGED <<sessionState, generation, transitions, outcome, jobVars>>
  BY DEF DisposeTelemetry
<1>2. registry' \in [Sessions -> 0 .. MaxGeneration]
  <2>1. \A s \in Sessions : registry[s] \in 0 .. MaxGeneration /\ 0 \in 0 .. MaxGeneration
    BY BoundsAssumption DEF SessionInv, TypeOK
  <2>2. registry' = [s \in Sessions |-> IF registry[s] = supervisor /\ ~SupervisorRejected THEN 0 ELSE registry[s]]
    BY DEF DisposeTelemetry
  <2> QED BY <2>1, <2>2
<1>3. TypeOK'
  <2>1. SupervisorRejected \in BOOLEAN
    BY DEF SupervisorRejected
  <2>2. failed' \in BOOLEAN
    BY <2>1 DEF DisposeTelemetry
  <2> QED BY <1>1, <1>2, <2>2, BoundsAssumption DEF SessionInv, TypeOK, jobVars
<1>4. JobsInv'
  BY <1>1, JobsUntouched DEF SessionInv, jobVars
<1>5. QueueInOrder' /\ Resources'
  BY <1>1 DEF SessionInv, QueueInOrder, Resources
<1>6. WorkOwned'
  <2> SUFFICES ASSUME NEW j \in Jobs, Underway(j) PROVE FALSE
    BY <1>1 DEF WorkOwned, Underway, jobVars
  <2>1. manager # 0 /\ outcome[supervisor] \in {"open", "closing"}
    BY DEF SessionInv, WorkOwned
  <2> QED BY <1>1, <2>1 DEF SessionInv, Resources, SupervisorSettled
<1> QED BY <1>3, <1>4, <1>5, <1>6 DEF SessionInv

(* The running transition is over. *)
LEMMA EndTransitionQueue ==
  ASSUME TypeOK, QueueInOrder, phase # "none", EndTransition, UNCHANGED generation
  PROVE  /\ transitions' \in Seq(Transitions) /\ Len(transitions') = Len(transitions) - 1 /\ Len(transitions) > 0
         /\ Len(transitions') <= generation'
         /\ \A i \in 1 .. Len(transitions') : transitions'[i].generation = generation' - Len(transitions') + i
         /\ Transition = transitions[1] /\ Transition \in Transitions
         /\ Latest(Transition) => transitions' = <<>> /\ Transition.generation = generation
         /\ ~Latest(Transition) => transitions' # <<>>
<1>1. transitions # <<>> /\ transitions \in Seq(Transitions) /\ transitions' = Tail(transitions)
  BY DEF TypeOK, QueueInOrder, EndTransition
<1>2. /\ transitions' \in Seq(Transitions) /\ Len(transitions') = Len(transitions) - 1 /\ Len(transitions) > 0
      /\ \A i \in 1 .. Len(transitions') : transitions'[i] = transitions[i + 1]
      /\ Transition = transitions[1] /\ Transition \in Transitions
  BY <1>1, HeadTailProperties, EmptySeq DEF Transition
<1>3. Len(transitions) \in Nat /\ generation \in Nat
  BY <1>1, BoundsAssumption DEF TypeOK
<1>4. \A i \in 1 .. Len(transitions') : transitions'[i].generation = generation' - Len(transitions') + i
  <2> SUFFICES ASSUME NEW i \in 1 .. Len(transitions')
               PROVE  transitions'[i].generation = generation' - Len(transitions') + i
    OBVIOUS
  <2>1. i + 1 \in 1 .. Len(transitions)
    BY <1>2, <1>3
  <2>2. transitions[i + 1].generation = generation - Len(transitions) + (i + 1)
    BY <2>1 DEF QueueInOrder
  <2>3. transitions'[i] = transitions[i + 1] /\ Len(transitions') = Len(transitions) - 1
    BY <1>2
  <2> QED BY <1>3, <2>2, <2>3
<1>5. /\ Latest(Transition) => Len(transitions') = 0 /\ Transition.generation = generation
      /\ ~Latest(Transition) => Len(transitions') # 0
  BY <1>2, <1>3 DEF QueueInOrder, Latest
<1> QED BY <1>2, <1>3, <1>4, <1>5, EmptySeq DEF QueueInOrder

LEMMA TransitionEnds == ASSUME SessionInv, ShutdownEnds \/ StartAbandoned \/ StartStale PROVE SessionInv'
<1>1. /\ phase \in {"disposed", "created"} /\ phase' = "none" /\ EndTransition
      /\ sessionState' \in {"Inactive", sessionState}
      /\ telemetry' \in {telemetry, telemetry \ {Transition.generation}}
      /\ phase = "created" => telemetry' = telemetry \ {Transition.generation}
      /\ UNCHANGED <<generation, manager, supervisor, registry, outcome, jobVars>>
  BY DEF ShutdownEnds, StartAbandoned, StartStale, EndTransition
<1>2. /\ transitions' \in Seq(Transitions) /\ Len(transitions') = Len(transitions) - 1 /\ Len(transitions) > 0
      /\ Len(transitions') <= generation'
      /\ \A i \in 1 .. Len(transitions') : transitions'[i].generation = generation' - Len(transitions') + i
      /\ Transition = transitions[1]
      /\ ~Latest(Transition) => transitions' # <<>>
  BY <1>1, EndTransitionQueue DEF SessionInv
<1>3. TypeOK'
  BY <1>1, <1>2 DEF SessionInv, TypeOK, jobVars
<1>4. JobsInv'
  BY <1>1, JobsUntouched DEF SessionInv, jobVars
<1>5. QueueInOrder'
  <2>1. sessionState' # "Active"
    BY <1>1, <1>2 DEF SessionInv, QueueInOrder
  <2>2. transitions' = <<>> /\ sessionState' = "ShuttingDown" => failed'
    BY <1>2 DEF ShutdownEnds, StartAbandoned, StartStale
  <2> QED BY <1>1, <1>2, <2>1, <2>2 DEF QueueInOrder
<1>6. Resources'
  BY <1>1, <1>2 DEF SessionInv, Resources
<1>7. WorkOwned'
  BY <1>1 DEF SessionInv, WorkOwned, Underway, jobVars
<1> QED BY <1>3, <1>4, <1>5, <1>6, <1>7 DEF SessionInv

LEMMA CreateTelemetryStep == ASSUME SessionInv, CreateTelemetry PROVE SessionInv'
<1>1. /\ phase = "disposed" /\ phase' = "created" /\ telemetry' = telemetry \cup {Transition.generation}
      /\ UNCHANGED <<sessionState, generation, transitions, failed, manager, supervisor, registry, outcome, jobVars>>
  BY DEF CreateTelemetry
<1>2. Transition = transitions[1] /\ Transition.generation \in Generations
  <2>1. transitions \in Seq(Transitions) /\ transitions # <<>>
    BY <1>1 DEF SessionInv, TypeOK, QueueInOrder
  <2>2. transitions[1] \in Transitions
    BY <2>1, EmptySeq
  <2> QED BY <2>2 DEF Transition, Transitions
<1>3. TypeOK'
  BY <1>1, <1>2 DEF SessionInv, TypeOK, jobVars
<1>4. JobsInv'
  BY <1>1, JobsUntouched DEF SessionInv, jobVars
<1>5. QueueInOrder' /\ Resources'
  BY <1>1, <1>2 DEF SessionInv, QueueInOrder, Resources
<1>6. WorkOwned'
  BY <1>1 DEF SessionInv, WorkOwned, Underway, jobVars
<1> QED BY <1>3, <1>4, <1>5, <1>6 DEF SessionInv

LEMMA SessionActiveStep == ASSUME SessionInv, SessionActive PROVE SessionInv'
<1> DEFINE g == Transition.generation
<1>1. /\ phase = "created" /\ phase' = "none" /\ Latest(Transition) /\ EndTransition
      /\ registry' = [registry EXCEPT ![Transition.session] = IF @ = 0 THEN g ELSE @]
      /\ manager' = g /\ supervisor' = registry'[Transition.session] /\ sessionState' = "Active"
      /\ UNCHANGED <<generation, failed, outcome, telemetry, jobVars>>
  BY DEF SessionActive, EndTransition
<1>2. /\ transitions' = <<>> /\ transitions' \in Seq(Transitions) /\ Len(transitions') <= generation'
      /\ \A i \in 1 .. Len(transitions') : transitions'[i].generation = generation' - Len(transitions') + i
      /\ Transition = transitions[1] /\ Transition \in Transitions /\ g = generation
  BY <1>1, EndTransitionQueue DEF SessionInv
<1>3. /\ Transition.session \in Sessions /\ g \in Generations /\ g # 0
      /\ g \in 0 .. MaxGeneration
  BY <1>2, BoundsAssumption DEF Transitions, Generations
<1> HIDE DEF g
<1>4. /\ registry' \in [Sessions -> 0 .. MaxGeneration]
      /\ supervisor' \in 0 .. MaxGeneration /\ supervisor' # 0
  BY <1>1, <1>3 DEF SessionInv, TypeOK
<1>5. TypeOK'
  BY <1>1, <1>2, <1>3, <1>4 DEF SessionInv, TypeOK, jobVars
<1>6. JobsInv'
  BY <1>1, JobsUntouched DEF SessionInv, jobVars
<1>7. QueueInOrder'
  BY <1>1, <1>2, <1>3 DEF QueueInOrder
<1>8. Resources'
  <2>1. g \in telemetry /\ \A h \in telemetry : h = g
    BY <1>1, <1>2 DEF SessionInv, TypeOK, Resources, Generations, g
  <2> QED BY <1>1, <1>3, <1>4, <2>1 DEF Resources
<1>9. WorkOwned'
  BY <1>1 DEF SessionInv, WorkOwned, Resources, Underway, jobVars
<1> QED BY <1>5, <1>6, <1>7, <1>8, <1>9 DEF SessionInv

-----------------------------------------------------------------------------
LEMMA StepInv == SessionInv /\ [Next]_vars => SessionInv'
<1> SUFFICES ASSUME SessionInv, [Next]_vars PROVE SessionInv'
  OBVIOUS
<1>1. CASE UNCHANGED vars
  <2>1. TypeOK' /\ QueueInOrder' /\ Resources' /\ WorkOwned'
    BY <1>1 DEF vars, sessionVars, jobVars, SessionInv, TypeOK, QueueInOrder, Resources, WorkOwned, Underway
  <2>2. JobsInv'
    BY <1>1, JobsUntouched DEF SessionInv, vars, jobVars
  <2> QED BY <2>1, <2>2 DEF SessionInv
<1>2. CASE \E s \in Sessions : StartSession(s) \/ ShutdownSession(s)
  BY <1>2, EnqueueStep
<1>3. CASE TransitionStep
  BY <1>3, DisposeJobsStep, DisposeSupervisorStep, DisposeTelemetryStep, TransitionEnds,
     CreateTelemetryStep, SessionActiveStep DEF TransitionStep
<1>4. CASE \E g \in Generations : SupervisorCloses(g)
  BY <1>4, SupervisorClosesStep
<1>5. CASE SettleJobsBeforeTreeNavigation
  BY <1>5, CancelStep DEF SettleJobsBeforeTreeNavigation
<1>6. ASSUME NEW j \in Jobs, StartJob(j) \/ CancelJob(j) \/ RunStep(j) \/ Release(j)
      PROVE  SessionInv'
  <2>1. CASE CancelJob(j)
    <3>1. {j} \in SUBSET CurrentJobs /\ CancelJobs({j}) /\ UNCHANGED sessionVars
      BY <2>1 DEF CancelJob
    <3> QED BY <3>1, CancelStep
  <2> QED BY <1>6, <2>1, StartStep, RunMoves, FiberStep DEF RunStep
<1> QED BY <1>1, <1>2, <1>3, <1>4, <1>5, <1>6 DEF Next

(* The variables keep their types, however starts, shutdowns and jobs interleave.  *)
THEOREM TypeCorrect == Spec => []TypeOK
<1>1. SessionInv => TypeOK
  BY DEF SessionInv
<1> QED BY <1>1, InitInv, StepInv, PTL DEF Spec

(* A background job that is not finished can be reached by cancel() and shutdown() *)
(* of its manager, and no more than MaxRetainedJobs finished ones are kept          *)
(* (jobs.ts, pruneTerminalJobs).                                                *)
THEOREM JobsStayReachable == Spec => []UnfinishedJobsReachable
<1>1. SessionInv => UnfinishedJobsReachable
  <2> SUFFICES ASSUME SessionInv PROVE UnfinishedJobsReachable
    OBVIOUS
  <2>1. Cardinality({j \in CurrentJobs : Terminal(status[j])}) <= MaxRetainedJobs
    <3>1. CASE manager = 0
      <4>1. {j \in CurrentJobs : Terminal(status[j])} = {}
        BY <3>1 DEF SessionInv, TypeOK, JobsInv, JobsDone, CurrentJobs
      <4> QED BY <4>1, FS_EmptySet, BoundsAssumption
    <3>2. CASE manager # 0
      <4>1. manager \in Generations
        BY <3>2, BoundsAssumption DEF SessionInv, TypeOK, Generations
      <4>2. {j \in CurrentJobs : Terminal(status[j])} = FinishedOf(manager)
        BY DEF FinishedOf, CurrentJobs
      <4> QED BY <4>1, <4>2 DEF SessionInv, JobsInv, Retained
    <3> QED BY <3>1, <3>2
  <2> QED BY <2>1 DEF SessionInv, JobsInv, Reachable, UnfinishedJobsReachable
<1> QED BY <1>1, InitInv, StepInv, PTL DEF Spec

(* An active session is that of the latest request, the latest is lost by failures   *)
(* only, and the telemetry of a session is there as                                 *)
(* long as any of its work holds a lease (session-runtime.ts, startSession,           *)
(* shutdownSession, disposeActiveResources).                                        *)
THEOREM LatestTransitionWins == Spec => []TransitionsKeepOrder
<1>1. SessionInv => TransitionsKeepOrder
  <2> SUFFICES ASSUME SessionInv PROVE ActiveIsLatest /\ TelemetryOutlivesWork
    BY DEF TransitionsKeepOrder
  <2>1. ActiveIsLatest
    BY DEF SessionInv, QueueInOrder, ActiveIsLatest
  <2>2. \A j \in Jobs : run[j] \in {"leased", "working"} => jobManager[j] \in telemetry
    BY DEF SessionInv, WorkOwned, Underway, Resources
  <2>3. transitions = <<>> => telemetry \subseteq {manager} \ {0}
    BY DEF SessionInv, TypeOK, QueueInOrder, Resources, Generations
  <2> QED BY <2>1, <2>2, <2>3 DEF TelemetryOutlivesWork
<1> QED BY <1>1, InitInv, StepInv, PTL DEF Spec
=============================================================================
