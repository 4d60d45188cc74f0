------------------------ MODULE SubagentControl_proof ------------------------
(***************************************************************************)
(* Theorems about SubagentControl, for any runs, workspaces, children and   *)
(* limits.  The argument: drain() is the only step that hands out leases,   *)
(* and lemma DrainSound says what it leaves behind.                         *)
(***************************************************************************)
EXTENDS SubagentControl, FiniteSetTheorems, WellFoundedInduction, TLAPS

Exclusive(S) == \A r, s \in S : (r # s /\ wants[r] = wants[s]) => wants[r] = ReadOnly

(* Positions in the queue are unique and already counted. *)
QueueOrdered ==
  /\ \A r, s \in pending : r # s => arrival[r] # arrival[s]
  /\ \A r \in pending : arrival[r] <= arrivals

(* The inductive invariant. *)
IInv == /\ TypeOK
        /\ QueueOrdered
        /\ AdmissionsAccounted
        /\ LeaseExclusion
        /\ NoStartableWaiter
        /\ ShutdownReachesEveryRun

-----------------------------------------------------------------------------
(* A nonempty finite set has a member whose position is the last. *)
LEMMA LatestExists ==
  ASSUME NEW S, IsFiniteSet(S), S # {}, NEW f, \A s \in S : f[s] \in Nat
  PROVE  \E m \in S : \A s \in S : f[s] <= f[m]
<1> DEFINE Up(r) == {s \in S : f[r] <= f[s]}
           T == {U \in SUBSET S : \E r \in S : U = Up(r)}
           R == StrictSubsetOrdering(S)
<1>1. IsWellFoundedOn(R, FiniteSubsetsOf(S))
  BY FS_StrictSubsetOrderingWellFounded
<1>2. T \subseteq FiniteSubsetsOf(S)
  BY FS_Subset DEF FiniteSubsetsOf
<1>3. T # {}
  <2>1. PICK r \in S : TRUE
    OBVIOUS
  <2>2. Up(r) \in T
    OBVIOUS
  <2> QED BY <2>2
<1>4. PICK X \in T : \A Y \in T : <<Y, X>> \notin R
  <2> HIDE DEF T, R
  <2> QED BY <1>1, <1>2, <1>3, WFMin
<1>5. PICK m \in S : X = Up(m)
  OBVIOUS
<1>6. ASSUME NEW s \in S, ~(f[s] <= f[m]) PROVE FALSE
  <2>1. Up(s) \in T
    OBVIOUS
  <2>2. Up(s) \subseteq X /\ m \in X /\ m \notin Up(s)
    BY <1>5, <1>6
  <2>3. <<Up(s), X>> \in R
    BY <2>2, <2>1 DEF StrictSubsetOrdering
  <2> QED BY <2>1, <2>3, <1>4
<1> QED BY <1>6

-----------------------------------------------------------------------------
(* drain(): from compatible leases a and a queue p it makes compatible        *)
(* leases, keeps the writer set in step and leaves no startable waiter.       *)
LEMMA DrainSound ==
  ASSUME TypeOK,
         NEW p \in SUBSET Runs, IsFiniteSet(p),
         NEW a \in SUBSET Runs, IsFiniteSet(a),
         Cardinality(a) <= MaxConcurrentRuns, Exclusive(a),
         arrival' \in [Runs -> Nat],
         \A r, s \in p : r # s => arrival'[r] # arrival'[s],
         NEW G \in SUBSET p,
         Taken(p, a, Writes(a), G)
  PROVE  LET b == a \cup (G \ signalAborted)
         IN  /\ IsFiniteSet(b) /\ Cardinality(b) <= MaxConcurrentRuns
             /\ Exclusive(b)
             /\ Writes(a) \cup Writes(G \ signalAborted) = Writes(b)
             /\ \A r \in p \ G : ~CanStart(r, b, Writes(b))
<1> DEFINE started == G \ signalAborted
           b == a \cup started
<1>1. IsFiniteSet(started) /\ IsFiniteSet(b)
  <2>1. IsFiniteSet(started)
    BY FS_Subset
  <2> QED BY <2>1, FS_Union
<1>2. Writes(a) \cup Writes(started) = Writes(b)
  BY DEF Writes
<1>3. \A r \in p : r \in G <=> CanStart(r, a \cup Before(G, r), Writes(a) \cup Writes(Before(G, r)))
  BY DEF Taken
<1>4. \A r : Before(G, r) \subseteq started
  BY DEF Before
<1>5. Cardinality(b) <= MaxConcurrentRuns
  <2>1. CASE started = {}
    BY <2>1
  <2>2. CASE started # {}
    <3>1. PICK m \in started : \A s \in started : arrival'[s] <= arrival'[m]
      BY <1>1, <2>2, LatestExists
    <3>2. Before(G, m) = started \ {m}
      BY <3>1 DEF Before
    <3>3. Cardinality(a \cup Before(G, m)) < MaxConcurrentRuns
      BY <1>3 DEF CanStart
    <3>4. IsFiniteSet(a \cup Before(G, m))
      BY <1>1, <1>4, FS_Subset, FS_Union
    <3>5. b = (a \cup Before(G, m)) \cup {m}
      BY <3>2
    <3> DEFINE B == a \cup Before(G, m)
    <3> HIDE DEF b, B
    <3>6. Cardinality(B \cup {m}) = IF m \in B THEN Cardinality(B) ELSE Cardinality(B) + 1
      BY <3>4, FS_AddElement DEF B
    <3>7. Cardinality(B) \in Nat
      BY <3>4, FS_CardinalityType DEF B
    <3> QED BY <3>3, <3>5, <3>6, <3>7, LimitsAssumption DEF B
  <2> QED BY <2>1, <2>2
<1>6. Exclusive(b)
  <2>1. ASSUME NEW r \in b, NEW s \in started, r # s, wants[r] = wants[s],
               wants[r] # ReadOnly, r \in a \/ arrival'[r] < arrival'[s]
        PROVE  FALSE
    <3>1. wants[s] \notin Writes(a) \cup Writes(Before(G, s))
      BY <1>3, <2>1 DEF CanStart
    <3>2. wants[r] \in Writes(a) \cup Writes(Before(G, s))
      BY <2>1 DEF Writes, Before
    <3> QED BY <3>1, <3>2, <2>1
  <2>2. ASSUME NEW r \in started, NEW s \in started, r # s
        PROVE  arrival'[r] < arrival'[s] \/ arrival'[s] < arrival'[r]
    BY <2>2
  <2> QED BY <2>1, <2>2 DEF Exclusive
<1>7. ASSUME NEW r \in p \ G PROVE ~CanStart(r, b, Writes(b))
  <2>1. ~CanStart(r, a \cup Before(G, r), Writes(a) \cup Writes(Before(G, r)))
    BY <1>3
  <2>2. a \cup Before(G, r) \subseteq b
    BY <1>4
  <2>3. Cardinality(a \cup Before(G, r)) <= Cardinality(b)
    BY <2>2, <1>1, FS_Subset
  <2>4. Writes(a) \cup Writes(Before(G, r)) \subseteq Writes(b)
    BY <2>2 DEF Writes
  <2>5. Cardinality(b) \in Nat /\ Cardinality(a \cup Before(G, r)) \in Nat
    BY <2>2, <1>1, FS_Subset, FS_CardinalityType
  <2> QED BY <2>1, <2>3, <2>4, <2>5, LimitsAssumption DEF CanStart
<1> QED BY <1>1, <1>2, <1>5, <1>6, <1>7

-----------------------------------------------------------------------------
(* The same, for the state a step that ends in Drain leaves behind.           *)
LEMMA DrainStep ==
  ASSUME TypeOK,
         NEW p \in SUBSET Runs, IsFiniteSet(p),
         NEW a \in SUBSET Runs, IsFiniteSet(a),
         Cardinality(a) <= MaxConcurrentRuns, Exclusive(a),
         NEW w, w = Writes(a),
         NEW adm \in [Runs -> AdmissionStates],
         \A r \in Runs : /\ adm[r] = "waiting" <=> r \in p
                         /\ adm[r] = "leased" <=> r \in a,
         closed => p = {},
         arrival' \in [Runs -> Nat],
         \A r, s \in p : r # s => arrival'[r] # arrival'[s],
         wants' = wants, closed' = closed,
         Drain(p, a, w, adm)
  PROVE  /\ pending' \subseteq p /\ IsFiniteSet(pending')
         /\ active' \subseteq a \cup p /\ IsFiniteSet(active')
         /\ a \subseteq active'
         /\ writers' \subseteq Workspaces
         /\ admission' \in [Runs -> AdmissionStates]
         /\ AdmissionsAccounted'
         /\ LeaseExclusion'
         /\ NoStartableWaiter'
         /\ closed => active' = a
<1>1. PICK G \in SUBSET p :
        /\ IF closed THEN G = {} ELSE Taken(p, a, w, G)
        /\ pending' = p \ G
        /\ active' = a \cup (G \ signalAborted)
        /\ writers' = w \cup Writes(G \ signalAborted)
        /\ admission' = [r \in Runs |-> IF r \in G \ signalAborted THEN "leased"
                                        ELSE IF r \in G THEN "aborted" ELSE adm[r]]
  BY DEF Drain
<1>2. pending' \subseteq p /\ IsFiniteSet(pending')
  BY <1>1, FS_Subset
<1>3. /\ IsFiniteSet(active') /\ Cardinality(active') <= MaxConcurrentRuns
      /\ Exclusive(active')
      /\ writers' = Writes(active')
      /\ \A r \in pending' : ~CanStart(r, active', writers')
      /\ closed => active' = a
  <2>1. CASE closed
    <3>1. G = {} /\ active' = a /\ writers' = w /\ pending' = {}
      BY <2>1, <1>1 DEF Writes
    <3> QED BY <3>1
  <2>2. CASE ~closed
    <3>1. Taken(p, a, Writes(a), G)
      BY <2>2, <1>1
    <3> DEFINE b == a \cup (G \ signalAborted)
    <3>2. /\ IsFiniteSet(b) /\ Cardinality(b) <= MaxConcurrentRuns
          /\ Exclusive(b)
          /\ Writes(a) \cup Writes(G \ signalAborted) = Writes(b)
          /\ \A r \in p \ G : ~CanStart(r, b, Writes(b))
      BY <3>1, DrainSound
    <3>3. active' = b /\ writers' = Writes(b) /\ pending' = p \ G
      BY <3>2, <1>1
    <3> HIDE DEF b
    <3> QED BY <3>2, <3>3, <2>2
  <2> QED BY <2>1, <2>2
<1>4. active' \subseteq a \cup p /\ a \subseteq active'
  BY <1>1
<1>5. writers' \subseteq Workspaces
  BY <1>3, <1>4 DEF Writes, TypeOK
<1>6. admission' \in [Runs -> AdmissionStates]
  BY <1>1 DEF AdmissionStates
<1>7. AdmissionsAccounted'
  <2>1. ASSUME NEW r \in Runs
        PROVE  /\ admission'[r] = "waiting" <=> r \in pending'
               /\ admission'[r] = "leased" <=> r \in active'
    BY <1>1
  <2>2. closed' => pending' = {}
    BY <1>2
  <2> QED BY <2>1, <2>2 DEF AdmissionsAccounted
<1>8. LeaseExclusion'
  <2>1. Writes(active') = Writes(active)'
    BY DEF Writes
  <2> QED BY <1>3, <2>1 DEF LeaseExclusion, Exclusive
<1>9. NoStartableWaiter'
  BY <1>3 DEF NoStartableWaiter, CanStart
<1> QED BY <1>2, <1>3, <1>4, <1>5, <1>6, <1>7, <1>8, <1>9

(* pruneChildren() keeps the types of what it edits. *)
LEMMA PruneTypes ==
  ASSUME TypeOK, NEW cs \in [Children -> ChildStates], PruneChildren(cs)
  PROVE  /\ retained' \subseteq Children /\ evicting' \subseteq retained'
         /\ retainedAt' \in [Children -> Nat] /\ retentions' \in Nat
         /\ childState' \in [Children -> ChildStates]
         /\ closing' \in [Children -> {"none", "pending", "fulfilled", "rejected"}]
         /\ failures' \in 0 .. MaxRetainedJobs /\ omitted' \in BOOLEAN
<1>1. CASE closed
  BY <1>1 DEF TypeOK, PruneChildren
<1>2. CASE ~closed
  <2>1. PICK V \in SUBSET {c \in retained \ evicting : Settled(cs, c)} :
          /\ evicting' = evicting \cup V
          /\ childState' = [c \in Children |->
                              IF c \in V /\ cs[c] = "Idle" THEN "Closing" ELSE cs[c]]
          /\ closing' = [c \in Children |->
                           IF c \in V /\ closing[c] = "none" THEN "pending" ELSE closing[c]]
          /\ UNCHANGED <<retained, retainedAt, retentions, failures, omitted>>
    BY <1>2, Zenon DEF PruneChildren
  <2>2. childState' \in [Children -> ChildStates]
    BY <2>1 DEF ChildStates
  <2>3. closing' \in [Children -> {"none", "pending", "fulfilled", "rejected"}]
    BY <2>1 DEF TypeOK
  <2> QED BY <2>1, <2>2, <2>3 DEF TypeOK
<1> QED BY <1>1, <1>2

-----------------------------------------------------------------------------
LEMMA InitInv == Init => IInv
<1> SUFFICES ASSUME Init PROVE IInv
  OBVIOUS
<1>1. IsFiniteSet({}) /\ Cardinality({}) = 0
  BY FS_EmptySet
<1>2. Writes({}) = {}
  BY DEF Writes
<1>3. TypeOK
  <2>1. 0 \in 0 .. MaxRetainedJobs
    BY LimitsAssumption
  <2>2. /\ arrival \in [Runs -> Nat]
        /\ admission \in [Runs -> AdmissionStates]
        /\ retainedAt \in [Children -> Nat] /\ retentions \in Nat
    BY DEF Init, AdmissionStates
  <2>3. /\ childState \in [Children -> ChildStates]
        /\ closing \in [Children -> {"none", "pending", "fulfilled", "rejected"}]
    BY DEF Init, ChildStates
  <2> QED BY <1>1, <2>1, <2>2, <2>3 DEF Init, TypeOK
<1>4. LeaseExclusion
  BY <1>1, <1>2, LimitsAssumption DEF Init, LeaseExclusion
<1> QED
  BY <1>3, <1>4 DEF IInv, Init, QueueOrdered, AdmissionsAccounted,
     NoStartableWaiter, ShutdownReachesEveryRun

(* The conjuncts about admission depend on the admission variables and on     *)
(* closed alone.                                                              *)
LEMMA AdmissionFrame ==
  ASSUME IInv, UNCHANGED <<wants, pending, arrival, arrivals, active, writers,
                           cancelled, admission, closed>>
  PROVE  /\ QueueOrdered' /\ AdmissionsAccounted' /\ LeaseExclusion'
         /\ NoStartableWaiter' /\ ShutdownReachesEveryRun'
<1>1. Writes(active)' = Writes(active)
  BY DEF Writes
<1> QED
  BY <1>1 DEF IInv, QueueOrdered, AdmissionsAccounted, LeaseExclusion,
     NoStartableWaiter, ShutdownReachesEveryRun, CanStart

LEMMA AcquireRejectedInv ==
  ASSUME IInv, NEW r \in Runs, AcquireRejected(r) PROVE IInv'
<1> USE DEF IInv
<1>1. TypeOK'
  BY DEF AcquireRejected, RefuseRequest, TypeOK, Rejection, AdmissionStates, childVars, shutdownVars
<1>2. AdmissionsAccounted'
  BY DEF AcquireRejected, RefuseRequest, AdmissionsAccounted, TypeOK, Rejection, shutdownVars
<1>3. Writes(active)' = Writes(active)
  BY DEF AcquireRejected, RefuseRequest, Writes
<1>4. QueueOrdered' /\ LeaseExclusion' /\ NoStartableWaiter' /\ ShutdownReachesEveryRun'
  BY <1>3 DEF AcquireRejected, RefuseRequest, QueueOrdered, LeaseExclusion, NoStartableWaiter,
     ShutdownReachesEveryRun, CanStart, shutdownVars
<1> QED BY <1>1, <1>2, <1>4

LEMMA AcquireQueuedInv ==
  ASSUME IInv, NEW r \in Runs, AcquireQueued(r) PROVE IInv'
<1> USE DEF IInv
<1> DEFINE p == pending \cup {r}
           adm == [admission EXCEPT ![r] = "waiting"]
<1>1. ~closed
  BY DEF AcquireQueued, QueueRequest, Rejection
<1>2. r \notin pending /\ r \notin active
  BY DEF AcquireQueued, QueueRequest, AdmissionsAccounted
<1>3. p \in SUBSET Runs /\ IsFiniteSet(p)
  BY FS_AddElement DEF TypeOK
<1>4. adm \in [Runs -> AdmissionStates]
  BY DEF TypeOK, AdmissionStates
<1>5. \A s \in Runs : /\ adm[s] = "waiting" <=> s \in p
                      /\ adm[s] = "leased" <=> s \in active
  BY <1>2 DEF AdmissionsAccounted, TypeOK
<1>6. /\ arrival' \in [Runs -> Nat] /\ arrivals' \in Nat
      /\ \A s, t \in p : s # t => arrival'[s] # arrival'[t]
      /\ \A s \in p : arrival'[s] <= arrivals'
  BY <1>2 DEF AcquireQueued, QueueRequest, TypeOK, QueueOrdered
<1>7. wants' = wants /\ closed' = closed /\ Drain(p, active, writers, adm)
  BY DEF AcquireQueued, QueueRequest, shutdownVars
<1>8. active \in SUBSET Runs /\ IsFiniteSet(active) /\ Exclusive(active)
      /\ Cardinality(active) <= MaxConcurrentRuns /\ writers = Writes(active)
  BY DEF TypeOK, LeaseExclusion, Exclusive
<1>9. /\ pending' \subseteq p /\ IsFiniteSet(pending')
      /\ active' \subseteq active \cup p /\ IsFiniteSet(active')
      /\ active \subseteq active'
      /\ writers' \subseteq Workspaces
      /\ admission' \in [Runs -> AdmissionStates]
      /\ AdmissionsAccounted' /\ LeaseExclusion' /\ NoStartableWaiter'
  <2> HIDE DEF p, adm
  <2> QED BY <1>1, <1>3, <1>4, <1>5, <1>6, <1>7, <1>8, DrainStep
<1>10. TypeOK'
  BY <1>3, <1>6, <1>9 DEF AcquireQueued, QueueRequest, TypeOK, childVars, shutdownVars
<1>11. QueueOrdered'
  BY <1>6, <1>9 DEF QueueOrdered
<1>12. ShutdownReachesEveryRun'
  BY <1>1, <1>7 DEF ShutdownReachesEveryRun
<1> QED BY <1>9, <1>10, <1>11, <1>12

LEMMA OnAbortInv ==
  ASSUME IInv, NEW r \in Runs, OnAbort(r) PROVE IInv'
<1> USE DEF IInv
<1>1. IsFiniteSet(pending')
  BY FS_RemoveElement DEF OnAbort, TypeOK
<1>2. TypeOK'
  BY <1>1 DEF OnAbort, TypeOK, AdmissionStates, childVars, shutdownVars
<1>3. AdmissionsAccounted'
  BY DEF OnAbort, AdmissionsAccounted, TypeOK, shutdownVars
<1>4. Writes(active)' = Writes(active)
  BY DEF OnAbort, Writes
<1>5. QueueOrdered' /\ LeaseExclusion' /\ NoStartableWaiter' /\ ShutdownReachesEveryRun'
  BY <1>4 DEF OnAbort, QueueOrdered, LeaseExclusion, NoStartableWaiter,
     ShutdownReachesEveryRun, CanStart, shutdownVars
<1> QED BY <1>2, <1>3, <1>5

LEMMA ReleaseInv ==
  ASSUME IInv, NEW r \in Runs, Release(r) PROVE IInv'
<1> USE DEF IInv
<1> DEFINE a == active \ {r}
           w == writers \ {wants[r]}
           adm == [admission EXCEPT ![r] = "released"]
<1>1. /\ r \in active
      /\ UNCHANGED <<wants, signalAborted, arrival, arrivals, shutdownVars>>
      /\ cancelled' = cancelled \ {r}
      /\ PruneChildren(childState)
      /\ Drain(pending, a, w, adm)
  BY DEF Release, ReturnLease
<1>2. a \in SUBSET Runs /\ IsFiniteSet(a) /\ Cardinality(a) <= MaxConcurrentRuns
  <2>1. Cardinality(a) <= Cardinality(active) /\ IsFiniteSet(a)
    BY FS_Subset DEF TypeOK
  <2>2. Cardinality(a) \in Nat /\ Cardinality(active) \in Nat
    BY <2>1, FS_CardinalityType DEF TypeOK
  <2> QED BY <2>1, <2>2, LimitsAssumption DEF TypeOK, LeaseExclusion
<1>3. Exclusive(a) /\ w = Writes(a)
  <2>1. Exclusive(a)
    BY DEF LeaseExclusion, Exclusive
  <2>2. \A s \in a : wants[s] = wants[r] => wants[s] = ReadOnly
    BY <1>1 DEF LeaseExclusion
  <2>3. w = Writes(a)
    BY <1>1, <2>2 DEF LeaseExclusion, Writes
  <2> QED BY <2>1, <2>3
<1>4. adm \in [Runs -> AdmissionStates]
  BY DEF TypeOK, AdmissionStates
<1>5. \A s \in Runs : /\ adm[s] = "waiting" <=> s \in pending
                      /\ adm[s] = "leased" <=> s \in a
  BY <1>1 DEF AdmissionsAccounted, TypeOK
<1>6. /\ pending \in SUBSET Runs /\ IsFiniteSet(pending)
      /\ arrival' \in [Runs -> Nat]
      /\ \A s, t \in pending : s # t => arrival'[s] # arrival'[t]
      /\ wants' = wants /\ closed' = closed
      /\ closed => pending = {}
  BY <1>1 DEF TypeOK, QueueOrdered, AdmissionsAccounted, shutdownVars
<1>7. /\ pending' \subseteq pending /\ IsFiniteSet(pending')
      /\ active' \subseteq a \cup pending /\ IsFiniteSet(active')
      /\ a \subseteq active'
      /\ writers' \subseteq Workspaces
      /\ admission' \in [Runs -> AdmissionStates]
      /\ AdmissionsAccounted' /\ LeaseExclusion' /\ NoStartableWaiter'
      /\ closed => active' = a
  <2> HIDE DEF a, w, adm
  <2> QED BY <1>1, <1>2, <1>3, <1>4, <1>5, <1>6, DrainStep
<1>8. TypeOK'
  <2>1. childState \in [Children -> ChildStates]
    BY DEF TypeOK
  <2>2. /\ retained' \subseteq Children /\ evicting' \subseteq retained'
        /\ retainedAt' \in [Children -> Nat] /\ retentions' \in Nat
        /\ childState' \in [Children -> ChildStates]
        /\ closing' \in [Children -> {"none", "pending", "fulfilled", "rejected"}]
        /\ failures' \in 0 .. MaxRetainedJobs /\ omitted' \in BOOLEAN
    BY <1>1, <2>1, PruneTypes
  <2>3. cancelled' \subseteq active'
    BY <1>1, <1>7 DEF TypeOK
  <2>4. pending' \subseteq Runs /\ active' \subseteq Runs
    BY <1>6, <1>7 DEF TypeOK
  <2> QED BY <1>1, <1>7, <2>2, <2>3, <2>4 DEF TypeOK, shutdownVars
<1>9. QueueOrdered'
  BY <1>1, <1>7 DEF QueueOrdered
<1>10. ShutdownReachesEveryRun'
  BY <1>1, <1>6, <1>7 DEF ShutdownReachesEveryRun
<1> QED BY <1>7, <1>8, <1>9, <1>10

LEMMA ShutdownInv ==
  ASSUME IInv, Shutdown PROVE IInv'
<1> USE DEF IInv
<1>1. IsFiniteSet(pending')
  BY FS_EmptySet DEF Shutdown
<1>2. /\ childState' \in [Children -> ChildStates]
      /\ closing' \in [Children -> {"none", "pending", "fulfilled", "rejected"}]
      /\ admission' \in [Runs -> AdmissionStates]
  BY DEF Shutdown, TypeOK, ChildStates, AdmissionStates
<1>3. TypeOK'
  BY <1>1, <1>2 DEF Shutdown, TypeOK
<1>4. AdmissionsAccounted'
  BY DEF Shutdown, AdmissionsAccounted, TypeOK
<1>5. Writes(active)' = Writes(active)
  BY DEF Shutdown, Writes
<1>6. QueueOrdered' /\ LeaseExclusion' /\ NoStartableWaiter' /\ ShutdownReachesEveryRun'
  BY <1>5 DEF Shutdown, QueueOrdered, LeaseExclusion, NoStartableWaiter,
     ShutdownReachesEveryRun
<1> QED BY <1>3, <1>4, <1>6

(* Steps that leave the queue and the leases alone. *)
LEMMA SignalDeadlineInv ==
  ASSUME IInv, NEW r \in Runs, SignalAbort(r) \/ Deadline(r) PROVE IInv'
<1> USE DEF IInv
<1>1. TypeOK'
  BY DEF SignalAbort, Deadline, TypeOK, childVars, shutdownVars
<1>2. AdmissionsAccounted'
  BY DEF SignalAbort, Deadline, AdmissionsAccounted, shutdownVars
<1>3. Writes(active)' = Writes(active)
  BY DEF SignalAbort, Deadline, Writes
<1>4. QueueOrdered' /\ LeaseExclusion' /\ NoStartableWaiter' /\ ShutdownReachesEveryRun'
  BY <1>3 DEF SignalAbort, Deadline, QueueOrdered, LeaseExclusion, NoStartableWaiter,
     ShutdownReachesEveryRun, CanStart, shutdownVars
<1> QED BY <1>1, <1>2, <1>4

LEMMA ChildTypes ==
  ASSUME TypeOK, NEW c \in Children, ChildNext(c) PROVE TypeOK'
<1>1. CASE RetainChild(c)
  <2>1. retentions' \in Nat /\ retainedAt' \in [Children -> Nat]
    BY <1>1 DEF RetainChild, TypeOK
  <2> QED BY <1>1, <2>1 DEF RetainChild, TypeOK, ChildStates, admissionVars, shutdownVars
<1>2. CASE ChildOperationEnds(c)
  <2>1. [childState EXCEPT ![c] = "Idle"] \in [Children -> ChildStates]
    BY DEF TypeOK, ChildStates
  <2>2. /\ retained' \subseteq Children /\ evicting' \subseteq retained'
        /\ retainedAt' \in [Children -> Nat] /\ retentions' \in Nat
        /\ childState' \in [Children -> ChildStates]
        /\ closing' \in [Children -> {"none", "pending", "fulfilled", "rejected"}]
        /\ failures' \in 0 .. MaxRetainedJobs /\ omitted' \in BOOLEAN
    BY <1>2, <2>1, PruneTypes DEF ChildOperationEnds
  <2> QED BY <1>2, <2>2 DEF ChildOperationEnds, TypeOK, admissionVars, shutdownVars
<1>3. CASE EvictionRejected(c)
  <2>1. failures' \in 0 .. MaxRetainedJobs
    BY <1>3, LimitsAssumption DEF EvictionRejected, RecordFailure, TypeOK
  <2>2. omitted' \in BOOLEAN
    BY <1>3, Zenon DEF EvictionRejected, RecordFailure, TypeOK
  <2> QED BY <1>3, <2>1, <2>2 DEF EvictionRejected, TypeOK, admissionVars, shutdownVars
<1>4. CASE EvictionFulfilled(c)
  BY <1>4 DEF EvictionFulfilled, TypeOK, admissionVars, shutdownVars
<1>5. CASE ChildPrompted(c) \/ ChildFails(c) \/ ChildTornDown(c) \/ ChildCloseSettles(c)
  BY <1>5 DEF ChildPrompted, ChildFails, ChildTornDown, ChildCloseSettles, TypeOK,
     ChildStates, admissionVars, shutdownVars
<1> QED BY <1>1, <1>2, <1>3, <1>4, <1>5 DEF ChildNext

LEMMA ChildInv ==
  ASSUME IInv, NEW c \in Children, ChildNext(c) PROVE IInv'
<1>1. UNCHANGED <<admissionVars, shutdownVars>>
  BY DEF ChildNext, RetainChild, ChildPrompted, ChildOperationEnds, ChildFails,
     ChildTornDown, ChildCloseSettles, EvictionFulfilled, EvictionRejected
<1>2. TypeOK'
  BY ChildTypes DEF IInv
<1> QED BY <1>1, <1>2, AdmissionFrame DEF IInv, admissionVars, shutdownVars

LEMMA ShutdownEndsInv ==
  ASSUME IInv, ShutdownRunsDone \/ ShutdownChildrenDone PROVE IInv'
<1>1. TypeOK'
  BY DEF IInv, ShutdownRunsDone, ShutdownChildrenDone, ShutdownOutcome, TypeOK,
     admissionVars, childVars
<1>2. UNCHANGED <<admissionVars, closed>>
  BY DEF ShutdownRunsDone, ShutdownChildrenDone
<1> QED BY <1>1, <1>2, AdmissionFrame DEF IInv, admissionVars

LEMMA StepInv == IInv /\ [Next]_vars => IInv'
<1> SUFFICES ASSUME IInv, [Next]_vars PROVE IInv'
  OBVIOUS
<1>1. CASE \E r \in Runs : RunNext(r)
  BY <1>1, AcquireRejectedInv, AcquireQueuedInv, OnAbortInv, ReleaseInv,
     SignalDeadlineInv DEF RunNext
<1>2. CASE \E c \in Children : ChildNext(c)
  BY <1>2, ChildInv
<1>3. CASE ShutdownNext
  BY <1>3, ShutdownInv, ShutdownEndsInv DEF ShutdownNext
<1>4. CASE UNCHANGED vars
  <2>1. TypeOK'
    BY <1>4 DEF IInv, TypeOK, vars, admissionVars, childVars, shutdownVars
  <2> QED BY <1>4, <2>1, AdmissionFrame DEF IInv, vars, admissionVars, shutdownVars
<1> QED BY <1>1, <1>2, <1>3, <1>4 DEF Next

(* IInv is an inductive invariant of the supervisor (control.ts). *)
THEOREM InductiveInvariant == Spec => []IInv
BY InitInv, StepInv, PTL DEF Spec

(* Every variable keeps its type in every behaviour, for any configuration.   *)
THEOREM TypeCorrect == Spec => []TypeOK
<1>1. IInv => TypeOK
  BY DEF IInv
<1> QED BY <1>1, InductiveInvariant, PTL

(* acquire, drain and release never let more than maxConcurrentRuns leases    *)
(* out, nor two writers into one workspace.                                   *)
THEOREM LeasesAreExclusive == Spec => []LeaseExclusion
<1>1. IInv => LeaseExclusion
  BY DEF IInv
<1> QED BY <1>1, InductiveInvariant, PTL

(* No waiting run could start: drain is called wherever room appears.         *)
THEOREM QueueIsWorkConserving == Spec => []NoStartableWaiter
<1>1. IInv => NoStartableWaiter
  BY DEF IInv
<1> QED BY <1>1, InductiveInvariant, PTL

(* After shutdown began, nobody waits and every lease holder was told to stop.*)
THEOREM ShutdownIsComplete == Spec => []ShutdownReachesEveryRun
<1>1. IInv => ShutdownReachesEveryRun
  BY DEF IInv
<1> QED BY <1>1, InductiveInvariant, PTL

-----------------------------------------------------------------------------
(* drain() passes over an earlier entry only because its workspace is taken.  *)
LEMMA DrainInOrder ==
  ASSUME TypeOK,
         NEW p \in SUBSET Runs, IsFiniteSet(p),
         NEW a \in SUBSET Runs, IsFiniteSet(a),
         NEW w, NEW adm,
         arrival' \in [Runs -> Nat],
         closed => p = {},
         Drain(p, a, w, adm),
         NEW r \in active' \ a, NEW s \in pending', arrival'[s] < arrival'[r]
  PROVE  wants[s] \in writers' /\ wants[s] # wants[r]
<1>1. PICK G \in SUBSET p :
        /\ IF closed THEN G = {} ELSE Taken(p, a, w, G)
        /\ pending' = p \ G
        /\ active' = a \cup (G \ signalAborted)
        /\ writers' = w \cup Writes(G \ signalAborted)
  BY DEF Drain
<1>2. r \in G /\ s \in p \ G /\ ~closed
  BY <1>1
<1>3. /\ CanStart(r, a \cup Before(G, r), w \cup Writes(Before(G, r)))
      /\ ~CanStart(s, a \cup Before(G, s), w \cup Writes(Before(G, s)))
  BY <1>1, <1>2 DEF Taken
<1>4. Before(G, s) \subseteq Before(G, r) /\ Before(G, r) \subseteq G \ signalAborted
  BY <1>1, <1>2 DEF Before
<1>5. IsFiniteSet(a \cup Before(G, r))
  BY <1>4, FS_Subset, FS_Union
<1>6. Cardinality(a \cup Before(G, s)) <= Cardinality(a \cup Before(G, r))
      /\ Cardinality(a \cup Before(G, s)) \in Nat /\ Cardinality(a \cup Before(G, r)) \in Nat
  BY <1>4, <1>5, FS_Subset, FS_CardinalityType
<1>7. wants[s] \in w \cup Writes(Before(G, s))
  BY <1>3, <1>6, LimitsAssumption DEF CanStart
<1>8. Writes(Before(G, s)) \subseteq Writes(G \ signalAborted)
  BY <1>4 DEF Writes
<1>9. wants[s] # ReadOnly
  BY <1>3, <1>6, LimitsAssumption DEF CanStart
<1>10. Writes(Before(G, s)) \subseteq Writes(Before(G, r))
  BY <1>4 DEF Writes
<1>11. wants[s] # wants[r]
  BY <1>3, <1>7, <1>9, <1>10 DEF CanStart
<1> QED BY <1>1, <1>7, <1>8, <1>11

(* A run overtakes an earlier one only if that one's workspace is taken.      *)
THEOREM QueueIsFair == Spec => NoUnjustOvertaking
<1> DEFINE InOrder == \A r \in active' \ active, s \in pending' :
                        arrival'[s] < arrival'[r]
                          => wants[s] \in writers' /\ wants[s] # wants[r]
<1>1. IInv /\ IInv' /\ [Next]_vars => [InOrder]_vars
  <2> SUFFICES ASSUME IInv, IInv', Next PROVE InOrder
    OBVIOUS
  <2>1. CASE \E q \in Runs : AcquireQueued(q)
    <3>1. PICK q \in Runs : AcquireQueued(q)
      BY <2>1
    <3>2. ~closed
      BY <3>1 DEF AcquireQueued, QueueRequest, Rejection
    <3>3. pending \cup {q} \in SUBSET Runs /\ IsFiniteSet(pending \cup {q})
      BY FS_AddElement DEF IInv, TypeOK
    <3>4. Drain(pending \cup {q}, active, writers, [admission EXCEPT ![q] = "waiting"])
      BY <3>1 DEF AcquireQueued, QueueRequest
    <3> QED BY <3>2, <3>3, <3>4, DrainInOrder DEF IInv, TypeOK
  <2>2. CASE \E q \in Runs : Release(q)
    <3>1. PICK q \in Runs : Release(q)
      BY <2>2
    <3>2. Drain(pending, active \ {q}, writers \ {wants[q]},
                [admission EXCEPT ![q] = "released"])
      BY <3>1 DEF Release, ReturnLease
    <3>3. active \ {q} \in SUBSET Runs /\ IsFiniteSet(active \ {q})
      BY FS_RemoveElement DEF IInv, TypeOK
    <3>4. closed => pending = {}
      BY DEF IInv, AdmissionsAccounted
    <3> QED BY <3>2, <3>3, <3>4, DrainInOrder DEF IInv, TypeOK
  <2>3. CASE \E r \in Runs : \/ AcquireRejected(r) \/ SignalAbort(r)
                             \/ OnAbort(r) \/ Deadline(r)
    BY <2>3 DEF AcquireRejected, RefuseRequest, SignalAbort, OnAbort, Deadline
  <2>4. CASE \E c \in Children : ChildNext(c)
    BY <2>4 DEF ChildNext, RetainChild, ChildPrompted, ChildOperationEnds, ChildFails,
       ChildTornDown, ChildCloseSettles, EvictionFulfilled, EvictionRejected,
       admissionVars
  <2>5. CASE ShutdownNext
    BY <2>5 DEF ShutdownNext, Shutdown, ShutdownRunsDone, ShutdownChildrenDone,
       admissionVars
  <2> QED BY <2>1, <2>2, <2>3, <2>4, <2>5 DEF Next, RunNext
<1> QED BY <1>1, InductiveInvariant, PTL DEF Spec, NoUnjustOvertaking

-----------------------------------------------------------------------------
(* The refinement of SubagentLeases.                                          *)

AdmissionMoves ==
  {<<"unasked", x>> : x \in {"waiting", "leased", "closed", "capacity", "aborted"}}
  \cup {<<"waiting", "leased">>, <<"waiting", "aborted">>, <<"leased", "released">>}

(* What drain() does to the promises of the runs.                             *)
LEMMA DrainMoves ==
  ASSUME NEW p \in SUBSET Runs, NEW a, NEW w, NEW adm, Drain(p, a, w, adm), NEW r \in Runs
  PROVE  \/ admission'[r] = adm[r]
         \/ r \in p /\ admission'[r] \in {"leased", "aborted"}
BY DEF Drain

LEMMA LeaseMoves ==
  ASSUME NEW x, NEW y, <<x, y>> \in AdmissionMoves, NEW r \in Runs,
         admission[r] = x, admission'[r] = y
  PROVE  <<LeaseOf(r), LeaseOf(r)'>> \in Leases!Moves
BY DEF AdmissionMoves, LeaseOf, Leases!Moves

(* A step that moves the promises one by one and closes nothing is a service  *)
(* step of SubagentLeases.                                                    *)
LEMMA ServeStep ==
  ASSUME IInv, IInv', wants' = wants, closed' = closed, closed => active' \subseteq active,
         \A r \in Runs : \/ admission'[r] = admission[r]
                         \/ <<admission[r], admission'[r]>> \in AdmissionMoves
  PROVE  Leases!Serve
<1> DEFINE l == [r \in Runs |-> LeaseOf(r)]
<1>1. l' \in [Runs -> Leases!LeaseStates]
  BY DEF LeaseOf, Leases!LeaseStates
<1>2. \A r \in Runs : l'[r] # l[r] => <<l[r], l'[r]>> \in Leases!Moves
  <2> SUFFICES ASSUME NEW r \in Runs, l'[r] # l[r] PROVE <<l[r], l'[r]>> \in Leases!Moves
    OBVIOUS
  <2>1. l[r] = LeaseOf(r) /\ l'[r] = LeaseOf(r)'
    OBVIOUS
  <2>2. admission'[r] # admission[r]
    BY <2>1 DEF LeaseOf
  <2> QED BY <2>1, <2>2, LeaseMoves
<1>3. \A r \in Runs : l'[r] = "held" <=> r \in active'
  BY DEF IInv, AdmissionsAccounted, LeaseOf
<1>4. \A r \in Runs : l[r] = "held" <=> r \in active
  BY DEF IInv, AdmissionsAccounted, LeaseOf
<1>5. {r \in Runs : l'[r] = "held"} = active'
  BY <1>3 DEF IInv, TypeOK
<1>6. Leases!Compatible(active')
  <2>1. Cardinality(active') <= MaxConcurrentRuns
    BY DEF IInv, LeaseExclusion
  <2>2. \A r, s \in active' : (r # s /\ wants[r] = wants[s]) => wants[r] = ReadOnly
    BY DEF IInv, LeaseExclusion
  <2>3. Leases!Cardinality(active') = Cardinality(active')
    BY Zenon DEF Leases!Cardinality, Cardinality
  <2> QED BY <2>1, <2>2, <2>3 DEF Leases!Compatible
<1> HIDE DEF l
<1>7. /\ Leases!Compatible({r \in Runs : l'[r] = "held"})
      /\ \A r \in Runs : l'[r] = "held" => (~closed \/ l[r] = "held")
  BY <1>3, <1>4, <1>5, <1>6
<1> QED BY <1>1, <1>2, <1>7 DEF Leases!Serve, l

(* Every step of the supervisor is a step of SubagentLeases or none.          *)
LEMMA LeaseStep ==
  ASSUME IInv, IInv', [Next]_vars
  PROVE  [Leases!Next]_Leases!leaseVars
<1>1. CASE \E r \in Runs : RunNext(r)
  <2>1. PICK r \in Runs : RunNext(r)
    BY <1>1
  <2>2. wants' = wants /\ closed' = closed
    BY <2>1 DEF RunNext, AcquireRejected, RefuseRequest, AcquireQueued, QueueRequest, SignalAbort, OnAbort, Deadline,
       Release, ReturnLease, shutdownVars
  <2>3. closed => active' \subseteq active
    <3>1. CASE AcquireQueued(r) \/ Release(r)
      <4>1. closed => pending' = {} /\ pending = {}
        BY <2>2 DEF IInv, AdmissionsAccounted
      <4>2. CASE AcquireQueued(r)
        BY <4>2 DEF AcquireQueued, QueueRequest, Rejection
      <4>3. CASE Release(r)
        BY <4>1, <4>3 DEF Release, ReturnLease, Drain
      <4> QED BY <3>1, <4>2, <4>3
    <3> QED BY <2>1, <3>1 DEF RunNext, AcquireRejected, RefuseRequest, SignalAbort, OnAbort, Deadline
  <2>4. ASSUME NEW s \in Runs
        PROVE  \/ admission'[s] = admission[s]
               \/ <<admission[s], admission'[s]>> \in AdmissionMoves
    <3>1. CASE AcquireRejected(r)
      BY <3>1 DEF AcquireRejected, RefuseRequest, Rejection, AdmissionMoves, IInv, TypeOK
    <3>2. CASE AcquireQueued(r)
      <4>1. admission[r] = "unasked"
            /\ Drain(pending \cup {r}, active, writers, [admission EXCEPT ![r] = "waiting"])
        BY <3>2 DEF AcquireQueued, QueueRequest
      <4>2. s \in pending => admission[s] = "waiting"
        BY DEF IInv, AdmissionsAccounted
      <4>3. pending \cup {r} \in SUBSET Runs
        BY DEF IInv, TypeOK
      <4>4. [admission EXCEPT ![r] = "waiting"][s] = IF s = r THEN "waiting" ELSE admission[s]
        BY DEF IInv, TypeOK
      <4>5. \/ admission'[s] = IF s = r THEN "waiting" ELSE admission[s]
            \/ s \in pending \cup {r} /\ admission'[s] \in {"leased", "aborted"}
        BY <4>1, <4>3, <4>4, DrainMoves
      <4> QED BY <4>1, <4>2, <4>5 DEF AdmissionMoves
    <3>3. CASE OnAbort(r)
      BY <3>3 DEF OnAbort, AdmissionMoves, IInv, TypeOK, AdmissionsAccounted
    <3>4. CASE Release(r)
      <4>1. r \in active
            /\ Drain(pending, active \ {r}, writers \ {wants[r]},
                     [admission EXCEPT ![r] = "released"])
        BY <3>4 DEF Release, ReturnLease
      <4>2. (s \in pending => admission[s] = "waiting") /\ admission[r] = "leased"
        BY <4>1 DEF IInv, AdmissionsAccounted
      <4>3. pending \in SUBSET Runs
        BY DEF IInv, TypeOK
      <4>4. [admission EXCEPT ![r] = "released"][s] = IF s = r THEN "released" ELSE admission[s]
        BY DEF IInv, TypeOK
      <4>5. r \notin pending
        BY <4>2 DEF IInv, AdmissionsAccounted
      <4>6. \/ admission'[s] = IF s = r THEN "released" ELSE admission[s]
            \/ s \in pending /\ admission'[s] \in {"leased", "aborted"}
        BY <4>1, <4>3, <4>4, DrainMoves
      <4> QED BY <4>2, <4>5, <4>6 DEF AdmissionMoves
    <3>5. CASE SignalAbort(r) \/ Deadline(r)
      BY <3>5 DEF SignalAbort, Deadline
    <3> QED BY <2>1, <3>1, <3>2, <3>3, <3>4, <3>5 DEF RunNext
  <2> QED BY <2>2, <2>3, <2>4, ServeStep DEF Leases!Next
<1>2. CASE Shutdown
  <2>1. \A r \in Runs : admission[r] = "waiting" <=> r \in pending
    BY DEF IInv, AdmissionsAccounted
  <2>2. [r \in Runs |-> LeaseOf(r)]' =
          [r \in Runs |-> IF LeaseOf(r) = "asked" THEN "refused" ELSE LeaseOf(r)]
    BY <1>2, <2>1 DEF Shutdown, LeaseOf, IInv, TypeOK, AdmissionStates
  <2> QED BY <1>2, <2>2 DEF Shutdown, Leases!Next, Leases!Close
<1>3. CASE UNCHANGED <<wants, admission, closed>>
  BY <1>3 DEF Leases!leaseVars, LeaseOf
<1>4. CASE \E c \in Children : ChildNext(c)
  BY <1>3, <1>4 DEF ChildNext, RetainChild, ChildPrompted, ChildOperationEnds, ChildFails,
     ChildTornDown, ChildCloseSettles, EvictionFulfilled, EvictionRejected,
     admissionVars, shutdownVars
<1>5. CASE ShutdownRunsDone \/ ShutdownChildrenDone
  BY <1>3, <1>5 DEF ShutdownRunsDone, ShutdownChildrenDone, admissionVars
<1>6. CASE UNCHANGED vars
  BY <1>3, <1>6 DEF vars, admissionVars, shutdownVars
<1> QED BY <1>1, <1>2, <1>4, <1>5, <1>6 DEF Next, ShutdownNext

(* SubagentRunSupervisor implements the lease service of SubagentLeases.      *)
THEOREM LeasesAreImplemented == Spec => ImplementsLeases
<1>1. Init => Leases!Init
  BY DEF Init, Leases!Init, LeaseOf
<1>2. IInv /\ IInv' /\ [Next]_vars => [Leases!Next]_Leases!leaseVars
  BY LeaseStep
<1> QED BY <1>1, <1>2, InductiveInvariant, PTL DEF Spec, ImplementsLeases, Leases!Spec

-----------------------------------------------------------------------------
(* Retained children.  Whoever is not retained any more has finished closing, *)
(* and of those whose closing failed there is a record.                       *)
Open(c) == childState[c] \in {"Idle", "Busy"}

ChildOwned(c) ==
  /\ childState[c] = "New" => closing[c] = "none" /\ c \notin retained
  /\ Open(c) => c \in retained \ evicting /\ ~closed
  /\ childState[c] # "New" /\ c \notin retained => closing[c] \in {"fulfilled", "rejected"}
  /\ closing[c] = "rejected" /\ c \notin retained => failures > 0 \/ shutdownPhase = "failed"

ShutdownOrder ==
  /\ closed <=> shutdownPhase # "open"
  /\ shutdownPhase \in {"awaitChildren", "done", "failed"} => active = {}
  /\ shutdownPhase \in {"done", "failed"} => retained = {}
  /\ shutdownPhase = "done" => \A c \in Children : closing[c] # "rejected"

Resting == {c \in retained \ evicting : childState[c] = "Idle"}

OwnedInv ==
  /\ \A c \in Children : ChildOwned(c)
  /\ ShutdownOrder
  /\ IsFiniteSet(retained) /\ Cardinality(Resting) <= MaxRetainedJobs

LEMMA OwnedInit == Init => OwnedInv
<1> SUFFICES ASSUME Init PROVE OwnedInv
  OBVIOUS
<1>1. \A c \in Children : ChildOwned(c)
  BY DEF Init, ChildOwned, Open
<1>2. ShutdownOrder
  BY DEF Init, ShutdownOrder
<1>3. IsFiniteSet(retained) /\ Resting = {} /\ Cardinality({}) = 0
  BY FS_EmptySet DEF Init, Resting
<1> QED BY <1>1, <1>2, <1>3, LimitsAssumption DEF OwnedInv

(* Fewer children rest than before. *)
LEMMA RestingShrinks ==
  ASSUME TypeOK, OwnedInv, IsFiniteSet(retained'), Resting' \subseteq Resting
  PROVE  Cardinality(Resting') <= MaxRetainedJobs
<1>1. IsFiniteSet(Resting)
  BY FS_Subset DEF OwnedInv, Resting
<1>2. Cardinality(Resting') <= Cardinality(Resting)
  BY <1>1, FS_Subset
<1>3. IsFiniteSet(Resting') /\ Cardinality(Resting') \in Nat /\ Cardinality(Resting) \in Nat
  BY <1>1, FS_Subset, FS_CardinalityType
<1> QED BY <1>2, <1>3, LimitsAssumption DEF OwnedInv

(* pruneChildren() closes all that rest or as many as are too many. *)
LEMMA PruneRetention ==
  ASSUME TypeOK, IsFiniteSet(retained), ~closed, NEW cs \in [Children -> ChildStates], PruneChildren(cs)
  PROVE  /\ Cardinality(Resting') <= MaxRetainedJobs
         /\ UNCHANGED <<retained, failures>> /\ evicting \subseteq evicting'
         /\ \A c \in Children : \/ childState'[c] = cs[c] /\ (c \in evicting' \ evicting => cs[c] = "Closed")
                                \/ cs[c] = "Idle" /\ childState'[c] = "Closing" /\ c \in retained
         /\ \A c \in Children : \/ closing'[c] = closing[c]
                                \/ closing[c] = "none" /\ closing'[c] = "pending" /\ c \in retained
<1> DEFINE evictable == {c \in retained \ evicting : Settled(cs, c)}
<1>1. PICK V \in SUBSET evictable :
        /\ V # evictable => Cardinality(V) >= Excess
        /\ evicting' = evicting \cup V
        /\ childState' = [c \in Children |-> IF c \in V /\ cs[c] = "Idle" THEN "Closing" ELSE cs[c]]
        /\ closing' = [c \in Children |-> IF c \in V /\ closing[c] = "none" THEN "pending" ELSE closing[c]]
        /\ UNCHANGED <<retained, retainedAt, retentions, failures, omitted>>
  BY Zenon DEF PruneChildren
<1>2. V \subseteq retained \ evicting /\ \A c \in V : cs[c] \in {"Idle", "Closed"}
  BY DEF Settled
<1>3. CASE V = evictable
  <2>1. Resting' = {}
    BY <1>1, <1>3 DEF Resting, Settled, TypeOK
  <2> QED BY <1>1, <1>2, <2>1, FS_EmptySet, LimitsAssumption
<1>4. CASE V # evictable
  <2>1. /\ IsFiniteSet(evicting) /\ IsFiniteSet(V) /\ Cardinality(retained) \in Nat
        /\ Cardinality(evicting) \in Nat /\ Cardinality(V) \in Nat
    BY <1>2, FS_Subset, FS_CardinalityType DEF TypeOK
  <2>2. evicting \cap V = {} /\ evicting \cup V \subseteq retained
    BY <1>2 DEF TypeOK
  <2>3. /\ IsFiniteSet(evicting \cup V)
        /\ Cardinality(evicting \cup V) = Cardinality(evicting) + Cardinality(V) - Cardinality(evicting \cap V)
    BY <2>1, FS_Union
  <2>4. Cardinality(evicting \cap V) = 0
    BY <2>2, FS_EmptySet
  <2>5. retained \cap (evicting \cup V) = evicting \cup V
    BY <2>2
  <2> DEFINE rest == retained \ (evicting \cup V)
  <2>6. IsFiniteSet(rest) /\ Cardinality(rest) = Cardinality(retained) - Cardinality(evicting) - Cardinality(V)
    <3>1. Cardinality(rest) = Cardinality(retained) - Cardinality(retained \cap (evicting \cup V)) /\ IsFiniteSet(rest)
      BY <2>3, FS_Difference
    <3>2. Cardinality(evicting \cup V) = Cardinality(evicting) + Cardinality(V)
      BY <2>1, <2>3, <2>4
    <3> HIDE DEF rest
    <3> QED BY <2>1, <2>5, <3>1, <3>2
  <2>7. Resting' \subseteq rest
    BY <1>1 DEF Resting
  <2>8. Cardinality(Resting') <= Cardinality(rest) /\ Cardinality(Resting') \in Nat
    BY <2>6, <2>7, FS_Subset, FS_CardinalityType
  <2>9. Cardinality(V) >= Cardinality(retained) - Cardinality(evicting) - MaxRetainedJobs
    BY <1>1, <1>4 DEF Excess
  <2>10. Cardinality(Resting') <= MaxRetainedJobs
    <3> HIDE DEF rest
    <3> QED BY <2>1, <2>6, <2>8, <2>9, LimitsAssumption
  <2> QED BY <1>1, <1>2, <2>10
<1> QED BY <1>3, <1>4

(* A step about runs that retains and closes no child. *)
LEMMA OwnedFrame ==
  ASSUME TypeOK, OwnedInv, UNCHANGED <<childVars, shutdownVars>>, active' \subseteq active \/ ~closed
  PROVE  OwnedInv'
<1>1. \A c \in Children : ChildOwned(c)'
  BY DEF OwnedInv, ChildOwned, Open, childVars, shutdownVars
<1>2. ShutdownOrder'
  BY DEF OwnedInv, ShutdownOrder, childVars, shutdownVars
<1>3. IsFiniteSet(retained') /\ Resting' = Resting
  BY DEF OwnedInv, Resting, childVars
<1> QED BY <1>1, <1>2, <1>3 DEF OwnedInv

LEMMA OwnedRelease ==
  ASSUME IInv, OwnedInv, NEW r \in Runs, Release(r)
  PROVE  OwnedInv'
<1>1. UNCHANGED shutdownVars /\ PruneChildren(childState)
  BY DEF Release, ReturnLease
<1>2. CASE closed
  <2>1. active' \subseteq active
    BY <1>2 DEF Release, ReturnLease, Drain
  <2>2. UNCHANGED childVars
    BY <1>1, <1>2 DEF PruneChildren, childVars
  <2> QED BY <1>1, <2>1, <2>2, OwnedFrame DEF IInv
<1>3. CASE ~closed
  <2>1. childState \in [Children -> ChildStates] /\ TypeOK /\ IsFiniteSet(retained)
    BY DEF IInv, TypeOK, OwnedInv
  <2>2. /\ Cardinality(Resting') <= MaxRetainedJobs
        /\ UNCHANGED <<retained, failures>> /\ evicting \subseteq evicting'
        /\ \A c \in Children : \/ childState'[c] = childState[c] /\ (c \in evicting' \ evicting => childState[c] = "Closed")
                               \/ childState[c] = "Idle" /\ childState'[c] = "Closing" /\ c \in retained
        /\ \A c \in Children : \/ closing'[c] = closing[c]
                               \/ closing[c] = "none" /\ closing'[c] = "pending" /\ c \in retained
    BY <1>1, <1>3, <2>1, PruneRetention
  <2>3. \A c \in Children : ChildOwned(c)'
    BY <1>1, <2>2 DEF OwnedInv, ChildOwned, Open, shutdownVars
  <2>4. ShutdownOrder'
    BY <1>1, <1>3 DEF OwnedInv, ShutdownOrder, shutdownVars
  <2> QED BY <2>1, <2>2, <2>3, <2>4 DEF OwnedInv
<1> QED BY <1>2, <1>3

LEMMA OwnedRun ==
  ASSUME IInv, OwnedInv, NEW r \in Runs, RunNext(r)
  PROVE  OwnedInv'
<1>1. CASE AcquireRejected(r) \/ SignalAbort(r) \/ OnAbort(r) \/ Deadline(r)
  BY <1>1, OwnedFrame DEF IInv, AcquireRejected, RefuseRequest, SignalAbort, OnAbort, Deadline
<1>2. CASE AcquireQueued(r)
  <2>1. ~closed
    BY <1>2 DEF AcquireQueued, QueueRequest, Rejection
  <2> QED BY <1>2, <2>1, OwnedFrame DEF IInv, AcquireQueued
<1> QED BY <1>1, <1>2, OwnedRelease DEF RunNext

LEMMA OwnedChild ==
  ASSUME IInv, OwnedInv, NEW c \in Children, ChildNext(c)
  PROVE  OwnedInv'
<1>1. UNCHANGED <<admissionVars, shutdownVars>> /\ TypeOK
  BY DEF IInv, ChildNext, RetainChild, ChildPrompted, ChildOperationEnds, ChildFails,
     ChildTornDown, ChildCloseSettles, EvictionFulfilled, EvictionRejected
<1>2. UNCHANGED <<active, closed, shutdownPhase>>
  BY <1>1 DEF admissionVars, shutdownVars
<1>3. CASE ChildOperationEnds(c)
  <2> DEFINE cs == [childState EXCEPT ![c] = "Idle"]
  <2>1. childState[c] = "Busy" /\ PruneChildren(cs) /\ cs \in [Children -> ChildStates]
    BY <1>1, <1>3 DEF ChildOperationEnds, TypeOK, ChildStates
  <2>2. ~closed /\ c \in retained \ evicting /\ IsFiniteSet(retained)
    BY <2>1 DEF OwnedInv, ChildOwned, Open
  <2>3. \A d \in Children : cs[d] = IF d = c THEN "Idle" ELSE childState[d]
    BY <1>1 DEF TypeOK
  <2> HIDE DEF cs
  <2>4. /\ Cardinality(Resting') <= MaxRetainedJobs
        /\ UNCHANGED <<retained, failures>> /\ evicting \subseteq evicting'
        /\ \A d \in Children : \/ childState'[d] = cs[d] /\ (d \in evicting' \ evicting => cs[d] = "Closed")
                               \/ cs[d] = "Idle" /\ childState'[d] = "Closing" /\ d \in retained
        /\ \A d \in Children : \/ closing'[d] = closing[d]
                               \/ closing[d] = "none" /\ closing'[d] = "pending" /\ d \in retained
    BY <1>1, <2>1, <2>2, PruneRetention
  <2>5. \A d \in Children : ChildOwned(d)'
    BY <1>2, <2>2, <2>3, <2>4 DEF OwnedInv, ChildOwned, Open
  <2>6. ShutdownOrder'
    BY <1>2, <2>2 DEF OwnedInv, ShutdownOrder
  <2> QED BY <2>2, <2>4, <2>5, <2>6 DEF OwnedInv
<1>4. CASE RetainChild(c)
  <2>1. /\ ~closed /\ childState[c] = "New" /\ retained' = retained \cup {c}
        /\ childState' = [childState EXCEPT ![c] = "Busy"]
        /\ UNCHANGED <<evicting, closing, failures>>
    BY <1>4 DEF RetainChild
  <2>2. IsFiniteSet(retained')
    BY <2>1, FS_AddElement DEF OwnedInv
  <2>3. \A d \in Children : ChildOwned(d)'
    BY <1>1, <1>2, <2>1 DEF TypeOK, OwnedInv, ChildOwned, Open
  <2>4. ShutdownOrder'
    BY <1>2, <2>1 DEF OwnedInv, ShutdownOrder
  <2>5. Resting' \subseteq Resting
    BY <1>1, <2>1 DEF TypeOK, Resting
  <2> QED BY <1>1, <2>2, <2>3, <2>4, <2>5, RestingShrinks DEF OwnedInv
<1>5. CASE ChildPrompted(c) \/ ChildFails(c) \/ ChildTornDown(c)
  <2>1. /\ UNCHANGED <<retained, evicting, failures>>
        /\ \/ childState[c] = "Idle" /\ childState' = [childState EXCEPT ![c] = "Busy"] /\ UNCHANGED closing
           \/ /\ childState[c] \in {"Idle", "Busy"} /\ childState' = [childState EXCEPT ![c] = "Closing"]
              /\ closing' = [closing EXCEPT ![c] = "pending"]
           \/ childState[c] = "Closing" /\ childState' = [childState EXCEPT ![c] = "Closed"] /\ UNCHANGED closing
    BY <1>5 DEF ChildPrompted, ChildFails, ChildTornDown
  <2>2. \A d \in Children : ChildOwned(d)'
    BY <1>1, <1>2, <2>1 DEF TypeOK, OwnedInv, ChildOwned, Open
  <2>3. ShutdownOrder'
    BY <1>1, <1>2, <2>1 DEF TypeOK, OwnedInv, ShutdownOrder, ChildOwned, Open
  <2>4. Resting' \subseteq Resting /\ IsFiniteSet(retained')
    BY <1>1, <2>1 DEF TypeOK, OwnedInv, Resting
  <2> QED BY <1>1, <2>2, <2>3, <2>4, RestingShrinks DEF OwnedInv
<1>6. CASE ChildCloseSettles(c)
  <2>1. /\ UNCHANGED <<retained, evicting, childState, failures>> /\ closing[c] = "pending"
        /\ \/ closing' = [closing EXCEPT ![c] = "fulfilled"]
           \/ closing' = [closing EXCEPT ![c] = "rejected"]
    BY <1>6 DEF ChildCloseSettles
  <2>2. c \in retained
    BY <2>1 DEF OwnedInv, ChildOwned
  <2>3. \A d \in Children : ChildOwned(d)'
    BY <1>1, <1>2, <2>1, <2>2 DEF TypeOK, OwnedInv, ChildOwned, Open
  <2>4. ShutdownOrder'
    BY <1>2, <2>1, <2>2 DEF OwnedInv, ShutdownOrder
  <2>5. Resting' \subseteq Resting /\ IsFiniteSet(retained')
    BY <2>1 DEF OwnedInv, Resting
  <2> QED BY <1>1, <2>3, <2>4, <2>5, RestingShrinks DEF OwnedInv
<1>7. CASE EvictionFulfilled(c) \/ EvictionRejected(c)
  <2>1. /\ c \in evicting /\ closing[c] \in {"fulfilled", "rejected"} /\ UNCHANGED <<childState, closing>>
        /\ evicting' = evicting \ {c} /\ retained' \in {retained, retained \ {c}}
        /\ closing[c] = "rejected" => failures' > 0
        /\ failures > 0 => failures' > 0
    BY <1>1, <1>7, LimitsAssumption DEF EvictionFulfilled, EvictionRejected, RecordFailure, TypeOK
  <2>2. \A d \in Children : ChildOwned(d)'
    BY <1>1, <1>2, <2>1 DEF TypeOK, OwnedInv, ChildOwned, Open
  <2>3. ShutdownOrder'
    BY <1>2, <2>1 DEF OwnedInv, ShutdownOrder
  <2>4. Resting' \subseteq Resting
    BY <1>1, <2>1 DEF TypeOK, OwnedInv, ChildOwned, Open, Resting
  <2>5. IsFiniteSet(retained')
    BY <2>1, FS_RemoveElement DEF OwnedInv
  <2> QED BY <1>1, <2>2, <2>3, <2>4, <2>5, RestingShrinks DEF OwnedInv
<1> QED BY <1>3, <1>4, <1>5, <1>6, <1>7 DEF ChildNext

LEMMA OwnedShutdown ==
  ASSUME IInv, OwnedInv, ShutdownNext
  PROVE  OwnedInv'
<1>0. TypeOK
  BY DEF IInv
<1>1. CASE Shutdown
  <2>1. /\ ~closed /\ closed' = TRUE /\ shutdownPhase' = "awaitRuns" /\ UNCHANGED <<retained, evicting, failures>>
        /\ childState' = [c \in Children |-> IF c \in retained /\ childState[c] # "Closed" THEN "Closing" ELSE childState[c]]
        /\ closing' = [c \in Children |-> IF c \in retained /\ closing[c] = "none" THEN "pending" ELSE closing[c]]
    BY <1>1 DEF Shutdown
  <2>2. \A c \in Children : ChildOwned(c)'
    BY <2>1 DEF OwnedInv, ShutdownOrder, ChildOwned, Open
  <2>3. ShutdownOrder'
    BY <2>1 DEF ShutdownOrder
  <2>4. Resting' \subseteq Resting /\ IsFiniteSet(retained')
    BY <1>0, <2>1 DEF TypeOK, OwnedInv, Resting
  <2> QED BY <1>0, <2>2, <2>3, <2>4, RestingShrinks DEF OwnedInv
<1>2. CASE ShutdownRunsDone
  <2>1. /\ shutdownPhase = "awaitRuns" /\ active = {} /\ shutdownPhase' = "awaitChildren"
        /\ UNCHANGED <<active, retained, evicting, childState, closing, failures, closed>>
    BY <1>2 DEF ShutdownRunsDone, admissionVars, childVars
  <2>2. \A c \in Children : ChildOwned(c)'
    BY <2>1 DEF OwnedInv, ChildOwned, Open
  <2>3. ShutdownOrder' /\ Resting' = Resting
    BY <2>1 DEF OwnedInv, ShutdownOrder, Resting
  <2> QED BY <2>1, <2>2, <2>3 DEF OwnedInv
<1>3. CASE ShutdownChildrenDone
  <2>1. /\ shutdownPhase = "awaitChildren" /\ \A c \in retained : closing[c] \in {"fulfilled", "rejected"}
        /\ retained' = {} /\ shutdownPhase' = ShutdownOutcome
        /\ UNCHANGED <<active, evicting, childState, closing, failures, closed>>
    BY <1>3 DEF ShutdownChildrenDone, admissionVars
  <2>2. closed /\ active = {}
    BY <2>1 DEF OwnedInv, ShutdownOrder
  <2>3. \A c \in retained : closing[c] = "rejected" => ShutdownOutcome = "failed"
    BY DEF ShutdownOutcome
  <2>4. failures > 0 => ShutdownOutcome = "failed"
    BY DEF ShutdownOutcome
  <2>5. ShutdownOutcome \in {"done", "failed"}
    BY DEF ShutdownOutcome
  <2>6. ShutdownOrder'
    BY <2>1, <2>2, <2>3, <2>4, <2>5 DEF OwnedInv, ShutdownOrder, ChildOwned
  <2>7. \A c \in Children : ChildOwned(c)'
    BY <2>1, <2>2, <2>3 DEF OwnedInv, ChildOwned, Open
  <2>8. Resting' \subseteq Resting /\ IsFiniteSet(retained')
    BY <2>1, FS_EmptySet DEF Resting
  <2> QED BY <1>0, <2>6, <2>7, <2>8, RestingShrinks DEF OwnedInv
<1> QED BY <1>1, <1>2, <1>3 DEF ShutdownNext

LEMMA OwnedStep == IInv /\ OwnedInv /\ [Next]_vars => OwnedInv'
<1> SUFFICES ASSUME IInv, OwnedInv, [Next]_vars PROVE OwnedInv'
  OBVIOUS
<1>1. CASE UNCHANGED vars
  BY <1>1, OwnedFrame DEF IInv, vars, admissionVars
<1> QED BY <1>1, OwnedRun, OwnedChild, OwnedShutdown DEF Next

(* pruneChildren never leaves more idle children than maxRetainedJobs.         *)
THEOREM RetentionIsBounded == Spec => []IdleWithinRetention
<1>1. OwnedInv => IdleWithinRetention
  BY DEF OwnedInv, Resting, IdleWithinRetention
<1> QED BY <1>1, OwnedInit, OwnedStep, InductiveInvariant, PTL DEF Spec

(* shutdownOwnedRuns settles only after every lease came back and every child   *)
(* that was ever retained finished closing, and resolves only if none failed.   *)
THEOREM ShutdownIsThorough == Spec => []ShutdownOwnsEverything
<1>1. OwnedInv => ShutdownOwnsEverything
  BY DEF OwnedInv, ChildOwned, ShutdownOrder, ShutdownOwnsEverything
<1> QED BY <1>1, OwnedInit, OwnedStep, InductiveInvariant, PTL DEF Spec
=============================================================================
