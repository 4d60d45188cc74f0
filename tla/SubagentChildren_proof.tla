------------------------ MODULE SubagentChildren_proof ------------------------
(***************************************************************************)
(* Theorems about SubagentChildren, for any runs, children and limits.  The   *)
(* argument: a run that waits or holds a lease is the latest of its child,    *)
(* whose operation goes on; and a child that is torn down is Closing or       *)
(* Closed, which nothing undoes.                                             *)
(***************************************************************************)
EXTENDS SubagentChildren, TLAPS

ClosingStates == {"none", "pending", "fulfilled", "rejected"}

TypesOK ==
  /\ admission \in [Runs -> AdmissionStates] /\ pending \subseteq Runs /\ active \subseteq Runs
  /\ childState \in [Children -> ChildStates] /\ closing \in [Children -> ClosingStates]
  /\ op \in [Children -> OpStates] /\ run \in [Children -> Runs \cup {NoRun}]
  /\ teardown \in [Children -> ClosingStates]

Accounted == \A r \in Runs : /\ admission[r] = "waiting" <=> r \in pending
                             /\ admission[r] = "leased" <=> r \in active

(* A run that was neither refused nor released is the one its child is busy with. *)
RunsOwned ==
  \A r \in Runs : admission[r] \in {"waiting", "leased"} =>
    /\ run[Owner[r]] = r
    /\ op[Owner[r]] \notin {"none", "done"} /\ (admission[r] = "waiting" => op[Owner[r]] = "acquire")

OperationsLeased ==
  \A c \in Children :
    /\ op[c] # "none" => run[c] \in Runs /\ Owner[run[c]] = c
    /\ op[c] \notin {"none", "acquire", "done"} => admission[run[c]] = "leased"
    /\ childState[c] \in {"New", "Idle"} => op[c] = "none"

Gone(c) == childState[c] \in {"Closing", "Closed"}

TeardownIsFinal ==
  \A c \in Children :
    /\ closing[c] # "none" => Gone(c)
    /\ op[c] \in {"abort", "teardown"} => Gone(c)
    /\ teardown[c] # "none" => Gone(c) /\ op[c] \notin {"acquire", "start", "operate"}

ChildrenInv == TypesOK /\ Accounted /\ RunsOwned /\ OperationsLeased /\ TeardownIsFinal

LEMMA ChildrenInitInv == ChildrenInit => ChildrenInv
<1> SUFFICES ASSUME ChildrenInit PROVE ChildrenInv
  OBVIOUS
<1> USE DEF ChildrenInit, Init
<1>1. TypesOK
  BY DEF TypesOK, AdmissionStates, ChildStates, ClosingStates, OpStates
<1>2. Accounted /\ RunsOwned /\ OperationsLeased /\ TeardownIsFinal
  BY DEF Accounted, RunsOwned, OperationsLeased, TeardownIsFinal, Gone
<1> QED BY <1>1, <1>2 DEF ChildrenInv

-----------------------------------------------------------------------------
(* drain() grants or rejects what waits and leaves the rest as it is. *)
LEMMA DrainAccounts ==
  ASSUME NEW p \in SUBSET Runs, NEW a \in SUBSET Runs, NEW w, NEW adm \in [Runs -> AdmissionStates],
         \A r \in Runs : /\ adm[r] = "waiting" <=> r \in p
                         /\ adm[r] = "leased" <=> r \in a,
         Drain(p, a, w, adm)
  PROVE  /\ admission' \in [Runs -> AdmissionStates] /\ pending' \subseteq Runs /\ active' \subseteq Runs
         /\ Accounted'
         /\ \A r \in Runs : \/ admission'[r] = adm[r]
                            \/ adm[r] = "waiting" /\ admission'[r] \in {"leased", "aborted"}
<1>1. PICK G \in SUBSET p :
        /\ pending' = p \ G /\ active' = a \cup (G \ signalAborted)
        /\ admission' = [r \in Runs |-> IF r \in G \ signalAborted THEN "leased"
                                        ELSE IF r \in G THEN "aborted" ELSE adm[r]]
  BY DEF Drain
<1>2. /\ \A r \in Runs : admission'[r] = IF r \in G \ signalAborted THEN "leased"
                                         ELSE IF r \in G THEN "aborted" ELSE adm[r]
      /\ admission' \in [Runs -> AdmissionStates]
  BY <1>1 DEF AdmissionStates
<1>3. Accounted'
  BY <1>1, <1>2 DEF Accounted
<1> QED BY <1>1, <1>2, <1>3

(* acquire() answers one run that had not asked. *)
LEMMA AskAccounts ==
  ASSUME ChildrenInv, NEW r \in Runs, Ask(r)
  PROVE  /\ admission[r] = "unasked"
         /\ admission' \in [Runs -> AdmissionStates] /\ pending' \subseteq Runs /\ active' \subseteq Runs
         /\ Accounted'
         /\ \A s \in Runs \ {r} : \/ admission'[s] = admission[s]
                                  \/ admission[s] = "waiting" /\ admission'[s] \in {"leased", "aborted"}
         /\ admission'[r] # "unasked"
<1>1. admission[r] = "unasked" /\ TypesOK /\ Accounted
  BY DEF Ask, RefuseRequest, QueueRequest, ChildrenInv
<1>2. CASE RefuseRequest(r)
  <2>1. /\ admission' = [admission EXCEPT ![r] = Rejection(r)] /\ UNCHANGED <<pending, active>>
        /\ Rejection(r) \in {"closed", "aborted", "capacity"}
    BY <1>2 DEF RefuseRequest, Rejection
  <2>2. admission' \in [Runs -> AdmissionStates]
    BY <1>1, <2>1 DEF TypesOK, AdmissionStates
  <2>3. Accounted'
    BY <1>1, <2>1 DEF TypesOK, Accounted
  <2> QED BY <1>1, <2>1, <2>2, <2>3 DEF TypesOK
<1>3. CASE QueueRequest(r)
  <2> DEFINE adm == [admission EXCEPT ![r] = "waiting"]
             p == pending \cup {r}
  <2>1. Drain(p, active, writers, adm)
    BY <1>3 DEF QueueRequest
  <2>2. /\ adm \in [Runs -> AdmissionStates] /\ p \in SUBSET Runs /\ active \in SUBSET Runs
        /\ \A s \in Runs : adm[s] = IF s = r THEN "waiting" ELSE admission[s]
        /\ \A s \in Runs : /\ adm[s] = "waiting" <=> s \in p
                           /\ adm[s] = "leased" <=> s \in active
    BY <1>1 DEF TypesOK, Accounted, AdmissionStates
  <2> HIDE DEF adm, p
  <2> QED BY <1>1, <2>1, <2>2, DrainAccounts
<1> QED BY <1>2, <1>3 DEF Ask

(* pruneChildren() closes children that are idle. *)
LEMMA PruneCloses ==
  ASSUME TypesOK, NEW cs \in [Children -> ChildStates], PruneChildren(cs),
         \A c \in Children : closing[c] # "none" => cs[c] \in {"Closing", "Closed"}
  PROVE  /\ childState' \in [Children -> ChildStates] /\ closing' \in [Children -> ClosingStates]
         /\ \A c \in Children : childState'[c] = cs[c] \/ (cs[c] = "Idle" /\ childState'[c] = "Closing")
         /\ \A c \in Children : closing'[c] # "none" => childState'[c] \in {"Closing", "Closed"}
<1>1. CASE closed
  BY <1>1 DEF PruneChildren, TypesOK
<1>2. CASE ~closed
  <2>1. PICK V \in SUBSET {c \in retained \ evicting : Settled(cs, c)} :
          /\ childState' = [c \in Children |-> IF c \in V /\ cs[c] = "Idle" THEN "Closing" ELSE cs[c]]
          /\ closing' = [c \in Children |-> IF c \in V /\ closing[c] = "none" THEN "pending" ELSE closing[c]]
    BY <1>2, Zenon DEF PruneChildren
  <2>2. \A c \in V : cs[c] \in {"Idle", "Closed"}
    BY DEF Settled
  <2>3. childState' \in [Children -> ChildStates] /\ closing' \in [Children -> ClosingStates]
    BY <2>1 DEF TypesOK, ChildStates, ClosingStates
  <2> QED BY <2>1, <2>2, <2>3
<1> QED BY <1>1, <1>2

-----------------------------------------------------------------------------
(* A child begins an operation: it is new or idle, and none of its runs waits.  *)
LEMMA LaunchStep ==
  ASSUME ChildrenInv, NEW c \in Children, NEW r \in Runs, Launch(c, r) \/ Prompt(c, r)
  PROVE  ChildrenInv'
<1>1. /\ childState[c] \in {"New", "Idle"} /\ Owner[r] = c /\ Ask(r)
      /\ childState' = [childState EXCEPT ![c] = "Busy"]
      /\ op' = [op EXCEPT ![c] = "acquire"] /\ run' = [run EXCEPT ![c] = r]
      /\ UNCHANGED <<closing, teardown>>
  BY DEF Launch, Prompt
<1>2. /\ admission[r] = "unasked"
      /\ admission' \in [Runs -> AdmissionStates] /\ pending' \subseteq Runs /\ active' \subseteq Runs
      /\ Accounted'
      /\ \A s \in Runs \ {r} : \/ admission'[s] = admission[s]
                               \/ admission[s] = "waiting" /\ admission'[s] \in {"leased", "aborted"}
  BY <1>1, AskAccounts
<1>3. TypesOK /\ op[c] = "none" /\ \A s \in Runs : Owner[s] = c => admission[s] \notin {"waiting", "leased"}
  BY <1>1 DEF ChildrenInv, OperationsLeased, RunsOwned
<1>4. TypesOK'
  BY <1>1, <1>2, <1>3 DEF TypesOK, ChildStates, OpStates
<1>5. RunsOwned'
  <2> SUFFICES ASSUME NEW s \in Runs, admission'[s] \in {"waiting", "leased"}
               PROVE  /\ run'[Owner[s]] = s /\ op'[Owner[s]] \notin {"none", "done"}
                      /\ admission'[s] = "waiting" => op'[Owner[s]] = "acquire"
    BY DEF RunsOwned
  <2>1. CASE s = r
    BY <1>1, <1>3, <2>1 DEF TypesOK
  <2>2. CASE s # r
    <3>1. admission[s] \in {"waiting", "leased"} /\ (admission'[s] = "waiting" => admission[s] = "waiting")
      BY <1>2, <2>2
    <3>2. Owner[s] # c /\ Owner[s] \in Children
      BY <1>3, <3>1, OwnerAssumption
    <3>3. run'[Owner[s]] = run[Owner[s]] /\ op'[Owner[s]] = op[Owner[s]]
      BY <1>1, <1>3, <3>2 DEF TypesOK
    <3> QED BY <3>1, <3>3 DEF ChildrenInv, RunsOwned
  <2> QED BY <2>1, <2>2
<1>6. OperationsLeased'
  <2> SUFFICES ASSUME NEW d \in Children
               PROVE  /\ op'[d] # "none" => run'[d] \in Runs /\ Owner[run'[d]] = d
                      /\ op'[d] \notin {"none", "acquire", "done"} => admission'[run'[d]] = "leased"
                      /\ childState'[d] \in {"New", "Idle"} => op'[d] = "none"
    BY DEF OperationsLeased
  <2>1. CASE d = c
    BY <1>1, <1>3, <2>1 DEF TypesOK
  <2>2. CASE d # c
    <3>1. op'[d] = op[d] /\ run'[d] = run[d] /\ childState'[d] = childState[d]
      BY <1>1, <1>3, <2>2 DEF TypesOK
    <3>2. op[d] # "none" => run[d] \in Runs \ {r}
      BY <1>1, <2>2 DEF ChildrenInv, OperationsLeased
    <3>3. op[d] \notin {"none", "acquire", "done"} => admission'[run[d]] = admission[run[d]]
      BY <1>2, <3>2 DEF ChildrenInv, OperationsLeased
    <3> QED BY <3>1, <3>2, <3>3 DEF ChildrenInv, OperationsLeased
  <2> QED BY <2>1, <2>2
<1>7. TeardownIsFinal'
  BY <1>1, <1>3 DEF ChildrenInv, TypesOK, TeardownIsFinal, Gone
<1> QED BY <1>2, <1>4, <1>5, <1>6, <1>7 DEF ChildrenInv

(* An operation goes on, with its lease or without having got one. *)
LEMMA OperationMoves ==
  ASSUME ChildrenInv, NEW c \in Children, NEW to \in OpStates \ {"none", "acquire"},
         UNCHANGED <<admission, pending, active, run, closing>>,
         op' = [op EXCEPT ![c] = to], op[c] # "none",
         to = "done" => admission[run[c]] \notin {"waiting", "leased"},
         to # "done" => admission[run[c]] = "leased",
         to \in {"start", "operate"} => op[c] \in {"acquire", "start"},
         \/ UNCHANGED childState /\ (to \in {"abort", "teardown"} => Gone(c))
         \/ to = "abort" /\ childState' = [childState EXCEPT ![c] = "Closing"],
         \/ UNCHANGED teardown
         \/ Gone(c) /\ to = "teardown" /\ \E t \in ClosingStates : teardown' = [teardown EXCEPT ![c] = t]
  PROVE  ChildrenInv'
<1>1. TypesOK
  BY DEF ChildrenInv
<1>2. TypesOK'
  BY <1>1 DEF TypesOK, ChildStates
<1>3. Accounted'
  BY DEF ChildrenInv, Accounted
<1>4. run[c] \in Runs /\ Owner[run[c]] = c
  BY DEF ChildrenInv, OperationsLeased
<1>5. \A d \in Children : op'[d] = IF d = c THEN to ELSE op[d]
  BY <1>1 DEF TypesOK
<1>6. RunsOwned'
  <2> SUFFICES ASSUME NEW s \in Runs, admission[s] \in {"waiting", "leased"}
               PROVE  /\ run[Owner[s]] = s /\ op'[Owner[s]] \notin {"none", "done"}
                      /\ admission[s] = "waiting" => op'[Owner[s]] = "acquire"
    BY DEF RunsOwned
  <2>1. /\ run[Owner[s]] = s /\ op[Owner[s]] \notin {"none", "done"} /\ Owner[s] \in Children
        /\ admission[s] = "waiting" => op[Owner[s]] = "acquire"
    BY OwnerAssumption DEF ChildrenInv, RunsOwned
  <2>2. CASE Owner[s] = c
    BY <1>5, <2>1, <2>2
  <2>3. CASE Owner[s] # c
    BY <1>5, <2>1, <2>3
  <2> QED BY <2>2, <2>3
<1>7. \A d \in Children : childState'[d] = childState[d] \/ (d = c /\ to = "abort" /\ childState'[d] = "Closing")
  BY <1>1 DEF TypesOK
<1>8. OperationsLeased'
  <2>1. childState[c] \notin {"New", "Idle"}
    BY DEF ChildrenInv, OperationsLeased
  <2> QED BY <1>4, <1>5, <1>7, <2>1 DEF ChildrenInv, OperationsLeased
<1>9. TeardownIsFinal'
  <2>1. \A d \in Children : teardown'[d] = teardown[d] \/ (d = c /\ Gone(c) /\ to = "teardown")
    BY <1>1 DEF TypesOK
  <2>2. \A d \in Children : Gone(d) => Gone(d)'
    BY <1>7 DEF Gone
  <2>3. (to \in {"abort", "teardown"}) => Gone(c)'
    <3>1. CASE UNCHANGED childState /\ (to \in {"abort", "teardown"} => Gone(c))
      BY <2>2, <3>1 DEF Gone
    <3>2. CASE to = "abort" /\ childState' = [childState EXCEPT ![c] = "Closing"]
      BY <1>1, <3>2 DEF TypesOK, Gone
    <3> QED BY <3>1, <3>2
  <2> QED BY <1>5, <2>1, <2>2, <2>3 DEF ChildrenInv, TeardownIsFinal
<1> QED BY <1>2, <1>3, <1>6, <1>8, <1>9 DEF ChildrenInv

LEMMA OperationStepInv ==
  ASSUME ChildrenInv, NEW c \in Children,
         \/ AdmittedInitial(c) \/ AdmittedPrompt(c) \/ AdmittedCancelled(c) \/ NotAdmitted(c) \/ Started(c)
         \/ StartFailed(c) \/ CatchAborted(c) \/ CatchAbortFailed(c) \/ CatchTornDown(c) \/ InputsSettled(c)
         \/ Operated(c) \/ OperationFailed(c)
  PROVE  ChildrenInv'
<1>1. UNCHANGED <<admission, pending, active, run, closing>>
  BY DEF AdmittedInitial, AdmittedPrompt, AdmittedCancelled, NotAdmitted, Started, StartFailed, CatchAborted,
     CatchAbortFailed, CatchTornDown, InputsSettled, Operated, OperationFailed, CatchInitial, vars,
     admissionVars, childVars
<1>2. CASE StartFailed(c) \/ OperationFailed(c)
  <2>1. /\ op[c] \in {"start", "operate"} /\ op' = [op EXCEPT ![c] = "abort"]
        /\ childState' = [childState EXCEPT ![c] = "Closing"] /\ UNCHANGED teardown
    BY <1>2 DEF StartFailed, OperationFailed, CatchInitial
  <2>2. admission[run[c]] = "leased" /\ "abort" \in OpStates \ {"none", "acquire"}
    BY <2>1 DEF ChildrenInv, OperationsLeased, OpStates
  <2> QED BY <1>1, <2>1, <2>2, OperationMoves
<1>3. CASE CatchAborted(c)
  <2>1. /\ op[c] = "abort" /\ op' = [op EXCEPT ![c] = "teardown"] /\ UNCHANGED childState
        /\ teardown' = [teardown EXCEPT ![c] = IF @ = "none" THEN "pending" ELSE @]
    BY <1>3 DEF CatchAborted, vars, childVars
  <2>2. /\ admission[run[c]] = "leased" /\ Gone(c) /\ "teardown" \in OpStates \ {"none", "acquire"}
        /\ (IF teardown[c] = "none" THEN "pending" ELSE teardown[c]) \in ClosingStates
    BY <2>1 DEF ChildrenInv, OperationsLeased, TeardownIsFinal, OpStates, TypesOK, ClosingStates
  <2> QED BY <1>1, <2>1, <2>2, OperationMoves
<1>4. CASE ~(StartFailed(c) \/ OperationFailed(c) \/ CatchAborted(c))
  <2>1. UNCHANGED <<childState, teardown>>
    BY <1>4 DEF AdmittedInitial, AdmittedPrompt, AdmittedCancelled, NotAdmitted, Started, CatchAbortFailed,
       CatchTornDown, InputsSettled, Operated, vars, childVars
  <2>2. PICK to \in {"start", "operate", "inputs", "idle", "done"} :
          /\ op' = [op EXCEPT ![c] = to] /\ op[c] # "none"
          /\ to = "done" => admission[run[c]] \in {"closed", "capacity", "aborted"}
          /\ to # "done" => admission[run[c]] = "leased" \/ op[c] \notin {"acquire", "done"}
          /\ to \in {"start", "operate"} => op[c] \in {"acquire", "start"}
    BY <1>4 DEF AdmittedInitial, AdmittedPrompt, AdmittedCancelled, NotAdmitted, Started, CatchAbortFailed,
       CatchTornDown, InputsSettled, Operated, SettleOperation
  <2>3. /\ to \in OpStates \ {"none", "acquire"} /\ to \notin {"abort", "teardown"}
        /\ to # "done" => admission[run[c]] = "leased"
        /\ to = "done" => admission[run[c]] \notin {"waiting", "leased"}
    BY <2>2 DEF OpStates, ChildrenInv, OperationsLeased
  <2> QED BY <1>1, <2>1, <2>2, <2>3, OperationMoves
<1> QED BY <1>2, <1>3, <1>4

(* The states of children change, as they do when children are closed. *)
LEMMA ChildrenClose ==
  ASSUME ChildrenInv, childState' \in [Children -> ChildStates], closing' \in [Children -> ClosingStates],
         teardown' \in [Children -> ClosingStates],
         UNCHANGED <<admission, pending, active, op, run>>,
         \A c \in Children : /\ childState'[c] \in {"New", "Idle"} => childState'[c] = childState[c]
                             /\ Gone(c) => Gone(c)'
                             /\ closing'[c] # "none" => Gone(c)'
                             /\ teardown'[c] # "none" => teardown[c] # "none" \/ (Gone(c)' /\ op[c] \in {"none", "done"})
  PROVE  ChildrenInv'
<1>1. TypesOK' /\ Accounted' /\ RunsOwned'
  BY DEF ChildrenInv, TypesOK, Accounted, RunsOwned
<1>2. OperationsLeased'
  BY DEF ChildrenInv, OperationsLeased
<1>3. TeardownIsFinal'
  BY DEF ChildrenInv, TeardownIsFinal
<1> QED BY <1>1, <1>2, <1>3 DEF ChildrenInv

LEMMA ClosingStepInv ==
  ASSUME ChildrenInv, NEW c \in Children, ClosingStep(c)
  PROVE  ChildrenInv'
<1>1. TypesOK /\ UNCHANGED <<admission, pending, active, op, run>>
  BY DEF ChildrenInv, ClosingStep, InitialCatch, CloseTearsDown, CloseAbortFails, TornDown, CloseSettles, opVars,
     vars, admissionVars
<1>2. CASE InitialCatch(c)
  <2>1. /\ childState' = [childState EXCEPT ![c] = IF @ = "Closed" THEN @ ELSE "Closing"]
        /\ closing' = [closing EXCEPT ![c] = IF @ = "none" THEN "pending" ELSE @] /\ UNCHANGED teardown
    BY <1>2 DEF InitialCatch
  <2>2. /\ childState' \in [Children -> ChildStates] /\ closing' \in [Children -> ClosingStates]
        /\ teardown' \in [Children -> ClosingStates]
    BY <1>1, <2>1 DEF TypesOK, ChildStates, ClosingStates
  <2>3. \A d \in Children : /\ childState'[d] = childState[d] \/ (d = c /\ Gone(c)')
                            /\ closing'[d] = closing[d] \/ (d = c /\ Gone(c)')
    BY <1>1, <2>1 DEF TypesOK, Gone
  <2> QED BY <1>1, <2>1, <2>2, <2>3, ChildrenClose DEF ChildrenInv, TeardownIsFinal, Gone
<1>3. CASE CloseTearsDown(c)
  <2>1. /\ closing[c] = "pending" /\ op[c] \in {"none", "done"} /\ UNCHANGED <<childState, closing>>
        /\ teardown' = [teardown EXCEPT ![c] = "pending"]
    BY <1>3 DEF CloseTearsDown, CancelSettled, vars, childVars
  <2>2. teardown' \in [Children -> ClosingStates] /\ Gone(c)
    BY <1>1, <2>1 DEF TypesOK, ClosingStates, ChildrenInv, TeardownIsFinal
  <2>3. \A d \in Children : teardown'[d] = teardown[d] \/ d = c
    BY <1>1, <2>1 DEF TypesOK
  <2> QED BY <1>1, <2>1, <2>2, <2>3, ChildrenClose DEF ChildrenInv, TypesOK, TeardownIsFinal, Gone
<1>4. CASE CloseAbortFails(c) \/ CloseSettles(c)
  <2>1. /\ closing[c] = "pending" /\ UNCHANGED <<childState, teardown>>
        /\ \E t \in {"fulfilled", "rejected"} : closing' = [closing EXCEPT ![c] = t]
    BY <1>4 DEF CloseAbortFails, CloseSettles, opVars
  <2>2. closing' \in [Children -> ClosingStates] /\ \A d \in Children : closing'[d] # "none" => closing[d] # "none"
    BY <1>1, <2>1 DEF TypesOK, ClosingStates
  <2> QED BY <1>1, <2>1, <2>2, ChildrenClose DEF ChildrenInv, TypesOK, TeardownIsFinal, Gone
<1>5. CASE TornDown(c)
  <2>1. /\ teardown[c] = "pending" /\ childState' = [childState EXCEPT ![c] = "Closed"] /\ UNCHANGED closing
        /\ \E t \in {"fulfilled", "rejected"} : teardown' = [teardown EXCEPT ![c] = t]
    BY <1>5 DEF TornDown
  <2>2. /\ childState' \in [Children -> ChildStates] /\ teardown' \in [Children -> ClosingStates]
        /\ \A d \in Children : teardown'[d] # "none" => teardown[d] # "none"
        /\ \A d \in Children : childState'[d] = childState[d] \/ childState'[d] = "Closed"
    BY <1>1, <2>1 DEF TypesOK, ChildStates, ClosingStates
  <2> QED BY <1>1, <2>1, <2>2, ChildrenClose DEF ChildrenInv, TypesOK, TeardownIsFinal, Gone
<1> QED BY <1>2, <1>3, <1>4, <1>5 DEF ClosingStep

LEMMA ReleaseStep ==
  ASSUME ChildrenInv, NEW c \in Children, IdleAndRelease(c)
  PROVE  ChildrenInv'
<1>1. /\ op[c] = "idle" /\ op' = [op EXCEPT ![c] = "done"] /\ UNCHANGED <<run, teardown>>
      /\ PruneChildren(childState)
      /\ Drain(pending, active \ {run[c]}, writers \ {wants[run[c]]}, [admission EXCEPT ![run[c]] = "released"])
  BY DEF IdleAndRelease, Release, ReturnLease
<1>2. TypesOK /\ Accounted /\ run[c] \in Runs /\ Owner[run[c]] = c /\ admission[run[c]] = "leased"
  BY <1>1 DEF ChildrenInv, OperationsLeased
<1> DEFINE r == run[c]
           adm == [admission EXCEPT ![r] = "released"]
           a == active \ {r}
           w == writers \ {wants[r]}
<1>3. /\ adm \in [Runs -> AdmissionStates] /\ pending \in SUBSET Runs /\ a \in SUBSET Runs
      /\ \A s \in Runs : adm[s] = IF s = r THEN "released" ELSE admission[s]
      /\ \A s \in Runs : /\ adm[s] = "waiting" <=> s \in pending
                         /\ adm[s] = "leased" <=> s \in a
  BY <1>2 DEF TypesOK, Accounted, AdmissionStates
<1>4. Drain(pending, a, w, adm)
  BY <1>1
<1> HIDE DEF adm, a, w
<1>5. /\ admission' \in [Runs -> AdmissionStates] /\ pending' \subseteq Runs /\ active' \subseteq Runs
      /\ Accounted'
      /\ \A s \in Runs : \/ admission'[s] = adm[s]
                         \/ adm[s] = "waiting" /\ admission'[s] \in {"leased", "aborted"}
  BY <1>3, <1>4, DrainAccounts
<1>6. \A s \in Runs : /\ s = r => admission'[s] = "released"
                      /\ s # r => \/ admission'[s] = admission[s]
                                  \/ admission[s] = "waiting" /\ admission'[s] \in {"leased", "aborted"}
  BY <1>3, <1>5
<1>7. /\ childState' \in [Children -> ChildStates] /\ closing' \in [Children -> ClosingStates]
      /\ \A d \in Children : childState'[d] = childState[d] \/ (childState[d] = "Idle" /\ childState'[d] = "Closing")
      /\ \A d \in Children : closing'[d] # "none" => Gone(d)'
  <2>1. childState \in [Children -> ChildStates] /\ \A d \in Children : closing[d] # "none" => childState[d] \in {"Closing", "Closed"}
    BY <1>2 DEF TypesOK, ChildrenInv, TeardownIsFinal, Gone
  <2> QED BY <1>1, <1>2, <2>1, PruneCloses DEF Gone
<1>8. op' \in [Children -> OpStates] /\ \A d \in Children : op'[d] = IF d = c THEN "done" ELSE op[d]
  BY <1>1, <1>2 DEF TypesOK, OpStates
<1>9. TypesOK'
  BY <1>1, <1>2, <1>5, <1>7, <1>8 DEF TypesOK
<1>10. RunsOwned'
  <2> SUFFICES ASSUME NEW s \in Runs, admission'[s] \in {"waiting", "leased"}
               PROVE  /\ run[Owner[s]] = s /\ op'[Owner[s]] \notin {"none", "done"}
                      /\ admission'[s] = "waiting" => op'[Owner[s]] = "acquire"
    BY <1>1 DEF RunsOwned
  <2>1. s # r /\ admission[s] \in {"waiting", "leased"} /\ (admission'[s] = "waiting" => admission[s] = "waiting")
    BY <1>6
  <2>2. run[Owner[s]] = s /\ Owner[s] \in Children /\ op[Owner[s]] \notin {"none", "done"}
        /\ (admission[s] = "waiting" => op[Owner[s]] = "acquire")
    BY <2>1, OwnerAssumption DEF ChildrenInv, RunsOwned
  <2>3. Owner[s] # c
    BY <2>1, <2>2
  <2> QED BY <1>8, <2>1, <2>2, <2>3
<1>11. OperationsLeased'
  <2> SUFFICES ASSUME NEW d \in Children
               PROVE  /\ op'[d] # "none" => run[d] \in Runs /\ Owner[run[d]] = d
                      /\ op'[d] \notin {"none", "acquire", "done"} => admission'[run[d]] = "leased"
                      /\ childState'[d] \in {"New", "Idle"} => op'[d] = "none"
    BY <1>1 DEF OperationsLeased
  <2>1. /\ op[d] # "none" => run[d] \in Runs /\ Owner[run[d]] = d
        /\ op[d] \notin {"none", "acquire", "done"} => admission[run[d]] = "leased"
        /\ childState[d] \in {"New", "Idle"} => op[d] = "none"
    BY DEF ChildrenInv, OperationsLeased
  <2>2. CASE d = c
    BY <1>1, <1>2, <1>7, <1>8, <2>1, <2>2
  <2>3. CASE d # c
    <3>1. op[d] # "none" => run[d] # r
      BY <1>2, <2>1, <2>3
    <3> QED BY <1>6, <1>7, <1>8, <2>1, <2>3, <3>1
  <2> QED BY <2>2, <2>3
<1>12. TeardownIsFinal'
  BY <1>1, <1>7, <1>8 DEF ChildrenInv, TeardownIsFinal, Gone
<1> QED BY <1>5, <1>9, <1>10, <1>11, <1>12 DEF ChildrenInv

LEMMA ClearedStep ==
  ASSUME ChildrenInv, NEW c \in Children, OperationCleared(c)
  PROVE  ChildrenInv'
<1>1. /\ op[c] = "done" /\ op' = [op EXCEPT ![c] = "none"] /\ UNCHANGED <<admission, pending, active, run, teardown>>
      /\ PruneChildren(AfterOperation(c))
  BY DEF OperationCleared, admissionVars
<1>2. TypesOK
  BY DEF ChildrenInv
<1>3. /\ AfterOperation(c) \in [Children -> ChildStates]
      /\ \A d \in Children : AfterOperation(c)[d] = childState[d] \/ (d = c /\ ~Gone(c))
      /\ \A d \in Children : closing[d] # "none" => AfterOperation(c)[d] \in {"Closing", "Closed"}
  BY <1>2 DEF TypesOK, ChildStates, AfterOperation, ChildrenInv, TeardownIsFinal, Gone
<1>4. /\ childState' \in [Children -> ChildStates] /\ closing' \in [Children -> ClosingStates]
      /\ \A d \in Children : \/ childState'[d] = AfterOperation(c)[d]
                             \/ AfterOperation(c)[d] = "Idle" /\ childState'[d] = "Closing"
      /\ \A d \in Children : closing'[d] # "none" => childState'[d] \in {"Closing", "Closed"}
  BY <1>1, <1>2, <1>3, PruneCloses
<1>5. op' \in [Children -> OpStates] /\ \A d \in Children : op'[d] = IF d = c THEN "none" ELSE op[d]
  BY <1>1, <1>2 DEF TypesOK, OpStates
<1>6. TypesOK' /\ Accounted'
  BY <1>1, <1>2, <1>4, <1>5 DEF ChildrenInv, TypesOK, Accounted
<1>7. RunsOwned'
  <2>1. \A s \in Runs : admission[s] \in {"waiting", "leased"} => Owner[s] # c /\ Owner[s] \in Children
    BY <1>1, OwnerAssumption DEF ChildrenInv, RunsOwned
  <2> QED BY <1>1, <1>5, <2>1 DEF ChildrenInv, RunsOwned
<1>8. OperationsLeased'
  BY <1>1, <1>3, <1>4, <1>5 DEF ChildrenInv, OperationsLeased
<1>9. TeardownIsFinal'
  BY <1>1, <1>3, <1>4, <1>5 DEF ChildrenInv, TeardownIsFinal, Gone
<1> QED BY <1>6, <1>7, <1>8, <1>9 DEF ChildrenInv

(* The supervisor aborts what waits, evicts and shuts down. *)
LEMMA SupervisorStepInv ==
  ASSUME ChildrenInv, SupervisorStep
  PROVE  ChildrenInv'
<1>1. TypesOK /\ Accounted /\ UNCHANGED <<op, run, teardown>>
  BY DEF ChildrenInv, SupervisorStep, opVars
<1>2. ASSUME NEW r \in Runs, OnAbort(r) PROVE ChildrenInv'
  <2>1. /\ r \in pending /\ pending' = pending \ {r} /\ admission' = [admission EXCEPT ![r] = "aborted"]
        /\ UNCHANGED <<active, childState, closing>>
    BY <1>2 DEF OnAbort, childVars
  <2>2. /\ admission' \in [Runs -> AdmissionStates] /\ admission[r] = "waiting"
        /\ \A s \in Runs : admission'[s] = IF s = r THEN "aborted" ELSE admission[s]
    BY <1>1, <2>1 DEF TypesOK, AdmissionStates, Accounted
  <2>3. TypesOK' /\ Accounted'
    BY <1>1, <2>1, <2>2 DEF TypesOK, Accounted
  <2>4. RunsOwned' /\ OperationsLeased' /\ TeardownIsFinal'
    BY <1>1, <2>1, <2>2 DEF ChildrenInv, RunsOwned, OperationsLeased, TeardownIsFinal, Gone
  <2> QED BY <2>3, <2>4 DEF ChildrenInv
<1>3. ASSUME UNCHANGED <<admission, pending, active, childState, closing>> PROVE ChildrenInv'
  BY <1>1, <1>3 DEF ChildrenInv, TypesOK, Accounted, RunsOwned, OperationsLeased, TeardownIsFinal, Gone
<1>4. CASE Shutdown
  <2>1. /\ pending' = {} /\ UNCHANGED active
        /\ admission' = [r \in Runs |-> IF r \in pending THEN "closed" ELSE admission[r]]
        /\ childState' = [c \in Children |-> IF c \in retained /\ childState[c] # "Closed" THEN "Closing" ELSE childState[c]]
        /\ closing' = [c \in Children |-> IF c \in retained /\ closing[c] = "none" THEN "pending" ELSE closing[c]]
    BY <1>4 DEF Shutdown
  <2>2. /\ admission' \in [Runs -> AdmissionStates]
        /\ \A r \in Runs : admission'[r] = IF admission[r] = "waiting" THEN "closed" ELSE admission[r]
    BY <1>1, <2>1 DEF TypesOK, AdmissionStates, Accounted
  <2>3. childState' \in [Children -> ChildStates] /\ closing' \in [Children -> ClosingStates]
    BY <1>1, <2>1 DEF TypesOK, ChildStates, ClosingStates
  <2>4. TypesOK' /\ Accounted'
    BY <1>1, <2>1, <2>2, <2>3 DEF TypesOK, Accounted
  <2>5. RunsOwned' /\ OperationsLeased'
    BY <1>1, <2>1, <2>2 DEF ChildrenInv, RunsOwned, OperationsLeased
  <2>6. TeardownIsFinal'
    BY <1>1, <2>1 DEF ChildrenInv, TeardownIsFinal, Gone
  <2> QED BY <2>4, <2>5, <2>6 DEF ChildrenInv
<1>5. CASE \/ \E r \in Runs : Deadline(r)
           \/ \E c \in Children : EvictionFulfilled(c) \/ EvictionRejected(c)
           \/ ShutdownRunsDone \/ ShutdownChildrenDone
  BY <1>3, <1>5 DEF Deadline, EvictionFulfilled, EvictionRejected, ShutdownRunsDone, ShutdownChildrenDone,
     admissionVars, childVars
<1> QED BY <1>2, <1>4, <1>5 DEF SupervisorStep, ShutdownNext

LEMMA ChildrenStep == ChildrenInv /\ [ChildrenNext]_allVars => ChildrenInv'
<1> SUFFICES ASSUME ChildrenInv, [ChildrenNext]_allVars PROVE ChildrenInv'
  OBVIOUS
<1>1. ASSUME UNCHANGED <<admission, pending, active, childState, closing, op, run, teardown>> PROVE ChildrenInv'
  BY <1>1 DEF ChildrenInv, TypesOK, Accounted, RunsOwned, OperationsLeased, TeardownIsFinal, Gone
<1>2. CASE UNCHANGED allVars
  BY <1>1, <1>2 DEF allVars, vars, opVars, admissionVars, childVars
<1>3. CASE \E c \in Children : Cancel(c)
  BY <1>1, <1>3 DEF Cancel, SignalAbort, opVars, childVars
<1>4. CASE \E c \in Children, i \in Inputs : Input(c, i) \/ InputSettles(c, i)
  BY <1>1, <1>4 DEF Input, InputSettles, vars, admissionVars, childVars
<1>5. CASE \E c \in Children : OperationStep(c) \/ ConversationEnds(c)
  BY <1>5, OperationStepInv, ReleaseStep, ClearedStep DEF OperationStep, ConversationEnds
<1> QED BY <1>2, <1>3, <1>4, <1>5, LaunchStep, ClosingStepInv, SupervisorStepInv DEF ChildrenNext

LEMMA ChildrenAlways == ChildrenSpec => []ChildrenInv
  BY ChildrenInitInv, ChildrenStep, PTL DEF ChildrenSpec

(* The lease an operation got is out until waitForIdle() resolved, and no lease is *)
(* out without its operation (native-child.ts, schedule).                        *)
THEOREM LeasesSpanOperations == ChildrenSpec => []LeaseSpansOperation
<1>1. ASSUME ChildrenInv PROVE LeaseSpansOperation
  <2>1. \A r \in active : run[Owner[r]] = r /\ op[Owner[r]] \notin {"none", "done"}
    BY <1>1 DEF ChildrenInv, TypesOK, Accounted, RunsOwned
  <2>2. \A c \in Children : op[c] \notin {"none", "acquire", "done"} => run[c] \in active
    BY <1>1 DEF ChildrenInv, TypesOK, Accounted, OperationsLeased
  <2> QED BY <2>1, <2>2 DEF LeaseSpansOperation
<1> QED BY <1>1, ChildrenAlways, PTL

(* A session whose teardown began is neither started nor prompted (native-child.ts, *)
(* close and teardownNative).                                                     *)
THEOREM TeardownEndsTheChild == ChildrenSpec => []NothingAfterTeardown
<1>1. ChildrenInv => NothingAfterTeardown
  BY DEF ChildrenInv, TeardownIsFinal, NothingAfterTeardown
<1> QED BY <1>1, ChildrenAlways, PTL
=============================================================================
