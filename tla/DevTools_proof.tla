----------------------------- MODULE DevTools_proof -----------------------------
(***************************************************************************)
(* Theorems about dev-tools, for any daemons, connections, requests, files, *)
(* callers and bounds.  Each part of MC_DevTools is treated alone: a step of *)
(* the composition is a step of the part or leaves its variables unchanged,  *)
(* so what the part's steps preserve holds throughout.                       *)
(***************************************************************************)
EXTENDS MC_DevTools, Integers, Sequences, FiniteSetTheorems, WellFoundedInduction, TLAPS

-----------------------------------------------------------------------------
(* DevToolsDaemon: a finalizer passes its stages in order, none of them before the  *)
(* acquisition settled, and each stage leaves for good what it took away.           *)
Settled == {"fulfilled", "rejected"}

DaemonTypeOK ==
  /\ sock \in Daemons \cup {NoDaemon}
  /\ pidFile \in Daemons \cup {NoDaemon}
  /\ phase \in [Daemons -> {"closed", "accepting", "stopping"}]
  /\ acquisition \in [Daemons -> {"none"} \cup Pending \cup Settled]
  /\ startup \in [Daemons -> {"none", "pending", "cleaning"} \cup Settled]
  /\ stopping \in [Daemons -> {"none"} \cup Releasing \cup Settled]
  /\ owned \in [Daemons -> SUBSET {"pid", "socket"}]
  /\ backends \in [Daemons -> {"up", "down"}]
  /\ failed \subseteq Daemons
  /\ peer \in [Conns -> Daemons \cup {NoDaemon}]
  /\ conn \in [Conns -> {"none", "open", "endAfterDrain", "ended", "closed"}]
  /\ request \in [Requests -> {"unsent", "running", "refused", "answered", "unheard"}]

(* The stages of a finalizer after a given one. *)
AfterAwait == Settled \cup {"drain", "backends", "destroy", "unlink", "close"}
AfterDrain == AfterAwait \ {"drain"}
AfterBackends == AfterDrain \ {"backends"}
AfterDestroy == AfterBackends \ {"destroy"}
AfterUnlink == AfterDestroy \ {"unlink"}

(* A daemon that stops admits nothing, and nothing is acquired once its      *)
(* finalizer waits no longer.                                                *)
AdmissionClosed ==
  \A d \in Daemons : /\ phase[d] = "accepting" => stopping[d] = "none"
                     /\ startup[d] = "none" => acquisition[d] = "none"
                     /\ stopping[d] \in AfterAwait => acquisition[d] \notin Pending

(* What leads to a daemon was acquired by it, recorded, and not released. *)
PathsRecorded ==
  /\ sock \in Daemons =>
       /\ acquisition[sock] \in {"listening", "fulfilled"}
       /\ stopping[sock] \notin AfterDestroy
  /\ pidFile \in Daemons =>
       /\ "pid" \in owned[pidFile]
       /\ acquisition[pidFile] \notin {"none", "called"}
       /\ stopping[pidFile] \notin AfterUnlink

BackendsByStage ==
  \A d \in Daemons : backends[d] = "down" <=> stopping[d] \in AfterBackends

(* Connections end after the tasks are drained and are gone after the sockets *)
(* are destroyed.                                                             *)
ConnsByStage ==
  \A c \in Conns :
    /\ conn[c] # "none" => peer[c] \in Daemons
    /\ conn[c] = "none" => peer[c] = NoDaemon
    /\ conn[c] = "ended" => stopping[peer[c]] \in AfterDrain
    /\ peer[c] \in Daemons /\ stopping[peer[c]] \in AfterDestroy => conn[c] = "closed"

TasksByStage ==
  \A r \in Requests :
    request[r] = "running" =>
      /\ peer[ConnOf[r]] \in Daemons
      /\ stopping[peer[ConnOf[r]]] \notin AfterDrain

(* The inductive invariant. *)
DaemonInv == /\ DaemonTypeOK /\ AdmissionClosed /\ PathsRecorded /\ BackendsByStage
        /\ ConnsByStage /\ TasksByStage
-----------------------------------------------------------------------------
(* Initially nothing is started, connected or sent. *)
LEMMA DaemonInit == Init => DaemonInv
  BY DaemonAssumption
  DEF Init, DaemonInv, DaemonTypeOK, AdmissionClosed, PathsRecorded, BackendsByStage, ConnsByStage,
      TasksByStage, AfterAwait, AfterDrain, AfterBackends, AfterDestroy, AfterUnlink,
      Pending, Releasing, Settled

(* The steps of one daemon, and those of its clients. *)
Asked(d) == Start(d) \/ StartRefused(d) \/ Signal(d) \/ Idle(d)

OwnStep == \E d \in Daemons : Asked(d) \/ Startup(d) \/ Finalizer(d)

PeerStep ==
  \/ \E c \in Conns : Connect(c) \/ Disconnect(c)
  \/ \E r \in Requests : Accept(r) \/ Refuse(r) \/ TaskEnds(r)

-----------------------------------------------------------------------------
(* One lemma for each conjunct of the invariant. *)

(* Every step keeps the types. *)
LEMMA TypeStep ==
  ASSUME DaemonInv, OwnStep \/ PeerStep
  PROVE  DaemonTypeOK'
<1> USE DaemonAssumption
    DEF DaemonInv, DaemonTypeOK, Pending, Releasing, Settled
<1>1. ASSUME NEW d \in Daemons, Asked(d) PROVE DaemonTypeOK'
  BY <1>1, SMTT(30) DEF Asked, Start, StartRefused, Signal, Idle, ShutsDown, clientVars
<1>2. ASSUME NEW d \in Daemons, Startup(d) PROVE DaemonTypeOK'
  BY <1>2, SMTT(30)
  DEF Startup, AcquirePid, AcquireFails, AcquireUnlink, AcquireBind, AcquireInUse,
      AcquireListening, Started, StartupFails, StartupRejected, ShutsDown, Acquires,
      clientVars
<1>3. ASSUME NEW d \in Daemons, Finalizer(d) PROVE DaemonTypeOK'
  BY <1>3, SMTT(30)
  DEF Finalizer, AwaitAcquisition, Drain, ShutdownBackends, DestroyAndClose, UnlinkOwned,
      Settle, Finalizes, Closes, Tasks, clientVars
<1>4. CASE PeerStep
  BY <1>4, SMTT(30)
  DEF PeerStep, Connect, Disconnect, Accept, Refuse, TaskEnds, ShutsDown, daemonVars
<1> QED BY <1>1, <1>2, <1>3, <1>4 DEF OwnStep

(* The finalizer waits for the acquisition, and a new one is not begun. *)
LEMMA AdmissionStep ==
  ASSUME DaemonInv, OwnStep \/ PeerStep
  PROVE  AdmissionClosed'
<1> USE DaemonAssumption
    DEF DaemonInv, DaemonTypeOK, AdmissionClosed, AfterAwait, Pending, Releasing, Settled
<1>1. ASSUME NEW d \in Daemons, Asked(d) PROVE AdmissionClosed'
  BY <1>1, SMTT(30) DEF Asked, Start, StartRefused, Signal, Idle, ShutsDown, clientVars
<1>2. ASSUME NEW d \in Daemons, Startup(d) PROVE AdmissionClosed'
  BY <1>2, SMTT(30)
  DEF Startup, AcquirePid, AcquireFails, AcquireUnlink, AcquireBind, AcquireInUse,
      AcquireListening, Started, StartupFails, StartupRejected, ShutsDown, Acquires,
      clientVars
<1>3. ASSUME NEW d \in Daemons, Finalizer(d) PROVE AdmissionClosed'
  BY <1>3, SMTT(30)
  DEF Finalizer, AwaitAcquisition, Drain, ShutdownBackends, DestroyAndClose, UnlinkOwned,
      Settle, Finalizes, Closes, Tasks, clientVars
<1>4. CASE PeerStep
  BY <1>4, SMTT(30)
  DEF PeerStep, Connect, Disconnect, Accept, Refuse, TaskEnds, ShutsDown, daemonVars
<1> QED BY <1>1, <1>2, <1>3, <1>4 DEF OwnStep

(* A path is recorded before it can be released, and not taken after. *)
LEMMA PathsStep ==
  ASSUME DaemonInv, OwnStep \/ PeerStep
  PROVE  PathsRecorded'
<1> USE DaemonAssumption
    DEF DaemonInv, DaemonTypeOK, PathsRecorded, AdmissionClosed, AfterAwait, AfterDrain,
        AfterBackends, AfterDestroy, AfterUnlink, Pending, Releasing, Settled
<1>1. ASSUME NEW d \in Daemons, Asked(d) PROVE PathsRecorded'
  BY <1>1, SMTT(30) DEF Asked, Start, StartRefused, Signal, Idle, ShutsDown, clientVars
<1>2. ASSUME NEW d \in Daemons, Startup(d) PROVE PathsRecorded'
  BY <1>2, SMTT(30)
  DEF Startup, AcquirePid, AcquireFails, AcquireUnlink, AcquireBind, AcquireInUse,
      AcquireListening, Started, StartupFails, StartupRejected, ShutsDown, Acquires,
      clientVars
<1>3. ASSUME NEW d \in Daemons, Finalizer(d) PROVE PathsRecorded'
  BY <1>3, SMTT(30)
  DEF Finalizer, AwaitAcquisition, Drain, ShutdownBackends, DestroyAndClose, UnlinkOwned,
      Settle, Finalizes, Closes, Tasks, clientVars
<1>4. CASE PeerStep
  BY <1>4, SMTT(30)
  DEF PeerStep, Connect, Disconnect, Accept, Refuse, TaskEnds, ShutsDown, daemonVars
<1> QED BY <1>1, <1>2, <1>3, <1>4 DEF OwnStep

(* The language servers go down at their stage and stay down. *)
LEMMA BackendsStep ==
  ASSUME DaemonInv, OwnStep \/ PeerStep
  PROVE  BackendsByStage'
<1> USE DaemonAssumption
    DEF DaemonInv, DaemonTypeOK, BackendsByStage, AfterAwait, AfterDrain, AfterBackends,
        AfterDestroy, AfterUnlink, Pending, Releasing, Settled
<1>1. ASSUME NEW d \in Daemons, Asked(d) PROVE BackendsByStage'
  BY <1>1, SMTT(30) DEF Asked, Start, StartRefused, Signal, Idle, ShutsDown, clientVars
<1>2. ASSUME NEW d \in Daemons, Startup(d) PROVE BackendsByStage'
  BY <1>2, SMTT(30)
  DEF Startup, AcquirePid, AcquireFails, AcquireUnlink, AcquireBind, AcquireInUse,
      AcquireListening, Started, StartupFails, StartupRejected, ShutsDown, Acquires,
      clientVars
<1>3. ASSUME NEW d \in Daemons, Finalizer(d) PROVE BackendsByStage'
  BY <1>3, SMTT(30)
  DEF Finalizer, AwaitAcquisition, Drain, ShutdownBackends, DestroyAndClose, UnlinkOwned,
      Settle, Finalizes, Closes, Tasks, clientVars
<1>4. CASE PeerStep
  BY <1>4, SMTT(30)
  DEF PeerStep, Connect, Disconnect, Accept, Refuse, TaskEnds, ShutsDown, daemonVars
<1> QED BY <1>1, <1>2, <1>3, <1>4 DEF OwnStep

(* Connections end after the drain, and none is made after the sockets went. *)
LEMMA ConnsStep ==
  ASSUME DaemonInv, OwnStep \/ PeerStep
  PROVE  ConnsByStage'
<1> USE DaemonAssumption
    DEF DaemonInv, DaemonTypeOK, ConnsByStage, PathsRecorded, AdmissionClosed, AfterAwait,
        AfterDrain, AfterBackends, AfterDestroy, AfterUnlink, Pending, Releasing,
        Settled
<1>1. ASSUME NEW d \in Daemons, Asked(d) PROVE ConnsByStage'
  BY <1>1, SMTT(30) DEF Asked, Start, StartRefused, Signal, Idle, ShutsDown, clientVars
<1>2. ASSUME NEW d \in Daemons, Startup(d) PROVE ConnsByStage'
  BY <1>2, SMTT(30)
  DEF Startup, AcquirePid, AcquireFails, AcquireUnlink, AcquireBind, AcquireInUse,
      AcquireListening, Started, StartupFails, StartupRejected, ShutsDown, Acquires,
      clientVars
<1>3. ASSUME NEW d \in Daemons, Finalizer(d) PROVE ConnsByStage'
  BY <1>3, SMTT(30)
  DEF Finalizer, AwaitAcquisition, Drain, ShutdownBackends, DestroyAndClose, UnlinkOwned,
      Settle, Finalizes, Closes, Tasks, clientVars
<1>4. CASE PeerStep
  BY <1>4, SMTT(30)
  DEF PeerStep, Connect, Disconnect, Accept, Refuse, TaskEnds, ShutsDown, daemonVars
<1> QED BY <1>1, <1>2, <1>3, <1>4 DEF OwnStep

(* Requests are accepted before the finalizer began, and it waits for them. *)
LEMMA TasksStep ==
  ASSUME DaemonInv, OwnStep \/ PeerStep
  PROVE  TasksByStage'
<1> USE DaemonAssumption
    DEF DaemonInv, DaemonTypeOK, TasksByStage, ConnsByStage, AdmissionClosed, AfterAwait,
        AfterDrain, AfterBackends, AfterDestroy, AfterUnlink, Pending, Releasing,
        Settled
<1>1. ASSUME NEW d \in Daemons, Asked(d) PROVE TasksByStage'
  BY <1>1, SMTT(30) DEF Asked, Start, StartRefused, Signal, Idle, ShutsDown, clientVars
<1>2. ASSUME NEW d \in Daemons, Startup(d) PROVE TasksByStage'
  BY <1>2, SMTT(30)
  DEF Startup, AcquirePid, AcquireFails, AcquireUnlink, AcquireBind, AcquireInUse,
      AcquireListening, Started, StartupFails, StartupRejected, ShutsDown, Acquires,
      clientVars
<1>3. ASSUME NEW d \in Daemons, Finalizer(d) PROVE TasksByStage'
  BY <1>3, SMTT(30)
  DEF Finalizer, AwaitAcquisition, Drain, ShutdownBackends, DestroyAndClose, UnlinkOwned,
      Settle, Finalizes, Closes, Tasks, clientVars
<1>4. CASE PeerStep
  <2>1. ASSUME NEW c \in Conns, Connect(c) PROVE TasksByStage'
    BY <2>1, SMTT(30) DEF Connect, ShutsDown, daemonVars
  <2>2. ASSUME NEW c \in Conns, Disconnect(c) PROVE TasksByStage'
    BY <2>2, SMTT(30) DEF Disconnect, ShutsDown, daemonVars
  <2>3. ASSUME NEW r \in Requests, Accept(r) PROVE TasksByStage'
    <3>1. stopping[peer[ConnOf[r]]] = "none" /\ peer[ConnOf[r]] \in Daemons
      BY <2>3 DEF Accept
    <3>2. \A d \in Daemons : stopping'[d] \in {stopping[d], "await"} /\ peer' = peer
      BY <2>3, <3>1 DEF Accept, ShutsDown
    <3>3. \A q \in Requests : request'[q] = "running" => q = r \/ request[q] = "running"
      BY <2>3 DEF Accept
    <3> QED BY <3>1, <3>2, <3>3
  <2>4. ASSUME NEW r \in Requests, Refuse(r) PROVE TasksByStage'
    BY <2>4, SMTT(30) DEF Refuse, ShutsDown, daemonVars
  <2>5. ASSUME NEW r \in Requests, TaskEnds(r) PROVE TasksByStage'
    BY <2>5, SMTT(30) DEF TaskEnds, ShutsDown, daemonVars
  <2> QED BY <1>4, <2>1, <2>2, <2>3, <2>4, <2>5 DEF PeerStep
<1> QED BY <1>1, <1>2, <1>3, <1>4 DEF OwnStep

-----------------------------------------------------------------------------
(* Every step keeps the invariant. *)
LEMMA DaemonStep == DaemonInv /\ [Next]_vars => DaemonInv'
<1>1. ASSUME DaemonInv, OwnStep \/ PeerStep PROVE DaemonInv'
  BY <1>1, TypeStep, AdmissionStep, PathsStep, BackendsStep, ConnsStep, TasksStep DEF DaemonInv
<1>2. ASSUME DaemonInv, UNCHANGED vars PROVE DaemonInv'
  BY <1>2 DEF DaemonInv, vars, daemonVars, clientVars, DaemonTypeOK, AdmissionClosed, PathsRecorded,
              BackendsByStage, ConnsByStage, TasksByStage
<1>3. Next => OwnStep \/ PeerStep
  BY DEF Next, OwnStep, PeerStep, Asked
<1> QED BY <1>1, <1>2, <1>3

(* The invariant holds in every state of any number of daemons on one path    *)
(* (daemon.ts: acquire, shutdown, release).                                   *)
THEOREM InductiveInvariant == Spec => []DaemonInv
  BY DaemonInit, DaemonStep, PTL DEF Spec

(* While an accepted request runs its daemon's language servers are up and    *)
(* its connection is not ended by the finalizer (daemon.ts: release).         *)
THEOREM AcceptedWorkIsDrained == Spec => []DrainsAcceptedWork
<1>1. DaemonInv => DrainsAcceptedWork
  BY DaemonAssumption
  DEF DaemonInv, DaemonTypeOK, DrainsAcceptedWork, BackendsByStage, ConnsByStage, TasksByStage,
      AfterAwait, AfterDrain, AfterBackends, Settled
<1> QED BY <1>1, InductiveInvariant, PTL

(* A daemon whose finalizer settled has no path, connection or language       *)
(* server left, wherever its startup was interrupted (daemon.ts: release).    *)
THEOREM NothingIsLeft == Spec => []LeavesNothing
<1>1. DaemonInv => LeavesNothing
  BY DaemonAssumption
  DEF DaemonInv, DaemonTypeOK, LeavesNothing, PathsRecorded, BackendsByStage, ConnsByStage,
      AfterAwait, AfterDrain, AfterBackends, AfterDestroy, AfterUnlink, Settled
<1> QED BY <1>1, InductiveInvariant, PTL

-----------------------------------------------------------------------------
(* LspBackend: nothing is open while no server runs, and a server that runs was    *)
(* told of everything that is open.                                                *)
BookOK(b) == DOMAIN b = {"text", "order", "diag", "known", "folders"} /\ DOMAIN b.text = Files /\ DOMAIN b.known = Files

(* The server knows the documents of a book and their projects. *)
InStep(b) == /\ BookOK(b) /\ b.known = b.text /\ root \in b.folders
             /\ \A f \in Files : b.text[f] # Backend!NoText => Root[f] \in b.folders

Serving == tag \in {"starting", "running"} /\ gen \in live

LspInv ==
  /\ tag \in {"idle", "starting", "running", "stopping", "unavailable"}
  /\ gen \in Nat /\ DOMAIN stage = Backend!Gens /\ BookOK(book)
  /\ \A g \in Backend!Gens : stage[g] # "none" => g <= gen
  /\ \A g \in live : g \in Nat /\ g <= gen
  /\ tag = "running" => gen \in Backend!Gens /\ stage[gen] = "over"
  /\ tag \in {"idle", "starting", "unavailable"} => book.text = Backend!NoDocs
  /\ Serving => InStep(book)

LEMMA BackendCardinality == \A S : Backend!Cardinality(S) = Cardinality(S)
  BY DEF Backend!Cardinality, Cardinality, Backend!IsFiniteSet, IsFiniteSet

LEMMA LeastNat ==
  ASSUME NEW T \in SUBSET Nat, T # {}
  PROVE  \E m \in T : \A n \in T : m <= n
<1>1. PICK m \in T : \A n \in T : <<n, m>> \notin OpToRel(<, Nat)
  BY NatLessThanWellFounded, WFMin
<1>2. \A n \in T : ~(n < m)
  BY <1>1, Zenon DEF OpToRel
<1> QED BY <1>2

-----------------------------------------------------------------------------
(* Documents *)

LEMMA ForgetFields ==
  ASSUME NEW b, BookOK(b), NEW out, NEW hears \in BOOLEAN
  PROVE  /\ BookOK(Backend!Forget(b, out, hears))
         /\ Backend!Forget(b, out, hears).text = [x \in Files |-> IF x \in out THEN Backend!NoText ELSE b.text[x]]
         /\ hears => Backend!Forget(b, out, hears).known = [x \in Files |-> IF x \in out THEN Backend!NoText ELSE b.known[x]]
         /\ Backend!Forget(b, out, hears).folders = b.folders
  BY DEF Backend!Forget, BookOK

LEMMA SentFields ==
  ASSUME NEW b, BookOK(b), NEW f, NEW hears \in BOOLEAN
  PROVE  /\ BookOK(Backend!Sent(b, f, hears))
         /\ Backend!Sent(b, f, hears).text = [b.text EXCEPT ![f] = disk[f]]
         /\ Backend!Sent(b, f, hears).known = [b.known EXCEPT ![f] = IF hears /\ b.text[f] # disk[f] THEN disk[f] ELSE b.known[f]]
         /\ Backend!Sent(b, f, hears).folders = IF hears /\ Backend!NewRoot(b, f) /\ Root[f] # root THEN b.folders \cup {Root[f]}
                                                ELSE b.folders
  BY DEF Backend!Sent, BookOK

LEMMA EnsuredOK ==
  ASSUME NEW b, BookOK(b), NEW f, NEW hears \in BOOLEAN
  PROVE  BookOK(Backend!Ensured(b, f, hears))
  BY SentFields, ForgetFields DEF Backend!Ensured

(* What is evicted is forgotten by both. *)
LEMMA ForgetInStep ==
  ASSUME NEW b, InStep(b), NEW out
  PROVE  InStep(Backend!Forget(b, out, TRUE))
<1> DEFINE c == Backend!Forget(b, out, TRUE)
<1>1. /\ BookOK(c) /\ c.text = [x \in Files |-> IF x \in out THEN Backend!NoText ELSE b.text[x]]
      /\ c.known = [x \in Files |-> IF x \in out THEN Backend!NoText ELSE b.known[x]] /\ c.folders = b.folders
  <2>1. c.text = [x \in Files |-> IF x \in out THEN Backend!NoText ELSE b.text[x]]
    BY DEF Backend!Forget, InStep, BookOK
  <2>2. c.known = [x \in Files |-> IF x \in out THEN Backend!NoText ELSE b.known[x]]
    BY DEF Backend!Forget, InStep, BookOK
  <2>3. c.folders = b.folders /\ DOMAIN c = DOMAIN b
    BY DEF Backend!Forget, InStep, BookOK
  <2> HIDE DEF c
  <2> QED BY <2>1, <2>2, <2>3 DEF BookOK, InStep
<1> HIDE DEF c
<1>2. c.known = c.text
  BY <1>1 DEF InStep
<1>3. \A f \in Files : c.text[f] # Backend!NoText => b.text[f] # Backend!NoText
  BY <1>1
<1>4. InStep(c)
  BY <1>1, <1>2, <1>3 DEF InStep
<1> QED BY <1>4 DEF c

LEMMA EnsuredInStep ==
  ASSUME NEW b, InStep(b), NEW f
  PROVE  InStep(Backend!Ensured(b, f, TRUE))
<1> DEFINE c == Backend!Sent(b, f, TRUE)
<1>1. /\ BookOK(c) /\ c.text = [b.text EXCEPT ![f] = disk[f]]
      /\ c.known = [b.known EXCEPT ![f] = IF b.text[f] # disk[f] THEN disk[f] ELSE b.known[f]]
      /\ c.folders = IF Backend!NewRoot(b, f) /\ Root[f] # root THEN b.folders \cup {Root[f]} ELSE b.folders
  BY SentFields DEF InStep
<1> HIDE DEF c
<1>2. c.known = c.text
  BY <1>1 DEF InStep
<1>3. \A x \in Files : c.text[x] # Backend!NoText => Root[x] \in c.folders
  <2> SUFFICES ASSUME NEW x \in Files, c.text[x] # Backend!NoText PROVE Root[x] \in c.folders
    OBVIOUS
  <2>1. CASE x = f
    BY <1>1, <2>1 DEF InStep, Backend!NewRoot
  <2>2. CASE x # f
    BY <1>1, <2>2 DEF InStep, BookOK
  <2> QED BY <2>1, <2>2
<1>4. InStep(c)
  BY <1>1, <1>2, <1>3 DEF InStep
<1>5. InStep(Backend!Forget(c, Backend!Evicted(c), TRUE))
  BY <1>4, ForgetInStep
<1>6. Backend!Ensured(b, f, TRUE) \in {b, Backend!Forget(c, Backend!Evicted(c), TRUE)}
  BY DEF Backend!Ensured, c
<1> QED BY <1>5, <1>6

(* The documents of all who waited are opened one after the other. *)
LEMMA EnsuredAllInStep ==
  ASSUME InStep(book), NEW cs, Len(cs) \in Nat
  PROVE  InStep(Backend!EnsuredAll(cs))
<1> DEFINE n == Len(cs)
           Chain(m, h) == h = [i \in 0..m |-> IF i = 0 THEN book ELSE Backend!Ensured(h[i - 1], file[cs[i]], TRUE)]
<1>1. \A m \in Nat : \E h : Chain(m, h)
  <2> DEFINE T == {m \in Nat : ~ \E h : Chain(m, h)}
  <2> SUFFICES ASSUME T # {} PROVE FALSE
    OBVIOUS
  <2>1. PICK m \in T : \A j \in T : m <= j
    <3> HIDE DEF Chain
    <3> QED BY LeastNat
  <2>2. CASE m = 0
    <3>1. Chain(0, [i \in 0..0 |-> book])
      OBVIOUS
    <3> HIDE DEF Chain
    <3> QED BY <2>1, <2>2, <3>1
  <2>3. CASE m # 0
    <3>1. m \in Nat /\ m - 1 \in Nat /\ m - 1 \notin T
      <4> HIDE DEF Chain
      <4> QED BY <2>1, <2>3
    <3>2. PICK g : Chain(m - 1, g)
      <4> HIDE DEF Chain
      <4> QED BY <3>1
    <3> DEFINE h == [i \in 0..m |-> IF i = m THEN Backend!Ensured(g[m - 1], file[cs[m]], TRUE) ELSE g[i]]
    <3>3. \A i \in 0..(m - 1) : h[i] = g[i] /\ g[i] = IF i = 0 THEN book ELSE Backend!Ensured(g[i - 1], file[cs[i]], TRUE)
      BY <3>1, <3>2
    <3>4. \A i \in 0..m : i # 0 => i - 1 \in 0..(m - 1)
      BY <3>1
    <3>5. \A i \in 0..m : h[i] = IF i = 0 THEN book ELSE Backend!Ensured(h[i - 1], file[cs[i]], TRUE)
      <4> SUFFICES ASSUME NEW i \in 0..m PROVE h[i] = IF i = 0 THEN book ELSE Backend!Ensured(h[i - 1], file[cs[i]], TRUE)
        OBVIOUS
      <4>1. CASE i = m
        <5>1. h[i] = Backend!Ensured(g[m - 1], file[cs[m]], TRUE) /\ h[i - 1] = g[m - 1]
          BY <2>3, <3>1, <3>3, <3>4, <4>1
        <5> QED BY <2>3, <4>1, <5>1
      <4>2. CASE i # m
        <5>1. i \in 0..(m - 1)
          BY <3>1, <4>2
        <5>2. i # 0 => h[i - 1] = g[i - 1]
          BY <3>1, <3>3, <5>1
        <5> QED BY <3>3, <5>1, <5>2
      <4> QED BY <4>1, <4>2
    <3>6. Chain(m, h)
      <4>1. h = [i \in 0..m |-> h[i]]
        OBVIOUS
      <4> HIDE DEF h
      <4> QED BY <3>5, <4>1
    <3> HIDE DEF Chain, h
    <3> QED BY <2>1, <3>6
  <2> QED BY <2>2, <2>3
<1> DEFINE ensured == CHOOSE h : Chain(n, h)
<1>2. Chain(n, ensured)
  <2> HIDE DEF Chain
  <2> QED BY <1>1
<1>3. Backend!EnsuredAll(cs) = ensured[n]
  BY DEF Backend!EnsuredAll
<1> HIDE DEF ensured
<1>4. \A i \in 0..n : ensured[i] = IF i = 0 THEN book ELSE Backend!Ensured(ensured[i - 1], file[cs[i]], TRUE)
  BY <1>2
<1> HIDE DEF Chain
<1>5. \A i \in 0..n : InStep(ensured[i])
  <2> DEFINE T == {i \in 0..n : ~InStep(ensured[i])}
  <2> SUFFICES ASSUME T # {} PROVE FALSE
    OBVIOUS
  <2>1. PICK m \in T : \A j \in T : m <= j
    <3> T \in SUBSET Nat
      OBVIOUS
    <3> HIDE DEF T
    <3> QED BY LeastNat
  <2>2. m \in 0..n /\ ~InStep(ensured[m])
    BY <2>1
  <2>3. m # 0 /\ m - 1 \in 0..n
    <3>1. 0 \in 0..n => ensured[0] = book
      BY <1>4, Zenon
    <3>2. m # 0
      BY <2>2, <3>1
    <3> QED BY <2>2, <3>2
  <2>4. InStep(ensured[m - 1])
    BY <2>1, <2>2, <2>3
  <2> QED BY <1>4, <2>2, <2>3, <2>4, EnsuredInStep
<1> QED BY <1>3, <1>5

-----------------------------------------------------------------------------
(* The lifecycle *)

LEMMA LspInit == Backend!Init => LspInv
  BY MaxGenAssumption DEF Backend!Init, LspInv, Serving, BookOK, Backend!Gens, Backend!NoDocs, Backend!NoText

LEMMA ResetFields ==
  ASSUME BookOK(book), Backend!ResetCaches
  PROVE  BookOK(book)' /\ book'.text = Backend!NoDocs
  BY DEF Backend!ResetCaches, BookOK, Backend!NoDocs

(* A generation that stops leaves no server that serves. *)
LEMMA LspStops ==
  ASSUME LspInv, NEW g \in Backend!Gens, Backend!Current(g), NEW reset \in BOOLEAN, Backend!Stop(g, reset),
         DOMAIN stage' = Backend!Gens,
         \A h \in Backend!Gens : stage'[h] # "none" => stage[h] # "none"
  PROVE  LspInv'
<1>1. /\ tag' = "stopping" /\ gen' = g + 1 /\ g = gen /\ gen \in Nat /\ UNCHANGED <<live, root>>
  BY DEF Backend!Stop, Backend!Current, LspInv
<1>2. BookOK(book)'
  BY ResetFields DEF Backend!Stop, LspInv, BookOK
<1> QED BY <1>1, <1>2 DEF LspInv, Serving, Backend!Gens

(* What goes on beside the lifecycle. *)
LEMMA LspAside ==
  ASSUME LspInv, UNCHANGED <<tag, gen, root>>, live' \subseteq live, BookOK(book)', DOMAIN stage' = Backend!Gens,
         \A h \in Backend!Gens : stage'[h] # "none" => stage[h] # "none",
         stage[gen] = "over" => stage'[gen] = "over",
         book'.text = book.text \/ tag \in {"stopping", "running"}, Serving => InStep(book)'
  PROVE  LspInv'
<1>1. Serving' => Serving
  BY DEF Serving
<1> QED BY <1>1 DEF LspInv

LEMMA LspStartupStep ==
  ASSUME LspInv, NEW g \in Backend!Gens, Backend!Startup(g)
  PROVE  LspInv'
<1>1. ASSUME NEW kind_, Backend!StartupFails(g, kind_), stage[g] \in {"lookup", "spawning", "initializing"} PROVE LspInv'
  <2>1. stage' = [stage EXCEPT ![g] = "over"]
    BY <1>1 DEF Backend!StartupFails
  <2>2. /\ DOMAIN stage' = Backend!Gens /\ \A h \in Backend!Gens : stage'[h] # "none" => stage[h] # "none"
        /\ stage[gen] = "over" => stage'[gen] = "over"
    BY <1>1, <2>1 DEF LspInv
  <2>3. CASE tag = "starting" /\ gen = g
    BY <1>1, <2>2, <2>3, LspStops DEF Backend!StartupFails, Backend!Current
  <2>4. CASE ~(tag = "starting" /\ gen = g)
    <3>1. UNCHANGED <<tag, gen, root, live, book>>
      BY <1>1, <2>4 DEF Backend!StartupFails
    <3>2. BookOK(book)' /\ (Serving => InStep(book)')
      BY <3>1 DEF LspInv, BookOK, InStep
    <3> QED BY <2>2, <3>1, <3>2, LspAside
  <2> QED BY <2>3, <2>4
<1>2. CASE Backend!Lookup(g)
  <2>1. CASE \E kind_ \in {"unavailable", "failed"} : Backend!StartupFails(g, kind_)
    BY <1>1, <1>2, <2>1 DEF Backend!Lookup
  <2>2. CASE ~ \E kind_ \in {"unavailable", "failed"} : Backend!StartupFails(g, kind_)
    <3>1. stage[g] = "lookup" /\ stage' = [stage EXCEPT ![g] = "spawning"] /\ UNCHANGED <<tag, gen, root, live, book>>
      BY <1>2, <2>2 DEF Backend!Lookup, Backend!process
    <3>2. BookOK(book)' /\ (Serving => InStep(book)')
      BY <3>1 DEF LspInv, BookOK, InStep
    <3> QED BY <3>1, <3>2, LspAside DEF LspInv
  <2> QED BY <2>1, <2>2
<1>3. CASE Backend!Spawned(g)
  <2>1. stage[g] = "spawning" /\ live' = live \cup {g} /\ UNCHANGED <<tag, gen, root>> /\ g <= gen /\ g \in Nat
    BY <1>3, MaxGenAssumption DEF Backend!Spawned, LspInv, Backend!Gens
  <2>2. CASE Backend!Current(g)
    <3>1. /\ stage' = [stage EXCEPT ![g] = "initializing"]
          /\ book' = [book EXCEPT !.known = Backend!NoDocs, !.folders = {root}]
      BY <1>3, <2>2 DEF Backend!Spawned
    <3>2. tag = "starting" /\ gen = g /\ book.text = Backend!NoDocs
      BY <2>1, <2>2 DEF Backend!Current, LspInv
    <3>3. /\ BookOK(book') /\ book'.text = Backend!NoDocs /\ book'.known = Backend!NoDocs /\ root \in book'.folders
      BY <3>1, <3>2 DEF LspInv, BookOK, Backend!NoDocs
    <3>4. InStep(book)'
      BY <2>1, <3>3 DEF InStep, BookOK, Backend!NoDocs
    <3> QED BY <2>1, <3>1, <3>2, <3>3, <3>4 DEF LspInv, BookOK
  <2>3. CASE ~Backend!Current(g)
    <3>1. stage' = [stage EXCEPT ![g] = "over"] /\ UNCHANGED book
      BY <1>3, <2>3 DEF Backend!Spawned
    <3>2. Serving' => Serving
      BY <2>1, <2>3 DEF Serving, Backend!Current
    <3> QED BY <2>1, <3>1, <3>2 DEF LspInv, BookOK, InStep
  <2> QED BY <2>2, <2>3
<1>4. CASE Backend!SpawnFails(g) \/ Backend!InitializeFails(g)
  BY <1>1, <1>4 DEF Backend!SpawnFails, Backend!InitializeFails
<1>5. CASE Backend!Initialized(g)
  <2> DEFINE waiting == {c \in Calls : call[c] = "starting"}
  <2>1. /\ g \in live /\ Backend!Current(g) /\ tag' = "running" /\ stage' = [stage EXCEPT ![g] = "over"]
        /\ UNCHANGED <<gen, live, root>>
        /\ \E cs \in [1..Cardinality(waiting) -> waiting] : book' = Backend!EnsuredAll(cs)
    BY <1>5, BackendCardinality DEF Backend!Initialized, Backend!process
  <2>2. InStep(book) /\ gen = g
    BY <2>1 DEF LspInv, Serving, Backend!Current
  <2>3. PICK cs \in [1..Cardinality(waiting) -> waiting] : book' = Backend!EnsuredAll(cs)
    BY <2>1
  <2>4. Cardinality(waiting) \in Nat
    BY CallsAssumption, FS_Subset, FS_CardinalityType
  <2>5. Len(cs) \in Nat
    BY <2>4
  <2>6. InStep(book')
    BY <2>2, <2>3, <2>5, EnsuredAllInStep
  <2>7. InStep(book)'
    BY <2>1, <2>6 DEF InStep
  <2> QED BY <2>1, <2>2, <2>6, <2>7 DEF LspInv, InStep, BookOK
<1> QED BY <1>2, <1>3, <1>4, <1>5 DEF Backend!Startup

LEMMA LspLifecycleStep ==
  ASSUME LspInv, \/ Backend!Shutdown \/ Backend!StopEnds
                 \/ \E g \in Backend!Gens : Backend!Dies(g) \/ Backend!OnExit(g)
  PROVE  LspInv'
<1>1. CASE Backend!Shutdown
  <2>1. tag \in {"starting", "running"} /\ Backend!Current(gen) /\ Backend!Stop(gen, FALSE) /\ UNCHANGED stage
    BY <1>1 DEF Backend!Shutdown, Backend!Current
  <2>2. tag' = "stopping" /\ gen' = gen + 1 /\ UNCHANGED <<live, root, book>>
    BY <2>1 DEF Backend!Stop
  <2> QED BY <2>1, <2>2 DEF LspInv, Serving, BookOK, Backend!Gens
<1>2. CASE Backend!StopEnds
  <2>1. /\ tag' \in {"idle", "unavailable"} /\ UNCHANGED <<gen, stage, live, root>> /\ Backend!ResetCaches
    BY <1>2 DEF Backend!StopEnds, Backend!process
  <2> QED BY <2>1, ResetFields DEF LspInv, Serving
<1>3. ASSUME NEW g \in Backend!Gens, Backend!Dies(g) PROVE LspInv'
  <2>1. live' \subseteq live /\ UNCHANGED <<tag, gen, stage, root, book>>
    BY <1>3 DEF Backend!Dies, Backend!lifecycle
  <2>2. BookOK(book)' /\ (Serving => InStep(book)')
    BY <2>1 DEF LspInv, BookOK, InStep
  <2> QED BY <2>1, <2>2, LspAside DEF LspInv
<1>4. ASSUME NEW g \in Backend!Gens, Backend!OnExit(g) PROVE LspInv'
  <2>1. CASE Backend!Current(g)
    BY <1>4, <2>1, LspStops DEF Backend!OnExit, LspInv
  <2>2. CASE ~Backend!Current(g)
    <3>1. UNCHANGED <<live, tag, gen, stage, root, book>>
      BY <1>4, <2>2 DEF Backend!OnExit, Backend!lifecycle
    <3>2. BookOK(book)' /\ (Serving => InStep(book)')
      BY <3>1 DEF LspInv, BookOK, InStep
    <3> QED BY <3>1, <3>2, LspAside DEF LspInv
  <2> QED BY <2>1, <2>2
<1> QED BY <1>1, <1>2, <1>3, <1>4

LEMMA LspCallStep ==
  ASSUME LspInv,
         \/ \E c \in Calls, f \in Files : Backend!EnsureFile(c, f)
         \/ \E c \in Calls : Backend!Request(c) \/ Backend!Watch(c) \/ Backend!WatchTimesOut(c)
         \/ \E c \in Calls, g \in Backend!Gens : Backend!Answer(c, g) \/ Backend!TimesOut(c, g)
         \/ \E f \in Files : Backend!Publish(f) \/ Backend!CloseFile(f) \/ Backend!Edit(f)
  PROVE  LspInv'
<1>1. ASSUME UNCHANGED <<tag, gen, stage, live, root>>, BookOK(book)', book'.text = book.text \/ tag \in {"stopping", "running"},
             Serving => InStep(book')
      PROVE  LspInv'
  <2>1. Serving => InStep(book)'
    BY <1>1 DEF InStep
  <2> QED BY <1>1, <2>1, LspAside DEF LspInv
<1>2. ASSUME UNCHANGED <<tag, gen, stage, live, root, book>> PROVE LspInv'
  BY <1>1, <1>2 DEF LspInv, BookOK
<1>3. ASSUME NEW c \in Calls, NEW f \in Files, Backend!EnsureFile(c, f) PROVE LspInv'
  <2>1. CASE tag = "running"
    <3>1. book' = Backend!Ensured(book, f, gen \in live) /\ UNCHANGED <<tag, gen, stage, live, root>>
      BY <1>3, <2>1 DEF Backend!EnsureFile, Backend!lifecycle, Backend!process
    <3>2. (gen \in live) \in BOOLEAN /\ BookOK(book)
      BY DEF LspInv
    <3>3. BookOK(book')
      BY <3>1, <3>2, EnsuredOK
    <3>4. Serving => InStep(book')
      <4> SUFFICES ASSUME Serving PROVE InStep(book')
        OBVIOUS
      <4>1. (gen \in live) = TRUE /\ InStep(book)
        BY DEF LspInv, Serving
      <4> QED BY <3>1, <4>1, EnsuredInStep
    <3> QED BY <1>1, <2>1, <3>1, <3>3, <3>4 DEF BookOK
  <2>2. CASE tag = "idle" /\ tag' = "starting"
    <3>1. /\ gen + 2 <= MaxGen /\ gen' = gen + 1 /\ stage' = [stage EXCEPT ![gen + 1] = "lookup"]
          /\ UNCHANGED <<live, book>>
      BY <1>3, <2>2 DEF Backend!EnsureFile, Backend!process
    <3>2. gen + 1 \in Backend!Gens /\ gen \in Nat
      BY <3>1, MaxGenAssumption DEF LspInv, Backend!Gens
    <3>3. ~Serving'
      BY <2>2, <3>1, <3>2 DEF LspInv, Serving
    <3>4. /\ gen' \in Nat /\ DOMAIN stage' = Backend!Gens /\ BookOK(book)' /\ book'.text = Backend!NoDocs
          /\ \A g \in live' : g \in Nat /\ g <= gen'
      BY <2>2, <3>1, <3>2 DEF LspInv, BookOK
    <3>5. \A g \in Backend!Gens : stage'[g] # "none" => g <= gen'
      <4> SUFFICES ASSUME NEW g \in Backend!Gens, stage'[g] # "none" PROVE g <= gen'
        OBVIOUS
      <4>1. g \in Nat
        BY MaxGenAssumption DEF Backend!Gens
      <4>2. CASE g = gen + 1
        BY <3>1, <3>2, <4>1, <4>2
      <4>3. CASE g # gen + 1
        <5>1. stage[g] # "none"
          BY <3>1, <4>3 DEF LspInv
        <5>2. g <= gen
          BY <5>1 DEF LspInv
        <5> QED BY <3>1, <3>2, <4>1, <5>2
      <4> QED BY <4>2, <4>3
    <3> QED BY <2>2, <3>3, <3>4, <3>5 DEF LspInv
  <2>3. CASE tag # "running" /\ ~(tag = "idle" /\ tag' = "starting")
    BY <1>2, <1>3, <2>3 DEF Backend!EnsureFile, Backend!lifecycle, Backend!process
  <2> QED BY <2>1, <2>2, <2>3
<1>4. ASSUME NEW c \in Calls,
             \/ Backend!Request(c) \/ Backend!Watch(c) \/ Backend!WatchTimesOut(c)
             \/ \E g \in Backend!Gens : Backend!Answer(c, g) \/ Backend!TimesOut(c, g)
      PROVE  LspInv'
  BY <1>2, <1>4 DEF Backend!Request, Backend!Watch, Backend!WatchTimesOut, Backend!Answer, Backend!TimesOut,
     Backend!lifecycle, Backend!process
<1>5. ASSUME NEW f \in Files, Backend!Publish(f) PROVE LspInv'
  <2>1. book' = [book EXCEPT !.diag = @ \cup {f}] /\ UNCHANGED <<tag, gen, stage, live, root>>
    BY <1>5 DEF Backend!Publish, Backend!lifecycle, Backend!process
  <2>2. BookOK(book) /\ BookOK(book') /\ book'.text = book.text /\ book'.known = book.known /\ book'.folders = book.folders
    BY <2>1 DEF LspInv, BookOK
  <2>3. Serving => InStep(book')
    BY <2>2 DEF LspInv, InStep
  <2> QED BY <1>1, <2>1, <2>2, <2>3 DEF BookOK
<1>6. ASSUME NEW f \in Files, Backend!CloseFile(f) PROVE LspInv'
  <2> DEFINE hears == tag \in {"starting", "running"} /\ gen \in live
  <2>1. /\ book' = Backend!Forget(book, {f}, hears) /\ UNCHANGED <<tag, gen, stage, live, root>>
        /\ book.text[f] # Backend!NoText
    BY <1>6 DEF Backend!CloseFile, Backend!lifecycle, Backend!process
  <2>2. hears \in BOOLEAN /\ BookOK(book)
    BY DEF LspInv
  <2>3. BookOK(book')
    <3> HIDE DEF hears
    <3> QED BY <2>1, <2>2, ForgetFields
  <2>4. tag \in {"stopping", "running"}
    BY <1>6, <2>1 DEF LspInv, Backend!NoDocs
  <2>5. Serving => InStep(book')
    <3> SUFFICES ASSUME Serving PROVE InStep(book')
      OBVIOUS
    <3>1. hears = TRUE /\ InStep(book)
      BY DEF LspInv, Serving
    <3> HIDE DEF hears
    <3> QED BY <2>1, <3>1, ForgetInStep
  <2> QED BY <1>1, <2>1, <2>3, <2>4, <2>5 DEF BookOK
<1>7. ASSUME NEW f \in Files, Backend!Edit(f) PROVE LspInv'
  BY <1>2, <1>7 DEF Backend!Edit, Backend!lifecycle, Backend!process
<1> QED BY <1>3, <1>4, <1>5, <1>6, <1>7

LEMMA LspStep == LspInv /\ [Backend!Next]_theBackend => LspInv'
<1>1. ASSUME LspInv, UNCHANGED theBackend PROVE LspInv'
  BY <1>1 DEF theBackend, LspInv, Serving, BookOK, InStep
<1> QED BY <1>1, LspStartupStep, LspLifecycleStep, LspCallStep DEF Backend!Next

LEMMA LspKnows == LspInv => Backend!ServerKnowsDocuments
  BY DEF LspInv, Serving, InStep, Backend!ServerKnowsDocuments

LEMMA LspMove == [MC_Next]_<<focus, theDaemon, theBackend, theClient, theRequests, theEdit, theTexts, theCloseout, theCleanup>>
                      => [Backend!Next]_theBackend
  BY DEF MC_Next

(* While a language server runs it knows exactly the documents that are taken for   *)
(* open, their texts and their projects (backend.ts, publishRunningEffect,          *)
(* ensureFileEffect, onProcessExitEffect; document-manager.ts).                     *)
THEOREM ServerHasTheDocuments == MC_Spec => []ServerKnowsDocuments
<1>1. LspInv => ServerKnowsDocuments
  BY LspKnows DEF ServerKnowsDocuments
<1>2. MC_Init => Backend!Init
  BY DEF MC_Init
<1> QED BY <1>1, <1>2, LspInit, LspStep, LspMove, PTL DEF MC_Spec

-----------------------------------------------------------------------------
(* DevToolsClient: a request waits under an id of its own, on the socket that is   *)
(* read; what is written elsewhere is gone.                                        *)
CallerStates == {"new", "connecting", "connected", "awaiting", "answered", "failed"}
Attempts == [at : {"none", "first", "spawning", "polling"}, left : Nat]

ClientTypeOK ==
  /\ attempt \in Attempts /\ socket \in [n : Nat, destroyed : BOOLEAN]
  /\ opened \in Nat /\ nextId \in Nat /\ isClosed \in BOOLEAN
  /\ registry \subseteq [id : Nat, caller : Callers] /\ wire \subseteq [id : Nat, caller : Callers, socket : Nat]
  /\ caller \in [Callers -> [at : CallerStates, tries : Nat, id : Nat]]
  /\ DOMAIN answer = Callers

OwnIds ==
  /\ \A r \in registry : r.id < nextId
  /\ \A w \in wire : w.id < nextId /\ \A r \in registry : r.id = w.id => r.caller = w.caller

ClientInv == ClientTypeOK /\ OwnIds /\ Client!AnswersReachTheirCallers

LEMMA ClientInit == Client!Init => ClientInv
<1> SUFFICES ASSUME Client!Init PROVE ClientInv
  OBVIOUS
<1>1. caller \in [Callers -> [at : CallerStates, tries : Nat, id : Nat]]
  BY DEF Client!Init, CallerStates
<1>2. attempt \in Attempts /\ socket \in [n : Nat, destroyed : BOOLEAN]
  BY DEF Client!Init, Attempts, Client!NoAttempt, Client!NoSocket
<1> QED BY <1>1, <1>2 DEF Client!Init, ClientInv, ClientTypeOK, OwnIds, Client!AnswersReachTheirCallers

(* What a lost socket leaves: nobody awaits an answer who was registered. *)
LEMMA ClientTornDown ==
  ASSUME ClientInv, NEW cs, cs \in [Callers -> [at : CallerStates, tries : Nat, id : Nat]], Client!TearDown(cs)
  PROVE  /\ registry' = {} /\ wire' = {} /\ socket' = [n |-> 0, destroyed |-> FALSE]
         /\ caller' \in [Callers -> [at : CallerStates, tries : Nat, id : Nat]]
<1>1. \A c \in Callers : [cs[c] EXCEPT !.at = "failed"] \in [at : CallerStates, tries : Nat, id : Nat]
  BY DEF CallerStates
<1> QED BY <1>1 DEF Client!TearDown, Client!Settled, Client!NoSocket, ClientInv, Client!AnswersReachTheirCallers

(* Those who wait for the attempt await nothing of a socket. *)
LEMMA ClientMoved ==
  ASSUME ClientTypeOK, NEW cs, cs \in [Callers -> [at : CallerStates, tries : Nat, id : Nat]],
         NEW to \in CallerStates
  PROVE  /\ Client!Moved(cs, "connecting", to) \in [Callers -> [at : CallerStates, tries : Nat, id : Nat]]
         /\ \A c \in Callers : cs[c].at = "awaiting" => Client!Moved(cs, "connecting", to)[c] = cs[c]
<1>1. \A c \in Callers : [cs[c] EXCEPT !.at = to] \in [at : CallerStates, tries : Nat, id : Nat]
  OBVIOUS
<1> QED BY <1>1 DEF Client!Moved

LEMMA ClientAttemptStep == ClientInv /\ Client!Connecting => ClientInv'
<1> SUFFICES ASSUME ClientInv, Client!Connecting PROVE ClientInv'
  OBVIOUS
<1> DEFINE Records == [Callers -> [at : CallerStates, tries : Nat, id : Nat]]
<1>1. CASE Client!Connected
  <2>1. Client!Settled(caller) \in Records
    <3>1. \A c \in Callers : [caller[c] EXCEPT !.at = "failed"] \in [at : CallerStates, tries : Nat, id : Nat]
      BY DEF ClientInv, ClientTypeOK, CallerStates
    <3> QED BY <3>1 DEF Client!Settled, ClientInv, ClientTypeOK
  <2>2. caller' \in Records
    BY <1>1, <2>1, ClientMoved DEF Client!Connected, ClientInv, CallerStates
  <2>3. /\ registry' = {} /\ wire' = {} /\ socket' = [n |-> opened + 1, destroyed |-> FALSE] /\ ~isClosed
        /\ attempt' = Client!NoAttempt /\ opened' = opened + 1 /\ UNCHANGED <<nextId, answer, isClosed>>
    BY <1>1 DEF Client!Connected, ClientInv, Client!AnswersReachTheirCallers, Client!NoAttempt
  <2> QED BY <2>2, <2>3 DEF ClientInv, ClientTypeOK, OwnIds, Client!AnswersReachTheirCallers, Client!NoAttempt, Attempts, Client!NoSocket
<1>2. CASE Client!NotListening \/ Client!Refused \/ Client!DaemonSpawned
  <2>1. /\ UNCHANGED <<socket, opened, nextId, registry, wire, caller, answer, isClosed>>
        /\ \E s \in {"spawning", "polling"} : attempt' = [attempt EXCEPT !.at = s]
        /\ attempt.at # "none"
    BY <1>2 DEF Client!NotListening, Client!Refused, Client!DaemonSpawned
  <2>2. attempt' \in Attempts /\ ~isClosed
    BY <2>1 DEF ClientInv, ClientTypeOK, Client!AnswersReachTheirCallers, Client!NoAttempt, Attempts
  <2> QED BY <2>1, <2>2 DEF ClientInv, ClientTypeOK, OwnIds, Client!AnswersReachTheirCallers
<1>3. ASSUME Client!AttemptEnds("failed"), UNCHANGED <<socket, opened, nextId, registry, wire, answer, isClosed>> PROVE ClientInv'
  <2>1. caller' \in Records /\ \A c \in Callers : caller[c].at = "awaiting" => caller'[c] = caller[c]
    BY <1>3, ClientMoved DEF Client!AttemptEnds, ClientInv, ClientTypeOK, CallerStates
  <2> QED BY <1>3, <2>1 DEF Client!AttemptEnds, ClientInv, ClientTypeOK, OwnIds, Client!AnswersReachTheirCallers,
          Client!NoAttempt, Attempts
<1>4. CASE Client!NotReady
  <2>1. CASE attempt.left > 0
    <3>1. /\ UNCHANGED <<socket, opened, nextId, registry, wire, caller, answer, isClosed>>
          /\ attempt' = [attempt EXCEPT !.left = @ - 1] /\ attempt.at # "none"
      BY <1>4, <2>1 DEF Client!NotReady
    <3>3. attempt.left \in Nat /\ attempt.left - 1 \in Nat
      BY <2>1 DEF ClientInv, ClientTypeOK, Attempts
    <3>2. attempt' \in Attempts /\ ~isClosed
      BY <3>1, <3>3 DEF ClientInv, ClientTypeOK, Client!AnswersReachTheirCallers, Client!NoAttempt, Attempts
    <3> QED BY <3>1, <3>2 DEF ClientInv, ClientTypeOK, OwnIds, Client!AnswersReachTheirCallers
  <2>2. CASE ~(attempt.left > 0)
    BY <1>3, <1>4, <2>2 DEF Client!NotReady
  <2> QED BY <2>1, <2>2
<1>5. CASE Client!AttemptThrows
  BY <1>3, <1>5 DEF Client!AttemptThrows
<1> QED BY <1>1, <1>2, <1>4, <1>5 DEF Client!Connecting

LEMMA ClientCallStep ==
  ASSUME ClientInv, NEW c \in Callers,
         \/ Client!EnsureConnected(c) \/ Client!Register(c) \/ Client!WriteFails(c) \/ Client!TimesOut(c)
         \/ Client!GivesUp(c)
  PROVE  ClientInv'
<1> DEFINE Records == [Callers -> [at : CallerStates, tries : Nat, id : Nat]]
<1>1. ClientTypeOK
  BY DEF ClientInv
<1>2. \A s \in CallerStates : /\ [caller EXCEPT ![c].at = s] \in Records
                              /\ \A d \in Callers : d # c => [caller EXCEPT ![c].at = s][d] = caller[d]
  <2> TAKE s \in CallerStates
  <2>1. [caller[c] EXCEPT !.at = s] \in [at : CallerStates, tries : Nat, id : Nat]
    BY <1>1 DEF ClientTypeOK
  <2> QED BY <1>1, <2>1 DEF ClientTypeOK
<1>3. caller[c].at # "awaiting" => \A r \in registry : r.caller # c
  BY DEF ClientInv, Client!AnswersReachTheirCallers
<1>4. CASE Client!EnsureConnected(c)
  <2>1. \E s \in CallerStates : caller' = [caller EXCEPT ![c].at = s]
    BY <1>4 DEF Client!EnsureConnected, CallerStates
  <2>2. attempt' \in Attempts /\ (isClosed => attempt' = attempt)
    BY <1>1, <1>4, PollsAssumption DEF Client!EnsureConnected, ClientTypeOK, Attempts
  <2>3. UNCHANGED <<socket, opened, nextId, registry, wire, answer, isClosed>> /\ caller[c].at # "awaiting"
    BY <1>4 DEF Client!EnsureConnected
  <2> QED BY <1>2, <1>3, <2>1, <2>2, <2>3 DEF ClientInv, ClientTypeOK, OwnIds, Client!AnswersReachTheirCallers
<1>5. ASSUME caller[c].at # "awaiting", caller' = [caller EXCEPT ![c].at = "failed"],
             UNCHANGED <<attempt, socket, opened, registry, wire, answer, isClosed>>, nextId' \in {nextId, nextId + 1}
      PROVE  ClientInv'
  <2>1. nextId' \in Nat /\ nextId' >= nextId
    BY <1>1, <1>5 DEF ClientTypeOK
  <2>2. OwnIds'
    BY <1>1, <1>5, <2>1 DEF ClientTypeOK, ClientInv, OwnIds
  <2> QED BY <1>2, <1>3, <1>5, <2>1, <2>2 DEF ClientInv, ClientTypeOK, Client!AnswersReachTheirCallers, CallerStates
<1>6. CASE Client!Register(c)
  <2>1. CASE isClosed \/ ~Client!Usable
    BY <1>5, <1>6, <2>1 DEF Client!Register
  <2>2. CASE ~(isClosed \/ ~Client!Usable)
    <3>1. /\ nextId' = nextId + 1 /\ registry' = registry \cup {[id |-> nextId, caller |-> c]}
          /\ wire' = wire \cup {[id |-> nextId, caller |-> c, socket |-> socket.n]}
          /\ UNCHANGED <<attempt, socket, opened, answer, isClosed>>
          /\ caller' = [caller EXCEPT ![c] = [at |-> "awaiting", tries |-> caller[c].tries + 1, id |-> nextId]]
          /\ caller[c].at # "awaiting" /\ socket.n # 0 /\ ~isClosed
      BY <1>6, <2>2 DEF Client!Register, Client!FreshId, Client!Usable, Client!NoSocket
    <3>2. /\ caller' \in Records /\ caller'[c].at = "awaiting" /\ caller'[c].id = nextId
          /\ \A d \in Callers : d # c => caller'[d] = caller[d]
      BY <1>1, <3>1 DEF ClientTypeOK, CallerStates
    <3>3. ClientTypeOK'
      BY <1>1, <3>1, <3>2 DEF ClientTypeOK
    <3>4. OwnIds'
      <4>1. \A r \in registry' : r \in registry \/ (r.id = nextId /\ r.caller = c)
        BY <3>1
      <4>2. \A w \in wire' : w \in wire \/ (w.id = nextId /\ w.caller = c)
        BY <3>1
      <4>3. \A r \in registry : r.id \in Nat /\ r.id < nextId
        BY <1>1 DEF ClientInv, OwnIds, ClientTypeOK
      <4>4. \A w \in wire : w.id \in Nat /\ w.id < nextId
        BY <1>1 DEF ClientInv, OwnIds, ClientTypeOK
      <4>5. nextId \in Nat /\ nextId' = nextId + 1
        BY <1>1, <3>1 DEF ClientTypeOK
      <4> QED BY <4>1, <4>2, <4>3, <4>4, <4>5 DEF ClientInv, OwnIds
    <3>5. \A r \in registry' : caller'[r.caller].at = "awaiting" /\ caller'[r.caller].id = r.id
      <4>1. \A r \in registry : r.caller \in Callers /\ r.caller # c /\ caller[r.caller].at = "awaiting" /\ caller[r.caller].id = r.id
        BY <1>1, <1>3, <3>1 DEF ClientInv, Client!AnswersReachTheirCallers, ClientTypeOK
      <4> QED BY <3>1, <3>2, <4>1
    <3>6. \A w \in wire' : w.socket = socket'.n
      BY <3>1 DEF ClientInv, Client!AnswersReachTheirCallers
    <3> QED BY <3>1, <3>3, <3>4, <3>5, <3>6, Zenon DEF ClientInv, Client!AnswersReachTheirCallers, Client!NoSocket
  <2> QED BY <2>1, <2>2
<1>7. CASE Client!WriteFails(c)
  BY <1>5, <1>7 DEF Client!WriteFails, Client!FreshId
<1>8. ASSUME NEW s \in {"new", "failed"}, caller[c].at = "awaiting",
             registry' = {r \in registry : r.id # caller[c].id}, caller' = [caller EXCEPT ![c].at = s],
             UNCHANGED <<attempt, socket, opened, nextId, wire, answer, isClosed>>
      PROVE  ClientInv'
  <2>1. s \in CallerStates
    BY DEF CallerStates
  <2>2. \A r \in registry' : r \in registry /\ r.caller # c
    BY <1>8 DEF ClientInv, Client!AnswersReachTheirCallers
  <2>3. ClientTypeOK' /\ OwnIds'
    BY <1>2, <1>8, <2>1 DEF ClientInv, ClientTypeOK, OwnIds
  <2> QED BY <1>1, <1>2, <1>8, <2>1, <2>2, <2>3 DEF ClientInv, ClientTypeOK, Client!AnswersReachTheirCallers
<1>9. CASE Client!TimesOut(c)
  BY <1>8, <1>9 DEF Client!TimesOut
<1>10. CASE Client!GivesUp(c)
  <2>1. CASE socket.n # Client!NoSocket
    <3>1. /\ registry' = {} /\ wire' = {} /\ socket' = [n |-> 0, destroyed |-> FALSE]
          /\ caller' \in Records
      BY <1>2, <1>10, <2>1, ClientTornDown DEF Client!GivesUp, CallerStates
    <3>2. UNCHANGED <<attempt, opened, nextId, answer, isClosed>>
      BY <1>10 DEF Client!GivesUp
    <3> QED BY <1>1, <3>1, <3>2 DEF ClientInv, ClientTypeOK, OwnIds, Client!AnswersReachTheirCallers, Client!NoSocket
  <2>2. CASE socket.n = Client!NoSocket
    BY <1>8, <1>10, <2>2 DEF Client!GivesUp
  <2> QED BY <2>1, <2>2
<1> QED BY <1>4, <1>6, <1>7, <1>9, <1>10

LEMMA ClientSocketStep ==
  ASSUME ClientInv,
         \/ \E w \in wire : Client!Respond(w) \/ Client!Garbled(w)
         \/ Client!SocketEnds \/ Client!SocketCloses \/ Client!Close \/ Client!DaemonListens
  PROVE  ClientInv'
<1> DEFINE Records == [Callers -> [at : CallerStates, tries : Nat, id : Nat]]
<1>1. ClientTypeOK
  BY DEF ClientInv
<1>2. ASSUME NEW w \in wire, Client!Respond(w) PROVE ClientInv'
  <2> DEFINE found == {r \in registry : r.id = w.id}
  <2>1. /\ wire' = wire \ {w} /\ registry' = registry \ found
        /\ caller' = [c \in Callers |-> IF \E r \in found : r.caller = c THEN [caller[c] EXCEPT !.at = "answered"] ELSE caller[c]]
        /\ answer' = [c \in Callers |-> IF \E r \in found : r.caller = c THEN w.caller ELSE answer[c]]
        /\ UNCHANGED <<attempt, socket, opened, nextId, isClosed>>
    BY <1>2 DEF Client!Respond
  <2>2. \A c \in Callers : [caller[c] EXCEPT !.at = "answered"] \in [at : CallerStates, tries : Nat, id : Nat]
    BY <1>1 DEF ClientTypeOK, CallerStates
  <2>3. \A r \in found : r.caller = w.caller /\ r.id = w.id
    BY <1>2 DEF ClientInv, OwnIds
  <2>4. \A c \in Callers : answer'[c] \in {"none", c}
    BY <2>1, <2>3 DEF ClientInv, Client!AnswersReachTheirCallers
  <2>5. \A r \in registry' : r \in registry /\ caller'[r.caller] = caller[r.caller]
    <3> SUFFICES ASSUME NEW r \in registry' PROVE r \in registry /\ caller'[r.caller] = caller[r.caller]
      OBVIOUS
    <3>1. r \in registry /\ r.id # w.id /\ r.caller \in Callers /\ caller[r.caller].id = r.id
      BY <1>1, <2>1 DEF ClientTypeOK, ClientInv, Client!AnswersReachTheirCallers
    <3>2. \A q \in found : q.caller # r.caller
      BY <3>1 DEF ClientInv, Client!AnswersReachTheirCallers
    <3> QED BY <2>1, <3>1, <3>2
  <2>6. ClientTypeOK'
    BY <1>1, <2>1, <2>2 DEF ClientTypeOK
  <2>7. registry' \subseteq registry /\ wire' \subseteq wire /\ UNCHANGED <<attempt, socket, nextId, isClosed>>
    BY <2>1
  <2>8. OwnIds'
    BY <2>7 DEF ClientInv, OwnIds
  <2>9. Client!AnswersReachTheirCallers'
    BY <2>4, <2>5, <2>7 DEF ClientInv, Client!AnswersReachTheirCallers, Client!NoAttempt
  <2> QED BY <2>6, <2>8, <2>9 DEF ClientInv
<1>3. ASSUME NEW w \in wire, Client!Garbled(w) PROVE ClientInv'
  BY <1>3 DEF Client!Garbled, ClientInv, ClientTypeOK, OwnIds, Client!AnswersReachTheirCallers
<1>4. CASE Client!SocketEnds
  <2>1. socket' \in [n : Nat, destroyed : BOOLEAN] /\ socket'.n = socket.n
    BY <1>1, <1>4 DEF Client!SocketEnds, ClientTypeOK
  <2> QED BY <1>4, <2>1 DEF Client!SocketEnds, ClientInv, ClientTypeOK, OwnIds, Client!AnswersReachTheirCallers
<1>5. ASSUME NEW cs \in Records, Client!TearDown(cs), UNCHANGED <<opened, nextId, answer>>,
             \/ UNCHANGED <<attempt, isClosed>>
             \/ attempt' = Client!NoAttempt /\ isClosed' \in BOOLEAN
      PROVE  ClientInv'
  <2>1. /\ registry' = {} /\ wire' = {} /\ socket' = [n |-> 0, destroyed |-> FALSE]
        /\ caller' \in Records
    BY <1>5, ClientTornDown
  <2> QED BY <1>1, <1>5, <2>1 DEF ClientInv, ClientTypeOK, OwnIds, Client!AnswersReachTheirCallers, Client!NoSocket, Client!NoAttempt, Attempts
<1>6. CASE Client!SocketCloses
  BY <1>1, <1>5, <1>6 DEF Client!SocketCloses, ClientTypeOK
<1>7. CASE Client!Close
  <2>1. Client!Moved(caller, "connecting", "failed") \in Records
    BY <1>1, ClientMoved DEF ClientTypeOK, CallerStates
  <2> QED BY <1>5, <1>7, <2>1 DEF Client!Close
<1>8. CASE Client!DaemonListens
  BY <1>8 DEF Client!DaemonListens, ClientInv, ClientTypeOK, OwnIds, Client!AnswersReachTheirCallers
<1> QED BY <1>2, <1>3, <1>4, <1>6, <1>7, <1>8

LEMMA ClientStep == ClientInv /\ [Client!Next]_theClient => ClientInv'
<1>1. ASSUME ClientInv, UNCHANGED theClient PROVE ClientInv'
  BY <1>1 DEF theClient, ClientInv, ClientTypeOK, OwnIds, Client!AnswersReachTheirCallers
<1> QED BY <1>1, ClientAttemptStep, ClientCallStep, ClientSocketStep DEF Client!Next

LEMMA ClientMove == [MC_Next]_<<focus, theDaemon, theBackend, theClient, theRequests, theEdit, theTexts, theCloseout, theCleanup>>
                      => [Client!Next]_theClient
  BY DEF MC_Next

(* An answer goes to the caller whose request it answers, and whoever waits is       *)
(* registered (client.ts: sendRequest, handleData, the teardown of a connection).   *)
THEOREM AnswersAreDelivered == MC_Spec => []AnswersReachTheirCallers
<1>1. ClientInv => AnswersReachTheirCallers
  BY DEF ClientInv, AnswersReachTheirCallers
<1>2. MC_Init => Client!Init
  BY DEF MC_Init
<1> QED BY <1>1, <1>2, ClientInit, ClientStep, ClientMove, PTL DEF MC_Spec

-----------------------------------------------------------------------------
(* DevToolsRequests: once the rename's files are replaced a load of a path it edited *)
(* reads the new text, and the cache forgets the loads that began before.          *)
Texted == [file : Sources, text : {"unread", "old", "new"}, done : BOOLEAN]
Results == {"none", "fulfilled", "rejected"}
RenameStates == {"received", "prepare", "ask", "refused", "commit", "invalidate", "refresh", "answered", "notRefreshed"}
DiagnosticsStates == {"received", "opening", "finishing", "answered"}
OtherStates == {"received", "prepare", "ask", "askPeers", "read", "answered", "refused"}
Asking == {"received", "prepare", "ask", "askPeers"}
Forgotten == {"refresh", "answered", "notRefreshed"}

ReqTypeOK ==
  /\ kind \in [Handled -> Req!Kinds] /\ DOMAIN step = Handled
  /\ want \in [Handled -> Seq(Sources)] /\ joined \in [Handled -> Seq(Nat)]
  /\ onDisk \in [Req!Contents -> {"old", "new"}] /\ editing \subseteq Sources
  /\ load \in Seq(Texted) /\ DOMAIN entry = Sources
  /\ prepared \in [Req!Paths -> Results] /\ outcome \in [Req!Paths -> Results] /\ happened \in [Req!Paths -> Results]

EntriesLoad == \A f \in Sources : entry[f] # 0 => entry[f] \in DOMAIN load /\ load[entry[f]].file = f

(* Each load a request joined is of the file it wants there. *)
ReadsLoad ==
  \A q \in Handled :
    /\ Len(joined[q]) <= Len(want[q]) /\ (step[q] \in Asking => joined[q] = <<>>)
    /\ \A i \in DOMAIN joined[q] : joined[q][i] \in DOMAIN load /\ load[joined[q][i]].file = want[q][i]

OneOfAKind == \A r, s \in Handled : kind[r] = kind[s] /\ kind[r] \in {"rename", "diagnostics"} => r = s

StepsOfKind ==
  \A r \in Handled : step[r] \in IF kind[r] = "rename" THEN RenameStates
                                 ELSE IF kind[r] = "diagnostics" THEN DiagnosticsStates ELSE OtherStates

AllNew ==
  \A r \in Handled : kind[r] = "rename" /\ step[r] \in Forgotten \cup {"invalidate"} =>
    \A p \in editing : onDisk[Real[p]] = "new"

EntriesAfterRename ==
  \A r \in Handled : kind[r] = "rename" /\ step[r] \in Forgotten =>
    \A p \in editing : entry[p] # 0 => load[entry[p]].text # "old"

PathsFollowed ==
  \A r \in Handled : kind[r] = "diagnostics" => \A i \in Req!Paths :
    /\ step[r] \in {"received", "opening"} => outcome[i] = "none"
    /\ happened[i] = IF outcome[i] = "none" THEN prepared[i] ELSE outcome[i]
    /\ step[r] = "answered" => outcome[i] # "none"

ReqInv == /\ ReqTypeOK /\ EntriesLoad /\ ReadsLoad /\ OneOfAKind /\ StepsOfKind /\ AllNew /\ EntriesAfterRename
          /\ PathsFollowed /\ Req!NoLinesFromBeforeRename

LEMMA ReqCardinality == \A S : Req!Cardinality(S) = Cardinality(S)
  BY DEF Req!Cardinality, Cardinality, Req!IsFiniteSet, IsFiniteSet

(* No more than one of a set of at most one. *)
LEMMA AtMostOne ==
  ASSUME NEW S, IsFiniteSet(S), Cardinality(S) <= 1, NEW x \in S, NEW y \in S
  PROVE  x = y
<1> SUFFICES ASSUME x # y PROVE FALSE
  OBVIOUS
<1>1. IsFiniteSet({x}) /\ Cardinality({x}) = 1
  BY FS_Singleton
<1>2. Cardinality({x} \cup {y}) = 2
  BY <1>1, FS_AddElement
<1>3. Cardinality({x} \cup {y}) <= Cardinality(S) /\ Cardinality(S) \in Nat
  BY FS_Subset, FS_CardinalityType
<1> QED BY <1>2, <1>3

LEMMA ReqInit == Req!Init => ReqInv
<1> SUFFICES ASSUME Req!Init PROVE ReqInv
  OBVIOUS
<1>1. ReqTypeOK
  BY DEF Req!Init, ReqTypeOK, Results
<1>2. OneOfAKind
  <2> SUFFICES ASSUME NEW r \in Handled, NEW s \in Handled, kind[r] = kind[s], kind[r] \in {"rename", "diagnostics"}
               PROVE  r = s
    BY DEF OneOfAKind
  <2> DEFINE S == {q \in Handled : kind[q] = kind[r]}
  <2>1. Cardinality(S) <= 1
    BY ReqCardinality DEF Req!Init
  <2>2. IsFiniteSet(S)
    BY RequestsAssumption, FS_Subset
  <2> QED BY <2>1, <2>2, AtMostOne
<1>3. /\ EntriesLoad /\ ReadsLoad /\ StepsOfKind /\ AllNew /\ EntriesAfterRename /\ PathsFollowed
      /\ Req!NoLinesFromBeforeRename
  BY DEF Req!Init, EntriesLoad, ReadsLoad, StepsOfKind, AllNew, EntriesAfterRename, PathsFollowed,
         Req!NoLinesFromBeforeRename, RenameStates, DiagnosticsStates, OtherStates, Forgotten
<1> QED BY <1>1, <1>2, <1>3 DEF ReqInv

-----------------------------------------------------------------------------
(* What misses is a sequence of files, each that a load is needed of. *)
LEMMA MissingFiles ==
  ASSUME NEW files, DOMAIN entry = Sources
  PROVE  \E n \in Nat : /\ Req!Missing(files) \in [1..n -> Sources]
                        /\ \A f \in Sources : entry[f] = 0 /\ f \in Req!ToSet(files) =>
                             \E i \in 1..n : Req!Missing(files)[i] = f
<1> DEFINE S == {f \in Sources : entry[f] = 0 /\ f \in Req!ToSet(files)}
           m == Req!SetToSeq(S)
<1>1. IsFiniteSet(S)
  BY RequestsAssumption, FS_Subset
<1>2. Cardinality(S) \in Nat /\ ExistsBijection(1..Cardinality(S), S)
  BY <1>1, FS_CardinalityType
<1>3. \E g \in [1..Cardinality(S) -> S] : Req!IsInjective(g)
  BY <1>2 DEF ExistsBijection, Bijection, Injection, Surjection, IsInjective, Req!IsInjective
<1>4. m \in [1..Cardinality(S) -> S] /\ Req!IsInjective(m)
  BY <1>3, ReqCardinality DEF Req!SetToSeq
<1>5. IsFiniteSet(1..Cardinality(S)) /\ Cardinality(1..Cardinality(S)) = Cardinality(S)
  BY <1>2, FS_Interval
<1>6. m \in Surjection(1..Cardinality(S), S)
  <2>1. m \in Injection(1..Cardinality(S), S)
    BY <1>4 DEF Injection, IsInjective, Req!IsInjective
  <2> QED BY <1>1, <1>5, <2>1, FS_Injection
<1>7. \A f \in S : \E i \in 1..Cardinality(S) : m[i] = f
  BY <1>6 DEF Surjection
<1>8. m \in [1..Cardinality(S) -> Sources]
  BY <1>4
<1>9. Req!Missing(files) = m
  BY DEF Req!Missing
<1>10. \A f \in Sources : entry[f] = 0 /\ f \in Req!ToSet(files) => f \in S
  OBVIOUS
<1> HIDE DEF S, m
<1> QED BY <1>2, <1>7, <1>8, <1>9, <1>10

(* Joining adds loads that have read nothing and leaves the others. *)
LEMMA Joins ==
  ASSUME ReqInv, NEW r \in Handled, NEW files \in Seq(Sources), Req!JoinAll(r, files)
  PROVE  /\ load' \in Seq(Texted) /\ DOMAIN entry' = Sources /\ EntriesLoad'
         /\ \A l \in DOMAIN load : l \in DOMAIN load' /\ load'[l] = load[l]
         /\ \A f \in Sources : entry'[f] # 0 => load'[entry'[f]].text = "unread"
                                                \/ (entry'[f] = entry[f] /\ load'[entry'[f]] = load[entry[f]])
         /\ \A i \in DOMAIN files : entry'[files[i]] # 0
<1> DEFINE missing == Req!Missing(files)
           added == [i \in DOMAIN missing |-> [file |-> missing[i], text |-> "unread", done |-> FALSE]]
<1>0. DOMAIN entry = Sources
  BY DEF ReqInv, ReqTypeOK
<1>1. PICK n \in Nat : /\ missing \in [1..n -> Sources]
                       /\ \A f \in Sources : entry[f] = 0 /\ f \in Req!ToSet(files) => \E i \in 1..n : missing[i] = f
  BY <1>0, MissingFiles
<1>2. added \in [1..n -> Texted] /\ added \in Seq(Texted) /\ Len(added) = n
  BY <1>1 DEF Texted
<1>3. load \in Seq(Texted) /\ load' = load \o added
  BY DEF ReqInv, ReqTypeOK, Req!JoinAll
<1>4. /\ load' \in Seq(Texted) /\ Len(load') = Len(load) + n /\ Len(load) \in Nat
      /\ \A l \in DOMAIN load : l \in DOMAIN load' /\ load'[l] = load[l]
      /\ \A i \in 1..n : Len(load) + i \in DOMAIN load' /\ load'[Len(load) + i] = added[i]
  BY <1>2, <1>3
<1>5. DOMAIN entry' = Sources /\ \A f \in Sources :
        \/ entry'[f] = entry[f] /\ \A i \in 1..n : missing[i] # f
        \/ \E i \in 1..n : missing[i] = f /\ entry'[f] = Len(load) + i
  <2>1. entry' = [f \in Sources |-> IF \E i \in DOMAIN missing : missing[i] = f
                                    THEN Len(load) + CHOOSE i \in DOMAIN missing : missing[i] = f ELSE entry[f]]
    BY DEF Req!JoinAll
  <2>2. DOMAIN missing = 1..n
    BY <1>1
  <2> QED BY <2>1, <2>2
<1>6. \A f \in Sources : entry'[f] # 0 =>
        \/ entry'[f] = entry[f] /\ entry'[f] \in DOMAIN load' /\ load'[entry'[f]] = load[entry[f]] /\ load[entry[f]].file = f
        \/ entry'[f] \in DOMAIN load' /\ load'[entry'[f]].text = "unread" /\ load'[entry'[f]].file = f
  <2> SUFFICES ASSUME NEW f \in Sources, entry'[f] # 0
               PROVE  \/ entry'[f] = entry[f] /\ entry'[f] \in DOMAIN load' /\ load'[entry'[f]] = load[entry[f]]
                         /\ load[entry[f]].file = f
                      \/ entry'[f] \in DOMAIN load' /\ load'[entry'[f]].text = "unread" /\ load'[entry'[f]].file = f
    OBVIOUS
  <2>1. CASE entry'[f] = entry[f]
    <3>1. entry[f] \in DOMAIN load /\ load[entry[f]].file = f
      BY <2>1 DEF ReqInv, EntriesLoad
    <3>2. entry'[f] \in DOMAIN load' /\ load'[entry'[f]] = load[entry[f]]
      BY <1>4, <2>1, <3>1, Zenon
    <3> QED BY <2>1, <3>1, <3>2
  <2>2. CASE entry'[f] # entry[f]
    <3>1. PICK i \in 1..n : missing[i] = f /\ entry'[f] = Len(load) + i
      BY <1>5, <2>2
    <3>2. added[i].file = f /\ added[i].text = "unread"
      BY <1>1, <3>1
    <3> HIDE DEF added
    <3>3. entry'[f] \in DOMAIN load' /\ load'[entry'[f]] = added[i]
      BY <1>4, <3>1, Zenon
    <3> QED BY <3>2, <3>3
  <2> QED BY <2>1, <2>2
<1>7. \A i \in DOMAIN files : entry'[files[i]] # 0
  <2> SUFFICES ASSUME NEW i \in DOMAIN files PROVE entry'[files[i]] # 0
    OBVIOUS
  <2>1. files[i] \in Sources /\ files[i] \in Req!ToSet(files)
    BY DEF Req!ToSet
  <2>2. CASE \E j \in 1..n : missing[j] = files[i]
    <3>1. PICK j \in 1..n : entry'[files[i]] = Len(load) + j
      BY <1>5, <2>1, <2>2
    <3> QED BY <1>4, <3>1
  <2>3. CASE \A j \in 1..n : missing[j] # files[i]
    <3>1. entry[files[i]] # 0 /\ entry'[files[i]] = entry[files[i]]
      BY <1>1, <1>5, <2>1, <2>3
    <3> QED BY <3>1
  <2> QED BY <2>2, <2>3
<1> HIDE DEF missing, added
<1>8. EntriesLoad'
  BY <1>6 DEF EntriesLoad
<1> QED BY <1>4, <1>5, <1>6, <1>7, <1>8

(* A request goes on to read some files, which it wants after those it has joined. *)
ReadsMore(r, files) ==
  /\ Req!JoinAll(r, files)
  /\ want' \in [Handled -> Seq(Sources)] /\ \A q \in Handled \ {r} : want'[q] = want[q]
  /\ Len(joined[r]) + Len(files) <= Len(want'[r])
  /\ \A i \in DOMAIN joined[r] : want'[r][i] = want[r][i]
  /\ \A i \in DOMAIN files : want'[r][Len(joined[r]) + i] = files[i]

LEMMA Appended ==
  ASSUME NEW s \in Seq(Nat), NEW t \in Seq(Nat)
  PROVE  /\ s \o t \in Seq(Nat) /\ Len(s \o t) = Len(s) + Len(t)
         /\ \A i \in DOMAIN (s \o t) : \/ i \in DOMAIN s /\ (s \o t)[i] = s[i]
                                     \/ \E j \in 1..Len(t) : i = Len(s) + j /\ (s \o t)[i] = t[j]
<1>1. s \o t \in Seq(Nat) /\ Len(s \o t) = Len(s) + Len(t) /\ Len(s) \in Nat /\ Len(t) \in Nat
  OBVIOUS
<1>2. \A i \in 1..Len(s) : (s \o t)[i] = s[i]
  OBVIOUS
<1>3. ASSUME NEW i \in 1..(Len(s) + Len(t)), i > Len(s)
      PROVE  \E j \in 1..Len(t) : i = Len(s) + j /\ (s \o t)[i] = t[j]
  <2>1. i - Len(s) \in 1..Len(t) /\ i = Len(s) + (i - Len(s))
    BY <1>1, <1>3
  <2>2. (s \o t)[i] = t[i - Len(s)]
    BY <1>3, <2>1
  <2> QED BY <2>1, <2>2
<1> QED BY <1>1, <1>2, <1>3

(* What it joins is what the cache holds then. *)
LEMMA Reads ==
  ASSUME ReqInv, NEW r \in Handled, NEW files \in Seq(Sources), ReadsMore(r, files)
  PROVE  /\ joined' \in [Handled -> Seq(Nat)] /\ \A q \in Handled \ {r} : joined'[q] = joined[q]
         /\ Len(joined'[r]) <= Len(want'[r])
         /\ \A i \in DOMAIN joined'[r] :
              \/ i \in DOMAIN joined[r] /\ joined'[r][i] = joined[r][i] /\ want'[r][i] = want[r][i]
              \/ /\ want'[r][i] \in Sources /\ joined'[r][i] = entry'[want'[r][i]] /\ entry'[want'[r][i]] # 0
<1> DEFINE found == [i \in DOMAIN files |-> entry'[files[i]]]
<1>1. joined \in [Handled -> Seq(Nat)] /\ joined' = [joined EXCEPT ![r] = joined[r] \o found]
  BY DEF ReqInv, ReqTypeOK, ReadsMore, Req!JoinAll
<1>2. /\ load' \in Seq(Texted) /\ EntriesLoad'
      /\ \A i \in DOMAIN files : entry'[files[i]] # 0
  BY Joins DEF ReadsMore
<1>3. \A i \in DOMAIN files : files[i] \in Sources /\ entry'[files[i]] \in Nat
  <2> SUFFICES ASSUME NEW i \in DOMAIN files PROVE files[i] \in Sources /\ entry'[files[i]] \in Nat
    OBVIOUS
  <2>1. files[i] \in Sources
    OBVIOUS
  <2>2. entry'[files[i]] \in DOMAIN load'
    BY <1>2, <2>1 DEF EntriesLoad
  <2> QED BY <1>2, <2>1, <2>2
<1>4. found \in Seq(Nat) /\ Len(found) = Len(files) /\ \A i \in 1..Len(files) : found[i] = entry'[files[i]]
  BY <1>3
<1>5. /\ joined'[r] = joined[r] \o found /\ joined[r] \in Seq(Nat)
      /\ \A q \in Handled \ {r} : joined'[q] = joined[q]
  BY <1>1
<1> HIDE DEF found
<1>6. /\ joined'[r] \in Seq(Nat) /\ Len(joined'[r]) = Len(joined[r]) + Len(files)
      /\ \A i \in DOMAIN joined'[r] : \/ i \in DOMAIN joined[r] /\ joined'[r][i] = joined[r][i]
                                      \/ \E j \in 1..Len(files) : i = Len(joined[r]) + j /\ joined'[r][i] = found[j]
  <2> DEFINE old == joined[r]
             now == joined'[r]
  <2>1. old \in Seq(Nat) /\ found \in Seq(Nat) /\ now = old \o found /\ Len(found) = Len(files)
    BY <1>4, <1>5
  <2> HIDE DEF old, now
  <2>2. /\ old \o found \in Seq(Nat) /\ Len(old \o found) = Len(old) + Len(found)
        /\ \A i \in DOMAIN (old \o found) :
             \/ i \in DOMAIN old /\ (old \o found)[i] = old[i]
             \/ \E j \in 1..Len(found) : i = Len(old) + j /\ (old \o found)[i] = found[j]
    BY <2>1, Appended, Zenon
  <2>3. /\ now \in Seq(Nat) /\ Len(now) = Len(old) + Len(files)
        /\ \A i \in DOMAIN now : \/ i \in DOMAIN old /\ now[i] = old[i]
                                \/ \E j \in 1..Len(files) : i = Len(old) + j /\ now[i] = found[j]
    BY <2>1, <2>2, Zenon
  <2> QED BY <2>3 DEF old, now
<1>7. joined' \in [Handled -> Seq(Nat)]
  BY <1>1, <1>5, <1>6
<1>8. ASSUME NEW i \in DOMAIN joined'[r], NEW j \in 1..Len(files), i = Len(joined[r]) + j, joined'[r][i] = found[j]
      PROVE  want'[r][i] \in Sources /\ joined'[r][i] = entry'[want'[r][i]] /\ entry'[want'[r][i]] # 0
  <2>1. j \in DOMAIN files
    OBVIOUS
  <2>2. want'[r][i] = files[j]
    BY <1>8, <2>1 DEF ReadsMore
  <2> QED BY <1>2, <1>3, <1>4, <1>8, <2>1, <2>2
<1>9. \A i \in DOMAIN joined[r] : want'[r][i] = want[r][i]
  BY DEF ReadsMore
<1> QED BY <1>5, <1>6, <1>7, <1>8, <1>9 DEF ReadsMore

(* A request that is neither a rename nor diagnostics moves on. *)
LEMMA ReqOtherMoves ==
  ASSUME ReqInv, NEW r \in Handled, kind[r] \notin {"rename", "diagnostics"}, NEW s \in OtherStates,
         Req!Goes(r, s) \/ (UNCHANGED step /\ s = step[r]), s \in Asking => step[r] \in Asking,
         UNCHANGED <<kind, onDisk, editing, before, prepared, outcome, happened>>,
         \/ UNCHANGED <<want, joined, entry, load>>
         \/ s \notin Asking /\ \E files \in Seq(Sources) : ReadsMore(r, files)
  PROVE  ReqInv'
<1>1. DOMAIN step' = Handled /\ step'[r] = s /\ \A q \in Handled : q # r => step'[q] = step[q]
  BY DEF ReqInv, ReqTypeOK, Req!Goes
<1>2. OneOfAKind' /\ StepsOfKind' /\ AllNew' /\ PathsFollowed'
  BY <1>1 DEF ReqInv, OneOfAKind, StepsOfKind, AllNew, PathsFollowed
<1>3. \A q \in Handled : kind[q] = "rename" => q # r /\ step'[q] = step[q]
  BY <1>1
<1>4. CASE UNCHANGED <<want, joined, entry, load>>
  <2>1. ReqTypeOK' /\ EntriesLoad' /\ ReadsLoad'
    BY <1>1, <1>4 DEF ReqInv, ReqTypeOK, EntriesLoad, ReadsLoad
  <2>2. EntriesAfterRename' /\ Req!NoLinesFromBeforeRename'
    BY <1>3, <1>4 DEF ReqInv, EntriesAfterRename, Req!NoLinesFromBeforeRename
  <2> QED BY <1>2, <2>1, <2>2 DEF ReqInv
<1>5. ASSUME s \notin Asking, NEW files \in Seq(Sources), ReadsMore(r, files)
      PROVE  ReqInv'
  <2>1. /\ load' \in Seq(Texted) /\ DOMAIN entry' = Sources /\ EntriesLoad'
        /\ \A l \in DOMAIN load : l \in DOMAIN load' /\ load'[l] = load[l]
        /\ \A f \in Sources : entry'[f] # 0 => load'[entry'[f]].text = "unread"
                                               \/ (entry'[f] = entry[f] /\ load'[entry'[f]] = load[entry[f]])
    BY <1>5, Joins DEF ReadsMore
  <2>2. /\ joined' \in [Handled -> Seq(Nat)] /\ \A q \in Handled \ {r} : joined'[q] = joined[q]
        /\ Len(joined'[r]) <= Len(want'[r])
        /\ \A i \in DOMAIN joined'[r] :
             \/ i \in DOMAIN joined[r] /\ joined'[r][i] = joined[r][i] /\ want'[r][i] = want[r][i]
             \/ want'[r][i] \in Sources /\ joined'[r][i] = entry'[want'[r][i]] /\ entry'[want'[r][i]] # 0
    BY <1>5, Reads
  <2>3. want' \in [Handled -> Seq(Sources)] /\ \A q \in Handled \ {r} : want'[q] = want[q]
    BY <1>5 DEF ReadsMore
  <2>4. ReqTypeOK'
    BY <1>1, <2>1, <2>2, <2>3 DEF ReqInv, ReqTypeOK
  <2>5. ReadsLoad'
    <3>1. ASSUME NEW q \in Handled, q # r
          PROVE  /\ Len(joined'[q]) <= Len(want'[q]) /\ (step'[q] \in Asking => joined'[q] = <<>>)
                 /\ \A i \in DOMAIN joined'[q] : joined'[q][i] \in DOMAIN load' /\ load'[joined'[q][i]].file = want'[q][i]
      <4>1. step'[q] = step[q] /\ joined'[q] = joined[q] /\ want'[q] = want[q]
        BY <1>1, <2>2, <2>3, <3>1
      <4>2. /\ Len(joined[q]) <= Len(want[q]) /\ (step[q] \in Asking => joined[q] = <<>>)
            /\ \A i \in DOMAIN joined[q] : joined[q][i] \in DOMAIN load /\ load[joined[q][i]].file = want[q][i]
        BY DEF ReqInv, ReadsLoad
      <4> QED BY <2>1, <4>1, <4>2
    <3>2. ASSUME NEW i \in DOMAIN joined'[r]
          PROVE  joined'[r][i] \in DOMAIN load' /\ load'[joined'[r][i]].file = want'[r][i]
      <4>1. CASE i \in DOMAIN joined[r] /\ joined'[r][i] = joined[r][i] /\ want'[r][i] = want[r][i]
        <5>1. joined[r][i] \in DOMAIN load /\ load[joined[r][i]].file = want[r][i]
          BY <4>1 DEF ReqInv, ReadsLoad
        <5> QED BY <2>1, <4>1, <5>1
      <4>2. CASE want'[r][i] \in Sources /\ joined'[r][i] = entry'[want'[r][i]] /\ entry'[want'[r][i]] # 0
        BY <2>1, <4>2 DEF EntriesLoad
      <4> QED BY <2>2, <4>1, <4>2
    <3> QED BY <1>1, <1>5, <2>2, <3>1, <3>2 DEF ReadsLoad
  <2>6. EntriesAfterRename'
    BY <1>3, <2>1 DEF ReqInv, EntriesAfterRename, ReqTypeOK
  <2>7. Req!NoLinesFromBeforeRename'
    <3> SUFFICES ASSUME NEW p \in Handled, kind[p] = "rename", step'[p] \in Forgotten,
                        NEW q \in Handled, NEW i \in DOMAIN joined'[q], i > before[q], want'[q][i] \in editing
                 PROVE  load'[joined'[q][i]].text # "old"
      BY DEF Req!NoLinesFromBeforeRename, Forgotten
    <3>1. step[p] \in Forgotten
      BY <1>3
    <3>2. ASSUME i \in DOMAIN joined[q], joined'[q][i] = joined[q][i], want'[q][i] = want[q][i]
          PROVE  load'[joined'[q][i]].text # "old"
      BY <2>1, <3>1, <3>2 DEF ReqInv, Req!NoLinesFromBeforeRename, Forgotten, ReadsLoad
    <3>3. ASSUME joined'[q][i] = entry'[want'[q][i]], entry'[want'[q][i]] # 0
          PROVE  load'[joined'[q][i]].text # "old"
      <4>1. want'[q][i] \in Sources
        BY DEF ReqInv, ReqTypeOK
      <4> QED BY <1>3, <2>6, <3>3, <4>1 DEF EntriesAfterRename
    <3> QED BY <2>2, <2>3, <3>2, <3>3
  <2> QED BY <1>2, <2>1, <2>4, <2>5, <2>6, <2>7 DEF ReqInv
<1> QED BY <1>4, <1>5

(* What each of a request's handlers asks for. *)
LEMMA ReqOthers ==
  ASSUME ReqInv, NEW r \in Handled, kind[r] \notin {"rename", "diagnostics"},
         \/ Req!dispatch(r) \/ Req!prepareRequest(r) \/ Req!AskFails(r) \/ Req!handleHover(r) \/ Req!handleSymbols(r)
         \/ Req!handleLocationAction(r) \/ Req!handleCallHierarchy(r) \/ Req!handleReferences(r) \/ Req!ReadEnds(r)
  PROVE  ReqInv'
<1>1. UNCHANGED <<kind, onDisk, editing, before, prepared, outcome, happened>>
  BY DEF Req!dispatch, Req!prepareRequest, Req!AskFails, Req!handleHover, Req!handleSymbols, Req!handleLocationAction,
         Req!handleCallHierarchy, Req!handleReferences, Req!ReadEnds, Req!bulkVars, Req!renameVars
<1>2. step[r] \in OtherStates
  BY DEF ReqInv, StepsOfKind
<1>3. /\ want \in [Handled -> Seq(Sources)] /\ joined \in [Handled -> Seq(Nat)]
      /\ Len(joined[r]) <= Len(want[r]) /\ (step[r] \in Asking => joined[r] = <<>>)
  BY DEF ReqInv, ReqTypeOK, ReadsLoad
<1>4. ASSUME Req!ReadPlaces(r), step[r] \in Asking
      PROVE  Req!Goes(r, "read") /\ \E files \in Seq(Sources) : ReadsMore(r, files)
  <2>1. PICK ps \in Req!Places : want' = [want EXCEPT ![r] = ps] /\ Req!Goes(r, "read") /\ Req!JoinAll(r, ps)
    BY <1>4 DEF Req!ReadPlaces
  <2>2. PICK n \in 1..MaxPlaces : ps \in [1..n -> Sources]
    BY DEF Req!Places
  <2>3. ps \in Seq(Sources) /\ joined[r] = <<>> /\ want'[r] = ps
    BY <1>3, <1>4, <2>1, <2>2
  <2>4. ReadsMore(r, ps)
    BY <1>3, <2>1, <2>3 DEF ReadsMore
  <2> QED BY <2>1, <2>3, <2>4
<1>5. ASSUME Req!handleLocationAction(r)
      PROVE  \/ Req!Goes(r, "refused") /\ UNCHANGED <<want, joined, entry, load>>
             \/ /\ Req!Goes(r, "read") \/ (UNCHANGED step /\ step[r] = "read")
                /\ \E files \in Seq(Sources) : ReadsMore(r, files)
  <2>1. ASSUME step[r] = "ask", NEW n \in 1..MaxPlaces, NEW ps \in [1..n -> Sources], Req!Goes(r, "read"),
               want' = [want EXCEPT ![r] = [i \in 1 .. 2 * Len(ps) |-> ps[(i + 1) \div 2]]], Req!JoinAll(r, <<ps[1]>>)
        PROVE  ReadsMore(r, <<ps[1]>>) /\ <<ps[1]>> \in Seq(Sources)
    <3>1. n \in Nat /\ n >= 1 /\ Len(ps) = n /\ ps[1] \in Sources
      OBVIOUS
    <3> DEFINE twice == [i \in 1 .. 2 * n |-> ps[(i + 1) \div 2]]
    <3>2. \A i \in 1 .. 2 * n : (i + 1) \div 2 \in 1 .. n
      BY <3>1
    <3>3. twice \in Seq(Sources) /\ Len(twice) = 2 * n /\ twice[1] = ps[1]
      BY <3>1, <3>2
    <3>4. want'[r] = twice /\ \A q \in Handled \ {r} : want'[q] = want[q]
      BY <1>3, <2>1, <3>1
    <3>5. want' \in [Handled -> Seq(Sources)]
      BY <1>3, <2>1, <3>1, <3>3
    <3> HIDE DEF twice
    <3>6. joined[r] = <<>>
      BY <1>3, <2>1 DEF Asking
    <3> QED BY <2>1, <3>1, <3>3, <3>4, <3>5, <3>6 DEF ReadsMore
  <2>2. ASSUME step[r] = "read", Len(joined[r]) < Len(want[r]), UNCHANGED <<step, want>>,
               Req!JoinAll(r, <<want[r][Len(joined[r]) + 1]>>)
        PROVE  \E files \in Seq(Sources) : ReadsMore(r, files)
    <3>1. want[r][Len(joined[r]) + 1] \in Sources /\ <<want[r][Len(joined[r]) + 1]>> \in Seq(Sources)
      BY <1>3, <2>2
    <3>2. ReadsMore(r, <<want[r][Len(joined[r]) + 1]>>)
      BY <1>3, <2>2, <3>1 DEF ReadsMore
    <3> QED BY <3>1, <3>2
  <2> QED BY <1>5, <2>1, <2>2 DEF Req!handleLocationAction, Req!Places, Req!cacheVars
<1>6. \E s \in OtherStates :
        /\ Req!Goes(r, s) \/ (UNCHANGED step /\ s = step[r]) 
        /\ s \in Asking => step[r] \in Asking
        /\ \/ UNCHANGED <<want, joined, entry, load>>
           \/ s \notin Asking /\ \E files \in Seq(Sources) : ReadsMore(r, files)
  <2>1. CASE Req!handleLocationAction(r)
    BY <1>2, <1>5, <2>1 DEF OtherStates, Asking
  <2>2. CASE Req!dispatch(r) \/ Req!prepareRequest(r) \/ Req!AskFails(r) \/ Req!handleHover(r) \/ Req!handleSymbols(r) \/ Req!ReadEnds(r)
    BY <2>2 DEF Req!dispatch, Req!prepareRequest, Req!AskFails, Req!handleHover, Req!handleSymbols,
       Req!ReadEnds, OtherStates, Asking, Req!cacheVars
  <2>3. CASE Req!handleCallHierarchy(r) \/ Req!handleReferences(r)
    BY <1>4, <2>3 DEF Req!handleCallHierarchy, Req!handleReferences, OtherStates, Asking, Req!cacheVars
  <2> QED BY <2>1, <2>2, <2>3
<1> QED BY <1>1, <1>6, ReqOtherMoves

LEMMA ReqRename ==
  ASSUME ReqInv, NEW r \in Handled, kind[r] = "rename",
         \/ Req!dispatch(r) \/ Req!prepareRequest(r) \/ Req!AskFails(r) \/ Req!handleRename(r)
         \/ Req!Commit(r) \/ Req!Invalidate(r) \/ Req!Refreshed(r)
  PROVE  ReqInv'
<1>1. /\ UNCHANGED <<kind, want, joined, load, prepared, outcome, happened>>
      /\ \E s \in RenameStates : step' = [step EXCEPT ![r] = s] /\ (s \in Asking => step[r] \in Asking)
  BY DEF Req!dispatch, Req!prepareRequest, Req!AskFails, Req!handleRename, Req!Commit, Req!Invalidate, Req!Refreshed,
         Req!Goes, RenameStates, Req!bulkVars, Req!cacheVars, ReqInv, StepsOfKind, Asking
<1>2. \A q \in Handled : kind[q] = "rename" => q = r
  BY DEF ReqInv, OneOfAKind
<1>3. DOMAIN step' = Handled /\ step'[r] \in RenameStates /\ \A q \in Handled : q # r => step'[q] = step[q]
  BY <1>1 DEF ReqInv, ReqTypeOK
<1>4. DOMAIN entry' = Sources /\ \A f \in Sources : entry'[f] = entry[f] \/ entry'[f] = 0
  BY DEF Req!dispatch, Req!prepareRequest, Req!AskFails, Req!handleRename, Req!Commit, Req!Invalidate, Req!Refreshed,
         Req!cacheVars, ReqInv, ReqTypeOK
<1>5. onDisk' \in [Req!Contents -> {"old", "new"}] /\ editing' \subseteq Sources
  <2>0. onDisk \in [Req!Contents -> {"old", "new"}] /\ editing \subseteq Sources
    BY DEF ReqInv, ReqTypeOK
  <2>1. CASE Req!Commit(r)
    <3>1. editing' = editing /\ \/ \E p \in editing : onDisk' = [onDisk EXCEPT ![Real[p]] = "new"]
                                \/ onDisk' = onDisk
                                \/ onDisk' = [f \in Req!Contents |-> "old"]
      BY <2>1 DEF Req!Commit
    <3> QED BY <2>0, <3>1
  <2>2. CASE ~Req!Commit(r)
    BY <2>0, <2>2 DEF Req!dispatch, Req!prepareRequest, Req!AskFails, Req!handleRename, Req!Invalidate, Req!Refreshed,
       Req!renameVars
  <2> QED BY <2>1, <2>2
<1>6. step'[r] \in Forgotten \cup {"invalidate"} => \A p \in editing' : onDisk'[Real[p]] = "new"
  <2>1. ASSUME Req!Commit(r), step'[r] \in Forgotten \cup {"invalidate"}
        PROVE  \A p \in editing' : onDisk'[Real[p]] = "new"
    <3>1. PICK p \in editing : /\ onDisk' = [onDisk EXCEPT ![Real[p]] = "new"]
                               /\ Req!Goes(r, IF \A q \in editing \ {p} : onDisk[Real[q]] = "new" THEN "invalidate" ELSE "commit")
      BY <2>1 DEF Req!Commit, Req!Goes, Forgotten, ReqInv, ReqTypeOK
    <3>2. \A q \in editing \ {p} : onDisk[Real[q]] = "new"
      BY <2>1, <3>1 DEF Req!Goes, Forgotten, ReqInv, ReqTypeOK
    <3>3. editing' = editing /\ \A q \in editing : Real[q] \in Req!Contents
      BY <2>1 DEF Req!Commit, Req!Contents, ReqInv, ReqTypeOK
    <3> QED BY <3>1, <3>2, <3>3 DEF ReqInv, ReqTypeOK
  <2>2. ASSUME ~Req!Commit(r), step'[r] \in Forgotten \cup {"invalidate"}
        PROVE  step[r] \in Forgotten \cup {"invalidate"} /\ UNCHANGED <<editing, onDisk>>
    BY <1>3, <2>2 DEF Req!dispatch, Req!prepareRequest, Req!AskFails, Req!handleRename, Req!Invalidate, Req!Refreshed, Req!Goes,
       Req!renameVars, ReqInv, ReqTypeOK, Forgotten
  <2> QED BY <2>1, <2>2 DEF ReqInv, AllNew
<1>7. ASSUME step'[r] \in Forgotten
      PROVE  \/ /\ \A p \in editing' : entry'[p] = 0
                /\ \A q \in Handled : before'[q] = Len(joined[q])
             \/ step[r] \in Forgotten /\ UNCHANGED <<editing, entry, before>>
  BY <1>3, <1>7 DEF Req!dispatch, Req!prepareRequest, Req!AskFails, Req!handleRename, Req!Commit, Req!Invalidate, Req!Refreshed,
     Req!Goes, Req!renameVars, Req!cacheVars, ReqInv, ReqTypeOK, Forgotten
<1>8. ReqTypeOK' /\ EntriesLoad' /\ OneOfAKind' /\ StepsOfKind'
  BY <1>1, <1>3, <1>4, <1>5 DEF ReqInv, ReqTypeOK, EntriesLoad, OneOfAKind, StepsOfKind
<1>9. ReadsLoad'
  BY <1>1, <1>3 DEF ReqInv, ReqTypeOK, ReadsLoad
<1>10. AllNew'
  BY <1>1, <1>2, <1>6 DEF AllNew
<1>11. EntriesAfterRename'
  BY <1>1, <1>2, <1>7 DEF ReqInv, EntriesAfterRename
<1>12. Req!NoLinesFromBeforeRename'
  <2>1. \A q \in Handled : \A i \in DOMAIN joined[q] : ~(i > Len(joined[q]))
    BY DEF ReqInv, ReqTypeOK
  <2> QED BY <1>1, <1>2, <1>7, <2>1 DEF ReqInv, Req!NoLinesFromBeforeRename, Forgotten
<1>13. PathsFollowed'
  BY <1>1, <1>2, <1>3 DEF ReqInv, PathsFollowed
<1> QED BY <1>8, <1>9, <1>10, <1>11, <1>12, <1>13 DEF ReqInv

LEMMA ReqDiagnostics ==
  ASSUME ReqInv, NEW r \in Handled, kind[r] = "diagnostics",
         \/ Req!handleDiagnostics(r) \/ \E w \in Req!Workers : Req!PrepareEnds(r, w)
         \/ \E i \in Req!Paths : Req!finishDiagnostics(r, i)
  PROVE  ReqInv'
<1>1. /\ UNCHANGED <<kind, want, joined, entry, load, onDisk, editing, before>>
      /\ \E s \in {"opening", "finishing", "answered"} : step' = [step EXCEPT ![r] = s]
  BY DEF Req!handleDiagnostics, Req!PrepareEnds, Req!finishDiagnostics, Req!Goes, Req!cacheVars, Req!renameVars
<1>2. DOMAIN step' = Handled /\ step'[r] \in DiagnosticsStates /\ \A q \in Handled : q # r => step'[q] = step[q]
  BY <1>1 DEF ReqInv, ReqTypeOK, DiagnosticsStates
<1>3. prepared' \in [Req!Paths -> Results] /\ outcome' \in [Req!Paths -> Results] /\ happened' \in [Req!Paths -> Results]
  <2>0. prepared \in [Req!Paths -> Results] /\ outcome \in [Req!Paths -> Results] /\ happened \in [Req!Paths -> Results]
    BY DEF ReqInv, ReqTypeOK
  <2>1. CASE Req!handleDiagnostics(r)
    BY <2>0, <2>1 DEF Req!handleDiagnostics
  <2>2. ASSUME NEW w \in Req!Workers, Req!PrepareEnds(r, w)
        PROVE  prepared' \in [Req!Paths -> Results] /\ outcome' \in [Req!Paths -> Results] /\ happened' \in [Req!Paths -> Results]
    <3>1. UNCHANGED outcome /\ \E i, ending : /\ ending \in Results
                                              /\ prepared' = [prepared EXCEPT ![i] = ending]
                                              /\ happened' = [happened EXCEPT ![i] = ending]
      BY <2>2 DEF Req!PrepareEnds, Results
    <3> QED BY <2>0, <3>1
  <2>3. ASSUME NEW i \in Req!Paths, Req!finishDiagnostics(r, i)
        PROVE  prepared' \in [Req!Paths -> Results] /\ outcome' \in [Req!Paths -> Results] /\ happened' \in [Req!Paths -> Results]
    <3>1. UNCHANGED prepared /\ \E ending, left \in Results : outcome' = [outcome EXCEPT ![i] = ending]
                                                             /\ happened' = [happened EXCEPT ![i] = left]
      BY <2>0, <2>3 DEF Req!finishDiagnostics, Results
    <3> QED BY <2>0, <3>1
  <2> QED BY <2>1, <2>2, <2>3
<1>4. \A q \in Handled : kind[q] = "diagnostics" => q = r
  BY DEF ReqInv, OneOfAKind
<1> DEFINE FollowedNext == \A j \in Req!Paths :
                             /\ step'[r] \in {"received", "opening"} => outcome'[j] = "none"
                             /\ happened'[j] = IF outcome'[j] = "none" THEN prepared'[j] ELSE outcome'[j]
                             /\ step'[r] = "answered" => outcome'[j] # "none"
<1>5. FollowedNext
  <2>0. ReqTypeOK /\ \A j \in Req!Paths :
                       /\ step[r] \in {"received", "opening"} => outcome[j] = "none"
                       /\ happened[j] = IF outcome[j] = "none" THEN prepared[j] ELSE outcome[j]
    BY DEF ReqInv, PathsFollowed
  <2>1. CASE Req!handleDiagnostics(r)
    BY <1>2, <2>0, <2>1 DEF Req!handleDiagnostics, Req!Goes, ReqTypeOK
  <2>2. ASSUME NEW w \in Req!Workers, Req!PrepareEnds(r, w) PROVE FollowedNext
    <3>1. step[r] = "opening" /\ step'[r] \in {"opening", "finishing"} /\ UNCHANGED outcome
      BY <2>0, <2>2 DEF Req!PrepareEnds, Req!Goes, ReqTypeOK
    <3>2. PICK i, ending : prepared' = [prepared EXCEPT ![i] = ending] /\ happened' = [happened EXCEPT ![i] = ending]
      BY <2>2 DEF Req!PrepareEnds
    <3> QED BY <2>0, <3>1, <3>2 DEF ReqTypeOK
  <2>3. ASSUME NEW i \in Req!Paths, Req!finishDiagnostics(r, i) PROVE FollowedNext
    <3>1. /\ step[r] = "finishing" /\ outcome[i] = "none" /\ UNCHANGED prepared
          /\ step'[r] = IF \A j \in Req!Paths \ {i} : outcome[j] # "none" THEN "answered" ELSE "finishing"
      BY <2>0, <2>3 DEF Req!finishDiagnostics, Req!Goes, ReqTypeOK
    <3>2. PICK ending \in {"fulfilled", "rejected"} :
             /\ prepared[i] = "rejected" => ending = "rejected"
             /\ outcome' = [outcome EXCEPT ![i] = ending]
             /\ happened' = [happened EXCEPT ![i] = IF prepared[i] = "rejected" THEN happened[i] ELSE ending]
      BY <2>3 DEF Req!finishDiagnostics
    <3>3. happened[i] = prepared[i] /\ outcome'[i] = ending /\ happened'[i] = ending
      BY <2>0, <3>1, <3>2 DEF ReqTypeOK
    <3>4. \A j \in Req!Paths : j # i => outcome'[j] = outcome[j] /\ happened'[j] = happened[j]
      BY <2>0, <3>2 DEF ReqTypeOK
    <3>5. \A j \in Req!Paths : step'[r] = "answered" => outcome'[j] # "none"
      BY <3>1, <3>3, <3>4
    <3> QED BY <2>0, <3>1, <3>3, <3>4, <3>5
  <2> QED BY <2>1, <2>2, <2>3
<1>6. ReqTypeOK' /\ EntriesLoad' /\ OneOfAKind' /\ StepsOfKind' /\ AllNew'
  BY <1>1, <1>2, <1>3 DEF ReqInv, ReqTypeOK, EntriesLoad, OneOfAKind, StepsOfKind, AllNew
<1>8. ReadsLoad' /\ EntriesAfterRename' /\ Req!NoLinesFromBeforeRename'
  BY <1>1, <1>2 DEF ReqInv, ReadsLoad, EntriesAfterRename, Req!NoLinesFromBeforeRename, Asking
<1>7. PathsFollowed'
  BY <1>1, <1>4, <1>5 DEF PathsFollowed
<1> QED BY <1>6, <1>7, <1>8 DEF ReqInv

(* A load reads what is on disk now. *)
LEMMA ReqCache ==
  ASSUME ReqInv,
         \/ \E l \in DOMAIN load : Req!LoadReads(l) \/ Req!LoadEnds(l)
         \/ \E f \in Sources : Req!Evict(f)
  PROVE  ReqInv'
<1>1. UNCHANGED <<kind, step, want, joined, onDisk, editing, before, prepared, outcome, happened>>
  BY DEF Req!LoadReads, Req!LoadEnds, Req!Evict, Req!bulkVars, Req!renameVars
<1>2. OneOfAKind' /\ StepsOfKind' /\ AllNew' /\ PathsFollowed'
  BY <1>1 DEF ReqInv, OneOfAKind, StepsOfKind, AllNew, PathsFollowed
<1>3. ASSUME load' \in Seq(Texted), DOMAIN load' = DOMAIN load, DOMAIN entry' = Sources,
             \A f \in Sources : entry'[f] = entry[f] \/ entry'[f] = 0,
             \A l \in DOMAIN load : /\ load'[l].file = load[l].file
                                    /\ load'[l].text = load[l].text \/ load'[l].text = onDisk[Real[load[l].file]]
      PROVE  ReqInv'
  <2>1. ReqTypeOK' /\ EntriesLoad' /\ ReadsLoad'
    BY <1>1, <1>3 DEF ReqInv, ReqTypeOK, EntriesLoad, ReadsLoad
  <2>2. EntriesAfterRename'
    <3> SUFFICES ASSUME NEW r \in Handled, kind[r] = "rename", step[r] \in Forgotten, NEW p \in editing, entry'[p] # 0
                 PROVE  load'[entry'[p]].text # "old"
      BY <1>1 DEF EntriesAfterRename
    <3>1. p \in Sources /\ entry'[p] = entry[p]
      BY <1>3 DEF ReqInv, ReqTypeOK
    <3>2. entry[p] \in DOMAIN load /\ load[entry[p]].file = p /\ load[entry[p]].text # "old"
      BY <3>1 DEF ReqInv, EntriesLoad, EntriesAfterRename
    <3>3. onDisk[Real[p]] = "new"
      BY DEF ReqInv, AllNew
    <3> QED BY <1>3, <3>1, <3>2, <3>3
  <2>3. Req!NoLinesFromBeforeRename'
    <3> SUFFICES ASSUME NEW p \in Handled, kind[p] = "rename", step[p] \in Forgotten,
                        NEW q \in Handled, NEW i \in DOMAIN joined[q], i > before[q], want[q][i] \in editing
                 PROVE  load'[joined[q][i]].text # "old"
      BY <1>1 DEF Req!NoLinesFromBeforeRename, Forgotten
    <3>1. joined[q][i] \in DOMAIN load /\ load[joined[q][i]].file = want[q][i] /\ load[joined[q][i]].text # "old"
      BY DEF ReqInv, ReadsLoad, Req!NoLinesFromBeforeRename, Forgotten
    <3>2. onDisk[Real[want[q][i]]] = "new"
      BY DEF ReqInv, AllNew
    <3> QED BY <1>3, <3>1, <3>2
  <2> QED BY <1>2, <2>1, <2>2, <2>3 DEF ReqInv
<1>4. load \in Seq(Texted) /\ \A l \in DOMAIN load : load[l] \in Texted
  BY DEF ReqInv, ReqTypeOK
<1>5. ASSUME NEW l \in DOMAIN load, Req!LoadReads(l) PROVE ReqInv'
  <2> DEFINE read == [load[l] EXCEPT !.text = onDisk[Real[load[l].file]]]
  <2>1. load' = [load EXCEPT ![l] = read] /\ UNCHANGED entry
    BY <1>5 DEF Req!LoadReads
  <2>2. read \in Texted /\ read.file = load[l].file /\ read.text = onDisk[Real[load[l].file]]
    <3>1. load[l] \in Texted /\ Real[load[l].file] \in Req!Contents
      BY <1>4 DEF Texted, Req!Contents
    <3>2. onDisk[Real[load[l].file]] \in {"old", "new"}
      BY <3>1 DEF ReqInv, ReqTypeOK
    <3> QED BY <3>1, <3>2 DEF Texted
  <2> HIDE DEF read
  <2>3. load' \in Seq(Texted) /\ DOMAIN load' = DOMAIN load /\ \A m \in DOMAIN load : load'[m] = IF m = l THEN read ELSE load[m]
    BY <1>4, <2>1, <2>2
  <2> QED BY <1>3, <2>1, <2>2, <2>3 DEF ReqInv, ReqTypeOK
<1>6. ASSUME NEW l \in DOMAIN load, Req!LoadEnds(l) PROVE ReqInv'
  <2> DEFINE ended == [load[l] EXCEPT !.done = TRUE]
  <2>1. load' = [load EXCEPT ![l] = ended] /\ DOMAIN entry' = Sources /\ \A f \in Sources : entry'[f] = entry[f] \/ entry'[f] = 0
    BY <1>6 DEF Req!LoadEnds, ReqInv, ReqTypeOK
  <2>2. ended \in Texted /\ ended.file = load[l].file /\ ended.text = load[l].text
    BY <1>4 DEF Texted
  <2> HIDE DEF ended
  <2>3. load' \in Seq(Texted) /\ DOMAIN load' = DOMAIN load /\ \A m \in DOMAIN load : load'[m] = IF m = l THEN ended ELSE load[m]
    BY <1>4, <2>1, <2>2
  <2> QED BY <1>3, <2>1, <2>2, <2>3
<1>7. ASSUME NEW f \in Sources, Req!Evict(f) PROVE ReqInv'
  BY <1>3, <1>4, <1>7 DEF Req!Evict, ReqInv, ReqTypeOK
<1> QED BY <1>5, <1>6, <1>7

LEMMA ReqStep == ReqInv /\ [Req!Next]_theRequests => ReqInv'
<1> SUFFICES ASSUME ReqInv, [Req!Next]_theRequests PROVE ReqInv'
  OBVIOUS
<1>1. CASE UNCHANGED theRequests
  BY <1>1 DEF theRequests, ReqInv, ReqTypeOK, EntriesLoad, ReadsLoad, OneOfAKind, StepsOfKind, AllNew,
              EntriesAfterRename, PathsFollowed,
              Req!NoLinesFromBeforeRename
<1>2. ASSUME NEW r \in Handled,
             \/ Req!dispatch(r) \/ Req!prepareRequest(r) \/ Req!AskFails(r) \/ Req!handleHover(r) \/ Req!handleSymbols(r)
             \/ Req!handleLocationAction(r) \/ Req!handleCallHierarchy(r) \/ Req!handleReferences(r) \/ Req!ReadEnds(r)
             \/ Req!handleRename(r) \/ Req!Commit(r) \/ Req!Invalidate(r) \/ Req!Refreshed(r)
             \/ Req!handleDiagnostics(r) \/ (\E w \in Req!Workers : Req!PrepareEnds(r, w))
             \/ \E i \in Req!Paths : Req!finishDiagnostics(r, i)
      PROVE  ReqInv'
  <2>1. step[r] \in IF kind[r] = "rename" THEN RenameStates
                    ELSE IF kind[r] = "diagnostics" THEN DiagnosticsStates ELSE OtherStates
    BY DEF ReqInv, StepsOfKind
  <2>2. CASE kind[r] = "rename"
    <3>1. \/ Req!dispatch(r) \/ Req!prepareRequest(r) \/ Req!AskFails(r) \/ Req!handleRename(r) \/ Req!Commit(r) \/ Req!Invalidate(r) \/ Req!Refreshed(r)
      BY <1>2, <2>1, <2>2 DEF Req!handleHover, Req!handleSymbols, Req!handleLocationAction, Req!handleCallHierarchy,
         Req!handleReferences, Req!ReadEnds, Req!handleDiagnostics, Req!PrepareEnds, Req!finishDiagnostics, RenameStates
    <3> QED BY <2>2, <3>1, ReqRename
  <2>3. CASE kind[r] = "diagnostics"
    <3>1. \/ Req!handleDiagnostics(r) \/ (\E w \in Req!Workers : Req!PrepareEnds(r, w))
          \/ \E i \in Req!Paths : Req!finishDiagnostics(r, i)
      BY <1>2, <2>1, <2>3 DEF Req!dispatch, Req!prepareRequest, Req!AskFails, Req!handleHover, Req!handleSymbols,
         Req!handleLocationAction, Req!handleCallHierarchy, Req!handleReferences, Req!ReadEnds, Req!handleRename, Req!Commit, Req!Invalidate,
         Req!Refreshed, DiagnosticsStates
    <3> QED BY <2>3, <3>1, ReqDiagnostics
  <2>4. CASE kind[r] \notin {"rename", "diagnostics"}
    <3>1. \/ Req!dispatch(r) \/ Req!prepareRequest(r) \/ Req!AskFails(r) \/ Req!handleHover(r) \/ Req!handleSymbols(r)
          \/ Req!handleLocationAction(r) \/ Req!handleCallHierarchy(r) \/ Req!handleReferences(r) \/ Req!ReadEnds(r)
      BY <1>2, <2>1, <2>4 DEF Req!handleRename, Req!Commit, Req!Invalidate, Req!Refreshed, Req!handleDiagnostics, Req!PrepareEnds,
         Req!finishDiagnostics, OtherStates
    <3> QED BY <2>4, <3>1, ReqOthers
  <2> QED BY <2>2, <2>3, <2>4
<1> QED BY <1>1, <1>2, ReqCache DEF Req!Next

LEMMA ReqSeparate == ReqInv => Req!NoLinesFromBeforeRename /\ Req!EachPathItsOwnOutcome
<1> SUFFICES ASSUME ReqInv, NEW r \in Handled, kind[r] = "diagnostics", step[r] = "answered" PROVE outcome = happened
  BY DEF ReqInv, Req!EachPathItsOwnOutcome
<1> QED BY DEF ReqInv, ReqTypeOK, PathsFollowed

LEMMA ReqMove == [MC_Next]_<<focus, theDaemon, theBackend, theClient, theRequests, theEdit, theTexts, theCloseout, theCleanup>>
                      => [Req!Next]_theRequests
  BY DEF MC_Next

(* What a request asks to read after a rename has left the cache, under a path that   *)
(* was edited, it reads as new; and each path of a bulk request gets the outcome it    *)
(* had (handlers.ts, handleRename and handleDiagnostics; file-cache.ts).              *)
THEOREM RequestsStayApart == MC_Spec => []RequestsDoNotMix
<1>1. ReqInv => RequestsDoNotMix
  BY ReqSeparate DEF RequestsDoNotMix
<1>2. MC_Init => Req!Init
  BY DEF MC_Init
<1> QED BY <1>1, <1>2, ReqInit, ReqStep, ReqMove, PTL DEF MC_Spec

-----------------------------------------------------------------------------
(* WorkspaceEdit: what a file held until it was compared is the file until it is   *)
(* moved aside, and its backup from then on, unless it is put back or replaced.     *)
Before == {"parse", "authorize", "read", "stage", "compare"}
Made == {"tidy", "applied", "notRefreshed"}
EditStates == Before \cup Made \cup {"swap", "replace", "rollback", "failed", "incomplete", "dead"}
MovedAside == {backedUp[i] : i \in DOMAIN backedUp}

EditTypeOK ==
  /\ at \in EditStates /\ k \in 1..Len(Targets) /\ compared \subseteq Edit!Edited
  /\ backedUp \in Seq(Edit!Edited)
  /\ DOMAIN text = Edit!Edited /\ DOMAIN staged = Edit!Edited /\ DOMAIN aside = Edit!Edited
  /\ DOMAIN source = Edit!Edited
  /\ wrote \in [Edit!Edited -> {"never", "early", "late"}]
  /\ undone \in [Edit!Edited -> {"no", "removed", "rejected", "fulfilled"}]

(* How far the edit is. *)
Progress ==
  /\ at \in Before => MovedAside = {}
  /\ at = "swap" => MovedAside = {Targets[i] : i \in 1..(k - 1)}
  /\ at = "replace" => MovedAside = {Targets[i] : i \in 1..k}
  /\ at \in Made => MovedAside = Edit!Edited
  /\ at \in Before \ {"stage"} => k = 1
  /\ at \in Made \cup {"swap", "replace"} \/ MovedAside # {} => compared = Edit!Edited
  /\ at \in Before \ {"compare"} => compared = {}
  /\ \A f \in Edit!Edited : wrote[f] = "late" => f \in compared
  /\ \A f \in Edit!Edited : undone[f] # "no" => at \notin Before \cup {"swap", "replace", "tidy"} /\ f \in MovedAside

StagedFromSource ==
  /\ \A f \in Edit!Edited : "edit" \notin source[f]
  /\ at \in {"stage", "compare", "swap", "replace"} => \A f \in Edit!Edited : source[f] # Edit!Absent
  /\ \A i \in 1..Len(Targets) :
       (at = "stage" /\ i < k) \/ at = "compare" \/ (at \in {"swap", "replace"} /\ i >= k) =>
         staged[Targets[i]] = source[Targets[i]] \cup {"edit"}

KeptIn(f, t) == t # Edit!Absent /\ ("theirs" \in t <=> wrote[f] = "early")

InPlace(f) == /\ KeptIn(f, text[f]) /\ "edit" \notin text[f]
              /\ f \in compared => text[f] = source[f]

BackedUp(f) ==
  /\ KeptIn(f, source[f])
  /\ aside[f] = source[f] \/ text[f] \in {source[f], source[f] \cup {"edit"}}
  /\ at \in Made \cup {"swap", "replace"} /\ ~(at = "replace" /\ f = Targets[k]) => text[f] = source[f] \cup {"edit"}
  /\ at \in {"swap", "replace", "tidy"} => aside[f] = source[f]
  /\ at = "rollback" => IF undone[f] = "fulfilled" THEN text[f] = source[f] ELSE aside[f] = source[f]
  /\ at = "failed" => text[f] = source[f]

FilesKept == \A f \in Edit!Edited : wrote[f] # "late" => IF f \in MovedAside THEN BackedUp(f) ELSE InPlace(f)

EditInv == EditTypeOK /\ Progress /\ StagedFromSource /\ FilesKept

LEMMA EditedFiles == /\ Edit!Edited = {Targets[i] : i \in 1..Len(Targets)}
                     /\ Len(Targets) \in Nat \ {0}
                     /\ \A i, j \in 1..Len(Targets) : Targets[i] = Targets[j] => i = j
                     /\ \A f \in Edit!Edited : \E i \in 1..Len(Targets) : f = Targets[i]
                     /\ \A i \in 1..Len(Targets) : Targets[i] \in Edit!Edited
  BY TargetsAssumption DEF Edit!Edited, Edit!ToSet

LEMMA EditInit == Edit!Init => EditInv
<1> SUFFICES ASSUME Edit!Init PROVE EditInv
  OBVIOUS
<1> USE EditedFiles DEF Edit!Init
<1>1. EditTypeOK /\ MovedAside = {}
  BY DEF EditTypeOK, EditStates, Before, MovedAside
<1>2. Progress /\ StagedFromSource
  BY <1>1 DEF Progress, StagedFromSource, Before, Made, Edit!Absent
<1>3. FilesKept
  BY <1>1 DEF FilesKept, InPlace, KeptIn, Edit!Absent
<1> QED BY <1>1, <1>2, <1>3 DEF EditInv

(* What only moves the edit on before anything is moved aside. *)
LEMMA EditBefore ==
  ASSUME EditInv, Edit!Parse \/ Edit!Authorize
  PROVE  EditInv'
<1>1. /\ at \in {"parse", "authorize"} /\ at' \in {"authorize", "read", "failed"}
      /\ UNCHANGED <<text, staged, aside, source, compared, backedUp, undone, k, wrote>>
  BY DEF Edit!Parse, Edit!Authorize
<1>2. MovedAside = {} /\ MovedAside' = {} /\ k = 1 /\ \A f \in Edit!Edited : undone[f] = "no"
  BY <1>1 DEF EditInv, Progress, Before, MovedAside
<1>3. EditTypeOK' /\ Progress'
  BY <1>1, <1>2 DEF EditInv, EditTypeOK, Progress, Before, Made, EditStates
<1>4. StagedFromSource' /\ FilesKept'
  BY <1>1, <1>2 DEF EditInv, StagedFromSource, FilesKept, InPlace, KeptIn
<1> QED BY <1>3, <1>4 DEF EditInv

LEMMA EditRead == ASSUME EditInv, NEW f \in Edit!Edited, Edit!Read(f) PROVE EditInv'
<1>1. /\ at = "read" /\ UNCHANGED <<text, staged, aside, compared, backedUp, undone, k, wrote>>
      /\ source[f] = Edit!Absent /\ at' \in {"read", "stage", "failed"}
      /\ source' = [source EXCEPT ![f] = text[f]] \/ (source' = source /\ at' = "failed")
      /\ at' = "stage" => \A g \in Edit!Edited \ {f} : source[g] # Edit!Absent
      /\ at' = "stage" => text[f] # Edit!Absent /\ source' = [source EXCEPT ![f] = text[f]]
  BY DEF Edit!Read
<1>2. MovedAside = {} /\ MovedAside' = {} /\ k = 1 /\ \A g \in Edit!Edited : undone[g] = "no"
  BY <1>1 DEF EditInv, Progress, Before, MovedAside
<1>3. EditTypeOK' /\ Progress'
  BY <1>1, <1>2 DEF EditInv, EditTypeOK, Progress, Before, Made, EditStates
<1>4. compared = {} /\ \A g \in Edit!Edited : InPlace(g) /\ wrote[g] # "late"
  BY <1>1, <1>2 DEF EditInv, Progress, FilesKept, Before
<1>5. \A g \in Edit!Edited : source'[g] = source[g] \/ source'[g] = text[g]
  BY <1>1 DEF EditInv, EditTypeOK
<1>6. at' = "stage" => \A g \in Edit!Edited : source'[g] # Edit!Absent
  BY <1>1 DEF EditInv, EditTypeOK
<1>7. StagedFromSource'
  BY <1>1, <1>2, <1>4, <1>5, <1>6 DEF EditInv, StagedFromSource, InPlace
<1>8. FilesKept'
  BY <1>1, <1>2, <1>4 DEF FilesKept, InPlace, KeptIn
<1> QED BY <1>3, <1>7, <1>8 DEF EditInv

LEMMA EditMayRemain ==
  ASSUME NEW s, NEW t \in Edit!MayRemain(s)
  PROVE  DOMAIN t = Edit!Edited /\ \A f \in Edit!Edited : t[f] \in {Edit!Absent, s[f]}
  BY DEF Edit!MayRemain

LEMMA EditDiscard ==
  ASSUME EditInv, at \in {"stage", "compare"}, Edit!Discard,
         UNCHANGED <<text, aside, source, compared, backedUp, undone, k, wrote>>
  PROVE  EditInv'
<1>1. DOMAIN staged' = Edit!Edited /\ at' = "failed"
  BY EditMayRemain DEF Edit!Discard
<1>2. MovedAside = {} /\ MovedAside' = {}
  BY DEF EditInv, Progress, Before, MovedAside
<1>3. EditTypeOK' /\ Progress'
  BY <1>1, <1>2 DEF EditInv, EditTypeOK, Progress, Before, Made, EditStates
<1>4. StagedFromSource' /\ FilesKept'
  BY <1>1, <1>2 DEF EditInv, StagedFromSource, FilesKept, InPlace, KeptIn
<1> QED BY <1>3, <1>4 DEF EditInv

LEMMA EditStage == ASSUME EditInv, Edit!Stage PROVE EditInv'
<1>1. CASE Edit!Discard /\ UNCHANGED k
  BY <1>1, EditDiscard DEF Edit!Stage
<1>2. CASE ~(Edit!Discard /\ UNCHANGED k)
  <2>1. /\ at = "stage" /\ staged' = [staged EXCEPT ![Targets[k]] = source[Targets[k]] \cup {"edit"}]
        /\ k' = IF k = Len(Targets) THEN 1 ELSE k + 1
        /\ at' = IF k = Len(Targets) THEN "compare" ELSE "stage"
        /\ UNCHANGED <<text, aside, source, compared, backedUp, undone, wrote>>
    BY <1>2 DEF Edit!Stage
  <2>2. MovedAside = {} /\ MovedAside' = {} /\ \A g \in Edit!Edited : undone[g] = "no"
    BY <2>1 DEF EditInv, Progress, Before, MovedAside
  <2>3. k \in 1..Len(Targets) /\ Len(Targets) \in Nat \ {0} /\ k' \in 1..Len(Targets)
    BY <2>1, EditedFiles DEF EditInv, EditTypeOK
  <2>4. EditTypeOK' /\ Progress'
    BY <2>1, <2>2, <2>3 DEF EditInv, EditTypeOK, Progress, Before, Made, EditStates
  <2>5. \A i \in 1..Len(Targets) : staged'[Targets[i]] = IF i = k THEN source[Targets[i]] \cup {"edit"} ELSE staged[Targets[i]]
    BY <2>1, <2>3, EditedFiles DEF EditInv, EditTypeOK
  <2>6. StagedFromSource'
    <3>1. \A f \in Edit!Edited : "edit" \notin source[f] /\ source[f] # Edit!Absent
      BY <2>1 DEF EditInv, StagedFromSource
    <3>2. \A i \in 1..Len(Targets) : i <= k => staged'[Targets[i]] = source[Targets[i]] \cup {"edit"}
      <4>1. \A i \in 1..Len(Targets) : i < k => staged[Targets[i]] = source[Targets[i]] \cup {"edit"}
        BY <2>1 DEF EditInv, StagedFromSource
      <4>2. \A i \in 1..Len(Targets) : i <= k => i = k \/ i < k
        BY <2>3
      <4> QED BY <2>5, <4>1, <4>2
    <3>3. \A i \in 1..Len(Targets) : at' = "compare" \/ i < k' => i <= k
      BY <2>1, <2>3
    <3> QED BY <2>1, <3>1, <3>2, <3>3 DEF StagedFromSource
  <2>7. FilesKept'
    BY <2>1, <2>2 DEF EditInv, FilesKept, InPlace, KeptIn
  <2> QED BY <2>4, <2>6, <2>7 DEF EditInv
<1> QED BY <1>1, <1>2

LEMMA EditCompare == ASSUME EditInv, NEW f \in Edit!Edited, Edit!Compare(f) PROVE EditInv'
<1>1. CASE text[f] = source[f]
  <2>1. /\ at = "compare" /\ compared' = compared \cup {f} /\ UNCHANGED staged
        /\ at' = IF compared' = Edit!Edited THEN "swap" ELSE "compare"
        /\ UNCHANGED <<text, aside, source, backedUp, undone, k, wrote>>
    BY <1>1 DEF Edit!Compare
  <2>2. MovedAside = {} /\ MovedAside' = {} /\ k = 1 /\ \A g \in Edit!Edited : undone[g] = "no"
    BY <2>1 DEF EditInv, Progress, Before, MovedAside
  <2>3. EditTypeOK' /\ Progress'
    BY <2>1, <2>2, EditedFiles DEF EditInv, EditTypeOK, Progress, Before, Made, EditStates
  <2>4. StagedFromSource' /\ FilesKept'
    BY <1>1, <2>1, <2>2 DEF EditInv, StagedFromSource, FilesKept, InPlace, KeptIn
  <2> QED BY <2>3, <2>4 DEF EditInv
<1>2. CASE text[f] # source[f]
  BY <1>2, EditDiscard DEF Edit!Compare
<1> QED BY <1>1, <1>2

LEMMA EditMoveAside == ASSUME EditInv, Edit!MoveAside PROVE EditInv'
<1> DEFINE t == Targets[k]
<1>0. /\ at = "swap" /\ k \in 1..Len(Targets) /\ t \in Edit!Edited /\ compared = Edit!Edited
      /\ MovedAside = {Targets[i] : i \in 1..(k - 1)} /\ t \notin MovedAside
  <2>1. at = "swap" /\ k \in 1..Len(Targets) /\ t \in Edit!Edited /\ compared = Edit!Edited
    BY EditedFiles DEF EditInv, EditTypeOK, Progress, Edit!MoveAside
  <2>2. MovedAside = {Targets[i] : i \in 1..(k - 1)}
    BY <2>1 DEF EditInv, Progress
  <2>3. \A i \in 1..(k - 1) : i \in 1..Len(Targets) /\ i # k
    BY <2>1, EditedFiles
  <2>4. \A i \in 1..(k - 1) : Targets[i] # t
    BY <2>1, <2>3, EditedFiles
  <2> QED BY <2>1, <2>2, <2>4
<1>1. CASE at' = "replace"
  <2>1. /\ aside' = [aside EXCEPT ![t] = text[t]] /\ text' = [text EXCEPT ![t] = Edit!Absent]
        /\ backedUp' = Append(backedUp, t) /\ UNCHANGED <<staged, source, compared, undone, k, wrote>>
    BY <1>1 DEF Edit!MoveAside
  <2>2. MovedAside' = MovedAside \cup {t} /\ backedUp' \in Seq(Edit!Edited)
    <3>1. backedUp \in Seq(Edit!Edited)
      BY DEF EditInv, EditTypeOK
    <3> QED BY <1>0, <2>1, <3>1 DEF MovedAside
  <2>3. MovedAside' = {Targets[i] : i \in 1..k}
    BY <1>0, <2>2
  <2>4. EditTypeOK' /\ Progress'
    BY <1>0, <1>1, <2>1, <2>2, <2>3 DEF EditInv, EditTypeOK, Progress, Before, Made, EditStates
  <2>5. StagedFromSource'
    BY <1>0, <1>1, <2>1 DEF EditInv, StagedFromSource
  <2>6. ASSUME NEW f \in Edit!Edited, wrote'[f] # "late"
        PROVE  IF f \in MovedAside' THEN BackedUp(f)' ELSE InPlace(f)'
    <3>1. CASE f = t
      <4>1. InPlace(t) /\ text[t] = source[t]
        BY <1>0, <2>1, <2>6, <3>1 DEF EditInv, FilesKept, InPlace
      <4>2. aside'[t] = source[t] /\ KeptIn(t, source[t])'
        BY <1>0, <2>1, <4>1 DEF EditInv, EditTypeOK, InPlace, KeptIn
      <4> QED BY <1>0, <1>1, <2>1, <2>2, <3>1, <4>2 DEF BackedUp, Made
    <3>2. CASE f # t
      <4>1. aside'[f] = aside[f] /\ text'[f] = text[f] /\ (f \in MovedAside' <=> f \in MovedAside)
        BY <2>1, <2>2, <3>2 DEF EditInv, EditTypeOK
      <4> QED BY <1>0, <1>1, <2>1, <2>6, <4>1 DEF EditInv, FilesKept, BackedUp, InPlace, KeptIn, Made
    <3> QED BY <3>1, <3>2
  <2> QED BY <2>4, <2>5, <2>6 DEF EditInv, FilesKept
<1>2. CASE at' = "rollback" /\ UNCHANGED <<text, aside, backedUp, staged, source, compared, undone, k, wrote>>
  <2>1. MovedAside' = MovedAside /\ \A f \in Edit!Edited : undone[f] = "no"
    BY <1>0, <1>2 DEF MovedAside, EditInv, Progress
  <2>2. EditTypeOK' /\ Progress'
    BY <1>0, <1>2, <2>1 DEF EditInv, EditTypeOK, Progress, Before, Made, EditStates
  <2>3. StagedFromSource' /\ FilesKept'
    BY <1>0, <1>2, <2>1 DEF EditInv, StagedFromSource, FilesKept, InPlace, BackedUp, KeptIn, Made
  <2> QED BY <2>2, <2>3 DEF EditInv
<1> QED BY <1>1, <1>2 DEF Edit!MoveAside

LEMMA EditReplace == ASSUME EditInv, Edit!Replace PROVE EditInv'
<1> DEFINE t == Targets[k]
<1>0. /\ at = "replace" /\ k \in 1..Len(Targets) /\ t \in Edit!Edited /\ compared = Edit!Edited
      /\ MovedAside = {Targets[i] : i \in 1..k} /\ t \in MovedAside /\ \A f \in Edit!Edited : undone[f] = "no"
      /\ UNCHANGED <<aside, source, compared, backedUp, undone, wrote>> /\ Len(Targets) \in Nat
  <2>1. /\ at = "replace" /\ k \in 1..Len(Targets) /\ t \in Edit!Edited /\ Len(Targets) \in Nat
        /\ UNCHANGED <<aside, source, compared, backedUp, undone, wrote>>
    BY EditedFiles DEF EditInv, EditTypeOK, Edit!Replace
  <2>2. MovedAside = {Targets[i] : i \in 1..k} /\ compared = Edit!Edited /\ \A f \in Edit!Edited : undone[f] = "no"
    BY <2>1 DEF EditInv, Progress
  <2>3. k \in 1..k
    BY <2>1
  <2>4. t \in MovedAside
    BY <2>2, <2>3
  <2> QED BY <2>1, <2>2, <2>4
<1>1. MovedAside' = MovedAside
  BY <1>0 DEF MovedAside
<1>2. CASE at' = "rollback" /\ UNCHANGED <<text, staged, k>>
  <2>2. EditTypeOK' /\ Progress'
    BY <1>0, <1>1, <1>2 DEF EditInv, EditTypeOK, Progress, Before, Made, EditStates
  <2>3. StagedFromSource' /\ FilesKept'
    BY <1>0, <1>1, <1>2 DEF EditInv, StagedFromSource, FilesKept, InPlace, BackedUp, KeptIn, Made
  <2> QED BY <2>2, <2>3 DEF EditInv
<1>3. CASE ~(at' = "rollback" /\ UNCHANGED <<text, staged, k>>)
  <2>1. /\ text' = [text EXCEPT ![t] = staged[t]] /\ staged' = [staged EXCEPT ![t] = Edit!Absent]
        /\ k' = IF k = Len(Targets) THEN k ELSE k + 1
        /\ at' = IF k = Len(Targets) THEN "tidy" ELSE "swap"
    BY <1>3 DEF Edit!Replace
  <2>2. staged[t] = source[t] \cup {"edit"}
    BY <1>0 DEF EditInv, StagedFromSource
  <2>3. k' \in 1..Len(Targets) /\ (at' = "swap" => k' = k + 1) /\ (at' = "tidy" => k = Len(Targets))
    BY <1>0, <2>1
  <2>4. at' = "tidy" => MovedAside' = Edit!Edited
    BY <1>0, <1>1, <2>3, EditedFiles
  <2>5. EditTypeOK'
    BY <1>0, <2>1, <2>3 DEF EditInv, EditTypeOK, EditStates, Made
  <2>6. at' = "swap" => MovedAside' = {Targets[i] : i \in 1..(k' - 1)}
    BY <1>0, <1>1, <2>3
  <2>7. Progress'
    BY <1>0, <2>1, <2>4, <2>6 DEF EditInv, Progress, Before, Made
  <2>8. StagedFromSource'
    <3>1. \A i \in 1..Len(Targets) : i # k => staged'[Targets[i]] = staged[Targets[i]]
      BY <1>0, <2>1, EditedFiles DEF EditInv, EditTypeOK
    <3> QED BY <1>0, <2>1, <2>3, <3>1 DEF EditInv, StagedFromSource
  <2>9. ASSUME NEW f \in Edit!Edited, wrote'[f] # "late"
        PROVE  IF f \in MovedAside' THEN BackedUp(f)' ELSE InPlace(f)'
    <3>1. text'[f] = IF f = t THEN source[f] \cup {"edit"} ELSE text[f]
      BY <2>1, <2>2 DEF EditInv, EditTypeOK
    <3> QED BY <1>0, <1>1, <2>1, <2>9, <3>1 DEF EditInv, FilesKept, BackedUp, InPlace, KeptIn, Made
  <2> QED BY <2>5, <2>7, <2>8, <2>9 DEF EditInv, FilesKept
<1> QED BY <1>2, <1>3

LEMMA EditTidy == ASSUME EditInv, Edit!Tidy PROVE EditInv'
<1>1. /\ at = "tidy" /\ at' \in {"applied", "notRefreshed"} /\ DOMAIN aside' = Edit!Edited
      /\ UNCHANGED <<text, staged, source, compared, backedUp, undone, k, wrote>>
  BY EditMayRemain DEF Edit!Tidy
<1>2. MovedAside = Edit!Edited /\ MovedAside' = Edit!Edited
  BY <1>1 DEF EditInv, Progress, Made, MovedAside
<1>3. EditTypeOK' /\ Progress'
  BY <1>1, <1>2 DEF EditInv, EditTypeOK, Progress, Before, Made, EditStates
<1>4. StagedFromSource' /\ FilesKept'
  BY <1>1, <1>2 DEF EditInv, StagedFromSource, FilesKept, BackedUp, KeptIn, Made
<1> QED BY <1>3, <1>4 DEF EditInv

LEMMA EditRollback ==
  ASSUME EditInv, Edit!RolledBack \/ \E f \in Edit!Edited : Edit!RemoveNew(f) \/ Edit!Restore(f)
  PROVE  EditInv'
<1>1. ASSUME NEW f \in Edit!Edited, Edit!RemoveNew(f) \/ Edit!Restore(f) PROVE EditInv'
  <2>1. /\ at = "rollback" /\ UNCHANGED <<staged, source, compared, backedUp, k, at, wrote>>
        /\ \E u \in {"removed", "rejected", "fulfilled"} :
             /\ undone' = [undone EXCEPT ![f] = u]
             /\ u # "fulfilled" => UNCHANGED aside /\ text' \in {text, [text EXCEPT ![f] = Edit!Absent]} /\ undone[f] \in {"no", "removed"}
             /\ u = "fulfilled" => /\ text' = [text EXCEPT ![f] = aside[f]] /\ aside' = [aside EXCEPT ![f] = Edit!Absent]
                                   /\ undone[f] = "removed"
    BY <1>1 DEF Edit!RemoveNew, Edit!Restore
  <2>2. MovedAside' = MovedAside
    BY <2>1 DEF MovedAside
  <2>3. EditTypeOK' /\ Progress'
    <3>1. f \in MovedAside
      BY <1>1 DEF Edit!RemoveNew, Edit!Restore, Edit!ToSet, MovedAside, EditInv, Progress
    <3> QED BY <2>1, <2>2, <3>1 DEF EditInv, EditTypeOK, Progress, Before, Made
  <2>4. StagedFromSource'
    BY <2>1 DEF EditInv, StagedFromSource
  <2>5. f \in MovedAside
    BY <1>1 DEF Edit!RemoveNew, Edit!Restore, Edit!ToSet, MovedAside, EditInv, Progress
  <2>6. ASSUME NEW g \in Edit!Edited, wrote'[g] # "late"
        PROVE  IF g \in MovedAside' THEN BackedUp(g)' ELSE InPlace(g)'
    <3>1. CASE g = f
      <4>1. BackedUp(f)
        BY <2>1, <2>5, <2>6, <3>1 DEF EditInv, FilesKept
      <4>2. BackedUp(f)'
        BY <2>1, <4>1 DEF EditInv, EditTypeOK, BackedUp, KeptIn, Made
      <4> QED BY <2>2, <2>5, <3>1, <4>2
    <3>2. CASE g # f
      <4>1. text'[g] = text[g] /\ aside'[g] = aside[g] /\ undone'[g] = undone[g]
        BY <2>1, <3>2 DEF EditInv, EditTypeOK
      <4> QED BY <2>1, <2>2, <2>6, <4>1 DEF EditInv, FilesKept, BackedUp, InPlace, KeptIn
    <3> QED BY <3>1, <3>2
  <2> QED BY <2>3, <2>4, <2>6 DEF EditInv, FilesKept
<1>2. CASE Edit!RolledBack
  <2>1. /\ at = "rollback" /\ DOMAIN staged' = Edit!Edited /\ at' \in {"incomplete", "failed"}
        /\ UNCHANGED <<text, aside, source, compared, backedUp, undone, k, wrote>>
        /\ at' = "failed" => \A f \in MovedAside : undone[f] = "fulfilled"
    BY <1>2, EditMayRemain DEF Edit!RolledBack, Edit!ToSet, MovedAside, EditInv, EditTypeOK
  <2>2. MovedAside' = MovedAside
    BY <2>1 DEF MovedAside
  <2>3. EditTypeOK' /\ Progress'
    BY <2>1, <2>2 DEF EditInv, EditTypeOK, Progress, Before, Made, EditStates
  <2>4. StagedFromSource' /\ FilesKept'
    BY <2>1, <2>2 DEF EditInv, StagedFromSource, FilesKept, BackedUp, InPlace, KeptIn, Made
  <2> QED BY <2>3, <2>4 DEF EditInv
<1> QED BY <1>1, <1>2

LEMMA EditOthers ==
  ASSUME EditInv, Edit!Crash \/ \E f \in Edit!Edited : Edit!WrittenByOther(f)
  PROVE  EditInv'
<1>1. CASE Edit!Crash
  <2>1. /\ at \notin Edit!Over /\ at' = "dead" /\ UNCHANGED <<text, staged, aside, source, compared, backedUp, undone, k, wrote>>
    BY <1>1 DEF Edit!Crash
  <2>2. MovedAside' = MovedAside
    BY <2>1 DEF MovedAside
  <2>3. EditTypeOK' /\ Progress'
    BY <2>1, <2>2 DEF EditInv, EditTypeOK, Progress, Before, Made, EditStates
  <2>4. StagedFromSource' /\ FilesKept'
    BY <2>1, <2>2 DEF EditInv, StagedFromSource, FilesKept, BackedUp, InPlace, KeptIn, Made
  <2> QED BY <2>3, <2>4 DEF EditInv
<1>2. ASSUME NEW f \in Edit!Edited, Edit!WrittenByOther(f) PROVE EditInv'
  <2>1. /\ wrote[f] = "never" /\ UNCHANGED <<staged, aside, source, compared, backedUp, undone, k, at>>
        /\ text' = [text EXCEPT ![f] = IF text[f] = Edit!Absent THEN {"theirs"} ELSE text[f] \cup {"theirs"}]
        /\ wrote' = [wrote EXCEPT ![f] = IF f \in compared THEN "late" ELSE "early"]
    BY <1>2 DEF Edit!WrittenByOther
  <2>2. MovedAside' = MovedAside
    BY <2>1 DEF MovedAside
  <2>3. EditTypeOK' /\ Progress'
    BY <2>1, <2>2 DEF EditInv, EditTypeOK, Progress
  <2>4. StagedFromSource'
    BY <2>1 DEF EditInv, StagedFromSource
  <2>5. ASSUME NEW g \in Edit!Edited, wrote'[g] # "late"
        PROVE  IF g \in MovedAside' THEN BackedUp(g)' ELSE InPlace(g)'
    <3>1. CASE g = f
      <4>1. f \notin compared /\ f \notin MovedAside /\ InPlace(f)
        BY <2>1, <2>5, <3>1 DEF EditInv, EditTypeOK, Progress, FilesKept
      <4>2. text'[f] = text[f] \cup {"theirs"} /\ wrote'[f] = "early"
        BY <2>1, <4>1 DEF EditInv, EditTypeOK, InPlace, KeptIn
      <4>3. text'[f] # Edit!Absent
        BY <4>2 DEF Edit!Absent
      <4> QED BY <2>1, <2>2, <3>1, <4>1, <4>2, <4>3 DEF InPlace, KeptIn
    <3>2. CASE g # f
      <4>1. text'[g] = text[g] /\ wrote'[g] = wrote[g]
        BY <2>1, <3>2 DEF EditInv, EditTypeOK
      <4> QED BY <2>1, <2>2, <2>5, <4>1 DEF EditInv, FilesKept, BackedUp, InPlace, KeptIn
    <3> QED BY <3>1, <3>2
  <2> QED BY <2>3, <2>4, <2>5 DEF EditInv, FilesKept
<1> QED BY <1>1, <1>2

LEMMA EditStep == EditInv /\ [Edit!Next]_theEdit => EditInv'
<1>1. ASSUME EditInv, UNCHANGED theEdit PROVE EditInv'
  <2>1. MovedAside' = MovedAside
    BY <1>1 DEF theEdit, MovedAside
  <2>2. EditTypeOK' /\ Progress' /\ StagedFromSource'
    BY <1>1, <2>1 DEF theEdit, EditInv, EditTypeOK, Progress, StagedFromSource
  <2>3. FilesKept'
    BY <1>1, <2>1 DEF theEdit, EditInv, FilesKept, InPlace, BackedUp, KeptIn
  <2> QED BY <2>2, <2>3 DEF EditInv
<1>2. ASSUME EditInv, Edit!Next PROVE EditInv'
  BY <1>2, EditBefore, EditRead, EditStage, EditCompare, EditMoveAside, EditReplace, EditTidy, EditRollback, EditOthers
  DEF Edit!Next
<1> QED BY <1>1, <1>2

LEMMA EditKeeps == EditInv => Edit!AllOrNothing
<1> SUFFICES ASSUME EditInv, NEW f \in Edit!Edited, wrote[f] # "late"
             PROVE  /\ KeptIn(f, text[f]) \/ KeptIn(f, aside[f])
                    /\ at \in {"applied", "notRefreshed"} => KeptIn(f, text[f]) /\ "edit" \in text[f]
                    /\ at = "failed" => KeptIn(f, text[f]) /\ "edit" \notin text[f]
  BY DEF Edit!AllOrNothing, KeptIn
<1>1. KeptIn(f, source[f]) => KeptIn(f, source[f] \cup {"edit"})
  BY DEF KeptIn, Edit!Absent
<1>2. "edit" \notin source[f] /\ (at \in Made => MovedAside = Edit!Edited)
  BY DEF EditInv, StagedFromSource, Progress
<1> QED BY <1>1, <1>2 DEF EditInv, FilesKept, BackedUp, InPlace, Made

LEMMA EditMove == [MC_Next]_<<focus, theDaemon, theBackend, theClient, theRequests, theEdit, theTexts, theCloseout, theCleanup>>
                      => [Edit!Next]_theEdit
  BY DEF MC_Next

(* What a file held when it was compared is never lost, wherever the edit stops; one  *)
(* that is said to be applied is in every file, one that failed in none.  A crash or   *)
(* a rollback that fails may leave it in some, and who writes a file after it was       *)
(* compared is promised nothing (workspace-edit.ts, replaceWorkspaceFiles).             *)
THEOREM EditsAreAtomic == MC_Spec => []EditsAreWhole
<1>1. EditInv => EditsAreWhole
  BY EditKeeps DEF EditsAreWhole
<1>2. MC_Init => Edit!Init
  BY DEF MC_Init
<1> QED BY <1>1, <1>2, EditInit, EditStep, EditMove, PTL DEF MC_Spec

-----------------------------------------------------------------------------
(* Cleanup: nothing is deleted before all is classified, and no worktree that was  *)
(* listed has commits off its branch from before.                                *)
CleanTypeOK == /\ plan \in [Branches -> {"none", "safe", "needs-force", "skipped"}]
               /\ gone \subseteq Branches /\ trees \subseteq Branches /\ detached \subseteq trees

Classified == /\ cleaning \in {"fetch", "list", "classify", "worktrees"} => gone = {}
              /\ \A b \in Branches : plan[b] \in {"safe", "needs-force"} => b \notin ProtectedBranches

StrayUnlisted == /\ stray \subseteq detached /\ stray \cap listedTrees = {}
                 /\ cleaning \in {"fetch", "list"} => listedTrees = {}

CleanInv == CleanTypeOK /\ Classified /\ StrayUnlisted /\ Clean!CleanupKeepsWork

LEMMA CleanInit == Clean!Init => CleanInv
  BY DEF Clean!Init, CleanInv, CleanTypeOK, Classified, StrayUnlisted, Clean!CleanupKeepsWork

LEMMA CleanStep == CleanInv /\ [Clean!Next]_theCleanup => CleanInv'
<1> SUFFICES ASSUME CleanInv, [Clean!Next]_theCleanup PROVE CleanInv'
  OBVIOUS
<1> USE DEF CleanInv, CleanTypeOK, Classified, StrayUnlisted, Clean!CleanupKeepsWork, Clean!Kept, Clean!refs, Clean!work,
        Clean!planned
<1>1. CASE UNCHANGED theCleanup
  BY <1>1 DEF theCleanup
<1>2. CASE Clean!fetch
  BY <1>2 DEF Clean!fetch
<1>3. CASE Clean!listWorktrees
  BY <1>3 DEF Clean!listWorktrees
<1>4. ASSUME NEW b \in Branches, Clean!classifyTarget(b) PROVE CleanInv'
  BY <1>4 DEF Clean!classifyTarget, Clean!mergeState
<1>5. ASSUME NEW b \in Branches, Clean!removeWorktree(b) PROVE CleanInv'
  BY <1>5 DEF Clean!removeWorktree, Clean!Removable, Clean!Fails, Clean!Settles
<1>6. ASSUME NEW b \in Branches, Clean!deleteBranch(b) PROVE CleanInv'
  BY <1>6 DEF Clean!deleteBranch, Clean!Removable, Clean!GitDeletes, Clean!Fails, Clean!Settles
<1>7. CASE Clean!worktreesRemoved \/ Clean!done
  BY <1>7 DEF Clean!worktreesRemoved, Clean!done
<1>8. ASSUME NEW b \in Branches, Clean!Commit(b) \/ Clean!Push(b) PROVE CleanInv'
  BY <1>8 DEF Clean!Commit, Clean!Push, Clean!Others
<1>9. ASSUME NEW b \in Branches, Clean!Edit(b) \/ Clean!Detach(b) PROVE CleanInv'
  BY <1>9 DEF Clean!Edit, Clean!Detach, Clean!Others
<1>10. ASSUME NEW b \in Branches, Clean!CommitDetached(b) \/ Clean!TakeTree(b) PROVE CleanInv'
  BY <1>10 DEF Clean!CommitDetached, Clean!TakeTree, Clean!Others
<1> QED BY <1>1, <1>2, <1>3, <1>4, <1>5, <1>6, <1>7, <1>8, <1>9, <1>10 DEF Clean!Next, Clean!applyCleanupPlan

-----------------------------------------------------------------------------
(* Closeout: whoever is between the lock and the end holds it, unless it was     *)
(* overtaken; the base is up to date before the worktree and the branch go;      *)
(* edits keep the worktree, and commits off the branch let nobody pass the last  *)
(* look at it.                                                                  *)
Steps == {"start", "lock", "worktrees", "base", "head", "fetch", "ancestors", "reverify", "merge",
          "removeTree", "deleteHead", "closed", "failed"}

CloseTypeOK == /\ closeStep \in [Closeouts -> Steps]
               /\ sawTree \in [Closeouts -> BOOLEAN] /\ sawHead \in [Closeouts -> BOOLEAN]

UnderLock ==
  \A c \in Closeouts :
    /\ closeStep[c] \in Close!Locking => overtaken \/ holder = c
    /\ closeStep[c] \notin {"start", "failed"} => pr = "merged"
    /\ closeStep[c] \in {"removeTree", "deleteHead", "closed"} => base = "equal"

EditsInTree ==
  /\ "edit" \in worked => "head" \in edited
  /\ "stray" \in worked => tree = "detached" /\ \A c \in Closeouts : ~Close!LookedLast(c)

CloseInv == CloseTypeOK /\ UnderLock /\ EditsInTree /\ Close!WorkSurvives

LEMMA CloseInit == Close!Init => CloseInv
  BY DEF Close!Init, CloseInv, CloseTypeOK, UnderLock, EditsInTree, Close!WorkSurvives, Steps, Close!Locking,
         Close!LookedLast

(* Every step of a closeout either goes on to the next step or ends and unlocks. *)
LEMMA CloseoutStep ==
  ASSUME CloseInv, NEW c \in Closeouts,
         \/ Close!resolvePullRequest(c) \/ Close!acquireCloseoutLock(c) \/ Close!findWorktrees(c)
         \/ Close!verifyBase(c) \/ Close!verifyLocalHead(c) \/ Close!fetchPrune(c) \/ Close!verifyAncestors(c)
         \/ Close!reverifyHead(c) \/ Close!mergeBase(c) \/ Close!removeWorktree(c) \/ Close!deleteHeadBranch(c)
  PROVE  CloseInv'
<1> USE CloseoutAssumption DEF CloseInv, CloseTypeOK, UnderLock, EditsInTree, Close!WorkSurvives, Close!Ends, Close!Continues,
        Close!OrFails, Close!Ensure, Steps, Close!repo, Close!lock, Close!Locking, Close!LookedLast
<1>1. CASE Close!resolvePullRequest(c)
  BY <1>1 DEF Close!resolvePullRequest
<1>2. CASE Close!acquireCloseoutLock(c)
  <2>1. CASE Close!Ends(c, "failed") /\ UNCHANGED <<pr, sawTree, sawHead, Close!repo>>
    BY <1>2, <2>1 DEF Close!acquireCloseoutLock
  <2>2. CASE ~Close!Ends(c, "failed")
    <3>1. /\ closeStep[c] = "lock" /\ closeStep' = [closeStep EXCEPT ![c] = "worktrees"]
          /\ holder' = c /\ overtaken' = (overtaken \/ holder # NoCloseout)
          /\ UNCHANGED <<pr, sawTree, sawHead, head, tree, edited, base, worked>>
      BY <1>2, <2>2 DEF Close!acquireCloseoutLock
    <3>2. \A d \in Closeouts : closeStep'[d] \in Close!Locking => overtaken' \/ holder' = d
      <4> SUFFICES ASSUME NEW d \in Closeouts, d # c, closeStep[d] \in Close!Locking PROVE overtaken'
        BY <3>1
      <4>1. overtaken \/ holder = d
        OBVIOUS
      <4> QED BY <3>1, <4>1, Zenon
    <3> QED BY <3>1, <3>2
  <2> QED BY <1>2, <2>1, <2>2 DEF Close!acquireCloseoutLock
<1>3. CASE Close!findWorktrees(c)
  BY <1>3 DEF Close!findWorktrees
<1>4. CASE Close!verifyBase(c) \/ Close!verifyAncestors(c) \/ Close!reverifyHead(c)
  BY <1>4 DEF Close!verifyBase, Close!verifyAncestors, Close!reverifyHead, Close!verifiedHeadTree
<1>5. CASE Close!verifyLocalHead(c)
  BY <1>5 DEF Close!verifyLocalHead
<1>6. CASE Close!fetchPrune(c)
  BY <1>6 DEF Close!fetchPrune
<1>7. CASE Close!mergeBase(c)
  BY <1>7 DEF Close!mergeBase
<1>8. CASE Close!removeWorktree(c)
  BY <1>8 DEF Close!removeWorktree
<1>9. CASE Close!deleteHeadBranch(c)
  BY <1>9 DEF Close!deleteHeadBranch
<1> QED BY <1>1, <1>2, <1>3, <1>4, <1>5, <1>6, <1>7, <1>8, <1>9

LEMMA CloseStep == CloseInv /\ [Close!Next]_theCloseout => CloseInv'
<1> SUFFICES ASSUME CloseInv, [Close!Next]_theCloseout PROVE CloseInv'
  OBVIOUS
<1> USE DEF CloseInv, CloseTypeOK, UnderLock, EditsInTree, Close!WorkSurvives, Steps, Close!lock, Close!Locking, Close!LookedLast
<1>1. CASE UNCHANGED theCloseout
  BY <1>1 DEF theCloseout
<1>2. CASE Close!EditHead \/ Close!CommitHead \/ Close!AddTree
  BY <1>2 DEF Close!EditHead, Close!CommitHead, Close!AddTree
<1>4. CASE Close!SwitchHead \/ Close!SwitchBack \/ Close!CommitDetached
  BY <1>4 DEF Close!SwitchHead, Close!SwitchBack, Close!CommitDetached
<1>3. CASE Close!EditBase \/ Close!CommitBase \/ Close!UseIndex
  BY <1>3 DEF Close!EditBase, Close!CommitBase, Close!UseIndex
<1> QED BY <1>1, <1>2, <1>3, <1>4, CloseoutStep DEF Close!Next, Close!Others

LEMMA CleanMove == [MC_Next]_<<focus, theDaemon, theBackend, theClient, theRequests, theEdit, theTexts, theCloseout, theCleanup>>
                      => [Clean!Next]_theCleanup
  BY DEF MC_Next

LEMMA CloseMove == [MC_Next]_<<focus, theDaemon, theBackend, theClient, theRequests, theEdit, theTexts, theCloseout, theCleanup>>
                      => [Close!Next]_theCloseout
  BY DEF MC_Next

(* A closeout deletes no work, whoever has the lock; a cleanup deletes the only copy *)
(* of work only by force, and only where that was planned (closeout.ts,               *)
(* closeoutWorkflow; cleanup-core.ts, applyCleanupPlan).  Commits off the branch are   *)
(* safe if they were made before the last look at the worktree.                     *)
THEOREM WorkIsKept == MC_Spec => []NoWorkDeleted
<1>1. CleanInv => Clean!CleanupKeepsWork
  BY DEF CleanInv
<1>2. CloseInv => Close!CloseoutKeepsWork
  BY DEF CloseInv, UnderLock, Close!CloseoutKeepsWork, Close!RemovesOnlyMerged, Close!Locking
<1>3. MC_Init => CleanInv /\ CloseInv
  BY CleanInit, CloseInit DEF MC_Init
<1>4. CleanInv /\ CloseInv => NoWorkDeleted
  BY <1>1, <1>2 DEF NoWorkDeleted
<1> QED BY <1>3, <1>4, CleanStep, CloseStep, CleanMove, CloseMove, PTL DEF MC_Spec
================================================================================
