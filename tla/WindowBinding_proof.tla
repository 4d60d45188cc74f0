------------------------- MODULE WindowBinding_proof -------------------------
(***************************************************************************)
(* Theorems about WindowBinding, for any processes, windows, panes and tmux *)
(* sessions.  The argument: whoever is about to write a tag or an owner     *)
(* holds the lock, so what it read of the windows is still true, and what   *)
(* it found about the tenants of its own window is too.                     *)
(***************************************************************************)
EXTENDS WindowBinding, TLAPS

TypeOK ==
  /\ tag \in [Windows -> Sids \cup {NoSid}]
  /\ owner \in [Windows -> Procs \cup {NoProc}]
  /\ open \subseteq Windows
  /\ lock \in Procs \cup {NoProc}
  /\ pc \in [Procs -> PcStates]
  /\ sess \in [Procs -> Sids \cup {NoSid}]
  /\ bound \subseteq Procs
  /\ seen \in [Procs -> [Windows -> Sids \cup {NoSid}]]
  /\ target \in [Procs -> Sids \cup {NoSid}]
  /\ made \in [Procs -> Windows \cup {NoWindow}]

(* Between taking the lock and the end of its operation a process holds it. *)
Unlocked == {"new", "idle", "bind", "managed", "release", "restore", "dead"}

LockHeld == \A p \in Procs : pc[p] \in Unlocked \/ lock = p

(* A process with a session has its id, a restore the id of its target. *)
Restoring == {"restore", "resInspect", "resWindow", "resTag", "resVerify"}

SessionsKnown ==
  \A p \in Procs : /\ pc[p] \in {"new", "idle", "dead"} \/ sess[p] \in Sids
                   /\ pc[p] \in Restoring => target[p] \in Sids

BoundManaged == \A p \in bound : pc[p] \in {"managed"} \cup Restoring

(* Nobody tags a window that does not exist. *)
TagsOpen == /\ \A p \in Procs : Alive(p) => WindowOf[p] \in open
            /\ \A w \in Windows : tag[w] # NoSid => w \in open

(* What an operation has read is what is there: of its own window, until it *)
(* begins to change it; of the others, until it is over.                    *)
SeenIsTrue ==
  \A p \in Procs, w \in Windows :
    /\ TmuxSession[w] = TmuxSession[WindowOf[p]]
    /\ \/ pc[p] \in {"reclaim", "resWindow"}
       \/ pc[p] \in {"dropTag", "dropOwner", "create"} /\ w # WindowOf[p]
    => seen[p][w] = tag[w]

(* Who changes the binding of its window shares it with no bound process. *)
NoTenant ==
  \A p \in Procs :
    pc[p] \in {"dropTag", "dropOwner", "create", "record", "relTag", "relOwner"}
      => \A q \in bound : WindowOf[q] # WindowOf[p]

OwnerRecorded == \A p \in Procs : pc[p] = "verify" => owner[WindowOf[p]] = p

(* The session to restore has no window yet. *)
TargetAbsent ==
  \A p \in Procs :
    pc[p] = "resTag" =>
      /\ made[p] \in open
      /\ TmuxSession[made[p]] = TmuxSession[WindowOf[p]]
      /\ \A w \in Windows : TmuxSession[w] = TmuxSession[WindowOf[p]] => tag[w] # target[p]

(* The inductive invariant. *)
IInv == /\ TypeOK /\ LockHeld /\ SessionsKnown /\ BoundManaged /\ TagsOpen
        /\ SeenIsTrue /\ NoTenant /\ OwnerRecorded /\ TargetAbsent
        /\ OneWindowPerSession /\ BoundKeepsWindow

-----------------------------------------------------------------------------
(* A step of one process; the steps by which it changes nothing in tmux. *)
StepOf(p) == Session(p) \/ Bind(p) \/ Release(p) \/ Restore(p)

Quiet(p) ==
  \/ Launch(p) \/ EndSession(p) \/ Lock(p)
  \/ \E s \in Sids : StartSession(p, s) \/ Reconcile(p, s)

(* Initially there is neither a binding nor a process. *)
LEMMA InitInv == Init => IInv
  BY BindingAssumption
  DEF Init, IInv, TypeOK, PcStates, LockHeld, Unlocked, SessionsKnown, BoundManaged, TagsOpen,
      Alive, SeenIsTrue, NoTenant, OwnerRecorded, TargetAbsent, OneWindowPerSession,
      BoundKeepsWindow, NoTags, Restoring

(* What the end of an operation leaves. *)
LEMMA DoneTypes ==
  ASSUME TypeOK, NEW p \in Procs, NEW label \in PcStates, Done(p, label)
  PROVE  /\ lock' \in Procs \cup {NoProc}
         /\ pc' \in [Procs -> PcStates]
         /\ sess' \in [Procs -> Sids \cup {NoSid}]
         /\ seen' \in [Procs -> [Windows -> Sids \cup {NoSid}]]
         /\ target' \in [Procs -> Sids \cup {NoSid}]
         /\ made' \in [Procs -> Windows \cup {NoWindow}]
<1>1. NoTags \in [Windows -> Sids \cup {NoSid}]
  BY DEF NoTags
<1>2. sess' \in [Procs -> Sids \cup {NoSid}]
  <2>1. CASE label = "managed"
    BY <2>1 DEF Done, TypeOK
  <2>2. CASE label # "managed"
    BY <2>2 DEF Done, TypeOK
  <2> QED BY <2>1, <2>2
<1> QED BY <1>1, <1>2 DEF Done, Goto, TypeOK

(* What was read of the windows has a type, row by row. *)
LEMMA SeenTypes ==
  ASSUME TypeOK, NEW p \in Procs, NEW w \in Windows
  PROVE  /\ seen[p] \in [Windows -> Sids \cup {NoSid}]
         /\ seen[p][w] \in Sids \cup {NoSid}
         /\ Tags(p) \in [Windows -> Sids \cup {NoSid}]
         /\ [seen EXCEPT ![p][w] = NoSid] \in [Procs -> [Windows -> Sids \cup {NoSid}]]
<1>1. seen[p] \in [Windows -> Sids \cup {NoSid}]
  BY DEF TypeOK
<1>2. [seen[p] EXCEPT ![w] = NoSid] \in [Windows -> Sids \cup {NoSid}]
  BY <1>1
<1>3. [seen EXCEPT ![p] = [seen[p] EXCEPT ![w] = NoSid]]
        \in [Procs -> [Windows -> Sids \cup {NoSid}]]
  BY <1>2 DEF TypeOK
<1> QED BY <1>1, <1>3 DEF TypeOK, Tags

(* Every step keeps the types. *)
LEMMA TypeStep ==
  ASSUME TypeOK, SessionsKnown, TargetAbsent, NEW p \in Procs, StepOf(p)
  PROVE  TypeOK'
<1> USE BindingAssumption DEF Goto, tmux
<1>w. WindowOf[p] \in Windows
  OBVIOUS
<1>1. CASE Session(p)
  <2>1. CASE Launch(p)
    BY <2>1 DEF Launch, TypeOK, PcStates
  <2>2. CASE EndSession(p)
    BY <2>2 DEF EndSession, TypeOK, PcStates
  <2>3. CASE Lock(p)
    BY <2>3 DEF Lock, Locked, TypeOK, PcStates
  <2>4. CASE Inspect(p)
    BY <2>4, SeenTypes, <1>w DEF Inspect, Inspected, TypeOK, PcStates
  <2>5. CASE Fail(p)
    <3>1. PICK label \in {"idle", "managed"} : Done(p, label)
      BY <2>5 DEF Fail
    <3> QED BY <2>5, <3>1, DoneTypes DEF Fail, TypeOK, PcStates
  <2>6. CASE Die(p)
    BY <2>6, DoneTypes DEF Die, TypeOK, PcStates
  <2>7. ASSUME NEW s \in Sids, StartSession(p, s) PROVE TypeOK'
    BY <2>7 DEF StartSession, TypeOK, PcStates
  <2>8. ASSUME NEW s \in Sids, Reconcile(p, s) PROVE TypeOK'
    BY <2>8 DEF Reconcile, TypeOK, PcStates
  <2> QED BY <1>1, <2>1, <2>2, <2>3, <2>4, <2>5, <2>6, <2>7, <2>8 DEF Session
<1>2. CASE Bind(p)
  <2>1. CASE Reclaim(p)
    BY <2>1 DEF Reclaim, TypeOK, PcStates
  <2>2. CASE DropTag(p)
    BY <2>2 DEF DropTag, TypeOK, PcStates
  <2>3. CASE DropOwner(p)
    BY <2>3, SeenTypes, <1>w DEF DropOwner, TypeOK, PcStates
  <2>4. CASE Create(p)
    BY <2>4 DEF Create, TypeOK, PcStates
  <2>5. CASE Record(p)
    BY <2>5 DEF Record, TypeOK, PcStates
  <2>6. CASE Verify(p)
    BY <2>6, DoneTypes DEF Verify, TypeOK, PcStates
  <2> QED BY <1>2, <2>1, <2>2, <2>3, <2>4, <2>5, <2>6 DEF Bind
<1>3. CASE Release(p)
  <2>1. CASE RelCheck(p)
    BY <2>1, DoneTypes DEF RelCheck, TypeOK, PcStates
  <2>2. CASE RelTag(p)
    BY <2>2 DEF RelTag, TypeOK, PcStates
  <2>3. CASE RelOwner(p)
    BY <2>3, DoneTypes DEF RelOwner, TypeOK, PcStates
  <2> QED BY <1>3, <2>1, <2>2, <2>3 DEF Release
<1>4. CASE Restore(p)
  <2>1. CASE ResExisting(p) \/ ResVerify(p)
    BY <2>1, DoneTypes DEF ResExisting, ResVerify, TypeOK, PcStates
  <2>2. ASSUME NEW w \in Windows, ResWindow(p, w) PROVE TypeOK'
    BY <2>2 DEF ResWindow, TypeOK, PcStates
  <2>3. CASE ResTag(p)
    BY <2>3 DEF ResTag, TypeOK, PcStates
  <2> QED BY <1>4, <2>1, <2>2, <2>3 DEF Restore
<1> QED BY <1>1, <1>2, <1>3, <1>4 DEF StepOf
-----------------------------------------------------------------------------
(* One lemma for each conjunct of the invariant.  Whatever a process writes  *)
(* it writes under the lock, and then all others are unlocked.               *)

(* The lock is taken when it is free and given back by its holder. *)
LEMMA LockStep ==
  ASSUME IInv, NEW p \in Procs, StepOf(p)
  PROVE  LockHeld'
<1> USE BindingAssumption
    DEF IInv, TypeOK, Goto, tmux, LockHeld, Unlocked
<1>1. CASE Quiet(p)
  BY <1>1, SMTT(30) DEF Quiet, Launch, EndSession, Lock, Locked, StartSession, Reconcile
<1>2. CASE Inspect(p)
  BY <1>2, SMTT(30) DEF Inspect, Inspected
<1>3. CASE Fail(p) \/ Die(p)
  BY <1>3, SMTT(30) DEF Fail, Die, Done, Releasing, Alive
<1>4. CASE Bind(p)
  BY <1>4, SMTT(30) DEF Bind, Reclaim, DropTag, DropOwner, Create, Record, Verify, Done
<1>5. CASE Release(p)
  <2>1. CASE RelCheck(p)
    BY <2>1 DEF RelCheck, Done
  <2>2. CASE RelTag(p)
    BY <2>2 DEF RelTag
  <2>3. CASE RelOwner(p)
    BY <2>3 DEF RelOwner, Done
  <2> QED BY <1>5, <2>1, <2>2, <2>3 DEF Release
<1>6. CASE Restore(p)
  BY <1>6, SMTT(30) DEF Restore, ResExisting, ResWindow, ResTag, ResVerify, Done
<1> QED BY <1>1, <1>2, <1>3, <1>4, <1>5, <1>6 DEF StepOf, Session, Quiet

(* A session is chosen before anything is done for it. *)
LEMMA SessionsStep ==
  ASSUME IInv, NEW p \in Procs, StepOf(p)
  PROVE  SessionsKnown'
<1> USE BindingAssumption
    DEF IInv, TypeOK, Goto, tmux, SessionsKnown, Restoring
<1>1. CASE Quiet(p)
  BY <1>1, SMTT(30) DEF Quiet, Launch, EndSession, Lock, Locked, StartSession, Reconcile
<1>2. CASE Inspect(p)
  BY <1>2, SMTT(30) DEF Inspect, Inspected
<1>3. CASE Fail(p) \/ Die(p)
  BY <1>3, SMTT(30) DEF Fail, Die, Done, Releasing, Alive
<1>4. CASE Bind(p)
  BY <1>4, SMTT(30) DEF Bind, Reclaim, DropTag, DropOwner, Create, Record, Verify, Done
<1>5. CASE Release(p)
  BY <1>5, SMTT(30) DEF Release, RelCheck, RelTag, RelOwner, Done
<1>6. CASE Restore(p)
  BY <1>6, SMTT(30) DEF Restore, ResExisting, ResWindow, ResTag, ResVerify, Done
<1> QED BY <1>1, <1>2, <1>3, <1>4, <1>5, <1>6 DEF StepOf, Session, Quiet

(* A bound process manages its session or restores others. *)
LEMMA BoundStep ==
  ASSUME IInv, NEW p \in Procs, StepOf(p)
  PROVE  BoundManaged'
<1> USE BindingAssumption
    DEF IInv, TypeOK, Goto, tmux, BoundManaged, Restoring
<1>1. CASE Quiet(p)
  BY <1>1, SMTT(30) DEF Quiet, Launch, EndSession, Lock, Locked, StartSession, Reconcile
<1>2. CASE Inspect(p)
  BY <1>2, SMTT(30) DEF Inspect, Inspected
<1>3. CASE Fail(p) \/ Die(p)
  BY <1>3, SMTT(30) DEF Fail, Die, Done, Releasing, Alive
<1>4. CASE Bind(p)
  BY <1>4, SMTT(30) DEF Bind, Reclaim, DropTag, DropOwner, Create, Record, Verify, Done
<1>5. CASE Release(p)
  BY <1>5, SMTT(30) DEF Release, RelCheck, RelTag, RelOwner, Done
<1>6. CASE Restore(p)
  BY <1>6, SMTT(30) DEF Restore, ResExisting, ResWindow, ResTag, ResVerify, Done
<1> QED BY <1>1, <1>2, <1>3, <1>4, <1>5, <1>6 DEF StepOf, Session, Quiet

(* Windows are tagged by those who live in them or made them. *)
LEMMA OpenStep ==
  ASSUME IInv, NEW p \in Procs, StepOf(p)
  PROVE  TagsOpen'
<1> USE BindingAssumption
    DEF IInv, TypeOK, Goto, tmux, TagsOpen, Alive
<1>1. CASE Quiet(p)
  BY <1>1, SMTT(30) DEF Quiet, Launch, EndSession, Lock, Locked, StartSession, Reconcile
<1>2. CASE Inspect(p)
  BY <1>2, SMTT(30) DEF Inspect, Inspected
<1>3. CASE Fail(p) \/ Die(p)
  BY <1>3, SMTT(30) DEF Fail, Die, Done, Releasing, Alive
<1>4. CASE Bind(p)
  <2>1. CASE Reclaim(p)
    BY <2>1 DEF Reclaim
  <2>2. CASE DropTag(p)
    BY <2>2 DEF DropTag
  <2>3. CASE DropOwner(p)
    BY <2>3 DEF DropOwner
  <2>4. CASE Create(p)
    BY <2>4 DEF Create
  <2>5. CASE Record(p)
    BY <2>5 DEF Record
  <2>6. CASE Verify(p)
    BY <2>6 DEF Verify, Done
  <2> QED BY <1>4, <2>1, <2>2, <2>3, <2>4, <2>5, <2>6 DEF Bind
<1>5. CASE Release(p)
  <2>1. CASE RelCheck(p)
    BY <2>1 DEF RelCheck, Done
  <2>2. CASE RelTag(p)
    BY <2>2 DEF RelTag
  <2>3. CASE RelOwner(p)
    BY <2>3 DEF RelOwner, Done
  <2> QED BY <1>5, <2>1, <2>2, <2>3 DEF Release
<1>6. CASE Restore(p)
  <2>1. CASE ResExisting(p) \/ ResVerify(p)
    BY <2>1 DEF ResExisting, ResVerify, Done
  <2>2. ASSUME NEW w \in Windows, ResWindow(p, w) PROVE TagsOpen'
    BY <2>2 DEF ResWindow
  <2>3. CASE ResTag(p)
    BY <2>3 DEF ResTag, TargetAbsent
  <2> QED BY <1>6, <2>1, <2>2, <2>3 DEF Restore
<1> QED BY <1>1, <1>2, <1>3, <1>4, <1>5, <1>6 DEF StepOf, Session, Quiet

(* What was read under the lock stays true until its holder writes. *)
LEMMA SeenStep ==
  ASSUME IInv, NEW p \in Procs, StepOf(p)
  PROVE  SeenIsTrue'
<1> USE BindingAssumption
    DEF IInv, TypeOK, Goto, tmux, SeenIsTrue, LockHeld, Unlocked
<1>1. CASE Quiet(p)
  BY <1>1, SMTT(30) DEF Quiet, Launch, EndSession, Lock, Locked, StartSession, Reconcile
<1>2. CASE Inspect(p)
  BY <1>2, SMTT(30) DEF Inspect, Inspected, Tags, Listed, TagsOpen
<1>3. CASE Fail(p) \/ Die(p)
  <2>1. CASE Fail(p)
    BY <2>1 DEF Fail, Done, Releasing
  <2>2. CASE Die(p)
    BY <2>2 DEF Die, Done, Alive
  <2> QED BY <1>3, <2>1, <2>2
<1>4. CASE Bind(p)
  <2>1. CASE Reclaim(p)
    BY <2>1 DEF Reclaim
  <2>2. CASE DropTag(p)
    <3>1. \A q \in Procs \ {p} : pc'[q] \in Unlocked
      BY <2>2 DEF DropTag
    <3>2. pc'[p] = "dropOwner" /\ seen' = seen
          /\ \A w \in Windows \ {WindowOf[p]} :
               /\ tag'[w] = tag[w]
               /\ TmuxSession[w] = TmuxSession[WindowOf[p]] => seen[p][w] = tag[w]
      BY <2>2 DEF DropTag
    <3> QED BY <3>1, <3>2
  <2>3. CASE DropOwner(p)
    BY <2>3 DEF DropOwner
  <2>4. CASE Create(p)
    BY <2>4 DEF Create
  <2>5. CASE Record(p)
    BY <2>5 DEF Record
  <2>6. CASE Verify(p)
    BY <2>6 DEF Verify, Done
  <2> QED BY <1>4, <2>1, <2>2, <2>3, <2>4, <2>5, <2>6 DEF Bind
<1>5. CASE Release(p)
  <2>1. CASE RelCheck(p)
    BY <2>1 DEF RelCheck, Done
  <2>2. CASE RelTag(p)
    BY <2>2 DEF RelTag
  <2>3. CASE RelOwner(p)
    BY <2>3 DEF RelOwner, Done
  <2> QED BY <1>5, <2>1, <2>2, <2>3 DEF Release
<1>6. CASE Restore(p)
  <2>1. CASE ResExisting(p) \/ ResVerify(p)
    BY <2>1 DEF ResExisting, ResVerify, Done
  <2>2. ASSUME NEW w \in Windows, ResWindow(p, w) PROVE SeenIsTrue'
    BY <2>2 DEF ResWindow
  <2>3. CASE ResTag(p)
    BY <2>3 DEF ResTag
  <2> QED BY <1>6, <2>1, <2>2, <2>3 DEF Restore
<1> QED BY <1>1, <1>2, <1>3, <1>4, <1>5, <1>6 DEF StepOf, Session, Quiet

(* A bound process in the window is its owner, alive, and stops the others. *)
LEMMA TenantStep ==
  ASSUME IInv, NEW p \in Procs, StepOf(p)
  PROVE  NoTenant'
<1> USE BindingAssumption
    DEF IInv, TypeOK, Goto, tmux, NoTenant, LockHeld, Unlocked
<1>1. CASE Quiet(p)
  BY <1>1, SMTT(30) DEF Quiet, Launch, EndSession, Lock, Locked, StartSession, Reconcile
<1>2. CASE Inspect(p)
  BY <1>2, SMTT(30) DEF Inspect, Inspected
<1>3. CASE Fail(p) \/ Die(p)
  BY <1>3, SMTT(30) DEF Fail, Die, Done, Releasing, Alive
<1>4. CASE Bind(p)
  <2>1. CASE Reclaim(p)
    <3>1. \A q \in Procs \ {p} : pc'[q] = pc[q] /\ pc[q] \in Unlocked
      BY <2>1 DEF Reclaim
    <3>2. ASSUME NEW q \in bound, WindowOf[q] = WindowOf[p] PROVE FALSE
      <4>1. q # p /\ pc[q] \notin {"new", "dead"} /\ sess[q] \in Sids
        BY <2>1 DEF Reclaim, BoundManaged, SessionsKnown, Restoring
      <4>2. tag[WindowOf[p]] = sess[q] /\ owner[WindowOf[p]] = q
        BY <3>2 DEF BoundKeepsWindow
      <4>3. seen[p][WindowOf[p]] = tag[WindowOf[p]]
        BY <2>1 DEF Reclaim, SeenIsTrue
      <4> QED BY <2>1, <4>1, <4>2, <4>3 DEF Reclaim, HeldByOther, Alive
    <3> QED BY <2>1, <3>1, <3>2 DEF Reclaim
  <2>2. CASE DropTag(p)
    BY <2>2 DEF DropTag
  <2>3. CASE DropOwner(p)
    BY <2>3 DEF DropOwner
  <2>4. CASE Create(p)
    BY <2>4 DEF Create
  <2>5. CASE Record(p)
    BY <2>5 DEF Record
  <2>6. CASE Verify(p)
    BY <2>6 DEF Verify, Done, BoundManaged
  <2> QED BY <1>4, <2>1, <2>2, <2>3, <2>4, <2>5, <2>6 DEF Bind
<1>5. CASE Release(p)
  <2>1. CASE RelCheck(p)
    BY <2>1, SMTT(30)
    DEF RelCheck, HeldByOther, BoundKeepsWindow, BoundManaged, Restoring, Alive, Done
  <2>2. CASE RelTag(p)
    BY <2>2 DEF RelTag
  <2>3. CASE RelOwner(p)
    BY <2>3 DEF RelOwner, Done
  <2> QED BY <1>5, <2>1, <2>2, <2>3 DEF Release
<1>6. CASE Restore(p)
  BY <1>6, SMTT(30) DEF Restore, ResExisting, ResWindow, ResTag, ResVerify, Done
<1> QED BY <1>1, <1>2, <1>3, <1>4, <1>5, <1>6 DEF StepOf, Session, Quiet

(* Nobody else writes an owner before the binding is verified. *)
LEMMA OwnerStep ==
  ASSUME IInv, NEW p \in Procs, StepOf(p)
  PROVE  OwnerRecorded'
<1> USE BindingAssumption
    DEF IInv, TypeOK, Goto, tmux, OwnerRecorded, LockHeld, Unlocked
<1>1. CASE Quiet(p)
  BY <1>1, SMTT(30) DEF Quiet, Launch, EndSession, Lock, Locked, StartSession, Reconcile
<1>2. CASE Inspect(p)
  BY <1>2, SMTT(30) DEF Inspect, Inspected
<1>3. CASE Fail(p) \/ Die(p)
  BY <1>3, SMTT(30) DEF Fail, Die, Done, Releasing, Alive
<1>4. CASE Bind(p)
  <2>1. CASE Reclaim(p)
    BY <2>1 DEF Reclaim
  <2>2. CASE DropTag(p)
    BY <2>2 DEF DropTag
  <2>3. CASE DropOwner(p)
    BY <2>3 DEF DropOwner
  <2>4. CASE Create(p)
    BY <2>4 DEF Create
  <2>5. CASE Record(p)
    BY <2>5 DEF Record
  <2>6. CASE Verify(p)
    BY <2>6 DEF Verify, Done
  <2> QED BY <1>4, <2>1, <2>2, <2>3, <2>4, <2>5, <2>6 DEF Bind
<1>5. CASE Release(p)
  <2>1. CASE RelCheck(p)
    BY <2>1 DEF RelCheck, Done
  <2>2. CASE RelTag(p)
    BY <2>2 DEF RelTag
  <2>3. CASE RelOwner(p)
    BY <2>3 DEF RelOwner, Done
  <2> QED BY <1>5, <2>1, <2>2, <2>3 DEF Release
<1>6. CASE Restore(p)
  BY <1>6, SMTT(30) DEF Restore, ResExisting, ResWindow, ResTag, ResVerify, Done
<1> QED BY <1>1, <1>2, <1>3, <1>4, <1>5, <1>6 DEF StepOf, Session, Quiet

(* Nobody else tags a window before the restored one has its tag. *)
LEMMA AbsentStep ==
  ASSUME IInv, NEW p \in Procs, StepOf(p)
  PROVE  TargetAbsent'
<1> USE BindingAssumption
    DEF IInv, TypeOK, Goto, tmux, TargetAbsent, LockHeld, Unlocked
<1>1. CASE Quiet(p)
  BY <1>1, SMTT(30) DEF Quiet, Launch, EndSession, Lock, Locked, StartSession, Reconcile
<1>2. CASE Inspect(p)
  BY <1>2, SMTT(30) DEF Inspect, Inspected
<1>3. CASE Fail(p) \/ Die(p)
  <2>1. CASE Fail(p)
    BY <2>1 DEF Fail, Done, Releasing
  <2>2. CASE Die(p)
    BY <2>2 DEF Die, Done, Alive
  <2> QED BY <1>3, <2>1, <2>2
<1>4. CASE Bind(p)
  <2>1. CASE Reclaim(p)
    BY <2>1 DEF Reclaim
  <2>2. CASE DropTag(p)
    BY <2>2 DEF DropTag
  <2>3. CASE DropOwner(p)
    BY <2>3 DEF DropOwner
  <2>4. CASE Create(p)
    BY <2>4 DEF Create
  <2>5. CASE Record(p)
    BY <2>5 DEF Record
  <2>6. CASE Verify(p)
    BY <2>6 DEF Verify, Done
  <2> QED BY <1>4, <2>1, <2>2, <2>3, <2>4, <2>5, <2>6 DEF Bind
<1>5. CASE Release(p)
  BY <1>5, SMTT(30) DEF Release, RelCheck, RelTag, RelOwner, Done
<1>6. CASE Restore(p)
  <2>1. CASE ResExisting(p) \/ ResVerify(p)
    BY <2>1 DEF ResExisting, ResVerify, Done
  <2>2. ASSUME NEW w \in Windows, ResWindow(p, w) PROVE TargetAbsent'
    BY <2>2, SMTT(30) DEF ResWindow, SeenIsTrue, Matches, TagsOpen, SessionsKnown, Restoring
  <2>3. CASE ResTag(p)
    BY <2>3, SMTT(30) DEF ResTag
  <2> QED BY <1>6, <2>1, <2>2, <2>3 DEF Restore
<1> QED BY <1>1, <1>2, <1>3, <1>4, <1>5, <1>6 DEF StepOf, Session, Quiet

(* A tag is made where no other window of the tmux session has it. *)
LEMMA OneWindowStep ==
  ASSUME IInv, NEW p \in Procs, StepOf(p)
  PROVE  OneWindowPerSession'
<1> USE BindingAssumption
    DEF IInv, TypeOK, Goto, tmux, OneWindowPerSession, TargetAbsent, SeenIsTrue,
        Consistent, SessionsKnown
<1>1. CASE Quiet(p)
  BY <1>1, SMTT(30) DEF Quiet, Launch, EndSession, Lock, Locked, StartSession, Reconcile
<1>2. CASE Inspect(p)
  BY <1>2, SMTT(30) DEF Inspect, Inspected
<1>3. CASE Fail(p) \/ Die(p)
  BY <1>3, SMTT(30) DEF Fail, Die, Done, Releasing, Alive
<1>4. CASE Bind(p)
  BY <1>4, SMTT(30) DEF Bind, Reclaim, DropTag, DropOwner, Create, Record, Verify, Done
<1>5. CASE Release(p)
  BY <1>5, SMTT(30) DEF Release, RelCheck, RelTag, RelOwner, Done
<1>6. CASE Restore(p)
  BY <1>6, SMTT(30) DEF Restore, ResExisting, ResWindow, ResTag, ResVerify, Done
<1> QED BY <1>1, <1>2, <1>3, <1>4, <1>5, <1>6 DEF StepOf, Session, Quiet

(* Nobody writes to a window with a bound process in it. *)
LEMMA KeepsStep ==
  ASSUME IInv, NEW p \in Procs, StepOf(p)
  PROVE  BoundKeepsWindow'
<1> USE BindingAssumption
    DEF IInv, TypeOK, Goto, tmux, BoundKeepsWindow, NoTenant, OwnerRecorded,
        TargetAbsent, BoundManaged, Restoring, SessionsKnown
<1>1. CASE Quiet(p)
  BY <1>1, SMTT(30) DEF Quiet, Launch, EndSession, Lock, Locked, StartSession, Reconcile
<1>2. CASE Inspect(p)
  BY <1>2, SMTT(30) DEF Inspect, Inspected
<1>3. CASE Fail(p) \/ Die(p)
  <2>1. CASE Fail(p)
    BY <2>1 DEF Fail, Done, Releasing
  <2>2. CASE Die(p)
    BY <2>2 DEF Die, Done, Alive
  <2> QED BY <1>3, <2>1, <2>2
<1>4. CASE Bind(p)
  <2>1. CASE Reclaim(p)
    BY <2>1 DEF Reclaim
  <2>2. CASE DropTag(p) \/ DropOwner(p)
    BY <2>2 DEF DropTag, DropOwner
  <2>3. CASE Create(p)
    <3>1. \A q \in bound : WindowOf[q] # WindowOf[p] /\ WindowOf[q] \in Windows
      BY <2>3 DEF Create
    <3>2. \A w \in Windows \ {WindowOf[p]} : tag'[w] = tag[w]
      BY <2>3 DEF Create
    <3> QED BY <2>3, <3>1, <3>2 DEF Create
  <2>4. CASE Record(p)
    BY <2>4 DEF Record
  <2>5. CASE Verify(p)
    BY <2>5, SMTT(30) DEF Verify, Done, Tags, Consistent
  <2> QED BY <1>4, <2>1, <2>2, <2>3, <2>4, <2>5 DEF Bind
<1>5. CASE Release(p)
  BY <1>5, SMTT(30) DEF Release, RelCheck, RelTag, RelOwner, Done
<1>6. CASE Restore(p)
  BY <1>6, SMTT(30) DEF Restore, ResExisting, ResWindow, ResTag, ResVerify, Done
<1> QED BY <1>1, <1>2, <1>3, <1>4, <1>5, <1>6 DEF StepOf, Session, Quiet

-----------------------------------------------------------------------------
(* Every step keeps the invariant. *)
LEMMA StepInv == IInv /\ [Next]_vars => IInv'
<1>1. ASSUME IInv, NEW p \in Procs, StepOf(p) PROVE IInv'
  BY <1>1, TypeStep, LockStep, SessionsStep, BoundStep, OpenStep, SeenStep, TenantStep, OwnerStep,
     AbsentStep, OneWindowStep, KeepsStep DEF IInv
<1>2. ASSUME IInv, UNCHANGED vars PROVE IInv'
  BY <1>2 DEF IInv, vars, TypeOK, LockHeld, SessionsKnown, BoundManaged, TagsOpen, Alive, SeenIsTrue,
     NoTenant, OwnerRecorded, TargetAbsent, OneWindowPerSession, BoundKeepsWindow
<1> QED BY <1>1, <1>2 DEF Next, StepOf

(* The invariant holds in every state: while a process is inside an operation *)
(* of host.ts, what it read under the binding lock is what tmux holds.        *)
THEOREM InductiveInvariant == Spec => []IInv
  BY InitInv, StepInv, PTL DEF Spec

(* Whatever processes bind, reclaim, release and restore, and wherever they   *)
(* are killed or a tmux command fails, a session has one window in a tmux     *)
(* session (host.ts: bindCurrent, restoreWindow).                             *)
THEOREM SessionsHaveOneWindow == Spec => []OneWindowPerSession
<1>1. IInv => OneWindowPerSession
  BY DEF IInv
<1> QED BY <1>1, InductiveInvariant, PTL

(* A process whose bindCurrent() succeeded keeps tag and owner of its window  *)
(* until it begins to release them or dies (host.ts: assertLiveOwner).        *)
THEOREM OwnersKeepTheirWindow == Spec => []BoundKeepsWindow
<1>1. IInv => BoundKeepsWindow
  BY DEF IInv
<1> QED BY <1>1, InductiveInvariant, PTL
=============================================================================
