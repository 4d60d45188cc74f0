---------------------------- MODULE WindowBinding ----------------------------
(***************************************************************************)
(* extensions/session-manager/host.ts and binding-lock.ts: which tmux       *)
(* window belongs to which Pi session.                                      *)
(*                                                                          *)
(* A binding is two options of a window: the session's id (the tag) and the *)
(* process id of its owner.  Several Pi processes may live in panes of one  *)
(* window.  Every operation runs under a kernel lock beside the tmux        *)
(* socket, which dies with its holder, and every action below is one tmux   *)
(* command (an inspection reads many options, under the lock): a process    *)
(* may be killed, or its command fail, between any two of them.             *)
(***************************************************************************)
EXTENDS FiniteSets

CONSTANTS
  Procs,         \* Pi processes, named by their process ids
  Windows,       \* tmux windows of one server
  Sids,          \* Pi session ids
  NoProc, NoSid, NoWindow,
  WindowOf,      \* the window of each process's pane
  TmuxSession,   \* the tmux session each window belongs to
  InitialOpen    \* the windows there are at first

ASSUME BindingAssumption ==
  /\ NoProc \notin Procs /\ NoSid \notin Sids /\ NoWindow \notin Windows
  /\ WindowOf \in [Procs -> Windows]
  /\ DOMAIN TmuxSession = Windows
  /\ InitialOpen \subseteq Windows

VARIABLES
  tag,      \* @pi_session_id of each window
  owner,    \* @pi_session_pid of each window
  open,     \* the windows that exist
  lock,     \* the process that holds the binding lock
  pc,       \* what each process does next
  sess,     \* the session each process runs
  bound,    \* processes whose bind succeeded and whose release has not begun
  seen,     \* the tags of the listed windows each process inspected last
  target,   \* the session a coordinator restores
  made      \* the window it made for that session

vars == <<tag, owner, open, lock, pc, sess, bound, seen, target, made>>
tmux == <<tag, owner, open>>

NoTags == [w \in Windows |-> NoSid]

PcStates == {"new", "idle",
             "bind", "inspect", "reclaim", "dropTag", "dropOwner", "create", "record", "verify",
             "managed",
             "release", "relInspect", "relCheck", "relTag", "relOwner",
             "restore", "resInspect", "resWindow", "resTag", "resVerify",
             "dead"}

Alive(p) == pc[p] \notin {"new", "dead"}

Init == /\ tag = NoTags /\ owner = [w \in Windows |-> NoProc]
        /\ open = InitialOpen
        /\ lock = NoProc
        /\ pc = [p \in Procs |-> "new"]
        /\ sess = [p \in Procs |-> NoSid]
        /\ bound = {}
        /\ seen = [p \in Procs |-> NoTags]
        /\ target = [p \in Procs |-> NoSid]
        /\ made = [p \in Procs |-> NoWindow]

Goto(p, label) == pc' = [pc EXCEPT ![p] = label]

(* An operation that is over, however it ended, unlocks. *)
Done(p, label) ==
  /\ Goto(p, label)
  /\ lock' = IF lock = p THEN NoProc ELSE lock
  /\ seen' = [seen EXCEPT ![p] = NoTags]
  /\ target' = [target EXCEPT ![p] = NoSid]
  /\ made' = [made EXCEPT ![p] = NoWindow]
  /\ sess' = IF label = "managed" THEN sess ELSE [sess EXCEPT ![p] = NoSid]

-----------------------------------------------------------------------------
(* The process and its session *)

Launch(p) ==
  /\ pc[p] = "new" /\ WindowOf[p] \in open
  /\ Goto(p, "idle")
  /\ UNCHANGED <<tmux, lock, sess, bound, seen, target, made>>

(* session_start: the session's record is committed, its window is bound. *)
StartSession(p, s) ==
  /\ pc[p] = "idle"
  /\ sess' = [sess EXCEPT ![p] = s]
  /\ Goto(p, "bind")
  /\ UNCHANGED <<tmux, lock, bound, seen, target, made>>

(* session_shutdown, finalize: the release is attempted even if the bind failed. *)
EndSession(p) ==
  /\ pc[p] = "managed"
  /\ bound' = bound \ {p}
  /\ Goto(p, "release")
  /\ UNCHANGED <<tmux, lock, sess, seen, target, made>>

(* A bound coordinator reconciles: every open record's window is restored. *)
Reconcile(p, s) ==
  /\ pc[p] = "managed" /\ p \in bound /\ s # sess[p]
  /\ target' = [target EXCEPT ![p] = s]
  /\ Goto(p, "restore")
  /\ UNCHANGED <<tmux, lock, sess, bound, seen, made>>

Locked == [bind |-> "inspect", release |-> "relInspect", restore |-> "resInspect"]

(* Mutant: each pane locks for itself. *)
LockPerPane(p) ==
  /\ pc[p] \in DOMAIN Locked
  /\ lock' = p
  /\ Goto(p, Locked[pc[p]])
  /\ UNCHANGED <<tmux, sess, bound, seen, target, made>>

Lock(p) ==
  /\ pc[p] \in DOMAIN Locked
  /\ lock = NoProc
  /\ lock' = p
  /\ Goto(p, Locked[pc[p]])
  /\ UNCHANGED <<tmux, sess, bound, seen, target, made>>

-----------------------------------------------------------------------------
(* inspectCurrent() lists the windows of the pane's own tmux session. *)

Inspected == [inspect |-> "reclaim", relInspect |-> "relCheck", resInspect |-> "resWindow"]

Listed(p) == {w \in open : TmuxSession[w] = TmuxSession[WindowOf[p]]}

Tags(p) == [w \in Windows |-> IF w \in Listed(p) THEN tag[w] ELSE NoSid]

Inspect(p) ==
  /\ pc[p] \in DOMAIN Inspected
  /\ seen' = [seen EXCEPT ![p] = Tags(p)]
  /\ Goto(p, Inspected[pc[p]])
  /\ UNCHANGED <<tmux, lock, sess, bound, target, made>>

(* assertBinding(): the window's tag, where it has one, is this session's, and *)
(* no other listed window's is.                                                *)
Consistent(p, tags) ==
  /\ tags[WindowOf[p]] \in {sess[p], NoSid}
  /\ \A w \in Windows \ {WindowOf[p]} : tags[w] # sess[p]

(* assertLiveOwner() *)
HeldByOther(p) ==
  LET o == owner[WindowOf[p]] IN o \in Procs /\ o # p /\ Alive(o)

-----------------------------------------------------------------------------
(* bindCurrent() *)

(* reclaimStaleBinding(): a tag without an owner is kept. *)
Reclaim(p) ==
  LET w == WindowOf[p] IN
  /\ pc[p] = "reclaim"
  /\ seen[p][w] # NoSid => ~HeldByOther(p)
  /\ Goto(p, IF seen[p][w] \notin {NoSid, sess[p]} /\ owner[w] \in Procs
               THEN "dropTag" ELSE "create")
  /\ UNCHANGED <<tmux, lock, sess, bound, seen, target, made>>

DropTag(p) ==
  /\ pc[p] = "dropTag"
  /\ tag' = [tag EXCEPT ![WindowOf[p]] = NoSid]
  /\ Goto(p, "dropOwner")
  /\ UNCHANGED <<owner, open, lock, sess, bound, seen, target, made>>

DropOwner(p) ==
  /\ pc[p] = "dropOwner"
  /\ owner' = [owner EXCEPT ![WindowOf[p]] = NoProc]
  /\ seen' = [seen EXCEPT ![p][WindowOf[p]] = NoSid]
  /\ Goto(p, "create")
  /\ UNCHANGED <<tag, open, lock, sess, bound, target, made>>

(* Mutant: duplicates in other windows are only looked for afterwards. *)
CreateUnchecked(p) ==
  LET w == WindowOf[p] IN
  /\ pc[p] = "create"
  /\ seen[p][w] \in {sess[p], NoSid}
  /\ seen[p][w] = NoSid => tag[w] = NoSid
  /\ tag' = [tag EXCEPT ![w] = sess[p]]
  /\ Goto(p, "record")
  /\ UNCHANGED <<owner, open, lock, sess, bound, seen, target, made>>

(* set-option -o creates and does not overwrite. *)
Create(p) ==
  LET w == WindowOf[p] IN
  /\ pc[p] = "create"
  /\ Consistent(p, seen[p])
  /\ IF seen[p][w] = NoSid
       THEN tag[w] = NoSid /\ tag' = [tag EXCEPT ![w] = sess[p]]
       ELSE UNCHANGED tag
  /\ Goto(p, "record")
  /\ UNCHANGED <<owner, open, lock, sess, bound, seen, target, made>>

Record(p) ==
  /\ pc[p] = "record"
  /\ owner' = [owner EXCEPT ![WindowOf[p]] = p]
  /\ Goto(p, "verify")
  /\ UNCHANGED <<tag, open, lock, sess, bound, seen, target, made>>

Verify(p) ==
  /\ pc[p] = "verify"
  /\ Tags(p)[WindowOf[p]] = sess[p] /\ Consistent(p, Tags(p))
  /\ bound' = bound \cup {p}
  /\ Done(p, "managed")
  /\ UNCHANGED tmux

-----------------------------------------------------------------------------
(* releaseCurrent() *)

RelCheck(p) ==
  /\ pc[p] = "relCheck"
  /\ Consistent(p, seen[p]) /\ ~HeldByOther(p)
  /\ IF seen[p][WindowOf[p]] = sess[p]
       THEN Goto(p, "relTag") /\ UNCHANGED <<lock, sess, seen, target, made>>
       ELSE Done(p, "idle")
  /\ UNCHANGED <<tmux, bound>>

RelTag(p) ==
  /\ pc[p] = "relTag"
  /\ tag' = [tag EXCEPT ![WindowOf[p]] = NoSid]
  /\ Goto(p, "relOwner")
  /\ UNCHANGED <<owner, open, lock, sess, bound, seen, target, made>>

RelOwner(p) ==
  /\ pc[p] = "relOwner"
  /\ owner' = [owner EXCEPT ![WindowOf[p]] = NoProc]
  /\ Done(p, "idle")
  /\ UNCHANGED <<tag, open, bound>>

-----------------------------------------------------------------------------
(* restoreWindow() *)

Matches(p) == {w \in Windows : seen[p][w] = target[p]}

ResExisting(p) ==
  /\ pc[p] = "resWindow" /\ Cardinality(Matches(p)) = 1
  /\ Done(p, "managed")
  /\ UNCHANGED <<tmux, bound>>

(* new-window: a Pi process may start in the window before it has its tag. *)
ResWindow(p, w) ==
  /\ pc[p] = "resWindow" /\ Matches(p) = {}
  /\ w \notin open /\ TmuxSession[w] = TmuxSession[WindowOf[p]]
  /\ open' = open \cup {w}
  /\ made' = [made EXCEPT ![p] = w]
  /\ Goto(p, "resTag")
  /\ UNCHANGED <<tag, owner, lock, sess, bound, seen, target>>

(* A tag the child made for the same session first is as good. *)
ResTag(p) ==
  /\ pc[p] = "resTag"
  /\ tag[made[p]] \in {NoSid, target[p]}
  /\ tag' = [tag EXCEPT ![made[p]] = target[p]]
  /\ Goto(p, "resVerify")
  /\ UNCHANGED <<owner, open, lock, sess, bound, seen, target, made>>

ResVerify(p) ==
  /\ pc[p] = "resVerify" /\ tag[made[p]] = target[p]
  /\ Done(p, "managed")
  /\ UNCHANGED <<tmux, bound>>

-----------------------------------------------------------------------------
(* The lock times out, a check refuses, or a tmux command fails: a session   *)
(* whose bind failed is managed all the same.                                *)
Releasing == {"release", "relInspect", "relCheck", "relTag", "relOwner"}

Fail(p) ==
  /\ pc[p] \notin {"new", "idle", "managed", "dead"}
  /\ Done(p, IF pc[p] \in Releasing THEN "idle" ELSE "managed")
  /\ UNCHANGED <<tmux, bound>>

(* kill -9, or the exit of a process: the helper's pipe closes. *)
Die(p) ==
  /\ Alive(p)
  /\ Done(p, "dead")
  /\ bound' = bound \ {p}
  /\ UNCHANGED tmux

-----------------------------------------------------------------------------
Session(p) ==
  \/ Launch(p) \/ EndSession(p) \/ Lock(p) \/ Inspect(p) \/ Fail(p) \/ Die(p)
  \/ \E s \in Sids : StartSession(p, s) \/ Reconcile(p, s)

Bind(p) == Reclaim(p) \/ DropTag(p) \/ DropOwner(p) \/ Create(p) \/ Record(p) \/ Verify(p)

Release(p) == RelCheck(p) \/ RelTag(p) \/ RelOwner(p)

Restore(p) == ResExisting(p) \/ (\E w \in Windows : ResWindow(p, w)) \/ ResTag(p) \/ ResVerify(p)

Next == \E p \in Procs : Session(p) \/ Bind(p) \/ Release(p) \/ Restore(p)

Spec == Init /\ [][Next]_vars

-----------------------------------------------------------------------------
(* In one tmux session a Pi session is bound to one window at most, whoever   *)
(* binds, reclaims, restores or dies in between.                              *)
OneWindowPerSession ==
  \A v, w \in Windows :
    tag[v] # NoSid /\ tag[v] = tag[w] /\ TmuxSession[v] = TmuxSession[w] => v = w

(* A bound process keeps its window until it releases it: nobody reclaims or  *)
(* releases the binding of a live owner, or overwrites either half of it.     *)
BoundKeepsWindow ==
  \A p \in bound : tag[WindowOf[p]] = sess[p] /\ owner[WindowOf[p]] = p

(* "A live owner retains exclusive ownership of its session binding".         *)
ExclusiveOwnership == \A p, q \in bound : sess[p] = sess[q] => p = q
=============================================================================
