------------------------------ MODULE MC_DevTools ------------------------------
(* A finite instance of each part of dev-tools.  The parts share no state, so  *)
(* they are checked one at a time: the part in focus moves, the others rest.   *)
EXTENDS DevToolsDaemon, Naturals, Sequences, FiniteSets

CONSTANTS k1, r1, stop1,                               \* DevToolsDaemon
          Files, Root, Calls, MaxOpen, MaxGen, Volatile, \* LspBackend
          Callers, Polls, MaxFaults,                   \* DevToolsClient
          Handled, Sources, Real, BULK_OPEN_CONCURRENCY, MaxPaths, MaxPlaces, \* DevToolsRequests
          Targets, Versioned,                          \* WorkspaceEdit
          Content, MaxEdits,                           \* TextEdits
          Closeouts, NoCloseout, Remotes, Repositories, PullRequestRepository, \* Closeout
          Branches, ProtectedBranches                  \* Cleanup

(* The bounds of a run are numbers, the calls and requests of a run finitely many.  *)
ASSUME MaxGenAssumption == MaxGen \in Nat
ASSUME PollsAssumption == Polls \in Nat
ASSUME CallsAssumption == IsFiniteSet(Calls)
ASSUME RequestsAssumption == IsFiniteSet(Handled) /\ IsFiniteSet(Sources)

(* An edit that names a file twice is refused, and one of no file changes nothing. *)
ASSUME TargetsAssumption ==
  /\ Targets \in Seq({Targets[i] : i \in DOMAIN Targets}) /\ Targets # <<>>
  /\ \A i, j \in DOMAIN Targets : Targets[i] = Targets[j] => i = j

(* Nobody is not somebody. *)
ASSUME CloseoutAssumption == NoCloseout \notin Closeouts

VARIABLES focus,
  tag, gen, stage, unavailable, live, died, closed, pending, asked, call, file, book, root, disk,
  path, attempt, socket, opened, nextId, registry, wire, caller, answer, isClosed, faults,
  kind, step, want, joined, onDisk, editing, entry, load, next, worker, prepared, outcome, happened, before,
  text, staged, aside, source, compared, backedUp, undone, k, at, wrote,
  edits, result,
  pr, closeStep, sawTree, sawHead, holder, overtaken, head, tree, edited, base, fetched, indexBusy, worked,
  cleaning, force, merged, onRemote, tracked, pushed, trees, detached, dirty, stray, gone, listedTrees, plan, turn

theDaemon == vars
theBackend == <<tag, gen, stage, unavailable, live, died, closed, pending, asked, call, file, book, root, disk>>
theClient == <<path, attempt, socket, opened, nextId, registry, wire, caller, answer, isClosed, faults>>
theRequests == <<kind, step, want, joined, onDisk, editing, entry, load, next, worker, prepared, outcome,
                 happened, before>>
theEdit == <<text, staged, aside, source, compared, backedUp, undone, k, at, wrote>>
theTexts == <<edits, result>>
theCloseout == <<pr, closeStep, sawTree, sawHead, holder, overtaken, head, tree, edited, base, fetched, indexBusy, worked>>
theCleanup == <<cleaning, force, merged, onRemote, tracked, pushed, trees, detached, dirty, stray, gone, listedTrees,
                plan, turn>>

Backend == INSTANCE LspBackend
Client == INSTANCE DevToolsClient
Req == INSTANCE DevToolsRequests
Edit == INSTANCE WorkspaceEdit
Texts == INSTANCE TextEdits
Close == INSTANCE Closeout
Clean == INSTANCE Cleanup

(* One connection carries every request; the second file is in a project of its own. *)
MC_ConnOf == [r \in Requests |-> k1]
MC_Root == [f \in Files |-> IF f = "b" THEN "r2" ELSE "r1"]
MC_Real == [p \in Sources |-> IF p = "link" THEN "a" ELSE p]
MC_Targets == <<"f", "g">>
MC_Content == <<"x", "y">>

(* A rename with each kind of request that reads files; the others as they are. *)
Together == {<<"rename", "location">>, <<"rename", "calls">>, <<"rename", "references">>, <<"hover", "symbols">>,
             <<"diagnostics", "unknown">>}
aRequest == CHOOSE r \in Handled : TRUE

(* Of a part that is not in focus one initial state is enough. *)
MC_Init ==
  /\ focus \in {"daemon", "backend", "client", "requests", "edit", "texts", "closeout", "cleanup"}
  /\ Init /\ Backend!Init /\ Edit!Init
  /\ Client!Init /\ (focus = "client" \/ path = "none")
  /\ Req!Init /\ IF focus = "requests" THEN \E s \in Handled \ {aRequest} : <<kind[aRequest], kind[s]>> \in Together
                  ELSE \A r \in Handled : kind[r] = "hover"
  /\ Close!Init /\ (focus = "closeout" \/ (pr = "open" /\ head = "none" /\ edited = {} /\ base = "equal"))
  /\ Clean!Init
  /\ IF focus = "cleanup" THEN ProtectedBranches \subseteq (merged \cap onRemote \cap pushed) \ trees
     ELSE ~force /\ merged = {} /\ onRemote = {} /\ pushed = {} /\ tracked = {} /\ trees = {}
  /\ Texts!Init /\ (focus = "texts" \/ edits = <<>>)

MC_Next ==
  /\ UNCHANGED focus
  /\ \/ /\ focus = "daemon" /\ Next
        /\ UNCHANGED <<theBackend, theClient, theRequests, theEdit, theTexts, theCloseout, theCleanup>>
     \/ /\ focus = "backend" /\ Backend!Next
        /\ UNCHANGED <<theDaemon, theClient, theRequests, theEdit, theTexts, theCloseout, theCleanup>>
     \/ /\ focus = "client" /\ Client!Next
        /\ UNCHANGED <<theDaemon, theBackend, theRequests, theEdit, theTexts, theCloseout, theCleanup>>
     \/ /\ focus = "requests" /\ Req!Next
        /\ UNCHANGED <<theDaemon, theBackend, theClient, theEdit, theTexts, theCloseout, theCleanup>>
     \/ /\ focus = "edit" /\ Edit!Next
        /\ UNCHANGED <<theDaemon, theBackend, theClient, theRequests, theTexts, theCloseout, theCleanup>>
     \/ /\ focus = "texts" /\ Texts!Next
        /\ UNCHANGED <<theDaemon, theBackend, theClient, theRequests, theEdit, theCloseout, theCleanup>>
     \/ /\ focus = "closeout" /\ Close!Next
        /\ UNCHANGED <<theDaemon, theBackend, theClient, theRequests, theEdit, theTexts, theCleanup>>
     \/ /\ focus = "cleanup" /\ Clean!Next
        /\ UNCHANGED <<theDaemon, theBackend, theClient, theRequests, theEdit, theTexts, theCloseout>>

(* At rest nothing of a part is enabled that must happen. *)
MC_Spec ==
  /\ MC_Init
  /\ [][MC_Next]_<<focus, theDaemon, theBackend, theClient, theRequests, theEdit, theTexts, theCloseout, theCleanup>>
  /\ Fairness /\ Backend!Fairness /\ Client!Fairness

(* The properties of the parts. *)
ServerKnowsDocuments == Backend!ServerKnowsDocuments
AnswersReachTheirCallers == Client!AnswersReachTheirCallers

(* Requests in flight do not mix: of a path that a rename edited none reads old  *)
(* lines that it asks for after the rename has left the cache, and none gives     *)
(* one path the outcome of another.                                             *)
RequestsDoNotMix == Req!NoLinesFromBeforeRename /\ Req!EachPathItsOwnOutcome

(* An edit that is said to be applied is in every file, one that failed in none;  *)
(* wherever it stops, what a file held until it was compared is kept.  Nothing is   *)
(* promised to who writes later, and a crash or a failed rollback may leave some    *)
(* files edited.                                                                 *)
EditsAreWhole == Edit!AllOrNothing

(* In a file every change is made as if all were made at once. *)
EditsAreSimultaneous == Texts!EditsAreSimultaneous

(* The closeout of a pull request deletes nobody's work, a cleanup the only copy  *)
(* of it only by force.                                                         *)
NoWorkDeleted == Close!CloseoutKeepsWork /\ Clean!CleanupKeepsWork

(* Every wait ends: that of a daemon that was started, of a call to a language   *)
(* server, of a caller for its connection and its answer.                       *)
WaitsEnd == StartedDaemonEnds /\ Backend!CallsSettle /\ Client!CallersSettle
================================================================================
