----------------------------- MODULE MC_Processes -----------------------------
(***************************************************************************)
(* Finite instances of what runs in processes: the heavyweight lock, and the *)
(* parts of an analysis with the processes it supervises.  The parts share    *)
(* no state, so they are checked one at a time: the part in focus moves, the  *)
(* others rest.                                                              *)
(***************************************************************************)
EXTENDS MC_HeavyweightLock, Naturals, Sequences

CONSTANTS Streams, Limit, CombinedLimit, Chunks, MaxWritten, \* ChildProcess
          MaxDiagnostics, MaxLines,                          \* AnalyzeRun
          Timeouts, MaxTimeout, MaxFindings, MaxFailures, MaxMessage, MaxRelated, MaxResult, Findings, Failures, MaxProduced, \* AnalyzeProtocol
          Checks, Capability, Source, Minimum, Eslint, Bundle, Budgets,
          MaxTotal, MaxFound, MaxBatches, MaxBenchmarks,     \* AnalyzeEngine
          Paths, Dir, InDir, Unanalyzable, Skipped, Tests, FileSizes,
          MaxFiles, MaxEntries, MaxFileBytes, MaxTotalBytes, MaxEdits, \* AnalyzeScope
          Writers, JournalFileBytes, JournalTotalBytes, JournalFiles, LineBytes, MaxAppends \* AnalysisJournal

(* Limits and bounds are numbers, and a command has two streams. *)
ASSUME ProcessAssumption ==
  /\ Streams = {"stdout", "stderr"} /\ Limit \in [Streams -> Nat] /\ CombinedLimit \in Nat
  /\ Chunks \subseteq Nat

(* Findings and benchmarks are bounded. *)
ASSUME EngineAssumption == MaxTotal \in Nat /\ MaxFound \in Nat /\ MaxBenchmarks \in Nat

(* A directory is no file, and what is in it is among the files. *)
ASSUME ScopeAssumption ==
  /\ Paths \in Seq({Paths[i] : i \in DOMAIN Paths})
  /\ \A i \in DOMAIN Paths : Paths[i] # Dir
  /\ \A f \in InDir : \E i \in DOMAIN Paths : f = Paths[i]
  /\ FileSizes \subseteq Nat /\ MaxFiles \in Nat /\ MaxTotalBytes \in Nat

(* normalizeOptions: a file takes any line, all of them take a file. *)
ASSUME JournalAssumption ==
  /\ JournalFileBytes \in Nat /\ JournalTotalBytes \in Nat /\ JournalFileBytes <= JournalTotalBytes
  /\ JournalFiles \in Nat \ {0} /\ MaxAppends \in Nat
  /\ LineBytes # {} /\ LineBytes \subseteq 1 .. JournalFileBytes

VARIABLES focus,
  mode, direct, ignores, descendant, code, written, kept, unread, closeSeen, terminalError,
  termination, outcome,
  worker, program, pipe, arrived, queue, handling, phase, stopping, main, recorded, told,
  cancelled, verdict,
  asked, policy, received, produced, sent, accepted, step,
  selected, at, todo, loaded, loadedFor, running, found, failures, stopped, ran, benchmarks,
  disk, change, scopeAsked, select, scopeAt, left, entries, scope, hunks, sources, bytes, edits,
  rotated, current, size, mtime, journalStep, after, line, handle, journalBytes, journalSeen, opened,
  appends

theLock == <<lock, guard, pc, seen>>
theProcess == <<mode, direct, ignores, descendant, code, written, kept, unread, closeSeen,
                terminalError, termination, outcome>>
theRun == <<worker, program, pipe, arrived, queue, handling, phase, stopping, main, recorded, told,
            cancelled, verdict>>
theProtocol == <<asked, policy, received, produced, sent, accepted, step>>
theEngine == <<selected, at, todo, loaded, loadedFor, running, found, failures, stopped, ran,
               benchmarks>>
theScope == <<disk, change, scopeAsked, select, scopeAt, left, entries, scope, hunks, sources,
              bytes, edits>>
theJournal == <<rotated, current, size, mtime, journalStep, after, line, handle, journalBytes,
                journalSeen, opened, appends>>

Process == INSTANCE ChildProcess
Run == INSTANCE AnalyzeRun
Protocol == INSTANCE AnalyzeProtocol

(* No limit of a result or a request is 0. *)
ASSUME ProtocolAssumption ==
  /\ {MaxFindings, MaxRelated} \subseteq Nat /\ {MaxFailures, MaxMessage, MaxResult, MaxTimeout} \subseteq Nat \ {0}
  /\ Findings \subseteq Protocol!AnyFinding /\ Failures \subseteq Protocol!AnyFailure /\ Timeouts \subseteq Nat

Engine == INSTANCE AnalyzeEngine
Scope == INSTANCE AnalyzeScope WITH asked <- scopeAsked, at <- scopeAt
Journal == INSTANCE AnalysisJournal WITH step <- journalStep, bytes <- journalBytes, seen <- journalSeen

MC_Limit == [s \in Streams |-> 2]
MC_Capability == [c \in Checks |-> CASE c \in {"duplicates", "testDuplicates"} -> "syntax" [] c = "types" -> "type" [] OTHER -> "external"]
MC_Source == [c \in Checks |-> IF c = "testDuplicates" THEN "tests" ELSE "production"]
MC_Minimum == [c \in Checks |-> CASE c = "types" -> 4 [] c = "eslint" -> 6 [] c = "bundle" -> 3 [] OTHER -> 2]
MC_Paths == <<"a", "b", "t">>

(* Findings whose messages or lists are to be cut, or that have what is overlooked.  *)
Sound == [severity |-> "info", message |-> 1, nul |-> FALSE, location |-> "inside", related |-> <<>>]
MC_Findings ==
  {Sound, [Sound EXCEPT !.severity = "warning", !.message = 3], [Sound EXCEPT !.severity = "error"],
   [Sound EXCEPT !.message = 0], [Sound EXCEPT !.nul = TRUE], [Sound EXCEPT !.location = "bad"],
   [Sound EXCEPT !.related = <<"bad">>], [Sound EXCEPT !.related = <<"inside", "bad">>]}
MC_Failures == [analyzer : {"check"}, message : {0, 1, 3}, nul : {FALSE}] \cup [analyzer : {"check"}, message : {1}, nul : {TRUE}]

AnyRequest == CHOOSE r \in Protocol!PublicRequests : TRUE
AnyScope == CHOOSE r \in Scope!Requests : r.mode # "diff"

(* Of a part that is not in focus one initial state is enough. *)
MC_Init ==
  /\ focus \in {"lock", "process", "run", "protocol", "engine", "scope", "journal"}
  /\ Init
  /\ (focus # "process" => (mode = "collect" /\ ignores = FALSE)) /\ Process!Init
  /\ Run!Init
  /\ (focus # "protocol" => asked = AnyRequest) /\ Protocol!Init
  /\ (focus # "engine" => (selected = {} /\ benchmarks = 0)) /\ Engine!Init
  /\ (focus # "scope" => (scopeAsked = AnyScope /\ select = {"tests"} /\ disk = [f \in Scope!Files |-> 0] /\ change = [f \in Scope!Files |-> "same"])) /\ Scope!Init
  /\ Journal!Init

MC_Next ==
  /\ UNCHANGED focus
  /\ \/ /\ focus = "lock" /\ Next
        /\ UNCHANGED <<theProcess, theRun, theProtocol, theEngine, theScope, theJournal>>
     \/ /\ focus = "process" /\ Process!Next
        /\ UNCHANGED <<theLock, theRun, theProtocol, theEngine, theScope, theJournal>>
     \/ /\ focus = "run" /\ Run!Next
        /\ UNCHANGED <<theLock, theProcess, theProtocol, theEngine, theScope, theJournal>>
     \/ /\ focus = "protocol" /\ Protocol!Next
        /\ UNCHANGED <<theLock, theProcess, theRun, theEngine, theScope, theJournal>>
     \/ /\ focus = "engine" /\ Engine!Next
        /\ UNCHANGED <<theLock, theProcess, theRun, theProtocol, theScope, theJournal>>
     \/ /\ focus = "scope" /\ Scope!Next
        /\ UNCHANGED <<theLock, theProcess, theRun, theProtocol, theEngine, theJournal>>
     \/ /\ focus = "journal" /\ Journal!Next
        /\ UNCHANGED <<theLock, theProcess, theRun, theProtocol, theEngine, theScope>>

(* At rest nothing of a part is enabled that must happen. *)
MC_Spec ==
  /\ MC_Init
  /\ [][MC_Next]_<<focus, theLock, theProcess, theRun, theProtocol, theEngine, theScope,
                   theJournal>>
  /\ \A p \in Procs : WF_vars(Acquire(p))
  /\ Process!Fairness
  /\ Run!Fairness

(* The properties of the parts. *)
NothingLeftBehind == Process!NothingLeftBehind
RunIsWhole == Run!RunIsWhole
JournalIsBounded == Journal!JournalIsBounded

(* The scope is what was loaded, but for changed files whose names git writes with  *)
(* a tab or in quotes (scope.ts); each check that was selected was run or named; and   *)
(* the supervisor reads the worker's result as it was sent, or refuses the whole of    *)
(* it for a text or a location the worker took over as it was.                       *)
ReportIsComplete == Scope!ScopeIsLoaded /\ Engine!CompleteOrSaid /\ Protocol!SidesAgree

(* A stale lock is recovered, a run that was begun ends with a verdict, and a      *)
(* process that was given up is told of.                                           *)
RunsEnd == StaleLeaseRecovered /\ Run!RunEnds /\ Process!GivenUpIsTold
==============================================================================
