----------------------------- MODULE AnalyzeEngine -----------------------------
(***************************************************************************)
(* src/analyze/engine.ts with registry.ts, benchmark.ts and external/: the    *)
(* stages of an analysis in the worker.  Checks are refused before anything    *)
(* is loaded when the memory asked for cannot do; the others run one after      *)
(* another, those on syntax, those on types, then external programs, as long    *)
(* as the memory in use stays below the budget.                                *)
(*                                                                          *)
(* The worker does not interrupt an analysis: it is killed (AnalyzeRun).        *)
(***************************************************************************)
EXTENDS Integers, FiniteSets

CONSTANTS
  Checks,          \* names of analyzers
  Capability,      \* of a check: syntax, type or external
  Source,          \* of a check on syntax: production or tests
  Minimum,         \* minimumTotalMemoryMb of a check
  Eslint, Bundle,  \* two of the external checks
  Budgets,         \* memory asked for
  MaxTotal,        \* MAX_TOTAL_FINDINGS
  MaxFound,        \* bound: findings of one batch
  MaxBatches,      \* bound: batches or entry points of one check
  MaxBenchmarks    \* bound: benchmarks asked for

VARIABLES
  selected,   \* the checks asked for
  at,         \* where the analysis is
  todo,       \* checks that have yet to run
  loaded,     \* what the capability that runs has loaded, or what it failed to
  loadedFor,  \* that capability
  running,    \* the check that runs, with its batches and findings so far
  found,      \* findings kept
  failures,   \* what failed, each by its analyzer
  stopped,    \* whether the remaining stages are skipped
  ran,        \* checks that ran to their end, and of which nothing was dropped
  benchmarks  \* benchmarks that have yet to run

engineVars == <<selected, at, todo, loaded, loadedFor, running, found, failures, stopped, ran, benchmarks>>

NoCheck == [check |-> "none"]

Init == /\ selected \in SUBSET Checks /\ at = "setup" /\ todo = {} /\ loaded = {} /\ loadedFor = "none"
        /\ running = NoCheck /\ found = 0 /\ failures = {} /\ stopped = FALSE /\ ran = {}
        /\ benchmarks \in 0 .. MaxBenchmarks

(* The whole analysis fails: what was found so far is not in its result. *)
Fail(analyzer) == /\ at' = "done" /\ found' = 0 /\ failures' = {analyzer}
                  /\ UNCHANGED <<selected, todo, loaded, loadedFor, running, stopped, ran, benchmarks>>

-----------------------------------------------------------------------------
(* Setup *)

validateOptions == at = "setup" /\ Fail("configuration")

(* Checks that the budget is too small for are failures; when none is left, not *)
(* even the scope is looked at.                                                 *)
setupAnalysis ==
  /\ at = "setup"
  /\ \E budget \in Budgets :
       LET small == {c \in selected : budget < Minimum[c]} IN
       /\ todo' = selected \ small /\ failures' = small
       /\ IF selected # {} /\ small = selected THEN at' = "done" ELSE at' = "scope"
  /\ UNCHANGED <<selected, loaded, loadedFor, running, found, stopped, ran, benchmarks>>

resolveScope ==
  /\ at = "scope"
  /\ \/ /\ at' = "checks"
        /\ UNCHANGED <<selected, todo, loaded, loadedFor, running, found, failures, stopped, ran, benchmarks>>
     \/ Fail("scope")

-----------------------------------------------------------------------------
(* Stages *)

Of(capability) == {c \in todo : Capability[c] = capability}
Current == IF Of("syntax") # {} THEN "syntax" ELSE IF Of("type") # {} THEN "type" ELSE "external"

(* The checks on syntax share a project of all the sources they look at. *)
syntaxSourceSelection == {Source[c] : c \in Of("syntax")}

(* The guard: over the budget the check and all later stages are skipped. *)
memoryGuard(c) == /\ stopped' = TRUE /\ failures' = failures \union {c}
                  /\ UNCHANGED <<selected, at, todo, loaded, loadedFor, running, found, ran, benchmarks>>

loadProject ==
  /\ at = "checks" /\ ~stopped /\ running = NoCheck /\ todo # {}
  /\ Current # "external" /\ loadedFor # Current
  /\ \/ \E first \in Of(Current) : memoryGuard(first)
     \/ Fail("program")
     \/ /\ loaded' = IF Current = "syntax" THEN syntaxSourceSelection ELSE {"types"}
        /\ loadedFor' = Current
        /\ UNCHANGED <<selected, at, todo, running, found, failures, stopped, ran, benchmarks>>

(* An external check runs once per batch of its paths, or per entry point. *)
startCheck ==
  /\ at = "checks" /\ ~stopped /\ running = NoCheck /\ todo # {}
  /\ Current = "external" \/ loadedFor = Current
  /\ \E c \in Of(Current) :
       \/ memoryGuard(c)
       \/ /\ todo' = todo \ {c}
          /\ \E n \in IF Current = "external" THEN 0 .. MaxBatches ELSE {1} :
               running' = [check |-> c, batches |-> n, findings |-> 0, outcome |-> "none", exceeded |-> FALSE]
          /\ UNCHANGED <<selected, at, loaded, loadedFor, found, failures, stopped, ran, benchmarks>>

Batch(r) == /\ running' = r
            /\ UNCHANGED <<selected, at, todo, loaded, loadedFor, found, failures, stopped, ran, benchmarks>>

(* Findings make the linter exit with 1, which is not a failure of the check.  *)
(* A failure in one batch is the outcome of the check.                         *)
runBatch ==
  /\ running # NoCheck /\ running.outcome = "none" /\ running.batches > 0
  /\ \/ \E n \in 0 .. MaxFound : Batch([running EXCEPT !.batches = @ - 1, !.findings = @ + n])
     \/ \E exitCode \in {1, 2} :
          IF running.check = Eslint /\ exitCode = 1
          THEN Batch([running EXCEPT !.batches = @ - 1, !.findings = @ + 1])
          ELSE Batch([running EXCEPT !.outcome = "failure"])

(* bundleGate: no entry point is begun above the budget; those before it stand. *)
bundleGate ==
  /\ running # NoCheck /\ running.outcome = "none" /\ running.batches > 0 /\ running.check = Bundle
  /\ Batch([running EXCEPT !.outcome = "success", !.exceeded = TRUE])

lastBatch ==
  /\ running # NoCheck /\ running.outcome = "none" /\ running.batches = 0
  /\ Batch([running EXCEPT !.outcome = "success"])

(* As many findings of a check as there is room for are kept. *)
room == MaxTotal - found
capFindings(n) == IF n > room THEN room ELSE n
addFindings(r) == found' = IF r.outcome = "failure" THEN found ELSE found + capFindings(r.findings)
Dropped(r) == r.outcome = "success" /\ r.findings > room

(* Mutant: an entry point that was not begun is not a failure. *)
endCheckUngated ==
  /\ running # NoCheck /\ running.outcome # "none"
  /\ LET c == running.check dropped == Dropped(running) IN
     /\ \E over \in BOOLEAN :
          /\ stopped' = (over \/ running.exceeded)
          /\ failures' = failures \union IF running.outcome = "failure" \/ dropped \/ over THEN {c} ELSE {}
     /\ addFindings(running)
     /\ ran' = IF running.outcome = "success" /\ ~dropped /\ ~running.exceeded
                  /\ (Capability[c] = "syntax" => Source[c] \in loaded)
               THEN ran \union {c} ELSE ran
  /\ running' = NoCheck
  /\ UNCHANGED <<selected, at, todo, loaded, loadedFor, benchmarks>>

(* runAnalyzerStage: findings beyond the global limit are dropped and said to be; *)
(* the memory is looked at once more after the check.                            *)
endCheck ==
  /\ running # NoCheck /\ running.outcome # "none"
  /\ LET c == running.check dropped == Dropped(running) IN
     /\ \E over \in BOOLEAN :
          /\ stopped' = (over \/ running.exceeded)
          /\ failures' = failures \union
               IF running.outcome = "failure" \/ running.exceeded \/ dropped \/ over THEN {c} ELSE {}
     /\ addFindings(running)
     /\ ran' = IF running.outcome = "success" /\ ~dropped /\ ~running.exceeded
                  /\ (Capability[c] = "syntax" => Source[c] \in loaded)
               THEN ran \union {c} ELSE ran
  /\ running' = NoCheck
  /\ UNCHANGED <<selected, at, todo, loaded, loadedFor, benchmarks>>

-----------------------------------------------------------------------------
(* An invalid benchmark has failed, and one of which a warmup or a run fails. *)
runBenchmarkOutcomes == {"measured", "failed"}

(* Benchmarks run after the checks, unless these were stopped. *)
runBenchmark ==
  /\ at = "checks" /\ running = NoCheck /\ todo = {} /\ ~stopped /\ benchmarks > 0
  /\ benchmarks' = benchmarks - 1
  /\ \E outcome \in runBenchmarkOutcomes :
       failures' = IF outcome = "failed" THEN failures \union {"benchmark"} ELSE failures
  /\ UNCHANGED <<selected, at, todo, loaded, loadedFor, running, found, stopped, ran>>

finalizeResult ==
  /\ at = "checks" /\ running = NoCheck /\ (stopped \/ (todo = {} /\ benchmarks = 0))
  /\ at' = "done"
  /\ UNCHANGED <<selected, todo, loaded, loadedFor, running, found, failures, stopped, ran, benchmarks>>

Next == \/ validateOptions \/ setupAnalysis \/ resolveScope \/ loadProject \/ startCheck
        \/ runBatch \/ bundleGate \/ lastBatch \/ endCheck \/ runBenchmark \/ finalizeResult
Spec == Init /\ [][Next]_engineVars

-----------------------------------------------------------------------------
(* A result without a failure is complete: every check that was asked for ran on  *)
(* all of its sources and batches, no finding was dropped, and every benchmark     *)
(* ran.                                                                           *)
CompleteOrSaid ==
  at = "done" /\ failures = {} => ran = selected /\ todo = {} /\ benchmarks = 0 /\ found <= MaxTotal
================================================================================
