---------------------------- MODULE AnalyzeProtocol ----------------------------
(***************************************************************************)
(* src/analyze/policy.ts and protocol.ts with the worker's boundedResult     *)
(* (extensions/analyze/worker-main.ts): what a caller's request is made of    *)
(* before it reaches the worker, which validates it again, and what the       *)
(* engine's result is made of before it reaches the supervisor, which         *)
(* validates it again.                                                       *)
(*                                                                          *)
(* Two checks of one thing must agree: a request called safe that the worker  *)
(* refuses, or a bounded result the supervisor refuses, is lost.  No request  *)
(* asks for benchmarks, and no result has any.                               *)
(***************************************************************************)
EXTENDS Integers, SequencesExt, FiniteSetsExt

CONSTANTS
  Timeouts,        \* timeouts asked for, in seconds; 0 is none of them
  MaxTimeout,      \* ANALYZE_LIMITS.timeoutMs, in seconds
  MaxFindings, MaxFailures, MaxMessage, MaxRelated, MaxResult,  \* the other limits
  Findings, Failures, \* what the engine may find, and what of it may fail
  MaxProduced      \* bound: findings, and failures, of the engine

Omitted == "omitted"
Unset == -1

(* What a caller asks for: the shape of each part. *)
PublicRequests ==
  [cwd : {"absolute", "bad"}, timeout : Timeouts \union {Unset},
   capability : {"none", "strict", "invalid"},
   scope : {Omitted, "all", "diff", "paths", "unknown"},
   paths : {Omitted, "none", "inside", "outside", "repeated"}, ref : {Omitted, "valid", "option"},
   checks : {"none", "safe", "strict", "unknown", "repeated"}]

(* Of a message its size, and whether it or the id has a NUL (the length of an id is   *)
(* cut to its limit); a bad location is longer than the limit, outside of the          *)
(* workspace, has a NUL in it or no line.                                            *)
Severities == {"info", "warning", "error"}
Locations == {"inside", "bad"}
AnyFinding == [severity : Severities, message : Nat, nul : BOOLEAN, location : Locations, related : Seq(Locations)]
AnyFailure == [analyzer : {"check"}, message : Nat, nul : BOOLEAN]

VARIABLES
  asked,     \* the caller's request
  policy,    \* what it was classified as, with the request that is sent
  received,  \* the request as the worker takes it
  produced,  \* the engine's result
  sent,      \* the worker's
  accepted,  \* the supervisor's
  step

protocolVars == <<asked, policy, received, produced, sent, accepted, step>>

Nothing == [tag |-> "none"]
Invalid == [tag |-> "invalid"]
Strict == [tag |-> "strict"]
Refused == [tag |-> "refused"]

-----------------------------------------------------------------------------
(* The policy *)

(* A timeout is brought into the limits; one that is not positive is invalid. *)
parseSafeLimits(timeout) ==
  IF timeout = Unset THEN MaxTimeout ELSE Min({MaxTimeout, Max({1, timeout})})

parseScopeSelection(scope, paths, ref) ==
  CASE scope = "all" /\ paths = Omitted /\ ref = Omitted -> "all"
    [] scope \in {Omitted, "diff"} /\ paths = Omitted /\ ref \in {Omitted, "valid"} -> "diff"
    [] scope = "paths" /\ ref = Omitted /\ paths = "inside" -> "paths"
    [] OTHER -> "invalid"

(* Repeated and unknown checks are invalid before others are strict. *)
parseChecks(checks) == IF checks \in {"safe", "strict"} THEN checks ELSE "invalid"

(* What is invalid is said before what would need strict containment. *)
classifyAnalyzeRequest(r) ==
  LET scope == parseScopeSelection(r.scope, r.paths, r.ref) IN
  IF \/ r.cwd = "bad" \/ r.timeout = 0 \/ r.capability = "invalid"
     \/ scope = "invalid" \/ parseChecks(r.checks) = "invalid" THEN Invalid
  ELSE IF parseChecks(r.checks) = "strict" \/ r.capability = "strict" \/ scope = "all" THEN Strict
  ELSE [tag |-> "safe", scope |-> scope, paths |-> r.paths, ref |-> r.ref, checks |-> r.checks,
        timeout |-> parseSafeLimits(r.timeout)]

-----------------------------------------------------------------------------
(* The worker's reading of a request *)

parseRequestScope(r) ==
  \/ r.scope = "diff" /\ r.paths = Omitted /\ r.ref \in {Omitted, "valid"}
  \/ r.scope = "paths" /\ r.ref = Omitted /\ r.paths = "inside"

validRequestLimits(r) == r.timeout \in 1 .. MaxTimeout

parseAnalyzeWorkerRequest(r) ==
  IF parseRequestScope(r) /\ r.checks = "safe" /\ validRequestLimits(r) THEN r ELSE Refused

-----------------------------------------------------------------------------
(* The worker's result *)

(* Texts and lists are cut; what is in them, and the locations, are taken over. *)
safeFailure(f) == [f EXCEPT !.message = Min({@, MaxMessage})]
safeFinding(f) == [f EXCEPT !.message = Min({@, MaxMessage}), !.related = SubSeq(@, 1, Min({Len(@), MaxRelated}))]
Truncated == [analyzer |-> "supervisor", message |-> 1, nul |-> FALSE]

Bytes(records) == FoldLeft(LAMBDA sum, r : sum + r.message, 0, records)

summaryOf(findings, failures) ==
  [s \in {"info", "warning", "error", "failures"} |->
     IF s = "failures" THEN Len(failures) ELSE Len(SelectSeq(findings, LAMBDA f : f.severity = s))]

(* What does not fit is dropped, and the number dropped is said in a failure. *)
materialize(findings, failures, dropped) ==
  LET said == failures \o IF dropped > 0 THEN <<Truncated>> ELSE <<>> IN
  [findings |-> findings, failures |-> said, summary |-> summaryOf(findings, said)]

Fits(result) == Bytes(result.findings) + Bytes(result.failures) <= MaxResult

(* The first of each, one place left for what is said of the rest; findings,     *)
(* then failures, are taken from the end until it fits.                          *)
boundedResult(result) ==
  LET n == Len(result.findings) m == Len(result.failures)
      findings == [i \in 1 .. Min({n, MaxFindings}) |-> safeFinding(result.findings[i])]
      failures == [i \in 1 .. Min({m, MaxFailures - 1}) |-> safeFailure(result.failures[i])]
      Cut(k) == LET f == Max({0, Len(findings) - k}) g == Len(failures) - (k - (Len(findings) - f))
                IN materialize(SubSeq(findings, 1, f), SubSeq(failures, 1, g), n + m - f - g)
      k == Min({j \in 0 .. Len(findings) + Len(failures) : Fits(Cut(j))})
  IN Cut(k)

-----------------------------------------------------------------------------
(* The supervisor's reading of a result *)

isBoundedString(r) == r.message \in 1 .. MaxMessage /\ ~r.nul
parseRelatedLocations(related) == Len(related) <= MaxRelated /\ "bad" \notin ToSet(related)
parseFinding(f) == /\ f.severity \in Severities /\ isBoundedString(f)
                   /\ f.location = "inside" /\ parseRelatedLocations(f.related)
parseFailure(f) == f.analyzer \in {"check", "supervisor"} /\ isBoundedString(f)
parseBoundedArrays(result) ==
  /\ Len(result.findings) <= MaxFindings /\ \A f \in ToSet(result.findings) : parseFinding(f)
  /\ Len(result.failures) <= MaxFailures /\ \A f \in ToSet(result.failures) : parseFailure(f)

(* The counts are counted again. *)
parseAnalysisResult(result) ==
  IF /\ parseBoundedArrays(result)
     /\ result.summary = summaryOf(result.findings, result.failures)
     /\ Fits(result)
  THEN result ELSE Refused

-----------------------------------------------------------------------------
Init == /\ asked \in PublicRequests /\ step = "ask"
        /\ policy = Nothing /\ received = Nothing /\ produced = Nothing /\ sent = Nothing /\ accepted = Nothing

Classify == /\ step = "ask" /\ policy' = classifyAnalyzeRequest(asked) /\ step' = "send"
            /\ UNCHANGED <<asked, received, produced, sent, accepted>>

Receive == /\ step = "send" /\ policy.tag = "safe"
           /\ received' = parseAnalyzeWorkerRequest(policy) /\ step' = "work"
           /\ UNCHANGED <<asked, policy, produced, sent, accepted>>

(* The engine's findings and failures do not depend on the shape of the request: *)
(* they are looked at for one.                                                   *)
Work == /\ step = "work" /\ received.tag = "safe"
        /\ received.scope = "diff" /\ received.ref = Omitted /\ asked.timeout = Unset /\ asked.scope = Omitted
        /\ \E n, m \in 0 .. MaxProduced : \E f \in [1 .. n -> Findings], g \in [1 .. m -> Failures] :
             produced' = [findings |-> f, failures |-> g]
        /\ step' = "bound"
        /\ UNCHANGED <<asked, policy, received, sent, accepted>>

Bound == /\ step = "bound" /\ sent' = boundedResult(produced) /\ step' = "accept"
         /\ UNCHANGED <<asked, policy, received, produced, accepted>>

Accept == /\ step = "accept" /\ accepted' = parseAnalysisResult(sent) /\ step' = "done"
          /\ UNCHANGED <<asked, policy, received, produced, sent>>

Next == Classify \/ Receive \/ Work \/ Bound \/ Accept
Spec == Init /\ [][Next]_protocolVars

-----------------------------------------------------------------------------
(* A kept record has something the worker does not look at: a text that is empty    *)
(* or has a NUL, or a bad location.                                                *)
Overlooked(result) ==
  \/ \E f \in ToSet(result.findings) : f.message = 0 \/ f.nul \/ f.location = "bad" \/ "bad" \in ToSet(f.related)
  \/ \E f \in ToSet(result.failures) : f.message = 0 \/ f.nul

(* A request that was classified as safe is one the worker takes, and asks for      *)
(* nothing that needs containment.  Of lengths, numbers, counts and bytes both sides  *)
(* agree: a result the worker has bounded is taken as it is, unless a record it keeps *)
(* is one that the worker overlooks and the supervisor does not, which costs the      *)
(* whole result.  One that is taken and has no failure is all of what the engine       *)
(* found, up to the length of a message, and had no failure.                        *)
SidesAgree ==
  /\ policy.tag = "safe" => asked.capability = "none" /\ asked.checks = "safe" /\ asked.scope # "all"
  /\ received # Refused
  /\ step = "done" =>
       IF Overlooked(sent) THEN accepted = Refused
       ELSE /\ accepted = sent
            /\ accepted.summary.failures = 0 =>
                 /\ produced.failures = <<>> /\ Len(accepted.findings) = Len(produced.findings)
                 /\ \A i \in DOMAIN accepted.findings : accepted.findings[i].severity = produced.findings[i].severity
================================================================================
