------------------------------ MODULE LspBackend ------------------------------
(***************************************************************************)
(* extensions/dev-tools/backend.ts with document-manager.ts and             *)
(* diagnostics-cache.ts: the owner of one language server.                  *)
(*                                                                          *)
(* The backend starts, stops and restarts the server, and its callers open  *)
(* documents in it, ask it requests and await its diagnostics.  Every start *)
(* and every stop is a generation; what was begun in one generation (a       *)
(* startup, a request, a listener) may end in a later one.  An action is    *)
(* the code between two awaits.  A fiber that awaits a Deferred goes on in   *)
(* the step that settles it.                                                *)
(***************************************************************************)
EXTENDS Integers, FiniteSets, SequencesExt

CONSTANTS
  Files,
  Root,      \* the project root of each file
  Calls,     \* operations of callers, each made once
  MaxOpen,   \* documents kept open
  MaxGen,    \* bound: generations
  Volatile   \* bound: files that others write or remove, once

VARIABLES
  tag, gen,      \* the lifecycle; odd generations start, even ones stop
  stage,         \* of the startup of each generation
  unavailable,   \* whether the stop under way ends in unavailable
  live,          \* generations whose process runs
  died,          \* generations whose process died and which were not told yet
  closed,        \* generations whose process scope was closed
  pending,       \* <<call or "init", generation>>: requests to be answered
  asked,         \* those the server still has to answer
  call,          \* where each call is
  file,          \* the file of each call
  book,          \* documents open here and diagnostics, and what the server was told
  root,          \* initialWorkspaceRoot
  disk           \* the text of each file

lifecycle == <<tag, gen, stage, unavailable>>
process == <<live, died, closed>>
vars == <<lifecycle, process, pending, asked, call, file, book, root, disk>>

NoText == 0     \* not open, or not to be read
NoRoot == "none"
Gens == 0..MaxGen
NoDocs == [f \in Files |-> NoText]

Init == /\ tag = "idle" /\ gen = 0 /\ stage = [g \in Gens |-> "none"] /\ unavailable = FALSE
        /\ live = {} /\ died = {} /\ closed = {}
        /\ pending = {} /\ asked = {}
        /\ call = [c \in Calls |-> "new"] /\ file = [c \in Calls |-> CHOOSE f \in Files : TRUE]
        /\ book = [text |-> NoDocs, order |-> <<>>, diag |-> {}, known |-> NoDocs, folders |-> {}]
        /\ root = NoRoot
        /\ disk = [f \in Files |-> 1]

Current(g) == tag \in {"starting", "running"} /\ gen = g

-----------------------------------------------------------------------------
(* Documents.  A book also says what the server was told, which is written to *)
(* its standard input while the process is there to read it.                  *)

(* The project of a document is new to the server. *)
NewRoot(b, f) == \A x \in Files : b.text[x] # NoText => Root[x] # Root[f]

Without(order, out) == SelectSeq(order, LAMBDA x : x \notin out)

Forget(b, out, hears) ==
  [b EXCEPT !.text = [x \in Files |-> IF x \in out THEN NoText ELSE @[x]],
            !.order = Without(@, out),
            !.diag = @ \ out,
            !.known = IF hears THEN [x \in Files |-> IF x \in out THEN NoText ELSE @[x]] ELSE @]

(* The least recently used documents over the limit. *)
Evicted(b) == ToSet(SubSeq(b.order, 1, Len(b.order) - MaxOpen))

(* Open, refresh or only touch a document; an unreadable file changes nothing. *)
Sent(b, f, hears) ==
  [b EXCEPT !.text[f] = disk[f],
            !.order = Append(Without(@, {f}), f),
            !.diag = IF b.text[f] = disk[f] THEN @ ELSE @ \ {f},
            !.known[f] = IF hears /\ b.text[f] # disk[f] THEN disk[f] ELSE @,
            !.folders = IF hears /\ NewRoot(b, f) /\ Root[f] # root THEN @ \cup {Root[f]} ELSE @]

Ensured(b, f, hears) ==
  IF disk[f] = NoText THEN b
  ELSE LET sent == Sent(b, f, hears) IN Forget(sent, Evicted(sent), hears)

(* The documents of several calls, one after the other. *)
EnsuredAll(cs) ==
  LET ensured[n \in 0..Len(cs)] == IF n = 0 THEN book ELSE Ensured(ensured[n - 1], file[cs[n]], TRUE)
  IN ensured[Len(cs)]

(* Mutant: the documents of the last server are taken for open in the next. *)
ResetDiagnostics == book' = [book EXCEPT !.diag = {}]

(* The caches of this side; the server that knew the documents is going. *)
ResetCaches == book' = [book EXCEPT !.text = NoDocs, !.order = <<>>, !.diag = {}]

(* Whoever waits for first diagnostics goes on once they come or are deleted. *)
Woken(c, fs) == IF call[c] = "watching" /\ file[c] \in fs THEN "done" ELSE call[c]

-----------------------------------------------------------------------------
(* How a generation ends *)

(* Who fails when it does: its requests, and those who await its startup. *)
Failing(c, g) == <<c, g>> \in pending \/ call[c] = "starting"

(* The lifecycle turns to stopping; the scope of the process is closed; the *)
(* caches are reset now, unless that is left to the end of the stop.        *)
Stop(g, reset) ==
  /\ tag' = "stopping" /\ gen' = g + 1
  /\ closed' = closed \cup {g}
  /\ call' = [c \in Calls |-> IF Failing(c, g) THEN "failed"
                              ELSE IF reset THEN Woken(c, Files) ELSE call[c]]
  /\ pending' = {r \in pending : r[2] # g}
  /\ IF reset THEN ResetCaches ELSE UNCHANGED book
  /\ UNCHANGED <<live, asked, file, root, disk>>

(* failStartupEffect: the lifecycle stops unless it has gone on without it. *)
StartupFails(g, kind) ==
  /\ stage' = [stage EXCEPT ![g] = "over"]
  /\ IF tag = "starting" /\ gen = g
     THEN Stop(g, TRUE) /\ unavailable' = (kind = "unavailable") /\ UNCHANGED died
     ELSE /\ closed' = closed \cup {g}
          /\ UNCHANGED <<tag, gen, unavailable, live, died, pending, asked, call, file, book, root, disk>>

Shutdown ==
  /\ tag \in {"starting", "running"}
  /\ Stop(gen, FALSE)
  /\ UNCHANGED <<stage, unavailable, died>>

(* The process has closed, or the scope had none yet. *)
StopEnds ==
  /\ tag = "stopping" /\ gen - 1 \notin live
  /\ tag' = IF unavailable THEN "unavailable" ELSE "idle"
  /\ unavailable' = FALSE
  /\ ResetCaches
  /\ call' = [c \in Calls |-> Woken(c, Files)]
  /\ UNCHANGED <<gen, stage, process, pending, asked, file, root, disk>>

-----------------------------------------------------------------------------
(* Startup *)

(* ensureStartedEffect in each of its states, for a call about a file. *)
EnsureFile(c, f) ==
  /\ call[c] = "new"
  /\ file' = [file EXCEPT ![c] = f]
  /\ \/ /\ tag = "running"
        /\ book' = Ensured(book, f, gen \in live)
        /\ call' = [call EXCEPT ![c] = "ready"]
        /\ UNCHANGED <<lifecycle, root>>
     \/ /\ tag = "starting"
        /\ call' = [call EXCEPT ![c] = "starting"]
        /\ UNCHANGED <<lifecycle, book, root>>
     \/ /\ tag \in {"stopping", "unavailable"}
        /\ call' = [call EXCEPT ![c] = "failed"]
        /\ UNCHANGED <<lifecycle, book, root>>
     \/ /\ tag = "idle" /\ gen + 2 <= MaxGen
        /\ tag' = "starting" /\ gen' = gen + 1
        /\ stage' = [stage EXCEPT ![gen + 1] = "lookup"]
        /\ root' = Root[f]
        /\ call' = [call EXCEPT ![c] = "starting"]
        /\ UNCHANGED <<unavailable, book>>
  /\ UNCHANGED <<process, pending, asked, disk>>

(* The binary is found, is not installed, or the lookup fails. *)
Lookup(g) ==
  /\ stage[g] = "lookup"
  /\ \/ /\ Current(g)
        /\ stage' = [stage EXCEPT ![g] = "spawning"]
        /\ UNCHANGED <<tag, gen, unavailable, process, pending, asked, call, file, book, root, disk>>
     \/ \E kind \in {"unavailable", "failed"} : StartupFails(g, kind)

(* Listeners are attached to the process and initialize is sent; a process    *)
(* that comes too late finds its scope closed.                                *)
Spawned(g) ==
  /\ stage[g] = "spawning"
  /\ live' = live \cup {g}
  /\ IF Current(g)
     THEN /\ stage' = [stage EXCEPT ![g] = "initializing"]
          /\ pending' = pending \cup {<<"init", g>>}
          /\ asked' = asked \cup {<<"init", g>>}
          /\ book' = [book EXCEPT !.known = NoDocs, !.folders = {root}]
          /\ UNCHANGED closed
     ELSE /\ stage' = [stage EXCEPT ![g] = "over"]
          /\ closed' = closed \cup {g}
          /\ UNCHANGED <<pending, asked, book>>
  /\ UNCHANGED <<tag, gen, unavailable, died, call, file, root, disk>>

SpawnFails(g) == stage[g] = "spawning" /\ StartupFails(g, "failed")

(* initialize is refused or times out, or was failed by a stop. *)
InitializeFails(g) ==
  /\ stage[g] = "initializing"
  /\ StartupFails(g, "failed")

(* The server runs, and whoever waited for it opens their documents. *)
Initialized(g) ==
  /\ <<"init", g>> \in asked \cap pending /\ g \in live /\ Current(g)
  /\ tag' = "running"
  /\ stage' = [stage EXCEPT ![g] = "over"]
  /\ pending' = pending \ {<<"init", g>>} /\ asked' = asked \ {<<"init", g>>}
  /\ LET waiting == {c \in Calls : call[c] = "starting"} IN
       \E waiters \in [1..Cardinality(waiting) -> waiting] :
         IsInjective(waiters) /\ book' = EnsuredAll(waiters)
  /\ call' = [c \in Calls |-> IF call[c] = "starting" THEN "ready" ELSE call[c]]
  /\ UNCHANGED <<gen, unavailable, process, file, root, disk>>

-----------------------------------------------------------------------------
(* The process *)

(* It crashes, or is killed because its scope was closed. *)
Dies(g) ==
  /\ g \in live
  /\ live' = live \ {g} /\ died' = died \cup {g}
  /\ asked' = {r \in asked : r[2] # g}
  /\ UNCHANGED <<lifecycle, closed, pending, call, file, book, root, disk>>

(* Its exit or error event; listeners were detached when the scope closed. *)
OnExit(g) ==
  /\ g \in died
  /\ died' = died \ {g}
  /\ IF Current(g) THEN Stop(g, TRUE) /\ UNCHANGED <<stage, unavailable>>
     ELSE UNCHANGED <<lifecycle, live, closed, pending, asked, call, file, book, root, disk>>

-----------------------------------------------------------------------------
(* Requests *)

Request(c) ==
  /\ call[c] = "ready"
  /\ IF tag = "running"
     THEN /\ call' = [call EXCEPT ![c] = "asked"]
          /\ pending' = pending \cup {<<c, gen>>}
          /\ asked' = IF gen \in live THEN asked \cup {<<c, gen>>} ELSE asked
     ELSE call' = [call EXCEPT ![c] = "failed"] /\ UNCHANGED <<pending, asked>>
  /\ UNCHANGED <<lifecycle, process, file, book, root, disk>>

(* An answer or an error from the server, of which a later generation and a  *)
(* caller that timed out do not hear.                                        *)
Answer(c, g) ==
  /\ <<c, g>> \in asked
  /\ asked' = asked \ {<<c, g>>}
  /\ IF Current(g) /\ <<c, g>> \in pending
     THEN /\ pending' = pending \ {<<c, g>>}
          /\ \E end \in {"done", "failed"} : call' = [call EXCEPT ![c] = end]
     ELSE UNCHANGED <<pending, call>>
  /\ UNCHANGED <<lifecycle, process, file, book, root, disk>>

TimesOut(c, g) ==
  /\ <<c, g>> \in pending
  /\ pending' = pending \ {<<c, g>>}
  /\ call' = [call EXCEPT ![c] = "failed"]
  /\ UNCHANGED <<lifecycle, process, asked, file, book, root, disk>>

-----------------------------------------------------------------------------
(* Diagnostics *)

Watch(c) ==
  /\ call[c] = "ready"
  /\ call' = [call EXCEPT ![c] = IF file[c] \in book.diag THEN "done" ELSE "watching"]
  /\ UNCHANGED <<lifecycle, process, pending, asked, file, book, root, disk>>

Publish(f) ==
  /\ gen \in live /\ Current(gen) /\ book.known[f] # NoText
  /\ book' = [book EXCEPT !.diag = @ \cup {f}]
  /\ call' = [c \in Calls |-> Woken(c, {f})]
  /\ UNCHANGED <<lifecycle, process, pending, asked, file, root, disk>>

WatchTimesOut(c) ==
  /\ call[c] = "watching"
  /\ call' = [call EXCEPT ![c] = "done"]
  /\ UNCHANGED <<lifecycle, process, pending, asked, file, book, root, disk>>

CloseFile(f) ==
  /\ book.text[f] # NoText
  /\ book' = Forget(book, {f}, tag \in {"starting", "running"} /\ gen \in live)
  /\ call' = [c \in Calls |-> Woken(c, {f})]
  /\ UNCHANGED <<lifecycle, process, pending, asked, file, root, disk>>

(* Somebody writes or removes a file. *)
Edit(f) ==
  /\ f \in Volatile /\ disk[f] = 1
  /\ \E text \in {2, NoText} : disk' = [disk EXCEPT ![f] = text]
  /\ UNCHANGED <<lifecycle, process, pending, asked, call, file, book, root>>

-----------------------------------------------------------------------------
Startup(g) == Lookup(g) \/ Spawned(g) \/ SpawnFails(g) \/ InitializeFails(g) \/ Initialized(g)

Next ==
  \/ \E c \in Calls, f \in Files : EnsureFile(c, f)
  \/ \E c \in Calls : Request(c) \/ Watch(c) \/ WatchTimesOut(c)
  \/ \E c \in Calls, g \in Gens : Answer(c, g) \/ TimesOut(c, g)
  \/ \E g \in Gens : Startup(g) \/ Dies(g) \/ OnExit(g)
  \/ \E f \in Files : Publish(f) \/ CloseFile(f) \/ Edit(f)
  \/ Shutdown \/ StopEnds

(* Timers fire, events are delivered, a spawn ends, and a process whose scope *)
(* was closed is killed in the end.  Nothing makes the server answer.         *)
Fairness ==
  /\ \A g \in Gens : /\ WF_vars(Lookup(g)) /\ WF_vars(Spawned(g) \/ SpawnFails(g))
                     /\ WF_vars(InitializeFails(g)) /\ WF_vars(OnExit(g))
                     /\ WF_vars(g \in closed /\ Dies(g))
  /\ \A c \in Calls : /\ WF_vars(WatchTimesOut(c)) /\ WF_vars(\E g \in Gens : TimesOut(c, g))
  /\ WF_vars(StopEnds)

Spec == Init /\ [][Next]_vars /\ Fairness

-----------------------------------------------------------------------------
(* While the server runs it has exactly the documents this side takes for     *)
(* open, with the same text and their projects: a restart, an eviction, a     *)
(* dead server nobody noticed yet and files read late leave nothing behind.   *)
ServerKnowsDocuments ==
  tag = "running" /\ gen \in live =>
    /\ book.known = book.text
    /\ \A f \in Files : book.text[f] # NoText => Root[f] \in book.folders

(* Whoever waits for the server, an answer or diagnostics goes on, however    *)
(* starts, stops, deaths and timeouts cross; and no process outlives the      *)
(* generation that started it.                                                *)
CallsSettle ==
  []<>( /\ \A c \in Calls : call[c] \notin {"starting", "asked", "watching"}
        /\ \A g \in live : g = gen )
=============================================================================
