------------------------------ MODULE RuntimeBus ------------------------------
(***************************************************************************)
(* extensions/session-manager/runtime-bus.ts: the coordinator's socket and its   *)
(* clients.                                                                   *)
(*                                                                          *)
(* A frame is parsed, checked for identity and deadline and counted against the   *)
(* connection's requests in flight; then its handler runs.  A request that changes  *)
(* something carries an idempotency key: the same request again shares the promise  *)
(* of the first, another one with its key is a conflict.                          *)
(***************************************************************************)
EXTENDS Naturals, Sequences, FiniteSets

CONSTANTS
  Conns,     \* connections
  Keys,      \* idempotency keys
  MAX_CONNECTIONS, MAX_IN_FLIGHT,
  MAX_CACHE, \* 256
  MaxFrames  \* bound: requests

VARIABLES
  serving,   \* whether the server runs
  conn,      \* of each connection: "none", "open", "closed" by a protocol error, "gone"
  inFlight,  \* requests of a connection that run
  frames,    \* every request, in the order it arrived
  cache,     \* what was asked under a key, and the run that answers it; oldest first
  runs,      \* handlers that were started
  forgotten  \* runs the cache dropped

busVars == <<serving, conn, inFlight, frames, cache, runs, forgotten>>

(* A frame is as it should be, or its form, its identity or its deadline is not. *)
Flaws == {"none", "flawed"}
Contents == {"reconcile", "publish-ready"}

Init == /\ serving = TRUE /\ conn = [c \in Conns |-> "none"] /\ inFlight = [c \in Conns |-> 0]
        /\ frames = <<>> /\ cache = <<>> /\ runs = <<>> /\ forgotten = {}

connections == Cardinality({c \in Conns : conn[c] \in {"open", "closed"}})

(* Connections are numbered as they come; one above the limit is destroyed. *)
Connect(c) ==
  /\ serving /\ conn[c] = "none" /\ \A d \in Conns : d < c => conn[d] # "none"
  /\ conn' = [conn EXCEPT ![c] = IF connections < MAX_CONNECTIONS THEN "open" ELSE "gone"]
  /\ UNCHANGED <<serving, inFlight, frames, cache, runs, forgotten>>

(* runtimeRequest: a ping has no key, a new key is the next one. *)
Used == {frames[i].key : i \in DOMAIN frames} \ {0}
requestFor(c, content, key, flaw) ==
  /\ conn[c] = "open" /\ Len(frames) < MaxFrames
  /\ frames' = Append(frames, [conn |-> c, content |-> content, key |-> key, flaw |-> flaw, at |-> "wire", run |-> 0])
  /\ UNCHANGED <<serving, conn, inFlight, cache, runs, forgotten>>

Requests(c) == \/ \E content \in Contents, key \in Keys : key <= 1 + Cardinality(Used) /\ requestFor(c, content, key, "none")
               \/ \E flaw \in Flaws : requestFor(c, "ping", 0, flaw)

Put(i, at, run) == frames' = [frames EXCEPT ![i].at = at, ![i].run = run]

(* A connection answers what it received in that order, one frame after the other. *)
Next1(i) == /\ frames[i].at = "wire" /\ conn[frames[i].conn] = "open"
            /\ \A j \in 1 .. i - 1 : frames[j].conn = frames[i].conn => frames[j].at # "wire"

(* The error is written, the rest of what the connection sent is ignored. *)
protocolError(i) ==
  LET c == frames[i].conn IN
  /\ Next1(i)
  /\ \/ frames[i].flaw # "none" /\ UNCHANGED inFlight
     \/ frames[i].flaw = "none" /\ inFlight[c] = MAX_IN_FLIGHT /\ inFlight' = [inFlight EXCEPT ![c] = @ + 1]
  /\ Put(i, "refused", 0) /\ conn' = [conn EXCEPT ![c] = "closed"]
  /\ UNCHANGED <<serving, cache, runs, forgotten>>

(* Entries expire in the order they were made; of a full cache the oldest goes. *)
Kept(s, n) == SubSeq(s, n + 1, Len(s))
Dropped(n) == {cache[k].run : k \in 1 .. n}
Expirable(n) == \A k \in 1 .. n : runs[cache[k].run].at # "running"
Entries(s, key) == {k \in 1 .. Len(s) : s[k].key = key}

Run(content, key) == [content |-> content, key |-> key, at |-> "running"]
Cached(s, content, key, r) == Append(s, [key |-> key, content |-> content, run |-> r])

(* Mutant: what was asked before is not compared. *)
SameKey(entry, f) == TRUE

digest(entry, f) == entry.content = f.content

Remembers(s, f) == \E k \in Entries(s, f.key) : digest(s[k], f)
Conflicts(s, f) == \E k \in Entries(s, f.key) : ~digest(s[k], f)

(* The promise is kept at once: whoever asks again shares it. *)
Stored(s, f, r) == LET room == IF Len(s) >= MAX_CACHE THEN Tail(s) ELSE s IN Cached(room, f.content, f.key, r)

invokeRequest(i) ==
  LET f == frames[i]   c == f.conn   new == Len(runs) + 1 IN
  /\ Next1(i) /\ f.flaw = "none" /\ inFlight[c] < MAX_IN_FLIGHT
  /\ \E n \in 0 .. Len(cache) :
       LET live == Kept(cache, n) IN
       /\ Expirable(n) /\ (f.key = 0 => n = 0) /\ ~Conflicts(live, f)
       /\ IF f.key # 0 /\ Remembers(live, f)
          THEN /\ \E k \in Entries(live, f.key) : Put(i, "running", live[k].run)
               /\ cache' = live /\ forgotten' = forgotten \cup Dropped(n) /\ UNCHANGED runs
          ELSE /\ runs' = Append(runs, Run(f.content, f.key)) /\ Put(i, "running", new)
               /\ cache' = (IF f.key = 0 THEN cache ELSE Stored(live, f, new))
               /\ forgotten' = forgotten \cup Dropped(IF f.key # 0 /\ Len(live) >= MAX_CACHE THEN n + 1 ELSE n)
  /\ inFlight' = [inFlight EXCEPT ![c] = @ + 1]
  /\ UNCHANGED <<serving, conn>>

(* A conflict is thrown where nobody catches it: the coordinator's process ends. *)
IdempotencyConflict(i) ==
  /\ Next1(i) /\ frames[i].flaw = "none" /\ frames[i].key # 0 /\ Conflicts(cache, frames[i])
  /\ inFlight[frames[i].conn] < MAX_IN_FLIGHT
  /\ serving' = FALSE /\ conn' = [c \in Conns |-> "gone"]
  /\ UNCHANGED <<inFlight, frames, cache, runs, forgotten>>

HandlerEnds(r) ==
  /\ serving /\ runs[r].at = "running" /\ \E end \in {"done", "failed"} : runs' = [runs EXCEPT ![r].at = end]
  /\ UNCHANGED <<serving, conn, inFlight, frames, cache, forgotten>>

(* The answer is written to a connection that is still there; of a result above     *)
(* 64 KiB it is an error, though the request was done.                             *)
Responds(i) ==
  LET c == frames[i].conn
      end == runs[frames[i].run].at
  IN
  /\ frames[i].at = "running" /\ end # "running"
  /\ \E answer \in IF conn[c] # "open" THEN {"lost"} ELSE IF end = "done" THEN {"done", "tooLarge"} ELSE {end} :
       Put(i, answer, frames[i].run)
  /\ inFlight' = [inFlight EXCEPT ![c] = @ - 1]
  /\ UNCHANGED <<serving, conn, cache, runs, forgotten>>

(* Fifteen idle seconds, the client's timeout, or its end. *)
Disconnects(c) ==
  /\ conn[c] \in {"open", "closed"} /\ conn' = [conn EXCEPT ![c] = "gone"]
  /\ UNCHANGED <<serving, inFlight, frames, cache, runs, forgotten>>

Close == /\ serving /\ serving' = FALSE /\ conn' = [c \in Conns |-> "gone"]
         /\ UNCHANGED <<inFlight, frames, cache, runs, forgotten>>

Next == \/ Close
        \/ \E c \in Conns : Connect(c) \/ Requests(c) \/ Disconnects(c)
        \/ \E i \in DOMAIN frames : protocolError(i) \/ invokeRequest(i) \/ IdempotencyConflict(i) \/ Responds(i)
        \/ \E r \in DOMAIN runs : HandlerEnds(r)

Spec == Init /\ [][Next]_busVars

-----------------------------------------------------------------------------
(* While the cache remembers it, what is asked under one key is done once; an      *)
(* answer is that of a run of the very request; and no connection has more          *)
(* requests running than it may.                                                  *)
AskedOnceDoneOnce ==
  /\ \A r, q \in DOMAIN runs : r < q /\ runs[r].key # 0 /\ runs[r].key = runs[q].key => r \in forgotten
  /\ \A i \in DOMAIN frames : frames[i].run # 0 =>
       /\ runs[frames[i].run].content = frames[i].content /\ runs[frames[i].run].key = frames[i].key
       /\ frames[i].at \in {"done", "failed"} => runs[frames[i].run].at = frames[i].at
  /\ \A c \in Conns : Cardinality({i \in DOMAIN frames : frames[i].conn = c /\ frames[i].at = "running"}) <= MAX_IN_FLIGHT
================================================================================
