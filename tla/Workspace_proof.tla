---------------------------- MODULE Workspace_proof ----------------------------
(***************************************************************************)
(* Theorems about the workspace's coordinator and about a session's         *)
(* lifecycle, for any processes, windows, connections, sessions and bounds.  Each part of MC_Workspace is treated   *)
(* alone: a step of the composition is a step of the part or leaves its       *)
(* variables unchanged, so what the part's steps preserve holds throughout.   *)
(***************************************************************************)
EXTENDS MC_Workspace, SequenceTheorems, FiniteSetTheorems, TLAPS

-----------------------------------------------------------------------------
(* WorkspaceStart: the binding of its window keeps a coordinator alone, whatever     *)
(* became of the start lock; while no starter was overtaken, whoever holds the lock   *)
(* is alone between the probe of the socket and its claim, and nobody is chosen        *)
(* while another is.                                                              *)

(* Once past the checks; under a claim of its own; and with its window bound.       *)
Clearing == {"unlinkSocket", "unlinkMetadata", "unlinkClaim", "createClaim", "writeClaim"}
Claiming == {"exec", "launch", "boot", "bind", "listen", "publish", "unclaim"}
Binding == {"listen", "publish", "unclaim", "serving", "closing"}
Chosen == Clearing \cup Claiming \cup {"serving"}
StartStates == Start!Locking \cup Claiming
               \cup {"off", "lock", "reconcile", "serving", "closing", "release", "dead"}

StartTypeOK == /\ at \in [Starters -> StartStates] /\ window \in [Starters -> StartWindows]
               /\ DOMAIN startTag = StartWindows /\ known \in BOOLEAN

OwnWindow == \A p, q \in Starters : p # q /\ Start!processAlive(p) /\ Start!processAlive(q) => window[p] # window[q]

(* Whoever is bound is bound alone. *)
BoundAlone == \A p \in Starters : at[p] \in Binding =>
                /\ startTag[window[p]] = p
                /\ \A q \in Starters \ {p} : at[q] \notin Binding

WindowInv == StartTypeOK /\ OwnWindow /\ BoundAlone

Guarded == \A p \in Starters : /\ at[p] \in Start!Locking => startLock = p
                               /\ at[p] \in Claiming \cup {"writeClaim"} => claim = p
                               /\ at[p] \in Claiming => ~torn

(* Before the first coordinator is recorded nobody is beyond recording it. *)
NotYetKnown == ~known => \A p \in Starters : at[p] \in {"off", "lock", "read", "create", "dead"}
FirstRecord == \A p, q \in Starters : at[p] = "create" => at[q] \in {"off", "lock", "create", "dead"}

(* Whoever saw no live claim under the lock goes on as if there is none. *)
ClaimChecked == \A p, q \in Starters : at[p] \in {"metadata", "windows"} => at[q] \notin Claiming

(* One is chosen, and by then whoever closes is done with the files. *)
SoleChosen == \A p, q \in Starters : p # q /\ at[p] \in Chosen => at[q] \notin Chosen \cup {"closing"}

Published == \A p \in Starters : /\ at[p] \in {"publish", "unclaim", "serving"} => socket = p
                                 /\ at[p] \in {"unclaim", "serving"} => metadata = p

LockInv == Guarded /\ NotYetKnown /\ FirstRecord /\ ClaimChecked /\ SoleChosen /\ Published
StartInv == WindowInv /\ (overtaken = {} => LockInv)

LEMMA StartInit == Start!Init => StartInv
  BY DEF Start!Init, StartInv, WindowInv, LockInv, StartTypeOK, OwnWindow, BoundAlone, Guarded, NotYetKnown, FirstRecord,
         ClaimChecked, SoleChosen, Published, StartStates, Start!Locking, Clearing, Claiming, Binding, Chosen,
         Start!processAlive

(* A process that binds its window finds no other window bound. *)
LEMMA WindowStep ==
  ASSUME WindowInv, NEW p \in Starters,
         \/ Start!Main(p)
         \/ Start!Locked(p)
         \/ Start!readCatalog(p)
         \/ Start!ensureCoordinator(p)
         \/ Start!probeCoordinator(p)
         \/ Start!classifyLiveClaim(p)
         \/ Start!assertCoordinatorOffline(p)
         \/ Start!coordinatorWindows(p)
         \/ Start!removeOwnedSocket(p)
         \/ Start!removeFileIfPresent(p)
         \/ Start!removeClaim(p)
         \/ Start!createClaim(p)
         \/ Start!writeClaim(p)
         \/ Start!reconcileActive(p)
         \/ Start!launchCoordinator(p)
         \/ Start!parseLaunchIntent(p)
         \/ Start!claimed(p)
         \/ Start!bindCurrent(p)
         \/ Start!listen(p)
         \/ Start!startRuntimeBus(p)
         \/ Start!unclaim(p)
         \/ Start!SessionShutdown(p)
         \/ Start!releaseCurrent(p)
         \/ Start!Crash(p)
         \/ \E f \in Start!Files : Start!Unlinks(p, f)
  PROVE  WindowInv'
<1> USE StartAssumption DEF WindowInv, StartTypeOK, OwnWindow, BoundAlone, StartStates, Claiming, Binding,
      Start!Goes, Start!Passes, Start!Frozen, Start!Refused, Start!Releases, Start!Lock, Start!Claim, Start!Artifacts,
      Start!processAlive, Start!Locking
<1>1. CASE Start!Main(p)
  BY <1>1 DEF Start!Main
<1>2. CASE Start!Locked(p)
  BY <1>2 DEF Start!Locked, Start!Overtakes
<1>3. CASE Start!readCatalog(p)
  BY <1>3 DEF Start!readCatalog
<1>4. CASE Start!ensureCoordinator(p)
  <2>1. CASE Start!Refused(p) /\ UNCHANGED window
    BY <2>1
  <2>2. CASE ~Start!Refused(p)
    <3>1. /\ known' = TRUE /\ at' = [at EXCEPT ![p] = IF at[p] = "ensure" THEN "probe" ELSE "unlinkSocket"]
          /\ at[p] \in {"ensure", "create"} /\ UNCHANGED <<window, startTag>>
      BY <1>4, <2>2 DEF Start!ensureCoordinator
    <3> HIDE DEF Start!Refused
    <3> QED BY <3>1
  <2> QED BY <1>4, <2>1, <2>2 DEF Start!ensureCoordinator
<1>5. CASE Start!probeCoordinator(p)
  BY <1>5 DEF Start!probeCoordinator
<1>6. CASE Start!classifyLiveClaim(p)
  BY <1>6 DEF Start!classifyLiveClaim, Start!ClaimAllows
<1>7. CASE Start!assertCoordinatorOffline(p)
  BY <1>7 DEF Start!assertCoordinatorOffline
<1>8. CASE Start!coordinatorWindows(p)
  BY <1>8 DEF Start!coordinatorWindows, Start!Bound
<1>9. CASE Start!removeOwnedSocket(p)
  BY <1>9 DEF Start!removeOwnedSocket
<1>10. CASE Start!removeFileIfPresent(p)
  BY <1>10 DEF Start!removeFileIfPresent
<1>11. CASE Start!removeClaim(p)
  BY <1>11 DEF Start!removeClaim
<1>12. CASE Start!createClaim(p)
  BY <1>12 DEF Start!createClaim
<1>13. CASE Start!writeClaim(p)
  BY <1>13 DEF Start!writeClaim
<1>14. CASE Start!reconcileActive(p)
  BY <1>14 DEF Start!reconcileActive
<1>15. CASE Start!launchCoordinator(p)
  BY <1>15 DEF Start!launchCoordinator
<1>16. CASE Start!parseLaunchIntent(p)
  BY <1>16 DEF Start!parseLaunchIntent, Start!Fails, Start!Listening
<1>17. CASE Start!claimed(p)
  BY <1>17 DEF Start!claimed, Start!Fails, Start!Listening
<1>18. CASE Start!bindCurrent(p)
  BY <1>18 DEF Start!bindCurrent, Start!Bound, Start!Fails, Start!Listening
<1>19. CASE Start!listen(p)
  BY <1>19 DEF Start!listen, Start!Fails, Start!Listening
<1>20. CASE Start!startRuntimeBus(p)
  BY <1>20 DEF Start!startRuntimeBus, Start!Fails, Start!Listening
<1>21. CASE Start!unclaim(p)
  BY <1>21 DEF Start!unclaim, Start!Fails, Start!Listening
<1>22. CASE Start!SessionShutdown(p)
  BY <1>22 DEF Start!SessionShutdown, Start!Fails, Start!Listening
<1>23. CASE Start!releaseCurrent(p)
  BY <1>23 DEF Start!releaseCurrent
<1>24. CASE Start!Crash(p)
  BY <1>24 DEF Start!Crash
<1>25. CASE \E f \in Start!Files : Start!Unlinks(p, f)
  BY <1>25 DEF Start!Unlinks
<1> QED BY <1>1, <1>2, <1>3, <1>4, <1>5, <1>6, <1>7, <1>8, <1>9, <1>10, <1>11, <1>12, <1>13, <1>14, <1>15, <1>16, <1>17, <1>18, <1>19, <1>20, <1>21, <1>22, <1>23, <1>24, <1>25

(* Nobody is overtaken by a step of the one that holds the lock. *)
LEMMA LockStep ==
  ASSUME WindowInv, WindowInv', LockInv, overtaken = {}, overtaken' = {}, NEW p \in Starters,
         \/ Start!Main(p)
         \/ Start!Locked(p)
         \/ Start!readCatalog(p)
         \/ Start!ensureCoordinator(p)
         \/ Start!probeCoordinator(p)
         \/ Start!classifyLiveClaim(p)
         \/ Start!assertCoordinatorOffline(p)
         \/ Start!coordinatorWindows(p)
         \/ Start!removeOwnedSocket(p)
         \/ Start!removeFileIfPresent(p)
         \/ Start!removeClaim(p)
         \/ Start!createClaim(p)
         \/ Start!writeClaim(p)
         \/ Start!reconcileActive(p)
         \/ Start!launchCoordinator(p)
         \/ Start!parseLaunchIntent(p)
         \/ Start!claimed(p)
         \/ Start!bindCurrent(p)
         \/ Start!listen(p)
         \/ Start!startRuntimeBus(p)
         \/ Start!unclaim(p)
         \/ Start!SessionShutdown(p)
         \/ Start!releaseCurrent(p)
         \/ Start!Crash(p)
         \/ \E f \in Start!Files : Start!Unlinks(p, f)
  PROVE  LockInv'
<1> USE StartAssumption DEF WindowInv, LockInv, StartTypeOK, OwnWindow, BoundAlone, Guarded, NotYetKnown, FirstRecord,
      ClaimChecked, SoleChosen, Published, StartStates, Clearing, Claiming, Binding, Chosen,
      Start!Disturbs, Start!Goes, Start!Passes, Start!Frozen, Start!Refused, Start!Releases, Start!Lock, Start!Claim, Start!Artifacts,
      Start!processAlive, Start!Locking
<1>1. CASE Start!Main(p)
  BY <1>1 DEF Start!Main
<1>2. CASE Start!Locked(p)
  BY <1>2 DEF Start!Locked, Start!Overtakes
<1>3. CASE Start!readCatalog(p)
  BY <1>3 DEF Start!readCatalog
<1>4. CASE Start!ensureCoordinator(p)
  BY <1>4 DEF Start!ensureCoordinator
<1>5. CASE Start!probeCoordinator(p)
  BY <1>5 DEF Start!probeCoordinator
<1>6. CASE Start!classifyLiveClaim(p)
  BY <1>6 DEF Start!classifyLiveClaim, Start!ClaimAllows
<1>7. CASE Start!assertCoordinatorOffline(p)
  BY <1>7 DEF Start!assertCoordinatorOffline
<1>8. CASE Start!coordinatorWindows(p)
  BY <1>8 DEF Start!coordinatorWindows, Start!Bound
<1>9. CASE Start!removeOwnedSocket(p)
  BY <1>9 DEF Start!removeOwnedSocket
<1>10. CASE Start!removeFileIfPresent(p)
  BY <1>10 DEF Start!removeFileIfPresent
<1>11. CASE Start!removeClaim(p)
  BY <1>11 DEF Start!removeClaim
<1>12. CASE Start!createClaim(p)
  BY <1>12 DEF Start!createClaim
<1>13. CASE Start!writeClaim(p)
  <2>1. claim = p
    BY <1>13 DEF Start!writeClaim
  <2>2. torn' = FALSE /\ at' = [at EXCEPT ![p] = "exec"] /\ startLock' = Nobody
        /\ UNCHANGED <<known, claim, socket, metadata, startTag, undone, window>>
    BY <1>13, <2>1 DEF Start!writeClaim
  <2> QED BY <1>13, <2>1, <2>2 DEF Start!writeClaim
<1>14. CASE Start!reconcileActive(p)
  BY <1>14 DEF Start!reconcileActive
<1>15. CASE Start!launchCoordinator(p)
  BY <1>15 DEF Start!launchCoordinator
<1>16. CASE Start!parseLaunchIntent(p)
  BY <1>16 DEF Start!parseLaunchIntent, Start!Fails, Start!Listening
<1>17. CASE Start!claimed(p)
  BY <1>17 DEF Start!claimed, Start!Fails, Start!Listening
<1>18. CASE Start!bindCurrent(p)
  BY <1>18 DEF Start!bindCurrent, Start!Bound, Start!Fails, Start!Listening
<1>19. CASE Start!listen(p)
  BY <1>19 DEF Start!listen, Start!Fails, Start!Listening
<1>20. CASE Start!startRuntimeBus(p)
  BY <1>20 DEF Start!startRuntimeBus, Start!Fails, Start!Listening
<1>21. CASE Start!unclaim(p)
  BY <1>21 DEF Start!unclaim, Start!Fails, Start!Listening
<1>22. CASE Start!SessionShutdown(p)
  BY <1>22 DEF Start!SessionShutdown, Start!Fails, Start!Listening
<1>23. CASE Start!releaseCurrent(p)
  BY <1>23 DEF Start!releaseCurrent
<1>24. CASE Start!Crash(p)
  BY <1>24 DEF Start!Crash
<1>25. CASE \E f \in Start!Files : Start!Unlinks(p, f)
  BY <1>25 DEF Start!Unlinks
<1> QED BY <1>1, <1>2, <1>3, <1>4, <1>5, <1>6, <1>7, <1>8, <1>9, <1>10, <1>11, <1>12, <1>13, <1>14, <1>15, <1>16, <1>17, <1>18, <1>19, <1>20, <1>21, <1>22, <1>23, <1>24, <1>25

(* Who was overtaken stays recorded. *)
LEMMA OvertakenStays == [Start!Next]_Start!startVars => overtaken \subseteq overtaken'
<1> USE DEF Start!Disturbs, Start!Releases, Start!Refused, Start!Passes, Start!Lock, Start!Fails
<1> QED
  BY DEF Start!Next, Start!startVars, Start!selectCoordinator, Start!Coordinates, Start!Main, Start!Locked, Start!Overtakes,
         Start!readCatalog, Start!ensureCoordinator, Start!probeCoordinator, Start!classifyLiveClaim,
         Start!assertCoordinatorOffline, Start!coordinatorWindows, Start!removeOwnedSocket, Start!removeFileIfPresent,
         Start!removeClaim, Start!createClaim, Start!writeClaim, Start!reconcileActive, Start!launchCoordinator,
         Start!parseLaunchIntent, Start!claimed, Start!bindCurrent, Start!listen, Start!startRuntimeBus, Start!unclaim,
         Start!SessionShutdown, Start!Unlinks, Start!releaseCurrent, Start!Crash, Start!CloseWindow

LEMMA StartStep == StartInv /\ [Start!Next]_Start!startVars => StartInv'
<1> SUFFICES ASSUME StartInv, [Start!Next]_Start!startVars PROVE StartInv'
  OBVIOUS
<1>1. CASE UNCHANGED Start!startVars
  BY <1>1 DEF Start!startVars, StartInv, WindowInv, LockInv, StartTypeOK, OwnWindow, BoundAlone, Guarded, NotYetKnown,
              FirstRecord, ClaimChecked, SoleChosen, Published, Start!processAlive
<1>2. CASE \E w \in StartWindows : Start!CloseWindow(w)
  BY <1>2 DEF Start!CloseWindow, Start!Frozen, Start!Artifacts, Start!Claim, Start!Lock, StartInv, WindowInv, LockInv,
              StartTypeOK, OwnWindow, BoundAlone, Guarded, NotYetKnown, FirstRecord, ClaimChecked, SoleChosen, Published,
              Start!processAlive, Binding
<1>3. CASE Start!Next /\ ~\E w \in StartWindows : Start!CloseWindow(w)
  <2>1. WindowInv'
    BY <1>3, WindowStep DEF StartInv, Start!Next, Start!selectCoordinator, Start!Coordinates
  <2>2. ASSUME overtaken' = {} PROVE LockInv'
    <3>1. overtaken = {}
      BY <2>2, OvertakenStays
    <3> QED BY <1>3, <2>1, <2>2, <3>1, LockStep DEF StartInv, Start!Next, Start!selectCoordinator, Start!Coordinates
  <2> QED BY <2>1, <2>2 DEF StartInv
<1> QED BY <1>1, <1>2, <1>3

LEMMA StartMoves == [MC_Next]_<<focus, theBinding, theLifecycle, theStart, theBus, theRestore>> => [Start!Next]_Start!startVars
  BY DEF MC_Next, theStart, Start!startVars

(* Whatever was started, paused, closed or killed before, a coordinator that serves is  *)
(* alone and has its window, also between starters that overtook each other's lock;       *)
(* while none was overtaken, socket and metadata lead to it (start.ts, launch.ts).         *)
THEOREM CoordinatorIsAlone == MC_Spec => []OneCoordinator
<1>1. StartInv => OneCoordinator
  BY DEF StartInv, WindowInv, LockInv, OneCoordinator, Start!OneCoordinator, BoundAlone, Published, Binding
<1>2. MC_Init => Start!Init
  BY DEF MC_Init
<1> QED BY <1>1, <1>2, StartInit, StartStep, StartMoves, PTL DEF MC_Spec

-----------------------------------------------------------------------------
(* RuntimeBus: the cache holds the last run of every key that was not forgotten, and *)
(* a frame that runs is counted by its connection.                                 *)

BusContents == Bus!Contents \cup {"ping"}
FrameStates == {"wire", "refused", "running", "done", "failed", "tooLarge", "lost"}
Frames == [conn : Conns, content : BusContents, key : Keys \cup {0}, flaw : Bus!Flaws,
           at : FrameStates, run : Nat]
Runs == [content : BusContents, key : Keys \cup {0}, at : {"running", "done", "failed"}]
Entries == [key : Keys, content : BusContents, run : Nat]

BusTypeOK ==
  /\ frames \in Seq(Frames) /\ runs \in Seq(Runs) /\ cache \in Seq(Entries)
  /\ conn \in [Conns -> {"none", "open", "closed", "gone"}] /\ inFlight \in [Conns -> Int]
  /\ serving \in BOOLEAN

FramesAnswered ==
  \A i \in DOMAIN frames :
    /\ frames[i].run # 0 <=> frames[i].at \notin {"wire", "refused"}
    /\ frames[i].run # 0 => /\ frames[i].run \in DOMAIN runs
                            /\ runs[frames[i].run].content = frames[i].content
                            /\ runs[frames[i].run].key = frames[i].key
                            /\ frames[i].at \in {"done", "failed"} => runs[frames[i].run].at = frames[i].at

CacheTold ==
  /\ \A k \in DOMAIN cache : /\ cache[k].run \in DOMAIN runs
                             /\ runs[cache[k].run].key = cache[k].key
                             /\ runs[cache[k].run].content = cache[k].content
  /\ \A j, k \in DOMAIN cache : cache[j].key = cache[k].key => j = k

OnceRemembered ==
  /\ \A r \in DOMAIN runs : runs[r].key # 0 /\ r \notin forgotten => \E k \in DOMAIN cache : cache[k].run = r
  /\ \A r, q \in DOMAIN runs : r < q /\ runs[r].key # 0 /\ runs[r].key = runs[q].key => r \in forgotten

FlightsOf(fs, c) == {i \in DOMAIN fs : fs[i].conn = c /\ fs[i].at = "running"}
InFlight(c) == FlightsOf(frames, c)
FlightsCounted == \A c \in Conns : Cardinality(InFlight(c)) <= inFlight[c] /\ Cardinality(InFlight(c)) <= MAX_IN_FLIGHT

BusInv == BusTypeOK /\ FramesAnswered /\ CacheTold /\ OnceRemembered /\ FlightsCounted

LEMMA BusInit == Bus!Init => BusInv
<1> SUFFICES ASSUME Bus!Init PROVE BusInv
  OBVIOUS
<1> USE BusAssumption
<1>1. BusTypeOK
  BY DEF Bus!Init, BusTypeOK
<1>2. FlightsCounted
  <2>1. \A c \in Conns : InFlight(c) = {}
    BY DEF Bus!Init, InFlight, FlightsOf
  <2>2. Cardinality({}) = 0
    BY FS_EmptySet
  <2> QED BY <2>1, <2>2 DEF FlightsCounted, Bus!Init
<1>3. FramesAnswered /\ CacheTold /\ OnceRemembered
  BY DEF Bus!Init, FramesAnswered, CacheTold, OnceRemembered
<1> QED BY <1>1, <1>2, <1>3 DEF BusInv

(* One frame changes where it is and what it runs. *)
LEMMA PutChanges ==
  ASSUME BusTypeOK, NEW i \in DOMAIN frames, NEW a, NEW r, Bus!Put(i, a, r)
  PROVE  /\ DOMAIN frames' = DOMAIN frames /\ Len(frames') = Len(frames)
         /\ frames'[i].at = a /\ frames'[i].run = r
         /\ frames'[i].conn = frames[i].conn /\ frames'[i].content = frames[i].content
         /\ frames'[i].key = frames[i].key /\ frames'[i].flaw = frames[i].flaw
         /\ \A j \in DOMAIN frames \ {i} : frames'[j] = frames[j]
         /\ a \in FrameStates /\ r \in Nat => frames' \in Seq(Frames)
<1>1. frames \in Seq(Frames) /\ frames[i] \in Frames
  BY DEF BusTypeOK
<1> DEFINE g == [[frames[i] EXCEPT !.at = a] EXCEPT !.run = r]
<1>2. frames' = [frames EXCEPT ![i] = g]
  BY <1>1 DEF Bus!Put
<1>3. /\ g.at = a /\ g.run = r /\ g.conn = frames[i].conn /\ g.content = frames[i].content
      /\ g.key = frames[i].key /\ g.flaw = frames[i].flaw
      /\ a \in FrameStates /\ r \in Nat => g \in Frames
  BY <1>1 DEF Frames
<1> HIDE DEF g
<1> QED BY <1>1, <1>2, <1>3

(* What is kept of the cache is its end. *)
LEMMA KeptIs ==
  ASSUME BusTypeOK, NEW n \in 0 .. Len(cache)
  PROVE  LET live == Bus!Kept(cache, n) IN
         /\ live \in Seq(Entries) /\ Len(live) = Len(cache) - n
         /\ \A k \in 1 .. Len(live) : live[k] = cache[k + n]
         /\ Len(live) > 0 => /\ Tail(live) \in Seq(Entries) /\ Len(Tail(live)) = Len(live) - 1
                             /\ \A k \in 1 .. Len(live) - 1 : Tail(live)[k] = cache[k + n + 1]
<1> DEFINE live == Bus!Kept(cache, n)
<1>1. live \in Seq(Entries) /\ Len(live) = Len(cache) - n /\ \A k \in 1 .. Len(live) : live[k] = cache[k + n]
  BY SubSeqProperties DEF BusTypeOK, Bus!Kept
<1>2. Len(live) > 0 => /\ Tail(live) \in Seq(Entries) /\ Len(Tail(live)) = Len(live) - 1
                       /\ \A k \in 1 .. Len(Tail(live)) : Tail(live)[k] = live[k + 1]
  <2> HIDE DEF live
  <2> QED BY <1>1, HeadTailProperties
<1>3. \A k \in 1 .. Len(live) - 1 : live[k + 1] = cache[k + n + 1]
  <2>1. Len(cache) \in Nat
    BY DEF BusTypeOK
  <2> HIDE DEF live
  <2> QED BY <1>1, <2>1
<1> QED BY <1>1, <1>2, <1>3

LEMMA FlightsFinite ==
  ASSUME NEW fs \in Seq(Frames), NEW c
  PROVE  IsFiniteSet(FlightsOf(fs, c)) /\ Cardinality(FlightsOf(fs, c)) \in Nat
<1>1. IsFiniteSet(1 .. Len(fs))
  BY FS_Interval
<1>2. FlightsOf(fs, c) \subseteq 1 .. Len(fs)
  BY DEF FlightsOf
<1> QED BY <1>1, <1>2, FS_Subset, FS_CardinalityType

(* A frame that is not running becomes one that may be: its connection has at most one more. *)
LEMMA PutFlights ==
  ASSUME BusTypeOK, NEW i \in DOMAIN frames, NEW a, NEW r, Bus!Put(i, a, r), NEW c
  PROVE  /\ a # "running" \/ c # frames[i].conn => Cardinality(InFlight(c)') <= Cardinality(InFlight(c))
         /\ frames[i].at = "running" /\ a # "running" /\ c = frames[i].conn
              => Cardinality(InFlight(c)') = Cardinality(InFlight(c)) - 1
         /\ Cardinality(InFlight(c)') <= Cardinality(InFlight(c)) + 1
<1>1. frames'[i].at = a /\ frames'[i].conn = frames[i].conn
  BY PutChanges
<1>2. \A j \in DOMAIN frames' : j # i => frames'[j] = frames[j]
  BY PutChanges
<1>3. DOMAIN frames' = DOMAIN frames
  BY PutChanges
<1> DEFINE n == Cardinality(InFlight(c))
<1>0. IsFiniteSet(InFlight(c)) /\ n \in Nat
  BY FlightsFinite DEF BusTypeOK, InFlight
<1>4. CASE c # frames[i].conn
  <2>1. InFlight(c)' = InFlight(c)
    BY <1>1, <1>2, <1>3, <1>4 DEF InFlight, FlightsOf
  <2> QED BY <2>1, <1>0, <1>4
<1>5. CASE c = frames[i].conn /\ a = "running"
  <2>1. InFlight(c)' = InFlight(c) \cup {i}
    BY <1>1, <1>2, <1>3, <1>5 DEF InFlight, FlightsOf
  <2>2. Cardinality(InFlight(c) \cup {i}) \in {n, n + 1}
    BY <1>0, FS_AddElement
  <2> QED BY <2>1, <2>2, <1>0, <1>5
<1>6. CASE c = frames[i].conn /\ a # "running"
  <2>1. InFlight(c)' = InFlight(c) \ {i}
    BY <1>1, <1>2, <1>3, <1>6 DEF InFlight, FlightsOf
  <2>2. frames[i].at = "running" <=> i \in InFlight(c)
    BY <1>6 DEF InFlight, FlightsOf
  <2>3. Cardinality(InFlight(c) \ {i}) = IF i \in InFlight(c) THEN n - 1 ELSE n
    BY <1>0, FS_RemoveElement
  <2> QED BY <2>1, <2>2, <2>3, <1>0, <1>6
<1> QED BY <1>4, <1>5, <1>6

(* Connections come and go: what was asked and answered stays. *)
LEMMA BusConnections ==
  ASSUME BusInv,
         Bus!Close \/ (\E c \in Conns : Bus!Connect(c) \/ Bus!Disconnects(c))
           \/ \E i \in DOMAIN frames : Bus!IdempotencyConflict(i)
  PROVE  BusInv'
<1>1. UNCHANGED <<frames, runs, cache, forgotten, inFlight>>
  BY DEF Bus!Close, Bus!Connect, Bus!Disconnects, Bus!IdempotencyConflict
<1>2. BusTypeOK'
  BY <1>1 DEF BusInv, BusTypeOK, Bus!Close, Bus!Connect, Bus!Disconnects, Bus!IdempotencyConflict
<1> QED BY <1>1, <1>2 DEF BusInv, FramesAnswered, CacheTold, OnceRemembered, FlightsCounted, InFlight

LEMMA BusRequest ==
  ASSUME BusInv, NEW c \in Conns, NEW content \in BusContents, NEW key \in Keys \cup {0},
         NEW flaw \in Bus!Flaws, Bus!requestFor(c, content, key, flaw)
  PROVE  BusInv'
<1> DEFINE f == [conn |-> c, content |-> content, key |-> key, flaw |-> flaw, at |-> "wire", run |-> 0]
<1>1. f \in Frames
  BY DEF Frames, FrameStates
<1>2. frames' = Append(frames, f)
  BY DEF Bus!requestFor
<1>3. UNCHANGED <<serving, conn, inFlight, cache, runs, forgotten>>
  BY DEF Bus!requestFor
<1>4. frames \in Seq(Frames)
  BY DEF BusInv, BusTypeOK
<1>5. f.at = "wire" /\ f.run = 0
  OBVIOUS
<1> HIDE DEF f
<1>6. /\ frames' \in Seq(Frames) /\ Len(frames') = Len(frames) + 1
      /\ \A i \in 1 .. Len(frames) : frames'[i] = frames[i]
      /\ frames'[Len(frames) + 1] = f
  BY <1>1, <1>2, <1>4, AppendProperties
<1>7. BusTypeOK'
  BY <1>3, <1>6 DEF BusInv, BusTypeOK
<1>8. DOMAIN frames' = DOMAIN frames \cup {Len(frames) + 1} /\ DOMAIN frames = 1 .. Len(frames)
  BY <1>4, <1>6
<1>9. \A d : InFlight(d)' = InFlight(d)
  BY <1>5, <1>6, <1>8 DEF InFlight, FlightsOf
<1>10. FramesAnswered'
  BY <1>3, <1>5, <1>6, <1>8 DEF BusInv, FramesAnswered
<1> QED BY <1>3, <1>7, <1>9, <1>10 DEF BusInv, CacheTold, OnceRemembered, FlightsCounted

LEMMA BusRefuses ==
  ASSUME BusInv, NEW i \in DOMAIN frames, Bus!protocolError(i)
  PROVE  BusInv'
<1>1. BusTypeOK /\ Bus!Put(i, "refused", 0) /\ frames[i] \in Frames /\ frames[i].at = "wire"
  BY DEF Bus!protocolError, BusInv, BusTypeOK, Bus!Next1
<1>2. UNCHANGED <<serving, cache, runs, forgotten>>
  BY DEF Bus!protocolError
<1>3. \A c \in Conns : inFlight'[c] >= inFlight[c]
  BY <1>1 DEF Bus!protocolError, BusTypeOK
<1>4. BusTypeOK'
  <2>1. frames' \in Seq(Frames)
    BY <1>1, PutChanges DEF FrameStates
  <2>2. inFlight' \in [Conns -> Int] /\ conn' \in [Conns -> {"none", "open", "closed", "gone"}]
    BY <1>1 DEF BusTypeOK, Bus!protocolError, Frames
  <2> QED BY <1>1, <1>2, <2>1, <2>2 DEF BusTypeOK
<1>5. FramesAnswered'
  BY <1>1, <1>2, PutChanges DEF BusInv, FramesAnswered
<1>6. FlightsCounted'
  <2>1. ASSUME NEW c \in Conns PROVE Cardinality(InFlight(c)') <= Cardinality(InFlight(c))
    BY <1>1, PutFlights
  <2>2. \A c \in Conns : Cardinality(InFlight(c)') \in Nat /\ Cardinality(InFlight(c)) \in Nat
    BY <1>1, <1>4, FlightsFinite DEF BusTypeOK, InFlight
  <2> QED BY <2>1, <2>2, <1>1, <1>3, <1>4, BusAssumption DEF BusInv, FlightsCounted, BusTypeOK
<1> QED BY <1>2, <1>4, <1>5, <1>6 DEF BusInv, CacheTold, OnceRemembered

LEMMA BusHandlerEnds ==
  ASSUME BusInv, NEW r \in DOMAIN runs, Bus!HandlerEnds(r)
  PROVE  BusInv'
<1>1. PICK end \in {"done", "failed"} : runs' = [runs EXCEPT ![r].at = end]
  BY DEF Bus!HandlerEnds
<1>2. UNCHANGED <<serving, conn, inFlight, frames, cache, forgotten>> /\ runs[r].at = "running"
  BY DEF Bus!HandlerEnds
<1>3. /\ runs' \in Seq(Runs) /\ DOMAIN runs' = DOMAIN runs
      /\ \A q \in DOMAIN runs : /\ runs'[q].content = runs[q].content /\ runs'[q].key = runs[q].key
                                /\ runs[q].at # "running" => runs'[q].at = runs[q].at
  <2>1. runs \in Seq(Runs) /\ runs[r] \in Runs
    BY DEF BusInv, BusTypeOK
  <2> DEFINE g == [runs[r] EXCEPT !.at = end]
  <2>2. g \in Runs /\ g.content = runs[r].content /\ g.key = runs[r].key
    BY <2>1 DEF Runs
  <2>3. runs' = [runs EXCEPT ![r] = g]
    BY <1>1
  <2> HIDE DEF g
  <2> QED BY <1>2, <2>1, <2>2, <2>3
<1>4. BusTypeOK'
  BY <1>2, <1>3 DEF BusInv, BusTypeOK
<1>5. FramesAnswered'
  BY <1>2, <1>3 DEF BusInv, FramesAnswered
<1>6. CacheTold' /\ OnceRemembered'
  BY <1>2, <1>3 DEF BusInv, CacheTold, OnceRemembered
<1> QED BY <1>2, <1>4, <1>5, <1>6 DEF BusInv, FlightsCounted, InFlight

LEMMA BusResponds ==
  ASSUME BusInv, NEW i \in DOMAIN frames, Bus!Responds(i)
  PROVE  BusInv'
<1> DEFINE c == frames[i].conn
           run == frames[i].run
<1>0. PICK end : /\ Bus!Put(i, end, run)
                 /\ end \in IF conn[c] # "open" THEN {"lost"}
                           ELSE IF runs[run].at = "done" THEN {"done", "tooLarge"} ELSE {runs[run].at}
  BY DEF Bus!Responds
<1>1. BusTypeOK /\ Bus!Put(i, end, run) /\ frames[i] \in Frames /\ frames[i].at = "running"
  BY <1>0 DEF Bus!Responds, BusInv, BusTypeOK
<1>2. UNCHANGED <<serving, conn, cache, runs, forgotten>> /\ inFlight' = [inFlight EXCEPT ![c] = @ - 1]
  BY DEF Bus!Responds
<1>3. run # 0 /\ run \in DOMAIN runs /\ runs[run].at # "running" /\ runs[run] \in Runs
  <2>1. run # 0 /\ run \in DOMAIN runs
    BY <1>1 DEF BusInv, FramesAnswered
  <2>2. runs[run].at # "running"
    BY DEF Bus!Responds
  <2>3. runs \in Seq(Runs)
    BY <1>1 DEF BusTypeOK
  <2> QED BY <2>1, <2>2, <2>3
<1>4. end \in {"done", "failed", "tooLarge", "lost"} /\ (end \in {"done", "failed"} => end = runs[run].at)
  BY <1>0, <1>3 DEF Runs
<1>5. BusTypeOK'
  <2>1. run \in Nat /\ c \in Conns
    BY <1>1, <1>3 DEF BusTypeOK, Frames
  <2>2. frames' \in Seq(Frames)
    BY <1>1, <1>4, <2>1, PutChanges DEF FrameStates
  <2>3. inFlight' \in [Conns -> Int]
    BY <1>1, <1>2, <2>1 DEF BusTypeOK
  <2> QED BY <1>1, <1>2, <2>2, <2>3 DEF BusTypeOK
<1>6. FramesAnswered'
  BY <1>1, <1>2, <1>3, <1>4, PutChanges DEF BusInv, FramesAnswered
<1>7. FlightsCounted'
  <2>1. ASSUME NEW d \in Conns
        PROVE  Cardinality(InFlight(d)') <= IF d = c THEN Cardinality(InFlight(d)) - 1 ELSE Cardinality(InFlight(d))
    BY <1>1, <1>4, PutFlights, FlightsFinite DEF BusTypeOK, InFlight
  <2>2. \A d \in Conns : Cardinality(InFlight(d)') \in Nat /\ Cardinality(InFlight(d)) \in Nat
    BY <1>1, <1>5, FlightsFinite DEF BusTypeOK, InFlight
  <2> QED BY <2>1, <2>2, <1>1, <1>2, <1>5, BusAssumption DEF BusInv, FlightsCounted, BusTypeOK
<1> QED BY <1>2, <1>5, <1>6, <1>7 DEF BusInv, CacheTold, OnceRemembered

(* What is kept of the cache is as it was, and what is dropped is forgotten. *)
LEMMA RoomTold ==
  ASSUME BusInv, NEW m \in 0 .. Len(cache)
  PROVE  LET room == Bus!Kept(cache, m) IN
         /\ room \in Seq(Entries)
         /\ \A k \in DOMAIN room : /\ room[k].run \in DOMAIN runs
                                  /\ runs[room[k].run].key = room[k].key
                                  /\ runs[room[k].run].content = room[k].content
         /\ \A j, k \in DOMAIN room : room[j].key = room[k].key => j = k
         /\ \A r \in DOMAIN runs : runs[r].key # 0 /\ r \notin forgotten \cup Bus!Dropped(m)
                => \E k \in DOMAIN room : room[k].run = r
<1> DEFINE room == Bus!Kept(cache, m)
<1>1. /\ room \in Seq(Entries) /\ Len(room) = Len(cache) - m
      /\ \A k \in 1 .. Len(room) : room[k] = cache[k + m]
  BY KeptIs DEF BusInv
<1>2. Len(cache) \in Nat /\ DOMAIN cache = 1 .. Len(cache) /\ DOMAIN room = 1 .. Len(room)
  BY <1>1 DEF BusInv, BusTypeOK
<1> HIDE DEF room
<1>3. \A k \in DOMAIN room : k + m \in DOMAIN cache
  BY <1>1, <1>2
<1>4. ASSUME NEW r \in DOMAIN runs, runs[r].key # 0, r \notin forgotten \cup Bus!Dropped(m)
      PROVE  \E k \in DOMAIN room : room[k].run = r
  <2>1. PICK k \in DOMAIN cache : cache[k].run = r
    BY <1>4 DEF BusInv, OnceRemembered
  <2>2. k > m
    BY <1>2, <1>4, <2>1 DEF Bus!Dropped
  <2>3. k - m \in DOMAIN room /\ room[k - m] = cache[k]
    BY <1>1, <1>2, <2>2
  <2> QED BY <2>1, <2>3
<1>5. \A k \in DOMAIN room : /\ room[k].run \in DOMAIN runs
                             /\ runs[room[k].run].key = room[k].key
                             /\ runs[room[k].run].content = room[k].content
  BY <1>1, <1>2, <1>3 DEF BusInv, CacheTold
<1>6. \A j, k \in DOMAIN room : room[j].key = room[k].key => j = k
  BY <1>1, <1>2, <1>3 DEF BusInv, CacheTold
<1> QED BY <1>1, <1>4, <1>5, <1>6 DEF room

(* A request that is let through is counted. *)
LEMMA InvokeFlights ==
  ASSUME BusInv, NEW i \in DOMAIN frames, Bus!invokeRequest(i), NEW r \in Nat, Bus!Put(i, "running", r)
  PROVE  /\ frames' \in Seq(Frames) /\ inFlight' \in [Conns -> Int]
         /\ FlightsCounted'
<1> DEFINE c == frames[i].conn
<1>1. BusTypeOK /\ frames[i] \in Frames /\ c \in Conns
  <2>1. BusTypeOK /\ frames[i] \in Frames
    BY DEF BusInv, BusTypeOK
  <2> QED BY <2>1 DEF Frames
<1>2. frames' \in Seq(Frames)
  BY <1>1, PutChanges DEF FrameStates
<1>3. inFlight[c] < MAX_IN_FLIGHT /\ inFlight' = [inFlight EXCEPT ![c] = @ + 1]
  BY DEF Bus!invokeRequest
<1>4. inFlight' \in [Conns -> Int]
  BY <1>1, <1>3 DEF BusTypeOK
<1>5. ASSUME NEW d \in Conns
      PROVE  Cardinality(InFlight(d)') <= IF d = c THEN Cardinality(InFlight(d)) + 1 ELSE Cardinality(InFlight(d))
  BY <1>1, PutFlights
<1>6. \A d \in Conns : Cardinality(InFlight(d)') \in Nat /\ Cardinality(InFlight(d)) \in Nat
  BY <1>1, <1>2, FlightsFinite DEF BusTypeOK, InFlight
<1>7. FlightsCounted'
  BY <1>1, <1>3, <1>4, <1>5, <1>6, BusAssumption DEF BusInv, FlightsCounted, BusTypeOK
<1> QED BY <1>2, <1>4, <1>7

LEMMA BusInvokes ==
  ASSUME BusInv, NEW i \in DOMAIN frames, Bus!invokeRequest(i)
  PROVE  BusInv'
<1> DEFINE f == frames[i]
           new == Len(runs) + 1
           run == Bus!Run(f.content, f.key)
<1>1. BusTypeOK /\ f \in Frames /\ f.at = "wire" /\ runs \in Seq(Runs)
  BY DEF Bus!invokeRequest, Bus!Next1, BusInv, BusTypeOK
<1>2. UNCHANGED <<serving, conn>>
  BY DEF Bus!invokeRequest
<1>3. PICK n \in 0 .. Len(cache) :
       LET live == Bus!Kept(cache, n) IN
       /\ f.key = 0 => n = 0
       /\ ~Bus!Conflicts(live, f)
       /\ IF f.key # 0 /\ Bus!Remembers(live, f)
          THEN /\ \E k \in Bus!Entries(live, f.key) : Bus!Put(i, "running", live[k].run)
               /\ cache' = live /\ forgotten' = forgotten \cup Bus!Dropped(n) /\ UNCHANGED runs
          ELSE /\ runs' = Append(runs, run) /\ Bus!Put(i, "running", new)
               /\ cache' = (IF f.key = 0 THEN cache ELSE Bus!Stored(live, f, new))
               /\ forgotten' = forgotten \cup Bus!Dropped(IF f.key # 0 /\ Len(live) >= MAX_CACHE THEN n + 1 ELSE n)
  BY DEF Bus!invokeRequest
<1> DEFINE live == Bus!Kept(cache, n)
<1>4. CASE f.key # 0 /\ Bus!Remembers(live, f)
  <2>1. PICK k \in Bus!Entries(live, f.key) : Bus!Put(i, "running", live[k].run)
    BY <1>3, <1>4
  <2>2. cache' = live /\ forgotten' = forgotten \cup Bus!Dropped(n) /\ UNCHANGED runs
    BY <1>3, <1>4
  <2>3. /\ live \in Seq(Entries)
        /\ \A j \in DOMAIN live : /\ live[j].run \in DOMAIN runs
                                 /\ runs[live[j].run].key = live[j].key
                                 /\ runs[live[j].run].content = live[j].content
        /\ \A j, l \in DOMAIN live : live[j].key = live[l].key => j = l
        /\ \A r \in DOMAIN runs : runs[r].key # 0 /\ r \notin forgotten \cup Bus!Dropped(n)
              => \E j \in DOMAIN live : live[j].run = r
    BY RoomTold
  <2> DEFINE r == live[k].run
  <2>4. \A j \in Bus!Entries(live, f.key) : live[j].content = f.content
    BY <1>3 DEF Bus!Conflicts, Bus!digest
  <2> HIDE DEF live
  <2>5. k \in DOMAIN live /\ live[k].key = f.key /\ live[k].content = f.content
    BY <2>3, <2>4 DEF Bus!Entries
  <2>6. r \in DOMAIN runs /\ r \in Nat \ {0} /\ runs[r].key = f.key /\ runs[r].content = f.content
    BY <1>1, <2>3, <2>5
  <2> HIDE DEF r
  <2>7. Bus!Put(i, "running", r)
    BY <2>1 DEF r
  <2>8. BusTypeOK' /\ FlightsCounted'
    BY <1>1, <1>2, <2>2, <2>3, <2>6, <2>7, InvokeFlights DEF BusTypeOK
  <2>9. FramesAnswered'
    BY <1>1, <2>2, <2>6, <2>7, PutChanges DEF BusInv, FramesAnswered
  <2>10. CacheTold'
    BY <2>2, <2>3 DEF CacheTold
  <2>11. OnceRemembered'
    BY <2>2, <2>3 DEF BusInv, OnceRemembered
  <2> QED BY <2>8, <2>9, <2>10, <2>11 DEF BusInv
<1>5. ASSUME ~(f.key # 0 /\ Bus!Remembers(live, f))
      PROVE  BusInv'
  <2>1. runs' = Append(runs, run) /\ Bus!Put(i, "running", new)
    BY <1>3, <1>5
  <2>2. run \in Runs /\ run.key = f.key /\ run.content = f.content
    BY <1>1 DEF Bus!Run, Runs, Frames
  <2> HIDE DEF run
  <2>3. /\ runs' \in Seq(Runs) /\ Len(runs') = new
        /\ \A r \in 1 .. Len(runs) : runs'[r] = runs[r]
        /\ runs'[new] = run
    BY <1>1, <2>1, <2>2, AppendProperties
  <2>4. DOMAIN runs' = DOMAIN runs \cup {new} /\ DOMAIN runs = 1 .. Len(runs) /\ new \in Nat \ {0} /\ new \notin DOMAIN runs
    BY <1>1, <2>3
  <2> HIDE DEF new
  <2>5. frames' \in Seq(Frames) /\ inFlight' \in [Conns -> Int] /\ FlightsCounted'
    BY <2>1, <2>4, InvokeFlights
  <2>6. FramesAnswered'
    BY <1>1, <2>1, <2>2, <2>3, <2>4, PutChanges DEF BusInv, FramesAnswered
  <2>7. CASE f.key = 0
    <3>1. cache' = cache /\ forgotten \subseteq forgotten'
      BY <1>3, <2>7
    <3>2. BusTypeOK'
      BY <1>1, <1>2, <2>3, <2>5, <3>1 DEF BusTypeOK
    <3>3. CacheTold'
      BY <2>3, <2>4, <3>1 DEF BusInv, CacheTold
    <3>4. OnceRemembered'
      BY <2>2, <2>3, <2>4, <2>7, <3>1 DEF BusInv, OnceRemembered
    <3> QED BY <2>5, <2>6, <3>2, <3>3, <3>4 DEF BusInv
  <2>8. CASE f.key # 0
    <3> DEFINE m == IF Len(live) >= MAX_CACHE THEN n + 1 ELSE n
               room == Bus!Kept(cache, m)
               entry == [key |-> f.key, content |-> f.content, run |-> new]
    <3>1. live \in Seq(Entries) /\ Len(live) = Len(cache) - n
      BY <1>1, KeptIs
    <3>2. m \in 0 .. Len(cache) /\ (Len(live) >= MAX_CACHE => Tail(live) = room)
      <4>1. cache \in Seq(Entries) /\ Len(cache) \in Nat
        BY <1>1 DEF BusTypeOK
      <4>2. Len(live) >= MAX_CACHE => n < Len(cache)
        BY <3>1, <4>1, BusAssumption
      <4>3. n < Len(cache) => Tail(SubSeq(cache, n + 1, Len(cache))) = SubSeq(cache, n + 2, Len(cache))
        BY <4>1, HeadTailOfSubSeq
      <4>4. live = SubSeq(cache, n + 1, Len(cache)) /\ Bus!Kept(cache, n + 1) = SubSeq(cache, n + 2, Len(cache))
        BY DEF Bus!Kept
      <4>5. CASE Len(live) >= MAX_CACHE
        <5>1. m = n + 1
          BY <4>5
        <5>2. room = Bus!Kept(cache, n + 1)
          BY <5>1
        <5>3. n + 1 \in 0 .. Len(cache)
          BY <4>1, <4>2, <4>5
        <5> HIDE DEF live, room, m
        <5> QED BY <4>2, <4>3, <4>4, <4>5, <5>1, <5>2, <5>3
      <4>6. CASE ~(Len(live) >= MAX_CACHE)
        BY <4>1, <4>6
      <4> QED BY <4>5, <4>6
    <3>3. cache' = Append(room, entry) /\ forgotten' = forgotten \cup Bus!Dropped(m)
      BY <1>3, <1>5, <2>8, <3>2 DEF Bus!Stored, Bus!Cached
    <3>4. \A k \in 1 .. Len(live) : live[k].key # f.key
      BY <1>3, <1>5, <2>8 DEF Bus!Conflicts, Bus!Remembers, Bus!Entries
    <3>5. \A k \in 1 .. Len(room) : room[k].key # f.key
      <4>1. CASE Len(live) >= MAX_CACHE
        <5>1. room = Tail(live)
          BY <3>2, <4>1
        <5>2. Len(live) > 0
          BY <3>1, <4>1, BusAssumption
        <5>3. Len(Tail(live)) = Len(live) - 1 /\ \A k \in 1 .. Len(Tail(live)) : Tail(live)[k] = live[k + 1]
          <6> HIDE DEF live
          <6> QED BY <3>1, <5>2, HeadTailProperties
        <5> HIDE DEF live, room
        <5> QED BY <3>1, <3>4, <5>1, <5>2, <5>3
      <4>2. CASE ~(Len(live) >= MAX_CACHE)
        BY <3>4, <4>2
      <4> QED BY <4>1, <4>2
    <3>6. /\ room \in Seq(Entries)
          /\ \A k \in DOMAIN room : /\ room[k].run \in DOMAIN runs
                                   /\ runs[room[k].run].key = room[k].key
                                   /\ runs[room[k].run].content = room[k].content
          /\ \A j, k \in DOMAIN room : room[j].key = room[k].key => j = k
          /\ \A r \in DOMAIN runs : runs[r].key # 0 /\ r \notin forgotten \cup Bus!Dropped(m)
                => \E k \in DOMAIN room : room[k].run = r
      BY <3>2, RoomTold
    <3>7. entry \in Entries /\ entry.key = f.key /\ entry.content = f.content /\ entry.run = new
      BY <1>1, <2>4, <2>8 DEF Entries, Frames
    <3> HIDE DEF room, entry, m
    <3>8. /\ cache' \in Seq(Entries) /\ Len(cache') = Len(room) + 1
          /\ \A k \in 1 .. Len(room) : cache'[k] = room[k]
          /\ cache'[Len(room) + 1] = entry
      BY <3>3, <3>6, <3>7, AppendProperties
    <3>9. DOMAIN room = 1 .. Len(room) /\ DOMAIN cache' = DOMAIN room \cup {Len(room) + 1}
      BY <3>6, <3>8
    <3>10. BusTypeOK'
      BY <1>1, <1>2, <2>3, <2>5, <3>8 DEF BusTypeOK
    <3>11. CacheTold'
      BY <2>2, <2>3, <2>4, <3>5, <3>6, <3>7, <3>8, <3>9 DEF CacheTold
    <3>12. OnceRemembered'
      <4>1. ASSUME NEW r \in DOMAIN runs', runs'[r].key # 0, r \notin forgotten'
            PROVE  \E k \in DOMAIN cache' : cache'[k].run = r
        BY <4>1, <2>3, <2>4, <3>3, <3>6, <3>7, <3>8, <3>9
      <4>2. ASSUME NEW r \in DOMAIN runs, runs[r].key = f.key, r \notin forgotten' PROVE FALSE
        BY <4>2, <2>8, <3>3, <3>5, <3>6, <3>9
      <4>3. \A r, q \in DOMAIN runs : r < q /\ runs[r].key # 0 /\ runs[r].key = runs[q].key => r \in forgotten
        BY DEF BusInv, OnceRemembered
      <4>4. \A r \in DOMAIN runs : r < new
        BY <1>1, <2>4 DEF new
      <4>5. ASSUME NEW r \in DOMAIN runs', NEW q \in DOMAIN runs', r < q, runs'[r].key # 0, runs'[r].key = runs'[q].key
            PROVE  r \in forgotten'
        <5>1. r \in DOMAIN runs
          BY <4>4, <4>5, <2>4
        <5>2. CASE q = new
          BY <5>1, <5>2, <4>2, <4>5, <2>2, <2>3, <2>4
        <5>3. CASE q \in DOMAIN runs
          BY <5>1, <5>3, <4>3, <4>5, <2>3, <2>4, <3>3
        <5> QED BY <5>2, <5>3, <2>4
      <4> QED BY <4>1, <4>5 DEF OnceRemembered
    <3> QED BY <2>5, <2>6, <3>10, <3>11, <3>12 DEF BusInv
  <2> QED BY <2>7, <2>8
<1> QED BY <1>4, <1>5

LEMMA BusStep == BusInv /\ [Bus!Next]_Bus!busVars => BusInv'
<1> SUFFICES ASSUME BusInv, [Bus!Next]_Bus!busVars PROVE BusInv'
  OBVIOUS
<1>1. CASE UNCHANGED Bus!busVars
  BY <1>1 DEF Bus!busVars, BusInv, BusTypeOK, FramesAnswered, CacheTold, OnceRemembered, FlightsCounted,
      InFlight
<1>2. CASE \E c \in Conns : Bus!Requests(c)
  BY <1>2, BusRequest DEF Bus!Requests, BusContents, Bus!Flaws
<1>3. CASE \E i \in DOMAIN frames : Bus!protocolError(i) \/ Bus!invokeRequest(i) \/ Bus!Responds(i)
  BY <1>3, BusRefuses, BusInvokes, BusResponds
<1>4. CASE \E r \in DOMAIN runs : Bus!HandlerEnds(r)
  BY <1>4, BusHandlerEnds
<1> QED BY <1>1, <1>2, <1>3, <1>4, BusConnections DEF Bus!Next

LEMMA BusPart == MC_Init => Bus!Init
  BY DEF MC_Init
LEMMA BusMoves == [MC_Next]_<<focus, theBinding, theLifecycle, theStart, theBus, theRestore>> => [Bus!Next]_Bus!busVars
  BY DEF MC_Next, theBus, Bus!busVars

LEMMA SameCardinality == \A S : Bus!Cardinality(S) = Cardinality(S)
  BY DEF Bus!Cardinality, Cardinality

(* A keyed request runs once while its result is remembered, every answer is that of    *)
(* its run, and no connection has more in flight than the limit (runtime-bus.ts,        *)
(* invokeRequest and startRuntimeBus).                                                *)
THEOREM KeyedRequestsRunOnce == MC_Spec => []AskedOnceDoneOnce
<1>1. BusInv => AskedOnceDoneOnce
  <2> SUFFICES ASSUME BusInv PROVE AskedOnceDoneOnce
    OBVIOUS
  <2>1. \A c \in Conns : Cardinality({i \in DOMAIN frames : frames[i].conn = c /\ frames[i].at = "running"}) <= MAX_IN_FLIGHT
    BY DEF BusInv, FlightsCounted, InFlight, FlightsOf
  <2>2. \A i \in DOMAIN frames : frames[i].run # 0 =>
          /\ runs[frames[i].run].content = frames[i].content /\ runs[frames[i].run].key = frames[i].key
          /\ frames[i].at \in {"done", "failed"} => runs[frames[i].run].at = frames[i].at
    BY DEF BusInv, FramesAnswered
  <2>3. \A r, q \in DOMAIN runs : r < q /\ runs[r].key # 0 /\ runs[r].key = runs[q].key => r \in forgotten
    BY DEF BusInv, OnceRemembered
  <2> QED BY <2>1, <2>2, <2>3, SameCardinality DEF AskedOnceDoneOnce, Bus!AskedOnceDoneOnce
<1> QED BY <1>1, BusInit, BusStep, BusPart, BusMoves, PTL DEF MC_Spec

-----------------------------------------------------------------------------
(* WorkspaceRestore: whoever waits waits for the child its round launched, and a      *)
(* launch that published is one that was made for the session.                      *)

SessionStates == Rounds!Outcomes \cup {"none", "restoring", "window", "waiting"}
RoundType == [at : {"queued", "running", "ended"}, of : [Sids -> SessionStates], made : [Sids -> Nat]]

RoundsTypeOK ==
  /\ rounds \in Seq(RoundType) /\ launches \in Seq(Sids) /\ child \in Seq({"starting", "enrolled", "ended"})
  /\ Len(child) = Len(launches)
  /\ restoreBound \in [Sids -> Nat] /\ ready \in [Sids -> Nat]
  /\ published \subseteq DOMAIN launches
  /\ waiters \subseteq [round : Nat, sid : Sids, launch : Nat]

(* The window of an enrolled child is bound to its session. *)
EnrolledBound == \A l \in DOMAIN launches : child[l] = "enrolled" => restoreBound[launches[l]] = l

ReadyPublished == \A s \in Sids : ready[s] # 0 => ready[s] \in published /\ launches[ready[s]] = s

(* A child was launched by one round, for the session it is of. *)
MadeOnce ==
  \A r \in DOMAIN rounds, s \in Sids :
    rounds[r].made[s] # 0 =>
      /\ rounds[r].made[s] \in DOMAIN launches /\ launches[rounds[r].made[s]] = s
      /\ \A q \in DOMAIN rounds \ {r} : rounds[q].made[s] # rounds[r].made[s]

(* Whoever waits waits for the child its round launched. *)
WaitersOfRounds ==
  \A w \in waiters : /\ w.round \in DOMAIN rounds /\ rounds[w.round].at # "queued"
                     /\ rounds[w.round].of[w.sid] = "waiting"
                     /\ rounds[w.round].made[w.sid] = w.launch

OutcomesProven ==
  \A r \in DOMAIN rounds, s \in Sids :
    /\ rounds[r].of[s] = "restored" => rounds[r].made[s] \in published /\ launches[rounds[r].made[s]] = s
    /\ rounds[r].of[s] = "active" => \E l \in published : launches[l] = s

RoundsInv == RoundsTypeOK /\ EnrolledBound /\ ReadyPublished /\ MadeOnce /\ WaitersOfRounds /\ OutcomesProven

LEMMA RoundsInit == Rounds!Init => RoundsInv
  BY DEF Rounds!Init, RoundsInv, RoundsTypeOK, EnrolledBound, ReadyPublished, MadeOnce, WaitersOfRounds,
      OutcomesProven

(* What a round notes of one session. *)
LEMMA PutsChanges ==
  ASSUME RoundsTypeOK, NEW r \in DOMAIN rounds, NEW s \in Sids, NEW state \in SessionStates, NEW k \in Nat,
         Rounds!Puts(r, s, state, k)
  PROVE  /\ rounds' \in Seq(RoundType) /\ DOMAIN rounds' = DOMAIN rounds
         /\ \A q \in DOMAIN rounds \ {r} : rounds'[q] = rounds[q]
         /\ rounds'[r].at = rounds[r].at
         /\ \A t \in Sids : /\ rounds'[r].of[t] = IF t = s THEN state ELSE rounds[r].of[t]
                            /\ rounds'[r].made[t] = IF t = s THEN k ELSE rounds[r].made[t]
<1>1. rounds[r] \in RoundType /\ rounds \in Seq(RoundType)
  BY DEF RoundsTypeOK
<1> DEFINE f == [rounds[r] EXCEPT !.of = [rounds[r].of EXCEPT ![s] = state]]
           g == [f EXCEPT !.made = [f.made EXCEPT ![s] = k]]
<1>2. rounds' = [rounds EXCEPT ![r] = g]
  BY <1>1 DEF Rounds!Puts
<1>3. /\ g \in RoundType /\ g.at = rounds[r].at
      /\ \A t \in Sids : /\ g.of[t] = IF t = s THEN state ELSE rounds[r].of[t]
                         /\ g.made[t] = IF t = s THEN k ELSE rounds[r].made[t]
  BY <1>1 DEF RoundType
<1> HIDE DEF g
<1> QED BY <1>2, <1>3 DEF RoundsTypeOK

(* One session of a round changes, and it was not waiting or nobody waits for it any more. *)
LEMMA WaitersKept ==
  ASSUME RoundsInv, NEW r \in DOMAIN rounds, NEW s \in Sids,
         DOMAIN rounds' = DOMAIN rounds, \A q \in DOMAIN rounds \ {r} : rounds'[q] = rounds[q],
         rounds'[r].at = rounds[r].at,
         \A t \in Sids \ {s} : rounds'[r].of[t] = rounds[r].of[t] /\ rounds'[r].made[t] = rounds[r].made[t],
         waiters' \subseteq waiters,
         rounds[r].of[s] # "waiting" \/ \A w \in waiters' : w.round # r \/ w.sid # s
  PROVE  WaitersOfRounds'
<1> SUFFICES ASSUME NEW w \in waiters'
             PROVE  /\ w.round \in DOMAIN rounds' /\ rounds'[w.round].at # "queued"
                    /\ rounds'[w.round].of[w.sid] = "waiting" /\ rounds'[w.round].made[w.sid] = w.launch
  BY DEF WaitersOfRounds
<1>1. /\ w.round \in DOMAIN rounds /\ w.sid \in Sids /\ rounds[w.round].at # "queued"
      /\ rounds[w.round].of[w.sid] = "waiting" /\ rounds[w.round].made[w.sid] = w.launch
  BY DEF RoundsInv, RoundsTypeOK, WaitersOfRounds
<1>2. CASE w.round = r
  BY <1>1, <1>2
<1>3. CASE w.round # r
  BY <1>1, <1>3
<1> QED BY <1>2, <1>3

LEMMA reconcileStep == ASSUME RoundsInv, Rounds!reconcile PROVE RoundsInv'
<1> DEFINE g == [at |-> "queued", of |-> [s \in Sids |-> "none"], made |-> [s \in Sids |-> 0]]
<1>1. rounds' = Append(rounds, g) /\ rounds \in Seq(RoundType)
  BY DEF Rounds!reconcile, RoundsInv, RoundsTypeOK
<1>2. g \in RoundType /\ g.at = "queued" /\ \A s \in Sids : g.of[s] = "none" /\ g.made[s] = 0
  BY DEF RoundType, SessionStates
<1> HIDE DEF g
<1>3. /\ rounds' \in Seq(RoundType) /\ Len(rounds') = Len(rounds) + 1
      /\ \A i \in 1 .. Len(rounds) : rounds'[i] = rounds[i]
      /\ rounds'[Len(rounds) + 1] = g
  BY <1>1, <1>2, AppendProperties
<1>4. DOMAIN rounds' = DOMAIN rounds \cup {Len(rounds) + 1} /\ DOMAIN rounds = 1 .. Len(rounds)
  BY <1>1, <1>3
<1>5. UNCHANGED <<restoreOpen, launches, ordinary, child, restoreBound, ready, fresh, published, waiters>>
  BY DEF Rounds!reconcile, Rounds!Children, Rounds!Readiness
<1>6. RoundsTypeOK' /\ EnrolledBound' /\ ReadyPublished'
  BY <1>3, <1>5 DEF RoundsInv, RoundsTypeOK, EnrolledBound, ReadyPublished
<1>7. MadeOnce' /\ WaitersOfRounds' /\ OutcomesProven'
  BY <1>2, <1>3, <1>4, <1>5 DEF RoundsInv, RoundsTypeOK, MadeOnce, WaitersOfRounds, OutcomesProven
<1> QED BY <1>6, <1>7 DEF RoundsInv

LEMMA roundStep ==
  ASSUME RoundsInv, NEW r \in DOMAIN rounds, Rounds!reconcileWorkspace(r) \/ Rounds!summary(r)
  PROVE  RoundsInv'
<1>1. rounds[r] \in RoundType /\ rounds \in Seq(RoundType)
  BY DEF RoundsInv, RoundsTypeOK
<1>2. PICK g \in RoundType :
        /\ rounds' = [rounds EXCEPT ![r] = g]
        /\ g.at # "queued" /\ g.made = rounds[r].made
        /\ rounds[r].at = "queued" \/ g.of = rounds[r].of
        /\ \A s \in Sids : g.of[s] = rounds[r].of[s] \/ g.of[s] \in {"restoring", "none"}
  <2> DEFINE fresh0 == [s \in Sids |-> IF s \in restoreOpen THEN "restoring" ELSE "none"]
  <2>1. fresh0 \in [Sids -> SessionStates] /\ \A s \in Sids : fresh0[s] \in {"restoring", "none"}
    BY DEF SessionStates
  <2>2. \/ rounds[r].at = "queued" /\ rounds' = [rounds EXCEPT ![r].at = "running", ![r].of = fresh0]
        \/ rounds' = [rounds EXCEPT ![r].at = "ended"]
    BY DEF Rounds!reconcileWorkspace, Rounds!summary
  <2> HIDE DEF fresh0
  <2>3. CASE rounds[r].at = "queued" /\ rounds' = [rounds EXCEPT ![r].at = "running", ![r].of = fresh0]
    <3> DEFINE g == [[rounds[r] EXCEPT !.at = "running"] EXCEPT !.of = fresh0]
    <3>1. rounds' = [rounds EXCEPT ![r] = g]
      BY <1>1, <2>3
    <3>2. g \in RoundType /\ g.at = "running" /\ g.of = fresh0 /\ g.made = rounds[r].made
      BY <1>1, <2>1 DEF RoundType
    <3> QED BY <3>1, <3>2, <2>1, <2>3
  <2>4. CASE rounds' = [rounds EXCEPT ![r].at = "ended"]
    <3> DEFINE g == [rounds[r] EXCEPT !.at = "ended"]
    <3>1. rounds' = [rounds EXCEPT ![r] = g]
      BY <1>1, <2>4
    <3>2. g \in RoundType /\ g.at = "ended" /\ g.of = rounds[r].of /\ g.made = rounds[r].made
      BY <1>1 DEF RoundType
    <3> QED BY <3>1, <3>2
  <2> QED BY <2>2, <2>3, <2>4
<1>4. /\ rounds' \in Seq(RoundType) /\ DOMAIN rounds' = DOMAIN rounds /\ rounds'[r] = g
      /\ \A q \in DOMAIN rounds \ {r} : rounds'[q] = rounds[q]
  BY <1>1, <1>2
<1>5. UNCHANGED <<restoreOpen, launches, ordinary, child, restoreBound, ready, fresh, published, waiters>>
  BY DEF Rounds!reconcileWorkspace, Rounds!summary, Rounds!Children, Rounds!Readiness
<1>6. RoundsTypeOK' /\ EnrolledBound' /\ ReadyPublished'
  BY <1>4, <1>5 DEF RoundsInv, RoundsTypeOK, EnrolledBound, ReadyPublished
<1>7. MadeOnce'
  BY <1>2, <1>4, <1>5 DEF RoundsInv, MadeOnce
<1>8. WaitersOfRounds'
  BY <1>2, <1>4, <1>5 DEF RoundsInv, WaitersOfRounds
<1>9. OutcomesProven'
  BY <1>2, <1>4, <1>5 DEF RoundsInv, OutcomesProven
<1> QED BY <1>6, <1>7, <1>8, <1>9 DEF RoundsInv

(* A child is launched: the earlier ones are as they were. *)
LEMMA LaunchAdds ==
  ASSUME RoundsTypeOK, NEW s \in Sids, NEW c \in {"starting", "enrolled"},
         launches' = Append(launches, s), child' = Append(child, c)
  PROVE  /\ launches' \in Seq(Sids) /\ child' \in Seq({"starting", "enrolled", "ended"}) /\ Len(child') = Len(launches')
         /\ Rounds!New \in Nat \ {0} /\ Rounds!New \notin DOMAIN launches
         /\ DOMAIN launches' = DOMAIN launches \cup {Rounds!New}
         /\ launches'[Rounds!New] = s /\ child'[Rounds!New] = c
         /\ \A l \in DOMAIN launches : launches'[l] = launches[l] /\ child'[l] = child[l] /\ l \in Nat \ {0}
<1>1. launches \in Seq(Sids) /\ child \in Seq({"starting", "enrolled", "ended"}) /\ Len(child) = Len(launches)
  BY DEF RoundsTypeOK
<1>2. /\ launches' \in Seq(Sids) /\ Len(launches') = Len(launches) + 1
      /\ \A i \in 1 .. Len(launches) : launches'[i] = launches[i]
      /\ launches'[Len(launches) + 1] = s
  BY <1>1, AppendProperties
<1>3. /\ child' \in Seq({"starting", "enrolled", "ended"}) /\ Len(child') = Len(child) + 1
      /\ \A i \in 1 .. Len(child) : child'[i] = child[i]
      /\ child'[Len(child) + 1] = c
  <2>1. c \in {"starting", "enrolled", "ended"}
    OBVIOUS
  <2> QED BY <1>1, <2>1, AppendProperties
<1> QED BY <1>1, <1>2, <1>3 DEF Rounds!New

LEMMA restoreStep ==
  ASSUME RoundsInv, NEW r \in DOMAIN rounds, NEW s \in Sids, Rounds!restoreWindow(r, s)
  PROVE  RoundsInv'
<1>1. /\ rounds[r].of[s] = "restoring" /\ UNCHANGED <<ready, fresh, published, waiters>>
  BY DEF Rounds!restoreWindow, Rounds!Readiness
<1>2. RoundsTypeOK
  BY DEF RoundsInv
<1>3. CASE \E state \in {"failed", "window"} : Rounds!Puts(r, s, state, 0) /\ UNCHANGED <<restoreOpen, launches, ordinary, child, restoreBound>>
  <2>1. PICK state \in {"failed", "window"} : Rounds!Puts(r, s, state, 0)
    BY <1>3
  <2>2. UNCHANGED <<launches, child, restoreBound>>
    BY <1>3
  <2>3. /\ rounds' \in Seq(RoundType) /\ DOMAIN rounds' = DOMAIN rounds
        /\ \A q \in DOMAIN rounds \ {r} : rounds'[q] = rounds[q]
        /\ rounds'[r].at = rounds[r].at
        /\ \A t \in Sids : /\ rounds'[r].of[t] = IF t = s THEN state ELSE rounds[r].of[t]
                           /\ rounds'[r].made[t] = IF t = s THEN 0 ELSE rounds[r].made[t]
    BY <1>2, <2>1, PutsChanges DEF SessionStates, Rounds!Outcomes
  <2>4. RoundsTypeOK' /\ EnrolledBound' /\ ReadyPublished'
    BY <1>1, <2>2, <2>3 DEF RoundsInv, RoundsTypeOK, EnrolledBound, ReadyPublished
  <2>5. MadeOnce'
    BY <1>1, <2>2, <2>3 DEF RoundsInv, MadeOnce
  <2>6. WaitersOfRounds'
    BY <1>1, <2>3, WaitersKept
  <2>7. OutcomesProven'
    BY <1>1, <2>1, <2>2, <2>3 DEF RoundsInv, OutcomesProven
  <2> QED BY <2>4, <2>5, <2>6, <2>7 DEF RoundsInv
<1>4. CASE restoreBound[s] = 0 /\ Rounds!Launch(s) /\ \E state \in {"failed", "window"} :
             /\ Rounds!Puts(r, s, state, Rounds!New)
             /\ restoreBound' \in {restoreBound, [restoreBound EXCEPT ![s] = Rounds!New]}
  <2>1. PICK state \in {"failed", "window"} : Rounds!Puts(r, s, state, Rounds!New)
    BY <1>4
  <2>2. /\ launches' \in Seq(Sids) /\ child' \in Seq({"starting", "enrolled", "ended"}) /\ Len(child') = Len(launches')
        /\ Rounds!New \in Nat \ {0} /\ Rounds!New \notin DOMAIN launches
        /\ DOMAIN launches' = DOMAIN launches \cup {Rounds!New}
        /\ launches'[Rounds!New] = s /\ child'[Rounds!New] = "starting"
        /\ \A l \in DOMAIN launches : launches'[l] = launches[l] /\ child'[l] = child[l] /\ l \in Nat \ {0}
    BY <1>2, <1>4, LaunchAdds DEF Rounds!Launch
  <2> DEFINE new == Rounds!New
  <2>3. restoreBound' \in {restoreBound, [restoreBound EXCEPT ![s] = new]} /\ restoreBound[s] = 0
    BY <1>4
  <2> HIDE DEF new
  <2>4. /\ rounds' \in Seq(RoundType) /\ DOMAIN rounds' = DOMAIN rounds
        /\ \A q \in DOMAIN rounds \ {r} : rounds'[q] = rounds[q]
        /\ rounds'[r].at = rounds[r].at
        /\ \A t \in Sids : /\ rounds'[r].of[t] = IF t = s THEN state ELSE rounds[r].of[t]
                           /\ rounds'[r].made[t] = IF t = s THEN new ELSE rounds[r].made[t]
    BY <1>2, <2>1, <2>2, PutsChanges DEF SessionStates, Rounds!Outcomes, new
  <2>5. RoundsTypeOK'
    BY <1>1, <2>2, <2>3, <2>4 DEF RoundsInv, RoundsTypeOK, new
  <2>6. EnrolledBound'
    <3> SUFFICES ASSUME NEW l \in DOMAIN launches', child'[l] = "enrolled" PROVE restoreBound'[launches'[l]] = l
      BY DEF EnrolledBound
    <3>1. l \in DOMAIN launches /\ l # 0 /\ launches'[l] = launches[l] /\ child[l] = "enrolled"
      BY <2>2
    <3>2. restoreBound[launches[l]] = l
      BY <3>1 DEF RoundsInv, EnrolledBound
    <3> QED BY <1>2, <2>3, <3>1, <3>2 DEF RoundsTypeOK
  <2>7. ReadyPublished'
    BY <1>1, <2>2 DEF RoundsInv, RoundsTypeOK, ReadyPublished
  <2>8. MadeOnce'
    <3> SUFFICES ASSUME NEW q \in DOMAIN rounds, NEW t \in Sids, rounds'[q].made[t] # 0
                 PROVE  /\ rounds'[q].made[t] \in DOMAIN launches' /\ launches'[rounds'[q].made[t]] = t
                        /\ \A p \in DOMAIN rounds \ {q} : rounds'[p].made[t] # rounds'[q].made[t]
      BY <2>4 DEF MadeOnce
    <3>1. \A p \in DOMAIN rounds : rounds[p].made[t] # new
      <4>1. \A p \in DOMAIN rounds : rounds[p].made[t] # 0 => rounds[p].made[t] \in DOMAIN launches
        BY DEF RoundsInv, MadeOnce
      <4>2. new # 0 /\ new \notin DOMAIN launches
        BY <2>2 DEF new
      <4> QED BY <4>1, <4>2
    <3>2. CASE q = r /\ t = s
      BY <2>2, <2>4, <3>1, <3>2 DEF new
    <3>3. CASE ~ (q = r /\ t = s)
      <4>1. rounds'[q].made[t] = rounds[q].made[t]
        BY <2>4, <3>3
      <4>2. /\ rounds[q].made[t] \in DOMAIN launches /\ launches[rounds[q].made[t]] = t
            /\ \A p \in DOMAIN rounds \ {q} : rounds[p].made[t] # rounds[q].made[t]
        BY <4>1 DEF RoundsInv, MadeOnce
      <4>3. \A p \in DOMAIN rounds \ {q} : rounds'[p].made[t] \in {rounds[p].made[t], new}
        BY <2>4
      <4> QED BY <2>2, <4>1, <4>2, <4>3, <3>1
    <3> QED BY <3>2, <3>3
  <2>9. WaitersOfRounds'
    BY <1>1, <2>4, WaitersKept
  <2>10. OutcomesProven'
    <3>1. \A l \in published : launches'[l] = launches[l]
      BY <1>2, <2>2 DEF RoundsTypeOK
    <3>2. state \notin {"restored", "active"}
      BY <2>1
    <3> QED BY <1>1, <2>4, <3>1, <3>2 DEF RoundsInv, OutcomesProven
  <2> QED BY <2>5, <2>6, <2>7, <2>8, <2>9, <2>10 DEF RoundsInv
<1> QED BY <1>3, <1>4 DEF Rounds!restoreWindow, Rounds!Children

LEMMA awaitStep ==
  ASSUME RoundsInv, NEW r \in DOMAIN rounds, NEW s \in Sids, Rounds!awaitReady(r, s) \/ Rounds!Timeout(r, s)
  PROVE  RoundsInv'
<1> DEFINE l == rounds[r].made[s]
<1>1. RoundsTypeOK /\ l \in Nat /\ rounds[r].at = "running"
  <2>1. RoundsTypeOK /\ rounds[r] \in RoundType
    BY DEF RoundsInv, RoundsTypeOK
  <2> QED BY <2>1 DEF RoundType, Rounds!awaitReady, Rounds!Timeout, Rounds!Running
<1>2. UNCHANGED <<restoreOpen, launches, ordinary, child, restoreBound, ready, fresh, published>>
  BY DEF Rounds!awaitReady, Rounds!Timeout, Rounds!Children
<1>3. PICK state \in SessionStates :
        /\ Rounds!Puts(r, s, state, l)
        /\ \/ /\ state = Rounds!Outcome(l) /\ Rounds!isPresent(s, l) /\ waiters' = waiters
              /\ rounds[r].of[s] = "window"
           \/ /\ state = "waiting" /\ waiters' = waiters \cup {[round |-> r, sid |-> s, launch |-> l]}
              /\ rounds[r].of[s] = "window"
           \/ /\ state = "timed-out" /\ waiters' = {w \in waiters : w.round # r \/ w.sid # s}
  <2>1. /\ {"waiting", "timed-out"} \subseteq SessionStates /\ Rounds!Outcome(l) \in SessionStates
    BY DEF SessionStates, Rounds!Outcomes, Rounds!Outcome
  <2> HIDE DEF SessionStates
  <2> QED BY <2>1 DEF Rounds!awaitReady, Rounds!Timeout
<1>4. /\ rounds' \in Seq(RoundType) /\ DOMAIN rounds' = DOMAIN rounds
      /\ \A q \in DOMAIN rounds \ {r} : rounds'[q] = rounds[q]
      /\ rounds'[r].at = rounds[r].at
      /\ \A t \in Sids : /\ rounds'[r].of[t] = IF t = s THEN state ELSE rounds[r].of[t]
                         /\ rounds'[r].made[t] = rounds[r].made[t]
  BY <1>1, <1>3, PutsChanges
<1>5. r \in Nat
  BY <1>1 DEF RoundsTypeOK
<1>6. RoundsTypeOK'
  BY <1>1, <1>2, <1>3, <1>4, <1>5 DEF RoundsTypeOK
<1>7. EnrolledBound' /\ ReadyPublished'
  BY <1>2 DEF RoundsInv, EnrolledBound, ReadyPublished
<1>8. MadeOnce'
  BY <1>2, <1>4 DEF RoundsInv, MadeOnce
<1>9. WaitersOfRounds'
  <2>1. CASE state # "waiting" /\ waiters' \subseteq waiters
    <3>1. rounds[r].of[s] # "waiting" \/ \A w \in waiters' : w.round # r \/ w.sid # s
      BY <1>3, <2>1
    <3> QED BY <1>4, <2>1, <3>1, WaitersKept
  <2>2. CASE state = "waiting" /\ waiters' = waiters \cup {[round |-> r, sid |-> s, launch |-> l]}
    <3> SUFFICES ASSUME NEW w \in waiters'
                 PROVE  /\ w.round \in DOMAIN rounds' /\ rounds'[w.round].at # "queued"
                        /\ rounds'[w.round].of[w.sid] = "waiting" /\ rounds'[w.round].made[w.sid] = w.launch
      BY DEF WaitersOfRounds
    <3>1. CASE w = [round |-> r, sid |-> s, launch |-> l]
      BY <1>1, <1>4, <2>2, <3>1
    <3>2. CASE w \in waiters
      <4>1. /\ w.round \in DOMAIN rounds /\ w.sid \in Sids /\ rounds[w.round].at # "queued"
            /\ rounds[w.round].of[w.sid] = "waiting" /\ rounds[w.round].made[w.sid] = w.launch
        BY <3>2 DEF RoundsInv, RoundsTypeOK, WaitersOfRounds
      <4>2. CASE w.round = r
        BY <1>4, <2>2, <4>1, <4>2
      <4>3. CASE w.round # r
        BY <1>4, <4>1, <4>3
      <4> QED BY <4>2, <4>3
    <3> QED BY <2>2, <3>1, <3>2
  <2>3. Rounds!Outcome(l) # "waiting"
    BY DEF Rounds!Outcome
  <2> QED BY <1>3, <2>1, <2>2, <2>3
<1>10. OutcomesProven'
  <2>1. CASE state \in {"waiting", "timed-out"}
    BY <1>2, <1>4, <2>1 DEF RoundsInv, OutcomesProven
  <2>2. CASE state = Rounds!Outcome(l) /\ Rounds!isPresent(s, l)
    <3>1. ready[s] \in published /\ launches[ready[s]] = s /\ (l = 0 \/ l = ready[s])
      BY <2>2 DEF RoundsInv, ReadyPublished, Rounds!isPresent, Rounds!Matches
    <3>2. state = IF l = 0 THEN "active" ELSE "restored"
      BY <2>2 DEF Rounds!Outcome
    <3> QED BY <1>2, <1>4, <3>1, <3>2 DEF RoundsInv, OutcomesProven
  <2> QED BY <1>3, <2>1, <2>2
<1> QED BY <1>6, <1>7, <1>8, <1>9, <1>10 DEF RoundsInv

LEMMA publishStep ==
  ASSUME RoundsInv, NEW l \in DOMAIN launches, Rounds!publishChildReady(l)
  PROVE  RoundsInv'
<1> DEFINE s == launches[l]
           told == {w \in waiters : w.sid = s /\ Rounds!Matches(l, w.launch)}
           now(r) == IF \E w \in told : w.round = r THEN Rounds!Outcome(rounds[r].made[s]) ELSE rounds[r].of[s]
           after(r) == [rounds[r] EXCEPT !.of = [rounds[r].of EXCEPT ![s] = now(r)]]
<1>1. /\ RoundsTypeOK /\ s \in Sids /\ l \in Nat \ {0} /\ rounds \in Seq(RoundType)
      /\ \A r \in DOMAIN rounds : rounds[r] \in RoundType
  BY DEF RoundsInv, RoundsTypeOK
<1>2. /\ UNCHANGED <<restoreOpen, launches, ordinary, child, restoreBound>>
      /\ ready' = [ready EXCEPT ![s] = l] /\ published' = published \cup {l}
      /\ waiters' = {w \in waiters : w.sid # s}
      /\ rounds' = [r \in DOMAIN rounds |-> after(r)]
  <2>1. /\ ready' = [ready EXCEPT ![s] = l] /\ published' = published \cup {l}
        /\ waiters' = {w \in waiters : w.sid # s}
    BY DEF Rounds!publishChildReady, Rounds!publishReady
  <2>2. UNCHANGED <<restoreOpen, launches, ordinary, child, restoreBound>>
    BY DEF Rounds!publishChildReady, Rounds!Children
  <2>3. rounds' = [r \in DOMAIN rounds |->
           [rounds[r] EXCEPT !.of[s] = IF \E w \in told : w.round = r
                                         THEN Rounds!Outcome(rounds[r].made[s]) ELSE @]]
    BY DEF Rounds!publishChildReady, Rounds!publishReady
  <2>4. \A r \in DOMAIN rounds :
          [rounds[r] EXCEPT !.of[s] = IF \E w \in told : w.round = r
                                        THEN Rounds!Outcome(rounds[r].made[s]) ELSE @] = after(r)
    OBVIOUS
  <2> QED BY <2>1, <2>2, <2>3, <2>4
<1>3. \A r \in DOMAIN rounds : now(r) \in SessionStates
  <2>1. \A r \in DOMAIN rounds : rounds[r].of[s] \in SessionStates
    BY <1>1 DEF RoundType
  <2> QED BY <2>1 DEF Rounds!Outcome, SessionStates, Rounds!Outcomes
<1>4. \A r \in DOMAIN rounds :
        (\E w \in told : w.round = r) => rounds[r].made[s] = 0 \/ rounds[r].made[s] = l
  BY DEF RoundsInv, WaitersOfRounds, Rounds!Matches
<1> HIDE DEF told
<1>5. ASSUME NEW r \in DOMAIN rounds
      PROVE  /\ after(r) \in RoundType /\ after(r).at = rounds[r].at /\ after(r).made = rounds[r].made
             /\ \A t \in Sids : after(r).of[t] = IF t = s THEN now(r) ELSE rounds[r].of[t]
  <2> DEFINE n == now(r)
  <2>1. n \in SessionStates /\ rounds[r] \in RoundType
    BY <1>1, <1>3
  <2> HIDE DEF n
  <2>2. LET g == [rounds[r] EXCEPT !.of = [rounds[r].of EXCEPT ![s] = n]] IN
        /\ g \in RoundType /\ g.at = rounds[r].at /\ g.made = rounds[r].made
        /\ \A t \in Sids : g.of[t] = IF t = s THEN n ELSE rounds[r].of[t]
    BY <2>1, <1>1 DEF RoundType
  <2> QED BY <2>2 DEF n
<1> HIDE DEF after
<1>6. /\ rounds' \in Seq(RoundType) /\ DOMAIN rounds' = DOMAIN rounds
      /\ \A r \in DOMAIN rounds :
           /\ rounds'[r].at = rounds[r].at /\ rounds'[r].made = rounds[r].made
           /\ \A t \in Sids : rounds'[r].of[t] = IF t = s THEN now(r) ELSE rounds[r].of[t]
  BY <1>1, <1>2, <1>5
<1>7. RoundsTypeOK' /\ EnrolledBound'
  BY <1>1, <1>2, <1>6 DEF RoundsInv, RoundsTypeOK, EnrolledBound
<1>8. ReadyPublished'
  BY <1>1, <1>2 DEF RoundsInv, RoundsTypeOK, ReadyPublished
<1>9. MadeOnce'
  BY <1>2, <1>6 DEF RoundsInv, MadeOnce
<1>10. WaitersOfRounds'
  BY <1>1, <1>2, <1>6 DEF RoundsInv, RoundsTypeOK, WaitersOfRounds
<1>11. OutcomesProven'
  <2>1. \A r \in DOMAIN rounds : now(r) = rounds[r].of[s] \/ \E w \in told : w.round = r
    OBVIOUS
  <2>2. \A r \in DOMAIN rounds : (\E w \in told : w.round = r) =>
          now(r) = IF rounds[r].made[s] = 0 THEN "active" ELSE "restored"
    BY DEF Rounds!Outcome
  <2> HIDE DEF now
  <2> QED BY <1>1, <1>2, <1>4, <1>6, <2>1, <2>2 DEF RoundsInv, OutcomesProven
<1> QED BY <1>7, <1>8, <1>9, <1>10, <1>11 DEF RoundsInv

LEMMA childStep ==
  ASSUME RoundsInv,
         \/ \E s \in Sids : Rounds!Ages(s)
         \/ \E l \in DOMAIN launches : Rounds!verifyRestoredWorkLaunch(l) \/ Rounds!ChildEnds(l)
  PROVE  RoundsInv'
<1>1. UNCHANGED <<launches, ready, published, waiters, rounds>>
  BY DEF Rounds!Ages, Rounds!verifyRestoredWorkLaunch, Rounds!ChildEnds, Rounds!Ended, Rounds!Readiness,
      Rounds!Children
<1>2. RoundsTypeOK
  BY DEF RoundsInv
<1>3. RoundsTypeOK' /\ EnrolledBound'
  <2>1. CASE UNCHANGED <<child, restoreBound>>
    BY <1>1, <2>1 DEF RoundsInv, RoundsTypeOK, EnrolledBound
  <2>2. ASSUME NEW l \in DOMAIN launches, child' = [child EXCEPT ![l] = "ended"],
               restoreBound' = [restoreBound EXCEPT ![launches[l]] = IF @ = l THEN 0 ELSE @]
        PROVE  RoundsTypeOK' /\ EnrolledBound'
    BY <1>1, <2>2 DEF RoundsInv, RoundsTypeOK, EnrolledBound
  <2>3. ASSUME NEW l \in DOMAIN launches, child' = [child EXCEPT ![l] = "enrolled"],
               restoreBound' = [restoreBound EXCEPT ![launches[l]] = l], restoreBound[launches[l]] \in {0, l}
        PROVE  RoundsTypeOK' /\ EnrolledBound'
    BY <1>1, <2>3 DEF RoundsInv, RoundsTypeOK, EnrolledBound
  <2>4. ASSUME NEW l \in DOMAIN launches, Rounds!verifyRestoredWorkLaunch(l) \/ Rounds!ChildEnds(l)
        PROVE  \/ /\ child' = [child EXCEPT ![l] = "ended"]
                  /\ restoreBound' = [restoreBound EXCEPT ![launches[l]] = IF @ = l THEN 0 ELSE @]
               \/ /\ child' = [child EXCEPT ![l] = "enrolled"]
                  /\ restoreBound' = [restoreBound EXCEPT ![launches[l]] = l] /\ restoreBound[launches[l]] \in {0, l}
    BY <2>4 DEF Rounds!verifyRestoredWorkLaunch, Rounds!ChildEnds, Rounds!Ended
  <2>5. ASSUME NEW s \in Sids, Rounds!Ages(s) PROVE UNCHANGED <<child, restoreBound>>
    BY <2>5 DEF Rounds!Ages, Rounds!Children
  <2>6. CASE \E s \in Sids : Rounds!Ages(s)
    BY <2>1, <2>5, <2>6
  <2>7. CASE \E l \in DOMAIN launches : Rounds!verifyRestoredWorkLaunch(l) \/ Rounds!ChildEnds(l)
    <3>1. PICK l \in DOMAIN launches : Rounds!verifyRestoredWorkLaunch(l) \/ Rounds!ChildEnds(l)
      BY <2>7
    <3>2. \/ /\ child' = [child EXCEPT ![l] = "ended"]
             /\ restoreBound' = [restoreBound EXCEPT ![launches[l]] = IF @ = l THEN 0 ELSE @]
          \/ /\ child' = [child EXCEPT ![l] = "enrolled"]
             /\ restoreBound' = [restoreBound EXCEPT ![launches[l]] = l] /\ restoreBound[launches[l]] \in {0, l}
      BY <2>4, <3>1
    <3> QED BY <2>2, <2>3, <3>2
  <2> QED BY <2>6, <2>7
<1> QED BY <1>1, <1>3 DEF RoundsInv, ReadyPublished, MadeOnce, WaitersOfRounds, OutcomesProven

LEMMA ordinaryStep ==
  ASSUME RoundsInv, NEW s \in Sids, Rounds!OrdinaryStarts(s)
  PROVE  RoundsInv'
<1> DEFINE new == Rounds!New
<1>1. /\ UNCHANGED <<ready, published, waiters, rounds>> /\ restoreBound[s] = 0
      /\ restoreBound' = [restoreBound EXCEPT ![s] = new]
  BY DEF Rounds!OrdinaryStarts, Rounds!Readiness
<1>2. RoundsTypeOK
  BY DEF RoundsInv
<1>3. /\ launches' \in Seq(Sids) /\ child' \in Seq({"starting", "enrolled", "ended"}) /\ Len(child') = Len(launches')
      /\ new \in Nat \ {0} /\ new \notin DOMAIN launches
      /\ DOMAIN launches' = DOMAIN launches \cup {new}
      /\ launches'[new] = s
      /\ \A l \in DOMAIN launches : launches'[l] = launches[l] /\ child'[l] = child[l] /\ l \in Nat \ {0}
  BY <1>2, LaunchAdds DEF Rounds!OrdinaryStarts
<1> HIDE DEF new
<1>4. RoundsTypeOK'
  BY <1>1, <1>2, <1>3 DEF RoundsTypeOK
<1>6. EnrolledBound'
  <2> SUFFICES ASSUME NEW l \in DOMAIN launches', child'[l] = "enrolled" PROVE restoreBound'[launches'[l]] = l
    BY DEF EnrolledBound
  <2>1. CASE l = new
    BY <1>1, <1>2, <1>3, <2>1 DEF RoundsTypeOK
  <2>2. CASE l # new
    <3>1. l \in DOMAIN launches /\ l # 0 /\ launches'[l] = launches[l] /\ child[l] = "enrolled"
      BY <1>3, <2>2
    <3>2. restoreBound[launches[l]] = l
      BY <3>1 DEF RoundsInv, EnrolledBound
    <3> QED BY <1>1, <1>2, <3>1, <3>2 DEF RoundsTypeOK
  <2> QED BY <2>1, <2>2
<1>5. ReadyPublished' /\ MadeOnce' /\ WaitersOfRounds' /\ OutcomesProven'
  BY <1>1, <1>2, <1>3 DEF RoundsInv, RoundsTypeOK, ReadyPublished, MadeOnce, WaitersOfRounds, OutcomesProven
<1> QED BY <1>4, <1>5, <1>6 DEF RoundsInv

LEMMA RoundsStep == RoundsInv /\ [Rounds!Next]_Rounds!restoreVars => RoundsInv'
<1> SUFFICES ASSUME RoundsInv, [Rounds!Next]_Rounds!restoreVars PROVE RoundsInv'
  OBVIOUS
<1>1. CASE UNCHANGED Rounds!restoreVars
  BY <1>1 DEF Rounds!restoreVars, RoundsInv, RoundsTypeOK, EnrolledBound, ReadyPublished, MadeOnce,
      WaitersOfRounds, OutcomesProven
<1> QED BY <1>1, reconcileStep, roundStep, restoreStep, awaitStep, publishStep, childStep, ordinaryStep
        DEF Rounds!Next, Rounds!Coordinates

LEMMA RoundsMove == [MC_Next]_<<focus, theBinding, theLifecycle, theStart, theBus, theRestore>> => [Rounds!Next]_Rounds!restoreVars
  BY DEF MC_Next, theRestore, Rounds!restoreVars

(* A round reports a session as restored only when the child it launched itself said    *)
(* that it is ready, and no session has two enrolled children (coordinator.ts,          *)
(* reconcileWorkspace and restoreWindow, index.ts, publishChildReady).                  *)
THEOREM RestoredWasReady == MC_Spec => []RestoredIsProven
<1>1. RoundsInv => RestoredIsProven
  <2> SUFFICES ASSUME RoundsInv PROVE RestoredIsProven
    OBVIOUS
  <2>1. \A l \in DOMAIN launches : l # 0
    BY DEF RoundsInv, RoundsTypeOK
  <2>2. \A r \in DOMAIN rounds, s \in Sids : rounds[r].of[s] = "restored" => rounds[r].made[s] # 0
    BY <2>1 DEF RoundsInv, RoundsTypeOK, OutcomesProven
  <2> QED BY <2>2 DEF RoundsInv, RestoredIsProven, Rounds!RestoredIsProven, EnrolledBound, MadeOnce, OutcomesProven
<1>2. MC_Init => Rounds!Init
  BY DEF MC_Init
<1> QED BY <1>1, <1>2, RoundsInit, RoundsStep, RoundsMove, PTL DEF MC_Spec

-----------------------------------------------------------------------------
(* SessionLifecycle: the window follows the session that is managed, however its   *)
(* events interleave.                                                              *)

CallStates == {"awaitStartup", "queued", "window", "resolved", "unbinds", "release", "released", "end"}
Outcomes == {"none", "done", "failed", "unmanaged", "managed", "unbound", "missed"}
RecordSet == [state : {"absent", "open", "closed"}, materialized : BOOLEAN, name : Nat]
CallSet == [kind : {"start", "adopt", "close", "rename", "refresh", "shutdown"}, sid : Sids \cup {NoSid}, gen : Nat,
            name : Nat, was : Nat, snap : RecordSet, at : CallStates, got : Outcomes]

LifeTypeOK ==
  /\ record \in [Sids -> RecordSet] /\ finished \subseteq Sids /\ spoiled \in BOOLEAN
  /\ lifeTag \in Sids \cup {NoSid} /\ session \in Sids \cup {NoSid} /\ managed \in Sids \cup {NoSid}
  /\ name \in Nat /\ cached \in RecordSet /\ generation \in Nat /\ workStartup \in Nat
  /\ calls \in Seq(CallSet) /\ transitions \in Seq(Nat)

(* A call is of its kind, where such a call can be, and one of a session that has one. *)
Is(c, kind, states) == calls[c].kind = kind /\ calls[c].at \in states
CallsKnown ==
  \A c \in DOMAIN calls :
       /\ calls[c].gen <= generation
       /\ \/ calls[c].kind = "start" /\ calls[c].at \in CallStates \ {"awaitStartup", "unbinds"} /\ calls[c].sid \in Sids
          \/ calls[c].kind = "adopt" /\ calls[c].at \in {"queued", "window", "resolved", "end"} /\ calls[c].sid \in Sids
          \/ calls[c].kind = "close" /\ calls[c].at \in {"queued", "resolved", "unbinds", "end"} /\ calls[c].sid \in Sids
          \/ calls[c].kind = "refresh" /\ calls[c].at \in {"queued", "resolved", "end"} /\ calls[c].sid \in Sids
          \/ calls[c].kind = "rename" /\ calls[c].at \in {"awaitStartup", "end"}
          \/ calls[c].kind = "rename" /\ calls[c].at \in {"queued", "window", "resolved"} /\ calls[c].sid \in Sids
          \/ calls[c].kind = "shutdown" /\ calls[c].at \in {"awaitStartup", "released", "end"}
          \/ calls[c].kind = "shutdown" /\ calls[c].at = "release" /\ calls[c].sid \in Sids

(* Whose operation waits for its turn is queued, once. *)
Waits(c) == calls[c].at \in {"queued", "window", "release"}
QueueKnown ==
  /\ \A i \in DOMAIN transitions : transitions[i] \in DOMAIN calls /\ Waits(transitions[i])
  /\ \A i, j \in DOMAIN transitions : transitions[i] = transitions[j] => i = j
  /\ \A c \in DOMAIN calls : Waits(c) => \E i \in DOMAIN transitions : transitions[i] = c
  /\ \A c \in DOMAIN calls : calls[c].at = "window" => transitions[1] = c

(* A closed record stays closed. *)
ClosedNow(c) == calls[c].kind = "close" /\ (calls[c].at = "unbinds" \/ (calls[c].at = "resolved" /\ calls[c].got = "done"))
ClosedStays == /\ \A c \in DOMAIN calls : ClosedNow(c) => record[calls[c].sid].state = "closed"
               /\ \A s \in finished : record[s].state = "closed"

(* At most one enrolment is under way; a shutdown waits for it. *)
Shutting == Life!UnderWay("shutdown")
OneStart ==
  /\ \A c \in DOMAIN calls : Life!Busy(c) /\ calls[c].kind = "start" =>
       /\ workStartup = c /\ calls[c].sid = session /\ (~Life!Stale(c) \/ Shutting)
       /\ calls[c].at \in {"release", "released"} => Shutting
  /\ workStartup # 0 => workStartup \in DOMAIN calls /\ Life!Busy(workStartup) /\ calls[workStartup].kind = "start"
  /\ session = NoSid => workStartup = 0 /\ ~Shutting
OneShutdown ==
  /\ \A c, d \in DOMAIN calls : Life!Busy(c) /\ Life!Busy(d) /\ calls[c].kind = "shutdown" /\ calls[d].kind = "shutdown" => c = d
  /\ \A c \in DOMAIN calls : Is(c, "shutdown", {"release", "released"}) => workStartup = 0
  /\ spoiled \/ \A c \in DOMAIN calls : Is(c, "shutdown", {"release"}) => calls[c].sid = session

ErrorsSpoil ==
  \A c \in DOMAIN calls : calls[c].at = "resolved" =>
    /\ calls[c].got \in {"failed", "unbound"} => spoiled
    /\ calls[c].kind \in {"start", "adopt"} => calls[c].got \in {"failed", "unbound", "unmanaged", "managed"}
    /\ calls[c].kind = "adopt" => calls[c].got # "unmanaged"
    /\ calls[c].kind = "close" => calls[c].got \in {"failed", "done"}

(* An adoption that was not overtaken is one of the session that runs, as is what is *)
(* managed; nothing is while an enrolment is under way.                             *)
AdoptsCurrent ==
  spoiled \/ \A c \in DOMAIN calls : Life!Busy(c) /\ calls[c].kind = "adopt" =>
    session # NoSid /\ calls[c].sid = session /\ ~Shutting /\ calls[c].name = name
ManagedCurrent ==
  spoiled \/ /\ managed \in {NoSid, session}
             /\ workStartup # 0 => /\ managed = NoSid
                                   /\ \A c \in DOMAIN calls : Life!Busy(c) /\ calls[c].kind = "close" => Life!Stale(c)
ClosesCurrent ==
  spoiled \/ session = NoSid \/
    \A c \in DOMAIN calls : Life!Busy(c) /\ calls[c].kind = "close" /\ ~Life!Stale(c) => calls[c].sid = session

(* Until the enrolment has had its turn no adoption has. *)
AdoptsAfterStart ==
  spoiled \/ \A c \in DOMAIN calls : Is(c, "adopt", {"window", "resolved"}) =>
    workStartup = 0 /\ \A d \in DOMAIN calls : ~Is(d, "rename", {"awaitStartup"})
StartsFirst ==
  spoiled \/ \A i, j \in DOMAIN transitions :
    Is(transitions[i], "start", {"queued", "window"}) /\ Is(transitions[j], "adopt", {"queued", "window"}) => i < j
(* What an earlier session left in the queue comes before the enrolment of this one. *)
QueueCurrent ==
  spoiled \/ Shutting \/ session = NoSid \/ \A j \in DOMAIN transitions :
    Life!Stale(transitions[j]) => \E i \in DOMAIN transitions : i > j /\ transitions[i] = workStartup

(* The window is bound to what is managed, or about to be, or about to be released. *)
Enrolls(c) == calls[c].kind \in {"start", "adopt"} /\ calls[c].at = "resolved" /\ calls[c].got = "managed"
Odd(c) == Enrolls(c) \/ Is(c, "start", {"release"}) \/ Is(c, "shutdown", {"released"})
TagFollows ==
  spoiled \/
    /\ \A c \in DOMAIN calls : Enrolls(c) \/ Is(c, "start", {"release"}) => lifeTag = calls[c].sid
    /\ \A c \in DOMAIN calls : Is(c, "shutdown", {"released"}) => lifeTag = NoSid
    /\ (\A c \in DOMAIN calls : ~Odd(c)) => lifeTag = managed

(* Its record is open, until it is closed. *)
Enrolling(c) == Enrolls(c) \/ Is(c, "start", {"window"}) \/ Is(c, "adopt", {"window"})
RecordOpen ==
  spoiled \/
    /\ \A c \in DOMAIN calls : Enrolling(c) => record[calls[c].sid].state = "open"
    /\ managed # NoSid => \/ record[managed].state = "open" \/ Shutting
                          \/ \E c \in DOMAIN calls : ClosedNow(c) /\ ~Life!Stale(c) /\ calls[c].sid = managed

(* Renames begin in the order in which the names were given, when the enrolment is *)
(* over, and have their turns in that order.                                       *)
Renaming(c) == Is(c, "rename", {"queued", "window"})
Unapplied(c) == Is(c, "rename", {"awaitStartup"})
RenamesQueued ==
  \A i, j \in DOMAIN transitions : i < j /\ Renaming(transitions[i]) /\ Renaming(transitions[j]) => transitions[i] < transitions[j]
RenamesAwait ==
  \A c \in DOMAIN calls : calls[c].kind = "rename" /\ ~Unapplied(c) =>
    /\ ~Life!Stale(c) => workStartup = 0
    /\ \A d \in DOMAIN calls : Unapplied(d) => c < d

Steady == ~spoiled /\ ~Shutting /\ session # NoSid
Pending(c) == ~Life!Stale(c) /\ Is(c, "rename", {"queued"})
RenamesCurrent ==
  Steady =>
    /\ \A c \in DOMAIN calls : Renaming(c) /\ ~Life!Stale(c) => calls[c].sid = session
    /\ \A c \in DOMAIN calls : Pending(c) /\ managed = NoSid => record[session].state = "closed"
    /\ \A c \in DOMAIN calls : Unapplied(c) => ~Life!Stale(c)

(* The name given last is Pi's.  Once it was recorded or found to be known, the record *)
(* has it when the session is managed, and no rename that waits has another.           *)
Settles(c) == Is(c, "rename", {"window", "resolved", "end"}) /\ (calls[c].at = "end" => calls[c].got # "missed")
Named(c) ==
  /\ name = calls[c].name
  /\ Settles(c) =>
       /\ managed # NoSid \/ (\E d \in DOMAIN calls : Enrolling(d)) => record[session].name = calls[c].name
       /\ \A d \in DOMAIN calls : Pending(d) => calls[d].name = calls[c].name \/ record[session].state = "closed"
NameFollows == Steady => \A c \in DOMAIN calls : Life!Last(c) /\ calls[c].name > 0 => Named(c)

LifeInv == /\ LifeTypeOK /\ CallsKnown /\ QueueKnown /\ ClosedStays /\ OneStart /\ OneShutdown /\ ErrorsSpoil
           /\ AdoptsCurrent /\ ManagedCurrent /\ ClosesCurrent /\ AdoptsAfterStart /\ StartsFirst /\ QueueCurrent
           /\ TagFollows /\ RecordOpen /\ RenamesQueued /\ RenamesAwait /\ RenamesCurrent /\ NameFollows

-----------------------------------------------------------------------------
(* What a step does with the calls and with the queue. *)
Grows == /\ Len(calls') = Len(calls) + 1 /\ DOMAIN calls' = 1 .. Len(calls) + 1 /\ DOMAIN calls = 1 .. Len(calls)
         /\ \A d \in DOMAIN calls : calls'[d] = calls[d]
Moves(c, to) == /\ DOMAIN calls' = DOMAIN calls
                /\ \A d \in DOMAIN calls : d # c => calls'[d] = calls[d]
                /\ calls'[c].kind = calls[c].kind /\ calls'[c].gen = calls[c].gen /\ calls'[c].name = calls[c].name
                /\ calls'[c].at = to
QueueGrows(c) == /\ Len(transitions) \in Nat /\ DOMAIN transitions = 1 .. Len(transitions)
                 /\ DOMAIN transitions' = 1 .. Len(transitions) + 1
                 /\ \A i \in DOMAIN transitions : transitions'[i] = transitions[i]
                 /\ transitions'[Len(transitions) + 1] = c
QueueMoves(c) == /\ Len(transitions) \in Nat \ {0} /\ DOMAIN transitions = 1 .. Len(transitions)
                 /\ DOMAIN transitions' = 1 .. Len(transitions) - 1
                 /\ \A i \in DOMAIN transitions' : transitions'[i] = transitions[i + 1]
                 /\ c = transitions[1]
Quiet == \A c \in DOMAIN calls : calls[c].at \notin {"resolved", "released"} /\ (calls[c].at = "awaitStartup" => workStartup # 0)

LEMMA CallAdded ==
  ASSUME calls \in Seq(CallSet), NEW r \in CallSet, calls' = Append(calls, r)
  PROVE  Grows /\ calls' \in Seq(CallSet) /\ calls'[Len(calls) + 1] = r /\ Len(calls) \in Nat
  BY DEF Grows

LEMMA CallMoves ==
  ASSUME calls \in Seq(CallSet), NEW c \in DOMAIN calls, NEW r \in CallSet, calls' = [calls EXCEPT ![c] = r]
  PROVE  /\ DOMAIN calls' = DOMAIN calls /\ \A d \in DOMAIN calls : d # c => calls'[d] = calls[d]
         /\ calls'[c] = r /\ calls' \in Seq(CallSet) /\ DOMAIN calls \subseteq Nat
  BY DEF CallSet

LEMMA CallGoes ==
  ASSUME calls \in Seq(CallSet), NEW c \in DOMAIN calls, NEW to \in CallStates, Life!Goes(c, to)
  PROVE  /\ Moves(c, to) /\ calls'[c].got = calls[c].got /\ calls'[c].sid = calls[c].sid
         /\ calls' \in Seq(CallSet) /\ calls[c] \in CallSet /\ DOMAIN calls \subseteq Nat
<1> DEFINE r == [calls[c] EXCEPT !.at = to]
<1>1. calls[c] \in CallSet
  OBVIOUS
<1>2. r \in CallSet /\ r.at = to /\ r.kind = calls[c].kind /\ r.gen = calls[c].gen /\ r.name = calls[c].name
      /\ r.got = calls[c].got /\ r.sid = calls[c].sid
  BY <1>1 DEF CallSet
<1>3. calls' = [calls EXCEPT ![c] = r]
  BY DEF Life!Goes
<1> HIDE DEF r
<1> QED BY <1>1, <1>2, <1>3, CallMoves DEF Moves

LEMMA CallReturns ==
  ASSUME calls \in Seq(CallSet), transitions \in Seq(Nat), NEW c \in DOMAIN calls, Life!Turn(c),
         NEW got \in Outcomes, NEW x \in RecordSet, Life!Returns(c, got, x)
  PROVE  /\ Moves(c, "resolved") /\ calls'[c].got = got /\ calls'[c].sid = calls[c].sid
         /\ calls' \in Seq(CallSet) /\ calls[c] \in CallSet /\ DOMAIN calls \subseteq Nat
         /\ QueueMoves(c) /\ transitions' \in Seq(Nat)
<1> DEFINE r == [calls[c] EXCEPT !.at = "resolved", !.got = got, !.snap = x]
<1>1. calls[c] \in CallSet
  OBVIOUS
<1>2. r \in CallSet /\ r.at = "resolved" /\ r.kind = calls[c].kind /\ r.gen = calls[c].gen /\ r.name = calls[c].name
      /\ r.got = got /\ r.sid = calls[c].sid
  BY <1>1 DEF CallSet, CallStates
<1>3. calls' = [calls EXCEPT ![c] = r]
  BY DEF Life!Returns
<1>4. QueueMoves(c) /\ transitions' \in Seq(Nat)
  BY DEF Life!Returns, QueueMoves, Life!Turn
<1> HIDE DEF r
<1> QED BY <1>1, <1>2, <1>3, <1>4, CallMoves DEF Moves

LEMMA CallResolves ==
  ASSUME calls \in Seq(CallSet), transitions \in Seq(Nat), NEW c \in DOMAIN calls, Life!Turn(c),
         NEW got \in Outcomes, Life!Resolves(c, got)
  PROVE  /\ Moves(c, "resolved") /\ calls'[c].got = got /\ calls'[c].sid = calls[c].sid
         /\ calls' \in Seq(CallSet) /\ calls[c] \in CallSet /\ DOMAIN calls \subseteq Nat
         /\ QueueMoves(c) /\ transitions' \in Seq(Nat)
<1> DEFINE x == calls[c].snap
<1>1. x \in RecordSet /\ Life!Returns(c, got, x)
  <2>1. calls[c] \in CallSet
    OBVIOUS
  <2> QED BY <2>1 DEF CallSet, Life!Resolves
<1> HIDE DEF x
<1> QED BY <1>1, CallReturns

(* A record is written, and the call has it. *)
LEMMA CallCommits ==
  ASSUME calls \in Seq(CallSet), NEW c \in DOMAIN calls, NEW x \in RecordSet, Life!Commits(c, x)
  PROVE  /\ Moves(c, "window") /\ calls'[c].got = calls[c].got /\ calls'[c].sid = calls[c].sid
         /\ calls' \in Seq(CallSet) /\ calls[c] \in CallSet /\ DOMAIN calls \subseteq Nat
         /\ record' = [record EXCEPT ![calls[c].sid] = x] /\ UNCHANGED <<transitions, spoiled>>
<1> DEFINE r == [calls[c] EXCEPT !.at = "window", !.snap = x]
<1>1. calls[c] \in CallSet
  OBVIOUS
<1>2. r \in CallSet /\ r.at = "window" /\ r.kind = calls[c].kind /\ r.gen = calls[c].gen /\ r.name = calls[c].name
      /\ r.got = calls[c].got /\ r.sid = calls[c].sid
  BY <1>1 DEF CallSet, CallStates
<1>3. calls' = [calls EXCEPT ![c] = r] /\ record' = [record EXCEPT ![calls[c].sid] = x] /\ UNCHANGED <<transitions, spoiled>>
  BY DEF Life!Commits
<1> HIDE DEF r
<1> QED BY <1>1, <1>2, <1>3, CallMoves DEF Moves

LEMMA CallEnds ==
  ASSUME calls \in Seq(CallSet), NEW c \in DOMAIN calls, NEW got \in Outcomes,
         Life!Drops(c, got)
  PROVE  /\ Moves(c, "end") /\ calls'[c].got = got /\ calls'[c].sid = calls[c].sid /\ calls' \in Seq(CallSet)
<1> DEFINE r == [calls[c] EXCEPT !.at = "end", !.got = got]
<1>1. calls[c] \in CallSet
  OBVIOUS
<1>2. r \in CallSet /\ r.at = "end" /\ r.kind = calls[c].kind /\ r.gen = calls[c].gen /\ r.name = calls[c].name
      /\ r.got = got /\ r.sid = calls[c].sid
  BY <1>1 DEF CallSet, CallStates
<1>3. calls' = [calls EXCEPT ![c] = r]
  BY DEF Life!Drops
<1> HIDE DEF r
<1> QED BY <1>1, <1>2, <1>3, CallMoves DEF Moves

LEMMA CallSent ==
  ASSUME calls \in Seq(CallSet), NEW c \in DOMAIN calls, NEW s \in Sids, NEW to \in CallStates,
         calls' = [calls EXCEPT ![c].at = to, ![c].sid = s]
  PROVE  /\ Moves(c, to) /\ calls'[c].got = calls[c].got /\ calls'[c].sid = s
         /\ calls' \in Seq(CallSet) /\ calls[c] \in CallSet /\ DOMAIN calls \subseteq Nat
<1> DEFINE r == [calls[c] EXCEPT !.at = to, !.sid = s]
<1>1. calls[c] \in CallSet
  OBVIOUS
<1>2. r \in CallSet /\ r.at = to /\ r.kind = calls[c].kind /\ r.gen = calls[c].gen /\ r.name = calls[c].name
      /\ r.got = calls[c].got /\ r.sid = s
  BY <1>1 DEF CallSet
<1>3. calls' = [calls EXCEPT ![c] = r]
  OBVIOUS
<1> HIDE DEF r
<1> QED BY <1>1, <1>2, <1>3, CallMoves DEF Moves

LEMMA CallQueued ==
  ASSUME calls \in Seq(CallSet), NEW c \in DOMAIN calls, NEW s \in Sids, NEW x \in RecordSet,
         Life!Sends(c, s, x)
  PROVE  /\ Moves(c, "queued") /\ calls'[c].got = calls[c].got /\ calls'[c].sid = s
         /\ calls' \in Seq(CallSet) /\ calls[c] \in CallSet /\ DOMAIN calls \subseteq Nat
<1> DEFINE r == [calls[c] EXCEPT !.at = "queued", !.sid = s, !.snap = x]
<1>1. calls[c] \in CallSet
  OBVIOUS
<1>2. r \in CallSet /\ r.at = "queued" /\ r.kind = calls[c].kind /\ r.gen = calls[c].gen /\ r.name = calls[c].name
      /\ r.got = calls[c].got /\ r.sid = s
  BY <1>1 DEF CallSet, CallStates
<1>3. calls' = [calls EXCEPT ![c] = r]
  BY DEF Life!Sends
<1> HIDE DEF r
<1> QED BY <1>1, <1>2, <1>3, CallMoves DEF Moves

LEMMA LastStays ==
  ASSUME NEW c \in DOMAIN calls, NEW to, Moves(c, to), UNCHANGED generation
  PROVE  \A d \in DOMAIN calls : Life!Last(d)' <=> Life!Last(d)
  BY DEF Moves, Life!Last, Life!Stale, Life!Ids

LEMMA Queues ==
  ASSUME transitions \in Seq(Nat), NEW c \in Nat, Life!queue(c)
  PROVE  QueueGrows(c) /\ transitions' \in Seq(Nat)
  BY DEF Life!queue, QueueGrows

LEMMA LifeScalars ==
  ASSUME LifeInv
  PROVE  /\ NoSid \notin Sids /\ generation \in Nat /\ name \in Nat /\ workStartup \in Nat
         /\ DOMAIN calls \subseteq Nat \ {0} /\ managed \in Sids \cup {NoSid} /\ session \in Sids \cup {NoSid}
  BY BindingAssumption DEF LifeInv, LifeTypeOK

LEMMA LifeFields ==
  ASSUME LifeInv, NEW c \in DOMAIN calls
  PROVE  /\ calls[c] \in CallSet /\ calls[c].sid \in Sids \cup {NoSid} /\ calls[c].gen \in Nat /\ calls[c].name \in Nat
         /\ calls[c].was \in Nat /\ calls[c].snap \in RecordSet
<1>1. calls[c] \in CallSet
  BY DEF LifeInv, LifeTypeOK
<1> QED BY <1>1 DEF CallSet

LEMMA LifeQueue ==
  ASSUME LifeInv, NEW i \in DOMAIN transitions
  PROVE  /\ transitions[i] \in DOMAIN calls /\ i \in Nat \ {0}
         /\ calls[transitions[i]].at \in {"queued", "window", "release"}
  BY DEF LifeInv, LifeTypeOK, QueueKnown, Waits

(* An operation that is over leaves the queue in order. *)
LEMMA QueueTaken ==
  ASSUME LifeInv, NEW c \in DOMAIN calls, NEW to \in {"resolved", "released"}, Moves(c, to), QueueMoves(c)
  PROVE  QueueKnown'
<1>1. \A i \in DOMAIN transitions' : /\ i + 1 \in DOMAIN transitions /\ transitions'[i] = transitions[i + 1] /\ i \in Nat \ {0}
                                     /\ transitions[i + 1] \in DOMAIN calls /\ transitions[i + 1] # c
  BY LifeQueue DEF LifeInv, QueueKnown, QueueMoves
<1>2. \A i \in DOMAIN transitions' : transitions'[i] \in DOMAIN calls' /\ Waits(transitions[i])'
  BY <1>1, LifeQueue DEF Moves, Waits
<1>3. \A i, j \in DOMAIN transitions' : transitions'[i] = transitions'[j] => i = j
  <2> TAKE i, j \in DOMAIN transitions'
  <2>1. transitions[i + 1] = transitions[j + 1] => i + 1 = j + 1
    BY <1>1 DEF LifeInv, QueueKnown
  <2> QED BY <1>1, <2>1
<1>4. ASSUME NEW d \in DOMAIN calls', Waits(d)' PROVE \E i \in DOMAIN transitions' : transitions'[i] = d
  <2>1. d \in DOMAIN calls /\ Waits(d) /\ d # c
    BY <1>4 DEF Moves, Waits
  <2>2. PICK i \in DOMAIN transitions : transitions[i] = d
    BY <2>1 DEF LifeInv, QueueKnown
  <2>3. i \in Nat /\ i > 1 /\ i - 1 \in DOMAIN transitions' /\ (i - 1) + 1 = i
    BY <2>1, <2>2 DEF QueueMoves
  <2> QED BY <1>1, <2>2, <2>3
<1>5. \A d \in DOMAIN calls' : calls'[d].at # "window"
  BY DEF LifeInv, QueueKnown, QueueMoves, Moves
<1> QED BY <1>2, <1>3, <1>4, <1>5 DEF QueueKnown

LEMMA QueueCurrentTaken ==
  ASSUME LifeInv, NEW c \in DOMAIN calls, NEW to \in {"resolved", "released"}, Moves(c, to), QueueMoves(c),
         calls[c].at # "end",
         UNCHANGED <<session, generation, workStartup, spoiled>>
  PROVE  QueueCurrent'
<1>1. \A i \in DOMAIN transitions' : /\ i + 1 \in DOMAIN transitions /\ transitions'[i] = transitions[i + 1] /\ i \in Nat \ {0}
                                     /\ transitions[i + 1] \in DOMAIN calls /\ transitions[i + 1] # c
  BY LifeQueue DEF LifeInv, QueueKnown, QueueMoves
<1>2. Shutting' <=> Shutting
  BY DEF Shutting, Life!UnderWay, Life!Ids, Life!Busy, Moves
<1>3. SUFFICES ASSUME ~spoiled, ~Shutting, session # NoSid, NEW j \in DOMAIN transitions', Life!Stale(transitions[j])'
               PROVE  \E i \in DOMAIN transitions' : i > j /\ transitions'[i] = workStartup
  BY <1>2 DEF QueueCurrent
<1>4. Life!Stale(transitions[j + 1])
  BY <1>1, <1>3 DEF Life!Stale, Moves
<1>5. PICK i \in DOMAIN transitions : i > j + 1 /\ transitions[i] = workStartup
  BY <1>1, <1>3, <1>4 DEF LifeInv, QueueCurrent
<1>6. i \in Nat /\ i - 1 \in DOMAIN transitions' /\ (i - 1) + 1 = i /\ i - 1 > j
  BY <1>1, <1>5 DEF QueueMoves
<1> QED BY <1>1, <1>5, <1>6

LEMMA LifeSids ==
  ASSUME LifeInv
  PROVE  /\ finished \subseteq Sids /\ managed \in Sids \cup {NoSid} /\ session \in Sids \cup {NoSid}
         /\ \A c \in DOMAIN calls : calls[c].kind \in {"start", "adopt", "close", "refresh"} \/ Renaming(c) => calls[c].sid \in Sids
  BY DEF LifeInv, LifeTypeOK, CallsKnown, Renaming, Is

-----------------------------------------------------------------------------
(* What follows an operation. *)

LEMMA RefreshedKeeps ==
  ASSUME LifeInv, NEW c \in DOMAIN calls, Life!Refreshed(c)
  PROVE  LifeInv'
<1>1. /\ Moves(c, "end") /\ calls[c].kind = "refresh" /\ calls[c].at = "resolved"
      /\ calls'[c].sid = calls[c].sid /\ calls'[c].got = calls[c].got
      /\ UNCHANGED <<files, record, lifeTag, session, name, generation, managed,
                    transitions, finalization, workStartup, finished, spoiled>>
  BY CallGoes DEF LifeInv, LifeTypeOK, CallStates, Life!pi, Life!workSession, Life!Then, Life!Ends, Life!Refreshed
<1>Y. calls' \in Seq(CallSet) /\ cached' \in RecordSet
  <2>1. calls' \in Seq(CallSet)
    BY CallGoes DEF LifeInv, LifeTypeOK, CallStates, Life!pi, Life!workSession, Life!Then, Life!Ends, Life!Refreshed
  <2>2. cached' \in RecordSet
    BY LifeFields DEF LifeInv, LifeTypeOK, RecordSet, Life!NoRecord, Life!workSession, Life!Manages, Life!Refreshed
  <2> QED BY <2>1, <2>2
<1>2. LifeTypeOK'
  BY <1>1, <1>Y DEF LifeInv, LifeTypeOK, Moves
<1>3. CallsKnown' /\ QueueKnown'
  BY <1>1 DEF LifeInv, CallsKnown, CallStates, Moves, QueueKnown, Waits
<1>4. ClosedStays' /\ ErrorsSpoil' /\ OneStart' /\ OneShutdown'
  BY <1>1 DEF LifeInv, ClosedStays, ClosedNow, Moves, ErrorsSpoil, OneStart, Shutting, Life!UnderWay, Life!Ids,
      Life!Busy, Life!Stale, OneShutdown, Is
<1>5. AdoptsCurrent' /\ ManagedCurrent' /\ ClosesCurrent' /\ AdoptsAfterStart'
  BY <1>1 DEF LifeInv, AdoptsCurrent, Life!Busy, Shutting, Life!UnderWay, Life!Ids, Moves, ManagedCurrent,
      Life!Stale, ClosesCurrent, AdoptsAfterStart, Is
<1>6. StartsFirst' /\ QueueCurrent'
  BY <1>1, LifeQueue DEF LifeInv, StartsFirst, Is, Moves, QueueCurrent, Shutting, Life!UnderWay, Life!Ids,
      Life!Busy, Life!Stale
<1>7. TagFollows' /\ RecordOpen'
  BY <1>1 DEF LifeInv, TagFollows, Enrolls, Odd, Is, Moves, RecordOpen, Enrolling, ClosedNow, Life!Stale,
      Shutting, Life!UnderWay, Life!Ids, Life!Busy
<1>8. RenamesQueued' /\ RenamesAwait'
  BY <1>1, LifeQueue DEF LifeInv, Moves, RenamesQueued, Renaming, Is, RenamesAwait, Life!Stale, Unapplied
<1>9. RenamesCurrent'
  BY <1>1 DEF LifeInv, RenamesCurrent, Steady, Renaming, Unapplied, Pending, Is, Shutting, Life!UnderWay,
      Life!Ids, Life!Busy, Life!Stale, Moves
<1>10. NameFollows'
  BY <1>1, LastStays DEF LifeInv, Steady, Renaming, Unapplied, Pending, Is, Shutting, Life!UnderWay,
      Life!Ids, Life!Busy, Life!Stale, Moves, NameFollows, Named, Settles, Enrolling, Enrolls
<1> QED BY <1>2, <1>3, <1>4, <1>5, <1>6, <1>7, <1>8, <1>9, <1>10 DEF LifeInv

LEMMA AdoptedKeeps ==
  ASSUME LifeInv, NEW c \in DOMAIN calls, Life!Adopted(c)
  PROVE  LifeInv'
<1>1. /\ Moves(c, "end") /\ calls[c].kind = "adopt" /\ calls[c].at = "resolved"
      /\ managed' = IF calls[c].got = "failed" THEN managed ELSE calls[c].sid
      /\ calls'[c].sid = calls[c].sid /\ calls'[c].got = calls[c].got
      /\ UNCHANGED <<files, record, lifeTag, session, name, generation, transitions,
                    finalization, workStartup, finished, spoiled>>
  BY CallGoes DEF LifeInv, LifeTypeOK, CallStates, Life!pi, Life!workSession, Life!Then, Life!Ends, Life!Manages, Life!Adopted
<1>Y. calls' \in Seq(CallSet) /\ cached' \in RecordSet
  <2>1. calls' \in Seq(CallSet)
    BY CallGoes DEF LifeInv, LifeTypeOK, CallStates, Life!pi, Life!workSession, Life!Then, Life!Ends, Life!Manages, Life!Adopted
  <2>2. cached' \in RecordSet
    BY LifeFields DEF LifeInv, LifeTypeOK, RecordSet, Life!NoRecord, Life!workSession, Life!Manages, Life!Adopted
  <2> QED BY <2>1, <2>2
<1>M. spoiled \/ /\ calls[c].got = "managed" /\ managed' = session /\ session \in Sids /\ calls[c].sid = session /\ workStartup = 0
                 /\ lifeTag = session /\ Enrolls(c) /\ Enrolling(c) /\ record[session].state = "open"
  BY <1>1, LifeScalars, LifeFields DEF LifeInv, Life!Busy, Is, Moves, ErrorsSpoil, AdoptsCurrent,
      AdoptsAfterStart, TagFollows, Enrolls, Enrolling, RecordOpen
<1>2. LifeTypeOK'
  BY <1>1, <1>M, <1>Y, LifeFields DEF LifeInv, LifeTypeOK, Moves
<1>3. CallsKnown' /\ QueueKnown'
  BY <1>1, <1>M DEF LifeInv, CallsKnown, CallStates, Moves, QueueKnown, Waits
<1>4. ClosedStays' /\ ErrorsSpoil' /\ OneStart' /\ OneShutdown'
  BY <1>1, <1>M DEF LifeInv, ClosedStays, ClosedNow, Moves, ErrorsSpoil, OneStart, Shutting, Life!UnderWay,
      Life!Ids, Life!Busy, Life!Stale, OneShutdown, Is
<1>5. AdoptsCurrent' /\ ManagedCurrent' /\ ClosesCurrent' /\ AdoptsAfterStart'
  BY <1>1, <1>M, LifeScalars DEF LifeInv, AdoptsCurrent, Life!Busy, Shutting, Life!UnderWay, Life!Ids, Moves,
      ManagedCurrent, Life!Stale, ClosesCurrent, AdoptsAfterStart, Is
<1>6. StartsFirst' /\ QueueCurrent'
  BY <1>1, <1>M, LifeQueue DEF LifeInv, StartsFirst, Is, Moves, QueueCurrent, Shutting, Life!UnderWay, Life!Ids,
      Life!Busy, Life!Stale
<1>7. TagFollows' /\ RecordOpen'
  BY <1>1, <1>M, LifeScalars DEF LifeInv, TagFollows, Enrolls, Odd, Is, Moves, RecordOpen, Enrolling, ClosedNow,
      Life!Stale, Shutting, Life!UnderWay, Life!Ids, Life!Busy
<1>8. RenamesQueued' /\ RenamesAwait'
  BY <1>1, <1>M, LifeQueue DEF LifeInv, Moves, RenamesQueued, Renaming, Is, RenamesAwait, Life!Stale,
      Unapplied
<1>9. RenamesCurrent'
  BY <1>1, <1>M, LifeScalars DEF LifeInv, RenamesCurrent, Steady, Renaming, Unapplied, Pending, Is, Shutting,
      Life!UnderWay, Life!Ids, Life!Busy, Life!Stale, Moves
<1>10. NameFollows'
  BY <1>1, <1>M, LifeScalars, LastStays DEF LifeInv, Steady, Renaming, Unapplied, Pending, Is, Shutting,
      Life!UnderWay, Life!Ids, Life!Busy, Life!Stale, Moves, NameFollows, Named, Settles, Enrolling, Enrolls
<1> QED BY <1>2, <1>3, <1>4, <1>5, <1>6, <1>7, <1>8, <1>9, <1>10 DEF LifeInv

LEMMA ReleasedKeeps ==
  ASSUME LifeInv, NEW c \in DOMAIN calls, Life!ReleasedOvertaken(c)
  PROVE  LifeInv'
<1>1. /\ Moves(c, "end") /\ calls[c].kind = "start" /\ calls[c].at = "released"
      /\ workStartup' = IF workStartup = c THEN 0 ELSE workStartup
      /\ calls'[c].sid = calls[c].sid /\ calls'[c].got = calls[c].got
      /\ UNCHANGED <<files, record, lifeTag, session, name, generation, managed,
                    transitions, finalization, finished, spoiled>>
  BY CallGoes DEF LifeInv, LifeTypeOK, CallStates, Life!pi, Life!workSession, Life!Then, Life!Ends, Life!ReleasedOvertaken,
      Life!Started
<1>Y. calls' \in Seq(CallSet) /\ cached' \in RecordSet
  BY CallGoes DEF LifeInv, LifeTypeOK, CallStates, Life!pi, Life!workSession, Life!Then, Life!Ends, Life!ReleasedOvertaken,
      Life!Started
<1>M. Shutting /\ workStartup = c
  BY <1>1, LifeScalars, LifeFields DEF LifeInv, Life!Busy, Life!Ids, Life!UnderWay, Shutting, OneStart
<1>2. LifeTypeOK'
  BY <1>1, <1>M, <1>Y DEF LifeInv, LifeTypeOK, Moves
<1>3. CallsKnown' /\ QueueKnown'
  BY <1>1, <1>M DEF LifeInv, CallsKnown, CallStates, Moves, QueueKnown, Waits
<1>4. ClosedStays' /\ ErrorsSpoil' /\ OneStart' /\ OneShutdown'
  BY <1>1, <1>M DEF LifeInv, ClosedStays, ClosedNow, Moves, ErrorsSpoil, OneStart, Shutting, Life!UnderWay,
      Life!Ids, Life!Busy, Life!Stale, OneShutdown, Is
<1>5. AdoptsCurrent' /\ ManagedCurrent' /\ ClosesCurrent' /\ AdoptsAfterStart'
  BY <1>1, <1>M DEF LifeInv, AdoptsCurrent, Life!Busy, Shutting, Life!UnderWay, Life!Ids, Moves, ManagedCurrent,
      Life!Stale, ClosesCurrent, AdoptsAfterStart, Is
<1>6. StartsFirst' /\ QueueCurrent'
  BY <1>1, <1>M, LifeQueue DEF LifeInv, StartsFirst, Is, Moves, QueueCurrent, Shutting, Life!UnderWay, Life!Ids,
      Life!Busy, Life!Stale
<1>7. TagFollows' /\ RecordOpen'
  BY <1>1, <1>M DEF LifeInv, TagFollows, Enrolls, Odd, Is, Moves, RecordOpen, Enrolling, ClosedNow, Life!Stale,
      Shutting, Life!UnderWay, Life!Ids, Life!Busy
<1>8. RenamesQueued' /\ RenamesAwait'
  BY <1>1, <1>M, LifeQueue DEF LifeInv, Moves, RenamesQueued, Renaming, Is, RenamesAwait, Life!Stale,
      Unapplied
<1>9. RenamesCurrent'
  BY <1>1, <1>M DEF LifeInv, RenamesCurrent, Steady, Renaming, Unapplied, Pending, Is, Shutting, Life!UnderWay,
      Life!Ids, Life!Busy, Life!Stale, Moves
<1>10. NameFollows'
  BY <1>1, <1>M, LastStays DEF LifeInv, Steady, Renaming, Unapplied, Pending, Is, Shutting, Life!UnderWay,
      Life!Ids, Life!Busy, Life!Stale, Moves, NameFollows, Named, Settles, Enrolling, Enrolls
<1> QED BY <1>2, <1>3, <1>4, <1>5, <1>6, <1>7, <1>8, <1>9, <1>10 DEF LifeInv

LEMMA RenamedKeeps ==
  ASSUME LifeInv, NEW c \in DOMAIN calls, Life!Renamed(c)
  PROVE  LifeInv'
<1>0. calls[c].was \in Nat /\ name \in Nat
  BY LifeFields, LifeScalars
<1>1. /\ Moves(c, "end") /\ calls[c].kind = "rename" /\ calls[c].at = "resolved"
      /\ name' \in Nat /\ (name' # name => calls[c].got = "failed")
      /\ calls'[c].sid = calls[c].sid /\ calls'[c].got = calls[c].got
      /\ UNCHANGED <<files, record, lifeTag, session, generation, managed, transitions, finalization,
                    workStartup, finished, spoiled>>
  BY <1>0, CallGoes DEF LifeInv, LifeTypeOK, CallStates, Life!pi, Life!workSession, Life!Then, Life!Ends, Life!Renamed
<1>Y. calls' \in Seq(CallSet) /\ cached' \in RecordSet
  <2>1. calls' \in Seq(CallSet)
    BY CallGoes DEF LifeInv, LifeTypeOK, CallStates, Life!pi, Life!workSession, Life!Then, Life!Ends, Life!Renamed
  <2>2. cached' \in RecordSet
    BY LifeFields DEF LifeInv, LifeTypeOK, RecordSet, Life!NoRecord, Life!workSession, Life!Manages, Life!Renamed
  <2> QED BY <2>1, <2>2
<1>M. spoiled \/ name' = name
  BY <1>1, LifeScalars, LifeFields DEF LifeInv, ErrorsSpoil
<1>2. LifeTypeOK'
  BY <1>1, <1>M, <1>Y DEF LifeInv, LifeTypeOK, Moves
<1>3. CallsKnown' /\ QueueKnown'
  BY <1>1, <1>M DEF LifeInv, CallsKnown, CallStates, Moves, QueueKnown, Waits
<1>4. ClosedStays' /\ ErrorsSpoil' /\ OneStart' /\ OneShutdown'
  BY <1>1, <1>M DEF LifeInv, ClosedStays, ClosedNow, Moves, ErrorsSpoil, OneStart, Shutting, Life!UnderWay,
      Life!Ids, Life!Busy, Life!Stale, OneShutdown, Is
<1>5. AdoptsCurrent' /\ ManagedCurrent' /\ ClosesCurrent' /\ AdoptsAfterStart'
  BY <1>1, <1>M DEF LifeInv, AdoptsCurrent, Life!Busy, Shutting, Life!UnderWay, Life!Ids, Moves, ManagedCurrent,
      Life!Stale, ClosesCurrent, AdoptsAfterStart, Is
<1>6. StartsFirst' /\ QueueCurrent'
  BY <1>1, <1>M, LifeQueue DEF LifeInv, StartsFirst, Is, Moves, QueueCurrent, Shutting, Life!UnderWay, Life!Ids,
      Life!Busy, Life!Stale
<1>7. TagFollows' /\ RecordOpen'
  BY <1>1, <1>M DEF LifeInv, TagFollows, Enrolls, Odd, Is, Moves, RecordOpen, Enrolling, ClosedNow, Life!Stale,
      Shutting, Life!UnderWay, Life!Ids, Life!Busy
<1>8. RenamesQueued' /\ RenamesAwait'
  BY <1>1, <1>M, LifeQueue DEF LifeInv, Moves, RenamesQueued, Renaming, Is, RenamesAwait, Life!Stale,
      Unapplied
<1>9. RenamesCurrent'
  BY <1>1, <1>M DEF LifeInv, RenamesCurrent, Steady, Renaming, Unapplied, Pending, Is, Shutting, Life!UnderWay,
      Life!Ids, Life!Busy, Life!Stale, Moves
<1>10. NameFollows'
  BY <1>1, <1>M, LastStays DEF LifeInv, Steady, Renaming, Unapplied, Pending, Is, Shutting, Life!UnderWay,
      Life!Ids, Life!Busy, Life!Stale, Moves, NameFollows, Named, Settles, Enrolling, Enrolls
<1> QED BY <1>2, <1>3, <1>4, <1>5, <1>6, <1>7, <1>8, <1>9, <1>10 DEF LifeInv

LEMMA ShutdownEndsKeeps ==
  ASSUME LifeInv, NEW c \in DOMAIN calls, Life!ShutdownEnds(c)
  PROVE  LifeInv'
<1>1. /\ Moves(c, "end") /\ calls[c].kind = "shutdown" /\ calls[c].at = "released"
      /\ managed' = NoSid /\ session' = NoSid /\ name' = 0
      /\ calls'[c].sid = calls[c].sid /\ calls'[c].got = calls[c].got
      /\ UNCHANGED <<files, record, lifeTag, generation, transitions, finalization, workStartup,
                    finished, spoiled>>
  BY CallGoes DEF LifeInv, LifeTypeOK, CallStates, Life!pi, Life!workSession, Life!Then, Life!Ends, Life!ShutdownEnds
<1>Y. calls' \in Seq(CallSet) /\ cached' \in RecordSet
  <2>1. calls' \in Seq(CallSet)
    BY CallGoes DEF LifeInv, LifeTypeOK, CallStates, Life!pi, Life!workSession, Life!Then, Life!Ends, Life!ShutdownEnds
  <2>2. cached' \in RecordSet
    BY LifeFields DEF LifeInv, LifeTypeOK, RecordSet, Life!NoRecord, Life!workSession, Life!Manages, Life!ShutdownEnds
  <2> QED BY <2>1, <2>2
<1>M. workStartup = 0 /\ \A d \in DOMAIN calls : Life!Busy(d) => (calls[d].kind = "shutdown" => d = c) /\ calls[d].kind # "start"
  BY <1>1, LifeScalars, LifeFields DEF LifeInv, Life!Busy, Life!Ids, Life!UnderWay, Shutting, OneStart,
      OneShutdown, Is
<1>2. LifeTypeOK'
  BY <1>1, <1>M, <1>Y DEF LifeInv, LifeTypeOK, Moves
<1>3. CallsKnown' /\ QueueKnown'
  BY <1>1, <1>M DEF LifeInv, CallsKnown, CallStates, Moves, QueueKnown, Waits
<1>4. ClosedStays' /\ ErrorsSpoil' /\ OneStart' /\ OneShutdown'
  BY <1>1, <1>M DEF LifeInv, ClosedStays, ClosedNow, Moves, ErrorsSpoil, OneStart, Shutting, Life!UnderWay,
      Life!Ids, Life!Busy, Life!Stale, OneShutdown, Is
<1>5. AdoptsCurrent' /\ ManagedCurrent' /\ ClosesCurrent' /\ AdoptsAfterStart'
  BY <1>1, <1>M DEF LifeInv, AdoptsCurrent, Life!Busy, Shutting, Life!UnderWay, Life!Ids, Moves, ManagedCurrent,
      Life!Stale, ClosesCurrent, AdoptsAfterStart, Is
<1>6. StartsFirst' /\ QueueCurrent'
  BY <1>1, <1>M, LifeQueue DEF LifeInv, StartsFirst, Is, Moves, QueueCurrent, Shutting, Life!UnderWay, Life!Ids,
      Life!Busy, Life!Stale
<1>7. TagFollows' /\ RecordOpen'
  BY <1>1, <1>M DEF LifeInv, TagFollows, Enrolls, Odd, Is, Moves, RecordOpen, Enrolling, ClosedNow, Life!Stale,
      Shutting, Life!UnderWay, Life!Ids, Life!Busy
<1>8. RenamesQueued' /\ RenamesAwait'
  BY <1>1, <1>M, LifeQueue DEF LifeInv, Moves, RenamesQueued, Renaming, Is, RenamesAwait, Life!Stale,
      Unapplied
<1>9. RenamesCurrent'
  BY <1>1, <1>M DEF LifeInv, RenamesCurrent, Steady, Renaming, Unapplied, Pending, Is, Shutting, Life!UnderWay,
      Life!Ids, Life!Busy, Life!Stale, Moves
<1>10. NameFollows'
  BY <1>1, <1>M, LastStays DEF LifeInv, Steady, Renaming, Unapplied, Pending, Is, Shutting, Life!UnderWay,
      Life!Ids, Life!Busy, Life!Stale, Moves, NameFollows, Named, Settles, Enrolling, Enrolls
<1> QED BY <1>2, <1>3, <1>4, <1>5, <1>6, <1>7, <1>8, <1>9, <1>10 DEF LifeInv

LEMMA EnrolledKeeps ==
  ASSUME LifeInv, NEW c \in DOMAIN calls, Life!Enrolled(c), ~(Life!Stale(c) /\ Life!Bound(c))
  PROVE  LifeInv'
<1>1. /\ Moves(c, "end") /\ calls[c].kind = "start" /\ calls[c].at = "resolved" /\ UNCHANGED Life!Stale(c)
      /\ managed' = (IF calls[c].got \in {"managed", "unbound"} THEN calls[c].sid ELSE managed)
      /\ workStartup' = IF workStartup = c THEN 0 ELSE workStartup
      /\ calls'[c].sid = calls[c].sid /\ calls'[c].got = calls[c].got
      /\ UNCHANGED <<files, record, lifeTag, session, name, generation, transitions,
                    finalization, finished, spoiled>>
  BY CallGoes DEF LifeInv, LifeTypeOK, CallStates, Life!pi, Life!workSession, Life!Then, Life!Ends, Life!Bound, Life!Manages, Life!Enrolled, Life!Started,
      Life!Stale, Moves
<1>Y. calls' \in Seq(CallSet) /\ cached' \in RecordSet
  <2>1. calls' \in Seq(CallSet)
    BY CallGoes DEF LifeInv, LifeTypeOK, CallStates, Life!pi, Life!workSession, Life!Then, Life!Ends, Life!Bound, Life!Manages, Life!Enrolled, Life!Started,
      Life!Stale, Moves
  <2>2. cached' \in RecordSet
    BY LifeFields DEF LifeInv, LifeTypeOK, RecordSet, Life!NoRecord, Life!workSession, Life!Manages, Life!Enrolled
  <2> QED BY <2>1, <2>2
<1>M. /\ workStartup = c /\ calls[c].sid = session /\ session \in Sids
      /\ spoiled \/ /\ calls[c].got \in {"managed", "unmanaged"} /\ (calls[c].got = "managed" => ~Life!Stale(c) /\ Enrolls(c) /\ Enrolling(c))
                    /\ managed = NoSid
  BY <1>1, LifeScalars, LifeFields DEF LifeInv, Life!Busy, Life!Ids, Life!UnderWay, Shutting, Is,
      Moves, ErrorsSpoil, OneStart, ManagedCurrent, Enrolls, Enrolling, Life!Bound
<1>2. LifeTypeOK'
  BY <1>1, <1>M, <1>Y, LifeFields DEF LifeInv, LifeTypeOK, Moves
<1>3. CallsKnown' /\ QueueKnown'
  BY <1>1, <1>M DEF LifeInv, CallsKnown, CallStates, Moves, QueueKnown, Waits
<1>4. ClosedStays' /\ ErrorsSpoil' /\ OneStart' /\ OneShutdown'
  BY <1>1, <1>M DEF LifeInv, ClosedStays, ClosedNow, Moves, ErrorsSpoil, OneStart, Shutting, Life!UnderWay,
      Life!Ids, Life!Busy, Life!Stale, OneShutdown, Is
<1>5. AdoptsCurrent' /\ ManagedCurrent' /\ ClosesCurrent' /\ AdoptsAfterStart'
  BY <1>1, <1>M DEF LifeInv, AdoptsCurrent, Life!Busy, Shutting, Life!UnderWay, Life!Ids, Moves, ManagedCurrent,
      Life!Stale, ClosesCurrent, AdoptsAfterStart, Is
<1>6. StartsFirst' /\ QueueCurrent'
  BY <1>1, <1>M, LifeQueue DEF LifeInv, StartsFirst, Is, Moves, QueueCurrent, Shutting, Life!UnderWay, Life!Ids,
      Life!Busy, Life!Stale
<1>7. TagFollows' /\ RecordOpen'
  BY <1>1, <1>M DEF LifeInv, TagFollows, Enrolls, Odd, Is, Moves, RecordOpen, Enrolling, ClosedNow, Life!Stale,
      Shutting, Life!UnderWay, Life!Ids, Life!Busy
<1>8. RenamesQueued' /\ RenamesAwait'
  BY <1>1, <1>M, LifeQueue DEF LifeInv, Moves, RenamesQueued, Renaming, Is, RenamesAwait, Life!Stale,
      Unapplied
<1>9. RenamesCurrent'
  BY <1>1, <1>M DEF LifeInv, RenamesCurrent, Steady, Renaming, Unapplied, Pending, Is, Shutting, Life!UnderWay,
      Life!Ids, Life!Busy, Life!Stale, Moves
<1>10. NameFollows'
  BY <1>1, <1>M, LastStays DEF LifeInv, Steady, Renaming, Unapplied, Pending, Is, Shutting, Life!UnderWay,
      Life!Ids, Life!Busy, Life!Stale, Moves, NameFollows, Named, Settles, Enrolling, Enrolls
<1> QED BY <1>2, <1>3, <1>4, <1>5, <1>6, <1>7, <1>8, <1>9, <1>10 DEF LifeInv

LEMMA OvertakenKeeps ==
  ASSUME LifeInv, NEW c \in DOMAIN calls, Life!Enrolled(c), Life!Stale(c), Life!Bound(c)
  PROVE  LifeInv'
<1>1. /\ Moves(c, "release") /\ calls[c].kind = "start" /\ calls[c].at = "resolved"
      /\ QueueGrows(c)
      /\ calls'[c].sid = calls[c].sid /\ calls'[c].got = calls[c].got
      /\ UNCHANGED <<files, record, lifeTag, session, name, generation, managed,
                    finalization, workStartup, finished, spoiled>>
  BY CallGoes, Queues DEF LifeInv, LifeTypeOK, CallStates, Life!pi, Life!workSession, Life!Then, Life!Ends, Life!Bound, Life!Manages, Life!Enrolled,
      Life!Goes
<1>Y. calls' \in Seq(CallSet) /\ cached' \in RecordSet /\ transitions' \in Seq(Nat)
  BY CallGoes, Queues DEF LifeInv, LifeTypeOK, CallStates, Life!pi, Life!workSession, Life!Then, Life!Ends, Life!Bound, Life!Manages, Life!Enrolled,
      Life!Goes
<1>M. workStartup = c /\ calls[c].sid = session /\ session \in Sids /\ Shutting /\ (spoiled \/ Enrolls(c))
  BY <1>1, LifeScalars, LifeFields DEF LifeInv, Life!Busy, Life!Ids, Life!UnderWay, Shutting, Is,
      Moves, ErrorsSpoil, OneStart, Enrolls, Life!Bound
<1>K. \A i \in DOMAIN transitions : /\ transitions'[i] = transitions[i] /\ calls'[transitions[i]] = calls[transitions[i]]
                                    /\ transitions[i] # c
  BY <1>1, LifeQueue DEF Moves, QueueGrows
<1>2. LifeTypeOK'
  BY <1>1, <1>M, <1>Y DEF LifeInv, LifeTypeOK, Moves
<1>3. CallsKnown'
  BY <1>1, <1>M DEF LifeInv, CallsKnown, CallStates, Moves
<1>4. QueueKnown'
  BY <1>1, <1>M DEF LifeInv, QueueKnown, Waits, Moves, QueueGrows
<1>5. ClosedStays' /\ ErrorsSpoil' /\ OneStart' /\ OneShutdown'
  BY <1>1, <1>M DEF LifeInv, ClosedStays, ClosedNow, Moves, ErrorsSpoil, OneStart, Shutting, Life!UnderWay,
      Life!Ids, Life!Busy, Life!Stale, OneShutdown, Is
<1>6. AdoptsCurrent' /\ ManagedCurrent' /\ ClosesCurrent' /\ AdoptsAfterStart'
  BY <1>1, <1>M DEF LifeInv, AdoptsCurrent, Life!Busy, Shutting, Life!UnderWay, Life!Ids, Moves, ManagedCurrent,
      Life!Stale, ClosesCurrent, AdoptsAfterStart, Is
<1>7. StartsFirst' /\ QueueCurrent'
  BY <1>1, <1>M, <1>K, LifeQueue DEF LifeInv, StartsFirst, Is, Moves, QueueGrows, QueueCurrent, Shutting,
      Life!UnderWay, Life!Ids, Life!Busy, Life!Stale
<1>8. TagFollows' /\ RecordOpen'
  BY <1>1, <1>M DEF LifeInv, TagFollows, Enrolls, Odd, Is, Moves, RecordOpen, Enrolling, ClosedNow, Life!Stale,
      Shutting, Life!UnderWay, Life!Ids, Life!Busy
<1>9. RenamesQueued' /\ RenamesAwait'
  BY <1>1, <1>M, <1>K, LifeQueue DEF LifeInv, Moves, RenamesQueued, Renaming, Is, QueueGrows,
      RenamesAwait, Life!Stale, Unapplied
<1>10. RenamesCurrent'
  BY <1>1, <1>M DEF LifeInv, RenamesCurrent, Steady, Renaming, Unapplied, Pending, Is, Shutting, Life!UnderWay,
      Life!Ids, Life!Busy, Life!Stale, Moves
<1>11. NameFollows'
  BY <1>1, <1>M, LastStays DEF LifeInv, Steady, Renaming, Unapplied, Pending, Is, Shutting, Life!UnderWay,
      Life!Ids, Life!Busy, Life!Stale, Moves, NameFollows, Named, Settles, Enrolling, Enrolls
<1> QED BY <1>2, <1>3, <1>4, <1>5, <1>6, <1>7, <1>8, <1>9, <1>10, <1>11 DEF LifeInv

LEMMA RenameDropped ==
  ASSUME LifeInv, NEW c \in DOMAIN calls, Life!RenameBegins(c),
         Life!Stale(c) \/ managed = NoSid \/ calls[c].name = 0 \/ Life!Known(c)
  PROVE  LifeInv'
<1>1. /\ Moves(c, "end") /\ calls[c].kind = "rename" /\ calls[c].at = "awaitStartup" /\ workStartup = 0
      /\ \A d \in 1 .. c - 1 : calls[d].at # "awaitStartup"
      /\ calls'[c].sid = calls[c].sid
      /\ UNCHANGED <<files, record, lifeTag, session, name, generation, managed, cached,
                    transitions, finalization, workStartup, finished, spoiled>>
      /\ calls' \in Seq(CallSet)
  <2> DEFINE got == IF Life!Missed(c) THEN "missed" ELSE "none"
  <2>1. CASE Life!Ends(c) /\ UNCHANGED transitions
    BY <2>1, CallGoes DEF LifeInv, LifeTypeOK, CallStates, Life!pi, Life!workSession, Life!Ends, Life!RenameBegins
  <2>2. CASE Life!Drops(c, got) /\ UNCHANGED transitions
    <3>1. got \in Outcomes
      BY DEF Outcomes
    <3> HIDE DEF got
    <3>2. calls \in Seq(CallSet)
      BY DEF LifeInv, LifeTypeOK
    <3>3. Moves(c, "end") /\ calls'[c].sid = calls[c].sid /\ calls' \in Seq(CallSet)
      BY <2>2, <3>1, <3>2, CallEnds
    <3> QED BY <2>2, <3>3 DEF Life!pi, Life!workSession, Life!RenameBegins
  <2>3. (Life!Ends(c) \/ Life!Drops(c, got)) /\ UNCHANGED transitions
    BY DEF Life!RenameBegins
  <2> HIDE DEF got
  <2> QED BY <2>1, <2>2, <2>3
<1>Y. cached' \in RecordSet
  BY <1>1 DEF LifeInv, LifeTypeOK
<1>S. ASSUME ~Life!Stale(c), managed # NoSid, calls[c].name > 0, calls'[c].got # "missed"
      PROVE  /\ record[managed].name = calls[c].name
             /\ \A d \in DOMAIN calls : Is(d, "rename", {"queued"}) => calls[d].name = calls[c].name
  <2>1. ~Life!Missed(c)
    <3> SUFFICES ASSUME Life!Missed(c) PROVE FALSE
      OBVIOUS
    <3>1. Life!Drops(c, "missed")
      BY <1>S DEF Life!RenameBegins
    <3>2. calls \in Seq(CallSet) /\ "missed" \in Outcomes
      BY DEF LifeInv, LifeTypeOK, Outcomes
    <3> QED BY <1>S, <3>1, <3>2, CallEnds
  <2> QED BY <2>1 DEF Life!Missed, Life!Ids, Is
<1>A. Unapplied(c) /\ \A d \in DOMAIN calls : Unapplied(d) /\ d # c => c < d
  BY <1>1, LifeScalars DEF LifeInv, Unapplied, Is
<1>M. Steady => /\ ~Life!Stale(c) /\ managed \in {NoSid, session}
                /\ managed = NoSid => \A d \in DOMAIN calls : ~Enrolling(d) /\ (Pending(d) => record[session].state = "closed")
  BY <1>1, <1>A, LifeScalars DEF LifeInv, Steady, Pending, Unapplied, ManagedCurrent, RenamesCurrent,
      AdoptsAfterStart, OneStart, Life!Busy, Is, Enrolls, Enrolling
<1>2. LifeTypeOK'
  BY <1>1, <1>M, <1>Y DEF LifeInv, LifeTypeOK, Moves
<1>3. CallsKnown' /\ QueueKnown'
  BY <1>1, <1>M DEF LifeInv, CallsKnown, CallStates, Moves, QueueKnown, Waits
<1>4. ClosedStays' /\ ErrorsSpoil' /\ OneStart' /\ OneShutdown'
  BY <1>1, <1>M DEF LifeInv, ClosedStays, ClosedNow, Moves, ErrorsSpoil, OneStart, Shutting, Life!UnderWay,
      Life!Ids, Life!Busy, Life!Stale, OneShutdown, Is
<1>5. AdoptsCurrent' /\ ManagedCurrent' /\ ClosesCurrent' /\ AdoptsAfterStart'
  BY <1>1, <1>M DEF LifeInv, AdoptsCurrent, Life!Busy, Shutting, Life!UnderWay, Life!Ids, Moves, ManagedCurrent,
      Life!Stale, ClosesCurrent, AdoptsAfterStart, Is
<1>6. StartsFirst' /\ QueueCurrent'
  BY <1>1, <1>M, LifeQueue DEF LifeInv, StartsFirst, Is, Moves, QueueCurrent, Shutting, Life!UnderWay, Life!Ids,
      Life!Busy, Life!Stale
<1>7. TagFollows' /\ RecordOpen'
  BY <1>1, <1>M DEF LifeInv, TagFollows, Enrolls, Odd, Is, Moves, RecordOpen, Enrolling, ClosedNow, Life!Stale,
      Shutting, Life!UnderWay, Life!Ids, Life!Busy
<1>8. RenamesQueued' /\ RenamesAwait'
  BY <1>1, <1>M, LifeQueue DEF LifeInv, Moves, RenamesQueued, Renaming, Is, RenamesAwait, Life!Stale,
      Unapplied
<1>9. RenamesCurrent'
  BY <1>1, <1>M DEF LifeInv, RenamesCurrent, Steady, Renaming, Unapplied, Pending, Is, Shutting, Life!UnderWay,
      Life!Ids, Life!Busy, Life!Stale, Moves
<1>10. NameFollows'
  <2>1. Steady' => Steady
    BY <1>1 DEF Steady, Shutting, Life!UnderWay, Life!Ids, Life!Busy, Moves
  <2>2. \A d \in DOMAIN calls : /\ calls'[d].name = calls[d].name /\ (d # c => calls'[d] = calls[d])
                                /\ (Pending(d)' => Pending(d) /\ Is(d, "rename", {"queued"})) /\ (Enrolling(d)' => Enrolling(d))
    BY <1>1 DEF Pending, Is, Life!Stale, Moves, Enrolling, Enrolls
  <2>3. ASSUME Steady', NEW e \in DOMAIN calls, Life!Last(e), calls[e].name > 0 PROVE Named(e)'
    <3>1. Named(e) /\ Steady /\ ~Life!Stale(e)
      BY <2>1, <2>3 DEF LifeInv, NameFollows, Life!Last
    <3>2. CASE e # c
      BY <1>1, <2>2, <3>1, <3>2 DEF Named, Settles, Is, Moves
    <3>3. CASE e = c
      BY <1>1, <1>S, <1>M, <2>2, <2>3, <3>1, <3>3 DEF Named, Settles, Is, Moves
    <3> QED BY <3>2, <3>3
  <2> QED BY <1>1, <2>2, <2>3, LastStays DEF NameFollows, Moves
<1> QED BY <1>2, <1>3, <1>4, <1>5, <1>6, <1>7, <1>8, <1>9, <1>10 DEF LifeInv

LEMMA RenameQueued ==
  ASSUME LifeInv, NEW c \in DOMAIN calls, Life!RenameBegins(c), ~Life!Stale(c), managed # NoSid, calls[c].name > 0, ~Life!Known(c)
  PROVE  LifeInv'
<1>0. /\ Life!Sends(c, managed, cached) /\ Life!queue(c)
      /\ calls[c].kind = "rename" /\ calls[c].at = "awaitStartup" /\ workStartup = 0
      /\ (\A d \in 1 .. c - 1 : calls[d].at # "awaitStartup")
      /\ UNCHANGED <<files, record, lifeTag, session, name, generation, managed, cached,
                    finalization, workStartup, finished, spoiled>>
  BY DEF Life!RenameBegins, Life!pi, Life!workSession
<1>T. /\ managed \in Sids /\ cached \in RecordSet /\ "queued" \in CallStates /\ calls \in Seq(CallSet) /\ transitions \in Seq(Nat)
      /\ c \in Nat
  BY LifeScalars DEF LifeInv, LifeTypeOK, CallStates
<1>1. /\ Moves(c, "queued") /\ calls[c].kind = "rename" /\ calls[c].at = "awaitStartup" /\ workStartup = 0
      /\ (\A d \in 1 .. c - 1 : calls[d].at # "awaitStartup")
      /\ QueueGrows(c)
      /\ calls'[c].sid = managed /\ calls'[c].got = calls[c].got
      /\ UNCHANGED <<files, record, lifeTag, session, name, generation, managed,
                    finalization, workStartup, finished, spoiled>>
  BY <1>0, <1>T, CallQueued, Queues
<1>Y. calls' \in Seq(CallSet) /\ cached' \in RecordSet /\ transitions' \in Seq(Nat)
  <2>1. calls' \in Seq(CallSet) /\ transitions' \in Seq(Nat)
    BY <1>0, <1>T, CallQueued, Queues
  <2>2. cached' \in RecordSet
    BY LifeFields DEF LifeInv, LifeTypeOK, RecordSet, Life!NoRecord, Life!workSession, Life!Manages, Life!RenameBegins
  <2> QED BY <2>1, <2>2
<1>M. /\ Unapplied(c) /\ managed \in Sids /\ (spoiled \/ managed = session)
      /\ \A d \in DOMAIN calls : Unapplied(d) /\ d # c => c < d
  BY <1>1, LifeScalars, LifeFields DEF LifeInv, Unapplied, Is, ManagedCurrent
<1>K. \A i \in DOMAIN transitions : /\ transitions'[i] = transitions[i] /\ calls'[transitions[i]] = calls[transitions[i]]
                                    /\ transitions[i] # c
  BY <1>1, LifeQueue DEF Moves, QueueGrows
<1>2. LifeTypeOK'
  BY <1>1, <1>M, <1>Y DEF LifeInv, LifeTypeOK, Moves
<1>3. CallsKnown' /\ QueueKnown'
  BY <1>1, <1>M DEF LifeInv, CallsKnown, CallStates, Moves, QueueKnown, Waits, QueueGrows
<1>4. ClosedStays' /\ ErrorsSpoil' /\ OneStart' /\ OneShutdown'
  BY <1>1, <1>M DEF LifeInv, ClosedStays, ClosedNow, Moves, ErrorsSpoil, OneStart, Shutting, Life!UnderWay,
      Life!Ids, Life!Busy, Life!Stale, OneShutdown, Is
<1>5. AdoptsCurrent' /\ ManagedCurrent' /\ ClosesCurrent' /\ AdoptsAfterStart'
  BY <1>1, <1>M DEF LifeInv, AdoptsCurrent, Life!Busy, Shutting, Life!UnderWay, Life!Ids, Moves, ManagedCurrent,
      Life!Stale, ClosesCurrent, AdoptsAfterStart, Is
<1>6. StartsFirst' /\ QueueCurrent'
  BY <1>1, <1>M, <1>K, LifeQueue DEF LifeInv, StartsFirst, Is, Moves, QueueGrows, QueueCurrent, Shutting,
      Life!UnderWay, Life!Ids, Life!Busy, Life!Stale
<1>7. TagFollows' /\ RecordOpen'
  BY <1>1, <1>M DEF LifeInv, TagFollows, Enrolls, Odd, Is, Moves, RecordOpen, Enrolling, ClosedNow, Life!Stale,
      Shutting, Life!UnderWay, Life!Ids, Life!Busy
<1>8. RenamesQueued' /\ RenamesAwait'
  BY <1>1, <1>M, <1>K, LifeQueue DEF LifeInv, Moves, RenamesQueued, Renaming, Is, RenamesAwait, Life!Stale,
      Unapplied, QueueGrows
<1>9. RenamesCurrent'
  BY <1>1, <1>M DEF LifeInv, RenamesCurrent, Steady, Renaming, Unapplied, Pending, Is, Shutting, Life!UnderWay,
      Life!Ids, Life!Busy, Life!Stale, Moves
<1>10. NameFollows'
  <2>1. Steady' => Steady
    BY <1>1 DEF Steady, Shutting, Life!UnderWay, Life!Ids, Life!Busy, Moves
  <2>2. ASSUME Steady', NEW e \in DOMAIN calls, Life!Last(e), calls[e].name > 0 PROVE Named(e)'
    <3>1. Named(e) /\ calls[e].kind = "rename" /\ ~Life!Stale(e) /\ ~Life!Stale(c)
      BY <2>1, <2>2 DEF LifeInv, NameFollows, Life!Last
    <3>2. c <= e
      BY <1>1, <2>2, <3>1 DEF Life!Last, Life!Ids
    <3>3. Unapplied(e)
      BY <1>M, <3>1, <3>2, LifeScalars DEF LifeInv, RenamesAwait
    <3> QED BY <1>1, <3>1, <3>3 DEF Named, Settles, Unapplied, Is, Moves
  <2> QED BY <1>1, <2>2, LastStays DEF NameFollows, Moves
<1> QED BY <1>2, <1>3, <1>4, <1>5, <1>6, <1>7, <1>8, <1>9, <1>10 DEF LifeInv

LEMMA FinalizedKeeps ==
  ASSUME LifeInv, NEW c \in DOMAIN calls, Life!Finalized(c), calls[c].got # "done" \/ Life!Stale(c)
  PROVE  LifeInv'
<1>1. /\ Moves(c, "end") /\ calls[c].kind = "close" /\ calls[c].at = "resolved"
      /\ calls'[c].sid = calls[c].sid /\ calls'[c].got = calls[c].got
      /\ UNCHANGED <<files, record, lifeTag, session, name, generation, managed,
                    transitions, workStartup, finished, spoiled>>
  BY CallGoes DEF LifeInv, LifeTypeOK, CallStates, Life!pi, Life!workSession, Life!Then, Life!Ends, Life!Finalized
<1>Y. calls' \in Seq(CallSet) /\ cached' \in RecordSet
  BY CallGoes DEF LifeInv, LifeTypeOK, CallStates, Life!pi, Life!workSession, Life!Then, Life!Ends, Life!Finalized
<1>2. LifeTypeOK'
  BY <1>1, <1>Y DEF LifeInv, LifeTypeOK, Moves
<1>3. CallsKnown' /\ QueueKnown'
  BY <1>1 DEF LifeInv, CallsKnown, CallStates, Moves, QueueKnown, Waits
<1>4. ClosedStays' /\ ErrorsSpoil' /\ OneStart' /\ OneShutdown'
  BY <1>1 DEF LifeInv, ClosedStays, ClosedNow, Moves, ErrorsSpoil, OneStart, Shutting, Life!UnderWay, Life!Ids,
      Life!Busy, Life!Stale, OneShutdown, Is
<1>5. AdoptsCurrent' /\ ManagedCurrent' /\ ClosesCurrent' /\ AdoptsAfterStart'
  BY <1>1 DEF LifeInv, AdoptsCurrent, Life!Busy, Shutting, Life!UnderWay, Life!Ids, Moves, ManagedCurrent,
      Life!Stale, ClosesCurrent, AdoptsAfterStart, Is
<1>6. StartsFirst' /\ QueueCurrent'
  BY <1>1, LifeQueue DEF LifeInv, StartsFirst, Is, Moves, QueueCurrent, Shutting, Life!UnderWay, Life!Ids,
      Life!Busy, Life!Stale
<1>7. TagFollows' /\ RecordOpen'
  BY <1>1 DEF LifeInv, TagFollows, Enrolls, Odd, Is, Moves, RecordOpen, Enrolling, ClosedNow, Life!Stale,
      Shutting, Life!UnderWay, Life!Ids, Life!Busy
<1>8. RenamesQueued' /\ RenamesAwait'
  BY <1>1, LifeQueue DEF LifeInv, Moves, RenamesQueued, Renaming, Is, RenamesAwait, Life!Stale, Unapplied
<1>9. RenamesCurrent'
  BY <1>1 DEF LifeInv, RenamesCurrent, Steady, Renaming, Unapplied, Pending, Is, Shutting, Life!UnderWay,
      Life!Ids, Life!Busy, Life!Stale, Moves
<1>10. NameFollows'
  BY <1>1, LastStays DEF LifeInv, Steady, Renaming, Unapplied, Pending, Is, Shutting, Life!UnderWay,
      Life!Ids, Life!Busy, Life!Stale, Moves, NameFollows, Named, Settles, Enrolling, Enrolls
<1> QED BY <1>2, <1>3, <1>4, <1>5, <1>6, <1>7, <1>8, <1>9, <1>10 DEF LifeInv

LEMMA FinalizedGoesOn ==
  ASSUME LifeInv, NEW c \in DOMAIN calls, Life!Finalized(c), calls[c].got = "done", ~Life!Stale(c)
  PROVE  LifeInv'
<1>1. /\ Moves(c, "unbinds") /\ calls[c].kind = "close" /\ calls[c].at = "resolved"
      /\ calls'[c].sid = calls[c].sid /\ calls'[c].got = calls[c].got
      /\ UNCHANGED <<files, record, lifeTag, session, name, generation, managed,
                    transitions, workStartup, finished, spoiled>>
  BY CallGoes DEF LifeInv, LifeTypeOK, CallStates, Life!pi, Life!workSession, Life!Then, Life!Ends, Life!Finalized
<1>Y. calls' \in Seq(CallSet) /\ cached' \in RecordSet
  BY CallGoes DEF LifeInv, LifeTypeOK, CallStates, Life!pi, Life!workSession, Life!Then, Life!Ends, Life!Finalized
<1>2. LifeTypeOK'
  BY <1>1, <1>Y DEF LifeInv, LifeTypeOK, Moves
<1>3. CallsKnown' /\ QueueKnown'
  BY <1>1 DEF LifeInv, CallsKnown, CallStates, Moves, QueueKnown, Waits
<1>4. ClosedStays' /\ ErrorsSpoil' /\ OneStart' /\ OneShutdown'
  BY <1>1 DEF LifeInv, ClosedStays, ClosedNow, Moves, ErrorsSpoil, OneStart, Shutting, Life!UnderWay, Life!Ids,
      Life!Busy, Life!Stale, OneShutdown, Is
<1>5. AdoptsCurrent' /\ ManagedCurrent' /\ ClosesCurrent' /\ AdoptsAfterStart'
  BY <1>1 DEF LifeInv, AdoptsCurrent, Life!Busy, Shutting, Life!UnderWay, Life!Ids, Moves, ManagedCurrent,
      Life!Stale, ClosesCurrent, AdoptsAfterStart, Is
<1>6. StartsFirst' /\ QueueCurrent'
  BY <1>1, LifeQueue DEF LifeInv, StartsFirst, Is, Moves, QueueCurrent, Shutting, Life!UnderWay, Life!Ids,
      Life!Busy, Life!Stale
<1>7. TagFollows' /\ RecordOpen'
  BY <1>1 DEF LifeInv, TagFollows, Enrolls, Odd, Is, Moves, RecordOpen, Enrolling, ClosedNow, Life!Stale,
      Shutting, Life!UnderWay, Life!Ids, Life!Busy
<1>8. RenamesQueued' /\ RenamesAwait'
  BY <1>1, LifeQueue DEF LifeInv, Moves, RenamesQueued, Renaming, Is, RenamesAwait, Life!Stale, Unapplied
<1>9. RenamesCurrent'
  BY <1>1 DEF LifeInv, RenamesCurrent, Steady, Renaming, Unapplied, Pending, Is, Shutting, Life!UnderWay,
      Life!Ids, Life!Busy, Life!Stale, Moves
<1>10. NameFollows'
  BY <1>1, LastStays DEF LifeInv, Steady, Renaming, Unapplied, Pending, Is, Shutting, Life!UnderWay,
      Life!Ids, Life!Busy, Life!Stale, Moves, NameFollows, Named, Settles, Enrolling, Enrolls
<1> QED BY <1>2, <1>3, <1>4, <1>5, <1>6, <1>7, <1>8, <1>9, <1>10 DEF LifeInv

LEMMA FinalizedReleasesKeeps ==
  ASSUME LifeInv, NEW c \in DOMAIN calls, Life!FinalizedReleases(c), Life!Settled
  PROVE  LifeInv'
<1>1. /\ Moves(c, "end") /\ calls[c].at = "unbinds" /\ Quiet
      /\ lifeTag' = (IF lifeTag = calls[c].sid THEN NoSid ELSE lifeTag)
      /\ managed' = NoSid /\ finished' = finished \cup {calls[c].sid} /\ spoiled' = (spoiled \/ Life!Stale(c))
      /\ calls'[c].sid = calls[c].sid /\ calls'[c].got = calls[c].got
      /\ UNCHANGED <<files, record, session, name, generation, transitions, workStartup>>
  BY CallGoes DEF LifeInv, LifeTypeOK, CallStates, Life!pi, Life!workSession, Life!Then, Life!Ends, Life!FinalizedReleases,
      Life!Released, Life!Settled, Life!Ids, Quiet
<1>Y. calls' \in Seq(CallSet) /\ cached' \in RecordSet
  <2>1. calls' \in Seq(CallSet)
    BY CallGoes DEF LifeInv, LifeTypeOK, CallStates, Life!pi, Life!workSession, Life!Then, Life!Ends, Life!FinalizedReleases,
      Life!Released, Life!Settled, Life!Ids, Quiet
  <2>2. cached' \in RecordSet
    BY LifeFields DEF LifeInv, LifeTypeOK, RecordSet, Life!NoRecord, Life!workSession, Life!Manages, Life!FinalizedReleases
  <2> QED BY <2>1, <2>2
<1>A. /\ calls[c].kind = "close" /\ calls[c].sid \in Sids /\ record[calls[c].sid].state = "closed"
      /\ spoiled' \in BOOLEAN /\ (spoiled => spoiled')
      /\ ~spoiled' => ~spoiled /\ ~Life!Stale(c)
  BY <1>1 DEF LifeInv, CallsKnown, ClosedStays, ClosedNow, LifeTypeOK
<1>M. spoiled' \/ /\ ~spoiled /\ workStartup = 0 /\ (session # NoSid => calls[c].sid = session)
                  /\ lifeTag' = NoSid /\ (\A d \in DOMAIN calls : ~Enrolls(d) /\ ~Is(d, "start", {"release"}))
  BY <1>1, <1>A, LifeScalars DEF LifeInv, Life!Busy, Is, Moves, ErrorsSpoil, Quiet, ManagedCurrent,
      ClosesCurrent, TagFollows, Enrolls, Odd, OneStart
<1>2. LifeTypeOK'
  BY <1>1, <1>M, <1>Y, <1>A DEF LifeInv, LifeTypeOK, Moves
<1>3. CallsKnown' /\ QueueKnown'
  BY <1>1, <1>M DEF LifeInv, CallsKnown, CallStates, Moves, QueueKnown, Waits
<1>4. ClosedStays' /\ ErrorsSpoil' /\ OneStart' /\ OneShutdown'
  BY <1>1, <1>M, <1>A DEF LifeInv, ClosedStays, ClosedNow, Moves, ErrorsSpoil, OneStart, Shutting,
      Life!UnderWay, Life!Ids, Life!Busy, Life!Stale, OneShutdown, Is
<1>5. AdoptsCurrent' /\ ManagedCurrent' /\ ClosesCurrent' /\ AdoptsAfterStart'
  BY <1>1, <1>M DEF LifeInv, AdoptsCurrent, Life!Busy, Shutting, Life!UnderWay, Life!Ids, Moves, ManagedCurrent,
      Life!Stale, ClosesCurrent, AdoptsAfterStart, Is
<1>6. StartsFirst' /\ QueueCurrent'
  BY <1>1, <1>M, LifeQueue, <1>A DEF LifeInv, StartsFirst, Is, Moves, QueueCurrent, Shutting, Life!UnderWay,
      Life!Ids, Life!Busy, Life!Stale
<1>7. TagFollows' /\ RecordOpen'
  BY <1>1, <1>M, <1>A DEF LifeInv, TagFollows, Enrolls, Odd, Is, Moves, RecordOpen, Enrolling, ClosedNow,
      Life!Stale, Shutting, Life!UnderWay, Life!Ids, Life!Busy
<1>8. RenamesQueued' /\ RenamesAwait'
  BY <1>1, <1>M, LifeQueue DEF LifeInv, Moves, RenamesQueued, Renaming, Is, RenamesAwait, Life!Stale,
      Unapplied
<1>9. RenamesCurrent'
  BY <1>1, <1>M, <1>A DEF LifeInv, RenamesCurrent, Steady, Renaming, Unapplied, Pending, Is, Shutting,
      Life!UnderWay, Life!Ids, Life!Busy, Life!Stale, Moves
<1>10. NameFollows'
  BY <1>1, <1>M, <1>A, LastStays DEF LifeInv, Steady, Renaming, Unapplied, Pending, Is, Shutting,
      Life!UnderWay, Life!Ids, Life!Busy, Life!Stale, Moves, NameFollows, Named, Settles, Enrolling, Enrolls
<1> QED BY <1>2, <1>3, <1>4, <1>5, <1>6, <1>7, <1>8, <1>9, <1>10 DEF LifeInv

LEMMA ShutdownSkips ==
  ASSUME LifeInv, NEW c \in DOMAIN calls, Life!ShutdownReleases(c), managed = NoSid
  PROVE  LifeInv'
<1>1. /\ Moves(c, "released") /\ calls[c].kind = "shutdown" /\ calls[c].at = "awaitStartup" /\ workStartup = 0
      /\ calls'[c].sid = calls[c].sid /\ calls'[c].got = calls[c].got
      /\ UNCHANGED <<files, record, lifeTag, session, name, generation, managed,
                    transitions, finalization, workStartup, finished, spoiled>>
  BY CallGoes DEF LifeInv, LifeTypeOK, CallStates, Life!pi, Life!workSession, Life!Then, Life!Ends, Life!ShutdownReleases
<1>Y. calls' \in Seq(CallSet) /\ cached' \in RecordSet
  BY CallGoes DEF LifeInv, LifeTypeOK, CallStates, Life!pi, Life!workSession, Life!Then, Life!Ends, Life!ShutdownReleases
<1>M. spoiled \/ \A d \in DOMAIN calls : ~Odd(d)
  BY <1>1, LifeScalars DEF LifeInv, Life!Busy, Life!Ids, Life!UnderWay, Shutting, Is, Odd, Enrolls, OneStart,
      OneShutdown, AdoptsCurrent
<1>2. LifeTypeOK'
  BY <1>1, <1>M, <1>Y DEF LifeInv, LifeTypeOK, Moves
<1>3. CallsKnown' /\ QueueKnown'
  BY <1>1, <1>M DEF LifeInv, CallsKnown, CallStates, Moves, QueueKnown, Waits
<1>4. ClosedStays' /\ ErrorsSpoil' /\ OneStart' /\ OneShutdown'
  BY <1>1, <1>M DEF LifeInv, ClosedStays, ClosedNow, Moves, ErrorsSpoil, OneStart, Shutting, Life!UnderWay,
      Life!Ids, Life!Busy, Life!Stale, OneShutdown, Is
<1>5. AdoptsCurrent' /\ ManagedCurrent' /\ ClosesCurrent' /\ AdoptsAfterStart'
  BY <1>1, <1>M DEF LifeInv, AdoptsCurrent, Life!Busy, Shutting, Life!UnderWay, Life!Ids, Moves, ManagedCurrent,
      Life!Stale, ClosesCurrent, AdoptsAfterStart, Is
<1>6. StartsFirst' /\ QueueCurrent'
  BY <1>1, <1>M, LifeQueue DEF LifeInv, StartsFirst, Is, Moves, QueueCurrent, Shutting, Life!UnderWay, Life!Ids,
      Life!Busy, Life!Stale
<1>7. TagFollows' /\ RecordOpen'
  BY <1>1, <1>M DEF LifeInv, TagFollows, Enrolls, Odd, Is, Moves, RecordOpen, Enrolling, ClosedNow, Life!Stale,
      Shutting, Life!UnderWay, Life!Ids, Life!Busy
<1>8. RenamesQueued' /\ RenamesAwait'
  BY <1>1, <1>M, LifeQueue DEF LifeInv, Moves, RenamesQueued, Renaming, Is, RenamesAwait, Life!Stale,
      Unapplied
<1>9. RenamesCurrent'
  BY <1>1, <1>M DEF LifeInv, RenamesCurrent, Steady, Renaming, Unapplied, Pending, Is, Shutting, Life!UnderWay,
      Life!Ids, Life!Busy, Life!Stale, Moves
<1>10. NameFollows'
  BY <1>1, <1>M, LastStays DEF LifeInv, Steady, Renaming, Unapplied, Pending, Is, Shutting, Life!UnderWay,
      Life!Ids, Life!Busy, Life!Stale, Moves, NameFollows, Named, Settles, Enrolling, Enrolls
<1> QED BY <1>2, <1>3, <1>4, <1>5, <1>6, <1>7, <1>8, <1>9, <1>10 DEF LifeInv

LEMMA ShutdownQueued ==
  ASSUME LifeInv, NEW c \in DOMAIN calls, Life!ShutdownReleases(c), managed # NoSid
  PROVE  LifeInv'
<1>1. /\ Moves(c, "release") /\ calls[c].kind = "shutdown" /\ calls[c].at = "awaitStartup" /\ workStartup = 0
      /\ QueueGrows(c)
      /\ calls'[c].sid = managed /\ calls'[c].got = calls[c].got
      /\ UNCHANGED <<files, record, lifeTag, session, name, generation, managed,
                    finalization, workStartup, finished, spoiled>>
  BY CallSent, Queues DEF LifeInv, LifeTypeOK, CallStates, Life!pi, Life!workSession, Life!Then, Life!Ends, Life!ShutdownReleases
<1>Y. calls' \in Seq(CallSet) /\ cached' \in RecordSet /\ transitions' \in Seq(Nat)
  <2>1. calls' \in Seq(CallSet) /\ transitions' \in Seq(Nat)
    BY CallSent, Queues DEF LifeInv, LifeTypeOK, CallStates, Life!pi, Life!workSession, Life!Then, Life!Ends, Life!ShutdownReleases
  <2>2. cached' \in RecordSet
    BY LifeFields DEF LifeInv, LifeTypeOK, RecordSet, Life!NoRecord, Life!workSession, Life!Manages, Life!ShutdownReleases
  <2> QED BY <2>1, <2>2
<1>M. managed \in Sids /\ (spoiled \/ managed = session)
  BY <1>1, LifeScalars, LifeFields DEF LifeInv, ManagedCurrent
<1>K. \A i \in DOMAIN transitions : /\ transitions'[i] = transitions[i] /\ calls'[transitions[i]] = calls[transitions[i]]
                                    /\ transitions[i] # c
  BY <1>1, LifeQueue DEF Moves, QueueGrows
<1>2. LifeTypeOK'
  BY <1>1, <1>M, <1>Y DEF LifeInv, LifeTypeOK, Moves
<1>3. CallsKnown' /\ QueueKnown'
  BY <1>1, <1>M DEF LifeInv, CallsKnown, CallStates, Moves, QueueKnown, Waits, QueueGrows
<1>4. ClosedStays' /\ ErrorsSpoil' /\ OneStart' /\ OneShutdown'
  BY <1>1, <1>M DEF LifeInv, ClosedStays, ClosedNow, Moves, ErrorsSpoil, OneStart, Shutting, Life!UnderWay,
      Life!Ids, Life!Busy, Life!Stale, OneShutdown, Is
<1>5. AdoptsCurrent' /\ ManagedCurrent' /\ ClosesCurrent' /\ AdoptsAfterStart'
  BY <1>1, <1>M DEF LifeInv, AdoptsCurrent, Life!Busy, Shutting, Life!UnderWay, Life!Ids, Moves, ManagedCurrent,
      Life!Stale, ClosesCurrent, AdoptsAfterStart, Is
<1>6. StartsFirst' /\ QueueCurrent'
  BY <1>1, <1>M, <1>K, LifeQueue DEF LifeInv, StartsFirst, Is, Moves, QueueGrows, QueueCurrent, Shutting,
      Life!UnderWay, Life!Ids, Life!Busy, Life!Stale
<1>7. TagFollows' /\ RecordOpen'
  BY <1>1, <1>M DEF LifeInv, TagFollows, Enrolls, Odd, Is, Moves, RecordOpen, Enrolling, ClosedNow, Life!Stale,
      Shutting, Life!UnderWay, Life!Ids, Life!Busy
<1>8. RenamesQueued' /\ RenamesAwait'
  BY <1>1, <1>M, <1>K, LifeQueue DEF LifeInv, Moves, RenamesQueued, Renaming, Is, QueueGrows,
      RenamesAwait, Life!Stale, Unapplied
<1>9. RenamesCurrent'
  BY <1>1, <1>M DEF LifeInv, RenamesCurrent, Steady, Renaming, Unapplied, Pending, Is, Shutting, Life!UnderWay,
      Life!Ids, Life!Busy, Life!Stale, Moves
<1>10. NameFollows'
  BY <1>1, <1>M, LastStays DEF LifeInv, Steady, Renaming, Unapplied, Pending, Is, Shutting, Life!UnderWay,
      Life!Ids, Life!Busy, Life!Stale, Moves, NameFollows, Named, Settles, Enrolling, Enrolls
<1> QED BY <1>2, <1>3, <1>4, <1>5, <1>6, <1>7, <1>8, <1>9, <1>10 DEF LifeInv

-----------------------------------------------------------------------------
(* The operations; one that fails spoils. *)

LEMMA FailureKeeps ==
  ASSUME LifeInv, NEW c \in DOMAIN calls, NEW got \in {"failed", "unbound", "done"}, Life!Turn(c),
         Life!Resolves(c, got), calls[c].at \in {"queued", "window"}, calls[c].kind # "shutdown",
         got = "done" => calls[c].kind = "rename", got = "unbound" => calls[c].kind \in {"start", "adopt"},
         got = "failed" => calls[c].at = "queued",
         spoiled' = TRUE, lifeTag' \in {lifeTag, calls[c].sid},
         UNCHANGED <<files, record, Life!pi, generation, Life!workSession, finalization, workStartup, finished>>
  PROVE  LifeInv'
<1>1. /\ Moves(c, "resolved") /\ calls'[c].got = got /\ QueueMoves(c) /\ spoiled' = TRUE
      /\ lifeTag' \in {lifeTag, calls[c].sid}
      /\ calls'[c].sid = calls[c].sid
      /\ UNCHANGED <<files, record, session, name, generation, managed, finalization,
                    workStartup, finished>>
  BY CallResolves DEF LifeInv, LifeTypeOK, CallStates, Outcomes, Life!pi, Life!workSession, Life!Then, Life!Ends, Life!pi
<1>Y. calls' \in Seq(CallSet) /\ cached' \in RecordSet /\ transitions' \in Seq(Nat)
  BY CallResolves DEF LifeInv, LifeTypeOK, CallStates, Outcomes, Life!pi, Life!workSession, Life!Then, Life!Ends, Life!pi
<1>K. \A i \in DOMAIN transitions' : /\ i + 1 \in DOMAIN transitions /\ transitions'[i] = transitions[i + 1]
                                     /\ calls'[transitions[i + 1]] = calls[transitions[i + 1]] /\ transitions[i + 1] # c
  BY <1>1, LifeQueue DEF LifeInv, QueueKnown, QueueMoves, Moves
<1>2. LifeTypeOK'
  BY <1>1, <1>Y, LifeFields DEF LifeInv, LifeTypeOK, Moves
<1>3. CallsKnown'
  BY <1>1 DEF LifeInv, CallsKnown, CallStates, Moves
<1>4. QueueKnown'
  BY <1>1, QueueTaken
<1>5. ClosedStays' /\ ErrorsSpoil' /\ OneStart' /\ OneShutdown'
  BY <1>1 DEF LifeInv, ClosedStays, ClosedNow, Moves, ErrorsSpoil, OneStart, Shutting, Life!UnderWay, Life!Ids,
      Life!Busy, Life!Stale, OneShutdown, Is
<1>6. RenamesQueued' /\ RenamesAwait'
  BY <1>1, <1>K, LifeQueue DEF LifeInv, Moves, RenamesQueued, Renaming, Is, QueueMoves,
      RenamesAwait, Life!Stale, Unapplied
<1>7. AdoptsCurrent' /\ ManagedCurrent' /\ ClosesCurrent' /\ AdoptsAfterStart' /\ StartsFirst' /\ QueueCurrent'
      /\ TagFollows' /\ RecordOpen'  /\ RenamesCurrent' /\ NameFollows'
  BY <1>1 DEF AdoptsCurrent, ManagedCurrent, ClosesCurrent, AdoptsAfterStart, StartsFirst, QueueCurrent,
      TagFollows, RecordOpen, RenamesCurrent, NameFollows, Steady
<1> QED BY <1>2, <1>3, <1>4, <1>5, <1>6, <1>7 DEF LifeInv

LEMMA StartUnmanagedKeeps ==
  ASSUME LifeInv, NEW c \in DOMAIN calls, calls[c].kind = "start", calls[c].at = "queued", Life!Turn(c),
         Life!Resolves(c, "unmanaged"),
         UNCHANGED <<record, spoiled>>,
         UNCHANGED <<files, lifeTag, Life!pi, generation, Life!workSession, finalization, workStartup, finished>>
  PROVE  LifeInv'
<1>1. /\ Moves(c, "resolved") /\ calls'[c].got = "unmanaged" /\ QueueMoves(c)
      /\ calls'[c].sid = calls[c].sid
      /\ UNCHANGED <<files, record, lifeTag, session, name, generation, managed,
                    finalization, workStartup, finished, spoiled>>
  BY CallResolves DEF LifeInv, LifeTypeOK, CallStates, Outcomes, Life!pi, Life!workSession, Life!Then, Life!Ends, Life!pi
<1>Y. calls' \in Seq(CallSet) /\ cached' \in RecordSet /\ transitions' \in Seq(Nat)
  BY CallResolves DEF LifeInv, LifeTypeOK, CallStates, Outcomes, Life!pi, Life!workSession, Life!Then, Life!Ends, Life!pi
<1>K. \A i \in DOMAIN transitions' : /\ i + 1 \in DOMAIN transitions /\ transitions'[i] = transitions[i + 1]
                                     /\ calls'[transitions[i + 1]] = calls[transitions[i + 1]] /\ transitions[i + 1] # c
  BY <1>1, LifeQueue DEF LifeInv, QueueKnown, QueueMoves, Moves
<1>2. LifeTypeOK'
  BY <1>1, <1>Y DEF LifeInv, LifeTypeOK, Moves
<1>3. CallsKnown'
  BY <1>1 DEF LifeInv, CallsKnown, CallStates, Moves
<1>4. QueueKnown'
  BY <1>1, QueueTaken
<1>5. ClosedStays' /\ ErrorsSpoil' /\ OneStart' /\ OneShutdown'
  BY <1>1 DEF LifeInv, ClosedStays, ClosedNow, Moves, ErrorsSpoil, OneStart, Shutting, Life!UnderWay, Life!Ids,
      Life!Busy, Life!Stale, OneShutdown, Is
<1>6. AdoptsCurrent' /\ ManagedCurrent' /\ ClosesCurrent' /\ AdoptsAfterStart'
  BY <1>1 DEF LifeInv, AdoptsCurrent, Life!Busy, Shutting, Life!UnderWay, Life!Ids, Moves, ManagedCurrent,
      Life!Stale, ClosesCurrent, AdoptsAfterStart, Is
<1>7. StartsFirst'
  BY <1>1, <1>K, LifeQueue DEF LifeInv, StartsFirst, Is, Moves, QueueMoves
<1>8. QueueCurrent'
  BY <1>1, QueueCurrentTaken
<1>9. TagFollows' /\ RecordOpen'
  BY <1>1 DEF LifeInv, TagFollows, Enrolls, Odd, Is, Moves, RecordOpen, Enrolling, ClosedNow, Life!Stale,
      Shutting, Life!UnderWay, Life!Ids, Life!Busy
<1>10. RenamesQueued' /\ RenamesAwait'
  BY <1>1, <1>K, LifeQueue DEF LifeInv, Moves, RenamesQueued, Renaming, Is, QueueMoves,
      RenamesAwait, Life!Stale, Unapplied
<1>11. RenamesCurrent'
  BY <1>1 DEF LifeInv, RenamesCurrent, Steady, Renaming, Unapplied, Pending, Is, Shutting, Life!UnderWay,
      Life!Ids, Life!Busy, Life!Stale, Moves
<1>12. NameFollows'
  BY <1>1, LastStays DEF LifeInv, Steady, Renaming, Unapplied, Pending, Is, Shutting, Life!UnderWay,
      Life!Ids, Life!Busy, Life!Stale, Moves, NameFollows, Named, Settles, Enrolling, Enrolls
<1> QED BY <1>2, <1>3, <1>4, <1>5, <1>6, <1>7, <1>8, <1>9, <1>10, <1>11, <1>12 DEF LifeInv

LEMMA StartOpensKeeps ==
  ASSUME LifeInv, NEW c \in DOMAIN calls, Life!Settled, calls[c].kind = "start",
         calls[c].at = "queued", Life!Turn(c),
         record[calls[c].sid].state # "closed", NEW x \in RecordSet, x.state = "open",
         Life!Commits(c, x),
         UNCHANGED <<files, lifeTag, Life!pi, generation, Life!workSession, finalization, workStartup, finished>>
  PROVE  LifeInv'
<1>1. /\ Moves(c, "window") /\ calls[c].kind = "start" /\ calls[c].at = "queued" /\ transitions[1] = c
      /\ transitions # <<>> /\ Quiet
      /\ record' = [record EXCEPT ![calls[c].sid] = x]
      /\ calls'[c].sid = calls[c].sid /\ calls'[c].got = calls[c].got
      /\ UNCHANGED <<files, lifeTag, session, name, generation, managed, transitions,
                    finalization, workStartup, finished, spoiled>>
  BY CallCommits DEF LifeInv, LifeTypeOK, CallStates, Life!pi, Life!workSession, Life!Then, Life!Ends, Life!Turn,
      Quiet, Life!Settled, Life!Ids
<1>Y. calls' \in Seq(CallSet) /\ cached' \in RecordSet
  BY CallCommits DEF LifeInv, LifeTypeOK, CallStates, Life!pi, Life!workSession, Life!Then, Life!Ends, Life!Turn,
      Quiet, Life!Settled, Life!Ids
<1>A. LET s == calls[c].sid IN
      /\ s = session /\ s \in Sids /\ workStartup = c /\ record' \in [Sids -> RecordSet] /\ record[s].state # "closed"
      /\ record'[s].state = "open"
      /\ \A r \in Sids : r # s => record'[r] = record[r]
  BY <1>1, LifeFields DEF LifeInv, OneStart, CallsKnown, Life!Busy, LifeTypeOK
<1>2. LifeTypeOK'
  BY <1>1, <1>A, <1>Y DEF LifeInv, LifeTypeOK, Moves
<1>3. CallsKnown' /\ QueueKnown'
  BY <1>1, <1>A DEF LifeInv, CallsKnown, CallStates, Moves, QueueKnown, Waits
<1>4. ClosedStays' /\ ErrorsSpoil' /\ OneStart' /\ OneShutdown'
  BY <1>1, <1>A, LifeSids DEF LifeInv, ClosedStays, ClosedNow, Moves, ErrorsSpoil, OneStart, Shutting,
      Life!UnderWay, Life!Ids, Life!Busy, Life!Stale, OneShutdown, Is
<1>5. AdoptsCurrent' /\ ManagedCurrent' /\ ClosesCurrent' /\ AdoptsAfterStart'
  BY <1>1, <1>A DEF LifeInv, AdoptsCurrent, Life!Busy, Shutting, Life!UnderWay, Life!Ids, Moves, ManagedCurrent,
      Life!Stale, ClosesCurrent, AdoptsAfterStart, Is
<1>6. StartsFirst' /\ QueueCurrent'
  BY <1>1, <1>A, LifeQueue DEF LifeInv, StartsFirst, Is, Moves, QueueCurrent, Shutting, Life!UnderWay, Life!Ids,
      Life!Busy, Life!Stale
<1>7. TagFollows' /\ RecordOpen'
  BY <1>1, <1>A, LifeSids DEF LifeInv, TagFollows, Enrolls, Odd, Is, Moves, RecordOpen, Enrolling, ClosedNow,
      Life!Stale, Shutting, Life!UnderWay, Life!Ids, Life!Busy
<1>8. RenamesQueued' /\ RenamesAwait'
  BY <1>1, <1>A, LifeQueue DEF LifeInv, Moves, RenamesQueued, Renaming, Is, RenamesAwait, Life!Stale,
      Unapplied
<1>9. RenamesCurrent'
  BY <1>1, <1>A DEF LifeInv, RenamesCurrent, Steady, Renaming, Unapplied, Pending, Is, Shutting, Life!UnderWay,
      Life!Ids, Life!Busy, Life!Stale, Moves
<1>10. NameFollows'
  <2>1. Steady' => Steady
    BY <1>1 DEF Steady, Shutting, Life!UnderWay, Life!Ids, Life!Busy, Moves
  <2>2. ASSUME Steady', NEW e \in DOMAIN calls, Life!Last(e), calls[e].name > 0 PROVE Named(e)'
    <3>1. Named(e) /\ Unapplied(e) /\ e # c
      BY <1>1, <1>A, <2>1, <2>2, LifeScalars DEF LifeInv, NameFollows, RenamesAwait, Life!Last
    <3> QED BY <1>1, <3>1 DEF Named, Settles, Unapplied, Is, Moves
  <2> QED BY <1>1, <2>2, LastStays DEF NameFollows, Moves
<1> QED BY <1>2, <1>3, <1>4, <1>5, <1>6, <1>7, <1>8, <1>9, <1>10 DEF LifeInv

LEMMA AdoptOpensKeeps ==
  ASSUME LifeInv, NEW c \in DOMAIN calls, Life!Settled, calls[c].kind = "adopt", calls[c].at = "queued",
         Life!Turn(c),
         record[calls[c].sid].state # "closed", NEW x \in RecordSet, x.state = "open", Life!Commits(c, x),
         x.name = IF calls[c].name > 0 THEN calls[c].name ELSE record[calls[c].sid].name,
         UNCHANGED <<files, lifeTag, Life!pi, generation, Life!workSession, finalization, workStartup, finished>>
  PROVE  LifeInv'
<1>1. /\ Moves(c, "window") /\ calls[c].kind = "adopt" /\ calls[c].at = "queued" /\ transitions[1] = c
      /\ 1 \in DOMAIN transitions /\ Quiet
      /\ record' = [record EXCEPT ![calls[c].sid] = x]
      /\ calls'[c].sid = calls[c].sid /\ calls'[c].got = calls[c].got
      /\ UNCHANGED <<files, lifeTag, session, name, generation, managed, transitions,
                    finalization, workStartup, finished, spoiled>>
  BY CallCommits DEF LifeInv, LifeTypeOK, CallStates, Life!pi, Life!workSession, Life!Then, Life!Ends, Life!Turn,
      Quiet, Life!Settled, Life!Ids
<1>Y. calls' \in Seq(CallSet) /\ cached' \in RecordSet
  BY CallCommits DEF LifeInv, LifeTypeOK, CallStates, Life!pi, Life!workSession, Life!Then, Life!Ends, Life!Turn,
      Quiet, Life!Settled, Life!Ids
<1>A. LET s == calls[c].sid IN
      /\ s \in Sids /\ record' \in [Sids -> RecordSet] /\ record[s].state # "closed"
      /\ record'[s].state = "open" /\ record'[s].name = IF calls[c].name > 0 THEN calls[c].name ELSE record[s].name
      /\ \A r \in Sids : r # s => record'[r] = record[r]
      /\ spoiled \/ (s = session /\ calls[c].name = name /\ ~Shutting)
  BY <1>1, LifeFields DEF LifeInv, AdoptsCurrent, CallsKnown, Life!Busy, LifeTypeOK
<1>B. spoiled \/ workStartup = 0
  <2> SUFFICES ASSUME ~spoiled, workStartup # 0 PROVE FALSE
    OBVIOUS
  <2> DEFINE w == workStartup
  <2>1. w \in DOMAIN calls /\ Life!Busy(w) /\ calls[w].kind = "start"
    BY DEF LifeInv, OneStart
  <2> HIDE DEF w
  <2>2. calls[w].at \in {"queued", "window"}
    BY <1>1, <1>A, <2>1 DEF LifeInv, OneStart, CallsKnown, CallStates, Life!Busy, Quiet
  <2>3. PICK i \in DOMAIN transitions : transitions[i] = w
    BY <2>1, <2>2 DEF LifeInv, QueueKnown, Waits
  <2>4. i < 1
    BY <1>1, <2>1, <2>2, <2>3 DEF LifeInv, StartsFirst, Is
  <2> QED BY <2>3, <2>4, LifeQueue
<1>M. spoiled \/ (workStartup = 0 /\ \A d \in DOMAIN calls : ~Unapplied(d))
  BY <1>1, <1>B DEF Quiet, Unapplied, Is
<1>2. LifeTypeOK'
  BY <1>1, <1>M, <1>A, <1>Y DEF LifeInv, LifeTypeOK, Moves
<1>3. CallsKnown' /\ QueueKnown'
  BY <1>1, <1>M, <1>A DEF LifeInv, CallsKnown, CallStates, Moves, QueueKnown, Waits
<1>4. ClosedStays' /\ ErrorsSpoil' /\ OneStart' /\ OneShutdown'
  BY <1>1, <1>M, <1>A, LifeSids DEF LifeInv, ClosedStays, ClosedNow, Moves, ErrorsSpoil, OneStart, Shutting,
      Life!UnderWay, Life!Ids, Life!Busy, Life!Stale, OneShutdown, Is
<1>5. AdoptsCurrent' /\ ManagedCurrent' /\ ClosesCurrent' /\ AdoptsAfterStart'
  BY <1>1, <1>M, <1>A DEF LifeInv, AdoptsCurrent, Life!Busy, Shutting, Life!UnderWay, Life!Ids, Moves,
      ManagedCurrent, Life!Stale, ClosesCurrent, AdoptsAfterStart, Is, Unapplied
<1>6. StartsFirst' /\ QueueCurrent'
  BY <1>1, <1>M, <1>A, LifeQueue DEF LifeInv, StartsFirst, Is, Moves, QueueCurrent, Shutting, Life!UnderWay,
      Life!Ids, Life!Busy, Life!Stale
<1>7. TagFollows' /\ RecordOpen'
  BY <1>1, <1>M, <1>A, LifeSids DEF LifeInv, TagFollows, Enrolls, Odd, Is, Moves, RecordOpen, Enrolling,
      ClosedNow, Life!Stale, Shutting, Life!UnderWay, Life!Ids, Life!Busy
<1>8. RenamesQueued' /\ RenamesAwait'
  BY <1>1, <1>M, <1>A, LifeQueue DEF LifeInv, Moves, RenamesQueued, Renaming, Is, RenamesAwait, Life!Stale,
      Unapplied
<1>9. RenamesCurrent'
  BY <1>1, <1>M, <1>A DEF LifeInv, RenamesCurrent, Steady, Renaming, Unapplied, Pending, Is, Shutting,
      Life!UnderWay, Life!Ids, Life!Busy, Life!Stale, Moves
<1>10. NameFollows'
  BY <1>1, <1>M, <1>A, LastStays DEF LifeInv, Steady, Renaming, Unapplied, Pending, Is, Shutting,
      Life!UnderWay, Life!Ids, Life!Busy, Life!Stale, Moves, NameFollows, Named, Settles, Enrolling, Enrolls
<1> QED BY <1>2, <1>3, <1>4, <1>5, <1>6, <1>7, <1>8, <1>9, <1>10 DEF LifeInv

LEMMA CloseDoneKeeps ==
  ASSUME LifeInv, NEW c \in DOMAIN calls, Life!Settled, calls[c].kind = "close", calls[c].at = "queued",
         Life!Turn(c), Life!Resolves(c, "done"),
         NEW m \in BOOLEAN, record' = [record EXCEPT ![calls[c].sid].state = "closed", ![calls[c].sid].materialized = m], UNCHANGED spoiled,
         UNCHANGED <<files, lifeTag, Life!pi, generation, Life!workSession, finalization, workStartup, finished>>
  PROVE  LifeInv'
<1>1. /\ Moves(c, "resolved") /\ calls'[c].got = "done" /\ QueueMoves(c) /\ calls[c].kind = "close"
      /\ calls[c].at = "queued" /\ Quiet
      /\ calls'[c].sid = calls[c].sid
      /\ UNCHANGED <<files, lifeTag, session, name, generation, managed, finalization,
                    workStartup, finished, spoiled>>
  BY CallResolves DEF LifeInv, LifeTypeOK, CallStates, Outcomes, Life!pi, Life!workSession, Life!Then, Life!Ends, Life!Turn, Quiet,
      Life!Settled, Life!Ids
<1>Y. calls' \in Seq(CallSet) /\ cached' \in RecordSet /\ transitions' \in Seq(Nat)
  BY CallResolves DEF LifeInv, LifeTypeOK, CallStates, Outcomes, Life!pi, Life!workSession, Life!Then, Life!Ends, Life!Turn, Quiet,
      Life!Settled, Life!Ids
<1>A. LET s == calls[c].sid IN
      /\ s \in Sids /\ record' \in [Sids -> RecordSet]
      /\ record'[s].state = "closed" /\ (\A r \in Sids : record'[r].name = record[r].name)
      /\ \A r \in Sids : r # s => record'[r] = record[r]
  BY <1>1 DEF LifeInv, CallsKnown, LifeTypeOK, RecordSet
<1>M. spoiled \/ /\ Shutting \/ managed = NoSid \/ (managed = calls[c].sid => ~Life!Stale(c))
                 /\ \A d \in DOMAIN calls : ~Enrolling(d)
  BY <1>1, LifeScalars DEF LifeInv, ManagedCurrent, QueueCurrent, QueueMoves, QueueKnown, Enrolling, Enrolls,
      Is, Quiet, OneStart
<1>K. \A i \in DOMAIN transitions' : /\ i + 1 \in DOMAIN transitions /\ transitions'[i] = transitions[i + 1]
                                     /\ calls'[transitions[i + 1]] = calls[transitions[i + 1]] /\ transitions[i + 1] # c
  BY <1>1, LifeQueue DEF LifeInv, QueueKnown, QueueMoves, Moves
<1>2. LifeTypeOK'
  BY <1>1, <1>M, <1>A, <1>Y DEF LifeInv, LifeTypeOK, Moves
<1>3. CallsKnown'
  BY <1>1, <1>M, <1>A DEF LifeInv, CallsKnown, CallStates, Moves
<1>4. QueueKnown'
  BY <1>1, QueueTaken
<1>5. ClosedStays' /\ ErrorsSpoil' /\ OneStart' /\ OneShutdown'
  BY <1>1, <1>M, <1>A, LifeSids DEF LifeInv, ClosedStays, ClosedNow, Moves, ErrorsSpoil, OneStart, Shutting,
      Life!UnderWay, Life!Ids, Life!Busy, Life!Stale, OneShutdown, Is
<1>6. AdoptsCurrent' /\ ManagedCurrent' /\ ClosesCurrent' /\ AdoptsAfterStart'
  BY <1>1, <1>M, <1>A DEF LifeInv, AdoptsCurrent, Life!Busy, Shutting, Life!UnderWay, Life!Ids, Moves,
      ManagedCurrent, Life!Stale, ClosesCurrent, AdoptsAfterStart, Is
<1>7. StartsFirst'
  BY <1>1, <1>M, <1>A, <1>K, LifeQueue DEF LifeInv, StartsFirst, Is, Moves, QueueMoves
<1>8. QueueCurrent'
  BY <1>1, QueueCurrentTaken
<1>9. TagFollows' /\ RecordOpen'
  BY <1>1, <1>M, <1>A, LifeSids DEF LifeInv, TagFollows, Enrolls, Odd, Is, Moves, RecordOpen, Enrolling,
      ClosedNow, Life!Stale, Shutting, Life!UnderWay, Life!Ids, Life!Busy
<1>10. RenamesQueued' /\ RenamesAwait'
  BY <1>1, <1>M, <1>A, <1>K, LifeQueue DEF LifeInv, Moves, RenamesQueued, Renaming, Is, QueueMoves,
      RenamesAwait, Life!Stale, Unapplied
<1>11. RenamesCurrent'
  BY <1>1, <1>M, <1>A, LifeSids DEF LifeInv, RenamesCurrent, Steady, Renaming, Unapplied, Pending, Is, Shutting,
      Life!UnderWay, Life!Ids, Life!Busy, Life!Stale, Moves
<1>12. NameFollows'
  BY <1>1, <1>M, <1>A, LifeSids, LastStays DEF LifeInv, Steady, Renaming, Unapplied, Pending, Is, Shutting,
      Life!UnderWay, Life!Ids, Life!Busy, Life!Stale, Moves, NameFollows, Named, Settles, Enrolling, Enrolls
<1> QED BY <1>2, <1>3, <1>4, <1>5, <1>6, <1>7, <1>8, <1>9, <1>10, <1>11, <1>12 DEF LifeInv

LEMMA RefreshDoneKeeps ==
  ASSUME LifeInv, NEW c \in DOMAIN calls, calls[c].kind = "refresh", calls[c].at = "queued", Life!Turn(c),
         NEW x \in RecordSet, Life!Returns(c, "done", x), UNCHANGED spoiled, record' \in [Sids -> RecordSet],
         \A r \in Sids : record'[r].name = record[r].name /\ record'[r].state = record[r].state,
         UNCHANGED <<files, lifeTag, Life!pi, generation, Life!workSession, finalization, workStartup, finished>>
  PROVE  LifeInv'
<1>1. /\ Moves(c, "resolved") /\ calls'[c].got = "done" /\ QueueMoves(c) /\ calls[c].kind = "refresh"
      /\ calls[c].at = "queued"
      /\ calls'[c].sid = calls[c].sid
      /\ UNCHANGED <<files, lifeTag, session, name, generation, managed, finalization,
                    workStartup, finished, spoiled>>
  BY CallReturns DEF LifeInv, LifeTypeOK, CallStates, Outcomes, Life!pi, Life!workSession, Life!Then, Life!Ends, Life!Turn
<1>Y. calls' \in Seq(CallSet) /\ cached' \in RecordSet /\ transitions' \in Seq(Nat)
  BY CallReturns DEF LifeInv, LifeTypeOK, CallStates, Outcomes, Life!pi, Life!workSession, Life!Then, Life!Ends, Life!Turn
<1>A. /\ record' \in [Sids -> RecordSet]
      /\ \A r \in Sids : record'[r].name = record[r].name /\ record'[r].state = record[r].state
  OBVIOUS
<1>K. \A i \in DOMAIN transitions' : /\ i + 1 \in DOMAIN transitions /\ transitions'[i] = transitions[i + 1]
                                     /\ calls'[transitions[i + 1]] = calls[transitions[i + 1]] /\ transitions[i + 1] # c
  BY <1>1, LifeQueue DEF LifeInv, QueueKnown, QueueMoves, Moves
<1>2. LifeTypeOK'
  BY <1>1, <1>A, <1>Y DEF LifeInv, LifeTypeOK, Moves
<1>3. CallsKnown'
  BY <1>1, <1>A DEF LifeInv, CallsKnown, CallStates, Moves
<1>4. QueueKnown'
  BY <1>1, QueueTaken
<1>5. ClosedStays' /\ ErrorsSpoil' /\ OneStart' /\ OneShutdown'
  BY <1>1, <1>A, LifeSids DEF LifeInv, ClosedStays, ClosedNow, Moves, ErrorsSpoil, OneStart, Shutting,
      Life!UnderWay, Life!Ids, Life!Busy, Life!Stale, OneShutdown, Is
<1>6. AdoptsCurrent' /\ ManagedCurrent' /\ ClosesCurrent' /\ AdoptsAfterStart'
  BY <1>1, <1>A DEF LifeInv, AdoptsCurrent, Life!Busy, Shutting, Life!UnderWay, Life!Ids, Moves, ManagedCurrent,
      Life!Stale, ClosesCurrent, AdoptsAfterStart, Is
<1>7. StartsFirst'
  BY <1>1, <1>A, <1>K, LifeQueue DEF LifeInv, StartsFirst, Is, Moves, QueueMoves
<1>8. QueueCurrent'
  BY <1>1, QueueCurrentTaken
<1>9. TagFollows' /\ RecordOpen'
  BY <1>1, <1>A, LifeSids DEF LifeInv, TagFollows, Enrolls, Odd, Is, Moves, RecordOpen, Enrolling, ClosedNow,
      Life!Stale, Shutting, Life!UnderWay, Life!Ids, Life!Busy
<1>10. RenamesQueued' /\ RenamesAwait'
  BY <1>1, <1>A, <1>K, LifeQueue DEF LifeInv, Moves, RenamesQueued, Renaming, Is, QueueMoves,
      RenamesAwait, Life!Stale, Unapplied
<1>11. RenamesCurrent'
  BY <1>1, <1>A, LifeSids, LifeScalars DEF LifeInv, RenamesCurrent, Steady, Renaming, Unapplied, Pending, Is, Shutting, Life!UnderWay,
      Life!Ids, Life!Busy, Life!Stale, Moves
<1>12. NameFollows'
  BY <1>1, <1>A, LifeSids, LifeScalars, LastStays DEF LifeInv, Steady, Renaming, Unapplied, Pending, Is, Shutting, Life!UnderWay,
      Life!Ids, Life!Busy, Life!Stale, Moves, NameFollows, Named, Settles, Enrolling, Enrolls
<1> QED BY <1>2, <1>3, <1>4, <1>5, <1>6, <1>7, <1>8, <1>9, <1>10, <1>11, <1>12 DEF LifeInv

LEMMA RenameRecordedKeeps ==
  ASSUME LifeInv, NEW c \in DOMAIN calls, Life!Settled, calls[c].kind = "rename", calls[c].at = "queued",
         Life!Turn(c),
         record[calls[c].sid].state = "open", NEW x \in RecordSet, x.state = "open", x.name = calls[c].name, Life!Commits(c, x),
         UNCHANGED <<files, lifeTag, Life!pi, generation, Life!workSession, finalization, workStartup, finished>>
  PROVE  LifeInv'
<1>1. /\ Moves(c, "window") /\ calls[c].kind = "rename" /\ calls[c].at = "queued" /\ transitions[1] = c
      /\ 1 \in DOMAIN transitions /\ Quiet
      /\ record' = [record EXCEPT ![calls[c].sid] = x]
      /\ calls'[c].sid = calls[c].sid /\ calls'[c].got = calls[c].got
      /\ UNCHANGED <<files, lifeTag, session, name, generation, managed, transitions,
                    finalization, workStartup, finished, spoiled>>
  BY CallCommits DEF LifeInv, LifeTypeOK, CallStates, Life!pi, Life!workSession, Life!Then, Life!Ends, Life!Turn,
      Quiet, Life!Settled, Life!Ids
<1>Y. calls' \in Seq(CallSet) /\ cached' \in RecordSet
  BY CallCommits DEF LifeInv, LifeTypeOK, CallStates, Life!pi, Life!workSession, Life!Then, Life!Ends, Life!Turn,
      Quiet, Life!Settled, Life!Ids
<1>S. calls[c].sid \in Sids /\ calls[c].name \in Nat
  BY <1>1, LifeSids, LifeFields DEF Renaming, Is
<1>A. LET s == calls[c].sid IN
      /\ s \in Sids /\ record' \in [Sids -> RecordSet] /\ record[s].state = "open" /\ record'[s].name = calls[c].name
      /\ (\A r \in Sids : record'[r].state = record[r].state) /\ \A r \in Sids : r # s => record'[r] = record[r]
  BY <1>1, <1>S DEF LifeInv, LifeTypeOK
<1>2. LifeTypeOK'
  BY <1>1, <1>A, <1>Y DEF LifeInv, LifeTypeOK, Moves
<1>3. CallsKnown' /\ QueueKnown'
  BY <1>1, <1>A DEF LifeInv, CallsKnown, CallStates, Moves, QueueKnown, Waits
<1>4. ClosedStays' /\ ErrorsSpoil' /\ OneStart' /\ OneShutdown'
  BY <1>1, <1>A, LifeSids DEF LifeInv, ClosedStays, ClosedNow, Moves, ErrorsSpoil, OneStart, Shutting,
      Life!UnderWay, Life!Ids, Life!Busy, Life!Stale, OneShutdown, Is
<1>5. AdoptsCurrent' /\ ManagedCurrent' /\ ClosesCurrent' /\ AdoptsAfterStart'
  BY <1>1, <1>A DEF LifeInv, AdoptsCurrent, Life!Busy, Shutting, Life!UnderWay, Life!Ids, Moves, ManagedCurrent,
      Life!Stale, ClosesCurrent, AdoptsAfterStart, Is
<1>6. StartsFirst' /\ QueueCurrent'
  BY <1>1, <1>A, LifeQueue DEF LifeInv, StartsFirst, Is, Moves, QueueCurrent, Shutting, Life!UnderWay, Life!Ids,
      Life!Busy, Life!Stale
<1>7. TagFollows' /\ RecordOpen'
  BY <1>1, <1>A, LifeSids DEF LifeInv, TagFollows, Enrolls, Odd, Is, Moves, RecordOpen, Enrolling, ClosedNow,
      Life!Stale, Shutting, Life!UnderWay, Life!Ids, Life!Busy
<1>8. RenamesQueued' /\ RenamesAwait'
  BY <1>1, <1>A, LifeQueue, LifeFields DEF LifeInv, Moves, RenamesQueued, Renaming, Is,
      RenamesAwait, Life!Stale, Unapplied
<1>9. RenamesCurrent'
  BY <1>1, <1>A, LifeSids DEF LifeInv, RenamesCurrent, Steady, Renaming, Unapplied, Pending, Is, Shutting,
      Life!UnderWay, Life!Ids, Life!Busy, Life!Stale, Moves
<1>10. NameFollows'
  <2>1. Steady' => Steady
    BY <1>1 DEF Steady, Shutting, Life!UnderWay, Life!Ids, Life!Busy, Moves
  <2>2. \A d \in DOMAIN calls : /\ calls'[d].name = calls[d].name /\ (d # c => calls'[d] = calls[d])
                                /\ (Pending(d)' => Pending(d) /\ d # c) /\ (Enrolling(d)' => Enrolling(d))
    BY <1>1 DEF Pending, Is, Life!Stale, Moves, Enrolling, Enrolls
  <2>3. ASSUME Steady', NEW e \in DOMAIN calls, Life!Last(e), calls[e].name > 0 PROVE Named(e)'
    <3>1. Named(e) /\ Steady /\ calls[e].kind = "rename" /\ ~Life!Stale(e)
      BY <2>1, <2>3 DEF LifeInv, NameFollows, Life!Last
    <3>2. CASE Life!Stale(c)
      <4>1. workStartup # 0
        BY <1>1, <3>1, <3>2, LifeQueue, LifeScalars DEF LifeInv, Steady, QueueCurrent
      <4>2. Unapplied(e) /\ e # c
        BY <1>1, <3>1, <4>1 DEF LifeInv, RenamesAwait, Unapplied, Is
      <4> QED BY <1>1, <2>2, <3>1, <4>2 DEF Named, Settles, Unapplied, Is, Moves
    <3>3. CASE ~Life!Stale(c)
      <4>1. calls[c].sid = session /\ Pending(c) /\ record[session].state = "open"
        BY <1>1, <1>A, <3>1, <3>3 DEF LifeInv, RenamesCurrent, Renaming, Pending, Is
      <4>2. CASE e = c
        <5>1. ASSUME NEW d \in DOMAIN calls, Pending(d), d # c PROVE FALSE
          <6>1. c < d
            BY <1>1, <5>1, LifeQueue, LifeScalars DEF LifeInv, QueueKnown, RenamesQueued, Pending,
                Renaming, Is, Waits
          <6> QED BY <2>3, <4>2, <5>1, <6>1, LifeScalars DEF Life!Last, Life!Ids, Pending, Is
        <5> QED BY <1>1, <1>A, <2>2, <3>1, <4>1, <4>2, <5>1 DEF Named, Settles, Moves
      <4>3. CASE e # c
        BY <1>1, <1>A, <2>2, <3>1, <4>1, <4>3 DEF Named, Settles, Is, Moves
      <4> QED BY <4>2, <4>3
    <3> QED BY <3>2, <3>3
  <2> QED BY <1>1, <2>2, <2>3, LastStays DEF NameFollows, Moves
<1> QED BY <1>2, <1>3, <1>4, <1>5, <1>6, <1>7, <1>8, <1>9, <1>10 DEF LifeInv

LEMMA BindsKeeps ==
  ASSUME LifeInv, NEW c \in DOMAIN calls, Life!Settled, calls[c].kind \in {"start", "adopt"},
         calls[c].at = "window", Life!Turn(c),
         lifeTag' = calls[c].sid, Life!Resolves(c, "managed"), UNCHANGED <<record, spoiled>>,
         UNCHANGED <<files, Life!pi, generation, Life!workSession, finalization, workStartup, finished>>
  PROVE  LifeInv'
<1>1. /\ Moves(c, "resolved") /\ calls'[c].got = "managed" /\ QueueMoves(c)
      /\ calls[c].kind \in {"start", "adopt"} /\ calls[c].at = "window"
      /\ Quiet /\ lifeTag' = calls[c].sid
      /\ calls'[c].sid = calls[c].sid
      /\ UNCHANGED <<files, record, session, name, generation, managed, finalization,
                    workStartup, finished, spoiled>>
  BY CallResolves DEF LifeInv, LifeTypeOK, CallStates, Outcomes, Life!pi, Life!workSession, Life!Then, Life!Ends, Life!Turn, Quiet,
      Life!Settled, Life!Ids
<1>Y. calls' \in Seq(CallSet) /\ cached' \in RecordSet /\ transitions' \in Seq(Nat)
  BY CallResolves DEF LifeInv, LifeTypeOK, CallStates, Outcomes, Life!pi, Life!workSession, Life!Then, Life!Ends, Life!Turn, Quiet,
      Life!Settled, Life!Ids
<1>M. spoiled \/ \A d \in DOMAIN calls : ~Enrolls(d) /\ ~Is(d, "start", {"release"}) /\ ~Is(d, "shutdown", {"released"})
  BY <1>1 DEF LifeInv, Quiet, Enrolls, Is, OneStart, Life!Busy, AdoptsCurrent
<1>K. \A i \in DOMAIN transitions' : /\ i + 1 \in DOMAIN transitions /\ transitions'[i] = transitions[i + 1]
                                     /\ calls'[transitions[i + 1]] = calls[transitions[i + 1]] /\ transitions[i + 1] # c
  BY <1>1, LifeQueue DEF LifeInv, QueueKnown, QueueMoves, Moves
<1>2. LifeTypeOK'
  BY <1>1, <1>M, <1>Y, LifeFields DEF LifeInv, LifeTypeOK, Moves
<1>3. CallsKnown'
  BY <1>1, <1>M DEF LifeInv, CallsKnown, CallStates, Moves
<1>4. QueueKnown'
  BY <1>1, QueueTaken
<1>5. ClosedStays' /\ ErrorsSpoil' /\ OneStart' /\ OneShutdown'
  BY <1>1, <1>M DEF LifeInv, ClosedStays, ClosedNow, Moves, ErrorsSpoil, OneStart, Shutting, Life!UnderWay,
      Life!Ids, Life!Busy, Life!Stale, OneShutdown, Is
<1>6. AdoptsCurrent' /\ ManagedCurrent' /\ ClosesCurrent' /\ AdoptsAfterStart'
  BY <1>1, <1>M DEF LifeInv, AdoptsCurrent, Life!Busy, Shutting, Life!UnderWay, Life!Ids, Moves, ManagedCurrent,
      Life!Stale, ClosesCurrent, AdoptsAfterStart, Is
<1>7. StartsFirst'
  BY <1>1, <1>M, <1>K, LifeQueue DEF LifeInv, StartsFirst, Is, Moves, QueueMoves
<1>8. QueueCurrent'
  BY <1>1, QueueCurrentTaken
<1>9. TagFollows' /\ RecordOpen'
  BY <1>1, <1>M DEF LifeInv, TagFollows, Enrolls, Odd, Is, Moves, RecordOpen, Enrolling, ClosedNow, Life!Stale,
      Shutting, Life!UnderWay, Life!Ids, Life!Busy
<1>10. RenamesQueued' /\ RenamesAwait'
  BY <1>1, <1>M, <1>K, LifeQueue DEF LifeInv, Moves, RenamesQueued, Renaming, Is, QueueMoves,
      RenamesAwait, Life!Stale, Unapplied
<1>11. RenamesCurrent'
  BY <1>1, <1>M DEF LifeInv, RenamesCurrent, Steady, Renaming, Unapplied, Pending, Is, Shutting, Life!UnderWay,
      Life!Ids, Life!Busy, Life!Stale, Moves
<1>12. NameFollows'
  BY <1>1, <1>M, LastStays DEF LifeInv, Steady, Renaming, Unapplied, Pending, Is, Shutting, Life!UnderWay,
      Life!Ids, Life!Busy, Life!Stale, Moves, NameFollows, Named, Settles, Enrolling, Enrolls
<1> QED BY <1>2, <1>3, <1>4, <1>5, <1>6, <1>7, <1>8, <1>9, <1>10, <1>11, <1>12 DEF LifeInv

LEMMA WindowRenamedKeeps ==
  ASSUME LifeInv, NEW c \in DOMAIN calls, calls[c].kind = "rename", calls[c].at = "window", Life!Turn(c),
         Life!Resolves(c, "done"), UNCHANGED <<lifeTag, record, spoiled>>,
         UNCHANGED <<files, Life!pi, generation, Life!workSession, finalization, workStartup, finished>>
  PROVE  LifeInv'
<1>1. /\ Moves(c, "resolved") /\ calls'[c].got = "done" /\ QueueMoves(c) /\ calls[c].kind = "rename"
      /\ calls[c].at = "window"
      /\ calls'[c].sid = calls[c].sid
      /\ UNCHANGED <<files, record, lifeTag, session, name, generation, managed,
                    finalization, workStartup, finished, spoiled>>
  BY CallResolves DEF LifeInv, LifeTypeOK, CallStates, Outcomes, Life!pi, Life!workSession, Life!Then, Life!Ends, Life!Turn
<1>Y. calls' \in Seq(CallSet) /\ cached' \in RecordSet /\ transitions' \in Seq(Nat)
  BY CallResolves DEF LifeInv, LifeTypeOK, CallStates, Outcomes, Life!pi, Life!workSession, Life!Then, Life!Ends, Life!Turn
<1>K. \A i \in DOMAIN transitions' : /\ i + 1 \in DOMAIN transitions /\ transitions'[i] = transitions[i + 1]
                                     /\ calls'[transitions[i + 1]] = calls[transitions[i + 1]] /\ transitions[i + 1] # c
  BY <1>1, LifeQueue DEF LifeInv, QueueKnown, QueueMoves, Moves
<1>2. LifeTypeOK'
  BY <1>1, <1>Y DEF LifeInv, LifeTypeOK, Moves
<1>3. CallsKnown'
  BY <1>1 DEF LifeInv, CallsKnown, CallStates, Moves
<1>4. QueueKnown'
  BY <1>1, QueueTaken
<1>5. ClosedStays' /\ ErrorsSpoil' /\ OneStart' /\ OneShutdown'
  BY <1>1 DEF LifeInv, ClosedStays, ClosedNow, Moves, ErrorsSpoil, OneStart, Shutting, Life!UnderWay, Life!Ids,
      Life!Busy, Life!Stale, OneShutdown, Is
<1>6. AdoptsCurrent' /\ ManagedCurrent' /\ ClosesCurrent' /\ AdoptsAfterStart'
  BY <1>1 DEF LifeInv, AdoptsCurrent, Life!Busy, Shutting, Life!UnderWay, Life!Ids, Moves, ManagedCurrent,
      Life!Stale, ClosesCurrent, AdoptsAfterStart, Is
<1>7. StartsFirst'
  BY <1>1, <1>K, LifeQueue DEF LifeInv, StartsFirst, Is, Moves, QueueMoves
<1>8. QueueCurrent'
  BY <1>1, QueueCurrentTaken
<1>9. TagFollows' /\ RecordOpen'
  BY <1>1 DEF LifeInv, TagFollows, Enrolls, Odd, Is, Moves, RecordOpen, Enrolling, ClosedNow, Life!Stale,
      Shutting, Life!UnderWay, Life!Ids, Life!Busy
<1>10. RenamesQueued' /\ RenamesAwait'
  BY <1>1, <1>K, LifeQueue DEF LifeInv, Moves, RenamesQueued, Renaming, Is, QueueMoves,
      RenamesAwait, Life!Stale, Unapplied
<1>11. RenamesCurrent'
  BY <1>1 DEF LifeInv, RenamesCurrent, Steady, Renaming, Unapplied, Pending, Is, Shutting, Life!UnderWay,
      Life!Ids, Life!Busy, Life!Stale, Moves
<1>12. NameFollows'
  BY <1>1, LastStays DEF LifeInv, Steady, Renaming, Unapplied, Pending, Is, Shutting, Life!UnderWay,
      Life!Ids, Life!Busy, Life!Stale, Moves, NameFollows, Named, Settles, Enrolling, Enrolls
<1> QED BY <1>2, <1>3, <1>4, <1>5, <1>6, <1>7, <1>8, <1>9, <1>10, <1>11, <1>12 DEF LifeInv

LEMMA ReleasesKeeps ==
  ASSUME LifeInv, NEW c \in DOMAIN calls, Life!Settled, Life!Releases(c),
         UNCHANGED <<files, Life!pi, generation, Life!workSession, finalization, workStartup, finished>>
  PROVE  LifeInv'
<1>1. /\ Moves(c, "released") /\ QueueMoves(c) /\ calls[c].at = "release" /\ Quiet
      /\ lifeTag' = IF lifeTag = calls[c].sid THEN NoSid ELSE lifeTag
      /\ calls'[c].sid = calls[c].sid /\ calls'[c].got = calls[c].got
      /\ UNCHANGED <<files, record, session, name, generation, managed, finalization,
                    workStartup, finished, spoiled>>
  BY CallGoes DEF LifeInv, LifeTypeOK, CallStates, Life!pi, Life!workSession, Life!Then, Life!Ends, Life!Releases, Life!Released,
      Life!Turn, Quiet, Life!Settled, Life!Ids, QueueMoves
<1>Y. calls' \in Seq(CallSet) /\ cached' \in RecordSet /\ transitions' \in Seq(Nat)
  BY CallGoes DEF LifeInv, LifeTypeOK, CallStates, Life!pi, Life!workSession, Life!Then, Life!Ends, Life!Releases, Life!Released,
      Life!Turn, Quiet, Life!Settled, Life!Ids, QueueMoves
<1>A. calls[c].kind \in {"start", "shutdown"}
  BY <1>1 DEF LifeInv, CallsKnown
<1>B. spoiled \/ \A d \in DOMAIN calls : Odd(d) => d = c /\ calls[c].kind = "start"
  BY <1>1, <1>A, LifeScalars DEF LifeInv, Quiet, Odd, Enrolls, Is, OneStart, OneShutdown, Life!Busy
<1>M. spoiled \/ (lifeTag' = NoSid /\ (calls[c].kind = "start" => managed = NoSid))
  BY <1>1, <1>A, <1>B, LifeScalars DEF LifeInv, Odd, Is, OneStart, OneShutdown, Life!Busy, TagFollows,
      ManagedCurrent
<1>K. \A i \in DOMAIN transitions' : /\ i + 1 \in DOMAIN transitions /\ transitions'[i] = transitions[i + 1]
                                     /\ calls'[transitions[i + 1]] = calls[transitions[i + 1]] /\ transitions[i + 1] # c
  BY <1>1, LifeQueue DEF LifeInv, QueueKnown, QueueMoves, Moves
<1>2. LifeTypeOK'
  BY <1>1, <1>M, <1>A, <1>Y DEF LifeInv, LifeTypeOK, Moves
<1>3. CallsKnown'
  BY <1>1, <1>M, <1>A DEF LifeInv, CallsKnown, CallStates, Moves
<1>4. QueueKnown'
  BY <1>1, QueueTaken
<1>5. ClosedStays' /\ ErrorsSpoil' /\ OneStart' /\ OneShutdown'
  BY <1>1, <1>M, <1>A DEF LifeInv, ClosedStays, ClosedNow, Moves, ErrorsSpoil, OneStart, Shutting,
      Life!UnderWay, Life!Ids, Life!Busy, Life!Stale, OneShutdown, Is
<1>6. AdoptsCurrent' /\ ManagedCurrent' /\ ClosesCurrent' /\ AdoptsAfterStart'
  BY <1>1, <1>M, <1>A DEF LifeInv, AdoptsCurrent, Life!Busy, Shutting, Life!UnderWay, Life!Ids, Moves,
      ManagedCurrent, Life!Stale, ClosesCurrent, AdoptsAfterStart, Is
<1>7. StartsFirst'
  BY <1>1, <1>M, <1>A, <1>K, LifeQueue DEF LifeInv, StartsFirst, Is, Moves, QueueMoves
<1>8. QueueCurrent'
  BY <1>1, QueueCurrentTaken
<1>9. TagFollows' /\ RecordOpen'
  BY <1>1, <1>M, <1>A, <1>B DEF LifeInv, TagFollows, Enrolls, Odd, Is, Moves, RecordOpen, Enrolling, ClosedNow,
      Life!Stale, Shutting, Life!UnderWay, Life!Ids, Life!Busy
<1>10. RenamesQueued' /\ RenamesAwait'
  BY <1>1, <1>M, <1>A, <1>K, LifeQueue DEF LifeInv, Moves, RenamesQueued, Renaming, Is, QueueMoves,
      RenamesAwait, Life!Stale, Unapplied
<1>11. RenamesCurrent'
  BY <1>1, <1>M, <1>A DEF LifeInv, RenamesCurrent, Steady, Renaming, Unapplied, Pending, Is, Shutting,
      Life!UnderWay, Life!Ids, Life!Busy, Life!Stale, Moves
<1>12. NameFollows'
  BY <1>1, <1>M, <1>A, LastStays DEF LifeInv, Steady, Renaming, Unapplied, Pending, Is, Shutting,
      Life!UnderWay, Life!Ids, Life!Busy, Life!Stale, Moves, NameFollows, Named, Settles, Enrolling, Enrolls
<1> QED BY <1>2, <1>3, <1>4, <1>5, <1>6, <1>7, <1>8, <1>9, <1>10, <1>11, <1>12 DEF LifeInv

-----------------------------------------------------------------------------
(* The events. *)

LEMMA SessionStartKeeps ==
  ASSUME LifeInv, Life!Settled, NEW s \in Sids, NEW m \in Nat, Life!SessionStart(s, m)
  PROVE  LifeInv'
<1> DEFINE n == Len(calls) + 1
             r == [Life!Call("start", s, "queued") EXCEPT !.gen = generation + 1, !.name = m]
<1>R. /\ r \in CallSet /\ r.kind = "start" /\ r.sid = s /\ r.gen = generation + 1 /\ r.name = m
      /\ r.at = "queued" /\ r.got = "none"
  <2> DEFINE q == Life!Call("start", s, "queued")
  <2>1. /\ q \in CallSet /\ q.kind = "start" /\ q.sid = s /\ q.at = "queued" /\ q.got = "none"
    BY LifeScalars DEF LifeInv, LifeTypeOK, CallSet, CallStates, Outcomes, Life!Call
  <2> DEFINE g == generation + 1
  <2>2. g \in Nat
    BY LifeScalars
  <2> HIDE DEF q, g
  <2>3. LET x == [q EXCEPT !.gen = g, !.name = m] IN
        /\ x \in CallSet /\ x.kind = "start" /\ x.sid = s /\ x.gen = g /\ x.name = m
        /\ x.at = "queued" /\ x.got = "none"
    BY <2>1, <2>2 DEF CallSet
  <2> QED BY <2>3 DEF q, g
<1>C. calls' = Append(calls, r) /\ Life!queue(n)
  BY DEF Life!SessionStart
<1>1. /\ n \in Nat \ {0} /\ n \notin DOMAIN calls /\ DOMAIN calls' = DOMAIN calls \cup {n}
      /\ (\A d \in DOMAIN calls : d < n /\ calls'[d] = calls[d]) /\ calls'[n] = r
  BY <1>C, <1>R, CallAdded DEF LifeInv, LifeTypeOK, Grows
<1>2. QueueGrows(n)
  BY <1>1, <1>C, Queues DEF LifeInv, LifeTypeOK
<1>Y. calls' \in Seq(CallSet) /\ cached' \in RecordSet /\ transitions' \in Seq(Nat)
  <2>1. calls' \in Seq(CallSet) /\ transitions' \in Seq(Nat)
    BY <1>1, <1>C, <1>R, CallAdded, Queues DEF LifeInv, LifeTypeOK
  <2>2. cached' \in RecordSet
    BY LifeFields DEF LifeInv, LifeTypeOK, RecordSet, Life!NoRecord, Life!workSession, Life!Manages, Life!SessionStart
  <2> QED BY <2>1, <2>2
<1>3. /\ session = NoSid /\ session' = s /\ name' = m /\ generation' = generation + 1 /\ workStartup' = n
      /\ Quiet /\ spoiled' = (spoiled \/ Life!Adopting)
      /\ UNCHANGED <<files, record, lifeTag, managed, finalization, finished>>
  BY DEF Life!SessionStart, Life!Calls, Life!pi, Life!workSession, Quiet, Life!Settled, Life!Ids
<1>4. /\ calls'[n].kind = "start" /\ calls'[n].sid = s /\ calls'[n].gen = generation'
      /\ calls'[n].name = name' /\ calls'[n].at = "queued" /\ calls'[n].got = "none"
  BY <1>1, <1>3, <1>R
<1> HIDE DEF n, r
<1>A. /\ spoiled' \in BOOLEAN /\ (~spoiled' => ~spoiled)
      /\ ~spoiled' => \A d \in DOMAIN calls : ~(Life!Busy(d) /\ calls[d].kind = "adopt")
  BY <1>3 DEF LifeInv, LifeTypeOK, Life!Adopting, Life!UnderWay, Life!Ids
<1>M. /\ \A d \in DOMAIN calls : calls[d].gen # generation' /\ ~Unapplied(d)
      /\ workStartup = 0 /\ (\A d \in DOMAIN calls : Life!Busy(d) => calls[d].kind \notin {"start", "shutdown"})
      /\ spoiled' \/ managed = NoSid
  BY <1>1, <1>3, <1>A, LifeScalars, LifeFields DEF LifeInv, CallsKnown, OneStart, Quiet, Unapplied, Is,
      ManagedCurrent,
      Shutting, Life!UnderWay, Life!Ids
<1>5. LifeTypeOK'
  BY <1>1, <1>2, <1>3, <1>4, <1>M, <1>A, <1>Y, LifeScalars DEF LifeInv, LifeTypeOK
<1>6. QueueKnown'
  BY <1>1, <1>2, <1>3, <1>4, <1>M, <1>A DEF LifeInv, QueueKnown, Waits, QueueGrows
<1>7. CallsKnown'
  <2>1. generation' \in Nat /\ generation <= generation'
    BY <1>3, LifeScalars
  <2>2. \A d \in DOMAIN calls : calls'[d].gen <= generation'
    BY <1>1, <2>1, LifeScalars, LifeFields DEF LifeInv, CallsKnown
  <2>3. calls'[n].gen <= generation'
    BY <1>3, <1>4, <2>1, LifeScalars
  <2> QED BY <1>1, <1>3, <1>4, <2>1, <2>2, <2>3, LifeScalars DEF LifeInv, CallsKnown, CallStates
<1>8. ClosedStays' /\ ErrorsSpoil' /\ OneStart' /\ OneShutdown'
  BY <1>1, <1>2, <1>3, <1>4, <1>M, <1>A, LifeScalars DEF LifeInv, ClosedStays, ClosedNow, ErrorsSpoil, OneStart,
      Shutting, Life!UnderWay, Life!Ids, Life!Busy, Life!Stale, OneShutdown, Is
<1>9. AdoptsCurrent' /\ ManagedCurrent' /\ ClosesCurrent' /\ AdoptsAfterStart'
  BY <1>1, <1>2, <1>3, <1>4, <1>M, <1>A DEF LifeInv, AdoptsCurrent, Life!Busy, Shutting, Life!UnderWay,
      Life!Ids, ManagedCurrent, Life!Stale, ClosesCurrent, AdoptsAfterStart, Is
<1>10. StartsFirst' /\ QueueCurrent'
  BY <1>1, <1>2, <1>3, <1>4, <1>M, <1>A, LifeQueue DEF LifeInv, StartsFirst, Is, QueueGrows, Life!Busy,
      QueueCurrent, Shutting, Life!UnderWay, Life!Ids, Life!Stale
<1>11. TagFollows' /\ RecordOpen'
  BY <1>1, <1>2, <1>3, <1>4, <1>M, <1>A DEF LifeInv, TagFollows, Enrolls, Odd, Is, RecordOpen, Enrolling,
      ClosedNow, Life!Stale, Shutting, Life!UnderWay, Life!Ids, Life!Busy
<1>12. RenamesQueued' /\ RenamesAwait'
  BY <1>1, <1>2, <1>3, <1>4, <1>M, <1>A, LifeQueue DEF LifeInv, RenamesQueued, Renaming, Is,
      QueueGrows, RenamesAwait, Life!Stale, Unapplied
<1>13. RenamesCurrent'
  BY <1>1, <1>2, <1>3, <1>4, <1>M, <1>A DEF LifeInv, RenamesCurrent, Steady, Renaming, Unapplied, Pending, Is,
      Shutting, Life!UnderWay, Life!Ids, Life!Busy, Life!Stale
<1>14. NameFollows'
  BY <1>1, <1>2, <1>3, <1>4, <1>M, <1>A DEF LifeInv, Steady, Renaming, Unapplied, Pending, Is,
      Shutting, Life!UnderWay, Life!Ids, Life!Busy, Life!Stale, NameFollows, Named, Settles, Life!Last, Enrolling, Enrolls
<1> QED BY <1>5, <1>6, <1>7, <1>8, <1>9, <1>10, <1>11, <1>12, <1>13, <1>14 DEF LifeInv

LEMMA SessionShutdownKeeps ==
  ASSUME LifeInv, Life!Settled, Life!SessionShutdown
  PROVE  LifeInv'
<1> DEFINE n == Len(calls) + 1
             r == [kind |-> "shutdown", sid |-> NoSid, gen |-> generation, name |-> name, was |-> name, snap |-> cached,
                   at |-> "awaitStartup", got |-> "none"]
<1>R. r \in CallSet
  BY LifeScalars DEF LifeInv, LifeTypeOK, CallSet, CallStates, Outcomes
<1>C. calls' = Append(calls, r)
  BY DEF Life!SessionShutdown, Life!Calls, Life!Call
<1>1. /\ n \in Nat \ {0} /\ n \notin DOMAIN calls /\ DOMAIN calls' = DOMAIN calls \cup {n}
      /\ (\A d \in DOMAIN calls : d < n /\ calls'[d] = calls[d]) /\ calls'[n] = r
  BY <1>C, <1>R, CallAdded DEF LifeInv, LifeTypeOK, Grows
<1>Y. calls' \in Seq(CallSet) /\ cached' \in RecordSet
  <2>1. calls' \in Seq(CallSet)
    BY <1>1, <1>C, <1>R, CallAdded, Queues DEF LifeInv, LifeTypeOK
  <2>2. cached' \in RecordSet
    BY LifeFields DEF LifeInv, LifeTypeOK, RecordSet, Life!NoRecord, Life!workSession, Life!Manages, Life!SessionShutdown
  <2> QED BY <2>1, <2>2
<1>3. /\ session # NoSid /\ ~Life!UnderWay("shutdown") /\ generation' = generation + 1
      /\ Quiet /\ spoiled' = (spoiled \/ Life!Adopting)
      /\ UNCHANGED <<files, record, lifeTag, session, name, managed, transitions,
                    finalization, workStartup, finished>>
  BY DEF Life!SessionShutdown, Life!Calls, Life!pi, Life!workSession, Quiet, Life!Settled, Life!Ids
<1>4. /\ calls'[n].kind = "shutdown" /\ calls'[n].sid = NoSid /\ calls'[n].gen = generation
      /\ calls'[n].name = name /\ calls'[n].at = "awaitStartup" /\ calls'[n].got = "none"
  BY <1>1
<1> HIDE DEF n, r
<1>A. /\ spoiled' \in BOOLEAN /\ (~spoiled' => ~spoiled)
      /\ ~spoiled' => \A d \in DOMAIN calls : ~(Life!Busy(d) /\ calls[d].kind = "adopt")
  BY <1>3 DEF LifeInv, LifeTypeOK, Life!Adopting, Life!UnderWay, Life!Ids
<1>M. /\ \A d \in DOMAIN calls : calls[d].gen # generation'
      /\ Shutting'
  BY <1>1, <1>3, <1>4, <1>A, LifeScalars, LifeFields DEF LifeInv, CallsKnown, Shutting, Life!UnderWay, Life!Ids,
      Life!Busy
<1>2. LifeTypeOK'
  BY <1>1, <1>3, <1>4, <1>M, <1>A, <1>Y DEF LifeInv, LifeTypeOK
<1>5. QueueKnown'
  BY <1>1, <1>3, <1>4, <1>M, <1>A DEF LifeInv, QueueKnown, Waits
<1>6. CallsKnown'
  <2>1. generation' \in Nat /\ generation <= generation'
    BY <1>3, LifeScalars
  <2>2. \A d \in DOMAIN calls : calls'[d].gen <= generation'
    BY <1>1, <2>1, LifeScalars, LifeFields DEF LifeInv, CallsKnown
  <2>3. calls'[n].gen <= generation'
    BY <1>3, <1>4, <2>1, LifeScalars
  <2> QED BY <1>1, <1>3, <1>4, <2>1, <2>2, <2>3, LifeScalars DEF LifeInv, CallsKnown, CallStates
<1>7. ClosedStays' /\ ErrorsSpoil' /\ OneStart' /\ OneShutdown'
  BY <1>1, <1>3, <1>4, <1>M, <1>A DEF LifeInv, ClosedStays, ClosedNow, ErrorsSpoil, OneStart, Shutting,
      Life!UnderWay, Life!Ids, Life!Busy, Life!Stale, OneShutdown, Is
<1>8. AdoptsCurrent' /\ ManagedCurrent' /\ ClosesCurrent' /\ AdoptsAfterStart'
  BY <1>1, <1>3, <1>4, <1>M, <1>A DEF LifeInv, AdoptsCurrent, Life!Busy, Shutting, Life!UnderWay, Life!Ids,
      ManagedCurrent, Life!Stale, ClosesCurrent, AdoptsAfterStart, Is
<1>9. StartsFirst' /\ QueueCurrent'
  BY <1>1, <1>3, <1>4, <1>M, <1>A, LifeQueue DEF LifeInv, StartsFirst, Is, QueueCurrent, Shutting,
      Life!UnderWay, Life!Ids, Life!Busy, Life!Stale
<1>10. TagFollows' /\ RecordOpen'
  BY <1>1, <1>3, <1>4, <1>M, <1>A DEF LifeInv, TagFollows, Enrolls, Odd, Is, RecordOpen, Enrolling, ClosedNow,
      Life!Stale, Shutting, Life!UnderWay, Life!Ids, Life!Busy
<1>11. RenamesQueued' /\ RenamesAwait'
  BY <1>1, <1>3, <1>4, <1>M, <1>A, LifeQueue DEF LifeInv, RenamesQueued, Renaming, Is,
      RenamesAwait, Life!Stale, Unapplied
<1>12. RenamesCurrent'
  BY <1>1, <1>3, <1>4, <1>M, <1>A DEF LifeInv, RenamesCurrent, Steady, Renaming, Unapplied, Pending, Is,
      Shutting, Life!UnderWay, Life!Ids, Life!Busy, Life!Stale
<1>13. NameFollows'
  BY <1>1, <1>3, <1>4, <1>M, <1>A DEF LifeInv, Steady, Renaming, Unapplied, Pending, Is,
      Shutting, Life!UnderWay, Life!Ids, Life!Busy, Life!Stale, NameFollows, Named, Settles, Life!Last, Enrolling, Enrolls
<1> QED BY <1>2, <1>5, <1>6, <1>7, <1>8, <1>9, <1>10, <1>11, <1>12, <1>13 DEF LifeInv

LEMMA SessionInfoChangedKeeps ==
  ASSUME LifeInv, Life!Settled, NEW m \in Nat, Life!SessionInfoChanged(m)
  PROVE  LifeInv'
<1> DEFINE n == Len(calls) + 1
             r == [Life!Call("rename", NoSid, "awaitStartup") EXCEPT !.name = m]
<1>R. /\ r \in CallSet /\ r.kind = "rename" /\ r.sid = NoSid /\ r.gen = generation /\ r.name = m
      /\ r.at = "awaitStartup" /\ r.got = "none"
  <2> DEFINE q == Life!Call("rename", NoSid, "awaitStartup")
  <2>1. q \in CallSet /\ q.kind = "rename" /\ q.sid = NoSid /\ q.at = "awaitStartup" /\ q.got = "none" /\ q.gen = generation
    BY LifeScalars DEF LifeInv, LifeTypeOK, CallSet, CallStates, Outcomes, Life!Call
  <2> HIDE DEF q
  <2>2. LET x == [q EXCEPT !.name = m] IN
        /\ x \in CallSet /\ x.kind = "rename" /\ x.sid = NoSid /\ x.gen = generation /\ x.name = m
        /\ x.at = "awaitStartup" /\ x.got = "none"
    BY <2>1 DEF CallSet
  <2> QED BY <2>2 DEF q
<1>C. calls' = Append(calls, r)
  BY DEF Life!SessionInfoChanged, Life!Calls, Life!Call
<1>1. /\ n \in Nat \ {0} /\ n \notin DOMAIN calls /\ DOMAIN calls' = DOMAIN calls \cup {n}
      /\ (\A d \in DOMAIN calls : d < n /\ calls'[d] = calls[d]) /\ calls'[n] = r
  BY <1>C, <1>R, CallAdded DEF LifeInv, LifeTypeOK, Grows
<1>Y. calls' \in Seq(CallSet) /\ cached' \in RecordSet
  <2>1. calls' \in Seq(CallSet)
    BY <1>1, <1>C, <1>R, CallAdded, Queues DEF LifeInv, LifeTypeOK
  <2>2. cached' \in RecordSet
    BY LifeFields DEF LifeInv, LifeTypeOK, RecordSet, Life!NoRecord, Life!workSession, Life!Manages, Life!SessionInfoChanged
  <2> QED BY <2>1, <2>2
<1>3. /\ session # NoSid /\ name' = m
      /\ Quiet /\ spoiled' = (spoiled \/ Life!Adopting)
      /\ UNCHANGED <<files, record, lifeTag, session, generation, managed, transitions, finalization,
                    workStartup, finished>>
  BY DEF Life!SessionInfoChanged, Life!Calls, Life!pi, Life!workSession, Quiet, Life!Settled, Life!Ids
<1>4. /\ calls'[n].kind = "rename" /\ calls'[n].sid = NoSid /\ calls'[n].gen = generation
      /\ calls'[n].name = m /\ calls'[n].at = "awaitStartup" /\ calls'[n].got = "none"
  BY <1>1, <1>R
<1> HIDE DEF n, r
<1>A. /\ spoiled' \in BOOLEAN /\ (~spoiled' => ~spoiled)
      /\ ~spoiled' => \A d \in DOMAIN calls : ~(Life!Busy(d) /\ calls[d].kind = "adopt")
  BY <1>3 DEF LifeInv, LifeTypeOK, Life!Adopting, Life!UnderWay, Life!Ids
<1>2. LifeTypeOK'
  BY <1>1, <1>3, <1>4, <1>A, <1>Y DEF LifeInv, LifeTypeOK
<1>5. QueueKnown'
  BY <1>1, <1>3, <1>4, <1>A DEF LifeInv, QueueKnown, Waits
<1>6. CallsKnown'
  <2>1. generation' \in Nat /\ generation <= generation'
    BY <1>3, LifeScalars
  <2>2. \A d \in DOMAIN calls : calls'[d].gen <= generation'
    BY <1>1, <2>1, LifeScalars, LifeFields DEF LifeInv, CallsKnown
  <2>3. calls'[n].gen <= generation'
    BY <1>3, <1>4, <2>1, LifeScalars
  <2> QED BY <1>1, <1>3, <1>4, <2>1, <2>2, <2>3, LifeScalars DEF LifeInv, CallsKnown, CallStates
<1>7. ClosedStays' /\ ErrorsSpoil' /\ OneStart' /\ OneShutdown'
  BY <1>1, <1>3, <1>4, <1>A DEF LifeInv, ClosedStays, ClosedNow, ErrorsSpoil, OneStart, Shutting,
      Life!UnderWay, Life!Ids, Life!Busy, Life!Stale, OneShutdown, Is
<1>8. AdoptsCurrent' /\ ManagedCurrent' /\ ClosesCurrent' /\ AdoptsAfterStart'
  BY <1>1, <1>3, <1>4, <1>A DEF LifeInv, AdoptsCurrent, Life!Busy, Shutting, Life!UnderWay, Life!Ids,
      ManagedCurrent, Life!Stale, ClosesCurrent, AdoptsAfterStart, Is
<1>9. StartsFirst' /\ QueueCurrent'
  BY <1>1, <1>3, <1>4, <1>A, LifeQueue DEF LifeInv, StartsFirst, Is, QueueCurrent, Shutting,
      Life!UnderWay, Life!Ids, Life!Busy, Life!Stale
<1>10. TagFollows' /\ RecordOpen'
  BY <1>1, <1>3, <1>4, <1>A DEF LifeInv, TagFollows, Enrolls, Odd, Is, RecordOpen, Enrolling, ClosedNow,
      Life!Stale, Shutting, Life!UnderWay, Life!Ids, Life!Busy
<1>11. RenamesQueued' /\ RenamesAwait'
  BY <1>1, <1>3, <1>4, <1>A, LifeFields, LifeScalars, LifeQueue DEF LifeInv, RenamesQueued,
      Renaming, Is, RenamesAwait, Life!Stale, Unapplied
<1>12. RenamesCurrent'
  BY <1>1, <1>3, <1>4, <1>A, LifeFields, LifeScalars DEF LifeInv, RenamesCurrent, Steady, Renaming,
      Unapplied, Pending, Is, Shutting, Life!UnderWay, Life!Ids, Life!Busy, Life!Stale
<1>13. NameFollows'
  BY <1>1, <1>3, <1>4, <1>A, LifeFields, LifeScalars DEF LifeInv, Steady, Renaming,
      Unapplied, Pending, Is, Shutting, Life!UnderWay, Life!Ids, Life!Busy, Life!Stale, NameFollows,
      Named, Settles, Life!Last, Enrolling, Enrolls
<1> QED BY <1>2, <1>5, <1>6, <1>7, <1>8, <1>9, <1>10, <1>11, <1>12, <1>13 DEF LifeInv

LEMMA AgentEndKeeps ==
  ASSUME LifeInv, Life!Settled, Life!AgentEnd
  PROVE  LifeInv'
<1> DEFINE n == Len(calls) + 1
             r == [kind |-> "refresh", sid |-> managed, gen |-> generation, name |-> name, was |-> name, snap |-> cached,
                   at |-> "queued", got |-> "none"]
<1>R. r \in CallSet
  BY LifeScalars DEF LifeInv, LifeTypeOK, CallSet, CallStates, Outcomes
<1>C. calls' = Append(calls, r) /\ Life!queue(n)
  BY DEF Life!AgentEnd, Life!Calls, Life!Call
<1>1. /\ n \in Nat \ {0} /\ n \notin DOMAIN calls /\ DOMAIN calls' = DOMAIN calls \cup {n}
      /\ (\A d \in DOMAIN calls : d < n /\ calls'[d] = calls[d]) /\ calls'[n] = r
  BY <1>C, <1>R, CallAdded DEF LifeInv, LifeTypeOK, Grows
<1>2. QueueGrows(n)
  BY <1>1, <1>C, Queues DEF LifeInv, LifeTypeOK
<1>Y. calls' \in Seq(CallSet) /\ cached' \in RecordSet /\ transitions' \in Seq(Nat)
  BY <1>1, <1>C, <1>R, CallAdded, Queues DEF LifeInv, LifeTypeOK, Life!AgentEnd, Life!finalize, Life!workSession
<1>3. managed # NoSid
      /\ UNCHANGED <<record, lifeTag, session, name, generation, managed, finalization,
                    workStartup, finished, spoiled>>
  BY DEF Life!AgentEnd, Life!Calls, Life!pi, Life!workSession, Quiet, Life!Settled, Life!Ids
<1>4. /\ calls'[n].kind = "refresh" /\ calls'[n].sid = managed /\ calls'[n].gen = generation
      /\ calls'[n].name = name /\ calls'[n].at = "queued" /\ calls'[n].got = "none"
  BY <1>1
<1> HIDE DEF n, r
<1>5. LifeTypeOK'
  BY <1>1, <1>2, <1>3, <1>4, <1>Y DEF LifeInv, LifeTypeOK
<1>6. QueueKnown'
  BY <1>1, <1>2, <1>3, <1>4 DEF LifeInv, QueueKnown, Waits, QueueGrows
<1>7. CallsKnown'
  <2>1. generation' \in Nat /\ generation <= generation'
    BY <1>3, LifeScalars
  <2>2. \A d \in DOMAIN calls : calls'[d].gen <= generation'
    BY <1>1, <2>1, LifeScalars, LifeFields DEF LifeInv, CallsKnown
  <2>3. calls'[n].gen <= generation'
    BY <1>3, <1>4, <2>1, LifeScalars
  <2> QED BY <1>1, <1>3, <1>4, <2>1, <2>2, <2>3, LifeScalars DEF LifeInv, CallsKnown, CallStates
<1>8. ClosedStays' /\ ErrorsSpoil' /\ OneStart' /\ OneShutdown'
  BY <1>1, <1>2, <1>3, <1>4 DEF LifeInv, ClosedStays, ClosedNow, ErrorsSpoil, OneStart, Shutting, Life!UnderWay,
      Life!Ids, Life!Busy, Life!Stale, OneShutdown, Is
<1>9. AdoptsCurrent' /\ ManagedCurrent' /\ ClosesCurrent' /\ AdoptsAfterStart'
  BY <1>1, <1>2, <1>3, <1>4 DEF LifeInv, AdoptsCurrent, Life!Busy, Shutting, Life!UnderWay, Life!Ids,
      ManagedCurrent, Life!Stale, ClosesCurrent, AdoptsAfterStart, Is
<1>10. StartsFirst' /\ QueueCurrent'
  BY <1>1, <1>2, <1>3, <1>4, LifeQueue DEF LifeInv, StartsFirst, Is, QueueGrows, QueueCurrent, Shutting,
      Life!UnderWay, Life!Ids, Life!Busy, Life!Stale
<1>11. TagFollows' /\ RecordOpen'
  BY <1>1, <1>2, <1>3, <1>4 DEF LifeInv, TagFollows, Enrolls, Odd, Is, RecordOpen, Enrolling, ClosedNow,
      Life!Stale, Shutting, Life!UnderWay, Life!Ids, Life!Busy
<1>12. RenamesQueued' /\ RenamesAwait'
  BY <1>1, <1>2, <1>3, <1>4, LifeQueue DEF LifeInv, RenamesQueued, Renaming, Is, QueueGrows,
      RenamesAwait, Life!Stale, Unapplied
<1>13. RenamesCurrent'
  BY <1>1, <1>2, <1>3, <1>4 DEF LifeInv, RenamesCurrent, Steady, Renaming, Unapplied, Pending, Is, Shutting,
      Life!UnderWay, Life!Ids, Life!Busy, Life!Stale
<1>14. NameFollows'
  BY <1>1, <1>2, <1>3, <1>4 DEF LifeInv, Steady, Renaming, Unapplied, Pending, Is, Shutting,
      Life!UnderWay, Life!Ids, Life!Busy, Life!Stale, NameFollows, Named, Settles, Life!Last, Enrolling, Enrolls
<1> QED BY <1>5, <1>6, <1>7, <1>8, <1>9, <1>10, <1>11, <1>12, <1>13, <1>14 DEF LifeInv

LEMMA SessionAdoptKeeps ==
  ASSUME LifeInv, Life!Settled, Life!SessionAdopt
  PROVE  LifeInv'
<1> DEFINE n == Len(calls) + 1
             r == [kind |-> "adopt", sid |-> session, gen |-> generation, name |-> name, was |-> name, snap |-> cached,
                   at |-> "queued", got |-> "none"]
<1>R. r \in CallSet
  BY LifeScalars DEF LifeInv, LifeTypeOK, CallSet, CallStates, Outcomes
<1>C. calls' = Append(calls, r) /\ Life!queue(n)
  BY DEF Life!SessionAdopt, Life!Calls, Life!Call
<1>1. /\ n \in Nat \ {0} /\ n \notin DOMAIN calls /\ DOMAIN calls' = DOMAIN calls \cup {n}
      /\ (\A d \in DOMAIN calls : d < n /\ calls'[d] = calls[d]) /\ calls'[n] = r
  BY <1>C, <1>R, CallAdded DEF LifeInv, LifeTypeOK, Grows
<1>2. QueueGrows(n)
  BY <1>1, <1>C, Queues DEF LifeInv, LifeTypeOK
<1>Y. calls' \in Seq(CallSet) /\ cached' \in RecordSet /\ transitions' \in Seq(Nat)
  <2>1. calls' \in Seq(CallSet) /\ transitions' \in Seq(Nat)
    BY <1>1, <1>C, <1>R, CallAdded, Queues DEF LifeInv, LifeTypeOK
  <2>2. cached' \in RecordSet
    BY LifeFields DEF LifeInv, LifeTypeOK, RecordSet, Life!NoRecord, Life!workSession, Life!Manages, Life!SessionAdopt
  <2> QED BY <2>1, <2>2
<1>3. /\ session # NoSid /\ spoiled' = (spoiled \/ Life!UnderWay("shutdown"))
      /\ UNCHANGED <<files, record, lifeTag, session, name, generation, managed,
                    finalization, workStartup, finished>>
  BY DEF Life!SessionAdopt, Life!Calls, Life!pi, Life!workSession, Quiet, Life!Settled, Life!Ids
<1>4. /\ calls'[n].kind = "adopt" /\ calls'[n].sid = session /\ calls'[n].gen = generation
      /\ calls'[n].name = name /\ calls'[n].at = "queued" /\ calls'[n].got = "none"
  BY <1>1
<1> HIDE DEF n, r
<1>A. /\ spoiled' \in BOOLEAN /\ (~spoiled' => ~spoiled)
      /\ ~spoiled' => \A d \in DOMAIN calls : ~(Life!Busy(d) /\ calls[d].kind = "shutdown")
  BY <1>3 DEF LifeInv, LifeTypeOK, Life!Adopting, Life!UnderWay, Life!Ids
<1>5. LifeTypeOK'
  BY <1>1, <1>2, <1>3, <1>4, <1>A, <1>Y DEF LifeInv, LifeTypeOK
<1>6. QueueKnown'
  BY <1>1, <1>2, <1>3, <1>4, <1>A DEF LifeInv, QueueKnown, Waits, QueueGrows
<1>7. CallsKnown'
  <2>1. generation' \in Nat /\ generation <= generation'
    BY <1>3, LifeScalars
  <2>2. \A d \in DOMAIN calls : calls'[d].gen <= generation'
    BY <1>1, <2>1, LifeScalars, LifeFields DEF LifeInv, CallsKnown
  <2>3. calls'[n].gen <= generation'
    BY <1>3, <1>4, <2>1, LifeScalars
  <2> QED BY <1>1, <1>3, <1>4, <2>1, <2>2, <2>3, LifeScalars DEF LifeInv, CallsKnown, CallStates
<1>8. ClosedStays' /\ ErrorsSpoil' /\ OneStart' /\ OneShutdown'
  BY <1>1, <1>2, <1>3, <1>4, <1>A DEF LifeInv, ClosedStays, ClosedNow, ErrorsSpoil, OneStart, Shutting,
      Life!UnderWay, Life!Ids, Life!Busy, Life!Stale, OneShutdown, Is
<1>9. AdoptsCurrent' /\ ManagedCurrent' /\ ClosesCurrent' /\ AdoptsAfterStart'
  BY <1>1, <1>2, <1>3, <1>4, <1>A DEF LifeInv, AdoptsCurrent, Life!Busy, Shutting, Life!UnderWay, Life!Ids,
      ManagedCurrent, Life!Stale, ClosesCurrent, AdoptsAfterStart, Is
<1>10. StartsFirst' /\ QueueCurrent'
  BY <1>1, <1>2, <1>3, <1>4, <1>A, LifeQueue DEF LifeInv, StartsFirst, Is, QueueGrows, QueueCurrent, Shutting,
      Life!UnderWay, Life!Ids, Life!Busy, Life!Stale
<1>11. TagFollows' /\ RecordOpen'
  BY <1>1, <1>2, <1>3, <1>4, <1>A DEF LifeInv, TagFollows, Enrolls, Odd, Is, RecordOpen, Enrolling, ClosedNow,
      Life!Stale, Shutting, Life!UnderWay, Life!Ids, Life!Busy
<1>12. RenamesQueued' /\ RenamesAwait'
  BY <1>1, <1>2, <1>3, <1>4, <1>A, LifeQueue DEF LifeInv, RenamesQueued, Renaming, Is, QueueGrows,
      RenamesAwait, Life!Stale, Unapplied
<1>13. RenamesCurrent'
  BY <1>1, <1>2, <1>3, <1>4, <1>A DEF LifeInv, RenamesCurrent, Steady, Renaming, Unapplied, Pending, Is,
      Shutting, Life!UnderWay, Life!Ids, Life!Busy, Life!Stale
<1>14. NameFollows'
  BY <1>1, <1>2, <1>3, <1>4, <1>A DEF LifeInv, Steady, Renaming, Unapplied, Pending, Is,
      Shutting, Life!UnderWay, Life!Ids, Life!Busy, Life!Stale, NameFollows, Named, Settles, Life!Last, Enrolling, Enrolls
<1> QED BY <1>5, <1>6, <1>7, <1>8, <1>9, <1>10, <1>11, <1>12, <1>13, <1>14 DEF LifeInv

LEMMA finalizeKeeps ==
  ASSUME LifeInv, Life!Settled, Life!finalize
  PROVE  LifeInv'
<1> DEFINE n == Len(calls) + 1
             r == [kind |-> "close", sid |-> managed, gen |-> generation, name |-> name, was |-> name, snap |-> cached,
                   at |-> "queued", got |-> "none"]
<1>R. r \in CallSet
  BY LifeScalars DEF LifeInv, LifeTypeOK, CallSet, CallStates, Outcomes
<1>C. calls' = Append(calls, r) /\ Life!queue(n)
  BY DEF Life!finalize, Life!Calls, Life!Call
<1>1. /\ n \in Nat \ {0} /\ n \notin DOMAIN calls /\ DOMAIN calls' = DOMAIN calls \cup {n}
      /\ (\A d \in DOMAIN calls : d < n /\ calls'[d] = calls[d]) /\ calls'[n] = r
  BY <1>C, <1>R, CallAdded DEF LifeInv, LifeTypeOK, Grows
<1>2. QueueGrows(n)
  BY <1>1, <1>C, Queues DEF LifeInv, LifeTypeOK
<1>Y. calls' \in Seq(CallSet) /\ cached' \in RecordSet /\ transitions' \in Seq(Nat)
  BY <1>1, <1>C, <1>R, CallAdded, Queues DEF LifeInv, LifeTypeOK, Life!AgentEnd, Life!finalize, Life!workSession
<1>3. managed # NoSid
      /\ UNCHANGED <<files, record, lifeTag, session, name, generation, managed,
                    workStartup, finished, spoiled>>
  BY DEF Life!finalize, Life!Calls, Life!pi, Life!workSession, Quiet, Life!Settled, Life!Ids
<1>4. /\ calls'[n].kind = "close" /\ calls'[n].sid = managed /\ calls'[n].gen = generation
      /\ calls'[n].name = name /\ calls'[n].at = "queued" /\ calls'[n].got = "none"
  BY <1>1
<1> HIDE DEF n, r
<1>M. managed \in Sids /\ (spoiled \/ (managed = session /\ workStartup = 0))
  BY <1>3, LifeScalars DEF LifeInv, ManagedCurrent
<1>5. LifeTypeOK'
  BY <1>1, <1>2, <1>3, <1>4, <1>M, <1>Y DEF LifeInv, LifeTypeOK
<1>6. QueueKnown'
  BY <1>1, <1>2, <1>3, <1>4, <1>M DEF LifeInv, QueueKnown, Waits, QueueGrows
<1>7. CallsKnown'
  <2>1. generation' \in Nat /\ generation <= generation'
    BY <1>3, LifeScalars
  <2>2. \A d \in DOMAIN calls : calls'[d].gen <= generation'
    BY <1>1, <2>1, LifeScalars, LifeFields DEF LifeInv, CallsKnown
  <2>3. calls'[n].gen <= generation'
    BY <1>3, <1>4, <2>1, LifeScalars
  <2> QED BY <1>1, <1>3, <1>4, <2>1, <2>2, <2>3, LifeScalars DEF LifeInv, CallsKnown, CallStates
<1>8. ClosedStays' /\ ErrorsSpoil' /\ OneStart' /\ OneShutdown'
  BY <1>1, <1>2, <1>3, <1>4, <1>M DEF LifeInv, ClosedStays, ClosedNow, ErrorsSpoil, OneStart, Shutting,
      Life!UnderWay, Life!Ids, Life!Busy, Life!Stale, OneShutdown, Is
<1>9. AdoptsCurrent' /\ ManagedCurrent' /\ ClosesCurrent' /\ AdoptsAfterStart'
  BY <1>1, <1>2, <1>3, <1>4, <1>M DEF LifeInv, AdoptsCurrent, Life!Busy, Shutting, Life!UnderWay, Life!Ids,
      ManagedCurrent, Life!Stale, ClosesCurrent, AdoptsAfterStart, Is
<1>10. StartsFirst' /\ QueueCurrent'
  BY <1>1, <1>2, <1>3, <1>4, <1>M, LifeQueue DEF LifeInv, StartsFirst, Is, QueueGrows, QueueCurrent, Shutting,
      Life!UnderWay, Life!Ids, Life!Busy, Life!Stale
<1>11. TagFollows' /\ RecordOpen'
  BY <1>1, <1>2, <1>3, <1>4, <1>M DEF LifeInv, TagFollows, Enrolls, Odd, Is, RecordOpen, Enrolling, ClosedNow,
      Life!Stale, Shutting, Life!UnderWay, Life!Ids, Life!Busy
<1>12. RenamesQueued' /\ RenamesAwait'
  BY <1>1, <1>2, <1>3, <1>4, <1>M, LifeQueue DEF LifeInv, RenamesQueued, Renaming, Is, QueueGrows,
      RenamesAwait, Life!Stale, Unapplied
<1>13. RenamesCurrent'
  BY <1>1, <1>2, <1>3, <1>4, <1>M DEF LifeInv, RenamesCurrent, Steady, Renaming, Unapplied, Pending, Is,
      Shutting, Life!UnderWay, Life!Ids, Life!Busy, Life!Stale
<1>14. NameFollows'
  BY <1>1, <1>2, <1>3, <1>4, <1>M DEF LifeInv, Steady, Renaming, Unapplied, Pending, Is,
      Shutting, Life!UnderWay, Life!Ids, Life!Busy, Life!Stale, NameFollows, Named, Settles, Life!Last, Enrolling, Enrolls
<1> QED BY <1>5, <1>6, <1>7, <1>8, <1>9, <1>10, <1>11, <1>12, <1>13, <1>14 DEF LifeInv

-----------------------------------------------------------------------------
(* Together: every step keeps the invariant, which says what the run checks. *)

LEMMA LifeInit == Life!Init => LifeInv
<1> SUFFICES ASSUME Life!Init PROVE LifeInv
  OBVIOUS
<1>1. calls = <<>> /\ transitions = <<>> /\ DOMAIN calls = {} /\ DOMAIN transitions = {} /\ finished = {}
  BY DEF Life!Init
<1>2. LifeTypeOK
  <2>1. record \in [Sids -> RecordSet]
    BY DEF Life!Init, Life!NoRecord, RecordSet
  <2>2. calls \in Seq(CallSet) /\ transitions \in Seq(Nat)
    BY <1>1
  <2>3. /\ finished \subseteq Sids /\ spoiled \in BOOLEAN /\ lifeTag = NoSid /\ session = NoSid /\ managed = NoSid
        /\ name = 0 /\ generation = 0 /\ workStartup = 0
    BY DEF Life!Init
  <2>4. cached \in RecordSet
    BY DEF Life!Init, Life!NoRecord, RecordSet
  <2> QED BY <2>1, <2>2, <2>3, <2>4 DEF LifeTypeOK
<1>3. CallsKnown
  BY <1>1 DEF Life!Init, CallsKnown, Life!NoRecord
<1>4. QueueKnown /\ ClosedStays /\ OneShutdown /\ ErrorsSpoil /\ AdoptsCurrent /\ ManagedCurrent /\ ClosesCurrent
      /\ AdoptsAfterStart /\ StartsFirst /\ QueueCurrent /\ RenamesQueued /\ RenamesAwait
  BY <1>1 DEF Life!Init, QueueKnown, ClosedStays, OneShutdown, ErrorsSpoil, AdoptsCurrent, ManagedCurrent,
      ClosesCurrent,
      AdoptsAfterStart, StartsFirst, QueueCurrent, RenamesQueued, RenamesAwait
<1>5. OneStart /\ TagFollows /\ RecordOpen /\ RenamesCurrent /\ NameFollows
  BY <1>1 DEF Life!Init, OneStart, TagFollows, RecordOpen, RenamesCurrent, NameFollows, Steady, Shutting,
      Life!UnderWay, Life!Ids
<1> QED BY <1>2, <1>3, <1>4, <1>5 DEF LifeInv

LEMMA OperatesKeeps ==
  ASSUME LifeInv, NEW c \in DOMAIN calls, Life!Settled, Life!Operates(c)
  PROVE  LifeInv'
<1>1. UNCHANGED <<files, Life!pi, generation, Life!workSession, finalization, workStartup, finished>>
  BY DEF Life!Operates
<1>2. ASSUME Life!Turn(c), Life!Fails(c), UNCHANGED lifeTag, calls[c].at = "queued", calls[c].kind # "shutdown" PROVE LifeInv'
  BY <1>1, <1>2, FailureKeeps DEF Life!Fails
<1>3. ASSUME Life!StartCommits(c), UNCHANGED lifeTag PROVE LifeInv'
  <2> DEFINE s == calls[c].sid
             m == s \in files
  <2>1. CASE Life!Fails(c)
    BY <1>2, <1>3, <2>1 DEF Life!StartCommits
  <2>2. CASE Life!Resolves(c, "unmanaged") /\ UNCHANGED <<record, spoiled>>
    BY <1>1, <1>3, <2>2, StartUnmanagedKeeps DEF Life!StartCommits
  <2>3. ASSUME NEW n \in {calls[c].name, name}, record[s].state # "closed",
               Life!Commits(c, Life!Opened(s, IF record[s].name > 0 THEN record[s].name ELSE n, m))
        PROVE  LifeInv'
    <3> DEFINE x == Life!Opened(s, IF record[s].name > 0 THEN record[s].name ELSE n, m)
    <3>1. record[s] \in RecordSet /\ n \in Nat
      BY <1>3, LifeSids, LifeFields, LifeScalars DEF LifeInv, LifeTypeOK, Life!StartCommits
    <3>2. m \in BOOLEAN
      OBVIOUS
    <3> HIDE DEF m
    <3>3. x \in RecordSet /\ x.state = "open"
      BY <3>1, <3>2 DEF RecordSet, Life!Opened
    <3> HIDE DEF x
    <3> QED BY <1>1, <1>3, <2>3, <3>3, StartOpensKeeps DEF Life!StartCommits, x
  <2> QED BY <1>3, <2>1, <2>2, <2>3 DEF Life!StartCommits, Life!findOpenWorkRecord
<1>4. ASSUME Life!AdoptCommits(c), UNCHANGED lifeTag PROVE LifeInv'
  <2>1. CASE Life!Fails(c)
    BY <1>2, <1>4, <2>1 DEF Life!AdoptCommits
  <2>2. CASE ~Life!Fails(c)
    <3> DEFINE s == calls[c].sid
               n == IF calls[c].name > 0 THEN calls[c].name ELSE record[s].name
               x == Life!Opened(s, n, TRUE)
    <3>1. record[s].state # "closed" /\ Life!Commits(c, x)
      BY <1>4, <2>2 DEF Life!AdoptCommits, Life!findOpenWorkRecord
    <3>2. record[s] \in RecordSet
      BY <1>4, LifeSids DEF LifeInv, LifeTypeOK, Life!AdoptCommits
    <3>3. x \in RecordSet /\ x.state = "open" /\ x.name = n
      BY <3>2, LifeFields DEF RecordSet, Life!Opened
    <3> HIDE DEF x
    <3> QED BY <1>1, <1>4, <3>1, <3>3, AdoptOpensKeeps DEF Life!AdoptCommits
  <2> QED BY <2>1, <2>2
<1>5. ASSUME Life!CloseCommits(c), UNCHANGED lifeTag PROVE LifeInv'
  <2> DEFINE s == calls[c].sid
             m == IF record[s].state = "closed" THEN record[s].materialized ELSE calls[c].snap.materialized \/ s \in files
  <2>1. CASE Life!Fails(c)
    BY <1>2, <1>5, <2>1 DEF Life!CloseCommits
  <2>2. CASE ~Life!Fails(c)
    <3>1. /\ calls[c].kind = "close" /\ calls[c].at = "queued" /\ Life!Turn(c) /\ Life!Resolves(c, "done") /\ UNCHANGED spoiled
          /\ record' = [record EXCEPT ![s].state = "closed", ![s].materialized = m]
      BY <1>5, <2>2 DEF Life!CloseCommits
    <3>2. m \in BOOLEAN
      BY <3>1, LifeSids, LifeFields DEF LifeInv, LifeTypeOK, RecordSet
    <3> HIDE DEF m
    <3> QED BY <1>1, <1>5, <3>1, <3>2, CloseDoneKeeps
  <2> QED BY <2>1, <2>2
<1>6. ASSUME Life!RenameCommits(c), UNCHANGED lifeTag PROVE LifeInv'
  <2>1. CASE Life!Fails(c)
    BY <1>2, <1>6, <2>1 DEF Life!RenameCommits
  <2>2. CASE ~Life!Fails(c)
    <3> DEFINE s == calls[c].sid
               x == [record[s] EXCEPT !.name = calls[c].name]
    <3>1. calls[c].kind = "rename" /\ calls[c].at = "queued" /\ Life!Turn(c) /\ record[s].state = "open" /\ Life!Commits(c, x)
      BY <1>6, <2>2 DEF Life!RenameCommits
    <3>2. s \in Sids /\ calls[c].name \in Nat
      BY <3>1, LifeSids, LifeFields DEF Renaming, Is
    <3>3. record[s] \in RecordSet
      BY <3>2 DEF LifeInv, LifeTypeOK
    <3>4. x \in RecordSet /\ x.state = "open" /\ x.name = calls[c].name
      BY <3>1, <3>2, <3>3 DEF RecordSet
    <3> HIDE DEF x
    <3> QED BY <1>1, <1>6, <3>1, <3>4, RenameRecordedKeeps
  <2> QED BY <2>1, <2>2
<1>7. ASSUME Life!RefreshCommits(c), UNCHANGED lifeTag PROVE LifeInv'
  <2>1. CASE Life!Fails(c)
    BY <1>2, <1>7, <2>1 DEF Life!RefreshCommits
  <2>2. CASE ~Life!Fails(c)
    <3> DEFINE s == calls[c].sid
    <3>1. calls[c].kind = "refresh" /\ calls[c].at = "queued" /\ Life!Turn(c) /\ s \in Sids /\ UNCHANGED spoiled
      BY <1>7, <2>2, LifeSids DEF Life!RefreshCommits
    <3>2. CASE Life!Resolves(c, "done") /\ UNCHANGED record
      <4> DEFINE x == calls[c].snap
      <4>1. x \in RecordSet /\ Life!Returns(c, "done", x) /\ record' \in [Sids -> RecordSet]
        BY <3>2, LifeFields DEF Life!Resolves, LifeInv, LifeTypeOK
      <4> HIDE DEF x
      <4> QED BY <1>1, <1>7, <3>1, <3>2, <4>1, RefreshDoneKeeps
    <3>3. CASE record' = [record EXCEPT ![s].materialized = TRUE] /\ Life!Returns(c, "done", record'[s])
      <4> DEFINE x == record'[s]
      <4>1. /\ record' \in [Sids -> RecordSet] /\ x \in RecordSet
            /\ \A r \in Sids : record'[r].name = record[r].name /\ record'[r].state = record[r].state
        BY <3>1, <3>3 DEF LifeInv, LifeTypeOK, RecordSet
      <4>2. Life!Returns(c, "done", x)
        BY <3>3
      <4> HIDE DEF x
      <4> QED BY <1>1, <1>7, <3>1, <4>1, <4>2, RefreshDoneKeeps
    <3> QED BY <1>7, <2>2, <3>2, <3>3 DEF Life!RefreshCommits
  <2> QED BY <2>1, <2>2
<1>8. ASSUME Life!Binds(c) PROVE LifeInv'
  <2>1. CASE lifeTag' = calls[c].sid /\ Life!Resolves(c, "managed") /\ UNCHANGED spoiled
    BY <1>1, <1>8, <2>1, BindsKeeps DEF Life!Binds
  <2>2. CASE lifeTag' \in {lifeTag, calls[c].sid} /\ Life!Resolves(c, "unbound") /\ spoiled' = TRUE
    BY <1>1, <1>8, <2>2, FailureKeeps DEF Life!Binds
  <2> QED BY <1>8, <2>1, <2>2 DEF Life!Binds
<1>9. ASSUME Life!RenamesWindow(c) PROVE LifeInv'
  <2>1. CASE UNCHANGED spoiled
    BY <1>1, <1>9, <2>1, WindowRenamedKeeps DEF Life!RenamesWindow
  <2>2. CASE spoiled' = TRUE
    BY <1>1, <1>9, <2>2, FailureKeeps DEF Life!RenamesWindow
  <2> QED BY <1>9, <2>1, <2>2 DEF Life!RenamesWindow
<1>10. ASSUME Life!Releases(c) PROVE LifeInv'
  BY <1>1, <1>10, ReleasesKeeps
<1> QED BY <1>3, <1>4, <1>5, <1>6, <1>7, <1>8, <1>9, <1>10 DEF Life!Operates

LEMMA ContinuesKeeps ==
  ASSUME LifeInv, NEW c \in DOMAIN calls, Life!Continues(c)
  PROVE  LifeInv'
<1>1. CASE Life!Enrolled(c)
  BY <1>1, EnrolledKeeps, OvertakenKeeps
<1>2. CASE Life!RenameBegins(c)
  <2>1. CASE Life!Stale(c) \/ managed = NoSid \/ calls[c].name = 0 \/ Life!Known(c)
    BY <1>2, <2>1, RenameDropped
  <2>2. CASE ~Life!Stale(c) /\ managed # NoSid /\ calls[c].name > 0 /\ ~Life!Known(c)
    BY <1>2, <2>2, RenameQueued
  <2> QED BY <2>1, <2>2, LifeFields
<1>3. CASE Life!Finalized(c)
  BY <1>3, FinalizedKeeps, FinalizedGoesOn
<1>4. CASE Life!ShutdownReleases(c)
  BY <1>4, ShutdownSkips, ShutdownQueued
<1> QED BY <1>1, <1>2, <1>3, <1>4, ReleasedKeeps, AdoptedKeeps, RefreshedKeeps, RenamedKeeps, ShutdownEndsKeeps DEF Life!Continues

LEMMA LifeStep == LifeInv /\ [Life!Next]_Life!sessionVars => LifeInv'
<1> SUFFICES ASSUME LifeInv, [Life!Next]_Life!sessionVars PROVE LifeInv'
  OBVIOUS
<1>1. CASE UNCHANGED Life!sessionVars
  BY <1>1 DEF Life!sessionVars, LifeInv, LifeTypeOK, CallsKnown, QueueKnown, ClosedStays, OneStart, OneShutdown,
      ErrorsSpoil,
      AdoptsCurrent, ManagedCurrent, ClosesCurrent, AdoptsAfterStart, StartsFirst, QueueCurrent, TagFollows, RecordOpen,
      RenamesQueued, RenamesAwait, RenamesCurrent, NameFollows, Steady, Shutting, Is, Waits, ClosedNow,
      Enrolls, Odd, Enrolling, Renaming, Unapplied, Pending, Named, Settles, Life!Last, Life!Busy, Life!Stale, Life!UnderWay, Life!Ids
<1>2. CASE Life!Settled /\ \E s \in Sids, n \in Life!Names : Life!SessionStart(s, n)
  BY <1>2, SessionStartKeeps DEF Life!Names
<1>5. CASE Life!Settled /\ \E n \in Life!Names : Life!SessionInfoChanged(n)
  BY <1>5, SessionInfoChangedKeeps DEF Life!Names
<1>3. CASE Life!Settled /\ \E c \in DOMAIN calls : Life!Operates(c) \/ Life!FinalizedReleases(c)
  BY <1>3, OperatesKeeps, FinalizedReleasesKeeps
<1>4. CASE \E c \in DOMAIN calls : Life!Continues(c)
  BY <1>4, ContinuesKeeps
<1> QED BY <1>1, <1>2, <1>3, <1>4, <1>5, SessionShutdownKeeps, AgentEndKeeps, SessionAdoptKeeps, finalizeKeeps
        DEF Life!Next, Life!Ids

LEMMA LifeMoves == [MC_Next]_<<focus, theBinding, theLifecycle, theStart, theBus, theRestore>> => [Life!Next]_Life!sessionVars
  BY DEF MC_Next, theLifecycle, Life!sessionVars

(* When nothing is under way and nothing failed, the window is bound to the session    *)
(* that is managed, whose record is open and has the name that was given last, unless   *)
(* that name was missed: taken for known because the copy of the record that is kept     *)
(* still had it.  A session the user was told is over stays closed (lifecycle.ts, start   *)
(* and close; index.ts, the transitions, session_info_changed and finalize).             *)
THEOREM WindowFollowsSession == MC_Spec => []BindingFollowsSession
<1>1. LifeInv => BindingFollowsSession
  <2> SUFFICES ASSUME LifeInv PROVE BindingFollowsSession
    OBVIOUS
  <2>1. ASSUME \A c \in DOMAIN calls : ~Life!Busy(c), ~spoiled
        PROVE  /\ lifeTag = managed
               /\ managed # NoSid =>
                    /\ managed = session /\ record[managed].state = "open"
                    /\ \A c \in DOMAIN calls : Life!Last(c) /\ calls[c].name > 0 /\ calls[c].got # "missed" =>
                         record[managed].name = calls[c].name
    <3>1. lifeTag = managed
      BY <2>1 DEF LifeInv, TagFollows, Odd, Enrolls, Is, Life!Busy
    <3>2. ~Shutting
      BY <2>1 DEF Shutting, Life!UnderWay, Life!Ids
    <3>3. ASSUME managed # NoSid
          PROVE  /\ managed = session /\ record[managed].state = "open"
                 /\ \A c \in DOMAIN calls : Life!Last(c) /\ calls[c].name > 0 /\ calls[c].got # "missed" =>
                      record[managed].name = calls[c].name
      <4>1. managed = session
        BY <2>1, <3>3 DEF LifeInv, ManagedCurrent
      <4>2. record[managed].state = "open"
        BY <2>1, <3>2, <3>3 DEF LifeInv, RecordOpen, ClosedNow, Life!Busy
      <4>3. ASSUME NEW c \in DOMAIN calls, Life!Last(c), calls[c].name > 0, calls[c].got # "missed"
            PROVE  record[managed].name = calls[c].name
        <5>1. Named(c) /\ Settles(c)
          BY <2>1, <3>2, <3>3, <4>1, <4>3 DEF LifeInv, NameFollows, Steady, Settles, Is, Life!Last, Life!Busy
        <5> QED BY <3>3, <4>1, <5>1 DEF Named
      <4> QED BY <4>1, <4>2, <4>3
    <3> QED BY <3>1, <3>3
  <2>2. \A s \in finished : record[s].state = "closed"
    BY DEF LifeInv, ClosedStays
  <2> QED BY <2>1, <2>2 DEF BindingFollowsSession, Life!BindingFollowsSession, Life!Ids
<1>2. MC_Init => Life!Init
  BY DEF MC_Init
<1> QED BY <1>1, <1>2, LifeInit, LifeStep, LifeMoves, PTL DEF MC_Spec
================================================================================
