----------------------------- MODULE Records_proof -----------------------------
(***************************************************************************)
(* Theorems about what several writers keep in files, for any processes,     *)
(* updates and agents.  The catalog: what an update reported follows from     *)
(* where its process stood when the manifest took it in; that reported        *)
(* updates stay follows, while no holder loses its lock, from the manifest    *)
(* being what its holder read.  A note: whoever holds its current revision     *)
(* has seen what is in it, and who is past its check is alone in the queue.    *)
(***************************************************************************)
EXTENDS MC_Records, Sequences, FiniteSetTheorems, TLAPS

Manifests == [revision : Nat, applied : SUBSET Updates]

TypeOK ==
  /\ manifest \in Manifests
  /\ temps \subseteq Updates
  /\ lock \in Procs \cup {NoProc}
  /\ stale \in BOOLEAN
  /\ told \subseteq Procs
  /\ pc \in [Procs -> PcStates]
  /\ n \in [Procs -> 0..MaxUpdates]
  /\ draft \in [Procs -> Manifests]
  /\ result \in [Procs -> Outcomes \ {"releaseFailed"}]
  /\ outcome \in [Updates -> Outcomes]
  /\ overlapped \subseteq Updates

(* A process inside update() has a number for it. *)
Updating == \A p \in Procs : pc[p] \in {"idle", "dead"} \/ n[p] \in 1..MaxUpdates

Writing == {"clean", "open", "assert", "rename"}

(* The current update of a process may still be reported as not committed. *)
MayFail(p) ==
  \/ pc[p] \in {"acquire", "read"} \cup Writing
  \/ pc[p] = "release" /\ result[p] = "failed"

(* An update that others may see: begun, and neither failed nor about to. *)
Kept(u) ==
  /\ u[2] <= n[u[1]]
  /\ outcome[u] # "failed"
  /\ u[2] = n[u[1]] => ~MayFail(u[1])

ManifestKept == \A u \in manifest.applied : Kept(u)

DraftsKept ==
  \A p \in Procs : pc[p] \in Writing => \A u \in draft[p].applied : u = Mine(p) \/ Kept(u)

(* While no holder has lost its lock: one process holds it, and what it read *)
(* is what there is, until it renames.                                       *)
OneHolder == \A p \in Procs : pc[p] \in Holding => lock = p

DraftIsCurrent ==
  \A p \in Procs :
    /\ pc[p] \in Writing =>
         /\ draft[p].revision = manifest.revision + 1
         /\ draft[p].applied = manifest.applied \cup {Mine(p)}
    /\ pc[p] \in {"sync", "reread"} \/ result[p] = "ok" => Mine(p) \in manifest.applied

Counted ==
  /\ IsFiniteSet(manifest.applied)
  /\ manifest.revision = Cardinality(manifest.applied)
  /\ Committed \subseteq manifest.applied

(* A result is there to be reported, and an update reports only once. *)
ResultsPending == \A p \in Procs : result[p] # "none" => pc[p] = "release"

Unreported ==
  \A p \in Procs, k \in 1..MaxUpdates :
    k > n[p] \/ (k = n[p] /\ pc[p] \notin {"idle", "dead"}) => outcome[<<p, k>>] = "none"

Undisturbed == OneHolder /\ DraftIsCurrent /\ Counted

(* The inductive invariant: what holds always, and what holds until a holder *)
(* loses its lock.                                                           *)
Always == TypeOK /\ Updating /\ ResultsPending /\ Unreported /\ ManifestKept /\ DraftsKept

IInv == Always /\ (overlapped = {} => Undisturbed)

-----------------------------------------------------------------------------
(* The initial states satisfy it. *)
LEMMA InitInv == Init => IInv
<1> SUFFICES ASSUME Init PROVE IInv
  OBVIOUS
<1>1. Empty \in Manifests
  BY DEF Empty, Manifests
<1>2. TypeOK
  <2>1. n \in [Procs -> 0..MaxUpdates]
    BY CatalogAssumption DEF Init
  <2>2. /\ pc \in [Procs -> PcStates]
        /\ draft \in [Procs -> Manifests]
    BY <1>1 DEF Init, PcStates
  <2>3. /\ result \in [Procs -> Outcomes \ {"releaseFailed"}]
        /\ outcome \in [Updates -> Outcomes]
    BY DEF Init, Outcomes
  <2> QED BY <1>1, <2>1, <2>2, <2>3 DEF TypeOK, Init
<1>3. Updating /\ ResultsPending /\ ManifestKept /\ DraftsKept
  BY DEF Updating, ResultsPending, ManifestKept, DraftsKept, Init, Empty, Writing
<1>4. Unreported
  BY DEF Unreported, Init, Updates
<1>5. Undisturbed
  BY FS_EmptySet
  DEF Undisturbed, OneHolder, DraftIsCurrent, Counted, Committed, Init, Empty, Holding,
      Writing, Updates
<1> QED BY <1>2, <1>3, <1>4, <1>5 DEF IInv, Always

(* A process inside update() has an update of its own. *)
LEMMA MineIsUpdate ==
  ASSUME TypeOK, Updating, NEW p \in Procs, pc[p] \notin {"idle", "dead"}
  PROVE  Mine(p) \in Updates
  BY DEF TypeOK, Updating, Mine, Updates

-----------------------------------------------------------------------------
(* Types. *)
LEMMA TypeStep ==
  ASSUME IInv, Next
  PROVE  TypeOK'
<1> USE CatalogAssumption DEF IInv, Always, TypeOK, Updating, PcStates, Holding, Outcomes
<1>a. \A p \in Procs : pc[p] \notin {"idle", "dead"} => Mine(p) \in Updates
  BY MineIsUpdate
<1>b. Empty \in Manifests
  BY DEF Empty, Manifests
<1>c. \A m \in Manifests, u \in Updates :
        [revision |-> m.revision + 1, applied |-> m.applied \cup {u}] \in Manifests
  BY DEF Manifests
<1>1. ASSUME NEW p \in Procs, Update(p) PROVE TypeOK'
  BY <1>1 DEF Update, Goto
<1>2. ASSUME NEW p \in Procs, Heartbeat(p) PROVE TypeOK'
  <2>1. stale' \in BOOLEAN
    BY <1>2 DEF Heartbeat
  <2>2. told' \subseteq Procs
    BY <1>2 DEF Heartbeat
  <2> QED BY <1>2, <2>1, <2>2 DEF Heartbeat
<1>3. ASSUME NEW p \in Procs, Crash(p) PROVE TypeOK'
  BY <1>3, <1>b DEF Crash, Goto
<1>4. CASE GoStale
  BY <1>4 DEF GoStale
<1>5. ASSUME NEW p \in Procs, Acquire(p) PROVE TypeOK'
  <2>1. Lost \subseteq Updates
    BY <1>a DEF Lost
  <2> QED BY <1>5, <2>1 DEF Acquire, Goto
<1>6. ASSUME NEW p \in Procs, AcquireFails(p) PROVE TypeOK'
  BY <1>6, <1>a DEF AcquireFails, Goto
<1>7. ASSUME NEW p \in Procs, Read(p) PROVE TypeOK'
  BY <1>7, <1>a, <1>c DEF Read, Goto
<1>8. ASSUME NEW p \in Procs, Clean(p) PROVE TypeOK'
  BY <1>8 DEF Clean, Goto
<1>9. ASSUME NEW p \in Procs, Abandon(p) PROVE TypeOK'
  BY <1>9 DEF Abandon, Goto, Ends
<1>10. ASSUME NEW p \in Procs, OpenTemp(p) PROVE TypeOK'
  BY <1>10, <1>a DEF OpenTemp, Goto
<1>11. ASSUME NEW p \in Procs, AssertOwned(p) PROVE TypeOK'
  BY <1>11 DEF AssertOwned, Goto
<1>12. ASSUME NEW p \in Procs, CommitFails(p) PROVE TypeOK'
  BY <1>12 DEF CommitFails, Goto, Ends
<1>13. ASSUME NEW p \in Procs, Rename(p) PROVE TypeOK'
  BY <1>13 DEF Rename, Goto
<1>14. ASSUME NEW p \in Procs, Sync(p) PROVE TypeOK'
  BY <1>14 DEF Sync, Goto, Ends
<1>15. ASSUME NEW p \in Procs, Reread(p) PROVE TypeOK'
  BY <1>15 DEF Reread, Goto, Ends
<1>16. ASSUME NEW p \in Procs, Release(p) PROVE TypeOK'
  <2>1. Lost \subseteq Updates
    BY <1>a DEF Lost
  <2> QED BY <1>16, <2>1, <1>a, <1>b DEF Release, Reports, Goto
<1>17. ASSUME NEW p \in Procs, ReleaseFails(p) PROVE TypeOK'
  BY <1>17, <1>a, <1>b DEF ReleaseFails, Reports, Goto
<1> QED BY <1>1, <1>2, <1>3, <1>4, <1>5, <1>6, <1>7, <1>8, <1>9, <1>10, <1>11, <1>12,
      <1>13, <1>14, <1>15, <1>16, <1>17 DEF Next, Step, Commit

(* Which update a process is at and what it has reported. *)
LEMMA BookkeepingStep ==
  ASSUME IInv, Next
  PROVE  (Updating /\ ResultsPending /\ Unreported)'
<1> USE DEF IInv, Always, TypeOK, Updating, ResultsPending, Unreported, Holding, Updates, Mine
<1>1. ASSUME NEW p \in Procs, Update(p) PROVE (Updating /\ ResultsPending /\ Unreported)'
  <2>1. /\ n[p] \in Nat /\ n' = [n EXCEPT ![p] = n[p] + 1]
        /\ outcome' = outcome /\ result' = result
    BY <1>1 DEF Update
  <2>2. pc[p] = "idle" /\ pc' = [pc EXCEPT ![p] = "acquire"] /\ n[p] < MaxUpdates
    BY <1>1 DEF Update, Goto
  <2>3. Updating' /\ ResultsPending'
    BY <2>1, <2>2, CatalogAssumption
  <2>4. ASSUME NEW q \in Procs, NEW k \in 1..MaxUpdates,
               k > n'[q] \/ (k = n'[q] /\ pc'[q] \notin {"idle", "dead"})
        PROVE  k > n[q] \/ (k = n[q] /\ pc[q] \notin {"idle", "dead"})
    BY <2>1, <2>2, <2>4
  <2> QED BY <2>1, <2>3, <2>4
<1>2. ASSUME NEW p \in Procs, Heartbeat(p) PROVE (Updating /\ ResultsPending /\ Unreported)'
  BY <1>2 DEF Heartbeat
<1>3. ASSUME NEW p \in Procs, Crash(p) PROVE (Updating /\ ResultsPending /\ Unreported)'
  <2>1. n' = n /\ outcome' = outcome /\ pc' = [pc EXCEPT ![p] = "dead"]
    BY <1>3 DEF Crash, Goto
  <2>2. result' = [result EXCEPT ![p] = "none"]
    BY <1>3 DEF Crash
  <2>3. ResultsPending'
    BY <2>1, <2>2
  <2>4. Updating'
    BY <2>1
  <2>5. Unreported'
    BY <2>1
  <2> QED BY <2>3, <2>4, <2>5
<1>4. CASE GoStale
  BY <1>4 DEF GoStale
<1>5. ASSUME NEW p \in Procs, Acquire(p) PROVE (Updating /\ ResultsPending /\ Unreported)'
  BY <1>5 DEF Acquire, Lost, Goto
<1>6. ASSUME NEW p \in Procs, AcquireFails(p) PROVE (Updating /\ ResultsPending /\ Unreported)'
  BY <1>6 DEF AcquireFails, Goto
<1>7. ASSUME NEW p \in Procs, Read(p) PROVE (Updating /\ ResultsPending /\ Unreported)'
  BY <1>7 DEF Read, Goto
<1>8. ASSUME NEW p \in Procs, Clean(p) PROVE (Updating /\ ResultsPending /\ Unreported)'
  BY <1>8 DEF Clean, Goto
<1>9. ASSUME NEW p \in Procs, Abandon(p) PROVE (Updating /\ ResultsPending /\ Unreported)'
  BY <1>9 DEF Abandon, Goto, Ends
<1>10. ASSUME NEW p \in Procs, OpenTemp(p) PROVE (Updating /\ ResultsPending /\ Unreported)'
  BY <1>10 DEF OpenTemp, Goto
<1>11. ASSUME NEW p \in Procs, AssertOwned(p) PROVE (Updating /\ ResultsPending /\ Unreported)'
  BY <1>11 DEF AssertOwned, Goto
<1>12. ASSUME NEW p \in Procs, CommitFails(p) PROVE (Updating /\ ResultsPending /\ Unreported)'
  BY <1>12 DEF CommitFails, Goto, Ends
<1>13. ASSUME NEW p \in Procs, Rename(p) PROVE (Updating /\ ResultsPending /\ Unreported)'
  BY <1>13 DEF Rename, Goto
<1>14. ASSUME NEW p \in Procs, Sync(p) PROVE (Updating /\ ResultsPending /\ Unreported)'
  <2>1. /\ n' = n /\ outcome' = outcome /\ pc[p] = "sync"
        /\ \/ pc' = [pc EXCEPT ![p] = "reread"] /\ result' = result
           \/ /\ pc' = [pc EXCEPT ![p] = "release"]
              /\ result' = [result EXCEPT ![p] = "indeterminate"]
    BY <1>14 DEF Sync, Goto, Ends
  <2>2. Updating'
    BY <2>1
  <2>3. ResultsPending'
    BY <2>1
  <2>4. \A q \in Procs : pc'[q] \notin {"idle", "dead"} => pc[q] \notin {"idle", "dead"}
    BY <2>1
  <2>5. Unreported'
    BY <2>1, <2>4
  <2> QED BY <2>2, <2>3, <2>5
<1>15. ASSUME NEW p \in Procs, Reread(p) PROVE (Updating /\ ResultsPending /\ Unreported)'
  BY <1>15 DEF Reread, Goto, Ends
<1>16. ASSUME NEW p \in Procs, Release(p) PROVE (Updating /\ ResultsPending /\ Unreported)'
  BY <1>16 DEF Release, Lost, Reports, Goto
<1>17. ASSUME NEW p \in Procs, ReleaseFails(p) PROVE (Updating /\ ResultsPending /\ Unreported)'
  BY <1>17 DEF ReleaseFails, Reports, Goto
<1> QED BY <1>1, <1>2, <1>3, <1>4, <1>5, <1>6, <1>7, <1>8, <1>9, <1>10, <1>11, <1>12,
      <1>13, <1>14, <1>15, <1>16, <1>17 DEF Next, Step, Commit

(* The manifest takes in no update that can still fail. *)
LEMMA ManifestStep ==
  ASSUME IInv, Next
  PROVE  ManifestKept'
<1> USE DEF IInv, Always, TypeOK, Updating, ManifestKept, Kept, MayFail, Holding, Writing,
            Manifests, Updates, Mine
<1>1. ASSUME NEW p \in Procs, Update(p) PROVE ManifestKept'
  BY <1>1 DEF Update, Goto
<1>2. ASSUME NEW p \in Procs, Heartbeat(p) PROVE ManifestKept'
  BY <1>2 DEF Heartbeat
<1>3. ASSUME NEW p \in Procs, Crash(p) PROVE ManifestKept'
  BY <1>3 DEF Crash, Goto
<1>4. CASE GoStale
  BY <1>4 DEF GoStale
<1>5. ASSUME NEW p \in Procs, Acquire(p) PROVE ManifestKept'
  BY <1>5 DEF Acquire, Lost, Goto
<1>6. ASSUME NEW p \in Procs, AcquireFails(p) PROVE ManifestKept'
  BY <1>6 DEF AcquireFails, Goto
<1>7. ASSUME NEW p \in Procs, Read(p) PROVE ManifestKept'
  BY <1>7 DEF Read, Goto
<1>8. ASSUME NEW p \in Procs, Clean(p) PROVE ManifestKept'
  BY <1>8 DEF Clean, Goto
<1>9. ASSUME NEW p \in Procs, Abandon(p) PROVE ManifestKept'
  BY <1>9 DEF Abandon, Goto, Ends
<1>10. ASSUME NEW p \in Procs, OpenTemp(p) PROVE ManifestKept'
  BY <1>10 DEF OpenTemp, Goto
<1>11. ASSUME NEW p \in Procs, AssertOwned(p) PROVE ManifestKept'
  BY <1>11 DEF AssertOwned, Goto
<1>12. ASSUME NEW p \in Procs, CommitFails(p) PROVE ManifestKept'
  BY <1>12 DEF CommitFails, Goto, Ends
<1>13. ASSUME NEW p \in Procs, Rename(p) PROVE ManifestKept'
  <2>1. pc[p] = "rename" /\ pc' = [pc EXCEPT ![p] = "sync"] /\ result[p] = "none"
    BY <1>13 DEF Rename, Goto, ResultsPending
  <2>2. manifest' = draft[p] /\ n' = n /\ outcome' = outcome /\ result' = result
    BY <1>13 DEF Rename
  <2>3. outcome[Mine(p)] = "none" /\ n[p] \in Nat
    BY <2>1 DEF Unreported
  <2>4. \A u \in draft[p].applied : u = Mine(p) \/ Kept(u)
    BY <2>1 DEF DraftsKept
  <2>5. Kept(Mine(p))'
    BY <2>1, <2>2, <2>3
  <2>6. \A u \in Updates : Kept(u) => Kept(u)'
    BY <2>1, <2>2
  <2>7. draft[p].applied \subseteq Updates
    BY <2>1
  <2>8. manifest'.applied = draft[p].applied /\ Mine(p)' = Mine(p)
    BY <2>2
  <2> QED BY <2>4, <2>5, <2>6, <2>7, <2>8
<1>14. ASSUME NEW p \in Procs, Sync(p) PROVE ManifestKept'
  BY <1>14 DEF Sync, Goto, Ends
<1>15. ASSUME NEW p \in Procs, Reread(p) PROVE ManifestKept'
  BY <1>15 DEF Reread, Goto, Ends
<1>16. ASSUME NEW p \in Procs, Release(p) PROVE ManifestKept'
  BY <1>16 DEF Release, Lost, Reports, Goto
<1>17. ASSUME NEW p \in Procs, ReleaseFails(p) PROVE ManifestKept'
  BY <1>17 DEF ReleaseFails, Reports, Goto
<1> QED BY <1>1, <1>2, <1>3, <1>4, <1>5, <1>6, <1>7, <1>8, <1>9, <1>10, <1>11, <1>12,
      <1>13, <1>14, <1>15, <1>16, <1>17 DEF Next, Step, Commit

(* Nor does a draft, but for the update of its process. *)
LEMMA DraftsStep ==
  ASSUME IInv, Next
  PROVE  DraftsKept'
<1> USE DEF IInv, Always, TypeOK, Updating, ManifestKept, DraftsKept, Kept, MayFail, Holding,
            Writing, Empty, Manifests, Updates, Mine
<1>1. ASSUME NEW p \in Procs, Update(p) PROVE DraftsKept'
  BY <1>1 DEF Update, Goto
<1>2. ASSUME NEW p \in Procs, Heartbeat(p) PROVE DraftsKept'
  BY <1>2 DEF Heartbeat
<1>3. ASSUME NEW p \in Procs, Crash(p) PROVE DraftsKept'
  BY <1>3 DEF Crash, Goto
<1>4. CASE GoStale
  BY <1>4 DEF GoStale
<1>5. ASSUME NEW p \in Procs, Acquire(p) PROVE DraftsKept'
  BY <1>5 DEF Acquire, Lost, Goto
<1>6. ASSUME NEW p \in Procs, AcquireFails(p) PROVE DraftsKept'
  BY <1>6 DEF AcquireFails, Goto
<1>7. ASSUME NEW p \in Procs, Read(p) PROVE DraftsKept'
  BY <1>7 DEF Read, Goto
<1>8. ASSUME NEW p \in Procs, Clean(p) PROVE DraftsKept'
  BY <1>8 DEF Clean, Goto
<1>9. ASSUME NEW p \in Procs, Abandon(p) PROVE DraftsKept'
  BY <1>9 DEF Abandon, Goto, Ends
<1>10. ASSUME NEW p \in Procs, OpenTemp(p) PROVE DraftsKept'
  BY <1>10 DEF OpenTemp, Goto
<1>11. ASSUME NEW p \in Procs, AssertOwned(p) PROVE DraftsKept'
  BY <1>11 DEF AssertOwned, Goto
<1>12. ASSUME NEW p \in Procs, CommitFails(p) PROVE DraftsKept'
  BY <1>12 DEF CommitFails, Goto, Ends
<1>13. ASSUME NEW p \in Procs, Rename(p) PROVE DraftsKept'
  BY <1>13 DEF Rename, Goto
<1>14. ASSUME NEW p \in Procs, Sync(p) PROVE DraftsKept'
  BY <1>14 DEF Sync, Goto, Ends
<1>15. ASSUME NEW p \in Procs, Reread(p) PROVE DraftsKept'
  BY <1>15 DEF Reread, Goto, Ends
<1>16. ASSUME NEW p \in Procs, Release(p) PROVE DraftsKept'
  BY <1>16 DEF Release, Lost, Reports, Goto
<1>17. ASSUME NEW p \in Procs, ReleaseFails(p) PROVE DraftsKept'
  BY <1>17 DEF ReleaseFails, Reports, Goto
<1> QED BY <1>1, <1>2, <1>3, <1>4, <1>5, <1>6, <1>7, <1>8, <1>9, <1>10, <1>11, <1>12,
      <1>13, <1>14, <1>15, <1>16, <1>17 DEF Next, Step, Commit

-----------------------------------------------------------------------------
(* Until a lock is lost, its directory is that of the one process that uses it. *)
LEMMA HolderStep ==
  ASSUME IInv, Next, overlapped' = {}, overlapped = {}
  PROVE  OneHolder'
<1> USE CatalogAssumption DEF IInv, Always, TypeOK, Undisturbed, OneHolder, Holding
<1>1. ASSUME NEW p \in Procs, Update(p) PROVE OneHolder'
  BY <1>1 DEF Update, Goto
<1>2. ASSUME NEW p \in Procs, Heartbeat(p) PROVE OneHolder'
  BY <1>2 DEF Heartbeat
<1>3. ASSUME NEW p \in Procs, Crash(p) PROVE OneHolder'
  BY <1>3 DEF Crash, Goto
<1>4. CASE GoStale
  BY <1>4 DEF GoStale
<1>5. ASSUME NEW p \in Procs, Acquire(p) PROVE OneHolder'
  BY <1>5 DEF Acquire, Lost, Goto
<1>6. ASSUME NEW p \in Procs, AcquireFails(p) PROVE OneHolder'
  BY <1>6 DEF AcquireFails, Goto
<1>7. ASSUME NEW p \in Procs, Read(p) PROVE OneHolder'
  BY <1>7 DEF Read, Goto
<1>8. ASSUME NEW p \in Procs, Clean(p) PROVE OneHolder'
  BY <1>8 DEF Clean, Goto
<1>9. ASSUME NEW p \in Procs, Abandon(p) PROVE OneHolder'
  BY <1>9 DEF Abandon, Goto, Ends
<1>10. ASSUME NEW p \in Procs, OpenTemp(p) PROVE OneHolder'
  BY <1>10 DEF OpenTemp, Goto
<1>11. ASSUME NEW p \in Procs, AssertOwned(p) PROVE OneHolder'
  BY <1>11 DEF AssertOwned, Goto
<1>12. ASSUME NEW p \in Procs, CommitFails(p) PROVE OneHolder'
  BY <1>12 DEF CommitFails, Goto, Ends
<1>13. ASSUME NEW p \in Procs, Rename(p) PROVE OneHolder'
  BY <1>13 DEF Rename, Goto
<1>14. ASSUME NEW p \in Procs, Sync(p) PROVE OneHolder'
  BY <1>14 DEF Sync, Goto, Ends
<1>15. ASSUME NEW p \in Procs, Reread(p) PROVE OneHolder'
  BY <1>15 DEF Reread, Goto, Ends
<1>16. ASSUME NEW p \in Procs, Release(p) PROVE OneHolder'
  BY <1>16 DEF Release, Lost, Reports, Goto
<1>17. ASSUME NEW p \in Procs, ReleaseFails(p) PROVE OneHolder'
  BY <1>17 DEF ReleaseFails, Reports, Goto
<1> QED BY <1>1, <1>2, <1>3, <1>4, <1>5, <1>6, <1>7, <1>8, <1>9, <1>10, <1>11, <1>12,
      <1>13, <1>14, <1>15, <1>16, <1>17 DEF Next, Step, Commit

(* Until then the draft of a process is the manifest with its update. *)
LEMMA CurrentStep ==
  ASSUME IInv, Next, overlapped' = {}, overlapped = {}
  PROVE  DraftIsCurrent'
<1> USE DEF IInv, Always, TypeOK, Updating, ResultsPending, Undisturbed, OneHolder,
            DraftIsCurrent, Holding, Writing, Manifests, Mine
<1>1. ASSUME NEW p \in Procs, Update(p) PROVE DraftIsCurrent'
  BY <1>1 DEF Update, Goto
<1>2. ASSUME NEW p \in Procs, Heartbeat(p) PROVE DraftIsCurrent'
  BY <1>2 DEF Heartbeat
<1>3. ASSUME NEW p \in Procs, Crash(p) PROVE DraftIsCurrent'
  BY <1>3 DEF Crash, Goto
<1>4. CASE GoStale
  BY <1>4 DEF GoStale
<1>5. ASSUME NEW p \in Procs, Acquire(p) PROVE DraftIsCurrent'
  BY <1>5 DEF Acquire, Lost, Goto
<1>6. ASSUME NEW p \in Procs, AcquireFails(p) PROVE DraftIsCurrent'
  BY <1>6 DEF AcquireFails, Goto
<1>7. ASSUME NEW p \in Procs, Read(p) PROVE DraftIsCurrent'
  BY <1>7 DEF Read, Goto
<1>8. ASSUME NEW p \in Procs, Clean(p) PROVE DraftIsCurrent'
  BY <1>8 DEF Clean, Goto
<1>9. ASSUME NEW p \in Procs, Abandon(p) PROVE DraftIsCurrent'
  BY <1>9 DEF Abandon, Goto, Ends
<1>10. ASSUME NEW p \in Procs, OpenTemp(p) PROVE DraftIsCurrent'
  BY <1>10 DEF OpenTemp, Goto
<1>11. ASSUME NEW p \in Procs, AssertOwned(p) PROVE DraftIsCurrent'
  BY <1>11 DEF AssertOwned, Goto
<1>12. ASSUME NEW p \in Procs, CommitFails(p) PROVE DraftIsCurrent'
  BY <1>12 DEF CommitFails, Goto, Ends
<1>13. ASSUME NEW p \in Procs, Rename(p) PROVE DraftIsCurrent'
  BY <1>13 DEF Rename, Goto
<1>14. ASSUME NEW p \in Procs, Sync(p) PROVE DraftIsCurrent'
  BY <1>14 DEF Sync, Goto, Ends
<1>15. ASSUME NEW p \in Procs, Reread(p) PROVE DraftIsCurrent'
  BY <1>15 DEF Reread, Goto, Ends
<1>16. ASSUME NEW p \in Procs, Release(p) PROVE DraftIsCurrent'
  BY <1>16 DEF Release, Lost, Reports, Goto
<1>17. ASSUME NEW p \in Procs, ReleaseFails(p) PROVE DraftIsCurrent'
  BY <1>17 DEF ReleaseFails, Reports, Goto
<1> QED BY <1>1, <1>2, <1>3, <1>4, <1>5, <1>6, <1>7, <1>8, <1>9, <1>10, <1>11, <1>12,
      <1>13, <1>14, <1>15, <1>16, <1>17 DEF Next, Step, Commit

(* One more member, one more in the count. *)
LEMMA OneMore ==
  ASSUME NEW S, IsFiniteSet(S), NEW x, x \notin S
  PROVE  IsFiniteSet(S \cup {x}) /\ Cardinality(S \cup {x}) = Cardinality(S) + 1
  BY FS_AddElement

(* Only a report changes what is committed. *)
LEMMA SameCommitted == outcome' = outcome => Committed' = Committed
  BY DEF Committed

(* Until then a revision is one update and what was reported is there. *)
LEMMA CountStep ==
  ASSUME IInv, Next, overlapped' = {}, overlapped = {}
  PROVE  Counted'
<1> USE DEF IInv, Always, TypeOK, Updating, ResultsPending, Undisturbed, OneHolder,
            DraftIsCurrent, Counted, Committed, Holding, Writing, Mine
<1>1. ASSUME NEW p \in Procs, Update(p) PROVE Counted'
  BY <1>1 DEF Update, Goto
<1>2. ASSUME NEW p \in Procs, Heartbeat(p) PROVE Counted'
  BY <1>2 DEF Heartbeat
<1>3. ASSUME NEW p \in Procs, Crash(p) PROVE Counted'
  BY <1>3 DEF Crash, Goto
<1>4. CASE GoStale
  BY <1>4 DEF GoStale
<1>5. ASSUME NEW p \in Procs, Acquire(p) PROVE Counted'
  BY <1>5 DEF Acquire, Lost, Goto
<1>6. ASSUME NEW p \in Procs, AcquireFails(p) PROVE Counted'
  BY <1>6 DEF AcquireFails, Goto
<1>7. ASSUME NEW p \in Procs, Read(p) PROVE Counted'
  BY <1>7 DEF Read, Goto
<1>8. ASSUME NEW p \in Procs, Clean(p) PROVE Counted'
  BY <1>8 DEF Clean, Goto
<1>9. ASSUME NEW p \in Procs, Abandon(p) PROVE Counted'
  BY <1>9 DEF Abandon, Goto, Ends
<1>10. ASSUME NEW p \in Procs, OpenTemp(p) PROVE Counted'
  BY <1>10 DEF OpenTemp, Goto
<1>11. ASSUME NEW p \in Procs, AssertOwned(p) PROVE Counted'
  BY <1>11 DEF AssertOwned, Goto
<1>12. ASSUME NEW p \in Procs, CommitFails(p) PROVE Counted'
  BY <1>12 DEF CommitFails, Goto, Ends
<1>13. ASSUME NEW p \in Procs, Rename(p) PROVE Counted'
  <2>1. pc[p] = "rename" /\ manifest' = draft[p] /\ outcome' = outcome
    BY <1>13 DEF Rename
  <2>2. /\ manifest'.revision = manifest.revision + 1
        /\ manifest'.applied = manifest.applied \cup {Mine(p)}
    BY <2>1
  <2>3. Mine(p) \notin manifest.applied
    BY <2>1 DEF ManifestKept, Kept, MayFail
  <2>4. IsFiniteSet(manifest.applied) /\ manifest.revision = Cardinality(manifest.applied)
    OBVIOUS
  <2> HIDE DEF IInv, Counted
  <2>5. /\ IsFiniteSet(manifest'.applied)
        /\ Cardinality(manifest'.applied) = Cardinality(manifest.applied) + 1
    BY <2>2, <2>3, <2>4, OneMore
  <2> USE DEF IInv, Counted
  <2> HIDE DEF Committed
  <2>6. Committed' = Committed
    BY <2>1, SameCommitted
  <2> QED BY <2>2, <2>5, <2>6
<1>14. ASSUME NEW p \in Procs, Sync(p) PROVE Counted'
  BY <1>14 DEF Sync, Goto, Ends
<1>15. ASSUME NEW p \in Procs, Reread(p) PROVE Counted'
  BY <1>15 DEF Reread, Goto, Ends
<1>16. ASSUME NEW p \in Procs, Release(p) PROVE Counted'
  BY <1>16 DEF Release, Lost, Reports, Goto
<1>17. ASSUME NEW p \in Procs, ReleaseFails(p) PROVE Counted'
  BY <1>17 DEF ReleaseFails, Reports, Goto
<1> QED BY <1>1, <1>2, <1>3, <1>4, <1>5, <1>6, <1>7, <1>8, <1>9, <1>10, <1>11, <1>12,
      <1>13, <1>14, <1>15, <1>16, <1>17 DEF Next, Step, Commit

-----------------------------------------------------------------------------
(* Every step keeps the invariant. *)
LEMMA StepInv == IInv /\ [Next]_vars => IInv'
<1>1. ASSUME IInv, Next PROVE IInv'
  <2>1. Always'
    BY <1>1, TypeStep, BookkeepingStep, ManifestStep, DraftsStep DEF Always
  <2>2. overlapped \subseteq overlapped'
    BY <1>1
    DEF Next, Step, Commit, Update, Heartbeat, Crash, GoStale, Acquire, AcquireFails, Read,
        Clean, Abandon, OpenTemp, AssertOwned, CommitFails, Rename, Sync, Reread, Release,
        ReleaseFails
  <2>3. ASSUME overlapped' = {} PROVE Undisturbed'
    BY <1>1, <2>2, <2>3, HolderStep, CurrentStep, CountStep DEF Undisturbed
  <2> QED BY <2>1, <2>3 DEF IInv
<1>2. ASSUME IInv, UNCHANGED vars PROVE IInv'
  BY <1>2 DEF IInv, Always, vars, TypeOK, Updating, ResultsPending, Unreported, ManifestKept,
              DraftsKept, Kept, MayFail, Mine, Undisturbed, OneHolder, DraftIsCurrent,
              Counted, Committed
<1> QED BY <1>1, <1>2

(* The invariant holds in every state, for any processes and updates          *)
(* (storage.ts: update, commit, withLock).                                    *)
THEOREM InductiveInvariant == Spec => []IInv
  BY InitInv, StepInv, PTL DEF Spec

(* What was reported as not committed is not in the manifest, whatever locks  *)
(* are lost (storage.ts: commit's renamed flag, update's error mapping).      *)
THEOREM FailureIsFinal == Spec => []FailedIsAbsent
<1>1. IInv => FailedIsAbsent
  BY DEF IInv, Always, ManifestKept, Kept, FailedIsAbsent
<1> QED BY <1>1, InductiveInvariant, PTL

(* What was reported committed stays, one revision for each update, as long   *)
(* as no holder's lock was taken (storage.ts: withLock around update).        *)
THEOREM AcknowledgedStays == Spec => []AcknowledgedSurvives
<1>1. IInv => AcknowledgedSurvives
  BY DEF IInv, Undisturbed, Counted, AcknowledgedSurvives
<1> QED BY <1>1, InductiveInvariant, PTL

(* What update() reports, failure or success, is true of the manifest (storage.ts). *)
THEOREM ReportsAreTrue == Spec => []OutcomesAreTrue
  BY FailureIsFinal, AcknowledgedStays, PTL DEF OutcomesAreTrue

-----------------------------------------------------------------------------
(* The atomic catalog.  For it one must also know that what a process has done with  *)
(* an update is told, and what it is told where the manifest has it.                 *)

(* A process that is idle has an answer to each of its updates. *)
Answered ==
  \A p \in Procs, k \in 1..MaxUpdates :
    k < n[p] \/ (k = n[p] /\ pc[p] = "idle") => outcome[<<p, k>>] # "none"

(* An operation that is over has a result, and a draft has the update in it. *)
Drafted ==
  \A p \in Procs : /\ pc[p] = "release" => result[p] # "none"
                   /\ pc[p] \in Writing => Mine(p) \in draft[p].applied

(* Until a lock is lost, what may have been committed is. *)
MaybeApplied ==
  overlapped = {} => \A p \in Procs : result[p] = "indeterminate" => Mine(p) \in manifest.applied

Told == Answered /\ Drafted /\ MaybeApplied

LEMMA AnsweredStep ==
  ASSUME IInv, Answered, Drafted, Next
  PROVE  Answered'
<1> USE DEF IInv, Always, TypeOK, Updating, ResultsPending, Answered, Holding, Updates, Mine
<1>1. ASSUME NEW p \in Procs, Update(p) PROVE Answered'
  <2>1. n[p] \in Nat /\ n' = [n EXCEPT ![p] = n[p] + 1] /\ outcome' = outcome
    BY <1>1 DEF Update
  <2>2. pc[p] = "idle" /\ pc' = [pc EXCEPT ![p] = "acquire"]
    BY <1>1 DEF Update, Goto
  <2>3. ASSUME NEW q \in Procs, NEW k \in 1..MaxUpdates,
               k < n'[q] \/ (k = n'[q] /\ pc'[q] = "idle")
        PROVE  k < n[q] \/ (k = n[q] /\ pc[q] = "idle")
    <3>1. CASE q = p
      <4>1. n'[q] = n[q] + 1 /\ pc'[q] = "acquire" /\ n[q] \in Int /\ k \in Int
        BY <2>1, <2>2, <3>1
      <4>2. k < n[q] + 1
        BY <2>3, <4>1
      <4>3. k <= n[q]
        BY <4>1, <4>2
      <4>4. pc[q] = "idle"
        BY <2>2, <3>1
      <4> HIDE DEF IInv, Answered
      <4> QED BY <4>1, <4>3, <4>4
    <3>2. CASE q # p
      BY <2>1, <2>2, <2>3, <3>2
    <3> QED BY <3>1, <3>2
  <2> QED BY <2>1, <2>3
<1>2. ASSUME NEW p \in Procs, Heartbeat(p) PROVE Answered'
  BY <1>2 DEF Heartbeat
<1>3. ASSUME NEW p \in Procs, Crash(p) PROVE Answered'
  BY <1>3 DEF Crash, Goto
<1>4. CASE GoStale
  BY <1>4 DEF GoStale
<1>5. ASSUME NEW p \in Procs, Acquire(p) PROVE Answered'
  BY <1>5 DEF Acquire, Lost, Goto
<1>6. ASSUME NEW p \in Procs, AcquireFails(p) PROVE Answered'
  BY <1>6 DEF AcquireFails, Goto
<1>7. ASSUME NEW p \in Procs, Read(p) PROVE Answered'
  BY <1>7 DEF Read, Goto
<1>8. ASSUME NEW p \in Procs, Clean(p) PROVE Answered'
  BY <1>8 DEF Clean, Goto
<1>9. ASSUME NEW p \in Procs, Abandon(p) PROVE Answered'
  BY <1>9 DEF Abandon, Ends, Goto
<1>10. ASSUME NEW p \in Procs, OpenTemp(p) PROVE Answered'
  BY <1>10 DEF OpenTemp, Goto
<1>11. ASSUME NEW p \in Procs, AssertOwned(p) PROVE Answered'
  BY <1>11 DEF AssertOwned, Goto
<1>12. ASSUME NEW p \in Procs, CommitFails(p) PROVE Answered'
  BY <1>12 DEF CommitFails, Ends, Goto
<1>13. ASSUME NEW p \in Procs, Rename(p) PROVE Answered'
  BY <1>13 DEF Rename, Goto
<1>14. ASSUME NEW p \in Procs, Sync(p) PROVE Answered'
  BY <1>14 DEF Sync, Ends, Goto
<1>15. ASSUME NEW p \in Procs, Reread(p) PROVE Answered'
  BY <1>15 DEF Reread, Ends, Goto
<1>16. ASSUME NEW p \in Procs, Release(p) PROVE Answered'
  BY <1>16 DEF Release, Lost, Reports, Goto, Drafted
<1>17. ASSUME NEW p \in Procs, ReleaseFails(p) PROVE Answered'
  BY <1>17 DEF ReleaseFails, Reports, Goto, Drafted
<1> QED BY <1>1, <1>2, <1>3, <1>4, <1>5, <1>6, <1>7, <1>8, <1>9, <1>10, <1>11, <1>12,
      <1>13, <1>14, <1>15, <1>16, <1>17 DEF Next, Step, Commit

LEMMA DraftedStep ==
  ASSUME IInv, Drafted, Next
  PROVE  Drafted'
<1> USE DEF IInv, Always, TypeOK, Updating, Drafted, Holding, Writing, Mine
<1>1. ASSUME NEW p \in Procs, Update(p) PROVE Drafted'
  BY <1>1 DEF Update, Goto
<1>2. ASSUME NEW p \in Procs, Heartbeat(p) PROVE Drafted'
  BY <1>2 DEF Heartbeat
<1>3. ASSUME NEW p \in Procs, Crash(p) PROVE Drafted'
  BY <1>3 DEF Crash, Goto
<1>4. CASE GoStale
  BY <1>4 DEF GoStale
<1>5. ASSUME NEW p \in Procs, Acquire(p) PROVE Drafted'
  BY <1>5 DEF Acquire, Lost, Goto
<1>6. ASSUME NEW p \in Procs, AcquireFails(p) PROVE Drafted'
  BY <1>6 DEF AcquireFails, Goto
<1>7. ASSUME NEW p \in Procs, Read(p) PROVE Drafted'
  BY <1>7 DEF Read, Goto
<1>8. ASSUME NEW p \in Procs, Clean(p) PROVE Drafted'
  BY <1>8 DEF Clean, Goto
<1>9. ASSUME NEW p \in Procs, Abandon(p) PROVE Drafted'
  BY <1>9 DEF Abandon, Ends, Goto
<1>10. ASSUME NEW p \in Procs, OpenTemp(p) PROVE Drafted'
  BY <1>10 DEF OpenTemp, Goto
<1>11. ASSUME NEW p \in Procs, AssertOwned(p) PROVE Drafted'
  BY <1>11 DEF AssertOwned, Goto
<1>12. ASSUME NEW p \in Procs, CommitFails(p) PROVE Drafted'
  BY <1>12 DEF CommitFails, Ends, Goto
<1>13. ASSUME NEW p \in Procs, Rename(p) PROVE Drafted'
  BY <1>13 DEF Rename, Goto
<1>14. ASSUME NEW p \in Procs, Sync(p) PROVE Drafted'
  BY <1>14 DEF Sync, Ends, Goto
<1>15. ASSUME NEW p \in Procs, Reread(p) PROVE Drafted'
  BY <1>15 DEF Reread, Ends, Goto
<1>16. ASSUME NEW p \in Procs, Release(p) PROVE Drafted'
  BY <1>16 DEF Release, Lost, Reports, Goto
<1>17. ASSUME NEW p \in Procs, ReleaseFails(p) PROVE Drafted'
  BY <1>17 DEF ReleaseFails, Reports, Goto
<1> QED BY <1>1, <1>2, <1>3, <1>4, <1>5, <1>6, <1>7, <1>8, <1>9, <1>10, <1>11, <1>12,
      <1>13, <1>14, <1>15, <1>16, <1>17 DEF Next, Step, Commit

LEMMA MaybeAppliedStep ==
  ASSUME IInv, MaybeApplied, Next, overlapped = {}, overlapped' = {}
  PROVE  MaybeApplied'
<1> USE DEF IInv, Always, TypeOK, Updating, ResultsPending, Undisturbed, OneHolder, DraftIsCurrent,
            MaybeApplied, Holding, Writing, Mine
<1>1. ASSUME NEW p \in Procs, Update(p) PROVE MaybeApplied'
  BY <1>1 DEF Update, Goto
<1>2. ASSUME NEW p \in Procs, Heartbeat(p) PROVE MaybeApplied'
  BY <1>2 DEF Heartbeat
<1>3. ASSUME NEW p \in Procs, Crash(p) PROVE MaybeApplied'
  BY <1>3 DEF Crash, Goto
<1>4. CASE GoStale
  BY <1>4 DEF GoStale
<1>5. ASSUME NEW p \in Procs, Acquire(p) PROVE MaybeApplied'
  BY <1>5 DEF Acquire, Lost, Goto
<1>6. ASSUME NEW p \in Procs, AcquireFails(p) PROVE MaybeApplied'
  BY <1>6 DEF AcquireFails, Goto
<1>7. ASSUME NEW p \in Procs, Read(p) PROVE MaybeApplied'
  BY <1>7 DEF Read, Goto
<1>8. ASSUME NEW p \in Procs, Clean(p) PROVE MaybeApplied'
  BY <1>8 DEF Clean, Goto
<1>9. ASSUME NEW p \in Procs, Abandon(p) PROVE MaybeApplied'
  BY <1>9 DEF Abandon, Ends, Goto
<1>10. ASSUME NEW p \in Procs, OpenTemp(p) PROVE MaybeApplied'
  BY <1>10 DEF OpenTemp, Goto
<1>11. ASSUME NEW p \in Procs, AssertOwned(p) PROVE MaybeApplied'
  BY <1>11 DEF AssertOwned, Goto
<1>12. ASSUME NEW p \in Procs, CommitFails(p) PROVE MaybeApplied'
  BY <1>12 DEF CommitFails, Ends, Goto
<1>13. ASSUME NEW p \in Procs, Rename(p) PROVE MaybeApplied'
  BY <1>13 DEF Rename, Goto
<1>14. ASSUME NEW p \in Procs, Sync(p) PROVE MaybeApplied'
  BY <1>14 DEF Sync, Ends, Goto
<1>15. ASSUME NEW p \in Procs, Reread(p) PROVE MaybeApplied'
  BY <1>15 DEF Reread, Ends, Goto
<1>16. ASSUME NEW p \in Procs, Release(p) PROVE MaybeApplied'
  BY <1>16 DEF Release, Lost, Reports, Goto
<1>17. ASSUME NEW p \in Procs, ReleaseFails(p) PROVE MaybeApplied'
  BY <1>17 DEF ReleaseFails, Reports, Goto
<1> QED BY <1>1, <1>2, <1>3, <1>4, <1>5, <1>6, <1>7, <1>8, <1>9, <1>10, <1>11, <1>12,
      <1>13, <1>14, <1>15, <1>16, <1>17 DEF Next, Step, Commit

LEMMA NoLockComesBack == Next => overlapped \subseteq overlapped'
  BY DEF Next, Step, Commit, Update, Heartbeat, Crash, GoStale, Acquire, AcquireFails, Read,
         Clean, Abandon, OpenTemp, AssertOwned, CommitFails, Rename, Sync, Reread, Release,
         ReleaseFails

LEMMA ToldStep == IInv /\ Told /\ [Next]_vars => Told'
<1>1. ASSUME IInv, Told, Next PROVE Told'
  <2>1. Answered' /\ Drafted'
    BY <1>1, AnsweredStep, DraftedStep DEF Told
  <2>2. ASSUME overlapped' = {} PROVE MaybeApplied'
    BY <1>1, <2>2, NoLockComesBack, MaybeAppliedStep DEF Told
  <2> QED BY <2>1, <2>2 DEF Told, MaybeApplied
<1>2. ASSUME IInv, Told, UNCHANGED vars PROVE Told'
  BY <1>2 DEF vars, Told, Answered, Drafted, MaybeApplied, Mine
<1> QED BY <1>1, <1>2

THEOREM ToldInvariant == Spec => []Told
<1>1. Init => Told
  BY CatalogAssumption DEF Init, Told, Answered, Drafted, MaybeApplied, Writing
<1> QED BY <1>1, InductiveInvariant, ToldStep, PTL DEF Spec

(* What each process knows of its updates, as the refinement sees it. *)
answers == [u \in Updates |-> AnswerOf(u)]

LEMMA AnswersStay == n' = n /\ outcome' = outcome => answers' = answers
  BY DEF answers, AnswerOf

(* A process inside update() has no answer yet, and has one for each update before. *)
LEMMA AnswerPending ==
  ASSUME IInv, NEW p \in Procs, pc[p] \notin {"idle", "dead"}
  PROVE  Mine(p) \in Updates /\ answers[Mine(p)] = "none"
<1>1. Mine(p) \in Updates
  BY MineIsUpdate DEF IInv, Always
<1>2. outcome[Mine(p)] = "none" /\ n[p] \in Int
  BY <1>1 DEF IInv, Always, TypeOK, Unreported, Updating, Mine
<1> QED BY <1>1, <1>2 DEF answers, AnswerOf, Mine

(* A report is the answer to the update the process is at. *)
LEMMA ReportAnswers ==
  ASSUME TypeOK, NEW p \in Procs, Mine(p) \in Updates, NEW r, r # "none",
         n' = n, outcome' = [outcome EXCEPT ![Mine(p)] = r]
  PROVE  answers' = [answers EXCEPT ![Mine(p)] = r]
<1>1. \A u \in Updates : outcome'[u] = IF u = Mine(p) THEN r ELSE outcome[u]
  BY DEF TypeOK
<1> QED BY <1>1 DEF answers, AnswerOf

(* Every action is one of the atomic catalog or changes nothing it has. *)
LEMMA UpdateAsks ==
  ASSUME IInv, Told, NEW p \in Procs, Update(p)
  PROVE  \E u \in Updates : Atomic!Ask(u)
<1> DEFINE u == <<p, n[p] + 1>>
<1>1. /\ pc[p] = "idle" /\ n[p] \in Nat /\ n[p] < MaxUpdates /\ n' = [n EXCEPT ![p] = n[p] + 1]
      /\ UNCHANGED <<manifest, outcome, overlapped>>
  BY DEF Update, IInv, Always, TypeOK
<1>2. u \in Updates
  BY <1>1, CatalogAssumption DEF Updates
<1>3. outcome[u] = "none"
  BY <1>1, <1>2, CatalogAssumption DEF IInv, Always, Unreported, Updates
<1>4. answers[u] = "unasked"
  BY <1>1, <1>2, <1>3 DEF answers, AnswerOf
<1>5. ASSUME NEW v \in Updates, v[1] = u[1], v[2] < u[2]
      PROVE  answers[v] \notin {"unasked", "none"}
  <2>1. v[1] = p /\ v[2] \in 1..MaxUpdates /\ v = <<p, v[2]>> /\ v[2] < n[p] + 1
    BY <1>5 DEF Updates
  <2>2. v[2] < n[p] \/ v[2] = n[p]
    BY <1>1, <2>1
  <2>3. outcome[v] # "none" /\ outcome[v] \in Outcomes
    BY <1>1, <2>1, <2>2 DEF Told, Answered, IInv, Always, TypeOK
  <2> QED BY <2>3 DEF answers, AnswerOf, Outcomes
<1>6. answers' = [answers EXCEPT ![u] = "none"]
  <2>1. ASSUME NEW v \in Updates PROVE AnswerOf(v)' = IF v = u THEN "none" ELSE AnswerOf(v)
    <3>1. CASE v = u
      BY <1>1, <1>3, <3>1 DEF AnswerOf, IInv, Always, TypeOK
    <3>2. CASE v # u /\ v[1] = p
      <4>1. v[2] \in 1..MaxUpdates /\ v[2] # n[p] + 1 /\ n'[v[1]] = n[p] + 1
        BY <1>1, <3>2 DEF Updates, IInv, Always, TypeOK
      <4>2. v[2] <= n'[v[1]] <=> v[2] <= n[v[1]]
        BY <1>1, <3>2, <4>1
      <4> QED BY <1>1, <3>2, <4>2 DEF AnswerOf
    <3>3. CASE v[1] # p
      BY <1>1, <3>3 DEF AnswerOf, Updates, IInv, Always, TypeOK
    <3> QED BY <3>1, <3>2, <3>3
  <2> QED BY <2>1, <1>2 DEF answers
<1> QED BY <1>1, <1>2, <1>4, <1>5, <1>6 DEF Atomic!Ask, Atomic!Updates, Updates, answers

LEMMA AcquireRefines ==
  ASSUME IInv, NEW p \in Procs, Acquire(p) \/ AcquireFails(p)
  PROVE  [Atomic!Next]_Atomic!catalogVars
<1>1. CASE Acquire(p)
  <2>1. UNCHANGED <<manifest, n, outcome>> /\ overlapped \subseteq overlapped'
    BY <1>1 DEF Acquire
  <2>2. UNCHANGED answers
    BY <2>1, AnswersStay
  <2> QED BY <2>1, <2>2 DEF Atomic!Next, Atomic!LoseLock, Atomic!catalogVars, answers
<1>2. CASE AcquireFails(p)
  <2>1. /\ pc[p] = "acquire" /\ outcome' = [outcome EXCEPT ![Mine(p)] = "failed"]
        /\ UNCHANGED <<manifest, n, overlapped>>
    BY <1>2 DEF AcquireFails
  <2>2. Mine(p) \in Updates /\ answers[Mine(p)] = "none"
    BY <2>1, AnswerPending
  <2>3. Mine(p) \notin manifest.applied
    BY <2>1 DEF IInv, Always, ManifestKept, Kept, MayFail, Mine
  <2>4. answers' = [answers EXCEPT ![Mine(p)] = "failed"]
    BY <2>1, <2>2, ReportAnswers DEF IInv, Always
  <2>5. Atomic!Refuse(Mine(p))
    BY <2>1, <2>2, <2>3, <2>4 DEF Atomic!Refuse, Atomic!Updates, Updates, answers
  <2> QED BY <2>2, <2>5 DEF Atomic!Next, Atomic!Updates, Updates
<1> QED BY <1>1, <1>2

LEMMA RenameRefines ==
  ASSUME IInv, Told, NEW p \in Procs, Rename(p)
  PROVE  Atomic!Next
<1>1. pc[p] = "rename" /\ manifest' = draft[p] /\ UNCHANGED <<n, outcome, overlapped>>
  BY DEF Rename
<1>2. Mine(p) \in Updates /\ answers[Mine(p)] = "none" /\ UNCHANGED answers
  BY <1>1, AnswerPending, AnswersStay
<1>3. CASE overlapped = {}
  <2>1. /\ manifest'.revision = manifest.revision + 1
        /\ manifest'.applied = manifest.applied \cup {Mine(p)}
    BY <1>1, <1>3 DEF IInv, Undisturbed, DraftIsCurrent, Writing
  <2>2. Mine(p) \notin manifest.applied
    BY <1>1 DEF IInv, Always, ManifestKept, Kept, MayFail, Writing, Mine
  <2>3. Atomic!Apply(Mine(p))
    BY <1>1, <1>2, <1>3, <2>1, <2>2 DEF Atomic!Apply, Atomic!Updates, Updates, answers
  <2> QED BY <1>2, <2>3 DEF Atomic!Next, Atomic!Updates, Updates
<1>4. CASE overlapped # {}
  <2>1. Mine(p) \in manifest'.applied /\ manifest' \in Manifests
    BY <1>1 DEF Told, Drafted, Writing, IInv, Always, TypeOK
  <2>2. ASSUME NEW v \in manifest'.applied
        PROVE  v \in Updates /\ answers[v] \notin {"unasked", "failed"}
    <3>1. v \in Updates
      BY <2>1 DEF Manifests
    <3>2. v = Mine(p) \/ Kept(v)
      BY <1>1 DEF IInv, Always, DraftsKept, Writing
    <3>3. CASE Kept(v)
      BY <3>1, <3>3 DEF Kept, answers, AnswerOf, IInv, Always, TypeOK, Outcomes
    <3> QED BY <1>2, <3>1, <3>2, <3>3
  <2>3. Atomic!Overwrite(Mine(p))
    BY <1>1, <1>2, <1>4, <2>1, <2>2
    DEF Atomic!Overwrite, Atomic!Updates, Updates, answers, Manifests
  <2> QED BY <1>2, <2>3 DEF Atomic!Next, Atomic!Updates, Updates
<1> QED BY <1>3, <1>4

(* The end of withLock(): what the operation came to is what the caller is told. *)
LEMMA ReleaseRefines ==
  ASSUME IInv, Told, NEW p \in Procs, Release(p) \/ ReleaseFails(p)
  PROVE  Atomic!Next
<1>1. PICK r \in {result[p], IF result[p] = "ok" THEN "releaseFailed" ELSE result[p]} :
        outcome' = [outcome EXCEPT ![Mine(p)] = r]
  BY DEF Release, ReleaseFails, Reports
<1>2. pc[p] = "release" /\ UNCHANGED <<manifest, n>>
  BY DEF Release, ReleaseFails
<1>3. (overlapped' = {}) = (overlapped = {})
  <2>1. CASE overlapped = {}
    <3>1. lock = p \/ ReleaseFails(p)
      BY <1>2, <2>1 DEF IInv, Undisturbed, OneHolder, Holding
    <3> QED BY <2>1, <3>1 DEF Release, ReleaseFails, Lost
  <2>2. CASE overlapped # {}
    BY <2>2 DEF Release, ReleaseFails
  <2> QED BY <2>1, <2>2
<1>4. Mine(p) \in Updates /\ answers[Mine(p)] = "none"
  BY <1>2, AnswerPending
<1>5. result[p] \in {"ok", "indeterminate", "failed"}
  BY <1>2 DEF Told, Drafted, IInv, Always, TypeOK, Outcomes
<1>6. answers' = [answers EXCEPT ![Mine(p)] = r]
  BY <1>1, <1>2, <1>4, <1>5, ReportAnswers DEF IInv, Always
<1>7. CASE result[p] = "failed"
  <2>1. Mine(p) \notin manifest.applied
    BY <1>2, <1>7 DEF IInv, Always, ManifestKept, Kept, MayFail, Mine
  <2>2. Atomic!Refuse(Mine(p))
    BY <1>1, <1>2, <1>3, <1>4, <1>6, <1>7, <2>1 DEF Atomic!Refuse, Atomic!Updates, Updates, answers
  <2> QED BY <1>4, <2>2 DEF Atomic!Next, Atomic!Updates, Updates
<1>8. CASE result[p] # "failed"
  <2>1. overlapped = {} => Mine(p) \in manifest.applied
    BY <1>5, <1>8 DEF Told, MaybeApplied, IInv, Undisturbed, DraftIsCurrent
  <2>2. r \in {"ok", "releaseFailed", "indeterminate"}
    BY <1>5, <1>8
  <2>3. Atomic!Acknowledge(Mine(p))
    BY <1>2, <1>3, <1>4, <1>6, <2>1, <2>2
    DEF Atomic!Acknowledge, Atomic!Updates, Updates, answers
  <2> QED BY <1>4, <2>3 DEF Atomic!Next, Atomic!Updates, Updates
<1> QED BY <1>7, <1>8

LEMMA AtomicStep ==
  ASSUME IInv, Told, [Next]_vars
  PROVE  [Atomic!Next]_Atomic!catalogVars
<1>1. ASSUME UNCHANGED <<manifest, n, outcome, overlapped>>
      PROVE  UNCHANGED Atomic!catalogVars
  BY <1>1, AnswersStay DEF Atomic!catalogVars, answers
<1>2. ASSUME NEW p \in Procs, Update(p) PROVE Atomic!Next
  BY <1>2, UpdateAsks DEF Atomic!Next, Atomic!Updates, Updates
<1>3. ASSUME NEW p \in Procs, Step(p) PROVE [Atomic!Next]_Atomic!catalogVars
  <2>1. CASE Rename(p) \/ Release(p) \/ ReleaseFails(p)
    BY <2>1, RenameRefines, ReleaseRefines
  <2>2. CASE Acquire(p) \/ AcquireFails(p)
    BY <2>2, AcquireRefines
  <2>3. CASE \/ Read(p) \/ Clean(p) \/ Abandon(p) \/ OpenTemp(p) \/ AssertOwned(p)
             \/ CommitFails(p) \/ Sync(p) \/ Reread(p)
    BY <1>1, <2>3 DEF Read, Clean, Abandon, OpenTemp, AssertOwned, CommitFails, Sync, Reread
  <2> QED BY <1>3, <2>1, <2>2, <2>3 DEF Step, Commit
<1>4. ASSUME NEW p \in Procs, Heartbeat(p) \/ Crash(p) PROVE UNCHANGED Atomic!catalogVars
  BY <1>1, <1>4 DEF Heartbeat, Crash
<1>5. CASE GoStale \/ UNCHANGED vars
  BY <1>1, <1>5 DEF GoStale, vars
<1> QED BY <1>2, <1>3, <1>4, <1>5 DEF Next

(* Updates through the files of a workspace are atomic: each takes effect at once,  *)
(* once and before its caller is told so, and one that is refused never does         *)
(* (storage.ts: update, commit, withLock).                                          *)
THEOREM UpdatesAreAtomic == Spec => ImplementsAtomicCatalog
<1>1. Init => Atomic!Init
  BY DEF Init, Empty, Atomic!Init, Atomic!Updates, Updates, AnswerOf
<1> QED BY <1>1, InductiveInvariant, ToldInvariant, AtomicStep, PTL
        DEF Spec, ImplementsAtomicCatalog, Atomic!Spec

-----------------------------------------------------------------------------
(* NotesStore: a revision that is still current was handed out with the content, and *)
(* who is between its check and the end of its commit is at the head of the queue.     *)
Revisions == {"null", "current", "stale"}
CallKinds == {"none", "read", "write", "create", "edit", "record", "delete"}
CallStates == {"idle", "lookup", "found", "resolve", "missing", "queued", "checked", "verified", "linked", "committed"}
Calls == [kind : CallKinds, at : CallStates, expected : Revisions, target : Revisions]

NoteTypeOK == /\ links \in 0..2 /\ revision \in [Agents -> Revisions] /\ call \in [Agents -> Calls]
              /\ queue \in Seq(Agents) /\ seen \subseteq Agents /\ raced \subseteq Agents

(* The content on disk, if any, is one the agent has seen or could not see. *)
Excused(a) == links = 0 \/ a \in seen \/ a \in raced

CurrentIsSeen == \A a \in Agents : revision[a] = "current" \/ call[a].expected = "current" => Excused(a)

CommitsAreSeen == \A a \in Agents : call[a].at \in {"verified", "linked", "committed"} => Excused(a)

HeadOfQueue ==
  \A a \in Agents : call[a].at \in {"checked", "verified", "linked", "committed"} =>
                       queue # <<>> /\ Head(queue) = a

QueuedWaits == \A a \in Agents : call[a].at = "queued" => \E i \in 1..Len(queue) : queue[i] = a

LinkedIsThere == \A a \in Agents : call[a].at = "linked" /\ call[a].target = "current" => links # 0

NoteInv == NoteTypeOK /\ CurrentIsSeen /\ CommitsAreSeen /\ HeadOfQueue /\ QueuedWaits /\ LinkedIsThere /\ lost = {}

LEMMA NoteInit == Note!Init => NoteInv
<1> SUFFICES ASSUME Note!Init PROVE NoteInv
  OBVIOUS
<1>1. Note!Idle \in Calls
  BY DEF Note!Idle, Calls, CallKinds, CallStates, Revisions
<1> QED BY <1>1 DEF Note!Init, Note!Idle, NoteInv, NoteTypeOK, CurrentIsSeen, CommitsAreSeen, HeadOfQueue,
                     QueuedWaits, LinkedIsThere, Revisions

(* Whoever waits behind the head of the queue still does without it. *)
LEMMA Behind ==
  ASSUME NoteInv, queue # <<>>
  PROVE  /\ Tail(queue) \in Seq(Agents)
         /\ \A b \in Agents : b # Head(queue) /\ (\E i \in 1..Len(queue) : queue[i] = b) =>
                             \E i \in 1..Len(Tail(queue)) : Tail(queue)[i] = b
<1>1. /\ Len(Tail(queue)) = Len(queue) - 1 /\ Head(queue) = queue[1] /\ Tail(queue) \in Seq(Agents)
      /\ \A i \in 1..Len(Tail(queue)) : Tail(queue)[i] = queue[i + 1]
  BY DEF NoteInv, NoteTypeOK
<1>2. ASSUME NEW b \in Agents, b # Head(queue), NEW i \in 1..Len(queue), queue[i] = b
      PROVE  \E k \in 1..Len(Tail(queue)) : Tail(queue)[k] = b
  <2>1. i # 1 /\ i \in Nat /\ Len(queue) \in Nat
    BY <1>1, <1>2 DEF NoteInv, NoteTypeOK
  <2>2. i - 1 \in 1..Len(Tail(queue)) /\ Tail(queue)[i - 1] = queue[(i - 1) + 1] /\ (i - 1) + 1 = i
    BY <2>1, <1>1
  <2> QED BY <2>2, <1>2
<1> QED BY <1>1, <1>2

(* An agent's end takes nobody but itself out of the queue. *)
LEMMA Leaves ==
  ASSUME NoteInv, NEW a \in Agents, Note!Ends(a)
  PROVE  /\ queue' \in Seq(Agents) /\ call' \in [Agents -> Calls]
         /\ \A b \in Agents : \/ call'[b] = Note!Idle
                              \/ /\ call'[b] = call[b]
                                 /\ queue # <<>> /\ Head(queue) = b => queue' = queue
                                 /\ (\E i \in 1..Len(queue) : queue[i] = b) => \E i \in 1..Len(queue') : queue'[i] = b
<1>1. Note!Idle \in Calls
  BY DEF Note!Idle, Calls, CallKinds, CallStates, Revisions
<1>2. /\ queue' \in Seq(Agents) /\ call' \in [Agents -> Calls]
      /\ \A b \in Agents : \/ b = a /\ call'[b] = Note!Idle
                           \/ /\ b # a /\ call'[b] = call[b]
                              /\ queue # <<>> /\ Head(queue) = b => queue' = queue
  BY <1>1, Behind DEF Note!Ends, NoteInv, NoteTypeOK
<1>3. ASSUME NEW b \in Agents, b # a, \E i \in 1..Len(queue) : queue[i] = b
      PROVE  \E i \in 1..Len(queue') : queue'[i] = b
  BY <1>3, Behind DEF Note!Ends
<1> QED BY <1>2, <1>3

LEMMA NoteFails ==
  ASSUME NoteInv, NEW a \in Agents, Note!Fails(a)
  PROVE  NoteInv'
<1> USE DEF Note!Fails
<1>1. UNCHANGED <<links, revision, seen, raced, lost>>
  OBVIOUS
<1>2. Note!Idle.at = "idle" /\ Note!Idle.expected = "null"
  BY DEF Note!Idle
<1> QED BY <1>1, <1>2, Leaves DEF NoteInv, NoteTypeOK, CurrentIsSeen, CommitsAreSeen, HeadOfQueue, QueuedWaits, LinkedIsThere, Excused

(* A call goes on where nothing is committed. *)
LEMMA NoteMoves ==
  ASSUME NoteInv, NEW a \in Agents, NEW c \in Calls, call' = [call EXCEPT ![a] = c],
         UNCHANGED <<links, revision, seen, raced, lost>>,
         queue' = queue \/ queue' = Append(queue, a),
         c.expected = "current" => Excused(a),
         c.at \in {"verified", "linked", "committed"} => Excused(a),
         c.at \in {"checked", "verified", "linked", "committed"} => queue # <<>> /\ Head(queue) = a,
         c.at # "linked", c.at = "queued" => queue' = Append(queue, a)
  PROVE  NoteInv'
<1>1. /\ queue' \in Seq(Agents) /\ (queue # <<>> => queue' # <<>> /\ Head(queue') = Head(queue))
      /\ Len(queue') >= Len(queue) /\ \A i \in 1..Len(queue) : queue'[i] = queue[i]
      /\ queue' = Append(queue, a) => Len(queue') \in 1..Len(queue') /\ queue'[Len(queue')] = a
  BY DEF NoteInv, NoteTypeOK
<1>2. \A b \in Agents : (\E i \in 1..Len(queue) : queue[i] = b) => \E i \in 1..Len(queue') : queue'[i] = b
  BY <1>1 DEF NoteInv, NoteTypeOK
<1> QED BY <1>1, <1>2 DEF NoteInv, NoteTypeOK, CurrentIsSeen, CommitsAreSeen, HeadOfQueue, QueuedWaits, LinkedIsThere, Excused

LEMMA BeginStep ==
  ASSUME NoteInv, NEW a \in Agents,
         Note!readAction(a) \/ Note!writeAction(a) \/ Note!editAction(a) \/ Note!deleteAction(a) \/ Note!recordAction(a)
  PROVE  NoteInv'
<1>1. PICK kind \in CallKinds, where \in {"lookup", "resolve", "missing"}, expected \in {"null", revision[a]} :
        Note!Begins(a, kind, where, expected)
  BY DEF Note!readAction, Note!writeAction, Note!editAction, Note!deleteAction, Note!recordAction, CallKinds
<1> DEFINE c == [kind |-> kind, at |-> where, expected |-> expected, target |-> "null"]
<1>2. c \in Calls /\ (c.expected = "current" => Excused(a))
  BY DEF NoteInv, NoteTypeOK, CurrentIsSeen, Calls, CallStates, Revisions
<1>3. /\ call' = [call EXCEPT ![a] = c] /\ queue' = queue /\ UNCHANGED <<links, revision, seen, raced, lost>>
      /\ c.at \notin {"queued", "checked", "verified", "linked", "committed"}
  BY <1>1 DEF Note!Begins
<1> HIDE DEF c
<1> QED BY <1>2, <1>3, NoteMoves

(* The steps of a call before its commit. *)
LEMMA PrepareStep ==
  ASSUME NoteInv, NEW a \in Agents,
         \/ Note!Lookup(a) \/ Note!ReadNote(a) \/ Note!Resolve(a) \/ Note!RequireMissing(a)
         \/ Note!Check(a) \/ Note!CheckFails(a) \/ Note!Verify(a) \/ Note!Abort(a)
  PROVE  NoteInv'
<1>0. call \in [Agents -> Calls] /\ (call[a].expected = "current" => Excused(a))
  BY DEF NoteInv, NoteTypeOK, CurrentIsSeen
<1>1. ASSUME NEW where \in {"found", "missing", "queued", "checked", "verified"}, NEW target \in Revisions,
             call' = [call EXCEPT ![a] = [call[a] EXCEPT !.at = where, !.target = target]],
             UNCHANGED <<links, revision, seen, raced, lost>>,
             IF where = "queued" THEN queue' = Append(queue, a) ELSE queue' = queue,
             where \in {"checked", "verified"} => queue # <<>> /\ Head(queue) = a,
             where = "verified" => Excused(a)
      PROVE  NoteInv'
  <2> DEFINE c == [call[a] EXCEPT !.at = where, !.target = target]
  <2>1. c \in Calls /\ c.at = where /\ c.expected = call[a].expected
    BY <1>0 DEF Calls, CallStates, Revisions
  <2>2. call' = [call EXCEPT ![a] = c]
    BY <1>1
  <2> HIDE DEF c
  <2> QED BY <1>0, <1>1, <2>1, <2>2, NoteMoves
<1>2. CASE Note!Lookup(a)
  <2>1. CASE Note!Resolvable
    <3>1. call' = [call EXCEPT ![a] = [call[a] EXCEPT !.at = "found", !.target = "current"]]
      <4>1. call' = [call EXCEPT ![a].at = "found", ![a].target = "current"]
        BY <1>2, <2>1 DEF Note!Lookup, Note!Resolvable, Note!Absent
      <4> QED BY <4>1, <1>0 DEF Calls
    <3>2. UNCHANGED <<links, revision, seen, raced, lost, queue>>
      BY <1>2, <2>1, <1>0 DEF Note!Lookup, Note!Resolvable, Note!Absent
    <3> QED BY <3>1, <3>2, <1>1 DEF Revisions
  <2>2. CASE ~Note!Resolvable /\ Note!Absent /\ call[a].kind = "record"
    <3>1. call' = [call EXCEPT ![a] = [call[a] EXCEPT !.at = "missing", !.target = call[a].target]]
      BY <1>2, <2>2, <1>0 DEF Note!Lookup, Note!Move, Calls
    <3> QED BY <1>2, <2>2, <3>1, <1>1, <1>0 DEF Note!Lookup, Calls
  <2> QED BY <1>2, <2>1, <2>2, NoteFails DEF Note!Lookup
<1>3. CASE Note!Resolve(a)
  <2>1. CASE Note!Resolvable
    BY <1>3, <2>1, <1>1, <1>0 DEF Note!Resolve, Revisions
  <2> QED BY <1>3, <2>1, NoteFails DEF Note!Resolve
<1>4. CASE Note!RequireMissing(a)
  <2>1. CASE Note!Absent
    <3>1. call' = [call EXCEPT ![a] = [call[a] EXCEPT !.at = "queued", !.target = call[a].target]]
      BY <1>4, <2>1, <1>0 DEF Note!RequireMissing, Note!Move, Calls
    <3> QED BY <1>4, <2>1, <3>1, <1>1, <1>0 DEF Note!RequireMissing, Calls
  <2> QED BY <1>4, <2>1, NoteFails DEF Note!RequireMissing
<1>5. CASE Note!Check(a)
  <2>1. queue # <<>>
    BY <1>5 DEF Note!Check, NoteInv, NoteTypeOK, QueuedWaits
  <2>2. call' = [call EXCEPT ![a] = [call[a] EXCEPT !.at = "checked", !.target = call[a].target]]
    BY <1>5, <1>0 DEF Note!Check, Note!Move, Calls
  <2> QED BY <1>5, <2>1, <2>2, <1>1, <1>0 DEF Note!Check, Calls
<1>6. CASE Note!Verify(a)
  <2>1. CASE Note!verifyCurrent(a)
    <3>1. call' = [call EXCEPT ![a] = [call[a] EXCEPT !.at = "verified", !.target = call[a].target]]
      BY <1>6, <2>1, <1>0 DEF Note!Verify, Note!Move, Calls
    <3>2. queue # <<>> /\ Head(queue) = a /\ Excused(a)
      BY <1>0, <1>6, <2>1 DEF Note!Verify, Note!verifyCurrent, Note!Unchanged, NoteInv, HeadOfQueue
    <3> QED BY <1>6, <2>1, <3>1, <3>2, <1>1, <1>0 DEF Note!Verify, Calls
  <2> QED BY <1>6, <2>1, NoteFails DEF Note!Verify
<1>7. CASE Note!ReadNote(a)
  <2>1. CASE Note!Absent \/ call[a].target # "current"
    BY <1>7, <2>1, NoteFails DEF Note!ReadNote
  <2>2. CASE ~(Note!Absent \/ call[a].target # "current")
    <3>1. /\ call[a].at = "found" /\ seen' = seen \cup {a} /\ UNCHANGED <<links, raced, lost>>
          /\ \/ Note!Ends(a) /\ revision' \in {revision, [revision EXCEPT ![a] = "current"]}
             \/ /\ call' = [call EXCEPT ![a] = [call[a] EXCEPT !.at = "resolve", !.expected = "current"]]
                /\ UNCHANGED <<queue, revision>>
      BY <1>7, <2>2, <1>0 DEF Note!ReadNote, Calls
    <3>2. CASE Note!Ends(a)
      <4>1. Note!Idle.at = "idle" /\ Note!Idle.expected = "null"
        BY DEF Note!Idle
      <4>2. \A b \in Agents : (Excused(b) => Excused(b)') /\ Excused(a)'
        BY <3>1 DEF Excused
      <4> QED BY <3>1, <3>2, <4>1, <4>2, Leaves DEF NoteInv, NoteTypeOK, CurrentIsSeen, CommitsAreSeen, HeadOfQueue,
                                                QueuedWaits, LinkedIsThere, Revisions
    <3>3. CASE ~Note!Ends(a)
      <4>1. \A b \in Agents : (Excused(b) => Excused(b)') /\ Excused(a)'
        BY <3>1 DEF Excused
      <4>2. [call[a] EXCEPT !.at = "resolve", !.expected = "current"] \in Calls
        BY <1>0 DEF Calls, CallStates, Revisions
      <4> DEFINE c == [call[a] EXCEPT !.at = "resolve", !.expected = "current"]
      <4>3. call' = [call EXCEPT ![a] = c] /\ c \in Calls /\ c.at = "resolve" /\ UNCHANGED <<queue, revision>>
        BY <3>1, <3>3, <1>0, <4>2 DEF Calls
      <4> HIDE DEF c
      <4>4. NoteTypeOK' /\ lost' = {}
        BY <3>1, <4>3, <1>0 DEF NoteInv, NoteTypeOK
      <4>5. \A b \in Agents : b # a => call'[b] = call[b]
        BY <4>3, <1>0
      <4>6. call'[a] = c
        BY <4>3, <1>0
      <4>7. CurrentIsSeen' /\ CommitsAreSeen'
        BY <4>1, <4>3, <4>5, <4>6 DEF NoteInv, CurrentIsSeen, CommitsAreSeen
      <4>8. HeadOfQueue' /\ QueuedWaits' /\ LinkedIsThere'
        BY <3>1, <4>3, <4>5, <4>6 DEF NoteInv, HeadOfQueue, QueuedWaits, LinkedIsThere
      <4> QED BY <4>4, <4>7, <4>8 DEF NoteInv
    <3> QED BY <3>2, <3>3
  <2> QED BY <2>1, <2>2
<1>8. CASE Note!CheckFails(a) \/ Note!Abort(a)
  BY <1>8, NoteFails DEF Note!CheckFails, Note!Abort
<1> QED BY <1>2, <1>3, <1>4, <1>5, <1>6, <1>7, <1>8
(* Whoever commits is alone between its check and the end of its commit. *)
LEMMA CommitsAlone ==
  ASSUME NoteInv, NEW a \in Agents, call[a].at \in {"checked", "verified", "linked", "committed"}
  PROVE  /\ queue # <<>> /\ Head(queue) = a
         /\ \A b \in Agents \ {a} : call[b].at \notin {"checked", "verified", "linked", "committed"}
  BY DEF NoteInv, HeadOfQueue

(* What is out of date is not current, and nothing else of a call changes. *)
LEMMA OutOfDate ==
  ASSUME NoteInv, NEW inPlace \in BOOLEAN
  PROVE  /\ Note!Outdated(inPlace) \in [Agents -> Calls]
         /\ Note!Outdates => revision' \in [Agents -> Revisions] /\ \A b \in Agents : revision'[b] # "current"
         /\ \A b \in Agents : /\ Note!Outdated(inPlace)[b].expected # "current"
                              /\ Note!Outdated(inPlace)[b].at = call[b].at
                              /\ Note!Outdated(inPlace)[b].target \in {call[b].target, "stale", "null"}
                              /\ ~inPlace => Note!Outdated(inPlace)[b].target # "current"
<1>1. \A r \in Revisions : Note!Old(r) \in Revisions /\ Note!Old(r) # "current" /\ Note!Old(r) \in {r, "stale", "null"}
  BY DEF Note!Old, Revisions
<1>2. \A b \in Agents : call[b] \in Calls /\ revision[b] \in Revisions
  BY DEF NoteInv, NoteTypeOK
<1>3. \A b \in Agents : /\ Note!Outdated(inPlace)[b] \in Calls
                        /\ Note!Outdated(inPlace)[b].expected = Note!Old(call[b].expected)
                        /\ Note!Outdated(inPlace)[b].at = call[b].at
                        /\ Note!Outdated(inPlace)[b].target = IF inPlace THEN call[b].target ELSE Note!Old(call[b].target)
  BY <1>1, <1>2 DEF Note!Outdated, Calls
<1>4. Note!Outdated(inPlace) \in [Agents -> Calls]
  BY <1>3 DEF Note!Outdated
<1>5. \A b \in Agents : call[b].expected \in Revisions /\ call[b].target \in Revisions
  BY <1>2 DEF Calls
<1> QED BY <1>1, <1>2, <1>3, <1>4, <1>5 DEF Note!Outdates

LEMMA ReplaceStep ==
  ASSUME NoteInv, NEW a \in Agents, Note!Replace(a)
  PROVE  NoteInv'
<1> DEFINE o == Note!Outdated(FALSE)
<1>1. /\ call[a].at = "verified" /\ links' = 1 /\ Note!Commits(a, {a}) /\ call' = [o EXCEPT ![a].at = "committed"]
      /\ queue' = queue
  BY DEF Note!Replace
<1>2. o \in [Agents -> Calls] /\ revision' \in [Agents -> Revisions] /\ (\A b \in Agents : revision'[b] # "current")
      /\ \A b \in Agents : o[b].expected # "current" /\ o[b].at = call[b].at /\ o[b].target # "current"
  BY <1>1, OutOfDate DEF Note!Commits
<1> HIDE DEF o
<1>3. /\ call' \in [Agents -> Calls] /\ \A b \in Agents : call'[b].expected # "current"
      /\ call'[a].at = "committed" /\ \A b \in Agents \ {a} : call'[b].at = call[b].at
  BY <1>1, <1>2 DEF Calls, CallStates
<1>4. lost' = {} /\ seen' = {a} /\ raced' = {}
  BY <1>1 DEF Note!Commits, NoteInv, CommitsAreSeen, Excused, Note!Absent
<1> QED BY <1>1, <1>2, <1>3, <1>4, CommitsAlone DEF NoteInv, NoteTypeOK, CurrentIsSeen, CommitsAreSeen, HeadOfQueue,
                                                    QueuedWaits, LinkedIsThere, Excused

LEMMA DeleteStep ==
  ASSUME NoteInv, NEW a \in Agents, Note!Delete(a)
  PROVE  NoteInv'
<1> DEFINE o == Note!Outdated(FALSE)
<1>1. /\ call[a].at = "verified" /\ links' = 0 /\ Note!Commits(a, {}) /\ call' = [o EXCEPT ![a] = Note!Idle]
      /\ queue' = Tail(queue)
  BY DEF Note!Delete
<1>2. o \in [Agents -> Calls] /\ revision' \in [Agents -> Revisions] /\ (\A b \in Agents : revision'[b] # "current")
      /\ \A b \in Agents : o[b].expected # "current" /\ o[b].at = call[b].at
  BY <1>1, OutOfDate DEF Note!Commits
<1> HIDE DEF o
<1>3. Note!Idle \in Calls /\ Note!Idle.at = "idle" /\ Note!Idle.expected = "null"
  BY DEF Note!Idle, Calls, CallKinds, CallStates, Revisions
<1>4. /\ call' \in [Agents -> Calls] /\ \A b \in Agents : call'[b].expected # "current"
      /\ call'[a].at = "idle" /\ \A b \in Agents \ {a} : call'[b].at = call[b].at
  BY <1>1, <1>2, <1>3
<1>5. lost' = {} /\ seen' = {} /\ raced' = {}
  BY <1>1 DEF Note!Commits, NoteInv, CommitsAreSeen, Excused, Note!Absent
<1>6. queue # <<>> /\ Head(queue) = a
  BY <1>1, CommitsAlone
<1>7. Tail(queue) \in Seq(Agents) /\ QueuedWaits'
  BY <1>1, <1>4, <1>6, Behind DEF NoteInv, QueuedWaits
<1>8. \A b \in Agents : call'[b].at \notin {"checked", "verified", "linked", "committed"}
  BY <1>1, <1>4, CommitsAlone
<1>9. NoteTypeOK'
  BY <1>1, <1>2, <1>4, <1>5, <1>7 DEF NoteInv, NoteTypeOK
<1>10. CurrentIsSeen' /\ CommitsAreSeen' /\ HeadOfQueue' /\ LinkedIsThere'
  BY <1>2, <1>4, <1>8 DEF CurrentIsSeen, CommitsAreSeen, HeadOfQueue, LinkedIsThere
<1> QED BY <1>5, <1>7, <1>9, <1>10 DEF NoteInv

LEMMA CreateStep ==
  ASSUME NoteInv, NEW a \in Agents, Note!Create(a) \/ Note!UnlinkTemporary(a)
  PROVE  NoteInv'
<1>0. call \in [Agents -> Calls]
  BY DEF NoteInv, NoteTypeOK
<1>1. CASE Note!Create(a) /\ ~Note!link
  BY <1>1, NoteFails DEF Note!Create
<1>2. CASE Note!Create(a) /\ Note!link
  <2> DEFINE o == Note!Outdated(FALSE)
  <2>1. /\ call[a].at = "checked" /\ links = 0 /\ links' = 2 /\ Note!Commits(a, {a})
        /\ call' = [o EXCEPT ![a].at = "linked", ![a].target = "current"] /\ queue' = queue
    BY <1>2 DEF Note!Create, Note!link, Note!Absent
  <2>2. o \in [Agents -> Calls] /\ revision' \in [Agents -> Revisions] /\ (\A b \in Agents : revision'[b] # "current")
        /\ \A b \in Agents : o[b].expected # "current" /\ o[b].at = call[b].at
    BY <2>1, OutOfDate DEF Note!Commits
  <2> HIDE DEF o
  <2>3. [o[a] EXCEPT !.at = "linked", !.target = "current"] \in Calls
    BY <2>2 DEF Calls, CallStates, Revisions
  <2>4. /\ call' \in [Agents -> Calls] /\ (\A b \in Agents : call'[b].expected # "current")
        /\ call'[a].at = "linked" /\ \A b \in Agents \ {a} : call'[b].at = call[b].at
    BY <2>1, <2>2, <2>3 DEF Calls
  <2>5. lost' = {} /\ seen' = {a} /\ raced' = {}
    BY <2>1 DEF Note!Commits, NoteInv, Note!Absent
  <2>6. queue # <<>> /\ Head(queue) = a /\ \A b \in Agents \ {a} : call'[b].at \notin {"checked", "verified", "linked", "committed"}
    BY <2>1, <2>4, CommitsAlone
  <2>7. NoteTypeOK'
    BY <2>1, <2>2, <2>4, <2>5 DEF NoteInv, NoteTypeOK
  <2>8. CurrentIsSeen' /\ CommitsAreSeen' /\ HeadOfQueue' /\ QueuedWaits' /\ LinkedIsThere'
    BY <2>1, <2>2, <2>4, <2>5, <2>6 DEF NoteInv, CurrentIsSeen, CommitsAreSeen, HeadOfQueue, QueuedWaits, LinkedIsThere, Excused
  <2> QED BY <2>5, <2>7, <2>8 DEF NoteInv
<1>3. CASE Note!UnlinkTemporary(a)
  <2>1. /\ call[a].at = "linked" /\ links' = (IF call[a].target = "current" THEN 1 ELSE links)
        /\ call' = [call EXCEPT ![a].at = "committed"] /\ UNCHANGED <<revision, queue, seen, raced, lost>>
    BY <1>3 DEF Note!UnlinkTemporary, Note!Move
  <2>2. /\ call' \in [Agents -> Calls] /\ call'[a].at = "committed" /\ call'[a].expected = call[a].expected
        /\ \A b \in Agents \ {a} : call'[b] = call[b]
    BY <2>1, <1>0 DEF Calls, CallStates
  <2>3. \A b \in Agents : (Excused(b) => Excused(b)')
    BY <2>1 DEF Excused, NoteInv, LinkedIsThere
  <2>4. queue # <<>> /\ Head(queue) = a /\ \A b \in Agents \ {a} : call[b].at \notin {"checked", "verified", "linked", "committed"}
    BY <2>1, CommitsAlone
  <2>5. NoteTypeOK' /\ lost' = {}
    BY <2>1, <2>2 DEF NoteInv, NoteTypeOK
  <2>6. CurrentIsSeen' /\ CommitsAreSeen'
    BY <2>1, <2>2, <2>3, <2>4 DEF NoteInv, CurrentIsSeen, CommitsAreSeen
  <2>7. HeadOfQueue' /\ QueuedWaits' /\ LinkedIsThere'
    BY <2>1, <2>2, <2>4 DEF NoteInv, HeadOfQueue, QueuedWaits, LinkedIsThere
  <2> QED BY <2>5, <2>6, <2>7 DEF NoteInv
<1> QED BY <1>1, <1>2, <1>3

LEMMA ReadBackStep ==
  ASSUME NoteInv, NEW a \in Agents, Note!ReadBack(a)
  PROVE  NoteInv'
<1>1. CASE ~Note!Resolvable
  BY <1>1, NoteFails DEF Note!ReadBack
<1>2. CASE Note!Resolvable
  <2>1. /\ call[a].at = "committed" /\ revision' = [revision EXCEPT ![a] = "current"] /\ Note!Ends(a)
        /\ UNCHANGED <<links, seen, raced, lost>>
    BY <1>2 DEF Note!ReadBack
  <2>2. Excused(a) /\ \A b \in Agents : (Excused(b) => Excused(b)')
    BY <2>1 DEF NoteInv, CommitsAreSeen, Excused
  <2>3. Note!Idle.at = "idle" /\ Note!Idle.expected = "null"
    BY DEF Note!Idle
  <2> QED BY <2>1, <2>2, <2>3, Leaves DEF NoteInv, NoteTypeOK, CurrentIsSeen, CommitsAreSeen, HeadOfQueue, QueuedWaits,
                                          LinkedIsThere, Revisions
<1> QED BY <1>1, <1>2

LEMMA ExternalStep ==
  ASSUME NoteInv, Note!ExternalWrite \/ Note!ExternalDelete
  PROVE  NoteInv'
<1>1. PICK count \in 0..2, inPlace \in BOOLEAN : Note!External(count, inPlace) /\ (inPlace => links # 0 /\ count = links)
  <2>1. CASE Note!External(1, FALSE) \/ Note!External(0, FALSE)
    <3>1. 0 \in 0..2 /\ 1 \in 0..2 /\ FALSE \in BOOLEAN
      OBVIOUS
    <3> QED BY <2>1, <3>1, Zenon
  <2>2. CASE links # 0 /\ Note!External(links, TRUE)
    BY <2>2 DEF NoteInv, NoteTypeOK
  <2> QED BY <2>1, <2>2 DEF Note!ExternalWrite, Note!ExternalDelete, Note!Absent
<1>2. /\ links' = count /\ call' = Note!Outdated(inPlace) /\ seen' = {} /\ raced' = Note!Exposed /\ UNCHANGED <<queue, lost>>
      /\ revision' \in [Agents -> Revisions] /\ (\A b \in Agents : revision'[b] # "current")
  BY <1>1, OutOfDate DEF Note!External
<1>3. call' \in [Agents -> Calls] /\ \A b \in Agents : /\ call'[b].expected # "current" /\ call'[b].at = call[b].at
                                                       /\ call'[b].target = "current" => inPlace /\ call[b].target = "current"
  BY <1>2, OutOfDate
<1>4. CommitsAreSeen'
  BY <1>2, <1>3 DEF CommitsAreSeen, Excused, Note!Exposed
<1>5. LinkedIsThere'
  BY <1>1, <1>2, <1>3 DEF LinkedIsThere, NoteInv
<1> QED BY <1>2, <1>3, <1>4, <1>5 DEF NoteInv, NoteTypeOK, CurrentIsSeen, HeadOfQueue, QueuedWaits, Note!Exposed

LEMMA CrashStep == NoteInv /\ Note!Crash => NoteInv'
<1> SUFFICES ASSUME NoteInv, Note!Crash PROVE NoteInv'
  OBVIOUS
<1>1. Note!Idle \in Calls /\ Note!Idle.at = "idle" /\ Note!Idle.expected = "null"
  BY DEF Note!Idle, Calls, CallKinds, CallStates, Revisions
<1> QED BY <1>1 DEF Note!Crash, NoteInv, NoteTypeOK, CurrentIsSeen, CommitsAreSeen, HeadOfQueue, QueuedWaits, LinkedIsThere, Revisions

LEMMA NoteStep == NoteInv /\ [Note!Next]_theNote => NoteInv'
<1> SUFFICES ASSUME NoteInv, [Note!Next]_theNote PROVE NoteInv'
  OBVIOUS
<1>1. CASE UNCHANGED theNote
  BY <1>1 DEF theNote, NoteInv, NoteTypeOK, CurrentIsSeen, CommitsAreSeen, HeadOfQueue, QueuedWaits, LinkedIsThere, Excused
<1>2. CASE \E a \in Agents : Note!Step(a)
  BY <1>2, PrepareStep, ReplaceStep, DeleteStep, CreateStep, ReadBackStep DEF Note!Step
<1>3. CASE Note!ExternalWrite \/ Note!ExternalDelete \/ Note!Crash
  BY <1>3, ExternalStep, CrashStep
<1> QED BY <1>1, <1>2, <1>3, BeginStep DEF Note!Next

LEMMA NoteMove == [MC_Next]_<<focus, theCatalog, theNote, theItems, theCollections>> => [Note!Next]_theNote
  BY DEF MC_Next

(* No call replaces or deletes a version of a note that its caller never saw, but one  *)
(* that came from outside after its last check (obsidian-provider.ts: write, delete,    *)
(* verifyCurrent, atomicReplace).                                                    *)
THEOREM NothingIsLost == MC_Spec => []NothingLostUnread
<1>1. NoteInv => NothingLostUnread
  BY DEF NoteInv, NothingLostUnread, Note!NothingLostUnread
<1>2. MC_Init => NoteInv
  BY NoteInit DEF MC_Init
<1> QED BY <1>1, <1>2, NoteStep, NoteMove, PTL DEF MC_Spec
================================================================================
