------------------------------ MODULE MC_Records ------------------------------
(* Finite instances of what several writers keep in files: the session catalog,  *)
(* and notes with the items and the collections in them.  The parts share no      *)
(* state, so they are checked one at a time: the part in focus moves, the others  *)
(* rest.                                                                          *)
EXTENDS MC_SessionCatalog

CONSTANTS Agents,                                         \* NotesStore
          MaxLines, MaxRecords,                           \* NotesItems
          Paths, ItemSizes, FirstItems, PROVIDER_PAGE, MAX_COLLECTION_DOCUMENTS_PER_READ,
          MAX_COLLECTION_RESULT_BYTES, MaxChanges         \* NotesCollections

VARIABLES focus,
  links, revision, call, queue, seen, raced, lost,
  lines, recorded,
  vault, reader, steady, grown, changes

theCatalog == <<manifest, temps, lock, stale, told, pc, n, draft, result, outcome, overlapped>>
theNote == <<links, revision, call, queue, seen, raced, lost>>
theItems == <<lines, recorded>>
theCollections == <<vault, reader, steady, grown, changes>>

Note == INSTANCE NotesStore
Items == INSTANCE NotesItems
Notes == INSTANCE NotesCollections

MC_ItemSizes == <<1, 2, 1, 3>>
MC_FirstItems == {<<>>, <<1, 2>>, <<3, 4, 1>>}

(* Of a part that is not in focus one initial state is enough. *)
MC_Init ==
  /\ focus \in {"catalog", "note", "items", "collections"}
  /\ Init
  /\ (focus # "note" => links = 0) /\ Note!Init
  /\ (focus # "items" => lines = Items!NewInbox) /\ Items!Init
  /\ (focus # "collections" => vault = [p \in Paths |-> <<>>]) /\ Notes!Init

MC_Next ==
  /\ UNCHANGED focus
  /\ \/ /\ focus = "catalog" /\ Next
        /\ UNCHANGED <<theNote, theItems, theCollections>>
     \/ /\ focus = "note" /\ Note!Next
        /\ UNCHANGED <<theCatalog, theItems, theCollections>>
     \/ /\ focus = "items" /\ Items!Next
        /\ UNCHANGED <<theCatalog, theNote, theCollections>>
     \/ /\ focus = "collections" /\ Notes!Next
        /\ UNCHANGED <<theCatalog, theNote, theItems>>

MC_Spec ==
  /\ MC_Init
  /\ [][MC_Next]_<<focus, theCatalog, theNote, theItems, theCollections>>

(* The properties of the parts. *)
NothingLostUnread == Note!NothingLostUnread

(* What is recorded stays readable, and a continued reading returns it. *)
RecordedIsRead == Items!RecordingKeepsItems /\ Notes!ReadingComplete
==============================================================================
