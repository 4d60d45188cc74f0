-------------------------- MODULE NotesCollections --------------------------
(***************************************************************************)
(* Reading a collection of notes page by page while others change the      *)
(* vault (extensions/notes/contract.ts, collection-policy.ts and the list  *)
(* operation of obsidian-provider.ts).  Nothing is kept between two calls: *)
(* every call takes a new inventory, itself several provider pages long,   *)
(* finds its place again from the cursor and opens the notes one by one.   *)
(*                                                                         *)
(* Notes are numbered in the order of their paths (dates in the Inbox and  *)
(* the Worklog, targets in Projects).  A note is the sequence of its       *)
(* items; where a recorded item goes in the text is NotesItems.            *)
(***************************************************************************)
EXTENDS Integers, SequencesExt

CONSTANTS
    Paths,                              \* 1..n
    ItemSizes,                          \* size of an item's JSON, by item
    FirstItems,                         \* what a note may hold at first
    PROVIDER_PAGE,                      \* entries of one provider list page
    MAX_COLLECTION_DOCUMENTS_PER_READ,
    MAX_COLLECTION_RESULT_BYTES,
    MaxChanges                          \* bound: changes to the vault

VARIABLES
    vault,      \* [Paths -> the items of the note, or Missing]
    reader,     \* the calls of one continued reading
    steady,     \* history: items there since the first call, in notes that
                \* have lost none since
    grown,      \* history: an item was recorded during the reading
    changes

collectionVars == <<vault, reader, steady, grown, changes>>

Missing == <<0>>
NoCursor == [path |-> 0, offset |-> 0]
Item == DOMAIN ItemSizes

(* worklog over a range of dates, in either order; the Inbox of a date; the *)
(* earliest Inbox item; the list of projects.                               *)
Kinds == {"newest", "chronological", "dated", "earliest", "projects"}

Silent == [kind |-> "none", at |-> "idle", scope |-> {}, limit |-> 0, cursor |-> NoCursor,
           entries |-> {}, after |-> 0, rest |-> <<>>, items |-> <<>>, bytes |-> 0,
           scanned |-> 0, got |-> <<>>]

CollectionTypeOK ==
    /\ vault \in [Paths -> Seq(Item) \cup {Missing}]
    /\ steady \subseteq Paths \X Item
    /\ changes \in 0..MaxChanges

Present == {p \in Paths : vault[p] # Missing}
ItemsOf(p) == {vault[p][i] : i \in 1..Len(vault[p])}

Init ==
    /\ vault \in [Paths -> FirstItems \cup {Missing}]
    /\ reader = Silent
    /\ steady = {} /\ grown = FALSE
    /\ changes = 0

-----------------------------------------------------------------------------
Ascending(S) == SetToSortSeq(S, <)

(* A reading begins: a collection, a selection, a limit per page. *)
Begin(kind, scope, limit) ==
    /\ reader = Silent
    /\ (kind = "dated") = (Cardinality(scope) = 1)
    /\ kind \in {"earliest", "projects"} => scope = Paths
    /\ reader' = [Silent EXCEPT !.kind = kind, !.at = "asked", !.scope = scope, !.limit = limit]
    /\ steady' = UNION {{p} \X ItemsOf(p) : p \in Present \cap scope}
    /\ grown' = FALSE
    /\ UNCHANGED <<vault, changes>>

(* One call.  The Inbox of a date needs no inventory. *)
Ask ==
    /\ reader.at = "asked"
    /\ reader' = IF reader.kind = "dated"
                 THEN [reader EXCEPT !.at = "scan", !.rest = Ascending(reader.scope)]
                 ELSE [reader EXCEPT !.at = "list", !.entries = {}, !.after = 0]
    /\ UNCHANGED <<vault, steady, grown, changes>>

(* From the cursor's note on; a cursor whose note is gone is refused. *)
From(paths, cursor) ==
    IF cursor.path = 0 THEN paths
    ELSE LET at == {i \in 1..Len(paths) : paths[i] = cursor.path}
         IN  IF at = {} THEN <<>> ELSE SubSeq(paths, CHOOSE i \in at : TRUE, Len(paths))

(* canonicalPaths: the inventory in the order of the reading. *)
canonicalPaths(entries) ==
    LET paths == Ascending(entries \cap reader.scope)
    IN  IF reader.kind = "newest" THEN Reverse(paths) ELSE paths

Inventoried(entries) ==
    LET rest == From(canonicalPaths(entries), reader.cursor)
    IN  IF rest = <<>> /\ reader.cursor # NoCursor
        THEN [reader EXCEPT !.at = "failed"]
        ELSE [reader EXCEPT !.at = "scan", !.rest = rest, !.scanned = 0,
                            !.items = <<>>, !.bytes = 0]

(* listComplete, one provider page: the notes after the last page's last. *)
ListPage ==
    /\ reader.at = "list"
    /\ LET later == {p \in Present : p > reader.after}
           page == {p \in later : Cardinality({q \in later : q <= p}) <= PROVIDER_PAGE}
           entries == reader.entries \cup page
       IN  reader' = IF page # later
                     THEN [reader EXCEPT !.entries = entries,
                                         !.after = CHOOSE p \in page : \A q \in page : q <= p]
                     ELSE Inventoried(entries)
    /\ UNCHANGED <<vault, steady, grown, changes>>

-----------------------------------------------------------------------------
(* The bytes of the first n values of sizes behind start. *)
Bytes(sizes, start, n) == FoldLeft(+, 0, SubSeq(sizes, start + 1, start + n))

(* takeWorklogItems and page: how many values from start fit an answer. *)
Fitting(sizes, start, limit, bytes) ==
    LET fits == {n \in 0..(Len(sizes) - start) :
                    /\ n <= limit
                    /\ Bytes(sizes, start, n) <= bytes}
    IN  CHOOSE n \in fits : \A m \in fits : m <= n

(* A value that fits no answer at all refuses the call that comes to it. *)
Oversized(sizes, start, n) ==
    /\ start + n < Len(sizes)
    /\ \E i \in (start + 1)..(start + n + 1) : sizes[i] > MAX_COLLECTION_RESULT_BYTES

(* An answer: the items of this page, and where the next page begins. *)
Answer(items, next) ==
    reader' = [reader EXCEPT !.got = @ \o items, !.cursor = next, !.rest = <<>>,
                             !.items = <<>>, !.bytes = 0, !.scanned = 0, !.entries = {},
                             !.at = IF next = NoCursor THEN "done" ELSE "asked"]

(* projectsListAction: the page lies in the inventory itself. *)
AnswerProjects ==
    /\ reader.at = "scan" /\ reader.kind = "projects"
    /\ LET rest == reader.rest
           n == Fitting([i \in 1..Len(rest) |-> 1], 0, reader.limit, MAX_COLLECTION_RESULT_BYTES)
       IN  Answer([i \in 1..n |-> <<rest[i], 0>>],
                  IF n < Len(rest) THEN [path |-> rest[n + 1], offset |-> 0] ELSE NoCursor)
    /\ UNCHANGED <<vault, steady, grown, changes>>

(* The inventory is used up, or enough notes were opened for one call. *)
EndOfPaths ==
    /\ reader.at = "scan" /\ reader.kind # "projects"
    /\ reader.rest = <<>>
    /\ Answer(reader.items, NoCursor)
    /\ UNCHANGED <<vault, steady, grown, changes>>

DocumentLimit ==
    /\ reader.at = "scan" /\ reader.kind # "projects"
    /\ reader.rest # <<>>
    /\ reader.scanned = MAX_COLLECTION_DOCUMENTS_PER_READ
    /\ Answer(reader.items, [path |-> Head(reader.rest), offset |-> 0])
    /\ UNCHANGED <<vault, steady, grown, changes>>

(* Where reading begins in a note: after the last page, in every note ... *)
OffsetAnywhere(p) == reader.cursor.offset
(* ... no: in the note of the cursor only.  The cursor of a date names none. *)
StartIn(p) ==
    IF p = reader.cursor.path \/ reader.kind = "dated" THEN reader.cursor.offset ELSE 0

(* readOptionalDocument: a note that has gone has no items. *)
readOptional(p) == IF vault[p] = Missing THEN <<>> ELSE vault[p]

(* The next note is opened: its items join the page as far as they fit. *)
OpenNote ==
    /\ reader.at = "scan" /\ reader.kind \in {"newest", "chronological", "dated"}
    /\ reader.rest # <<>>
    /\ reader.scanned < MAX_COLLECTION_DOCUMENTS_PER_READ
    /\ LET p == Head(reader.rest)
           items == readOptional(p)
           sizes == [i \in 1..Len(items) |-> ItemSizes[items[i]]]
           start == StartIn(p)
           n == IF start >= Len(items) THEN 0
                ELSE Fitting(sizes, start, reader.limit - Len(reader.items),
                             MAX_COLLECTION_RESULT_BYTES - reader.bytes)
           page == reader.items \o [i \in 1..n |-> <<p, items[start + i]>>]
       IN  IF Oversized(sizes, start, n)
           THEN reader' = [reader EXCEPT !.at = "failed"]
           ELSE IF start + n < Len(items)
           THEN Answer(page, [path |-> IF reader.kind = "dated" THEN 0 ELSE p,
                              offset |-> start + n])
           ELSE reader' = [reader EXCEPT !.items = page,
                                         !.bytes = @ + Bytes(sizes, start, n),
                                         !.scanned = @ + 1, !.rest = Tail(@)]
    /\ UNCHANGED <<vault, steady, grown, changes>>

(* earliestInboxRead: the first item of the first note that has one. *)
OpenEarliest ==
    /\ reader.at = "scan" /\ reader.kind = "earliest"
    /\ reader.rest # <<>>
    /\ reader.scanned < MAX_COLLECTION_DOCUMENTS_PER_READ
    /\ LET p == Head(reader.rest)
           items == readOptional(p)
       IN  IF items = <<>>
           THEN reader' = [reader EXCEPT !.scanned = @ + 1, !.rest = Tail(@)]
           ELSE IF ItemSizes[items[1]] > MAX_COLLECTION_RESULT_BYTES
           THEN reader' = [reader EXCEPT !.at = "failed"]
           ELSE Answer(<<<<p, items[1]>>>>, NoCursor)
    /\ UNCHANGED <<vault, steady, grown, changes>>

-----------------------------------------------------------------------------
(* Others change the vault: an item is recorded, at the end of its section  *)
(* or in an empty bullet anywhere; a note is created; an item or a note goes.*)
Inserted(s, n, item) == SubSeq(s, 1, n) \o <<item>> \o SubSeq(s, n + 1, Len(s))

Changed(p, items) ==
    /\ changes < MaxChanges
    /\ reader.at \in {"asked", "list", "scan"}     \* before: another Init
    /\ changes' = changes + 1
    /\ vault' = [vault EXCEPT ![p] = items]
    /\ UNCHANGED reader

RecordItem(p, item) ==
    /\ vault[p] # Missing /\ item \notin ItemsOf(p)
    /\ \E n \in 0..Len(vault[p]) : Changed(p, Inserted(vault[p], n, item))
    /\ grown' = TRUE
    /\ UNCHANGED steady

CreateNote(p, item) ==
    /\ vault[p] = Missing
    /\ Changed(p, <<item>>)
    /\ grown' = TRUE
    /\ UNCHANGED steady

RemoveItem(p) ==
    /\ vault[p] \notin {Missing, <<>>}
    /\ \E n \in 1..Len(vault[p]) :
          Changed(p, SubSeq(vault[p], 1, n - 1) \o SubSeq(vault[p], n + 1, Len(vault[p])))
    /\ steady' = steady \ ({p} \X Item)
    /\ UNCHANGED grown

RemoveNote(p) ==
    /\ vault[p] # Missing
    /\ Changed(p, Missing)
    /\ steady' = steady \ ({p} \X Item)
    /\ UNCHANGED grown

Reading ==
    \/ Ask \/ ListPage \/ AnswerProjects \/ EndOfPaths \/ DocumentLimit
    \/ OpenNote \/ OpenEarliest

Next ==
    \/ \E kind \in Kinds, scope \in {Paths, {1}, {1, 2}}, limit \in 1..2 : Begin(kind, scope, limit)
    \/ Reading
    \/ \E p \in Paths : \/ RemoveItem(p) \/ RemoveNote(p)
                        \/ \E item \in Item : RecordItem(p, item) \/ CreateNote(p, item)

Spec == Init /\ [][Next]_collectionVars

-----------------------------------------------------------------------------
Got == {reader.got[i] : i \in 1..Len(reader.got)}

(* A continued reading that comes to its end has returned every item that   *)
(* was there throughout, whatever was created, recorded or removed around   *)
(* it meanwhile, and none twice unless something was recorded; the earliest *)
(* item is not later than any that was there throughout.  Items of a note   *)
(* that loses one may be passed over: the cursor counts items.              *)
(* (README.md: "A returned opaque cursor continues the same selection".)    *)
SteadyItemsReadOnce ==
    reader.at = "done" =>
        CASE reader.kind = "earliest" ->
                \A s \in steady : Got # {} /\ \A g \in Got : g[1] <= s[1]
          [] reader.kind = "projects" -> \A s \in steady : <<s[1], 0>> \in Got
          [] OTHER -> /\ steady \subseteq Got
                      /\ ~grown => Cardinality(Got) = Len(reader.got)

(* Every page moves on to a later place in the order of the reading, so an  *)
(* agent that follows the cursors comes to the end.                          *)
Before(c, d) ==
    \/ c = NoCursor
    \/ c.path = d.path /\ c.offset < d.offset
    \/ IF reader.kind = "newest" THEN c.path > d.path ELSE c.path < d.path

ReadingMovesOn ==
    reader'.at = "asked" /\ reader.at = "scan" => Before(reader.cursor, reader'.cursor)

ReadingComplete == [][ReadingMovesOn /\ SteadyItemsReadOnce']_collectionVars
=============================================================================
