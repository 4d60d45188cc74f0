------------------------------- MODULE TextEdits -------------------------------
(***************************************************************************)
(* applyTextEdits of extensions/dev-tools/workspace-edit.ts: the edits of    *)
(* one file, each of a range of the text it had before all of them.          *)
(*                                                                          *)
(* A text is a sequence of characters; an edit replaces those from start to  *)
(* end, counted from 0, by one character of its own, or by none.             *)
(***************************************************************************)
EXTENDS Integers, FiniteSets, SequencesExt, TLC

CONSTANTS Content,   \* the text
          MaxEdits   \* bound: edits of the file

VARIABLES edits, result

vars == <<edits, result>>

Unset == <<"unset">>
Offsets == -1..Len(Content) + 1

Edit(i, r, deletes) == [start |-> r[1], end |-> r[2], new |-> IF deletes THEN <<>> ELSE <<ToString(i)>>, index |-> i]

Init == /\ \E n \in 0..MaxEdits : \E rs \in [1..n -> Offsets \X Offsets], ds \in [1..n -> BOOLEAN] :
             edits = [i \in 1..n |-> Edit(i, rs[i], ds[i])]
        /\ result = Unset

(* positionOffset *)
InBounds(e) == e.start \in 0..Len(Content) /\ e.end \in 0..Len(Content) /\ e.start <= e.end

(* By start, the longer first. *)
Ascending(e, g) ==
  \/ e.start < g.start
  \/ e.start = g.start /\ e.end > g.end
  \/ e.start = g.start /\ e.end = g.end /\ e.index < g.index

(* Mutant: edits that only touch each other are refused as well. *)
OverlappingOrTouching(es) ==
  LET sorted == SortSeq(es, Ascending) IN
    \E i \in 2..Len(sorted) : sorted[i].start <= sorted[i - 1].end

Overlapping(es) ==
  LET sorted == SortSeq(es, Ascending) IN
    \E i \in 2..Len(sorted) : sorted[i].start < sorted[i - 1].end

(* From the last to the first, so that offsets stay true. *)
Descending(e, g) == e.start > g.start \/ (e.start = g.start /\ e.index > g.index)

Replaced(s, e) == SubSeq(s, 1, e.start) \o e.new \o SubSeq(s, e.end + 1, Len(s))

applyTextEdits ==
  /\ result = Unset
  /\ result' = IF \E e \in ToSet(edits) : ~InBounds(e) THEN <<"outOfBounds">>
               ELSE IF Overlapping(edits) THEN <<"overlapping">>
               ELSE FoldLeft(Replaced, Content, SortSeq(edits, Descending))
  /\ UNCHANGED edits

Next == applyTextEdits

Spec == Init /\ [][Next]_vars

-----------------------------------------------------------------------------
(* What the edits mean, all at once: no two of them touch a character or begin *)
(* where another replaces, and at every offset stand the insertions in their   *)
(* order and then what replaces the character, or the character.               *)
Meets(e, g) == e.index # g.index /\ e.start <= g.start /\ g.start < e.end

AtOffset(p) ==
  LET here == SelectSeq(edits, LAMBDA e : e.start = p)
      covered == \E e \in ToSet(edits) : e.start <= p /\ p < e.end
  IN FlattenSeq([i \in DOMAIN here |-> here[i].new])
       \o (IF covered \/ p = Len(Content) THEN <<>> ELSE <<Content[p + 1]>>)

Meaning == FlattenSeq([p \in 1..Len(Content) + 1 |-> AtOffset(p - 1)])

(* The edits are applied as if all at once, or refused for a reason. *)
EditsAreSimultaneous ==
  result # Unset =>
    LET bad == \E e \in ToSet(edits) : ~InBounds(e)
        meet == \E e, g \in ToSet(edits) : Meets(e, g)
    IN result = IF bad THEN <<"outOfBounds">> ELSE IF meet THEN <<"overlapping">> ELSE Meaning
=============================================================================
