----------------------------- MODULE NotesItems -----------------------------
(***************************************************************************)
(* The list items of Inbox and Worklog notes: how a recorded item is put   *)
(* into the Markdown text and how items are read out of it again           *)
(* (extensions/notes/collection-policy.ts).  The text belongs to its       *)
(* owner, who writes what he likes between two recordings.                 *)
(*                                                                         *)
(* A line is its class and, where it matters, which item or detail it is;  *)
(* the words are left out, and so is the second kind of fence.  All lines  *)
(* end the same way.  Worklog items are read and written as Notes are.     *)
(***************************************************************************)
EXTENDS Integers, Sequences, FiniteSets

CONSTANTS
    MaxLines,      \* bound: lines of the hand-written note
    MaxRecords     \* bound: items recorded

VARIABLES
    lines,      \* the note, split at its line ends
    recorded    \* items recorded so far

itemVars == <<lines, recorded>>

Headings == {"Notes", "Follow-ups"}

Line(class) == [class |-> class, id |-> 0]
Blank == Line("blank")

(* A hand-written line: a heading, text, a fence, an indented line, a bullet *)
(* or a checkbox with text (0 names what nobody recorded) or without.       *)
HandLines == {Line(c) : c \in Headings \cup {"other", "blank", "text", "fence", "indent",
                                             "bullet", "check", "emptyBullet", "emptyCheck"}}

(* The note newInboxNote starts from. *)
NewInbox == <<Line("Follow-ups"), Blank, Line("emptyCheck"), Blank,
              Line("Notes"), Blank, Line("emptyBullet"), Blank>>

Init ==
    /\ \E start \in {<<>>, <<Line("Notes")>>, NewInbox}, n \in 0..MaxLines :
          \E more \in [1..n -> HandLines] : lines = start \o more
    /\ recorded = 0

-----------------------------------------------------------------------------
(* inFence[i]: a code block is open after the first i lines. *)
Fences(text) ==
    LET inFence[i \in 0..Len(text)] ==
            IF i = 0 THEN FALSE ELSE (text[i].class = "fence") # inFence[i - 1]
    IN  inFence

(* visibleMarkdownLines: neither in a code block nor one of its fences. *)
Visible(text) ==
    {i \in 1..Len(text) : ~Fences(text)[i - 1] /\ text[i].class # "fence"}

IsHeading(line) == line.class \in Headings \cup {"other"}

FirstOf(S) == CHOOSE i \in S : \A j \in S : i <= j

(* sectionBounds: from the line after the first visible heading to the next *)
(* visible heading or the end; empty when there is no such heading.         *)
HeadingAt(text, heading) == {i \in Visible(text) : text[i].class = heading}

Bounds(text, heading) ==
    LET at == FirstOf(HeadingAt(text, heading))
        later == {i \in Visible(text) : i > at /\ IsHeading(text[i])}
    IN  (at + 1)..(IF later = {} THEN Len(text) ELSE FirstOf(later) - 1)

Section(text, heading) ==
    IF HeadingAt(text, heading) = {} THEN {} ELSE Bounds(text, heading)

(* collectNestedDetails: indented lines after the item, up to a line that is *)
(* neither indented nor blank; invisible lines are passed over.              *)
Details(text, item, section) ==
    LET visible == Visible(text) \cap section
        ends == {i \in visible : i > item /\ text[i].class \notin {"indent", "blank"}}
    IN  {i \in visible : /\ i > item /\ text[i].class = "indent"
                         /\ \A j \in ends : i < j}

(* parseListItem: a checkbox with text is a follow-up, any other bullet with *)
(* text a note.                                                              *)
ItemClass(heading) == IF heading = "Follow-ups" THEN "check" ELSE "bullet"

(* extractListItems: where the section's items are. *)
ItemsAt(text, heading) ==
    {i \in Section(text, heading) \cap Visible(text) : text[i].class = ItemClass(heading)}

-----------------------------------------------------------------------------
(* What a text becomes as an item: one line; a line and an indented one; one *)
(* with a code block, closed or left open; or text that begins with "[x]",   *)
(* which makes the bullet of a note look like a checkbox.                    *)
Shapes == {"plain", "long", "code", "open", "boxed"}

Bullet(heading, shape, id) ==
    LET first == [class |-> IF shape = "boxed" THEN "check" ELSE ItemClass(heading), id |-> id]
        more  == [class |-> "indent", id |-> id]
    IN  CASE shape \in {"plain", "boxed"} -> <<first>>
          [] shape = "long" -> <<first, more>>
          [] shape = "code" -> <<first, Line("fence"), more, Line("fence")>>
          [] shape = "open" -> <<first, Line("fence"), more>>

(* Lines of item in place of what is between the first n and the m-th line. *)
Splice(text, n, m, item) == SubSeq(text, 1, n) \o item \o SubSeq(text, m, Len(text))

EmptyClass(heading) == IF heading = "Follow-ups" THEN "emptyCheck" ELSE "emptyBullet"

(* insertAt: behind the section's last line that is not blank. *)
InsertAt(text, heading) ==
    LET section == Section(text, heading)
        filled == {i \in section : text[i].class # "blank"}
        at == FirstOf(HeadingAt(text, heading))
    IN  IF filled = {} THEN at ELSE CHOOSE i \in filled : \A j \in filled : j <= i

EmptyBullets(text, heading) ==
    {i \in Section(text, heading) \cap Visible(text) : text[i].class = EmptyClass(heading)}

(* appendSectionItem: into the first visible empty bullet of its section, or  *)
(* to the section's end, or under a new heading at the end of the note.       *)
appendSectionItem(text, heading, item) ==
    LET empty == EmptyBullets(text, heading)
        n == FirstOf(empty)
        end == InsertAt(text, heading)
        prefix == IF text = <<>> \/ text[Len(text)] = Blank THEN <<>> ELSE <<Blank>>
    IN  IF HeadingAt(text, heading) = {}
        THEN text \o prefix \o <<Line(heading), Blank>> \o item \o <<Blank>>
        ELSE IF empty # {} THEN Splice(text, n - 1, n + 1, item)
        ELSE Splice(text, end, end + 1, item)

Record(heading, shape) ==
    /\ recorded < MaxRecords
    /\ recorded' = recorded + 1
    /\ lines' = appendSectionItem(lines, heading, Bullet(heading, shape, recorded + 1))

Next == \E heading \in Headings, shape \in Shapes : Record(heading, shape)

Spec == Init /\ [][Next]_itemVars

-----------------------------------------------------------------------------
(* The item with its details, as a reading of the section returns it. *)
ItemAt(text, i, heading) ==
    <<text[i], {text[d] : d \in Details(text, i, Section(text, heading))}>>

CopiesOf(item, text, heading) ==
    Cardinality({i \in ItemsAt(text, heading) : ItemAt(text, i, heading) = item})

Items(text, heading) == {ItemAt(text, i, heading) : i \in ItemsAt(text, heading)}

(* The last recorded item is readable as recorded: under its own heading, in *)
(* text whose code blocks are closed, and not disguised as a checkbox.       *)
Readable(heading, shape) ==
    /\ ~Fences(lines)[Len(lines)]
    /\ shape # "open"
    /\ shape = "boxed" => heading = "Follow-ups"

(* Recording an item keeps every item of every section, with its details,   *)
(* as often as it was there, and a reading of the section finds the new one *)
(* - whatever order of headings, code blocks, empty bullets and loose lines *)
(* its owner left (README.md: a write "preserves unrelated content").       *)
RecordingKeepsItems ==
    [][\A heading \in Headings, shape \in Shapes :
          Record(heading, shape) /\ Readable(heading, shape) =>
             /\ \A h \in Headings : \A item \in Items(lines, h) :
                   CopiesOf(item, lines', h) >= CopiesOf(item, lines, h)
             /\ \E i \in ItemsAt(lines', heading) : lines'[i].id = recorded'
             /\ \A h \in Headings \ {heading} :
                   Cardinality(ItemsAt(lines', h)) = Cardinality(ItemsAt(lines, h))]_itemVars
=============================================================================
