----------------------------- MODULE TextInput -----------------------------
(***************************************************************************)
(* The text field of the windows (text_input.rs): a text, the selected     *)
(* range with the end that moves, and the range that an input method has   *)
(* marked.  All positions are bytes of UTF-8, those of the input methods   *)
(* are UTF-16; a slice at a byte that begins no character panics, and with *)
(* it goes the daemon.                                                     *)
(*                                                                         *)
(* A change of the text emits an event, which whoever has subscribed gets  *)
(* before anything else happens (Picker).  The operators named Bad... are  *)
(* faults, used by no action.                                              *)
(***************************************************************************)
EXTENDS Naturals, Sequences, FiniteSetsExt, SequencesExt

CONSTANTS
    Alphabet,    \* characters of the instance, some of those below
    Typed,       \* what is typed, marked or copied elsewhere at a time
    Placeholder, \* what is shown for an empty text
    MaxLen,      \* bound: characters of the text
    None

VARIABLES
    content,   \* the text
    sel,       \* the selected range
    reversed,  \* it is the start of it that moves
    marked,    \* the range an input method composes, or None
    painted,   \* the text when it was last painted, or None
    selecting, \* the button of the mouse is down
    event,     \* a change was emitted and not yet delivered
    panicked,
    misled     \* history: an input method asked for a selection, or a place was
               \* measured on a line that was painted for another text

inputVars == <<content, sel, reversed, marked, painted, selecting, event, panicked, misled>>

\* a: a letter; accent: it joins what is before it; emoji: two units of UTF-16.
Width == [a |-> 1, space |-> 1, accent |-> 2, emoji |-> 4]
Units == [a |-> 1, space |-> 1, accent |-> 1, emoji |-> 2]
Text == BoundedSeq(Alphabet, MaxLen)

ASSUME InputAssumption ==
    /\ MaxLen \in Nat
    /\ Alphabet \subseteq DOMAIN Width /\ Typed \subseteq Seq(Alphabet)
    /\ Placeholder \in Seq(DOMAIN Width)

Span(a, b) == [start |-> a, end |-> b]

\* The first k characters in units of w (Width or Units); the b-th unit of the
\* i-th character is <<i, b>>.
UnitsOf(w, s, k) == {u \in (1..k) \X (1..4) : u[2] <= w[s[u[1]]]}
Measure(w, s, k) == Cardinality(UnitsOf(w, s, k))

\* Where the characters of a text begin and end, in bytes.
OffsetsOf == [s \in Text |-> {Measure(Width, s, k) : k \in 0..Len(s)}]
Offsets(s) == OffsetsOf[s]
Off(s, k) == Measure(Width, s, k)
Size(s) == Off(s, Len(s))
\* The character that begins at byte o is the one after the first At(s, o).
At(s, o) == CHOOSE k \in 0..Len(s) : Off(s, k) = o

\* offset_from_utf16: up to the next character, at most to the end.
Utf16Size(s) == Measure(Units, s, Len(s))
FromUtf16(s, u) == Off(s, Min({k \in 0..Len(s) : Measure(Units, s, k) >= u} \cup {Len(s)}))
SpanFromUtf16(s, r) == Span(FromUtf16(s, r.start), FromUtf16(s, r.end))

Empty(r) == r.start >= r.end
Cursor == IF reversed THEN sel.start ELSE sel.end

(***************************************************************************)
(* Boundaries.                                                             *)
(***************************************************************************)
\* Where a grapheme begins.
Graphemes == {Off(content, k) : k \in {k \in 0..(Len(content) - 1) :
                                          k = 0 \/ content[k + 1] # "accent"}}
PreviousBoundary(o) == Max({g \in Graphemes : g < o} \cup {0})
NextBoundary(o) ==
    LET after == {g \in Graphemes : g > o}
    IN  IF after = {} THEN Size(content) ELSE Min(after)

Spaces(i, j) == \A k \in (i + 1)..j : content[k] = "space"
Solid(i, j) == \A k \in (i + 1)..j : content[k] # "space"
PreviousWord(o) ==
    LET n == At(content, o)
        gap == Min({i \in 0..n : Spaces(i, n)})
    IN  Off(content, Min({i \in 0..gap : Solid(i, gap)}))
NextWord(o) ==
    LET n == At(content, o)
        gap == Max({i \in n..Len(content) : Solid(n, i)})
    IN  Off(content, Max({i \in gap..Len(content) : Spaces(gap, i)}))
WordAt(o) ==
    LET n == At(content, o)
    IN  Span(Off(content, Min({i \in 0..n : Solid(i, n)})),
              Off(content, Max({i \in n..Len(content) : Solid(n, i)})))

Direction == {"left", "right", "word_left", "word_right"}
Backward == {"left", "word_left"}
Boundary(d, o) == CASE d = "left" -> PreviousBoundary(o)
                    [] d = "right" -> NextBoundary(o)
                    [] d = "word_left" -> PreviousWord(o)
                    [] d = "word_right" -> NextWord(o)
\* The words are looked for in a slice that begins or ends at the cursor.
Slices(d, o) == d \in {"word_left", "word_right"} => o \in Offsets(content)

\* What is marked can always be sliced, whatever became of the selection.
InputTypeOK ==
    /\ content \in Text
    /\ sel.start \in Nat /\ sel.end \in Nat /\ sel.start <= sel.end
    /\ marked # None => /\ {marked.start, marked.end} \subseteq Offsets(content)
                       /\ marked.start < marked.end
    /\ painted \in Text \cup {None}
    /\ {reversed, selecting, event, panicked, misled} \subseteq BOOLEAN

(***************************************************************************)
(* Selection.                                                              *)
(***************************************************************************)
InputInit ==
    /\ content = <<>> /\ sel = Span(0, 0) /\ reversed = FALSE /\ marked = None
    /\ painted = None /\ selecting = FALSE /\ event = FALSE
    /\ panicked = FALSE /\ misled = FALSE

Fails ==
    /\ panicked' = TRUE
    /\ UNCHANGED <<content, sel, reversed, marked, painted, selecting, event>>
Panic == Fails /\ UNCHANGED misled

\* select_to: the end that moves goes to o; if it crosses the other they change roles.
Selected(s, o) ==
    LET anchor == IF s.reversed THEN s.end ELSE s.start
    IN  IF o = anchor THEN [start |-> o, end |-> o, reversed |-> s.reversed]
        ELSE [start |-> Min({o, anchor}), end |-> Max({o, anchor}), reversed |-> o < anchor]
Selection == [start |-> sel.start, end |-> sel.end, reversed |-> reversed]

Becomes(s) ==
    /\ sel' = Span(s.start, s.end) /\ reversed' = s.reversed
    /\ UNCHANGED <<content, marked, painted, event, panicked>>
\* move_to leaves reversed as it is.
MoveTo(o) == Becomes([start |-> o, end |-> o, reversed |-> reversed])
SelectTo(o) == Becomes(Selected(Selection, o))

\* left, right, word_left, word_right.
Move(d) ==
    IF Empty(sel) /\ ~Slices(d, Cursor) THEN Panic
    ELSE /\ MoveTo(IF Empty(sel) THEN Boundary(d, Cursor)
                   ELSE IF d \in Backward THEN sel.start ELSE sel.end)
         /\ UNCHANGED <<selecting, misled>>

\* select_left, select_right, select_word_left, select_word_right.
Extend(d) ==
    IF ~Slices(d, Cursor) THEN Panic
    ELSE SelectTo(Boundary(d, Cursor)) /\ UNCHANGED <<selecting, misled>>

Home == MoveTo(0) /\ UNCHANGED <<selecting, misled>>
End == MoveTo(Size(content)) /\ UNCHANGED <<selecting, misled>>
SelectToHome == SelectTo(0) /\ UNCHANGED <<selecting, misled>>
SelectToEnd == SelectTo(Size(content)) /\ UNCHANGED <<selecting, misled>>
SelectAll ==
    /\ Becomes(Selected([start |-> 0, end |-> 0, reversed |-> reversed], Size(content)))
    /\ UNCHANGED <<selecting, misled>>

(***************************************************************************)
(* The mouse.  What is clicked on is the line as it was painted last.      *)
(***************************************************************************)
Line == IF painted = <<>> THEN Placeholder ELSE painted
Places == IF content = <<>> \/ painted = None THEN {0}
          ELSE {0, Size(content)} \cup {Off(Line, k) : k \in 0..Len(Line)}
Misleads(o) == misled' = (misled \/ (o \notin {0, Size(content)} /\ painted # content))

MouseDown ==
    \E o \in Places :
       \/ /\ SelectTo(o) \/ MoveTo(o)
          /\ selecting' = TRUE /\ Misleads(o)
       \/ IF o \notin Offsets(content) THEN Fails /\ Misleads(o)
          ELSE /\ Becomes([start |-> WordAt(o).start, end |-> WordAt(o).end, reversed |-> FALSE])
               /\ selecting' = FALSE /\ UNCHANGED misled
       \/ /\ Becomes([start |-> 0, end |-> Size(content), reversed |-> FALSE])
          /\ selecting' = FALSE /\ UNCHANGED misled

Drag == selecting /\ (\E o \in Places : SelectTo(o) /\ Misleads(o)) /\ UNCHANGED selecting

MouseUp ==
    /\ selecting' = FALSE
    /\ UNCHANGED <<content, sel, reversed, marked, painted, event, panicked, misled>>

(***************************************************************************)
(* Changes.                                                                *)
(***************************************************************************)
\* What a change replaces: what it names, or what is marked, or the selection.
Replaced(range, selected) ==
    IF range # None THEN range ELSE IF marked # None THEN marked ELSE selected

Spliced(r, text) ==
    SubSeq(content, 1, At(content, r.start)) \o text
        \o SubSeq(content, At(content, r.end) + 1, Len(content))

\* Fault: what an input method marks tells nobody.
BadEmits == event' = (marked = None)
\* cx.emit: whoever has subscribed is told when the update ends.
Emits == event' = TRUE

\* Fault: the cursor stays at the end of what was replaced.
BadAfter(r, text) == Span(r.end, r.end)
After(r, text) == LET o == r.start + Size(text) IN Span(o, o)

\* replace_text_in_range, with the selection as select_to may have left it.
Replace(range, text, s) ==
    LET r == Replaced(range, Span(s.start, s.end))
    IN  IF {r.start, r.end} \subseteq Offsets(content)
        THEN /\ Len(Spliced(r, text)) <= MaxLen
             /\ content' = Spliced(r, text) /\ sel' = After(r, text)
             /\ reversed' = s.reversed /\ marked' = None /\ Emits
             /\ UNCHANGED <<painted, selecting, panicked, misled>>
        ELSE Panic

\* backspace, delete, delete_word_left, delete_word_right.
Delete(d) ==
    IF ~Empty(sel) THEN Replace(None, <<>>, Selection)
    ELSE IF ~Slices(d, Cursor) THEN Panic
    ELSE Replace(None, <<>>, Selected(Selection, Boundary(d, Cursor)))

\* The clipboard is anybody's; its line breaks have become spaces.
Paste == \E text \in Typed : Replace(None, text, Selection)

Sliceable == {sel.start, sel.end} \subseteq Offsets(content)

Copy ==
    /\ ~Empty(sel)
    /\ IF Sliceable THEN UNCHANGED inputVars ELSE Panic

\* What goes to the clipboard is the selection, what goes away is what is marked.
Cut ==
    /\ ~Empty(sel)
    /\ IF Sliceable THEN Replace(None, <<>>, Selection) ELSE Panic

(***************************************************************************)
(* The platform's text input.                                              *)
(***************************************************************************)
UtfSpans(n) == {Span(i, j) : i \in 0..n, j \in 0..n}
Ordered(n) == {r \in UtfSpans(n) : r.start <= r.end}

\* The range of the text that it may name.
Ranges == {SpanFromUtf16(content, r) : r \in Ordered(Utf16Size(content))} \cup {None}

\* A key that is text, or the end of a composition.
Type == \E range \in Ranges, text \in Typed : Replace(range, text, Selection)

\* replace_and_mark_text_in_range.  A selection is asked for within the text; it
\* is measured from the start of the content, and its end is put after the end
\* of what was replaced.
Compose ==
    \E range \in Ranges, text \in Typed \cup {<<>>} :
       LET r == Replaced(range, sel)
           new == Spliced(r, text)
           asks == Ordered(Utf16Size(text))
       IN  IF ~({r.start, r.end} \subseteq Offsets(content)) THEN Panic
           ELSE \E asked \in {SpanFromUtf16(new, u) : u \in asks} \cup {None} :
                  /\ Len(new) <= MaxLen
                  /\ content' = new
                  /\ marked' = IF text = <<>> THEN None ELSE Span(r.start, r.start + Size(text))
                  /\ sel' = IF asked = None THEN After(r, text)
                            ELSE Span(asked.start + r.start, asked.end + r.end)
                  /\ misled' = (misled \/ asked # None)
                  /\ Emits
                  /\ UNCHANGED <<reversed, painted, selecting, panicked>>

Unmark ==
    /\ marked' = None
    /\ UNCHANGED <<content, sel, reversed, painted, selecting, event, panicked, misled>>

\* set_value: what the window itself puts in.
SetValue(value) ==
    /\ content' = value /\ sel' = Span(Size(value), Size(value)) /\ marked' = None
    /\ Emits
    /\ UNCHANGED <<reversed, painted, selecting, panicked, misled>>

\* The runs of a line with a marked range are counted from its ends.
Paint ==
    IF marked # None /\ ~(marked.start <= marked.end /\ marked.end <= Size(content)) THEN Panic
    ELSE /\ painted' = content
         /\ UNCHANGED <<content, sel, reversed, marked, selecting, event, panicked, misled>>

Key ==
    \/ \E d \in Direction : Move(d) \/ Extend(d) \/ Delete(d)
    \/ Home \/ End \/ SelectToHome \/ SelectToEnd \/ SelectAll
    \/ Paste \/ Copy \/ Cut \/ Type \/ Compose \/ Unmark

Mouse == MouseDown \/ Drag \/ MouseUp

(***************************************************************************)
(* Properties.                                                             *)
(***************************************************************************)
\* No sequence of keys, clicks, pastes and compositions makes the field slice
\* its text inside of a character or beyond its end, and with it the daemon
\* panic: unless an input method asked for a selection of its own, which
\* replace_and_mark_text_in_range misplaces, or the mouse was faster than the
\* window and its place was measured on the line of another text.
NoPanic == panicked => misled
=============================================================================
