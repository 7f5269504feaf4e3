------------------------------- MODULE TextBuffer -------------------------------
(***************************************************************************)
(* The input prompt's text buffer: its reducer, with undo and redo         *)
(* (text-buffer.ts) and the vim commands (vim-buffer-actions.ts).          *)
(*                                                                         *)
(* A line is the number of its code points, each of them one UTF-16 unit.  *)
(* Where a word begins or ends is left open: the model allows every column *)
(* the word functions may return.  Rows count from 1, columns from 0.      *)
(***************************************************************************)
EXTENDS Integers, Sequences, FiniteSets, SequencesExt

CONSTANTS HistoryLimit,  \* historyLimit
          MaxText,       \* bound: lines and code points of the text
          MaxCount       \* bound: the count of a vim command

ASSUME TextAssumption == /\ HistoryLimit \in Nat \ {0} /\ MaxText \in Nat \ {0}
                         /\ MaxCount \in Nat \ {0}

VARIABLES text,       \* lines, cursorRow and cursorCol
          undoStack, redoStack

textVars == <<text, undoStack, redoStack>>

Texts == [lines: Seq(Nat) \ {<<>>}, row: Nat \ {0}, col: Nat]

TextTypeOK ==
    /\ text \in Texts
    /\ undoStack \in Seq(Texts) /\ Len(undoStack) <= HistoryLimit
    /\ redoStack \in Seq(Texts) /\ Len(redoStack) <= HistoryLimit

TextInit ==
    /\ text = [lines |-> <<0>>, row |-> 1, col |-> 0]
    /\ undoStack = <<>> /\ redoStack = <<>>

atMost(n, limit) == IF n > limit THEN limit ELSE n
atLeast(n, limit) == IF n < limit THEN limit ELSE n

rows == Len(text.lines)
lineLen == text.lines[text.row]
\* The characters before a row, a newline behind each line.
offsetOf(lines, row) == Cardinality(UNION {{i} \X (0 .. lines[i]) : i \in 1 .. row - 1})
inBound(t) == offsetOf(t.lines, Len(t.lines) + 1) <= MaxText

textAt(lines, row, col) == [lines |-> lines, row |-> row, col |-> col]

pushUndo_unbounded(t) == undoStack' = Append(undoStack, t) /\ redoStack' = <<>>

\* Every edit first takes a snapshot; the oldest one makes room for it.
pushUndo(t) ==
    /\ undoStack' = IF Len(undoStack) < HistoryLimit THEN Append(undoStack, t)
                    ELSE Append(Tail(undoStack), t)
    /\ redoStack' = <<>>

edit(t) == text' = t /\ inBound(t) /\ pushUndo(text)

moveTo(row, col) ==
    /\ text' = [text EXCEPT !.row = row, !.col = col]
    /\ UNCHANGED <<undoStack, redoStack>>

-------------------------------------------------------------------------------
(* Replacing a range *)

splice(lines, from, to, with) ==
    SubSeq(lines, 1, from - 1) \o with \o SubSeq(lines, to + 1, Len(lines))

invalidRange(sr, sc, er, ec) ==
    \/ sr > er \/ (sr = er /\ sc > ec) \/ sc < 0
    \/ er > rows \/ (er <= rows /\ ec > text.lines[er])

\* The new text is a sequence of parts, one line each.
replaceRangeInternal(sr, sc, er, ec, parts) ==
    IF invalidRange(sr, sc, er, ec) THEN text ELSE
    LET from == atMost(sc, text.lines[sr])
        rest == text.lines[er] - ec
        last == Len(parts)
        with == IF last = 1 THEN <<from + parts[1] + rest>>
                ELSE <<from + parts[1]>> \o SubSeq(parts, 2, last - 1) \o <<parts[last] + rest>>
        lines == splice(text.lines, sr, er, with)
        row == sr + last - 1
        col == (IF last = 1 THEN from ELSE 0) + parts[last]
    IN  textAt(lines, row, atMost(col, lines[row]))

removed(sr, sc, er, ec) == replaceRangeInternal(sr, sc, er, ec, <<0>>)

\* getLineRangeOffsets and getPositionFromOffsets: the end is looked for with
\* the newline counted to its line, so that it may lie behind the line's end.
lineRangeEnd(row, count) ==
    LET start == offsetOf(text.lines, row)
        last == atMost(row + count - 1, rows)
        withNewline(i) == text.lines[i] + (IF i < rows THEN 1 ELSE 0)
        end == offsetOf(text.lines, last) + withNewline(last)
        reach == {i \in 1 .. rows : offsetOf(text.lines, i) + withNewline(i) >= end}
        endRow == CHOOSE i \in reach : \A j \in reach : i <= j
    IN  [row |-> endRow, col |-> end - offsetOf(text.lines, endRow)]

removedLines(row, count) ==
    LET end == lineRangeEnd(row, count) IN removed(row, 0, end.row, end.col)

-------------------------------------------------------------------------------
(* Actions of the reducer *)

\* Parts of an inserted text: a piece of a line, or pieces of two lines.
Parts == {<<n>> : n \in 0 .. MaxText} \cup {<<n, m>> : n, m \in 0 .. MaxText}

\* set_text: the cursor goes to the end.
SetText == \E parts \in Parts : edit(textAt(parts, Len(parts), Last(parts)))

\* The external editor: a snapshot, and its text if it ends well.
ExternalEditor ==
    /\ pushUndo(text)
    /\ \/ UNCHANGED text
       \/ \E parts \in Parts : /\ text' = textAt(parts, Len(parts), Last(parts))
                               /\ inBound(text')

Insert ==
    \E parts \in Parts :
        LET lines == IF Len(parts) = 1 THEN <<lineLen + parts[1]>>
                     ELSE <<text.col + parts[1], parts[2] + lineLen - text.col>>
            col == IF Len(parts) = 1 THEN text.col + parts[1] ELSE parts[2]
        IN  edit(textAt(splice(text.lines, text.row, text.row, lines),
                        text.row + Len(parts) - 1, col))

\* The line is joined to the one before it, or the next one to it.
joinedBefore ==
    textAt(splice(text.lines, text.row - 1, text.row, <<text.lines[text.row - 1] + lineLen>>),
           text.row - 1, text.lines[text.row - 1])
joinedNext ==
    [text EXCEPT !.lines = splice(@, text.row, text.row + 1,
                                  <<lineLen + text.lines[text.row + 1]>>)]

\* Code points from col on are deleted: backspace one, delete_word_left and
\* kill_line_left more.
deletedTo(from) == textAt([text.lines EXCEPT ![text.row] = @ - (text.col - from)], text.row, from)
deletedUpTo(end) == [text EXCEPT !.lines[text.row] = @ - (end - text.col)]

Backspace ==
    \/ text.col > 0 /\ edit(deletedTo(text.col - 1))
    \/ text.col = 0 /\ text.row > 1 /\ edit(joinedBefore)

DeleteWordLeft ==
    \/ \E start \in 0 .. text.col - 1 : edit(deletedTo(start))
    \/ text.col = 0 /\ text.row > 1 /\ edit(joinedBefore)

KillLineLeft_noUndo ==
    /\ text.col > 0
    /\ text' = deletedTo(0)
    /\ UNCHANGED <<undoStack, redoStack>>

KillLineLeft == text.col > 0 /\ edit(deletedTo(0))

Delete ==
    \/ text.col < lineLen /\ edit(deletedUpTo(text.col + 1))
    \/ text.col >= lineLen /\ text.row < rows /\ edit(joinedNext)

DeleteWordRight ==
    \/ \E end \in text.col + 1 .. lineLen : edit(deletedUpTo(end))
    \/ text.col >= lineLen /\ text.row < rows /\ edit(joinedNext)

KillLineRight ==
    \/ text.col < lineLen /\ edit(deletedUpTo(lineLen))
    \/ text.col >= lineLen /\ text.row < rows /\ edit(joinedNext)

Undo ==
    /\ undoStack # <<>>
    /\ text' = Last(undoStack)
    /\ undoStack' = Front(undoStack) /\ redoStack' = Append(redoStack, text)

Redo ==
    /\ redoStack # <<>>
    /\ text' = Last(redoStack)
    /\ redoStack' = Front(redoStack) /\ undoStack' = Append(undoStack, text)

\* A range that a completion computed from the text it was rendered with.
ReplaceRange ==
    \E t \in {replaceRangeInternal(sr, sc, er, ec, <<n>>) :
                 sr, er \in 1 .. MaxText, sc, ec \in 0 .. MaxText, n \in 0 .. 1} : edit(t)

\* Moves by the visual layout, by words, to an offset or a click.
Move == \E row \in 1 .. rows : \E col \in 0 .. text.lines[row] : moveTo(row, col)

-------------------------------------------------------------------------------
(* vim *)

after(row, col) == row > text.row \/ (row = text.row /\ col > text.col)

\* dw, cw, de, ce, db, cb: from the cursor to a position after or before it.
VimDeleteWord ==
    \E row \in 1 .. rows : \E col \in 0 .. text.lines[row] :
        IF after(row, col) THEN edit(removed(text.row, text.col, row, col))
        ELSE /\ <<row, col>> # <<text.row, text.col>>
             /\ edit(removed(row, col, text.row, text.col))

VimDeleteLine_sameRow(count) ==
    LET deleted == atMost(count, rows - text.row + 1) IN
    IF rows = 1 \/ deleted >= rows THEN edit(textAt(<<0>>, 1, 0))
    ELSE edit(textAt(splice(text.lines, text.row, text.row + deleted - 1, <<>>), text.row, 0))

VimDeleteLine(count) ==
    LET deleted == atMost(count, rows - text.row + 1) IN
    IF rows = 1 \/ deleted >= rows THEN edit(textAt(<<0>>, 1, 0))
    ELSE edit(textAt(splice(text.lines, text.row, text.row + deleted - 1, <<>>),
                     atMost(text.row, rows - deleted), 0))

\* cc, and c with j: the line range's end may make the range invalid.
VimChangeLine(count) == edit(removedLines(text.row, atMost(count, rows - text.row + 1)))

VimChangeUp(count) ==
    LET start == atLeast(text.row - count + 1, 1) IN
    IF rows = 1 THEN edit(removed(1, 0, 1, lineLen))
    ELSE edit(textAt(removedLines(start, text.row - start + 1).lines, start, 0))

VimChangeDown(count) ==
    IF rows = 1 THEN edit(removed(1, 0, 1, lineLen)) ELSE VimChangeLine(count)

VimChangeLeft(count) == edit(removed(text.row, atLeast(text.col - count, 0), text.row, text.col))
VimChangeRight(count) ==
    edit(removed(text.row, text.col, text.row, atMost(text.col + count, lineLen)))

VimDeleteChar(count) ==
    text.col < lineLen /\ VimChangeRight(count)

VimDeleteToEnd == text.col < lineLen /\ edit(removed(text.row, text.col, text.row, lineLen))

VimOpenBelow ==
    edit(replaceRangeInternal(text.row, lineLen, text.row, lineLen, <<0, 0>>))
VimOpenAbove ==
    edit(textAt(replaceRangeInternal(text.row, 0, text.row, 0, <<0, 0>>).lines, text.row, 0))

\* h and l one step; a count repeats it.
VimLeft ==
    \/ text.col > 0 /\ moveTo(text.row, text.col - 1)
    \/ /\ text.col = 0 /\ text.row > 1
       /\ moveTo(text.row - 1, atLeast(text.lines[text.row - 1] - 1, 0))
VimRight ==
    \/ text.col < lineLen - 1 /\ moveTo(text.row, text.col + 1)
    \/ text.col >= lineLen - 1 /\ text.row < rows /\ moveTo(text.row + 1, 0)

vimToRow(row) == moveTo(row, atMost(text.col, atLeast(text.lines[row] - 1, 0)))
VimUp(count) == vimToRow(atLeast(text.row - count, 1))
VimDown(count) == vimToRow(atMost(text.row + count, rows))

\* a, A, I, 0, $, ^ and Escape.
VimInLine ==
    \E col \in {atMost(text.col + 1, lineLen), lineLen, 0, atLeast(lineLen - 1, 0),
                atLeast(text.col - 1, 0)} \cup 0 .. lineLen :
        moveTo(text.row, col)

\* gg, G and a line's number.
VimToLine == \E row \in 1 .. rows : moveTo(row, 0)

VimEdit ==
    \/ VimDeleteWord \/ VimDeleteToEnd \/ VimOpenBelow \/ VimOpenAbove
    \/ \E count \in 1 .. MaxCount :
           \/ VimDeleteLine(count) \/ VimChangeLine(count) \/ VimChangeUp(count)
           \/ VimChangeDown(count) \/ VimChangeLeft(count) \/ VimChangeRight(count)
           \/ VimDeleteChar(count)

VimMove ==
    \/ VimLeft \/ VimRight \/ VimInLine \/ VimToLine
    \/ \E count \in 1 .. MaxCount : VimUp(count) \/ VimDown(count)

TextNext ==
    \/ SetText \/ ExternalEditor \/ Insert \/ Backspace \/ DeleteWordLeft \/ KillLineLeft
    \/ Delete \/ DeleteWordRight \/ KillLineRight \/ Undo \/ Redo \/ ReplaceRange
    \/ Move \/ VimEdit \/ VimMove

TextSpec == TextInit /\ [][TextNext]_textVars

-------------------------------------------------------------------------------

\* The cursor is in the text, whatever sequence of edits, vim commands with
\* counts, stale ranges and undone steps led there: a row or a column outside
\* would make later edits write behind the end (text-buffer.ts:1657,
\* vim-buffer-actions.ts:208, :354).
CursorInText ==
    /\ text.row \in 1 .. rows
    /\ text.col \in 0 .. lineLen

\* Whatever changes the lines can be taken back: the text before it is on top
\* of the undo stack, or of the redo stack when the step is an undo
\* (text-buffer.ts:1118, :1657).
ChangesCanBeUndone ==
    [][text'.lines # text.lines =>
          \/ undoStack' # <<>> /\ Last(undoStack') = text
          \/ redoStack' # <<>> /\ Last(redoStack') = text]_textVars
===============================================================================
