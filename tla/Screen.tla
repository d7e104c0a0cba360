------------------------------- MODULE Screen -------------------------------
(***************************************************************************)
(* The text screen of dev/vga.c: a cursor over Height lines of Width cells *)
(* in the video memory.  A character printed in the last column leaves the *)
(* cursor after it (column Width); the line breaks when the next one is    *)
(* printed.  The memory goes on after the screen: its first cell there is  *)
(* part of the model because an erase reaches it.                          *)
(***************************************************************************)
EXTENDS Integers

CONSTANTS Width, Height,  \* VGA_WIDTH and VGA_HEIGHT, 80 and 25
          TabStop         \* columns between two tab stops, 4

ASSUME ScreenAssumption ==
    Width \in Nat \ {0} /\ Height \in Nat \ {0} /\ TabStop \in Nat \ {0}

Visible == 0 .. Width * Height - 1
Cells == 0 .. Width * Height

DefaultColor == [fg |-> 7, bg |-> 0]

\* A cell is a character and its colour.
Glyph(c, color) == [ch |-> c, color |-> color]
Blank(color) == Glyph(" ", color)

At(row, col) == row * Width + col

\* Every function that moves the cursor tells the hardware, at the end.
VGASetCurPos(s) == [s EXCEPT !.hardware = At(s.row, s.col)]

Place(s, row, col) == VGASetCurPos([s EXCEPT !.row = row, !.col = col])

Clamp(n, size) == IF n < 0 THEN 0 ELSE IF n >= size THEN size - 1 ELSE n

Fill(s, cells) ==
    [s EXCEPT !.cells = [i \in Cells |-> IF i \in cells THEN Blank(s.color) ELSE s.cells[i]]]

\* What boot leaves, and VGAReset; the cell after the screen is not reset.
VGAReset(s) ==
    VGASetCurPos([s EXCEPT !.row = 0, !.col = 0, !.color = DefaultColor,
                           !.cells = [i \in Cells |-> IF i \in Visible THEN Blank(DefaultColor)
                                                                       ELSE s.cells[i]]])

\* n calls of VGAScroll; the cursor stays.
VGAScroll(s, n) ==
    [s EXCEPT !.cells = [i \in Cells |-> IF i \notin Visible \/ n <= 0 THEN s.cells[i]
                                         ELSE IF i + n * Width \in Visible THEN s.cells[i + n * Width]
                                         ELSE Blank(DefaultColor)]]

VGALineBreak(s) ==
    IF s.row < Height - 1 THEN Place(s, s.row + 1, 0) ELSE Place(VGAScroll(s, 1), s.row, 0)

\* Mutant: a line breaks as soon as it is full.
Ready_Eager(s) == IF s.col >= Width - 1 THEN VGALineBreak(s) ELSE s

\* Before a character is printed, a full line breaks.
Ready(s) == IF s.col = Width THEN VGALineBreak(s) ELSE s

Printed(s, c) ==
    LET r == Ready(s)
    IN Place([r EXCEPT !.cells[At(r.row, r.col)] = Glyph(c, s.color)], r.row, r.col + 1)

\* Blanks up to the next stop; the end of the line stops them, and breaks it.
Tabbed(s) ==
    LET r == Ready(s)
        stop == r.col + TabStop - (r.col % TabStop)
        end == IF stop < Width THEN stop ELSE Width
        filled == Fill(r, At(r.row, r.col) .. At(r.row, end) - 1)
    IN IF end = Width THEN VGALineBreak(filled) ELSE Place(filled, r.row, end)

\* Mutant: a backspace stops at the beginning of the line.
VGABackspace_Stops(s) ==
    LET col == Clamp(s.col - 1, Width) IN Place(Fill(s, {At(s.row, col)}), s.row, col)

\* Back to the end of the line before when the line begins.
VGABackspace(s) ==
    LET row == IF s.col = 0 /\ s.row > 0 THEN s.row - 1 ELSE s.row
        col == IF s.col = 0 THEN Width - 1 ELSE s.col - 1
    IN Place(Fill(s, {At(row, col)}), row, col)

VGAPrintC(s, c) ==
    IF c = "LF" THEN VGALineBreak(s)
    ELSE IF c = "CR" THEN Place(s, s.row, 0)
    ELSE IF c = "BS" THEN VGABackspace(s)
    ELSE IF c = "TAB" THEN Tabbed(s)
    ELSE Printed(s, c)

VGASetCursor(s, row, col) == Place(s, Clamp(row, Height), Clamp(col, Width))

VGAClearScreen(s) == Fill(s, Visible)
VGAClearLine(s, row) == Fill(s, At(row, 0) .. At(row, Width) - 1)
VGAClearToEOL(s) == Fill(s, At(s.row, s.col) .. At(s.row, Width) - 1)

\* The cell under the cursor too: the first of the next line when the cursor
\* is after the last column.
VGAClearFromBOL(s) == Fill(s, At(s.row, 0) .. At(s.row, s.col))

\* A count so large that the sum i + count overflows an int, for which the
\* code's outcome is undefined, blanks the rest of the line here.
VGADeleteChars(s, count) ==
    [s EXCEPT !.cells =
        [i \in Cells |->
            IF count <= 0 \/ i \notin At(s.row, s.col) .. At(s.row, Width) - 1 THEN s.cells[i]
            ELSE IF i + count < At(s.row, Width) THEN s.cells[i + count] ELSE Blank(s.color)]]

\* The screen when the kernel has started.
Booted ==
    VGAReset([cells |-> [i \in Cells |-> Blank(DefaultColor)], row |-> 0, col |-> 0,
              color |-> DefaultColor, hardware |-> 0, shown |-> TRUE])
=============================================================================
