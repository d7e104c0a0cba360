------------------------------ MODULE Console -------------------------------
(***************************************************************************)
(* The console of kernel/ansi.c: a stream of bytes that prints text and    *)
(* drives the screen with escape sequences.  Bytes that matter are named.  *)
(* typed is auxiliary: the numbers of a sequence as the program wrote them. *)
(***************************************************************************)
EXTENDS Screen, Sequences

CONSTANTS MaxParams,  \* MAX_PARAMS, 8
          IntMax,     \* the largest int, 2^31 - 1
          Programs    \* bound: the bytes a program sends, those among them it
                      \* sends as text, the largest number it writes, and
                      \* whether it reads

Digit == [d \in {"0", "1", "2", "3", "4", "5", "7", "9"} |->
             CASE d = "0" -> 0 [] d = "1" -> 1 [] d = "2" -> 2 [] d = "3" -> 3
               [] d = "4" -> 4 [] d = "5" -> 5 [] d = "7" -> 7 [] d = "9" -> 9]

\* 0x40 to 0x7E.
Finals == {"a", "b", "A", "B", "C", "D", "E", "F", "G", "H", "f", "d", "J", "K", "P", "S", "m", "h", "l",
           "c", "M", "x", "[", "]"}

ASSUME ConsoleAssumption ==
    /\ MaxParams \in Nat \ {0}
    /\ IntMax \in Nat /\ IntMax > Width /\ IntMax > Height /\ IntMax > 10

VARIABLES screen, parser, typed,
          program  \* the one that runs

vars == <<screen, parser, typed, program>>

Init ==
    /\ program \in Programs
    /\ screen = Booted
    /\ parser = [state |-> "normal", params |-> << >>, current |-> 0, private |-> "none"]
    /\ typed = << >>

\* Arithmetic of int, which the build leaves to wrap.
Wrap(n) == ((n + IntMax + 1) % (2 * (IntMax + 1))) - (IntMax + 1)

\* The parameters of the sequence the next byte ends.
Given == IF Len(parser.params) < MaxParams THEN Append(parser.params, parser.current)
                                           ELSE parser.params

param(i, def) == IF i > Len(Given) \/ Given[i] = 0 THEN def ELSE Given[i]

-----------------------------------------------------------------------------
\* Where the sequences that move the cursor put it.
Targets ==
    LET n == param(1, 1)
        row == screen.row
        col == screen.col
    IN [A |-> <<Wrap(row - n), col>>, B |-> <<Wrap(row + n), col>>,
        C |-> <<row, Wrap(col + n)>>, D |-> <<row, Wrap(col - n)>>,
        E |-> <<Wrap(row + n), 0>>,   F |-> <<Wrap(row - n), 0>>,
        G |-> <<row, Wrap(n - 1)>>,   d |-> <<Wrap(n - 1), col>>,
        H |-> <<Wrap(n - 1), Wrap(param(2, 1) - 1)>>,
        f |-> <<Wrap(n - 1), Wrap(param(2, 1) - 1)>>]

Moved(final) == VGASetCursor(screen, Targets[final][1], Targets[final][2])

\* Mutant: the lines below are counted from the cursor's own.
Below_Own == At(screen.row, 0) .. At(Height, 0) - 1

Below == At(screen.row + 1, 0) .. At(Height, 0) - 1
Above == 0 .. At(screen.row, 0) - 1

\* An erase of part of the screen leaves the cursor, but for a full line,
\* which forgets that it is to break.
ErasedDisplay ==
    LET which == param(1, 0)
        kept(s) == VGASetCursor(s, screen.row, screen.col)
    IN IF which = 0 THEN kept(Fill(VGAClearToEOL(screen), Below))
       ELSE IF which = 1 THEN kept(VGAClearFromBOL(Fill(screen, Above)))
       ELSE IF which \in {2, 3} THEN VGASetCursor(VGAClearScreen(screen), 0, 0)
       ELSE screen

ErasedLine ==
    LET which == param(1, 0)
        kept(s) == VGASetCursor(s, screen.row, screen.col)
    IN IF which = 0 THEN kept(VGAClearToEOL(screen))
       ELSE IF which = 1 THEN kept(VGAClearFromBOL(screen))
       ELSE IF which = 2 THEN VGASetCursor(VGAClearLine(screen, screen.row), screen.row, 0)
       ELSE screen

-----------------------------------------------------------------------------
\* The colours of the terminal in the order of the screen's.
ansiFGtoVGA == <<0, 4, 2, 6, 1, 5, 3, 7>>

Bright(fg) == fg >= 8
Dimmed(fg) == fg % 8

\* Codes 30 to 37 keep the brightness.
Foreground(fg, n) == ansiFGtoVGA[n - 29] + (IF Bright(fg) THEN 8 ELSE 0)

\* One code of ApplySGR.
Graphic(c, n) ==
    IF n \in {0, 27} THEN DefaultColor
    ELSE IF n = 1 THEN [c EXCEPT !.fg = Dimmed(@) + 8]
    ELSE IF n \in {2, 22} THEN [c EXCEPT !.fg = Dimmed(@)]
    ELSE IF n = 7 THEN [fg |-> c.bg, bg |-> c.fg]
    ELSE IF n \in 30 .. 37 THEN [c EXCEPT !.fg = Foreground(@, n)]
    ELSE IF n = 39 THEN [c EXCEPT !.fg = DefaultColor.fg]
    ELSE IF n \in 40 .. 47 THEN [c EXCEPT !.bg = ansiFGtoVGA[n - 39]]
    ELSE IF n = 49 THEN [c EXCEPT !.bg = DefaultColor.bg]
    ELSE IF n \in 90 .. 97 THEN [c EXCEPT !.fg = ansiFGtoVGA[n - 89] + 8]
    ELSE IF n \in 100 .. 107 THEN [c EXCEPT !.bg = ansiFGtoVGA[n - 99] + 8]
    ELSE c

\* The codes of a sequence, one after the other.
ApplySGR ==
    LET color[i \in 0 .. Len(Given)] ==
            IF i = 0 THEN screen.color ELSE Graphic(color[i - 1], Given[i])
    IN [screen EXCEPT !.color = color[Len(Given)]]

-----------------------------------------------------------------------------
DispatchCSI(final) ==
    IF final \in DOMAIN Targets THEN Moved(final)
    ELSE IF final = "J" THEN ErasedDisplay
    ELSE IF final = "K" THEN ErasedLine
    ELSE IF final = "P" THEN VGADeleteChars(screen, param(1, 1))
    ELSE IF final = "S" THEN VGAScroll(screen, param(1, 1))
    ELSE IF final = "m" THEN ApplySGR
    ELSE IF final \in {"h", "l"} /\ parser.private = "?" /\ param(1, 0) = 25
         THEN [screen EXCEPT !.shown = final = "h"]
    ELSE screen

Enter(state) == parser' = [parser EXCEPT !.state = state]

\* Text, and the control characters VGAPrintC knows.
InText(c) ==
    /\ parser.state = "normal"
    /\ IF c = "ESC" THEN Enter("escape") /\ UNCHANGED screen
                    ELSE screen' = VGAPrintC(screen, c) /\ UNCHANGED parser
    /\ UNCHANGED typed

Cleared == [state |-> "sequence", params |-> << >>, current |-> 0, private |-> "none"]

AfterEscape(c) ==
    /\ parser.state = "escape"
    /\ parser' = IF c = "[" THEN Cleared
                 ELSE [parser EXCEPT !.state = IF c = "]" THEN "command" ELSE "normal"]
    /\ screen' = IF c = "c" THEN VGAReset(screen)
                 ELSE IF c = "M" /\ screen.row > 0
                      THEN VGASetCursor(screen, screen.row - 1, screen.col)
                 ELSE screen
    /\ typed' = IF c = "[" THEN <<0>> ELSE typed

\* Mutant: a new parameter goes on from the last.
Separated_Runs == [parser EXCEPT !.params = Given]

\* A parameter too many is dropped.
Separated == [parser EXCEPT !.params = Given, !.current = 0]

Accumulated(c) == Wrap(Wrap(parser.current * 10) + Digit[c])

Ends(c) == c \in Finals

\* The marks of private sequences; only the last counts.
Marks == {"?", ">", "!"}

\* Bytes of a sequence other than these are ignored.
InSequence(c) ==
    /\ parser.state = "sequence"
    /\ \/ c \in Marks /\ parser' = [parser EXCEPT !.private = c] /\ UNCHANGED <<screen, typed>>
       \/ /\ c \in DOMAIN Digit
          /\ typed[Len(typed)] * 10 + Digit[c] <= program.largest
          /\ parser' = [parser EXCEPT !.current = Accumulated(c)]
          /\ typed' = [typed EXCEPT ![Len(typed)] = @ * 10 + Digit[c]]
          /\ UNCHANGED screen
       \/ /\ c = ";" /\ Len(typed) <= MaxParams
          /\ parser' = Separated
          /\ typed' = Append(typed, 0)
          /\ UNCHANGED screen
       \/ /\ Ends(c)
          /\ screen' = DispatchCSI(c)
          /\ parser' = [parser EXCEPT !.state = "normal", !.params = Given]
          /\ UNCHANGED typed
       \/ /\ c \notin Marks /\ c # ";" /\ c \notin DOMAIN Digit /\ ~Ends(c)
          /\ UNCHANGED <<screen, parser, typed>>

\* A command to the terminal itself is skipped.
InCommand(c) ==
    /\ parser.state = "command"
    /\ IF c \in {"BEL", "ESC"} THEN Enter("normal") ELSE UNCHANGED parser
    /\ UNCHANGED <<screen, typed>>

ANSIPutC(c) == InText(c) \/ AfterEscape(c) \/ InSequence(c) \/ InCommand(c)

Sent == IF parser.state = "normal" THEN program.text ELSE program.bytes

Next == (\E c \in Sent : ANSIPutC(c)) /\ UNCHANGED program

Spec == Init /\ [][Next]_vars

-----------------------------------------------------------------------------
\* What the program wrote.
Goes(c, row, col) ==
    ANSIPutC(c) => screen'.row = Clamp(row, Height) /\ screen'.col = Clamp(col, Width)
InRange == \A i \in DOMAIN typed : typed[i] + Height + Width <= IntMax
Number(i) == IF i > Len(typed) \/ typed[i] = 0 THEN 1 ELSE typed[i]

\* A movement goes as far as the program's digits say, and to the edge of the
\* screen if that is nearer, for numbers an int has room for
\* (kernel/ansi.c:117-152, 262-268).
MovesAsTyped ==
    [][parser.state = "sequence" /\ InRange =>
           /\ Goes("A", screen.row - Number(1), screen.col)
           /\ Goes("B", screen.row + Number(1), screen.col)
           /\ Goes("C", screen.row, screen.col + Number(1))
           /\ Goes("D", screen.row, screen.col - Number(1))
           /\ Goes("H", Number(1) - 1, IF MaxParams > 1 THEN Number(2) - 1 ELSE 0)]_vars

\* An erase blanks what lies on its side of the cursor, and nothing else: to
\* the end or from the beginning, of the screen (J) or of the line (K).  The
\* cell under the cursor belongs to both sides; after the last column it is
\* the first of the next line (kernel/ansi.c:154-190).
ErasesItsSide ==
    [][LET cursor == At(screen.row, screen.col)
           side == {i \in Visible : IF typed[1] = 0 THEN i >= cursor ELSE i <= cursor}
           line == {i \in side : i \div Width = screen.row}
           Erases(c, all, other) ==
               ANSIPutC(c) => \A i \in Visible :
                   /\ i \in all => screen'.cells[i] = Blank(screen.color)
                   /\ i \notin all \cup other => screen'.cells[i] = screen.cells[i]
       IN parser.state = "sequence" /\ typed[1] \in {0, 1} =>
              Erases("J", side, {}) /\ Erases("K", line, {cursor})]_vars
=============================================================================
