------------------------------ MODULE Terminal ------------------------------
(***************************************************************************)
(* The line discipline of kernel/tty.c over the console of Console: a      *)
(* program writes; when it reads, keys edit a line that is echoed, until a *)
(* line break hands it over.  The keys come from the keyboard buffer, whose *)
(* promise is KeyQueue; nothing else prints while a program reads.         *)
(***************************************************************************)
EXTENDS Console

CONSTANTS TTY_BUFSZ,  \* 256
          Keys,       \* printable characters that can be typed
          Counts      \* bound: how much a program asks for

\* A line fits on the screen, below the one it was begun on.
ASSUME TerminalAssumption ==
    /\ TTY_BUFSZ \in Nat \ {0} /\ TTY_BUFSZ <= Width * (Height - 1)
    /\ Counts \subseteq Nat \ {0}

VARIABLES ttyLine,  \* the line as edited so far
          request,  \* how much the program reads, 0 when it does not
          plain,    \* the console was not in a sequence when it began to
          given     \* what the read has returned

ttyVars == <<vars, ttyLine, request, plain, given>>

TerminalInit == Init /\ ttyLine = << >> /\ request = 0 /\ plain = TRUE /\ given = << >>

TTYWrite ==
    /\ request = 0
    /\ Next
    /\ UNCHANGED <<ttyLine, request, plain, given>>

TTYRead(count) ==
    /\ program.reads /\ request = 0
    /\ request' = count
    /\ plain' = (parser.state = "normal")
    /\ given' = << >>
    /\ UNCHANGED <<vars, ttyLine>>

Reading == request > 0

Rest(s) == SubSeq(s, 1, Len(s) - 1)

Backspace ==
    /\ Reading
    /\ IF ttyLine = << >> THEN UNCHANGED <<vars, ttyLine>>
                          ELSE ANSIPutC("BS") /\ ttyLine' = Rest(ttyLine)
    /\ UNCHANGED <<request, plain, given>>

\* Mutant: one backspace for the whole line.
Backspaces_One == IF ttyLine = << >> THEN 0 ELSE 1

\* What EraseLine sends: a console in a sequence takes some or all of them.
Backspaces ==
    IF parser.state = "normal" THEN Len(ttyLine)
    ELSE IF parser.state = "escape" /\ ttyLine # << >> THEN Len(ttyLine) - 1 ELSE 0

\* Character 21 erases the whole line, one backspace after another.
EraseLine ==
    /\ Reading
    /\ LET after[i \in 0 .. Len(ttyLine)] ==
               IF i = 0 THEN screen ELSE VGAPrintC(after[i - 1], "BS")
       IN screen' = after[Backspaces]
    /\ IF parser.state = "escape" /\ ttyLine # << >> THEN Enter("normal") ELSE UNCHANGED parser
    /\ ttyLine' = << >>
    /\ UNCHANGED <<typed, request, plain, given>>

\* '\n' and '\r'.
EndLine ==
    /\ Reading
    /\ ANSIPutC("LF")
    /\ LET line == Append(ttyLine, "LF")
       IN given' = SubSeq(line, 1, IF Len(line) < request THEN Len(line) ELSE request)
    /\ ttyLine' = << >> /\ request' = 0
    /\ UNCHANGED plain

HasRoom == Len(ttyLine) < TTY_BUFSZ - 1

Character(c) ==
    /\ Reading
    /\ IF HasRoom THEN ANSIPutC(c) /\ ttyLine' = Append(ttyLine, c)
                  ELSE UNCHANGED <<vars, ttyLine>>
    /\ UNCHANGED <<request, plain, given>>

\* The kernel's part in one key.
TTYEdit ==
    /\ Backspace \/ EraseLine \/ EndLine \/ \E c \in Keys : Character(c)
    /\ UNCHANGED program

TerminalNext ==
    \/ TTYWrite
    \/ \E count \in Counts : TTYRead(count)
    \/ TTYEdit

TerminalSpec == TerminalInit /\ [][TerminalNext]_ttyVars

-----------------------------------------------------------------------------
\* While a program reads, the screen shows the line as it will be handed over,
\* right before the cursor: over line breaks, at the bottom of the screen and
\* after any mixture of typing and erasing, if the program left the console
\* out of a sequence (kernel/tty.c:24-50).
Cursor == At(screen.row, screen.col)
EchoExact ==
    Reading /\ plain =>
        \A i \in 1 .. Len(ttyLine) : screen.cells[Cursor - Len(ttyLine) + i - 1].ch = ttyLine[i]

\* Editing a line never touches what the program wrote before it, which moves
\* only when the screen scrolls.
Origin == Cursor - Len(ttyLine)
PromptStays ==
    [][Reading /\ request' = request /\ plain =>
           \E lines \in 0 .. 1 :
               /\ Origin' = Origin - lines * Width
               /\ \A i \in 0 .. Origin' - 1 : screen'.cells[i] = screen.cells[i + lines * Width]]_ttyVars

\* A program that sends no more than text, line breaks, tabs, backspaces and colours, and
\* a user who edits lines, have the paper of Paper: lines in order, broken
\* where they are full, the last Height of them on the screen
\* (dev/vga.c:25-92, kernel/tty.c:24-50).
Plain == {p \in Programs : p.reads}
Characters == Keys \cup (UNION {p.text : p \in Plain} \ {"LF", "BS", "TAB", "ESC"})
Line(row) == [i \in 1 .. Width |-> screen.cells[At(row, i - 1)].ch]
Written == INSTANCE Paper WITH
    Chars <- Characters,
    above <- IF program \in Plain THEN [r \in 1 .. screen.row |-> Line(r - 1)] ELSE << >>,
    current <- IF program \in Plain THEN SubSeq(Line(screen.row), 1, screen.col) ELSE << >>
Implements == Written!Spec
=============================================================================
