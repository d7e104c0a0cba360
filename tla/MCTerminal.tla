----------------------------- MODULE MCTerminal -----------------------------
(***************************************************************************)
(* Programs on three lines of two: one prints, begins a colour and reads   *)
(* lines; two print and erase, one of them in colours; one moves the cursor *)
(* and knows numbers too large for an int of 47.                           *)
(***************************************************************************)
EXTENDS Terminal

Reads ==
    [bytes |-> {"a", "LF", "TAB", "BS", "ESC", "[", "m"},
     text |-> {"a", "LF", "TAB", "BS", "ESC"}, largest |-> 0, reads |-> TRUE]

Erases ==
    [bytes |-> {"x", "ESC", "[", "1", "2", "A", "B", "H", "J", "K", "P", "S", "c", "M"},
     text |-> {"x", "ESC"}, largest |-> 2, reads |-> FALSE]

Paints ==
    [bytes |-> {"x", "ESC", "[", "7", "B", "J", "K", "m"}, text |-> {"x", "ESC"},
     largest |-> 7, reads |-> FALSE]

Moves ==
    [bytes |-> {"ESC", "[", ";", "]", "BEL", "?", "2", "5",
                "A", "B", "C", "D", "E", "d", "H", "l", "h"},
     text |-> {"ESC"}, largest |-> 55, reads |-> FALSE]

MCPrograms == {Reads, Erases, Paints, Moves}
=============================================================================
