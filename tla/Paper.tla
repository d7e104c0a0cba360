-------------------------------- MODULE Paper -------------------------------
(***************************************************************************)
(* What a program that only prints may rely on: its text stands on lines   *)
(* of Width places, full lines break, and the last Height lines are kept.  *)
(***************************************************************************)
EXTENDS Integers, Sequences

CONSTANTS Width, Height, TabStop,
          Chars   \* the characters that are printed as they are

VARIABLES above,   \* the lines above the one being written
          current  \* what is on that line, up to the place written next

vars == <<above, current>>

Spaces(n) == [i \in 1 .. n |-> " "]
Padded == current \o Spaces(Width - Len(current))

\* Lines, the oldest lost when one more does not fit above another.
Under(lines, line) ==
    IF Len(lines) + 1 < Height THEN Append(lines, line) ELSE Tail(Append(lines, line))

Init == above = << >> /\ current = << >>

Put(c) ==
    IF Len(current) = Width THEN above' = Under(above, current) /\ current' = <<c>>
                            ELSE UNCHANGED above /\ current' = Append(current, c)

Break == above' = Under(above, Padded) /\ current' = << >>

\* A tab fills up to a stop; one that fills the line breaks it.
TabOn(line, lines) ==
    LET stop == Len(line) + TabStop - (Len(line) % TabStop)
    IN IF stop < Width
       THEN current' = line \o Spaces(stop - Len(line)) /\ above' = lines
       ELSE current' = << >> /\ above' = Under(lines, line \o Spaces(Width - Len(line)))

Tab == IF Len(current) = Width THEN TabOn(<< >>, Under(above, current)) ELSE TabOn(current, above)

\* Without the place written last; at the beginning of a line, without the
\* last place of the line above, or of this one if there is none.
Rubbed(p) ==
    IF p.current # << >> THEN [p EXCEPT !.current = SubSeq(@, 1, Len(@) - 1)]
    ELSE IF p.above # << >>
         THEN [current |-> SubSeq(p.above[Len(p.above)], 1, Width - 1),
               above |-> SubSeq(p.above, 1, Len(p.above) - 1)]
         ELSE [p EXCEPT !.current = Spaces(Width - 1)]

\* Some places are taken back at once.
Rub ==
    LET after[i \in 0 .. Width * Height] ==
            IF i = 0 THEN [above |-> above, current |-> current] ELSE Rubbed(after[i - 1])
    IN \E n \in 1 .. Width * Height : above' = after[n].above /\ current' = after[n].current

Next == (\E c \in Chars : Put(c)) \/ Break \/ Tab \/ Rub

Spec == Init /\ [][Next]_vars
=============================================================================
