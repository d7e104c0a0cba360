------------------------------- MODULE Paths -------------------------------
(***************************************************************************)
(* PathResolve (src/kernel/path.c): the full path a name stands for in a   *)
(* current directory.  A text is the letter of its volume, or "", and the  *)
(* pieces between its slashes: "0:/b" is [volume |-> "0", pieces |->       *)
(* << <<>>, b >>], and "/" alone has two empty pieces.  Three arrays bound *)
(* the work: the joined text, the parts it is cut into, and the size of    *)
(* one part, whose last character is never written.                        *)
(***************************************************************************)
EXTENDS Integers, SequencesExt

CONSTANTS PathMax,   \* PATH_MAX: the characters of a text, with its end
          PartSize,  \* of one part: parts[..][PartSize]
          MaxParts   \* how many parts fit

ASSUME PathAssumption ==
    /\ {PathMax, PartSize, MaxParts} \subseteq Nat
    /\ PathMax > 3 /\ PartSize > 2 /\ MaxParts > 0

Dot == <<".">>
DotDot == <<".", ".">>

IsRooted(pieces) == Len(pieces) > 1 /\ pieces[1] = << >>

\* The first n characters of a name, or all of it.
Clipped(name, n) == SubSeq(name, 1, IF n < 0 THEN 0 ELSE IF n < Len(name) THEN n ELSE Len(name))

\* The place of the first character of each piece.
Offsets(pieces) ==
    LET offset[i \in DOMAIN pieces] == IF i = 1 THEN 0 ELSE offset[i - 1] + Len(pieces[i - 1]) + 1
    IN  [i \in DOMAIN pieces |-> offset[i]]

\* The pieces of the first n characters of a text, whose offsets are given.
CutAt(pieces, offsets, n) ==
    [i \in 1 .. Cardinality({j \in DOMAIN pieces : offsets[j] <= n}) |-> Clipped(pieces[i], n - offsets[i])]

Cut(pieces, n) == CutAt(pieces, Offsets(pieces), n)

\* Mutant: the slash is looked for before the volume is taken off.
Joined_VolumeFirst(cwd, path) ==
    Cut(IF path.volume = "" /\ IsRooted(path.pieces) THEN path.pieces ELSE cwd.pieces \o path.pieces, PathMax - 1)

\* The text that is cut into parts, as much of it as fits.
Joined(cwd, path) == Cut(IF IsRooted(path.pieces) THEN path.pieces ELSE cwd.pieces \o path.pieces, PathMax - 1)

\* One piece, on the array of parts: slots keep what was written last.
Push(work, piece) ==
    IF work.refused \/ piece \in {<< >>, Dot} THEN work
    ELSE IF piece = DotDot
    THEN [work EXCEPT !.depth = IF @ > 0 THEN @ - 1 ELSE 0]
    ELSE IF work.depth >= MaxParts THEN [work EXCEPT !.refused = TRUE]
    ELSE [work EXCEPT !.depth = @ + 1, !.slots[work.depth + 1] = Clipped(piece, PartSize - 1)]

\* The array is not initialised: what the stack held before is `left`.
Fresh(left) == [refused |-> FALSE, depth |-> 0, slots |-> [i \in 1 .. MaxParts |-> left]]
Parsed(pieces, left) ==
    LET work[i \in 0 .. Len(pieces)] == IF i = 0 THEN Fresh(left) ELSE Push(work[i - 1], pieces[i])
    IN  work[Len(pieces)]

\* A part is read until a zero: one that fills its place up to the character
\* nobody writes is followed by that one and by the next part.
PartsRead(slots, left) ==
    LET read[i \in 1 .. MaxParts + 1] ==
            IF i > MaxParts THEN left
            ELSE IF Len(slots[i]) < PartSize - 1 \/ left = << >> THEN slots[i]
            ELSE slots[i] \o left \o read[i + 1]
    IN  [i \in 1 .. MaxParts |-> read[i]]

\* A slash is written whatever the place, a character only if it fits.
Put(out, part) ==
    LET kept == Clipped(part, PathMax - 2 - out.size)
    IN  [size |-> out.size + 1 + Len(kept), pieces |-> Append(out.pieces, kept)]

VolumeSize(volume) == IF volume = "" THEN 0 ELSE 2

Started(volume) == [size |-> VolumeSize(volume), pieces |-> << << >> >>]
Written(volume, parts) ==
    LET out[i \in 0 .. Len(parts)] == IF i = 0 THEN Started(volume) ELSE Put(out[i - 1], parts[i])
    IN  IF parts = << >> THEN Put(out[0], << >>) ELSE out[Len(parts)]

\* A result of PathResolve that is no text: -1, or a text that was written
\* past the end of the caller's array.
Refused == [volume |-> "refused", pieces |-> << >>]
Overrun == [volume |-> "overrun", pieces |-> << >>]

Returned(volume, out) ==
    IF out.size >= PathMax THEN Overrun ELSE [volume |-> volume, pieces |-> out.pieces]

Answer(volume, work, left) ==
    IF work.refused THEN Refused
    ELSE Returned(volume, Written(volume, SubSeq(PartsRead(work.slots, left), 1, work.depth)))

PathResolve(cwd, path, left) ==
    Answer(IF path.volume = "" THEN cwd.volume ELSE path.volume, Parsed(Joined(cwd, path), left), left)
=============================================================================
