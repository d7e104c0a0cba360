------------------------------ MODULE FatNames ------------------------------
(***************************************************************************)
(* How FatFs names files: the long name a program gives is kept as it is in *)
(* entries of its own, and a short name in capitals is made for it.  A      *)
(* character is its ASCII code; names with other characters are left out.   *)
(*                                                                         *)
(* A directory name is what create_name makes of a segment of a path:       *)
(* the long name lfn, the body and the extension of the short name, and the *)
(* flags of fn[NSFLAG].                                                     *)
(***************************************************************************)
EXTENDS Integers, Sequences, SequencesExt

CONSTANTS
    BodyLen,      \* characters of a short name's body (8)
    ExtLen,       \* characters of its extension (3)
    LfnLen,       \* characters of a long name in a directory entry (13)
    MaxLfn        \* FF_MAX_LFN

ASSUME NameAssumption ==
    /\ BodyLen \in Nat /\ BodyLen >= 2
    /\ ExtLen \in Nat /\ LfnLen \in Nat \ {0} /\ MaxLfn \in Nat \ {0}

Space == 32
Dot == 46
Tilde == 126
Under == 95

IsUpper(c) == c \in 65 .. 90
IsLower(c) == c \in 97 .. 122

\* ff_wtoupper on ASCII: the first block of its table, shifted by 32.
Upper(c) == IF IsLower(c) THEN c - 32 ELSE c
Uppers(s) == [i \in DOMAIN s |-> Upper(s[i])]

IllegalLong == {42, 58, 60, 62, 124, 34, 63, 127}      \* *:<>|"? and DEL
IllegalShort == {43, 44, 59, 61, 91, 93}               \* +,;=[]
-----------------------------------------------------------------------------
(* create_name.                                                            *)

RECURSIVE Snip(_)
\* Trailing spaces and dots are not part of a name.
Snip(s) == IF s # <<>> /\ s[Len(s)] \in {Space, Dot} THEN Snip(Front(s)) ELSE s

\* The place of the last dot, 0 when there is none.
LastDot(s) == LET D == {i \in DOMAIN s : s[i] = Dot} IN
              IF D = {} THEN 0 ELSE CHOOSE i \in D : \A j \in D : j <= i

Kept(s) == SelectSeq(s, LAMBDA c : c \notin {Space, Dot})
Clip(s, n) == IF Len(s) > n THEN SubSeq(s, 1, n) ELSE s
Legal(s) == [i \in DOMAIN s |-> IF s[i] \in IllegalShort THEN Under ELSE Upper(s[i])]
HasUpper(s) == \E i \in DOMAIN s : IsUpper(s[i])
HasLower(s) == \E i \in DOMAIN s : IsLower(s[i])

\* The short name of a long one.  It is lossy when characters were dropped or
\* replaced; a long entry is needed then, and when the body or the extension
\* mixes cases; a name all of whose body (extension) is small needs only a flag.
ShortOf(lfn) ==
    LET dot == LastDot(lfn)
        stem == IF dot = 0 THEN lfn ELSE SubSeq(lfn, 1, dot - 1)
        tail == IF dot = 0 THEN <<>> ELSE SubSeq(lfn, dot + 1, Len(lfn))
        body == Clip(Kept(stem), BodyLen)
        ext == Clip(Kept(tail), ExtLen)
        loss == \/ Len(body) < Len(stem) \/ Len(ext) < Len(tail)
                \/ dot = 1
                \/ \E i \in DOMAIN body : body[i] \in IllegalShort
                \/ \E i \in DOMAIN ext : ext[i] \in IllegalShort
        long == \/ loss
                \/ HasUpper(body) /\ HasLower(body)
                \/ HasUpper(ext) /\ HasLower(ext)
    IN [body |-> Legal(body), ext |-> Legal(ext), loss |-> loss, long |-> long,
        small |-> [body |-> ~long /\ HasLower(body), ext |-> ~long /\ HasLower(ext)]]

\* A segment of a path; res is "INVALID_NAME" where no name can be made of it.
CreateName(seg) ==
    LET lfn == Snip(seg) IN
    IF \/ \E i \in DOMAIN seg : seg[i] \in IllegalLong
       \/ Len(seg) > MaxLfn
       \/ lfn = <<>>
    THEN [res |-> "INVALID_NAME"]
    ELSE [res |-> "OK", lfn |-> lfn, fn |-> ShortOf(lfn)]
-----------------------------------------------------------------------------
(* gen_numname: the short name with a number, for a lossy one.             *)

Flip(x, b) == IF (x \div b) % 2 = 1 THEN x - b ELSE x + b

\* One bit of a character into the CRC (polynomial 0x11021).
CrcBit(crc, bit) ==
    LET x == 2 * crc + bit IN
    IF x >= 65536 THEN Flip(Flip(Flip(x - 65536, 4096), 32), 1) ELSE x

Crc(crc, s) ==
    FoldLeft(LAMBDA a, c :
                FoldLeft(LAMBDA b, i : CrcBit(b, (c \div 2^i) % 2), a,
                         [i \in 1 .. 16 |-> i - 1]), crc, s)

HexDigit(d) == IF d > 9 THEN d + 55 ELSE d + 48

RECURSIVE Hex(_, _)
\* The number in hexadecimal, at most n digits of it.
Hex(x, n) == IF n = 0 THEN <<>>
             ELSE (IF x < 16 THEN <<>> ELSE Hex(x \div 16, n - 1)) \o <<HexDigit(x % 16)>>

\* The number seq itself up to five, a hash of the long name after that, is
\* written over the end of the body.
GenNumName(fn, lfn, seq) ==
    LET n == IF seq > 5 THEN Crc(seq, lfn) ELSE seq
        tag == <<Tilde>> \o Hex(n, BodyLen - 1)
    IN [fn EXCEPT !.body = Clip(@, BodyLen - Len(tag)) \o tag]

\* The eleven characters of a short name on the disk.
Padded(s, n) == s \o [i \in 1 .. n - Len(s) |-> Space]
Eleven(fn) == Padded(fn.body, BodyLen) \o Padded(fn.ext, ExtLen)

SumSfn(eleven) ==
    FoldLeft(LAMBDA a, c : ((a \div 2) + 128 * (a % 2) + c) % 256, 0, eleven)
-----------------------------------------------------------------------------
(* Directory entries that carry a piece of a long name.                    *)

PieceCount(lfn) == (Len(lfn) + LfnLen - 1) \div LfnLen

\* The long entry number ord (1 is the piece the name begins with).
PutLfn(lfn, ord, sum) ==
    LET end == IF ord * LfnLen > Len(lfn) THEN Len(lfn) ELSE ord * LfnLen IN
    [kind |-> "lfn", ord |-> ord, last |-> end = Len(lfn), sum |-> sum,
     piece |-> SubSeq(lfn, (ord - 1) * LfnLen + 1, end)]

\* Is the entry the piece of this name, whatever the case of its letters?
CmpLfn(lfn, e) ==
    LET at == (e.ord - 1) * LfnLen
        n == Len(e.piece)
    IN /\ at + n <= Len(lfn)
       /\ Uppers(e.piece) = Uppers(SubSeq(lfn, at + 1, at + n))
       /\ n < LfnLen => at + n = Len(lfn)
       /\ e.last => at + n = Len(lfn)

\* The name a listing gives an entry without a long name.
Small(s, yes) == IF yes THEN [i \in DOMAIN s |-> IF IsUpper(s[i]) THEN s[i] + 32 ELSE s[i]]
                 ELSE s
ShortShown(eleven, small) ==
    LET body == Kept(SubSeq(eleven, 1, BodyLen))
        ext == Kept(SubSeq(eleven, BodyLen + 1, BodyLen + ExtLen))
    IN Small(body, small.body)
       \o (IF ext = <<>> THEN <<>> ELSE <<Dot>> \o Small(ext, small.ext))
=============================================================================
