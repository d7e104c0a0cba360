---------------------------- MODULE NamingProofs ----------------------------
EXTENDS Naming, FiniteSetTheorems, SequenceTheorems, WellFoundedInduction, TLAPS

(***************************************************************************)
(* What the numbers of volumes mean, where a process stands, and that      *)
(* Naming implements NameSpec, for any texts that TextsAssumption allows,  *)
(* any drives of MachinesAssumption and any limits.  The order:            *)
(*   1. induction over a set of numbers; what the recursive functions of   *)
(*      Paths and NameSpec compute, one step at a time;                    *)
(*   2. PathResolve: with room for every part it answers the text of the   *)
(*      walk (AnswerFollows, AnswerFrom), and whatever it is given the text *)
(*      of an answer has one shape (AnswerShape, Resolved);                *)
(*   3. the numbers of volumes (VolumesInv), SpecVolumesAsNumbered;        *)
(*   4. the mounts and the current directories (MountsInv, CwdInv),        *)
(*      SpecCwdStands;                                                     *)
(*   5. each step is a step of NameSpec (WalkResolves, CallImplements,     *)
(*      ShellImplements, StepSettles), Refinement.                         *)
(***************************************************************************)

(***************************************************************************)
(* Induction over the numbers, for a set of them.                          *)
(***************************************************************************)
LEMMA Climb ==
    ASSUME NEW set, 0 \in set, \A n \in Nat : n \in set => n + 1 \in set
    PROVE  \A n \in Nat : n \in set
<1> DEFINE bad == {n \in Nat : n \notin set}
<1>1. PICK R : R = OpToRel(<, Nat)
  OBVIOUS
<1>2. IsWellFoundedOn(R, Nat)
  BY <1>1, NatLessThanWellFounded
<1>3. SUFFICES ASSUME bad # {} PROVE FALSE
  OBVIOUS
<1>4. bad \subseteq Nat
  OBVIOUS
<1>5. \E x \in bad : \A y \in bad : ~ (<<y, x>> \in R)
  <2> HIDE DEF bad
  <2> QED
    BY <1>2, <1>3, <1>4, WFMin
<1>6. \A x, y \in Nat : y < x => <<y, x>> \in R
  BY <1>1 DEF OpToRel
<1>7. PICK x \in bad : \A y \in bad : ~ (<<y, x>> \in R)
  BY <1>5
<1>8. x # 0 /\ x - 1 \in Nat /\ x - 1 < x
  OBVIOUS
<1>9. x - 1 \notin bad
  BY <1>6, <1>7, <1>8
<1>10. x - 1 \in set
  BY <1>8, <1>9
<1>11. x - 1 + 1 \in set
  BY <1>8, <1>10
<1> QED
  BY <1>8, <1>11

(***************************************************************************)
(* What holds at 0 and of each number after the one before it, as far as n. *)
(***************************************************************************)
LEMMA ClimbTo ==
    ASSUME NEW n \in Nat, NEW set, 0 \in set, \A i \in 1 .. n : i - 1 \in set => i \in set
    PROVE  \A i \in 0 .. n : i \in set
<1> DEFINE good == {k \in Nat : k <= n => k \in set}
<1>1. 0 \in good
  OBVIOUS
<1>2. ASSUME NEW k \in Nat, k \in good PROVE k + 1 \in good
  <2>1. ASSUME k + 1 <= n PROVE k + 1 \in set
    <3>1. k + 1 \in 1 .. n /\ k + 1 - 1 = k /\ k <= n
      BY <2>1
    <3>2. k \in set
      BY <1>2, <3>1
    <3> QED
      BY <3>1, <3>2
  <2> QED
    BY <2>1
<1> HIDE DEF good
<1>3. \A k \in Nat : k \in good
  BY <1>1, <1>2, Climb
<1> QED
  BY <1>3 DEF good

\* Two functions that begin alike and go on alike.
Follow(f, g, n) == f[0] = g[0] /\ \A i \in 1 .. n : f[i - 1] = g[i - 1] => f[i] = g[i]

\* Such functions are equal as far as they were followed.
LEMMA SameClimb ==
    ASSUME NEW f, NEW g, NEW n \in Nat, Follow(f, g, n)
    PROVE  \A i \in 0 .. n : f[i] = g[i]
<1> DEFINE set == {k \in Nat : f[k] = g[k]}
<1>1. 0 \in set
  BY DEF Follow
<1>2. \A i \in 1 .. n : i - 1 \in set => i \in set
  BY DEF Follow
<1> HIDE DEF set
<1>3. \A i \in 0 .. n : i \in set
  BY <1>1, <1>2, ClimbTo
<1> QED
  BY <1>3 DEF set

(***************************************************************************)
(* A recursive function exists when each of its steps stays in one set.    *)
(***************************************************************************)
Steps(step, n, S) == step \in [(1 .. n) \X S -> S]
\* The function that those steps make.
Climbs(f, n, S, base, step) == f \in [0 .. n -> S] /\ f[0] = base /\ \A i \in 1 .. n : f[i] = step[<<i, f[i - 1]>>]

\* It exists: by induction on how far it is defined.
LEMMA Recursion ==
    ASSUME NEW S, NEW base \in S, NEW n \in Nat, NEW step, Steps(step, n, S)
    PROVE  \E f : Climbs(f, n, S, base, step)
<1> DEFINE set == {k \in Nat : \E f : Climbs(f, k, S, base, step)}
<1>1. 0 \in set
  <2>1. Climbs([i \in 0 .. 0 |-> base], 0, S, base, step)
    BY DEF Climbs
  <2> QED
    BY <2>1
<1>2. ASSUME NEW j \in 1 .. n, j - 1 \in set PROVE j \in set
  <2>1. PICK f : Climbs(f, j - 1, S, base, step)
    BY <1>2
  <2>2. PICK v : v = step[<<j, f[j - 1]>>]
    OBVIOUS
  <2>3. v \in S
    <3>1. j - 1 \in 0 .. j - 1
      OBVIOUS
    <3>2. f[j - 1] \in S
      BY <2>1, <3>1 DEF Climbs
    <3> QED
      BY <2>2, <3>2 DEF Steps
  <2> DEFINE g == [i \in 0 .. j |-> IF i = j THEN v ELSE f[i]]
  <2>4. g \in [0 .. j -> S]
    BY <2>1, <2>3 DEF Climbs
  <2>5. g[0] = base
    BY <2>1 DEF Climbs
  <2>6. ASSUME NEW i \in 1 .. j PROVE g[i] = step[<<i, g[i - 1]>>]
    <3>1. i - 1 \in 0 .. j - 1 /\ g[i - 1] = f[i - 1]
      OBVIOUS
    <3>2. CASE i = j
      <4>1. g[j] = v
        OBVIOUS
      <4> HIDE DEF g
      <4> QED
        BY <2>2, <3>1, <3>2, <4>1
    <3>3. CASE i # j
      <4>1. i \in 1 .. j - 1 /\ g[i] = f[i]
        BY <3>3
      <4>2. f[i] = step[<<i, f[i - 1]>>]
        BY <2>1, <4>1 DEF Climbs
      <4> HIDE DEF g
      <4> QED
        BY <3>1, <4>1, <4>2
    <3> QED
      BY <3>2, <3>3
  <2> HIDE DEF g
  <2>7. Climbs(g, j, S, base, step)
    BY <2>4, <2>5, <2>6 DEF Climbs
  <2> QED
    BY <2>7
<1> HIDE DEF set
<1>3. n \in set
  BY <1>1, <1>2, ClimbTo
<1> QED
  BY <1>3 DEF set

-----------------------------------------------------------------------------
(***************************************************************************)
(* Names, texts, and what is made of them.                                 *)
(***************************************************************************)
Characters == STRING \cup {".", "x"}
Word == Seq(Characters)
Pieces == Seq(Word)
Works == [refused : BOOLEAN, depth : 0 .. MaxParts, slots : [1 .. MaxParts -> Word]]

\* What TextsAssumption says of the three limits, as numbers.
LEMMA Limits == PathMax \in Nat /\ PathMax > 3 /\ PartSize \in Nat /\ PartSize > 2 /\ MaxParts \in Nat /\ MaxParts > 0
BY PathAssumption

\* As much of a word as there is room for (kernel/path.c:47).
LEMMA ClippedIs ==
    ASSUME NEW word \in Word, NEW n \in Int
    PROVE  /\ Clipped(word, n) \in Word
           /\ Len(word) <= n => Clipped(word, n) = word
           /\ Len(Clipped(word, n)) = IF n < 0 THEN 0 ELSE IF n < Len(word) THEN n ELSE Len(word)
<1>1. PICK k \in Int : k = IF n < 0 THEN 0 ELSE IF n < Len(word) THEN n ELSE Len(word)
  BY LenProperties DEF Word
<1>2. Len(word) \in Nat /\ k >= 0 /\ k <= Len(word)
  BY <1>1, LenProperties DEF Word
<1>3. Clipped(word, n) = SubSeq(word, 1, k)
  BY <1>1 DEF Clipped
<1>4. \A i \in 1 .. k : word[i] \in Characters
  BY <1>2, ElementOfSeq DEF Word
<1>5. SubSeq(word, 1, k) \in Word /\ Len(SubSeq(word, 1, k)) = k
  BY <1>2, <1>4, SubSeqProperties DEF Word
<1>6. Len(word) <= n => SubSeq(word, 1, k) = word
  BY <1>1, <1>2, SubSeqFull DEF Word
<1> QED
  BY <1>1, <1>3, <1>5, <1>6

\* The words that mean something to the parser are words.
LEMMA EmptyWord ==
    /\ << >> \in Word /\ Dot \in Word /\ DotDot \in Word /\ Leftovers \subseteq Word
    /\ \A word \in Word : Len(word) \in Nat /\ (Len(word) = 0 <=> word = << >>)
<1>1. << >> \in Word /\ Dot \in Word /\ DotDot \in Word /\ <<"x">> \in Word
  <2>1. ASSUME NEW S, NEW c \in S PROVE << >> \in Seq(S) /\ <<c>> \in Seq(S) /\ <<c, c>> \in Seq(S)
    OBVIOUS
  <2>2. "." \in Characters /\ "x" \in Characters
    BY DEF Characters
  <2> QED
    BY <2>1, <2>2 DEF Word, Dot, DotDot
<1>2. \A word \in Word : Len(word) \in Nat /\ (Len(word) = 0 <=> word = << >>)
  BY EmptySeq, LenProperties DEF Word
<1> QED
  BY <1>1, <1>2 DEF Leftovers

\* A part more keeps the array an array (kernel/path.c:40-49).
LEMMA PushIs ==
    ASSUME NEW work \in Works, NEW piece \in Word
    PROVE  Push(work, piece) \in Works
<1>1. CASE work.refused \/ piece \in {<< >>, Dot}
  BY <1>1 DEF Push
<1>2. CASE ~ (work.refused \/ piece \in {<< >>, Dot}) /\ piece = DotDot
  <2>1. PICK d \in 0 .. MaxParts : d = IF work.depth > 0 THEN work.depth - 1 ELSE 0
    BY Limits DEF Works
  <2>2. Push(work, piece) = [work EXCEPT !.depth = d]
    BY <1>2, <2>1 DEF Push
  <2> QED
    BY <2>1, <2>2 DEF Works
<1>3. CASE ~ (work.refused \/ piece \in {<< >>, Dot}) /\ piece # DotDot /\ work.depth >= MaxParts
  <2>1. Push(work, piece) = [work EXCEPT !.refused = TRUE]
    BY <1>3 DEF Push
  <2> QED
    BY <2>1 DEF Works
<1>4. CASE ~ (work.refused \/ piece \in {<< >>, Dot}) /\ piece # DotDot /\ ~ (work.depth >= MaxParts)
  <2>1. PICK d \in 1 .. MaxParts : d = work.depth + 1
    BY <1>4, Limits DEF Works
  <2>2. PICK word \in Word : word = Clipped(piece, PartSize - 1)
    BY Limits, ClippedIs
  <2>3. Push(work, piece) = [work EXCEPT !.depth = d, !.slots[d] = word]
    BY <1>4, <2>1, <2>2 DEF Push
  <2>4. PICK slots \in [1 .. MaxParts -> Word] : slots = [work.slots EXCEPT ![d] = word]
    BY <2>1, <2>2 DEF Works
  <2>5. Push(work, piece) = [refused |-> work.refused, depth |-> d, slots |-> slots]
    BY <2>3, <2>4 DEF Works
  <2>6. work.refused \in BOOLEAN /\ d \in 0 .. MaxParts
    BY <2>1 DEF Works
  <2> QED
    BY ONLY <2>4, <2>5, <2>6 DEF Works
<1> QED
  BY <1>1, <1>2, <1>3, <1>4

(***************************************************************************)
(* The parts after each piece (kernel/path.c:40-49).                       *)
(***************************************************************************)
LEMMA ParsedIs ==
    ASSUME NEW pieces \in Pieces, NEW left \in Word
    PROVE  \E f \in [0 .. Len(pieces) -> Works] :
               /\ f[0] = Fresh(left)
               /\ \A i \in 1 .. Len(pieces) : f[i] = Push(f[i - 1], pieces[i])
               /\ Parsed(pieces, left) = f[Len(pieces)]
<1>0. PICK n \in Nat : n = Len(pieces) /\ \A i \in 1 .. n : pieces[i] \in Word
  BY LenProperties, ElementOfSeq DEF Pieces
<1> DEFINE step == [x \in (1 .. n) \X Works |-> Push(x[2], pieces[x[1]])]
<1>1. Steps(step, n, Works)
  <2>1. ASSUME NEW i \in 1 .. n, NEW work \in Works PROVE Push(work, pieces[i]) \in Works
    BY <1>0, PushIs
  <2> QED
    BY <2>1 DEF Steps
<1>2. Fresh(left) \in Works
  BY Limits DEF Fresh, Works
<1>3. \A i \in 1 .. n, work \in Works : step[<<i, work>>] = Push(work, pieces[i])
  OBVIOUS
<1> HIDE DEF step
<1>4. PICK f \in [0 .. n -> Works] : f[0] = Fresh(left) /\ \A i \in 1 .. n : f[i] = step[<<i, f[i - 1]>>]
  <2>1. PICK f : Climbs(f, n, Works, Fresh(left), step)
    BY <1>1, <1>2, Recursion
  <2> QED
    BY <2>1 DEF Climbs
<1>5. ASSUME NEW i \in 1 .. n PROVE f[i] = Push(f[i - 1], pieces[i])
  <2>1. i - 1 \in 0 .. n
    OBVIOUS
  <2> QED
    BY <1>3, <1>4, <2>1
<1>6. f = [i \in 0 .. n |-> IF i = 0 THEN Fresh(left) ELSE Push(f[i - 1], pieces[i])]
  BY <1>4, <1>5
<1> DEFINE g == CHOOSE h : h = [i \in 0 .. Len(pieces) |-> IF i = 0 THEN Fresh(left) ELSE Push(h[i - 1], pieces[i])]
<1>7. g = [i \in 0 .. n |-> IF i = 0 THEN Fresh(left) ELSE Push(g[i - 1], pieces[i])]
  BY <1>0, <1>6, Zenon
<1>8. Parsed(pieces, left) = g[n]
  BY <1>0 DEF Parsed
<1> HIDE DEF g
<1>9. Follow(g, f, n)
  BY <1>4, <1>5, <1>7 DEF Follow
<1>10. \A i \in 0 .. n : g[i] = f[i]
  BY <1>9, SameClimb
<1> QED
  BY <1>0, <1>4, <1>5, <1>8, <1>10

\* A text that is being written, with its size.
Outs == [size : Nat, pieces : Pieces]

\* The characters before the first slash are a number of them.
LEMMA VolumeSizeIs == \A volume : VolumeSize(volume) \in Nat
<1>1. \A volume : VolumeSize(volume) \in {0, 2}
  BY Zenon DEF VolumeSize
<1> QED
  BY <1>1

\* The piece before a first slash.
LEMMA OneEmpty == << << >> >> \in Pieces /\ Len(<< << >> >>) = 1 /\ << << >> >>[1] = << >>
<1>1. ASSUME NEW S, NEW e \in S PROVE <<e>> \in Seq(S) /\ Len(<<e>>) = 1 /\ <<e>>[1] = e
  OBVIOUS
<1> QED
  BY <1>1, EmptyWord DEF Pieces

\* The text of no pieces.
LEMMA NoPieces == << >> \in Pieces /\ Len(<< >>) = 0
BY EmptySeq DEF Pieces

\* What is written before the parts (kernel/path.c:51-52).
LEMMA StartedIs == \A volume : Started(volume) \in Outs
BY VolumeSizeIs, OneEmpty DEF Started, Outs

\* A part more keeps the text a text (kernel/path.c:58-60).
LEMMA PutIs ==
    ASSUME NEW out \in Outs, NEW part \in Word
    PROVE  Put(out, part) \in Outs
<1>1. PICK kept \in Word : kept = Clipped(part, PathMax - 2 - out.size)
  BY Limits, ClippedIs DEF Outs
<1>2. Append(out.pieces, kept) \in Pieces
  BY AppendProperties DEF Pieces, Outs
<1>3. Put(out, part) = [size |-> out.size + 1 + Len(kept), pieces |-> Append(out.pieces, kept)]
  BY <1>1 DEF Put
<1>4. out.size + 1 + Len(kept) \in Nat
  BY EmptyWord DEF Outs
<1> QED
  BY <1>2, <1>3, <1>4 DEF Outs

\* A name more keeps the names names (fs/fatfs/ff.c:3118-3148).
LEMMA NameOnIs ==
    ASSUME NEW names \in Pieces, NEW piece \in Word
    PROVE  NameOn(names, piece) \in Pieces
BY AppendProperties DEF NameOn, Pieces

\* The three kinds of names on a walk: none, up, and further.
LEMMA StrideCases ==
    ASSUME NEW names, NEW name
    PROVE  /\ name \in {<< >>, Dot} => Names!Stride(names, name) = names
           /\ name = DotDot => Names!Stride(names, name) = IF names = << >> THEN names ELSE Front(names)
           /\ name \notin {<< >>, Dot, DotDot} => Names!Stride(names, name) = Append(names, name)
<1>1. Len(Dot) = 1 /\ Len(DotDot) = 2 /\ Len(<< >>) = 0
  BY DEF Dot, DotDot
<1>2. << >> # DotDot /\ Dot # DotDot
  BY <1>1
<1>3. Names!Stride(names, name) =
          CASE name \in {<< >>, Dot} -> names
            [] name = DotDot -> IF names = << >> THEN names ELSE Front(names)
            [] OTHER -> Append(names, name)
  BY DEF Names!Stride, Dot, DotDot
<1> QED
  BY ONLY <1>2, <1>3

\* A stride leads from names to names.
LEMMA StrideIs ==
    ASSUME NEW names \in Pieces, NEW name \in Word
    PROVE  Names!Stride(names, name) \in Pieces
<1>1. Append(names, name) \in Pieces
  BY AppendProperties DEF Pieces
<1>2. names # << >> => Front(names) \in Pieces
  <2>1. SUFFICES ASSUME names # << >> PROVE Front(names) \in Pieces
    OBVIOUS
  <2>2. Len(names) \in Nat \ {0} /\ \A i \in 1 .. Len(names) : names[i] \in Word
    BY <2>1, EmptySeq, ElementOfSeq DEF Pieces
  <2>3. SubSeq(names, 1, Len(names) - 1) \in Pieces
    BY <2>2, SubSeqProperties DEF Pieces
  <2> QED
    BY <2>3 DEF Front
<1>3. Names!Stride(names, name) \in {names, Append(names, name)} \/ (names # << >> /\ Names!Stride(names, name) = Front(names))
  BY StrideCases
<1> QED
  BY <1>1, <1>2, <1>3

(***************************************************************************)
(* The text after each part (kernel/path.c:51-65).                        *)
(***************************************************************************)
LEMMA WrittenIs ==
    ASSUME NEW volume, NEW parts \in Pieces
    PROVE  \E f \in [0 .. Len(parts) -> Outs] :
               /\ f[0] = Started(volume)
               /\ \A i \in 1 .. Len(parts) : f[i] = Put(f[i - 1], parts[i])
               /\ Written(volume, parts) = IF parts = << >> THEN Put(Started(volume), << >>) ELSE f[Len(parts)]
<1>0. PICK n \in Nat : n = Len(parts) /\ \A i \in 1 .. n : parts[i] \in Word
  BY LenProperties, ElementOfSeq DEF Pieces
<1> DEFINE step == [x \in (1 .. n) \X Outs |-> Put(x[2], parts[x[1]])]
<1>1. Steps(step, n, Outs)
  <2>1. ASSUME NEW i \in 1 .. n, NEW y \in Outs PROVE Put(y, parts[i]) \in Outs
    BY <1>0, PutIs
  <2> QED
    BY <2>1 DEF Steps
<1>2. Started(volume) \in Outs
  BY StartedIs
<1>3. \A i \in 1 .. n, y \in Outs : step[<<i, y>>] = Put(y, parts[i])
  OBVIOUS
<1> HIDE DEF step
<1>4. PICK f \in [0 .. n -> Outs] : f[0] = Started(volume) /\ \A i \in 1 .. n : f[i] = step[<<i, f[i - 1]>>]
  <2>1. PICK f : Climbs(f, n, Outs, Started(volume), step)
    BY <1>1, <1>2, Recursion
  <2> QED
    BY <2>1 DEF Climbs
<1>5. ASSUME NEW i \in 1 .. n PROVE f[i] = Put(f[i - 1], parts[i])
  <2>1. i - 1 \in 0 .. n
    OBVIOUS
  <2> QED
    BY <1>3, <1>4, <2>1
<1>6. f = [i \in 0 .. n |-> IF i = 0 THEN Started(volume) ELSE Put(f[i - 1], parts[i])]
  BY <1>4, <1>5
<1> DEFINE g == CHOOSE h : h = [i \in 0 .. Len(parts) |-> IF i = 0 THEN Started(volume) ELSE Put(h[i - 1], parts[i])]
<1>7. g = [i \in 0 .. n |-> IF i = 0 THEN Started(volume) ELSE Put(g[i - 1], parts[i])]
  BY <1>0, <1>6, Zenon
<1>8. Written(volume, parts) = IF parts = << >> THEN Put(g[0], << >>) ELSE g[n]
  BY <1>0 DEF Written
<1> HIDE DEF g
<1>9. Follow(g, f, n)
  <2>1. g[0] = Started(volume) /\ \A i \in 1 .. n : g[i] = Put(g[i - 1], parts[i])
    BY <1>7
  <2> QED
    BY <1>4, <1>5, <2>1 DEF Follow
<1>10. \A i \in 0 .. n : g[i] = f[i]
  BY <1>9, SameClimb
<1>11. Written(volume, parts) = IF parts = << >> THEN Put(Started(volume), << >>) ELSE f[n]
  BY <1>4, <1>8, <1>10
<1> QED
  BY ONLY <1>0, <1>4, <1>5, <1>11

(***************************************************************************)
(* The names after each piece (fs/fatfs/ff.c:3118-3148).                  *)
(***************************************************************************)
LEMMA NamesAre ==
    ASSUME NEW pieces \in Pieces
    PROVE  \E f \in [0 .. Len(pieces) -> Pieces] :
               /\ f[0] = << >>
               /\ \A i \in 1 .. Len(pieces) : f[i] = NameOn(f[i - 1], pieces[i])
               /\ \A text : text.pieces = pieces => NodeOf(text) = [volume |-> text.volume, names |-> f[Len(pieces)]]
<1>0. PICK n \in Nat : n = Len(pieces) /\ \A i \in 1 .. n : pieces[i] \in Word
  BY LenProperties, ElementOfSeq DEF Pieces
<1> DEFINE step == [x \in (1 .. n) \X Pieces |-> NameOn(x[2], pieces[x[1]])]
<1>1. Steps(step, n, Pieces)
  <2>1. ASSUME NEW i \in 1 .. n, NEW y \in Pieces PROVE NameOn(y, pieces[i]) \in Pieces
    BY <1>0, NameOnIs
  <2> QED
    BY <2>1 DEF Steps
<1>2. << >> \in Pieces
  BY NoPieces
<1>3. \A i \in 1 .. n, y \in Pieces : step[<<i, y>>] = NameOn(y, pieces[i])
  OBVIOUS
<1> HIDE DEF step
<1>4. PICK f \in [0 .. n -> Pieces] : f[0] = << >> /\ \A i \in 1 .. n : f[i] = step[<<i, f[i - 1]>>]
  <2>1. PICK f : Climbs(f, n, Pieces, << >>, step)
    BY <1>1, <1>2, Recursion
  <2> QED
    BY <2>1 DEF Climbs
<1>5. ASSUME NEW i \in 1 .. n PROVE f[i] = NameOn(f[i - 1], pieces[i])
  <2>1. i - 1 \in 0 .. n
    OBVIOUS
  <2> QED
    BY <1>3, <1>4, <2>1
<1>6. f = [i \in 0 .. n |-> IF i = 0 THEN << >> ELSE NameOn(f[i - 1], pieces[i])]
  BY <1>4, <1>5
<1> DEFINE g == CHOOSE h : h = [i \in 0 .. Len(pieces) |-> IF i = 0 THEN << >> ELSE NameOn(h[i - 1], pieces[i])]
<1>7. g = [i \in 0 .. n |-> IF i = 0 THEN << >> ELSE NameOn(g[i - 1], pieces[i])]
  BY <1>0, <1>6, Zenon
<1>8. \A text : text.pieces = pieces => NodeOf(text) = [volume |-> text.volume, names |-> g[n]]
  BY <1>0 DEF NodeOf
<1> HIDE DEF g
<1>9. Follow(g, f, n)
  <2>1. g[0] = << >> /\ \A i \in 1 .. n : g[i] = NameOn(g[i - 1], pieces[i])
    BY <1>7
  <2> QED
    BY <1>4, <1>5, <2>1 DEF Follow
<1>10. \A i \in 0 .. n : g[i] = f[i]
  BY <1>9, SameClimb
<1>11. \A text : text.pieces = pieces => NodeOf(text) = [volume |-> text.volume, names |-> f[n]]
  BY <1>4, <1>8, <1>10
<1> QED
  BY ONLY <1>0, <1>4, <1>5, <1>11

(***************************************************************************)
(* Where a walk stands after each name.                                   *)
(***************************************************************************)
LEMMA StridesAre ==
    ASSUME NEW names \in Pieces, NEW pieces \in Pieces
    PROVE  \E f \in [0 .. Len(pieces) -> Pieces] :
               /\ f[0] = names
               /\ \A i \in 1 .. Len(pieces) : f[i] = Names!Stride(f[i - 1], pieces[i])
               /\ Names!Strides(names, pieces) = f[Len(pieces)]
<1>0. PICK n \in Nat : n = Len(pieces) /\ \A i \in 1 .. n : pieces[i] \in Word
  BY LenProperties, ElementOfSeq DEF Pieces
<1> DEFINE step == [x \in (1 .. n) \X Pieces |-> Names!Stride(x[2], pieces[x[1]])]
<1>1. Steps(step, n, Pieces)
  <2>1. ASSUME NEW i \in 1 .. n, NEW y \in Pieces PROVE Names!Stride(y, pieces[i]) \in Pieces
    BY <1>0, StrideIs
  <2> QED
    BY <2>1 DEF Steps
<1>2. names \in Pieces
  BY NoPieces
<1>3. \A i \in 1 .. n, y \in Pieces : step[<<i, y>>] = Names!Stride(y, pieces[i])
  OBVIOUS
<1> HIDE DEF step
<1>4. PICK f \in [0 .. n -> Pieces] : f[0] = names /\ \A i \in 1 .. n : f[i] = step[<<i, f[i - 1]>>]
  <2>1. PICK f : Climbs(f, n, Pieces, names, step)
    BY <1>1, <1>2, Recursion
  <2> QED
    BY <2>1 DEF Climbs
<1>5. ASSUME NEW i \in 1 .. n PROVE f[i] = Names!Stride(f[i - 1], pieces[i])
  <2>1. i - 1 \in 0 .. n
    OBVIOUS
  <2> QED
    BY <1>3, <1>4, <2>1
<1>6. f = [i \in 0 .. n |-> IF i = 0 THEN names ELSE Names!Stride(f[i - 1], pieces[i])]
  BY <1>4, <1>5
<1> DEFINE g == CHOOSE h : h = [i \in 0 .. Len(pieces) |-> IF i = 0 THEN names ELSE Names!Stride(h[i - 1], pieces[i])]
<1>7. g = [i \in 0 .. n |-> IF i = 0 THEN names ELSE Names!Stride(g[i - 1], pieces[i])]
  BY <1>0, <1>6, Zenon
<1>8. Names!Strides(names, pieces) = g[n]
  BY <1>0 DEF Names!Strides
<1> HIDE DEF g
<1>9. Follow(g, f, n)
  <2>1. g[0] = names /\ \A i \in 1 .. n : g[i] = Names!Stride(g[i - 1], pieces[i])
    BY <1>7
  <2> QED
    BY <1>4, <1>5, <2>1 DEF Follow
<1>10. \A i \in 0 .. n : g[i] = f[i]
  BY <1>9, SameClimb
<1>11. Names!Strides(names, pieces) = f[n]
  BY <1>4, <1>8, <1>10
<1> QED
  BY ONLY <1>0, <1>4, <1>5, <1>11

(***************************************************************************)
(* The characters of names with their slashes.                            *)
(***************************************************************************)
LEMMA SizesAre ==
    ASSUME NEW names \in Pieces
    PROVE  \E f \in [0 .. Len(names) -> Nat] :
               /\ f[0] = 0
               /\ \A i \in 1 .. Len(names) : f[i] = f[i - 1] + Len(names[i]) + 1
               /\ Names!Size(names) = f[Len(names)]
<1>0. PICK n \in Nat : n = Len(names) /\ \A i \in 1 .. n : names[i] \in Word
  BY LenProperties, ElementOfSeq DEF Pieces
<1> DEFINE step == [x \in (1 .. n) \X Nat |-> x[2] + Len(names[x[1]]) + 1]
<1>1. Steps(step, n, Nat)
  <2>1. ASSUME NEW i \in 1 .. n, NEW y \in Nat PROVE y + Len(names[i]) + 1 \in Nat
    BY <1>0, EmptyWord
  <2> QED
    BY <2>1 DEF Steps
<1>2. 0 \in Nat
  BY Limits
<1>3. \A i \in 1 .. n, y \in Nat : step[<<i, y>>] = y + Len(names[i]) + 1
  OBVIOUS
<1> HIDE DEF step
<1>4. PICK f \in [0 .. n -> Nat] : f[0] = 0 /\ \A i \in 1 .. n : f[i] = step[<<i, f[i - 1]>>]
  <2>1. PICK f : Climbs(f, n, Nat, 0, step)
    BY <1>1, <1>2, Recursion
  <2> QED
    BY <2>1 DEF Climbs
<1>5. ASSUME NEW i \in 1 .. n PROVE f[i] = f[i - 1] + Len(names[i]) + 1
  <2>1. i - 1 \in 0 .. n
    OBVIOUS
  <2> QED
    BY <1>3, <1>4, <2>1
<1>6. f = [i \in 0 .. n |-> IF i = 0 THEN 0 ELSE f[i - 1] + Len(names[i]) + 1]
  BY <1>4, <1>5
<1> DEFINE g == CHOOSE h : h = [i \in 0 .. Len(names) |-> IF i = 0 THEN 0 ELSE h[i - 1] + Len(names[i]) + 1]
<1>7. g = [i \in 0 .. n |-> IF i = 0 THEN 0 ELSE g[i - 1] + Len(names[i]) + 1]
  BY <1>0, <1>6, Zenon
<1>8. Names!Size(names) = g[n]
  BY <1>0 DEF Names!Size
<1> HIDE DEF g
<1>9. Follow(g, f, n)
  <2>1. g[0] = 0 /\ \A i \in 1 .. n : g[i] = g[i - 1] + Len(names[i]) + 1
    BY <1>7
  <2> QED
    BY <1>4, <1>5, <2>1 DEF Follow
<1>10. \A i \in 0 .. n : g[i] = f[i]
  BY <1>9, SameClimb
<1>11. Names!Size(names) = f[n]
  BY <1>4, <1>8, <1>10
<1> QED
  BY ONLY <1>0, <1>4, <1>5, <1>11

(***************************************************************************)
(* The place of the first character of each piece (kernel/path.c:24-30).   *)
(***************************************************************************)
IsOffsets(f, pieces, n) ==
    f = [i \in 1 .. n |-> IF i = 1 THEN 0 ELSE f[i - 1] + Len(pieces[i - 1]) + 1]

\* There is such a function, by induction on the pieces.
LEMMA OffsetsExists ==
    ASSUME NEW pieces, NEW n \in Nat
    PROVE  \E f : IsOffsets(f, pieces, n)
<1> DEFINE S == {k \in Nat : \E f : IsOffsets(f, pieces, k)}
<1>1. 0 \in S
  <2> DEFINE f == [i \in 1 .. 0 |-> 0]
  <2>1. f = [i \in 1 .. 0 |-> IF i = 1 THEN 0 ELSE f[i - 1] + Len(pieces[i - 1]) + 1]
    OBVIOUS
  <2>2. IsOffsets(f, pieces, 0)
    BY <2>1 DEF IsOffsets
  <2> QED
    BY <2>2
<1>2. ASSUME NEW k \in Nat, k \in S PROVE k + 1 \in S
  <2>1. PICK f : IsOffsets(f, pieces, k)
    BY <1>2
  <2> DEFINE g == [i \in 1 .. k + 1 |-> IF i # k + 1 THEN f[i] ELSE IF i = 1 THEN 0 ELSE f[k] + Len(pieces[k]) + 1]
  <2>2. ASSUME NEW i \in 1 .. k + 1 PROVE g[i] = IF i = 1 THEN 0 ELSE g[i - 1] + Len(pieces[i - 1]) + 1
    <3>1. CASE i = k + 1 /\ i # 1
      <4>1. g[i - 1] = f[k] /\ i - 1 = k
        BY <3>1
      <4> QED
        BY <3>1, <4>1
    <3>2. CASE i = k + 1 /\ i = 1
      BY <3>2
    <3>3. CASE i = 1 /\ i # k + 1
      <4>1. f[1] = 0
        BY <2>1, <3>3 DEF IsOffsets
      <4> QED
        BY <3>3, <4>1
    <3>4. CASE i # 1 /\ i # k + 1
      <4>1. i \in 1 .. k /\ i - 1 \in 1 .. k + 1 /\ i - 1 # k + 1
        BY <3>4
      <4>2. g[i] = f[i] /\ g[i - 1] = f[i - 1]
        BY <4>1, <3>4
      <4>3. f[i] = f[i - 1] + Len(pieces[i - 1]) + 1
        BY ONLY <2>1, <3>4, <4>1 DEF IsOffsets
      <4> HIDE DEF g
      <4> QED
        BY <3>4, <4>2, <4>3
    <3> QED
      BY <3>1, <3>2, <3>3, <3>4
  <2>3. g = [i \in 1 .. k + 1 |-> g[i]]
    OBVIOUS
  <2> HIDE DEF g
  <2>4. g = [i \in 1 .. k + 1 |-> IF i = 1 THEN 0 ELSE g[i - 1] + Len(pieces[i - 1]) + 1]
    BY <2>2, <2>3
  <2>5. IsOffsets(g, pieces, k + 1)
    BY <2>4 DEF IsOffsets
  <2> QED
    BY <2>5
<1> HIDE DEF S
<1>3. n \in S
  BY <1>1, <1>2, Climb
<1> QED
  BY <1>3 DEF S

\* So Offsets is one: each piece begins after the one before and its slash.
LEMMA OffsetsAre ==
    ASSUME NEW pieces, NEW n \in Nat, DOMAIN pieces = 1 .. n
    PROVE  /\ DOMAIN Offsets(pieces) = 1 .. n
           /\ n > 0 => Offsets(pieces)[1] = 0
           /\ \A i \in 2 .. n : Offsets(pieces)[i] = Offsets(pieces)[i - 1] + Len(pieces[i - 1]) + 1
<1> DEFINE f == CHOOSE h : h = [i \in DOMAIN pieces |-> IF i = 1 THEN 0 ELSE h[i - 1] + Len(pieces[i - 1]) + 1]
<1>1. \E h : h = [i \in DOMAIN pieces |-> IF i = 1 THEN 0 ELSE h[i - 1] + Len(pieces[i - 1]) + 1]
  <2>1. PICK x : IsOffsets(x, pieces, n)
    BY OffsetsExists
  <2>2. x = [i \in 1 .. n |-> IF i = 1 THEN 0 ELSE x[i - 1] + Len(pieces[i - 1]) + 1]
    BY ONLY <2>1 DEF IsOffsets
  <2>3. x = [i \in DOMAIN pieces |-> IF i = 1 THEN 0 ELSE x[i - 1] + Len(pieces[i - 1]) + 1]
    BY ONLY <2>2, DOMAIN pieces = 1 .. n
  <2> QED
    BY ONLY <2>3, Zenon
<1>2. f = [i \in DOMAIN pieces |-> IF i = 1 THEN 0 ELSE f[i - 1] + Len(pieces[i - 1]) + 1]
  BY <1>1, Zenon
<1>3. Offsets(pieces) = [i \in DOMAIN pieces |-> f[i]]
  BY DEF Offsets
<1> HIDE DEF f
<1>4. ASSUME NEW i \in 1 .. n PROVE f[i] = IF i = 1 THEN 0 ELSE f[i - 1] + Len(pieces[i - 1]) + 1
  BY <1>2
<1>5. \A i \in 1 .. n : Offsets(pieces)[i] = f[i]
  BY <1>3
<1>6. ASSUME NEW i \in 2 .. n PROVE Offsets(pieces)[i] = Offsets(pieces)[i - 1] + Len(pieces[i - 1]) + 1
  <2>1. i \in 1 .. n /\ i - 1 \in 1 .. n /\ i # 1
    OBVIOUS
  <2> QED
    BY <1>4, <1>5, <2>1
<1>7. n > 0 => Offsets(pieces)[1] = 0
  BY <1>4, <1>5
<1> QED
  BY <1>3, <1>6, <1>7

(***************************************************************************)
(* A part that does not fill its place is read as it is                    *)
(* (kernel/path.c:59).                                                     *)
(***************************************************************************)
IsRead(f, slots, left, n) ==
    f = [i \in MaxParts + 1 - n .. MaxParts + 1 |->
            IF i > MaxParts THEN left
            ELSE IF Len(slots[i]) < PartSize - 1 \/ left = << >> THEN slots[i]
            ELSE slots[i] \o left \o f[i + 1]]

\* There is such a function, by induction on the slots.
LEMMA ReadExists ==
    ASSUME NEW slots, NEW left, NEW n \in Nat
    PROVE  \E f : IsRead(f, slots, left, n)
<1>0. MaxParts \in Nat
  BY PathAssumption
<1> DEFINE S == {k \in Nat : \E f : IsRead(f, slots, left, k)}
           step(i, next) == IF i > MaxParts THEN left
                            ELSE IF Len(slots[i]) < PartSize - 1 \/ left = << >> THEN slots[i]
                            ELSE slots[i] \o left \o next
<1>1. 0 \in S
  <2> DEFINE f == [i \in MaxParts + 1 - 0 .. MaxParts + 1 |-> left]
  <2>1. \A i \in MaxParts + 1 - 0 .. MaxParts + 1 : i > MaxParts
    BY <1>0
  <2>2. f = [i \in MaxParts + 1 - 0 .. MaxParts + 1 |->
            IF i > MaxParts THEN left
            ELSE IF Len(slots[i]) < PartSize - 1 \/ left = << >> THEN slots[i]
            ELSE slots[i] \o left \o f[i + 1]]
    BY <2>1
  <2>3. IsRead(f, slots, left, 0)
    BY <2>2 DEF IsRead
  <2> QED
    BY <2>3
<1>2. ASSUME NEW k \in Nat, k \in S PROVE k + 1 \in S
  <2>1. PICK f : IsRead(f, slots, left, k)
    BY <1>2
  <2>2. PICK a \in Int : a = MaxParts + 1 - (k + 1)
    BY <1>0
  <2>3. MaxParts + 1 - k = a + 1 /\ MaxParts + 1 - (k + 1) = a /\ a <= MaxParts
    BY <1>0, <2>2
  <2> DEFINE g == [i \in a .. MaxParts + 1 |-> IF i = a THEN step(a, f[a + 1]) ELSE f[i]]
  <2>4. f = [i \in a + 1 .. MaxParts + 1 |-> step(i, f[i + 1])]
    BY <2>1, <2>3 DEF IsRead
  <2>5. ASSUME NEW i \in a .. MaxParts + 1 PROVE g[i] = step(i, g[i + 1])
    <3> HIDE DEF step
    <3>1. CASE i = a
      <4>1. i + 1 \in a .. MaxParts + 1 /\ i + 1 # a
        BY <1>0, <2>3, <3>1
      <4>2. g[i + 1] = f[a + 1]
        BY <3>1, <4>1
      <4>3. g[i] = step(a, f[a + 1])
        BY <3>1
      <4> HIDE DEF g
      <4> QED
        BY <3>1, <4>2, <4>3
    <3>2. CASE i # a
      <4>1. i \in a + 1 .. MaxParts + 1
        BY <1>0, <3>2
      <4>2. f[i] = step(i, f[i + 1]) /\ g[i] = f[i]
        BY <2>4, <3>2, <4>1
      <4>3. i + 1 \in a .. MaxParts + 1 /\ i + 1 # a => g[i + 1] = f[i + 1]
        OBVIOUS
      <4>4. i > MaxParts \/ (i + 1 \in a .. MaxParts + 1 /\ i + 1 # a)
        BY <1>0, <4>1
      <4>5. i > MaxParts => step(i, f[i + 1]) = step(i, g[i + 1])
        BY DEF step
      <4> HIDE DEF g
      <4> QED
        BY <4>2, <4>3, <4>4, <4>5
    <3> QED
      BY <3>1, <3>2
  <2>6. g = [i \in a .. MaxParts + 1 |-> g[i]]
    OBVIOUS
  <2>7. g = [i \in a .. MaxParts + 1 |-> step(i, g[i + 1])]
    <3> HIDE DEF g, step
    <3> QED
      BY <2>5, <2>6
  <2> HIDE DEF g
  <2>8. IsRead(g, slots, left, k + 1)
    BY <2>3, <2>7 DEF IsRead
  <2> QED
    BY <2>8
<1> HIDE DEF S
<1>3. n \in S
  BY <1>1, <1>2, Climb
<1> QED
  BY <1>3 DEF S

Reads(f, slots, left) ==
    /\ PartsRead(slots, left) = [i \in 1 .. MaxParts |-> f[i]]
    /\ \A i \in 1 .. MaxParts :
           f[i] = IF Len(slots[i]) < PartSize - 1 \/ left = << >> THEN slots[i]
                  ELSE slots[i] \o left \o f[i + 1]
    /\ f[MaxParts + 1] = left

\* So PartsRead is one.
LEMMA PartsReadAre ==
    ASSUME NEW slots, NEW left
    PROVE  \E f : Reads(f, slots, left)
<1>0. MaxParts \in Nat /\ MaxParts + 1 - MaxParts = 1
  BY PathAssumption
<1> DEFINE f == CHOOSE h : h = [i \in 1 .. MaxParts + 1 |->
            IF i > MaxParts THEN left
            ELSE IF Len(slots[i]) < PartSize - 1 \/ left = << >> THEN slots[i]
            ELSE slots[i] \o left \o h[i + 1]]
<1>1. \E h : h = [i \in 1 .. MaxParts + 1 |->
            IF i > MaxParts THEN left
            ELSE IF Len(slots[i]) < PartSize - 1 \/ left = << >> THEN slots[i]
            ELSE slots[i] \o left \o h[i + 1]]
  <2>1. PICK x : IsRead(x, slots, left, MaxParts)
    BY <1>0, ReadExists
  <2>2. x = [i \in 1 .. MaxParts + 1 |->
            IF i > MaxParts THEN left
            ELSE IF Len(slots[i]) < PartSize - 1 \/ left = << >> THEN slots[i]
            ELSE slots[i] \o left \o x[i + 1]]
    BY ONLY <2>1, <1>0 DEF IsRead
  <2> QED
    BY ONLY <2>2, Zenon
<1>2. f = [i \in 1 .. MaxParts + 1 |->
            IF i > MaxParts THEN left
            ELSE IF Len(slots[i]) < PartSize - 1 \/ left = << >> THEN slots[i]
            ELSE slots[i] \o left \o f[i + 1]]
  BY <1>1, Zenon
<1>3. PartsRead(slots, left) = [i \in 1 .. MaxParts |-> f[i]]
  BY DEF PartsRead
<1> HIDE DEF f
<1>4. ASSUME NEW i \in 1 .. MaxParts
      PROVE  f[i] = IF Len(slots[i]) < PartSize - 1 \/ left = << >> THEN slots[i]
                    ELSE slots[i] \o left \o f[i + 1]
  <2>1. i \in 1 .. MaxParts + 1 /\ ~ (i > MaxParts)
    BY <1>0
  <2> QED
    BY <1>2, <2>1
<1>5. f[MaxParts + 1] = left
  <2>1. MaxParts + 1 \in 1 .. MaxParts + 1 /\ MaxParts + 1 > MaxParts
    BY <1>0
  <2> QED
    BY <1>2, <2>1
<1> QED
  BY <1>3, <1>4, <1>5 DEF Reads

-----------------------------------------------------------------------------
(***************************************************************************)
(* The size of a path: one name at a time, and in any grouping.            *)
(***************************************************************************)
Sized(f, names) ==
    /\ f \in [0 .. Len(names) -> Nat]
    /\ f[0] = 0
    /\ \A i \in 1 .. Len(names) : f[i] = f[i - 1] + Len(names[i]) + 1

\* Size is the last value of such a function.
LEMMA SizeIs ==
    ASSUME NEW names \in Pieces
    PROVE  \E f : Sized(f, names) /\ Names!Size(names) = f[Len(names)]
BY SizesAre DEF Sized

\* Of any such function.
LEMMA SizeOnly ==
    ASSUME NEW names \in Pieces, NEW f, Sized(f, names)
    PROVE  Names!Size(names) = f[Len(names)]
<1>1. PICK n \in Nat : n = Len(names)
  BY LenProperties DEF Pieces
<1>2. PICK g : Sized(g, names) /\ Names!Size(names) = g[n]
  BY <1>1, SizeIs
<1>3. Follow(g, f, n)
  BY <1>1, <1>2 DEF Sized, Follow
<1> QED
  BY <1>1, <1>2, <1>3, SameClimb

\* A size is a number.
LEMMA SizeType == \A names \in Pieces : Names!Size(names) \in Nat
<1> SUFFICES ASSUME NEW names \in Pieces PROVE Names!Size(names) \in Nat
  OBVIOUS
<1>1. PICK f : Sized(f, names) /\ Names!Size(names) = f[Len(names)]
  BY SizeIs
<1> QED
  BY <1>1, LenProperties DEF Sized, Pieces

\* Each name is a word, with a length.
LEMMA PieceIs ==
    ASSUME NEW names \in Pieces, NEW i \in 1 .. Len(names)
    PROVE  names[i] \in Word /\ Len(names[i]) \in Nat
BY ElementOfSeq, EmptyWord DEF Pieces

\* Names have a length, which is nought for none.
LEMMA LenIs == \A names \in Pieces : Len(names) \in Nat /\ (Len(names) = 0 <=> names = << >>) /\ DOMAIN names = 1 .. Len(names)
BY LenProperties, EmptySeq DEF Pieces

\* Each name adds at least its slash.
LEMMA SizeRises ==
    ASSUME NEW names \in Pieces, NEW f, Sized(f, names), NEW i \in 0 .. Len(names)
    PROVE  f[i] \in Nat /\ f[i] >= i /\ f[i] <= f[Len(names)]
<1>1. PICK n \in Nat : n = Len(names)
  BY LenIs
<1>2. \A k \in 0 .. n : f[k] \in Nat
  BY <1>1 DEF Sized
<1>3. ASSUME NEW k \in 1 .. n PROVE f[k] >= f[k - 1] + 1
  <2>1. f[k] = f[k - 1] + Len(names[k]) + 1 /\ k - 1 \in 0 .. n
    BY <1>1 DEF Sized
  <2> QED
    BY <1>1, <1>2, <2>1, PieceIs
<1> DEFINE up == {k \in Nat : f[k] >= k}
           down == {k \in Nat : f[n - k] <= f[n]}
<1>4. \A k \in 0 .. n : k \in up
  <2>1. 0 \in up
    BY DEF Sized
  <2>2. ASSUME NEW k \in 1 .. n, k - 1 \in up PROVE k \in up
    <3>1. k - 1 \in 0 .. n
      OBVIOUS
    <3> QED
      BY <1>2, <1>3, <2>2, <3>1
  <2> HIDE DEF up
  <2> QED
    BY <2>1, <2>2, ClimbTo
<1>5. \A k \in 0 .. n : k \in down
  <2>1. 0 \in down
    BY <1>2
  <2>2. ASSUME NEW k \in 1 .. n, k - 1 \in down PROVE k \in down
    <3>1. n - k + 1 \in 1 .. n /\ n - (k - 1) = n - k + 1 /\ n - k + 1 - 1 = n - k /\ n - k \in 0 .. n
      OBVIOUS
    <3>2. f[n - k + 1] >= f[n - k] + 1 /\ f[n - k + 1] <= f[n]
      BY <1>3, <2>2, <3>1
    <3>3. f[n - k] \in Nat /\ f[n - k + 1] \in Nat /\ f[n] \in Nat
      BY <1>2, <3>1
    <3>4. f[n - k] <= f[n]
      BY ONLY <3>2, <3>3
    <3> QED
      BY <3>4
  <2> HIDE DEF down
  <2> QED
    BY <2>1, <2>2, ClimbTo
<1>6. n - (n - i) = i /\ n - i \in 0 .. n /\ i \in 0 .. n
  BY <1>1
<1> QED
  BY <1>1, <1>2, <1>4, <1>5, <1>6

\* The size of two groups of names is the sum of theirs.
LEMMA SizeConcat ==
    ASSUME NEW s \in Pieces, NEW t \in Pieces
    PROVE  /\ s \o t \in Pieces
           /\ Names!Size(s \o t) = Names!Size(s) + Names!Size(t)
<1>1. PICK m \in Nat, n \in Nat : m = Len(s) /\ n = Len(t)
  BY LenIs
<1>2. /\ s \o t \in Pieces /\ Len(s \o t) = m + n
      /\ \A i \in 1 .. m + n : (s \o t)[i] = IF i <= m THEN s[i] ELSE t[i - m]
  BY <1>1, ConcatProperties DEF Pieces
<1>3. PICK f : Sized(f, s) /\ Names!Size(s) = f[m]
  BY <1>1, SizeIs
<1>4. PICK g : Sized(g, t) /\ Names!Size(t) = g[n]
  BY <1>1, SizeIs
<1>5. f \in [0 .. m -> Nat] /\ g \in [0 .. n -> Nat] /\ f[0] = 0 /\ g[0] = 0
  BY <1>1, <1>3, <1>4 DEF Sized
<1> DEFINE h == [i \in 0 .. m + n |-> IF i <= m THEN f[i] ELSE f[m] + g[i - m]]
<1>6. h \in [0 .. m + n -> Nat]
  <2>1. ASSUME NEW i \in 0 .. m + n PROVE h[i] \in Nat
    <3>1. CASE i <= m
      BY <1>5, <3>1
    <3>2. CASE ~ (i <= m)
      <4>1. i - m \in 0 .. n
        BY <3>2
      <4> QED
        BY <1>5, <3>2, <4>1
    <3> QED
      BY <3>1, <3>2
  <2> QED
    BY <2>1
<1>7. h[0] = 0 /\ h[m + n] = f[m] + g[n]
  <2>1. CASE n = 0
    BY <1>5, <2>1
  <2>2. CASE n # 0
    <3>1. ~ (m + n <= m) /\ m + n - m = n
      BY <2>2
    <3> QED
      BY <1>5, <3>1
  <2> QED
    BY <2>1, <2>2
<1>8. ASSUME NEW i \in 1 .. m + n PROVE h[i] = h[i - 1] + Len((s \o t)[i]) + 1
  <2>0. i - 1 \in 0 .. m + n
    OBVIOUS
  <2>1. CASE i <= m
    <3>1. h[i] = f[i] /\ h[i - 1] = f[i - 1] /\ (s \o t)[i] = s[i]
      BY <1>2, <2>1
    <3>2. f[i] = f[i - 1] + Len(s[i]) + 1
      BY <1>1, <1>3, <2>1 DEF Sized
    <3> HIDE DEF h
    <3> QED
      BY <3>1, <3>2
  <2>2. CASE ~ (i <= m)
    <3>1. PICK k \in 1 .. n : k = i - m
      BY <2>2
    <3>2. h[i] = f[m] + g[k] /\ (s \o t)[i] = t[k]
      BY <1>2, <2>2, <3>1
    <3>3. g[k] = g[k - 1] + Len(t[k]) + 1
      BY <1>1, <1>4 DEF Sized
    <3>4. h[i - 1] = f[m] + g[k - 1]
      <4>1. CASE k = 1
        <5>1. i - 1 = m /\ k - 1 = 0
          BY <3>1, <4>1
        <5>2. h[m] = f[m] + g[0]
          BY <1>5
        <5> HIDE DEF h
        <5> QED
          BY <5>1, <5>2
      <4>2. CASE k # 1
        <5>1. ~ (i - 1 <= m) /\ i - 1 - m = k - 1
          BY <3>1, <4>2
        <5> QED
          BY <2>0, <5>1
      <4> QED
        BY <4>1, <4>2
    <3>5. f[m] \in Nat /\ g[k - 1] \in Nat /\ Len(t[k]) \in Nat
      <4>1. m \in 0 .. m /\ k - 1 \in 0 .. n
        OBVIOUS
      <4> QED
        BY <1>1, <1>5, <4>1, PieceIs
    <3>6. f[m] + (g[k - 1] + Len(t[k]) + 1) = f[m] + g[k - 1] + Len(t[k]) + 1
      BY ONLY <3>5
    <3> HIDE DEF h
    <3> QED
      BY <3>2, <3>3, <3>4, <3>6
  <2> QED
    BY <2>1, <2>2
<1> HIDE DEF h
<1>9. Sized(h, s \o t)
  BY <1>2, <1>6, <1>7, <1>8 DEF Sized
<1>10. Names!Size(s \o t) = h[m + n]
  BY <1>2, <1>9, SizeOnly
<1> QED
  BY <1>2, <1>3, <1>4, <1>7, <1>10

\* The size of one name.
LEMMA SizeOfOne ==
    ASSUME NEW word \in Word
    PROVE  <<word>> \in Pieces /\ Names!Size(<<word>>) = Len(word) + 1
<1>1. <<word>> \in Pieces /\ Len(<<word>>) = 1 /\ <<word>>[1] = word
  BY DEF Pieces
<1>2. PICK f : Sized(f, <<word>>) /\ Names!Size(<<word>>) = f[1]
  BY <1>1, SizeIs
<1>3. f[0] = 0 /\ f[1] = f[1 - 1] + Len(word) + 1
  BY <1>1, <1>2 DEF Sized
<1>4. Len(word) \in Nat
  BY EmptyWord
<1> QED
  BY <1>1, <1>2, <1>3, <1>4

\* The size with one name more.
LEMMA SizeAppend ==
    ASSUME NEW names \in Pieces, NEW word \in Word
    PROVE  Append(names, word) \in Pieces /\ Names!Size(Append(names, word)) = Names!Size(names) + Len(word) + 1
<1>1. Append(names, word) = names \o <<word>>
  BY AppendIsConcat DEF Pieces
<1>2. Len(word) \in Nat
  BY EmptyWord
<1> QED
  BY <1>1, <1>2, SizeConcat, SizeOfOne, SizeType

\* The size of none.
LEMMA SizeOfNone == Names!Size(<< >>) = 0
<1>1. PICK f : Sized(f, << >>) /\ Names!Size(<< >>) = f[0]
  BY NoPieces, SizeIs
<1> QED
  BY <1>1 DEF Sized

\* All names but the last, which are fewer characters.
LEMMA FrontIs ==
    ASSUME NEW names \in Pieces, names # << >>
    PROVE  /\ Front(names) \in Pieces
           /\ Len(Front(names)) = Len(names) - 1
           /\ \A i \in 1 .. Len(names) - 1 : Front(names)[i] = names[i]
           /\ Names!Size(Front(names)) < Names!Size(names)
<1>1. PICK s \in Pieces, word \in Word : names = Append(s, word)
  BY SequenceEmptyOrAppend DEF Pieces
<1>2. Len(names) = Len(s) + 1 /\ Len(s) \in Nat /\ \A i \in 1 .. Len(s) : names[i] = s[i]
  BY <1>1, AppendProperties, LenIs DEF Pieces
<1>3. PICK m \in Nat : m = Len(s)
  BY <1>2
<1>4. Front(names) = SubSeq(names, 1, m)
  <2>1. Len(names) - 1 = m
    BY <1>2, <1>3
  <2> QED
    BY <2>1 DEF Front
<1>5. \A i \in 1 .. m : names[i] \in Word
  BY <1>2, <1>3, PieceIs
<1>6. SubSeq(names, 1, m) \in Pieces /\ Len(SubSeq(names, 1, m)) = m /\ \A i \in 1 .. m : SubSeq(names, 1, m)[i] = s[i]
  BY <1>2, <1>3, <1>5, SubSeqProperties DEF Pieces
<1>7. Front(names) = s
  BY <1>3, <1>4, <1>6, SeqEqual DEF Pieces
<1>8. Names!Size(names) = Names!Size(s) + Len(word) + 1 /\ Names!Size(s) \in Nat /\ Len(word) \in Nat
  BY <1>1, SizeAppend, SizeType, EmptyWord
<1> QED
  BY <1>2, <1>7, <1>8

-----------------------------------------------------------------------------
(***************************************************************************)
(* What is cut off a text: nothing when there is room (kernel/path.c:24,   *)
(* 29; src/usr/src/cysh.c:30).                                             *)
(***************************************************************************)
LEMMA CutTo ==
    ASSUME NEW q \in Pieces, NEW n \in Nat
    PROVE  \E k \in 0 .. Len(q) :
               /\ Cut(q, n) = [i \in 1 .. k |-> Clipped(q[i], n - Offsets(q)[i])]
               /\ (\A i \in 1 .. Len(q) : Offsets(q)[i] <= n) => k = Len(q)
<1>1. PICK m \in Nat : m = Len(q) /\ DOMAIN q = 1 .. m
  BY LenIs
<1>2. PICK o : o = Offsets(q)
  OBVIOUS
<1> DEFINE A == {j \in DOMAIN q : o[j] <= n}
<1>3. A \in SUBSET (1 .. m)
  BY <1>1
<1>4. IsFiniteSet(1 .. m) /\ Cardinality(1 .. m) = m
  <2>1. 1 \in Int /\ m \in Int
    OBVIOUS
  <2>2. IsFiniteSet(1 .. m) /\ Cardinality(1 .. m) = IF 1 > m THEN 0 ELSE m - 1 + 1
    BY ONLY <2>1, FS_Interval
  <2> QED
    BY <2>2
<1>5. IsFiniteSet(A) /\ Cardinality(A) <= m
  <2> HIDE DEF A
  <2> QED
    BY ONLY <1>3, <1>4, FS_Subset
<1>6. Cardinality(A) \in Nat
  BY <1>5, FS_CardinalityType
<1>7. Cut(q, n) = [i \in 1 .. Cardinality(A) |-> Clipped(q[i], n - o[i])]
  BY <1>2 DEF Cut, CutAt
<1>8. (\A i \in 1 .. m : o[i] <= n) => A = 1 .. m
  BY <1>1
<1> HIDE DEF A
<1> QED
  BY <1>1, <1>2, <1>4, <1>5, <1>6, <1>7, <1>8

\* The place of a piece is the size of those before it.
LEMMA OffsetIs ==
    ASSUME NEW q \in Pieces, NEW f, Sized(f, q)
    PROVE  \A i \in 1 .. Len(q) : Offsets(q)[i] = f[i - 1]
<1>1. PICK n \in Nat : n = Len(q) /\ DOMAIN q = 1 .. n
  BY LenIs
<1>2. PICK o : /\ o = Offsets(q)
               /\ n > 0 => o[1] = 0
               /\ \A i \in 2 .. n : o[i] = o[i - 1] + Len(q[i - 1]) + 1
  BY <1>1, OffsetsAre
<1> DEFINE set == {k \in Nat : k > 0 => o[k] = f[k - 1]}
<1>3. 0 \in set
  OBVIOUS
<1>4. ASSUME NEW i \in 1 .. n, i - 1 \in set PROVE i \in set
  <2>1. CASE i = 1
    <3>1. o[1] = 0 /\ f[1 - 1] = 0
      BY <1>1, <1>2 DEF Sized
    <3> QED
      BY <2>1, <3>1
  <2>2. CASE i # 1
    <3>1. PICK j \in 1 .. n : j = i - 1
      BY <2>2
    <3>2. i \in 2 .. n
      BY <2>2
    <3>3. o[i] = o[j] + Len(q[j]) + 1
      BY <1>2, <3>1, <3>2
    <3>4. o[j] = f[j - 1]
      BY <1>4, <3>1
    <3>5. f[j] = f[j - 1] + Len(q[j]) + 1
      BY <1>1 DEF Sized
    <3>6. o[i] = f[i - 1]
      BY ONLY <3>1, <3>3, <3>4, <3>5
    <3> QED
      BY <3>6
  <2> QED
    BY <2>1, <2>2
<1> HIDE DEF set
<1>5. \A i \in 0 .. n : i \in set
  BY <1>3, <1>4, ClimbTo
<1> QED
  BY <1>1, <1>2, <1>5 DEF set

\* What is left of a text is a text.
LEMMA CutType ==
    ASSUME NEW q \in Pieces, NEW n \in Nat
    PROVE  Cut(q, n) \in Pieces
<1>1. PICK k \in 0 .. Len(q) : Cut(q, n) = [i \in 1 .. k |-> Clipped(q[i], n - Offsets(q)[i])]
  BY CutTo
<1>2. PICK m \in Nat : m = Len(q) /\ k \in 0 .. m
  BY LenIs
<1>3. PICK f : Sized(f, q)
  BY SizeIs
<1>4. ASSUME NEW i \in 1 .. k PROVE Clipped(q[i], n - Offsets(q)[i]) \in Word
  <2>1. i \in 1 .. m /\ i - 1 \in 0 .. m
    BY <1>2
  <2>2. Offsets(q)[i] = f[i - 1] /\ f[i - 1] \in Nat
    BY <1>2, <1>3, <2>1, OffsetIs, SizeRises
  <2>3. q[i] \in Word
    BY <1>2, <2>1, PieceIs
  <2> QED
    BY <2>2, <2>3, ClippedIs
<1>5. k \in Nat
  BY <1>2
<1> DEFINE s == [i \in 1 .. k |-> Clipped(q[i], n - Offsets(q)[i])]
<1>6. s \in [1 .. k -> Word]
  BY <1>4
<1> HIDE DEF s
<1>7. s \in Seq(Word)
  BY <1>5, <1>6
<1> QED
  BY <1>1, <1>7 DEF s, Pieces

\* A text that has room is left as it is.
LEMMA CutWhole ==
    ASSUME NEW q \in Pieces, NEW n \in Nat, Names!Size(q) <= n + 1
    PROVE  Cut(q, n) = q
<1>1. PICK m \in Nat : m = Len(q) /\ DOMAIN q = 1 .. m
  BY LenIs
<1>2. PICK f : Sized(f, q) /\ f[m] <= n + 1
  BY <1>1, SizeIs
<1>3. ASSUME NEW i \in 1 .. m
      PROVE  Offsets(q)[i] <= n /\ Clipped(q[i], n - Offsets(q)[i]) = q[i]
  <2>1. PICK a \in Nat : a = f[i - 1]
    <3>1. i - 1 \in 0 .. m
      OBVIOUS
    <3> QED
      BY <1>1, <1>2, <3>1, SizeRises
  <2>2. Offsets(q)[i] = a
    BY <1>1, <1>2, <2>1, OffsetIs
  <2>3. PICK l \in Nat : l = Len(q[i]) /\ q[i] \in Word
    BY <1>1, PieceIs
  <2>4. f[i] = a + l + 1
    BY <1>1, <1>2, <2>1, <2>3 DEF Sized
  <2>5. f[i] <= f[m] /\ f[i] \in Nat /\ f[m] \in Nat
    <3>1. i \in 0 .. m /\ m \in 0 .. m
      OBVIOUS
    <3> QED
      BY <1>1, <1>2, <3>1, SizeRises
  <2>6. a <= n /\ l <= n - a /\ n - a \in Int
    <3>1. PICK b \in Nat, c \in Nat : b = f[i] /\ c = f[m]
      BY <2>5
    <3>2. b = a + l + 1 /\ b <= c /\ c <= n + 1 /\ n \in Nat /\ a \in Nat /\ l \in Nat
      BY <1>2, <2>4, <2>5, <3>1
    <3> QED
      BY ONLY <3>1, <3>2
  <2>7. Clipped(q[i], n - a) = q[i]
    BY <2>3, <2>6, ClippedIs
  <2> QED
    BY <2>2, <2>6, <2>7
<1>4. Cut(q, n) = [i \in 1 .. m |-> Clipped(q[i], n - Offsets(q)[i])]
  BY <1>1, <1>3, CutTo
<1>5. Cut(q, n) = [i \in 1 .. m |-> q[i]]
  BY <1>3, <1>4
<1>6. q = [i \in 1 .. m |-> q[i]]
  BY <1>1, LenProperties DEF Pieces
<1> QED
  BY <1>5, <1>6

\* The joined text is a text (kernel/path.c:23-31).
LEMMA JoinedType ==
    ASSUME NEW cwd, NEW path, cwd.pieces \in Pieces, path.pieces \in Pieces
    PROVE  Joined(cwd, path) \in Pieces
<1>1. PICK q \in Pieces : q = IF IsRooted(path.pieces) THEN path.pieces ELSE cwd.pieces \o path.pieces
  BY SizeConcat
<1>2. PathMax - 1 \in Nat
  BY Limits
<1> QED
  BY <1>1, <1>2, CutType DEF Joined

-----------------------------------------------------------------------------
(***************************************************************************)
(* The array of parts holds the names a walk has passed, as long as they   *)
(* have room in it (kernel/path.c:40-49).                                  *)
(***************************************************************************)
Holds(work, names) ==
    /\ ~ work.refused
    /\ work.depth = Len(names)
    /\ \A i \in 1 .. Len(names) : work.slots[i] = names[i]

\* A piece that has room goes into the array as it goes on the walk.
LEMMA PushFollows ==
    ASSUME NEW work \in Works, NEW names \in Pieces, Holds(work, names),
           NEW piece \in Word, Len(piece) <= PartSize - 1, Len(Names!Stride(names, piece)) <= MaxParts
    PROVE  Holds(Push(work, piece), Names!Stride(names, piece))
<1>1. PICK d \in Nat : d = Len(names) /\ d = work.depth /\ (d = 0 <=> names = << >>) /\ d <= MaxParts
  BY LenIs DEF Holds, Works
<1>2. CASE piece \in {<< >>, Dot}
  <2>1. Push(work, piece) = work
    BY <1>2 DEF Push
  <2>2. Names!Stride(names, piece) = names
    BY <1>2, StrideCases
  <2> QED
    BY <2>1, <2>2
<1>3. CASE piece \notin {<< >>, Dot} /\ piece = DotDot
  <2>1. PICK e \in Nat : e = IF d > 0 THEN d - 1 ELSE 0
    OBVIOUS
  <2>2. Push(work, piece) = [work EXCEPT !.depth = e]
    BY <1>1, <1>3, <2>1 DEF Push, Holds
  <2>3. Push(work, piece).depth = e /\ Push(work, piece).slots = work.slots /\ Push(work, piece).refused = work.refused
    BY <2>2 DEF Works
  <2>4. Names!Stride(names, piece) = IF names = << >> THEN names ELSE Front(names)
    BY <1>3, StrideCases
  <2>5. CASE names = << >>
    BY <1>1, <2>1, <2>3, <2>4, <2>5 DEF Holds
  <2>6. CASE names # << >>
    <3>1. Len(Front(names)) = d - 1 /\ d > 0 /\ \A i \in 1 .. d - 1 : Front(names)[i] = names[i]
      <4>1. Len(Front(names)) = Len(names) - 1 /\ \A i \in 1 .. Len(names) - 1 : Front(names)[i] = names[i]
        BY <2>6, FrontIs
      <4>2. d > 0
        BY ONLY <1>1, <2>6
      <4> QED
        BY ONLY <1>1, <4>1, <4>2
    <3>2. \A i \in 1 .. d - 1 : work.slots[i] = names[i]
      BY <1>1 DEF Holds
    <3> QED
      BY <1>1, <2>1, <2>3, <2>4, <2>6, <3>1, <3>2 DEF Holds
  <2> QED
    BY <2>5, <2>6
<1>4. CASE piece \notin {<< >>, Dot, DotDot}
  <2>1. Names!Stride(names, piece) = Append(names, piece)
    BY <1>4, StrideCases
  <2>2. /\ Len(Append(names, piece)) = d + 1
        /\ \A i \in 1 .. d : Append(names, piece)[i] = names[i]
        /\ Append(names, piece)[d + 1] = piece
    <3>1. names \in Seq(Word) /\ piece \in Word
      BY DEF Pieces
    <3>2. /\ Len(Append(names, piece)) = Len(names) + 1
          /\ \A i \in 1 .. Len(names) : Append(names, piece)[i] = names[i]
          /\ Append(names, piece)[Len(names) + 1] = piece
      BY ONLY <3>1, AppendProperties
    <3> QED
      BY ONLY <1>1, <3>2
  <2>3. d < MaxParts
    BY <1>1, <2>1, <2>2, Limits
  <2>4. Clipped(piece, PartSize - 1) = piece
    BY Limits, ClippedIs
  <2>5. PICK e \in 1 .. MaxParts : e = d + 1
    BY <2>3, Limits
  <2>6. Push(work, piece) = [work EXCEPT !.depth = e, !.slots[e] = piece]
    <3>1. ~ work.refused /\ ~ (work.depth >= MaxParts) /\ work.depth + 1 = e
      BY <1>1, <2>3, <2>5, Limits DEF Holds
    <3> QED
      BY <1>4, <2>4, <3>1 DEF Push
  <2>7. PICK slots \in [1 .. MaxParts -> Word] : slots = [work.slots EXCEPT ![e] = piece]
    BY DEF Works
  <2>8. Push(work, piece) = [refused |-> work.refused, depth |-> e, slots |-> slots]
    BY <2>6, <2>7 DEF Works
  <2>9. slots[e] = piece /\ \A i \in 1 .. d : slots[i] = work.slots[i]
    BY <1>1, <2>5, <2>7, Limits DEF Works
  <2>10. \A i \in 1 .. d : slots[i] = names[i]
    BY <1>1, <2>9 DEF Holds
  <2> QED
    BY <2>1, <2>2, <2>5, <2>8, <2>9, <2>10 DEF Holds
<1> QED
  BY <1>2, <1>3, <1>4

\* Where a walk stands after each of its pieces.
Strode(g, names, pieces) ==
    /\ g \in [0 .. Len(pieces) -> Pieces]
    /\ g[0] = names
    /\ \A i \in 1 .. Len(pieces) : g[i] = Names!Stride(g[i - 1], pieces[i])

\* Strides is the last value of such a function.
LEMMA StrodeIs ==
    ASSUME NEW names \in Pieces, NEW pieces \in Pieces
    PROVE  \E g : Strode(g, names, pieces) /\ Names!Strides(names, pieces) = g[Len(pieces)]
BY StridesAre DEF Strode

\* The parts of a whole text are where its walk ends, when every piece has
\* room.
LEMMA ParsedFollows ==
    ASSUME NEW q \in Pieces, NEW left \in Word, NEW g, Strode(g, << >>, q),
           \A i \in 1 .. Len(q) : Len(q[i]) <= PartSize - 1 /\ Len(g[i]) <= MaxParts
    PROVE  Parsed(q, left) \in Works /\ Holds(Parsed(q, left), g[Len(q)])
<1>1. PICK n \in Nat : n = Len(q)
  BY LenIs
<1>2. PICK f \in [0 .. n -> Works] :
          f[0] = Fresh(left) /\ (\A i \in 1 .. n : f[i] = Push(f[i - 1], q[i])) /\ Parsed(q, left) = f[n]
  BY <1>1, ParsedIs
<1> DEFINE set == {k \in Nat : Holds(f[k], g[k])}
<1>3. 0 \in set
  <2>1. ~ Fresh(left).refused /\ Fresh(left).depth = 0
    BY DEF Fresh
  <2>2. Len(<< >>) = 0 /\ g[0] = << >>
    BY NoPieces DEF Strode
  <2> QED
    BY <1>2, <2>1, <2>2 DEF Holds
<1>4. ASSUME NEW i \in 1 .. n, i - 1 \in set PROVE i \in set
  <2>1. i - 1 \in 0 .. n /\ f[i - 1] \in Works /\ g[i - 1] \in Pieces /\ q[i] \in Word
    BY <1>1, <1>2, PieceIs DEF Strode
  <2>2. f[i] = Push(f[i - 1], q[i]) /\ g[i] = Names!Stride(g[i - 1], q[i])
    BY <1>1, <1>2 DEF Strode
  <2>3. Holds(f[i - 1], g[i - 1])
    BY <1>4
  <2>4. Len(q[i]) <= PartSize - 1 /\ Len(Names!Stride(g[i - 1], q[i])) <= MaxParts
    BY <1>1, <2>2
  <2>5. Holds(Push(f[i - 1], q[i]), Names!Stride(g[i - 1], q[i]))
    BY ONLY <2>1, <2>3, <2>4, PushFollows
  <2> QED
    BY <2>2, <2>5
<1> HIDE DEF set
<1>5. n \in set
  <2>1. \A i \in 0 .. n : i \in set
    BY <1>3, <1>4, ClimbTo
  <2> QED
    BY <2>1
<1>6. n \in 0 .. n
  OBVIOUS
<1> QED
  BY <1>1, <1>2, <1>5, <1>6 DEF set

(***************************************************************************)
(* The names of a walk are names it was given, and no longer than its path. *)
(***************************************************************************)
LEMMA StrideKeeps ==
    ASSUME NEW names \in Pieces, NEW word \in Word
    PROVE  /\ Names!Size(Names!Stride(names, word)) <= Names!Size(names) + Len(word) + 1
           /\ \A i \in 1 .. Len(Names!Stride(names, word)) :
                  Names!Stride(names, word)[i] = word \/ \E j \in 1 .. Len(names) : Names!Stride(names, word)[i] = names[j]
<1>1. Len(word) \in Nat /\ Names!Size(names) \in Nat /\ Len(names) \in Nat
  BY EmptyWord, SizeType, LenIs
<1>2. CASE word \in {<< >>, Dot}
  BY <1>1, <1>2, StrideCases
<1>3. CASE word = DotDot
  <2>1. CASE names = << >>
    BY <1>1, <1>3, <2>1, StrideCases
  <2>2. CASE names # << >>
    <3>1. Names!Stride(names, word) = Front(names)
      BY <1>3, <2>2, StrideCases
    <3>2. Names!Size(Front(names)) \in Nat
      BY <2>2, FrontIs, SizeType
    <3>3. Len(Front(names)) = Len(names) - 1 /\ \A i \in 1 .. Len(names) - 1 : Front(names)[i] = names[i]
      BY <2>2, FrontIs
    <3>4. Names!Size(Front(names)) <= Names!Size(names) + Len(word) + 1
      BY <1>1, <2>2, <3>2, FrontIs
    <3>5. \A i \in 1 .. Len(names) - 1 : i \in 1 .. Len(names)
      BY <1>1
    <3>6. \A i \in 1 .. Len(Front(names)) : \E j \in 1 .. Len(names) : Front(names)[i] = names[j]
      BY <3>3, <3>5
    <3> QED
      BY ONLY <3>1, <3>4, <3>6
  <2> QED
    BY <2>1, <2>2
<1>4. CASE word \notin {<< >>, Dot, DotDot}
  <2>1. Names!Stride(names, word) = Append(names, word)
    BY <1>4, StrideCases
  <2>2. /\ Len(Append(names, word)) = Len(names) + 1
        /\ \A i \in 1 .. Len(names) : Append(names, word)[i] = names[i]
        /\ Append(names, word)[Len(names) + 1] = word
    BY AppendProperties DEF Pieces
  <2> QED
    BY <1>1, <2>1, <2>2, SizeAppend
<1> QED
  BY <1>2, <1>3, <1>4

\* As far as any piece of the walk.
LEMMA StrodeKeeps ==
    ASSUME NEW q \in Pieces, NEW f, Sized(f, q), NEW g, Strode(g, << >>, q), NEW k \in 0 .. Len(q)
    PROVE  /\ Names!Size(g[k]) <= f[k]
           /\ \A i \in 1 .. Len(g[k]) : \E j \in 1 .. Len(q) : g[k][i] = q[j]
<1>1. PICK n \in Nat : n = Len(q)
  BY LenIs
<1> DEFINE Good(i) == /\ Names!Size(g[i]) <= f[i]
                      /\ \A x \in 1 .. Len(g[i]) : \E j \in 1 .. n : g[i][x] = q[j]
           set == {i \in Nat : Good(i)}
<1>2. 0 \in set
  <2>1. g[0] = << >> /\ f[0] = 0
    BY DEF Strode, Sized
  <2> QED
    BY <2>1, SizeOfNone, NoPieces
<1>3. ASSUME NEW i \in 1 .. n, i - 1 \in set PROVE i \in set
  <2>1. i - 1 \in 0 .. n /\ i \in 0 .. n
    OBVIOUS
  <2>2. PICK was \in Pieces, word \in Word : was = g[i - 1] /\ word = q[i]
    BY <1>1, <2>1, PieceIs DEF Strode
  <2>3. g[i] = Names!Stride(was, word)
    BY <1>1, <2>2 DEF Strode
  <2>4. f[i] = f[i - 1] + Len(word) + 1 /\ f[i - 1] \in Nat /\ Len(word) \in Nat
    BY <1>1, <2>1, <2>2, EmptyWord, SizeRises DEF Sized
  <2>5. Names!Size(was) <= f[i - 1] /\ Names!Size(was) \in Nat /\ Names!Size(g[i]) \in Nat
    BY <1>1, <1>3, <2>1, <2>2, SizeType DEF Strode
  <2>6. Names!Size(g[i]) <= Names!Size(was) + Len(word) + 1
    BY <2>3, StrideKeeps
  <2>7. Names!Size(g[i]) <= f[i]
    BY ONLY <2>4, <2>5, <2>6
  <2>8. ASSUME NEW x \in 1 .. Len(g[i]) PROVE \E j \in 1 .. n : g[i][x] = q[j]
    <3>1. g[i][x] = word \/ \E j \in 1 .. Len(was) : g[i][x] = was[j]
      BY <2>3, StrideKeeps
    <3>2. CASE g[i][x] = word
      BY <2>2, <3>2
    <3>3. CASE \E j \in 1 .. Len(was) : g[i][x] = was[j]
      <4>1. PICK j \in 1 .. Len(was) : g[i][x] = was[j]
        BY <3>3
      <4>2. \E l \in 1 .. n : was[j] = q[l]
        BY <1>3, <2>2, <4>1
      <4> QED
        BY <4>1, <4>2
    <3> QED
      BY <3>1, <3>2, <3>3
  <2> QED
    BY <2>7, <2>8
<1> HIDE DEF set
<1>4. \A i \in 0 .. n : i \in set
  BY <1>2, <1>3, ClimbTo
<1> QED
  BY <1>1, <1>4 DEF set

-----------------------------------------------------------------------------
(***************************************************************************)
(* The text that is written of some parts: a slash and as much of each     *)
(* part as fits (kernel/path.c:51-65).                                     *)
(***************************************************************************)
Wrote(f, volume, parts) ==
    /\ f \in [0 .. Len(parts) -> Outs]
    /\ f[0] = Started(volume)
    /\ \A i \in 1 .. Len(parts) : f[i] = Put(f[i - 1], parts[i])

\* Written is the last value of such a function.
LEMMA WroteIs ==
    ASSUME NEW volume, NEW parts \in Pieces
    PROVE  \E f : Wrote(f, volume, parts)
                  /\ Written(volume, parts) = IF parts = << >> THEN Put(Started(volume), << >>) ELSE f[Len(parts)]
BY WrittenIs DEF Wrote

\* As much of a part as fits (kernel/path.c:58-60).
Kept(f, parts, i) == Clipped(parts[i], PathMax - 2 - f[i - 1].size)

\* One part more: a slash and what is kept of the part.
LEMMA KeptIs ==
    ASSUME NEW volume, NEW parts \in Pieces, NEW f, Wrote(f, volume, parts), NEW i \in 1 .. Len(parts)
    PROVE  /\ Kept(f, parts, i) \in Word
           /\ f[i - 1].size \in Nat /\ f[i].size \in Nat
           /\ f[i].size = f[i - 1].size + 1 + Len(Kept(f, parts, i))
           /\ f[i].pieces = Append(f[i - 1].pieces, Kept(f, parts, i))
<1>1. i - 1 \in 0 .. Len(parts) /\ i \in 0 .. Len(parts)
  BY LenIs
<1>2. f[i - 1] \in Outs /\ f[i] \in Outs /\ parts[i] \in Word
  BY <1>1, PieceIs DEF Wrote
<1>3. Kept(f, parts, i) \in Word
  BY <1>2, Limits, ClippedIs DEF Kept, Outs
<1>4. f[i] = Put(f[i - 1], parts[i])
  BY DEF Wrote
<1> QED
  BY <1>2, <1>3, <1>4 DEF Put, Kept, Outs

\* The pieces are those that were kept, in order.
LEMMA WroteShape ==
    ASSUME NEW volume, NEW parts \in Pieces, NEW f, Wrote(f, volume, parts), NEW k \in 0 .. Len(parts)
    PROVE  /\ f[k].pieces \in Pieces /\ Len(f[k].pieces) = k + 1
           /\ f[k].pieces[1] = << >>
           /\ \A j \in 1 .. k : f[k].pieces[j + 1] = Kept(f, parts, j)
<1>1. PICK n \in Nat : n = Len(parts)
  BY LenIs
<1> DEFINE Good(i) == /\ Len(f[i].pieces) = i + 1
                      /\ f[i].pieces[1] = << >>
                      /\ \A j \in 1 .. i : f[i].pieces[j + 1] = Kept(f, parts, j)
           set == {i \in Nat : Good(i)}
<1>2. 0 \in set
  <2>1. f[0].pieces = << << >> >>
    BY DEF Wrote, Started
  <2> QED
    BY <2>1, OneEmpty
<1>3. ASSUME NEW i \in 1 .. n, i - 1 \in set PROVE i \in set
  <2>1. PICK was \in Pieces, word \in Word : was = f[i - 1].pieces /\ word = Kept(f, parts, i) /\ f[i].pieces = Append(was, word)
    <3>1. i - 1 \in 0 .. n
      OBVIOUS
    <3>2. f[i - 1].pieces \in Pieces
      BY <1>1, <3>1 DEF Wrote, Outs
    <3>3. Kept(f, parts, i) \in Word /\ f[i].pieces = Append(f[i - 1].pieces, Kept(f, parts, i))
      BY <1>1, KeptIs
    <3> QED
      BY ONLY <3>2, <3>3
  <2>2. PICK new \in Pieces : new = f[i].pieces /\ new = Append(was, word)
    BY <2>1, SizeAppend
  <2>3. /\ Len(new) = Len(was) + 1
        /\ \A j \in 1 .. Len(was) : new[j] = was[j]
        /\ new[Len(was) + 1] = word
    <3>1. was \in Seq(Word) /\ word \in Word
      BY DEF Pieces
    <3> QED
      BY ONLY <2>2, <3>1, AppendProperties
  <2>4. /\ Len(was) = i
        /\ was[1] = << >>
        /\ \A j \in 1 .. i - 1 : was[j + 1] = Kept(f, parts, j)
    BY <1>3, <2>1
  <2>5. ASSUME NEW j \in 1 .. i PROVE new[j + 1] = Kept(f, parts, j)
    <3>1. CASE j = i
      BY ONLY <2>1, <2>3, <2>4, <3>1
    <3>2. CASE j # i
      <4>1. j \in 1 .. i - 1 /\ j + 1 \in 1 .. i
        BY <3>2
      <4>2. new[j + 1] = was[j + 1] /\ was[j + 1] = Kept(f, parts, j)
        BY ONLY <2>3, <2>4, <4>1
      <4> QED
        BY <4>2
    <3> QED
      BY <3>1, <3>2
  <2>6. Len(new) = i + 1 /\ new[1] = << >>
    BY ONLY <2>3, <2>4, <1>1, i \in 1 .. n
  <2>7. Good(i)
    BY ONLY <2>2, <2>5, <2>6
  <2>8. i \in Nat
    OBVIOUS
  <2> HIDE DEF Good
  <2> QED
    BY <2>7, <2>8
<1> HIDE DEF set
<1>4. \A i \in 0 .. n : i \in set
  BY <1>2, <1>3, ClimbTo
<1>5. f[k].pieces \in Pieces
  BY DEF Wrote, Outs
<1> QED
  BY <1>1, <1>4, <1>5 DEF set

\* The same as one fact, to be applied to a text at once.
Spells(f, parts, k) ==
    /\ f[k].pieces \in Pieces /\ Len(f[k].pieces) = k + 1
    /\ f[k].pieces[1] = << >>
    /\ \A j \in 1 .. k : f[k].pieces[j + 1] = Kept(f, parts, j)

LEMMA WroteSpells ==
    ASSUME NEW volume, NEW parts \in Pieces, NEW f, Wrote(f, volume, parts), NEW k \in 0 .. Len(parts)
    PROVE  Spells(f, parts, k)
BY WroteShape DEF Spells

\* The pieces of the text of some names.
Full(names) == << << >> >> \o IF names = << >> THEN << << >> >> ELSE names

\* One piece more than names.
LEMMA FullIs ==
    ASSUME NEW names \in Pieces, names # << >>
    PROVE  /\ Full(names) \in Pieces /\ Len(Full(names)) = Len(names) + 1
           /\ Full(names)[1] = << >>
           /\ \A j \in 1 .. Len(names) : Full(names)[j + 1] = names[j]
           /\ Names!Size(Full(names)) = Names!Size(names) + 1
<1>1. PICK one \in Pieces : one = << << >> >> /\ Len(one) = 1 /\ one[1] = << >>
  BY OneEmpty
<1>2. PICK n \in Nat : n = Len(names)
  BY LenIs
<1>3. Full(names) = one \o names
  BY <1>1 DEF Full
<1>4. /\ one \o names \in Pieces /\ Len(one \o names) = 1 + n
      /\ \A i \in 1 .. 1 + n : (one \o names)[i] = IF i <= 1 THEN one[i] ELSE names[i - 1]
  BY <1>1, <1>2, ConcatProperties DEF Pieces
<1>5. \A j \in 1 .. n : (one \o names)[j + 1] = names[j]
  <2>1. \A j \in 1 .. n : j + 1 \in 1 .. 1 + n /\ ~ (j + 1 <= 1) /\ j + 1 - 1 = j
    OBVIOUS
  <2> QED
    BY <1>4, <2>1
<1>6. (one \o names)[1] = << >>
  BY <1>1, <1>4
<1>7. Names!Size(one) = 1
  <2>1. Names!Size(<< << >> >>) = Len(<< >>) + 1
    BY EmptyWord, SizeOfOne
  <2> QED
    BY <1>1, <2>1, NoPieces
<1>8. Names!Size(one \o names) = Names!Size(names) + 1
  <2>1. Names!Size(one \o names) = Names!Size(one) + Names!Size(names)
    BY SizeConcat
  <2>2. Names!Size(names) \in Nat
    BY SizeType
  <2> QED
    BY ONLY <1>7, <2>1, <2>2
<1> QED
  BY <1>2, <1>3, <1>4, <1>5, <1>6, <1>8

\* These pieces make it that text.
LEMMA FullIsOnly ==
    ASSUME NEW names \in Pieces, names # << >>, NEW q \in Pieces, Len(q) = Len(names) + 1, q[1] = << >>,
           \A j \in 1 .. Len(names) : q[j + 1] = names[j]
    PROVE  q = Full(names)
<1>1. PICK n \in Nat : n = Len(names)
  BY LenIs
<1>2. PICK r \in Pieces : /\ r = Full(names) /\ Len(r) = n + 1 /\ r[1] = << >>
                          /\ \A j \in 1 .. n : r[j + 1] = names[j]
  BY <1>1, FullIs
<1>3. ASSUME NEW i \in 1 .. n + 1 PROVE q[i] = r[i]
  <2>1. CASE i = 1
    BY <1>2, <2>1
  <2>2. CASE i # 1
    <3>1. PICK j \in 1 .. n : i = j + 1
      <4>1. i - 1 \in 1 .. n /\ i = i - 1 + 1
        BY <2>2
      <4> QED
        BY <4>1
    <3> QED
      BY <1>1, <1>2, <3>1
  <2> QED
    BY <2>1, <2>2
<1> QED
  BY <1>1, <1>2, <1>3, SeqEqual DEF Pieces

\* No parts are written as the root (kernel/path.c:54).
LEMMA WrittenNone ==
    ASSUME NEW volume, VolumeSize(volume) = 2
    PROVE  Written(volume, << >>) = [size |-> 3, pieces |-> Full(<< >>)]
<1>1. Written(volume, << >>) = Put(Started(volume), << >>)
  BY NoPieces, WroteIs
<1>2. PICK one \in Pieces : one = << << >> >>
  BY OneEmpty
<1>3. Started(volume).size = 2 /\ Started(volume).pieces = one
  BY <1>2 DEF Started
<1>4. Clipped(<< >>, PathMax - 2 - 2) = << >> /\ Len(<< >>) = 0
  <2>1. PathMax - 2 - 2 \in Int /\ 0 <= PathMax - 2 - 2
    BY Limits
  <2> QED
    BY <2>1, EmptyWord, ClippedIs
<1>5. Put(Started(volume), << >>) = [size |-> 3, pieces |-> Append(one, << >>)]
  BY <1>3, <1>4 DEF Put
<1>6. Append(one, << >>) = one \o one
  <2>1. Append(one, << >>) = one \o << << >> >>
    BY EmptyWord, AppendIsConcat DEF Pieces
  <2> QED
    BY <1>2, <2>1
<1> QED
  BY <1>1, <1>2, <1>5, <1>6 DEF Full

\* Names that fit are written whole.
LEMMA WrittenWhole ==
    ASSUME NEW volume, VolumeSize(volume) = 2, NEW names \in Pieces, 2 + Names!Size(names) < PathMax
    PROVE  \E size \in Nat : size < PathMax /\ Written(volume, names) = [size |-> size, pieces |-> Full(names)]
<1>1. CASE names = << >>
  BY <1>1, WrittenNone, Limits
<1>2. CASE names # << >>
  <2>1. PICK n \in Nat : n = Len(names)
    BY LenIs
  <2>2. PICK f : Wrote(f, volume, names) /\ Written(volume, names) = f[n]
    BY <1>2, <2>1, WroteIs
  <2>3. PICK F : Sized(F, names) /\ 2 + F[n] < PathMax
    BY <2>1, SizeIs
  <2> DEFINE set == {i \in Nat : f[i].size = 2 + F[i]}
  <2>4. 0 \in set
    BY <2>2, <2>3 DEF Wrote, Started, Sized
  <2>5. ASSUME NEW i \in 1 .. n, f[i - 1].size = 2 + F[i - 1]
        PROVE  Kept(f, names, i) = names[i] /\ f[i].size = 2 + F[i]
    <3>1. PICK a \in Nat, b \in Nat, c \in Nat : a = F[i - 1] /\ b = F[i] /\ c = F[n] /\ b <= c
      <4>1. i - 1 \in 0 .. n /\ i \in 0 .. n /\ n \in 0 .. n
        OBVIOUS
      <4> QED
        BY <2>1, <2>3, <4>1, SizeRises
    <3>2. PICK word \in Word : word = names[i]
      BY <2>1, PieceIs
    <3>3. PICK l \in Nat : l = Len(word)
      BY EmptyWord
    <3>4. b = a + l + 1
      BY <2>1, <2>3, <3>1, <3>2, <3>3 DEF Sized
    <3>5. l <= PathMax - 2 - (2 + a) /\ PathMax - 2 - (2 + a) \in Int
      BY <2>3, <3>1, <3>4, Limits
    <3>6. Kept(f, names, i) = word
      BY <2>5, <3>1, <3>2, <3>3, <3>5, ClippedIs DEF Kept
    <3>7. f[i].size = f[i - 1].size + 1 + l
      BY <2>1, <2>2, <3>3, <3>6, KeptIs
    <3> QED
      BY <2>5, <3>1, <3>2, <3>4, <3>6, <3>7
  <2>6. \A i \in 0 .. n : f[i].size = 2 + F[i]
    <3>1. \A i \in 1 .. n : i - 1 \in set => i \in set
      BY <2>5
    <3> HIDE DEF set
    <3>2. \A i \in 0 .. n : i \in set
      BY <2>4, <3>1, ClimbTo
    <3> QED
      BY <3>2 DEF set
  <2>7. \A i \in 1 .. n : Kept(f, names, i) = names[i]
    <3>1. \A i \in 1 .. n : i - 1 \in 0 .. n
      OBVIOUS
    <3> QED
      BY <2>5, <2>6, <3>1
  <2>8. n \in 0 .. n /\ n \in 0 .. Len(names)
    BY <2>1
  <2>9. PICK q \in Pieces : /\ q = f[n].pieces /\ Len(q) = n + 1 /\ q[1] = << >>
                            /\ \A j \in 1 .. n : q[j + 1] = Kept(f, names, j)
    <3> HIDE DEF set
    <3>1. /\ f[n].pieces \in Pieces /\ Len(f[n].pieces) = n + 1 /\ f[n].pieces[1] = << >>
          /\ \A j \in 1 .. n : f[n].pieces[j + 1] = Kept(f, names, j)
      <4>1. Spells(f, names, n)
        BY ONLY <2>2, <2>8, names \in Pieces, WroteSpells
      <4> QED
        BY ONLY <4>1 DEF Spells
    <3>2. PICK r : r = f[n].pieces
      OBVIOUS
    <3>3. r \in Pieces /\ Len(r) = n + 1 /\ r[1] = << >> /\ \A j \in 1 .. n : r[j + 1] = Kept(f, names, j)
      BY ONLY <3>1, <3>2
    <3> QED
      BY ONLY <3>2, <3>3
  <2>10. q = Full(names)
    BY <1>2, <2>1, <2>7, <2>9, FullIsOnly
  <2>11. f[n].size = 2 + F[n] /\ F[n] \in Nat /\ f[n] \in Outs
    <3>1. f[n].size = 2 + F[n]
      BY <2>6, <2>8
    <3>2. F[n] \in Nat
      BY <2>1, <2>3, <2>8 DEF Sized
    <3>3. f[n] \in Outs
      BY <2>2, <2>8 DEF Wrote
    <3> QED
      BY ONLY <3>1, <3>2, <3>3
  <2>12. f[n] = [size |-> 2 + F[n], pieces |-> q]
    BY <2>9, <2>11 DEF Outs
  <2> QED
    BY <2>2, <2>3, <2>10, <2>11, <2>12
<1> QED
  BY <1>1, <1>2

\* A walk that begins with a slash is shorter than its path.
LEMMA StrodeLess ==
    ASSUME NEW q \in Pieces, NEW f, Sized(f, q), NEW g, Strode(g, << >>, q), q[1] = << >>, NEW k \in 1 .. Len(q)
    PROVE  Names!Size(g[k]) < f[k]
<1>1. PICK n \in Nat : n = Len(q) /\ n > 0
  BY LenIs
<1> DEFINE set == {i \in Nat : i > 0 => Names!Size(g[i]) < f[i]}
<1>2. 0 \in set
  OBVIOUS
<1>3. ASSUME NEW i \in 1 .. n, i - 1 \in set PROVE i \in set
  <2>1. i - 1 \in 0 .. n /\ i \in 0 .. n
    OBVIOUS
  <2>2. PICK was \in Pieces, word \in Word : was = g[i - 1] /\ word = q[i]
    BY <1>1, <2>1, PieceIs DEF Strode
  <2>3. g[i] = Names!Stride(was, word)
    BY <1>1, <2>2 DEF Strode
  <2>4. f[i] = f[i - 1] + Len(word) + 1 /\ f[i - 1] \in Nat /\ Len(word) \in Nat
    BY <1>1, <2>1, <2>2, EmptyWord, SizeRises DEF Sized
  <2>5. Names!Size(was) \in Nat /\ Names!Size(g[i]) \in Nat
    BY <1>1, <2>1, SizeType DEF Strode
  <2>6. CASE i = 1
    <3>1. word = << >> /\ was = << >> /\ f[i - 1] = 0
      BY <2>2, <2>6 DEF Strode, Sized
    <3>2. g[i] = << >>
      BY <2>3, <3>1, StrideCases
    <3> QED
      BY <2>4, <2>5, <3>2, SizeOfNone
  <2>7. CASE i # 1
    <3>1. Names!Size(was) < f[i - 1]
      BY <1>3, <2>2, <2>7
    <3>2. Names!Size(g[i]) <= Names!Size(was) + Len(word) + 1
      BY <2>3, StrideKeeps
    <3>3. Names!Size(g[i]) < f[i]
      BY ONLY <2>4, <2>5, <3>1, <3>2
    <3> QED
      BY <3>3
  <2> QED
    BY <2>6, <2>7
<1> HIDE DEF set
<1>4. \A i \in 0 .. n : i \in set
  BY <1>2, <1>3, ClimbTo
<1> QED
  BY <1>1, <1>4 DEF set

\* Slots that do not fill their place are read as they are (kernel/path.c:59).
LEMMA ReadWhole ==
    ASSUME NEW slots, NEW left, NEW names \in Pieces, Len(names) <= MaxParts,
           \A i \in 1 .. Len(names) : slots[i] = names[i] /\ Len(names[i]) < PartSize - 1
    PROVE  SubSeq(PartsRead(slots, left), 1, Len(names)) = names
<1>1. PICK n \in Nat : n = Len(names) /\ n <= MaxParts
  BY LenIs
<1>2. PICK f : Reads(f, slots, left)
  BY PartsReadAre
<1>3. PICK r : r = PartsRead(slots, left)
  OBVIOUS
<1>4. ASSUME NEW i \in 1 .. n PROVE r[i] = names[i] /\ names[i] \in Word
  <2>1. i \in 1 .. MaxParts
    BY <1>1, Limits
  <2>2. r[i] = f[i]
    BY <1>2, <1>3, <2>1 DEF Reads
  <2>3. Len(slots[i]) < PartSize - 1 /\ slots[i] = names[i]
    BY <1>1
  <2>4. f[i] = slots[i]
    BY <1>2, <2>1, <2>3 DEF Reads
  <2> QED
    BY <1>1, <2>2, <2>3, <2>4, PieceIs
<1>5. SubSeq(r, 1, n) \in Seq(Word) /\ Len(SubSeq(r, 1, n)) = n /\ \A i \in 1 .. n : SubSeq(r, 1, n)[i] = r[i]
  <2>1. 1 \in Int /\ n \in Int /\ \A i \in 1 .. n : r[i] \in Word
    BY <1>4
  <2>2. /\ SubSeq(r, 1, n) \in Seq(Word)
        /\ Len(SubSeq(r, 1, n)) = IF 1 <= n THEN n - 1 + 1 ELSE 0
        /\ \A i \in 1 .. n - 1 + 1 : SubSeq(r, 1, n)[i] = r[1 + i - 1]
    BY ONLY <2>1, SubSeqProperties
  <2> QED
    BY <2>2
<1>6. SubSeq(r, 1, n) = names
  BY <1>1, <1>4, <1>5, SeqEqual DEF Pieces
<1> QED
  BY <1>1, <1>3, <1>6

(***************************************************************************)
(* A path that has room everywhere resolves to where its walk ends         *)
(* (kernel/path.c:5-66).                                                   *)
(***************************************************************************)
TextOf(volume, names) == [volume |-> volume, pieces |-> Full(names)]

\* Parse, read back and write, one after the other, with room for each.
LEMMA AnswerFollows ==
    ASSUME NEW volume, VolumeSize(volume) = 2, NEW q \in Pieces, NEW left \in Word, NEW g, Strode(g, << >>, q),
           2 + Names!Size(g[Len(q)]) < PathMax,
           \A i \in 1 .. Len(q) : Len(q[i]) < PartSize - 1 /\ Len(g[i]) <= MaxParts
    PROVE  Answer(volume, Parsed(q, left), left) = TextOf(volume, g[Len(q)])
<1>1. PICK n \in Nat : n = Len(q)
  BY LenIs
<1>2. PICK names \in Pieces : names = g[n] /\ Len(names) <= MaxParts
  <2>1. g[n] \in Pieces
    <3>1. n \in 0 .. n
      OBVIOUS
    <3> QED
      BY <1>1, <3>1 DEF Strode
  <2>2. Len(g[n]) <= MaxParts
    <3>1. CASE n = 0
      BY <1>1, <3>1, NoPieces, Limits DEF Strode
    <3>2. CASE n # 0
      BY <1>1, <3>2
    <3> QED
      BY <3>1, <3>2
  <2> QED
    BY <2>1, <2>2
<1>3. PICK work \in Works : work = Parsed(q, left) /\ Holds(work, names)
  <2>1. \A i \in 1 .. Len(q) : Len(q[i]) <= PartSize - 1 /\ Len(g[i]) <= MaxParts
    BY PieceIs, Limits
  <2> QED
    BY <1>1, <1>2, <2>1, ParsedFollows
<1>4. PICK f : Sized(f, q)
  BY SizeIs
<1>5. 2 + Names!Size(names) < PathMax
  BY <1>1, <1>2
<1>6. ASSUME NEW i \in 1 .. Len(names) PROVE work.slots[i] = names[i] /\ Len(names[i]) < PartSize - 1
  <2>1. n \in 0 .. Len(q)
    BY <1>1
  <2>2. PICK j \in 1 .. Len(q) : names[i] = q[j]
    BY <1>2, <1>4, <2>1, StrodeKeeps
  <2> QED
    BY <1>3, <2>2 DEF Holds
<1>7. SubSeq(PartsRead(work.slots, left), 1, Len(names)) = names
  <2>1. PICK slots : slots = work.slots
    OBVIOUS
  <2>2. \A i \in 1 .. Len(names) : slots[i] = names[i] /\ Len(names[i]) < PartSize - 1
    BY <1>6, <2>1
  <2>3. names \in Pieces /\ Len(names) <= MaxParts
    BY <1>2
  <2>4. SubSeq(PartsRead(slots, left), 1, Len(names)) = names
    BY ONLY <2>2, <2>3, ReadWhole
  <2> QED
    BY <2>1, <2>4
<1>8. PICK size \in Nat : size < PathMax /\ Written(volume, names) = [size |-> size, pieces |-> Full(names)]
  BY <1>5, WrittenWhole
<1>9. ~ work.refused /\ work.depth = Len(names)
  BY <1>3 DEF Holds
<1>10. Answer(volume, work, left) = Returned(volume, [size |-> size, pieces |-> Full(names)])
  BY <1>7, <1>8, <1>9 DEF Answer
<1>11. ~ (size >= PathMax)
  BY <1>8, Limits
<1> QED
  BY <1>1, <1>2, <1>3, <1>10, <1>11 DEF Returned, TextOf

-----------------------------------------------------------------------------
(***************************************************************************)
(* A walk along a text that stands for some names, and on from there.      *)
(***************************************************************************)
\* A name that a walk takes as a name.
IsPlainName(name) == name \in Word /\ name \notin {<< >>, Dot, DotDot}
Ordinary(names) == names \in Pieces /\ \A i \in 1 .. Len(names) : IsPlainName(names[i])

\* The text of names: what begins it, and its size.
LEMMA FullType ==
    ASSUME NEW names \in Pieces
    PROVE  /\ Full(names) \in Pieces
           /\ Full(names) # << >> /\ Full(names)[1] = << >>
           /\ Len(Full(names)) > 1
           /\ Names!Size(Full(names)) = IF names = << >> THEN 2 ELSE Names!Size(names) + 1
<1>1. CASE names # << >>
  <2>1. Len(names) \in Nat /\ Len(names) # 0
    BY <1>1, LenIs
  <2> QED
    BY <1>1, <2>1, FullIs, NoPieces
<1>2. CASE names = << >>
  <2>1. PICK one \in Pieces : one = << << >> >> /\ Len(one) = 1 /\ one # << >> /\ Names!Size(one) = 1
    <3>1. Names!Size(<< << >> >>) = Len(<< >>) + 1
      BY EmptyWord, SizeOfOne
    <3> QED
      BY <3>1, OneEmpty, NoPieces
  <2>2. Full(names) = Full(one)
    BY <1>2, <2>1 DEF Full
  <2>3. Names!Size(Full(one)) = 2 /\ Full(one) \in Pieces /\ Len(Full(one)) = 2 /\ Full(one)[1] = << >>
    <3>1. one \in Pieces /\ one # << >> /\ Len(one) = 1 /\ Names!Size(one) = 1
      BY <2>1
    <3>2. /\ Full(one) \in Pieces /\ Len(Full(one)) = Len(one) + 1 /\ Full(one)[1] = << >>
          /\ Names!Size(Full(one)) = Names!Size(one) + 1
      BY ONLY <3>1, FullIs
    <3> QED
      BY ONLY <3>1, <3>2
  <2> QED
    BY <1>2, <2>2, <2>3, NoPieces
<1> QED
  BY <1>1, <1>2

\* Its pieces.
LEMMA FullPieces ==
    ASSUME NEW names \in Pieces
    PROVE  Len(Full(names)) = (IF names = << >> THEN 2 ELSE Len(names) + 1)
           /\ (names = << >> => Full(names)[2] = << >>)
<1>1. CASE names # << >>
  BY <1>1, FullIs
<1>2. CASE names = << >>
  <2>1. PICK one \in Pieces : one = << << >> >> /\ Len(one) = 1 /\ one # << >> /\ one[1] = << >>
    BY OneEmpty, NoPieces
  <2>2. Full(names) = Full(one)
    BY <1>2, <2>1 DEF Full
  <2>3. Len(Full(one)) = 2 /\ Full(one)[1 + 1] = << >>
    <3>1. one \in Pieces /\ one # << >> /\ Len(one) = 1 /\ one[1] = << >>
      BY <2>1
    <3>2. Len(Full(one)) = Len(one) + 1 /\ \A j \in 1 .. Len(one) : Full(one)[j + 1] = one[j]
      BY ONLY <3>1, FullIs
    <3>3. 1 \in 1 .. Len(one)
      BY <3>1
    <3> QED
      BY ONLY <3>1, <3>2, <3>3
  <2> QED
    BY <1>2, <2>2, <2>3
<1> QED
  BY <1>1, <1>2

\* A walk along the text of names leads to those names, and no further on the
\* way.
LEMMA StrodeFull ==
    ASSUME NEW names, Ordinary(names), NEW t \in Pieces, NEW g, Strode(g, << >>, Full(names) \o t)
    PROVE  /\ g[Len(Full(names))] = names
           /\ \A k \in 0 .. Len(Full(names)) : Len(g[k]) <= Len(names)
<1>0. names \in Pieces
  BY DEF Ordinary
<1>1. PICK n \in Nat : n = Len(names) /\ (n = 0 <=> names = << >>)
  BY <1>0, LenIs
<1>2. PICK full \in Pieces : full = Full(names) /\ full[1] = << >>
  BY <1>0, FullType
<1>3. PICK m \in Nat : m = Len(full)
  BY LenIs
<1>4. PICK q \in Pieces : q = full \o t
  BY SizeConcat
<1>5. /\ Len(q) >= m /\ Len(q) \in Nat
      /\ \A i \in 1 .. m : q[i] = full[i]
  <2>1. PICK l \in Nat : l = Len(t)
    BY LenIs
  <2>2. Len(q) = m + l /\ \A i \in 1 .. m + l : q[i] = IF i <= m THEN full[i] ELSE t[i - m]
    BY <1>3, <1>4, <2>1, ConcatProperties DEF Pieces
  <2> QED
    BY <2>2
<1>6. Strode(g, << >>, q)
  BY <1>2, <1>4
<1>7. g[0] = << >> /\ \A i \in 1 .. m : g[i] = Names!Stride(g[i - 1], full[i]) /\ g[i] \in Pieces
  <2>1. g[0] = << >> /\ \A i \in 1 .. Len(q) : g[i] = Names!Stride(g[i - 1], q[i]) /\ g[i] \in Pieces
    <3>1. g \in [0 .. Len(q) -> Pieces] /\ g[0] = << >> /\ \A i \in 1 .. Len(q) : g[i] = Names!Stride(g[i - 1], q[i])
      BY <1>6 DEF Strode
    <3>2. \A i \in 1 .. Len(q) : i \in 0 .. Len(q)
      BY <1>5
    <3> QED
      BY ONLY <3>1, <3>2
  <2>2. \A i \in 1 .. m : i \in 1 .. Len(q)
    BY <1>5
  <2> QED
    BY ONLY <1>5, <2>1, <2>2
<1>8. m >= 1 /\ g[1] = << >>
  <2>1. m >= 1
    BY <1>0, <1>2, <1>3, FullType
  <2>2. g[1] = Names!Stride(g[1 - 1], full[1])
    BY <1>7, <2>1
  <2> QED
    BY <1>2, <1>7, <2>1, <2>2, StrideCases
<1>9. CASE n = 0
  <2>1. m = 2 /\ full[2] = << >>
    BY <1>0, <1>1, <1>2, <1>3, <1>9, FullPieces
  <2>2. g[2] = Names!Stride(g[2 - 1], full[2])
    BY <1>7, <2>1
  <2>3. g[2] = << >>
    BY <1>8, <2>1, <2>2, StrideCases
  <2> QED
    BY <1>1, <1>2, <1>3, <1>7, <1>8, <1>9, <2>1, <2>3, NoPieces
<1>10. CASE n # 0
  <2>1. m = n + 1 /\ \A j \in 1 .. n : full[j + 1] = names[j]
    BY <1>0, <1>1, <1>2, <1>3, <1>10, FullIs
  <2> DEFINE Good(j) == Len(g[j + 1]) = j /\ \A i \in 1 .. j : g[j + 1][i] = names[i]
             set == {j \in Nat : Good(j)}
  <2>2. 0 \in set
    BY <1>8, NoPieces
  <2>3. ASSUME NEW j \in 1 .. n, j - 1 \in set PROVE j \in set
    <3>1. j \in 1 .. m /\ j + 1 \in 1 .. m /\ j + 1 - 1 = j /\ j - 1 + 1 = j
      BY <2>1
    <3>2. PICK was \in Pieces : was = g[j]
      BY <1>7, <3>1
    <3>3. g[j + 1] = Names!Stride(was, names[j])
      BY <1>7, <2>1, <3>1, <3>2
    <3>4. names[j] \in Word /\ names[j] \notin {<< >>, Dot, DotDot}
      BY <1>1 DEF Ordinary, IsPlainName
    <3>5. g[j + 1] = Append(was, names[j])
      BY <3>3, <3>4, StrideCases
    <3>6. Len(was) = j - 1 /\ \A i \in 1 .. j - 1 : was[i] = names[i]
      BY <2>3, <3>1, <3>2
    <3>7. /\ Len(Append(was, names[j])) = Len(was) + 1
          /\ \A i \in 1 .. Len(was) : Append(was, names[j])[i] = was[i]
          /\ Append(was, names[j])[Len(was) + 1] = names[j]
      <4>1. was \in Seq(Word) /\ names[j] \in Word
        BY <3>4 DEF Pieces
      <4> QED
        BY ONLY <4>1, AppendProperties
    <3>8. ASSUME NEW i \in 1 .. j PROVE Append(was, names[j])[i] = names[i]
      <4>1. i \in 1 .. j - 1 \/ i = j
        OBVIOUS
      <4>2. Len(was) + 1 = j
        BY <3>6
      <4> QED
        BY <3>6, <3>7, <4>1, <4>2
    <3>9. Good(j)
      BY <3>5, <3>6, <3>7, <3>8
    <3> HIDE DEF Good
    <3> QED
      BY <3>9
  <2> HIDE DEF set
  <2>4. \A j \in 0 .. n : j \in set
    BY <2>2, <2>3, ClimbTo
  <2>5. \A j \in 0 .. n : Good(j)
    BY <2>4 DEF set
  <2>6. g[m] = names
    <3>1. m \in 1 .. m /\ g[m] \in Pieces
      BY <1>7, <1>8
    <3>2. Good(n)
      <4>1. n \in 0 .. n
        OBVIOUS
      <4> HIDE DEF Good
      <4> QED
        BY <2>5, <4>1
    <3>3. Len(g[m]) = n /\ \A i \in 1 .. n : g[m][i] = names[i]
      BY <2>1, <3>2
    <3> QED
      BY <1>0, <1>1, <3>1, <3>3, SeqEqual DEF Pieces
  <2>7. ASSUME NEW k \in 0 .. m PROVE Len(g[k]) <= n
    <3>1. CASE k = 0
      BY <1>7, <3>1, NoPieces
    <3>2. CASE k # 0
      <4>1. k - 1 \in 0 .. n /\ k - 1 + 1 = k
        BY <2>1, <3>2
      <4>2. Good(k - 1)
        BY <2>5, <4>1
      <4>3. Len(g[k]) = k - 1
        BY <4>1, <4>2
      <4> QED
        BY <4>1, <4>3
    <3> QED
      BY <3>1, <3>2
  <2> QED
    BY <1>1, <1>2, <1>3, <2>6, <2>7
<1> QED
  BY <1>9, <1>10

\* A walk along two texts is the one and then the other.
LEMMA StrodeOn ==
    ASSUME NEW s \in Pieces, NEW t \in Pieces, NEW g, Strode(g, << >>, s \o t)
    PROVE  \E h : /\ Strode(h, g[Len(s)], t)
                  /\ Len(s \o t) = Len(s) + Len(t)
                  /\ \A j \in 0 .. Len(t) : h[j] = g[Len(s) + j]
                  /\ \A i \in 1 .. Len(s) + Len(t) : (s \o t)[i] = IF i <= Len(s) THEN s[i] ELSE t[i - Len(s)]
<1>1. PICK m \in Nat, n \in Nat : m = Len(s) /\ n = Len(t)
  BY LenIs
<1>2. PICK q \in Pieces : /\ q = s \o t /\ Len(q) = m + n
                          /\ \A i \in 1 .. m + n : q[i] = IF i <= m THEN s[i] ELSE t[i - m]
  <2>1. s \in Seq(Word) /\ t \in Seq(Word)
    BY DEF Pieces
  <2>2. /\ s \o t \in Seq(Word) /\ Len(s \o t) = Len(s) + Len(t)
        /\ \A i \in 1 .. Len(s) + Len(t) : (s \o t)[i] = IF i <= Len(s) THEN s[i] ELSE t[i - Len(s)]
    BY ONLY <2>1, ConcatProperties
  <2> QED
    BY ONLY <1>1, <2>2 DEF Pieces
<1>3. /\ g \in [0 .. m + n -> Pieces]
      /\ \A i \in 1 .. m + n : g[i] = Names!Stride(g[i - 1], q[i])
  BY <1>2 DEF Strode
<1> DEFINE h == [j \in 0 .. n |-> g[m + j]]
<1>4. h \in [0 .. n -> Pieces]
  BY <1>3
<1>5. h[0] = g[m]
  OBVIOUS
<1>6. ASSUME NEW j \in 1 .. n PROVE h[j] = Names!Stride(h[j - 1], t[j])
  <2>1. m + j \in 1 .. m + n /\ ~ (m + j <= m) /\ m + j - m = j /\ m + j - 1 = m + (j - 1) /\ j - 1 \in 0 .. n
    OBVIOUS
  <2>2. g[m + j] = Names!Stride(g[m + j - 1], t[j])
    <3>1. q[m + j] = t[j]
      BY <1>2, <2>1
    <3> QED
      BY <1>3, <2>1, <3>1
  <2>3. h[j] = g[m + j] /\ h[j - 1] = g[m + j - 1]
    BY <2>1
  <2> HIDE DEF h
  <2> QED
    BY <2>2, <2>3
<1>7. \A j \in 0 .. n : h[j] = g[m + j]
  OBVIOUS
<1> HIDE DEF h
<1>8. Strode(h, g[m], t)
  BY <1>1, <1>4, <1>5, <1>6 DEF Strode
<1> QED
  BY <1>1, <1>2, <1>7, <1>8

(***************************************************************************)
(* A relative path leads on from the current directory (kernel/path.c:29). *)
(***************************************************************************)
LEMMA AnswerFrom ==
    ASSUME NEW volume, VolumeSize(volume) = 2, NEW names, Ordinary(names), Len(names) <= MaxParts,
           NEW t \in Pieces, NEW left \in Word, NEW h, Strode(h, names, t),
           2 + Names!Size(h[Len(t)]) < PathMax,
           \A i \in 1 .. Len(names) : Len(names[i]) < PartSize - 1,
           \A i \in 1 .. Len(t) : Len(t[i]) < PartSize - 1 /\ Len(h[i]) <= MaxParts
    PROVE  Answer(volume, Parsed(Full(names) \o t, left), left) = TextOf(volume, h[Len(t)])
<1>0. names \in Pieces
  BY DEF Ordinary
<1>1. PICK full \in Pieces, q \in Pieces : full = Full(names) /\ q = full \o t
  BY <1>0, FullType, SizeConcat
<1>2. PICK g : Strode(g, << >>, q)
  BY <1>1, NoPieces, StrodeIs
<1>3. PICK m \in Nat, n \in Nat : m = Len(full) /\ n = Len(t)
  BY LenIs
<1>4. g[m] = names /\ \A k \in 0 .. m : Len(g[k]) <= Len(names)
  BY <1>1, <1>2, <1>3, StrodeFull
<1>5. PICK k : /\ Strode(k, names, t)
               /\ Len(q) = m + n
               /\ \A j \in 0 .. n : k[j] = g[m + j]
               /\ \A i \in 1 .. m + n : q[i] = IF i <= m THEN full[i] ELSE t[i - m]
  <2>1. Strode(g, << >>, full \o t)
    BY <1>1, <1>2
  <2>2. full \in Pieces /\ t \in Pieces
    OBVIOUS
  <2>3. \E k : /\ Strode(k, g[Len(full)], t)
               /\ Len(full \o t) = Len(full) + Len(t)
               /\ \A j \in 0 .. Len(t) : k[j] = g[Len(full) + j]
               /\ \A i \in 1 .. Len(full) + Len(t) :
                      (full \o t)[i] = IF i <= Len(full) THEN full[i] ELSE t[i - Len(full)]
    BY ONLY <2>1, <2>2, StrodeOn
  <2> QED
    BY ONLY <1>1, <1>3, <1>4, <2>3
<1>6. \A j \in 0 .. n : k[j] = h[j]
  <2>1. Follow(k, h, n)
    BY <1>3, <1>5 DEF Strode, Follow
  <2> QED
    BY <2>1, SameClimb
<1>7. \A i \in 1 .. m : Len(full[i]) < PartSize - 1
  <2>1. ASSUME NEW i \in 1 .. m PROVE full[i] = << >> \/ \E j \in 1 .. Len(names) : full[i] = names[j]
    <3>1. CASE names = << >>
      <4>1. m = 2 /\ full[1] = << >> /\ full[2] = << >>
        BY <1>0, <1>1, <1>3, <3>1, FullType, FullPieces
      <4> QED
        BY <4>1
    <3>2. CASE names # << >>
      <4>1. m = Len(names) + 1 /\ full[1] = << >> /\ \A j \in 1 .. Len(names) : full[j + 1] = names[j]
        BY <1>0, <1>1, <1>3, <3>2, FullIs
      <4>2. i = 1 \/ (i - 1 \in 1 .. Len(names) /\ i = i - 1 + 1)
        BY <1>0, <4>1, LenIs
      <4> QED
        BY <4>1, <4>2
    <3> QED
      BY <3>1, <3>2
  <2>2. Len(<< >>) < PartSize - 1
    BY Limits, NoPieces
  <2> QED
    BY <2>1, <2>2
<1>8. ASSUME NEW i \in 1 .. Len(q) PROVE Len(q[i]) < PartSize - 1 /\ Len(g[i]) <= MaxParts
  <2>1. i \in 1 .. m + n
    BY <1>5
  <2>2. CASE i <= m
    <3>1. Len(g[i]) <= Len(names) /\ Len(g[i]) \in Nat /\ Len(names) \in Nat
      <4>1. g[i] \in Pieces
        <5>1. i \in 0 .. Len(q)
          OBVIOUS
        <5> QED
          BY <1>2, <5>1 DEF Strode
      <4> QED
        BY <1>0, <1>4, <2>1, <2>2, <4>1, LenIs
    <3>2. Len(g[i]) <= MaxParts
      BY <3>1, Limits
    <3> QED
      BY <1>5, <1>7, <2>1, <2>2, <3>2
  <2>3. CASE ~ (i <= m)
    <3>1. PICK j \in 1 .. n : j = i - m
      BY <2>1, <2>3
    <3>2. q[i] = t[j] /\ g[i] = h[j]
      <4>1. m + j = i /\ j \in 0 .. n
        BY <2>1, <3>1
      <4> QED
        BY <1>5, <1>6, <2>1, <2>3, <3>1, <4>1
    <3> QED
      BY <1>3, <3>2
  <2> QED
    BY <2>2, <2>3
<1>9. g[Len(q)] = h[n]
  <2>1. n \in 0 .. n
    OBVIOUS
  <2> QED
    BY <1>5, <1>6, <2>1
<1>10. 2 + Names!Size(g[Len(q)]) < PathMax
  BY <1>3, <1>9
<1>11. Answer(volume, Parsed(q, left), left) = TextOf(volume, g[Len(q)])
  BY <1>2, <1>8, <1>10, AnswerFollows
<1> QED
  BY <1>1, <1>3, <1>9, <1>11

(***************************************************************************)
(* In a finite set of numbers every rank below its size is the rank of a   *)
(* member, and of one only (fs/fatfs.c:39).                                *)
(***************************************************************************)
LEMMA RankLess ==
    ASSUME NEW S \in SUBSET Nat, IsFiniteSet(S), NEW i \in S
    PROVE  /\ Before(S, i) \in Nat
           /\ Before(S, i) < Cardinality(S)
           /\ \A k \in S : i < k => Before(S, i) < Before(S, k)
<1> DEFINE low(k) == {j \in S : j < k}
<1>1. Cardinality(S) \in Nat
  BY FS_CardinalityType
<1>2. ASSUME NEW k \in S
      PROVE  IsFiniteSet(low(k)) /\ Cardinality(low(k)) \in Nat /\ Before(S, k) = Cardinality(low(k))
  <2>1. low(k) \in SUBSET S
    OBVIOUS
  <2>2. IsFiniteSet(low(k))
    BY ONLY <2>1, FS_Subset, IsFiniteSet(S)
  <2> QED
    BY <2>2, FS_CardinalityType DEF Before
<1>3. Cardinality(low(i)) < Cardinality(S)
  <2>1. low(i) \in SUBSET (S \ {i})
    OBVIOUS
  <2>2. IsFiniteSet(S \ {i}) /\ Cardinality(S \ {i}) = Cardinality(S) - 1
    BY ONLY FS_RemoveElement, IsFiniteSet(S), i \in S
  <2>3. Cardinality(low(i)) <= Cardinality(S \ {i})
    BY ONLY <2>1, <2>2, FS_Subset
  <2> HIDE DEF low
  <2> QED
    BY <1>1, <1>2, <2>2, <2>3
<1>4. ASSUME NEW k \in S, i < k PROVE Cardinality(low(i)) < Cardinality(low(k))
  <2>1. low(i) \in SUBSET (low(k) \ {i})
    <3>1. ASSUME NEW j \in S, j < i PROVE j < k /\ j # i
      <4>1. i \in Nat /\ j \in Nat /\ k \in Nat
        OBVIOUS
      <4> QED
        BY ONLY <4>1, <3>1, <1>4
    <3> QED
      BY <3>1
  <2>2. i \in low(k)
    BY <1>4
  <2>3. IsFiniteSet(low(k) \ {i}) /\ Cardinality(low(k) \ {i}) = Cardinality(low(k)) - 1
    BY ONLY FS_RemoveElement, <1>2, <2>2
  <2>4. Cardinality(low(i)) <= Cardinality(low(k) \ {i})
    BY ONLY <2>1, <2>3, FS_Subset
  <2> HIDE DEF low
  <2> QED
    BY <1>2, <2>3, <2>4
<1> HIDE DEF low
<1> QED
  BY <1>2, <1>3, <1>4

\* So no two members have one rank.
LEMMA RankIsOnce ==
    ASSUME NEW S \in SUBSET Nat, IsFiniteSet(S), NEW i \in S, NEW k \in S, Before(S, i) = Before(S, k)
    PROVE  i = k
<1>1. /\ Before(S, i) \in Nat
      /\ i < k => Before(S, i) < Before(S, k)
      /\ k < i => Before(S, k) < Before(S, i)
  BY RankLess
<1>2. i \in Nat /\ k \in Nat
  OBVIOUS
<1> QED
  BY ONLY <1>1, <1>2, Before(S, i) = Before(S, k)

\* Each rank below the size is the rank of a member.
LEMMA Ranks ==
    ASSUME NEW S \in SUBSET Nat, IsFiniteSet(S), NEW n \in Nat, n < Cardinality(S)
    PROVE  \E i \in S : n = Before(S, i)
<1> DEFINE T == 0 .. Cardinality(S) - 1
           f == [i \in S |-> Before(S, i)]
<1>1. Cardinality(S) \in Nat
  BY FS_CardinalityType
<1>2. IsFiniteSet(T) /\ Cardinality(T) = Cardinality(S)
  <2>1. 0 \in Int /\ Cardinality(S) - 1 \in Int
    BY <1>1
  <2>2. IsFiniteSet(T) /\ Cardinality(T) = (IF 0 > Cardinality(S) - 1 THEN 0 ELSE Cardinality(S) - 1 - 0 + 1)
    BY ONLY <2>1, FS_Interval
  <2> QED
    BY <1>1, <2>2
<1>3. f \in [S -> T]
  <2>1. ASSUME NEW i \in S PROVE Before(S, i) \in T
    BY <1>1, RankLess
  <2> QED
    BY <2>1
<1>4. \A i, k \in S : f[i] = f[k] => i = k
  BY RankIsOnce
<1>5. f \in Injection(S, T)
  BY <1>3, <1>4 DEF Injection, IsInjective
<1> HIDE DEF f, T
<1>6. f \in Surjection(S, T)
  BY <1>2, <1>5, FS_Injection
<1>7. n \in T
  BY <1>1 DEF T
<1>8. PICK i \in S : f[i] = n
  BY <1>6, <1>7 DEF Surjection
<1> QED
  BY <1>8 DEF f

\* The partitions that get a number, as a set.
Parts(d) == IF drives[d] = Absent THEN {} ELSE IF drives[d].sector0 = "mbr" THEN Numbered(d) ELSE {0}
\* The places on the drives before a drive.
CountedBelow(n) == {p \in Counted : p.drive < n}

\* What the assumptions say of drives, volumes and entries.
LEMMA Constants ==
    MaxDrives \in Nat /\ MaxDrives > 0 /\ MaxVolumes \in Nat /\ MaxVolumes > 1 /\ Entries \in Nat /\ Entries > 0
BY VolumeAssumption

\* Parts are finitely many numbers.
LEMMA PartsAre ==
    ASSUME NEW d
    PROVE  Parts(d) \in SUBSET Nat /\ Parts(d) \subseteq 0 .. Entries /\ IsFiniteSet(Parts(d))
<1>1. Parts(d) \in SUBSET (0 .. Entries)
  BY Constants DEF Parts, Numbered
<1>2. IsFiniteSet(0 .. Entries)
  BY Constants, FS_Interval
<1>3. IsFiniteSet(Parts(d))
  BY ONLY <1>1, <1>2, FS_Subset
<1> QED
  BY <1>1, <1>3

\* A place is its drive and its entry.
LEMMA PlaceIs ==
    ASSUME NEW d, NEW i
    PROVE  /\ Place(d, i).drive = d /\ Place(d, i).entry = i
           /\ \A e, j : Place(d, i) = Place(e, j) => d = e /\ i = j
<1>1. ASSUME NEW e, NEW j PROVE Place(e, j).drive = e /\ Place(e, j).entry = j
  BY DEF Place
<1> QED
  BY <1>1

\* The places that are counted are the parts of the drives.
LEMMA CountedIs == \A p : p \in Counted <=> \E d \in Drives : \E i \in Parts(d) : p = Place(d, i)
<1> DEFINE Given(d) == IF drives[d] = Absent THEN {}
                       ELSE IF drives[d].sector0 = "mbr" THEN {Place(d, i) : i \in Numbered(d)}
                       ELSE {Place(d, 0)}
<1>1. ASSUME NEW d, NEW p PROVE p \in Given(d) <=> \E i \in Parts(d) : p = Place(d, i)
  BY DEF Parts
<1>2. Counted = {Place(d, i) : d \in Drives, i \in 0 .. Entries} \cap UNION {Given(d) : d \in Drives}
  BY DEF Counted
<1>3. ASSUME NEW p
      PROVE  p \in Counted <=>
                 /\ \E d \in Drives, i \in 0 .. Entries : p = Place(d, i)
                 /\ \E d \in Drives : p \in Given(d)
  <2> HIDE DEF Given
  <2> QED
    BY <1>2
<1>4. \A d : Parts(d) \subseteq 0 .. Entries
  BY PartsAre
<1> HIDE DEF Given
<1> QED
  BY <1>1, <1>3, <1>4

\* They are finitely many.
LEMMA CountedFinite == IsFiniteSet(Counted)
<1> DEFINE A == Drives \X (0 .. Entries)
           B == {Place(a[1], a[2]) : a \in A}
           f == [a \in A |-> Place(a[1], a[2])]
<1>1. IsFiniteSet(A)
  <2>1. IsFiniteSet(Drives) /\ IsFiniteSet(0 .. Entries)
    BY Constants, FS_Interval DEF Drives
  <2> QED
    BY <2>1, FS_Product
<1>2. f \in Surjection(A, B)
  <2> HIDE DEF A
  <2> QED
    BY DEF Surjection
<1>3. Counted \in SUBSET B
  <2>1. ASSUME NEW p \in Counted PROVE p \in B
    <3>1. PICK d \in Drives : \E i \in Parts(d) : p = Place(d, i)
      BY CountedIs
    <3>2. PICK i \in Parts(d) : p = Place(d, i)
      BY <3>1
    <3>3. <<d, i>> \in A
      BY PartsAre
    <3>4. p = Place(<<d, i>>[1], <<d, i>>[2])
      BY <3>2
    <3> HIDE DEF A
    <3> QED
      BY <3>3, <3>4
  <2> QED
    BY <2>1
<1> HIDE DEF A, B, f
<1>4. IsFiniteSet(B)
  BY <1>1, <1>2, FS_Surjection
<1> QED
  BY <1>3, <1>4, FS_Subset

\* So are those before a drive.
LEMMA BelowFinite ==
    ASSUME NEW n
    PROVE  IsFiniteSet(CountedBelow(n)) /\ Cardinality(CountedBelow(n)) \in Nat
<1>1. CountedBelow(n) \in SUBSET Counted
  BY DEF CountedBelow
<1>2. IsFiniteSet(CountedBelow(n))
  BY <1>1, CountedFinite, FS_Subset
<1> QED
  BY <1>2, FS_CardinalityType

(***************************************************************************)
(* Some places of one drive and all places before that drive.              *)
(***************************************************************************)
LEMMA SizeWith ==
    ASSUME NEW d \in Drives, NEW P \in SUBSET Parts(d)
    PROVE  Cardinality(CountedBelow(d) \cup {Place(d, i) : i \in P}) = Cardinality(CountedBelow(d)) + Cardinality(P)
<1> DEFINE Q == {Place(d, i) : i \in P}
           f == [i \in P |-> Place(d, i)]
<1>1. IsFiniteSet(P)
  BY PartsAre, FS_Subset
<1>2. f \in Bijection(P, Q)
  <2>1. f \in Surjection(P, Q)
    BY DEF Surjection
  <2>2. \A i, k \in P : f[i] = f[k] => i = k
    BY PlaceIs
  <2>3. f \in Injection(P, Q)
    BY <2>2 DEF Injection, IsInjective
  <2> QED
    BY <2>1, <2>3 DEF Bijection
<1>3. IsFiniteSet(Q) /\ Cardinality(Q) = Cardinality(P)
  <2> HIDE DEF f, Q
  <2>1. ExistsBijection(P, Q)
    BY <1>2 DEF ExistsBijection
  <2> QED
    BY <1>1, <2>1, FS_Bijection
<1>4. CountedBelow(d) \cap Q = {}
  <2>1. ASSUME NEW q \in Q PROVE q.drive = d
    BY PlaceIs
  <2>2. d \in Int
    BY Constants DEF Drives
  <2>3. \A q \in Q : ~ (q.drive < d)
    BY ONLY <2>1, <2>2
  <2> HIDE DEF Q
  <2> QED
    BY <2>3 DEF CountedBelow
<1> HIDE DEF Q
<1>5. Cardinality(CountedBelow(d) \cup Q) = Cardinality(CountedBelow(d)) + Cardinality(Q) - Cardinality({})
  BY <1>3, <1>4, BelowFinite, FS_Union
<1>6. Cardinality({}) = 0
  BY FS_EmptySet
<1>7. Cardinality(Q) \in Nat
  BY <1>3, FS_CardinalityType
<1>8. Cardinality(CountedBelow(d) \cup Q) = Cardinality(CountedBelow(d)) + Cardinality(P)
  BY ONLY <1>3, <1>5, <1>6, <1>7, BelowFinite
<1> QED
  BY <1>8 DEF Q

\* A place that is counted is a part of its drive.
LEMMA OfDrive ==
    ASSUME NEW q \in Counted
    PROVE  q.drive \in Drives /\ q.entry \in Parts(q.drive) /\ q = Place(q.drive, q.entry) /\ q.drive \in Nat /\ q.entry \in Nat
<1>0. PICK d \in Drives : \E i \in Parts(d) : q = Place(d, i)
  BY CountedIs
<1>1. PICK i \in Parts(d) : q = Place(d, i)
  BY <1>0
<1>2. q.drive = d /\ q.entry = i
  BY <1>1, PlaceIs
<1>3. d \in Nat
  BY Constants DEF Drives
<1>4. i \in Nat
  BY PartsAre
<1> QED
  BY <1>1, <1>2, <1>3, <1>4

\* The next drive adds its parts.
LEMMA SizeOfNext ==
    ASSUME NEW d \in Drives
    PROVE  Cardinality(CountedBelow(d + 1)) = Cardinality(CountedBelow(d)) + Cardinality(Parts(d))
<1>1. CountedBelow(d + 1) = CountedBelow(d) \cup {Place(d, i) : i \in Parts(d)}
  <2>0. d \in Nat
    BY Constants DEF Drives
  <2>1. ASSUME NEW q \in CountedBelow(d + 1) PROVE q \in CountedBelow(d) \/ q \in {Place(d, i) : i \in Parts(d)}
    <3>1. q \in Counted /\ q.drive < d + 1
      BY DEF CountedBelow
    <3>2. q.drive < d \/ q.drive = d
      BY <2>0, <3>1, OfDrive
    <3> QED
      BY <3>1, <3>2, OfDrive DEF CountedBelow
  <2>2. ASSUME NEW q \in CountedBelow(d) PROVE q \in CountedBelow(d + 1)
    <3>1. q \in Counted /\ q.drive < d
      BY DEF CountedBelow
    <3>2. q.drive < d + 1
      BY <2>0, <3>1, OfDrive
    <3> QED
      BY <3>1, <3>2 DEF CountedBelow
  <2>3. ASSUME NEW i \in Parts(d) PROVE Place(d, i) \in CountedBelow(d + 1)
    <3>1. Place(d, i) \in Counted
      BY CountedIs
    <3>2. Place(d, i).drive < d + 1
      BY <2>0, PlaceIs
    <3> QED
      BY <3>1, <3>2 DEF CountedBelow
  <2> QED
    BY <2>1, <2>2, <2>3
<1> QED
  BY <1>1, SizeWith

(***************************************************************************)
(* The number of a place: the places of the drives before, and those before *)
(* it on its own.                                                          *)
(***************************************************************************)
LEMMA NumberIs ==
    ASSUME NEW d \in Drives, NEW i \in Parts(d)
    PROVE  NumberOf(Place(d, i)) = Cardinality(CountedBelow(d)) + Before(Parts(d), i)
<1> DEFINE P == {j \in Parts(d) : j < i}
<1>1. {q \in Counted : Earlier(q, Place(d, i))} = CountedBelow(d) \cup {Place(d, j) : j \in P}
  <2>1. ASSUME NEW q \in Counted PROVE Earlier(q, Place(d, i)) <=> q.drive < d \/ (q.drive = d /\ q.entry < i)
    BY PlaceIs DEF Earlier
  <2>2. ASSUME NEW q \in Counted, q.drive = d, q.entry < i PROVE q \in {Place(d, j) : j \in P}
    BY <2>2, OfDrive
  <2>3. ASSUME NEW j \in P PROVE Place(d, j) \in Counted /\ Place(d, j).drive = d /\ Place(d, j).entry < i
    BY CountedIs, PlaceIs
  <2> HIDE DEF P
  <2> QED
    BY <2>1, <2>2, <2>3 DEF CountedBelow
<1>2. P \in SUBSET Parts(d)
  OBVIOUS
<1>3. Before(Parts(d), i) = Cardinality(P)
  BY DEF Before
<1> HIDE DEF P
<1>4. Cardinality(CountedBelow(d) \cup {Place(d, j) : j \in P}) = Cardinality(CountedBelow(d)) + Cardinality(P)
  BY <1>2, SizeWith
<1> QED
  BY <1>1, <1>3, <1>4 DEF NumberOf

(***************************************************************************)
(* No two places have one number.                                          *)
(***************************************************************************)
LEMMA NumberIsOnce ==
    ASSUME NEW p \in Counted, NEW q \in Counted, NumberOf(p) = NumberOf(q)
    PROVE  p = q
<1>1. ASSUME NEW a \in Counted, NEW b \in Counted, Earlier(a, b) PROVE NumberOf(a) # NumberOf(b)
  <2> DEFINE low(x) == {c \in Counted : Earlier(c, x)}
  <2>1. ASSUME NEW x PROVE IsFiniteSet(low(x)) /\ Cardinality(low(x)) \in Nat
    <3>1. low(x) \in SUBSET Counted
      OBVIOUS
    <3>2. IsFiniteSet(low(x))
      BY ONLY <3>1, CountedFinite, FS_Subset
    <3> QED
      BY <3>2, FS_CardinalityType
  <2>2. low(a) \in SUBSET (low(b) \ {a})
    <3>1. ASSUME NEW c \in Counted, Earlier(c, a) PROVE Earlier(c, b) /\ c # a
      <4>1. c.drive \in Nat /\ c.entry \in Nat /\ a.drive \in Nat /\ a.entry \in Nat /\ b.drive \in Nat /\ b.entry \in Nat
        BY OfDrive
      <4> QED
        BY <4>1, <3>1, <1>1 DEF Earlier
    <3> QED
      BY <3>1
  <2>3. a \in low(b)
    BY <1>1
  <2>4. IsFiniteSet(low(b) \ {a}) /\ Cardinality(low(b) \ {a}) = Cardinality(low(b)) - 1
    <3> HIDE DEF low
    <3> QED
      BY ONLY <2>1, <2>3, FS_RemoveElement
  <2>5. Cardinality(low(a)) <= Cardinality(low(b) \ {a})
    <3> HIDE DEF low
    <3> QED
      BY ONLY <2>2, <2>4, FS_Subset
  <2>6. NumberOf(a) = Cardinality(low(a)) /\ NumberOf(b) = Cardinality(low(b))
    BY DEF NumberOf
  <2> HIDE DEF low
  <2> QED
    BY <2>1, <2>4, <2>5, <2>6
<1>2. p = q \/ Earlier(p, q) \/ Earlier(q, p)
  <2>1. p.drive \in Nat /\ p.entry \in Nat /\ q.drive \in Nat /\ q.entry \in Nat
    BY OfDrive
  <2>2. p = Place(p.drive, p.entry) /\ q = Place(q.drive, q.entry)
    BY OfDrive
  <2> QED
    BY <2>1, <2>2 DEF Earlier
<1> QED
  BY <1>1, <1>2

\* The drives that were registered: the first of this number.
Detected == IF boot \in Drives THEN boot ELSE MaxDrives
\* The place that the table has for a number.
Meant(v) == Place(volToPart[v].pd, volToPart[v].pt)

\* What the registration leaves: types, and who was found.
Registry ==
    /\ boot \in 0 .. MaxDrives + 5
    /\ misread \in BOOLEAN
    /\ drives \in Machines
    /\ DOMAIN volToPart = 0 .. MaxVolumes - 1
    /\ nextVolume \in 0 .. MaxVolumes
    /\ found = {d \in Drives : d < Detected /\ drives[d] # Absent}
    /\ DOMAIN fatFs = {v \in {0, 1} : boot > MaxDrives + v}

\* A table of MaxVolumes numbers takes no more.
Capped(n) == IF n < MaxVolumes THEN n ELSE MaxVolumes
\* While no first sector was misread the numbers go through the places in
\* order.
Numbering ==
    ~misread =>
        /\ nextVolume = Capped(Cardinality(CountedBelow(Detected)))
        /\ \A v \in 0 .. nextVolume - 1 : Meant(v) \in Counted /\ NumberOf(Meant(v)) = v

\* And what is mounted under a number is its place.
Mounting ==
    ~misread => \A v \in DOMAIN fatFs : v < nextVolume /\ fatFs[v] # Unmounted =>
                    fatFs[v] = Meant(v) /\ HoldsVolume(Meant(v))

\* The invariant of the numbers.
VolumesInv == Registry /\ Numbering /\ Mounting

(***************************************************************************)
(* A partition with a number is mounted where it is, if at all             *)
(* (fs/fatfs/ff.c:3407-3452, 3501-3517).                                   *)
(***************************************************************************)
LEMMA UnmountedIsNoPlace == Unmounted \notin Counted
<1>1. Unmounted.drive = -1
  BY PlaceIs DEF Unmounted
<1>2. -1 \notin Drives
  BY Constants DEF Drives
<1> QED
  BY <1>1, <1>2, OfDrive

\* A place on a drive with a table is a partition, on one without the drive.
LEMMA CountedKind ==
    ASSUME NEW p \in Counted
    PROVE  /\ drives[p.drive] # Absent
           /\ p.entry = 0 => drives[p.drive].sector0 # "mbr"
           /\ p.entry # 0 => drives[p.drive].sector0 = "mbr" /\ p.entry \in 1 .. Entries
<1>1. p.entry \in Parts(p.drive)
  BY OfDrive
<1>2. 0 \notin Numbered(p.drive)
  BY DEF Numbered
<1>3. \A i \in Numbered(p.drive) : i \in 1 .. Entries
  BY DEF Numbered
<1> QED
  BY <1>1, <1>2, <1>3 DEF Parts

\* A mount of a place that is counted finds that place, and it holds a volume.
LEMMA MountsThere ==
    ASSUME NEW v, NEW bad, Meant(v) \in Counted, Mountable(v, bad)
    PROVE  /\ FindVolume(volToPart[v].pd, volToPart[v].pt, bad) = volToPart[v].pt
           /\ HoldsVolume(Meant(v))
<1> DEFINE d == volToPart[v].pd
           i == volToPart[v].pt
<1>1. Meant(v).drive = d /\ Meant(v).entry = i
  BY PlaceIs DEF Meant
<1>2. /\ drives[d] # Absent
      /\ i = 0 => drives[d].sector0 # "mbr"
      /\ i # 0 => drives[d].sector0 = "mbr" /\ i \in 1 .. Entries
  BY <1>1, CountedKind
<1>3. Judged(d, FindVolume(d, i, bad), bad) < 2
  BY DEF Mountable
<1>4. CheckFs(d, 0, bad) = IF Place(d, 0) \in bad THEN 4
                           ELSE IF drives[d].sector0 = "bare" THEN 0
                           ELSE IF drives[d].sector0 = "mbr" THEN 2 ELSE 3
  BY DEF CheckFs
<1> HIDE DEF d, i
<1>5. CASE i = 0
  <2>1. FindVolume(d, i, bad) = 0
    BY <1>2, <1>4, <1>5 DEF FindVolume
  <2>2. CheckFs(d, 0, bad) < 2
    BY <1>3, <2>1 DEF Judged
  <2>3. drives[d].sector0 = "bare"
    BY <1>2, <1>4, <1>5, <2>2
  <2> QED
    BY <1>1, <1>5, <2>1, <2>3 DEF HoldsVolume, d, i
<1>6. CASE i # 0
  <2>1. drives[d].sector0 = "mbr" /\ i \in 1 .. Entries
    BY <1>2, <1>6
  <2>2. Place(d, 0) \notin bad
    <3>1. SUFFICES ASSUME Place(d, 0) \in bad PROVE FALSE
      OBVIOUS
    <3>2. FindVolume(d, i, bad) = 0
      BY <1>4, <3>1 DEF FindVolume
    <3> QED
      BY <1>3, <1>4, <3>1, <3>2 DEF Judged
  <2>3. FindVolume(d, i, bad) = i
    BY <1>4, <1>6, <2>1, <2>2 DEF FindVolume
  <2>4. CheckEntry(d, i, bad) < 2
    BY <1>3, <1>6, <2>3 DEF Judged
  <2>5. CheckFs(d, i, bad) < 2
    BY <2>4 DEF CheckEntry
  <2>6. drives[d].table[i].holds # NoVolume
    BY <1>6, <2>5 DEF CheckFs
  <2>7. VolumeAt(Meant(v)) = drives[d].table[i].holds
    BY <1>1, <2>1 DEF VolumeAt, d, i
  <2> QED
    BY <1>1, <1>6, <2>3, <2>6, <2>7 DEF HoldsVolume, d, i
<1> QED
  BY <1>5, <1>6

\* If all sectors can be read, and it holds a volume, the mount succeeds.
LEMMA MountsAll ==
    ASSUME NEW v, Meant(v) \in Counted, Meant(v).drive \in found, drives \in Machines, HoldsVolume(Meant(v))
    PROVE  Mountable(v, {})
<1> DEFINE d == volToPart[v].pd
           i == volToPart[v].pt
<1>1. Meant(v).drive = d /\ Meant(v).entry = i
  BY PlaceIs DEF Meant
<1>2. /\ drives[d] # Absent
      /\ i = 0 => drives[d].sector0 # "mbr"
      /\ i # 0 => drives[d].sector0 = "mbr" /\ i \in 1 .. Entries
  BY <1>1, CountedKind
<1>4. CheckFs(d, 0, {}) = IF drives[d].sector0 = "bare" THEN 0
                           ELSE IF drives[d].sector0 = "mbr" THEN 2 ELSE 3
  BY DEF CheckFs
<1>7. d \in Drives
  BY <1>1, OfDrive
<1> HIDE DEF d, i
<1>5. CASE i = 0
  <2>1. FindVolume(d, i, {}) = 0
    BY <1>2, <1>4, <1>5 DEF FindVolume
  <2>2. drives[d].sector0 = "bare"
    BY <1>1, <1>5 DEF HoldsVolume
  <2>3. Judged(d, FindVolume(d, i, {}), {}) < 2
    BY <1>4, <2>1, <2>2 DEF Judged
  <2> QED
    BY <1>1, <2>3 DEF Mountable, d, i
<1>6. CASE i # 0
  <2>1. drives[d].sector0 = "mbr" /\ i \in 1 .. Entries
    BY <1>2, <1>6
  <2>2. FindVolume(d, i, {}) = i
    BY <1>4, <1>6, <2>1 DEF FindVolume
  <2>3. VolumeAt(Meant(v)) = drives[d].table[i].holds
    BY <1>1, <2>1 DEF VolumeAt
  <2>4. drives[d].table[i].holds # NoVolume
    BY <1>1, <2>1, <2>3 DEF HoldsVolume
  <2>5. drives[d].table[i].start # 0
    BY ONLY <1>2, <1>7, <2>1, <2>4, drives \in Machines, MachinesAssumption
  <2>6. CheckFs(d, i, {}) = 0
    BY <1>6, <2>4 DEF CheckFs
  <2>7. Judged(d, FindVolume(d, i, {}), {}) < 2
    BY <1>6, <2>2, <2>5, <2>6 DEF Judged, CheckEntry
  <2> QED
    BY <1>1, <2>7 DEF Mountable, d, i
<1> QED
  BY <1>5, <1>6

\* Numbers and places are a matter of the drives only.
LEMMA SameDrives ==
    ASSUME drives' = drives
    PROVE  /\ Counted' = Counted
           /\ \A n : CountedBelow(n)' = CountedBelow(n)
           /\ \A p : NumberOf(p)' = NumberOf(p)
           /\ \A p : HoldsVolume(p)' = HoldsVolume(p)
<1>1. Counted' = Counted
  BY DEF Counted, Numbered
<1>2. ASSUME NEW p PROVE HoldsVolume(p)' = HoldsVolume(p)
  BY DEF HoldsVolume, VolumeAt
<1>3. ASSUME NEW n PROVE CountedBelow(n)' = CountedBelow(n)
  BY <1>1 DEF CountedBelow
<1>4. ASSUME NEW p PROVE NumberOf(p)' = NumberOf(p)
  BY <1>1 DEF NumberOf
<1> QED
  BY <1>1, <1>2, <1>3, <1>4

\* The lesser of the two.
LEMMA CappedIs ==
    ASSUME NEW n \in Nat
    PROVE  Capped(n) \in 0 .. MaxVolumes /\ Capped(n) <= n /\ (n >= MaxVolumes => Capped(n) = MaxVolumes)
                                        /\ (Capped(n) < MaxVolumes => Capped(n) = n)
BY Constants DEF Capped

\* The invariant holds at first: nothing is registered.
LEMMA InitVolumes == Init => VolumesInv
<1> SUFFICES ASSUME Init PROVE VolumesInv
  OBVIOUS
<1>1. /\ drives \in Machines /\ found = {} /\ nextVolume = 0 /\ fatFs = << >> /\ boot = 0 /\ misread = FALSE
      /\ volToPart = [v \in 0 .. MaxVolumes - 1 |-> [pd |-> 0, pt |-> 0]]
  BY DEF Init, VolumesInit
<1>2. 0 \in Drives /\ Detected = 0
  BY <1>1, Constants DEF Drives, Detected
<1>3. ~ \E d \in Drives : d < 0
  BY Constants DEF Drives
<1>4. Registry
  <2>1. {v \in {0, 1} : boot > MaxDrives + v} = {}
    BY <1>1, Constants
  <2>2. found = {d \in Drives : d < Detected /\ drives[d] # Absent}
    BY <1>1, <1>2, <1>3
  <2>3. DOMAIN fatFs = {}
    BY <1>1
  <2>4. boot \in 0 .. MaxDrives + 5 /\ nextVolume \in 0 .. MaxVolumes
    BY <1>1, Constants
  <2> QED
    BY <1>1, <2>1, <2>2, <2>3, <2>4 DEF Registry
<1>5. Cardinality(CountedBelow(0)) = 0
  <2>1. CountedBelow(0) = {}
    <3>1. ASSUME NEW p \in Counted PROVE ~ (p.drive < 0)
      BY <1>3, OfDrive
    <3> QED
      BY <3>1 DEF CountedBelow
  <2> QED
    BY <2>1, FS_EmptySet
<1>6. Numbering
  BY <1>1, <1>2, <1>5, Constants DEF Numbering, Capped
<1>7. Mounting
  BY <1>1 DEF Mounting
<1> QED
  BY <1>4, <1>6, <1>7 DEF VolumesInv

(***************************************************************************)
(* The partitions of the next drive get the next numbers (fs/fatfs.c:16).  *)
(***************************************************************************)
LEMMA NumbersOfNext ==
    ASSUME NEW d \in Drives, Registered(d, Parts(d)), drives' = drives,
           DOMAIN volToPart = 0 .. MaxVolumes - 1,
           nextVolume = Capped(Cardinality(CountedBelow(d))),
           \A v \in 0 .. nextVolume - 1 : Meant(v) \in Counted /\ NumberOf(Meant(v)) = v
    PROVE  /\ nextVolume' = Capped(Cardinality(CountedBelow(d + 1)))
           /\ \A v \in 0 .. nextVolume' - 1 : Meant(v)' \in Counted /\ NumberOf(Meant(v)') = v
<1>1. PICK c \in Nat : c = Cardinality(CountedBelow(d))
  BY BelowFinite
<1>2. PICK S \in SUBSET Nat : S = Parts(d) /\ IsFiniteSet(S)
  BY PartsAre
<1>3. PICK m \in Nat : m = Cardinality(S)
  BY <1>2, FS_CardinalityType
<1>4. Cardinality(CountedBelow(d + 1)) = c + m
  BY <1>1, <1>2, <1>3, SizeOfNext
<1>5. nextVolume = Capped(c) /\ nextVolume \in Nat
  BY <1>1, CappedIs
<1>6. nextVolume' = IF nextVolume + m < MaxVolumes THEN nextVolume + m ELSE MaxVolumes
  BY <1>2, <1>3 DEF Registered
<1>7. nextVolume' = Capped(c + m) /\ nextVolume' \in Nat
  BY ONLY <1>3, <1>5, <1>6, Constants, c \in Nat DEF Capped
<1>8. ASSUME NEW v \in 0 .. nextVolume' - 1, v < nextVolume
      PROVE  Meant(v)' = Meant(v)
  <2>1. v \in 0 .. MaxVolumes - 1
    <3>1. Capped(c) \in 0 .. MaxVolumes
      BY CappedIs
    <3>2. v \in Int /\ 0 <= v
      BY <1>7
    <3> QED
      BY <1>5, <1>8, <3>1, <3>2, Constants
  <2>2. ASSUME NEW i \in S PROVE v # nextVolume + Before(S, i)
    <3>1. Before(S, i) \in Nat
      BY <1>2, RankLess
    <3> QED
      BY <1>5, <1>8, <2>1, <3>1
  <2>3. volToPart'[v] = volToPart[v]
    BY <1>2, <2>1, <2>2 DEF Registered
  <2> QED
    BY <2>3 DEF Meant
<1>9. ASSUME NEW v \in 0 .. nextVolume' - 1, ~ (v < nextVolume)
      PROVE  Meant(v)' \in Counted /\ NumberOf(Meant(v)') = v
  <2>1. /\ v \in 0 .. MaxVolumes - 1 /\ nextVolume < MaxVolumes /\ nextVolume <= v /\ v - nextVolume < m
    BY <1>3, <1>5, <1>6, <1>9, Constants
  <2>2. nextVolume = c
    BY <1>5, <2>1, CappedIs
  <2>3. PICK n \in Nat : n = v - nextVolume
    BY <1>5, <2>1
  <2>4. PICK i \in S : n = Before(S, i)
    BY <1>2, <1>3, <2>1, <2>3, Ranks
  <2>5. v = nextVolume + Before(S, i)
    BY <1>5, <2>1, <2>3, <2>4
  <2>6. \A k \in S : v = nextVolume + Before(S, k) => k = i
    <3>1. ASSUME NEW k \in S, v = nextVolume + Before(S, k) PROVE k = i
      <4>1. Before(S, k) \in Nat
        BY <1>2, RankLess
      <4>2. Before(S, k) = Before(S, i)
        BY <1>5, <2>1, <2>3, <2>4, <3>1, <4>1
      <4> QED
        BY <1>2, <4>2, RankIsOnce
    <3> QED
      BY <3>1
  <2>7. volToPart'[v] = [pd |-> d, pt |-> CHOOSE k \in S : v = nextVolume + Before(S, k)]
    BY <1>2, <2>1, <2>5 DEF Registered
  <2>8. (CHOOSE k \in S : v = nextVolume + Before(S, k)) = i
    BY <2>5, <2>6
  <2>9. Meant(v)' = Place(d, i)
    <3>1. volToPart'[v] = [pd |-> d, pt |-> i]
      BY <2>7, <2>8
    <3>2. volToPart'[v].pd = d /\ volToPart'[v].pt = i
      BY <3>1
    <3> QED
      BY <3>2 DEF Meant
  <2>10. Place(d, i) \in Counted
    BY <1>2, CountedIs
  <2>11. NumberOf(Place(d, i)) = c + Before(S, i)
    BY <1>1, <1>2, NumberIs
  <2> QED
    BY <2>2, <2>5, <2>9, <2>10, <2>11
<1>10. ASSUME NEW v \in 0 .. nextVolume' - 1 PROVE Meant(v)' \in Counted /\ NumberOf(Meant(v)') = v
  <2>1. CASE v < nextVolume
    <3>1. v \in 0 .. nextVolume - 1
      BY <1>5, <2>1
    <3> QED
      BY <1>8, <2>1, <3>1
  <2> QED
    BY <1>9, <2>1
<1> QED
  BY <1>4, <1>7, <1>10

\* The steps after detection and the two mounts of boot.
Later ==
    /\ boot \in MaxDrives + 2 .. MaxDrives + 5 /\ boot' \in MaxDrives + 2 .. MaxDrives + 5
    /\ UNCHANGED misread
    /\ (\E named, bad : MountVolumes(named, bad)) \/ UNCHANGED volumeVars

\* A call ends in the same run, or at the prompt.
LEMMA AnswerKeepsBoot ==
    ASSUME NEW op, NEW p, NEW command, NEW bad, NEW text, boot = Running, Answered(op, p, command, bad, text)
    PROVE  boot' \in {Running, Prompt}
BY DEF Answered, LoseAll

\* A look at a path mounts something or nothing.
LEMMA VisitMounts ==
    ASSUME NEW text, NEW bad, Visit(text, bad)
    PROVE  (\E named, x : MountVolumes(named, x)) \/ UNCHANGED volumeVars
BY DEF Visit

\* The three kinds of steps: detection, the mounts of boot, and all later ones.
LEMMA StepKinds ==
    ASSUME Next
    PROVE  \/ DetectDrive
           \/ \E v \in {0, 1} : Mount(v, MaxDrives + v, MaxDrives + v + 1)
           \/ Later
<1>0. Running = MaxDrives + 4 /\ Prompt = MaxDrives + 5 /\ MaxDrives \in Nat
  BY Constants DEF Running, Prompt
<1>1. CASE Mount(0, MaxDrives, MaxDrives + 1)
  <2>1. MaxDrives + 0 = MaxDrives /\ MaxDrives + 0 + 1 = MaxDrives + 1
    BY <1>0
  <2> QED
    BY <1>1, <2>1
<1>2. CASE Mount(1, MaxDrives + 1, MaxDrives + 2)
  <2>1. MaxDrives + 1 + 1 = MaxDrives + 2
    BY <1>0
  <2> QED
    BY <1>2, <2>1
<1>3. CASE ListRoot
  <2>1. boot = MaxDrives + 2 /\ boot' = MaxDrives + 2 + 1 /\ UNCHANGED misread /\ \E bad : MountVolumes({1}, bad)
    BY <1>3 DEF ListRoot, BootStep
  <2> QED
    BY <1>0, <2>1 DEF Later
<1>4. CASE LoadFirst
  <2>1. boot = MaxDrives + 3 /\ boot' \in {Running, Prompt} /\ UNCHANGED misread /\ \E bad : MountVolumes({1}, bad)
    BY <1>4 DEF LoadFirst
  <2> QED
    BY <1>0, <2>1 DEF Later
<1>5. ASSUME NEW op, SystemCall(op) PROVE Later
  <2>1. PICK p, text, bad : Visit(text, bad) /\ Answered(op, p, FALSE, bad, text)
    BY <1>5 DEF SystemCall
  <2>2. boot = Running /\ UNCHANGED misread
    BY <1>5 DEF SystemCall
  <2>3. boot' \in {Running, Prompt}
    BY <2>1, <2>2, AnswerKeepsBoot
  <2>4. (\E named, x : MountVolumes(named, x)) \/ UNCHANGED volumeVars
    BY <2>1, VisitMounts
  <2> QED
    BY <1>0, <2>2, <2>3, <2>4 DEF Later
<1>6. CASE SysExit
  <2>1. boot = Running /\ boot' \in {Running, Prompt} /\ UNCHANGED misread /\ UNCHANGED volumeVars
    BY <1>6 DEF SysExit
  <2> QED
    BY <1>0, <2>1 DEF Later
<1>7. CASE ShellExec
  <2>1. boot = Running /\ UNCHANGED misread
    BY <1>7 DEF ShellExec
  <2>2. PICK p, names, texts, bad : RunFirst(p, names, texts, bad)
    BY <1>7 DEF ShellExec
  <2>3. \E named : MountVolumes(named, bad)
    BY <2>2 DEF RunFirst
  <2>4. boot' \in {Running, Prompt}
    <3>1. \/ LoseAll("exec", p, TRUE, bad)
          \/ UNCHANGED boot
          \/ \E left : Answered("exec", p, TRUE, bad, PathResolve(Cwd, names[Cardinality(Tried(texts, bad))], left))
      BY <2>2 DEF RunFirst
    <3>2. CASE LoseAll("exec", p, TRUE, bad)
      BY <3>2 DEF LoseAll
    <3>3. CASE UNCHANGED boot
      BY <2>1, <3>3
    <3>4. CASE \E left : Answered("exec", p, TRUE, bad, PathResolve(Cwd, names[Cardinality(Tried(texts, bad))], left))
      BY <2>1, <3>4, AnswerKeepsBoot
    <3> QED
      BY <3>1, <3>2, <3>3, <3>4
  <2> QED
    BY <1>0, <2>1, <2>3, <2>4 DEF Later
<1>8. CASE Idle
  <2>1. boot = Prompt /\ boot' = Prompt /\ UNCHANGED misread /\ UNCHANGED volumeVars
    BY <1>8 DEF Idle, vars
  <2> QED
    BY <1>0, <2>1 DEF Later
<1> QED
  BY <1>1, <1>2, <1>3, <1>4, <1>5, <1>6, <1>7, <1>8 DEF Next, SysChDir, SysOpenDir, SysStat, SysOpen, SysExec

\* A number in use means a place that is counted.
LEMMA MeantCounted ==
    ASSUME Registry, Numbering, ~misread, NEW v \in {0, 1}, v < nextVolume
    PROVE  Meant(v) \in Counted /\ NumberOf(Meant(v)) = v
<1>1. v \in 0 .. nextVolume - 1
  BY Constants DEF Registry
<1> QED
  BY <1>1 DEF Numbering

\* Nothing is detected any more.
LEMMA DetectedAll ==
    ASSUME NEW n \in Nat, n >= MaxDrives
    PROVE  n \notin Drives
BY Constants DEF Drives

\* Later steps leave the table as it is.
LEMMA RegistryKept ==
    ASSUME VolumesInv, drives' = drives, UNCHANGED <<found, volToPart, nextVolume, misread>>,
           NEW a \in Nat, NEW b \in Nat, boot = a, boot' = b, MaxDrives <= a, MaxDrives <= b, b <= MaxDrives + 5,
           DOMAIN fatFs' = {v \in {0, 1} : b > MaxDrives + v}
    PROVE  Registry' /\ Numbering' /\ \A v : Meant(v)' = Meant(v)
<1>1. Detected = MaxDrives /\ Detected' = MaxDrives
  BY DetectedAll DEF Detected
<1>2. b \in 0 .. MaxDrives + 5
  BY Constants
<1>3. Drives' = Drives
  BY DEF Drives
<1>4. Registry'
  BY <1>1, <1>2, <1>3 DEF VolumesInv, Registry
<1>5. \A v : Meant(v)' = Meant(v)
  BY DEF Meant
<1>6. Numbering'
  <2>1. SUFFICES ASSUME ~misread'
                 PROVE  /\ nextVolume' = Capped(Cardinality(CountedBelow(Detected)'))
                        /\ \A v \in 0 .. nextVolume' - 1 : Meant(v)' \in Counted' /\ NumberOf(Meant(v))' = v
    BY DEF Numbering, Capped
  <2>2. CountedBelow(Detected)' = CountedBelow(Detected)
    BY <1>1, SameDrives DEF CountedBelow
  <2>3. \A v : NumberOf(Meant(v))' = NumberOf(Meant(v))
    BY <1>5, SameDrives DEF NumberOf
  <2> QED
    BY <1>5, <2>1, <2>2, <2>3, SameDrives DEF VolumesInv, Numbering
<1> QED
  BY <1>4, <1>5, <1>6

\* Mounted under a number is its place, or nothing (fs/fatfs/ff.c:3478-3518).
LEMMA MountedIs ==
    ASSUME VolumesInv, ~misread, NEW v \in DOMAIN fatFs, v < nextVolume, NEW bad, MountedAt(v, bad) # Unmounted
    PROVE  MountedAt(v, bad) = Meant(v) /\ HoldsVolume(Meant(v))
<1>1. v \in {0, 1}
  BY DEF VolumesInv, Registry
<1>2. Meant(v) \in Counted
  BY <1>1, MeantCounted DEF VolumesInv
<1>3. CASE fatFs[v] # Unmounted
  BY <1>3 DEF VolumesInv, Mounting, MountedAt
<1>4. CASE fatFs[v] = Unmounted
  <2>1. Mountable(v, bad) /\ MountedAt(v, bad) = Place(volToPart[v].pd, FindVolume(volToPart[v].pd, volToPart[v].pt, bad))
    BY <1>4 DEF MountedAt
  <2> QED
    BY <1>2, <2>1, MountsThere DEF Meant
<1> QED
  BY <1>3, <1>4

\* The mounts go on being right if each new one is.
LEMMA MountingKept ==
    ASSUME drives' = drives, \A v : Meant(v)' = Meant(v), UNCHANGED <<misread, nextVolume>>,
           ~misread => \A v \in DOMAIN fatFs' : v < nextVolume /\ fatFs'[v] # Unmounted =>
                           fatFs'[v] = Meant(v) /\ HoldsVolume(Meant(v))
    PROVE  Mounting'
<1>1. \A v : HoldsVolume(Meant(v))' = HoldsVolume(Meant(v))
  BY SameDrives DEF HoldsVolume, VolumeAt
<1>2. Unmounted' = Unmounted
  BY DEF Unmounted, Place
<1> QED
  BY <1>1, <1>2 DEF Mounting

\* Later steps keep the invariant.
LEMMA LaterVolumes == VolumesInv /\ Later => VolumesInv'
<1> SUFFICES ASSUME VolumesInv, Later PROVE VolumesInv'
  OBVIOUS
<1>1. drives' = drives /\ UNCHANGED <<found, volToPart, nextVolume, misread>>
  BY DEF Later, MountVolumes, volumeVars
<1>2. PICK a \in Nat, b \in Nat : boot = a /\ boot' = b /\ MaxDrives + 2 <= a /\ MaxDrives + 2 <= b /\ b <= MaxDrives + 5
  BY Constants DEF Later
<1>3. DOMAIN fatFs = {0, 1} /\ {v \in {0, 1} : b > MaxDrives + v} = {0, 1}
  BY <1>2, Constants DEF VolumesInv, Registry
<1>4. DOMAIN fatFs' = DOMAIN fatFs
  BY DEF Later, MountVolumes, volumeVars
<1>5. Registry' /\ Numbering' /\ \A v : Meant(v)' = Meant(v)
  <2>1. MaxDrives <= a /\ MaxDrives <= b
    BY <1>2, Constants
  <2> QED
    BY <1>1, <1>2, <1>3, <1>4, <2>1, RegistryKept
<1>6. ASSUME ~misread, NEW v \in DOMAIN fatFs', v < nextVolume, fatFs'[v] # Unmounted
      PROVE  fatFs'[v] = Meant(v) /\ HoldsVolume(Meant(v))
  <2>1. v \in DOMAIN fatFs
    BY <1>4
  <2>2. CASE UNCHANGED volumeVars
    BY <1>6, <2>1, <2>2 DEF VolumesInv, Mounting, volumeVars
  <2>3. ASSUME NEW named, NEW bad, MountVolumes(named, bad) PROVE fatFs'[v] = Meant(v) /\ HoldsVolume(Meant(v))
    <3>1. fatFs'[v] = IF v \in named THEN MountedAt(v, bad) ELSE fatFs[v]
      BY <2>1, <2>3 DEF MountVolumes
    <3>2. CASE v \in named
      BY <1>6, <2>1, <3>1, <3>2, MountedIs
    <3>3. CASE v \notin named
      BY <1>6, <2>1, <3>1, <3>3 DEF VolumesInv, Mounting
    <3> QED
      BY <3>2, <3>3
  <2> QED
    BY <2>2, <2>3 DEF Later
<1>7. Mounting'
  BY <1>1, <1>5, <1>6, MountingKept
<1> QED
  BY <1>5, <1>7 DEF VolumesInv

\* The two mounts of boot keep it (kernel/kernel.c:93-96).
LEMMA MountVolumesInv ==
    ASSUME VolumesInv, NEW v \in {0, 1}, Mount(v, MaxDrives + v, MaxDrives + v + 1)
    PROVE  VolumesInv'
<1>1. PICK bad : FMount(v, bad)
  BY DEF Mount
<1>2. drives' = drives /\ UNCHANGED <<found, volToPart, nextVolume, misread>>
  BY <1>1 DEF FMount, Mount
<1>3. boot = MaxDrives + v /\ boot' = MaxDrives + v + 1
  BY DEF Mount, BootStep
<1>4. PICK a \in Nat, b \in Nat : boot = a /\ boot' = b /\ a = MaxDrives + v /\ b = MaxDrives + v + 1
  BY <1>3, Constants
<1>5. MaxDrives <= a /\ MaxDrives <= b /\ b <= MaxDrives + 5
  BY <1>4, Constants
<1>6. DOMAIN fatFs = {w \in {0, 1} : w < v} /\ {w \in {0, 1} : b > MaxDrives + w} = {w \in {0, 1} : w < v} \cup {v}
  <2>1. \A w \in {0, 1} : (a > MaxDrives + w <=> w < v) /\ (b > MaxDrives + w <=> (w < v \/ w = v))
    BY <1>4, Constants
  <2>2. DOMAIN fatFs = {w \in {0, 1} : a > MaxDrives + w}
    BY <1>4 DEF VolumesInv, Registry
  <2> QED
    BY <2>1, <2>2
<1>7. DOMAIN fatFs' = DOMAIN fatFs \cup {v}
  BY <1>1 DEF FMount
<1>8. Registry' /\ Numbering' /\ \A w : Meant(w)' = Meant(w)
  BY <1>2, <1>4, <1>5, <1>6, <1>7, RegistryKept
<1>9. ASSUME ~misread, NEW w \in DOMAIN fatFs', w < nextVolume, fatFs'[w] # Unmounted
      PROVE  fatFs'[w] = Meant(w) /\ HoldsVolume(Meant(w))
  <2>1. fatFs'[w] = IF w # v THEN fatFs[w]
                    ELSE IF Mountable(v, bad)
                    THEN Place(volToPart[v].pd, FindVolume(volToPart[v].pd, volToPart[v].pt, bad))
                    ELSE Unmounted
    BY <1>1, <1>7 DEF FMount
  <2>2. CASE w = v
    <3>1. Mountable(v, bad) /\ fatFs'[v] = Place(volToPart[v].pd, FindVolume(volToPart[v].pd, volToPart[v].pt, bad))
      BY <1>9, <2>1, <2>2
    <3>2. Meant(v) \in Counted
      BY <1>9, <2>2, MeantCounted DEF VolumesInv
    <3> QED
      BY <2>2, <3>1, <3>2, MountsThere DEF Meant
  <2>3. CASE w # v
    BY <1>7, <1>9, <2>1, <2>3 DEF VolumesInv, Mounting
  <2> QED
    BY <2>2, <2>3
<1>10. Mounting'
  BY <1>2, <1>8, <1>9, MountingKept
<1> QED
  BY <1>8, <1>10 DEF VolumesInv

\* The detection of a drive keeps it (kernel/kernel.c:32-37).
LEMMA DetectVolumesInv ==
    ASSUME VolumesInv, DetectDrive
    PROVE  VolumesInv'
<1>1. PICK d \in Drives : boot = d
  BY DEF DetectDrive
<1>2. d \in Nat /\ d < MaxDrives /\ d + 1 <= MaxDrives
  BY Constants DEF Drives
<1>3. PICK bad \in {{}, {Place(d, 0)}} :
          Detect(d, bad) /\ misread' = (misread \/ (drives[d] # Absent /\ bad # {}))
  BY <1>1 DEF DetectDrive
<1>4. boot' = d + 1 /\ drives' = drives /\ fatFs' = fatFs
  BY <1>1, <1>3 DEF DetectDrive, BootStep, Detect
<1>5. Detected = d /\ Detected' = d + 1
  <2>1. Drives' = Drives
    BY DEF Drives
  <2>2. d + 1 \notin Drives => d + 1 = MaxDrives
    BY <1>2, Constants DEF Drives
  <2> QED
    BY <1>1, <1>4, <2>1, <2>2 DEF Detected
<1>6. DOMAIN fatFs = {}
  <2>1. \A v \in {0, 1} : ~ (d > MaxDrives + v)
    BY <1>2, Constants
  <2> QED
    BY <1>1, <2>1 DEF VolumesInv, Registry
<1>7. /\ found' = IF drives[d] = Absent THEN found ELSE found \cup {d}
      /\ DOMAIN volToPart' = 0 .. MaxVolumes - 1
      /\ nextVolume' \in 0 .. MaxVolumes
  <2>1. CASE drives[d] = Absent
    BY <1>3, <2>1 DEF Detect, VolumesInv, Registry
  <2>2. CASE drives[d] # Absent
    <3>1. PICK P : found' = found \cup {d} /\ Registered(d, P) /\ P \in {Numbered(d), {0}}
      BY <1>3, <2>2 DEF Detect
    <3>2. DOMAIN volToPart' = DOMAIN volToPart
      BY <3>1 DEF Registered
    <3>3. IsFiniteSet(P)
      <4>1. Numbered(d) \in SUBSET (1 .. Entries) /\ IsFiniteSet(1 .. Entries)
        BY Constants, FS_Interval DEF Numbered
      <4>2. IsFiniteSet(Numbered(d))
        BY ONLY <4>1, FS_Subset
      <4>3. IsFiniteSet({0})
        BY FS_Singleton
      <4> QED
        BY <3>1, <4>2, <4>3
    <3>4. PICK n \in Nat : n = Cardinality(P)
      BY <3>3, FS_CardinalityType
    <3>5. nextVolume' = IF nextVolume + n < MaxVolumes THEN nextVolume + n ELSE MaxVolumes
      BY <3>1, <3>4 DEF Registered
    <3>6. nextVolume' \in 0 .. MaxVolumes
      BY <3>4, <3>5, Constants DEF VolumesInv, Registry
    <3> QED
      BY <2>2, <3>1, <3>2, <3>6 DEF VolumesInv, Registry
  <2> QED
    BY <2>1, <2>2
<1>8. Registry'
  <2>1. found' = {e \in Drives : e < d + 1 /\ drives[e] # Absent}
    <3>1. found = {e \in Drives : e < d /\ drives[e] # Absent}
      BY <1>5 DEF VolumesInv, Registry
    <3>2. \A e \in Drives : e < d + 1 <=> (e < d \/ e = d)
      BY <1>2, Constants DEF Drives
    <3> QED
      BY <1>7, <3>1, <3>2
  <2>2. \A v \in {0, 1} : ~ (d + 1 > MaxDrives + v)
    BY <1>2, Constants
  <2>3. d + 1 \in 0 .. MaxDrives + 5 /\ misread' \in BOOLEAN
    BY <1>2, <1>3, Constants DEF VolumesInv, Registry
  <2>4. Drives' = Drives
    BY DEF Drives
  <2>5. DOMAIN fatFs' = {v \in {0, 1} : d + 1 > MaxDrives + v}
    BY <1>4, <1>6, <2>2
  <2>6. found' = {e \in Drives : e < Detected' /\ drives'[e] # Absent}
    BY <1>4, <1>5, <2>1
  <2> QED
    BY <1>4, <1>7, <2>3, <2>4, <2>5, <2>6 DEF VolumesInv, Registry
<1>9. Mounting'
  BY <1>4, <1>6 DEF Mounting
<1>10. Numbering'
  <2>1. SUFFICES ASSUME ~misread'
                 PROVE  /\ nextVolume' = Capped(Cardinality(CountedBelow(Detected)'))
                        /\ \A v \in 0 .. nextVolume' - 1 : Meant(v)' \in Counted' /\ NumberOf(Meant(v))' = v
    BY DEF Numbering, Capped
  <2>2. ~misread /\ (drives[d] # Absent => bad = {})
    BY <1>3, <2>1 DEF VolumesInv, Registry
  <2>3. CountedBelow(Detected)' = CountedBelow(d + 1) /\ Counted' = Counted
    BY <1>4, <1>5, SameDrives DEF CountedBelow
  <2>4. \A v : NumberOf(Meant(v))' = NumberOf(Meant(v)')
    BY <1>4, SameDrives DEF NumberOf
  <2>5. /\ nextVolume = Capped(Cardinality(CountedBelow(d)))
        /\ \A v \in 0 .. nextVolume - 1 : Meant(v) \in Counted /\ NumberOf(Meant(v)) = v
    BY <1>5, <2>2 DEF VolumesInv, Numbering
  <2>6. CASE drives[d] = Absent
    <3>1. Cardinality(CountedBelow(d + 1)) = Cardinality(CountedBelow(d)) + 0
      <4>1. Parts(d) = {}
        BY <2>6 DEF Parts
      <4> QED
        BY <4>1, SizeOfNext, FS_EmptySet
    <3>2. Cardinality(CountedBelow(d + 1)) = Cardinality(CountedBelow(d))
      BY <3>1, BelowFinite
    <3>3. nextVolume' = nextVolume /\ volToPart' = volToPart
      BY <1>3, <2>6 DEF Detect
    <3>4. \A v : Meant(v)' = Meant(v)
      BY <3>3 DEF Meant
    <3> QED
      BY <2>3, <2>4, <2>5, <3>2, <3>3, <3>4
  <2>7. CASE drives[d] # Absent
    <3>1. bad = {}
      BY <2>2, <2>7
    <3>2. MBRRead(d, bad) <=> drives[d].sector0 = "mbr"
      BY <3>1 DEF MBRRead
    <3>3. Registered(d, Parts(d))
      BY <1>3, <2>7, <3>2 DEF Detect, Parts
    <3>4. DOMAIN volToPart = 0 .. MaxVolumes - 1
      BY DEF VolumesInv, Registry
    <3>5. /\ nextVolume' = Capped(Cardinality(CountedBelow(d + 1)))
          /\ \A v \in 0 .. nextVolume' - 1 : Meant(v)' \in Counted /\ NumberOf(Meant(v)') = v
      BY <1>4, <2>5, <3>3, <3>4, NumbersOfNext
    <3> QED
      BY <2>3, <2>4, <3>5
  <2> QED
    BY <2>6, <2>7
<1> QED
  BY <1>8, <1>9, <1>10 DEF VolumesInv

\* Every step keeps it.
LEMMA StepVolumes == VolumesInv /\ [Next]_vars => VolumesInv'
<1> SUFFICES ASSUME VolumesInv, [Next]_vars PROVE VolumesInv'
  OBVIOUS
<1>1. CASE DetectDrive
  BY <1>1, DetectVolumesInv
<1>2. ASSUME NEW v \in {0, 1}, Mount(v, MaxDrives + v, MaxDrives + v + 1) PROVE VolumesInv'
  BY <1>2, MountVolumesInv
<1>3. CASE Later
  BY <1>3, LaterVolumes
<1>4. CASE UNCHANGED vars
  <2>1. /\ UNCHANGED <<drives, found, volToPart, nextVolume, fatFs>>
        /\ UNCHANGED <<boot, misread>>
    BY <1>4 DEF vars, volumeVars
  <2>2. Detected' = Detected /\ Drives' = Drives
    BY <2>1 DEF Detected, Drives
  <2>3. Registry'
    BY <2>1, <2>2 DEF VolumesInv, Registry
  <2>4. \A v : Meant(v)' = Meant(v)
    BY <2>1 DEF Meant
  <2>5. Numbering'
    <3>1. SUFFICES ASSUME ~misread'
                   PROVE  /\ nextVolume' = Capped(Cardinality(CountedBelow(Detected)'))
                          /\ \A v \in 0 .. nextVolume' - 1 : Meant(v)' \in Counted' /\ NumberOf(Meant(v))' = v
      BY DEF Numbering, Capped
    <3>2. CountedBelow(Detected)' = CountedBelow(Detected)
      BY <2>1, <2>2, SameDrives DEF CountedBelow
    <3>3. \A v : NumberOf(Meant(v))' = NumberOf(Meant(v))
      BY <2>1, <2>4, SameDrives DEF NumberOf
    <3> QED
      BY <2>1, <2>4, <3>1, <3>2, <3>3, SameDrives DEF VolumesInv, Numbering
  <2>6. Mounting'
    BY <2>1, <2>4, MountingKept DEF VolumesInv, Mounting
  <2> QED
    BY <2>3, <2>5, <2>6 DEF VolumesInv
<1> QED
  BY <1>1, <1>2, <1>3, <1>4, StepKinds

\* The invariant of the numbers holds always.
LEMMA SpecVolumes == Spec => []VolumesInv
BY InitVolumes, StepVolumes, PTL DEF Spec

(***************************************************************************)
(* The volume of a path is its own, or that of the directory               *)
(* (kernel/path.c:51).                                                     *)
(***************************************************************************)
VolumeOf(here, path) == IF path.volume = "" THEN here.volume ELSE path.volume
\* A text that names its volume.
Lettered(volume) == volume # ""

\* A named volume takes two characters.
LEMMA LetteredIs ==
    ASSUME NEW volume, Lettered(volume)
    PROVE  VolumeSize(volume) = 2
BY Zenon DEF Lettered, VolumeSize

\* The volume of a path in a directory that names its own.
LEMMA VolumeOfIs ==
    ASSUME NEW here, NEW path
    PROVE  /\ Lettered(here.volume) => Lettered(VolumeOf(here, path))
           /\ Lettered(path.volume) => VolumeOf(here, path) = path.volume
BY Zenon DEF VolumeOf, Lettered

\* PathResolve is these steps, one after the other.
LEMMA ResolveIs ==
    ASSUME NEW here, NEW path, NEW left
    PROVE  PathResolve(here, path, left) = Answer(VolumeOf(here, path), Parsed(Joined(here, path), left), left)
BY Zenon DEF PathResolve, VolumeOf

\* The joined text, when it has room and when it has not.
LEMMA JoinedIs ==
    ASSUME NEW here, NEW path, NEW q \in Pieces,
           q = IF IsRooted(path.pieces) THEN path.pieces ELSE here.pieces \o path.pieces
    PROVE  /\ Joined(here, path) = Cut(q, PathMax - 1)
           /\ Names!Size(q) <= PathMax => Joined(here, path) = q
<1>1. Joined(here, path) = Cut(q, PathMax - 1)
  BY DEF Joined
<1>2. PathMax - 1 \in Nat /\ PathMax - 1 + 1 = PathMax
  BY Limits
<1>3. Names!Size(q) <= PathMax => Cut(q, PathMax - 1) = q
  BY <1>2, CutWhole
<1> QED
  BY <1>1, <1>3

(***************************************************************************)
(* The slots of the parts that are kept hold something (kernel/path.c:42). *)
(***************************************************************************)
Filled(work) == \A i \in 1 .. work.depth : work.slots[i] # << >>

\* A piece that is kept is something.
LEMMA PushFills ==
    ASSUME NEW work \in Works, Filled(work), NEW piece \in Word
    PROVE  Filled(Push(work, piece))
<1>1. CASE work.refused \/ piece \in {<< >>, Dot}
  BY <1>1 DEF Push
<1>2. CASE ~ (work.refused \/ piece \in {<< >>, Dot}) /\ piece = DotDot
  <2>1. PICK d \in 0 .. MaxParts : d = (IF work.depth > 0 THEN work.depth - 1 ELSE 0) /\ d <= work.depth
    BY Limits DEF Works
  <2>2. Push(work, piece) = [work EXCEPT !.depth = d]
    BY <1>2, <2>1 DEF Push
  <2>3. Push(work, piece).depth = d /\ Push(work, piece).slots = work.slots
    BY <2>2 DEF Works
  <2>4. work.depth \in Nat
    BY Limits DEF Works
  <2> QED
    BY <2>1, <2>3, <2>4 DEF Filled
<1>3. CASE ~ (work.refused \/ piece \in {<< >>, Dot}) /\ piece # DotDot /\ work.depth >= MaxParts
  <2>1. Push(work, piece) = [work EXCEPT !.refused = TRUE]
    BY <1>3 DEF Push
  <2> QED
    BY <2>1 DEF Filled, Works
<1>4. CASE ~ (work.refused \/ piece \in {<< >>, Dot}) /\ piece # DotDot /\ ~ (work.depth >= MaxParts)
  <2>1. PICK clip \in Word : clip = Clipped(piece, PartSize - 1)
    BY ClippedIs, Limits
  <2>2. clip # << >>
    <3>1. Len(clip) = IF PartSize - 1 < 0 THEN 0 ELSE IF PartSize - 1 < Len(piece) THEN PartSize - 1 ELSE Len(piece)
      BY <2>1, ClippedIs, Limits
    <3>2. Len(piece) \in Nat /\ Len(piece) # 0
      BY <1>4, EmptyWord
    <3>3. Len(clip) # 0
      BY <3>1, <3>2, Limits
    <3> QED
      BY <3>3, EmptyWord
  <2>3. PICK d \in Nat, slots \in [1 .. MaxParts -> Word] : d = work.depth /\ slots = work.slots /\ d < MaxParts
    BY <1>4, Limits DEF Works
  <2>4. Push(work, piece) = [refused |-> work.refused, depth |-> d + 1, slots |-> [slots EXCEPT ![d + 1] = clip]]
    BY <1>4, <2>1, <2>3 DEF Push, Works
  <2>5. Push(work, piece).depth = d + 1 /\ Push(work, piece).slots = [slots EXCEPT ![d + 1] = clip]
    BY <2>4
  <2>6. ASSUME NEW i \in 1 .. d + 1 PROVE [slots EXCEPT ![d + 1] = clip][i] # << >>
    <3>1. i \in 1 .. MaxParts
      BY <2>3, Limits
    <3>2. CASE i = d + 1
      BY <2>2, <3>1, <3>2
    <3>3. CASE i # d + 1
      <4>1. i \in 1 .. d
        BY <3>3
      <4> QED
        BY <2>3, <3>1, <3>3, <4>1 DEF Filled
    <3> QED
      BY <3>2, <3>3
  <2> QED
    BY <2>5, <2>6 DEF Filled
<1> QED
  BY <1>1, <1>2, <1>3, <1>4

\* So are all parts of a text.
LEMMA ParsedFills ==
    ASSUME NEW pieces \in Pieces, NEW left \in Word
    PROVE  Parsed(pieces, left) \in Works /\ Filled(Parsed(pieces, left))
<1>1. PICK f \in [0 .. Len(pieces) -> Works] :
          /\ f[0] = Fresh(left)
          /\ \A i \in 1 .. Len(pieces) : f[i] = Push(f[i - 1], pieces[i])
          /\ Parsed(pieces, left) = f[Len(pieces)]
  BY ParsedIs
<1>2. PICK n \in Nat : n = Len(pieces)
  BY LenIs
<1> DEFINE set == {k \in Nat : k <= n => Filled(f[k])}
<1>3. 0 \in set
  <2>1. Fresh(left).depth = 0
    BY DEF Fresh
  <2> QED
    BY <1>1, <2>1 DEF Filled
<1>4. ASSUME NEW i \in 1 .. n, i - 1 \in set PROVE i \in set
  <2>1. i - 1 \in 0 .. n /\ i - 1 <= n /\ i \in Nat
    OBVIOUS
  <2>2. f[i - 1] \in Works /\ Filled(f[i - 1])
    BY <1>1, <1>2, <1>4, <2>1
  <2>3. pieces[i] \in Word
    BY <1>2, PieceIs
  <2>4. Filled(f[i])
    BY <1>1, <1>2, <2>2, <2>3, PushFills
  <2> QED
    BY <2>1, <2>4
<1> HIDE DEF set
<1>5. \A i \in 0 .. n : i \in set
  BY <1>3, <1>4, ClimbTo
<1>6. Filled(f[n])
  BY <1>5 DEF set
<1> QED
  BY <1>1, <1>2, <1>6

(***************************************************************************)
(* What is read of the slots that hold something is something              *)
(* (kernel/path.c:59).                                                     *)
(***************************************************************************)
LEMMA ReadSome ==
    ASSUME NEW slots \in [1 .. MaxParts -> Word], NEW left \in Word, NEW i \in 1 .. MaxParts
    PROVE  /\ PartsRead(slots, left)[i] \in Word
           /\ slots[i] # << >> => PartsRead(slots, left)[i] # << >>
<1>1. PICK f : Reads(f, slots, left)
  BY PartsReadAre
<1>2. PICK n \in Nat : n = MaxParts
  BY Limits
<1> DEFINE set == {k \in Nat : f[n + 1 - k] \in Word}
<1>3. 0 \in set
  BY <1>1, <1>2 DEF Reads
<1>4. \A s, t : s \in Word /\ t \in Word => s \o t \in Word /\ Len(s \o t) = Len(s) + Len(t)
  BY ConcatProperties DEF Word
<1>5. ASSUME NEW k \in 1 .. n, k - 1 \in set PROVE k \in set
  <2>1. PICK j \in 1 .. n : j = n + 1 - k
    OBVIOUS
  <2>2. f[j + 1] \in Word
    <3>1. j + 1 = n + 1 - (k - 1)
      BY <2>1
    <3> QED
      BY <1>5, <3>1
  <2>3. slots[j] \in Word
    BY <1>2
  <2>4. f[j] = slots[j] \/ f[j] = slots[j] \o left \o f[j + 1]
    BY <1>1, <1>2 DEF Reads
  <2>5. f[j] \in Word
    BY <1>4, <2>2, <2>3, <2>4
  <2> QED
    BY <2>1, <2>5
<1>6. \A j \in 1 .. n + 1 : f[j] \in Word
  <2> HIDE DEF set
  <2>1. \A k \in 0 .. n : k \in set
    BY <1>3, <1>5, ClimbTo
  <2>2. ASSUME NEW j \in 1 .. n + 1 PROVE f[j] \in Word
    <3>1. n + 1 - j \in 0 .. n /\ n + 1 - (n + 1 - j) = j
      OBVIOUS
    <3> QED
      BY <2>1, <3>1 DEF set
  <2> QED
    BY <2>2
<1>7. slots[i] # << >> => f[i] # << >>
  <2>1. f[i] = slots[i] \/ f[i] = slots[i] \o left \o f[i + 1]
    BY <1>1 DEF Reads
  <2>2. slots[i] \in Word /\ f[i + 1] \in Word
    <3>1. i + 1 \in 1 .. n + 1
      BY <1>2
    <3> QED
      BY <1>6, <3>1
  <2>3. ASSUME slots[i] # << >> PROVE slots[i] \o left \o f[i + 1] # << >>
    <3>1. slots[i] \o left \in Word /\ Len(slots[i] \o left) = Len(slots[i]) + Len(left)
      BY <1>4, <2>2
    <3>2. Len(slots[i] \o left \o f[i + 1]) = Len(slots[i]) + Len(left) + Len(f[i + 1])
      BY <1>4, <2>2, <3>1
    <3>3. Len(slots[i]) # 0 /\ Len(slots[i]) \in Nat /\ Len(left) \in Nat /\ Len(f[i + 1]) \in Nat
      BY <2>2, <2>3, EmptyWord
    <3>4. Len(slots[i] \o left \o f[i + 1]) # 0
      <4>1. PICK a \in Nat, b \in Nat, c \in Nat : a = Len(slots[i]) /\ b = Len(left) /\ c = Len(f[i + 1])
        BY <3>3
      <4>2. Len(slots[i] \o left \o f[i + 1]) = a + b + c /\ a # 0 /\ a \in Nat /\ b \in Nat /\ c \in Nat
        BY <3>2, <3>3, <4>1
      <4> QED
        BY ONLY <4>2
    <3> QED
      BY <3>4, NoPieces
  <2> QED
    BY <2>1, <2>3
<1> QED
  BY <1>1, <1>2, <1>6, <1>7 DEF Reads

\* The parts that are read back, as a sequence.
LEMMA ReadParts ==
    ASSUME NEW slots \in [1 .. MaxParts -> Word], NEW left \in Word, NEW d \in 0 .. MaxParts,
           \A i \in 1 .. d : slots[i] # << >>
    PROVE  \E parts \in Pieces : /\ parts = SubSeq(PartsRead(slots, left), 1, d)
                                 /\ Len(parts) = d
                                 /\ \A i \in 1 .. d : parts[i] # << >>
<1>1. PICK r : r = PartsRead(slots, left)
  OBVIOUS
<1>2. d \in Nat /\ \A i \in 1 .. d : i \in 1 .. MaxParts
  BY Limits
<1>3. \A i \in 1 .. d : r[i] \in Word /\ r[i] # << >>
  BY <1>1, <1>2, ReadSome
<1>4. 1 \in Int /\ d \in Int /\ \A i \in 1 .. d : r[i] \in Word
  BY <1>2, <1>3
<1>5. /\ SubSeq(r, 1, d) \in Seq(Word)
      /\ Len(SubSeq(r, 1, d)) = IF 1 <= d THEN d - 1 + 1 ELSE 0
      /\ \A i \in 1 .. d - 1 + 1 : SubSeq(r, 1, d)[i] = r[1 + i - 1]
  BY ONLY <1>4, SubSeqProperties
<1>6. Len(SubSeq(r, 1, d)) = d /\ \A i \in 1 .. d : SubSeq(r, 1, d)[i] = r[i]
  BY <1>2, <1>5
<1> QED
  BY <1>1, <1>3, <1>5, <1>6 DEF Pieces

(***************************************************************************)
(* A text that PathResolve leaves: after the first slash one part after    *)
(* the other, of which only the last can have come to nothing.             *)
(***************************************************************************)
Shape(kept) ==
    /\ kept \in Pieces
    /\ Len(kept) <= MaxParts
    /\ 2 + Names!Size(kept) < PathMax
    /\ \A i \in 1 .. Len(kept) : i < Len(kept) => kept[i] # << >>
    /\ kept # << << >> >>

\* One empty part is the root.
LEMMA OneIs ==
    ASSUME NEW kept \in Pieces, kept = << << >> >>
    PROVE  Full(kept) = Full(<< >>)
<1>1. Full(<< >>) = << << >>, << >> >>
  <2>1. ASSUME NEW e PROVE <<e>> \o <<e>> = <<e, e>>
    <3>1. <<e>> \in Seq({e}) /\ Len(<<e>>) = 1 /\ <<e>>[1] = e
      OBVIOUS
    <3>2. <<e, e>> \in Seq({e}) /\ Len(<<e, e>>) = 2 /\ \A i \in 1 .. 2 : <<e, e>>[i] = e
      OBVIOUS
    <3>3. /\ <<e>> \o <<e>> \in Seq({e})
          /\ Len(<<e>> \o <<e>>) = Len(<<e>>) + Len(<<e>>)
      BY ONLY <3>1, ConcatProperties
    <3>4. Len(<<e>> \o <<e>>) = 2
      BY <3>1, <3>3
    <3>5. \A i \in 1 .. 2 : (<<e>> \o <<e>>)[i] = e
      BY <3>3, <3>4, ElementOfSeq
    <3> QED
      BY ONLY <3>2, <3>3, <3>4, <3>5, SeqEqual
  <2>2. Full(<< >>) = << << >> >> \o << << >> >>
    BY DEF Full
  <2> QED
    BY <2>1, <2>2
<1>2. Full(kept) = << << >> >> \o kept
  BY NoPieces, OneEmpty DEF Full
<1>3. Full(<< >>) = << << >> >> \o << << >> >>
  BY DEF Full
<1> QED
  BY <1>2, <1>3

\* The size that is written is that of the parts kept.
LEMMA SumsOf ==
    ASSUME NEW volume, VolumeSize(volume) = 2, NEW parts \in Pieces, NEW f, Wrote(f, volume, parts),
           NEW kept \in Pieces, Len(kept) = Len(parts), \A i \in 1 .. Len(parts) : kept[i] = Kept(f, parts, i)
    PROVE  \E F : Sized(F, kept) /\ \A i \in 0 .. Len(parts) : f[i].size = 2 + F[i]
<1>1. PICK n \in Nat : n = Len(parts)
  BY LenIs
<1>2. PICK F : Sized(F, kept)
  BY SizeIs
<1> DEFINE set == {i \in Nat : f[i].size = 2 + F[i]}
<1>3. 0 \in set
  BY <1>2 DEF Wrote, Started, Sized
<1>4. ASSUME NEW i \in 1 .. n, i - 1 \in set PROVE i \in set
  <2>1. PICK a \in Nat, b \in Nat, l \in Nat : a = F[i - 1] /\ b = F[i] /\ l = Len(kept[i]) /\ b = a + l + 1
    <3>1. i - 1 \in 0 .. Len(kept) /\ i \in 0 .. Len(kept) /\ i \in 1 .. Len(kept)
      BY <1>1
    <3>2. F[i - 1] \in Nat /\ F[i] \in Nat /\ F[i] = F[i - 1] + Len(kept[i]) + 1
      BY <1>2, <3>1 DEF Sized
    <3>3. Len(kept[i]) \in Nat
      BY <3>1, PieceIs
    <3> QED
      BY ONLY <3>2, <3>3
  <2>2. f[i].size = f[i - 1].size + 1 + l
    <3>1. i \in 1 .. Len(parts) /\ kept[i] = Kept(f, parts, i)
      BY <1>1
    <3>2. f[i].size = f[i - 1].size + 1 + Len(Kept(f, parts, i))
      BY ONLY <3>1, KeptIs, parts \in Pieces, Wrote(f, volume, parts)
    <3> QED
      BY <2>1, <3>1, <3>2
  <2>3. f[i - 1].size = 2 + F[i - 1]
    BY <1>4
  <2>4. i \in Nat /\ f[i].size = 2 + F[i]
    <3>1. f[i].size = (2 + a) + 1 + l
      BY <2>1, <2>2, <2>3
    <3>2. (2 + a) + 1 + l = 2 + b
      BY <2>1
    <3>3. f[i].size = 2 + F[i]
      BY <2>1, <3>1, <3>2
    <3> QED
      BY <3>3
  <2> QED
    BY <2>4
<1> HIDE DEF set
<1>5. \A i \in 0 .. n : i \in set
  BY <1>3, <1>4, ClimbTo
<1> QED
  BY <1>1, <1>2, <1>5 DEF set

\* A part is cut to nothing only where the text ends.
LEMMA KeptSome ==
    ASSUME NEW volume, VolumeSize(volume) = 2, NEW parts \in Pieces, NEW f, Wrote(f, volume, parts),
           \A i \in 1 .. Len(parts) : parts[i] # << >>,
           f[Len(parts)].size < PathMax,
           NEW kept \in Pieces, Len(kept) = Len(parts), \A i \in 1 .. Len(parts) : kept[i] = Kept(f, parts, i),
           NEW i \in 1 .. Len(parts), i < Len(parts)
    PROVE  kept[i] # << >>
<1>1. PICK n \in Nat : n = Len(parts) /\ i + 1 \in 1 .. n /\ i \in 0 .. n /\ i - 1 \in 0 .. n /\ i + 1 \in 0 .. n /\ n \in 0 .. n
  BY LenIs
<1>2. PICK F : Sized(F, kept) /\ \A j \in 0 .. n : f[j].size = 2 + F[j]
  BY <1>1, SumsOf
<1>3. PICK a \in Nat, b \in Nat, c \in Nat, d \in Nat :
          a = F[i - 1] /\ b = F[i] /\ c = F[i + 1] /\ d = F[n] /\ c <= d
  <2>1. i - 1 \in 0 .. Len(kept) /\ i \in 0 .. Len(kept) /\ i + 1 \in 0 .. Len(kept) /\ n = Len(kept)
    BY <1>1
  <2>2. Sized(F, kept) /\ n \in 0 .. Len(kept)
    BY <1>1, <1>2, <2>1
  <2>3. F[i - 1] \in Nat /\ F[i] \in Nat /\ F[i + 1] \in Nat /\ F[n] \in Nat /\ F[i + 1] <= F[n]
    BY ONLY <2>1, <2>2, SizeRises, kept \in Pieces
  <2> QED
    BY ONLY <2>3
<1>4. PICK word \in Word, l \in Nat, m \in Nat : word = kept[i] /\ l = Len(word) /\ m = Len(kept[i + 1])
  BY <1>1, PieceIs
<1>5. b = a + l + 1 /\ c = b + m + 1
  <2>1. F[i] = F[i - 1] + Len(kept[i]) + 1
    BY <1>1, <1>2 DEF Sized
  <2>2. F[i + 1] = F[i + 1 - 1] + Len(kept[i + 1]) + 1 /\ i + 1 - 1 = i
    BY <1>1, <1>2 DEF Sized
  <2> QED
    BY <1>3, <1>4, <2>1, <2>2
<1>6. PICK part \in Word, size \in Nat : part = parts[i] /\ size = Len(part) /\ size # 0
  <2>1. parts[i] \in Word /\ parts[i] # << >>
    BY PieceIs
  <2> QED
    BY <2>1, EmptyWord
<1>7. word = Clipped(part, PathMax - 2 - (2 + a))
  BY <1>1, <1>2, <1>3, <1>4, <1>6 DEF Kept
<1>8. 2 + d < PathMax
  BY <1>1, <1>2, <1>3
<1>9. SUFFICES ASSUME l = 0 PROVE FALSE
  BY <1>4, NoPieces
<1>10. PathMax - 2 - (2 + a) > 0 /\ PathMax - 2 - (2 + a) \in Int
  <2>1. c <= d /\ a \in Nat /\ b \in Nat /\ c \in Nat /\ d \in Nat /\ m \in Nat
    BY <1>3, <1>4
  <2> QED
    BY ONLY <1>5, <1>8, <1>9, <2>1, Limits
<1>11. PICK k \in Int : k = PathMax - 2 - (2 + a) /\ k > 0
  BY <1>10
<1>12. l = IF k < 0 THEN 0 ELSE IF k < size THEN k ELSE size
  BY <1>4, <1>6, <1>7, <1>11, ClippedIs
<1> QED
  BY ONLY <1>6, <1>9, <1>11, <1>12

\* So what is written has this shape.
LEMMA WrittenShape ==
    ASSUME NEW volume, VolumeSize(volume) = 2, NEW parts \in Pieces, Len(parts) <= MaxParts,
           \A i \in 1 .. Len(parts) : parts[i] # << >>,
           Written(volume, parts).size < PathMax
    PROVE  \E kept : Shape(kept) /\ Written(volume, parts).pieces = Full(kept)
<1>1. CASE parts = << >>
  <2>1. Written(volume, parts).pieces = Full(<< >>)
    BY <1>1, WrittenNone
  <2>2. << >> # << << >> >>
    BY NoPieces, OneEmpty
  <2>3. Shape(<< >>)
    BY <2>2, NoPieces, SizeOfNone, Limits DEF Shape
  <2> QED
    BY <2>1, <2>3
<1>2. CASE parts # << >>
  <2>1. PICK n \in Nat : n = Len(parts) /\ n > 0 /\ n \in 0 .. n /\ n \in 0 .. Len(parts)
    BY <1>2, LenIs
  <2>2. PICK f : Wrote(f, volume, parts) /\ Written(volume, parts) = f[n]
    BY <1>2, <2>1, WroteIs
  <2>3. PICK q \in Pieces : /\ q = f[n].pieces /\ Len(q) = n + 1 /\ q[1] = << >>
                            /\ \A j \in 1 .. n : q[j + 1] = Kept(f, parts, j)
    <3>1. n \in 0 .. Len(parts) /\ Wrote(f, volume, parts) /\ parts \in Pieces
      BY <2>1, <2>2
    <3>2. /\ f[n].pieces \in Pieces /\ Len(f[n].pieces) = n + 1
          /\ f[n].pieces[1] = << >>
          /\ \A j \in 1 .. n : f[n].pieces[j + 1] = Kept(f, parts, j)
      BY ONLY <3>1, WroteShape
    <3> QED
      BY ONLY <3>2
  <2>4. PICK kept \in Pieces : Len(kept) = n /\ \A i \in 1 .. n : kept[i] = Kept(f, parts, i)
    <3> DEFINE k == [i \in 1 .. n |-> Kept(f, parts, i)]
    <3>1. \A i \in 1 .. n : Kept(f, parts, i) \in Word
      BY <2>1, <2>2, KeptIs
    <3>2. k \in Seq(Word) /\ Len(k) = n /\ \A i \in 1 .. n : k[i] = Kept(f, parts, i)
      BY <3>1
    <3> HIDE DEF k
    <3> QED
      BY <3>2 DEF Pieces
  <2>5. q = Full(kept)
    <3>1. kept # << >>
      BY <2>1, <2>4, NoPieces
    <3>2. \A j \in 1 .. Len(kept) : q[j + 1] = kept[j]
      BY <2>3, <2>4
    <3> QED
      BY <2>3, <2>4, <3>1, <3>2, FullIsOnly
  <2>6. 2 + Names!Size(kept) < PathMax
    <3>1. PICK F : Sized(F, kept) /\ \A i \in 0 .. n : f[i].size = 2 + F[i]
      BY <2>1, <2>2, <2>4, SumsOf
    <3>2. Names!Size(kept) = F[n]
      BY <2>4, <3>1, SizeOnly
    <3> QED
      BY <2>1, <2>2, <3>1, <3>2
  <2>7. ASSUME NEW i \in 1 .. Len(kept), i < Len(kept) PROVE kept[i] # << >>
    <3>1. f[Len(parts)].size < PathMax
      BY <2>1, <2>2
    <3>2. i \in 1 .. Len(parts) /\ i < Len(parts) /\ Len(kept) = Len(parts) /\ \A j \in 1 .. Len(parts) : kept[j] = Kept(f, parts, j)
      BY <2>1, <2>4, <2>7
    <3> QED
      BY <2>2, <3>1, <3>2, KeptSome
  <2>8. Len(kept) <= MaxParts
    BY <2>1, <2>4
  <2>9. CASE kept = << << >> >>
    <3>1. q = Full(<< >>)
      BY <2>5, <2>9, OneIs
    <3>2. << >> # << << >> >>
      BY NoPieces, OneEmpty
    <3>3. Shape(<< >>)
      BY <3>2, NoPieces, SizeOfNone, Limits DEF Shape
    <3> QED
      BY <2>2, <2>3, <3>1, <3>3
  <2>10. CASE kept # << << >> >>
    <3>1. Shape(kept)
      BY <2>6, <2>7, <2>8, <2>10 DEF Shape
    <3> QED
      BY <2>2, <2>3, <2>5, <3>1
  <2> QED
    BY <2>9, <2>10
<1> QED
  BY <1>1, <1>2

\* And what PathResolve answers, if it answers.
LEMMA AnswerShape ==
    ASSUME NEW volume, VolumeSize(volume) = 2, NEW q \in Pieces, NEW left \in Word
    PROVE  LET answer == Answer(volume, Parsed(q, left), left)
           IN  answer \in {Refused, Overrun} \/ \E kept : Shape(kept) /\ answer = TextOf(volume, kept)
<1>1. PICK work \in Works : work = Parsed(q, left) /\ Filled(work)
  BY ParsedFills
<1>2. CASE work.refused
  BY <1>1, <1>2 DEF Answer
<1>3. CASE ~ work.refused
  <2>1. PICK slots \in [1 .. MaxParts -> Word], d \in 0 .. MaxParts :
            slots = work.slots /\ d = work.depth /\ \A i \in 1 .. d : slots[i] # << >>
    BY <1>1 DEF Works, Filled
  <2>2. PICK parts \in Pieces : /\ parts = SubSeq(PartsRead(slots, left), 1, d)
                                /\ Len(parts) = d
                                /\ \A i \in 1 .. d : parts[i] # << >>
    BY <2>1, ReadParts
  <2>3. PICK out : out = Written(volume, parts)
    OBVIOUS
  <2>4. Answer(volume, work, left) = IF out.size >= PathMax THEN Overrun ELSE [volume |-> volume, pieces |-> out.pieces]
    BY <1>3, <2>1, <2>2, <2>3 DEF Answer, Returned
  <2>5. CASE out.size >= PathMax
    BY <1>1, <2>4, <2>5
  <2>6. CASE ~ (out.size >= PathMax)
    <3>1. out.size \in Nat
      <4>1. out \in Outs
        <5>1. CASE parts = << >>
          <6>1. out = Put(Started(volume), << >>)
            BY <2>3, <5>1, WroteIs
          <6> QED
            BY <6>1, StartedIs, PutIs, EmptyWord
        <5>2. CASE parts # << >>
          <6>1. PICK f : Wrote(f, volume, parts) /\ out = f[Len(parts)]
            BY <2>3, <5>2, WroteIs
          <6>2. Len(parts) \in 0 .. Len(parts)
            BY LenIs
          <6> QED
            BY <6>1, <6>2 DEF Wrote
        <5> QED
          BY <5>1, <5>2
      <4> QED
        BY <4>1 DEF Outs
    <3>2. Written(volume, parts).size < PathMax
      BY <2>3, <2>6, <3>1, Limits
    <3>3. Len(parts) <= MaxParts /\ \A i \in 1 .. Len(parts) : parts[i] # << >>
      BY <2>1, <2>2, Limits
    <3>4. PICK kept : Shape(kept) /\ Written(volume, parts).pieces = Full(kept)
      BY <3>2, <3>3, WrittenShape
    <3>5. Answer(volume, work, left) = TextOf(volume, kept)
      BY <2>3, <2>4, <2>6, <3>4 DEF TextOf
    <3> QED
      BY <1>1, <3>4, <3>5
  <2> QED
    BY <2>5, <2>6
<1> QED
  BY <1>2, <1>3

\* A text with its volume, as PathResolve leaves them.
Formed(text) == Lettered(text.volume) /\ \E kept : Shape(kept) /\ text = TextOf(text.volume, kept)

\* Such a text is a text.
LEMMA FormedIs ==
    ASSUME NEW text, Formed(text)
    PROVE  text.pieces \in Pieces /\ Lettered(text.volume) /\ text \notin {Refused, Overrun}
<1>1. PICK kept : Shape(kept) /\ text = TextOf(text.volume, kept)
  BY DEF Formed
<1>2. text.pieces = Full(kept) /\ Full(kept) \in Pieces /\ Full(kept) # << >>
  BY <1>1, FullType DEF TextOf, Shape
<1>3. Refused.pieces = << >> /\ Overrun.pieces = << >>
  BY DEF Refused, Overrun
<1> QED
  BY <1>2, <1>3 DEF Formed

(***************************************************************************)
(* PathResolve gives a text of that shape, or none (kernel/path.c:5-66).   *)
(***************************************************************************)
LEMMA Resolved ==
    ASSUME NEW here, here.pieces \in Pieces, Lettered(here.volume),
           NEW path, path.pieces \in Pieces, NEW left \in Word
    PROVE  LET text == PathResolve(here, path, left)
           IN  text \in {Refused, Overrun} \/ (Formed(text) /\ text.volume = VolumeOf(here, path))
<1>1. PICK volume : volume = VolumeOf(here, path) /\ Lettered(volume) /\ VolumeSize(volume) = 2
  BY VolumeOfIs, LetteredIs
<1>2. PICK q \in Pieces : q = Joined(here, path)
  BY JoinedType
<1>3. PathResolve(here, path, left) = Answer(volume, Parsed(q, left), left)
  BY <1>1, <1>2, ResolveIs
<1>4. \A kept : TextOf(volume, kept).volume = volume
  BY DEF TextOf
<1> QED
  BY <1>1, <1>3, <1>4, AnswerShape DEF Formed

(***************************************************************************)
(* The names FatFs finds in such a text (fs/fatfs/ff.c:3118-3148).         *)
(***************************************************************************)
Upto(was, names, j) == was \in Pieces /\ Len(was) = j /\ \A i \in 1 .. j : was[i] = names[i]

\* One more of them.
LEMMA UptoNext ==
    ASSUME NEW names \in Pieces, NEW j \in 1 .. Len(names), NEW was, Upto(was, names, j - 1)
    PROVE  Upto(Append(was, names[j]), names, j)
<1>1. was \in Seq(Word) /\ names[j] \in Word /\ Len(was) = j - 1 /\ \A i \in 1 .. j - 1 : was[i] = names[i]
  BY PieceIs DEF Upto, Pieces
<1>2. /\ Append(was, names[j]) \in Seq(Word)
      /\ Len(Append(was, names[j])) = Len(was) + 1
      /\ \A i \in 1 .. Len(was) : Append(was, names[j])[i] = was[i]
      /\ Append(was, names[j])[Len(was) + 1] = names[j]
  BY ONLY <1>1, AppendProperties
<1>3. j \in Nat
  BY LenIs
<1>4. ASSUME NEW i \in 1 .. j PROVE Append(was, names[j])[i] = names[i]
  <2>1. i \in 1 .. j - 1 \/ i = j
    BY <1>3
  <2>2. Len(was) + 1 = j
    BY <1>1, <1>3
  <2> QED
    BY <1>1, <1>2, <2>1, <2>2
<1>5. Len(Append(was, names[j])) = j
  BY <1>1, <1>2, <1>3
<1> QED
  BY <1>2, <1>4, <1>5 DEF Upto, Pieces

\* All of them.
LEMMA UptoAll ==
    ASSUME NEW names \in Pieces, NEW was, Upto(was, names, Len(names))
    PROVE  was = names
<1>1. was \in Seq(Word) /\ names \in Seq(Word) /\ Len(was) = Len(names) /\ \A i \in 1 .. Len(was) : was[i] = names[i]
  BY DEF Upto, Pieces
<1> QED
  BY ONLY <1>1, SeqEqual

\* All but the last.
LEMMA UptoFront ==
    ASSUME NEW names \in Pieces, names # << >>, NEW was, Upto(was, names, Len(names) - 1)
    PROVE  was = Front(names)
<1>1. was \in Seq(Word) /\ Len(was) = Len(names) - 1 /\ \A i \in 1 .. Len(was) : was[i] = names[i]
  BY DEF Upto, Pieces
<1>2. Front(names) \in Seq(Word) /\ Len(Front(names)) = Len(names) - 1 /\ \A i \in 1 .. Len(names) - 1 : Front(names)[i] = names[i]
  BY FrontIs DEF Pieces
<1>3. Len(was) = Len(Front(names)) /\ \A i \in 1 .. Len(was) : was[i] = Front(names)[i]
  BY <1>1, <1>2
<1> QED
  BY ONLY <1>1, <1>2, <1>3, SeqEqual

\* The directory a text names: the part that came to nothing is none.
NamesOf(kept) == IF kept # << >> /\ kept[Len(kept)] = << >> THEN Front(kept) ELSE kept

\* They are something, and few enough.
LEMMA NamesOfIs ==
    ASSUME NEW kept, Shape(kept)
    PROVE  NamesOf(kept) \in Pieces /\ Len(NamesOf(kept)) <= MaxParts
           /\ \A i \in 1 .. Len(NamesOf(kept)) : NamesOf(kept)[i] # << >> /\ i \in 1 .. Len(kept) /\ NamesOf(kept)[i] = kept[i]
<1>1. PICK n \in Nat : n = Len(kept) /\ n <= MaxParts /\ (n = 0 <=> kept = << >>)
  BY LenIs DEF Shape
<1>2. kept \in Pieces /\ \A i \in 1 .. n : i < n => kept[i] # << >>
  BY <1>1 DEF Shape
<1>3. CASE kept # << >> /\ kept[n] = << >>
  <2>1. NamesOf(kept) = Front(kept)
    BY <1>1, <1>3 DEF NamesOf
  <2>2. Front(kept) \in Pieces /\ Len(Front(kept)) = n - 1 /\ \A i \in 1 .. n - 1 : Front(kept)[i] = kept[i]
    BY <1>1, <1>2, <1>3, FrontIs
  <2>3. \A i \in 1 .. n - 1 : i \in 1 .. n /\ i < n
    OBVIOUS
  <2>4. n - 1 <= MaxParts
    BY <1>1, Limits
  <2> QED
    BY <1>1, <1>2, <2>1, <2>2, <2>3, <2>4
<1>4. CASE ~ (kept # << >> /\ kept[n] = << >>)
  <2>1. NamesOf(kept) = kept
    BY <1>1, <1>4 DEF NamesOf
  <2>2. ASSUME NEW i \in 1 .. n PROVE kept[i] # << >>
    <3>1. i < n \/ i = n
      OBVIOUS
    <3>2. kept # << >>
      BY <1>1
    <3> QED
      BY <1>2, <1>4, <3>1, <3>2
  <2> QED
    BY <1>1, <1>2, <2>1, <2>2
<1> QED
  BY <1>3, <1>4

\* FatFs finds these names in it.
LEMMA NodeOfText ==
    ASSUME NEW volume, NEW kept, Shape(kept)
    PROVE  NodeOf(TextOf(volume, kept)) = [volume |-> volume, names |-> NamesOf(kept)]
<1>0. kept \in Pieces
  BY DEF Shape
<1>1. PICK n \in Nat : n = Len(kept) /\ (n = 0 <=> kept = << >>)
  BY <1>0, LenIs
<1>2. PICK full \in Pieces, m \in Nat : full = Full(kept) /\ m = Len(full) /\ full[1] = << >>
  BY <1>0, FullType, LenIs
<1>3. PICK f : /\ f[0] = << >>
               /\ \A i \in 1 .. m : f[i] = NameOn(f[i - 1], full[i])
               /\ NodeOf(TextOf(volume, kept)) = [volume |-> volume, names |-> f[m]]
  <2>1. PICK f \in [0 .. Len(full) -> Pieces] :
               /\ f[0] = << >>
               /\ \A i \in 1 .. Len(full) : f[i] = NameOn(f[i - 1], full[i])
               /\ \A text : text.pieces = full => NodeOf(text) = [volume |-> text.volume, names |-> f[Len(full)]]
    BY NamesAre
  <2>2. TextOf(volume, kept).pieces = full /\ TextOf(volume, kept).volume = volume
    BY <1>2 DEF TextOf
  <2> QED
    BY <1>2, <2>1, <2>2
<1>4. \A names, name : name = << >> => NameOn(names, name) = names
  BY DEF NameOn
<1>5. m >= 1 /\ f[1] = << >>
  <2>1. m >= 1
    BY <1>0, <1>2, FullType
  <2>2. f[1] = NameOn(f[1 - 1], full[1])
    BY <1>3, <2>1
  <2>3. f[1 - 1] = << >>
    BY <1>3
  <2> QED
    BY <1>2, <1>4, <2>1, <2>2, <2>3
<1>6. CASE n = 0
  <2>1. m = 2 /\ full[2] = << >>
    BY <1>0, <1>1, <1>2, <1>6, FullPieces
  <2>2. f[2] = NameOn(f[2 - 1], full[2])
    BY <1>3, <2>1
  <2>3. f[2 - 1] = << >>
    BY <1>5
  <2>4. f[2] = << >>
    BY <1>4, <2>1, <2>2, <2>3
  <2>5. NamesOf(kept) = << >>
    BY <1>1, <1>6 DEF NamesOf
  <2> QED
    BY <1>3, <2>1, <2>4, <2>5
<1>7. CASE n # 0
  <2>1. m = n + 1 /\ \A j \in 1 .. n : full[j + 1] = kept[j]
    BY <1>0, <1>1, <1>2, <1>7, FullIs
  <2>2. ASSUME NEW j \in 1 .. n PROVE f[j + 1] = NameOn(f[j], kept[j])
    <3>1. j + 1 \in 1 .. m /\ j + 1 - 1 = j
      BY <2>1
    <3>2. f[j + 1] = NameOn(f[j + 1 - 1], full[j + 1])
      BY ONLY <1>3, <3>1
    <3> QED
      BY <2>1, <3>1, <3>2
  <2>3. ASSUME NEW j \in 1 .. n, kept[j] # << >>, Upto(f[j], kept, j - 1) PROVE Upto(f[j + 1], kept, j)
    <3>1. f[j + 1] = Append(f[j], kept[j])
      BY <2>2, <2>3 DEF NameOn
    <3>2. j \in 1 .. Len(kept)
      BY <1>1
    <3> QED
      BY <1>0, <2>3, <3>1, <3>2, UptoNext
  <2> DEFINE set == {j \in Nat : j < n => Upto(f[j + 1], kept, j)}
  <2>4. 0 \in set
    <3>1. f[0 + 1] = << >>
      BY <1>5
    <3>2. Upto(<< >>, kept, 0)
      BY NoPieces DEF Upto
    <3> QED
      BY <3>1, <3>2
  <2>5. ASSUME NEW j \in 1 .. n, j - 1 \in set PROVE j \in set
    <3>1. j \in Nat
      OBVIOUS
    <3>2. ASSUME j < n PROVE Upto(f[j + 1], kept, j)
      <4>1. j - 1 < n /\ j - 1 + 1 = j
        BY <3>2
      <4>2. Upto(f[j], kept, j - 1)
        BY <2>5, <4>1
      <4>3. kept[j] # << >>
        BY <1>1, <3>2 DEF Shape
      <4> QED
        BY <2>3, <4>2, <4>3
    <3> QED
      BY <3>1, <3>2
  <2>6. Upto(f[n], kept, n - 1)
    <3> HIDE DEF set
    <3>1. \A j \in 0 .. n : j \in set
      BY <2>4, <2>5, ClimbTo
    <3>2. n - 1 \in 0 .. n /\ n - 1 < n /\ n - 1 + 1 = n
      BY <1>7
    <3> QED
      BY <3>1, <3>2 DEF set
  <2>7. n \in 1 .. n
    BY <1>7
  <2>8. CASE kept[n] = << >>
    <3>1. f[m] = f[n]
      BY <1>4, <2>1, <2>2, <2>7, <2>8
    <3>2. f[n] = Front(kept)
      BY <1>0, <1>1, <1>7, <2>6, UptoFront
    <3>3. NamesOf(kept) = Front(kept)
      BY <1>1, <1>7, <2>8 DEF NamesOf
    <3> QED
      BY <1>3, <3>1, <3>2, <3>3
  <2>9. CASE kept[n] # << >>
    <3>1. Upto(f[n + 1], kept, n)
      BY <2>3, <2>6, <2>7, <2>9
    <3>2. f[n + 1] = kept
      BY <1>0, <1>1, <3>1, UptoAll
    <3>3. NamesOf(kept) = kept
      BY <1>1, <1>7, <2>9 DEF NamesOf
    <3> QED
      BY <1>3, <2>1, <3>2, <3>3
  <2> QED
    BY <2>8, <2>9
<1> QED
  BY <1>6, <1>7

(***************************************************************************)
(* A name goes on to where it is (kernel/path.c:29, 43).                   *)
(***************************************************************************)
DotPath == [volume |-> "", pieces |-> <<Dot>>]

\* A dot is relative and has two characters.
LEMMA DotPathIs ==
    ASSUME NEW here
    PROVE  /\ DotPath.pieces = <<Dot>> /\ VolumeOf(here, DotPath) = here.volume
           /\ <<Dot>> \in Pieces /\ Len(<<Dot>>) = 1 /\ <<Dot>>[1] = Dot
           /\ Names!Size(<<Dot>>) = 2
           /\ ~ IsRooted(<<Dot>>)
<1>1. DotPath.pieces = <<Dot>> /\ DotPath.volume = ""
  BY Zenon DEF DotPath
<1>2. VolumeOf(here, DotPath) = here.volume
  BY ONLY <1>1, Zenon DEF VolumeOf
<1>3. Len(Dot) = 1
  BY DEF Dot
<1>4. <<Dot>> \in Pieces /\ Names!Size(<<Dot>>) = Len(Dot) + 1
  BY EmptyWord, SizeOfOne
<1>5. Len(<<Dot>>) = 1 /\ <<Dot>>[1] = Dot
  OBVIOUS
<1>6. ~ IsRooted(<<Dot>>)
  BY <1>5 DEF IsRooted
<1>7. Names!Size(<<Dot>>) = 2
  BY <1>3, <1>4
<1> QED
  BY ONLY <1>1, <1>2, <1>4, <1>5, <1>6, <1>7, Zenon

\* A directory whose names have room is where its dot leads.
LEMMA StaysThere ==
    ASSUME NEW volume, Lettered(volume), NEW kept, Shape(kept), Ordinary(kept),
           \A i \in 1 .. Len(kept) : Len(kept[i]) < PartSize - 1,
           NEW left \in Word
    PROVE  PathResolve(TextOf(volume, kept), DotPath, left) = TextOf(volume, kept)
<1>0. kept \in Pieces /\ Len(kept) <= MaxParts /\ 2 + Names!Size(kept) < PathMax
  BY DEF Shape
<1>1. PICK here : here = TextOf(volume, kept) /\ here.pieces = Full(kept) /\ here.volume = volume
  <2>1. TextOf(volume, kept).pieces = Full(kept) /\ TextOf(volume, kept).volume = volume
    BY DEF TextOf
  <2> QED
    BY <2>1
<1>2. PICK t \in Pieces : t = <<Dot>> /\ Len(t) = 1 /\ t[1] = Dot /\ Names!Size(t) = 2
  BY DotPathIs
<1>3. PICK full \in Pieces, q \in Pieces : full = Full(kept) /\ q = full \o t /\ Names!Size(q) = Names!Size(full) + 2
  <2>1. Full(kept) \in Pieces
    BY <1>0, FullType
  <2>2. Full(kept) \o t \in Pieces /\ Names!Size(Full(kept) \o t) = Names!Size(Full(kept)) + Names!Size(t)
    BY <1>2, <2>1, SizeConcat
  <2> QED
    BY <1>2, <2>1, <2>2
<1>4. Names!Size(q) <= PathMax
  <2>1. Names!Size(full) = IF kept = << >> THEN 2 ELSE Names!Size(kept) + 1
    BY <1>0, <1>3, FullType
  <2>2. Names!Size(kept) \in Nat
    BY <1>0, SizeType
  <2> QED
    BY <1>0, <1>3, <2>1, <2>2, Limits
<1>5. Joined(here, DotPath) = q
  <2>1. q = IF IsRooted(DotPath.pieces) THEN DotPath.pieces ELSE here.pieces \o DotPath.pieces
    BY <1>1, <1>2, <1>3, DotPathIs
  <2> QED
    BY <1>4, <2>1, JoinedIs
<1>6. PICK h : Strode(h, kept, t) /\ h[1] = kept /\ h[Len(t)] = kept
  <2> DEFINE g == [i \in 0 .. 1 |-> kept]
  <2>1. g \in [0 .. Len(t) -> Pieces] /\ g[0] = kept /\ g[1] = kept
    BY <1>0, <1>2
  <2>2. ASSUME NEW i \in 1 .. Len(t) PROVE g[i] = Names!Stride(g[i - 1], t[i])
    <3>1. i = 1 /\ i - 1 = 0
      BY <1>2
    <3>2. Names!Stride(kept, Dot) = kept
      BY StrideCases
    <3> HIDE DEF g
    <3> QED
      BY <1>2, <2>1, <3>1, <3>2
  <2>3. Strode(g, kept, t)
    BY <2>1, <2>2 DEF Strode
  <2> QED
    BY <1>2, <2>1, <2>3
<1>7. 2 + Names!Size(h[Len(t)]) < PathMax
  BY <1>0, <1>6
<1>8. \A i \in 1 .. Len(t) : Len(t[i]) < PartSize - 1 /\ Len(h[i]) <= MaxParts
  <2>1. Len(Dot) = 1
    BY DEF Dot
  <2>2. 1 < PartSize - 1
    BY Limits
  <2>3. \A i \in 1 .. Len(t) : i = 1
    BY <1>2
  <2> QED
    BY <1>0, <1>2, <1>6, <2>1, <2>2, <2>3
<1>9. VolumeSize(volume) = 2
  BY LetteredIs
<1>10. Answer(volume, Parsed(Full(kept) \o t, left), left) = TextOf(volume, h[Len(t)])
  BY <1>0, <1>6, <1>7, <1>8, <1>9, AnswerFrom
<1>11. PathResolve(here, DotPath, left) = Answer(VolumeOf(here, DotPath), Parsed(Joined(here, DotPath), left), left)
  BY ResolveIs
<1>12. VolumeOf(here, DotPath) = volume
  BY <1>1, DotPathIs
<1> QED
  BY <1>1, <1>3, <1>5, <1>6, <1>10, <1>11, <1>12

\* A text that is not spoilt has all its names, and they have room.
LEMMA NotSpoilt ==
    ASSUME NEW volume, NEW kept, Shape(kept), ~ Spoilt(TextOf(volume, kept))
    PROVE  NamesOf(kept) = kept /\ \A i \in 1 .. Len(kept) : kept[i] # << >> /\ Len(kept[i]) < PartSize - 1
<1>0. kept \in Pieces
  BY DEF Shape
<1>1. PICK full \in Pieces, m \in Nat : full = Full(kept) /\ m = Len(full) /\ DOMAIN full = 1 .. m /\ m > 1
  BY <1>0, FullType, LenIs
<1>2. TextOf(volume, kept).pieces = full
  BY <1>1 DEF TextOf
<1>3. (\A i \in 1 .. m : ~ (Len(full[i]) >= PartSize - 1)) /\ ~ (m > 2 /\ full[m] = << >>)
  BY <1>1, <1>2 DEF Spoilt, Last
<1>4. PICK n \in Nat : n = Len(kept) /\ (n = 0 <=> kept = << >>)
  BY <1>0, LenIs
<1>5. CASE n = 0
  BY <1>4, <1>5 DEF NamesOf
<1>6. CASE n # 0
  <2>1. m = n + 1 /\ \A j \in 1 .. n : full[j + 1] = kept[j]
    BY <1>0, <1>1, <1>4, <1>6, FullIs
  <2>2. kept[n] # << >>
    <3>1. CASE n = 1
      <4>1. SUFFICES ASSUME kept[1] = << >> PROVE FALSE
        BY <3>1
      <4>2. kept = << << >> >>
        <5>1. kept \in Seq(Word) /\ << << >> >> \in Seq(Word) /\ Len(kept) = Len(<< << >> >>)
              /\ \A i \in 1 .. Len(kept) : kept[i] = << << >> >>[i]
          <6>1. \A i \in 1 .. n : i = 1
            BY <3>1
          <6> QED
            BY <1>0, <1>4, <3>1, <4>1, <6>1, OneEmpty DEF Pieces
        <5> QED
          BY ONLY <5>1, SeqEqual
      <4> QED
        BY <4>2 DEF Shape
    <3>2. CASE n # 1
      <4>1. m > 2 /\ n \in 1 .. n
        BY <1>6, <2>1, <3>2
      <4> QED
        BY <1>3, <2>1, <4>1
    <3> QED
      BY <3>1, <3>2
  <2>3. ASSUME NEW i \in 1 .. n PROVE kept[i] # << >> /\ Len(kept[i]) < PartSize - 1
    <3>1. i = n \/ i < n
      OBVIOUS
    <3>2. kept[i] # << >>
      BY <1>4, <2>2, <3>1 DEF Shape
    <3>3. i + 1 \in 1 .. m
      BY <2>1
    <3>4. ~ (Len(kept[i]) >= PartSize - 1)
      BY <1>3, <2>1, <3>3
    <3>5. Len(kept[i]) \in Nat
      BY <1>0, <1>4, PieceIs
    <3> QED
      BY <3>2, <3>4, <3>5, Limits
  <2> QED
    BY <1>4, <2>2, <2>3 DEF NamesOf
<1> QED
  BY <1>5, <1>6

\* No dot stands among these names.
Dotless(names) == \A i \in DOMAIN names : names[i] \notin {Dot, DotDot}

\* Without dots and something: a name a walk takes.
LEMMA DotlessOrdinary ==
    ASSUME NEW kept \in Pieces, Dotless(kept), \A i \in 1 .. Len(kept) : kept[i] # << >>
    PROVE  Ordinary(kept)
<1>1. ASSUME NEW i \in 1 .. Len(kept) PROVE IsPlainName(kept[i])
  <2>1. kept[i] \in Word /\ kept[i] # << >>
    BY PieceIs
  <2>2. i \in DOMAIN kept
    BY LenIs
  <2> QED
    BY <2>1, <2>2 DEF Dotless, IsPlainName
<1> QED
  BY <1>1 DEF Ordinary

\* So a text without dots is where it says it is, or is spoilt.
LEMMA NormalIs ==
    ASSUME NEW text, Formed(text), Dotless(NodeOf(text).names)
    PROVE  IsNormal(text)
<1>1. PICK kept : Shape(kept) /\ text = TextOf(text.volume, kept)
  BY DEF Formed
<1>2. PICK volume : volume = text.volume /\ Lettered(volume)
  BY DEF Formed
<1>3. NodeOf(text).names = NamesOf(kept)
  BY <1>1, <1>2, NodeOfText
<1>4. ASSUME ~ Spoilt(text), NEW left \in Leftovers
      PROVE  PathResolve(text, DotPath, left) = text
  <2>1. NamesOf(kept) = kept /\ \A i \in 1 .. Len(kept) : kept[i] # << >> /\ Len(kept[i]) < PartSize - 1
    BY <1>1, <1>2, <1>4, NotSpoilt
  <2>2. Ordinary(kept)
    BY <1>1, <1>3, <2>1, DotlessOrdinary DEF Shape
  <2>3. left \in Word
    BY EmptyWord
  <2> QED
    BY <1>1, <1>2, <2>1, <2>2, <2>3, StaysThere
<1> QED
  BY <1>4, Zenon DEF IsNormal, DotPath

(***************************************************************************)
(* A root is what it is in every directory (kernel/path.c:23, 54).         *)
(***************************************************************************)
LEMMA NoneIs == Shape(<< >>) /\ Ordinary(<< >>) /\ NamesOf(<< >>) = << >>
<1>1. << >> # << << >> >>
  BY NoPieces, OneEmpty
<1>2. Shape(<< >>)
  BY <1>1, NoPieces, SizeOfNone, Limits DEF Shape
<1>3. Ordinary(<< >>)
  BY NoPieces DEF Ordinary
<1> QED
  BY <1>2, <1>3 DEF NamesOf

\* The text of a root.
LEMMA RootIs ==
    ASSUME NEW volume
    PROVE  /\ Root(volume) = TextOf(volume, << >>)
           /\ Root(volume).pieces = Full(<< >>) /\ Root(volume).volume = volume
           /\ NodeOf(Root(volume)) = [volume |-> volume, names |-> << >>]
           /\ Lettered(volume) => Formed(Root(volume))
<1>1. Full(<< >>) = << << >>, << >> >>
  <2>1. PICK s \in Pieces : s = << << >> >> /\ Len(s) = 1 /\ s[1] = << >>
    BY OneEmpty
  <2>2. s \o s = <<s[1], s[1]>>
    <3>1. s \in Seq(Word) /\ Len(s) = 1
      BY <2>1 DEF Pieces
    <3>2. /\ s \o s \in Seq(Word) /\ Len(s \o s) = Len(s) + Len(s)
          /\ \A i \in 1 .. Len(s) + Len(s) : (s \o s)[i] = IF i <= Len(s) THEN s[i] ELSE s[i - Len(s)]
      BY ONLY <3>1, ConcatProperties
    <3>3. <<s[1], s[1]>> \in Seq(Word) /\ Len(<<s[1], s[1]>>) = 2 /\ \A i \in 1 .. 2 : <<s[1], s[1]>>[i] = s[1]
      <4>1. \A w \in Word : <<w, w>> \in Seq(Word) /\ Len(<<w, w>>) = 2 /\ \A i \in 1 .. 2 : <<w, w>>[i] = w
        OBVIOUS
      <4>2. s[1] \in Word
        BY <2>1, EmptyWord
      <4> QED
        BY <4>1, <4>2
    <3>4. Len(s \o s) = 2 /\ \A i \in 1 .. 2 : (s \o s)[i] = s[1]
      <4>1. \A i \in 1 .. 2 : i = 1 \/ i = 2
        OBVIOUS
      <4> QED
        BY ONLY <3>1, <3>2, <4>1
    <3> QED
      BY ONLY <3>2, <3>3, <3>4, SeqEqual
  <2> QED
    BY <2>1, <2>2 DEF Full
<1>2. Root(volume) = TextOf(volume, << >>)
  BY <1>1 DEF Root, TextOf
<1>3. TextOf(volume, << >>).pieces = Full(<< >>) /\ TextOf(volume, << >>).volume = volume
  BY DEF TextOf
<1>4. NodeOf(TextOf(volume, << >>)) = [volume |-> volume, names |-> << >>]
  BY NoneIs, NodeOfText
<1>5. Lettered(volume) => Formed(TextOf(volume, << >>))
  BY <1>3, NoneIs DEF Formed
<1> QED
  BY <1>2, <1>3, <1>4, <1>5

\* It resolves to itself (kernel/path.c:51-55).
LEMMA RootResolves ==
    ASSUME NEW here, NEW volume, Lettered(volume), NEW left \in Word
    PROVE  PathResolve(here, Root(volume), left) = Root(volume)
<1>1. PICK q \in Pieces : q = Full(<< >>) /\ q[1] = << >> /\ Len(q) = 2 /\ q[2] = << >> /\ Names!Size(q) = 2
  BY NoPieces, FullType, FullPieces
<1>2. IsRooted(q)
  BY <1>1 DEF IsRooted
<1>3. Joined(here, Root(volume)) = q
  <2>1. q = IF IsRooted(Root(volume).pieces) THEN Root(volume).pieces ELSE here.pieces \o Root(volume).pieces
    BY <1>1, <1>2, RootIs
  <2>2. Names!Size(q) <= PathMax
    BY <1>1, Limits
  <2> QED
    BY <2>1, <2>2, JoinedIs
<1>4. PICK t \in Pieces : t = << >> /\ Len(t) = 0
  BY NoPieces
<1>5. q \o t = q
  BY <1>4, ConcatEmptySeq DEF Pieces
<1>6. PICK h : Strode(h, << >>, t) /\ h[0] = << >>
  <2>1. \E h : Strode(h, << >>, t)
    BY NoPieces, StrodeIs
  <2> QED
    BY <2>1 DEF Strode
<1>7. VolumeSize(volume) = 2
  BY LetteredIs
<1>8. 2 + Names!Size(h[Len(t)]) < PathMax
  BY <1>4, <1>6, SizeOfNone, Limits
<1>9. Answer(volume, Parsed(Full(<< >>) \o t, left), left) = TextOf(volume, h[Len(t)])
  <2>1. PICK none \in Pieces : none = << >> /\ Len(none) = 0
    BY NoPieces
  <2>2. \A i \in 1 .. Len(none) : Len(none[i]) < PartSize - 1
    BY <2>1
  <2>3. \A i \in 1 .. Len(t) : Len(t[i]) < PartSize - 1 /\ Len(h[i]) <= MaxParts
    BY <1>4
  <2>4. Ordinary(none) /\ Len(none) <= MaxParts /\ Strode(h, none, t)
    BY <1>6, <2>1, NoneIs, Limits
  <2>5. Answer(volume, Parsed(Full(none) \o t, left), left) = TextOf(volume, h[Len(t)])
    BY <1>7, <1>8, <2>2, <2>3, <2>4, AnswerFrom
  <2> QED
    BY <2>1, <2>5
<1>10. VolumeOf(here, Root(volume)) = volume
  BY RootIs, VolumeOfIs
<1>11. PathResolve(here, Root(volume), left) =
           Answer(VolumeOf(here, Root(volume)), Parsed(Joined(here, Root(volume)), left), left)
  BY ResolveIs
<1> QED
  BY <1>1, <1>3, <1>4, <1>5, <1>6, <1>9, <1>10, <1>11, RootIs

\* The two volumes the kernel mounts have a digit each.
LEMMA DigitIs ==
    ASSUME NEW v \in {0, 1}
    PROVE  /\ DigitOf(v) \in DOMAIN Digits /\ Digits[DigitOf(v)] = v
           /\ Lettered(DigitOf(v))
           /\ DigitOf(v) # "refused" /\ DigitOf(v) # "overrun"
<1>1. DOMAIN Digits = {"0", "1", "2"} /\ Digits["0"] = 0 /\ Digits["1"] = 1
  BY DEF Digits
<1>2. \E c \in DOMAIN Digits : Digits[c] = v
  BY <1>1
<1>3. DigitOf(v) \in DOMAIN Digits /\ Digits[DigitOf(v)] = v
  BY <1>2 DEF DigitOf
<1>4. \A c : c \in {"0", "1", "2"} => c # "" /\ c # "refused" /\ c # "overrun"
  BY Zenon
<1> QED
  BY <1>1, <1>3, <1>4, Zenon DEF Lettered

\* A root is there when its volume is mounted (fs/fatfs/ff.c:4735-4767).
LEMMA RootLookUp ==
    ASSUME NEW v \in {0, 1}
    PROVE  LookUp(Root(DigitOf(v)), {}) = IF MountedAt(v, {}) = Unmounted THEN "none" ELSE "root"
<1> DEFINE text == Root(DigitOf(v))
<1>1. text.volume = DigitOf(v)
  BY DEF Root
<1>2. text \notin {Refused, Overrun}
  <2>1. Refused.volume = "refused" /\ Overrun.volume = "overrun"
    BY DEF Refused, Overrun
  <2> QED
    BY <1>1, <2>1, DigitIs
<1>3. NumberIn(text) = v
  BY <1>1, DigitIs, Zenon DEF NumberIn
<1>4. NodeOf(text).names = << >>
  BY RootIs
<1>5. \A files : Seen(files, << >>, {}) = "root"
  BY DEF Seen
<1> HIDE DEF text
<1>6. LookUp(text, {}) = IF MountedAt(v, {}) = Unmounted THEN "none" ELSE "root"
  BY <1>2, <1>3, <1>4, <1>5, Zenon DEF LookUp
<1> QED
  BY <1>6 DEF text

\* It can be mounted when its place holds a volume.
LEMMA MountableIffHolds ==
    ASSUME VolumesInv, ~misread, NEW v \in DOMAIN fatFs, v < nextVolume
    PROVE  MountedAt(v, {}) # Unmounted <=> HoldsVolume(Meant(v))
<1>1. v \in {0, 1}
  BY DEF VolumesInv, Registry
<1>2. Meant(v) \in Counted /\ Meant(v) # Unmounted
  BY <1>1, MeantCounted, UnmountedIsNoPlace DEF VolumesInv
<1>3. ASSUME MountedAt(v, {}) # Unmounted PROVE HoldsVolume(Meant(v))
  BY <1>3, MountedIs
<1>4. ASSUME HoldsVolume(Meant(v)) PROVE MountedAt(v, {}) # Unmounted
  <2>1. Meant(v).drive \in found
    <3>1. Meant(v).drive \in Drives /\ drives[Meant(v).drive] # Absent
      BY <1>2, OfDrive, CountedKind
    <3>2. Detected = MaxDrives
      <4>1. PICK b \in Nat : b = boot /\ b >= MaxDrives
        BY Constants, <1>1 DEF VolumesInv, Registry
      <4> QED
        BY <4>1, DetectedAll DEF Detected
    <3>3. Meant(v).drive < MaxDrives
      BY <3>1, Constants DEF Drives
    <3> QED
      BY <3>1, <3>2, <3>3 DEF VolumesInv, Registry
  <2>2. Mountable(v, {})
    BY <1>2, <1>4, <2>1, MountsAll DEF VolumesInv, Registry
  <2>3. Place(volToPart[v].pd, FindVolume(volToPart[v].pd, volToPart[v].pt, {})) = Meant(v)
    BY <1>2, <2>2, MountsThere DEF Meant
  <2> QED
    BY <1>2, <2>2, <2>3 DEF MountedAt
<1> QED
  BY <1>3, <1>4

(***************************************************************************)
(* The answer to the last call, if it was for a root.                      *)
(***************************************************************************)
RootAnswered ==
    \A v \in {0, 1} : AskedRoot(v) /\ ~misread /\ v < nextVolume =>
        /\ v \in DOMAIN fatFs
        /\ call.result = "ok" <=> HoldsVolume(Meant(v))

\* An answer is the record of its call.
LEMMA AskedOp ==
    ASSUME NEW op, NEW p, NEW command, NEW bad, NEW text, Answered(op, p, command, bad, text)
    PROVE  \E result, x : Asks(op, p, command, bad, result, x)
BY DEF Answered, LoseAll

\* With the path that was asked for.
LEMMA AsksOp ==
    ASSUME NEW op, NEW p, NEW command, NEW bad, NEW result, NEW x, Asks(op, p, command, bad, result, x)
    PROVE  call'.op = op /\ call'.path = p /\ (call'.io <=> bad = {}) /\ call'.result = result
BY DEF Asks

\* The other steps ask for something else.
LEMMA OnlyOpenDirAsks ==
    ASSUME Next, ~SysOpenDir, ~Idle
    PROVE  call'.op # "opendir"
<1>1. ASSUME NEW op, SystemCall(op), op # "opendir" PROVE call'.op # "opendir"
  <2>1. PICK p, text, bad : Answered(op, p, FALSE, bad, text)
    BY <1>1 DEF SystemCall
  <2>2. PICK result, x : Asks(op, p, FALSE, bad, result, x)
    BY ONLY <2>1, AskedOp
  <2>3. call'.op = op
    BY ONLY <2>2, AsksOp, Zenon
  <2> QED
    BY ONLY <1>1, <2>3
<1>2. ASSUME ShellExec PROVE call'.op # "opendir"
  <2>1. PICK p, names, texts, bad : RunFirst(p, names, texts, bad)
    BY <1>2 DEF ShellExec
  <2>2. \E result, x : Asks("exec", p, TRUE, bad, result, x)
    BY <2>1, AskedOp DEF RunFirst, LoseAll
  <2>3. PICK result, x : Asks("exec", p, TRUE, bad, result, x)
    BY <2>2
  <2>4. call'.op = "exec"
    BY ONLY <2>3, AsksOp, Zenon
  <2> QED
    BY ONLY <2>4
<1>3. ASSUME NEW to, BootStep(to) PROVE call'.op # "opendir"
  BY <1>3 DEF BootStep
<1>4. ASSUME LoadFirst \/ SysExit PROVE call'.op # "opendir"
  BY <1>4 DEF LoadFirst, SysExit
<1> QED
  BY <1>1, <1>2, <1>3, <1>4 DEF Next, DetectDrive, Mount, ListRoot, SysChDir, SysStat, SysOpen, SysExec

\* A root opens when the place with its number holds a volume.
LEMMA OpenDirAnswers ==
    ASSUME VolumesInv, SysOpenDir, NEW v \in {0, 1}, AskedRoot(v)', ~misread, v < nextVolume
    PROVE  /\ v \in DOMAIN fatFs
           /\ call'.result = "ok" <=> HoldsVolume(Meant(v))
<1>1. PICK p \in Asked["opendir"] :
          \E text \in {PathResolve(Cwd, p, left) : left \in Leftovers}, bad \in Troubles :
              Visit(text, bad) /\ Answered("opendir", p, FALSE, bad, text)
  BY DEF SysOpenDir, SystemCall
<1>2. PICK left \in Leftovers, bad \in Troubles : Answered("opendir", p, FALSE, bad, PathResolve(Cwd, p, left))
  BY <1>1
<1>3. bad = {} /\ p = Root(DigitOf(v))
  <2>0. PICK result, x : Asks("opendir", p, FALSE, bad, result, x)
    BY <1>2, AskedOp
  <2>1. call'.path = p /\ (call'.io <=> bad = {})
    BY ONLY <2>0, AsksOp, Zenon
  <2>2. call'.io /\ call'.path = Root(DigitOf(v))
    BY DEF AskedRoot, Root, DigitOf, Digits
  <2> QED
    BY <2>1, <2>2
<1>4. PathResolve(Cwd, p, left) = Root(DigitOf(v))
  <2>1. left \in Word
    BY EmptyWord
  <2> QED
    BY <1>3, <2>1, DigitIs, RootResolves
<1>5. Root(DigitOf(v)) # Overrun
  BY DigitIs DEF Root, Overrun
<1>6. call'.result = "ok" <=> LookUp(Root(DigitOf(v)), {}) \in Accepts["opendir"]
  <2>1. \/ /\ LookUp(Root(DigitOf(v)), {}) \in Accepts["opendir"]
           /\ \E x : Asks("opendir", p, FALSE, bad, "ok", x)
        \/ /\ LookUp(Root(DigitOf(v)), {}) \notin Accepts["opendir"]
           /\ \E x : Asks("opendir", p, FALSE, bad, "failed", x)
    BY <1>2, <1>3, <1>4, <1>5 DEF Answered
  <2>2. (\E x : Asks("opendir", p, FALSE, bad, "ok", x)) => call'.result = "ok"
    BY ONLY AsksOp, Zenon
  <2>3. (\E x : Asks("opendir", p, FALSE, bad, "failed", x)) => call'.result = "failed"
    BY ONLY AsksOp, Zenon
  <2>4. "ok" # "failed"
    OBVIOUS
  <2> QED
    BY ONLY <2>1, <2>2, <2>3, <2>4, Zenon
<1>7. Accepts["opendir"] = {"root", "dir"}
  BY DEF Accepts
<1>8. v \in DOMAIN fatFs
  <2>1. boot = MaxDrives + 4
    BY DEF SysOpenDir, SystemCall, Running
  <2> QED
    BY <2>1, Constants DEF VolumesInv, Registry
<1>9. MountedAt(v, {}) # Unmounted <=> HoldsVolume(Meant(v))
  BY <1>8, MountableIffHolds
<1> QED
  BY <1>6, <1>7, <1>8, <1>9, RootLookUp

\* Every step leaves an answer that is true, or no answer.
LEMMA StepRootAnswered == VolumesInv /\ RootAnswered /\ [Next]_vars => RootAnswered'
<1> SUFFICES ASSUME VolumesInv, RootAnswered, [Next]_vars, NEW v \in {0, 1}, AskedRoot(v)', ~misread', v < nextVolume'
             PROVE  /\ v \in DOMAIN fatFs'
                    /\ call'.result = "ok" <=> HoldsVolume(Meant(v))'
  BY DEF RootAnswered
<1>1. CASE SysOpenDir
  <2>1. Later
    <3>1. ~DetectDrive /\ \A w \in {0, 1} : ~Mount(w, MaxDrives + w, MaxDrives + w + 1)
      <4>1. boot = MaxDrives + 4
        BY <1>1 DEF SysOpenDir, SystemCall, Running
      <4> QED
        BY <4>1, Constants DEF DetectDrive, Drives, Mount
    <3> QED
      BY <1>1, <3>1, StepKinds DEF Next
  <2>2. /\ drives' = drives /\ volToPart' = volToPart /\ nextVolume' = nextVolume /\ misread' = misread
        /\ DOMAIN fatFs' = DOMAIN fatFs
    BY <2>1 DEF Later, MountVolumes, volumeVars
  <2>3. Meant(v)' = Meant(v) /\ HoldsVolume(Meant(v))' = HoldsVolume(Meant(v))
    BY <2>2 DEF Meant, HoldsVolume, VolumeAt
  <2> QED
    BY <1>1, <2>2, <2>3, OpenDirAnswers
<1>2. CASE UNCHANGED vars
  <2>1. /\ drives' = drives /\ volToPart' = volToPart /\ nextVolume' = nextVolume /\ misread' = misread
        /\ fatFs' = fatFs /\ call' = call
    BY <1>2 DEF vars, volumeVars
  <2>2. Meant(v)' = Meant(v) /\ HoldsVolume(Meant(v))' = HoldsVolume(Meant(v))
    BY <2>1 DEF Meant, HoldsVolume, VolumeAt
  <2>3. AskedRoot(v)
    BY <2>1 DEF AskedRoot, Root, DigitOf, Digits
  <2> QED
    BY <2>1, <2>2, <2>3 DEF RootAnswered
<1>3. CASE Next /\ ~SysOpenDir /\ ~Idle
  <2>1. call'.op # "opendir"
    BY <1>3, OnlyOpenDirAsks
  <2> QED
    BY <2>1 DEF AskedRoot
<1> QED
  BY <1>1, <1>2, <1>3 DEF Idle

\* At first nothing was asked.
LEMMA InitRootAnswered == Init => RootAnswered
<1> SUFFICES ASSUME Init PROVE RootAnswered
  OBVIOUS
<1>1. call.op # "opendir"
  BY DEF Init
<1> QED
  BY <1>1 DEF RootAnswered, AskedRoot

\* The two together say what the run checks.
LEMMA NumbersHold == VolumesInv /\ RootAnswered => VolumesAsNumbered
<1> SUFFICES ASSUME VolumesInv, RootAnswered, ~misread, NEW v \in DOMAIN fatFs, v < nextVolume
             PROVE  /\ fatFs[v] # Unmounted => fatFs[v] \in Counted /\ NumberOf(fatFs[v]) = v
                    /\ AskedRoot(v) => (call.result = "ok" <=> \E p \in Counted : NumberOf(p) = v /\ HoldsVolume(p))
  BY DEF VolumesAsNumbered
<1>1. v \in {0, 1}
  BY DEF VolumesInv, Registry
<1>2. Meant(v) \in Counted /\ NumberOf(Meant(v)) = v
  BY <1>1, MeantCounted DEF VolumesInv
<1>3. fatFs[v] # Unmounted => fatFs[v] = Meant(v)
  BY DEF VolumesInv, Mounting
<1>4. (\E p \in Counted : NumberOf(p) = v /\ HoldsVolume(p)) <=> HoldsVolume(Meant(v))
  BY <1>2, NumberIsOnce
<1> QED
  BY <1>1, <1>2, <1>3, <1>4 DEF RootAnswered

\* For any drives, tables and failing reads after boot: unless a first sector
\* was misread, a volume number means the partition with that rank among those
\* of all drives, and its root opens exactly when that partition holds a volume
\* (fs/fatfs.c:16, fs/fatfs/ff.c:3461).
THEOREM SpecVolumesAsNumbered == Spec => []VolumesAsNumbered
<1>1. Init => VolumesInv /\ RootAnswered
  BY InitVolumes, InitRootAnswered
<1>2. VolumesInv /\ RootAnswered /\ [Next]_vars => (VolumesInv /\ RootAnswered)'
  BY StepVolumes, StepRootAnswered
<1> QED
  BY <1>1, <1>2, NumbersHold, PTL DEF Spec

(***************************************************************************)
(* What is mounted is a volume, and stays (fs/fatfs/ff.c:3407-3452).       *)
(***************************************************************************)
SoundPlace(p) ==
    /\ p.drive \in Drives /\ drives[p.drive] # Absent
    /\ \/ drives[p.drive].sector0 = "bare"
       \/ /\ drives[p.drive].sector0 = "mbr"
          /\ p.entry \in 1 .. Entries
          /\ drives[p.drive].table[p.entry].holds # NoVolume

\* The table has entries of a partition table.
EntriesSound == \A v \in DOMAIN volToPart : volToPart[v].pt \in 0 .. Entries
\* What is mounted is such a place.
PlacesSound == \A v \in DOMAIN fatFs : fatFs[v] # Unmounted => SoundPlace(fatFs[v])
\* The invariant of the mounts.
MountsInv == EntriesSound /\ PlacesSound

\* A sound place has the files of a volume.
LEMMA SoundIsVolume ==
    ASSUME Registry, NEW p, SoundPlace(p)
    PROVE  IsVolume(VolumeAt(p))
<1>1. drives \in Machines /\ p.drive \in Drives /\ drives[p.drive] # Absent
  BY DEF Registry, SoundPlace
<1>2. CASE drives[p.drive].sector0 = "bare"
  <2>1. IsVolume(drives[p.drive].whole)
    BY ONLY <1>1, <1>2, MachinesAssumption
  <2> QED
    BY <1>2, <2>1 DEF VolumeAt
<1>3. CASE drives[p.drive].sector0 # "bare"
  <2>1. drives[p.drive].sector0 = "mbr" /\ p.entry \in 1 .. Entries /\ drives[p.drive].table[p.entry].holds # NoVolume
    BY <1>3 DEF SoundPlace
  <2>2. IsVolume(drives[p.drive].table[p.entry].holds)
    BY ONLY <1>1, <2>1, MachinesAssumption
  <2> QED
    BY <1>3, <2>2 DEF VolumeAt
<1> QED
  BY <1>2, <1>3

\* The search for a volume ends at one of the entries
\* (fs/fatfs/ff.c:3447-3450).
LEMMA FirstFatIs ==
    ASSUME NEW d, NEW bad
    PROVE  FirstFat(d, bad) \in 1 .. Entries
<1> DEFINE fats == {i \in 1 .. Entries : CheckEntry(d, i, bad) < 2}
<1>1. CASE fats = {}
  <2>1. FirstFat(d, bad) = Entries
    BY <1>1 DEF FirstFat
  <2> QED
    BY <2>1, Constants
<1>2. CASE fats # {}
  <2>1. fats \in SUBSET Nat /\ fats # {}
    BY <1>2, Constants
  <2>2. \E i \in fats : \A j \in fats : i <= j
    <3> HIDE DEF fats
    <3>1. PICK n \in fats : TRUE
      BY <2>1
    <3> DEFINE none == {k \in Nat : \A i \in fats : ~ (i <= k)}
    <3>2. SUFFICES ASSUME \A i \in fats : \E j \in fats : ~ (i <= j) PROVE FALSE
      OBVIOUS
    <3>3. 0 \in none
      <4>1. SUFFICES ASSUME NEW i \in fats, i <= 0 PROVE FALSE
        OBVIOUS
      <4>2. i = 0
        BY <2>1, <4>1
      <4>3. \A j \in fats : i <= j
        BY <2>1, <4>2
      <4> QED
        BY <3>2, <4>3
    <3>4. ASSUME NEW k \in Nat, k \in none PROVE k + 1 \in none
      <4>1. SUFFICES ASSUME NEW i \in fats, i <= k + 1 PROVE FALSE
        OBVIOUS
      <4>2. i \in Nat /\ ~ (i <= k)
        BY <2>1, <3>4
      <4>3. \A j \in fats : j \in Nat /\ ~ (j <= k)
        BY <2>1, <3>4
      <4>4. i = k + 1
        BY <4>1, <4>2
      <4>5. \A j \in fats : i <= j
        BY <4>3, <4>4
      <4> QED
        BY <3>2, <4>5
    <3> HIDE DEF none
    <3>5. n \in none
      BY ONLY <2>1, <3>1, <3>3, <3>4, Climb
    <3>6. n \in Nat /\ n <= n
      BY <2>1, <3>1
    <3> QED
      BY <3>1, <3>5, <3>6 DEF none
  <2>3. FirstFat(d, bad) \in fats
    BY <1>2, <2>2 DEF FirstFat
  <2> QED
    BY <2>3
<1> QED
  BY <1>1, <1>2

\* A mount that succeeds finds a sound place.
LEMMA MountableSound ==
    ASSUME Registry, EntriesSound, NEW v \in DOMAIN volToPart, NEW bad, Mountable(v, bad)
    PROVE  SoundPlace(Place(volToPart[v].pd, FindVolume(volToPart[v].pd, volToPart[v].pt, bad)))
<1>1. PICK d, part : d = volToPart[v].pd /\ part = volToPart[v].pt
  OBVIOUS
<1>2. PICK i : i = FindVolume(d, part, bad)
  OBVIOUS
<1>3. d \in Drives /\ drives[d] # Absent /\ part \in 0 .. Entries /\ Judged(d, i, bad) < 2
  BY <1>1, <1>2 DEF Mountable, Registry, EntriesSound
<1>4. CheckFs(d, 0, bad) = IF Place(d, 0) \in bad THEN 4
                           ELSE IF drives[d].sector0 = "bare" THEN 0
                           ELSE IF drives[d].sector0 = "mbr" THEN 2 ELSE 3
  BY DEF CheckFs
<1>5. Place(d, i).drive = d /\ Place(d, i).entry = i
  BY PlaceIs
<1>6. CASE i = 0
  <2>1. CheckFs(d, 0, bad) < 2
    BY <1>3, <1>6 DEF Judged
  <2>2. drives[d].sector0 = "bare"
    BY <1>4, <2>1
  <2> QED
    BY <1>1, <1>2, <1>3, <1>5, <2>2 DEF SoundPlace
<1>7. CASE i # 0
  <2>1. CheckEntry(d, i, bad) < 2
    BY <1>3, <1>7 DEF Judged
  <2>2. CheckFs(d, i, bad) < 2
    BY <2>1 DEF CheckEntry
  <2>3. drives[d].table[i].holds # NoVolume
    BY <1>7, <2>2 DEF CheckFs
  <2>4. CheckFs(d, 0, bad) \in {0, 2} /\ (part # 0 => i = part) /\ (part = 0 => i = FirstFat(d, bad))
    BY <1>2, <1>4, <1>7 DEF FindVolume
  <2>5. drives[d].sector0 \in {"bare", "mbr"}
    BY <1>4, <2>4
  <2>6. i \in 1 .. Entries
    BY <1>3, <2>4, FirstFatIs, Constants
  <2> QED
    BY <1>1, <1>2, <1>3, <1>5, <2>3, <2>5, <2>6 DEF SoundPlace
<1> QED
  BY <1>6, <1>7

\* A volume that is in use is sound, and stays the one it was.
LEMMA MountedSound ==
    ASSUME Registry, MountsInv, NEW v, NEW bad, MountedAt(v, bad) # Unmounted
    PROVE  /\ v \in DOMAIN fatFs /\ SoundPlace(MountedAt(v, bad))
           /\ fatFs[v] # Unmounted => MountedAt(v, bad) = fatFs[v]
<1>1. v \in DOMAIN fatFs
  BY DEF MountedAt
<1>2. v \in DOMAIN volToPart
  BY <1>1, Constants DEF Registry
<1>3. CASE fatFs[v] # Unmounted
  BY <1>1, <1>3 DEF MountedAt, MountsInv, PlacesSound
<1>4. CASE fatFs[v] = Unmounted
  <2>1. Mountable(v, bad) /\ MountedAt(v, bad) = Place(volToPart[v].pd, FindVolume(volToPart[v].pd, volToPart[v].pt, bad))
    BY <1>4 DEF MountedAt
  <2> QED
    BY <1>1, <1>2, <1>4, <2>1, MountableSound DEF MountsInv
<1> QED
  BY <1>3, <1>4

\* What a step leaves as it was: the drives, and what is mounted.
Settled ==
    /\ drives' = drives
    /\ DOMAIN fatFs \subseteq DOMAIN fatFs'
    /\ \A v \in DOMAIN fatFs : fatFs[v] # Unmounted => fatFs'[v] = fatFs[v]

\* Sound places are a matter of the drives only.
LEMMA SoundStays ==
    ASSUME drives' = drives
    PROVE  /\ \A p : SoundPlace(p)' = SoundPlace(p)
           /\ \A p : VolumeAt(p)' = VolumeAt(p)
BY DEF SoundPlace, Drives, VolumeAt

\* The invariant of the mounts holds if each new mount is sound.
LEMMA KeepMounts ==
    ASSUME drives' = drives, volToPart' = volToPart, EntriesSound,
           \A v \in DOMAIN fatFs' : fatFs'[v] # Unmounted => SoundPlace(fatFs'[v])
    PROVE  MountsInv'
<1>1. EntriesSound'
  BY DEF EntriesSound
<1>2. Unmounted' = Unmounted
  BY DEF Unmounted, Place
<1>3. PlacesSound'
  BY <1>2, SoundStays DEF PlacesSound, SoundPlace, Drives
<1> QED
  BY <1>1, <1>3 DEF MountsInv

\* Every step keeps it, and what was mounted.
LEMMA StepMounts == Registry /\ MountsInv /\ [Next]_vars => MountsInv' /\ Settled
<1> SUFFICES ASSUME Registry, MountsInv, [Next]_vars PROVE MountsInv' /\ Settled
  OBVIOUS
<1>1. CASE DetectDrive
  <2>1. PICK d, bad : d \in Drives /\ Detect(d, bad) /\ d = boot
    BY <1>1 DEF DetectDrive
  <2>2. drives' = drives /\ fatFs' = fatFs
    BY <2>1 DEF Detect
  <2>3. EntriesSound'
    <3>1. CASE volToPart' = volToPart
      BY <3>1 DEF MountsInv, EntriesSound
    <3>2. CASE volToPart' # volToPart
      <4>1. PICK P : Registered(d, P) /\ P \in {Numbered(d), {0}}
        BY <2>1, <3>2 DEF Detect
      <4>2. P \subseteq 0 .. Entries
        BY <4>1, Constants DEF Numbered
      <4>3. ASSUME NEW v \in DOMAIN volToPart' PROVE volToPart'[v].pt \in 0 .. Entries
        <5>1. v \in DOMAIN volToPart
          BY <4>1, <4>3 DEF Registered
        <5>2. volToPart'[v] = IF \E i \in P : v = nextVolume + Before(P, i)
                              THEN [pd |-> d, pt |-> CHOOSE i \in P : v = nextVolume + Before(P, i)]
                              ELSE volToPart[v]
          BY <4>1, <5>1 DEF Registered
        <5>3. CASE \E i \in P : v = nextVolume + Before(P, i)
          <6>1. PICK c \in P : c = CHOOSE i \in P : v = nextVolume + Before(P, i)
            BY <5>3
          <6>2. volToPart'[v] = [pd |-> d, pt |-> c]
            BY <5>2, <5>3, <6>1
          <6>3. volToPart'[v].pt = c
            BY <6>2
          <6> QED
            BY <4>2, <6>1, <6>3
        <5>4. CASE ~ \E i \in P : v = nextVolume + Before(P, i)
          BY <5>1, <5>2, <5>4 DEF MountsInv, EntriesSound
        <5> QED
          BY <5>3, <5>4
      <4> QED
        BY <4>3 DEF EntriesSound
    <3> QED
      BY <3>1, <3>2
  <2>4. PlacesSound'
    <3>1. Unmounted' = Unmounted
      BY DEF Unmounted, Place
    <3> QED
      BY <2>2, <3>1, SoundStays DEF PlacesSound, MountsInv, SoundPlace, Drives
  <2> QED
    BY <2>2, <2>3, <2>4 DEF MountsInv, Settled
<1>2. ASSUME NEW v \in {0, 1}, Mount(v, MaxDrives + v, MaxDrives + v + 1) PROVE MountsInv' /\ Settled
  <2>1. PICK bad : FMount(v, bad)
    BY <1>2 DEF Mount
  <2>2. drives' = drives /\ volToPart' = volToPart
    BY <2>1 DEF FMount
  <2>3. v \notin DOMAIN fatFs
    <3>1. boot = MaxDrives + v
      BY <1>2 DEF Mount
    <3> QED
      BY <3>1, Constants DEF Registry
  <2>4. ASSUME NEW w \in DOMAIN fatFs' PROVE w \in DOMAIN fatFs \cup {v} /\ (w # v => fatFs'[w] = fatFs[w])
    BY <2>1 DEF FMount
  <2>5. ASSUME NEW w \in DOMAIN fatFs', fatFs'[w] # Unmounted PROVE SoundPlace(fatFs'[w])
    <3>1. CASE w = v
      <4>1. Mountable(v, bad) /\ fatFs'[v] = Place(volToPart[v].pd, FindVolume(volToPart[v].pd, volToPart[v].pt, bad))
        BY <2>1, <2>5, <3>1 DEF FMount
      <4>2. v \in DOMAIN volToPart
        BY Constants DEF Registry
      <4> QED
        BY <3>1, <4>1, <4>2, MountableSound DEF MountsInv
    <3>2. CASE w # v
      BY <2>4, <2>5, <3>2 DEF MountsInv, PlacesSound
    <3> QED
      BY <3>1, <3>2
  <2>6. MountsInv'
    BY <2>2, <2>5, KeepMounts DEF MountsInv
  <2>7. DOMAIN fatFs' = DOMAIN fatFs \cup {v}
    BY <2>1 DEF FMount
  <2> QED
    BY <2>2, <2>3, <2>4, <2>6, <2>7 DEF Settled
<1>3. CASE UNCHANGED volumeVars
  <2>1. drives' = drives /\ volToPart' = volToPart /\ fatFs' = fatFs
    BY <1>3 DEF volumeVars
  <2>2. MountsInv'
    BY <2>1, KeepMounts DEF MountsInv, PlacesSound
  <2> QED
    BY <2>1, <2>2 DEF Settled
<1>4. ASSUME NEW named, NEW bad, MountVolumes(named, bad) PROVE MountsInv' /\ Settled
  <2>1. /\ drives' = drives /\ volToPart' = volToPart /\ DOMAIN fatFs' = DOMAIN fatFs
        /\ \A w \in DOMAIN fatFs : fatFs'[w] = IF w \in named THEN MountedAt(w, bad) ELSE fatFs[w]
    BY <1>4 DEF MountVolumes
  <2>2. ASSUME NEW w \in DOMAIN fatFs', fatFs'[w] # Unmounted PROVE SoundPlace(fatFs'[w])
    <3>1. CASE w \in named
      BY <2>1, <2>2, <3>1, MountedSound
    <3>2. CASE w \notin named
      BY <2>1, <2>2, <3>2 DEF MountsInv, PlacesSound
    <3> QED
      BY <3>1, <3>2
  <2>3. MountsInv'
    BY <2>1, <2>2, KeepMounts DEF MountsInv
  <2>4. ASSUME NEW w \in DOMAIN fatFs, fatFs[w] # Unmounted PROVE fatFs'[w] = fatFs[w]
    <3>1. MountedAt(w, bad) = fatFs[w]
      BY <2>4 DEF MountedAt
    <3> QED
      BY <2>1, <3>1
  <2> QED
    BY <2>1, <2>3, <2>4 DEF Settled
<1>5. CASE Later
  BY <1>3, <1>4, <1>5 DEF Later
<1>6. CASE UNCHANGED vars
  BY <1>3, <1>6 DEF vars
<1> QED
  BY <1>1, <1>2, <1>5, <1>6, StepKinds

\* At first nothing is mounted.
LEMMA InitMounts == Init => MountsInv
<1> SUFFICES ASSUME Init PROVE MountsInv
  OBVIOUS
<1>1. fatFs = << >> /\ volToPart = [v \in 0 .. MaxVolumes - 1 |-> [pd |-> 0, pt |-> 0]]
  BY DEF Init, VolumesInit
<1>2. DOMAIN fatFs = {}
  BY <1>1
<1>3. 0 \in 0 .. Entries
  BY Constants
<1> QED
  BY <1>1, <1>2, <1>3 DEF MountsInv, EntriesSound, PlacesSound

(***************************************************************************)
(* Where the processes stand (kernel/syscall.c:189-206, elf.c:126).        *)
(***************************************************************************)
Letters == STRING \cup {"0"}
\* The paths a program can ask for.
Askable == [volume : Letters, pieces : Pieces]
\* The texts a directory can have.
Directories == {text \in Askable : Formed(text)}

\* These sets do not change.
LEMMA Rigid == Directories' = Directories /\ Texts' = Texts /\ Running' = Running /\ Prompt' = Prompt
OBVIOUS

\* A text of the constants is one a program can ask for.
LEMMA TextIs ==
    ASSUME NEW p \in Texts
    PROVE  p.volume \in STRING /\ p.pieces \in Pieces /\ p.pieces # << >> /\ p \in Askable
<1>1. p.volume \in STRING /\ p.pieces \in Seq(Seq(STRING)) /\ p.pieces # << >>
  BY DEF Texts
<1>2. ASSUME NEW w \in Seq(STRING) PROVE w \in Word
  <2>1. \A i \in 1 .. Len(w) : w[i] \in Characters
    BY DEF Characters
  <2>2. w = [i \in 1 .. Len(w) |-> w[i]] /\ Len(w) \in Nat
    OBVIOUS
  <2> QED
    BY <2>1, <2>2 DEF Word
<1>3. PICK q \in Seq(Seq(STRING)), n \in Nat : q = p.pieces /\ n = Len(q)
  BY <1>1
<1>4. \A i \in 1 .. n : q[i] \in Word
  BY <1>2, <1>3
<1>5. q \in [1 .. n -> Word]
  <2>1. \E m \in Nat : q \in [1 .. m -> Seq(STRING)]
    BY ONLY <1>3, SeqDef
  <2>2. q \in [1 .. n -> Seq(STRING)]
    BY <1>3, <2>1
  <2> QED
    BY <1>4, <2>2
<1>6. q \in Seq(Word)
  BY ONLY <1>5, n \in Nat, SeqDef
<1>7. p.volume \in Letters /\ p.pieces \in Pieces /\ p = [volume |-> p.volume, pieces |-> p.pieces]
  BY <1>1, <1>3, <1>6 DEF Pieces, Letters, Texts
<1> QED
  BY <1>1, <1>7 DEF Askable

\* A directory is a formed text, which is an answer.
LEMMA DirectoryIs ==
    ASSUME NEW text \in Directories
    PROVE  text.volume \in Letters /\ text.pieces \in Pieces /\ Formed(text) /\ Lettered(text.volume)
           /\ text \notin {Refused, Overrun}
BY FormedIs DEF Directories, Askable

\* What resolves in a directory is a directory.
LEMMA ResolvedDirectory ==
    ASSUME NEW here \in Directories, NEW p \in Askable, NEW left \in Leftovers
    PROVE  /\ PathResolve(here, p, left) \in {Refused, Overrun} \cup Directories
           /\ PathResolve(here, p, left) \in Directories => PathResolve(here, p, left).volume = VolumeOf(here, p)
<1>1. left \in Word
  BY EmptyWord
<1>2. PICK text : text = PathResolve(here, p, left)
  OBVIOUS
<1>3. text \in {Refused, Overrun} \/ (Formed(text) /\ text.volume = VolumeOf(here, p))
  BY <1>1, <1>2, DirectoryIs, Resolved DEF Askable
<1>4. VolumeOf(here, p) \in {here.volume, p.volume}
  BY ONLY Zenon DEF VolumeOf
<1>5. here.volume \in Letters /\ p.volume \in Letters
  BY DirectoryIs DEF Askable
<1>6. CASE Formed(text) /\ text.volume = VolumeOf(here, p)
  <2>1. PICK kept : text = TextOf(text.volume, kept)
    BY <1>6 DEF Formed
  <2>2. text.pieces \in Pieces /\ text.volume \in Letters
    BY <1>4, <1>5, <1>6, FormedIs
  <2>3. text = [volume |-> text.volume, pieces |-> Full(kept)] /\ text.pieces = Full(kept)
    BY <2>1 DEF TextOf
  <2> QED
    BY <1>2, <1>6, <2>2, <2>3 DEF Directories, Askable
<1> QED
  BY <1>2, <1>3, <1>6, DirectoryIs

\* The first program starts in a directory (kernel/elf.c:126).
LEMMA FirstDirectory == Root("0") \in Directories
<1>1. "0" \in Letters
  BY DEF Letters
<1>2. Lettered("0")
  BY Zenon DEF Lettered
<1>3. Formed(Root("0")) /\ Root("0").pieces \in Pieces
  BY <1>2, RootIs, FormedIs
<1>4. Root("0") = [volume |-> "0", pieces |-> Root("0").pieces]
  BY DEF Root
<1> QED
  BY <1>1, <1>3, <1>4 DEF Directories, Askable

\* Its volume is mounted and has a directory there.
Stands(text) ==
    /\ NumberIn(text) \in DOMAIN fatFs /\ fatFs[NumberIn(text)] # Unmounted
    /\ Seen(VolumeAt(fatFs[NumberIn(text)]), NodeOf(text).names, {}) \in {"root", "dir"}

\* The invariant of the current directories.
CwdInv ==
    /\ cwds \in Seq(Directories)
    /\ boot = Running <=> cwds # << >>
    /\ \A i \in 1 .. Len(cwds) : cwds[i] = Root("0") \/ Stands(cwds[i])

\* A directory that stands goes on standing: nothing is unmounted.
LEMMA StandsStays ==
    ASSUME Settled, NEW text, Stands(text)
    PROVE  Stands(text)'
<1>1. PICK n, names : n = NumberIn(text) /\ names = NodeOf(text).names
  OBVIOUS
<1>2. n \in DOMAIN fatFs' /\ fatFs'[n] = fatFs[n] /\ fatFs[n] # Unmounted
  BY <1>1 DEF Stands, Settled
<1>3. VolumeAt(fatFs[n])' = VolumeAt(fatFs[n])
  BY <1>2 DEF VolumeAt, Settled
<1>4. Seen(VolumeAt(fatFs[n]), names, {}) \in {"root", "dir"}
  BY <1>1 DEF Stands
<1>5. NumberIn(text)' = n /\ NodeOf(text)'.names = names
  BY <1>1
<1>6. Unmounted' = Unmounted
  OBVIOUS
<1> QED
  BY <1>2, <1>3, <1>4, <1>5, <1>6 DEF Stands

\* What was seen in spite of a failing read is there without it.
LEMMA SeenAnyhow ==
    ASSUME NEW files, NEW names, NEW bad, Seen(files, names, bad) \in {"root", "dir"}
    PROVE  Seen(files, names, {}) \in {"root", "dir"} /\ Seen(files, names, {}) = Seen(files, names, bad)
BY DEF Seen

\* A directory that f_opendir opens stands (kernel/syscall.c:194-200).
LEMMA EnteredStands ==
    ASSUME Settled, NEW text, NEW bad, Visit(text, bad), LookUp(text, bad) \in {"root", "dir"}
    PROVE  Stands(text)'
<1>1. PICK n, names : n = NumberIn(text) /\ names = NodeOf(text).names
  OBVIOUS
<1>2. /\ text \notin {Refused, Overrun} /\ MountedAt(n, bad) # Unmounted
      /\ Seen(VolumeAt(MountedAt(n, bad)), names, bad) \in {"root", "dir"}
  BY <1>1 DEF LookUp
<1>3. MountVolumes({n}, bad)
  BY <1>1, <1>2 DEF Visit
<1>4. n \in DOMAIN fatFs
  BY <1>2 DEF MountedAt
<1>5. PICK place : place = MountedAt(n, bad)
  OBVIOUS
<1>6. n \in DOMAIN fatFs' /\ fatFs'[n] = place
  BY <1>3, <1>4, <1>5 DEF MountVolumes
<1>7. Seen(VolumeAt(place), names, {}) \in {"root", "dir"} /\ place # Unmounted
  BY <1>2, <1>5, SeenAnyhow
<1>8. VolumeAt(fatFs[n])' = VolumeAt(place)
  BY <1>6 DEF VolumeAt, Settled
<1>9. NumberIn(text)' = n /\ NodeOf(text)'.names = names
  BY <1>1
<1>10. Unmounted' = Unmounted
  OBVIOUS
<1> QED
  BY <1>6, <1>7, <1>8, <1>9, <1>10 DEF Stands

\* Programs ask for the texts of the constants.
LEMMA AskedTexts == \A op \in {"chdir", "opendir", "stat", "open", "exec"} : Asked[op] \subseteq Texts
BY TextsAssumption

\* What a call does to the current directories: nothing, one more, or the last
\* one moves.
LEMMA AnsweredMoves ==
    ASSUME NEW op, NEW p, NEW command, NEW bad, NEW text, Answered(op, p, command, bad, text)
    PROVE  \/ cwds' = << >> /\ boot' = Prompt
           \/ /\ boot' = boot
              /\ \/ cwds' = cwds
                 \/ cwds' = Append(cwds, Cwd)
                 \/ /\ op = "chdir" /\ LookUp(text, bad) \in {"root", "dir"}
                    /\ cwds' = [cwds EXCEPT ![Len(cwds)] = text]
<1>1. CASE text = Overrun
  BY <1>1 DEF Answered, LoseAll
<1>2. CASE text # Overrun /\ LookUp(text, bad) \notin Accepts[op]
  BY <1>2 DEF Answered
<1>3. CASE text # Overrun /\ LookUp(text, bad) \in Accepts[op]
  <2>1. Effect(op, text) /\ boot' = boot
    BY <1>3 DEF Answered
  <2>2. CASE op = "chdir"
    <3>1. Accepts["chdir"] = {"root", "dir"}
      BY DEF Accepts
    <3> QED
      BY <1>3, <2>1, <2>2, <3>1 DEF Effect
  <2>3. CASE op # "chdir"
    BY <2>1, <2>3 DEF Effect
  <2> QED
    BY <2>2, <2>3
<1> QED
  BY <1>1, <1>2, <1>3

\* What a step does to the current directories.
Starts == cwds = << >> /\ boot' = Running /\ cwds' = <<Root("0")>>
\* The last process moves, starts another, or ends.
Moves ==
    /\ boot = Running /\ boot' = Running
    /\ \/ cwds' = cwds
       \/ cwds' = Append(cwds, Cwd)
       \/ Len(cwds) # 1 /\ cwds' = Front(cwds)
       \/ \E text \in Directories : Stands(text)' /\ cwds' = [cwds EXCEPT ![Len(cwds)] = text]
\* The machine is at the prompt, or not yet running.
Leaves == boot' # Running /\ cwds' = << >>

\* The two states of boot after the start.
LEMMA RunningIs == Running = MaxDrives + 4 /\ Prompt = MaxDrives + 5 /\ MaxDrives \in Nat /\ Prompt # Running
BY Constants DEF Running, Prompt

\* While programs run the last of them has a directory.
LEMMA CwdIs ==
    ASSUME CwdInv, boot = Running
    PROVE  /\ cwds # << >> /\ cwds \in Seq(Directories) /\ Len(cwds) \in Nat /\ Len(cwds) > 0
           /\ Cwd = cwds[Len(cwds)] /\ Cwd \in Directories /\ (Cwd = Root("0") \/ Stands(Cwd))
<1>1. cwds # << >> /\ cwds \in Seq(Directories)
  BY DEF CwdInv
<1>2. Len(cwds) \in Nat /\ Len(cwds) > 0
  BY <1>1
<1>3. Cwd = cwds[Len(cwds)] /\ Len(cwds) \in 1 .. Len(cwds)
  BY <1>2 DEF Cwd, Last
<1> QED
  BY <1>1, <1>2, <1>3 DEF CwdInv

\* A system call is such a move.
LEMMA CallMoves ==
    ASSUME CwdInv, Settled, NEW op \in {"chdir", "opendir", "stat", "open", "exec"}, SystemCall(op)
    PROVE  Moves \/ Leaves
<1>1. boot = Running
  BY DEF SystemCall
<1>2. PICK p, text, bad : /\ p \in Asked[op] /\ \E left \in Leftovers : text = PathResolve(Cwd, p, left)
                            /\ Visit(text, bad) /\ Answered(op, p, FALSE, bad, text)
  BY DEF SystemCall
<1>3. text \in {Refused, Overrun} \cup Directories
  BY <1>1, <1>2, AskedTexts, CwdIs, TextIs, ResolvedDirectory
<1>4. \/ cwds' = << >> /\ boot' = Prompt
      \/ /\ boot' = boot
         /\ \/ cwds' = cwds
            \/ cwds' = Append(cwds, Cwd)
            \/ /\ LookUp(text, bad) \in {"root", "dir"}
               /\ cwds' = [cwds EXCEPT ![Len(cwds)] = text]
  BY <1>2, AnsweredMoves
<1>5. CASE boot' = boot /\ LookUp(text, bad) \in {"root", "dir"} /\ cwds' = [cwds EXCEPT ![Len(cwds)] = text]
  <2>1. text \notin {Refused, Overrun}
    BY <1>5 DEF LookUp
  <2>2. text \in Directories /\ Stands(text)'
    BY <1>2, <1>3, <1>5, <2>1, EnteredStands
  <2> QED
    BY <1>1, <1>5, <2>2 DEF Moves
<1> QED
  BY <1>1, <1>4, <1>5, RunningIs DEF Moves, Leaves

\* A command of the shell is one.
LEMMA ShellMoves ==
    ASSUME CwdInv, ShellExec
    PROVE  Moves \/ Leaves
<1>1. boot = Running
  BY DEF ShellExec
<1>2. PICK p, names, texts, bad : RunFirst(p, names, texts, bad)
  BY DEF ShellExec
<1>3. \/ LoseAll("exec", p, TRUE, bad)
      \/ UNCHANGED <<cwds, boot>>
      \/ \E left : Answered("exec", p, TRUE, bad, PathResolve(Cwd, names[Cardinality(Tried(texts, bad))], left))
  BY <1>2 DEF RunFirst
<1>4. \/ cwds' = << >> /\ boot' = Prompt
      \/ boot' = boot /\ (cwds' = cwds \/ cwds' = Append(cwds, Cwd))
  <2>1. CASE LoseAll("exec", p, TRUE, bad)
    BY <2>1 DEF LoseAll
  <2>2. ASSUME NEW text, Answered("exec", p, TRUE, bad, text)
        PROVE  \/ cwds' = << >> /\ boot' = Prompt
               \/ boot' = boot /\ (cwds' = cwds \/ cwds' = Append(cwds, Cwd))
    <3>1. "exec" # "chdir"
      OBVIOUS
    <3> QED
      BY <2>2, <3>1, AnsweredMoves
  <2> QED
    BY <1>3, <2>1, <2>2
<1> QED
  BY <1>1, <1>4, RunningIs DEF Moves, Leaves

\* Every step is one.
LEMMA StepMoves ==
    ASSUME Registry, CwdInv, Settled, Next
    PROVE  Starts \/ Moves \/ Leaves
<1>1. ASSUME NEW to, BootStep(to), boot # Running, to # Running PROVE Leaves
  BY <1>1 DEF BootStep, CwdInv, Leaves
<1>2. CASE DetectDrive
  <2>1. boot \in Drives /\ BootStep(boot + 1) /\ boot < MaxDrives /\ boot \in Nat
    BY <1>2, Constants DEF DetectDrive, Drives
  <2>2. boot # Running /\ boot + 1 # Running
    BY <2>1, RunningIs
  <2> QED
    BY <1>1, <2>1, <2>2
<1>3. ASSUME NEW v \in {0, 1}, Mount(v, MaxDrives + v, MaxDrives + v + 1) PROVE Leaves
  <2>1. boot = MaxDrives + v /\ BootStep(MaxDrives + v + 1)
    BY <1>3 DEF Mount
  <2>2. boot # Running /\ MaxDrives + v + 1 # Running
    BY <2>1, RunningIs
  <2> QED
    BY <1>1, <2>1, <2>2
<1>4. CASE Mount(0, MaxDrives, MaxDrives + 1) \/ Mount(1, MaxDrives + 1, MaxDrives + 2)
  <2>1. MaxDrives + 0 = MaxDrives /\ MaxDrives + 0 + 1 = MaxDrives + 1 /\ MaxDrives + 1 + 1 = MaxDrives + 2
    BY RunningIs
  <2> QED
    BY <1>3, <1>4, <2>1
<1>5. CASE ListRoot
  <2>1. boot = MaxDrives + 2 /\ BootStep(boot + 1)
    BY <1>5 DEF ListRoot
  <2>2. boot # Running /\ boot + 1 # Running
    BY <2>1, RunningIs
  <2> QED
    BY <1>1, <2>1, <2>2
<1>6. CASE LoadFirst
  <2>1. boot = MaxDrives + 3 /\ ((boot' = Running /\ cwds' = <<Root("0")>>) \/ (boot' = Prompt /\ cwds' = << >>))
    BY <1>6 DEF LoadFirst
  <2>2. boot # Running
    BY <2>1, RunningIs
  <2> QED
    BY <2>1, <2>2, RunningIs DEF CwdInv, Starts, Leaves
<1>7. CASE SysChDir \/ SysOpenDir \/ SysStat \/ SysOpen \/ SysExec
  BY <1>7, CallMoves DEF SysChDir, SysOpenDir, SysStat, SysOpen, SysExec
<1>8. CASE SysExit
  <2>1. boot = Running /\ cwds' = Front(cwds) /\ boot' = IF Len(cwds) = 1 THEN Prompt ELSE boot
    BY <1>8 DEF SysExit
  <2>2. CASE Len(cwds) = 1
    <3>1. Front(cwds) = << >>
      BY <2>1, <2>2, CwdIs DEF Front
    <3> QED
      BY <2>1, <2>2, <3>1, RunningIs DEF Leaves
  <2> QED
    BY <2>1, <2>2 DEF Moves
<1>9. CASE ShellExec
  BY <1>9, ShellMoves
<1>10. CASE Idle
  BY <1>10, RunningIs DEF Idle, vars, CwdInv, Leaves
<1> QED
  BY <1>2, <1>4, <1>5, <1>6, <1>7, <1>8, <1>9, <1>10 DEF Next

\* Every step keeps the invariant of the directories.
LEMMA StepCwds == Registry /\ MountsInv /\ CwdInv /\ [Next]_vars => CwdInv'
<1> SUFFICES ASSUME Registry, MountsInv, CwdInv, [Next]_vars PROVE CwdInv'
  OBVIOUS
<1>1. Settled
  BY StepMounts
<1>2. \A text : Stands(text) => Stands(text)'
  BY <1>1, StandsStays
<1>3. Root("0")' = Root("0")
  OBVIOUS
<1>4. CASE UNCHANGED vars
  <2>1. cwds' = cwds /\ boot' = boot
    BY <1>4 DEF vars
  <2> QED
    BY <1>2, <2>1, Rigid DEF CwdInv
<1>5. CASE Starts
  <2>1. <<Root("0")>> \in Seq(Directories) /\ Len(<<Root("0")>>) = 1 /\ <<Root("0")>>[1] = Root("0")
    BY FirstDirectory
  <2>2. cwds' \in Seq(Directories) /\ Len(cwds') = 1 /\ cwds'[1] = Root("0") /\ boot' = Running
    BY <1>5, <2>1 DEF Starts
  <2>3. cwds' # << >>
    <3>1. <<Root("0")>> # << >>
      BY <2>1
    <3> QED
      BY <1>5, <3>1 DEF Starts
  <2>4. \A i \in 1 .. Len(cwds') : i = 1
    BY <2>2
  <2> QED
    BY <2>2, <2>3, <2>4, Rigid DEF CwdInv
<1>6. CASE Leaves
  <2>1. boot' # Running /\ cwds' = << >> /\ << >> \in Seq(Directories) /\ Len(<< >>) = 0
    BY <1>6 DEF Leaves
  <2> QED
    BY <2>1, Rigid DEF CwdInv
<1>7. CASE Moves
  <2>0. boot = Running /\ boot' = Running
    BY <1>7 DEF Moves
  <2>1. PICK n \in Nat : n = Len(cwds) /\ n > 0 /\ cwds \in Seq(Directories)
    BY <2>0, CwdIs
  <2>2. ASSUME NEW s \in Seq(Directories), cwds' = s, s # << >>, \A i \in 1 .. Len(s) : s[i] = Root("0") \/ Stands(s[i])'
        PROVE  CwdInv'
    BY <2>0, <2>2, Rigid DEF CwdInv
  <2>3. CASE cwds' = cwds
    BY <1>2, <2>1, <2>2, <2>3 DEF CwdInv
  <2>4. CASE cwds' = Append(cwds, Cwd)
    <3>1. PICK here \in Directories : here = Cwd /\ (here = Root("0") \/ Stands(here))
      BY <2>0, CwdIs
    <3>2. PICK s \in Seq(Directories) : /\ s = Append(cwds, here) /\ Len(s) = n + 1 /\ s[n + 1] = here
                                        /\ \A i \in 1 .. n : s[i] = cwds[i]
      <4>1. /\ Append(cwds, here) \in Seq(Directories) /\ Len(Append(cwds, here)) = Len(cwds) + 1
            /\ \A i \in 1 .. Len(cwds) : Append(cwds, here)[i] = cwds[i]
            /\ Append(cwds, here)[Len(cwds) + 1] = here
        BY ONLY <2>1, <3>1, AppendProperties
      <4> QED
        BY ONLY <2>1, <4>1
    <3>3. ASSUME NEW i \in 1 .. Len(s) PROVE s[i] = Root("0") \/ Stands(s[i])'
      <4>1. i \in 1 .. n \/ i = n + 1
        BY <3>2
      <4> QED
        BY <1>2, <2>1, <3>1, <3>2, <4>1 DEF CwdInv
    <3>4. s # << >>
      BY <2>1, <3>2
    <3> QED
      BY <2>2, <2>4, <3>1, <3>2, <3>3, <3>4
  <2>5. CASE Len(cwds) # 1 /\ cwds' = Front(cwds)
    <3>1. PICK s \in Seq(Directories) : s = Front(cwds) /\ Len(s) = n - 1 /\ \A i \in 1 .. n - 1 : s[i] = cwds[i]
      <4>1. Front(cwds) = SubSeq(cwds, 1, n - 1)
        BY <2>1 DEF Front
      <4>2. SubSeq(cwds, 1, n - 1) = [i \in 1 .. n - 1 |-> cwds[i]]
        BY <2>1
      <4>3. \A i \in 1 .. n - 1 : cwds[i] \in Directories
        BY <2>1
      <4>4. n - 1 \in Nat
        BY <2>1
      <4> QED
        BY ONLY <4>1, <4>2, <4>3, <4>4
    <3>2. s # << >>
      BY <2>1, <2>5, <3>1
    <3>3. ASSUME NEW i \in 1 .. Len(s) PROVE s[i] = Root("0") \/ Stands(s[i])'
      BY <1>2, <2>1, <3>1 DEF CwdInv
    <3> QED
      BY <2>2, <2>5, <3>1, <3>2, <3>3
  <2>6. ASSUME NEW text \in Directories, Stands(text)', cwds' = [cwds EXCEPT ![Len(cwds)] = text] PROVE CwdInv'
    <3>1. PICK s \in Seq(Directories) : /\ s = [cwds EXCEPT ![n] = text] /\ Len(s) = n
                                        /\ \A i \in 1 .. n : s[i] = IF i = n THEN text ELSE cwds[i]
      BY ONLY <2>1, <2>6, n \in 1 .. Len(cwds), ExceptSeq
    <3>2. s # << >>
      BY <2>1, <3>1
    <3>3. ASSUME NEW i \in 1 .. Len(s) PROVE s[i] = Root("0") \/ Stands(s[i])'
      BY <1>2, <2>1, <2>6, <3>1 DEF CwdInv
    <3> QED
      BY <2>1, <2>2, <2>6, <3>1, <3>2, <3>3
  <2> QED
    BY <1>7, <2>3, <2>4, <2>5, <2>6 DEF Moves
<1> QED
  BY <1>1, <1>4, <1>5, <1>6, <1>7, StepMoves

\* At first no process runs.
LEMMA InitCwds == Init => CwdInv
<1> SUFFICES ASSUME Init PROVE CwdInv
  OBVIOUS
<1>1. boot = 0 /\ cwds = << >> /\ << >> \in Seq(Directories) /\ Len(<< >>) = 0
  BY DEF Init
<1>2. boot # Running
  BY <1>1, RunningIs
<1> QED
  BY <1>1, <1>2 DEF CwdInv

(***************************************************************************)
(* Every current directory has no dots, so it is its own text.             *)
(***************************************************************************)
LEMMA StandingDotless ==
    ASSUME Registry, MountsInv, NEW text, Stands(text)
    PROVE  Dotless(NodeOf(text).names)
<1>1. PICK n, names, files : n = NumberIn(text) /\ names = NodeOf(text).names /\ files = VolumeAt(fatFs[n])
  OBVIOUS
<1>2. IsVolume(files)
  BY <1>1, SoundIsVolume DEF Stands, MountsInv, PlacesSound
<1>3. Seen(files, names, {}) \in {"root", "dir"}
  BY <1>1 DEF Stands
<1>4. names = << >> \/ names \in files.dirs
  BY <1>3 DEF Seen
<1>5. Dotless(<< >>)
  BY DEF Dotless
<1>6. names \in files.dirs => Dotless(names)
  BY <1>2 DEF IsVolume, Dotless
<1> QED
  BY <1>1, <1>4, <1>5, <1>6

\* The root has none either.
LEMMA DirectoriesDotless ==
    ASSUME Registry, MountsInv, NEW text, text = Root("0") \/ Stands(text)
    PROVE  Dotless(NodeOf(text).names)
<1>1. CASE text = Root("0")
  <2>1. NodeOf(text).names = << >>
    BY <1>1, RootIs
  <2> QED
    BY <2>1 DEF Dotless
<1> QED
  BY <1>1, StandingDotless

\* The invariants say what the run checks.
LEMMA CwdsStand == Registry /\ MountsInv /\ CwdInv => CwdStands
<1> SUFFICES ASSUME Registry, MountsInv, CwdInv, NEW i \in DOMAIN cwds
             PROVE  IsNormal(cwds[i]) /\ (cwds[i] # Root("0") => LookUp(cwds[i], {}) \in Accepts["chdir"])
  BY DEF CwdStands, AllNormal, DirectoriesStand
<1>1. PICK text \in Directories : text = cwds[i] /\ (text = Root("0") \/ Stands(text))
  BY DEF CwdInv
<1>2. IsNormal(text)
  BY <1>1, DirectoryIs, DirectoriesDotless, NormalIs
<1>3. ASSUME Stands(text) PROVE LookUp(text, {}) \in Accepts["chdir"]
  <2>1. PICK n, names : n = NumberIn(text) /\ names = NodeOf(text).names
    OBVIOUS
  <2>2. MountedAt(n, {}) = fatFs[n] /\ fatFs[n] # Unmounted
    BY <1>3, <2>1 DEF Stands, MountedAt
  <2>3. LookUp(text, {}) = Seen(VolumeAt(fatFs[n]), names, {})
    BY <2>1, <2>2, DirectoryIs DEF LookUp
  <2>4. Accepts["chdir"] = {"root", "dir"}
    BY DEF Accepts
  <2> QED
    BY <1>3, <2>1, <2>3, <2>4 DEF Stands
<1> QED
  BY <1>1, <1>2, <1>3

\* For any texts and limits: a process stands in a directory of a mounted
\* volume (or in the root it began with), and its dot leads to the same text,
\* unless a name in it is spoilt (kernel/path.c:5, kernel/syscall.c:196).
THEOREM SpecCwdStands == Spec => []CwdStands
<1>1. Init => VolumesInv /\ MountsInv /\ CwdInv
  BY InitVolumes, InitMounts, InitCwds
<1>2. VolumesInv /\ MountsInv /\ CwdInv /\ [Next]_vars => (VolumesInv /\ MountsInv /\ CwdInv)'
  BY StepVolumes, StepMounts, StepCwds DEF VolumesInv
<1>3. VolumesInv /\ MountsInv /\ CwdInv => CwdStands
  BY CwdsStand DEF VolumesInv
<1> QED
  BY <1>1, <1>2, <1>3, PTL DEF Spec

(***************************************************************************)
(* A walk, and each of its beginnings.                                     *)
(***************************************************************************)
LEMMA StrodeOnly ==
    ASSUME NEW names \in Pieces, NEW pieces \in Pieces, NEW g, Strode(g, names, pieces)
    PROVE  Names!Strides(names, pieces) = g[Len(pieces)]
<1>1. PICK n \in Nat : n = Len(pieces)
  BY LenIs
<1>2. PICK f : Strode(f, names, pieces) /\ Names!Strides(names, pieces) = f[n]
  BY <1>1, StrodeIs
<1>3. Follow(f, g, n)
  BY <1>1, <1>2 DEF Strode, Follow
<1> QED
  BY <1>1, <1>2, <1>3, SameClimb

\* A beginning of a walk is a walk of the beginning.
LEMMA StrodeUpto ==
    ASSUME NEW names \in Pieces, NEW pieces \in Pieces, NEW g, Strode(g, names, pieces), NEW k \in 0 .. Len(pieces)
    PROVE  SubSeq(pieces, 1, k) \in Pieces /\ Names!Strides(names, SubSeq(pieces, 1, k)) = g[k]
<1>1. PICK n \in Nat : n = Len(pieces)
  BY LenIs
<1>2. k \in Nat /\ k \in 0 .. n
  BY <1>1
<1>3. PICK s \in Pieces : s = SubSeq(pieces, 1, k) /\ Len(s) = k /\ \A i \in 1 .. k : s[i] = pieces[i]
  <2>1. \A i \in 1 .. k : pieces[i] \in Word
    BY <1>1, <1>2, PieceIs
  <2>2. /\ SubSeq(pieces, 1, k) \in Seq(Word)
        /\ Len(SubSeq(pieces, 1, k)) = IF 1 <= k THEN k - 1 + 1 ELSE 0
        /\ \A i \in 1 .. k - 1 + 1 : SubSeq(pieces, 1, k)[i] = pieces[1 + i - 1]
    BY ONLY <2>1, <1>2, 1 \in Int, k \in Int, SubSeqProperties
  <2>3. k - 1 + 1 = k /\ (IF 1 <= k THEN k - 1 + 1 ELSE 0) = k /\ \A i \in 1 .. k : 1 + i - 1 = i
    BY <1>2
  <2> QED
    BY <2>2, <2>3 DEF Pieces
<1> DEFINE h == [i \in 0 .. k |-> g[i]]
<1>4. Strode(h, names, s)
  <2>1. \A i \in 0 .. k : i \in 0 .. n
    BY <1>2
  <2>2. h \in [0 .. Len(s) -> Pieces] /\ h[0] = names
    BY <1>1, <1>2, <1>3, <2>1 DEF Strode
  <2>3. ASSUME NEW i \in 1 .. Len(s) PROVE h[i] = Names!Stride(h[i - 1], s[i])
    <3>1. i \in 1 .. k /\ i \in 1 .. n /\ i \in 0 .. k /\ i - 1 \in 0 .. k
      BY <1>2, <1>3
    <3>2. g[i] = Names!Stride(g[i - 1], pieces[i])
      BY <1>1, <3>1 DEF Strode
    <3> QED
      BY <1>3, <3>1, <3>2
  <2> HIDE DEF h
  <2> QED
    BY <2>2, <2>3 DEF Strode
<1>5. h[k] = g[k]
  BY <1>2
<1> HIDE DEF h
<1>6. PICK w : Strode(w, names, s) /\ w[k] = g[k]
  BY <1>4, <1>5
<1>7. Names!Strides(names, s) = w[Len(s)]
  BY <1>6, StrodeOnly
<1> QED
  BY <1>3, <1>6, <1>7

\* The names a walk begins with.
Base(here, p) == IF IsRooted(p.pieces) THEN << >> ELSE here.names

\* A walk from a directory, as the strides from there.
LEMMA WalkIs ==
    ASSUME NEW here, NEW p
    PROVE  /\ Names!Walk(here, p).names = Names!Strides(Base(here, p), p.pieces)
           /\ Names!Walk(here, p) = [volume |-> VolumeOf(here, p), names |-> Names!Strides(Base(here, p), p.pieces)]
<1>1. Names!IsRooted(p) <=> IsRooted(p.pieces)
  BY DEF Names!IsRooted, IsRooted
<1>2. Names!Walk(here, p) = [volume |-> VolumeOf(here, p), names |-> Names!Strides(Base(here, p), p.pieces)]
  BY ONLY <1>1, Zenon DEF Names!Walk, VolumeOf, Base
<1> QED
  BY <1>2

\* What it means that a path fits, in numbers.
LEMMA FitsIs ==
    ASSUME NEW here, NEW p, Names!Fits(here, p), p = [volume |-> p.volume, pieces |-> p.pieces]
    PROVE  /\ Names!Size(p.pieces) - 1 + (IF IsRooted(p.pieces) THEN 0 ELSE 1 + (IF here.names = << >> THEN 1 ELSE Names!Size(here.names)))
                  <= PathMax - 3
           /\ \A i \in DOMAIN p.pieces : Len(p.pieces[i]) < PartSize - 1
           /\ ~ IsRooted(p.pieces) => \A i \in DOMAIN here.names : Len(here.names[i]) < PartSize - 1
           /\ \A k \in DOMAIN p.pieces :
                  \E x : /\ x.pieces = SubSeq(p.pieces, 1, k)
                         /\ Len(Names!Strides(Base(here, x), SubSeq(p.pieces, 1, k))) <= MaxParts
<1>1. Names!IsRooted(p) <=> IsRooted(p.pieces)
  BY DEF Names!IsRooted, IsRooted
<1>2. Names!Size(p.pieces) - 1 + (IF IsRooted(p.pieces) THEN 0 ELSE 1 + (IF here.names = << >> THEN 1 ELSE Names!Size(here.names)))
          <= PathMax - 3
  BY <1>1 DEF Names!Fits, Names!TextSize
<1>3. \A name \in ToSet(p.pieces) \cup (IF IsRooted(p.pieces) THEN {} ELSE ToSet(here.names)) : Len(name) < PartSize - 1
  BY <1>1 DEF Names!Fits, Names!ToSet, ToSet
<1>4. \A s : (\A i \in DOMAIN s : s[i] \in ToSet(s))
  BY DEF ToSet
<1>5. ASSUME NEW k \in DOMAIN p.pieces
      PROVE  \E x : /\ x.pieces = SubSeq(p.pieces, 1, k)
                    /\ Len(Names!Strides(Base(here, x), SubSeq(p.pieces, 1, k))) <= MaxParts
  <2>1. PICK x : x = [p EXCEPT !.pieces = SubSeq(@, 1, k)] /\ Len(Names!Walk(here, x).names) <= MaxParts
    BY DEF Names!Fits
  <2>2. x.pieces = SubSeq(p.pieces, 1, k)
    <3>1. PICK volume, pieces : volume = p.volume /\ pieces = p.pieces /\ p = [volume |-> volume, pieces |-> pieces]
      OBVIOUS
    <3>2. x = [volume |-> volume, pieces |-> SubSeq(pieces, 1, k)]
      BY <2>1, <3>1
    <3> QED
      BY <3>1, <3>2
  <2> QED
    BY <2>1, <2>2, WalkIs
<1> QED
  BY <1>2, <1>3, <1>4, <1>5

(***************************************************************************)
(* A text whose last part came to nothing reads on as without it.          *)
(***************************************************************************)
Slash == << << >> >>

\* A text with a last empty part is the text without it and a slash.
LEMMA FullSlash ==
    ASSUME NEW names \in Pieces, names # << >>
    PROVE  Append(names, << >>) \in Pieces /\ Full(Append(names, << >>)) = Full(names) \o Slash
<1>1. PICK s \in Pieces : s = Slash /\ Len(s) = 1 /\ s[1] = << >>
  BY OneEmpty DEF Slash
<1>2. Append(names, << >>) = names \o s
  <2>1. names \in Seq(Word) /\ s \in Seq(Word) /\ << >> \in Word
    BY <1>1, EmptyWord DEF Pieces
  <2>2. /\ Append(names, << >>) \in Seq(Word)
        /\ Len(Append(names, << >>)) = Len(names) + 1
        /\ \A i \in 1 .. Len(names) : Append(names, << >>)[i] = names[i]
        /\ Append(names, << >>)[Len(names) + 1] = << >>
    BY ONLY <2>1, AppendProperties
  <2>3. /\ names \o s \in Seq(Word) /\ Len(names \o s) = Len(names) + Len(s)
        /\ \A i \in 1 .. Len(names) + Len(s) : (names \o s)[i] = IF i <= Len(names) THEN names[i] ELSE s[i - Len(names)]
    BY ONLY <2>1, ConcatProperties
  <2>4. PICK n \in Nat : n = Len(names)
    BY LenIs
  <2>5. ASSUME NEW i \in 1 .. n + 1 PROVE Append(names, << >>)[i] = (names \o s)[i]
    <3>1. CASE i <= n
      <4>1. i \in 1 .. n /\ i \in 1 .. n + 1
        BY <3>1
      <4> QED
        BY ONLY <1>1, <2>2, <2>3, <2>4, <3>1, <4>1
    <3>2. CASE i = n + 1
      <4>1. (names \o s)[i] = IF i <= n THEN names[i] ELSE s[i - n]
        BY ONLY <1>1, <2>3, <2>4, <3>2, n \in Nat
      <4>2. ~ (i <= n) /\ i - n = 1
        BY <3>2
      <4> QED
        BY ONLY <1>1, <2>2, <2>4, <3>2, <4>1, <4>2
    <3>3. i <= n \/ i = n + 1
      OBVIOUS
    <3> QED
      BY ONLY <3>1, <3>2, <3>3
  <2>6. Len(Append(names, << >>)) = Len(names \o s) /\ \A i \in 1 .. Len(Append(names, << >>)) : Append(names, << >>)[i] = (names \o s)[i]
    BY ONLY <1>1, <2>2, <2>3, <2>4, <2>5
  <2> QED
    BY ONLY <2>2, <2>3, <2>6, SeqEqual
<1>3. PICK a \in Pieces : a = Append(names, << >>) /\ a # << >> /\ a = names \o s
  <2>1. Append(names, << >>) \in Seq(Word) /\ Append(names, << >>) # << >>
    BY EmptyWord, AppendProperties DEF Pieces
  <2> QED
    BY <1>2, <2>1 DEF Pieces
<1>4. Full(a) = s \o a /\ Full(names) = s \o names
  BY <1>1, <1>3 DEF Full, Slash
<1>5. s \o (names \o s) = (s \o names) \o s
  BY ConcatAssociative DEF Pieces
<1> QED
  BY <1>1, <1>3, <1>4, <1>5

\* A formed text is that of its names, or has the slash.
LEMMA KeptIsOr ==
    ASSUME NEW kept, Shape(kept)
    PROVE  \/ NamesOf(kept) = kept
           \/ NamesOf(kept) # << >> /\ kept = Append(NamesOf(kept), << >>)
<1>1. SUFFICES ASSUME kept # << >>, kept[Len(kept)] = << >>
               PROVE  NamesOf(kept) # << >> /\ kept = Append(NamesOf(kept), << >>)
  BY DEF NamesOf
<1>2. NamesOf(kept) = Front(kept) /\ kept \in Pieces
  BY <1>1 DEF NamesOf, Shape
<1>3. PICK n \in Nat : n = Len(kept) /\ n > 0
  BY <1>1, <1>2, LenIs
<1>4. PICK s \in Pieces : s = Front(kept) /\ Len(s) = n - 1 /\ \A i \in 1 .. n - 1 : s[i] = kept[i]
  BY <1>1, <1>2, <1>3, FrontIs
<1>5. Append(s, << >>) = kept
  <2>1. s \in Seq(Word) /\ << >> \in Word /\ kept \in Seq(Word)
    BY <1>2, EmptyWord DEF Pieces
  <2>2. /\ Append(s, << >>) \in Seq(Word)
        /\ Len(Append(s, << >>)) = Len(s) + 1
        /\ \A i \in 1 .. Len(s) : Append(s, << >>)[i] = s[i]
        /\ Append(s, << >>)[Len(s) + 1] = << >>
    BY ONLY <2>1, AppendProperties
  <2>3. ASSUME NEW i \in 1 .. n PROVE Append(s, << >>)[i] = kept[i]
    <3>1. i \in 1 .. n - 1 \/ i = n
      BY <1>3
    <3>2. Len(s) + 1 = n
      BY <1>3, <1>4
    <3> QED
      BY <1>1, <1>3, <1>4, <2>2, <3>1, <3>2
  <2>4. Len(Append(s, << >>)) = Len(kept) /\ \A i \in 1 .. Len(kept) : Append(s, << >>)[i] = kept[i]
    BY <1>3, <1>4, <2>2, <2>3
  <2> QED
    BY ONLY <2>1, <2>2, <2>4, SeqEqual
<1>6. s # << >>
  <2>1. SUFFICES ASSUME s = << >> PROVE FALSE
    OBVIOUS
  <2>2. n = 1
    <3>1. Len(s) = 0
      BY ONLY <2>1, NoPieces
    <3>2. Len(s) = n - 1
      BY ONLY <1>4
    <3> QED
      BY ONLY <3>1, <3>2, n \in Nat
  <2>3. kept \in Seq(Word) /\ << << >> >> \in Seq(Word) /\ Len(kept) = Len(<< << >> >>)
        /\ \A i \in 1 .. Len(kept) : kept[i] = << << >> >>[i]
    <3>1. \A i \in 1 .. n : i = 1
      BY <2>2
    <3> QED
      BY <1>1, <1>2, <1>3, <2>2, <3>1, OneEmpty DEF Pieces
  <2>4. kept = << << >> >>
    BY ONLY <2>3, SeqEqual
  <2> QED
    BY <2>4 DEF Shape
<1> QED
  BY <1>2, <1>4, <1>5, <1>6

\* So a relative path leads on from the names.
LEMMA AnswerOn ==
    ASSUME NEW volume, VolumeSize(volume) = 2, NEW kept, Shape(kept), NEW names, names = NamesOf(kept), Ordinary(names),
           NEW t \in Pieces, NEW left \in Word, NEW h, Strode(h, names, t),
           2 + Names!Size(h[Len(t)]) < PathMax,
           \A i \in 1 .. Len(names) : Len(names[i]) < PartSize - 1,
           \A i \in 1 .. Len(t) : Len(t[i]) < PartSize - 1 /\ Len(h[i]) <= MaxParts
    PROVE  Answer(volume, Parsed(Full(kept) \o t, left), left) = TextOf(volume, h[Len(t)])
<1>0. names \in Pieces /\ Len(names) <= MaxParts /\ kept \in Pieces
  BY NamesOfIs DEF Shape
<1>1. CASE kept = names
  BY <1>0, <1>1, AnswerFrom
<1>2. CASE names # << >> /\ kept = Append(names, << >>)
  <2>1. PICK n \in Nat : n = Len(t)
    BY LenIs
  <2>2. PICK s \in Pieces : s = Slash /\ Len(s) = 1 /\ s[1] = << >>
    BY OneEmpty DEF Slash
  <2>3. PICK u \in Pieces : /\ u = s \o t /\ Len(u) = n + 1 /\ u[1] = << >>
                            /\ \A i \in 1 .. n : u[i + 1] = t[i]
    <3>1. s \in Seq(Word) /\ t \in Seq(Word)
      BY DEF Pieces
    <3>2. /\ s \o t \in Seq(Word) /\ Len(s \o t) = Len(s) + Len(t)
          /\ \A i \in 1 .. Len(s) + Len(t) : (s \o t)[i] = IF i <= Len(s) THEN s[i] ELSE t[i - Len(s)]
      BY ONLY <3>1, ConcatProperties
    <3>3. \A i \in 1 .. 1 + n : (s \o t)[i] = IF i <= 1 THEN s[i] ELSE t[i - 1]
      BY <2>1, <2>2, <3>2
    <3>4. 1 \in 1 .. 1 + n /\ Len(s \o t) = n + 1
      BY <2>1, <2>2, <3>2
    <3>5. ASSUME NEW i \in 1 .. n PROVE (s \o t)[i + 1] = t[i]
      <4>1. PICK x : x \in 1 .. 1 + n /\ x = i + 1 /\ ~ (x <= 1) /\ x - 1 = i
        OBVIOUS
      <4>2. (s \o t)[x] = IF x <= 1 THEN s[x] ELSE t[x - 1]
        BY ONLY <3>3, <4>1
      <4>3. (s \o t)[x] = t[i]
        BY ONLY <4>1, <4>2
      <4> QED
        BY <4>1, <4>3
    <3>6. (s \o t)[1] = << >>
      BY ONLY <2>2, <3>3, <3>4
    <3> QED
      BY <3>2, <3>4, <3>5, <3>6 DEF Pieces
  <2>4. Full(kept) \o t = Full(names) \o u
    <3>1. Full(names) \in Seq(Word) /\ s \in Seq(Word) /\ t \in Seq(Word)
      BY <1>0, FullType DEF Pieces
    <3>2. (Full(names) \o s) \o t = Full(names) \o (s \o t)
      BY ONLY <3>1, ConcatAssociative
    <3> QED
      BY <1>0, <1>2, <2>2, <2>3, <3>2, FullSlash
  <2> DEFINE g == [i \in 0 .. n + 1 |-> IF i = 0 THEN names ELSE h[i - 1]]
  <2>5. /\ g[0] = names /\ \A i \in 1 .. n + 1 : g[i] = h[i - 1]
        /\ g \in [0 .. n + 1 -> Pieces]
    <3>1. ASSUME NEW i \in 1 .. n + 1 PROVE h[i - 1] \in Pieces
      <4>1. i - 1 \in 0 .. n
        OBVIOUS
      <4> QED
        BY <2>1, <4>1 DEF Strode
    <3>2. \A i \in 0 .. n + 1 : i = 0 \/ i \in 1 .. n + 1
      OBVIOUS
    <3> QED
      BY <1>0, <3>1, <3>2
  <2> HIDE DEF g
  <2>6. ASSUME NEW i \in 1 .. n + 1 PROVE g[i] = Names!Stride(g[i - 1], u[i])
    <3>1. CASE i = 1
      <4>1. g[1] = h[1 - 1] /\ h[1 - 1] = names /\ g[1 - 1] = names
        BY <2>5 DEF Strode
      <4>2. Names!Stride(names, << >>) = names
        BY StrideCases
      <4> QED
        BY <2>3, <3>1, <4>1, <4>2
    <3>2. CASE i # 1
      <4>1. PICK j \in 1 .. n : i = j + 1 /\ i - 1 = j /\ j \in 1 .. n + 1
        <5>1. i - 1 \in 1 .. n /\ i = i - 1 + 1 /\ i - 1 \in 1 .. n + 1
          BY <3>2
        <5> QED
          BY <5>1
      <4>2. h[j] = Names!Stride(h[j - 1], t[j])
        BY <2>1 DEF Strode
      <4>3. g[i] = h[j] /\ g[j] = h[j - 1] /\ u[i] = t[j]
        BY <2>3, <2>5, <4>1
      <4> QED
        BY <4>1, <4>2, <4>3
    <3> QED
      BY <3>1, <3>2
  <2>7. Strode(g, names, u)
    BY <2>3, <2>5, <2>6 DEF Strode
  <2>8. g[Len(u)] = h[Len(t)]
    <3>1. n + 1 \in 1 .. n + 1 /\ n + 1 - 1 = n
      OBVIOUS
    <3> QED
      BY <2>1, <2>3, <2>5, <3>1
  <2>9. ASSUME NEW i \in 1 .. Len(u) PROVE Len(u[i]) < PartSize - 1 /\ Len(g[i]) <= MaxParts
    <3>0. i \in 1 .. n + 1
      BY <2>3
    <3>1. CASE i = 1
      <4>1. g[1] = h[1 - 1] /\ h[1 - 1] = names
        BY <2>5 DEF Strode
      <4>2. Len(u[1]) = 0 /\ 0 < PartSize - 1
        BY <2>3, NoPieces, Limits
      <4> QED
        BY <1>0, <3>1, <4>1, <4>2
    <3>2. CASE i # 1
      <4>1. PICK j \in 1 .. n : i = j + 1 /\ i - 1 = j
        <5>1. i - 1 \in 1 .. n /\ i = i - 1 + 1
          BY <3>0, <3>2
        <5> QED
          BY <5>1
      <4>2. g[i] = h[j] /\ u[i] = t[j]
        BY <2>3, <2>5, <3>0, <4>1
      <4> QED
        BY <2>1, <4>2
    <3> QED
      BY <3>1, <3>2
  <2>10. PICK w : Strode(w, names, u) /\ w[Len(u)] = h[Len(t)]
                  /\ \A i \in 1 .. Len(u) : Len(u[i]) < PartSize - 1 /\ Len(w[i]) <= MaxParts
    BY <2>7, <2>8, <2>9
  <2>11. Answer(volume, Parsed(Full(names) \o u, left), left) = TextOf(volume, w[Len(u)])
    <3>1. 2 + Names!Size(w[Len(u)]) < PathMax
      BY <2>10
    <3> QED
      BY <1>0, <2>10, <3>1, AnswerFrom
  <2> QED
    BY <2>4, <2>10, <2>11
<1> QED
  BY <1>1, <1>2, KeptIsOr

(***************************************************************************)
(* A walk from names without dots passes such names only.                  *)
(***************************************************************************)
LEMMA StrideOrdinary ==
    ASSUME NEW names, Ordinary(names), NEW name \in Word
    PROVE  Ordinary(Names!Stride(names, name))
<1>0. names \in Pieces /\ \A i \in 1 .. Len(names) : IsPlainName(names[i])
  BY DEF Ordinary
<1>1. PICK n \in Nat : n = Len(names)
  BY <1>0, LenIs
<1>2. CASE name \in {<< >>, Dot}
  BY <1>2, StrideCases
<1>3. CASE name = DotDot /\ names = << >>
  BY <1>3, StrideCases
<1>4. CASE name = DotDot /\ names # << >>
  <2>1. Names!Stride(names, name) = Front(names)
    BY <1>4, StrideCases
  <2>2. PICK s \in Pieces : s = Front(names) /\ Len(s) = n - 1 /\ \A i \in 1 .. n - 1 : s[i] = names[i]
    BY <1>0, <1>1, <1>4, FrontIs
  <2>3. \A i \in 1 .. n - 1 : i \in 1 .. n
    OBVIOUS
  <2>4. \A i \in 1 .. Len(s) : IsPlainName(s[i])
    BY <1>0, <1>1, <2>2, <2>3
  <2> QED
    BY <2>1, <2>2, <2>4 DEF Ordinary
<1>5. CASE name \notin {<< >>, Dot, DotDot}
  <2>1. Names!Stride(names, name) = Append(names, name)
    BY <1>5, StrideCases
  <2>2. PICK s \in Pieces : s = Append(names, name) /\ Len(s) = n + 1 /\ s[n + 1] = name /\ \A i \in 1 .. n : s[i] = names[i]
    <3>1. names \in Seq(Word) /\ name \in Word
      BY <1>0 DEF Pieces
    <3>2. /\ Append(names, name) \in Seq(Word) /\ Len(Append(names, name)) = Len(names) + 1
          /\ \A i \in 1 .. Len(names) : Append(names, name)[i] = names[i]
          /\ Append(names, name)[Len(names) + 1] = name
      BY ONLY <3>1, AppendProperties
    <3> QED
      BY <1>1, <3>2 DEF Pieces
  <2>3. IsPlainName(name)
    BY <1>5 DEF IsPlainName
  <2>4. \A i \in 1 .. n + 1 : i \in 1 .. n \/ i = n + 1
    OBVIOUS
  <2>5. \A i \in 1 .. Len(s) : IsPlainName(s[i])
    BY <1>0, <1>1, <2>2, <2>3, <2>4
  <2> QED
    BY <2>1, <2>2, <2>5 DEF Ordinary
<1> QED
  BY <1>2, <1>3, <1>4, <1>5

\* At each of its pieces.
LEMMA StrodeOrdinary ==
    ASSUME NEW names, Ordinary(names), NEW t \in Pieces, NEW h, Strode(h, names, t)
    PROVE  \A k \in 0 .. Len(t) : Ordinary(h[k])
<1>1. PICK n \in Nat : n = Len(t)
  BY LenIs
<1> DEFINE set == {k \in Nat : k <= n => Ordinary(h[k])}
<1>2. 0 \in set
  BY DEF Strode
<1>3. ASSUME NEW i \in 1 .. n, i - 1 \in set PROVE i \in set
  <2>1. i \in Nat /\ i - 1 <= n
    OBVIOUS
  <2>2. Ordinary(h[i - 1])
    BY <1>3, <2>1
  <2>3. h[i] = Names!Stride(h[i - 1], t[i]) /\ t[i] \in Word
    BY <1>1, PieceIs DEF Strode
  <2> QED
    BY <2>1, <2>2, <2>3, StrideOrdinary
<1> HIDE DEF set
<1>4. \A k \in 0 .. n : k \in set
  BY <1>2, <1>3, ClimbTo
<1>5. ASSUME NEW k \in 0 .. n PROVE Ordinary(h[k])
  BY <1>4 DEF set
<1> QED
  BY <1>1, <1>5

\* Names that fit are the names of their text.
LEMMA OrdinaryShape ==
    ASSUME NEW names, Ordinary(names), Len(names) <= MaxParts, 2 + Names!Size(names) < PathMax
    PROVE  Shape(names) /\ NamesOf(names) = names
<1>1. names \in Pieces /\ \A i \in 1 .. Len(names) : names[i] # << >>
  BY DEF Ordinary, IsPlainName
<1>2. PICK n \in Nat : n = Len(names) /\ (n = 0 <=> names = << >>)
  BY <1>1, LenIs
<1>3. names # << << >> >>
  <2>1. SUFFICES ASSUME names = << << >> >> PROVE FALSE
    OBVIOUS
  <2>2. Len(names) = 1 /\ names[1] = << >>
    BY <2>1, OneEmpty
  <2> QED
    BY <1>1, <2>2
<1>4. names # << >> => names[n] # << >>
  <2>1. ASSUME names # << >> PROVE n \in 1 .. n
    BY <1>2, <2>1
  <2> QED
    BY <1>1, <1>2, <2>1
<1> QED
  BY <1>1, <1>2, <1>3, <1>4 DEF Shape, NamesOf

(***************************************************************************)
(* A path that fits resolves to where its walk leads (kernel/path.c:5-66). *)
(***************************************************************************)
LEMMA RoomRooted ==
    ASSUME NEW here, NEW p, p = [volume |-> p.volume, pieces |-> p.pieces], p.pieces \in Pieces,
           Names!Fits(here, p), IsRooted(p.pieces)
    PROVE  \E g : /\ Strode(g, << >>, p.pieces)
                  /\ Names!Size(p.pieces) <= PathMax - 2
                  /\ 2 + Names!Size(g[Len(p.pieces)]) < PathMax
                  /\ \A i \in 1 .. Len(p.pieces) : Len(p.pieces[i]) < PartSize - 1 /\ Len(g[i]) <= MaxParts
<1>1. PICK q \in Pieces, n \in Nat : q = p.pieces /\ n = Len(q) /\ DOMAIN q = 1 .. n /\ n > 1 /\ q[1] = << >>
  BY LenIs DEF IsRooted
<1>2. PICK g : Strode(g, << >>, q)
  BY <1>1, NoPieces, StrodeIs
<1>3. PICK size \in Nat : size = Names!Size(q)
  BY SizeType
<1>4. size <= PathMax - 2
  <2>1. size - 1 + 0 <= PathMax - 3
    BY <1>1, <1>3, FitsIs
  <2> QED
    BY <2>1, Limits
<1>5. 2 + Names!Size(g[n]) < PathMax
  <2>1. PICK f : Sized(f, q) /\ size = f[n]
    BY <1>1, <1>3, SizeIs
  <2>2. n \in 1 .. Len(q)
    BY <1>1
  <2>3. Names!Size(g[n]) < f[n]
    BY <1>1, <1>2, <2>1, <2>2, StrodeLess
  <2>4. g[n] \in Pieces
    BY <1>1, <1>2 DEF Strode
  <2>5. Names!Size(g[n]) \in Nat
    BY <2>4, SizeType
  <2> QED
    BY <1>4, <2>1, <2>3, <2>5, Limits
<1>6. ASSUME NEW i \in 1 .. n PROVE Len(q[i]) < PartSize - 1 /\ Len(g[i]) <= MaxParts
  <2>1. Len(q[i]) < PartSize - 1
    BY <1>1, FitsIs
  <2>2. CASE i = 1
    <3>1. g[1] = Names!Stride(g[1 - 1], q[1]) /\ g[1 - 1] = << >>
      BY <1>1, <1>2 DEF Strode
    <3>2. g[1] = << >>
      BY <1>1, <3>1, StrideCases
    <3> QED
      BY <2>1, <2>2, <3>2, NoPieces, Limits
  <2>3. CASE i # 1
    <3>1. PICK x : /\ x.pieces = SubSeq(q, 1, i)
                   /\ Len(Names!Strides(Base(here, x), SubSeq(q, 1, i))) <= MaxParts
      BY <1>1, FitsIs
    <3>2. IsRooted(SubSeq(q, 1, i))
      <4>1. SubSeq(q, 1, i) = [j \in 1 .. i |-> q[j]] /\ i > 1
        BY <2>3
      <4> QED
        BY <1>1, <4>1 DEF IsRooted
    <3>3. Base(here, x) = << >>
      BY <3>1, <3>2 DEF Base
    <3>4. i \in 0 .. Len(q)
      BY <1>1
    <3>5. Names!Strides(<< >>, SubSeq(q, 1, i)) = g[i]
      BY <1>2, <3>4, NoPieces, StrodeUpto
    <3> QED
      BY <2>1, <3>1, <3>3, <3>5
  <2> QED
    BY <2>2, <2>3
<1> QED
  BY <1>1, <1>2, <1>3, <1>4, <1>5, <1>6

\* So has a relative one.
LEMMA RoomRelative ==
    ASSUME NEW kept, Shape(kept), NEW here, here.names = NamesOf(kept), Ordinary(here.names),
           NEW p, p = [volume |-> p.volume, pieces |-> p.pieces], p.pieces \in Pieces,
           Names!Fits(here, p), ~ IsRooted(p.pieces)
    PROVE  /\ Names!Size(Full(kept) \o p.pieces) <= PathMax
           /\ \A i \in 1 .. Len(here.names) : Len(here.names[i]) < PartSize - 1
           /\ \E h : /\ Strode(h, here.names, p.pieces)
                     /\ 2 + Names!Size(h[Len(p.pieces)]) < PathMax
                     /\ \A i \in 1 .. Len(p.pieces) : Len(p.pieces[i]) < PartSize - 1 /\ Len(h[i]) <= MaxParts
<1>1. PICK t \in Pieces, n \in Nat : t = p.pieces /\ n = Len(t) /\ DOMAIN t = 1 .. n
  BY LenIs
<1>2. PICK names \in Pieces, m \in Nat : names = here.names /\ m = Len(names) /\ DOMAIN names = 1 .. m
  BY LenIs DEF Ordinary
<1>3. PICK a \in Nat, b \in Nat : a = Names!Size(t) /\ b = Names!Size(names)
  BY SizeType
<1>4. a - 1 + (1 + (IF names = << >> THEN 1 ELSE b)) <= PathMax - 3
  BY <1>1, <1>2, <1>3, FitsIs
<1>5. \A i \in 1 .. n : Len(t[i]) < PartSize - 1
  BY <1>1, FitsIs
<1>6. \A i \in 1 .. m : Len(names[i]) < PartSize - 1
  BY <1>2, FitsIs
<1>7. PICK full \in Pieces, k \in Nat : /\ full = Full(names) /\ k = Len(full) /\ k > 1 /\ full[1] = << >>
                                        /\ Names!Size(full) = IF names = << >> THEN 2 ELSE b + 1
  BY <1>3, FullType, LenIs
<1>8. PICK c \in Nat : c = Names!Size(full) /\ c + a <= PathMax - 2
  <2>1. PICK c \in Nat : c = Names!Size(full)
    BY SizeType
  <2>2. c = IF names = << >> THEN 2 ELSE b + 1
    BY <1>7, <2>1
  <2>3. c + a <= PathMax - 2
    BY ONLY <1>4, <2>2, Limits, a \in Nat, b \in Nat, c \in Nat
  <2> QED
    BY <2>1, <2>3
<1>9. PICK q \in Pieces : q = full \o t /\ Names!Size(q) = c + a
  BY <1>3, <1>8, SizeConcat
<1>10. PICK g : Strode(g, << >>, q)
  BY NoPieces, StrodeIs
<1>11. g[k] = names
  BY <1>2, <1>7, <1>9, <1>10, StrodeFull
<1>12. PICK h : /\ Strode(h, names, t)
                /\ Len(q) = k + n
                /\ h[n] = g[k + n]
                /\ q[1] = << >>
  <2>1. PICK h : /\ Strode(h, g[k], t)
                 /\ Len(q) = k + n
                 /\ \A j \in 0 .. n : h[j] = g[k + j]
                 /\ \A i \in 1 .. k + n : q[i] = IF i <= k THEN full[i] ELSE t[i - k]
    <3>1. full \in Pieces /\ t \in Pieces /\ Strode(g, << >>, full \o t)
      BY <1>9, <1>10
    <3>2. PICK h : /\ Strode(h, g[Len(full)], t)
                   /\ Len(full \o t) = Len(full) + Len(t)
                   /\ \A j \in 0 .. Len(t) : h[j] = g[Len(full) + j]
                   /\ \A i \in 1 .. Len(full) + Len(t) : (full \o t)[i] = IF i <= Len(full) THEN full[i] ELSE t[i - Len(full)]
      BY ONLY <3>1, StrodeOn
    <3> QED
      BY ONLY <1>1, <1>7, <1>9, <3>2
  <2>2. n \in 0 .. n /\ 1 \in 1 .. k + n /\ 1 <= k
    BY <1>7
  <2>3. h[n] = g[k + n] /\ q[1] = << >>
    BY ONLY <1>7, <2>1, <2>2
  <2> QED
    BY <1>11, <2>1, <2>3
<1>13. 2 + Names!Size(h[n]) < PathMax
  <2>1. PICK f : Sized(f, q) /\ c + a = f[k + n]
    BY <1>9, <1>12, SizeIs
  <2>2. k + n \in 1 .. Len(q)
    BY <1>7, <1>12
  <2>3. Names!Size(g[k + n]) < f[k + n]
    BY <1>10, <1>12, <2>1, <2>2, StrodeLess
  <2>4. h[n] \in Pieces
    BY <1>1, <1>12 DEF Strode
  <2>5. PICK d \in Nat : d = Names!Size(h[n])
    BY <2>4, SizeType
  <2>6. d < c + a
    BY ONLY <1>12, <2>1, <2>3, <2>5
  <2>7. 2 + d < PathMax
    BY ONLY <1>8, <2>6, Limits, a \in Nat, c \in Nat, d \in Nat
  <2> QED
    BY <2>5, <2>7
<1>14. ASSUME NEW i \in 1 .. n PROVE Len(h[i]) <= MaxParts
  <2>1. PICK x : /\ x.pieces = SubSeq(t, 1, i)
                 /\ Len(Names!Strides(Base(here, x), SubSeq(t, 1, i))) <= MaxParts
    BY <1>1, FitsIs
  <2>2. ~ IsRooted(SubSeq(t, 1, i))
    <3>1. SubSeq(t, 1, i) = [j \in 1 .. i |-> t[j]]
      OBVIOUS
    <3>2. Len(SubSeq(t, 1, i)) = i /\ SubSeq(t, 1, i)[1] = t[1]
      BY <3>1
    <3>3. i > 1 => n > 1
      OBVIOUS
    <3> QED
      BY <1>1, <3>2, <3>3 DEF IsRooted
  <2>3. Base(here, x) = names
    BY <1>2, <2>1, <2>2 DEF Base
  <2>4. i \in 0 .. Len(t)
    BY <1>1
  <2>5. Names!Strides(names, SubSeq(t, 1, i)) = h[i]
    BY <1>12, <2>4, StrodeUpto
  <2> QED
    BY ONLY <2>1, <2>3, <2>5
<1>15. Names!Size(Full(kept) \o t) <= PathMax
  <2>1. CASE kept = names
    BY <1>7, <1>8, <1>9, <2>1, Limits
  <2>2. CASE names # << >> /\ kept = Append(names, << >>)
    <3>1. PICK s \in Pieces : s = Slash /\ Names!Size(s) = 1
      <4>1. Slash \in Pieces /\ Names!Size(Slash) = Len(<< >>) + 1
        BY EmptyWord, SizeOfOne DEF Slash
      <4> QED
        BY <4>1, NoPieces
    <3>2. Full(kept) = full \o s
      BY <1>7, <2>2, <3>1, FullSlash
    <3>3. full \o s \in Pieces /\ Names!Size(full \o s) = c + 1
      BY <1>8, <3>1, SizeConcat
    <3>4. Names!Size(Full(kept) \o t) = c + 1 + a
      BY <1>3, <3>2, <3>3, SizeConcat
    <3> QED
      BY <1>8, <3>4, Limits
  <2> QED
    BY <1>2, <2>1, <2>2, KeptIsOr
<1> QED
  BY <1>1, <1>2, <1>5, <1>6, <1>12, <1>13, <1>14, <1>15

\* Together: what resolves is where the walk leads.
LEMMA WalkResolves ==
    ASSUME NEW volume, Lettered(volume), NEW kept, Shape(kept), Ordinary(NamesOf(kept)),
           NEW here, here = TextOf(volume, kept), NEW p, p = [volume |-> p.volume, pieces |-> p.pieces], p.pieces \in Pieces,
           Names!Fits(NodeOf(here), p), NEW left \in Word
    PROVE  /\ Formed(PathResolve(here, p, left))
           /\ NodeOf(PathResolve(here, p, left)) = Names!Walk(NodeOf(here), p)
<1>1. PICK node : node = NodeOf(here) /\ node.names = NamesOf(kept) /\ node.volume = volume
  BY NodeOfText
<1>2. here.volume = volume /\ here.pieces = Full(kept)
  BY DEF TextOf
<1>3. PICK v : v = VolumeOf(here, p) /\ v = VolumeOf(node, p) /\ Lettered(v) /\ VolumeSize(v) = 2
  <2>1. VolumeOf(here, p) = VolumeOf(node, p)
    BY ONLY <1>1, <1>2, Zenon DEF VolumeOf
  <2> QED
    BY <1>2, <2>1, VolumeOfIs, LetteredIs
<1>4. PICK t \in Pieces, n \in Nat : t = p.pieces /\ n = Len(t)
  BY LenIs
<1>5. SUFFICES \E names, g : /\ Ordinary(names) /\ Len(names) <= MaxParts
                             /\ names = Base(node, p) /\ Strode(g, names, t)
                             /\ 2 + Names!Size(g[n]) < PathMax
                             /\ \A i \in 1 .. n : Len(g[i]) <= MaxParts
                             /\ PathResolve(here, p, left) = TextOf(v, g[n])
  <2>1. PICK names, g : /\ Ordinary(names) /\ Len(names) <= MaxParts
                        /\ names = Base(node, p) /\ Strode(g, names, t)
                        /\ 2 + Names!Size(g[n]) < PathMax
                        /\ \A i \in 1 .. n : Len(g[i]) <= MaxParts
                        /\ PathResolve(here, p, left) = TextOf(v, g[n])
    BY <1>5
  <2>2. n \in 0 .. n /\ (n = 0 \/ n \in 1 .. n)
    OBVIOUS
  <2>3. PICK last : last = g[n] /\ Ordinary(last) /\ Len(last) <= MaxParts /\ 2 + Names!Size(last) < PathMax
    <3>1. Ordinary(g[n])
      BY <1>4, <2>1, <2>2, StrodeOrdinary
    <3>2. g[0] = names
      BY <2>1 DEF Strode
    <3> QED
      BY <2>1, <2>2, <3>1, <3>2
  <2>4. Shape(last) /\ NamesOf(last) = last
    BY <2>3, OrdinaryShape
  <2>5. NodeOf(TextOf(v, last)) = [volume |-> v, names |-> last]
    BY <2>4, NodeOfText
  <2>6. Names!Strides(names, t) = last
    BY <1>4, <2>1, <2>3, StrodeOnly DEF Ordinary
  <2>7. Names!Walk(node, p) = [volume |-> v, names |-> last]
    BY <1>3, <1>4, <2>1, <2>6, WalkIs
  <2>8. TextOf(v, last).volume = v
    BY DEF TextOf
  <2>9. Formed(TextOf(v, last))
    BY <1>3, <2>4, <2>8 DEF Formed
  <2> QED
    BY <1>1, <2>1, <2>3, <2>5, <2>7, <2>9
<1>6. PathResolve(here, p, left) = Answer(v, Parsed(Joined(here, p), left), left)
  BY <1>3, ResolveIs
<1>7. CASE IsRooted(p.pieces)
  <2>1. PICK g : /\ Strode(g, << >>, t)
                 /\ Names!Size(t) <= PathMax - 2
                 /\ 2 + Names!Size(g[n]) < PathMax
                 /\ \A i \in 1 .. n : Len(t[i]) < PartSize - 1 /\ Len(g[i]) <= MaxParts
    BY <1>1, <1>4, <1>7, RoomRooted
  <2>2. Joined(here, p) = t
    <3>1. t = IF IsRooted(p.pieces) THEN p.pieces ELSE here.pieces \o p.pieces
      BY <1>4, <1>7
    <3>2. Names!Size(t) <= PathMax
      BY <2>1, SizeType, Limits
    <3> QED
      BY <3>1, <3>2, JoinedIs
  <2>3. Answer(v, Parsed(t, left), left) = TextOf(v, g[n])
    BY <1>3, <1>4, <2>1, AnswerFollows
  <2>4. PICK none \in Pieces : none = << >> /\ Ordinary(none) /\ Len(none) <= MaxParts /\ none = Base(node, p)
    BY <1>7, NoPieces, NoneIs, Limits DEF Base
  <2> QED
    BY <1>6, <2>1, <2>2, <2>3, <2>4
<1>8. CASE ~ IsRooted(p.pieces)
  <2>1. PICK names \in Pieces : names = node.names /\ names = NamesOf(kept) /\ Ordinary(names) /\ Len(names) <= MaxParts /\ names = Base(node, p)
    BY <1>1, <1>8, NamesOfIs DEF Base
  <2>2. /\ Names!Size(Full(kept) \o t) <= PathMax
        /\ \A i \in 1 .. Len(names) : Len(names[i]) < PartSize - 1
        /\ \E h : /\ Strode(h, names, t)
                  /\ 2 + Names!Size(h[n]) < PathMax
                  /\ \A i \in 1 .. n : Len(t[i]) < PartSize - 1 /\ Len(h[i]) <= MaxParts
    <3>1. /\ node.names = NamesOf(kept) /\ Ordinary(node.names) /\ Names!Fits(node, p) /\ ~ IsRooted(p.pieces)
          /\ Shape(kept) /\ p = [volume |-> p.volume, pieces |-> p.pieces] /\ p.pieces \in Pieces
      BY <1>1, <1>8
    <3>2. /\ Names!Size(Full(kept) \o p.pieces) <= PathMax
          /\ \A i \in 1 .. Len(node.names) : Len(node.names[i]) < PartSize - 1
          /\ \E h : /\ Strode(h, node.names, p.pieces)
                    /\ 2 + Names!Size(h[Len(p.pieces)]) < PathMax
                    /\ \A i \in 1 .. Len(p.pieces) : Len(p.pieces[i]) < PartSize - 1 /\ Len(h[i]) <= MaxParts
      BY ONLY <3>1, RoomRelative
    <3> QED
      BY ONLY <1>4, <2>1, <3>2
  <2>3. PICK h : /\ Strode(h, names, t)
                 /\ 2 + Names!Size(h[n]) < PathMax
                 /\ \A i \in 1 .. n : Len(t[i]) < PartSize - 1 /\ Len(h[i]) <= MaxParts
    BY <2>2
  <2>4. Joined(here, p) = Full(kept) \o t
    <3>1. Full(kept) \in Pieces
      BY FullType DEF Shape
    <3>2. PICK q \in Pieces : q = Full(kept) \o t
      BY <3>1, SizeConcat
    <3>3. q = IF IsRooted(p.pieces) THEN p.pieces ELSE here.pieces \o p.pieces
      BY <1>2, <1>4, <1>8, <3>2
    <3> QED
      BY <2>2, <3>2, <3>3, JoinedIs
  <2>5. Answer(v, Parsed(Full(kept) \o t, left), left) = TextOf(v, h[n])
    <3>1. /\ VolumeSize(v) = 2 /\ Shape(kept) /\ names = NamesOf(kept) /\ Ordinary(names) /\ t \in Pieces /\ left \in Word
          /\ Strode(h, names, t) /\ 2 + Names!Size(h[Len(t)]) < PathMax
          /\ \A i \in 1 .. Len(names) : Len(names[i]) < PartSize - 1
          /\ \A i \in 1 .. Len(t) : Len(t[i]) < PartSize - 1 /\ Len(h[i]) <= MaxParts
      BY <1>3, <1>4, <2>1, <2>2, <2>3
    <3>2. Answer(v, Parsed(Full(kept) \o t, left), left) = TextOf(v, h[Len(t)])
      BY ONLY <3>1, AnswerOn
    <3> QED
      BY <1>4, <3>2
  <2> QED
    BY <1>6, <2>1, <2>3, <2>4, <2>5
<1> QED
  BY <1>7, <1>8

(***************************************************************************)
(* What a number means, and what is found there (fs/fatfs/ff.c:3461).      *)
(***************************************************************************)
LEMMA FilesOf ==
    Registry => /\ DOMAIN Volume = {DigitOf(v) : v \in DOMAIN fatFs}
                /\ \A v \in DOMAIN fatFs : /\ DigitOf(v) \in DOMAIN Volume
                                           /\ Volume[DigitOf(v)] = IF fatFs[v] = Unmounted THEN NoVolume ELSE VolumeAt(fatFs[v])
<1> SUFFICES ASSUME Registry
             PROVE  /\ DOMAIN Volume = {DigitOf(v) : v \in DOMAIN fatFs}
                    /\ \A v \in DOMAIN fatFs : /\ DigitOf(v) \in DOMAIN Volume
                                               /\ Volume[DigitOf(v)] = IF fatFs[v] = Unmounted THEN NoVolume ELSE VolumeAt(fatFs[v])
  OBVIOUS
<1>1. DOMAIN Volume = {DigitOf(v) : v \in DOMAIN fatFs}
  BY DEF Volume
<1>2. ASSUME NEW v \in DOMAIN fatFs
      PROVE  Volume[DigitOf(v)] = IF fatFs[v] = Unmounted THEN NoVolume ELSE VolumeAt(fatFs[v])
  <2>1. PICK c : c = DigitOf(v) /\ Digits[c] = v /\ c \in {DigitOf(w) : w \in DOMAIN fatFs}
    BY DigitIs DEF Registry
  <2>2. Volume[c] = IF fatFs[Digits[c]] = Unmounted THEN NoVolume ELSE VolumeAt(fatFs[Digits[c]])
    BY <2>1 DEF Volume
  <2> QED
    BY <2>1, <2>2
<1> QED
  BY <1>1, <1>2

\* The number of a volume and its digit.
LEMMA NumberIsDigit ==
    ASSUME NEW node
    PROVE  /\ NumberIn(node) \in {0, 1} => node.volume = DigitOf(NumberIn(node))
           /\ \A v \in {0, 1} : node.volume = DigitOf(v) => NumberIn(node) = v
<1>1. DOMAIN Digits = {"0", "1", "2"} /\ Digits["0"] = 0 /\ Digits["1"] = 1 /\ Digits["2"] = 2
  BY DEF Digits
<1>2. ASSUME NumberIn(node) \in {0, 1} PROVE node.volume = DigitOf(NumberIn(node))
  <2>1. node.volume \in DOMAIN Digits /\ NumberIn(node) = Digits[node.volume]
    BY <1>2, Constants DEF NumberIn
  <2>2. PICK n \in {0, 1} : n = NumberIn(node)
    BY <1>2
  <2>3. Digits[DigitOf(n)] = n /\ DigitOf(n) \in DOMAIN Digits
    BY DigitIs
  <2>4. \A c, d \in DOMAIN Digits : Digits[c] = Digits[d] => c = d
    BY <1>1
  <2> QED
    BY <2>1, <2>2, <2>3, <2>4
<1>3. ASSUME NEW v \in {0, 1}, node.volume = DigitOf(v) PROVE NumberIn(node) = v
  BY <1>3, DigitIs DEF NumberIn
<1> QED
  BY <1>2, <1>3

\* What a volume holds is what is seen there when no read fails.
LEMMA KindIs ==
    ASSUME NEW files, NEW names, files # NoVolume
    PROVE  Names!Kind(files, names) = Seen(files, names, {})
BY DEF Names!Kind, Seen

\* What is there, by number.
KindsAre ==
    \A node : Names!KindOf(Volume, node) =
                  IF NumberIn(node) \in DOMAIN fatFs /\ fatFs[NumberIn(node)] # Unmounted
                  THEN Seen(VolumeAt(fatFs[NumberIn(node)]), node.names, {}) ELSE "none"

\* What the mounted volumes hold is what a look without a failing read sees.
LEMMA KindThere == Registry /\ MountsInv => KindsAre
<1> SUFFICES ASSUME Registry, MountsInv, NEW node
             PROVE  Names!KindOf(Volume, node) =
                        IF NumberIn(node) \in DOMAIN fatFs /\ fatFs[NumberIn(node)] # Unmounted
                        THEN Seen(VolumeAt(fatFs[NumberIn(node)]), node.names, {}) ELSE "none"
  BY DEF KindsAre
<1>1. PICK n : n = NumberIn(node)
  OBVIOUS
<1>2. \A v \in DOMAIN fatFs : v \in {0, 1}
  BY DEF Registry
<1>3. CASE n \in DOMAIN fatFs
  <2>1. node.volume = DigitOf(n)
    BY <1>1, <1>2, <1>3, NumberIsDigit
  <2>2. node.volume \in DOMAIN Volume /\ Volume[node.volume] = IF fatFs[n] = Unmounted THEN NoVolume ELSE VolumeAt(fatFs[n])
    BY <1>3, <2>1, FilesOf
  <2>3. Names!KindOf(Volume, node) = Names!Kind(Volume[node.volume], node.names)
    BY <2>2 DEF Names!KindOf
  <2>4. CASE fatFs[n] = Unmounted
    <3>1. Names!Kind(NoVolume, node.names) = "none"
      BY DEF Names!Kind
    <3> QED
      BY <1>1, <2>2, <2>3, <2>4, <3>1
  <2>5. CASE fatFs[n] # Unmounted
    <3>1. VolumeAt(fatFs[n]) # NoVolume
      <4>1. SoundPlace(fatFs[n])
        BY <1>3, <2>5 DEF MountsInv, PlacesSound
      <4>2. IsVolume(VolumeAt(fatFs[n]))
        BY <4>1, SoundIsVolume
      <4> QED
        BY <4>2 DEF IsVolume
    <3>2. Names!Kind(VolumeAt(fatFs[n]), node.names) = Seen(VolumeAt(fatFs[n]), node.names, {})
      BY <3>1, KindIs
    <3> QED
      BY <1>1, <1>3, <2>2, <2>3, <2>5, <3>2
  <2> QED
    BY <2>4, <2>5
<1>4. CASE n \notin DOMAIN fatFs
  <2>1. node.volume \notin DOMAIN Volume
    <3>1. SUFFICES ASSUME node.volume \in DOMAIN Volume PROVE FALSE
      OBVIOUS
    <3>2. PICK v \in DOMAIN fatFs : node.volume = DigitOf(v)
      BY <3>1, FilesOf
    <3>3. n = v
      BY <1>1, <1>2, <3>2, NumberIsDigit
    <3> QED
      BY <1>4, <3>3
  <2>2. Names!KindOf(Volume, node) = "none"
    BY <2>1 DEF Names!KindOf
  <2> QED
    BY <1>1, <1>4, <2>2
<1> QED
  BY <1>3, <1>4

\* What is seen in spite of a failing read is what is there.
LEMMA SeenSame ==
    ASSUME NEW files, NEW names, NEW bad, bad = {} \/ Seen(files, names, bad) # "none"
    PROVE  Seen(files, names, {}) = Seen(files, names, bad)
BY DEF Seen

\* Once a volume was asked for, it is what the answers were about.
Visited(n, bad) == n \in DOMAIN fatFs => fatFs'[n] = MountedAt(n, bad)

\* After a look the abstract volume has what was seen.
LEMMA VisitedKind ==
    ASSUME Registry', MountsInv', drives' = drives, DOMAIN fatFs' = DOMAIN fatFs,
           NEW text, Formed(text), NEW bad, Visited(NumberIn(text), bad), bad = {} \/ LookUp(text, bad) # "none"
    PROVE  Names!KindOf(Volume', NodeOf(text)) = LookUp(text, bad)
<1>1. PICK node : node = NodeOf(text)
  OBVIOUS
<1>2. PICK n, names : n = NumberIn(text) /\ n = NumberIn(node) /\ names = node.names
  <2>1. NumberIn(text) = NumberIn(node)
    <3>1. node.volume = text.volume
      BY <1>1 DEF NodeOf
    <3> QED
      BY <3>1 DEF NumberIn
  <2> QED
    BY <2>1
<1>3. text \notin {Refused, Overrun}
  BY FormedIs
<1>4. LookUp(text, bad) = IF MountedAt(n, bad) = Unmounted THEN "none" ELSE Seen(VolumeAt(MountedAt(n, bad)), names, bad)
  BY <1>1, <1>2, <1>3 DEF LookUp
<1>5. Names!KindOf(Volume', node) =
          IF n \in DOMAIN fatFs' /\ fatFs'[n] # Unmounted THEN Seen(VolumeAt(fatFs[n])', names, {}) ELSE "none"
  <2>1. KindsAre'
    BY KindThere, PTL
  <2>2. Unmounted' = Unmounted
    OBVIOUS
  <2> QED
    BY <1>2, <2>1, <2>2 DEF KindsAre
<1>6. PICK kind : kind = Names!KindOf(Volume', node)
  OBVIOUS
<1>7. kind = IF n \in DOMAIN fatFs' /\ fatFs'[n] # Unmounted THEN Seen(VolumeAt(fatFs[n])', names, {}) ELSE "none"
  BY <1>2, <1>5, <1>6
<1>8. CASE n \notin DOMAIN fatFs
  <2>1. MountedAt(n, bad) = Unmounted
    BY <1>8 DEF MountedAt
  <2> QED
    BY <1>1, <1>4, <1>6, <1>7, <1>8, <2>1
<1>9. CASE n \in DOMAIN fatFs
  <2>1. PICK place : place = MountedAt(n, bad) /\ fatFs'[n] = place
    BY <1>2, <1>9 DEF Visited
  <2>2. VolumeAt(fatFs[n])' = VolumeAt(place)
    BY <2>1 DEF VolumeAt
  <2>3. place # Unmounted => Seen(VolumeAt(place), names, {}) = Seen(VolumeAt(place), names, bad)
    BY <1>4, <2>1, SeenSame
  <2> QED
    BY <1>1, <1>4, <1>6, <1>7, <1>9, <2>1, <2>2, <2>3
<1> QED
  BY <1>8, <1>9

(***************************************************************************)
(* The directories of the processes, for FatFs (kernel/syscall.c:196).     *)
(***************************************************************************)
Nodes == {NodeOf(text) : text \in Directories}
\* The places of some directories.
AtOf(s) == [i \in DOMAIN s |-> NodeOf(s[i])]

\* As many places as directories.
LEMMA AtIs ==
    ASSUME NEW s \in Seq(Directories)
    PROVE  /\ AtOf(s) \in Seq(Nodes) /\ Len(AtOf(s)) = Len(s) /\ Len(s) \in Nat
           /\ \A i \in 1 .. Len(s) : AtOf(s)[i] = NodeOf(s[i])
<1>1. PICK n \in Nat : n = Len(s) /\ DOMAIN s = 1 .. n
  OBVIOUS
<1>2. AtOf(s) = [i \in 1 .. n |-> NodeOf(s[i])]
  BY <1>1 DEF AtOf
<1>3. \A i \in 1 .. n : NodeOf(s[i]) \in Nodes
  BY <1>1 DEF Nodes
<1>4. AtOf(s) \in Seq(Nodes) /\ Len(AtOf(s)) = n /\ \A i \in 1 .. n : AtOf(s)[i] = NodeOf(s[i])
  BY ONLY <1>2, <1>3, n \in Nat
<1> QED
  BY <1>1, <1>4

\* No directories are in no places.
LEMMA AtNone == AtOf(<< >>) = << >>
<1>1. << >> \in Seq(Directories) /\ << >> \in Seq(Nodes) /\ Len(<< >>) = 0
  OBVIOUS
<1>2. AtOf(<< >>) \in Seq(Nodes) /\ Len(AtOf(<< >>)) = 0
  BY <1>1, AtIs
<1>3. \A i \in 1 .. 0 : AtOf(<< >>)[i] = << >>[i]
  OBVIOUS
<1> QED
  BY ONLY <1>1, <1>2, <1>3, SeqEqual

\* The last of them.
LEMMA AtLast ==
    ASSUME NEW s \in Seq(Directories), s # << >>
    PROVE  AtOf(s) # << >> /\ AtOf(s)[Len(AtOf(s))] = NodeOf(s[Len(s)])
<1>1. PICK n \in Nat : n = Len(s) /\ n > 0
  OBVIOUS
<1>2. Len(AtOf(s)) = n /\ \A i \in 1 .. n : AtOf(s)[i] = NodeOf(s[i])
  BY <1>1, AtIs
<1>3. n \in 1 .. n
  BY <1>1
<1>4. Len(<< >>) = 0
  OBVIOUS
<1> QED
  BY <1>1, <1>2, <1>3, <1>4

\* A move, a start and an end are the same among texts and among places.
LEMMA AtMoved ==
    ASSUME NEW s \in Seq(Directories), s # << >>, NEW text \in Directories
    PROVE  /\ AtOf([s EXCEPT ![Len(s)] = text]) = [AtOf(s) EXCEPT ![Len(AtOf(s))] = NodeOf(text)]
           /\ AtOf(Append(s, text)) = Append(AtOf(s), NodeOf(text))
           /\ AtOf(SubSeq(s, 1, Len(s) - 1)) = SubSeq(AtOf(s), 1, Len(AtOf(s)) - 1)
<1>1. PICK n \in Nat : n = Len(s) /\ n > 0 /\ s \in Seq(Directories)
  OBVIOUS
<1>2. PICK at : at \in Seq(Nodes) /\ at = AtOf(s) /\ Len(at) = n /\ \A i \in 1 .. n : at[i] = NodeOf(s[i])
  BY <1>1, AtIs
<1>3. PICK node : node \in Nodes /\ node = NodeOf(text)
  BY DEF Nodes
<1>4. ASSUME NEW r \in Seq(Directories), NEW b \in Seq(Nodes), Len(r) = Len(b), \A i \in 1 .. Len(r) : b[i] = NodeOf(r[i])
      PROVE  AtOf(r) = b
  <2>1. AtOf(r) \in Seq(Nodes) /\ Len(AtOf(r)) = Len(r) /\ \A i \in 1 .. Len(r) : AtOf(r)[i] = NodeOf(r[i])
    BY AtIs
  <2>2. b \in Seq(Nodes) /\ Len(AtOf(r)) = Len(b) /\ \A i \in 1 .. Len(AtOf(r)) : AtOf(r)[i] = b[i]
    BY <1>4, <2>1
  <2> QED
    BY ONLY <2>1, <2>2, SeqEqual
<1>5. AtOf([s EXCEPT ![n] = text]) = [at EXCEPT ![n] = node]
  <2>1. n \in 1 .. n
    BY <1>1
  <2>t. text \in Directories
    OBVIOUS
  <2>2. /\ [s EXCEPT ![n] = text] \in Seq(Directories) /\ Len([s EXCEPT ![n] = text]) = n
        /\ \A i \in 1 .. n : [s EXCEPT ![n] = text][i] = IF i = n THEN text ELSE s[i]
    BY <1>1, <2>1, <2>t, ExceptSeq
  <2>3. /\ [at EXCEPT ![n] = node] \in Seq(Nodes) /\ Len([at EXCEPT ![n] = node]) = n
        /\ \A i \in 1 .. n : [at EXCEPT ![n] = node][i] = IF i = n THEN node ELSE at[i]
    BY <1>2, <1>3, <2>1, ExceptSeq
  <2>4. PICK r : r = [s EXCEPT ![n] = text] /\ r \in Seq(Directories) /\ Len(r) = n /\ \A i \in 1 .. n : r[i] = IF i = n THEN text ELSE s[i]
    BY ONLY <2>2
  <2>5. PICK b : b = [at EXCEPT ![n] = node] /\ b \in Seq(Nodes) /\ Len(b) = n /\ \A i \in 1 .. n : b[i] = IF i = n THEN node ELSE at[i]
    BY ONLY <2>3
  <2>6. \A i \in 1 .. n : b[i] = NodeOf(r[i])
    BY ONLY <1>2, <1>3, <2>4, <2>5
  <2> QED
    BY ONLY <1>4, <2>4, <2>5, <2>6
<1>6. AtOf(Append(s, text)) = Append(at, node)
  <2>t. text \in Directories
    OBVIOUS
  <2>2. /\ Append(s, text) \in Seq(Directories) /\ Len(Append(s, text)) = n + 1
        /\ Append(s, text)[n + 1] = text /\ \A i \in 1 .. n : Append(s, text)[i] = s[i]
    BY <1>1, <2>t, AppendProperties
  <2>3. /\ Append(at, node) \in Seq(Nodes) /\ Len(Append(at, node)) = n + 1
        /\ Append(at, node)[n + 1] = node /\ \A i \in 1 .. n : Append(at, node)[i] = at[i]
    BY <1>1, <1>2, <1>3, AppendProperties
  <2>4. \A i \in 1 .. n + 1 : i \in 1 .. n \/ i = n + 1
    OBVIOUS
  <2>5. \A i \in 1 .. n + 1 : Append(at, node)[i] = NodeOf(Append(s, text)[i])
    BY <1>2, <1>3, <2>2, <2>3, <2>4
  <2> QED
    BY <1>4, <2>2, <2>3, <2>5
<1>7. AtOf(SubSeq(s, 1, n - 1)) = SubSeq(at, 1, n - 1)
  <2>1. n - 1 \in Nat /\ \A i \in 1 .. n - 1 : i \in 1 .. n
    BY <1>1
  <2>2. PICK r : r \in Seq(Directories) /\ r = SubSeq(s, 1, n - 1) /\ Len(r) = n - 1 /\ \A i \in 1 .. n - 1 : r[i] = s[i]
    <3>1. SubSeq(s, 1, n - 1) = [i \in 1 .. n - 1 |-> s[i]]
      BY <1>1
    <3>2. \A i \in 1 .. n - 1 : s[i] \in Directories
      BY <1>1
    <3>3. PICK r : r = [i \in 1 .. n - 1 |-> s[i]]
      OBVIOUS
    <3>4. r \in Seq(Directories) /\ Len(r) = n - 1 /\ \A i \in 1 .. n - 1 : r[i] = s[i]
      BY ONLY <2>1, <3>2, <3>3
    <3> QED
      BY <3>1, <3>3, <3>4
  <2>3. PICK b : b \in Seq(Nodes) /\ b = SubSeq(at, 1, n - 1) /\ Len(b) = n - 1 /\ \A i \in 1 .. n - 1 : b[i] = at[i]
    <3>1. SubSeq(at, 1, n - 1) = [i \in 1 .. n - 1 |-> at[i]]
      BY <1>1, <1>2
    <3>2. \A i \in 1 .. n - 1 : at[i] \in Nodes
      BY <1>1, <1>2
    <3>3. PICK b : b = [i \in 1 .. n - 1 |-> at[i]]
      OBVIOUS
    <3>4. b \in Seq(Nodes) /\ Len(b) = n - 1 /\ \A i \in 1 .. n - 1 : b[i] = at[i]
      BY ONLY <2>1, <3>2, <3>3
    <3> QED
      BY <3>1, <3>3, <3>4
  <2>4. \A i \in 1 .. n - 1 : b[i] = NodeOf(r[i])
    BY <1>2, <2>1, <2>2, <2>3
  <2> QED
    BY <1>4, <2>2, <2>3, <2>4
<1> QED
  BY <1>1, <1>2, <1>3, <1>5, <1>6, <1>7

-----------------------------------------------------------------------------
\* The place of a path that was refused.
NoNode == [volume |-> "", names |-> << >>]

\* The last call, with the place in it for the text.
LEMMA CallIs ==
    Call = IF call.op \notin DOMAIN Accepts THEN call
           ELSE [op |-> call.op, path |-> call.path, command |-> call.command, io |-> call.io, result |-> call.result,
                 node |-> IF call.text = Refused THEN NoNode ELSE NodeOf(call.text)]
BY Zenon DEF Call, NoNode

\* The calls that take a path.
Ops == {"chdir", "opendir", "stat", "open", "exec"}

\* The code and the abstract specification accept the same
\* (kernel/syscall.c:189-224).
LEMMA OpsAre == DOMAIN Accepts = Ops /\ DOMAIN Names!Accepts = Ops /\ \A op \in Ops : Accepts[op] = Names!Accepts[op] /\ "none" \notin Accepts[op]
BY DEF Ops, Accepts, Names!Accepts

\* The call that was just answered.
LEMMA CallNow ==
    ASSUME NEW op \in Ops, NEW p, NEW command, NEW bad, NEW result, NEW text, Asks(op, p, command, bad, result, text)
    PROVE  /\ Call'.op = op /\ Call'.path = p /\ Call'.command = command /\ (Call'.io <=> bad = {}) /\ Call'.result = result
           /\ result = "ok" /\ text # Refused => Call'.node = NodeOf(text)
<1>1. call' = [op |-> op, path |-> p, command |-> command, io |-> bad = {}, result |-> result,
               text |-> IF result = "ok" THEN text ELSE Refused]
  BY DEF Asks
<1>2. Call' = IF call'.op \notin DOMAIN Accepts THEN call'
              ELSE [op |-> call'.op, path |-> call'.path, command |-> call'.command, io |-> call'.io, result |-> call'.result,
                    node |-> IF call'.text = Refused THEN NoNode ELSE NodeOf(call'.text)]
  BY CallIs DEF Call, NoNode
<1> QED
  BY <1>1, <1>2, OpsAre

\* A path that was refused is no directory.
LEMMA RefusedIs == Refused # Overrun /\ Overrun \notin Directories /\ Refused \notin Directories
<1>1. \A text \in Directories : text \notin {Refused, Overrun}
  BY DirectoryIs
<1> QED
  BY <1>1 DEF Refused, Overrun

\* What the call does to the directories is what is promised.
LEMMA EffectMoves ==
    ASSUME CwdInv, boot = Running, NEW op \in Ops, NEW text \in Directories, Effect(op, text)
    PROVE  Names!Moved(op, NodeOf(text))
<1>1. PICK s : s = cwds /\ s \in Seq(Directories) /\ s # << >> /\ Cwd = s[Len(s)] /\ Cwd \in Directories
  BY CwdIs
<1>2. PICK node : node = NodeOf(text)
  OBVIOUS
<1>3. PICK at : at = AtOf(s)
  OBVIOUS
<1>4. at # << >> /\ at[Len(at)] = NodeOf(Cwd)
  BY <1>1, <1>3, AtLast
<1>5. /\ AtOf([s EXCEPT ![Len(s)] = text]) = [at EXCEPT ![Len(at)] = node]
      /\ AtOf(Append(s, Cwd)) = Append(at, NodeOf(Cwd))
  BY <1>1, <1>2, <1>3, AtMoved
<1>6. AtOf(cwds') = CASE op = "chdir" -> [at EXCEPT ![Len(at)] = node]
                      [] op = "exec" -> Append(at, NodeOf(Cwd))
                      [] OTHER -> at
  <2>1. CASE op = "chdir"
    BY <1>1, <1>5, <2>1 DEF Effect
  <2>2. CASE op = "exec"
    BY <1>1, <1>5, <2>2 DEF Effect
  <2>3. CASE op # "chdir" /\ op # "exec"
    BY <1>1, <1>3, <2>3 DEF Effect
  <2> QED
    BY <2>1, <2>2, <2>3
<1>7. [i \in DOMAIN cwds |-> NodeOf(cwds[i])] = at /\ [i \in DOMAIN cwds' |-> NodeOf(cwds'[i])] = AtOf(cwds')
  BY <1>1, <1>3 DEF AtOf
<1>8. NodeOf(Cwd) = Last(at)
  BY <1>4 DEF Last
<1>9. AtOf(cwds') = CASE op = "chdir" -> [at EXCEPT ![Len(at)] = node]
                      [] op = "exec" -> Append(at, Last(at))
                      [] OTHER -> at
  BY ONLY <1>6, <1>8
<1> QED
  BY ONLY <1>2, <1>7, <1>9 DEF Names!Moved, Names!Here, Last, Names!Last

\* A call whose text leads to a goal, when it fits, is a call as promised.
LEMMA AnswerCalls ==
    ASSUME CwdInv, boot = Running, Registry', MountsInv', drives' = drives, DOMAIN fatFs' = DOMAIN fatFs,
           NEW op \in Ops, NEW p, NEW command \in BOOLEAN, NEW bad, NEW text \in {Refused, Overrun} \cup Directories,
           Answered(op, p, command, bad, text), text \in Directories => Visited(NumberIn(text), bad),
           NEW fits, NEW goals,
           fits => text \in Directories,
           fits /\ (command => bad = {}) /\ LookUp(text, bad) \in Accepts[op] => NodeOf(text) \in goals,
           fits /\ bad = {} => \A goal \in goals : goal = NodeOf(text)
    PROVE  Names!CallWith(fits, goals) /\ Call'.op = op /\ Call'.path = p /\ (Call'.command <=> command)
<1>1. text \in Directories /\ (bad = {} \/ LookUp(text, bad) # "none") => Names!KindOf(Volume', NodeOf(text)) = LookUp(text, bad)
  BY VisitedKind, DirectoryIs
<1>2. CASE text = Overrun
  <2>1. cwds' = << >> /\ Asks(op, p, command, bad, "lost", Overrun)
    BY <1>2 DEF Answered, LoseAll
  <2>2. /\ Call'.op = op /\ Call'.path = p /\ Call'.command = command /\ (Call'.io <=> bad = {}) /\ Call'.result = "lost"
    BY <2>1, CallNow
  <2>3. ~ fits
    BY <1>2, RefusedIs
  <2>4. [i \in DOMAIN cwds' |-> NodeOf(cwds'[i])] = << >>
    BY <2>1, AtNone DEF AtOf
  <2>5. Names!Lost(fits)
    BY <2>2, <2>3, <2>4 DEF Names!Lost
  <2> QED
    BY <2>2, <2>5 DEF Names!CallWith
<1>3. CASE text # Overrun /\ LookUp(text, bad) \in Accepts[op]
  <2>1. Effect(op, text) /\ Asks(op, p, command, bad, "ok", text)
    BY <1>3 DEF Answered
  <2>2. text # Refused /\ text \in Directories /\ LookUp(text, bad) # "none"
    BY <1>3, OpsAre DEF LookUp
  <2>3. /\ Call'.op = op /\ Call'.path = p /\ Call'.command = command /\ (Call'.io <=> bad = {}) /\ Call'.result = "ok"
        /\ Call'.node = NodeOf(text)
    BY <2>1, <2>2, CallNow
  <2>4. Names!KindOf(Volume', Call'.node) \in Names!Accepts[Call'.op]
    BY <1>1, <1>3, <2>2, <2>3, OpsAre
  <2>5. Names!Moved(Call'.op, Call'.node)
    BY <2>1, <2>2, <2>3, EffectMoves
  <2>6. fits /\ (Call'.command => Call'.io) => Call'.node \in goals
    BY <1>3, <2>3
  <2>7. Names!Reach(fits, goals)
    BY <2>3, <2>4, <2>5, <2>6 DEF Names!Reach
  <2> QED
    BY <2>3, <2>7 DEF Names!CallWith
<1>4. CASE text # Overrun /\ LookUp(text, bad) \notin Accepts[op]
  <2>1. cwds' = cwds /\ Asks(op, p, command, bad, "failed", text)
    BY <1>4 DEF Answered
  <2>2. /\ Call'.op = op /\ Call'.path = p /\ Call'.command = command /\ (Call'.io <=> bad = {}) /\ Call'.result = "failed"
    BY <2>1, CallNow
  <2>3. ASSUME fits, Call'.io, NEW goal \in goals
        PROVE  Names!KindOf(Volume', goal) \notin Names!Accepts[Call'.op]
    <3>1. bad = {} /\ goal = NodeOf(text) /\ text \in Directories
      BY <2>2, <2>3
    <3> QED
      BY <1>1, <1>4, <2>2, <3>1, OpsAre
  <2>4. Names!Miss(fits, goals)
    BY <2>1, <2>2, <2>3 DEF Names!Miss
  <2> QED
    BY <2>2, <2>4 DEF Names!CallWith
<1> QED
  BY <1>2, <1>3, <1>4

\* A path that fits leads where its walk does.
LEMMA FittingLeads ==
    ASSUME NEW here \in Directories, Dotless(NodeOf(here).names), NEW p \in Askable, Names!Fits(NodeOf(here), p), NEW left \in Leftovers
    PROVE  PathResolve(here, p, left) \in Directories /\ NodeOf(PathResolve(here, p, left)) = Names!Walk(NodeOf(here), p)
<1>1. PICK kept : Shape(kept) /\ here = TextOf(here.volume, kept)
  BY DirectoryIs DEF Formed
<1>2. PICK volume : volume = here.volume /\ Lettered(volume) /\ here = TextOf(volume, kept)
  BY <1>1, DirectoryIs
<1>3. NodeOf(here) = [volume |-> volume, names |-> NamesOf(kept)]
  BY <1>1, <1>2, NodeOfText
<1>4. Dotless(NamesOf(kept))
  BY <1>3
<1>5. Ordinary(NamesOf(kept))
  BY <1>1, <1>4, NamesOfIs, DotlessOrdinary
<1>6. left \in Word
  BY EmptyWord
<1>7. p = [volume |-> p.volume, pieces |-> p.pieces] /\ p.pieces \in Pieces
  BY DEF Askable
<1>8. PICK q : q = p /\ q = [volume |-> q.volume, pieces |-> q.pieces] /\ q.pieces \in Pieces /\ Names!Fits(NodeOf(here), q)
  BY <1>7
<1>9. Formed(PathResolve(here, q, left)) /\ NodeOf(PathResolve(here, q, left)) = Names!Walk(NodeOf(here), q)
  BY <1>1, <1>2, <1>5, <1>6, <1>8, WalkResolves
<1>10. PICK text : text = PathResolve(here, q, left)
  OBVIOUS
<1>11. text \notin {Refused, Overrun}
  BY <1>9, <1>10, FormedIs
<1>12. text \in {Refused, Overrun} \cup Directories
  BY <1>8, <1>10, ResolvedDirectory
<1> QED
  BY <1>8, <1>9, <1>10, <1>11, <1>12

\* The abstract current directory is the place of the current directory.
LEMMA HereIs ==
    ASSUME CwdInv, boot = Running
    PROVE  /\ Names!Here = NodeOf(Cwd)
           /\ [i \in DOMAIN cwds |-> NodeOf(cwds[i])] # << >>
<1>1. PICK s : s = cwds /\ s \in Seq(Directories) /\ s # << >> /\ Cwd = s[Len(s)]
  BY CwdIs
<1>2. PICK at : at = AtOf(s) /\ at # << >> /\ at[Len(at)] = NodeOf(Cwd)
  BY <1>1, AtLast
<1>3. [i \in DOMAIN cwds |-> NodeOf(cwds[i])] = at
  BY <1>1, <1>2 DEF AtOf
<1> QED
  BY ONLY <1>2, <1>3 DEF Names!Here, Names!Last

\* A look mounts the volume it names.
LEMMA Visits ==
    ASSUME NEW n, NEW named, NEW bad, MountVolumes(named, bad)
    PROVE  /\ drives' = drives /\ DOMAIN fatFs' = DOMAIN fatFs
           /\ n \in named => Visited(n, bad)
BY DEF MountVolumes, Visited

\* It mounts that of its text.
LEMMA VisitIs ==
    ASSUME NEW text, NEW bad, Visit(text, bad)
    PROVE  /\ drives' = drives /\ DOMAIN fatFs' = DOMAIN fatFs
           /\ text \notin {Refused, Overrun} => Visited(NumberIn(text), bad)
<1>1. CASE text \in {Refused, Overrun}
  BY <1>1 DEF Visit, volumeVars
<1>2. CASE text \notin {Refused, Overrun}
  <2>1. MountVolumes({NumberIn(text)}, bad)
    BY <1>2 DEF Visit
  <2>2. NumberIn(text) \in {NumberIn(text)}
    OBVIOUS
  <2> QED
    BY <2>1, <2>2, Visits
<1> QED
  BY <1>1, <1>2

\* Every system call does what is promised.
LEMMA CallImplements ==
    ASSUME Registry, MountsInv, CwdInv, Registry', MountsInv', NEW op \in Ops, SystemCall(op)
    PROVE  Names!Call
<1>1. boot = Running
  BY DEF SystemCall
<1>0. PICK p, text, bad : /\ p \in Asked[op] /\ \E left \in Leftovers : text = PathResolve(Cwd, p, left)
                            /\ Visit(text, bad) /\ Answered(op, p, FALSE, bad, text)
  BY DEF SystemCall
<1>2. PICK left \in Leftovers : text = PathResolve(Cwd, p, left)
  BY <1>0
<1>3. p \in Texts
  BY <1>0, AskedTexts DEF Ops
<1>4. PICK here : here = Cwd /\ here \in Directories /\ (here = Root("0") \/ Stands(here))
  BY <1>1, CwdIs
<1>5. Dotless(NodeOf(here).names)
  BY <1>4, DirectoriesDotless
<1>6. text \in {Refused, Overrun} \cup Directories
  BY <1>2, <1>3, <1>4, TextIs, ResolvedDirectory
<1>7. /\ drives' = drives /\ DOMAIN fatFs' = DOMAIN fatFs
      /\ text \in Directories => Visited(NumberIn(text), bad)
  BY <1>0, VisitIs, DirectoryIs
<1>8. PICK goal : goal = Names!Walk(NodeOf(here), p)
  OBVIOUS
<1>9. PICK fits : fits = Names!Fits(NodeOf(here), p)
  OBVIOUS
<1>10. fits => text \in Directories /\ NodeOf(text) = goal
  BY <1>2, <1>3, <1>4, <1>5, <1>8, <1>9, TextIs, FittingLeads
<1>11. Names!CallWith(fits, {goal}) /\ Call'.op = op /\ Call'.path = p /\ ~ Call'.command
  <2>1. FALSE \in BOOLEAN
    OBVIOUS
  <2>2. fits /\ (FALSE => bad = {}) /\ LookUp(text, bad) \in Accepts[op] => NodeOf(text) \in {goal}
    BY <1>10
  <2>3. fits /\ bad = {} => \A x \in {goal} : x = NodeOf(text)
    BY <1>10
  <2> QED
    BY <1>0, <1>1, <1>6, <1>7, <1>10, <2>1, <2>2, <2>3, AnswerCalls
<1>12. Names!Here = NodeOf(here) /\ [i \in DOMAIN cwds |-> NodeOf(cwds[i])] # << >>
  BY <1>1, <1>4, HereIs
<1>13. Names!Goals = {goal}
  BY ONLY <1>8, <1>11, <1>12 DEF Names!Goals
<1>14. Names!GoalFits = fits
  BY ONLY <1>9, <1>11, <1>12 DEF Names!GoalFits
<1> QED
  BY <1>11, <1>12, <1>13, <1>14, OpsAre DEF Names!Call

\* The first of n that is in a set, or the last.
LEMMA FirstOf ==
    ASSUME NEW S, NEW n \in Nat, n > 0
    PROVE  \E c \in 1 .. n : (\A j \in 1 .. c - 1 : j \notin S) /\ (c \in S \/ c = n)
<1>1. SUFFICES ASSUME \A c \in 1 .. n : (\A j \in 1 .. c - 1 : j \notin S) => c \notin S /\ c # n
               PROVE  FALSE
  OBVIOUS
<1> DEFINE set == {k \in Nat : k <= n => \A j \in 1 .. k : j \notin S}
<1>2. 0 \in set
  OBVIOUS
<1>3. ASSUME NEW k \in Nat, k \in set PROVE k + 1 \in set
  <2>1. SUFFICES ASSUME k + 1 <= n PROVE \A j \in 1 .. k + 1 : j \notin S
    OBVIOUS
  <2>2. \A j \in 1 .. k : j \notin S
    BY <1>3, <2>1
  <2>3. k + 1 \in 1 .. n /\ k + 1 - 1 = k
    BY <2>1
  <2>4. k + 1 \notin S
    BY <1>1, <2>2, <2>3
  <2> QED
    BY <2>2, <2>4
<1>4. n \in set
  <2> HIDE DEF set
  <2> QED
    BY <1>2, <1>3, Climb
<1>5. n \in 1 .. n /\ \A j \in 1 .. n - 1 : j \notin S
  BY <1>4
<1> QED
  BY <1>1, <1>5

\* The shell tries the candidates up to the first that is there
\* (usr/src/cysh.c:32-43).
LEMMA TriedIs ==
    ASSUME NEW texts, NEW bad, NEW n \in Nat, n > 0, DOMAIN texts = 1 .. n
    PROVE  \E c \in 1 .. n : /\ Tried(texts, bad) = 1 .. c /\ Cardinality(Tried(texts, bad)) = c
                             /\ \A j \in 1 .. c : j < c => LookUp(texts[j], bad) \notin Accepts["stat"]
                             /\ LookUp(texts[c], bad) \in Accepts["stat"] \/ c = n
<1> DEFINE S == {i \in 1 .. n : LookUp(texts[i], bad) \in Accepts["stat"]}
<1>1. PICK c \in 1 .. n : (\A j \in 1 .. c - 1 : j \notin S) /\ (c \in S \/ c = n)
  <2> HIDE DEF S
  <2> QED
    BY FirstOf
<1>2. \A j \in 1 .. c : j < c => LookUp(texts[j], bad) \notin Accepts["stat"]
  BY <1>1
<1>3. LookUp(texts[c], bad) \in Accepts["stat"] \/ c = n
  BY <1>1
<1>4. PICK T : T = Tried(texts, bad)
  OBVIOUS
<1>5. ASSUME NEW i PROVE i \in T <=> i \in 1 .. c
  <2>0. i \in T <=> i \in 1 .. n /\ \A j \in 1 .. i - 1 : LookUp(texts[j], bad) \notin Accepts["stat"]
    BY <1>4 DEF Tried
  <2>1. ASSUME i \in 1 .. c PROVE i \in T
    <3>1. \A j \in 1 .. i - 1 : j \in 1 .. c /\ j < c
      BY <2>1
    <3> QED
      BY <1>2, <2>0, <2>1, <3>1
  <2>2. ASSUME i \in 1 .. n, i > c PROVE i \notin T
    <3>1. c \in 1 .. i - 1 /\ c # n
      BY <2>2
    <3> QED
      BY <1>3, <2>0, <3>1
  <2> QED
    BY <2>0, <2>1, <2>2
<1>6. T = 1 .. c /\ c \in Nat
  <2>1. T = 1 .. c
    BY ONLY <1>5, Zenon
  <2> QED
    BY <2>1
<1>7. Cardinality(1 .. c) = c
  BY <1>6, FS_Interval
<1> QED
  BY <1>2, <1>3, <1>4, <1>6, <1>7

-----------------------------------------------------------------------------
\* A command of one name, which is looked for.
PlainText(p) == p.volume = "" /\ Len(p.pieces) = 1
\* The characters that the shell keeps of a candidate (usr/src/cysh.c:30).
Room(volume) == PathMax - 1 - VolumeSize(volume)
\* A candidate as it is given to stat.
Given(dir, p) == [volume |-> dir.volume, pieces |-> Cut(dir.pieces \o p.pieces, Room(dir.volume))]

\* The shell keeps all of a candidate that fits.
LEMMA RoomIs == \A volume : Room(volume) \in Nat /\ Room(volume) >= PathMax - 3
<1> SUFFICES ASSUME NEW volume PROVE Room(volume) \in Nat /\ Room(volume) >= PathMax - 3
  OBVIOUS
<1>1. VolumeSize(volume) \in {0, 2}
  BY Zenon DEF VolumeSize
<1> QED
  BY ONLY <1>1, Limits DEF Room

\* The candidates and the places they stand for, one for one.
LEMMA CandidatesAre ==
    ASSUME NEW p \in Texts
    PROVE  IF PlainText(p) THEN /\ Candidates(p) = [i \in DOMAIN SearchPath |-> Given(SearchPath[i], p)]
                                /\ Names!Places(p) = [i \in DOMAIN SearchPath |-> Names!Within(SearchPath[i], p)]
           ELSE Candidates(p) = <<p>> /\ Names!Places(p) = <<p>>
<1>1. Len(p.pieces) > 1 <=> Len(p.pieces) # 1
  <2>1. p.pieces \in Pieces /\ p.pieces # << >>
    BY TextIs
  <2>2. PICK n \in Nat : n = Len(p.pieces) /\ n # 0
    BY <2>1, LenIs
  <2>3. \A k \in Nat : k # 0 => (k > 1 <=> k # 1)
    OBVIOUS
  <2>4. n > 1 <=> n # 1
    BY <2>2, <2>3, Zenon
  <2> QED
    BY ONLY <2>2, <2>4
<1>2. CASE PlainText(p)
  <2>1. ~ (p.volume # "" \/ Len(p.pieces) > 1)
    BY ONLY <1>1, <1>2, Zenon DEF PlainText
  <2>2. Candidates(p) = [i \in DOMAIN SearchPath |->
            [SearchPath[i] EXCEPT !.pieces = Cut(@ \o p.pieces, PathMax - 1 - VolumeSize(SearchPath[i].volume))]]
    BY ONLY <2>1, Zenon DEF Candidates
  <2>3. Names!Places(p) = [i \in DOMAIN SearchPath |-> Names!Within(SearchPath[i], p)]
    BY ONLY <1>2, Zenon DEF Names!Places, PlainText, Names!IsPlain
  <2>4. ASSUME NEW i \in DOMAIN SearchPath
        PROVE  [SearchPath[i] EXCEPT !.pieces = Cut(@ \o p.pieces, PathMax - 1 - VolumeSize(SearchPath[i].volume))] = Given(SearchPath[i], p)
    <3>1. SearchPath[i] \in Texts
      BY TextsAssumption
    <3>2. PICK dir : dir = SearchPath[i] /\ dir = [volume |-> dir.volume, pieces |-> dir.pieces]
      BY <3>1 DEF Texts
    <3>3. [dir EXCEPT !.pieces = Cut(@ \o p.pieces, PathMax - 1 - VolumeSize(dir.volume))] = Given(dir, p)
      BY ONLY <3>2 DEF Given, Room
    <3> QED
      BY ONLY <3>2, <3>3
  <2>5. [i \in DOMAIN SearchPath |->
            [SearchPath[i] EXCEPT !.pieces = Cut(@ \o p.pieces, PathMax - 1 - VolumeSize(SearchPath[i].volume))]]
            = [i \in DOMAIN SearchPath |-> Given(SearchPath[i], p)]
    BY ONLY <2>4
  <2> QED
    BY ONLY <1>2, <2>2, <2>3, <2>5
<1>3. CASE ~ PlainText(p)
  <2>1. p.volume # "" \/ Len(p.pieces) > 1
    BY ONLY <1>1, <1>3, Zenon DEF PlainText
  <2>2. Candidates(p) = <<p>>
    BY ONLY <2>1, Zenon DEF Candidates
  <2>3. Names!Places(p) = <<p>>
    BY ONLY <1>3, Zenon DEF Names!Places, PlainText, Names!IsPlain
  <2> QED
    BY ONLY <1>3, <2>2, <2>3
<1> QED
  BY ONLY <1>2, <1>3

\* A text of the shell and the place it stands for.
StandsFor(here, text, place) ==
    /\ text \in Askable
    /\ text.volume = place.volume
    /\ Names!Fits(here, place) => text = place

\* A candidate stands for the command in its directory.
LEMMA GivenIs ==
    ASSUME NEW here, here.names \in Pieces, NEW dir \in Texts, NEW p \in Texts
    PROVE  StandsFor(here, Given(dir, p), Names!Within(dir, p))
<1>1. dir \in Askable /\ p \in Askable
  BY TextIs
<1>2. dir.pieces \in Pieces /\ p.pieces \in Pieces /\ dir.volume \in Letters /\ dir = [volume |-> dir.volume, pieces |-> dir.pieces]
  BY <1>1 DEF Askable
<1>3. PICK q \in Pieces, v \in Letters : q = dir.pieces \o p.pieces /\ v = dir.volume
  BY <1>2, SizeConcat
<1>4. Names!Within(dir, p) = [volume |-> v, pieces |-> q]
  <2>1. PICK d : d = dir /\ d = [volume |-> v, pieces |-> d.pieces] /\ d.pieces \o p.pieces = q
    BY <1>2, <1>3
  <2>2. [d EXCEPT !.pieces = @ \o p.pieces] = [volume |-> v, pieces |-> q]
    BY ONLY <2>1
  <2> QED
    BY ONLY <2>1, <2>2 DEF Names!Within
<1>5. PICK place : place = Names!Within(dir, p) /\ place = [volume |-> v, pieces |-> q] /\ place.volume = v /\ place.pieces = q
  BY <1>4
<1>6. PICK n \in Nat : n = Room(v) /\ n >= PathMax - 3
  BY RoomIs
<1>7. Given(dir, p) = [volume |-> v, pieces |-> Cut(q, n)]
  BY <1>3, <1>6 DEF Given
<1>8. Cut(q, n) \in Pieces
  BY CutType
<1>9. ASSUME Names!Fits(here, place) PROVE Cut(q, n) = q
  <2>1. place = [volume |-> place.volume, pieces |-> place.pieces]
    BY <1>5
  <2>2. Names!Size(q) - 1 + (IF IsRooted(q) THEN 0 ELSE 1 + (IF here.names = << >> THEN 1 ELSE Names!Size(here.names))) <= PathMax - 3
    BY <1>5, <1>9, <2>1, FitsIs
  <2>3. Names!Size(q) \in Nat /\ Names!Size(here.names) \in Nat
    BY SizeType
  <2>4. Names!Size(q) <= n + 1
    BY ONLY <1>6, <2>2, <2>3, Limits, n \in Nat
  <2> QED
    BY <2>4, CutWhole
<1>10. PICK text : text = Given(dir, p) /\ text = [volume |-> v, pieces |-> Cut(q, n)]
  BY <1>7
<1>11. text \in Askable /\ text.volume = place.volume
  BY <1>5, <1>8, <1>10 DEF Askable
<1>12. Names!Fits(here, place) => text = place
  BY <1>5, <1>9, <1>10
<1> QED
  BY <1>5, <1>10, <1>11, <1>12 DEF StandsFor

\* So do they all.
LEMMA PlacesAre ==
    ASSUME NEW here, here.names \in Pieces, NEW p \in Commands
    PROVE  \E n \in Nat : /\ n > 0 /\ DOMAIN Candidates(p) = 1 .. n /\ DOMAIN Names!Places(p) = 1 .. n
                          /\ \A i \in 1 .. n : StandsFor(here, Candidates(p)[i], Names!Places(p)[i])
<1>1. p \in Texts /\ p \in Askable
  BY TextsAssumption, TextIs
<1>2. CASE PlainText(p)
  <2>1. /\ Candidates(p) = [i \in DOMAIN SearchPath |-> Given(SearchPath[i], p)]
        /\ Names!Places(p) = [i \in DOMAIN SearchPath |-> Names!Within(SearchPath[i], p)]
    BY <1>1, <1>2, CandidatesAre
  <2>2. SearchPath \in Seq(Texts) /\ SearchPath # << >>
    BY TextsAssumption
  <2>3. PICK n \in Nat : n > 0 /\ DOMAIN SearchPath = 1 .. n /\ \A i \in 1 .. n : SearchPath[i] \in Texts
    BY ONLY <2>2
  <2>4. \A i \in 1 .. n : StandsFor(here, Given(SearchPath[i], p), Names!Within(SearchPath[i], p))
    BY <1>1, <2>3, GivenIs
  <2> QED
    BY ONLY <2>1, <2>3, <2>4, n \in Nat
<1>3. CASE ~ PlainText(p)
  <2>1. Candidates(p) = <<p>> /\ Names!Places(p) = <<p>>
    BY <1>1, <1>3, CandidatesAre
  <2>2. StandsFor(here, p, p)
    BY <1>1 DEF StandsFor
  <2>3. DOMAIN <<p>> = 1 .. 1 /\ <<p>>[1] = p
    OBVIOUS
  <2> QED
    BY <2>1, <2>2, <2>3
<1> QED
  BY <1>2, <1>3

\* The directories the places of a command lead to, and the first that holds it.
Leads(vol, node, places, i) == Names!KindOf(vol, Names!Walk(node, places[i])) \in Accepts["stat"]
\* The first place with a file, or the last place.
FirstGoals(vol, node, places, n) ==
    {Names!Walk(node, places[i]) : i \in {j \in 1 .. n : Leads(vol, node, places, j) /\ \A k \in 1 .. n : Leads(vol, node, places, k) => j <= k}}

\* What is promised of the shell, in these terms.
LEMMA FirstGoalsAre ==
    ASSUME NEW vol, NEW node, NEW p, NEW places, places = Names!Places(p), NEW n \in Nat, DOMAIN places = 1 .. n
    PROVE  /\ {Names!Walk(node, q) : q \in Names!FirstSeen(vol, node, p)} = FirstGoals(vol, node, places, n)
           /\ (\A q \in Names!ToSet(Names!Places(p)) : Names!Fits(node, q)) <=> \A i \in 1 .. n : Names!Fits(node, places[i])
<1>1. PICK seen : seen = {i \in DOMAIN places : Names!KindOf(vol, Names!Walk(node, places[i])) \in Names!Accepts["stat"]}
  OBVIOUS
<1>2. Names!FirstSeen(vol, node, p) = {places[i] : i \in {j \in seen : \A k \in seen : j <= k}}
  BY <1>1 DEF Names!FirstSeen
<1>3. \A i : i \in seen <=> i \in 1 .. n /\ Leads(vol, node, places, i)
  BY <1>1, OpsAre DEF Leads, Ops
<1>4. PICK S : S = {j \in seen : \A k \in seen : j <= k}
  OBVIOUS
<1>5. PICK T : T = {j \in 1 .. n : Leads(vol, node, places, j) /\ \A k \in 1 .. n : Leads(vol, node, places, k) => j <= k}
  OBVIOUS
<1>6. \A j : j \in S <=> j \in T
  BY ONLY <1>3, <1>4, <1>5
<1>7. S = T
  BY ONLY <1>6, Zenon
<1>8. {Names!Walk(node, q) : q \in {places[i] : i \in T}} = {Names!Walk(node, places[i]) : i \in T}
  OBVIOUS
<1>9. {Names!Walk(node, q) : q \in Names!FirstSeen(vol, node, p)} = FirstGoals(vol, node, places, n)
  BY <1>2, <1>4, <1>5, <1>7, <1>8 DEF FirstGoals
<1>10. Names!ToSet(places) = {places[i] : i \in 1 .. n}
  BY DEF Names!ToSet
<1> QED
  BY <1>9, <1>10

\* A number is a matter of the volume only.
LEMMA NumberOfSame == \A a, b : a.volume = b.volume => NumberIn(a) = NumberIn(b)
BY DEF NumberIn

\* What PathResolve makes of the places where a command is looked for.
LEMMA CommandTexts ==
    ASSUME Registry, MountsInv, CwdInv, boot = Running, NEW here, here = Cwd, NEW left \in Leftovers,
           NEW text, NEW place, StandsFor(NodeOf(here), text, place)
    PROVE  /\ here \in Directories
           /\ PathResolve(here, text, left) \in {Refused, Overrun} \cup Directories
           /\ PathResolve(here, text, left) \in Directories => PathResolve(here, text, left).volume = VolumeOf(here, text)
           /\ Names!Fits(NodeOf(here), place) =>
                  PathResolve(here, text, left) \in Directories /\ NodeOf(PathResolve(here, text, left)) = Names!Walk(NodeOf(here), place)
<1>1. here \in Directories /\ (here = Root("0") \/ Stands(here))
  BY CwdIs
<1>2. Dotless(NodeOf(here).names)
  BY <1>1, DirectoriesDotless
<1>3. text \in Askable
  BY DEF StandsFor
<1>4. /\ PathResolve(here, text, left) \in {Refused, Overrun} \cup Directories
      /\ PathResolve(here, text, left) \in Directories => PathResolve(here, text, left).volume = VolumeOf(here, text)
  BY <1>1, <1>3, ResolvedDirectory
<1>5. ASSUME Names!Fits(NodeOf(here), place)
      PROVE  PathResolve(here, text, left) \in Directories /\ NodeOf(PathResolve(here, text, left)) = Names!Walk(NodeOf(here), place)
  <2>1. text = place /\ Names!Fits(NodeOf(here), text)
    BY <1>5 DEF StandsFor
  <2>2. PathResolve(here, text, left) \in Directories /\ NodeOf(PathResolve(here, text, left)) = Names!Walk(NodeOf(here), text)
    BY <1>1, <1>2, <1>3, <2>1, FittingLeads
  <2> QED
    BY <2>1, <2>2
<1> QED
  BY <1>1, <1>4, <1>5

\* The names of a directory are words.
LEMMA HereNames ==
    ASSUME NEW here \in Directories
    PROVE  NodeOf(here).names \in Pieces
<1>1. PICK kept : Shape(kept) /\ here = TextOf(here.volume, kept)
  BY DirectoryIs DEF Formed
<1>2. NodeOf(here) = [volume |-> here.volume, names |-> NamesOf(kept)]
  BY <1>1, NodeOfText
<1> QED
  BY <1>1, <1>2, NamesOfIs

\* A text the shell asks for, or executes, where the names have room.
Leading(fits, text, node, place) ==
    /\ text \in {Refused, Overrun} \cup Directories
    /\ fits => text \in Directories /\ NodeOf(text) = Names!Walk(node, place)

\* The shell runs the first candidate that is there, which is the first place.
LEMMA ShellAnswers ==
    ASSUME CwdInv, boot = Running, Registry', MountsInv', NEW p, NEW names, NEW texts, NEW bad, RunFirst(p, names, texts, bad),
           NEW n \in Nat, n > 0, DOMAIN texts = 1 .. n, NEW node, NEW places, NEW fits,
           \A i \in 1 .. n : Leading(fits, texts[i], node, places[i]),
           \A i \in 1 .. n : \A left \in Leftovers :
               /\ Leading(fits, PathResolve(Cwd, names[i], left), node, places[i])
               /\ texts[i] \in Directories /\ PathResolve(Cwd, names[i], left) \in Directories =>
                      PathResolve(Cwd, names[i], left).volume = texts[i].volume
    PROVE  Names!CallWith(fits, FirstGoals(Volume', node, places, n)) /\ Call'.op = "exec" /\ Call'.path = p /\ (Call'.command <=> TRUE)
<1>1. PICK c \in 1 .. n : /\ Tried(texts, bad) = 1 .. c /\ Cardinality(Tried(texts, bad)) = c
                          /\ \A j \in 1 .. c : j < c => LookUp(texts[j], bad) \notin Accepts["stat"]
                          /\ LookUp(texts[c], bad) \in Accepts["stat"] \/ c = n
  BY TriedIs
<1>2. /\ MountVolumes({NumberIn(texts[i]) : i \in {j \in 1 .. c : texts[j] \notin {Refused, Overrun}}}, bad)
      /\ IF \E i \in 1 .. c : texts[i] = Overrun THEN LoseAll("exec", p, TRUE, bad)
         ELSE IF LookUp(texts[c], bad) \notin Accepts["stat"]
         THEN Asks("exec", p, TRUE, bad, "failed", Refused) /\ UNCHANGED <<cwds, boot>>
         ELSE \E left \in Leftovers : Answered("exec", p, TRUE, bad, PathResolve(Cwd, names[c], left))
  BY <1>1 DEF RunFirst
<1>3. drives' = drives /\ DOMAIN fatFs' = DOMAIN fatFs
  BY <1>2, Visits
<1>4. ASSUME NEW i \in 1 .. c, texts[i] \in Directories PROVE Visited(NumberIn(texts[i]), bad)
  <2>1. texts[i] \notin {Refused, Overrun}
    BY <1>4, DirectoryIs
  <2>2. NumberIn(texts[i]) \in {NumberIn(texts[j]) : j \in {j \in 1 .. c : texts[j] \notin {Refused, Overrun}}}
    BY <2>1
  <2> QED
    BY <1>2, <2>2, Visits
<1>5. \A i \in 1 .. c : i \in 1 .. n
  OBVIOUS
\* Where no transfer failed and the names have room, it is known what was asked.
<1>6. ASSUME fits, bad = {}, NEW i \in 1 .. c
      PROVE  Leads(Volume', node, places, i) <=> LookUp(texts[i], bad) \in Accepts["stat"]
  <2>1. texts[i] \in Directories /\ NodeOf(texts[i]) = Names!Walk(node, places[i])
    BY <1>5, <1>6 DEF Leading
  <2>2. Formed(texts[i]) /\ Visited(NumberIn(texts[i]), bad)
    BY <1>4, <2>1, DirectoryIs
  <2>3. PICK text : text = texts[i] /\ Formed(text) /\ Visited(NumberIn(text), bad) /\ NodeOf(text) = Names!Walk(node, places[i])
    BY <2>1, <2>2
  <2>4. Names!KindOf(Volume', NodeOf(text)) = LookUp(text, bad)
    BY <1>3, <1>6, <2>3, VisitedKind
  <2> QED
    BY <2>3, <2>4 DEF Leads
<1>7. "exec" \in Ops /\ Names!Accepts["exec"] \subseteq Accepts["stat"]
  BY DEF Ops, Accepts, Names!Accepts
<1>8. CASE \E i \in 1 .. c : texts[i] = Overrun
  <2>1. cwds' = << >> /\ Asks("exec", p, TRUE, bad, "lost", Overrun)
    BY <1>2, <1>8 DEF LoseAll
  <2>2. /\ Call'.op = "exec" /\ Call'.path = p /\ Call'.command = TRUE /\ Call'.result = "lost"
    BY <1>7, <2>1, CallNow
  <2>3. ~ fits
    BY <1>5, <1>8, RefusedIs DEF Leading
  <2>4. [i \in DOMAIN cwds' |-> NodeOf(cwds'[i])] = << >>
    BY <2>1, AtNone DEF AtOf
  <2>5. Names!Lost(fits)
    BY ONLY <2>2, <2>3, <2>4 DEF Names!Lost
  <2> QED
    BY <2>2, <2>5 DEF Names!CallWith
<1>9. CASE ~ (\E i \in 1 .. c : texts[i] = Overrun) /\ LookUp(texts[c], bad) \notin Accepts["stat"]
  <2>1. cwds' = cwds /\ Asks("exec", p, TRUE, bad, "failed", Refused)
    BY <1>2, <1>9
  <2>2. /\ Call'.op = "exec" /\ Call'.path = p /\ Call'.command = TRUE /\ (Call'.io <=> bad = {}) /\ Call'.result = "failed"
    BY <1>7, <2>1, CallNow
  <2>3. ASSUME fits, Call'.io PROVE FirstGoals(Volume', node, places, n) = {}
    <3>1. bad = {} /\ c = n
      BY <1>1, <1>9, <2>2, <2>3
    <3>2. ASSUME NEW i \in 1 .. n PROVE ~ Leads(Volume', node, places, i)
      <4>1. i \in 1 .. c /\ (i < c \/ i = c)
        BY <3>1
      <4>2. LookUp(texts[i], bad) \notin Accepts["stat"]
        BY <1>1, <1>9, <4>1
      <4> QED
        BY <1>6, <2>3, <3>1, <4>1, <4>2
    <3> QED
      BY ONLY <3>2 DEF FirstGoals
  <2>4. Names!Miss(fits, FirstGoals(Volume', node, places, n))
    BY ONLY <2>1, <2>2, <2>3 DEF Names!Miss
  <2> QED
    BY <2>2, <2>4 DEF Names!CallWith
<1>10. CASE ~ (\E i \in 1 .. c : texts[i] = Overrun) /\ LookUp(texts[c], bad) \in Accepts["stat"]
  <2>1. PICK left \in Leftovers : Answered("exec", p, TRUE, bad, PathResolve(Cwd, names[c], left))
    BY <1>2, <1>10
  <2>2. PICK text : /\ text = PathResolve(Cwd, names[c], left) /\ Answered("exec", p, TRUE, bad, text)
                    /\ Leading(fits, text, node, places[c])
                    /\ texts[c] \in Directories /\ text \in Directories => text.volume = texts[c].volume
    BY <2>1
  <2>3. texts[c] \in Directories
    <3>1. texts[c] \notin {Refused, Overrun}
      BY <1>10, OpsAre DEF LookUp, Ops
    <3> QED
      BY <3>1 DEF Leading
  <2>4. text \in Directories => Visited(NumberIn(text), bad)
    <3>1. c \in 1 .. c
      OBVIOUS
    <3>2. text \in Directories => NumberIn(text) = NumberIn(texts[c])
      BY <2>2, <2>3, NumberOfSame
    <3> QED
      BY <1>4, <2>3, <3>1, <3>2
  <2>5. text \in {Refused, Overrun} \cup Directories /\ (fits => text \in Directories /\ NodeOf(text) = Names!Walk(node, places[c]))
    BY <2>2 DEF Leading
  <2>6. ASSUME fits, bad = {} PROVE FirstGoals(Volume', node, places, n) = {NodeOf(text)}
    <3>1. c \in 1 .. c
      OBVIOUS
    <3>2. Leads(Volume', node, places, c)
      BY <1>6, <1>10, <2>6, <3>1
    <3>3. ASSUME NEW j \in 1 .. n, j < c PROVE ~ Leads(Volume', node, places, j)
      <4>1. j \in 1 .. c
        BY <3>3
      <4> QED
        BY <1>1, <1>6, <2>6, <3>3, <4>1
    <3>4. PICK T : T = {j \in 1 .. n : Leads(Volume', node, places, j) /\ \A k \in 1 .. n : Leads(Volume', node, places, k) => j <= k}
      OBVIOUS
    <3>5. \A j \in 1 .. n : j \in T <=> j = c
      BY <3>2, <3>3, <3>4
    <3>6. T = {c}
      BY <3>4, <3>5
    <3>7. FirstGoals(Volume', node, places, n) = {Names!Walk(node, places[i]) : i \in T}
      BY ONLY <3>4 DEF FirstGoals
    <3> QED
      BY <2>5, <2>6, <3>6, <3>7
  <2>7. PICK goals : goals = FirstGoals(Volume', node, places, n) /\ (fits /\ bad = {} => goals = {NodeOf(text)})
    BY <2>6
  <2>8. TRUE \in BOOLEAN
    OBVIOUS
  <2>9. fits => text \in Directories
    BY <2>5
  <2>10. fits /\ (TRUE => bad = {}) /\ LookUp(text, bad) \in Accepts["exec"] => NodeOf(text) \in goals
    BY <2>7
  <2>11. fits /\ bad = {} => \A goal \in goals : goal = NodeOf(text)
    BY <2>7
  <2>12. text \in {Refused, Overrun} \cup Directories
    BY <2>5
  <2>13. Answered("exec", p, TRUE, bad, text)
    BY <2>2
  <2>14. Names!CallWith(fits, goals) /\ Call'.op = "exec" /\ Call'.path = p /\ (Call'.command <=> TRUE)
    BY <1>3, <1>7, <2>4, <2>8, <2>9, <2>10, <2>11, <2>12, <2>13, AnswerCalls
  <2> QED
    BY <2>7, <2>14
<1> QED
  BY <1>8, <1>9, <1>10

\* Every command of the shell does what is promised.
LEMMA ShellImplements ==
    ASSUME Registry, MountsInv, CwdInv, Registry', MountsInv', ShellExec
    PROVE  Names!Call
<1>1. boot = Running
  BY DEF ShellExec
<1>2. PICK p, texts, bad :
          /\ p \in Commands
          /\ \E left \in Leftovers : texts = [i \in DOMAIN Candidates(p) |-> PathResolve(Cwd, Candidates(p)[i], left)]
          /\ RunFirst(p, Candidates(p), texts, bad)
  BY DEF ShellExec
<1>3. PICK asked \in Leftovers : texts = [i \in DOMAIN Candidates(p) |-> PathResolve(Cwd, Candidates(p)[i], asked)]
  BY <1>2
<1>4. PICK here : here = Cwd /\ here \in Directories
  BY <1>1, CwdIs
<1>5. PICK node : node = NodeOf(here) /\ node.names \in Pieces
  BY <1>4, HereNames
<1>6. PICK names, places : names = Candidates(p) /\ places = Names!Places(p)
  OBVIOUS
<1>7. PICK n \in Nat : /\ n > 0 /\ DOMAIN names = 1 .. n /\ DOMAIN places = 1 .. n
                       /\ \A i \in 1 .. n : StandsFor(node, names[i], places[i])
  BY <1>2, <1>5, <1>6, PlacesAre
<1>8. PICK fits : fits = (\A q \in Names!ToSet(Names!Places(p)) : Names!Fits(node, q))
  OBVIOUS
<1>9. fits => \A i \in 1 .. n : Names!Fits(node, places[i])
  BY <1>6, <1>7, <1>8, FirstGoalsAre
<1>10. RunFirst(p, names, texts, bad) /\ texts = [i \in 1 .. n |-> PathResolve(here, names[i], asked)]
  BY <1>2, <1>3, <1>4, <1>6, <1>7
<1>11. ASSUME NEW i \in 1 .. n, NEW left \in Leftovers
       PROVE  /\ Leading(fits, PathResolve(here, names[i], left), node, places[i])
              /\ PathResolve(here, names[i], left) \in Directories =>
                     PathResolve(here, names[i], left).volume = VolumeOf(here, names[i])
  <2>1. StandsFor(NodeOf(here), names[i], places[i])
    BY <1>5, <1>7
  <2>2. PICK text, place : text = names[i] /\ place = places[i] /\ StandsFor(NodeOf(here), text, place)
    BY <2>1
  <2>3. /\ PathResolve(here, text, left) \in {Refused, Overrun} \cup Directories
        /\ PathResolve(here, text, left) \in Directories => PathResolve(here, text, left).volume = VolumeOf(here, text)
        /\ Names!Fits(NodeOf(here), place) =>
               PathResolve(here, text, left) \in Directories /\ NodeOf(PathResolve(here, text, left)) = Names!Walk(NodeOf(here), place)
    BY <1>1, <1>4, <2>2, CommandTexts
  <2> QED
    BY <1>5, <1>9, <2>2, <2>3 DEF Leading
<1>12. DOMAIN texts = 1 .. n /\ \A i \in 1 .. n : texts[i] = PathResolve(here, names[i], asked)
  BY ONLY <1>10
<1>13. \A i \in 1 .. n : Leading(fits, texts[i], node, places[i])
  BY <1>11, <1>12
<1>14. \A i \in 1 .. n : \A left \in Leftovers :
           /\ Leading(fits, PathResolve(Cwd, names[i], left), node, places[i])
           /\ texts[i] \in Directories /\ PathResolve(Cwd, names[i], left) \in Directories =>
                  PathResolve(Cwd, names[i], left).volume = texts[i].volume
  BY <1>4, <1>11, <1>12
<1>15. /\ Names!CallWith(fits, FirstGoals(Volume', node, places, n))
       /\ Call'.op = "exec" /\ Call'.path = p /\ (Call'.command <=> TRUE)
  BY <1>1, <1>7, <1>10, <1>12, <1>13, <1>14, ShellAnswers
<1>16. PICK goals : goals = FirstGoals(Volume', node, places, n)
                    /\ {Names!Walk(node, q) : q \in Names!FirstSeen(Volume', node, p)} = goals
  BY <1>6, <1>7, FirstGoalsAre
<1>17. Names!Here = node /\ [i \in DOMAIN cwds |-> NodeOf(cwds[i])] # << >>
  BY <1>1, <1>4, <1>5, HereIs
<1>18. Names!Goals = goals
  BY ONLY <1>15, <1>16, <1>17 DEF Names!Goals
<1>19. Names!GoalFits = fits
  BY ONLY <1>8, <1>15, <1>17 DEF Names!GoalFits
<1>20. "exec" \in Ops
  BY DEF Ops
<1> QED
  BY <1>15, <1>16, <1>17, <1>18, <1>19, <1>20, OpsAre DEF Names!Call

(***************************************************************************)
(* A number keeps its meaning (fs/fatfs/ff.c:3461).                        *)
(***************************************************************************)
FilesKnown ==
    /\ DOMAIN Volume = {DigitOf(v) : v \in DOMAIN fatFs}
    /\ \A v \in DOMAIN fatFs : Volume[DigitOf(v)] = IF fatFs[v] = Unmounted THEN NoVolume ELSE VolumeAt(fatFs[v])

\* They are those of the places mounted.
LEMMA FilesAre == Registry => FilesKnown
BY FilesOf DEF FilesKnown

\* What is mounted keeps its files.
LEMMA StepSettles ==
    ASSUME Registry, Registry', Settled
    PROVE  Names!Settles
<1>1. FilesKnown /\ FilesKnown'
  BY FilesAre, PTL
<1>2. PICK vol, volNext : vol = Volume /\ volNext = Volume'
  OBVIOUS
<1>3. DOMAIN vol = {DigitOf(v) : v \in DOMAIN fatFs} /\ DOMAIN volNext = {DigitOf(v) : v \in DOMAIN fatFs'}
  BY <1>1, <1>2 DEF FilesKnown
<1>4. \A v \in DOMAIN fatFs : vol[DigitOf(v)] = IF fatFs[v] = Unmounted THEN NoVolume ELSE VolumeAt(fatFs[v])
  BY <1>1, <1>2 DEF FilesKnown
<1>5. \A v \in DOMAIN fatFs' : volNext[DigitOf(v)] = IF fatFs'[v] = Unmounted THEN NoVolume ELSE VolumeAt(fatFs'[v])
  BY <1>1, <1>2 DEF FilesKnown, VolumeAt, Settled, Unmounted, Place
<1>6. ASSUME NEW c \in DOMAIN vol
      PROVE  c \in DOMAIN volNext /\ (vol[c] # NoVolume => volNext[c] = vol[c])
  <2>1. PICK v \in DOMAIN fatFs : c = DigitOf(v)
    BY <1>3
  <2>2. v \in DOMAIN fatFs' /\ (fatFs[v] # Unmounted => fatFs'[v] = fatFs[v])
    BY DEF Settled
  <2> QED
    BY <1>3, <1>4, <1>5, <2>1, <2>2
<1> QED
  BY <1>2, <1>6 DEF Names!Settles

\* The places of the current directories.
AtNow == [i \in DOMAIN cwds |-> NodeOf(cwds[i])]

\* The steps of boot start the first program or stutter.
LEMMA BootImplements ==
    ASSUME CwdInv, boot # Running, call' = [op |-> "boot"], cwds' = cwds \/ cwds' = << >> \/ cwds' = <<Root("0")>>
    PROVE  Names!Boot
<1>1. cwds = << >>
  BY DEF CwdInv
<1>2. AtNow = << >>
  BY <1>1, AtNone DEF AtNow, AtOf
<1>3. cwds' = << >> => AtNow' = << >>
  BY AtNone DEF AtNow, AtOf
<1>4. cwds' = <<Root("0")>> => AtNow' = << [volume |-> "0", names |-> << >>] >>
  <2>1. PICK root : root = Root("0") /\ root \in Directories /\ NodeOf(root) = [volume |-> "0", names |-> << >>]
    BY FirstDirectory, RootIs
  <2>2. PICK s : s = <<root>> /\ s \in Seq(Directories) /\ Len(s) = 1 /\ s[1] = root /\ DOMAIN s = 1 .. 1
    <3>1. \A S : \A e \in S : <<e>> \in Seq(S) /\ Len(<<e>>) = 1 /\ <<e>>[1] = e /\ DOMAIN <<e>> = 1 .. 1
      OBVIOUS
    <3>2. root \in Directories
      BY <2>1
    <3> QED
      BY ONLY <3>1, <3>2
  <2>3. PICK node : node = NodeOf(root)
    OBVIOUS
  <2>4. [i \in DOMAIN s |-> NodeOf(s[i])] = <<node>>
    <3>1. [i \in DOMAIN s |-> NodeOf(s[i])] = [i \in 1 .. 1 |-> node]
      BY <2>2, <2>3
    <3>2. [i \in 1 .. 1 |-> node] = <<node>>
      OBVIOUS
    <3> QED
      BY ONLY <3>1, <3>2
  <2> QED
    BY <2>1, <2>2, <2>3, <2>4 DEF AtNow
<1>5. Call' = [op |-> "boot"]
  <2>1. call'.op = "boot" /\ "boot" \notin Ops
    BY DEF Ops
  <2> QED
    BY <2>1, OpsAre DEF Call
<1>6. AtNow = << >> /\ AtNow' \in {<< >>, << [volume |-> "0", names |-> << >>] >>}
  BY <1>1, <1>2, <1>3, <1>4
<1> QED
  BY <1>5, <1>6 DEF Names!Boot, AtNow

\* The end of a process gives its parent its place again
\* (kernel/syscall.c:21-64).
LEMMA ExitImplements ==
    ASSUME CwdInv, SysExit
    PROVE  Names!Exit
<1>1. boot = Running /\ cwds' = Front(cwds) /\ call' = [op |-> "exit"]
  BY DEF SysExit
<1>2. PICK s : s = cwds /\ s \in Seq(Directories) /\ s # << >>
  BY <1>1, CwdIs
<1>3. PICK at : at = AtOf(s) /\ at # << >>
  BY <1>2, AtLast
<1>4. AtOf(SubSeq(s, 1, Len(s) - 1)) = SubSeq(at, 1, Len(at) - 1)
  BY <1>2, <1>3, FirstDirectory, AtMoved
<1>5. cwds' = SubSeq(s, 1, Len(s) - 1)
  BY <1>1, <1>2 DEF Front
<1>6. AtNow = at /\ AtNow' = SubSeq(at, 1, Len(at) - 1)
  BY <1>2, <1>3, <1>4, <1>5 DEF AtNow, AtOf
<1>7. Call' = [op |-> "exit"]
  <2>1. call'.op = "exit" /\ "exit" \notin Ops
    BY <1>1 DEF Ops
  <2> QED
    BY <1>1, <2>1, OpsAre DEF Call
<1> QED
  BY <1>3, <1>6, <1>7 DEF Names!Exit, AtNow, Names!Front

\* Without a step nothing changes there either.
LEMMA StillStutters ==
    ASSUME UNCHANGED vars
    PROVE  UNCHANGED Names!vars
<1>1. cwds' = cwds /\ call' = call /\ fatFs' = fatFs /\ drives' = drives
  BY DEF vars, volumeVars
<1>2. Volume' = Volume
  BY <1>1 DEF Volume, VolumeAt, Unmounted, Place
<1>3. Call' = Call
  BY <1>1 DEF Call
<1> QED
  BY <1>1, <1>2, <1>3 DEF Names!vars

\* The invariant of the refinement.
NamesInv == VolumesInv /\ MountsInv /\ CwdInv

\* Every step is one of the abstract specification, or stutters.
LEMMA StepImplements == NamesInv /\ NamesInv' /\ [Next]_vars => [Names!Next]_Names!vars
<1> SUFFICES ASSUME NamesInv, NamesInv', [Next]_vars PROVE [Names!Next]_Names!vars
  OBVIOUS
<1>1. Registry /\ MountsInv /\ CwdInv /\ Registry' /\ MountsInv' /\ CwdInv'
  BY DEF NamesInv, VolumesInv
<1>2. Settled
  BY <1>1, StepMounts
<1>3. Names!Settles
  BY <1>1, <1>2, StepSettles
<1>4. SUFFICES (Names!Boot \/ Names!Call \/ Names!Exit) \/ UNCHANGED Names!vars
  BY <1>3 DEF Names!Next
<1>5. ASSUME NEW to, BootStep(to), boot # Running PROVE Names!Boot
  BY <1>1, <1>5, BootImplements DEF BootStep
<1>6. CASE DetectDrive
  <2>1. boot \in Drives /\ BootStep(boot + 1) /\ boot < MaxDrives /\ boot \in Nat
    BY <1>6, Constants DEF DetectDrive, Drives
  <2> QED
    BY <1>5, <2>1, RunningIs
<1>7. CASE Mount(0, MaxDrives, MaxDrives + 1) \/ Mount(1, MaxDrives + 1, MaxDrives + 2)
  <2>1. boot \in {MaxDrives, MaxDrives + 1} /\ \E to : BootStep(to)
    BY <1>7 DEF Mount
  <2> QED
    BY <1>5, <2>1, RunningIs
<1>8. CASE ListRoot
  <2>1. boot = MaxDrives + 2 /\ BootStep(boot + 1)
    BY <1>8 DEF ListRoot
  <2> QED
    BY <1>5, <2>1, RunningIs
<1>9. CASE LoadFirst
  <2>1. boot = MaxDrives + 3 /\ (cwds' = << >> \/ cwds' = <<Root("0")>>) /\ call' = [op |-> "boot"]
    BY <1>9 DEF LoadFirst
  <2> QED
    BY <1>1, <2>1, RunningIs, BootImplements
<1>10. CASE SysChDir \/ SysOpenDir \/ SysStat \/ SysOpen \/ SysExec
  <2>1. \E op \in Ops : SystemCall(op)
    BY <1>10 DEF Ops, SysChDir, SysOpenDir, SysStat, SysOpen, SysExec
  <2> QED
    BY <1>1, <2>1, CallImplements
<1>11. CASE SysExit
  BY <1>1, <1>11, ExitImplements
<1>12. CASE ShellExec
  BY <1>1, <1>12, ShellImplements
<1>13. CASE UNCHANGED vars
  BY <1>13, StillStutters
<1> QED
  BY <1>6, <1>7, <1>8, <1>9, <1>10, <1>11, <1>12, <1>13 DEF Next, Idle

\* The initial states are initial there.
LEMMA InitImplements == Init => Names!Init
<1> SUFFICES ASSUME Init PROVE Names!Init
  OBVIOUS
<1>1. cwds = << >> /\ call = [op |-> "boot"] /\ fatFs = << >>
  BY DEF Init, VolumesInit
<1>2. AtNow = << >>
  BY <1>1, AtNone DEF AtNow, AtOf
<1>3. Call = [op |-> "boot"]
  <2>1. call.op = "boot" /\ "boot" \notin Ops
    BY <1>1 DEF Ops
  <2> QED
    BY <1>1, <2>1, OpsAre DEF Call
<1>4. Volume = << >>
  <2>1. DOMAIN fatFs = {}
    BY <1>1
  <2>2. {DigitOf(v) : v \in DOMAIN fatFs} = {}
    BY <2>1
  <2>3. PICK D : D = {DigitOf(v) : v \in DOMAIN fatFs} /\ D = {}
    BY <2>2
  <2>4. Volume = [c \in D |-> IF fatFs[Digits[c]] = Unmounted THEN NoVolume ELSE VolumeAt(fatFs[Digits[c]])]
    BY <2>3 DEF Volume
  <2>5. \A f : f = [c \in D |-> f[c]] => f = << >>
    BY <2>3
  <2> QED
    BY <2>4, <2>5
<1> QED
  BY <1>2, <1>3, <1>4 DEF Names!Init, AtNow

\* Paths that fit lead where a walk along their names leads, for each call and
\* for the shell, and a number keeps its volume once it has one
\* (kernel/path.c:5, kernel/syscall.c:189, kernel/elf.c:126).
THEOREM Refinement == Spec => Implements
<1>1. Init => NamesInv
  BY InitVolumes, InitMounts, InitCwds DEF NamesInv
<1>2. NamesInv /\ [Next]_vars => NamesInv'
  BY StepVolumes, StepMounts, StepCwds DEF NamesInv, VolumesInv
<1> QED
  BY <1>1, <1>2, InitImplements, StepImplements, PTL DEF Spec, Implements, Names!Spec
=============================================================================
