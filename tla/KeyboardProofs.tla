--------------------------- MODULE KeyboardProofs ----------------------------
(***************************************************************************)
(* First the ring of InputRing: it implements the queue, for every size of *)
(* the buffer and however many characters the interrupt stores between two *)
(* steps of the reader.  Then the keyboard on top of it: the handler and   *)
(* the typist do nothing to the ring but store characters, and while no    *)
(* code waits behind another these are the characters meant.               *)
(***************************************************************************)
EXTENDS Keyboard, TLAPS

USE InputRingAssumption

\* The division with remainder of an index.
LEMMA Division ==
    ASSUME NEW a \in Int
    PROVE  /\ a \div Size \in Int /\ a % Size \in 0 .. Size - 1
           /\ a = (a \div Size) * Size + (a % Size)
  OBVIOUS

\* There is only one.
LEMMA Remainder ==
    ASSUME NEW a \in Int, NEW q \in Int, NEW r \in 0 .. Size - 1,
           a = Size * q + r
    PROVE  r = a % Size
  OBVIOUS

\* The place after that of n characters is the place of n + 1 (inbuffer.c:12,18).
LEMMA NextPlace ==
    ASSUME NEW n \in Int
    PROVE  After(n % Size) = (n + 1) % Size
<1> DEFINE q == n \div Size  r == n % Size
<1>1. q \in Int /\ r \in 0 .. Size - 1 /\ n = q * Size + r
  BY Division
<1> HIDE DEF q, r
<1>2. CASE r + 1 < Size
  <2>1. n + 1 = Size * q + (r + 1) /\ r + 1 \in 0 .. Size - 1
    BY <1>1, <1>2
  <2>2. r + 1 = (n + 1) % Size
    BY <2>1, <1>1, Remainder
  <2>3. r + 1 = (r + 1) % Size
    BY <1>1, <1>2
  <2> QED
    BY <2>2, <2>3 DEF After, r
<1>3. CASE r + 1 = Size
  <2>1. n + 1 = Size * (q + 1) + 0 /\ 0 \in 0 .. Size - 1 /\ q + 1 \in Int
    BY <1>1, <1>3
  <2>2. 0 = (n + 1) % Size
    BY <2>1, Remainder
  <2>3. (r + 1) % Size = 0
    BY <1>3
  <2> QED
    BY <2>2, <2>3 DEF After, r
<1> QED
  BY <1>1, <1>2, <1>3

\* Different numbers of the same place are a round of the ring apart.
LEMMA RoundApart ==
    ASSUME NEW a \in Int, NEW b \in Int, a < b, a % Size = b % Size
    PROVE  b - a >= Size
<1> DEFINE p == a \div Size  q == b \div Size  r == a % Size
<1>1. p \in Int /\ q \in Int /\ r \in 0 .. Size - 1 /\ a = p * Size + r /\ b = q * Size + r
  BY Division
<1> HIDE DEF p, q, r
<1>2. p < q
  BY <1>1
<1>3. Size * p + Size <= Size * q
  BY <1>1, <1>2
<1> QED
  BY <1>1, <1>3

\* A round of the ring comes back to the same place.
LEMMA OneRound ==
    ASSUME NEW a \in Int
    PROVE  (a - Size) % Size = a % Size
<1> DEFINE q == a \div Size  r == a % Size
<1>1. q \in Int /\ r \in 0 .. Size - 1 /\ a = q * Size + r
  BY Division
<1> HIDE DEF q, r
<1>2. a - Size = Size * (q - 1) + r /\ q - 1 \in Int
  BY <1>1
<1>3. r = (a - Size) % Size
  BY <1>1, <1>2, Remainder
<1> QED
  BY <1>3 DEF r
-----------------------------------------------------------------------------
(***************************************************************************)
(* The inductive invariant.  Both indices are the places of the next       *)
(* character: bufferEnd of the one to be typed, bufferStart of the one     *)
(* after the last delivered, even when the reader was overrun, since the   *)
(* character it found there is congruent to the one it missed.             *)
(***************************************************************************)

\* What is in the buffer: at each place the newest character of that place, or
\* the zero of its declaration while none has been stored there.
Newest ==
    \A p \in Places :
        LET n == inputBuffer[p]
        IN  /\ n \in Nat /\ typed - Size < n /\ n <= typed
            /\ n = 0 => typed <= p
            /\ n > 0 => (n - 1) % Size = p

\* What the reader holds between its load and its store of the index.
Loaded ==
    /\ c \in last + 1 .. typed
    /\ (c - 1) % Size = last % Size
    /\ c # last + 1 => typed - last >= Size

Inv ==
    /\ typed \in Nat /\ last \in Nat /\ last <= typed
    /\ pc \in {"wait", "read", "advance"}
    /\ inputBuffer \in [Places -> Nat]
    /\ bufferStart = last % Size
    /\ bufferEnd = typed % Size
    /\ Newest
    /\ pc = "read" => last < typed
    /\ pc = "advance" => Loaded

LEMMA InitInv == Init => Inv
<1> SUFFICES ASSUME Init PROVE Inv
  OBVIOUS
<1>1. 0 % Size = 0
  BY Remainder
<1>2. Newest
  BY DEF Init, Newest, Places
<1> QED
  BY <1>1, <1>2 DEF Init, Inv

\* The load finds a character newer than the last delivered, and the next one
\* unless the reader is a round behind.
LEMMA ReadLoads ==
    ASSUME Inv, pc = "read", NEW n, n = inputBuffer[bufferStart]
    PROVE  /\ n \in last + 1 .. typed
           /\ (n - 1) % Size = last % Size
           /\ n # last + 1 => typed - last >= Size
<1> DEFINE p == last % Size
<1>1. p \in Places /\ p <= last /\ bufferStart = p /\ last < typed
  <2>0. last \in Int
    BY DEF Inv
  <2>1. last \div Size \in Int /\ p \in 0 .. Size - 1 /\ last = (last \div Size) * Size + p
    BY <2>0, Division
  <2>2. last \div Size >= 0
    BY DEF Inv
  <2>3. p <= last
    BY DEF Inv
  <2> QED
    BY <2>1, <2>3 DEF Inv, Places
<1>2. n \in Nat /\ typed - Size < n /\ n <= typed
  BY <1>1 DEF Inv, Newest
<1>3. n > 0
  BY <1>1, <1>2 DEF Inv, Newest
<1>4. (n - 1) % Size = last % Size
  BY <1>1, <1>3 DEF Inv, Newest
<1>5. last < n
  <2> SUFFICES ASSUME n <= last PROVE FALSE
    BY <1>2 DEF Inv
  <2>1. n - 1 \in Int /\ last \in Int /\ n - 1 < last
    BY <1>2 DEF Inv
  <2>2. last - (n - 1) >= Size
    BY <2>1, <1>4, RoundApart
  <2> QED
    BY <2>2, <1>1, <1>2 DEF Inv
<1>6. n # last + 1 => typed - last >= Size
  <2> SUFFICES ASSUME n # last + 1 PROVE typed - last >= Size
    OBVIOUS
  <2>1. (n - 1) - last >= Size
    BY <1>2, <1>4, <1>5, RoundApart DEF Inv
  <2> QED
    BY <2>1, <1>2 DEF Inv
<1> QED
  BY <1>2, <1>4, <1>5, <1>6 DEF Inv

\* The interrupt overwrites the oldest character and no other.
LEMMA PutKeepsNewest ==
    ASSUME Inv, InBufferPutC
    PROVE  Newest'
<1>1. typed \in Nat /\ typed' = typed + 1 /\ bufferEnd = typed % Size
  BY DEF Inv, InBufferPutC
<1>2. bufferEnd \in Places
  BY <1>1 DEF Places
<1> SUFFICES ASSUME NEW p \in Places
             PROVE  LET n == inputBuffer'[p]
                    IN  /\ n \in Nat /\ typed' - Size < n /\ n <= typed'
                        /\ n = 0 => typed' <= p
                        /\ n > 0 => (n - 1) % Size = p
  BY DEF Newest
<1>3. CASE p = bufferEnd
  <2>1. inputBuffer'[p] = typed + 1
    BY <1>2, <1>3 DEF Inv, InBufferPutC
  <2>2. (typed + 1) - 1 = typed
    BY <1>1
  <2> QED
    BY <1>1, <1>3, <2>1, <2>2
<1>4. CASE p # bufferEnd
  <2> PICK n \in Nat : n = inputBuffer[p]
    BY DEF Inv
  <2>1. inputBuffer'[p] = n
    BY <1>4 DEF Inv, InBufferPutC
  <2>2. /\ typed - Size < n /\ n <= typed
        /\ n = 0 => typed <= p
        /\ n > 0 => (n - 1) % Size = p
    BY DEF Inv, Newest
  <2>3. n > 0 => n # typed + 1 - Size
    <3> SUFFICES ASSUME n > 0, n - 1 = typed - Size PROVE FALSE
      BY <1>1
    <3>0. typed \in Int
      BY <1>1
    <3>1. (typed - Size) % Size = typed % Size
      BY <3>0, OneRound
    <3> QED
      BY <3>1, <1>1, <1>4, <2>2
  <2>4. n = 0 => typed < p
    <3> SUFFICES ASSUME n = 0, typed = p PROVE FALSE
      BY <1>1, <2>2 DEF Places
    <3>1. typed % Size = typed
      BY <1>1 DEF Places
    <3> QED
      BY <3>1, <1>1, <1>4
  <2> QED
    BY <1>1, <2>1, <2>2, <2>3, <2>4 DEF Places
<1> QED
  BY <1>3, <1>4

LEMMA NextInv == Inv /\ [Next]_vars => Inv'
<1> SUFFICES ASSUME Inv, [Next]_vars PROVE Inv'
  OBVIOUS
<1>0. /\ typed \in Nat /\ last \in Nat /\ last <= typed
      /\ inputBuffer \in [Places -> Nat]
  BY DEF Inv
<1>1. CASE InBufferPutC
  <2>1. Newest'
    BY <1>1, PutKeepsNewest
  <2>0. typed \in Int
    BY <1>0
  <2>2. After(typed % Size) = (typed + 1) % Size
    BY <2>0, NextPlace
  <2>3. /\ typed' = typed + 1 /\ bufferEnd' = (typed + 1) % Size
        /\ UNCHANGED <<bufferStart, pc, c, last>>
    BY <1>1, <2>2 DEF InBufferPutC, Inv
  <2>4. inputBuffer' \in [Places -> Nat]
    <3>1. inputBuffer' = [inputBuffer EXCEPT ![bufferEnd] = typed + 1] /\ typed + 1 \in Nat
      BY <1>0, <1>1 DEF InBufferPutC
    <3> QED
      BY <1>0, <3>1
  <2>5. pc = "advance" => Loaded'
    BY <1>0, <2>3 DEF Inv, Loaded
  <2> QED
    BY <1>0, <2>1, <2>3, <2>4, <2>5 DEF Inv
<1>2. CASE Wait
  <2>1. bufferStart # bufferEnd /\ last # typed
    BY <1>2 DEF Wait, Pending, Inv
  <2>2. Newest'
    BY <1>2 DEF Wait, Inv, Newest
  <2> QED
    BY <1>0, <1>2, <2>1, <2>2 DEF Wait, Inv
<1>3. CASE Read
  <2>1. Newest'
    BY <1>3 DEF Read, Inv, Newest
  <2>2. PICK n : n = inputBuffer[bufferStart]
    OBVIOUS
  <2>3. /\ n \in last + 1 .. typed
        /\ (n - 1) % Size = last % Size
        /\ n # last + 1 => typed - last >= Size
    BY <1>3, <2>2, ReadLoads DEF Read
  <2>4. c' = n /\ pc' = "advance"
        /\ UNCHANGED <<inputBuffer, bufferStart, bufferEnd, typed, last>>
    BY <1>3, <2>2 DEF Read
  <2>5. Loaded'
    BY <2>3, <2>4 DEF Loaded
  <2> QED
    BY <1>0, <2>1, <2>4, <2>5 DEF Inv
<1>4. CASE Advance
  <2>1. Newest'
    BY <1>4 DEF Advance, Inv, Newest
  <2>2. /\ c \in last + 1 .. typed /\ (c - 1) % Size = last % Size
        /\ last' = c /\ pc' = "wait"
        /\ UNCHANGED <<inputBuffer, bufferEnd, typed>>
    BY <1>4 DEF Advance, Inv, Loaded
  <2>0. c - 1 \in Int
    BY <1>0, <2>2
  <2>3. After((c - 1) % Size) = (c - 1 + 1) % Size
    BY <2>0, NextPlace
  <2>4. c - 1 + 1 = c
    BY <1>0, <2>2
  <2>5. bufferStart' = c % Size
    BY <1>4, <2>2, <2>3, <2>4 DEF Advance, Inv
  <2> QED
    BY <1>0, <2>1, <2>2, <2>5 DEF Inv
<1>5. CASE UNCHANGED vars
  BY <1>5 DEF vars, Inv, Newest, Loaded
<1> QED
  BY <1>1, <1>2, <1>3, <1>4, <1>5 DEF Next, InBufferGetC

\* Both indices, the buffer and what the reader holds agree with what was typed
\* and delivered, whenever the interrupts come (kernel/inbuffer.c:10-20).
THEOREM InvCorrect == Spec => []Inv
<1> QED
  BY InitInv, NextInv, PTL DEF Spec

\* The ring and its reader implement the queue: characters come in the order
\* they were typed, none twice, and none is passed over unless the reader was
\* behind by the size of the buffer (kernel/inbuffer.c:10-20).
THEOREM RingImplementsQueue == Spec => Implements
<1>1. Init => Queue!Init
  BY DEF Init, Queue!Init
<1>2. Inv /\ [Next]_vars => [Queue!Next]_Queue!vars
  <2> SUFFICES ASSUME Inv, [Next]_vars PROVE [Queue!Next]_Queue!vars
    OBVIOUS
  <2> USE DEF Queue!Next, Queue!Type, Queue!Deliver, Queue!vars
  <2>1. CASE InBufferPutC
    BY <2>1 DEF InBufferPutC
  <2>2. CASE Wait \/ Read
    BY <2>2 DEF Wait, Read
  <2>3. CASE Advance
    <3>1. /\ c \in last + 1 .. typed /\ (c # last + 1 => typed - last >= Size)
          /\ last' = c /\ typed' = typed
      BY <2>3 DEF Advance, Inv, Loaded
    <3> QED
      BY <3>1
  <2>4. CASE UNCHANGED vars
    BY <2>4 DEF vars
  <2> QED
    BY <2>1, <2>2, <2>3, <2>4 DEF Next, InBufferGetC
<1> QED
  BY <1>1, <1>2, InvCorrect, PTL DEF Spec, Implements, Queue!Spec

-----------------------------------------------------------------------------
(* The ring under the keyboard. *)

LEMMA HandlerStep ==
    ASSUME NEW key, NEW up, PS2KBHandler(key, up)
    PROVE  [Next]_vars
<1>1. CASE InBufferPutC
  BY <1>1 DEF Next
<1>2. CASE UNCHANGED vars
  BY <1>2
<1> QED
  BY <1>1, <1>2 DEF PS2KBHandler

LEMMA KeyboardStep == [KeyboardNext]_allVars => [Next]_vars
<1> SUFFICES ASSUME [KeyboardNext]_allVars PROVE [Next]_vars
  OBVIOUS
<1>1. ASSUME NEW key \in Keys, Press(key) \/ Release(key) PROVE UNCHANGED vars
  BY <1>1 DEF Press, Release
<1>2. CASE ReadKey
  BY <1>2 DEF ReadKey
<1>3. CASE ReadDirection
  BY <1>3, HandlerStep DEF ReadDirection
<1>4. CASE Reader
  BY <1>4 DEF Reader, Next
<1>5. CASE UNCHANGED allVars
  BY <1>5 DEF allVars
<1> QED
  BY <1>1, <1>2, <1>3, <1>4, <1>5 DEF KeyboardNext

\* With keys, modifiers, repeats and the two reads of the handler, programs
\* still get the characters in the order they were stored, none twice, and none
\* is passed over unless the reader was a whole buffer behind
\* (dev/ps2.c:81-125, kernel/inbuffer.c:10-20).
THEOREM KeyboardImplementsQueue == KeyboardSpec => Implements
<1>1. KeyboardInit => Init
  BY DEF KeyboardInit
<1> QED
  BY <1>1, KeyboardStep, RingImplementsQueue, PTL DEF KeyboardSpec, Spec
-----------------------------------------------------------------------------
(* Keys and characters: the state of the handler follows the keys that are *)
(* down by one code, and catches up when it has handled it.                *)

Codes == [key : Keys, up : BOOLEAN]
Chars == (Letters \X BOOLEAN) \cup {Reset}

\* The handler knows of all that was typed but for the code e.
Behind(e) ==
    /\ IF e.key = "shift" THEN ("shift" \in held) = ~e.up ELSE ("shift" \in held) = shift
    /\ IF e.key = "ctrl" THEN ("ctrl" \in held) = ~e.up ELSE ("ctrl" \in held) = ctrl
    /\ lock = IF e.key = "caps" /\ ~e.up THEN ~caps ELSE caps
    /\ expected = IF e.key \in Letters /\ ~e.up THEN Append(out, Meant(e.key)) ELSE out

\* It knows of everything.
CaughtUp ==
    /\ ("shift" \in held) = shift /\ ("ctrl" \in held) = ctrl /\ lock = caps
    /\ expected = out

KeyboardType ==
    /\ waiting \in Seq(Codes)
    /\ handler \in {"idle", "direction", "reset"}
    /\ handler = "direction" => code \in Codes
    /\ shift \in BOOLEAN /\ ctrl \in BOOLEAN /\ caps \in BOOLEAN /\ lock \in BOOLEAN
    /\ crowded \in BOOLEAN
    /\ out \in Seq(Chars) /\ expected \in Seq(Chars)

Follows ==
    ~crowded =>
        /\ handler = "idle" /\ waiting = << >> => CaughtUp
        /\ handler = "idle" /\ Len(waiting) = 1 => Behind(waiting[1])
        /\ handler = "direction" /\ waiting = << >> => Behind(code)
        /\ handler = "reset" => Len(out) < Len(expected) /\ expected[Len(out) + 1] = Reset

KeyboardInv == KeyboardType /\ Follows

LEMMA KeyboardInitInv == KeyboardInit => KeyboardInv
<1> SUFFICES ASSUME KeyboardInit PROVE KeyboardInv
  OBVIOUS
<1>1. waiting \in Seq(Codes) /\ Len(waiting) = 0 /\ out \in Seq(Chars) /\ expected \in Seq(Chars)
  BY DEF KeyboardInit
<1>2. /\ handler = "idle" /\ out = expected /\ held = {}
      /\ shift = FALSE /\ ctrl = FALSE /\ caps = FALSE /\ lock = FALSE /\ crowded = FALSE
  BY DEF KeyboardInit
<1>3. KeyboardType
  BY <1>1, <1>2 DEF KeyboardType
<1>4. CaughtUp
  <2>1. ("shift" \in held) = FALSE /\ ("ctrl" \in held) = FALSE
    BY <1>2
  <2>2. ("shift" \in held) = shift
    BY ONLY <1>2, <2>1, Zenon
  <2>3. ("ctrl" \in held) = ctrl
    BY ONLY <1>2, <2>1, Zenon
  <2> QED
    BY <1>2, <2>2, <2>3 DEF CaughtUp
<1> QED
  BY <1>1, <1>2, <1>3, <1>4 DEF KeyboardInv, Follows

\* A code that comes to an empty queue is the one the handler is behind by.
LEMMA ComesAlone ==
    ASSUME KeyboardInv, NEW e \in Codes, waiting' = Append(waiting, e)
    PROVE  /\ waiting' \in Seq(Codes) /\ Len(waiting') = Len(waiting) + 1 /\ waiting' # << >>
           /\ Len(waiting') = 1 => waiting = << >> /\ waiting'[1] = e
<1>1. waiting \in Seq(Codes)
  BY DEF KeyboardInv, KeyboardType
<1> QED
  BY <1>1, SMTT(20)

\* Behind speaks of the code only.
LEMMA Alone ==
    ASSUME NEW e, Behind(e)', waiting'[1] = e
    PROVE  Behind(waiting[1])'
  BY DEF Behind

LEMMA PressInv ==
    ASSUME KeyboardInv, NEW key \in Keys, Press(key)
    PROVE  KeyboardInv'
<1>1. KeyboardType /\ Follows
  BY DEF KeyboardInv
<1>2. PICK e : e = [key |-> key, up |-> FALSE]
  OBVIOUS
<1>3. /\ e \in Codes /\ e.key = key /\ e.up = FALSE
      /\ waiting' = Append(waiting, e)
      /\ held' = held \cup {key} /\ lock' = (lock # (key = "caps"))
      /\ expected' = IF key \in Letters THEN Append(expected, Meant(key)) ELSE expected
      /\ UNCHANGED <<handler, code, shift, ctrl, caps, out, crowded>>
  BY <1>2 DEF Press, Codes
<1>4. /\ waiting' \in Seq(Codes) /\ waiting' # << >>
      /\ Len(waiting') = 1 => waiting = << >> /\ waiting'[1] = e
  BY <1>3, ComesAlone
<1>5. key \in Letters => Meant(key) \in Chars
  BY DEF Meant, Char, Chars
<1>6. KeyboardType'
  <2>1. expected' \in Seq(Chars)
    BY <1>1, <1>3, <1>5 DEF KeyboardType
  <2>2. lock' \in BOOLEAN
    BY <1>3
  <2> QED
    BY <1>1, <1>3, <1>4, <2>1, <2>2 DEF KeyboardType
<1>7. ASSUME ~crowded, handler = "idle", waiting = << >> PROVE Behind(e)'
  <2>1. CaughtUp
    BY <1>1, <1>7 DEF Follows
  <2>2. key \in Letters => key \notin Modifiers
    BY KeyboardAssumption
  <2>3. key \in Letters => Meant(key)' = Meant(key)
    <3>1. ASSUME key \in Letters
          PROVE  ("ctrl" \in held') = ("ctrl" \in held) /\ ("shift" \in held') = ("shift" \in held)
      BY <1>3, <2>2, <3>1 DEF Modifiers
    <3>2. key \in Letters => key # "caps"
      BY <2>2 DEF Modifiers
    <3>3. key \in Letters => lock' = lock
      BY <1>1, <1>3, <3>2 DEF KeyboardType
    <3> QED
      BY <3>1, <3>3 DEF Meant
  <2>4. /\ IF key = "shift" THEN "shift" \in held' ELSE ("shift" \in held') = shift
        /\ IF key = "ctrl" THEN "ctrl" \in held' ELSE ("ctrl" \in held') = ctrl
    BY <1>3, <2>1 DEF CaughtUp
  <2>5. lock' = IF key = "caps" THEN ~caps ELSE caps
    BY <1>1, <1>3, <2>1 DEF CaughtUp, KeyboardType
  <2>6. expected' = IF key \in Letters THEN Append(out, Meant(key)') ELSE out
    BY <1>3, <2>1, <2>3 DEF CaughtUp
  <2> QED
    BY <1>3, <2>4, <2>5, <2>6 DEF Behind
<1>8. ASSUME ~crowded, handler = "reset"
      PROVE  Len(out) < Len(expected') /\ expected'[Len(out) + 1] = Reset
  <2>1. /\ Len(out) \in Nat /\ Len(expected) \in Nat
        /\ Len(out) < Len(expected) /\ expected[Len(out) + 1] = Reset
    BY <1>1, <1>8 DEF Follows, KeyboardType
  <2>2. ASSUME NEW m \in Chars, expected' = Append(expected, m)
        PROVE  Len(expected) < Len(expected') /\ \A i \in 1 .. Len(expected) : expected'[i] = expected[i]
    BY <1>1, <2>2 DEF KeyboardType
  <2>3. \/ expected' = expected
        \/ Len(expected) < Len(expected') /\ expected'[Len(out) + 1] = expected[Len(out) + 1]
    BY <1>3, <1>5, <2>1, <2>2
  <2>4. Len(expected') \in Nat
    BY <1>6 DEF KeyboardType
  <2> QED
    BY <2>1, <2>3, <2>4
<1>9. Follows'
  BY <1>3, <1>4, <1>7, <1>8, Alone DEF Follows
<1> QED
  BY <1>6, <1>9 DEF KeyboardInv

LEMMA ReleaseInv ==
    ASSUME KeyboardInv, NEW key \in Keys, Release(key)
    PROVE  KeyboardInv'
<1>1. KeyboardType /\ Follows
  BY DEF KeyboardInv
<1>2. PICK e : e = [key |-> key, up |-> TRUE]
  OBVIOUS
<1>3. /\ e \in Codes /\ e.key = key /\ e.up = TRUE
      /\ waiting' = Append(waiting, e)
      /\ held' = held \ {key}
      /\ UNCHANGED <<handler, code, shift, ctrl, caps, out, lock, expected, crowded>>
  BY <1>2 DEF Release, Codes
<1>4. /\ waiting' \in Seq(Codes) /\ waiting' # << >>
      /\ Len(waiting') = 1 => waiting = << >> /\ waiting'[1] = e
  BY <1>3, ComesAlone
<1>5. KeyboardType'
  BY <1>1, <1>3, <1>4 DEF KeyboardType
<1>6. ASSUME ~crowded, handler = "idle", waiting = << >> PROVE Behind(e)'
  <2>1. CaughtUp
    BY <1>1, <1>6 DEF Follows
  <2>2. /\ IF key = "shift" THEN "shift" \notin held' ELSE ("shift" \in held') = shift
        /\ IF key = "ctrl" THEN "ctrl" \notin held' ELSE ("ctrl" \in held') = ctrl
    BY <1>3, <2>1 DEF CaughtUp
  <2>3. lock' = caps /\ expected' = out'
    BY <1>3, <2>1 DEF CaughtUp
  <2> QED
    BY <1>3, <2>2, <2>3 DEF Behind
<1>7. Follows'
  BY <1>1, <1>3, <1>4, <1>6, Alone DEF Follows
<1> QED
  BY <1>5, <1>7 DEF KeyboardInv

LEMMA TailOf ==
    ASSUME NEW S, NEW s \in Seq(S), s # << >>
    PROVE  Tail(s) \in Seq(S) /\ Len(Tail(s)) = Len(s) - 1
  OBVIOUS

LEMMA ReadKeyInv ==
    ASSUME KeyboardInv, ReadKey
    PROVE  KeyboardInv'
<1>1. KeyboardType /\ Follows
  BY DEF KeyboardInv
<1>2. /\ handler = "idle" /\ waiting # << >> /\ handler' = "direction"
      /\ code' = Head(waiting) /\ waiting' = Tail(waiting)
      /\ UNCHANGED <<shift, ctrl, caps, out, held, lock, expected, crowded>>
  BY DEF ReadKey, typists
<1>3. waiting' \in Seq(Codes) /\ code' \in Codes /\ code' = waiting[1]
  BY <1>1, <1>2 DEF KeyboardType
<1>4. waiting' = << >> => Len(waiting) = 1
  <2>1. waiting \in Seq(Codes) /\ waiting # << >> /\ waiting' = Tail(waiting)
    BY <1>1, <1>2 DEF KeyboardType
  <2>2. Len(Tail(waiting)) = Len(waiting) - 1
    BY <2>1, TailOf
  <2>3. ASSUME waiting' = << >> PROVE Len(Tail(waiting)) = 0
    <3>1. Tail(waiting) = << >> /\ Len(<< >>) = 0
      BY <2>1, <2>3
    <3> QED
      BY ONLY <3>1
  <2>4. Len(waiting) \in Nat
    BY <2>1
  <2> QED
    BY <2>2, <2>3, <2>4
<1>5. KeyboardType'
  BY <1>1, <1>2, <1>3 DEF KeyboardType
<1>6. ASSUME ~crowded, waiting' = << >> PROVE Behind(code)'
  <2>1. Behind(waiting[1])
    BY <1>1, <1>2, <1>4, <1>6 DEF Follows
  <2> QED
    BY <1>2, <1>3, <2>1 DEF Behind, Meant
<1>7. Follows'
  BY <1>2, <1>6 DEF Follows
<1> QED
  BY <1>5, <1>7 DEF KeyboardInv

LEMMA HandlerType ==
    ASSUME NEW key \in Keys, NEW up, KeyboardType, PS2KBHandler(key, up), up \in BOOLEAN
    PROVE  /\ handler' \in {"idle", "reset"}
           /\ shift' \in BOOLEAN /\ ctrl' \in BOOLEAN /\ caps' \in BOOLEAN
           /\ out' \in Seq(Chars)
<1>1. out' = out \/ (key \in Letters /\ out' = Append(out, Char(key, Upper)))
  BY DEF PS2KBHandler
<1>2. out' \in Seq(Chars)
  <2>1. key \in Letters => Char(key, Upper) \in Chars
    BY DEF KeyboardType, Char, Chars, Upper
  <2> QED
    BY <1>1, <2>1, SMTT(20) DEF KeyboardType
<1>3. caps' \in BOOLEAN
  BY DEF PS2KBHandler, KeyboardType, Toggled
<1>4. handler' \in {"idle", "reset"} /\ shift' \in BOOLEAN /\ ctrl' \in BOOLEAN
  BY DEF PS2KBHandler, KeyboardType
<1> QED
  BY <1>2, <1>3, <1>4

\* The handler catches up with the code it handles.
LEMMA HandlerCatchesUp ==
    ASSUME NEW e \in Codes, KeyboardType, Behind(e), PS2KBHandler(e.key, e.up),
           UNCHANGED <<held, lock, expected>>
    PROVE  IF handler' = "reset"
           THEN Len(out') < Len(expected') /\ expected'[Len(out') + 1] = Reset
           ELSE CaughtUp'
<1> DEFINE Goal == IF handler' = "reset"
                   THEN Len(out') < Len(expected') /\ expected'[Len(out') + 1] = Reset
                   ELSE CaughtUp'
<1>0. PICK key, up : key = e.key /\ up = e.up
  OBVIOUS
<1>1. key \in Keys /\ up \in BOOLEAN /\ PS2KBHandler(key, up)
  BY <1>0 DEF Codes
<1>2. CASE key \in Silent
  <2>1. key \notin Letters /\ key \notin Modifiers
    BY <1>2, KeyboardAssumption
  <2>2. UNCHANGED <<shift, ctrl, caps, out>> /\ handler' = "idle"
    BY <1>1, <2>1 DEF PS2KBHandler, Modifiers
  <2> QED
    BY <1>0, <2>1, <2>2 DEF Behind, CaughtUp, Modifiers
<1>3. CASE key \in Modifiers
  <2>1. key \notin Letters /\ key \notin Silent
    BY <1>3, KeyboardAssumption
  <2>2. UNCHANGED out /\ handler' = "idle" /\ expected = out
    BY <1>0, <1>1, <2>1 DEF PS2KBHandler, Behind
  <2>3. CASE key = "shift"
    <3>1. shift' = ~up /\ UNCHANGED <<ctrl, caps>>
      BY <1>1, <2>1, <2>3 DEF PS2KBHandler, Modifiers
    <3> QED
      BY <1>0, <2>2, <2>3, <3>1 DEF Behind, CaughtUp
  <2>4. CASE key = "ctrl"
    <3>1. ctrl' = ~up /\ UNCHANGED <<shift, caps>>
      BY <1>1, <2>1, <2>4 DEF PS2KBHandler, Modifiers
    <3> QED
      BY <1>0, <2>2, <2>4, <3>1 DEF Behind, CaughtUp
  <2>5. CASE key = "caps"
    <3>1. caps' = Toggled(up) /\ UNCHANGED <<shift, ctrl>>
      BY <1>1, <2>1, <2>5 DEF PS2KBHandler, Modifiers
    <3> QED
      BY <1>0, <2>2, <2>5, <3>1 DEF Behind, CaughtUp, Toggled
  <2> QED
    BY <1>3, <2>3, <2>4, <2>5 DEF Modifiers
<1>4. CASE key \in Letters
  <2>1. key \notin Modifiers /\ key \notin Silent
    BY <1>4, KeyboardAssumption
  <2>2. /\ UNCHANGED <<shift, ctrl, caps>>
        /\ IF up THEN handler' = "idle" /\ UNCHANGED out
           ELSE IF Resets(key) THEN handler' = "reset" /\ UNCHANGED out
           ELSE handler' = "idle" /\ out' = Append(out, Char(key, Upper))
    BY <1>1, <2>1 DEF PS2KBHandler, Modifiers
  <2>3. /\ ("shift" \in held) = shift /\ ("ctrl" \in held) = ctrl /\ lock = caps
        /\ expected = IF ~up THEN Append(out, Meant(key)) ELSE out
    BY <1>0, <1>4, <2>1 DEF Behind, Modifiers
  <2>4. CASE up
    BY <2>2, <2>3, <2>4 DEF CaughtUp
  <2>5. CASE ~up /\ Resets(key)
    <3>1. Meant(key) = Reset /\ expected = Append(out, Reset) /\ out' = out /\ expected' = expected
      BY <2>2, <2>3, <2>5 DEF Meant, Resets
    <3>2. Len(out) < Len(Append(out, Reset)) /\ Append(out, Reset)[Len(out) + 1] = Reset
      BY DEF KeyboardType
    <3>3. Len(out') < Len(expected') /\ expected'[Len(out') + 1] = Reset
      BY <3>1, <3>2
    <3> QED
      BY <2>2, <2>5, <3>3
  <2>6. CASE ~up /\ ~Resets(key)
    <3>1. Meant(key) = Char(key, Upper)
      BY <2>3, <2>6 DEF Meant, Resets, Upper
    <3> QED
      BY <2>2, <2>3, <2>6, <3>1 DEF CaughtUp
  <2> QED
    BY <2>4, <2>5, <2>6
<1> QED
  BY <1>1, <1>2, <1>3, <1>4 DEF Keys

LEMMA ReadDirectionInv ==
    ASSUME KeyboardInv, ReadDirection
    PROVE  KeyboardInv'
<1>1. KeyboardType /\ Follows /\ handler = "direction" /\ code \in Codes
  BY DEF KeyboardInv, ReadDirection, KeyboardType
<1>2. /\ crowded' = (crowded \/ waiting # << >>)
      /\ UNCHANGED <<held, lock, expected>>
  BY DEF ReadDirection
<1>3. PICK up \in BOOLEAN : PS2KBHandler(code.key, up)
  <2>1. waiting # << >> => Head(waiting) \in Codes
    BY <1>1 DEF KeyboardType
  <2> QED
    BY <1>1, <2>1 DEF ReadDirection, Codes
<1>4. code.key \in Keys
  BY <1>1 DEF Codes
<1>5. waiting' \in Seq(Codes)
  <2>1. waiting \in Seq(Codes)
    BY <1>1 DEF KeyboardType
  <2>2. waiting' = waiting \/ (waiting # << >> /\ waiting' = Tail(waiting))
    BY DEF ReadDirection
  <2> QED
    BY <2>1, <2>2, TailOf
<1>6. KeyboardType'
  BY <1>1, <1>2, <1>3, <1>4, <1>5, HandlerType DEF KeyboardType
<1>7. ASSUME ~crowded'
      PROVE  /\ handler' # "reset" => CaughtUp'
             /\ handler' = "reset" => Len(out') < Len(expected') /\ expected'[Len(out') + 1] = Reset
             /\ waiting' = << >>
  <2>1. waiting = << >> /\ ~crowded
    BY <1>2, <1>7
  <2>2. Behind(code) /\ PS2KBHandler(code.key, code.up) /\ waiting' = waiting
    BY <1>1, <2>1 DEF Follows, ReadDirection
  <2> QED
    BY <1>1, <1>2, <2>1, <2>2, HandlerCatchesUp
<1>8. handler' # "direction"
  BY <1>1, <1>3, <1>4, HandlerType
<1>9. Follows'
  BY <1>7, <1>8 DEF Follows
<1> QED
  BY <1>6, <1>9 DEF KeyboardInv

LEMMA KeyboardNextInv == KeyboardInv /\ [KeyboardNext]_allVars => KeyboardInv'
<1> SUFFICES ASSUME KeyboardInv, [KeyboardNext]_allVars PROVE KeyboardInv'
  OBVIOUS
<1>1. CASE \E key \in Keys : Press(key) \/ Release(key)
  BY <1>1, PressInv, ReleaseInv
<1>2. CASE ReadKey
  BY <1>2, ReadKeyInv
<1>3. CASE ReadDirection
  BY <1>3, ReadDirectionInv
<1>4. CASE Reader \/ UNCHANGED allVars
  <2>1. UNCHANGED <<waiting, handler, code, shift, ctrl, caps, out, held, lock, expected, crowded>>
    BY <1>4 DEF Reader, allVars, keyVars, typists
  <2> QED
    BY <2>1 DEF KeyboardInv, KeyboardType, Follows, CaughtUp, Behind, Meant
<1> QED
  BY <1>1, <1>2, <1>3, <1>4 DEF KeyboardNext

\* For any keys, any number of events and any order of them: while no code
\* waits behind another, the characters are those meant, and only a press of c
\* with control held resets the machine (dev/ps2.c:81-125).
THEOREM KeyboardTypesAsMeant == KeyboardSpec => []TypedAsMeant
<1>1. KeyboardInv => TypedAsMeant
  BY DEF KeyboardInv, KeyboardType, Follows, CaughtUp, TypedAsMeant, Handled
<1> QED
  BY <1>1, KeyboardInitInv, KeyboardNextInv, PTL DEF KeyboardSpec
=============================================================================
