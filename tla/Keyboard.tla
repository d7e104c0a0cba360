------------------------------ MODULE Keyboard ------------------------------
(***************************************************************************)
(* Keys to characters: PS2KBHandler of dev/ps2.c, which puts them in the   *)
(* buffer of InputRing for the reader it interrupts.  The controller is    *)
(* external: it queues a code for every press (repeats included) and every *)
(* release, and raises an interrupt for each.  The handler reads the port  *)
(* twice, for the key and for the direction; when another code waits, the  *)
(* second read may already return that one.  held, lock, expected and      *)
(* crowded are auxiliary: the keys that are down, the parity of presses of *)
(* caps lock, the characters meant, and whether codes ever queued up.      *)
(***************************************************************************)
EXTENDS InputRing, Sequences

CONSTANTS Letters,   \* keys with two characters
          Silent,    \* keys the handler leaves out, escape and F1 to F12 among them
          MaxEvents  \* bound: presses and releases, at most MaxTyped

Modifiers == {"shift", "ctrl", "caps"}
Keys == Letters \cup Silent \cup Modifiers

ASSUME KeyboardAssumption ==
    /\ MaxEvents \in 0 .. MaxTyped
    /\ Letters \cap (Silent \cup Modifiers) = {} /\ Silent \cap Modifiers = {}

VARIABLES waiting,             \* codes queued in the controller
          handler, code,       \* where the interrupt is, and its first read
          shift, ctrl, caps,   \* its state
          out,                 \* characters put in the keyboard buffer
          held, lock, expected, crowded, events

typists == <<held, lock, expected, crowded, events>>
keyVars == <<waiting, handler, code, shift, ctrl, caps, out, typists>>
allVars == <<vars, keyVars>>

Nothing == [key |-> "none", up |-> TRUE]

KeyboardInit ==
    /\ Init
    /\ waiting = << >> /\ handler = "idle" /\ code = Nothing
    /\ shift = FALSE /\ ctrl = FALSE /\ caps = FALSE
    /\ out = << >>
    /\ held = {} /\ lock = FALSE /\ expected = << >> /\ crowded = FALSE /\ events = 0

\* A character of a key: its upper or lower form.
Char(key, upper) == <<key, upper>>
Reset == <<"reset", TRUE>>

\* What the press of a letter means; control and c mean a reset.
Meant(key) ==
    IF key = "c" /\ "ctrl" \in held THEN Reset ELSE Char(key, "shift" \in held \/ lock)

Press(key) ==
    /\ events < MaxEvents
    /\ events' = events + 1
    /\ waiting' = Append(waiting, [key |-> key, up |-> FALSE])
    /\ held' = held \cup {key}
    /\ lock' = (lock # (key = "caps"))
    /\ expected' = IF key \in Letters THEN Append(expected, Meant(key)) ELSE expected
    /\ UNCHANGED <<vars, handler, code, shift, ctrl, caps, out, crowded>>

Release(key) ==
    /\ events < MaxEvents /\ key \in held
    /\ events' = events + 1
    /\ waiting' = Append(waiting, [key |-> key, up |-> TRUE])
    /\ held' = held \ {key}
    /\ UNCHANGED <<vars, handler, code, shift, ctrl, caps, out, lock, expected, crowded>>

\* The interrupt, and the first read of the port.
ReadKey ==
    /\ handler = "idle" /\ waiting # << >>
    /\ code' = Head(waiting) /\ waiting' = Tail(waiting)
    /\ handler' = "direction"
    /\ UNCHANGED <<vars, shift, ctrl, caps, out, typists>>

Toggled(up) == IF up THEN caps ELSE ~caps

\* Mutant: caps lock wins over shift.
Upper_Either == shift # caps

Upper == shift \/ caps

\* Control and c reset the machine.
Resets(key) == key = "c" /\ ctrl

PS2KBHandler(key, up) ==
    \/ /\ key \in Silent
       /\ handler' = "idle" /\ UNCHANGED <<vars, shift, ctrl, caps, out>>
    \/ /\ key = "ctrl" /\ ctrl' = ~up
       /\ handler' = "idle" /\ UNCHANGED <<vars, shift, caps, out>>
    \/ /\ key = "shift" /\ shift' = ~up
       /\ handler' = "idle" /\ UNCHANGED <<vars, ctrl, caps, out>>
    \/ /\ key = "caps" /\ caps' = Toggled(up)
       /\ handler' = "idle" /\ UNCHANGED <<vars, shift, ctrl, out>>
    \/ /\ key \in Letters
       /\ IF up THEN handler' = "idle" /\ UNCHANGED <<vars, out>>
          ELSE IF Resets(key) THEN handler' = "reset" /\ UNCHANGED <<vars, out>>
          ELSE handler' = "idle" /\ InBufferPutC /\ out' = Append(out, Char(key, Upper))
       /\ UNCHANGED <<shift, ctrl, caps>>

\* The second read, of the same code or of the next, and the rest.
ReadDirection ==
    /\ handler = "direction"
    /\ \/ PS2KBHandler(code.key, code.up) /\ UNCHANGED waiting
       \/ /\ waiting # << >>
          /\ PS2KBHandler(code.key, Head(waiting).up)
          /\ waiting' = Tail(waiting)
    /\ crowded' = (crowded \/ waiting # << >>)
    /\ code' = Nothing
    /\ UNCHANGED <<held, lock, expected, events>>

\* The interrupt runs to its end before the reader goes on.
Reader == handler = "idle" /\ InBufferGetC /\ UNCHANGED keyVars

KeyboardNext ==
    \/ \E key \in Keys : Press(key) \/ Release(key)
    \/ ReadKey \/ ReadDirection
    \/ Reader

\* The controller raises an interrupt for every code, the handler returns, and
\* nothing else runs while the reader waits.
KeyboardSpec ==
    /\ KeyboardInit /\ [][KeyboardNext]_allVars
    /\ WF_allVars(ReadKey \/ ReadDirection) /\ WF_allVars(Reader)

-----------------------------------------------------------------------------
Handled == handler = "idle" /\ waiting = << >> /\ ~crowded

\* While no code waits behind another, each press of a letter gives one
\* character, in order, of the case the modifiers had when it was pressed,
\* whatever was pressed, repeated and released in between; and the machine is
\* reset only by a press of c with control held, after every character before
\* it (dev/ps2.c:101-122).
TypedAsMeant ==
    /\ Handled => out = expected
    /\ handler = "reset" /\ ~crowded => expected[Len(out) + 1] = Reset

\* A reader that keeps reading gets every character the handler stored, unless
\* it falls behind by the size of the buffer or the machine is reset
\* (kernel/inbuffer.c:15-20, dev/ps2.c:114-122).
Delivered ==
    \A k \in 1 .. MaxTyped :
        typed >= k ~> (last >= k \/ typed - last >= Size \/ handler = "reset")
=============================================================================
