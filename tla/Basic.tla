-------------------------------- MODULE Basic --------------------------------
(***************************************************************************)
(* cyBASIC, usr/src/basic.c: a program kept as a sorted list of nodes on   *)
(* the heap of the C library, edited at the prompt and run line by line.   *)
(* A text is a sequence of tokens <<type, value>>, where the value of an   *)
(* identifier is a keyword or a variable; LET is followed by a variable or *)
(* by nothing.  LIST changes nothing and is left out.                      *)
(***************************************************************************)
EXTENDS UserMalloc, Sequences

CONSTANTS Numbers,    \* of lines
          Variables,  \* names the texts use after LET and GOTO
          Texts,      \* what may follow a number, spaces at least
          LineSize,   \* sizeof(Line)
          EnvSizes    \* what __libc_init allocates: environ, then its strings

Tokens == UNION {{text[i] : i \in DOMAIN text} : text \in Texts}

ASSUME BasicAssumption ==
    /\ Numbers \subseteq Nat \ {0} /\ Texts \subseteq Seq(Tokens)
    /\ LineSize \in Nat \ {0} /\ EnvSizes \in Seq(Nat \ {0})

VARIABLES environ,      \* the blocks of the environment, never freed
          node,         \* the nodes allocated: number, text and next
          programHead,
          variables,
          mode,         \* before main, at the prompt, in RunLine, in ClearProgram, over
          line, r,      \* the line that runs, and the iterator of the loop
          linePtr       \* the tokens of the line not yet read

vars == <<heapVars, environ, node, programHead, variables, mode, line, r, linePtr>>

Init ==
    /\ HeapInit
    /\ environ = << >> /\ node = << >> /\ programHead = NULL
    /\ variables = [v \in Variables |-> 0]
    /\ mode = "start" /\ line = NULL /\ r = NULL /\ linePtr = << >>

libcInit ==
    /\ mode = "start"
    /\ IF Len(environ) < Len(EnvSizes)
       THEN /\ \E p \in HeapPointers : /\ malloc(p, EnvSizes[Len(environ) + 1])
                                       /\ environ' = Append(environ, p)
            /\ UNCHANGED mode
       ELSE mode' = "prompt" /\ UNCHANGED <<heapVars, environ>>
    /\ UNCHANGED <<node, programHead, variables, line, r, linePtr>>

-----------------------------------------------------------------------------
\* Links: NULL stands for programHead, an address for the next of its node.
Links == {NULL} \cup DOMAIN node
Link(l) == IF l = NULL THEN programHead ELSE node[l].next

Relink(nodes, l, a) ==
    IF l = NULL
    THEN programHead' = a /\ node' = nodes
    ELSE node' = [nodes EXCEPT ![l].next = a] /\ UNCHANGED programHead

\* The walk over the sorted list stops at link l.
WalkEnds(l, num) ==
    /\ l # NULL => node[l].num < num
    /\ Link(l) # NULL => node[Link(l)].num >= num

IsAt(l, num) == Link(l) # NULL /\ node[Link(l)].num = num

Insert(l, num, text) ==
    \E p \in HeapPointers :
        /\ malloc(p, LineSize)
        /\ Relink([a \in DOMAIN node \cup {p} |->
                       IF a = p THEN [num |-> num, text |-> text, next |-> Link(l)]
                       ELSE node[a]], l, p)

Replace(l, text) ==
    /\ node' = [node EXCEPT ![Link(l)].text = text]
    /\ UNCHANGED <<heapVars, programHead>>

\* Mutant: the node is unlinked only.
Dropped_Kept(a) == UNCHANGED heapVars

Dropped(a) == free(a)

Remove(l) ==
    LET temp == Link(l)
    IN  /\ Relink([a \in DOMAIN node \ {temp} |-> node[a]], l, node[temp].next)
        /\ Dropped(temp)

\* A number and a text; without a text the line is removed.
ProcessLine(num) ==
    /\ mode = "prompt"
    /\ \E l \in Links :
           /\ WalkEnds(l, num)
           /\ \/ IsAt(l, num) /\ Remove(l)
              \/ IsAt(l, num) /\ \E text \in Texts : Replace(l, text)
              \/ ~IsAt(l, num) /\ \E text \in Texts : Insert(l, num, text)
    /\ UNCHANGED <<environ, variables, mode, line, r, linePtr>>

\* NEW; r stands for curr of ClearProgram.
ClearProgram ==
    /\ mode = "prompt"
    /\ mode' = "clear" /\ r' = programHead
    /\ UNCHANGED <<heapVars, environ, node, programHead, variables, line, linePtr>>

\* next is read, then curr is freed.
ClearNode ==
    /\ mode = "clear" /\ r # NULL
    /\ r' = node[r].next
    /\ free(r)
    /\ node' = [a \in DOMAIN node \ {r} |-> node[a]]
    /\ UNCHANGED <<environ, programHead, variables, mode, line, linePtr>>

Cleared ==
    /\ mode = "clear" /\ r = NULL
    /\ programHead' = NULL /\ mode' = "prompt"
    /\ UNCHANGED <<heapVars, environ, node, variables, line, r, linePtr>>

\* A line of spaces has no token: strcmp reads address 0, which is not mapped.
BlankLine ==
    /\ mode = "prompt" /\ mode' = "wrecked"
    /\ UNCHANGED <<heapVars, environ, node, programHead, variables, line, r, linePtr>>

Exit ==
    /\ mode = "prompt" /\ mode' = "exited"
    /\ UNCHANGED <<heapVars, environ, node, programHead, variables, line, r, linePtr>>

-----------------------------------------------------------------------------
listVars == <<heapVars, environ, node, programHead>>

StopRun == mode' = "prompt" /\ line' = NULL /\ r' = NULL /\ linePtr' = << >>

\* The loop of RUN comes to node a.
RunFrom(a) ==
    IF a = NULL THEN StopRun
    ELSE mode' = "run" /\ line' = a /\ r' = a /\ linePtr' = node[a].text

RUN ==
    /\ mode = "prompt"
    /\ variables' = [v \in Variables |-> 0]
    /\ RunFrom(programHead)
    /\ UNCHANGED listVars

\* Tokens ahead in s.
Token(s, i) == IF i <= Len(s) THEN s[i] ELSE <<"end">>
Is(s, i, type) == Token(s, i)[1] = type
Keyword(s, k) == Token(s, 1) = <<"id", k>>
Rest(s, n) == SubSeq(s, n + 1, Len(s))

\* Of a number or a variable.
Operand(s, i) == Is(s, i, "num") \/ Is(s, i, "id")
Value(i) == IF Is(linePtr, i, "num") THEN Token(linePtr, i)[2] ELSE variables[Token(linePtr, i)[2]]

\* PRINT comes to token i.
Printed(s, i) == \A j \in 2 .. i - 1 : Operand(s, j) \/ Is(s, j, "string")

Assigns(s) == Token(s, 3) = <<"op", "=">> /\ Operand(s, 4)

\* n tokens are read at once: everything up to the end or a bad character is
\* printed, and what is not an identifier is passed over.  At the end and at a
\* character no token begins with, the pointer does not move on.
Reads(s, n) ==
    \/ /\ Keyword(s, "PRINT") /\ Printed(s, n + 1)
       /\ Is(s, n + 1, "end") \/ Is(s, n + 1, "bad")
    \/ Keyword(s, "GOTO") /\ Operand(s, 2) /\ n = 2
    \/ Keyword(s, "LET") /\ Assigns(s) /\ n = 4
    \/ (Is(s, 1, "num") \/ Is(s, 1, "string") \/ Is(s, 1, "op")) /\ n = 1

\* RunLine returns 1, whatever the program and the variables.
Refused(s) ==
    \/ Keyword(s, "PRINT") /\ \E i \in 2 .. Len(s) : Printed(s, i) /\ Is(s, i, "op")
    \/ Keyword(s, "GOTO") /\ ~Operand(s, 2)
    \/ Keyword(s, "LET") /\ ~Assigns(s)
    \/ Is(s, 1, "id") /\ Token(s, 1)[2] \notin {"PRINT", "GOTO", "LET"}

ReadOn == \E n \in 1 .. Len(linePtr) : Reads(linePtr, n) /\ linePtr' = Rest(linePtr, n)

Refuse ==
    /\ mode = "run" /\ Refused(linePtr)
    /\ StopRun
    /\ UNCHANGED <<listVars, variables>>

PrintStatement ==
    /\ mode = "run" /\ Keyword(linePtr, "PRINT")
    /\ ReadOn
    /\ UNCHANGED <<listVars, variables, mode, line, r>>

\* The rest of the line still runs before the iterator moves on.
GotoStatement ==
    /\ mode = "run" /\ Keyword(linePtr, "GOTO") /\ Operand(linePtr, 2)
    /\ IF \E a \in DOMAIN node : node[a].num = Value(2)
       THEN /\ r' \in {a \in DOMAIN node : node[a].num = Value(2)}
            /\ ReadOn /\ UNCHANGED <<mode, line>>
       ELSE StopRun
    /\ UNCHANGED <<listVars, variables>>

LetStatement ==
    /\ mode = "run" /\ Keyword(linePtr, "LET")
    /\ ReadOn
    /\ variables' = [variables EXCEPT ![Token(linePtr, 2)[2]] = Value(4)]
    /\ UNCHANGED <<listVars, mode, line, r>>

PassOver ==
    /\ mode = "run" /\ ~Is(linePtr, 1, "id")
    /\ ReadOn
    /\ UNCHANGED <<listVars, variables, mode, line, r>>

\* Mutant: a jump is forgotten at the end of the line.
Advanced_Line == node[line].next

\* Mutant: the loop forgets to go on.
Advanced_Same == r

Advanced == node[r].next

EndOfLine ==
    /\ mode = "run" /\ Is(linePtr, 1, "end")
    /\ RunFrom(Advanced)
    /\ UNCHANGED <<listVars, variables>>

RunLine == PrintStatement \/ GotoStatement \/ LetStatement \/ Refuse \/ PassOver \/ EndOfLine

Next ==
    \/ libcInit
    \/ \E num \in Numbers : ProcessLine(num)
    \/ ClearProgram \/ ClearNode \/ Cleared
    \/ RUN \/ RunLine
    \/ BlankLine \/ Exit

\* The interpreter goes on while it is not waiting at its prompt.
Spec == Init /\ [][Next]_vars /\ WF_vars(RunLine) /\ WF_vars(ClearNode \/ Cleared)

-----------------------------------------------------------------------------
\* Where the list begins: it is cut short while it is cleared.
ListHead == IF mode = "clear" THEN r ELSE programHead

\* The nodes are a list in ascending order, and they are what is in use on a
\* sound heap, besides the environment: none is lost, linked twice, or used after it was freed
\* (usr/src/basic.c:29-62).
HeapIsProgram ==
    /\ ListHead \in {NULL} \cup DOMAIN node
    /\ \A a \in DOMAIN node :
           /\ node[a].next # NULL =>
                  node[a].next \in DOMAIN node /\ node[a].num < node[node[a].next].num
           /\ a = ListHead \/ \E b \in DOMAIN node : node[b].next = a
    /\ DOMAIN node \cap {environ[i] : i \in DOMAIN environ} = {}
    /\ DOMAIN node \cup {environ[i] : i \in DOMAIN environ} =
           {Payload(b) : b \in {c \in DOMAIN hdr : ~ hdr[c].free}}
    /\ HeapSound

\* The targets of the jumps of a text; a variable is 0 or was set to a number.
JumpTargets(text) ==
    UNION {IF text[i + 1][1] = "num" THEN {text[i + 1][2]} ELSE {0} \cup Numbers :
               i \in {j \in 1 .. Len(text) - 1 : text[j] = <<"id", "GOTO">>}}

\* Where a run of a text can be: the positions its statements begin at.
Closed(text, S) ==
    /\ 0 \in S
    /\ \A k \in S : \A n \in 1 .. Len(text) - k : Reads(Rest(text, k), n) => k + n \in S
Starts(text) == {k \in 0 .. Len(text) : \A S \in SUBSET (0 .. Len(text)) : Closed(text, S) => k \in S}

Faulty == {text \in Texts : \E k \in Starts(text) : Refused(Rest(text, k))}

Shown == IF mode = "clear" THEN {} ELSE DOMAIN node
Program == [n \in {node[a].num : a \in Shown} |-> node[CHOOSE a \in Shown : node[a].num = n].text]
Line == IF line = NULL THEN 0 ELSE node[line].num
Iterator == IF r = NULL \/ mode = "clear" THEN 0 ELSE node[r].num

\* The list does what is expected of a program: lines are added, replaced and
\* removed by their numbers, and run in the order of these except for jumps
\* (usr/src/basic.c:39-88, 143-256).
Abstract == INSTANCE BasicSpec
    WITH program <- Program, at <- Line, behind <- Iterator, Jumps <- JumpTargets
Implements == Abstract!Spec

\* A run ends when no line of the program jumps or holds a character no token
\* begins with (usr/src/basic.c:148, 250-251).
Straight ==
    \A a \in DOMAIN node : \A i \in DOMAIN node[a].text :
        node[a].text[i] # <<"id", "GOTO">> /\ node[a].text[i][1] # "bad"
RunEnds == mode = "run" /\ Straight ~> mode = "prompt"
=============================================================================
