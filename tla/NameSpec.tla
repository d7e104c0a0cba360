------------------------------ MODULE NameSpec ------------------------------
(***************************************************************************)
(* What a program may expect of names: each process stands in a directory  *)
(* and walks from there; a child starts where its caller stands and its    *)
(* steps move nobody else; what a number of a volume means never changes   *)
(* once it means something.  Names that are too long, too deep or too many *)
(* for the kernel may lead to another directory, or end everything.        *)
(***************************************************************************)
EXTENDS Integers, SequencesExt

CONSTANTS PathMax, PartSize, MaxParts,  \* the limits of Paths
          NoVolume, SearchPath

VARIABLES volume,   \* of each number, its files, or NoVolume
          at,       \* of each live process, the directory it stands in
          call      \* the last call: what was asked, and the answer

vars == <<volume, at, call>>

\* One name of a path: to the parent, nowhere, or on.
Stride(names, name) ==
    CASE name \in {<< >>, <<".">>} -> names
      [] name = <<".", ".">> -> IF names = << >> THEN names ELSE Front(names)
      [] OTHER -> Append(names, name)

IsRooted(p) == Len(p.pieces) > 1 /\ p.pieces[1] = << >>

Strides(names, pieces) ==
    LET stood[i \in 0 .. Len(pieces)] == IF i = 0 THEN names ELSE Stride(stood[i - 1], pieces[i])
    IN  stood[Len(pieces)]

Walk(here, p) ==
    [volume |-> IF p.volume = "" THEN here.volume ELSE p.volume,
     names |-> Strides(IF IsRooted(p) THEN << >> ELSE here.names, p.pieces)]

Kind(files, names) ==
    CASE files = NoVolume -> "none"
      [] files # NoVolume /\ names = << >> -> "root"
      [] OTHER -> IF names \in files.dirs THEN "dir"
                  ELSE IF names \in files.programs THEN "program" ELSE "none"

KindOf(vol, node) == IF node.volume \in DOMAIN vol THEN Kind(vol[node.volume], node.names) ELSE "none"

Accepts == [chdir |-> {"root", "dir"}, opendir |-> {"root", "dir"}, stat |-> {"dir", "program"},
            open |-> {"program"}, exec |-> {"program"}]

Size(names) ==
    LET size[i \in 0 .. Len(names)] == IF i = 0 THEN 0 ELSE size[i - 1] + Len(names[i]) + 1
    IN  size[Len(names)]

\* The characters of a path, after those of the directory it begins in.
TextSize(here, p) ==
    Size(p.pieces) - 1 + (IF IsRooted(p) THEN 0 ELSE 1 + (IF here.names = << >> THEN 1 ELSE Size(here.names)))

\* The names the kernel has room for.
Fits(here, p) ==
    /\ TextSize(here, p) <= PathMax - 3
    /\ \A name \in ToSet(p.pieces) \cup (IF IsRooted(p) THEN {} ELSE ToSet(here.names)) : Len(name) < PartSize - 1
    /\ \A k \in DOMAIN p.pieces :
            Len(Walk(here, [p EXCEPT !.pieces = SubSeq(@, 1, k)]).names) <= MaxParts

\* Where a command is looked for: in the place it names, or along a search path.
IsPlain(p) == p.volume = "" /\ Len(p.pieces) = 1
Within(dir, p) == [dir EXCEPT !.pieces = @ \o p.pieces]
Places(p) == IF IsPlain(p) THEN [i \in DOMAIN SearchPath |-> Within(SearchPath[i], p)] ELSE <<p>>

\* The place where a command is found first: none, or one.
FirstSeen(vol, here, p) ==
    LET seen == {i \in DOMAIN Places(p) : KindOf(vol, Walk(here, Places(p)[i])) \in Accepts["stat"]}
    IN  {Places(p)[i] : i \in {j \in seen : \A k \in seen : j <= k}}

-----------------------------------------------------------------------------
Here == Last(at)

Init == volume = << >> /\ at = << >> /\ call = [op |-> "boot"]

\* A number gets its meaning, and keeps it.
Settles ==
    \A v \in DOMAIN volume : v \in DOMAIN volume' /\ (volume[v] # NoVolume => volume'[v] = volume[v])

\* Before the first program there are only mounts; its directory is a root.
Boot ==
    /\ at = << >>
    /\ call' = [op |-> "boot"]
    /\ at' \in {<< >>, <<[volume |-> "0", names |-> << >>]>>}

Moved(op, node) ==
    at' = CASE op = "chdir" -> [at EXCEPT ![Len(at)] = node]
            [] op = "exec" -> Append(at, Here)
            [] OTHER -> at

\* Where a call should lead: a command that is nowhere seen leads nowhere.
Goals == {Walk(Here, p) : p \in IF call'.command THEN FirstSeen(volume', Here, call'.path) ELSE {call'.path}}
GoalFits == IF call'.command THEN \A p \in ToSet(Places(call'.path)) : Fits(Here, p)
            ELSE Fits(Here, call'.path)

\* A call reaches its goal, or says it is not there.
Reach(fits, goals) ==
    /\ call'.result = "ok"
    /\ KindOf(volume', call'.node) \in Accepts[call'.op]
    /\ fits /\ (call'.command => call'.io) => call'.node \in goals
    /\ Moved(call'.op, call'.node)

Miss(fits, goals) ==
    /\ call'.result = "failed"
    /\ fits /\ call'.io => \A goal \in goals : KindOf(volume', goal) \notin Accepts[call'.op]
    /\ UNCHANGED at

\* The kernel wrote past the end of an array: nothing is known any more.
Lost(fits) == call'.result = "lost" /\ ~fits /\ at' = << >>

CallWith(fits, goals) == Reach(fits, goals) \/ Miss(fits, goals) \/ Lost(fits)

Call == at # << >> /\ call'.op \in DOMAIN Accepts /\ CallWith(GoalFits, Goals)

Exit ==
    /\ at # << >>
    /\ call' = [op |-> "exit"]
    /\ at' = Front(at)

Next == Settles /\ (Boot \/ Call \/ Exit)

Spec == Init /\ [][Next]_vars
=============================================================================
