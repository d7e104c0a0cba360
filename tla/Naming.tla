------------------------------- MODULE Naming -------------------------------
(***************************************************************************)
(* The names of files from boot to the programs: kmain finds the drives,   *)
(* mounts two volumes and starts the first program; programs move about,   *)
(* look at files and start others (src/kernel/syscall.c, elf.c), and the   *)
(* shell finds its commands along a search path (src/usr/src/cysh.c).      *)
(* Any transfer may fail.                                                  *)
(***************************************************************************)
EXTENDS Paths, Volumes

CONSTANTS Machines,     \* the drives a machine may have
          Asked,        \* the paths programs give
          Commands,     \* the names given to the shell
          SearchPath,   \* PATH, as the shell has it
          FirstProgram, \* "1:/bin/init"
          MaxNested     \* processes inside each other, in this model

\* A text with its letter, or none, in at least one piece.
Texts == [volume : STRING, pieces : Seq(Seq(STRING)) \ {<< >>}]

ASSUME TextsAssumption ==
    /\ \A op \in {"chdir", "opendir", "stat", "open", "exec"} : Asked[op] \subseteq Texts
    /\ Commands \subseteq Texts
    /\ SearchPath \in Seq(Texts) \ {<< >>}

\* FatFs finds nothing under a dot: create_name takes it for no name at all.
IsVolume(files) ==
    files # NoVolume /\ \A names \in files.dirs : \A i \in DOMAIN names : names[i] \notin {Dot, DotDot}

\* An entry of a partition table that starts nowhere holds nothing.
ASSUME MachinesAssumption ==
    \A machine \in Machines, d \in Drives : machine[d] # Absent =>
        /\ machine[d].sector0 = "bare" => IsVolume(machine[d].whole)
        /\ machine[d].sector0 = "mbr" =>
              \A i \in 1 .. Entries :
                  /\ machine[d].table[i].start = 0 => machine[d].table[i].holds = NoVolume
                  /\ machine[d].table[i].holds # NoVolume => IsVolume(machine[d].table[i].holds)

VARIABLES boot,     \* how far kmain is: a drive to detect, or a name
          cwds,     \* cwd of each live process, the running one last
          call,     \* the last call and its answer
          misread   \* whether the first sector of a drive was not read (history)

vars == <<volumeVars, boot, cwds, call, misread>>

-----------------------------------------------------------------------------
Digits == [c \in {"0", "1", "2"} |-> CASE c = "0" -> 0 [] c = "1" -> 1 [] c = "2" -> 2]
DigitOf(v) == CHOOSE c \in DOMAIN Digits : Digits[c] = v

\* How FatFs reads a full path: a number, then name after name.  The names of
\* the model differ in more than case, and none has a backslash in it or a dot
\* at its end, which FatFs would take for a separator or drop.
NameOn(names, piece) == IF piece = << >> THEN names ELSE Append(names, piece)
NodeOf(text) ==
    LET names[i \in 0 .. Len(text.pieces)] == IF i = 0 THEN << >> ELSE NameOn(names[i - 1], text.pieces[i])
    IN  [volume |-> text.volume, names |-> names[Len(text.pieces)]]

NumberIn(text) == IF text.volume \in DOMAIN Digits THEN Digits[text.volume] ELSE MaxVolumes

\* The transfers that fail in one call: none, or those of one sector.  Only a
\* mount reads a first sector; the directories are past them.
Contents == Place(MaxDrives, 0)
FirstSectors == {Place(volToPart[v].pd, i) : v \in {w \in {0, 1} : w \notin DOMAIN fatFs \/ fatFs[w] = Unmounted},
                                             i \in 0 .. Entries}
Troubles == {{}, {Contents}} \cup {{sector} : sector \in FirstSectors}

Leftovers == {<< >>, <<"x">>}

Seen(files, names, bad) ==
    CASE names = << >> -> "root"
      [] names # << >> /\ Contents \in bad -> "none"
      [] OTHER -> IF names \in files.dirs THEN "dir"
                  ELSE IF names \in files.programs THEN "program" ELSE "none"

\* What f_opendir, f_stat and f_open find at a full path.
LookUp(text, bad) ==
    IF text \in {Refused, Overrun} \/ MountedAt(NumberIn(text), bad) = Unmounted THEN "none"
    ELSE Seen(VolumeAt(MountedAt(NumberIn(text), bad)), NodeOf(text).names, bad)

Visit(text, bad) ==
    IF text \in {Refused, Overrun} THEN UNCHANGED volumeVars
    ELSE MountVolumes({NumberIn(text)}, bad)

-----------------------------------------------------------------------------
Root(volume) == [volume |-> volume, pieces |-> << << >>, << >> >>]

Init ==
    /\ VolumesInit(Machines)
    /\ boot = 0
    /\ cwds = << >>
    /\ call = [op |-> "boot"]
    /\ misread = FALSE

BootStep(to) == boot' = to /\ call' = [op |-> "boot"] /\ UNCHANGED cwds

DetectDrive ==
    /\ boot \in Drives
    /\ \E bad \in {{}, {Place(boot, 0)}} :
        Detect(boot, bad) /\ misread' = (misread \/ (drives[boot] # Absent /\ bad # {}))
    /\ BootStep(boot + 1)

\* f_mount of "0:" and "1:", whose results nobody looks at.
Mount(v, now, next) ==
    /\ boot = now
    /\ \E bad \in Troubles : FMount(v, bad)
    /\ BootStep(next)
    /\ UNCHANGED misread

ListRoot ==
    /\ boot = MaxDrives + 2
    /\ \E bad \in Troubles : MountVolumes({1}, bad)
    /\ BootStep(boot + 1)
    /\ UNCHANGED misread

Running == MaxDrives + 4
Prompt == MaxDrives + 5

\* ELFLoad of the first program, which stands in "0:/"; without it, the prompt.
LoadFirst ==
    /\ boot = MaxDrives + 3
    /\ \E bad \in Troubles :
        /\ MountVolumes({1}, bad)
        /\ LET loaded == LookUp(FirstProgram, bad) = "program"
           IN  /\ boot' = IF loaded THEN Running ELSE Prompt
               /\ cwds' = IF loaded THEN <<Root("0")>> ELSE << >>
    /\ call' = [op |-> "boot"]
    /\ UNCHANGED misread

-----------------------------------------------------------------------------
Cwd == Last(cwds)
Accepts == [chdir |-> {"root", "dir"}, opendir |-> {"root", "dir"}, stat |-> {"dir", "program"},
            open |-> {"program"}, exec |-> {"program"}]

Asks(op, p, command, bad, result, text) ==
    call' = [op |-> op, path |-> p, command |-> command, io |-> bad = {}, result |-> result,
             text |-> IF result = "ok" THEN text ELSE Refused]

\* The process is overwritten by a text longer than its array.
LoseAll(op, p, command, bad) ==
    /\ cwds' = << >>
    /\ boot' = Prompt
    /\ Asks(op, p, command, bad, "lost", Overrun)

\* ELFLoad: the child starts in the directory of its caller.
Effect(op, text) ==
    cwds' = CASE op = "chdir" -> [cwds EXCEPT ![Len(cwds)] = text]
              [] op = "exec" -> Append(cwds, Cwd)
              [] OTHER -> cwds

\* Mutant: a directory is entered whether it opens or not.
Answered_Unchecked(op, p, command, bad, text) ==
    IF text = Overrun THEN LoseAll(op, p, command, bad)
    ELSE IF op = "chdir" \/ LookUp(text, bad) \in Accepts[op]
    THEN Effect(op, text) /\ Asks(op, p, command, bad, "ok", text) /\ UNCHANGED boot
    ELSE Asks(op, p, command, bad, "failed", text) /\ UNCHANGED <<cwds, boot>>

\* SysChDir, SysOpenDir, SysStat, SysOpen and SysExec, once the path is resolved.
Answered(op, p, command, bad, text) ==
    IF text = Overrun THEN LoseAll(op, p, command, bad)
    ELSE IF LookUp(text, bad) \in Accepts[op]
    THEN Effect(op, text) /\ Asks(op, p, command, bad, "ok", text) /\ UNCHANGED boot
    ELSE Asks(op, p, command, bad, "failed", text) /\ UNCHANGED <<cwds, boot>>

SystemCall(op) ==
    /\ boot = Running
    /\ UNCHANGED misread
    /\ op = "exec" => Len(cwds) < MaxNested
    /\ \E p \in Asked[op] :
        \E text \in {PathResolve(Cwd, p, left) : left \in Leftovers}, bad \in Troubles :
            Visit(text, bad) /\ Answered(op, p, FALSE, bad, text)

SysChDir == SystemCall("chdir")
SysOpenDir == SystemCall("opendir")
SysStat == SystemCall("stat")
SysOpen == SystemCall("open")
SysExec == SystemCall("exec")

\* SysExit goes back to the caller, and from the first program to the prompt.
SysExit ==
    /\ boot = Running
    /\ cwds' = Front(cwds)
    /\ boot' = IF Len(cwds) = 1 THEN Prompt ELSE boot
    /\ call' = [op |-> "exit"]
    /\ UNCHANGED <<volumeVars, misread>>

-----------------------------------------------------------------------------
\* PathLookup of the shell: the texts it asks for, in their order.
Candidates(name) ==
    IF name.volume # "" \/ Len(name.pieces) > 1 THEN <<name>>
    ELSE [i \in DOMAIN SearchPath |->
            [SearchPath[i] EXCEPT !.pieces = Cut(@ \o name.pieces, PathMax - 1 - VolumeSize(SearchPath[i].volume))]]

\* FileExists, name after name until one does: the texts that are asked for.
Tried(texts, bad) ==
    {i \in DOMAIN texts : \A j \in 1 .. i - 1 : LookUp(texts[j], bad) \notin Accepts["stat"]}

\* ShellExec: what was found first is executed, whatever it is.
RunFirst(p, names, texts, bad) ==
    LET tried == Tried(texts, bad)
    IN  /\ MountVolumes({NumberIn(texts[i]) : i \in {j \in tried : texts[j] \notin {Refused, Overrun}}}, bad)
        /\ IF \E i \in tried : texts[i] = Overrun THEN LoseAll("exec", p, TRUE, bad)
           ELSE IF LookUp(texts[Cardinality(tried)], bad) \notin Accepts["stat"]
           THEN Asks("exec", p, TRUE, bad, "failed", Refused) /\ UNCHANGED <<cwds, boot>>
           ELSE \E left \in Leftovers :
                    Answered("exec", p, TRUE, bad, PathResolve(Cwd, names[Cardinality(tried)], left))

ShellExec ==
    /\ boot = Running
    /\ UNCHANGED misread
    /\ Len(cwds) < MaxNested
    /\ \E p \in Commands :
        \E names \in {Candidates(p)} :
        \E texts \in {[i \in DOMAIN names |-> PathResolve(Cwd, names[i], left)] : left \in Leftovers},
           bad \in Troubles :
            RunFirst(p, names, texts, bad)

Idle == boot = Prompt /\ UNCHANGED vars

Next ==
    \/ DetectDrive
    \/ Mount(0, MaxDrives, MaxDrives + 1)
    \/ Mount(1, MaxDrives + 1, MaxDrives + 2)
    \/ ListRoot
    \/ LoadFirst
    \/ SysChDir \/ SysOpenDir \/ SysStat \/ SysOpen \/ SysExec \/ SysExit
    \/ ShellExec
    \/ Idle

Spec == Init /\ [][Next]_vars

-----------------------------------------------------------------------------
\* A name that fills its part, or the last one, for which no character was left.
Spoilt(text) ==
    \/ \E i \in DOMAIN text.pieces : Len(text.pieces[i]) >= PartSize - 1
    \/ Len(text.pieces) > 2 /\ Last(text.pieces) = << >>

IsNormal(text) ==
    \/ Spoilt(text)
    \/ \A left \in Leftovers : PathResolve(text, [volume |-> "", pieces |-> <<Dot>>], left) = text

\* The current directory of every live process is one that exists, on a
\* volume that is mounted (the first program's may be the root of one that
\* never was), and its text is the one PathResolve gives for it again: so
\* "." stays where it is, however the directory was reached (path.c:5).
AllNormal == \A i \in DOMAIN cwds : IsNormal(cwds[i])
DirectoriesStand == \A i \in DOMAIN cwds : cwds[i] # Root("0") => LookUp(cwds[i], {}) \in Accepts["chdir"]
CwdStands == AllNormal /\ DirectoriesStand

HoldsVolume(p) == drives[p.drive].sector0 = "bare" \/ (p.entry # 0 /\ VolumeAt(p) # NoVolume)

\* The last call asked for the root of volume v, and no transfer failed.
AskedRoot(v) == call.op = "opendir" /\ call.io /\ call.path = Root(DigitOf(v))

\* When every partition table could be read, volume v is the partition with
\* that number, counted through the drives in their order, whenever and after
\* whatever failures it was mounted; and its root opens if it holds a FAT
\* volume, although the mount at boot may have failed (fatfs.c:16, ff.c:3461).
VolumesAsNumbered ==
    ~misread /\ boot \notin Drives =>
        \A v \in DOMAIN fatFs : v < nextVolume =>
            /\ fatFs[v] # Unmounted => fatFs[v] \in Counted /\ NumberOf(fatFs[v]) = v
            /\ AskedRoot(v) => (call.result = "ok" <=> \E p \in Counted : NumberOf(p) = v /\ HoldsVolume(p))

-----------------------------------------------------------------------------
Volume == [c \in {DigitOf(v) : v \in DOMAIN fatFs} |->
              IF fatFs[Digits[c]] = Unmounted THEN NoVolume ELSE VolumeAt(fatFs[Digits[c]])]

Call == IF call.op \notin DOMAIN Accepts THEN call
        ELSE [op |-> call.op, path |-> call.path, command |-> call.command, io |-> call.io, result |-> call.result,
              node |-> IF call.text = Refused THEN [volume |-> "", names |-> << >>] ELSE NodeOf(call.text)]

Names == INSTANCE NameSpec
            WITH volume <- Volume, at <- [i \in DOMAIN cwds |-> NodeOf(cwds[i])], call <- Call

\* Paths lead where a walk from the current directory leads, as long as they
\* fit; children inherit and move alone (path.c:5, syscall.c:189, elf.c:126).
Implements == Names!Spec
=============================================================================
