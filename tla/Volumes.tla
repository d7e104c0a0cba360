------------------------------ MODULE Volumes ------------------------------
(***************************************************************************)
(* Which volume is what: the drives found at boot, the partitions they get *)
(* numbers from (src/fs/fatfs.c, src/kernel/mbr.c), and the mount of a     *)
(* number by FatFs, at boot or whenever a path names it.                   *)
(*                                                                         *)
(* A drive is Absent or a record: `sector0` says what its first sector     *)
(* holds ("mbr", a table; "bare", a FAT volume without a signature;        *)
(* "blank"), `table` is the partition table, whose entries have a type, a  *)
(* start (0: none) and what is there: a FAT volume, or NoVolume.           *)
(***************************************************************************)
EXTENDS Integers, FiniteSets

CONSTANTS Absent, NoVolume,
          MaxDrives,     \* MAX_DRIVES
          MaxVolumes,    \* FF_VOLUMES
          Entries        \* entries of a partition table

\* kmain mounts the volumes 0 and 1.
ASSUME VolumeAssumption == {MaxDrives, MaxVolumes, Entries} \subseteq Nat \ {0} /\ MaxVolumes > 1

VARIABLES drives,       \* what is attached, never changes
          found,        \* the drives that were detected: the registry
          volToPart,    \* VolToPart
          nextVolume,   \* vol of FatFsRegisterPartitions
          fatFs         \* of each registered volume, the place it is mounted from

volumeVars == <<drives, found, volToPart, nextVolume, fatFs>>

Drives == 0 .. MaxDrives - 1

\* A sector of interest of a drive: its first one, 0, or the first one of a
\* partition.  `bad` is the set of those that cannot be read just now.
Place(d, i) == [drive |-> d, entry |-> i]
Unmounted == Place(-1, 0)

VolumesInit(machines) ==
    /\ drives \in machines
    /\ found = {}
    /\ volToPart = [v \in 0 .. MaxVolumes - 1 |-> [pd |-> 0, pt |-> 0]]
    /\ nextVolume = 0
    /\ fatFs = << >>

MBRRead(d, bad) == Place(d, 0) \notin bad /\ drives[d].sector0 = "mbr"

Skipped == {"empty", "linux", "extended"}

\* The entries that get a number, in their order.
Numbered(d) == {i \in 1 .. Entries : drives[d].table[i].type \notin Skipped}
Before(S, i) == Cardinality({j \in S : j < i})

\* Mutant: the partitions that count are numbered, not the entries.
Registered_ByCount(d, parts) ==
    /\ volToPart' = [v \in DOMAIN volToPart |->
                        IF \E i \in parts : v = nextVolume + Before(parts, i)
                        THEN [pd |-> d, pt |-> IF parts = {0} THEN 0 ELSE v - nextVolume + 1]
                        ELSE volToPart[v]]
    /\ nextVolume' = IF nextVolume + Cardinality(parts) < MaxVolumes
                     THEN nextVolume + Cardinality(parts) ELSE MaxVolumes

\* FatFsRegisterPartitions
Registered(d, parts) ==
    /\ volToPart' = [v \in DOMAIN volToPart |->
                        IF \E i \in parts : v = nextVolume + Before(parts, i)
                        THEN [pd |-> d, pt |-> CHOOSE i \in parts : v = nextVolume + Before(parts, i)]
                        ELSE volToPart[v]]
    /\ nextVolume' = IF nextVolume + Cardinality(parts) < MaxVolumes
                     THEN nextVolume + Cardinality(parts) ELSE MaxVolumes

\* ATAInit, for one drive.
Detect(d, bad) ==
    /\ UNCHANGED <<drives, fatFs>>
    /\ IF drives[d] = Absent THEN UNCHANGED <<found, volToPart, nextVolume>>
       ELSE /\ found' = found \cup {d}
            /\ Registered(d, IF MBRRead(d, bad) THEN Numbered(d) ELSE {0})

\* check_fs: 0 a FAT volume, 2 a boot sector of another kind, 3 none, 4 a
\* transfer that failed.  A drive holds one FAT volume as a whole ("bare") or
\* has them in its partitions.
CheckFs(d, i, bad) ==
    CASE Place(d, i) \in bad -> 4
      [] Place(d, i) \notin bad /\ i = 0 ->
            (CASE drives[d].sector0 = "bare" -> 0 [] drives[d].sector0 = "mbr" -> 2 [] OTHER -> 3)
      [] OTHER -> IF drives[d].table[i].holds = NoVolume THEN 2 ELSE 0

CheckEntry(d, i, bad) == IF drives[d].table[i].start = 0 THEN 3 ELSE CheckFs(d, i, bad)

\* The first partition with a volume of a drive, the last one if none has.
FirstFat(d, bad) ==
    LET fats == {i \in 1 .. Entries : CheckEntry(d, i, bad) < 2}
    IN  IF fats = {} THEN Entries ELSE CHOOSE i \in fats : \A j \in fats : i <= j

\* find_volume: where the search for a volume of this partition ends.
FindVolume(d, part, bad) ==
    LET fmt == CheckFs(d, 0, bad)
    IN  IF fmt >= 3 \/ (fmt # 2 /\ part = 0) THEN 0
        ELSE IF part # 0 THEN part ELSE FirstFat(d, bad)

Judged(d, i, bad) == IF i = 0 THEN CheckFs(d, 0, bad) ELSE CheckEntry(d, i, bad)

\* mount_volume, of a registered volume that is not mounted.
Mountable(v, bad) ==
    /\ volToPart[v].pd \in found
    /\ Judged(volToPart[v].pd, FindVolume(volToPart[v].pd, volToPart[v].pt, bad), bad) < 2

MountedAt(v, bad) ==
    IF v \notin DOMAIN fatFs THEN Unmounted
    ELSE IF fatFs[v] # Unmounted THEN fatFs[v]
    ELSE IF Mountable(v, bad)
    THEN Place(volToPart[v].pd, FindVolume(volToPart[v].pd, volToPart[v].pt, bad))
    ELSE Unmounted

\* What paths that name these volumes do to them.
MountVolumes(named, bad) ==
    /\ fatFs' = [w \in DOMAIN fatFs |-> IF w \in named THEN MountedAt(w, bad) ELSE fatFs[w]]
    /\ UNCHANGED <<drives, found, volToPart, nextVolume>>

\* f_mount, which registers the volume and tries at once.
FMount(v, bad) ==
    /\ fatFs' = [w \in DOMAIN fatFs \cup {v} |->
                    IF w # v THEN fatFs[w]
                    ELSE IF Mountable(v, bad)
                    THEN Place(volToPart[v].pd, FindVolume(volToPart[v].pd, volToPart[v].pt, bad))
                    ELSE Unmounted]
    /\ UNCHANGED <<drives, found, volToPart, nextVolume>>

\* The volume at a place, the part of its files the paths lead to.
VolumeAt(place) ==
    IF drives[place.drive].sector0 = "bare" THEN drives[place.drive].whole
    ELSE drives[place.drive].table[place.entry].holds

-----------------------------------------------------------------------------
(* What the numbers should mean.                                           *)

\* All places that get a number, when every first sector could be read.
Counted == {Place(d, i) : d \in Drives, i \in 0 .. Entries} \cap
           UNION {IF drives[d] = Absent THEN {}
                  ELSE IF drives[d].sector0 = "mbr" THEN {Place(d, i) : i \in Numbered(d)}
                  ELSE {Place(d, 0)} : d \in Drives}

Earlier(p, q) == p.drive < q.drive \/ (p.drive = q.drive /\ p.entry < q.entry)
NumberOf(p) == Cardinality({q \in Counted : Earlier(q, p)})
=============================================================================
