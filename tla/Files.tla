-------------------------------- MODULE Files --------------------------------
(***************************************************************************)
(* The files of cyOS: the file and directory descriptors of the kernel on   *)
(* one mounted volume of FatFs.  A call is one action: the kernel is not    *)
(* preempted in a system call.  Transfers may fail and the power may go     *)
(* between two writes of a call.                                           *)
(*                                                                         *)
(* vol is the mounted volume, fil the FIL of every open file, list the DIR  *)
(* of the open directory with the names it has returned.                   *)
(***************************************************************************)
EXTENDS FatFiles, FiniteSets, FiniteSetsExt, TLC

CONSTANTS
    Handles,       \* 1 .. the number of files that may be open at once
    Works          \* what is done with the volume: see the fields used below

VARIABLES
    vol, fil, list,
    on,            \* is there power
    ret,           \* what the last call returned
    work,          \* which of Works this is
    ops, troubles, \* how many calls, and how many that go wrong, are left
    view           \* the files: as programs see them, as the volume in memory
                   \* has them, and as a power cut leaves them

vars == <<vol, fil, list, on, ret, work, ops, troubles, view>>

W == Works[work]
Never == -1
NoList == [open |-> FALSE]

\* The volume as mount_volume leaves it: the counts are those of the FSInfo
\* sector, which is in the window.
Mounted(d) ==
    [disk |-> d, kept |-> d, win |-> d[FSInfo], winsect |-> FSInfo, wflag |-> FALSE,
     free_clst |-> d[FSInfo].free, last_clst |-> d[FSInfo].last, fsi_flag |-> FALSE,
     fails |-> 0, cut |-> Never, res |-> "OK", val |-> 0]

\* A file made by a program that wrote n units to it and closed it.
Synced(w) == FSync(w.v, w.f).v
PutIn(f, n) == Synced(FWrite(f.v, f.f, [i \in 1 .. n |-> i % 4]))
Put(v, x) == PutIn(FOpen(v, x.path, {"WRITE", "CREATE_ALWAYS"}), x.size)

\* The disk as mkfs.fat leaves it: a root directory of one cluster, with a
\* directory in it (its second cluster) when there is one.
Formatted(dirs) ==
    LET fat == [i \in 0 .. FatPer * FatSize - 1 |->
                  IF i < RootClust + 1 + Cardinality(dirs) THEN EOC ELSE 0]
        at(c) == [kind |-> "dots", name |-> <<>>, small |-> <<>>, dir |-> TRUE, sclust |-> c,
                  size |-> 0]
        sub(name) == [NewEntry(ShortOf(name)) EXCEPT !.dir = TRUE, !.sclust = RootClust + 1]
        table(es) == [tab |-> [i \in 0 .. DirPer - 1 |-> IF i < Len(es) THEN es[i + 1] ELSE End]]
    IN [s \in Sectors |->
          IF s = FSInfo THEN [free |-> Clusters - RootClust - 1 - Cardinality(dirs), last |-> 2]
          ELSE IF s < DataBase
          THEN [i \in 0 .. FatPer - 1 |-> fat[((s - FatBase) % FatSize) * FatPer + i]]
          ELSE IF s = Clst2Sect(RootClust) THEN table(SetToSeq({sub(n) : n \in dirs}))
          ELSE IF s = Clst2Sect(RootClust + 1) /\ dirs # {} THEN table(<<at(RootClust + 1), at(0)>>)
          ELSE IF s < Clst2Sect(RootClust) + ClusterSectors * (1 + Cardinality(dirs)) THEN NoEntries
          ELSE [data |-> Blank]]

-----------------------------------------------------------------------------
(* What is on a disk, read without any of the functions above.             *)

\* The entries of the table whose chain is ch, up to its end, each with its
\* place.
EntryAt(d, sect, ptr) ==
    [sect |-> sect, ptr |-> ptr]
    @@ IF "tab" \in DOMAIN d[sect] THEN d[sect].tab[ptr] ELSE Garbage

AllEntries(d, ch) ==
    [i \in 1 .. Len(ch) * PerCluster |->
       EntryAt(d, Clst2Sect(ch[((i - 1) \div PerCluster) + 1])
                  + (((i - 1) % PerCluster) \div DirPer), (i - 1) % DirPer)]

UpToEnd(es) ==
    SubSeq(es, 1, Min({i \in DOMAIN es : es[i].kind = "end"} \cup {Len(es) + 1}) - 1)

Table(d, c) == UpToEnd(AllEntries(d, ChainOf(FatOf(d), c)))

\* The files and directories of a table; each with its name, which is in the
\* n entries before its short one when those are the pieces of a long name.
PieceOf(e, p, k) == p.kind = "lfn" /\ p.ord = k /\ p.sum = SumSfn(e.name)

LongAt(tab, i) ==
    {n \in 1 .. i - 1 : /\ \A k \in 1 .. n : PieceOf(tab[i], tab[i - k], k)
                        /\ tab[i - n].last}

NameWith(tab, i, ns) ==
    IF ns = {} THEN ShortShown(tab[i].name, tab[i].small)
    ELSE FlattenSeq([k \in 1 .. Min(ns) |-> tab[i - k].piece])

Named(tab) ==
    {[shown |-> NameWith(tab, i, LongAt(tab, i))] @@ tab[i]
       : i \in {j \in DOMAIN tab : tab[j].kind = "sfn"}}

\* The names in the table that begins at c.
NamesIn(d, c) == {x.shown : x \in Named(Table(d, IF c = 0 THEN RootClust ELSE c))}

\* Every file and directory with its path; directories are one level deep.
Below(d, c, path) ==
    {[path |-> Append(path, Uppers(x.shown))] @@ x : x \in Named(Table(d, c))}

WithBelow(d, top) == top \cup UNION {Below(d, x.sclust, x.path) : x \in {y \in top : y.dir}}

Objects(d) == WithBelow(d, Below(d, RootClust, <<>>))

\* The units of a file, as many of them as its chain has room for.
UnitsOf(d, ch, size) ==
    [i \in 1 .. Min({size, Len(ch) * ClusterUnits}) |->
       DataIn(d[Clst2Sect(ch[((i - 1) \div ClusterUnits) + 1])
                + (((i - 1) % ClusterUnits) \div SectorUnits)])[(i - 1) % SectorUnits]]

Content(d, c, size) == UnitsOf(d, ChainOf(FatOf(d), c), size)

\* The files among the objects O of the disk d.
ContentOf(d, x) == Content(d, x.sclust, x.size)
FilesOn(d, O) ==
    [p \in {x.path : x \in {y \in O : ~y.dir}} |-> ContentOf(d, CHOOSE x \in O : x.path = p)]

\* The file behind the open FIL f, with what its buffer has newer; d is the
\* disk with the window on top.
FileOf(d, f) == Content(IF "DIRTY" \in f.flag THEN [d EXCEPT ![f.sect] = [data |-> f.buf]] ELSE d,
                        f.sclust, f.size)

Writers(fl) == {h \in Handles : fl[h] # Closed /\ "WRITE" \in fl[h].flag}

\* A file with a long name is found by its short name, too.
Alias(x) == Append(Front(x.path), Uppers(ShortShown(x.name, x.small)))

Newest(d, fl, H, old) == IF H = {} THEN old ELSE FileOf(d, fl[CHOOSE h \in H : TRUE])

\* The objects O are on the disk d with the window on top, left on what of it
\* a power cut leaves.
Views(fl, d, O, left, stored, safe) ==
    [there |-> O, left |-> left, stored |-> stored, safe |-> safe,
     known |-> [p \in DOMAIN stored |-> {p} \cup {Alias(x) : x \in {y \in O : y.path = p}}],
     files |-> [p \in DOMAIN stored |->
                  Newest(d, fl, {h \in Writers(fl) : fl[h].path = p}, stored[p])]]

ViewWith(v, fl, d, O, left) == Views(fl, d, O, left, FilesOn(d, O), FilesOn(v.kept, left))
ViewOn(v, fl, d, O) == ViewWith(v, fl, d, O, IF v.kept = d THEN O ELSE Objects(v.kept))
ViewOf(v, fl) == ViewOn(v, fl, Overlaid(v), Objects(Overlaid(v)))

-----------------------------------------------------------------------------
\* What goes wrong in a call: nothing, its transfer number n, or the power
\* after n of its writes.
Calm == [fails |-> 0, cut |-> Never]
Trouble == {[fails |-> n, cut |-> Never] : n \in 1 .. W.fails}
           \cup {[fails |-> 0, cut |-> n] : n \in 0 .. W.cuts - 1}

Now(t) == [vol EXCEPT !.fails = t.fails, !.cut = t.cut]

\* A call that left the volume as v and the open files as fl after the
\* trouble t, and returned x.
Called(t, v, fl, x) ==
    /\ on /\ ops > 0 /\ ops' = ops - 1
    /\ t # Calm => troubles > 0
    /\ troubles' = IF t = Calm THEN troubles ELSE troubles - 1
    /\ on' = (t.cut = Never)
    /\ vol' = [v EXCEPT !.fails = 0, !.cut = Never, !.res = "OK", !.val = 0]
    /\ fil' = fl
    /\ view' = ViewOf(v, fl)
    /\ ret' = [x EXCEPT !.res = IF t.cut # Never THEN "CUT" ELSE @]
    /\ UNCHANGED work

NoHandle == 0
Say(call, res) == [call |-> call, by |-> NoHandle, res |-> res, want |-> 0, data |-> <<>>]
IsOpen(h) == fil[h] # Closed
Caps(path) == [i \in DOMAIN path |-> Uppers(path[i])]

\* The bytes a program writes differ from call to call.
Payload(n) == [i \in 1 .. n |-> 1 + ((ops + i) % 3)]
-----------------------------------------------------------------------------
(* filefd.c                                                                *)

\* What FatFs asks of its caller, its own check being compiled out: a file
\* that is written is open once.
MayOpen(path, mode) ==
    \A h \in Handles : IsOpen(h) /\ Caps(path) \in view.known[fil[h].path] =>
                         "WRITE" \notin fil[h].flag \cup mode

\* The path of an open file; it may have been found by its short name.
PathOf(v, f) == (CHOOSE x \in Objects(Overlaid(v)) : x.sect = f.dir_sect /\ x.ptr = f.dir_ptr).path

OpenedAs(h, t, r) ==
    Called(t, r.v, [fil EXCEPT ![h] = IF r.v.res # "OK" THEN Closed
                                      ELSE r.f @@ [path |-> PathOf(r.v, r.f)]],
           Say("open", r.v.res))

FDOpenFile(h, path, mode) ==
    /\ ~IsOpen(h) /\ \A g \in Handles : g < h => IsOpen(g)
    /\ MayOpen(path, mode)
    /\ \E t \in Trouble \cup {Calm} : OpenedAs(h, t, FOpen(Now(t), path, mode))
    /\ UNCHANGED list

\* The call that was asked for want through h has the result r and moved data.
Done(h, t, r, call, want, data) ==
    Called(t, r.v, [fil EXCEPT ![h] = r.f],
           [call |-> call, by |-> h, res |-> r.v.res, want |-> want, data |-> data])

ReadAs(h, t, n, r) == Done(h, t, r, "read", n, r.got)

FileRead(h, n) ==
    /\ IsOpen(h)
    /\ \E t \in Trouble \cup {Calm} : ReadAs(h, t, n, FRead(Now(t), fil[h], n))
    /\ UNCHANGED list

WrittenAs(h, t, n, r) ==
    Done(h, t, r, "write", n,
         IF r.v.res = "OK" THEN SubSeq(Payload(n), 1, r.done) ELSE Payload(n))

FileWrite(h, n) ==
    /\ IsOpen(h)
    /\ \E t \in Trouble \cup {Calm} : WrittenAs(h, t, n, FWrite(Now(t), fil[h], Payload(n)))
    /\ UNCHANGED list

From(f, whence) == CASE whence = "SEEK_SET" -> 0
                     [] whence = "SEEK_CUR" -> f.fptr
                     [] whence = "SEEK_END" -> f.size

SeekAs(h, t, pos, r) == Done(h, t, r, "seek", pos, <<>>)

FileSeek(h, offset, whence) ==
    /\ IsOpen(h)
    /\ \E t \in Trouble \cup {Calm} :
         LET pos == (From(fil[h], whence) + offset) % Offsets IN
         SeekAs(h, t, pos, FSeek(Now(t), fil[h], pos))
    /\ UNCHANGED list

\* The FIL is gone whatever f_close answers.
ClosedAs(h, t, v) == Called(t, v, [fil EXCEPT ![h] = Closed], Say("close", v.res))

FileClose(h) ==
    /\ IsOpen(h)
    /\ \E t \in Trouble \cup {Calm} : ClosedAs(h, t, FSync(Now(t), fil[h]).v)
    /\ UNCHANGED list

\* A process that ends does not close its files: nobody has their FIL then.
Exit ==
    /\ on /\ ops > 0 /\ troubles > 0
    /\ \E h \in Handles : IsOpen(h)
    /\ fil' = [h \in Handles |-> Closed]
    /\ view' = ViewOf(vol, fil')
    /\ ops' = ops - 1 /\ troubles' = troubles - 1
    /\ ret' = Say("exit", "OK")
    /\ UNCHANGED <<vol, list, on, work>>
-----------------------------------------------------------------------------
(* dirfd.c and the stat call                                               *)

ListFrom(t, r, path) ==
    /\ Called(t, r.v, fil, Say("look", r.v.res))
    /\ list' = IF r.v.res # "OK" THEN NoList
               ELSE [open |-> TRUE, d |-> r.d, path |-> Caps(path), seen |-> <<>>,
                     first |-> NamesIn(Overlaid(vol), r.d.sclust)]

FDOpenDir(path) ==
    /\ ~list.open
    /\ \E t \in Trouble \cup {Calm} : ListFrom(t, FOpendir(Now(t), path), path)

\* The next name; <<>> is the end of the list, at which this program stops.
Ended == list.seen # <<>> /\ Last(list.seen) = <<>>

ListedAs(t, r) ==
    /\ Called(t, r.v, fil, [Say("look", r.v.res) EXCEPT !.data = r.name])
    /\ list' = [list EXCEPT !.d = r.d,
                            !.seen = IF r.v.res = "OK" THEN Append(@, r.name) ELSE @]

DirRead1 ==
    /\ list.open /\ ~Ended
    /\ \E t \in Trouble \cup {Calm} : ListedAs(t, FReaddir(Now(t), list.d))

DirClose ==
    /\ list.open /\ on /\ ops > 0
    /\ list' = NoList
    /\ UNCHANGED <<vol, fil, on, ret, work, ops, troubles, view>>

LookedAt(t, v) == Called(t, v, fil, Say("look", v.res))

SysStat(path) ==
    /\ \E t \in Trouble \cup {Calm} : LookedAt(t, FStat(Now(t), path))
    /\ UNCHANGED list
-----------------------------------------------------------------------------
\* The machine starts again: nothing is left but what reached the disk.
PowerOn ==
    /\ ~on /\ on' = TRUE
    /\ vol' = Mounted(vol.kept)
    /\ fil' = [h \in Handles |-> Closed] /\ list' = NoList
    /\ view' = ViewOf(vol', fil')
    /\ ret' = Say("start", "OK")
    /\ UNCHANGED <<work, ops, troubles>>
-----------------------------------------------------------------------------
Init ==
    /\ work \in DOMAIN Works
    /\ vol = Mounted(FoldLeft(Put, Mounted(Formatted(W.dirs)), W.setup).disk)
    /\ fil = [h \in Handles |-> Closed] /\ list = NoList
    /\ on = TRUE /\ ret = Say("start", "OK")
    /\ ops = W.ops /\ troubles = W.troubles
    /\ view = ViewOf(vol, fil)

Next ==
    \/ \E h \in Handles :
         \/ \E path \in W.paths, mode \in W.modes : FDOpenFile(h, path, mode)
         \/ \E n \in W.reads : FileRead(h, n)
         \/ \E n \in W.writes : FileWrite(h, n)
         \/ \E s \in W.seeks : FileSeek(h, s[1], s[2])
         \/ FileClose(h)
    \/ Exit
    \/ \E path \in W.lists : FDOpenDir(path)
    \/ DirRead1 \/ DirClose
    \/ \E path \in W.stats : SysStat(path)
    \/ PowerOn

Spec == Init /\ [][Next]_vars
-----------------------------------------------------------------------------
\* The chains of everything on the disk d, where a file in use has the one
\* its FIL knows.
ChainWith(fat, x, H) ==
    LET o == IF H = {} THEN x ELSE fil[CHOOSE h \in H : TRUE] IN
    [at |-> <<x.sect, x.ptr>>, chain |-> ChainOf(fat, o.sclust), n |-> o.size]

Chains(d, O, inUse) ==
    {ChainWith(FatOf(d), x, {h \in inUse : fil[h].dir_sect = x.sect /\ fil[h].dir_ptr = x.ptr})
       : x \in O}
    \cup {[at |-> <<0, 0>>, chain |-> ChainOf(FatOf(d), RootClust), n |-> 0]}

SoundChains(C, fat) ==
    /\ \A x \in C : Ends(fat, x.chain) /\ x.n <= Len(x.chain) * ClusterUnits
    /\ \A x, y \in C : x.at # y.at => Range(x.chain) \cap Range(y.chain) = {}

Sound(d, O, inUse) == SoundChains(Chains(d, O, inUse), FatOf(d))

\* No cluster belongs to two files, every chain ends where a chain must and is
\* as long as its file: on the disk as a power cut would leave it after any
\* write of any call (f_sync puts the entry of a file last, ff.c:4218-4292),
DiskSound == Sound(vol.kept, view.left, {})

\* and in memory, where a file that is written has the chain of its FIL
\* (ff.c:1444-1636, 4097-4210).
ChainsSound == DiskSound /\ Sound(Overlaid(vol), view.there, Writers(fil))

\* As long as nothing went wrong, the clusters that are not free are those of
\* some chain, and the volume knows how many are free: nothing is lost
\* (remove_chain and create_chain, ff.c:1444-1636).
Counts(C, free) ==
    /\ UNION {Range(x.chain) : x \in C} = (2 .. Clusters - 1) \ free
    /\ vol.free_clst = Cardinality(free)

Accounted ==
    troubles = W.troubles /\ on =>
        Counts(Chains(Overlaid(vol), view.there, Writers(fil)),
               FreeClusters(FatOf(Overlaid(vol))))

\* A write, or a seek of a file open for writing, stops short of what it was
\* asked for only when no cluster is free, wherever the search for one begins:
\* in the middle of a cluster, at the end of one, where the next is taken, and
\* in an empty file, which gets its first one.  This is so until something
\* went wrong (ff.c:1583-1611, 4126-4143, 4632-4660).
Short(h) ==
    \/ ret'.call = "write" /\ fil'[h].fptr # fil[h].fptr + ret'.want
    \/ ret'.call = "seek" /\ fil'[h].fptr # ret'.want

FullIsFull ==
    [][\A h \in Writers(fil) :
         /\ ops' # ops /\ ret'.by = h /\ ret'.res = "OK" /\ troubles' = W.troubles
         /\ Short(h)
         => FreeClusters(FatOf(Overlaid(vol'))) = {}]_vars

\* In a directory no two files have the same short name, nor the same name
\* whatever the case of its letters, also when the power goes
\* (dir_find and dir_register, ff.c:2412-2600).
NamesApart ==
    \A O \in {view.there, view.left} : \A x, y \in O :
      x # y /\ Front(x.path) = Front(y.path) => x.name # y.name /\ x.path # y.path

\* A listing shows no name twice and, when it is read to its end, every name
\* that was there when it began, whatever is created in between
\* (dir_read and f_readdir, ff.c:2334-2405, 4811-4843).
ListedOnce ==
    list.open => /\ \A i, j \in DOMAIN list.seen : list.seen[i] = list.seen[j] => i = j
                 /\ Ended => list.first \subseteq Range(list.seen)

\* Programs see a write-behind store, whichever transfers fail and whenever the
\* power goes (kernel/filefd.c:11-76, ff.c:3799-4712).
F == INSTANCE FileSpec WITH
        Shut <- Closed,
        Paths <- UNION {{Caps(p) : p \in Works[w].paths} : w \in DOMAIN Works},
        Modes <- UNION {Works[w].modes : w \in DOMAIN Works},
        files <- view.files, stored <- view.stored, safe <- view.safe,
        known <- view.known,
        open <- [h \in Handles |->
                   IF fil[h] = Closed THEN Closed
                   ELSE [path |-> fil[h].path, pos |-> fil[h].fptr,
                         mode |-> fil[h].flag \ {"MODIFIED", "DIRTY"},
                         sick |-> fil[h].err # "OK", changed |-> "MODIFIED" \in fil[h].flag]]
Implements == F!Spec
=============================================================================
