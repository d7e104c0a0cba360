------------------------------ MODULE FatFiles ------------------------------
(***************************************************************************)
(* The file functions of FatFs, as operators on a volume v and a FIL f:     *)
(* f_open, f_read, f_write, f_lseek, f_sync and f_close, each with every    *)
(* transfer it makes in the order it makes them.                           *)
(*                                                                         *)
(* A sector holds SectorUnits units of data; offsets and sizes count units. *)
(* The file's own sector buffer, buf with its sector sect, is "DIRTY" when  *)
(* the disk does not have it yet; "MODIFIED" says that the directory entry  *)
(* is behind.                                                              *)
(***************************************************************************)
EXTENDS FatDirectory

CONSTANTS
    SectorUnits,     \* SS: units of data in a sector (512)
    Offsets          \* offsets are DWORDs: numbers modulo Offsets (2^32)

ASSUME UnitsAssumption == SectorUnits \in Nat \ {0} /\ Offsets \in Nat \ {0}

ClusterUnits == ClusterSectors * SectorUnits
Blank == [i \in 0 .. SectorUnits - 1 |-> 0]

\* A table read as data never is: the clusters of tables are not freed.
DataIn(sector) == IF "data" \in DOMAIN sector THEN sector.data ELSE Blank

Smaller(a, b) == IF a < b THEN a ELSE b
Larger(a, b) == IF a > b THEN a ELSE b

\* The object of a file that is not open.
Closed == [flag |-> {}]

Creating == {"CREATE_ALWAYS", "OPEN_ALWAYS", "CREATE_NEW"}
-----------------------------------------------------------------------------
(* f_open.                                                                 *)

\* Once the chain at c is freed the window goes back to the entry, and the
\* search for the next free cluster will begin in the hole.
Returned(r, s, c) ==
    IF r.res # "OK" THEN r ELSE [MoveWindow(r, s) EXCEPT !.last_clst = c - 1]

Freed(w, s, c) == IF c = 0 THEN Ok(w) ELSE Returned(RemoveChain(w, c), s, c)

\* Mutant: the chain is freed before the entry is changed.
Truncate_ChainFirst(v, d) ==
    SetEntry(Freed(v, v.winsect, Entry(v, d).sclust), d,
             [Entry(v, d) EXCEPT !.sclust = 0, !.size = 0])

\* The entry under d becomes that of an empty file and its chain is freed.
Truncate(v, d) ==
    Freed(SetEntry(v, d, [Entry(v, d) EXCEPT !.sclust = 0, !.size = 0]),
          v.winsect, Entry(v, d).sclust)

Refuse(r, why) == Both(Fail(r.v, why), r.d)

Emptied(t, mode) ==
    IF t.v.res = "OK" /\ "CREATE_ALWAYS" \in mode THEN Both(Truncate(t.v, t.d), t.d) ELSE t

\* What follow_path found (r) is refused, taken as it is, or made and emptied;
\* mode has CREATE_ALWAYS once the file is a new one.  No file is read-only
\* (AM_RDO): no function of the kernel makes one so.
OpenEntry(r, path, mode) ==
    IF r.v.res = "OK" /\ path = <<>> THEN Refuse(r, "INVALID_NAME")
    ELSE IF mode \cap Creating = {}
    THEN IF r.v.res = "OK" /\ r.d.dir THEN Refuse(r, "NO_FILE") ELSE r
    ELSE IF r.v.res = "OK" /\ "CREATE_NEW" \in mode THEN Refuse(r, "EXIST")
    ELSE IF r.v.res = "OK" /\ r.d.dir THEN Refuse(r, "DENIED")
    ELSE Emptied(IF r.v.res = "NO_FILE" THEN DirRegister(r.v, r.d) ELSE r, mode)

\* One cluster of the way to the end of the file.
Passed(a, g) ==
    [c |-> g.val, ofs |-> a.ofs - ClusterUnits, f |-> a.f,
     v |-> CASE g.val <= 1 -> Fail(g, "INT_ERR")
             [] g.val = DiskError -> Fail(g, "DISK_ERR")
             [] OTHER -> g]

AppendOne(a) ==
    IF a.v.res # "OK" \/ a.ofs <= ClusterUnits THEN a ELSE Passed(a, GetFat(a.v, a.c))

Filled(r, f, s) == [v |-> r, f |-> [f EXCEPT !.sect = s, !.buf = DataIn(r.disk[s])]]

LastSector(a) ==
    IF a.v.res # "OK" \/ a.ofs % SectorUnits = 0
    THEN [v |-> a.v, f |-> [a.f EXCEPT !.fptr = a.f.size, !.clust = a.c]]
    ELSE IF ~IsCluster(a.c) THEN [v |-> Fail(a.v, "INT_ERR"), f |-> a.f]
    ELSE Filled(DiskRead(a.v), [a.f EXCEPT !.fptr = a.f.size, !.clust = a.c],
                Clst2Sect(a.c) + a.ofs \div SectorUnits)

\* FA_SEEKEND: the file pointer, the cluster and the buffer at the end.
ToEnd(v, f) ==
    LastSector(Iterate(AppendOne, [v |-> Ok(v), f |-> f, c |-> f.sclust, ofs |-> f.size], Clusters))

\* The file is valid when v.res is "OK".
FilOf(r, e, m) ==
    [sclust |-> e.sclust, size |-> e.size, clust |-> 0, fptr |-> 0, err |-> "OK",
     sect |-> 0, buf |-> Blank, dir_sect |-> r.v.winsect, dir_ptr |-> r.d.dptr % DirPer,
     flag |-> m \cup (IF "CREATE_ALWAYS" \in m THEN {"MODIFIED"} ELSE {})]

AtEnd(v, f) ==
    IF "SEEKEND" \in f.flag /\ f.size > 0 THEN ToEnd(v, f) ELSE [v |-> v, f |-> f]

Opened(r, m) ==
    IF r.v.res # "OK" THEN [v |-> r.v, f |-> Closed]
    ELSE AtEnd(r.v, FilOf(r, Entry(r.v, r.d), m))

OpenAs(found, path, m) == Opened(OpenEntry(found, path, m), m)

OpenFound(found, path, mode) ==
    OpenAs(found, path, mode \cup (IF mode \cap Creating # {} /\ found.v.res # "OK"
                                   THEN {"CREATE_ALWAYS"} ELSE {}))

FOpen(v, path, mode) == OpenFound(FollowPath(v, path), path, mode)
-----------------------------------------------------------------------------
(* What reading, writing and seeking share.  Their loops carry a record a   *)
(* with the volume v, the file f and what is left to do.                    *)

\* The buffer goes to the disk if the disk is behind.
Written(a, w) ==
    IF w.res # "OK" THEN [a EXCEPT !.v = w] ELSE [a EXCEPT !.v = w, !.f.flag = @ \ {"DIRTY"}]

WriteBack(a) ==
    IF "DIRTY" \in a.f.flag
    THEN Written(a, DiskWrite(a.v, a.f.sect, [data |-> a.f.buf])) ELSE a

\* The sector at the file pointer, in the current cluster.
SectorOf(f) == Clst2Sect(f.clust) + ((f.fptr \div SectorUnits) % ClusterSectors)

\* Whole sectors a transfer of n units can make without leaving the cluster.
Direct(f, n) == Smaller(n \div SectorUnits,
                        ClusterSectors - ((f.fptr \div SectorUnits) % ClusterSectors))

AtSector(f) == f.fptr % SectorUnits = 0
AtCluster(f) == f.fptr % ClusterUnits = 0

\* What a DWORD of the table means for the file that asked for its next
\* cluster.
Entered(a, v) ==
    IF v.val < 2 THEN [a EXCEPT !.v = Fail(v, "INT_ERR")]
    ELSE IF v.val = DiskError THEN [a EXCEPT !.v = Fail(v, "DISK_ERR")]
    ELSE [a EXCEPT !.v = IF IsCluster(v.val) THEN v ELSE Fail(v, "INT_ERR"),
                   !.f.clust = v.val]

\* The buffer reads the sector s.
Received(a, r, s) ==
    IF r.res # "OK" THEN [a EXCEPT !.v = r]
    ELSE [a EXCEPT !.v = r, !.f.sect = s, !.f.buf = DataIn(r.disk[s])]

Receive(a) == IF a.v.res # "OK" THEN a ELSE Received(a, DiskRead(a.v), SectorOf(a.f))

LoadBuffer(a) == IF a.f.sect = SectorOf(a.f) THEN a ELSE Receive(WriteBack(a))

\* An error stays with the file (ABORT); an error of before is the answer.
Abort(a) == IF a.v.res = "OK" THEN a ELSE [a EXCEPT !.f.err = a.v.res]

Sane(v, f) == IF f.err = "OK" THEN Ok(v) ELSE Fail(v, f.err)
-----------------------------------------------------------------------------
(* f_read.                                                                 *)

\* The rest of the sector in the buffer.
ReadBuffer(a) ==
    LET n == Smaller(SectorUnits - (a.f.fptr % SectorUnits), a.left)
        part == [i \in 1 .. n |-> a.f.buf[(a.f.fptr % SectorUnits) + i - 1]]
    IN [a EXCEPT !.got = @ \o part, !.left = @ - n, !.f.fptr = @ + n]

\* Mutant: what only the buffer has is not read.
SectorNow_OnDisk(a, r, s) == DataIn(r.disk[s])

\* Whole sectors straight from the disk, save the one the buffer has newer.
SectorNow(a, r, s) ==
    IF "DIRTY" \in a.f.flag /\ a.f.sect = s THEN a.f.buf ELSE DataIn(r.disk[s])

Transferred(a, r, from, n) ==
    IF r.res # "OK" THEN [a EXCEPT !.v = r]
    ELSE [a EXCEPT !.v = r, !.left = @ - n, !.f.fptr = @ + n,
                   !.got = @ \o [i \in 1 .. n |-> SectorNow(a, r, from + ((i - 1) \div SectorUnits))
                                                      [(i - 1) % SectorUnits]]]

ReadDirect(a) ==
    Transferred(a, DiskRead(a.v), SectorOf(a.f), SectorUnits * Direct(a.f, a.left))

ReadLoaded(a) == IF a.v.res # "OK" THEN a ELSE ReadBuffer(a)

ReadHere(a) ==
    IF a.v.res # "OK" THEN a
    ELSE IF a.left >= SectorUnits THEN ReadDirect(a) ELSE ReadLoaded(LoadBuffer(a))

ReadTurn(a) ==
    IF a.left = 0 \/ a.v.res # "OK" THEN a
    ELSE IF ~AtSector(a.f) THEN ReadBuffer(a)
    ELSE IF ~AtCluster(a.f) THEN ReadHere(a)
    ELSE ReadHere(Entered(a, IF a.f.fptr = 0 THEN Give(a.v, a.f.sclust)
                             ELSE GetFat(a.v, a.f.clust)))

ReadSane(s, f, n) ==
    IF s.res # "OK" THEN [v |-> s, f |-> f, got |-> <<>>]
    ELSE IF "READ" \notin f.flag THEN [v |-> Fail(s, "DENIED"), f |-> f, got |-> <<>>]
    ELSE Abort(Iterate(ReadTurn, [v |-> s, f |-> f, left |-> n, got |-> <<>>], n))

\* got: what was read, less than n units at the end of the file.
FRead(v, f, n) == ReadSane(Sane(v, f), f, Smaller(n, f.size - f.fptr))
-----------------------------------------------------------------------------
(* f_write.                                                                *)

\* What is written advances the file pointer and may extend the file.
Advance(a, n) ==
    [a EXCEPT !.f.fptr = @ + n, !.f.size = Larger(@, a.f.fptr + n),
              !.data = SubSeq(@, n + 1, Len(@)), !.done = @ + n]

\* The rest of the sector in the buffer.
WriteBuffer(a) ==
    LET at == a.f.fptr % SectorUnits
        n == Smaller(SectorUnits - at, Len(a.data))
        put == [i \in 0 .. SectorUnits - 1 |->
                  IF i \in at .. at + n - 1 THEN a.data[i - at + 1] ELSE a.f.buf[i]]
    IN Advance([a EXCEPT !.f.buf = put, !.f.flag = @ \cup {"DIRTY"}], n)

\* The sector number i (from 0) of the data that is left.
SectorFrom(data, i) == [data |-> [u \in 0 .. SectorUnits - 1 |-> data[i * SectorUnits + u + 1]]]

\* One of the sectors of a transfer; those before a failure are written.
PutSector(a) ==
    IF a.v.res # "OK" THEN a
    ELSE [a EXCEPT !.v = DiskWrite(@, a.s + a.i, SectorFrom(a.data, a.i)), !.i = @ + 1]

\* The buffer follows if it holds one of the n sectors.
Overwrote(a, w, s, n) ==
    IF w.res # "OK" THEN [a EXCEPT !.v = w]
    ELSE Advance(IF a.f.sect \notin s .. s + n - 1 THEN [a EXCEPT !.v = w]
                 ELSE [a EXCEPT !.v = w, !.f.flag = @ \ {"DIRTY"},
                                !.f.buf = SectorFrom(a.data, a.f.sect - s).data],
                 n * SectorUnits)

PutSectors(a, s, n) ==
    Overwrote(a, Iterate(PutSector, [v |-> a.v, s |-> s, i |-> 0, data |-> a.data], n).v, s, n)

\* Whole sectors straight to the disk.
WriteDirect(a) == PutSectors(a, SectorOf(a.f), Direct(a.f, Len(a.data)))

\* The buffer moves to the sector at the file pointer; beyond the end of the
\* file it keeps what it has.
WriteTurned(a) == IF a.v.res # "OK" THEN a ELSE WriteBuffer([a EXCEPT !.f.sect = SectorOf(a.f)])

TurnBuffer(a) ==
    WriteTurned(IF a.f.sect # SectorOf(a.f) /\ a.f.fptr < a.f.size THEN Receive(a) ELSE a)

WriteOn(a) ==
    IF a.v.res # "OK" THEN a
    ELSE IF Len(a.data) >= SectorUnits THEN WriteDirect(a) ELSE TurnBuffer(a)

First(f) == IF f.sclust = 0 THEN [f EXCEPT !.sclust = f.clust] ELSE f

WriteHere(a) == IF a.v.res # "OK" THEN a ELSE WriteOn(WriteBack([a EXCEPT !.f = First(@)]))

\* The cluster at the file pointer, which is at the beginning of one; val is 0
\* when the volume is full.
NextToWrite(v, f) ==
    IF f.fptr = 0 /\ f.sclust # 0 THEN Give(v, f.sclust)
    ELSE CreateChain(v, IF f.fptr = 0 THEN 0 ELSE f.clust)

WriteNext(a, next) ==
    IF next.val = 0 THEN [a EXCEPT !.v = next, !.full = TRUE] ELSE WriteHere(Entered(a, next))

WriteTurn(a) ==
    IF a.data = <<>> \/ a.full \/ a.v.res # "OK" THEN a
    ELSE IF ~AtSector(a.f) THEN WriteBuffer(a)
    ELSE IF ~AtCluster(a.f) THEN WriteHere(a)
    ELSE WriteNext(a, NextToWrite(a.v, a.f))

Changed(r) == IF r.v.res # "OK" THEN r ELSE [r EXCEPT !.f.flag = @ \cup {"MODIFIED"}]

\* A write that would run past the last offset is cut to end at it.
Clipped(f, data) ==
    IF f.fptr + Len(data) < Offsets THEN data ELSE SubSeq(data, 1, Offsets - 1 - f.fptr)

WriteClipped(s, f, data) ==
    Changed(Abort(Iterate(WriteTurn, [v |-> s, f |-> f, data |-> data, done |-> 0,
                                      full |-> FALSE], Len(data))))

WriteSane(s, f, data) ==
    IF s.res # "OK" THEN [v |-> s, f |-> f, done |-> 0]
    ELSE IF "WRITE" \notin f.flag THEN [v |-> Fail(s, "DENIED"), f |-> f, done |-> 0]
    ELSE WriteClipped(s, f, Clipped(f, data))

\* done: how much was written.  Less than all when the volume is full.
FWrite(v, f, data) == WriteSane(Sane(v, f), f, data)
-----------------------------------------------------------------------------
(* f_lseek.                                                                *)

\* One cluster further; a file open for writing is stretched, up to where the
\* volume is full.
Arrive(a, n) ==
    IF "WRITE" \in a.f.flag /\ n.val = 0 THEN [a EXCEPT !.v = n, !.left = 0]
    ELSE Entered([a EXCEPT !.left = @ - ClusterUnits], n)

SeekOne(a) ==
    IF a.v.res # "OK" \/ a.left <= ClusterUnits THEN a
    ELSE Arrive([a EXCEPT !.f.fptr = @ + ClusterUnits],
                IF "WRITE" \in a.f.flag THEN CreateChain(a.v, a.f.clust)
                ELSE GetFat(a.v, a.f.clust))

\* Where the walk begins: the current cluster, or the first one, which a file
\* without any gets.
FromFirst(a, c) ==
    IF c.val = 0 THEN [a EXCEPT !.v = c, !.f.clust = 0, !.left = 0]
    ELSE Entered([a EXCEPT !.f.sclust = IF c.val \in {1, DiskError} THEN @ ELSE c.val], c)

SeekStart(v, f, to) ==
    LET base == ((f.fptr - 1) \div ClusterUnits) * ClusterUnits
        at(pos) == [v |-> v, f |-> [f EXCEPT !.fptr = pos], left |-> to - pos]
    IN IF f.fptr > 0 /\ (to - 1) \div ClusterUnits >= (f.fptr - 1) \div ClusterUnits
       THEN at(base)
       ELSE FromFirst(at(0), IF f.sclust = 0 THEN CreateChain(v, 0) ELSE Give(v, f.sclust))

\* The file pointer, the size and the buffer after the walk.
SeekBuffer(a) == IF AtSector(a.f) THEN a ELSE LoadBuffer(a)

Settled(f) ==
    IF f.fptr <= f.size THEN f
    ELSE [f EXCEPT !.size = f.fptr, !.flag = @ \cup {"MODIFIED"}]

SeekEnd(a) ==
    IF a.v.res # "OK" THEN a
    ELSE SeekBuffer([a EXCEPT !.f = Settled([@ EXCEPT !.fptr = @ + a.left])])

SeekTo(s, f, to) ==
    IF s.res # "OK" THEN [v |-> s, f |-> f]
    ELSE IF to = 0 THEN [v |-> s, f |-> [f EXCEPT !.fptr = 0]]
    ELSE Abort(SeekEnd(Iterate(SeekOne, SeekStart(s, f, to),
                               Smaller(to \div ClusterUnits, Clusters) + 1)))

FSeek(v, f, ofs) ==
    SeekTo(Sane(v, f), f, IF "WRITE" \in f.flag THEN ofs ELSE Smaller(ofs, f.size))
-----------------------------------------------------------------------------
(* f_sync and f_close.                                                     *)

\* The directory entry gets the chain and the size; the change counts as
\* written whatever sync_fs answers.
WithEntry(m, f) ==
    [m EXCEPT !.win.tab[f.dir_ptr].sclust = f.sclust, !.win.tab[f.dir_ptr].size = f.size,
              !.wflag = TRUE]

PutEntry(a, m) ==
    IF m.res # "OK" THEN [a EXCEPT !.v = m]
    ELSE [v |-> SyncFs(WithEntry(m, a.f)), f |-> [a.f EXCEPT !.flag = @ \ {"MODIFIED"}]]

SyncEntry(a) == IF a.v.res # "OK" THEN a ELSE PutEntry(a, MoveWindow(a.v, a.f.dir_sect))

FSync(v, f) ==
    IF "MODIFIED" \in f.flag THEN SyncEntry(WriteBack([v |-> Ok(v), f |-> f]))
    ELSE [v |-> Ok(v), f |-> f]
-----------------------------------------------------------------------------
(* f_opendir, f_readdir and f_stat.                                        *)

Enter(r, path) ==
    IF r.v.res = "NO_FILE" THEN Refuse(r, "NO_PATH")
    ELSE IF r.v.res # "OK" THEN r
    ELSE IF path # <<>> /\ ~r.d.dir THEN Refuse(r, "NO_PATH")
    ELSE DirSdi(r.v, IF path = <<>> THEN r.d
                     ELSE [r.d EXCEPT !.sclust = Entry(r.v, r.d).sclust], 0)

FOpendir(v, path) == Enter(FollowPath(v, path), path)

\* The end of the directory is no error.
Answer(y, name) ==
    [v |-> IF y.v.res = "NO_FILE" THEN Ok(y.v) ELSE y.v, d |-> y.d,
     name |-> IF y.v.res \in {"OK", "NO_FILE"} THEN name ELSE <<>>]

\* Mutant: the directory stays at the entry.
NameAt_Stays(r) ==
    Answer(r, IF r.v.res # "OK" THEN <<>> ELSE ShownName(r.d, Entry(r.v, r.d)))

\* name: <<>> at the end of the directory.
NameAt(r) ==
    IF r.v.res # "OK" THEN Answer(r, <<>>)
    ELSE Answer(DirNext(r.v, r.d, FALSE), ShownName(r.d, Entry(r.v, r.d)))

FReaddir(v, d) == NameAt(DirRead(v, d))

StatOf(r, path) == IF r.v.res = "OK" /\ path = <<>> THEN Fail(r.v, "INVALID_NAME") ELSE r.v

FStat(v, path) == StatOf(FollowPath(v, path), path)
=============================================================================
