---------------------------- MODULE FatDirectory ----------------------------
(***************************************************************************)
(* The directories of FatFs: walking a table along its chain, stretching   *)
(* it, finding, registering and listing names.                             *)
(*                                                                         *)
(* A sector of a table is [tab |-> entries], a sector of a file             *)
(* [data |-> units].  An entry is a record with a kind: "end" (nothing was  *)
(* ever here), "deleted", "label" (the volume's), "dots" (of a              *)
(* subdirectory), "lfn" (a piece of a long name) or "sfn" (a file or a      *)
(* directory).  The DIR object d counts in entries, not bytes; its field    *)
(* lfn stands for the shared buffer of the long name.                       *)
(***************************************************************************)
EXTENDS FatTable, FatNames, TLC

CONSTANTS
    DirPer,           \* entries of a directory in a sector (16)
    MaxDir,           \* entries a directory may have (65536)
    RootClust,        \* where the root directory begins
    MaxNumber         \* numbers dir_register tries for a short name (99)

ASSUME DirAssumption ==
    /\ DirPer \in Nat \ {0} /\ MaxDir \in Nat \ {0} /\ MaxNumber \in Nat
    /\ IsCluster(RootClust)

PerCluster == DirPer * ClusterSectors
None == -1                       \* blk_ofs: the entry has no long name

End == [kind |-> "end"]
Garbage == [kind |-> "deleted"]  \* what a sector of a file looks like: no name
NoEntries == [tab |-> [i \in 0 .. DirPer - 1 |-> End]]

DirAt(sclust) == [sclust |-> sclust, dptr |-> 0, sect |-> 0, clust |-> 0,
                  blk |-> None, dir |-> FALSE, lfn |-> <<>>, fn |-> <<>>]

Entry(v, d) == IF "tab" \in DOMAIN v.win THEN v.win.tab[d.dptr % DirPer] ELSE Garbage
SetEntry(v, d, e) == [v EXCEPT !.win.tab[d.dptr % DirPer] = e, !.wflag = TRUE]

Both(v, d) == [v |-> v, d |-> d]
-----------------------------------------------------------------------------
(* Moving in a table.                                                      *)

\* One cluster further along a table's chain.
Followed(a, g) ==
    IF g.val = DiskError THEN [a EXCEPT !.v = Fail(g, "DISK_ERR")]
    ELSE IF ~IsCluster(g.val) THEN [a EXCEPT !.v = Fail(g, "INT_ERR")]
    ELSE [v |-> g, c |-> g.val]

FollowOne(a) == IF a.v.res # "OK" THEN a ELSE Followed(a, GetFat(a.v, a.c))

Arrived(r, d, ofs) ==
    IF r.v.res # "OK" THEN Both(r.v, d)
    ELSE IF ~IsCluster(r.c) THEN Both(Fail(r.v, "INT_ERR"), d)
    ELSE Both(r.v, [d EXCEPT !.clust = r.c,
                             !.sect = Clst2Sect(r.c) + ((ofs % PerCluster) \div DirPer)])

DirSdi(v, d, ofs) ==
    LET top == IF d.sclust = 0 THEN RootClust ELSE d.sclust IN
    IF ofs >= MaxDir THEN Both(Fail(v, "INT_ERR"), d)
    ELSE Arrived(Iterate(FollowOne, [v |-> Ok(v), c |-> top], ofs \div PerCluster),
                 [d EXCEPT !.dptr = ofs], ofs)

ClearOne(a) ==
    IF a.v.res # "OK" THEN a ELSE [v |-> DiskWrite(a.v, a.s, NoEntries), s |-> a.s + 1]

\* A new cluster of a table is filled with entries that end it; the window is
\* left on its first sector.
ClearAll(w, s) ==
    IF w.res # "OK" THEN w
    ELSE Iterate(ClearOne, [v |-> [w EXCEPT !.winsect = s, !.win = NoEntries], s |-> s],
                 ClusterSectors).v

DirClear(v, c) == ClearAll(SyncWindow(v), Clst2Sect(c))

\* The cluster after the last of a table: none, or a new one.
Added(w, c) == IF w.res # "OK" THEN w ELSE Give(w, c)

Stretched(c) ==
    CASE c.val = 0 -> Fail(c, "DENIED")
      [] c.val = 1 -> Fail(c, "INT_ERR")
      [] c.val = DiskError -> Fail(c, "DISK_ERR")
      [] OTHER -> Added(DirClear(c, c.val), c.val)

\* The next cluster of the table that g.val is the entry of.
NextCluster(g, clust, stretch) ==
    IF g.val <= 1 THEN Fail(g, "INT_ERR")
    ELSE IF g.val = DiskError THEN Fail(g, "DISK_ERR")
    ELSE IF g.val < Clusters THEN g
    ELSE IF stretch THEN Stretched(CreateChain(g, clust)) ELSE Fail(g, "NO_FILE")

Turned(s, d, ofs) ==
    CASE s.res = "OK" ->
           Both(s, [d EXCEPT !.dptr = ofs, !.clust = s.val, !.sect = Clst2Sect(s.val)])
      [] s.res = "NO_FILE" -> Both(s, [d EXCEPT !.sect = 0])
      [] OTHER -> Both(s, [d EXCEPT !.sect = @ + 1])

DirNext(v, d, stretch) ==
    LET ofs == d.dptr + 1 IN
    IF ofs >= MaxDir \/ d.sect = 0
    THEN Both(Fail(v, "NO_FILE"), [d EXCEPT !.sect = 0])
    ELSE IF ofs % DirPer # 0 THEN Both(Ok(v), [d EXCEPT !.dptr = ofs])
    ELSE IF ofs % PerCluster # 0
    THEN Both(Ok(v), [d EXCEPT !.dptr = ofs, !.sect = @ + 1])
    ELSE Turned(NextCluster(GetFat(v, d.clust), d.clust, stretch), d, ofs)

\* A walk from where r is, with the fields of x, goes until `go' is false.
Started(r, x) == [go |-> r.v.res = "OK"] @@ x @@ r

\* The walk a goes on at what DirNext gave, or ends with what it answered.
Onward(a, x) == [a EXCEPT !.v = x.v, !.d = x.d, !.go = x.v.res = "OK"]
Halt(a, v) == [a EXCEPT !.v = v, !.go = FALSE]
Step(a, w) == Onward(a, DirNext(w, a.d, FALSE))
-----------------------------------------------------------------------------
(* dir_alloc: n free entries in a row, from the first such place on.       *)

Counted(a, w) ==
    LET m == IF Entry(w, a.d).kind \in {"end", "deleted"} THEN a.n + 1 ELSE 0 IN
    IF w.res # "OK" \/ m = a.want THEN Halt(a, w)
    ELSE Onward([a EXCEPT !.n = m], DirNext(w, a.d, TRUE))

AllocOne(a) == IF a.go THEN Counted(a, MoveWindow(a.v, a.d.sect)) ELSE a

Allocated(a) == Both(IF a.v.res = "NO_FILE" THEN Fail(a.v, "DENIED") ELSE a.v, a.d)

DirAlloc(v, d, n) ==
    Allocated(Iterate(AllocOne, Started(DirSdi(v, d, 0), [n |-> 0, want |-> n]), MaxDir))
-----------------------------------------------------------------------------
(* dir_find and dir_read.  ord counts the pieces of a long name that are    *)
(* still to come before its short entry; 255 says there is none.           *)

NoLong == 255

\* The walk a after the entry e of a long name, of which `same' says that it
\* is the piece that was awaited.
Piece(a, e, same) ==
    LET ord == IF e.last THEN e.ord ELSE a.ord
        sum == IF e.last THEN e.sum ELSE a.sum
    IN [a EXCEPT !.sum = sum, !.d.blk = IF e.last THEN a.d.dptr ELSE @,
                 !.ord = IF e.ord = ord /\ e.sum = sum /\ same THEN ord - 1 ELSE NoLong]

\* The awaited pieces are all there and e is their short entry.
Complete(a, e) == a.ord = 0 /\ a.sum = SumSfn(e.name)

\* One entry looked at by dir_find, and the step to the next.
Compared(a, w, e) ==
    IF w.res # "OK" THEN Halt(a, w)
    ELSE IF e.kind = "end" THEN Halt(a, Fail(w, "NO_FILE"))
    ELSE IF e.kind = "sfn" /\ (Complete(a, e) \/ (~a.loss /\ e.name = Eleven(a.d.fn)))
    THEN Halt([a EXCEPT !.d.dir = e.dir], w)
    ELSE Step(IF e.kind # "lfn" THEN [a EXCEPT !.ord = NoLong, !.d.blk = None]
              ELSE IF a.short THEN a ELSE Piece(a, e, CmpLfn(a.d.lfn, e)), w)

FindAt(a, w) == Compared(a, w, Entry(w, a.d))
FindOne(a) == IF a.go THEN FindAt(a, MoveWindow(a.v, a.d.sect)) ELSE a

\* short: only short names are looked at (NS_NOLFN); loss: they are not.
Find(v, d, short, loss) ==
    Iterate(FindOne, Started(DirSdi(v, [d EXCEPT !.blk = None], 0),
                             [ord |-> NoLong, sum |-> NoLong, short |-> short, loss |-> loss]),
            MaxDir)

DirFind(v, d) == Find(v, d, FALSE, d.fn.loss)

\* One entry looked at by dir_read; d.lfn collects the pieces of a long name.
Listed(a, w, e) ==
    IF w.res # "OK" THEN Halt(a, w)
    ELSE IF e.kind = "end" THEN Halt(a, Fail(w, "NO_FILE"))
    ELSE IF e.kind = "sfn" THEN Halt([a EXCEPT !.d.blk = IF Complete(a, e) THEN @ ELSE None], w)
    ELSE Step(IF e.kind # "lfn" THEN [a EXCEPT !.ord = NoLong]
              ELSE Piece([a EXCEPT !.d.lfn = IF e.last THEN e.piece ELSE e.piece \o @],
                         e, TRUE), w)

ListAt(a, w) == Listed(a, w, Entry(w, a.d))
ListOne(a) == IF a.go THEN ListAt(a, MoveWindow(a.v, a.d.sect)) ELSE a

\* The next file or directory, with the window and d on its entry.
ListDone(a) == Both(a.v, IF a.v.res = "OK" THEN a.d ELSE [a.d EXCEPT !.sect = 0])

DirRead(v, d) ==
    ListDone(Iterate(ListOne, [v |-> Fail(v, "NO_FILE"), d |-> d, ord |-> NoLong, sum |-> NoLong,
                               go |-> d.sect # 0], MaxDir))

\* get_fileinfo: the name the entry e under d is shown with.
ShownName(d, e) == IF d.blk # None THEN d.lfn ELSE ShortShown(e.name, e.small)
-----------------------------------------------------------------------------
(* dir_register.                                                           *)

\* The numbers tried for a lossy name; sn is the name without one.
Tried(a, r) ==
    IF r.v.res # "OK" THEN [a EXCEPT !.v = r.v, !.d = r.d, !.go = FALSE]
    ELSE [a EXCEPT !.v = r.v, !.d = r.d, !.n = @ + 1]

NumberOne(a) ==
    IF a.go THEN Tried(a, Find(a.v, [a.d EXCEPT !.fn = GenNumName(a.sn, a.d.lfn, a.n)], TRUE, FALSE))
    ELSE a

\* Mutant: the first number is taken to be free.
Numbered_Unchecked(v, d) ==
    [v |-> Fail(v, "NO_FILE"), n |-> 1,
     d |-> IF d.fn.loss THEN [d EXCEPT !.fn = GenNumName(d.fn, d.lfn, 1)] ELSE d]

Numbered(v, d) ==
    IF ~d.fn.loss THEN [v |-> Fail(v, "NO_FILE"), d |-> d, n |-> 1]
    ELSE Iterate(NumberOne, [v |-> v, d |-> d, sn |-> d.fn, n |-> 1, go |-> TRUE], MaxNumber)

\* The pieces of the long name, the last one first, up to its short entry.
PutPiece(a, w) ==
    IF w.res # "OK" THEN Halt(a, w)
    ELSE Step([a EXCEPT !.n = @ - 1], SetEntry(w, a.d, PutLfn(a.d.lfn, a.n, a.sum)))

PutOne(a) == IF a.go THEN PutPiece(a, MoveWindow(a.v, a.d.sect)) ELSE a

NewEntry(fn) == [kind |-> "sfn", name |-> Eleven(fn), small |-> fn.small, dir |-> FALSE,
                 sclust |-> 0, size |-> 0]

PutShort(w, d) == Both(IF w.res # "OK" THEN w ELSE SetEntry(w, d, NewEntry(d.fn)), d)

\* The entries p found for the name are filled, its n pieces first.
PutPieces(p, n) ==
    Iterate(PutOne, Started(p, [n |-> n, sum |-> SumSfn(Eleven(p.d.fn))]), n)

PutEntries(a) ==
    IF a.v.res # "OK" THEN Both(a.v, a.d) ELSE PutShort(MoveWindow(a.v, a.d.sect), a.d)

Place(a, long) ==
    IF a.v.res # "OK" THEN a
    ELSE PutEntries(PutPieces(IF long = 0 THEN a ELSE DirSdi(a.v, a.d, a.d.dptr - long), long))

\* sn: the name before it got a number.
RegisterAs(t, sn) ==
    LET long == IF sn.long THEN PieceCount(t.d.lfn) ELSE 0 IN
    IF t.n > MaxNumber THEN Both(Fail(t.v, "DENIED"), t.d)
    ELSE IF t.v.res # "NO_FILE" THEN Both(t.v, t.d)
    ELSE Place(DirAlloc(t.v, t.d, long + 1), long)

DirRegister(v, d) == RegisterAs(Numbered(v, d), d.fn)
-----------------------------------------------------------------------------
(* follow_path: a path is the sequence of its segments.                    *)

Descend(a, r) ==
    IF r.v.res # "OK"
    THEN [a EXCEPT !.v = IF r.v.res = "NO_FILE" /\ a.left > 1 THEN Fail(r.v, "NO_PATH") ELSE r.v,
                   !.d = r.d, !.go = FALSE]
    ELSE IF a.left = 1 THEN [a EXCEPT !.v = r.v, !.d = r.d, !.go = FALSE]
    ELSE IF ~r.d.dir THEN Halt(a, Fail(r.v, "NO_PATH"))
    ELSE [a EXCEPT !.v = r.v, !.d = [r.d EXCEPT !.sclust = Entry(r.v, r.d).sclust], !.left = @ - 1]

FollowName(a, name) ==
    IF name.res # "OK" THEN Halt(a, Fail(a.v, name.res))
    ELSE Descend(a, DirFind(a.v, [a.d EXCEPT !.lfn = name.lfn, !.fn = name.fn]))

FollowPathOne(a) ==
    IF a.go THEN FollowName(a, CreateName(a.path[Len(a.path) + 1 - a.left])) ELSE a

FollowPath(v, path) ==
    IF path = <<>> THEN DirSdi(v, DirAt(0), 0)
    ELSE Iterate(FollowPathOne, [v |-> Ok(v), d |-> DirAt(0), left |-> Len(path), path |-> path,
                                 go |-> TRUE], Len(path))
=============================================================================
