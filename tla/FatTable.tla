------------------------------ MODULE FatTable ------------------------------
(***************************************************************************)
(* The lower half of FatFs, the file system cyOS is built with: the disk,  *)
(* the one-sector window through which the allocation table and the        *)
(* directories are reached, the table itself and the chains in it.         *)
(*                                                                         *)
(* The operators take and return a volume: the sectors of the disk and the *)
(* fields of FATFS.  Its field res is the FRESULT of the last operator and *)
(* val the DWORD it returned.  Two more fields say what goes wrong: the    *)
(* transfer number `fails' from now reports an error (0: none does), and   *)
(* after `cut' more writes the power is gone.  The sectors are there twice *)
(* for that: disk has every write, kept those made while there was power.  *)
(*                                                                         *)
(* The volume is FAT32, as the Makefile formats it, with an FSInfo sector  *)
(* next to the boot sector; sectors are numbered from the start of the     *)
(* volume.                                                                 *)
(***************************************************************************)
EXTENDS Integers, Sequences

CONSTANTS
    Clusters,         \* n_fatent: clusters are numbered 2 .. Clusters - 1
    FatPer,           \* entries of the table in a sector (128 in the code)
    ClusterSectors,   \* csize: sectors in a cluster
    NFats             \* n_fats: copies of the table, 1 or 2

ASSUME GeometryAssumption ==
    /\ Clusters \in Nat /\ Clusters > 2
    /\ FatPer \in Nat \ {0}
    /\ ClusterSectors \in Nat \ {0}
    /\ NFats \in {1, 2}

\* What the table and the functions that read it say besides a cluster.
EOC == 268435455            \* 0x0FFFFFFF: the last cluster of a chain
DiskError == 2147483647     \* stands for 0xFFFFFFFF, above every entry
Unknown == 2147483647       \* a count the volume does not know

FSInfo == 1
FatBase == 2
FatSize == (Clusters + FatPer - 1) \div FatPer
DataBase == FatBase + NFats * FatSize
Sectors == FSInfo .. DataBase + (Clusters - 2) * ClusterSectors - 1
Nowhere == -1               \* a window that holds no sector

IsCluster(c) == c >= 2 /\ c < Clusters

\* Op applied n times to x: the loops, each with the bound it has in the code.
Iterate(Op(_), x, n) ==
    LET f[i \in 0 .. n] == IF i = 0 THEN x ELSE Op(f[i - 1]) IN f[n]

Ok(v) == [v EXCEPT !.res = "OK"]
Fail(v, why) == [v EXCEPT !.res = why]
Give(v, x) == [v EXCEPT !.res = "OK", !.val = x]

Sooner(n) == IF n > 0 THEN n - 1 ELSE n
-----------------------------------------------------------------------------
(* The transfers of one sector.                                            *)

DiskRead(v) ==
    [v EXCEPT !.fails = Sooner(@), !.res = IF v.fails = 1 THEN "DISK_ERR" ELSE "OK"]

DiskWrite(v, s, c) ==
    IF v.fails = 1
    THEN [v EXCEPT !.fails = 0, !.res = "DISK_ERR"]
    ELSE [v EXCEPT !.fails = Sooner(@), !.cut = Sooner(@), !.res = "OK",
                   !.disk[s] = c, !.kept[s] = IF v.cut = 0 THEN @ ELSE c]

\* The dirty window goes to its sector, and to the second copy of the table
\* when it is a sector of the first; that the copy failed is not reported.
Copied(w) ==
    IF w.winsect \in FatBase .. FatBase + FatSize - 1 /\ NFats = 2
    THEN Ok(DiskWrite(w, w.winsect + FatSize, w.win)) ELSE w

Cleaned(w) == IF w.res # "OK" THEN w ELSE Copied([w EXCEPT !.wflag = FALSE])

SyncWindow(v) == IF v.wflag THEN Cleaned(DiskWrite(v, v.winsect, v.win)) ELSE Ok(v)

Loaded(r, s) ==
    IF r.res # "OK" THEN [r EXCEPT !.winsect = Nowhere]
    ELSE [r EXCEPT !.win = r.disk[s], !.winsect = s]

Load(w, s) == IF w.res # "OK" THEN w ELSE Loaded(DiskRead(w), s)

MoveWindow(v, s) == IF s = v.winsect THEN Ok(v) ELSE Load(SyncWindow(v), s)

\* The FSInfo sector, when an allocation changed; it is made in the window.
PutInfo(w) ==
    LET info == [free |-> w.free_clst, last |-> w.last_clst] IN
    IF ~w.fsi_flag THEN w
    ELSE DiskWrite([w EXCEPT !.fsi_flag = FALSE, !.win = info, !.winsect = FSInfo], FSInfo, info)

\* The last transfer is the drive's own flush.
FlushInfo(w) == IF w.res # "OK" THEN w ELSE DiskRead(PutInfo(w))

SyncFs(v) == FlushInfo(SyncWindow(v))
-----------------------------------------------------------------------------
(* The table.                                                              *)

Clst2Sect(c) == IF IsCluster(c) THEN DataBase + ClusterSectors * (c - 2) ELSE 0

FatSector(c) == FatBase + c \div FatPer

\* val: the entry of cluster c; 1 when c is no cluster.
ReadEntry(w, c) == Give(w, IF w.res = "OK" THEN w.win[c % FatPer] ELSE DiskError)

GetFat(v, c) == IF IsCluster(c) THEN ReadEntry(MoveWindow(v, FatSector(c)), c) ELSE Give(v, 1)

SetEntryOf(w, c, x) ==
    IF w.res # "OK" THEN w ELSE [w EXCEPT !.win[c % FatPer] = x, !.wflag = TRUE]

PutFat(v, c, x) ==
    IF IsCluster(c) THEN SetEntryOf(MoveWindow(v, FatSector(c)), c, x) ELSE Fail(v, "INT_ERR")

\* remove_chain: in each turn cluster clst is freed and its follower is next.
\* Mutant: the freed cluster is not counted.
Released_Uncounted(a, p, next) ==
    IF p.res # "OK" THEN [a EXCEPT !.go = FALSE, !.v = p]
    ELSE [v |-> p, clst |-> next, go |-> next < Clusters]

Released(a, p, next) ==
    IF p.res # "OK" THEN [a EXCEPT !.go = FALSE, !.v = p]
    ELSE [v |-> IF p.free_clst < Clusters - 2
                THEN [p EXCEPT !.free_clst = @ + 1, !.fsi_flag = TRUE] ELSE p,
          clst |-> next, go |-> next < Clusters]

Release(a, g) ==
    CASE g.val = 0 -> [a EXCEPT !.go = FALSE, !.v = g]
      [] g.val = 1 -> [a EXCEPT !.go = FALSE, !.v = Fail(g, "INT_ERR")]
      [] g.val = DiskError -> [a EXCEPT !.go = FALSE, !.v = Fail(g, "DISK_ERR")]
      [] OTHER -> Released(a, PutFat(g, a.clst, 0), g.val)

RemoveOne(a) == IF a.go THEN Release(a, GetFat(a.v, a.clst)) ELSE a

RemoveChain(v, clst) ==
    IF ~IsCluster(clst) THEN Fail(v, "INT_ERR")
    ELSE Iterate(RemoveOne, [v |-> v, clst |-> clst, go |-> TRUE], Clusters).v
-----------------------------------------------------------------------------
(* create_chain.                                                           *)

NextTo(c) == IF c + 1 >= Clusters THEN 2 ELSE c + 1

\* The search for a free cluster: the next one, around the end of the table,
\* until a free one is found or scl is reached again.  val: the cluster, or 0,
\* 1 or DiskError.
Judge(a, n, g) ==
    IF g.val = 0 THEN [a EXCEPT !.v = Give(g, n), !.go = FALSE]
    ELSE IF g.val \in {1, DiskError} THEN [a EXCEPT !.v = g, !.go = FALSE]
    ELSE IF n = a.scl THEN [a EXCEPT !.v = Give(g, 0), !.go = FALSE]
    ELSE [a EXCEPT !.v = g, !.ncl = n]

SearchOne(a) ==
    IF ~a.go THEN a
    ELSE IF a.ncl + 1 >= Clusters /\ a.scl < 2 THEN [a EXCEPT !.v = Give(@, 0), !.go = FALSE]
    ELSE Judge(a, NextTo(a.ncl), GetFat(a.v, NextTo(a.ncl)))

Search(v, scl) ==
    Iterate(SearchOne, [v |-> v, ncl |-> scl, scl |-> scl, go |-> TRUE], Clusters).v

\* Mutant: a chain is stretched nowhere else.
Neighbour_Only(g, clst) ==
    IF g.val \in {1, DiskError} THEN g
    ELSE Give(g, IF g.val = 0 THEN NextTo(clst) ELSE 0)

\* A chain is stretched into the cluster after its last when that is free.
Neighbour(g, clst) ==
    IF g.val \in {1, DiskError} THEN g
    ELSE IF g.val = 0 THEN Give(g, NextTo(clst))
    ELSE Search(g, IF IsCluster(g.last_clst) THEN g.last_clst ELSE clst)

FindFree(v, clst) ==
    IF clst # 0 THEN Neighbour(GetFat(v, NextTo(clst)), clst)
    ELSE Search(v, IF v.last_clst = 0 \/ v.last_clst >= Clusters THEN 1 ELSE v.last_clst)

\* The free cluster ncl is marked as the end of a chain, and then linked.
Taken(p, ncl) ==
    IF p.res # "OK" THEN Give(p, IF p.res = "DISK_ERR" THEN DiskError ELSE 1)
    ELSE IF p.free_clst > 0 /\ p.free_clst <= Clusters - 2
    THEN Give([p EXCEPT !.last_clst = ncl, !.free_clst = @ - 1, !.fsi_flag = TRUE], ncl)
    ELSE Give([p EXCEPT !.last_clst = ncl], ncl)

LinkTo(e, clst, ncl) == IF e.res = "OK" /\ clst # 0 THEN PutFat(e, clst, ncl) ELSE e

TakeCluster(f, clst) ==
    IF IsCluster(f.val) THEN Taken(LinkTo(PutFat(f, f.val, EOC), clst, f.val), f.val) ELSE f

\* The last cluster of a chain has the entry g.val.
Extend(g, clst) ==
    IF g.val < 2 THEN Give(g, 1)
    ELSE IF g.val = DiskError \/ g.val < Clusters THEN g
    ELSE IF g.free_clst = 0 THEN Give(g, 0)
    ELSE TakeCluster(FindFree(g, clst), clst)

\* val: the cluster that follows clst, a new one if it is the last of its
\* chain, or the first of a new chain if clst is 0; 0 when the volume is full.
CreateChain(v, clst) == Extend(IF clst = 0 THEN Give(v, EOC) ELSE GetFat(v, clst), clst)
-----------------------------------------------------------------------------
(* What the table says: with the window on top of the disk, or the disk     *)
(* alone, which is all that is left when the power goes.                   *)

Overlaid(v) == IF v.wflag THEN [v.disk EXCEPT ![v.winsect] = v.win] ELSE v.disk

FatOf(d) == [c \in 2 .. Clusters - 1 |-> d[FatSector(c)][c % FatPer]]

\* The clusters a chain that starts at c runs through, in order; it is cut at
\* the first entry that does not lead to a cluster.
ChainOf(fat, c) ==
    LET f[n \in 0 .. Clusters] ==
            IF n = 0 THEN IF IsCluster(c) THEN <<c>> ELSE <<>>
            ELSE LET s == f[n - 1] IN
                 IF s # <<>> /\ IsCluster(fat[s[Len(s)]]) /\ Len(s) < Clusters
                 THEN Append(s, fat[s[Len(s)]]) ELSE s
    IN f[Clusters]

\* A chain that ends where a chain must, and visits no cluster twice.
Ends(fat, s) ==
    /\ s # <<>> => fat[s[Len(s)]] >= Clusters
    /\ \A i, j \in 1 .. Len(s) : s[i] = s[j] => i = j

FreeClusters(fat) == {c \in 2 .. Clusters - 1 : fat[c] = 0}
=============================================================================
