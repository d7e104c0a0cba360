-------------------------------- MODULE Disk --------------------------------
(***************************************************************************)
(* Block transfers: BlkDevRead and BlkDevWrite (kernel/blockdev.c) down to *)
(* the polled commands of dev/ata.c.  The drive is external: it is busy    *)
(* for a time of its own after a command and after each sector, raises DRQ *)
(* when a sector can move, fails at any sector, and takes no command while *)
(* it is busy or has DRQ raised.  A sector's content is a value.           *)
(***************************************************************************)
EXTENDS Integers

CONSTANTS Sectors,   \* sectorCount of the device
          MaxBatch,  \* the largest count of one command, 255
          Values,    \* contents of a sector
          MaxCount   \* bound: sectors of one call

ASSUME DiskAssumption ==
    /\ Sectors \in Nat /\ MaxBatch \in Nat \ {0} /\ MaxCount \in Nat
    /\ Values # {}

VARIABLES media,   \* what the drive holds
          drive,   \* its state
          failed,  \* sectors of the present call it could not write
          call,    \* the call in progress, or the last one; clean tells
                   \* whether the drive was at rest when it began
          buf,     \* the caller's buffer
          pc,      \* where the driver is
          result   \* what the last call returned

vars == <<media, drive, failed, call, buf, pc, result>>

Addresses == 0 .. Sectors - 1
Idle == [bsy |-> FALSE, drq |-> FALSE, err |-> FALSE, op |-> "none", at |-> 0, left |-> 0, data |-> {}]

Init ==
    /\ media \in [Addresses -> Values]
    /\ drive = Idle
    /\ failed = {}
    /\ call = [op |-> "none", lba |-> 0, count |-> 0, done |-> 0, batch |-> 0, s |-> 0,
               clean |-> TRUE]
    /\ buf = << >>
    /\ pc = "idle"
    /\ result = "none"

AtRest == ~drive.bsy /\ ~drive.drq

\* BlkDevRead and BlkDevWrite refuse any other range.
InDevice(lba, count) == lba + count <= Sectors

Begin(op, lba, count, data) ==
    /\ pc = "idle"
    /\ InDevice(lba, count)
    /\ call' = [op |-> op, lba |-> lba, count |-> count, done |-> 0, batch |-> 0, s |-> 0,
                clean |-> AtRest]
    /\ buf' = data
    /\ failed' = {}
    /\ pc' = "batch"
    /\ UNCHANGED <<media, drive, result>>

\* The buffer of a read holds anything.
BlkDevRead == \E lba \in Addresses, count \in 0 .. MaxCount, v \in Values :
                  Begin("read", lba, count, [i \in 0 .. count - 1 |-> v])

BlkDevWrite == \E lba \in Addresses, count \in 0 .. MaxCount :
                   \E data \in [0 .. count - 1 -> Values] : Begin("write", lba, count, data)

Return(r) == pc' = "idle" /\ result' = r

Batch(n) == IF n > MaxBatch THEN MaxBatch ELSE n

\* The sector count register; zero stands for one more than it can hold.
Register(n) == n % (MaxBatch + 1)
Requested(r) == IF r = 0 THEN MaxBatch + 1 ELSE r

\* Mutant: every command begins at the first sector of the call.
Target_First == call.lba

\* Mutant: sectors are counted from one, and wrap.
Target_Next == (call.lba + call.done + 1) % Sectors

Target == call.lba + call.done

\* The next turn of ATABlkDevRead or ATABlkDevWrite: a command for a batch,
\* which the drive takes unless it is at work.
Command ==
    /\ pc = "batch"
    /\ IF call.done = call.count
       THEN Return("ok") /\ UNCHANGED <<drive, call>>
       ELSE LET n == Batch(call.count - call.done)
            IN /\ call' = [call EXCEPT !.batch = n, !.s = 0]
               /\ drive' = IF ~AtRest THEN drive
                           ELSE [Idle EXCEPT !.bsy = TRUE, !.op = call.op, !.at = Target,
                                             !.left = Requested(Register(n))]
               /\ pc' = "poll"
               /\ UNCHANGED result
    /\ UNCHANGED <<media, failed, buf>>

Ready == ~drive.bsy /\ drive.drq
Failing == drive.err

\* ATAPoll gives up when it has looked too often.
ATAPoll ==
    /\ pc = "poll"
    /\ \/ Failing /\ Return("error")
       \/ ~Failing /\ Ready /\ pc' = "transfer" /\ UNCHANGED result
       \/ ~Failing /\ ~Ready /\ Return("error")
    /\ UNCHANGED <<media, drive, failed, call, buf>>

\* 256 words, and the drive goes on by itself.  One that is still at the
\* command before this one, of the other direction, takes and gives nothing.
Moves ==
    \/ /\ drive.op # call.op
       /\ call.op = "read" => \E v \in Values : buf' = [buf EXCEPT ![call.done + call.s] = v]
       /\ call.op = "write" => UNCHANGED buf
       /\ UNCHANGED drive
    \/ /\ drive.op = "read" /\ call.op = "read"
       /\ buf' = [buf EXCEPT ![call.done + call.s] = media[drive.at]]
       /\ drive' = IF drive.left = 1 THEN Idle
                   ELSE [drive EXCEPT !.drq = FALSE, !.bsy = TRUE, !.at = @ + 1, !.left = @ - 1]
    \/ /\ drive.op = "write" /\ call.op = "write"
       /\ drive' = [drive EXCEPT !.drq = FALSE, !.bsy = TRUE, !.data = {buf[call.done + call.s]}]
       /\ UNCHANGED buf

\* Mutant: the loop forgets to count what it moved.
Moved_Nothing == call.done

\* Sectors behind the driver when a batch ends.
Moved == call.done + call.batch

Transfer ==
    /\ pc = "transfer"
    /\ Moves
    /\ LET last == call.s + 1 = call.batch
       IN /\ call' = [call EXCEPT !.s = @ + 1, !.done = IF last THEN Moved ELSE @]
          /\ pc' = IF ~last THEN "poll" ELSE IF call.op = "write" THEN "flush" ELSE "batch"
    /\ UNCHANGED <<media, failed, result>>

\* Mutant: the driver does not wait.
Flushed_Now == TRUE

Flushed == ~drive.bsy

\* ATAWrite ends with a flush, waits while the drive is busy and does not
\* look at its error bit.
Flush ==
    /\ pc = "flush"
    /\ Flushed
    /\ drive' = IF AtRest THEN Idle ELSE drive
    /\ pc' = "batch"
    /\ UNCHANGED <<media, failed, call, buf, result>>

Driver == Command \/ ATAPoll \/ Transfer \/ Flush

\* The drive is ready to move a sector.
DriveReady ==
    /\ drive.bsy /\ drive.data = {}
    /\ drive' = [drive EXCEPT !.bsy = FALSE, !.drq = TRUE]
    /\ UNCHANGED <<media, failed, call, buf, pc, result>>

\* It has written the sector it was given.
DriveWrites ==
    /\ drive.bsy
    /\ \E v \in drive.data : media' = [media EXCEPT ![drive.at] = v]
    /\ drive' = IF drive.left = 1 THEN Idle
                ELSE [drive EXCEPT !.bsy = FALSE, !.drq = TRUE, !.data = {},
                                   !.at = @ + 1, !.left = @ - 1]
    /\ UNCHANGED <<failed, call, buf, pc, result>>

\* It gives up, the sector unread or unwritten.
DriveFails ==
    /\ drive.bsy
    /\ failed' = IF drive.data = {} THEN failed ELSE failed \cup {drive.at}
    /\ drive' = [Idle EXCEPT !.err = TRUE]
    /\ UNCHANGED <<media, call, buf, pc, result>>

Drive == DriveReady \/ DriveWrites \/ DriveFails

Next == BlkDevRead \/ BlkDevWrite \/ Driver \/ Drive

Spec == Init /\ [][Next]_vars

\* The driver runs, and a drive that is busy comes to an end.
FairSpec == Spec /\ WF_vars(Driver) /\ WF_vars(Drive)

-----------------------------------------------------------------------------
\* A call is clean when the drive is at rest as it begins; after a poll that
\* gave up it may not be.  A clean read that reports success has brought every
\* sector it was asked for, in its place, however it was cut into batches and
\* whatever failed before it (dev/ata.c:112-144, 188-199).
ReadExact ==
    pc = "idle" /\ call.clean /\ call.op = "read" /\ result = "ok" =>
        \A i \in 0 .. call.count - 1 : buf[i] = media[call.lba + i]

\* A clean write that reports success has written every sector, but for one
\* the drive failed on as the last of a batch: nobody reads the status after
\* it (dev/ata.c:146-182, 201-213).
WriteExact ==
    pc = "idle" /\ call.clean /\ call.op = "write" /\ result = "ok" =>
        \A i \in 0 .. call.count - 1 :
            \/ media[call.lba + i] = buf[i]
            \/ /\ call.lba + i \in failed
               /\ (i + 1) % MaxBatch = 0 \/ i + 1 = call.count

\* What a call that reports success has done, in either direction
\* (kernel/blockdev.c:29-40, dev/ata.c:112-213).
TransferExact == ReadExact /\ WriteExact

\* A clean call that succeeds leaves the drive at rest for the next one
\* (dev/ata.c:177-179).
QuietAfterSuccess == pc = "idle" /\ call.clean /\ result = "ok" => AtRest

\* A clean call changes the disk only if it is a write, and only in the
\* sectors it was given, at whatever time the drive writes them.
ChangesOnlyInRange ==
    [][call.clean =>
           \A l \in Addresses : media'[l] # media[l] =>
               call.op = "write" /\ l \in call.lba .. call.lba + call.count - 1]_vars

\* A call returns, when the drive answers.
CallsReturn == pc # "idle" ~> pc = "idle"
=============================================================================
