----------------------------- MODULE DiskProofs ------------------------------
(***************************************************************************)
(* For every disk, every size of a command and every call, with a drive    *)
(* that is late or fails at any sector: a clean call that reports success  *)
(* has done what it says, and no clean call touches another sector.        *)
(***************************************************************************)
EXTENDS Disk, TLAPS

Ops == {"none", "read", "write"}
Drives == [bsy : BOOLEAN, drq : BOOLEAN, err : BOOLEAN, op : Ops, at : Nat, left : Nat,
           data : SUBSET Values]
Calls == [op : Ops, lba : Nat, count : Nat, done : Nat, batch : Nat, s : Nat, clean : BOOLEAN]

TypeOK ==
    /\ media \in [Addresses -> Values]
    /\ drive \in Drives
    /\ call \in Calls
    /\ buf \in [0 .. call.count - 1 -> Values]
    /\ pc \in {"idle", "batch", "poll", "transfer", "flush"}
    /\ result \in {"none", "ok", "error"}

\* The drive, whatever the driver has done.
DriveOK ==
    /\ ~(drive.bsy /\ drive.drq)
    /\ drive.err => AtRest
    /\ drive.data # {} => drive.bsy /\ drive.op = "write"
    /\ ~AtRest => drive.left > 0 /\ drive.at + drive.left <= Sectors

\* A place in the call where a command ends.
Boundary(n) == n % MaxBatch = 0 \/ n = call.count

\* Where the driver is in its call.
CallOK ==
    /\ call.lba + call.count <= Sectors /\ call.done <= call.count
    /\ Boundary(call.done)
    /\ pc # "idle" => call.op # "none"
    /\ pc \in {"poll", "transfer"} =>
           /\ call.done < call.count /\ call.s < call.batch
           /\ call.batch = Batch(call.count - call.done)
    /\ pc = "transfer" => drive.drq
    /\ pc = "flush" => call.op = "write" /\ call.done > 0

\* The i-th sector of the call has come or gone.
Good(i) ==
    IF call.op = "write"
    THEN media[call.lba + i] = buf[i] \/ (call.lba + i \in failed /\ Boundary(i + 1))
    ELSE buf[i] = media[call.lba + i]

Done(n) == \A i \in 0 .. n - 1 : Good(i)

\* The drive is at the n-th sector of the call, of a command that ends with
\* the m-th, and has nothing to write, or is writing the sector.
AtSector(n, m) == ~AtRest /\ drive.data = {} /\ drive.at = call.lba + n /\ drive.left = m - n
Writing(n, m) ==
    /\ drive.bsy /\ drive.data = {buf[n]} /\ drive.at = call.lba + n /\ drive.left = m - n

\* In a clean call the drive and the driver keep step.
InStep ==
    LET n == call.done + call.s
        m == call.done + call.batch
    IN /\ ~AtRest => /\ drive.op = call.op /\ drive.at >= call.lba
                     /\ drive.at + drive.left <= call.lba + call.count
       /\ pc = "batch" => AtRest /\ Done(call.done)
       /\ pc = "poll" =>
              \/ AtRest /\ drive.err
              \/ AtSector(n, m) /\ Done(n)
              \/ call.op = "write" /\ n > call.done /\ Writing(n - 1, m) /\ Done(n - 1)
       /\ pc = "transfer" => AtSector(n, m) /\ drive.drq /\ Done(n)
       /\ pc = "flush" =>
              \/ AtRest /\ Done(call.done)
              \/ Writing(call.done - 1, call.done) /\ Done(call.done - 1)
       /\ pc = "idle" /\ result = "ok" => AtRest /\ Done(call.count)

DiskInv == TypeOK /\ DriveOK /\ CallOK /\ (call.clean => InStep)

-----------------------------------------------------------------------------
(* Batches. *)

LEMMA Division ==
    ASSUME NEW n \in Int
    PROVE  n \div MaxBatch \in Int /\ n = (n \div MaxBatch) * MaxBatch + (n % MaxBatch)
  BY DiskAssumption

LEMMA Remainder ==
    ASSUME NEW n \in Int, NEW q \in Int, NEW r \in 0 .. MaxBatch - 1, n = MaxBatch * q + r
    PROVE  r = n % MaxBatch
  BY DiskAssumption

LEMMA Multiple ==
    ASSUME NEW n \in Nat, n % MaxBatch = 0
    PROVE  (n + MaxBatch) % MaxBatch = 0
<1> DEFINE q == n \div MaxBatch
<1>1. q \in Int /\ n = q * MaxBatch + 0 /\ 0 \in 0 .. MaxBatch - 1 /\ MaxBatch \in Int
  BY Division, DiskAssumption
<1> HIDE DEF q
<1>2. n + MaxBatch = MaxBatch * (q + 1) + 0 /\ q + 1 \in Int
  BY <1>1
<1> QED
  BY <1>1, <1>2, Remainder

\* A batch is not empty, stays in the call, fits the register and ends at a
\* boundary (dev/ata.c:80-102, 190-197).
LEMMA BatchEnds ==
    ASSUME NEW count \in Nat, NEW done \in Nat, done < count, done % MaxBatch = 0 \/ done = count
    PROVE  LET n == Batch(count - done)
           IN /\ n \in Nat \ {0} /\ done + n <= count
              /\ (done + n) % MaxBatch = 0 \/ done + n = count
              /\ Requested(Register(n)) = n
<1> DEFINE n == Batch(count - done)
<1>1. n \in Nat \ {0} /\ done + n <= count /\ n <= MaxBatch /\ (n = MaxBatch \/ done + n = count)
  BY DiskAssumption DEF Batch
<1>2. n = MaxBatch => (done + n) % MaxBatch = 0
  BY DiskAssumption, Multiple
<1>3. n % (MaxBatch + 1) = n
  BY <1>1, DiskAssumption
<1> QED
  BY <1>1, <1>2, <1>3 DEF Requested, Register

-----------------------------------------------------------------------------
LEMMA DiskInit == Init => DiskInv
<1> SUFFICES ASSUME Init PROVE DiskInv
  OBVIOUS
<1>1. /\ drive = Idle /\ failed = {} /\ buf = << >> /\ pc = "idle" /\ result = "none"
      /\ call = [op |-> "none", lba |-> 0, count |-> 0, done |-> 0, batch |-> 0, s |-> 0, clean |-> TRUE]
      /\ media \in [Addresses -> Values]
  BY DEF Init
<1>2. drive \in Drives /\ AtRest /\ drive.data = {} /\ ~drive.err
  BY <1>1 DEF Idle, Drives, Ops, AtRest
<1>3. /\ call \in Calls /\ call.count = 0 /\ call.lba = 0 /\ call.done = 0
  BY <1>1 DEF Calls, Ops
<1>4. buf \in [0 .. call.count - 1 -> Values]
  <2>1. 0 .. call.count - 1 = {}
    BY <1>3
  <2> QED
    BY <1>1, <2>1
<1>5. TypeOK
  BY <1>1, <1>2, <1>3, <1>4 DEF TypeOK
<1>6. DriveOK /\ CallOK
  BY <1>1, <1>2, <1>3, DiskAssumption DEF DriveOK, CallOK, Boundary, AtRest
<1>7. InStep
  BY <1>1, <1>2 DEF InStep
<1> QED
  BY <1>5, <1>6, <1>7 DEF DiskInv

LEMMA BeginInv ==
    ASSUME DiskInv, NEW op \in {"read", "write"}, NEW lba \in Addresses, NEW count \in Nat,
           NEW data \in [0 .. count - 1 -> Values], Begin(op, lba, count, data)
    PROVE  DiskInv'
<1>1. TypeOK /\ DriveOK
  BY DEF DiskInv
<1>2. /\ lba + count <= Sectors /\ buf' = data /\ pc' = "batch"
      /\ call' = [op |-> op, lba |-> lba, count |-> count, done |-> 0, batch |-> 0, s |-> 0,
                  clean |-> AtRest]
      /\ UNCHANGED <<media, drive, result>>
  BY DEF Begin, InDevice
<1>3. lba \in Nat
  BY DiskAssumption DEF Addresses
<1>4. AtRest \in BOOLEAN
  BY <1>1 DEF AtRest
<1>5. /\ call' \in Calls /\ call'.op = op /\ call'.lba = lba /\ call'.count = count
      /\ call'.done = 0 /\ call'.clean = AtRest
  BY <1>2, <1>3, <1>4 DEF Calls, Ops
<1>6. TypeOK'
  BY <1>1, <1>2, <1>5 DEF TypeOK
<1>7. DriveOK' /\ (AtRest' <=> AtRest)
  BY <1>1, <1>2 DEF DriveOK, AtRest
<1>8. CallOK'
  BY <1>2, <1>5, DiskAssumption DEF CallOK, Boundary
<1>9. call'.clean => InStep'
  BY <1>2, <1>5, <1>7 DEF InStep, Done
<1> QED
  BY <1>6, <1>7, <1>8, <1>9 DEF DiskInv

\* What a step leaves alone is as good as it was.
LEMMA DoneStands ==
    ASSUME NEW n, Done(n), UNCHANGED <<media, buf>>, failed \subseteq failed',
           call'.op = call.op, call'.lba = call.lba, call'.count = call.count
    PROVE  Done(n)'
  BY DEF Done, Good, Boundary

LEMMA CommandInv ==
    ASSUME DiskInv, Command
    PROVE  DiskInv'
<1>1. TypeOK /\ DriveOK /\ CallOK /\ (call.clean => InStep)
  BY DEF DiskInv
<1>2. pc = "batch" /\ UNCHANGED <<media, failed, buf>>
  BY DEF Command
<1>3. CASE call.done = call.count
  <2>1. pc' = "idle" /\ result' = "ok" /\ UNCHANGED <<drive, call>>
    BY <1>3 DEF Command, Return
  <2>2. TypeOK' /\ DriveOK' /\ CallOK'
    BY <1>1, <1>2, <2>1 DEF TypeOK, DriveOK, CallOK, AtRest, Boundary
  <2>3. ASSUME call.clean PROVE InStep'
    <3>1. AtRest /\ Done(call.done)
      BY <1>1, <1>2, <2>3 DEF InStep
    <3>2. Done(call.count)'
      BY <1>2, <1>3, <2>1, <3>1 DEF Done, Good, Boundary
    <3> QED
      BY <2>1, <3>1, <3>2 DEF InStep, AtRest
  <2> QED
    BY <2>1, <2>2, <2>3 DEF DiskInv
<1>4. CASE call.done # call.count
  <2> DEFINE n == Batch(call.count - call.done)
  <2>1. /\ call' = [call EXCEPT !.batch = n, !.s = 0] /\ pc' = "poll" /\ UNCHANGED result
        /\ drive' = IF ~AtRest THEN drive
                    ELSE [Idle EXCEPT !.bsy = TRUE, !.op = call.op, !.at = call.lba + call.done,
                                      !.left = Requested(Register(n))]
    BY <1>4 DEF Command, Target
  <2>2. /\ call.op \in Ops /\ call.lba \in Nat /\ call.count \in Nat /\ call.done \in Nat
        /\ call.done < call.count /\ Boundary(call.done) /\ call.op # "none"
        /\ call.lba + call.count <= Sectors
    BY <1>1, <1>2, <1>4 DEF TypeOK, Calls, CallOK
  <2>3. n \in Nat \ {0} /\ call.done + n <= call.count /\ Requested(Register(n)) = n
    BY <2>2, BatchEnds DEF Boundary
  <2> HIDE DEF n
  <2>4. /\ call' \in Calls /\ call'.op = call.op /\ call'.lba = call.lba /\ call'.count = call.count
        /\ call'.done = call.done /\ call'.batch = n /\ call'.s = 0 /\ call'.clean = call.clean
    BY <1>1, <2>1, <2>3 DEF TypeOK, Calls
  <2>5. CASE ~AtRest
    <3>1. drive' = drive /\ ~call.clean
      BY <1>1, <1>2, <2>1, <2>5 DEF InStep
    <3>2. TypeOK' /\ DriveOK'
      BY <1>1, <1>2, <2>1, <2>4, <3>1 DEF TypeOK, DriveOK, AtRest
    <3>3. CallOK'
      BY <1>1, <2>1, <2>2, <2>3, <2>4 DEF CallOK, Boundary, n
    <3> QED
      BY <2>4, <3>1, <3>2, <3>3 DEF DiskInv
  <2>6. CASE AtRest
    <3>1. /\ drive' \in Drives /\ drive'.bsy = TRUE /\ drive'.drq = FALSE /\ drive'.err = FALSE
          /\ drive'.op = call.op /\ drive'.at = call.lba + call.done /\ drive'.left = n
          /\ drive'.data = {}
      <4>1. PICK x \in Nat : x = call.lba + call.done
        BY <2>2
      <4>2. drive' = [bsy |-> TRUE, drq |-> FALSE, err |-> FALSE, op |-> call.op, at |-> x,
                      left |-> n, data |-> {}]
        BY <2>1, <2>3, <2>6, <4>1 DEF Idle
      <4> QED
        BY <2>2, <2>3, <4>1, <4>2 DEF Drives
    <3>2. TypeOK'
      BY <1>1, <1>2, <2>1, <2>4, <3>1 DEF TypeOK
    <3>3. DriveOK' /\ ~AtRest'
      <4>1. call.lba + call.done + n <= Sectors
        BY <2>2, <2>3, DiskAssumption
      <4> QED
        BY <2>3, <3>1, <4>1 DEF DriveOK, AtRest
    <3>4. CallOK'
      BY <1>1, <2>1, <2>2, <2>3, <2>4 DEF CallOK, Boundary, n
    <3>5. ASSUME call.clean PROVE InStep'
      <4>1. Done(call.done)
        BY <1>1, <1>2, <3>5 DEF InStep
      <4>2. PICK d : d = call.done
        OBVIOUS
      <4>3. Done(d)'
        BY <1>2, <2>4, <4>1, <4>2, DoneStands
      <4>4. AtSector(call.done + call.s, call.done + call.batch)'
        BY <2>2, <2>3, <2>4, <3>1, <3>3 DEF AtSector
      <4>5. (call.done + call.s)' = d
        BY <2>2, <2>4, <4>2
      <4>6. Done(call.done + call.s)'
        BY <4>3, <4>5 DEF Done, Good, Boundary
      <4> QED
        BY <2>1, <2>2, <2>3, <2>4, <3>1, <4>4, <4>6 DEF InStep
    <3> QED
      BY <2>4, <3>2, <3>3, <3>4, <3>5 DEF DiskInv
  <2> QED
    BY <2>5, <2>6
<1> QED
  BY <1>3, <1>4

LEMMA ATAPollInv ==
    ASSUME DiskInv, ATAPoll
    PROVE  DiskInv'
<1>1. TypeOK /\ DriveOK /\ CallOK /\ (call.clean => InStep)
  BY DEF DiskInv
<1>2. /\ pc = "poll" /\ UNCHANGED <<media, drive, failed, call, buf>>
      /\ \/ pc' = "idle" /\ result' = "error"
         \/ ~drive.err /\ drive.drq /\ pc' = "transfer" /\ result' = result
  BY DEF ATAPoll, Return, Ready, Failing
<1>3. TypeOK' /\ DriveOK' /\ CallOK'
  BY <1>1, <1>2 DEF TypeOK, DriveOK, CallOK, AtRest, Boundary
<1>4. ASSUME call.clean PROVE InStep'
  <2>1. ~AtRest => /\ drive.op = call.op /\ drive.at >= call.lba
                   /\ drive.at + drive.left <= call.lba + call.count
    BY <1>1, <1>4 DEF InStep
  <2>2. CASE pc' = "idle" /\ result' = "error"
    BY <1>2, <2>1, <2>2 DEF InStep, AtRest
  <2>3. CASE ~drive.err /\ drive.drq /\ pc' = "transfer"
    <3>1. AtSector(call.done + call.s, call.done + call.batch) /\ Done(call.done + call.s)
      BY <1>1, <1>2, <1>4, <2>3 DEF InStep, DriveOK, Writing, AtRest
    <3>2. AtSector(call.done + call.s, call.done + call.batch)' /\ Done(call.done + call.s)'
      BY <1>2, <3>1 DEF AtSector, AtRest, Done, Good, Boundary
    <3> QED
      BY <1>2, <2>1, <2>3, <3>2 DEF InStep, AtRest
  <2> QED
    BY <1>2, <2>2, <2>3
<1> QED
  BY <1>2, <1>3, <1>4 DEF DiskInv

LEMMA WritesOn ==
    ASSUME pc' = "poll", call'.op = "write", NEW m, call'.done + call'.batch = m,
           NEW k, call'.done + call'.s = k, k > call'.done,
           NEW n, n = k - 1, Writing(n, m)', Done(n)', drive'.op = call'.op,
           drive'.at >= call'.lba, drive'.at + drive'.left <= call'.lba + call'.count
    PROVE  InStep'
  BY DEF InStep

LEMMA DoneNext ==
    ASSUME NEW n, NEW k, k = n + 1, \A i \in 0 .. k - 1 : Good(i)'
    PROVE  Done(n + 1)'
  BY DEF Done

(* A sector moves between the buffer and the drive, which are at the same place. *)
LEMMA TransferInv ==
    ASSUME DiskInv, Transfer
    PROVE  DiskInv'
<1>1. TypeOK /\ DriveOK /\ CallOK /\ (call.clean => InStep)
  BY DEF DiskInv
<1>2. pc = "transfer" /\ Moves /\ UNCHANGED <<media, failed, result>>
  BY DEF Transfer
<1>3. PICK n, m : n = call.done + call.s /\ m = call.done + call.batch
  OBVIOUS
<1>4. /\ call.op \in {"read", "write"} /\ call.lba \in Nat /\ call.count \in Nat /\ call.done \in Nat
      /\ call.batch \in Nat /\ call.s \in Nat /\ call.s < call.batch /\ call.done < call.count
      /\ call.lba + call.count <= Sectors /\ Boundary(call.done)
      /\ call.batch = Batch(call.count - call.done)
  BY <1>1, <1>2 DEF TypeOK, Calls, Ops, CallOK
<1>5. n \in Nat /\ m \in Nat /\ n < m /\ m <= call.count /\ Boundary(m)
  BY <1>3, <1>4, BatchEnds DEF Boundary
<1>6. /\ call' \in Calls /\ call'.op = call.op /\ call'.lba = call.lba /\ call'.count = call.count
      /\ call'.batch = call.batch /\ call'.s = call.s + 1 /\ call'.clean = call.clean
      /\ call'.done = IF n + 1 = m THEN m ELSE call.done
  <2>1. PICK x : x = IF n + 1 = m THEN m ELSE call.done
    OBVIOUS
  <2>2. (call.s + 1 = call.batch) <=> (n + 1 = m)
    BY <1>3, <1>4
  <2>3. call' = [call EXCEPT !.s = call.s + 1, !.done = x]
    <3>1. call' = [call EXCEPT !.s = @ + 1,
                               !.done = IF call.s + 1 = call.batch THEN call.done + call.batch ELSE @]
      BY DEF Transfer, Moved
    <3> QED
      BY <1>3, <2>1, <2>2, <3>1
  <2>4. x \in Nat /\ call.s + 1 \in Nat
    BY <1>4, <1>5, <2>1
  <2>5. call \in [op : Ops, lba : Nat, count : Nat, done : Nat, batch : Nat, s : Nat, clean : BOOLEAN]
    BY <1>1 DEF TypeOK, Calls
  <2> QED
    BY <2>1, <2>3, <2>4, <2>5 DEF Calls
<1>7. pc' = IF n + 1 # m THEN "poll" ELSE IF call.op = "write" THEN "flush" ELSE "batch"
  BY <1>3, <1>4 DEF Transfer
<1>8. /\ drive \in Drives /\ drive.drq = TRUE /\ drive.bsy = FALSE /\ drive.data = {} /\ drive.err = FALSE
      /\ drive.at \in Nat /\ drive.left \in Nat /\ drive.left > 0 /\ drive.at + drive.left <= Sectors
  BY <1>1, <1>2 DEF TypeOK, Drives, DriveOK, CallOK, AtRest
<1>9. media[drive.at] \in Values /\ buf[n] \in Values /\ n \in 0 .. call.count - 1
  <2>1. n \in 0 .. call.count - 1 /\ drive.at \in Addresses
    BY <1>4, <1>5, <1>8, DiskAssumption DEF Addresses
  <2> QED
    BY <1>1, <2>1 DEF TypeOK
<1>10. /\ CallOK'
       /\ pc' \in {"batch", "poll", "flush"} /\ call'.op = call.op
  BY <1>3, <1>4, <1>5, <1>6, <1>7 DEF CallOK, Boundary
<1>11. CASE drive.op # call.op
  <2>1. drive' = drive /\ ~call.clean
    BY <1>1, <1>8, <1>11, <1>2 DEF InStep, AtRest, Moves
  <2>2. buf' = buf \/ \E v \in Values : buf' = [buf EXCEPT ![n] = v]
    BY <1>2, <1>3, <1>4, <1>11 DEF Moves
  <2>3. buf' \in [0 .. call'.count - 1 -> Values]
    BY <1>1, <1>6, <2>2 DEF TypeOK
  <2>4. TypeOK' /\ DriveOK'
    BY <1>1, <1>2, <1>6, <1>10, <2>1, <2>3 DEF TypeOK, DriveOK, AtRest
  <2> QED
    BY <1>6, <1>10, <2>1, <2>4 DEF DiskInv
<1>12. CASE drive.op = "read" /\ call.op = "read"
  <2>1. /\ buf' = [buf EXCEPT ![n] = media[drive.at]]
        /\ drive' = IF drive.left = 1 THEN Idle
                    ELSE [drive EXCEPT !.drq = FALSE, !.bsy = TRUE, !.at = drive.at + 1,
                                       !.left = drive.left - 1]
    BY <1>2, <1>3, <1>12 DEF Moves
  <2>2. buf' \in [0 .. call'.count - 1 -> Values]
    BY <1>1, <1>6, <1>9, <2>1 DEF TypeOK
  <2>3. CASE drive.left = 1
    <3>1. drive' \in Drives /\ AtRest' /\ drive'.data = {} /\ ~drive'.err
      BY <2>1, <2>3 DEF Idle, Drives, Ops, AtRest
    <3>2. TypeOK' /\ DriveOK'
      BY <1>1, <1>2, <1>6, <1>10, <2>2, <3>1 DEF TypeOK, DriveOK, AtRest
    <3>3. ASSUME call.clean PROVE InStep'
      <4>1. AtSector(n, m) /\ Done(n)
        BY <1>1, <1>2, <1>3, <3>3 DEF InStep
      <4>2. n + 1 = m /\ drive.at = call.lba + n
        BY <1>5, <2>3, <4>1 DEF AtSector
      <4>3. \A i \in 0 .. n : buf'[i] = media[call.lba + i]
        <5> SUFFICES ASSUME NEW i \in 0 .. n PROVE buf'[i] = media[call.lba + i]
          OBVIOUS
        <5>1. /\ buf \in [0 .. call.count - 1 -> Values]
              /\ i \in 0 .. call.count - 1
          BY <1>1, <1>4, <1>5 DEF TypeOK
        <5>2. CASE i = n
          BY <2>1, <4>2, <5>1, <5>2
        <5>3. CASE i # n
          <6>1. i \in 0 .. n - 1
            BY <1>5, <5>3
          <6>2. buf[i] = media[call.lba + i]
            BY <1>12, <4>1, <6>1 DEF Done, Good
          <6> QED
            BY <2>1, <5>1, <5>3, <6>2
        <5> QED
          BY <5>2, <5>3
      <4>5. media' = media /\ call'.op = "read" /\ call'.lba = call.lba
        BY <1>2, <1>6, <1>12
      <4>6. \A i \in 0 .. m - 1 : i \in 0 .. n
        BY <1>5, <4>2
      <4>7. Done(m)'
        BY <4>3, <4>5, <4>6 DEF Done, Good
      <4>4. Done(call.done)'
        BY <1>6, <4>2, <4>7 DEF Done, Good, Boundary
      <4> QED
        BY <1>7, <1>12, <3>1, <4>2, <4>4 DEF InStep
    <3> QED
      BY <1>6, <1>10, <3>2, <3>3 DEF DiskInv
  <2>4. CASE drive.left # 1
    <3>1. /\ drive' \in Drives /\ drive'.bsy = TRUE /\ drive'.drq = FALSE /\ drive'.data = {}
          /\ drive'.err = FALSE /\ drive'.op = drive.op
          /\ drive'.at = drive.at + 1 /\ drive'.left = drive.left - 1
      <4>1. PICK a, b : a = drive.at + 1 /\ b = drive.left - 1
        OBVIOUS
      <4>2. a \in Nat /\ b \in Nat
        BY <1>8, <2>4, <4>1
      <4>3. drive' = [drive EXCEPT !.drq = FALSE, !.bsy = TRUE, !.at = a, !.left = b]
        BY <2>1, <2>4, <4>1
      <4> QED
        BY <1>8, <4>1, <4>2, <4>3 DEF Drives
    <3>2. TypeOK' /\ DriveOK' /\ ~AtRest'
      BY <1>1, <1>2, <1>6, <1>8, <1>10, <2>2, <2>4, <3>1 DEF TypeOK, DriveOK, AtRest
    <3>3. ASSUME call.clean PROVE InStep'
      <4>1. /\ AtSector(n, m) /\ Done(n) /\ drive.at >= call.lba
            /\ drive.at + drive.left <= call.lba + call.count
        BY <1>1, <1>2, <1>3, <1>8, <3>3 DEF InStep, AtRest
      <4>2. n + 1 # m /\ drive.at = call.lba + n /\ drive.left = m - n
        BY <1>5, <2>4, <4>1 DEF AtSector
      <4>3. Done(n + 1)'
        <5> PICK k : k = n + 1
          OBVIOUS
        <5> SUFFICES ASSUME NEW i \in 0 .. k - 1 PROVE Good(i)'
          BY DoneNext
        <5>1. i \in 0 .. n
          BY <1>5
        <5>2. Good(i)'
          <6>1. buf' = [buf EXCEPT ![n] = media[call.lba + n]] /\ buf \in [0 .. call.count - 1 -> Values]
            BY <1>1, <2>1, <4>2 DEF TypeOK
          <6>2. i # n => buf[i] = media[call.lba + i]
            BY <1>5, <1>12, <4>1, <5>1 DEF Done, Good
          <6>3. buf'[i] = media[call.lba + i]
            BY <1>5, <1>9, <5>1, <6>1, <6>2
          <6> QED
            BY <1>2, <1>6, <1>12, <6>3 DEF Good
        <5> QED
          BY <5>2
      <4>4. call'.done + call'.s = n + 1 /\ call'.done + call'.batch = m
        BY <1>3, <1>4, <1>6, <4>2
      <4>5. AtSector(n + 1, m)'
        BY <1>4, <1>5, <1>6, <3>1, <3>2, <4>2 DEF AtSector
      <4>6. AtSector(call.done + call.s, call.done + call.batch)' /\ Done(call.done + call.s)'
        BY <4>3, <4>4, <4>5 DEF AtSector, Done, Good, Boundary
      <4>7. drive'.at >= call'.lba /\ drive'.at + drive'.left <= call'.lba + call'.count
        BY <1>4, <1>6, <1>8, <3>1, <4>1
      <4> QED
        BY <1>6, <1>7, <1>12, <3>1, <4>2, <4>6, <4>7 DEF InStep
    <3> QED
      BY <1>6, <1>10, <3>2, <3>3 DEF DiskInv
  <2> QED
    BY <2>3, <2>4
<1>13. CASE drive.op = "write" /\ call.op = "write"
  <2>1. /\ drive' = [drive EXCEPT !.drq = FALSE, !.bsy = TRUE, !.data = {buf[n]}]
        /\ UNCHANGED buf
    BY <1>2, <1>3, <1>13 DEF Moves
  <2>2. /\ drive' \in Drives /\ drive'.bsy = TRUE /\ drive'.drq = FALSE /\ drive'.data = {buf[n]}
        /\ drive'.err = FALSE /\ drive'.op = "write" /\ drive'.at = drive.at /\ drive'.left = drive.left
    BY <1>8, <1>9, <1>13, <2>1 DEF Drives
  <2>3. TypeOK' /\ DriveOK'
    BY <1>1, <1>2, <1>6, <1>8, <1>10, <2>1, <2>2 DEF TypeOK, DriveOK, AtRest
  <2>4. ASSUME call.clean PROVE InStep'
    <3>1. /\ AtSector(n, m) /\ Done(n) /\ drive.at >= call.lba
          /\ drive.at + drive.left <= call.lba + call.count
      BY <1>1, <1>2, <1>3, <1>8, <2>4 DEF InStep, AtRest
    <3>2. Writing(n, m)' /\ Done(n)'
      BY <1>2, <1>6, <2>1, <2>2, <3>1 DEF AtSector, Writing, Done, Good, Boundary
    <3>3. drive'.at >= call'.lba /\ drive'.at + drive'.left <= call'.lba + call'.count /\ drive'.op = call'.op
      BY <1>6, <1>13, <2>2, <3>1
    <3>4. CASE n + 1 = m
      <4>1. call'.done - 1 = n /\ call'.done = m
        BY <1>5, <1>6, <3>4
      <4>2. Writing(call.done - 1, call.done)' /\ Done(call.done - 1)'
        BY <3>2, <4>1 DEF Writing, Done, Good, Boundary
      <4> QED
        BY <1>7, <1>13, <3>3, <3>4, <4>2 DEF InStep
    <3>5. CASE n + 1 # m
      <4>2. pc' = "poll" /\ call'.op = "write"
        BY <1>6, <1>7, <1>13, <3>5
      <4>3. PICK k : k = call'.done + call'.s
        OBVIOUS
      <4>4. call'.done + call'.batch = m /\ n = k - 1 /\ k > call'.done
        <5>1. call'.done = call.done /\ call'.s = call.s + 1 /\ call'.batch = call.batch
          BY <1>6, <3>5
        <5>2. k = call.done + (call.s + 1)
          BY <4>3, <5>1
        <5> QED
          BY <1>3, <1>4, <5>1, <5>2
      <4> QED
        BY <3>2, <3>3, <4>2, <4>3, <4>4, WritesOn
    <3> QED
      BY <3>4, <3>5
  <2> QED
    BY <1>6, <1>10, <2>3, <2>4 DEF DiskInv
<1> QED
  BY <1>2, <1>11, <1>12, <1>13 DEF Moves

LEMMA FlushInv ==
    ASSUME DiskInv, Flush
    PROVE  DiskInv'
<1>1. TypeOK /\ DriveOK /\ CallOK /\ (call.clean => InStep)
  BY DEF DiskInv
<1>2. /\ pc = "flush" /\ pc' = "batch" /\ ~drive.bsy /\ UNCHANGED <<media, failed, call, buf, result>>
      /\ drive' = IF AtRest THEN Idle ELSE drive
  BY DEF Flush, Flushed
<1>3. /\ drive' \in Drives /\ (AtRest' <=> AtRest) /\ (AtRest \/ drive' = drive)
      /\ AtRest => drive'.data = {} /\ ~drive'.err
  BY <1>1, <1>2 DEF Idle, Drives, Ops, AtRest, TypeOK
<1>4. TypeOK' /\ DriveOK' /\ CallOK'
  BY <1>1, <1>2, <1>3 DEF TypeOK, DriveOK, CallOK, AtRest, Boundary
<1>5. ASSUME call.clean PROVE InStep'
  <2>1. AtRest /\ Done(call.done)
    BY <1>1, <1>2, <1>5 DEF InStep, Writing
  <2>2. Done(call.done)'
    BY <1>2, <2>1 DEF Done, Good, Boundary
  <2> QED
    BY <1>2, <1>3, <2>1, <2>2 DEF InStep
<1> QED
  BY <1>2, <1>4, <1>5 DEF DiskInv

\* A step of the drive leaves the driver alone.
LEMMA DriverStands ==
    ASSUME TypeOK, CallOK, UNCHANGED <<call, buf, pc, result>>, drive' \in Drives,
           media' \in [Addresses -> Values], drive.bsy, DriveOK
    PROVE  TypeOK' /\ CallOK' /\ pc # "transfer"
  BY DEF TypeOK, CallOK, Boundary, DriveOK

LEMMA DriveReadyInv ==
    ASSUME DiskInv, DriveReady
    PROVE  DiskInv'
<1>1. TypeOK /\ DriveOK /\ CallOK /\ (call.clean => InStep)
  BY DEF DiskInv
<1>2. /\ drive.bsy /\ drive.data = {} /\ drive' = [drive EXCEPT !.bsy = FALSE, !.drq = TRUE]
      /\ UNCHANGED <<media, failed, call, buf, pc, result>>
  BY DEF DriveReady
<1>3. /\ drive' \in Drives /\ drive'.bsy = FALSE /\ drive'.drq = TRUE /\ drive'.err = drive.err
      /\ drive'.op = drive.op /\ drive'.at = drive.at /\ drive'.left = drive.left /\ drive'.data = {}
  BY <1>1, <1>2 DEF TypeOK, Drives
<1>4. ~AtRest /\ ~AtRest' /\ ~drive.err
  BY <1>1, <1>2, <1>3 DEF AtRest, DriveOK
<1>5. TypeOK' /\ CallOK' /\ pc # "transfer"
  BY <1>1, <1>2, <1>3, DriverStands DEF TypeOK
<1>6. DriveOK'
  BY <1>1, <1>3, <1>4 DEF DriveOK
<1>7. ASSUME call.clean PROVE InStep'
  <2>1. /\ drive'.op = call'.op /\ drive'.at >= call'.lba
        /\ drive'.at + drive'.left <= call'.lba + call'.count
    BY <1>1, <1>2, <1>3, <1>4, <1>7 DEF InStep
  <2>2. pc = "idle" \/ pc = "poll"
    BY <1>1, <1>2, <1>4, <1>5, <1>7 DEF InStep, TypeOK, Writing
  <2>3. CASE pc = "idle"
    BY <1>1, <1>2, <1>4, <1>7, <2>1, <2>3 DEF InStep
  <2>4. CASE pc = "poll"
    <3>1. PICK n, m : n = call.done + call.s /\ m = call.done + call.batch
      OBVIOUS
    <3>2. AtSector(n, m) /\ Done(n)
      BY <1>1, <1>2, <1>4, <1>7, <2>4, <3>1 DEF InStep, Writing
    <3>3. AtSector(n, m)' /\ Done(n)'
      BY <1>2, <1>3, <1>4, <3>2 DEF AtSector, Done, Good, Boundary
    <3>4. n = call'.done + call'.s /\ m = call'.done + call'.batch
      BY <1>2, <3>1
    <3> QED
      BY <1>2, <2>1, <2>4, <3>3, <3>4 DEF InStep
  <2> QED
    BY <2>2, <2>3, <2>4
<1> QED
  BY <1>2, <1>5, <1>6, <1>7 DEF DiskInv

\* Where the drive writes in a clean call: the sector before the one the driver
\* is at, and what the buffer has for it.
LEMMA WritesWhere ==
    ASSUME DiskInv, call.clean, drive.bsy, drive.data # {}
    PROVE  \/ pc = "idle" /\ result # "ok"
           \/ /\ pc = "poll"
              /\ LET n == call.done + call.s
                 IN n > call.done /\ Writing(n - 1, call.done + call.batch) /\ Done(n - 1)
           \/ pc = "flush" /\ Writing(call.done - 1, call.done) /\ Done(call.done - 1)
<1>1. TypeOK /\ DriveOK /\ CallOK /\ InStep
  BY DEF DiskInv
<1>2. ~AtRest /\ ~drive.drq
  BY <1>1 DEF AtRest, DriveOK
<1> QED
  BY <1>1, <1>2 DEF InStep, AtSector, TypeOK

LEMMA DriveWritesInv ==
    ASSUME DiskInv, DriveWrites
    PROVE  DiskInv'
<1>1. TypeOK /\ DriveOK /\ CallOK /\ (call.clean => InStep)
  BY DEF DiskInv
<1>2. PICK v \in drive.data :
          /\ drive.bsy /\ media' = [media EXCEPT ![drive.at] = v]
          /\ drive' = IF drive.left = 1 THEN Idle
                      ELSE [drive EXCEPT !.bsy = FALSE, !.drq = TRUE, !.data = {},
                                         !.at = drive.at + 1, !.left = drive.left - 1]
          /\ UNCHANGED <<failed, call, buf, pc, result>>
  BY DEF DriveWrites
<1>3. /\ drive.op = "write" /\ v \in Values /\ drive.at \in Nat /\ drive.left \in Nat /\ drive.left > 0
      /\ drive.at + drive.left <= Sectors /\ ~AtRest /\ ~drive.drq /\ drive.err = FALSE
  BY <1>1, <1>2 DEF TypeOK, Drives, DriveOK, AtRest
<1>4. /\ drive' \in Drives /\ drive'.data = {} /\ drive'.bsy = FALSE /\ drive'.err = FALSE
      /\ drive.left = 1 => drive'.drq = FALSE
      /\ drive.left # 1 => /\ drive'.drq = TRUE /\ drive'.op = "write" /\ drive'.at = drive.at + 1
                           /\ drive'.left = drive.left - 1
  <2>1. CASE drive.left = 1
    BY <1>2, <2>1 DEF Idle, Drives, Ops
  <2>2. CASE drive.left # 1
    <3>1. PICK a, b : a = drive.at + 1 /\ b = drive.left - 1
      OBVIOUS
    <3>2. a \in Nat /\ b \in Nat
      BY <1>3, <2>2, <3>1
    <3>3. drive' = [drive EXCEPT !.bsy = FALSE, !.drq = TRUE, !.data = {}, !.at = a, !.left = b]
      BY <1>2, <2>2, <3>1
    <3> QED
      BY <1>1, <1>3, <2>2, <3>1, <3>2, <3>3 DEF TypeOK, Drives
  <2> QED
    BY <2>1, <2>2
<1>5. drive.at \in Addresses /\ media' \in [Addresses -> Values]
  <2>1. drive.at \in Addresses
    BY <1>3, DiskAssumption DEF Addresses
  <2> QED
    BY <1>1, <1>2, <1>3, <2>1 DEF TypeOK
<1>6. TypeOK' /\ CallOK' /\ pc # "transfer"
  BY <1>1, <1>2, <1>4, <1>5, DriverStands
<1>7. DriveOK' /\ (AtRest' <=> drive.left = 1)
  BY <1>3, <1>4 DEF DriveOK, AtRest
<1>8. ASSUME call.clean PROVE InStep'
  <2>1. /\ drive.op = call.op /\ drive.at >= call.lba /\ drive.at + drive.left <= call.lba + call.count
    BY <1>1, <1>3, <1>8 DEF InStep
  <2>2. ~AtRest' => /\ drive'.op = call'.op /\ drive'.at >= call'.lba
                    /\ drive'.at + drive'.left <= call'.lba + call'.count
    <3>1. call.lba \in Nat /\ call.count \in Nat
      BY <1>1 DEF TypeOK, Calls
    <3> QED
      BY <1>2, <1>3, <1>4, <1>7, <2>1, <3>1
  <2>3. ASSUME NEW k \in Nat, NEW m \in Nat, k < call.count, Writing(k, m), Done(k)
        PROVE  Done(k + 1)' /\ m - k = drive.left /\ drive.at = call.lba + k
    <3>1. v = buf[k] /\ drive.at = call.lba + k /\ drive.left = m - k
      BY <1>2, <2>3 DEF Writing
    <3>2. PICK n : n = k + 1
      OBVIOUS
    <3>3. ASSUME NEW i \in 0 .. n - 1 PROVE Good(i)'
      <4>1. CASE i = k
        <5>1. media'[call.lba + i] = buf[i]
          BY <1>1, <1>2, <1>5, <3>1, <4>1 DEF TypeOK
        <5> QED
          BY <1>2, <1>3, <2>1, <5>1 DEF Good
      <4>2. CASE i # k
        <5>1. i \in 0 .. k - 1 /\ i \in Int /\ call.lba \in Nat
          BY <1>1, <2>3, <3>2, <4>2 DEF TypeOK, Calls
        <5>2. Good(i) /\ call.lba + i # drive.at
          BY <2>3, <3>1, <5>1 DEF Done
        <5>3. media'[call.lba + i] = media[call.lba + i]
          BY <1>1, <1>2, <5>2 DEF TypeOK
        <5> QED
          BY <1>2, <1>3, <2>1, <5>2, <5>3 DEF Good, Boundary
      <4> QED
        BY <4>1, <4>2
    <3> QED
      BY <3>1, <3>2, <3>3, DoneNext
  <2>4. /\ call.done \in Nat /\ call.s \in Nat /\ call.batch \in Nat /\ call.count \in Nat
        /\ call.done <= call.count
    BY <1>1 DEF TypeOK, Calls, CallOK
  <2>5. CASE pc = "idle" /\ result # "ok"
    BY <1>2, <2>2, <2>5 DEF InStep
  <2>6. ASSUME pc = "poll", NEW n, n = call.done + call.s, n > call.done,
               Writing(n - 1, call.done + call.batch), Done(n - 1)
        PROVE  InStep'
    <3>1. PICK k, m : k = n - 1 /\ m = call.done + call.batch
      OBVIOUS
    <3>2. k \in Nat /\ m \in Nat /\ k < call.count /\ n = k + 1 /\ n < m
      <4>1. call.s < call.batch /\ call.batch = Batch(call.count - call.done)
            /\ call.done < call.count /\ Boundary(call.done)
        BY <1>1, <2>6 DEF CallOK
      <4>2. call.done + call.batch <= call.count
        BY <2>4, <4>1, BatchEnds DEF Boundary
      <4> QED
        BY <2>4, <2>6, <3>1, <4>1, <4>2
    <3>3. Writing(k, m) /\ Done(k)
      BY <2>6, <3>1
    <3>4. Done(k + 1)' /\ m - k = drive.left /\ drive.at = call.lba + k
      BY <2>3, <3>2, <3>3
    <3>5. drive.left # 1
      BY <3>2, <3>4
    <3>6. AtSector(n, m)'
      <4>1. call.lba \in Nat
        BY <1>1 DEF TypeOK, Calls
      <4> QED
        BY <1>2, <1>3, <1>4, <1>7, <3>2, <3>4, <3>5, <4>1 DEF AtSector
    <3>7. Done(n)'
      BY <3>2, <3>4
    <3>8. n = call'.done + call'.s /\ m = call'.done + call'.batch /\ pc' = "poll"
      BY <1>2, <2>6, <3>1
    <3> QED
      BY <2>2, <3>6, <3>7, <3>8 DEF InStep
  <2>7. ASSUME pc = "flush", Writing(call.done - 1, call.done), Done(call.done - 1)
        PROVE  InStep'
    <3>1. PICK k, m : k = call.done - 1 /\ m = call.done
      OBVIOUS
    <3>2. k \in Nat /\ m \in Nat /\ k < call.count /\ k + 1 = m
      BY <1>1, <2>4, <2>7, <3>1 DEF CallOK
    <3>3. Writing(k, m) /\ Done(k)
      BY <2>7, <3>1
    <3>4. Done(k + 1)' /\ m - k = drive.left
      BY <2>3, <3>2, <3>3
    <3>5. AtRest' /\ Done(m)' /\ m = call'.done /\ pc' = "flush"
      BY <1>2, <1>7, <2>7, <3>1, <3>2, <3>4
    <3> QED
      BY <3>5 DEF InStep
  <2>8. drive.data # {}
    BY <1>2
  <2> QED
    BY <1>2, <1>8, <2>5, <2>6, <2>7, <2>8, WritesWhere
<1> QED
  BY <1>2, <1>6, <1>7, <1>8 DEF DiskInv

LEMMA DriveFailsInv ==
    ASSUME DiskInv, DriveFails
    PROVE  DiskInv'
<1>1. TypeOK /\ DriveOK /\ CallOK /\ (call.clean => InStep)
  BY DEF DiskInv
<1>2. /\ drive.bsy /\ drive' = [Idle EXCEPT !.err = TRUE]
      /\ failed' = IF drive.data = {} THEN failed ELSE failed \cup {drive.at}
      /\ UNCHANGED <<media, call, buf, pc, result>>
  BY DEF DriveFails
<1>3. /\ drive' \in Drives /\ drive'.data = {} /\ drive'.bsy = FALSE /\ drive'.drq = FALSE
      /\ drive'.err = TRUE
  BY <1>2 DEF Idle, Drives, Ops
<1>4. ~AtRest /\ AtRest'
  BY <1>2, <1>3 DEF AtRest
<1>5. TypeOK' /\ CallOK' /\ pc # "transfer"
  BY <1>1, <1>2, <1>3, DriverStands DEF TypeOK
<1>6. DriveOK'
  BY <1>3, <1>4 DEF DriveOK
<1>7. ASSUME call.clean PROVE InStep'
  <2>1. pc = "poll" \/ pc = "flush" \/ (pc = "idle" /\ result # "ok")
    BY <1>1, <1>4, <1>5, <1>7 DEF InStep, TypeOK
  <2>2. CASE pc # "flush"
    BY <1>2, <1>3, <1>4, <2>1, <2>2 DEF InStep
  <2>3. CASE pc = "flush"
    <3>1. PICK k, m : k = call.done - 1 /\ m = call.done
      OBVIOUS
    <3>2. Writing(k, m) /\ Done(k)
      BY <1>1, <1>4, <1>7, <2>3, <3>1 DEF InStep
    <3>3. /\ k \in Nat /\ m \in Nat /\ m = k + 1 /\ call.op = "write" /\ Boundary(m)
      BY <1>1, <2>3, <3>1 DEF CallOK, TypeOK, Calls
    <3>4. call.lba + k \in failed'
      BY <1>2, <3>2 DEF Writing
    <3>5. ASSUME NEW i \in 0 .. m - 1 PROVE Good(i)'
      <4>1. CASE i = k
        BY <1>2, <3>3, <3>4, <4>1 DEF Good, Boundary
      <4>2. CASE i # k
        <5>1. Good(i)
          BY <3>2, <3>3, <4>2 DEF Done
        <5>2. failed \subseteq failed'
          BY <1>2
        <5> QED
          BY <1>2, <5>1, <5>2 DEF Good, Boundary
      <4> QED
        BY <4>1, <4>2
    <3>6. Done(m)'
      BY <3>3, <3>5, DoneNext
    <3>7. m = call'.done /\ pc' = "flush"
      BY <1>2, <2>3, <3>1
    <3> QED
      BY <1>4, <3>6, <3>7 DEF InStep
  <2> QED
    BY <2>2, <2>3
<1> QED
  BY <1>2, <1>5, <1>6, <1>7 DEF DiskInv

LEMMA DiskStep == DiskInv /\ [Next]_vars => DiskInv'
<1> SUFFICES ASSUME DiskInv, [Next]_vars PROVE DiskInv'
  OBVIOUS
<1>1. CASE BlkDevRead
  <2>1. PICK lba \in Addresses, count \in 0 .. MaxCount, v \in Values :
            Begin("read", lba, count, [i \in 0 .. count - 1 |-> v])
    BY <1>1 DEF BlkDevRead
  <2>2. count \in Nat /\ [i \in 0 .. count - 1 |-> v] \in [0 .. count - 1 -> Values]
    BY DiskAssumption
  <2> QED
    BY <2>1, <2>2, BeginInv
<1>2. CASE BlkDevWrite
  <2>1. PICK lba \in Addresses, count \in 0 .. MaxCount :
            \E data \in [0 .. count - 1 -> Values] : Begin("write", lba, count, data)
    BY <1>2 DEF BlkDevWrite
  <2>2. count \in Nat
    BY DiskAssumption
  <2> QED
    BY <2>1, <2>2, BeginInv
<1>3. CASE Driver
  BY <1>3, CommandInv, ATAPollInv, TransferInv, FlushInv DEF Driver
<1>4. CASE Drive
  BY <1>4, DriveReadyInv, DriveWritesInv, DriveFailsInv DEF Drive
<1>5. CASE UNCHANGED vars
  BY <1>5 DEF vars, DiskInv, TypeOK, DriveOK, CallOK, InStep, AtRest, AtSector, Writing, Done, Good, Boundary
<1> QED
  BY <1>1, <1>2, <1>3, <1>4, <1>5 DEF Next

LEMMA DiskInvariance == Spec => []DiskInv
  BY DiskInit, DiskStep, PTL DEF Spec

\* Whatever the size of the disk and of a command, wherever a call is cut and
\* whatever failed before it: a clean call that reports success has moved every
\* sector, but for the last of a command, which the drive may have failed to
\* write (kernel/blockdev.c:29-40, dev/ata.c:112-213).
THEOREM SpecTransferExact == Spec => []TransferExact
<1>1. ASSUME DiskInv PROVE TransferExact
  BY <1>1 DEF DiskInv, InStep, Done, Good, Boundary, TransferExact, ReadExact, WriteExact
<1> QED
  BY <1>1, DiskInvariance, PTL

\* And the drive is at rest for the next call (dev/ata.c:177-179).
THEOREM SpecQuietAfterSuccess == Spec => []QuietAfterSuccess
<1>1. DiskInv => QuietAfterSuccess
  BY DEF DiskInv, InStep, QuietAfterSuccess
<1> QED
  BY <1>1, DiskInvariance, PTL

\* At whatever time the drive gets to it, it changes a sector of the call and
\* only for a write (dev/ata.c:80-102, 146-213).
THEOREM SpecChangesOnlyInRange == Spec => ChangesOnlyInRange
<1>1. ASSUME DiskInv, [Next]_vars, call.clean, NEW l \in Addresses, media'[l] # media[l]
      PROVE  call.op = "write" /\ l \in call.lba .. call.lba + call.count - 1
  <2>1. media' # media
    BY <1>1
  <2>2. PICK v \in drive.data : drive.bsy /\ media' = [media EXCEPT ![drive.at] = v]
    BY <1>1, <2>1 DEF Next, BlkDevRead, BlkDevWrite, Begin, Driver, Command, ATAPoll, Transfer, Flush,
                      Drive, DriveReady, DriveWrites, DriveFails, vars
  <2>3. TypeOK /\ DriveOK /\ InStep
    BY <1>1 DEF DiskInv
  <2>4. l = drive.at
    BY <1>1, <2>2, <2>3 DEF TypeOK
  <2>5. ~AtRest /\ drive.op = "write"
    BY <2>2, <2>3 DEF AtRest, DriveOK
  <2> QED
    BY <2>3, <2>4, <2>5 DEF InStep, DriveOK, TypeOK, Drives, Calls
<1>2. DiskInv /\ [Next]_vars =>
          [call.clean =>
               \A l \in Addresses : media'[l] # media[l] =>
                   call.op = "write" /\ l \in call.lba .. call.lba + call.count - 1]_vars
  BY <1>1
<1> QED
  BY <1>2, DiskInvariance, PTL DEF Spec, ChangesOnlyInRange
=============================================================================
