-------------------------------- MODULE Disk --------------------------------
(***************************************************************************)
(* The disk path below the file system: block_read and block_write         *)
(* (drivers/block.c) and the ATA driver behind them (drivers/ata.c).       *)
(*                                                                         *)
(* A request is cut into commands of at most DkChunk sectors.  A command   *)
(* goes by bus-master DMA through a bounce buffer described by a table of  *)
(* regions that may not cross a DkWindow boundary of physical memory; the  *)
(* first DMA failure turns DMA off for good and the command is repeated    *)
(* with programmed I/O.  One unit of memory is one sector.                 *)
(***************************************************************************)
EXTENDS Integers, Sequences, SequencesExt, FiniteSets

CONSTANTS
    DkSectors,   \* sectors of the disk
    DkChunk,     \* sectors of the longest command (255)
    DkFrames,    \* sectors the bounce buffer holds (ATA_DMA_BUFFER_BYTES / 512)
    DkWindow,    \* sectors between two 64 KiB boundaries of physical memory
    DkPrds,      \* entries of the region table (ATA_DMA_PRD_MAX)
    DkPlaces,    \* where the frame allocator may put the bounce buffer
    DkKits,      \* the controllers the machine may have
    DkLimits,    \* values of block_device_t.sector_count (0: not known)
    DkCalls,     \* requests of one behaviour
    DkFaults     \* commands that may fail in one behaviour

VARIABLES
    dk,      \* the driver: dma (s_dma_enabled), at (s_dma_buf_phys), ready
    dkMem,   \* physical memory
    dkDisk,  \* the sectors of the disk
    dkReq,   \* the request in progress, or the last one
    dkKit,   \* the controller of this machine and what the allocator gives
    dkFaulty, dkLeft

dkVars == <<dk, dkMem, dkDisk, dkReq, dkKit, dkFaulty, dkLeft>>

Lbas == 0..(DkSectors - 1)

\* Physical memory the bounce buffer may lie in, whole windows.
Memory == 0..(DkWindow * (2 + (DkFrames \div DkWindow)) - 1)

\* The sectors lba, lba + 1, ... of one request.
Run(lba, count) == lba..(lba + count - 1)

(***************************************************************************)
(* Bringing the driver up.                                                 *)
(***************************************************************************)

\* ata_find_ide_controller and the checks of ata_dma_try_init: DMA needs an
\* IDE controller whose BAR4 is an I/O range that is not 0, and both
\* allocations (what one gave is returned when the other fails).
DmaTryInit(kit) ==
    /\ kit.controller /\ kit.bar4 = "io"
    /\ kit.buffer >= 0 /\ kit.table

\* ata_init: a drive that stays busy after the reset is not used.
AtaInit(kit) ==
    [ready |-> kit.drive,
     dma   |-> kit.drive /\ DmaTryInit(kit),
     at    |-> IF kit.drive /\ DmaTryInit(kit) THEN kit.buffer ELSE 0]

(***************************************************************************)
(* The region table and the engine that follows it.                        *)
(***************************************************************************)

\* ata_dma_build_prdt: one entry up to the next boundary, then whole windows.
DmaBuildPrdt(phys, count) ==
    LET first == IF count > DkWindow - (phys % DkWindow)
                 THEN DkWindow - (phys % DkWindow) ELSE count
        rest  == count - first
        full  == rest \div DkWindow
        size(i) == IF i = 1 THEN first
                   ELSE IF i <= full + 1 THEN DkWindow ELSE rest % DkWindow
        n == 1 + full + (IF rest % DkWindow > 0 THEN 1 ELSE 0)
    IN [i \in 1..n |->
          [base  |-> IF i = 1 THEN phys ELSE phys + first + ((i - 2) * DkWindow),
           count |-> size(i)]]

\* External: the address of each unit the engine visits.  Inside an entry the
\* low bits of the address wrap at the boundary.
Visited(entry) ==
    [k \in 1..entry.count |->
        (entry.base - (entry.base % DkWindow)) +
        (((entry.base % DkWindow) + k - 1) % DkWindow)]
EngineOrder(table) ==
    FoldLeft(LAMBDA s, e : s \o Visited(e), <<>>, table)

(***************************************************************************)
(* One command.  fault is how far the drive gets: -1 it stays busy, n in   *)
(* 0..count it reports an error, a fault or nothing more after n sectors,  *)
(* count + 1 it does all that was asked.  It reports an error at the end   *)
(* of the disk by itself.                                                  *)
(***************************************************************************)

\* External: the drive's own limit.
DkReached(lba, count, fault) ==
    IF lba + count <= DkSectors \/ fault < DkSectors - lba THEN fault
    ELSE IF lba >= DkSectors THEN 0 ELSE DkSectors - lba

\* ata_poll_bsy, ata_poll_drq, ata_poll_complete and ata_dma_wait: the answer.
Completed(count, fault) == fault = count + 1
Moved(count, fault) == IF fault < 0 THEN 0 ELSE IF fault > count THEN count ELSE fault

\* What the sectors hold after the first n of them took data.
Written(disk, lba, data, n) ==
    [l \in DOMAIN disk |-> IF l \in Run(lba, n) THEN data[l - lba + 1] ELSE disk[l]]

\* The caller's buffer after its places from + 1 .. from + n were filled.
Filled(buf, from, data, n) ==
    [i \in DOMAIN buf |-> IF i > from /\ i <= from + n THEN data[i - from] ELSE buf[i]]

\* The sectors a command reads.
SectorsAt(disk, lba, n) == [i \in 1..n |-> disk[lba + i - 1]]

\* ata_dma_transfer with ata_select_lba28: m is [mem, disk, buf, ok].
DmaTransfer(m, op, lba, from, count, fault) ==
    LET data  == SubSeq(m.buf, from + 1, from + count)
        copy  == [a \in DOMAIN m.mem |->
                    IF op = "write" /\ a \in Run(dk.at, count)
                    THEN data[a - dk.at + 1] ELSE m.mem[a]]
        table == DmaBuildPrdt(dk.at, count)
        order == EngineOrder(table)
        f     == DkReached(lba, count, fault)
        n     == Moved(count, f)
        good  == Completed(count, f)
        into  == [a \in DOMAIN copy |->
                    IF \E k \in 1..n : order[k] = a
                    THEN m.disk[lba + (CHOOSE k \in 1..n : order[k] = a) - 1]
                    ELSE copy[a]]
    IN IF count > DkFrames THEN [m EXCEPT !.ok = FALSE]
       ELSE IF Len(table) > DkPrds THEN [m EXCEPT !.mem = copy, !.ok = FALSE]
       ELSE IF op = "write"
       THEN [m EXCEPT !.mem = copy, !.ok = good,
                      !.disk = Written(@, lba, [k \in 1..n |-> copy[order[k]]], n)]
       ELSE [m EXCEPT !.mem = into, !.ok = good,
                      !.buf = IF good
                              THEN Filled(@, from, [k \in 1..count |-> into[dk.at + k - 1]], count)
                              ELSE @]

\* ata_pio_read_sectors and ata_pio_write_sectors.
PioTransfer(m, op, lba, from, count, fault) ==
    LET f == DkReached(lba, count, fault)
        n == Moved(count, f)
    IN [m EXCEPT
          !.ok   = Completed(count, f),
          !.disk = IF op = "write"
                   THEN Written(@, lba, SubSeq(m.buf, from + 1, from + n), n) ELSE @,
          !.buf  = IF op = "read" THEN Filled(@, from, SectorsAt(m.disk, lba, n), n) ELSE @]


\* ata_read_sectors and ata_write_sectors: programmed I/O after a DMA failure.
Transfer(m, op, lba, from, count, df, pf) ==
    LET d == DmaTransfer(m, op, lba, from, count, df)
    IN IF ~dk.dma THEN PioTransfer(m, op, lba, from, count, pf)
       ELSE IF d.ok THEN d
       ELSE PioTransfer(d, op, lba, from, count, pf)

(***************************************************************************)
(* Requests.                                                               *)
(***************************************************************************)

\* block_read and block_write: what they refuse without asking the driver.
BlockAccepts(op, lba, count, limit, readOnly) ==
    /\ count # 0
    /\ op = "write" => ~readOnly
    /\ limit # 0 => lba < limit /\ count <= limit - lba

\* A call of the file system.  Its buffer holds what it writes, or nothing yet.
DkRequest(op, lba, count, limit, readOnly) ==
    /\ dk.ready /\ dkReq.rc # "run" /\ dkLeft > 0
    /\ dkLeft' = dkLeft - 1
    /\ dkReq' = [op |-> op, lba |-> lba, count |-> count, done |-> 0,
                 buf  |-> [i \in 1..count |-> IF op = "write" THEN (10 * dkLeft) + i ELSE -1],
                 was  |-> dkDisk,
                 rc   |-> IF BlockAccepts(op, lba, count, limit, readOnly) THEN "run" ELSE "fail"]
    /\ UNCHANGED <<dk, dkMem, dkDisk, dkKit, dkFaulty>>

\* One turn of the loop of ata_block_read or ata_block_write.
DkCommand(df, pf) ==
    /\ dkReq.rc = "run"
    /\ LET left  == dkReq.count - dkReq.done
           chunk == IF left > DkChunk THEN DkChunk ELSE left
           m0    == [mem |-> dkMem, disk |-> dkDisk, buf |-> dkReq.buf, ok |-> TRUE]
           m     == Transfer(m0, dkReq.op, dkReq.lba + dkReq.done, dkReq.done, chunk, df, pf)
           d     == DmaTransfer(m0, dkReq.op, dkReq.lba + dkReq.done, dkReq.done, chunk, df)
           bad   == (IF dk.dma /\ df <= chunk THEN 1 ELSE 0) + (IF pf <= chunk THEN 1 ELSE 0)
       IN /\ df <= chunk + 1 /\ pf <= chunk + 1
          /\ dk.dma /\ d.ok => pf = chunk + 1
          /\ ~dk.dma => df = chunk + 1
          /\ bad <= dkFaulty
          /\ dkFaulty' = dkFaulty - bad
          /\ dkMem' = m.mem
          /\ dkDisk' = m.disk
          /\ dk' = [dk EXCEPT !.dma = @ /\ d.ok]
          /\ dkReq' = [dkReq EXCEPT !.buf = m.buf, !.done = @ + chunk,
                         !.rc = IF ~m.ok THEN "fail"
                                ELSE IF dkReq.done + chunk = dkReq.count THEN "ok" ELSE "run"]
    /\ UNCHANGED <<dkKit, dkLeft>>

DkInit ==
    /\ dkKit \in DkKits
    /\ dk = AtaInit(dkKit)
    /\ dkMem = [a \in Memory |-> -1]
    /\ dkDisk = [l \in Lbas |-> l]
    /\ dkReq = [op |-> "read", lba |-> 0, count |-> 0, done |-> 0, buf |-> <<>>,
                was |-> [l \in Lbas |-> l], rc |-> "fail"]
    /\ dkFaulty = DkFaults
    /\ dkLeft = DkCalls

DkNext ==
    \/ \E op \in {"read", "write"}, lba \in 0..DkSectors, count \in 0..DkSectors,
          limit \in DkLimits, readOnly \in BOOLEAN :
          DkRequest(op, lba, count, limit, readOnly)
    \/ \E df, pf \in -1..(DkChunk + 1) : DkCommand(df, pf)

DkSpec == DkInit /\ [][DkNext]_dkVars

(***************************************************************************)
(* What the file system relies on.                                         *)
(***************************************************************************)

=============================================================================
