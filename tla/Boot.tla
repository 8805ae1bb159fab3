-------------------------------- MODULE Boot --------------------------------
(***************************************************************************)
(* From the boot sector to the mounted volume: boot/boot.asm reads stage 2 *)
(* sector by sector; boot/loader2.asm reads the kernel, may preload the    *)
(* used part of the ext2 partition as a RAM disk, collects the memory map, *)
(* sets a video mode and leaves all that in the boot info; the kernel      *)
(* validates it (boot_info.c) and picks the device to mount (kernel.c).    *)
(*                                                                         *)
(* A sector's content is its number on the disk.  The machine (btKit) says *)
(* what its BIOS does and how the loader was built.  A register's 16 bits  *)
(* are BtWord values.  Printing is left out.                               *)
(*                                                                         *)
(* The module holds two state machines: the tools that make the image      *)
(* (imvars), and the loader that starts the machine from it (btVars).      *)
(***************************************************************************)
EXTENDS Integers, Sequences, FiniteSets, SequencesExt, FiniteSetsExt, TLC

(***************************************************************************)
(* The disk image as the build makes it and the kernel finds it.           *)
(*                                                                         *)
(* mkext2 (tools/mkext2.c) takes a list of entries, makes a tree of them,  *)
(* gives every node an inode and consecutive blocks, leaves a hole after   *)
(* each file for its pointer blocks, and writes bitmaps, inodes and        *)
(* directories.  mkimage (tools/mkimage.c) puts boot sector, loader,       *)
(* kernel and volume one after another and writes where they are.  The     *)
(* ext2 driver then looks names up in that volume.                         *)
(*                                                                         *)
(* Sizes are in words of four bytes.  A directory is the sequence of its   *)
(* records with their offsets; a block of a file is known by its number.   *)
(***************************************************************************)

CONSTANTS
    ImSpecs,    \* entries of the command line: [eq, dest, slash, src]
    ImEntries,  \* how many a command line has
    ImNeed,     \* dir_entry_need of every name
    ImBlock,    \* BLOCK_SIZE
    ImDirect,   \* direct blocks of an inode
    ImPtrs,     \* PTRS_PER_BLOCK
    ImFirst,    \* FIRST_DATA_BLOCK
    ImTotal,    \* TOTAL_BLOCKS
    ImInodes,   \* TOTAL_INODES
    ImKits      \* what mkimage is given: [sector, loaderSize, boot, loader, slots, bytes]

VARIABLES
    im,         \* [phase, tree, vol, disk]
    imLeft      \* entries still to come

imvars == <<im, imLeft>>

Root == 1
ROOT_INO == 2
FIRST_NONRES_INO == 11
Dot == 3          \* dir_entry_need of "." and of ".."


Ceil(n, d) == (n + d - 1) \div d

-----------------------------------------------------------------------------
(* The tree of nodes.                                                      *)

Node(name, dir, size, parent) ==
    [name |-> name, dir |-> dir, size |-> size, parent |-> parent, kids |-> <<>>]

node_find_child(t, p, name) == {k \in ToSet(t[p].kids) : t[k].name = name}

node_add_child(t, p, node) == [Append(t, node) EXCEPT ![p].kids = Append(@, Len(t) + 1)]

\* One component of a path: the directory of that name is found or made, and
\* a file of that name ends the program.
Enter(w, c) ==
    IF w.died THEN w
    ELSE IF node_find_child(w.t, w.cur, c) = {}
         THEN [t |-> node_add_child(w.t, w.cur, Node(c, TRUE, 0, w.cur)),
               cur |-> Len(w.t) + 1, died |-> FALSE]
         ELSE LET k == CHOOSE x \in node_find_child(w.t, w.cur, c) : TRUE
              IN [w EXCEPT !.cur = k, !.died = ~w.t[k].dir]

EnterAll(t, path) == FoldLeft(Enter, [t |-> t, cur |-> Root, died |-> FALSE], path)

add_directory_entry(t, path) ==
    LET w == EnterAll(t, path) IN [t |-> w.t, died |-> w.died \/ w.cur = Root]

\* A destination that ends in a separator has an empty last name.
add_file_entry(t, path, slash, size) ==
    IF path = <<>> \/ slash \/ size < 0
    THEN [t |-> t, died |-> TRUE]
    ELSE LET w == EnterAll(t, Front(path))
         IN IF w.died \/ node_find_child(w.t, w.cur, Last(path)) # {}
            THEN [t |-> w.t, died |-> TRUE]
            ELSE [t |-> node_add_child(w.t, w.cur, Node(Last(path), FALSE, size, w.cur)),
                  died |-> FALSE]

\* "dir/", "dir/=", "source" or "dest=source"; src is the size of the source,
\* or -1 when there is no such file.
IsDirSpec(s) == s.slash /\ (s.eq => s.src = -1)

AddSpec(t, s) ==
    IF IsDirSpec(s) THEN add_directory_entry(t, s.dest)
    ELSE add_file_entry(t, IF s.eq THEN s.dest ELSE <<Last(s.dest)>>, s.slash, s.src)

-----------------------------------------------------------------------------
(* The layout.                                                             *)

dir_used_bytes(t, n) ==
    2 * Dot + FoldLeft(LAMBDA sum, k : sum + ImNeed[t[k].name], 0, t[n].kids)

compute_layout(t, n) ==
    Max({1, Ceil(IF t[n].dir THEN dir_used_bytes(t, n) ELSE t[n].size, ImBlock)})

\* The order in which assign_inodes, assign_blocks and write_inodes visit the
\* nodes: parents before children, children as they were added.
Visit(t) ==
    LET from[n \in DOMAIN t] ==
            <<n>> \o FlattenSeq([i \in DOMAIN t[n].kids |-> from[t[n].kids[i]]])
    IN from[Root]

assign_inodes(t) ==
    [n \in DOMAIN t |-> IF n = Root THEN ROOT_INO
                        ELSE FIRST_NONRES_INO + SelectInSeq(Visit(t), LAMBDA x : x = n) - 2]

pointer_blocks_for(data) ==
    IF data <= ImDirect THEN 0
    ELSE IF data <= ImDirect + ImPtrs THEN 1
    ELSE 2 + Ceil(data - ImDirect - ImPtrs, ImPtrs)

\* Every node's blocks are consecutive, and the hole for its pointers follows.
assign_blocks(t) ==
    FoldLeft(LAMBDA a, n :
                 LET need == compute_layout(t, n)
                     extra == pointer_blocks_for(need)
                 IN IF a.full \/ a.next + need + extra > ImTotal THEN [a EXCEPT !.full = TRUE]
                    ELSE [a EXCEPT !.next = a.next + need + extra,
                                   !.data[n] = [i \in 1..need |-> a.next + i - 1]],
             [next |-> ImFirst, data |-> [n \in DOMAIN t |-> <<>>], full |-> FALSE], Visit(t))

-----------------------------------------------------------------------------
(* The volume.                                                             *)

\* The first block no bit is set for: one of the holes.
alloc_pointer_block(a) ==
    LET free == {b \in a.from..(ImTotal - 1) : b \notin a.bits}
    IN IF free = {} THEN [a EXCEPT !.died = TRUE]
       ELSE [a EXCEPT !.bits = @ \union {Min(free)}, !.from = Min(free) + 1, !.got = Min(free)]

Slice(s, k, n) == SubSeq(s, k + 1, Min({k + n, Len(s)}))

\* Direct pointers, one block of pointers, a block of blocks of pointers.
fill_inode_blocks(a, data) ==
    LET none == [direct |-> Slice(data, 0, ImDirect), single |-> 0, double |-> 0]
        one == alloc_pointer_block(a)
        oneSet == [one EXCEPT !.ptr = @ @@ (one.got :> Slice(data, ImDirect, ImPtrs))]
        two == alloc_pointer_block(oneSet)
        past == ImDirect + ImPtrs
        outer == 1..Min({ImPtrs, Ceil(Len(data) - past, ImPtrs)})
        inner(b, i) ==
            LET c == alloc_pointer_block(b)
            IN [c EXCEPT !.ptr = @ @@ (c.got :> Slice(data, past + (i - 1) * ImPtrs, ImPtrs)),
                         !.list = Append(@, c.got)]
        all == FoldLeft(inner, [two EXCEPT !.list = <<>>], [i \in outer |-> i])
    IN IF Len(data) <= ImDirect THEN [a EXCEPT !.inode = none]
       ELSE IF Len(data) <= past THEN [oneSet EXCEPT !.inode = [none EXCEPT !.single = one.got]]
       ELSE [all EXCEPT !.ptr = @ @@ (two.got :> all.list),
                        !.inode = [none EXCEPT !.single = one.got, !.double = two.got]]

dir_link_count(t, n) == 2 + Cardinality({k \in ToSet(t[n].kids) : t[k].dir})

\* The records of a directory: "." and "..", then the children, the last of
\* which takes the rest of the block.
write_directory(t, ino, n) ==
    LET kids == t[n].kids
        up == IF n = Root THEN ino[n] ELSE ino[t[n].parent]
        at == [i \in 1..Len(kids) |-> 2 * Dot + FoldLeft(LAMBDA sum, k : sum + ImNeed[t[k].name],
                                                       0, SubSeq(kids, 1, i - 1))]
        kid(i) == [off |-> at[i], ino |-> ino[kids[i]], name |-> t[kids[i]].name,
                   rec |-> IF i = Len(kids) THEN ImBlock - at[i] ELSE ImNeed[t[kids[i]].name]]
    IN <<[off |-> 0, ino |-> ino[n], name |-> ".", rec |-> Dot],
         [off |-> Dot, ino |-> up, name |-> "..", rec |-> Dot]>>
       \o [i \in 1..Len(kids) |-> kid(i)]

write_inode(t, n, data, ptrs) ==
    [dir |-> t[n].dir, ptrs |-> ptrs,
     size |-> IF t[n].dir THEN compute_layout(t, n) * ImBlock ELSE t[n].size,
     links |-> IF t[n].dir THEN dir_link_count(t, n) ELSE 1,
     blocks |-> Len(data) + pointer_blocks_for(Len(data))]

\* prepare_metadata: bitmaps, data and inodes, then the counts of the
\* superblock and of the group descriptor from the bitmaps.
Metadata(t, data, ino, all) ==
    [bits |-> all.bits, ptr |-> all.ptr, inodes |-> all.inodes, died |-> all.died,
     dirs |-> [b \in {data[n][1] : n \in {m \in DOMAIN t : t[m].dir}} |->
                  write_directory(t, ino, CHOOSE n \in DOMAIN t : data[n][1] = b)],
     freeBlocks |-> ImTotal - Cardinality(all.bits),
     freeInodes |-> ImInodes - (FIRST_NONRES_INO + Len(t) - 2)]
prepare_metadata(t, data) ==
    LET ino == assign_inodes(t)
        marked == (0..(ImFirst - 1)) \union UNION {ToSet(data[n]) : n \in DOMAIN t}
        start == [bits |-> marked, from |-> ImFirst, got |-> 0, ptr |-> <<>>, list |-> <<>>,
                  inode |-> 0, inodes |-> <<>>, died |-> FALSE]
        put(b, n) == [b EXCEPT !.inodes = @ @@ (ino[n] :> write_inode(t, n, data[n], b.inode))]
        write(a, n) == put(fill_inode_blocks(a, data[n]), n)
    IN Metadata(t, data, ino, FoldLeft(write, start, Visit(t)))

-----------------------------------------------------------------------------
(* The disk.                                                               *)

\* parse_args and main of mkimage: the parts in their order, the kernel padded
\* to whole sectors, and the two partition entries that are also patched into
\* the loader.  died stands for every die().
Assemble(k, fsSize) ==
    LET sectors == Ceil(k.bytes, k.sector)
        lba == 1 + k.loaderSize \div k.sector
    IN [died |-> k.loaderSize = 0 \/ k.loaderSize % k.sector # 0 \/ k.boot # k.sector
                   \/ k.loader # k.loaderSize \/ k.slots # 1,
        kernelAt |-> k.boot + k.loader,
        fsAt |-> k.boot + k.loader + k.bytes + (sectors * k.sector - k.bytes),
        kernel |-> [lba |-> lba, sectors |-> sectors],
        fs |-> [lba |-> lba + sectors, sectors |-> fsSize \div k.sector]]

-----------------------------------------------------------------------------
(* The driver's view of the volume (drivers/ext2.c).                       *)

\* inode_get_data_block without create.
DataBlock(vol, i, logical) ==
    LET p == vol.inodes[i].ptrs
        at(b, k) == IF k < Len(vol.ptr[b]) THEN vol.ptr[b][k + 1] ELSE 0
        past == logical - ImDirect - ImPtrs
    IN IF logical < ImDirect THEN IF logical < Len(p.direct) THEN p.direct[logical + 1] ELSE 0
       ELSE IF logical < ImDirect + ImPtrs
            THEN IF p.single = 0 THEN 0 ELSE at(p.single, logical - ImDirect)
       ELSE IF p.double = 0 \/ at(p.double, past \div ImPtrs) = 0 THEN 0
            ELSE at(at(p.double, past \div ImPtrs), past % ImPtrs)

\* The records of a directory's block as parse_dirent reads them one after
\* another; bad when it refuses one.
Scan(vol, b) ==
    LET here(off) == {e \in ToSet(vol.dirs[b]) : e.off = off}
        from[off \in 0..ImBlock] ==
            IF off = ImBlock THEN [found |-> <<>>, bad |-> FALSE]
            ELSE IF here(off) = {} \/ \E e \in here(off) : e.rec < 2 \/ off + e.rec > ImBlock
                 THEN [found |-> <<>>, bad |-> TRUE]
            ELSE LET e == CHOOSE x \in here(off) : TRUE
                     rest == from[off + e.rec]
                 IN [found |-> <<e>> \o rest.found, bad |-> rest.bad]
    IN from[0]

\* dir_find_entry for a directory of one block.
Find(vol, i, name) ==
    LET hits == {e \in ToSet(Scan(vol, DataBlock(vol, i, 0)).found) : e.name = name}
    IN IF ~vol.inodes[i].dir \/ hits = {} THEN 0 ELSE (CHOOSE e \in hits : TRUE).ino

-----------------------------------------------------------------------------
ImInit ==
    /\ im = [phase |-> "entries", tree |-> <<Node("", TRUE, 0, 0)>>, vol |-> 0, disk |-> 0]
    /\ imLeft = ImEntries

\* main: the entries one after another.
AddEntry(s) ==
    LET a == AddSpec(im.tree, s)
    IN /\ im.phase = "entries" /\ imLeft > 0
       /\ im' = [im EXCEPT !.tree = a.t, !.phase = IF a.died THEN "died" ELSE "entries"]
       /\ imLeft' = imLeft - 1

\* main: layout, inodes and blocks, then the volume.
Prepared(vol) ==
    IF vol.died THEN [im EXCEPT !.phase = "short"]
    ELSE [im EXCEPT !.phase = "volume", !.vol = vol]
MakeVolume ==
    /\ im.phase = "entries"
    /\ \E a \in {assign_blocks(im.tree)} :
         im' = IF a.full \/ FIRST_NONRES_INO + Len(im.tree) - 2 > ImInodes
               THEN [im EXCEPT !.phase = "died"]
               ELSE Prepared(prepare_metadata(im.tree, a.data))
    /\ UNCHANGED imLeft

MakeDisk(k) ==
    LET d == Assemble(k, ImTotal * ImBlock)
    IN /\ im.phase = "volume"
       /\ im' = IF d.died THEN [im EXCEPT !.phase = "died"]
                ELSE [im EXCEPT !.phase = "disk", !.disk = d @@ k]
       /\ UNCHANGED imLeft

ImNext ==
    \/ \E s \in ImSpecs : AddEntry(s)
    \/ MakeVolume
    \/ \E k \in ImKits : MakeDisk(k)

ImSpec == ImInit /\ [][ImNext]_imvars

-----------------------------------------------------------------------------
Pointers(vol, i) ==
    LET p == vol.inodes[i].ptrs
    IN ({p.single, p.double} \ {0})
         \union (IF p.double = 0 THEN {} ELSE ToSet(vol.ptr[p.double]))

Count(vol, i) == Max({1, Ceil(vol.inodes[i].size, ImBlock)})

Blocks(vol, i) == {DataBlock(vol, i, k) : k \in 0..(Count(vol, i) - 1)} \union Pointers(vol, i)

OneBlock(t) == \A n \in DOMAIN t : t[n].dir => compute_layout(t, n) = 1

\* What mkext2 was given is what the driver finds: every name leads from its
\* directory to an inode of the right kind and size, no block belongs to two
\* inodes or to the metadata, an inode's block count and a directory's link
\* count are what they stand for, and the bitmap has a bit for every block in
\* use and for no other, so that the holes left for pointer blocks suffice.
\* Directories of one block, which are all that write_directory is made for.
VolumeHoldsTree ==
    /\ im.phase # "short"
    /\ im.phase = "volume" /\ OneBlock(im.tree) =>
         LET t == im.tree
             vol == im.vol
             ino == assign_inodes(t)
         IN /\ \A n \in DOMAIN t : \A k \in ToSet(t[n].kids) :
                 /\ Find(vol, ino[n], t[k].name) = ino[k]
                 /\ Find(vol, ino[k], "..") = (IF t[k].dir THEN ino[n] ELSE 0)
                 /\ vol.inodes[ino[k]].dir = t[k].dir
                 /\ ~t[k].dir => vol.inodes[ino[k]].size = t[k].size
            /\ \A n, m \in DOMAIN t : n # m => Blocks(vol, ino[n]) \intersect Blocks(vol, ino[m]) = {}
            /\ \A n \in DOMAIN t : /\ vol.inodes[ino[n]].blocks = Cardinality(Blocks(vol, ino[n]))
                                   /\ Blocks(vol, ino[n]) \subseteq ImFirst..(ImTotal - 1)
            /\ vol.bits = (0..(ImFirst - 1)) \union UNION {Blocks(vol, ino[n]) : n \in DOMAIN t}
            /\ \A n \in DOMAIN t : t[n].dir =>
                 vol.inodes[ino[n]].links =
                     Cardinality({<<m, e>> \in (DOMAIN t) \X {".", "..", "name"} :
                                     \/ e = "name" /\ n \in ToSet(t[m].kids)
                                     \/ e # "name" /\ t[m].dir /\ Find(vol, ino[m], e) = ino[n]})

\* The partition table and the loader name the sectors at which mkimage put
\* the kernel and the volume, whole.
DiskHoldsParts ==
    im.phase = "disk" =>
        LET d == im.disk
        IN /\ d.kernel.lba * d.sector = d.kernelAt
           /\ d.kernel.sectors * d.sector >= d.bytes
           /\ d.fs.lba * d.sector = d.fsAt
           /\ d.fs.sectors * d.sector = ImTotal * ImBlock

-----------------------------------------------------------------------------

CONSTANTS BtStage2,      \* LOADER2_SECTORS
          BtChunk,       \* KERNEL_READ_CHUNK, RAMDISK_READ_CHUNK
          BtWord,        \* 2^16
          BtPerBlock,    \* EXT2_SECTORS_PER_BLOCK
          BtPerByte,     \* the blocks of a byte of the block bitmap
          BtE820,        \* BOOT_E820_MAX
          BtDefault,     \* the geometry <<sectors, heads>> without function 8
          BtCylinders,   \* what a CHS address can reach
          BtKits,        \* the machines
          BtFaults       \* how many reads fail at most

VARIABLES bt,      \* the loader: where it is, what it found, its loop counters
          mem,     \* the memory it fills: stage 2, kernel, RAM disk, boot info
          btKit, btFaults

btVars == <<bt, mem, btKit, btFaults>>

Garbage == -1
NoInfo == [ok |-> FALSE, e820 |-> <<>>, fb |-> <<>>, ram |-> 0]
NoMode == <<"text">>

(* On the disk: the boot sector, stage 2, the kernel, the ext2 volume.     *)
KernelLba == 1 + BtStage2
RamdiskLba == KernelLba + btKit.kernel
Sectors(from, n) == [i \in 1..n |-> from + i - 1]

BtInit ==
    /\ btKit \in BtKits
    /\ bt = [at |-> "stage 1", read |-> 0, lba |-> FALSE, high |-> FALSE, geo |-> BtDefault,
             left |-> 0, preload |-> 0, mode |-> NoMode, mounted |-> ""]
    /\ mem = [stage2 |-> <<>>, kernel |-> <<>>, ram |-> [i \in 1..btKit.ram |-> Garbage],
              info |-> NoInfo]
    /\ btFaults = BtFaults

-----------------------------------------------------------------------------
(* Reading through the BIOS.  A CHS read stays within a track and the      *)
(* cylinders of the interface; lba_to_chs uses the geometry function 8     *)
(* gave, the BIOS its own.                                                 *)

LbaToChs(lba, geo) ==
    [sector |-> (lba % geo[1]) + 1, head |-> (lba \div geo[1]) % geo[2],
     cylinder |-> (lba \div geo[1]) \div geo[2]]
ChsToLba(c, geo) == (c.cylinder * geo[2] + c.head) * geo[1] + c.sector - 1
ChsData(lba, count) ==
    LET c == LbaToChs(lba, bt.geo) IN
    IF c.cylinder >= BtCylinders \/ c.sector + count - 1 > btKit.geo[1] THEN <<>>
    ELSE Sectors(ChsToLba(c, btKit.geo), count)
(* disk_read: what arrives, <<>> when the read fails.                      *)
DiskRead(lba, count) == IF bt.lba THEN Sectors(lba, count) ELSE ChsData(lba, count)
ChsCapTrackChunk(lba, count) == Min({count, bt.geo[1] - (lba % bt.geo[1])})

Fails == btFaults > 0 /\ btFaults' = btFaults - 1
Works == UNCHANGED btFaults
DiskError == bt' = [bt EXCEPT !.at = "error"] /\ UNCHANGED <<mem, btKit>>
At(place) == bt.at = place

(* boot.asm: stage 2, one sector a time, always by CHS on track 0.         *)
LoadLoader2 ==
    /\ At("stage 1")
    /\ \/ Fails /\ DiskError
       \/ /\ Works
          /\ mem' = [mem EXCEPT !.stage2 = Append(@, bt.read + 1)]
          /\ bt' = [bt EXCEPT !.read = @ + 1,
                              !.at = IF bt.read + 1 = BtStage2 THEN "stage 2" ELSE "stage 1"]
          /\ UNCHANGED btKit

(* start: the extensions, unless the build forces CHS, and the geometry.   *)
ProbeDrive ==
    /\ At("stage 2")
    /\ bt' = [bt EXCEPT !.lba = btKit.ext /\ ~btKit.forceChs,
                        !.geo = IF btKit.tellsGeo THEN btKit.geo ELSE BtDefault,
                        !.left = btKit.kernel % BtWord, !.read = 0,
                        !.at = IF btKit.kernel % BtWord = 0 THEN "error" ELSE "kernel"]
    /\ UNCHANGED <<mem, btKit, btFaults>>

(* load_kernel: up to a chunk by LBA, one sector through the bounce buffer *)
(* by CHS.                                                                 *)
LoadKernelCount == IF bt.lba THEN Min({bt.left, BtChunk}) ELSE 1
LoadKernel ==
    /\ At("kernel")
    /\ LET n == LoadKernelCount
           data == DiskRead(KernelLba + bt.read, n) IN
       \/ (Fails \/ (Works /\ data = <<>>)) /\ DiskError
       \/ /\ Works /\ data # <<>>
          /\ mem' = [mem EXCEPT !.kernel = @ \o data]
          /\ bt' = [bt EXCEPT !.read = @ + n, !.left = @ - n,
                              !.at = IF bt.left = n THEN "loaded" ELSE "kernel"]
          /\ UNCHANGED btKit

-----------------------------------------------------------------------------
(* The RAM disk.                                                           *)

Preloads ==
    \/ btKit.policy = "always"
    \/ btKit.policy = "auto" /\ ~(bt.lba /\ btKit.bus \in {"usb", "ata"})

(* probe_high_ramdisk_read: the first chunk by the high-memory packet and  *)
(* by the bounce buffer; with them equal, the packet is used.  The number  *)
(* of sectors is taken from the low 16 bits.                               *)
HighCount == Min({btKit.ram % BtWord, BtChunk})
Probes == bt.lba /\ btKit.bus = "usb" /\ btKit.edd30 /\ HighCount > 0
HighData(i, n) ==
    [k \in 1..n |-> IF btKit.high = "works" THEN RamdiskLba + i + k - 1 ELSE Garbage]
PutRam(r, i, data) == [k \in DOMAIN r |-> IF k > i /\ k <= i + Len(data) THEN data[k - i] ELSE r[k]]

(* detect_ramdisk_preload_sectors: through the last block marked in the    *)
(* whole bytes of the bitmap, or everything when none is.                  *)
PreloadSectors ==
    LET bytes == btKit.ram \div (BtPerBlock * BtPerByte)
        marked == {b \in btKit.used : b \div BtPerByte < bytes} IN
    IF marked = {} THEN btKit.ram ELSE Min({btKit.ram, (Max(marked) + 1) * BtPerBlock})

BitmapRead == DiskRead(RamdiskLba + 3 * BtPerBlock - 1, 1) # <<>>
StartRamdisk ==
    /\ At("loaded") /\ Preloads
    /\ \/ (Fails \/ (Works /\ (btKit.ram = 0 \/ ~BitmapRead))) /\ DiskError
       \/ /\ Works /\ btKit.ram > 0 /\ BitmapRead
          /\ mem' = IF Probes /\ btKit.high # "fails"
                    THEN [mem EXCEPT !.ram = PutRam(@, 0, HighData(0, HighCount))] ELSE mem
          /\ bt' = [bt EXCEPT !.high = Probes /\ btKit.high = "works",
                              !.preload = PreloadSectors, !.left = PreloadSectors % BtWord,
                              !.read = 0, !.at = "ramdisk"]
          /\ UNCHANGED btKit
SkipRamdisk ==
    /\ At("loaded") /\ ~Preloads
    /\ bt' = [bt EXCEPT !.at = "setup"]
    /\ UNCHANGED <<mem, btKit, btFaults>>

(* load_ramdisk's loop.  A high read that fails is repeated through the    *)
(* bounce buffer, which is then used for the rest; after the last one the  *)
(* sectors not preloaded are zeroed.                                       *)
RamdiskCount ==
    LET n == Min({bt.left, BtChunk}) IN
    IF bt.lba THEN n ELSE ChsCapTrackChunk(RamdiskLba + bt.read, n)
ZeroTail(r) == [k \in DOMAIN r |-> IF k > bt.preload THEN 0 ELSE r[k]]
Copied(data, high) ==
    LET n == Len(data)
        r == PutRam(mem.ram, bt.read, data)
        over == bt.left = n IN
    /\ mem' = [mem EXCEPT !.ram = IF over THEN ZeroTail(r) ELSE r]
    /\ bt' = [bt EXCEPT !.read = @ + n, !.left = @ - n, !.high = high,
                        !.at = IF over THEN "setup" ELSE "ramdisk"]
    /\ UNCHANGED btKit
LoadRamdisk ==
    /\ At("ramdisk")
    /\ LET n == RamdiskCount
           data == DiskRead(RamdiskLba + bt.read, n) IN
       \/ bt.high /\ Works /\ Copied(HighData(bt.read, n), TRUE)
       \/ bt.high /\ Fails /\ Copied(data, FALSE)
       \/ ~bt.high /\ (Fails \/ (Works /\ n > 0 /\ data = <<>>)) /\ DiskError
       \/ ~bt.high /\ Works /\ (n = 0 \/ data # <<>>) /\ Copied(data, FALSE)

-----------------------------------------------------------------------------
(* vga_setup or vbe_setup: the boot info from zero, the memory map, and    *)
(* the first mode that will do.                                            *)

(* collect_e820: until the BIOS ends, errs or gives a short entry; empty   *)
(* ranges are passed over, the table holds BtE820.                         *)
CollectE820 ==
    LET good(i) == btKit.e820[i].size >= 20
        bad == {i \in DOMAIN btKit.e820 : ~good(i)}
        given == SubSeq(btKit.e820, 1, IF bad = {} THEN Len(btKit.e820) ELSE Min(bad) - 1)
        ranges == SelectSeq(given, LAMBDA e : e.length > 0) IN
    SubSeq(ranges, 1, Min({BtE820, Len(ranges)}))

Usable(m) == m.answered /\ m.linear /\ m.bpp = 32 /\ m.phys # 0
Wanted(m) == m.size = "1024x768" \/ (btKit.relaxed /\ m.size \in {"800x600", "640x480"})
FirstMode == SelectInSeq(btKit.modes, LAMBDA m : Usable(m) /\ Wanted(m))
Setup ==
    /\ At("setup")
    /\ LET info == [ok |-> TRUE, e820 |-> CollectE820, fb |-> <<>>, ram |-> 0]
           i == IF btKit.vbe /\ ~btKit.forceVga THEN FirstMode ELSE 0
           set == i > 0 /\ btKit.modes[i].sets IN
       /\ mem' = [mem EXCEPT !.info = IF set THEN [info EXCEPT !.fb = <<btKit.modes[i]>>] ELSE info]
       /\ bt' = [bt EXCEPT !.at = "publish", !.mode = IF set THEN <<btKit.modes[i]>> ELSE NoMode]
    /\ UNCHANGED <<btKit, btFaults>>

(* publish_ramdisk, when one was loaded, and switch_to_pm.                 *)
Publish ==
    /\ At("publish")
    /\ mem' = [mem EXCEPT !.info.ram = IF Preloads THEN btKit.ram ELSE 0]
    /\ bt' = [bt EXCEPT !.at = "entered"]
    /\ UNCHANGED <<btKit, btFaults>>

-----------------------------------------------------------------------------
(* The kernel.  boot_mount_ext2 tries ATA, then USB, then the RAM disk; a  *)
(* device may be there and yet fail to be read.                            *)

RamdiskValid == mem.info.ok /\ mem.info.ram # 0
E820Valid == mem.info.ok /\ mem.info.e820 # <<>> /\ \A i \in DOMAIN mem.info.e820 : mem.info.e820[i].length > 0
MountOrder == <<"ata", "usb", "ram">>
Tries(device) ==
    CASE device = "ata" -> btKit.ata = "good"
      [] device = "usb" -> btKit.usb = "good"
      [] device = "ram" -> RamdiskValid
BootMountExt2 ==
    /\ At("entered")
    /\ LET i == SelectInSeq(MountOrder, LAMBDA d : Tries(d)) IN
       bt' = [bt EXCEPT !.at = "mounted", !.mounted = IF i = 0 THEN "none" ELSE MountOrder[i]]
    /\ UNCHANGED <<mem, btKit, btFaults>>

BtNext == \/ LoadLoader2 \/ ProbeDrive \/ LoadKernel \/ StartRamdisk \/ SkipRamdisk
          \/ LoadRamdisk \/ Setup \/ Publish \/ BootMountExt2
BtSpec == BtInit /\ [][BtNext]_btVars

-----------------------------------------------------------------------------
(* When stage 2 enters the kernel, stage 2 and the kernel are in memory    *)
(* sector for sector, whatever the drive's interface and however the reads *)
(* were cut.                                                               *)
KernelLoaded ==
    bt.at \in {"entered", "mounted"} =>
        /\ mem.stage2 = Sectors(1, BtStage2)
        /\ mem.kernel = Sectors(KernelLba, btKit.kernel)

(* A published RAM disk is the volume: every block in use that the whole   *)
(* bytes of its bitmap cover is there, the rest is zero, and nothing is    *)
(* left of the test of high reads.  (A volume that is in use up to its     *)
(* 65536th sector is not loaded at all: the loop counts in 16 bits.)       *)
RamdiskIsVolume ==
    (bt.at \in {"entered", "mounted"} /\ RamdiskValid /\ bt.preload % BtWord # 0) =>
        /\ \A b \in btKit.used : b \div BtPerByte < btKit.ram \div (BtPerBlock * BtPerByte) =>
               \A k \in (b * BtPerBlock + 1)..((b + 1) * BtPerBlock) : mem.ram[k] = RamdiskLba + k - 1
        /\ \A k \in DOMAIN mem.ram : mem.ram[k] \in {0, RamdiskLba + k - 1}
        /\ \A k \in DOMAIN mem.ram : mem.ram[k] = 0 => k > bt.preload

(* The kernel is told the truth: the framebuffer of the boot info is the   *)
(* mode the display is in, 32 bits and linear; the memory map holds ranges *)
(* the BIOS gave, in order and none of them empty; a RAM disk is told of   *)
(* only after it was loaded; and the volume comes from the writable disk   *)
(* if it can be read, from memory only when neither device can.            *)
KernelToldTruth ==
    bt.at \in {"entered", "mounted"} =>
        /\ IF mem.info.fb = <<>> THEN bt.mode = NoMode
           ELSE bt.mode = mem.info.fb /\ Usable(mem.info.fb[1])
        /\ E820Valid \/ mem.info.e820 = <<>>
        /\ \A i \in DOMAIN mem.info.e820 : mem.info.e820[i] \in ToSet(btKit.e820)
        /\ RamdiskValid => bt.preload > 0 /\ bt.left = 0
        /\ bt.at = "mounted" =>
               CASE btKit.ata = "good" -> bt.mounted = "ata"
                 [] btKit.ata # "good" /\ btKit.usb = "good" -> bt.mounted = "usb"
                 [] OTHER -> bt.mounted = IF mem.info.ram > 0 THEN "ram" ELSE "none"
=============================================================================
