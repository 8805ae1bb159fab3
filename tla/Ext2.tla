-------------------------------- MODULE Ext2 --------------------------------
(***************************************************************************)
(* The calls of the ext2 driver, each one step: the VFS runs every call    *)
(* with interrupts off.  A call may meet one block write that fails, or    *)
(* lose power at one, after which the volume is mounted again.             *)
(***************************************************************************)
EXTENDS Integers, Sequences, FiniteSets, SequencesExt, FiniteSetsExt

(***************************************************************************)
(* The ext2 driver of ext2.c as operators on a record f:                   *)
(*   f.inode, f.data, f.bb, f.ib   the disk: inode table, blocks and the   *)
(*                                 two bitmaps (as sets of what is in use) *)
(*   f.mbb, f.mib, f.bdirty, f.idirty, f.depth, f.next                     *)
(*              s_block_bitmap, s_inode_bitmap, their dirty flags, the     *)
(*              defer depth and s_next_alloc_block                         *)
(*   f.v        the inode the function works on (its ext2_inode_t)         *)
(*   f.ret, f.run   the block or inode, and the number of blocks, that the *)
(*              last helper returned                                       *)
(*   f.ok       no call has failed yet; a helper does nothing once it is   *)
(*              FALSE, as the code returns 0 up to the operation           *)
(*   f.n, f.fail, f.cut   block writes so far; the write that fails (0: no *)
(*              write); whether power is lost at that write instead        *)
(* A write that fails returns 0; when power is lost that write and all     *)
(* later ones do not reach the disk.  The s_block buffers hold no value    *)
(* across calls that overwrite them, so they do not appear.                *)
(***************************************************************************)

CONSTANTS
    FirstData, LastData,    \* data blocks
    FirstIno, LastIno,      \* EXT2_FIRST_NONRES_INO .. EXT2_TOTAL_INODES
    Root,                   \* EXT2_ROOT_INO
    Direct,                 \* EXT2_DIRECT_BLOCKS
    Ptrs,                   \* EXT2_PTRS_PER_BLOCK
    BlockSize,              \* EXT2_BLOCK_SIZE
    Chunk,                  \* EXT2_WRITE_CHUNK_SIZE in blocks
    DirSlots,               \* entries that fit in a directory block
    MaxFile,                \* EXT2_MAX_WRITE_FILE_BYTES
    MaxLinks,               \* 0xFFFF
    MaxDepth,               \* EXT2_SYMLINK_DEPTH_MAX
    Targets                 \* the paths symbolic links may hold

DataBlocks == FirstData..LastData
Inodes == {Root} \cup (FirstIno..LastIno)
Zero == [t |-> "zero"]
DirBlock(entries) == [t |-> "dir", v |-> entries]
PtrBlock(entries) == [t |-> "ptr", v |-> entries]
FileBlock(bytes) == [t |-> "data", v |-> bytes]
Entry(name, ino, type) == [name |-> name, ino |-> ino, type |-> type]
NoInode == [kind |-> "free", attr |-> 0, links |-> 0, size |-> 0, n |-> 0,
            ptr |-> [j \in 0..(Direct + 1) |-> 0]]
NewInode(kind, links) == [NoInode EXCEPT !.kind = kind, !.links = links]
BlockCount(v) == (v.size + BlockSize - 1) \div BlockSize

(****************************** disk and bitmaps ***************************)

(* write_block: g is f with the write done.                                *)
Wr(f, g) ==
    IF ~f.ok THEN f
    ELSE IF f.fail = f.n + 1 /\ ~f.cut THEN [f EXCEPT !.n = @ + 1, !.ok = FALSE]
    ELSE IF f.cut /\ f.fail <= f.n + 1 THEN [f EXCEPT !.n = @ + 1]
    ELSE [g EXCEPT !.n = f.n + 1]

Put(f, b, c) == Wr(f, [f EXCEPT !.data[b] = c])
WriteInode(f, i, v) == Wr(f, [f EXCEPT !.inode[i] = v])
WriteBack(f, i) == WriteInode(f, i, f.v)

(* What a function goes on to do with the state g that a call left: in any *)
(* case, or only when the call returned 1.                                 *)
Then(g, Do(_)) == Do(g)
IfOk(g, Do(_)) == IF g.ok THEN Do(g) ELSE g

OutBlocks(f) == Then(Wr(f, [f EXCEPT !.bb = f.mbb]),
                     LAMBDA w : [w EXCEPT !.bdirty = @ /\ ~w.ok])
OutInodes(f) == Then(Wr(f, [f EXCEPT !.ib = f.mib]),
                     LAMBDA w : [w EXCEPT !.idirty = @ /\ ~w.ok])
WriteBlockBitmap(f) ==
    IF ~f.ok THEN f
    ELSE IF f.depth # 0 THEN [f EXCEPT !.bdirty = TRUE] ELSE OutBlocks(f)
WriteInodeBitmap(f) ==
    IF ~f.ok THEN f
    ELSE IF f.depth # 0 THEN [f EXCEPT !.idirty = TRUE] ELSE OutInodes(f)

DeferBegin(f) == IF f.ok THEN [f EXCEPT !.depth = @ + 1] ELSE f

(* bitmap_write_defer_end, which runs whether or not the body succeeded.   *)
Flushed(g) ==
    IfOk(IF g.bdirty THEN OutBlocks(g) ELSE g,
         LAMBDA b : IF b.idirty THEN OutInodes(b) ELSE b)
DeferEnd(f) ==
    IF f.depth = 0 THEN f
    ELSE IF f.depth > 1 THEN [f EXCEPT !.depth = @ - 1]
    ELSE [Flushed([f EXCEPT !.ok = TRUE, !.depth = @ - 1]) EXCEPT !.ok = @ /\ f.ok]

After(b) == IF b >= LastData THEN FirstData ELSE b + 1

(* alloc_block_with_zero: the first free block from s_next_alloc_block on, *)
(* then from the start.                                                    *)
TakeBlock(f, b, zero) ==
    IfOk(Then(WriteBlockBitmap([f EXCEPT !.mbb = @ \cup {b}]),
              LAMBDA g : IF zero THEN Put(g, b, Zero) ELSE g),
         LAMBDA z : [z EXCEPT !.next = After(b), !.ret = b])
AllocBlock(f, zero) ==
    LET free == DataBlocks \ f.mbb
        late == {b \in free : b >= f.next} IN
    IF ~f.ok THEN f
    ELSE IF free = {} THEN [f EXCEPT !.ok = FALSE]
    ELSE TakeBlock(f, Min(IF late # {} THEN late ELSE free), zero)

TakeRun(f, b, n) ==
    IfOk(WriteBlockBitmap([f EXCEPT !.mbb = @ \cup (b..(b + n - 1))]),
         LAMBDA g : [g EXCEPT !.next = After(b + n - 1), !.ret = b, !.run = n])

(* alloc_block_run: n free blocks in a row, within one of the two passes.  *)
AllocRun(f, n) ==
    LET runs(lo, hi) == {b \in lo..hi : b..(b + n - 1) \subseteq (lo..hi) \ f.mbb}
        late == runs(f.next, LastData)
        early == runs(FirstData, f.next - 1) IN
    IF ~f.ok THEN f
    ELSE IF late \cup early = {} THEN [f EXCEPT !.ok = FALSE]
    ELSE TakeRun(f, Min(IF late # {} THEN late ELSE early), n)

FreeBlock(f, b) ==
    IF ~f.ok \/ b = 0 THEN f
    ELSE WriteBlockBitmap([f EXCEPT !.mbb = @ \ {b},
                                    !.next = IF b < @ THEN b ELSE @])

AllocInode(f) ==
    LET free == (FirstIno..LastIno) \ f.mib IN
    IF ~f.ok THEN f
    ELSE IF free = {} THEN [f EXCEPT !.ok = FALSE]
    ELSE [WriteInodeBitmap([f EXCEPT !.mib = @ \cup {Min(free)}]) EXCEPT !.ret = Min(free)]

FreeInode(f, i) ==
    IF ~f.ok THEN f ELSE WriteInodeBitmap([f EXCEPT !.mib = @ \ {i}])

(* The driver after ext2_init and the first read_bitmaps.                  *)
Mount(f) ==
    [f EXCEPT !.mbb = f.bb, !.mib = f.ib, !.bdirty = FALSE, !.idirty = FALSE,
              !.depth = 0, !.next = FirstData, !.ok = TRUE, !.n = 0, !.fail = 0,
              !.cut = FALSE]

(****************************** blocks of a file ***************************)

NoPtrs == [j \in 0..(Ptrs - 1) |-> 0]
PtrsOf(f, b) == IF b # 0 /\ f.data[b].t = "ptr" THEN f.data[b].v ELSE NoPtrs

(* inode_get_data_block without create; 0 for a hole.                      *)
BlockOf(f, v, l) ==
    LET x == l - Direct - Ptrs
        outer == PtrsOf(f, v.ptr[Direct + 1])[x \div Ptrs] IN
    IF l < Direct THEN v.ptr[l]
    ELSE IF l < Direct + Ptrs THEN PtrsOf(f, v.ptr[Direct])[l - Direct]
    ELSE PtrsOf(f, outer)[x % Ptrs]

SetPtr(f, b, j, value) == Put(f, b, PtrBlock([PtrsOf(f, b) EXCEPT ![j] = value]))

(* One pointer of the inode, or of a pointer block, filled if it is 0.     *)
InodePtr(f, j, zero) ==
    IF ~f.ok THEN f
    ELSE IF f.v.ptr[j] # 0 THEN [f EXCEPT !.ret = f.v.ptr[j]]
    ELSE IfOk(AllocBlock(f, zero), LAMBDA a : [a EXCEPT !.v.ptr[j] = a.ret, !.v.n = @ + 1])
EntryPtr(f, b, j, zero) ==
    IF ~f.ok THEN f
    ELSE IF PtrsOf(f, b)[j] # 0 THEN [f EXCEPT !.ret = PtrsOf(f, b)[j]]
    ELSE IfOk(Then(AllocBlock(f, zero), LAMBDA a : SetPtr(a, b, j, a.ret)),
              LAMBDA s : [s EXCEPT !.v.n = @ + 1])
Under(g, j, zero) == EntryPtr(g, g.ret, j, zero)

(* inode_get_data_block_ex with create.                                    *)
GetBlock(f, l, zero) ==
    LET x == l - Direct - Ptrs IN
    IF l < Direct THEN InodePtr(f, l, zero)
    ELSE IF l < Direct + Ptrs THEN Under(InodePtr(f, Direct, TRUE), l - Direct, zero)
    ELSE IF x >= Ptrs * Ptrs THEN [f EXCEPT !.ok = FALSE]
    ELSE Under(Under(InodePtr(f, Direct + 1, TRUE), x \div Ptrs, TRUE), x % Ptrs, zero)

(* inode_prepare_fresh_blocks: a run of new blocks for n unused pointers   *)
(* from logical block l on; f.run = 0 when one of them is in use.          *)
FillPtrs(f, b, old, j, most) ==
    LET n == Min({Ptrs - j, most})
        filled(first) == [k \in DOMAIN old |->
                            IF k \in j..(j + n - 1) THEN first + (k - j) ELSE old[k]] IN
    IF ~f.ok THEN f
    ELSE IF \E k \in j..(j + n - 1) : old[k] # 0 THEN [f EXCEPT !.run = 0]
    ELSE IfOk(Then(AllocRun(f, n), LAMBDA a : Put(a, b, PtrBlock(filled(a.ret)))),
              LAMBDA w : [w EXCEPT !.v.n = @ + n])

FillUnder(f, outers, j, k, most) ==
    IF outers[j] # 0 THEN FillPtrs(f, outers[j], PtrsOf(f, outers[j]), k, most)
    ELSE IfOk(AllocBlock(f, FALSE), LAMBDA fresh :
              FillPtrs(Put([fresh EXCEPT !.v.n = @ + 1], f.ret,
                           PtrBlock([outers EXCEPT ![j] = fresh.ret])),
                       fresh.ret, NoPtrs, k, most))

PrepareFresh(f, l, most) ==
    LET n == Min({Direct - l, most})
        x == l - Direct - Ptrs
        held(j) == PtrsOf(f, f.v.ptr[j]) IN
    IF l < Direct THEN
        IF \E k \in l..(l + n - 1) : f.v.ptr[k] # 0 THEN [f EXCEPT !.run = 0]
        ELSE IfOk(AllocRun(f, n), LAMBDA a :
                  [a EXCEPT !.v.n = @ + n,
                            !.v.ptr = [k \in DOMAIN @ |->
                               IF k \in l..(l + n - 1) THEN a.ret + (k - l) ELSE @[k]]])
    ELSE IF l < Direct + Ptrs THEN
        Then(InodePtr(f, Direct, FALSE), LAMBDA single :
             FillPtrs(single, single.ret, held(Direct), l - Direct, most))
    ELSE IF x >= Ptrs * Ptrs THEN [f EXCEPT !.ok = FALSE]
    ELSE IfOk(InodePtr(f, Direct + 1, FALSE), LAMBDA double :
              FillUnder(double, held(Direct + 1), x \div Ptrs, x % Ptrs, most))

(* free_inode_blocks: every block of the inode, in the code's order.       *)
InOrder(g) == [j \in 1..Ptrs |-> g[j - 1]]
BlocksInOrder(f, v) ==
    LET single == PtrsOf(f, v.ptr[Direct])
        double == PtrsOf(f, v.ptr[Direct + 1])
        under(b) == IF b = 0 THEN <<>> ELSE InOrder(PtrsOf(f, b)) \o <<b>> IN
    [j \in 1..Direct |-> v.ptr[j - 1]]
    \o (IF v.ptr[Direct] = 0 THEN <<>> ELSE InOrder(single) \o <<v.ptr[Direct]>>)
    \o (IF v.ptr[Direct + 1] = 0 THEN <<>>
        ELSE FlattenSeq([j \in 1..Ptrs |-> under(double[j - 1])])
             \o <<v.ptr[Direct + 1]>>)

FreeInodeBlocks(f) ==
    IfOk(FoldLeft(FreeBlock, f, BlocksInOrder(f, f.v)),
         LAMBDA g : [g EXCEPT !.v.ptr = NoInode.ptr, !.v.size = 0, !.v.n = 0])

(***************************** contents of a file **************************)

ByteOf(c, k) == IF c.t = "data" THEN c.v[k] ELSE 0
ByteIn(f, b, k) == IF b = 0 THEN 0 ELSE ByteOf(f.data[b], k)

(* file_read_to_sink: what reading the whole file returns.                 *)
ReadFile(f, v) ==
    [k \in 1..v.size |->
        ByteIn(f, BlockOf(f, v, (k - 1) \div BlockSize), (k - 1) % BlockSize)]

(* Blocks b, b+1, ... receive the bytes of data from position done on.     *)
PutBlocks(f, b, n, data, done) ==
    Wr(f, [f EXCEPT !.data = [c \in DOMAIN @ |->
        IF c \in b..(b + n - 1)
        THEN FileBlock([k \in 0..(BlockSize - 1) |->
                           data[done + (c - b) * BlockSize + k + 1]])
        ELSE @[c]]])

(* The inner loop of write_file_range: as many of the next blocks as       *)
(* follow each other on the disk.                                          *)
RECURSIVE Contiguous(_, _, _, _, _)
Contiguous(f, l, b, n, most) ==
    IF n >= most \/ ~f.ok THEN [f EXCEPT !.ret = b, !.run = n]
    ELSE Then(GetBlock(f, l + n, FALSE), LAMBDA g :
              IF g.ok /\ g.ret = b + n THEN Contiguous(g, l, b, n + 1, most)
              ELSE [g EXCEPT !.ret = b, !.run = n])

(* The blocks of one turn of its loop: new ones in a row, or the one that  *)
(* is there and those that follow it.                                      *)
NextBlocks(f, l, most) ==
    IfOk(PrepareFresh(f, l, most), LAMBDA p :
         IF p.run > 0 THEN p
         ELSE Then(GetBlock(f, l, FALSE), LAMBDA first :
                   Contiguous(first, l, first.ret, 1, most)))

RECURSIVE WriteLoop(_, _, _, _)
WriteLoop(f, off, data, done) ==
    LET l == (off + done) \div BlockSize
        at == (off + done) % BlockSize
        left == Len(data) - done
        most == Min({left \div BlockSize, Chunk})
        n == Min({BlockSize - at, left})
        patched(old) == FileBlock([k \in 0..(BlockSize - 1) |->
                            IF k \in at..(at + n - 1) THEN data[done + (k - at) + 1]
                            ELSE ByteOf(old, k)]) IN
    IF ~f.ok \/ left = 0 THEN f
    ELSE IF at = 0 /\ left >= BlockSize THEN
        IfOk(NextBlocks(f, l, most), LAMBDA c :
             WriteLoop(PutBlocks(c, c.ret, c.run, data, done), off, data,
                       done + c.run * BlockSize))
    ELSE IfOk(GetBlock(f, l, TRUE), LAMBDA g :
              WriteLoop(Put(g, g.ret, patched(g.data[g.ret])), off, data, done + n))

(* write_file_range on the inode i, a copy of which is f.v.                *)
WriteRange(f, i, off, data) ==
    IF ~f.ok THEN f
    ELSE IfOk(DeferEnd(WriteLoop(DeferBegin(f), off, data, 0)), LAMBDA e :
              WriteBack([e EXCEPT !.v.size = Max({@, off + Len(data)})], i))


Truncate(f, i) ==
    IF ~f.ok THEN f
    ELSE IfOk(DeferEnd(FreeInodeBlocks(DeferBegin(f))), LAMBDA e : WriteBack(e, i))

(* The pointer to logical block l goes.                                    *)
ClearLogical(f, l) ==
    LET x == l - Direct - Ptrs
        single == l < Direct + Ptrs
        holder == IF single THEN f.v.ptr[Direct]
                  ELSE PtrsOf(f, f.v.ptr[Direct + 1])[x \div Ptrs] IN
    IF l < Direct THEN [f EXCEPT !.v.ptr[l] = 0, !.v.n = @ - 1]
    ELSE IfOk(SetPtr(f, holder, IF single THEN l - Direct ELSE x % Ptrs, 0),
              LAMBDA s : [s EXCEPT !.v.n = @ - 1])


(* free_logical_block.                                                     *)
FreeLogical(f, l) ==
    IF ~f.ok \/ BlockOf(f, f.v, l) = 0 THEN f
    ELSE IfOk(FreeBlock(f, BlockOf(f, f.v, l)), LAMBDA g : ClearLogical(g, l))

(* free_empty_indirect_blocks.                                             *)
FreePtr(f, j) ==
    IfOk(FreeBlock(f, f.v.ptr[j]),
         LAMBDA g : [g EXCEPT !.v.ptr[j] = 0, !.v.n = @ - 1])
FreeEmptySingle(f) ==
    IF f.ok /\ f.v.ptr[Direct] # 0 /\ PtrsOf(f, f.v.ptr[Direct]) = NoPtrs
    THEN FreePtr(f, Direct) ELSE f
FreeEmptyDouble(f) ==
    LET double == f.v.ptr[Direct + 1]
        outers == PtrsOf(f, double)
        empty == {j \in DOMAIN outers : outers[j] # 0 /\ PtrsOf(f, outers[j]) = NoPtrs}
        left == [j \in DOMAIN outers |-> IF j \in empty THEN 0 ELSE outers[j]]
        freed == FoldLeft(LAMBDA r, j : IfOk(FreeBlock(r, outers[j]),
                                             LAMBDA s : [s EXCEPT !.v.n = @ - 1]),
                          f, SetToSortSeq(empty, <)) IN
    IF ~f.ok \/ double = 0 THEN f
    ELSE IfOk(Put(freed, double, PtrBlock(left)),
              LAMBDA w : IF left = NoPtrs THEN FreePtr(w, Direct + 1) ELSE w)
FreeEmptyIndirect(f) == FreeEmptyDouble(FreeEmptySingle(f))

(* resize_file.                                                            *)
FreeBlocksFrom(f, size) ==
    LET old == BlockCount(f.v)
        new == (size + BlockSize - 1) \div BlockSize IN
    DeferEnd(FreeEmptyIndirect(FoldLeft(FreeLogical, DeferBegin(f),
                                        [j \in 1..(old - new) |-> new + j - 1])))
ZeroTail(f, b, from) ==
    IF from = 0 \/ b = 0 THEN f
    ELSE Put(f, b, FileBlock([k \in 0..(BlockSize - 1) |->
                                IF k >= from THEN 0 ELSE ByteOf(f.data[b], k)]))

(* The end of the last block keeps its old bytes.                          *)
MutShrink(f, i, size) ==
    IfOk(FreeBlocksFrom(f, size), LAMBDA e : WriteBack([e EXCEPT !.v.size = size], i))

Shrink(f, i, size) ==
    IfOk(FreeBlocksFrom(f, size), LAMBDA e :
         WriteBack([ZeroTail(e, BlockOf(e, e.v, size \div BlockSize), size % BlockSize)
                       EXCEPT !.v.size = size], i))
ResizeFile(f, i, size) ==
    IF ~f.ok \/ size = f.v.size THEN f
    ELSE IF f.v.kind # "file" \/ size > MaxFile THEN [f EXCEPT !.ok = FALSE]
    ELSE IF size = 0 THEN Truncate(f, i)
    ELSE IF size > f.v.size THEN WriteBack(WriteRange(f, i, size - 1, <<0>>), i)
    ELSE Shrink(f, i, size)

(* write_file_from_source.                                                 *)
RECURSIVE WriteChunks(_, _, _, _)
WriteChunks(f, i, data, off) ==
    LET n == Min({Len(data) - off, Chunk * BlockSize}) IN
    IF ~f.ok \/ off = Len(data) THEN f
    ELSE WriteChunks(WriteRange(f, i, off, SubSeq(data, off + 1, off + n)),
                     i, data, off + n)
WriteWhole(f, i, data) ==
    IF data = <<>> THEN Truncate(f, i)
    ELSE WriteBack(WriteChunks(Truncate(f, i), i, data, 0), i)

(******************************** directories ******************************)

EntriesIn(f, b) == IF b # 0 /\ f.data[b].t = "dir" THEN f.data[b].v ELSE <<>>
DirEntries(f, v, l) == EntriesIn(f, BlockOf(f, v, l))
LiveEntries(f, v) ==
    {e \in UNION {Range(DirEntries(f, v, l)) : l \in 0..(BlockCount(v) - 1)} : e.ino # 0}

(* dir_find_entry: the entry, or an entry of inode 0.                      *)
Find(f, v, name) ==
    IF v.kind = "dir" /\ \E e \in LiveEntries(f, v) : e.name = name
    THEN CHOOSE e \in LiveEntries(f, v) : e.name = name
    ELSE Entry(name, 0, "none")

Children(f, v) == {e \in LiveEntries(f, v) : e.name \notin {".", ".."}}

(* dir_add_entry to the directory d, a copy of whose inode is f.v: the     *)
(* first unused entry, the end of a block with room, or a new block.       *)
HasRoom(entries) ==
    Len(entries) < DirSlots \/ \E e \in Range(entries) : e.ino = 0
WithEntry(entries, e) ==
    LET holes == {j \in DOMAIN entries : entries[j].ino = 0} IN
    IF holes # {} THEN [entries EXCEPT ![Min(holes)] = e] ELSE Append(entries, e)
StoreEntry(f, d, l, entries, e) ==
    IfOk(GetBlock(f, l, TRUE), LAMBDA g :
         WriteBack(Put([g EXCEPT !.v.size = Max({@, (l + 1) * BlockSize})], g.ret,
                       DirBlock(WithEntry(entries, e))), d))
AddEntry(f, d, name, ino, type) ==
    LET blocks == Max({1, BlockCount(f.v)})
        room == {l \in 0..(blocks - 1) : HasRoom(DirEntries(f, f.v, l))} IN
    IF ~f.ok THEN f
    ELSE IF f.v.kind # "dir" \/ Find(f, f.v, name).ino # 0
            \/ (room = {} /\ blocks >= Direct)
         THEN [f EXCEPT !.ok = FALSE]
    ELSE Then(IF room # {} THEN Min(room) ELSE blocks, LAMBDA l :
              StoreEntry(f, d, l, IF l < blocks THEN DirEntries(f, f.v, l) ELSE <<>>,
                       Entry(name, ino, type)))

ClearEntry(f, d, b, name) ==
    WriteBack(Put(f, b, DirBlock([j \in DOMAIN f.data[b].v |->
                  IF f.data[b].v[j].name = name THEN [f.data[b].v[j] EXCEPT !.ino = 0]
                  ELSE f.data[b].v[j]])), d)
RemoveEntry(f, d, name) ==
    LET at == {l \in 0..(BlockCount(f.v) - 1) :
                 \E x \in Range(DirEntries(f, f.v, l)) : x.ino # 0 /\ x.name = name} IN
    IF ~f.ok THEN f
    ELSE IF f.v.kind # "dir" \/ at = {} THEN [f EXCEPT !.ok = FALSE]
    ELSE ClearEntry(f, d, BlockOf(f, f.v, Min(at)), name)

(*********************************** paths *********************************)

(* resolve_path_ex: the inode a path names, 0 when there is none.  at is   *)
(* the directory reached, textually dir; the target of a symbolic link is  *)
(* put in front of the rest of the path.                                   *)
RECURSIVE Walk(_, _, _, _, _, _)
RECURSIVE Enter(_, _, _, _, _, _)
Walk(f, path, follow, depth, at, dir) ==
    IF path = <<>> THEN at
    ELSE IF Head(path) = "." THEN Walk(f, Tail(path), follow, depth, at, dir)
    ELSE Enter(f, path, follow, depth, Find(f, f.inode[at], Head(path)).ino, dir)
Enter(f, path, follow, depth, ino, dir) ==
    LET rest == Tail(path)
        kind == f.inode[ino].kind
        up == IF dir = <<>> THEN <<>> ELSE Front(dir)
        whole(target) == (IF target.abs THEN <<>> ELSE dir) \o target.path \o rest IN
    IF ino = 0 THEN 0
    ELSE IF kind = "link" /\ (rest # <<>> \/ follow) THEN
        IF depth = MaxDepth THEN 0
        ELSE Walk(f, whole(Targets[Head(ReadFile(f, f.inode[ino]))]), follow,
                  depth + 1, Root, <<>>)
    ELSE IF rest = <<>> THEN ino
    ELSE IF kind # "dir" THEN 0
    ELSE Walk(f, rest, follow, depth, ino,
              IF Head(path) = ".." THEN up ELSE Append(dir, Head(path)))

Resolve(f, path) == Walk(f, path, TRUE, 0, Root, <<>>)
ResolveLink(f, path) == Walk(f, path, FALSE, 0, Root, <<>>)

(* resolve_create_path: the directory of the last name, 0 when there is    *)
(* none.                                                                   *)
OnlyDir(f, i) == IF i # 0 /\ f.inode[i].kind = "dir" THEN i ELSE 0
ParentOf(f, path) ==
    IF path = <<>> \/ Last(path) \in {".", ".."} THEN 0
    ELSE OnlyDir(f, Resolve(f, Front(path)))

(* The inode of a name in the directory d, without following a link.       *)
NamedIn(f, d, name) == IF d = 0 THEN 0 ELSE Find(f, f.inode[d], name).ino
Named(f, path) == NamedIn(f, ParentOf(f, path), Last(path))

-----------------------------------------------------------------------------

CONSTANTS
    Dirs,       \* paths directories are made at
    Sizes,      \* lengths of writes and new sizes of files
    Offsets,    \* where writes start
    Moves,      \* pairs of paths files are moved between
    Devs,       \* device numbers of special nodes
    Jobs,       \* calls, paths and a number of calls; a behaviour keeps to one
    MaxIo       \* the last write of a call that may fail

VARIABLES
    f,          \* the disk and the driver
    op,         \* the last call, and whether it succeeded
    job,        \* the calls of this behaviour
    ops         \* calls made so far

vars == <<f, op, job, ops>>

Fail(g) == [g EXCEPT !.ok = FALSE]
Retry(g) == [g EXCEPT !.ok = TRUE]      \* a cleanup call after a failure

(******************************** the calls ********************************)

(* create_file_in_parent, for the directory d.                             *)
NewFile(g, d, name) ==
    IfOk(AllocInode(g), LAMBDA a :
    IfOk(WriteInode(a, a.ret, NewInode("file", 1)), LAMBDA w :
    Then(AddEntry([w EXCEPT !.v = g.inode[d]], d, name, a.ret, "file"), LAMBDA x :
         IF x.ok THEN [x EXCEPT !.v = NewInode("file", 1), !.ret = a.ret]
         ELSE Fail(FreeInode(Retry(x), a.ret)))))
OldFile(g, i) ==
    IF g.inode[i].kind = "file" THEN [g EXCEPT !.v = g.inode[i], !.ret = i] ELSE Fail(g)
CreateFile(g, d, name) ==
    IF ~g.ok \/ d = 0 THEN Fail(g)
    ELSE Then(NamedIn(g, d, name),
              LAMBDA i : IF i # 0 THEN OldFile(g, i) ELSE NewFile(g, d, name))
CreatePath(g, path) == CreateFile(g, ParentOf(g, path), Last(path))

WritePath(g, path, data) ==
    Then(CreatePath(g, path), LAMBDA c :
         IF ~c.ok \/ Len(data) > MaxFile THEN Fail(c) ELSE WriteWhole(c, c.ret, data))

WriteAtPath(g, path, off, data) ==
    Then(Then(Resolve(g, path), LAMBDA i :
              IF i # 0 THEN [g EXCEPT !.v = g.inode[i], !.ret = i] ELSE CreatePath(g, path)),
         LAMBDA c :
         IF ~c.ok \/ off + Len(data) > MaxFile \/ c.v.kind # "file" THEN Fail(c)
         ELSE IF data = <<>> THEN c ELSE WriteRange(c, c.ret, off, data))

ResizePath(g, path, size) ==
    Then(Resolve(g, path), LAMBDA i :
         IF i = 0 THEN Fail(g) ELSE ResizeFile([g EXCEPT !.v = g.inode[i]], i, size))

(* The directory and the name of a path, for a call that makes or removes  *)
(* a name.                                                                 *)
InParent(g, path, Do(_, _)) ==
    Then(ParentOf(g, path), LAMBDA d : IF d = 0 THEN Fail(g) ELSE Do(d, Last(path)))

NewDir(b) == [NewInode("dir", 2) EXCEPT !.size = BlockSize, !.n = 1, !.ptr[0] = b]
MkdirIn(g, d, name) ==
    IF NamedIn(g, d, name) # 0 THEN Fail(g)
    ELSE
    IfOk(AllocInode(g), LAMBDA a :
    IfOk(AllocBlock(a, TRUE), LAMBDA b :
    IfOk(Put(WriteInode(b, a.ret, NewDir(b.ret)), b.ret,
             DirBlock(<<Entry(".", a.ret, "dir"), Entry("..", d, "dir")>>)), LAMBDA z :
    WriteBack([AddEntry([z EXCEPT !.v = g.inode[d]], d, name, a.ret, "dir")
                  EXCEPT !.v.links = @ + 1], d))))
Mkdir(g, path) == InParent(g, path, LAMBDA d, name : MkdirIn(g, d, name))

(* The name goes first; the inode and its blocks follow with the last one. *)
RmIn(g, d, name, i) ==
    IF i = 0 THEN Fail(g)
    ELSE IF g.inode[i].kind = "dir" THEN Fail(g)
    ELSE
    IfOk(RemoveEntry([g EXCEPT !.v = g.inode[d]], d, name), LAMBDA x :
         IF g.inode[i].links > 1
         THEN WriteInode(x, i, [g.inode[i] EXCEPT !.links = @ - 1])
         ELSE FreeInode(WriteInode(FreeInodeBlocks([x EXCEPT !.v = g.inode[i]]),
                                   i, NoInode), i))
Rm(g, path) == InParent(g, path, LAMBDA d, name : RmIn(g, d, name, NamedIn(g, d, name)))

RmdirIn(g, d, name, i) ==
    IF i \in {0, Root} THEN Fail(g)
    ELSE IF g.inode[i].kind # "dir" \/ Children(g, g.inode[i]) # {} THEN Fail(g)
    ELSE
    IfOk(FreeInodeBlocks([g EXCEPT !.v = g.inode[i]]), LAMBDA u :
    Then(RemoveEntry([u EXCEPT !.v = g.inode[d]], d, name), LAMBDA x :
    FreeInode(WriteInode(WriteBack([x EXCEPT !.v.links = IF @ > 0 THEN @ - 1 ELSE @], d),
                         i, NoInode), i)))
Rmdir(g, path) ==
    InParent(g, path, LAMBDA d, name : RmdirIn(g, d, name, NamedIn(g, d, name)))

LinkIn(g, d, name, i) ==
    IF i = 0 \/ NamedIn(g, d, name) # 0 THEN Fail(g)
    ELSE IF g.inode[i].kind = "dir" \/ g.inode[i].links = MaxLinks THEN Fail(g)
    ELSE WriteInode(AddEntry([g EXCEPT !.v = g.inode[d]], d, name, i, g.inode[i].kind),
                    i, [g.inode[i] EXCEPT !.links = @ + 1])
LinkPath(g, old, new) ==
    InParent(g, new, LAMBDA d, name : LinkIn(g, d, name, Resolve(g, old)))

(* ext2_symlink and ext2_mknod clean up after a failure.                   *)
Discard(g, i) == Fail(FreeInode(Retry(WriteInode(Retry(g), i, NoInode)), i))
NewNode(g, d, name, v, Fill(_)) ==
    IF NamedIn(g, d, name) # 0 THEN Fail(g)
    ELSE
    IfOk(AllocInode(g), LAMBDA a :
    Then(WriteInode(a, a.ret, v), LAMBDA w :
    IF ~w.ok THEN Fail(FreeInode(Retry(w), a.ret))
    ELSE
    Then(Fill([w EXCEPT !.v = v, !.ret = a.ret]), LAMBDA c :
    IF ~c.ok THEN Discard(c, a.ret)
    ELSE
    Then(AddEntry([c EXCEPT !.v = g.inode[d]], d, name, a.ret, v.kind), LAMBDA x :
    IF x.ok THEN x
    ELSE IF v.kind = "node" THEN Discard(x, a.ret)
    ELSE Discard(Truncate([Retry(x) EXCEPT !.v = c.v], a.ret), a.ret)))))
Symlink(g, target, path) ==
    InParent(g, path, LAMBDA d, name :
        NewNode(g, d, name, NewInode("link", 1),
                LAMBDA c : WriteRange(c, c.ret, 0, <<target>>)))
Mknod(g, path, dev) ==
    InParent(g, path, LAMBDA d, name :
        NewNode(g, d, name, [NewInode("node", 1) EXCEPT !.ptr[0] = dev], LAMBDA c : c))

(* ext2_chmod, ext2_chown, ext2_utimes, ext2_lutimes: the whole inode is   *)
(* written back with new attributes.                                       *)
SetAttr(g, i, a) ==
    IF i = 0 THEN Fail(g) ELSE WriteInode(g, i, [g.inode[i] EXCEPT !.attr = a])

(* A directory as destination stands for the name in it.                   *)
Into(g, src, dst) ==
    IF OnlyDir(g, Resolve(g, dst)) # 0 THEN Append(dst, Last(src)) ELSE dst

CopyFrom(g, i, path) ==
    IF i = 0 THEN Fail(g)
    ELSE IF g.inode[i].kind # "file" THEN Fail(g)
    ELSE WritePath(g, path, ReadFile(g, g.inode[i]))
Copy(g, src, dst) == CopyFrom(g, Resolve(g, src), Into(g, src, dst))

(* Both parents are read before the first write.                           *)
MoveEntry(g, s, e, d, name) ==
    IF e.ino = 0 \/ NamedIn(g, d, name) # 0 THEN Fail(g)
    ELSE
    IfOk(AddEntry([g EXCEPT !.v = g.inode[d]], d, name, e.ino, e.type), LAMBDA x :
         RemoveEntry([x EXCEPT !.v = g.inode[s]], s, e.name))
Move(g, src, dst) ==
    InParent(g, src, LAMBDA s, name :
    InParent(g, Into(g, src, dst), LAMBDA d, to :
        MoveEntry(g, s, Find(g, g.inode[s], name), d, to)))

(********************************* behaviour *******************************)

NoOp == [call |-> "none", path |-> <<>>, to |-> <<>>, off |-> 0, data |-> <<>>,
         ok |-> TRUE, fault |-> FALSE, short |-> FALSE]

(* An empty volume as the image builder leaves it.                         *)
EmptyDisk ==
    LET root == [NewInode("dir", 2) EXCEPT !.size = BlockSize, !.n = 1,
                                           !.ptr[0] = FirstData] IN
    [inode |-> [i \in Inodes |-> IF i = Root THEN root ELSE NoInode],
     data |-> [b \in DataBlocks |->
                 IF b = FirstData
                 THEN DirBlock(<<Entry(".", Root, "dir"), Entry("..", Root, "dir")>>)
                 ELSE Zero],
     bb |-> {FirstData}, ib |-> {Root}, mbb |-> {}, mib |-> {},
     bdirty |-> FALSE, idirty |-> FALSE, depth |-> 0, next |-> FirstData,
     v |-> NoInode, ret |-> 0, run |-> 0, ok |-> TRUE, n |-> 0, fail |-> 0,
     cut |-> FALSE]

Init ==
    /\ f = Mount(EmptyDisk)
    /\ op = NoOp
    /\ job \in Jobs
    /\ ops = 0

(* What stays of a call.                                                   *)
Rest(g) == [g EXCEPT !.v = NoInode, !.ret = 0, !.run = 0, !.ok = TRUE, !.n = 0,
                     !.fail = 0, !.cut = FALSE]

(* One call: its k-th block write fails (k = 0: none), or power is lost    *)
(* there and the volume is mounted again.  A call that fails for lack of   *)
(* room after it began to write leaves op.short; after a fault the         *)
(* behaviour ends.                                                         *)
Call(call, path, to, off, data, Run(_)) ==
    /\ call \in job.calls
    /\ ops < job.most
    /\ ~op.fault
    /\ \E k \in 0..Min({MaxIo, Run(f).n}), cut \in BOOLEAN :
         /\ k = 0 => ~cut
         /\ LET r == Run([f EXCEPT !.fail = k, !.cut = cut]) IN
            /\ f' = IF cut THEN Rest(Mount(r)) ELSE Rest(r)
            /\ op' = [call |-> call, path |-> path, to |-> to, off |-> off,
                      data |-> data, ok |-> r.ok /\ ~cut, fault |-> k # 0,
                      short |-> op.short \/ (~r.ok /\ Rest(r) # f)]
    /\ ops' = ops + 1
    /\ UNCHANGED job

Bytes(n) == [k \in 1..n |-> ops + 1]

DoWrite(p, n) == Call("write", p, p, 0, Bytes(n), LAMBDA g : WritePath(g, p, Bytes(n)))
DoWriteAt(p, off, n) ==
    Call("write at", p, p, off, Bytes(n), LAMBDA g : WriteAtPath(g, p, off, Bytes(n)))
DoResize(p, n) == Call("resize", p, p, n, <<>>, LAMBDA g : ResizePath(g, p, n))
DoMkdir(p) == Call("mkdir", p, p, 0, <<>>, LAMBDA g : Mkdir(g, p))
DoRm(p) == Call("rm", p, p, 0, <<>>, LAMBDA g : Rm(g, p))
DoRmdir(p) == Call("rmdir", p, p, 0, <<>>, LAMBDA g : Rmdir(g, p))
DoLink(p, q) == Call("link", p, q, 0, <<>>, LAMBDA g : LinkPath(g, p, q))
DoSymlink(t, p) == Call("symlink", p, p, 0, <<t>>, LAMBDA g : Symlink(g, t, p))
DoMknod(p, dev) == Call("mknod", p, p, dev, <<>>, LAMBDA g : Mknod(g, p, dev))
DoChmod(p) == Call("chmod", p, p, 0, <<>>, LAMBDA g : SetAttr(g, Resolve(g, p), ops + 1))
DoLutimes(p) ==
    Call("lutimes", p, p, 0, <<>>, LAMBDA g : SetAttr(g, ResolveLink(g, p), ops + 1))
DoCopy(p, q) == Call("copy", p, q, 0, <<>>, LAMBDA g : Copy(g, p, q))
DoMove(p, q) == Call("move", p, q, 0, <<>>, LAMBDA g : Move(g, p, q))

(* ext2_stat_info, ext2_read_at_path, ext2_readlink, ext2_dirents_read: a  *)
(* lookup changes nothing.                                                 *)
Look(p) == UNCHANGED vars

Next ==
    \E p \in job.paths :
        \/ \E n \in Sizes : DoWrite(p, n)
        \/ \E n \in Sizes \ {0}, off \in Offsets : DoWriteAt(p, off, n)
        \/ \E n \in Sizes : DoResize(p, n)
        \/ p \in Dirs /\ DoMkdir(p)
        \/ DoRm(p)
        \/ DoRmdir(p)
        \/ \E q \in job.paths : DoLink(p, q)
        \/ \E t \in DOMAIN Targets : DoSymlink(t, p)
        \/ \E dev \in Devs : DoMknod(p, dev)
        \/ DoChmod(p)
        \/ DoLutimes(p)
        \/ \E q \in job.paths : DoCopy(p, q)
        \/ \E q \in {m[2] : m \in {x \in Moves : x[1] = p}} : DoMove(p, q)
        \/ Look(p)

Spec == Init /\ [][Next]_vars

(******************************** properties *******************************)

(* The blocks an inode holds, pointer blocks included; a special node's    *)
(* block[0] is its device number.                                          *)
BlocksOf(g, i) ==
    IF g.inode[i].kind = "node" THEN <<>>
    ELSE SelectSeq(BlocksInOrder(g, g.inode[i]), LAMBDA b : b # 0)
LiveInodes(g) == {i \in g.mib : g.inode[i].kind # "free"}
HeldBlocks(g) == UNION {Range(BlocksOf(g, i)) : i \in LiveInodes(g)}
NamesOf(g) ==
    UNION {{[dir |-> d, name |-> e.name, ino |-> e.ino] : e \in Children(g, g.inode[d])} :
              d \in {i \in LiveInodes(g) : g.inode[i].kind = "dir"}}
NodesOf(g) ==
    [i \in LiveInodes(g) |->
        LET v == g.inode[i] IN
        [kind |-> v.kind, attr |-> v.attr,
         bytes |-> IF v.kind \in {"file", "link"} THEN ReadFile(g, v) ELSE <<>>]]

(* Every block of a file, directory or link is marked in use in the bitmap *)
(* the driver allocates from and belongs to nothing else, and every name   *)
(* refers to an inode in use, also after calls that ran out of room: what  *)
(* the order of alloc_block, write_inode and free_block keeps true.        *)
BlocksSafe ==
    ~op.fault =>
        /\ HeldBlocks(f) \subseteq f.mbb
        /\ \A i \in LiveInodes(f) : IsInjective(BlocksOf(f, i))
        /\ \A i, j \in LiveInodes(f) :
              i # j => Range(BlocksOf(f, i)) \cap Range(BlocksOf(f, j)) = {}
        /\ \A x \in NamesOf(f) : x.ino \in LiveInodes(f)

(* While no call has failed half way: the bitmaps mark nothing else, each  *)
(* inode counts its blocks, and its link count is the number of its names  *)
(* (for a directory two, and one per directory in it).                     *)
NothingLeaked ==
    ~op.fault /\ ~op.short =>
        /\ f.mbb = HeldBlocks(f)
        /\ f.mib = {Root} \cup {x.ino : x \in NamesOf(f)}
        /\ \A i \in LiveInodes(f) :
              LET v == f.inode[i]
                  named == {x \in NamesOf(f) : x.ino = i}
                  below == {x \in NamesOf(f) : x.dir = i /\ f.inode[x.ino].kind = "dir"} IN
              /\ v.n = Len(BlocksOf(f, i))
              /\ v.links = IF v.kind = "dir" THEN 2 + Cardinality(below)
                           ELSE Cardinality(named)

Tree == INSTANCE FileTree WITH names <- NamesOf(f), node <- NodesOf(f)

(* The file a path names becomes the abstract one: new bytes for the file  *)
(* that is there, or a new file.                                           *)
Wrote(path, i, Bytes0(_)) ==
    IF i # 0 THEN Tree!Replace(i, Bytes0(ReadFile(f, f.inode[i])))
    ELSE \E j \in Inodes : Tree!Make(ParentOf(f, path), Last(path), j, "file", Bytes0(<<>>))
Succeeded(call) == op'.call = call /\ op'.ok /\ ~op.short /\ ops' # ops
NameAt(path) == [dir |-> ParentOf(f, path), name |-> Last(path), ino |-> Named(f, path)]
Added(path, kind, bytes) ==
    \E j \in Inodes : Tree!Make(ParentOf(f, path), Last(path), j, kind, bytes)

(* Each call that succeeds, while none has failed half way, does to names  *)
(* and contents exactly what it promises, however the blocks are laid out: *)
(* bytes outside a write are kept, gaps and grown files read as zeros, a   *)
(* shrunk file that grows again does not show old bytes, links share one   *)
(* file.                                                                   *)
PromisedStep ==
    LET p == op'.path  q == op'.to IN
    /\ Succeeded("write") => Wrote(p, Named(f, p), LAMBDA s : op'.data)
    /\ Succeeded("write at") =>
          Wrote(p, Resolve(f, p), LAMBDA s : Tree!Patched(s, op'.off, op'.data))
    /\ Succeeded("resize") => Tree!Resize(Resolve(f, p), op'.off)
    /\ Succeeded("mkdir") => Added(p, "dir", <<>>)
    /\ Succeeded("symlink") => Added(p, "link", op'.data)
    /\ Succeeded("mknod") => Added(p, "node", <<>>)
    /\ Succeeded("rm") \/ Succeeded("rmdir") => Tree!Unlink(NameAt(p))
    /\ Succeeded("link") =>
          Tree!Link([dir |-> ParentOf(f, q), name |-> Last(q), ino |-> Resolve(f, p)])
    /\ Succeeded("chmod") => Tree!SetAttr(Resolve(f, p), ops + 1)
    /\ Succeeded("lutimes") => Tree!SetAttr(ResolveLink(f, p), ops + 1)
    /\ Succeeded("copy") =>
          Wrote(Into(f, p, q), Named(f, Into(f, p, q)),
                LAMBDA s : ReadFile(f, f.inode[Resolve(f, p)]))
    /\ Succeeded("move") =>
          Tree!Move(NameAt(p), ParentOf(f, Into(f, p, q)), Last(Into(f, p, q)))

(* What a call names: the inodes it may write.                             *)
Touched(g, p) == {Resolve(g, p), ResolveLink(g, p), ParentOf(g, p)}

(* A call that fails for lack of room, meets a failing write or is cut by  *)
(* power loss leaves every other file and directory as it was, its blocks  *)
(* and inode still marked in use on the disk and in memory.                *)
OthersStep ==
    ~op'.ok =>
      \A i \in LiveInodes(f) \ (Touched(f, op'.path) \cup Touched(f, op'.to)
                                   \cup Touched(f, Into(f, op'.path, op'.to))) :
          /\ f'.inode[i] = f.inode[i]
          /\ i \in f'.ib \cap f'.mib
          /\ \A b \in Range(BlocksOf(f, i)) :
                f'.data[b] = f.data[b] /\ b \in f'.bb \cap f'.mbb

(* A rename that succeeds leaves the file under its new name.              *)
RenamedFileNamed ==
    [][ Succeeded("move") => Named(f', Into(f, op'.path, op'.to)) = Named(f, op'.path) ]_vars
=============================================================================
