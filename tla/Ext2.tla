-------------------------------- MODULE Ext2 --------------------------------
(***************************************************************************)
(* The read-only ext2 driver (kernel/fs/ext2fs/ext2.c) on one image: a     *)
(* file, and a directory, of an ext2 partition.  The byte at address a of  *)
(* the drive has the value a, so that a buffer shows which bytes it holds. *)
(* The drive itself is modelled in Ata.                                    *)
(***************************************************************************)
EXTENDS Integers, Sequences, FiniteSets, SequencesExt, FiniteSetsExt

CONSTANTS Images,     \* partitions: see ImageOK
          BlockSize,  \* bytes in a block (1024 or more)
          PtrSize,    \* bytes in a block pointer (4)
          Direct,     \* direct block pointers in an inode (12)
          Word        \* the range of uint32_t (2^32)

PPB == BlockSize \div PtrSize

\* [signature, state, onerror, blocks, bpg, inodes, ipg: of the superblock;
\*  poff: where the partition starts; file, size: the file's type and size;
\*  base: its first block, its others follow; singly: its indirect block;
\*  junk: what other bytes look like when they are taken for a pointer;
\*  dir: the directory's blocks, each a sequence of entries [ino, len]]
ImageOK(g) == /\ g.poff > 0 /\ g.bpg > 0 /\ g.ipg > 0
              /\ \A k \in DOMAIN g.dir : FoldLeft(LAMBDA n, e : n + e.len, 0, g.dir[k]) = BlockSize

ASSUME Ext2Constants == /\ PtrSize \in Nat \ {0} /\ BlockSize % PtrSize = 0 /\ Direct > 0
                        /\ \A g \in Images : ImageOK(g)

VARIABLES img,    \* the image
          fs,     \* [st, groups]: "none", "mounted", "rejected", "panic"
          dir,    \* the DIR: [block, bp_index, at], or "closed"
          listed, \* the inode numbers readdir has returned since opendir
          junkBp, \* ghost: the bp_index that opendir found in the memory it got
          rf,     \* the last call of readfile: [offset, size, ret, buf, past]
          leaked  \* inodes read by readfile and not freed

ext2Vars == <<img, fs, dir, listed, junkBp, rf, leaked>>

CeilDiv(a, b) == a \div b + (IF a % b = 0 THEN 0 ELSE 1)

----------------------------------------------------------------------------
groups_count(g) == Max({CeilDiv(g.blocks, g.bpg), CeilDiv(g.inodes, g.ipg)})

ext2_init ==
    /\ fs.st = "none"
    /\ fs' = CASE ~img.signature -> [st |-> "rejected", groups |-> 0]
               [] img.signature /\ img.state = "error" /\ img.onerror = "panic" -> [st |-> "panic", groups |-> 0]
               [] OTHER -> [st |-> "mounted", groups |-> groups_count(img)]
    /\ UNCHANGED <<img, dir, listed, junkBp, rf, leaked>>

\* <<group, index>> of an inode
ext2_get_inode_offset(i) == <<(i - 1) \div img.ipg, (i - 1) % img.ipg>>

----------------------------------------------------------------------------
(* Blocks of the file *)

\* block_pointer * block_size, both uint32_t
Offset32(block) == (block * BlockSize) % Word

Place(b) == img.base + b    \* where the file's block b is

\* the pointer at an address of the drive
ReadPtr(addr) ==
    LET k == addr - (img.poff + img.singly * BlockSize) IN
    IF k >= 0 /\ k < BlockSize /\ k % PtrSize = 0 THEN Place(Direct + (k \div PtrSize)) ELSE img.junk

\* the result contains the partition's offset, which the callers add again
ext2_get_sbptr_offset(index) ==
    img.poff + Offset32(ReadPtr(img.poff + Offset32(img.singly) + index))

\* goes through the inode's singly indirect block too
ext2_get_dbptr_offset(index1, index2) ==
    img.poff + Offset32(ReadPtr(Offset32(ReadPtr(ext2_get_sbptr_offset(index1))) + index2))

ext2_get_tbptr_offset(index1, index2, index3) ==
    img.poff + Offset32(ReadPtr(Offset32(ReadPtr(ext2_get_dbptr_offset(index1, index2))) + index3))

IsDirect(b) == b < Direct

\* relative to the partition for a direct block, 0 beyond the triply indirect ones
ext2_get_block_offset(b) ==
    LET i == b - Direct
        j == i - PPB
        k == j - PPB * PPB
    IN  (CASE IsDirect(b) -> Offset32(Place(b))
           [] ~IsDirect(b) /\ i < PPB -> ext2_get_sbptr_offset(i * PtrSize)
           [] i >= PPB /\ j < PPB * PPB -> ext2_get_dbptr_offset(j \div PPB, j % PPB)
           [] j >= PPB * PPB /\ k < PPB * PPB * PPB ->
                ext2_get_tbptr_offset(k \div (PPB * PPB), (k % (PPB * PPB)) \div PPB, k % PPB)
           [] OTHER -> 0) % Word

----------------------------------------------------------------------------
(* ext2_readfile *)

\* ATA_read_b into the start of a buffer of n bytes
Fetch(addr, count, n) == [i \in 0 .. n - 1 |-> IF i < count THEN addr + i ELSE -1]

ReadReturn(offset, size, ret, buf, past, lost) ==
    /\ rf' = [offset |-> offset, size |-> size, ret |-> ret, buf |-> buf, past |-> past]
    /\ leaked' = leaked + lost
    /\ UNCHANGED <<img, fs, dir, listed, junkBp>>

\* mutant: the end of the read is not cut off at the end of the file
ReadEnd_variant(offset, size) == offset + size

ReadEnd(offset, size) == Min({offset + size, img.size})

TooMuch(size) == size > img.size

\* Of the blocks before the last one only the first is read: the branch for the
\* last one is inside a loop that stops before it.  The zero at buffer[inode->size]
\* is not one of the `size' bytes of the buffer.
ext2_readfile(offset, size) ==
    LET end == ReadEnd(offset, size)
        first == offset \div BlockSize
        last == end \div BlockSize
        from(b) == img.poff + ext2_get_block_offset(b)
        lostBlock == \E b \in first .. last - 1 : ext2_get_block_offset(b) = 0
        got == [i \in 0 .. size - 1 |-> -1]
    IN  /\ fs.st = "mounted"
        /\ CASE size = 0 \/ ~img.file \/ img.size = 0 \/ TooMuch(size) ->
                    ReadReturn(offset, size, 0, got, FALSE, 0)
             [] OTHER ->
                    IF first = last
                    THEN ReadReturn(offset, size, size,
                             Fetch(from(first) + (offset % BlockSize), size, size), FALSE, 1)
                    ELSE IF lostBlock THEN ReadReturn(offset, size, 0, got, FALSE, 1)
                    ELSE ReadReturn(offset, size, size,
                             Fetch(from(first) + (offset % BlockSize),
                                   BlockSize - (offset % BlockSize), size), TRUE, 0)

----------------------------------------------------------------------------
(* Directories *)

\* The memset clears the first word of the DIR: bp_index is what was in memory.
ext2_opendir(junk) ==
    /\ fs.st = "mounted" /\ dir.open = FALSE
    /\ dir' = [open |-> TRUE, block |-> 1, bp_index |-> junk, at |-> 1, so_far |-> 0]
    /\ listed' = <<>> /\ junkBp' = junk
    /\ UNCHANGED <<img, fs, rf, leaked>>

\* the next block of the directory, by its number, 0 when there is none
NextBlock(bp) == IF bp + 1 < Len(img.dir) THEN bp + 2 ELSE 0

Unused(e) == e.ino = 0

\* ext2_readdir: returns an entry, or nothing, which ends the caller's loop
ext2_readdir ==
    LET here == dir.so_far < BlockSize
        block == IF here THEN dir.block ELSE NextBlock(dir.bp_index)
        e == IF block = 0 THEN [ino |-> 0, len |-> 0] ELSE img.dir[block][IF here THEN dir.at ELSE 1]
    IN  /\ dir.open
        /\ IF block = 0 \/ Unused(e)
           THEN dir' = [dir EXCEPT !.open = FALSE] /\ UNCHANGED listed   \* and ext2_closedir
           ELSE /\ dir' = [open |-> TRUE, block |-> block,
                           bp_index |-> IF here THEN dir.bp_index ELSE dir.bp_index + 1,
                           at |-> (IF here THEN dir.at ELSE 1) + 1,
                           so_far |-> (IF here THEN dir.so_far ELSE 0) + e.len]
                /\ listed' = Append(listed, e.ino)
        /\ UNCHANGED <<img, fs, junkBp, rf, leaked>>

----------------------------------------------------------------------------
NoRead == [offset |-> 0, size |-> 0, ret |-> 0, buf |-> [i \in {} |-> 0], past |-> FALSE]

Ext2Init(images) ==
    /\ img \in images
    /\ fs = [st |-> "none", groups |-> 0]
    /\ dir = [open |-> FALSE] /\ listed = <<>> /\ junkBp = 0
    /\ rf = NoRead /\ leaked = 0

\* one call of readfile, or one listing, after mounting
Ext2Next ==
    \/ ext2_init
    \/ rf = NoRead /\ listed = <<>> /\ ~dir.open
       /\ \E offset \in 0 .. img.size, size \in 0 .. img.size + 1 : ext2_readfile(offset, size)
    \/ listed = <<>> /\ rf = NoRead /\ \E junk \in 0 .. 1 : ext2_opendir(junk)
    \/ ext2_readdir

Ext2Stops == fs.st # "none" /\ ~dir.open /\ UNCHANGED ext2Vars

----------------------------------------------------------------------------
(* Properties *)

\* Every inode number belongs to a group whose descriptor was read, and no two
\* to the same place of a table.
InodesInGroups ==
    fs.st = "mounted" =>
        /\ \A i \in 1 .. img.inodes : ext2_get_inode_offset(i)[1] < fs.groups
        /\ \A i, j \in 1 .. img.inodes : i # j => ext2_get_inode_offset(i) # ext2_get_inode_offset(j)

FileBlocks == 0 .. CeilDiv(img.size, BlockSize) - 1
TrueAddr(k) == img.poff + Place(k \div BlockSize) * BlockSize + (k % BlockSize)

\* Exactly the blocks with a direct pointer, below 2^32 bytes, are found; all
\* others are looked for elsewhere on the drive.
DirectFound ==
    fs.st = "mounted" =>
        \A b \in FileBlocks :
            img.poff + ext2_get_block_offset(b) = TrueAddr(b * BlockSize)
                <=> b < Direct /\ Place(b) * BlockSize < Word

\* Among the direct blocks, a read that succeeds hands out the file's bytes iff
\* they lie in one block: of all others the buffer's rest is left as it was.  If
\* they do not end inside the block, a byte behind the buffer is written.
ReadExact ==
    LET want == Min({rf.size, img.size - rf.offset})
        end == rf.offset + want
        right == \A i \in 0 .. want - 1 : rf.buf[i] = TrueAddr(rf.offset + i)
        oneBlock == rf.offset \div BlockSize = (end - 1) \div BlockSize
    IN  rf.ret > 0 /\ want > 0 /\ end <= Direct * BlockSize /\ Place(Direct) * BlockSize < Word =>
            /\ right <=> oneBlock
            /\ rf.past <=> rf.offset \div BlockSize # end \div BlockSize

\* A read never returns more than the file holds in all (though more than there
\* is from its offset on), and each one that succeeds either writes behind its
\* buffer or keeps the memory of the inode.
ReadBounded == rf.ret <= img.size /\ (rf.ret > 0 => (rf.past <=> leaked = 0))

\* From superblock to bytes: every inode has a group, direct blocks are found, and a
\* read gives what the file holds within the stated limits, never more.
FileRight == InodesInGroups /\ DirectFound /\ ReadExact /\ ReadBounded

AllEntries == FoldLeft(LAMBDA s, b : s \o [i \in 1 .. Len(b) |-> b[i].ino], <<>>, img.dir)

\* A finished listing is complete iff no unused entry comes before a used one
\* and the directory has one block, or the memory of the DIR happened to be zero.
ListingComplete ==
    listed # <<>> /\ ~dir.open =>
        (listed = SelectSeq(AllEntries, LAMBDA i : i # 0)
            <=> /\ \A i, j \in DOMAIN AllEntries : i < j /\ AllEntries[j] # 0 => AllEntries[i] # 0
                /\ Len(img.dir) = 1 \/ junkBp = 0
                   \/ \A i \in DOMAIN AllEntries : i > Len(img.dir[1]) => AllEntries[i] = 0)

\* What ext2.c finds in an image: the bytes of a file and the entries of a directory
\* are right exactly within the limits the parts state.
ImageRight == FileRight /\ ListingComplete
=============================================================================
