------------------------------- MODULE TmpFile -------------------------------
(***************************************************************************)
(* A file of tmpfs (tmpfs_vfs_read, tmpfs_vfs_write in                     *)
(* kernel/fs/tmpfs/tmpfs.c): its memory, taken from the kernel heap, and   *)
(* its size.  A descriptor's offset stays 0, as nothing calls fd_seek.     *)
(* Write number k fills its bytes with k; memory not written holds 0.      *)
(***************************************************************************)
EXTENDS Integers, Sequences, SequencesExt, FiniteSetsExt

CONSTANTS MaxWrite,   \* bound on the bytes of a write
          MaxWrites   \* bound on the number of writes

ASSUME TmpConstants == MaxWrite \in Nat /\ MaxWrites \in Nat

VARIABLES tsize,  \* node->size
          tmem,   \* the memory at node->inode: a sequence, <<>> before the first write
          sizes,  \* ghost: the sizes of the writes
          spill,  \* ghost: a write went beyond the memory
          stray,  \* ghost: a read, or the copy of krealloc, did
          tread   \* what the last read returned

tmpVars == <<tsize, tmem, sizes, spill, stray, tread>>

Zeros(n) == [i \in 1 .. n |-> 0]

\* mutant: the new block is as large as what the file grows by
krealloc_variant(old, n) == SubSeq(old \o Zeros(n), 1, n - tsize)

\* copies n bytes, more than the old block has
krealloc(old, n) == SubSeq(old \o Zeros(n), 1, n)

tmpfs_vfs_write(n) ==
    LET fresh == IF tmem = <<>> THEN Zeros(n) ELSE tmem
        mem == IF tsize < n THEN krealloc(fresh, n) ELSE fresh
        k == Len(sizes) + 1
    IN  /\ Len(sizes) < MaxWrites
        /\ tmem' = [i \in DOMAIN mem |-> IF i <= n THEN k ELSE mem[i]]
        /\ spill' = (spill \/ n > Len(mem))
        /\ stray' = (stray \/ (tsize < n /\ n > Len(fresh)))
        /\ tsize' = tsize + n
        /\ sizes' = Append(sizes, n)
        /\ tread' = <<>>

ReadSize(offset, n) == IF offset + n > tsize THEN tsize - offset ELSE n

tmpfs_vfs_read(offset, n) ==
    LET count == IF offset >= tsize THEN 0 ELSE ReadSize(offset, n) IN
    /\ stray' = (stray \/ (count > 0 /\ offset + count > Len(tmem)))
    /\ tread' = <<offset, SubSeq(tmem, offset + 1, Min({offset + count, Len(tmem)})), count>>
    /\ UNCHANGED <<tsize, tmem, sizes, spill>>

TmpNext == \/ \E n \in 1 .. MaxWrite : tmpfs_vfs_write(n)
           \/ \E offset \in 0 .. 1, n \in 1 .. MaxWrite : tmpfs_vfs_read(offset, n)

TmpInit == tsize = 0 /\ tmem = <<>> /\ sizes = <<>> /\ spill = FALSE /\ stray = FALSE /\ tread = <<>>

TmpSpec == TmpInit /\ [][TmpNext]_tmpVars

----------------------------------------------------------------------------
\* The first two writes stay within the file's memory.  (The third may not: the
\* size is the sum of the writes, the memory that of the largest so far.)
TwoWritesFit == spill => Len(sizes) > 2

\* A file written once reads back what was written, and nothing behind it.
ReadsBack ==
    Len(sizes) = 1 /\ tread # <<>> =>
        /\ ~stray
        /\ tread[2] = [i \in 1 .. Min({tread[3], Max({0, sizes[1] - tread[1]})}) |-> 1]
        /\ Len(tread[2]) = tread[3]

\* A tmpfs file written once reads back what was written, and its memory holds two
\* writes that follow each other.
TmpRight == TwoWritesFit /\ ReadsBack
=============================================================================
