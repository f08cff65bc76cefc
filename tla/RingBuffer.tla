----------------------------- MODULE RingBuffer -----------------------------
(***************************************************************************)
(* The ring buffer behind a task's standard input (kernel/fs/pipe.c): the  *)
(* task reads it through read(0, ...) with interrupts enabled, while the   *)
(* keyboard interrupt (kbd_event) writes to it.  The interrupt handler is  *)
(* one step; the reader is interruptible between any two accesses.         *)
(***************************************************************************)
EXTENDS Integers, Sequences, FiniteSets

CONSTANTS Bytes,
          Size,           \* rb->size, 256 for standard input
          IndexRange,     \* the indices are uint8_t: 256
          InitialCount,   \* valid_data_size as kmalloc left it
          ReadSizes,      \* sizes the program passes to read
          Burst,          \* unread keystrokes the typist leaves at most
          MaxTyped        \* bound: keystrokes in a behaviour

ASSUME SizeAssumption == Size \in Nat /\ 1 <= Size /\ Size <= IndexRange /\ IndexRange \in Nat
ASSUME InputAssumption == /\ InitialCount \subseteq Nat /\ ReadSizes \subseteq Nat
                          /\ Burst \in Nat /\ MaxTyped \in Nat

VARIABLES buffer, read_index, write_index, valid_data_size,
          pc,             \* where the reader stands
          wanted,         \* bytes the current rb_read still has to deliver
          seen, byte,     \* registers of rb_read_byte
          written, got,   \* history: bytes written, bytes delivered
          raced,          \* history: a keystroke fell between test and decrement
          overflowed      \* history: a keystroke came with Size bytes unread

ring == <<buffer, write_index>>
reader == <<read_index, wanted, seen, byte, got>>
vars == <<buffer, read_index, write_index, valid_data_size, pc, wanted, seen,
          byte, written, got, raced, overflowed>>

Unread == Len(written) - Len(got)

\* make_rb; the memory is what kmalloc returned.
Init ==
  /\ buffer \in [0..(Size - 1) -> Bytes]
  /\ read_index = 0 /\ write_index = 0
  /\ valid_data_size \in InitialCount
  /\ pc = "user" /\ wanted = 0 /\ seen = 0
  /\ byte \in Bytes
  /\ written = << >> /\ got = << >> /\ raced = FALSE
  /\ overflowed = FALSE

\* ++ on a uint8_t, then % size.
Advanced_no_wrap(index) == (index + 1) % IndexRange
Advanced(index) == ((index + 1) % IndexRange) % Size

\* kbd_event -> rb_vfs_write -> rb_write of one byte.
rb_write_byte_uncapped ==
  /\ Unread < Burst /\ Len(written) < MaxTyped
  /\ \E b \in Bytes : /\ buffer' = [buffer EXCEPT ![write_index] = b]
                      /\ written' = Append(written, b)
  /\ write_index' = Advanced(write_index)
  /\ valid_data_size' = valid_data_size + 1
  /\ raced' = (raced \/ pc \in {"take", "count"})
  /\ overflowed' = (overflowed \/ Unread >= Size)
  /\ UNCHANGED <<reader, pc>>

rb_write_byte_uncounted ==
  /\ Unread < Burst /\ Len(written) < MaxTyped
  /\ \E b \in Bytes : /\ buffer' = [buffer EXCEPT ![write_index] = b]
                      /\ written' = Append(written, b)
  /\ write_index' = Advanced(write_index)
  /\ raced' = (raced \/ pc \in {"take", "count"})
  /\ overflowed' = (overflowed \/ Unread >= Size)
  /\ UNCHANGED <<reader, pc, valid_data_size>>

rb_write_byte ==
  /\ Unread < Burst /\ Len(written) < MaxTyped
  /\ \E b \in Bytes : /\ buffer' = [buffer EXCEPT ![write_index] = b]
                      /\ written' = Append(written, b)
  /\ write_index' = Advanced(write_index)
  /\ valid_data_size' = IF valid_data_size + 1 > Size THEN Size ELSE valid_data_size + 1
  /\ raced' = (raced \/ pc \in {"take", "count"})
  /\ overflowed' = (overflowed \/ Unread >= Size)
  /\ UNCHANGED <<reader, pc>>

\* The program calls read(0, buffer, n); n = 0 returns at once.
rb_read ==
  /\ pc = "user"
  /\ \E n \in ReadSizes : wanted' = n /\ pc' = IF n = 0 THEN "user" ELSE "wait"
  /\ UNCHANGED <<ring, valid_data_size, read_index, seen, byte, written, got, raced, overflowed>>

\* rb_read_byte: the test that leaves the hlt loop.
rb_wait_any ==
  /\ pc = "wait"
  /\ seen' = valid_data_size
  /\ pc' = "take"
  /\ UNCHANGED <<ring, valid_data_size, read_index, wanted, byte, written, got, raced, overflowed>>

rb_wait ==
  /\ pc = "wait" /\ valid_data_size # 0
  /\ seen' = valid_data_size
  /\ pc' = "take"
  /\ UNCHANGED <<ring, valid_data_size, read_index, wanted, byte, written, got, raced, overflowed>>

rb_take ==
  /\ pc = "take"
  /\ byte' = buffer[read_index]
  /\ pc' = "count"
  /\ UNCHANGED <<ring, valid_data_size, read_index, wanted, seen, written, got, raced, overflowed>>

\* --valid_data_size is no atomic operation: built with -O2, the compiler
\* decrements the value it loaded for the test and stores that; a plain
\* read-modify-write of memory is the other possible outcome.
rb_count_stale ==
  /\ pc = "count"
  /\ valid_data_size' = seen
  /\ pc' = "advance"
  /\ UNCHANGED <<ring, reader, written, raced, overflowed>>

rb_count ==
  /\ pc = "count"
  /\ valid_data_size' \in {seen - 1, valid_data_size - 1}
  /\ pc' = "advance"
  /\ UNCHANGED <<ring, reader, written, raced, overflowed>>

\* The index moves on, the byte is delivered; the loop of rb_read goes round.
rb_advance ==
  /\ pc = "advance"
  /\ read_index' = Advanced(read_index)
  /\ got' = Append(got, byte)
  /\ wanted' = wanted - 1
  /\ pc' = IF wanted = 1 THEN "user" ELSE "wait"
  /\ UNCHANGED <<ring, valid_data_size, seen, byte, written, raced, overflowed>>

rb_read_byte == rb_wait \/ rb_take \/ rb_count \/ rb_advance

Next == rb_write_byte \/ rb_read \/ rb_read_byte

Spec == Init /\ [][Next]_vars

\* hlt returns on the next interrupt and the timer always ticks, so a reader
\* that can go on does; nobody has to type.
FairSpec == Spec /\ WF_vars(rb_read_byte)

----------------------------------------------------------------------------
\* Types; the indices stay inside the buffer for any size up to IndexRange.
TypeOK ==
  /\ buffer \in [0..(Size - 1) -> Bytes]
  /\ read_index \in 0..(Size - 1) /\ write_index \in 0..(Size - 1)
  /\ valid_data_size \in Nat
  /\ pc \in {"user", "wait", "take", "count", "advance"}
  /\ wanted \in Nat /\ seen \in Nat /\ byte \in Bytes
  /\ written \in Seq(Bytes) /\ got \in Seq(Bytes)
  /\ raced \in BOOLEAN /\ overflowed \in BOOLEAN

\* Even when a keystroke hits the unprotected decrement, or overflows the
\* buffer, valid_data_size is at most the number of unread bytes and at most the
\* capacity: rb_read_byte never delivers a byte that was not written, and the
\* lost update is always an undercount.
CountSafe == valid_data_size <= Unread /\ valid_data_size <= Size

\* Until a keystroke has hit that window or overflowed the buffer, the count is
\* exact between two bytes.
CountExact == ~raced /\ ~overflowed /\ pc \in {"user", "wait"} => valid_data_size = Unread

\* The ring buffer implements the abstract queue, raced or not, until a keystroke
\* overflows it (rb_write then overwrites bytes it has not delivered).
Stdin == INSTANCE Fifo WITH sent <- written, received <- got
FifoUntilOverflow == Stdin!Init /\ [][Stdin!Next \/ overflowed']_<<written, got>>

\* Until a keystroke has hit that window or overflowed the buffer, a reader gets
\* the bytes there are.
ReaderServed ==
  (pc = "wait" /\ Unread > 0) ~> (pc # "wait" \/ raced \/ overflowed)

----------------------------------------------------------------------------
\* The strengthening of CountSafe that one step preserves: the count a reader
\* has loaded is also at most what is unread, and after the decrement the count
\* is one less.
CountInv ==
  /\ CountSafe
  /\ pc \in {"take", "count"} => seen <= Unread /\ seen <= Size
  /\ pc = "advance" => valid_data_size < Unread
=============================================================================
