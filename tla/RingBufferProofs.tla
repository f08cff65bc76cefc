-------------------------- MODULE RingBufferProofs --------------------------
(***************************************************************************)
(* Proofs about RingBuffer, for every buffer size, every set of bytes and  *)
(* every bound.                                                            *)
(***************************************************************************)
EXTENDS RingBuffer, TLAPS

\* What TypeOK needs to be inductive: a reader past the test of rb_read_byte has
\* bytes left to deliver, has loaded a count of at least one, and no interrupt
\* brings the count in memory back to zero under it.
TypeInv ==
  /\ TypeOK
  /\ pc # "user" => wanted >= 1
  /\ pc \in {"take", "count"} => seen >= 1 /\ valid_data_size >= 1

\* Advancing an index keeps it inside the buffer.
LEMMA AdvancedInRange ==
  ASSUME NEW n \in 0..(Size - 1) PROVE Advanced(n) \in 0..(Size - 1)
  <1>1. (n + 1) % IndexRange \in Nat
    BY SizeAssumption
  <1>2. \A m \in Nat : m % Size \in 0..(Size - 1)
    BY SizeAssumption
  <1> QED BY <1>1, <1>2 DEF Advanced

\* make_rb establishes the types.
LEMMA TypeInit == Init => TypeInv
  <1> SUFFICES ASSUME Init PROVE TypeInv
    OBVIOUS
  <1>1. written \in Seq(Bytes) /\ got \in Seq(Bytes)
    BY DEF Init
  <1>2. valid_data_size \in Nat
    BY InputAssumption DEF Init
  <1>3. raced \in BOOLEAN /\ overflowed \in BOOLEAN
    BY DEF Init
  <1> QED BY <1>1, <1>2, <1>3, SizeAssumption DEF Init, TypeInv, TypeOK

\* Every step of the reader and of the keyboard interrupt preserves them.
LEMMA TypeNext == TypeInv /\ [Next]_vars => TypeInv'
  <1> SUFFICES ASSUME TypeInv, [Next]_vars PROVE TypeInv'
    OBVIOUS
  <1> USE SizeAssumption, InputAssumption DEF TypeInv, TypeOK
  <1>1. CASE rb_write_byte
    <2>1. Advanced(write_index) \in 0..(Size - 1)
      BY AdvancedInRange
    <2> QED BY <1>1, <2>1 DEF rb_write_byte, reader
  <1>2. CASE rb_read
    BY <1>2 DEF rb_read, ring
  <1>3. CASE rb_wait
    BY <1>3 DEF rb_wait, ring
  <1>4. CASE rb_take
    BY <1>4 DEF rb_take, ring
  <1>5. CASE rb_count
    BY <1>5 DEF rb_count, ring, reader
  <1>6. CASE rb_advance
    <2>1. Advanced(read_index) \in 0..(Size - 1)
      BY AdvancedInRange
    <2> QED BY <1>6, <2>1 DEF rb_advance, ring
  <1>7. CASE UNCHANGED vars
    BY <1>7 DEF vars
  <1> QED BY <1>1, <1>2, <1>3, <1>4, <1>5, <1>6, <1>7 DEF Next, rb_read_byte

\* Type correctness of the ring buffer, whatever kmalloc left in the count.
THEOREM TypeCorrect == Spec => []TypeOK
  <1>1. TypeInv => TypeOK
    BY DEF TypeInv
  <1> QED BY TypeInit, TypeNext, <1>1, PTL DEF Spec

\* CountInv is preserved by every step.
LEMMA CountNext == TypeInv /\ CountInv /\ [Next]_vars => CountInv'
  <1> SUFFICES ASSUME TypeInv, CountInv, [Next]_vars PROVE CountInv'
    OBVIOUS
  <1> USE SizeAssumption, InputAssumption DEF TypeInv, TypeOK, CountInv, CountSafe, Unread
  <1>1. CASE rb_write_byte
    BY <1>1 DEF rb_write_byte, reader
  <1>2. CASE rb_read
    BY <1>2 DEF rb_read, ring
  <1>3. CASE rb_wait
    BY <1>3 DEF rb_wait, ring
  <1>4. CASE rb_take
    BY <1>4 DEF rb_take, ring
  <1>5. CASE rb_count
    BY <1>5 DEF rb_count, ring, reader
  <1>6. CASE rb_advance
    BY <1>6 DEF rb_advance, ring
  <1>7. CASE UNCHANGED vars
    BY <1>7 DEF vars
  <1> QED BY <1>1, <1>2, <1>3, <1>4, <1>5, <1>6, <1>7 DEF Next, rb_read_byte

\* If the count starts at zero, no interleaving of the keyboard interrupt with
\* the reader lets the count exceed what is unread or the capacity.
THEOREM CountIsSafe ==
  ASSUME InitialCount = {0} PROVE Spec => []CountSafe
  <1>1. Init => CountInv
    BY SizeAssumption DEF Init, CountInv, CountSafe, Unread
  <1>2. CountInv => CountSafe
    BY DEF CountInv
  <1> QED BY TypeInit, TypeNext, CountNext, <1>1, <1>2, PTL DEF Spec

----------------------------------------------------------------------------
\* The strengthening of CountExact: until the first race or overflow, the count
\* a reader has loaded is the count in memory, and between the decrement and the
\* delivery the count is one behind.
ExactInv ==
  ~raced /\ ~overflowed =>
    /\ pc # "advance" => valid_data_size = Unread
    /\ pc \in {"take", "count"} => seen = valid_data_size
    /\ pc = "advance" => valid_data_size = Unread - 1

\* ExactInv is preserved by every step: a keystroke between the test and the
\* decrement sets raced, one that would be capped sets overflowed.
LEMMA ExactNext == TypeInv /\ CountInv /\ ExactInv /\ [Next]_vars => ExactInv'
  <1> SUFFICES ASSUME TypeInv, CountInv, ExactInv, [Next]_vars,
                      ~raced', ~overflowed'
               PROVE  /\ pc' # "advance" => valid_data_size' = Unread'
                      /\ pc' \in {"take", "count"} => seen' = valid_data_size'
                      /\ pc' = "advance" => valid_data_size' = Unread' - 1
    BY DEF ExactInv
  <1> USE SizeAssumption, InputAssumption DEF TypeInv, TypeOK, CountInv, CountSafe, Unread
  <1>1. CASE rb_write_byte
    <2>0. ~raced /\ ~overflowed /\ pc \notin {"take", "count"} /\ ~(Unread >= Size)
      BY ONLY <1>1, ~raced', ~overflowed', Zenon DEF rb_write_byte
    <2>1. Unread < Size
      BY <2>0
    <2>2. Unread' = Unread + 1
      BY <1>1 DEF rb_write_byte, reader
    <2>3. valid_data_size' = valid_data_size + 1 /\ pc' = pc
      BY <1>1, <2>1 DEF rb_write_byte
    <2> QED BY <2>0, <2>2, <2>3 DEF ExactInv
  <1>2. CASE rb_read
    BY <1>2 DEF rb_read, ring, ExactInv
  <1>3. CASE rb_wait
    BY <1>3 DEF rb_wait, ring, ExactInv
  <1>4. CASE rb_take
    BY <1>4 DEF rb_take, ring, ExactInv
  <1>5. CASE rb_count
    BY <1>5 DEF rb_count, ring, reader, ExactInv
  <1>6. CASE rb_advance
    BY <1>6 DEF rb_advance, ring, ExactInv
  <1>7. CASE UNCHANGED vars
    BY <1>7 DEF vars, ExactInv
  <1> QED BY <1>1, <1>2, <1>3, <1>4, <1>5, <1>6, <1>7 DEF Next, rb_read_byte

\* As long as no keystroke has hit the unprotected decrement or overflowed the
\* buffer, the count is exact between two bytes, for every buffer size.
THEOREM CountIsExact ==
  ASSUME InitialCount = {0} PROVE Spec => []CountExact
  <1>1. Init => CountInv /\ ExactInv
    BY SizeAssumption DEF Init, CountInv, CountSafe, ExactInv, Unread
  <1>2. ExactInv => CountExact
    BY DEF ExactInv, CountExact
  <1> QED BY TypeInit, TypeNext, CountNext, ExactNext, <1>1, <1>2, PTL DEF Spec

----------------------------------------------------------------------------
\* The slot of the k-th unread byte, counted from the read index.
Slot(k) == IF read_index + k < Size THEN read_index + k ELSE read_index + k - Size

\* What the buffer holds until it overflows: the unread bytes lie in order from
\* the read index on and the write index follows the last of them; the byte the
\* reader has taken is the oldest unread one.
RingInv ==
  ~overflowed =>
    /\ Unread <= Size
    /\ write_index = Slot(Unread)
    /\ \A k \in 0..(Unread - 1) : buffer[Slot(k)] = written[Len(got) + 1 + k]
    /\ pc \in {"count", "advance"} => byte = written[Len(got) + 1]

\* The remainder of an index that is at most one too large.
LEMMA AdvancedIs ==
  ASSUME NEW n \in 0..(Size - 1)
  PROVE  Advanced(n) = IF n + 1 = Size THEN 0 ELSE n + 1
  <1>1. \A m \in Nat, d \in Nat : m < d => m % d = m
    OBVIOUS
  <1>2. \A d \in Nat : d > 0 => d % d = 0
    OBVIOUS
  <1>3. CASE n + 1 = Size /\ Size = IndexRange
    <2>1. (n + 1) % IndexRange = 0
      BY <1>2, <1>3, SizeAssumption
    <2>2. 0 % Size = 0
      BY <1>1, SizeAssumption
    <2> QED BY <2>1, <2>2, <1>3 DEF Advanced
  <1>4. CASE n + 1 = Size /\ Size < IndexRange
    <2>1. (n + 1) % IndexRange = Size
      BY <1>1, <1>4, SizeAssumption
    <2>2. Size % Size = 0
      BY <1>2, SizeAssumption
    <2> QED BY <2>1, <2>2, <1>4 DEF Advanced
  <1>5. CASE n + 1 < Size
    <2>1. (n + 1) % IndexRange = n + 1
      BY <1>1, <1>5, SizeAssumption
    <2>2. (n + 1) % Size = n + 1
      BY <1>1, <1>5, SizeAssumption
    <2> QED BY <2>1, <2>2, <1>5, SizeAssumption DEF Advanced
  <1> QED BY <1>3, <1>4, <1>5, SizeAssumption

\* A keystroke that does not overflow goes into a slot no unread byte uses.
LEMMA RingWrite ==
  ASSUME TypeInv, CountInv, RingInv, rb_write_byte PROVE RingInv'
  <1> SUFFICES ASSUME ~overflowed'
               PROVE  /\ Unread' <= Size
                      /\ write_index' = Slot(Unread)'
                      /\ \A k \in 0..(Unread' - 1) : buffer'[Slot(k)'] = written'[Len(got') + 1 + k]
                      /\ pc' \in {"count", "advance"} => byte' = written'[Len(got') + 1]
    BY DEF RingInv
  <1> USE SizeAssumption
  <1>1. PICK b \in Bytes : /\ buffer' = [buffer EXCEPT ![write_index] = b]
                           /\ written' = Append(written, b)
    BY DEF rb_write_byte
  <1>2. /\ ~overflowed /\ ~(Unread >= Size)
        /\ write_index' = Advanced(write_index)
        /\ read_index' = read_index /\ got' = got /\ pc' = pc /\ byte' = byte
    BY DEF rb_write_byte, reader
  <1>3. /\ written \in Seq(Bytes) /\ got \in Seq(Bytes)
        /\ read_index \in 0..(Size - 1) /\ write_index \in 0..(Size - 1)
        /\ buffer \in [0..(Size - 1) -> Bytes]
    BY DEF TypeInv, TypeOK
  <1>4. Unread \in Nat /\ Unread < Size /\ Unread = Len(written) - Len(got)
    BY <1>2, <1>3 DEF CountInv, CountSafe, Unread, TypeInv, TypeOK
  <1>5. Unread' = Unread + 1
    BY <1>1, <1>2, <1>3 DEF Unread
  <1>6. write_index = Slot(Unread)
    BY <1>2, <1>4 DEF RingInv
  <1>7. write_index' = IF write_index + 1 = Size THEN 0 ELSE write_index + 1
    BY <1>2, <1>3, AdvancedIs
  <1>8. write_index' = Slot(Unread)'
    <2>1. Slot(Unread)' = IF read_index + (Unread + 1) < Size THEN read_index + (Unread + 1)
                          ELSE read_index + (Unread + 1) - Size
      BY <1>2, <1>5 DEF Slot
    <2>2. write_index = IF read_index + Unread < Size THEN read_index + Unread
                        ELSE read_index + Unread - Size
      BY <1>6 DEF Slot
    <2> HIDE DEF Slot, Unread
    <2> QED BY <1>3, <1>4, <1>7, <2>1, <2>2, SMTT(30)
  <1>9. ASSUME NEW k \in 0..(Unread' - 1)
        PROVE  buffer'[Slot(k)'] = written'[Len(got') + 1 + k]
    <2>1. Slot(k)' = Slot(k)
      BY <1>2 DEF Slot
    <2>2. Slot(k) \in 0..(Size - 1)
      BY <1>3, <1>4, <1>5 DEF Slot
    <2>3. CASE k = Unread
      BY <1>1, <1>2, <1>3, <1>4, <1>6, <2>1, <2>2, <2>3
    <2>4. CASE k < Unread
      <3>1. Slot(k) # write_index
        BY <1>3, <1>4, <1>6, <2>4 DEF Slot
      <3>2. buffer'[Slot(k)] = buffer[Slot(k)]
        BY <1>1, <1>3, <2>2, <3>1
      <3>3. buffer[Slot(k)] = written[Len(got) + 1 + k]
        <4>1. k \in 0..(Unread - 1)
          BY <1>4, <1>5, <2>4
        <4> QED BY <1>2, <4>1 DEF RingInv
      <3>4. Len(got) + 1 + k \in 1..Len(written)
        BY <1>3, <1>4, <2>4
      <3>5. written'[Len(got) + 1 + k] = written[Len(got) + 1 + k]
        BY <1>1, <1>3, <3>4
      <3> QED BY <1>2, <2>1, <3>2, <3>3, <3>5
    <2> QED BY <1>4, <1>5, <2>3, <2>4
  <1>10. pc' \in {"count", "advance"} => byte' = written'[Len(got') + 1]
    <2> SUFFICES ASSUME pc \in {"count", "advance"}
                 PROVE  byte = written'[Len(got) + 1]
      BY <1>2
    <2>1. byte = written[Len(got) + 1]
      BY <1>2 DEF RingInv
    <2>2. Unread >= 1
      BY <1>3, <1>4 DEF CountInv, TypeInv, TypeOK
    <2>3. Len(got) + 1 \in 1..Len(written)
      BY <1>3, <1>4, <2>2
    <2> QED BY <1>1, <1>3, <2>1, <2>3
  <1> QED BY <1>4, <1>5, <1>8, <1>9, <1>10

\* The delivery of a byte leaves the others in order.
LEMMA RingAdvance ==
  ASSUME TypeInv, CountInv, RingInv, rb_advance PROVE RingInv'
  <1> SUFFICES ASSUME ~overflowed'
               PROVE  /\ Unread' <= Size
                      /\ write_index' = Slot(Unread)'
                      /\ \A k \in 0..(Unread' - 1) : buffer'[Slot(k)'] = written'[Len(got') + 1 + k]
                      /\ pc' \in {"count", "advance"} => byte' = written'[Len(got') + 1]
    BY DEF RingInv
  <1> USE SizeAssumption
  <1>1. /\ ~overflowed /\ read_index' = Advanced(read_index) /\ got' = Append(got, byte)
        /\ buffer' = buffer /\ written' = written /\ write_index' = write_index
        /\ pc = "advance" /\ pc' \in {"user", "wait"}
    BY DEF rb_advance, ring
  <1>2. /\ written \in Seq(Bytes) /\ got \in Seq(Bytes) /\ byte \in Bytes
        /\ read_index \in 0..(Size - 1) /\ write_index \in 0..(Size - 1)
    BY DEF TypeInv, TypeOK
  <1>3. Unread \in Nat /\ Unread >= 1 /\ Unread <= Size /\ Unread = Len(written) - Len(got)
    BY <1>1, <1>2 DEF CountInv, CountSafe, Unread, TypeInv, TypeOK, RingInv
  <1>4. Len(got') = Len(got) + 1 /\ Unread' = Unread - 1
    BY <1>1, <1>2 DEF Unread
  <1>5. read_index' = IF read_index + 1 = Size THEN 0 ELSE read_index + 1
    BY <1>1, <1>2, AdvancedIs
  <1>6. write_index' = Slot(Unread)'
    <2>1. write_index = Slot(Unread)
      BY <1>1 DEF RingInv
    <2> QED BY <1>1, <1>2, <1>3, <1>4, <1>5, <2>1 DEF Slot
  <1>7. ASSUME NEW k \in 0..(Unread' - 1)
        PROVE  buffer'[Slot(k)'] = written'[Len(got') + 1 + k]
    <2>1. k \in Nat /\ k + 1 \in 0..(Unread - 1)
      BY <1>3, <1>4
    <2>2. Slot(k)' = Slot(k + 1)
      BY <1>2, <1>3, <1>5, <2>1 DEF Slot
    <2>3. buffer[Slot(k + 1)] = written[Len(got) + 1 + (k + 1)]
      BY <1>1, <2>1 DEF RingInv
    <2>4. Len(got) + 1 + (k + 1) = Len(got') + 1 + k
      BY <1>2, <1>4, <2>1
    <2> QED BY <1>1, <2>2, <2>3, <2>4
  <1> QED BY <1>1, <1>3, <1>4, <1>6, <1>7

\* Every step preserves what the buffer holds.
LEMMA RingNext == TypeInv /\ CountInv /\ RingInv /\ [Next]_vars => RingInv'
  <1> SUFFICES ASSUME TypeInv, CountInv, RingInv, [Next]_vars PROVE RingInv'
    OBVIOUS
  <1> USE DEF RingInv, Slot, Unread
  <1>1. CASE rb_write_byte
    BY <1>1, RingWrite
  <1>2. CASE rb_read
    BY <1>2 DEF rb_read, ring
  <1>3. CASE rb_wait
    BY <1>3 DEF rb_wait, ring
  <1>4. CASE rb_take
    <2>1. /\ byte' = buffer[read_index] /\ pc' = "count"
          /\ UNCHANGED <<buffer, read_index, write_index, written, got, overflowed>>
      BY <1>4 DEF rb_take, ring
    <2>2. ASSUME ~overflowed PROVE byte' = written[Len(got) + 1]
      <3>1. 0 \in 0..(Unread - 1)
        BY <1>4 DEF rb_take, TypeInv, TypeOK, CountInv
      <3>2. Slot(0) = read_index
        BY SizeAssumption DEF TypeInv, TypeOK
      <3>3. buffer[Slot(0)] = written[Len(got) + 1 + 0]
        BY <2>2, <3>1
      <3> QED BY <2>1, <3>2, <3>3 DEF TypeInv, TypeOK
    <2> QED BY <2>1, <2>2
  <1>5. CASE rb_count
    BY <1>5 DEF rb_count, ring, reader
  <1>6. CASE rb_advance
    BY <1>6, RingAdvance
  <1>7. CASE UNCHANGED vars
    BY <1>7 DEF vars
  <1> QED BY <1>1, <1>2, <1>3, <1>4, <1>5, <1>6, <1>7 DEF Next, rb_read_byte

\* One step of the ring buffer is a step of the abstract queue, a stutter, or
\* happens after an overflow.
LEMMA FifoStep ==
  TypeInv /\ CountInv /\ RingInv /\ [Next]_vars
    => [Stdin!Next \/ overflowed']_<<written, got>>
  <1> SUFFICES ASSUME TypeInv, CountInv, RingInv, [Next]_vars, ~overflowed'
               PROVE  Stdin!Next \/ UNCHANGED <<written, got>>
    OBVIOUS
  <1>1. CASE rb_write_byte
    BY <1>1 DEF rb_write_byte, reader, Stdin!Next, Stdin!Send
  <1>2. CASE rb_advance
    <2>1. Len(got) < Len(written)
      BY <1>2 DEF rb_advance, CountInv, TypeInv, TypeOK, Unread
    <2>2. byte = written[Len(got) + 1]
      BY <1>2 DEF rb_advance, RingInv
    <2> QED BY <1>2, <2>1, <2>2 DEF rb_advance, Stdin!Next, Stdin!Receive
  <1>3. CASE UNCHANGED vars \/ rb_read \/ rb_wait \/ rb_take \/ rb_count
    BY <1>3 DEF vars, rb_read, rb_wait, rb_take, rb_count, reader
  <1> QED BY <1>1, <1>2, <1>3 DEF Next, rb_read_byte

\* The ring buffer implements the queue of Fifo until a keystroke overflows it:
\* whatever the interleaving of the keyboard interrupt with the reader, raced
\* or not, bytes come out once and in the order they were typed.
THEOREM RingIsFifo ==
  ASSUME InitialCount = {0} PROVE Spec => FifoUntilOverflow
  <1>1. Init => CountInv /\ RingInv
    BY SizeAssumption DEF Init, CountInv, CountSafe, RingInv, Slot, Unread
  <1>2. Init => Stdin!Init
    BY DEF Init, Stdin!Init
  <1> QED BY TypeInit, TypeNext, CountNext, RingNext, FifoStep, <1>1, <1>2, PTL
          DEF Spec, FifoUntilOverflow
=============================================================================
