----------------------------- MODULE RingBuffer -----------------------------
(***************************************************************************)
(* The playback buffer of a resampler (bass_sox/ring_buffer.c), one call   *)
(* at a time.  head and tail are offsets in 0..Length: an offset that      *)
(* reaches Length stays there until the next advance wraps it, because the *)
(* code wraps on > and not on >=.  So a ring whose head is Length and      *)
(* whose tail is 0 holds Length bytes although full is FALSE, and full is  *)
(* what tells an empty ring from a filled one only when the offsets are    *)
(* equal.  What the malloc'ed store holds at first is arbitrary.           *)
(***************************************************************************)
EXTENDS Integers, Sequences

CONSTANTS Length,   \* the size in bytes given to ring_buffer_create
          Bytes,    \* the values of a byte
          Chunks,   \* the sequences of bytes a caller may write
          Requests  \* the numbers of bytes a caller may ask to read

ASSUME RingBufferAssumption ==
    /\ Length \in Nat \ {0}
    /\ Chunks \subseteq Seq(Bytes)
    /\ Requests \subseteq Nat

VARIABLES store, \* RING_BUFFER.buffer, by offset
          head,  \* offset of the next byte to write
          tail,  \* offset of the next byte to read
          full,  \* TRUE when head has caught up with tail
          in,    \* the bytes the last call was given to write
          out,   \* the bytes the last ring_buffer_read copied to its caller
          done   \* the return value of the last call

vars == <<store, head, tail, full, in, out, done>>

Slots == 0 .. Length - 1

Lesser(a, b) == IF a < b THEN a ELSE b

read_capacity ==
    IF full THEN Length
    ELSE IF head >= tail THEN head - tail
    ELSE (Length + head) - tail

write_capacity == Length - read_capacity

\* A fault to detect: the offset is never wrapped.
Wrap_never(offset) == offset

\* An offset after it moved, as both ring_buffer_advance functions compute it.
Wrap(offset) == IF offset > Length THEN offset - Length ELSE offset

\* The bytes of a transfer of n that the first memcpy moves; the second one
\* moves the rest, from or to the start of the store.
\* (A fault to detect: the copy goes straight on at the end of the store.)
write_span_straight(n) == n
write_span(n) == Lesser(IF head >= tail THEN Length - head ELSE tail - head, n)
read_span(n)  == Lesser(IF tail >= head THEN Length - tail ELSE head - tail, n)

\* A fault to detect: the second memcpy starts again with the caller's first byte.
Stored_again(data, n) ==
    LET first == write_span(n)
    IN  [i \in Slots |->
            IF i < n - first THEN data[i + 1]
            ELSE IF head <= i /\ i < head + first THEN data[i - head + 1]
            ELSE store[i]]

\* The store once n bytes of data were copied in at head.
Stored(data, n) ==
    LET first == write_span(n)
    IN  [i \in Slots |->
            IF i < n - first THEN data[first + i + 1]
            ELSE IF head <= i /\ i < head + first THEN data[i - head + 1]
            ELSE store[i]]

\* The n bytes copied out from tail.
Fetched(n) ==
    LET first == read_span(n)
    IN  [i \in 1 .. n |->
            IF i <= first THEN store[tail + i - 1] ELSE store[i - first - 1]]
-----------------------------------------------------------------------------
ring_buffer_create ==
    /\ store \in [Slots -> Bytes]
    /\ head = 0
    /\ tail = 0
    /\ full = FALSE
    /\ in = <<>>
    /\ out = <<>>
    /\ done = 0

ring_buffer_write(data) ==
    LET n == Lesser(Len(data), write_capacity)
    IN  /\ in' = data
        /\ done' = n
        /\ UNCHANGED <<tail, out>>
        /\ \/ /\ n = 0
              /\ UNCHANGED <<store, head, full>>
           \/ /\ n > 0
              /\ store' = Stored(data, n)
              /\ head' = Wrap(head + n)
              /\ full' = (tail = Wrap(head + n))

\* With nothing to copy the call returns before it touches the ring, and the
\* caller's buffer receives no byte.
ring_buffer_read(length) ==
    LET n == Lesser(length, read_capacity)
    IN  /\ in' = <<>>
        /\ done' = n
        /\ out' = Fetched(n)
        /\ UNCHANGED <<store, head>>
        /\ \/ /\ n = 0
              /\ UNCHANGED <<tail, full>>
           \/ /\ n > 0
              /\ tail' = Wrap(tail + n)
              /\ full' = FALSE

ring_buffer_clear ==
    /\ head' = 0
    /\ tail' = 0
    /\ full' = FALSE
    /\ in' = <<>>
    /\ UNCHANGED <<store, out, done>>

Next == \/ \E data \in Chunks : ring_buffer_write(data)
        \/ \E length \in Requests : ring_buffer_read(length)
        \/ ring_buffer_clear

Spec == ring_buffer_create /\ [][Next]_vars
-----------------------------------------------------------------------------
TypeOK == /\ store \in [Slots -> Bytes]
          /\ head \in 0 .. Length
          /\ tail \in 0 .. Length
          /\ full \in BOOLEAN
          /\ in \in Seq(Bytes)
          /\ out \in Seq(Bytes)
          /\ done \in 0 .. Length

\* No memcpy of any call that could come next leaves the allocation, nor do
\* the two parts of a write meet: the offsets may rest on Length, one past the
\* last byte, so every span must be computed with that in mind.
CopiesInBounds ==
    /\ \A n \in 1 .. write_capacity :
          /\ write_span(n) \in 0 .. n
          /\ head + write_span(n) <= Length
          /\ n - write_span(n) <= Length
          /\ write_span(n) > 0 => n - write_span(n) <= head
    /\ \A n \in 1 .. read_capacity :
          /\ read_span(n) \in 0 .. n
          /\ tail + read_span(n) <= Length
          /\ n - read_span(n) <= Length

\* The offset in the store of the i-th byte that waits to be read.
SlotOf(i) == IF tail + i > Length THEN tail + i - 1 - Length ELSE tail + i - 1

\* The bytes that wait to be read, in order.
Contents == [i \in 1 .. read_capacity |-> store[SlotOf(i)]]

Fifo == INSTANCE BoundedFifo WITH Capacity <- Length, queue <- Contents

\* Whatever the order and the sizes of the calls, the ring hands back exactly
\* the bytes it accepted, in order, and accepts and returns as many as a
\* first-in first-out queue of Length bytes would.
ImplementsFifo == Fifo!Spec
=============================================================================
