-------------------------- MODULE RingBufferProofs --------------------------
(***************************************************************************)
(* The ring buffer for every size, every set of bytes and every sequence   *)
(* of calls: it keeps its type, no copy leaves the allocation, and it      *)
(* implements the queue of BoundedFifo.                                    *)
(***************************************************************************)
EXTENDS RingBuffer, SequenceTheorems, TLAPS

\* Type correctness alone is not inductive for the other results: the
\* capacities are only right when a raised flag means that the offsets meet.
FullMeansMet == full => head = tail
RingInv == TypeOK /\ FullMeansMet

\* Whatever the offsets, what can be read and what can be written make up the
\* ring.
LEMMA Capacities ==
    ASSUME RingInv
    PROVE  /\ read_capacity \in 0 .. Length
           /\ write_capacity \in 0 .. Length
           /\ write_capacity = Length - read_capacity
BY RingBufferAssumption
   DEF RingInv, TypeOK, FullMeansMet, read_capacity, write_capacity

\* How the two memcpy calls of a transfer split its n bytes.
LEMMA Spans ==
    ASSUME RingInv, NEW n \in 0 .. Length
    PROVE  /\ write_span(n) \in 0 .. n
           /\ head + write_span(n) <= Length
           /\ read_span(n) \in 0 .. n
           /\ tail + read_span(n) <= Length
<1>1. head \in 0 .. Length /\ tail \in 0 .. Length
  BY DEF RingInv, TypeOK
<1>2. write_span(n) \in 0 .. n /\ head + write_span(n) <= Length
  BY <1>1, RingBufferAssumption DEF write_span, Lesser
<1>3. read_span(n) \in 0 .. n /\ tail + read_span(n) <= Length
  BY <1>1, RingBufferAssumption DEF read_span, Lesser
<1>4. QED
  BY <1>2, <1>3

\* ring_buffer_create leaves an empty ring in order, whatever malloc returned.
LEMMA CreateEstablishesInv == ring_buffer_create => RingInv
<1>1. <<>> \in Seq(Bytes)
  OBVIOUS
<1>2. 0 \in 0 .. Length /\ FALSE \in BOOLEAN
  BY RingBufferAssumption
<1>3. QED
  BY <1>1, <1>2 DEF ring_buffer_create, RingInv, TypeOK, FullMeansMet

\* What a write that moves n bytes leaves behind.
LEMMA WritePreservesInv ==
    ASSUME RingInv, NEW data \in Chunks, ring_buffer_write(data)
    PROVE  RingInv'
<1> DEFINE n == Lesser(Len(data), write_capacity)
<1>1. data \in Seq(Bytes) /\ Len(data) \in Nat
  BY RingBufferAssumption
<1>2. n \in 0 .. Length /\ n <= Len(data) /\ n <= write_capacity
  BY <1>1, Capacities, RingBufferAssumption DEF Lesser
<1>3. CASE n = 0
  BY <1>1, <1>2, <1>3, RingBufferAssumption
     DEF ring_buffer_write, RingInv, TypeOK, FullMeansMet
<1>4. CASE n > 0
  <2>1. /\ done' = n
        /\ store' = Stored(data, n)
        /\ head' = Wrap(head + n)
        /\ full' = (tail = Wrap(head + n))
        /\ tail' = tail
        /\ out' = out
        /\ in' = data
    BY <1>4 DEF ring_buffer_write
  <2>2. head' \in 0 .. Length
    BY <2>1, <1>2, RingBufferAssumption DEF RingInv, TypeOK, Wrap
  <2>3. store' \in [Slots -> Bytes]
    <3>1. write_span(n) \in 0 .. n
      BY <1>2, Spans
    <3>2. ASSUME NEW i \in Slots, i < n - write_span(n)
          PROVE  data[write_span(n) + i + 1] \in Bytes
      BY <1>1, <1>2, <3>1, <3>2, RingBufferAssumption DEF Slots
    <3>3. ASSUME NEW i \in Slots, head <= i, i < head + write_span(n)
          PROVE  data[i - head + 1] \in Bytes
      BY <1>1, <1>2, <3>1, <3>3, RingBufferAssumption
         DEF Slots, RingInv, TypeOK
    <3>4. ASSUME NEW i \in Slots
          PROVE  store[i] \in Bytes
      BY <3>4 DEF RingInv, TypeOK
    <3>5. QED
      BY <2>1, <3>2, <3>3, <3>4 DEF Stored
  <2>4. QED
    BY <1>1, <1>2, <2>1, <2>2, <2>3 DEF RingInv, TypeOK, FullMeansMet
<1>5. QED
  BY <1>2, <1>3, <1>4

\* A read moves tail within bounds, takes bytes only from the store, and lowers
\* the flag if it moved.
LEMMA ReadPreservesInv ==
    ASSUME RingInv, NEW length \in Requests, ring_buffer_read(length)
    PROVE  RingInv'
<1> DEFINE n == Lesser(length, read_capacity)
<1>1. n \in 0 .. Length /\ n <= read_capacity
  BY Capacities, RingBufferAssumption DEF Lesser
<1>2. /\ done' = n /\ out' = Fetched(n) /\ store' = store /\ head' = head
      /\ in' = <<>> /\ in' \in Seq(Bytes)
  BY DEF ring_buffer_read
<1> HIDE DEF n
<1>3. read_span(n) \in 0 .. n /\ tail + read_span(n) <= Length
  BY <1>1, Spans
<1>4. Fetched(n) \in Seq(Bytes)
  <2>1. ASSUME NEW i \in 1 .. n, i <= read_span(n)
        PROVE  store[tail + i - 1] \in Bytes
    <3>1. tail + i - 1 \in Slots
      BY <1>1, <1>3, <2>1, RingBufferAssumption DEF RingInv, TypeOK, Slots
    <3>2. QED
      BY <3>1 DEF RingInv, TypeOK
  <2>2. ASSUME NEW i \in 1 .. n, ~ (i <= read_span(n))
        PROVE  store[i - read_span(n) - 1] \in Bytes
    <3>1. i - read_span(n) - 1 \in Slots
      BY <1>1, <1>3, <2>2, RingBufferAssumption DEF Slots
    <3>2. QED
      BY <3>1 DEF RingInv, TypeOK
  <2>3. Fetched(n) \in [1 .. n -> Bytes]
    BY <2>1, <2>2 DEF Fetched
  <2>4. QED
    BY <2>3, <1>1
<1>5. CASE n = 0
  BY <1>1, <1>2, <1>4, <1>5 DEF n, ring_buffer_read, RingInv, TypeOK, FullMeansMet
<1>6. CASE n > 0
  <2>1. tail' = Wrap(tail + n) /\ full' = FALSE
    BY <1>6 DEF n, ring_buffer_read
  <2>2. tail' \in 0 .. Length
    BY <2>1, <1>1, RingBufferAssumption DEF RingInv, TypeOK, Wrap
  <2>3. QED
    BY <1>1, <1>2, <1>4, <2>1, <2>2 DEF RingInv, TypeOK, FullMeansMet
<1>7. QED
  BY <1>1, <1>5, <1>6

\* Clearing leaves the store as it is and the offsets where they met at first.
LEMMA ClearPreservesInv == RingInv /\ ring_buffer_clear => RingInv'
<1> SUFFICES ASSUME RingInv, ring_buffer_clear
             PROVE  RingInv'
  OBVIOUS
<1>1. head' = 0 /\ tail' = 0 /\ full' = FALSE
  BY DEF ring_buffer_clear
<1>2. store' = store /\ out' = out /\ done' = done /\ in' \in Seq(Bytes)
  BY DEF ring_buffer_clear
<1>3. 0 \in 0 .. Length
  BY RingBufferAssumption
<1>4. QED
  BY <1>1, <1>2, <1>3 DEF RingInv, TypeOK, FullMeansMet, Slots

\* No call, and no step that leaves the ring alone, breaks the invariant.
LEMMA NextPreservesInv == RingInv /\ [Next]_vars => RingInv'
<1> SUFFICES ASSUME RingInv, [Next]_vars
             PROVE  RingInv'
  OBVIOUS
<1>1. CASE \E data \in Chunks : ring_buffer_write(data)
  BY <1>1, WritePreservesInv
<1>2. CASE \E length \in Requests : ring_buffer_read(length)
  BY <1>2, ReadPreservesInv
<1>3. CASE ring_buffer_clear
  BY <1>3, ClearPreservesInv
<1>4. CASE UNCHANGED vars
  BY <1>4 DEF vars, RingInv, TypeOK, FullMeansMet, Slots
<1>5. QED
  BY <1>1, <1>2, <1>3, <1>4 DEF Next

\* The offsets of ring_buffer.c are in bounds and its flag means what it says
\* after any sequence of calls, for a ring of any size.
THEOREM RingInvariant == Spec => []RingInv
<1>1. QED
  BY CreateEstablishesInv, NextPreservesInv, PTL DEF Spec

\* The offsets, the flag, the store and the results of ring_buffer.c keep
\* their types, for a ring of any size.
THEOREM RingTypeCorrect == Spec => []TypeOK
<1>1. RingInv => TypeOK
  BY DEF RingInv
<1>2. QED
  BY <1>1, RingInvariant, PTL

\* The full flag of ring_buffer.c is raised only where head has met tail.
THEOREM RingFullMeansMet == Spec => []FullMeansMet
<1>1. RingInv => FullMeansMet
  BY DEF RingInv
<1>2. QED
  BY <1>1, RingInvariant, PTL

\* No memcpy of ring_buffer_write or ring_buffer_read leaves the allocation,
\* whatever was called before and for a ring of any size.
THEOREM RingCopiesInBounds == Spec => []CopiesInBounds
<1>1. RingInv => CopiesInBounds
  <2> SUFFICES ASSUME RingInv
               PROVE  CopiesInBounds
    OBVIOUS
  <2>1. ASSUME NEW n \in 1 .. write_capacity
        PROVE  /\ write_span(n) \in 0 .. n
               /\ head + write_span(n) <= Length
               /\ n - write_span(n) <= Length
               /\ write_span(n) > 0 => n - write_span(n) <= head
    BY <2>1, Capacities, RingBufferAssumption
       DEF RingInv, TypeOK, FullMeansMet, write_span, Lesser,
           read_capacity, write_capacity
  <2>2. ASSUME NEW n \in 1 .. read_capacity
        PROVE  /\ read_span(n) \in 0 .. n
               /\ tail + read_span(n) <= Length
               /\ n - read_span(n) <= Length
    BY <2>2, Capacities, RingBufferAssumption
       DEF RingInv, TypeOK, FullMeansMet, read_span, Lesser, read_capacity
  <2>3. QED
    BY <2>1, <2>2 DEF CopiesInBounds
<1>2. QED
  BY <1>1, RingInvariant, PTL
-----------------------------------------------------------------------------
(***************************************************************************)
(* The refinement.  Every step appends to the waiting bytes, or takes from *)
(* their front: where in the store a waiting byte lies is SlotOf, and the  *)
(* lemmas say which of those places a transfer touches.                    *)
(***************************************************************************)
\* The waiting bytes form a sequence of as many bytes as can be read, each from
\* a slot of its own.
LEMMA ContentsIsSeq ==
    ASSUME RingInv
    PROVE  /\ Contents \in Seq(Bytes)
           /\ Len(Contents) = read_capacity
           /\ \A i \in 1 .. read_capacity : /\ SlotOf(i) \in Slots
                                            /\ Contents[i] = store[SlotOf(i)]
<1>1. read_capacity \in 0 .. Length /\ tail \in 0 .. Length
  BY Capacities DEF RingInv, TypeOK
<1>2. ASSUME NEW i \in 1 .. read_capacity
      PROVE  SlotOf(i) \in Slots
  BY <1>1, RingBufferAssumption DEF SlotOf, Slots
<1>3. ASSUME NEW i \in 1 .. read_capacity
      PROVE  store[SlotOf(i)] \in Bytes
  BY <1>2 DEF RingInv, TypeOK
<1>4. Contents \in [1 .. read_capacity -> Bytes]
  BY <1>3 DEF Contents
<1>5. QED
  BY <1>1, <1>2, <1>4 DEF Contents

\* The same after a call that keeps the invariant.
LEMMA ContentsIsSeqNext ==
    (RingInv => Contents \in Seq(Bytes) /\ Len(Contents) = read_capacity)'
<1>1. RingInv => Contents \in Seq(Bytes) /\ Len(Contents) = read_capacity
  BY ContentsIsSeq
<1>2. QED
  BY <1>1, PTL

\* A write of n bytes leaves alone the slots of the waiting bytes and puts its
\* j-th byte in the slot j places behind the last of them.
LEMMA WriteSlots ==
    ASSUME RingInv, NEW n \in 1 .. write_capacity
    PROVE  /\ \A i \in 1 .. read_capacity :
                 /\ ~ (SlotOf(i) < n - write_span(n))
                 /\ ~ (head <= SlotOf(i) /\ SlotOf(i) < head + write_span(n))
           /\ \A j \in 1 .. n :
                 SlotOf(read_capacity + j) =
                     IF j <= write_span(n) THEN head + j - 1
                                           ELSE j - write_span(n) - 1
           /\ n - write_span(n) <= head \/ write_span(n) = 0
           /\ read_capacity + n <= Length
<1>1. /\ head \in 0 .. Length /\ tail \in 0 .. Length
      /\ Length \in Nat \ {0} /\ full \in BOOLEAN
      /\ full => head = tail
  BY RingBufferAssumption DEF RingInv, TypeOK, FullMeansMet
<1>2. ~ full
  BY <1>1 DEF write_capacity, read_capacity
<1>3. CASE head >= tail
  <2>1. read_capacity = head - tail /\ n <= Length - (head - tail)
    BY <1>1, <1>2, <1>3 DEF write_capacity, read_capacity
  <2>2. write_span(n) = IF Length - head < n THEN Length - head ELSE n
    BY <1>3 DEF write_span, Lesser
  <2>3. QED
    BY <1>1, <1>3, <2>1, <2>2 DEF SlotOf
<1>4. CASE head < tail
  <2>1. read_capacity = (Length + head) - tail /\ n <= tail - head
    BY <1>1, <1>2, <1>4 DEF write_capacity, read_capacity
  <2>2. write_span(n) = n
    BY <1>1, <1>4, <2>1 DEF write_span, Lesser
  <2>3. QED
    BY <1>1, <1>4, <2>1, <2>2 DEF SlotOf
<1>5. QED
  BY <1>1, <1>3, <1>4

\* A read of n bytes copies the first n waiting bytes.
LEMMA ReadSlots ==
    ASSUME RingInv, NEW n \in 1 .. read_capacity
    PROVE  \A i \in 1 .. n :
              SlotOf(i) = IF i <= read_span(n) THEN tail + i - 1
                                               ELSE i - read_span(n) - 1
<1>1. /\ head \in 0 .. Length /\ tail \in 0 .. Length
      /\ Length \in Nat \ {0} /\ full \in BOOLEAN
      /\ full => head = tail
  BY RingBufferAssumption DEF RingInv, TypeOK, FullMeansMet
<1>2. CASE tail >= head
  <2>1. read_span(n) = IF Length - tail < n THEN Length - tail ELSE n
    BY <1>2 DEF read_span, Lesser
  <2>2. QED
    BY <1>1, <1>2, <2>1, Capacities DEF SlotOf
<1>3. CASE tail < head
  <2>1. n <= head - tail
    BY <1>1, <1>3 DEF read_capacity
  <2>2. read_span(n) = n
    BY <1>1, <1>3, <2>1 DEF read_span, Lesser
  <2>3. QED
    BY <1>1, <1>3, <2>1, <2>2 DEF SlotOf
<1>4. QED
  BY <1>1, <1>2, <1>3

\* ring_buffer_write appends what fits of its data to the waiting bytes.
LEMMA WriteIsPut ==
    ASSUME RingInv, NEW data \in Chunks, ring_buffer_write(data)
    PROVE  Fifo!Put(data)
<1> DEFINE n == Lesser(Len(data), write_capacity)
<1>1. data \in Seq(Bytes) /\ Len(data) \in Nat
  BY RingBufferAssumption
<1>2. n \in 0 .. Length /\ n <= Len(data) /\ n <= write_capacity
  BY <1>1, Capacities, RingBufferAssumption DEF Lesser
<1>3. n = Fifo!Lesser(Len(data), Length - Len(Contents))
  BY Capacities, ContentsIsSeq DEF Lesser, Fifo!Lesser
<1>4. done' = n /\ in' = data /\ out' = out /\ tail' = tail
  BY DEF ring_buffer_write
<1> HIDE DEF n
<1>5. /\ SubSeq(data, 1, n) \in Seq(Bytes)
      /\ Len(SubSeq(data, 1, n)) = n
      /\ \A j \in 1 .. n : SubSeq(data, 1, n)[j] = data[j]
  <2>1. \A j \in 1 .. n : data[j] \in Bytes
    BY <1>1, <1>2
  <2>2. QED
    BY <1>2, <2>1, SubSeqProperties
<1>6. Contents' = Contents \o SubSeq(data, 1, n)
  <2>1. CASE n = 0
    <3>1. store' = store /\ head' = head /\ full' = full
      BY <2>1 DEF n, ring_buffer_write
    <3>2. Contents' = Contents
      BY <1>4, <3>1 DEF Contents, SlotOf, read_capacity
    <3>3. SubSeq(data, 1, n) = <<>>
      BY <2>1, <1>5, EmptySeq
    <3>4. QED
      BY <3>2, <3>3, ContentsIsSeq, ConcatEmptySeq
  <2>2. CASE n > 0
    <3>1. n \in 1 .. write_capacity /\ read_capacity \in 0 .. Length
      BY <1>2, <2>2, Capacities
    <3>2. /\ store' = Stored(data, n)
          /\ head' = Wrap(head + n)
          /\ full' = (tail = Wrap(head + n))
      BY <2>2 DEF n, ring_buffer_write
    <3>3. RingInv'
      BY WritePreservesInv
    <3>4. read_capacity' = read_capacity + n
      <4>1. /\ head \in 0 .. Length /\ tail \in 0 .. Length
            /\ Length \in Nat \ {0} /\ full \in BOOLEAN
            /\ full => head = tail
        BY RingBufferAssumption DEF RingInv, TypeOK, FullMeansMet
      <4>2. ~ full
        BY <3>1, <4>1 DEF write_capacity, read_capacity
      <4>3. CASE head >= tail
        <5>1. n \in 1 .. Length - (head - tail) /\ read_capacity = head - tail
          BY <3>1, <4>1, <4>2, <4>3 DEF write_capacity, read_capacity
        <5>2. CASE head + n <= Length
          <6>1. Wrap(head + n) = head + n /\ tail # head + n
            BY <4>1, <4>3, <5>1, <5>2 DEF Wrap
          <6>2. head' = head + n /\ ~ full'
            BY <3>2, <6>1
          <6>3. QED
            BY <1>4, <4>1, <4>3, <5>1, <6>2 DEF read_capacity
        <5>3. CASE head + n > Length
          <6>1. Wrap(head + n) = head + n - Length
            BY <4>1, <5>1, <5>3 DEF Wrap
          <6>2. /\ head' = head + n - Length
                /\ full' <=> tail = head + n - Length
                /\ head + n - Length <= tail
            <7>1. head + n - Length <= tail
              BY <4>1, <5>1
            <7>2. QED
              BY <3>2, <6>1, <7>1
          <6>3. CASE full'
            BY <1>4, <4>1, <5>1, <6>2, <6>3 DEF read_capacity
          <6>4. CASE ~ full'
            BY <1>4, <4>1, <5>1, <6>2, <6>4 DEF read_capacity
          <6>5. QED
            BY <6>3, <6>4
        <5>4. QED
          BY <4>1, <5>1, <5>2, <5>3
      <4>4. CASE head < tail
        <5>1. /\ n \in 1 .. tail - head
              /\ read_capacity = (Length + head) - tail
          BY <3>1, <4>1, <4>2, <4>4 DEF write_capacity, read_capacity
        <5>2. Wrap(head + n) = head + n
          BY <4>1, <4>4, <5>1 DEF Wrap
        <5>3. head' = head + n /\ (full' <=> tail = head + n)
          BY <3>2, <5>2
        <5>4. CASE full'
          BY <1>4, <4>1, <5>1, <5>3, <5>4 DEF read_capacity
        <5>5. CASE ~ full'
          BY <1>4, <4>1, <5>1, <5>3, <5>5 DEF read_capacity
        <5>6. QED
          BY <5>4, <5>5
      <4>5. QED
        BY <4>1, <4>3, <4>4
    <3> DEFINE last == read_capacity + n
    <3>5. ASSUME NEW k \in 1 .. last
           PROVE  Contents'[k] = store'[SlotOf(k)]
      BY <1>4, <3>4 DEF Contents, SlotOf
    <3>6. ASSUME NEW i \in 1 .. read_capacity
          PROVE  Contents'[i] = Contents[i]
      <4>1. SlotOf(i) \in Slots /\ SlotOf(i)' = SlotOf(i)
        BY <1>4, ContentsIsSeq DEF SlotOf
      <4>2. store'[SlotOf(i)] = store[SlotOf(i)]
        BY <3>1, <3>2, <4>1, WriteSlots DEF Stored
      <4>3. i \in 1 .. read_capacity'
        BY <3>1, <3>4
      <4>4. QED
        BY <4>1, <4>2, <4>3, ContentsIsSeq DEF Contents
    <3>7. ASSUME NEW j \in 1 .. n
          PROVE  Contents'[read_capacity + j] = data[j]
      <4> DEFINE s == SlotOf(read_capacity + j)
      <4>1. read_capacity + j \in 1 .. last
        BY <3>1
      <4>2. Contents'[read_capacity + j] = store'[s]
        BY <3>5, <4>1
      <4> HIDE DEF s
      <4>3. s = IF j <= write_span(n) THEN head + j - 1
                                      ELSE j - write_span(n) - 1
        BY <3>1, WriteSlots DEF s
      <4>4. /\ n - write_span(n) <= head \/ write_span(n) = 0
            /\ write_span(n) \in 0 .. n /\ head + write_span(n) <= Length
            /\ n \in 0 .. Length /\ head \in 0 .. Length /\ Length \in Nat
        <5>1. n - write_span(n) <= head \/ write_span(n) = 0
          BY <3>1, WriteSlots
        <5>2. write_span(n) \in 0 .. n /\ head + write_span(n) <= Length
          BY <1>2, Spans
        <5>3. head \in 0 .. Length
          BY DEF RingInv, TypeOK
        <5>4. QED
          BY <1>2, <5>1, <5>2, <5>3, RingBufferAssumption
      <4>5. s \in Slots
        BY <4>3, <4>4, <3>1, RingBufferAssumption DEF Slots
      <4>6. store'[s] = data[j]
        <5>1. CASE j <= write_span(n)
          <6>1. /\ s = head + j - 1 /\ ~ (s < n - write_span(n))
                /\ head <= s /\ s < head + write_span(n) /\ s - head + 1 = j
            BY <4>3, <4>4, <5>1
          <6>2. QED
            BY <3>2, <4>5, <6>1 DEF Stored
        <5>2. CASE ~ (j <= write_span(n))
          <6>1. s < n - write_span(n) /\ write_span(n) + s + 1 = j
            BY <4>3, <4>4, <5>2
          <6>2. QED
            BY <3>2, <4>5, <6>1 DEF Stored
        <5>3. QED
          BY <5>1, <5>2
      <4>7. QED
        BY <4>2, <4>6
    <3>8. /\ Contents' \in Seq(Bytes) /\ Len(Contents') = read_capacity'
          /\ Contents \in Seq(Bytes) /\ Len(Contents) = read_capacity
      BY <3>3, ContentsIsSeq, ContentsIsSeqNext
    <3>9. /\ Contents \o SubSeq(data, 1, n) \in Seq(Bytes)
          /\ Len(Contents \o SubSeq(data, 1, n)) = read_capacity + n
          /\ \A i \in 1 .. read_capacity + n :
                (Contents \o SubSeq(data, 1, n))[i] =
                    IF i <= read_capacity THEN Contents[i]
                    ELSE SubSeq(data, 1, n)[i - read_capacity]
      BY <1>5, <3>8, ConcatProperties
    <3>10. ASSUME NEW i \in 1 .. read_capacity + n
          PROVE  Contents'[i] = (Contents \o SubSeq(data, 1, n))[i]
      <4>1. CASE i <= read_capacity
        BY <3>1, <3>6, <3>9, <4>1
      <4>2. CASE ~ (i <= read_capacity)
        <5>1. /\ i - read_capacity \in 1 .. n
              /\ read_capacity + (i - read_capacity) = i
          BY <3>1, <4>2
        <5>2. Contents'[i] = data[i - read_capacity]
          BY <3>7, <5>1
        <5>3. QED
          BY <1>5, <3>1, <3>9, <4>2, <5>1, <5>2
      <4>3. QED
        BY <4>1, <4>2
    <3>11. QED
      BY <3>4, <3>8, <3>9, <3>10, SeqEqual
  <2>3. QED
    BY <1>2, <2>1, <2>2
<1>7. QED
  BY <1>3, <1>4, <1>6 DEF Fifo!Put

\* ring_buffer_read hands over the oldest of the waiting bytes and keeps the rest.
LEMMA ReadIsGet ==
    ASSUME RingInv, NEW length \in Requests, ring_buffer_read(length)
    PROVE  Fifo!Get(length)
<1> DEFINE n == Lesser(length, read_capacity)
<1>1. n \in 0 .. Length /\ n <= read_capacity
  BY Capacities, RingBufferAssumption DEF Lesser
<1>2. n = Fifo!Lesser(length, Len(Contents))
  BY ContentsIsSeq DEF Lesser, Fifo!Lesser
<1>3. /\ done' = n /\ out' = Fetched(n) /\ store' = store /\ head' = head
      /\ in' = <<>>
      /\ read_capacity \in 0 .. Length
  BY Capacities DEF ring_buffer_read
<1> HIDE DEF n
<1>4. /\ SubSeq(Contents, 1, n) \in Seq(Bytes)
      /\ Len(SubSeq(Contents, 1, n)) = n
      /\ \A i \in 1 .. n : SubSeq(Contents, 1, n)[i] = Contents[i]
  <2>1. \A i \in 1 .. n : Contents[i] \in Bytes
    BY <1>1, <1>3, ContentsIsSeq, ElementOfSeq
  <2>2. QED
    BY <1>1, <2>1, SubSeqProperties
<1>5. out' = SubSeq(Contents, 1, n)
  <2>1. ASSUME NEW i \in 1 .. n
        PROVE  Fetched(n)[i] = Contents[i]
    <3>1. n \in 1 .. read_capacity /\ i \in 1 .. read_capacity
      BY <1>1, <1>3
    <3>2. SlotOf(i) = IF i <= read_span(n) THEN tail + i - 1
                                           ELSE i - read_span(n) - 1
      BY <3>1, ReadSlots
    <3>3. Fetched(n)[i] = store[SlotOf(i)]
      BY <3>2 DEF Fetched
    <3>4. QED
      BY <3>1, <3>3, ContentsIsSeq
  <2>2. Fetched(n) = [i \in 1 .. n |-> Contents[i]]
    BY <2>1 DEF Fetched
  <2>3. SubSeq(Contents, 1, n) = [i \in 1 .. n |-> Contents[i]]
    BY <1>1, <1>4, LenProperties
  <2>4. QED
    BY <1>3, <2>2, <2>3
<1>6. /\ SubSeq(Contents, n + 1, read_capacity) \in Seq(Bytes)
      /\ Len(SubSeq(Contents, n + 1, read_capacity)) = read_capacity - n
      /\ \A i \in 1 .. read_capacity - n :
            SubSeq(Contents, n + 1, read_capacity)[i] = Contents[n + i]
  <2>1. \A i \in n + 1 .. read_capacity : Contents[i] \in Bytes
    BY <1>1, <1>3, ContentsIsSeq, ElementOfSeq
  <2>2. /\ SubSeq(Contents, n + 1, read_capacity) \in Seq(Bytes)
        /\ Len(SubSeq(Contents, n + 1, read_capacity)) =
              IF n + 1 <= read_capacity THEN read_capacity - (n + 1) + 1 ELSE 0
        /\ \A i \in 1 .. read_capacity - (n + 1) + 1 :
              SubSeq(Contents, n + 1, read_capacity)[i] = Contents[n + 1 + i - 1]
    BY <1>1, <1>3, <2>1, SubSeqProperties
  <2>3. read_capacity \in Nat /\ n \in Nat /\ n <= read_capacity
    BY <1>1, <1>3, RingBufferAssumption
  <2>4. Len(SubSeq(Contents, n + 1, read_capacity)) = read_capacity - n
    BY <2>2, <2>3
  <2>5. ASSUME NEW i \in 1 .. read_capacity - n
        PROVE  SubSeq(Contents, n + 1, read_capacity)[i] = Contents[n + i]
    <3>1. i \in 1 .. read_capacity - (n + 1) + 1 /\ n + 1 + i - 1 = n + i
      BY <2>3, <2>5
    <3>2. QED
      BY <2>2, <3>1
  <2>6. QED
    BY <2>2, <2>4, <2>5
<1>7. read_capacity' = read_capacity - n
  <2>1. CASE n = 0
    BY <1>1, <1>3, <2>1 DEF n, ring_buffer_read, read_capacity
  <2>2. CASE n > 0
    <3>1. /\ head \in 0 .. Length /\ tail \in 0 .. Length
          /\ Length \in Nat \ {0} /\ full \in BOOLEAN
          /\ full => head = tail
      BY RingBufferAssumption DEF RingInv, TypeOK, FullMeansMet
    <3>2. tail' = Wrap(tail + n) /\ full' = FALSE
      BY <2>2 DEF n, ring_buffer_read
    <3>3. tail' = IF tail + n > Length THEN tail + n - Length ELSE tail + n
      BY <1>1, <3>1, <3>2 DEF Wrap
    <3>4. read_capacity' = IF head >= tail' THEN head - tail'
                                            ELSE (Length + head) - tail'
      BY <1>3, <3>2 DEF read_capacity
    <3>5. n \in Int /\ n > 0 /\ n <= read_capacity
      BY <1>1, <2>2
    <3>6. CASE full
      BY <3>1, <3>3, <3>4, <3>5, <3>6 DEF read_capacity
    <3>7. CASE ~ full /\ head >= tail
      BY <3>1, <3>3, <3>4, <3>5, <3>7 DEF read_capacity
    <3>8. CASE ~ full /\ head < tail
      BY <3>1, <3>3, <3>4, <3>5, <3>8 DEF read_capacity
    <3>9. QED
      BY <3>1, <3>6, <3>7, <3>8
  <2>3. QED
    BY <1>1, <2>1, <2>2
<1>8. ASSUME NEW i \in 1 .. read_capacity - n
      PROVE  Contents'[i] = Contents[n + i]
  <2>1. n + i \in 1 .. read_capacity
    BY <1>1, <1>3
  <2>2. tail' = IF tail + n > Length THEN tail + n - Length ELSE tail + n
    <3>1. CASE n = 0
      <4>1. tail' = tail /\ tail \in 0 .. Length /\ Length \in Nat
        BY <3>1, RingBufferAssumption DEF n, ring_buffer_read, RingInv, TypeOK
      <4>2. QED
        BY <3>1, <4>1
    <3>2. CASE n > 0
      <4>1. tail' = Wrap(tail + n) /\ tail \in 0 .. Length /\ Length \in Nat
        BY <3>2, RingBufferAssumption DEF n, ring_buffer_read, RingInv, TypeOK
      <4>2. QED
        BY <1>1, <4>1 DEF Wrap
    <3>3. QED
      BY <1>1, <3>1, <3>2
  <2>3. /\ tail \in 0 .. Length /\ n \in Int /\ i \in Int
        /\ Length \in Int /\ 0 < i /\ n + i <= Length /\ 0 <= n
    BY <1>1, <1>3, <2>1, RingBufferAssumption DEF RingInv, TypeOK
  <2>4. (IF tail' + i > Length THEN tail' + i - 1 - Length ELSE tail' + i - 1)
            = SlotOf(n + i)
    BY <2>2, <2>3 DEF SlotOf
  <2>5. Contents'[i] = store[SlotOf(n + i)]
    BY <1>3, <1>7, <2>4 DEF Contents, SlotOf
  <2>6. QED
    BY <2>1, <2>5, ContentsIsSeq
<1>9. Contents' = SubSeq(Contents, n + 1, Len(Contents))
  <2>1. Contents' \in Seq(Bytes) /\ Len(Contents') = read_capacity - n
    BY <1>7, ReadPreservesInv, ContentsIsSeqNext
  <2>2. QED
    BY <1>6, <1>8, <2>1, ContentsIsSeq, SeqEqual
<1>10. QED
  BY <1>2, <1>3, <1>5, <1>9 DEF Fifo!Get

\* ring_buffer_clear leaves no byte waiting.
LEMMA ClearIsForget == RingInv /\ ring_buffer_clear => Fifo!Forget
<1> SUFFICES ASSUME RingInv, ring_buffer_clear
             PROVE  Fifo!Forget
  OBVIOUS
<1>1. read_capacity' = 0
  BY DEF ring_buffer_clear, read_capacity
<1>2. Contents' = <<>>
  <2>1. Contents' \in Seq(Bytes) /\ Len(Contents') = 0
    BY <1>1, ClearPreservesInv, ContentsIsSeqNext
  <2>2. QED
    BY <2>1, EmptySeq
<1>3. QED
  BY <1>2 DEF ring_buffer_clear, Fifo!Forget

\* For a ring of any size, any bytes and any calls, ring_buffer.c behaves as a
\* first-in first-out queue of Length bytes: no byte is lost, repeated or
\* reordered across the wrap, and every call moves as many as the queue would.
THEOREM RingImplementsFifo == Spec => ImplementsFifo
<1>1. ring_buffer_create => Fifo!Init
  <2> SUFFICES ASSUME ring_buffer_create
               PROVE  Fifo!Init
    OBVIOUS
  <2>1. RingInv /\ read_capacity = 0
    BY CreateEstablishesInv DEF ring_buffer_create, read_capacity
  <2>2. Contents = <<>>
    BY <2>1, ContentsIsSeq, EmptySeq
  <2>3. QED
    BY <2>2 DEF ring_buffer_create, Fifo!Init
<1>2. RingInv /\ [Next]_vars => [Fifo!Next]_(Fifo!vars)
  <2> SUFFICES ASSUME RingInv, [Next]_vars
               PROVE  [Fifo!Next]_(Fifo!vars)
    OBVIOUS
  <2>1. CASE \E data \in Chunks : ring_buffer_write(data)
    BY <2>1, WriteIsPut DEF Fifo!Next
  <2>2. CASE \E length \in Requests : ring_buffer_read(length)
    BY <2>2, ReadIsGet DEF Fifo!Next
  <2>3. CASE ring_buffer_clear
    BY <2>3, ClearIsForget DEF Fifo!Next
  <2>4. CASE UNCHANGED vars
    BY <2>4 DEF vars, Fifo!vars, Contents, SlotOf, read_capacity
  <2>5. QED
    BY <2>1, <2>2, <2>3, <2>4 DEF Next
<1>3. QED
  BY <1>1, <1>2, RingInvariant, PTL DEF Spec, ImplementsFifo, Fifo!Spec
=============================================================================
