-------------------------- MODULE SharedRingProofs --------------------------
(***************************************************************************)
(* The ring between two threads, for every size of it, all chunks and all  *)
(* requests: until the writer finds its head where the tail is, or an      *)
(* offset turns between two loads of one decision, the bytes arrive in     *)
(* order and no copy leaves the ring, however the loads and stores of the  *)
(* two threads are interleaved.                                            *)
(***************************************************************************)
EXTENDS SharedRing, SequenceTheorems, TLAPS

\* The bytes whose place in the ring is known to the reader, those that it has
\* given back, and those between.  A copy comes before the offset is advanced.
Advanced == written - (IF writer.pc = "advance" THEN writer.n ELSE 0)
Taken == Len(out) - (IF reader.pc = "advance" THEN reader.capacity ELSE 0)
Held == Advanced - Taken

\* The slot of byte i from an offset, in a ring where no copy breaks early.
Place(offset, i) ==
    IF offset + i <= Length THEN offset + i - 1 ELSE offset + i - 1 - Length

\* Where the two are in an operation: with a chunk to write, with a chunk that the
\* check has let pass, with a capacity, and with a break or a copy made.
Chunked == {"test", "check", "enter", "test_again", "capacity", "offset",
            "offset_again", "subtract", "copy"}
Passed == {"enter", "test_again", "capacity", "offset", "offset_again", "subtract",
           "copy", "advance"}
Measured == {"offset", "offset_again", "subtract", "copy", "advance"}
LaidOut == {"copy", "advance"}

(***************************************************************************)
(* What each of the two may still do to its offset.                        *)
(***************************************************************************)
Bounded ==
    /\ writer.pc \in Chunked => written + writer.n <= MaxWritten
    /\ writer.pc \in Measured => writer.capacity <= writer.n
    /\ writer.pc = "copy" => writer.offset <= writer.capacity
    /\ writer.pc = "advance" => writer.n <= written
    /\ reader.pc = "advance" =>
           tail + reader.capacity <= 2 * Length /\ reader.capacity <= Len(out)
    /\ writer.pc = "wrap" => head > Length
    /\ reader.pc = "wrap" => tail > Length

\* The flag is never raised.
NeverFull == ~ full /\ writer.pc # "raise"

\* The two offsets are as far from each other as there are bytes between them.
Apart ==
    /\ Held \in 0 .. Length
    /\ Wrap(head) = Wrap(Wrap(tail) + Held)

\* What the check has let pass still fits and is written whole, and who is about
\* to read has the bytes to.
Room ==
    /\ writer.pc \in Passed => Held + writer.n <= Length
    /\ writer.pc \in Measured => writer.capacity = writer.n
    /\ reader.pc \in Measured => reader.capacity <= Held

\* A copy breaks at the end of the ring, if at all.
Breaks(own, first, n) ==
    first <= n /\ own + first <= Length /\ (first < n => own + first = Length)

\* Both copies do, and neither has left the ring.
BothBreak ==
    /\ writer.pc = "copy" => Breaks(head, writer.offset, writer.capacity)
    /\ reader.pc = "copy" => Breaks(tail, reader.offset, reader.capacity)
    /\ writer.pc # "crashed" /\ reader.pc # "crashed"

\* An offset past the end is one turn, and not more, ahead of what it is, and the
\* other one will not pass the end before it is wrapped.
OneWraps ==
    /\ tail > Length =>
           /\ head <= Length /\ tail + Held <= 2 * Length
           /\ writer.pc \in LaidOut => head + writer.n <= Length
    /\ head > Length =>
           /\ Wrap(tail) + Held > Length
           /\ reader.pc \in LaidOut => tail + reader.capacity <= Length

\* A ring filled to the last byte looks empty only until the writer compares.
FilledIsSeen ==
    writer.pc \notin {"wrap", "compare"} /\ Held = Length => Wrap(tail) # Wrap(head)

\* What was written and not given back is where the reader will look for it.
InPlace ==
    \A j \in 1 .. written - Taken : store[Place(Wrap(tail), j)] = Taken + j

RingInv == TypeOK /\ Bounded

Offsets == NeverFull /\ Apart /\ Room /\ BothBreak /\ OneWraps /\ FilledIsSeen

OrderInv == ~ met /\ ~ torn => Offsets /\ InPlace /\ InOrder
-----------------------------------------------------------------------------
(***************************************************************************)
(* The types, and the bounds they rest on, whatever the threads do to each *)
(* other.                                                                  *)
(***************************************************************************)
\* What the steps need to know of the constants.
LEMMA Constants ==
    /\ Length \in Nat /\ Length > 0 /\ MaxWritten \in Nat
    /\ SIZES \in Nat /\ 2 * Length < SIZES
    /\ \A n \in Chunks : n \in 0 .. Length
    /\ \A n \in Requests : n \in 0 .. SIZES - 1
BY SharedRingAssumption

\* A size_t is a number below SIZES, and holds any such number as it is.
LEMMA SizeTs ==
    ASSUME NEW x \in Int
    PROVE  SizeT(x) \in 0 .. SIZES - 1 /\ (x \in 0 .. SIZES - 1 => SizeT(x) = x)
BY Constants DEF SizeT

\* Any n values are a sequence of length n.
LEMMA SequenceOf ==
    ASSUME NEW S, NEW n \in Nat, NEW f \in [1 .. n -> S]
    PROVE  f \in Seq(S) /\ Len(f) = n
OBVIOUS

\* The lesser of two numbers.
LEMMA Lessers ==
    ASSUME NEW a \in Nat, NEW b \in Nat
    PROVE  Lesser(a, b) \in Nat /\ Lesser(a, b) <= a /\ Lesser(a, b) <= b
BY DEF Lesser

\* A capacity is a size_t, whatever the offsets are.
LEMMA Capacities ==
    ASSUME RingInv, NEW ahead \in BOOLEAN
    PROVE  /\ ReadCapacity(ahead) \in 0 .. SIZES - 1
           /\ SizeT(Length - ReadCapacity(ahead)) \in 0 .. SIZES - 1
<1>1. ReadCapacity(ahead) \in 0 .. SIZES - 1
  <2>1. (IF ahead THEN head - tail ELSE (Length + head) - tail) \in Int
    BY Constants DEF RingInv, TypeOK
  <2> QED
    BY <2>1, SizeTs DEF ReadCapacity
<1>2. Length - ReadCapacity(ahead) \in Int
    BY <1>1, Constants
<1> QED
    BY <1>1, <1>2, SizeTs

\* The fields of a thread's record that matter to the other thread.
Fields(v, l, n, c, o) == v.pc = l /\ v.n = n /\ v.capacity = c /\ v.offset = o

\* The fields a thread has, and the record it is when it is idle.
LEMMA Threads ==
    ASSUME NEW P, NEW N
    PROVE  /\ \A w \in ThreadStates(P, N) :
                  /\ w.pc \in P /\ w.n \in N /\ w.ahead \in BOOLEAN
                  /\ w.capacity \in N /\ w.offset \in N
           /\ "idle" \in P /\ 0 \in N => Idle \in ThreadStates(P, N)
           /\ Fields(Idle, "idle", 0, 0, 0)
BY DEF ThreadStates, Fields, Idle

\* What a step does to the record of its thread.
WriterBecomes(l, n, c, o) ==
    writer' \in ThreadStates(WriterLabels, 0 .. Length) /\ Fields(writer', l, n, c, o)

ReaderBecomes(l, n, c, o) ==
    reader' \in ThreadStates(ReaderLabels, 0 .. SIZES - 1) /\ Fields(reader', l, n, c, o)

LEMMA WriterFields ==
    ASSUME RingInv
    PROVE  /\ writer.pc \in WriterLabels /\ writer.ahead \in BOOLEAN
           /\ writer.n \in 0 .. Length /\ writer.capacity \in 0 .. Length /\ writer.offset \in 0 .. Length
           /\ writer' = Idle => WriterBecomes("idle", 0, 0, 0)
           /\ \A l \in WriterLabels :
                  writer' = [writer EXCEPT !.pc = l] =>
                      WriterBecomes(l, writer.n, writer.capacity, writer.offset)
           /\ \A l \in WriterLabels, a \in BOOLEAN :
                  writer' = [writer EXCEPT !.pc = l, !.ahead = a] =>
                      WriterBecomes(l, writer.n, writer.capacity, writer.offset)
           /\ \A l \in WriterLabels, a \in BOOLEAN, c \in 0 .. Length :
                  writer' = [writer EXCEPT !.pc = l, !.ahead = a, !.capacity = c] =>
                      WriterBecomes(l, writer.n, c, writer.offset)
           /\ \A l \in WriterLabels, o \in 0 .. Length :
                  writer' = [writer EXCEPT !.pc = l, !.offset = o] =>
                      WriterBecomes(l, writer.n, writer.capacity, o)
           /\ \A l \in WriterLabels, n \in 0 .. Length :
                  writer' = [writer EXCEPT !.pc = l, !.n = n] =>
                      WriterBecomes(l, n, writer.capacity, writer.offset)
<1>1. writer \in ThreadStates(WriterLabels, 0 .. Length)
    BY DEF RingInv, TypeOK
<1>2. writer' = Idle => WriterBecomes("idle", 0, 0, 0)
  <2>1. "idle" \in WriterLabels /\ 0 \in 0 .. Length
    BY Constants DEF WriterLabels
  <2> QED
    BY <2>1, Threads DEF WriterBecomes
<1> USE <1>1 DEF ThreadStates, Fields, WriterBecomes
<1>3. ASSUME NEW l \in WriterLabels,
             writer' = [writer EXCEPT !.pc = l]
      PROVE  WriterBecomes(l, writer.n, writer.capacity, writer.offset)
    BY <1>3
<1>4. ASSUME NEW l \in WriterLabels, NEW a \in BOOLEAN,
             writer' = [writer EXCEPT !.pc = l, !.ahead = a]
      PROVE  WriterBecomes(l, writer.n, writer.capacity, writer.offset)
    BY <1>4
<1>5. ASSUME NEW l \in WriterLabels, NEW a \in BOOLEAN,
             NEW c \in 0 .. Length,
             writer' = [writer EXCEPT !.pc = l, !.ahead = a, !.capacity = c]
      PROVE  WriterBecomes(l, writer.n, c, writer.offset)
    BY <1>5
<1>6. ASSUME NEW l \in WriterLabels, NEW o \in 0 .. Length,
             writer' = [writer EXCEPT !.pc = l, !.offset = o]
      PROVE  WriterBecomes(l, writer.n, writer.capacity, o)
    BY <1>6
<1>7. ASSUME NEW l \in WriterLabels, NEW n \in 0 .. Length,
             writer' = [writer EXCEPT !.pc = l, !.n = n]
      PROVE  WriterBecomes(l, n, writer.capacity, writer.offset)
    BY <1>7
<1> HIDE <1>1 DEF ThreadStates, Fields, WriterBecomes
<1>8. 0 \in 0 .. Length
    BY Constants
<1> QED
    BY <1>1, <1>2, <1>3, <1>4, <1>5, <1>6, <1>7, <1>8, Threads

LEMMA ReaderFields ==
    ASSUME RingInv
    PROVE  /\ reader.pc \in ReaderLabels /\ reader.ahead \in BOOLEAN
           /\ reader.n \in 0 .. SIZES - 1 /\ reader.capacity \in 0 .. SIZES - 1
           /\ reader.offset \in 0 .. SIZES - 1
           /\ reader' = Idle => ReaderBecomes("idle", 0, 0, 0)
           /\ \A l \in ReaderLabels :
                  reader' = [reader EXCEPT !.pc = l] =>
                      ReaderBecomes(l, reader.n, reader.capacity, reader.offset)
           /\ \A l \in ReaderLabels, a \in BOOLEAN :
                  reader' = [reader EXCEPT !.pc = l, !.ahead = a] =>
                      ReaderBecomes(l, reader.n, reader.capacity, reader.offset)
           /\ \A l \in ReaderLabels, a \in BOOLEAN, c \in 0 .. SIZES - 1 :
                  reader' = [reader EXCEPT !.pc = l, !.ahead = a, !.capacity = c] =>
                      ReaderBecomes(l, reader.n, c, reader.offset)
           /\ \A l \in ReaderLabels, o \in 0 .. SIZES - 1 :
                  reader' = [reader EXCEPT !.pc = l, !.offset = o] =>
                      ReaderBecomes(l, reader.n, reader.capacity, o)
           /\ \A l \in ReaderLabels, n \in 0 .. SIZES - 1, c \in 0 .. SIZES - 1 :
                  reader' = [reader EXCEPT !.pc = l, !.n = n, !.capacity = c] =>
                      ReaderBecomes(l, n, c, reader.offset)
<1>1. reader \in ThreadStates(ReaderLabels, 0 .. SIZES - 1)
    BY DEF RingInv, TypeOK
<1>2. reader' = Idle => ReaderBecomes("idle", 0, 0, 0)
  <2>1. "idle" \in ReaderLabels /\ 0 \in 0 .. SIZES - 1
    BY Constants DEF ReaderLabels
  <2> QED
    BY <2>1, Threads DEF ReaderBecomes
<1> USE <1>1 DEF ThreadStates, Fields, ReaderBecomes
<1>3. ASSUME NEW l \in ReaderLabels,
             reader' = [reader EXCEPT !.pc = l]
      PROVE  ReaderBecomes(l, reader.n, reader.capacity, reader.offset)
    BY <1>3
<1>4. ASSUME NEW l \in ReaderLabels, NEW a \in BOOLEAN,
             reader' = [reader EXCEPT !.pc = l, !.ahead = a]
      PROVE  ReaderBecomes(l, reader.n, reader.capacity, reader.offset)
    BY <1>4
<1>5. ASSUME NEW l \in ReaderLabels, NEW a \in BOOLEAN,
             NEW c \in 0 .. SIZES - 1,
             reader' = [reader EXCEPT !.pc = l, !.ahead = a, !.capacity = c]
      PROVE  ReaderBecomes(l, reader.n, c, reader.offset)
    BY <1>5
<1>6. ASSUME NEW l \in ReaderLabels, NEW o \in 0 .. SIZES - 1,
             reader' = [reader EXCEPT !.pc = l, !.offset = o]
      PROVE  ReaderBecomes(l, reader.n, reader.capacity, o)
    BY <1>6
<1>7. ASSUME NEW l \in ReaderLabels, NEW n \in 0 .. SIZES - 1,
             NEW c \in 0 .. SIZES - 1,
             reader' = [reader EXCEPT !.pc = l, !.n = n, !.capacity = c]
      PROVE  ReaderBecomes(l, n, c, reader.offset)
    BY <1>7
<1> HIDE <1>1 DEF ThreadStates, Fields, ReaderBecomes
<1>8. 0 \in 0 .. SIZES - 1
    BY Constants
<1> QED
    BY <1>1, <1>2, <1>3, <1>4, <1>5, <1>6, <1>7, <1>8, Threads

\* What is left to show of a step of the writer.
LEMMA WriterTyped ==
    ASSUME RingInv, NEW l, NEW n, NEW c, NEW o, WriterBecomes(l, n, c, o),
           UNCHANGED <<tail, reader, out>>,
           store' \in [Slots -> 0 .. MaxWritten], full' \in BOOLEAN,
           head' \in 0 .. 2 * Length, head' > Length <=> l = "wrap",
           written' \in 0 .. MaxWritten, met' \in BOOLEAN, torn' \in BOOLEAN,
           l \in Chunked => written' + n <= MaxWritten,
           l \in Measured => c <= n,
           l = "copy" => o <= c,
           l = "advance" => n <= written'
    PROVE  RingInv'
<1>1. /\ writer' \in ThreadStates(WriterLabels, 0 .. Length)
      /\ writer'.pc = l /\ writer'.n = n /\ writer'.capacity = c /\ writer'.offset = o
    BY DEF WriterBecomes, Fields
<1>2. TypeOK'
    BY <1>1 DEF RingInv, TypeOK, Slots
<1>3. Bounded'
    BY <1>1 DEF RingInv, Bounded
<1> QED
    BY <1>2, <1>3 DEF RingInv

\* Where a copy breaks is a number, and no more than the capacity.
LEMMA WriterBreaks ==
    ASSUME RingInv, NEW o \in Int, WriterBreaksAt(SizeT(o)) \/ WriterBreaksAt(0)
    PROVE  \E f \in 0 .. Length : /\ f <= writer.capacity
                                  /\ WriterBecomes("copy", writer.n, writer.capacity, f)
<1>1. PICK s \in {SizeT(o), 0} : WriterBreaksAt(s)
    OBVIOUS
<1>2. s \in Nat
    BY <1>1, SizeTs
<1>3. writer.capacity \in 0 .. Length /\ "copy" \in WriterLabels
    BY WriterFields DEF WriterLabels
<1>4. /\ Lesser(s, writer.capacity) \in 0 .. Length
      /\ Lesser(s, writer.capacity) <= writer.capacity
    BY <1>2, <1>3, Constants DEF Lesser
<1>5. WriterBecomes("copy", writer.n, writer.capacity, Lesser(s, writer.capacity))
    BY <1>1, <1>3, <1>4, WriterFields DEF WriterBreaksAt
<1> QED
    BY <1>4, <1>5

\* The writer keeps them.
LEMMA WriterTypes ==
    ASSUME RingInv, Writer
    PROVE  RingInv'
<1>0. /\ store \in [Slots -> 0 .. MaxWritten] /\ full \in BOOLEAN
      /\ head \in 0 .. 2 * Length /\ (head > Length <=> writer.pc = "wrap")
      /\ tail \in 0 .. 2 * Length
      /\ written \in 0 .. MaxWritten /\ met \in BOOLEAN /\ torn \in BOOLEAN
      /\ writer.pc \in Chunked => written + writer.n <= MaxWritten
      /\ writer.pc \in Measured => writer.capacity <= writer.n
      /\ writer.pc = "copy" => writer.offset <= writer.capacity
      /\ writer.pc = "advance" => writer.n <= written
      /\ writer.n \in 0 .. Length /\ writer.capacity \in 0 .. Length
      /\ writer.offset \in 0 .. Length
    BY WriterFields DEF RingInv, TypeOK, Bounded
<1>1. CASE WriterStarts
  <2>1. PICK n \in Chunks :
            /\ writer.pc = "idle" /\ written + n <= MaxWritten
            /\ writer' = [writer EXCEPT !.pc = "test", !.n = n]
            /\ UNCHANGED <<shared, reader, history>>
    BY <1>1 DEF WriterStarts
  <2>2. WriterBecomes("test", n, writer.capacity, writer.offset)
    BY <2>1, WriterFields, Constants DEF WriterLabels
  <2> QED
    BY <1>0, <2>1, <2>2, WriterTyped DEF shared, history, Chunked, Measured
<1>2. CASE WriterTests("test", "check") \/ WriterTests("test_again", "capacity")
  <2>1. PICK to \in {"check", "capacity"} :
            /\ writer' = [writer EXCEPT !.pc = to, !.ahead = (head >= tail)]
            /\ writer.pc \in {"test", "test_again"}
            /\ UNCHANGED <<shared, reader, history>>
    BY <1>2 DEF WriterTests
  <2>2. (head >= tail) \in BOOLEAN
    OBVIOUS
  <2>3. WriterBecomes(to, writer.n, writer.capacity, writer.offset)
    BY <2>1, <2>2, WriterFields DEF WriterLabels
  <2> QED
    BY <1>0, <2>1, <2>3, WriterTyped DEF shared, history, Chunked, Measured
<1>3. CASE WriterChecks
  <2>1. /\ \/ WriterBecomes("idle", 0, 0, 0)
           \/ WriterBecomes("enter", writer.n, writer.capacity, writer.offset)
        /\ writer.pc = "check" /\ torn' \in BOOLEAN
        /\ UNCHANGED <<shared, reader, written, out, met>>
    BY <1>0, <1>3, WriterFields DEF WriterChecks, Turned, WriterLabels
  <2> QED
    BY <1>0, <2>1, WriterTyped DEF shared, Chunked, Measured
<1>4. CASE WriterEnters
  <2>1. /\ \/ WriterBecomes("idle", 0, 0, 0) /\ written' = written + writer.n
           \/ /\ WriterBecomes("test_again", writer.n, writer.capacity, writer.offset)
              /\ written' = written
        /\ writer.pc = "enter" /\ UNCHANGED <<shared, reader, out, met, torn>>
    BY <1>4, WriterFields DEF WriterEnters, WriterDrops, WriterLabels
  <2>2. written' \in 0 .. MaxWritten
    BY <1>0, <2>1, Constants DEF Chunked
  <2> QED
    BY <1>0, <2>1, <2>2, WriterTyped DEF shared, Chunked, Measured
<1>5. CASE WriterCapacity
  <2>1. PICK c : /\ c = Lesser(writer.n, SizeT(Length - ReadCapacity(writer.ahead)))
                 /\ \/ writer' = Idle /\ written' = written + writer.n
                    \/ /\ writer' = [writer EXCEPT !.pc = "offset", !.ahead = FALSE,
                                                   !.capacity = c]
                       /\ written' = written
    BY <1>5 DEF WriterCapacity, WriterDrops
  <2>2. c \in 0 .. Length /\ c <= writer.n
    <3>1. SizeT(Length - ReadCapacity(writer.ahead)) \in Nat
      <4>1. writer.ahead \in BOOLEAN
        BY WriterFields
      <4> QED
        BY <4>1, Capacities, Constants
    <3> QED
      BY <1>0, <2>1, <3>1, Constants DEF Lesser
  <2>3. /\ writer.pc = "capacity" /\ torn' \in BOOLEAN
        /\ UNCHANGED <<shared, reader, out, met>>
    BY <1>0, <1>5, WriterFields DEF WriterCapacity, Turned
  <2>4. \/ WriterBecomes("idle", 0, 0, 0) /\ written' = written + writer.n
        \/ WriterBecomes("offset", writer.n, c, writer.offset) /\ written' = written
    BY <2>1, <2>2, WriterFields DEF WriterLabels
  <2>5. written' \in 0 .. MaxWritten
    BY <1>0, <2>1, <2>3, Constants DEF Chunked
  <2> QED
    BY <1>0, <2>2, <2>3, <2>4, <2>5, WriterTyped DEF shared, Chunked, Measured
<1>6. CASE WriterOffset \/ WriterOffsetAgain \/ WriterSubtracts
  <2>1. /\ writer.pc \in {"offset", "offset_again", "subtract"} /\ torn' \in BOOLEAN
        /\ UNCHANGED <<shared, reader, written, out, met>>
    BY <1>0, <1>6 DEF WriterOffset, WriterOffsetAgain, WriterSubtracts, history
  <2>2. CASE \E l \in {"offset_again", "subtract"} : writer' = [writer EXCEPT !.pc = l]
    <3>1. PICK l \in {"offset_again", "subtract"} :
              WriterBecomes(l, writer.n, writer.capacity, writer.offset)
      BY <2>2, WriterFields DEF WriterLabels
    <3> QED
      BY <1>0, <2>1, <3>1, WriterTyped DEF shared, Chunked, Measured
  <2>3. CASE \E o \in Int : WriterBreaksAt(SizeT(o)) \/ WriterBreaksAt(0)
    <3>1. PICK f \in 0 .. Length :
              /\ f <= writer.capacity
              /\ WriterBecomes("copy", writer.n, writer.capacity, f)
      BY <2>3, WriterBreaks
    <3> QED
      BY <1>0, <2>1, <3>1, WriterTyped DEF shared, Chunked, Measured
  <2>4. Length - head \in Int /\ tail - head \in Int
    BY <1>0, Constants
  <2> QED
    BY <1>6, <2>2, <2>3, <2>4 DEF WriterOffset, WriterOffsetAgain, WriterSubtracts
<1>7. CASE WriterCopies
  <2> DEFINE n == writer.capacity
             first == writer.offset
             Byte(s) == CASE s < n - first -> written + first + s + 1
                          [] s >= n - first /\ s \in head .. head + first - 1 ->
                                 written + s - head + 1
                          [] OTHER -> store[s]
  <2>1. /\ store' = [s \in Slots |-> Byte(s)]
        /\ written' = written + writer.n
        /\ writer' = [writer EXCEPT !.pc = "advance", !.offset = 0]
        /\ writer.pc = "copy"
        /\ UNCHANGED <<head, tail, full, reader, out, met, torn>>
    BY <1>7 DEF WriterCopies
  <2>2. WriterBecomes("advance", writer.n, writer.capacity, 0)
    <3>1. 0 \in 0 .. Length /\ "advance" \in WriterLabels
      BY Constants DEF WriterLabels
    <3> QED
      BY <2>1, <3>1, WriterFields
  <2>3. n <= writer.n /\ first <= n /\ written + writer.n <= MaxWritten
    BY <1>0, <2>1, Zenon DEF Chunked, Measured
  <2>4. ASSUME NEW s \in Slots PROVE Byte(s) \in 0 .. MaxWritten
    <3>1. /\ n \in Nat /\ first \in Nat /\ head \in Nat /\ written \in Nat
          /\ writer.n \in Nat /\ MaxWritten \in Nat /\ s \in Nat
          /\ store[s] \in 0 .. MaxWritten
      BY <1>0, <2>4, Constants DEF Slots
    <3> HIDE DEF n, first
    <3>2. CASE s < n - first
      BY <2>3, <3>1, <3>2
    <3>3. CASE s >= n - first /\ s \in head .. head + first - 1
      <4>1. Byte(s) = written + s - head + 1
        BY <3>1, <3>3
      <4> QED
        BY <2>3, <3>1, <3>3, <4>1
    <3>4. CASE ~ (s < n - first) /\ ~ (s >= n - first /\ s \in head .. head + first - 1)
      BY <3>1, <3>4
    <3> QED
      BY <3>2, <3>3, <3>4
  <2>5. store' \in [Slots -> 0 .. MaxWritten]
    BY <2>1, <2>4
  <2> HIDE DEF n, first, Byte
  <2> QED
    BY <1>0, <2>1, <2>2, <2>3, <2>5, WriterTyped, Constants DEF Chunked, Measured, n
<1>8. CASE WriterCrashes
  <2>1. /\ WriterBecomes("crashed", writer.n, writer.capacity, writer.offset)
        /\ writer.pc = "copy" /\ UNCHANGED <<shared, reader, history>>
    BY <1>8, WriterFields DEF WriterCrashes, WriterLabels
  <2> QED
    BY <1>0, <2>1, WriterTyped DEF shared, history, Chunked, Measured
<1>9. CASE WriterAdvances
  <2>1. /\ writer.pc = "advance" /\ head \in 0 .. Length
        /\ UNCHANGED <<store, tail, full, reader, history>>
    BY <1>0, <1>9, Constants DEF WriterAdvances
  <2>2. PICK l \in {"wrap", "compare"} :
            /\ writer' = [writer EXCEPT !.pc = l]
            /\ head' = (IF l = "wrap" THEN head + writer.capacity
                                      ELSE Wrap(head + writer.capacity))
            /\ l = "wrap" => head + writer.capacity > Length
    BY <1>9 DEF WriterAdvances
  <2>3. WriterBecomes(l, writer.n, writer.capacity, writer.offset)
    BY <2>2, WriterFields DEF WriterLabels
  <2>4. head' \in 0 .. 2 * Length /\ (head' > Length <=> l = "wrap")
    BY <1>0, <2>1, <2>2, Constants DEF Wrap
  <2> QED
    BY <1>0, <2>1, <2>2, <2>3, <2>4, WriterTyped DEF history, Chunked, Measured
<1>10. CASE WriterWraps
  <2>1. /\ WriterBecomes("compare", writer.n, writer.capacity, writer.offset)
        /\ writer.pc = "wrap" /\ head' = head - Length
        /\ UNCHANGED <<store, tail, full, reader, history>>
    BY <1>10, WriterFields DEF WriterWraps, WriterLabels
  <2>2. head' \in 0 .. 2 * Length /\ ~ (head' > Length)
    BY <1>0, <2>1, Constants
  <2> QED
    BY <1>0, <2>1, <2>2, WriterTyped DEF history, Chunked, Measured
<1>11. CASE WriterCompares
  <2>1. PICK l \in {"raise", "lower"} : writer' = [writer EXCEPT !.pc = l]
    BY <1>11 DEF WriterCompares
  <2>2. /\ WriterBecomes(l, writer.n, writer.capacity, writer.offset)
        /\ writer.pc = "compare" /\ met' \in BOOLEAN
        /\ UNCHANGED <<shared, reader, written, out, torn>>
    BY <1>0, <1>11, <2>1, WriterFields DEF WriterCompares, WriterLabels
  <2> QED
    BY <1>0, <2>1, <2>2, WriterTyped DEF shared, Chunked, Measured
<1>12. CASE WriterFlags
  <2>1. /\ WriterBecomes("idle", 0, 0, 0) /\ writer.pc \in {"raise", "lower"}
        /\ full' \in BOOLEAN /\ UNCHANGED <<store, head, tail, reader, history>>
    BY <1>12, WriterFields DEF WriterFlags
  <2> QED
    BY <1>0, <2>1, WriterTyped DEF history, Chunked, Measured
<1> QED
    BY <1>1, <1>2, <1>3, <1>4, <1>5, <1>6, <1>7, <1>8, <1>9, <1>10, <1>11, <1>12
       DEF Writer, WriterGoesOn

\* What the steps need to know of the state.
LEMMA Numbers ==
    ASSUME RingInv
    PROVE  /\ head \in 0 .. 2 * Length /\ tail \in 0 .. 2 * Length
           /\ head > Length <=> writer.pc = "wrap"
           /\ tail > Length <=> reader.pc = "wrap"
           /\ head \in Nat /\ tail \in Nat /\ written \in Nat /\ Len(out) \in Nat
           /\ reader.n \in Nat /\ reader.capacity \in Nat /\ reader.offset \in Nat
           /\ writer.n \in 0 .. Length /\ writer.capacity \in 0 .. Length
           /\ writer.offset \in 0 .. Length /\ full \in BOOLEAN
<1>1. /\ head \in 0 .. 2 * Length /\ tail \in 0 .. 2 * Length /\ full \in BOOLEAN
      /\ head > Length <=> writer.pc = "wrap"
      /\ tail > Length <=> reader.pc = "wrap"
      /\ written \in 0 .. MaxWritten /\ out \in Seq(0 .. MaxWritten)
    BY DEF RingInv, TypeOK, Bounded
<1>2. /\ head \in Nat /\ tail \in Nat /\ written \in Nat /\ Len(out) \in Nat
  <2>1. Len(out) \in Nat
    BY <1>1, LenProperties
  <2>2. head \in Nat /\ tail \in Nat /\ written \in Nat
    BY <1>1
  <2> QED
    BY <2>1, <2>2
<1>3. reader.n \in Nat /\ reader.capacity \in Nat /\ reader.offset \in Nat
  <2>1. /\ reader.n \in 0 .. SIZES - 1 /\ reader.capacity \in 0 .. SIZES - 1
        /\ reader.offset \in 0 .. SIZES - 1
    BY ReaderFields
  <2> QED
    BY <2>1
<1> QED
    BY <1>1, <1>2, <1>3, WriterFields

\* What a read gives back is as long as it says.
LEMMA ReaderAppends ==
    ASSUME RingInv, ReaderCopies
    PROVE  out' \in Seq(0 .. MaxWritten) /\ Len(out') = Len(out) + reader.capacity
<1> DEFINE n == reader.capacity
           first == reader.offset
           bytes == [i \in 1 .. n |-> store[SlotAt(tail, first, i)]]
<1>1. out' = out \o bytes /\ Inside(tail, first, n)
    BY DEF ReaderCopies
<1>2. /\ out \in Seq(0 .. MaxWritten) /\ store \in [Slots -> 0 .. MaxWritten]
      /\ tail \in Nat
    BY Numbers DEF RingInv, TypeOK
<1>3. n \in Nat /\ first \in Nat
    BY Numbers
<1> HIDE DEF n, first
<1>4. \A i \in 1 .. n : SlotAt(tail, first, i) \in Slots
    BY <1>1, <1>2, <1>3, Constants DEF Inside, SlotAt, Slots
<1>5. bytes \in [1 .. n -> 0 .. MaxWritten]
    BY <1>2, <1>4
<1> HIDE DEF bytes
<1>6. bytes \in Seq(0 .. MaxWritten) /\ Len(bytes) = n
    BY <1>3, <1>5, SequenceOf
<1>7. out' \in Seq(0 .. MaxWritten) /\ Len(out') = Len(out) + Len(bytes)
    BY <1>1, <1>2, <1>6, ConcatProperties
<1> QED
    BY <1>6, <1>7 DEF n

\* What is left to show of a step of the reader.
LEMMA ReaderTyped ==
    ASSUME RingInv, NEW l, NEW n, NEW c, NEW o, ReaderBecomes(l, n, c, o),
           UNCHANGED <<store, head, writer, written, met>>,
           out' \in Seq(0 .. MaxWritten), full' \in BOOLEAN, torn' \in BOOLEAN,
           tail' \in 0 .. 2 * Length, tail' > Length <=> l = "wrap",
           l = "advance" => tail' + c <= 2 * Length /\ c <= Len(out')
    PROVE  RingInv'
<1>1. /\ reader' \in ThreadStates(ReaderLabels, 0 .. SIZES - 1)
      /\ reader'.pc = l /\ reader'.capacity = c
    BY DEF ReaderBecomes, Fields
<1>2. TypeOK'
    BY <1>1 DEF RingInv, TypeOK, Slots
<1>3. Bounded'
    BY <1>1 DEF RingInv, Bounded
<1> QED
    BY <1>2, <1>3 DEF RingInv

LEMMA ReaderBreaks ==
    ASSUME RingInv, NEW o \in Int, ReaderBreaksAt(SizeT(o)) \/ ReaderBreaksAt(0)
    PROVE  \E f \in 0 .. SIZES - 1 :
               ReaderBecomes("copy", reader.n, reader.capacity, f)
<1>1. PICK s \in {SizeT(o), 0} : ReaderBreaksAt(s)
    OBVIOUS
<1>2. s \in Nat
    BY <1>1, SizeTs
<1>3. reader.capacity \in 0 .. SIZES - 1 /\ "copy" \in ReaderLabels
    BY ReaderFields DEF ReaderLabels
<1>4. Lesser(s, reader.capacity) \in 0 .. SIZES - 1
    BY <1>2, <1>3, Constants DEF Lesser
<1> QED
    BY <1>1, <1>3, <1>4, ReaderFields DEF ReaderBreaksAt

\* So does the reader.
LEMMA ReaderTypes ==
    ASSUME RingInv, Reader
    PROVE  RingInv'
<1>0. /\ full \in BOOLEAN /\ out \in Seq(0 .. MaxWritten)
      /\ tail \in 0 .. 2 * Length /\ (tail > Length <=> reader.pc = "wrap")
      /\ met \in BOOLEAN /\ torn \in BOOLEAN
      /\ reader.pc = "advance" =>
             tail + reader.capacity <= 2 * Length /\ reader.capacity <= Len(out)
      /\ reader.n \in 0 .. SIZES - 1 /\ reader.capacity \in 0 .. SIZES - 1
      /\ reader.offset \in 0 .. SIZES - 1
    BY ReaderFields DEF RingInv, TypeOK, Bounded
<1>1. CASE ReaderStarts
  <2>1. PICK n \in Requests, l \in {"offset", "test"} :
            /\ \E c \in {Lesser(n, Length), 0} :
                   reader' = [reader EXCEPT !.pc = l, !.n = n, !.capacity = c]
            /\ reader.pc = "idle" /\ UNCHANGED <<shared, writer, history>>
    BY <1>1 DEF ReaderStarts
  <2>9. PICK c \in {Lesser(n, Length), 0} :
            reader' = [reader EXCEPT !.pc = l, !.n = n, !.capacity = c]
    BY <2>1
  <2>2. n \in 0 .. SIZES - 1 /\ c \in 0 .. SIZES - 1
    BY <2>9, Constants DEF Lesser
  <2>3. ReaderBecomes(l, n, c, reader.offset)
    BY <2>9, <2>2, ReaderFields DEF ReaderLabels
  <2> QED
    BY <1>0, <2>1, <2>3, ReaderTyped DEF shared, history
<1>2. CASE ReaderTests
  <2>1. (head >= tail) \in BOOLEAN
    OBVIOUS
  <2>2. /\ ReaderBecomes("capacity", reader.n, reader.capacity, reader.offset)
        /\ reader.pc = "test" /\ UNCHANGED <<shared, writer, history>>
    BY <1>2, <2>1, ReaderFields DEF ReaderTests, ReaderLabels
  <2> QED
    BY <1>0, <2>2, ReaderTyped DEF shared, history
<1>3. CASE ReaderCapacity
  <2>1. PICK c : /\ c = Lesser(reader.n, ReadCapacity(reader.ahead))
                 /\ reader' = IF c = 0 THEN Idle
                              ELSE [reader EXCEPT !.pc = "offset", !.ahead = FALSE,
                                                  !.capacity = c]
    BY <1>3 DEF ReaderCapacity
  <2>2. c \in 0 .. SIZES - 1
    <3>1. reader.ahead \in BOOLEAN
      BY ReaderFields
    <3>2. ReadCapacity(reader.ahead) \in 0 .. SIZES - 1
      BY <3>1, Capacities
    <3> QED
      BY <1>0, <2>1, <3>2, Constants DEF Lesser
  <2>3. /\ reader.pc = "capacity" /\ torn' \in BOOLEAN
        /\ UNCHANGED <<shared, writer, written, out, met>>
    BY <1>0, <1>3, ReaderFields DEF ReaderCapacity, Turned
  <2>4. \/ ReaderBecomes("idle", 0, 0, 0)
        \/ ReaderBecomes("offset", reader.n, c, reader.offset)
    BY <2>1, <2>2, ReaderFields DEF ReaderLabels
  <2> QED
    BY <1>0, <2>3, <2>4, ReaderTyped DEF shared
<1>4. CASE ReaderOffset \/ ReaderOffsetAgain \/ ReaderSubtracts
  <2>1. /\ reader.pc \in {"offset", "offset_again", "subtract"} /\ torn' \in BOOLEAN
        /\ UNCHANGED <<shared, writer, written, out, met>>
    BY <1>0, <1>4 DEF ReaderOffset, ReaderOffsetAgain, ReaderSubtracts, history
  <2>2. CASE \E l \in {"offset_again", "subtract"} : reader' = [reader EXCEPT !.pc = l]
    <3>1. PICK l \in {"offset_again", "subtract"} :
              ReaderBecomes(l, reader.n, reader.capacity, reader.offset)
      BY <2>2, ReaderFields DEF ReaderLabels
    <3> QED
      BY <1>0, <2>1, <3>1, ReaderTyped DEF shared
  <2>3. CASE \E o \in Int : ReaderBreaksAt(SizeT(o)) \/ ReaderBreaksAt(0)
    <3>1. PICK f \in 0 .. SIZES - 1 :
              ReaderBecomes("copy", reader.n, reader.capacity, f)
      BY <2>3, ReaderBreaks
    <3> QED
      BY <1>0, <2>1, <3>1, ReaderTyped DEF shared
  <2>4. Length - tail \in Int /\ head - tail \in Int
    BY <1>0, Constants DEF RingInv, TypeOK
  <2> QED
    BY <1>4, <2>2, <2>3, <2>4 DEF ReaderOffset, ReaderOffsetAgain, ReaderSubtracts
<1>5. CASE ReaderCopies
  <2>1. /\ reader' = [reader EXCEPT !.pc = "advance", !.offset = 0]
        /\ reader.pc = "copy" /\ Inside(tail, reader.offset, reader.capacity)
        /\ UNCHANGED <<shared, writer, written, met, torn>>
    BY <1>5 DEF ReaderCopies
  <2>2. ReaderBecomes("advance", reader.n, reader.capacity, 0)
    <3>1. 0 \in 0 .. SIZES - 1 /\ "advance" \in ReaderLabels
      BY Constants DEF ReaderLabels
    <3> QED
      BY <2>1, <3>1, ReaderFields
  <2>3. /\ out' \in Seq(0 .. MaxWritten) /\ Len(out) \in Nat
        /\ Len(out') = Len(out) + reader.capacity
    BY <1>0, <1>5, ReaderAppends, LenProperties
  <2>4. tail + reader.capacity <= 2 * Length /\ reader.capacity <= Len(out')
    <3>1. /\ tail \in Nat /\ reader.capacity \in Nat /\ reader.offset \in Nat
          /\ Length \in Nat
      BY Numbers, Constants
    <3>2. /\ tail + reader.offset <= Length
          /\ reader.capacity - reader.offset <= Length
      BY <2>1 DEF Inside
    <3> QED
      BY <2>3, <3>1, <3>2
  <2> QED
    BY <1>0, <2>1, <2>2, <2>3, <2>4, ReaderTyped DEF shared
<1>6. CASE ReaderCrashes
  <2>1. /\ ReaderBecomes("crashed", reader.n, reader.capacity, reader.offset)
        /\ reader.pc = "copy" /\ UNCHANGED <<shared, writer, history>>
    BY <1>6, ReaderFields DEF ReaderCrashes, ReaderLabels
  <2> QED
    BY <1>0, <2>1, ReaderTyped DEF shared, history
<1>7. CASE ReaderAdvances
  <2>1. /\ reader.pc = "advance" /\ tail \in 0 .. Length
        /\ UNCHANGED <<store, head, full, writer, history>>
    BY <1>0, <1>7, Constants DEF ReaderAdvances
  <2>2. PICK l \in {"wrap", "flag"} :
            /\ reader' = [reader EXCEPT !.pc = l]
            /\ tail' = (IF l = "wrap" THEN tail + reader.capacity
                                      ELSE Wrap(tail + reader.capacity))
            /\ l = "wrap" => tail + reader.capacity > Length
    BY <1>7 DEF ReaderAdvances
  <2>3. ReaderBecomes(l, reader.n, reader.capacity, reader.offset)
    BY <2>2, ReaderFields DEF ReaderLabels
  <2>4. tail' \in 0 .. 2 * Length /\ (tail' > Length <=> l = "wrap")
    <3>1. /\ tail \in Nat /\ reader.capacity \in Nat /\ Length \in Nat
          /\ tail + reader.capacity <= 2 * Length
      BY <1>0, <2>1, Numbers, Constants
    <3>2. Wrap(tail + reader.capacity) \in 0 .. Length
      BY <3>1 DEF Wrap
    <3> QED
      BY <2>2, <3>1, <3>2
  <2> QED
    BY <1>0, <2>1, <2>2, <2>3, <2>4, ReaderTyped DEF history
<1>8. CASE ReaderWraps
  <2>1. /\ ReaderBecomes("flag", reader.n, reader.capacity, reader.offset)
        /\ reader.pc = "wrap" /\ tail' = tail - Length
        /\ UNCHANGED <<store, head, full, writer, history>>
    BY <1>8, ReaderFields DEF ReaderWraps, ReaderLabels
  <2>2. tail' \in 0 .. 2 * Length /\ ~ (tail' > Length)
    BY <1>0, <2>1, Constants
  <2> QED
    BY <1>0, <2>1, <2>2, ReaderTyped DEF history
<1>9. CASE ReaderFlags
  <2>1. /\ ReaderBecomes("idle", 0, 0, 0) /\ reader.pc = "flag"
        /\ full' \in BOOLEAN /\ UNCHANGED <<store, head, tail, writer, history>>
    BY <1>9, ReaderFields DEF ReaderFlags
  <2> QED
    BY <1>0, <2>1, ReaderTyped DEF history
<1> QED
    BY <1>1, <1>2, <1>3, <1>4, <1>5, <1>6, <1>7, <1>8, <1>9 DEF Reader

\* The types and bounds are an invariant.
LEMMA RingInvariant == Spec => []RingInv
<1>1. Init => RingInv
  <2> SUFFICES ASSUME Init PROVE RingInv
    OBVIOUS
  <2>1. store \in [Slots -> 0 .. MaxWritten] /\ out \in Seq(0 .. MaxWritten)
    BY Constants DEF Init, Garbage
  <2>2. TypeOK
    <3>1. 0 \in 0 .. Length /\ 0 \in 0 .. 2 * Length /\ 0 \in 0 .. MaxWritten /\ ~ (0 > Length)
      BY Constants
    <3>2. /\ Idle \in ThreadStates(WriterLabels, 0 .. Length)
          /\ Idle \in ThreadStates(ReaderLabels, 0 .. SIZES - 1)
      BY Threads, Constants DEF WriterLabels, ReaderLabels
    <3> QED
      BY <2>1, <3>1, <3>2 DEF Init, TypeOK
  <2>3. Bounded
    BY Threads DEF Init, Bounded, Fields, Chunked, Measured
  <2> QED
    BY <2>2, <2>3 DEF RingInv
<1>2. RingInv /\ [Next]_vars => RingInv'
  <2>1. CASE UNCHANGED vars
    BY <2>1 DEF vars, shared, history, RingInv, TypeOK, Bounded, Slots
  <2> QED
    BY <2>1, WriterTypes, ReaderTypes DEF Next
<1> QED
    BY <1>1, <1>2, PTL DEF Spec

\* The offsets, the store and what the threads have loaded keep their types, also
\* after the threads have harmed each other and a capacity has wrapped: as long as
\* no copy leaves the ring, no offset gets more than one turn ahead, and past the
\* end it is wrapped before it is used.
THEOREM SharedRingTypeCorrect == Spec => []TypeOK
<1>1. RingInv => TypeOK
    BY DEF RingInv
<1> QED
    BY <1>1, RingInvariant, PTL
-----------------------------------------------------------------------------
(***************************************************************************)
(* The offsets, while the threads have not met and no decision is torn.    *)
(***************************************************************************)
\* A test and a load that agree tell the writer how many bytes there are, and the
\* reader too, unless the ring was filled just now; then it takes it to be empty.
LEMMA CapacitiesAreHeld ==
    ASSUME RingInv, Offsets, NEW ahead \in BOOLEAN, ~ Turned(ahead)
    PROVE  /\ writer.pc \in {"check", "capacity"} =>
                  SizeT(Length - ReadCapacity(ahead)) = Length - Held
           /\ reader.pc = "capacity" => ReadCapacity(ahead) \in {0, Held}
<1> DEFINE d == Held
           capacity == IF head >= tail THEN head - tail ELSE (Length + head) - tail
<1>1. d \in 0 .. Length /\ Wrap(head) = Wrap(Wrap(tail) + d)
    BY DEF Offsets, Apart
<1>2. tail > Length => head <= Length /\ tail + d <= 2 * Length
    BY DEF Offsets, OneWraps
<1>3. head > Length => Wrap(tail) + d > Length
    BY DEF Offsets, OneWraps
<1>4. writer.pc \in {"check", "capacity"} => (d = Length => Wrap(tail) # Wrap(head))
    BY DEF Offsets, FilledIsSeen
<1>5. ReadCapacity(ahead) = SizeT(capacity)
    BY DEF ReadCapacity, Turned
<1> HIDE DEF d
<1>6. /\ head \in Nat /\ tail \in Nat /\ Length \in Nat /\ Length > 0
      /\ head > Length <=> writer.pc = "wrap"
      /\ tail > Length <=> reader.pc = "wrap"
    BY Numbers, Constants
<1>7. ASSUME writer.pc \in {"check", "capacity"}
      PROVE  SizeT(Length - ReadCapacity(ahead)) = Length - d
  <2>1. capacity = d
    BY <1>1, <1>2, <1>4, <1>6, <1>7 DEF Wrap
  <2>2. d \in 0 .. SIZES - 1 /\ Length - d \in 0 .. SIZES - 1
    BY <1>1, Constants
  <2> QED
    BY <1>5, <2>1, <2>2, SizeTs
<1>8. ASSUME reader.pc = "capacity"
      PROVE  ReadCapacity(ahead) \in {0, d}
  <2>1. capacity \in {0, d}
    BY <1>1, <1>3, <1>6, <1>8 DEF Wrap
  <2>2. capacity \in 0 .. SIZES - 1
    BY <1>1, <2>1, Constants
  <2> HIDE DEF capacity
  <2> QED
    BY <1>5, <2>1, <2>2, SizeTs
<1> QED
    BY <1>7, <1>8 DEF d

\* What is left to show of a step by which the writer moves no offset.
LEMMA WriterMoves ==
    ASSUME RingInv, Offsets, NEW l, NEW n, NEW c, NEW o, WriterBecomes(l, n, c, o),
           UNCHANGED <<head, tail, full, reader, written, out>>,
           writer.pc \notin {"advance", "wrap", "compare"},
           l \notin {"advance", "wrap", "compare", "raise", "crashed"},
           l \in Passed => Held + n <= Length,
           l \in Measured => c = n,
           l = "copy" => Breaks(head, o, c) /\ tail <= Length
    PROVE  Offsets'
<1>1. writer'.pc = l /\ writer'.n = n /\ writer'.capacity = c /\ writer'.offset = o
    BY DEF WriterBecomes, Fields
<1>2. Held' = Held
    BY <1>1 DEF Held, Advanced, Taken
<1>3. NeverFull' /\ Apart' /\ FilledIsSeen'
    BY <1>1, <1>2 DEF Offsets, NeverFull, Apart, FilledIsSeen, Wrap
<1>4. Room'
    BY <1>1, <1>2 DEF Offsets, Room
<1>5. BothBreak'
    BY <1>1 DEF Offsets, BothBreak, Breaks
<1>6. OneWraps'
  <2>1. tail \in Nat /\ Length \in Nat
    BY Numbers, Constants
  <2>2. l = "copy" => ~ (tail > Length)
    BY <2>1
  <2> QED
    BY <1>1, <1>2, <2>2 DEF Offsets, OneWraps, Wrap, LaidOut
<1> QED
    BY <1>3, <1>4, <1>5, <1>6 DEF Offsets

\* What the writer does to its own fields and to head and full keeps the offsets
\* apart, whatever the reader is about to do, and it drops nothing.
LEMMA WriterKeepsOffsets ==
    ASSUME RingInv, Offsets, Writer, ~ met', ~ torn'
    PROVE  Offsets' /\ (WriterCopies \/ written' = written)
<1>0. /\ ~ full /\ writer.pc # "raise" /\ writer.ahead \in BOOLEAN
      /\ Held \in 0 .. Length /\ Length \in Nat
      /\ writer.n \in Nat /\ head \in Nat /\ tail \in Nat
      /\ writer.pc \in Passed => Held + writer.n <= Length
      /\ writer.pc \in Measured => writer.capacity = writer.n
  <2>1. Length \in Nat /\ writer.ahead \in BOOLEAN
    BY Constants, WriterFields
  <2>2. writer.n \in Nat /\ head \in Nat /\ tail \in Nat
    BY Numbers
  <2> QED
    BY <2>1, <2>2 DEF Offsets, NeverFull, Apart, Room
<1>1. CASE WriterStarts
  <2>1. PICK n \in Chunks :
            /\ writer.pc = "idle" /\ writer' = [writer EXCEPT !.pc = "test", !.n = n]
            /\ UNCHANGED <<head, tail, full, reader, written, out>>
    BY <1>1 DEF WriterStarts, shared, history
  <2>2. WriterBecomes("test", n, writer.capacity, writer.offset)
    BY <2>1, WriterFields, Constants DEF WriterLabels
  <2> QED
    BY <2>1, <2>2, WriterMoves DEF Passed, Measured
<1>2. CASE WriterTests("test", "check")
  <2>1. (head >= tail) \in BOOLEAN
    OBVIOUS
  <2>2. /\ WriterBecomes("check", writer.n, writer.capacity, writer.offset)
        /\ writer.pc = "test" /\ UNCHANGED <<head, tail, full, reader, written, out>>
    BY <1>2, <2>1, WriterFields DEF WriterTests, WriterLabels, shared, history
  <2> QED
    BY <2>2, WriterMoves DEF Passed, Measured
<1>3. CASE WriterTests("test_again", "capacity")
  <2>1. (head >= tail) \in BOOLEAN
    OBVIOUS
  <2>2. /\ WriterBecomes("capacity", writer.n, writer.capacity, writer.offset)
        /\ writer.pc = "test_again"
        /\ UNCHANGED <<head, tail, full, reader, written, out>>
    BY <1>3, <2>1, WriterFields DEF WriterTests, WriterLabels, shared, history
  <2> QED
    BY <1>0, <2>2, WriterMoves DEF Passed, Measured
<1>4. CASE WriterChecks
  <2>1. /\ writer.pc = "check" /\ ~ Turned(writer.ahead)
        /\ UNCHANGED <<head, tail, full, reader, written, out>>
    BY <1>4, Zenon DEF WriterChecks, shared
  <2>2. SizeT(Length - ReadCapacity(writer.ahead)) = Length - Held
    BY <1>0, <2>1, CapacitiesAreHeld
  <2>3. \/ WriterBecomes("idle", 0, 0, 0)
        \/ /\ WriterBecomes("enter", writer.n, writer.capacity, writer.offset)
           /\ ~ (writer.n > Length - Held)
    BY <1>4, <2>2, WriterFields DEF WriterChecks, WriterLabels
  <2>4. ~ (writer.n > Length - Held) => Held + writer.n <= Length
    BY <1>0
  <2> QED
    BY <2>1, <2>3, <2>4, WriterMoves DEF Passed, Measured
<1>5. CASE WriterEnters
  <2>1. /\ WriterBecomes("test_again", writer.n, writer.capacity, writer.offset)
        /\ writer.pc = "enter" /\ UNCHANGED <<head, tail, full, reader, written, out>>
    BY <1>0, <1>5, WriterFields DEF WriterEnters, WriterLabels, shared
  <2> QED
    BY <1>0, <2>1, WriterMoves DEF Passed, Measured
<1>6. CASE WriterCapacity
  <2>1. /\ writer.pc = "capacity" /\ ~ Turned(writer.ahead)
        /\ UNCHANGED <<head, tail, full, reader, out>>
    BY <1>6, Zenon DEF WriterCapacity, shared
  <2>2. SizeT(Length - ReadCapacity(writer.ahead)) = Length - Held
    BY <1>0, <2>1, CapacitiesAreHeld
  <2>3. Held + writer.n <= Length
    BY <1>0, <2>1 DEF Passed
  <2>4. Lesser(writer.n, SizeT(Length - ReadCapacity(writer.ahead))) = writer.n
    BY <1>0, <2>2, <2>3 DEF Lesser
  <2>5. \/ writer' = Idle /\ written' = written + writer.n /\ writer.n = 0
        \/ /\ writer' = [writer EXCEPT !.pc = "offset", !.ahead = FALSE,
                                       !.capacity = writer.n]
           /\ written' = written
    BY <1>6, <2>4 DEF WriterCapacity, WriterDrops
  <2>6. written' = written
    BY <2>5, Numbers
  <2>7. \/ WriterBecomes("idle", 0, 0, 0)
        \/ WriterBecomes("offset", writer.n, writer.n, writer.offset)
    BY <2>5, WriterFields DEF WriterLabels
  <2> QED
    BY <2>1, <2>3, <2>6, <2>7, WriterMoves DEF Passed, Measured
<1>7. CASE WriterOffset \/ WriterOffsetAgain \/ WriterSubtracts
  <2>1. /\ writer.pc \in {"offset", "offset_again", "subtract"}
        /\ UNCHANGED <<head, tail, full, reader, written, out>>
    BY <1>7 DEF WriterOffset, WriterOffsetAgain, WriterSubtracts, shared, history
  <2>2. Held + writer.n <= Length /\ writer.capacity = writer.n /\ head <= Length
    BY <1>0, <2>1, Numbers DEF Passed, Measured
  <2>3. CASE \E l \in {"offset_again", "subtract"} : writer' = [writer EXCEPT !.pc = l]
    <3>1. PICK l \in {"offset_again", "subtract"} :
              WriterBecomes(l, writer.n, writer.capacity, writer.offset)
      BY <2>3, WriterFields DEF WriterLabels
    <3> QED
      BY <2>1, <2>2, <3>1, WriterMoves
  <2>4. ASSUME NEW o \in 0 .. Length, WriterBreaksAt(o), tail <= Length,
               o = Length - head \/ (writer.n <= o /\ head + o <= Length)
        PROVE  Offsets' /\ written' = written
    <3> DEFINE first == Lesser(o, writer.n)
    <3>1. first \in 0 .. Length /\ Breaks(head, first, writer.n)
      BY <1>0, <2>2, <2>4 DEF Lesser, Breaks
    <3>2. "copy" \in WriterLabels /\ writer' = [writer EXCEPT !.pc = "copy", !.offset = first]
      BY <2>2, <2>4 DEF WriterBreaksAt, WriterLabels
    <3> HIDE DEF first
    <3>3. WriterBecomes("copy", writer.n, writer.n, first)
      BY <2>2, <3>1, <3>2, WriterFields
    <3> QED
      BY <2>1, <2>2, <2>4, <3>1, <3>3, WriterMoves
  <2>5. CASE WriterOffset /\ head >= tail /\ WriterBreaksAt(SizeT(Length - head))
    <3>1. /\ tail <= Length /\ Length - head \in 0 .. Length
          /\ Length - head \in 0 .. SIZES - 1
      BY <1>0, <2>2, <2>5, Constants
    <3>2. WriterBreaksAt(Length - head)
      BY <2>5, <3>1, SizeTs
    <3>3. PICK o \in 0 .. Length : o = Length - head
      BY <3>1
    <3>4. WriterBreaksAt(o)
      BY <3>2, <3>3
    <3> QED
      BY <2>4, <3>1, <3>3, <3>4
  <2>6. CASE WriterSubtracts
    <3>1. tail <= Length /\ head < tail
      <4>1. ~ (head >= tail) /\ ~ (tail > Length)
        BY <2>6, Zenon DEF WriterSubtracts
      <4> QED
        BY <1>0, <4>1
    <3>2. tail - head \in 0 .. Length /\ tail - head \in 0 .. SIZES - 1
      BY <1>0, <3>1, Constants
    <3>3. writer.n <= tail - head /\ head + (tail - head) <= Length
      BY <1>0, <2>2, <3>1 DEF Offsets, Apart, Wrap
    <3> QED
      BY <2>4, <2>6, <3>1, <3>2, <3>3, SizeTs DEF WriterSubtracts
  <2>7. ~ (WriterOffsetAgain /\ head >= tail)
    BY Zenon DEF WriterOffsetAgain
  <2> QED
    BY <1>7, <2>1, <2>3, <2>5, <2>6, <2>7 DEF WriterOffset, WriterOffsetAgain
<1>8. CASE WriterCopies
  <2>1. /\ writer.pc = "copy" /\ writer' = [writer EXCEPT !.pc = "advance", !.offset = 0]
        /\ written' = written + writer.n
        /\ UNCHANGED <<head, tail, full, reader, out>>
    BY <1>8 DEF WriterCopies
  <2>2. WriterBecomes("advance", writer.n, writer.capacity, 0)
    <3>1. 0 \in 0 .. Length /\ "advance" \in WriterLabels
      BY Constants DEF WriterLabels
    <3> QED
      BY <2>1, <3>1, WriterFields
  <2>3. /\ writer'.pc = "advance" /\ writer'.n = writer.n
        /\ writer'.capacity = writer.capacity
    BY <2>2 DEF WriterBecomes, Fields
  <2>4. Held' = Held
    BY <2>1, <2>3, Numbers DEF Held, Advanced, Taken
  <2>5. NeverFull' /\ Apart' /\ FilledIsSeen'
    BY <2>1, <2>3, <2>4 DEF Offsets, NeverFull, Apart, FilledIsSeen, Wrap
  <2>6. Room'
    BY <2>1, <2>3, <2>4 DEF Offsets, Room, Passed, Measured
  <2>7. OneWraps'
    BY <2>1, <2>3, <2>4 DEF Offsets, OneWraps, Wrap, LaidOut
  <2>8. BothBreak'
    BY <2>1, <2>3 DEF Offsets, BothBreak, Breaks
  <2> QED
    BY <1>8, <2>5, <2>6, <2>7, <2>8 DEF Offsets
<1>9. CASE WriterCrashes
  <2>1. /\ writer.pc = "copy" /\ ~ Inside(head, writer.offset, writer.capacity)
        /\ writer.offset \in Nat /\ writer.capacity \in 0 .. Length
    BY <1>9, Numbers DEF WriterCrashes
  <2>2. Breaks(head, writer.offset, writer.capacity)
    BY <2>1 DEF Offsets, BothBreak
  <2> QED
    BY <1>0, <2>1, <2>2 DEF Breaks, Inside
<1>10. CASE WriterAdvances
  <2> DEFINE n == writer.n
             d == Held
  <2>1. /\ writer.pc = "advance" /\ writer.capacity = n
        /\ UNCHANGED <<tail, full, reader, written, out>>
    BY <1>0, <1>10 DEF WriterAdvances, Measured, history
  <2>2. PICK l \in {"compare", "wrap"} :
            /\ writer' = [writer EXCEPT !.pc = l]
            /\ l = "compare" => head' = Wrap(head + n)
            /\ l = "wrap" => head + n > Length /\ head' = head + n
    BY <1>10, <2>1 DEF WriterAdvances
  <2>3. writer'.pc = l /\ writer'.n = n
    <3>1. WriterBecomes(l, writer.n, writer.capacity, writer.offset)
      BY <2>2, WriterFields DEF WriterLabels
    <3> QED
      BY <3>1 DEF WriterBecomes, Fields
  <2>4. Held' = d + n
    BY <2>1, <2>2, <2>3, Numbers DEF Held, Advanced, Taken
  <2>5. /\ d \in 0 .. Length /\ d + n <= Length /\ n \in Nat
        /\ Wrap(head) = Wrap(Wrap(tail) + d)
        /\ reader.pc \in Measured => reader.capacity <= d
        /\ tail > Length => head <= Length /\ tail + d <= 2 * Length /\ head + n <= Length
    BY <1>0, <2>1 DEF Offsets, Apart, Room, OneWraps, Passed, LaidOut
  <2>6. /\ head \in 0 .. Length /\ tail \in 0 .. 2 * Length /\ reader.capacity \in Nat
        /\ tail > Length <=> reader.pc = "wrap"
    BY <2>1, Numbers, Constants
  <2> HIDE DEF d, n
  <2>7. d + n \in 0 .. Length /\ Wrap(head') = Wrap(Wrap(tail) + (d + n))
    BY <2>2, <2>5, <2>6, Constants DEF Wrap
  <2>8. tail > Length => head' <= Length /\ tail + (d + n) <= 2 * Length
    BY <2>2, <2>5, <2>6, Constants DEF Wrap
  <2>9. head' > Length =>
            /\ Wrap(tail) + (d + n) > Length
            /\ reader.pc \in LaidOut => tail + reader.capacity <= Length
    BY <2>2, <2>5, <2>6, Constants DEF Wrap, LaidOut, Measured
  <2>10. tail' = tail /\ reader' = reader /\ full' = full /\ written' = written
    BY <2>1
  <2>11. NeverFull' /\ Apart'
    BY <1>0, <2>2, <2>3, <2>4, <2>7, <2>10 DEF NeverFull, Apart, Wrap
  <2>12. Room'
    <3>1. reader.pc \in Measured => reader.capacity <= d + n
      BY <2>5, <2>6
    <3> QED
      BY <2>2, <2>3, <2>4, <2>10, <3>1 DEF Room, Passed, Measured
  <2>13. OneWraps'
    BY <2>2, <2>3, <2>4, <2>8, <2>9, <2>10 DEF OneWraps, Wrap, LaidOut
  <2>14. FilledIsSeen' /\ BothBreak'
    BY <2>2, <2>3, <2>10 DEF Offsets, FilledIsSeen, BothBreak, Breaks
  <2> QED
    BY <2>10, <2>11, <2>12, <2>13, <2>14 DEF Offsets
<1>11. CASE WriterWraps
  <2>1. /\ writer.pc = "wrap" /\ writer' = [writer EXCEPT !.pc = "compare"]
        /\ head' = head - Length /\ UNCHANGED <<tail, full, reader, written, out>>
    BY <1>11 DEF WriterWraps, history
  <2>2. writer'.pc = "compare"
    <3>1. WriterBecomes("compare", writer.n, writer.capacity, writer.offset)
      BY <2>1, WriterFields DEF WriterLabels
    <3> QED
      BY <3>1 DEF WriterBecomes, Fields
  <2>3. Held' = Held
    BY <2>1, <2>2 DEF Held, Advanced, Taken
  <2>4. head > Length /\ head \in 0 .. 2 * Length
    BY <2>1, Numbers
  <2>5. ~ (tail > Length) /\ ~ (head' > Length) /\ Wrap(head') = Wrap(head)
    BY <1>0, <2>1, <2>4, Constants DEF Wrap, Offsets, OneWraps
  <2>6. NeverFull' /\ Apart'
    BY <1>0, <2>1, <2>2, <2>3, <2>5 DEF Offsets, NeverFull, Apart, Wrap
  <2>7. Room' /\ FilledIsSeen' /\ BothBreak'
    BY <2>1, <2>2, <2>3
       DEF Offsets, Room, FilledIsSeen, BothBreak, Breaks, Passed, Measured
  <2>8. OneWraps'
    BY <2>1, <2>5 DEF OneWraps
  <2> QED
    BY <2>1, <2>6, <2>7, <2>8 DEF Offsets
<1>12. CASE WriterCompares
  <2>1. /\ writer.pc = "compare" /\ ~ (Wrap(tail) = head)
        /\ UNCHANGED <<head, tail, full, reader, written, out>>
    BY <1>12, Zenon DEF WriterCompares, shared
  <2>2. head <= Length /\ tail # head
    BY <1>0, <2>1, Numbers DEF Wrap
  <2>3. WriterBecomes("lower", writer.n, writer.capacity, writer.offset)
    BY <1>12, <2>2, WriterFields DEF WriterCompares, WriterLabels
  <2>4. writer'.pc = "lower"
    BY <2>3 DEF WriterBecomes, Fields
  <2>5. Held' = Held
    BY <2>1, <2>4 DEF Held, Advanced, Taken
  <2>6. NeverFull' /\ Apart' /\ BothBreak'
    BY <2>1, <2>4, <2>5 DEF Offsets, NeverFull, Apart, BothBreak, Breaks, Wrap
  <2>7. Room' /\ OneWraps'
    BY <2>1, <2>4, <2>5
       DEF Offsets, Room, OneWraps, Wrap, Passed, Measured, LaidOut
  <2>8. FilledIsSeen'
    BY <1>0, <2>1, <2>2 DEF FilledIsSeen, Wrap
  <2> QED
    BY <2>1, <2>6, <2>7, <2>8 DEF Offsets
<1>13. CASE WriterFlags
  <2>1. /\ writer.pc \in {"raise", "lower"} /\ writer' = Idle
        /\ full' = (writer.pc = "raise")
        /\ UNCHANGED <<head, tail, reader, written, out>>
    BY <1>13 DEF WriterFlags, history
  <2>2. WriterBecomes("idle", 0, 0, 0) /\ full' = full
    BY <1>0, <2>1, WriterFields, Numbers
  <2> QED
    BY <2>1, <2>2, WriterMoves DEF Passed, Measured
<1> QED
    BY <1>1, <1>2, <1>3, <1>4, <1>5, <1>6, <1>7, <1>8, <1>9, <1>10, <1>11, <1>12,
       <1>13 DEF Writer, WriterGoesOn

\* What is left to show of a step by which the reader moves no offset.
LEMMA ReaderMoves ==
    ASSUME RingInv, Offsets, NEW l, NEW n, NEW c, NEW o, ReaderBecomes(l, n, c, o),
           UNCHANGED <<head, tail, full, writer, written, out>>,
           reader.pc # "advance", l \notin {"advance", "crashed"},
           l \in Measured => c <= Held,
           l = "copy" => Breaks(tail, o, c) /\ head <= Length
    PROVE  Offsets' /\ Taken' = Taken
<1>1. reader'.pc = l /\ reader'.n = n /\ reader'.capacity = c /\ reader'.offset = o
    BY DEF ReaderBecomes, Fields
<1>2. Held' = Held /\ Taken' = Taken
    BY <1>1 DEF Held, Advanced, Taken
<1>3. NeverFull' /\ Apart' /\ FilledIsSeen'
    BY <1>1, <1>2 DEF Offsets, NeverFull, Apart, FilledIsSeen, Wrap
<1>4. Room'
    BY <1>1, <1>2 DEF Offsets, Room
<1>5. BothBreak'
    BY <1>1 DEF Offsets, BothBreak, Breaks
<1>6. OneWraps'
  <2>1. head \in Nat /\ Length \in Nat
    BY Numbers, Constants
  <2>2. l = "copy" => ~ (head > Length)
    BY <2>1
  <2> QED
    BY <1>1, <1>2, <2>2 DEF Offsets, OneWraps, Wrap, LaidOut
<1> QED
    BY <1>2, <1>3, <1>4, <1>5, <1>6 DEF Offsets

\* What the reader does to its own fields and to tail and full keeps them apart,
\* whatever the writer is about to do, and only its advance gives bytes back.
LEMMA ReaderKeepsOffsets ==
    ASSUME RingInv, Offsets, Reader, ~ met', ~ torn'
    PROVE  Offsets' /\ (ReaderAdvances \/ Taken' = Taken)
<1>0. /\ ~ full /\ reader.ahead \in BOOLEAN
      /\ Held \in 0 .. Length /\ Length \in Nat
      /\ head \in Nat /\ tail \in Nat /\ reader.n \in Nat /\ reader.capacity \in Nat
      /\ reader.pc \in Measured => reader.capacity <= Held
  <2>1. Length \in Nat /\ reader.ahead \in BOOLEAN
    BY Constants, ReaderFields
  <2>2. head \in Nat /\ tail \in Nat /\ reader.n \in Nat /\ reader.capacity \in Nat
    BY Numbers
  <2> QED
    BY <2>1, <2>2 DEF Offsets, NeverFull, Apart, Room
<1>1. CASE ReaderStarts
  <2>1. PICK n \in Requests :
            /\ reader.pc = "idle"
            /\ reader' = [reader EXCEPT !.pc = "test", !.n = n, !.capacity = 0]
            /\ UNCHANGED <<head, tail, full, writer, written, out>>
    BY <1>0, <1>1 DEF ReaderStarts, shared, history
  <2>2. n \in 0 .. SIZES - 1 /\ 0 \in 0 .. SIZES - 1 /\ "test" \in ReaderLabels
    BY Constants DEF ReaderLabels
  <2>3. ReaderBecomes("test", n, 0, reader.offset)
    BY <2>1, <2>2, ReaderFields
  <2> QED
    BY <2>1, <2>3, ReaderMoves DEF Measured
<1>2. CASE ReaderTests
  <2>1. (head >= tail) \in BOOLEAN
    OBVIOUS
  <2>2. /\ ReaderBecomes("capacity", reader.n, reader.capacity, reader.offset)
        /\ reader.pc = "test" /\ UNCHANGED <<head, tail, full, writer, written, out>>
    BY <1>2, <2>1, ReaderFields DEF ReaderTests, ReaderLabels, shared, history
  <2> QED
    BY <2>2, ReaderMoves DEF Measured
<1>3. CASE ReaderCapacity
  <2>1. PICK c : /\ c = Lesser(reader.n, ReadCapacity(reader.ahead))
                 /\ reader' = IF c = 0 THEN Idle
                              ELSE [reader EXCEPT !.pc = "offset", !.ahead = FALSE,
                                                  !.capacity = c]
    BY <1>3 DEF ReaderCapacity
  <2>2. /\ reader.pc = "capacity" /\ ~ Turned(reader.ahead)
        /\ UNCHANGED <<head, tail, full, writer, written, out>>
    BY <1>3, Zenon DEF ReaderCapacity, shared
  <2>3. ReadCapacity(reader.ahead) \in {0, Held}
    BY <1>0, <2>2, CapacitiesAreHeld
  <2>4. c \in 0 .. Length /\ c <= Held /\ c \in 0 .. SIZES - 1
    BY <1>0, <2>1, <2>3, Constants DEF Lesser
  <2>5. \/ ReaderBecomes("idle", 0, 0, 0)
        \/ ReaderBecomes("offset", reader.n, c, reader.offset)
    BY <2>1, <2>4, ReaderFields DEF ReaderLabels
  <2> QED
    BY <2>2, <2>4, <2>5, ReaderMoves DEF Measured
<1>4. CASE ReaderOffset \/ ReaderOffsetAgain \/ ReaderSubtracts
  <2>1. /\ reader.pc \in {"offset", "offset_again", "subtract"}
        /\ UNCHANGED <<head, tail, full, writer, written, out>>
    BY <1>4 DEF ReaderOffset, ReaderOffsetAgain, ReaderSubtracts, shared, history
  <2>2. reader.capacity <= Held /\ tail <= Length
    BY <1>0, <2>1, Numbers DEF Measured
  <2>3. CASE \E l \in {"offset_again", "subtract"} : reader' = [reader EXCEPT !.pc = l]
    <3>1. PICK l \in {"offset_again", "subtract"} :
              ReaderBecomes(l, reader.n, reader.capacity, reader.offset)
      BY <2>3, ReaderFields DEF ReaderLabels
    <3> QED
      BY <2>1, <2>2, <3>1, ReaderMoves
  <2>4. ASSUME NEW o \in 0 .. Length, ReaderBreaksAt(o), head <= Length,
               o = Length - tail \/ (reader.capacity <= o /\ tail + o <= Length)
        PROVE  Offsets' /\ Taken' = Taken
    <3> DEFINE first == Lesser(o, reader.capacity)
    <3>1. first \in 0 .. SIZES - 1 /\ Breaks(tail, first, reader.capacity)
      BY <1>0, <2>2, <2>4, Constants DEF Lesser, Breaks
    <3>2. "copy" \in ReaderLabels /\ reader' = [reader EXCEPT !.pc = "copy", !.offset = first]
      BY <2>4 DEF ReaderBreaksAt, ReaderLabels
    <3> HIDE DEF first
    <3>3. ReaderBecomes("copy", reader.n, reader.capacity, first)
      BY <3>1, <3>2, ReaderFields
    <3> QED
      BY <2>1, <2>2, <2>4, <3>1, <3>3, ReaderMoves
  <2>5. CASE ReaderOffset /\ tail >= head /\ ReaderBreaksAt(SizeT(Length - tail))
    <3>1. PICK o \in 0 .. Length : o = Length - tail
      BY <1>0, <2>2
    <3>2. head <= Length /\ o \in 0 .. SIZES - 1
      BY <1>0, <2>2, <2>5, Constants
    <3>3. ReaderBreaksAt(o)
      BY <2>5, <3>1, <3>2, SizeTs
    <3> QED
      BY <2>4, <3>1, <3>2, <3>3
  <2>6. CASE ReaderSubtracts
    <3>1. head <= Length /\ tail < head
      <4>1. ~ (tail >= head) /\ ~ (head > Length)
        BY <2>6, Zenon DEF ReaderSubtracts
      <4> QED
        BY <1>0, <4>1
    <3>2. PICK o \in 0 .. Length : o = head - tail
      BY <1>0, <3>1
    <3>3. o \in 0 .. SIZES - 1
      BY <3>2, Constants
    <3>4. reader.capacity <= o /\ tail + o <= Length
      BY <1>0, <2>2, <3>1, <3>2 DEF Offsets, Apart, Wrap
    <3>5. ReaderBreaksAt(o)
      BY <2>6, <3>2, <3>3, SizeTs DEF ReaderSubtracts
    <3> QED
      BY <2>4, <3>1, <3>4, <3>5
  <2>7. ~ (ReaderOffsetAgain /\ tail >= head)
    BY Zenon DEF ReaderOffsetAgain
  <2> QED
    BY <1>4, <2>3, <2>5, <2>6, <2>7 DEF ReaderOffset, ReaderOffsetAgain
<1>5. CASE ReaderCopies
  <2>1. /\ reader.pc = "copy" /\ reader' = [reader EXCEPT !.pc = "advance", !.offset = 0]
        /\ UNCHANGED <<head, tail, full, writer, written>>
    BY <1>5 DEF ReaderCopies, shared
  <2>2. ReaderBecomes("advance", reader.n, reader.capacity, 0)
    <3>1. 0 \in 0 .. SIZES - 1 /\ "advance" \in ReaderLabels
      BY Constants DEF ReaderLabels
    <3> QED
      BY <2>1, <3>1, ReaderFields
  <2>3. reader'.pc = "advance" /\ reader'.capacity = reader.capacity
    BY <2>2 DEF ReaderBecomes, Fields
  <2>4. Len(out') = Len(out) + reader.capacity
    BY <1>5, ReaderAppends
  <2>5. Held' = Held /\ Taken' = Taken
    <3>1. Len(out) \in Nat /\ reader.capacity \in Nat
      BY Numbers
    <3>2. Taken' = Taken
      BY <2>1, <2>3, <2>4, <3>1 DEF Taken
    <3> QED
      BY <2>1, <3>2 DEF Held, Advanced
  <2>6. NeverFull' /\ Apart' /\ FilledIsSeen'
    BY <2>1, <2>3, <2>5 DEF Offsets, NeverFull, Apart, FilledIsSeen, Wrap
  <2>7. Room' /\ BothBreak'
    BY <2>1, <2>3, <2>5 DEF Offsets, Room, BothBreak, Breaks, Measured
  <2>8. OneWraps'
    BY <2>1, <2>3, <2>5 DEF Offsets, OneWraps, Wrap, LaidOut
  <2> QED
    BY <2>5, <2>6, <2>7, <2>8 DEF Offsets
<1>6. CASE ReaderCrashes
  <2>1. reader.pc = "copy" /\ ~ Inside(tail, reader.offset, reader.capacity)
    BY <1>6 DEF ReaderCrashes
  <2>2. Breaks(tail, reader.offset, reader.capacity) /\ reader.capacity <= Held
    BY <1>0, <2>1 DEF Offsets, BothBreak, Measured
  <2>3. reader.offset \in Nat
    BY Numbers
  <2> QED
    BY <1>0, <2>1, <2>2, <2>3 DEF Breaks, Inside
<1>7. CASE ReaderAdvances
  <2> DEFINE n == reader.capacity
             d == Held
  <2>1. reader.pc = "advance" /\ UNCHANGED <<head, full, writer, written, out>>
    BY <1>7 DEF ReaderAdvances, history
  <2>2. PICK l \in {"flag", "wrap"} :
            /\ reader' = [reader EXCEPT !.pc = l]
            /\ l = "flag" => tail' = Wrap(tail + n)
            /\ l = "wrap" => tail + n > Length /\ tail' = tail + n
    BY <1>7 DEF ReaderAdvances
  <2>3. reader'.pc = l
    <3>1. ReaderBecomes(l, reader.n, reader.capacity, reader.offset)
      BY <2>2, ReaderFields DEF ReaderLabels
    <3> QED
      BY <3>1 DEF ReaderBecomes, Fields
  <2>4. Held' = d - n
    BY <2>1, <2>2, <2>3, Numbers DEF Held, Advanced, Taken
  <2>5. /\ d \in 0 .. Length /\ n <= d /\ n \in Nat
        /\ Wrap(head) = Wrap(Wrap(tail) + d)
        /\ writer.pc \in Passed => d + writer.n <= Length
        /\ head > Length => Wrap(tail) + d > Length /\ tail + n <= Length
    BY <1>0, <2>1 DEF Offsets, Apart, Room, OneWraps, Measured, LaidOut
  <2>6. /\ tail \in 0 .. Length /\ head \in 0 .. 2 * Length /\ writer.n \in Nat
        /\ head > Length <=> writer.pc = "wrap"
    BY <2>1, Numbers, Constants
  <2>7. writer.pc \notin {"wrap", "compare"} /\ d = Length => Wrap(tail) # Wrap(head)
    BY DEF Offsets, FilledIsSeen
  <2> HIDE DEF d, n
  <2>8. d - n \in 0 .. Length /\ Wrap(head) = Wrap(Wrap(tail') + (d - n))
    BY <2>2, <2>5, <2>6, Constants DEF Wrap
  <2>9. tail' > Length =>
            /\ head <= Length /\ tail' + (d - n) <= 2 * Length
            /\ writer.pc \in LaidOut => head + writer.n <= Length
    BY <2>2, <2>5, <2>6, Constants DEF Wrap, LaidOut, Passed
  <2>10. head > Length => Wrap(tail') + (d - n) > Length
    BY <2>2, <2>5, <2>6, Constants DEF Wrap
  <2>11. writer.pc \notin {"wrap", "compare"} /\ d - n = Length => Wrap(tail') # Wrap(head)
    <3>1. d - n = Length => n = 0 /\ d = Length
      BY <2>5, Constants
    <3>2. n = 0 => tail' = tail
      BY <2>2, <2>6, Constants DEF Wrap
    <3> QED
      BY <2>7, <3>1, <3>2
  <2>12. head' = head /\ writer' = writer /\ full' = full
    BY <2>1
  <2>13. NeverFull' /\ Apart'
    BY <1>0, <2>4, <2>8, <2>12 DEF Offsets, NeverFull, Apart, Wrap
  <2>14. Room'
    <3>1. writer.pc \in Passed => (d - n) + writer.n <= Length
      BY <1>0, <2>5, <2>6
    <3> QED
      BY <2>2, <2>3, <2>4, <2>12, <3>1 DEF Offsets, Room, Measured
  <2>15. OneWraps'
    BY <2>2, <2>3, <2>4, <2>9, <2>10, <2>12 DEF OneWraps, Wrap, LaidOut
  <2>16. FilledIsSeen' /\ BothBreak'
    BY <2>2, <2>3, <2>4, <2>11, <2>12
       DEF Offsets, FilledIsSeen, BothBreak, Breaks, Wrap
  <2> QED
    BY <1>7, <2>13, <2>14, <2>15, <2>16 DEF Offsets
<1>8. CASE ReaderWraps
  <2>1. /\ reader.pc = "wrap" /\ reader' = [reader EXCEPT !.pc = "flag"]
        /\ tail' = tail - Length /\ UNCHANGED <<head, full, writer, written, out>>
    BY <1>8 DEF ReaderWraps, history
  <2>2. reader'.pc = "flag"
    <3>1. ReaderBecomes("flag", reader.n, reader.capacity, reader.offset)
      BY <2>1, ReaderFields DEF ReaderLabels
    <3> QED
      BY <3>1 DEF ReaderBecomes, Fields
  <2>3. Held' = Held /\ Taken' = Taken
    BY <2>1, <2>2 DEF Held, Advanced, Taken
  <2>4. tail > Length /\ tail \in 0 .. 2 * Length
    BY <2>1, Numbers
  <2>5. ~ (head > Length) /\ ~ (tail' > Length) /\ Wrap(tail') = Wrap(tail)
    BY <1>0, <2>1, <2>4, Constants DEF Wrap, Offsets, OneWraps
  <2>6. NeverFull' /\ Apart' /\ FilledIsSeen'
    BY <1>0, <2>1, <2>3, <2>5 DEF Offsets, NeverFull, Apart, FilledIsSeen, Wrap
  <2>7. Room' /\ BothBreak'
    BY <2>1, <2>2, <2>3 DEF Offsets, Room, BothBreak, Breaks, Measured
  <2>8. OneWraps'
    BY <2>1, <2>5 DEF OneWraps
  <2> QED
    BY <2>3, <2>6, <2>7, <2>8 DEF Offsets
<1>9. CASE ReaderFlags
  <2>1. /\ reader.pc = "flag" /\ reader' = Idle /\ full' = FALSE
        /\ UNCHANGED <<head, tail, writer, written, out>>
    BY <1>9 DEF ReaderFlags, history
  <2>2. ReaderBecomes("idle", 0, 0, 0) /\ full' = full
    BY <1>0, <2>1, ReaderFields, Numbers
  <2> QED
    BY <2>1, <2>2, ReaderMoves DEF Measured
<1> QED
    BY <1>1, <1>2, <1>3, <1>4, <1>5, <1>6, <1>7, <1>8, <1>9 DEF Reader
-----------------------------------------------------------------------------
(***************************************************************************)
(* The bytes.                                                              *)
(***************************************************************************)
\* The places after an offset are slots, no two of them the same.
LEMMA Places ==
    ASSUME NEW t \in 0 .. Length
    PROVE  /\ \A i \in 1 .. Length : Place(t, i) \in Slots
           /\ \A i, j \in 1 .. Length : Place(t, i) = Place(t, j) => i = j
<1>1. \A i \in 1 .. Length : Place(t, i) \in Slots
    BY Constants DEF Place, Slots
<1>2. \A i, j \in 1 .. Length : Place(t, i) = Place(t, j) => i = j
    BY Constants DEF Place
<1> QED
    BY <1>1, <1>2

\* An offset that moved on by d finds at i what was at d + i.
LEMMA PlaceMoves ==
    ASSUME NEW t \in 0 .. Length, NEW d \in 0 .. Length, NEW i \in 1 .. Length,
           d + i <= Length
    PROVE  Place(Wrap(t + d), i) = Place(t, d + i)
BY Constants DEF Place, Wrap

\* A copy that breaks at the end of the ring, if at all, goes to the places there.
LEMMA Layouts ==
    ASSUME NEW own \in 0 .. Length, NEW n \in 0 .. Length, NEW first \in Nat,
           Breaks(own, first, n), NEW i \in 1 .. n
    PROVE  /\ SlotAt(own, first, i) = Place(own, i)
           /\ i <= first => Place(own, i) = own + i - 1 /\ Place(own, i) >= n - first
           /\ i > first => Place(own, i) = i - first - 1
BY Constants DEF Breaks, SlotAt, Place

\* There are never more bytes in the ring than it has slots.
LEMMA AllHaveSlots ==
    ASSUME RingInv, Offsets
    PROVE  /\ written - Taken \in 0 .. Length /\ Taken \in Nat
           /\ Advanced \in Nat /\ Advanced <= written
           /\ writer.pc # "advance" => Advanced = written
           /\ writer.pc = "advance" => Advanced + writer.n = written
<1>1. /\ Held \in 0 .. Length
      /\ writer.pc = "advance" => Held + writer.n <= Length /\ writer.n <= written
      /\ reader.pc = "advance" => reader.capacity <= Len(out)
    BY DEF Offsets, Apart, Room, RingInv, Bounded, Passed
<1>2. Taken \in Nat
    BY <1>1, Numbers DEF Taken
<1>3. /\ Advanced \in Nat /\ Advanced <= written
      /\ writer.pc # "advance" => Advanced = written
      /\ writer.pc = "advance" => Advanced + writer.n = written
  <2>1. written \in Nat /\ writer.n \in Nat
    BY Numbers
  <2>2. CASE writer.pc = "advance"
    <3>1. Advanced = written - writer.n
      BY <2>2 DEF Advanced
    <3> QED
      BY ONLY <1>1, <2>1, <2>2, <3>1, SMT
  <2>3. CASE writer.pc # "advance"
    <3>1. Advanced = written
      BY <2>1, <2>3 DEF Advanced
    <3> QED
      BY ONLY <2>1, <2>3, <3>1, SMT
  <2> QED
    BY <2>2, <2>3
<1>4. written - Taken \in 0 .. Length
    BY <1>1, <1>2, <1>3, Numbers, Constants DEF Held
<1> QED
    BY <1>2, <1>3, <1>4

\* A step by which no byte is copied nor given back.
LEMMA BytesStay ==
    ASSUME InPlace, InOrder, UNCHANGED <<store, written, out>>, Taken' = Taken,
           Wrap(tail') = Wrap(tail)
    PROVE  InPlace' /\ InOrder'
<1>1. InPlace'
    BY DEF InPlace, Place
<1>2. InOrder'
    BY DEF InOrder
<1> QED
    BY <1>1, <1>2

\* The writer adds its bytes behind those that are held, and overwrites none.
LEMMA WriterKeepsBytes ==
    ASSUME RingInv, Offsets, InPlace, InOrder, WriterCopies
    PROVE  InPlace' /\ InOrder'
<1> DEFINE n == writer.capacity
           first == writer.offset
           t == Wrap(tail)
           d == written - Taken
           Byte(s) == CASE s < n - first -> written + first + s + 1
                        [] s >= n - first /\ s \in head .. head + first - 1 ->
                               written + s - head + 1
                        [] OTHER -> store[s]
<1>1. /\ store' = [s \in Slots |-> Byte(s)]
      /\ written' = written + n /\ writer.pc = "copy"
      /\ UNCHANGED <<head, tail, reader, out>>
    BY DEF WriterCopies, Offsets, Room, Measured
<1>2. /\ head \in 0 .. Length /\ t \in 0 .. Length /\ n \in 0 .. Length /\ first \in Nat
      /\ d \in 0 .. Length /\ d + n <= Length /\ Taken \in Nat /\ written \in Nat
      /\ d = Held /\ Length \in Nat
  <2>1. Length \in Nat /\ head \in Nat /\ tail \in 0 .. 2 * Length /\ head <= Length
    BY <1>1, Numbers, Constants
  <2>2. t \in 0 .. Length
    BY <2>1 DEF Wrap
  <2>3. n \in 0 .. Length /\ first \in 0 .. Length /\ written \in Nat
    BY Numbers
  <2>4. d = Held /\ d \in 0 .. Length /\ Taken \in Nat
    BY <1>1, AllHaveSlots DEF Held
  <2>5. Held + n <= Length
    BY <1>1 DEF Offsets, Room, Passed, Measured
  <2> HIDE DEF n, first, d, t
  <2> QED
    BY <2>1, <2>2, <2>3, <2>4, <2>5
<1>3. head = Wrap(t + d)
    BY <1>2 DEF Offsets, Apart, Wrap
<1>4. Breaks(head, first, n)
    BY <1>1 DEF Offsets, BothBreak
<1> HIDE DEF n, first, d, t
<1>5. \A i \in 1 .. n : Place(head, i) = Place(t, d + i)
    BY <1>2, <1>3, PlaceMoves
<1>6. ASSUME NEW j \in 1 .. d + n
      PROVE  store'[Place(t, j)] = Taken + j
  <2>1. Place(t, j) \in Slots /\ j \in 1 .. Length
    BY <1>2, Places
  <2>2. CASE j <= d
    <3>1. ASSUME NEW i \in 1 .. n PROVE Place(head, i) # Place(t, j)
      <4>1. d + i \in 1 .. Length /\ d + i # j
        BY <1>2, <2>2
      <4> QED
        BY <1>2, <1>5, <2>1, <4>1, Places
    <3> DEFINE s == Place(t, j)
    <3>2. s \in Nat /\ first <= n
      BY <1>4, <2>1 DEF Slots, Breaks
    <3> HIDE DEF s
    <3>3. ~ (s < n - first)
      <4> SUFFICES ASSUME s < n - first PROVE FALSE
        OBVIOUS
      <4>1. first + s + 1 \in 1 .. n /\ first + s + 1 > first
        BY <1>2, <3>2
      <4>2. Place(head, first + s + 1) = (first + s + 1) - first - 1
        BY <1>2, <1>4, <4>1, Layouts
      <4> QED
        BY <1>2, <3>1, <3>2, <4>1, <4>2 DEF s
    <3>4. ~ (s \in head .. head + first - 1)
      <4> SUFFICES ASSUME s \in head .. head + first - 1 PROVE FALSE
        OBVIOUS
      <4>1. s - head + 1 \in 1 .. n /\ s - head + 1 <= first
        BY <1>2, <3>2
      <4>2. Place(head, s - head + 1) = head + (s - head + 1) - 1
        BY <1>2, <1>4, <4>1, Layouts
      <4> QED
        BY <1>2, <3>1, <3>2, <4>1, <4>2 DEF s
    <3>5. store'[s] = store[s]
      <4>1. Byte(s) = store[s]
        BY <3>3, <3>4
      <4> HIDE DEF Byte
      <4> QED
        BY <1>1, <2>1, <4>1 DEF s
    <3> QED
      BY <1>2, <2>2, <3>5 DEF InPlace, s, t, d
  <2>3. CASE j > d
    <3>1. PICK i \in 1 .. n : j = d + i
      <4>1. j - d \in 1 .. n /\ j = d + (j - d)
        BY <1>2, <2>3
      <4> QED
        BY <4>1
    <3>2. /\ Place(head, i) = Place(t, j) /\ Place(head, i) \in Slots
          /\ first <= n
      BY <1>4, <1>5, <2>1, <3>1 DEF Breaks
    <3>3. Byte(Place(head, i)) = written + i
      <4>1. CASE i <= first
        <5>1. Place(head, i) = head + i - 1 /\ Place(head, i) >= n - first
          BY <1>2, <1>4, <4>1, Layouts
        <5>2. /\ ~ (Place(head, i) < n - first)
              /\ Place(head, i) \in head .. head + first - 1
              /\ written + Place(head, i) - head + 1 = written + i
          BY <1>2, <4>1, <5>1
        <5> QED
          BY <5>1, <5>2
      <4>2. CASE i > first
        <5>1. Place(head, i) = i - first - 1
          BY <1>2, <1>4, <4>2, Layouts
        <5>2. /\ Place(head, i) < n - first
              /\ written + first + Place(head, i) + 1 = written + i
          BY <1>2, <4>2, <5>1
        <5>3. ~ (Place(head, i) >= n - first)
          BY <1>2, <5>1, <5>2
        <5> QED
          BY <5>2, <5>3
      <4> QED
        BY <1>2, <4>1, <4>2
    <3> HIDE DEF Byte
    <3>4. store'[Place(t, j)] = written + i
      BY <1>1, <3>2, <3>3
    <3> QED
      BY <1>2, <3>1, <3>4 DEF d
  <2> QED
    BY <1>2, <2>2, <2>3
<1>7. InPlace'
  <2>1. Taken' = Taken /\ Wrap(tail)' = t
    BY <1>1 DEF Taken, Wrap, t
  <2>2. written' - Taken' = d + n
    BY <1>1, <1>2, <2>1 DEF d
  <2>3. \A j \in 1 .. written' - Taken' : store'[Place(t, j)] = Taken' + j
    BY <1>6, <2>1, <2>2
  <2> QED
    BY <2>1, <2>3 DEF InPlace, Place
<1>8. InOrder'
  <2>1. \A i \in DOMAIN out : i \in Nat
    BY LenProperties DEF RingInv, TypeOK
  <2> QED
    BY <1>1, <1>2, <2>1 DEF InOrder
<1> QED
    BY <1>7, <1>8

\* The reader gives back the oldest bytes there are.
LEMMA ReaderKeepsBytes ==
    ASSUME RingInv, Offsets, InPlace, InOrder, ReaderCopies, Taken' = Taken
    PROVE  InPlace' /\ InOrder'
<1> DEFINE n == reader.capacity
           first == reader.offset
           bytes == [i \in 1 .. n |-> store[SlotAt(tail, first, i)]]
<1>1. /\ out' = out \o bytes /\ reader.pc = "copy"
      /\ UNCHANGED <<store, tail, writer, written>>
    BY DEF ReaderCopies, shared
<1>2. /\ tail \in 0 .. Length /\ n \in 0 .. Length /\ first \in Nat /\ written \in Nat
      /\ Taken = Len(out) /\ Len(out) \in Nat /\ Len(out) + n <= written
      /\ written - Len(out) <= Length /\ Length \in Nat
  <2>1. /\ Length \in Nat /\ tail \in Nat /\ tail <= Length
        /\ n \in Nat /\ first \in Nat /\ written \in Nat /\ Len(out) \in Nat
    BY <1>1, Numbers, Constants
  <2>2. n <= Held /\ Held \in 0 .. Length
    BY <1>1 DEF Offsets, Apart, Room, Measured
  <2>3. Taken = Len(out)
    BY <1>1, <2>1 DEF Taken
  <2>4. /\ Advanced \in Nat /\ Advanced <= written
        /\ written - Taken \in 0 .. Length
    BY AllHaveSlots
  <2> HIDE DEF n, first
  <2> QED
    BY <2>1, <2>2, <2>3, <2>4 DEF Held
<1>3. Breaks(tail, first, n)
    BY <1>1 DEF Offsets, BothBreak
<1> HIDE DEF n, first
<1>4. ASSUME NEW i \in 1 .. n
      PROVE  store[SlotAt(tail, first, i)] = Len(out) + i
  <2>1. i \in 1 .. Length /\ i \in 1 .. written - Taken
    BY <1>2
  <2>2. SlotAt(tail, first, i) = Place(tail, i)
    BY <1>2, <1>3, Layouts
  <2>3. store[Place(tail, i)] = Taken + i
    BY <1>2, <2>1 DEF InPlace, Wrap
  <2> QED
    BY <1>2, <2>2, <2>3
<1>5. bytes = [i \in 1 .. n |-> Len(out) + i]
    BY <1>4
<1> HIDE DEF bytes
<1>6. out \in Seq(Nat) /\ bytes \in Seq(Nat) /\ Len(bytes) = n
  <2>1. out \in Seq(Nat)
    <3>1. out \in [1 .. Len(out) -> 0 .. MaxWritten] /\ Len(out) \in Nat
      BY LenProperties DEF RingInv, TypeOK
    <3>2. out \in [1 .. Len(out) -> Nat]
      BY <3>1, Constants
    <3> QED
      BY <3>1, <3>2, SequenceOf
  <2>2. bytes \in [1 .. n -> Nat] /\ n \in Nat
    BY <1>2, <1>5
  <2> QED
    BY <2>1, <2>2, SequenceOf
<1>7. /\ DOMAIN out' = 1 .. Len(out) + n
      /\ \A i \in 1 .. Len(out) + n :
             out'[i] = IF i <= Len(out) THEN out[i] ELSE bytes[i - Len(out)]
  <2>1. out' \in Seq(Nat) /\ Len(out') = Len(out) + n
    BY <1>1, <1>6, ConcatProperties
  <2>2. DOMAIN out' = 1 .. Len(out')
    BY <2>1, LenProperties
  <2>3. \A i \in 1 .. Len(out) + n :
            out'[i] = IF i <= Len(out) THEN out[i] ELSE bytes[i - Len(out)]
    BY <1>1, <1>6, ConcatProperties
  <2> QED
    BY <2>1, <2>2, <2>3
<1>8. InOrder'
  <2> SUFFICES ASSUME NEW i \in 1 .. Len(out) + n
               PROVE  out'[i] = i /\ i <= written
    BY <1>1, <1>7 DEF InOrder
  <2>1. CASE i <= Len(out)
    <3>1. i \in DOMAIN out
      BY <1>2, <1>6, <2>1, LenProperties
    <3> QED
      BY <1>7, <2>1, <3>1 DEF InOrder
  <2>2. CASE i > Len(out)
    <3>1. i - Len(out) \in 1 .. n
      BY <1>2, <2>2
    <3>2. bytes[i - Len(out)] = i
      BY <1>2, <1>5, <3>1
    <3> QED
      BY <1>2, <1>7, <2>2, <3>2
  <2> QED
    BY <1>2, <2>1, <2>2
<1>9. InPlace'
    BY <1>1 DEF InPlace, Place, Wrap
<1> QED
    BY <1>8, <1>9

\* When it has advanced it looks for the next ones where they are.
LEMMA AdvanceKeepsBytes ==
    ASSUME RingInv, Offsets, InPlace, InOrder, ReaderAdvances
    PROVE  InPlace' /\ InOrder'
<1> DEFINE n == reader.capacity
<1>1. reader.pc = "advance" /\ UNCHANGED <<store, written, out>>
    BY DEF ReaderAdvances, history
<1>2. PICK l \in {"flag", "wrap"} :
          /\ reader' = [reader EXCEPT !.pc = l]
          /\ l = "flag" => tail' = Wrap(tail + n)
          /\ l = "wrap" => tail + n > Length /\ tail' = tail + n
    BY DEF ReaderAdvances
<1>3. reader'.pc = l
  <2>1. ReaderBecomes(l, reader.n, reader.capacity, reader.offset)
    BY <1>2, ReaderFields DEF ReaderLabels
  <2> QED
    BY <2>1 DEF ReaderBecomes, Fields
<1>4. /\ tail \in 0 .. Length /\ n \in 0 .. Length /\ Taken \in Nat
      /\ written - Taken \in 0 .. Length /\ n <= written - Taken /\ written \in Nat
  <2>1. tail \in Nat /\ tail <= Length /\ n \in Nat /\ written \in Nat /\ Length \in Nat
    BY <1>1, Numbers, Constants
  <2>2. n <= Held /\ Held \in 0 .. Length
    BY <1>1 DEF Offsets, Apart, Room, Measured
  <2>3. /\ written - Taken \in 0 .. Length /\ Taken \in Nat
        /\ Advanced \in Nat /\ Advanced <= written
    BY AllHaveSlots
  <2> HIDE DEF n
  <2> QED
    BY <2>1, <2>2, <2>3 DEF Held
<1>5. Taken' = Taken + n
    BY <1>1, <1>2, <1>3, Numbers DEF Taken
<1> HIDE DEF n
<1>6. Wrap(tail') = Wrap(tail + n) /\ Wrap(tail) = tail
    BY <1>2, <1>4, Constants DEF Wrap
<1>7. ASSUME NEW j \in 1 .. written - Taken - n
      PROVE  store[Place(Wrap(tail'), j)] = Taken + n + j
  <2>1. j \in 1 .. Length /\ n + j <= Length /\ n + j \in 1 .. written - Taken
    BY <1>4, Constants
  <2>2. Place(Wrap(tail'), j) = Place(tail, n + j)
    BY <1>4, <1>6, <2>1, PlaceMoves
  <2>3. store[Place(tail, n + j)] = Taken + (n + j)
    BY <1>6, <2>1 DEF InPlace
  <2> QED
    BY <1>4, <2>1, <2>2, <2>3
<1>8. InPlace'
  <2>1. written' - Taken' = written - Taken - n
    BY <1>1, <1>4, <1>5
  <2> QED
    BY <1>1, <1>5, <1>7, <2>1 DEF InPlace, Place, Wrap
<1>9. InOrder'
    BY <1>1 DEF InOrder
<1> QED
    BY <1>8, <1>9

\* A meeting or a torn decision is never forgotten.
LEMMA HarmIsKept ==
    ASSUME [Next]_vars
    PROVE  (met => met') /\ (torn => torn')
<1>1. CASE UNCHANGED <<met, torn>>
    BY <1>1
<1>2. CASE WriterChecks \/ WriterCapacity \/ WriterOffsetAgain \/ WriterSubtracts
  <2>1. CASE WriterChecks
    BY <2>1, Zenon DEF WriterChecks
  <2>2. CASE WriterCapacity
    BY <2>2, Zenon DEF WriterCapacity
  <2>3. CASE WriterOffsetAgain
    BY <2>3, Zenon DEF WriterOffsetAgain
  <2>4. CASE WriterSubtracts
    BY <2>4, Zenon DEF WriterSubtracts
  <2> QED
    BY <1>2, <2>1, <2>2, <2>3, <2>4
<1>3. CASE WriterCompares
    BY <1>3, Zenon DEF WriterCompares
<1>4. CASE ReaderCapacity \/ ReaderOffsetAgain \/ ReaderSubtracts
  <2>1. CASE ReaderCapacity
    BY <2>1, Zenon DEF ReaderCapacity
  <2>2. CASE ReaderOffsetAgain
    BY <2>2, Zenon DEF ReaderOffsetAgain
  <2>3. CASE ReaderSubtracts
    BY <2>3, Zenon DEF ReaderSubtracts
  <2> QED
    BY <1>4, <2>1, <2>2, <2>3
<1> QED
    BY <1>1, <1>2, <1>3, <1>4 DEF Next, vars, history, Writer, WriterGoesOn, WriterStarts,
       WriterTests, WriterEnters, WriterOffset, WriterCopies, WriterCrashes,
       WriterAdvances, WriterWraps, WriterFlags, Reader, ReaderStarts, ReaderTests,
       ReaderOffset, ReaderCopies, ReaderCrashes, ReaderAdvances, ReaderWraps, ReaderFlags

\* Every step keeps the order, until the threads meet or tear a decision.
LEMMA OrderStep ==
    ASSUME RingInv, OrderInv, [Next]_vars
    PROVE  OrderInv'
<1> SUFFICES ASSUME ~ met', ~ torn'
             PROVE  Offsets' /\ InPlace' /\ InOrder'
    BY DEF OrderInv
<1>1. ~ met /\ ~ torn
    BY HarmIsKept
<1>2. Offsets /\ InPlace /\ InOrder
    BY <1>1 DEF OrderInv
<1>3. CASE Writer
  <2>1. Offsets' /\ (WriterCopies \/ written' = written)
    BY <1>2, <1>3, WriterKeepsOffsets
  <2>2. CASE WriterCopies
    BY <1>2, <2>1, <2>2, WriterKeepsBytes
  <2>3. CASE ~ WriterCopies
    <3>1. UNCHANGED <<store, out, tail, reader>>
      BY <1>3, <2>3 DEF Writer, WriterGoesOn, WriterStarts, WriterTests, WriterChecks,
         WriterEnters, WriterCapacity, WriterOffset, WriterOffsetAgain, WriterSubtracts,
         WriterCrashes, WriterAdvances, WriterWraps, WriterCompares, WriterFlags,
         shared, history
    <3> QED
      BY <1>2, <2>1, <2>3, <3>1, BytesStay DEF Taken, Wrap
  <2> QED
    BY <2>2, <2>3
<1>4. CASE Reader
  <2>1. Offsets' /\ (ReaderAdvances \/ Taken' = Taken)
    BY <1>2, <1>4, ReaderKeepsOffsets
  <2>2. CASE ReaderCopies
    <3>1. Taken' = Taken
      BY <2>1, <2>2 DEF ReaderCopies, ReaderAdvances
    <3> QED
      BY <1>2, <2>1, <2>2, <3>1, ReaderKeepsBytes
  <2>3. CASE ReaderAdvances
    BY <1>2, <2>1, <2>3, AdvanceKeepsBytes
  <2>4. CASE ReaderWraps
    <3>1. /\ UNCHANGED <<store, written, out>> /\ tail' = tail - Length
          /\ reader.pc = "wrap"
      BY <2>4 DEF ReaderWraps, history
    <3>2. Wrap(tail') = Wrap(tail)
      BY <3>1, Numbers, Constants DEF Wrap
    <3>3. Taken' = Taken
      BY <2>1, <2>4 DEF ReaderWraps, ReaderAdvances
    <3> QED
      BY <1>2, <2>1, <3>1, <3>2, <3>3, BytesStay
  <2>5. CASE ~ ReaderCopies /\ ~ ReaderAdvances /\ ~ ReaderWraps
    <3>1. UNCHANGED <<store, written, out, tail>>
      BY <1>4, <2>5 DEF Reader, ReaderStarts, ReaderTests, ReaderCapacity, ReaderOffset,
         ReaderOffsetAgain, ReaderSubtracts, ReaderCrashes, ReaderFlags, shared, history
    <3> QED
      BY <1>2, <2>1, <2>5, <3>1, BytesStay DEF Wrap
  <2> QED
    BY <2>2, <2>3, <2>4, <2>5
<1>5. CASE UNCHANGED vars
  <2>1. UNCHANGED <<store, head, tail, full, writer, reader, written, out>>
    BY <1>5 DEF vars, shared, history
  <2>2. Held' = Held /\ Taken' = Taken
    BY <2>1 DEF Held, Advanced, Taken
  <2>3. NeverFull' /\ Apart' /\ Room' /\ BothBreak'
    BY <1>2, <2>1, <2>2
       DEF Offsets, NeverFull, Apart, Room, BothBreak, Breaks, Wrap
  <2>4. OneWraps' /\ FilledIsSeen'
    BY <1>2, <2>1, <2>2 DEF Offsets, OneWraps, FilledIsSeen, Wrap
  <2> QED
    BY <1>2, <2>1, <2>2, <2>3, <2>4, BytesStay DEF Offsets, Wrap
<1> QED
    BY <1>3, <1>4, <1>5 DEF Next

\* So the order is an invariant, with what it rests on.
LEMMA OrderInvariant == Spec => []OrderInv
<1>1. Init => OrderInv
  <2> SUFFICES ASSUME Init
               PROVE  Offsets /\ InPlace /\ InOrder
    BY DEF OrderInv
  <2>1. /\ head = 0 /\ tail = 0 /\ ~ full /\ written = 0 /\ out = << >>
        /\ writer = Idle /\ reader = Idle
    BY DEF Init
  <2>2. writer.pc = "idle" /\ reader.pc = "idle"
    BY <2>1 DEF Idle
  <2>3. Len(out) = 0
    BY <2>1, EmptySeq
  <2>4. Held = 0 /\ Taken = 0
    <3>1. written = 0
      BY <2>1
    <3> QED
      BY <2>2, <2>3, <3>1 DEF Held, Advanced, Taken
  <2>5. Offsets
    BY <2>1, <2>2, <2>4, Constants
       DEF Offsets, NeverFull, Apart, Room, BothBreak, OneWraps, FilledIsSeen, Wrap,
           Passed, Measured
  <2>6. InPlace /\ InOrder
    BY <2>1, <2>4 DEF InPlace, InOrder
  <2> QED
    BY <2>5, <2>6
<1>2. RingInv /\ OrderInv /\ [Next]_vars => OrderInv'
    BY OrderStep
<1> QED
    BY <1>1, <1>2, RingInvariant, PTL DEF Spec

\* The two threads do each other no harm, for every size of the ring and whatever
\* is written and asked for, until ring_buffer_advance_head finds tail equal to
\* head, or an offset turns between two loads of one decision or is loaded for a
\* copy before it is wrapped: up to then BASS receives the bytes that were
\* written, in order, and no copy of either thread leaves the ring, although ~ torn
\* says nothing of the capacity and the offset that a copy is made with: the other
\* thread goes on between the loads they are computed from.
THEOREM BytesArriveInOrder == Spec => []InOrderUntilMet
<1>1. OrderInv => InOrderUntilMet
    BY DEF OrderInv, Offsets, BothBreak, InOrderUntilMet
<1> QED
    BY <1>1, OrderInvariant, PTL
=============================================================================
