----------------------------- MODULE SharedRing -----------------------------
(***************************************************************************)
(* The playback buffer between two threads.  With BACKGROUND on, or with   *)
(* BASS_SOX_StreamBuffer on a thread of its own, read_playback_data writes *)
(* to the ring while resampler_proc reads from it, and nothing orders the  *)
(* two: head is stored by the writer only, tail by the reader only, but    *)
(* full by both.  This module takes ring_buffer_write and ring_buffer_read *)
(* apart: each load of full or of the other thread's offset is a step, and *)
(* so is each store.  Where the code names an offset twice it is loaded    *)
(* twice; a compiler that keeps the first load takes the two steps with    *)
(* nothing between them.  module RingBuffer shows what the two operations  *)
(* do when nothing comes between at all.                                   *)
(*                                                                         *)
(* The bytes are numbered in the order read_playback_data hands them over, *)
(* those that ring_buffer_write drops included.  The one or two memcpy of  *)
(* an operation are one step: the two threads copy different slots, unless *)
(* the ring is already broken.  A copy that would leave the allocation is  *)
(* undefined, and the thread that makes it takes no further step.  An      *)
(* offset that passes the end of the ring is stored twice, advanced and    *)
(* then wrapped, or once, if the compiler keeps only the second store.     *)
(***************************************************************************)
EXTENDS Integers, Sequences

CONSTANTS Length,     \* the size of the ring
          SIZES,      \* the number of values of a size_t, 2^32 or 2^64
          Chunks,     \* the lengths of what read_playback_data has to write
          Requests,   \* the lengths BASS asks resampler_proc for
          MaxWritten  \* the bound on the bytes written

\* No allocation takes half of the address space.
ASSUME SharedRingAssumption ==
    /\ Length \in Nat \ {0}
    /\ SIZES \in Nat /\ 2 * Length < SIZES
    /\ Chunks \subseteq 1 .. Length
    /\ Requests \subseteq 1 .. SIZES - 1
    /\ MaxWritten \in Nat

VARIABLES
    store, head, tail, full, \* the RING_BUFFER, shared
    writer, \* where the writer is, and the values it has loaded or computed
    reader, \* where the reader is, and the values it has loaded or computed
    written, \* history: the number of bytes handed to ring_buffer_write
    out,     \* history: the bytes read
    met,     \* history: the writer has found its head to be where the tail is
    torn     \* history: an offset turned between two loads of one decision, or
             \* was loaded for a copy while it was not wrapped yet

shared == <<store, head, tail, full>>
history == <<written, out, met, torn>>
vars == <<shared, writer, reader, history>>

Slots == 0 .. Length - 1
Garbage == 0

Idle == [pc |-> "idle", n |-> 0, ahead |-> FALSE, capacity |-> 0, offset |-> 0]

Lesser(a, b) == IF a < b THEN a ELSE b

\* What a size_t holds of a sum or difference: it wraps.
SizeT(x) == x % SIZES

\* ring_buffer_read_capacity after its test of head >= tail, the offset of the
\* other thread loaded once more.
ReadCapacity(ahead) ==
    SizeT(IF ahead THEN head - tail ELSE (Length + head) - tail)

\* That offset is not on the side of the own one any more where the test saw it.
Turned(ahead) == ahead # (head >= tail)

\* A fault to detect: the offset is never wrapped.
Wrap_never(offset) == offset

Wrap(offset) == IF offset > Length THEN offset - Length ELSE offset

\* The two memcpy of n bytes at an own offset, broken after first, stay inside.
Inside(own, first, n) == own + first <= Length /\ n - first <= Length

\* The slot of byte i of them.
SlotAt(own, first, i) == IF i <= first THEN own + i - 1 ELSE i - first - 1
-----------------------------------------------------------------------------
(***************************************************************************)
(* read_playback_data: a chunk that does not fit is kept for later, and a  *)
(* chunk that does is written by ring_buffer_write, which works out the    *)
(* capacity again.  Of a full ring the capacity is 0.                      *)
(***************************************************************************)
WriterStarts ==
    \E n \in Chunks :
        /\ writer.pc = "idle"
        /\ written + n <= MaxWritten
        /\ ~ full
        /\ writer' = [writer EXCEPT !.pc = "test", !.n = n]
        /\ UNCHANGED <<shared, reader, history>>

WriterTests(from, to) ==
    /\ writer.pc = from
    /\ writer' = [writer EXCEPT !.pc = to, !.ahead = (head >= tail)]
    /\ UNCHANGED <<shared, reader, history>>

WriterChecks ==
    /\ writer.pc = "check"
    /\ writer' = IF writer.n > SizeT(Length - ReadCapacity(writer.ahead))
                 THEN Idle ELSE [writer EXCEPT !.pc = "enter", !.ahead = FALSE]
    /\ torn' = (torn \/ Turned(writer.ahead))
    /\ UNCHANGED <<shared, reader, written, out, met>>

\* Nothing is written: the caller ignores the result and drops the chunk.
WriterDrops == writer' = Idle /\ written' = written + writer.n

WriterEnters ==
    /\ writer.pc = "enter"
    /\ IF full THEN WriterDrops
       ELSE writer' = [writer EXCEPT !.pc = "test_again"] /\ UNCHANGED written
    /\ UNCHANGED <<shared, reader, out, met, torn>>

WriterCapacity ==
    LET c == Lesser(writer.n, SizeT(Length - ReadCapacity(writer.ahead)))
    IN  /\ writer.pc = "capacity"
        /\ \/ c = 0 /\ WriterDrops
           \/ /\ c # 0
              /\ writer' = [writer EXCEPT !.pc = "offset", !.ahead = FALSE,
                                          !.capacity = c]
              /\ UNCHANGED written
        /\ torn' = (torn \/ Turned(writer.ahead))
        /\ UNCHANGED <<shared, reader, out, met>>

\* The copy breaks at the end of the ring or, loaded twice more, at the tail; a
\* tail that has turned before the second test leaves the offset at 0.
WriterBreaksAt(offset) ==
    writer' = [writer EXCEPT !.pc = "copy", !.offset = Lesser(offset, writer.capacity)]

WriterOffset ==
    /\ writer.pc = "offset"
    /\ \/ head >= tail /\ WriterBreaksAt(SizeT(Length - head))
       \/ head < tail /\ writer' = [writer EXCEPT !.pc = "offset_again"]
    /\ UNCHANGED <<shared, reader, history>>

WriterOffsetAgain ==
    /\ writer.pc = "offset_again"
    /\ \/ head < tail /\ writer' = [writer EXCEPT !.pc = "subtract"]
       \/ head >= tail /\ WriterBreaksAt(0)
    /\ torn' = (torn \/ head >= tail)
    /\ UNCHANGED <<shared, reader, written, out, met>>

WriterSubtracts ==
    /\ writer.pc = "subtract"
    /\ WriterBreaksAt(SizeT(tail - head))
    /\ torn' = (torn \/ head >= tail \/ tail > Length)
    /\ UNCHANGED <<shared, reader, written, out, met>>

\* The second memcpy, to the start of the ring, comes last.
WriterCopies ==
    LET n == writer.capacity
        first == writer.offset
    IN  /\ writer.pc = "copy"
        /\ Inside(head, first, n)
        /\ store' = [s \in Slots |->
                        CASE s < n - first -> written + first + s + 1
                          [] s >= n - first /\ s \in head .. head + first - 1 ->
                                 written + s - head + 1
                          [] OTHER -> store[s]]
        /\ written' = written + writer.n
        /\ writer' = [writer EXCEPT !.pc = "advance", !.offset = 0]
        /\ UNCHANGED <<head, tail, full, reader, out, met, torn>>

WriterCrashes ==
    /\ writer.pc = "copy"
    /\ ~ Inside(head, writer.offset, writer.capacity)
    /\ writer' = [writer EXCEPT !.pc = "crashed"]
    /\ UNCHANGED <<shared, reader, history>>

WriterAdvances ==
    LET moved == head + writer.capacity
    IN  /\ writer.pc = "advance"
        /\ \/ /\ head' = Wrap(moved)
              /\ writer' = [writer EXCEPT !.pc = "compare"]
           \/ /\ moved > Length
              /\ head' = moved
              /\ writer' = [writer EXCEPT !.pc = "wrap"]
        /\ UNCHANGED <<store, tail, full, reader, history>>

WriterWraps ==
    /\ writer.pc = "wrap"
    /\ head' = head - Length
    /\ writer' = [writer EXCEPT !.pc = "compare"]
    /\ UNCHANGED <<store, tail, full, reader, history>>

WriterCompares ==
    /\ writer.pc = "compare"
    /\ writer' = [writer EXCEPT !.pc = IF tail = head THEN "raise" ELSE "lower"]
    /\ met' = (met \/ Wrap(tail) = head)
    /\ UNCHANGED <<shared, reader, written, out, torn>>

WriterFlags ==
    /\ writer.pc \in {"raise", "lower"}
    /\ full' = (writer.pc = "raise")
    /\ writer' = Idle
    /\ UNCHANGED <<store, head, tail, reader, history>>

WriterGoesOn ==
    \/ WriterTests("test", "check") \/ WriterChecks \/ WriterEnters
    \/ WriterTests("test_again", "capacity") \/ WriterCapacity
    \/ WriterOffset \/ WriterOffsetAgain \/ WriterSubtracts
    \/ WriterCopies \/ WriterCrashes
    \/ WriterAdvances \/ WriterWraps \/ WriterCompares \/ WriterFlags

Writer == WriterStarts \/ WriterGoesOn
-----------------------------------------------------------------------------
(***************************************************************************)
(* resampler_proc: one ring_buffer_read per call.  Once more bytes came    *)
(* out than were written there is nothing left to find, and it stops.      *)
(***************************************************************************)
ReaderStarts ==
    \E n \in Requests :
        /\ reader.pc = "idle"
        /\ Len(out) <= MaxWritten
        /\ reader' = [reader EXCEPT !.pc = IF full THEN "offset" ELSE "test", !.n = n,
                                      !.capacity = IF full THEN Lesser(n, Length) ELSE 0]
        /\ UNCHANGED <<shared, writer, history>>

ReaderTests ==
    /\ reader.pc = "test"
    /\ reader' = [reader EXCEPT !.pc = "capacity", !.ahead = (head >= tail)]
    /\ UNCHANGED <<shared, writer, history>>

\* A fault to detect: a request that cannot be met in full is not met at all.
ReaderCapacity_in_full ==
    /\ reader.pc = "capacity"
    /\ reader' = IF reader.n > ReadCapacity(reader.ahead)
                 THEN Idle
                 ELSE [reader EXCEPT !.pc = "offset", !.ahead = FALSE,
                                     !.capacity = reader.n]
    /\ torn' = (torn \/ Turned(reader.ahead))
    /\ UNCHANGED <<shared, writer, written, out, met>>

ReaderCapacity ==
    LET c == Lesser(reader.n, ReadCapacity(reader.ahead))
    IN  /\ reader.pc = "capacity"
        /\ reader' = IF c = 0
                     THEN Idle
                     ELSE [reader EXCEPT !.pc = "offset", !.ahead = FALSE,
                                         !.capacity = c]
        /\ torn' = (torn \/ Turned(reader.ahead))
        /\ UNCHANGED <<shared, writer, written, out, met>>

\* As the writer's, the two offsets exchanged.
ReaderBreaksAt(offset) ==
    reader' = [reader EXCEPT !.pc = "copy", !.offset = Lesser(offset, reader.capacity)]

ReaderOffset ==
    /\ reader.pc = "offset"
    /\ \/ tail >= head /\ ReaderBreaksAt(SizeT(Length - tail))
       \/ tail < head /\ reader' = [reader EXCEPT !.pc = "offset_again"]
    /\ UNCHANGED <<shared, writer, history>>

ReaderOffsetAgain ==
    /\ reader.pc = "offset_again"
    /\ \/ tail < head /\ reader' = [reader EXCEPT !.pc = "subtract"]
       \/ tail >= head /\ ReaderBreaksAt(0)
    /\ torn' = (torn \/ tail >= head)
    /\ UNCHANGED <<shared, writer, written, out, met>>

ReaderSubtracts ==
    /\ reader.pc = "subtract"
    /\ ReaderBreaksAt(SizeT(head - tail))
    /\ torn' = (torn \/ tail >= head \/ head > Length)
    /\ UNCHANGED <<shared, writer, written, out, met>>

ReaderCopies ==
    LET n == reader.capacity
        first == reader.offset
    IN  /\ reader.pc = "copy"
        /\ Inside(tail, first, n)
        /\ out' = out \o [i \in 1 .. n |-> store[SlotAt(tail, first, i)]]
        /\ reader' = [reader EXCEPT !.pc = "advance", !.offset = 0]
        /\ UNCHANGED <<shared, writer, written, met, torn>>

ReaderCrashes ==
    /\ reader.pc = "copy"
    /\ ~ Inside(tail, reader.offset, reader.capacity)
    /\ reader' = [reader EXCEPT !.pc = "crashed"]
    /\ UNCHANGED <<shared, writer, history>>

\* A fault to detect: the reader skips what the writer added meanwhile.
ReaderAdvances_to_head ==
    /\ reader.pc = "advance"
    /\ tail' = head
    /\ reader' = [reader EXCEPT !.pc = "flag"]
    /\ UNCHANGED <<store, head, full, writer, history>>

ReaderAdvances ==
    LET moved == tail + reader.capacity
    IN  /\ reader.pc = "advance"
        /\ \/ /\ tail' = Wrap(moved)
              /\ reader' = [reader EXCEPT !.pc = "flag"]
           \/ /\ moved > Length
              /\ tail' = moved
              /\ reader' = [reader EXCEPT !.pc = "wrap"]
        /\ UNCHANGED <<store, head, full, writer, history>>

ReaderWraps ==
    /\ reader.pc = "wrap"
    /\ tail' = tail - Length
    /\ reader' = [reader EXCEPT !.pc = "flag"]
    /\ UNCHANGED <<store, head, full, writer, history>>

ReaderFlags ==
    /\ reader.pc = "flag"
    /\ full' = FALSE
    /\ reader' = Idle
    /\ UNCHANGED <<store, head, tail, writer, history>>

Reader == \/ ReaderStarts \/ ReaderTests \/ ReaderCapacity
          \/ ReaderOffset \/ ReaderOffsetAgain \/ ReaderSubtracts
          \/ ReaderCopies \/ ReaderCrashes
          \/ ReaderAdvances \/ ReaderWraps \/ ReaderFlags
-----------------------------------------------------------------------------
Init == /\ store = [s \in Slots |-> Garbage]
        /\ head = 0 /\ tail = 0 /\ full = FALSE
        /\ writer = Idle /\ reader = Idle
        /\ written = 0 /\ out = <<>> /\ met = FALSE /\ torn = FALSE

Next == Writer \/ Reader

Spec == Init /\ [][Next]_vars

\* BASS goes on asking for data, and a write that was started goes on.
FairSpec == Spec /\ WF_vars(WriterGoesOn) /\ WF_vars(Reader)
-----------------------------------------------------------------------------
WriterLabels == {"idle", "test", "check", "enter", "test_again", "capacity",
                 "offset", "offset_again", "subtract", "copy", "crashed",
                 "advance", "wrap", "compare", "raise", "lower"}

ReaderLabels == {"idle", "test", "capacity", "offset", "offset_again", "subtract",
                 "copy", "crashed", "advance", "wrap", "flag"}

ThreadStates(labels, sizes) ==
    [pc : labels, n : sizes, ahead : BOOLEAN, capacity : sizes, offset : sizes]

TypeOK ==
    /\ store \in [Slots -> 0 .. MaxWritten]
    /\ head \in 0 .. 2 * Length /\ (head > Length => writer.pc = "wrap")
    /\ tail \in 0 .. 2 * Length /\ (tail > Length => reader.pc = "wrap")
    /\ full \in BOOLEAN
    /\ writer \in ThreadStates(WriterLabels, 0 .. Length)
    /\ reader \in ThreadStates(ReaderLabels, 0 .. SIZES - 1)
    /\ written \in 0 .. MaxWritten
    /\ out \in Seq(0 .. MaxWritten)
    /\ met \in BOOLEAN /\ torn \in BOOLEAN

\* BASS receives the bytes that were handed over, in order and none left out.
InOrder == \A i \in DOMAIN out : out[i] = i /\ i <= written

\* The two threads do each other no harm until ring_buffer_advance_head finds
\* tail equal to head, because the write filled the ring to the last byte or
\* because the reader has emptied it since; or until one of them takes a decision
\* by two loads between which the other's offset turned, or lays out a copy by an
\* offset that the other has advanced past the end and not yet wrapped.  Until then
\* the bytes arrive in order and no memcpy of either leaves the allocation.
InOrderUntilMet ==
    ~ met /\ ~ torn => InOrder /\ writer.pc # "crashed" /\ reader.pc # "crashed"

\* Until then neither misses the other for good: what was written is received.
AllReadUntilMet == []<>(met \/ torn \/ written = Len(out))
=============================================================================
