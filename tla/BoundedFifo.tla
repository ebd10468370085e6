---------------------------- MODULE BoundedFifo ----------------------------
(***************************************************************************)
(* What the playback buffer promises to the two sides of a resampler: a    *)
(* first-in first-out queue of at most Capacity bytes.  A write appends as *)
(* much of its chunk as fits, a read removes as much of its request as     *)
(* there is, both return the number of bytes they moved, and clearing      *)
(* forgets what is queued.  The module RingBuffer implements it.           *)
(***************************************************************************)
EXTENDS Integers, Sequences

CONSTANTS Capacity, \* the most bytes the queue can hold
          Bytes,    \* the values of a byte
          Chunks,   \* the sequences of bytes a caller may write
          Requests  \* the numbers of bytes a caller may ask to read

VARIABLES queue, \* the bytes written and not yet read
          in,    \* the bytes the last operation was given to write
          out,   \* the bytes the last read handed over
          done   \* what the last operation returned

vars == <<queue, in, out, done>>

Lesser(a, b) == IF a < b THEN a ELSE b

Init == /\ queue = <<>>
        /\ in = <<>>
        /\ out = <<>>
        /\ done = 0

Put(data) ==
    LET n == Lesser(Len(data), Capacity - Len(queue))
    IN  /\ in' = data
        /\ queue' = queue \o SubSeq(data, 1, n)
        /\ done' = n
        /\ UNCHANGED out

Get(length) ==
    LET n == Lesser(length, Len(queue))
    IN  /\ in' = <<>>
        /\ out' = SubSeq(queue, 1, n)
        /\ queue' = SubSeq(queue, n + 1, Len(queue))
        /\ done' = n

Forget == /\ queue' = <<>>
          /\ in' = <<>>
          /\ UNCHANGED <<out, done>>

Next == \/ \E data \in Chunks : Put(data)
        \/ \E length \in Requests : Get(length)
        \/ Forget

Spec == Init /\ [][Next]_vars
=============================================================================
