--------------------------- MODULE PlaybackStream ---------------------------
(***************************************************************************)
(* What a resampler promises to the one who listens, whoever fills its     *)
(* buffers and whatever the application calls meanwhile: the frames of the *)
(* source are read in order, wait in one queue, and leave it in order, to  *)
(* be played.  A reload may give up what waits, all of it at once.         *)
(* Nothing else happens to a frame.  Module Resampler implements this.     *)
(***************************************************************************)
EXTENDS Integers, Sequences

CONSTANT Frames \* the most frames the source will ever have

VARIABLES position, \* the frames read from the source so far
          queue,    \* the frames read, neither played nor given up
          played,   \* the frames played
          dropped   \* the frames given up

vars == <<position, queue, played, dropped>>

Init == position = 0 /\ queue = <<>> /\ played = <<>> /\ dropped = {}

Read ==
    \E n \in 1 .. Frames - position :
        /\ position' = position + n
        /\ queue' = queue \o [i \in 1 .. n |-> position + i]
        /\ UNCHANGED <<played, dropped>>

Play ==
    \E n \in 1 .. Len(queue) :
        /\ played' = played \o SubSeq(queue, 1, n)
        /\ queue' = SubSeq(queue, n + 1, Len(queue))
        /\ UNCHANGED <<position, dropped>>

GiveUp ==
    /\ dropped' = dropped \union {queue[i] : i \in DOMAIN queue}
    /\ queue' = <<>>
    /\ UNCHANGED <<position, played>>

Next == Read \/ Play \/ GiveUp

Spec == Init /\ [][Next]_vars
-----------------------------------------------------------------------------
\* Every frame read is in one place, and what was played and what waits is in
\* the order of reading.
EachFrameOnce ==
    LET all == played \o queue
        places == {all[i] : i \in DOMAIN all}
    IN  /\ \A i, j \in DOMAIN all : i < j => all[i] < all[j]
        /\ places \intersect dropped = {}
        /\ places \union dropped = 1 .. position
=============================================================================
