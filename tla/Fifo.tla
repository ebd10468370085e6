-------------------------------- MODULE Fifo --------------------------------
(***************************************************************************)
(* The queue of fifo.h, on which every stage of the converter works: one   *)
(* allocation in which the items lie between the offsets begin and end.    *)
(* The items themselves do not matter here, only where they are.  The      *)
(* operators return what becomes of the queue; an item counts as one byte. *)
(* Memory suffices: fifo_reserve returns NULL when realloc fails, its      *)
(* callers write through it unlooked, and that is not modelled.            *)
(***************************************************************************)
EXTENDS Integers

CONSTANT FIFO_MIN \* the first allocation, and how far begin may move

ASSUME FifoAssumption == FIFO_MIN \in Nat

Larger(a, b) == IF a > b THEN a ELSE b
Smaller(a, b) == IF a < b THEN a ELSE b

\* peak is a history field: the most items the queue was asked to hold.
fifo_create == [begin |-> 0, end |-> 0, allocation |-> FIFO_MIN, peak |-> 0]

fifo_occupancy(f) == f.end - f.begin

Fits(f, n) == f.end + n <= f.allocation

\* An empty queue starts again at the front of its allocation.
Restarted(f) ==
    IF f.begin = f.end THEN [f EXCEPT !.begin = 0, !.end = 0] ELSE f

\* When there is no room behind the items and much before them, they move.
Moved(f, n) ==
    IF ~ Fits(f, n) /\ f.begin > FIFO_MIN
    THEN [f EXCEPT !.begin = 0, !.end = f.end - f.begin]
    ELSE f

\* A fault to detect: the items are never moved.
fifo_reserve_at_end(f, n) ==
    LET room == Restarted(f)
    IN  [room EXCEPT !.end = @ + n,
                     !.allocation = IF Fits(room, n) THEN @ ELSE @ + n,
                     !.peak = Larger(@, fifo_occupancy(f) + n)]

fifo_reserve(f, n) ==
    LET room == Moved(Restarted(f), n)
    IN  [room EXCEPT !.end = @ + n,
                     !.allocation = IF Fits(room, n) THEN @ ELSE @ + n,
                     !.peak = Larger(@, fifo_occupancy(f) + n)]

fifo_trim_by(f, n) == [f EXCEPT !.end = @ - n]

\* To read more than there is reads nothing.
fifo_read(f, n) ==
    IF n > fifo_occupancy(f) THEN f ELSE [f EXCEPT !.begin = @ + n]
-----------------------------------------------------------------------------
FifoType == [begin : Nat, end : Nat, allocation : Nat, peak : Nat]

\* The items lie inside the allocation, and the allocation does not grow with
\* what has passed through the queue, only with what was in it at once.
FifoBounded(f) ==
    /\ f.begin <= f.end /\ f.end <= f.allocation
    /\ fifo_occupancy(f) <= f.peak
    /\ f.allocation <= FIFO_MIN + 2 * f.peak
=============================================================================
