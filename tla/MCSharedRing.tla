---------------------------- MODULE MCSharedRing ----------------------------
(***************************************************************************)
(* A ring of four bytes, chunks of up to three and requests of up to five, *)
(* and a size_t of 32 values.  A chunk of a whole ring is left out where   *)
(* the ring must not fill at once.                                         *)
(***************************************************************************)
EXTENDS SharedRing

MCLength == 4
MCChunks == 1 .. 3
MCRequests == {1, 3, 5}
=============================================================================
