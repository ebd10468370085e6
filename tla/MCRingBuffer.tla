---------------------------- MODULE MCRingBuffer ----------------------------
(***************************************************************************)
(* A ring of MCLength bytes over two byte values.  Chunks and requests go  *)
(* one past the size of the ring, so that every call may find too little   *)
(* room, exactly enough, or more than enough.                              *)
(***************************************************************************)
EXTENDS RingBuffer

MCLength == 3
MCBytes == {0, 1}
MCChunks == UNION {[1 .. n -> MCBytes] : n \in 0 .. MCLength + 1}
MCRequests == 0 .. MCLength + 1
=============================================================================
