----------------------------- MODULE MCRingBuffer -----------------------------
(* Small instances of RingBuffer.  A payload is determined by its kind and  *)
(* length, and no two of its cells are equal, so a shifted, torn or         *)
(* swapped copy shows.                                                      *)
EXTENDS RingBuffer

Payload(kind, n) == [i \in 1 .. n |-> 10 * (kind + 1) + i]

MCFrame(kind, n) == [kind |-> kind, flags |-> 0, data |-> Payload(kind, n)]

(* For Capacity 8: an empty frame, a short one, one that fills the ring
   exactly (5) and one that is larger than the ring (6). *)
FewFrames == {MCFrame(5, 0), MCFrame(0, 2), MCFrame(1, 5), MCFrame(6, 6)}
=============================================================================
