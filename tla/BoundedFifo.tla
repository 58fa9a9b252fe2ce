----------------------------- MODULE BoundedFifo -----------------------------
(***************************************************************************)
(* What a PShmBuffer promises (src/include/pshmbuffer.h): a first-in,      *)
(* first-out byte stream of bounded capacity.  A write stores all its      *)
(* bytes or none, a read takes at least one byte from the front, and no    *)
(* byte is read twice or overwritten before it is read.                    *)
(***************************************************************************)
EXTENDS Integers, Sequences

CONSTANTS Bytes, Capacity

VARIABLES
  q,    \* the bytes written and not yet read
  got   \* what the last read since the buffer was made or cleared returned

Init == q = <<>> /\ got = <<>>

Write ==
  \E n \in 1 .. Capacity - Len(q) : \E bytes \in [1 .. n -> Bytes] :
    q' = q \o bytes /\ UNCHANGED got

Read ==
  \E n \in 1 .. Len(q) :
    /\ got' = SubSeq(q, 1, n)
    /\ q' = SubSeq(q, n + 1, Len(q))

(* zshm_buffer_clear(), or a new buffer under the same name.               *)
Clear == q' = <<>> /\ got' = <<>>

Next == Write \/ Read \/ Clear

Spec == Init /\ [][Next]_<<q, got>>
==============================================================================
