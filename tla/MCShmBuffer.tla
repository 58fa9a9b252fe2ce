----------------------------- MODULE MCShmBuffer -----------------------------
(* Small instances of ShmBuffer for TLC.                                    *)
EXTENDS ShmBuffer, TLC

Symmetry == Permutations(Procs) \cup Permutations(ByteValues)
==============================================================================
