----------------------------- MODULE MCPosixShm -----------------------------
(* Small instances of PosixShm for TLC.  Processes are interchangeable; kernel *)
(* objects are not, because a fresh one is picked by CHOOSE.                *)
EXTENDS PosixShm, TLC

Symmetry == Permutations(Procs)
=============================================================================
