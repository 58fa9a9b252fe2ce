-------------------------- MODULE MCPosixSemaphore --------------------------
(* Small instances of PosixSemaphore for TLC.  Processes are interchangeable; kernel *)
(* objects are not, because a fresh one is picked by CHOOSE.                *)
EXTENDS PosixSemaphore, TLC

Symmetry == Permutations(Procs)
=============================================================================
