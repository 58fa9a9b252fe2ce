----------------------------- MODULE MCRWLockOS -----------------------------
(* A small instance of the read-write lock for Windows XP for TLC.          *)
EXTENDS RWLockOS
=============================================================================
