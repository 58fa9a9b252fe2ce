-------------------------------- MODULE MCIpc --------------------------------
(* Small instances for TLC of what processes share by name: a POSIX         *)
(* semaphore by itself, of one or two units; a POSIX segment with its       *)
(* semaphore; and the System V ones.  A behaviour is one of one of them.    *)
EXTENDS PosixShm, SysVIpc, TLC

VARIABLE part

ipcVars == <<part, vars, sysvVars>>

Counting == INSTANCE PosixSemaphore WITH InitVals <- {1, 2}

IpcInit == part \in {"semaphore", "posix", "sysv"} /\ Init /\ SysvInit

IpcNext ==
  /\ UNCHANGED part
  /\ \/ part = "semaphore" /\ Counting!SemNext /\ UNCHANGED <<shmVars, sysvVars>>
     \/ part = "posix" /\ Next /\ UNCHANGED sysvVars
     \/ part = "sysv" /\ SysvNext /\ UNCHANGED vars

IpcSpec == IpcInit /\ [][IpcNext]_ipcVars

(* Processes are interchangeable, and so are the two of the overlapping     *)
(* System V usage; kernel objects are not, because a fresh one is picked by *)
(* CHOOSE.  No behaviour has steps of both kinds of process, so it is       *)
(* enough to permute the two along with every exchange of two of the three. *)
Exchanges(f) == Cardinality({p \in DOMAIN f : f[p] = p}) = 1
Moves(f) == \E p \in DOMAIN f : f[p] # p
Symmetry ==
  UNION {{f @@ g : g \in {g \in Permutations(Overlapping) : Moves(g) <=> Exchanges(f)}}
           : f \in Permutations(Procs)}
==============================================================================
