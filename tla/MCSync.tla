------------------------------- MODULE MCSync -------------------------------
(* Small instances for TLC of what threads and processes meet at: the        *)
(* general read-write lock with every fault, the locks of the systems,       *)
(* condition variables, atomic operations and spinlocks, and the POSIX       *)
(* shared memory whose users come and go without regard to each other.  They *)
(* share no state; a behaviour is one of one of them.                        *)
EXTENDS RWLockGeneral, RWLockOS, PCondVariable, PAtomic, PSpinLock, PosixShm, TLC

VARIABLE part

threadVars == <<monitorVars, lockVars, condVars, atomicVars, spinVars>>
syncVars == <<part, threadVars, vars>>

SyncInit ==
  /\ part \in {"general", "system", "cond", "atomic", "spin", "memory"}
  /\ MonitorInit /\ LockInit /\ CondInit /\ AtomicInit /\ SpinInit /\ Init
  /\ part # "system" => rsys = "posix"
  /\ part # "cond" => csys = "posix"
  /\ part # "atomic" => build = <<"c11", "int">>
  /\ part # "spin" => sbuild = "c11"

(* Every thread may wait for a signal that nobody sends.                     *)
CondIdle == part = "cond" /\ UNCHANGED condVars

ThreadsNext ==
  \/ part = "general" /\ MonitorNext /\ UNCHANGED <<lockVars, condVars, atomicVars, spinVars>>
  \/ part = "system" /\ LockNext /\ UNCHANGED <<monitorVars, condVars, atomicVars, spinVars>>
  \/ part = "cond" /\ CondNext /\ UNCHANGED <<monitorVars, lockVars, atomicVars, spinVars>>
  \/ CondIdle /\ UNCHANGED <<monitorVars, lockVars, atomicVars, spinVars>>
  \/ part = "atomic" /\ AtomicNext /\ UNCHANGED <<monitorVars, lockVars, condVars, spinVars>>
  \/ part = "spin" /\ SpinNext /\ UNCHANGED <<monitorVars, lockVars, condVars, atomicVars>>

SyncNext ==
  /\ UNCHANGED part
  /\ \/ ThreadsNext /\ UNCHANGED vars
     \/ part = "memory" /\ Next /\ UNCHANGED threadVars

SyncSpec == SyncInit /\ [][SyncNext]_syncVars

(* Processes are interchangeable, and so are the threads of the general      *)
(* lock; three of these are the model values that stand for the processes.   *)
(* Kernel objects are not, because a fresh one is picked by CHOOSE.          *)
Symmetry == Permutations(Procs)
=============================================================================
