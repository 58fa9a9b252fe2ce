------------------------------- MODULE RWLock -------------------------------
(***************************************************************************)
(* What a PRWLock promises its callers (src/include/prwlock.h): any number *)
(* of threads may hold it for reading, or exactly one for writing.         *)
(* RWLockGeneral is shown to implement it.                                 *)
(***************************************************************************)
CONSTANT Threads

VARIABLE held   \* held[t]: how thread t holds the lock

Init == held = [t \in Threads |-> "none"]

AcquireRead(t) ==
  /\ held[t] = "none"
  /\ \A u \in Threads : held[u] # "write"
  /\ held' = [held EXCEPT ![t] = "read"]

AcquireWrite(t) ==
  /\ \A u \in Threads : held[u] = "none"
  /\ held' = [held EXCEPT ![t] = "write"]

Release(t) ==
  /\ held[t] # "none"
  /\ held' = [held EXCEPT ![t] = "none"]

Next == \E t \in Threads : AcquireRead(t) \/ AcquireWrite(t) \/ Release(t)

Spec == Init /\ [][Next]_held
=============================================================================
