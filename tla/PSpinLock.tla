------------------------------ MODULE PSpinLock ------------------------------
(***************************************************************************)
(* The spinlock in its five builds, together with the memory it is meant   *)
(* to guard.  A holder reads a counter, stores it plus one and unlocks.    *)
(* Stores go through a buffer of the processor and may become visible in   *)
(* any order.  Where the lock is a word, the store that frees it goes the  *)
(* same way: it is on where the build puts its barrier that the counter    *)
(* becomes visible first.                                                  *)
(***************************************************************************)
EXTENDS Integers, Sequences, SequencesExt

CONSTANTS
  SpinThreads,  \* the threads, each on a processor of its own
  SpinBuilds,   \* the builds that are run
  MaxCount      \* bound: the counter wraps at this value

ASSUME SpinAssumption ==
  /\ SpinBuilds \subseteq {"c11", "sync", "win", "decc", "sim"}
  /\ MaxCount \in Nat \ {0, 1}

VARIABLES
  sbuild,    \* the build
  spin,      \* PSpinLock.spin, or whether its mutex is locked
  counter,   \* the guarded memory
  buffer,    \* stores of each thread that are not visible yet
  spc,       \* where each thread is
  sections   \* history: critical sections completed so far

spinVars == <<sbuild, spin, counter, buffer, spc, sections>>

SpinInit ==
  /\ sbuild \in SpinBuilds
  /\ spin = 0 /\ counter = 0 /\ sections = 0
  /\ buffer = [t \in SpinThreads |-> <<>>]
  /\ spc = [t \in SpinThreads |-> "out"]

Put(t, where) == spc' = [spc EXCEPT ![t] = where]
Store(t, loc, val) == buffer' = [buffer EXCEPT ![t] = Append(@, <<loc, val>>)]

(* A store leaves the buffer; the memory of the machine may be weak, and    *)
(* the oldest one need not be the first.                                    *)
Visible(t) ==
  \E i \in 1 .. Len(buffer[t]) :
    /\ IF buffer[t][i][1] = "spin"
         THEN spin' = buffer[t][i][2] /\ UNCHANGED counter
         ELSE counter' = buffer[t][i][2] /\ UNCHANGED spin
    /\ buffer' = [buffer EXCEPT ![t] = RemoveAt(@, i)]
    /\ UNCHANGED <<sbuild, spc, sections>>

(* A compare-and-exchange of the word, which empties the buffer first.      *)
(* zspinlock_lock() repeats it until it succeeds; a zspinlock_trylock()     *)
(* that finds the word set returns FALSE and changes nothing.               *)
SwapIn(t) ==
  /\ spc[t] = "out" /\ buffer[t] = <<>>
  /\ spin = 0 /\ spin' = 1
  /\ Put(t, "in") /\ UNCHANGED <<sbuild, counter, buffer, sections>>

C11Lock(t) == sbuild = "c11" /\ SwapIn(t)
SyncLock(t) == sbuild = "sync" /\ SwapIn(t)
WinLock(t) == sbuild = "win" /\ SwapIn(t)
DeccLock(t) == sbuild = "decc" /\ SwapIn(t)
SimLockSpin(t) == sbuild = "sim" /\ SwapIn(t)

(* The critical section: the counter is read and its successor stored.      *)
Work(t) ==
  /\ spc[t] = "in"
  /\ Store(t, "counter", (counter + 1) % MaxCount)
  /\ sections' = (sections + 1) % MaxCount
  /\ Put(t, "worked") /\ UNCHANGED <<sbuild, spin, counter>>

(* A store with release ordering: earlier stores become visible before it.  *)
Released(t) ==
  /\ spc[t] = "worked" /\ buffer[t] = <<>>
  /\ Store(t, "spin", 0)
  /\ Put(t, "out") /\ UNCHANGED <<sbuild, spin, counter, sections>>

(* The mutex of the system: what is stored before an unlock is visible      *)
(* after it.                                                                *)
UnlockedMutex(t) ==
  /\ spc[t] = "worked" /\ buffer[t] = <<>>
  /\ spin' = 0
  /\ Put(t, "out") /\ UNCHANGED <<sbuild, counter, buffer, sections>>

(* A plain store followed by a full barrier.                                *)
StoreThenBarrier(t) ==
  /\ spc[t] = "worked"
  /\ Store(t, "spin", 0)
  /\ Put(t, "barrier") /\ UNCHANGED <<sbuild, spin, counter, sections>>

Barrier(t) ==
  /\ spc[t] = "barrier" /\ buffer[t] = <<>>
  /\ Put(t, "out") /\ UNCHANGED <<sbuild, spin, counter, buffer, sections>>

(* Mutant: the store that frees the word is a relaxed one.                  *)
C11UnlockRelaxed(t) ==
  /\ sbuild = "c11" /\ spc[t] = "worked"
  /\ Store(t, "spin", 0)
  /\ Put(t, "out") /\ UNCHANGED <<sbuild, spin, counter, sections>>
C11Unlock(t) == sbuild = "c11" /\ Released(t)
DeccUnlock(t) == sbuild = "decc" /\ Released(t)
SyncUnlock(t) == sbuild = "sync" /\ StoreThenBarrier(t)
WinUnlock(t) == sbuild = "win" /\ StoreThenBarrier(t)
SimUnlockSpin(t) == sbuild = "sim" /\ UnlockedMutex(t)

SpinNext ==
  \E t \in SpinThreads :
    \/ C11Lock(t) \/ SyncLock(t) \/ WinLock(t) \/ DeccLock(t) \/ SimLockSpin(t)
    \/ Work(t)
    \/ C11Unlock(t) \/ SyncUnlock(t) \/ WinUnlock(t) \/ DeccUnlock(t) \/ SimUnlockSpin(t)
    \/ Barrier(t) \/ Visible(t)

SpinSpec == SpinInit /\ [][SpinNext]_spinVars

(* No two threads are between zspinlock_lock() and zspinlock_unlock(), in   *)
(* any build; and a thread that gets the spinlock sees what the last holder *)
(* stored: the counter it reads is the number of critical sections          *)
(* completed.  The second does not hold for the builds that put their       *)
(* barrier after the store which frees the lock: in pspinlock-sync.c and    *)
(* pspinlock-win.c the next holder may still read the old counter.          *)
HolderSeesStores ==
  /\ \A t, u \in SpinThreads : {spc[t], spc[u]} \subseteq {"in", "worked"} => t = u
  /\ sbuild \notin {"sync", "win"} =>
       \A t \in SpinThreads : spc[t] = "in" => counter = sections
==============================================================================
