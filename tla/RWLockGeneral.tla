---------------------------- MODULE RWLockGeneral ----------------------------
(***************************************************************************)
(* The portable read-write lock of src/tmp/prwlock-general.c: a monitor    *)
(* made of one mutex, two condition variables and two packed counters.     *)
(* A thread's call is a sequence of steps; the code between taking and     *)
(* giving back the mutex is one step, because every access to the counters *)
(* happens under the mutex, but taking the mutex, falling asleep, waking   *)
(* up, taking the mutex again and giving it back are steps of their own.   *)
(***************************************************************************)
EXTENDS Integers, FiniteSets

CONSTANTS
  Threads,       \* the threads that share the lock
  NoThread,      \* "the mutex is free"
  CounterLimit,  \* values a counter field can take: 2^15 in the code
  Faults         \* the primitives that may report a failure

ASSUME GeneralAssumption ==
  /\ IsFiniteSet(Threads)
  /\ NoThread \notin Threads
  /\ CounterLimit \in Nat /\ CounterLimit >= 2
  /\ Faults \subseteq {"mutex_lock", "cond_wait", "cond_signal"}

VARIABLES
  mutex,    \* PRWLock.mutex: its owner or NoThread
  readCv,   \* threads asleep on PRWLock.read_cv
  writeCv,  \* threads asleep on PRWLock.write_cv
  active,   \* PRWLock.active_threads, as its two fields
  waiting,  \* PRWLock.waiting_threads, as its two fields
  pc,       \* where each thread is in its call
  op,       \* the call each thread makes, or made last
  failed,   \* threads whose zcond_variable_wait() returned FALSE
  held      \* how each thread holds the lock

monitorVars == <<mutex, readCv, writeCv, active, waiting, pc, op, failed, held>>

LockOps   == {"reader_lock", "reader_trylock", "writer_lock", "writer_trylock"}
UnlockOps == {"reader_unlock", "writer_unlock"}
Phases    == {"idle", "enter", "body", "asleep", "loop", "leave"}

------------------------------------------------------------------------------
(* The packed counters.  A count that does not fit its field spills over:   *)
(* one reader too many sets the lowest writer bit, and -1 sets every bit.   *)

SetReaders(l, n) ==
  IF n \in 0 .. CounterLimit - 1
    THEN [l EXCEPT !.readers = n]
    ELSE [readers |-> n % CounterLimit,
          writers |-> IF n < 0 THEN CounterLimit - 1
                      ELSE l.writers + (1 - (l.writers % 2))]

SetWriters(l, n) ==
  IF n \in 0 .. CounterLimit - 1
    THEN [l EXCEPT !.writers = n]
    ELSE [l EXCEPT !.writers = n % CounterLimit]

Free == [readers |-> 0, writers |-> 0]

------------------------------------------------------------------------------
(* zrwlock_new() returns a zeroed structure with its three primitives.      *)
MonitorInit ==
  /\ mutex = NoThread
  /\ readCv = {} /\ writeCv = {}
  /\ active = Free /\ waiting = Free
  /\ pc = [t \in Threads |-> "idle"]
  /\ op = [t \in Threads |-> "writer_unlock"]
  /\ failed = {}
  /\ held = [t \in Threads |-> "none"]

Goto(t, phase) == pc' = [pc EXCEPT ![t] = phase]
Hold(t, how) == held' = [held EXCEPT ![t] = how]

(* A thread enters one of the six operations.  It follows the rules of      *)
(* prwlock.h: no recursive locking, and only the matching unlock.           *)
Call(t, o) ==
  /\ pc[t] = "idle"
  /\ \/ held[t] = "none" /\ o \in LockOps
     \/ held[t] = "read" /\ o = "reader_unlock"
     \/ held[t] = "write" /\ o = "writer_unlock"
  /\ op' = [op EXCEPT ![t] = o]
  /\ Goto(t, "enter")
  /\ UNCHANGED <<mutex, readCv, writeCv, active, waiting, failed, held>>

(* zmutex_lock() at the head of every operation.                            *)
Enter(t) ==
  /\ pc[t] = "enter"
  /\ mutex = NoThread
  /\ mutex' = t
  /\ Goto(t, "body")
  /\ UNCHANGED <<readCv, writeCv, active, waiting, op, failed, held>>

(* zmutex_lock() failed: the operation returns FALSE and does nothing else. *)
EnterFails(t) ==
  /\ "mutex_lock" \in Faults
  /\ pc[t] = "enter"
  /\ Goto(t, "idle")
  /\ UNCHANGED <<mutex, readCv, writeCv, active, waiting, op, failed, held>>

(* zmutex_unlock() at the end of every operation, and the return.  It does  *)
(* not fail for the owner of a live mutex, so its error path is left out.   *)
Leave(t) ==
  /\ pc[t] = "leave"
  /\ mutex' = NoThread
  /\ failed' = failed \ {t}
  /\ Goto(t, "idle")
  /\ UNCHANGED <<readCv, writeCv, active, waiting, op, held>>

(* zcond_variable_wait() gives the mutex back and sleeps, in one step.      *)
Sleep(t) ==
  /\ mutex' = NoThread
  /\ Goto(t, "asleep")
  /\ UNCHANGED <<active, op, failed, held>>

(* A thread woken in zcond_variable_wait() takes the mutex again.           *)
Reacquire(t) ==
  /\ pc[t] = "asleep"
  /\ t \notin readCv \cup writeCv
  /\ mutex = NoThread
  /\ mutex' = t
  /\ Goto(t, "loop")
  /\ UNCHANGED <<readCv, writeCv, active, waiting, op, failed, held>>

(* A wait may end without a signal, as POSIX allows ...                     *)
SpuriousWakeup(t) ==
  /\ t \in readCv \cup writeCv
  /\ readCv' = readCv \ {t}
  /\ writeCv' = writeCv \ {t}
  /\ UNCHANGED <<mutex, active, waiting, pc, op, failed, held>>

(* ... or with an error.                                                    *)
WaitFails(t) ==
  /\ "cond_wait" \in Faults
  /\ t \in readCv \cup writeCv
  /\ readCv' = readCv \ {t}
  /\ writeCv' = writeCv \ {t}
  /\ failed' = failed \cup {t}
  /\ UNCHANGED <<mutex, active, waiting, pc, op, held>>

(* zcond_variable_signal(write_cv): wakes one sleeper if there is any.      *)
SignalWriter ==
  /\ \/ \E u \in writeCv : writeCv' = writeCv \ {u}
     \/ writeCv = {} /\ writeCv' = {}
     \/ "cond_signal" \in Faults /\ writeCv' = writeCv
  /\ UNCHANGED readCv

(* zcond_variable_broadcast(read_cv): wakes all sleepers.                   *)
BroadcastReaders ==
  /\ \/ readCv' = {}
     \/ "cond_signal" \in Faults /\ readCv' = readCv
  /\ UNCHANGED writeCv

------------------------------------------------------------------------------
(* zrwlock_reader_lock: the test, and the body of the wait loop.            *)
ReaderLock(t) ==
  /\ pc[t] = "body" /\ op[t] = "reader_lock"
  /\ \/ /\ active.writers # 0
        /\ waiting' = SetReaders(waiting, waiting.readers + 1)
        /\ readCv' = readCv \cup {t}
        /\ Sleep(t)
        /\ UNCHANGED writeCv
     \/ /\ active.writers = 0
        /\ active' = SetReaders(active, active.readers + 1)
        /\ Hold(t, "read")
        /\ Goto(t, "leave")
        /\ UNCHANGED <<mutex, readCv, writeCv, waiting, op, failed>>

(* Mutant: a failed wait is taken for a wake-up.                            *)
ReaderLoopIgnoresFailure(t) ==
  /\ pc[t] = "loop" /\ op[t] = "reader_lock"
  /\ \/ /\ t \notin failed /\ active.writers # 0
        /\ readCv' = readCv \cup {t}
        /\ Sleep(t)
        /\ UNCHANGED <<writeCv, waiting>>
     \/ /\ t \in failed \/ active.writers = 0
        /\ waiting' = SetReaders(waiting, waiting.readers - 1)
        /\ active' = SetReaders(active, active.readers + 1)
        /\ Hold(t, "read")
        /\ Goto(t, "leave")
        /\ UNCHANGED <<mutex, readCv, writeCv, op, failed>>

ReaderLoop(t) ==
  /\ pc[t] = "loop" /\ op[t] = "reader_lock"
  /\ \/ /\ t \notin failed /\ active.writers # 0
        /\ readCv' = readCv \cup {t}
        /\ Sleep(t)
        /\ UNCHANGED <<writeCv, waiting>>
     \/ /\ t \in failed \/ active.writers = 0
        /\ waiting' = SetReaders(waiting, waiting.readers - 1)
        /\ IF t \in failed
             THEN UNCHANGED <<active, held>>
             ELSE /\ active' = SetReaders(active, active.readers + 1)
                  /\ Hold(t, "read")
        /\ Goto(t, "leave")
        /\ UNCHANGED <<mutex, readCv, writeCv, op, failed>>

(* zrwlock_reader_trylock                                                   *)
ReaderTrylock(t) ==
  /\ pc[t] = "body" /\ op[t] = "reader_trylock"
  /\ IF active.writers # 0
       THEN UNCHANGED <<active, held>>
       ELSE /\ active' = SetReaders(active, active.readers + 1)
            /\ Hold(t, "read")
  /\ Goto(t, "leave")
  /\ UNCHANGED <<mutex, readCv, writeCv, waiting, op, failed>>

(* Mutant: the last reader does not signal the waiting writer.              *)
ReaderUnlockSilent(t) ==
  /\ pc[t] = "body" /\ op[t] = "reader_unlock"
  /\ active' = SetReaders(active, active.readers - 1)
  /\ Hold(t, "none")
  /\ Goto(t, "leave")
  /\ UNCHANGED <<mutex, readCv, writeCv, waiting, op, failed>>

(* zrwlock_reader_unlock                                                    *)
ReaderUnlock(t) ==
  /\ pc[t] = "body" /\ op[t] = "reader_unlock"
  /\ IF active.readers = 0
       THEN UNCHANGED <<active, readCv, writeCv>>
       ELSE /\ active' = SetReaders(active, active.readers - 1)
            /\ IF active.readers = 1 /\ waiting.writers # 0
                 THEN SignalWriter
                 ELSE UNCHANGED <<readCv, writeCv>>
  /\ Hold(t, "none")
  /\ Goto(t, "leave")
  /\ UNCHANGED <<mutex, waiting, op, failed>>

(* zrwlock_writer_lock: the test, and the body of the wait loop.            *)
WriterLock(t) ==
  /\ pc[t] = "body" /\ op[t] = "writer_lock"
  /\ \/ /\ active # Free
        /\ waiting' = SetWriters(waiting, waiting.writers + 1)
        /\ writeCv' = writeCv \cup {t}
        /\ Sleep(t)
        /\ UNCHANGED readCv
     \/ /\ active = Free
        /\ active' = SetWriters(active, 1)
        /\ Hold(t, "write")
        /\ Goto(t, "leave")
        /\ UNCHANGED <<mutex, readCv, writeCv, waiting, op, failed>>

(* Mutant: a failed wait returns without leaving the count of waiters.      *)
WriterLoopFailureCounted(t) ==
  /\ pc[t] = "loop" /\ op[t] = "writer_lock"
  /\ \/ /\ t \notin failed /\ active # Free
        /\ writeCv' = writeCv \cup {t}
        /\ Sleep(t)
        /\ UNCHANGED <<readCv, waiting>>
     \/ /\ t \in failed \/ active = Free
        /\ IF t \in failed
             THEN UNCHANGED <<active, held, waiting>>
             ELSE /\ waiting' = SetWriters(waiting, waiting.writers - 1)
                  /\ active' = SetWriters(active, 1)
                  /\ Hold(t, "write")
        /\ Goto(t, "leave")
        /\ UNCHANGED <<mutex, readCv, writeCv, op, failed>>

WriterLoop(t) ==
  /\ pc[t] = "loop" /\ op[t] = "writer_lock"
  /\ \/ /\ t \notin failed /\ active # Free
        /\ writeCv' = writeCv \cup {t}
        /\ Sleep(t)
        /\ UNCHANGED <<readCv, waiting>>
     \/ /\ t \in failed \/ active = Free
        /\ waiting' = SetWriters(waiting, waiting.writers - 1)
        /\ IF t \in failed
             THEN UNCHANGED <<active, held>>
             ELSE /\ active' = SetWriters(active, 1)
                  /\ Hold(t, "write")
        /\ Goto(t, "leave")
        /\ UNCHANGED <<mutex, readCv, writeCv, op, failed>>

(* zrwlock_writer_trylock                                                   *)
WriterTrylock(t) ==
  /\ pc[t] = "body" /\ op[t] = "writer_trylock"
  /\ IF active # Free
       THEN UNCHANGED <<active, held>>
       ELSE active' = SetWriters(active, 1) /\ Hold(t, "write")
  /\ Goto(t, "leave")
  /\ UNCHANGED <<mutex, readCv, writeCv, waiting, op, failed>>

(* Mutant: waiting readers are not told.                                    *)
WriterUnlockForWriters(t) ==
  /\ pc[t] = "body" /\ op[t] = "writer_unlock"
  /\ active' = SetWriters(active, 0)
  /\ IF waiting.writers # 0 THEN SignalWriter ELSE UNCHANGED <<readCv, writeCv>>
  /\ Hold(t, "none")
  /\ Goto(t, "leave")
  /\ UNCHANGED <<mutex, waiting, op, failed>>

(* zrwlock_writer_unlock: a waiting writer is preferred to waiting readers. *)
WriterUnlock(t) ==
  /\ pc[t] = "body" /\ op[t] = "writer_unlock"
  /\ active' = SetWriters(active, 0)
  /\ IF waiting.writers # 0 THEN SignalWriter
     ELSE IF waiting.readers # 0 THEN BroadcastReaders
     ELSE UNCHANGED <<readCv, writeCv>>
  /\ Hold(t, "none")
  /\ Goto(t, "leave")
  /\ UNCHANGED <<mutex, waiting, op, failed>>

------------------------------------------------------------------------------
(* The steps of a call in progress, which the scheduler eventually runs.    *)
Step(t) ==
  \/ Enter(t) \/ Leave(t) \/ Reacquire(t)
  \/ ReaderLock(t) \/ ReaderLoop(t) \/ ReaderTrylock(t) \/ ReaderUnlock(t)
  \/ WriterLock(t) \/ WriterLoop(t) \/ WriterTrylock(t) \/ WriterUnlock(t)

(* What happens when zmutex_lock() and zcond_variable_wait() succeed.        *)
Regular(t) ==
  \/ Step(t)
  \/ \E o \in LockOps \cup UnlockOps : Call(t, o)
  \/ SpuriousWakeup(t)

RegularNext == \E t \in Threads : Regular(t)

MonitorNext == \E t \in Threads : Regular(t) \/ EnterFails(t) \/ WaitFails(t)

MonitorSpec == MonitorInit /\ [][MonitorNext]_monitorVars

(* Some thread with an enabled step runs, and a holder gives the lock back. *)
Fairness ==
  /\ WF_monitorVars(\E t \in Threads : Step(t))
  /\ \A t \in Threads : WF_monitorVars(\E o \in UnlockOps : Call(t, o))

FairSpec == MonitorInit /\ [][RegularNext]_monitorVars /\ Fairness

------------------------------------------------------------------------------
(* Readers and writers that are in the wait loop, asleep or awake, and the  *)
(* ones that left their condition variable but did not test it again yet.   *)
InLoop(o) == {t \in Threads : op[t] = o /\ pc[t] \in {"asleep", "loop"}}
Woken(o) == InLoop(o) \ (readCv \cup writeCv)
Holders(how) == {t \in Threads : held[t] = how}

(* Type invariant.                                                          *)
Counter == [readers : 0 .. CounterLimit - 1, writers : 0 .. CounterLimit - 1]

TypeOK ==
  /\ mutex \in Threads \cup {NoThread}
  /\ readCv \in SUBSET Threads /\ writeCv \in SUBSET Threads
  /\ active \in Counter /\ waiting \in Counter
  /\ pc \in [Threads -> Phases]
  /\ op \in [Threads -> LockOps \cup UnlockOps]
  /\ failed \in SUBSET Threads
  /\ held \in [Threads -> {"none", "read", "write"}]

(* A writer that holds the lock is alone: the promise of zrwlock_writer_lock*)
(* and zrwlock_writer_trylock against every interleaving of the others.     *)
MutualExclusion ==
  \A t, u \in Threads : held[t] = "write" /\ u # t => held[u] = "none"

(* The packed counters never drift from the threads they stand for, however *)
(* calls, failures and wake-ups interleave: active_threads counts the       *)
(* holders and waiting_threads the threads inside the two wait loops.       *)
CountersExact ==
  /\ active = [readers |-> Cardinality(Holders("read")),
               writers |-> Cardinality(Holders("write"))]
  /\ waiting = [readers |-> Cardinality(InLoop("reader_lock")),
                writers |-> Cardinality(InLoop("writer_lock"))]

(* No wake-up is lost: while the lock is free and a thread sleeps on one of *)
(* its condition variables, some other waiter has been woken and will find  *)
(* the lock free (the signalling in the two unlock operations is enough).   *)
NoLostWakeup ==
  active = Free /\ readCv \cup writeCv # {}
    => Woken("reader_lock") \cup Woken("writer_lock") # {}

(* The same promise as liveness, in the words of prwlock.h, "sleep until    *)
(* the lock becomes available": no thread sleeps on while the lock stays    *)
(* free.                                                                    *)
NoSleeperStranded ==
  \A t \in Threads :
    []<>~(active = Free /\ t \in readCv \cup writeCv)

(* The monitor implements the abstract read-write lock.                     *)
Abstract == INSTANCE RWLock
ImplementsRWLock == Abstract!Spec
==============================================================================
