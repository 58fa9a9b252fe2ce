------------------------------ MODULE RWLockOS ------------------------------
(***************************************************************************)
(* The read-write locks that are not made of a mutex and condition         *)
(* variables: the native ones of POSIX, Solaris and Windows Vista, and the *)
(* one for Windows XP (src/os/win/prwlock-win.c), a packed word changed by *)
(* compare-and-exchange and an auto-reset event.  A thread reads the word, *)
(* decides, and exchanges it against what it read: three steps, between    *)
(* which every other thread may run.  All of them implement RWLock.  The   *)
(* fields of the word are numbers here: WordExact says they count threads, *)
(* so that 15 bits hold them.                                              *)
(***************************************************************************)
EXTENDS Integers, FiniteSets

CONSTANTS
  LockThreads,  \* the threads that share the lock
  LockSystems   \* the systems whose lock is run

ASSUME LockAssumption ==
  /\ IsFiniteSet(LockThreads) /\ Cardinality(LockThreads) < 2^15
  /\ LockSystems \subseteq {"posix", "solaris", "vista", "xp"}

VARIABLES
  rsys,   \* the system the library runs on
  word,   \* PRWLockXP.lock: readers, waiting threads, and the writer bit
  event,  \* PRWLockXP.event is set
  rpc,    \* where each thread is in its call
  rop,    \* the call it makes
  seen,   \* tmzlock: the word as the thread read it
  rheld   \* how each thread holds the lock

lockVars == <<rsys, word, event, rpc, rop, seen, rheld>>

Clear == [readers |-> 0, waiting |-> 0, writer |-> FALSE]

LockInit ==
  /\ rsys \in LockSystems
  /\ word = Clear /\ event = FALSE
  /\ rpc = [t \in LockThreads |-> "idle"]
  /\ rop = [t \in LockThreads |-> "end_write"]
  /\ seen = [t \in LockThreads |-> Clear]
  /\ rheld = [t \in LockThreads |-> "none"]

(* tmzlock is read anew wherever it is used again.                          *)
Forget(t) == seen' = [seen EXCEPT ![t] = Clear]
LockStep(t, where) == rpc' = [rpc EXCEPT ![t] = where]
Holds(t, how) == rheld' = [rheld EXCEPT ![t] = how]
Reads(o) == o \in {"start_read", "start_read_try"}
Writes(o) == o \in {"start_write", "start_write_try"}
Tries(o) == o \in {"start_read_try", "start_write_try"}

(* Callers keep to prwlock.h: nobody locks twice, and each unlocks what it  *)
(* holds.                                                                   *)
StartCall(t, o) ==
  /\ rpc[t] = "idle"
  /\ CASE o = "end_read" -> rheld[t] = "read"
       [] o = "end_write" -> rheld[t] = "write"
       [] OTHER -> rheld[t] = "none"
  /\ rop' = [rop EXCEPT ![t] = o]
  /\ LockStep(t, IF rsys = "xp" THEN "load" ELSE rsys)
  /\ UNCHANGED <<rsys, word, event, seen, rheld>>

------------------------------------------------------------------------------
(* The systems' own locks.                                                  *)

NativeFree(o) ==
  \A u \in LockThreads : rheld[u] = "none" \/ (Reads(o) /\ rheld[u] = "read")

(* The call returns: the lock was free, or there was one to give back; a    *)
(* try finds it taken and returns FALSE.                                    *)
NativeCall(t) ==
  /\ \/ rop[t] \in {"end_read", "end_write"} /\ Holds(t, "none")
     \/ /\ rop[t] \notin {"end_read", "end_write"} /\ NativeFree(rop[t])
        /\ Holds(t, IF Reads(rop[t]) THEN "read" ELSE "write")
     \/ Tries(rop[t]) /\ ~NativeFree(rop[t]) /\ UNCHANGED rheld
  /\ LockStep(t, "idle") /\ UNCHANGED <<rsys, word, event, rop, seen>>

PosixCall(t) == rpc[t] = "posix" /\ NativeCall(t)
SolarisCall(t) == rpc[t] = "solaris" /\ NativeCall(t)
VistaCall(t) == rpc[t] = "vista" /\ NativeCall(t)

------------------------------------------------------------------------------
(* Windows XP.                                                              *)

IsWriter(w) == w.writer

(* Mutant: a writer only looks for another writer.                          *)
IsClearOfWriters(w) == ~w.writer
IsClear(w) == w.readers = 0 /\ ~w.writer

(* The word is read; what it holds decides what the call does next.  The    *)
(* yields before a thread gives up spinning change nothing and are left     *)
(* out: it may find any later word as well.                                 *)
Load(t) ==
  /\ rpc[t] = "load"
  /\ seen' = [seen EXCEPT ![t] = word]
  /\ LockStep(t,
       CASE rop[t] = "end_read" ->
              IF word.readers = 0 THEN "idle"
              ELSE IF word.readers = 1 /\ word.waiting # 0 THEN "set" ELSE "give"
         [] rop[t] = "end_write" ->
              IF ~IsWriter(word) THEN "idle" ELSE IF word.waiting # 0 THEN "set" ELSE "give"
         [] Reads(rop[t]) /\ ~IsWriter(word) -> "take"
         [] Writes(rop[t]) /\ IsClear(word) -> "take"
         [] OTHER -> IF Tries(rop[t]) THEN "idle" ELSE "park")
  /\ UNCHANGED <<rsys, word, event, rop, rheld>>

(* zatomic_int_compare_and_exchange (&lock, tmzlock, new) succeeds.         *)
Exchange(t, new) == word = seen[t] /\ word' = new

Take(t) ==
  /\ rpc[t] = "take"
  /\ Exchange(t, IF Reads(rop[t]) THEN [seen[t] EXCEPT !.readers = @ + 1]
                                  ELSE [seen[t] EXCEPT !.writer = TRUE])
  /\ Holds(t, IF Reads(rop[t]) THEN "read" ELSE "write")
  /\ LockStep(t, "idle") /\ Forget(t) /\ UNCHANGED <<rsys, event, rop>>

(* The thread counts itself as waiting and sleeps on the event.             *)
Park(t) ==
  /\ rpc[t] = "park"
  /\ Exchange(t, [seen[t] EXCEPT !.waiting = @ + 1])
  /\ LockStep(t, "asleep") /\ Forget(t) /\ UNCHANGED <<rsys, event, rop, rheld>>

(* The event lets one thread go and resets itself.                          *)
Awake(t) ==
  /\ rpc[t] = "asleep" /\ event
  /\ event' = FALSE
  /\ LockStep(t, "reload") /\ UNCHANGED <<rsys, word, rop, seen, rheld>>

(* The loop that takes the thread out of the waiting count again.           *)
Reload(t) ==
  /\ rpc[t] = "reload"
  /\ seen' = [seen EXCEPT ![t] = word]
  /\ LockStep(t, "unpark") /\ UNCHANGED <<rsys, word, event, rop, rheld>>

(* Mutant: the exchange that takes the thread out again is tried once.      *)
UnparkOnce(t) ==
  /\ rpc[t] = "unpark"
  /\ word' = IF word = seen[t] THEN [seen[t] EXCEPT !.waiting = @ - 1] ELSE word
  /\ LockStep(t, "load") /\ Forget(t) /\ UNCHANGED <<rsys, event, rop, rheld>>

Unpark(t) ==
  /\ rpc[t] = "unpark"
  /\ Exchange(t, [seen[t] EXCEPT !.waiting = @ - 1])
  /\ LockStep(t, "load") /\ Forget(t) /\ UNCHANGED <<rsys, event, rop, rheld>>

(* A reader sets the event and then gives its place back, against the word  *)
(* it read before; a writer sets it and looks again until nobody waits.     *)
SetEvent(t) ==
  /\ rpc[t] = "set"
  /\ event' = TRUE
  /\ LockStep(t, IF rop[t] = "end_read" THEN "give" ELSE "load")
  /\ UNCHANGED <<rsys, word, rop, seen, rheld>>

Give(t) ==
  /\ rpc[t] = "give"
  /\ Exchange(t, IF rop[t] = "end_read" THEN [seen[t] EXCEPT !.readers = @ - 1]
                                        ELSE [seen[t] EXCEPT !.writer = FALSE])
  /\ Holds(t, "none")
  /\ LockStep(t, "idle") /\ Forget(t) /\ UNCHANGED <<rsys, event, rop>>

(* The exchange fails: the call starts over, or a try returns FALSE.        *)
ExchangeFails(t) ==
  /\ rpc[t] \in {"take", "park", "unpark", "give"} /\ word # seen[t]
  /\ LockStep(t, IF rpc[t] = "unpark" THEN "reload" ELSE IF Tries(rop[t]) THEN "idle" ELSE "load")
  /\ Forget(t) /\ UNCHANGED <<rsys, word, event, rop, rheld>>

LockNext ==
  \E t \in LockThreads :
    \/ \E o \in {"start_read", "start_read_try", "end_read",
                 "start_write", "start_write_try", "end_write"} : StartCall(t, o)
    \/ PosixCall(t) \/ SolarisCall(t) \/ VistaCall(t)
    \/ Load(t) \/ Take(t) \/ Park(t) \/ Awake(t) \/ Reload(t) \/ Unpark(t)
    \/ SetEvent(t) \/ Give(t) \/ ExchangeFails(t)

LockSpec == LockInit /\ [][LockNext]_lockVars

------------------------------------------------------------------------------
(* Readers and writers exclude each other as prwlock.h promises, although   *)
(* every decision is made on a word read earlier: an exchange against an    *)
(* old word must fail.                                                      *)
AbstractLock == INSTANCE RWLock WITH Threads <- LockThreads, held <- rheld
ImplementsAbstractLock == AbstractLock!Spec

(* The word of the lock for Windows XP tells the truth at every instant: it *)
(* counts the readers, says whether there is a writer, and counts the       *)
(* threads that went to sleep and did not yet take themselves out again,    *)
(* whichever exchanges failed in between.                                   *)
LockHolders(how) == {t \in LockThreads : rheld[t] = how}
Parked == {t \in LockThreads : rpc[t] \in {"asleep", "reload", "unpark"}}
WordExact ==
  rsys = "xp" => word = [readers |-> Cardinality(LockHolders("read")),
                         waiting |-> Cardinality(Parked),
                         writer |-> LockHolders("write") # {}]

(* zrwlock_writer_lock() "Forces the calling thread to sleep until the lock *)
(* becomes available": when the lock is free and no call is under way,      *)
(* nobody sleeps.                                                           *)
SleepsUntilAvailable ==
  (/\ IsClear(word) /\ ~event
   /\ \A t \in LockThreads : rpc[t] \in {"idle", "asleep"})
  => \A t \in LockThreads : rpc[t] # "asleep"
=============================================================================
