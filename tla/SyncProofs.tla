----------------------------- MODULE SyncProofs -----------------------------
(***************************************************************************)
(* Proofs about what threads meet at: the monitor-based read-write lock,   *)
(* for every set of threads smaller than the range of its counter fields,  *)
(* and those of the systems, for every finite set of threads; the atomic   *)
(* operations, for every set of threads, every width of the word and every *)
(* build; the spinlock in its five builds; and the condition variables of  *)
(* POSIX, Solaris, Windows and OS/2, for every set of threads.             *)
(***************************************************************************)
EXTENDS RWLockGeneral, RWLockOS, PAtomic, PSpinLock, PCondVariable, SequenceTheorems,
        FiniteSetTheorems, TLAPS

------------------------------------------------------------------------------
(* The assumption under which the 15-bit fields of PRWLock cannot spill.    *)
NoSpill == Cardinality(Threads) < CounterLimit

------------------------------------------------------------------------------
(* The inductive invariant.                                                 *)

(* The mutex belongs to the thread that is between lock and unlock.         *)
MutexOwner == \A t \in Threads : mutex = t <=> pc[t] \in {"body", "loop", "leave"}

(* Only a thread inside the matching wait loop sleeps on a variable.        *)
Sleepers ==
  /\ \A t \in readCv : pc[t] = "asleep" /\ op[t] = "reader_lock"
  /\ \A t \in writeCv : pc[t] = "asleep" /\ op[t] = "writer_lock"
  /\ \A t \in Threads :
       pc[t] \in {"asleep", "loop"} => op[t] \in {"reader_lock", "writer_lock"}

(* A call that did not take effect yet leaves its thread as it found it.    *)
CallsMatch ==
  \A t \in Threads :
    pc[t] \in {"enter", "body", "asleep", "loop"} =>
      \/ op[t] \in LockOps /\ held[t] = "none"
      \/ op[t] = "reader_unlock" /\ held[t] = "read"
      \/ op[t] = "writer_unlock" /\ held[t] = "write"

IInv ==
  /\ TypeOK /\ MutexOwner /\ Sleepers /\ CallsMatch
  /\ CountersExact /\ MutualExclusion

(* What keeps wake-ups from being lost: sleeping readers rely on a writer   *)
(* that is active or waits, and the free lock has a woken writer if any     *)
(* writer waits.                                                            *)
ReadersCovered == readCv # {} => active.writers # 0 \/ InLoop("writer_lock") # {}
WriterWoken == active = Free /\ InLoop("writer_lock") # {} => Woken("writer_lock") # {}
WakeInv == ReadersCovered /\ WriterWoken /\ failed = {}

------------------------------------------------------------------------------
(* Facts about sets of threads and about the counter fields.                *)

LEMMA ThreadSets ==
  ASSUME NoSpill, NEW S \in SUBSET Threads
  PROVE  /\ IsFiniteSet(S)
         /\ Cardinality(S) \in 0 .. CounterLimit - 1
         /\ Cardinality(S) = 0 <=> S = {}
<1>1. IsFiniteSet(S) /\ Cardinality(S) <= Cardinality(Threads)
  BY FS_Subset, GeneralAssumption
<1>2. Cardinality(S) \in Nat /\ Cardinality(Threads) \in Nat
  BY <1>1, FS_CardinalityType, GeneralAssumption
<1>3. Cardinality(S) = 0 <=> S = {}
  BY <1>1, FS_EmptySet
<1> QED BY <1>1, <1>2, <1>3, GeneralAssumption DEF NoSpill

LEMMA ThreadAdded ==
  ASSUME NoSpill, NEW S \in SUBSET Threads, NEW t \in Threads, t \notin S
  PROVE  Cardinality(S \cup {t}) = Cardinality(S) + 1
BY ThreadSets, FS_AddElement

LEMMA ThreadRemoved ==
  ASSUME NoSpill, NEW S \in SUBSET Threads, NEW t \in S
  PROVE  Cardinality(S \ {t}) = Cardinality(S) - 1
BY ThreadSets, FS_RemoveElement

LEMMA FieldsInRange ==
  ASSUME NEW r, NEW w, NEW n \in 0 .. CounterLimit - 1
  PROVE  /\ SetReaders([readers |-> r, writers |-> w], n) = [readers |-> n, writers |-> w]
         /\ SetWriters([readers |-> r, writers |-> w], n) = [readers |-> r, writers |-> n]
BY GeneralAssumption DEF SetReaders, SetWriters

------------------------------------------------------------------------------
LEMMA InitIInv == NoSpill /\ MonitorInit => IInv /\ WakeInv
<1> SUFFICES ASSUME NoSpill, MonitorInit PROVE IInv /\ WakeInv
  OBVIOUS
<1>1. Holders("read") = {} /\ Holders("write") = {}
  BY DEF MonitorInit, Holders
<1>2. InLoop("reader_lock") = {} /\ InLoop("writer_lock") = {}
  BY DEF MonitorInit, InLoop
<1>3. TypeOK
  BY GeneralAssumption DEF MonitorInit, TypeOK, Counter, Free, Phases, LockOps, UnlockOps
<1>4. CountersExact
  BY <1>1, <1>2, FS_EmptySet DEF MonitorInit, CountersExact, Free
<1>5. MutexOwner /\ Sleepers /\ CallsMatch /\ MutualExclusion
  BY GeneralAssumption
  DEF MonitorInit, MutexOwner, Sleepers, CallsMatch, MutualExclusion
<1>6. WakeInv
  BY <1>2 DEF MonitorInit, WakeInv, ReadersCovered, WriterWoken
<1> QED BY <1>3, <1>4, <1>5, <1>6 DEF IInv

(* The steps that only move a thread and the mutex.                         *)
LEMMA MovesKeepIInv ==
  ASSUME IInv, NEW t \in Threads,
         \/ \E o \in LockOps \cup UnlockOps : Call(t, o)
         \/ Enter(t) \/ EnterFails(t) \/ Leave(t) \/ Reacquire(t)
         \/ SpuriousWakeup(t) \/ WaitFails(t)
  PROVE  IInv'
<1> USE GeneralAssumption DEF IInv
<1>1. TypeOK'
  BY DEF TypeOK, Phases, LockOps, UnlockOps, Call, Enter, EnterFails, Leave,
         Reacquire, SpuriousWakeup, WaitFails, Goto
<1>2. MutexOwner'
  BY DEF TypeOK, MutexOwner, Sleepers, Call, Enter, EnterFails, Leave,
         Reacquire, SpuriousWakeup, WaitFails, Goto
<1>3. Sleepers'
  BY DEF TypeOK, Sleepers, Call, Enter, EnterFails, Leave,
         Reacquire, SpuriousWakeup, WaitFails, Goto
<1>4. CallsMatch'
  BY DEF TypeOK, CallsMatch, LockOps, UnlockOps, Call, Enter,
         EnterFails, Leave, Reacquire, SpuriousWakeup, WaitFails, Goto
<1>5. \A how : Holders(how)' = Holders(how)
  BY DEF Holders, Call, Enter, EnterFails, Leave, Reacquire, SpuriousWakeup,
         WaitFails
<1>6. \A o : InLoop(o)' = InLoop(o)
  BY DEF TypeOK, InLoop, Call, Enter, EnterFails, Leave, Reacquire,
         SpuriousWakeup, WaitFails, Goto
<1>7. active' = active /\ waiting' = waiting /\ held' = held
  BY DEF Call, Enter, EnterFails, Leave, Reacquire, SpuriousWakeup, WaitFails
<1>8. CountersExact'
  BY <1>5, <1>6, <1>7 DEF CountersExact
<1>9. MutualExclusion'
  BY <1>7 DEF MutualExclusion
<1> QED BY <1>1, <1>2, <1>3, <1>4, <1>8, <1>9

------------------------------------------------------------------------------
(* How the steps inside the mutex move threads between the counted sets.    *)
ActiveExact == active = [readers |-> Cardinality(Holders("read")),
                         writers |-> Cardinality(Holders("write"))]
WaitingExact == waiting = [readers |-> Cardinality(InLoop("reader_lock")),
                           writers |-> Cardinality(InLoop("writer_lock"))]

LEMMA ExactParts == CountersExact <=> ActiveExact /\ WaitingExact
BY DEF CountersExact, ActiveExact, WaitingExact

LEMMA ReaderEnters ==
  ASSUME NoSpill, IInv, NEW t \in Threads, held[t] = "none",
         active.writers = 0,
         active' = SetReaders(active, active.readers + 1), Hold(t, "read")
  PROVE  ActiveExact' /\ MutualExclusion'
<1> DEFINE R == Holders("read")
           W == Holders("write")
<1>1. R \in SUBSET Threads /\ W \in SUBSET Threads /\ t \notin R
  BY DEF Holders
<1>2. R' = R \cup {t} /\ W' = W
  BY DEF IInv, TypeOK, Holders, Hold
<1>3. Cardinality(R') = Cardinality(R) + 1 /\ Cardinality(R') \in 0 .. CounterLimit - 1
  BY <1>1, <1>2, ThreadAdded, ThreadSets
<1>4. active = [readers |-> Cardinality(R), writers |-> Cardinality(W)]
  BY ExactParts DEF IInv, ActiveExact
<1>5. active' = [readers |-> Cardinality(R'), writers |-> Cardinality(W)]
  <2>1. active.readers = Cardinality(R)
    BY <1>4
  <2> QED BY <2>1, <1>3, <1>4 DEF SetReaders
<1>6. W = {}
  BY <1>1, <1>4, ThreadSets
<1>7. MutualExclusion'
  BY <1>6 DEF MutualExclusion, Holders, Hold, IInv, TypeOK
<1> QED BY <1>2, <1>5, <1>7 DEF ActiveExact

LEMMA WriterEnters ==
  ASSUME NoSpill, IInv, NEW t \in Threads, active = Free,
         active' = SetWriters(active, 1), Hold(t, "write")
  PROVE  ActiveExact' /\ MutualExclusion'
<1> DEFINE R == Holders("read")
           W == Holders("write")
<1>1. active = [readers |-> Cardinality(R), writers |-> Cardinality(W)]
  BY ExactParts DEF IInv, ActiveExact
<1>2. R \in SUBSET Threads /\ W \in SUBSET Threads
  BY DEF Holders
<1>3. Cardinality(R) = 0 /\ Cardinality(W) = 0
  BY <1>1 DEF Free
<1>4. R = {} /\ W = {}
  BY <1>2, <1>3, ThreadSets
<1>5. \A u \in Threads : held[u] = "none"
  BY <1>4 DEF Holders, IInv, TypeOK
<1>6. R' = {} /\ W' = {t}
  BY <1>5 DEF Holders, Hold, IInv, TypeOK
<1>7. Cardinality(R') = 0 /\ Cardinality(W') = 1
  BY <1>6, FS_EmptySet, FS_Singleton
<1>8. active' = [readers |-> 0, writers |-> 1]
  BY GeneralAssumption DEF Free, SetWriters
<1>9. MutualExclusion'
  BY <1>5 DEF MutualExclusion, Hold, IInv, TypeOK
<1> QED BY <1>7, <1>8, <1>9 DEF ActiveExact

LEMMA ReaderLeaves ==
  ASSUME NoSpill, IInv, NEW t \in Threads, held[t] = "read",
         active' = SetReaders(active, active.readers - 1), Hold(t, "none")
  PROVE  ActiveExact' /\ MutualExclusion' /\ active.readers # 0
<1> DEFINE R == Holders("read")
           W == Holders("write")
<1>1. R \in SUBSET Threads /\ t \in R
  BY DEF Holders
<1>2. R' = R \ {t} /\ W' = W
  BY DEF IInv, TypeOK, Holders, Hold
<1>3. Cardinality(R') = Cardinality(R) - 1 /\ Cardinality(R') \in 0 .. CounterLimit - 1
  BY <1>1, <1>2, ThreadRemoved, ThreadSets
<1>4. active = [readers |-> Cardinality(R), writers |-> Cardinality(W)]
  BY ExactParts DEF IInv, ActiveExact
<1>5. active' = [readers |-> Cardinality(R'), writers |-> Cardinality(W)]
  <2>1. active.readers = Cardinality(R)
    BY <1>4
  <2> QED BY <2>1, <1>3, <1>4 DEF SetReaders
<1>6. active.readers # 0
  BY <1>1, <1>4, ThreadSets
<1>7. MutualExclusion'
  BY DEF MutualExclusion, Hold, IInv, TypeOK
<1> QED BY <1>2, <1>5, <1>6, <1>7 DEF ActiveExact

LEMMA WriterLeaves ==
  ASSUME NoSpill, IInv, NEW t \in Threads, held[t] = "write",
         active' = SetWriters(active, 0), Hold(t, "none")
  PROVE  ActiveExact' /\ MutualExclusion' /\ active' = Free /\ active.writers # 0
<1> DEFINE R == Holders("read")
           W == Holders("write")
<1>1. R = {} /\ W = {t} /\ R' = {} /\ W' = {}
  BY DEF IInv, TypeOK, MutualExclusion, Holders, Hold
<1>2. Cardinality(R) = 0 /\ Cardinality(R') = 0 /\ Cardinality(W') = 0
  BY <1>1, FS_EmptySet
<1>3. active = [readers |-> Cardinality(R), writers |-> Cardinality(W)]
  BY ExactParts DEF IInv, ActiveExact
<1>4. active' = [readers |-> 0, writers |-> 0]
  BY <1>2, <1>3, FieldsInRange, GeneralAssumption
<1>5. active.writers # 0
  BY <1>1, <1>3, FS_Singleton
<1>6. MutualExclusion'
  BY DEF MutualExclusion, Hold, IInv, TypeOK
<1> QED BY <1>2, <1>4, <1>5, <1>6 DEF ActiveExact, Free

LEMMA LoopsUnchanged ==
  ASSUME IInv, NEW t \in Threads, NEW phase, Goto(t, phase), op' = op,
         pc[t] \in {"asleep", "loop"} <=> phase \in {"asleep", "loop"},
         waiting' = waiting
  PROVE  WaitingExact' /\ InLoop("writer_lock")' = InLoop("writer_lock")
<1>1. \A o : InLoop(o)' = InLoop(o)
  BY DEF InLoop, Goto, IInv, TypeOK
<1> QED BY <1>1, ExactParts DEF WaitingExact, IInv

LEMMA WaiterJoins ==
  ASSUME NoSpill, IInv, NEW t \in Threads, pc[t] = "body", Goto(t, "asleep"), op' = op
  PROVE  /\ op[t] = "reader_lock" /\ waiting' = SetReaders(waiting, waiting.readers + 1)
              => WaitingExact'
         /\ op[t] = "writer_lock" /\ waiting' = SetWriters(waiting, waiting.writers + 1)
              => WaitingExact'
<1> DEFINE R == InLoop("reader_lock")
           W == InLoop("writer_lock")
<1>1. R \in SUBSET Threads /\ W \in SUBSET Threads /\ t \notin R /\ t \notin W
  BY DEF InLoop
<1>2. waiting = [readers |-> Cardinality(R), writers |-> Cardinality(W)]
  BY ExactParts DEF IInv, WaitingExact
<1>3. CASE op[t] = "reader_lock" /\ waiting' = SetReaders(waiting, waiting.readers + 1)
  <2>1. R' = R \cup {t} /\ W' = W
    BY <1>3 DEF InLoop, Goto, IInv, TypeOK
  <2>2. Cardinality(R') = Cardinality(R) + 1 /\ Cardinality(R') \in 0 .. CounterLimit - 1
    BY <1>1, <2>1, ThreadAdded, ThreadSets
  <2>3. waiting.readers = Cardinality(R)
    BY <1>2
  <2>4. waiting' = [readers |-> Cardinality(R'), writers |-> Cardinality(W)]
    BY <1>2, <1>3, <2>2, <2>3 DEF SetReaders
  <2> QED BY <2>1, <2>4, <1>3 DEF WaitingExact
<1>4. CASE op[t] = "writer_lock" /\ waiting' = SetWriters(waiting, waiting.writers + 1)
  <2>1. W' = W \cup {t} /\ R' = R
    BY <1>4 DEF InLoop, Goto, IInv, TypeOK
  <2>2. Cardinality(W') = Cardinality(W) + 1 /\ Cardinality(W') \in 0 .. CounterLimit - 1
    BY <1>1, <2>1, ThreadAdded, ThreadSets
  <2>3. waiting.writers = Cardinality(W)
    BY <1>2
  <2>4. waiting' = [readers |-> Cardinality(R), writers |-> Cardinality(W')]
    BY <1>2, <1>4, <2>2, <2>3 DEF SetWriters
  <2> QED BY <2>1, <2>4, <1>4 DEF WaitingExact
<1> QED BY <1>3, <1>4

LEMMA WaiterQuits ==
  ASSUME NoSpill, IInv, NEW t \in Threads, pc[t] = "loop", Goto(t, "leave"), op' = op
  PROVE  /\ op[t] = "reader_lock" /\ waiting' = SetReaders(waiting, waiting.readers - 1)
              => WaitingExact'
         /\ op[t] = "writer_lock" /\ waiting' = SetWriters(waiting, waiting.writers - 1)
              => WaitingExact'
<1> DEFINE R == InLoop("reader_lock")
           W == InLoop("writer_lock")
<1>1. R \in SUBSET Threads /\ W \in SUBSET Threads
  BY DEF InLoop
<1>2. waiting = [readers |-> Cardinality(R), writers |-> Cardinality(W)]
  BY ExactParts DEF IInv, WaitingExact
<1>3. CASE op[t] = "reader_lock" /\ waiting' = SetReaders(waiting, waiting.readers - 1)
  <2>1. R' = R \ {t} /\ W' = W /\ t \in R
    BY <1>3 DEF InLoop, Goto, IInv, TypeOK
  <2>2. Cardinality(R') = Cardinality(R) - 1 /\ Cardinality(R') \in 0 .. CounterLimit - 1
    BY <1>1, <2>1, ThreadRemoved, ThreadSets
  <2>3. waiting.readers = Cardinality(R)
    BY <1>2
  <2>4. waiting' = [readers |-> Cardinality(R'), writers |-> Cardinality(W)]
    BY <1>2, <1>3, <2>2, <2>3 DEF SetReaders
  <2> QED BY <2>1, <2>4, <1>3 DEF WaitingExact
<1>4. CASE op[t] = "writer_lock" /\ waiting' = SetWriters(waiting, waiting.writers - 1)
  <2>1. W' = W \ {t} /\ R' = R /\ t \in W
    BY <1>4 DEF InLoop, Goto, IInv, TypeOK
  <2>2. Cardinality(W') = Cardinality(W) - 1 /\ Cardinality(W') \in 0 .. CounterLimit - 1
    BY <1>1, <2>1, ThreadRemoved, ThreadSets
  <2>3. waiting.writers = Cardinality(W)
    BY <1>2
  <2>4. waiting' = [readers |-> Cardinality(R), writers |-> Cardinality(W')]
    BY <1>2, <1>4, <2>2, <2>3 DEF SetWriters
  <2> QED BY <2>1, <2>4, <1>4 DEF WaitingExact
<1> QED BY <1>3, <1>4

(* Exact counters are in range, so that exactness gives their types.        *)
LEMMA ExactIsTyped ==
  ASSUME NoSpill, ActiveExact', WaitingExact'
  PROVE  active' \in Counter /\ waiting' \in Counter
<1> DEFINE HR == Holders("read")'
           HW == Holders("write")'
           LR == InLoop("reader_lock")'
           LW == InLoop("writer_lock")'
<1>1. /\ HR \in SUBSET Threads /\ HW \in SUBSET Threads
      /\ LR \in SUBSET Threads /\ LW \in SUBSET Threads
  BY DEF Holders, InLoop
<1>2. /\ Cardinality(HR) \in 0 .. CounterLimit - 1
      /\ Cardinality(HW) \in 0 .. CounterLimit - 1
      /\ Cardinality(LR) \in 0 .. CounterLimit - 1
      /\ Cardinality(LW) \in 0 .. CounterLimit - 1
  BY <1>1, ThreadSets
<1>3. /\ active' = [readers |-> Cardinality(HR), writers |-> Cardinality(HW)]
      /\ waiting' = [readers |-> Cardinality(LR), writers |-> Cardinality(LW)]
  BY DEF ActiveExact, WaitingExact
<1> QED BY <1>2, <1>3 DEF Counter

(* The steps taken inside the mutex.                                        *)
Body(t) ==
  \/ ReaderLock(t) \/ ReaderLoop(t) \/ ReaderTrylock(t) \/ ReaderUnlock(t)
  \/ WriterLock(t) \/ WriterLoop(t) \/ WriterTrylock(t) \/ WriterUnlock(t)

LEMMA BodyControl ==
  ASSUME IInv, NEW t \in Threads, Body(t)
  PROVE  /\ mutex' \in Threads \cup {NoThread}
         /\ readCv' \in SUBSET Threads /\ writeCv' \in SUBSET Threads
         /\ pc' \in [Threads -> Phases]
         /\ op' = op /\ failed' = failed
         /\ held' \in [Threads -> {"none", "read", "write"}]
         /\ MutexOwner' /\ Sleepers' /\ CallsMatch'
<1> USE GeneralAssumption DEF IInv, TypeOK, Sleep, Goto, Hold
<1>1. CASE ReaderLock(t)
  BY <1>1 DEF ReaderLock, Phases, MutexOwner, Sleepers, CallsMatch
<1>2. CASE ReaderLoop(t)
  BY <1>2 DEF ReaderLoop, Phases, MutexOwner, Sleepers, CallsMatch
<1>3. CASE ReaderTrylock(t)
  BY <1>3 DEF ReaderTrylock, Phases, MutexOwner, Sleepers, CallsMatch
<1>4. CASE ReaderUnlock(t)
  BY <1>4 DEF ReaderUnlock, SignalWriter, Phases, MutexOwner, Sleepers, CallsMatch
<1>5. CASE WriterLock(t)
  BY <1>5 DEF WriterLock, Phases, MutexOwner, Sleepers, CallsMatch
<1>6. CASE WriterLoop(t)
  BY <1>6 DEF WriterLoop, Phases, MutexOwner, Sleepers, CallsMatch
<1>7. CASE WriterTrylock(t)
  BY <1>7 DEF WriterTrylock, Phases, MutexOwner, Sleepers, CallsMatch
<1>8. CASE WriterUnlock(t)
  BY <1>8 DEF WriterUnlock, SignalWriter, BroadcastReaders, Phases, MutexOwner,
              Sleepers, CallsMatch
<1> QED BY <1>1, <1>2, <1>3, <1>4, <1>5, <1>6, <1>7, <1>8 DEF Body

LEMMA HoldersUnchanged ==
  ASSUME IInv, held' = held, active' = active
  PROVE  ActiveExact' /\ MutualExclusion'
<1>1. \A how : Holders(how)' = Holders(how)
  BY DEF Holders
<1> QED BY <1>1, ExactParts DEF IInv, ActiveExact, MutualExclusion

(* A thread about to unlock holds the lock, so the early return of          *)
(* zrwlock_reader_unlock is never taken by a caller that follows the rules. *)
LEMMA ReaderUnlockEffect ==
  ASSUME NoSpill, IInv, NEW t \in Threads, ReaderUnlock(t)
  PROVE  /\ held[t] = "read" /\ active.readers # 0
         /\ active' = SetReaders(active, active.readers - 1)
<1>1. held[t] = "read"
  BY DEF ReaderUnlock, IInv, CallsMatch, LockOps
<1>2. t \in Holders("read") /\ Holders("read") \in SUBSET Threads
  BY <1>1 DEF Holders
<1>3. active.readers = Cardinality(Holders("read"))
  BY ExactParts DEF IInv, ActiveExact
<1>4. active.readers # 0
  BY <1>2, <1>3, ThreadSets
<1> QED BY <1>1, <1>4 DEF ReaderUnlock

LEMMA BodyCounts ==
  ASSUME NoSpill, IInv, NEW t \in Threads, Body(t)
  PROVE  ActiveExact' /\ WaitingExact' /\ MutualExclusion'
<1>1. CASE ReaderLock(t)
  <2>1. held[t] = "none" /\ pc[t] = "body" /\ op' = op
    BY <1>1, BodyControl DEF ReaderLock, IInv, CallsMatch, LockOps, Body
  <2>2. CASE active.writers # 0
    <3>1. /\ waiting' = SetReaders(waiting, waiting.readers + 1)
          /\ Goto(t, "asleep") /\ held' = held /\ active' = active
      BY <1>1, <2>2 DEF ReaderLock, Sleep
    <3> QED BY <1>1, <2>1, <3>1, WaiterJoins, HoldersUnchanged DEF ReaderLock
  <2>3. CASE active.writers = 0
    <3>1. /\ active' = SetReaders(active, active.readers + 1) /\ Hold(t, "read")
          /\ Goto(t, "leave") /\ waiting' = waiting
      BY <1>1, <2>3 DEF ReaderLock
    <3> QED BY <2>1, <2>3, <3>1, ReaderEnters, LoopsUnchanged
  <2> QED BY <2>2, <2>3
<1>2. CASE ReaderLoop(t)
  <2>1. held[t] = "none" /\ pc[t] = "loop" /\ op[t] = "reader_lock" /\ op' = op
    BY <1>2, BodyControl DEF ReaderLoop, IInv, CallsMatch, LockOps, Body
  <2>2. CASE t \notin failed /\ active.writers # 0
    <3>1. /\ waiting' = waiting /\ Goto(t, "asleep")
          /\ held' = held /\ active' = active
      BY <1>2, <2>2 DEF ReaderLoop, Sleep
    <3> QED BY <2>1, <3>1, LoopsUnchanged, HoldersUnchanged
  <2>3. CASE t \in failed \/ active.writers = 0
    <3>1. /\ waiting' = SetReaders(waiting, waiting.readers - 1)
          /\ Goto(t, "leave")
          /\ \/ held' = held /\ active' = active
             \/ /\ active.writers = 0 /\ Hold(t, "read")
                /\ active' = SetReaders(active, active.readers + 1)
      BY <1>2, <2>3 DEF ReaderLoop
    <3> QED BY <2>1, <3>1, WaiterQuits, HoldersUnchanged, ReaderEnters
  <2> QED BY <2>2, <2>3
<1>3. CASE ReaderTrylock(t)
  <2>1. /\ held[t] = "none" /\ pc[t] = "body" /\ op' = op
        /\ Goto(t, "leave") /\ waiting' = waiting
    BY <1>3 DEF ReaderTrylock, IInv, CallsMatch, LockOps
  <2>2. \/ held' = held /\ active' = active
        \/ /\ active.writers = 0 /\ Hold(t, "read")
           /\ active' = SetReaders(active, active.readers + 1)
    BY <1>3 DEF ReaderTrylock
  <2> QED BY <2>1, <2>2, LoopsUnchanged, HoldersUnchanged, ReaderEnters
<1>4. CASE ReaderUnlock(t)
  <2>1. /\ pc[t] = "body" /\ op' = op /\ Goto(t, "leave")
        /\ waiting' = waiting /\ Hold(t, "none")
    BY <1>4 DEF ReaderUnlock
  <2> QED BY <1>4, <2>1, LoopsUnchanged, ReaderUnlockEffect, ReaderLeaves
<1>5. CASE WriterLock(t)
  <2>1. pc[t] = "body" /\ op[t] = "writer_lock" /\ op' = op
    BY <1>5, BodyControl DEF WriterLock, Body
  <2>2. CASE active # Free
    <3>1. /\ waiting' = SetWriters(waiting, waiting.writers + 1)
          /\ Goto(t, "asleep") /\ held' = held /\ active' = active
      BY <1>5, <2>2 DEF WriterLock, Sleep
    <3> QED BY <2>1, <3>1, WaiterJoins, HoldersUnchanged
  <2>3. CASE active = Free
    <3>1. /\ active' = SetWriters(active, 1) /\ Hold(t, "write")
          /\ Goto(t, "leave") /\ waiting' = waiting
      BY <1>5, <2>3 DEF WriterLock
    <3> QED BY <2>1, <2>3, <3>1, WriterEnters, LoopsUnchanged
  <2> QED BY <2>2, <2>3
<1>6. CASE WriterLoop(t)
  <2>1. pc[t] = "loop" /\ op[t] = "writer_lock" /\ op' = op
    BY <1>6, BodyControl DEF WriterLoop, Body
  <2>2. CASE t \notin failed /\ active # Free
    <3>1. /\ waiting' = waiting /\ Goto(t, "asleep")
          /\ held' = held /\ active' = active
      BY <1>6, <2>2 DEF WriterLoop, Sleep
    <3> QED BY <2>1, <3>1, LoopsUnchanged, HoldersUnchanged
  <2>3. CASE t \in failed \/ active = Free
    <3>1. /\ waiting' = SetWriters(waiting, waiting.writers - 1)
          /\ Goto(t, "leave")
          /\ \/ held' = held /\ active' = active
             \/ active = Free /\ Hold(t, "write") /\ active' = SetWriters(active, 1)
      BY <1>6, <2>3 DEF WriterLoop
    <3> QED BY <2>1, <3>1, WaiterQuits, HoldersUnchanged, WriterEnters
  <2> QED BY <2>2, <2>3
<1>7. CASE WriterTrylock(t)
  <2>1. pc[t] = "body" /\ op' = op /\ Goto(t, "leave") /\ waiting' = waiting
    BY <1>7 DEF WriterTrylock
  <2>2. \/ held' = held /\ active' = active
        \/ active = Free /\ Hold(t, "write") /\ active' = SetWriters(active, 1)
    BY <1>7 DEF WriterTrylock
  <2> QED BY <2>1, <2>2, LoopsUnchanged, HoldersUnchanged, WriterEnters
<1>8. CASE WriterUnlock(t)
  <2>1. /\ pc[t] = "body" /\ op' = op /\ Goto(t, "leave") /\ waiting' = waiting
        /\ Hold(t, "none") /\ active' = SetWriters(active, 0)
    BY <1>8 DEF WriterUnlock
  <2>2. held[t] = "write"
    BY <1>8 DEF WriterUnlock, IInv, CallsMatch, LockOps
  <2> QED BY <2>1, <2>2, LoopsUnchanged, WriterLeaves
<1> QED BY <1>1, <1>2, <1>3, <1>4, <1>5, <1>6, <1>7, <1>8 DEF Body

LEMMA NextKeepsIInv == NoSpill /\ IInv /\ [MonitorNext]_monitorVars => IInv'
<1> SUFFICES ASSUME NoSpill, IInv, [MonitorNext]_monitorVars PROVE IInv'
  OBVIOUS
<1>1. ASSUME NEW t \in Threads, Body(t) PROVE IInv'
  <2>1. CountersExact'
    BY <1>1, BodyCounts DEF ActiveExact, WaitingExact, CountersExact
  <2>2. TypeOK'
    BY <1>1, BodyControl, BodyCounts, ExactIsTyped DEF TypeOK, IInv
  <2> QED BY <1>1, <2>1, <2>2, BodyControl, BodyCounts DEF IInv
<1>2. CASE UNCHANGED monitorVars
  BY <1>2 DEF monitorVars, IInv, TypeOK, MutexOwner, Sleepers, CallsMatch, CountersExact,
              MutualExclusion, Holders, InLoop
<1> QED BY <1>1, <1>2, MovesKeepIInv DEF MonitorNext, Regular, Step, Body

(* The lock's counters never drift and its state keeps its type, however    *)
(* calls, spurious wake-ups and failing primitives interleave, provided     *)
(* there are fewer threads than a counter field can count.                  *)
THEOREM Typed == ASSUME NoSpill PROVE MonitorSpec => []TypeOK
<1>1. MonitorInit => IInv
  BY InitIInv
<1>2. IInv /\ [MonitorNext]_monitorVars => IInv'
  BY NextKeepsIInv
<1>3. IInv => TypeOK
  BY DEF IInv
<1> QED BY <1>1, <1>2, <1>3, PTL DEF MonitorSpec

(* CountersExact holds for any number of threads below 2^15: active_threads *)
(* counts the holders and waiting_threads the threads in the wait loops.    *)
THEOREM CountersNeverDrift == ASSUME NoSpill PROVE MonitorSpec => []CountersExact
<1>1. MonitorInit => IInv
  BY InitIInv
<1>2. IInv /\ [MonitorNext]_monitorVars => IInv'
  BY NextKeepsIInv
<1>3. IInv => CountersExact
  BY DEF IInv
<1> QED BY <1>1, <1>2, <1>3, PTL DEF MonitorSpec

(* A writer that got the lock is alone, whatever fails and whoever races.   *)
THEOREM WriterAlone == ASSUME NoSpill PROVE MonitorSpec => []MutualExclusion
<1>1. MonitorInit => IInv
  BY InitIInv
<1>2. IInv /\ [MonitorNext]_monitorVars => IInv'
  BY NextKeepsIInv
<1>3. IInv => MutualExclusion
  BY DEF IInv
<1> QED BY <1>1, <1>2, <1>3, PTL DEF MonitorSpec

------------------------------------------------------------------------------
(* Wake-ups.  From here on no primitive reports a failure.                  *)

(* Who leaves the writers' variable, or joins it, in a step.                *)
LEMMA MovesKeepWakeInv ==
  ASSUME Faults = {}, IInv, WakeInv, NEW t \in Threads,
         \/ \E o \in LockOps \cup UnlockOps : Call(t, o)
         \/ Enter(t) \/ EnterFails(t) \/ Leave(t) \/ Reacquire(t)
         \/ SpuriousWakeup(t) \/ WaitFails(t)
  PROVE  WakeInv'
<1>1. \A o : InLoop(o)' = InLoop(o)
  BY DEF IInv, TypeOK, InLoop, Call, Enter, EnterFails, Leave, Reacquire,
         SpuriousWakeup, WaitFails, Goto
<1>2. /\ active' = active
      /\ readCv' \subseteq readCv /\ writeCv' \subseteq writeCv
  BY DEF Call, Enter, EnterFails, Leave, Reacquire, SpuriousWakeup, WaitFails
<1>3. Woken("writer_lock") \subseteq Woken("writer_lock")'
  BY <1>1, <1>2 DEF Woken
<1>4. failed' = {}
  BY DEF WakeInv, Call, Enter, EnterFails, Leave, Reacquire, SpuriousWakeup, WaitFails
<1> QED BY <1>1, <1>2, <1>3, <1>4 DEF WakeInv, ReadersCovered, WriterWoken

(* A step that leaves the lock taken only has to keep the sleeping readers  *)
(* covered.                                                                 *)
LEMMA AcquireKeepsWakeInv ==
  ASSUME NoSpill, IInv, WakeInv, NEW t \in Threads, op' = op,
         readCv' = readCv, failed' = failed,
         \/ /\ active' = SetReaders(active, active.readers + 1) /\ active.writers = 0
            /\ Hold(t, "read") /\ held[t] = "none"
            /\ InLoop("writer_lock")' = InLoop("writer_lock")
         \/ /\ active' = SetWriters(active, 1) /\ active = Free
            /\ Hold(t, "write")
  PROVE  WakeInv'
<1>1. ActiveExact'
  BY ReaderEnters, WriterEnters
<1>2. t \in Holders("read")' \cup Holders("write")'
  BY DEF Holders, Hold, IInv, TypeOK
<1>3. /\ Holders("read")' \in SUBSET Threads
      /\ Holders("write")' \in SUBSET Threads
  BY DEF Holders
<1>4. /\ Cardinality(Holders("read")') = 0 <=> Holders("read")' = {}
      /\ Cardinality(Holders("write")') = 0 <=> Holders("write")' = {}
  BY <1>3, ThreadSets
<1>5. active' # Free
  BY <1>1, <1>2, <1>4 DEF ActiveExact, Free
<1>6. ReadersCovered'
  <2>1. CASE Hold(t, "read")
    BY <2>1, <1>2 DEF WakeInv, ReadersCovered, Hold, IInv, TypeOK
  <2>2. CASE Hold(t, "write")
    <3>1. t \in Holders("write")'
      BY <2>2 DEF Holders, Hold, IInv, TypeOK
    <3>2. active'.writers # 0
      BY <3>1, <1>1, <1>4 DEF ActiveExact
    <3> QED BY <3>2 DEF ReadersCovered
  <2> QED BY <2>1, <2>2
<1> QED BY <1>5, <1>6 DEF WakeInv, WriterWoken

(* A signal leaves a woken writer behind if any writer waits.               *)
LEMMA SignalWakes ==
  ASSUME Faults = {}, IInv, Sleepers', SignalWriter, op' = op,
         InLoop("writer_lock")' = InLoop("writer_lock"),
         InLoop("writer_lock") # {}
  PROVE  Woken("writer_lock")' # {}
<1>1. PICK w \in InLoop("writer_lock")' : TRUE
  OBVIOUS
<1>2. \A u \in InLoop("writer_lock")' : u \notin readCv'
  BY DEF InLoop, Sleepers
<1>3. CASE \E u \in writeCv : writeCv' = writeCv \ {u}
  <2>1. PICK u \in writeCv : writeCv' = writeCv \ {u}
    BY <1>3
  <2>2. u \in InLoop("writer_lock")
    BY DEF InLoop, IInv, Sleepers, TypeOK
  <2> QED BY <1>2, <2>1, <2>2 DEF Woken
<1>4. CASE writeCv' = {}
  BY <1>1, <1>2, <1>4 DEF Woken
<1> QED BY <1>3, <1>4 DEF SignalWriter

LEMMA WaitingSets ==
  ASSUME NoSpill, IInv
  PROVE  /\ waiting.writers = 0 <=> InLoop("writer_lock") = {}
         /\ waiting.readers = 0 <=> InLoop("reader_lock") = {}
<1>1. /\ InLoop("writer_lock") \in SUBSET Threads
      /\ InLoop("reader_lock") \in SUBSET Threads
  BY DEF InLoop
<1>2. /\ waiting.writers = Cardinality(InLoop("writer_lock"))
      /\ waiting.readers = Cardinality(InLoop("reader_lock"))
  BY ExactParts DEF IInv, WaitingExact
<1> QED BY <1>1, <1>2, ThreadSets

LEMMA BodyKeepsWakeInv ==
  ASSUME NoSpill, Faults = {}, IInv, WakeInv, NEW t \in Threads, Body(t)
  PROVE  WakeInv'
<1>0. op' = op /\ failed' = {} /\ Sleepers'
  BY BodyControl DEF WakeInv
<1>1. CASE ReaderLock(t)
  <2>1. CASE active.writers # 0
    BY <1>0, <1>1, <2>1 DEF ReaderLock, Sleep, WakeInv, ReadersCovered, WriterWoken, Free
  <2>2. CASE active.writers = 0
    <3>1. InLoop("writer_lock")' = InLoop("writer_lock")
      BY <1>1, <2>2, LoopsUnchanged DEF ReaderLock
    <3>2. held[t] = "none"
      BY <1>1 DEF ReaderLock, IInv, CallsMatch
    <3>3. /\ active' = SetReaders(active, active.readers + 1) /\ Hold(t, "read")
          /\ readCv' = readCv /\ failed' = failed
      BY <1>1, <2>2 DEF ReaderLock
    <3> QED BY <1>0, <2>2, <3>1, <3>2, <3>3, AcquireKeepsWakeInv
  <2> QED BY <2>1, <2>2
<1>2. CASE ReaderLoop(t)
  <2>1. CASE active.writers # 0
    BY <1>0, <1>2, <2>1 DEF ReaderLoop, Sleep, WakeInv, ReadersCovered, WriterWoken, Free
  <2>2. CASE active.writers = 0
    <3>1. InLoop("writer_lock")' = InLoop("writer_lock")
      BY <1>2, <2>2 DEF ReaderLoop, InLoop, Goto, IInv, TypeOK
    <3>2. held[t] = "none"
      BY <1>2 DEF ReaderLoop, IInv, CallsMatch
    <3>3. /\ active' = SetReaders(active, active.readers + 1) /\ Hold(t, "read")
          /\ readCv' = readCv /\ failed' = failed
      BY <1>2, <2>2 DEF ReaderLoop, WakeInv
    <3> QED BY <1>0, <2>2, <3>1, <3>2, <3>3, AcquireKeepsWakeInv
  <2> QED BY <2>1, <2>2
<1>3. CASE ReaderTrylock(t)
  <2>1. InLoop("writer_lock")' = InLoop("writer_lock")
    BY <1>3, LoopsUnchanged DEF ReaderTrylock
  <2>2. held[t] = "none"
    BY <1>3 DEF ReaderTrylock, IInv, CallsMatch, LockOps
  <2>3. CASE active.writers # 0
    BY <1>0, <1>3, <2>1, <2>3
    DEF ReaderTrylock, WakeInv, ReadersCovered, WriterWoken, Free
  <2>4. CASE active.writers = 0
    <3>1. /\ active' = SetReaders(active, active.readers + 1) /\ Hold(t, "read")
          /\ readCv' = readCv /\ failed' = failed
      BY <1>3, <2>4 DEF ReaderTrylock
    <3> QED BY <1>0, <2>1, <2>2, <2>4, <3>1, AcquireKeepsWakeInv
  <2> QED BY <2>3, <2>4
<1>4. CASE ReaderUnlock(t)
  <2>1. InLoop("writer_lock")' = InLoop("writer_lock")
    BY <1>4, LoopsUnchanged DEF ReaderUnlock
  <2>2. /\ active.readers # 0
        /\ active' = SetReaders(active, active.readers - 1)
        /\ readCv' = readCv
        /\ active.readers = 1 /\ waiting.writers # 0 => SignalWriter
    BY <1>4, ReaderUnlockEffect DEF ReaderUnlock, SignalWriter
  <2>3. active.readers \in 0 .. CounterLimit - 1
    BY DEF IInv, TypeOK, Counter
  <2>4. active' = [active EXCEPT !.readers = active.readers - 1]
    BY <2>2, <2>3, GeneralAssumption DEF SetReaders
  <2>5. active'.writers = active.writers /\ active'.readers = active.readers - 1
    BY <2>4 DEF IInv, TypeOK, Counter
  <2>6. ReadersCovered'
    BY <2>1, <2>2, <2>5 DEF WakeInv, ReadersCovered
  <2>7. ASSUME active' = Free, InLoop("writer_lock") # {}
        PROVE  Woken("writer_lock")' # {}
    <3>1. active.readers = 1
      BY <2>3, <2>5, <2>7 DEF Free
    <3> QED BY <1>0, <2>1, <2>2, <2>7, <3>1, WaitingSets, SignalWakes
  <2> QED BY <1>0, <2>1, <2>6, <2>7 DEF WakeInv, WriterWoken
<1>5. CASE WriterLock(t)
  <2>1. CASE active # Free
    <3>1. InLoop("writer_lock") \subseteq InLoop("writer_lock")'
      BY <1>5, <2>1 DEF WriterLock, Sleep, InLoop, Goto, IInv, TypeOK
    <3> QED BY <1>0, <1>5, <2>1, <3>1
            DEF WriterLock, Sleep, WakeInv, ReadersCovered, WriterWoken
  <2>2. CASE active = Free
    <3>1. /\ active' = SetWriters(active, 1) /\ Hold(t, "write")
          /\ readCv' = readCv /\ failed' = failed
      BY <1>5, <2>2 DEF WriterLock
    <3> QED BY <1>0, <2>2, <3>1, AcquireKeepsWakeInv
  <2> QED BY <2>1, <2>2
<1>6. CASE WriterLoop(t)
  <2>1. CASE active # Free
    <3>1. InLoop("writer_lock")' = InLoop("writer_lock")
      BY <1>6, <2>1 DEF WriterLoop, WakeInv, Sleep, InLoop, Goto, IInv, TypeOK
    <3> QED BY <1>0, <1>6, <2>1, <3>1
            DEF WriterLoop, Sleep, WakeInv, ReadersCovered, WriterWoken
  <2>2. CASE active = Free
    <3>1. /\ active' = SetWriters(active, 1) /\ Hold(t, "write")
          /\ readCv' = readCv /\ failed' = failed
      BY <1>6, <2>2 DEF WriterLoop, WakeInv
    <3> QED BY <1>0, <2>2, <3>1, AcquireKeepsWakeInv
  <2> QED BY <2>1, <2>2
<1>7. CASE WriterTrylock(t)
  <2>1. CASE active # Free
    <3>1. InLoop("writer_lock")' = InLoop("writer_lock")
      BY <1>7, LoopsUnchanged DEF WriterTrylock
    <3> QED BY <1>0, <1>7, <2>1, <3>1
            DEF WriterTrylock, WakeInv, ReadersCovered, WriterWoken
  <2>2. CASE active = Free
    <3>1. /\ active' = SetWriters(active, 1) /\ Hold(t, "write")
          /\ readCv' = readCv /\ failed' = failed
      BY <1>7, <2>2 DEF WriterTrylock
    <3> QED BY <1>0, <2>2, <3>1, AcquireKeepsWakeInv
  <2> QED BY <2>1, <2>2
<1>8. CASE WriterUnlock(t)
  <2>1. InLoop("writer_lock")' = InLoop("writer_lock")
    BY <1>8, LoopsUnchanged DEF WriterUnlock
  <2>2. CASE waiting.writers # 0
    <3>1. InLoop("writer_lock") # {} /\ SignalWriter
      BY <1>8, <2>2, WaitingSets DEF WriterUnlock
    <3>2. Woken("writer_lock")' # {}
      BY <1>0, <2>1, <3>1, SignalWakes
    <3> QED BY <1>0, <2>1, <3>1, <3>2 DEF WakeInv, ReadersCovered, WriterWoken
  <2>3. CASE waiting.writers = 0
    <3>1. InLoop("writer_lock")' = {}
      BY <2>1, <2>3, WaitingSets
    <3>2. readCv' = {}
      <4>1. CASE waiting.readers # 0
        BY <1>8, <2>3, <4>1 DEF WriterUnlock, BroadcastReaders
      <4>2. CASE waiting.readers = 0
        <5>1. readCv = {}
          BY <4>2, WaitingSets DEF InLoop, IInv, TypeOK, Sleepers
        <5> QED BY <1>8, <2>3, <4>2, <5>1 DEF WriterUnlock
      <4> QED BY <4>1, <4>2
    <3> QED BY <1>0, <3>1, <3>2 DEF WakeInv, ReadersCovered, WriterWoken
  <2> QED BY <2>2, <2>3
<1> QED BY <1>1, <1>2, <1>3, <1>4, <1>5, <1>6, <1>7, <1>8 DEF Body

(* While no primitive fails, no wake-up is lost: a free lock with a sleeper *)
(* always has a thread that was woken and will test the lock again.         *)
THEOREM WakeupsNeverLost ==
  ASSUME NoSpill, Faults = {} PROVE MonitorSpec => []NoLostWakeup
<1>1. MonitorInit => IInv /\ WakeInv
  BY InitIInv
<1>2. IInv /\ WakeInv /\ [MonitorNext]_monitorVars => (IInv /\ WakeInv)'
  <2> SUFFICES ASSUME IInv, WakeInv, [MonitorNext]_monitorVars PROVE WakeInv'
    BY NextKeepsIInv
  <2>1. CASE UNCHANGED monitorVars
    BY <2>1 DEF monitorVars, WakeInv, ReadersCovered, WriterWoken, InLoop, Woken
  <2>2. ASSUME NEW t \in Threads, Body(t) PROVE WakeInv'
    BY <2>2, BodyKeepsWakeInv
  <2> QED BY <2>1, <2>2, MovesKeepWakeInv DEF MonitorNext, Regular, Step, Body
<1>3. IInv /\ WakeInv => NoLostWakeup
  <2> SUFFICES ASSUME IInv, WakeInv, active = Free, readCv \cup writeCv # {}
               PROVE  Woken("writer_lock") # {}
    BY DEF NoLostWakeup
  <2>1. InLoop("writer_lock") # {}
    <3>1. CASE readCv # {}
      BY <3>1 DEF WakeInv, ReadersCovered, Free
    <3>2. CASE writeCv # {}
      BY <3>2 DEF InLoop, IInv, TypeOK, Sleepers
    <3> QED BY <3>1, <3>2
  <2> QED BY <2>1 DEF WakeInv, WriterWoken
<1> QED BY <1>1, <1>2, <1>3, PTL DEF MonitorSpec

------------------------------------------------------------------------------
(* Every step of the monitor is a step of the abstract read-write lock or   *)
(* leaves its only variable alone.                                          *)
LEMMA StepsImplement ==
  ASSUME NoSpill, IInv, [MonitorNext]_monitorVars PROVE [Abstract!Next]_held
<1> USE DEF IInv, TypeOK
<1>1. active = [readers |-> Cardinality(Holders("read")),
                writers |-> Cardinality(Holders("write"))]
  BY DEF CountersExact
<1>2. Holders("read") \in SUBSET Threads /\ Holders("write") \in SUBSET Threads
  BY DEF Holders
<1>3. active.writers = 0 => \A u \in Threads : held[u] # "write"
  BY <1>1, <1>2, ThreadSets DEF Holders
<1>4. active = Free => \A u \in Threads : held[u] = "none"
  <2> SUFFICES ASSUME active = Free PROVE \A u \in Threads : held[u] = "none"
    OBVIOUS
  <2>1. Holders("read") = {} /\ Holders("write") = {}
    BY <1>1, <1>2, ThreadSets DEF Free
  <2> QED BY <2>1 DEF Holders
<1>5. ASSUME NEW t \in Threads, Body(t), held' # held PROVE Abstract!Next
  <2>1. CASE ReaderLock(t) \/ ReaderLoop(t) \/ ReaderTrylock(t)
    <3>1. active.writers = 0 /\ Hold(t, "read") /\ held[t] = "none"
      BY <1>5, <2>1 DEF ReaderLock, ReaderLoop, ReaderTrylock, Sleep, CallsMatch, LockOps
    <3> QED BY <1>3, <3>1 DEF Hold, Abstract!Next, Abstract!AcquireRead
  <2>2. CASE WriterLock(t) \/ WriterLoop(t) \/ WriterTrylock(t)
    <3>1. active = Free /\ Hold(t, "write")
      BY <1>5, <2>2 DEF WriterLock, WriterLoop, WriterTrylock, Sleep
    <3> QED BY <1>4, <3>1 DEF Hold, Abstract!Next, Abstract!AcquireWrite
  <2>3. CASE ReaderUnlock(t) \/ WriterUnlock(t)
    <3>1. held[t] # "none" /\ Hold(t, "none")
      BY <2>3 DEF ReaderUnlock, WriterUnlock, CallsMatch, LockOps
    <3> QED BY <3>1 DEF Hold, Abstract!Next, Abstract!Release
  <2> QED BY <1>5, <2>1, <2>2, <2>3 DEF Body
<1>6. ASSUME NEW t \in Threads,
             \/ \E o \in LockOps \cup UnlockOps : Call(t, o)
             \/ Enter(t) \/ EnterFails(t) \/ Leave(t) \/ Reacquire(t)
             \/ SpuriousWakeup(t) \/ WaitFails(t)
      PROVE  held' = held
  BY <1>6 DEF Call, Enter, EnterFails, Leave, Reacquire, SpuriousWakeup, WaitFails
<1>7. CASE UNCHANGED monitorVars
  BY <1>7 DEF monitorVars
<1> QED BY <1>5, <1>6, <1>7 DEF MonitorNext, Regular, Step, Body

(* The monitor implements the abstract read-write lock for every set of     *)
(* threads below the range of its counters, failing primitives included.    *)
THEOREM MonitorImplementsRWLock == ASSUME NoSpill PROVE MonitorSpec => ImplementsRWLock
<1>1. MonitorInit => IInv /\ Abstract!Init
  BY InitIInv DEF MonitorInit, Abstract!Init
<1>2. IInv /\ [MonitorNext]_monitorVars => IInv'
  BY NextKeepsIInv
<1>3. IInv /\ [MonitorNext]_monitorVars => [Abstract!Next]_held
  BY StepsImplement
<1> QED BY <1>1, <1>2, <1>3, PTL DEF MonitorSpec, ImplementsRWLock, Abstract!Spec

------------------------------------------------------------------------------
(* The locks of the systems.                                                *)

Word == [readers : Int, waiting : Int, writer : BOOLEAN]
Starts == {"start_read", "start_read_try", "start_write", "start_write_try"}
Ends == {"end_read", "end_write"}
NativeLocks == {"posix", "solaris", "vista"}
XPSteps == {"load", "take", "park", "asleep", "reload", "unpark", "set", "give"}

------------------------------------------------------------------------------
(* The inductive invariant.                                                 *)

LockTyped ==
  /\ rsys \in NativeLocks \cup {"xp"}
  /\ word \in Word /\ event \in BOOLEAN
  /\ rpc \in [LockThreads -> {"idle"} \cup NativeLocks \cup XPSteps]
  /\ rop \in [LockThreads -> Starts \cup Ends]
  /\ seen \in [LockThreads -> Word]
  /\ rheld \in [LockThreads -> {"none", "read", "write"}]

(* A thread inside a call is inside one of its system, and holds what the   *)
(* call takes for granted.                                                  *)
CallsFit ==
  \A t \in LockThreads :
    /\ rpc[t] \in XPSteps => rsys = "xp"
    /\ rpc[t] \in NativeLocks => rsys # "xp"
    /\ rpc[t] # "idle" =>
         \/ rop[t] \in Starts /\ rheld[t] = "none"
         \/ rop[t] = "end_read" /\ rheld[t] = "read"
         \/ rop[t] = "end_write" /\ rheld[t] = "write"

(* What a thread is about to do follows from the word it read.              *)
DecidedOnSeen ==
  \A t \in LockThreads :
    /\ rpc[t] = "take" => /\ rop[t] \in Starts
                          /\ IF Reads(rop[t]) THEN ~IsWriter(seen[t]) ELSE IsClear(seen[t])
    /\ rpc[t] \in {"park", "asleep", "reload", "unpark"} => rop[t] \in Starts \ {"start_read_try", "start_write_try"}
    /\ rpc[t] \in {"give", "set"} => rop[t] \in Ends

WritersAlone ==
  \A t, u \in LockThreads : rheld[t] = "write" /\ t # u => rheld[u] = "none"

LockIInv == LockTyped /\ CallsFit /\ DecidedOnSeen /\ WordExact /\ WritersAlone

------------------------------------------------------------------------------
(* Facts about sets of threads.                                             *)

LEMMA LockSets ==
  ASSUME NEW S \in SUBSET LockThreads
  PROVE  /\ IsFiniteSet(S) /\ Cardinality(S) \in Nat
         /\ Cardinality(S) <= Cardinality(LockThreads)
         /\ Cardinality(S) = 0 <=> S = {}
         /\ \A t \in LockThreads \ S : Cardinality(S \cup {t}) = Cardinality(S) + 1
         /\ \A t \in S : Cardinality(S \ {t}) = Cardinality(S) - 1
<1>1. IsFiniteSet(S) /\ Cardinality(S) <= Cardinality(LockThreads)
  BY FS_Subset, LockAssumption
<1> QED BY <1>1, FS_CardinalityType, FS_EmptySet, FS_AddElement, FS_RemoveElement

LEMMA CountsTyped ==
  /\ \A how : /\ LockHolders(how) \in SUBSET LockThreads
              /\ Cardinality(LockHolders(how)) \in Nat
              /\ Cardinality(LockHolders(how)) = 0 <=> LockHolders(how) = {}
  /\ Parked \in SUBSET LockThreads /\ Cardinality(Parked) \in Nat
<1>1. /\ \A how : LockHolders(how) \in SUBSET LockThreads
      /\ Parked \in SUBSET LockThreads
  BY DEF LockHolders, Parked
<1> QED BY <1>1, LockSets

LEMMA ClearTyped == Clear \in Word
BY DEF Clear, Word

------------------------------------------------------------------------------
LEMMA InitLockIInv == LockInit => LockIInv
<1> SUFFICES ASSUME LockInit PROVE LockIInv
  OBVIOUS
<1>1. LockHolders("read") = {} /\ LockHolders("write") = {} /\ Parked = {}
  BY DEF LockInit, LockHolders, Parked
<1>2. LockTyped
  <2>1. rsys \in NativeLocks \cup {"xp"}
    BY LockAssumption DEF LockInit, NativeLocks
  <2>2. event \in BOOLEAN
    BY DEF LockInit
  <2> QED BY <2>1, <2>2, ClearTyped DEF LockInit, LockTyped, Starts, Ends
<1>3. WordExact
  BY <1>1, FS_EmptySet DEF LockInit, WordExact, Clear
<1>4. CallsFit /\ DecidedOnSeen /\ WritersAlone
  BY DEF LockInit, CallsFit, DecidedOnSeen, WritersAlone, XPSteps, NativeLocks
<1> QED BY <1>2, <1>3, <1>4 DEF LockIInv

(* Steps that leave the word and the holders alone.                         *)
Moves(t) ==
  \/ \E o \in Starts \cup Ends : StartCall(t, o)
  \/ Load(t) \/ Awake(t) \/ Reload(t) \/ SetEvent(t) \/ ExchangeFails(t)

LEMMA MovesKeepLockIInv ==
  ASSUME LockIInv, NEW t \in LockThreads, Moves(t)
  PROVE  LockIInv' /\ rheld' = rheld
<1> USE DEF LockIInv
<1>1. rheld' = rheld /\ word' = word /\ rsys' = rsys
  BY DEF Moves, StartCall, Load, Awake, Reload, SetEvent, ExchangeFails
<1>2. LockTyped'
  <2>1. rpc' \in [LockThreads -> {"idle"} \cup NativeLocks \cup XPSteps]
    BY DEF LockTyped, NativeLocks, XPSteps, LockStep, Moves, StartCall, Load, Awake,
           Reload, SetEvent, ExchangeFails
  <2>2. rop' \in [LockThreads -> Starts \cup Ends]
    BY DEF LockTyped, Moves, StartCall, Load, Awake, Reload, SetEvent, ExchangeFails
  <2>3. seen' \in [LockThreads -> Word]
    BY ClearTyped DEF LockTyped, Forget, Moves, StartCall, Load, Awake, Reload,
                      SetEvent, ExchangeFails
  <2>4. event' \in BOOLEAN
    BY DEF LockTyped, Moves, StartCall, Load, Awake, Reload, SetEvent, ExchangeFails
  <2> QED BY <1>1, <2>1, <2>2, <2>3, <2>4 DEF LockTyped
<1>3. CallsFit'
  <2>1. CASE \E o \in Starts \cup Ends : StartCall(t, o)
    BY <2>1 DEF LockTyped, CallsFit, StartCall, LockStep, Starts, Ends, NativeLocks, XPSteps
  <2>2. CASE Load(t) \/ Awake(t) \/ Reload(t) \/ SetEvent(t) \/ ExchangeFails(t)
    <3>1. rop' = rop /\ rpc[t] \in XPSteps /\ rpc'[t] \in XPSteps \cup {"idle"}
      BY <2>2 DEF LockTyped, Load, Awake, Reload, SetEvent, ExchangeFails, LockStep, XPSteps
    <3>2. \A u \in LockThreads : u # t => rpc'[u] = rpc[u]
      BY <2>2 DEF LockTyped, Load, Awake, Reload, SetEvent, ExchangeFails, LockStep
    <3> QED BY <1>1, <3>1, <3>2 DEF CallsFit, NativeLocks, XPSteps
  <2> QED BY <2>1, <2>2 DEF Moves
<1>4. DecidedOnSeen'
  <2>1. CASE \E o \in Starts \cup Ends : StartCall(t, o)
    BY <2>1 DEF LockTyped, DecidedOnSeen, StartCall, LockStep, NativeLocks
  <2>2. CASE Load(t)
    <3>1. /\ rop' = rop /\ seen'[t] = word
          /\ \A u \in LockThreads : u # t => rpc'[u] = rpc[u] /\ seen'[u] = seen[u]
      BY <2>2 DEF LockTyped, Load, LockStep
    <3>2. /\ rpc'[t] = "take" => /\ rop[t] \notin Ends
                                 /\ IF Reads(rop[t]) THEN ~IsWriter(word) ELSE IsClear(word)
          /\ rpc'[t] = "park" => rop[t] \notin Ends /\ ~Tries(rop[t])
          /\ rpc'[t] \in {"give", "set"} => rop[t] \in Ends
          /\ rpc'[t] \notin {"asleep", "reload", "unpark"}
      <4>1. CASE rop[t] \in Ends
        <5>1. rpc'[t] \in {"idle", "set", "give"}
          BY <2>2, <4>1 DEF LockTyped, Load, LockStep, Ends, Reads, Writes
        <5> QED BY <4>1, <5>1
      <4>2. CASE rop[t] \in Starts /\ Reads(rop[t])
        BY <2>2, <4>2 DEF LockTyped, Load, LockStep, Ends, Starts, Reads, Writes
      <4>3. CASE rop[t] \in Starts /\ ~Reads(rop[t])
        BY <2>2, <4>3 DEF LockTyped, Load, LockStep, Ends, Starts, Reads, Writes
      <4> QED BY <4>1, <4>2, <4>3 DEF LockTyped
    <3> QED BY <3>1, <3>2 DEF LockTyped, DecidedOnSeen, Starts, Tries
  <2>3. CASE Awake(t) \/ Reload(t)
    BY <2>3 DEF LockTyped, DecidedOnSeen, Awake, Reload, LockStep
  <2>4. CASE SetEvent(t)
    BY <2>4 DEF LockTyped, DecidedOnSeen, SetEvent, LockStep
  <2>5. CASE ExchangeFails(t)
    BY <2>5 DEF LockTyped, DecidedOnSeen, ExchangeFails, LockStep, Forget
  <2> QED BY <2>1, <2>2, <2>3, <2>4, <2>5 DEF Moves
<1>5. Parked' = Parked
  BY DEF LockTyped, Parked, Moves, StartCall, Load, Awake, Reload, SetEvent,
         ExchangeFails, LockStep, NativeLocks
<1>6. WordExact'
  BY <1>1, <1>5 DEF WordExact, LockHolders
<1>7. WritersAlone'
  BY <1>1 DEF WritersAlone
<1> QED BY <1>1, <1>2, <1>3, <1>4, <1>6, <1>7

------------------------------------------------------------------------------
(* Steps of the systems' own locks.                                         *)
LEMMA NativeKeepsLockIInv ==
  ASSUME LockIInv, NEW t \in LockThreads, rpc[t] \in NativeLocks, NativeCall(t)
  PROVE  LockIInv' /\ [AbstractLock!Next]_rheld
<1> USE DEF LockIInv
<1>1. /\ rsys' = rsys /\ rsys # "xp" /\ rop' = rop
      /\ rpc' = [rpc EXCEPT ![t] = "idle"]
      /\ rheld' = [rheld EXCEPT ![t] = rheld'[t]]
      /\ rheld'[t] \in {"none", "read", "write"}
  BY DEF LockTyped, CallsFit, NativeCall, LockStep, Holds
<1>2. LockTyped'
  BY <1>1 DEF LockTyped, NativeCall
<1>3. CallsFit' /\ DecidedOnSeen' /\ WordExact'
  BY <1>1 DEF LockTyped, CallsFit, DecidedOnSeen, WordExact, NativeCall, NativeLocks, XPSteps
<1>4. \/ rheld' = rheld
      \/ rheld[t] # "none" /\ rheld'[t] = "none"
      \/ /\ rheld[t] = "none" /\ rheld'[t] = "read"
         /\ \A u \in LockThreads : rheld[u] # "write"
      \/ rheld'[t] = "write" /\ \A u \in LockThreads : rheld[u] = "none"
  BY DEF LockTyped, CallsFit, NativeCall, NativeFree, Holds, NativeLocks, Starts, Ends
<1>5. WritersAlone'
  BY <1>1, <1>4 DEF LockTyped, WritersAlone
<1>6. [AbstractLock!Next]_rheld
  BY <1>1, <1>4 DEF AbstractLock!Next, AbstractLock!AcquireRead,
                    AbstractLock!AcquireWrite, AbstractLock!Release
<1> QED BY <1>2, <1>3, <1>5, <1>6

------------------------------------------------------------------------------
(* The exchanges of the lock for Windows XP.                                *)

(* A thread counts itself in or out as waiting.                             *)
LEMMA ParkKeepsLockIInv ==
  ASSUME LockIInv, NEW t \in LockThreads, Park(t) \/ Unpark(t)
  PROVE  LockIInv' /\ rheld' = rheld
<1> USE DEF LockIInv
<1>1. rsys' = rsys /\ rsys = "xp" /\ rheld' = rheld /\ rop' = rop
  BY DEF CallsFit, Park, Unpark, XPSteps
<1>2. /\ word.readers \in Int /\ word.waiting \in Int /\ word.writer \in BOOLEAN
      /\ word = [readers |-> word.readers, waiting |-> word.waiting, writer |-> word.writer]
  BY DEF LockTyped, Word
<1>3. /\ word'.readers = word.readers /\ word'.writer = word.writer
      /\ word'.waiting = IF Park(t) THEN word.waiting + 1 ELSE word.waiting - 1
      /\ word' = [readers |-> word'.readers, waiting |-> word'.waiting, writer |-> word'.writer]
  BY <1>2 DEF Park, Unpark, Exchange
<1>4. word' \in Word
  BY <1>2, <1>3 DEF Word
<1>5. /\ rpc' = [rpc EXCEPT ![t] = IF Park(t) THEN "asleep" ELSE "load"]
      /\ seen' = [seen EXCEPT ![t] = Clear]
      /\ event' = event
  BY DEF Park, Unpark, LockStep, Forget
<1>6. LockTyped'
  BY <1>1, <1>4, <1>5, ClearTyped DEF LockTyped, XPSteps
<1>7. CallsFit' /\ DecidedOnSeen' /\ WritersAlone'
  BY <1>1, <1>5 DEF LockTyped, CallsFit, DecidedOnSeen, WritersAlone, XPSteps, NativeLocks,
                    Park, Unpark, Starts
<1>8. Parked' = IF Park(t) THEN Parked \cup {t} ELSE Parked \ {t}
  BY <1>5 DEF LockTyped, Parked, Park, Unpark
<1>9. IF Park(t) THEN t \notin Parked ELSE t \in Parked
  BY DEF Parked, Park, Unpark
<1>10. Cardinality(Parked') = IF Park(t) THEN Cardinality(Parked) + 1 ELSE Cardinality(Parked) - 1
  BY <1>8, <1>9, LockSets, CountsTyped
<1>11. WordExact'
  BY <1>1, <1>2, <1>3, <1>10 DEF WordExact, LockHolders
<1> QED BY <1>1, <1>6, <1>7, <1>11

(* What the word that a thread exchanges says about the holders.            *)
LEMMA WordTells ==
  ASSUME LockIInv, rsys = "xp"
  PROVE  /\ word.readers = Cardinality(LockHolders("read"))
         /\ word.waiting = Cardinality(Parked)
         /\ word.writer = (LockHolders("write") # {})
         /\ ~IsWriter(word) => \A u \in LockThreads : rheld[u] # "write"
         /\ IsClear(word) => \A u \in LockThreads : rheld[u] = "none"
<1>1. /\ word.readers = Cardinality(LockHolders("read"))
      /\ word.waiting = Cardinality(Parked)
      /\ word.writer = (LockHolders("write") # {})
  BY DEF LockIInv, WordExact
<1>2. ~IsWriter(word) => \A u \in LockThreads : rheld[u] # "write"
  BY <1>1 DEF IsWriter, LockHolders
<1>3. IsClear(word) => \A u \in LockThreads : rheld[u] # "read"
  BY <1>1, CountsTyped DEF IsClear, LockHolders
<1> QED BY <1>1, <1>2, <1>3 DEF LockIInv, LockTyped, IsClear, IsWriter

(* The parts of the invariant that a step to "idle" with another hold keeps *)
(* whatever the hold is.                                                    *)
LEMMA ExchangesKeepShape ==
  ASSUME LockIInv, NEW t \in LockThreads, Take(t) \/ Give(t)
  PROVE  /\ LockTyped' /\ CallsFit' /\ DecidedOnSeen' /\ Parked' = Parked
         /\ rsys = "xp" /\ rsys' = rsys /\ word = seen[t]
         /\ rheld' = [rheld EXCEPT ![t] = rheld'[t]]
         /\ rop[t] \in IF Take(t) THEN Starts ELSE Ends
<1> USE DEF LockIInv
<1>1. /\ rsys' = rsys /\ rsys = "xp" /\ rop' = rop /\ event' = event /\ word = seen[t]
      /\ rpc' = [rpc EXCEPT ![t] = "idle"] /\ seen' = [seen EXCEPT ![t] = Clear]
      /\ rheld' = [rheld EXCEPT ![t] = rheld'[t]]
      /\ rheld'[t] \in {"none", "read", "write"}
      /\ rop[t] \in IF Take(t) THEN Starts ELSE Ends
  BY DEF LockTyped, CallsFit, DecidedOnSeen, Take, Give, XPSteps, LockStep, Forget, Holds, Exchange
<1>2. /\ word.readers \in Int /\ word.waiting \in Int /\ word.writer \in BOOLEAN
      /\ word = [readers |-> word.readers, waiting |-> word.waiting, writer |-> word.writer]
  BY DEF LockTyped, Word
<1>3. word' \in Word
  <2>1. \/ word' = [word EXCEPT !.readers = @ + 1]
        \/ word' = [word EXCEPT !.readers = @ - 1]
        \/ word' = [word EXCEPT !.writer = TRUE]
        \/ word' = [word EXCEPT !.writer = FALSE]
    BY <1>1 DEF Take, Give, Exchange
  <2>2. word' = [word EXCEPT !.readers = @ + 1] => word' \in Word
    BY <1>2 DEF Word
  <2>3. word' = [word EXCEPT !.readers = @ - 1] => word' \in Word
    BY <1>2 DEF Word
  <2>4. word' = [word EXCEPT !.writer = TRUE] => word' \in Word
    BY DEF LockTyped, Word
  <2>5. word' = [word EXCEPT !.writer = FALSE] => word' \in Word
    BY DEF LockTyped, Word
  <2> QED BY <2>1, <2>2, <2>3, <2>4, <2>5
<1>4. LockTyped'
  BY <1>1, <1>3, ClearTyped DEF LockTyped
<1>5. CallsFit' /\ DecidedOnSeen'
  BY <1>1 DEF LockTyped, CallsFit, DecidedOnSeen, XPSteps, NativeLocks
<1>6. Parked' = Parked
  BY <1>1 DEF LockTyped, Parked, Take, Give
<1> QED BY <1>1, <1>4, <1>5, <1>6

LEMMA ReaderExchanges ==
  ASSUME LockIInv, NEW t \in LockThreads,
         \/ Take(t) /\ Reads(rop[t])
         \/ Give(t) /\ rop[t] = "end_read"
  PROVE  LockIInv' /\ [AbstractLock!Next]_rheld
<1> USE DEF LockIInv
<1>1. /\ rsys = "xp" /\ rsys' = rsys /\ Parked' = Parked /\ word = seen[t]
      /\ rheld' = [rheld EXCEPT ![t] = rheld'[t]]
  BY ExchangesKeepShape
<1>2. /\ word.readers \in Int
      /\ word = [readers |-> word.readers, waiting |-> word.waiting, writer |-> word.writer]
  BY DEF LockTyped, Word
<1>3. LockHolders("write")' = LockHolders("write")
  BY <1>1 DEF LockTyped, CallsFit, LockHolders, Take, Give, Holds, Starts, Reads
<1>4. CASE Take(t) /\ Reads(rop[t])
  <2>1. /\ rheld[t] = "none" /\ rheld'[t] = "read"
        /\ \A u \in LockThreads : rheld[u] # "write"
    BY <1>1, <1>4, WordTells
    DEF LockTyped, CallsFit, DecidedOnSeen, Take, Holds, Starts, Reads
  <2>2. LockHolders("read")' = LockHolders("read") \cup {t} /\ t \notin LockHolders("read")
    BY <1>1, <2>1 DEF LockTyped, LockHolders
  <2>3. Cardinality(LockHolders("read")') = word.readers + 1
    BY <2>2, <1>1, LockSets, CountsTyped, WordTells
  <2>4. word' = [word EXCEPT !.readers = @ + 1]
    BY <1>1, <1>4 DEF Take, Exchange
  <2>5. WordExact'
    BY <1>1, <1>2, <1>3, <2>3, <2>4, WordTells DEF WordExact
  <2>6. WritersAlone'
    BY <1>1, <2>1 DEF LockTyped, WritersAlone
  <2>7. AbstractLock!AcquireRead(t)
    BY <1>1, <2>1 DEF AbstractLock!AcquireRead
  <2> QED BY <1>4, <2>5, <2>6, <2>7, ExchangesKeepShape DEF AbstractLock!Next
<1>5. CASE Give(t) /\ rop[t] = "end_read"
  <2>1. rheld[t] = "read" /\ rheld'[t] = "none"
    BY <1>5 DEF LockTyped, CallsFit, Give, Holds, Starts
  <2>2. LockHolders("read")' = LockHolders("read") \ {t} /\ t \in LockHolders("read")
    BY <1>1, <2>1 DEF LockTyped, LockHolders
  <2>3. Cardinality(LockHolders("read")') = word.readers - 1
    BY <2>2, <1>1, LockSets, CountsTyped, WordTells
  <2>4. word' = [word EXCEPT !.readers = @ - 1]
    BY <1>1, <1>5 DEF Give, Exchange
  <2>5. WordExact'
    BY <1>1, <1>2, <1>3, <2>3, <2>4, WordTells DEF WordExact
  <2>6. WritersAlone'
    BY <1>1, <2>1 DEF LockTyped, WritersAlone
  <2>7. AbstractLock!Release(t)
    BY <1>1, <2>1 DEF AbstractLock!Release
  <2> QED BY <1>5, <2>5, <2>6, <2>7, ExchangesKeepShape DEF AbstractLock!Next
<1> QED BY <1>4, <1>5

LEMMA WriterExchanges ==
  ASSUME LockIInv, NEW t \in LockThreads,
         \/ Take(t) /\ ~Reads(rop[t])
         \/ Give(t) /\ rop[t] # "end_read"
  PROVE  LockIInv' /\ [AbstractLock!Next]_rheld
<1> USE DEF LockIInv
<1>1. /\ rsys = "xp" /\ rsys' = rsys /\ Parked' = Parked /\ word = seen[t]
      /\ rheld' = [rheld EXCEPT ![t] = rheld'[t]]
  BY ExchangesKeepShape
<1>2. word = [readers |-> word.readers, waiting |-> word.waiting, writer |-> word.writer]
  BY DEF LockTyped, Word
<1>3. LockHolders("read")' = LockHolders("read")
  BY <1>1, ExchangesKeepShape DEF LockTyped, CallsFit, LockHolders, Take, Give, Holds, Starts, Ends, Reads
<1>4. CASE Take(t) /\ ~Reads(rop[t])
  <2>1. /\ rheld'[t] = "write"
        /\ \A u \in LockThreads : rheld[u] = "none"
    BY <1>1, <1>4, WordTells DEF LockTyped, DecidedOnSeen, Take, Holds
  <2>2. LockHolders("write")' # {}
    BY <1>1, <2>1 DEF LockTyped, LockHolders
  <2>3. word' = [word EXCEPT !.writer = TRUE]
    BY <1>1, <1>4 DEF Take, Exchange
  <2>4. WordExact'
    BY <1>1, <1>2, <1>3, <2>2, <2>3, WordTells DEF WordExact
  <2>5. WritersAlone'
    BY <1>1, <2>1 DEF LockTyped, WritersAlone
  <2>6. AbstractLock!AcquireWrite(t)
    BY <1>1, <2>1 DEF AbstractLock!AcquireWrite
  <2> QED BY <1>4, <2>4, <2>5, <2>6, ExchangesKeepShape DEF AbstractLock!Next
<1>5. CASE Give(t) /\ rop[t] # "end_read"
  <2>1. rheld[t] = "write" /\ rheld'[t] = "none"
    BY <1>5, ExchangesKeepShape DEF LockTyped, CallsFit, DecidedOnSeen, Give, Holds, Starts, Ends
  <2>2. LockHolders("write")' = {}
    BY <1>1, <2>1 DEF LockTyped, LockHolders, WritersAlone
  <2>3. word' = [word EXCEPT !.writer = FALSE]
    BY <1>1, <1>5 DEF Give, Exchange
  <2>4. WordExact'
    BY <1>1, <1>2, <1>3, <2>2, <2>3, WordTells DEF WordExact
  <2>5. WritersAlone'
    BY <1>1, <2>1 DEF LockTyped, WritersAlone
  <2>6. AbstractLock!Release(t)
    BY <1>1, <2>1 DEF AbstractLock!Release
  <2> QED BY <1>5, <2>4, <2>5, <2>6, ExchangesKeepShape DEF AbstractLock!Next
<1> QED BY <1>4, <1>5

------------------------------------------------------------------------------
(* Every step keeps the invariant, and is one of the abstract lock or none. *)
LEMMA SystemLockSteps ==
  ASSUME LockIInv, [LockNext]_lockVars
  PROVE  LockIInv' /\ [AbstractLock!Next]_rheld
<1>1. CASE UNCHANGED lockVars
  BY <1>1 DEF lockVars, LockIInv, LockTyped, CallsFit, DecidedOnSeen, WordExact,
              WritersAlone, LockHolders, Parked
<1>2. CASE LockNext
  <2> PICK t \in LockThreads :
        \/ Moves(t) \/ PosixCall(t) \/ SolarisCall(t) \/ VistaCall(t)
        \/ Take(t) \/ Park(t) \/ Unpark(t) \/ Give(t)
    BY <1>2 DEF LockNext, Moves, Starts, Ends
  <2>1. CASE Moves(t)
    BY <2>1, MovesKeepLockIInv
  <2>2. CASE PosixCall(t) \/ SolarisCall(t) \/ VistaCall(t)
    BY <2>2, NativeKeepsLockIInv DEF PosixCall, SolarisCall, VistaCall, NativeLocks
  <2>3. CASE Park(t) \/ Unpark(t)
    BY <2>3, ParkKeepsLockIInv
  <2>4. CASE Take(t) \/ Give(t)
    BY <2>4, ReaderExchanges, WriterExchanges
  <2> QED BY <2>1, <2>2, <2>3, <2>4
<1> QED BY <1>1, <1>2

(* The word of the lock for Windows XP counts its readers and sleepers and  *)
(* knows its writer, whatever exchanges fail (prwlock-win.c); no field of   *)
(* 15 bits can spill into the next.                                         *)
THEOREM WordNeverDrifts ==
  LockSpec => []WordExact
           /\ [](rsys = "xp" => word.readers < 2^15 /\ word.waiting < 2^15)
<1>1. LockInit => LockIInv
  BY InitLockIInv
<1>2. LockIInv /\ [LockNext]_lockVars => LockIInv'
  BY SystemLockSteps
<1>3. LockIInv => WordExact
  BY DEF LockIInv
<1>4. LockIInv => (rsys = "xp" => word.readers < 2^15 /\ word.waiting < 2^15)
  <2>1. /\ Cardinality(LockHolders("read")) <= Cardinality(LockThreads)
        /\ Cardinality(Parked) <= Cardinality(LockThreads)
        /\ Cardinality(LockThreads) \in Nat
    BY CountsTyped, LockSets
  <2> QED BY <2>1, LockAssumption, WordTells, CountsTyped
<1> QED BY <1>1, <1>2, <1>3, <1>4, PTL DEF LockSpec

(* Every read-write lock of the systems lets in what prwlock.h promises:    *)
(* any number of readers or one writer.                                     *)
THEOREM SystemsImplementRWLock == LockSpec => ImplementsAbstractLock
<1>1. LockInit => LockIInv /\ AbstractLock!Init
  BY InitLockIInv DEF LockInit, AbstractLock!Init
<1>2. LockIInv /\ [LockNext]_lockVars => LockIInv'
  BY SystemLockSteps
<1>3. LockIInv /\ [LockNext]_lockVars => [AbstractLock!Next]_rheld
  BY SystemLockSteps
<1> QED BY <1>1, <1>2, <1>3, PTL DEF LockSpec, ImplementsAbstractLock, AbstractLock!Spec

------------------------------------------------------------------------------
(* Atomic operations: the inductive invariant.                              *)

AtomicTyped ==
  /\ build \in Builds \X {"int", "pointer"}
  /\ apc \in [AtomicThreads -> {"idle", "exchange", "read", "store", "unlock"}]
  /\ call = [t \in AtomicThreads |-> call[t]]
  /\ local = [t \in AtomicThreads |-> local[t]]
  /\ amutex \in AtomicThreads \cup {NoHolder}

(* An operation under way is one a caller asked for.                        *)
CallsAreReal ==
  \A t \in AtomicThreads :
    apc[t] \in {"exchange", "read", "store"} =>
      /\ call[t][1] \in Operations
      /\ call[t][2] \in Arguments /\ call[t][3] \in Arguments

(* The build with the mutex never loops, and a thread between lock and      *)
(* unlock is the one that owns it.                                          *)
OneAtATime ==
  \A t \in AtomicThreads :
    /\ apc[t] = "exchange" => build[1] # "sim"
    /\ apc[t] \in {"read", "store", "unlock"} => build[1] = "sim" /\ amutex = t

(* The value a thread is about to replace is the one that is there.         *)
ReadIsCurrent == \A t \in AtomicThreads : apc[t] = "store" => local[t] = cell

AtomicIInv == AtomicTyped /\ CallsAreReal /\ OneAtATime /\ ReadIsCurrent

------------------------------------------------------------------------------
(* What a step with an effect does to the abstract word.                    *)
Effect(t, o, a, b) == cell' = Apply(o, cell, a, b) /\ got' = [got EXCEPT ![t] = cell]

LEMMA EffectIsWordStep ==
  ASSUME NEW t \in AtomicThreads, NEW o \in Operations,
         NEW a \in Arguments, NEW b \in Arguments, Effect(t, o, a, b)
  PROVE  WordNext
<1>1. a \in Words /\ b \in Words
  BY BuildAssumption
<1> QED BY <1>1 DEF Effect, WordNext

LEMMA InitAtomicIInv == AtomicInit => AtomicIInv
BY DEF AtomicInit, AtomicIInv, AtomicTyped, CallsAreReal, OneAtATime, ReadIsCurrent

(* The operations that take effect at once; the build with the mutex has    *)
(* none of them.                                                            *)
AtOnceBuilds(t, o, a, b) ==
  \/ C11Int(t, o, a, b) \/ C11Pointer(t, o, a, b)
  \/ SyncInt(t, o, a, b) \/ SyncPointer(t, o, a, b)
  \/ WinInt(t, o, a, b) \/ WinPointer(t, o, a, b)
  \/ DeccInt(t, o, a, b) \/ DeccPointer(t, o, a, b)

LEMMA AtOnceSteps ==
  ASSUME AtomicIInv, NEW t \in AtomicThreads, NEW o \in Operations,
         NEW a \in Arguments, NEW b \in Arguments, AtOnceBuilds(t, o, a, b)
  PROVE  AtomicIInv' /\ WordNext
<1>1. AtOnce(t, o, a, b) /\ build[1] # "sim"
  BY DEF AtOnceBuilds, C11Int, C11Pointer, SyncInt, SyncPointer, WinInt,
         WinPointer, DeccInt, DeccPointer
<1>2. AtomicIInv'
  BY <1>1 DEF AtOnce, AtomicIInv, AtomicTyped, CallsAreReal, OneAtATime, ReadIsCurrent
<1> QED BY <1>1, <1>2, EffectIsWordStep DEF AtOnce, Effect

(* The loop around compare-and-exchange.                                    *)
LEMMA LoopReadSteps ==
  ASSUME AtomicIInv, NEW t \in AtomicThreads, NEW o \in Operations,
         NEW a \in Arguments, NEW b \in Arguments, LoopRead(t, o, a, b)
  PROVE  AtomicIInv' /\ UNCHANGED <<cell, got>>
<1>1. build[1] # "sim"
  BY DEF LoopRead, Loops
<1> QED BY <1>1 DEF LoopRead, GoTo, AtomicIInv, AtomicTyped, CallsAreReal,
                    OneAtATime, ReadIsCurrent

LEMMA LoopExchangeSteps ==
  ASSUME AtomicIInv, NEW t \in AtomicThreads, LoopExchange(t)
  PROVE  AtomicIInv' /\ [WordNext]_<<cell, got>>
<1> USE DEF AtomicIInv
<1>1. build[1] # "sim" /\ \A u \in AtomicThreads : apc[u] # "store"
  BY DEF LoopExchange, OneAtATime
<1>2. CASE cell = local[t]
  <2>1. Effect(t, call[t][1], call[t][2], call[t][3])
    BY <1>2 DEF LoopExchange, New, Effect
  <2>2. WordNext
    BY <2>1, EffectIsWordStep DEF CallsAreReal, LoopExchange
  <2>3. AtomicTyped' /\ CallsAreReal' /\ OneAtATime' /\ ReadIsCurrent'
    BY <1>1, <1>2 DEF LoopExchange, GoTo, Done, AtomicTyped, CallsAreReal,
                      OneAtATime, ReadIsCurrent
  <2> QED BY <2>2, <2>3
<1>3. CASE cell # local[t]
  BY <1>1, <1>3 DEF LoopExchange, AtomicTyped, CallsAreReal, OneAtATime, ReadIsCurrent
<1> QED BY <1>2, <1>3

(* The operations under the mutex.                                          *)
LEMMA SimQuietSteps ==
  ASSUME AtomicIInv, NEW t \in AtomicThreads,
         \/ \E o \in Operations, a, b \in Arguments : SimLock(t, o, a, b)
         \/ SimRead(t) \/ SimUnlock(t)
  PROVE  AtomicIInv' /\ UNCHANGED <<cell, got>>
<1> USE BuildAssumption DEF AtomicIInv
<1>1. CASE \E o \in Operations, a, b \in Arguments : SimLock(t, o, a, b)
  BY <1>1 DEF SimLock, GoTo, AtomicTyped, CallsAreReal, OneAtATime, ReadIsCurrent
<1>2. CASE SimRead(t)
  BY <1>2 DEF SimRead, GoTo, AtomicTyped, CallsAreReal, OneAtATime, ReadIsCurrent
<1>3. CASE SimUnlock(t)
  BY <1>3 DEF SimUnlock, GoTo, AtomicTyped, CallsAreReal, OneAtATime, ReadIsCurrent
<1> QED BY <1>1, <1>2, <1>3

LEMMA SimStoreSteps ==
  ASSUME AtomicIInv, NEW t \in AtomicThreads, SimStore(t)
  PROVE  AtomicIInv' /\ WordNext
<1> USE DEF AtomicIInv
<1>1. local[t] = cell /\ \A u \in AtomicThreads : u # t => apc[u] # "store"
  BY DEF SimStore, OneAtATime, ReadIsCurrent
<1>2. Effect(t, call[t][1], call[t][2], call[t][3])
  BY <1>1 DEF SimStore, New, Effect
<1>3. WordNext
  BY <1>2, EffectIsWordStep DEF CallsAreReal, SimStore
<1>4. AtomicTyped' /\ CallsAreReal' /\ OneAtATime' /\ ReadIsCurrent'
  BY <1>1 DEF SimStore, GoTo, Done, AtomicTyped, CallsAreReal, OneAtATime, ReadIsCurrent
<1> QED BY <1>3, <1>4

------------------------------------------------------------------------------
(* Every operation of every build is one of AtomicWord: it takes effect at  *)
(* one instant and returns the value it replaced, although the loops of     *)
(* patomic-decc.c and patomic-win.c and the mutex of patomic-sim.c take     *)
(* several steps.                                                           *)
THEOREM OperationsAreAtomic == AtomicSpec => ImplementsAtomicWord
<1>1. AtomicInit => AtomicIInv /\ WordInit
  BY InitAtomicIInv DEF AtomicInit
<1>2. ASSUME AtomicIInv, [AtomicNext]_atomicVars
      PROVE  AtomicIInv' /\ [WordNext]_<<cell, got>>
  <2>1. CASE UNCHANGED atomicVars
    BY <1>2, <2>1 DEF atomicVars, AtomicIInv, AtomicTyped, CallsAreReal, OneAtATime, ReadIsCurrent
  <2>2. CASE AtomicNext
    <3> PICK t \in AtomicThreads :
          \/ \E o \in Operations, a, b \in Arguments :
               AtOnceBuilds(t, o, a, b) \/ LoopRead(t, o, a, b) \/ SimLock(t, o, a, b)
          \/ LoopExchange(t) \/ SimRead(t) \/ SimStore(t) \/ SimUnlock(t)
      BY <2>2 DEF AtomicNext, AtOnceBuilds
    <3> QED BY <1>2, AtOnceSteps, LoopReadSteps, LoopExchangeSteps, SimQuietSteps, SimStoreSteps
  <2> QED BY <1>2, <2>1, <2>2
<1> QED BY <1>1, <1>2, PTL DEF AtomicSpec, ImplementsAtomicWord, WordSpec

------------------------------------------------------------------------------
(* Spinlock: the inductive invariant.                                       *)

StoreFree == <<"spin", 0>>
Counted == <<"counter", sections>>

(* A thread has the lock, or freed it by a store nobody sees yet.           *)
Freeing(b) == b = <<StoreFree>> \/ \E n \in Int : b = <<<<"counter", n>>, StoreFree>>
HasLock(t) == spc[t] \in {"in", "worked"} \/ Freeing(buffer[t])

SpinTyped ==
  /\ sbuild \in SpinBuilds /\ spin \in {0, 1} /\ sections \in Int /\ counter \in Int
  /\ spc \in [SpinThreads -> {"out", "in", "worked", "barrier"}]
  /\ buffer = [t \in SpinThreads |-> buffer[t]]

(* What may be under way.                                                   *)
BuffersFit ==
  \A t \in SpinThreads :
    /\ buffer[t] = <<>> \/ Freeing(buffer[t]) \/ \E n \in Int : buffer[t] = <<<<"counter", n>>>>
    /\ spc[t] = "in" => buffer[t] = <<>>
    /\ spc[t] = "worked" => ~Freeing(buffer[t])

OneHolder ==
  /\ \A t, u \in SpinThreads : HasLock(t) /\ HasLock(u) => t = u
  /\ spin = 0 => \A t \in SpinThreads : ~HasLock(t)

(* Where the barrier comes first, the counter lags only behind its holder,  *)
(* by the store that is in the holder's buffer.                             *)
Ordered == {"c11", "decc", "sim"}
CounterFollows ==
  \A t \in SpinThreads :
    /\ buffer[t] \in {<<>>, <<Counted>>, <<StoreFree>>}
    /\ buffer[t] = <<Counted>> => spc[t] = "worked"
Settled == (\A t \in SpinThreads : buffer[t] # <<Counted>>) => counter = sections

SpinIInv ==
  /\ SpinTyped /\ BuffersFit /\ OneHolder
  /\ sbuild \in Ordered => CounterFollows /\ Settled

------------------------------------------------------------------------------
(* Sequences of one or two elements are what their elements make them.      *)
LEMMA ShortSequences ==
  ASSUME NEW S, NEW s \in Seq(S), NEW x \in S, NEW y \in S
  PROVE  /\ Len(s) = 1 /\ s[1] = x => s = <<x>>
         /\ Len(s) = 2 /\ s[1] = x /\ s[2] = y => s = <<x, y>>
<1> DEFINE p == <<x>> q == <<x, y>>
<1>1. p \in Seq(S) /\ Len(p) = 1 /\ p[1] = x
  OBVIOUS
<1>2. q \in Seq(S) /\ Len(q) = 2 /\ q[1] = x /\ q[2] = y
  OBVIOUS
<1> HIDE DEF p, q
<1>3. ASSUME Len(s) = 1, s[1] = x PROVE s = p
  <2>1. \A i \in 1 .. Len(s) : s[i] = p[i]
    BY <1>1, <1>3
  <2> QED BY <1>1, <1>3, <2>1, SeqEqual
<1>4. ASSUME Len(s) = 2, s[1] = x, s[2] = y PROVE s = q
  <2>1. \A i \in 1 .. Len(s) : s[i] = q[i]
    BY <1>2, <1>4
  <2> QED BY <1>2, <1>4, <2>1, SeqEqual
<1> QED BY <1>3, <1>4 DEF p, q

(* RemoveAt(s, 1) drops the first element.                                  *)
LEMMA FirstLeaves ==
  ASSUME NEW S, NEW s \in Seq(S)
  PROVE  /\ Len(s) = 1 => RemoveAt(s, 1) = <<>>
         /\ Len(s) = 2 => RemoveAt(s, 1) = <<s[2]>>
<1>1. Len(s) \in {1, 2} => SubSeq(s, 1, 0) = <<>>
  OBVIOUS
<1>2. ASSUME Len(s) = 1 PROVE RemoveAt(s, 1) = <<>>
  <2>1. SubSeq(s, 2, 1) = <<>>
    BY <1>2
  <2>2. <<>> \o <<>> = <<>>
    OBVIOUS
  <2>3. RemoveAt(s, 1) = SubSeq(s, 1, 0) \o SubSeq(s, 2, 1)
    BY <1>2 DEF RemoveAt
  <2> QED BY <1>1, <1>2, <2>1, <2>2, <2>3
<1>3. ASSUME Len(s) = 2 PROVE RemoveAt(s, 1) = <<s[2]>>
  <2> DEFINE r == SubSeq(s, 2, 2)
  <2>1. r \in Seq(S) /\ Len(r) = 1 /\ r[1] = s[2] /\ s[2] \in S
    BY <1>3
  <2>2. RemoveAt(s, 1) = SubSeq(s, 1, 0) \o r
    BY <1>3 DEF RemoveAt
  <2> HIDE DEF r
  <2>3. r = <<s[2]>>
    BY <2>1, ShortSequences
  <2>4. <<>> \o r = r
    BY <2>1, ConcatEmptySeq
  <2> QED BY <1>1, <1>3, <2>2, <2>3, <2>4
<1> QED BY <1>2, <1>3

(* RemoveAt(s, 2) drops the second one.                                     *)
LEMMA SecondLeaves ==
  ASSUME NEW S, NEW s \in Seq(S), Len(s) = 2
  PROVE  RemoveAt(s, 2) = <<s[1]>>
<1> DEFINE r == SubSeq(s, 1, 1)
<1>1. r \in Seq(S) /\ Len(r) = 1 /\ r[1] = s[1] /\ s[1] \in S
  OBVIOUS
<1>2. SubSeq(s, 3, 2) = <<>>
  OBVIOUS
<1>3. RemoveAt(s, 2) = r \o <<>>
  BY <1>2 DEF RemoveAt
<1> HIDE DEF r
<1>4. r = <<s[1]>>
  BY <1>1, ShortSequences
<1>5. r \o <<>> = r
  BY <1>1, ConcatEmptySeq
<1> QED BY <1>3, <1>4, <1>5

LEMMA Appends ==
  ASSUME NEW x, NEW y
  PROVE  Append(<<>>, x) = <<x>> /\ Append(<<x>>, y) = <<x, y>>
<1> DEFINE a == Append(<<>>, x) b == Append(<<x>>, y) S == {x, y}
<1>1. a \in Seq(S) /\ Len(a) = 1 /\ a[1] = x
  OBVIOUS
<1>2. b \in Seq(S) /\ Len(b) = 2 /\ b[1] = x /\ b[2] = y
  OBVIOUS
<1>3. x \in S /\ y \in S
  OBVIOUS
<1> HIDE DEF a, b, S
<1>4. a = <<x>> /\ b = <<x, y>>
  BY <1>1, <1>2, <1>3, ShortSequences
<1> QED BY <1>4 DEF a, b
(* The buffers that occur differ in length, or in what their first store is.*)
LEMMA Shapes ==
  ASSUME NEW n
  PROVE  LET c == <<"counter", n>> IN
         /\ Len(<<>>) = 0 /\ Len(<<StoreFree>>) = 1 /\ Len(<<c>>) = 1 /\ Len(<<c, StoreFree>>) = 2
         /\ <<StoreFree>>[1] = StoreFree /\ <<c>>[1] = c
         /\ <<c, StoreFree>>[1] = c /\ <<c, StoreFree>>[2] = StoreFree
         /\ <<StoreFree>> \in Seq({c, StoreFree}) /\ <<c>> \in Seq({c, StoreFree})
         /\ <<c, StoreFree>> \in Seq({c, StoreFree})
         /\ StoreFree[1] = "spin" /\ StoreFree[2] = 0 /\ c[1] = "counter" /\ c[2] = n
BY DEF StoreFree

LEMMA FreeingShapes ==
  /\ ~Freeing(<<>>) /\ Freeing(<<StoreFree>>) /\ <<StoreFree>> # <<>>
  /\ \A n \in Int : /\ ~Freeing(<<<<"counter", n>>>>) /\ Freeing(<<<<"counter", n>>, StoreFree>>)
                    /\ <<<<"counter", n>>>> # <<>> /\ <<<<"counter", n>>>> # <<StoreFree>>
                    /\ <<<<"counter", n>>, StoreFree>> # <<>>
                    /\ <<<<"counter", n>>, StoreFree>> # <<StoreFree>>
                    /\ \A m \in Int : <<<<"counter", n>>, StoreFree>> # <<<<"counter", m>>>>
<1>1. \A n \in Int : /\ <<<<"counter", n>>>> # <<>> /\ <<<<"counter", n>>>> # <<StoreFree>>
                    /\ <<<<"counter", n>>, StoreFree>> # <<>>
                    /\ <<<<"counter", n>>, StoreFree>> # <<StoreFree>>
                    /\ \A m \in Int : <<<<"counter", n>>, StoreFree>> # <<<<"counter", m>>>>
  BY DEF StoreFree
<1>2. <<StoreFree>> # <<>>
  BY DEF StoreFree
<1>3. \A n \in Int : Freeing(<<<<"counter", n>>, StoreFree>>)
  BY DEF Freeing
<1>4. Freeing(<<StoreFree>>)
  BY DEF Freeing
<1>5. ~Freeing(<<>>) /\ \A n \in Int : ~Freeing(<<<<"counter", n>>>>)
  BY <1>1, <1>2 DEF Freeing
<1> QED BY <1>1, <1>2, <1>3, <1>4, <1>5

LEMMA InitSpinIInv == SpinInit => SpinIInv
<1> SUFFICES ASSUME SpinInit PROVE SpinIInv
  OBVIOUS
<1>1. SpinTyped /\ Settled
  BY DEF SpinInit, SpinTyped, Settled
<1>2. BuffersFit /\ OneHolder /\ CounterFollows
  BY FreeingShapes DEF SpinInit, BuffersFit, OneHolder, HasLock, CounterFollows, Counted
<1> QED BY <1>1, <1>2 DEF SpinIInv

(* A thread gets the lock.                                                  *)
LEMMA LockSteps ==
  ASSUME SpinIInv, NEW t \in SpinThreads, SwapIn(t)
  PROVE  SpinIInv'
<1>1. /\ UNCHANGED <<sbuild, counter, buffer, sections>> /\ spc' = [spc EXCEPT ![t] = "in"]
      /\ spc[t] = "out" /\ buffer[t] = <<>> /\ spin = 0 /\ spin' = 1
  BY DEF SwapIn, Put
<1>2. SpinTyped' /\ BuffersFit'
  BY <1>1 DEF SpinIInv, SpinTyped, BuffersFit
<1>3. OneHolder'
  BY <1>1 DEF SpinIInv, SpinTyped, OneHolder, HasLock
<1>4. sbuild \in Ordered => CounterFollows' /\ Settled'
  BY <1>1 DEF SpinIInv, SpinTyped, CounterFollows, Settled, Counted
<1> QED BY <1>1, <1>2, <1>3, <1>4 DEF SpinIInv

LEMMA WorkStep ==
  ASSUME SpinIInv, NEW t \in SpinThreads, Work(t)
  PROVE  SpinIInv'
<1> USE DEF SpinIInv
<1>1. buffer[t] = <<>> /\ spc[t] = "in" /\ \A u \in SpinThreads : u # t => ~HasLock(u)
  BY DEF Work, BuffersFit, OneHolder, HasLock
<1>2. PICK n \in Int : n = (counter + 1) % MaxCount
  BY SpinAssumption DEF SpinTyped
<1>3. /\ UNCHANGED <<sbuild, spin, counter>> /\ spc' = [spc EXCEPT ![t] = "worked"]
      /\ buffer' = [buffer EXCEPT ![t] = <<<<"counter", n>>>>]
  BY <1>1, <1>2, Appends DEF Work, Store, Put, SpinTyped
<1>4. SpinTyped'
  <2>1. sections' \in Int
    BY SpinAssumption DEF Work, SpinTyped
  <2> QED BY <1>3, <2>1 DEF SpinTyped
<1>5. BuffersFit' /\ OneHolder'
  BY <1>1, <1>3, FreeingShapes DEF SpinTyped, BuffersFit, OneHolder, HasLock
<1>6. ASSUME sbuild \in Ordered PROVE CounterFollows' /\ Settled'
  <2>1. \A u \in SpinThreads : u # t => buffer[u] \in {<<>>, <<StoreFree>>}
    BY <1>1, <1>6 DEF CounterFollows, HasLock
  <2>2. counter = sections
    BY <1>1, <1>6, <2>1, FreeingShapes DEF Settled, Counted, SpinTyped
  <2>3. sections' = n
    BY <1>2, <2>2 DEF Work
  <2> QED BY <1>3, <2>1, <2>3, FreeingShapes DEF CounterFollows, Settled, Counted, SpinTyped
<1> QED BY <1>3, <1>4, <1>5, <1>6

LEMMA FreeSteps ==
  ASSUME SpinIInv, NEW t \in SpinThreads,
         \/ Released(t)
         \/ sbuild \in {"sync", "win"} /\ StoreThenBarrier(t)
  PROVE  SpinIInv'
<1> USE DEF SpinIInv
<1>1. /\ UNCHANGED <<sbuild, spin, counter, sections>> /\ spc[t] = "worked"
      /\ spc' = [spc EXCEPT ![t] = spc'[t]] /\ spc'[t] \in {"out", "barrier"}
      /\ buffer' = [buffer EXCEPT ![t] = Append(buffer[t], StoreFree)]
      /\ sbuild \in Ordered => buffer[t] = <<>>
  BY DEF Released, StoreThenBarrier, Store, Put, SpinTyped, StoreFree, Ordered
<1>2. PICK b : buffer' = [buffer EXCEPT ![t] = b] /\ Freeing(b) /\ (sbuild \in Ordered => b = <<StoreFree>>)
  <2>1. CASE buffer[t] = <<>>
    BY <1>1, <2>1, Appends, FreeingShapes
  <2>2. CASE \E n \in Int : buffer[t] = <<<<"counter", n>>>>
    <3>1. PICK n \in Int : buffer[t] = <<<<"counter", n>>>>
      BY <2>2
    <3>2. Append(buffer[t], StoreFree) = <<<<"counter", n>>, StoreFree>> /\ sbuild \notin Ordered
      BY <1>1, <3>1, Appends, FreeingShapes
    <3> QED BY <1>1, <3>2, FreeingShapes
  <2> QED BY <1>1, <2>1, <2>2 DEF BuffersFit
<1>3. SpinTyped'
  BY <1>1 DEF SpinTyped
<1>4. BuffersFit' /\ OneHolder'
  BY <1>1, <1>2 DEF BuffersFit, OneHolder, HasLock, SpinTyped
<1>5. ASSUME sbuild \in Ordered PROVE CounterFollows' /\ Settled'
  BY <1>1, <1>2, <1>5, FreeingShapes DEF CounterFollows, Settled, Counted, SpinTyped
<1> QED BY <1>1, <1>3, <1>4, <1>5

LEMMA MutexSteps ==
  ASSUME SpinIInv, NEW t \in SpinThreads,
         \/ UnlockedMutex(t)
         \/ Barrier(t)
  PROVE  SpinIInv'
<1>1. CASE UnlockedMutex(t)
  <2>1. /\ UNCHANGED <<sbuild, counter, buffer, sections>> /\ spc' = [spc EXCEPT ![t] = "out"]
        /\ spc[t] = "worked" /\ buffer[t] = <<>> /\ spin' = 0
    BY <1>1 DEF UnlockedMutex, Put
  <2>2. SpinTyped' /\ BuffersFit' /\ OneHolder'
    BY <2>1, FreeingShapes DEF SpinIInv, SpinTyped, BuffersFit, OneHolder, HasLock
  <2>3. sbuild \in Ordered => CounterFollows' /\ Settled'
    BY <2>1, FreeingShapes DEF SpinIInv, SpinTyped, CounterFollows, Settled, Counted
  <2> QED BY <2>1, <2>2, <2>3 DEF SpinIInv
<1>2. CASE Barrier(t)
  <2>1. /\ UNCHANGED <<sbuild, spin, counter, buffer, sections>> /\ spc' = [spc EXCEPT ![t] = "out"]
        /\ spc[t] = "barrier" /\ buffer[t] = <<>>
    BY <1>2 DEF Barrier, Put
  <2>2. SpinTyped' /\ BuffersFit' /\ OneHolder'
    BY <2>1, FreeingShapes DEF SpinIInv, SpinTyped, BuffersFit, OneHolder, HasLock
  <2>3. sbuild \in Ordered => CounterFollows' /\ Settled'
    BY <2>1, FreeingShapes DEF SpinIInv, SpinTyped, CounterFollows, Settled, Counted
  <2> QED BY <2>1, <2>2, <2>3 DEF SpinIInv
<1> QED BY <1>1, <1>2

(* A store becomes visible.                                                 *)
LEMMA VisibleStep ==
  ASSUME SpinIInv, NEW t \in SpinThreads, Visible(t)
  PROVE  SpinIInv'
<1> USE DEF SpinIInv
<1>1. PICK i \in 1 .. Len(buffer[t]) :
        /\ IF buffer[t][i][1] = "spin"
             THEN spin' = buffer[t][i][2] /\ UNCHANGED counter
             ELSE counter' = buffer[t][i][2] /\ UNCHANGED spin
        /\ buffer' = [buffer EXCEPT ![t] = RemoveAt(buffer[t], i)]
        /\ UNCHANGED <<sbuild, spc, sections>>
  BY DEF Visible
<1>2. ASSUME NEW n \in Int, buffer[t] = <<<<"counter", n>>>>
      PROVE  spin' = spin /\ counter' = n /\ buffer' = [buffer EXCEPT ![t] = <<>>]
  <2> DEFINE c == <<"counter", n>>
  <2>1. i = 1 /\ buffer[t][1] = c /\ Len(buffer[t]) = 1 /\ buffer[t] \in Seq({c, StoreFree})
    BY <1>1, <1>2, Shapes
  <2> QED BY <1>1, <2>1, FirstLeaves, Shapes
<1>3. ASSUME buffer[t] = <<StoreFree>>
      PROVE  spin' = 0 /\ counter' = counter /\ buffer' = [buffer EXCEPT ![t] = <<>>]
  <2> DEFINE c == <<"counter", 0>>
  <2>1. i = 1 /\ buffer[t][1] = StoreFree /\ Len(buffer[t]) = 1 /\ buffer[t] \in Seq({c, StoreFree})
    BY <1>1, <1>3, Shapes
  <2> QED BY <1>1, <2>1, FirstLeaves, Shapes
<1>4. ASSUME NEW n \in Int, buffer[t] = <<<<"counter", n>>, StoreFree>>
      PROVE  \/ /\ spin' = spin /\ counter' = n
                /\ buffer' = [buffer EXCEPT ![t] = <<StoreFree>>]
             \/ /\ spin' = 0 /\ counter' = counter
                /\ buffer' = [buffer EXCEPT ![t] = <<<<"counter", n>>>>]
  <2> DEFINE c == <<"counter", n>>
  <2>1. /\ buffer[t][1] = c /\ buffer[t][2] = StoreFree /\ Len(buffer[t]) = 2
        /\ buffer[t] \in Seq({c, StoreFree}) /\ i \in {1, 2}
    BY <1>1, <1>4, Shapes
  <2>2. CASE i = 1
    BY <1>1, <2>1, <2>2, FirstLeaves, Shapes
  <2>3. CASE i = 2
    <3>1. StoreFree[1] = "spin" /\ StoreFree[2] = 0
      BY DEF StoreFree
    <3>2. spin' = 0 /\ counter' = counter
      BY <1>1, <2>1, <2>3, <3>1
    <3>3. RemoveAt(buffer[t], 2) = <<c>>
      <4> HIDE DEF c
      <4> QED BY <2>1, SecondLeaves
    <3> QED BY <1>1, <2>3, <3>2, <3>3
  <2> QED BY <2>1, <2>2, <2>3
<1>5. buffer[t] # <<>>
  BY <1>1, Shapes
<1>6. PICK b : /\ buffer' = [buffer EXCEPT ![t] = b] /\ counter' \in Int
               /\ b = <<>> \/ Freeing(b) \/ \E n \in Int : b = <<<<"counter", n>>>>
               /\ \/ spin' = spin /\ (Freeing(b) <=> Freeing(buffer[t]))
                  \/ spin' = 0 /\ ~Freeing(b) /\ Freeing(buffer[t])
  <2>1. CASE \E n \in Int : buffer[t] = <<<<"counter", n>>>>
    BY <1>2, <2>1, FreeingShapes
  <2>2. CASE buffer[t] = <<StoreFree>>
    BY <1>3, <2>2, FreeingShapes DEF SpinTyped
  <2>3. CASE \E n \in Int : buffer[t] = <<<<"counter", n>>, StoreFree>>
    <3>1. PICK n \in Int : buffer[t] = <<<<"counter", n>>, StoreFree>>
      BY <2>3
    <3>2. Freeing(buffer[t])
      BY <3>1, FreeingShapes
    <3> QED BY <1>4, <3>1, <3>2, FreeingShapes DEF SpinTyped
  <2> QED BY <1>5, <2>1, <2>2, <2>3 DEF BuffersFit, Freeing
<1>7. spc[t] # "in" /\ (Freeing(buffer[t]) => spc[t] # "worked")
  BY <1>5 DEF BuffersFit
<1>8. SpinTyped'
  BY <1>1, <1>6 DEF SpinTyped
<1>9. BuffersFit' /\ OneHolder'
  BY <1>1, <1>6, <1>7 DEF SpinTyped, BuffersFit, OneHolder, HasLock
<1>10. ASSUME sbuild \in Ordered PROVE CounterFollows' /\ Settled'
  <2>1. buffer[t] \in {<<Counted>>, <<StoreFree>>}
    BY <1>5, <1>10 DEF CounterFollows
  <2>2. CASE buffer[t] = <<Counted>>
    <3>1. spc[t] = "worked" /\ \A u \in SpinThreads : u # t => buffer[u] # <<Counted>>
      BY <1>10, <2>2 DEF CounterFollows, OneHolder, HasLock
    <3>2. counter' = sections /\ buffer' = [buffer EXCEPT ![t] = <<>>]
      BY <1>2, <2>2 DEF Counted, SpinTyped
    <3> QED BY <1>1, <1>10, <3>1, <3>2 DEF CounterFollows, Settled, Counted, SpinTyped
  <2>3. CASE buffer[t] = <<StoreFree>>
    BY <1>1, <1>3, <1>10, <2>3, FreeingShapes DEF CounterFollows, Settled, Counted, SpinTyped
  <2> QED BY <2>1, <2>2, <2>3
<1> QED BY <1>1, <1>8, <1>9, <1>10

------------------------------------------------------------------------------
(* However stores pass each other: no two threads hold the spinlock of any  *)
(* build, and whoever gets it sees everything the last holder stored in the *)
(* builds whose barrier comes before the store that frees it, C11 and DECC, *)
(* and in the one over a mutex.                                             *)
THEOREM HoldersSeeStores == SpinSpec => []HolderSeesStores
<1>1. SpinIInv /\ [SpinNext]_spinVars => SpinIInv'
  <2> SUFFICES ASSUME SpinIInv, [SpinNext]_spinVars PROVE SpinIInv'
    OBVIOUS
  <2>1. CASE UNCHANGED spinVars
    BY <2>1 DEF spinVars, SpinIInv, SpinTyped, BuffersFit, OneHolder, HasLock, CounterFollows,
                Settled, Counted
  <2>2. CASE SpinNext
    BY <2>2, LockSteps, WorkStep, FreeSteps, MutexSteps, VisibleStep
    DEF SpinNext, C11Lock, SyncLock, WinLock, DeccLock, SimLockSpin, C11Unlock,
        SyncUnlock, WinUnlock, DeccUnlock, SimUnlockSpin
  <2> QED BY <2>1, <2>2
<1>2. SpinIInv => HolderSeesStores
  <2> SUFFICES ASSUME SpinIInv PROVE HolderSeesStores
    OBVIOUS
  <2>1. \A t, u \in SpinThreads : {spc[t], spc[u]} \subseteq {"in", "worked"} => t = u
    BY DEF SpinIInv, OneHolder, HasLock
  <2>2. ASSUME sbuild \notin {"sync", "win"}, NEW t \in SpinThreads, spc[t] = "in"
        PROVE  counter = sections
    <3>1. sbuild \in Ordered
      BY <2>2, SpinAssumption DEF SpinIInv, SpinTyped, Ordered
    <3>2. \A u \in SpinThreads : spc[u] = "worked" => u = t
      BY <2>2 DEF SpinIInv, OneHolder, HasLock
    <3> QED BY <2>2, <3>1, <3>2 DEF SpinIInv, CounterFollows, Settled
  <2> QED BY <2>1, <2>2 DEF HolderSeesStores
<1> QED BY <1>1, <1>2, InitSpinIInv, PTL DEF SpinSpec

------------------------------------------------------------------------------
(* Condition variables.                                                     *)

(* The threads that a function puts at one of some places.                  *)
Standing(f, places) == {t \in CondThreads : f[t] \in places}

NativePlaces == {"out", "in", "relock", "asleep"}
XpPlaces == NativePlaces \cup {"failed", "release"}
Os2Places == NativePlaces \cup {"reset", "exchange", "leave", "post", "again"}

HistoryTyped == owed \in Nat /\ must \subseteq CondThreads

(* Native: as many wake-ups are owed as threads have been released and not  *)
(* left their sleep yet, at most.                                           *)
NativeInv ==
  /\ HistoryTyped
  /\ cpc \in [CondThreads -> NativePlaces]
  /\ cond = [waiting |-> cond.waiting] /\ cond.waiting \subseteq Standing(cpc, {"asleep"})
  /\ owed <= Cardinality(Standing(cpc, {"asleep"}) \ cond.waiting)
  /\ must \subseteq Standing(cpc, {"asleep"}) \ cond.waiting

(* Windows XP: every thread that sleeps, or failed to, is counted or has a  *)
(* unit, and there is a unit for each wake-up owed unless a broadcast is    *)
(* about to release them.                                                   *)
Releasing == Standing(cpc, {"release"})
XpInv ==
  /\ HistoryTyped
  /\ cpc \in [CondThreads -> XpPlaces]
  /\ mtx.owner \in CondThreads \cup {NoOwner}
  /\ \A t \in Standing(cpc, {"in", "release"}) : mtx.owner = t
  /\ todo \in [CondThreads -> Seq(Int)]
  /\ cond \in [waiters_count : Int, waiters_sema : Nat]
  /\ \A t \in Releasing : todo[t] = <<cond.waiters_count>> /\ cond.waiters_count > 0
  /\ Cardinality(Standing(cpc, {"asleep"})) + Cardinality(Standing(cpc, {"failed"})) =
       cond.waiters_count + cond.waiters_sema
  /\ owed <= Cardinality(Standing(cpc, {"asleep"}))
  /\ Releasing = {} => owed <= cond.waiters_sema

(* OS/2: the count is exact, and a broadcast that has threads to wake is    *)
(* still at work.                                                           *)
Broadcasting == {t \in Standing(cpc, {"post", "again"}) : todo[t] # <<>>}
Os2Inv ==
  /\ HistoryTyped
  /\ cpc \in [CondThreads -> Os2Places]
  /\ todo \in [CondThreads -> Seq(CondThreads)]
  /\ cond \in [waiters_count : Int, signaled : {0, 1}, posted : BOOLEAN]
  /\ cond.waiters_count = Cardinality(Standing(cpc, {"asleep", "reset", "exchange", "leave"}))
  /\ must \subseteq Waiting
  /\ must # {} => Broadcasting # {}

(* Callers on Windows XP hold the mutex: its count is not atomic.           *)
XpHeld == csys = "xp" /\ "xp" \notin UnlockedOn

CondIInv ==
  /\ csys \in CondSystems
  /\ csys \in Native => NativeInv
  /\ XpHeld => XpInv
  /\ csys = "os2" => Os2Inv

LEMMA StandingFinite ==
  ASSUME NEW f, NEW S
  PROVE  IsFiniteSet(Standing(f, S)) /\ Cardinality(Standing(f, S)) \in Nat
<1>1. Standing(f, S) \in SUBSET CondThreads
  BY DEF Standing
<1>. QED  BY <1>1, CondAssumption, FS_Subset, FS_CardinalityType

LEMMA StandingCount ==
  ASSUME NEW P, cpc \in [CondThreads -> P], NEW t \in CondThreads, NEW w,
         cpc' = [cpc EXCEPT ![t] = w], NEW S
  PROVE  Cardinality(Standing(cpc', S)) =
           IF w \in S
             THEN IF cpc[t] \in S THEN Cardinality(Standing(cpc, S)) ELSE Cardinality(Standing(cpc, S)) + 1
             ELSE IF cpc[t] \in S THEN Cardinality(Standing(cpc, S)) - 1 ELSE Cardinality(Standing(cpc, S))
<1>. DEFINE A == Standing(cpc, S)
            B == Standing(cpc', S)
<1>1. IsFiniteSet(A)
  BY StandingFinite
<1>2. /\ w \in S => B = A \cup {t}
      /\ w \notin S => B = A \ {t}
      /\ t \in A <=> cpc[t] \in S
  BY DEF Standing
<1>. HIDE DEF A, B
<1>3. Cardinality(A \cup {t}) = IF t \in A THEN Cardinality(A) ELSE Cardinality(A) + 1
  BY <1>1, FS_AddElement
<1>4. Cardinality(A \ {t}) = IF t \in A THEN Cardinality(A) - 1 ELSE Cardinality(A)
  BY <1>1, FS_RemoveElement
<1>5. Cardinality(B) = IF w \in S THEN IF cpc[t] \in S THEN Cardinality(A) ELSE Cardinality(A) + 1
                       ELSE IF cpc[t] \in S THEN Cardinality(A) - 1 ELSE Cardinality(A)
  BY <1>2, <1>3, <1>4
<1>. QED  BY <1>5 DEF A, B

(* Locking and unlocking change nothing that a condition variable counts.   *)
CondMutexSteps(t) == MutexLock(t) \/ MutexTryAgain(t) \/ MutexUnlock(t) \/ Return(t)

LEMMA MutexQuiet ==
  ASSUME NEW P, cpc \in [CondThreads -> P], NEW t \in CondThreads, CondMutexSteps(t)
  PROVE  /\ UNCHANGED condRest
         /\ cpc[t] \in {"out", "in", "relock"}
         /\ cpc' = cpc \/ \E w \in {"in", "out"} : cpc' = [cpc EXCEPT ![t] = w]
         /\ \A S : S \cap {"out", "in", "relock"} = {} => Standing(cpc', S) = Standing(cpc, S)
<1>1. /\ UNCHANGED condRest
      /\ cpc[t] \in {"out", "in", "relock"}
      /\ cpc' = cpc \/ \E w \in {"in", "out"} : cpc' = [cpc EXCEPT ![t] = w]
  BY DEF CondMutexSteps, MutexLock, MutexTryAgain, MutexUnlock, Return, At, condRest
<1>2. ASSUME NEW S, S \cap {"out", "in", "relock"} = {} PROVE Standing(cpc', S) = Standing(cpc, S)
  BY <1>1, <1>2 DEF Standing
<1>. QED  BY <1>1, <1>2

LEMMA WaitingIs == Waiting = Standing(cpc, {"ready", "asleep", "reset", "exchange"})
BY DEF Waiting, Standing

------------------------------------------------------------------------------
(* The native condition variables.                                          *)

NativeSteps(t) == NativeWake(t) \/ NativeWait(t) \/ NativeSignal(t) \/ NativeBroadcast(t)

LEMMA NativeFrom ==
  ASSUME cpc' \in [CondThreads -> NativePlaces], NEW a, Standing(cpc', {"asleep"}) = a,
         NEW w, cond' = [waiting |-> w], w \subseteq a,
         owed' \in Nat, owed' <= Cardinality(a \ w), must' \subseteq a \ w
  PROVE  NativeInv'
<1>1. cond'.waiting = w /\ a \subseteq CondThreads
  BY DEF Standing
<1>. QED  BY <1>1 DEF NativeInv, HistoryTyped

LEMMA NativeKeeps ==
  ASSUME NativeInv, NEW t \in CondThreads, csys \in Native, NativeSteps(t) \/ CondMutexSteps(t)
  PROVE  NativeInv'
<1>. DEFINE asleep == Standing(cpc, {"asleep"})
            released == asleep \ cond.waiting
<1>1. /\ cpc \in [CondThreads -> NativePlaces] /\ owed \in Nat /\ must \subseteq released
      /\ cond.waiting \subseteq asleep /\ owed <= Cardinality(released)
      /\ cond = [waiting |-> cond.waiting]
  BY DEF NativeInv, HistoryTyped
<1>2. /\ IsFiniteSet(released) /\ Cardinality(released) \in Nat
      /\ IsFiniteSet(asleep) /\ Cardinality(asleep) \in Nat
  <2>1. IsFiniteSet(asleep) /\ released \in SUBSET asleep
    BY StandingFinite
  <2>. QED  BY <2>1, FS_Subset, FS_CardinalityType
<1>3. Waiting = asleep
  BY <1>1 DEF Waiting, Standing, NativePlaces
<1>4. /\ t \in asleep <=> cpc[t] = "asleep"
      /\ \A w \in NativePlaces : cpc' = [cpc EXCEPT ![t] = w] =>
           /\ cpc' \in [CondThreads -> NativePlaces]
           /\ Standing(cpc', {"asleep"}) = IF w = "asleep" THEN asleep \cup {t} ELSE asleep \ {t}
  BY <1>1 DEF Standing
<1>5. cpc' = cpc => Standing(cpc', {"asleep"}) = asleep /\ cpc' \in [CondThreads -> NativePlaces]
  BY <1>1
<1>. HIDE DEF asleep
<1>6. CASE CondMutexSteps(t)
  <2>1. /\ UNCHANGED <<cond, owed, must>> /\ Standing(cpc', {"asleep"}) = asleep
        /\ cpc' \in [CondThreads -> NativePlaces]
    BY <1>1, <1>4, <1>5, <1>6, MutexQuiet DEF condRest, NativePlaces, asleep
  <2>. QED  BY <1>1, <2>1, NativeFrom
<1>7. CASE NativeWait(t)
  <2>1. /\ cpc[t] = "in" /\ cond' = [waiting |-> cond.waiting \cup {t}] /\ UNCHANGED <<owed, must>>
        /\ cpc' = [cpc EXCEPT ![t] = "asleep"]
    BY <1>7 DEF NativeWait, BeginWait, At
  <2>2. /\ Standing(cpc', {"asleep"}) = asleep \cup {t} /\ cpc' \in [CondThreads -> NativePlaces]
        /\ t \notin asleep
    BY <1>4, <2>1 DEF NativePlaces
  <2>3. (asleep \cup {t}) \ (cond.waiting \cup {t}) = released
    BY <2>2
  <2>. QED  BY <1>1, <2>1, <2>2, <2>3, NativeFrom
<1>8. CASE NativeWake(t)
  <2>1. /\ cpc[t] = "asleep" /\ cond' = [waiting |-> cond.waiting \ {t}]
        /\ cpc' = [cpc EXCEPT ![t] = "relock"] /\ must' = must \ {t}
        /\ t \in cond.waiting => owed' = owed
        /\ t \notin cond.waiting => owed' = IF owed > 0 THEN owed - 1 ELSE 0
    BY <1>8 DEF NativeWake, Wake, At
  <2>2. /\ Standing(cpc', {"asleep"}) = asleep \ {t} /\ cpc' \in [CondThreads -> NativePlaces]
        /\ t \in asleep
    BY <1>4, <2>1 DEF NativePlaces
  <2>3. (asleep \ {t}) \ (cond.waiting \ {t}) = released \ {t}
    OBVIOUS
  <2>4. owed' \in Nat /\ owed' <= Cardinality(released \ {t})
    <3>1. Cardinality(released \ {t}) =
            IF t \in released THEN Cardinality(released) - 1 ELSE Cardinality(released)
      BY <1>2, FS_RemoveElement
    <3>2. t \in released <=> t \notin cond.waiting
      BY <2>2
    <3>. HIDE DEF released
    <3>3. CASE t \in cond.waiting
      BY <1>1, <1>2, <2>1, <3>1, <3>2, <3>3
    <3>4. CASE t \notin cond.waiting
      <4>1. t \notin cond.waiting =>
              /\ Cardinality(released \ {t}) = Cardinality(released) - 1
              /\ Cardinality(released \ {t}) \in Nat
        BY <1>2, <3>1, <3>2, FS_RemoveElement, FS_CardinalityType
      <4>. QED  BY <1>1, <1>2, <2>1, <3>4, <4>1
    <3>. QED  BY <3>3, <3>4
  <2>. QED  BY <1>1, <2>1, <2>2, <2>3, <2>4, NativeFrom
<1>9. CASE NativeSignal(t)
  <2>1. /\ UNCHANGED <<cpc, must>>
        /\ owed' = IF owed < Cardinality(asleep) THEN owed + 1 ELSE owed
        /\ \/ cond.waiting = {} /\ cond' = cond
           \/ \E u \in cond.waiting : cond' = [waiting |-> cond.waiting \ {u}]
    BY <1>3, <1>9 DEF NativeSignal, OweOne
  <2>2. owed' \in Nat
    BY <1>1, <2>1
  <2>3. CASE cond.waiting = {} /\ cond' = cond
    <3>1. released = asleep
      BY <2>3
    <3>2. owed' <= Cardinality(released)
      BY <1>1, <1>2, <2>1, <3>1
    <3>. QED  BY <1>1, <1>5, <2>1, <2>2, <2>3, <3>2, NativeFrom
  <2>4. CASE \E u \in cond.waiting : cond' = [waiting |-> cond.waiting \ {u}]
    <3>1. PICK u \in cond.waiting : cond' = [waiting |-> cond.waiting \ {u}]
      BY <2>4
    <3>2. asleep \ (cond.waiting \ {u}) = released \cup {u} /\ u \notin released
      BY <1>1
    <3>3. Cardinality(released \cup {u}) = Cardinality(released) + 1
      BY <1>2, <3>2, FS_AddElement
    <3>4. owed' <= Cardinality(released \cup {u})
      BY <1>1, <1>2, <2>1, <3>3
    <3>. QED  BY <1>1, <1>5, <2>1, <2>2, <3>1, <3>2, <3>4, NativeFrom
  <2>. QED  BY <2>1, <2>3, <2>4
<1>10. CASE NativeBroadcast(t)
  <2>1. /\ UNCHANGED cpc /\ owed' = Cardinality(asleep) /\ must' = must \cup asleep
        /\ cond' = [waiting |-> {}]
    BY <1>3, <1>10 DEF NativeBroadcast, OweAll, NativeNew
  <2>2. asleep \ {} = asleep
    OBVIOUS
  <2>. QED  BY <1>1, <1>2, <1>5, <2>1, <2>2, NativeFrom
<1>. QED  BY <1>6, <1>7, <1>8, <1>9, <1>10 DEF NativeSteps

------------------------------------------------------------------------------
(* Windows XP, whose callers signal with the mutex held.                    *)

XpSteps(t) ==
  \/ XpWait(t) \/ XpTake(t) \/ XpWaitFails(t) \/ XpReturnFalse(t)
  \/ XpSignal(t) \/ XpBroadcastRead(t) \/ XpBroadcast(t)

LEMMA XpFrom ==
  ASSUME cpc' \in [CondThreads -> XpPlaces], mtx'.owner \in CondThreads \cup {NoOwner},
         \A u \in CondThreads : cpc'[u] \in {"in", "release"} => mtx'.owner = u,
         todo' \in [CondThreads -> Seq(Int)],
         NEW c \in Int, NEW s \in Nat, cond' = [waiters_count |-> c, waiters_sema |-> s],
         \A u \in CondThreads : cpc'[u] = "release" => todo'[u] = <<c>> /\ c > 0,
         must' \subseteq CondThreads, owed' \in Nat,
         NEW n, n = Cardinality(Standing(cpc', {"asleep"})),
         NEW m, m = Cardinality(Standing(cpc', {"failed"})),
         n + m = c + s, owed' <= n,
         (\A u \in CondThreads : cpc'[u] # "release") => owed' <= s
  PROVE  XpInv'
<1>1. \A u : (u \in Releasing' <=> u \in CondThreads /\ cpc'[u] = "release")
  BY DEF Releasing, Standing
<1>2. \A u \in Standing(cpc', {"in", "release"}) : mtx'.owner = u
  BY DEF Standing
<1>3. /\ cond'.waiters_count = c /\ cond'.waiters_sema = s
      /\ cond' \in [waiters_count : Int, waiters_sema : Nat]
  OBVIOUS
<1>4. Releasing' = {} => owed' <= cond'.waiters_sema
  BY <1>1, <1>3
<1>. QED  BY <1>1, <1>2, <1>3, <1>4 DEF XpInv, HistoryTyped

LEMMA XpOwner ==
  ASSUME XpInv, csys = "xp", "xp" \notin UnlockedOn, NEW t \in CondThreads, XpSteps(t) \/ CondMutexSteps(t)
  PROVE  /\ cpc' \in [CondThreads -> XpPlaces] /\ mtx'.owner \in CondThreads \cup {NoOwner}
         /\ \A u \in CondThreads : cpc'[u] \in {"in", "release"} => mtx'.owner = u
         /\ Caller(t) => cpc[t] = "in" /\ \A u \in CondThreads : cpc[u] # "release"
<1>1. /\ cpc \in [CondThreads -> XpPlaces] /\ mtx.owner \in CondThreads \cup {NoOwner}
      /\ \A u \in CondThreads : cpc[u] \in {"in", "release"} => mtx.owner = u
      /\ NoOwner \notin CondThreads
  BY CondAssumption DEF XpInv, Standing
<1>2. Caller(t) => cpc[t] = "in" /\ \A u \in CondThreads : cpc[u] # "release"
  BY <1>1 DEF Caller
<1>3. CASE mtx = Unlocked /\ mtx' = Locked(t) /\ cpc' = [cpc EXCEPT ![t] = "in"]
  <2>1. mtx.owner = NoOwner /\ mtx'.owner = t
    BY <1>3 DEF Unlocked, Locked
  <2>. QED  BY <1>1, <1>2, <1>3, <2>1 DEF XpPlaces, NativePlaces
<1>4. CASE /\ cpc[t] = "in" /\ mtx' = Unlocked
           /\ \E w \in {"out", "asleep"} : cpc' = [cpc EXCEPT ![t] = w]
  <2>1. mtx'.owner = NoOwner
    BY <1>4 DEF Unlocked
  <2>. QED  BY <1>1, <1>2, <1>4, <2>1 DEF XpPlaces, NativePlaces
<1>5. CASE /\ mtx'.owner = mtx.owner
           /\ \/ cpc' = cpc
              \/ \E w \in {"relock", "failed"} : cpc' = [cpc EXCEPT ![t] = w]
              \/ cpc[t] = "in" /\ cpc' = [cpc EXCEPT ![t] = "release"]
              \/ cpc[t] = "release" /\ cpc' = [cpc EXCEPT ![t] = "in"]
  BY <1>1, <1>2, <1>5 DEF XpPlaces, NativePlaces
<1>6. CondMutexSteps(t) =>
        \/ mtx = Unlocked /\ mtx' = Locked(t) /\ cpc' = [cpc EXCEPT ![t] = "in"]
        \/ cpc[t] = "in" /\ mtx' = Unlocked /\ cpc' = [cpc EXCEPT ![t] = "out"]
        \/ \E d : mtx' = [mtx EXCEPT !.depth = d] /\ cpc' = cpc
  BY DEF CondMutexSteps, MutexLock, MutexTryAgain, MutexUnlock, Return, At
<1>7. ASSUME NEW d, mtx' = [mtx EXCEPT !.depth = d] PROVE mtx'.owner = mtx.owner
  BY <1>7
<1>8. XpWait(t) => cpc[t] = "in" /\ mtx' = Unlocked /\ cpc' = [cpc EXCEPT ![t] = "asleep"]
  BY DEF XpWait, BeginWait, At
<1>9. XpTake(t) \/ XpWaitFails(t) =>
        mtx' = mtx /\ \E w \in {"relock", "failed"} : cpc' = [cpc EXCEPT ![t] = w]
  BY DEF XpTake, XpWaitFails, At
<1>10. XpReturnFalse(t) => mtx = Unlocked /\ mtx' = Locked(t) /\ cpc' = [cpc EXCEPT ![t] = "in"]
  BY DEF XpReturnFalse, At
<1>11. XpSignal(t) => mtx' = mtx /\ cpc' = cpc
  BY DEF XpSignal
<1>12. XpBroadcastRead(t) => mtx' = mtx /\ cpc[t] = "in" /\ cpc' = [cpc EXCEPT ![t] = "release"]
  BY <1>2 DEF XpBroadcastRead, At
<1>13. XpBroadcast(t) => mtx' = mtx /\ cpc[t] = "release" /\ cpc' = [cpc EXCEPT ![t] = "in"]
  BY <1>1 DEF XpBroadcast, At, Back
<1>. QED  BY <1>3, <1>4, <1>5, <1>6, <1>7, <1>8, <1>9, <1>10, <1>11, <1>12, <1>13 DEF XpSteps

LEMMA XpKeeps ==
  ASSUME XpInv, csys = "xp", "xp" \notin UnlockedOn, NEW t \in CondThreads, XpSteps(t) \/ CondMutexSteps(t)
  PROVE  XpInv'
<1>1. PICK n, m, c, s :
        /\ n = Cardinality(Standing(cpc, {"asleep"})) /\ m = Cardinality(Standing(cpc, {"failed"}))
        /\ c = cond.waiters_count /\ s = cond.waiters_sema
  OBVIOUS
<1>2. n \in Nat /\ m \in Nat
  BY <1>1, StandingFinite
<1>3. /\ cpc \in [CondThreads -> XpPlaces] /\ todo \in [CondThreads -> Seq(Int)]
      /\ owed \in Nat /\ must \subseteq CondThreads
      /\ c \in Int /\ s \in Nat /\ cond = [waiters_count |-> c, waiters_sema |-> s]
      /\ n + m = c + s /\ owed <= n
  BY <1>1 DEF XpInv, HistoryTyped
<1>4. \A u \in CondThreads : cpc[u] = "release" => todo[u] = <<c>> /\ c > 0
  BY <1>1 DEF XpInv, Releasing, Standing
<1>5. (\A u \in CondThreads : cpc[u] # "release") => owed <= s
  BY <1>1 DEF XpInv, Releasing, Standing
<1>6. Cardinality(Waiting) = n
  <2>1. Waiting = Standing(cpc, {"asleep"})
    BY <1>3 DEF Waiting, Standing, XpPlaces, NativePlaces
  <2>. QED  BY <1>1, <2>1
<1>7. /\ cpc' \in [CondThreads -> XpPlaces] /\ mtx'.owner \in CondThreads \cup {NoOwner}
      /\ \A u \in CondThreads : cpc'[u] \in {"in", "release"} => mtx'.owner = u
      /\ Caller(t) => cpc[t] = "in" /\ \A u \in CondThreads : cpc[u] # "release"
  BY XpOwner
<1>8. PICK a, f : a = Cardinality(Standing(cpc', {"asleep"})) /\ f = Cardinality(Standing(cpc', {"failed"}))
  OBVIOUS
<1>9. ASSUME NEW w, cpc' = [cpc EXCEPT ![t] = w]
      PROVE  /\ a = IF w = "asleep" THEN IF cpc[t] = "asleep" THEN n ELSE n + 1
                    ELSE IF cpc[t] = "asleep" THEN n - 1 ELSE n
             /\ f = IF w = "failed" THEN IF cpc[t] = "failed" THEN m ELSE m + 1
                    ELSE IF cpc[t] = "failed" THEN m - 1 ELSE m
             /\ \A u \in CondThreads : u # t => cpc'[u] = cpc[u]
             /\ cpc'[t] = w
  <2>1. \A S : Cardinality(Standing(cpc', S)) =
           IF w \in S
             THEN IF cpc[t] \in S THEN Cardinality(Standing(cpc, S)) ELSE Cardinality(Standing(cpc, S)) + 1
             ELSE IF cpc[t] \in S THEN Cardinality(Standing(cpc, S)) - 1 ELSE Cardinality(Standing(cpc, S))
    BY <1>3, <1>9, StandingCount
  <2>2. /\ a = IF w \in {"asleep"} THEN IF cpc[t] \in {"asleep"} THEN n ELSE n + 1
               ELSE IF cpc[t] \in {"asleep"} THEN n - 1 ELSE n
        /\ f = IF w \in {"failed"} THEN IF cpc[t] \in {"failed"} THEN m ELSE m + 1
               ELSE IF cpc[t] \in {"failed"} THEN m - 1 ELSE m
    BY <1>1, <1>8, <2>1
  <2>3. cpc'[t] = w /\ \A u \in CondThreads : u # t => cpc'[u] = cpc[u]
    BY <1>3, <1>9
  <2>. QED  BY <2>2, <2>3
<1>10. CASE CondMutexSteps(t)
  <2>1. /\ UNCHANGED <<cond, todo, owed, must>> /\ a = n /\ f = m /\ cpc[t] \in {"out", "in", "relock"}
        /\ \A S : S \cap {"out", "in", "relock"} = {} => Standing(cpc', S) = Standing(cpc, S)
    BY <1>1, <1>3, <1>8, <1>10, MutexQuiet DEF condRest
  <2>2. \A u \in CondThreads : cpc'[u] = "release" <=> cpc[u] = "release"
    <3>1. Standing(cpc', {"release"}) = Standing(cpc, {"release"})
      BY <2>1
    <3>. QED  BY <3>1 DEF Standing
  <2>. QED  BY <1>3, <1>4, <1>5, <1>7, <1>8, <2>1, <2>2, XpFrom
<1>11. CASE XpWait(t)
  <2>1. /\ cpc[t] = "in" /\ cpc' = [cpc EXCEPT ![t] = "asleep"] /\ UNCHANGED <<todo, owed, must>>
        /\ cond' = [cond EXCEPT !.waiters_count = @ + 1] /\ mtx' = Unlocked
    BY <1>11 DEF XpWait, BeginWait, At
  <2>2. cond' = [waiters_count |-> c + 1, waiters_sema |-> s] /\ a = n + 1 /\ f = m
    BY <1>3, <1>9, <2>1
  <2>3. \A u \in CondThreads : cpc'[u] # "release"
    <3>1. mtx'.owner = NoOwner
      BY <2>1 DEF Unlocked
    <3>. QED  BY <1>7, <3>1, CondAssumption
  <2>4. owed <= s
    <3>1. Caller(t)
      BY <2>1 DEF Caller
    <3>. QED  BY <1>5, <1>7, <3>1
  <2>5. c + 1 \in Int /\ a + f = (c + 1) + s /\ owed <= a
    BY <1>2, <1>3, <2>2
  <2>. QED  BY <1>3, <1>7, <1>8, <2>1, <2>2, <2>3, <2>4, <2>5, XpFrom
<1>12. CASE XpTake(t)
  <2>1. /\ cpc[t] = "asleep" /\ cpc' = [cpc EXCEPT ![t] = "relock"] /\ todo' = todo /\ must' = must \ {t}
        /\ owed' = (IF owed > 0 THEN owed - 1 ELSE 0) /\ s > 0
        /\ cond' = [cond EXCEPT !.waiters_sema = @ - 1]
    BY <1>1, <1>12 DEF XpTake, Wake, At
  <2>2. /\ cond' = [waiters_count |-> c, waiters_sema |-> s - 1] /\ a = n - 1 /\ f = m /\ s - 1 \in Nat
        /\ \A u \in CondThreads : cpc'[u] = "release" <=> cpc[u] = "release"
    <3>1. cond' = [waiters_count |-> c, waiters_sema |-> s - 1] /\ s - 1 \in Nat
      BY <1>3, <2>1
    <3>. QED  BY <1>9, <2>1, <3>1
  <2>3. /\ owed' \in Nat /\ owed' <= a /\ a + f = c + (s - 1)
        /\ (\A u \in CondThreads : cpc'[u] # "release") => owed' <= s - 1
    <3>1. n > 0
      <4>1. a \in Nat
        BY <1>8, StandingFinite
      <4>. QED  BY <1>2, <2>2, <4>1
    <3>2. owed <= s => owed' <= s - 1
      BY <1>3, <2>1
    <3>3. owed' \in Nat /\ owed' <= n - 1
      BY <1>2, <1>3, <2>1, <3>1
    <3>4. (n - 1) + m = c + (s - 1)
      BY <1>2, <1>3
    <3>. QED  BY <1>5, <2>2, <3>2, <3>3, <3>4
  <2>. QED  BY <1>3, <1>4, <1>7, <1>8, <2>1, <2>2, <2>3, XpFrom
<1>13. CASE XpWaitFails(t)
  <2>1. /\ cpc[t] = "asleep" /\ cpc' = [cpc EXCEPT ![t] = "failed"] /\ UNCHANGED <<todo, cond>>
        /\ must' = must \ {t} /\ owed' = IF owed < n THEN owed ELSE owed - 1
    BY <1>6, <1>13 DEF XpWaitFails, At
  <2>2. /\ a = n - 1 /\ f = m + 1
        /\ \A u \in CondThreads : cpc'[u] = "release" <=> cpc[u] = "release"
    BY <1>9, <2>1
  <2>3. owed' \in Nat /\ owed' <= a /\ owed' <= owed /\ a + f = c + s
    <3>1. a \in Nat
      BY <1>8, StandingFinite
    <3>. QED  BY <1>2, <1>3, <2>1, <2>2, <3>1
  <2>4. (\A u \in CondThreads : cpc'[u] # "release") => owed' <= s
    BY <1>3, <1>5, <2>2, <2>3
  <2>. QED  BY <1>3, <1>4, <1>7, <1>8, <2>1, <2>2, <2>3, <2>4, XpFrom
<1>14. CASE XpReturnFalse(t)
  <2>1. /\ cpc[t] = "failed" /\ cpc' = [cpc EXCEPT ![t] = "in"] /\ UNCHANGED <<todo, owed, must>>
        /\ cond' = [cond EXCEPT !.waiters_count = @ - 1] /\ mtx = Unlocked /\ mtx' = Locked(t)
    BY <1>14 DEF XpReturnFalse, At
  <2>2. cond' = [waiters_count |-> c - 1, waiters_sema |-> s] /\ a = n /\ f = m - 1
    BY <1>3, <1>9, <2>1
  <2>3. \A u \in CondThreads : cpc[u] # "release" /\ cpc'[u] # "release"
    <3>1. mtx.owner = NoOwner
      BY <2>1 DEF Unlocked
    <3>2. \A u \in CondThreads : cpc[u] # "release"
      BY <3>1, CondAssumption DEF XpInv, Standing
    <3>. QED  BY <1>9, <2>1, <3>2
  <2>4. owed <= s
    BY <1>5, <2>3
  <2>5. c - 1 \in Int /\ a + f = (c - 1) + s /\ owed <= a
    BY <1>2, <1>3, <2>2
  <2>. QED  BY <1>3, <1>7, <1>8, <2>1, <2>2, <2>3, <2>4, <2>5, XpFrom
<1>15. CASE XpSignal(t)
  <2>1. /\ Caller(t) /\ UNCHANGED <<cpc, todo, must>> /\ owed' = IF owed < n THEN owed + 1 ELSE owed
        /\ cond' = IF c > 0 THEN [waiters_count |-> c - 1, waiters_sema |-> s + 1] ELSE cond
    BY <1>1, <1>6, <1>15 DEF XpSignal, OweOne
  <2>2. /\ a = n /\ f = m /\ owed <= s
        /\ \A u \in CondThreads : cpc[u] # "release" /\ cpc'[u] # "release"
    BY <1>1, <1>5, <1>7, <1>8, <2>1
  <2>3. owed' \in Nat /\ owed' <= n
    BY <1>2, <1>3, <2>1
  <2>4. CASE c > 0
    <3>1. owed' <= s + 1 /\ n + m = (c - 1) + (s + 1) /\ c - 1 \in Int /\ s + 1 \in Nat
      BY <1>2, <1>3, <2>1, <2>2
    <3>2. cond' = [waiters_count |-> c - 1, waiters_sema |-> s + 1]
      BY <2>1, <2>4
    <3>. QED  BY <1>3, <1>7, <1>8, <2>1, <2>2, <2>3, <3>1, <3>2, XpFrom
  <2>5. CASE ~(c > 0)
    <3>1. owed' <= s
      BY <1>2, <1>3, <2>3, <2>5
    <3>2. cond' = [waiters_count |-> c, waiters_sema |-> s]
      BY <1>3, <2>1, <2>5
    <3>. QED  BY <1>3, <1>7, <1>8, <2>1, <2>2, <2>3, <3>1, <3>2, XpFrom
  <2>. QED  BY <2>4, <2>5
<1>16. CASE XpBroadcastRead(t)
  <2>1. /\ Caller(t) /\ cpc' = [cpc EXCEPT ![t] = "release"] /\ cond' = cond /\ c > 0
        /\ owed' = n /\ must' = must \cup Waiting /\ todo' = [todo EXCEPT ![t] = <<c>>]
    BY <1>1, <1>6, <1>16 DEF XpBroadcastRead, OweAll, At
  <2>2. /\ a = n /\ f = m /\ cpc'[t] = "release"
        /\ \A u \in CondThreads : u # t => cpc'[u] # "release"
    BY <1>7, <1>9, <2>1
  <2>3. todo' \in [CondThreads -> Seq(Int)] /\ todo'[t] = <<c>>
    <3>1. <<c>> \in Seq(Int)
      BY <1>3
    <3>. QED  BY <1>3, <2>1, <3>1
  <2>4. must' \subseteq CondThreads
    BY <1>3, <2>1 DEF Waiting
  <2>5. /\ \A u \in CondThreads : cpc'[u] = "release" => todo'[u] = <<c>> /\ c > 0
        /\ ~ \A u \in CondThreads : cpc'[u] # "release"
        /\ owed' \in Nat /\ owed' <= a /\ a + f = c + s
    BY <1>2, <1>3, <2>1, <2>2, <2>3
  <2>6. cond' = [waiters_count |-> c, waiters_sema |-> s]
    BY <1>3, <2>1
  <2>. QED  BY <1>3, <1>7, <1>8, <2>3, <2>4, <2>5, <2>6, XpFrom
<1>17. CASE XpBroadcast(t)
  <2>1. /\ cpc[t] = "release" /\ UNCHANGED <<owed, must, mtx>> /\ todo' = [todo EXCEPT ![t] = <<>>]
        /\ cond' = [waiters_count |-> 0, waiters_sema |-> s + Head(todo[t])]
        /\ \E w : cpc' = [cpc EXCEPT ![t] = w] /\ w = (IF mtx.owner = t THEN "in" ELSE "out")
    BY <1>1, <1>17 DEF XpBroadcast, At, Back
  <2>2. Head(todo[t]) = c /\ c > 0
    BY <1>4, <2>1
  <2>3. todo' \in [CondThreads -> Seq(Int)]
    <3>1. <<>> \in Seq(Int)
      OBVIOUS
    <3>. QED  BY <1>3, <2>1, <3>1
  <2>4. /\ a = n /\ f = m
        /\ \A u \in CondThreads : cpc'[u] # "release"
    <3>1. PICK w : cpc' = [cpc EXCEPT ![t] = w] /\ w \in {"in", "out"}
      BY <2>1
    <3>2. a = n /\ f = m /\ cpc'[t] # "release" /\ \A u \in CondThreads : u # t => cpc'[u] = cpc[u]
      BY <1>9, <2>1, <3>1
    <3>3. \A u \in CondThreads : cpc[u] = "release" => u = t
      BY <2>1 DEF XpInv, Standing
    <3>. QED  BY <3>2, <3>3
  <2>5. owed <= s + c /\ n + m = 0 + (s + c) /\ s + c \in Nat
    BY <1>2, <1>3, <2>2
  <2>6. cond' = [waiters_count |-> 0, waiters_sema |-> s + c]
    BY <2>1, <2>2
  <2>7. owed' \in Nat /\ owed' <= a /\ owed' <= s + c /\ a + f = 0 + (s + c) /\ must' \subseteq CondThreads
    BY <1>3, <2>1, <2>4, <2>5
  <2>. QED  BY <1>7, <1>8, <2>3, <2>4, <2>5, <2>6, <2>7, XpFrom
<1>. QED  BY <1>10, <1>11, <1>12, <1>13, <1>14, <1>15, <1>16, <1>17 DEF XpSteps

------------------------------------------------------------------------------
(* OS/2.                                                                    *)

Os2Steps(t) ==
  \/ Os2Wait(t) \/ Os2Pass(t) \/ Os2Reset(t) \/ Os2Exchange(t)
  \/ Os2Interrupted(t) \/ Os2Leave(t)
  \/ Os2Signal(t) \/ Os2Broadcast(t) \/ Os2Post(t) \/ Os2Again(t)

Os2Counted == {"asleep", "reset", "exchange", "leave"}

LEMMA Os2From ==
  ASSUME cpc' \in [CondThreads -> Os2Places], todo' \in [CondThreads -> Seq(CondThreads)],
         cond' \in [waiters_count : Int, signaled : {0, 1}, posted : BOOLEAN],
         cond'.waiters_count = Cardinality(Standing(cpc', Os2Counted)),
         owed' \in Nat, must' \subseteq CondThreads,
         \A u \in must' : cpc'[u] \in {"asleep", "reset", "exchange"},
         must' # {} => \E u \in CondThreads : cpc'[u] \in {"post", "again"} /\ todo'[u] # <<>>
  PROVE  Os2Inv'
<1>1. must' \subseteq Waiting'
  BY DEF Waiting
<1>2. must' # {} => Broadcasting' # {}
  BY DEF Broadcasting, Standing
<1>. QED  BY <1>1, <1>2 DEF Os2Inv, HistoryTyped, Os2Counted

LEMMA Os2Keeps ==
  ASSUME Os2Inv, NEW t \in CondThreads, csys = "os2", Os2Steps(t) \/ CondMutexSteps(t)
  PROVE  Os2Inv'
<1>1. /\ cpc \in [CondThreads -> Os2Places] /\ todo \in [CondThreads -> Seq(CondThreads)]
      /\ cond \in [waiters_count : Int, signaled : {0, 1}, posted : BOOLEAN]
      /\ cond.waiters_count = Cardinality(Standing(cpc, Os2Counted))
      /\ owed \in Nat /\ must \subseteq CondThreads
  BY DEF Os2Inv, HistoryTyped, Os2Counted
<1>2. \A u \in must : cpc[u] \in {"asleep", "reset", "exchange"}
  BY <1>1 DEF Os2Inv, Waiting, Os2Places, NativePlaces
<1>3. must # {} => \E u \in CondThreads : cpc[u] \in {"post", "again"} /\ todo[u] # <<>>
  BY DEF Os2Inv, Broadcasting, Standing
<1>4. Cardinality(Standing(cpc, Os2Counted)) \in Nat
  BY StandingFinite
<1>5. ASSUME NEW w, cpc' = [cpc EXCEPT ![t] = w]
      PROVE  /\ w \in Os2Counted /\ cpc[t] \in Os2Counted =>
                  Cardinality(Standing(cpc', Os2Counted)) = Cardinality(Standing(cpc, Os2Counted))
             /\ w \notin Os2Counted /\ cpc[t] \notin Os2Counted =>
                  Cardinality(Standing(cpc', Os2Counted)) = Cardinality(Standing(cpc, Os2Counted))
             /\ w \in Os2Counted /\ cpc[t] \notin Os2Counted =>
                  Cardinality(Standing(cpc', Os2Counted)) = Cardinality(Standing(cpc, Os2Counted)) + 1
             /\ w \notin Os2Counted /\ cpc[t] \in Os2Counted =>
                  Cardinality(Standing(cpc', Os2Counted)) = Cardinality(Standing(cpc, Os2Counted)) - 1
             /\ cpc'[t] = w /\ \A u \in CondThreads : u # t => cpc'[u] = cpc[u]
             /\ w \in Os2Places => cpc' \in [CondThreads -> Os2Places]
  <2>1. cpc'[t] = w /\ (\A u \in CondThreads : u # t => cpc'[u] = cpc[u])
        /\ (w \in Os2Places => cpc' \in [CondThreads -> Os2Places])
    BY <1>1, <1>5
  <2>. QED  BY <1>1, <1>5, <2>1, StandingCount
<1>6. CASE CondMutexSteps(t)
  <2>1. /\ UNCHANGED <<cond, todo, owed, must>> /\ cpc[t] \in {"out", "in", "relock"}
        /\ cpc' = cpc \/ \E w \in {"in", "out"} : cpc' = [cpc EXCEPT ![t] = w]
    BY <1>1, <1>6, MutexQuiet DEF condRest
  <2>2. /\ cpc' \in [CondThreads -> Os2Places]
        /\ Cardinality(Standing(cpc', Os2Counted)) = Cardinality(Standing(cpc, Os2Counted))
        /\ \A u \in CondThreads : u # t => cpc'[u] = cpc[u]
    <3>1. CASE cpc' = cpc
      BY <1>1, <3>1
    <3>2. CASE \E w \in {"in", "out"} : cpc' = [cpc EXCEPT ![t] = w]
      BY <1>5, <2>1, <3>2 DEF Os2Counted, Os2Places, NativePlaces
    <3>. QED  BY <2>1, <3>1, <3>2
  <2>3. t \notin must
    BY <1>2, <2>1
  <2>. QED  BY <1>1, <1>2, <1>3, <2>1, <2>2, <2>3, Os2From
<1>7. CASE Os2Wait(t)
  <2>1. /\ cpc[t] = "in" /\ UNCHANGED <<todo, owed, must>> /\ cpc' = [cpc EXCEPT ![t] = "asleep"]
        /\ cond' = [cond EXCEPT !.waiters_count = @ + 1]
    BY <1>7 DEF Os2Wait, BeginWait, At
  <2>2. /\ cpc' \in [CondThreads -> Os2Places]
        /\ Cardinality(Standing(cpc', Os2Counted)) = Cardinality(Standing(cpc, Os2Counted)) + 1
        /\ \A u \in CondThreads : u # t => cpc'[u] = cpc[u]
    BY <1>5, <2>1 DEF Os2Counted, Os2Places, NativePlaces
  <2>3. /\ cond' \in [waiters_count : Int, signaled : {0, 1}, posted : BOOLEAN]
        /\ cond'.waiters_count = cond.waiters_count + 1
    <3>1. PICK n \in Int : n = cond.waiters_count + 1
      BY <1>1
    <3>2. cond' = [cond EXCEPT !.waiters_count = n]
      BY <1>1, <2>1, <3>1
    <3>. QED  BY <1>1, <3>1, <3>2
  <2>4. t \notin must
    BY <1>2, <2>1
  <2>. QED  BY <1>1, <1>2, <1>3, <2>1, <2>2, <2>3, <2>4, Os2From
<1>8. CASE Os2Pass(t) \/ Os2Reset(t)
  <2>1. /\ cpc[t] \in {"asleep", "reset"} /\ UNCHANGED <<todo, owed, must>>
        /\ \E w \in {"reset", "exchange"} : cpc' = [cpc EXCEPT ![t] = w]
        /\ cond' = cond \/ cond' = [cond EXCEPT !.posted = FALSE]
    BY <1>8 DEF Os2Pass, Os2Reset, At, condRest
  <2>2. /\ cpc' \in [CondThreads -> Os2Places] /\ cpc'[t] \in {"reset", "exchange"}
        /\ Cardinality(Standing(cpc', Os2Counted)) = Cardinality(Standing(cpc, Os2Counted))
        /\ \A u \in CondThreads : u # t => cpc'[u] = cpc[u]
    BY <1>5, <2>1 DEF Os2Counted, Os2Places, NativePlaces
  <2>3. /\ cond' \in [waiters_count : Int, signaled : {0, 1}, posted : BOOLEAN]
        /\ cond'.waiters_count = cond.waiters_count
    BY <1>1, <2>1
  <2>. QED  BY <1>1, <1>2, <1>3, <2>1, <2>2, <2>3, Os2From
<1>9. CASE Os2Exchange(t)
  <2>1. /\ cpc[t] = "exchange" /\ UNCHANGED todo /\ cond' = [cond EXCEPT !.signaled = 0]
        /\ \/ cpc' = [cpc EXCEPT ![t] = "leave"] /\ must' = must \ {t}
           \/ cpc' = [cpc EXCEPT ![t] = "asleep"] /\ must' = must
        /\ owed' = owed \/ owed' = IF owed > 0 THEN owed - 1 ELSE 0
    BY <1>9 DEF Os2Exchange, Wake, At
  <2>2. /\ cpc' \in [CondThreads -> Os2Places]
        /\ Cardinality(Standing(cpc', Os2Counted)) = Cardinality(Standing(cpc, Os2Counted))
        /\ \A u \in CondThreads : u # t => cpc'[u] = cpc[u]
        /\ cpc'[t] = "asleep" \/ t \notin must'
    BY <1>5, <2>1 DEF Os2Counted, Os2Places, NativePlaces
  <2>3. /\ cond' \in [waiters_count : Int, signaled : {0, 1}, posted : BOOLEAN]
        /\ cond'.waiters_count = cond.waiters_count
    BY <1>1, <2>1
  <2>4. owed' \in Nat /\ must' \subseteq must
    BY <1>1, <2>1
  <2>. QED  BY <1>1, <1>2, <1>3, <2>1, <2>2, <2>3, <2>4, Os2From
<1>10. CASE Os2Interrupted(t)
  <2>1. /\ cpc[t] = "asleep" /\ UNCHANGED <<todo, cond>> /\ must' = must \ {t}
        /\ cpc' = [cpc EXCEPT ![t] = "leave"] /\ owed' = IF owed > 0 THEN owed - 1 ELSE 0
    BY <1>10 DEF Os2Interrupted, Wake, At
  <2>2. /\ cpc' \in [CondThreads -> Os2Places]
        /\ Cardinality(Standing(cpc', Os2Counted)) = Cardinality(Standing(cpc, Os2Counted))
        /\ \A u \in CondThreads : u # t => cpc'[u] = cpc[u]
    BY <1>5, <2>1 DEF Os2Counted, Os2Places, NativePlaces
  <2>3. owed' \in Nat
    BY <1>1, <2>1
  <2>. QED  BY <1>1, <1>2, <1>3, <2>1, <2>2, <2>3, Os2From
<1>11. CASE Os2Leave(t)
  <2>1. /\ cpc[t] = "leave" /\ UNCHANGED <<todo, owed, must>> /\ cpc' = [cpc EXCEPT ![t] = "relock"]
        /\ cond' = [cond EXCEPT !.waiters_count = @ - 1]
    BY <1>11 DEF Os2Leave, At
  <2>2. /\ cpc' \in [CondThreads -> Os2Places]
        /\ Cardinality(Standing(cpc', Os2Counted)) = Cardinality(Standing(cpc, Os2Counted)) - 1
        /\ \A u \in CondThreads : u # t => cpc'[u] = cpc[u]
    BY <1>5, <2>1 DEF Os2Counted, Os2Places, NativePlaces
  <2>3. /\ cond' \in [waiters_count : Int, signaled : {0, 1}, posted : BOOLEAN]
        /\ cond'.waiters_count = cond.waiters_count - 1
    <3>1. PICK n \in Int : n = cond.waiters_count - 1
      BY <1>1
    <3>2. cond' = [cond EXCEPT !.waiters_count = n]
      BY <1>1, <2>1, <3>1
    <3>. QED  BY <1>1, <3>1, <3>2
  <2>4. t \notin must
    BY <1>2, <2>1
  <2>. QED  BY <1>1, <1>2, <1>3, <2>1, <2>2, <2>3, <2>4, Os2From
<1>12. CASE Os2Signal(t) \/ Os2Broadcast(t)
  <2>1. /\ cpc[t] \in {"in", "out"} /\ cpc' = [cpc EXCEPT ![t] = "post"]
        /\ cond' = [cond EXCEPT !.signaled = 1]
        /\ \/ todo' = todo /\ must' = must /\ owed' \in {owed, owed + 1}
           \/ todo' = [todo EXCEPT ![t] = <<t>>] /\ must' = must \cup Waiting /\ owed' = Cardinality(Waiting)
    BY <1>12 DEF Os2Signal, Os2Broadcast, Caller, OweOne, OweAll, At
  <2>2. /\ cpc' \in [CondThreads -> Os2Places] /\ cpc'[t] = "post"
        /\ Cardinality(Standing(cpc', Os2Counted)) = Cardinality(Standing(cpc, Os2Counted))
        /\ \A u \in CondThreads : u # t => cpc'[u] = cpc[u]
    BY <1>5, <2>1 DEF Os2Counted, Os2Places, NativePlaces
  <2>3. /\ cond' \in [waiters_count : Int, signaled : {0, 1}, posted : BOOLEAN]
        /\ cond'.waiters_count = cond.waiters_count
    BY <1>1, <2>1
  <2>4. /\ todo' \in [CondThreads -> Seq(CondThreads)]
        /\ \/ todo' = todo /\ must' = must
           \/ todo'[t] # <<>> /\ must' = must \cup Waiting
    <3>1. <<t>> \in Seq(CondThreads) /\ <<t>> # <<>>
      OBVIOUS
    <3>. QED  BY <1>1, <2>1, <3>1
  <2>5. owed' \in Nat
    <3>1. Cardinality(Waiting) \in Nat
      BY WaitingIs, StandingFinite
    <3>. QED  BY <1>1, <2>1, <3>1
  <2>6. /\ Waiting \subseteq CondThreads /\ t \notin Waiting /\ t \notin must
        /\ \A u \in Waiting : cpc[u] \in {"asleep", "reset", "exchange"}
    BY <1>1, <1>2, <2>1 DEF Waiting, Os2Places, NativePlaces
  <2>. QED  BY <1>1, <1>2, <1>3, <2>1, <2>2, <2>3, <2>4, <2>5, <2>6, Os2From
<1>13. CASE Os2Post(t)
  <2>1. /\ cpc[t] = "post" /\ UNCHANGED <<todo, owed, must>> /\ cond' = [cond EXCEPT !.posted = TRUE]
        /\ cpc' = [u \in CondThreads |->
               IF u = t THEN (IF todo[t] # <<>> THEN "again"
                              ELSE IF mtx.owner = t THEN "in" ELSE "out")
               ELSE IF cpc[u] = "asleep" THEN "reset" ELSE cpc[u]]
    BY <1>13 DEF Os2Post
  <2>2. /\ cpc'[t] \in {"again", "in", "out"} /\ (todo[t] # <<>> => cpc'[t] = "again")
        /\ \A u \in CondThreads : u # t => cpc'[u] = IF cpc[u] = "asleep" THEN "reset" ELSE cpc[u]
    BY <2>1
  <2>3. cpc' \in [CondThreads -> Os2Places]
    BY <1>1, <2>1 DEF Os2Places, NativePlaces
  <2>4. Standing(cpc', Os2Counted) = Standing(cpc, Os2Counted)
    BY <2>1, <2>2 DEF Standing, Os2Counted
  <2>5. /\ cond' \in [waiters_count : Int, signaled : {0, 1}, posted : BOOLEAN]
        /\ cond'.waiters_count = cond.waiters_count
    BY <1>1, <2>1
  <2>6. t \notin must
    BY <1>2, <2>1
  <2>. QED  BY <1>1, <1>2, <1>3, <2>1, <2>2, <2>3, <2>4, <2>5, <2>6, Os2From
<1>14. CASE Os2Again(t)
  <2>1. /\ cpc[t] = "again" /\ UNCHANGED <<owed, must>>
        /\ cond.waiters_count > 0 =>
             cond' = [cond EXCEPT !.signaled = 1] /\ cpc' = [cpc EXCEPT ![t] = "post"] /\ todo' = todo
        /\ ~(cond.waiters_count > 0) =>
             /\ cond' = cond /\ todo' = [todo EXCEPT ![t] = <<>>]
             /\ \E w \in {"in", "out"} : cpc' = [cpc EXCEPT ![t] = w]
    BY <1>14 DEF Os2Again, Back, At
  <2>2. /\ cpc' \in [CondThreads -> Os2Places]
        /\ Cardinality(Standing(cpc', Os2Counted)) = Cardinality(Standing(cpc, Os2Counted))
        /\ \A u \in CondThreads : u # t => cpc'[u] = cpc[u]
        /\ cond.waiters_count > 0 => cpc'[t] = "post"
    BY <1>5, <2>1 DEF Os2Counted, Os2Places, NativePlaces
  <2>3. /\ cond' \in [waiters_count : Int, signaled : {0, 1}, posted : BOOLEAN]
        /\ cond'.waiters_count = cond.waiters_count
    BY <1>1, <2>1
  <2>4. t \notin must
    BY <1>2, <2>1
  <2>5. todo' \in [CondThreads -> Seq(CondThreads)]
    <3>1. <<>> \in Seq(CondThreads)
      OBVIOUS
    <3>. QED  BY <1>1, <2>1, <3>1
  <2>6. CASE cond.waiters_count > 0
    BY <1>1, <1>2, <1>3, <2>1, <2>2, <2>3, <2>4, <2>5, <2>6, Os2From
  <2>7. CASE ~(cond.waiters_count > 0)
    <3>1. Cardinality(Standing(cpc, Os2Counted)) = 0 /\ IsFiniteSet(Standing(cpc, Os2Counted))
      BY <1>1, <1>4, <2>7, StandingFinite
    <3>2. Standing(cpc, Os2Counted) = {}
      BY <3>1, FS_EmptySet
    <3>3. must = {}
      BY <1>1, <1>2, <3>2 DEF Standing, Os2Counted
    <3>. QED  BY <1>1, <2>1, <2>2, <2>3, <2>5, <3>3, Os2From
  <2>. QED  BY <2>6, <2>7
<1>. QED  BY <1>6, <1>7, <1>8, <1>9, <1>10, <1>11, <1>12, <1>13, <1>14 DEF Os2Steps

------------------------------------------------------------------------------
(* A new condition variable, with nobody using it.                          *)
LEMMA InitCond == CondInit => CondIInv
<1>. SUFFICES ASSUME CondInit PROVE CondIInv
  OBVIOUS
<1>1. /\ cpc = [t \in CondThreads |-> "out"] /\ todo = [t \in CondThreads |-> <<>>]
      /\ owed = 0 /\ must = {} /\ mtx = Unlocked /\ cond = CondNew(csys) /\ csys \in CondSystems
  BY DEF CondInit
<1>2. \A S : "out" \notin S => Standing(cpc, S) = {}
  BY <1>1 DEF Standing
<1>3. Cardinality({}) = 0 /\ HistoryTyped
  BY <1>1, FS_EmptySet DEF HistoryTyped
<1>4. ASSUME csys \in Native PROVE NativeInv
  <2>1. cond = [waiting |-> {}]
    BY <1>1, <1>4 DEF Native, CondNew, NativeNew, SolarisNew, VistaNew
  <2>2. cond.waiting = {} /\ cond = [waiting |-> cond.waiting]
    BY <2>1
  <2>3. Standing(cpc, {"asleep"}) = {}
    BY <1>2
  <2>4. cpc \in [CondThreads -> NativePlaces]
    BY <1>1 DEF NativePlaces
  <2>5. Standing(cpc, {"asleep"}) \ cond.waiting = {}
    BY <2>3
  <2>6. Cardinality(Standing(cpc, {"asleep"}) \ cond.waiting) = 0 /\ owed = 0
    BY <1>1, <1>3, <2>5
  <2>. QED  BY <1>1, <1>3, <2>2, <2>4, <2>6 DEF NativeInv
<1>5. ASSUME csys = "xp" PROVE XpInv
  <2>1. cond = [waiters_count |-> 0, waiters_sema |-> 0]
    BY <1>1, <1>5 DEF CondNew, XpNew
  <2>2. /\ cond \in [waiters_count : Int, waiters_sema : Nat]
        /\ cond.waiters_count = 0 /\ cond.waiters_sema = 0
    BY <2>1
  <2>3. /\ Standing(cpc, {"asleep"}) = {} /\ Standing(cpc, {"failed"}) = {}
        /\ Standing(cpc, {"in", "release"}) = {} /\ Releasing = {}
    BY <1>2 DEF Releasing
  <2>4. mtx.owner = NoOwner
    BY <1>1 DEF Unlocked
  <2>5. cpc \in [CondThreads -> XpPlaces] /\ todo \in [CondThreads -> Seq(Int)]
    <3>1. <<>> \in Seq(Int)
      OBVIOUS
    <3>. QED  BY <1>1, <3>1 DEF XpPlaces, NativePlaces
  <2>6. /\ Cardinality(Standing(cpc, {"asleep"})) = 0 /\ Cardinality(Standing(cpc, {"failed"})) = 0
    BY <1>3, <2>3
  <2>. QED  BY <1>1, <1>3, <2>2, <2>3, <2>4, <2>5, <2>6 DEF XpInv
<1>6. ASSUME csys = "os2" PROVE Os2Inv
  <2>1. cond = [waiters_count |-> 0, signaled |-> 0, posted |-> FALSE]
    BY <1>1, <1>6 DEF CondNew, Os2New
  <2>2. /\ cond \in [waiters_count : Int, signaled : {0, 1}, posted : BOOLEAN]
        /\ cond.waiters_count = 0
    BY <2>1
  <2>3. Standing(cpc, {"asleep", "reset", "exchange", "leave"}) = {}
    BY <1>2
  <2>4. cpc \in [CondThreads -> Os2Places] /\ todo \in [CondThreads -> Seq(CondThreads)]
    <3>1. <<>> \in Seq(CondThreads)
      OBVIOUS
    <3>. QED  BY <1>1, <3>1 DEF Os2Places, NativePlaces
  <2>5. cond.waiters_count = Cardinality(Standing(cpc, {"asleep", "reset", "exchange", "leave"}))
    BY <1>3, <2>2, <2>3
  <2>. QED  BY <1>1, <1>3, <2>2, <2>4, <2>5 DEF Os2Inv
<1>. QED  BY <1>1, <1>4, <1>5, <1>6 DEF CondIInv, XpHeld

LEMMA RenewKeeps ==
  ASSUME CondIInv, CondRenew
  PROVE  CondIInv'
<1>1. /\ UNCHANGED <<csys, mtx, cpc, todo>> /\ cond' = CondNew(csys) /\ owed' = 0 /\ must' = {}
      /\ \A t \in CondThreads : cpc'[t] = "out"
  BY DEF CondRenew
<1>2. \A S : "out" \notin S => Standing(cpc', S) = {}
  BY <1>1 DEF Standing
<1>3. Cardinality({}) = 0
  BY FS_EmptySet
<1>4. ASSUME csys \in Native PROVE NativeInv'
  <2>1. cond' = [waiting |-> {}]
    BY <1>1, <1>4 DEF Native, CondNew, NativeNew, SolarisNew, VistaNew
  <2>2. Standing(cpc', {"asleep"}) = {} /\ Cardinality({} \ {}) = 0
    BY <1>2, <1>3
  <2>3. cpc' \in [CondThreads -> NativePlaces]
    BY <1>1, <1>4 DEF CondIInv, NativeInv
  <2>. QED  BY <1>1, <2>1, <2>2, <2>3, NativeFrom
<1>5. ASSUME XpHeld PROVE XpInv'
  <2>1. cond' = [waiters_count |-> 0, waiters_sema |-> 0]
    BY <1>1, <1>5 DEF CondNew, XpNew, XpHeld
  <2>2. /\ Cardinality(Standing(cpc', {"asleep"})) = 0 /\ Cardinality(Standing(cpc', {"failed"})) = 0
    BY <1>2, <1>3
  <2>3. /\ cpc' \in [CondThreads -> XpPlaces] /\ mtx'.owner \in CondThreads \cup {NoOwner}
        /\ todo' \in [CondThreads -> Seq(Int)]
    BY <1>1, <1>5 DEF CondIInv, XpInv
  <2>. QED  BY <1>1, <2>1, <2>2, <2>3, XpFrom
<1>6. ASSUME csys = "os2" PROVE Os2Inv'
  <2>1. cond' = [waiters_count |-> 0, signaled |-> 0, posted |-> FALSE]
    BY <1>1, <1>6 DEF CondNew, Os2New
  <2>2. cond' \in [waiters_count : Int, signaled : {0, 1}, posted : BOOLEAN] /\ cond'.waiters_count = 0
    BY <2>1
  <2>3. Cardinality(Standing(cpc', Os2Counted)) = 0
    BY <1>2, <1>3 DEF Os2Counted
  <2>4. cpc' \in [CondThreads -> Os2Places] /\ todo' \in [CondThreads -> Seq(CondThreads)]
    BY <1>1, <1>6 DEF CondIInv, Os2Inv
  <2>. QED  BY <1>1, <2>2, <2>3, <2>4, Os2From
<1>7. csys' \in CondSystems /\ csys' = csys
  BY <1>1 DEF CondIInv
<1>. QED  BY <1>4, <1>5, <1>6, <1>7 DEF CondIInv, XpHeld

(* Every step is one of the system the library was built for.               *)
ListedSteps(t) ==
  \/ BeosWait(t) \/ BeosSignal(t) \/ BeosBroadcast(t)
  \/ AtheosWait(t) \/ AtheosSignal(t) \/ AtheosBroadcast(t)
  \/ Suspend(t) \/ ResumeThread(t) \/ NothingListed(t)
  \/ AmigaWait(t) \/ AmigaSignal(t) \/ AmigaBroadcast(t)
  \/ WaitSignal(t) \/ SignalArrives(t) \/ SignalTask(t)

LEMMA StepsOfSystem ==
  ASSUME CondNext
  PROVE  \/ CondRenew
         \/ \E t \in CondThreads :
              \/ CondMutexSteps(t) /\ csys' = csys
              \/ csys \in Native /\ NativeSteps(t) /\ csys' = csys
              \/ csys = "xp" /\ XpSteps(t) /\ csys' = csys
              \/ csys = "os2" /\ Os2Steps(t) /\ csys' = csys
              \/ csys \in Listed /\ csys' = csys
<1>. SUFFICES ASSUME ~CondRenew
              PROVE  \E t \in CondThreads :
                       \/ CondMutexSteps(t) /\ csys' = csys
                       \/ csys \in Native /\ NativeSteps(t) /\ csys' = csys
                       \/ csys = "xp" /\ XpSteps(t) /\ csys' = csys
                       \/ csys = "os2" /\ Os2Steps(t) /\ csys' = csys
                       \/ csys \in Listed /\ csys' = csys
  OBVIOUS
<1>1. PICK t \in CondThreads :
        \/ CondMutexSteps(t) \/ NativeWake(t)
        \/ PosixWait(t) \/ PosixSignal(t) \/ PosixBroadcast(t)
        \/ SolarisWait(t) \/ SolarisSignal(t) \/ SolarisBroadcast(t)
        \/ VistaWait(t) \/ VistaSignal(t) \/ VistaBroadcast(t)
        \/ XpSteps(t) \/ ListedSteps(t) \/ Os2Steps(t)
  BY Zenon DEF CondNext, CondMutexSteps, XpSteps, ListedSteps, Os2Steps
<1>2. CondMutexSteps(t) => csys' = csys
  BY DEF CondMutexSteps, MutexLock, MutexTryAgain, MutexUnlock, Return, condRest
<1>3. NativeSteps(t) => csys' = csys
  BY DEF NativeSteps, NativeWake, NativeWait, BeginWait, NativeSignal, NativeBroadcast
<1>4. XpSteps(t) => csys = "xp" /\ csys' = csys
  BY DEF XpSteps, XpWait, BeginWait, XpTake, XpWaitFails, XpReturnFalse, XpSignal, XpBroadcastRead,
         XpBroadcast
<1>5. Os2Steps(t) => csys = "os2" /\ csys' = csys
  BY DEF Os2Steps, Os2Wait, BeginWait, Os2Pass, Os2Reset, Os2Exchange, Os2Interrupted, Os2Leave,
         Os2Signal, Os2Broadcast, Os2Post, Os2Again, condRest
<1>6. ListedSteps(t) => csys \in Listed /\ csys' = csys
  <2>1. ListWait(t) \/ ListSignal(t) \/ ListBroadcast(t) => csys' = csys
    BY DEF ListWait, BeginWait, ListSignal, ListBroadcast
  <2>2. Suspend(t) \/ ResumeThread(t) \/ NothingListed(t) => csys \in Listed /\ csys' = csys
    BY DEF Suspend, ResumeThread, Resumed, NothingListed, condRest, Listed
  <2>3. WaitSignal(t) \/ SignalArrives(t) \/ SignalTask(t) => csys \in Listed /\ csys' = csys
    BY DEF WaitSignal, SignalArrives, SignalTask, Resumed, Listed
  <2>4. (\/ BeosWait(t) \/ BeosSignal(t) \/ BeosBroadcast(t)
         \/ AtheosWait(t) \/ AtheosSignal(t) \/ AtheosBroadcast(t)
         \/ AmigaWait(t) \/ AmigaSignal(t) \/ AmigaBroadcast(t))
          => csys \in Listed /\ (ListWait(t) \/ ListSignal(t) \/ ListBroadcast(t))
    BY DEF BeosWait, BeosSignal, BeosBroadcast, AtheosWait, AtheosSignal, AtheosBroadcast,
           AmigaWait, AmigaSignal, AmigaBroadcast, Listed
  <2>. QED  BY <2>1, <2>2, <2>3, <2>4 DEF ListedSteps
<1>7. (\/ NativeWake(t) \/ PosixWait(t) \/ PosixSignal(t) \/ PosixBroadcast(t)
       \/ SolarisWait(t) \/ SolarisSignal(t) \/ SolarisBroadcast(t)
       \/ VistaWait(t) \/ VistaSignal(t) \/ VistaBroadcast(t))
        => csys \in Native /\ NativeSteps(t)
  <2>1. NativeWake(t) => csys \in Native
    BY DEF NativeWake
  <2>. QED  BY <2>1 DEF PosixWait, PosixSignal, PosixBroadcast, SolarisWait, SolarisSignal, SolarisBroadcast,
                        VistaWait, VistaSignal, VistaBroadcast, NativeSteps, Native
<1>8. \/ CondMutexSteps(t) /\ csys' = csys
      \/ csys \in Native /\ NativeSteps(t) /\ csys' = csys
      \/ csys = "xp" /\ XpSteps(t) /\ csys' = csys
      \/ csys = "os2" /\ Os2Steps(t) /\ csys' = csys
      \/ csys \in Listed /\ csys' = csys
  <2>1. \/ CondMutexSteps(t) \/ XpSteps(t) \/ ListedSteps(t) \/ Os2Steps(t)
        \/ csys \in Native /\ NativeSteps(t)
    BY <1>1, <1>7
  <2>. QED  BY <1>2, <1>3, <1>4, <1>5, <1>6, <2>1
<1>. QED  BY <1>8, Zenon

LEMMA CondSteps == CondIInv /\ [CondNext]_condVars => CondIInv'
<1>. SUFFICES ASSUME CondIInv, [CondNext]_condVars PROVE CondIInv'
  OBVIOUS
<1>1. CASE UNCHANGED condVars
  <2>1. UNCHANGED <<csys, mtx, cond, cpc, todo, owed, must>>
    BY <1>1 DEF condVars
  <2>2. (csys \in Native => NativeInv') /\ (csys = "os2" => Os2Inv')
    BY <2>1 DEF CondIInv, NativeInv, Os2Inv, HistoryTyped, Waiting, Broadcasting
  <2>3. XpHeld => XpInv'
    BY <2>1 DEF CondIInv, XpInv, HistoryTyped, Releasing
  <2>. QED  BY <2>1, <2>2, <2>3 DEF CondIInv, XpHeld
<1>2. CASE CondNext
  <2>1. CASE CondRenew
    BY <2>1, RenewKeeps
  <2>2. CASE \E t \in CondThreads :
               \/ CondMutexSteps(t) /\ csys' = csys
               \/ csys \in Native /\ NativeSteps(t) /\ csys' = csys
               \/ csys = "xp" /\ XpSteps(t) /\ csys' = csys
               \/ csys = "os2" /\ Os2Steps(t) /\ csys' = csys
               \/ csys \in Listed /\ csys' = csys
    <3>1. csys' = csys
      BY <2>2
    <3>2. csys \in Native => csys # "xp" /\ csys # "os2" /\ csys \notin Listed
      BY DEF Native, Listed
    <3>3. csys \in Listed => csys # "xp" /\ csys # "os2"
      BY DEF Listed
    <3>4. csys \in Native => NativeInv'
      BY <2>2, <3>2, NativeKeeps DEF CondIInv
    <3>5. XpHeld => XpInv'
      BY <2>2, <3>2, <3>3, XpKeeps DEF CondIInv, XpHeld
    <3>6. csys = "os2" => Os2Inv'
      BY <2>2, <3>2, <3>3, Os2Keeps DEF CondIInv
    <3>. QED  BY <3>1, <3>4, <3>5, <3>6 DEF CondIInv, XpHeld
  <2>. QED  BY <1>2, <2>1, <2>2, StepsOfSystem
<1>. QED  BY <1>1, <1>2

(* zcond_variable_signal() loses no wake-up on POSIX, Solaris and Windows,  *)
(* for any number of threads, provided callers on Windows XP hold the mutex *)
(* (its count is not atomic).  The lists of BeOS and AtheOS, which forget   *)
(* the second of three nodes, are left to the model checker.                *)
THEOREM WakeupsNotLost ==
  ASSUME "xp" \notin UnlockedOn
  PROVE  CondSpec => [](csys \notin Listed => WakeupsKept)
<1>1. CondIInv => (csys \notin Listed => WakeupsKept)
  <2>. SUFFICES ASSUME CondIInv, csys \notin Listed, csys \in Native \cup {"xp", "beos", "atheos"},
                       Signalling = {}, \A t \in Waiting : Stuck(t)
                PROVE  owed = 0
    BY DEF WakeupsKept
  <2>1. CASE csys \in Native
    <3>1. NativeInv
      BY <2>1 DEF CondIInv
    <3>2. \A t \in Waiting : t \in cond.waiting
      BY <2>1 DEF Stuck, Native
    <3>3. Standing(cpc, {"asleep"}) \ cond.waiting = {}
      BY <3>2 DEF Standing, Waiting
    <3>4. Cardinality(Standing(cpc, {"asleep"}) \ cond.waiting) = 0
      BY <3>3, FS_EmptySet
    <3>. QED  BY <3>1, <3>4 DEF NativeInv, HistoryTyped
  <2>2. CASE csys = "xp"
    <3>1. XpInv
      BY <2>2 DEF CondIInv, XpHeld
    <3>2. Releasing = {}
      BY DEF Releasing, Signalling, Standing
    <3>3. \A t \in Waiting : cond.waiters_sema = 0
      BY <2>2 DEF Stuck, Native
    <3>4. Standing(cpc, {"asleep"}) = {} \/ cond.waiters_sema = 0
      BY <3>3 DEF Standing, Waiting
    <3>5. Standing(cpc, {"asleep"}) = {} => Cardinality(Standing(cpc, {"asleep"})) = 0
      BY FS_EmptySet
    <3>6. /\ owed \in Nat /\ owed <= Cardinality(Standing(cpc, {"asleep"}))
          /\ owed <= cond.waiters_sema
      BY <3>1, <3>2 DEF XpInv, HistoryTyped
    <3>. QED  BY <3>4, <3>5, <3>6
  <2>. QED  BY <2>1, <2>2 DEF Listed
<1>. QED  BY <1>1, InitCond, CondSteps, PTL DEF CondSpec

(* zcond_variable_broadcast() leaves nobody asleep who waited when it was   *)
(* called, on POSIX, Solaris, Windows Vista and OS/2, for any number of     *)
(* threads, although on OS/2 every thread that is woken may take the flag   *)
(* meant for another and several broadcasts may be under way.               *)
THEOREM BroadcastsRelease == CondSpec => []BroadcastReleases
<1>1. CondIInv => BroadcastReleases
  <2>. SUFFICES ASSUME CondIInv, csys \notin Listed \cup {"xp"}, Signalling = {}, NEW t \in must
                PROVE  ~Stuck(t)
    BY DEF BroadcastReleases, BroadcastWakesAll
  <2>1. CASE csys \in Native
    <3>1. t \notin cond.waiting
      BY <2>1 DEF CondIInv, NativeInv
    <3>. QED  BY <2>1, <3>1 DEF Stuck, Native
  <2>2. CASE csys = "os2"
    BY <2>2 DEF CondIInv, Os2Inv, Broadcasting, Standing, Signalling
  <2>3. csys \in Native \/ csys = "os2"
    BY CondAssumption DEF CondIInv, Native, Listed
  <2>. QED  BY <2>1, <2>2, <2>3
<1>. QED  BY <1>1, InitCond, CondSteps, PTL DEF CondSpec
=============================================================================
