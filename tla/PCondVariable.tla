--------------------------- MODULE PCondVariable ---------------------------
(***************************************************************************)
(* The mutexes and condition variables the library builds on each system:  *)
(* the native ones of POSIX, Solaris and Windows Vista, the semaphore and  *)
(* counter of Windows XP, the list of suspended threads of BeOS, AtheOS    *)
(* and AmigaOS, and the event and flag of OS/2.  Every thread locks,       *)
(* waits, signals and broadcasts on one mutex and one condition variable.  *)
(* All callers keep to pmutex.h: only the holder unlocks, and only a       *)
(* holder waits.  RWLockGeneral uses the POSIX ones through their effects. *)
(***************************************************************************)
EXTENDS Integers, FiniteSets, Sequences

CONSTANTS
  CondThreads,     \* the threads
  NoOwner,         \* "the mutex is free"
  CondSystems,     \* the systems whose implementation is run
  Processors,      \* on one processor a thread that runs is never seen READY
  UnlockedOn,      \* systems whose callers also signal without the mutex
  MaxDepth         \* bound: how often one thread holds a recursive mutex

ASSUME CondAssumption ==
  /\ IsFiniteSet(CondThreads) /\ NoOwner \notin CondThreads
  /\ CondSystems \subseteq {"posix", "solaris", "vista", "xp", "beos", "atheos",
                            "amiga", "os2"}
  /\ Processors \in Nat \ {0} /\ UnlockedOn \subseteq CondSystems /\ MaxDepth \in Nat \ {0}

VARIABLES
  csys,  \* the system this library was built for
  mtx,   \* the mutex: its owner and how often it holds it
  cond,  \* PCondVariable
  cpc,   \* where each thread is
  todo,  \* the nodes a signalling thread has still to resume
  woken, \* AmigaOS: threads whose signal bit is set
  freed, \* threads whose node was freed before they slept on it
  owed,  \* history: waiting threads that signals sent so far must wake
  must   \* history: threads a broadcast must wake

condVars == <<csys, mtx, cond, cpc, todo, woken, freed, owed, must>>

Native == {"posix", "solaris", "vista"}
Listed == {"beos", "atheos", "amiga"}

At(t, where) == cpc' = [cpc EXCEPT ![t] = where]
Waiting == {t \in CondThreads : cpc[t] \in {"ready", "asleep", "reset", "exchange"}}

------------------------------------------------------------------------------
(* Mutexes.  They differ in what a holder that asks again gets.             *)

PosixMutex   == [recursive |-> FALSE]   \* pthread_mutex_t, default kind
SolarisMutex == [recursive |-> FALSE]   \* mutex_t, USYNC_THREAD
BeosMutex    == [recursive |-> FALSE]   \* a semaphore of count one
AtheosMutex  == [recursive |-> FALSE]
WinMutex     == [recursive |-> TRUE]    \* CRITICAL_SECTION
AmigaMutex   == [recursive |-> TRUE]    \* ASOMUTEX_Recursive
Os2Mutex     == [recursive |-> TRUE]    \* HMTX

MutexOn(s) ==
  CASE s = "posix" -> PosixMutex
    [] s = "solaris" -> SolarisMutex
    [] s \in {"vista", "xp"} -> WinMutex
    [] s = "beos" -> BeosMutex
    [] s = "atheos" -> AtheosMutex
    [] s = "amiga" -> AmigaMutex
    [] s = "os2" -> Os2Mutex

Unlocked == [owner |-> NoOwner, depth |-> 0]
Locked(t) == [owner |-> t, depth |-> 1]

condRest == <<csys, cond, todo, woken, freed, owed, must>>

(* zmutex_lock(), and zmutex_trylock() of a free mutex.  An interrupted     *)
(* wait is tried again on BeOS, AtheOS and OS/2, so no caller sees it.      *)
MutexLock(t) ==
  /\ cpc[t] = "out" /\ mtx = Unlocked
  /\ mtx' = Locked(t)
  /\ At(t, "in") /\ UNCHANGED condRest

(* zmutex_trylock() by the holder: where it may not enter again the call    *)
(* returns FALSE and nothing happens.                                       *)
MutexTryAgain(t) ==
  /\ cpc[t] = "in" /\ mtx.depth < MaxDepth
  /\ MutexOn(csys).recursive
  /\ mtx' = [mtx EXCEPT !.depth = @ + 1]
  /\ UNCHANGED <<cpc, condRest>>

MutexUnlock(t) ==
  /\ cpc[t] = "in"
  /\ IF mtx.depth > 1
       THEN mtx' = [mtx EXCEPT !.depth = @ - 1] /\ UNCHANGED cpc
       ELSE mtx' = Unlocked /\ At(t, "out")
  /\ UNCHANGED condRest

------------------------------------------------------------------------------
(* What is common to the condition variables.                               *)

(* A wait begins: the mutex is given back.                                  *)
BeginWait(t, c) ==
  /\ cpc[t] = "in" /\ mtx.depth = 1
  /\ cond' = c
  /\ mtx' = Unlocked
  /\ UNCHANGED <<csys, todo, woken, owed, must>>

(* A thread leaves its sleep; one wake-up is delivered.                     *)
Wake(t) ==
  /\ owed' = IF owed > 0 THEN owed - 1 ELSE 0
  /\ must' = must \ {t}

(* The mutex is taken again and the wait returns TRUE.                      *)
Return(t) ==
  /\ cpc[t] = "relock" /\ mtx = Unlocked
  /\ mtx' = Locked(t)
  /\ At(t, "in") /\ UNCHANGED condRest

Caller(t) == cpc[t] = "in" \/ (csys \in UnlockedOn /\ cpc[t] = "out")
Back(t) == At(t, IF mtx.owner = t THEN "in" ELSE "out")

(* What the calls owe the waiting threads, counted when they are made.      *)
OweOne ==
  /\ owed' = IF owed < Cardinality(Waiting) THEN owed + 1 ELSE owed
  /\ UNCHANGED must
OweAll ==
  /\ owed' = Cardinality(Waiting)
  /\ must' = must \cup Waiting

------------------------------------------------------------------------------
(* POSIX, Solaris, Windows Vista: the system's own condition variable.      *)

NativeNew == [waiting |-> {}]
SolarisNew == NativeNew
VistaNew == NativeNew

NativeWait(t) ==
  /\ BeginWait(t, [waiting |-> cond.waiting \cup {t}])
  /\ At(t, "asleep") /\ UNCHANGED freed

(* A released thread, or one that wakes without a reason, goes on.          *)
NativeWake(t) ==
  /\ csys \in Native /\ cpc[t] = "asleep"
  /\ cond' = [waiting |-> cond.waiting \ {t}]
  /\ IF t \in cond.waiting THEN must' = must \ {t} /\ UNCHANGED owed ELSE Wake(t)
  /\ At(t, "relock") /\ UNCHANGED <<csys, mtx, todo, woken, freed>>

NativeSignal(t) ==
  /\ Caller(t) /\ OweOne
  /\ \/ cond.waiting = {} /\ UNCHANGED cond
     \/ \E u \in cond.waiting : cond' = [waiting |-> cond.waiting \ {u}]
  /\ UNCHANGED <<csys, mtx, cpc, todo, woken, freed>>

NativeBroadcast(t) ==
  /\ Caller(t) /\ OweAll
  /\ cond' = NativeNew
  /\ UNCHANGED <<csys, mtx, cpc, todo, woken, freed>>

PosixWait(t) == csys = "posix" /\ NativeWait(t)
PosixSignal(t) == csys = "posix" /\ NativeSignal(t)
PosixBroadcast(t) == csys = "posix" /\ NativeBroadcast(t)
SolarisWait(t) == csys = "solaris" /\ NativeWait(t)
SolarisSignal(t) == csys = "solaris" /\ NativeSignal(t)
SolarisBroadcast(t) == csys = "solaris" /\ NativeBroadcast(t)
VistaWait(t) == csys = "vista" /\ NativeWait(t)
VistaSignal(t) == csys = "vista" /\ NativeSignal(t)
VistaBroadcast(t) == csys = "vista" /\ NativeBroadcast(t)

------------------------------------------------------------------------------
(* Windows XP: waiters_count and a semaphore with one unit per wake-up.     *)

XpNew == [waiters_count |-> 0, waiters_sema |-> 0]

XpWait(t) ==
  /\ csys = "xp"
  /\ BeginWait(t, [cond EXCEPT !.waiters_count = @ + 1])
  /\ At(t, "asleep") /\ UNCHANGED freed

XpTake(t) ==
  /\ csys = "xp" /\ cpc[t] = "asleep" /\ cond.waiters_sema > 0
  /\ cond' = [cond EXCEPT !.waiters_sema = @ - 1]
  /\ Wake(t) /\ At(t, "relock") /\ UNCHANGED <<csys, mtx, todo, woken, freed>>

(* The wait itself fails; the count is lowered under the mutex.             *)
XpWaitFails(t) ==
  /\ csys = "xp" /\ cpc[t] = "asleep"
  /\ owed' = IF owed < Cardinality(Waiting) THEN owed ELSE owed - 1
  /\ must' = must \ {t}
  /\ At(t, "failed") /\ UNCHANGED <<csys, mtx, cond, todo, woken, freed>>

XpReturnFalse(t) ==
  /\ csys = "xp" /\ cpc[t] = "failed" /\ mtx = Unlocked
  /\ mtx' = Locked(t)
  /\ cond' = [cond EXCEPT !.waiters_count = @ - 1]
  /\ At(t, "in") /\ UNCHANGED <<csys, todo, woken, freed, owed, must>>

(* Mutant: the count is left as it was for the waiter to lower.             *)
XpSignalUncounted(t) ==
  /\ csys = "xp" /\ Caller(t) /\ OweOne
  /\ cond' = IF cond.waiters_count > 0 THEN [cond EXCEPT !.waiters_count = 0,
                                                         !.waiters_sema = @ + 1]
             ELSE cond
  /\ UNCHANGED <<csys, mtx, cpc, todo, woken, freed>>

(* The count is read, lowered, and a unit released.  Two callers may read   *)
(* the same count: both then release a unit and the sum still holds.        *)
XpSignal(t) ==
  /\ csys = "xp" /\ Caller(t) /\ OweOne
  /\ cond' = IF cond.waiters_count > 0
               THEN [waiters_count |-> cond.waiters_count - 1,
                     waiters_sema |-> cond.waiters_sema + 1]
               ELSE cond
  /\ UNCHANGED <<csys, mtx, cpc, todo, woken, freed>>

(* Reading the count and clearing it are two steps: a wait that begins in   *)
(* between, which needs a caller without the mutex, is forgotten.           *)
XpBroadcastRead(t) ==
  /\ csys = "xp" /\ Caller(t) /\ OweAll
  /\ cond.waiters_count > 0
  /\ todo' = [todo EXCEPT ![t] = <<cond.waiters_count>>]
  /\ At(t, "release") /\ UNCHANGED <<csys, mtx, cond, woken, freed>>

XpBroadcast(t) ==
  /\ csys = "xp" /\ cpc[t] = "release"
  /\ cond' = [waiters_count |-> 0, waiters_sema |-> cond.waiters_sema + Head(todo[t])]
  /\ todo' = [todo EXCEPT ![t] = <<>>]
  /\ Back(t) /\ UNCHANGED <<csys, mtx, woken, freed, owed, must>>

------------------------------------------------------------------------------
(* BeOS, AtheOS, AmigaOS: a list of nodes, one for each waiting thread.     *)

ListNew == [wait_head |-> <<>>, wait_count |-> 0]
AtheosNew == ListNew
AmigaNew == ListNew

(* The new node becomes the second one, whatever stood there.               *)
Linked(l, t) == IF l = <<>> THEN <<t>> ELSE <<Head(l), t>>

SpinFree == \A t \in CondThreads : cpc[t] # "resumeall"

ListWait(t) ==
  /\ SpinFree
  /\ BeginWait(t, [wait_head |-> Linked(cond.wait_head, t), wait_count |-> cond.wait_count + 1])
  /\ freed' = freed \ {t}
  /\ At(t, "ready")

(* suspend_thread(): the thread sleeps until it is resumed.                 *)
Suspend(t) ==
  /\ csys \in {"beos", "atheos"} /\ cpc[t] = "ready"
  /\ At(t, "asleep") /\ UNCHANGED <<mtx, condRest>>

(* Wait (sigmask): a signal sent earlier is not lost, but the mask is read  *)
(* from the node, which whoever signalled has freed by then: the mask may   *)
(* be another one, and then the signal that came is not waited for.         *)
WaitSignal(t) ==
  /\ csys = "amiga" /\ cpc[t] = "ready"
  /\ \/ woken' = woken
     \/ t \in freed /\ woken' = woken \ {t}
  /\ At(t, "asleep") /\ UNCHANGED <<csys, mtx, cond, todo, freed, owed, must>>

SignalArrives(t) ==
  /\ csys = "amiga" /\ cpc[t] = "asleep" /\ t \in woken
  /\ woken' = woken \ {t}
  /\ Wake(t) /\ At(t, "relock") /\ UNCHANGED <<csys, mtx, cond, todo, freed>>

ListSignal(t) ==
  /\ Caller(t) /\ SpinFree /\ OweOne
  /\ cond.wait_head # <<>>
  /\ cond' = [wait_head |-> Tail(cond.wait_head), wait_count |-> cond.wait_count - 1]
  /\ todo' = [todo EXCEPT ![t] = <<Head(cond.wait_head)>>]
  /\ At(t, "resume") /\ UNCHANGED <<csys, mtx, woken, freed>>

(* zcond_variable_broadcast() keeps the spinlock until all are resumed.     *)
ListBroadcast(t) ==
  /\ Caller(t) /\ SpinFree /\ OweAll
  /\ cond.wait_head # <<>>
  /\ todo' = [todo EXCEPT ![t] = cond.wait_head]
  /\ At(t, "resumeall") /\ UNCHANGED <<csys, mtx, cond, woken, freed>>

(* The list was empty: the call returns at once.                            *)
NothingListed(t) ==
  /\ csys \in Listed /\ Caller(t) /\ SpinFree
  /\ cond.wait_head = <<>> /\ OweAll
  /\ UNCHANGED <<csys, mtx, cond, cpc, todo, woken, freed>>

(* The first node of todo is done with: its thread is awake, or was not     *)
(* suspended yet and will sleep on; the node is freed either way.           *)
Resumed(t, u) ==
  /\ freed' = IF cpc[u] = "ready" THEN freed \cup {u} ELSE freed
  /\ todo' = [todo EXCEPT ![t] = Tail(@)]
  /\ cond' = IF cpc[t] = "resumeall" /\ Len(todo[t]) = 1 THEN ListNew ELSE cond
  /\ UNCHANGED <<csys, mtx>>

(* The loop over get_thread_info() goes on while the thread is READY.  On   *)
(* one processor a thread that has not suspended itself yet is READY; on    *)
(* several it may be running, and the loop ends too early.                  *)
SeenSuspended(u) == cpc[u] # "ready" \/ Processors > 1

ResumeThread(t) ==
  /\ csys \in {"beos", "atheos"} /\ cpc[t] \in {"resume", "resumeall"}
  /\ LET u == Head(todo[t])
         after == IF Len(todo[t]) > 1 THEN cpc[t]
                  ELSE IF mtx.owner = t THEN "in" ELSE "out"
     IN /\ SeenSuspended(u)
        /\ Resumed(t, u) /\ UNCHANGED woken
        /\ cpc' = [cpc EXCEPT ![t] = after,
                              ![u] = IF @ = "asleep" THEN "relock" ELSE @]
        /\ IF cpc[u] = "asleep" THEN Wake(u) ELSE UNCHANGED <<owed, must>>

SignalTask(t) ==
  /\ csys = "amiga" /\ cpc[t] \in {"resume", "resumeall"}
  /\ LET u == Head(todo[t])
         after == IF Len(todo[t]) > 1 THEN cpc[t]
                  ELSE IF mtx.owner = t THEN "in" ELSE "out"
     IN /\ Resumed(t, u)
        /\ woken' = woken \cup {u}
        /\ At(t, after) /\ UNCHANGED <<owed, must>>

BeosWait(t) == csys = "beos" /\ ListWait(t)
BeosSignal(t) == csys = "beos" /\ ListSignal(t)
BeosBroadcast(t) == csys = "beos" /\ ListBroadcast(t)
AtheosWait(t) == csys = "atheos" /\ ListWait(t)
AtheosSignal(t) == csys = "atheos" /\ ListSignal(t)
AtheosBroadcast(t) == csys = "atheos" /\ ListBroadcast(t)
AmigaWait(t) == csys = "amiga" /\ ListWait(t)
AmigaSignal(t) == csys = "amiga" /\ ListSignal(t)
AmigaBroadcast(t) == csys = "amiga" /\ ListBroadcast(t)

------------------------------------------------------------------------------
(* OS/2: an event, the number of waiting threads, and a flag that one of    *)
(* the threads the event wakes takes.                                       *)

Os2New == [waiters_count |-> 0, signaled |-> 0, posted |-> FALSE]

Os2Wait(t) ==
  /\ csys = "os2"
  /\ BeginWait(t, [cond EXCEPT !.waiters_count = @ + 1])
  /\ At(t, "asleep") /\ UNCHANGED freed

(* DosWaitEventSem() of a posted event returns at once.                     *)
Os2Pass(t) ==
  /\ csys = "os2" /\ cpc[t] = "asleep" /\ cond.posted
  /\ At(t, "reset") /\ UNCHANGED <<mtx, condRest>>

Os2Reset(t) ==
  /\ csys = "os2" /\ cpc[t] = "reset"
  /\ cond' = [cond EXCEPT !.posted = FALSE]
  /\ At(t, "exchange") /\ UNCHANGED <<csys, mtx, todo, woken, freed, owed, must>>

(* zatomic_int_compare_and_exchange (&signaled, 1, 0): who loses it sleeps  *)
(* again.                                                                   *)
Os2Exchange(t) ==
  /\ csys = "os2" /\ cpc[t] = "exchange"
  /\ cond' = [cond EXCEPT !.signaled = 0]
  /\ IF cond.signaled = 1 THEN Wake(t) /\ At(t, "leave")
                          ELSE At(t, "asleep") /\ UNCHANGED <<owed, must>>
  /\ UNCHANGED <<csys, mtx, todo, woken, freed>>

(* The wait failed and will return FALSE, or was interrupted: the count is  *)
(* lowered, the mutex taken, and the wait begins anew.  A signal sent in    *)
(* between does not reach the thread, so it no longer counts as one that    *)
(* must be woken.                                                           *)
Os2Interrupted(t) ==
  /\ csys = "os2" /\ cpc[t] = "asleep"
  /\ Wake(t)
  /\ At(t, "leave") /\ UNCHANGED <<csys, mtx, cond, todo, woken, freed>>

Os2Leave(t) ==
  /\ csys = "os2" /\ cpc[t] = "leave"
  /\ cond' = [cond EXCEPT !.waiters_count = @ - 1]
  /\ At(t, "relock") /\ UNCHANGED <<csys, mtx, todo, woken, freed, owed, must>>

(* zcond_variable_signal() reads the count, raises the flag and posts.      *)
Os2Signal(t) ==
  /\ csys = "os2" /\ Caller(t) /\ OweOne
  /\ cond.waiters_count > 0
  /\ cond' = [cond EXCEPT !.signaled = 1]
  /\ At(t, "post") /\ UNCHANGED <<csys, mtx, todo, woken, freed>>

(* zcond_variable_broadcast() signals as long as somebody waits.            *)
Os2Broadcast(t) ==
  /\ csys = "os2" /\ Caller(t) /\ OweAll
  /\ cond.waiters_count > 0
  /\ cond' = [cond EXCEPT !.signaled = 1]
  /\ todo' = [todo EXCEPT ![t] = <<t>>]
  /\ At(t, "post") /\ UNCHANGED <<csys, mtx, woken, freed>>

(* DosPostEventSem() lets every sleeping thread go.                         *)
Os2Post(t) ==
  /\ csys = "os2" /\ cpc[t] = "post"
  /\ cond' = [cond EXCEPT !.posted = TRUE]
  /\ cpc' = [u \in CondThreads |->
               IF u = t THEN (IF todo[t] # <<>> THEN "again"
                              ELSE IF mtx.owner = t THEN "in" ELSE "out")
               ELSE IF cpc[u] = "asleep" THEN "reset" ELSE cpc[u]]
  /\ UNCHANGED <<csys, mtx, todo, woken, freed, owed, must>>

(* Mutant: the broadcast posts once, for as many as take it.                *)
Os2AgainOnce(t) ==
  /\ csys = "os2" /\ cpc[t] = "again"
  /\ todo' = [todo EXCEPT ![t] = <<>>] /\ Back(t)
  /\ UNCHANGED <<csys, mtx, cond, woken, freed, owed, must>>

Os2Again(t) ==
  /\ csys = "os2" /\ cpc[t] = "again"
  /\ IF cond.waiters_count > 0
       THEN cond' = [cond EXCEPT !.signaled = 1] /\ At(t, "post") /\ UNCHANGED todo
       ELSE todo' = [todo EXCEPT ![t] = <<>>] /\ Back(t) /\ UNCHANGED cond
  /\ UNCHANGED <<csys, mtx, woken, freed, owed, must>>

------------------------------------------------------------------------------
CondNew(s) ==
  CASE s = "posix" -> NativeNew
    [] s = "solaris" -> SolarisNew
    [] s = "vista" -> VistaNew
    [] s = "xp" -> XpNew
    [] s = "beos" -> ListNew
    [] s = "atheos" -> AtheosNew
    [] s = "amiga" -> AmigaNew
    [] s = "os2" -> Os2New

(* zcond_variable_free() once nobody uses it, and a new one for the next    *)
(* round.                                                                   *)
CondRenew ==
  /\ \A t \in CondThreads : cpc[t] = "out"
  /\ cond' = CondNew(csys)
  /\ owed' = 0 /\ must' = {}
  /\ UNCHANGED <<csys, mtx, cpc, todo, woken, freed>>

CondInit ==
  /\ csys \in CondSystems
  /\ mtx = Unlocked
  /\ cond = CondNew(csys)
  /\ cpc = [t \in CondThreads |-> "out"]
  /\ todo = [t \in CondThreads |-> <<>>]
  /\ woken = {} /\ freed = {} /\ owed = 0 /\ must = {}

CondNext ==
  \/ CondRenew
  \/ \E t \in CondThreads :
       \/ MutexLock(t) \/ MutexTryAgain(t) \/ MutexUnlock(t) \/ Return(t)
       \/ NativeWake(t)
       \/ PosixWait(t) \/ PosixSignal(t) \/ PosixBroadcast(t)
       \/ SolarisWait(t) \/ SolarisSignal(t) \/ SolarisBroadcast(t)
       \/ VistaWait(t) \/ VistaSignal(t) \/ VistaBroadcast(t)
       \/ XpWait(t) \/ XpTake(t) \/ XpWaitFails(t) \/ XpReturnFalse(t)
       \/ XpSignal(t) \/ XpBroadcastRead(t) \/ XpBroadcast(t)
       \/ BeosWait(t) \/ BeosSignal(t) \/ BeosBroadcast(t)
       \/ AtheosWait(t) \/ AtheosSignal(t) \/ AtheosBroadcast(t)
       \/ Suspend(t) \/ ResumeThread(t) \/ NothingListed(t)
       \/ AmigaWait(t) \/ AmigaSignal(t) \/ AmigaBroadcast(t)
       \/ WaitSignal(t) \/ SignalArrives(t) \/ SignalTask(t)
       \/ Os2Wait(t) \/ Os2Pass(t) \/ Os2Reset(t) \/ Os2Exchange(t)
       \/ Os2Interrupted(t) \/ Os2Leave(t)
       \/ Os2Signal(t) \/ Os2Broadcast(t) \/ Os2Post(t) \/ Os2Again(t)

CondSpec == CondInit /\ [][CondNext]_condVars

------------------------------------------------------------------------------
Signalling == {t \in CondThreads :
                 cpc[t] \in {"release", "resume", "resumeall", "post", "again"}}

(* The thread sleeps and nothing that has been done so far will wake it.    *)
Stuck(t) ==
  /\ cpc[t] = "asleep"
  /\ CASE csys \in Native -> t \in cond.waiting
       [] csys = "xp" -> cond.waiters_sema = 0
       [] csys = "amiga" -> t \notin woken
       [] csys = "os2" -> ~cond.posted
       [] OTHER -> TRUE

(* zcond_variable_signal() wakes one of the threads that wait, whatever the *)
(* other threads do meanwhile: once every waiting thread sleeps for good,   *)
(* all the wake-ups that signals and broadcasts owed were delivered.  This  *)
(* is so where a signal is counted (Windows XP) or taken from a list (BeOS  *)
(* and AtheOS on one processor, with two threads waiting); OS/2 keeps one   *)
(* flag for any number of signals, and AmigaOS reads a freed node.          *)
WakeupsKept ==
  (/\ csys \in Native \cup {"xp", "beos", "atheos"}
   /\ Signalling = {} /\ \A t \in Waiting : Stuck(t)) => owed = 0

(* zcond_variable_broadcast() "After emitting the signal all the threads    *)
(* waiting for it will be waken up": no thread that waited when a broadcast *)
(* was made is left asleep after it.                                        *)
BroadcastWakesAll == Signalling = {} => \A t \in must : ~Stuck(t)

(* The same where it holds: not on Windows XP, where a thread that waits    *)
(* later can take the unit meant for another; not on AmigaOS; and not on    *)
(* BeOS and AtheOS, where the third thread that waits overwrites the link   *)
(* to the second (pcondvariable-beos.c:101-102), which no broadcast reaches *)
(* any more.                                                                *)
BroadcastReleases == csys \notin Listed \cup {"xp"} => BroadcastWakesAll
=============================================================================
