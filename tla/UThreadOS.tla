------------------------------ MODULE UThreadOS ------------------------------
(***************************************************************************)
(* Threads where the library itself has to end them: AmigaOS, BeOS, OS/2   *)
(* and Windows, src/os/{amiga,beos,os2,win}/puthread-*.c.  These systems   *)
(* know no destructors for thread-local values, so the library keeps a     *)
(* table or a list of them and goes through it when a thread ends, while   *)
(* other threads add to it.  AmigaOS has neither slots nor identifiers nor *)
(* a join, so the library keeps a list of its threads as well.             *)
(*                                                                         *)
(* The creation lock and the reference counts are in UThread.              *)
(***************************************************************************)
EXTENDS Integers, Sequences, FiniteSets

CONSTANTS
  OSWorkers,  \* threads the library creates, each at most once
  OSMain,     \* a thread it did not create
  OSSystems,  \* the systems checked, of "amiga", "beos", "os2", "win"
  MaxTlsKeys, \* slots for thread-local values (128 on AmigaOS)
  MaxCleans,  \* PUTHREAD_AMIGA_MAX_CLEANS, passes over the destructors there
  MaxId,      \* P_MAXINT32, after which identifiers start again at 0
  MaxStores,  \* bound: values a worker stores under the application's key
  MainStores  \* bound: values the main thread stores there

ASSUME UThreadOSAssumption ==
  /\ IsFiniteSet(OSWorkers) /\ OSMain \notin OSWorkers
  /\ "free" \notin OSWorkers \cup {OSMain}
  /\ OSSystems \subseteq {"amiga", "beos", "os2", "win"}
  /\ MaxTlsKeys \in Nat /\ MaxCleans \in Nat /\ MaxId \in Nat /\ MaxStores \in Nat
  /\ MainStores \in 0 .. MaxStores

OSThreads == OSWorkers \cup {OSMain}
Slots == 1 .. MaxTlsKeys
NoSlot == 0
NoId == -1
Null == 0

(* pzuthread_specific_data and a key of the application, both with a        *)
(* destroy function.  A value is Null, the thread's own structure or the    *)
(* n-th value it stored under the application's key.                        *)
TlsKeys == {"self", "app"}
Stores == 1 .. MaxStores
Structure == MaxStores + 1
StoresOf(t) == IF t = OSMain THEN MainStores ELSE MaxStores

VARIABLES
  osSys,    \* the system
  osRoom,   \* slots that are left to the keys of the model
  osMutex,  \* the holder of pzuthread_tls_mutex or _glob_mutex, or OSFree
  slotOf,   \* each PUThreadKey's slot, NoSlot before its first use
  dtors,    \* the destructors in the order they were registered; n is slot n's
  slots,    \* the value of each thread in each slot
  infoId,   \* AmigaOS: the identifier in the thread's PUThreadInfo, or NoId
  lastId,   \* pzuthread_last_id
  osThr,    \* where each thread is, and its locals
  stores,   \* how many values each thread has stored
  dropped,  \* values overwritten by zuthread_set_local(), which does not destroy
  given     \* how often the destroy function was given each value

osVars == <<osSys, osRoom, osMutex, slotOf, dtors, slots, infoId, lastId, osThr,
            stores, dropped, given>>

OSFree == "free"

(* job: what the slot is wanted for; key, tk: the key and the slot found;   *)
(* cur, called, pass: position, was_called or need_pass, and clean_counter  *)
(* of a pass over the destructors; joins: the thread being joined.          *)
OSThread == [pc |-> "none", job |-> "none", key |-> "self", tk |-> NoSlot,
             cur |-> 0, called |-> FALSE, pass |-> 0, joins |-> OSMain]

OSInit ==
  /\ osSys \in OSSystems
  /\ osRoom \in 1 .. MaxTlsKeys
  /\ osMutex = OSFree
  /\ slotOf = [k \in TlsKeys |-> NoSlot]
  /\ dtors = <<>>
  /\ slots = [t \in OSThreads |-> [n \in Slots |-> Null]]
  /\ infoId = [t \in OSThreads |-> NoId]
  /\ lastId = 0
  /\ osThr = [t \in OSThreads |-> IF t = OSMain THEN [OSThread EXCEPT !.pc = "run"] ELSE OSThread]
  /\ stores = [t \in OSThreads |-> 0]
  /\ dropped = [t \in OSThreads |-> {}]
  /\ given = [t \in OSThreads |-> [v \in {Null} \cup Stores \cup {Structure} |-> 0]]

OSAt(t, phase) == osThr[t].pc = phase
OSMoves(t, new) == osThr' = [osThr EXCEPT ![t] = new]
OSGoes(t, phase) == OSMoves(t, [osThr[t] EXCEPT !.pc = phase])
Returned(t) == [OSThread EXCEPT !.pc = "run"]

------------------------------------------------------------------------------
(* Mutant: the identifier is not looked for among the threads.              *)
FindNextIdUnchecked == (lastId + 1) % (MaxId + 1)

(* pzuthread_find_next_id(): the first identifier after the last one that   *)
(* no thread has; NoId when 0 came up a second time.                        *)
FindNextId ==
  LET candidate(n) == (lastId + n) % (MaxId + 1)
      zeros(n) == Cardinality({m \in 1 .. n : candidate(m) = 0})
      taken(n) == \E t \in OSThreads : infoId[t] = candidate(n)
      ends == {n \in 1 .. 2 * (MaxId + 1) :
                 zeros(n) < 2 /\ ~taken(n) /\ \A m \in 1 .. n - 1 : taken(m)}
  IN  IF ends = {} THEN NoId ELSE candidate(CHOOSE n \in ends : TRUE)

Identify(t) ==
  /\ FindNextId # NoId
  /\ infoId' = [infoId EXCEPT ![t] = FindNextId]
  /\ lastId' = FindNextId

(* pzuthread_find_or_create_thread_info(): a foreign thread is taken into   *)
(* the list by its first call that needs it, if there is an identifier left.*)
FindOrCreateThreadInfo(t) ==
  IF infoId[t] = NoId /\ FindNextId # NoId
    THEN Identify(t)
    ELSE UNCHANGED <<infoId, lastId>>

(* zuthread_current_id()                                                    *)
CurrentIdAmiga(t) ==
  /\ osSys = "amiga" /\ OSAt(t, "run") /\ osMutex = OSFree
  /\ infoId[t] = NoId /\ FindOrCreateThreadInfo(t)
  /\ UNCHANGED <<osSys, osRoom, osMutex, slotOf, dtors, slots, osThr, stores, dropped, given>>

------------------------------------------------------------------------------
(* zuthread_create_internal().  The new thread's first act, in the proxy of *)
(* puthread.c, is to store its structure under the library's own key.       *)
Started == [OSThread EXCEPT !.pc = "key", !.job = "set", !.key = "self"]

(* Under the mutex: the thread waits for it and so finds itself listed.     *)
CreateAmiga(t) ==
  /\ osSys = "amiga" /\ OSAt(t, "none") /\ osMutex = OSFree
  /\ Identify(t)
  /\ OSMoves(t, Started)
  /\ UNCHANGED <<osSys, osRoom, osMutex, slotOf, dtors, slots, stores, dropped, given>>

CreateUnlisted(t) ==
  /\ OSAt(t, "none")
  /\ OSMoves(t, Started)
  /\ UNCHANGED <<osSys, osRoom, osMutex, slotOf, dtors, slots, infoId, lastId, stores, dropped, given>>

CreateBeos(t) == osSys = "beos" /\ CreateUnlisted(t)
CreateOs2(t) == osSys = "os2" /\ CreateUnlisted(t)
CreateWin(t) == osSys = "win" /\ CreateUnlisted(t)

------------------------------------------------------------------------------
(* pzuthread_get_tls_key(): the first look is without the mutex.            *)
ReadSlot(t) ==
  /\ OSAt(t, "key")
  /\ LET n == slotOf[osThr[t].key] IN
     OSMoves(t, [osThr[t] EXCEPT !.tk = n, !.pc = IF n # NoSlot THEN "use" ELSE "lock"])
  /\ UNCHANGED <<osSys, osRoom, osMutex, slotOf, dtors, slots, infoId, lastId, stores, dropped, given>>

LockKeys(t) ==
  /\ OSAt(t, "lock") /\ osMutex = OSFree
  /\ osMutex' = t
  /\ OSGoes(t, "make")
  /\ UNCHANGED <<osSys, osRoom, slotOf, dtors, slots, infoId, lastId, stores, dropped, given>>

(* Another thread was faster, or there is no slot: both end the search.     *)
HasSlot(t) == slotOf[osThr[t].key] # NoSlot \/ Len(dtors) = osRoom
SlotFound(t) ==
  /\ HasSlot(t)
  /\ osMutex' = OSFree
  /\ OSMoves(t, [osThr[t] EXCEPT !.tk = slotOf[osThr[t].key], !.pc = "use"])
  /\ UNCHANGED <<slotOf, dtors>>

(* The table of AmigaOS is only read under the mutex.                       *)
MakeKeyAmiga(t) ==
  /\ osSys = "amiga" /\ OSAt(t, "make")
  /\ \/ SlotFound(t)
     \/ /\ ~HasSlot(t)
        /\ dtors' = Append(dtors, osThr[t].key)
        /\ slotOf' = [slotOf EXCEPT ![osThr[t].key] = Len(dtors')]
        /\ osMutex' = OSFree
        /\ OSMoves(t, [osThr[t] EXCEPT !.tk = Len(dtors'), !.pc = "use"])
  /\ UNCHANGED <<osSys, osRoom, slots, infoId, lastId, stores, dropped, given>>

(* Elsewhere the destructor is put at the head of a list that ending        *)
(* threads read without the mutex, and then the key is given its slot.      *)
MakeKeyListed(t) ==
  /\ OSAt(t, "make")
  /\ \/ SlotFound(t)
     \/ /\ ~HasSlot(t)
        /\ dtors' = Append(dtors, osThr[t].key)
        /\ OSMoves(t, [osThr[t] EXCEPT !.tk = Len(dtors'), !.pc = "publish"])
        /\ UNCHANGED <<osMutex, slotOf>>
  /\ UNCHANGED <<osSys, osRoom, slots, infoId, lastId, stores, dropped, given>>

(* Mutant: the key is not looked at again under the mutex.                  *)
MakeKeyBeosAnew(t) ==
  /\ osSys = "beos" /\ OSAt(t, "make")
  /\ \/ Len(dtors) = osRoom /\ SlotFound(t)
     \/ /\ Len(dtors) < osRoom
        /\ dtors' = Append(dtors, osThr[t].key)
        /\ OSMoves(t, [osThr[t] EXCEPT !.tk = Len(dtors'), !.pc = "publish"])
        /\ UNCHANGED <<osMutex, slotOf>>
  /\ UNCHANGED <<osSys, osRoom, slots, infoId, lastId, stores, dropped, given>>

MakeKeyBeos(t) == osSys = "beos" /\ MakeKeyListed(t)
MakeKeyOs2(t) == osSys = "os2" /\ MakeKeyListed(t)
MakeKeyWin(t) == osSys = "win" /\ MakeKeyListed(t)

PublishKey(t) ==
  /\ OSAt(t, "publish")
  /\ slotOf' = [slotOf EXCEPT ![osThr[t].key] = osThr[t].tk]
  /\ osMutex' = OSFree
  /\ OSGoes(t, "use")
  /\ UNCHANGED <<osSys, osRoom, dtors, slots, infoId, lastId, stores, dropped, given>>

------------------------------------------------------------------------------
(* zuthread_get_local(), zuthread_set_local() and zuthread_replace_local()  *)
(* of the application's key.  The value stored is the thread's next one.    *)
UseLocal(t, job) ==
  /\ OSAt(t, "run")
  /\ job # "get" => stores[t] < StoresOf(t)
  /\ job = "get" => slotOf["app"] = NoSlot
  /\ OSMoves(t, [OSThread EXCEPT !.pc = "key", !.job = job, !.key = "app"])
  /\ UNCHANGED <<osSys, osRoom, osMutex, slotOf, dtors, slots, infoId, lastId, stores, dropped, given>>

Value(t) == IF osThr[t].key = "self" THEN Structure ELSE stores[t] + 1
Kept(t, n) ==
  /\ slots' = [slots EXCEPT ![t][n] = Value(t)]
  /\ stores' = IF osThr[t].key = "self" THEN stores ELSE [stores EXCEPT ![t] = @ + 1]
StoresNothing == UNCHANGED <<slots, stores, dropped, given>>
Overwritten(t, n) ==
  dropped' = [dropped EXCEPT ![t] = @ \cup ({slots[t][n]} \ {Null})]
Destroyed(t, n) ==
  given' = IF slots[t][n] = Null THEN given ELSE [given EXCEPT ![t][slots[t][n]] = @ + 1]

(* The end of a call: nothing is stored without a slot.                     *)
StoreLocal(t) ==
  IF osThr[t].tk = NoSlot \/ osThr[t].job # "set" THEN StoresNothing
  ELSE Kept(t, osThr[t].tk) /\ Overwritten(t, osThr[t].tk) /\ UNCHANGED given
ReplaceLocal(t) ==
  IF osThr[t].tk = NoSlot THEN StoresNothing
  ELSE Kept(t, osThr[t].tk) /\ Destroyed(t, osThr[t].tk) /\ UNCHANGED dropped

(* AmigaOS, under the mutex: only a thread in the list has values.          *)
SetLocalAmiga(t) ==
  /\ osSys = "amiga" /\ OSAt(t, "use") /\ osThr[t].job # "replace" /\ osMutex = OSFree
  /\ IF osThr[t].tk = NoSlot \/ osThr[t].job = "get"
       THEN UNCHANGED <<infoId, lastId>> ELSE FindOrCreateThreadInfo(t)
  /\ IF infoId'[t] = NoId THEN StoresNothing ELSE StoreLocal(t)
  /\ OSMoves(t, Returned(t))
  /\ UNCHANGED <<osSys, osRoom, osMutex, slotOf, dtors>>

ReplaceLocalAmiga(t) ==
  /\ osSys = "amiga" /\ OSAt(t, "use") /\ osThr[t].job = "replace" /\ osMutex = OSFree
  /\ IF osThr[t].tk = NoSlot
       THEN UNCHANGED <<infoId, lastId>> ELSE FindOrCreateThreadInfo(t)
  /\ IF infoId'[t] = NoId THEN StoresNothing ELSE ReplaceLocal(t)
  /\ OSMoves(t, Returned(t))
  /\ UNCHANGED <<osSys, osRoom, osMutex, slotOf, dtors>>

SetLocalOwn(t) ==
  /\ OSAt(t, "use") /\ osThr[t].job # "replace"
  /\ StoreLocal(t)
  /\ OSMoves(t, Returned(t))
  /\ UNCHANGED <<osSys, osRoom, osMutex, slotOf, dtors, infoId, lastId>>
SetLocalBeos(t) == osSys = "beos" /\ SetLocalOwn(t)
SetLocalOs2(t) == osSys = "os2" /\ SetLocalOwn(t)
SetLocalWin(t) == osSys = "win" /\ SetLocalOwn(t)

ReplaceLocalOwn(t) ==
  /\ OSAt(t, "use") /\ osThr[t].job = "replace"
  /\ ReplaceLocal(t)
  /\ OSMoves(t, Returned(t))
  /\ UNCHANGED <<osSys, osRoom, osMutex, slotOf, dtors, infoId, lastId>>
ReplaceLocalBeos(t) == osSys = "beos" /\ ReplaceLocalOwn(t)
ReplaceLocalOs2(t) == osSys = "os2" /\ ReplaceLocalOwn(t)
ReplaceLocalWin(t) == osSys = "win" /\ ReplaceLocalOwn(t)

------------------------------------------------------------------------------
(* The thread's function returns, or calls zuthread_exit(); the main thread *)
(* comes here from zuthread_shutdown(), when the others have ended.         *)
Passing(t, cur) ==
  [OSThread EXCEPT !.pc = "clean", !.cur = cur, !.pass = osThr[t].pass + 1]
FirstDtor == IF osSys = "amiga" THEN 1 ELSE Len(dtors)

OSExit(t) ==
  /\ OSAt(t, "run")
  /\ t = OSMain => \A w \in OSWorkers : OSAt(w, "ended") \/ OSAt(w, "none")
  /\ OSMoves(t, Passing(t, FirstDtor))
  /\ UNCHANGED <<osSys, osRoom, osMutex, slotOf, dtors, slots, infoId, lastId, stores, dropped, given>>

(* One destructor of a pass: the slot of u is emptied first, then the       *)
(* destroy function is given the value.  The application's may use the key  *)
(* once more, which leaves a value for the next pass.                       *)
CallDtor(t, u, passed, next) ==
  LET n == osThr[t].cur IN
  /\ given' = [given EXCEPT ![u][passed] = @ + 1]
  /\ \/ slots' = [slots EXCEPT ![u][n] = Null] /\ UNCHANGED stores
     \/ /\ dtors[n] = "app" /\ u = t /\ stores[t] < StoresOf(t)
        /\ slots' = [slots EXCEPT ![t][n] = stores[t] + 1]
        /\ stores' = [stores EXCEPT ![t] = @ + 1]
  /\ OSMoves(t, [osThr[t] EXCEPT !.called = TRUE, !.cur = next])
  /\ UNCHANGED <<osSys, osRoom, osMutex, slotOf, dtors, infoId, lastId, dropped>>

SkipDtor(t, next) ==
  /\ OSMoves(t, [osThr[t] EXCEPT !.cur = next])
  /\ UNCHANGED <<osSys, osRoom, osMutex, slotOf, dtors, slots, infoId, lastId, stores, dropped, given>>

(* The end of a pass: the list is read again from its head if a destructor  *)
(* was called, and otherwise the thread is done.                            *)
PassEnds(t, again, done) ==
  /\ OSMoves(t, IF again THEN Passing(t, FirstDtor) ELSE [OSThread EXCEPT !.pc = done])
  /\ UNCHANGED <<osSys, osRoom, osMutex, slotOf, dtors, slots, infoId, lastId, stores, dropped, given>>

(* pzuthread_clean_destructors() of BeOS and OS/2, and                      *)
(* zuthread_win32_thread_detach(): from the newest destructor to the oldest.*)
CleanListed(t, passed) ==
  /\ OSAt(t, "clean")
  /\ IF osThr[t].cur = 0 THEN PassEnds(t, osThr[t].called, "ended")
     ELSE IF slots[t][osThr[t].cur] # Null THEN CallDtor(t, t, passed, osThr[t].cur - 1)
     ELSE SkipDtor(t, osThr[t].cur - 1)
CurrentValue(t) == IF osThr[t].cur = 0 THEN Null ELSE slots[t][osThr[t].cur]

(* Mutant: one pass is made, whatever it called.                            *)
CleanBeosOnce(t) ==
  /\ osSys = "beos"
  /\ OSAt(t, "clean")
  /\ IF osThr[t].cur = 0 THEN PassEnds(t, FALSE, "ended")
     ELSE IF slots[t][osThr[t].cur] # Null THEN CallDtor(t, t, CurrentValue(t), osThr[t].cur - 1)
     ELSE SkipDtor(t, osThr[t].cur - 1)

CleanBeos(t) == osSys = "beos" /\ CleanListed(t, CurrentValue(t))
CleanWin(t) == osSys = "win" /\ CleanListed(t, CurrentValue(t))
(* On OS/2 the value is read from the slot again after it was emptied.      *)
CleanOs2(t) == osSys = "os2" /\ CleanListed(t, Null)

(* pzuthread_amiga_proxy(): up the table, which may have grown, a limited   *)
(* number of times; the mutex is free while a destructor runs.              *)
CleanAmiga(t) ==
  /\ osSys = "amiga" /\ t # OSMain /\ OSAt(t, "clean") /\ osMutex = OSFree
  /\ IF osThr[t].cur > Len(dtors)
       THEN PassEnds(t, osThr[t].called /\ osThr[t].pass < MaxCleans, "unlist")
     ELSE IF slots[t][osThr[t].cur] # Null
       THEN CallDtor(t, t, slots[t][osThr[t].cur], osThr[t].cur + 1)
     ELSE SkipDtor(t, osThr[t].cur + 1)

(* zuthread_shutdown_internal() of AmigaOS: each destructor for all threads *)
(* that are still in the list, any number of times.                         *)
ShutdownAmiga(t) ==
  /\ osSys = "amiga" /\ t = OSMain /\ OSAt(t, "clean")
  /\ LET full == {u \in OSThreads : osThr[t].cur <= Len(dtors)
                    /\ infoId[u] # NoId /\ slots[u][osThr[t].cur] # Null}
     IN  IF osThr[t].cur > Len(dtors) THEN PassEnds(t, osThr[t].called, "ended")
         ELSE IF full # {}
           THEN \E u \in full : CallDtor(t, u, slots[u][osThr[t].cur], osThr[t].cur)
         ELSE SkipDtor(t, osThr[t].cur + 1)

(* The thread leaves the list, and only then wakes whoever joins it.        *)
UnlistAmiga(t) ==
  /\ OSAt(t, "unlist") /\ osMutex = OSFree
  /\ infoId' = [infoId EXCEPT ![t] = NoId]
  /\ OSGoes(t, "signal")
  /\ UNCHANGED <<osSys, osRoom, osMutex, slotOf, dtors, slots, lastId, stores, dropped, given>>

SignalAmiga(t) ==
  /\ OSAt(t, "signal")
  /\ osThr' = [u \in OSThreads |->
       IF u = t THEN [OSThread EXCEPT !.pc = "ended"]
       ELSE IF OSAt(u, "joinwait") /\ osThr[u].joins = t THEN Returned(u) ELSE osThr[u]]
  /\ UNCHANGED <<osSys, osRoom, osMutex, slotOf, dtors, slots, infoId, lastId, stores, dropped, given>>

------------------------------------------------------------------------------
(* Mutant: the list is not looked at.                                       *)
WaitAmigaUnchecked(w) ==
  /\ osSys = "amiga" /\ OSAt(OSMain, "run") /\ ~OSAt(w, "none")
  /\ osMutex = OSFree
  /\ OSMoves(OSMain, [OSThread EXCEPT !.pc = "joinwait", !.joins = w])
  /\ UNCHANGED <<osSys, osRoom, osMutex, slotOf, dtors, slots, infoId, lastId, stores, dropped, given>>

(* zuthread_wait_internal(), called by the main thread.  AmigaOS: a thread  *)
(* that is not in the list is gone, for any other the condition is waited   *)
(* for, without a loop.                                                     *)
WaitAmiga(w) ==
  /\ osSys = "amiga" /\ OSAt(OSMain, "run") /\ ~OSAt(w, "none")
  /\ osMutex = OSFree
  /\ IF infoId[w] = NoId THEN UNCHANGED osThr
     ELSE OSMoves(OSMain, [OSThread EXCEPT !.pc = "joinwait", !.joins = w])
  /\ UNCHANGED <<osSys, osRoom, osMutex, slotOf, dtors, slots, infoId, lastId, stores, dropped, given>>

(* The other systems wait for the end of the thread themselves.             *)
WaitHandle(w) ==
  /\ OSAt(OSMain, "run") /\ ~OSAt(w, "none")
  /\ OSMoves(OSMain, [OSThread EXCEPT !.pc = "waiting", !.joins = w])
  /\ UNCHANGED <<osSys, osRoom, osMutex, slotOf, dtors, slots, infoId, lastId, stores, dropped, given>>
WaitBeos(w) == osSys = "beos" /\ WaitHandle(w)
WaitOs2(w) == osSys = "os2" /\ WaitHandle(w)
WaitWin(w) == osSys = "win" /\ WaitHandle(w)

Waited(t) ==
  /\ OSAt(t, "waiting") /\ OSAt(osThr[t].joins, "ended")
  /\ OSMoves(t, Returned(t))
  /\ UNCHANGED <<osSys, osRoom, osMutex, slotOf, dtors, slots, infoId, lastId, stores, dropped, given>>

(* What a thread does once it is inside the library.                        *)
OSStep(t) ==
  \/ ReadSlot(t) \/ LockKeys(t) \/ PublishKey(t)
  \/ MakeKeyAmiga(t) \/ MakeKeyBeos(t) \/ MakeKeyOs2(t) \/ MakeKeyWin(t)
  \/ SetLocalAmiga(t) \/ SetLocalBeos(t) \/ SetLocalOs2(t) \/ SetLocalWin(t)
  \/ ReplaceLocalAmiga(t) \/ ReplaceLocalBeos(t) \/ ReplaceLocalOs2(t) \/ ReplaceLocalWin(t)
  \/ CleanAmiga(t) \/ CleanBeos(t) \/ CleanOs2(t) \/ CleanWin(t) \/ ShutdownAmiga(t)
  \/ UnlistAmiga(t) \/ SignalAmiga(t) \/ Waited(t)

OSCreate(w) == CreateAmiga(w) \/ CreateBeos(w) \/ CreateOs2(w) \/ CreateWin(w)
OSWait(w) == WaitAmiga(w) \/ WaitBeos(w) \/ WaitOs2(w) \/ WaitWin(w)

OSEnded == OSAt(OSMain, "ended") /\ UNCHANGED osVars

OSNext ==
  \/ \E t \in OSThreads :
       \/ OSStep(t) \/ OSExit(t) \/ CurrentIdAmiga(t)
       \/ \E job \in {"get", "set", "replace"} : UseLocal(t, job)
  \/ \E w \in OSWorkers : OSAt(OSMain, "run") /\ (OSCreate(w) \/ OSWait(w))
  \/ OSEnded

OSSpec == OSInit /\ [][OSNext]_osVars

------------------------------------------------------------------------------
(* Threads that race to use a key for the first time agree on its slot: a   *)
(* value is found again where it was stored, one key to a slot.             *)
OneSlotPerKey ==
  /\ \A t \in OSThreads : \A n \in Slots :
       slots[t][n] # Null => n <= Len(dtors) /\ slotOf[dtors[n]] = n
  /\ \A m, n \in 1 .. Len(dtors) : dtors[m] = dtors[n] => m = n

AllGivenOnce(t) ==
  \A v \in 1 .. stores[t] : given[t][v] = IF v \in dropped[t] THEN 0 ELSE 1

(* When a thread has ended, every value it stored, the ones its destructors *)
(* stored included, was given to the destroy function exactly once, unless  *)
(* zuthread_set_local() overwrote it, although other threads register keys  *)
(* meanwhile.  (OS/2 is in Os2ValuesDestroyed.)                             *)
ValuesDestroyed ==
  osSys # "os2" => \A t \in OSThreads : OSAt(t, "ended") => AllGivenOnce(t)

(* "You can also provide a destroy notification function which would be     *)
(* called upon a TLS key removal which is usually performed on the thread   *)
(* exit" (puthread.h): the same of OS/2, where pzuthread_clean_destructors  *)
(* empties the slot before it reads the value it passes.                    *)
Os2ValuesDestroyed ==
  osSys = "os2" => \A t \in OSThreads : OSAt(t, "ended") => AllGivenOnce(t)

(* AmigaOS: no two threads in the list have the same identifier, although   *)
(* identifiers start again at 0 while old threads keep theirs.              *)
IdsUnique ==
  \A t, u \in OSThreads : t # u /\ infoId[t] # NoId => infoId[t] # infoId[u]

(* A thread that joins another on AmigaOS is woken: it never waits for one  *)
(* that has ended, whether that one left the list before or after the look  *)
(* into it, and whoever broadcasts when.                                    *)
JoinWoken ==
  OSAt(OSMain, "joinwait") => ~OSAt(osThr[OSMain].joins, "ended")
==============================================================================
