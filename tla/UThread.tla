------------------------------- MODULE UThread -------------------------------
(***************************************************************************)
(* Thread objects of src/lib/puthread.c over src/os/posix/puthread-posix.c:*)
(* creation through a proxy that waits for its creator, exit and join,     *)
(* reference counts, adoption of foreign threads, and the thread-local key *)
(* that is made by whichever thread needs it first.                        *)
(***************************************************************************)
EXTENDS Integers, FiniteSets

CONSTANTS
  Foreign,  \* threads the library did not create (main among them)
  Workers,  \* threads it creates, each at most once
  NativeKeys,     \* pthread keys
  None,
  Codes,    \* arguments of zuthread_exit()
  MaxRefs,  \* bound on the references the application keeps to a thread
  MaxLost,  \* bound on the structures that could not be stored
  ThreadFaults  \* "pthread_create", "pthread_key_create": calls that may fail

ASSUME UThreadAssumption ==
  /\ Foreign \cap Workers = {} /\ None \notin Foreign \cup Workers \cup NativeKeys
  /\ None \notin (Foreign \cup Workers) \X {"created", "adopted"}
  /\ Codes \subseteq Nat \ {0} /\ MaxRefs \in Nat \ {0} /\ MaxLost \in Nat
  /\ ThreadFaults \subseteq {"pthread_create", "pthread_key_create"}

AllThreads == Foreign \cup Workers

(* A PUThreadBase: "created" by zuthread_create_full() for a worker, or     *)
(* "adopted" by zuthread_current() for a thread without one in its slot.    *)
Records == AllThreads \X {"created", "adopted"}
Created(w) == <<w, "created">>
Adopted(t) == <<t, "adopted">>

VARIABLES
  rec,     \* the PUThreadBase structures
  newSpin, \* pzuthread_new_spin: its owner or None
  key,     \* pzuthread_specific_data->key
  keys,    \* pthread keys in existence
  tls,     \* the value of each thread under each key
  tpc, job, \* where each thread is, and what it needs the key for
  tk,      \* the local thread_key of pzuthread_get_tls_key()
  target,  \* the thread being created or joined
  code,    \* the argument of the zuthread_exit() that ends or ended the thread, or 0
  user,    \* references to each worker's record in the application's hands
  joined,  \* what zuthread_join() returned, -1 before
  down,    \* zuthread_shutdown() was called
  lost     \* structures zuthread_set_local() could not store

uthreadVars == <<rec, newSpin, key, keys, tls, tpc, job, tk, target, code, user, joined, down, lost>>

NoRecord == [state |-> "none", ref |-> 0, ours |-> FALSE, joinable |-> FALSE, ret |-> 0]

ThreadInit ==
  /\ rec = [r \in Records |-> NoRecord]
  /\ newSpin = None /\ key = None /\ keys = {}
  /\ tls = [t \in AllThreads |-> [k \in NativeKeys |-> None]]
  /\ tpc = [t \in AllThreads |-> IF t \in Foreign THEN "run" ELSE "none"]
  /\ job = [t \in AllThreads |-> "none"]
  /\ tk = [t \in AllThreads |-> None]
  /\ target = [t \in AllThreads |-> None]
  /\ code = [t \in AllThreads |-> 0]
  /\ user = [w \in Workers |-> 0]
  /\ joined = [w \in Workers |-> -1]
  /\ down = FALSE
  /\ lost = {}

Move(t, phase) == tpc' = [tpc EXCEPT ![t] = phase]

(* zuthread_unref(): the last reference frees the structure.                *)
Dropped(r) == [rec EXCEPT ![r].ref = @ - 1,
                          ![r].state = IF rec[r].ref = 1 THEN "freed" ELSE @]

------------------------------------------------------------------------------
(* zuthread_create_full(): the creation lock is held from before the thread *)
(* starts until its structure is complete.                                  *)
CreateLock(t, w) ==
  /\ tpc[t] = "run" /\ ~down
  /\ rec[Created(w)].state = "none" /\ newSpin = None
  /\ newSpin' = t
  /\ target' = [target EXCEPT ![t] = w]
  /\ Move(t, "spawn")
  /\ UNCHANGED <<rec, key, keys, tls, job, tk, code, user, joined, down, lost>>

(* zuthread_create_internal(): the structure is zeroed, and the new thread  *)
(* may run before its creator goes on: pzuthread_proxy() starts by looking  *)
(* for the key.                                                             *)
Spawn(t) ==
  /\ tpc[t] = "spawn"
  /\ \E j \in BOOLEAN :
       rec' = [rec EXCEPT ![Created(target[t])] =
                 [NoRecord EXCEPT !.state = "live", !.joinable = j]]
  /\ tpc' = [tpc EXCEPT ![t] = "fill", ![target[t]] = "readKey"]
  /\ job' = [job EXCEPT ![target[t]] = "proxy"]
  /\ UNCHANGED <<newSpin, key, keys, tls, tk, target, code, user, joined, down, lost>>

SpawnFails(t) ==
  /\ "pthread_create" \in ThreadFaults
  /\ tpc[t] = "spawn"
  /\ target' = [target EXCEPT ![t] = None]
  /\ Move(t, "unlock")
  /\ UNCHANGED <<rec, newSpin, key, keys, tls, job, tk, code, user, joined, down, lost>>

(* Mutant: the running thread is given no reference of its own.             *)
FillOneRef(t) ==
  /\ tpc[t] = "fill"
  /\ rec' = [rec EXCEPT ![Created(target[t])].ref = 1, ![Created(target[t])].ours = TRUE]
  /\ Move(t, "unlock")
  /\ UNCHANGED <<newSpin, key, keys, tls, job, tk, target, code, user, joined, down, lost>>

Fill(t) ==
  /\ tpc[t] = "fill"
  /\ rec' = [rec EXCEPT ![Created(target[t])].ref = 2, ![Created(target[t])].ours = TRUE]
  /\ Move(t, "unlock")
  /\ UNCHANGED <<newSpin, key, keys, tls, job, tk, target, code, user, joined, down, lost>>

CreateUnlock(t) ==
  /\ tpc[t] = "unlock"
  /\ newSpin' = None
  /\ user' = [w \in Workers |-> IF w = target[t] THEN 1 ELSE user[w]]
  /\ target' = [target EXCEPT ![t] = None]
  /\ Move(t, "run")
  /\ UNCHANGED <<rec, key, keys, tls, job, tk, code, joined, down, lost>>

------------------------------------------------------------------------------
(* pzuthread_get_tls_key(): read, create, compare and exchange; the loser   *)
(* of the race deletes its key and takes the winner's.                      *)
ReadKey(t) ==
  /\ tpc[t] = "readKey"
  /\ tk' = [tk EXCEPT ![t] = key]
  /\ Move(t, IF key = None THEN "makeKey" ELSE "useKey")
  /\ UNCHANGED <<rec, newSpin, key, keys, tls, job, target, code, user, joined, down, lost>>

MakeKey(t) ==
  /\ tpc[t] = "makeKey"
  /\ NativeKeys \ keys # {}
  /\ LET k == CHOOSE k \in NativeKeys : k \notin keys
     IN  keys' = keys \cup {k} /\ tk' = [tk EXCEPT ![t] = k]
  /\ Move(t, "casKey")
  /\ UNCHANGED <<rec, newSpin, key, tls, job, target, code, user, joined, down, lost>>

MakeKeyFails(t) ==
  /\ "pthread_key_create" \in ThreadFaults /\ Cardinality(lost) < MaxLost
  /\ tpc[t] = "makeKey"
  /\ tk' = [tk EXCEPT ![t] = None]
  /\ Move(t, "useKey")
  /\ UNCHANGED <<rec, newSpin, key, keys, tls, job, target, code, user, joined, down, lost>>

(* Mutant: the key is stored without comparing.                             *)
CasKeyOverwrites(t) ==
  /\ tpc[t] = "casKey"
  /\ key' = tk[t]
  /\ Move(t, "useKey")
  /\ UNCHANGED <<rec, newSpin, keys, tk, tls, job, target, code, user, joined, down, lost>>

CasKey(t) ==
  /\ tpc[t] = "casKey"
  /\ IF key = None
       THEN key' = tk[t] /\ UNCHANGED <<keys, tk>>
       ELSE keys' = keys \ {tk[t]} /\ tk' = [tk EXCEPT ![t] = key] /\ UNCHANGED key
  /\ Move(t, "useKey")
  /\ UNCHANGED <<rec, newSpin, tls, job, target, code, user, joined, down, lost>>

(* zuthread_get_local() and zuthread_set_local() with the key in tk[t].     *)
GetLocal(t) == IF tk[t] = None THEN None ELSE tls[t][tk[t]]
SetLocal(t, r) ==
  IF tk[t] = None
    THEN lost' = lost \cup {r} /\ UNCHANGED tls
    ELSE tls' = [tls EXCEPT ![t][tk[t]] = r] /\ lost' = lost \ {r}

NeedKey(t, what) == job' = [job EXCEPT ![t] = what] /\ Move(t, "readKey")
KeyUsed(t, phase) ==
  job' = [job EXCEPT ![t] = "none"] /\ tk' = [tk EXCEPT ![t] = None] /\ Move(t, phase)

(* pzuthread_proxy(): the thread notes its structure in its slot, passes    *)
(* the creation lock once, and only then calls the user's function.         *)
ProxySetLocal(w) ==
  /\ tpc[w] = "useKey" /\ job[w] = "proxy"
  /\ SetLocal(w, Created(w))
  /\ KeyUsed(w, "barrier")
  /\ UNCHANGED <<rec, newSpin, key, keys, target, code, user, joined, down>>

(* Mutant: the thread does not wait for the creation lock.                  *)
ProxyNoBarrier(w) ==
  /\ tpc[w] = "barrier"
  /\ Move(w, "run")
  /\ UNCHANGED <<rec, newSpin, key, keys, tls, job, tk, target, code, user, joined, down, lost>>

ProxyBarrier(w) ==
  /\ tpc[w] = "barrier"
  /\ newSpin = None
  /\ Move(w, "run")
  /\ UNCHANGED <<rec, newSpin, key, keys, tls, job, tk, target, code, user, joined, down, lost>>

------------------------------------------------------------------------------
(* zuthread_current(), called by the application or by zuthread_exit(c).    *)
Current(t, c) ==
  /\ tpc[t] = "run" /\ ~down
  /\ code' = [code EXCEPT ![t] = c]
  /\ NeedKey(t, "get")
  /\ UNCHANGED <<rec, newSpin, key, keys, tls, tk, target, user, joined, down, lost>>

(* What zuthread_exit() does with the structure: a foreign thread is only   *)
(* warned, a worker stores its code and calls pthread_exit().               *)
Exiting(t, r) == code[t] # 0 /\ rec[r].ours

GotCurrent(t, r) ==
  IF Exiting(t, r)
    THEN rec' = [rec EXCEPT ![r].ret = code[t]] /\ KeyUsed(t, "dying") /\ UNCHANGED code
    ELSE KeyUsed(t, "run") /\ code' = [code EXCEPT ![t] = 0] /\ UNCHANGED rec

CurrentFound(t) ==
  /\ tpc[t] = "useKey" /\ job[t] = "get"
  /\ GetLocal(t) # None
  /\ GotCurrent(t, GetLocal(t))
  /\ UNCHANGED <<newSpin, key, keys, tls, target, user, joined, down, lost>>

(* Mutant: an adopted structure starts with the two references of a created *)
(* one.                                                                     *)
CurrentAdoptsTwice(t) ==
  /\ tpc[t] = "useKey" /\ job[t] = "get"
  /\ GetLocal(t) = None
  /\ rec' = [rec EXCEPT ![Adopted(t)] = [NoRecord EXCEPT !.state = "live", !.ref = 2]]
  /\ NeedKey(t, "set")
  /\ UNCHANGED <<newSpin, key, keys, tls, tk, target, code, user, joined, down, lost>>

CurrentAdopts(t) ==
  /\ tpc[t] = "useKey" /\ job[t] = "get"
  /\ GetLocal(t) = None
  /\ rec' = [rec EXCEPT ![Adopted(t)] = [NoRecord EXCEPT !.state = "live", !.ref = 1]]
  /\ NeedKey(t, "set")
  /\ UNCHANGED <<newSpin, key, keys, tls, tk, target, code, user, joined, down, lost>>

CurrentSetLocal(t) ==
  /\ tpc[t] = "useKey" /\ job[t] = "set"
  /\ SetLocal(t, Adopted(t))
  /\ GotCurrent(t, Adopted(t))
  /\ UNCHANGED <<newSpin, key, keys, target, user, joined, down>>

(* The thread's function returns, or a foreign thread ends.                 *)
ReturnCode(t) ==
  /\ tpc[t] = "run"
  /\ code' = [code EXCEPT ![t] = 0]
  /\ Move(t, "dying")
  /\ UNCHANGED <<rec, newSpin, key, keys, tls, job, tk, target, user, joined, down, lost>>

(* The pthread library clears a slot and calls its destructor, which is     *)
(* pzuthread_cleanup(); then the thread is gone and can be joined.          *)
Destructor(t) ==
  /\ tpc[t] = "dying"
  /\ \E k \in keys :
       /\ tls[t][k] # None
       /\ rec' = Dropped(tls[t][k])
       /\ tls' = [tls EXCEPT ![t][k] = None]
  /\ UNCHANGED <<newSpin, key, keys, tpc, job, tk, target, code, user, joined, down, lost>>

Gone(t) ==
  /\ tpc[t] = "dying"
  /\ \A k \in keys : tls[t][k] = None
  /\ Move(t, "dead")
  /\ UNCHANGED <<rec, newSpin, key, keys, tls, job, tk, target, code, user, joined, down, lost>>

------------------------------------------------------------------------------
(* zuthread_ref(), zuthread_unref() and zuthread_join() by a thread that    *)
(* may use one of the application's references; a join keeps its own.       *)
Ref(t, w) ==
  /\ tpc[t] = "run" /\ ~down /\ user[w] \in 1 .. MaxRefs - 1
  /\ rec' = [rec EXCEPT ![Created(w)].ref = @ + 1]
  /\ user' = [user EXCEPT ![w] = @ + 1]
  /\ UNCHANGED <<newSpin, key, keys, tls, tpc, job, tk, target, code, joined, down, lost>>

Unref(t, w) ==
  /\ tpc[t] = "run" /\ ~down /\ user[w] > 0
  /\ rec' = Dropped(Created(w))
  /\ user' = [user EXCEPT ![w] = @ - 1]
  /\ UNCHANGED <<newSpin, key, keys, tls, tpc, job, tk, target, code, joined, down, lost>>

Join(t, w) ==
  /\ tpc[t] = "run" /\ t \in Foreign /\ ~down /\ user[w] > 0
  /\ rec[Created(w)].joinable /\ joined[w] = -1
  /\ \A u \in AllThreads : target[u] # w
  /\ target' = [target EXCEPT ![t] = w]
  /\ user' = [user EXCEPT ![w] = @ - 1]
  /\ Move(t, "joining")
  /\ UNCHANGED <<rec, newSpin, key, keys, tls, job, tk, code, joined, down, lost>>

JoinReturn(t) ==
  /\ tpc[t] = "joining" /\ tpc[target[t]] = "dead"
  /\ joined' = [joined EXCEPT ![target[t]] = rec[Created(target[t])].ret]
  /\ user' = [user EXCEPT ![target[t]] = @ + 1]
  /\ target' = [target EXCEPT ![t] = None]
  /\ Move(t, "run")
  /\ UNCHANGED <<rec, newSpin, key, keys, tls, job, tk, code, down, lost>>

(* zuthread_shutdown(), at the end of the program as pmain.h asks: no other *)
(* thread is alive.  Looking for its own structure the thread may be the    *)
(* first to need the pthread key; the key itself is never deleted.          *)
ShutdownReady(t) ==
  /\ tpc[t] = "run" /\ t \in Foreign /\ ~down
  /\ \A u \in AllThreads \ {t} : tpc[u] \in {"none", "dead"}

Shutdown(t) ==
  /\ ShutdownReady(t)
  /\ IF key = None
       THEN /\ \/ \E k \in NativeKeys : keys' = keys \cup {k}
               \/ "pthread_key_create" \in ThreadFaults /\ UNCHANGED keys
            /\ UNCHANGED <<rec, tls>>
       ELSE /\ rec' = IF tls[t][key] # None THEN Dropped(tls[t][key]) ELSE rec
            /\ tls' = [tls EXCEPT ![t][key] = None]
            /\ UNCHANGED keys
  /\ key' = None /\ down' = TRUE
  /\ UNCHANGED <<newSpin, tpc, job, tk, target, code, user, joined, lost>>

(* The program has ended.                                                   *)
Ended ==
  /\ \A t \in AllThreads : tpc[t] \in {"none", "dead"}
  /\ UNCHANGED uthreadVars

(* The steps a thread takes by itself once it entered the library.          *)
ThreadStep(t) ==
  \/ Spawn(t) \/ Fill(t) \/ CreateUnlock(t)
  \/ ReadKey(t) \/ MakeKey(t) \/ CasKey(t)
  \/ CurrentFound(t) \/ CurrentAdopts(t) \/ CurrentSetLocal(t)
  \/ Destructor(t) \/ Gone(t) \/ JoinReturn(t)

WorkerStep(w) == ProxySetLocal(w) \/ ProxyBarrier(w)

ThreadNext ==
  \/ \E t \in AllThreads :
       \/ ThreadStep(t) \/ SpawnFails(t) \/ MakeKeyFails(t) \/ ReturnCode(t) \/ Shutdown(t)
       \/ \E c \in Codes \cup {0} : Current(t, c)
       \/ \E w \in Workers : CreateLock(t, w) \/ Ref(t, w) \/ Unref(t, w) \/ Join(t, w)
  \/ \E w \in Workers : WorkerStep(w)
  \/ Ended

ThreadSpec == ThreadInit /\ [][ThreadNext]_uthreadVars

------------------------------------------------------------------------------
UThreadType ==
  /\ \A r \in Records : rec[r].state \in {"none", "live", "freed"} /\ rec[r].ref \in Nat
  /\ newSpin \in AllThreads \cup {None}
  /\ key \in keys \cup {None} /\ keys \subseteq NativeKeys
  /\ \A t \in AllThreads : \A k \in NativeKeys : tls[t][k] \in Records \cup {None}
  /\ user \in [Workers -> 0 .. MaxRefs + 1]
  /\ lost \subseteq Records

(* Threads between the start of the proxy and the end of their destructors. *)
Alive(w) == tpc[w] \notin {"none", "dead", "dying"}

(* "A running thread holds a reference to itself structure" (puthread.h):   *)
(* while a worker runs, while somebody joins it and while a slot points to  *)
(* it, the structure is not freed, however the application's unrefs, the    *)
(* thread's own exit and other creations interleave.                        *)
NoUseAfterFree ==
  /\ \A w \in Workers : Alive(w) => rec[Created(w)].state = "live"
  /\ \A t \in AllThreads :
       tpc[t] \in {"fill", "unlock", "joining"} /\ target[t] # None
         => rec[Created(target[t])].state = "live"
  /\ \A t \in AllThreads : \A k \in keys :
       tls[t][k] # None => rec[tls[t][k]].state = "live"

(* A worker enters the user's function only after its creator completed the *)
(* structure: func, data, ours and the two references are in place although *)
(* the thread was started before they were written.                         *)
StartsComplete ==
  \A w \in Workers : tpc[w] \in {"run", "dying"} \/ job[w] \in {"get", "set"}
    => rec[Created(w)].ours

(* When every thread has ended and the application returned its references, *)
(* no structure is left: what was created or adopted was freed, unless its  *)
(* thread could not store it in its slot (pthread_key_create() failed).     *)
NothingLeaks ==
  /\ \A t \in AllThreads : tpc[t] \in {"none", "dead"} \/ (down /\ tpc[t] = "run")
  /\ \A w \in Workers : user[w] = 0
  => \A r \in Records : rec[r].state = "live" => r \in lost

(* All threads end up with one pthread key, whoever won the race to make    *)
(* it: a value stored by a thread is where the thread will look for it, and *)
(* the losers' keys are gone.                                               *)
OneTlsKey ==
  ~down =>
    /\ \A t \in AllThreads : \A k \in NativeKeys : tls[t][k] # None => k = key
    /\ keys \ {key} = {tk[t] : t \in {u \in AllThreads : tpc[u] = "casKey"}}

(* zuthread_join() returns the code the thread passed to zuthread_exit(),   *)
(* or 0 when its function returned.                                         *)
JoinGetsCode ==
  \A w \in Workers : joined[w] # -1 => joined[w] = code[w]
==============================================================================
