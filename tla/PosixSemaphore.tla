--------------------------- MODULE PosixSemaphore ---------------------------
(***************************************************************************)
(* Named semaphores on POSIX systems, src/os/posix/psemaphore-posix.c, for *)
(* one name.  The kernel keeps the binding of the name and the counters;   *)
(* every process keeps one PSemaphore.  Each system call is a step, so     *)
(* that the calls of several processes interleave between them, and a      *)
(* process may be killed between any two steps.                            *)
(***************************************************************************)
EXTENDS Integers, FiniteSets

CONSTANTS
  Procs,     \* processes, each with at most one PSemaphore of this name
  Objects,   \* kernel semaphore objects; unreferenced ones are used again
  NoObject,  \* "no kernel object"
  InitVals,  \* the values of init_val that processes pass
  Modes,     \* the PSemaphoreAccessModes the processes use
  Takers,    \* processes that call zsemaphore_take_ownership()
  Crashers   \* processes that may be killed

ASSUME SemaphoreAssumption ==
  /\ IsFiniteSet(Procs) /\ IsFiniteSet(Objects) /\ NoObject \notin Objects
  /\ Cardinality(Objects) > Cardinality(Procs)
  /\ InitVals \subseteq Nat
  /\ Modes \subseteq {"open", "create"}
  /\ Takers \subseteq Procs /\ Crashers \subseteq Procs

VARIABLES
  semName,  \* the kernel object the name is bound to
  semVal,   \* the counter of each kernel object
  semInit,  \* history: the value each object was made with
  semLost,  \* units of each object that died with their process
  sem,      \* each process's PSemaphore and the units it acquired
  semPc,    \* where each process is in its call
  seized    \* some process removed or claimed a name it had not created

semVars == <<semName, semVal, semInit, semLost, sem, semPc, seized>>

NoSem == [hdl |-> NoObject, created |-> FALSE, mode |-> "open", units |-> 0]

SemInit ==
  /\ semName = NoObject
  /\ semVal = [o \in Objects |-> 0]
  /\ semInit = [o \in Objects |-> 0]
  /\ semLost = [o \in Objects |-> 0]
  /\ sem = [p \in Procs |-> NoSem]
  /\ semPc = [p \in Procs |-> "none"]
  /\ seized = FALSE

SemReferenced == {semName} \cup {sem[p].hdl : p \in Procs}
FreshObject == CHOOSE o \in Objects : o \notin SemReferenced

SemGoto(p, phase) == semPc' = [semPc EXCEPT ![p] = phase]

(* The kernel destroys an object that lost its name and its last user.      *)
SemReap ==
  /\ semVal' = [o \in Objects |-> IF o \in SemReferenced' THEN semVal[o] ELSE 0]
  /\ semInit' = [o \in Objects |-> IF o \in SemReferenced' THEN semInit[o] ELSE 0]
  /\ semLost' = [o \in Objects |-> IF o \in SemReferenced' THEN semLost[o] ELSE 0]

------------------------------------------------------------------------------
(* zsemaphore_new(name, init_val, mode); init_val is used by the first call *)
(* of SemOpenExcl only.                                                     *)
SemNew(p, mode) ==
  /\ semPc[p] = "none"
  /\ sem' = [sem EXCEPT ![p] = [NoSem EXCEPT !.mode = mode]]
  /\ SemGoto(p, "excl")
  /\ UNCHANGED <<semName, semVal, semInit, semLost, seized>>

(* sem_open(O_CREAT | O_EXCL) of pzsemaphore_create_handle: a new object,   *)
(* or EEXIST.  (EINTR is tried again at once.)                              *)
SemOpenExcl(p) ==
  /\ semPc[p] = "excl"
  /\ \/ /\ semName = NoObject
        /\ semName' = FreshObject
        /\ \E init_val \in InitVals :
             /\ semVal' = [semVal EXCEPT ![FreshObject] = init_val]
             /\ semInit' = [semInit EXCEPT ![FreshObject] = init_val]
        /\ sem' = [sem EXCEPT ![p].hdl = FreshObject, ![p].created = TRUE]
        /\ SemGoto(p, "ready")
        /\ UNCHANGED <<semLost, seized>>
     \/ /\ semName # NoObject
        /\ SemGoto(p, IF sem[p].mode = "create" THEN "unlink" ELSE "open")
        /\ UNCHANGED <<semName, semVal, semInit, semLost, sem, seized>>

(* sem_unlink() of pzsemaphore_create_handle in P_SEM_ACCESS_CREATE mode.   *)
SemUnlinkOld(p) ==
  /\ semPc[p] = "unlink"
  /\ semName' = NoObject
  /\ seized' = TRUE
  /\ SemGoto(p, "open")
  /\ UNCHANGED sem
  /\ SemReap

(* Mutant: opening an existing semaphore sets its counter again.            *)
SemOpenResets(p) ==
  /\ semPc[p] = "open"
  /\ semName # NoObject
  /\ sem' = [sem EXCEPT ![p].hdl = semName]
  /\ \E init_val \in InitVals : semVal' = [semVal EXCEPT ![semName] = init_val]
  /\ SemGoto(p, "ready")
  /\ UNCHANGED <<semName, semInit, semLost, seized>>

(* Mutant: whoever opens the semaphore is taken for its creator.            *)
SemOpenOwns(p) ==
  /\ semPc[p] = "open"
  /\ semName # NoObject
  /\ sem' = [sem EXCEPT ![p].hdl = semName, ![p].created = TRUE]
  /\ SemGoto(p, "ready")
  /\ UNCHANGED <<semName, semVal, semInit, semLost, seized>>

(* sem_open(0): the object bound to the name.                               *)
SemOpen(p) ==
  /\ semPc[p] = "open"
  /\ semName # NoObject
  /\ sem' = [sem EXCEPT ![p].hdl = semName]
  /\ SemGoto(p, "ready")
  /\ UNCHANGED <<semName, semVal, semInit, semLost, seized>>

(* ENOENT: pzsemaphore_clean_handle has nothing to close, NULL is returned. *)
SemOpenFails(p) ==
  /\ semPc[p] = "open"
  /\ semName = NoObject
  /\ sem' = [sem EXCEPT ![p] = NoSem]
  /\ SemGoto(p, "none")
  /\ UNCHANGED <<semName, semVal, semInit, semLost, seized>>

SemTakeOwnership(p) ==
  /\ p \in Takers
  /\ semPc[p] = "ready"
  /\ sem' = [sem EXCEPT ![p].created = TRUE]
  /\ seized' = TRUE
  /\ UNCHANGED <<semName, semVal, semInit, semLost, semPc>>

(* sem_wait() blocks while the counter is zero.                             *)
SemAcquire(p) ==
  /\ semPc[p] = "ready"
  /\ semVal[sem[p].hdl] > 0
  /\ semVal' = [semVal EXCEPT ![sem[p].hdl] = @ - 1]
  /\ sem' = [sem EXCEPT ![p].units = @ + 1]
  /\ UNCHANGED <<semName, semInit, semLost, semPc, seized>>

(* sem_post().  A process gives back what it acquired.                      *)
SemRelease(p) ==
  /\ semPc[p] = "ready"
  /\ sem[p].units > 0
  /\ semVal' = [semVal EXCEPT ![sem[p].hdl] = @ + 1]
  /\ sem' = [sem EXCEPT ![p].units = @ - 1]
  /\ UNCHANGED <<semName, semInit, semLost, semPc, seized>>

(* zsemaphore_free(): sem_close(), then sem_unlink() if the semaphore is    *)
(* owned.  The second call removes whatever the name is bound to by then.   *)
SemClose(p) ==
  /\ semPc[p] = "ready"
  /\ sem[p].units = 0
  /\ SemGoto(p, IF sem[p].created THEN "remove" ELSE "none")
  /\ sem' = [sem EXCEPT ![p] = NoSem]
  /\ UNCHANGED <<semName, seized>>
  /\ SemReap

SemUnlinkOwn(p) ==
  /\ semPc[p] = "remove"
  /\ semName' = NoObject
  /\ SemGoto(p, "none")
  /\ UNCHANGED <<sem, seized>>
  /\ SemReap

(* The process is killed: the kernel closes its handle and nothing else.    *)
SemDie(p) ==
  /\ sem' = [sem EXCEPT ![p] = NoSem]
  /\ UNCHANGED <<semName, seized>>
  /\ semVal' = [o \in Objects |-> IF o \in SemReferenced' THEN semVal[o] ELSE 0]
  /\ semInit' = [o \in Objects |-> IF o \in SemReferenced' THEN semInit[o] ELSE 0]
  /\ semLost' = [o \in Objects |->
       IF o \notin SemReferenced' THEN 0
       ELSE IF o = sem[p].hdl THEN semLost[o] + sem[p].units ELSE semLost[o]]
  /\ SemGoto(p, "none")

SemCrash(p) ==
  /\ p \in Crashers
  /\ semPc[p] # "none"
  /\ SemDie(p)

(* The system calls of a zsemaphore_new() in progress.                      *)
SemNewStep(p) ==
  SemOpenExcl(p) \/ SemUnlinkOld(p) \/ SemOpen(p) \/ SemOpenFails(p)

SemNext ==
  \E p \in Procs :
    \/ \E mode \in Modes : SemNew(p, mode)
    \/ SemNewStep(p) \/ SemTakeOwnership(p) \/ SemAcquire(p) \/ SemRelease(p)
    \/ SemClose(p) \/ SemUnlinkOwn(p) \/ SemCrash(p)

SemSpec == SemInit /\ [][SemNext]_semVars

------------------------------------------------------------------------------
SemType ==
  /\ semName \in Objects \cup {NoObject}
  /\ semVal \in [Objects -> Nat]
  /\ semInit \in [Objects -> InitVals \cup {0}]
  /\ semLost \in [Objects -> Nat]
  /\ sem \in [Procs -> [hdl : Objects \cup {NoObject}, created : BOOLEAN,
                        mode : {"open", "create"}, units : Nat]]
  /\ semPc \in [Procs -> {"none", "excl", "unlink", "open", "ready", "remove"}]
  /\ seized \in BOOLEAN

(* The units of an object that are in the hands of live processes.          *)
Held(o) == UNION {{p} \X (1 .. sem[p].units) : p \in {q \in Procs : sem[q].hdl = o}}

(* Units are neither made nor lost while objects are created, unlinked and  *)
(* created again under the same name, by processes that disagree about      *)
(* init_val too: counter, units in the hands of live processes and units    *)
(* that died with theirs add up to the value the object was made with, for  *)
(* every object somebody can reach.  With init_val 1 this is the mutual     *)
(* exclusion zshm_lock() relies on.                                         *)
UnitsConserved ==
  \A o \in SemReferenced \ {NoObject} :
    semVal[o] + semLost[o] + Cardinality(Held(o)) = semInit[o]

(* A process that created the semaphore, and nobody else, unlinks it: while *)
(* its handle is open, or was closed but not unlinked yet, the name still   *)
(* leads to an object and that is its own, so zsemaphore_free() never       *)
(* removes a semaphore of somebody else.  Crashes included; the promise     *)
(* ends when somebody resets the name with P_SEM_ACCESS_CREATE or takes     *)
(* ownership of it.                                                         *)
OwnerBound ==
  ~seized =>
    \A p \in Procs :
      /\ semPc[p] = "ready" /\ sem[p].created => semName = sem[p].hdl
      /\ semPc[p] = "remove" =>
           semName # NoObject /\ \A q \in Procs : sem[q].hdl = semName => ~sem[q].created

(* P_SEM_ACCESS_CREATE "creates semaphore, resets to a given value if       *)
(* exists" (psemaphore.h): a zsemaphore_new() nobody interferes with does   *)
(* not fail.                                                                *)
CreateNeverFails ==
  [][\A p \in Procs : ~SemOpenFails(p)]_semVars
==============================================================================
