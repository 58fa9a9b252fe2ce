------------------------------ MODULE SysVIpc -------------------------------
(***************************************************************************)
(* Shared memory and its semaphore on System V systems, for one name:      *)
(* src/tmp/pshm-sysv.c, src/tmp/psemaphore-sysv.c and src/lib/pipc.c.      *)
(* Each object is found in two steps, a key file in the temporary          *)
(* directory and the kernel object of the key ftok() makes of it, and      *)
(* every process decides for itself which of the four it will remove.      *)
(***************************************************************************)
EXTENDS Integers, FiniteSets

CONSTANTS
  SysvProcs, \* the processes that use the name
  Inodes,    \* what ftok() tells files apart by; a removed file's is used again
  Ids,       \* identifiers of kernel objects, not used again while remembered
  Overlapping, \* bound: the processes that take part in the "free" usage
  MaxVal,    \* bound: no release raises a semaphore above it
  Usages     \* how the processes behave:
             \*   "disciplined": zshm_new() and zshm_free() do not overlap, an
             \*     owner frees last, a process may be killed outside the calls
             \*   "free": calls overlap in any way, an owner frees when it likes

NoKey == 0

ASSUME SysvAssumption ==
  /\ IsFiniteSet(SysvProcs)
  /\ Inodes \subseteq Int /\ NoKey \notin Inodes /\ Cardinality(Inodes) >= 2
  /\ Ids \subseteq Int /\ NoKey \notin Ids
  /\ Cardinality(Ids) > 2 * Cardinality(SysvProcs)
  /\ MaxVal \in Nat \ {0} /\ Overlapping \subseteq SysvProcs
  /\ Usages \subseteq {"disciplined", "free"} /\ Usages # {}

VARIABLES
  usage,   \* the behaviour chosen
  keyFile, \* "shm" and "sem": the inode of the key file, NoKey if there is none
  segs,    \* the kernel's segments by identifier
  sems,    \* the kernel's semaphores by identifier
  proc     \* each process: its PShm, its PSemaphore and where it is

sysvVars == <<usage, keyFile, segs, sems, proc>>

NoSeg == [live |-> FALSE, key |-> NoKey, attached |-> {}]
NoSysvSem == [live |-> FALSE, key |-> NoKey, val |-> 0, undo |-> [p \in SysvProcs |-> 0]]

(* seg, addr, shmFile: shm_hdl, addr # NULL and file_created of the PShm;   *)
(* sem, semCreated, semFile, mode: sem_hdl, sem_created, file_created and   *)
(* mode of its PSemaphore; key, built: the locals of a create_handle; call: *)
(* what create_handle or clean_handle returns to; held: between zshm_lock() *)
(* and zshm_unlock().                                                       *)
NoProc ==
  [pc |-> "none", call |-> "new", key |-> NoKey, built |-> 0,
   seg |-> NoKey, addr |-> FALSE, shmFile |-> FALSE,
   sem |-> NoKey, semCreated |-> FALSE, semFile |-> FALSE, mode |-> "create",
   held |-> FALSE]

SysvInit ==
  /\ usage \in Usages
  /\ keyFile = [o \in {"shm", "sem"} |-> NoKey]
  /\ segs = [i \in Ids |-> NoSeg]
  /\ sems = [i \in Ids |-> NoSysvSem]
  /\ proc = [p \in SysvProcs |-> NoProc]

Fresh(objects, handle(_)) ==
  CHOOSE i \in Ids : ~objects[i].live /\ \A p \in SysvProcs : handle(p) # i
SegOf(p) == proc[p].seg
SemOf(p) == proc[p].sem
(* What shmget() and semget() find under a key, NoKey for ENOENT.           *)
Found(objects, key) ==
  IF \E i \in Ids : objects[i].live /\ objects[i].key = key
    THEN CHOOSE i \in Ids : objects[i].live /\ objects[i].key = key
    ELSE NoKey
SegLives(p) == SegOf(p) # NoKey /\ segs[SegOf(p)].live
SemLives(p) == SemOf(p) # NoKey /\ sems[SemOf(p)].live

At(p, phase) == proc[p].pc = phase
Becomes(p, new) == proc' = [proc EXCEPT ![p] = new]
Goes(p, phase) == Becomes(p, [proc[p] EXCEPT !.pc = phase])
SysvReady(record) == [record EXCEPT !.pc = "ready", !.call = "new", !.key = NoKey, !.built = 0]

Idle(p) == proc[p].pc \in {"none", "ready"}
Owner(p) == proc[p].shmFile \/ proc[p].semCreated \/ proc[p].semFile
Alone(p) == \A q \in SysvProcs \ {p} : At(q, "none")
MayBegin(p) == usage = "free" \/ \A q \in SysvProcs \ {p} : Idle(q)

------------------------------------------------------------------------------
(* zipc_unix_create_key_file(): the open() with O_CREAT and O_EXCL.         *)
CreateKeyFile(p, o, phase) ==
  IF keyFile[o] # NoKey
    THEN /\ Becomes(p, [proc[p] EXCEPT !.built = 1, !.pc = phase])
         /\ UNCHANGED keyFile
    ELSE \E n \in Inodes \ {keyFile[x] : x \in DOMAIN keyFile} :
           /\ keyFile' = [keyFile EXCEPT ![o] = n]
           /\ Becomes(p, IF o = "shm"
                THEN [proc[p] EXCEPT !.built = 0, !.shmFile = TRUE, !.pc = phase]
                ELSE [proc[p] EXCEPT !.built = 0, !.semFile = TRUE, !.pc = phase])

(* zipc_unix_get_ftok_key(): stat() fails if the file is gone by now.       *)
GetFtokKey(p, o, phase, failed) ==
  IF keyFile[o] # NoKey
    THEN Becomes(p, [proc[p] EXCEPT !.key = keyFile[o], !.pc = phase])
    ELSE Goes(p, failed)

------------------------------------------------------------------------------
(* zshm_new(), pzshm_create_handle()                                        *)
SysvNew(p) ==
  /\ At(p, "none") /\ MayBegin(p)
  /\ usage = "free" => p \in Overlapping
  /\ Goes(p, "shmfile")
  /\ UNCHANGED <<usage, keyFile, segs, sems>>

ShmKeyFile(p) ==
  /\ At(p, "shmfile")
  /\ CreateKeyFile(p, "shm", "shmkey")
  /\ UNCHANGED <<usage, segs, sems>>

ShmKey(p) ==
  /\ At(p, "shmkey")
  /\ GetFtokKey(p, "shm", "shmexcl", "shmunlink")
  /\ UNCHANGED <<usage, keyFile, segs, sems>>

(* shmget(IPC_CREAT | IPC_EXCL): a new segment, or EEXIST and is_exists.    *)
(* The creator owns the key file only if it found one.                      *)
ShmGetExcl(p) ==
  /\ At(p, "shmexcl")
  /\ IF Found(segs, proc[p].key) = NoKey
       THEN LET i == Fresh(segs, SegOf) IN
            /\ segs' = [segs EXCEPT ![i] = [NoSeg EXCEPT !.live = TRUE, !.key = proc[p].key]]
            /\ Becomes(p, [proc[p] EXCEPT !.seg = i, !.shmFile = (proc[p].built = 1),
                                          !.mode = "create", !.pc = "shmat"])
       ELSE Goes(p, "shmget") /\ UNCHANGED segs
  /\ UNCHANGED <<usage, keyFile, sems>>

ShmGet(p) ==
  /\ At(p, "shmget")
  /\ LET i == Found(segs, proc[p].key) IN
     Becomes(p, [proc[p] EXCEPT !.seg = i, !.mode = "open",
                                !.pc = IF i = NoKey THEN "shmunlink" ELSE "shmat"])
  /\ UNCHANGED <<usage, keyFile, segs, sems>>

(* IPC_STAT and shmat().  A failed shmat() leaves -1, not NULL, in addr, so *)
(* the segment is detached, asked for and removed, all of which fails on a  *)
(* segment that is gone.                                                    *)
ShmAttach(p) ==
  /\ At(p, "shmat")
  /\ \/ /\ SegLives(p)
        /\ segs' = [segs EXCEPT ![SegOf(p)].attached = @ \cup {p}]
        /\ Becomes(p, [proc[p] EXCEPT !.addr = TRUE, !.pc = "semfile"])
     \/ /\ ~SegLives(p)
        /\ UNCHANGED segs
        /\ Goes(p, "shmunlink")
  /\ UNCHANGED <<usage, keyFile, sems>>

------------------------------------------------------------------------------
(* pzsemaphore_create_handle(), called by zsemaphore_new() from zshm_new(), *)
(* with the mode found there, and by zsemaphore_acquire() and               *)
(* zsemaphore_release() to make a removed semaphore again.                  *)
SemKeyFile(p) ==
  /\ At(p, "semfile")
  /\ CreateKeyFile(p, "sem", "semkey")
  /\ UNCHANGED <<usage, segs, sems>>

SemKey(p) ==
  /\ At(p, "semkey")
  /\ GetFtokKey(p, "sem", "semexcl", "semfailed")
  /\ UNCHANGED <<usage, keyFile, segs, sems>>

SemGetExcl(p) ==
  /\ At(p, "semexcl")
  /\ IF Found(sems, proc[p].key) = NoKey
       THEN LET i == Fresh(sems, SemOf) IN
            /\ sems' = [sems EXCEPT ![i] = [NoSysvSem EXCEPT !.live = TRUE, !.key = proc[p].key]]
            /\ Becomes(p, [proc[p] EXCEPT !.sem = i, !.semCreated = TRUE,
                                          !.semFile = (proc[p].built = 1), !.pc = "semset"])
       ELSE Goes(p, "semget") /\ UNCHANGED sems
  /\ UNCHANGED <<usage, keyFile, segs>>

SemGet(p) ==
  /\ At(p, "semget")
  /\ LET i == Found(sems, proc[p].key) IN
     Becomes(p, [proc[p] EXCEPT !.sem = i,
                                !.pc = IF i = NoKey THEN "semfailed"
                                       ELSE IF proc[p].mode = "create" THEN "semset" ELSE "semmade"])
  /\ UNCHANGED <<usage, keyFile, segs, sems>>

(* semctl(SETVAL, 1), which also clears every process's undo value.         *)
SemSetVal(p) ==
  /\ At(p, "semset")
  /\ \/ /\ SemLives(p)
        /\ sems' = [sems EXCEPT ![SemOf(p)].val = 1, ![SemOf(p)].undo = NoSysvSem.undo]
        /\ Goes(p, "semmade")
     \/ ~SemLives(p) /\ UNCHANGED sems /\ Goes(p, "semfailed")
  /\ UNCHANGED <<usage, keyFile, segs>>

(* Where create_handle returns TRUE to: zshm_new() is complete; acquire     *)
(* calls semop() once more; release reports success without one.            *)
SemMade(p) ==
  /\ At(p, "semmade")
  /\ IF proc[p].call = "acquire" THEN Goes(p, "relock") ELSE Becomes(p, SysvReady(proc[p]))
  /\ UNCHANGED <<usage, keyFile, segs, sems>>

(* Its error paths clean the handle; in zsemaphore_new() the whole zshm_new *)
(* fails, in the other two the call does.                                   *)
SemFailed(p) ==
  /\ At(p, "semfailed")
  /\ Becomes(p, [proc[p] EXCEPT !.pc = "semrmid",
                                !.call = IF @ = "new" THEN "failed" ELSE "refused"])
  /\ UNCHANGED <<usage, keyFile, segs, sems>>

------------------------------------------------------------------------------
(* Mutant: a handle that found the semaphore removes it too.                *)
SemRemoveAlways(p) ==
  /\ At(p, "semrmid")
  /\ IF SemLives(p)
       THEN sems' = [sems EXCEPT ![SemOf(p)] = NoSysvSem]
       ELSE UNCHANGED sems
  /\ Goes(p, "semunlink")
  /\ UNCHANGED <<usage, keyFile, segs>>

(* pzsemaphore_clean_handle(): IPC_RMID, if the handle made the semaphore   *)
(* (whoever waits on it is woken with EIDRM), ...                           *)
SemRemove(p) ==
  /\ At(p, "semrmid")
  /\ IF SemLives(p) /\ proc[p].semCreated
       THEN sems' = [sems EXCEPT ![SemOf(p)] = NoSysvSem]
       ELSE UNCHANGED sems
  /\ Goes(p, "semunlink")
  /\ UNCHANGED <<usage, keyFile, segs>>

(* ... unlink() of the key file, whichever it is now, and the return.       *)
SemUnlink(p) ==
  /\ At(p, "semunlink")
  /\ keyFile' = IF proc[p].semFile THEN [keyFile EXCEPT !["sem"] = NoKey] ELSE keyFile
  /\ LET cleaned == [proc[p] EXCEPT !.sem = NoKey, !.semCreated = FALSE, !.semFile = FALSE]
     IN  Becomes(p, CASE proc[p].call = "failed" -> [cleaned EXCEPT !.pc = "shmdt"]
                      [] proc[p].call = "free" -> NoProc
                      [] proc[p].call = "refused" -> SysvReady(cleaned)
                      [] OTHER -> [cleaned EXCEPT !.pc = "semfile"])
  /\ UNCHANGED <<usage, segs, sems>>

------------------------------------------------------------------------------
(* zshm_lock(), zsemaphore_acquire(): semop() with SEM_UNDO takes the unit, *)
(* waits for it, or reports EIDRM or EINVAL if the semaphore is removed,    *)
(* which has it made again.                                                 *)
Take(p) ==
  /\ SemLives(p) /\ sems[SemOf(p)].val > 0
  /\ sems' = [sems EXCEPT ![SemOf(p)].val = @ - 1, ![SemOf(p)].undo[p] = @ + 1]
  /\ Becomes(p, SysvReady([proc[p] EXCEPT !.held = TRUE]))

SysvLock(p) ==
  /\ At(p, "ready") /\ ~proc[p].held
  /\ \/ Take(p)
     \/ /\ ~SemLives(p)
        /\ Becomes(p, [proc[p] EXCEPT !.call = "acquire", !.pc = "semrmid"])
        /\ UNCHANGED sems
  /\ UNCHANGED <<usage, keyFile, segs>>

(* The second semop(); its failure is the call's.                           *)
SysvRelock(p) ==
  /\ At(p, "relock")
  /\ Take(p) \/ (~SemLives(p) /\ Becomes(p, SysvReady(proc[p])) /\ UNCHANGED sems)
  /\ UNCHANGED <<usage, keyFile, segs>>

(* zshm_unlock(), zsemaphore_release()                                      *)
SysvUnlock(p) ==
  /\ At(p, "ready") /\ proc[p].held
  /\ \/ /\ SemLives(p) /\ sems[SemOf(p)].val < MaxVal
        /\ sems' = [sems EXCEPT ![SemOf(p)].val = @ + 1, ![SemOf(p)].undo[p] = @ - 1]
        /\ Becomes(p, [proc[p] EXCEPT !.held = FALSE])
     \/ /\ ~SemLives(p)
        /\ Becomes(p, [proc[p] EXCEPT !.held = FALSE, !.call = "release", !.pc = "semrmid"])
        /\ UNCHANGED sems
  /\ UNCHANGED <<usage, keyFile, segs>>

(* zshm_take_ownership() and zsemaphore_take_ownership()                    *)
SysvTakeOwnership(p) ==
  /\ At(p, "ready")
  /\ usage = "free" \/ \A q \in SysvProcs \ {p} : ~Owner(q)
  /\ Becomes(p, [proc[p] EXCEPT !.shmFile = TRUE, !.semCreated = TRUE])
  /\ UNCHANGED <<usage, keyFile, segs, sems>>

------------------------------------------------------------------------------
(* zshm_free() and pzshm_clean_handle(), by a process without the lock.     *)
SysvFree(p) ==
  /\ At(p, "ready") /\ ~proc[p].held /\ MayBegin(p)
  /\ usage = "disciplined" /\ Owner(p) => Alone(p)
  /\ Becomes(p, [proc[p] EXCEPT !.call = "free", !.pc = "shmdt"])
  /\ UNCHANGED <<usage, keyFile, segs, sems>>

(* A segment marked for removal, its key gone, goes with its last user.     *)
Detached(seg, p) ==
  LET left == [seg EXCEPT !.attached = @ \ {p}]
  IN  IF seg.key = NoKey /\ left.attached = {} THEN NoSeg ELSE left

ShmDetach(p) ==
  /\ At(p, "shmdt")
  /\ segs' = [segs EXCEPT ![SegOf(p)] = Detached(@, p)]
  /\ Goes(p, "shmstat")
  /\ UNCHANGED <<usage, keyFile, sems>>

(* IPC_STAT: nobody is attached any more.  If the segment is gone, shm_stat *)
(* is read uninitialised; what follows fails on a segment that is gone.     *)
ShmCtlStat(p) ==
  /\ At(p, "shmstat")
  /\ \/ SegLives(p) /\ Goes(p, IF segs[SegOf(p)].attached = {} THEN "shmrmid" ELSE "shmunlink")
     \/ ~SegLives(p) /\ \E phase \in {"shmrmid", "shmunlink"} : Goes(p, phase)
  /\ UNCHANGED <<usage, keyFile, segs, sems>>

(* Mutant: only the owner of the key file removes the segment.              *)
ShmRemoveByOwner(p) ==
  /\ At(p, "shmrmid")
  /\ segs' = IF ~SegLives(p) \/ ~proc[p].shmFile THEN segs
             ELSE [segs EXCEPT ![SegOf(p)] =
                     IF @.attached = {} THEN NoSeg ELSE [@ EXCEPT !.key = NoKey]]
  /\ Goes(p, "shmunlink")
  /\ UNCHANGED <<usage, keyFile, sems>>

(* IPC_RMID, decided on what IPC_STAT saw.                                  *)
ShmRemove(p) ==
  /\ At(p, "shmrmid")
  /\ segs' = IF ~SegLives(p) THEN segs
             ELSE [segs EXCEPT ![SegOf(p)] =
                     IF @.attached = {} THEN NoSeg ELSE [@ EXCEPT !.key = NoKey]]
  /\ Goes(p, "shmunlink")
  /\ UNCHANGED <<usage, keyFile, sems>>

(* unlink() of the key file by its owner; also the way out of a creation    *)
(* that failed before it was attached.                                      *)
ShmUnlink(p) ==
  /\ At(p, "shmunlink")
  /\ keyFile' = IF proc[p].shmFile THEN [keyFile EXCEPT !["shm"] = NoKey] ELSE keyFile
  /\ IF proc[p].addr /\ proc[p].call = "free"
       THEN Becomes(p, [proc[p] EXCEPT !.shmFile = FALSE, !.seg = NoKey, !.addr = FALSE,
                                       !.pc = "semrmid"])
       ELSE Becomes(p, NoProc)
  /\ UNCHANGED <<usage, segs, sems>>

(* Mutant: the semaphore operations are done without SEM_UNDO.              *)
SysvCrashNoUndo(p) ==
  /\ usage = "disciplined" /\ At(p, "ready")
  /\ segs' = [i \in Ids |-> IF p \in segs[i].attached THEN Detached(segs[i], p) ELSE segs[i]]
  /\ Becomes(p, NoProc)
  /\ UNCHANGED <<usage, keyFile, sems>>

(* A process is killed: the kernel detaches it and undoes its operations.   *)
SysvCrash(p) ==
  /\ usage = "disciplined" /\ At(p, "ready")
  /\ segs' = [i \in Ids |-> IF p \in segs[i].attached THEN Detached(segs[i], p) ELSE segs[i]]
  /\ sems' = [i \in Ids |-> [sems[i] EXCEPT !.val = @ + sems[i].undo[p], !.undo[p] = 0]]
  /\ Becomes(p, NoProc)
  /\ UNCHANGED <<usage, keyFile>>

SysvNext ==
  \E p \in SysvProcs :
    \/ SysvNew(p) \/ ShmKeyFile(p) \/ ShmKey(p) \/ ShmGetExcl(p) \/ ShmGet(p) \/ ShmAttach(p)
    \/ SemKeyFile(p) \/ SemKey(p) \/ SemGetExcl(p) \/ SemGet(p) \/ SemSetVal(p)
    \/ SemMade(p) \/ SemFailed(p) \/ SemRemove(p) \/ SemUnlink(p)
    \/ SysvLock(p) \/ SysvRelock(p) \/ SysvUnlock(p) \/ SysvTakeOwnership(p)
    \/ SysvFree(p) \/ ShmDetach(p) \/ ShmCtlStat(p) \/ ShmRemove(p) \/ ShmUnlink(p)
    \/ SysvCrash(p)

SysvSpec == SysvInit /\ [][SysvNext]_sysvVars

------------------------------------------------------------------------------
(* zshm_lock() excludes the other users of the segment although processes   *)
(* are killed with the lock, the segment outlives or is outlived by its     *)
(* semaphore and either is made again, as long as the owner frees last.     *)
SysvExcludes ==
  usage = "disciplined" =>
    \A p, q \in SysvProcs :
      p # q /\ proc[p].held /\ proc[q].held => SegOf(p) # SegOf(q)

(* SEM_UNDO gives back the unit of a killed process: whenever no call is in *)
(* progress the unit of a semaphore is with one process or can be taken, so *)
(* a name is never left locked (which POSIX semaphores cannot promise).     *)
UnitNeverLost ==
  usage = "disciplined" /\ (\A p \in SysvProcs : Idle(p)) =>
    \A i \in Ids : sems[i].live =>
      sems[i].val + Cardinality({p \in SysvProcs : proc[p].held /\ SemOf(p) = i}) = 1

(* However the calls overlap, whoever owns the name and whatever was made   *)
(* again after a removal, once every process freed its handle, none killed, *)
(* the kernel keeps neither a segment nor a semaphore: the removals that    *)
(* race with each other never leave the object to nobody.                   *)
NoKernelObjectLeft ==
  usage = "free" /\ (\A p \in SysvProcs : At(p, "none")) =>
    \A i \in Ids : ~segs[i].live /\ ~sems[i].live
==============================================================================
