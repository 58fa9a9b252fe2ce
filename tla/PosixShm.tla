------------------------------ MODULE PosixShm ------------------------------
(***************************************************************************)
(* Named shared memory on POSIX systems, src/os/posix/pshm-posix.c, for    *)
(* one name.  A PShm is a mapped segment and a PSemaphore that guards it;  *)
(* both are found by name, the segment first, so the two name spaces can   *)
(* disagree.  The semaphore's steps are those of PosixSemaphore.           *)
(***************************************************************************)
EXTENDS PosixSemaphore

CONSTANTS
  Segments,      \* kernel memory objects; unreferenced ones are used again
  NoSegment,     \* "no memory object"
  Sizes,         \* the sizes the processes ask for
  ConcurrentNew, \* zshm_new() and zshm_free() of processes may overlap
  CrashAnywhere  \* a process may be killed inside a call, not only outside

ASSUME ShmAssumption ==
  /\ IsFiniteSet(Segments) /\ NoSegment \notin Segments
  /\ Cardinality(Segments) > Cardinality(Procs)
  /\ Sizes \subseteq Nat
  /\ ConcurrentNew \in BOOLEAN /\ CrashAnywhere \in BOOLEAN
  /\ InitVals = {1} /\ Modes = {"open", "create"}

VARIABLES
  shmName,  \* the memory object the name is bound to
  segSize,  \* the size of each memory object
  shm,      \* each process's PShm
  shmPc     \* where each process is in its call

shmVars == <<shmName, segSize, shm, shmPc>>
vars == <<semVars, shmVars>>

(* seg is the mapping; exists is the local is_exists of the creation.       *)
NoShm == [seg |-> NoSegment, created |-> FALSE, exists |-> FALSE,
          size |-> 0, asked |-> 0]

Init ==
  /\ SemInit
  /\ shmName = NoSegment
  /\ segSize = [g \in Segments |-> 0]
  /\ shm = [p \in Procs |-> NoShm]
  /\ shmPc = [p \in Procs |-> "none"]

ShmReferenced == {shmName} \cup {shm[p].seg : p \in Procs}
FreshSegment == CHOOSE g \in Segments : g \notin ShmReferenced
Outside(p) == shmPc[p] \in {"none", "ready"}
MayEnter(p) == ConcurrentNew \/ \A q \in Procs \ {p} : Outside(q)

ShmGoto(p, phase) == shmPc' = [shmPc EXCEPT ![p] = phase]

(* The kernel destroys a segment that lost its name and its last mapping.   *)
ShmReap ==
  segSize' = [g \in Segments |-> IF g \in ShmReferenced' THEN segSize[g] ELSE 0]

------------------------------------------------------------------------------
(* zshm_new(name, size)                                                     *)
ShmNew(p, size) ==
  /\ shmPc[p] = "none" /\ MayEnter(p)
  /\ shm' = [shm EXCEPT ![p] = [NoShm EXCEPT !.size = size, !.asked = size]]
  /\ ShmGoto(p, "excl")
  /\ UNCHANGED <<semVars, shmName, segSize>>

(* shm_open(O_CREAT | O_EXCL): a new empty segment, or EEXIST.              *)
ShmOpenExcl(p) ==
  /\ shmPc[p] = "excl"
  /\ \/ /\ shmName = NoSegment
        /\ shmName' = FreshSegment
        /\ shm' = [shm EXCEPT ![p].seg = FreshSegment, ![p].created = TRUE]
        /\ ShmGoto(p, "truncate")
        /\ UNCHANGED segSize
     \/ /\ shmName # NoSegment
        /\ shm' = [shm EXCEPT ![p].exists = TRUE]
        /\ ShmGoto(p, "open")
        /\ UNCHANGED <<shmName, segSize>>
  /\ UNCHANGED semVars

(* shm_open(O_RDWR): the segment the name is bound to now, or ENOENT.       *)
ShmOpen(p) ==
  /\ shmPc[p] = "open"
  /\ IF shmName # NoSegment
       THEN shm' = [shm EXCEPT ![p].seg = shmName] /\ ShmGoto(p, "stat")
       ELSE UNCHANGED shm /\ ShmGoto(p, "clean")
  /\ UNCHANGED <<semVars, shmName, segSize>>

(* Mutant: an opener keeps the size it asked for.                           *)
ShmStatTrusts(p) ==
  /\ shmPc[p] = "stat"
  /\ ShmGoto(p, "map")
  /\ UNCHANGED <<semVars, shmName, segSize, shm>>

(* fstat() tells an opener the size the segment has at this moment ...      *)
ShmStat(p) ==
  /\ shmPc[p] = "stat"
  /\ shm' = [shm EXCEPT ![p].size = segSize[shm[p].seg]]
  /\ ShmGoto(p, "map")
  /\ UNCHANGED <<semVars, shmName, segSize>>

(* ... and ftruncate() gives a created one the size asked for.              *)
ShmTruncate(p) ==
  /\ shmPc[p] = "truncate"
  /\ segSize' = [segSize EXCEPT ![shm[p].seg] = shm[p].size]
  /\ ShmGoto(p, "map")
  /\ UNCHANGED <<semVars, shmName, shm>>

(* mmap() refuses an empty mapping; the descriptor is closed either way.    *)
ShmMap(p) ==
  /\ shmPc[p] = "map"
  /\ IF shm[p].size = 0
       THEN shm' = [shm EXCEPT ![p].seg = NoSegment] /\ ShmGoto(p, "clean")
       ELSE UNCHANGED shm /\ ShmGoto(p, "sem")
  /\ UNCHANGED <<semVars, shmName>>
  /\ ShmReap

(* zsemaphore_new(platform_key, 1, is_exists ? OPEN : CREATE)               *)
ShmSemNew(p) ==
  /\ shmPc[p] = "sem"
  /\ SemNew(p, IF shm[p].exists THEN "open" ELSE "create")
  /\ ShmGoto(p, "insem")
  /\ UNCHANGED <<shmName, segSize, shm>>

(* Mutant: a creation that got no semaphore is not cleaned up.              *)
ShmNewReturnUnclean(p) ==
  /\ shmPc[p] = "insem"
  /\ \/ semPc[p] = "ready" /\ UNCHANGED shm /\ ShmGoto(p, "ready")
     \/ semPc[p] = "none" /\ shm' = [shm EXCEPT ![p] = NoShm] /\ ShmGoto(p, "none")
  /\ UNCHANGED <<semVars, shmName>>
  /\ ShmReap

(* The creation's end: zshm_new() lowers the handle's size to the one asked *)
(* for and returns, or cleans up because there is no semaphore.             *)
ShmNewReturn(p) ==
  /\ shmPc[p] = "insem"
  /\ \/ /\ semPc[p] = "ready"
        /\ shm' = [shm EXCEPT ![p].exists = FALSE, ![p].asked = 0, ![p].size =
             IF @ > shm[p].asked /\ shm[p].asked # 0 THEN shm[p].asked ELSE @]
        /\ ShmGoto(p, "ready")
     \/ semPc[p] = "none" /\ UNCHANGED shm /\ ShmGoto(p, "clean")
  /\ UNCHANGED <<semVars, shmName, segSize>>

(* Mutant: only the semaphore is taken over.                                *)
ShmTakeSemaphoreOnly(p) ==
  /\ shmPc[p] = "ready"
  /\ SemTakeOwnership(p)
  /\ UNCHANGED shmVars

ShmTakeOwnership(p) ==
  /\ shmPc[p] = "ready"
  /\ shm' = [shm EXCEPT ![p].created = TRUE]
  /\ SemTakeOwnership(p)
  /\ UNCHANGED <<shmName, segSize, shmPc>>

(* zshm_lock() and zshm_unlock()                                            *)
ShmLock(p) == shmPc[p] = "ready" /\ SemAcquire(p) /\ UNCHANGED shmVars
ShmUnlock(p) == shmPc[p] = "ready" /\ SemRelease(p) /\ UNCHANGED shmVars

(* zshm_free(), by a process that does not hold the lock.                   *)
ShmFree(p) ==
  /\ shmPc[p] = "ready" /\ MayEnter(p)
  /\ sem[p].units = 0
  /\ ShmGoto(p, "clean")
  /\ UNCHANGED <<semVars, shmName, segSize, shm>>

(* pzshm_clean_handle(), which also ends a failed creation: munmap() and,   *)
(* for an owner, shm_unlink() of whatever the name is bound to ...          *)
ShmClean(p) ==
  /\ shmPc[p] = "clean"
  /\ shmName' = IF shm[p].created THEN NoSegment ELSE shmName
  /\ shm' = [shm EXCEPT ![p] = NoShm]
  /\ ShmGoto(p, IF semPc[p] = "ready" THEN "semfree" ELSE "none")
  /\ UNCHANGED semVars
  /\ ShmReap

(* ... and zsemaphore_free(), in its one or two system calls.               *)
ShmSemClose(p) ==
  /\ shmPc[p] = "semfree"
  /\ SemClose(p)
  /\ ShmGoto(p, IF sem[p].created THEN "semremove" ELSE "none")
  /\ UNCHANGED <<shmName, segSize, shm>>

ShmSemUnlink(p) ==
  /\ shmPc[p] = "semremove"
  /\ SemUnlinkOwn(p)
  /\ ShmGoto(p, "none")
  /\ UNCHANGED <<shmName, segSize, shm>>

ShmCrash(p) ==
  /\ p \in Crashers
  /\ shmPc[p] # "none"
  /\ CrashAnywhere \/ shmPc[p] = "ready"
  /\ SemDie(p)
  /\ shm' = [shm EXCEPT ![p] = NoShm]
  /\ ShmGoto(p, "none")
  /\ UNCHANGED shmName
  /\ ShmReap

(* The steps of zshm_new() and zshm_free() in progress.                     *)
ShmStep(p) ==
  \/ ShmOpenExcl(p) \/ ShmOpen(p) \/ ShmStat(p) \/ ShmTruncate(p) \/ ShmMap(p)
  \/ ShmSemNew(p) \/ (SemNewStep(p) /\ UNCHANGED shmVars) \/ ShmNewReturn(p)
  \/ ShmClean(p) \/ ShmSemClose(p) \/ ShmSemUnlink(p)

Next ==
  \E p \in Procs :
    \/ \E size \in Sizes : ShmNew(p, size)
    \/ ShmStep(p) \/ ShmTakeOwnership(p)
    \/ ShmLock(p) \/ ShmUnlock(p) \/ ShmFree(p) \/ ShmCrash(p)

Spec == Init /\ [][Next]_vars

------------------------------------------------------------------------------
ShmType ==
  /\ SemType
  /\ shmName \in Segments \cup {NoSegment}
  /\ segSize \in [Segments -> Sizes \cup {0}]
  /\ shm \in [Procs -> [seg : Segments \cup {NoSegment}, created : BOOLEAN,
                        exists : BOOLEAN, size : Sizes \cup {0},
                        asked : Sizes \cup {0}]]
  /\ shmPc \in [Procs -> {"none", "excl", "open", "stat", "truncate", "map", "sem",
                          "insem", "ready", "clean", "semfree", "semremove"}]

Ready(p) == shmPc[p] = "ready"

(* "The locking mechanism is working across the process boundary" (pshm.h): *)
(* of the processes that mapped one segment at most one is between          *)
(* zshm_lock() and zshm_unlock().                                           *)
LockExcludes ==
  \A p, q \in Procs :
    p # q /\ Ready(p) /\ Ready(q) /\ shm[p].seg = shm[q].seg
      => sem[p].units = 0 \/ sem[q].units = 0

(* Segment and semaphore found under one name belong together: processes    *)
(* share their semaphore exactly if they share their segment, whatever was  *)
(* freed, taken over and created again in between.                          *)
SameSegmentSameLock ==
  \A p, q \in Procs :
    Ready(p) /\ Ready(q) =>
      (shm[p].seg = shm[q].seg <=> sem[p].hdl = sem[q].hdl)

(* Once every process has freed its handle, and none was killed, nothing is *)
(* left under the name, neither a segment nor a semaphore.                  *)
NothingLeft ==
  (\A p \in Procs : shmPc[p] = "none") /\ Crashers = {}
    => shmName = NoSegment /\ semName = NoObject

(* What a handle reports as its memory is backed by its segment, although   *)
(* the size is read, or set, while other processes create and free.         *)
MappingBacked ==
  \A p \in Procs : Ready(p) => shm[p].size \in 1 .. segSize[shm[p].seg]

(* "The common usage of this call is upon application startup to ensure     *)
(* that the memory segment from the previous crash will be unlinked ... To  *)
(* do that, call zshm_new()" (pshm.h): whatever crash the last user of a    *)
(* name ended in, the next zshm_new() finds no segment or one that can be   *)
(* mapped.                                                                  *)
NameRecoverable ==
  (\A p \in Procs : shmPc[p] = "none") /\ shmName # NoSegment
    => segSize[shmName] # 0
==============================================================================
