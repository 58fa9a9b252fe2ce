------------------------------ MODULE ShmBuffer ------------------------------
(***************************************************************************)
(* The cyclic buffer in shared memory of src/lib/pshmbuffer.c.  The        *)
(* segment holds two positions and the data; every process keeps a         *)
(* PShmBuffer with its own idea of the size.  The lock is the one of       *)
(* PosixShm, here as the single semaphore that PosixShm!LockExcludes       *)
(* speaks of.  Copying the bytes and storing the new position are separate *)
(* steps, and a process may be killed between them.                        *)
(***************************************************************************)
EXTENDS Integers, Sequences, FiniteSets

CONSTANTS
  Procs,      \* the processes that use the buffer
  NoProc,     \* "the lock is free"
  ByteValues, \* byte values; ZeroByte is what new and cleared memory holds
  ZeroByte,
  AskedSizes, \* the size arguments of zshm_buffer_new()
  MaxLen,     \* bound on the length of a read or a write
  PSizeLimit, \* values of a psize: 2^64 in the code
  Crashers    \* processes that may be killed

ASSUME BufferAssumption ==
  /\ NoProc \notin Procs /\ ZeroByte \notin ByteValues
  /\ AskedSizes \subseteq Nat /\ MaxLen \in Nat \ {0}
  /\ PSizeLimit \in Nat /\ \A s \in AskedSizes : 2 * s + MaxLen < PSizeLimit
  /\ Crashers \subseteq Procs

VARIABLES
  named,     \* the segment's name leads to it: zshm_buffer_new() finds it
  segSize,   \* data bytes of the segment, 0 before its creation
  data,      \* the data bytes
  readPos, writePos,
  lock,      \* the process inside zshm_lock() .. zshm_unlock()
  bufSize,   \* PShmBuffer.size of each process
  owner,     \* PShm.shm_created of each process
  pc,        \* where each process is in its call
  call,      \* the operation and its argument
  storage,   \* bytes copied out by a zshm_buffer_read() in progress
  got        \* the bytes the last zshm_buffer_read() of this content returned

shared == <<named, segSize, data, readPos, writePos, lock>>
bufferVars == <<shared, bufSize, owner, pc, call, storage, got>>

NoCall == [op |-> "none", len |-> 0, bytes |-> <<>>]
Strings(n) == [1 .. n -> ByteValues]

BufferInit ==
  /\ named = FALSE /\ segSize = 0
  /\ data = <<>>
  /\ readPos = 0 /\ writePos = 0
  /\ lock = NoProc
  /\ bufSize = [p \in Procs |-> 0]
  /\ owner = [p \in Procs |-> FALSE]
  /\ pc = [p \in Procs |-> "closed"]
  /\ call = [p \in Procs |-> NoCall]
  /\ storage = [p \in Procs |-> <<>>]
  /\ got = <<>>

Goto(p, phase) == pc' = [pc EXCEPT ![p] = phase]
SubP(a, b) == (a - b) % PSizeLimit    \* psize subtraction

------------------------------------------------------------------------------
(* Mutant: no byte is left unused.                                          *)
FreeSpaceToTheBrim(p) ==
  IF writePos < readPos THEN SubP(readPos, writePos)
  ELSE SubP(bufSize[p], SubP(writePos, readPos))

(* pzshm_buffer_get_free_space() and pzshm_buffer_get_used_space()          *)
FreeSpace(p) ==
  IF writePos < readPos THEN SubP(SubP(readPos, writePos), 1)
  ELSE IF writePos > readPos
    THEN SubP(SubP(bufSize[p], SubP(writePos, readPos)), 1)
  ELSE SubP(bufSize[p], 1)

UsedSpace(p) ==
  IF writePos > readPos THEN SubP(writePos, readPos)
  ELSE IF writePos < readPos THEN SubP(bufSize[p], SubP(readPos, writePos))
  ELSE 0

(* zshm_buffer_new(): the first caller makes a segment with one byte more   *)
(* than it asked for; the others find it, and zshm_new() lowers their size  *)
(* to what they asked for; size 0 takes an existing segment as it is, and   *)
(* fails without one.  The name is created again, empty, only after the     *)
(* last user of the old segment is gone: one segment at a time is modelled, *)
(* PosixShm has them all.                                                   *)
Open(p, asked) ==
  /\ pc[p] = "closed"
  /\ \/ /\ asked # 0
        /\ ~named /\ \A q \in Procs : pc[q] = "closed"
        /\ named' = TRUE
        /\ segSize' = asked + 1
        /\ data' = [i \in 0 .. asked |-> ZeroByte]
        /\ bufSize' = [bufSize EXCEPT ![p] = asked + 1]
        /\ owner' = [owner EXCEPT ![p] = TRUE]
        /\ readPos' = 0 /\ writePos' = 0 /\ lock' = NoProc
        /\ got' = <<>>
     \/ /\ named
        /\ bufSize' = [bufSize EXCEPT ![p] =
                      IF segSize > asked + 1 /\ asked # 0 THEN asked + 1 ELSE segSize]
        /\ owner' = [owner EXCEPT ![p] = FALSE]
        /\ UNCHANGED <<shared, got>>
  /\ Goto(p, "idle")
  /\ UNCHANGED <<call, storage>>

TakeOwnership(p) ==
  /\ pc[p] = "idle"
  /\ owner' = [owner EXCEPT ![p] = TRUE]
  /\ UNCHANGED <<shared, bufSize, pc, call, storage, got>>

(* zshm_buffer_free(): an owner removes the name.                           *)
Close(p) ==
  /\ pc[p] = "idle"
  /\ named' = (named /\ ~owner[p])
  /\ owner' = [owner EXCEPT ![p] = FALSE]
  /\ bufSize' = [bufSize EXCEPT ![p] = 0]
  /\ Goto(p, "closed")
  /\ UNCHANGED <<segSize, data, readPos, writePos, lock, call, storage, got>>

(* A process enters zshm_buffer_read(), _write() or _clear().               *)
Call(p, c) ==
  /\ pc[p] = "idle"
  /\ call' = [call EXCEPT ![p] = c]
  /\ Goto(p, "locking")
  /\ UNCHANGED <<shared, bufSize, owner, storage, got>>

Calls ==
  [op : {"read"}, len : 1 .. MaxLen, bytes : {<<>>}]
    \cup {[NoCall EXCEPT !.op = "clear"]}
    \cup UNION {[op : {"write"}, len : {n}, bytes : Strings(n)] : n \in 1 .. MaxLen}

(* zshm_lock() and zshm_unlock()                                            *)
Lock(p) ==
  /\ pc[p] = "locking"
  /\ lock = NoProc
  /\ lock' = p
  /\ Goto(p, call[p].op)
  /\ UNCHANGED <<named, segSize, data, readPos, writePos, bufSize, owner, call, storage, got>>

Unlock(p) ==
  /\ pc[p] = "unlocking"
  /\ lock' = NoProc
  /\ call' = [call EXCEPT ![p] = NoCall]
  /\ Goto(p, "idle")
  /\ UNCHANGED <<named, segSize, data, readPos, writePos, bufSize, owner, storage, got>>

(* zshm_buffer_read(): the bytes are copied out ...                         *)
ToCopy(p) == IF UsedSpace(p) <= call[p].len THEN UsedSpace(p) ELSE call[p].len

ReadCopy(p) ==
  /\ pc[p] = "read"
  /\ IF readPos = writePos
       THEN Goto(p, "unlocking") /\ UNCHANGED storage
       ELSE /\ storage' = [storage EXCEPT ![p] =
                 [i \in 1 .. ToCopy(p) |-> data[(readPos + i - 1) % bufSize[p]]]]
            /\ Goto(p, "readStore")
  /\ UNCHANGED <<shared, bufSize, owner, call, got>>

(* ... and the read position is stored; the call will return the bytes.     *)
ReadStore(p) ==
  /\ pc[p] = "readStore"
  /\ readPos' = (readPos + Len(storage[p])) % bufSize[p]
  /\ got' = storage[p]
  /\ storage' = [storage EXCEPT ![p] = <<>>]
  /\ Goto(p, "unlocking")
  /\ UNCHANGED <<named, segSize, data, writePos, lock, bufSize, owner, call>>

(* zshm_buffer_write(): all the bytes are copied in, or none if they do not *)
(* fit, and then the write position is stored.                              *)
WriteCopy(p) ==
  /\ pc[p] = "write"
  /\ IF FreeSpace(p) < call[p].len
       THEN Goto(p, "unlocking") /\ UNCHANGED data
       ELSE /\ data' = [i \in DOMAIN data |->
                 LET from == {k \in 1 .. call[p].len : (writePos + k - 1) % bufSize[p] = i}
                 IN  IF from = {} THEN data[i]
                     ELSE call[p].bytes[CHOOSE k \in from : \A j \in from : j <= k]]
            /\ Goto(p, "writeStore")
  /\ UNCHANGED <<named, segSize, readPos, writePos, lock, bufSize, owner, call, storage, got>>

WriteStore(p) ==
  /\ pc[p] = "writeStore"
  /\ writePos' = (writePos + call[p].len) % bufSize[p]
  /\ Goto(p, "unlocking")
  /\ UNCHANGED <<named, segSize, data, readPos, lock, bufSize, owner, call, storage, got>>

(* zshm_buffer_clear(): memset() of the positions and of the data bytes the *)
(* handle knows of, in one step: the calls look at the segment only with    *)
(* the lock, and a process killed in the middle of the memset() leaves the  *)
(* lock taken, so no other call ever sees a half-cleared one.               *)
ClearAll(p) ==
  /\ pc[p] = "clear"
  /\ data' = [i \in DOMAIN data |-> IF i < bufSize[p] THEN ZeroByte ELSE data[i]]
  /\ readPos' = 0 /\ writePos' = 0
  /\ got' = <<>>
  /\ Goto(p, "unlocking")
  /\ UNCHANGED <<named, segSize, lock, bufSize, owner, call, storage>>

(* A killed process leaves the memory and the lock as they are.             *)
Crash(p) ==
  /\ p \in Crashers
  /\ pc[p] # "closed"
  /\ bufSize' = [bufSize EXCEPT ![p] = 0]
  /\ owner' = [owner EXCEPT ![p] = FALSE]
  /\ call' = [call EXCEPT ![p] = NoCall]
  /\ storage' = [storage EXCEPT ![p] = <<>>]
  /\ Goto(p, "closed")
  /\ UNCHANGED <<shared, got>>

(* The steps of a call in progress.                                         *)
Step(p) ==
  \/ Lock(p) \/ ReadCopy(p) \/ ReadStore(p) \/ WriteCopy(p) \/ WriteStore(p)
  \/ ClearAll(p) \/ Unlock(p)

BufferNext ==
  \E p \in Procs :
    \/ \E asked \in AskedSizes : Open(p, asked)
    \/ TakeOwnership(p) \/ Close(p) \/ Crash(p)
    \/ \E c \in Calls : Call(p, c)
    \/ Step(p)

BufferSpec == BufferInit /\ [][BufferNext]_bufferVars

------------------------------------------------------------------------------
(* The bytes between the two positions, in order.                           *)
Used == IF segSize = 0 THEN 0 ELSE (writePos - readPos) % segSize
Stored == [i \in 1 .. Used |-> data[(readPos + i - 1) % segSize]]

(* The buffer implements the bounded first-in, first-out stream: copied but *)
(* unpublished bytes are invisible, also when their writer is killed, and   *)
(* no interleaving loses, repeats, reorders or overwrites a byte.           *)
Largest == CHOOSE s \in AskedSizes : \A t \in AskedSizes : t <= s
Fifo == INSTANCE BoundedFifo WITH q <- Stored, Bytes <- ByteValues, Capacity <- Largest
ImplementsFifo == Fifo!Spec

(* "you wouldn't get buffer overflow and wouldn't override previously       *)
(* written data until reading it" (pshmbuffer.h): copying bytes in leaves   *)
(* the unread ones alone, whatever sizes the processes passed to            *)
(* zshm_buffer_new(), which ignores them for an existing buffer.            *)
UnreadKept == [][\A p \in Procs : WriteCopy(p) => Stored' = Stored]_bufferVars
==============================================================================
