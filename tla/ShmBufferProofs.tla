--------------------------- MODULE ShmBufferProofs ---------------------------
(***************************************************************************)
(* Proof that the cyclic buffer in shared memory is a bounded first-in,    *)
(* first-out stream, for every number of processes, every size, and kills  *)
(* at every step.                                                          *)
(***************************************************************************)
EXTENDS ShmBuffer, SequenceTheorems, TLAPS

(* All who ask for a size ask for the same one; 0 takes what is there.      *)
SizesAgree == \E n \in Nat : AskedSizes \subseteq {0, n}

------------------------------------------------------------------------------
(* The inductive invariant.                                                 *)

Phases == {"closed", "idle", "locking", "read", "readStore", "write", "writeStore", "clear",
           "unlocking"}
Inside == Phases \ {"closed", "idle", "locking"}
Cells == ByteValues \cup {ZeroByte}

BufferTyped ==
  /\ named \in BOOLEAN /\ segSize \in Nat
  /\ data \in [0 .. segSize - 1 -> Cells]
  /\ readPos \in Nat /\ writePos \in Nat
  /\ lock \in Procs \cup {NoProc}
  /\ bufSize \in [Procs -> Nat]
  /\ pc \in [Procs -> Phases]
  /\ call = [p \in Procs |-> call[p]]
  /\ storage \in [Procs -> Seq(Cells)]

(* Both positions lie in the segment, whose size every handle knows.        *)
SizePart ==
  /\ segSize # 0 => segSize - 1 \in AskedSizes \ {0} /\ readPos < segSize /\ writePos < segSize
  /\ named => segSize # 0
  /\ \A p \in Procs : pc[p] # "closed" => segSize # 0 /\ bufSize[p] = segSize

LockPart == \A p \in Procs : pc[p] \in Inside => lock = p

CallOf(p) ==
  pc[p] \in Inside \cup {"locking"} =>
    /\ \/ call[p].op = "read" /\ call[p].len \in 1 .. MaxLen
       \/ /\ call[p].op = "write" /\ call[p].len \in 1 .. MaxLen
          /\ call[p].bytes \in Strings(call[p].len)
       \/ call[p].op = "clear"
    /\ pc[p] \in {"read", "readStore"} => call[p].op = "read"
    /\ pc[p] \in {"write", "writeStore"} => call[p].op = "write"

(* What a process has copied out is what lies at the front, and what it has *)
(* copied in lies behind the rest and fits.                                 *)
CopyOf(p) ==
  /\ pc[p] = "readStore" =>
       /\ Len(storage[p]) \in 1 .. Used
       /\ \A i \in 1 .. Len(storage[p]) : storage[p][i] = data[(readPos + i - 1) % segSize]
  /\ pc[p] = "writeStore" =>
       /\ Used + call[p].len < segSize
       /\ \A k \in 1 .. call[p].len :
            data[(writePos + k - 1) % segSize] = call[p].bytes[k]

ProcPart == \A p \in Procs : CallOf(p) /\ CopyOf(p)

BufferIInv == BufferTyped /\ SizePart /\ LockPart /\ ProcPart

------------------------------------------------------------------------------
(* Positions in the segment.                                                *)

LEMMA Wrap ==
  ASSUME NEW m \in Nat \ {0}, NEW a \in Int
  PROVE  /\ 0 <= a /\ a < m => a % m = a
         /\ m <= a /\ a < 2 * m => a % m = a - m
         /\ a < 0 /\ -m <= a => a % m = a + m
<1>1. 0 <= a /\ a < m => a % m = a
  OBVIOUS
<1>2. m <= a /\ a < 2 * m => a % m = a - m
  OBVIOUS
<1>3. a < 0 /\ -m <= a => a % m = a + m
  OBVIOUS
<1>. QED  BY <1>1, <1>2, <1>3

LEMMA Sized ==
  ASSUME BufferTyped, SizePart, segSize # 0
  PROVE  /\ segSize \in Nat \ {0} /\ readPos \in 0 .. segSize - 1 /\ writePos \in 0 .. segSize - 1
         /\ segSize >= 2 /\ 2 * segSize + MaxLen < PSizeLimit + 2 /\ PSizeLimit \in Nat \ {0}
<1>1. segSize \in Nat /\ segSize - 1 \in AskedSizes \ {0}
  BY DEF BufferTyped, SizePart
<1>2. segSize - 1 \in Nat /\ 2 * (segSize - 1) + MaxLen < PSizeLimit /\ PSizeLimit \in Nat /\ MaxLen \in Nat
  BY <1>1, BufferAssumption
<1>. QED  BY <1>1, <1>2 DEF BufferTyped, SizePart

LEMMA UsedIs ==
  ASSUME BufferTyped, SizePart
  PROVE  /\ Used \in Nat
         /\ segSize = 0 => Used = 0
         /\ segSize # 0 =>
              /\ Used < segSize
              /\ Used = IF readPos <= writePos THEN writePos - readPos
                        ELSE writePos - readPos + segSize
<1>1. CASE segSize = 0
  BY <1>1 DEF Used
<1>2. CASE segSize # 0
  <2>1. segSize \in Nat \ {0} /\ readPos \in 0 .. segSize - 1 /\ writePos \in 0 .. segSize - 1
    BY <1>2, Sized
  <2>2. PICK a \in Int : a = writePos - readPos
    BY <2>1
  <2>3. a % segSize = IF 0 <= a THEN a ELSE a + segSize
    <3>1. -segSize <= a /\ a < segSize
      BY <2>1, <2>2
    <3>2. (0 <= a /\ a < segSize => a % segSize = a) /\ (a < 0 /\ -segSize <= a => a % segSize = a + segSize)
      BY <2>1, Wrap
    <3>. QED  BY <3>1, <3>2
  <2>. QED  BY <1>2, <2>1, <2>2, <2>3 DEF Used
<1>. QED  BY <1>1, <1>2

(* The d-th place from the read position.                                   *)
Place(d) == IF readPos + d < segSize THEN readPos + d ELSE readPos + d - segSize

LEMMA Places ==
  ASSUME BufferTyped, SizePart, segSize # 0
  PROVE  /\ \A d \in 0 .. segSize - 1 : Place(d) \in 0 .. segSize - 1
         /\ \A d, e \in 0 .. segSize - 1 : Place(d) = Place(e) => d = e
         /\ \A i \in 1 .. segSize : (readPos + i - 1) % segSize = Place(i - 1)
         /\ \A k \in 1 .. segSize - Used :
              Used + k - 1 \in 0 .. segSize - 1 /\ (writePos + k - 1) % segSize = Place(Used + k - 1)
<1>1. segSize \in Nat \ {0} /\ readPos \in 0 .. segSize - 1 /\ writePos \in 0 .. segSize - 1
  BY Sized
<1>2. /\ \A d \in 0 .. segSize - 1 : Place(d) \in 0 .. segSize - 1
      /\ \A d, e \in 0 .. segSize - 1 : Place(d) = Place(e) => d = e
  BY <1>1 DEF Place
<1>3. ASSUME NEW i \in 1 .. segSize PROVE (readPos + i - 1) % segSize = Place(i - 1)
  <2>1. PICK a \in Int : a = readPos + i - 1
    BY <1>1
  <2>2. a % segSize = IF a < segSize THEN a ELSE a - segSize
    <3>1. 0 <= a /\ a < 2 * segSize
      BY <1>1, <2>1
    <3>2. /\ 0 <= a /\ a < segSize => a % segSize = a
          /\ segSize <= a /\ a < 2 * segSize => a % segSize = a - segSize
      BY <1>1, Wrap
    <3>. QED  BY <1>1, <3>1, <3>2
  <2>. QED  BY <1>1, <2>1, <2>2 DEF Place
<1>4. ASSUME NEW k \in 1 .. segSize - Used
      PROVE  Used + k - 1 \in 0 .. segSize - 1 /\ (writePos + k - 1) % segSize = Place(Used + k - 1)
  <2>1. /\ Used \in Nat /\ Used < segSize
        /\ Used = IF readPos <= writePos THEN writePos - readPos ELSE writePos - readPos + segSize
    BY UsedIs
  <2>2. PICK a \in Int : a = writePos + k - 1
    BY <1>1, <2>1
  <2>3. a % segSize = IF a < segSize THEN a ELSE a - segSize
    BY <1>1, <2>1, <2>2, Wrap
  <2>. QED  BY <1>1, <2>1, <2>2, <2>3 DEF Place
<1>. QED  BY <1>2, <1>3, <1>4

LEMMA StoredIs ==
  ASSUME BufferTyped, SizePart
  PROVE  /\ Stored \in Seq(Cells) /\ Len(Stored) = Used
         /\ \A i \in 1 .. Used : Stored[i] = data[Place(i - 1)]
<1>1. Used \in Nat
  BY UsedIs
<1>2. ASSUME NEW i \in 1 .. Used
      PROVE  data[(readPos + i - 1) % segSize] = data[Place(i - 1)] /\ data[Place(i - 1)] \in Cells
  <2>1. segSize # 0 /\ Used < segSize /\ segSize \in Nat
    BY <1>1, UsedIs DEF BufferTyped
  <2>2. i \in 1 .. segSize /\ i - 1 \in 0 .. segSize - 1
    BY <1>1, <2>1
  <2>. QED  BY <2>1, <2>2, Places DEF BufferTyped
<1>3. Stored \in [1 .. Used -> Cells]
  BY <1>2 DEF Stored
<1>4. Stored \in Seq(Cells) /\ Len(Stored) = Used
  BY <1>1, <1>3
<1>. QED  BY <1>2, <1>4 DEF Stored

LEMMA SpaceIs ==
  ASSUME BufferTyped, SizePart, NEW p \in Procs, pc[p] # "closed"
  PROVE  /\ segSize # 0 /\ bufSize[p] = segSize
         /\ UsedSpace(p) = Used
         /\ FreeSpace(p) = segSize - 1 - Used
<1>1. segSize # 0 /\ bufSize[p] = segSize
  BY DEF SizePart
<1>2. /\ segSize \in Nat \ {0} /\ readPos \in 0 .. segSize - 1 /\ writePos \in 0 .. segSize - 1
      /\ segSize >= 2 /\ 2 * segSize + MaxLen < PSizeLimit + 2 /\ PSizeLimit \in Nat \ {0}
      /\ MaxLen \in Nat \ {0}
  BY <1>1, Sized, BufferAssumption
<1>3. \A a, b \in Int : 0 <= a - b /\ a - b <= segSize => SubP(a, b) = a - b
  <2>1. \A c \in Int : 0 <= c /\ c <= segSize => c % PSizeLimit = c
    BY <1>2, Wrap
  <2>. QED  BY <2>1 DEF SubP
<1>4. Used = IF readPos <= writePos THEN writePos - readPos ELSE writePos - readPos + segSize
  BY <1>1, UsedIs
<1>5. CASE writePos < readPos
  <2>1. SubP(readPos, writePos) = readPos - writePos
    BY <1>2, <1>3, <1>5
  <2>2. SubP(readPos - writePos, 1) = readPos - writePos - 1
    BY <1>2, <1>3, <1>5
  <2>3. SubP(segSize, readPos - writePos) = segSize - (readPos - writePos)
    BY <1>2, <1>3, <1>5
  <2>. QED  BY <1>1, <1>2, <1>4, <1>5, <2>1, <2>2, <2>3 DEF FreeSpace, UsedSpace
<1>6. CASE writePos > readPos
  <2>1. SubP(writePos, readPos) = writePos - readPos
    BY <1>2, <1>3, <1>6
  <2>2. SubP(segSize, writePos - readPos) = segSize - (writePos - readPos)
    BY <1>2, <1>3, <1>6
  <2>3. SubP(segSize - (writePos - readPos), 1) = segSize - (writePos - readPos) - 1
    BY <1>2, <1>3, <1>6
  <2>. QED  BY <1>1, <1>2, <1>4, <1>6, <2>1, <2>2, <2>3 DEF FreeSpace, UsedSpace
<1>7. CASE writePos = readPos
  <2>1. SubP(segSize, 1) = segSize - 1
    BY <1>2, <1>3
  <2>. QED  BY <1>1, <1>2, <1>4, <1>7, <2>1 DEF FreeSpace, UsedSpace
<1>. QED  BY <1>1, <1>2, <1>5, <1>6, <1>7

------------------------------------------------------------------------------
(* What a step of p leaves alone.                                           *)

Streams == [Fifo!Next]_<<Stored, got>>

Moves(p) ==
  /\ pc' \in [Procs -> Phases] /\ bufSize' \in [Procs -> Nat]
  /\ call' = [q \in Procs |-> call'[q]] /\ storage' \in [Procs -> Seq(Cells)]
  /\ lock' \in Procs \cup {NoProc}
  /\ \A q \in Procs : q # p =>
       pc'[q] = pc[q] /\ call'[q] = call[q] /\ storage'[q] = storage[q] /\ bufSize'[q] = bufSize[q]

(* The lock is p's, or p leaves it to whoever has it.                       *)
LockMoves(p) ==
  /\ \/ lock' = lock
     \/ lock = NoProc /\ lock' = p
     \/ pc[p] \in Inside /\ lock' = NoProc
  /\ pc'[p] \in Inside => lock' = p

LEMMA LockKept ==
  ASSUME BufferIInv, NEW p \in Procs, Moves(p), LockMoves(p)
  PROVE  LockPart'
<1>. SUFFICES ASSUME NEW q \in Procs, q # p, pc[q] \in Inside
              PROVE  lock' = q
  BY DEF LockPart, LockMoves, Moves
<1>1. lock = q /\ lock # NoProc /\ pc[p] \notin Inside
  BY BufferAssumption DEF BufferIInv, LockPart
<1>. QED  BY <1>1 DEF LockMoves

LEMMA OthersKept ==
  ASSUME BufferIInv, NEW p \in Procs, Moves(p), segSize' = segSize,
         UNCHANGED <<data, readPos, writePos>> \/ pc[p] \in Inside,
         NEW q \in Procs, q # p
  PROVE  CallOf(q)' /\ CopyOf(q)'
<1>1. CallOf(q) /\ CopyOf(q)
  BY DEF BufferIInv, ProcPart
<1>2. CallOf(q)'
  BY <1>1 DEF Moves, CallOf
<1>3. CASE UNCHANGED <<data, readPos, writePos>>
  <2>1. Used' = Used
    BY <1>3 DEF Used
  <2>. QED  BY <1>1, <1>2, <1>3, <2>1 DEF Moves, CopyOf
<1>4. CASE pc[p] \in Inside
  <2>1. pc[q] \notin Inside
    BY <1>4 DEF BufferIInv, LockPart
  <2>. QED  BY <1>2, <2>1 DEF Moves, CopyOf, Inside, Phases
<1>. QED  BY <1>3, <1>4

LEMMA QuietStep ==
  ASSUME BufferIInv, NEW p \in Procs, Moves(p), LockMoves(p),
         UNCHANGED <<segSize, data, readPos, writePos, got>>,
         named' \in BOOLEAN, named' => named,
         pc'[p] # "closed" => segSize # 0 /\ bufSize'[p] = segSize,
         CallOf(p)', CopyOf(p)'
  PROVE  BufferIInv' /\ Streams
<1>1. BufferTyped'
  BY DEF BufferIInv, BufferTyped, Moves
<1>2. SizePart'
  BY DEF BufferIInv, SizePart, Moves
<1>3. ProcPart'
  BY OthersKept DEF ProcPart
<1>4. Stored' = Stored
  BY DEF Stored, Used
<1>. QED  BY <1>1, <1>2, <1>3, <1>4, LockKept DEF BufferIInv, Streams

------------------------------------------------------------------------------
(* The steps that change nothing a reader could see.                        *)

LEMMA TakeOwnershipStep ==
  ASSUME BufferIInv, NEW p \in Procs, TakeOwnership(p)
  PROVE  BufferIInv' /\ Streams
<1>1. Moves(p) /\ LockMoves(p)
  BY DEF TakeOwnership, shared, BufferIInv, BufferTyped, LockPart, Moves, LockMoves
<1>2. CallOf(p)' /\ CopyOf(p)' /\ (pc'[p] # "closed" => segSize # 0 /\ bufSize'[p] = segSize)
  BY DEF TakeOwnership, shared, BufferIInv, SizePart, ProcPart, CallOf, CopyOf, Used
<1>. QED  BY <1>1, <1>2, QuietStep DEF TakeOwnership, shared, BufferIInv, BufferTyped

LEMMA CloseStep ==
  ASSUME BufferIInv, NEW p \in Procs, Close(p)
  PROVE  BufferIInv' /\ Streams
<1>1. pc'[p] = "closed"
  BY DEF Close, Goto, BufferIInv, BufferTyped
<1>2. Moves(p) /\ LockMoves(p)
  BY <1>1 DEF Close, Goto, BufferIInv, BufferTyped, Moves, LockMoves, Inside, Phases
<1>3. CallOf(p)' /\ CopyOf(p)'
  BY <1>1 DEF CallOf, CopyOf, Inside
<1>4. named' \in BOOLEAN /\ (named' => named)
  BY DEF Close
<1>. QED  BY <1>1, <1>2, <1>3, <1>4, QuietStep DEF Close

LEMMA CrashStep ==
  ASSUME BufferIInv, NEW p \in Procs, Crash(p)
  PROVE  BufferIInv' /\ Streams
<1>1. pc'[p] = "closed"
  BY DEF Crash, Goto, BufferIInv, BufferTyped
<1>2. Moves(p) /\ LockMoves(p)
  <2>1. <<>> \in Seq(Cells)
    OBVIOUS
  <2>. QED  BY <1>1, <2>1 DEF Crash, shared, Goto, BufferIInv, BufferTyped, Moves, LockMoves, Inside, Phases
<1>3. CallOf(p)' /\ CopyOf(p)'
  BY <1>1 DEF CallOf, CopyOf, Inside
<1>. QED  BY <1>1, <1>2, <1>3, QuietStep DEF Crash, shared, BufferIInv, BufferTyped

LEMMA CallStep ==
  ASSUME BufferIInv, NEW p \in Procs, NEW c \in Calls, Call(p, c)
  PROVE  BufferIInv' /\ Streams
<1>1. pc'[p] = "locking" /\ call'[p] = c /\ pc[p] = "idle"
  BY DEF Call, Goto, BufferIInv, BufferTyped
<1>2. Moves(p) /\ LockMoves(p)
  BY <1>1 DEF Call, shared, Goto, BufferIInv, BufferTyped, Moves, LockMoves, Inside, Phases
<1>3. \/ c.op = "read" /\ c.len \in 1 .. MaxLen
      \/ c.op = "write" /\ c.len \in 1 .. MaxLen /\ c.bytes \in Strings(c.len)
      \/ c.op = "clear"
  <2>. DEFINE reads == [op : {"read"}, len : 1 .. MaxLen, bytes : {<<>>}]
              writes(n) == [op : {"write"}, len : {n}, bytes : Strings(n)]
              clear == [NoCall EXCEPT !.op = "clear"]
  <2>1. c \in reads => c.op = "read" /\ c.len \in 1 .. MaxLen
    OBVIOUS
  <2>2. \A n \in 1 .. MaxLen : c \in writes(n) => c.op = "write" /\ c.len = n /\ c.bytes \in Strings(n)
    OBVIOUS
  <2>3. c = clear => c.op = "clear"
    BY DEF NoCall
  <2>4. ASSUME c \in UNION {writes(n) : n \in 1 .. MaxLen}
        PROVE  c.op = "write" /\ c.len \in 1 .. MaxLen /\ c.bytes \in Strings(c.len)
    <3>. HIDE DEF writes
    <3>1. PICK n \in 1 .. MaxLen : c \in writes(n)
      BY <2>4, Zenon
    <3>. QED  BY <2>2, <3>1
  <2>. DEFINE allWrites == UNION {writes(n) : n \in 1 .. MaxLen}
  <2>5. c \in reads \cup {clear} \cup allWrites
    BY DEF Calls
  <2>6. c \in allWrites => c.op = "write" /\ c.len \in 1 .. MaxLen /\ c.bytes \in Strings(c.len)
    BY <2>4
  <2>. HIDE DEF reads, writes, clear, allWrites
  <2>. QED  BY <2>1, <2>3, <2>5, <2>6
<1>4. CallOf(p)' /\ CopyOf(p)'
  BY <1>1, <1>3 DEF CallOf, CopyOf
<1>. QED
  BY <1>1, <1>2, <1>4, QuietStep DEF Call, shared, BufferIInv, BufferTyped, SizePart

LEMMA LockStep ==
  ASSUME BufferIInv, NEW p \in Procs, Lock(p)
  PROVE  BufferIInv' /\ Streams
<1>1. CallOf(p) /\ pc[p] = "locking" /\ lock = NoProc /\ lock' = p
  BY DEF Lock, BufferIInv, ProcPart
<1>2. call[p].op \in {"read", "write", "clear"}
  BY <1>1 DEF CallOf
<1>3. pc'[p] = call[p].op /\ call' = call
  BY DEF Lock, Goto, BufferIInv, BufferTyped
<1>4. Moves(p) /\ LockMoves(p)
  BY <1>1, <1>2, <1>3 DEF Lock, Goto, BufferIInv, BufferTyped, Moves, LockMoves, Inside, Phases
<1>5. CallOf(p)' /\ CopyOf(p)'
  BY <1>1, <1>2, <1>3 DEF CallOf, CopyOf, Inside, Phases
<1>. QED
  BY <1>1, <1>4, <1>5, QuietStep DEF Lock, BufferIInv, BufferTyped, SizePart

LEMMA UnlockStep ==
  ASSUME BufferIInv, NEW p \in Procs, Unlock(p)
  PROVE  BufferIInv' /\ Streams
<1>1. pc[p] = "unlocking" /\ pc'[p] = "idle"
  BY DEF Unlock, Goto, BufferIInv, BufferTyped
<1>2. Moves(p) /\ LockMoves(p)
  BY <1>1 DEF Unlock, Goto, BufferIInv, BufferTyped, Moves, LockMoves, Inside, Phases
<1>3. CallOf(p)' /\ CopyOf(p)'
  BY <1>1 DEF CallOf, CopyOf, Inside
<1>. QED
  BY <1>1, <1>2, <1>3, QuietStep DEF Unlock, BufferIInv, BufferTyped, SizePart

LEMMA OpenFoundStep ==
  ASSUME SizesAgree, BufferIInv, NEW p \in Procs, NEW asked \in AskedSizes, Open(p, asked), named
  PROVE  BufferIInv' /\ Streams
<1>1. /\ UNCHANGED <<shared, got, call, storage>> /\ Goto(p, "idle") /\ pc[p] = "closed"
      /\ bufSize' = [bufSize EXCEPT ![p] =
                      IF segSize > asked + 1 /\ asked # 0 THEN asked + 1 ELSE segSize]
  BY DEF Open
<1>2. segSize \in Nat /\ segSize # 0 /\ segSize - 1 \in AskedSizes \ {0}
  BY DEF BufferIInv, BufferTyped, SizePart
<1>3. asked # 0 => asked + 1 = segSize
  <2>1. PICK n \in Nat : AskedSizes \subseteq {0, n}
    BY DEF SizesAgree
  <2>. QED  BY <1>2, <2>1
<1>4. /\ bufSize' \in [Procs -> Nat] /\ bufSize'[p] = segSize
      /\ \A q \in Procs : q # p => bufSize'[q] = bufSize[q]
  BY <1>1, <1>2, <1>3 DEF BufferIInv, BufferTyped
<1>5. pc'[p] = "idle"
  BY <1>1 DEF Goto, BufferIInv, BufferTyped
<1>6. Moves(p) /\ LockMoves(p)
  BY <1>1, <1>4, <1>5 DEF shared, Goto, BufferIInv, BufferTyped, Moves, LockMoves, Inside, Phases
<1>7. CallOf(p)' /\ CopyOf(p)'
  BY <1>5 DEF CallOf, CopyOf, Inside
<1>. QED
  BY <1>1, <1>2, <1>4, <1>6, <1>7, QuietStep DEF shared, BufferIInv, BufferTyped

------------------------------------------------------------------------------
(* The steps that make, clear, fill and empty the buffer.                   *)

LEMMA EmptyStored ==
  BufferTyped /\ SizePart /\ readPos = writePos => Stored = <<>>
<1>. SUFFICES ASSUME BufferTyped, SizePart, readPos = writePos
              PROVE  Stored = <<>>
  OBVIOUS
<1>1. Used = 0
  BY UsedIs DEF BufferTyped
<1>. QED  BY <1>1, StoredIs, EmptySeq

LEMMA OpenNewStep ==
  ASSUME BufferIInv, NEW p \in Procs, NEW asked \in AskedSizes, Open(p, asked), ~named
  PROVE  BufferIInv' /\ Streams
<1>1. /\ pc[p] = "closed" /\ asked # 0 /\ \A q \in Procs : pc[q] = "closed"
      /\ named' = TRUE /\ segSize' = asked + 1 /\ data' = [i \in 0 .. asked |-> ZeroByte]
      /\ bufSize' = [bufSize EXCEPT ![p] = asked + 1]
      /\ readPos' = 0 /\ writePos' = 0 /\ lock' = NoProc /\ got' = <<>>
      /\ Goto(p, "idle") /\ UNCHANGED <<call, storage>>
  BY DEF Open
<1>2. asked \in Nat \ {0}
  BY <1>1, BufferAssumption
<1>3. /\ pc' \in [Procs -> Phases] /\ pc'[p] = "idle"
      /\ \A q \in Procs : q # p => pc'[q] = "closed"
  BY <1>1 DEF Goto, BufferIInv, BufferTyped, Phases
<1>4. BufferTyped'
  <2>1. segSize' \in Nat /\ 0 .. segSize' - 1 = 0 .. asked
    BY <1>1, <1>2
  <2>2. data' \in [0 .. asked -> Cells]
    BY <1>1 DEF Cells
  <2>. QED  BY <1>1, <1>2, <1>3, <2>1, <2>2 DEF BufferIInv, BufferTyped
<1>5. SizePart'
  <2>1. bufSize'[p] = asked + 1
    BY <1>1 DEF BufferIInv, BufferTyped
  <2>2. segSize' - 1 = asked /\ segSize' # 0 /\ 0 < segSize'
    BY <1>1, <1>2
  <2>. QED  BY <1>1, <1>2, <1>3, <2>1, <2>2 DEF SizePart
<1>6. LockPart' /\ ProcPart'
  BY <1>3 DEF LockPart, ProcPart, CallOf, CopyOf, Inside
<1>7. Stored' = <<>>
  <2>1. (BufferTyped /\ SizePart /\ readPos = writePos => Stored = <<>>)'
    BY EmptyStored, PTL
  <2>. QED  BY <1>1, <1>4, <1>5, <2>1
<1>. QED  BY <1>1, <1>4, <1>5, <1>6, <1>7 DEF BufferIInv, Streams, Fifo!Next, Fifo!Clear

LEMMA ClearStep ==
  ASSUME BufferIInv, NEW p \in Procs, ClearAll(p)
  PROVE  BufferIInv' /\ Streams
<1>1. /\ pc[p] = "clear" /\ pc'[p] = "unlocking" /\ lock = p
      /\ readPos' = 0 /\ writePos' = 0 /\ got' = <<>>
      /\ UNCHANGED <<named, segSize, lock, bufSize, call, storage>>
  BY DEF ClearAll, Goto, BufferIInv, BufferTyped, LockPart, Inside, Phases
<1>2. Moves(p) /\ LockMoves(p)
  BY <1>1 DEF ClearAll, Goto, BufferIInv, BufferTyped, Moves, LockMoves, Phases
<1>3. data' \in [0 .. segSize - 1 -> Cells]
  BY DEF ClearAll, BufferIInv, BufferTyped, Cells
<1>4. BufferTyped'
  BY <1>1, <1>2, <1>3 DEF BufferIInv, BufferTyped, Moves
<1>5. SizePart'
  BY <1>1, <1>2 DEF BufferIInv, BufferTyped, SizePart, Moves
<1>6. CallOf(p)' /\ CopyOf(p)'
  BY <1>1 DEF BufferIInv, ProcPart, CallOf, CopyOf, Inside, Phases
<1>7. ProcPart'
  BY <1>1, <1>2, <1>6, OthersKept DEF ProcPart, Inside, Phases
<1>8. Stored' = <<>>
  <2>1. (BufferTyped /\ SizePart /\ readPos = writePos => Stored = <<>>)'
    BY EmptyStored, PTL
  <2>. QED  BY <1>1, <1>4, <1>5, <2>1
<1>. QED  BY <1>1, <1>2, <1>4, <1>5, <1>7, <1>8, LockKept DEF BufferIInv, Streams, Fifo!Next, Fifo!Clear

(* What is known of the segment in any state, the next one included.        *)
SegmentFacts ==
  /\ Used \in Nat
  /\ segSize # 0 =>
       /\ Used < segSize
       /\ Used = IF readPos <= writePos THEN writePos - readPos ELSE writePos - readPos + segSize
  /\ Stored \in Seq(Cells) /\ Len(Stored) = Used
  /\ \A i \in 1 .. Used : Stored[i] = data[Place(i - 1)]

LEMMA Segment == BufferTyped /\ SizePart => SegmentFacts
BY UsedIs, StoredIs DEF SegmentFacts

LEMMA ReadCopyStep ==
  ASSUME BufferIInv, NEW p \in Procs, ReadCopy(p)
  PROVE  BufferIInv' /\ Streams
<1>1. /\ pc[p] = "read" /\ lock = p /\ CallOf(p) /\ SegmentFacts
      /\ UNCHANGED <<named, segSize, data, readPos, writePos, lock, bufSize, call, got>>
  BY Segment DEF ReadCopy, shared, BufferIInv, LockPart, ProcPart, Inside, Phases
<1>2. /\ segSize # 0 /\ bufSize[p] = segSize /\ UsedSpace(p) = Used
      /\ segSize \in Nat \ {0} /\ readPos \in 0 .. segSize - 1 /\ writePos \in 0 .. segSize - 1
  BY <1>1, SpaceIs, Sized DEF BufferIInv
<1>3. CASE readPos = writePos
  <2>1. Goto(p, "unlocking") /\ UNCHANGED storage
    BY <1>3 DEF ReadCopy
  <2>2. pc'[p] = "unlocking"
    BY <2>1 DEF Goto, BufferIInv, BufferTyped
  <2>3. Moves(p) /\ LockMoves(p)
    BY <1>1, <2>1, <2>2 DEF Goto, BufferIInv, BufferTyped, Moves, LockMoves, Phases
  <2>4. CallOf(p)' /\ CopyOf(p)'
    BY <1>1, <2>2 DEF CallOf, CopyOf, Inside, Phases
  <2>. QED  BY <1>1, <1>2, <2>3, <2>4, QuietStep DEF BufferIInv, BufferTyped
<1>4. CASE readPos # writePos
  <2>. DEFINE n == ToCopy(p)
              copy == [i \in 1 .. n |-> data[(readPos + i - 1) % segSize]]
  <2>1. storage' = [storage EXCEPT ![p] = copy] /\ Goto(p, "readStore")
    BY <1>2, <1>4 DEF ReadCopy
  <2>2. n \in 1 .. Used /\ Used < segSize /\ Used \in Nat
    <3>1. Used \in 1 .. segSize - 1
      BY <1>1, <1>2, <1>4 DEF SegmentFacts
    <3>2. call[p].len \in Nat /\ call[p].len >= 1
      BY <1>1, BufferAssumption DEF CallOf, Inside, Phases
    <3>. QED  BY <1>2, <3>1, <3>2 DEF ToCopy
  <2>. HIDE DEF n
  <2>3. copy \in Seq(Cells) /\ Len(copy) = n
    <3>1. \A i \in 1 .. n : data[(readPos + i - 1) % segSize] \in Cells
      <4>. SUFFICES ASSUME NEW i \in 1 .. n PROVE data[(readPos + i - 1) % segSize] \in Cells
        OBVIOUS
      <4>1. i \in 1 .. segSize /\ i - 1 \in 0 .. segSize - 1
        BY <1>2, <2>2
      <4>. QED  BY <1>2, <4>1, Places DEF BufferIInv, BufferTyped
    <3>2. copy \in [1 .. n -> Cells]
      BY <3>1
    <3>. QED  BY <2>2, <3>2
  <2>4. \A i \in 1 .. n : copy[i] = data[(readPos + i - 1) % segSize]
    OBVIOUS
  <2>. HIDE DEF copy
  <2>5. pc'[p] = "readStore" /\ storage'[p] = copy
    BY <2>1 DEF Goto, BufferIInv, BufferTyped
  <2>6. Moves(p) /\ LockMoves(p)
    BY <1>1, <2>1, <2>3, <2>5 DEF Goto, BufferIInv, BufferTyped, Moves, LockMoves, Phases
  <2>7. Used' = Used
    BY <1>1 DEF Used
  <2>8. CallOf(p)' /\ CopyOf(p)'
    BY <1>1, <2>2, <2>3, <2>4, <2>5, <2>7 DEF CallOf, CopyOf, Inside, Phases
  <2>. QED  BY <1>1, <1>2, <2>6, <2>8, QuietStep DEF BufferIInv, BufferTyped
<1>. QED  BY <1>3, <1>4

LEMMA ReadStoreStep ==
  ASSUME BufferIInv, NEW p \in Procs, ReadStore(p)
  PROVE  BufferIInv' /\ Streams
<1>. DEFINE n == Len(storage[p])
<1>1. /\ pc[p] = "readStore" /\ lock = p /\ CallOf(p) /\ CopyOf(p) /\ SegmentFacts
      /\ readPos' = (readPos + n) % bufSize[p] /\ got' = storage[p]
      /\ storage' = [storage EXCEPT ![p] = <<>>] /\ Goto(p, "unlocking")
      /\ UNCHANGED <<named, segSize, data, writePos, lock, bufSize, call>>
  BY Segment DEF ReadStore, BufferIInv, LockPart, ProcPart, Inside, Phases
<1>2. /\ segSize # 0 /\ bufSize[p] = segSize
      /\ segSize \in Nat \ {0} /\ readPos \in 0 .. segSize - 1 /\ writePos \in 0 .. segSize - 1
  BY <1>1, SpaceIs, Sized DEF BufferIInv
<1>3. /\ n \in 1 .. Used /\ Used \in Nat /\ Used < segSize
      /\ \A i \in 1 .. n : storage[p][i] = data[(readPos + i - 1) % segSize]
  BY <1>1, <1>2 DEF CopyOf, SegmentFacts
<1>4. storage[p] \in Seq(Cells)
  BY DEF BufferIInv, BufferTyped
<1>. HIDE DEF n
<1>5. readPos' = Place(n) /\ readPos' \in 0 .. segSize - 1
  <2>1. /\ n + 1 \in 1 .. segSize /\ n \in 0 .. segSize - 1
        /\ readPos + (n + 1) - 1 = readPos + n /\ (n + 1) - 1 = n
    BY <1>2, <1>3
  <2>2. (readPos + (n + 1) - 1) % segSize = Place((n + 1) - 1) /\ Place(n) \in 0 .. segSize - 1
    BY <1>2, <2>1, Places DEF BufferIInv
  <2>. QED  BY <1>1, <1>2, <2>1, <2>2
<1>6. pc'[p] = "unlocking"
  BY <1>1 DEF Goto, BufferIInv, BufferTyped
<1>7. Moves(p) /\ LockMoves(p)
  <2>1. <<>> \in Seq(Cells)
    OBVIOUS
  <2>. QED  BY <1>1, <1>6, <2>1 DEF Goto, BufferIInv, BufferTyped, Moves, LockMoves, Phases
<1>8. BufferTyped'
  BY <1>1, <1>2, <1>5, <1>7 DEF BufferIInv, BufferTyped, Moves
<1>9. SizePart'
  BY <1>1, <1>2, <1>5, <1>7 DEF BufferIInv, SizePart, Moves
<1>10. CallOf(p)' /\ CopyOf(p)'
  BY <1>1, <1>6 DEF CallOf, CopyOf, Inside, Phases
<1>11. ProcPart'
  BY <1>1, <1>7, <1>10, OthersKept DEF ProcPart, Inside, Phases
<1>12. SegmentFacts'
  <2>1. (BufferTyped /\ SizePart => SegmentFacts)'
    BY Segment, PTL
  <2>. QED  BY <1>8, <1>9, <2>1
<1>13. Used' = Used - n
  <2>1. Used = IF readPos <= writePos THEN writePos - readPos ELSE writePos - readPos + segSize
    BY <1>1, <1>2 DEF SegmentFacts
  <2>2. Used' = IF readPos' <= writePos THEN writePos - readPos' ELSE writePos - readPos' + segSize
    BY <1>1, <1>2, <1>12 DEF SegmentFacts
  <2>3. readPos' = IF readPos + n < segSize THEN readPos + n ELSE readPos + n - segSize
    BY <1>5 DEF Place
  <2>4. PICK r \in Int : r = readPos'
    BY <1>5
  <2>. QED  BY <1>2, <1>3, <2>1, <2>2, <2>3, <2>4
<1>14. storage[p] = SubSeq(Stored, 1, n)
  <2>1. /\ Stored \in Seq(Cells) /\ Len(Stored) = Used
        /\ \A i \in 1 .. n : i \in 1 .. Used /\ i \in 1 .. segSize /\ Stored[i] = data[Place(i - 1)]
    BY <1>1, <1>2, <1>3 DEF SegmentFacts
  <2>2. \A i \in 1 .. n : (readPos + i - 1) % segSize = Place(i - 1) /\ Stored[i] \in Cells
    BY <1>2, <2>1, Places, ElementOfSeq DEF BufferIInv
  <2>3. /\ SubSeq(Stored, 1, n) \in Seq(Cells) /\ Len(SubSeq(Stored, 1, n)) = n
        /\ \A i \in 1 .. n : SubSeq(Stored, 1, n)[i] = Stored[i]
    BY <1>3, <2>2, SubSeqProperties
  <2>4. \A i \in 1 .. n : storage[p][i] = SubSeq(Stored, 1, n)[i]
    BY <1>3, <2>1, <2>2, <2>3
  <2>5. Len(storage[p]) = n
    BY DEF n
  <2>. QED  BY <1>4, <2>3, <2>4, <2>5, SeqEqual
<1>15. Stored' = SubSeq(Stored, n + 1, Len(Stored))
  <2>1. /\ Stored \in Seq(Cells) /\ Len(Stored) = Used
        /\ \A i \in 1 .. Used : Stored[i] = data[Place(i - 1)] /\ Stored[i] \in Cells
    BY <1>1, ElementOfSeq DEF SegmentFacts
  <2>2. /\ Stored' \in Seq(Cells) /\ Len(Stored') = Used - n
        /\ \A i \in 1 .. Used - n : Stored'[i] = data[Place(i - 1)']
    BY <1>1, <1>12, <1>13 DEF SegmentFacts
  <2>3. \A i \in 1 .. Used - n : Place(i - 1)' = Place((n + i) - 1) /\ n + i \in 1 .. Used
    <3>. SUFFICES ASSUME NEW i \in 1 .. Used - n
                  PROVE  Place(i - 1)' = Place((n + i) - 1) /\ n + i \in 1 .. Used
      OBVIOUS
    <3>1. readPos' = IF readPos + n < segSize THEN readPos + n ELSE readPos + n - segSize
      BY <1>5 DEF Place
    <3>2. Place(i - 1)' = IF readPos' + (i - 1) < segSize THEN readPos' + (i - 1)
                          ELSE readPos' + (i - 1) - segSize
      BY <1>1 DEF Place
    <3>3. Place((n + i) - 1) = IF readPos + ((n + i) - 1) < segSize THEN readPos + ((n + i) - 1)
                               ELSE readPos + ((n + i) - 1) - segSize
      BY DEF Place
    <3>4. i \in Nat /\ i >= 1 /\ i <= Used - n
      BY <1>3
    <3>5. PICK x \in Int : x = readPos'
      BY <1>5
    <3>. QED  BY <1>2, <1>3, <3>1, <3>2, <3>3, <3>4, <3>5
  <2>4. \A i \in n + 1 .. Used : Stored[i] \in Cells
    BY <1>3, <2>1
  <2>5. SubSeq(Stored, n + 1, Used) \in Seq(Cells)
        /\ Len(SubSeq(Stored, n + 1, Used)) = Used - n
        /\ \A i \in 1 .. Used - n : SubSeq(Stored, n + 1, Used)[i] = Stored[n + i]
    <3>1. n + 1 \in Int /\ Used \in Int
      BY <1>3
    <3>2. PICK s : s = SubSeq(Stored, n + 1, Used)
      OBVIOUS
    <3>3. /\ s \in Seq(Cells) /\ Len(s) = IF n + 1 <= Used THEN Used - (n + 1) + 1 ELSE 0
          /\ \A i \in 1 .. Used - (n + 1) + 1 : s[i] = Stored[(n + 1) + i - 1]
      BY <2>4, <3>1, <3>2, SubSeqProperties
    <3>4. /\ Used - (n + 1) + 1 = Used - n
          /\ Len(s) = Used - n
          /\ \A i \in 1 .. Used - n : (n + 1) + i - 1 = n + i
      BY <1>3, <3>3
    <3>. QED  BY <3>2, <3>3, <3>4
  <2>6. \A i \in 1 .. Used - n : Stored'[i] = SubSeq(Stored, n + 1, Used)[i]
    BY <2>1, <2>2, <2>3, <2>5
  <2>. QED  BY <2>1, <2>2, <2>5, <2>6, SeqEqual
<1>16. Streams
  BY <1>1, <1>3, <1>14, <1>15 DEF Streams, Fifo!Next, Fifo!Read, SegmentFacts
<1>. QED  BY <1>7, <1>8, <1>9, <1>11, <1>16, LockKept DEF BufferIInv

(* What is written lands behind the unread bytes.                           *)
LEMMA WriteCopyData ==
  ASSUME BufferIInv, NEW p \in Procs, WriteCopy(p), FreeSpace(p) >= call[p].len
  PROVE  /\ Used + call[p].len < segSize
         /\ data' \in [0 .. segSize - 1 -> Cells]
         /\ \A d \in 0 .. Used - 1 : data'[Place(d)] = data[Place(d)]
         /\ \A k \in 1 .. call[p].len : data'[(writePos + k - 1) % segSize] = call[p].bytes[k]
<1>1. /\ pc[p] = "write" /\ CallOf(p) /\ SegmentFacts
      /\ segSize # 0 /\ bufSize[p] = segSize /\ FreeSpace(p) = segSize - 1 - Used
      /\ segSize \in Nat \ {0} /\ data \in [0 .. segSize - 1 -> Cells]
  BY Segment, SpaceIs, Sized DEF WriteCopy, BufferIInv, BufferTyped, ProcPart
<1>. DEFINE n == call[p].len
            bytes == call[p].bytes
            At(k) == (writePos + k - 1) % bufSize[p]
            from(i) == {k \in 1 .. n : At(k) = i}
            new(i) == IF from(i) = {} THEN data[i]
                      ELSE bytes[CHOOSE k \in from(i) : \A j \in from(i) : j <= k]
<1>2. ~(FreeSpace(p) < n) => data' = [i \in DOMAIN data |-> new(i)]
  BY Zenon DEF WriteCopy
<1>3. n \in Nat /\ n >= 1 /\ bytes \in [1 .. n -> ByteValues]
  BY <1>1, BufferAssumption DEF CallOf, Inside, Phases, Strings
<1>4. n <= FreeSpace(p)
  OBVIOUS
<1>. HIDE DEF n, bytes, At
<1>5. Used \in Nat /\ Used < segSize /\ Used + n < segSize
  BY <1>1, <1>3, <1>4 DEF SegmentFacts
<1>6. data' = [i \in 0 .. segSize - 1 |-> new(i)]
  <2>1. ~(FreeSpace(p) < n) /\ DOMAIN data = 0 .. segSize - 1
    BY <1>1, <1>3, <1>4, <1>5
  <2>. QED  BY <1>2, <2>1
<1>7. /\ \A d \in 0 .. segSize - 1 : Place(d) \in 0 .. segSize - 1
      /\ \A d, e \in 0 .. segSize - 1 : Place(d) = Place(e) => d = e
      /\ \A k \in 1 .. segSize - Used : Used + k - 1 \in 0 .. segSize - 1 /\ At(k) = Place(Used + k - 1)
  BY <1>1, Places DEF BufferIInv, At
<1>8. /\ \A k \in 1 .. n : At(k) \in 0 .. segSize - 1
      /\ \A k, j \in 1 .. n : At(k) = At(j) => k = j
      /\ \A k \in 1 .. n : \A d \in 0 .. Used - 1 : At(k) # Place(d)
  <2>1. \A k \in 1 .. n : k \in 1 .. segSize - Used
    BY <1>1, <1>3, <1>5
  <2>2. \A k \in 1 .. n : Used + k - 1 \in 0 .. segSize - 1 /\ At(k) = Place(Used + k - 1)
    BY <1>7, <2>1
  <2>3. \A k \in 1 .. n : At(k) \in 0 .. segSize - 1
    BY <1>7, <2>2
  <2>4. ASSUME NEW k \in 1 .. n, NEW j \in 1 .. n, At(k) = At(j) PROVE k = j
    <3>1. Used + k - 1 = Used + j - 1
      BY <1>7, <2>2, <2>4
    <3>. QED  BY <1>3, <1>5, <3>1
  <2>5. ASSUME NEW k \in 1 .. n, NEW d \in 0 .. Used - 1, At(k) = Place(d) PROVE FALSE
    <3>1. d \in 0 .. segSize - 1 /\ d # Used + k - 1
      BY <1>1, <1>3, <1>5
    <3>. QED  BY <1>7, <2>2, <2>5, <3>1
  <2>. QED  BY <2>3, <2>4, <2>5
<1>9. \A k \in 1 .. n : new(At(k)) = bytes[k]
  <2>. SUFFICES ASSUME NEW k \in 1 .. n PROVE new(At(k)) = bytes[k]
    OBVIOUS
  <2>1. from(At(k)) = {k}
    BY <1>8
  <2>2. (CHOOSE m \in {k} : \A j \in {k} : j <= m) = k
    <3>1. \E m \in {k} : \A j \in {k} : j <= m
      BY <1>3
    <3>. QED  BY <3>1
  <2>. HIDE DEF from
  <2>. QED  BY <2>1, <2>2
<1>10. \A i : from(i) = {} => new(i) = data[i]
  OBVIOUS
<1>11. \A i : from(i) # {} => \E k \in 1 .. n : i = At(k)
  OBVIOUS
<1>. HIDE DEF from, new
<1>12. \A i \in 0 .. segSize - 1 : new(i) \in Cells
  <2>. SUFFICES ASSUME NEW i \in 0 .. segSize - 1 PROVE new(i) \in Cells
    OBVIOUS
  <2>1. CASE from(i) = {}
    BY <1>1, <1>10, <2>1
  <2>2. CASE from(i) # {}
    <3>1. PICK k \in 1 .. n : i = At(k)
      BY <1>11, <2>2
    <3>. QED  BY <1>3, <1>9, <3>1 DEF Cells
  <2>. QED  BY <2>1, <2>2
<1>13. \A d \in 0 .. Used - 1 : data'[Place(d)] = data[Place(d)]
  <2>. SUFFICES ASSUME NEW d \in 0 .. Used - 1 PROVE data'[Place(d)] = data[Place(d)]
    OBVIOUS
  <2>1. d \in 0 .. segSize - 1
    BY <1>1, <1>5
  <2>2. Place(d) \in 0 .. segSize - 1 /\ from(Place(d)) = {}
    BY <1>7, <1>8, <1>11, <2>1
  <2>. QED  BY <1>6, <1>10, <2>2
<1>14. \A k \in 1 .. n : data'[At(k)] = bytes[k]
  BY <1>6, <1>8, <1>9
<1>15. data' \in [0 .. segSize - 1 -> Cells]
  BY <1>6, <1>12
<1>. QED  BY <1>1, <1>5, <1>13, <1>14, <1>15 DEF At, n, bytes

LEMMA WriteCopyStep ==
  ASSUME BufferIInv, NEW p \in Procs, WriteCopy(p)
  PROVE  BufferIInv' /\ Streams /\ Stored' = Stored
<1>1. /\ pc[p] = "write" /\ lock = p /\ CallOf(p) /\ SegmentFacts
      /\ segSize # 0 /\ bufSize[p] = segSize /\ FreeSpace(p) = segSize - 1 - Used
      /\ UNCHANGED <<named, segSize, readPos, writePos, lock, bufSize, call, storage, got>>
  BY Segment, SpaceIs, Sized DEF WriteCopy, BufferIInv, LockPart, ProcPart, Inside, Phases
<1>2. call[p].len \in Nat /\ segSize \in Nat /\ Used \in Nat
  BY <1>1, BufferAssumption DEF CallOf, Inside, Phases, SegmentFacts, BufferIInv, BufferTyped
<1>3. CASE FreeSpace(p) < call[p].len
  <2>1. Goto(p, "unlocking") /\ UNCHANGED data
    BY <1>3 DEF WriteCopy
  <2>2. pc'[p] = "unlocking"
    BY <2>1 DEF Goto, BufferIInv, BufferTyped
  <2>3. Moves(p) /\ LockMoves(p)
    BY <1>1, <2>1, <2>2 DEF Goto, BufferIInv, BufferTyped, Moves, LockMoves, Phases
  <2>4. CallOf(p)' /\ CopyOf(p)'
    BY <1>1, <2>2 DEF CallOf, CopyOf, Inside, Phases
  <2>5. Stored' = Stored
    BY <1>1, <2>1 DEF Stored, Used
  <2>. QED  BY <1>1, <2>1, <2>3, <2>4, <2>5, QuietStep DEF BufferIInv, BufferTyped
<1>4. CASE ~(FreeSpace(p) < call[p].len)
  <2>1. Goto(p, "writeStore")
    BY <1>4 DEF WriteCopy
  <2>2. /\ Used + call[p].len < segSize
        /\ data' \in [0 .. segSize - 1 -> Cells]
        /\ \A d \in 0 .. Used - 1 : data'[Place(d)] = data[Place(d)]
        /\ \A k \in 1 .. call[p].len : data'[(writePos + k - 1) % segSize] = call[p].bytes[k]
    <3>1. FreeSpace(p) >= call[p].len
      BY <1>1, <1>2, <1>4
    <3>. QED  BY <3>1, WriteCopyData
  <2>3. pc'[p] = "writeStore"
    BY <2>1 DEF Goto, BufferIInv, BufferTyped
  <2>4. Moves(p) /\ LockMoves(p)
    BY <1>1, <2>1, <2>3 DEF Goto, BufferIInv, BufferTyped, Moves, LockMoves, Phases
  <2>5. BufferTyped'
    BY <1>1, <2>2, <2>4 DEF BufferIInv, BufferTyped, Moves
  <2>6. SizePart'
    BY <1>1, <2>3, <2>4 DEF BufferIInv, SizePart, Moves
  <2>7. Used' = Used
    BY <1>1 DEF Used
  <2>8. CallOf(p)'
    BY <1>1, <2>3 DEF CallOf, Inside, Phases
  <2>9. CopyOf(p)'
    BY <1>1, <2>2, <2>3, <2>7 DEF CopyOf
  <2>10. ProcPart'
    BY <1>1, <2>4, <2>8, <2>9, OthersKept DEF ProcPart, Inside, Phases
  <2>11. SegmentFacts'
    <3>1. (BufferTyped /\ SizePart => SegmentFacts)'
      BY Segment, PTL
    <3>. QED  BY <2>5, <2>6, <3>1
  <2>12. Stored' = Stored
    <3>1. /\ Stored \in Seq(Cells) /\ Len(Stored) = Used
          /\ \A i \in 1 .. Used : Stored[i] = data[Place(i - 1)]
      BY <1>1 DEF SegmentFacts
    <3>2. /\ Stored' \in Seq(Cells) /\ Len(Stored') = Used
          /\ \A i \in 1 .. Used : Stored'[i] = data'[Place(i - 1)']
      BY <2>7, <2>11 DEF SegmentFacts
    <3>3. \A i \in 1 .. Used : i - 1 \in 0 .. Used - 1 /\ Place(i - 1)' = Place(i - 1)
      BY <1>1, <1>2 DEF Place
    <3>4. \A i \in 1 .. Used : Stored'[i] = Stored[i]
      BY <2>2, <3>1, <3>2, <3>3
    <3>. QED  BY <3>1, <3>2, <3>4, SeqEqual
  <2>. QED  BY <1>1, <2>4, <2>5, <2>6, <2>10, <2>12, LockKept DEF BufferIInv, Streams
<1>. QED  BY <1>3, <1>4

(* The capacity the stream is given is that of the segment.                 *)
LEMMA LargestIs ==
  ASSUME SizesAgree, BufferTyped, SizePart, segSize # 0
  PROVE  Largest = segSize - 1
<1>1. PICK n \in Nat : AskedSizes \subseteq {0, n}
  BY DEF SizesAgree
<1>2. segSize - 1 \in AskedSizes \ {0} /\ segSize - 1 = n
  BY <1>1 DEF SizePart
<1>3. \A t \in AskedSizes : t <= n
  BY <1>1
<1>4. \E s \in AskedSizes : \A t \in AskedSizes : t <= s
  BY <1>2, <1>3
<1>5. Largest \in AskedSizes /\ \A t \in AskedSizes : t <= Largest
  BY <1>4 DEF Largest
<1>. QED  BY <1>1, <1>2, <1>5

LEMMA WriteStoreStep ==
  ASSUME SizesAgree, BufferIInv, NEW p \in Procs, WriteStore(p)
  PROVE  BufferIInv' /\ Streams
<1>. DEFINE n == call[p].len
            bytes == call[p].bytes
<1>1. /\ pc[p] = "writeStore" /\ lock = p /\ CallOf(p) /\ CopyOf(p) /\ SegmentFacts
      /\ writePos' = (writePos + n) % bufSize[p] /\ Goto(p, "unlocking")
      /\ UNCHANGED <<named, segSize, data, readPos, lock, bufSize, call, storage, got>>
  BY Segment DEF WriteStore, BufferIInv, LockPart, ProcPart, Inside, Phases
<1>2. /\ segSize # 0 /\ bufSize[p] = segSize
      /\ segSize \in Nat \ {0} /\ readPos \in 0 .. segSize - 1 /\ writePos \in 0 .. segSize - 1
  BY <1>1, SpaceIs, Sized DEF BufferIInv
<1>3. /\ n \in Nat /\ n >= 1 /\ bytes \in [1 .. n -> ByteValues]
      /\ \A k \in 1 .. n : data[(writePos + k - 1) % segSize] = bytes[k]
  BY <1>1, BufferAssumption DEF CallOf, CopyOf, Inside, Phases, Strings
<1>4. Used \in Nat /\ Used + n < segSize
  BY <1>1, <1>2 DEF CopyOf, SegmentFacts
<1>. HIDE DEF n, bytes
<1>5. writePos' = Place(Used + n) /\ writePos' \in 0 .. segSize - 1
  <2>1. /\ n + 1 \in 1 .. segSize - Used /\ Used + n \in 0 .. segSize - 1
        /\ writePos + (n + 1) - 1 = writePos + n /\ Used + (n + 1) - 1 = Used + n
    BY <1>2, <1>3, <1>4
  <2>2. (writePos + (n + 1) - 1) % segSize = Place(Used + (n + 1) - 1) /\ Place(Used + n) \in 0 .. segSize - 1
    BY <1>2, <2>1, Places DEF BufferIInv
  <2>. QED  BY <1>1, <1>2, <2>1, <2>2
<1>6. pc'[p] = "unlocking"
  BY <1>1 DEF Goto, BufferIInv, BufferTyped
<1>7. Moves(p) /\ LockMoves(p)
  BY <1>1, <1>6 DEF Goto, BufferIInv, BufferTyped, Moves, LockMoves, Phases
<1>8. BufferTyped'
  BY <1>1, <1>2, <1>5, <1>7 DEF BufferIInv, BufferTyped, Moves
<1>9. SizePart'
  <2>1. writePos' < segSize
    BY <1>2, <1>5
  <2>2. \A q \in Procs : pc'[q] # "closed" => bufSize[q] = segSize
    BY <1>2, <1>7 DEF BufferIInv, SizePart, Moves
  <2>. QED  BY <1>1, <1>2, <2>1, <2>2 DEF BufferIInv, SizePart
<1>10. CallOf(p)' /\ CopyOf(p)'
  BY <1>1, <1>6 DEF CallOf, CopyOf, Inside, Phases
<1>11. ProcPart'
  BY <1>1, <1>7, <1>10, OthersKept DEF ProcPart, Inside, Phases
<1>12. SegmentFacts'
  <2>1. (BufferTyped /\ SizePart => SegmentFacts)'
    BY Segment, PTL
  <2>. QED  BY <1>8, <1>9, <2>1
<1>13. Used' = Used + n
  <2>1. Used = IF readPos <= writePos THEN writePos - readPos ELSE writePos - readPos + segSize
    BY <1>1, <1>2 DEF SegmentFacts
  <2>2. Used' = IF readPos <= writePos' THEN writePos' - readPos ELSE writePos' - readPos + segSize
    BY <1>1, <1>2, <1>12 DEF SegmentFacts
  <2>3. writePos' = IF readPos + (Used + n) < segSize THEN readPos + (Used + n)
                    ELSE readPos + (Used + n) - segSize
    BY <1>5 DEF Place
  <2>4. PICK w \in Int : w = writePos'
    BY <1>5
  <2>. QED  BY <1>2, <1>3, <1>4, <2>1, <2>2, <2>3, <2>4
<1>14. Stored' = Stored \o bytes
  <2>1. /\ Stored \in Seq(Cells) /\ Len(Stored) = Used
        /\ \A i \in 1 .. Used : Stored[i] = data[Place(i - 1)]
    BY <1>1 DEF SegmentFacts
  <2>2. bytes \in Seq(Cells) /\ Len(bytes) = n
    <3>1. bytes \in [1 .. n -> Cells]
      BY <1>3 DEF Cells
    <3>. QED  BY <1>3, <3>1
  <2>3. /\ Stored' \in Seq(Cells) /\ Len(Stored') = Used + n
        /\ \A i \in 1 .. Used + n : Stored'[i] = data[Place(i - 1)]
    <3>1. \A i \in 1 .. Used + n : Place(i - 1)' = Place(i - 1)
      BY <1>1 DEF Place
    <3>. QED  BY <1>1, <1>12, <1>13, <3>1 DEF SegmentFacts
  <2>4. PICK s : s = Stored \o bytes
    OBVIOUS
  <2>5. /\ s \in Seq(Cells) /\ Len(s) = Used + n
        /\ \A i \in 1 .. Used + n : s[i] = IF i <= Used THEN Stored[i] ELSE bytes[i - Used]
    BY <2>1, <2>2, <2>4, ConcatProperties
  <2>6. \A i \in 1 .. Used + n : Stored'[i] = s[i]
    <3>. SUFFICES ASSUME NEW i \in 1 .. Used + n PROVE Stored'[i] = s[i]
      OBVIOUS
    <3>1. CASE i <= Used
      <4>1. i \in 1 .. Used
        BY <1>3, <1>4, <3>1
      <4>. QED  BY <2>1, <2>3, <2>5, <3>1, <4>1
    <3>2. CASE ~(i <= Used)
      <4>1. PICK k \in 1 .. n : k = i - Used /\ k \in 1 .. segSize - Used /\ Used + k - 1 = i - 1
        BY <1>2, <1>3, <1>4, <3>2
      <4>2. (writePos + k - 1) % segSize = Place(Used + k - 1)
        BY <1>2, <4>1, Places DEF BufferIInv
      <4>3. data[Place(i - 1)] = bytes[k]
        BY <1>3, <4>1, <4>2
      <4>. QED  BY <2>3, <2>5, <3>2, <4>1, <4>3
    <3>. QED  BY <3>1, <3>2
  <2>. QED  BY <2>3, <2>4, <2>5, <2>6, SeqEqual
<1>15. Streams
  <2>1. Largest = segSize - 1 /\ Len(Stored) = Used
    BY <1>1, <1>2, LargestIs DEF BufferIInv, SegmentFacts
  <2>2. n \in 1 .. Largest - Len(Stored)
    BY <1>2, <1>3, <1>4, <2>1
  <2>. QED  BY <1>1, <1>3, <1>14, <2>2 DEF Streams, Fifo!Next, Fifo!Write
<1>. QED  BY <1>7, <1>8, <1>9, <1>11, <1>15, LockKept DEF BufferIInv

------------------------------------------------------------------------------
LEMMA InitKeeps == BufferInit => BufferIInv /\ Stored = <<>> /\ got = <<>>
<1>. SUFFICES ASSUME BufferInit PROVE BufferIInv /\ Stored = <<>> /\ got = <<>>
  OBVIOUS
<1>1. BufferTyped
  <2>1. data \in [0 .. segSize - 1 -> Cells]
    <3>1. 0 .. 0 - 1 = {}
      OBVIOUS
    <3>. QED  BY <3>1 DEF BufferInit
  <2>2. storage \in [Procs -> Seq(Cells)]
    BY DEF BufferInit
  <2>. QED  BY <2>1, <2>2 DEF BufferInit, BufferTyped, Phases
<1>2. SizePart /\ LockPart /\ ProcPart
  BY DEF BufferInit, SizePart, LockPart, ProcPart, CallOf, CopyOf, Inside
<1>3. Stored = <<>>
  BY <1>1, <1>2, EmptyStored DEF BufferInit
<1>. QED  BY <1>1, <1>2, <1>3 DEF BufferIInv, BufferInit

LEMMA NextKeeps ==
  ASSUME SizesAgree, BufferIInv, [BufferNext]_bufferVars
  PROVE  BufferIInv' /\ Streams
<1>1. CASE BufferNext
  <2>1. PICK p \in Procs :
          \/ \E asked \in AskedSizes : Open(p, asked)
          \/ TakeOwnership(p) \/ Close(p) \/ Crash(p)
          \/ \E c \in Calls : Call(p, c)
          \/ Step(p)
    BY <1>1 DEF BufferNext
  <2>2. CASE \E asked \in AskedSizes : Open(p, asked)
    BY <2>2, OpenFoundStep, OpenNewStep
  <2>3. CASE TakeOwnership(p)
    BY <2>3, TakeOwnershipStep
  <2>4. CASE Close(p)
    BY <2>4, CloseStep
  <2>5. CASE Crash(p)
    BY <2>5, CrashStep
  <2>6. CASE \E c \in Calls : Call(p, c)
    BY <2>6, CallStep
  <2>7. CASE Step(p)
    BY <2>7, LockStep, ReadCopyStep, ReadStoreStep, WriteCopyStep, WriteStoreStep, ClearStep, UnlockStep
       DEF Step
  <2>. QED  BY <2>1, <2>2, <2>3, <2>4, <2>5, <2>6, <2>7
<1>2. CASE UNCHANGED bufferVars
  <2>1. UNCHANGED <<named, segSize, data, readPos, writePos, lock, bufSize, owner, pc, call, storage, got>>
    BY <1>2 DEF bufferVars, shared
  <2>2. Used' = Used /\ Stored' = Stored
    BY <2>1 DEF Used, Stored
  <2>3. BufferTyped' /\ SizePart' /\ LockPart'
    BY <2>1 DEF BufferIInv, BufferTyped, SizePart, LockPart
  <2>4. ProcPart'
    BY <2>1, <2>2 DEF BufferIInv, ProcPart, CallOf, CopyOf
  <2>. QED  BY <2>1, <2>2, <2>3, <2>4 DEF BufferIInv, Streams
<1>. QED  BY <1>1, <1>2

(* zshm_buffer_read(), _write() and _clear() of any number of processes,    *)
(* killed at any step, treat the segment as one bounded first-in, first-out *)
(* stream: bytes copied in and not yet published are invisible, and none is *)
(* lost, repeated, reordered or overwritten before it is read, provided the *)
(* callers of zshm_buffer_new() agree on the size.                          *)
THEOREM BufferIsFifo ==
  ASSUME SizesAgree
  PROVE  BufferSpec => ImplementsFifo
<1>1. BufferInit => BufferIInv /\ Fifo!Init
  BY InitKeeps DEF Fifo!Init
<1>2. BufferIInv /\ [BufferNext]_bufferVars => BufferIInv' /\ [Fifo!Next]_<<Stored, got>>
  BY NextKeeps DEF Streams
<1>. QED  BY <1>1, <1>2, PTL DEF BufferSpec, ImplementsFifo, Fifo!Spec

(* Copying bytes in leaves the unread ones alone, as pshmbuffer.h promises, *)
(* when the callers of zshm_buffer_new() agree on the size.                 *)
THEOREM WritesKeepUnread ==
  ASSUME SizesAgree
  PROVE  BufferSpec => UnreadKept
<1>1. BufferInit => BufferIInv
  BY InitKeeps
<1>2. BufferIInv /\ [BufferNext]_bufferVars => BufferIInv'
  BY NextKeeps
<1>3. BufferIInv => [\A p \in Procs : WriteCopy(p) => Stored' = Stored]_bufferVars
  BY WriteCopyStep
<1>. QED  BY <1>1, <1>2, <1>3, PTL DEF BufferSpec, UnreadKept
==============================================================================
