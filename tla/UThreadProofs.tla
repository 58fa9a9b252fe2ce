--------------------------- MODULE UThreadProofs ---------------------------
(***************************************************************************)
(* Proofs about the thread objects, for every set of foreign threads,      *)
(* workers and keys and every choice of what may fail.                     *)
(***************************************************************************)
EXTENDS UThread, TLAPS

------------------------------------------------------------------------------
(* The inductive invariant, by what it is about.                            *)

Phases == {"none", "run", "spawn", "fill", "unlock", "readKey", "makeKey", "casKey",
           "useKey", "barrier", "joining", "dying", "dead"}
Searching == {"readKey", "makeKey", "casKey", "useKey"}
Creating == {"spawn", "fill", "unlock"}

Structures == [state : {"none", "live", "freed"}, ref : Nat, ours : BOOLEAN,
               joinable : BOOLEAN, ret : Nat]

Typed ==
  /\ rec \in [Records -> Structures]
  /\ newSpin \in AllThreads \cup {None}
  /\ key \in keys \cup {None} /\ keys \subseteq NativeKeys
  /\ tls \in [AllThreads -> [NativeKeys -> Records \cup {None}]]
  /\ tpc \in [AllThreads -> Phases]
  /\ job \in [AllThreads -> {"none", "proxy", "get", "set"}]
  /\ tk \in [AllThreads -> NativeKeys \cup {None}]
  /\ target \in [AllThreads -> Workers \cup {None}]
  /\ code \in [AllThreads -> Nat]
  /\ user \in [Workers -> Nat]
  /\ joined \in [Workers -> Nat \cup {-1}]
  /\ down \in BOOLEAN
  /\ lost \subseteq Records

Empty(t) == \A k \in NativeKeys : tls[t][k] = None

(* A thread that searches for the key knows the one everybody uses, or made *)
(* one of its own that nobody else knows of, or has nothing stored.         *)
SlotsUseKey == \A t \in AllThreads : \A k \in NativeKeys : tls[t][k] # None => k = key

KeyAt(t) ==
  /\ tpc[t] = "casKey" => tk[t] \in keys /\ tk[t] # key
  /\ tpc[t] = "useKey" => tk[t] = key \/ (tk[t] = None /\ Empty(t))
  /\ tpc[t] \in {"none", "makeKey", "casKey", "dead"} => Empty(t)
  /\ job[t] \in {"proxy", "set"} => Empty(t)

KeysDistinct ==
  \A t, u \in AllThreads : tpc[t] = "casKey" /\ tpc[u] = "casKey" /\ tk[t] = tk[u] => t = u

KeysKnown ==
  down = FALSE => \A k \in keys : k = key \/ \E t \in AllThreads : tpc[t] = "casKey" /\ tk[t] = k

AfterShutdown ==
  down # FALSE => key = None /\ \A t \in AllThreads : tpc[t] \in {"none", "run", "dying", "dead"}

KeyPart ==
  SlotsUseKey /\ (\A t \in AllThreads : KeyAt(t)) /\ KeysDistinct /\ KeysKnown /\ AfterShutdown

(* The creation lock, and what a thread is busy with.                       *)
FlowPart ==
  /\ \A t \in AllThreads :
       /\ job[t] # "none" <=> tpc[t] \in Searching
       /\ newSpin = t <=> tpc[t] \in Creating
       /\ target[t] # None => tpc[t] \in Creating \cup {"joining"}
       /\ tpc[t] \in {"spawn", "fill", "joining"} => target[t] # None
       /\ job[t] = "proxy" \/ tpc[t] \in {"none", "barrier"} => t \in Workers
  /\ \A t, u \in AllThreads : target[t] # None /\ target[t] = target[u] => t = u

(* What a slot may hold.                                                    *)
SlotPart ==
  \A t \in AllThreads : \A k \in NativeKeys :
    \/ tls[t][k] \in {None, Adopted(t)}
    \/ t \in Workers /\ tls[t][k] = Created(t)

(* A worker's reference to its own structure, which its proxy brings with   *)
(* it and stores in its slot, or cannot store.                              *)
HasOwn(w) ==
  job[w] = "proxy" \/ Created(w) \in lost \/ \E k \in NativeKeys : tls[w][k] = Created(w)

(* Its creator has started it and is about to fill in the structure.        *)
Filling(w) == \E t \in AllThreads : target[t] = w /\ tpc[t] = "fill"

(* The reference its creator is about to return, or which a join keeps.     *)
InHand(w) == \E t \in AllThreads : target[t] = w /\ tpc[t] \in {"unlock", "joining"}

Count(P) == IF P THEN 1 ELSE 0

(* Before the creator has filled in the structure it holds the lock; from   *)
(* then on the references are counted exactly.                              *)
StructureOf(w) ==
  LET r == rec[Created(w)] IN
    /\ r.state = "none" <=> tpc[w] = "none"
    /\ r.state = "none" =>
         r.ours = FALSE /\ user[w] = 0 /\ joined[w] = -1 /\ Created(w) \notin lost
    /\ r.state # "none" /\ r.ours = FALSE =>
         /\ Filling(w)
         /\ r.state = "live" /\ user[w] = 0
         /\ job[w] = "proxy" \/ tpc[w] = "barrier"
    /\ r.ours # FALSE =>
         /\ r.ref = user[w] + Count(InHand(w)) + Count(HasOwn(w))
         /\ r.state = IF r.ref = 0 THEN "freed" ELSE "live"

StructurePart == \A w \in Workers : StructureOf(w)

TargetOf(t) ==
  target[t] # None => LET r == rec[Created(target[t])] IN
    /\ tpc[t] = "spawn" => r.state = "none"
    /\ tpc[t] = "fill" => r.state # "none" /\ r.ours = FALSE
    /\ tpc[t] = "unlock" => user[target[t]] = 0
    /\ tpc[t] \in {"unlock", "joining"} => r.ours # FALSE

TargetPart == \A t \in AllThreads : TargetOf(t)

OwnPart ==
  \A w \in Workers :
    /\ Alive(w) => HasOwn(w)
    /\ Created(w) \in lost => job[w] # "proxy" /\ \A k \in NativeKeys : tls[w][k] # Created(w)

CodePart ==
  \A w \in Workers :
    /\ rec[Created(w)].ret = IF tpc[w] \in {"dying", "dead"} THEN code[w] ELSE 0
    /\ joined[w] # -1 => tpc[w] = "dead" /\ joined[w] = code[w]

(* An adopted structure has one reference, in its thread's slot.            *)
AdoptPart ==
  \A t \in AllThreads : LET r == rec[Adopted(t)] IN
    /\ r.ours = FALSE
    /\ r.state = "live" =>
         job[t] = "set" \/ Adopted(t) \in lost \/ \E k \in NativeKeys : tls[t][k] = Adopted(t)
    /\ job[t] = "set" \/ (\E k \in NativeKeys : tls[t][k] = Adopted(t)) =>
         r.state = "live" /\ r.ref = 1

(* A foreign thread is never the subject of a creation.                     *)
ForeignPart == \A t \in Foreign : rec[Created(t)] = NoRecord

IInv ==
  Typed /\ KeyPart /\ FlowPart /\ SlotPart /\ StructurePart /\ TargetPart
    /\ OwnPart /\ CodePart /\ AdoptPart /\ ForeignPart

------------------------------------------------------------------------------
(* Threads and structures.                                                  *)
LEMMA RecordFacts ==
  /\ Workers \subseteq AllThreads /\ Foreign \subseteq AllThreads
  /\ \A t \in AllThreads : t \in Workers <=> t \notin Foreign
  /\ None \notin AllThreads /\ None \notin Workers /\ None \notin NativeKeys /\ None \notin Records
  /\ \A t \in AllThreads : Created(t) \in Records /\ Adopted(t) \in Records
  /\ \A t, u \in AllThreads : Created(t) = Created(u) => t = u
  /\ \A t, u \in AllThreads : Adopted(t) = Adopted(u) => t = u
  /\ \A t, u \in AllThreads : Created(t) # Adopted(u)
  /\ \A r \in Records : \E t \in AllThreads : r = Created(t) \/ r = Adopted(t)
BY UThreadAssumption DEF AllThreads, Records, Created, Adopted

LEMMA NoRecordTyped ==
  /\ NoRecord \in Structures
  /\ NoRecord.state = "none" /\ NoRecord.ref = 0 /\ NoRecord.ours = FALSE /\ NoRecord.ret = 0
BY DEF NoRecord, Structures

(* How the assignments of the model change a structure.                     *)
LEMMA Updates ==
  ASSUME NEW x \in Structures, NEW n \in Nat
  PROVE  /\ x.ref \in Nat /\ x.ret \in Nat /\ x.ours \in BOOLEAN
         /\ x.state \in {"none", "live", "freed"}
         /\ \A y : y = [x EXCEPT !.ref = n] =>
              /\ y \in Structures /\ y.ref = n
              /\ y.state = x.state /\ y.ours = x.ours /\ y.ret = x.ret
         /\ \A y : y = [x EXCEPT !.ret = n] =>
              /\ y \in Structures /\ y.ret = n
              /\ y.state = x.state /\ y.ours = x.ours /\ y.ref = x.ref
BY DEF Structures

LEMMA InitIInv == ThreadInit => IInv
<1> SUFFICES ASSUME ThreadInit PROVE IInv
  OBVIOUS
<1> USE RecordFacts, NoRecordTyped
<1>1. Typed
  BY DEF ThreadInit, Typed, Phases
<1>2. KeyPart
  BY DEF ThreadInit, KeyPart, SlotsUseKey, KeyAt, KeysDistinct, KeysKnown, AfterShutdown, Empty
<1>3. FlowPart /\ SlotPart /\ TargetPart
  BY DEF ThreadInit, FlowPart, SlotPart, TargetPart, TargetOf, Searching, Creating
<1>4. StructurePart /\ OwnPart
  BY DEF ThreadInit, StructurePart, StructureOf, OwnPart, Alive
<1>5. CodePart /\ AdoptPart /\ ForeignPart
  BY DEF ThreadInit, CodePart, AdoptPart, ForeignPart
<1> QED BY <1>1, <1>2, <1>3, <1>4, <1>5 DEF IInv

------------------------------------------------------------------------------
(* Steps that leave a part of the state alone.                              *)

(* Threads move without making, taking or dropping a key.                   *)
KeepsKeys(u) ==
  \/ tpc'[u] = tpc[u] /\ job'[u] = job[u] /\ tk'[u] = tk[u]
  \/ /\ tpc[u] # "casKey" /\ tpc'[u] # "casKey"
     /\ tpc'[u] = "useKey" => tk'[u] = key \/ (tk'[u] = None /\ Empty(u))
     /\ tpc'[u] \in {"none", "makeKey", "dead"} => Empty(u)
     /\ job'[u] \in {"proxy", "set"} => Empty(u)
     /\ down # FALSE => tpc'[u] \in {"none", "run", "dying", "dead"}

LEMMA KeyFrame ==
  ASSUME KeyPart, UNCHANGED <<key, keys, tls, down>>, \A u \in AllThreads : KeepsKeys(u)
  PROVE  KeyPart'
<1>1. \A u \in AllThreads : Empty(u)' <=> Empty(u)
  BY DEF Empty
<1>2. SlotsUseKey'
  BY DEF KeyPart, SlotsUseKey
<1>3. ASSUME NEW u \in AllThreads PROVE KeyAt(u)'
  <2>1. KeyAt(u) /\ KeepsKeys(u)
    BY DEF KeyPart
  <2> QED BY <1>1, <2>1 DEF KeyAt, KeepsKeys
<1>4. \A u \in AllThreads : tpc'[u] = "casKey" <=> tpc[u] = "casKey"
  BY DEF KeepsKeys
<1>5. \A u \in AllThreads : tpc[u] = "casKey" => tk'[u] = tk[u]
  BY DEF KeepsKeys
<1>6. KeysDistinct'
  BY <1>4, <1>5 DEF KeyPart, KeysDistinct
<1>7. KeysKnown'
  BY <1>4, <1>5 DEF KeyPart, KeysKnown
<1>8. AfterShutdown'
  BY DEF KeyPart, AfterShutdown, KeepsKeys
<1> QED BY <1>2, <1>3, <1>6, <1>7, <1>8 DEF KeyPart

(* Nothing changes for one worker's structure.                              *)
LEMMA SameStructure ==
  ASSUME NEW w \in Workers, StructureOf(w),
         rec'[Created(w)] = rec[Created(w)], user'[w] = user[w],
         joined'[w] = joined[w] \/ tpc[w] = "dead",
         tpc'[w] = "none" <=> tpc[w] = "none",
         Created(w) \in lost' => Created(w) \in lost \/ tpc[w] # "none",
         HasOwn(w)' <=> HasOwn(w), InHand(w)' <=> InHand(w),
         Filling(w) => Filling(w)',
         rec[Created(w)].ours # FALSE \/ tpc[w] = "none"
           \/ job'[w] = "proxy" \/ tpc'[w] = "barrier"
  PROVE  StructureOf(w)'
<1> DEFINE h == HasOwn(w) i == InHand(w) f == Filling(w)
<1>1. Count(h)' = Count(h) /\ Count(i)' = Count(i)
  BY DEF Count
<1> QED BY <1>1 DEF StructureOf

(* Threads move, and no reference does.                                     *)
LEMMA QuietStructure ==
  ASSUME StructurePart, UNCHANGED <<rec, tls, user, lost, joined>>,
         \A u \in AllThreads :
           /\ job'[u] = "proxy" <=> job[u] = "proxy"
           /\ tpc'[u] = "none" <=> tpc[u] = "none"
           /\ tpc[u] = "fill" => tpc'[u] = "fill" /\ target'[u] = target[u],
         \A u \in AllThreads : \A w \in Workers :
           target[u] = w /\ tpc[u] \in {"unlock", "joining"} <=>
           target'[u] = w /\ tpc'[u] \in {"unlock", "joining"},
         \A w \in Workers : tpc[w] = "barrier" =>
           rec[Created(w)].ours # FALSE \/ tpc'[w] = "barrier"
  PROVE  StructurePart'
<1> SUFFICES ASSUME NEW w \in Workers PROVE StructureOf(w)'
  BY DEF StructurePart
<1> USE RecordFacts
<1>1. HasOwn(w)' <=> HasOwn(w)
  BY DEF HasOwn
<1>2. InHand(w)' <=> InHand(w)
  BY DEF InHand
<1>3. Filling(w) => Filling(w)'
  BY DEF Filling
<1>4. StructureOf(w)
  BY DEF StructurePart
<1>5. rec[Created(w)].ours # FALSE \/ tpc[w] = "none" \/ job'[w] = "proxy" \/ tpc'[w] = "barrier"
  BY <1>4 DEF StructureOf
<1> QED BY <1>1, <1>2, <1>3, <1>4, <1>5, SameStructure

LEMMA CreateLockStep ==
  ASSUME IInv, NEW t \in AllThreads, NEW w \in Workers, CreateLock(t, w)
  PROVE  IInv'
<1> USE RecordFacts DEF IInv
<1>1. Typed'
  BY DEF Typed, Phases, CreateLock, Move
<1>2. KeyPart'
  <2>1. \A u \in AllThreads : u # t => tpc'[u] = tpc[u] /\ job'[u] = job[u] /\ tk'[u] = tk[u]
    BY DEF Typed, CreateLock, Move
  <2>2. KeyAt(t) /\ (down # FALSE => tpc[t] \in {"none", "run", "dying", "dead"})
    BY DEF KeyPart, AfterShutdown
  <2>3. KeepsKeys(t)
    BY <2>2 DEF KeepsKeys, KeyAt, Typed, FlowPart, Searching, CreateLock, Move
  <2>4. UNCHANGED <<key, keys, tls, down>>
    BY DEF CreateLock, Move
  <2> QED BY <2>1, <2>3, <2>4, KeyFrame DEF KeepsKeys
<1>3. FlowPart'
  <2>1. ASSUME NEW u \in AllThreads, target[u] = w PROVE FALSE
    <3>1. tpc[u] \in Creating \cup {"joining"} /\ tpc[u] \notin Creating
      BY <2>1 DEF CreateLock, FlowPart
    <3>2. rec[Created(w)].ours # FALSE
      BY <2>1, <3>1 DEF TargetPart, TargetOf
    <3>3. rec[Created(w)].ours = FALSE
      BY DEF CreateLock, StructurePart, StructureOf
    <3> QED BY <3>2, <3>3
  <2>2. t # None /\ w # None /\ \A u \in AllThreads : tpc[u] \notin Creating
    BY DEF CreateLock, FlowPart
  <2> QED BY <2>1, <2>2 DEF Typed, FlowPart, Searching, Creating, CreateLock, Move
<1>4. SlotPart'
  BY DEF Typed, Phases, SlotPart, CreateLock, Move
<1>5. StructurePart'
  BY QuietStructure DEF Typed, FlowPart, Searching, Creating, CreateLock, Move
<1>6. TargetPart'
  BY DEF Typed, Phases, TargetPart, TargetOf, CreateLock, Move
<1>7. OwnPart'
  BY DEF Typed, Phases, OwnPart, HasOwn, Alive, CreateLock, Move
<1>8. CodePart'
  BY DEF Typed, Phases, CodePart, CreateLock, Move
<1>9. AdoptPart'
  BY DEF Typed, Phases, AdoptPart, CreateLock, Move
<1>10. ForeignPart'
  BY DEF Typed, Phases, ForeignPart, CreateLock, Move
<1> QED BY <1>1, <1>2, <1>3, <1>4, <1>5, <1>6, <1>7, <1>8, <1>9, <1>10

LEMMA SpawnFailsStep ==
  ASSUME IInv, NEW t \in AllThreads, SpawnFails(t)
  PROVE  IInv'
<1> USE RecordFacts DEF IInv
<1>1. Typed'
  BY DEF Typed, Phases, SpawnFails, Move
<1>2. KeyPart'
  <2>1. \A u \in AllThreads : u # t => tpc'[u] = tpc[u] /\ job'[u] = job[u] /\ tk'[u] = tk[u]
    BY DEF Typed, SpawnFails, Move
  <2>2. KeyAt(t) /\ (down # FALSE => tpc[t] \in {"none", "run", "dying", "dead"})
    BY DEF KeyPart, AfterShutdown
  <2>3. KeepsKeys(t)
    BY <2>2 DEF KeepsKeys, KeyAt, Typed, FlowPart, Searching, SpawnFails, Move
  <2>4. UNCHANGED <<key, keys, tls, down>>
    BY DEF SpawnFails, Move
  <2> QED BY <2>1, <2>3, <2>4, KeyFrame DEF KeepsKeys
<1>3. FlowPart'
  BY DEF Typed, Phases, FlowPart, Searching, Creating, SpawnFails, Move
<1>4. SlotPart'
  BY DEF Typed, Phases, SlotPart, SpawnFails, Move
<1>5. StructurePart'
  BY QuietStructure DEF Typed, FlowPart, Searching, Creating, SpawnFails, Move
<1>6. TargetPart'
  BY DEF Typed, Phases, TargetPart, TargetOf, TargetOf, SpawnFails, Move
<1>7. OwnPart'
  BY DEF Typed, Phases, OwnPart, HasOwn, Alive, SpawnFails, Move
<1>8. CodePart'
  BY DEF Typed, Phases, CodePart, SpawnFails, Move
<1>9. AdoptPart'
  BY DEF Typed, Phases, AdoptPart, SpawnFails, Move
<1>10. ForeignPart'
  BY DEF Typed, Phases, ForeignPart, SpawnFails, Move
<1> QED BY <1>1, <1>2, <1>3, <1>4, <1>5, <1>6, <1>7, <1>8, <1>9, <1>10

LEMMA ReadKeyStep ==
  ASSUME IInv, NEW t \in AllThreads, ReadKey(t)
  PROVE  IInv'
<1> USE RecordFacts DEF IInv
<1>1. Typed'
  BY DEF Typed, Phases, ReadKey, Move
<1>2. KeyPart'
  <2>1. \A u \in AllThreads : u # t => tpc'[u] = tpc[u] /\ job'[u] = job[u] /\ tk'[u] = tk[u]
    BY DEF Typed, ReadKey, Move
  <2>2. KeyAt(t) /\ down = FALSE
    BY DEF KeyPart, AfterShutdown, Typed, ReadKey
  <2>3. tpc[t] = "readKey" /\ job'[t] = job[t] /\ tk'[t] = key
    BY DEF Typed, ReadKey
  <2>4. (tpc'[t] = "makeKey" /\ Empty(t)) \/ tpc'[t] = "useKey"
    BY DEF Typed, KeyPart, SlotsUseKey, Empty, ReadKey, Move
  <2>5. KeepsKeys(t)
    BY <2>2, <2>3, <2>4 DEF KeepsKeys, KeyAt
  <2>6. UNCHANGED <<key, keys, tls, down>>
    BY DEF ReadKey
  <2> QED BY <2>1, <2>5, <2>6, KeyFrame DEF KeepsKeys
<1>3. FlowPart'
  BY DEF Typed, Phases, FlowPart, Searching, Creating, ReadKey, Move
<1>4. SlotPart'
  BY DEF Typed, Phases, SlotPart, ReadKey, Move
<1>5. StructurePart'
  BY QuietStructure DEF Typed, FlowPart, Searching, Creating, ReadKey, Move
<1>6. TargetPart'
  BY DEF Typed, Phases, TargetPart, TargetOf, ReadKey, Move
<1>7. OwnPart'
  BY DEF Typed, Phases, OwnPart, HasOwn, Alive, ReadKey, Move
<1>8. CodePart'
  BY DEF Typed, Phases, CodePart, ReadKey, Move
<1>9. AdoptPart'
  BY DEF Typed, Phases, AdoptPart, ReadKey, Move
<1>10. ForeignPart'
  BY DEF Typed, Phases, ForeignPart, ReadKey, Move
<1> QED BY <1>1, <1>2, <1>3, <1>4, <1>5, <1>6, <1>7, <1>8, <1>9, <1>10

LEMMA MakeKeyStep ==
  ASSUME IInv, NEW t \in AllThreads, MakeKey(t)
  PROVE  IInv'
<1> USE RecordFacts DEF IInv
<1>1. Typed'
  BY DEF Typed, Phases, MakeKey, Move
<1>2. KeyPart'
  <2>1. PICK k : /\ k \in NativeKeys \ keys /\ keys' = keys \cup {k}
                 /\ tk' = [tk EXCEPT ![t] = k]
    BY DEF MakeKey
  <2>2. /\ tpc[t] = "makeKey" /\ tpc' = [tpc EXCEPT ![t] = "casKey"]
        /\ UNCHANGED <<key, tls, job, down>>
    BY DEF MakeKey, Move
  <2>3. \A u \in AllThreads : Empty(u)' <=> Empty(u)
    BY <2>2 DEF Empty
  <2>4. SlotsUseKey'
    BY <2>2 DEF KeyPart, SlotsUseKey
  <2>5. ASSUME NEW u \in AllThreads PROVE KeyAt(u)'
    BY <2>1, <2>2, <2>3 DEF KeyPart, KeyAt, Typed
  <2>6. KeysDistinct'
    BY <2>1, <2>2 DEF KeyPart, KeyAt, KeysDistinct, Typed
  <2>7. KeysKnown'
    BY <2>1, <2>2 DEF KeyPart, KeysKnown, Typed
  <2>8. AfterShutdown'
    BY <2>2 DEF KeyPart, AfterShutdown, Typed
  <2> QED BY <2>4, <2>5, <2>6, <2>7, <2>8 DEF KeyPart
<1>3. FlowPart'
  BY DEF Typed, Phases, FlowPart, Searching, Creating, MakeKey, Move
<1>4. SlotPart'
  BY DEF Typed, Phases, SlotPart, MakeKey, Move
<1>5. StructurePart'
  BY QuietStructure DEF Typed, FlowPart, Searching, Creating, MakeKey, Move
<1>6. TargetPart'
  BY DEF Typed, Phases, TargetPart, TargetOf, MakeKey, Move
<1>7. OwnPart'
  BY DEF Typed, Phases, OwnPart, HasOwn, Alive, MakeKey, Move
<1>8. CodePart'
  BY DEF Typed, Phases, CodePart, MakeKey, Move
<1>9. AdoptPart'
  BY DEF Typed, Phases, AdoptPart, MakeKey, Move
<1>10. ForeignPart'
  BY DEF Typed, Phases, ForeignPart, MakeKey, Move
<1> QED BY <1>1, <1>2, <1>3, <1>4, <1>5, <1>6, <1>7, <1>8, <1>9, <1>10

LEMMA MakeKeyFailsStep ==
  ASSUME IInv, NEW t \in AllThreads, MakeKeyFails(t)
  PROVE  IInv'
<1> USE RecordFacts DEF IInv
<1>1. Typed'
  BY DEF Typed, Phases, MakeKeyFails, Move
<1>2. KeyPart'
  <2>1. \A u \in AllThreads : u # t => tpc'[u] = tpc[u] /\ job'[u] = job[u] /\ tk'[u] = tk[u]
    BY DEF Typed, MakeKeyFails, Move
  <2>2. KeyAt(t) /\ down = FALSE
    BY DEF KeyPart, AfterShutdown, Typed, MakeKeyFails, Move
  <2>3. tpc'[t] = "useKey" /\ tk'[t] = None /\ Empty(t)
    BY <2>2 DEF KeyAt, Typed, MakeKeyFails, Move
  <2>4. KeepsKeys(t)
    BY <2>2, <2>3 DEF KeepsKeys, KeyAt, FlowPart, Searching, MakeKeyFails, Move
  <2>5. UNCHANGED <<key, keys, tls, down>>
    BY DEF MakeKeyFails, Move
  <2> QED BY <2>1, <2>4, <2>5, KeyFrame DEF KeepsKeys
<1>3. FlowPart'
  BY DEF Typed, Phases, FlowPart, Searching, Creating, MakeKeyFails, Move
<1>4. SlotPart'
  BY DEF Typed, Phases, SlotPart, MakeKeyFails, Move
<1>5. StructurePart'
  BY QuietStructure DEF Typed, FlowPart, Searching, Creating, MakeKeyFails, Move
<1>6. TargetPart'
  BY DEF Typed, Phases, TargetPart, TargetOf, MakeKeyFails, Move
<1>7. OwnPart'
  BY DEF Typed, Phases, OwnPart, HasOwn, Alive, MakeKeyFails, Move
<1>8. CodePart'
  BY DEF Typed, Phases, CodePart, MakeKeyFails, Move
<1>9. AdoptPart'
  BY DEF Typed, Phases, AdoptPart, MakeKeyFails, Move
<1>10. ForeignPart'
  BY DEF Typed, Phases, ForeignPart, MakeKeyFails, Move
<1> QED BY <1>1, <1>2, <1>3, <1>4, <1>5, <1>6, <1>7, <1>8, <1>9, <1>10

LEMMA CasKeyStep ==
  ASSUME IInv, NEW t \in AllThreads, CasKey(t)
  PROVE  IInv'
<1> USE RecordFacts DEF IInv
<1>1. Typed'
  <2>1. tk[t] \in keys
    BY DEF KeyPart, KeyAt, CasKey
  <2>2. CASE key = None
    BY <2>1, <2>2 DEF Typed, Phases, CasKey, Move
  <2>3. CASE key # None
    <3>1. key \in keys \ {tk[t]} /\ key' = key
      BY <2>3 DEF Typed, KeyPart, KeyAt, CasKey
    <3>2. keys' = keys \ {tk[t]} /\ tk' = [tk EXCEPT ![t] = key] /\ key \in NativeKeys
      BY <2>3 DEF Typed, CasKey
    <3> QED BY <3>1, <3>2 DEF Typed, Phases, CasKey, Move
  <2> QED BY <2>2, <2>3
<1>2. KeyPart'
  <2>1. /\ tpc[t] = "casKey" /\ tpc' = [tpc EXCEPT ![t] = "useKey"]
        /\ UNCHANGED <<tls, job, down>> /\ down = FALSE
        /\ KeyAt(t) /\ tk[t] \in keys /\ tk[t] # key
    BY DEF CasKey, Move, KeyPart, KeyAt, AfterShutdown
  <2>2. \A u \in AllThreads : Empty(u)' <=> Empty(u)
    BY <2>1 DEF Empty
  <2>3. AfterShutdown'
    BY <2>1 DEF AfterShutdown
  <2>4. \A u \in AllThreads : u # t /\ tpc[u] = "casKey" => tk[u] # tk[t]
    BY <2>1 DEF KeyPart, KeysDistinct
  <2>5. CASE key = None
    <3>1. key' = tk[t] /\ UNCHANGED <<keys, tk>>
      BY <2>5 DEF CasKey
    <3>2. \A u \in AllThreads : Empty(u)
      BY <2>5 DEF KeyPart, SlotsUseKey, Empty
    <3>3. SlotsUseKey'
      BY <2>1, <3>2 DEF SlotsUseKey, Empty
    <3>4. ASSUME NEW u \in AllThreads PROVE KeyAt(u)'
      BY <2>1, <2>2, <2>4, <2>5, <3>1, <3>2 DEF KeyPart, KeyAt, Typed
    <3>5. KeysDistinct'
      BY <2>1, <3>1 DEF KeyPart, KeysDistinct, Typed
    <3>6. KeysKnown'
      <4>1. ASSUME NEW k \in keys PROVE k = tk[t] \/ \E u \in AllThreads : tpc'[u] = "casKey" /\ tk[u] = k
        <5>1. PICK u \in AllThreads : tpc[u] = "casKey" /\ tk[u] = k
          BY <2>1, <2>5 DEF KeyPart, KeysKnown, Typed
        <5>2. u # t => tpc'[u] = "casKey"
          BY <2>1, <5>1 DEF Typed
        <5> QED BY <5>1, <5>2
      <4> QED BY <2>1, <3>1, <4>1 DEF KeysKnown
    <3> QED BY <2>3, <3>3, <3>4, <3>5, <3>6 DEF KeyPart
  <2>6. CASE key # None
    <3>1. keys' = keys \ {tk[t]} /\ tk' = [tk EXCEPT ![t] = key] /\ key' = key
      BY <2>6 DEF CasKey
    <3>2. SlotsUseKey'
      BY <2>1, <3>1 DEF KeyPart, SlotsUseKey
    <3>3. ASSUME NEW u \in AllThreads PROVE KeyAt(u)'
      BY <2>1, <2>2, <2>4, <3>1 DEF KeyPart, KeyAt, Typed
    <3>4. KeysDistinct'
      BY <2>1, <3>1 DEF KeyPart, KeysDistinct, Typed
    <3>5. KeysKnown'
      BY <2>1, <3>1 DEF KeyPart, KeysKnown, Typed
    <3> QED BY <2>3, <3>2, <3>3, <3>4, <3>5 DEF KeyPart
  <2> QED BY <2>5, <2>6
<1>3. FlowPart'
  BY DEF Typed, Phases, FlowPart, Searching, Creating, CasKey, Move
<1>4. SlotPart'
  BY DEF Typed, Phases, SlotPart, CasKey, Move
<1>5. StructurePart'
  BY QuietStructure DEF Typed, FlowPart, Searching, Creating, CasKey, Move
<1>6. TargetPart'
  BY DEF Typed, Phases, TargetPart, TargetOf, CasKey, Move
<1>7. OwnPart'
  BY DEF Typed, Phases, OwnPart, HasOwn, Alive, CasKey, Move
<1>8. CodePart'
  BY DEF Typed, Phases, CodePart, CasKey, Move
<1>9. AdoptPart'
  BY DEF Typed, Phases, AdoptPart, CasKey, Move
<1>10. ForeignPart'
  BY DEF Typed, Phases, ForeignPart, CasKey, Move
<1> QED BY <1>1, <1>2, <1>3, <1>4, <1>5, <1>6, <1>7, <1>8, <1>9, <1>10

LEMMA CurrentStep ==
  ASSUME IInv, NEW t \in AllThreads, NEW c \in Nat, Current(t, c)
  PROVE  IInv'
<1> USE RecordFacts DEF IInv
<1>1. Typed'
  BY DEF Typed, Phases, Current, NeedKey, Move
<1>2. KeyPart'
  <2>1. \A u \in AllThreads : u # t => tpc'[u] = tpc[u] /\ job'[u] = job[u] /\ tk'[u] = tk[u]
    BY DEF Typed, Current, NeedKey, Move
  <2>2. KeyAt(t) /\ down = FALSE
    BY DEF KeyPart, AfterShutdown, Typed, Current, NeedKey, Move
  <2>3. tpc'[t] = "readKey" /\ job'[t] = "get"
    BY <2>2 DEF KeyAt, Typed, Current, NeedKey, Move
  <2>4. KeepsKeys(t)
    BY <2>2, <2>3 DEF KeepsKeys, KeyAt, FlowPart, Searching, Current, NeedKey, Move
  <2>5. UNCHANGED <<key, keys, tls, down>>
    BY DEF Current, NeedKey, Move
  <2> QED BY <2>1, <2>4, <2>5, KeyFrame DEF KeepsKeys
<1>3. FlowPart'
  BY DEF Typed, Phases, FlowPart, Searching, Creating, Current, NeedKey, Move
<1>4. SlotPart'
  BY DEF Typed, Phases, SlotPart, Current, NeedKey, Move
<1>5. StructurePart'
  BY QuietStructure DEF Typed, FlowPart, Searching, Creating, Current, NeedKey, Move
<1>6. TargetPart'
  BY DEF Typed, Phases, TargetPart, TargetOf, Current, NeedKey, Move
<1>7. OwnPart'
  BY DEF Typed, FlowPart, Searching, OwnPart, HasOwn, Alive, Current, NeedKey, Move
<1>8. CodePart'
  BY DEF Typed, Phases, CodePart, Current, NeedKey, Move
<1>9. AdoptPart'
  BY DEF Typed, FlowPart, Searching, AdoptPart, Current, NeedKey, Move
<1>10. ForeignPart'
  BY DEF Typed, Phases, ForeignPart, Current, NeedKey, Move
<1> QED BY <1>1, <1>2, <1>3, <1>4, <1>5, <1>6, <1>7, <1>8, <1>9, <1>10

LEMMA ReturnStep ==
  ASSUME IInv, NEW t \in AllThreads, ReturnCode(t)
  PROVE  IInv'
<1> USE RecordFacts DEF IInv
<1>1. Typed'
  BY DEF Typed, Phases, ReturnCode, Move
<1>2. KeyPart'
  <2>1. \A u \in AllThreads : u # t => tpc'[u] = tpc[u] /\ job'[u] = job[u] /\ tk'[u] = tk[u]
    BY DEF Typed, ReturnCode, Move
  <2>2. KeyAt(t) /\ (down # FALSE => tpc[t] \in {"none", "run", "dying", "dead"})
    BY DEF KeyPart, AfterShutdown
  <2>3. KeepsKeys(t)
    BY <2>2 DEF KeepsKeys, KeyAt, Typed, FlowPart, Searching, ReturnCode, Move
  <2>4. UNCHANGED <<key, keys, tls, down>>
    BY DEF ReturnCode, Move
  <2> QED BY <2>1, <2>3, <2>4, KeyFrame DEF KeepsKeys
<1>3. FlowPart'
  BY DEF Typed, Phases, FlowPart, Searching, Creating, ReturnCode, Move
<1>4. SlotPart'
  BY DEF Typed, Phases, SlotPart, ReturnCode, Move
<1>5. StructurePart'
  BY QuietStructure DEF Typed, FlowPart, Searching, Creating, ReturnCode, Move
<1>6. TargetPart'
  BY DEF Typed, Phases, TargetPart, TargetOf, ReturnCode, Move
<1>7. OwnPart'
  BY DEF Typed, Phases, OwnPart, HasOwn, Alive, ReturnCode, Move
<1>8. CodePart'
  BY DEF Typed, Phases, CodePart, ReturnCode, Move
<1>9. AdoptPart'
  BY DEF Typed, Phases, AdoptPart, ReturnCode, Move
<1>10. ForeignPart'
  BY DEF Typed, Phases, ForeignPart, ReturnCode, Move
<1> QED BY <1>1, <1>2, <1>3, <1>4, <1>5, <1>6, <1>7, <1>8, <1>9, <1>10

LEMMA GoneStep ==
  ASSUME IInv, NEW t \in AllThreads, Gone(t)
  PROVE  IInv'
<1> USE RecordFacts DEF IInv
<1>1. Typed'
  BY DEF Typed, Phases, Gone, Move
<1>2. KeyPart'
  <2>1. \A u \in AllThreads : u # t => tpc'[u] = tpc[u] /\ job'[u] = job[u] /\ tk'[u] = tk[u]
    BY DEF Typed, Gone, Move
  <2>2. KeyAt(t) /\ (down # FALSE => tpc[t] \in {"none", "run", "dying", "dead"})
    BY DEF KeyPart, AfterShutdown
  <2>3. Empty(t)
    BY DEF Gone, Typed, KeyPart, SlotsUseKey, Empty
  <2>4. KeepsKeys(t)
    BY <2>2, <2>3 DEF KeepsKeys, KeyAt, Typed, FlowPart, Searching, Gone, Move
  <2>5. UNCHANGED <<key, keys, tls, down>>
    BY DEF Gone, Move
  <2> QED BY <2>1, <2>4, <2>5, KeyFrame DEF KeepsKeys
<1>3. FlowPart'
  BY DEF Typed, Phases, FlowPart, Searching, Creating, Gone, Move
<1>4. SlotPart'
  BY DEF Typed, Phases, SlotPart, Gone, Move
<1>5. StructurePart'
  BY QuietStructure DEF Typed, FlowPart, Searching, Creating, Gone, Move
<1>6. TargetPart'
  BY DEF Typed, Phases, TargetPart, TargetOf, Gone, Move
<1>7. OwnPart'
  BY DEF Typed, Phases, OwnPart, HasOwn, Alive, Gone, Move
<1>8. CodePart'
  BY DEF Typed, Phases, CodePart, Gone, Move
<1>9. AdoptPart'
  BY DEF Typed, Phases, AdoptPart, Gone, Move
<1>10. ForeignPart'
  BY DEF Typed, Phases, ForeignPart, Gone, Move
<1> QED BY <1>1, <1>2, <1>3, <1>4, <1>5, <1>6, <1>7, <1>8, <1>9, <1>10

LEMMA ProxyBarrierStep ==
  ASSUME IInv, NEW t \in AllThreads, ProxyBarrier(t)
  PROVE  IInv'
<1> USE RecordFacts DEF IInv
<1>1. Typed'
  BY DEF Typed, Phases, ProxyBarrier, Move
<1>2. KeyPart'
  <2>1. \A u \in AllThreads : u # t => tpc'[u] = tpc[u] /\ job'[u] = job[u] /\ tk'[u] = tk[u]
    BY DEF Typed, ProxyBarrier, Move
  <2>2. KeyAt(t) /\ (down # FALSE => tpc[t] \in {"none", "run", "dying", "dead"})
    BY DEF KeyPart, AfterShutdown
  <2>3. KeepsKeys(t)
    BY <2>2 DEF KeepsKeys, KeyAt, Typed, FlowPart, Searching, ProxyBarrier, Move
  <2>4. UNCHANGED <<key, keys, tls, down>>
    BY DEF ProxyBarrier, Move
  <2> QED BY <2>1, <2>3, <2>4, KeyFrame DEF KeepsKeys
<1>3. FlowPart'
  BY DEF Typed, Phases, FlowPart, Searching, Creating, ProxyBarrier, Move
<1>4. SlotPart'
  BY DEF Typed, Phases, SlotPart, ProxyBarrier, Move
<1>5. StructurePart'
  <2>1. t \in Workers => rec[Created(t)].ours # FALSE
    <3>1. \A u \in AllThreads : tpc[u] \notin Creating
      BY DEF ProxyBarrier, FlowPart
    <3>2. ~Filling(t)
      BY <3>1 DEF Filling, Creating
    <3> QED BY <3>2 DEF ProxyBarrier, StructurePart, StructureOf
  <2> QED BY <2>1, QuietStructure DEF Typed, FlowPart, Searching, Creating, ProxyBarrier, Move
<1>6. TargetPart'
  BY DEF Typed, Phases, TargetPart, TargetOf, ProxyBarrier, Move
<1>7. OwnPart'
  BY DEF Typed, Phases, OwnPart, HasOwn, Alive, ProxyBarrier, Move
<1>8. CodePart'
  BY DEF Typed, Phases, CodePart, ProxyBarrier, Move
<1>9. AdoptPart'
  BY DEF Typed, Phases, AdoptPart, ProxyBarrier, Move
<1>10. ForeignPart'
  BY DEF Typed, Phases, ForeignPart, ProxyBarrier, Move
<1> QED BY <1>1, <1>2, <1>3, <1>4, <1>5, <1>6, <1>7, <1>8, <1>9, <1>10

------------------------------------------------------------------------------
(* Steps that change a structure: which one, and how.                       *)
Others(r) == \A q \in Records : q # r => rec'[q] = rec[q]

LEMMA RefSet ==
  ASSUME Typed, NEW r \in Records, NEW n \in Nat, rec' = [rec EXCEPT ![r].ref = n]
  PROVE  /\ rec' \in [Records -> Structures] /\ Others(r)
         /\ rec'[r].ref = n /\ rec'[r].state = rec[r].state
         /\ rec'[r].ours = rec[r].ours /\ rec'[r].ret = rec[r].ret
<1>1. rec[r] \in Structures
  BY DEF Typed
<1>2. rec' = [rec EXCEPT ![r] = [rec[r] EXCEPT !.ref = n]]
  OBVIOUS
<1> QED BY <1>1, <1>2, Updates DEF Typed, Others

LEMMA RetSet ==
  ASSUME Typed, NEW r \in Records, NEW n \in Nat, rec' = [rec EXCEPT ![r].ret = n]
  PROVE  /\ rec' \in [Records -> Structures] /\ Others(r)
         /\ rec'[r].ret = n /\ rec'[r].state = rec[r].state
         /\ rec'[r].ours = rec[r].ours /\ rec'[r].ref = rec[r].ref
<1>1. rec[r] \in Structures
  BY DEF Typed
<1>2. rec' = [rec EXCEPT ![r] = [rec[r] EXCEPT !.ret = n]]
  OBVIOUS
<1> QED BY <1>1, <1>2, Updates DEF Typed, Others

LEMMA RecDropped ==
  ASSUME Typed, NEW r \in Records, rec[r].ref # 0, rec' = Dropped(r)
  PROVE  /\ rec' \in [Records -> Structures] /\ Others(r)
         /\ rec'[r].ref = rec[r].ref - 1
         /\ rec'[r].state = IF rec[r].ref = 1 THEN "freed" ELSE rec[r].state
         /\ rec'[r].ours = rec[r].ours /\ rec'[r].ret = rec[r].ret
<1> DEFINE n == rec[r].ref - 1
           s == IF rec[r].ref = 1 THEN "freed" ELSE rec[r].state
<1>1. rec[r] \in Structures /\ n \in Nat /\ s \in {"none", "live", "freed"}
  BY Updates DEF Typed
<1>2. rec' = [rec EXCEPT ![r] = [rec[r] EXCEPT !.ref = n, !.state = s]]
  BY DEF Dropped, Typed
<1>3. rec'[r] = [rec[r] EXCEPT !.ref = n, !.state = s] /\ Others(r)
  BY <1>2 DEF Typed, Others
<1> HIDE DEF n, s
<1>4. rec'[r] \in Structures
  BY <1>1, <1>3 DEF Structures
<1>5. /\ rec'[r].ref = n /\ rec'[r].state = s
      /\ rec'[r].ours = rec[r].ours /\ rec'[r].ret = rec[r].ret
  BY <1>1, <1>3 DEF Structures
<1> QED BY <1>2, <1>3, <1>4, <1>5 DEF n, s, Typed

LEMMA RecFilled ==
  ASSUME Typed, NEW r \in Records, rec' = [rec EXCEPT ![r].ref = 2, ![r].ours = TRUE]
  PROVE  /\ rec' \in [Records -> Structures] /\ Others(r)
         /\ rec'[r].ref = 2 /\ rec'[r].ours # FALSE
         /\ rec'[r].state = rec[r].state /\ rec'[r].ret = rec[r].ret
<1>1. rec[r] \in Structures
  BY DEF Typed
<1>2. rec' = [rec EXCEPT ![r] = [rec[r] EXCEPT !.ref = 2, !.ours = TRUE]]
  BY DEF Typed
<1>3. rec'[r] = [rec[r] EXCEPT !.ref = 2, !.ours = TRUE] /\ Others(r)
  BY <1>2 DEF Typed, Others
<1>4. rec'[r].ref = 2 /\ rec'[r].state = rec[r].state /\ rec'[r].ret = rec[r].ret
  BY <1>1, <1>3 DEF Structures
<1>5. rec'[r].ours = TRUE
  BY <1>1, <1>3, Zenon DEF Structures
<1>6. rec'[r].ours # FALSE
  BY <1>5
<1>7. rec'[r] \in Structures
  <2>1. PICK y : y = [rec[r] EXCEPT !.ref = 2]
    OBVIOUS
  <2>2. y \in Structures
    BY <1>1, <2>1, Updates
  <2>3. [y EXCEPT !.ours = TRUE] \in Structures
    BY <2>2 DEF Structures
  <2>4. rec'[r] = [y EXCEPT !.ours = TRUE]
    BY <1>3, <2>1
  <2> QED BY <2>3, <2>4
<1> QED BY <1>2, <1>3, <1>4, <1>6, <1>7 DEF Typed

LEMMA RecNew ==
  ASSUME Typed, NEW r \in Records, NEW new, rec' = [rec EXCEPT ![r] = new],
         \/ \E j \in BOOLEAN : new = [NoRecord EXCEPT !.state = "live", !.joinable = j]
         \/ new = [NoRecord EXCEPT !.state = "live", !.ref = 1]
  PROVE  /\ rec' \in [Records -> Structures] /\ Others(r) /\ rec'[r] = new
         /\ new.state = "live" /\ new.ours = FALSE /\ new.ret = 0
         /\ new = [NoRecord EXCEPT !.state = "live", !.ref = 1] => new.ref = 1
<1>1. /\ new \in Structures /\ new.state = "live" /\ new.ours = FALSE /\ new.ret = 0
      /\ new = [NoRecord EXCEPT !.state = "live", !.ref = 1] => new.ref = 1
  <2>1. ASSUME NEW j \in BOOLEAN, new = [NoRecord EXCEPT !.state = "live", !.joinable = j]
        PROVE  new \in Structures /\ new.state = "live" /\ new.ours = FALSE /\ new.ret = 0
    BY <2>1 DEF NoRecord, Structures
  <2>2. ASSUME new = [NoRecord EXCEPT !.state = "live", !.ref = 1]
        PROVE  /\ new \in Structures /\ new.state = "live" /\ new.ours = FALSE
               /\ new.ret = 0 /\ new.ref = 1
    BY <2>2 DEF NoRecord, Structures
  <2> QED BY <2>1, <2>2
<1> QED BY <1>1 DEF Typed, Others

LEMMA OthersCreated ==
  ASSUME NEW w \in AllThreads, Others(Created(w))
  PROVE  /\ \A u \in AllThreads : rec'[Adopted(u)] = rec[Adopted(u)]
         /\ \A u \in AllThreads : u # w => rec'[Created(u)] = rec[Created(u)]
BY RecordFacts DEF Others

LEMMA OthersAdopted ==
  ASSUME NEW w \in AllThreads, Others(Adopted(w))
  PROVE  /\ \A u \in AllThreads : rec'[Created(u)] = rec[Created(u)]
         /\ \A u \in AllThreads : u # w => rec'[Adopted(u)] = rec[Adopted(u)]
BY RecordFacts DEF Others

(* A step about another worker's structure or about none.                   *)
Aside(v) ==
  /\ rec'[Created(v)] = rec[Created(v)] /\ user'[v] = user[v] /\ joined'[v] = joined[v]
  /\ tls'[v] = tls[v] /\ (Created(v) \in lost' <=> Created(v) \in lost)
  /\ job'[v] = "proxy" <=> job[v] = "proxy"
  /\ tpc'[v] = "none" <=> tpc[v] = "none"
  /\ tpc[v] = "barrier" => tpc'[v] = "barrier"
  /\ \A u \in AllThreads :
       /\ target[u] = v /\ tpc[u] \in {"unlock", "joining"} <=>
          target'[u] = v /\ tpc'[u] \in {"unlock", "joining"}
       /\ tpc[u] = "fill" /\ target[u] = v => tpc'[u] = "fill" /\ target'[u] = v

LEMMA OtherStructure ==
  ASSUME StructurePart, NEW v \in Workers, Aside(v)
  PROVE  StructureOf(v)'
<1> USE RecordFacts
<1>1. HasOwn(v)' <=> HasOwn(v)
  BY DEF HasOwn, Aside
<1>2. InHand(v)' <=> InHand(v)
  BY DEF InHand, Aside
<1>3. Filling(v) => Filling(v)'
  BY DEF Filling, Aside
<1>4. StructureOf(v)
  BY DEF StructurePart
<1>5. rec[Created(v)].ours # FALSE \/ tpc[v] = "none" \/ job'[v] = "proxy" \/ tpc'[v] = "barrier"
  BY <1>4 DEF StructureOf, Aside
<1> QED BY <1>1, <1>2, <1>3, <1>4, <1>5, SameStructure DEF Aside

(* The references of a complete structure add up after a step.              *)
LEMMA CountedStructure ==
  ASSUME NEW w \in Workers, tpc'[w] # "none",
         rec'[Created(w)].state # "none", rec'[Created(w)].ours # FALSE,
         rec'[Created(w)].ref =
           user'[w] + (IF InHand(w)' THEN 1 ELSE 0) + (IF HasOwn(w)' THEN 1 ELSE 0),
         rec'[Created(w)].state = IF rec'[Created(w)].ref = 0 THEN "freed" ELSE "live"
  PROVE  StructureOf(w)'
<1>1. rec'[Created(w)].ref = user'[w] + Count(InHand(w))' + Count(HasOwn(w))'
  BY DEF Count
<1> QED BY <1>1, Zenon DEF StructureOf

LEMMA CountedBefore ==
  ASSUME NEW w \in Workers, StructurePart, rec[Created(w)].ours # FALSE
  PROVE  /\ tpc[w] # "none" /\ rec[Created(w)].state # "none"
         /\ rec[Created(w)].ref =
              user[w] + (IF InHand(w) THEN 1 ELSE 0) + (IF HasOwn(w) THEN 1 ELSE 0)
         /\ rec[Created(w)].state = IF rec[Created(w)].ref = 0 THEN "freed" ELSE "live"
<1>1. StructureOf(w)
  BY DEF StructurePart
<1>2. rec[Created(w)].state # "none"
  BY <1>1 DEF StructureOf
<1>3. rec[Created(w)].ref = user[w] + Count(InHand(w)) + Count(HasOwn(w))
  BY <1>1, Zenon DEF StructureOf
<1>4. rec[Created(w)].state = IF rec[Created(w)].ref = 0 THEN "freed" ELSE "live"
  BY <1>1, Zenon DEF StructureOf
<1>5. rec[Created(w)].ref =
        user[w] + (IF InHand(w) THEN 1 ELSE 0) + (IF HasOwn(w) THEN 1 ELSE 0)
  BY <1>3 DEF Count
<1>6. tpc[w] # "none"
  BY <1>1, <1>2 DEF StructureOf
<1> QED BY <1>2, <1>4, <1>5, <1>6

(* What a thread creates or joins stays as it is for the thread.            *)
TargetKept(u) ==
  \/ target'[u] = None
  \/ /\ target'[u] = target[u] /\ tpc'[u] = tpc[u]
     /\ rec'[Created(target[u])].state = rec[Created(target[u])].state
     /\ rec'[Created(target[u])].ours = rec[Created(target[u])].ours
     /\ tpc[u] = "unlock" => user'[target[u]] = user[target[u]]

LEMMA TargetFrame ==
  ASSUME NEW u \in AllThreads, TargetPart, TargetKept(u)
  PROVE  TargetOf(u)'
<1>1. TargetOf(u)
  BY DEF TargetPart
<1>2. CASE target'[u] = None
  BY <1>2 DEF TargetOf
<1>3. CASE target'[u] # None
  BY <1>1, <1>3 DEF TargetOf, TargetKept
<1> QED BY <1>2, <1>3

------------------------------------------------------------------------------
(* Creation.                                                                *)
LEMMA SpawnStep ==
  ASSUME IInv, NEW t \in AllThreads, Spawn(t)
  PROVE  IInv'
<1> USE RecordFacts DEF IInv
<1>1. PICK w : w = target[t]
  OBVIOUS
<1>2. /\ tpc[t] = "spawn" /\ newSpin = t /\ w \in Workers /\ w \in AllThreads /\ w # t
      /\ rec[Created(w)].state = "none" /\ tpc[w] = "none"
      /\ target[w] = None /\ job[w] = "none" /\ Empty(w)
  <2>1. tpc[t] = "spawn" /\ newSpin = t /\ w \in Workers /\ w \in AllThreads
    BY <1>1 DEF Spawn, Typed, FlowPart, Creating
  <2>2. rec[Created(w)].state = "none"
    BY <1>1, <2>1 DEF TargetPart, TargetOf
  <2>3. tpc[w] = "none"
    BY <2>1, <2>2 DEF StructurePart, StructureOf
  <2>4. target[w] = None /\ job[w] = "none"
    BY <2>1, <2>3 DEF FlowPart, Searching, Creating
  <2>5. Empty(w)
    BY <2>1, <2>3 DEF KeyPart, KeyAt
  <2> QED BY <2>1, <2>2, <2>3, <2>4, <2>5
<1>3. /\ tpc' = [tpc EXCEPT ![t] = "fill", ![w] = "readKey"]
      /\ job' = [job EXCEPT ![w] = "proxy"]
      /\ UNCHANGED <<newSpin, key, keys, tls, tk, target, code, user, joined, down, lost>>
  BY <1>1 DEF Spawn
<1>4. /\ rec' \in [Records -> Structures] /\ Others(Created(w))
      /\ rec'[Created(w)].state = "live" /\ rec'[Created(w)].ours = FALSE
      /\ rec'[Created(w)].ret = 0
  <2>1. PICK new : /\ rec' = [rec EXCEPT ![Created(w)] = new]
                   /\ \E j \in BOOLEAN : new = [NoRecord EXCEPT !.state = "live", !.joinable = j]
    BY <1>1 DEF Spawn
  <2> QED BY <1>2, <2>1, RecNew
<1>5. /\ \A u \in AllThreads : rec'[Adopted(u)] = rec[Adopted(u)]
      /\ \A u \in AllThreads : u # w => rec'[Created(u)] = rec[Created(u)]
  BY <1>2, <1>4, OthersCreated
<1>6. Typed'
  BY <1>2, <1>3, <1>4 DEF Typed, Phases
<1>7. KeyPart'
  <2>1. \A u \in AllThreads : u # t /\ u # w => KeepsKeys(u)
    BY <1>2, <1>3 DEF KeepsKeys, Typed
  <2>2. down = FALSE /\ KeyAt(t)
    BY <1>2 DEF KeyPart, AfterShutdown, Typed
  <2>3. KeepsKeys(t) /\ KeepsKeys(w)
    BY <1>2, <1>3, <2>2 DEF KeepsKeys, Typed, FlowPart, Searching
  <2> QED BY <1>3, <2>1, <2>3, KeyFrame
<1>8. FlowPart'
  BY <1>2, <1>3 DEF Typed, FlowPart, Searching, Creating
<1>9. SlotPart'
  BY <1>3 DEF SlotPart
<1>10. StructurePart'
  <2>1. ASSUME NEW v \in Workers, v # w PROVE StructureOf(v)'
    <3>1. Aside(v)
      BY <1>1, <1>2, <1>3, <1>5, <2>1 DEF Aside, Typed
    <3> QED BY <3>1, OtherStructure
  <2>2. StructureOf(w)'
    <3>1. Filling(w)'
      BY <1>1, <1>2, <1>3 DEF Filling, Typed
    <3>2. user[w] = 0
      BY <1>2 DEF StructurePart, StructureOf
    <3> QED BY <1>2, <1>3, <1>4, <3>1, <3>2 DEF StructureOf, Typed
  <2> QED BY <2>1, <2>2 DEF StructurePart
<1>11. TargetPart'
  <2>1. \A u \in AllThreads : u # t => target[u] # w
    BY <1>1, <1>2 DEF FlowPart
  <2>2. \A u \in AllThreads : target[u] # None /\ u # t => tpc'[u] = tpc[u]
    BY <1>2, <1>3 DEF Typed
  <2>3. \A u \in AllThreads : target[u] # None => target[u] \in AllThreads
    BY DEF Typed
  <2>4. ASSUME NEW u \in AllThreads, u # t PROVE TargetOf(u)'
    <3>1. TargetKept(u)
      BY <1>3, <1>5, <2>1, <2>2, <2>3, <2>4 DEF TargetKept
    <3> QED BY <3>1, TargetFrame
  <2>5. TargetOf(t)'
    BY <1>1, <1>2, <1>3, <1>4 DEF TargetOf, Typed
  <2> QED BY <2>4, <2>5 DEF TargetPart
<1>12. OwnPart'
  <2>1. Created(w) \notin lost
    BY <1>2 DEF StructurePart, StructureOf
  <2>2. \A v \in Workers : v # w => (HasOwn(v)' <=> HasOwn(v)) /\ (Alive(v)' <=> Alive(v))
    BY <1>2, <1>3 DEF HasOwn, Alive, Typed
  <2>3. HasOwn(w)'
    BY <1>2, <1>3 DEF HasOwn, Typed
  <2> QED BY <1>3, <2>1, <2>2, <2>3 DEF OwnPart, Typed
<1>13. CodePart'
  <2>1. joined[w] = -1
    BY <1>2 DEF StructurePart, StructureOf
  <2>2. \A v \in Workers : v # w => (tpc'[v] \in {"dying", "dead"} <=> tpc[v] \in {"dying", "dead"})
                                   /\ (tpc'[v] = "dead" <=> tpc[v] = "dead")
    BY <1>2, <1>3 DEF Typed
  <2>3. tpc'[w] = "readKey"
    BY <1>2, <1>3 DEF Typed
  <2> QED BY <1>2, <1>3, <1>4, <1>5, <2>1, <2>2, <2>3 DEF CodePart
<1>14. AdoptPart'
  BY <1>2, <1>3, <1>5 DEF AdoptPart, Typed
<1>15. ForeignPart'
  BY <1>2, <1>5 DEF ForeignPart
<1> QED BY <1>6, <1>7, <1>8, <1>9, <1>10, <1>11, <1>12, <1>13, <1>14, <1>15

LEMMA FillStep ==
  ASSUME IInv, NEW t \in AllThreads, Fill(t)
  PROVE  IInv'
<1> USE RecordFacts DEF IInv
<1>1. PICK w : w = target[t]
  OBVIOUS
<1>2. /\ tpc[t] = "fill" /\ w \in Workers /\ w \in AllThreads
      /\ rec[Created(w)].state # "none" /\ rec[Created(w)].ours = FALSE
  BY <1>1 DEF Fill, Typed, FlowPart, TargetPart, TargetOf
<1>3. StructureOf(w) /\ rec[Created(w)].state = "live" /\ user[w] = 0
  BY <1>2 DEF StructurePart, StructureOf
<1>4. /\ tpc' = [tpc EXCEPT ![t] = "unlock"]
      /\ UNCHANGED <<newSpin, key, keys, tls, job, tk, target, code, user, joined, down, lost>>
  BY DEF Fill, Move
<1>5. /\ rec' \in [Records -> Structures] /\ Others(Created(w))
      /\ rec'[Created(w)].ref = 2 /\ rec'[Created(w)].ours # FALSE
      /\ rec'[Created(w)].state = "live" /\ rec'[Created(w)].ret = rec[Created(w)].ret
  BY <1>1, <1>2, <1>3, RecFilled DEF Fill
<1>6. /\ \A u \in AllThreads : rec'[Adopted(u)] = rec[Adopted(u)]
      /\ \A u \in AllThreads : u # w => rec'[Created(u)] = rec[Created(u)]
  BY <1>2, <1>5, OthersCreated
<1>7. Typed'
  BY <1>4, <1>5 DEF Typed, Phases
<1>8. KeyPart'
  <2>1. \A u \in AllThreads : u # t => KeepsKeys(u)
    BY <1>4 DEF KeepsKeys, Typed
  <2>2. down = FALSE /\ KeyAt(t)
    BY <1>2 DEF KeyPart, AfterShutdown, Typed
  <2>3. KeepsKeys(t)
    BY <1>2, <1>4, <2>2 DEF KeepsKeys, KeyAt, Typed
  <2> QED BY <1>4, <2>1, <2>3, KeyFrame
<1>9. FlowPart'
  BY <1>1, <1>2, <1>4 DEF Typed, FlowPart, Searching, Creating
<1>10. SlotPart'
  BY <1>4 DEF SlotPart
<1>11. \A u \in AllThreads : u # t => target[u] # w
  BY <1>1, <1>2 DEF FlowPart
<1>12. StructurePart'
  <2>1. ASSUME NEW v \in Workers, v # w PROVE StructureOf(v)'
    <3>1. Aside(v)
      BY <1>1, <1>2, <1>4, <1>6, <2>1 DEF Aside, Typed
    <3> QED BY <3>1, OtherStructure
  <2>2. StructureOf(w)'
    <3>1. InHand(w)'
      BY <1>1, <1>2, <1>4 DEF InHand, Typed
    <3>2. HasOwn(w)'
      <4>1. job[w] = "proxy" \/ tpc[w] = "barrier"
        BY <1>2, <1>3 DEF StructureOf
      <4>2. HasOwn(w)
        BY <1>2, <4>1 DEF OwnPart, Alive, HasOwn
      <4> QED BY <1>4, <4>2 DEF HasOwn
    <3>3. tpc[w] # "none" /\ tpc'[w] # "none"
      BY <1>2, <1>3, <1>4 DEF StructureOf, Typed
    <3>4. user'[w] = 0
      BY <1>3, <1>4
    <3>5. rec'[Created(w)].ref =
            user'[w] + (IF InHand(w)' THEN 1 ELSE 0) + (IF HasOwn(w)' THEN 1 ELSE 0)
      BY <1>5, <3>1, <3>2, <3>4
    <3>6. rec'[Created(w)].state = IF rec'[Created(w)].ref = 0 THEN "freed" ELSE "live"
      BY <1>5
    <3>7. rec'[Created(w)].state # "none" /\ rec'[Created(w)].ours # FALSE
      BY <1>5
    <3> QED BY <1>2, <3>3, <3>5, <3>6, <3>7, CountedStructure
  <2> QED BY <2>1, <2>2 DEF StructurePart
<1>13. TargetPart'
  <2>1. \A u \in AllThreads : u # t => tpc'[u] = tpc[u]
    BY <1>4 DEF Typed
  <2>2. \A u \in AllThreads : target[u] # None => target[u] \in AllThreads
    BY DEF Typed
  <2>3. tpc'[t] = "unlock"
    BY <1>4 DEF Typed
  <2>4. ASSUME NEW u \in AllThreads, u # t PROVE TargetOf(u)'
    <3>1. TargetKept(u)
      BY <1>4, <1>6, <1>11, <2>1, <2>2, <2>4 DEF TargetKept
    <3> QED BY <3>1, TargetFrame
  <2>5. TargetOf(t)'
    BY <1>1, <1>3, <1>4, <1>5, <2>3 DEF TargetOf
  <2> QED BY <2>4, <2>5 DEF TargetPart
<1>14. OwnPart'
  <2>1. \A v \in Workers : (HasOwn(v)' <=> HasOwn(v)) /\ (Alive(v)' <=> Alive(v))
    BY <1>2, <1>4 DEF HasOwn, Alive, Typed
  <2> QED BY <1>4, <2>1 DEF OwnPart, Typed
<1>15. CodePart'
  <2>1. \A v \in Workers : (tpc'[v] \in {"dying", "dead"} <=> tpc[v] \in {"dying", "dead"})
                          /\ (tpc'[v] = "dead" <=> tpc[v] = "dead")
    BY <1>2, <1>4 DEF Typed
  <2>2. \A v \in Workers : rec'[Created(v)].ret = rec[Created(v)].ret
    BY <1>5, <1>6
  <2> QED BY <1>4, <2>1, <2>2 DEF CodePart
<1>16. AdoptPart'
  BY <1>4, <1>6 DEF AdoptPart
<1>17. ForeignPart'
  BY <1>2, <1>6 DEF ForeignPart
<1> QED BY <1>7, <1>8, <1>9, <1>10, <1>12, <1>13, <1>14, <1>15, <1>16, <1>17

LEMMA CreateUnlockStep ==
  ASSUME IInv, NEW t \in AllThreads, CreateUnlock(t)
  PROVE  IInv'
<1> USE RecordFacts DEF IInv
<1>1. PICK w : w = target[t]
  OBVIOUS
<1>2. /\ tpc[t] = "unlock" /\ tpc' = [tpc EXCEPT ![t] = "run"] /\ newSpin' = None
      /\ target' = [target EXCEPT ![t] = None]
      /\ user' = [v \in Workers |-> IF v = w THEN 1 ELSE user[v]]
      /\ UNCHANGED <<rec, key, keys, tls, job, tk, code, joined, down, lost>>
  BY <1>1 DEF CreateUnlock, Move
<1>3. Typed'
  BY <1>2 DEF Typed, Phases
<1>4. KeyPart'
  <2>1. \A u \in AllThreads : u # t => KeepsKeys(u)
    BY <1>2 DEF KeepsKeys, Typed
  <2>2. KeyAt(t)
    BY DEF KeyPart
  <2>3. KeepsKeys(t)
    BY <1>2, <2>2 DEF KeepsKeys, KeyAt, Typed
  <2> QED BY <1>2, <2>1, <2>3, KeyFrame
<1>5. FlowPart'
  BY <1>2 DEF Typed, FlowPart, Searching, Creating
<1>6. SlotPart'
  BY <1>2 DEF SlotPart
<1>7. \A u \in AllThreads : u # t /\ target[u] # None => target[u] # w
  BY <1>1 DEF FlowPart
<1>8. StructurePart'
  <2>1. ASSUME NEW v \in Workers, v # w PROVE StructureOf(v)'
    <3>1. Aside(v)
      BY <1>1, <1>2, <2>1 DEF Aside, Typed
    <3> QED BY <3>1, OtherStructure
  <2>2. ASSUME w \in Workers PROVE StructureOf(w)'
    <3>1. TargetOf(t)
      BY DEF TargetPart
    <3>2. rec[Created(w)].ours # FALSE /\ user[w] = 0
      BY <1>1, <1>2, <2>2, <3>1 DEF TargetOf
    <3>3. InHand(w) /\ ~InHand(w)'
      BY <1>1, <1>2, <1>7, <2>2 DEF InHand, Typed
    <3>4. HasOwn(w)' <=> HasOwn(w)
      BY <1>2 DEF HasOwn
    <3>5. user'[w] = 1 /\ tpc'[w] # "none"
      BY <1>2, <2>2, <3>2, CountedBefore DEF Typed
    <3>6. /\ rec[Created(w)].state # "none"
          /\ rec[Created(w)].ref =
               user[w] + (IF InHand(w) THEN 1 ELSE 0) + (IF HasOwn(w) THEN 1 ELSE 0)
          /\ rec[Created(w)].state = IF rec[Created(w)].ref = 0 THEN "freed" ELSE "live"
      BY <2>2, <3>2, CountedBefore
    <3>7. rec'[Created(w)].ref =
            user'[w] + (IF InHand(w)' THEN 1 ELSE 0) + (IF HasOwn(w)' THEN 1 ELSE 0)
      BY <1>2, <3>2, <3>3, <3>4, <3>5, <3>6
    <3> QED BY <1>2, <2>2, <3>2, <3>5, <3>6, <3>7, CountedStructure
  <2> QED BY <2>1, <2>2 DEF StructurePart
<1>9. TargetPart'
  <2>1. ASSUME NEW u \in AllThreads PROVE TargetOf(u)'
    <3>1. TargetKept(u)
      BY <1>2, <1>7 DEF TargetKept, Typed
    <3> QED BY <3>1, TargetFrame
  <2> QED BY <2>1 DEF TargetPart
<1>10. OwnPart'
  BY <1>2 DEF OwnPart, HasOwn, Alive, Typed
<1>11. CodePart'
  BY <1>2 DEF CodePart, Typed
<1>12. AdoptPart' /\ ForeignPart'
  BY <1>2 DEF AdoptPart, ForeignPart
<1> QED BY <1>3, <1>4, <1>5, <1>6, <1>8, <1>9, <1>10, <1>11, <1>12

------------------------------------------------------------------------------
(* References and joins.                                                    *)

(* The application's references go with a complete structure.               *)
LEMMA UserComplete ==
  ASSUME IInv, NEW w \in Workers, user[w] # 0
  PROVE  rec[Created(w)].ours # FALSE
<1>1. StructureOf(w)
  BY DEF IInv, StructurePart
<1> QED BY <1>1 DEF StructureOf

(* A reference is added or dropped.                                         *)
LEMMA RefSteps ==
  ASSUME IInv, NEW t \in AllThreads, NEW w \in Workers, Ref(t, w) \/ Unref(t, w)
  PROVE  IInv'
<1> USE RecordFacts DEF IInv
<1>1. /\ user[w] \in Nat \ {0}
      /\ UNCHANGED <<newSpin, key, keys, tls, tpc, job, tk, target, code, joined, down, lost>>
  BY DEF Ref, Unref, Typed
<1>2. rec[Created(w)].ours # FALSE /\ rec[Created(w)].ref \in Nat
  BY <1>1, UserComplete, Updates DEF Typed
<1>3. PICK held \in Nat : held = (IF InHand(w) THEN 1 ELSE 0) + (IF HasOwn(w) THEN 1 ELSE 0)
  OBVIOUS
<1>4. /\ rec[Created(w)].ref = user[w] + held /\ rec[Created(w)].ref # 0
      /\ rec[Created(w)].state = "live" /\ tpc[w] # "none"
  <2>1. /\ tpc[w] # "none"
        /\ rec[Created(w)].ref =
             user[w] + (IF InHand(w) THEN 1 ELSE 0) + (IF HasOwn(w) THEN 1 ELSE 0)
        /\ rec[Created(w)].state = IF rec[Created(w)].ref = 0 THEN "freed" ELSE "live"
    BY <1>2, CountedBefore
  <2>2. rec[Created(w)].ref = user[w] + held
    BY <1>1, <1>3, <2>1
  <2> QED BY <1>1, <2>1, <2>2
<1>5. /\ rec' \in [Records -> Structures] /\ Others(Created(w))
      /\ rec'[Created(w)].ours = rec[Created(w)].ours
      /\ rec'[Created(w)].ret = rec[Created(w)].ret
      /\ rec'[Created(w)].state = IF rec'[Created(w)].ref = 0 THEN "freed" ELSE "live"
      /\ rec'[Created(w)].ref = user'[w] + held
      /\ user' \in [Workers -> Nat] /\ \A v \in Workers : v # w => user'[v] = user[v]
  <2>1. CASE Ref(t, w)
    <3>1. PICK n \in Nat : n = rec[Created(w)].ref + 1
      BY <1>2
    <3>2. rec' = [rec EXCEPT ![Created(w)].ref = n]
      BY <2>1, <3>1 DEF Ref, Typed
    <3>3. user' = [user EXCEPT ![w] = user[w] + 1] /\ user'[w] = user[w] + 1
      BY <2>1 DEF Ref, Typed
    <3>4. /\ rec' \in [Records -> Structures] /\ Others(Created(w))
          /\ rec'[Created(w)].ref = n
          /\ rec'[Created(w)].state = rec[Created(w)].state
          /\ rec'[Created(w)].ours = rec[Created(w)].ours
          /\ rec'[Created(w)].ret = rec[Created(w)].ret
      BY <3>2, RefSet
    <3>5. user' \in [Workers -> Nat] /\ \A v \in Workers : v # w => user'[v] = user[v]
      BY <1>1, <3>3 DEF Typed
    <3>6. n = user'[w] + held /\ n # 0
      BY <1>1, <1>3, <1>4, <3>1, <3>3
    <3> QED BY <1>4, <3>4, <3>5, <3>6
  <2>2. CASE Unref(t, w)
    <3>1. rec' = Dropped(Created(w)) /\ user' = [user EXCEPT ![w] = user[w] - 1]
      BY <2>2 DEF Unref
    <3>2. user'[w] = user[w] - 1
      BY <3>1 DEF Typed
    <3>3. /\ rec' \in [Records -> Structures] /\ Others(Created(w))
          /\ rec'[Created(w)].ref = rec[Created(w)].ref - 1
          /\ rec'[Created(w)].state = IF rec[Created(w)].ref = 1 THEN "freed" ELSE "live"
          /\ rec'[Created(w)].ours = rec[Created(w)].ours
          /\ rec'[Created(w)].ret = rec[Created(w)].ret
      BY <1>4, <3>1, RecDropped
    <3>4. user' \in [Workers -> Nat] /\ \A v \in Workers : v # w => user'[v] = user[v]
      <4>1. PICK m \in Nat : m = user[w] - 1
        BY <1>1
      <4>2. user' = [user EXCEPT ![w] = m]
        BY <3>1, <4>1
      <4> QED BY <4>2 DEF Typed
    <3>5. /\ rec[Created(w)].ref - 1 = user'[w] + held
          /\ rec[Created(w)].ref = 1 <=> rec[Created(w)].ref - 1 = 0
      BY <1>1, <1>2, <1>3, <1>4, <3>2
    <3> QED BY <3>3, <3>4, <3>5
  <2> QED BY <2>1, <2>2
<1>6. /\ \A u \in AllThreads : rec'[Adopted(u)] = rec[Adopted(u)]
      /\ \A u \in AllThreads : u # w => rec'[Created(u)] = rec[Created(u)]
  BY <1>5, OthersCreated
<1>7. Typed'
  BY <1>1, <1>5 DEF Typed
<1>8. KeyPart'
  BY <1>1, KeyFrame DEF KeepsKeys
<1>9. FlowPart' /\ SlotPart'
  BY <1>1 DEF FlowPart, SlotPart
<1>10. StructurePart'
  <2>1. ASSUME NEW v \in Workers, v # w PROVE StructureOf(v)'
    <3>1. Aside(v)
      BY <1>1, <1>5, <1>6, <2>1 DEF Aside, Typed
    <3> QED BY <3>1, OtherStructure
  <2>2. StructureOf(w)'
    <3>1. (InHand(w)' <=> InHand(w)) /\ (HasOwn(w)' <=> HasOwn(w))
      BY <1>1 DEF InHand, HasOwn
    <3>2. tpc'[w] # "none" /\ rec'[Created(w)].state # "none" /\ rec'[Created(w)].ours # FALSE
      BY <1>1, <1>2, <1>5, <1>4
    <3>3. rec'[Created(w)].ref =
            user'[w] + (IF InHand(w)' THEN 1 ELSE 0) + (IF HasOwn(w)' THEN 1 ELSE 0)
      BY <1>5, <1>3, <3>1
    <3> QED BY <1>5, <3>2, <3>3, CountedStructure
  <2> QED BY <2>1, <2>2 DEF StructurePart
<1>11. TargetPart'
  <2>1. ASSUME NEW u \in AllThreads, target[u] # w PROVE TargetOf(u)'
    <3>1. TargetKept(u)
      BY <1>1, <1>5, <1>6, <2>1 DEF TargetKept, Typed
    <3> QED BY <3>1, TargetFrame
  <2>2. ASSUME NEW u \in AllThreads, target[u] = w PROVE TargetOf(u)'
    <3>1. TargetOf(u)
      BY DEF TargetPart
    <3>2. tpc[u] \notin {"spawn", "fill", "unlock"}
      BY <1>1, <1>2, <1>4, <2>2, <3>1 DEF TargetOf
    <3> QED BY <1>1, <1>2, <1>5, <2>2, <3>2 DEF TargetOf
  <2> QED BY <2>1, <2>2 DEF TargetPart
<1>12. OwnPart'
  BY <1>1 DEF OwnPart, HasOwn, Alive
<1>13. CodePart'
  <2>1. \A v \in Workers : rec'[Created(v)].ret = rec[Created(v)].ret
    BY <1>5, <1>6
  <2> QED BY <1>1, <2>1 DEF CodePart
<1>14. AdoptPart' /\ ForeignPart'
  BY <1>1, <1>6 DEF AdoptPart, ForeignPart
<1> QED BY <1>7, <1>8, <1>9, <1>10, <1>11, <1>12, <1>13, <1>14

LEMMA JoinStep ==
  ASSUME IInv, NEW t \in AllThreads, NEW w \in Workers, Join(t, w)
  PROVE  IInv'
<1> USE RecordFacts DEF IInv
<1>1. /\ tpc[t] = "run" /\ t \in Foreign /\ user[w] \in Nat \ {0} /\ joined[w] = -1
      /\ target[t] = None /\ down = FALSE /\ \A u \in AllThreads : target[u] # w
  BY DEF Join, Typed, FlowPart, Creating
<1>2. PICK m \in Nat : m = user[w] - 1
  BY <1>1
<1>3. /\ target' = [target EXCEPT ![t] = w] /\ tpc' = [tpc EXCEPT ![t] = "joining"]
      /\ user' = [user EXCEPT ![w] = m]
      /\ UNCHANGED <<rec, newSpin, key, keys, tls, job, tk, code, joined, down, lost>>
  BY <1>2 DEF Join, Move
<1>4. rec[Created(w)].ours # FALSE
  BY <1>1, UserComplete
<1>5. Typed'
  BY <1>3 DEF Typed, Phases
<1>6. KeyPart'
  <2>1. \A u \in AllThreads : u # t => KeepsKeys(u)
    BY <1>3 DEF KeepsKeys, Typed
  <2>2. KeyAt(t)
    BY DEF KeyPart
  <2>3. KeepsKeys(t)
    BY <1>1, <1>3, <2>2 DEF KeepsKeys, KeyAt, Typed
  <2> QED BY <1>3, <2>1, <2>3, KeyFrame
<1>7. FlowPart'
  BY <1>1, <1>3 DEF Typed, FlowPart, Searching, Creating
<1>8. SlotPart'
  BY <1>3 DEF SlotPart
<1>9. StructurePart'
  <2>1. ASSUME NEW v \in Workers, v # w PROVE StructureOf(v)'
    <3>1. Aside(v)
      BY <1>1, <1>3, <2>1 DEF Aside, Typed
    <3> QED BY <3>1, OtherStructure
  <2>2. StructureOf(w)'
    <3>1. ~InHand(w) /\ InHand(w)'
      BY <1>1, <1>3 DEF InHand, Typed
    <3>2. HasOwn(w)' <=> HasOwn(w)
      BY <1>3 DEF HasOwn
    <3>3. /\ tpc[w] # "none" /\ rec[Created(w)].state # "none"
          /\ rec[Created(w)].ref =
               user[w] + (IF InHand(w) THEN 1 ELSE 0) + (IF HasOwn(w) THEN 1 ELSE 0)
          /\ rec[Created(w)].state = IF rec[Created(w)].ref = 0 THEN "freed" ELSE "live"
      BY <1>4, CountedBefore
    <3>4. tpc'[w] # "none" /\ user'[w] = user[w] - 1
      BY <1>1, <1>2, <1>3, <3>3 DEF Typed
    <3>5. rec[Created(w)].ref =
            user'[w] + (IF InHand(w)' THEN 1 ELSE 0) + (IF HasOwn(w)' THEN 1 ELSE 0)
      BY <1>1, <3>1, <3>2, <3>3, <3>4
    <3> QED BY <1>3, <1>4, <3>3, <3>4, <3>5, CountedStructure
  <2> QED BY <2>1, <2>2 DEF StructurePart
<1>10. TargetPart'
  <2>1. ASSUME NEW u \in AllThreads, u # t PROVE TargetOf(u)'
    <3>1. TargetKept(u)
      BY <1>1, <1>3, <2>1 DEF TargetKept, Typed
    <3> QED BY <3>1, TargetFrame
  <2>2. TargetOf(t)'
    BY <1>3, <1>4 DEF TargetOf, Typed
  <2> QED BY <2>1, <2>2 DEF TargetPart
<1>11. OwnPart'
  BY <1>1, <1>3 DEF OwnPart, HasOwn, Alive, Typed
<1>12. CodePart'
  BY <1>1, <1>3 DEF CodePart, Typed
<1>13. AdoptPart' /\ ForeignPart'
  BY <1>3 DEF AdoptPart, ForeignPart
<1> QED BY <1>5, <1>6, <1>7, <1>8, <1>9, <1>10, <1>11, <1>12, <1>13

LEMMA JoinReturnStep ==
  ASSUME IInv, NEW t \in AllThreads, JoinReturn(t)
  PROVE  IInv'
<1> USE RecordFacts DEF IInv
<1>1. PICK w : w = target[t]
  OBVIOUS
<1>2. /\ tpc[t] = "joining" /\ w \in Workers /\ w \in AllThreads /\ tpc[w] = "dead" /\ w # t
      /\ user[w] \in Nat /\ \A u \in AllThreads : u # t => target[u] # w
  BY <1>1 DEF JoinReturn, Typed, FlowPart
<1>3. rec[Created(w)].ours # FALSE
  BY <1>1, <1>2 DEF TargetPart, TargetOf
<1>4. PICK c \in Nat : c = rec[Created(w)].ret /\ c = code[w]
  BY <1>2 DEF CodePart, Typed
<1>5. /\ joined' = [joined EXCEPT ![w] = c] /\ user' = [user EXCEPT ![w] = user[w] + 1]
      /\ target' = [target EXCEPT ![t] = None] /\ tpc' = [tpc EXCEPT ![t] = "run"]
      /\ UNCHANGED <<rec, newSpin, key, keys, tls, job, tk, code, down, lost>>
  BY <1>1, <1>4 DEF JoinReturn, Move
<1>6. Typed'
  BY <1>2, <1>5 DEF Typed, Phases
<1>7. KeyPart'
  <2>1. \A u \in AllThreads : u # t => KeepsKeys(u)
    BY <1>5 DEF KeepsKeys, Typed
  <2>2. KeyAt(t)
    BY DEF KeyPart
  <2>3. KeepsKeys(t)
    BY <1>2, <1>5, <2>2 DEF KeepsKeys, KeyAt, Typed
  <2> QED BY <1>5, <2>1, <2>3, KeyFrame
<1>8. FlowPart'
  BY <1>2, <1>5 DEF Typed, FlowPart, Searching, Creating
<1>9. SlotPart'
  BY <1>5 DEF SlotPart
<1>10. StructurePart'
  <2>1. ASSUME NEW v \in Workers, v # w PROVE StructureOf(v)'
    <3>1. Aside(v)
      BY <1>1, <1>2, <1>5, <2>1 DEF Aside, Typed
    <3> QED BY <3>1, OtherStructure
  <2>2. StructureOf(w)'
    <3>1. InHand(w) /\ ~InHand(w)'
      BY <1>1, <1>2, <1>5 DEF InHand, Typed
    <3>2. HasOwn(w)' <=> HasOwn(w)
      BY <1>5 DEF HasOwn
    <3>3. /\ tpc[w] # "none" /\ rec[Created(w)].state # "none"
          /\ rec[Created(w)].ref =
               user[w] + (IF InHand(w) THEN 1 ELSE 0) + (IF HasOwn(w) THEN 1 ELSE 0)
          /\ rec[Created(w)].state = IF rec[Created(w)].ref = 0 THEN "freed" ELSE "live"
      BY <1>2, <1>3, CountedBefore
    <3>4. tpc'[w] # "none" /\ user'[w] = user[w] + 1
      BY <1>2, <1>5 DEF Typed
    <3>5. rec[Created(w)].ref =
            user'[w] + (IF InHand(w)' THEN 1 ELSE 0) + (IF HasOwn(w)' THEN 1 ELSE 0)
      BY <1>2, <3>1, <3>2, <3>3, <3>4
    <3> QED BY <1>2, <1>3, <1>5, <3>3, <3>4, <3>5, CountedStructure
  <2> QED BY <2>1, <2>2 DEF StructurePart
<1>11. TargetPart'
  <2>1. ASSUME NEW u \in AllThreads PROVE TargetOf(u)'
    <3>1. TargetKept(u)
      BY <1>2, <1>5 DEF TargetKept, Typed
    <3> QED BY <3>1, TargetFrame
  <2> QED BY <2>1 DEF TargetPart
<1>12. OwnPart'
  BY <1>2, <1>5 DEF OwnPart, HasOwn, Alive, Typed
<1>13. CodePart'
  BY <1>2, <1>4, <1>5 DEF CodePart, Typed
<1>14. AdoptPart' /\ ForeignPart'
  BY <1>5 DEF AdoptPart, ForeignPart
<1> QED BY <1>6, <1>7, <1>8, <1>9, <1>10, <1>11, <1>12, <1>13, <1>14

------------------------------------------------------------------------------
(* Slots.                                                                   *)

(* One thread's slot changes, and the thread is done with the key.          *)
LEMMA SlotFrame ==
  ASSUME KeyPart, NEW t \in AllThreads, UNCHANGED <<key, keys, down>>, SlotsUseKey',
         tpc[t] # "casKey", tpc'[t] \in {"barrier", "run", "dying"}, job'[t] = "none",
         down = FALSE \/ tpc'[t] # "barrier",
         \A u \in AllThreads : u # t =>
           tpc'[u] = tpc[u] /\ job'[u] = job[u] /\ tk'[u] = tk[u] /\ tls'[u] = tls[u]
  PROVE  KeyPart'
<1>1. ASSUME NEW u \in AllThreads PROVE KeyAt(u)'
  <2>1. CASE u = t
    BY <2>1 DEF KeyAt
  <2>2. CASE u # t
    <3>1. Empty(u)' <=> Empty(u)
      BY <2>2 DEF Empty
    <3>2. KeyAt(u)
      BY DEF KeyPart
    <3> QED BY <2>2, <3>1, <3>2 DEF KeyAt
  <2> QED BY <2>1, <2>2
<1>2. \A u \in AllThreads : tpc'[u] = "casKey" <=> tpc[u] = "casKey"
  OBVIOUS
<1>3. \A u \in AllThreads : tpc[u] = "casKey" => tk'[u] = tk[u]
  OBVIOUS
<1>4. KeysDistinct'
  BY <1>2, <1>3 DEF KeyPart, KeysDistinct
<1>5. KeysKnown'
  BY <1>2, <1>3 DEF KeyPart, KeysKnown
<1>6. AfterShutdown'
  BY DEF KeyPart, AfterShutdown
<1> QED BY <1>1, <1>4, <1>5, <1>6 DEF KeyPart

LEMMA SlotSet ==
  ASSUME Typed, NEW t \in AllThreads, NEW k \in NativeKeys, NEW r \in Records \cup {None},
         tls' = [tls EXCEPT ![t][k] = r]
  PROVE  /\ tls' \in [AllThreads -> [NativeKeys -> Records \cup {None}]] /\ tls'[t][k] = r
         /\ \A j \in NativeKeys : j # k => tls'[t][j] = tls[t][j]
         /\ \A u \in AllThreads : u # t => tls'[u] = tls[u]
<1>1. PICK f : f = [tls[t] EXCEPT ![k] = r]
  OBVIOUS
<1>2. f \in [NativeKeys -> Records \cup {None}] /\ f[k] = r /\ \A j \in NativeKeys : j # k => f[j] = tls[t][j]
  BY <1>1 DEF Typed
<1>3. tls' = [tls EXCEPT ![t] = f]
  BY <1>1
<1> QED BY <1>2, <1>3 DEF Typed

(* Where the slot of a thread that uses the key is.                         *)
LEMMA UsedKey ==
  ASSUME IInv, NEW t \in AllThreads, tpc[t] = "useKey"
  PROVE  /\ tk[t] = key \/ (tk[t] = None /\ Empty(t))
         /\ tk[t] # None => tk[t] \in NativeKeys /\ tk[t] = key
         /\ GetLocal(t) = None => Empty(t)
         /\ down = FALSE
<1>1. KeyAt(t) /\ down = FALSE
  BY DEF IInv, KeyPart, AfterShutdown, Typed
<1>2. tk[t] = key \/ (tk[t] = None /\ Empty(t))
  BY <1>1 DEF KeyAt
<1>3. tk[t] # None => tk[t] \in NativeKeys /\ tk[t] = key
  BY <1>2 DEF IInv, Typed
<1>4. GetLocal(t) = None => Empty(t)
  BY <1>2, <1>3, RecordFacts DEF GetLocal, Empty, IInv, KeyPart, SlotsUseKey
<1> QED BY <1>1, <1>2, <1>3, <1>4

LEMMA ProxySetLocalStep ==
  ASSUME IInv, NEW w \in Workers, ProxySetLocal(w)
  PROVE  IInv'
<1> USE RecordFacts DEF IInv
<1>1. /\ tpc[w] = "useKey" /\ job[w] = "proxy" /\ w \in AllThreads
      /\ job' = [job EXCEPT ![w] = "none"] /\ tk' = [tk EXCEPT ![w] = None]
      /\ tpc' = [tpc EXCEPT ![w] = "barrier"]
      /\ UNCHANGED <<rec, newSpin, key, keys, target, code, user, joined, down>>
  BY DEF ProxySetLocal, KeyUsed, Move
<1>2. Empty(w) /\ down = FALSE /\ (tk[w] # None => tk[w] \in NativeKeys /\ tk[w] = key)
  BY <1>1, UsedKey DEF KeyPart, KeyAt
<1>3. \/ tk[w] = None /\ lost' = lost \cup {Created(w)} /\ tls' = tls
      \/ /\ tk[w] # None /\ lost' = lost \ {Created(w)}
         /\ tls' = [tls EXCEPT ![w][tk[w]] = Created(w)]
  BY DEF ProxySetLocal, SetLocal
<1>4. /\ \A u \in AllThreads : u # w => tls'[u] = tls[u]
      /\ \A r \in Records : r # Created(w) => (r \in lost' <=> r \in lost)
      /\ \/ Created(w) \in lost' /\ \A k \in NativeKeys : tls'[w][k] = None
         \/ /\ Created(w) \notin lost' /\ key \in NativeKeys /\ tls'[w][key] = Created(w)
            /\ \A k \in NativeKeys : k # key => tls'[w][k] = None
  BY <1>1, <1>2, <1>3 DEF Typed, Empty
<1>5. Typed'
  <2>1. tls' \in [AllThreads -> [NativeKeys -> Records \cup {None}]]
    BY <1>1, <1>2, <1>3, SlotSet DEF Typed
  <2>2. lost' \subseteq Records
    BY <1>1, <1>3 DEF Typed
  <2> QED BY <1>1, <2>1, <2>2 DEF Typed, Phases
<1>6. KeyPart'
  <2>1. SlotsUseKey'
    BY <1>1, <1>4 DEF KeyPart, SlotsUseKey
  <2> QED BY <1>1, <1>2, <1>4, <2>1, SlotFrame DEF Typed
<1>7. FlowPart'
  BY <1>1 DEF Typed, FlowPart, Searching, Creating
<1>8. SlotPart'
  BY <1>1, <1>4 DEF SlotPart
<1>9. HasOwn(w) /\ HasOwn(w)'
  BY <1>1, <1>4 DEF HasOwn
<1>10. StructurePart'
  <2>1. ASSUME NEW v \in Workers, v # w PROVE StructureOf(v)'
    <3>1. Aside(v)
      BY <1>1, <1>4, <2>1 DEF Aside, Typed
    <3> QED BY <3>1, OtherStructure
  <2>2. StructureOf(w)'
    <3>1. StructureOf(w)
      BY DEF StructurePart
    <3>2. (InHand(w)' <=> InHand(w)) /\ (Filling(w) => Filling(w)')
      BY <1>1 DEF InHand, Filling, Typed
    <3>3. tpc'[w] = "barrier"
      BY <1>1 DEF Typed
    <3> QED BY <1>1, <1>9, <3>1, <3>2, <3>3, SameStructure
  <2> QED BY <2>1, <2>2 DEF StructurePart
<1>11. TargetPart'
  <2>1. ASSUME NEW u \in AllThreads PROVE TargetOf(u)'
    <3>1. target[w] = None
      BY <1>1 DEF FlowPart, Creating
    <3>2. TargetKept(u)
      BY <1>1, <3>1 DEF TargetKept, Typed
    <3> QED BY <3>2, TargetFrame
  <2> QED BY <2>1 DEF TargetPart
<1>12. OwnPart'
  <2>1. \A v \in Workers : v # w => (HasOwn(v)' <=> HasOwn(v)) /\ (Alive(v)' <=> Alive(v))
    BY <1>1, <1>4 DEF HasOwn, Alive, Typed
  <2> QED BY <1>1, <1>4, <1>9, <2>1 DEF OwnPart, Typed
<1>13. CodePart'
  BY <1>1 DEF CodePart, Typed
<1>14. AdoptPart'
  BY <1>1, <1>2, <1>4 DEF AdoptPart, Empty, Typed
<1>15. ForeignPart'
  BY <1>1 DEF ForeignPart
<1> QED BY <1>5, <1>6, <1>7, <1>8, <1>10, <1>11, <1>12, <1>13, <1>14, <1>15

LEMMA CurrentFoundStep ==
  ASSUME IInv, NEW t \in AllThreads, CurrentFound(t)
  PROVE  IInv'
<1> USE RecordFacts DEF IInv
<1>1. PICK r : r = GetLocal(t)
  OBVIOUS
<1>2. /\ tpc[t] = "useKey" /\ job[t] = "get" /\ r # None /\ down = FALSE
      /\ job' = [job EXCEPT ![t] = "none"] /\ tk' = [tk EXCEPT ![t] = None]
      /\ UNCHANGED <<newSpin, key, keys, tls, target, user, joined, down, lost>>
  BY <1>1, UsedKey DEF CurrentFound, GotCurrent, KeyUsed
<1>3. r = Adopted(t) \/ (t \in Workers /\ r = Created(t))
  BY <1>1, <1>2, UsedKey DEF GetLocal, SlotPart
<1>4. \/ /\ rec' = [rec EXCEPT ![r].ret = code[t]] /\ code' = code /\ rec[r].ours # FALSE
         /\ tpc' = [tpc EXCEPT ![t] = "dying"]
      \/ /\ rec' = rec /\ code' = [code EXCEPT ![t] = 0]
         /\ tpc' = [tpc EXCEPT ![t] = "run"]
  <2>1. CASE Exiting(t, r)
    BY <1>1, <2>1 DEF CurrentFound, GotCurrent, KeyUsed, Move, Exiting
  <2>2. CASE ~Exiting(t, r)
    BY <1>1, <2>2 DEF CurrentFound, GotCurrent, KeyUsed, Move
  <2> QED BY <2>1, <2>2
<1>5. \/ /\ t \in Workers /\ rec[Created(t)].ours # FALSE /\ code' = code
         /\ rec' \in [Records -> Structures] /\ Others(Created(t))
         /\ rec'[Created(t)].ret = code[t]
         /\ rec'[Created(t)].state = rec[Created(t)].state
         /\ rec'[Created(t)].ours = rec[Created(t)].ours
         /\ rec'[Created(t)].ref = rec[Created(t)].ref
         /\ tpc' = [tpc EXCEPT ![t] = "dying"]
      \/ /\ rec' = rec /\ code' = [code EXCEPT ![t] = 0] /\ tpc' = [tpc EXCEPT ![t] = "run"]
  <2>1. ASSUME rec' = [rec EXCEPT ![r].ret = code[t]], rec[r].ours # FALSE
        PROVE  /\ t \in Workers /\ rec[Created(t)].ours # FALSE
               /\ rec' \in [Records -> Structures] /\ Others(Created(t))
               /\ rec'[Created(t)].ret = code[t]
               /\ rec'[Created(t)].state = rec[Created(t)].state
               /\ rec'[Created(t)].ours = rec[Created(t)].ours
               /\ rec'[Created(t)].ref = rec[Created(t)].ref
    <3>1. t \in Workers /\ r = Created(t)
      BY <1>3, <2>1 DEF AdoptPart
    <3>2. PICK n \in Nat : n = code[t]
      BY DEF Typed
    <3> QED BY <2>1, <3>1, <3>2, RetSet
  <2> QED BY <1>4, <2>1
<1>6. /\ \A u \in AllThreads : rec'[Adopted(u)] = rec[Adopted(u)]
      /\ \A u \in AllThreads : u # t => rec'[Created(u)] = rec[Created(u)]
      /\ rec' \in [Records -> Structures]
  BY <1>5, OthersCreated DEF Typed
<1>7. \/ tpc' = [tpc EXCEPT ![t] = "dying"] /\ code' = code
      \/ tpc' = [tpc EXCEPT ![t] = "run"] /\ code' = [code EXCEPT ![t] = 0]
  BY <1>4
<1>8. Typed'
  <2>1. tpc' \in [AllThreads -> Phases]
    BY <1>7 DEF Typed, Phases
  <2>2. code' \in [AllThreads -> Nat]
    BY <1>7 DEF Typed
  <2> QED BY <1>2, <1>6, <2>1, <2>2 DEF Typed
<1>9. KeyPart'
  <2>1. SlotsUseKey'
    BY <1>2 DEF KeyPart, SlotsUseKey
  <2>2. tpc'[t] \in {"run", "dying"} /\ \A u \in AllThreads : u # t => tpc'[u] = tpc[u]
    BY <1>7 DEF Typed
  <2> QED BY <1>2, <2>1, <2>2, SlotFrame DEF Typed
<1>10. FlowPart'
  BY <1>2, <1>7 DEF Typed, FlowPart, Searching, Creating
<1>11. SlotPart'
  BY <1>2 DEF SlotPart
<1>12. \A u \in AllThreads : u # t => tpc'[u] = tpc[u]
  BY <1>7 DEF Typed
<1>13. tpc'[t] \in {"run", "dying"} /\ target[t] = None
  BY <1>2, <1>7 DEF Typed, FlowPart, Creating
<1>14. StructurePart'
  <2>1. ASSUME NEW v \in Workers, v # t \/ rec' = rec PROVE StructureOf(v)'
    <3>1. Aside(v)
      BY <1>2, <1>6, <1>12, <1>13, <2>1 DEF Aside, Typed
    <3> QED BY <3>1, OtherStructure
  <2>2. ASSUME t \in Workers, rec' # rec PROVE StructureOf(t)'
    <3>1. /\ rec[Created(t)].ours # FALSE
          /\ rec'[Created(t)].state = rec[Created(t)].state
          /\ rec'[Created(t)].ours = rec[Created(t)].ours
          /\ rec'[Created(t)].ref = rec[Created(t)].ref
      BY <1>5, <2>2
    <3>2. /\ InHand(t)' <=> InHand(t)
          /\ HasOwn(t)' <=> HasOwn(t)
      BY <1>2, <1>12, <1>13 DEF InHand, HasOwn, Typed
    <3>3. /\ rec[Created(t)].state # "none"
          /\ rec[Created(t)].ref =
               user[t] + (IF InHand(t) THEN 1 ELSE 0) + (IF HasOwn(t) THEN 1 ELSE 0)
          /\ rec[Created(t)].state = IF rec[Created(t)].ref = 0 THEN "freed" ELSE "live"
      BY <2>2, <3>1, CountedBefore
    <3>4. rec'[Created(t)].ref =
            user'[t] + (IF InHand(t)' THEN 1 ELSE 0) + (IF HasOwn(t)' THEN 1 ELSE 0)
      BY <1>2, <3>1, <3>2, <3>3
    <3>5. rec'[Created(t)].state = IF rec'[Created(t)].ref = 0 THEN "freed" ELSE "live"
      BY <3>1, <3>3
    <3>6. rec'[Created(t)].ours # FALSE /\ tpc'[t] # "none" /\ rec'[Created(t)].state # "none"
      BY <1>13, <3>1, <3>3
    <3> QED BY <2>2, <3>4, <3>5, <3>6, CountedStructure
  <2> QED BY <2>1, <2>2 DEF StructurePart
<1>15. TargetPart'
  <2>1. ASSUME NEW u \in AllThreads PROVE TargetOf(u)'
    <3>1. /\ rec'[Created(t)].state = rec[Created(t)].state
          /\ rec'[Created(t)].ours = rec[Created(t)].ours
      BY <1>5
    <3>2. target[u] # None => target[u] \in AllThreads
      BY DEF Typed
    <3>3. TargetKept(u)
      BY <1>2, <1>6, <1>12, <1>13, <3>1, <3>2 DEF TargetKept
    <3> QED BY <3>3, TargetFrame
  <2> QED BY <2>1 DEF TargetPart
<1>16. OwnPart'
  <2>1. \A v \in Workers : (HasOwn(v)' <=> HasOwn(v)) /\ (Alive(v)' => Alive(v))
    BY <1>2, <1>12 DEF HasOwn, Alive, Typed
  <2> QED BY <1>2, <2>1 DEF OwnPart, Typed
<1>17. CodePart'
  <2>1. t \in Workers => rec[Created(t)].ret = 0 /\ joined[t] = -1
    BY <1>2 DEF CodePart
  <2>2. ASSUME NEW v \in Workers, v # t
        PROVE  rec'[Created(v)].ret = rec[Created(v)].ret /\ code'[v] = code[v]
    BY <1>5, <1>6, <2>2 DEF Typed
  <2>3. \/ tpc'[t] = "dying" /\ code'[t] = code[t] /\ rec'[Created(t)].ret = code[t]
        \/ tpc'[t] = "run" /\ code'[t] = 0 /\ rec'[Created(t)].ret = rec[Created(t)].ret
    <3>1. CASE rec' = rec /\ code' = [code EXCEPT ![t] = 0] /\ tpc' = [tpc EXCEPT ![t] = "run"]
      BY <3>1 DEF Typed
    <3>2. CASE /\ rec'[Created(t)].ret = code[t] /\ code' = code
               /\ tpc' = [tpc EXCEPT ![t] = "dying"]
      BY <3>2 DEF Typed
    <3> QED BY <1>5, <3>1, <3>2
  <2> QED BY <1>2, <1>12, <2>1, <2>2, <2>3 DEF CodePart
<1>18. AdoptPart'
  BY <1>2, <1>6 DEF AdoptPart, Typed
<1>19. ForeignPart'
  BY <1>5, <1>6 DEF ForeignPart
<1> QED BY <1>8, <1>9, <1>10, <1>11, <1>14, <1>15, <1>16, <1>17, <1>18, <1>19

LEMMA CurrentAdoptsStep ==
  ASSUME IInv, NEW t \in AllThreads, CurrentAdopts(t)
  PROVE  IInv'
<1> USE RecordFacts DEF IInv
<1>1. /\ tpc[t] = "useKey" /\ job[t] = "get" /\ GetLocal(t) = None
      /\ job' = [job EXCEPT ![t] = "set"] /\ tpc' = [tpc EXCEPT ![t] = "readKey"]
      /\ UNCHANGED <<newSpin, key, keys, tls, tk, target, code, user, joined, down, lost>>
  BY DEF CurrentAdopts, NeedKey, Move
<1>2. Empty(t) /\ down = FALSE
  BY <1>1, UsedKey
<1>3. /\ rec' \in [Records -> Structures] /\ Others(Adopted(t))
      /\ rec'[Adopted(t)].state = "live" /\ rec'[Adopted(t)].ours = FALSE
      /\ rec'[Adopted(t)].ref = 1
  <2>1. PICK new : /\ rec' = [rec EXCEPT ![Adopted(t)] = new]
                   /\ new = [NoRecord EXCEPT !.state = "live", !.ref = 1]
    BY DEF CurrentAdopts
  <2> QED BY <2>1, RecNew
<1>4. /\ \A u \in AllThreads : rec'[Created(u)] = rec[Created(u)]
      /\ \A u \in AllThreads : u # t => rec'[Adopted(u)] = rec[Adopted(u)]
  BY <1>3, OthersAdopted
<1>5. Typed'
  BY <1>1, <1>3 DEF Typed, Phases
<1>6. KeyPart'
  <2>1. \A u \in AllThreads : u # t => KeepsKeys(u)
    BY <1>1 DEF KeepsKeys, Typed
  <2>2. KeepsKeys(t)
    BY <1>1, <1>2 DEF KeepsKeys, Typed
  <2> QED BY <1>1, <2>1, <2>2, KeyFrame
<1>7. FlowPart'
  BY <1>1 DEF Typed, FlowPart, Searching, Creating
<1>8. SlotPart'
  BY <1>1 DEF SlotPart
<1>9. target[t] = None
  BY <1>1 DEF FlowPart, Creating
<1>10. StructurePart'
  <2>1. ASSUME NEW v \in Workers PROVE StructureOf(v)'
    <3>1. Aside(v)
      BY <1>1, <1>4, <1>9 DEF Aside, Typed
    <3> QED BY <3>1, OtherStructure
  <2> QED BY <2>1 DEF StructurePart
<1>11. TargetPart'
  <2>1. ASSUME NEW u \in AllThreads PROVE TargetOf(u)'
    <3>1. target[u] # None => target[u] \in AllThreads
      BY DEF Typed
    <3>2. TargetKept(u)
      BY <1>1, <1>4, <1>9, <3>1 DEF TargetKept, Typed
    <3> QED BY <3>2, TargetFrame
  <2> QED BY <2>1 DEF TargetPart
<1>12. OwnPart'
  <2>1. \A v \in Workers : (HasOwn(v)' <=> HasOwn(v)) /\ (Alive(v)' => Alive(v))
    BY <1>1 DEF HasOwn, Alive, Typed
  <2> QED BY <1>1, <2>1 DEF OwnPart, Typed
<1>13. CodePart'
  BY <1>1, <1>4 DEF CodePart, Typed
<1>14. AdoptPart'
  BY <1>1, <1>3, <1>4 DEF AdoptPart, Typed
<1>15. ForeignPart'
  BY <1>4 DEF ForeignPart
<1> QED BY <1>5, <1>6, <1>7, <1>8, <1>10, <1>11, <1>12, <1>13, <1>14, <1>15

LEMMA CurrentSetLocalStep ==
  ASSUME IInv, NEW t \in AllThreads, CurrentSetLocal(t)
  PROVE  IInv'
<1> USE RecordFacts DEF IInv
<1>1. rec[Adopted(t)].ours = FALSE
  BY DEF AdoptPart
<1>2. ~Exiting(t, Adopted(t))
  BY <1>1 DEF Exiting
<1>3. /\ tpc[t] = "useKey" /\ job[t] = "set"
      /\ job' = [job EXCEPT ![t] = "none"] /\ tk' = [tk EXCEPT ![t] = None]
      /\ tpc' = [tpc EXCEPT ![t] = "run"] /\ code' = [code EXCEPT ![t] = 0]
      /\ UNCHANGED <<rec, newSpin, key, keys, target, user, joined, down>>
  BY <1>2 DEF CurrentSetLocal, GotCurrent, KeyUsed, Move
<1>4. Empty(t) /\ down = FALSE /\ (tk[t] # None => tk[t] \in NativeKeys /\ tk[t] = key)
  BY <1>3, UsedKey DEF KeyPart, KeyAt
<1>5. \/ tk[t] = None /\ lost' = lost \cup {Adopted(t)} /\ tls' = tls
      \/ /\ tk[t] # None /\ lost' = lost \ {Adopted(t)}
         /\ tls' = [tls EXCEPT ![t][tk[t]] = Adopted(t)]
  BY DEF CurrentSetLocal, SetLocal
<1>6. /\ \A u \in AllThreads : u # t => tls'[u] = tls[u]
      /\ \A r \in Records : r # Adopted(t) => (r \in lost' <=> r \in lost)
      /\ \/ Adopted(t) \in lost' /\ \A k \in NativeKeys : tls'[t][k] = None
         \/ /\ Adopted(t) \notin lost' /\ key \in NativeKeys /\ tls'[t][key] = Adopted(t)
            /\ \A k \in NativeKeys : k # key => tls'[t][k] = None
  BY <1>3, <1>4, <1>5 DEF Typed, Empty
<1>7. Typed'
  <2>1. tls' \in [AllThreads -> [NativeKeys -> Records \cup {None}]]
    BY <1>4, <1>5, SlotSet DEF Typed
  <2>2. lost' \subseteq Records
    BY <1>5 DEF Typed
  <2> QED BY <1>3, <2>1, <2>2 DEF Typed, Phases
<1>8. KeyPart'
  <2>1. SlotsUseKey'
    BY <1>3, <1>6 DEF KeyPart, SlotsUseKey
  <2> QED BY <1>3, <1>4, <1>6, <2>1, SlotFrame DEF Typed
<1>9. FlowPart'
  BY <1>3 DEF Typed, FlowPart, Searching, Creating
<1>10. SlotPart'
  BY <1>6 DEF SlotPart
<1>11. target[t] = None
  BY <1>3 DEF FlowPart, Creating
<1>12. \A v \in Workers : HasOwn(v)' <=> HasOwn(v)
  <2>1. \A v \in Workers : v # t => (HasOwn(v)' <=> HasOwn(v))
    BY <1>3, <1>6 DEF HasOwn, Typed
  <2>2. t \in Workers => (HasOwn(t)' <=> HasOwn(t))
    BY <1>3, <1>4, <1>6 DEF HasOwn, Empty, Typed
  <2> QED BY <2>1, <2>2
<1>13. StructurePart'
  <2>1. ASSUME NEW v \in Workers PROVE StructureOf(v)'
    <3>1. StructureOf(v)
      BY DEF StructurePart
    <3>2. (InHand(v)' <=> InHand(v)) /\ (Filling(v) => Filling(v)')
      BY <1>3, <1>11 DEF InHand, Filling, Typed
    <3>3. /\ tpc'[v] = "none" <=> tpc[v] = "none"
          /\ Created(v) \in lost' => Created(v) \in lost
          /\ job[v] = "proxy" => job'[v] = "proxy"
          /\ tpc[v] = "barrier" => tpc'[v] = "barrier"
      BY <1>3, <1>6 DEF Typed
    <3>4. rec[Created(v)].ours # FALSE \/ tpc[v] = "none"
            \/ job'[v] = "proxy" \/ tpc'[v] = "barrier"
      BY <3>1, <3>3 DEF StructureOf
    <3> QED BY <1>3, <1>12, <3>1, <3>2, <3>3, <3>4, SameStructure
  <2> QED BY <2>1 DEF StructurePart
<1>14. TargetPart'
  <2>1. ASSUME NEW u \in AllThreads PROVE TargetOf(u)'
    <3>1. TargetKept(u)
      BY <1>3, <1>11 DEF TargetKept, Typed
    <3> QED BY <3>1, TargetFrame
  <2> QED BY <2>1 DEF TargetPart
<1>15. OwnPart'
  <2>1. \A v \in Workers : Alive(v)' => Alive(v)
    BY <1>3 DEF Alive, Typed
  <2>2. \A v \in Workers : \A k \in NativeKeys : tls'[v][k] = Created(v) => tls[v][k] = Created(v)
    BY <1>6
  <2>3. \A v \in Workers : Created(v) \in lost' => Created(v) \in lost
    BY <1>6
  <2> QED BY <1>3, <1>12, <2>1, <2>2, <2>3 DEF OwnPart, Typed
<1>16. CodePart'
  BY <1>3 DEF CodePart, Typed
<1>17. AdoptPart'
  <2>1. rec[Adopted(t)].state = "live" /\ rec[Adopted(t)].ref = 1
    BY <1>3 DEF AdoptPart
  <2> QED BY <1>3, <1>6, <2>1 DEF AdoptPart, Typed
<1>18. ForeignPart'
  BY <1>3 DEF ForeignPart
<1> QED BY <1>7, <1>8, <1>9, <1>10, <1>13, <1>14, <1>15, <1>16, <1>17, <1>18

(* A slot is emptied and its reference dropped: what that does to adopted   *)
(* structures and to the slots, whoever does it.                            *)
LEMMA SlotDropped ==
  ASSUME IInv, NEW t \in AllThreads, job[t] # "set", NEW k \in NativeKeys, tls[t][k] # None,
         tls' = [tls EXCEPT ![t][k] = None], rec' = Dropped(tls[t][k]),
         UNCHANGED <<job, lost>>
  PROVE  /\ k = key /\ Empty(t)' /\ \A u \in AllThreads : u # t => tls'[u] = tls[u]
         /\ tls' \in [AllThreads -> [NativeKeys -> Records \cup {None}]]
         /\ SlotPart' /\ (key' = key => SlotsUseKey')
         /\ tls[t][k] = Adopted(t) =>
              /\ rec' \in [Records -> Structures] /\ Others(Adopted(t)) /\ AdoptPart'
<1> USE RecordFacts DEF IInv
<1>1. /\ tls' \in [AllThreads -> [NativeKeys -> Records \cup {None}]] /\ tls'[t][k] = None
      /\ \A j \in NativeKeys : j # k => tls'[t][j] = tls[t][j]
      /\ \A u \in AllThreads : u # t => tls'[u] = tls[u]
  BY SlotSet
<1>2. k = key /\ \A j \in NativeKeys : j # k => tls[t][j] = None
  BY DEF KeyPart, SlotsUseKey
<1>3. Empty(t)'
  BY <1>1, <1>2 DEF Empty
<1>4. SlotPart'
  BY <1>1, <1>3 DEF SlotPart, Empty
<1>5. key' = key => SlotsUseKey'
  BY <1>1, <1>3 DEF KeyPart, SlotsUseKey, Empty
<1>6. ASSUME tls[t][k] = Adopted(t)
      PROVE  rec' \in [Records -> Structures] /\ Others(Adopted(t)) /\ AdoptPart'
  <2>1. rec[Adopted(t)].state = "live" /\ rec[Adopted(t)].ref = 1
    BY <1>6 DEF AdoptPart
  <2>2. /\ rec' \in [Records -> Structures] /\ Others(Adopted(t))
        /\ rec'[Adopted(t)].state = "freed" /\ rec'[Adopted(t)].ours = rec[Adopted(t)].ours
    BY <1>6, <2>1, RecDropped
  <2>3. \A u \in AllThreads : u # t => rec'[Adopted(u)] = rec[Adopted(u)]
    BY <2>2, OthersAdopted
  <2>4. AdoptPart'
    BY <1>1, <1>3, <2>2, <2>3 DEF AdoptPart, Empty
  <2> QED BY <2>2, <2>4
<1> QED BY <1>1, <1>2, <1>3, <1>4, <1>5, <1>6

LEMMA DestructorStep ==
  ASSUME IInv, NEW t \in AllThreads, Destructor(t)
  PROVE  IInv'
<1> USE RecordFacts DEF IInv
<1>1. PICK k \in keys : /\ tls[t][k] # None /\ rec' = Dropped(tls[t][k])
                        /\ tls' = [tls EXCEPT ![t][k] = None]
  BY DEF Destructor
<1>2. /\ tpc[t] = "dying" /\ k \in NativeKeys
      /\ UNCHANGED <<newSpin, key, keys, tpc, job, tk, target, code, user, joined, down, lost>>
  BY DEF Destructor, Typed
<1>3. job[t] = "none" /\ target[t] = None
  BY <1>2 DEF FlowPart, Searching, Creating
<1>4. /\ k = key /\ Empty(t)' /\ \A u \in AllThreads : u # t => tls'[u] = tls[u]
      /\ tls' \in [AllThreads -> [NativeKeys -> Records \cup {None}]] /\ SlotPart' /\ SlotsUseKey'
      /\ tls[t][k] = Adopted(t) =>
           rec' \in [Records -> Structures] /\ Others(Adopted(t)) /\ AdoptPart'
  <2>1. job[t] # "set" /\ UNCHANGED <<job, lost>> /\ key' = key /\ k \in NativeKeys
    BY <1>2, <1>3
  <2>2. /\ k = key /\ Empty(t)' /\ \A u \in AllThreads : u # t => tls'[u] = tls[u]
        /\ tls' \in [AllThreads -> [NativeKeys -> Records \cup {None}]]
        /\ SlotPart' /\ (key' = key => SlotsUseKey')
        /\ tls[t][k] = Adopted(t) =>
             /\ rec' \in [Records -> Structures] /\ Others(Adopted(t)) /\ AdoptPart'
    BY <1>1, <2>1, SlotDropped
  <2> QED BY <2>1, <2>2
<1>5. tls[t][k] = Adopted(t) \/ (t \in Workers /\ tls[t][k] = Created(t))
  BY <1>1, <1>2 DEF SlotPart
<1>6. KeyPart'
  BY <1>2, <1>3, <1>4, SlotFrame
<1>7. FlowPart'
  BY <1>2 DEF FlowPart
<1>8. CASE tls[t][k] = Adopted(t)
  <2>1. \A u \in AllThreads : rec'[Created(u)] = rec[Created(u)]
    BY <1>4, <1>8, OthersAdopted
  <2>2. \A v \in Workers : HasOwn(v)' <=> HasOwn(v)
    <3>1. \A v \in Workers : v # t => (HasOwn(v)' <=> HasOwn(v))
      BY <1>2, <1>4 DEF HasOwn
    <3>2. \A j \in NativeKeys : tls[t][j] # Created(t) /\ tls'[t][j] # Created(t)
      BY <1>4, <1>8 DEF Empty, KeyPart, SlotsUseKey
    <3>3. t \in Workers => (HasOwn(t)' <=> HasOwn(t))
      BY <1>2, <3>2 DEF HasOwn
    <3> QED BY <3>1, <3>3
  <2>3. Typed'
    BY <1>2, <1>4, <1>8 DEF Typed
  <2>4. StructurePart'
    <3>1. ASSUME NEW v \in Workers PROVE StructureOf(v)'
      <4>1. StructureOf(v)
        BY DEF StructurePart
      <4>2. (InHand(v)' <=> InHand(v)) /\ (Filling(v) => Filling(v)')
        BY <1>2 DEF InHand, Filling
      <4>3. rec[Created(v)].ours # FALSE \/ tpc[v] = "none"
              \/ job'[v] = "proxy" \/ tpc'[v] = "barrier"
        BY <1>2, <4>1 DEF StructureOf
      <4> QED BY <1>2, <2>1, <2>2, <4>1, <4>2, <4>3, SameStructure
    <3> QED BY <3>1 DEF StructurePart
  <2>5. TargetPart'
    <3>1. ASSUME NEW u \in AllThreads PROVE TargetOf(u)'
      <4>1. target[u] # None => target[u] \in AllThreads
        BY DEF Typed
      <4>2. TargetKept(u)
        BY <1>2, <2>1, <4>1 DEF TargetKept
      <4> QED BY <4>2, TargetFrame
    <3> QED BY <3>1 DEF TargetPart
  <2>6. OwnPart'
    <3>1. \A v \in Workers : \A j \in NativeKeys : tls'[v][j] = Created(v) => tls[v][j] = Created(v)
      BY <1>4 DEF Empty
    <3> QED BY <1>2, <2>2, <3>1 DEF OwnPart, Alive
  <2>7. CodePart' /\ ForeignPart'
    BY <1>2, <2>1 DEF CodePart, ForeignPart
  <2> QED BY <1>4, <1>6, <1>7, <1>8, <2>3, <2>4, <2>5, <2>6, <2>7
<1>9. CASE t \in Workers /\ tls[t][k] = Created(t)
  <2>1. HasOwn(t) /\ Created(t) \notin lost
    BY <1>2, <1>9 DEF HasOwn, OwnPart
  <2>2. ~HasOwn(t)'
    BY <1>2, <1>3, <1>4, <2>1 DEF HasOwn, Empty
  <2>3. StructureOf(t)
    BY <1>9 DEF StructurePart
  <2>4. rec[Created(t)].ours # FALSE
    BY <1>2, <1>3, <2>3 DEF StructureOf
  <2>5. /\ rec[Created(t)].state # "none"
        /\ rec[Created(t)].ref = user[t] + (IF InHand(t) THEN 1 ELSE 0) + 1
        /\ rec[Created(t)].state = IF rec[Created(t)].ref = 0 THEN "freed" ELSE "live"
    BY <1>9, <2>1, <2>4, CountedBefore
  <2>6. PICK held \in Nat : held = user[t] + (IF InHand(t) THEN 1 ELSE 0)
    <3>1. user[t] \in Nat /\ (IF InHand(t) THEN 1 ELSE 0) \in Nat
      BY <1>9 DEF Typed
    <3> QED BY <3>1
  <2>7. /\ rec[Created(t)].ref = held + 1 /\ rec[Created(t)].ref # 0
        /\ rec[Created(t)].state = "live"
    BY <2>5, <2>6
  <2>8. /\ rec' \in [Records -> Structures] /\ Others(Created(t))
        /\ rec'[Created(t)].ref = rec[Created(t)].ref - 1
        /\ rec'[Created(t)].state = IF rec[Created(t)].ref = 1 THEN "freed" ELSE "live"
        /\ rec'[Created(t)].ours = rec[Created(t)].ours
        /\ rec'[Created(t)].ret = rec[Created(t)].ret
    BY <1>1, <1>9, <2>7, RecDropped
  <2>9. /\ \A u \in AllThreads : rec'[Adopted(u)] = rec[Adopted(u)]
        /\ \A u \in AllThreads : u # t => rec'[Created(u)] = rec[Created(u)]
    BY <2>8, OthersCreated
  <2>10. Typed'
    BY <1>2, <1>4, <2>8 DEF Typed
  <2>11. StructurePart'
    <3>1. ASSUME NEW v \in Workers, v # t PROVE StructureOf(v)'
      <4>1. Aside(v)
        BY <1>2, <1>4, <2>9, <3>1 DEF Aside
      <4> QED BY <4>1, OtherStructure
    <3>2. StructureOf(t)'
      <4>1. InHand(t)' <=> InHand(t)
        BY <1>2 DEF InHand
      <4>2. held + 1 - 1 = held /\ (held + 1 = 1 <=> held = 0)
        BY <2>6
      <4>3. rec'[Created(t)].ref = held
        BY <2>7, <2>8, <4>2
      <4>4. rec'[Created(t)].ref =
              user'[t] + (IF InHand(t)' THEN 1 ELSE 0) + (IF HasOwn(t)' THEN 1 ELSE 0)
        BY <1>2, <1>9, <2>2, <2>6, <4>1, <4>3 DEF Typed
      <4>5. rec'[Created(t)].state = IF rec'[Created(t)].ref = 0 THEN "freed" ELSE "live"
        BY <2>7, <2>8, <4>2, <4>3
      <4>6. /\ rec'[Created(t)].ours # FALSE /\ tpc'[t] # "none"
            /\ rec'[Created(t)].state # "none"
        BY <1>2, <2>4, <2>8
      <4> QED BY <1>9, <4>4, <4>5, <4>6, CountedStructure
    <3> QED BY <3>1, <3>2 DEF StructurePart
  <2>12. TargetPart'
    <3>1. ASSUME NEW u \in AllThreads PROVE TargetOf(u)'
      <4>1. CASE target[u] # t
        <5>1. target[u] # None => target[u] \in AllThreads
          BY DEF Typed
        <5>2. TargetKept(u)
          BY <1>2, <2>9, <4>1, <5>1 DEF TargetKept
        <5> QED BY <5>2, TargetFrame
      <4>2. CASE target[u] = t
        <5>1. TargetOf(u)
          BY DEF TargetPart
        <5>2. tpc[u] \notin {"spawn", "fill"}
          BY <2>4, <2>5, <4>2, <5>1 DEF TargetOf
        <5> QED BY <1>2, <2>4, <2>8, <4>2, <5>1, <5>2 DEF TargetOf
      <4> QED BY <4>1, <4>2
    <3> QED BY <3>1 DEF TargetPart
  <2>13. OwnPart'
    <3>1. \A v \in Workers : v # t => (HasOwn(v)' <=> HasOwn(v))
      BY <1>2, <1>4 DEF HasOwn
    <3>2. \A v \in Workers : \A j \in NativeKeys : tls'[v][j] = Created(v) => tls[v][j] = Created(v)
      BY <1>4 DEF Empty
    <3> QED BY <1>2, <3>1, <3>2 DEF OwnPart, Alive
  <2>14. CodePart'
    <3>1. \A v \in Workers : rec'[Created(v)].ret = rec[Created(v)].ret
      BY <2>8, <2>9
    <3> QED BY <1>2, <3>1 DEF CodePart
  <2>15. AdoptPart'
    <3>1. \A j \in NativeKeys : tls[t][j] # Adopted(t) /\ tls'[t][j] # Adopted(t)
      BY <1>4, <1>9 DEF Empty, KeyPart, SlotsUseKey
    <3> QED BY <1>2, <1>4, <2>9, <3>1 DEF AdoptPart
  <2>16. ForeignPart'
    BY <1>9, <2>9 DEF ForeignPart
  <2> QED BY <1>4, <1>6, <1>7, <2>10, <2>11, <2>12, <2>13, <2>14, <2>15, <2>16
<1> QED BY <1>5, <1>8, <1>9

LEMMA ShutdownStep ==
  ASSUME IInv, NEW t \in AllThreads, Shutdown(t)
  PROVE  IInv'
<1> USE RecordFacts DEF IInv
<1>1. /\ tpc[t] = "run" /\ t \in Foreign /\ down = FALSE /\ key' = None /\ down' # FALSE
      /\ down' \in BOOLEAN /\ \A u \in AllThreads : u # t => tpc[u] \in {"none", "dead"}
      /\ UNCHANGED <<newSpin, tpc, job, tk, target, code, user, joined, lost>>
  BY DEF Shutdown, ShutdownReady, Typed
<1>2. \A u \in AllThreads : job[u] = "none"
  BY <1>1 DEF FlowPart, Searching
<1>3. \A u \in AllThreads : u # t => Empty(u)
  BY <1>1 DEF KeyPart, KeyAt
<1>4. \A j \in NativeKeys : tls[t][j] # None => tls[t][j] = Adopted(t)
  BY <1>1 DEF SlotPart
<1>5. /\ keys' \subseteq NativeKeys /\ tls' \in [AllThreads -> [NativeKeys -> Records \cup {None}]]
      /\ Empty(t)' /\ \A u \in AllThreads : u # t => tls'[u] = tls[u]
      /\ rec' \in [Records -> Structures] /\ AdoptPart'
      /\ \A u \in AllThreads : rec'[Created(u)] = rec[Created(u)]
  <2>1. CASE key = None
    <3>1. rec' = rec /\ tls' = tls /\ keys' \subseteq NativeKeys
      BY <2>1 DEF Shutdown, Typed
    <3>2. Empty(t)'
      BY <2>1, <3>1 DEF Empty, KeyPart, SlotsUseKey
    <3> QED BY <1>1, <3>1, <3>2 DEF Typed, AdoptPart
  <2>2. CASE key # None /\ tls[t][key] # None
    <3>1. /\ key \in NativeKeys /\ rec' = Dropped(tls[t][key])
          /\ tls' = [tls EXCEPT ![t][key] = None] /\ keys' = keys
      BY <2>2 DEF Shutdown, Typed
    <3>2. PICK k : k = key
      OBVIOUS
    <3>3. tls[t][k] = Adopted(t) /\ job[t] # "set" /\ UNCHANGED <<job, lost>>
      BY <1>1, <1>2, <1>4, <2>2, <3>1, <3>2
    <3>4. /\ Empty(t)' /\ \A u \in AllThreads : u # t => tls'[u] = tls[u]
          /\ tls' \in [AllThreads -> [NativeKeys -> Records \cup {None}]]
          /\ rec' \in [Records -> Structures] /\ Others(Adopted(t)) /\ AdoptPart'
      BY <2>2, <3>1, <3>2, <3>3, SlotDropped
    <3>5. \A u \in AllThreads : rec'[Created(u)] = rec[Created(u)]
      BY <3>4, OthersAdopted
    <3> QED BY <3>1, <3>4, <3>5 DEF Typed
  <2>3. CASE key # None /\ tls[t][key] = None
    <3>1. key \in NativeKeys /\ rec' = rec /\ keys' = keys /\ tls' = [tls EXCEPT ![t][key] = None]
      BY <2>3 DEF Shutdown, Typed
    <3>2. /\ tls' \in [AllThreads -> [NativeKeys -> Records \cup {None}]] /\ tls'[t][key] = None
          /\ \A j \in NativeKeys : j # key => tls'[t][j] = tls[t][j]
          /\ \A u \in AllThreads : u # t => tls'[u] = tls[u]
      BY <3>1, SlotSet
    <3>3. Empty(t) /\ Empty(t)'
      BY <2>3, <3>2 DEF Empty, KeyPart, SlotsUseKey
    <3>4. AdoptPart'
      BY <1>1, <1>2, <3>1, <3>2, <3>3 DEF AdoptPart, Empty
    <3> QED BY <3>1, <3>2, <3>3, <3>4 DEF Typed
  <2> QED BY <2>1, <2>2, <2>3
<1>6. \A u \in AllThreads : Empty(u)'
  BY <1>3, <1>5 DEF Empty
<1>7. Typed'
  BY <1>1, <1>5 DEF Typed
<1>8. KeyPart'
  <2>1. SlotsUseKey'
    BY <1>6 DEF SlotsUseKey, Empty
  <2>2. \A u \in AllThreads : KeyAt(u)'
    BY <1>1, <1>2, <1>6 DEF KeyAt
  <2>3. KeysDistinct' /\ KeysKnown' /\ AfterShutdown'
    BY <1>1 DEF KeysDistinct, KeysKnown, AfterShutdown
  <2> QED BY <2>1, <2>2, <2>3 DEF KeyPart
<1>9. FlowPart'
  BY <1>1 DEF FlowPart
<1>10. SlotPart'
  BY <1>6 DEF SlotPart, Empty
<1>11. \A v \in Workers : tls'[v] = tls[v]
  BY <1>1, <1>5
<1>12. StructurePart'
  <2>1. ASSUME NEW v \in Workers PROVE StructureOf(v)'
    <3>1. Aside(v)
      BY <1>1, <1>5, <1>11 DEF Aside
    <3> QED BY <3>1, OtherStructure
  <2> QED BY <2>1 DEF StructurePart
<1>13. TargetPart'
  <2>1. ASSUME NEW u \in AllThreads PROVE TargetOf(u)'
    <3>1. target[u] # None => target[u] \in AllThreads
      BY DEF Typed
    <3>2. TargetKept(u)
      BY <1>1, <1>5, <3>1 DEF TargetKept
    <3> QED BY <3>2, TargetFrame
  <2> QED BY <2>1 DEF TargetPart
<1>14. OwnPart'
  BY <1>1, <1>11 DEF OwnPart, HasOwn, Alive
<1>15. CodePart' /\ ForeignPart'
  BY <1>1, <1>5 DEF CodePart, ForeignPart
<1> QED BY <1>5, <1>7, <1>8, <1>9, <1>10, <1>12, <1>13, <1>14, <1>15

LEMMA StutterStep == IInv /\ UNCHANGED uthreadVars => IInv'
<1> SUFFICES ASSUME IInv, UNCHANGED uthreadVars PROVE IInv'
  OBVIOUS
<1> USE DEF IInv, uthreadVars
<1>1. Typed' /\ FlowPart' /\ SlotPart'
  BY DEF Typed, FlowPart, SlotPart
<1>2. KeyPart'
  BY KeyFrame DEF KeepsKeys
<1>3. StructurePart'
  BY QuietStructure
<1>4. TargetPart' /\ CodePart'
  BY DEF TargetPart, TargetOf, CodePart
<1>5. OwnPart' /\ AdoptPart' /\ ForeignPart'
  BY DEF OwnPart, HasOwn, Alive, AdoptPart, ForeignPart
<1> QED BY <1>1, <1>2, <1>3, <1>4, <1>5

LEMMA NextStep == IInv /\ [ThreadNext]_uthreadVars => IInv'
<1> SUFFICES ASSUME IInv, [ThreadNext]_uthreadVars PROVE IInv'
  OBVIOUS
<1>1. ASSUME NEW t \in AllThreads, ThreadStep(t) PROVE IInv'
  BY <1>1, SpawnStep, FillStep, CreateUnlockStep, ReadKeyStep, MakeKeyStep, CasKeyStep,
     CurrentFoundStep, CurrentAdoptsStep, CurrentSetLocalStep, DestructorStep, GoneStep,
     JoinReturnStep DEF ThreadStep
<1>2. ASSUME NEW t \in AllThreads,
             SpawnFails(t) \/ MakeKeyFails(t) \/ ReturnCode(t) \/ Shutdown(t)
      PROVE  IInv'
  BY <1>2, SpawnFailsStep, MakeKeyFailsStep, ReturnStep, ShutdownStep
<1>3. ASSUME NEW t \in AllThreads, NEW c \in Codes \cup {0}, Current(t, c) PROVE IInv'
  <2>1. c \in Nat
    BY UThreadAssumption
  <2> QED BY <1>3, <2>1, CurrentStep
<1>4. ASSUME NEW t \in AllThreads, NEW w \in Workers,
             CreateLock(t, w) \/ Ref(t, w) \/ Unref(t, w) \/ Join(t, w)
      PROVE  IInv'
  BY <1>4, CreateLockStep, RefSteps, JoinStep
<1>5. ASSUME NEW w \in Workers, WorkerStep(w) PROVE IInv'
  BY <1>5, ProxySetLocalStep, ProxyBarrierStep, RecordFacts DEF WorkerStep
<1>6. CASE UNCHANGED uthreadVars
  BY <1>6, StutterStep
<1> QED BY <1>1, <1>2, <1>3, <1>4, <1>5, <1>6 DEF ThreadNext, Ended

LEMMA Inductive == ThreadSpec => []IInv
BY InitIInv, NextStep, PTL DEF ThreadSpec

------------------------------------------------------------------------------
(* A structure that a running worker, a creator, a join or a slot refers to *)
(* is never freed, however creations, exits, joins and the application's    *)
(* references interleave.                                                   *)
THEOREM NeverFreedInUse == ThreadSpec => []NoUseAfterFree
<1>1. IInv => NoUseAfterFree
  <2> SUFFICES ASSUME IInv PROVE NoUseAfterFree
    OBVIOUS
  <2> USE RecordFacts DEF IInv
  <2>1. ASSUME NEW w \in Workers, HasOwn(w) \/ InHand(w), tpc[w] # "none"
        PROVE  rec[Created(w)].state = "live"
    <3>1. StructureOf(w) /\ user[w] \in Nat
      BY DEF StructurePart, Typed
    <3>2. CASE rec[Created(w)].ours = FALSE
      BY <2>1, <3>1, <3>2 DEF StructureOf
    <3>3. CASE rec[Created(w)].ours # FALSE
      <4>1. /\ rec[Created(w)].ref =
                 user[w] + (IF InHand(w) THEN 1 ELSE 0) + (IF HasOwn(w) THEN 1 ELSE 0)
            /\ rec[Created(w)].state = IF rec[Created(w)].ref = 0 THEN "freed" ELSE "live"
        BY <3>3, CountedBefore
      <4>2. rec[Created(w)].ref # 0
        BY <2>1, <3>1, <4>1
      <4> QED BY <4>1, <4>2
    <3> QED BY <3>2, <3>3
  <2>2. ASSUME NEW w \in Workers, Alive(w) PROVE rec[Created(w)].state = "live"
    BY <2>1, <2>2 DEF OwnPart, Alive
  <2>3. ASSUME NEW t \in AllThreads, tpc[t] \in {"fill", "unlock", "joining"}, target[t] # None
        PROVE  rec[Created(target[t])].state = "live"
    <3>1. TargetOf(t) /\ target[t] \in Workers /\ StructureOf(target[t])
      BY <2>3 DEF TargetPart, StructurePart, Typed
    <3>2. CASE tpc[t] = "fill"
      BY <2>3, <3>1, <3>2 DEF TargetOf, StructureOf
    <3>3. CASE tpc[t] \in {"unlock", "joining"}
      <4>1. InHand(target[t])
        BY <3>3 DEF InHand
      <4>2. rec[Created(target[t])].ours # FALSE
        BY <2>3, <3>1, <3>3 DEF TargetOf
      <4>3. tpc[target[t]] # "none"
        BY <3>1, <4>2, CountedBefore
      <4> QED BY <2>1, <3>1, <4>1, <4>3
    <3> QED BY <2>3, <3>2, <3>3
  <2>4. ASSUME NEW t \in AllThreads, NEW k \in keys, tls[t][k] # None
        PROVE  rec[tls[t][k]].state = "live"
    <3>1. k \in NativeKeys
      BY DEF Typed
    <3>2. CASE tls[t][k] = Adopted(t)
      BY <3>1, <3>2 DEF AdoptPart
    <3>3. CASE t \in Workers /\ tls[t][k] = Created(t)
      <4>1. HasOwn(t)
        BY <3>1, <3>3 DEF HasOwn
      <4>2. tpc[t] # "none"
        BY <2>4, <3>1 DEF KeyPart, KeyAt, Empty
      <4> QED BY <2>1, <3>3, <4>1, <4>2
    <3> QED BY <2>4, <3>1, <3>2, <3>3 DEF SlotPart
  <2> QED BY <2>2, <2>3, <2>4 DEF NoUseAfterFree
<1> QED BY <1>1, Inductive, PTL

(* No worker calls the user's function before its creator has completed the *)
(* structure it was started with.                                           *)
THEOREM NoEarlyStart == ThreadSpec => []StartsComplete
<1>1. IInv => StartsComplete
  <2> SUFFICES ASSUME IInv, NEW w \in Workers,
                      tpc[w] \in {"run", "dying"} \/ job[w] \in {"get", "set"}
               PROVE  rec[Created(w)].ours
    BY DEF StartsComplete
  <2>1. StructureOf(w) /\ w \in AllThreads
    BY RecordFacts DEF IInv, StructurePart
  <2>2. tpc[w] \notin {"none", "barrier"} /\ job[w] # "proxy"
    BY <2>1 DEF IInv, FlowPart, Searching
  <2>3. rec[Created(w)].ours # FALSE
    BY <2>1, <2>2 DEF StructureOf
  <2>4. rec[Created(w)].ours \in BOOLEAN
    BY <2>1, RecordFacts, Updates DEF IInv, Typed
  <2> QED BY <2>3, <2>4
<1> QED BY <1>1, Inductive, PTL

(* Nothing is left at the end but what could not be stored.                 *)
THEOREM EverythingFreed == ThreadSpec => []NothingLeaks
<1>1. IInv => NothingLeaks
  <2> SUFFICES ASSUME IInv,
                      \A t \in AllThreads : tpc[t] \in {"none", "dead"} \/ (down /\ tpc[t] = "run"),
                      \A w \in Workers : user[w] = 0,
                      NEW r \in Records, rec[r].state = "live"
               PROVE  r \in lost
    BY DEF NothingLeaks
  <2> USE RecordFacts DEF IInv
  <2>1. PICK t \in AllThreads : r = Created(t) \/ r = Adopted(t)
    OBVIOUS
  <2>2. tpc[t] \in {"none", "dead", "run"} /\ (tpc[t] = "run" => down # FALSE)
    OBVIOUS
  <2>3. job[t] = "none" /\ Empty(t)
    <3>1. job[t] = "none"
      BY <2>2 DEF FlowPart, Searching
    <3>2. tpc[t] # "run" => Empty(t)
      BY <2>2 DEF KeyPart, KeyAt
    <3>3. tpc[t] = "run" => Empty(t)
      BY <2>2 DEF KeyPart, AfterShutdown, SlotsUseKey, Empty
    <3> QED BY <3>1, <3>2, <3>3
  <2>4. CASE r = Adopted(t)
    BY <2>3, <2>4 DEF AdoptPart, Empty
  <2>5. CASE r = Created(t)
    <3>1. t \in Workers
      BY <2>5, NoRecordTyped DEF ForeignPart
    <3>2. StructureOf(t) /\ ~InHand(t) /\ ~Filling(t)
      BY <3>1 DEF StructurePart, InHand, Filling
    <3>3. rec[Created(t)].ours # FALSE
      BY <2>5, <3>2 DEF StructureOf
    <3>4. HasOwn(t)
      <4>1. /\ rec[Created(t)].ref =
                 user[t] + (IF InHand(t) THEN 1 ELSE 0) + (IF HasOwn(t) THEN 1 ELSE 0)
            /\ rec[Created(t)].state = IF rec[Created(t)].ref = 0 THEN "freed" ELSE "live"
        BY <3>1, <3>3, CountedBefore
      <4>2. rec[Created(t)].ref # 0
        BY <2>5, <4>1
      <4> QED BY <3>1, <3>2, <4>1, <4>2
    <3> QED BY <2>3, <2>5, <3>4 DEF HasOwn, Empty
  <2> QED BY <2>1, <2>4, <2>5
<1> QED BY <1>1, Inductive, PTL

(* However many threads race to make the thread-local key, one is used, and *)
(* every other one there is belongs to a thread that is about to delete it. *)
THEOREM OneKeyForAll == ThreadSpec => []OneTlsKey
<1>1. IInv => OneTlsKey
  <2> SUFFICES ASSUME IInv, ~down PROVE
        /\ \A t \in AllThreads : \A k \in NativeKeys : tls[t][k] # None => k = key
        /\ keys \ {key} = {tk[t] : t \in {u \in AllThreads : tpc[u] = "casKey"}}
    BY DEF OneTlsKey
  <2>1. down = FALSE
    BY DEF IInv, Typed
  <2>2. \A t \in AllThreads : \A k \in NativeKeys : tls[t][k] # None => k = key
    BY DEF IInv, KeyPart, SlotsUseKey
  <2>3. \A t \in AllThreads : tpc[t] = "casKey" => tk[t] \in keys \ {key}
    BY DEF IInv, KeyPart, KeyAt
  <2>4. \A k \in keys \ {key} : \E t \in AllThreads : tpc[t] = "casKey" /\ tk[t] = k
    BY <2>1 DEF IInv, KeyPart, KeysKnown
  <2> QED BY <2>2, <2>3, <2>4
<1> QED BY <1>1, Inductive, PTL

(* A join returns what the thread it waited for ended with.                 *)
THEOREM JoinReturnsCode == ThreadSpec => []JoinGetsCode
<1>1. IInv => JoinGetsCode
  BY DEF IInv, CodePart, JoinGetsCode
<1> QED BY <1>1, Inductive, PTL

=============================================================================
