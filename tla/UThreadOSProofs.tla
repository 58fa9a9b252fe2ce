--------------------------- MODULE UThreadOSProofs ---------------------------
(***************************************************************************)
(* Proofs about the threads of AmigaOS, BeOS, OS/2 and Windows, for every  *)
(* set of workers, every number of slots, identifiers and stored values.   *)
(***************************************************************************)
EXTENDS UThreadOS, TLAPS

------------------------------------------------------------------------------
(* The inductive invariant, by what it is about.                            *)

OSPhases == {"none", "run", "key", "lock", "make", "publish", "use", "clean", "unlist",
             "signal", "joinwait", "waiting", "ended"}

OSThreadType ==
  [pc : OSPhases, job : {"none", "get", "set", "replace"}, key : TlsKeys,
   tk : 0 .. MaxTlsKeys, cur : Nat, called : BOOLEAN, pass : Nat, joins : OSThreads]

Held == 0 .. Structure

OSTyped ==
  /\ osSys \in OSSystems
  /\ osRoom \in 1 .. MaxTlsKeys
  /\ osMutex \in OSThreads \cup {OSFree}
  /\ slotOf \in [TlsKeys -> 0 .. MaxTlsKeys]
  /\ dtors \in Seq(TlsKeys) /\ Len(dtors) <= osRoom
  /\ slots \in [OSThreads -> [Slots -> Nat]]
  /\ infoId \in [OSThreads -> Nat \cup {NoId}]
  /\ lastId \in Nat
  /\ osThr \in [OSThreads -> OSThreadType]
  /\ stores \in [OSThreads -> Nat]
  /\ dropped \in [OSThreads -> SUBSET Nat]
  /\ given \in [OSThreads -> [Held -> Nat]]

(* The mutex is held between the second look and the end of the search.     *)
Locked == \A t \in OSThreads : osThr[t].pc \in {"make", "publish"} => osMutex = t

Registered(n) == n \in 1 .. Len(dtors) /\ slotOf[dtors[n]] = n

(* A key has the slot its destructor is registered for, but for the last    *)
(* destructor registered, which a thread is about to publish.               *)
Publishing(t) ==
  /\ osThr[t].pc = "publish"
  /\ osThr[t].tk = Len(dtors) /\ osThr[t].tk # 0
  /\ dtors[osThr[t].tk] = osThr[t].key
  /\ slotOf[osThr[t].key] = NoSlot

SlotKnown(t) ==
  osThr[t].pc = "use" /\ osThr[t].tk # NoSlot =>
    Registered(osThr[t].tk) /\ dtors[osThr[t].tk] = osThr[t].key

KeyPart ==
  /\ Locked
  /\ \A k \in TlsKeys : slotOf[k] # NoSlot =>
       slotOf[k] \in 1 .. Len(dtors) /\ dtors[slotOf[k]] = k
  /\ \A n \in 1 .. Len(dtors) :
       Registered(n) \/ (n = Len(dtors) /\ \E t \in OSThreads : Publishing(t))
  /\ \A t \in OSThreads : osThr[t].pc = "publish" => Publishing(t)
  /\ \A t \in OSThreads : SlotKnown(t)
  /\ \A t \in OSThreads : \A n \in Slots : slots[t][n] # Null => Registered(n)

(* AmigaOS's list of threads, and who waits for whom.                       *)
ListPart ==
  /\ IdsUnique
  /\ \A w \in OSWorkers :
       osSys = "amiga" /\ osThr[w].pc \in {"none", "signal", "ended"} => infoId[w] = NoId
  /\ osThr[OSMain].pc = "joinwait" =>
       /\ osSys = "amiga" /\ osThr[OSMain].joins \in OSWorkers
       /\ osThr[osThr[OSMain].joins].pc # "ended"
  /\ \A w \in OSWorkers : osThr[w].pc \notin {"joinwait", "waiting"}
  /\ \A t \in OSThreads : osThr[t].pc \in {"unlist", "signal"} => t # OSMain /\ osSys = "amiga"

(* What became of the values a thread stored under the application's key.   *)
Empty(t) == \A n \in Slots : slots[t][n] = Null
InSlot(t, v) == \E n \in Slots : slots[t][n] = v

Accounts(t) ==
  /\ stores[t] <= MaxStores
  /\ \A n \in Slots : slots[t][n] # Null =>
       IF dtors[n] = "app" THEN slots[t][n] \in 1 .. stores[t] ELSE slots[t][n] = Structure
  /\ \A v \in 1 .. stores[t] :
       IF InSlot(t, v) THEN given[t][v] = 0 /\ v \notin dropped[t]
       ELSE given[t][v] = IF v \in dropped[t] THEN 0 ELSE 1
  /\ \A v \in Stores : v > stores[t] => given[t][v] = 0 /\ v \notin dropped[t]

ValuesOf(t) ==
  /\ Accounts(t)
  /\ osThr[t].pc \in {"none", "unlist", "signal", "ended"} => Empty(t)
  /\ osThr[t].pc \in {"key", "lock", "make", "publish", "use"} /\ osThr[t].key = "app"
       /\ osThr[t].job # "get" => stores[t] < MaxStores
  /\ osThr[t].pc = "run" => osThr[t].pass = 0
  /\ osSys = "amiga" => Empty(t) \/ infoId[t] # NoId

(* A pass over the destructors leaves behind it only what the destructors   *)
(* it called have stored.                                                   *)
PassOf(t) ==
  osThr[t].pc = "clean" =>
    IF osSys = "amiga"
      THEN /\ osThr[t].cur # 0
           /\ \A n \in Slots : n < osThr[t].cur /\ slots[t][n] # Null =>
                osThr[t].called # FALSE /\ dtors[n] = "app" /\ stores[t] > osThr[t].pass
           /\ t # OSMain => \A n \in Slots : n >= osThr[t].cur /\ slots[t][n] # Null /\ dtors[n] = "app" =>
                stores[t] >= osThr[t].pass
      ELSE /\ osThr[t].cur <= Len(dtors)
           /\ \A n \in Slots : n > osThr[t].cur /\ slots[t][n] # Null => osThr[t].called # FALSE

(* OS/2 does not give a destroy function its value, and AmigaOS makes no    *)
(* more than MaxCleans passes.                                              *)
EnoughPasses == osSys = "amiga" => MaxStores <= MaxCleans
Counted == osSys # "os2" /\ EnoughPasses

ValuePart == Counted => \A t \in OSThreads : ValuesOf(t) /\ PassOf(t)

IInv == OSTyped /\ KeyPart /\ ListPart /\ ValuePart

(* The shutdown finds no worker at work.                                    *)
ShutdownPart ==
  osThr[OSMain].pc = "clean" => \A w \in OSWorkers : osThr[w].pc \in {"none", "ended"}

------------------------------------------------------------------------------
(* AmigaOS's identifiers.                                                   *)

LEMMA NextIdFresh ==
  ASSUME OSTyped
  PROVE  /\ FindNextId \in Nat \cup {NoId}
         /\ FindNextId # NoId => \A t \in OSThreads : infoId[t] # FindNextId
<1>. DEFINE candidate(n) == (lastId + n) % (MaxId + 1)
            zeros(n) == Cardinality({m \in 1 .. n : candidate(m) = 0})
            taken(n) == \E t \in OSThreads : infoId[t] = candidate(n)
            ends == {n \in 1 .. 2 * (MaxId + 1) :
                       zeros(n) < 2 /\ ~taken(n) /\ \A m \in 1 .. n - 1 : taken(m)}
<1>1. FindNextId = IF ends = {} THEN NoId ELSE candidate(CHOOSE n \in ends : TRUE)
  BY DEF FindNextId
<1>2. MaxId \in Nat /\ lastId \in Nat
  BY UThreadOSAssumption DEF OSTyped
<1>3. \A n \in Nat : candidate(n) \in Nat
  BY <1>2
<1>4. ASSUME ends # {}
      PROVE  (CHOOSE n \in ends : TRUE) \in ends
  BY <1>4
<1>5. \A n \in ends : n \in Nat /\ ~taken(n)
  OBVIOUS
<1>. HIDE DEF candidate, zeros, ends
<1>6. CASE ends = {}
  BY <1>1, <1>6
<1>7. CASE ends # {}
  <2>1. PICK n \in ends : n = CHOOSE m \in ends : TRUE
    BY <1>4, <1>7
  <2>2. FindNextId = candidate(n) /\ n \in Nat /\ ~taken(n)
    BY <1>1, <1>5, <1>7, <2>1
  <2>. QED  BY <1>3, <2>2
<1>. QED  BY <1>6, <1>7

LEMMA Identified ==
  ASSUME OSTyped, NEW t \in OSThreads, Identify(t)
  PROVE  /\ infoId' \in [OSThreads -> Nat \cup {NoId}] /\ lastId' \in Nat
         /\ infoId'[t] # NoId
         /\ \A u \in OSThreads : u # t => infoId'[u] = infoId[u] /\ infoId[u] # infoId'[t]
BY NextIdFresh DEF Identify, OSTyped, NoId

(* What a step may do to the list of threads.                               *)
Listing(t) == UNCHANGED <<infoId, lastId>> \/ Identify(t)

LEMMA FindsOrIdentifies ==
  ASSUME NEW t \in OSThreads, FindOrCreateThreadInfo(t)
  PROVE  Listing(t)
BY DEF FindOrCreateThreadInfo, Listing

------------------------------------------------------------------------------
(* Types.                                                                   *)

LEMMA Moved ==
  ASSUME OSTyped, NEW t \in OSThreads, NEW new \in OSThreadType, OSMoves(t, new)
  PROVE  /\ osThr' \in [OSThreads -> OSThreadType]
         /\ osThr'[t] = new
         /\ \A u \in OSThreads : u # t => osThr'[u] = osThr[u]
BY DEF OSTyped, OSMoves

LEMMA RecordOf ==
  ASSUME OSTyped, NEW t \in OSThreads
  PROVE  osThr[t] \in OSThreadType
BY DEF OSTyped

LEMMA Constants ==
  /\ OSMain \in OSThreads /\ OSWorkers \subseteq OSThreads
  /\ OSFree \notin OSThreads
  /\ MaxTlsKeys \in Nat /\ MaxStores \in Nat /\ MaxCleans \in Nat
  /\ Held = {Null} \cup Stores \cup {Structure}
  /\ Structure \in Held /\ Null \in Held
BY UThreadOSAssumption DEF OSThreads, OSFree, Held, Null, Stores, Structure

LEMMA IdleRecord ==
  /\ OSThread \in OSThreadType
  /\ OSThread.pass = 0
  /\ \A p \in OSPhases : /\ [OSThread EXCEPT !.pc = p] \in OSThreadType
                         /\ [OSThread EXCEPT !.pc = p].pc = p
                         /\ [OSThread EXCEPT !.pc = p].pass = 0
<1>. DEFINE idle(p) == [OSThread EXCEPT !.pc = p]
<1>1. 0 \in 0 .. MaxTlsKeys /\ OSMain \in OSThreads
  BY Constants
<1>2. OSThread \in OSThreadType /\ OSThread.pass = 0
  BY <1>1 DEF OSThread, OSThreadType, OSPhases, TlsKeys, NoSlot
<1>3. \A p \in OSPhases : idle(p) \in OSThreadType /\ idle(p).pc = p /\ idle(p).pass = 0
  BY <1>2 DEF OSThreadType
<1>. QED  BY <1>2, <1>3

LEMMA InitTyped == OSInit => OSTyped
<1>. SUFFICES ASSUME OSInit PROVE OSTyped
  OBVIOUS
<1>1. osThr \in [OSThreads -> OSThreadType]
  BY IdleRecord DEF OSInit, OSPhases
<1>2. slotOf \in [TlsKeys -> 0 .. MaxTlsKeys] /\ dtors \in Seq(TlsKeys) /\ Len(dtors) = 0
  BY Constants DEF OSInit, NoSlot
<1>3. /\ slots \in [OSThreads -> [Slots -> Nat]]
      /\ stores \in [OSThreads -> Nat]
      /\ dropped \in [OSThreads -> SUBSET Nat]
      /\ given \in [OSThreads -> [Held -> Nat]]
  BY Constants DEF OSInit, Null
<1>. QED  BY <1>1, <1>2, <1>3, Constants DEF OSInit, OSTyped, OSFree, NoId

------------------------------------------------------------------------------
(* The search for a key's slot.                                             *)

Searching == {"key", "lock", "make", "publish", "use"}

OthersKept == UNCHANGED <<osSys, osRoom, slots, infoId, lastId, stores, dropped, given>>

Growing ==
  /\ Len(dtors) \in Nat /\ Len(dtors') \in Nat /\ Len(dtors) <= Len(dtors')
  /\ \A n \in 1 .. Len(dtors) : dtors'[n] = dtors[n]

(* A step of the search: the thread keeps the key and what it is for, and   *)
(* destructors are only added.                                              *)
Searches(t) ==
  /\ osThr[t].pc \in Searching /\ osThr'[t].pc \in Searching
  /\ osThr'[t].key = osThr[t].key /\ osThr'[t].job = osThr[t].job
  /\ \A u \in OSThreads : u # t => osThr'[u] = osThr[u]
  /\ Growing
  /\ OthersKept

LEMMA SearchMove ==
  ASSUME OSTyped, NEW t \in OSThreads, NEW p \in OSPhases, NEW n \in 0 .. MaxTlsKeys,
         OSMoves(t, [osThr[t] EXCEPT !.tk = n, !.pc = p])
  PROVE  /\ osThr' \in [OSThreads -> OSThreadType]
         /\ osThr'[t].pc = p /\ osThr'[t].tk = n
         /\ osThr'[t].key = osThr[t].key /\ osThr'[t].job = osThr[t].job
         /\ \A u \in OSThreads : u # t => osThr'[u] = osThr[u]
<1>. DEFINE new == [osThr[t] EXCEPT !.tk = n, !.pc = p]
            there == [osThr[t] EXCEPT !.tk = n]
<1>1. /\ there \in OSThreadType /\ there.tk = n
      /\ there.key = osThr[t].key /\ there.job = osThr[t].job
  BY RecordOf DEF OSThreadType
<1>2. new = [there EXCEPT !.pc = p]
  OBVIOUS
<1>. HIDE DEF there
<1>3. /\ new \in OSThreadType /\ new.pc = p /\ new.tk = n
      /\ new.key = osThr[t].key /\ new.job = osThr[t].job
  BY <1>1, <1>2 DEF OSThreadType
<1>. QED  BY <1>3, Moved

LEMMA PhaseMove ==
  ASSUME OSTyped, NEW t \in OSThreads, NEW p \in OSPhases, OSGoes(t, p)
  PROVE  /\ osThr' \in [OSThreads -> OSThreadType]
         /\ osThr'[t].pc = p /\ osThr'[t].tk = osThr[t].tk
         /\ osThr'[t].key = osThr[t].key /\ osThr'[t].job = osThr[t].job
         /\ \A u \in OSThreads : u # t => osThr'[u] = osThr[u]
<1>. DEFINE new == [osThr[t] EXCEPT !.pc = p]
<1>1. /\ new \in OSThreadType /\ new.pc = p /\ new.tk = osThr[t].tk
      /\ new.key = osThr[t].key /\ new.job = osThr[t].job
  BY RecordOf DEF OSThreadType
<1>. QED  BY <1>1, Moved DEF OSGoes

LEMMA KeyOf ==
  ASSUME OSTyped, NEW t \in OSThreads
  PROVE  /\ osThr[t].key \in TlsKeys /\ osThr[t].tk \in 0 .. MaxTlsKeys
         /\ slotOf[osThr[t].key] \in 0 .. MaxTlsKeys
         /\ Len(dtors) \in Nat
<1>1. osThr[t].key \in TlsKeys /\ osThr[t].tk \in 0 .. MaxTlsKeys
  BY RecordOf DEF OSThreadType
<1>. QED  BY <1>1 DEF OSTyped

LEMMA ReadSlotStep ==
  ASSUME OSTyped, KeyPart, NEW t \in OSThreads, ReadSlot(t)
  PROVE  OSTyped' /\ KeyPart' /\ Searches(t)
<1>. DEFINE n == slotOf[osThr[t].key]
            p == IF n # NoSlot THEN "use" ELSE "lock"
<1>1. n \in 0 .. MaxTlsKeys /\ p \in OSPhases /\ osThr[t].key \in TlsKeys
  BY KeyOf DEF OSPhases
<1>2. /\ osThr' \in [OSThreads -> OSThreadType]
      /\ osThr'[t].pc = p /\ osThr'[t].tk = n
      /\ osThr'[t].key = osThr[t].key /\ osThr'[t].job = osThr[t].job
      /\ \A u \in OSThreads : u # t => osThr'[u] = osThr[u]
  <2>1. OSMoves(t, [osThr[t] EXCEPT !.tk = n, !.pc = p])
    BY DEF ReadSlot
  <2>. HIDE DEF n, p
  <2>. QED  BY <1>1, <2>1, SearchMove
<1>3. /\ osThr[t].pc = "key"
      /\ UNCHANGED <<osSys, osRoom, osMutex, slotOf, dtors, slots, infoId, lastId, stores, dropped, given>>
  BY DEF ReadSlot, OSAt
<1>4. Searches(t)
  BY <1>2, <1>3, KeyOf DEF Searches, Searching, Growing, OthersKept
<1>5. OSTyped'
  BY <1>2, <1>3 DEF OSTyped
<1>6. SlotKnown(t)'
  BY <1>1, <1>2, <1>3 DEF KeyPart, SlotKnown, Registered, NoSlot
<1>7. \A u \in OSThreads : u # t => SlotKnown(u)' /\ (Publishing(u)' <=> Publishing(u))
  BY <1>2, <1>3 DEF KeyPart, SlotKnown, Registered, Publishing
<1>8. ~Publishing(t) /\ ~Publishing(t)'
  BY <1>2, <1>3 DEF Publishing
<1>9. KeyPart'
  BY <1>2, <1>3, <1>6, <1>7, <1>8 DEF KeyPart, Locked, Registered
<1>. QED  BY <1>4, <1>5, <1>9

(* Nothing is made or published: it is enough that the mutex is respected   *)
(* and that threads know the slot they use.                                 *)
LEMMA KeyFrame ==
  ASSUME KeyPart, UNCHANGED <<slotOf, dtors>>, Locked',
         \A u \in OSThreads : SlotKnown(u)',
         \A u \in OSThreads : osThr[u].pc = "publish" \/ osThr'[u].pc = "publish" =>
           osThr'[u] = osThr[u],
         \A u \in OSThreads : \A n \in Slots :
           slots'[u][n] # Null => slots[u][n] # Null \/ Registered(n)
  PROVE  KeyPart'
<1>1. \A u \in OSThreads : Publishing(u)' <=> Publishing(u)
  BY DEF Publishing
<1>2. \A n : Registered(n)' <=> Registered(n)
  BY DEF Registered
<1>3. \A u \in OSThreads : osThr'[u].pc = "publish" => Publishing(u)'
  BY <1>1 DEF KeyPart
<1>4. \A n \in 1 .. Len(dtors') :
        Registered(n)' \/ (n = Len(dtors') /\ \E u \in OSThreads : Publishing(u)')
  BY <1>1, <1>2 DEF KeyPart
<1>5. \A u \in OSThreads : \A n \in Slots : slots'[u][n] # Null => Registered(n)'
  BY <1>2 DEF KeyPart
<1>. QED  BY <1>3, <1>4, <1>5 DEF KeyPart

LEMMA LockKeysStep ==
  ASSUME OSTyped, KeyPart, NEW t \in OSThreads, LockKeys(t)
  PROVE  OSTyped' /\ KeyPart' /\ Searches(t)
<1>1. /\ osThr' \in [OSThreads -> OSThreadType]
      /\ osThr'[t].pc = "make" /\ osThr'[t].tk = osThr[t].tk
      /\ osThr'[t].key = osThr[t].key /\ osThr'[t].job = osThr[t].job
      /\ \A u \in OSThreads : u # t => osThr'[u] = osThr[u]
  BY PhaseMove DEF LockKeys, OSPhases
<1>2. /\ osThr[t].pc = "lock" /\ osMutex = OSFree /\ osMutex' = t
      /\ UNCHANGED <<osSys, osRoom, slotOf, dtors, slots, infoId, lastId, stores, dropped, given>>
  BY DEF LockKeys, OSAt
<1>3. Searches(t)
  BY <1>1, <1>2, KeyOf DEF Searches, Searching, Growing, OthersKept
<1>4. OSTyped'
  BY <1>1, <1>2 DEF OSTyped
<1>5. Locked'
  BY <1>1, <1>2, Constants DEF KeyPart, Locked
<1>6. \A u \in OSThreads : SlotKnown(u)'
  BY <1>1, <1>2 DEF KeyPart, SlotKnown, Registered
<1>7. KeyPart'
  BY <1>1, <1>2, <1>5, <1>6, KeyFrame
<1>. QED  BY <1>3, <1>4, <1>7

LEMMA SlotFoundStep ==
  ASSUME OSTyped, KeyPart, NEW t \in OSThreads, OSAt(t, "make"), SlotFound(t), OthersKept
  PROVE  OSTyped' /\ KeyPart' /\ Searches(t)
<1>. DEFINE n == slotOf[osThr[t].key]
<1>1. n \in 0 .. MaxTlsKeys /\ osThr[t].key \in TlsKeys
  BY KeyOf
<1>2. /\ osThr' \in [OSThreads -> OSThreadType]
      /\ osThr'[t].pc = "use" /\ osThr'[t].tk = n
      /\ osThr'[t].key = osThr[t].key /\ osThr'[t].job = osThr[t].job
      /\ \A u \in OSThreads : u # t => osThr'[u] = osThr[u]
  <2>1. OSMoves(t, [osThr[t] EXCEPT !.tk = n, !.pc = "use"]) /\ "use" \in OSPhases
    BY DEF SlotFound, OSPhases
  <2>. HIDE DEF n
  <2>. QED  BY <1>1, <2>1, SearchMove
<1>3. osThr[t].pc = "make" /\ osMutex' = OSFree /\ UNCHANGED <<slotOf, dtors>>
  BY DEF SlotFound, OSAt
<1>4. Searches(t)
  BY <1>2, <1>3, KeyOf DEF Searches, Searching, Growing
<1>5. OSTyped'
  BY <1>2, <1>3 DEF OSTyped, OthersKept
<1>6. Locked'
  BY <1>2, <1>3 DEF KeyPart, Locked
<1>7. SlotKnown(t)'
  BY <1>1, <1>2, <1>3 DEF KeyPart, SlotKnown, Registered, NoSlot
<1>8. \A u \in OSThreads : SlotKnown(u)'
  BY <1>2, <1>3, <1>7 DEF KeyPart, SlotKnown, Registered
<1>9. KeyPart'
  BY <1>2, <1>3, <1>6, <1>8, KeyFrame DEF OthersKept
<1>. QED  BY <1>4, <1>5, <1>9

(* A destructor is added while its maker holds the mutex.                   *)
LEMMA Grown ==
  ASSUME OSTyped, NEW k \in TlsKeys, dtors' = Append(dtors, k)
  PROVE  /\ Len(dtors') = Len(dtors) + 1 /\ Len(dtors) \in Nat
         /\ dtors'[Len(dtors')] = k
         /\ \A n \in 1 .. Len(dtors) : dtors'[n] = dtors[n]
         /\ dtors' \in Seq(TlsKeys)
BY DEF OSTyped

LEMMA MutexHeld ==
  ASSUME KeyPart, NEW t \in OSThreads, osThr[t].pc \in {"make", "publish"},
         NEW u \in OSThreads, osThr[u].pc \in {"make", "publish"}
  PROVE  u = t
BY DEF KeyPart, Locked

LEMMA AllRegistered ==
  ASSUME KeyPart, NEW t \in OSThreads, osThr[t].pc = "make"
  PROVE  \A n \in 1 .. Len(dtors) : Registered(n)
BY MutexHeld DEF KeyPart, Publishing

(* What is common to the two ways to make a key: the destructor is added,   *)
(* and the thread knows its slot.                                           *)
LEMMA NewSlot ==
  ASSUME OSTyped, KeyPart, NEW t \in OSThreads, OSAt(t, "make"), ~HasSlot(t), OthersKept,
         dtors' = Append(dtors, osThr[t].key), NEW p \in {"publish", "use"},
         OSMoves(t, [osThr[t] EXCEPT !.tk = Len(dtors'), !.pc = p])
  PROVE  /\ osThr[t].pc = "make" /\ osThr[t].key \in TlsKeys
         /\ osThr' \in [OSThreads -> OSThreadType]
         /\ osThr'[t].pc = p /\ osThr'[t].tk = Len(dtors') /\ osThr'[t].key = osThr[t].key
         /\ \A u \in OSThreads : u # t => osThr'[u] = osThr[u]
         /\ slotOf[osThr[t].key] = NoSlot
         /\ Len(dtors') = Len(dtors) + 1 /\ Len(dtors) \in Nat /\ Len(dtors') <= osRoom
         /\ Len(dtors') \in 0 .. MaxTlsKeys
         /\ dtors'[Len(dtors')] = osThr[t].key
         /\ dtors' \in Seq(TlsKeys)
         /\ \A n \in 1 .. Len(dtors) : Registered(n) /\ dtors'[n] = dtors[n] /\ dtors[n] # osThr[t].key
         /\ \A u \in OSThreads : u # t => osThr[u].pc \notin {"make", "publish"}
         /\ Searches(t)
<1>1. osThr[t].pc = "make" /\ osThr[t].key \in TlsKeys
  BY KeyOf DEF OSAt
<1>2. /\ Len(dtors') = Len(dtors) + 1 /\ Len(dtors) \in Nat
      /\ dtors'[Len(dtors')] = osThr[t].key
      /\ \A n \in 1 .. Len(dtors) : dtors'[n] = dtors[n]
      /\ dtors' \in Seq(TlsKeys)
  BY <1>1, Grown
<1>3. slotOf[osThr[t].key] = NoSlot /\ Len(dtors) # osRoom
  BY DEF HasSlot
<1>4. Len(dtors') <= osRoom /\ Len(dtors') \in 0 .. MaxTlsKeys
  BY <1>2, <1>3, Constants DEF OSTyped
<1>5. /\ osThr' \in [OSThreads -> OSThreadType]
      /\ osThr'[t].pc = p /\ osThr'[t].tk = Len(dtors')
      /\ osThr'[t].key = osThr[t].key /\ osThr'[t].job = osThr[t].job
      /\ \A u \in OSThreads : u # t => osThr'[u] = osThr[u]
  <2>1. PICK n \in 0 .. MaxTlsKeys : n = Len(dtors')
    BY <1>4
  <2>2. OSMoves(t, [osThr[t] EXCEPT !.tk = n, !.pc = p]) /\ p \in OSPhases
    BY <2>1 DEF OSPhases
  <2>. QED  BY <2>1, <2>2, SearchMove
<1>6. \A n \in 1 .. Len(dtors) : Registered(n)
  BY <1>1, AllRegistered
<1>7. \A n \in 1 .. Len(dtors) : dtors[n] # osThr[t].key
  BY <1>3, <1>6 DEF Registered, NoSlot
<1>8. \A u \in OSThreads : u # t => osThr[u].pc \notin {"make", "publish"}
  BY <1>1, MutexHeld
<1>9. Searches(t)
  BY <1>1, <1>2, <1>5 DEF Searches, Searching, Growing
<1>. QED  BY <1>1, <1>2, <1>3, <1>4, <1>5, <1>6, <1>7, <1>8, <1>9

LEMMA NewKeyAmigaStep ==
  ASSUME OSTyped, KeyPart, NEW t \in OSThreads, OSAt(t, "make"), ~HasSlot(t), OthersKept,
         dtors' = Append(dtors, osThr[t].key),
         slotOf' = [slotOf EXCEPT ![osThr[t].key] = Len(dtors')], osMutex' = OSFree,
         OSMoves(t, [osThr[t] EXCEPT !.tk = Len(dtors'), !.pc = "use"])
  PROVE  OSTyped' /\ KeyPart' /\ Searches(t)
<1>. DEFINE key == osThr[t].key
            m == Len(dtors')
<1>1. /\ osThr[t].pc = "make" /\ key \in TlsKeys
      /\ osThr' \in [OSThreads -> OSThreadType]
      /\ osThr'[t].pc = "use" /\ osThr'[t].tk = m /\ osThr'[t].key = key
      /\ \A u \in OSThreads : u # t => osThr'[u] = osThr[u]
      /\ slotOf[key] = NoSlot
      /\ m = Len(dtors) + 1 /\ Len(dtors) \in Nat /\ m <= osRoom /\ m \in 0 .. MaxTlsKeys
      /\ dtors'[m] = key
      /\ dtors' \in Seq(TlsKeys)
      /\ \A n \in 1 .. Len(dtors) : Registered(n) /\ dtors'[n] = dtors[n] /\ dtors[n] # key
      /\ \A u \in OSThreads : u # t => osThr[u].pc \notin {"make", "publish"}
      /\ Searches(t)
  BY NewSlot
<1>2. /\ slotOf' \in [TlsKeys -> 0 .. MaxTlsKeys]
      /\ slotOf'[key] = m /\ \A k \in TlsKeys : k # key => slotOf'[k] = slotOf[k]
  BY <1>1 DEF OSTyped
<1>. HIDE DEF key, m
<1>3. OSTyped'
  BY <1>1, <1>2 DEF OSTyped, OthersKept, m
<1>4. \A n \in 1 .. Len(dtors) : Registered(n)'
  BY <1>1, <1>2 DEF OSTyped, Registered, m
<1>5. \A n \in {m} : Registered(n)'
  BY <1>1, <1>2 DEF Registered, m
<1>6. \A n \in 1 .. Len(dtors') : Registered(n)'
  BY <1>1, <1>4, <1>5 DEF m
<1>7. \A k \in TlsKeys : slotOf'[k] # NoSlot =>
        slotOf'[k] \in 1 .. Len(dtors') /\ dtors'[slotOf'[k]] = k
  BY <1>1, <1>2 DEF KeyPart, NoSlot, m
<1>8. Locked' /\ \A u \in OSThreads : osThr'[u].pc # "publish"
  BY <1>1 DEF KeyPart, Locked
<1>9. \A u \in OSThreads : SlotKnown(u)'
  <2>1. \A u \in OSThreads : u # t /\ osThr[u].pc = "use" /\ osThr[u].tk # NoSlot =>
          osThr[u].tk \in 1 .. Len(dtors) /\ dtors[osThr[u].tk] = osThr[u].key
    BY DEF KeyPart, SlotKnown, Registered
  <2>. QED  BY <1>1, <1>4, <1>5, <2>1 DEF SlotKnown, m
<1>10. \A u \in OSThreads : \A n \in Slots : slots'[u][n] # Null => Registered(n)'
  <2>1. \A u \in OSThreads : \A n \in Slots : slots[u][n] # Null => n \in 1 .. Len(dtors)
    BY DEF KeyPart, Registered
  <2>. QED  BY <1>4, <2>1 DEF OthersKept
<1>11. KeyPart'
  BY <1>6, <1>7, <1>8, <1>9, <1>10 DEF KeyPart
<1>. QED  BY <1>1, <1>3, <1>11

LEMMA NewKeyListedStep ==
  ASSUME OSTyped, KeyPart, NEW t \in OSThreads, OSAt(t, "make"), ~HasSlot(t), OthersKept,
         dtors' = Append(dtors, osThr[t].key), UNCHANGED <<osMutex, slotOf>>,
         OSMoves(t, [osThr[t] EXCEPT !.tk = Len(dtors'), !.pc = "publish"])
  PROVE  OSTyped' /\ KeyPart' /\ Searches(t)
<1>. DEFINE key == osThr[t].key
            m == Len(dtors')
<1>1. /\ osThr[t].pc = "make" /\ key \in TlsKeys
      /\ osThr' \in [OSThreads -> OSThreadType]
      /\ osThr'[t].pc = "publish" /\ osThr'[t].tk = m /\ osThr'[t].key = key
      /\ \A u \in OSThreads : u # t => osThr'[u] = osThr[u]
      /\ slotOf[key] = NoSlot
      /\ m = Len(dtors) + 1 /\ Len(dtors) \in Nat /\ m <= osRoom
      /\ dtors'[m] = key
      /\ dtors' \in Seq(TlsKeys)
      /\ \A n \in 1 .. Len(dtors) : Registered(n) /\ dtors'[n] = dtors[n] /\ dtors[n] # key
      /\ \A u \in OSThreads : u # t => osThr[u].pc \notin {"make", "publish"}
      /\ Searches(t)
  BY NewSlot
<1>. HIDE DEF key, m
<1>2. OSTyped'
  BY <1>1 DEF OSTyped, OthersKept, m
<1>3. \A n \in 1 .. Len(dtors) : Registered(n)'
  BY <1>1 DEF Registered, m
<1>4. Publishing(t)'
  BY <1>1 DEF Publishing, m, key
<1>5. \A n \in 1 .. Len(dtors') : Registered(n)' \/ (n = Len(dtors') /\ Publishing(t)')
  BY <1>1, <1>3, <1>4 DEF m
<1>6. \A k \in TlsKeys : slotOf'[k] # NoSlot =>
        slotOf'[k] \in 1 .. Len(dtors') /\ dtors'[slotOf'[k]] = k
  BY <1>1 DEF KeyPart, m
<1>7. Locked' /\ \A u \in OSThreads : osThr'[u].pc = "publish" => Publishing(u)'
  BY <1>1, <1>4 DEF KeyPart, Locked
<1>8. \A u \in OSThreads : SlotKnown(u)'
  <2>1. \A u \in OSThreads : u # t /\ osThr[u].pc = "use" /\ osThr[u].tk # NoSlot =>
          osThr[u].tk \in 1 .. Len(dtors) /\ dtors[osThr[u].tk] = osThr[u].key
    BY DEF KeyPart, SlotKnown, Registered
  <2>. QED  BY <1>1, <1>3, <2>1 DEF SlotKnown
<1>9. \A u \in OSThreads : \A n \in Slots : slots'[u][n] # Null => Registered(n)'
  <2>1. \A u \in OSThreads : \A n \in Slots : slots[u][n] # Null => n \in 1 .. Len(dtors)
    BY DEF KeyPart, Registered
  <2>. QED  BY <1>3, <2>1 DEF OthersKept
<1>10. KeyPart'
  BY <1>5, <1>6, <1>7, <1>8, <1>9 DEF KeyPart
<1>. QED  BY <1>1, <1>2, <1>10

LEMMA PublishStep ==
  ASSUME OSTyped, KeyPart, NEW t \in OSThreads, PublishKey(t)
  PROVE  OSTyped' /\ KeyPart' /\ Searches(t)
<1>. DEFINE key == osThr[t].key
            m == Len(dtors)
<1>1. /\ osThr' \in [OSThreads -> OSThreadType]
      /\ osThr'[t].pc = "use" /\ osThr'[t].tk = osThr[t].tk
      /\ osThr'[t].key = key /\ osThr'[t].job = osThr[t].job
      /\ \A u \in OSThreads : u # t => osThr'[u] = osThr[u]
  BY PhaseMove DEF PublishKey, OSPhases
<1>2. /\ osThr[t].pc = "publish" /\ osMutex' = OSFree
      /\ slotOf' = [slotOf EXCEPT ![key] = osThr[t].tk]
      /\ UNCHANGED <<osSys, osRoom, dtors, slots, infoId, lastId, stores, dropped, given>>
  BY DEF PublishKey, OSAt
<1>3. /\ osThr[t].tk = m /\ m # 0 /\ m \in Nat /\ dtors[m] = key /\ slotOf[key] = NoSlot
      /\ key \in TlsKeys /\ m \in 0 .. MaxTlsKeys
  BY <1>2, KeyOf DEF KeyPart, Publishing
<1>4. /\ slotOf' \in [TlsKeys -> 0 .. MaxTlsKeys]
      /\ slotOf'[key] = m /\ \A k \in TlsKeys : k # key => slotOf'[k] = slotOf[k]
  BY <1>2, <1>3 DEF OSTyped
<1>. HIDE DEF key
<1>5. Searches(t)
  BY <1>1, <1>2, KeyOf DEF Searches, Searching, Growing, OthersKept, key
<1>6. OSTyped'
  BY <1>1, <1>2, <1>4 DEF OSTyped
<1>7. \A n \in 1 .. m : dtors[n] \in TlsKeys
  BY DEF OSTyped
<1>8. \A n \in 1 .. m : Registered(n) => Registered(n)'
  BY <1>2, <1>3, <1>4, <1>7 DEF Registered, NoSlot
<1>9. \A n \in {m} : Registered(n)'
  BY <1>2, <1>3, <1>4 DEF Registered
<1>10. \A n \in 1 .. m : Registered(n)'
  BY <1>8, <1>9 DEF KeyPart
<1>11. \A k \in TlsKeys : slotOf'[k] # NoSlot =>
         slotOf'[k] \in 1 .. m /\ dtors[slotOf'[k]] = k
  BY <1>3, <1>4 DEF KeyPart
<1>12. Locked' /\ \A u \in OSThreads : osThr'[u].pc # "publish"
  BY <1>1, <1>2, MutexHeld DEF KeyPart, Locked
<1>13. \A u \in OSThreads : SlotKnown(u)'
  <2>1. \A u \in OSThreads : u # t /\ osThr[u].pc = "use" /\ osThr[u].tk # NoSlot =>
          osThr[u].tk \in 1 .. m /\ dtors[osThr[u].tk] = osThr[u].key
    BY DEF KeyPart, SlotKnown, Registered
  <2>. QED  BY <1>1, <1>2, <1>3, <1>9, <1>10, <2>1 DEF SlotKnown
<1>14. \A u \in OSThreads : \A n \in Slots : slots'[u][n] # Null => Registered(n)'
  <2>1. \A u \in OSThreads : \A n \in Slots : slots[u][n] # Null => n \in 1 .. m
    BY DEF KeyPart, Registered
  <2>. QED  BY <1>2, <1>10, <2>1
<1>15. KeyPart'
  BY <1>2, <1>10, <1>11, <1>12, <1>13, <1>14 DEF KeyPart
<1>. QED  BY <1>5, <1>6, <1>15

LEMMA MakeKeyStep ==
  ASSUME OSTyped, KeyPart, NEW t \in OSThreads,
         MakeKeyAmiga(t) \/ MakeKeyBeos(t) \/ MakeKeyOs2(t) \/ MakeKeyWin(t)
  PROVE  OSTyped' /\ KeyPart' /\ Searches(t)
<1>1. CASE MakeKeyAmiga(t)
  BY <1>1, SlotFoundStep, NewKeyAmigaStep DEF MakeKeyAmiga, OthersKept
<1>2. CASE MakeKeyListed(t)
  BY <1>2, SlotFoundStep, NewKeyListedStep DEF MakeKeyListed, OthersKept
<1>. QED  BY <1>1, <1>2 DEF MakeKeyBeos, MakeKeyOs2, MakeKeyWin

------------------------------------------------------------------------------
(* What steps elsewhere leave alone.                                        *)

(* The list of threads is disturbed only by threads that end or wait.       *)
LEMMA ListFrame ==
  ASSUME OSTyped, ListPart, osSys' = osSys, NEW t \in OSThreads, Listing(t),
         osThr'[t].pc \notin {"none", "signal", "ended"},
         \A u \in OSThreads : osThr'[u] = osThr[u] \/
           osThr'[u].pc \notin {"none", "unlist", "signal", "ended", "joinwait", "waiting"}
  PROVE  ListPart'
<1>1. /\ IdsUnique'
      /\ \A u \in OSThreads : u # t => infoId'[u] = infoId[u]
  <2>1. CASE Identify(t)
    BY <2>1, Identified DEF ListPart, IdsUnique
  <2>2. CASE UNCHANGED <<infoId, lastId>>
    BY <2>2 DEF ListPart, IdsUnique
  <2>. QED  BY <2>1, <2>2 DEF Listing
<1>2. \A w \in OSWorkers :
        osSys' = "amiga" /\ osThr'[w].pc \in {"none", "signal", "ended"} => infoId'[w] = NoId
  BY <1>1, Constants DEF ListPart
<1>3. osThr'[OSMain].pc = "joinwait" =>
        /\ osSys' = "amiga" /\ osThr'[OSMain].joins \in OSWorkers
        /\ osThr'[osThr'[OSMain].joins].pc # "ended"
  BY Constants DEF ListPart
<1>4. \A w \in OSWorkers : osThr'[w].pc \notin {"joinwait", "waiting"}
  BY Constants DEF ListPart
<1>5. \A u \in OSThreads : osThr'[u].pc \in {"unlist", "signal"} => u # OSMain /\ osSys' = "amiga"
  BY DEF ListPart
<1>. QED  BY <1>1, <1>2, <1>3, <1>4, <1>5 DEF ListPart

Same(t) ==
  slots'[t] = slots[t] /\ stores'[t] = stores[t] /\ given'[t] = given[t] /\ dropped'[t] = dropped[t]

LEMMA ValuesKept ==
  ASSUME KeyPart, NEW t \in OSThreads, ValuesOf(t), Same(t), Growing, osSys' = osSys,
         osThr'[t].pc \in {"none", "unlist", "signal", "ended"} => Empty(t),
         osThr'[t].pc \in Searching /\ osThr'[t].key = "app" /\ osThr'[t].job # "get" =>
           stores[t] < MaxStores,
         osThr'[t].pc = "run" => osThr'[t].pass = 0,
         osSys = "amiga" => Empty(t) \/ infoId'[t] # NoId
  PROVE  ValuesOf(t)'
<1>1. Empty(t)' <=> Empty(t)
  BY DEF Empty, Same
<1>2. \A v : InSlot(t, v)' <=> InSlot(t, v)
  BY DEF InSlot, Same
<1>3. \A n \in Slots : slots'[t][n] # Null =>
        IF dtors'[n] = "app" THEN slots'[t][n] \in 1 .. stores'[t] ELSE slots'[t][n] = Structure
  <2>1. \A n \in Slots : slots[t][n] # Null => n \in 1 .. Len(dtors)
    BY DEF KeyPart, Registered
  <2>2. \A n \in Slots : slots[t][n] # Null => dtors'[n] = dtors[n]
    BY <2>1 DEF Growing
  <2>. QED  BY <2>2 DEF ValuesOf, Accounts, Same
<1>4. \A v \in 1 .. stores'[t] :
        IF InSlot(t, v)' THEN given'[t][v] = 0 /\ v \notin dropped'[t]
        ELSE given'[t][v] = IF v \in dropped'[t] THEN 0 ELSE 1
  BY <1>2 DEF ValuesOf, Accounts, Same
<1>5. stores'[t] = stores[t]
  BY DEF Same
<1>6. \A v \in Stores : v > stores'[t] => given'[t][v] = 0 /\ v \notin dropped'[t]
  BY DEF ValuesOf, Accounts, Same
<1>7. Accounts(t)'
  BY <1>3, <1>4, <1>5, <1>6 DEF ValuesOf, Accounts
<1>. QED  BY <1>1, <1>5, <1>7 DEF ValuesOf, Searching

LEMMA PassKept ==
  ASSUME OSTyped, KeyPart, NEW t \in OSThreads, PassOf(t), Same(t), Growing, osSys' = osSys,
         osThr'[t] = osThr[t] \/ osThr'[t].pc # "clean"
  PROVE  PassOf(t)'
<1>1. \A n \in Slots : slots[t][n] # Null => dtors'[n] = dtors[n]
  <2>1. \A n \in Slots : slots[t][n] # Null => n \in 1 .. Len(dtors)
    BY DEF KeyPart, Registered
  <2>. QED  BY <2>1 DEF Growing
<1>2. osThr[t].cur \in Nat
  BY RecordOf DEF OSThreadType
<1>3. CASE osSys = "amiga"
  BY <1>1, <1>3 DEF PassOf, Same
<1>4. CASE osSys # "amiga"
  <2>1. osThr[t].cur <= Len(dtors) => osThr[t].cur <= Len(dtors')
    BY <1>2 DEF Growing
  <2>2. CASE osThr'[t].pc = "clean"
    <3>1. /\ osThr'[t] = osThr[t] /\ slots'[t] = slots[t] /\ osThr[t].cur <= Len(dtors')
          /\ \A n \in Slots : n > osThr[t].cur /\ slots[t][n] # Null => osThr[t].called # FALSE
      BY <1>4, <2>1, <2>2 DEF PassOf, Same
    <3>. QED  BY <1>4, <3>1 DEF PassOf
  <2>. QED  BY <2>2 DEF PassOf
<1>. QED  BY <1>3, <1>4

(* A thread that takes no step, while another one does.                     *)
LEMMA ValueFrame ==
  ASSUME OSTyped, KeyPart, NEW t \in OSThreads, ValuesOf(t), PassOf(t), Same(t), Growing, osSys' = osSys,
         osThr'[t] = osThr[t], infoId'[t] = infoId[t]
  PROVE  ValuesOf(t)' /\ PassOf(t)'
<1>1. /\ osThr'[t].pc \in {"none", "unlist", "signal", "ended"} => Empty(t)
      /\ osThr'[t].pc \in Searching /\ osThr'[t].key = "app" /\ osThr'[t].job # "get" =>
           stores[t] < MaxStores
      /\ osThr'[t].pc = "run" => osThr'[t].pass = 0
      /\ osSys = "amiga" => Empty(t) \/ infoId'[t] # NoId
  BY DEF ValuesOf, Searching
<1>. QED  BY <1>1, ValuesKept, PassKept

LEMMA SearchesKeep ==
  ASSUME IInv, NEW t \in OSThreads, Searches(t)
  PROVE  ListPart' /\ ValuePart'
<1>1. ListPart'
  BY ListFrame DEF IInv, Searches, Searching, OthersKept, Listing
<1>2. ASSUME Counted, NEW u \in OSThreads
      PROVE  ValuesOf(u)' /\ PassOf(u)'
  <2>1. OSTyped /\ KeyPart /\ ValuesOf(u) /\ PassOf(u) /\ Same(u) /\ Growing /\ osSys' = osSys /\ infoId'[u] = infoId[u]
    BY <1>2 DEF IInv, ValuePart, Searches, OthersKept, Same
  <2>2. CASE u # t
    BY <2>1, <2>2, ValueFrame DEF Searches
  <2>3. CASE u = t
    <3>1. /\ osThr'[u].pc \notin {"none", "unlist", "signal", "ended", "run", "clean"}
          /\ osThr'[u].key = "app" /\ osThr'[u].job # "get" => stores[u] < MaxStores
          /\ osSys = "amiga" => Empty(u) \/ infoId'[u] # NoId
      BY <2>1, <2>3 DEF ValuesOf, Searches, Searching
    <3>. QED  BY <2>1, <3>1, ValuesKept, PassKept
  <2>. QED  BY <2>2, <2>3
<1>. QED  BY <1>1, <1>2 DEF ValuePart, Searches, OthersKept, Counted, EnoughPasses

------------------------------------------------------------------------------
(* Threads that are created, begin a call, end or wait.                     *)

LEMMA QuietKeys ==
  ASSUME OSTyped, KeyPart, UNCHANGED <<osMutex, slotOf, dtors>>,
         \A u \in OSThreads : osThr'[u] = osThr[u] \/
           (osThr[u].pc # "publish" /\ osThr'[u].pc \notin {"make", "publish", "use"}),
         \A u \in OSThreads : \A n \in Slots :
           slots'[u][n] # Null => slots[u][n] # Null \/ Registered(n)
  PROVE  KeyPart' /\ Growing
<1>1. Locked' /\ \A u \in OSThreads : SlotKnown(u)'
  BY DEF KeyPart, Locked, SlotKnown, Registered
<1>2. Growing
  BY DEF Growing, OSTyped
<1>. QED  BY <1>1, <1>2, KeyFrame

(* Thread t moves, and at most its entry in the list changes.               *)
Alone(t) ==
  /\ UNCHANGED <<osSys, osRoom, osMutex, slotOf, dtors, slots, stores, dropped, given>>
  /\ osThr' \in [OSThreads -> OSThreadType]
  /\ infoId' \in [OSThreads -> Nat \cup {NoId}] /\ lastId' \in Nat
  /\ \A u \in OSThreads : u # t => osThr'[u] = osThr[u] /\ infoId'[u] = infoId[u]
  /\ osThr[t].pc # "publish" /\ osThr'[t].pc \notin {"make", "publish", "use"}

LEMMA AloneKeeps ==
  ASSUME IInv, NEW t \in OSThreads, Alone(t),
         Counted =>
           /\ osThr'[t].pc \in {"none", "unlist", "signal", "ended"} => Empty(t)
           /\ osThr'[t].pc \in Searching /\ osThr'[t].key = "app" /\ osThr'[t].job # "get" =>
                stores[t] < MaxStores
           /\ osThr'[t].pc = "run" => osThr'[t].pass = 0
           /\ osSys = "amiga" => Empty(t) \/ infoId'[t] # NoId
           /\ PassOf(t)'
  PROVE  OSTyped' /\ KeyPart' /\ ValuePart'
<1>1. OSTyped'
  BY DEF IInv, OSTyped, Alone
<1>2. KeyPart' /\ Growing
  BY QuietKeys DEF IInv, Alone
<1>3. ASSUME Counted, NEW u \in OSThreads
      PROVE  ValuesOf(u)' /\ PassOf(u)'
  <2>1. OSTyped /\ KeyPart /\ ValuesOf(u) /\ PassOf(u) /\ Same(u) /\ osSys' = osSys
    BY <1>3 DEF IInv, ValuePart, Alone, Same
  <2>2. CASE u # t
    BY <1>2, <2>1, <2>2, ValueFrame DEF Alone
  <2>3. CASE u = t
    BY <1>2, <1>3, <2>1, <2>3, ValuesKept
  <2>. QED  BY <2>2, <2>3
<1>. QED  BY <1>1, <1>2, <1>3 DEF ValuePart, Alone, Counted, EnoughPasses

LEMMA JoinRecord ==
  ASSUME NEW p \in OSPhases, NEW w \in OSThreads
  PROVE  LET r == [OSThread EXCEPT !.pc = p, !.joins = w]
         IN  r \in OSThreadType /\ r.pc = p /\ r.joins = w
<1>1. 0 \in 0 .. MaxTlsKeys
  BY Constants
<1>. QED  BY <1>1 DEF OSThread, OSThreadType, NoSlot, TlsKeys

LEMMA StartRecord ==
  Started \in OSThreadType /\ Started.pc = "key" /\ Started.key = "self"
<1>1. 0 \in 0 .. MaxTlsKeys /\ OSMain \in OSThreads
  BY Constants
<1>. QED  BY <1>1 DEF Started, OSThread, OSThreadType, OSPhases, NoSlot, TlsKeys

LEMMA CreateStep ==
  ASSUME IInv, NEW w \in OSWorkers, OSCreate(w)
  PROVE  IInv'
<1>1. /\ w \in OSThreads /\ osThr[w].pc = "none" /\ OSMoves(w, Started) /\ Listing(w)
      /\ UNCHANGED <<osSys, osRoom, osMutex, slotOf, dtors, slots, stores, dropped, given>>
  BY Constants DEF OSCreate, CreateAmiga, CreateBeos, CreateOs2, CreateWin, CreateUnlisted, Listing, OSAt
<1>2. /\ osThr' \in [OSThreads -> OSThreadType]
      /\ osThr'[w].pc = "key" /\ osThr'[w].key = "self"
      /\ \A u \in OSThreads : u # w => osThr'[u] = osThr[u]
  BY <1>1, StartRecord, Moved DEF IInv
<1>3. /\ infoId' \in [OSThreads -> Nat \cup {NoId}] /\ lastId' \in Nat
      /\ \A u \in OSThreads : u # w => infoId'[u] = infoId[u]
  BY <1>1, Identified DEF IInv, OSTyped, Listing
<1>4. Alone(w)
  BY <1>1, <1>2, <1>3 DEF Alone
<1>5. Counted => Empty(w)
  BY <1>1 DEF IInv, ValuePart, ValuesOf
<1>6. PassOf(w)'
  BY <1>2 DEF PassOf
<1>7. OSTyped' /\ KeyPart' /\ ValuePart'
  BY <1>1, <1>2, <1>4, <1>5, <1>6, AloneKeeps
<1>8. ListPart'
  BY <1>1, <1>2, <1>4, ListFrame DEF IInv, Alone
<1>. QED  BY <1>7, <1>8 DEF IInv

LEMMA UseLocalStep ==
  ASSUME IInv, NEW t \in OSThreads, NEW job \in {"get", "set", "replace"}, UseLocal(t, job)
  PROVE  IInv'
<1>. DEFINE new == [OSThread EXCEPT !.pc = "key", !.job = job, !.key = "app"]
<1>1. /\ osThr[t].pc = "run" /\ OSMoves(t, new)
      /\ job # "get" => stores[t] < StoresOf(t)
      /\ UNCHANGED <<osSys, osRoom, osMutex, slotOf, dtors, slots, infoId, lastId, stores, dropped, given>>
  BY DEF UseLocal, OSAt
<1>2. new \in OSThreadType /\ new.pc = "key" /\ new.job = job /\ new.key = "app"
  <2>1. 0 \in 0 .. MaxTlsKeys /\ OSMain \in OSThreads
    BY Constants
  <2>. QED  BY <2>1 DEF OSThread, OSThreadType, OSPhases, NoSlot, TlsKeys
<1>. HIDE DEF new
<1>3. /\ osThr' \in [OSThreads -> OSThreadType]
      /\ osThr'[t].pc = "key" /\ osThr'[t].job = job
      /\ \A u \in OSThreads : u # t => osThr'[u] = osThr[u]
  BY <1>1, <1>2, Moved DEF IInv
<1>4. Alone(t)
  BY <1>1, <1>3 DEF Alone, IInv, OSTyped
<1>5. job # "get" => stores[t] < MaxStores
  <2>1. StoresOf(t) <= MaxStores /\ StoresOf(t) \in Nat /\ MaxStores \in Nat
    BY UThreadOSAssumption DEF StoresOf
  <2>2. stores[t] \in Nat
    BY DEF IInv, OSTyped
  <2>. QED  BY <1>1, <2>1, <2>2
<1>6. PassOf(t)'
  BY <1>3 DEF PassOf
<1>7. Counted /\ osSys = "amiga" => Empty(t) \/ infoId[t] # NoId
  BY DEF IInv, ValuePart, ValuesOf
<1>8. OSTyped' /\ KeyPart' /\ ValuePart'
  BY <1>1, <1>3, <1>4, <1>5, <1>6, <1>7, AloneKeeps
<1>9. ListPart'
  BY <1>1, <1>3, <1>4, ListFrame DEF IInv, Alone, Listing
<1>. QED  BY <1>8, <1>9 DEF IInv

LEMMA CurrentIdStep ==
  ASSUME IInv, NEW t \in OSThreads, CurrentIdAmiga(t)
  PROVE  IInv'
<1>1. /\ osThr[t].pc = "run" /\ Listing(t)
      /\ UNCHANGED <<osSys, osRoom, osMutex, slotOf, dtors, slots, osThr, stores, dropped, given>>
  BY FindsOrIdentifies DEF CurrentIdAmiga, OSAt
<1>2. /\ infoId' \in [OSThreads -> Nat \cup {NoId}] /\ lastId' \in Nat
      /\ \A u \in OSThreads : u # t => infoId'[u] = infoId[u]
      /\ infoId'[t] = infoId[t] \/ infoId'[t] # NoId
  BY <1>1, Identified DEF IInv, OSTyped, Listing
<1>3. Alone(t)
  BY <1>1, <1>2 DEF Alone, IInv, OSTyped
<1>4. PassOf(t)'
  BY <1>1 DEF PassOf
<1>5. Counted => osThr[t].pass = 0 /\ (osSys = "amiga" => Empty(t) \/ infoId[t] # NoId)
  BY <1>1 DEF IInv, ValuePart, ValuesOf
<1>6. OSTyped' /\ KeyPart' /\ ValuePart'
  BY <1>1, <1>2, <1>3, <1>4, <1>5, AloneKeeps DEF Searching
<1>7. ListPart'
  BY <1>1, ListFrame DEF IInv
<1>. QED  BY <1>6, <1>7 DEF IInv

LEMMA Stutters ==
  ASSUME IInv, UNCHANGED osVars
  PROVE  IInv'
<1>. USE DEF osVars
<1>1. OSTyped'
  BY DEF IInv, OSTyped
<1>2. KeyPart'
  BY QuietKeys DEF IInv
<1>3. ListPart'
  BY DEF IInv, ListPart, IdsUnique
<1>4. Growing
  BY QuietKeys DEF IInv
<1>5. \A u \in OSThreads : ValuesOf(u) /\ PassOf(u) => ValuesOf(u)' /\ PassOf(u)'
  BY <1>4, ValueFrame DEF IInv, Same
<1>6. ValuePart'
  BY <1>5 DEF IInv, ValuePart, Counted, EnoughPasses
<1>. QED  BY <1>1, <1>2, <1>3, <1>6 DEF IInv

LEMMA WaitStep ==
  ASSUME IInv, NEW w \in OSWorkers, osThr[OSMain].pc = "run", OSWait(w)
  PROVE  IInv'
<1>. DEFINE waits(p) == [OSThread EXCEPT !.pc = p, !.joins = w]
<1>1. CASE UNCHANGED osVars
  BY <1>1, Stutters
<1>2. ASSUME NEW p \in {"joinwait", "waiting"}, OSMoves(OSMain, waits(p)),
             UNCHANGED <<osSys, osRoom, osMutex, slotOf, dtors, slots, infoId, lastId, stores, dropped, given>>,
             p = "joinwait" => osSys = "amiga" /\ infoId[w] # NoId
      PROVE  IInv'
  <2>1. OSMain \in OSThreads /\ w \in OSThreads /\ p \in OSPhases
    BY Constants DEF OSPhases
  <2>2. waits(p) \in OSThreadType /\ waits(p).pc = p /\ waits(p).joins = w
    BY <2>1, JoinRecord
  <2>. HIDE DEF waits
  <2>3. /\ osThr' \in [OSThreads -> OSThreadType]
        /\ osThr'[OSMain].pc = p /\ osThr'[OSMain].joins = w
        /\ \A u \in OSThreads : u # OSMain => osThr'[u] = osThr[u]
    BY <1>2, <2>1, <2>2, Moved DEF IInv
  <2>4. Alone(OSMain)
    BY <1>2, <2>3 DEF Alone, IInv, OSTyped
  <2>5. PassOf(OSMain)'
    BY <2>3 DEF PassOf
  <2>6. Counted /\ osSys = "amiga" => Empty(OSMain) \/ infoId[OSMain] # NoId
    BY <2>1 DEF IInv, ValuePart, ValuesOf
  <2>7. OSTyped' /\ KeyPart' /\ ValuePart'
    BY <1>2, <2>1, <2>3, <2>4, <2>5, <2>6, AloneKeeps DEF Searching
  <2>8. w # OSMain /\ OSMain \notin OSWorkers /\ (p = "joinwait" => osThr[w].pc # "ended")
    BY <1>2, UThreadOSAssumption DEF IInv, ListPart
  <2>9. ListPart'
    BY <1>2, <2>1, <2>3, <2>8, Constants DEF IInv, ListPart, IdsUnique
  <2>. QED  BY <2>7, <2>9 DEF IInv
<1>3. CASE WaitAmiga(w)
  BY <1>1, <1>2, <1>3 DEF WaitAmiga, osVars
<1>4. CASE WaitHandle(w)
  BY <1>2, <1>4 DEF WaitHandle
<1>. QED  BY <1>3, <1>4 DEF OSWait, WaitBeos, WaitOs2, WaitWin

LEMMA WaitedStep ==
  ASSUME IInv, NEW t \in OSThreads, Waited(t)
  PROVE  IInv'
<1>1. /\ osThr[t].pc = "waiting" /\ OSMoves(t, Returned(t))
      /\ UNCHANGED <<osSys, osRoom, osMutex, slotOf, dtors, slots, infoId, lastId, stores, dropped, given>>
  BY DEF Waited, OSAt
<1>2. Returned(t) \in OSThreadType /\ Returned(t).pc = "run" /\ Returned(t).pass = 0
  BY IdleRecord DEF Returned, OSPhases
<1>3. /\ osThr' \in [OSThreads -> OSThreadType]
      /\ osThr'[t].pc = "run" /\ osThr'[t].pass = 0
      /\ \A u \in OSThreads : u # t => osThr'[u] = osThr[u]
  BY <1>1, <1>2, Moved DEF IInv
<1>4. Alone(t)
  BY <1>1, <1>3 DEF Alone, IInv, OSTyped
<1>5. PassOf(t)'
  BY <1>3 DEF PassOf
<1>6. Counted /\ osSys = "amiga" => Empty(t) \/ infoId[t] # NoId
  BY DEF IInv, ValuePart, ValuesOf
<1>7. OSTyped' /\ KeyPart' /\ ValuePart'
  BY <1>1, <1>3, <1>4, <1>5, <1>6, AloneKeeps DEF Searching
<1>8. ListPart'
  BY <1>1, <1>3, ListFrame DEF IInv, Listing
<1>. QED  BY <1>7, <1>8 DEF IInv

LEMMA UnlistStep ==
  ASSUME IInv, NEW t \in OSThreads, UnlistAmiga(t)
  PROVE  IInv'
<1>1. /\ osThr[t].pc = "unlist" /\ infoId' = [infoId EXCEPT ![t] = NoId]
      /\ UNCHANGED <<osSys, osRoom, osMutex, slotOf, dtors, slots, lastId, stores, dropped, given>>
  BY DEF UnlistAmiga, OSAt
<1>2. /\ osThr' \in [OSThreads -> OSThreadType]
      /\ osThr'[t].pc = "signal"
      /\ \A u \in OSThreads : u # t => osThr'[u] = osThr[u]
  BY PhaseMove DEF UnlistAmiga, IInv, OSPhases
<1>3. t # OSMain /\ osSys = "amiga"
  BY <1>1 DEF IInv, ListPart
<1>4. Counted => Empty(t)
  BY <1>1, <1>3 DEF IInv, ValuePart, ValuesOf
<1>5. /\ infoId' \in [OSThreads -> Nat \cup {NoId}] /\ infoId'[t] = NoId
      /\ \A u \in OSThreads : u # t => infoId'[u] = infoId[u]
  BY <1>1 DEF IInv, OSTyped
<1>6. Alone(t)
  BY <1>1, <1>2, <1>5 DEF Alone, IInv, OSTyped
<1>7. PassOf(t)'
  BY <1>2 DEF PassOf
<1>8. OSTyped' /\ KeyPart' /\ ValuePart'
  BY <1>2, <1>4, <1>6, <1>7, AloneKeeps DEF Searching
<1>9. ListPart'
  BY <1>1, <1>2, <1>3, <1>5, Constants DEF IInv, ListPart, IdsUnique
<1>. QED  BY <1>8, <1>9 DEF IInv

LEMMA SignalStep ==
  ASSUME IInv, NEW t \in OSThreads, SignalAmiga(t)
  PROVE  IInv'
<1>. DEFINE woken(u) == OSAt(u, "joinwait") /\ osThr[u].joins = t
<1>1. /\ osThr[t].pc = "signal"
      /\ UNCHANGED <<osSys, osRoom, osMutex, slotOf, dtors, slots, infoId, lastId, stores, dropped, given>>
      /\ osThr' = [u \in OSThreads |->
           IF u = t THEN [OSThread EXCEPT !.pc = "ended"]
           ELSE IF woken(u) THEN [OSThread EXCEPT !.pc = "run"] ELSE osThr[u]]
  BY DEF SignalAmiga, OSAt, Returned
<1>. HIDE DEF woken
<1>2. /\ osThr' \in [OSThreads -> OSThreadType]
      /\ osThr'[t].pc = "ended"
      /\ \A u \in OSThreads : u # t =>
           \/ osThr'[u] = osThr[u] /\ ~woken(u)
           \/ osThr'[u].pc = "run" /\ osThr'[u].pass = 0 /\ woken(u)
  <2>1. \A u \in OSThreads : osThr[u] \in OSThreadType
    BY DEF IInv, OSTyped
  <2>. QED  BY <1>1, <2>1, IdleRecord DEF OSPhases
<1>3. t # OSMain /\ osSys = "amiga" /\ t \in OSWorkers
  BY <1>1 DEF IInv, ListPart, OSThreads
<1>4. OSTyped'
  BY <1>1, <1>2 DEF IInv, OSTyped
<1>5. KeyPart' /\ Growing
  <2>1. \A u \in OSThreads : woken(u) => osThr[u].pc = "joinwait"
    BY DEF woken, OSAt
  <2>. QED  BY <1>1, <1>2, <2>1, QuietKeys DEF IInv
<1>6. infoId[t] = NoId
  BY <1>1, <1>3 DEF IInv, ListPart
<1>7. ListPart'
  <2>1. osThr'[OSMain].pc = "joinwait" => osThr'[OSMain] = osThr[OSMain] /\ ~woken(OSMain)
    BY <1>2, <1>3, Constants
  <2>2. osThr'[OSMain].pc = "joinwait" =>
          /\ osSys' = "amiga" /\ osThr'[OSMain].joins \in OSWorkers
          /\ osThr'[osThr'[OSMain].joins].pc # "ended"
    BY <1>1, <1>2, <2>1, Constants DEF IInv, ListPart, woken, OSAt
  <2>3. \A w \in OSWorkers : osThr'[w].pc \notin {"joinwait", "waiting"}
    BY <1>2, Constants DEF IInv, ListPart
  <2>4. \A w \in OSWorkers :
          osSys' = "amiga" /\ osThr'[w].pc \in {"none", "signal", "ended"} => infoId'[w] = NoId
    BY <1>1, <1>2, <1>6, Constants DEF IInv, ListPart
  <2>5. \A u \in OSThreads : osThr'[u].pc \in {"unlist", "signal"} => u # OSMain /\ osSys' = "amiga"
    BY <1>1, <1>2 DEF IInv, ListPart
  <2>6. IdsUnique'
    BY <1>1 DEF IInv, ListPart, IdsUnique
  <2>. QED  BY <2>2, <2>3, <2>4, <2>5, <2>6 DEF ListPart
<1>8. ASSUME Counted, NEW u \in OSThreads
      PROVE  ValuesOf(u)' /\ PassOf(u)'
  <2>1. OSTyped /\ KeyPart /\ ValuesOf(u) /\ PassOf(u) /\ Same(u) /\ osSys' = osSys /\ infoId'[u] = infoId[u]
    BY <1>1, <1>3, <1>8 DEF IInv, ValuePart, Same
  <2>2. CASE osThr'[u] = osThr[u]
    BY <1>5, <2>1, <2>2, ValueFrame
  <2>3. CASE osThr'[u] # osThr[u]
    <3>1. \/ u = t /\ osThr'[u].pc = "ended" /\ Empty(u)
          \/ osThr'[u].pc = "run" /\ osThr'[u].pass = 0
      BY <1>1, <1>2, <2>1, <2>3 DEF ValuesOf
    <3>2. osSys = "amiga" => Empty(u) \/ infoId'[u] # NoId
      BY <2>1 DEF ValuesOf
    <3>. QED  BY <1>5, <2>1, <3>1, <3>2, ValuesKept, PassKept DEF Searching
  <2>. QED  BY <2>2, <2>3
<1>. QED  BY <1>1, <1>4, <1>5, <1>7, <1>8 DEF IInv, ValuePart, Counted, EnoughPasses

------------------------------------------------------------------------------
(* Passes over the destructors.                                             *)

LEMMA FirstInTable ==
  ASSUME OSTyped
  PROVE  FirstDtor \in Nat
BY DEF FirstDtor, OSTyped

(* A new pass: what it will meet under the application's key was stored     *)
(* before the thread ended or in the pass before.                           *)
LEMMA PassBegins ==
  ASSUME IInv, NEW t \in OSThreads, OSMoves(t, Passing(t, FirstDtor)),
         osThr[t].pc \in {"run", "clean"},
         UNCHANGED <<osSys, osRoom, osMutex, slotOf, dtors, slots, infoId, lastId, stores, dropped, given>>,
         Counted /\ osSys = "amiga" /\ t # OSMain =>
           \A n \in Slots : slots[t][n] # Null /\ dtors[n] = "app" => stores[t] > osThr[t].pass
  PROVE  IInv'
<1>1. FirstDtor \in Nat /\ osThr[t].pass \in Nat
  BY FirstInTable, RecordOf DEF IInv, OSThreadType
<1>2. /\ Passing(t, FirstDtor) \in OSThreadType
      /\ Passing(t, FirstDtor).pc = "clean" /\ Passing(t, FirstDtor).cur = FirstDtor
      /\ Passing(t, FirstDtor).pass = osThr[t].pass + 1
  <2>1. PICK c \in Nat, n \in Nat : c = FirstDtor /\ n = osThr[t].pass + 1
    BY <1>1
  <2>2. Passing(t, FirstDtor) = [OSThread EXCEPT !.pc = "clean", !.cur = c, !.pass = n]
    BY <2>1 DEF Passing
  <2>3. 0 \in 0 .. MaxTlsKeys /\ OSMain \in OSThreads
    BY Constants
  <2>. QED
    BY <2>1, <2>2, <2>3 DEF OSThread, OSThreadType, OSPhases, NoSlot, TlsKeys
<1>3. /\ osThr' \in [OSThreads -> OSThreadType]
      /\ osThr'[t].pc = "clean" /\ osThr'[t].cur = FirstDtor
      /\ osThr'[t].pass = osThr[t].pass + 1
      /\ \A u \in OSThreads : u # t => osThr'[u] = osThr[u]
  BY <1>2, Moved DEF IInv
<1>4. Alone(t)
  BY <1>3 DEF Alone, IInv, OSTyped
<1>5. \A n \in Slots : slots[t][n] # Null => n \in 1 .. Len(dtors)
  BY DEF IInv, KeyPart, Registered
<1>6. stores[t] \in Nat /\ Len(dtors) \in Nat
  BY DEF IInv, OSTyped
<1>7. ASSUME Counted PROVE PassOf(t)'
  <2>1. CASE osSys = "amiga"
    <3>1. osThr'[t].cur = 1
      BY <1>3, <2>1 DEF FirstDtor
    <3>2. \A n \in Slots : ~(n < 1)
      BY Constants DEF Slots
    <3>3. t # OSMain => \A n \in Slots : slots[t][n] # Null /\ dtors[n] = "app" => stores[t] >= osThr'[t].pass
      BY <1>1, <1>3, <1>6, <1>7, <2>1
    <3>4. osSys' = "amiga" /\ slots' = slots /\ dtors' = dtors /\ stores' = stores
      BY <2>1
    <3>5. \A n \in Slots : n < osThr'[t].cur /\ slots'[t][n] # Null =>
            osThr'[t].called # FALSE /\ dtors'[n] = "app" /\ stores'[t] > osThr'[t].pass
      BY <3>1, <3>2
    <3>6. t # OSMain => \A n \in Slots :
            n >= osThr'[t].cur /\ slots'[t][n] # Null /\ dtors'[n] = "app" => stores'[t] >= osThr'[t].pass
      BY <3>3, <3>4
    <3>7. osThr'[t].cur # 0
      BY <3>1
    <3>. QED  BY <3>4, <3>5, <3>6, <3>7, Zenon DEF PassOf
  <2>2. CASE osSys # "amiga"
    <3>1. osThr'[t].cur = Len(dtors)
      BY <1>3, <2>2 DEF FirstDtor
    <3>2. \A n \in Slots : slots[t][n] # Null => ~(n > Len(dtors))
      BY <1>5, <1>6
    <3>3. osSys' = osSys /\ slots' = slots /\ dtors' = dtors /\ osThr'[t].cur <= Len(dtors')
      BY <1>6, <3>1
    <3>. QED  BY <2>2, <3>1, <3>2, <3>3 DEF PassOf
  <2>. QED  BY <2>1, <2>2
<1>8. Counted /\ osSys = "amiga" => Empty(t) \/ infoId[t] # NoId
  BY DEF IInv, ValuePart, ValuesOf
<1>9. OSTyped' /\ KeyPart' /\ ValuePart'
  BY <1>3, <1>4, <1>7, <1>8, AloneKeeps DEF Searching
<1>10. ListPart'
  BY <1>3, ListFrame DEF IInv, Listing
<1>. QED  BY <1>9, <1>10 DEF IInv

LEMMA ExitStep ==
  ASSUME IInv, NEW t \in OSThreads, OSExit(t)
  PROVE  IInv'
<1>1. osThr[t].pc = "run"
  BY DEF OSExit, OSAt
<1>2. ASSUME Counted, osSys = "amiga", NEW n \in Slots, slots[t][n] # Null, dtors[n] = "app"
      PROVE  stores[t] > osThr[t].pass
  <2>1. slots[t][n] \in 1 .. stores[t] /\ osThr[t].pass = 0
    BY <1>1, <1>2 DEF IInv, ValuePart, ValuesOf, Accounts
  <2>. QED  BY <2>1 DEF IInv, OSTyped
<1>. QED  BY <1>1, <1>2, PassBegins DEF OSExit

------------------------------------------------------------------------------
(* Values come and go.                                                      *)

(* The value w is put into slot n of t; what was there is given to the      *)
(* destroy function or dropped.                                             *)
Put(t, n, w) ==
  /\ \A m \in Slots : slots'[t][m] = IF m = n THEN w ELSE slots[t][m]
  /\ \/ w = Null /\ stores'[t] = stores[t]
     \/ w = Structure /\ dtors[n] # "app" /\ stores'[t] = stores[t]
     \/ w = stores[t] + 1 /\ dtors[n] = "app" /\ stores'[t] = stores[t] + 1
          /\ stores[t] < MaxStores

Out(t, v) ==
  \/ v = Null /\ given'[t] = given[t] /\ dropped'[t] = dropped[t]
  \/ /\ v # Null /\ dropped'[t] = dropped[t]
     /\ \A x \in Held : given'[t][x] = IF x = v THEN given[t][x] + 1 ELSE given[t][x]
  \/ v # Null /\ given'[t] = given[t] /\ dropped'[t] = dropped[t] \cup {v}

LEMMA OneApp ==
  ASSUME KeyPart, NEW t \in OSThreads, NEW m \in Slots, NEW n \in Slots,
         slots[t][m] # Null, dtors[m] = "app", Registered(n), dtors[n] = "app"
  PROVE  m = n
BY DEF KeyPart, Registered

LEMMA ValueChange ==
  ASSUME OSTyped, KeyPart, NEW t \in OSThreads, Accounts(t), NEW n \in Slots, Registered(n),
         dtors' = dtors, NEW w, Put(t, n, w), Out(t, slots[t][n])
  PROVE  Accounts(t)'
<1>. DEFINE old == slots[t][n]
<1>1. /\ MaxStores \in Nat /\ stores[t] \in 0 .. MaxStores /\ Structure = MaxStores + 1 /\ Null = 0
      /\ Stores = 1 .. MaxStores /\ Held = 0 .. MaxStores + 1
  BY Constants DEF OSTyped, Accounts, Structure, Null, Stores, Held
<1>2. old \in Held /\ \A m \in Slots : slots[t][m] \in Held
  BY <1>1 DEF Accounts
<1>3. \A m \in Slots : slots'[t][m] # Null =>
        IF dtors'[m] = "app" THEN slots'[t][m] \in 1 .. stores'[t] ELSE slots'[t][m] = Structure
  BY <1>1 DEF Accounts, Put
<1>4. \A x \in Held : x \in 1 .. stores[t] /\ (\E m \in Slots : slots[t][m] = x /\ m # n) => x # old
  <2>. SUFFICES ASSUME NEW x \in 1 .. stores[t], NEW m \in Slots, slots[t][m] = x, m # n, x = old
                PROVE  FALSE
    OBVIOUS
  <2>1. x # Structure /\ x # Null
    BY <1>1
  <2>2. dtors[m] = "app" /\ dtors[n] = "app"
    BY <2>1 DEF Accounts
  <2>. QED  BY <2>1, <2>2, OneApp
<1>5. ASSUME NEW x \in 1 .. stores[t], x # old
      PROVE  /\ InSlot(t, x)' <=> InSlot(t, x)
             /\ given'[t][x] = given[t][x] /\ (x \in dropped'[t] <=> x \in dropped[t])
  <2>1. w # x /\ x \in Held
    BY <1>1 DEF Put
  <2>2. InSlot(t, x)' <=> InSlot(t, x)
    BY <1>5, <2>1 DEF InSlot, Put
  <2>. QED  BY <1>5, <2>1, <2>2 DEF Out
<1>6. ASSUME old \in 1 .. stores[t]
      PROVE  /\ ~\E m \in Slots : slots'[t][m] = old
             /\ given'[t][old] = IF old \in dropped'[t] THEN 0 ELSE 1
  <2>1. w # old /\ old # Null /\ old \in Held
    BY <1>1, <1>6 DEF Put
  <2>2. ~\E m \in Slots : slots'[t][m] = old
    BY <1>2, <1>4, <1>6, <2>1 DEF Put
  <2>3. given[t][old] = 0 /\ old \notin dropped[t]
    BY <1>6 DEF Accounts, InSlot
  <2>. QED  BY <2>1, <2>2, <2>3 DEF Out
<1>7. \A x \in 1 .. stores[t] :
        IF InSlot(t, x)' THEN given'[t][x] = 0 /\ x \notin dropped'[t]
        ELSE given'[t][x] = IF x \in dropped'[t] THEN 0 ELSE 1
  <2>. SUFFICES ASSUME NEW x \in 1 .. stores[t]
                PROVE  IF InSlot(t, x)' THEN given'[t][x] = 0 /\ x \notin dropped'[t]
                       ELSE given'[t][x] = IF x \in dropped'[t] THEN 0 ELSE 1
    OBVIOUS
  <2>1. CASE x = old
    BY <1>6, <2>1 DEF InSlot
  <2>2. CASE x # old
    BY <1>5, <2>2 DEF Accounts
  <2>. QED  BY <2>1, <2>2
<1>8. ASSUME NEW x \in Stores, x > stores[t]
      PROVE  given'[t][x] = 0 /\ x \notin dropped'[t]
  <2>1. x # old
    BY <1>1, <1>8 DEF Accounts
  <2>2. x \in Held /\ given[t][x] = 0 /\ x \notin dropped[t]
    BY <1>1, <1>8 DEF Accounts
  <2>. QED  BY <2>1, <2>2 DEF Out
<1>9. CASE stores'[t] = stores[t]
  BY <1>1, <1>3, <1>7, <1>8, <1>9 DEF Accounts
<1>10. CASE stores'[t] # stores[t]
  <2>1. /\ w = stores[t] + 1 /\ stores'[t] = stores[t] + 1 /\ w \in Stores /\ w > stores[t]
        /\ slots'[t][n] = w
    BY <1>1, <1>10 DEF Put
  <2>2. given'[t][w] = 0 /\ w \notin dropped'[t]
    BY <1>8, <2>1
  <2>3. \A x \in {w} : InSlot(t, x)'
    BY <2>1 DEF InSlot
  <2>4. \A x \in 1 .. stores'[t] : x \in 1 .. stores[t] \/ x = w
    BY <1>1, <2>1
  <2>5. \A x \in Stores : x > stores'[t] => x > stores[t]
    BY <1>1, <2>1
  <2>6. stores'[t] <= MaxStores
    BY <1>1, <2>1
  <2>. QED  BY <1>3, <1>7, <1>8, <2>2, <2>3, <2>4, <2>5, <2>6 DEF Accounts
<1>. QED  BY <1>9, <1>10

LEMMA SlotSet ==
  ASSUME OSTyped, NEW t \in OSThreads, NEW n, NEW w \in Nat,
         slots' = [slots EXCEPT ![t][n] = w]
  PROVE  /\ slots' \in [OSThreads -> [Slots -> Nat]]
         /\ \A m \in Slots : slots'[t][m] = IF m = n THEN w ELSE slots[t][m]
         /\ \A u \in OSThreads : u # t => slots'[u] = slots[u]
<1>1. PICK f : f = [slots[t] EXCEPT ![n] = w]
  OBVIOUS
<1>2. f \in [Slots -> Nat] /\ \A m \in Slots : f[m] = IF m = n THEN w ELSE slots[t][m]
  <2>1. slots[t] \in [Slots -> Nat]
    BY DEF OSTyped
  <2>2. f = [m \in Slots |-> IF m = n THEN w ELSE slots[t][m]]
    BY <1>1, <2>1
  <2>. QED  BY <2>1, <2>2
<1>3. slots' = [slots EXCEPT ![t] = f]
  BY <1>1
<1>. QED  BY <1>2, <1>3 DEF OSTyped

LEMMA GivenSet ==
  ASSUME OSTyped, NEW t \in OSThreads, NEW v, given' = [given EXCEPT ![t][v] = @ + 1]
  PROVE  /\ given' \in [OSThreads -> [Held -> Nat]]
         /\ \A x \in Held : given'[t][x] = IF x = v THEN given[t][x] + 1 ELSE given[t][x]
         /\ \A u \in OSThreads : u # t => given'[u] = given[u]
<1>1. PICK f : f = [given[t] EXCEPT ![v] = @ + 1]
  OBVIOUS
<1>2. /\ f \in [Held -> Nat]
      /\ \A x \in Held : f[x] = IF x = v THEN given[t][x] + 1 ELSE given[t][x]
  <2>1. given[t] \in [Held -> Nat]
    BY DEF OSTyped
  <2>2. f = [x \in Held |-> IF x = v THEN given[t][v] + 1 ELSE given[t][x]]
    BY <1>1, <2>1
  <2>3. \A x \in Held : f[x] = IF x = v THEN given[t][x] + 1 ELSE given[t][x]
    BY <2>2
  <2>4. \A x \in Held : f[x] \in Nat
    BY <2>1, <2>3
  <2>. QED  BY <2>2, <2>3, <2>4
<1>3. given' = [given EXCEPT ![t] = f]
  BY <1>1
<1>. QED  BY <1>2, <1>3 DEF OSTyped

LEMMA StoredNext ==
  ASSUME OSTyped, NEW t \in OSThreads, stores' = [stores EXCEPT ![t] = @ + 1]
  PROVE  /\ stores' \in [OSThreads -> Nat] /\ stores'[t] = stores[t] + 1
         /\ \A u \in OSThreads : u # t => stores'[u] = stores[u]
BY DEF OSTyped

(* The end of zuthread_set_local() or zuthread_replace_local().             *)
LEMMA LocalEnds ==
  ASSUME IInv, NEW t \in OSThreads, osThr[t].pc = "use", OSMoves(t, Returned(t)), Listing(t),
         UNCHANGED <<osSys, osRoom, osMutex, slotOf, dtors>>,
         osSys = "amiga" => StoresNothing \/ infoId'[t] # NoId,
         \/ StoresNothing
         \/ /\ osThr[t].tk # NoSlot /\ osThr[t].job # "get" /\ Kept(t, osThr[t].tk)
            /\ \/ Overwritten(t, osThr[t].tk) /\ UNCHANGED given
               \/ Destroyed(t, osThr[t].tk) /\ UNCHANGED dropped
  PROVE  IInv'
<1>1. Returned(t) \in OSThreadType /\ Returned(t).pc = "run" /\ Returned(t).pass = 0
  BY IdleRecord DEF Returned, OSPhases
<1>2. /\ osThr' \in [OSThreads -> OSThreadType]
      /\ osThr'[t].pc = "run" /\ osThr'[t].pass = 0
      /\ \A u \in OSThreads : u # t => osThr'[u] = osThr[u]
  BY <1>1, Moved DEF IInv
<1>3. /\ infoId' \in [OSThreads -> Nat \cup {NoId}] /\ lastId' \in Nat
      /\ \A u \in OSThreads : u # t => infoId'[u] = infoId[u]
      /\ infoId'[t] = infoId[t] \/ infoId'[t] # NoId
  BY Identified DEF IInv, OSTyped, Listing
<1>4. ListPart'
  BY <1>2, ListFrame DEF IInv
<1>5. PassOf(t)'
  BY <1>2 DEF PassOf
<1>6. CASE StoresNothing
  <2>1. Alone(t)
    BY <1>2, <1>3, <1>6 DEF Alone, StoresNothing
  <2>2. Counted /\ osSys = "amiga" => Empty(t) \/ infoId'[t] # NoId
    BY <1>3 DEF IInv, ValuePart, ValuesOf
  <2>3. OSTyped' /\ KeyPart' /\ ValuePart'
    BY <1>2, <1>5, <2>1, <2>2, AloneKeeps DEF Searching
  <2>. QED  BY <1>4, <2>3 DEF IInv
<1>7. CASE ~StoresNothing
  <2>. DEFINE n == osThr[t].tk
              w == Value(t)
  <2>1. /\ n # NoSlot /\ osThr[t].job # "get" /\ Kept(t, n)
        /\ \/ Overwritten(t, n) /\ UNCHANGED given
           \/ Destroyed(t, n) /\ UNCHANGED dropped
    BY <1>7
  <2>2. n \in Slots /\ osThr[t].key \in TlsKeys
    BY <2>1, KeyOf, Constants DEF IInv, NoSlot, Slots
  <2>3. Registered(n) /\ dtors[n] = osThr[t].key
    BY <2>1 DEF IInv, KeyPart, SlotKnown
  <2>4. w \in Nat
    BY Constants DEF Value, IInv, OSTyped, Structure
  <2>5. /\ slots' \in [OSThreads -> [Slots -> Nat]]
        /\ \A m \in Slots : slots'[t][m] = IF m = n THEN w ELSE slots[t][m]
        /\ \A u \in OSThreads : u # t => slots'[u] = slots[u]
    <3>1. slots' = [slots EXCEPT ![t][n] = w]
      BY <2>1 DEF Kept
    <3>. HIDE DEF n, w
    <3>. QED  BY <2>2, <2>4, <3>1, SlotSet DEF IInv
  <2>6. /\ stores' \in [OSThreads -> Nat]
        /\ stores'[t] = IF osThr[t].key = "self" THEN stores[t] ELSE stores[t] + 1
        /\ \A u \in OSThreads : u # t => stores'[u] = stores[u]
    BY <2>1, StoredNext DEF Kept, IInv, OSTyped
  <2>7. /\ dropped' \in [OSThreads -> SUBSET Nat] /\ given' \in [OSThreads -> [Held -> Nat]]
        /\ \A u \in OSThreads : u # t => dropped'[u] = dropped[u] /\ given'[u] = given[u]
        /\ Out(t, slots[t][n])
    <3>1. slots[t][n] \in Nat /\ dropped[t] \in SUBSET Nat
      BY <2>2 DEF IInv, OSTyped
    <3>2. CASE Overwritten(t, n) /\ UNCHANGED given
      <4>1. dropped' = [dropped EXCEPT ![t] = @ \cup ({slots[t][n]} \ {Null})] /\ given' = given
        BY <3>2 DEF Overwritten
      <4>. HIDE DEF n
      <4>2. /\ dropped' \in [OSThreads -> SUBSET Nat]
            /\ dropped'[t] = dropped[t] \cup ({slots[t][n]} \ {Null})
            /\ \A u \in OSThreads : u # t => dropped'[u] = dropped[u]
        BY <3>1, <4>1 DEF IInv, OSTyped
      <4>. QED  BY <4>1, <4>2 DEF Out, IInv, OSTyped
    <3>3. CASE Destroyed(t, n) /\ UNCHANGED dropped
      <4>1. /\ given' = IF slots[t][n] = Null THEN given ELSE [given EXCEPT ![t][slots[t][n]] = @ + 1]
            /\ dropped' = dropped
        BY <3>3 DEF Destroyed
      <4>. HIDE DEF n
      <4>2. CASE slots[t][n] = Null
        BY <4>1, <4>2 DEF Out, IInv, OSTyped
      <4>3. CASE slots[t][n] # Null
        BY <4>1, <4>3, GivenSet DEF Out, IInv, OSTyped
      <4>. QED  BY <4>2, <4>3
    <3>. QED  BY <2>1, <3>2, <3>3
  <2>8. OSTyped'
    BY <1>2, <1>3, <2>5, <2>6, <2>7 DEF IInv, OSTyped
  <2>9. KeyPart' /\ Growing
    <3>1. \A u \in OSThreads : \A m \in Slots : slots'[u][m] # Null => slots[u][m] # Null \/ Registered(m)
      BY <2>3, <2>5
    <3>. QED  BY <1>2, <3>1, QuietKeys DEF IInv
  <2>10. ASSUME Counted, NEW u \in OSThreads
         PROVE  ValuesOf(u)' /\ PassOf(u)'
    <3>1. OSTyped /\ KeyPart /\ ValuesOf(u) /\ PassOf(u)
      BY <2>10 DEF IInv, ValuePart
    <3>2. CASE u # t
      BY <1>2, <1>3, <2>5, <2>6, <2>7, <2>9, <3>1, <3>2, ValueFrame DEF Same
    <3>3. CASE u = t
      <4>1. osThr[t].key = "app" => stores[t] < MaxStores
        BY <2>1, <3>1, <3>3 DEF ValuesOf
      <4>2. Put(t, n, w)
        BY <2>2, <2>3, <2>5, <2>6, <4>1 DEF Put, Value, TlsKeys
      <4>3. Accounts(t)'
        <5>. HIDE DEF n, w
        <5>. QED  BY <2>2, <2>3, <2>7, <3>1, <3>3, <4>2, ValueChange DEF ValuesOf
      <4>4. osSys' = "amiga" => infoId'[t] # NoId
        BY <1>7
      <4>. QED  BY <1>2, <1>5, <3>3, <4>3, <4>4 DEF ValuesOf
    <3>. QED  BY <3>2, <3>3
  <2>. QED  BY <1>4, <2>8, <2>9, <2>10 DEF IInv, ValuePart, Counted, EnoughPasses
<1>. QED  BY <1>6, <1>7

LEMMA SetLocalStep ==
  ASSUME IInv, NEW t \in OSThreads,
         SetLocalAmiga(t) \/ SetLocalBeos(t) \/ SetLocalOs2(t) \/ SetLocalWin(t)
  PROVE  IInv'
<1>1. CASE SetLocalAmiga(t)
  BY <1>1, FindsOrIdentifies, LocalEnds DEF SetLocalAmiga, OSAt, StoreLocal, Listing
<1>2. ASSUME osSys # "amiga", SetLocalOwn(t)
      PROVE  IInv'
  BY <1>2, LocalEnds DEF SetLocalOwn, OSAt, StoreLocal, Listing
<1>. QED  BY <1>1, <1>2 DEF SetLocalBeos, SetLocalOs2, SetLocalWin

LEMMA ReplaceLocalStep ==
  ASSUME IInv, NEW t \in OSThreads,
         ReplaceLocalAmiga(t) \/ ReplaceLocalBeos(t) \/ ReplaceLocalOs2(t) \/ ReplaceLocalWin(t)
  PROVE  IInv'
<1>1. CASE ReplaceLocalAmiga(t)
  BY <1>1, FindsOrIdentifies, LocalEnds DEF ReplaceLocalAmiga, OSAt, ReplaceLocal, Listing
<1>2. ASSUME osSys # "amiga", ReplaceLocalOwn(t)
      PROVE  IInv'
  BY <1>2, LocalEnds DEF ReplaceLocalOwn, OSAt, ReplaceLocal, Listing
<1>. QED  BY <1>1, <1>2 DEF ReplaceLocalBeos, ReplaceLocalOs2, ReplaceLocalWin

------------------------------------------------------------------------------
(* The steps of a pass.                                                     *)

LEMMA CurOf ==
  ASSUME OSTyped, NEW t \in OSThreads
  PROVE  /\ osThr[t].cur \in Nat /\ osThr[t].pass \in Nat /\ osThr[t].called \in BOOLEAN
         /\ stores[t] \in Nat /\ Len(dtors) \in Nat
BY RecordOf DEF OSThreadType, OSTyped

LEMMA TableFits ==
  ASSUME OSTyped, NEW n \in Nat, n # 0, n <= Len(dtors)
  PROVE  n \in Slots
<1>1. Len(dtors) \in Nat /\ osRoom \in Nat /\ Len(dtors) <= osRoom /\ osRoom <= MaxTlsKeys /\ MaxTlsKeys \in Nat
  BY Constants DEF OSTyped
<1>. QED  BY <1>1 DEF Slots

LEMMA CurMove ==
  ASSUME OSTyped, NEW t \in OSThreads, NEW c \in Nat, NEW b \in BOOLEAN,
         OSMoves(t, [osThr[t] EXCEPT !.called = b, !.cur = c])
  PROVE  /\ osThr' \in [OSThreads -> OSThreadType]
         /\ osThr'[t].pc = osThr[t].pc /\ osThr'[t].pass = osThr[t].pass
         /\ osThr'[t].cur = c /\ osThr'[t].called = b
         /\ \A u \in OSThreads : u # t => osThr'[u] = osThr[u]
<1>. DEFINE new == [osThr[t] EXCEPT !.called = b, !.cur = c]
            there == [osThr[t] EXCEPT !.called = b]
<1>1. /\ there \in OSThreadType /\ there.called = b
      /\ there.pc = osThr[t].pc /\ there.pass = osThr[t].pass
  BY RecordOf DEF OSThreadType
<1>2. new = [there EXCEPT !.cur = c]
  OBVIOUS
<1>. HIDE DEF there
<1>3. /\ new \in OSThreadType /\ new.cur = c /\ new.called = b
      /\ new.pc = osThr[t].pc /\ new.pass = osThr[t].pass
  BY <1>1, <1>2 DEF OSThreadType
<1>. QED  BY <1>3, Moved

LEMMA SkipMove ==
  ASSUME OSTyped, NEW t \in OSThreads, NEW c \in Nat, OSMoves(t, [osThr[t] EXCEPT !.cur = c])
  PROVE  /\ osThr' \in [OSThreads -> OSThreadType]
         /\ osThr'[t].pc = osThr[t].pc /\ osThr'[t].pass = osThr[t].pass
         /\ osThr'[t].cur = c /\ osThr'[t].called = osThr[t].called
         /\ \A u \in OSThreads : u # t => osThr'[u] = osThr[u]
<1>. DEFINE new == [osThr[t] EXCEPT !.cur = c]
<1>1. /\ new \in OSThreadType /\ new.cur = c /\ new.called = osThr[t].called
      /\ new.pc = osThr[t].pc /\ new.pass = osThr[t].pass
  BY RecordOf DEF OSThreadType
<1>. QED  BY <1>1, Moved

LEMMA SkipStep ==
  ASSUME IInv, NEW t \in OSThreads, osThr[t].pc = "clean", NEW next \in Nat, SkipDtor(t, next),
         osSys = "amiga" => next = osThr[t].cur + 1,
         osSys # "amiga" => osThr[t].cur # 0 /\ next = osThr[t].cur - 1,
         Counted /\ osThr[t].cur \in Slots => slots[t][osThr[t].cur] = Null
  PROVE  IInv'
<1>1. /\ osThr' \in [OSThreads -> OSThreadType]
      /\ osThr'[t].pc = "clean" /\ osThr'[t].pass = osThr[t].pass
      /\ osThr'[t].cur = next /\ osThr'[t].called = osThr[t].called
      /\ \A u \in OSThreads : u # t => osThr'[u] = osThr[u]
      /\ UNCHANGED <<osSys, osRoom, osMutex, slotOf, dtors, slots, infoId, lastId, stores, dropped, given>>
  BY SkipMove DEF SkipDtor, IInv
<1>2. Alone(t)
  BY <1>1 DEF Alone, IInv, OSTyped
<1>3. osThr[t].cur \in Nat /\ Len(dtors) \in Nat /\ \A n \in Slots : n \in Nat
  BY CurOf, Constants DEF IInv, Slots
<1>4. ASSUME Counted PROVE PassOf(t)'
  <2>1. PassOf(t)
    BY <1>4 DEF IInv, ValuePart
  <2>2. CASE osSys = "amiga"
    <3>1. \A n \in Slots : n < next /\ slots[t][n] # Null => n < osThr[t].cur
      BY <1>3, <1>4, <2>2
    <3>2. \A n \in Slots : n >= next => n >= osThr[t].cur
      BY <1>3, <2>2
    <3>3. next # 0
      BY <1>3, <2>2
    <3>. QED  BY <1>1, <2>1, <2>2, <3>1, <3>2, <3>3 DEF PassOf
  <2>3. CASE osSys # "amiga"
    <3>1. \A n \in Slots : n > next /\ slots[t][n] # Null => n > osThr[t].cur
      BY <1>3, <1>4, <2>3
    <3>2. osThr[t].cur <= Len(dtors) => next <= Len(dtors)
      BY <1>3, <2>3
    <3>. QED  BY <1>1, <2>1, <2>3, <3>1, <3>2 DEF PassOf
  <2>. QED  BY <2>2, <2>3
<1>5. Counted /\ osSys = "amiga" => Empty(t) \/ infoId[t] # NoId
  BY DEF IInv, ValuePart, ValuesOf
<1>6. OSTyped' /\ KeyPart' /\ ValuePart'
  BY <1>1, <1>2, <1>4, <1>5, AloneKeeps DEF Searching
<1>7. ListPart'
  BY <1>1, ListFrame DEF IInv, Listing
<1>. QED  BY <1>6, <1>7 DEF IInv

(* A thread is done when a pass has called nothing.                         *)
LEMMA EndsStep ==
  ASSUME IInv, NEW t \in OSThreads, osThr[t].pc = "clean", NEW done \in {"unlist", "ended"},
         OSMoves(t, [OSThread EXCEPT !.pc = done]),
         UNCHANGED <<osSys, osRoom, osMutex, slotOf, dtors, slots, infoId, lastId, stores, dropped, given>>,
         Counted => Empty(t),
         IF done = "unlist" THEN t # OSMain /\ osSys = "amiga" ELSE t = OSMain \/ osSys # "amiga"
  PROVE  IInv'
<1>1. [OSThread EXCEPT !.pc = done] \in OSThreadType /\ [OSThread EXCEPT !.pc = done].pc = done
  BY IdleRecord DEF OSPhases
<1>2. /\ osThr' \in [OSThreads -> OSThreadType]
      /\ osThr'[t].pc = done
      /\ \A u \in OSThreads : u # t => osThr'[u] = osThr[u]
  BY <1>1, Moved DEF IInv
<1>3. Alone(t)
  BY <1>2 DEF Alone, IInv, OSTyped
<1>4. PassOf(t)'
  BY <1>2 DEF PassOf
<1>5. OSTyped' /\ KeyPart' /\ ValuePart'
  BY <1>2, <1>3, <1>4, AloneKeeps DEF Searching
<1>6. ListPart'
  <2>1. OSMain \notin OSWorkers
    BY UThreadOSAssumption
  <2>2. \A w \in OSWorkers :
          osSys' = "amiga" /\ osThr'[w].pc \in {"none", "signal", "ended"} => infoId'[w] = NoId
    BY <1>2, <2>1, Constants DEF IInv, ListPart
  <2>3. osThr'[OSMain].pc = "joinwait" =>
          /\ osSys' = "amiga" /\ osThr'[OSMain].joins \in OSWorkers
          /\ osThr'[osThr'[OSMain].joins].pc # "ended"
    BY <1>2, <2>1, Constants DEF IInv, ListPart
  <2>4. \A w \in OSWorkers : osThr'[w].pc \notin {"joinwait", "waiting"}
    BY <1>2, Constants DEF IInv, ListPart
  <2>5. \A u \in OSThreads : osThr'[u].pc \in {"unlist", "signal"} => u # OSMain /\ osSys' = "amiga"
    BY <1>2 DEF IInv, ListPart
  <2>6. IdsUnique'
    BY DEF IInv, ListPart, IdsUnique
  <2>. QED  BY <2>2, <2>3, <2>4, <2>5, <2>6 DEF ListPart
<1>. QED  BY <1>5, <1>6 DEF IInv

LEMMA CallStep ==
  ASSUME IInv, NEW t \in OSThreads, osThr[t].pc = "clean", NEW passed, NEW next \in Nat,
         NEW y \in OSThreads, slots[y][osThr[t].cur] # Null, CallDtor(t, y, passed, next),
         Counted => y = t /\ osThr[t].cur \in Slots /\ passed = slots[t][osThr[t].cur],
         osSys = "amiga" => next = IF t = OSMain THEN osThr[t].cur ELSE osThr[t].cur + 1,
         osSys # "amiga" => osThr[t].cur # 0 /\ next = osThr[t].cur - 1
  PROVE  IInv'
<1>. DEFINE n == osThr[t].cur
<1>1. /\ osThr' \in [OSThreads -> OSThreadType]
      /\ osThr'[t].pc = "clean" /\ osThr'[t].pass = osThr[t].pass
      /\ osThr'[t].cur = next /\ osThr'[t].called = TRUE
      /\ \A u \in OSThreads : u # t => osThr'[u] = osThr[u]
      /\ UNCHANGED <<osSys, osRoom, osMutex, slotOf, dtors, infoId, lastId, dropped>>
  BY CurMove DEF CallDtor, IInv
<1>2. n \in Nat /\ osThr[t].pass \in Nat /\ stores[t] \in Nat /\ Len(dtors) \in Nat
      /\ \A m \in Slots : m \in Nat
  BY CurOf, Constants DEF IInv, Slots
<1>3. PICK w \in Nat :
        /\ slots' = [slots EXCEPT ![y][n] = w]
        /\ \/ w = Null /\ stores' = stores
           \/ /\ w = stores[t] + 1 /\ dtors[n] = "app" /\ stores[t] < StoresOf(t)
              /\ stores' = [stores EXCEPT ![t] = @ + 1]
  <2>1. Null \in Nat /\ stores[t] + 1 \in Nat
    BY <1>2 DEF Null
  <2>. QED  BY <2>1 DEF CallDtor
<1>4. /\ slots' \in [OSThreads -> [Slots -> Nat]]
      /\ \A m \in Slots : slots'[y][m] = IF m = n THEN w ELSE slots[y][m]
      /\ \A u \in OSThreads : u # y => slots'[u] = slots[u]
  <2>. HIDE DEF n
  <2>. QED  BY <1>3, SlotSet DEF IInv
<1>5. /\ given' \in [OSThreads -> [Held -> Nat]]
      /\ \A x \in Held : given'[y][x] = IF x = passed THEN given[y][x] + 1 ELSE given[y][x]
      /\ \A u \in OSThreads : u # y => given'[u] = given[u]
  BY GivenSet DEF CallDtor, IInv
<1>6. /\ stores' \in [OSThreads -> Nat]
      /\ \A u \in OSThreads : u # t => stores'[u] = stores[u]
      /\ \/ w = Null /\ stores'[t] = stores[t]
         \/ w = stores[t] + 1 /\ dtors[n] = "app" /\ stores[t] < MaxStores /\ stores'[t] = stores[t] + 1
  <2>1. StoresOf(t) \in 0 .. MaxStores /\ MaxStores \in Nat
    BY UThreadOSAssumption DEF StoresOf
  <2>2. stores[t] < StoresOf(t) => stores[t] < MaxStores
    BY <1>2, <2>1
  <2>. QED  BY <1>3, <2>2, StoredNext DEF IInv, OSTyped
<1>. HIDE DEF n
<1>7. OSTyped'
  BY <1>1, <1>4, <1>5, <1>6 DEF IInv, OSTyped
<1>8. KeyPart' /\ Growing
  <2>1. \A u \in OSThreads : \A m \in Slots : slots'[u][m] # Null => slots[u][m] # Null
    BY <1>4 DEF n
  <2>. QED  BY <1>1, <2>1, QuietKeys DEF IInv
<1>9. ListPart'
  BY <1>1, ListFrame DEF IInv, Listing
<1>10. ASSUME Counted PROVE ValuesOf(t)' /\ PassOf(t)'
  <2>1. OSTyped /\ KeyPart /\ ValuesOf(t) /\ PassOf(t) /\ n \in Slots /\ passed = slots[t][n] /\ y = t
    BY <1>10 DEF IInv, ValuePart, n
  <2>2. Registered(n)
    BY <2>1 DEF KeyPart, n
  <2>3. Put(t, n, w)
    BY <1>4, <1>6, <2>1 DEF Put
  <2>4. Out(t, slots[t][n])
    BY <1>1, <1>5, <2>1 DEF Out, n
  <2>5. Accounts(t)'
    BY <1>1, <2>1, <2>2, <2>3, <2>4, ValueChange DEF ValuesOf
  <2>6. osSys = "amiga" => infoId[t] # NoId
    BY <2>1 DEF ValuesOf, Empty, n
  <2>7. ValuesOf(t)'
    BY <1>1, <2>5, <2>6 DEF ValuesOf
  <2>8. stores'[t] \in Nat /\ stores'[t] >= stores[t]
    BY <1>2, <1>6
  <2>9. CASE osSys = "amiga"
    <3>1. \A m \in Slots : m < next /\ slots'[t][m] # Null =>
            dtors'[m] = "app" /\ stores'[t] > osThr[t].pass
      <4>. SUFFICES ASSUME NEW m \in Slots, m < next, slots'[t][m] # Null
                    PROVE  dtors[m] = "app" /\ stores'[t] > osThr[t].pass
        BY <1>1
      <4>1. CASE m < n
        <5>1. slots[t][m] # Null
          <6>1. m # n
            BY <1>2, <4>1
          <6>. QED  BY <1>4, <2>1, <6>1
        <5>2. dtors[m] = "app" /\ stores[t] > osThr[t].pass
          BY <2>1, <2>9, <4>1, <5>1 DEF PassOf, n
        <5>. QED  BY <1>2, <2>8, <5>2
      <4>2. CASE ~(m < n)
        <5>1. m = n /\ t # OSMain
          BY <1>2, <2>9, <4>2 DEF n
        <5>2. w # Null /\ dtors[n] = "app" /\ stores'[t] = stores[t] + 1
          BY <1>4, <1>6, <2>1, <5>1
        <5>3. n >= n
          BY <1>2
        <5>4. stores[t] >= osThr[t].pass
          BY <2>1, <2>9, <5>1, <5>2, <5>3 DEF PassOf, n
        <5>. QED  BY <1>2, <5>1, <5>2, <5>4
      <4>. QED  BY <4>1, <4>2
    <3>2. t # OSMain => \A m \in Slots : m >= next /\ slots'[t][m] # Null /\ dtors'[m] = "app" =>
            stores'[t] >= osThr[t].pass
      <4>. SUFFICES ASSUME t # OSMain, NEW m \in Slots, m >= next, slots'[t][m] # Null, dtors[m] = "app"
                    PROVE  stores'[t] >= osThr[t].pass
        BY <1>1
      <4>1. m # n /\ m >= n
        BY <1>2, <2>9 DEF n
      <4>2. slots[t][m] # Null
        BY <1>4, <2>1, <4>1
      <4>3. stores[t] >= osThr[t].pass
        BY <2>1, <2>9, <4>1, <4>2 DEF PassOf, n
      <4>. QED  BY <1>2, <2>8, <4>3
    <3>3. next # 0
      BY <1>2, <2>1, <2>9 DEF PassOf, n
    <3>. QED  BY <1>1, <2>7, <2>9, <3>1, <3>2, <3>3 DEF PassOf
  <2>10. CASE osSys # "amiga"
    <3>1. next <= Len(dtors)
      BY <1>2, <2>1, <2>10 DEF PassOf, n
    <3>. QED  BY <1>1, <2>7, <2>10, <3>1 DEF PassOf
  <2>. QED  BY <2>9, <2>10
<1>11. ASSUME Counted, NEW u \in OSThreads, u # t PROVE ValuesOf(u)' /\ PassOf(u)'
  <2>1. OSTyped /\ KeyPart /\ ValuesOf(u) /\ PassOf(u) /\ y = t
    BY <1>11 DEF IInv, ValuePart
  <2>. QED  BY <1>1, <1>4, <1>5, <1>6, <1>8, <1>11, <2>1, ValueFrame DEF Same
<1>. QED  BY <1>1, <1>7, <1>8, <1>9, <1>10, <1>11 DEF IInv, ValuePart, Counted, EnoughPasses

LEMMA CleanListedStep ==
  ASSUME IInv, NEW t \in OSThreads, NEW passed, CleanListed(t, passed), osSys # "amiga",
         Counted => passed = CurrentValue(t)
  PROVE  IInv'
<1>1. osThr[t].pc = "clean"
  BY DEF CleanListed, OSAt
<1>2. osThr[t].cur \in Nat /\ Len(dtors) \in Nat /\ osThr[t].called \in BOOLEAN
  BY CurOf DEF IInv
<1>3. CASE osThr[t].cur = 0
  <2>1. PassEnds(t, osThr[t].called, "ended")
    BY <1>3 DEF CleanListed
  <2>2. CASE osThr[t].called # FALSE
    <3>1. /\ OSMoves(t, Passing(t, FirstDtor))
          /\ UNCHANGED <<osSys, osRoom, osMutex, slotOf, dtors, slots, infoId, lastId, stores, dropped, given>>
      BY <1>2, <2>1, <2>2 DEF PassEnds
    <3>. QED  BY <1>1, <3>1, PassBegins
  <2>3. CASE osThr[t].called = FALSE
    <3>1. /\ OSMoves(t, [OSThread EXCEPT !.pc = "ended"])
          /\ UNCHANGED <<osSys, osRoom, osMutex, slotOf, dtors, slots, infoId, lastId, stores, dropped, given>>
      BY <2>1, <2>3 DEF PassEnds
    <3>2. Counted => Empty(t)
      <4>1. \A n \in Slots : n > 0
        BY Constants DEF Slots
      <4>. QED  BY <1>1, <1>3, <2>3, <4>1 DEF IInv, ValuePart, PassOf, Empty, Counted, EnoughPasses
    <3>. QED  BY <1>1, <3>1, <3>2, EndsStep
  <2>. QED  BY <2>2, <2>3
<1>4. CASE osThr[t].cur # 0
  <2>1. osThr[t].cur - 1 \in Nat
    BY <1>2, <1>4
  <2>2. Counted => osThr[t].cur \in Slots
    <3>1. Counted => osThr[t].cur <= Len(dtors)
      BY <1>1 DEF IInv, ValuePart, PassOf
    <3>. QED  BY <1>2, <1>4, <3>1, TableFits DEF IInv
  <2>3. CASE slots[t][osThr[t].cur] # Null
    <3>1. CallDtor(t, t, passed, osThr[t].cur - 1)
      BY <1>4, <2>3 DEF CleanListed
    <3>2. Counted => passed = slots[t][osThr[t].cur]
      BY <1>4 DEF CurrentValue
    <3>. QED  BY <1>1, <1>4, <2>1, <2>2, <2>3, <3>1, <3>2, CallStep
  <2>4. CASE slots[t][osThr[t].cur] = Null
    <3>1. SkipDtor(t, osThr[t].cur - 1)
      BY <1>4, <2>4 DEF CleanListed
    <3>. QED  BY <1>1, <1>4, <2>1, <2>4, <3>1, SkipStep
  <2>. QED  BY <2>3, <2>4
<1>. QED  BY <1>3, <1>4

LEMMA CleanAmigaStep ==
  ASSUME IInv, NEW t \in OSThreads, CleanAmiga(t)
  PROVE  IInv'
<1>. DEFINE n == osThr[t].cur
<1>1. osThr[t].pc = "clean" /\ osSys = "amiga" /\ t # OSMain
  BY DEF CleanAmiga, OSAt
<1>2. /\ n \in Nat /\ n + 1 \in Nat /\ Len(dtors) \in Nat /\ osThr[t].called \in BOOLEAN
      /\ osThr[t].pass \in Nat /\ stores[t] \in Nat
  BY CurOf DEF IInv
<1>3. Counted => PassOf(t) /\ ValuesOf(t) /\ n # 0
  BY <1>1 DEF IInv, ValuePart, PassOf
<1>4. CASE n > Len(dtors)
  <2>1. PassEnds(t, osThr[t].called /\ osThr[t].pass < MaxCleans, "unlist")
    BY <1>4 DEF CleanAmiga
  <2>2. \A m \in Slots : slots[t][m] # Null => m < n
    <3>1. \A m \in Slots : slots[t][m] # Null => m \in 1 .. Len(dtors)
      BY DEF IInv, KeyPart, Registered
    <3>. QED  BY <1>2, <1>4, <3>1
  <2>3. Counted => \A m \in Slots : slots[t][m] # Null => osThr[t].called # FALSE /\ stores[t] > osThr[t].pass
    BY <1>1, <1>3, <2>2 DEF PassOf
  <2>4. CASE osThr[t].called # FALSE /\ osThr[t].pass < MaxCleans
    <3>1. /\ OSMoves(t, Passing(t, FirstDtor))
          /\ UNCHANGED <<osSys, osRoom, osMutex, slotOf, dtors, slots, infoId, lastId, stores, dropped, given>>
      BY <1>2, <2>1, <2>4 DEF PassEnds
    <3>. QED  BY <1>1, <2>3, <3>1, PassBegins
  <2>5. CASE ~(osThr[t].called # FALSE /\ osThr[t].pass < MaxCleans)
    <3>1. /\ OSMoves(t, [OSThread EXCEPT !.pc = "unlist"])
          /\ UNCHANGED <<osSys, osRoom, osMutex, slotOf, dtors, slots, infoId, lastId, stores, dropped, given>>
      BY <1>2, <2>1, <2>5 DEF PassEnds
    <3>2. ASSUME Counted PROVE Empty(t)
      <4>1. MaxStores \in Nat /\ MaxCleans \in Nat
        BY Constants
      <4>2. MaxStores <= MaxCleans
        BY <1>1, <3>2 DEF Counted, EnoughPasses
      <4>3. stores[t] <= MaxStores
        BY <1>3, <3>2 DEF ValuesOf, Accounts
      <4>4. stores[t] > osThr[t].pass => osThr[t].pass < MaxCleans
        BY <1>2, <4>1, <4>2, <4>3
      <4>. QED  BY <2>3, <2>5, <3>2, <4>4 DEF Empty
    <3>. QED  BY <1>1, <3>1, <3>2, EndsStep
  <2>. QED  BY <2>4, <2>5
<1>5. CASE ~(n > Len(dtors))
  <2>1. Counted => n \in Slots
    <3>1. n <= Len(dtors)
      BY <1>2, <1>5
    <3>. QED  BY <1>2, <1>3, <3>1, TableFits DEF IInv
  <2>2. CASE slots[t][n] # Null
    <3>1. CallDtor(t, t, slots[t][n], n + 1)
      BY <1>5, <2>2 DEF CleanAmiga
    <3>. QED  BY <1>1, <1>2, <2>1, <2>2, <3>1, CallStep
  <2>3. CASE slots[t][n] = Null
    <3>1. SkipDtor(t, n + 1)
      BY <1>5, <2>3 DEF CleanAmiga
    <3>. QED  BY <1>1, <1>2, <2>3, <3>1, SkipStep
  <2>. QED  BY <2>2, <2>3
<1>. QED  BY <1>4, <1>5

LEMMA ShutdownAmigaStep ==
  ASSUME IInv, ShutdownPart, NEW t \in OSThreads, ShutdownAmiga(t)
  PROVE  IInv'
<1>. DEFINE n == osThr[t].cur
            full == {u \in OSThreads : n <= Len(dtors) /\ infoId[u] # NoId /\ slots[u][n] # Null}
<1>1. osThr[t].pc = "clean" /\ osSys = "amiga" /\ t = OSMain
  BY DEF ShutdownAmiga, OSAt
<1>2. n \in Nat /\ n + 1 \in Nat /\ Len(dtors) \in Nat /\ osThr[t].called \in BOOLEAN
  BY CurOf DEF IInv
<1>3. Counted => PassOf(t) /\ ValuesOf(t) /\ n # 0
  BY <1>1 DEF IInv, ValuePart, PassOf
<1>4. CASE n > Len(dtors)
  <2>1. PassEnds(t, osThr[t].called, "ended")
    BY <1>4 DEF ShutdownAmiga
  <2>2. CASE osThr[t].called # FALSE
    <3>1. /\ OSMoves(t, Passing(t, FirstDtor))
          /\ UNCHANGED <<osSys, osRoom, osMutex, slotOf, dtors, slots, infoId, lastId, stores, dropped, given>>
      BY <1>2, <2>1, <2>2 DEF PassEnds
    <3>. QED  BY <1>1, <3>1, PassBegins
  <2>3. CASE osThr[t].called = FALSE
    <3>1. /\ OSMoves(t, [OSThread EXCEPT !.pc = "ended"])
          /\ UNCHANGED <<osSys, osRoom, osMutex, slotOf, dtors, slots, infoId, lastId, stores, dropped, given>>
      BY <2>1, <2>3 DEF PassEnds
    <3>2. \A m \in Slots : slots[t][m] # Null => m < n
      <4>1. \A m \in Slots : slots[t][m] # Null => m \in 1 .. Len(dtors)
        BY DEF IInv, KeyPart, Registered
      <4>. QED  BY <1>2, <1>4, <4>1
    <3>3. Counted => Empty(t)
      BY <1>1, <1>3, <2>3, <3>2 DEF PassOf, Empty
    <3>. QED  BY <1>1, <3>1, <3>3, EndsStep
  <2>. QED  BY <2>2, <2>3
<1>5. CASE ~(n > Len(dtors))
  <2>1. n <= Len(dtors) /\ (Counted => n \in Slots)
    <3>1. n <= Len(dtors)
      BY <1>2, <1>5
    <3>. QED  BY <1>2, <1>3, <3>1, TableFits DEF IInv
  <2>2. ASSUME Counted, NEW u \in full PROVE u = t
    <3>1. \A w \in OSWorkers : Empty(w)
      BY <1>1, <2>2, Constants DEF ShutdownPart, IInv, ValuePart, ValuesOf
    <3>. QED  BY <1>1, <2>1, <2>2, <3>1 DEF Empty, OSThreads
  <2>3. CASE full # {}
    <3>1. PICK u \in full : CallDtor(t, u, slots[u][n], n)
      BY <1>5, <2>3 DEF ShutdownAmiga
    <3>2. u \in OSThreads /\ slots[u][n] # Null /\ (Counted => u = t)
      BY <2>2, <3>1
    <3>. QED  BY <1>1, <1>2, <2>1, <3>1, <3>2, CallStep
  <2>4. CASE full = {}
    <3>1. SkipDtor(t, n + 1)
      BY <1>5, <2>4 DEF ShutdownAmiga
    <3>2. Counted => slots[t][n] = Null
      BY <1>1, <1>3, <2>1, <2>4 DEF ValuesOf, Empty
    <3>. QED  BY <1>1, <1>2, <3>1, <3>2, SkipStep
  <2>. QED  BY <2>3, <2>4
<1>. QED  BY <1>4, <1>5

------------------------------------------------------------------------------
(* The shutdown, and the induction.                                         *)

(* What a step of t does to the places where threads are.                   *)
Turns(t) ==
  /\ osThr[t].pc \notin {"none", "ended"}
  /\ \A u \in OSThreads : u # t =>
       osThr'[u] = osThr[u] \/ (osThr[u].pc = "joinwait" /\ osThr'[u].pc = "run")
  /\ osThr[t].pc = "clean" \/ osThr'[t].pc # "clean" \/ OSExit(t)

LEMMA TurnsShutdown ==
  ASSUME OSTyped, ListPart, ShutdownPart, NEW t \in OSThreads, Turns(t)
  PROVE  ShutdownPart'
<1>1. SUFFICES ASSUME osThr'[OSMain].pc = "clean", NEW w \in OSWorkers
               PROVE  osThr'[w].pc \in {"none", "ended"}
  BY DEF ShutdownPart
<1>2. w \in OSThreads /\ OSMain \in OSThreads /\ w # OSMain
  BY Constants, UThreadOSAssumption
<1>3. osThr[w].pc # "joinwait"
  BY DEF ListPart
<1>4. osThr[w].pc \in {"none", "ended"}
  <2>1. CASE osThr[OSMain].pc = "clean"
    BY <2>1 DEF ShutdownPart
  <2>2. CASE osThr[OSMain].pc # "clean"
    <3>1. t = OSMain
      BY <1>1, <1>2, <2>2 DEF Turns
    <3>2. OSExit(OSMain)
      BY <1>1, <2>2, <3>1 DEF Turns
    <3>. QED  BY <3>2 DEF OSExit, OSAt
  <2>. QED  BY <2>1, <2>2
<1>. QED  BY <1>2, <1>3, <1>4 DEF Turns

LEMMA MoveTurns ==
  ASSUME OSTyped, NEW t \in OSThreads, NEW new, OSMoves(t, new),
         osThr[t].pc \notin {"none", "ended"},
         osThr[t].pc = "clean" \/ new.pc # "clean" \/ OSExit(t)
  PROVE  Turns(t)
BY DEF OSTyped, OSMoves, Turns

LEMMA CleanTurns ==
  ASSUME OSTyped, NEW t \in OSThreads,
         CleanAmiga(t) \/ CleanBeos(t) \/ CleanOs2(t) \/ CleanWin(t) \/ ShutdownAmiga(t)
  PROVE  Turns(t)
<1>1. osThr[t].pc = "clean"
  BY DEF CleanAmiga, CleanBeos, CleanOs2, CleanWin, CleanListed, ShutdownAmiga, OSAt
<1>2. ASSUME NEW u, NEW passed, NEW next, CallDtor(t, u, passed, next)
      PROVE  Turns(t)
  BY <1>1, <1>2, MoveTurns DEF CallDtor
<1>3. ASSUME NEW next, SkipDtor(t, next) PROVE Turns(t)
  BY <1>1, <1>3, MoveTurns DEF SkipDtor
<1>4. ASSUME NEW again, NEW done, PassEnds(t, again, done) PROVE Turns(t)
  BY <1>1, <1>4, MoveTurns DEF PassEnds
<1>5. CASE CleanAmiga(t)
  BY <1>2, <1>3, <1>4, <1>5 DEF CleanAmiga
<1>6. CASE CleanBeos(t) \/ CleanOs2(t) \/ CleanWin(t)
  BY <1>2, <1>3, <1>4, <1>6 DEF CleanBeos, CleanOs2, CleanWin, CleanListed
<1>7. CASE ShutdownAmiga(t)
  BY <1>2, <1>3, <1>4, <1>7 DEF ShutdownAmiga
<1>. QED  BY <1>5, <1>6, <1>7

LEMMA SignalTurns ==
  ASSUME OSTyped, NEW t \in OSThreads, SignalAmiga(t)
  PROVE  Turns(t)
<1>1. \A u \in OSThreads : Returned(u).pc = "run" /\ [OSThread EXCEPT !.pc = "ended"].pc = "ended"
  BY IdleRecord DEF Returned, OSPhases
<1>. QED  BY <1>1 DEF SignalAmiga, Turns, OSAt

(* Every step of a thread keeps the invariant.                              *)
LEMMA StepKeeps ==
  ASSUME IInv, ShutdownPart, NEW t \in OSThreads, OSStep(t)
  PROVE  IInv' /\ Turns(t)
<1>. USE DEF IInv
<1>1. CASE ReadSlot(t) \/ LockKeys(t) \/ PublishKey(t)
           \/ MakeKeyAmiga(t) \/ MakeKeyBeos(t) \/ MakeKeyOs2(t) \/ MakeKeyWin(t)
  <2>1. OSTyped' /\ KeyPart' /\ Searches(t)
    BY <1>1, ReadSlotStep, LockKeysStep, PublishStep, MakeKeyStep
  <2>2. ListPart' /\ ValuePart'
    BY <2>1, SearchesKeep
  <2>. QED  BY <2>1, <2>2 DEF Searches, Searching, Turns
<1>2. CASE SetLocalAmiga(t) \/ SetLocalBeos(t) \/ SetLocalOs2(t) \/ SetLocalWin(t)
  <2>1. osThr[t].pc = "use" /\ OSMoves(t, Returned(t)) /\ Returned(t).pc = "run"
    BY <1>2, IdleRecord DEF SetLocalAmiga, SetLocalBeos, SetLocalOs2, SetLocalWin, SetLocalOwn,
                            OSAt, Returned, OSPhases
  <2>2. Turns(t)
    BY <2>1, MoveTurns
  <2>. QED  BY <1>2, <2>2, SetLocalStep
<1>3. CASE ReplaceLocalAmiga(t) \/ ReplaceLocalBeos(t) \/ ReplaceLocalOs2(t) \/ ReplaceLocalWin(t)
  <2>1. osThr[t].pc = "use" /\ OSMoves(t, Returned(t)) /\ Returned(t).pc = "run"
    BY <1>3, IdleRecord DEF ReplaceLocalAmiga, ReplaceLocalBeos, ReplaceLocalOs2, ReplaceLocalWin,
                            ReplaceLocalOwn, OSAt, Returned, OSPhases
  <2>2. Turns(t)
    BY <2>1, MoveTurns
  <2>. QED  BY <1>3, <2>2, ReplaceLocalStep
<1>4. CASE CleanBeos(t) \/ CleanOs2(t) \/ CleanWin(t)
  <2>1. PICK passed : CleanListed(t, passed) /\ osSys # "amiga" /\ (Counted => passed = CurrentValue(t))
    BY <1>4 DEF CleanBeos, CleanOs2, CleanWin, Counted
  <2>2. IInv'
    BY <2>1, CleanListedStep
  <2>. QED  BY <1>4, <2>2, CleanTurns
<1>5. CASE CleanAmiga(t)
  BY <1>5, CleanTurns, CleanAmigaStep
<1>6. CASE ShutdownAmiga(t)
  BY <1>6, CleanTurns, ShutdownAmigaStep
<1>7. CASE UnlistAmiga(t)
  <2>1. osThr[t].pc = "unlist" /\ osThr'[t].pc = "signal"
        /\ \A u \in OSThreads : u # t => osThr'[u] = osThr[u]
    BY <1>7, PhaseMove DEF UnlistAmiga, OSAt, OSPhases
  <2>. QED  BY <1>7, <2>1, UnlistStep DEF Turns
<1>8. CASE SignalAmiga(t)
  BY <1>8, SignalStep, SignalTurns
<1>9. CASE Waited(t)
  <2>1. osThr[t].pc = "waiting" /\ OSMoves(t, Returned(t)) /\ Returned(t).pc = "run"
    BY <1>9, IdleRecord DEF Waited, OSAt, Returned, OSPhases
  <2>2. Turns(t)
    BY <2>1, MoveTurns
  <2>. QED  BY <1>9, <2>2, WaitedStep
<1>. QED  BY <1>1, <1>2, <1>3, <1>4, <1>5, <1>6, <1>7, <1>8, <1>9 DEF OSStep

LEMMA CallKeeps ==
  ASSUME IInv, NEW t \in OSThreads,
         \/ OSExit(t) \/ CurrentIdAmiga(t)
         \/ \E job \in {"get", "set", "replace"} : UseLocal(t, job)
  PROVE  IInv' /\ Turns(t)
<1>1. CASE OSExit(t)
  <2>1. OSTyped /\ osThr[t].pc = "run" /\ OSMoves(t, Passing(t, FirstDtor))
    BY <1>1 DEF OSExit, OSAt, IInv
  <2>2. Turns(t)
    BY <1>1, <2>1, MoveTurns
  <2>. QED  BY <1>1, <2>2, ExitStep
<1>2. CASE CurrentIdAmiga(t)
  <2>1. osThr[t].pc = "run" /\ osThr' = osThr
    BY <1>2 DEF CurrentIdAmiga, OSAt
  <2>. QED  BY <1>2, <2>1, CurrentIdStep DEF Turns
<1>3. ASSUME NEW job \in {"get", "set", "replace"}, UseLocal(t, job)
      PROVE  IInv' /\ Turns(t)
  <2>. DEFINE new == [OSThread EXCEPT !.pc = "key", !.job = job, !.key = "app"]
  <2>1. OSTyped /\ osThr[t].pc = "run" /\ OSMoves(t, new)
    BY <1>3 DEF UseLocal, OSAt, IInv
  <2>2. new.pc = "key"
    BY DEF OSThread
  <2>. HIDE DEF new
  <2>3. Turns(t)
    BY <2>1, <2>2, MoveTurns
  <2>. QED  BY <1>3, <2>3, UseLocalStep
<1>. QED  BY <1>1, <1>2, <1>3

LEMMA NextKeeps ==
  ASSUME IInv, ShutdownPart, [OSNext]_osVars
  PROVE  IInv' /\ ShutdownPart'
<1>1. CASE UNCHANGED osVars
  <2>1. ShutdownPart'
    BY <1>1 DEF ShutdownPart, osVars
  <2>. QED  BY <1>1, <2>1, Stutters
<1>2. ASSUME NEW t \in OSThreads,
             \/ OSStep(t) \/ OSExit(t) \/ CurrentIdAmiga(t)
             \/ \E job \in {"get", "set", "replace"} : UseLocal(t, job)
      PROVE  IInv' /\ ShutdownPart'
  <2>1. IInv' /\ Turns(t)
    BY <1>2, StepKeeps, CallKeeps
  <2>. QED  BY <2>1, TurnsShutdown DEF IInv
<1>3. ASSUME NEW w \in OSWorkers, OSAt(OSMain, "run"), OSCreate(w)
      PROVE  IInv' /\ ShutdownPart'
  <2>1. OSMain \in OSThreads /\ w \in OSThreads /\ w # OSMain
    BY Constants, UThreadOSAssumption
  <2>2. OSMoves(w, Started)
    BY <1>3 DEF OSCreate, CreateAmiga, CreateBeos, CreateOs2, CreateWin, CreateUnlisted
  <2>3. osThr'[OSMain] = osThr[OSMain]
    BY <2>1, <2>2, StartRecord, Moved DEF IInv
  <2>. QED  BY <1>3, <2>3, CreateStep DEF ShutdownPart, OSAt
<1>4. ASSUME NEW w \in OSWorkers, OSAt(OSMain, "run"), OSWait(w)
      PROVE  IInv' /\ ShutdownPart'
  <2>1. OSMain \in OSThreads /\ w \in OSThreads
    BY Constants
  <2>2. \/ osThr' = osThr
        \/ \E p \in {"joinwait", "waiting"} : OSMoves(OSMain, [OSThread EXCEPT !.pc = p, !.joins = w])
    BY <1>4 DEF OSWait, WaitAmiga, WaitBeos, WaitOs2, WaitWin, WaitHandle
  <2>3. \A p \in {"joinwait", "waiting"} :
          OSMoves(OSMain, [OSThread EXCEPT !.pc = p, !.joins = w]) => osThr'[OSMain].pc = p
    <3>. DEFINE waits(p) == [OSThread EXCEPT !.pc = p, !.joins = w]
    <3>1. ASSUME NEW p \in {"joinwait", "waiting"} PROVE waits(p) \in OSThreadType /\ waits(p).pc = p
      <4>1. p \in OSPhases
        BY DEF OSPhases
      <4>. QED  BY <2>1, <4>1, JoinRecord
    <3>. HIDE DEF waits
    <3>2. \A p \in {"joinwait", "waiting"} : OSMoves(OSMain, waits(p)) => osThr'[OSMain].pc = p
      BY <2>1, <3>1, Moved DEF IInv
    <3>. QED  BY <3>2 DEF waits
  <2>4. osThr'[OSMain].pc # "clean"
    BY <1>4, <2>2, <2>3 DEF OSAt
  <2>. QED  BY <1>4, <2>4, WaitStep DEF ShutdownPart, OSAt
<1>. QED  BY <1>1, <1>2, <1>3, <1>4 DEF OSNext, OSEnded

LEMMA InitKeeps ==
  ASSUME OSInit
  PROVE  IInv /\ ShutdownPart
<1>1. OSTyped
  BY InitTyped
<1>2. \A t \in OSThreads : osThr[t].pc = IF t = OSMain THEN "run" ELSE "none"
  BY IdleRecord DEF OSInit, OSPhases, OSThread
<1>3. Len(dtors) = 0 /\ (\A k \in TlsKeys : slotOf[k] = NoSlot)
      /\ (\A t \in OSThreads : infoId[t] = NoId /\ Empty(t) /\ osThr[t].pass = 0)
  BY IdleRecord DEF OSInit, Empty, OSPhases
<1>4. \A t \in OSThreads : /\ stores[t] = 0 /\ dropped[t] = {}
                           /\ \A v \in Stores : given[t][v] = 0
  BY DEF OSInit
<1>5. KeyPart
  BY <1>2, <1>3 DEF KeyPart, Locked, SlotKnown, Empty
<1>6. ListPart
  BY <1>2, <1>3, Constants, UThreadOSAssumption DEF ListPart, IdsUnique
<1>7. ASSUME NEW t \in OSThreads PROVE ValuesOf(t) /\ PassOf(t)
  <2>1. Accounts(t)
    BY <1>3, <1>4, Constants DEF Accounts, Empty
  <2>. QED  BY <1>2, <1>3, <2>1 DEF ValuesOf, PassOf
<1>8. ShutdownPart
  BY <1>2, Constants DEF ShutdownPart
<1>. QED  BY <1>1, <1>5, <1>6, <1>7, <1>8 DEF IInv, ValuePart

LEMMA Inductive == OSSpec => [](IInv /\ ShutdownPart)
<1>1. OSInit => IInv /\ ShutdownPart
  BY InitKeeps
<1>2. IInv /\ ShutdownPart /\ [OSNext]_osVars => (IInv /\ ShutdownPart)'
  BY NextKeeps
<1>. QED  BY <1>1, <1>2, PTL DEF OSSpec

------------------------------------------------------------------------------
(* pzuthread_get_tls_key(): whatever threads race for a key, a value lies   *)
(* in the slot that its key was given, and no two slots are one key's.      *)
THEOREM SlotsAgreed == OSSpec => []OneSlotPerKey
<1>1. ASSUME IInv PROVE OneSlotPerKey
  <2>1. \A t \in OSThreads : \A n \in Slots : slots[t][n] # Null => n <= Len(dtors) /\ slotOf[dtors[n]] = n
    BY <1>1 DEF IInv, KeyPart, Registered, OSTyped
  <2>2. ASSUME NEW m \in 1 .. Len(dtors), NEW n \in 1 .. Len(dtors), dtors[m] = dtors[n]
        PROVE  m = n
    <3>1. \A j \in 1 .. Len(dtors) :
            slotOf[dtors[j]] = j \/ (j = Len(dtors) /\ slotOf[dtors[j]] = 0)
      <4>. SUFFICES ASSUME NEW j \in 1 .. Len(dtors), ~Registered(j)
                    PROVE  j = Len(dtors) /\ slotOf[dtors[j]] = 0
        BY DEF Registered
      <4>1. PICK t \in OSThreads : j = Len(dtors) /\ Publishing(t)
        BY <1>1 DEF IInv, KeyPart
      <4>. QED  BY <4>1 DEF Publishing, NoSlot
    <3>2. Len(dtors) \in Nat
      BY <1>1 DEF IInv, OSTyped
    <3>. QED  BY <2>2, <3>1, <3>2
  <2>. QED  BY <2>1, <2>2 DEF OneSlotPerKey
<1>. QED  BY <1>1, Inductive, PTL

(* pzuthread_find_next_id(): no two threads in AmigaOS's list have the same *)
(* identifier, however often the identifiers started again at 0.            *)
THEOREM IdentifiersDiffer == OSSpec => []IdsUnique
<1>1. IInv => IdsUnique
  BY DEF IInv, ListPart
<1>. QED  BY <1>1, Inductive, PTL

(* zuthread_wait_internal() of AmigaOS: a thread that waits for another     *)
(* waits for one that has still to signal its end.                          *)
THEOREM JoinersWoken == OSSpec => []JoinWoken
<1>1. IInv => JoinWoken
  BY DEF IInv, ListPart, JoinWoken, OSAt
<1>. QED  BY <1>1, Inductive, PTL

(* pzuthread_clean_destructors(), zuthread_win32_thread_detach() and the    *)
(* proxy of AmigaOS, which makes at most MaxCleans passes: a thread that    *)
(* ended has given every value it stored to the destroy function once, but  *)
(* for the ones zuthread_set_local() overwrote.                             *)
THEOREM EndedThreadsClean ==
  ASSUME "amiga" \in OSSystems => MaxStores <= MaxCleans
  PROVE  OSSpec => []ValuesDestroyed
<1>1. ASSUME IInv PROVE ValuesDestroyed
  <2>. SUFFICES ASSUME osSys # "os2", NEW t \in OSThreads, osThr[t].pc = "ended",
                       NEW v \in 1 .. stores[t]
                PROVE  given[t][v] = IF v \in dropped[t] THEN 0 ELSE 1
    BY DEF ValuesDestroyed, AllGivenOnce, OSAt
  <2>1. Counted
    BY <1>1 DEF IInv, OSTyped, Counted, EnoughPasses
  <2>2. Accounts(t) /\ Empty(t)
    BY <1>1, <2>1 DEF IInv, ValuePart, ValuesOf
  <2>3. ~InSlot(t, v)
    <3>1. v # Null
      BY <1>1 DEF IInv, OSTyped, Null
    <3>. QED  BY <2>2, <3>1 DEF Empty, InSlot
  <2>. QED  BY <2>2, <2>3 DEF Accounts
<1>. QED  BY <1>1, Inductive, PTL
==============================================================================
