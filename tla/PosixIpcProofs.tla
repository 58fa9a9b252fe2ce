--------------------------- MODULE PosixIpcProofs ---------------------------
(***************************************************************************)
(* Proofs about named semaphores and named shared memory on POSIX systems, *)
(* for every finite set of processes: semaphores for every initial value   *)
(* and crashes at every step; shared memory however the system calls of    *)
(* zshm_new() and zshm_free() interleave, and when these calls do not      *)
(* overlap.                                                                *)
(***************************************************************************)
EXTENDS PosixShm, FiniteSetTheorems, FunctionTheorems, TLAPS

------------------------------------------------------------------------------
(* Semaphores: the inductive invariant.                                     *)

(* A process has a handle exactly while it is outside the calls that make   *)
(* and free it.                                                             *)
HandlesFit ==
  \A p \in Procs :
    IF semPc[p] = "ready" THEN sem[p].hdl \in Objects
    ELSE sem[p].hdl = NoObject /\ sem[p].created = FALSE /\ sem[p].units = 0

(* An object that nobody reaches is as good as new.                         *)
Reaped == \A o \in Objects \ SemReferenced : semVal[o] = 0 /\ semLost[o] = 0

HeldFinite == \A o \in Objects : IsFiniteSet(Held(o))

(* The processes that will unlink the name, or may.                         *)
Owner(p) == semPc[p] = "remove" \/ (semPc[p] = "ready" /\ sem[p].created # FALSE)

(* As long as nobody seized the name there is one owner at most, and the    *)
(* name is bound to what it made.                                           *)
OneOwner ==
  ~seized =>
    \A p \in Procs :
      Owner(p) => /\ semName # NoObject
                  /\ semPc[p] = "ready" => semName = sem[p].hdl
                  /\ \A q \in Procs : Owner(q) => q = p

SemIInv == SemType /\ HandlesFit /\ Reaped /\ HeldFinite /\ UnitsConserved /\ OneOwner

------------------------------------------------------------------------------
(* The units in the hands of processes, as a function of their handles.     *)
HeldIn(s, o) == UNION {{p} \X (1 .. s[p].units) : p \in {q \in Procs : s[q].hdl = o}}

LEMMA HeldIs ==
  ASSUME NEW s, NEW o, NEW x
  PROVE  x \in HeldIn(s, o) <=>
           \E p \in Procs : s[p].hdl = o /\ \E i \in 1 .. s[p].units : x = <<p, i>>
BY DEF HeldIn

LEMMA HeldNow == \A o : Held(o) = HeldIn(sem, o) /\ Held(o)' = HeldIn(sem', o)
BY DEF Held, HeldIn

LEMMA HeldSame ==
  ASSUME NEW s, NEW s2, NEW o,
         \A p \in Procs : (s[p].hdl = o \/ s2[p].hdl = o) /\ s2[p] # s[p] =>
           IF s[p].hdl = s2[p].hdl THEN s[p].units = s2[p].units
           ELSE 1 .. s[p].units = {} /\ 1 .. s2[p].units = {}
  PROVE  HeldIn(s2, o) = HeldIn(s, o)
<1>1. ASSUME NEW x PROVE x \in HeldIn(s2, o) <=> x \in HeldIn(s, o)
  BY HeldIs
<1> QED BY <1>1

LEMMA HeldGrows ==
  ASSUME NEW s, NEW s2, NEW o, NEW p \in Procs, s[p].units \in Nat,
         s[p].hdl = o, s2[p].hdl = o, s2[p].units = s[p].units + 1,
         \A q \in Procs : q # p => s2[q] = s[q]
  PROVE  /\ HeldIn(s2, o) = HeldIn(s, o) \cup {<<p, s[p].units + 1>>}
         /\ <<p, s[p].units + 1>> \notin HeldIn(s, o)
<1>1. ASSUME NEW x
      PROVE x \in HeldIn(s2, o) <=> x \in HeldIn(s, o) \/ x = <<p, s[p].units + 1>>
  BY HeldIs
<1>2. <<p, s[p].units + 1>> \notin HeldIn(s, o)
  BY HeldIs
<1> QED BY <1>1, <1>2

LEMMA HeldDrops ==
  ASSUME NEW s, NEW s2, NEW o, NEW p \in Procs, s[p].units \in Nat,
         s[p].hdl = o, s2[p].hdl # o,
         \A q \in Procs : q # p => s2[q] = s[q],
         IsFiniteSet(HeldIn(s, o))
  PROVE  /\ IsFiniteSet(HeldIn(s2, o))
         /\ Cardinality(HeldIn(s, o)) = Cardinality(HeldIn(s2, o)) + s[p].units
<1> DEFINE B == {p} \X (1 .. s[p].units)
           f == [i \in 1 .. s[p].units |-> <<p, i>>]
<1>1. ASSUME NEW x
      PROVE /\ x \in HeldIn(s, o) <=> x \in HeldIn(s2, o) \/ x \in B
            /\ ~(x \in HeldIn(s2, o) /\ x \in B)
  BY HeldIs
<1>2. HeldIn(s, o) = HeldIn(s2, o) \cup B /\ HeldIn(s2, o) \cap B = {}
  BY <1>1
<1>3. f \in Bijection(1 .. s[p].units, B)
  <2>1. f \in [1 .. s[p].units -> B]
    OBVIOUS
  <2>2. \A a, b \in 1 .. s[p].units : f[a] = f[b] => a = b
    OBVIOUS
  <2>3. \A t \in B : \E i \in 1 .. s[p].units : f[i] = t
    OBVIOUS
  <2> QED BY <2>1, <2>2, <2>3, Fun_IsBij
<1>4. Cardinality(B) = s[p].units
  BY <1>3, Fun_ExistsBij, FS_CountingElements
<1>5. IsFiniteSet(HeldIn(s2, o)) /\ IsFiniteSet(B)
  BY <1>2, FS_Subset
<1>6. Cardinality(HeldIn(s, o)) = Cardinality(HeldIn(s2, o)) + Cardinality(B) - Cardinality({})
  BY <1>2, <1>5, FS_Union
<1> QED BY <1>4, <1>5, <1>6, FS_EmptySet, FS_CardinalityType

------------------------------------------------------------------------------
(* There are more kernel objects than processes, so that a fresh one can    *)
(* be found whenever the name is free.                                      *)
LEMMA FreshExists ==
  ASSUME SemType, semName = NoObject
  PROVE  FreshObject \in Objects /\ FreshObject \notin SemReferenced
<1> DEFINE T == {sem[p].hdl : p \in Procs}
           f == [p \in Procs |-> sem[p].hdl]
<1>1. f \in Surjection(Procs, T)
  BY Fun_IsSurj
<1>2. IsFiniteSet(T) /\ Cardinality(T) <= Cardinality(Procs)
  BY <1>1, FS_Surjection, SemaphoreAssumption
<1>3. ~(Objects \subseteq T)
  <2> SUFFICES ASSUME Objects \subseteq T PROVE FALSE
    OBVIOUS
  <2>1. Cardinality(Objects) <= Cardinality(T)
    BY <1>2, FS_Subset
  <2> QED BY <1>2, <2>1, FS_CardinalityType, SemaphoreAssumption
<1>4. \E o \in Objects : o \notin SemReferenced
  BY <1>3, SemaphoreAssumption DEF SemReferenced
<1> QED BY <1>4 DEF FreshObject

LEMMA InitSemIInv == SemInit => SemIInv
<1> SUFFICES ASSUME SemInit PROVE SemIInv
  OBVIOUS
<1>1. SemType
  BY DEF SemInit, SemType, NoSem
<1>2. SemReferenced = {NoObject} \/ SemReferenced = {}
  BY DEF SemInit, SemReferenced, NoSem
<1>3. \A o \in Objects : Held(o) = {}
  BY SemaphoreAssumption DEF SemInit, Held, NoSem
<1>4. HandlesFit /\ Reaped /\ OneOwner
  BY DEF SemInit, HandlesFit, Reaped, OneOwner, Owner, NoSem
<1>5. HeldFinite /\ UnitsConserved
  BY <1>2, <1>3, FS_EmptySet DEF HeldFinite, UnitsConserved
<1> QED BY <1>1, <1>4, <1>5 DEF SemIInv

------------------------------------------------------------------------------
(* The accounts of the objects that stay reachable do not change.           *)
LEMMA AccountsKept ==
  ASSUME SemIInv,
         \A o \in Objects : Held(o)' = Held(o),
         SemReferenced' \subseteq SemReferenced \cup {NoObject},
         \A o \in SemReferenced' \cap Objects :
           semVal'[o] = semVal[o] /\ semLost'[o] = semLost[o] /\ semInit'[o] = semInit[o],
         \A o \in Objects \ SemReferenced' : semVal'[o] = 0 /\ semLost'[o] = 0
  PROVE  Reaped' /\ HeldFinite' /\ UnitsConserved'
<1>1. SemReferenced \subseteq Objects \cup {NoObject}
  BY DEF SemIInv, SemType, SemReferenced
<1>2. Reaped' /\ HeldFinite'
  BY DEF SemIInv, Reaped, HeldFinite
<1>3. UnitsConserved'
  <2> SUFFICES ASSUME NEW o \in SemReferenced' \ {NoObject}
               PROVE  semVal'[o] + semLost'[o] + Cardinality(Held(o)') = semInit'[o]
    BY DEF UnitsConserved
  <2>1. o \in Objects /\ o \in SemReferenced
    BY <1>1
  <2> QED BY <2>1 DEF SemIInv, UnitsConserved
<1> QED BY <1>2, <1>3

SemRecords == [hdl : Objects \cup {NoObject}, created : BOOLEAN,
               mode : {"open", "create"}, units : Nat]

LEMMA SemFields ==
  ASSUME SemType, NEW p \in Procs
  PROVE  /\ sem \in [Procs -> SemRecords]
         /\ sem[p].hdl \in Objects \cup {NoObject}
         /\ sem[p].created \in BOOLEAN /\ sem[p].mode \in {"open", "create"}
         /\ sem[p].units \in Nat
BY DEF SemType, SemRecords

LEMMA NoSemFields ==
  /\ NoSem \in SemRecords /\ NoSem.hdl = NoObject /\ NoSem.created = FALSE /\ NoSem.units = 0
  /\ \A m \in {"open", "create"} :
       LET r == [NoSem EXCEPT !.mode = m]
       IN  r \in SemRecords /\ r.hdl = NoObject /\ r.created = FALSE /\ r.units = 0
<1>1. NoSem \in SemRecords
  BY DEF NoSem, SemRecords
<1>2. NoSem.hdl = NoObject /\ NoSem.created = FALSE /\ NoSem.units = 0
  BY DEF NoSem
<1> QED BY <1>1, <1>2 DEF SemRecords

(* Steps of one process that touch no counter.                              *)
LEMMA QuietSteps ==
  ASSUME SemIInv, NEW p \in Procs,
         \/ \E mode \in Modes : SemNew(p, mode)
         \/ SemOpenExcl(p) /\ semName # NoObject
         \/ SemOpenFails(p)
  PROVE  SemIInv'
<1> USE DEF SemIInv
<1>1. UNCHANGED <<semName, semVal, semInit, semLost, seized>>
  BY DEF SemNew, SemOpenExcl, SemOpenFails
<1>2. /\ sem' \in [Procs -> SemRecords]
      /\ \A q \in Procs : /\ sem'[q].hdl = sem[q].hdl /\ sem'[q].units = sem[q].units
                          /\ sem'[q].created = sem[q].created
  <2>1. CASE \E mode \in Modes : SemNew(p, mode)
    <3> PICK mode \in Modes : SemNew(p, mode)
      BY <2>1
    <3>1. sem' = [sem EXCEPT ![p] = [NoSem EXCEPT !.mode = mode]] /\ semPc[p] = "none"
      BY DEF SemNew
    <3> QED BY <3>1, NoSemFields, SemFields, SemaphoreAssumption DEF SemType, HandlesFit
  <2>2. CASE SemOpenExcl(p) /\ semName # NoObject
    BY <2>2, SemFields DEF SemOpenExcl, SemType, SemRecords
  <2>3. CASE SemOpenFails(p)
    <3>1. sem' = [sem EXCEPT ![p] = NoSem] /\ semPc[p] = "open"
      BY <2>3 DEF SemOpenFails
    <3> QED BY <3>1, NoSemFields, SemFields DEF SemType, HandlesFit
  <2> QED BY <2>1, <2>2, <2>3
<1>3. /\ semPc' = [semPc EXCEPT ![p] = semPc'[p]]
      /\ semPc[p] # "ready" /\ semPc'[p] # "ready"
      /\ semPc'[p] \in {"none", "excl", "unlink", "open"}
      /\ semPc[p] # "remove"
  BY DEF SemNew, SemOpenExcl, SemOpenFails, SemType, SemGoto
<1>4. SemType'
  BY <1>1, <1>2, <1>3 DEF SemType, SemRecords
<1>5. HandlesFit'
  BY <1>2, <1>3 DEF HandlesFit, SemType
<1>6. SemReferenced' = SemReferenced
  BY <1>1, <1>2 DEF SemReferenced
<1>7. \A o : Held(o)' = Held(o)
  BY <1>2, HeldNow, HeldSame
<1>8. Reaped' /\ HeldFinite' /\ UnitsConserved'
  BY <1>1, <1>6, <1>7, AccountsKept DEF Reaped
<1>9. OneOwner'
  <2>1. \A q \in Procs : /\ Owner(q)' <=> Owner(q)
                         /\ semPc'[q] = "ready" <=> semPc[q] = "ready"
    BY <1>2, <1>3 DEF Owner, SemType
  <2> QED BY <1>1, <1>2, <2>1 DEF OneOwner
<1> QED BY <1>4, <1>5, <1>8, <1>9

LEMMA TakeOwnershipStep ==
  ASSUME SemIInv, NEW p \in Procs, SemTakeOwnership(p)
  PROVE  SemIInv'
<1> USE DEF SemIInv
<1>1. /\ UNCHANGED <<semName, semVal, semInit, semLost, semPc>> /\ seized' = TRUE
      /\ sem' = [sem EXCEPT ![p].created = TRUE] /\ semPc[p] = "ready"
  BY DEF SemTakeOwnership
<1>2. SemType'
  BY <1>1 DEF SemType
<1>3. \A q \in Procs : sem'[q].hdl = sem[q].hdl /\ sem'[q].units = sem[q].units
  BY <1>1, SemFields DEF SemType
<1>4. HandlesFit'
  BY <1>1, <1>3 DEF HandlesFit, SemType
<1>5. SemReferenced' = SemReferenced
  BY <1>1, <1>3 DEF SemReferenced
<1>6. \A o : Held(o)' = Held(o)
  BY <1>3, HeldNow, HeldSame
<1>7. Reaped' /\ HeldFinite' /\ UnitsConserved'
  BY <1>1, <1>5, <1>6, AccountsKept DEF Reaped
<1>8. OneOwner'
  BY <1>1 DEF OneOwner
<1> QED BY <1>2, <1>4, <1>7, <1>8

(* A process opens the object the name is bound to.                         *)
LEMMA OpenStep ==
  ASSUME SemIInv, NEW p \in Procs, SemOpen(p)
  PROVE  SemIInv'
<1> USE DEF SemIInv
<1>1. /\ UNCHANGED <<semName, semVal, semInit, semLost, seized>>
      /\ semPc[p] = "open" /\ semPc' = [semPc EXCEPT ![p] = "ready"]
      /\ sem' = [sem EXCEPT ![p].hdl = semName] /\ semName \in Objects
  BY DEF SemOpen, SemGoto, SemType
<1>2. /\ sem' \in [Procs -> SemRecords]
      /\ sem'[p].hdl = semName /\ sem'[p].created = FALSE /\ sem'[p].units = 0
      /\ sem[p].hdl = NoObject /\ sem[p].units = 0
      /\ \A q \in Procs : q # p => sem'[q] = sem[q]
  BY <1>1, SemFields DEF HandlesFit, SemRecords
<1>3. SemType'
  BY <1>1, <1>2 DEF SemType, SemRecords
<1>4. HandlesFit'
  BY <1>1, <1>2 DEF HandlesFit, SemType
<1>5. SemReferenced' \cap Objects = SemReferenced \cap Objects /\ SemReferenced' \subseteq SemReferenced
  <2>1. \A q \in Procs : sem'[q].hdl \in SemReferenced
    BY <1>1, <1>2 DEF SemReferenced
  <2>2. \A q \in Procs : sem[q].hdl \in Objects => sem[q].hdl \in SemReferenced'
    BY <1>1, <1>2, SemaphoreAssumption DEF SemReferenced
  <2> QED BY <1>1, <2>1, <2>2 DEF SemReferenced
<1>6. \A o : Held(o)' = Held(o)
  BY <1>2, HeldNow, HeldSame
<1>7. Reaped' /\ HeldFinite' /\ UnitsConserved'
  BY <1>1, <1>5, <1>6, AccountsKept DEF Reaped
<1>8. OneOwner'
  <2>1. semPc'[p] = "ready" /\ \A q \in Procs : q # p => semPc'[q] = semPc[q]
    BY <1>1 DEF SemType
  <2>2. ~Owner(p)'
    BY <1>2, <2>1 DEF Owner
  <2>3. \A q \in Procs : Owner(q)' => q # p /\ Owner(q)
    BY <1>2, <2>1, <2>2 DEF Owner
  <2> QED BY <1>1, <1>2, <2>1, <2>3 DEF OneOwner
<1> QED BY <1>3, <1>4, <1>7, <1>8

(* A process makes a new object and owns it.                                *)
LEMMA CreateStep ==
  ASSUME SemIInv, NEW p \in Procs, SemOpenExcl(p), semName = NoObject
  PROVE  SemIInv'
<1> USE DEF SemIInv
<1> DEFINE new == FreshObject
<1>1. new \in Objects /\ new \notin SemReferenced
  BY FreshExists
<1>2. PICK v \in InitVals :
        /\ semName' = new /\ UNCHANGED <<semLost, seized>>
        /\ semVal' = [semVal EXCEPT ![new] = v] /\ semInit' = [semInit EXCEPT ![new] = v]
        /\ sem' = [sem EXCEPT ![p].hdl = new, ![p].created = TRUE]
        /\ semPc[p] = "excl" /\ semPc' = [semPc EXCEPT ![p] = "ready"]
  BY DEF SemOpenExcl, SemGoto
<1> HIDE DEF new
<1>3. v \in Nat
  BY SemaphoreAssumption
<1>4. /\ sem' \in [Procs -> SemRecords]
      /\ sem'[p].hdl = new /\ sem'[p].created = TRUE /\ sem'[p].units = 0
      /\ sem[p].hdl = NoObject /\ sem[p].units = 0
      /\ \A q \in Procs : q # p => sem'[q] = sem[q]
  BY <1>1, <1>2, SemFields DEF HandlesFit, SemRecords
<1>5. SemType'
  BY <1>1, <1>2, <1>3, <1>4 DEF SemType, SemRecords
<1>6. HandlesFit'
  BY <1>1, <1>2, <1>4 DEF HandlesFit, SemType
<1>7. SemReferenced' \cap Objects = (SemReferenced \cap Objects) \cup {new}
  <2>1. \A q \in Procs : sem'[q].hdl \in SemReferenced \cup {new}
    BY <1>2, <1>4 DEF SemReferenced
  <2>2. \A q \in Procs : sem[q].hdl \in Objects => sem[q].hdl \in SemReferenced'
    BY <1>2, <1>4, SemaphoreAssumption DEF SemReferenced
  <2>3. semName' = new /\ semName \notin Objects
    BY <1>2, SemaphoreAssumption
  <2>4. SemReferenced' \subseteq SemReferenced \cup {new}
    BY <2>1, <2>3 DEF SemReferenced
  <2>5. SemReferenced \cap Objects \subseteq SemReferenced'
    BY <2>2, <2>3 DEF SemReferenced
  <2>6. new \in SemReferenced'
    BY <2>3 DEF SemReferenced
  <2> QED BY <1>1, <2>4, <2>5, <2>6
<1>8. \A o : Held(o)' = Held(o)
  BY <1>4, HeldNow, HeldSame
<1>9. Held(new) = {}
  <2>1. \A q \in Procs : sem[q].hdl # new
    BY <1>1 DEF SemReferenced
  <2> QED BY <2>1 DEF Held
<1>10. Reaped' /\ HeldFinite'
  BY <1>2, <1>7, <1>8 DEF Reaped, HeldFinite, SemType
<1>11. UnitsConserved'
  <2> SUFFICES ASSUME NEW o \in SemReferenced' \ {NoObject}
               PROVE  semVal'[o] + semLost'[o] + Cardinality(Held(o)') = semInit'[o]
    BY DEF UnitsConserved
  <2>1. o \in Objects
    BY <1>2, <1>4, <1>1 DEF SemReferenced, SemRecords
  <2>2. CASE o = new
    <3>1. semVal'[new] = v /\ semInit'[new] = v /\ semLost'[new] = 0
      BY <1>1, <1>2 DEF Reaped, SemType
    <3>2. Held(o)' = {}
      BY <1>8, <1>9, <2>2
    <3> QED BY <1>3, <2>2, <3>1, <3>2, FS_EmptySet
  <2>3. CASE o # new
    <3>1. o \in SemReferenced
      BY <1>7, <2>1, <2>3
    <3>2. semVal'[o] = semVal[o] /\ semLost'[o] = semLost[o] /\ semInit'[o] = semInit[o]
      BY <1>2, <2>1, <2>3 DEF SemType
    <3> QED BY <1>8, <3>1, <3>2 DEF UnitsConserved
  <2> QED BY <2>2, <2>3
<1>12. OneOwner'
  <2>1. ~seized => \A q \in Procs : ~Owner(q)
    BY DEF OneOwner
  <2>2. ~seized' => \A q \in Procs : Owner(q)' => q = p
    BY <1>2, <1>4, <2>1 DEF Owner, SemType
  <2> QED BY <1>1, <1>2, <1>4, <2>2, SemaphoreAssumption DEF OneOwner, SemType
<1> QED BY <1>5, <1>6, <1>10, <1>11, <1>12

------------------------------------------------------------------------------
(* Units change hands.                                                      *)
LEMMA AcquireReleaseStep ==
  ASSUME SemIInv, NEW p \in Procs, SemAcquire(p) \/ SemRelease(p)
  PROVE  SemIInv'
<1> USE DEF SemIInv
<1> PICK h : h = sem[p].hdl
  OBVIOUS
<1>1. /\ UNCHANGED <<semName, semInit, semLost, semPc, seized>> /\ semPc[p] = "ready"
      /\ h \in Objects /\ semVal[h] \in Nat /\ sem[p].units \in Nat
  BY SemFields DEF SemAcquire, SemRelease, HandlesFit, SemType
<1>2. PICK d \in {1, -1} :
      /\ semVal' = [semVal EXCEPT ![h] = @ - d] /\ semVal[h] - d \in Nat
      /\ sem' = [sem EXCEPT ![p].units = @ + d] /\ sem[p].units + d \in Nat
  <2>1. CASE SemAcquire(p)
    <3>1. /\ semVal' = [semVal EXCEPT ![h] = @ - 1] /\ semVal[h] - 1 \in Nat
          /\ sem' = [sem EXCEPT ![p].units = @ + 1]
      BY <1>1, <2>1 DEF SemAcquire
    <3> QED BY <1>1, <3>1
  <2>2. CASE SemRelease(p)
    <3>1. /\ semVal' = [semVal EXCEPT ![h] = @ + 1] /\ sem[p].units - 1 \in Nat
          /\ sem' = [sem EXCEPT ![p].units = @ - 1]
      BY <1>1, <2>2 DEF SemRelease
    <3>2. semVal' = [semVal EXCEPT ![h] = semVal[h] + 1] /\ sem' = [sem EXCEPT ![p].units = sem[p].units - 1]
      BY <3>1
    <3>3. semVal[h] - (-1) = semVal[h] + 1 /\ sem[p].units + (-1) = sem[p].units - 1
      BY <1>1
    <3>4. semVal' = [semVal EXCEPT ![h] = semVal[h] - (-1)] /\ sem' = [sem EXCEPT ![p].units = sem[p].units + (-1)]
      BY <3>2, <3>3
    <3>5. semVal[h] - (-1) \in Nat /\ sem[p].units + (-1) \in Nat
      BY <1>1, <3>1, <3>3
    <3> WITNESS -1 \in {1, -1}
    <3> QED BY <3>4, <3>5
  <2> QED BY <2>1, <2>2
<1>3. /\ sem' \in [Procs -> SemRecords]
      /\ sem'[p].hdl = h /\ sem'[p].created = sem[p].created
      /\ sem'[p].units = sem[p].units + d
      /\ \A q \in Procs : q # p => sem'[q] = sem[q]
  BY <1>1, <1>2, SemFields DEF SemRecords
<1>4. SemType'
  BY <1>1, <1>2, <1>3 DEF SemType, SemRecords
<1>5. HandlesFit' /\ OneOwner'
  <2>1. \A q \in Procs : sem'[q].hdl = sem[q].hdl /\ (Owner(q)' <=> Owner(q))
    BY <1>1, <1>3 DEF Owner, SemType
  <2>2. HandlesFit'
    BY <1>1, <1>3 DEF HandlesFit
  <2> QED BY <1>1, <2>1, <2>2 DEF OneOwner
<1>6. SemReferenced' = SemReferenced
  <2>1. \A q \in Procs : sem'[q].hdl = sem[q].hdl
    BY <1>3
  <2> QED BY <1>1, <2>1 DEF SemReferenced
<1>7. \A o : o # h => Held(o)' = Held(o)
  BY <1>3, HeldNow, HeldSame
<1>8. IsFiniteSet(Held(h)') /\ Cardinality(Held(h)') = Cardinality(Held(h)) + d
  <2>1. CASE d = 1
    <3> DEFINE x == <<p, sem[p].units + 1>>
    <3>1. Held(h)' = Held(h) \cup {x} /\ x \notin Held(h)
      BY <1>1, <1>3, <2>1, HeldNow, HeldGrows
    <3>2. IsFiniteSet(Held(h))
      BY <1>1 DEF HeldFinite
    <3> HIDE DEF x
    <3>3. IsFiniteSet(Held(h) \cup {x}) /\ Cardinality(Held(h) \cup {x}) = Cardinality(Held(h)) + 1
      BY <3>1, <3>2, FS_AddElement
    <3> QED BY <2>1, <3>1, <3>3
  <2>2. CASE d = -1
    <3> DEFINE x == <<p, sem'[p].units + 1>>
    <3>1. sem'[p].units \in Nat /\ sem[p].units = sem'[p].units + 1
      BY <1>1, <1>2, <1>3, <2>2
    <3>2. Held(h) = Held(h)' \cup {x} /\ x \notin Held(h)'
      <4>1. HeldIn(sem, h) = HeldIn(sem', h) \cup {x} /\ x \notin HeldIn(sem', h)
        <5>1. /\ sem'[p].hdl = h /\ sem[p].hdl = h
              /\ \A q \in Procs : q # p => sem[q] = sem'[q]
          BY <1>3
        <5>2. \A s, s2, o : /\ s[p].units \in Nat /\ s[p].hdl = o /\ s2[p].hdl = o
                            /\ s2[p].units = s[p].units + 1
                            /\ \A q \in Procs : q # p => s2[q] = s[q]
                => /\ HeldIn(s2, o) = HeldIn(s, o) \cup {<<p, s[p].units + 1>>}
                   /\ <<p, s[p].units + 1>> \notin HeldIn(s, o)
          BY HeldGrows
        <5> QED BY <3>1, <5>1, <5>2
      <4> QED BY <4>1, HeldNow
    <3>3. Held(h)' = Held(h) \ {x} /\ x \in Held(h)
      BY <3>2
    <3>4. IsFiniteSet(Held(h)) /\ Cardinality(Held(h)) \in Nat
      BY <1>1, FS_CardinalityType DEF HeldFinite
    <3> HIDE DEF x
    <3> QED BY <2>2, <3>3, <3>4, FS_RemoveElement
  <2> QED BY <1>2, <2>1, <2>2
<1>9. Reaped' /\ HeldFinite'
  <2>1. h \in SemReferenced
    BY DEF SemReferenced
  <2> QED BY <1>1, <1>2, <1>6, <1>7, <1>8, <2>1 DEF Reaped, HeldFinite, SemType
<1>10. UnitsConserved'
  <2> SUFFICES ASSUME NEW o \in SemReferenced' \ {NoObject}
               PROVE  semVal'[o] + semLost'[o] + Cardinality(Held(o)') = semInit'[o]
    BY DEF UnitsConserved
  <2>1. o \in Objects /\ o \in SemReferenced
    BY <1>6 DEF SemReferenced, SemType
  <2>2. CASE o = h
    <3>1. /\ Cardinality(Held(h)) \in Nat /\ semLost[h] \in Nat /\ d \in Int
          /\ semVal[h] + semLost[h] + Cardinality(Held(h)) = semInit[h]
      BY <1>1, <1>2, <2>1, <2>2, FS_CardinalityType DEF HeldFinite, SemType, UnitsConserved
    <3>2. semVal'[h] = semVal[h] - d /\ semLost'[h] = semLost[h] /\ semInit'[h] = semInit[h]
      BY <1>1, <1>2 DEF SemType
    <3> QED BY <1>1, <1>8, <2>2, <3>1, <3>2
  <2>3. CASE o # h
    BY <1>1, <1>2, <1>7, <2>1, <2>3 DEF UnitsConserved, SemType
  <2> QED BY <2>2, <2>3
<1> QED BY <1>4, <1>5, <1>9, <1>10

------------------------------------------------------------------------------
(* Names and handles go, and the kernel reaps what they held.               *)

LEMMA ReapTyped ==
  ASSUME SemType, SemReap
  PROVE  /\ semVal' \in [Objects -> Nat] /\ semInit' \in [Objects -> InitVals \cup {0}]
         /\ semLost' \in [Objects -> Nat]
         /\ \A o \in SemReferenced' \cap Objects :
              semVal'[o] = semVal[o] /\ semLost'[o] = semLost[o] /\ semInit'[o] = semInit[o]
         /\ \A o \in Objects \ SemReferenced' : semVal'[o] = 0 /\ semLost'[o] = 0
BY DEF SemType, SemReap

LEMMA UnlinkStep ==
  ASSUME SemIInv, NEW p \in Procs, SemUnlinkOld(p) \/ SemUnlinkOwn(p)
  PROVE  SemIInv'
<1> USE DEF SemIInv
<1>1. /\ semName' = NoObject /\ sem' = sem /\ SemReap
      /\ semPc' = [semPc EXCEPT ![p] = semPc'[p]]
      /\ semPc[p] # "ready" /\ semPc'[p] \in {"open", "none"}
      /\ seized' \in BOOLEAN
      /\ ~seized' => ~seized /\ semPc[p] = "remove"
  BY DEF SemUnlinkOld, SemUnlinkOwn, SemGoto, SemType
<1>2. SemType'
  BY <1>1, ReapTyped DEF SemType
<1>3. HandlesFit'
  BY <1>1 DEF HandlesFit, SemType
<1>4. SemReferenced' \subseteq SemReferenced \cup {NoObject}
  BY <1>1 DEF SemReferenced
<1>5. \A o : Held(o)' = Held(o)
  BY <1>1 DEF Held
<1>6. Reaped' /\ HeldFinite' /\ UnitsConserved'
  BY <1>1, <1>4, <1>5, ReapTyped, AccountsKept
<1>7. OneOwner'
  <2> SUFFICES ASSUME ~seized' PROVE \A q \in Procs : ~Owner(q)'
    BY DEF OneOwner
  <2>0. ~seized /\ semPc[p] = "remove"
    BY <1>1
  <2>1. Owner(p)
    BY <2>0 DEF Owner
  <2>2. \A q \in Procs : q # p => ~Owner(q)
    BY <2>0, <2>1 DEF OneOwner
  <2> QED BY <1>1, <2>2 DEF Owner, SemType
<1> QED BY <1>2, <1>3, <1>6, <1>7

LEMMA CloseStep ==
  ASSUME SemIInv, NEW p \in Procs, SemClose(p)
  PROVE  SemIInv'
<1> USE DEF SemIInv
<1>1. /\ UNCHANGED <<semName, seized>> /\ SemReap
      /\ sem' = [sem EXCEPT ![p] = NoSem] /\ sem[p].units = 0 /\ semPc[p] = "ready"
      /\ semPc' = [semPc EXCEPT ![p] = semPc'[p]] /\ semPc'[p] \in {"remove", "none"}
  BY DEF SemClose, SemGoto, SemType
<1>2. semPc'[p] = "remove" => sem[p].created # FALSE
  BY SemFields DEF SemClose, SemGoto, SemType
<1>3. /\ sem' \in [Procs -> SemRecords]
      /\ sem'[p].hdl = NoObject /\ sem'[p].created = FALSE /\ sem'[p].units = 0
      /\ \A q \in Procs : q # p => sem'[q] = sem[q]
  BY <1>1, NoSemFields, SemFields
<1>4. SemType'
  BY <1>1, <1>3, ReapTyped DEF SemType, SemRecords
<1>5. HandlesFit'
  BY <1>1, <1>3 DEF HandlesFit, SemType
<1>6. SemReferenced' \subseteq SemReferenced \cup {NoObject}
  <2>1. \A q \in Procs : sem'[q].hdl \in SemReferenced \cup {NoObject}
    BY <1>3 DEF SemReferenced
  <2> QED BY <1>1, <2>1 DEF SemReferenced
<1>7. \A o : Held(o)' = Held(o)
  <2>1. 1 .. sem[p].units = {} /\ 1 .. sem'[p].units = {}
    BY <1>1, <1>3
  <2>2. ASSUME NEW o PROVE HeldIn(sem', o) = HeldIn(sem, o)
    <3>1. ASSUME NEW q \in Procs, sem'[q] # sem[q]
          PROVE  1 .. sem[q].units = {} /\ 1 .. sem'[q].units = {} /\ sem[q].units = sem'[q].units
      BY <1>1, <1>3, <2>1, <3>1
    <3> QED BY <3>1, HeldSame
  <2> QED BY <2>2, HeldNow
<1>8. Reaped' /\ HeldFinite' /\ UnitsConserved'
  BY <1>1, <1>6, <1>7, ReapTyped, AccountsKept
<1>9. OneOwner'
  <2>1. \A q \in Procs : Owner(q)' => Owner(q) /\ (q # p => (semPc'[q] = "ready" => semPc[q] = "ready"))
    BY <1>1, <1>2, <1>3 DEF Owner, SemType
  <2>2. semPc'[p] # "ready"
    BY <1>1
  <2> QED BY <1>1, <1>3, <2>1, <2>2 DEF OneOwner
<1> QED BY <1>4, <1>5, <1>8, <1>9

(* A process dies; the units it held are lost.                              *)
LEMMA DieStep ==
  ASSUME SemIInv, NEW p \in Procs, SemDie(p)
  PROVE  SemIInv'
<1> USE DEF SemIInv
<1> PICK h : h = sem[p].hdl
  OBVIOUS
<1>1. /\ UNCHANGED <<semName, seized>>
      /\ sem' = [sem EXCEPT ![p] = NoSem] /\ semPc' = [semPc EXCEPT ![p] = "none"]
      /\ semVal' = [o \in Objects |-> IF o \in SemReferenced' THEN semVal[o] ELSE 0]
      /\ semInit' = [o \in Objects |-> IF o \in SemReferenced' THEN semInit[o] ELSE 0]
      /\ semLost' = [o \in Objects |->
           IF o \notin SemReferenced' THEN 0
           ELSE IF o = h THEN semLost[o] + sem[p].units ELSE semLost[o]]
  BY DEF SemDie, SemGoto
<1>2. /\ sem' \in [Procs -> SemRecords] /\ sem[p].units \in Nat
      /\ sem'[p].hdl = NoObject /\ sem'[p].created = FALSE /\ sem'[p].units = 0
      /\ \A q \in Procs : q # p => sem'[q] = sem[q]
  BY <1>1, NoSemFields, SemFields
<1>3. SemType'
  <2>1. /\ semVal' \in [Objects -> Nat] /\ semInit' \in [Objects -> InitVals \cup {0}]
        /\ semLost' \in [Objects -> Nat]
    BY <1>1, <1>2 DEF SemType
  <2> QED BY <1>1, <1>2, <2>1 DEF SemType, SemRecords
<1>4. HandlesFit' /\ OneOwner'
  <2>1. \A q \in Procs : Owner(q)' => /\ Owner(q) /\ sem'[q] = sem[q]
                                      /\ semPc'[q] = semPc[q]
    BY <1>1, <1>2 DEF Owner, SemType
  <2>2. HandlesFit'
    BY <1>1, <1>2 DEF HandlesFit, SemType
  <2> QED BY <1>1, <2>1, <2>2 DEF OneOwner
<1>5. SemReferenced' \subseteq SemReferenced \cup {NoObject}
  <2>1. \A q \in Procs : sem'[q].hdl \in SemReferenced \cup {NoObject}
    BY <1>2 DEF SemReferenced
  <2> QED BY <1>1, <2>1 DEF SemReferenced
<1>6. \A o \in Objects : o # h => Held(o)' = Held(o)
  <2> SUFFICES ASSUME NEW o \in Objects, o # h PROVE HeldIn(sem', o) = HeldIn(sem, o)
    BY HeldNow
  <2>1. \A q \in Procs : sem[q].hdl = o \/ sem'[q].hdl = o => sem'[q] = sem[q]
    BY <1>2, SemaphoreAssumption
  <2> QED BY <2>1, HeldSame
<1>7. h \in Objects => /\ IsFiniteSet(Held(h)')
                       /\ Cardinality(Held(h)) = Cardinality(Held(h)') + sem[p].units
  <2> SUFFICES ASSUME h \in Objects
               PROVE  /\ IsFiniteSet(HeldIn(sem', h))
                      /\ Cardinality(HeldIn(sem, h)) = Cardinality(HeldIn(sem', h)) + sem[p].units
    BY HeldNow
  <2>1. IsFiniteSet(HeldIn(sem, h)) /\ sem'[p].hdl # h
    BY <1>2, HeldNow, SemaphoreAssumption DEF HeldFinite
  <2> QED BY <1>2, <2>1, HeldDrops
<1>8. HeldFinite' /\ Reaped'
  BY <1>1, <1>6, <1>7 DEF HeldFinite, Reaped
<1>9. UnitsConserved'
  <2> SUFFICES ASSUME NEW o \in SemReferenced' \ {NoObject}
               PROVE  semVal'[o] + semLost'[o] + Cardinality(Held(o)') = semInit'[o]
    BY DEF UnitsConserved
  <2>1. o \in Objects /\ o \in SemReferenced
    <3>1. SemReferenced \subseteq Objects \cup {NoObject}
      BY SemFields DEF SemReferenced, SemType
    <3> QED BY <1>5, <3>1
  <2>2. semVal[o] + semLost[o] + Cardinality(Held(o)) = semInit[o]
    BY <2>1 DEF UnitsConserved
  <2>3. /\ semVal'[o] = semVal[o] /\ semInit'[o] = semInit[o]
        /\ semLost'[o] = IF o = h THEN semLost[o] + sem[p].units ELSE semLost[o]
    BY <1>1, <2>1
  <2>4. CASE o = h
    <3>1. Cardinality(Held(h)') \in Nat /\ semVal[o] \in Nat /\ semLost[o] \in Nat
      BY <1>7, <2>1, <2>4, FS_CardinalityType DEF SemType
    <3>2. Cardinality(Held(o)) = Cardinality(Held(o)') + sem[p].units
      BY <1>7, <2>1, <2>4
    <3> QED BY <1>2, <2>2, <2>3, <2>4, <3>1, <3>2
  <2>5. CASE o # h
    BY <1>6, <2>1, <2>2, <2>3, <2>5
  <2> QED BY <2>4, <2>5
<1> QED BY <1>3, <1>4, <1>8, <1>9

------------------------------------------------------------------------------
LEMMA SemSteps == SemIInv /\ [SemNext]_semVars => SemIInv'
<1> SUFFICES ASSUME SemIInv, [SemNext]_semVars PROVE SemIInv'
  OBVIOUS
<1>1. CASE UNCHANGED semVars
  <2>1. SemType' /\ HandlesFit' /\ OneOwner'
    BY <1>1 DEF semVars, SemIInv, SemType, HandlesFit, OneOwner, Owner
  <2>2. Reaped' /\ HeldFinite' /\ UnitsConserved'
    <3>1. SemReferenced' = SemReferenced /\ \A o : Held(o)' = Held(o)
      BY <1>1 DEF semVars, SemReferenced, Held
    <3> QED BY <1>1, <3>1 DEF semVars, SemIInv, Reaped, HeldFinite, UnitsConserved
  <2> QED BY <2>1, <2>2 DEF SemIInv
<1>2. CASE SemNext
  BY <1>2, QuietSteps, TakeOwnershipStep, OpenStep, CreateStep, AcquireReleaseStep,
     UnlinkStep, CloseStep, DieStep
  DEF SemNext, SemNewStep, SemCrash
<1> QED BY <1>1, <1>2

(* However processes create, open, unlink, use and free semaphores of one   *)
(* name, and whichever die, every variable keeps its type; in particular    *)
(* no counter becomes negative and a handle always leads to an object.      *)
THEOREM SemTyped == SemSpec => []SemType
<1>1. SemIInv => SemType
  BY DEF SemIInv
<1> QED BY <1>1, InitSemIInv, SemSteps, PTL DEF SemSpec

(* UnitsConserved for any number of processes and any initial values: no    *)
(* unit is made or lost whatever is unlinked and created again.             *)
THEOREM NoUnitMadeOrLost == SemSpec => []UnitsConserved
<1>1. SemIInv => UnitsConserved
  BY DEF SemIInv
<1> QED BY <1>1, InitSemIInv, SemSteps, PTL DEF SemSpec

(* Of the processes that hold a handle to an object made with init_val 1 at *)
(* most one is between zsemaphore_acquire() and zsemaphore_release().       *)
BinaryExcludes ==
  \A p, q \in Procs :
    p # q /\ sem[p].hdl = sem[q].hdl /\ sem[p].hdl \in Objects /\ semInit[sem[p].hdl] = 1
      => sem[p].units = 0 \/ sem[q].units = 0

LEMMA ConservedExcludes ==
  ASSUME SemIInv, NEW p \in Procs, NEW q \in Procs, p # q,
         sem[p].hdl = sem[q].hdl, sem[p].hdl \in Objects, semInit[sem[p].hdl] \in {0, 1}
  PROVE  sem[p].units = 0 \/ sem[q].units = 0
<1> SUFFICES ASSUME sem[p].units # 0, sem[q].units # 0 PROVE FALSE
  OBVIOUS
<1> DEFINE o == sem[p].hdl
<1>1. sem[p].units \in Nat /\ sem[q].units \in Nat
  BY SemFields DEF SemIInv
<1>2. <<p, 1>> \in Held(o) /\ <<q, 1>> \in Held(o)
  BY <1>1, HeldNow, HeldIs
<1>3. semVal[o] + semLost[o] + Cardinality(Held(o)) \in {0, 1} /\ IsFiniteSet(Held(o))
  BY SemaphoreAssumption DEF SemIInv, UnitsConserved, SemReferenced, HeldFinite
<1>4. semVal[o] \in Nat /\ semLost[o] \in Nat /\ Cardinality(Held(o)) \in Nat
  BY <1>3, FS_CardinalityType DEF SemIInv, SemType
<1>5. {<<p, 1>>, <<q, 1>>} \subseteq Held(o) /\ <<p, 1>> # <<q, 1>>
  BY <1>2
<1>6. Cardinality({<<p, 1>>} \cup {<<q, 1>>}) = 2 /\ {<<p, 1>>} \cup {<<q, 1>>} \subseteq Held(o)
  <2>1. /\ Cardinality({<<p, 1>>}) = 1 /\ IsFiniteSet({<<p, 1>>})
        /\ <<q, 1>> \notin {<<p, 1>>}
    BY <1>5, FS_Singleton
  <2>2. Cardinality({<<p, 1>>} \cup {<<q, 1>>}) = Cardinality({<<p, 1>>}) + 1
    BY <2>1, FS_AddElement
  <2> QED BY <1>5, <2>1, <2>2
<1>7. Cardinality({<<p, 1>>} \cup {<<q, 1>>}) <= Cardinality(Held(o))
  BY <1>3, <1>6, FS_Subset
<1> QED BY <1>3, <1>4, <1>6, <1>7

(* A semaphore made with init_val 1 is a mutex, as zshm_lock() relies on.   *)
THEOREM BinaryIsMutex == SemSpec => []BinaryExcludes
<1>1. SemIInv => BinaryExcludes
  BY ConservedExcludes DEF BinaryExcludes
<1> QED BY <1>1, InitSemIInv, SemSteps, PTL DEF SemSpec

(* As long as nobody resets the name or takes it over, zsemaphore_free()    *)
(* of its creator removes the creator's semaphore and no other, crashes     *)
(* included.                                                                *)
THEOREM OwnerRemovesItsOwn == SemSpec => []OwnerBound
<1>1. SemIInv => OwnerBound
  <2> SUFFICES ASSUME SemIInv, ~seized, NEW p \in Procs
               PROVE  /\ semPc[p] = "ready" /\ sem[p].created => semName = sem[p].hdl
                      /\ semPc[p] = "remove" =>
                           semName # NoObject /\ \A q \in Procs : sem[q].hdl = semName => ~sem[q].created
    BY DEF OwnerBound
  <2>1. \A q \in Procs : sem[q].created # FALSE => Owner(q)
    BY SemFields DEF SemIInv, HandlesFit, Owner
  <2>2. \A q \in Procs : semPc[q] = "remove" => sem[q].created = FALSE /\ Owner(q)
    <3>1. \A q \in Procs : semPc[q] = "remove" => sem[q].created = FALSE
      BY DEF SemIInv, HandlesFit
    <3> QED BY <3>1 DEF Owner
  <2>3. \A q \in Procs : sem[q].created \in BOOLEAN
    BY SemFields DEF SemIInv
  <2>4. semPc[p] = "ready" /\ sem[p].created => semName = sem[p].hdl
    BY <2>1, <2>3 DEF SemIInv, OneOwner
  <2>5. semPc[p] = "remove" => semName # NoObject /\ \A q \in Procs : sem[q].created = FALSE
    BY <2>1, <2>2 DEF SemIInv, OneOwner
  <2> QED BY <2>3, <2>4, <2>5
<1> QED BY <1>1, InitSemIInv, SemSteps, PTL DEF SemSpec

------------------------------------------------------------------------------
(* Shared memory: the invariant of all interleavings.                       *)

ShmPhases == {"none", "excl", "open", "stat", "truncate", "map", "sem", "insem", "ready",
              "clean", "semfree", "semremove"}
ShmRecords == [seg : Segments \cup {NoSegment}, created : BOOLEAN, exists : BOOLEAN,
               size : Sizes \cup {0}, asked : Sizes \cup {0}]

ShmTyped ==
  /\ shmName \in Segments \cup {NoSegment}
  /\ segSize \in [Segments -> Sizes \cup {0}]
  /\ shm \in [Procs -> ShmRecords]
  /\ shmPc \in [Procs -> ShmPhases]

(* Where a process is in its PShm says where it is in its PSemaphore.       *)
PhaseOf(p) ==
  /\ shmPc[p] \in {"none", "excl", "open", "stat", "truncate", "map", "sem"} => semPc[p] = "none"
  /\ shmPc[p] = "insem" => semPc[p] # "remove"
  /\ shmPc[p] \in {"ready", "semfree"} => semPc[p] = "ready"
  /\ shmPc[p] = "clean" => semPc[p] \in {"none", "ready"}
  /\ shmPc[p] = "semremove" => semPc[p] = "remove"

(* A creator still has to give its segment a size; whoever read or set the  *)
(* size maps no more than there is.                                         *)
SegmentOf(p) ==
  /\ shmPc[p] \in {"none", "semfree", "semremove"} => shm[p] = NoShm
  /\ shmPc[p] \in {"excl", "open"} => shm[p].seg = NoSegment /\ shm[p].created = FALSE
  /\ shmPc[p] \in {"stat", "truncate", "map", "sem", "insem", "ready"} => shm[p].seg \in Segments
  /\ shmPc[p] = "truncate" => segSize[shm[p].seg] = 0
  /\ shmPc[p] \in {"map", "sem", "insem", "ready"} => shm[p].size <= segSize[shm[p].seg]
  /\ shmPc[p] \in {"sem", "insem", "ready"} => shm[p].size # 0

PhasesFit == \A p \in Procs : PhaseOf(p)
SegmentsFit == \A p \in Procs : SegmentOf(p)

OneTruncates ==
  \A p, q \in Procs :
    shmPc[p] = "truncate" /\ shmPc[q] = "truncate" /\ shm[p].seg = shm[q].seg => p = q

ShmReaped == \A g \in Segments \ ShmReferenced : segSize[g] = 0

(* As long as nobody is killed, who bound a name is there to remove it.     *)
SegmentOwned == shmName # NoSegment /\ Crashers = {} => \E p \in Procs : shm[p].created = TRUE
SemaphoreOwned ==
  semName # NoObject /\ Crashers = {} =>
    \E p \in Procs : semPc[p] = "remove" \/ sem[p].created = TRUE

ShmIInv ==
  /\ SemIInv /\ ShmTyped /\ PhasesFit /\ SegmentsFit
  /\ OneTruncates /\ ShmReaped /\ SegmentOwned /\ SemaphoreOwned

------------------------------------------------------------------------------
LEMMA ShmFields ==
  ASSUME ShmTyped, NEW p \in Procs
  PROVE  /\ shm[p] \in ShmRecords /\ shm[p].seg \in Segments \cup {NoSegment}
         /\ shm[p].created \in BOOLEAN /\ shm[p].exists \in BOOLEAN
         /\ shm[p].size \in Nat /\ shm[p].asked \in Nat
         /\ shm[p].size \in Sizes \cup {0} /\ shm[p].asked \in Sizes \cup {0}
         /\ shmPc[p] \in ShmPhases
<1>1. Sizes \cup {0} \subseteq Nat
  BY ShmAssumption
<1>. QED  BY <1>1 DEF ShmTyped, ShmRecords

LEMMA SizesAreNat ==
  ASSUME ShmTyped
  PROVE  \A g \in Segments : segSize[g] \in Nat
<1>1. Sizes \cup {0} \subseteq Nat
  BY ShmAssumption
<1>. QED  BY <1>1 DEF ShmTyped

LEMMA NoShmFields ==
  /\ NoShm \in ShmRecords /\ NoShm.seg = NoSegment /\ NoShm.created = FALSE
  /\ NoShm.exists = FALSE /\ NoShm.size = 0 /\ NoShm.asked = 0
<1>1. /\ NoShm.seg = NoSegment /\ NoShm.created = FALSE
      /\ NoShm.exists = FALSE /\ NoShm.size = 0 /\ NoShm.asked = 0
  BY DEF NoShm
<1>2. NoShm \in ShmRecords
  BY DEF NoShm, ShmRecords
<1>. QED  BY <1>1, <1>2

(* There are more segments than processes: a free one can be found.         *)
LEMMA FreshSegmentExists ==
  ASSUME ShmTyped, shmName = NoSegment
  PROVE  FreshSegment \in Segments /\ FreshSegment \notin ShmReferenced
<1>. DEFINE T == {shm[p].seg : p \in Procs}
            f == [p \in Procs |-> shm[p].seg]
<1>1. f \in Surjection(Procs, T)
  BY Fun_IsSurj
<1>2. IsFiniteSet(T) /\ Cardinality(T) <= Cardinality(Procs)
  BY <1>1, FS_Surjection, SemaphoreAssumption
<1>3. ~(Segments \subseteq T)
  <2>. SUFFICES ASSUME Segments \subseteq T PROVE FALSE
    OBVIOUS
  <2>1. Cardinality(Segments) <= Cardinality(T)
    BY <1>2, FS_Subset
  <2>2. Cardinality(Segments) > Cardinality(Procs) /\ IsFiniteSet(Segments) /\ IsFiniteSet(Procs)
    BY SemaphoreAssumption, ShmAssumption
  <2>3. Cardinality(Segments) \in Nat /\ Cardinality(Procs) \in Nat /\ Cardinality(T) \in Nat
    BY <1>2, <2>2, FS_CardinalityType
  <2>. QED  BY <1>2, <2>1, <2>2, <2>3
<1>4. \E g \in Segments : g \notin ShmReferenced
  BY <1>3, ShmAssumption DEF ShmReferenced
<1>. QED  BY <1>4 DEF FreshSegment

LEMMA InitShmIInv == Init => ShmIInv
<1>. SUFFICES ASSUME Init PROVE ShmIInv
  OBVIOUS
<1>1. SemIInv
  BY InitSemIInv DEF Init
<1>2. ShmTyped
  BY NoShmFields DEF Init, ShmTyped, ShmPhases
<1>3. PhasesFit /\ SegmentsFit /\ OneTruncates /\ ShmReaped /\ SegmentOwned /\ SemaphoreOwned
  BY DEF Init, SemInit, PhasesFit, PhaseOf, SegmentsFit, SegmentOf, OneTruncates, ShmReaped,
         SegmentOwned, SemaphoreOwned
<1>. QED  BY <1>1, <1>2, <1>3 DEF ShmIInv

(* What a process does to its semaphore it could do without shared memory.  *)
LEMMA SemaphorePart ==
  ASSUME ShmIInv, [Next]_vars
  PROVE  SemIInv'
<1>1. SemIInv
  BY DEF ShmIInv
<1>2. UNCHANGED semVars \/ SemNext \/ \E p \in Procs : SemDie(p)
  <2>1. CASE UNCHANGED vars
    BY <2>1 DEF vars
  <2>2. CASE Next
    <3>1. PICK p \in Procs :
            \/ \E size \in Sizes : ShmNew(p, size)
            \/ ShmStep(p) \/ ShmTakeOwnership(p)
            \/ ShmLock(p) \/ ShmUnlock(p) \/ ShmFree(p) \/ ShmCrash(p)
      BY <2>2 DEF Next
    <3>2. (\E size \in Sizes : ShmNew(p, size)) \/ ShmFree(p) => UNCHANGED semVars
      BY DEF ShmNew, ShmFree
    <3>3. \E m \in Modes : m = IF shm[p].exists THEN "open" ELSE "create"
      BY ShmAssumption
    <3>4. ShmSemNew(p) => SemNext
      BY <3>3, Zenon DEF ShmSemNew, SemNext
    <3>5. ShmSemClose(p) \/ ShmSemUnlink(p) \/ SemNewStep(p) => SemNext
      BY Zenon DEF ShmSemClose, ShmSemUnlink, SemNext
    <3>6. ShmOpenExcl(p) \/ ShmOpen(p) \/ ShmStat(p) \/ ShmTruncate(p) \/ ShmMap(p)
             \/ ShmNewReturn(p) \/ ShmClean(p) => UNCHANGED semVars
      BY Zenon DEF ShmOpenExcl, ShmOpen, ShmStat, ShmTruncate, ShmMap, ShmNewReturn, ShmClean
    <3>7. ShmStep(p) => UNCHANGED semVars \/ SemNext
      BY <3>4, <3>5, <3>6, Zenon DEF ShmStep
    <3>8. ShmTakeOwnership(p) \/ ShmLock(p) \/ ShmUnlock(p) => SemNext
      BY Zenon DEF ShmTakeOwnership, ShmLock, ShmUnlock, SemNext
    <3>9. ShmCrash(p) => SemDie(p)
      BY DEF ShmCrash
    <3>. QED  BY <3>1, <3>2, <3>7, <3>8, <3>9
  <2>. QED  BY <2>1, <2>2
<1>. QED  BY <1>1, <1>2, SemSteps, DieStep

------------------------------------------------------------------------------
(* The invariant of a step of p follows from what it does to p.             *)

ShmMoves(p) ==
  /\ ShmTyped'
  /\ \A q \in Procs : q # p =>
       shm'[q] = shm[q] /\ shmPc'[q] = shmPc[q] /\ sem'[q] = sem[q] /\ semPc'[q] = semPc[q]

LEMMA ShmStepKeeps ==
  ASSUME ShmIInv, SemIInv', NEW p \in Procs, ShmMoves(p), PhaseOf(p)', SegmentOf(p)',
         shmPc'[p] # "truncate",
         \A g \in Segments : g \in ShmReferenced' => segSize'[g] = segSize[g],
         \A g \in Segments : g \notin ShmReferenced' => segSize'[g] = 0,
         SegmentOwned', SemaphoreOwned'
  PROVE  ShmIInv'
<1>1. PhasesFit'
  BY DEF ShmIInv, ShmMoves, PhasesFit, PhaseOf
<1>2. SegmentsFit'
  <2>. SUFFICES ASSUME NEW q \in Procs, q # p PROVE SegmentOf(q)'
    BY DEF SegmentsFit
  <2>1. SegmentOf(q) /\ shm'[q] = shm[q] /\ shmPc'[q] = shmPc[q]
    BY DEF ShmIInv, SegmentsFit, ShmMoves
  <2>2. shm[q].seg \in Segments => segSize'[shm[q].seg] = segSize[shm[q].seg]
    BY <2>1 DEF ShmReferenced
  <2>. QED  BY <2>1, <2>2 DEF SegmentOf
<1>3. OneTruncates'
  BY DEF ShmIInv, ShmMoves, OneTruncates
<1>4. ShmReaped'
  BY DEF ShmReaped
<1>. QED  BY <1>1, <1>2, <1>3, <1>4 DEF ShmIInv, ShmMoves

LEMMA QuietShm ==
  ASSUME ShmIInv, SemIInv', NEW p \in Procs, ShmMoves(p), PhaseOf(p)', SegmentOf(p)',
         shmPc'[p] # "truncate", shmName' = shmName, segSize' = segSize,
         shm'[p].seg = shm[p].seg, shm'[p].created = shm[p].created \/ shm'[p].created = TRUE,
         SemaphoreOwned'
  PROVE  ShmIInv' /\ ShmReferenced' = ShmReferenced
<1>1. \A q \in Procs : shm'[q].seg = shm[q].seg
  BY DEF ShmMoves
<1>2. ShmReferenced' = ShmReferenced
  BY <1>1 DEF ShmReferenced
<1>3. SegmentOwned'
  BY DEF ShmIInv, SegmentOwned, ShmMoves
<1>4. \A g \in Segments : g \notin ShmReferenced' => segSize'[g] = 0
  BY <1>2 DEF ShmIInv, ShmReaped
<1>. QED  BY <1>2, <1>3, <1>4, ShmStepKeeps

(* What a step of p does to the semaphores of the others: nothing.          *)
LEMMA SemaphoreOf ==
  ASSUME SemIInv, SemaphoreOwned, NEW p \in Procs,
         \/ SemNew(p, "open") \/ SemNew(p, "create") \/ SemNewStep(p) \/ SemTakeOwnership(p)
         \/ SemAcquire(p) \/ SemRelease(p) \/ SemClose(p) \/ SemUnlinkOwn(p)
  PROVE  /\ SemaphoreOwned'
         /\ \A q \in Procs : q # p => sem'[q] = sem[q] /\ semPc'[q] = semPc[q]
<1>. USE DEF SemIInv
<1>1. /\ sem \in [Procs -> SemRecords] /\ semPc = [q \in Procs |-> semPc[q]]
      /\ semPc[p] # "ready" => sem[p].created = FALSE
      /\ sem[p].created \in BOOLEAN
  BY SemFields DEF SemType, HandlesFit
<1>2. CASE SemNew(p, "open") \/ SemNew(p, "create") \/ SemOpenFails(p)
  <2>1. \E r : sem' = [sem EXCEPT ![p] = r]
    BY <1>2 DEF SemNew, SemOpenFails
  <2>2. \E r : semPc' = [semPc EXCEPT ![p] = r]
    BY <1>2 DEF SemNew, SemOpenFails, SemGoto
  <2>3. semPc[p] # "ready" /\ semPc[p] # "remove" /\ semName' = semName
    BY <1>2 DEF SemNew, SemOpenFails
  <2>. QED  BY <1>1, <2>1, <2>2, <2>3 DEF SemaphoreOwned
<1>3. CASE SemOpenExcl(p) /\ semName = NoObject
  <2>1. /\ sem' = [sem EXCEPT ![p].hdl = FreshObject, ![p].created = TRUE]
        /\ semPc' = [semPc EXCEPT ![p] = "ready"]
    BY <1>3 DEF SemOpenExcl, SemGoto
  <2>2. sem'[p].created = TRUE
    BY <1>1, <2>1 DEF SemRecords
  <2>. QED  BY <1>1, <2>1, <2>2 DEF SemaphoreOwned
<1>4. CASE SemOpenExcl(p) /\ semName # NoObject
  <2>1. sem' = sem /\ semName' = semName /\ semPc[p] = "excl" /\ \E r : semPc' = [semPc EXCEPT ![p] = r]
    BY <1>4 DEF SemOpenExcl, SemGoto
  <2>. QED  BY <1>1, <2>1 DEF SemaphoreOwned
<1>5. CASE SemUnlinkOld(p) \/ SemUnlinkOwn(p)
  <2>1. sem' = sem /\ semName' = NoObject /\ \E r : semPc' = [semPc EXCEPT ![p] = r]
    BY <1>5 DEF SemUnlinkOld, SemUnlinkOwn, SemGoto
  <2>. QED  BY <1>1, <2>1 DEF SemaphoreOwned
<1>6. CASE SemOpen(p)
  <2>1. /\ sem' = [sem EXCEPT ![p].hdl = semName] /\ semName' = semName /\ semPc[p] = "open"
        /\ semPc' = [semPc EXCEPT ![p] = "ready"]
    BY <1>6 DEF SemOpen, SemGoto
  <2>2. sem'[p].created = sem[p].created
    BY <1>1, <2>1 DEF SemRecords
  <2>. QED  BY <1>1, <2>1, <2>2 DEF SemaphoreOwned
<1>7. CASE SemTakeOwnership(p)
  <2>1. sem' = [sem EXCEPT ![p].created = TRUE] /\ semPc' = semPc /\ semName' = semName
    BY <1>7 DEF SemTakeOwnership
  <2>2. sem'[p].created = TRUE
    BY <1>1, <2>1 DEF SemRecords
  <2>. QED  BY <1>1, <2>1, <2>2 DEF SemaphoreOwned
<1>8. CASE SemAcquire(p) \/ SemRelease(p)
  <2>1. (\E n : sem' = [sem EXCEPT ![p].units = n]) /\ semPc' = semPc /\ semName' = semName
    BY <1>8 DEF SemAcquire, SemRelease
  <2>2. sem'[p].created = sem[p].created
    BY <1>1, <2>1 DEF SemRecords
  <2>. QED  BY <1>1, <2>1, <2>2 DEF SemaphoreOwned
<1>9. CASE SemClose(p)
  <2>1. /\ sem' = [sem EXCEPT ![p] = NoSem] /\ semName' = semName
        /\ semPc' = [semPc EXCEPT ![p] = IF sem[p].created THEN "remove" ELSE "none"]
        /\ semPc[p] = "ready"
    BY <1>9 DEF SemClose, SemGoto
  <2>2. sem[p].created = TRUE => semPc'[p] = "remove"
    BY <1>1, <2>1
  <2>. QED  BY <1>1, <2>1, <2>2 DEF SemaphoreOwned
<1>. QED  BY <1>2, <1>3, <1>4, <1>5, <1>6, <1>7, <1>8, <1>9 DEF SemNewStep

(* What the semaphore's steps do to their process.                          *)
LEMMA SemaphorePhases ==
  ASSUME SemIInv, NEW p \in Procs
  PROVE  /\ SemNew(p, "open") \/ SemNew(p, "create") => semPc[p] = "none" /\ semPc'[p] = "excl"
         /\ SemNewStep(p) => semPc[p] \in {"excl", "unlink", "open"}
                             /\ semPc'[p] \in {"ready", "unlink", "open", "none"}
         /\ SemTakeOwnership(p) \/ SemAcquire(p) \/ SemRelease(p) => semPc[p] = "ready" /\ semPc' = semPc
         /\ SemClose(p) => /\ semPc[p] = "ready"
                           /\ sem[p].created = TRUE => semPc'[p] = "remove"
                           /\ sem[p].created = FALSE => semPc'[p] = "none"
         /\ SemUnlinkOwn(p) => semPc[p] = "remove" /\ semPc'[p] = "none"
         /\ SemDie(p) => semPc'[p] = "none"
<1>. USE DEF SemIInv, SemGoto
<1>1. semPc = [q \in Procs |-> semPc[q]]
  BY DEF SemType
<1>2. SemNew(p, "open") \/ SemNew(p, "create") => semPc[p] = "none" /\ semPc'[p] = "excl"
  BY <1>1 DEF SemNew
<1>3. SemNewStep(p) => semPc[p] \in {"excl", "unlink", "open"}
                       /\ semPc'[p] \in {"ready", "unlink", "open", "none"}
  BY <1>1 DEF SemNewStep, SemOpenExcl, SemUnlinkOld, SemOpen, SemOpenFails
<1>4. SemTakeOwnership(p) \/ SemAcquire(p) \/ SemRelease(p) => semPc[p] = "ready" /\ semPc' = semPc
  BY DEF SemTakeOwnership, SemAcquire, SemRelease
<1>5. SemClose(p) => /\ semPc[p] = "ready"
                     /\ sem[p].created = TRUE => semPc'[p] = "remove"
                     /\ sem[p].created = FALSE => semPc'[p] = "none"
  BY <1>1 DEF SemClose
<1>6. SemUnlinkOwn(p) => semPc[p] = "remove" /\ semPc'[p] = "none"
  BY <1>1 DEF SemUnlinkOwn
<1>7. SemDie(p) => semPc'[p] = "none"
  BY <1>1 DEF SemDie
<1>. QED  BY <1>2, <1>3, <1>4, <1>5, <1>6, <1>7

------------------------------------------------------------------------------
(* Each step keeps the invariant.                                           *)

LEMMA ShmNewStep ==
  ASSUME ShmIInv, SemIInv', NEW p \in Procs, NEW size \in Sizes, ShmNew(p, size)
  PROVE  ShmIInv'
<1>. DEFINE r == [NoShm EXCEPT !.size = size, !.asked = size]
<1>1. /\ shmPc[p] = "none" /\ shm' = [shm EXCEPT ![p] = r] /\ shmPc' = [shmPc EXCEPT ![p] = "excl"]
      /\ UNCHANGED <<semName, sem, semPc, shmName, segSize>>
  BY DEF ShmNew, ShmGoto, semVars
<1>2. r \in ShmRecords /\ r.seg = NoSegment /\ r.created = FALSE
  BY NoShmFields DEF ShmRecords
<1>. HIDE DEF r
<1>3. shm'[p] = r /\ shmPc'[p] = "excl" /\ shm[p] = NoShm /\ PhaseOf(p)
  BY <1>1 DEF ShmIInv, ShmTyped, SegmentsFit, SegmentOf, PhasesFit
<1>4. ShmMoves(p)
  BY <1>1, <1>2 DEF ShmIInv, ShmTyped, ShmMoves, ShmPhases
<1>5. PhaseOf(p)' /\ SegmentOf(p)' /\ SemaphoreOwned'
  BY <1>1, <1>2, <1>3 DEF ShmIInv, PhaseOf, SegmentOf, SemaphoreOwned
<1>. QED  BY <1>1, <1>2, <1>3, <1>4, <1>5, NoShmFields, QuietShm

LEMMA ShmExistsStep ==
  ASSUME ShmIInv, SemIInv', NEW p \in Procs, ShmOpenExcl(p), shmName # NoSegment
  PROVE  ShmIInv'
<1>1. /\ shmPc[p] = "excl" /\ shm' = [shm EXCEPT ![p].exists = TRUE]
      /\ shmPc' = [shmPc EXCEPT ![p] = "open"]
      /\ UNCHANGED <<semName, sem, semPc, shmName, segSize>>
  BY DEF ShmOpenExcl, ShmGoto, semVars
<1>2. PhaseOf(p) /\ SegmentOf(p) /\ shm \in [Procs -> ShmRecords] /\ shmPc'[p] = "open"
  BY <1>1 DEF ShmIInv, ShmTyped, SegmentsFit, PhasesFit
<1>3. shm' \in [Procs -> ShmRecords] /\ shm'[p].seg = shm[p].seg /\ shm'[p].created = shm[p].created
  BY <1>1, <1>2 DEF ShmRecords
<1>4. ShmMoves(p)
  BY <1>1, <1>3 DEF ShmIInv, ShmTyped, ShmMoves, ShmPhases
<1>5. PhaseOf(p)' /\ SegmentOf(p)' /\ SemaphoreOwned'
  BY <1>1, <1>2, <1>3 DEF ShmIInv, PhaseOf, SegmentOf, SemaphoreOwned
<1>. QED  BY <1>1, <1>2, <1>3, <1>4, <1>5, QuietShm

(* A new segment is nobody else's, and its creator will give it its size.   *)
LEMMA ShmCreateStep ==
  ASSUME ShmIInv, SemIInv', NEW p \in Procs, ShmOpenExcl(p), shmName = NoSegment
  PROVE  ShmIInv'
<1>. DEFINE new == FreshSegment
<1>1. /\ shmPc[p] = "excl" /\ shm' = [shm EXCEPT ![p].seg = new, ![p].created = TRUE]
      /\ shmPc' = [shmPc EXCEPT ![p] = "truncate"] /\ shmName' = new
      /\ UNCHANGED <<semName, sem, semPc, segSize>>
  BY DEF ShmOpenExcl, ShmGoto, semVars
<1>2. new \in Segments /\ new \notin ShmReferenced
  BY FreshSegmentExists DEF ShmIInv
<1>. HIDE DEF new
<1>3. PhaseOf(p) /\ SegmentOf(p) /\ shm \in [Procs -> ShmRecords] /\ shmPc'[p] = "truncate"
  BY <1>1 DEF ShmIInv, ShmTyped, SegmentsFit, PhasesFit
<1>4. shm' \in [Procs -> ShmRecords] /\ shm'[p].seg = new /\ shm'[p].created = TRUE
  BY <1>1, <1>2, <1>3 DEF ShmRecords
<1>5. ShmMoves(p)
  BY <1>1, <1>2, <1>4 DEF ShmIInv, ShmTyped, ShmMoves, ShmPhases
<1>6. PhasesFit'
  BY <1>1, <1>3, <1>5 DEF ShmIInv, PhasesFit, PhaseOf, ShmMoves
<1>7. segSize[new] = 0
  BY <1>2 DEF ShmIInv, ShmReaped
<1>8. SegmentsFit'
  <2>1. SegmentOf(p)'
    BY <1>1, <1>2, <1>3, <1>4, <1>7 DEF SegmentOf
  <2>2. ASSUME NEW q \in Procs, q # p PROVE SegmentOf(q)'
    <3>1. SegmentOf(q) /\ shm'[q] = shm[q] /\ shmPc'[q] = shmPc[q] /\ segSize' = segSize
      BY <1>1, <1>5, <2>2 DEF ShmIInv, SegmentsFit, ShmMoves
    <3>. QED  BY <3>1 DEF SegmentOf
  <2>. QED  BY <2>1, <2>2 DEF SegmentsFit
<1>9. OneTruncates'
  <2>1. \A q \in Procs : shm[q].seg # new
    BY <1>2 DEF ShmReferenced
  <2>. QED  BY <1>4, <1>5, <2>1 DEF ShmIInv, ShmMoves, OneTruncates
<1>10. ShmReaped'
  <2>1. \A g \in Segments : g \in ShmReferenced => g \in ShmReferenced'
    <3>. SUFFICES ASSUME NEW g \in Segments, g \in ShmReferenced PROVE g \in ShmReferenced'
      OBVIOUS
    <3>1. PICK q \in Procs : shm[q].seg = g
      BY ShmAssumption DEF ShmReferenced
    <3>2. q # p
      BY <1>1, <1>3, <3>1, ShmAssumption DEF SegmentOf
    <3>. QED  BY <1>5, <3>1, <3>2 DEF ShmMoves, ShmReferenced
  <2>. QED  BY <1>1, <2>1 DEF ShmIInv, ShmReaped
<1>11. SegmentOwned' /\ SemaphoreOwned'
  BY <1>1, <1>4 DEF ShmIInv, SegmentOwned, SemaphoreOwned
<1>. QED  BY <1>5, <1>6, <1>8, <1>9, <1>10, <1>11 DEF ShmIInv, ShmMoves

LEMMA ShmOpenStep ==
  ASSUME ShmIInv, SemIInv', NEW p \in Procs, ShmOpen(p)
  PROVE  ShmIInv'
<1>1. /\ shmPc[p] = "open" /\ UNCHANGED <<semName, sem, semPc, shmName, segSize>>
      /\ shmName # NoSegment => shm' = [shm EXCEPT ![p].seg = shmName] /\ shmPc' = [shmPc EXCEPT ![p] = "stat"]
      /\ shmName = NoSegment => shm' = shm /\ shmPc' = [shmPc EXCEPT ![p] = "clean"]
  BY DEF ShmOpen, ShmGoto, semVars
<1>2. /\ PhaseOf(p) /\ SegmentOf(p) /\ shm \in [Procs -> ShmRecords] /\ shmPc \in [Procs -> ShmPhases]
      /\ shmName \in Segments \cup {NoSegment}
  BY DEF ShmIInv, ShmTyped, SegmentsFit, PhasesFit
<1>3. CASE shmName = NoSegment
  <2>1. shmPc'[p] = "clean" /\ ShmMoves(p)
    BY <1>1, <1>2, <1>3 DEF ShmIInv, ShmTyped, ShmMoves, ShmPhases
  <2>2. PhaseOf(p)' /\ SegmentOf(p)' /\ SemaphoreOwned'
    BY <1>1, <1>2, <1>3, <2>1 DEF ShmIInv, PhaseOf, SegmentOf, SemaphoreOwned
  <2>. QED  BY <1>1, <1>3, <2>1, <2>2, QuietShm
<1>4. CASE shmName # NoSegment
  <2>1. /\ shmPc'[p] = "stat" /\ shm' \in [Procs -> ShmRecords]
        /\ shm'[p].seg = shmName /\ shm'[p].created = shm[p].created
    BY <1>1, <1>2, <1>4 DEF ShmRecords
  <2>2. ShmMoves(p)
    BY <1>1, <1>2, <1>4, <2>1 DEF ShmIInv, ShmTyped, ShmMoves, ShmPhases
  <2>3. PhaseOf(p)' /\ SegmentOf(p)' /\ SemaphoreOwned'
    BY <1>1, <1>2, <1>4, <2>1 DEF ShmIInv, PhaseOf, SegmentOf, SemaphoreOwned
  <2>4. SegmentOwned'
    BY <1>1, <2>1, <2>2 DEF ShmIInv, SegmentOwned, ShmMoves
  <2>5. \A g \in Segments : g \notin ShmReferenced' => segSize'[g] = 0
    <3>. SUFFICES ASSUME NEW g \in Segments, g \in ShmReferenced PROVE g \in ShmReferenced'
      BY <1>1 DEF ShmIInv, ShmReaped
    <3>1. \A q \in Procs : q # p => shm[q].seg \in ShmReferenced'
      BY <2>2 DEF ShmReferenced, ShmMoves
    <3>2. shmName \in ShmReferenced' /\ shm[p].seg = NoSegment
      BY <1>1, <1>2 DEF ShmReferenced, SegmentOf
    <3>. QED  BY <3>1, <3>2, ShmAssumption DEF ShmReferenced
  <2>. QED  BY <1>1, <2>1, <2>2, <2>3, <2>4, <2>5, ShmStepKeeps
<1>. QED  BY <1>3, <1>4

LEMMA ShmStatStep ==
  ASSUME ShmIInv, SemIInv', NEW p \in Procs, ShmStat(p)
  PROVE  ShmIInv'
<1>1. /\ shmPc[p] = "stat" /\ UNCHANGED <<semName, sem, semPc, shmName, segSize>>
      /\ shm' = [shm EXCEPT ![p].size = segSize[shm[p].seg]] /\ shmPc' = [shmPc EXCEPT ![p] = "map"]
  BY DEF ShmStat, ShmGoto, semVars
<1>2. /\ PhaseOf(p) /\ SegmentOf(p) /\ shm \in [Procs -> ShmRecords] /\ shmPc \in [Procs -> ShmPhases]
      /\ segSize \in [Segments -> Sizes \cup {0}] /\ shmPc'[p] = "map"
  BY <1>1 DEF ShmIInv, ShmTyped, SegmentsFit, PhasesFit
<1>3. PICK n : n = segSize[shm[p].seg]
  OBVIOUS
<1>4. n \in Sizes \cup {0} /\ n \in Nat /\ shm[p].seg \in Segments
  BY <1>1, <1>2, <1>3, ShmAssumption DEF SegmentOf
<1>5. /\ shm' \in [Procs -> ShmRecords] /\ shm'[p].seg = shm[p].seg
      /\ shm'[p].created = shm[p].created /\ shm'[p].size = n
  BY <1>1, <1>2, <1>3, <1>4 DEF ShmRecords
<1>6. ShmMoves(p)
  BY <1>1, <1>2, <1>5 DEF ShmIInv, ShmTyped, ShmMoves, ShmPhases
<1>7. PhaseOf(p)' /\ SemaphoreOwned'
  BY <1>1, <1>2 DEF ShmIInv, PhaseOf, SemaphoreOwned
<1>8. SegmentOf(p)'
  <2>1. shm'[p].size <= segSize'[shm'[p].seg]
    BY <1>1, <1>3, <1>4, <1>5
  <2>. QED  BY <1>2, <1>4, <1>5, <2>1 DEF SegmentOf
<1>. QED  BY <1>1, <1>2, <1>5, <1>6, <1>7, <1>8, QuietShm

(* Who read a size before ftruncate() read 0, and will not map it.          *)
LEMMA ShmTruncateStep ==
  ASSUME ShmIInv, SemIInv', NEW p \in Procs, ShmTruncate(p)
  PROVE  ShmIInv'
<1>. DEFINE g == shm[p].seg
<1>1. /\ shmPc[p] = "truncate" /\ UNCHANGED <<semName, sem, semPc, shmName, shm>>
      /\ segSize' = [segSize EXCEPT ![g] = shm[p].size] /\ shmPc' = [shmPc EXCEPT ![p] = "map"]
  BY DEF ShmTruncate, ShmGoto, semVars
<1>2. /\ PhaseOf(p) /\ SegmentOf(p) /\ shm \in [Procs -> ShmRecords] /\ shmPc \in [Procs -> ShmPhases]
      /\ segSize \in [Segments -> Sizes \cup {0}] /\ shmPc'[p] = "map"
      /\ \A q \in Procs : q # p => shmPc'[q] = shmPc[q]
  BY <1>1 DEF ShmIInv, ShmTyped, SegmentsFit, PhasesFit
<1>3. /\ g \in Segments /\ segSize[g] = 0 /\ shm[p].size \in Nat /\ shm[p].size \in Sizes \cup {0}
      /\ g \in ShmReferenced
  BY <1>1, <1>2, ShmFields DEF ShmIInv, SegmentOf, ShmReferenced
<1>4. /\ segSize' \in [Segments -> Sizes \cup {0}] /\ segSize'[g] = shm[p].size
      /\ \A h \in Segments : h # g => segSize'[h] = segSize[h]
  BY <1>1, <1>2, <1>3
<1>5. ShmTyped'
  BY <1>1, <1>2, <1>4 DEF ShmIInv, ShmTyped, ShmPhases
<1>6. PhasesFit'
  BY <1>1, <1>2 DEF ShmIInv, PhasesFit, PhaseOf
<1>7. SegmentsFit'
  <2>1. SegmentOf(p)'
    BY <1>1, <1>2, <1>3, <1>4 DEF SegmentOf
  <2>2. ASSUME NEW q \in Procs, q # p PROVE SegmentOf(q)'
    <3>1. SegmentOf(q) /\ shmPc'[q] = shmPc[q] /\ shm' = shm /\ shm[q].size \in Nat
      BY <1>1, <1>2, <2>2, ShmFields DEF ShmIInv, SegmentsFit
    <3>2. CASE shm[q].seg = g
      <4>1. shmPc[q] # "truncate"
        BY <1>1, <2>2, <3>2 DEF ShmIInv, OneTruncates
      <4>2. shmPc[q] \in {"map", "sem", "insem", "ready"} => shm[q].size <= segSize'[g]
        BY <1>3, <1>4, <3>1, <3>2 DEF SegmentOf
      <4>. QED  BY <3>1, <3>2, <4>1, <4>2 DEF SegmentOf
    <3>3. CASE shm[q].seg # g
      <4>1. shm[q].seg \in Segments => segSize'[shm[q].seg] = segSize[shm[q].seg]
        BY <1>4, <3>3
      <4>. QED  BY <3>1, <4>1 DEF SegmentOf
    <3>. QED  BY <3>2, <3>3
  <2>. QED  BY <2>1, <2>2 DEF SegmentsFit
<1>8. OneTruncates'
  BY <1>1, <1>2 DEF ShmIInv, OneTruncates
<1>9. ShmReaped'
  <2>1. ShmReferenced' = ShmReferenced
    BY <1>1 DEF ShmReferenced
  <2>. QED  BY <1>3, <1>4, <2>1 DEF ShmIInv, ShmReaped
<1>10. SegmentOwned' /\ SemaphoreOwned'
  BY <1>1 DEF ShmIInv, SegmentOwned, SemaphoreOwned
<1>. QED  BY <1>5, <1>6, <1>7, <1>8, <1>9, <1>10 DEF ShmIInv

LEMMA ReapKeeps ==
  ASSUME ShmIInv, ShmReap
  PROVE  /\ segSize' \in [Segments -> Sizes \cup {0}]
         /\ \A g \in Segments : g \in ShmReferenced' => segSize'[g] = segSize[g]
         /\ \A g \in Segments : g \notin ShmReferenced' => segSize'[g] = 0
<1>1. segSize \in [Segments -> Sizes \cup {0}]
  BY DEF ShmIInv, ShmTyped
<1>2. segSize' = [g \in Segments |-> IF g \in ShmReferenced' THEN segSize[g] ELSE 0]
  BY DEF ShmReap
<1>. QED  BY <1>1, <1>2

LEMMA ShmMapStep ==
  ASSUME ShmIInv, SemIInv', NEW p \in Procs, ShmMap(p)
  PROVE  ShmIInv'
<1>1. /\ shmPc[p] = "map" /\ UNCHANGED <<semName, sem, semPc, shmName>> /\ ShmReap
      /\ shm[p].size = 0 => shm' = [shm EXCEPT ![p].seg = NoSegment] /\ shmPc' = [shmPc EXCEPT ![p] = "clean"]
      /\ shm[p].size # 0 => shm' = shm /\ shmPc' = [shmPc EXCEPT ![p] = "sem"]
  BY DEF ShmMap, ShmGoto, semVars
<1>2. /\ PhaseOf(p) /\ SegmentOf(p) /\ shm \in [Procs -> ShmRecords] /\ shmPc \in [Procs -> ShmPhases]
  BY DEF ShmIInv, ShmTyped, SegmentsFit, PhasesFit
<1>3. /\ shm' \in [Procs -> ShmRecords] /\ shm'[p].created = shm[p].created
      /\ \A q \in Procs : q # p => shm'[q] = shm[q]
      /\ shm[p].size # 0 => shm'[p] = shm[p] /\ shmPc'[p] = "sem"
      /\ shm[p].size = 0 => shmPc'[p] = "clean"
  BY <1>1, <1>2 DEF ShmRecords
<1>4. ShmMoves(p)
  BY <1>1, <1>2, <1>3, ReapKeeps DEF ShmIInv, ShmTyped, ShmMoves, ShmPhases
<1>5. PhaseOf(p)' /\ SemaphoreOwned'
  BY <1>1, <1>2, <1>3 DEF ShmIInv, PhaseOf, SemaphoreOwned
<1>6. SegmentOf(p)'
  <2>1. CASE shm[p].size = 0
    BY <1>3, <2>1 DEF SegmentOf
  <2>2. CASE shm[p].size # 0
    <3>1. shm[p].seg \in Segments /\ shm[p].size <= segSize[shm[p].seg]
      BY <1>1, <1>2 DEF SegmentOf
    <3>2. shm[p].seg \in ShmReferenced'
      BY <1>3, <2>2 DEF ShmReferenced
    <3>3. segSize'[shm[p].seg] = segSize[shm[p].seg]
      BY <1>1, <3>1, <3>2, ReapKeeps
    <3>. QED  BY <1>3, <2>2, <3>1, <3>3 DEF SegmentOf
  <2>. QED  BY <2>1, <2>2
<1>7. SegmentOwned'
  BY <1>1, <1>3 DEF ShmIInv, SegmentOwned
<1>8. shmPc'[p] # "truncate"
  BY <1>3
<1>. QED  BY <1>1, <1>4, <1>5, <1>6, <1>7, <1>8, ReapKeeps, ShmStepKeeps

(* The steps of the semaphore.                                              *)
LEMMA ShmSemaphoreSteps ==
  ASSUME ShmIInv, SemIInv', NEW p \in Procs,
         \/ ShmSemNew(p) \/ (SemNewStep(p) /\ UNCHANGED shmVars)
         \/ ShmLock(p) \/ ShmUnlock(p) \/ ShmSemClose(p) \/ ShmSemUnlink(p)
  PROVE  ShmIInv'
<1>1. UNCHANGED <<shmName, segSize, shm>>
  BY DEF ShmSemNew, ShmLock, ShmUnlock, ShmSemClose, ShmSemUnlink, shmVars
<1>2. /\ PhaseOf(p) /\ SegmentOf(p) /\ shm \in [Procs -> ShmRecords] /\ shmPc \in [Procs -> ShmPhases]
      /\ SemIInv /\ SemaphoreOwned /\ sem[p].created \in BOOLEAN /\ shm[p].exists \in BOOLEAN
  BY SemFields, ShmFields DEF ShmIInv, ShmTyped, SegmentsFit, PhasesFit, SemIInv
<1>3. \/ SemNew(p, "open") \/ SemNew(p, "create") \/ SemNewStep(p)
      \/ SemAcquire(p) \/ SemRelease(p) \/ SemClose(p) \/ SemUnlinkOwn(p)
  BY <1>2 DEF ShmSemNew, ShmLock, ShmUnlock, ShmSemClose, ShmSemUnlink
<1>4. /\ SemaphoreOwned'
      /\ \A q \in Procs : q # p => sem'[q] = sem[q] /\ semPc'[q] = semPc[q]
  BY <1>2, <1>3, SemaphoreOf
<1>5. /\ shmPc' \in [Procs -> ShmPhases] /\ \A q \in Procs : q # p => shmPc'[q] = shmPc[q]
      /\ PhaseOf(p)' /\ shmPc'[p] # "truncate"
      /\ \/ shmPc'[p] = shmPc[p]
         \/ shmPc'[p] \in {"none", "semremove"} /\ shmPc[p] \in {"semfree", "semremove"}
         \/ shmPc[p] = "sem" /\ shmPc'[p] = "insem"
  <2>1. CASE ShmSemNew(p)
    <3>1. shmPc[p] = "sem" /\ shmPc' = [shmPc EXCEPT ![p] = "insem"] /\ semPc'[p] = "excl"
      BY <1>2, <2>1, SemaphorePhases DEF ShmSemNew, ShmGoto
    <3>. QED  BY <1>2, <3>1 DEF PhaseOf, ShmPhases
  <2>2. CASE SemNewStep(p) /\ UNCHANGED shmVars
    <3>1. shmPc' = shmPc
      BY <2>2 DEF shmVars
    <3>2. semPc[p] \in {"excl", "unlink", "open"} /\ semPc'[p] \in {"ready", "unlink", "open", "none"}
      BY <1>2, <2>2, SemaphorePhases
    <3>3. shmPc[p] = "insem"
      BY <1>2, <3>2 DEF PhaseOf, ShmPhases
    <3>. QED  BY <1>2, <3>1, <3>2, <3>3 DEF PhaseOf
  <2>3. CASE ShmLock(p) \/ ShmUnlock(p)
    <3>1. shmPc' = shmPc /\ semPc' = semPc /\ shmPc[p] = "ready"
      BY <1>2, <2>3, SemaphorePhases DEF ShmLock, ShmUnlock, shmVars
    <3>. QED  BY <1>2, <3>1 DEF PhaseOf
  <2>4. CASE ShmSemClose(p)
    <3>1. /\ shmPc[p] = "semfree"
          /\ shmPc' = [shmPc EXCEPT ![p] = IF sem[p].created THEN "semremove" ELSE "none"]
          /\ sem[p].created = TRUE => semPc'[p] = "remove"
          /\ sem[p].created = FALSE => semPc'[p] = "none"
      BY <1>2, <2>4, SemaphorePhases DEF ShmSemClose, ShmGoto
    <3>. QED  BY <1>2, <3>1 DEF PhaseOf, ShmPhases
  <2>5. CASE ShmSemUnlink(p)
    <3>1. shmPc[p] = "semremove" /\ shmPc' = [shmPc EXCEPT ![p] = "none"] /\ semPc'[p] = "none"
      BY <1>2, <2>5, SemaphorePhases DEF ShmSemUnlink, ShmGoto
    <3>. QED  BY <1>2, <3>1 DEF PhaseOf, ShmPhases
  <2>. QED  BY <2>1, <2>2, <2>3, <2>4, <2>5
<1>6. ShmMoves(p)
  BY <1>1, <1>4, <1>5 DEF ShmIInv, ShmTyped, ShmMoves
<1>7. SegmentOf(p)'
  BY <1>1, <1>2, <1>5 DEF SegmentOf
<1>. QED  BY <1>1, <1>4, <1>5, <1>6, <1>7, QuietShm

LEMMA ShmHandleSteps ==
  ASSUME ShmIInv, SemIInv', NEW p \in Procs, ShmNewReturn(p) \/ ShmTakeOwnership(p) \/ ShmFree(p)
  PROVE  ShmIInv'
<1>1. /\ PhaseOf(p) /\ SegmentOf(p) /\ shm \in [Procs -> ShmRecords] /\ shmPc \in [Procs -> ShmPhases]
      /\ SemIInv /\ SemaphoreOwned /\ shm[p].size \in Nat /\ shm[p].asked \in Nat
      /\ shm[p].seg \in Segments => segSize[shm[p].seg] \in Nat
      /\ shm[p].size \in Sizes \cup {0} /\ shm[p].asked \in Sizes \cup {0}
  <2>1. shm[p].seg \in Segments => segSize[shm[p].seg] \in Nat
    BY SizesAreNat DEF ShmIInv
  <2>. QED  BY <2>1, ShmFields DEF ShmIInv, ShmTyped, SegmentsFit, PhasesFit
<1>2. CASE ShmNewReturn(p) /\ semPc[p] = "ready"
  <2>1. PICK n : n = IF shm[p].size > shm[p].asked /\ shm[p].asked # 0 THEN shm[p].asked ELSE shm[p].size
    OBVIOUS
  <2>2. /\ shmPc[p] = "insem" /\ UNCHANGED <<semName, sem, semPc, shmName, segSize>>
        /\ shm' = [shm EXCEPT ![p].exists = FALSE, ![p].asked = 0, ![p].size = n]
        /\ shmPc' = [shmPc EXCEPT ![p] = "ready"]
    <3>1. shm' = [shm EXCEPT ![p].exists = FALSE, ![p].asked = 0, ![p].size =
             IF @ > shm[p].asked /\ shm[p].asked # 0 THEN shm[p].asked ELSE @]
      BY <1>2 DEF ShmNewReturn
    <3>2. shm' = [shm EXCEPT ![p].exists = FALSE, ![p].asked = 0, ![p].size = n]
      BY <1>1, <2>1, <3>1 DEF ShmRecords
    <3>. QED  BY <1>2, <3>2 DEF ShmNewReturn, ShmGoto, semVars
  <2>3. n \in Nat /\ n \in Sizes \cup {0} /\ n <= shm[p].size /\ (shm[p].size # 0 => n # 0)
    BY <1>1, <2>1
  <2>4. /\ shm' \in [Procs -> ShmRecords] /\ shm'[p].seg = shm[p].seg
        /\ shm'[p].created = shm[p].created /\ shm'[p].size = n /\ shmPc'[p] = "ready"
    <3>1. PICK r \in ShmRecords : r = shm[p]
      BY <1>1
    <3>2. PICK m \in ShmRecords : m = [r EXCEPT !.exists = FALSE, !.asked = 0, !.size = n]
      BY <2>3 DEF ShmRecords
    <3>3. m.seg = r.seg /\ m.created = r.created /\ m.size = n
      BY <3>2 DEF ShmRecords
    <3>4. shm' = [shm EXCEPT ![p] = m]
      BY <1>1, <2>2, <3>1, <3>2
    <3>. QED  BY <1>1, <2>2, <3>1, <3>3, <3>4
  <2>5. ShmMoves(p)
    BY <1>1, <2>2, <2>4 DEF ShmIInv, ShmTyped, ShmMoves, ShmPhases
  <2>6. PhaseOf(p)' /\ SemaphoreOwned'
    BY <1>1, <1>2, <2>2, <2>4 DEF PhaseOf, SemaphoreOwned
  <2>7. SegmentOf(p)'
    <3>1. /\ shm[p].seg \in Segments /\ shm[p].size <= segSize[shm[p].seg] /\ shm[p].size # 0
      BY <1>1, <2>2 DEF SegmentOf
    <3>2. n <= segSize[shm[p].seg] /\ n # 0
      BY <1>1, <2>3, <3>1
    <3>. QED  BY <2>2, <2>4, <3>1, <3>2 DEF SegmentOf
  <2>. QED  BY <2>2, <2>4, <2>5, <2>6, <2>7, QuietShm
<1>3. CASE ShmFree(p) \/ (ShmNewReturn(p) /\ semPc[p] # "ready")
  <2>1. /\ shmPc[p] \in {"ready", "insem"} /\ UNCHANGED <<semName, sem, semPc, shmName, segSize, shm>>
        /\ shmPc' = [shmPc EXCEPT ![p] = "clean"] /\ semPc[p] \in {"none", "ready"}
    BY <1>1, <1>3 DEF ShmFree, ShmNewReturn, ShmGoto, semVars, PhaseOf
  <2>2. shmPc'[p] = "clean" /\ ShmMoves(p)
    BY <1>1, <2>1 DEF ShmIInv, ShmTyped, ShmMoves, ShmPhases
  <2>3. PhaseOf(p)' /\ SegmentOf(p)' /\ SemaphoreOwned'
    BY <1>1, <2>1, <2>2 DEF PhaseOf, SegmentOf, SemaphoreOwned
  <2>. QED  BY <2>1, <2>2, <2>3, QuietShm
<1>4. CASE ShmTakeOwnership(p)
  <2>1. /\ shmPc[p] = "ready" /\ UNCHANGED <<shmName, segSize, shmPc>> /\ SemTakeOwnership(p)
        /\ shm' = [shm EXCEPT ![p].created = TRUE]
    BY <1>4 DEF ShmTakeOwnership
  <2>2. /\ SemaphoreOwned' /\ semPc' = semPc
        /\ \A q \in Procs : q # p => sem'[q] = sem[q] /\ semPc'[q] = semPc[q]
    BY <1>1, <2>1, SemaphoreOf, SemaphorePhases
  <2>3. /\ shm' \in [Procs -> ShmRecords] /\ shm'[p].seg = shm[p].seg
        /\ shm'[p].created = TRUE /\ shm'[p].size = shm[p].size
    BY <1>1, <2>1 DEF ShmRecords
  <2>4. ShmMoves(p)
    BY <1>1, <2>1, <2>2, <2>3 DEF ShmIInv, ShmTyped, ShmMoves
  <2>5. PhaseOf(p)' /\ SegmentOf(p)'
    BY <1>1, <2>1, <2>2, <2>3 DEF PhaseOf, SegmentOf
  <2>. QED  BY <2>1, <2>2, <2>3, <2>4, <2>5, QuietShm
<1>. QED  BY <1>2, <1>3, <1>4

(* zshm_free() and a kill drop the mapping; the kernel takes back what      *)
(* nobody refers to any more.                                               *)
LEMMA ShmDropSteps ==
  ASSUME ShmIInv, SemIInv', NEW p \in Procs, ShmClean(p) \/ ShmCrash(p)
  PROVE  ShmIInv'
<1>1. /\ PhaseOf(p) /\ SegmentOf(p) /\ shm \in [Procs -> ShmRecords] /\ shmPc \in [Procs -> ShmPhases]
      /\ SemIInv /\ SemaphoreOwned /\ SegmentOwned /\ shm[p].created \in BOOLEAN
      /\ shmName \in Segments \cup {NoSegment}
  BY ShmFields DEF ShmIInv, ShmTyped, SegmentsFit, PhasesFit
<1>2. shm' = [shm EXCEPT ![p] = NoShm] /\ ShmReap
  BY DEF ShmClean, ShmCrash
<1>3. shm' \in [Procs -> ShmRecords] /\ shm'[p] = NoShm /\ \A q \in Procs : q # p => shm'[q] = shm[q]
  BY <1>1, <1>2, NoShmFields
<1>4. CASE ShmClean(p)
  <2>1. /\ shmPc[p] = "clean" /\ UNCHANGED <<semName, sem, semPc>>
        /\ shmName' = IF shm[p].created THEN NoSegment ELSE shmName
        /\ shmPc' = [shmPc EXCEPT ![p] = IF semPc[p] = "ready" THEN "semfree" ELSE "none"]
    BY <1>4 DEF ShmClean, ShmGoto, semVars
  <2>2. /\ shmPc'[p] = (IF semPc[p] = "ready" THEN "semfree" ELSE "none")
        /\ shmPc' \in [Procs -> ShmPhases] /\ \A q \in Procs : q # p => shmPc'[q] = shmPc[q]
    BY <1>1, <2>1 DEF ShmPhases
  <2>3. ShmMoves(p)
    BY <1>1, <1>2, <1>3, <2>1, <2>2, ReapKeeps DEF ShmTyped, ShmMoves
  <2>4. PhaseOf(p)' /\ SemaphoreOwned'
    BY <1>1, <2>1, <2>2 DEF PhaseOf, SemaphoreOwned
  <2>5. SegmentOf(p)'
    BY <1>3, <2>2 DEF SegmentOf
  <2>6. SegmentOwned'
    <3>1. CASE shm[p].created = TRUE
      BY <2>1, <3>1 DEF SegmentOwned
    <3>2. CASE shm[p].created = FALSE
      BY <1>1, <1>3, <2>1, <3>2 DEF SegmentOwned
    <3>. QED  BY <1>1, <3>1, <3>2
  <2>7. shmPc'[p] # "truncate"
    BY <2>2
  <2>. QED  BY <1>2, <2>3, <2>4, <2>5, <2>6, <2>7, ReapKeeps, ShmStepKeeps
<1>5. CASE ShmCrash(p)
  <2>1. SemDie(p) /\ shmPc' = [shmPc EXCEPT ![p] = "none"] /\ shmName' = shmName /\ Crashers # {}
    BY <1>5 DEF ShmCrash, ShmGoto
  <2>2. /\ shmPc'[p] = "none" /\ shmPc' \in [Procs -> ShmPhases]
        /\ \A q \in Procs : q # p => shmPc'[q] = shmPc[q]
    BY <1>1, <2>1 DEF ShmPhases
  <2>3. semPc'[p] = "none" /\ \A q \in Procs : q # p => sem'[q] = sem[q] /\ semPc'[q] = semPc[q]
    BY <1>1, <2>1 DEF SemDie, SemGoto, SemIInv, SemType
  <2>4. ShmMoves(p)
    BY <1>1, <1>2, <1>3, <2>1, <2>2, <2>3, ReapKeeps DEF ShmTyped, ShmMoves
  <2>5. PhaseOf(p)' /\ SegmentOf(p)' /\ SegmentOwned' /\ SemaphoreOwned'
    BY <1>3, <2>1, <2>2, <2>3 DEF PhaseOf, SegmentOf, SegmentOwned, SemaphoreOwned
  <2>. QED  BY <1>2, <2>2, <2>4, <2>5, ReapKeeps, ShmStepKeeps
<1>. QED  BY <1>4, <1>5

LEMMA ShmSteps == ShmIInv /\ [Next]_vars => ShmIInv'
<1>. SUFFICES ASSUME ShmIInv, [Next]_vars PROVE ShmIInv'
  OBVIOUS
<1>1. SemIInv'
  BY SemaphorePart
<1>2. CASE UNCHANGED vars
  <2>1. UNCHANGED <<semName, sem, semPc, shmName, segSize, shm, shmPc>>
    BY <1>2 DEF vars, semVars, shmVars
  <2>2. ShmTyped' /\ PhasesFit' /\ OneTruncates' /\ SegmentOwned' /\ SemaphoreOwned'
    BY <2>1 DEF ShmIInv, ShmTyped, PhasesFit, PhaseOf, OneTruncates, SegmentOwned, SemaphoreOwned
  <2>3. SegmentsFit' /\ ShmReaped'
    BY <2>1 DEF ShmIInv, SegmentsFit, SegmentOf, ShmReaped, ShmReferenced
  <2>. QED  BY <1>1, <2>2, <2>3 DEF ShmIInv
<1>3. CASE Next
  <2>1. PICK p \in Procs :
          \/ \E size \in Sizes : ShmNew(p, size)
          \/ ShmStep(p) \/ ShmTakeOwnership(p)
          \/ ShmLock(p) \/ ShmUnlock(p) \/ ShmFree(p) \/ ShmCrash(p)
    BY <1>3 DEF Next
  <2>2. CASE \E size \in Sizes : ShmNew(p, size)
    BY <1>1, <2>2, ShmNewStep
  <2>3. CASE ShmStep(p)
    BY <1>1, <2>3, ShmExistsStep, ShmCreateStep, ShmOpenStep, ShmStatStep, ShmTruncateStep, ShmMapStep,
       ShmSemaphoreSteps, ShmHandleSteps, ShmDropSteps DEF ShmStep
  <2>. QED  BY <1>1, <2>1, <2>2, <2>3, ShmSemaphoreSteps, ShmHandleSteps, ShmDropSteps
<1>. QED  BY <1>2, <1>3

------------------------------------------------------------------------------
(* MappingBacked for any number of processes, however their calls overlap   *)
(* and wherever they are killed: what zshm_get_size() reports is memory     *)
(* that is there.                                                           *)
THEOREM MappingIsBacked == Spec => []MappingBacked
<1>1. ShmIInv => MappingBacked
  <2>. SUFFICES ASSUME ShmIInv, NEW p \in Procs, shmPc[p] = "ready"
                PROVE  shm[p].size \in 1 .. segSize[shm[p].seg]
    BY DEF MappingBacked, Ready
  <2>1. SegmentOf(p) /\ shm[p].size \in Nat
    BY ShmFields DEF ShmIInv, SegmentsFit
  <2>2. shm[p].seg \in Segments /\ shm[p].size <= segSize[shm[p].seg] /\ shm[p].size # 0
    BY <2>1 DEF SegmentOf
  <2>3. segSize[shm[p].seg] \in Nat
    BY <2>2, SizesAreNat DEF ShmIInv
  <2>. QED  BY <2>1, <2>2, <2>3
<1>. QED  BY <1>1, InitShmIInv, ShmSteps, PTL DEF Spec

(* However zshm_new() and zshm_free() overlap and fail, zshm_take_ownership *)
(* included, neither a segment nor a semaphore stays behind under the name  *)
(* once every process has freed its handle, as long as none was killed.     *)
THEOREM NothingStaysBehind == Spec => []NothingLeft
<1>1. ShmIInv => NothingLeft
  <2>. SUFFICES ASSUME ShmIInv, \A p \in Procs : shmPc[p] = "none", Crashers = {}
                PROVE  shmName = NoSegment /\ semName = NoObject
    BY DEF NothingLeft
  <2>1. \A p \in Procs : shm[p].created = FALSE
    BY NoShmFields DEF ShmIInv, SegmentsFit, SegmentOf
  <2>2. \A p \in Procs : semPc[p] = "none"
    BY DEF ShmIInv, PhasesFit, PhaseOf
  <2>3. \A p \in Procs : sem[p].created = FALSE
    BY <2>2 DEF ShmIInv, SemIInv, HandlesFit
  <2>. QED  BY <2>1, <2>2, <2>3 DEF ShmIInv, SegmentOwned, SemaphoreOwned
<1>. QED  BY <1>1, InitShmIInv, ShmSteps, PTL DEF Spec

------------------------------------------------------------------------------
(* Creations that do not overlap, and processes killed outside the calls.   *)

Serial == ConcurrentNew = FALSE /\ CrashAnywhere = FALSE

OneInside == \A p, q \in Procs : Outside(p) \/ Outside(q) \/ p = q

(* The segment has its name and the semaphore not yet, or not any more.     *)
Ahead(p) ==
  /\ shm[p].created = TRUE
  /\ \/ shmPc[p] \in {"truncate", "map", "sem"}
     \/ shmPc[p] \in {"insem", "clean"} /\ semPc[p] # "ready"

(* The segment's name is gone, the semaphore's will be.                     *)
Behind(p) == shmPc[p] = "semremove" \/ (shmPc[p] = "semfree" /\ sem[p].created = TRUE)

(* Otherwise the two names are bound together or free together.             *)
NamesOf(p) ==
  /\ ~Ahead(p) /\ ~Behind(p) => (shmName = NoSegment <=> semName = NoObject)
  /\ Ahead(p) => semName = NoObject
  /\ Behind(p) => shmName = NoSegment
NamesAgree ==
  \A p \in Procs : (\A q \in Procs : q # p => Outside(q)) => NamesOf(p)

CreationOf(p) ==
  /\ shmPc[p] = "excl" => shm[p].exists = FALSE
  /\ shmPc[p] \in {"open", "stat"} =>
       shm[p].exists = TRUE /\ shm[p].created = FALSE /\ shmName # NoSegment
  /\ shmPc[p] = "truncate" => shm[p].exists = FALSE /\ shm[p].created = TRUE
  /\ shmPc[p] \in {"stat", "truncate", "map", "sem", "insem"} => shmName = shm[p].seg
  /\ shmPc[p] \in {"map", "sem", "insem"} =>
       \/ shm[p].exists = TRUE /\ shm[p].created = FALSE
       \/ shm[p].exists = FALSE /\ shm[p].created = TRUE
  /\ shmPc[p] = "insem" =>
       /\ semPc[p] \in {"excl", "open", "ready"}
       /\ semPc[p] = "excl" /\ shm[p].exists = TRUE => sem[p].mode = "open"
       /\ semPc[p] = "open" => shm[p].exists = TRUE

(* A process that has both handles has two that belong together.            *)
Paired(p) == shmPc[p] \in {"insem", "ready", "clean"} /\ semPc[p] = "ready"
Together(p, q) == shm[p].seg = shm[q].seg <=> sem[p].hdl = sem[q].hdl
SameName(p) == shm[p].seg = shmName <=> sem[p].hdl = semName
PairOf(p) ==
  Paired(p) =>
    /\ shm[p].seg # NoSegment /\ shm[p].created = sem[p].created
    /\ (\A q \in Procs : ~Behind(q)) => SameName(p)
    /\ \A q \in Procs : Paired(q) => Together(p, q)

(* An empty segment is found under the name only until its creator is done. *)
Unfilled(p) ==
  /\ shm[p].created = TRUE
  /\ shmPc[p] \in {"truncate", "map"} \/ (shmPc[p] = "clean" /\ semPc[p] = "none")
NamedFilled == shmName # NoSegment /\ segSize[shmName] = 0 => \E p \in Procs : Unfilled(p)

SerialInv ==
  /\ OneInside /\ NamesAgree /\ NamedFilled
  /\ \A p \in Procs : CreationOf(p) /\ PairOf(p)

LEMMA OutsideIsQuiet ==
  ASSUME ShmIInv, NEW q \in Procs, Outside(q)
  PROVE  ~Ahead(q) /\ ~Behind(q) /\ CreationOf(q) /\ ~Unfilled(q)
BY DEF Outside, Ahead, Behind, CreationOf, Unfilled

LEMMA SerialKeeps ==
  ASSUME ShmIInv, ShmIInv', SerialInv, NEW p \in Procs, ShmMoves(p),
         \A q \in Procs : q # p => Outside(q),
         NamesOf(p)', CreationOf(p)', NamedFilled',
         Paired(p)' =>
           /\ shm'[p].seg # NoSegment /\ shm'[p].created = sem'[p].created
           /\ \A q \in Procs : q # p /\ Paired(q) =>
                (shm'[p].seg = shm[q].seg <=> sem'[p].hdl = sem[q].hdl),
         ~Behind(p)' => \A q \in Procs : Paired(q)' => SameName(q)'
  PROVE  SerialInv'
<1>1. \A q \in Procs : q # p => Outside(q)' /\ (Paired(q)' <=> Paired(q)) /\ (Behind(q)' <=> Behind(q))
  BY DEF ShmMoves, Outside, Paired, Behind
<1>2. \A q \in Procs : q # p => ~Behind(q) /\ ~Ahead(q) /\ CreationOf(q)'
  <2>. SUFFICES ASSUME NEW q \in Procs, q # p PROVE ~Behind(q) /\ ~Ahead(q) /\ CreationOf(q)'
    OBVIOUS
  <2>. QED  BY <1>1, OutsideIsQuiet DEF Outside, CreationOf
<1>3. OneInside'
  BY <1>1 DEF OneInside
<1>4. NamesAgree'
  <2>. SUFFICES ASSUME NEW r \in Procs, r # p, \A q \in Procs : q # r => Outside(q)' PROVE NamesOf(r)'
    BY DEF NamesAgree
  <2>1. Outside(p)' /\ Outside(r)'
    BY <1>1
  <2>2. ~Ahead(p)' /\ ~Behind(p)' /\ ~Ahead(r)' /\ ~Behind(r)'
    BY <2>1 DEF Outside, Ahead, Behind
  <2>. QED  BY <2>2 DEF NamesOf
<1>5. ASSUME NEW r \in Procs, Paired(r)'
      PROVE  /\ shm'[r].seg # NoSegment /\ shm'[r].created = sem'[r].created
             /\ (\A q \in Procs : ~Behind(q)') => SameName(r)'
             /\ \A q \in Procs : Paired(q)' => Together(r, q)'
  <2>1. (\A q \in Procs : ~Behind(q)') => SameName(r)'
    BY <1>5
  <2>2. CASE r = p
    BY <1>1, <1>5, <2>1, <2>2 DEF Together, ShmMoves
  <2>3. CASE r # p
    <3>1. PairOf(r) /\ Paired(r) /\ shm'[r] = shm[r] /\ sem'[r] = sem[r]
      BY <1>1, <1>5, <2>3 DEF SerialInv, ShmMoves
    <3>2. ASSUME NEW q \in Procs, Paired(q)' PROVE Together(r, q)'
      <4>1. CASE q = p
        BY <2>3, <3>1, <3>2, <4>1 DEF Together
      <4>2. CASE q # p
        BY <1>1, <3>1, <3>2, <4>2 DEF PairOf, Together, ShmMoves
      <4>. QED  BY <4>1, <4>2
    <3>. QED  BY <2>1, <3>1, <3>2 DEF PairOf
  <2>. QED  BY <2>2, <2>3
<1>. QED  BY <1>2, <1>3, <1>4, <1>5 DEF SerialInv, PairOf

LEMMA ShmOthers ==
  ASSUME ShmIInv, ShmIInv', NEW p \in Procs,
         \/ \E size \in Sizes : ShmNew(p, size)
         \/ ShmStep(p) \/ ShmTakeOwnership(p)
         \/ ShmLock(p) \/ ShmUnlock(p) \/ ShmFree(p) \/ ShmCrash(p)
  PROVE  ShmMoves(p)
<1>1. /\ shm \in [Procs -> ShmRecords] /\ shmPc \in [Procs -> ShmPhases] /\ ShmTyped'
      /\ SemIInv /\ SemaphoreOwned /\ shm[p].exists \in BOOLEAN
  BY ShmFields DEF ShmIInv, ShmTyped
<1>2. \A q \in Procs : q # p => shm'[q] = shm[q]
  <2>1. CASE \E size \in Sizes : ShmNew(p, size)
    BY <1>1, <2>1 DEF ShmNew
  <2>2. CASE ShmOpenExcl(p) \/ ShmOpen(p) \/ ShmStat(p) \/ ShmTruncate(p) \/ ShmMap(p)
    BY <1>1, <2>2 DEF ShmOpenExcl, ShmOpen, ShmStat, ShmTruncate, ShmMap
  <2>3. CASE ShmNewReturn(p)
    BY <1>1, <2>3 DEF ShmNewReturn
  <2>4. CASE ShmClean(p) \/ ShmTakeOwnership(p) \/ ShmCrash(p)
    BY <1>1, <2>4 DEF ShmClean, ShmTakeOwnership, ShmCrash
  <2>5. CASE ShmSemNew(p) \/ (SemNewStep(p) /\ UNCHANGED shmVars) \/ ShmSemClose(p) \/ ShmSemUnlink(p)
             \/ ShmLock(p) \/ ShmUnlock(p) \/ ShmFree(p)
    BY <2>5 DEF ShmSemNew, ShmSemClose, ShmSemUnlink, ShmLock, ShmUnlock, ShmFree, shmVars
  <2>. QED  BY <2>1, <2>2, <2>3, <2>4, <2>5 DEF ShmStep
<1>3. \A q \in Procs : q # p => shmPc'[q] = shmPc[q]
  <2>1. shmPc' = shmPc \/ \E r : shmPc' = [shmPc EXCEPT ![p] = r]
    <3>1. CASE (\E size \in Sizes : ShmNew(p, size)) \/ ShmFree(p) \/ ShmCrash(p)
      BY <3>1 DEF ShmNew, ShmFree, ShmCrash, ShmGoto
    <3>2. CASE ShmTakeOwnership(p) \/ ShmLock(p) \/ ShmUnlock(p)
      BY <3>2 DEF ShmTakeOwnership, ShmLock, ShmUnlock, shmVars
    <3>3. CASE ShmStep(p)
      BY <3>3 DEF ShmStep, ShmOpenExcl, ShmOpen, ShmStat, ShmTruncate, ShmMap, ShmSemNew, shmVars,
                  ShmNewReturn, ShmClean, ShmSemClose, ShmSemUnlink, ShmGoto
    <3>. QED  BY <3>1, <3>2, <3>3
  <2>. QED  BY <1>1, <2>1
<1>4. \A q \in Procs : q # p => sem'[q] = sem[q] /\ semPc'[q] = semPc[q]
  <2>1. \/ UNCHANGED <<sem, semPc>> \/ SemDie(p)
        \/ SemNew(p, "open") \/ SemNew(p, "create") \/ SemNewStep(p) \/ SemTakeOwnership(p)
        \/ SemAcquire(p) \/ SemRelease(p) \/ SemClose(p) \/ SemUnlinkOwn(p)
    <3>1. CASE (\E size \in Sizes : ShmNew(p, size)) \/ ShmFree(p)
      BY <3>1 DEF ShmNew, ShmFree, semVars
    <3>2. CASE ShmTakeOwnership(p) \/ ShmLock(p) \/ ShmUnlock(p) \/ ShmCrash(p)
      BY <3>2 DEF ShmTakeOwnership, ShmLock, ShmUnlock, ShmCrash
    <3>3. CASE ShmOpenExcl(p) \/ ShmOpen(p) \/ ShmStat(p) \/ ShmTruncate(p) \/ ShmMap(p)
               \/ ShmNewReturn(p) \/ ShmClean(p)
      BY <3>3 DEF ShmOpenExcl, ShmOpen, ShmStat, ShmTruncate, ShmMap, ShmNewReturn, ShmClean, semVars
    <3>4. CASE ShmSemNew(p) \/ SemNewStep(p) \/ ShmSemClose(p) \/ ShmSemUnlink(p)
      BY <1>1, <3>4 DEF ShmSemNew, ShmSemClose, ShmSemUnlink
    <3>. QED  BY <3>1, <3>2, <3>3, <3>4 DEF ShmStep
  <2>2. SemDie(p) => \A q \in Procs : q # p => sem'[q] = sem[q] /\ semPc'[q] = semPc[q]
    BY <1>1 DEF SemDie, SemGoto, SemIInv, SemType
  <2>. QED  BY <1>1, <2>1, <2>2, SemaphoreOf
<1>. QED  BY <1>1, <1>2, <1>3, <1>4 DEF ShmMoves

LEMMA Alone ==
  ASSUME Serial, SerialInv, NEW p \in Procs, ~Outside(p) \/ MayEnter(p)
  PROVE  \A q \in Procs : q # p => Outside(q)
BY DEF Serial, SerialInv, OneInside, MayEnter

(* What is known of a process that has both handles.                        *)
LEMMA PairFacts ==
  ASSUME ShmIInv, SerialInv, NEW q \in Procs, Paired(q)
  PROVE  /\ sem[q].hdl \in Objects /\ sem[q].hdl \in SemReferenced /\ sem[q].hdl # NoObject
         /\ shm[q].seg \in Segments /\ shm[q].seg \in ShmReferenced /\ shm[q].seg # NoSegment
<1>1. sem[q].hdl \in Objects
  BY DEF ShmIInv, SemIInv, HandlesFit, Paired
<1>2. shm[q].seg \in Segments
  BY ShmFields DEF ShmIInv, SerialInv, PairOf
<1>. QED  BY <1>1, <1>2, SemaphoreAssumption, ShmAssumption DEF SemReferenced, ShmReferenced

(* A step of the process inside that leaves names and handles alone.        *)
LEMMA QuietSerial ==
  ASSUME ShmIInv, ShmIInv', SerialInv, NEW p \in Procs, ShmMoves(p),
         \A q \in Procs : q # p => Outside(q),
         shmName' = shmName, semName' = semName, NamesOf(p)', CreationOf(p)', NamedFilled',
         Paired(p)' => /\ Paired(p) /\ shm'[p].seg = shm[p].seg /\ sem'[p].hdl = sem[p].hdl
                       /\ shm'[p].created = sem'[p].created,
         ~Behind(p)' => ~Behind(p)
  PROVE  SerialInv'
<1>1. Paired(p)' =>
        /\ shm'[p].seg # NoSegment
        /\ \A q \in Procs : q # p /\ Paired(q) =>
             (shm'[p].seg = shm[q].seg <=> sem'[p].hdl = sem[q].hdl)
  BY DEF SerialInv, PairOf, Together
<1>2. ASSUME ~Behind(p)', NEW q \in Procs, Paired(q)' PROVE SameName(q)'
  <2>1. \A r \in Procs : ~Behind(r)
    BY <1>2, OutsideIsQuiet
  <2>2. Paired(q) /\ shm'[q].seg = shm[q].seg /\ sem'[q].hdl = sem[q].hdl
    BY <1>2 DEF ShmMoves, Paired
  <2>3. SameName(q)
    BY <2>1, <2>2 DEF SerialInv, PairOf
  <2>. QED  BY <2>2, <2>3 DEF SameName
<1>. QED  BY <1>1, <1>2, SerialKeeps

LEMMA InsideFacts ==
  ASSUME Serial, ShmIInv, SerialInv, NEW p \in Procs, ~Outside(p) \/ MayEnter(p)
  PROVE  /\ \A q \in Procs : q # p => Outside(q)
         /\ NamesOf(p) /\ CreationOf(p) /\ PairOf(p) /\ PhaseOf(p) /\ SegmentOf(p)
         /\ shmName # NoSegment /\ segSize[shmName] = 0 => Unfilled(p)
         /\ shm \in [Procs -> ShmRecords] /\ shmPc \in [Procs -> ShmPhases]
         /\ shm[p].created \in BOOLEAN /\ sem[p].created \in BOOLEAN
<1>1. \A q \in Procs : q # p => Outside(q)
  BY Alone
<1>2. \A q \in Procs : q # p => ~Unfilled(q)
  BY <1>1, OutsideIsQuiet
<1>3. /\ shm \in [Procs -> ShmRecords] /\ shmPc \in [Procs -> ShmPhases]
      /\ shm[p].created \in BOOLEAN /\ sem[p].created \in BOOLEAN
  BY ShmFields, SemFields DEF ShmIInv, ShmTyped, SemIInv
<1>. QED  BY <1>1, <1>2, <1>3 DEF SerialInv, NamesAgree, NamedFilled, ShmIInv, PhasesFit, SegmentsFit

(* zshm_new() up to the semaphore, where the segment exists already.        *)
LEMMA SerialOpen ==
  ASSUME Serial, ShmIInv, ShmIInv', SerialInv, NEW p \in Procs, ShmMoves(p),
         \/ \E size \in Sizes : ShmNew(p, size)
         \/ ShmOpenExcl(p) /\ shmName # NoSegment
         \/ ShmOpen(p) \/ ShmStat(p)
  PROVE  SerialInv'
<1>1. UNCHANGED <<shmName, segSize, semName, sem, semPc>>
  BY DEF ShmNew, ShmOpenExcl, ShmOpen, ShmStat, semVars
<1>2. ~Outside(p) \/ MayEnter(p)
  BY DEF ShmNew, ShmOpenExcl, ShmOpen, ShmStat, Outside
<1>3. /\ \A q \in Procs : q # p => Outside(q)
      /\ NamesOf(p) /\ CreationOf(p) /\ PhaseOf(p) /\ SegmentOf(p)
      /\ shmName # NoSegment /\ segSize[shmName] = 0 => Unfilled(p)
      /\ shm \in [Procs -> ShmRecords] /\ shmPc \in [Procs -> ShmPhases]
  BY <1>2, InsideFacts
<1>4. /\ shmPc[p] \in {"none", "excl", "open", "stat"} /\ shmPc'[p] \in {"excl", "open", "stat", "map"}
      /\ CreationOf(p)' /\ ~Ahead(p) /\ ~Ahead(p)' /\ ~Behind(p) /\ ~Behind(p)' /\ ~Paired(p)'
      /\ ~Unfilled(p)
  <2>1. CASE \E size \in Sizes : ShmNew(p, size)
    <3>1. PICK size \in Sizes : shm' = [shm EXCEPT ![p] = [NoShm EXCEPT !.size = size, !.asked = size]]
      BY <2>1 DEF ShmNew
    <3>2. shmPc[p] = "none" /\ shmPc'[p] = "excl"
      BY <1>3, <2>1 DEF ShmNew, ShmGoto
    <3>3. shm'[p].exists = FALSE
      BY <1>3, <3>1, NoShmFields DEF ShmRecords
    <3>. QED  BY <3>2, <3>3 DEF CreationOf, Ahead, Behind, Paired, Unfilled
  <2>2. CASE ShmOpenExcl(p) /\ shmName # NoSegment
    <3>1. /\ shmPc[p] = "excl" /\ shmPc'[p] = "open"
          /\ shm' = [shm EXCEPT ![p].exists = TRUE]
      BY <1>3, <2>2 DEF ShmOpenExcl, ShmGoto
    <3>2. shm'[p].exists = TRUE /\ shm'[p].created = FALSE
      BY <1>3, <3>1 DEF SegmentOf, ShmRecords
    <3>. QED  BY <1>1, <2>2, <3>1, <3>2 DEF CreationOf, Ahead, Behind, Paired, Unfilled
  <2>3. CASE ShmOpen(p)
    <3>1. shmPc[p] = "open" /\ shmName # NoSegment
      BY <1>3, <2>3 DEF ShmOpen, CreationOf
    <3>2. shmPc'[p] = "stat" /\ shm' = [shm EXCEPT ![p].seg = shmName]
      BY <1>3, <2>3, <3>1 DEF ShmOpen, ShmGoto
    <3>3. shm'[p].exists = TRUE /\ shm'[p].created = FALSE /\ shm'[p].seg = shmName
      BY <1>3, <3>1, <3>2 DEF CreationOf, ShmRecords
    <3>. QED  BY <1>1, <3>1, <3>2, <3>3 DEF CreationOf, Ahead, Behind, Paired, Unfilled
  <2>4. CASE ShmStat(p)
    <3>1. /\ shmPc[p] = "stat" /\ shmPc'[p] = "map"
          /\ shm' = [shm EXCEPT ![p].size = segSize[shm[p].seg]]
      BY <1>3, <2>4 DEF ShmStat, ShmGoto
    <3>2. /\ shm'[p].exists = TRUE /\ shm'[p].created = FALSE /\ shm'[p].seg = shmName
          /\ shm[p].created = FALSE
      BY <1>3, <3>1 DEF CreationOf, ShmRecords
    <3>. QED  BY <1>1, <3>1, <3>2 DEF CreationOf, Ahead, Behind, Paired, Unfilled
  <2>. QED  BY <2>1, <2>2, <2>3, <2>4
<1>5. NamesOf(p)' /\ NamedFilled'
  BY <1>1, <1>3, <1>4 DEF NamesOf, NamedFilled
<1>. QED  BY <1>1, <1>3, <1>4, <1>5, QuietSerial

(* A new segment is made: no semaphore has the name, because no segment     *)
(* had it.                                                                  *)
LEMMA SerialCreate ==
  ASSUME Serial, ShmIInv, ShmIInv', SerialInv, NEW p \in Procs, ShmMoves(p),
         ShmOpenExcl(p), shmName = NoSegment
  PROVE  SerialInv'
<1>. DEFINE new == FreshSegment
<1>1. /\ shmPc[p] = "excl" /\ shm' = [shm EXCEPT ![p].seg = new, ![p].created = TRUE]
      /\ shmPc' = [shmPc EXCEPT ![p] = "truncate"] /\ shmName' = new
      /\ UNCHANGED <<semName, sem, semPc, segSize>>
  BY DEF ShmOpenExcl, ShmGoto, semVars
<1>2. new \in Segments /\ new \notin ShmReferenced
  BY FreshSegmentExists DEF ShmIInv
<1>. HIDE DEF new
<1>3. /\ \A q \in Procs : q # p => Outside(q)
      /\ NamesOf(p) /\ CreationOf(p) /\ PhaseOf(p) /\ SegmentOf(p)
      /\ shm \in [Procs -> ShmRecords] /\ shmPc \in [Procs -> ShmPhases]
  BY <1>1, InsideFacts DEF Outside
<1>4. shmPc'[p] = "truncate" /\ shm'[p].seg = new /\ shm'[p].created = TRUE /\ shm'[p].exists = FALSE
  BY <1>1, <1>3 DEF ShmRecords, CreationOf
<1>5. semName = NoObject
  BY <1>1, <1>3 DEF NamesOf, Ahead, Behind
<1>6. NamesOf(p)' /\ CreationOf(p)' /\ NamedFilled' /\ ~Paired(p)'
  BY <1>1, <1>4, <1>5 DEF NamesOf, Ahead, Behind, CreationOf, NamedFilled, Unfilled, Paired
<1>7. ASSUME NEW q \in Procs, Paired(q)' PROVE SameName(q)'
  <2>1. q # p /\ Paired(q) /\ shm'[q] = shm[q] /\ sem'[q] = sem[q]
    BY <1>6, <1>7 DEF ShmMoves, Paired
  <2>2. sem[q].hdl # NoObject /\ shm[q].seg # new
    BY <1>2, <2>1, PairFacts
  <2>. QED  BY <1>1, <1>5, <2>1, <2>2 DEF SameName
<1>. QED  BY <1>3, <1>6, <1>7, SerialKeeps

LEMMA SerialTruncate ==
  ASSUME Serial, ShmIInv, ShmIInv', SerialInv, NEW p \in Procs, ShmMoves(p), ShmTruncate(p)
  PROVE  SerialInv'
<1>1. /\ shmPc[p] = "truncate" /\ UNCHANGED <<semName, sem, semPc, shmName, shm>>
      /\ shmPc' = [shmPc EXCEPT ![p] = "map"]
  BY DEF ShmTruncate, ShmGoto, semVars
<1>2. /\ \A q \in Procs : q # p => Outside(q)
      /\ NamesOf(p) /\ CreationOf(p) /\ PhaseOf(p) /\ SegmentOf(p) /\ shmPc'[p] = "map"
  BY <1>1, InsideFacts DEF Outside
<1>3. CreationOf(p)' /\ NamesOf(p)' /\ NamedFilled' /\ ~Paired(p)' /\ ~Behind(p)
  BY <1>1, <1>2 DEF CreationOf, NamesOf, Ahead, Behind, NamedFilled, Unfilled, Paired
<1>. QED  BY <1>1, <1>2, <1>3, QuietSerial

LEMMA SerialMap ==
  ASSUME Serial, ShmIInv, ShmIInv', SerialInv, NEW p \in Procs, ShmMoves(p), ShmMap(p)
  PROVE  SerialInv'
<1>1. /\ shmPc[p] = "map" /\ UNCHANGED <<semName, sem, semPc, shmName>> /\ ShmReap
      /\ shm[p].size = 0 => shm' = [shm EXCEPT ![p].seg = NoSegment] /\ shmPc' = [shmPc EXCEPT ![p] = "clean"]
      /\ shm[p].size # 0 => shm' = shm /\ shmPc' = [shmPc EXCEPT ![p] = "sem"]
  BY DEF ShmMap, ShmGoto, semVars
<1>2. /\ \A q \in Procs : q # p => Outside(q)
      /\ NamesOf(p) /\ CreationOf(p) /\ PhaseOf(p) /\ SegmentOf(p)
      /\ shmName # NoSegment /\ segSize[shmName] = 0 => Unfilled(p)
      /\ shm \in [Procs -> ShmRecords] /\ shmPc \in [Procs -> ShmPhases]
  BY <1>1, InsideFacts DEF Outside
<1>3. shmName \in Segments => segSize'[shmName] = segSize[shmName]
  <2>1. shmName \in ShmReferenced'
    BY <1>1 DEF ShmReferenced
  <2>. QED  BY <1>1, <2>1, ReapKeeps
<1>4. shmName \in Segments /\ shmName = shm[p].seg
  BY <1>1, <1>2 DEF CreationOf, SegmentOf
<1>5. CASE shm[p].size = 0
  <2>1. shmPc'[p] = "clean" /\ shm'[p].created = shm[p].created /\ semPc[p] = "none"
    BY <1>1, <1>2, <1>5 DEF ShmRecords, PhaseOf
  <2>2. CreationOf(p)' /\ NamesOf(p)' /\ ~Paired(p)' /\ ~Behind(p)
    BY <1>1, <1>2, <2>1 DEF CreationOf, NamesOf, Ahead, Behind, Paired
  <2>3. NamedFilled'
    BY <1>1, <1>2, <1>3, <1>4, <2>1 DEF NamedFilled, Unfilled
  <2>. QED  BY <1>1, <1>2, <2>2, <2>3, QuietSerial
<1>6. CASE shm[p].size # 0
  <2>1. shmPc'[p] = "sem" /\ shm' = shm
    BY <1>1, <1>2, <1>6
  <2>2. CreationOf(p)' /\ NamesOf(p)' /\ ~Paired(p)' /\ ~Behind(p)
    BY <1>1, <1>2, <2>1 DEF CreationOf, NamesOf, Ahead, Behind, Paired
  <2>3. segSize'[shmName] # 0
    <3>1. shm[p].size \in Nat /\ segSize[shmName] \in Nat /\ shm[p].size <= segSize[shmName]
      BY <1>1, <1>2, <1>4, ShmFields, SizesAreNat DEF ShmIInv, SegmentOf
    <3>. QED  BY <1>3, <1>4, <1>6, <3>1
  <2>4. NamedFilled'
    BY <1>1, <2>3 DEF NamedFilled
  <2>. QED  BY <1>1, <1>2, <2>2, <2>4, QuietSerial
<1>. QED  BY <1>5, <1>6

(* The semaphore is asked for: an existing one exactly if the segment       *)
(* existed.                                                                 *)
LEMMA SerialSemNew ==
  ASSUME Serial, ShmIInv, ShmIInv', SerialInv, NEW p \in Procs, ShmMoves(p), ShmSemNew(p)
  PROVE  SerialInv'
<1>1. /\ shmPc[p] = "sem" /\ UNCHANGED <<semName, shmName, segSize, shm>>
      /\ shmPc' = [shmPc EXCEPT ![p] = "insem"] /\ semPc' = [semPc EXCEPT ![p] = "excl"]
      /\ sem' = [sem EXCEPT ![p] = [NoSem EXCEPT !.mode = IF shm[p].exists THEN "open" ELSE "create"]]
  BY DEF ShmSemNew, ShmGoto, SemNew, SemGoto
<1>2. /\ \A q \in Procs : q # p => Outside(q)
      /\ NamesOf(p) /\ CreationOf(p) /\ PhaseOf(p)
      /\ shmName # NoSegment /\ segSize[shmName] = 0 => Unfilled(p)
      /\ shmPc \in [Procs -> ShmPhases]
  BY <1>1, InsideFacts DEF Outside
<1>3. shmPc'[p] = "insem" /\ semPc'[p] = "excl" /\ (shm[p].exists = TRUE => sem'[p].mode = "open")
  <2>1. /\ sem \in [Procs -> SemRecords]
        /\ semPc \in [Procs -> {"none", "excl", "unlink", "open", "ready", "remove"}]
    BY SemFields DEF ShmIInv, SemIInv, SemType
  <2>. QED  BY <1>1, <1>2, <2>1, NoSemFields DEF SemRecords
<1>4. CreationOf(p)' /\ NamesOf(p)' /\ ~Paired(p)' /\ ~Behind(p) /\ ~Unfilled(p)
  BY <1>1, <1>2, <1>3 DEF CreationOf, NamesOf, Ahead, Behind, Paired, PhaseOf, Unfilled
<1>5. NamedFilled'
  BY <1>1, <1>2, <1>4 DEF NamedFilled
<1>. QED  BY <1>1, <1>2, <1>4, <1>5, QuietSerial

(* What is known while zsemaphore_new() runs inside zshm_new().             *)
LEMMA InsideSemaphore ==
  ASSUME Serial, ShmIInv, SerialInv, NEW p \in Procs, semPc[p] \in {"excl", "unlink", "open"}
  PROVE  /\ shmPc[p] = "insem" /\ shmName = shm[p].seg /\ shm[p].seg \in Segments
         /\ shmName # NoSegment /\ segSize[shmName] # 0
         /\ \A q \in Procs : q # p => Outside(q)
         /\ \A q \in Procs : ~Behind(q) /\ ~Unfilled(q)
         /\ \A q \in Procs : Paired(q) => q # p /\ SameName(q)
         /\ NamesOf(p) /\ CreationOf(p)
<1>1. shmPc[p] = "insem"
  BY DEF ShmIInv, PhasesFit, PhaseOf, ShmTyped, ShmPhases
<1>2. /\ \A q \in Procs : q # p => Outside(q)
      /\ NamesOf(p) /\ CreationOf(p) /\ SegmentOf(p)
      /\ shmName # NoSegment /\ segSize[shmName] = 0 => Unfilled(p)
  BY <1>1, InsideFacts DEF Outside
<1>3. shmName = shm[p].seg /\ shm[p].seg \in Segments /\ shmName # NoSegment
  BY <1>1, <1>2, ShmAssumption DEF CreationOf, SegmentOf
<1>4. ~Behind(p) /\ ~Unfilled(p) /\ ~Paired(p)
  BY <1>1 DEF Behind, Unfilled, Paired
<1>5. \A q \in Procs : ~Behind(q) /\ ~Unfilled(q)
  BY <1>2, <1>4, OutsideIsQuiet
<1>6. \A q \in Procs : Paired(q) => q # p /\ SameName(q)
  BY <1>4, <1>5 DEF SerialInv, PairOf
<1>. QED  BY <1>1, <1>2, <1>3, <1>4, <1>5, <1>6

(* The creator of the segment makes the semaphore: no pair has the segment, *)
(* because none has a semaphore of that name.                               *)
LEMMA SerialSemCreate ==
  ASSUME Serial, ShmIInv, ShmIInv', SerialInv, NEW p \in Procs, ShmMoves(p),
         SemOpenExcl(p), UNCHANGED shmVars, semName = NoObject
  PROVE  SerialInv'
<1>. DEFINE new == FreshObject
<1>1. /\ semPc[p] = "excl" /\ sem' = [sem EXCEPT ![p].hdl = new, ![p].created = TRUE]
      /\ semPc' = [semPc EXCEPT ![p] = "ready"] /\ semName' = new
      /\ UNCHANGED <<shmName, segSize, shm, shmPc>>
  BY DEF SemOpenExcl, SemGoto, shmVars
<1>2. new \in Objects /\ new \notin SemReferenced
  BY FreshExists DEF ShmIInv, SemIInv
<1>. HIDE DEF new
<1>3. /\ shmPc[p] = "insem" /\ shmName = shm[p].seg /\ shmName # NoSegment /\ segSize[shmName] # 0
      /\ \A q \in Procs : q # p => Outside(q)
      /\ \A q \in Procs : ~Behind(q) /\ ~Unfilled(q)
      /\ \A q \in Procs : Paired(q) => q # p /\ SameName(q)
      /\ NamesOf(p) /\ CreationOf(p)
  BY <1>1, InsideSemaphore
<1>4. semPc'[p] = "ready" /\ sem'[p].hdl = new /\ sem'[p].created = TRUE
  <2>1. /\ sem \in [Procs -> SemRecords]
        /\ semPc \in [Procs -> {"none", "excl", "unlink", "open", "ready", "remove"}]
    BY SemFields DEF ShmIInv, SemIInv, SemType
  <2>. QED  BY <1>1, <2>1 DEF SemRecords
<1>5. shm[p].created = TRUE
  BY <1>3 DEF NamesOf, Ahead
<1>6. NamesOf(p)' /\ CreationOf(p)' /\ NamedFilled'
  BY <1>1, <1>2, <1>3, <1>4, <1>5, SemaphoreAssumption
     DEF NamesOf, Ahead, Behind, CreationOf, NamedFilled
<1>7. ASSUME NEW q \in Procs, Paired(q)
      PROVE  q # p /\ shm[q].seg # shmName /\ sem[q].hdl # new
  BY <1>2, <1>3, <1>7, PairFacts DEF SameName
<1>8. ASSUME NEW q \in Procs, Paired(q)' PROVE SameName(q)'
  <2>1. CASE q = p
    BY <1>1, <1>3, <1>4, <2>1 DEF SameName
  <2>2. CASE q # p
    <3>1. Paired(q) /\ shm'[q] = shm[q] /\ sem'[q] = sem[q]
      BY <1>8, <2>2 DEF ShmMoves, Paired
    <3>. QED  BY <1>1, <1>7, <3>1 DEF SameName
  <2>. QED  BY <2>1, <2>2
<1>9. /\ shm'[p].seg # NoSegment /\ shm'[p].created = sem'[p].created
      /\ \A q \in Procs : q # p /\ Paired(q) =>
           (shm'[p].seg = shm[q].seg <=> sem'[p].hdl = sem[q].hdl)
  BY <1>1, <1>3, <1>4, <1>5, <1>7
<1>. QED  BY <1>3, <1>6, <1>8, <1>9, SerialKeeps

(* Whoever opened the segment opens the semaphore of the same name.         *)
LEMMA SerialSemOpen ==
  ASSUME Serial, ShmIInv, ShmIInv', SerialInv, NEW p \in Procs, ShmMoves(p),
         SemNewStep(p), UNCHANGED shmVars, semPc[p] # "excl" \/ semName # NoObject
  PROVE  SerialInv'
<1>1. UNCHANGED <<shmName, segSize, shm, shmPc>>
  BY DEF shmVars
<1>2. semPc[p] \in {"excl", "unlink", "open"}
  BY DEF SemNewStep, SemOpenExcl, SemUnlinkOld, SemOpen, SemOpenFails
<1>3. /\ shmPc[p] = "insem" /\ shmName = shm[p].seg /\ shmName # NoSegment /\ segSize[shmName] # 0
      /\ \A q \in Procs : q # p => Outside(q)
      /\ \A q \in Procs : ~Behind(q) /\ ~Unfilled(q)
      /\ \A q \in Procs : Paired(q) => q # p /\ SameName(q)
      /\ NamesOf(p) /\ CreationOf(p)
  BY <1>2, InsideSemaphore
<1>4. /\ sem \in [Procs -> SemRecords] /\ SemIInv
      /\ semPc \in [Procs -> {"none", "excl", "unlink", "open", "ready", "remove"}]
  BY SemFields DEF ShmIInv, SemIInv, SemType
<1>5. semPc[p] \in {"excl", "open"} /\ semName # NoObject /\ ~Ahead(p)
      /\ shm[p].exists = TRUE /\ shm[p].created = FALSE
  <2>1. semPc[p] \in {"excl", "open"}
    BY <1>2, <1>3 DEF CreationOf
  <2>2. semPc[p] = "open" => shm[p].exists = TRUE /\ shm[p].created = FALSE
    BY <1>3 DEF CreationOf
  <2>3. semPc[p] = "open" => semName # NoObject
    BY <1>3, <2>2 DEF NamesOf, Ahead
  <2>4. semName # NoObject /\ ~Ahead(p)
    BY <1>3, <2>1, <2>3 DEF NamesOf
  <2>5. shm[p].created # TRUE
    BY <1>3, <2>1, <2>4 DEF Ahead
  <2>. QED  BY <1>3, <2>1, <2>4, <2>5 DEF CreationOf
<1>6. CASE semPc[p] = "excl"
  <2>1. sem[p].mode = "open"
    BY <1>3, <1>5, <1>6 DEF CreationOf
  <2>2. SemOpenExcl(p)
    BY <1>6 DEF SemNewStep, SemUnlinkOld, SemOpen, SemOpenFails
  <2>3. /\ semPc' = [semPc EXCEPT ![p] = IF sem[p].mode = "create" THEN "unlink" ELSE "open"]
        /\ UNCHANGED <<semName, sem>>
    BY <1>5, <2>2 DEF SemOpenExcl, SemGoto
  <2>4. semPc'[p] = "open"
    BY <1>4, <2>1, <2>3
  <2>5. CreationOf(p)' /\ NamesOf(p)' /\ ~Paired(p)'
    BY <1>1, <1>3, <1>5, <2>3, <2>4 DEF CreationOf, NamesOf, Ahead, Behind, Paired
  <2>6. NamedFilled'
    BY <1>1, <1>3 DEF NamedFilled
  <2>. QED  BY <1>1, <1>3, <2>3, <2>5, <2>6, QuietSerial
<1>7. CASE semPc[p] = "open"
  <2>1. SemOpen(p)
    BY <1>5, <1>7 DEF SemNewStep, SemOpenExcl, SemUnlinkOld, SemOpenFails
  <2>2. /\ semPc' = [semPc EXCEPT ![p] = "ready"] /\ semName' = semName
        /\ sem' = [sem EXCEPT ![p].hdl = semName]
    BY <2>1 DEF SemOpen, SemGoto
  <2>3. semPc'[p] = "ready" /\ sem'[p].hdl = semName /\ sem'[p].created = sem[p].created
    BY <1>4, <2>2 DEF SemRecords
  <2>4. sem[p].created = FALSE
    BY <1>4, <1>7 DEF SemIInv, HandlesFit
  <2>5. CreationOf(p)' /\ NamesOf(p)' /\ NamedFilled'
    BY <1>1, <1>3, <1>5, <2>2, <2>3 DEF CreationOf, NamesOf, Ahead, Behind, NamedFilled
  <2>6. ASSUME NEW q \in Procs, Paired(q)' PROVE SameName(q)'
    <3>1. CASE q = p
      BY <1>1, <1>3, <2>2, <2>3, <3>1 DEF SameName
    <3>2. CASE q # p
      <4>1. Paired(q) /\ shm'[q] = shm[q] /\ sem'[q] = sem[q]
        BY <2>6, <3>2 DEF ShmMoves, Paired
      <4>. QED  BY <1>1, <1>3, <2>2, <4>1 DEF SameName
    <3>. QED  BY <3>1, <3>2
  <2>7. /\ shm'[p].seg # NoSegment /\ shm'[p].created = sem'[p].created
        /\ \A q \in Procs : q # p /\ Paired(q) =>
             (shm'[p].seg = shm[q].seg <=> sem'[p].hdl = sem[q].hdl)
    <3>1. \A q \in Procs : Paired(q) => (shm[q].seg = shmName <=> sem[q].hdl = semName)
      BY <1>3 DEF SameName
    <3>. QED  BY <1>1, <1>3, <1>5, <2>3, <2>4, <3>1
  <2>. QED  BY <1>3, <2>5, <2>6, <2>7, SerialKeeps
<1>. QED  BY <1>5, <1>6, <1>7

(* zshm_new() returns, zshm_free() begins.                                  *)
LEMMA SerialReturn ==
  ASSUME Serial, ShmIInv, ShmIInv', SerialInv, NEW p \in Procs, ShmMoves(p),
         ShmNewReturn(p) \/ ShmFree(p)
  PROVE  SerialInv'
<1>1. /\ shmPc[p] \in {"insem", "ready"} /\ UNCHANGED <<semName, sem, semPc, shmName, segSize>>
      /\ ~Outside(p) \/ MayEnter(p)
  BY DEF ShmNewReturn, ShmFree, semVars, Outside
<1>2. /\ \A q \in Procs : q # p => Outside(q)
      /\ NamesOf(p) /\ CreationOf(p) /\ PairOf(p) /\ PhaseOf(p)
      /\ shmName # NoSegment /\ segSize[shmName] = 0 => Unfilled(p)
      /\ shm \in [Procs -> ShmRecords] /\ shmPc \in [Procs -> ShmPhases]
  BY <1>1, InsideFacts
<1>3. (shmPc[p] = "ready" => semPc[p] = "ready") /\ semPc[p] # "none"
  BY <1>1, <1>2 DEF PhaseOf, CreationOf
<1>4. /\ semPc[p] = "ready" /\ shmPc'[p] \in {"ready", "clean"}
      /\ shm'[p].seg = shm[p].seg /\ shm'[p].created = shm[p].created
  <2>1. CASE ShmNewReturn(p)
    <3>1. PICK n : shm' = [shm EXCEPT ![p].exists = FALSE, ![p].asked = 0, ![p].size = n]
      BY <1>3, <2>1 DEF ShmNewReturn
    <3>2. shm'[p].seg = shm[p].seg /\ shm'[p].created = shm[p].created
      BY <1>2, <3>1 DEF ShmRecords
    <3>. QED  BY <1>2, <1>3, <2>1, <3>2 DEF ShmNewReturn, ShmGoto
  <2>2. CASE ShmFree(p)
    BY <1>2, <1>3, <2>2 DEF ShmFree, ShmGoto, PhaseOf
  <2>. QED  BY <2>1, <2>2
<1>5. /\ Paired(p) /\ ~Behind(p) /\ ~Behind(p)' /\ ~Ahead(p) /\ ~Ahead(p)' /\ ~Unfilled(p)
      /\ CreationOf(p)'
  BY <1>1, <1>3, <1>4 DEF Paired, Behind, Ahead, Unfilled, CreationOf
<1>6. NamesOf(p)' /\ NamedFilled'
  BY <1>1, <1>2, <1>5 DEF NamesOf, NamedFilled
<1>7. shm'[p].created = sem'[p].created
  BY <1>1, <1>2, <1>4, <1>5 DEF PairOf
<1>. QED  BY <1>1, <1>2, <1>4, <1>5, <1>6, <1>7, QuietSerial

(* The mapping goes and, with an owner, the segment's name, which leaves    *)
(* the semaphore's to be removed by the same process.                       *)
LEMMA SerialClean ==
  ASSUME Serial, ShmIInv, ShmIInv', SerialInv, NEW p \in Procs, ShmMoves(p), ShmClean(p)
  PROVE  SerialInv'
<1>1. /\ shmPc[p] = "clean" /\ UNCHANGED <<semName, sem, semPc>> /\ ShmReap
      /\ shmName' = IF shm[p].created THEN NoSegment ELSE shmName
      /\ shm' = [shm EXCEPT ![p] = NoShm]
      /\ shmPc' = [shmPc EXCEPT ![p] = IF semPc[p] = "ready" THEN "semfree" ELSE "none"]
  BY DEF ShmClean, ShmGoto, semVars
<1>2. /\ \A q \in Procs : q # p => Outside(q)
      /\ NamesOf(p) /\ CreationOf(p) /\ PairOf(p) /\ PhaseOf(p)
      /\ shmName # NoSegment /\ segSize[shmName] = 0 => Unfilled(p)
      /\ shm \in [Procs -> ShmRecords] /\ shmPc \in [Procs -> ShmPhases]
      /\ shm[p].created \in BOOLEAN /\ sem[p].created \in BOOLEAN
  BY <1>1, InsideFacts DEF Outside
<1>3. /\ shm'[p] = NoShm /\ shm'[p].created = FALSE
      /\ shmPc'[p] = (IF semPc[p] = "ready" THEN "semfree" ELSE "none")
      /\ semPc[p] \in {"none", "ready"}
  BY <1>1, <1>2, NoShmFields DEF PhaseOf
<1>4. semPc[p] = "ready" => sem[p].created = shm[p].created
  BY <1>1, <1>2 DEF PairOf, Paired
<1>5. ~Paired(p)' /\ CreationOf(p)' /\ ~Ahead(p)' /\ ~Behind(p)
      /\ (Behind(p)' <=> semPc[p] = "ready" /\ sem[p].created = TRUE)
      /\ (Ahead(p) <=> shm[p].created = TRUE /\ semPc[p] # "ready")
  BY <1>1, <1>3 DEF Paired, CreationOf, Ahead, Behind
<1>6. CASE shm[p].created = TRUE
  <2>1. shmName' = NoSegment
    BY <1>1, <1>6
  <2>2. NamesOf(p)' /\ NamedFilled'
    BY <1>1, <1>2, <1>4, <1>5, <1>6, <2>1 DEF NamesOf, NamedFilled
  <2>3. ASSUME ~Behind(p)', NEW q \in Procs, Paired(q)' PROVE SameName(q)'
    <3>1. q # p /\ Paired(q) /\ shm'[q] = shm[q] /\ sem'[q] = sem[q]
      BY <1>5, <2>3 DEF ShmMoves, Paired
    <3>2. shm[q].seg # NoSegment /\ sem[q].hdl # NoObject
      BY <3>1, PairFacts
    <3>3. semName = NoObject
      BY <1>2, <1>4, <1>5, <1>6, <2>3 DEF NamesOf
    <3>. QED  BY <1>1, <2>1, <3>1, <3>2, <3>3 DEF SameName
  <2>. QED  BY <1>2, <1>5, <2>2, <2>3, SerialKeeps
<1>7. CASE shm[p].created = FALSE
  <2>1. shmName' = shmName /\ ~Behind(p)' /\ ~Ahead(p)
    BY <1>1, <1>4, <1>5, <1>7
  <2>2. NamesOf(p)'
    BY <1>1, <1>2, <1>5, <2>1 DEF NamesOf
  <2>3. shmName # NoSegment => segSize'[shmName] # 0
    <3>. SUFFICES ASSUME shmName # NoSegment PROVE segSize'[shmName] # 0
      OBVIOUS
    <3>1. shmName \in Segments /\ shmName \in ShmReferenced'
      BY <2>1 DEF ShmIInv, ShmTyped, ShmReferenced
    <3>2. segSize'[shmName] = segSize[shmName]
      BY <1>1, <3>1, ReapKeeps
    <3>. QED  BY <1>2, <1>7, <3>2 DEF Unfilled
  <2>4. NamedFilled'
    BY <2>1, <2>3 DEF NamedFilled
  <2>. QED  BY <1>1, <1>2, <1>5, <2>1, <2>2, <2>4, QuietSerial
<1>. QED  BY <1>2, <1>6, <1>7

(* zsemaphore_free() at the end of zshm_free().                             *)
LEMMA SerialSemFree ==
  ASSUME Serial, ShmIInv, ShmIInv', SerialInv, NEW p \in Procs, ShmMoves(p),
         ShmSemClose(p) \/ ShmSemUnlink(p)
  PROVE  SerialInv'
<1>1. shmPc[p] \in {"semfree", "semremove"} /\ UNCHANGED <<shmName, segSize, shm>>
  BY DEF ShmSemClose, ShmSemUnlink
<1>2. /\ \A q \in Procs : q # p => Outside(q)
      /\ NamesOf(p) /\ CreationOf(p) /\ PhaseOf(p) /\ SegmentOf(p)
      /\ shmName # NoSegment /\ segSize[shmName] = 0 => Unfilled(p)
      /\ shmPc \in [Procs -> ShmPhases] /\ sem[p].created \in BOOLEAN
  BY <1>1, InsideFacts DEF Outside
<1>3. ~Unfilled(p) /\ ~Ahead(p) /\ NamedFilled'
  <2>1. ~Unfilled(p) /\ ~Ahead(p)
    BY <1>1 DEF Unfilled, Ahead
  <2>. QED  BY <1>1, <1>2, <2>1 DEF NamedFilled
<1>4. CASE ShmSemClose(p)
  <2>1. /\ shmPc[p] = "semfree" /\ semName' = semName
        /\ shmPc' = [shmPc EXCEPT ![p] = IF sem[p].created THEN "semremove" ELSE "none"]
    BY <1>4 DEF ShmSemClose, SemClose, ShmGoto
  <2>2. shmPc'[p] = IF sem[p].created THEN "semremove" ELSE "none"
    BY <1>2, <2>1
  <2>3. /\ ~Paired(p)' /\ CreationOf(p)' /\ ~Ahead(p)'
        /\ (Behind(p)' <=> sem[p].created = TRUE) /\ (Behind(p) <=> sem[p].created = TRUE)
    BY <1>2, <2>1, <2>2 DEF Paired, CreationOf, Ahead, Behind
  <2>4. NamesOf(p)'
    BY <1>1, <1>2, <1>3, <2>1, <2>3 DEF NamesOf
  <2>. QED  BY <1>1, <1>2, <1>3, <2>1, <2>3, <2>4, QuietSerial
<1>5. CASE ShmSemUnlink(p)
  <2>1. /\ shmPc[p] = "semremove" /\ semName' = NoObject /\ shmPc'[p] = "none"
    BY <1>2, <1>5 DEF ShmSemUnlink, SemUnlinkOwn, ShmGoto
  <2>2. ~Paired(p)' /\ CreationOf(p)' /\ ~Ahead(p)' /\ ~Behind(p)' /\ Behind(p)
    BY <2>1 DEF Paired, CreationOf, Ahead, Behind
  <2>3. shmName = NoSegment /\ NamesOf(p)'
    BY <1>1, <1>2, <2>1, <2>2 DEF NamesOf
  <2>4. ASSUME NEW q \in Procs, Paired(q)' PROVE SameName(q)'
    <3>1. q # p /\ Paired(q) /\ shm'[q] = shm[q] /\ sem'[q] = sem[q]
      BY <2>2, <2>4 DEF ShmMoves, Paired
    <3>2. shm[q].seg # NoSegment /\ sem[q].hdl # NoObject
      BY <3>1, PairFacts
    <3>. QED  BY <1>1, <2>1, <2>3, <3>1, <3>2 DEF SameName
  <2>. QED  BY <1>2, <1>3, <2>2, <2>3, <2>4, SerialKeeps
<1>. QED  BY <1>4, <1>5

(* What a process does, or suffers, outside zshm_new() and zshm_free()      *)
(* while another may be inside.                                             *)
LEMMA SerialReady ==
  ASSUME Serial, ShmIInv, ShmIInv', SerialInv, NEW p \in Procs, ShmMoves(p),
         ShmLock(p) \/ ShmUnlock(p) \/ ShmTakeOwnership(p) \/ ShmCrash(p)
  PROVE  SerialInv'
<1>1. shmPc[p] = "ready" /\ UNCHANGED <<shmName, semName>>
  BY DEF Serial, ShmLock, ShmUnlock, ShmTakeOwnership, ShmCrash, SemAcquire, SemRelease,
         SemTakeOwnership, SemDie, shmVars
<1>2. /\ shm \in [Procs -> ShmRecords] /\ shmPc \in [Procs -> ShmPhases] /\ sem \in [Procs -> SemRecords]
      /\ shmName \in Segments \cup {NoSegment} /\ PhaseOf(p)
  BY SemFields DEF ShmIInv, ShmTyped, SemIInv, PhasesFit
<1>3. semPc[p] = "ready" /\ Paired(p) /\ shm[p].created = sem[p].created
  BY <1>1, <1>2 DEF PhaseOf, Paired, SerialInv, PairOf
<1>4. \/ shmPc'[p] = "none"
      \/ /\ shmPc'[p] = "ready" /\ shm'[p].seg = shm[p].seg /\ sem'[p].hdl = sem[p].hdl
         /\ shm'[p].created = sem'[p].created
  <2>1. CASE ShmLock(p) \/ ShmUnlock(p)
    <3>1. shm' = shm /\ shmPc' = shmPc
      BY <2>1 DEF ShmLock, ShmUnlock, shmVars
    <3>2. \E n : sem' = [sem EXCEPT ![p].units = n]
      BY <2>1 DEF ShmLock, ShmUnlock, SemAcquire, SemRelease
    <3>3. sem'[p].hdl = sem[p].hdl /\ sem'[p].created = sem[p].created
      BY <1>2, <3>2 DEF SemRecords
    <3>. QED  BY <1>1, <1>3, <3>1, <3>3
  <2>2. CASE ShmTakeOwnership(p)
    <3>1. /\ shm' = [shm EXCEPT ![p].created = TRUE] /\ shmPc' = shmPc
          /\ sem' = [sem EXCEPT ![p].created = TRUE]
      BY <2>2 DEF ShmTakeOwnership, SemTakeOwnership
    <3>2. shm'[p].seg = shm[p].seg /\ shm'[p].created = TRUE
      BY <1>2, <3>1 DEF ShmRecords
    <3>3. sem'[p].hdl = sem[p].hdl /\ sem'[p].created = TRUE
      BY <1>2, <3>1 DEF SemRecords
    <3>. QED  BY <1>1, <3>1, <3>2, <3>3
  <2>3. CASE ShmCrash(p)
    BY <1>2, <2>3 DEF ShmCrash, ShmGoto
  <2>. QED  BY <2>1, <2>2, <2>3
<1>5. Outside(p) /\ Outside(p)'
  BY <1>1, <1>4 DEF Outside
<1>6. ~Ahead(p) /\ ~Behind(p) /\ ~Unfilled(p) /\ ~Ahead(p)' /\ ~Behind(p)' /\ CreationOf(p)'
  BY <1>1, <1>4 DEF Ahead, Behind, Unfilled, CreationOf
<1>7. ASSUME NEW q \in Procs, q # p
      PROVE  /\ Outside(q)' <=> Outside(q)
             /\ Ahead(q)' <=> Ahead(q)
             /\ Behind(q)' <=> Behind(q)
             /\ Unfilled(q)' <=> Unfilled(q)
             /\ Paired(q)' <=> Paired(q)
             /\ CreationOf(q)
             /\ CreationOf(q)'
             /\ shm'[q] = shm[q] /\ sem'[q] = sem[q]
  <2>1. shm'[q] = shm[q] /\ shmPc'[q] = shmPc[q] /\ sem'[q] = sem[q] /\ semPc'[q] = semPc[q]
    BY <1>7 DEF ShmMoves
  <2>2. CreationOf(q)
    BY DEF SerialInv
  <2>3. CreationOf(q)'
    BY <1>1, <2>1, <2>2 DEF CreationOf
  <2>. QED  BY <2>1, <2>2, <2>3 DEF Outside, Ahead, Behind, Unfilled, Paired
<1>8. OneInside'
  BY <1>5, <1>7 DEF SerialInv, OneInside
<1>9. NamesAgree'
  <2>. SUFFICES ASSUME NEW r \in Procs, \A q \in Procs : q # r => Outside(q)' PROVE NamesOf(r)'
    BY DEF NamesAgree
  <2>1. NamesOf(r)
    BY <1>5, <1>7 DEF SerialInv, NamesAgree
  <2>2. (Ahead(r)' <=> Ahead(r)) /\ (Behind(r)' <=> Behind(r))
    BY <1>6, <1>7
  <2>. QED  BY <1>1, <2>1, <2>2 DEF NamesOf
<1>10. NamedFilled'
  <2>. SUFFICES ASSUME shmName # NoSegment, segSize'[shmName] = 0 PROVE \E q \in Procs : Unfilled(q)'
    BY <1>1 DEF NamedFilled
  <2>1. shmName \in Segments /\ shmName \in ShmReferenced'
    BY <1>1, <1>2 DEF ShmReferenced
  <2>2. segSize'[shmName] = segSize[shmName]
    <3>1. CASE ShmCrash(p)
      BY <2>1, <3>1, ReapKeeps DEF ShmCrash
    <3>2. CASE ShmLock(p) \/ ShmUnlock(p) \/ ShmTakeOwnership(p)
      BY <3>2 DEF ShmLock, ShmUnlock, ShmTakeOwnership, shmVars
    <3>. QED  BY <3>1, <3>2
  <2>3. \E q \in Procs : Unfilled(q)
    BY <2>2 DEF SerialInv, NamedFilled
  <2>. QED  BY <1>6, <1>7, <2>3
<1>11. ASSUME NEW r \in Procs, Paired(r)'
       PROVE  /\ Paired(r) /\ shm'[r].seg = shm[r].seg /\ sem'[r].hdl = sem[r].hdl
              /\ shm'[r].created = sem'[r].created
  <2>1. CASE r = p
    BY <1>3, <1>4, <1>11, <2>1 DEF Paired
  <2>2. CASE r # p
    BY <1>7, <1>11, <2>2 DEF SerialInv, PairOf
  <2>. QED  BY <2>1, <2>2
<1>12. ASSUME NEW r \in Procs PROVE PairOf(r)'
  <2>. SUFFICES ASSUME Paired(r)'
                PROVE  /\ shm'[r].seg # NoSegment /\ shm'[r].created = sem'[r].created
                       /\ (\A q \in Procs : ~Behind(q)') => SameName(r)'
                       /\ \A q \in Procs : Paired(q)' => Together(r, q)'
    BY DEF PairOf
  <2>1. PairOf(r) /\ Paired(r) /\ shm'[r].seg = shm[r].seg /\ sem'[r].hdl = sem[r].hdl
        /\ shm'[r].created = sem'[r].created
    BY <1>11 DEF SerialInv
  <2>2. ASSUME \A q \in Procs : ~Behind(q)' PROVE SameName(r)'
    <3>1. \A q \in Procs : ~Behind(q)
      BY <1>6, <1>7, <2>2
    <3>. QED  BY <1>1, <2>1, <3>1 DEF PairOf, SameName
  <2>3. ASSUME NEW q \in Procs, Paired(q)' PROVE Together(r, q)'
    <3>1. Paired(q) /\ shm'[q].seg = shm[q].seg /\ sem'[q].hdl = sem[q].hdl
      BY <1>11, <2>3
    <3>. QED  BY <2>1, <3>1 DEF PairOf, Together
  <2>. QED  BY <2>1, <2>2, <2>3 DEF PairOf
<1>. QED  BY <1>6, <1>7, <1>8, <1>9, <1>10, <1>12 DEF SerialInv

LEMMA SerialSteps == Serial /\ ShmIInv /\ ShmIInv' /\ SerialInv /\ [Next]_vars => SerialInv'
<1>. SUFFICES ASSUME Serial, ShmIInv, ShmIInv', SerialInv, [Next]_vars PROVE SerialInv'
  OBVIOUS
<1>1. CASE UNCHANGED vars
  <2>1. UNCHANGED <<semName, sem, semPc, shmName, segSize, shm, shmPc>>
    BY <1>1 DEF vars, semVars, shmVars
  <2>2. OneInside' /\ NamesAgree' /\ NamedFilled'
    BY <2>1 DEF SerialInv, OneInside, Outside, NamesAgree, NamesOf, Ahead, Behind, NamedFilled, Unfilled
  <2>3. ASSUME NEW p \in Procs PROVE CreationOf(p)'
    BY <2>1 DEF SerialInv, CreationOf
  <2>4. ASSUME NEW p \in Procs PROVE PairOf(p)'
    <3>1. PairOf(p)
      BY DEF SerialInv
    <3>. QED  BY <2>1, <3>1 DEF PairOf, Paired, Together, SameName, Behind
  <2>. QED  BY <2>2, <2>3, <2>4 DEF SerialInv
<1>2. CASE Next
  <2>1. PICK p \in Procs :
          \/ \E size \in Sizes : ShmNew(p, size)
          \/ ShmStep(p) \/ ShmTakeOwnership(p)
          \/ ShmLock(p) \/ ShmUnlock(p) \/ ShmFree(p) \/ ShmCrash(p)
    BY <1>2 DEF Next
  <2>2. ShmMoves(p)
    BY <2>1, ShmOthers
  <2>3. CASE (\E size \in Sizes : ShmNew(p, size)) \/ ShmFree(p)
    BY <2>2, <2>3, SerialOpen, SerialReturn
  <2>4. CASE ShmOpenExcl(p) \/ ShmOpen(p) \/ ShmStat(p) \/ ShmTruncate(p) \/ ShmMap(p)
    BY <2>2, <2>4, SerialOpen, SerialCreate, SerialTruncate, SerialMap
  <2>5. CASE SemNewStep(p) /\ UNCHANGED shmVars
    <3>1. semPc[p] = "excl" => SemOpenExcl(p)
      BY <2>5 DEF SemNewStep, SemUnlinkOld, SemOpen, SemOpenFails
    <3>. QED  BY <2>2, <2>5, <3>1, SerialSemCreate, SerialSemOpen
  <2>6. CASE ShmSemNew(p) \/ ShmNewReturn(p) \/ ShmClean(p) \/ ShmSemClose(p) \/ ShmSemUnlink(p)
    BY <2>2, <2>6, SerialSemNew, SerialReturn, SerialClean, SerialSemFree
  <2>7. CASE ShmTakeOwnership(p) \/ ShmLock(p) \/ ShmUnlock(p) \/ ShmCrash(p)
    BY <2>2, <2>7, SerialReady
  <2>. QED  BY <2>1, <2>3, <2>4, <2>5, <2>6, <2>7 DEF ShmStep
<1>. QED  BY <1>1, <1>2

LEMMA InitSerial == Init => SerialInv
<1>. SUFFICES ASSUME Init PROVE SerialInv
  OBVIOUS
<1>1. /\ shmName = NoSegment /\ semName = NoObject
      /\ \A p \in Procs : shmPc[p] = "none"
  BY DEF Init, SemInit
<1>2. \A p \in Procs : Outside(p) /\ ~Ahead(p) /\ ~Behind(p) /\ ~Paired(p) /\ CreationOf(p)
  BY <1>1 DEF Outside, Ahead, Behind, Paired, CreationOf
<1>. QED  BY <1>1, <1>2 DEF SerialInv, OneInside, NamesAgree, NamesOf, NamedFilled, PairOf

LEMMA SerialHolds == ASSUME Serial PROVE Spec => [](ShmIInv /\ SerialInv)
<1>1. ShmIInv /\ SerialInv /\ [Next]_vars => (ShmIInv /\ SerialInv)'
  BY ShmSteps, SerialSteps
<1>. QED  BY <1>1, InitShmIInv, InitSerial, PTL DEF Spec

LEMMA SerialAgrees ==
  ASSUME ShmIInv, SerialInv
  PROVE  SameSegmentSameLock /\ LockExcludes
<1>1. ASSUME NEW p \in Procs, NEW q \in Procs, Ready(p), Ready(q)
      PROVE  /\ shm[p].seg = shm[q].seg <=> sem[p].hdl = sem[q].hdl
             /\ sem[p].hdl \in Objects
  <2>1. Paired(p) /\ Paired(q)
    BY <1>1 DEF Ready, Paired, ShmIInv, PhasesFit, PhaseOf
  <2>. QED  BY <2>1, PairFacts DEF SerialInv, PairOf, Together
<1>2. \A o \in Objects : semInit[o] \in {0, 1}
  BY ShmAssumption DEF ShmIInv, SemIInv, SemType
<1>3. ASSUME NEW p \in Procs, NEW q \in Procs, p # q, Ready(p), Ready(q), shm[p].seg = shm[q].seg
      PROVE  sem[p].units = 0 \/ sem[q].units = 0
  BY <1>1, <1>2, <1>3, ConservedExcludes DEF ShmIInv
<1>. QED  BY <1>1, <1>3 DEF SameSegmentSameLock, LockExcludes

(* When zshm_new() and zshm_free() of different processes do not overlap    *)
(* and nobody is killed inside them, processes that share a segment share   *)
(* its semaphore and the other way round, whatever was freed, taken over    *)
(* and created again in between.                                            *)
THEOREM SerialPairs == ASSUME Serial PROVE Spec => []SameSegmentSameLock
BY SerialAgrees, SerialHolds, PTL

(* Under the same conditions zshm_lock() excludes the processes that share  *)
(* a segment from one another.                                              *)
THEOREM SerialLocksExclude == ASSUME Serial PROVE Spec => []LockExcludes
BY SerialAgrees, SerialHolds, PTL
=============================================================================
