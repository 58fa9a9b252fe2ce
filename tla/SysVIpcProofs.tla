---------------------------- MODULE SysVIpcProofs ----------------------------
(***************************************************************************)
(* Proofs about System V shared memory and its semaphore, for every finite *)
(* set of processes.                                                       *)
(***************************************************************************)
EXTENDS SysVIpc, FiniteSetTheorems, TLAPS

------------------------------------------------------------------------------
(* Types.                                                                   *)

Keys == Inodes \cup {NoKey}
Handles == Ids \cup {NoKey}
Phases ==
  {"none", "shmfile", "shmkey", "shmexcl", "shmget", "shmat",
   "semfile", "semkey", "semexcl", "semget", "semset", "semmade", "semfailed", "semrmid", "semunlink",
   "ready", "relock", "shmdt", "shmstat", "shmrmid", "shmunlink"}
ProcType ==
  [pc : Phases, call : {"new", "failed", "refused", "free", "acquire", "release"},
   key : Keys, built : {0, 1}, seg : Handles, addr : BOOLEAN, shmFile : BOOLEAN,
   sem : Handles, semCreated : BOOLEAN, semFile : BOOLEAN, mode : {"create", "open"},
   held : BOOLEAN]
SegType == [live : BOOLEAN, key : Keys, attached : SUBSET SysvProcs]
SemType == [live : BOOLEAN, key : Keys, val : Int, undo : [SysvProcs -> Int]]

SysvTyped ==
  /\ usage \in {"disciplined", "free"}
  /\ keyFile \in [{"shm", "sem"} -> Keys]
  /\ segs \in [Ids -> SegType]
  /\ sems \in [Ids -> SemType]
  /\ proc \in [SysvProcs -> ProcType]

(* What a step of process p leaves alone.                                   *)
Others(p) == \A q \in SysvProcs : q # p => proc'[q] = proc[q]
KeepsSeg(p) == proc'[p].seg = proc[p].seg /\ proc'[p].addr = proc[p].addr
KeepsSem(p) ==
  /\ proc'[p].sem = proc[p].sem
  /\ proc'[p].semCreated = proc[p].semCreated /\ proc'[p].semFile = proc[p].semFile
KeepsUse(p) ==
  proc'[p].call = proc[p].call /\ proc'[p].mode = proc[p].mode /\ proc'[p].held = proc[p].held

LEMMA Replaced ==
  ASSUME SysvTyped, NEW p \in SysvProcs, NEW r \in ProcType, Becomes(p, r)
  PROVE  proc' \in [SysvProcs -> ProcType] /\ proc'[p] = r /\ Others(p)
BY DEF SysvTyped, Becomes, Others

LEMMA GoesDoes ==
  ASSUME SysvTyped, NEW p \in SysvProcs, NEW phase \in Phases, Goes(p, phase)
  PROVE  /\ proc' \in [SysvProcs -> ProcType] /\ Others(p)
         /\ proc'[p].pc = phase /\ proc'[p].key = proc[p].key
         /\ proc'[p].shmFile = proc[p].shmFile /\ proc'[p].built = proc[p].built
         /\ KeepsSeg(p) /\ KeepsSem(p) /\ KeepsUse(p)
<1>. DEFINE r == [proc[p] EXCEPT !.pc = phase]
<1>1. proc[p] \in ProcType
  BY DEF SysvTyped
<1>2. r \in ProcType
  BY <1>1 DEF ProcType
<1>3. proc' \in [SysvProcs -> ProcType] /\ proc'[p] = r /\ Others(p)
  BY <1>2, Replaced DEF Goes
<1>. QED  BY <1>1, <1>3 DEF ProcType, KeepsSeg, KeepsSem, KeepsUse

(* zipc_unix_create_key_file() and zipc_unix_get_ftok_key()                 *)
LEMMA CreateKeyFileDoes ==
  ASSUME SysvTyped, NEW p \in SysvProcs, NEW o \in {"shm", "sem"}, NEW phase \in Phases,
         CreateKeyFile(p, o, phase)
  PROVE  /\ proc' \in [SysvProcs -> ProcType] /\ keyFile' \in [{"shm", "sem"} -> Keys] /\ Others(p)
         /\ proc'[p].pc = phase /\ KeepsSeg(p) /\ KeepsUse(p)
         /\ proc'[p].sem = proc[p].sem /\ proc'[p].semCreated = proc[p].semCreated
         /\ o = "shm" => proc'[p].semFile = proc[p].semFile /\ keyFile'["sem"] = keyFile["sem"]
         /\ o = "sem" => proc'[p].shmFile = proc[p].shmFile /\ keyFile'["shm"] = keyFile["shm"]
         /\ keyFile'[o] # NoKey
         /\ keyFile[o] # NoKey =>
              /\ keyFile' = keyFile
              /\ proc'[p].semFile = proc[p].semFile /\ proc'[p].shmFile = proc[p].shmFile
<1>1. proc[p] \in ProcType /\ keyFile \in [{"shm", "sem"} -> Keys]
  BY DEF SysvTyped
<1>2. CASE keyFile[o] # NoKey
  <2>. DEFINE r == [proc[p] EXCEPT !.built = 1, !.pc = phase]
  <2>1. keyFile' = keyFile /\ Becomes(p, r)
    BY <1>2 DEF CreateKeyFile
  <2>2. r \in ProcType
    BY <1>1 DEF ProcType
  <2>3. proc' \in [SysvProcs -> ProcType] /\ proc'[p] = r /\ Others(p)
    BY <2>1, <2>2, Replaced
  <2>. QED  BY <1>1, <1>2, <2>1, <2>3 DEF ProcType, KeepsSeg, KeepsUse
<1>3. CASE keyFile[o] = NoKey
  <2>. DEFINE r == IF o = "shm" THEN [proc[p] EXCEPT !.built = 0, !.shmFile = TRUE, !.pc = phase]
                   ELSE [proc[p] EXCEPT !.built = 0, !.semFile = TRUE, !.pc = phase]
  <2>1. PICK n \in Inodes : keyFile' = [keyFile EXCEPT ![o] = n] /\ Becomes(p, r)
    BY <1>3 DEF CreateKeyFile
  <2>2. r \in ProcType /\ n # NoKey
    BY <1>1, SysvAssumption DEF ProcType
  <2>3. proc' \in [SysvProcs -> ProcType] /\ proc'[p] = r /\ Others(p)
    BY <2>1, <2>2, Replaced
  <2>4. keyFile' \in [{"shm", "sem"} -> Keys] /\ keyFile'[o] = n
    BY <1>1, <2>1 DEF Keys
  <2>5. CASE o = "shm"
    BY <1>1, <1>3, <2>1, <2>2, <2>3, <2>4, <2>5 DEF ProcType, KeepsSeg, KeepsUse
  <2>6. CASE o = "sem"
    BY <1>1, <1>3, <2>1, <2>2, <2>3, <2>4, <2>6 DEF ProcType, KeepsSeg, KeepsUse
  <2>. QED  BY <2>5, <2>6
<1>. QED  BY <1>2, <1>3

LEMMA GetFtokKeyDoes ==
  ASSUME SysvTyped, NEW p \in SysvProcs, NEW o \in {"shm", "sem"}, NEW phase \in Phases,
         NEW failed \in Phases, GetFtokKey(p, o, phase, failed)
  PROVE  /\ proc' \in [SysvProcs -> ProcType] /\ Others(p)
         /\ KeepsSeg(p) /\ KeepsSem(p) /\ KeepsUse(p) /\ proc'[p].shmFile = proc[p].shmFile
         /\ keyFile[o] # NoKey => proc'[p].pc = phase /\ proc'[p].key = keyFile[o]
         /\ keyFile[o] = NoKey => proc'[p].pc = failed
<1>1. proc[p] \in ProcType /\ keyFile[o] \in Keys
  BY DEF SysvTyped
<1>2. CASE keyFile[o] # NoKey
  <2>. DEFINE r == [proc[p] EXCEPT !.key = keyFile[o], !.pc = phase]
  <2>1. r \in ProcType /\ Becomes(p, r)
    BY <1>1, <1>2 DEF GetFtokKey, ProcType
  <2>2. proc' \in [SysvProcs -> ProcType] /\ proc'[p] = r /\ Others(p)
    BY <2>1, Replaced
  <2>. QED  BY <1>1, <1>2, <2>2 DEF ProcType, KeepsSeg, KeepsSem, KeepsUse
<1>3. CASE keyFile[o] = NoKey
  BY <1>3, GoesDoes DEF GetFtokKey
<1>. QED  BY <1>2, <1>3

(* shmget() and semget()                                                    *)
LEMMA FoundIs ==
  ASSUME NEW objects, NEW key
  PROVE  \/ Found(objects, key) = NoKey /\ \A i \in Ids : ~(objects[i].live /\ objects[i].key = key)
         \/ /\ Found(objects, key) \in Ids /\ Found(objects, key) # NoKey
            /\ objects[Found(objects, key)].live /\ objects[Found(objects, key)].key = key
BY SysvAssumption DEF Found

(* Identifiers never run out: there are more of them than processes.        *)
LEMMA Room ==
  ASSUME NEW objects, NEW handle \in [SysvProcs -> Handles],
         \A i \in Ids : objects[i].live => \E p \in SysvProcs : handle[p] = i
  PROVE  \E i \in Ids : ~objects[i].live /\ \A p \in SysvProcs : handle[p] # i
<1>. DEFINE known == {handle[p] : p \in SysvProcs}
<1>1. IsFiniteSet(known) /\ Cardinality(known) <= Cardinality(SysvProcs)
  <2>1. handle \in Surjection(SysvProcs, known)
    BY DEF Surjection
  <2>. QED  BY <2>1, SysvAssumption, FS_Surjection
<1>2. Cardinality(SysvProcs) \in Nat /\ Cardinality(known) \in Nat
  BY <1>1, SysvAssumption, FS_CardinalityType
<1>3. ~(Ids \subseteq known)
  <2>. SUFFICES ASSUME Ids \subseteq known PROVE FALSE
    OBVIOUS
  <2>1. IsFiniteSet(Ids) /\ Cardinality(Ids) <= Cardinality(known) /\ Cardinality(Ids) \in Nat
    BY <1>1, FS_Subset, FS_CardinalityType
  <2>. QED  BY <1>1, <1>2, <2>1, SysvAssumption
<1>. QED  BY <1>3

SegRoom == \E i \in Ids : ~segs[i].live /\ \A p \in SysvProcs : SegOf(p) # i
SemRoom == \E i \in Ids : ~sems[i].live /\ \A p \in SysvProcs : SemOf(p) # i

(* What each step does, one lemma per action.                               *)
Common(p) == usage' = usage /\ SysvTyped' /\ Others(p)

LEMMA SysvNewDoes ==
  ASSUME SysvTyped, NEW p \in SysvProcs, SysvNew(p)
  PROVE  /\ proc[p].pc = "none" /\ MayBegin(p) /\ UNCHANGED <<keyFile, segs, sems>> /\ Common(p)
         /\ proc'[p].pc = "shmfile" /\ KeepsSeg(p) /\ KeepsSem(p) /\ KeepsUse(p)
<1>1. /\ proc[p].pc = "none" /\ MayBegin(p) /\ UNCHANGED <<usage, keyFile, segs, sems>>
      /\ Goes(p, "shmfile")
  BY DEF SysvNew, At
<1>2. "shmfile" \in Phases
  BY DEF Phases
<1>. QED  BY <1>1, <1>2, GoesDoes DEF Common, SysvTyped

LEMMA ShmKeyFileDoes ==
  ASSUME SysvTyped, NEW p \in SysvProcs, ShmKeyFile(p)
  PROVE  /\ proc[p].pc = "shmfile" /\ UNCHANGED <<segs, sems>> /\ Common(p)
         /\ proc'[p].pc = "shmkey" /\ KeepsSeg(p) /\ KeepsSem(p) /\ KeepsUse(p)
         /\ keyFile'["shm"] # NoKey /\ keyFile'["sem"] = keyFile["sem"]
         /\ keyFile["shm"] # NoKey => keyFile' = keyFile
<1>1. proc[p].pc = "shmfile" /\ UNCHANGED <<usage, segs, sems>> /\ CreateKeyFile(p, "shm", "shmkey")
  BY DEF ShmKeyFile, At
<1>2. "shmkey" \in Phases
  BY DEF Phases
<1>. QED  BY <1>1, <1>2, CreateKeyFileDoes DEF Common, SysvTyped, KeepsSem

LEMMA SemKeyFileDoes ==
  ASSUME SysvTyped, NEW p \in SysvProcs, SemKeyFile(p)
  PROVE  /\ proc[p].pc = "semfile" /\ UNCHANGED <<segs, sems>> /\ Common(p)
         /\ proc'[p].pc = "semkey" /\ KeepsSeg(p) /\ KeepsUse(p)
         /\ proc'[p].sem = proc[p].sem /\ proc'[p].semCreated = proc[p].semCreated
         /\ keyFile'["sem"] # NoKey /\ keyFile'["shm"] = keyFile["shm"]
         /\ keyFile["sem"] # NoKey => keyFile' = keyFile /\ proc'[p].semFile = proc[p].semFile
<1>1. proc[p].pc = "semfile" /\ UNCHANGED <<usage, segs, sems>> /\ CreateKeyFile(p, "sem", "semkey")
  BY DEF SemKeyFile, At
<1>2. "semkey" \in Phases
  BY DEF Phases
<1>. QED  BY <1>1, <1>2, CreateKeyFileDoes DEF Common, SysvTyped

LEMMA ShmKeyDoes ==
  ASSUME SysvTyped, NEW p \in SysvProcs, ShmKey(p)
  PROVE  /\ proc[p].pc = "shmkey" /\ UNCHANGED <<keyFile, segs, sems>> /\ Common(p)
         /\ KeepsSeg(p) /\ KeepsSem(p) /\ KeepsUse(p)
         /\ keyFile["shm"] # NoKey => proc'[p].pc = "shmexcl" /\ proc'[p].key = keyFile["shm"]
         /\ keyFile["shm"] = NoKey => proc'[p].pc = "shmunlink"
<1>1. /\ proc[p].pc = "shmkey" /\ UNCHANGED <<usage, keyFile, segs, sems>>
      /\ GetFtokKey(p, "shm", "shmexcl", "shmunlink")
  BY DEF ShmKey, At
<1>2. "shmexcl" \in Phases /\ "shmunlink" \in Phases
  BY DEF Phases
<1>. QED  BY <1>1, <1>2, GetFtokKeyDoes DEF Common, SysvTyped

LEMMA SemKeyDoes ==
  ASSUME SysvTyped, NEW p \in SysvProcs, SemKey(p)
  PROVE  /\ proc[p].pc = "semkey" /\ UNCHANGED <<keyFile, segs, sems>> /\ Common(p)
         /\ KeepsSeg(p) /\ KeepsSem(p) /\ KeepsUse(p)
         /\ keyFile["sem"] # NoKey => proc'[p].pc = "semexcl" /\ proc'[p].key = keyFile["sem"]
         /\ keyFile["sem"] = NoKey => proc'[p].pc = "semfailed"
<1>1. /\ proc[p].pc = "semkey" /\ UNCHANGED <<usage, keyFile, segs, sems>>
      /\ GetFtokKey(p, "sem", "semexcl", "semfailed")
  BY DEF SemKey, At
<1>2. "semexcl" \in Phases /\ "semfailed" \in Phases
  BY DEF Phases
<1>. QED  BY <1>1, <1>2, GetFtokKeyDoes DEF Common, SysvTyped

LEMMA NewSeg ==
  ASSUME NEW k \in Keys, NEW s, s = [NoSeg EXCEPT !.live = TRUE, !.key = k]
  PROVE  s \in SegType /\ s.live = TRUE /\ s.key = k /\ s.attached = {}
BY DEF NoSeg, SegType

LEMMA ShmGetExclDoes ==
  ASSUME SysvTyped, NEW p \in SysvProcs, ShmGetExcl(p),
         Found(segs, proc[p].key) = NoKey => SegRoom
  PROVE  /\ proc[p].pc = "shmexcl" /\ UNCHANGED <<keyFile, sems>> /\ Common(p)
         /\ KeepsSem(p) /\ proc'[p].addr = proc[p].addr
         /\ proc'[p].call = proc[p].call /\ proc'[p].held = proc[p].held
         /\ \/ /\ Found(segs, proc[p].key) # NoKey
               /\ segs' = segs /\ proc'[p].pc = "shmget"
               /\ proc'[p].seg = proc[p].seg /\ proc'[p].key = proc[p].key
            \/ /\ Found(segs, proc[p].key) = NoKey
               /\ proc'[p].pc = "shmat" /\ proc'[p].mode = "create"
               /\ \E i \in Ids :
                    /\ ~segs[i].live /\ \A q \in SysvProcs : proc[q].seg # i
                    /\ proc'[p].seg = i
                    /\ segs'[i].live = TRUE /\ segs'[i].key = proc[p].key /\ segs'[i].attached = {}
                    /\ \A j \in Ids : j # i => segs'[j] = segs[j]
<1>1. /\ proc[p].pc = "shmexcl" /\ UNCHANGED <<usage, keyFile, sems>> /\ proc[p] \in ProcType
  BY DEF ShmGetExcl, At, SysvTyped
<1>2. CASE Found(segs, proc[p].key) = NoKey
  <2>. DEFINE i == Fresh(segs, SegOf)
              r == [proc[p] EXCEPT !.seg = i, !.shmFile = (proc[p].built = 1),
                                   !.mode = "create", !.pc = "shmat"]
              s == [NoSeg EXCEPT !.live = TRUE, !.key = proc[p].key]
  <2>1. i \in Ids /\ ~segs[i].live /\ \A q \in SysvProcs : proc[q].seg # i
    BY <1>2 DEF Fresh, SegRoom, SegOf
  <2>2. s \in SegType /\ s.live = TRUE /\ s.key = proc[p].key /\ s.attached = {}
    BY <1>1, NewSeg DEF ProcType
  <2>3. segs' = [segs EXCEPT ![i] = s] /\ Becomes(p, r)
    BY <1>2 DEF ShmGetExcl
  <2>. HIDE DEF i, s
  <2>4. r \in ProcType
    BY <1>1, <2>1 DEF ProcType, Phases, Handles
  <2>5. proc' \in [SysvProcs -> ProcType] /\ proc'[p] = r /\ Others(p)
    BY <2>3, <2>4, Replaced
  <2>6. segs' \in [Ids -> SegType] /\ segs'[i] = s /\ \A j \in Ids : j # i => segs'[j] = segs[j]
    BY <2>1, <2>2, <2>3 DEF SysvTyped
  <2>7. /\ proc'[p].pc = "shmat" /\ proc'[p].mode = "create" /\ proc'[p].seg = i
        /\ KeepsSem(p) /\ proc'[p].addr = proc[p].addr
        /\ proc'[p].call = proc[p].call /\ proc'[p].held = proc[p].held
    BY <1>1, <2>5 DEF ProcType, KeepsSem
  <2>. QED  BY <1>1, <1>2, <2>1, <2>2, <2>5, <2>6, <2>7 DEF Common, SysvTyped
<1>3. CASE Found(segs, proc[p].key) # NoKey
  <2>1. segs' = segs /\ Goes(p, "shmget") /\ "shmget" \in Phases
    BY <1>3 DEF ShmGetExcl, Phases
  <2>. QED  BY <1>1, <1>3, <2>1, GoesDoes DEF Common, SysvTyped, KeepsSeg, KeepsUse
<1>. QED  BY <1>2, <1>3

LEMMA ShmGetDoes ==
  ASSUME SysvTyped, NEW p \in SysvProcs, ShmGet(p)
  PROVE  /\ proc[p].pc = "shmget" /\ UNCHANGED <<keyFile, segs, sems>> /\ Common(p)
         /\ KeepsSem(p) /\ proc'[p].addr = proc[p].addr
         /\ proc'[p].call = proc[p].call /\ proc'[p].held = proc[p].held
         /\ proc'[p].mode = "open" /\ proc'[p].seg = Found(segs, proc[p].key)
         /\ proc'[p].pc = IF proc'[p].seg = NoKey THEN "shmunlink" ELSE "shmat"
<1>1. /\ proc[p].pc = "shmget" /\ UNCHANGED <<usage, keyFile, segs, sems>> /\ proc[p] \in ProcType
  BY DEF ShmGet, At, SysvTyped
<1>. DEFINE i == Found(segs, proc[p].key)
            r == [proc[p] EXCEPT !.seg = i, !.mode = "open",
                                 !.pc = IF i = NoKey THEN "shmunlink" ELSE "shmat"]
<1>2. i \in Handles /\ Becomes(p, r)
  BY FoundIs DEF ShmGet, Handles
<1>. HIDE DEF i
<1>3. r \in ProcType
  BY <1>1, <1>2 DEF ProcType, Phases
<1>4. proc' \in [SysvProcs -> ProcType] /\ proc'[p] = r /\ Others(p)
  BY <1>2, <1>3, Replaced
<1>5. /\ proc'[p].mode = "open" /\ proc'[p].seg = i /\ KeepsSem(p) /\ proc'[p].addr = proc[p].addr
      /\ proc'[p].call = proc[p].call /\ proc'[p].held = proc[p].held
      /\ proc'[p].pc = IF i = NoKey THEN "shmunlink" ELSE "shmat"
  BY <1>1, <1>4 DEF ProcType, KeepsSem
<1>. QED  BY <1>1, <1>4, <1>5 DEF Common, SysvTyped, i

LEMMA ShmAttachDoes ==
  ASSUME SysvTyped, NEW p \in SysvProcs, ShmAttach(p)
  PROVE  /\ proc[p].pc = "shmat" /\ UNCHANGED <<keyFile, sems>> /\ Common(p)
         /\ proc'[p].seg = proc[p].seg /\ KeepsSem(p) /\ KeepsUse(p)
         /\ \/ /\ SegLives(p) /\ proc'[p].addr = TRUE /\ proc'[p].pc = "semfile"
               /\ proc[p].seg \in Ids
               /\ segs' = [segs EXCEPT ![proc[p].seg].attached = @ \cup {p}]
            \/ /\ ~SegLives(p) /\ proc'[p].addr = proc[p].addr /\ proc'[p].pc = "shmunlink"
               /\ segs' = segs
<1>1. proc[p].pc = "shmat" /\ UNCHANGED <<usage, keyFile, sems>> /\ proc[p] \in ProcType
  BY DEF ShmAttach, At, SysvTyped
<1>2. CASE SegLives(p)
  <2>. DEFINE r == [proc[p] EXCEPT !.addr = TRUE, !.pc = "semfile"]
  <2>1. /\ segs' = [segs EXCEPT ![proc[p].seg].attached = @ \cup {p}] /\ Becomes(p, r)
        /\ proc[p].seg \in Ids
    BY <1>1, <1>2 DEF ShmAttach, SegLives, SegOf, ProcType, Handles
  <2>2. r \in ProcType
    BY <1>1 DEF ProcType, Phases
  <2>3. proc' \in [SysvProcs -> ProcType] /\ proc'[p] = r /\ Others(p)
    BY <2>1, <2>2, Replaced
  <2>4. segs' \in [Ids -> SegType]
    BY <2>1 DEF SysvTyped, SegType
  <2>5. /\ proc'[p].seg = proc[p].seg /\ KeepsSem(p) /\ KeepsUse(p)
        /\ proc'[p].addr = TRUE /\ proc'[p].pc = "semfile"
    BY <1>1, <2>3 DEF ProcType, KeepsSem, KeepsUse
  <2>. QED  BY <1>1, <1>2, <2>1, <2>3, <2>4, <2>5 DEF Common, SysvTyped
<1>3. CASE ~SegLives(p)
  <2>1. segs' = segs /\ Goes(p, "shmunlink") /\ "shmunlink" \in Phases
    BY <1>3 DEF ShmAttach, Phases
  <2>. QED  BY <1>1, <1>3, <2>1, GoesDoes DEF Common, SysvTyped, KeepsSeg
<1>. QED  BY <1>2, <1>3

LEMMA NewSem ==
  ASSUME NEW k
  PROVE  [NoSysvSem EXCEPT !.live = TRUE, !.key = k] =
           [live |-> TRUE, key |-> k, val |-> 0, undo |-> [q \in SysvProcs |-> 0]]
<1>1. PICK u : u = [q \in SysvProcs |-> 0]
  OBVIOUS
<1>2. PICK s : s = [[live |-> FALSE, key |-> NoKey, val |-> 0, undo |-> u] EXCEPT !.live = TRUE, !.key = k]
  OBVIOUS
<1>3. s = [live |-> TRUE, key |-> k, val |-> 0, undo |-> u]
  BY <1>2
<1>. QED  BY <1>1, <1>2, <1>3 DEF NoSysvSem

LEMMA NoneTyped ==
  /\ NoProc \in ProcType /\ NoSeg \in SegType /\ NoSysvSem \in SemType
  /\ NoSeg.live = FALSE /\ NoSeg.attached = {} /\ NoSysvSem.live = FALSE
  /\ NoProc.pc = "none" /\ NoProc.call = "new" /\ NoProc.seg = NoKey /\ NoProc.addr = FALSE
  /\ NoProc.sem = NoKey /\ NoProc.semCreated = FALSE /\ NoProc.semFile = FALSE
  /\ NoProc.shmFile = FALSE /\ NoProc.held = FALSE
<1>1. NoKey \in Keys /\ NoKey \in Handles /\ NoKey = 0
  BY DEF Keys, Handles, NoKey
<1>2. NoSeg \in SegType /\ NoSeg.live = FALSE /\ NoSeg.attached = {}
  BY <1>1 DEF NoSeg, SegType
<1>3. NoSysvSem \in SemType /\ NoSysvSem.live = FALSE
  BY <1>1 DEF NoSysvSem, SemType
<1>4. NoProc \in ProcType
  BY <1>1 DEF NoProc, ProcType, Phases
<1>. QED  BY <1>2, <1>3, <1>4 DEF NoProc

LEMMA ReadyIs ==
  ASSUME NEW r \in ProcType
  PROVE  /\ SysvReady(r) \in ProcType /\ SysvReady(r).pc = "ready" /\ SysvReady(r).call = "new"
         /\ SysvReady(r).seg = r.seg /\ SysvReady(r).addr = r.addr /\ SysvReady(r).shmFile = r.shmFile
         /\ SysvReady(r).sem = r.sem /\ SysvReady(r).semCreated = r.semCreated /\ SysvReady(r).semFile = r.semFile
         /\ SysvReady(r).mode = r.mode /\ SysvReady(r).held = r.held
<1>1. NoKey \in Keys /\ "ready" \in Phases
  BY DEF Keys, Phases
<1>. QED  BY <1>1 DEF SysvReady, ProcType

LEMMA SemGetExclDoes ==
  ASSUME SysvTyped, NEW p \in SysvProcs, SemGetExcl(p),
         Found(sems, proc[p].key) = NoKey => SemRoom
  PROVE  /\ proc[p].pc = "semexcl" /\ UNCHANGED <<keyFile, segs>> /\ Common(p)
         /\ KeepsSeg(p) /\ KeepsUse(p)
         /\ \/ /\ Found(sems, proc[p].key) # NoKey
               /\ sems' = sems /\ proc'[p].pc = "semget" /\ KeepsSem(p) /\ proc'[p].key = proc[p].key
            \/ /\ Found(sems, proc[p].key) = NoKey
               /\ proc'[p].pc = "semset" /\ proc'[p].semCreated = TRUE
               /\ \E i \in Ids :
                    /\ ~sems[i].live /\ \A q \in SysvProcs : proc[q].sem # i
                    /\ proc'[p].sem = i
                    /\ sems'[i].live = TRUE /\ sems'[i].key = proc[p].key
                    /\ \A q \in SysvProcs : sems'[i].undo[q] = 0
                    /\ \A j \in Ids : j # i => sems'[j] = sems[j]
<1>1. /\ proc[p].pc = "semexcl" /\ UNCHANGED <<usage, keyFile, segs>> /\ proc[p] \in ProcType
  BY DEF SemGetExcl, At, SysvTyped
<1>2. CASE Found(sems, proc[p].key) = NoKey
  <2>. DEFINE i == Fresh(sems, SemOf)
              r == [proc[p] EXCEPT !.sem = i, !.semCreated = TRUE,
                                   !.semFile = (proc[p].built = 1), !.pc = "semset"]
              s == [NoSysvSem EXCEPT !.live = TRUE, !.key = proc[p].key]
  <2>1. i \in Ids /\ ~sems[i].live /\ \A q \in SysvProcs : proc[q].sem # i
    BY <1>2 DEF Fresh, SemRoom, SemOf
  <2>2. s \in SemType /\ s.live = TRUE /\ s.key = proc[p].key /\ \A q \in SysvProcs : s.undo[q] = 0
    <3>1. PICK k, u : k \in Keys /\ k = proc[p].key /\ u = [q \in SysvProcs |-> 0]
      BY <1>1 DEF ProcType
    <3>2. u \in [SysvProcs -> Int] /\ \A q \in SysvProcs : u[q] = 0
      BY <3>1
    <3>3. s = [live |-> TRUE, key |-> k, val |-> 0, undo |-> u]
      BY <3>1, NewSem
    <3>. HIDE DEF s
    <3>. QED  BY <3>1, <3>2, <3>3 DEF SemType
  <2>3. sems' = [sems EXCEPT ![i] = s] /\ Becomes(p, r)
    BY <1>2 DEF SemGetExcl
  <2>. HIDE DEF i, s
  <2>4. r \in ProcType
    BY <1>1, <2>1 DEF ProcType, Phases, Handles
  <2>5. proc' \in [SysvProcs -> ProcType] /\ proc'[p] = r /\ Others(p)
    BY <2>3, <2>4, Replaced
  <2>6. sems' \in [Ids -> SemType] /\ sems'[i] = s /\ \A j \in Ids : j # i => sems'[j] = sems[j]
    BY <2>1, <2>2, <2>3 DEF SysvTyped
  <2>7. /\ proc'[p].pc = "semset" /\ proc'[p].semCreated = TRUE /\ proc'[p].sem = i
        /\ KeepsSeg(p) /\ KeepsUse(p)
    BY <1>1, <2>5 DEF ProcType, KeepsSeg, KeepsUse
  <2>. QED  BY <1>1, <1>2, <2>1, <2>2, <2>5, <2>6, <2>7 DEF Common, SysvTyped
<1>3. CASE Found(sems, proc[p].key) # NoKey
  <2>1. sems' = sems /\ Goes(p, "semget") /\ "semget" \in Phases
    BY <1>3 DEF SemGetExcl, Phases
  <2>. QED  BY <1>1, <1>3, <2>1, GoesDoes DEF Common, SysvTyped
<1>. QED  BY <1>2, <1>3

LEMMA SemGetDoes ==
  ASSUME SysvTyped, NEW p \in SysvProcs, SemGet(p)
  PROVE  /\ proc[p].pc = "semget" /\ UNCHANGED <<keyFile, segs, sems>> /\ Common(p)
         /\ KeepsSeg(p) /\ KeepsUse(p)
         /\ proc'[p].semCreated = proc[p].semCreated /\ proc'[p].semFile = proc[p].semFile
         /\ proc'[p].sem = Found(sems, proc[p].key)
         /\ proc'[p].sem = NoKey => proc'[p].pc = "semfailed"
         /\ proc'[p].sem # NoKey => proc'[p].pc = IF proc[p].mode = "create" THEN "semset" ELSE "semmade"
<1>1. /\ proc[p].pc = "semget" /\ UNCHANGED <<usage, keyFile, segs, sems>> /\ proc[p] \in ProcType
  BY DEF SemGet, At, SysvTyped
<1>2. PICK i : i = Found(sems, proc[p].key)
  OBVIOUS
<1>3. PICK phase : phase = IF i = NoKey THEN "semfailed"
                           ELSE IF proc[p].mode = "create" THEN "semset" ELSE "semmade"
  OBVIOUS
<1>4. phase \in Phases
  BY <1>3 DEF Phases
<1>. DEFINE r == [proc[p] EXCEPT !.sem = i, !.pc = phase]
<1>5. i \in Handles /\ Becomes(p, r)
  BY <1>2, <1>3, FoundIs DEF SemGet, Handles
<1>6. r \in ProcType
  BY <1>1, <1>4, <1>5 DEF ProcType
<1>7. proc' \in [SysvProcs -> ProcType] /\ proc'[p] = r /\ Others(p)
  BY <1>5, <1>6, Replaced
<1>8. /\ proc'[p].sem = i /\ KeepsSeg(p) /\ KeepsUse(p) /\ proc'[p].pc = phase
      /\ proc'[p].semCreated = proc[p].semCreated /\ proc'[p].semFile = proc[p].semFile
  BY <1>1, <1>7 DEF ProcType, KeepsSeg, KeepsUse
<1>. QED  BY <1>1, <1>2, <1>3, <1>7, <1>8 DEF Common, SysvTyped

LEMMA SemSetValDoes ==
  ASSUME SysvTyped, NEW p \in SysvProcs, SemSetVal(p)
  PROVE  /\ proc[p].pc = "semset" /\ UNCHANGED <<keyFile, segs>> /\ Common(p)
         /\ KeepsSeg(p) /\ KeepsSem(p) /\ KeepsUse(p)
         /\ \A j \in Ids : sems'[j].live = sems[j].live /\ sems'[j].key = sems[j].key
         /\ \/ /\ SemLives(p) /\ proc[p].sem \in Ids /\ proc'[p].pc = "semmade"
               /\ sems'[proc[p].sem].val = 1
               /\ \A q \in SysvProcs : sems'[proc[p].sem].undo[q] = 0
            \/ ~SemLives(p) /\ proc'[p].pc = "semfailed"
<1>1. proc[p].pc = "semset" /\ UNCHANGED <<usage, keyFile, segs>> /\ proc[p] \in ProcType
  BY DEF SemSetVal, At, SysvTyped
<1>2. CASE SemLives(p)
  <2>1. /\ sems' = [sems EXCEPT ![proc[p].sem].val = 1, ![proc[p].sem].undo = NoSysvSem.undo]
        /\ Goes(p, "semmade") /\ "semmade" \in Phases /\ proc[p].sem \in Ids
    BY <1>1, <1>2 DEF SemSetVal, SemLives, SemOf, Phases, ProcType, Handles
  <2>2. NoSysvSem.undo \in [SysvProcs -> Int] /\ \A q \in SysvProcs : NoSysvSem.undo[q] = 0
    BY DEF NoSysvSem
  <2>3. /\ sems' \in [Ids -> SemType]
        /\ \A j \in Ids : sems'[j].live = sems[j].live /\ sems'[j].key = sems[j].key
        /\ sems'[proc[p].sem].val = 1 /\ sems'[proc[p].sem].undo = NoSysvSem.undo
    BY <2>1, <2>2 DEF SysvTyped, SemType
  <2>. QED  BY <1>1, <1>2, <2>1, <2>2, <2>3, GoesDoes DEF Common, SysvTyped
<1>3. CASE ~SemLives(p)
  <2>1. sems' = sems /\ Goes(p, "semfailed") /\ "semfailed" \in Phases
    BY <1>3 DEF SemSetVal, Phases
  <2>. QED  BY <1>1, <1>3, <2>1, GoesDoes DEF Common, SysvTyped
<1>. QED  BY <1>2, <1>3

LEMMA SemMadeDoes ==
  ASSUME SysvTyped, NEW p \in SysvProcs, SemMade(p)
  PROVE  /\ proc[p].pc = "semmade" /\ UNCHANGED <<keyFile, segs, sems>> /\ Common(p)
         /\ KeepsSeg(p) /\ KeepsSem(p) /\ proc'[p].held = proc[p].held
         /\ proc[p].call = "acquire" => proc'[p].pc = "relock" /\ proc'[p].call = "acquire"
         /\ proc[p].call # "acquire" => proc'[p].pc = "ready" /\ proc'[p].call = "new"
<1>1. proc[p].pc = "semmade" /\ UNCHANGED <<usage, keyFile, segs, sems>> /\ proc[p] \in ProcType
  BY DEF SemMade, At, SysvTyped
<1>2. CASE proc[p].call = "acquire"
  <2>1. Goes(p, "relock") /\ "relock" \in Phases
    BY <1>2 DEF SemMade, Phases
  <2>. QED  BY <1>1, <1>2, <2>1, GoesDoes DEF Common, SysvTyped, KeepsUse
<1>3. CASE proc[p].call # "acquire"
  <2>1. Becomes(p, SysvReady(proc[p]))
    BY <1>3 DEF SemMade
  <2>2. proc' \in [SysvProcs -> ProcType] /\ proc'[p] = SysvReady(proc[p]) /\ Others(p)
    BY <1>1, <2>1, ReadyIs, Replaced
  <2>. QED  BY <1>1, <1>3, <2>2, ReadyIs DEF Common, SysvTyped, KeepsSeg, KeepsSem
<1>. QED  BY <1>2, <1>3

LEMMA SemFailedDoes ==
  ASSUME SysvTyped, NEW p \in SysvProcs, SemFailed(p)
  PROVE  /\ proc[p].pc = "semfailed" /\ UNCHANGED <<keyFile, segs, sems>> /\ Common(p)
         /\ KeepsSeg(p) /\ KeepsSem(p) /\ proc'[p].held = proc[p].held
         /\ proc'[p].pc = "semrmid" /\ proc'[p].call = IF proc[p].call = "new" THEN "failed" ELSE "refused"
<1>1. /\ proc[p].pc = "semfailed" /\ UNCHANGED <<usage, keyFile, segs, sems>> /\ proc[p] \in ProcType
  BY DEF SemFailed, At, SysvTyped
<1>. DEFINE r == [proc[p] EXCEPT !.pc = "semrmid", !.call = IF @ = "new" THEN "failed" ELSE "refused"]
<1>2. r \in ProcType /\ Becomes(p, r)
  BY <1>1 DEF SemFailed, ProcType, Phases
<1>3. proc' \in [SysvProcs -> ProcType] /\ proc'[p] = r /\ Others(p)
  BY <1>2, Replaced
<1>. QED  BY <1>1, <1>3 DEF ProcType, KeepsSeg, KeepsSem, Common, SysvTyped

LEMMA SemRemoveDoes ==
  ASSUME SysvTyped, NEW p \in SysvProcs, SemRemove(p)
  PROVE  /\ proc[p].pc = "semrmid" /\ UNCHANGED <<keyFile, segs>> /\ Common(p)
         /\ KeepsSeg(p) /\ KeepsSem(p) /\ KeepsUse(p) /\ proc'[p].pc = "semunlink"
         /\ proc'[p].shmFile = proc[p].shmFile
         /\ \/ /\ SemLives(p) /\ proc[p].semCreated /\ proc[p].sem \in Ids
               /\ sems'[proc[p].sem].live = FALSE
               /\ \A j \in Ids : j # proc[p].sem => sems'[j] = sems[j]
            \/ ~(SemLives(p) /\ proc[p].semCreated) /\ sems' = sems
<1>1. /\ proc[p].pc = "semrmid" /\ UNCHANGED <<usage, keyFile, segs>> /\ proc[p] \in ProcType
      /\ Goes(p, "semunlink") /\ "semunlink" \in Phases
  BY DEF SemRemove, At, SysvTyped, Phases
<1>2. CASE SemLives(p) /\ proc[p].semCreated
  <2>1. sems' = [sems EXCEPT ![proc[p].sem] = NoSysvSem] /\ proc[p].sem \in Ids
    BY <1>1, <1>2 DEF SemRemove, SemLives, SemOf, ProcType, Handles
  <2>2. /\ sems' \in [Ids -> SemType] /\ sems'[proc[p].sem].live = FALSE
        /\ \A j \in Ids : j # proc[p].sem => sems'[j] = sems[j]
    BY <2>1, NoneTyped DEF SysvTyped
  <2>. QED  BY <1>1, <1>2, <2>1, <2>2, GoesDoes DEF Common, SysvTyped
<1>3. CASE ~(SemLives(p) /\ proc[p].semCreated)
  <2>1. sems' = sems
    BY <1>3 DEF SemRemove
  <2>. QED  BY <1>1, <1>3, <2>1, GoesDoes DEF Common, SysvTyped
<1>. QED  BY <1>2, <1>3

LEMMA SemUnlinkDoes ==
  ASSUME SysvTyped, NEW p \in SysvProcs, SemUnlink(p)
  PROVE  /\ proc[p].pc = "semunlink" /\ UNCHANGED <<segs, sems>> /\ Common(p)
         /\ keyFile'["shm"] = keyFile["shm"]
         /\ keyFile'["sem"] = IF proc[p].semFile THEN NoKey ELSE keyFile["sem"]
         /\ proc'[p].sem = NoKey /\ proc'[p].semCreated = FALSE /\ proc'[p].semFile = FALSE
         /\ proc[p].call = "free" => proc'[p] = NoProc
         /\ proc[p].call # "free" => KeepsSeg(p)
         /\ proc[p].call = "failed" => proc'[p].pc = "shmdt" /\ KeepsUse(p)
         /\ proc[p].call = "refused" => proc'[p].pc = "ready" /\ proc'[p].call = "new"
         /\ proc[p].call \notin {"free", "failed", "refused"} => proc'[p].pc = "semfile" /\ KeepsUse(p)
<1>1. proc[p].pc = "semunlink" /\ UNCHANGED <<usage, segs, sems>> /\ proc[p] \in ProcType
  BY DEF SemUnlink, At, SysvTyped
<1>2. /\ keyFile' \in [{"shm", "sem"} -> Keys] /\ keyFile'["shm"] = keyFile["shm"]
      /\ keyFile'["sem"] = IF proc[p].semFile THEN NoKey ELSE keyFile["sem"]
  BY DEF SemUnlink, SysvTyped, Keys
<1>3. PICK c : c = [proc[p] EXCEPT !.sem = NoKey, !.semCreated = FALSE, !.semFile = FALSE]
  OBVIOUS
<1>4. /\ c \in ProcType /\ c.sem = NoKey /\ c.semCreated = FALSE /\ c.semFile = FALSE
      /\ c.seg = proc[p].seg /\ c.addr = proc[p].addr
      /\ c.call = proc[p].call /\ c.mode = proc[p].mode /\ c.held = proc[p].held
  BY <1>1, <1>3 DEF ProcType, Handles
<1>5. CASE proc[p].call = "failed"
  <2>. DEFINE r == [c EXCEPT !.pc = "shmdt"]
  <2>1. Becomes(p, r)
    BY <1>3, <1>5 DEF SemUnlink
  <2>2. r \in ProcType
    BY <1>4 DEF ProcType, Phases
  <2>3. proc' \in [SysvProcs -> ProcType] /\ proc'[p] = r /\ Others(p)
    BY <2>1, <2>2, Replaced
  <2>. QED  BY <1>1, <1>2, <1>4, <1>5, <2>3 DEF ProcType, Common, SysvTyped, KeepsSeg, KeepsUse
<1>6. CASE proc[p].call = "free"
  <2>1. Becomes(p, NoProc)
    BY <1>6 DEF SemUnlink
  <2>2. proc' \in [SysvProcs -> ProcType] /\ proc'[p] = NoProc /\ Others(p)
    BY <2>1, Replaced, NoneTyped
  <2>. QED  BY <1>1, <1>2, <1>6, <2>2, NoneTyped DEF Common, SysvTyped
<1>7. CASE proc[p].call = "refused"
  <2>1. Becomes(p, SysvReady(c))
    BY <1>3, <1>7 DEF SemUnlink
  <2>2. proc' \in [SysvProcs -> ProcType] /\ proc'[p] = SysvReady(c) /\ Others(p)
    BY <1>4, <2>1, Replaced, ReadyIs
  <2>. QED  BY <1>1, <1>2, <1>4, <1>7, <2>2, ReadyIs DEF Common, SysvTyped, KeepsSeg
<1>8. CASE proc[p].call \notin {"free", "failed", "refused"}
  <2>. DEFINE r == [c EXCEPT !.pc = "semfile"]
  <2>1. Becomes(p, r)
    BY <1>3, <1>8 DEF SemUnlink
  <2>2. r \in ProcType
    BY <1>4 DEF ProcType, Phases
  <2>3. proc' \in [SysvProcs -> ProcType] /\ proc'[p] = r /\ Others(p)
    BY <2>1, <2>2, Replaced
  <2>. QED  BY <1>1, <1>2, <1>4, <1>8, <2>3 DEF ProcType, Common, SysvTyped, KeepsSeg, KeepsUse
<1>. QED  BY <1>5, <1>6, <1>7, <1>8

(* The semaphores after semop(): one of them has another value.             *)
Counted(p, n) ==
  /\ proc[p].sem \in Ids
  /\ \A j \in Ids : /\ sems'[j].live = sems[j].live /\ sems'[j].key = sems[j].key
                    /\ j # proc[p].sem => sems'[j] = sems[j]
  /\ sems'[proc[p].sem].val = sems[proc[p].sem].val + n
  /\ sems'[proc[p].sem].undo[p] = sems[proc[p].sem].undo[p] - n
  /\ \A q \in SysvProcs : q # p => sems'[proc[p].sem].undo[q] = sems[proc[p].sem].undo[q]

LEMMA SemopDoes ==
  ASSUME SysvTyped, NEW p \in SysvProcs, SemLives(p), NEW n \in Int,
         NEW v, v = sems[proc[p].sem].val + n, NEW w, w = sems[proc[p].sem].undo[p] - n,
         sems' = [sems EXCEPT ![SemOf(p)].val = v, ![SemOf(p)].undo[p] = w]
  PROVE  sems' \in [Ids -> SemType] /\ Counted(p, n)
<1>1. PICK i \in Ids : i = proc[p].sem /\ i = SemOf(p)
  BY DEF SemLives, SemOf, SysvTyped, ProcType, Handles
<1>2. sems[i] \in SemType /\ sems[i].val \in Int /\ sems[i].undo \in [SysvProcs -> Int]
  BY DEF SysvTyped, SemType
<1>3. v \in Int /\ w \in Int
  BY <1>1, <1>2
<1>4. PICK u : u = [sems[i].undo EXCEPT ![p] = w]
  OBVIOUS
<1>5. /\ u \in [SysvProcs -> Int] /\ u[p] = w
      /\ \A q \in SysvProcs : q # p => u[q] = sems[i].undo[q]
  BY <1>2, <1>3, <1>4
<1>6. sems' = [sems EXCEPT ![i].val = v, ![i].undo = u]
  BY <1>1, <1>2, <1>4 DEF SysvTyped, SemType
<1>7. /\ sems' \in [Ids -> SemType] /\ sems'[i].val = v /\ sems'[i].undo = u
      /\ \A j \in Ids : /\ sems'[j].live = sems[j].live /\ sems'[j].key = sems[j].key
                        /\ j # i => sems'[j] = sems[j]
  <2>1. PICK z : z = [sems[i] EXCEPT !.val = v, !.undo = u]
    OBVIOUS
  <2>2. z \in SemType /\ z.val = v /\ z.undo = u /\ z.live = sems[i].live /\ z.key = sems[i].key
    BY <1>2, <1>3, <1>5, <2>1 DEF SemType
  <2>3. sems' = [sems EXCEPT ![i] = z] /\ sems \in [Ids -> SemType]
    BY <1>6, <2>1 DEF SysvTyped
  <2>. QED  BY <2>2, <2>3
<1>. QED  BY <1>1, <1>5, <1>7 DEF Counted

LEMMA TakeDoes ==
  ASSUME SysvTyped, NEW p \in SysvProcs, Take(p)
  PROVE  /\ proc' \in [SysvProcs -> ProcType] /\ sems' \in [Ids -> SemType] /\ Others(p)
         /\ SemLives(p) /\ sems[proc[p].sem].val > 0 /\ Counted(p, -1)
         /\ KeepsSeg(p) /\ KeepsSem(p)
         /\ proc'[p].pc = "ready" /\ proc'[p].call = "new" /\ proc'[p].held = TRUE
<1>1. proc[p] \in ProcType
  BY DEF SysvTyped
<1>2. SemLives(p) /\ sems[proc[p].sem].val > 0
  BY DEF Take, SemOf
<1>. DEFINE h == [proc[p] EXCEPT !.held = TRUE]
<1>3. /\ h \in ProcType /\ Becomes(p, SysvReady(h))
      /\ h.seg = proc[p].seg /\ h.addr = proc[p].addr /\ h.sem = proc[p].sem
      /\ h.semCreated = proc[p].semCreated /\ h.semFile = proc[p].semFile /\ h.held = TRUE
  BY <1>1 DEF Take, ProcType
<1>. HIDE DEF h
<1>4. proc' \in [SysvProcs -> ProcType] /\ proc'[p] = SysvReady(h) /\ Others(p)
  BY <1>3, Replaced, ReadyIs
<1>5. sems' \in [Ids -> SemType] /\ Counted(p, -1)
  <2>1. PICK i \in Ids : i = proc[p].sem /\ i = SemOf(p)
    BY <1>1, <1>2 DEF SemLives, SemOf, ProcType, Handles
  <2>2. sems[i].val \in Int /\ sems[i].undo[p] \in Int
    BY DEF SysvTyped, SemType
  <2>3. PICK v, w : v = sems[i].val - 1 /\ w = sems[i].undo[p] + 1
    OBVIOUS
  <2>4. v = sems[i].val + (-1) /\ w = sems[i].undo[p] - (-1) /\ -1 \in Int
    BY <2>2, <2>3
  <2>5. sems' = [sems EXCEPT ![SemOf(p)].val = v, ![SemOf(p)].undo[p] = w]
    BY <2>1, <2>3 DEF Take, SysvTyped, SemType
  <2>. QED  BY <1>2, <2>1, <2>4, <2>5, SemopDoes
<1>. QED  BY <1>2, <1>3, <1>4, <1>5, ReadyIs DEF KeepsSeg, KeepsSem

LEMMA SysvLockDoes ==
  ASSUME SysvTyped, NEW p \in SysvProcs, SysvLock(p)
  PROVE  /\ proc[p].pc = "ready" /\ ~proc[p].held /\ UNCHANGED <<keyFile, segs>> /\ Common(p)
         /\ KeepsSeg(p) /\ KeepsSem(p)
         /\ \/ /\ SemLives(p) /\ sems[proc[p].sem].val > 0 /\ Counted(p, -1)
               /\ proc'[p].pc = "ready" /\ proc'[p].call = "new" /\ proc'[p].held = TRUE
            \/ /\ ~SemLives(p) /\ sems' = sems
               /\ proc'[p].pc = "semrmid" /\ proc'[p].call = "acquire" /\ proc'[p].held = proc[p].held
<1>1. proc[p].pc = "ready" /\ ~proc[p].held /\ UNCHANGED <<usage, keyFile, segs>> /\ proc[p] \in ProcType
  BY DEF SysvLock, At, SysvTyped
<1>2. CASE Take(p)
  BY <1>1, <1>2, TakeDoes DEF Common, SysvTyped
<1>3. CASE ~Take(p)
  <2>. DEFINE r == [proc[p] EXCEPT !.call = "acquire", !.pc = "semrmid"]
  <2>1. ~SemLives(p) /\ Becomes(p, r) /\ sems' = sems /\ r \in ProcType
    BY <1>1, <1>3 DEF SysvLock, ProcType, Phases
  <2>2. proc' \in [SysvProcs -> ProcType] /\ proc'[p] = r /\ Others(p)
    BY <2>1, Replaced
  <2>. QED  BY <1>1, <2>1, <2>2 DEF ProcType, Common, SysvTyped, KeepsSeg, KeepsSem
<1>. QED  BY <1>2, <1>3

LEMMA SysvRelockDoes ==
  ASSUME SysvTyped, NEW p \in SysvProcs, SysvRelock(p)
  PROVE  /\ proc[p].pc = "relock" /\ UNCHANGED <<keyFile, segs>> /\ Common(p)
         /\ KeepsSeg(p) /\ KeepsSem(p) /\ proc'[p].pc = "ready" /\ proc'[p].call = "new"
         /\ \A j \in Ids : sems'[j].live = sems[j].live
<1>1. proc[p].pc = "relock" /\ UNCHANGED <<usage, keyFile, segs>> /\ proc[p] \in ProcType
  BY DEF SysvRelock, At, SysvTyped
<1>2. CASE Take(p)
  BY <1>1, <1>2, TakeDoes DEF Common, SysvTyped, Counted
<1>3. CASE ~Take(p)
  <2>1. Becomes(p, SysvReady(proc[p])) /\ sems' = sems
    BY <1>3 DEF SysvRelock
  <2>2. proc' \in [SysvProcs -> ProcType] /\ proc'[p] = SysvReady(proc[p]) /\ Others(p)
    BY <1>1, <2>1, Replaced, ReadyIs
  <2>. QED  BY <1>1, <2>1, <2>2, ReadyIs DEF Common, SysvTyped, KeepsSeg, KeepsSem
<1>. QED  BY <1>2, <1>3

LEMMA SysvUnlockDoes ==
  ASSUME SysvTyped, NEW p \in SysvProcs, SysvUnlock(p)
  PROVE  /\ proc[p].pc = "ready" /\ proc[p].held /\ UNCHANGED <<keyFile, segs>> /\ Common(p)
         /\ KeepsSeg(p) /\ KeepsSem(p) /\ proc'[p].held = FALSE
         /\ \/ /\ SemLives(p) /\ Counted(p, 1)
               /\ proc'[p].pc = "ready" /\ proc'[p].call = proc[p].call
            \/ /\ ~SemLives(p) /\ sems' = sems
               /\ proc'[p].pc = "semrmid" /\ proc'[p].call = "release"
<1>1. proc[p].pc = "ready" /\ proc[p].held /\ UNCHANGED <<usage, keyFile, segs>> /\ proc[p] \in ProcType
  BY DEF SysvUnlock, At, SysvTyped
<1>2. CASE SemLives(p)
  <2>. DEFINE r == [proc[p] EXCEPT !.held = FALSE]
  <2>1. Becomes(p, r) /\ r \in ProcType
    BY <1>1, <1>2 DEF SysvUnlock, ProcType
  <2>2. proc' \in [SysvProcs -> ProcType] /\ proc'[p] = r /\ Others(p)
    BY <2>1, Replaced
  <2>3. sems' \in [Ids -> SemType] /\ Counted(p, 1)
    <3>1. PICK i \in Ids : i = proc[p].sem /\ i = SemOf(p)
      BY <1>1, <1>2 DEF SemLives, SemOf, ProcType, Handles
    <3>2. PICK v, w : v = sems[i].val + 1 /\ w = sems[i].undo[p] - 1
      OBVIOUS
    <3>3. sems' = [sems EXCEPT ![SemOf(p)].val = v, ![SemOf(p)].undo[p] = w]
      BY <1>2, <3>1, <3>2 DEF SysvUnlock, SysvTyped, SemType
    <3>4. 1 \in Int /\ v = sems[proc[p].sem].val + 1 /\ w = sems[proc[p].sem].undo[p] - 1
      BY <3>1, <3>2
    <3>. QED  BY <1>2, <3>3, <3>4, SemopDoes
  <2>. QED  BY <1>1, <1>2, <2>2, <2>3 DEF ProcType, Common, SysvTyped, KeepsSeg, KeepsSem
<1>3. CASE ~SemLives(p)
  <2>. DEFINE r == [proc[p] EXCEPT !.held = FALSE, !.call = "release", !.pc = "semrmid"]
  <2>1. Becomes(p, r) /\ sems' = sems /\ r \in ProcType
    BY <1>1, <1>3 DEF SysvUnlock, ProcType, Phases
  <2>2. proc' \in [SysvProcs -> ProcType] /\ proc'[p] = r /\ Others(p)
    BY <2>1, Replaced
  <2>. QED  BY <1>1, <1>3, <2>1, <2>2 DEF ProcType, Common, SysvTyped, KeepsSeg, KeepsSem
<1>. QED  BY <1>2, <1>3

LEMMA SysvTakeOwnershipDoes ==
  ASSUME SysvTyped, NEW p \in SysvProcs, SysvTakeOwnership(p)
  PROVE  /\ proc[p].pc = "ready" /\ UNCHANGED <<keyFile, segs, sems>> /\ Common(p)
         /\ KeepsSeg(p) /\ KeepsUse(p) /\ proc'[p].pc = "ready"
         /\ proc'[p].sem = proc[p].sem /\ proc'[p].semCreated = TRUE
<1>1. /\ proc[p].pc = "ready" /\ UNCHANGED <<usage, keyFile, segs, sems>> /\ proc[p] \in ProcType
  BY DEF SysvTakeOwnership, At, SysvTyped
<1>. DEFINE r == [proc[p] EXCEPT !.shmFile = TRUE, !.semCreated = TRUE]
<1>2. Becomes(p, r) /\ r \in ProcType
  BY <1>1 DEF SysvTakeOwnership, ProcType
<1>3. proc' \in [SysvProcs -> ProcType] /\ proc'[p] = r /\ Others(p)
  BY <1>2, Replaced
<1>. QED  BY <1>1, <1>3 DEF ProcType, Common, SysvTyped, KeepsSeg, KeepsUse

LEMMA SysvFreeDoes ==
  ASSUME SysvTyped, NEW p \in SysvProcs, SysvFree(p)
  PROVE  /\ proc[p].pc = "ready" /\ ~proc[p].held /\ MayBegin(p)
         /\ usage = "disciplined" /\ Owner(p) => Alone(p)
         /\ UNCHANGED <<keyFile, segs, sems>> /\ Common(p)
         /\ KeepsSeg(p) /\ KeepsSem(p) /\ proc'[p].shmFile = proc[p].shmFile
         /\ proc'[p].held = proc[p].held /\ proc'[p].pc = "shmdt" /\ proc'[p].call = "free"
<1>1. /\ proc[p].pc = "ready" /\ ~proc[p].held /\ MayBegin(p) /\ UNCHANGED <<usage, keyFile, segs, sems>>
      /\ (usage = "disciplined" /\ Owner(p) => Alone(p)) /\ proc[p] \in ProcType
  BY DEF SysvFree, At, SysvTyped
<1>. DEFINE r == [proc[p] EXCEPT !.call = "free", !.pc = "shmdt"]
<1>2. Becomes(p, r) /\ r \in ProcType
  BY <1>1 DEF SysvFree, ProcType, Phases
<1>3. proc' \in [SysvProcs -> ProcType] /\ proc'[p] = r /\ Others(p)
  BY <1>2, Replaced
<1>. QED  BY <1>1, <1>3 DEF ProcType, Common, SysvTyped, KeepsSeg, KeepsSem

LEMMA DetachedIs ==
  ASSUME NEW p \in SysvProcs, NEW s \in SegType
  PROVE  /\ Detached(s, p) \in SegType /\ Detached(s, p).attached = s.attached \ {p}
         /\ s.key = NoKey /\ s.attached \ {p} = {} => Detached(s, p).live = FALSE
         /\ s.key # NoKey \/ s.attached \ {p} # {} =>
              Detached(s, p).live = s.live /\ Detached(s, p).key = s.key
<1>1. PICK left : left = [s EXCEPT !.attached = @ \ {p}]
  OBVIOUS
<1>2. /\ left \in SegType /\ left.attached = s.attached \ {p}
      /\ left.live = s.live /\ left.key = s.key
  BY <1>1 DEF SegType
<1>3. Detached(s, p) = IF s.key = NoKey /\ left.attached = {} THEN NoSeg ELSE left
  BY <1>1 DEF Detached
<1>4. CASE s.key = NoKey /\ left.attached = {}
  BY <1>2, <1>3, <1>4, NoneTyped
<1>5. CASE ~(s.key = NoKey /\ left.attached = {})
  BY <1>2, <1>3, <1>5
<1>. QED  BY <1>4, <1>5

(* The segments after p is detached from one or all of them.                *)
DetachedFrom(p, i) ==
  /\ segs'[i].attached = segs[i].attached \ {p}
  /\ segs[i].key = NoKey /\ segs[i].attached \ {p} = {} => segs'[i].live = FALSE
  /\ segs[i].key # NoKey \/ segs[i].attached \ {p} # {} =>
       segs'[i].live = segs[i].live /\ segs'[i].key = segs[i].key

LEMMA DetachFrom ==
  ASSUME NEW p \in SysvProcs, NEW j \in Ids, segs[j] \in SegType, segs'[j] = Detached(segs[j], p)
  PROVE  segs'[j] \in SegType /\ DetachedFrom(p, j)
<1>1. PICK s, d : s \in SegType /\ s = segs[j] /\ d = segs'[j]
  OBVIOUS
<1>2. d = Detached(s, p)
  BY <1>1
<1>3. /\ d \in SegType /\ d.attached = s.attached \ {p}
      /\ s.key = NoKey /\ s.attached \ {p} = {} => d.live = FALSE
      /\ s.key # NoKey \/ s.attached \ {p} # {} => d.live = s.live /\ d.key = s.key
  BY <1>1, <1>2, DetachedIs
<1>. QED  BY <1>1, <1>3 DEF DetachedFrom

LEMMA ShmDetachDoes ==
  ASSUME SysvTyped, NEW p \in SysvProcs, ShmDetach(p)
  PROVE  /\ proc[p].pc = "shmdt" /\ UNCHANGED <<keyFile, sems>> /\ Common(p)
         /\ KeepsSeg(p) /\ KeepsSem(p) /\ KeepsUse(p) /\ proc'[p].shmFile = proc[p].shmFile
         /\ proc'[p].pc = "shmstat"
         /\ \A j \in Ids : IF j = proc[p].seg THEN DetachedFrom(p, j) ELSE segs'[j] = segs[j]
<1>1. /\ proc[p].pc = "shmdt" /\ UNCHANGED <<usage, keyFile, sems>> /\ proc[p] \in ProcType
      /\ Goes(p, "shmstat") /\ "shmstat" \in Phases
  BY DEF ShmDetach, At, SysvTyped, Phases
<1>2. /\ \A j \in Ids : segs'[j] = IF j = proc[p].seg THEN Detached(segs[j], p) ELSE segs[j]
      /\ DOMAIN segs' = Ids /\ segs' = [j \in Ids |-> segs'[j]]
  BY DEF ShmDetach, SegOf, SysvTyped
<1>3. \A j \in Ids : segs[j] \in SegType
  BY DEF SysvTyped
<1>4. \A j \in Ids : segs'[j] \in SegType
  BY <1>2, <1>3, DetachFrom
<1>5. segs' \in [Ids -> SegType]
  BY <1>2, <1>4
<1>6. \A j \in Ids : IF j = proc[p].seg THEN DetachedFrom(p, j) ELSE segs'[j] = segs[j]
  BY <1>2, <1>3, DetachFrom
<1>. QED  BY <1>1, <1>5, <1>6, GoesDoes DEF Common, SysvTyped

LEMMA ShmStatDoes ==
  ASSUME SysvTyped, NEW p \in SysvProcs, ShmCtlStat(p)
  PROVE  /\ proc[p].pc = "shmstat" /\ UNCHANGED <<keyFile, segs, sems>> /\ Common(p)
         /\ KeepsSeg(p) /\ KeepsSem(p) /\ KeepsUse(p) /\ proc'[p].shmFile = proc[p].shmFile
         /\ proc'[p].pc \in {"shmrmid", "shmunlink"}
         /\ SegLives(p) => (proc'[p].pc = "shmrmid" <=> segs[proc[p].seg].attached = {})
<1>1. proc[p].pc = "shmstat" /\ UNCHANGED <<usage, keyFile, segs, sems>>
  BY DEF ShmCtlStat, At
<1>2. PICK phase \in {"shmrmid", "shmunlink"} :
        Goes(p, phase) /\ (SegLives(p) => (phase = "shmrmid" <=> segs[proc[p].seg].attached = {}))
  BY DEF ShmCtlStat, SegOf
<1>3. phase \in Phases
  BY DEF Phases
<1>. QED  BY <1>1, <1>2, <1>3, GoesDoes DEF Common, SysvTyped

LEMMA ShmRemoveDoes ==
  ASSUME SysvTyped, NEW p \in SysvProcs, ShmRemove(p)
  PROVE  /\ proc[p].pc = "shmrmid" /\ UNCHANGED <<keyFile, sems>> /\ Common(p)
         /\ KeepsSeg(p) /\ KeepsSem(p) /\ KeepsUse(p) /\ proc'[p].shmFile = proc[p].shmFile
         /\ proc'[p].pc = "shmunlink"
         /\ \A j \in Ids : segs'[j].attached = segs[j].attached
         /\ \A j \in Ids : j # proc[p].seg => segs'[j] = segs[j]
         /\ SegLives(p) =>
              /\ proc[p].seg \in Ids
              /\ segs'[proc[p].seg].live = (segs[proc[p].seg].attached # {})
         /\ ~SegLives(p) => segs' = segs
<1>1. /\ proc[p].pc = "shmrmid" /\ UNCHANGED <<usage, keyFile, sems>> /\ proc[p] \in ProcType
      /\ Goes(p, "shmunlink") /\ "shmunlink" \in Phases
  BY DEF ShmRemove, At, SysvTyped, Phases
<1>2. CASE ~SegLives(p)
  <2>1. segs' = segs
    BY <1>2 DEF ShmRemove
  <2>. QED  BY <1>1, <1>2, <2>1, GoesDoes DEF Common, SysvTyped
<1>3. CASE SegLives(p)
  <2>1. PICK i \in Ids : i = proc[p].seg /\ i = SegOf(p)
    BY <1>1, <1>3 DEF SegLives, SegOf, ProcType, Handles
  <2>2. PICK z : z = IF segs[i].attached = {} THEN NoSeg ELSE [segs[i] EXCEPT !.key = NoKey]
    OBVIOUS
  <2>3. segs' = [segs EXCEPT ![i] = z] /\ segs[i] \in SegType
    BY <1>3, <2>1, <2>2 DEF ShmRemove, SysvTyped
  <2>4. z \in SegType /\ z.attached = segs[i].attached /\ z.live = (segs[i].attached # {})
    <3>1. CASE segs[i].attached = {}
      BY <2>2, <3>1, NoneTyped
    <3>2. CASE segs[i].attached # {}
      <4>1. segs[i].live = TRUE
        BY <1>3, <2>1, <2>3 DEF SegLives, SegType
      <4>. QED  BY <2>2, <2>3, <3>2, <4>1 DEF SegType, Keys
    <3>. QED  BY <3>1, <3>2
  <2>5. /\ segs' \in [Ids -> SegType] /\ segs'[i] = z
        /\ \A j \in Ids : j # i => segs'[j] = segs[j]
    BY <2>3, <2>4 DEF SysvTyped
  <2>. QED  BY <1>1, <1>3, <2>1, <2>4, <2>5, GoesDoes DEF Common, SysvTyped
<1>. QED  BY <1>2, <1>3

LEMMA ShmUnlinkDoes ==
  ASSUME SysvTyped, NEW p \in SysvProcs, ShmUnlink(p)
  PROVE  /\ proc[p].pc = "shmunlink" /\ UNCHANGED <<segs, sems>> /\ Common(p)
         /\ keyFile'["sem"] = keyFile["sem"]
         /\ keyFile'["shm"] = IF proc[p].shmFile THEN NoKey ELSE keyFile["shm"]
         /\ proc'[p].seg = NoKey /\ proc'[p].addr = FALSE /\ proc'[p].shmFile = FALSE
         /\ proc[p].addr /\ proc[p].call = "free" =>
              KeepsSem(p) /\ KeepsUse(p) /\ proc'[p].pc = "semrmid"
         /\ ~(proc[p].addr /\ proc[p].call = "free") => proc'[p] = NoProc
<1>1. proc[p].pc = "shmunlink" /\ UNCHANGED <<usage, segs, sems>> /\ proc[p] \in ProcType
  BY DEF ShmUnlink, At, SysvTyped
<1>2. /\ keyFile' \in [{"shm", "sem"} -> Keys] /\ keyFile'["sem"] = keyFile["sem"]
      /\ keyFile'["shm"] = IF proc[p].shmFile THEN NoKey ELSE keyFile["shm"]
  BY DEF ShmUnlink, SysvTyped, Keys
<1>3. CASE proc[p].addr /\ proc[p].call = "free"
  <2>. DEFINE r == [proc[p] EXCEPT !.shmFile = FALSE, !.seg = NoKey, !.addr = FALSE, !.pc = "semrmid"]
  <2>1. Becomes(p, r)
    BY <1>3 DEF ShmUnlink
  <2>2. r \in ProcType
    BY <1>1 DEF ProcType, Phases, Handles
  <2>3. proc' \in [SysvProcs -> ProcType] /\ proc'[p] = r /\ Others(p)
    BY <2>1, <2>2, Replaced
  <2>. QED  BY <1>1, <1>2, <1>3, <2>3 DEF ProcType, Common, SysvTyped, KeepsSem, KeepsUse
<1>4. CASE ~(proc[p].addr /\ proc[p].call = "free")
  <2>1. Becomes(p, NoProc)
    BY <1>4 DEF ShmUnlink
  <2>2. proc' \in [SysvProcs -> ProcType] /\ proc'[p] = NoProc /\ Others(p)
    BY <2>1, Replaced, NoneTyped
  <2>. QED  BY <1>1, <1>2, <1>4, <2>2, NoneTyped DEF Common, SysvTyped
<1>. QED  BY <1>3, <1>4

LEMMA SysvCrashDoes ==
  ASSUME SysvTyped, NEW p \in SysvProcs, SysvCrash(p)
  PROVE  /\ usage = "disciplined" /\ proc[p].pc = "ready" /\ keyFile' = keyFile /\ Common(p)
         /\ proc'[p] = NoProc
         /\ \A j \in Ids : IF p \in segs[j].attached THEN DetachedFrom(p, j) ELSE segs'[j] = segs[j]
         /\ \A j \in Ids : /\ sems'[j].live = sems[j].live /\ sems'[j].key = sems[j].key
                           /\ sems'[j].val = sems[j].val + sems[j].undo[p]
                           /\ sems'[j].undo[p] = 0
                           /\ \A q \in SysvProcs : q # p => sems'[j].undo[q] = sems[j].undo[q]
<1>1. usage = "disciplined" /\ proc[p].pc = "ready" /\ UNCHANGED <<usage, keyFile>> /\ Becomes(p, NoProc)
  BY DEF SysvCrash, At
<1>2. proc' \in [SysvProcs -> ProcType] /\ proc'[p] = NoProc /\ Others(p)
  BY <1>1, Replaced, NoneTyped
<1>3. \A j \in Ids : segs[j] \in SegType /\ sems[j] \in SemType
  BY DEF SysvTyped
<1>4. /\ segs' = [j \in Ids |-> segs'[j]]
      /\ \A j \in Ids : segs'[j] = IF p \in segs[j].attached THEN Detached(segs[j], p) ELSE segs[j]
  BY DEF SysvCrash
<1>5. \A j \in Ids : segs'[j] \in SegType
  BY <1>3, <1>4, DetachFrom
<1>6. \A j \in Ids : IF p \in segs[j].attached THEN DetachedFrom(p, j) ELSE segs'[j] = segs[j]
  BY <1>3, <1>4, DetachFrom
<1>7. ASSUME NEW j \in Ids
      PROVE  /\ sems'[j] \in SemType /\ sems'[j].live = sems[j].live /\ sems'[j].key = sems[j].key
             /\ sems'[j].val = sems[j].val + sems[j].undo[p]
             /\ sems'[j].undo[p] = 0
             /\ \A q \in SysvProcs : q # p => sems'[j].undo[q] = sems[j].undo[q]
  <2>1. PICK z, u, v : z = sems[j] /\ u = [z.undo EXCEPT ![p] = 0] /\ v = z.val + z.undo[p]
    OBVIOUS
  <2>2. z \in SemType /\ z.val \in Int /\ z.undo \in [SysvProcs -> Int]
    BY <1>3, <2>1 DEF SemType
  <2>3. u \in [SysvProcs -> Int] /\ v \in Int /\ u[p] = 0 /\ \A q \in SysvProcs : q # p => u[q] = z.undo[q]
    BY <2>1, <2>2
  <2>4. sems'[j] = [z EXCEPT !.val = v, !.undo = u]
    BY <2>1, <2>2 DEF SysvCrash, SemType
  <2>5. /\ sems'[j] \in SemType /\ sems'[j].live = z.live /\ sems'[j].key = z.key
        /\ sems'[j].val = v /\ sems'[j].undo = u
    BY <2>2, <2>3, <2>4 DEF SemType
  <2>. QED  BY <2>1, <2>3, <2>5
<1>8. sems' = [j \in Ids |-> sems'[j]]
  BY DEF SysvCrash
<1>9. segs' \in [Ids -> SegType] /\ sems' \in [Ids -> SemType]
  BY <1>4, <1>5, <1>7, <1>8
<1>. QED  BY <1>1, <1>2, <1>6, <1>7, <1>9 DEF Common, SysvTyped

------------------------------------------------------------------------------
(* What holds however the calls overlap.                                    *)

Early == {"none", "shmfile", "shmkey", "shmexcl", "shmget", "shmat"}
Opening == {"semfile", "semkey", "semexcl", "semget"}
Gone == {"shmstat", "shmrmid", "shmunlink"}
Cleaning == {"semrmid", "semunlink"}

(* What the place of a process says about its handles.                      *)
Without(p) == proc[p].pc \in Early \/ (proc[p].pc \in Cleaning /\ proc[p].call = "free")
With(p) ==
  \/ proc[p].pc \in Opening \cup {"semset", "semmade", "semfailed", "relock", "ready"}
  \/ proc[p].pc \in Cleaning /\ proc[p].call # "free"
Where(p) ==
  /\ Without(p) => proc[p].addr = FALSE
  /\ With(p) => proc[p].addr = TRUE
  /\ proc[p].pc \in Early \cup Opening => proc[p].semCreated = FALSE
  /\ proc[p].pc \in Gone \cup {"shmdt"} =>
       (proc[p].addr = TRUE /\ proc[p].call = "free") \/ proc[p].semCreated = FALSE

(* The kernel counts as attached who has attached and not yet detached.     *)
IsAttached(p, i) == proc[p].seg = i /\ proc[p].addr = TRUE /\ proc[p].pc \notin Gone
AttachedExact == \A q \in SysvProcs, i \in Ids : q \in segs[i].attached <=> IsAttached(q, i)
DeadEmpty == \A i \in Ids : segs[i].live = FALSE => segs[i].attached = {}

Base == SysvTyped /\ AttachedExact /\ DeadEmpty /\ \A q \in SysvProcs : Where(q)

LEMMA WhereOthers ==
  ASSUME Base, NEW p \in SysvProcs, Others(p), Where(p)'
  PROVE  \A q \in SysvProcs : Where(q)'
<1>. SUFFICES ASSUME NEW q \in SysvProcs, q # p PROVE Where(q)'
  OBVIOUS
<1>1. proc'[q] = proc[q] /\ Where(q)
  BY DEF Others, Base
<1>. QED  BY <1>1 DEF Where, Without, With

(* A step that neither attaches nor detaches anybody.                       *)
LEMMA QuietSeg ==
  ASSUME Base, NEW p \in SysvProcs, Others(p), KeepsSeg(p), segs' = segs,
         proc[p].addr = TRUE => (proc[p].pc \in Gone <=> proc'[p].pc \in Gone)
  PROVE  AttachedExact' /\ DeadEmpty'
<1>1. \A q \in SysvProcs, i \in Ids : IsAttached(q, i)' <=> IsAttached(q, i)
  BY DEF Others, KeepsSeg, IsAttached
<1>. QED  BY <1>1 DEF Base, AttachedExact, DeadEmpty

(* A step that gives an unattached process another segment or none.         *)
LEMMA QuietHandle ==
  ASSUME Base, NEW p \in SysvProcs, Others(p), segs' = segs,
         proc[p].addr = FALSE \/ proc[p].pc \in Gone, proc'[p].addr = FALSE
  PROVE  AttachedExact' /\ DeadEmpty'
<1>1. \A q \in SysvProcs, i \in Ids : IsAttached(q, i)' <=> IsAttached(q, i)
  BY DEF Others, IsAttached
<1>. QED  BY <1>1 DEF Base, AttachedExact, DeadEmpty

(* The steps of zshm_new() up to the attachment.                            *)
LEMMA BaseCreate ==
  ASSUME Base, NEW p \in SysvProcs,
         ShmGetExcl(p) /\ Found(segs, proc[p].key) = NoKey => SegRoom,
         \/ SysvNew(p) \/ ShmKeyFile(p) \/ ShmKey(p) \/ ShmGetExcl(p) \/ ShmGet(p) \/ ShmAttach(p)
  PROVE  Base'
<1>1. SysvTyped /\ Where(p)
  BY DEF Base
<1>2. SUFFICES SysvTyped' /\ Others(p) /\ Where(p)' /\ AttachedExact' /\ DeadEmpty'
  BY WhereOthers DEF Base
<1>3. CASE SysvNew(p)
  BY <1>1, <1>3, SysvNewDoes, QuietSeg
     DEF Where, Without, With, Early, Opening, Gone, Cleaning, Common, KeepsSeg, KeepsSem
<1>4. CASE ShmKeyFile(p)
  BY <1>1, <1>4, ShmKeyFileDoes, QuietSeg
     DEF Where, Without, With, Early, Opening, Gone, Cleaning, Common, KeepsSeg, KeepsSem
<1>5. CASE ShmKey(p)
  BY <1>1, <1>5, ShmKeyDoes, QuietSeg
     DEF Where, Without, With, Early, Opening, Gone, Cleaning, Common, KeepsSeg, KeepsSem
<1>6. CASE ShmGetExcl(p)
  <2>1. /\ proc[p].pc = "shmexcl" /\ Common(p) /\ KeepsSem(p) /\ proc'[p].addr = FALSE
        /\ proc[p].addr = FALSE /\ proc[p].semCreated = FALSE /\ proc'[p].pc \in {"shmget", "shmat"}
        /\ \/ segs' = segs
           \/ \E i \in Ids : /\ \A q \in SysvProcs : proc[q].seg # i
                             /\ segs'[i].live = TRUE /\ segs'[i].attached = {}
                             /\ \A j \in Ids : j # i => segs'[j] = segs[j]
    BY <1>1, <1>6, ShmGetExclDoes DEF Where, Without, Early
  <2>2. Where(p)'
    BY <2>1 DEF Where, Without, With, Early, Opening, Gone, Cleaning, KeepsSem
  <2>3. CASE segs' = segs
    BY <2>1, <2>2, <2>3, QuietHandle DEF Common
  <2>4. CASE segs' # segs
    <3>1. PICK i \in Ids : /\ \A q \in SysvProcs : proc[q].seg # i
                           /\ segs'[i].live = TRUE /\ segs'[i].attached = {}
                           /\ \A j \in Ids : j # i => segs'[j] = segs[j]
      BY <2>1, <2>4
    <3>2. AttachedExact'
      <4>. SUFFICES ASSUME NEW q \in SysvProcs, NEW j \in Ids
                    PROVE  q \in segs'[j].attached <=> IsAttached(q, j)'
        BY DEF AttachedExact
      <4>1. q \in segs[j].attached <=> IsAttached(q, j)
        BY DEF Base, AttachedExact
      <4>. QED  BY <2>1, <3>1, <4>1 DEF IsAttached, Common, Others
    <3>3. DeadEmpty'
      BY <3>1 DEF DeadEmpty, Base
    <3>. QED  BY <2>1, <2>2, <3>2, <3>3 DEF Common
  <2>. QED  BY <2>3, <2>4
<1>7. CASE ShmGet(p)
  <2>1. /\ Common(p) /\ segs' = segs /\ proc[p].addr = FALSE /\ proc'[p].addr = FALSE /\ Where(p)'
    BY <1>1, <1>7, ShmGetDoes
       DEF Where, Without, With, Early, Opening, Gone, Cleaning, KeepsSem
  <2>. QED  BY <2>1, QuietHandle DEF Common
<1>8. CASE ShmAttach(p)
  <2>1. /\ Common(p) /\ Where(p)' /\ proc'[p].seg = proc[p].seg /\ proc[p].addr = FALSE
        /\ \/ /\ proc[p].seg \in Ids /\ proc'[p].addr = TRUE /\ proc'[p].pc \notin Gone
              /\ segs[proc[p].seg].live
              /\ segs' = [segs EXCEPT ![proc[p].seg].attached = @ \cup {p}]
           \/ segs' = segs /\ proc'[p].addr = FALSE
    BY <1>1, <1>8, ShmAttachDoes
       DEF Where, Without, With, Early, Opening, Gone, Cleaning, KeepsSem, SegLives, SegOf
  <2>2. CASE segs' = segs /\ proc'[p].addr = FALSE
    BY <2>1, <2>2, QuietHandle DEF Common
  <2>3. CASE /\ proc[p].seg \in Ids /\ proc'[p].addr = TRUE /\ proc'[p].pc \notin Gone
             /\ segs[proc[p].seg].live
             /\ segs' = [segs EXCEPT ![proc[p].seg].attached = @ \cup {p}]
    <3>1. \A j \in Ids : /\ segs'[j].live = segs[j].live
                         /\ segs'[j].attached = IF j = proc[p].seg THEN segs[j].attached \cup {p}
                                                ELSE segs[j].attached
      BY <1>1, <2>3 DEF SysvTyped, SegType
    <3>2. AttachedExact'
      <4>. SUFFICES ASSUME NEW q \in SysvProcs, NEW j \in Ids
                    PROVE  q \in segs'[j].attached <=> IsAttached(q, j)'
        BY DEF AttachedExact
      <4>1. q \in segs[j].attached <=> IsAttached(q, j)
        BY DEF Base, AttachedExact
      <4>. QED  BY <2>1, <2>3, <3>1, <4>1 DEF IsAttached, Common, Others
    <3>3. DeadEmpty'
      BY <2>3, <3>1 DEF DeadEmpty, Base
    <3>. QED  BY <2>1, <3>2, <3>3 DEF Common
  <2>. QED  BY <2>1, <2>2, <2>3
<1>. QED  BY <1>3, <1>4, <1>5, <1>6, <1>7, <1>8

(* The steps of pzsemaphore_create_handle() and pzsemaphore_clean_handle(). *)
LEMMA BaseSem ==
  ASSUME Base, NEW p \in SysvProcs,
         SemGetExcl(p) /\ Found(sems, proc[p].key) = NoKey => SemRoom,
         \/ SemKeyFile(p) \/ SemKey(p) \/ SemGetExcl(p) \/ SemGet(p) \/ SemSetVal(p)
         \/ SemMade(p) \/ SemFailed(p) \/ SemRemove(p) \/ SemUnlink(p)
  PROVE  Base'
<1>1. SysvTyped /\ Where(p)
  BY DEF Base
<1>2. SUFFICES SysvTyped' /\ Others(p) /\ Where(p)' /\ AttachedExact' /\ DeadEmpty'
  BY WhereOthers DEF Base
<1>3. CASE SemKeyFile(p)
  BY <1>1, <1>3, SemKeyFileDoes, QuietSeg
     DEF Where, Without, With, Early, Opening, Gone, Cleaning, Common, KeepsSeg, KeepsSem, KeepsUse
<1>4. CASE SemKey(p)
  BY <1>1, <1>4, SemKeyDoes, QuietSeg
     DEF Where, Without, With, Early, Opening, Gone, Cleaning, Common, KeepsSeg, KeepsSem, KeepsUse
<1>5. CASE SemGetExcl(p)
  BY <1>1, <1>5, SemGetExclDoes, QuietSeg
     DEF Where, Without, With, Early, Opening, Gone, Cleaning, Common, KeepsSeg, KeepsSem, KeepsUse
<1>6. CASE SemGet(p)
  BY <1>1, <1>6, SemGetDoes, QuietSeg
     DEF Where, Without, With, Early, Opening, Gone, Cleaning, Common, KeepsSeg, KeepsSem, KeepsUse
<1>7. CASE SemSetVal(p)
  BY <1>1, <1>7, SemSetValDoes, QuietSeg
     DEF Where, Without, With, Early, Opening, Gone, Cleaning, Common, KeepsSeg, KeepsSem, KeepsUse
<1>8. CASE SemMade(p)
  BY <1>1, <1>8, SemMadeDoes, QuietSeg
     DEF Where, Without, With, Early, Opening, Gone, Cleaning, Common, KeepsSeg, KeepsSem, KeepsUse
<1>9. CASE SemFailed(p)
  BY <1>1, <1>9, SemFailedDoes, QuietSeg
     DEF Where, Without, With, Early, Opening, Gone, Cleaning, Common, KeepsSeg, KeepsSem, KeepsUse
<1>10. CASE SemRemove(p)
  BY <1>1, <1>10, SemRemoveDoes, QuietSeg
     DEF Where, Without, With, Early, Opening, Gone, Cleaning, Common, KeepsSeg, KeepsSem, KeepsUse
<1>11. CASE SemUnlink(p)
  <2>1. CASE proc[p].call = "free"
    <3>1. /\ Common(p) /\ segs' = segs /\ proc[p].addr = FALSE /\ proc'[p].addr = FALSE /\ Where(p)'
      BY <1>1, <1>11, <2>1, SemUnlinkDoes, NoneTyped
         DEF Where, Without, With, Early, Opening, Gone, Cleaning
    <3>. QED  BY <3>1, QuietHandle DEF Common
  <2>2. CASE proc[p].call # "free"
    <3>1. /\ Common(p) /\ segs' = segs /\ KeepsSeg(p) /\ proc[p].pc \notin Gone /\ proc'[p].pc \notin Gone
          /\ Where(p)'
      BY <1>1, <1>11, <2>2, SemUnlinkDoes
         DEF Where, Without, With, Early, Opening, Gone, Cleaning, KeepsSeg, KeepsUse
    <3>. QED  BY <3>1, QuietSeg DEF Common
  <2>. QED  BY <2>1, <2>2
<1>. QED  BY <1>3, <1>4, <1>5, <1>6, <1>7, <1>8, <1>9, <1>10, <1>11

(* Locking, unlocking and taking ownership.                                 *)
LEMMA BaseUse ==
  ASSUME Base, NEW p \in SysvProcs,
         SysvLock(p) \/ SysvRelock(p) \/ SysvUnlock(p) \/ SysvTakeOwnership(p)
  PROVE  Base'
<1>1. SysvTyped /\ Where(p)
  BY DEF Base
<1>2. SUFFICES SysvTyped' /\ Others(p) /\ Where(p)' /\ AttachedExact' /\ DeadEmpty'
  BY WhereOthers DEF Base
<1>3. CASE SysvLock(p)
  BY <1>1, <1>3, SysvLockDoes, QuietSeg
     DEF Where, Without, With, Early, Opening, Gone, Cleaning, Common, KeepsSeg, KeepsSem, KeepsUse
<1>4. CASE SysvRelock(p)
  BY <1>1, <1>4, SysvRelockDoes, QuietSeg
     DEF Where, Without, With, Early, Opening, Gone, Cleaning, Common, KeepsSeg, KeepsSem, KeepsUse
<1>5. CASE SysvUnlock(p)
  BY <1>1, <1>5, SysvUnlockDoes, QuietSeg
     DEF Where, Without, With, Early, Opening, Gone, Cleaning, Common, KeepsSeg, KeepsSem, KeepsUse
<1>6. CASE SysvTakeOwnership(p)
  BY <1>1, <1>6, SysvTakeOwnershipDoes, QuietSeg
     DEF Where, Without, With, Early, Opening, Gone, Cleaning, Common, KeepsSeg, KeepsSem, KeepsUse
<1>. QED  BY <1>3, <1>4, <1>5, <1>6

(* zshm_free() and the end of a process.                                    *)
LEMMA BaseFree ==
  ASSUME Base, NEW p \in SysvProcs,
         SysvFree(p) \/ ShmDetach(p) \/ ShmCtlStat(p) \/ ShmRemove(p) \/ ShmUnlink(p) \/ SysvCrash(p)
  PROVE  Base'
<1>1. SysvTyped /\ Where(p)
  BY DEF Base
<1>2. SUFFICES SysvTyped' /\ Others(p) /\ Where(p)' /\ AttachedExact' /\ DeadEmpty'
  BY WhereOthers DEF Base
<1>3. CASE SysvFree(p)
  BY <1>1, <1>3, SysvFreeDoes, QuietSeg
     DEF Where, Without, With, Early, Opening, Gone, Cleaning, Common, KeepsSeg, KeepsSem, KeepsUse
<1>4. CASE ShmDetach(p)
  <2>1. /\ Common(p) /\ Where(p)' /\ proc'[p].pc \in Gone /\ proc[p].pc \notin Gone
        /\ \A j \in Ids : IF j = proc[p].seg THEN DetachedFrom(p, j) ELSE segs'[j] = segs[j]
    BY <1>1, <1>4, ShmDetachDoes
       DEF Where, Without, With, Early, Opening, Gone, Cleaning, KeepsSeg, KeepsSem, KeepsUse
  <2>2. AttachedExact'
    <3>. SUFFICES ASSUME NEW q \in SysvProcs, NEW j \in Ids
                  PROVE  q \in segs'[j].attached <=> IsAttached(q, j)'
      BY DEF AttachedExact
    <3>1. q \in segs[j].attached <=> IsAttached(q, j)
      BY DEF Base, AttachedExact
    <3>. QED  BY <2>1, <3>1 DEF IsAttached, Common, Others, DetachedFrom
  <2>3. DeadEmpty'
    <3>. SUFFICES ASSUME NEW j \in Ids, segs'[j].live = FALSE PROVE segs'[j].attached = {}
      BY DEF DeadEmpty
    <3>1. segs[j].live = FALSE => segs[j].attached = {}
      BY DEF Base, DeadEmpty
    <3>. QED  BY <2>1, <3>1 DEF DetachedFrom
  <2>. QED  BY <2>1, <2>2, <2>3 DEF Common
<1>5. CASE ShmCtlStat(p)
  BY <1>1, <1>5, ShmStatDoes, QuietSeg
     DEF Where, Without, With, Early, Opening, Gone, Cleaning, Common, KeepsSeg, KeepsSem, KeepsUse
<1>6. CASE ShmRemove(p)
  <2>1. /\ Common(p) /\ Where(p)' /\ KeepsSeg(p) /\ proc[p].pc \in Gone /\ proc'[p].pc \in Gone
        /\ \A j \in Ids : segs'[j].attached = segs[j].attached
        /\ \A j \in Ids : j # proc[p].seg => segs'[j] = segs[j]
        /\ SegLives(p) => segs'[proc[p].seg].live = (segs[proc[p].seg].attached # {})
        /\ ~SegLives(p) => segs' = segs
    BY <1>1, <1>6, ShmRemoveDoes
       DEF Where, Without, With, Early, Opening, Gone, Cleaning, KeepsSeg, KeepsSem, KeepsUse
  <2>2. AttachedExact'
    <3>. SUFFICES ASSUME NEW q \in SysvProcs, NEW j \in Ids
                  PROVE  q \in segs'[j].attached <=> IsAttached(q, j)'
      BY DEF AttachedExact
    <3>1. q \in segs[j].attached <=> IsAttached(q, j)
      BY DEF Base, AttachedExact
    <3>. QED  BY <2>1, <3>1 DEF IsAttached, Common, Others, KeepsSeg
  <2>3. DeadEmpty'
    <3>. SUFFICES ASSUME NEW j \in Ids, segs'[j].live = FALSE PROVE segs'[j].attached = {}
      BY DEF DeadEmpty
    <3>1. segs[j].live = FALSE => segs[j].attached = {}
      BY DEF Base, DeadEmpty
    <3>. QED  BY <2>1, <3>1
  <2>. QED  BY <2>1, <2>2, <2>3 DEF Common
<1>7. CASE ShmUnlink(p)
  <2>1. /\ Common(p) /\ segs' = segs /\ proc[p].pc \in Gone /\ proc'[p].addr = FALSE /\ Where(p)'
    BY <1>1, <1>7, ShmUnlinkDoes, NoneTyped
       DEF Where, Without, With, Early, Opening, Gone, Cleaning, KeepsSem, KeepsUse
  <2>. QED  BY <2>1, QuietHandle DEF Common
<1>8. CASE SysvCrash(p)
  <2>1. /\ Common(p) /\ Where(p)' /\ proc'[p].addr = FALSE
        /\ \A j \in Ids : IF p \in segs[j].attached THEN DetachedFrom(p, j) ELSE segs'[j] = segs[j]
    BY <1>1, <1>8, SysvCrashDoes, NoneTyped
       DEF Where, Without, With, Early, Opening, Gone, Cleaning
  <2>2. AttachedExact'
    <3>. SUFFICES ASSUME NEW q \in SysvProcs, NEW j \in Ids
                  PROVE  q \in segs'[j].attached <=> IsAttached(q, j)'
      BY DEF AttachedExact
    <3>1. q \in segs[j].attached <=> IsAttached(q, j)
      BY DEF Base, AttachedExact
    <3>. QED  BY <2>1, <3>1 DEF IsAttached, Common, Others, DetachedFrom
  <2>3. DeadEmpty'
    <3>. SUFFICES ASSUME NEW j \in Ids, segs'[j].live = FALSE PROVE segs'[j].attached = {}
      BY DEF DeadEmpty
    <3>1. segs[j].live = FALSE => segs[j].attached = {}
      BY DEF Base, DeadEmpty
    <3>. QED  BY <2>1, <3>1 DEF DetachedFrom
  <2>. QED  BY <2>1, <2>2, <2>3 DEF Common
<1>. QED  BY <1>3, <1>4, <1>5, <1>6, <1>7, <1>8

------------------------------------------------------------------------------
(* Calls that overlap in any way: somebody is there to remove each object.  *)

InHand(q, i) == proc[q].seg = i /\ proc[q].pc \in {"shmat", "shmstat", "shmrmid"}
SegKept ==
  \A i \in Ids : segs[i].live => segs[i].attached # {} \/ \E q \in SysvProcs : InHand(q, i)
WillRemove(q, i) == proc[q].sem = i /\ proc[q].semCreated = TRUE /\ proc[q].pc # "semunlink"
SemKept == \A i \in Ids : sems[i].live => \E q \in SysvProcs : WillRemove(q, i)
Kept == usage = "free" => SegKept /\ SemKept

LEMMA SegKeptQuiet ==
  ASSUME SegKept, NEW p \in SysvProcs, Others(p), segs' = segs,
         proc[p].pc \notin {"shmat", "shmstat", "shmrmid"}
  PROVE  SegKept'
<1>1. \A q \in SysvProcs, i \in Ids : InHand(q, i) => InHand(q, i)'
  BY DEF InHand, Others
<1>. QED  BY <1>1 DEF SegKept

LEMMA SemKeptQuiet ==
  ASSUME SemKept, NEW p \in SysvProcs, Others(p), \A j \in Ids : sems'[j].live = sems[j].live,
         proc[p].semCreated = TRUE /\ proc[p].pc # "semunlink" =>
           proc'[p].sem = proc[p].sem /\ proc'[p].semCreated = TRUE /\ proc'[p].pc # "semunlink"
  PROVE  SemKept'
<1>1. \A q \in SysvProcs, i \in Ids : WillRemove(q, i) => WillRemove(q, i)'
  BY DEF WillRemove, Others
<1>. QED  BY <1>1 DEF SemKept

LEMMA KeptCreate ==
  ASSUME Base, SegKept, SemKept, NEW p \in SysvProcs,
         ShmGetExcl(p) /\ Found(segs, proc[p].key) = NoKey => SegRoom,
         \/ SysvNew(p) \/ ShmKeyFile(p) \/ ShmKey(p) \/ ShmGetExcl(p) \/ ShmGet(p) \/ ShmAttach(p)
  PROVE  SegKept' /\ SemKept'
<1>1. SysvTyped /\ Where(p)
  BY DEF Base
<1>2. SemKept'
  <2>1. /\ proc[p].pc \in Early /\ Others(p) /\ sems' = sems
    BY <1>1, SysvNewDoes, ShmKeyFileDoes, ShmKeyDoes, ShmGetExclDoes, ShmGetDoes, ShmAttachDoes
       DEF Common, Early
  <2>2. proc[p].semCreated = FALSE
    BY <1>1, <2>1 DEF Where
  <2>. QED  BY <2>1, <2>2, SemKeptQuiet
<1>3. CASE SysvNew(p) \/ ShmKeyFile(p) \/ ShmKey(p) \/ ShmGet(p)
  <2>1. Others(p) /\ segs' = segs /\ proc[p].pc \notin {"shmat", "shmstat", "shmrmid"}
    BY <1>1, <1>3, SysvNewDoes, ShmKeyFileDoes, ShmKeyDoes, ShmGetDoes DEF Common
  <2>. QED  BY <1>2, <2>1, SegKeptQuiet
<1>4. CASE ShmGetExcl(p)
  <2>1. /\ Others(p) /\ proc[p].pc = "shmexcl"
        /\ \/ segs' = segs
           \/ /\ proc'[p].pc = "shmat"
              /\ \E i \in Ids : proc'[p].seg = i /\ \A j \in Ids : j # i => segs'[j] = segs[j]
    BY <1>1, <1>4, ShmGetExclDoes DEF Common
  <2>2. CASE segs' = segs
    BY <1>2, <2>1, <2>2, SegKeptQuiet
  <2>3. CASE segs' # segs
    <3>1. PICK i \in Ids : /\ proc'[p].pc = "shmat" /\ proc'[p].seg = i
                           /\ \A j \in Ids : j # i => segs'[j] = segs[j]
      BY <2>1, <2>3
    <3>2. InHand(p, i)' /\ \A q \in SysvProcs, j \in Ids : InHand(q, j) => InHand(q, j)'
      BY <2>1, <3>1 DEF InHand, Others
    <3>. QED  BY <1>2, <3>1, <3>2 DEF SegKept
  <2>. QED  BY <2>2, <2>3
<1>5. CASE ShmAttach(p)
  <2>1. /\ Others(p) /\ proc[p].pc = "shmat"
        /\ \/ /\ proc[p].seg \in Ids /\ segs' = [segs EXCEPT ![proc[p].seg].attached = @ \cup {p}]
           \/ ~SegLives(p) /\ segs' = segs
    BY <1>1, <1>5, ShmAttachDoes DEF Common
  <2>2. \A q \in SysvProcs, j \in Ids : q # p /\ InHand(q, j) => InHand(q, j)'
    BY <2>1 DEF InHand, Others
  <2>3. CASE ~SegLives(p) /\ segs' = segs
    <3>1. \A j \in Ids : segs[j].live => ~InHand(p, j)
      BY <2>3, SysvAssumption DEF SegLives, SegOf, InHand
    <3>. QED  BY <1>2, <2>2, <2>3, <3>1 DEF SegKept
  <2>4. CASE proc[p].seg \in Ids /\ segs' = [segs EXCEPT ![proc[p].seg].attached = @ \cup {p}]
    <3>1. /\ p \in segs'[proc[p].seg].attached
          /\ \A j \in Ids : j # proc[p].seg => segs'[j] = segs[j]
      BY <1>1, <2>4 DEF SysvTyped, SegType
    <3>2. \A j \in Ids : j # proc[p].seg => ~InHand(p, j)
      BY DEF InHand
    <3>. QED  BY <1>2, <2>2, <3>1, <3>2 DEF SegKept
  <2>. QED  BY <2>1, <2>3, <2>4
<1>. QED  BY <1>3, <1>4, <1>5

LEMMA KeptSem ==
  ASSUME Base, SegKept, SemKept, NEW p \in SysvProcs,
         SemGetExcl(p) /\ Found(sems, proc[p].key) = NoKey => SemRoom,
         \/ SemKeyFile(p) \/ SemKey(p) \/ SemGetExcl(p) \/ SemGet(p) \/ SemSetVal(p)
         \/ SemMade(p) \/ SemFailed(p) \/ SemRemove(p) \/ SemUnlink(p)
  PROVE  SegKept' /\ SemKept'
<1>1. SysvTyped /\ Where(p)
  BY DEF Base
<1>2. SegKept' /\ Others(p)
  <2>1. /\ proc[p].pc \notin {"shmat", "shmstat", "shmrmid"} /\ Others(p) /\ segs' = segs
    BY <1>1, SemKeyFileDoes, SemKeyDoes, SemGetExclDoes, SemGetDoes, SemSetValDoes, SemMadeDoes,
       SemFailedDoes, SemRemoveDoes, SemUnlinkDoes DEF Common
  <2>. QED  BY <2>1, SegKeptQuiet
<1>3. CASE SemKeyFile(p)
  BY <1>1, <1>2, <1>3, SemKeyFileDoes, SemKeptQuiet
<1>4. CASE SemKey(p)
  BY <1>1, <1>2, <1>4, SemKeyDoes, SemKeptQuiet DEF KeepsSem
<1>5. CASE SemGetExcl(p)
  <2>1. /\ proc[p].semCreated = FALSE
        /\ \/ sems' = sems
           \/ /\ proc'[p].pc = "semset" /\ proc'[p].semCreated = TRUE
              /\ \E i \in Ids : proc'[p].sem = i /\ \A j \in Ids : j # i => sems'[j] = sems[j]
    BY <1>1, <1>5, SemGetExclDoes DEF Where, Opening
  <2>2. CASE sems' = sems
    BY <1>2, <2>1, <2>2, SemKeptQuiet
  <2>3. CASE sems' # sems
    <3>1. PICK i \in Ids : /\ proc'[p].pc = "semset" /\ proc'[p].semCreated = TRUE /\ proc'[p].sem = i
                           /\ \A j \in Ids : j # i => sems'[j] = sems[j]
      BY <2>1, <2>3
    <3>2. WillRemove(p, i)' /\ \A q \in SysvProcs, j \in Ids : WillRemove(q, j) => WillRemove(q, j)'
      BY <1>2, <2>1, <3>1 DEF WillRemove, Others
    <3>. QED  BY <1>2, <3>1, <3>2 DEF SemKept
  <2>. QED  BY <2>2, <2>3
<1>6. CASE SemGet(p)
  <2>1. proc[p].semCreated = FALSE /\ sems' = sems
    BY <1>1, <1>6, SemGetDoes DEF Where, Opening
  <2>. QED  BY <1>2, <2>1, SemKeptQuiet
<1>7. CASE SemSetVal(p)
  BY <1>1, <1>2, <1>7, SemSetValDoes, SemKeptQuiet DEF KeepsSem
<1>8. CASE SemMade(p)
  BY <1>1, <1>2, <1>8, SemMadeDoes, SemKeptQuiet DEF KeepsSem
<1>9. CASE SemFailed(p)
  BY <1>1, <1>2, <1>9, SemFailedDoes, SemKeptQuiet DEF KeepsSem
<1>10. CASE SemRemove(p)
  <2>1. \/ /\ proc[p].sem \in Ids /\ sems'[proc[p].sem].live = FALSE
           /\ \A j \in Ids : j # proc[p].sem => sems'[j] = sems[j]
        \/ ~(SemLives(p) /\ proc[p].semCreated) /\ sems' = sems
    BY <1>1, <1>10, SemRemoveDoes
  <2>2. \A q \in SysvProcs, j \in Ids : q # p /\ WillRemove(q, j) => WillRemove(q, j)'
    BY <1>2 DEF WillRemove, Others
  <2>3. \A j \in Ids : sems'[j].live => sems'[j] = sems[j] /\ ~WillRemove(p, j)
    BY <2>1, SysvAssumption DEF WillRemove, SemLives, SemOf
  <2>. QED  BY <1>2, <2>2, <2>3 DEF SemKept
<1>11. CASE SemUnlink(p)
  BY <1>1, <1>2, <1>11, SemUnlinkDoes, SemKeptQuiet
<1>. QED  BY <1>2, <1>3, <1>4, <1>5, <1>6, <1>7, <1>8, <1>9, <1>10, <1>11

LEMMA KeptUse ==
  ASSUME Base, SegKept, SemKept, NEW p \in SysvProcs,
         SysvLock(p) \/ SysvRelock(p) \/ SysvUnlock(p) \/ SysvTakeOwnership(p)
  PROVE  SegKept' /\ SemKept'
<1>1. SysvTyped
  BY DEF Base
<1>2. /\ proc[p].pc \in {"ready", "relock"} /\ Others(p) /\ segs' = segs
      /\ \A j \in Ids : sems'[j].live = sems[j].live
      /\ proc'[p].sem = proc[p].sem /\ proc'[p].pc # "semunlink"
      /\ proc[p].semCreated = TRUE => proc'[p].semCreated = TRUE
  <2>1. CASE SysvLock(p)
    BY <1>1, <2>1, SysvLockDoes DEF Common, KeepsSem, Counted
  <2>2. CASE SysvRelock(p)
    BY <1>1, <2>2, SysvRelockDoes DEF Common, KeepsSem
  <2>3. CASE SysvUnlock(p)
    BY <1>1, <2>3, SysvUnlockDoes DEF Common, KeepsSem, Counted
  <2>4. CASE SysvTakeOwnership(p)
    BY <1>1, <2>4, SysvTakeOwnershipDoes DEF Common
  <2>. QED  BY <2>1, <2>2, <2>3, <2>4
<1>. QED  BY <1>2, SegKeptQuiet, SemKeptQuiet

LEMMA KeptFree ==
  ASSUME Base, SegKept, SemKept, NEW p \in SysvProcs,
         SysvFree(p) \/ ShmDetach(p) \/ ShmCtlStat(p) \/ ShmRemove(p) \/ ShmUnlink(p)
  PROVE  SegKept' /\ SemKept'
<1>1. SysvTyped /\ Where(p)
  BY DEF Base
<1>2. SemKept' /\ Others(p)
  <2>1. CASE SysvFree(p) \/ ShmDetach(p) \/ ShmCtlStat(p) \/ ShmRemove(p)
    <3>1. KeepsSem(p) /\ Others(p) /\ sems' = sems /\ proc'[p].pc # "semunlink"
      BY <1>1, <2>1, SysvFreeDoes, ShmDetachDoes, ShmStatDoes, ShmRemoveDoes DEF Common
    <3>. QED  BY <3>1, SemKeptQuiet DEF KeepsSem
  <2>2. CASE ShmUnlink(p)
    <3>1. /\ Others(p) /\ sems' = sems
          /\ \/ KeepsSem(p) /\ proc'[p].pc = "semrmid"
             \/ proc[p].semCreated = FALSE
      BY <1>1, <2>2, ShmUnlinkDoes DEF Common, Where, Gone
    <3>. QED  BY <3>1, SemKeptQuiet DEF KeepsSem
  <2>. QED  BY <2>1, <2>2
<1>3. \A q \in SysvProcs, j \in Ids : q # p /\ InHand(q, j) => InHand(q, j)'
  BY <1>2 DEF InHand, Others
<1>4. CASE SysvFree(p) \/ ShmUnlink(p)
  <2>1. segs' = segs /\ proc[p].pc \notin {"shmat", "shmstat", "shmrmid"}
    BY <1>1, <1>4, SysvFreeDoes, ShmUnlinkDoes
  <2>. QED  BY <1>2, <2>1, SegKeptQuiet
<1>5. CASE ShmDetach(p)
  <2>1. /\ \A j \in Ids : j # proc[p].seg => segs'[j] = segs[j]
        /\ proc[p].pc = "shmdt" /\ proc'[p].pc = "shmstat" /\ proc'[p].seg = proc[p].seg
    BY <1>1, <1>5, ShmDetachDoes DEF KeepsSeg
  <2>2. \A j \in Ids : j = proc[p].seg => InHand(p, j)'
    BY <2>1 DEF InHand
  <2>3. \A j \in Ids : ~InHand(p, j)
    BY <2>1 DEF InHand
  <2>. QED  BY <1>2, <1>3, <2>1, <2>2, <2>3 DEF SegKept
<1>6. CASE ShmCtlStat(p)
  <2>1. /\ segs' = segs /\ proc'[p].seg = proc[p].seg
        /\ SegLives(p) => proc'[p].pc = "shmrmid" \/ segs[proc[p].seg].attached # {}
    BY <1>1, <1>6, ShmStatDoes DEF KeepsSeg
  <2>2. \A j \in Ids : segs[j].live /\ InHand(p, j) => segs[j].attached # {} \/ InHand(p, j)'
    BY <2>1, SysvAssumption DEF InHand, SegLives, SegOf
  <2>. QED  BY <1>2, <1>3, <2>1, <2>2 DEF SegKept
<1>7. CASE ShmRemove(p)
  <2>1. /\ \A j \in Ids : segs'[j].attached = segs[j].attached
        /\ \A j \in Ids : j # proc[p].seg => segs'[j] = segs[j]
        /\ SegLives(p) => segs'[proc[p].seg].live = (segs[proc[p].seg].attached # {})
        /\ ~SegLives(p) => segs' = segs
    BY <1>1, <1>7, ShmRemoveDoes
  <2>2. \A j \in Ids : segs'[j].live =>
          \/ segs'[j].attached # {}
          \/ segs[j].live /\ segs'[j].attached = segs[j].attached /\ ~InHand(p, j)
    BY <2>1, SysvAssumption DEF InHand, SegLives, SegOf
  <2>. QED  BY <1>2, <1>3, <2>2 DEF SegKept
<1>. QED  BY <1>4, <1>5, <1>6, <1>7

(* More identifiers than processes: there is always a new one.              *)
LEMMA KeptRoom ==
  ASSUME Base, SegKept, SemKept
  PROVE  SegRoom /\ SemRoom
<1>1. SegRoom
  <2>. DEFINE h == [p \in SysvProcs |-> proc[p].seg]
  <2>1. h \in [SysvProcs -> Handles] /\ \A p \in SysvProcs : h[p] = proc[p].seg
    BY DEF Base, SysvTyped, ProcType
  <2>2. \A i \in Ids : segs[i].live => \E p \in SysvProcs : proc[p].seg = i
    <3>. SUFFICES ASSUME NEW i \in Ids, segs[i].live PROVE \E p \in SysvProcs : proc[p].seg = i
      OBVIOUS
    <3>1. segs[i].attached \subseteq SysvProcs
      BY DEF Base, SysvTyped, SegType
    <3>2. CASE segs[i].attached # {}
      BY <3>1, <3>2 DEF Base, AttachedExact, IsAttached
    <3>3. CASE \E q \in SysvProcs : InHand(q, i)
      BY <3>3 DEF InHand
    <3>. QED  BY <3>2, <3>3 DEF SegKept
  <2>. HIDE DEF h
  <2>3. \A i \in Ids : segs[i].live => \E p \in SysvProcs : h[p] = i
    BY <2>1, <2>2
  <2>4. \E i \in Ids : ~segs[i].live /\ \A p \in SysvProcs : h[p] # i
    BY <2>1, <2>3, Room
  <2>. QED  BY <2>1, <2>4 DEF SegRoom, SegOf
<1>2. SemRoom
  <2>. DEFINE h == [p \in SysvProcs |-> proc[p].sem]
  <2>1. h \in [SysvProcs -> Handles] /\ \A p \in SysvProcs : h[p] = proc[p].sem
    BY DEF Base, SysvTyped, ProcType
  <2>. HIDE DEF h
  <2>2. \A i \in Ids : sems[i].live => \E p \in SysvProcs : h[p] = i
    BY <2>1 DEF SemKept, WillRemove
  <2>3. \E i \in Ids : ~sems[i].live /\ \A p \in SysvProcs : h[p] # i
    BY <2>1, <2>2, Room
  <2>. QED  BY <2>1, <2>3 DEF SemRoom, SemOf
<1>. QED  BY <1>1, <1>2

------------------------------------------------------------------------------
(* The disciplined use: one call creates or frees at a time, and every      *)
(* object there is belongs to the key file there is.                        *)

Freeing == {"shmdt", "shmstat", "shmrmid", "shmunlink", "semrmid", "semunlink"}
HasSeg == {"shmat", "semset", "semmade", "ready", "shmdt", "shmstat", "shmrmid"} \cup Opening
HasSem == {"semset", "semmade", "ready", "shmdt", "shmstat", "shmrmid", "shmunlink", "semrmid"}

AnySeg == \E i \in Ids : segs[i].live
AnySem == \E i \in Ids : sems[i].live

OneWorker == \A p, q \in SysvProcs : ~Idle(p) /\ ~Idle(q) => p = q
SegsOne ==
  /\ \A i \in Ids : segs[i].live => segs[i].key = keyFile["shm"] /\ keyFile["shm"] # NoKey
  /\ \A i, j \in Ids : segs[i].live /\ segs[j].live => i = j
SemsOne ==
  /\ \A i \in Ids : sems[i].live => sems[i].key = keyFile["sem"] /\ keyFile["sem"] # NoKey
  /\ \A i, j \in Ids : sems[i].live /\ sems[j].live => i = j
(* A segment has its semaphore, unless its creator is about to make one.    *)
Creating(p) == proc[p].pc \in {"shmat", "semfile", "semkey", "semexcl"} /\ proc[p].mode = "create"
SegHasSem == AnySeg => AnySem \/ \E p \in SysvProcs : Creating(p)

(* The unit is in the semaphore or with one process.                        *)
Balanced(i) ==
  \/ sems[i].val = 1 /\ \A p \in SysvProcs : proc[p].held = FALSE
  \/ /\ sems[i].val = 0
     /\ \E p \in SysvProcs : proc[p].held = TRUE /\ \A q \in SysvProcs : proc[q].held = TRUE => q = p
Unit ==
  \A i \in Ids : sems[i].live =>
    /\ \A p \in SysvProcs : sems[i].undo[p] = IF proc[p].held = TRUE THEN 1 ELSE 0
    /\ (\A p \in SysvProcs : proc[p].pc # "semset") => Balanced(i)

Handle(p) ==
  /\ proc[p].pc \notin {"relock", "semfailed"}
  /\ proc[p].call = IF proc[p].pc \in Freeing THEN "free" ELSE "new"
  /\ proc[p].held = TRUE => proc[p].pc = "ready"
  /\ proc[p].pc \in {"shmdt"} \cup Gone => proc[p].addr = TRUE
  /\ proc[p].pc \in HasSeg => proc[p].seg \in Ids /\ segs[proc[p].seg].live
  /\ proc[p].pc \in HasSem => proc[p].sem \in Ids /\ sems[proc[p].sem].live
  /\ proc[p].semFile = TRUE =>
       proc[p].semCreated = TRUE \/ (proc[p].pc \in {"semkey", "semexcl"} /\ ~AnySem)
KeyFound(p) ==
  /\ proc[p].pc = "shmkey" => keyFile["shm"] # NoKey
  /\ proc[p].pc \in {"shmexcl", "shmget"} => proc[p].key = keyFile["shm"] /\ keyFile["shm"] # NoKey
  /\ proc[p].pc = "shmget" => AnySeg
  /\ proc[p].pc = "semkey" => keyFile["sem"] # NoKey
  /\ proc[p].pc \in {"semexcl", "semget"} => proc[p].key = keyFile["sem"] /\ keyFile["sem"] # NoKey
  /\ proc[p].pc = "semget" => AnySem
Entitled(p) ==
  /\ proc[p].pc \in {"shmat"} \cup Opening => IF proc[p].mode = "create" THEN Alone(p) ELSE AnySem
  /\ proc[p].pc = "semset" => Alone(p)
  /\ proc[p].pc \in Freeing /\ Owner(p) => Alone(p)
  /\ proc[p].pc = "shmrmid" => segs[proc[p].seg].attached = {}
  /\ proc[p].pc \in {"shmunlink", "semrmid", "semunlink"} /\ Owner(p) => ~AnySeg
  /\ proc[p].pc = "semunlink" /\ proc[p].semFile = TRUE => ~AnySem
Place(p) == Handle(p) /\ KeyFound(p) /\ Entitled(p)

Objects == SegsOne /\ SemsOne /\ SegHasSem /\ Unit
Disc == OneWorker /\ Objects /\ \A p \in SysvProcs : Place(p)

(* A step of the only process that is creating or freeing.                  *)
LEMMA WorkerStep ==
  ASSUME Disc, NEW p \in SysvProcs, Others(p), \A q \in SysvProcs : q # p => Idle(q),
         \A q \in SysvProcs : q # p /\ proc[q].pc = "ready" =>
           /\ segs[proc[q].seg].live => segs'[proc[q].seg].live
           /\ sems[proc[q].sem].live => sems'[proc[q].sem].live,
         Place(p)', Objects'
  PROVE  Disc'
<1>1. OneWorker'
  BY DEF OneWorker, Idle, Others
<1>2. ASSUME NEW q \in SysvProcs, q # p PROVE Place(q)'
  <2>1. proc'[q] = proc[q] /\ proc[q].pc \in {"none", "ready"} /\ Handle(q)
    BY <1>2 DEF Others, Idle, Disc, Place
  <2>2. Handle(q)'
    BY <1>2, <2>1 DEF Handle, HasSeg, HasSem, Opening, Gone, Freeing
  <2>3. KeyFound(q)' /\ Entitled(q)'
    BY <2>1 DEF KeyFound, Entitled, Opening, Freeing
  <2>. QED  BY <2>2, <2>3 DEF Place
<1>. QED  BY <1>1, <1>2 DEF Disc

(* Nobody else is in a call while p is.                                     *)
LEMMA WorkerAlone ==
  ASSUME Disc, NEW p \in SysvProcs, ~Idle(p)
  PROVE  \A q \in SysvProcs : q # p => Idle(q) /\ proc[q].pc # "semset" /\ ~Creating(q)
BY DEF Disc, OneWorker, Idle, Creating

LEMMA UnitQuiet ==
  ASSUME Unit, NEW p \in SysvProcs, Others(p), sems' = sems, proc'[p].held = proc[p].held,
         \A q \in SysvProcs : proc[q].pc # "semset"
  PROVE  Unit'
<1>1. \A q \in SysvProcs : proc'[q].held = proc[q].held
  BY DEF Others
<1>2. \A i \in Ids : sems[i].live => Balanced(i)
  BY DEF Unit
<1>3. \A i \in Ids : Balanced(i) => Balanced(i)'
  BY <1>1 DEF Balanced
<1>. QED  BY <1>1, <1>2, <1>3 DEF Unit

LEMMA SegsQuiet ==
  ASSUME SegsOne, \A j \in Ids : segs'[j].live = segs[j].live /\ segs'[j].key = segs[j].key,
         AnySeg => keyFile'["shm"] = keyFile["shm"]
  PROVE  SegsOne' /\ (AnySeg' <=> AnySeg)
BY DEF SegsOne, AnySeg

LEMMA SemsQuiet ==
  ASSUME SemsOne, \A j \in Ids : sems'[j].live = sems[j].live /\ sems'[j].key = sems[j].key,
         AnySem => keyFile'["sem"] = keyFile["sem"]
  PROVE  SemsOne' /\ (AnySem' <=> AnySem)
BY DEF SemsOne, AnySem

(* Steps of the worker that make and remove no kernel object.               *)
LEMMA QuietStep ==
  ASSUME Disc, NEW p \in SysvProcs, Others(p), \A q \in SysvProcs : q # p => Idle(q),
         \A j \in Ids : segs'[j].live = segs[j].live /\ segs'[j].key = segs[j].key, sems' = sems,
         AnySeg => keyFile'["shm"] = keyFile["shm"], AnySem => keyFile'["sem"] = keyFile["sem"],
         proc'[p].held = proc[p].held, proc[p].pc # "semset",
         Creating(p) => Creating(p)' \/ AnySem,
         (AnySeg' <=> AnySeg) /\ (AnySem' <=> AnySem) => Place(p)'
  PROVE  Disc'
<1>1. SegsOne' /\ (AnySeg' <=> AnySeg)
  BY SegsQuiet DEF Disc, Objects
<1>2. SemsOne' /\ (AnySem' <=> AnySem)
  BY SemsQuiet DEF Disc, Objects
<1>3. \A q \in SysvProcs : q # p => proc[q].pc # "semset" /\ ~Creating(q)
  BY DEF Idle, Creating
<1>4. Unit'
  BY <1>3, UnitQuiet DEF Disc, Objects
<1>5. SegHasSem'
  BY <1>1, <1>2, <1>3 DEF Disc, Objects, SegHasSem
<1>6. \A q \in SysvProcs : q # p /\ proc[q].pc = "ready" => proc[q].seg \in Ids /\ proc[q].sem \in Ids
  BY DEF Disc, Place, Handle, HasSeg, HasSem
<1>. QED  BY <1>1, <1>2, <1>4, <1>5, <1>6, WorkerStep DEF Objects

(* With one key file, what is found under its key is what there is.         *)
LEMMA FoundSeg ==
  ASSUME SegsOne, NEW k, k = keyFile["shm"]
  PROVE  /\ Found(segs, k) # NoKey <=> AnySeg
         /\ Found(segs, k) # NoKey => Found(segs, k) \in Ids /\ segs[Found(segs, k)].live
BY FoundIs DEF SegsOne, AnySeg

LEMMA FoundSem ==
  ASSUME SemsOne, NEW k, k = keyFile["sem"]
  PROVE  /\ Found(sems, k) # NoKey <=> AnySem
         /\ Found(sems, k) # NoKey => Found(sems, k) \in Ids /\ sems[Found(sems, k)].live
BY FoundIs DEF SemsOne, AnySem

LEMMA DiscRoom ==
  ASSUME SysvTyped
  PROVE  (~AnySeg => SegRoom) /\ (~AnySem => SemRoom)
<1>1. ASSUME ~AnySeg PROVE SegRoom
  <2>. DEFINE h == [p \in SysvProcs |-> proc[p].seg]
  <2>1. h \in [SysvProcs -> Handles] /\ \A p \in SysvProcs : h[p] = proc[p].seg
    BY DEF SysvTyped, ProcType
  <2>. HIDE DEF h
  <2>2. \E i \in Ids : ~segs[i].live /\ \A p \in SysvProcs : h[p] # i
    BY <1>1, <2>1, Room DEF AnySeg
  <2>. QED  BY <2>1, <2>2 DEF SegRoom, SegOf
<1>2. ASSUME ~AnySem PROVE SemRoom
  <2>. DEFINE h == [p \in SysvProcs |-> proc[p].sem]
  <2>1. h \in [SysvProcs -> Handles] /\ \A p \in SysvProcs : h[p] = proc[p].sem
    BY DEF SysvTyped, ProcType
  <2>. HIDE DEF h
  <2>2. \E i \in Ids : ~sems[i].live /\ \A p \in SysvProcs : h[p] # i
    BY <1>2, <2>1, Room DEF AnySem
  <2>. QED  BY <2>1, <2>2 DEF SemRoom, SemOf
<1>. QED  BY <1>1, <1>2

LEMMA DiscCreate ==
  ASSUME usage = "disciplined", Base, Disc, NEW p \in SysvProcs,
         \/ SysvNew(p) \/ ShmKeyFile(p) \/ ShmKey(p) \/ ShmGet(p) \/ ShmAttach(p)
  PROVE  Disc'
<1>1. SysvTyped /\ Where(p) /\ Handle(p) /\ KeyFound(p) /\ Entitled(p) /\ SegsOne /\ SemsOne
  BY DEF Base, Disc, Objects, Place
<1>2. CASE SysvNew(p)
  <2>1. /\ proc[p].pc = "none" /\ UNCHANGED <<keyFile, segs, sems>> /\ Others(p)
        /\ \A q \in SysvProcs : q # p => Idle(q)
        /\ proc'[p].pc = "shmfile" /\ KeepsSem(p) /\ KeepsUse(p)
    BY <1>1, <1>2, SysvNewDoes DEF Common, MayBegin
  <2>2. Place(p)'
    BY <1>1, <2>1 DEF Place, Handle, KeyFound, Entitled, HasSeg, HasSem, Opening, Gone, Freeing,
                      KeepsSem, KeepsUse, Where, Early
  <2>. QED  BY <2>1, <2>2, QuietStep DEF KeepsUse, Creating
<1>3. CASE ShmKeyFile(p)
  <2>1. /\ proc[p].pc = "shmfile" /\ UNCHANGED <<segs, sems>> /\ Others(p)
        /\ proc'[p].pc = "shmkey" /\ KeepsSem(p) /\ KeepsUse(p)
        /\ keyFile'["shm"] # NoKey /\ keyFile'["sem"] = keyFile["sem"]
        /\ keyFile["shm"] # NoKey => keyFile' = keyFile
    BY <1>1, <1>3, ShmKeyFileDoes DEF Common
  <2>2. Place(p)'
    BY <1>1, <2>1 DEF Place, Handle, KeyFound, Entitled, HasSeg, HasSem, Opening, Gone, Freeing,
                      KeepsSem, KeepsUse, Where, Early
  <2>3. AnySeg => keyFile' = keyFile
    BY <1>1, <2>1 DEF AnySeg, SegsOne
  <2>4. \A q \in SysvProcs : q # p => Idle(q)
    BY <2>1, WorkerAlone DEF Idle
  <2>. QED  BY <2>1, <2>2, <2>3, <2>4, QuietStep DEF KeepsUse, Creating
<1>4. CASE ShmKey(p)
  <2>1. /\ proc[p].pc = "shmkey" /\ UNCHANGED <<keyFile, segs, sems>> /\ Others(p)
        /\ KeepsSem(p) /\ KeepsUse(p) /\ keyFile["shm"] # NoKey
        /\ proc'[p].pc = "shmexcl" /\ proc'[p].key = keyFile["shm"]
    BY <1>1, <1>4, ShmKeyDoes DEF Common, KeyFound
  <2>2. Place(p)'
    BY <1>1, <2>1 DEF Place, Handle, KeyFound, Entitled, HasSeg, HasSem, Opening, Gone, Freeing,
                      KeepsSem, KeepsUse, Where, Early
  <2>3. \A q \in SysvProcs : q # p => Idle(q)
    BY <2>1, WorkerAlone DEF Idle
  <2>. QED  BY <2>1, <2>2, <2>3, QuietStep DEF KeepsUse, Creating
<1>5. CASE ShmGet(p)
  <2>1. /\ proc[p].pc = "shmget" /\ UNCHANGED <<keyFile, segs, sems>> /\ Others(p)
        /\ KeepsSem(p) /\ proc'[p].call = proc[p].call /\ proc'[p].held = proc[p].held
        /\ proc'[p].mode = "open" /\ proc'[p].pc = "shmat"
        /\ proc'[p].seg \in Ids /\ segs[proc'[p].seg].live
    BY <1>1, <1>5, ShmGetDoes, FoundSeg DEF Common, KeyFound
  <2>2. \A q \in SysvProcs : q # p => Idle(q) /\ ~Creating(q)
    BY <2>1, WorkerAlone DEF Idle
  <2>3. AnySem
    BY <1>1, <2>1, <2>2 DEF Disc, Objects, SegHasSem, KeyFound, Creating
  <2>4. ASSUME AnySem' <=> AnySem PROVE Place(p)'
    BY <1>1, <2>1, <2>3, <2>4
       DEF Place, Handle, KeyFound, Entitled, HasSeg, HasSem, Opening, Gone, Freeing, KeepsSem, Where, Early
  <2>. QED  BY <2>1, <2>2, <2>4, QuietStep DEF Creating
<1>6. CASE ShmAttach(p)
  <2>1. /\ proc[p].pc = "shmat" /\ UNCHANGED <<keyFile, sems>> /\ Others(p)
        /\ proc'[p].seg = proc[p].seg /\ KeepsSem(p) /\ KeepsUse(p)
        /\ proc'[p].addr = TRUE /\ proc'[p].pc = "semfile" /\ proc[p].seg \in Ids
        /\ segs' = [segs EXCEPT ![proc[p].seg].attached = @ \cup {p}]
    <3>1. SegLives(p)
      BY <1>1, <1>6, ShmAttachDoes, SysvAssumption DEF Handle, HasSeg, SegLives, SegOf
    <3>. QED  BY <1>1, <1>6, <3>1, ShmAttachDoes DEF Common
  <2>2. \A j \in Ids : segs'[j].live = segs[j].live /\ segs'[j].key = segs[j].key
    BY <1>1, <2>1 DEF SysvTyped, SegType
  <2>3. \A q \in SysvProcs : q # p => Idle(q)
    BY <2>1, WorkerAlone DEF Idle
  <2>4. Alone(p) => Alone(p)'
    BY <2>1 DEF Alone, At, Others
  <2>5. ASSUME AnySem' <=> AnySem PROVE Place(p)'
    <3>1. Handle(p)' /\ KeyFound(p)'
      BY <1>1, <2>1, <2>2
         DEF Handle, KeyFound, HasSeg, HasSem, Opening, Gone, Freeing, KeepsSem, KeepsUse, Where, Early
    <3>2. Entitled(p)'
      BY <1>1, <2>1, <2>4, <2>5 DEF Entitled, Opening, Freeing, KeepsUse
    <3>. QED  BY <3>1, <3>2 DEF Place
  <2>. QED  BY <2>1, <2>2, <2>3, <2>5, QuietStep DEF Creating, KeepsUse
<1>. QED  BY <1>2, <1>3, <1>4, <1>5, <1>6

LEMMA DiscShmGetExcl ==
  ASSUME Base, Disc, NEW p \in SysvProcs, ShmGetExcl(p)
  PROVE  Disc'
<1>1. SysvTyped /\ Where(p) /\ Handle(p) /\ KeyFound(p) /\ SegsOne /\ SemsOne /\ Unit
  BY DEF Base, Disc, Objects, Place
<1>2. proc[p].pc = "shmexcl" /\ proc[p].key = keyFile["shm"] /\ keyFile["shm"] # NoKey
  BY <1>1 DEF ShmGetExcl, At, KeyFound
<1>3. Found(segs, proc[p].key) = NoKey => SegRoom
  BY <1>1, <1>2, FoundSeg, DiscRoom
<1>4. \A q \in SysvProcs : q # p => Idle(q) /\ proc[q].pc # "semset"
  BY <1>2, WorkerAlone DEF Idle
<1>5. CASE AnySeg
  <2>1. /\ UNCHANGED <<keyFile, sems, segs>> /\ Others(p) /\ KeepsSem(p)
        /\ proc'[p].call = proc[p].call /\ proc'[p].held = proc[p].held
        /\ proc'[p].pc = "shmget" /\ proc'[p].key = proc[p].key
    BY <1>1, <1>2, <1>3, <1>5, ShmGetExclDoes, FoundSeg DEF Common
  <2>2. ASSUME AnySeg' <=> AnySeg PROVE Place(p)'
    BY <1>1, <1>2, <1>5, <2>1, <2>2
       DEF Place, Handle, KeyFound, Entitled, HasSeg, HasSem, Opening, Gone, Freeing, KeepsSem, Where, Early
  <2>. QED  BY <1>2, <1>4, <2>1, <2>2, QuietStep DEF Creating
<1>6. CASE ~AnySeg
  <2>1. /\ UNCHANGED <<keyFile, sems>> /\ Others(p) /\ KeepsSem(p)
        /\ proc'[p].call = proc[p].call /\ proc'[p].held = proc[p].held
        /\ proc'[p].pc = "shmat" /\ proc'[p].mode = "create"
        /\ \E i \in Ids :
             /\ proc'[p].seg = i /\ segs'[i].live = TRUE /\ segs'[i].key = proc[p].key
             /\ \A j \in Ids : j # i => segs'[j] = segs[j]
    BY <1>1, <1>2, <1>3, <1>6, ShmGetExclDoes, FoundSeg DEF Common
  <2>2. PICK i \in Ids :
             /\ proc'[p].seg = i /\ segs'[i].live = TRUE /\ segs'[i].key = proc[p].key
             /\ \A j \in Ids : j # i => segs'[j] = segs[j]
    BY <2>1
  <2>3. SegsOne'
    BY <1>2, <1>6, <2>1, <2>2 DEF SegsOne, AnySeg
  <2>4. SemsOne' /\ Unit'
    BY <1>1, <1>2, <1>4, <2>1, SemsQuiet, UnitQuiet
  <2>5. SegHasSem'
    BY <2>1 DEF SegHasSem, Creating
  <2>6. \A q \in SysvProcs : q # p => proc[q].pc = "none"
    BY <1>4, <1>6 DEF Disc, Place, Handle, HasSeg, Idle, AnySeg
  <2>7. Place(p)'
    <3>1. Handle(p)' /\ KeyFound(p)'
      BY <1>1, <1>2, <2>1, <2>2
         DEF Handle, KeyFound, HasSeg, HasSem, Opening, Gone, Freeing, KeepsSem, Where, Early
    <3>2. Entitled(p)'
      BY <2>1, <2>6 DEF Entitled, Opening, Freeing, Alone, At, Others
    <3>. QED  BY <3>1, <3>2 DEF Place
  <2>. QED  BY <1>4, <2>1, <2>3, <2>4, <2>5, <2>6, <2>7, WorkerStep DEF Objects
<1>. QED  BY <1>5, <1>6

LEMMA DiscSemOpen ==
  ASSUME Base, Disc, NEW p \in SysvProcs,
         SemKeyFile(p) \/ SemKey(p) \/ SemGet(p) \/ SemMade(p)
  PROVE  Disc'
<1>1. SysvTyped /\ Where(p) /\ Handle(p) /\ KeyFound(p) /\ Entitled(p) /\ SegsOne /\ SemsOne
  BY DEF Base, Disc, Objects, Place
<1>2. /\ proc[p].pc \in {"semfile", "semkey", "semget", "semmade"}
      /\ Others(p) /\ segs' = segs /\ sems' = sems
  BY <1>1, SemKeyFileDoes, SemKeyDoes, SemGetDoes, SemMadeDoes DEF Common
<1>3. /\ \A q \in SysvProcs : q # p => Idle(q)
      /\ Alone(p) => Alone(p)'
  BY <1>2, WorkerAlone DEF Idle, Alone, At, Others
<1>4. CASE SemKeyFile(p)
  <2>1. /\ proc[p].pc = "semfile" /\ proc'[p].pc = "semkey" /\ KeepsSeg(p) /\ KeepsUse(p)
        /\ proc'[p].sem = proc[p].sem /\ proc'[p].semCreated = proc[p].semCreated
        /\ keyFile'["sem"] # NoKey /\ keyFile'["shm"] = keyFile["shm"]
        /\ keyFile["sem"] # NoKey => keyFile' = keyFile /\ proc'[p].semFile = proc[p].semFile
    BY <1>1, <1>4, SemKeyFileDoes
  <2>2. AnySem => keyFile["sem"] # NoKey
    BY <1>1 DEF AnySem, SemsOne
  <2>3. ASSUME AnySem' <=> AnySem PROVE Place(p)'
    <3>1. proc'[p].semFile = TRUE => ~AnySem'
      BY <1>1, <2>1, <2>2, <2>3 DEF Handle, Where, Opening
    <3>2. Handle(p)' /\ KeyFound(p)'
      BY <1>1, <1>2, <2>1, <3>1
         DEF Handle, KeyFound, HasSeg, HasSem, Opening, Gone, Freeing, KeepsSeg, KeepsUse
    <3>3. Entitled(p)'
      BY <1>1, <1>3, <2>1, <2>3 DEF Entitled, Opening, Freeing, KeepsUse
    <3>. QED  BY <3>2, <3>3 DEF Place
  <2>. QED  BY <1>2, <1>3, <2>1, <2>2, <2>3, QuietStep DEF Creating, KeepsUse
<1>5. CASE SemKey(p)
  <2>1. /\ proc[p].pc = "semkey" /\ proc'[p].pc = "semexcl" /\ keyFile' = keyFile
        /\ KeepsSeg(p) /\ KeepsSem(p) /\ KeepsUse(p)
        /\ keyFile["sem"] # NoKey /\ proc'[p].key = keyFile["sem"]
    BY <1>1, <1>5, SemKeyDoes DEF KeyFound
  <2>2. ASSUME AnySem' <=> AnySem PROVE Place(p)'
    <3>1. Handle(p)' /\ KeyFound(p)'
      BY <1>1, <1>2, <2>1, <2>2
         DEF Handle, KeyFound, HasSeg, HasSem, Opening, Gone, Freeing, KeepsSeg, KeepsSem, KeepsUse
    <3>2. Entitled(p)'
      BY <1>1, <1>3, <2>1, <2>2 DEF Entitled, Opening, Freeing, KeepsUse
    <3>. QED  BY <3>1, <3>2 DEF Place
  <2>. QED  BY <1>2, <1>3, <2>1, <2>2, QuietStep DEF Creating, KeepsUse
<1>6. CASE SemGet(p)
  <2>1. /\ proc[p].pc = "semget" /\ keyFile' = keyFile /\ KeepsSeg(p) /\ KeepsUse(p)
        /\ proc'[p].semCreated = proc[p].semCreated /\ proc'[p].semFile = proc[p].semFile
        /\ proc'[p].pc = IF proc[p].mode = "create" THEN "semset" ELSE "semmade"
        /\ proc'[p].sem \in Ids /\ sems[proc'[p].sem].live
    BY <1>1, <1>6, SemGetDoes, FoundSem DEF KeyFound
  <2>2. Place(p)'
    <3>1. Handle(p)' /\ KeyFound(p)'
      BY <1>1, <1>2, <2>1
         DEF Handle, KeyFound, HasSeg, HasSem, Opening, Gone, Freeing, KeepsSeg, KeepsUse
    <3>2. Entitled(p)'
      BY <1>1, <1>3, <2>1 DEF Entitled, Opening, Freeing
    <3>. QED  BY <3>1, <3>2 DEF Place
  <2>. QED  BY <1>2, <1>3, <2>1, <2>2, QuietStep DEF Creating, KeepsUse
<1>7. CASE SemMade(p)
  <2>1. /\ proc[p].pc = "semmade" /\ proc'[p].pc = "ready" /\ keyFile' = keyFile
        /\ KeepsSeg(p) /\ KeepsSem(p) /\ proc'[p].held = proc[p].held /\ proc'[p].call = "new"
    BY <1>1, <1>7, SemMadeDoes DEF Handle, Freeing
  <2>2. Place(p)'
    BY <1>1, <1>2, <2>1
       DEF Place, Handle, KeyFound, Entitled, HasSeg, HasSem, Opening, Gone, Freeing, KeepsSeg, KeepsSem
  <2>. QED  BY <1>2, <1>3, <2>1, <2>2, QuietStep DEF Creating
<1>. QED  BY <1>4, <1>5, <1>6, <1>7

LEMMA DiscSemGetExcl ==
  ASSUME Base, Disc, NEW p \in SysvProcs, SemGetExcl(p)
  PROVE  Disc'
<1>1. SysvTyped /\ Where(p) /\ Handle(p) /\ KeyFound(p) /\ Entitled(p) /\ SegsOne /\ SemsOne
  BY DEF Base, Disc, Objects, Place
<1>2. proc[p].pc = "semexcl" /\ proc[p].key = keyFile["sem"] /\ keyFile["sem"] # NoKey
  BY <1>1 DEF SemGetExcl, At, KeyFound
<1>3. Found(sems, proc[p].key) = NoKey => SemRoom
  BY <1>1, <1>2, FoundSem, DiscRoom
<1>4. /\ \A q \in SysvProcs : q # p => Idle(q)
  BY <1>2, WorkerAlone DEF Idle
<1>5. CASE AnySem
  <2>1. /\ UNCHANGED <<keyFile, sems, segs>> /\ Others(p) /\ KeepsSeg(p) /\ KeepsUse(p)
        /\ proc'[p].pc = "semget" /\ KeepsSem(p) /\ proc'[p].key = proc[p].key
    BY <1>1, <1>2, <1>3, <1>5, SemGetExclDoes, FoundSem DEF Common
  <2>2. Alone(p) => Alone(p)'
    BY <2>1 DEF Alone, At, Others
  <2>3. ASSUME AnySem' <=> AnySem PROVE Place(p)'
    <3>1. Handle(p)' /\ KeyFound(p)'
      BY <1>1, <1>2, <1>5, <2>1, <2>3
         DEF Handle, KeyFound, HasSeg, HasSem, Opening, Gone, Freeing, KeepsSeg, KeepsSem, KeepsUse
    <3>2. Entitled(p)'
      BY <1>1, <1>2, <1>5, <2>1, <2>2, <2>3 DEF Entitled, Opening, Freeing, KeepsUse
    <3>. QED  BY <3>1, <3>2 DEF Place
  <2>. QED  BY <1>2, <1>4, <1>5, <2>1, <2>3, QuietStep DEF KeepsUse
<1>6. CASE ~AnySem
  <2>1. /\ UNCHANGED <<keyFile, segs>> /\ Others(p) /\ KeepsSeg(p) /\ KeepsUse(p)
        /\ proc'[p].pc = "semset" /\ proc'[p].semCreated = TRUE
        /\ \E i \in Ids :
             /\ proc'[p].sem = i /\ sems'[i].live = TRUE /\ sems'[i].key = proc[p].key
             /\ \A q \in SysvProcs : sems'[i].undo[q] = 0
             /\ \A j \in Ids : j # i => sems'[j] = sems[j]
    BY <1>1, <1>2, <1>3, <1>6, SemGetExclDoes, FoundSem DEF Common
  <2>2. PICK i \in Ids :
             /\ proc'[p].sem = i /\ sems'[i].live = TRUE /\ sems'[i].key = proc[p].key
             /\ \A q \in SysvProcs : sems'[i].undo[q] = 0
             /\ \A j \in Ids : j # i => sems'[j] = sems[j]
    BY <2>1
  <2>3. SemsOne' /\ AnySem'
    BY <1>2, <1>6, <2>1, <2>2 DEF SemsOne, AnySem
  <2>4. SegsOne' /\ SegHasSem'
    BY <1>1, <2>1, <2>3, SegsQuiet DEF SegHasSem
  <2>5. \A q \in SysvProcs : q # p => proc[q].pc = "none"
    BY <1>1, <1>2, <1>6 DEF Entitled, Opening, Alone, At
  <2>6. \A q \in SysvProcs : proc'[q].held # TRUE
    BY <1>1, <1>2, <2>1, <2>5 DEF Others, KeepsUse, Disc, Place, Handle
  <2>7. Unit'
    BY <1>6, <2>1, <2>2, <2>6 DEF Unit, AnySem
  <2>8. Place(p)'
    <3>1. Handle(p)' /\ KeyFound(p)'
      BY <1>1, <1>2, <2>1, <2>2
         DEF Handle, KeyFound, HasSeg, HasSem, Opening, Gone, Freeing, KeepsSeg, KeepsUse
    <3>2. Entitled(p)'
      BY <2>1, <2>5 DEF Entitled, Opening, Freeing, Alone, At, Others
    <3>. QED  BY <3>1, <3>2 DEF Place
  <2>. QED  BY <1>4, <2>1, <2>3, <2>4, <2>5, <2>7, <2>8, WorkerStep DEF Objects
<1>. QED  BY <1>5, <1>6

LEMMA DiscSemSetVal ==
  ASSUME Base, Disc, NEW p \in SysvProcs, SemSetVal(p)
  PROVE  Disc'
<1>1. SysvTyped /\ Handle(p) /\ Entitled(p) /\ SegsOne /\ SemsOne /\ SegHasSem
  BY DEF Base, Disc, Objects, Place
<1>2. /\ proc[p].pc = "semset" /\ UNCHANGED <<keyFile, segs>> /\ Others(p)
      /\ KeepsSeg(p) /\ KeepsSem(p) /\ KeepsUse(p)
      /\ \A j \in Ids : sems'[j].live = sems[j].live /\ sems'[j].key = sems[j].key
      /\ proc[p].sem \in Ids /\ sems[proc[p].sem].live /\ proc'[p].pc = "semmade"
      /\ sems'[proc[p].sem].val = 1
      /\ \A q \in SysvProcs : sems'[proc[p].sem].undo[q] = 0
  BY <1>1, SemSetValDoes, SysvAssumption DEF Common, Handle, HasSem, SemLives, SemOf
<1>3. \A q \in SysvProcs : q # p => proc[q].pc = "none"
  BY <1>1, <1>2 DEF Entitled, Alone, At
<1>4. \A q \in SysvProcs : proc'[q].held = FALSE
  BY <1>1, <1>2, <1>3 DEF Others, KeepsUse, Disc, Place, Handle, SysvTyped, ProcType
<1>5. SegsOne' /\ SemsOne' /\ AnySem'
  BY <1>1, <1>2, SegsQuiet, SemsQuiet DEF AnySem
<1>6. Unit'
  BY <1>1, <1>2, <1>4 DEF Unit, Balanced, SemsOne
<1>7. Place(p)'
  BY <1>1, <1>2 DEF Place, Handle, KeyFound, Entitled, HasSeg, HasSem, Opening, Gone, Freeing,
                    KeepsSeg, KeepsSem, KeepsUse
<1>8. \A q \in SysvProcs : q # p => Idle(q)
  BY <1>3 DEF Idle
<1>. QED  BY <1>2, <1>3, <1>5, <1>6, <1>7, <1>8, WorkerStep DEF Objects, SegHasSem

LEMMA DiscFree ==
  ASSUME usage = "disciplined", Base, Disc, NEW p \in SysvProcs,
         SysvFree(p) \/ ShmDetach(p) \/ ShmCtlStat(p) \/ ShmUnlink(p)
  PROVE  Disc'
<1>1. /\ SysvTyped /\ Where(p) /\ Handle(p) /\ Entitled(p) /\ SegsOne /\ SemsOne
      /\ AttachedExact /\ \A q \in SysvProcs : Where(q)
  BY DEF Base, Disc, Objects, Place
<1>2. /\ proc[p].pc \in {"ready", "shmdt", "shmstat", "shmunlink"} /\ Others(p) /\ sems' = sems
  BY <1>1, SysvFreeDoes, ShmDetachDoes, ShmStatDoes, ShmUnlinkDoes DEF Common
<1>3. Alone(p) => Alone(p)'
  BY <1>2 DEF Alone, At, Others
<1>4. CASE SysvFree(p)
  <2>1. /\ proc[p].pc = "ready" /\ UNCHANGED <<keyFile, segs>>
        /\ \A q \in SysvProcs : q # p => Idle(q)
        /\ Owner(p) => Alone(p)
        /\ KeepsSeg(p) /\ KeepsSem(p) /\ proc'[p].shmFile = proc[p].shmFile
        /\ proc'[p].held = proc[p].held /\ proc[p].held = FALSE
        /\ proc'[p].pc = "shmdt" /\ proc'[p].call = "free"
    BY <1>1, <1>4, SysvFreeDoes DEF Common, MayBegin, SysvTyped, ProcType
  <2>2. Handle(p)' /\ KeyFound(p)'
    BY <1>1, <1>2, <2>1
       DEF Handle, KeyFound, HasSeg, HasSem, Opening, Gone, Freeing, KeepsSeg, KeepsSem, Where, With
  <2>3. Entitled(p)'
    BY <1>3, <2>1 DEF Entitled, Opening, Freeing, Owner, KeepsSem
  <2>. QED  BY <1>2, <2>1, <2>2, <2>3, QuietStep DEF Creating, Place
<1>5. CASE ShmDetach(p)
  <2>1. /\ proc[p].pc = "shmdt" /\ keyFile' = keyFile
        /\ KeepsSeg(p) /\ KeepsSem(p) /\ KeepsUse(p) /\ proc'[p].shmFile = proc[p].shmFile
        /\ proc'[p].pc = "shmstat"
        /\ \A j \in Ids : IF j = proc[p].seg THEN DetachedFrom(p, j) ELSE segs'[j] = segs[j]
    BY <1>1, <1>5, ShmDetachDoes
  <2>2. proc[p].seg \in Ids /\ segs[proc[p].seg].live /\ segs[proc[p].seg].key # NoKey
    BY <1>1, <2>1 DEF Handle, HasSeg, SegsOne
  <2>3. \A j \in Ids : segs'[j].live = segs[j].live /\ segs'[j].key = segs[j].key
    BY <2>1, <2>2 DEF DetachedFrom
  <2>4. \A q \in SysvProcs : q # p => Idle(q)
    BY <2>1, WorkerAlone DEF Idle
  <2>5. Handle(p)' /\ KeyFound(p)'
    BY <1>1, <1>2, <2>1, <2>3
       DEF Handle, KeyFound, HasSeg, HasSem, Opening, Gone, Freeing, KeepsSeg, KeepsSem, KeepsUse
  <2>6. Entitled(p)'
    BY <1>1, <1>3, <2>1 DEF Entitled, Opening, Freeing, Owner, KeepsSem
  <2>. QED  BY <1>2, <2>1, <2>3, <2>4, <2>5, <2>6, QuietStep DEF Creating, Place, KeepsUse
<1>6. CASE ShmCtlStat(p)
  <2>1. /\ proc[p].pc = "shmstat" /\ UNCHANGED <<keyFile, segs>>
        /\ KeepsSeg(p) /\ KeepsSem(p) /\ KeepsUse(p) /\ proc'[p].shmFile = proc[p].shmFile
        /\ proc'[p].pc \in {"shmrmid", "shmunlink"}
        /\ proc[p].seg \in Ids /\ segs[proc[p].seg].live
        /\ proc'[p].pc = "shmrmid" <=> segs[proc[p].seg].attached = {}
    BY <1>1, <1>6, ShmStatDoes, SysvAssumption DEF Handle, HasSeg, SegLives, SegOf
  <2>2. \A q \in SysvProcs : q # p => Idle(q)
    BY <2>1, WorkerAlone DEF Idle
  <2>3. Owner(p) => segs[proc[p].seg].attached = {}
    <3>. SUFFICES ASSUME Alone(p) PROVE segs[proc[p].seg].attached = {}
      BY <1>1, <2>1 DEF Entitled, Freeing
    <3>1. \A q \in SysvProcs : q # p => proc[q].addr = FALSE
      BY <1>1 DEF Alone, At, Where, Without, Early
    <3>2. segs[proc[p].seg].attached \subseteq SysvProcs
      BY <1>1, <2>1 DEF SysvTyped, SegType
    <3>. QED  BY <1>1, <2>1, <3>1, <3>2 DEF AttachedExact, IsAttached, Gone
  <2>4. Handle(p)' /\ KeyFound(p)'
    BY <1>1, <1>2, <2>1
       DEF Handle, KeyFound, HasSeg, HasSem, Opening, Gone, Freeing, KeepsSeg, KeepsSem, KeepsUse
  <2>5. Entitled(p)'
    BY <1>1, <1>3, <2>1, <2>3 DEF Entitled, Opening, Freeing, Owner, KeepsSem, KeepsSeg
  <2>. QED  BY <1>2, <2>1, <2>2, <2>4, <2>5, QuietStep DEF Creating, Place, KeepsUse
<1>7. CASE ShmUnlink(p)
  <2>1. /\ proc[p].pc = "shmunlink" /\ segs' = segs
        /\ keyFile'["sem"] = keyFile["sem"]
        /\ keyFile'["shm"] = IF proc[p].shmFile THEN NoKey ELSE keyFile["shm"]
        /\ proc'[p].shmFile = FALSE
        /\ KeepsSem(p) /\ KeepsUse(p) /\ proc'[p].pc = "semrmid"
    BY <1>1, <1>7, ShmUnlinkDoes DEF Handle, Gone, Freeing
  <2>2. \A q \in SysvProcs : q # p => Idle(q)
    BY <2>1, WorkerAlone DEF Idle
  <2>3. AnySeg => keyFile'["shm"] = keyFile["shm"]
    BY <1>1, <2>1 DEF Entitled, Owner
  <2>4. ASSUME AnySeg' <=> AnySeg PROVE Place(p)'
    <3>1. Handle(p)' /\ KeyFound(p)'
      BY <1>1, <1>2, <2>1
         DEF Handle, KeyFound, HasSeg, HasSem, Opening, Gone, Freeing, KeepsSem, KeepsUse
    <3>2. Entitled(p)'
      BY <1>1, <1>3, <2>1, <2>4 DEF Entitled, Opening, Freeing, Owner, KeepsSem
    <3>. QED  BY <3>1, <3>2 DEF Place
  <2>. QED  BY <1>2, <2>1, <2>2, <2>3, <2>4, QuietStep DEF Creating, KeepsUse
<1>. QED  BY <1>4, <1>5, <1>6, <1>7

LEMMA DiscShmRemove ==
  ASSUME Base, Disc, NEW p \in SysvProcs, ShmRemove(p)
  PROVE  Disc'
<1>1. /\ SysvTyped /\ Handle(p) /\ Entitled(p) /\ SegsOne /\ SemsOne /\ Unit
      /\ AttachedExact /\ \A q \in SysvProcs : Where(q)
  BY DEF Base, Disc, Objects, Place
<1>2. proc[p].pc = "shmrmid" /\ proc[p].seg \in Ids /\ segs[proc[p].seg].live /\ SegLives(p)
  BY <1>1, ShmRemoveDoes, SysvAssumption DEF Handle, HasSeg, SegLives, SegOf
<1>3. /\ UNCHANGED <<keyFile, sems>> /\ Others(p)
      /\ KeepsSeg(p) /\ KeepsSem(p) /\ KeepsUse(p) /\ proc'[p].shmFile = proc[p].shmFile
      /\ proc'[p].pc = "shmunlink"
      /\ \A j \in Ids : j # proc[p].seg => segs'[j] = segs[j]
      /\ segs'[proc[p].seg].live = FALSE
  BY <1>1, <1>2, ShmRemoveDoes DEF Common, Entitled
<1>4. ~AnySeg'
  BY <1>1, <1>2, <1>3 DEF AnySeg, SegsOne
<1>5. \A q \in SysvProcs : q # p => Idle(q) /\ proc[q].pc # "semset"
  BY <1>2, WorkerAlone DEF Idle
<1>6. \A q \in SysvProcs : q # p => proc[q].pc # "ready"
  <2>. SUFFICES ASSUME NEW q \in SysvProcs, proc[q].pc = "ready" PROVE FALSE
    OBVIOUS
  <2>1. proc[q].seg \in Ids /\ segs[proc[q].seg].live
    BY DEF Disc, Place, Handle, HasSeg
  <2>2. IsAttached(q, proc[p].seg)
    BY <1>1, <1>2, <2>1 DEF SegsOne, IsAttached, Where, With, Gone
  <2>. QED  BY <1>1, <1>2, <2>2 DEF AttachedExact, Entitled
<1>7. SegsOne' /\ SegHasSem'
  BY <1>4 DEF SegsOne, SegHasSem, AnySeg
<1>8. SemsOne' /\ Unit'
  BY <1>1, <1>2, <1>3, <1>5, SemsQuiet, UnitQuiet DEF KeepsUse
<1>9. Place(p)'
  <2>1. Handle(p)' /\ KeyFound(p)'
    BY <1>1, <1>2, <1>3
       DEF Handle, KeyFound, HasSeg, HasSem, Opening, Gone, Freeing, KeepsSeg, KeepsSem, KeepsUse
  <2>2. Alone(p) => Alone(p)'
    BY <1>3 DEF Alone, At, Others
  <2>3. Entitled(p)'
    BY <1>1, <1>2, <1>3, <1>4, <2>2 DEF Entitled, Opening, Freeing, Owner, KeepsSem
  <2>. QED  BY <2>1, <2>3 DEF Place
<1>. QED  BY <1>3, <1>5, <1>6, <1>7, <1>8, <1>9, WorkerStep DEF Objects

LEMMA DiscSemRemove ==
  ASSUME Base, Disc, NEW p \in SysvProcs, SemRemove(p)
  PROVE  Disc'
<1>1. SysvTyped /\ Handle(p) /\ Entitled(p) /\ SegsOne /\ SemsOne
  BY DEF Base, Disc, Objects, Place
<1>2. /\ proc[p].pc = "semrmid" /\ UNCHANGED <<keyFile, segs>> /\ Others(p)
      /\ KeepsSem(p) /\ KeepsUse(p) /\ proc'[p].pc = "semunlink"
      /\ proc'[p].shmFile = proc[p].shmFile
      /\ proc[p].sem \in Ids /\ sems[proc[p].sem].live /\ SemLives(p)
  BY <1>1, SemRemoveDoes, SysvAssumption DEF Common, Handle, HasSem, SemLives, SemOf
<1>3. \A q \in SysvProcs : q # p => Idle(q)
  BY <1>2, WorkerAlone DEF Idle
<1>4. Alone(p) => Alone(p)'
  BY <1>2 DEF Alone, At, Others
<1>5. Handle(p)' /\ KeyFound(p)'
  BY <1>1, <1>2
     DEF Handle, KeyFound, HasSeg, HasSem, Opening, Gone, Freeing, KeepsSem, KeepsUse
<1>6. CASE proc[p].semCreated = TRUE
  <2>1. sems'[proc[p].sem].live = FALSE /\ \A j \in Ids : j # proc[p].sem => sems'[j] = sems[j]
    BY <1>1, <1>2, <1>6, SemRemoveDoes
  <2>2. ~AnySem'
    BY <1>1, <1>2, <2>1 DEF AnySem, SemsOne
  <2>3. ~AnySeg /\ \A q \in SysvProcs : q # p => proc[q].pc = "none"
    BY <1>1, <1>2, <1>6 DEF Entitled, Owner, Freeing, Alone, At
  <2>4. SegsOne' /\ ~AnySeg'
    BY <1>1, <1>2, <2>3, SegsQuiet
  <2>5. SemsOne' /\ Unit' /\ SegHasSem'
    BY <2>2, <2>4 DEF SemsOne, Unit, SegHasSem, AnySem
  <2>6. Entitled(p)'
    BY <1>1, <1>2, <1>4, <2>2, <2>4 DEF Entitled, Opening, Freeing, Owner, KeepsSem
  <2>. QED  BY <1>2, <1>3, <1>5, <2>3, <2>4, <2>5, <2>6, WorkerStep DEF Objects, Place
<1>7. CASE proc[p].semCreated # TRUE
  <2>1. proc[p].semCreated = FALSE /\ sems' = sems /\ proc[p].semFile # TRUE
    BY <1>1, <1>2, <1>7, SemRemoveDoes DEF SysvTyped, ProcType, Handle
  <2>2. ASSUME AnySeg' <=> AnySeg PROVE Entitled(p)'
    BY <1>1, <1>2, <1>4, <2>1, <2>2 DEF Entitled, Opening, Freeing, Owner, KeepsSem
  <2>. QED  BY <1>2, <1>3, <1>5, <2>1, <2>2, QuietStep DEF Creating, Place, KeepsUse
<1>. QED  BY <1>6, <1>7

LEMMA DiscSemUnlink ==
  ASSUME Base, Disc, NEW p \in SysvProcs, SemUnlink(p)
  PROVE  Disc'
<1>1. SysvTyped /\ Handle(p) /\ Entitled(p)
  BY DEF Base, Disc, Place
<1>2. /\ proc[p].pc = "semunlink" /\ UNCHANGED <<segs, sems>> /\ Others(p)
      /\ keyFile'["shm"] = keyFile["shm"]
      /\ keyFile'["sem"] = IF proc[p].semFile THEN NoKey ELSE keyFile["sem"]
      /\ proc'[p] = NoProc
  BY <1>1, SemUnlinkDoes DEF Common, Handle, Freeing
<1>3. AnySem => keyFile'["sem"] = keyFile["sem"]
  BY <1>1, <1>2 DEF Entitled, SysvTyped, ProcType
<1>4. \A q \in SysvProcs : q # p => Idle(q)
  BY <1>2, WorkerAlone DEF Idle
<1>5. proc[p].held = FALSE /\ proc'[p].held = FALSE
  BY <1>1, <1>2, NoneTyped DEF Handle, SysvTyped, ProcType
<1>6. Place(p)'
  BY <1>2, NoneTyped
     DEF Place, Handle, KeyFound, Entitled, HasSeg, HasSem, Opening, Gone, Freeing
<1>. QED  BY <1>2, <1>3, <1>4, <1>5, <1>6, QuietStep DEF Creating

(* A step of a process that has the name open and is in no such call.       *)
LEMMA MemberStep ==
  ASSUME Disc, NEW p \in SysvProcs, Others(p), proc[p].pc = "ready",
         proc'[p].pc \in {"ready", "none"}, keyFile' = keyFile,
         \A j \in Ids : segs'[j].live = segs[j].live /\ segs'[j].key = segs[j].key,
         \A j \in Ids : segs'[j].attached \subseteq segs[j].attached,
         \A j \in Ids : sems'[j].live = sems[j].live /\ sems'[j].key = sems[j].key,
         Place(p)', Unit'
  PROVE  Disc'
<1>1. OneWorker'
  BY DEF Disc, OneWorker, Idle, Others
<1>2. SegsOne' /\ SemsOne' /\ (AnySeg' <=> AnySeg) /\ (AnySem' <=> AnySem)
  BY SegsQuiet, SemsQuiet DEF Disc, Objects
<1>3. \A q \in SysvProcs : Creating(q) => Creating(q)'
  BY DEF Creating, Others
<1>4. SegHasSem'
  BY <1>2, <1>3 DEF Disc, Objects, SegHasSem
<1>5. ASSUME NEW q \in SysvProcs, q # p PROVE Place(q)'
  <2>1. proc'[q] = proc[q] /\ Handle(q) /\ KeyFound(q) /\ Entitled(q) /\ ~Alone(q)
    BY <1>5 DEF Others, Disc, Place, Alone, At
  <2>2. Handle(q)'
    BY <1>2, <2>1 DEF Handle
  <2>3. KeyFound(q)'
    BY <1>2, <2>1 DEF KeyFound
  <2>4. proc[q].pc = "shmrmid" => segs'[proc[q].seg].attached = {}
    BY <2>1 DEF Handle, HasSeg, Entitled
  <2>5. Owner(q)' <=> Owner(q)
    BY <2>1 DEF Owner
  <2>6. Entitled(q)'
    BY <1>2, <2>1, <2>4, <2>5 DEF Entitled
  <2>. QED  BY <2>2, <2>3, <2>6 DEF Place
<1>. QED  BY <1>1, <1>2, <1>4, <1>5 DEF Disc, Objects

(* While a process has the name open, no semaphore is being initialised.    *)
LEMMA UnitKnown ==
  ASSUME Disc, NEW p \in SysvProcs, proc[p].pc = "ready"
  PROVE  \A i \in Ids : sems[i].live => Balanced(i)
<1>1. \A q \in SysvProcs : proc[q].pc # "semset"
  BY DEF Disc, Place, Entitled, Alone, At
<1>. QED  BY <1>1 DEF Disc, Objects, Unit

LEMMA DiscUse ==
  ASSUME Base, Disc, NEW p \in SysvProcs, SysvLock(p) \/ SysvUnlock(p)
  PROVE  Disc'
<1>1. SysvTyped /\ Handle(p) /\ Unit /\ SemsOne
  BY DEF Base, Disc, Objects, Place
<1>2. proc[p].pc = "ready" /\ keyFile' = keyFile /\ segs' = segs /\ Others(p) /\ KeepsSeg(p) /\ KeepsSem(p)
  BY <1>1, SysvLockDoes, SysvUnlockDoes DEF Common
<1>3. proc[p].sem \in Ids /\ sems[proc[p].sem].live /\ SemLives(p) /\ proc[p].call = "new"
  BY <1>1, <1>2, SysvAssumption DEF Handle, HasSem, Freeing, SemLives, SemOf
<1>4. proc'[p].pc = "ready" /\ proc'[p].call = "new"
  BY <1>1, <1>3, SysvLockDoes, SysvUnlockDoes
<1>5. \A j \in Ids : sems'[j].live = sems[j].live /\ sems'[j].key = sems[j].key
  BY <1>1, <1>3, SysvLockDoes, SysvUnlockDoes DEF Counted
<1>6. Place(p)'
  BY <1>1, <1>2, <1>4, <1>5
     DEF Place, Handle, KeyFound, Entitled, HasSeg, HasSem, Opening, Gone, Freeing, KeepsSeg, KeepsSem
<1>7. PICK i \in Ids : i = proc[p].sem
  BY <1>3
<1>8. \A j \in Ids : sems'[j].live => j = i
  BY <1>1, <1>3, <1>5, <1>7 DEF SemsOne
<1>9. /\ Balanced(i) /\ sems[i].val \in Int /\ \A q \in SysvProcs : sems[i].undo[q] \in Int
      /\ \A q \in SysvProcs : sems[i].undo[q] = IF proc[q].held = TRUE THEN 1 ELSE 0
  BY <1>1, <1>2, <1>3, <1>7, UnitKnown DEF Unit, SysvTyped, SemType
<1>10. \A q \in SysvProcs : proc[q].held \in BOOLEAN
  BY <1>1 DEF SysvTyped, ProcType
<1>11. CASE SysvLock(p)
  <2>0. ~proc[p].held /\ proc'[p].held = TRUE /\ sems[i].val > 0 /\ Counted(p, -1)
    BY <1>1, <1>3, <1>7, <1>11, SysvLockDoes
  <2>1. /\ proc[p].held = FALSE /\ proc'[p].held = TRUE /\ sems[i].val > 0
        /\ sems'[i].val = sems[i].val + (-1) /\ sems'[i].undo[p] = sems[i].undo[p] - (-1)
        /\ \A q \in SysvProcs : q # p => sems'[i].undo[q] = sems[i].undo[q]
    BY <1>7, <1>10, <2>0 DEF Counted
  <2>2. sems[i].val = 1 /\ \A q \in SysvProcs : proc[q].held = FALSE
    BY <1>9, <2>1 DEF Balanced
  <2>3. sems'[i].val = 0 /\ sems'[i].undo[p] = 1 /\ \A q \in SysvProcs : q # p => sems'[i].undo[q] = 0
    BY <1>9, <2>1, <2>2
  <2>4. \A q \in SysvProcs : q # p => proc'[q].held = FALSE
    BY <1>2, <2>2 DEF Others
  <2>5. Balanced(i)'
    BY <2>1, <2>3, <2>4 DEF Balanced
  <2>6. Unit'
    BY <1>8, <2>1, <2>3, <2>4, <2>5 DEF Unit
  <2>. QED  BY <1>2, <1>4, <1>5, <1>6, <2>6, MemberStep
<1>12. CASE SysvUnlock(p)
  <2>0. proc[p].held /\ proc'[p].held = FALSE /\ Counted(p, 1)
    BY <1>1, <1>3, <1>12, SysvUnlockDoes
  <2>1. /\ proc[p].held = TRUE /\ proc'[p].held = FALSE
        /\ sems'[i].val = sems[i].val + 1 /\ sems'[i].undo[p] = sems[i].undo[p] - 1
        /\ \A q \in SysvProcs : q # p => sems'[i].undo[q] = sems[i].undo[q]
    BY <1>7, <1>10, <2>0 DEF Counted
  <2>2. sems[i].val = 0 /\ \A q \in SysvProcs : q # p => proc[q].held # TRUE
    BY <1>9, <2>1 DEF Balanced
  <2>3. \A q \in SysvProcs : proc'[q].held = FALSE
    BY <1>2, <1>10, <2>1, <2>2 DEF Others
  <2>4. sems'[i].val = 1 /\ sems'[i].undo[p] = 0 /\ \A q \in SysvProcs : q # p => sems'[i].undo[q] = 0
    <3>1. sems[i].undo[p] = 1 /\ \A q \in SysvProcs : q # p => sems[i].undo[q] = 0
      BY <1>9, <2>1, <2>2
    <3>. QED  BY <2>1, <2>2, <3>1
  <2>5. Balanced(i)'
    BY <2>3, <2>4 DEF Balanced
  <2>6. Unit'
    BY <1>8, <2>3, <2>4, <2>5 DEF Unit
  <2>. QED  BY <1>2, <1>4, <1>5, <1>6, <2>6, MemberStep
<1>. QED  BY <1>11, <1>12

LEMMA DiscTakeOwnership ==
  ASSUME Base, Disc, NEW p \in SysvProcs, SysvTakeOwnership(p)
  PROVE  Disc'
<1>1. SysvTyped /\ Handle(p) /\ Unit
  BY DEF Base, Disc, Objects, Place
<1>2. /\ proc[p].pc = "ready" /\ UNCHANGED <<keyFile, segs, sems>> /\ Others(p)
      /\ KeepsSeg(p) /\ KeepsUse(p) /\ proc'[p].pc = "ready"
      /\ proc'[p].sem = proc[p].sem /\ proc'[p].semCreated = TRUE
  BY <1>1, SysvTakeOwnershipDoes DEF Common
<1>3. Place(p)'
  BY <1>1, <1>2
     DEF Place, Handle, KeyFound, Entitled, HasSeg, HasSem, Opening, Gone, Freeing, KeepsSeg, KeepsUse
<1>4. \A q \in SysvProcs : proc[q].pc # "semset"
  BY <1>2 DEF Disc, Place, Entitled, Alone, At
<1>5. Unit'
  BY <1>1, <1>2, <1>4, UnitQuiet DEF KeepsUse
<1>. QED  BY <1>2, <1>3, <1>5, MemberStep

LEMMA DiscCrash ==
  ASSUME Base, Disc, NEW p \in SysvProcs, SysvCrash(p)
  PROVE  Disc'
<1>1. SysvTyped /\ Handle(p) /\ Unit /\ SegsOne /\ SemsOne /\ DeadEmpty
  BY DEF Base, Disc, Objects, Place
<1>2. /\ proc[p].pc = "ready" /\ keyFile' = keyFile /\ Others(p) /\ proc'[p] = NoProc
      /\ \A j \in Ids : IF p \in segs[j].attached THEN DetachedFrom(p, j) ELSE segs'[j] = segs[j]
      /\ \A j \in Ids : /\ sems'[j].live = sems[j].live /\ sems'[j].key = sems[j].key
                        /\ sems'[j].val = sems[j].val + sems[j].undo[p]
                        /\ sems'[j].undo[p] = 0
                        /\ \A q \in SysvProcs : q # p => sems'[j].undo[q] = sems[j].undo[q]
  BY <1>1, SysvCrashDoes DEF Common
<1>3. \A j \in Ids : /\ segs'[j].live = segs[j].live /\ segs'[j].key = segs[j].key
                     /\ segs'[j].attached \subseteq segs[j].attached
  <2>. SUFFICES ASSUME NEW j \in Ids
                PROVE  /\ segs'[j].live = segs[j].live /\ segs'[j].key = segs[j].key
                       /\ segs'[j].attached \subseteq segs[j].attached
    OBVIOUS
  <2>1. p \in segs[j].attached => segs[j].live /\ segs[j].key # NoKey
    BY <1>1 DEF DeadEmpty, SegsOne, SysvTyped, SegType
  <2>. QED  BY <1>2, <2>1 DEF DetachedFrom
<1>4. Place(p)'
  BY <1>2, NoneTyped
     DEF Place, Handle, KeyFound, Entitled, HasSeg, HasSem, Opening, Gone, Freeing
<1>5. proc'[p].held = FALSE /\ proc'[p].pc = "none"
  BY <1>2, NoneTyped
<1>6. ASSUME NEW i \in Ids, sems'[i].live
      PROVE  /\ \A q \in SysvProcs : sems'[i].undo[q] = IF proc'[q].held = TRUE THEN 1 ELSE 0
             /\ Balanced(i)'
  <2>1. Balanced(i) /\ \A q \in SysvProcs : sems[i].undo[q] = IF proc[q].held = TRUE THEN 1 ELSE 0
    BY <1>1, <1>2, <1>6, UnitKnown DEF Unit
  <2>2. \A q \in SysvProcs : sems'[i].undo[q] = IF proc'[q].held = TRUE THEN 1 ELSE 0
    BY <1>2, <1>5, <2>1 DEF Others
  <2>3. CASE proc[p].held = TRUE
    <3>1. sems[i].val = 0 /\ \A q \in SysvProcs : q # p => proc[q].held # TRUE
      BY <2>1, <2>3 DEF Balanced
    <3>2. sems'[i].val = 1
      BY <1>2, <2>1, <2>3, <3>1
    <3>3. \A q \in SysvProcs : proc[q].held \in BOOLEAN
      BY <1>1 DEF SysvTyped, ProcType
    <3>4. \A q \in SysvProcs : proc'[q].held = FALSE
      BY <1>2, <1>5, <3>1, <3>3 DEF Others
    <3>. QED  BY <2>2, <3>2, <3>4 DEF Balanced
  <2>4. CASE proc[p].held # TRUE
    <3>1. proc[p].held = FALSE /\ sems[i].val \in Int
      BY <1>1, <2>4 DEF SysvTyped, ProcType, SemType
    <3>2. sems'[i].val = sems[i].val
      BY <1>2, <2>1, <2>4, <3>1
    <3>3. \A q \in SysvProcs : proc'[q].held = proc[q].held
      BY <1>2, <1>5, <3>1 DEF Others
    <3>. QED  BY <2>1, <2>2, <3>2, <3>3 DEF Balanced
  <2>. QED  BY <2>3, <2>4
<1>7. Unit'
  BY <1>6 DEF Unit
<1>. QED  BY <1>2, <1>3, <1>4, <1>5, <1>7, MemberStep

LEMMA DiscGetRoom ==
  ASSUME Base, Disc, NEW p \in SysvProcs
  PROVE  /\ ShmGetExcl(p) /\ Found(segs, proc[p].key) = NoKey => SegRoom
         /\ SemGetExcl(p) /\ Found(sems, proc[p].key) = NoKey => SemRoom
<1>1. SysvTyped /\ KeyFound(p) /\ SegsOne /\ SemsOne
  BY DEF Base, Disc, Objects, Place
<1>2. ASSUME ShmGetExcl(p), Found(segs, proc[p].key) = NoKey PROVE SegRoom
  BY <1>1, <1>2, FoundSeg, DiscRoom DEF ShmGetExcl, At, KeyFound
<1>3. ASSUME SemGetExcl(p), Found(sems, proc[p].key) = NoKey PROVE SemRoom
  BY <1>1, <1>3, FoundSem, DiscRoom DEF SemGetExcl, At, KeyFound
<1>. QED  BY <1>2, <1>3

------------------------------------------------------------------------------
(* The inductive invariant.                                                 *)
SysvIInv == Base /\ Kept /\ (usage = "disciplined" => Disc)

LEMMA SysvStarts ==
  ASSUME SysvInit
  PROVE  SysvIInv
<1>1. /\ usage \in {"disciplined", "free"} /\ keyFile = [o \in {"shm", "sem"} |-> NoKey]
      /\ \A i \in Ids : segs[i] = NoSeg /\ sems[i] = NoSysvSem
      /\ \A p \in SysvProcs : proc[p] = NoProc
      /\ segs = [i \in Ids |-> NoSeg] /\ sems = [i \in Ids |-> NoSysvSem] /\ proc = [p \in SysvProcs |-> NoProc]
  BY SysvAssumption DEF SysvInit
<1>2. SysvTyped
  BY <1>1, NoneTyped DEF SysvTyped, Keys
<1>3. /\ \A i \in Ids : segs[i].live = FALSE /\ segs[i].attached = {} /\ sems[i].live = FALSE
      /\ \A p \in SysvProcs :
           /\ proc[p].pc = "none" /\ proc[p].call = "new" /\ proc[p].seg = NoKey /\ proc[p].addr = FALSE
           /\ proc[p].sem = NoKey /\ proc[p].semCreated = FALSE /\ proc[p].semFile = FALSE
           /\ proc[p].shmFile = FALSE /\ proc[p].held = FALSE
  BY <1>1, NoneTyped
<1>. HIDE DEF SysvInit
<1>4. AttachedExact /\ DeadEmpty
  BY <1>3 DEF AttachedExact, DeadEmpty, IsAttached
<1>5. \A q \in SysvProcs : Where(q)
  BY <1>3 DEF Where, Without, With, Early, Opening, Gone, Cleaning
<1>6. Kept
  BY <1>3 DEF Kept, SegKept, SemKept
<1>7. Objects
  BY <1>3 DEF Objects, SegsOne, SemsOne, SegHasSem, AnySeg, Unit
<1>8. OneWorker
  BY <1>3 DEF OneWorker, Idle
<1>9. \A p \in SysvProcs : Place(p)
  BY <1>3 DEF Place, Handle, KeyFound, Entitled, HasSeg, HasSem, Opening, Gone, Freeing
<1>. QED  BY <1>2, <1>4, <1>5, <1>6, <1>7, <1>8, <1>9 DEF SysvIInv, Base, Disc

(* How the actions are grouped in the lemmas above.                         *)
Creates(p) == SysvNew(p) \/ ShmKeyFile(p) \/ ShmKey(p) \/ ShmGetExcl(p) \/ ShmGet(p) \/ ShmAttach(p)
MakesSem(p) ==
  \/ SemKeyFile(p) \/ SemKey(p) \/ SemGetExcl(p) \/ SemGet(p) \/ SemSetVal(p)
  \/ SemMade(p) \/ SemFailed(p) \/ SemRemove(p) \/ SemUnlink(p)
Uses(p) == SysvLock(p) \/ SysvRelock(p) \/ SysvUnlock(p) \/ SysvTakeOwnership(p)
Frees(p) == SysvFree(p) \/ ShmDetach(p) \/ ShmCtlStat(p) \/ ShmRemove(p) \/ ShmUnlink(p)
Steps(p) == Creates(p) \/ MakesSem(p) \/ Uses(p) \/ Frees(p) \/ SysvCrash(p)

LEMMA UsageKept ==
  ASSUME NEW p \in SysvProcs, Steps(p)
  PROVE  usage' = usage
<1>1. CASE Creates(p)
  BY <1>1 DEF Creates, SysvNew, ShmKeyFile, ShmKey, ShmGetExcl, ShmGet, ShmAttach
<1>2. CASE MakesSem(p)
  BY <1>2 DEF MakesSem, SemKeyFile, SemKey, SemGetExcl, SemGet, SemSetVal, SemMade, SemFailed,
              SemRemove, SemUnlink
<1>3. CASE Uses(p)
  BY <1>3 DEF Uses, SysvLock, SysvRelock, SysvUnlock, SysvTakeOwnership
<1>4. CASE Frees(p) \/ SysvCrash(p)
  BY <1>4 DEF Frees, SysvFree, ShmDetach, ShmCtlStat, ShmRemove, ShmUnlink, SysvCrash
<1>. QED  BY <1>1, <1>2, <1>3, <1>4 DEF Steps

LEMMA DiscKeeps ==
  ASSUME usage = "disciplined", Base, Disc, NEW p \in SysvProcs, Steps(p)
  PROVE  Disc'
<1>1. ~SemFailed(p) /\ ~SysvRelock(p)
  BY DEF Disc, Place, Handle, SemFailed, SysvRelock, At
<1>2. CASE Creates(p)
  BY <1>2, DiscCreate, DiscShmGetExcl DEF Creates
<1>3. CASE MakesSem(p)
  BY <1>1, <1>3, DiscSemOpen, DiscSemGetExcl, DiscSemSetVal, DiscSemRemove, DiscSemUnlink DEF MakesSem
<1>4. CASE Uses(p)
  BY <1>1, <1>4, DiscUse, DiscTakeOwnership DEF Uses
<1>5. CASE Frees(p)
  BY <1>5, DiscFree, DiscShmRemove DEF Frees
<1>6. CASE SysvCrash(p)
  BY <1>6, DiscCrash
<1>. QED  BY <1>2, <1>3, <1>4, <1>5, <1>6 DEF Steps

LEMMA SysvKeeps ==
  ASSUME SysvIInv, [SysvNext]_sysvVars
  PROVE  SysvIInv'
<1>1. CASE UNCHANGED sysvVars
  <2>1. /\ usage' = usage /\ keyFile' = keyFile /\ segs' = segs /\ sems' = sems /\ proc' = proc
    BY <1>1 DEF sysvVars
  <2>2. Base'
    BY <2>1 DEF SysvIInv, Base, SysvTyped, AttachedExact, IsAttached, DeadEmpty, Where, Without, With
  <2>3. Kept'
    BY <2>1 DEF SysvIInv, Kept, SegKept, SemKept, InHand, WillRemove
  <2>4. ASSUME Disc PROVE Disc'
    <3>1. Objects'
      BY <2>1, <2>4 DEF Disc, Objects, SegsOne, SemsOne, SegHasSem, AnySeg, AnySem, Creating, Unit, Balanced
    <3>2. OneWorker'
      BY <2>1, <2>4 DEF Disc, OneWorker, Idle
    <3>3. \A p \in SysvProcs : Place(p)'
      BY <2>1, <2>4 DEF Disc, Place, Handle, KeyFound, Entitled, AnySeg, AnySem, Alone, At, Owner
    <3>. QED  BY <3>1, <3>2, <3>3 DEF Disc
  <2>. QED  BY <2>1, <2>2, <2>3, <2>4 DEF SysvIInv
<1>2. CASE SysvNext
  <2>1. PICK p \in SysvProcs : Steps(p)
    BY <1>2 DEF SysvNext, Steps, Creates, MakesSem, Uses, Frees
  <2>2. Base /\ SysvTyped
    BY DEF SysvIInv, Base
  <2>3. usage' = usage
    BY <2>1, UsageKept
  <2>4. CASE usage = "disciplined"
    <3>1. Disc
      BY <2>4 DEF SysvIInv
    <3>2. /\ ShmGetExcl(p) /\ Found(segs, proc[p].key) = NoKey => SegRoom
          /\ SemGetExcl(p) /\ Found(sems, proc[p].key) = NoKey => SemRoom
      BY <2>2, <3>1, DiscGetRoom
    <3>3. Base'
      BY <2>1, <2>2, <3>2, BaseCreate, BaseSem, BaseUse, BaseFree DEF Steps, Creates, MakesSem, Uses, Frees
    <3>4. Disc'
      BY <2>1, <2>2, <2>4, <3>1, DiscKeeps
    <3>. QED  BY <2>3, <2>4, <3>3, <3>4 DEF SysvIInv, Kept
  <2>5. CASE usage = "free"
    <3>1. SegKept /\ SemKept /\ ~SysvCrash(p)
      BY <2>5 DEF SysvIInv, Kept, SysvCrash
    <3>2. SegRoom /\ SemRoom
      BY <2>2, <3>1, KeptRoom
    <3>3. Base'
      BY <2>1, <2>2, <3>2, BaseCreate, BaseSem, BaseUse, BaseFree DEF Steps, Creates, MakesSem, Uses, Frees
    <3>4. SegKept' /\ SemKept'
      BY <2>1, <2>2, <3>1, <3>2, KeptCreate, KeptSem, KeptUse, KeptFree
         DEF Steps, Creates, MakesSem, Uses, Frees
    <3>. QED  BY <2>3, <2>5, <3>3, <3>4 DEF SysvIInv, Kept
  <2>. QED  BY <2>2, <2>4, <2>5 DEF SysvTyped
<1>. QED  BY <1>1, <1>2

LEMMA SysvInvariant == SysvSpec => []SysvIInv
BY SysvStarts, SysvKeeps, PTL DEF SysvSpec

(* The lock of zshm_lock() excludes every other user of the segment while   *)
(* an owner frees last (zshm_free()), whoever is killed with the lock and   *)
(* however often the segment and its semaphore are made again: all live     *)
(* handles are on one semaphore, whose one unit at most one of them has.    *)
THEOREM SysvLockExcludes == SysvSpec => []SysvExcludes
<1>1. SysvIInv => SysvExcludes
  <2>. SUFFICES ASSUME SysvIInv, usage = "disciplined", NEW p \in SysvProcs, NEW q \in SysvProcs,
                       p # q, proc[p].held, proc[q].held
                PROVE  FALSE
    BY DEF SysvExcludes
  <2>1. Disc /\ SysvTyped
    BY DEF SysvIInv, Base
  <2>2. proc[p].held = TRUE /\ proc[q].held = TRUE
    BY <2>1 DEF SysvTyped, ProcType
  <2>3. proc[p].pc = "ready" /\ proc[p].sem \in Ids /\ sems[proc[p].sem].live
    BY <2>1, <2>2 DEF Disc, Place, Handle, HasSem
  <2>4. Balanced(proc[p].sem)
    BY <2>1, <2>3, UnitKnown
  <2>. QED  BY <2>2, <2>4 DEF Balanced
<1>. QED  BY <1>1, SysvInvariant, PTL

(* semop() with SEM_UNDO never loses the unit of a semaphore to a killed    *)
(* process: whenever no zshm_new() or zshm_free() is in progress the unit   *)
(* is in the semaphore or with exactly one process that has the lock.       *)
THEOREM SysvUnitKept == SysvSpec => []UnitNeverLost
<1>1. SysvIInv => UnitNeverLost
  <2>. SUFFICES ASSUME SysvIInv, usage = "disciplined", \A p \in SysvProcs : Idle(p),
                       NEW i \in Ids, sems[i].live
                PROVE  sems[i].val + Cardinality({p \in SysvProcs : proc[p].held /\ SemOf(p) = i}) = 1
    BY DEF UnitNeverLost
  <2>. DEFINE H == {p \in SysvProcs : proc[p].held /\ SemOf(p) = i}
  <2>1. Disc /\ SysvTyped
    BY DEF SysvIInv, Base
  <2>2. \A p \in SysvProcs : proc[p].pc # "semset"
    BY DEF Idle
  <2>3. Balanced(i)
    BY <2>1, <2>2 DEF Disc, Objects, Unit
  <2>4. \A p \in SysvProcs : proc[p].held \in BOOLEAN
    BY <2>1 DEF SysvTyped, ProcType
  <2>5. CASE sems[i].val = 1 /\ \A p \in SysvProcs : proc[p].held = FALSE
    <3>1. H = {}
      BY <2>5
    <3>. QED  BY <2>5, <3>1, FS_EmptySet
  <2>6. CASE sems[i].val = 0 /\ \E p \in SysvProcs :
               proc[p].held = TRUE /\ \A q \in SysvProcs : proc[q].held = TRUE => q = p
    <3>1. PICK p \in SysvProcs :
            proc[p].held = TRUE /\ \A q \in SysvProcs : proc[q].held = TRUE => q = p
      BY <2>6
    <3>2. proc[p].sem = i
      BY <2>1, <3>1 DEF Disc, Place, Handle, HasSem, Objects, SemsOne
    <3>3. H = {p}
      BY <2>4, <3>1, <3>2 DEF SemOf
    <3>4. Cardinality(H) = 1
      <4>1. Cardinality({p}) = 1
        BY FS_Singleton, Zenon
      <4>. QED  BY <3>3, <4>1
    <3>. HIDE DEF H
    <3>5. sems[i].val + Cardinality(H) = 1
      BY <2>6, <3>4
    <3>. QED  BY <3>5 DEF H
  <2>. QED  BY <2>3, <2>5, <2>6 DEF Balanced
<1>. QED  BY <1>1, SysvInvariant, PTL

(* However the calls of zshm_new(), zshm_lock(), zshm_take_ownership() and  *)
(* zshm_free() overlap, once every process has freed its handle the kernel  *)
(* keeps no segment and no semaphore: a segment is attached or in the hands *)
(* of a process that will still look whether it is, and a semaphore has a   *)
(* handle that will remove it.                                              *)
THEOREM SysvNothingLeft == SysvSpec => []NoKernelObjectLeft
<1>1. SysvIInv => NoKernelObjectLeft
  <2>. SUFFICES ASSUME SysvIInv, usage = "free", \A p \in SysvProcs : At(p, "none"), NEW i \in Ids
                PROVE  ~segs[i].live /\ ~sems[i].live
    BY DEF NoKernelObjectLeft
  <2>1. SegKept /\ SemKept /\ AttachedExact /\ SysvTyped /\ \A p \in SysvProcs : Where(p)
    BY DEF SysvIInv, Kept, Base
  <2>2. \A p \in SysvProcs : proc[p].pc = "none" /\ proc[p].addr = FALSE /\ proc[p].semCreated = FALSE
    BY <2>1 DEF At, Where, Without, Early
  <2>3. ~sems[i].live
    BY <2>1, <2>2 DEF SemKept, WillRemove
  <2>4. segs[i].attached = {}
    <3>1. segs[i].attached \subseteq SysvProcs
      BY <2>1 DEF SysvTyped, SegType
    <3>. QED  BY <2>1, <2>2, <3>1 DEF AttachedExact, IsAttached
  <2>5. ~segs[i].live
    BY <2>1, <2>2, <2>4 DEF SegKept, InHand
  <2>. QED  BY <2>3, <2>5
<1>. QED  BY <1>1, SysvInvariant, PTL
==============================================================================
