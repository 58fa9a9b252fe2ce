------------------------------ MODULE PAtomic ------------------------------
(***************************************************************************)
(* The atomic operations of patomic.h in the five builds of the library.   *)
(* Most operations are one instruction of the machine or one builtin of    *)
(* the compiler; the DEC C build makes xor, and old Windows compilers make *)
(* and, or and xor, of a loop around compare-and-exchange; where nothing   *)
(* else is at hand a mutex guards a plain read and a plain write.          *)
(***************************************************************************)
EXTENDS AtomicWord

CONSTANTS
  NoHolder,   \* "the mutex is free"
  Builds,     \* the builds that are run
  Arguments   \* the values callers pass

ASSUME BuildAssumption == /\ NoHolder \notin AtomicThreads
                          /\ Arguments \subseteq Words
                          /\ Builds \subseteq {"c11", "sync", "win", "win_old", "decc", "sim"}

VARIABLES
  build,   \* how the library was built, and whether the word is a pointer
  apc,     \* where each thread is in its operation
  call,    \* the operation and its arguments
  local,   \* the value read before an exchange or a store
  amutex   \* pzatomic_mutex

atomicVars == <<cell, got, build, apc, call, local, amutex>>

AtomicInit ==
  /\ WordInit
  /\ build \in Builds \X {"int", "pointer"}
  /\ apc = [t \in AtomicThreads |-> "idle"]
  /\ call = [t \in AtomicThreads |-> <<"get", 0, 0>>]
  /\ local = [t \in AtomicThreads |-> 0]
  /\ amutex = NoHolder

(* zatomic_pointer_*() has no inc and no dec_and_test.                      *)
Offered(o) == build[2] = "pointer" => o \notin {"inc", "dec_and_test"}

New(t) == Apply(call[t][1], local[t], call[t][2], call[t][3])
GoTo(t, where) == apc' = [apc EXCEPT ![t] = where]

(* The operation is over: its arguments and its local value are gone.       *)
Done(t) ==
  /\ call' = [call EXCEPT ![t] = <<"get", 0, 0>>]
  /\ local' = [local EXCEPT ![t] = 0]

(* The operation takes effect in one step.                                  *)
AtOnce(t, o, a, b) ==
  /\ apc[t] = "idle" /\ Offered(o)
  /\ cell' = Apply(o, cell, a, b)
  /\ got' = [got EXCEPT ![t] = cell]
  /\ UNCHANGED <<build, apc, call, local, amutex>>

C11Int(t, o, a, b) == build = <<"c11", "int">> /\ AtOnce(t, o, a, b)
C11Pointer(t, o, a, b) == build = <<"c11", "pointer">> /\ AtOnce(t, o, a, b)
SyncInt(t, o, a, b) == build = <<"sync", "int">> /\ AtOnce(t, o, a, b)
SyncPointer(t, o, a, b) == build = <<"sync", "pointer">> /\ AtOnce(t, o, a, b)

(* Operations an old compiler has no intrinsic for loop instead.            *)
Loops(o) ==
  \/ build[1] = "win_old" /\ o \in {"and", "or", "xor"}
  \/ build[1] = "decc" /\ o = "xor"

WinInt(t, o, a, b) ==
  build[1] \in {"win", "win_old"} /\ build[2] = "int" /\ ~Loops(o) /\ AtOnce(t, o, a, b)
WinPointer(t, o, a, b) ==
  build[1] \in {"win", "win_old"} /\ build[2] = "pointer" /\ ~Loops(o) /\ AtOnce(t, o, a, b)
DeccInt(t, o, a, b) == build = <<"decc", "int">> /\ ~Loops(o) /\ AtOnce(t, o, a, b)
DeccPointer(t, o, a, b) == build = <<"decc", "pointer">> /\ ~Loops(o) /\ AtOnce(t, o, a, b)

(* The loop: read the word, compute, exchange if it is still the same.      *)
LoopRead(t, o, a, b) ==
  /\ Loops(o) /\ apc[t] = "idle"
  /\ call' = [call EXCEPT ![t] = <<o, a, b>>]
  /\ local' = [local EXCEPT ![t] = cell]
  /\ GoTo(t, "exchange") /\ UNCHANGED <<cell, got, build, amutex>>

(* Mutant: the loop ends whether or not the word was still the same.        *)
LoopExchangeAlways(t) ==
  /\ apc[t] = "exchange"
  /\ cell' = New(t)
  /\ got' = [got EXCEPT ![t] = local[t]]
  /\ GoTo(t, "idle") /\ Done(t) /\ UNCHANGED <<build, amutex>>

LoopExchange(t) ==
  /\ apc[t] = "exchange"
  /\ IF cell = local[t]
       THEN /\ cell' = New(t)
            /\ got' = [got EXCEPT ![t] = local[t]]
            /\ GoTo(t, "idle") /\ Done(t)
       ELSE /\ local' = [local EXCEPT ![t] = cell]
            /\ UNCHANGED <<cell, got, apc, call>>
  /\ UNCHANGED <<build, amutex>>

(* The mutex of the simulated operations.                                   *)
SimLock(t, o, a, b) ==
  /\ build[1] = "sim" /\ Offered(o)
  /\ apc[t] = "idle" /\ amutex = NoHolder
  /\ amutex' = t
  /\ call' = [call EXCEPT ![t] = <<o, a, b>>]
  /\ GoTo(t, "read") /\ UNCHANGED <<cell, got, build, local>>

SimRead(t) ==
  /\ apc[t] = "read"
  /\ local' = [local EXCEPT ![t] = cell]
  /\ GoTo(t, "store") /\ UNCHANGED <<cell, got, build, call, amutex>>

SimStore(t) ==
  /\ apc[t] = "store"
  /\ cell' = New(t)
  /\ got' = [got EXCEPT ![t] = local[t]]
  /\ GoTo(t, "unlock") /\ Done(t) /\ UNCHANGED <<build, amutex>>

SimUnlock(t) ==
  /\ apc[t] = "unlock"
  /\ amutex' = NoHolder
  /\ GoTo(t, "idle") /\ UNCHANGED <<cell, got, build, call, local>>

AtomicNext ==
  \E t \in AtomicThreads :
    \/ \E o \in Operations, a, b \in Arguments :
         \/ C11Int(t, o, a, b) \/ C11Pointer(t, o, a, b)
         \/ SyncInt(t, o, a, b) \/ SyncPointer(t, o, a, b)
         \/ WinInt(t, o, a, b) \/ WinPointer(t, o, a, b)
         \/ DeccInt(t, o, a, b) \/ DeccPointer(t, o, a, b)
         \/ LoopRead(t, o, a, b) \/ SimLock(t, o, a, b)
    \/ LoopExchange(t) \/ SimRead(t) \/ SimStore(t) \/ SimUnlock(t)

AtomicSpec == AtomicInit /\ [][AtomicNext]_atomicVars

(* Whatever build and whatever the other threads do, each operation is one  *)
(* of AtomicWord: it takes effect at once and returns the value it replaced *)
(* (zatomic_int_xor() of the DEC C build and the mutex of patomic-sim.c are *)
(* the ones that take several steps).                                       *)
ImplementsAtomicWord == WordSpec
=============================================================================
