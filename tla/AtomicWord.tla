----------------------------- MODULE AtomicWord -----------------------------
(***************************************************************************)
(* What patomic.h promises: every operation on a word takes effect at one  *)
(* instant and returns the value the word had before it ("Think of this    *)
(* operation as an atomic version of { tmp = *atomic; *atomic += val;      *)
(* return tmp; }").  PAtomic is shown to implement it.                     *)
(***************************************************************************)
EXTENDS Integers

CONSTANTS
  AtomicThreads,  \* the threads
  WordBits        \* the width of the word

ASSUME WordAssumption == WordBits \in Nat

VARIABLES
  cell,  \* the word
  got    \* what each thread's last operation returned

WordValues == 2^WordBits
Words == 0 .. WordValues - 1

(* The bits that two words have in common.                                  *)
Common[x, y \in Nat] ==
  IF x = 0 THEN 0 ELSE 2 * Common[x \div 2, y \div 2] + (x % 2) * (y % 2)

Operations == {"get", "set", "inc", "dec_and_test", "compare_and_exchange",
               "add", "and", "or", "xor"}

(* The word after operation o with arguments a and b has found it old.      *)
Apply(o, old, a, b) ==
  CASE o = "get" -> old
    [] o = "set" -> a
    [] o = "inc" -> (old + 1) % WordValues
    [] o = "dec_and_test" -> (old + WordValues - 1) % WordValues
    [] o = "compare_and_exchange" -> IF old = a THEN b ELSE old
    [] o = "add" -> (old + a) % WordValues
    [] o = "and" -> Common[old, a]
    [] o = "or" -> old + a - Common[old, a]
    [] o = "xor" -> old + a - 2 * Common[old, a]

WordInit == cell = 0 /\ got = [t \in AtomicThreads |-> 0]

WordNext ==
  \E t \in AtomicThreads, o \in Operations, a, b \in Words :
    /\ cell' = Apply(o, cell, a, b)
    /\ got' = [got EXCEPT ![t] = cell]

WordSpec == WordInit /\ [][WordNext]_<<cell, got>>
=============================================================================
