----------------------------- MODULE PHashTable -----------------------------
(***************************************************************************)
(* The hash table of lib/phashtable.c, a fixed array of chains, and the    *)
(* list of lib/plist.c in which it returns keys and values.  A chain and a *)
(* list are the sequences of what their nodes hold.                        *)
(***************************************************************************)
EXTENDS Integers, Sequences, FiniteSets, SequencesExt

CONSTANTS Pointers,   \* the keys, as integers: the table compares addresses
          Values,
          TableSize,  \* P_HASH_TABLE_SIZE, 101 in the code
          MaxList     \* bound on the caller's list

ASSUME TableSizePositive == TableSize \in Nat \ {0} /\ Pointers \subseteq Int /\ MaxList \in Nat

VARIABLES table,   \* PHashTable.table: bucket -> chain of [key, value]
          list,    \* a list the caller keeps
          stored   \* the map the caller expects (no code has it)

hashVars == <<table, list, stored>>

Buckets == 0..TableSize - 1

\* pzhash_table_calc_hash(): the address as an integer, moved and reduced.
CalcHash(key) == (key + 37) % TableSize

\* zlist_append(), zlist_prepend(), zlist_remove() of the first equal item,
\* zlist_reverse().
ListAppend(l, data) == Append(l, data)
ListPrepend(l, data) == <<data>> \o l
ListRemove(l, data) ==
    IF Contains(l, data) THEN RemoveAt(l, SelectInSeq(l, LAMBDA x : x = data)) ELSE l
ListReverse(l) == Reverse(l)

\* The position of a key in its chain, 0 when it is not there.
FindNode(key) == SelectInSeq(table[CalcHash(key)], LAMBDA e : e.key = key)

HashLookup(key) ==
    IF FindNode(key) = 0 THEN -1 ELSE table[CalcHash(key)][FindNode(key)].value

\* The chains, one bucket after the other, as a list of what f takes from a node.
Collect(f(_), keep(_)) ==
    LET kept(b) == SelectSeq(table[b], keep)
        upto[b \in -1..TableSize - 1] ==
            IF b = -1 THEN <<>>
            ELSE FoldLeft(LAMBDA l, e : ListAppend(l, f(e)), upto[b - 1], kept(b))
    IN upto[TableSize - 1]

HashKeys == Collect(LAMBDA e : e.key, LAMBDA e : TRUE)
HashValues == Collect(LAMBDA e : e.value, LAMBDA e : TRUE)
LookupByValue(v) == Collect(LAMBDA e : e.key, LAMBDA e : e.value = v)

HashInit ==
    /\ table = [b \in Buckets |-> <<>>]
    /\ list = <<>>
    /\ stored = <<>>

\* Mutant: a node is added in front although the key has one.
HashInsertFront(key, v) ==
    /\ table' = [table EXCEPT ![CalcHash(key)] = <<[key |-> key, value |-> v]>> \o @]
    /\ stored' = [k \in DOMAIN stored \cup {key} |-> IF k = key THEN v ELSE stored[k]]
    /\ UNCHANGED list
HashInsert(key, v) ==
    /\ table' = [table EXCEPT ![CalcHash(key)] =
                    IF FindNode(key) = 0 THEN <<[key |-> key, value |-> v]>> \o @
                    ELSE [@ EXCEPT ![FindNode(key)].value = v]]
    /\ stored' = [k \in DOMAIN stored \cup {key} |-> IF k = key THEN v ELSE stored[k]]
    /\ UNCHANGED list

\* Mutant: the bucket begins behind the removed node, wherever that was.
HashRemovalOfChain(key) ==
    /\ table' = [table EXCEPT ![CalcHash(key)] =
                    IF FindNode(key) = 0 THEN @ ELSE SubSeq(@, FindNode(key) + 1, Len(@))]
    /\ stored' = [k \in DOMAIN stored \ {key} |-> stored[k]]
HashRemoval(key) ==
    /\ table' = [table EXCEPT ![CalcHash(key)] =
                    IF FindNode(key) = 0 THEN @ ELSE RemoveAt(@, FindNode(key))]
    /\ stored' = [k \in DOMAIN stored \ {key} |-> stored[k]]

HashRemove(key) == HashRemoval(key) /\ UNCHANGED list

\* zhash_table_free(), and a new table.
HashFree ==
    /\ table # [b \in Buckets |-> <<>>]
    /\ table' = [b \in Buckets |-> <<>>]
    /\ stored' = <<>>
    /\ UNCHANGED list

\* The caller takes the keys, all or those with a value, as its list.
TakeKeys ==
    \/ list' = HashKeys /\ UNCHANGED <<table, stored>>
    \/ \E v \in Values : list' = LookupByValue(v) /\ UNCHANGED <<table, stored>>

\* The caller changes its list.
ChangeList(data) ==
    /\ \/ Len(list) < MaxList /\ list' = ListAppend(list, data)
       \/ Len(list) < MaxList /\ list' = ListPrepend(list, data)
       \/ list # <<>> /\ list' = ListRemove(list, data)
       \/ list # <<>> /\ list' = ListReverse(list)
    /\ UNCHANGED <<table, stored>>

\* The caller removes the first key of its list from the table and the list.
RemoveListed ==
    /\ list # <<>>
    /\ HashRemoval(Head(list))
    /\ list' = ListRemove(list, Head(list))

HashNext ==
    \/ \E key \in Pointers : HashRemove(key) \/ ChangeList(key)
                           \/ \E v \in Values : HashInsert(key, v)
    \/ HashFree \/ TakeKeys \/ RemoveListed

HashSpec == HashInit /\ [][HashNext]_hashVars

-----------------------------------------------------------------------------
(* Properties. *)

Count(l, x) == Cardinality({i \in DOMAIN l : l[i] = x})

\* zhash_table_lookup(): whatever collides in a bucket, a lookup gives the last
\* value that zhash_table_insert() stored for the key, or -1 when there is none
\* or zhash_table_remove() took it out.
LookupIsLast ==
    \A key \in Pointers : HashLookup(key) = IF key \in DOMAIN stored THEN stored[key] ELSE -1

\* zhash_table_keys(), zhash_table_values(), zhash_table_lookuzby_value(): the
\* list of keys has every stored key once, the list of values matches it
\* position by position, and a value leads to exactly the keys that have it.
HashListsAgree ==
    LET keys == HashKeys
    IN  /\ \A key \in Pointers : Count(keys, key) = IF key \in DOMAIN stored THEN 1 ELSE 0
        /\ \A v \in Values : Range(LookupByValue(v)) = {key \in DOMAIN stored : stored[key] = v}
        /\ HashValues = [i \in DOMAIN keys |-> stored[keys[i]]]

=============================================================================
