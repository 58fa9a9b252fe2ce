----------------------------- MODULE MCObjects -----------------------------
(* Small instances for TLC of what an application holds: threads, in the    *)
(* part common to all systems over POSIX threads and in what AmigaOS, BeOS, *)
(* OS/2 and Windows do themselves; trees, the hash table and the list,      *)
(* message digests, the INI parser and socket addresses, each used by one   *)
(* thread; and the cyclic buffer that processes share.  A behaviour is one  *)
(* of one of them.                                                          *)
EXTENDS UThread, UThreadOS, PTree, PHashTable, PCryptoHash, PIniFile, PSocketAddress, ShmBuffer, TLC

VARIABLE part

threadVars == <<uthreadVars, osVars>>
serialVars == <<treeVars, hashVars, hashingVars, iniVars, addressVars>>
objectVars == <<part, threadVars, serialVars, bufferVars>>

SomeContents == {<<31, 30, 1>>, <<3, 31, 0>>}
OnePort == {<<0, 80>>}
SomeHosts6 == {<<0, 0>>, <<0, 1>>, <<65152, 1>>}

(* Threads that the library did not create are interchangeable, and so are  *)
(* byte values; the same two model values stand for both.                   *)
Symmetry == Permutations(Foreign)

ObjectsInit ==
  /\ part \in {"thread", "system thread", "tree", "hash", "digest", "ini", "address", "buffer"}
  /\ ThreadInit /\ OSInit
  /\ TreeInit /\ HashInit /\ CryptoInit /\ IniInit /\ AddressInit /\ BufferInit
  /\ part # "system thread" => osSys = "win" /\ osRoom = 1
  /\ part # "tree" => kind = "binary"
  /\ part # "digest" => alg = "md5"
  /\ part # "address" => addrBuild = CHOOSE b \in AddressBuilds : TRUE

ThreadsNext ==
  \/ part = "thread" /\ ThreadNext /\ UNCHANGED osVars
  \/ part = "system thread" /\ OSNext /\ UNCHANGED uthreadVars

SerialNext ==
  \/ part = "tree" /\ TreeNext /\ UNCHANGED <<hashVars, hashingVars, iniVars, addressVars>>
  \/ part = "hash" /\ HashNext /\ UNCHANGED <<treeVars, hashingVars, iniVars, addressVars>>
  \/ part = "digest" /\ CryptoNext /\ UNCHANGED <<treeVars, hashVars, iniVars, addressVars>>
  \/ part = "ini" /\ IniNext /\ UNCHANGED <<treeVars, hashVars, hashingVars, addressVars>>
  \/ part = "address" /\ AddressNext /\ UNCHANGED <<treeVars, hashVars, hashingVars, iniVars>>

(* The bounds of the structures end a behaviour; threads end by themselves. *)
SerialIdle == part \notin {"thread", "system thread"} /\ UNCHANGED objectVars

ObjectsNext ==
  /\ UNCHANGED part
  /\ \/ ThreadsNext /\ UNCHANGED <<serialVars, bufferVars>>
     \/ SerialNext /\ UNCHANGED <<threadVars, bufferVars>>
     \/ part = "buffer" /\ BufferNext /\ UNCHANGED <<threadVars, serialVars>>
     \/ SerialIdle

ObjectsSpec == ObjectsInit /\ [][ObjectsNext]_objectVars

(* Whatever a caller is given as a list is complete: the keys and values of *)
(* zhash_table_keys() and zhash_table_values() and the keys that            *)
(* zhash_table_lookuzby_value() finds, the sections and keys of             *)
(* zini_file_sections() and zini_file_keys(), and the words of              *)
(* zini_file_parameter_list().                                              *)
ListsAgree == HashListsAgree /\ IniListsAgree /\ ListComplete
=============================================================================
