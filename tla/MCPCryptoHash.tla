--------------------------- MODULE MCPCryptoHash ---------------------------
(* A small instance of PCryptoHash for TLC: messages of GOST blocks that    *)
(* are all ones.                                                            *)
EXTENDS PCryptoHash

OnesAndOne == {<<31, 31, 31>>, <<1, 0, 0>>}

CryptoSpec == CryptoInit /\ [][CryptoNext]_hashingVars
=============================================================================
