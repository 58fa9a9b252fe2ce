----------------------------- MODULE MCPSocket -----------------------------
(* A small instance for TLC of a client that connects to a listener and     *)
(* receives.                                                                *)
EXTENDS PSocket

OneThread == {"t1"}
ClientDuties == [t1 |-> {<<"connect", "client">>, <<"receive", "client">>}]
=============================================================================
