----------------------------- MODULE MCProgress -----------------------------
(* Small instances for TLC of what must go on: the sleepers of the general  *)
(* read-write lock, and the calls of a client and a server on sockets.  A   *)
(* behaviour is one of one of them, and fairness speaks of its threads.     *)
EXTENDS RWLockGeneral, PSocket

VARIABLE part

progressVars == <<part, monitorVars, socketVars>>

TwoThreads == {"t1", "t2"}
TwoDuties ==
  [t1 |-> {<<"connect", "client">>, <<"receive", "client">>},
   t2 |-> {<<"accept", "listener">>, <<"send", "accepted">>, <<"receive_from", "client">>}]

ProgressInit ==
  /\ part \in {"rwlock", "socket"}
  /\ MonitorInit /\ SocketInit
  /\ part # "socket" => sys = "unix"

(* A caller of sockets may wait for a peer that does nothing.               *)
SocketIdle == part = "socket" /\ UNCHANGED <<monitorVars, socketVars>>

ProgressNext ==
  /\ UNCHANGED part
  /\ \/ part = "rwlock" /\ RegularNext /\ UNCHANGED socketVars
     \/ part = "socket" /\ SocketNext /\ UNCHANGED monitorVars
     \/ SocketIdle

LockStep(A) == part = "rwlock" /\ A /\ UNCHANGED <<part, socketVars>>
SocketStep(A) == part = "socket" /\ A /\ UNCHANGED <<part, monitorVars>>

(* The fairness of FairSpec and of SocketSpec.                              *)
ProgressSpec ==
  /\ ProgressInit /\ [][ProgressNext]_progressVars
  /\ WF_progressVars(LockStep(\E t \in Threads : Step(t)))
  /\ \A t \in Threads : WF_progressVars(LockStep(\E o \in UnlockOps : Call(t, o)))
  /\ \A t \in Callers : WF_progressVars(SocketStep(CallStep(t)))
=============================================================================
