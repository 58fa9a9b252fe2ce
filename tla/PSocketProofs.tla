---------------------------- MODULE PSocketProofs ----------------------------
(***************************************************************************)
(* Proofs about stream sockets, for any threads, descriptors, buffer size  *)
(* and calls.                                                              *)
(***************************************************************************)
EXTENDS PSocket, FiniteSetTheorems, WellFoundedInduction, TLAPS

------------------------------------------------------------------------------
(* Types.                                                                   *)

States == {"none", "fresh", "bound", "listening", "connecting", "failed", "connected"}
EndRecords ==
  [st : States, peer : Ends \cup {None}, inq : Seq(Int), eof : BOOLEAN, wr : BOOLEAN,
   queue : Seq({"accepted"})]
CallRecords ==
  [op : Operations \cup {"none"}, s : Sockets \cup {None}, at : {"none", "wait", "late", "system", "result"}]

SocketTyped ==
  /\ sock \in [Sockets -> SocketRecords \cup {None}]
  /\ fdt \in [Fds -> Ends \cup {None}]
  /\ end \in [Ends -> EndRecords]
  /\ call \in [Callers -> CallRecords]
  /\ told \in [Ends -> Int] /\ got \in [Ends -> Int]

(* socket() gives the lowest descriptor that is free.                       *)
LEMMA LowestFd ==
  ASSUME HasFreeFd
  PROVE  FreeFd \in Fds /\ fdt[FreeFd] = None
<1>. DEFINE F == {f \in Fds : fdt[f] = None}
<1>1. F \subseteq Nat /\ F # {}
  BY SocketSizes DEF HasFreeFd
<1>2. PICK f \in F : \A g \in F : ~(<<g, f>> \in OpToRel(<, Nat))
  <2>. HIDE DEF F
  <2>. QED  BY <1>1, NatLessThanWellFounded, WFMin, Zenon
<1>3. \A g \in F : f <= g
  <2>. SUFFICES ASSUME NEW g \in F, g < f PROVE FALSE
    BY <1>1
  <2>1. <<g, f>> \in Nat \X Nat /\ <<g, f>>[1] < <<g, f>>[2]
    BY <1>1
  <2>. QED  BY <1>2, <2>1, Zenon DEF OpToRel
<1>. QED  BY <1>2, <1>3 DEF FreeFd

LEMMA NoneIs ==
  /\ NoEnd \in EndRecords /\ NoCall \in CallRecords /\ NoCall.op = "none"
  /\ NoEnd.st = "none" /\ NoEnd.peer = None /\ NoEnd.inq = <<>> /\ NoEnd.queue = <<>>
BY DEF NoEnd, NoCall, EndRecords, CallRecords, States

LEMMA SocketOnIs ==
  ASSUME NEW f \in Fds
  PROVE  /\ SocketOn(f) \in SocketRecords /\ SocketOn(f).fd = f
         /\ SocketOn(f).closed = FALSE /\ SocketOn(f).connected = FALSE
BY DEF SocketOn, SocketRecords

LEMMA EndOfIs ==
  ASSUME SocketTyped, NEW s
  PROVE  EndOf(s) \in Ends \cup {None}
BY DEF SocketTyped, EndOf

------------------------------------------------------------------------------
(* The inductive invariant.                                                 *)

(* A call is on a socket that is there: nobody closes or frees it.          *)
Calls ==
  \A t \in Callers : call[t].op # "none" => call[t].s \in Sockets /\ sock[call[t].s] # None

(* A socket's descriptor is the one of its own end.                         *)
Owned ==
  /\ \A s \in Sockets : sock[s] # None /\ sock[s].fd \in Fds => fdt[sock[s].fd] = s
  /\ \A f \in Fds : fdt[f] # None => sock[fdt[f]] # None /\ sock[fdt[f]].fd = f
  /\ \A s \in Sockets : sock[s] # None /\ sock[s].closed = TRUE => sock[s].fd = -1

(* What has arrived goes on where the readers are, up to where the peer is. *)
StreamOf(e) ==
  /\ got[e] >= 0 /\ told[e] >= 0
  /\ \A i \in 1..Len(end[e].inq) : end[e].inq[i] = got[e] + i
  /\ end[e].peer # None => /\ end[end[e].peer].peer = e
                           /\ got[e] + Len(end[e].inq) = told[end[e].peer]
  /\ end[e].st # "connected" => /\ end[e].peer = None /\ end[e].inq = <<>>
                                /\ got[e] = 0 /\ told[e] = 0
  /\ e # "listener" => end[e].queue = <<>>
Streams == \A e \in Ends : StreamOf(e)

KeepsFds ==
  /\ fdt' = fdt
  /\ \A s \in Sockets :
       /\ sock'[s] = None <=> sock[s] = None
       /\ sock[s] # None => sock'[s].fd = sock[s].fd /\ sock'[s].closed = sock[s].closed
KeepsStreams ==
  /\ told' = told /\ got' = got
  /\ \A e \in Ends : /\ end'[e].peer = end[e].peer /\ end'[e].inq = end[e].inq
                     /\ end'[e].st = "connected" <=> end[e].st = "connected"
                     /\ e # "listener" => end'[e].queue = end[e].queue
KeepsCalls ==
  \A t \in Callers : call'[t].op = "none" \/ (call'[t].op = call[t].op /\ call'[t].s = call[t].s)

LEMMA QuietOwned ==
  ASSUME SocketTyped, Owned, KeepsFds
  PROVE  Owned'
<1>1. \A f \in Fds : fdt[f] # None => fdt[f] \in Sockets
  BY DEF SocketTyped, Ends
<1>. QED  BY <1>1 DEF Owned, KeepsFds

LEMMA QuietCalls ==
  ASSUME Calls, KeepsCalls, \A s \in Sockets : sock'[s] = None => sock[s] = None
  PROVE  Calls'
BY DEF Calls, KeepsCalls

LEMMA QuietStreams ==
  ASSUME SocketTyped, Streams, KeepsStreams
  PROVE  Streams'
<1>. SUFFICES ASSUME NEW e \in Ends PROVE StreamOf(e)'
  BY DEF Streams
<1>1. StreamOf(e) /\ end[e].peer \in Ends \cup {None}
  BY DEF Streams, SocketTyped, EndRecords
<1>2. PICK q, n, g : q = end[e].inq /\ n = end[e].peer /\ g = got[e]
  OBVIOUS
<1>3. end'[e].inq = q /\ end'[e].peer = n /\ got'[e] = g /\ told' = told
  BY <1>2 DEF KeepsStreams
<1>4. n # None => end'[n].peer = end[n].peer
  BY <1>1, <1>2 DEF KeepsStreams
<1>. QED  BY <1>1, <1>2, <1>3, <1>4 DEF StreamOf, KeepsStreams

------------------------------------------------------------------------------
(* What the steps do to a call, to a socket and to an end.                  *)

LEMMA CallMoves ==
  ASSUME SocketTyped, NEW t \in Callers,
         Return(t) \/ \E place \in {"none", "wait", "late", "system", "result"} : MoveTo(t, place)
  PROVE  call' \in [Callers -> CallRecords] /\ KeepsCalls
<1>1. CASE Return(t)
  BY <1>1, NoneIs DEF SocketTyped, Return, KeepsCalls
<1>2. ASSUME NEW place \in {"none", "wait", "late", "system", "result"}, MoveTo(t, place)
      PROVE  call' \in [Callers -> CallRecords] /\ KeepsCalls
  <2>1. PICK c \in CallRecords : c = call[t]
    BY DEF SocketTyped
  <2>2. PICK d \in CallRecords : d = [c EXCEPT !.at = place]
    BY DEF CallRecords
  <2>3. call' = [call EXCEPT ![t] = d]
    BY <1>2, <2>1, <2>2 DEF MoveTo
  <2>4. d.op = c.op /\ d.s = c.s
    BY <2>2 DEF CallRecords
  <2>. QED  BY <2>1, <2>3, <2>4 DEF SocketTyped, KeepsCalls
<1>. QED  BY <1>1, <1>2

LEMMA SocketSet ==
  ASSUME SocketTyped, NEW s \in Sockets, sock[s] # None, NEW r \in SocketRecords,
         sock' = [sock EXCEPT ![s] = r]
  PROVE  /\ sock' \in [Sockets -> SocketRecords \cup {None}]
         /\ fdt' = fdt /\ r.fd = sock[s].fd /\ r.closed = sock[s].closed => KeepsFds
BY SocketNames DEF SocketTyped, KeepsFds

LEMMA FlagSet ==
  ASSUME SocketTyped, NEW s \in Sockets, sock[s] # None, NEW b \in BOOLEAN, fdt' = fdt,
         \/ sock' = [sock EXCEPT ![s].connected = b]
         \/ sock' = [sock EXCEPT ![s].listening = b]
         \/ sock' = [sock EXCEPT ![s].blocking = b]
         \/ sock' = [sock EXCEPT ![s].timed = b]
  PROVE  sock' \in [Sockets -> SocketRecords \cup {None}] /\ KeepsFds
<1>1. PICK q \in SocketRecords : q = sock[s]
  BY DEF SocketTyped
<1>2. CASE sock' = [sock EXCEPT ![s].connected = b]
  <2>1. PICK r \in SocketRecords : r = [q EXCEPT !.connected = b]
    BY DEF SocketRecords
  <2>2. r.fd = q.fd /\ r.closed = q.closed
    BY <2>1 DEF SocketRecords
  <2>. QED  BY <1>1, <1>2, <2>1, <2>2, SocketSet
<1>3. CASE sock' = [sock EXCEPT ![s].listening = b]
  <2>1. PICK r \in SocketRecords : r = [q EXCEPT !.listening = b]
    BY DEF SocketRecords
  <2>2. r.fd = q.fd /\ r.closed = q.closed
    BY <2>1 DEF SocketRecords
  <2>. QED  BY <1>1, <1>3, <2>1, <2>2, SocketSet
<1>4. CASE sock' = [sock EXCEPT ![s].blocking = b]
  <2>1. PICK r \in SocketRecords : r = [q EXCEPT !.blocking = b]
    BY DEF SocketRecords
  <2>2. r.fd = q.fd /\ r.closed = q.closed
    BY <2>1 DEF SocketRecords
  <2>. QED  BY <1>1, <1>4, <2>1, <2>2, SocketSet
<1>5. CASE sock' = [sock EXCEPT ![s].timed = b]
  <2>1. PICK r \in SocketRecords : r = [q EXCEPT !.timed = b]
    BY DEF SocketRecords
  <2>2. r.fd = q.fd /\ r.closed = q.closed
    BY <2>1 DEF SocketRecords
  <2>. QED  BY <1>1, <1>5, <2>1, <2>2, SocketSet
<1>. QED  BY <1>2, <1>3, <1>4, <1>5

LEMMA StateSet ==
  ASSUME SocketTyped, NEW e \in Ends, NEW st \in States \ {"connected"}, end[e].st # "connected",
         end' = [end EXCEPT ![e].st = st], UNCHANGED <<told, got>>
  PROVE  /\ end' \in [Ends -> EndRecords] /\ KeepsStreams
         /\ \A x \in Ends : /\ end'[x].st = (IF x = e THEN st ELSE end[x].st)
                            /\ end'[x].queue = end[x].queue
<1>1. PICK x \in EndRecords : x = end[e]
  BY DEF SocketTyped
<1>2. PICK y \in EndRecords : y = [x EXCEPT !.st = st]
  BY DEF EndRecords
<1>3. y.st = st /\ y.peer = x.peer /\ y.inq = x.inq /\ y.queue = x.queue
  BY <1>2 DEF EndRecords
<1>4. end' = [end EXCEPT ![e] = y]
  BY <1>1, <1>2
<1>. QED  BY <1>1, <1>3, <1>4 DEF SocketTyped, KeepsStreams

------------------------------------------------------------------------------
(* Steps that touch neither descriptors nor bytes.                          *)

SocketBase == SocketTyped /\ Calls /\ Streams

Quiet == KeepsFds /\ KeepsStreams /\ KeepsCalls /\ SocketTyped'

LEMMA QuietKeeps ==
  ASSUME SocketBase, Quiet
  PROVE  SocketBase' /\ (Owned => Owned')
<1>1. SocketTyped /\ Calls /\ Streams /\ KeepsFds /\ KeepsStreams /\ KeepsCalls /\ SocketTyped'
  BY DEF SocketBase, Quiet
<1>2. Calls'
  BY <1>1, QuietCalls DEF KeepsFds
<1>3. Streams'
  BY <1>1, QuietStreams
<1>. QED  BY <1>1, <1>2, <1>3, QuietOwned DEF SocketBase

LEMMA SetUpQuiet ==
  ASSUME SocketTyped, NEW s \in Sockets, NEW b \in BOOLEAN,
         Bind(s) \/ Listen(s) \/ SetBlocking(s, b) \/ SetTimeout(s, b)
  PROVE  Quiet
<1>1. call' = call /\ fdt' = fdt /\ UNCHANGED <<told, got>> /\ sock[s] # None
  BY DEF Bind, Listen, SetBlocking, SetTimeout
<1>2. KeepsCalls
  BY <1>1 DEF KeepsCalls
<1>3. EndOf(s) # None => EndOf(s) \in Ends
  BY EndOfIs
<1>4. KeepsFds /\ sock' \in [Sockets -> SocketRecords \cup {None}]
  <2>1. CASE sock' = sock
    BY <1>1, <2>1 DEF KeepsFds, SocketTyped
  <2>2. CASE sock' # sock
    <3>1. \E c \in BOOLEAN : \/ sock' = [sock EXCEPT ![s].listening = c]
                             \/ sock' = [sock EXCEPT ![s].blocking = c]
                             \/ sock' = [sock EXCEPT ![s].timed = c]
      BY <2>2 DEF Bind, Listen, SetBlocking, SetTimeout
    <3>. QED  BY <1>1, <3>1, FlagSet
  <2>. QED  BY <2>1, <2>2
<1>5. KeepsStreams /\ end' \in [Ends -> EndRecords]
  <2>1. CASE end' = end
    BY <1>1, <2>1 DEF KeepsStreams, SocketTyped
  <2>2. CASE Bind(s)
    <3>1. end' = [end EXCEPT ![EndOf(s)].st = "bound"] /\ EndOf(s) \in Ends /\ end[EndOf(s)].st = "fresh"
      BY <1>3, <2>2 DEF Bind
    <3>2. "bound" \in States \ {"connected"}
      BY DEF States
    <3>. QED  BY <1>1, <3>1, <3>2, StateSet
  <2>3. CASE Listen(s)
    <3>1. /\ end' = [end EXCEPT ![EndOf(s)].st = "listening"]
          /\ EndOf(s) \in Ends /\ end[EndOf(s)].st = "bound"
      BY <1>3, <2>3 DEF Listen
    <3>2. "listening" \in States \ {"connected"}
      BY DEF States
    <3>. QED  BY <1>1, <3>1, <3>2, StateSet
  <2>. QED  BY <2>1, <2>2, <2>3 DEF SetBlocking, SetTimeout
<1>. QED  BY <1>1, <1>2, <1>4, <1>5 DEF Quiet, SocketTyped

LEMMA ShutdownQuiet ==
  ASSUME SocketTyped, NEW s \in Sockets, NEW read \in BOOLEAN, NEW write \in BOOLEAN, Shutdown(s, read, write)
  PROVE  Quiet
<1>1. /\ sock[s] # None /\ UNCHANGED <<fdt, call, told, got>>
      /\ sock' = [sock EXCEPT ![s].connected = @ /\ ~(read /\ write)]
  BY DEF Shutdown
<1>2. PICK b \in BOOLEAN : b = (sock[s].connected /\ ~(read /\ write))
  OBVIOUS
<1>3. sock' = [sock EXCEPT ![s].connected = b]
  BY <1>1, <1>2
<1>4. KeepsFds /\ sock' \in [Sockets -> SocketRecords \cup {None}]
  BY <1>1, <1>3, FlagSet
<1>5. PICK e \in Ends :
        end' = [x \in Ends |->
           IF x = e THEN [end[x] EXCEPT !.wr = @ /\ ~write, !.eof = @ \/ read]
           ELSE IF x = end[e].peer THEN [end[x] EXCEPT !.eof = @ \/ write]
           ELSE end[x]]
  BY EndOfIs DEF Shutdown
<1>6. ASSUME NEW x \in Ends
      PROVE  /\ end'[x] \in EndRecords /\ end'[x].peer = end[x].peer /\ end'[x].inq = end[x].inq
             /\ end'[x].st = end[x].st /\ end'[x].queue = end[x].queue
  <2>1. PICK y \in EndRecords : y = end[x]
    BY DEF SocketTyped
  <2>2. PICK c, d, w \in BOOLEAN : c = (y.eof \/ read) /\ d = (y.eof \/ write) /\ w = (y.wr /\ ~write)
    OBVIOUS
  <2>3. end'[x] \in {[y EXCEPT !.wr = w, !.eof = c], [y EXCEPT !.eof = d], y}
    BY <1>5, <2>1, <2>2
  <2>. QED  BY <2>1, <2>3 DEF EndRecords
<1>7. end' \in [Ends -> EndRecords] /\ KeepsStreams
  BY <1>1, <1>5, <1>6 DEF KeepsStreams
<1>8. KeepsCalls
  BY <1>1 DEF KeepsCalls
<1>. QED  BY <1>1, <1>4, <1>6, <1>7, <1>8 DEF Quiet, SocketTyped

LEMMA AgainMoves ==
  ASSUME SocketTyped, NEW t \in Callers, NEW code, Again(t, code)
  PROVE  call' \in [Callers -> CallRecords] /\ KeepsCalls
BY CallMoves DEF Again

(* A step of a call that leaves the sockets and the system alone.           *)
LEMMA CallOnly ==
  ASSUME SocketTyped, UNCHANGED <<sock, fdt, end, told, got>>,
         call' \in [Callers -> CallRecords], KeepsCalls
  PROVE  Quiet
<1>1. KeepsFds /\ KeepsStreams
  BY DEF KeepsFds, KeepsStreams
<1>. QED  BY <1>1 DEF Quiet, SocketTyped

LEMMA WaitQuiet ==
  ASSUME SocketTyped, NEW t \in Callers,
         \/ WaitReady(t) \/ TimePasses(t) \/ WaitTimeout(t)
         \/ WaitInterrupted(t) \/ WaitErrs(t)
  PROVE  Quiet
<1>1. UNCHANGED <<sock, fdt, end, told, got>>
  BY DEF WaitReady, TimePasses, WaitTimeout, WaitInterrupted, WaitErrs
<1>2. Return(t) \/ \E place \in {"none", "wait", "late", "system", "result"} : MoveTo(t, place)
  BY DEF WaitReady, TimePasses, WaitTimeout, WaitInterrupted, WaitErrs
<1>. QED  BY <1>1, <1>2, CallMoves, CallOnly

LEMMA ReadSoErrorDoes ==
  ASSUME SocketTyped, NEW s \in Sockets, sock[s] # None, ReadSoError(s), UNCHANGED <<fdt, told, got>>
  PROVE  /\ sock' \in [Sockets -> SocketRecords \cup {None}] /\ KeepsFds
         /\ end' \in [Ends -> EndRecords] /\ KeepsStreams
<1>. SUFFICES ASSUME EndOf(s) # None
              PROVE  /\ sock' \in [Sockets -> SocketRecords \cup {None}] /\ KeepsFds
                     /\ end' \in [Ends -> EndRecords] /\ KeepsStreams
  BY DEF ReadSoError, SocketTyped, KeepsFds, KeepsStreams
<1>1. PICK b \in BOOLEAN : b = ConnectResult(s)
  BY DEF ConnectResult
<1>2. sock' = [sock EXCEPT ![s].connected = b]
  BY <1>1 DEF ReadSoError
<1>3. ASSUME NEW e \in Ends
      PROVE  /\ end'[e] \in EndRecords /\ end'[e].peer = end[e].peer /\ end'[e].inq = end[e].inq
             /\ end'[e].st = IF e = EndOf(s) /\ end[e].st = "failed" THEN "fresh" ELSE end[e].st
             /\ end'[e].queue = end[e].queue
  <2>1. PICK y \in EndRecords : y = end[e]
    BY DEF SocketTyped
  <2>2. end'[e] = IF e = EndOf(s) /\ y.st = "failed" THEN [y EXCEPT !.st = "fresh"] ELSE y
    BY <2>1 DEF ReadSoError
  <2>3. [y EXCEPT !.st = "fresh"] \in EndRecords
    BY DEF EndRecords, States
  <2>. QED  BY <2>1, <2>2, <2>3 DEF EndRecords
<1>4. end' = [e \in Ends |-> end'[e]]
  BY DEF ReadSoError
<1>5. end' \in [Ends -> EndRecords]
  BY <1>3, <1>4
<1>6. KeepsStreams
  BY <1>3 DEF KeepsStreams
<1>7. sock' \in [Sockets -> SocketRecords \cup {None}] /\ KeepsFds
  BY <1>2, FlagSet
<1>. QED  BY <1>3, <1>5, <1>6, <1>7

LEMMA ResultQuiet ==
  ASSUME SocketTyped, Calls,
         \/ \E t \in Callers : ConnectWaited(t)
         \/ \E s \in Sockets : CheckConnectResult(s)
  PROVE  Quiet
<1>1. CASE \E t \in Callers : ConnectWaited(t)
  <2>1. PICK t \in Callers : ConnectWaited(t)
    BY <1>1
  <2>2. ReadSoError(call[t].s) /\ Return(t) /\ UNCHANGED <<fdt, told, got>> /\ call[t].op = "connect"
    BY <2>1 DEF ConnectWaited
  <2>3. PICK s \in Sockets : s = call[t].s /\ sock[s] # None
    BY <2>2 DEF Calls
  <2>4. /\ sock' \in [Sockets -> SocketRecords \cup {None}] /\ KeepsFds
        /\ end' \in [Ends -> EndRecords] /\ KeepsStreams
    BY <2>2, <2>3, ReadSoErrorDoes
  <2>5. call' \in [Callers -> CallRecords] /\ KeepsCalls
    BY <2>2, CallMoves
  <2>. QED  BY <2>2, <2>4, <2>5 DEF Quiet, SocketTyped
<1>2. CASE \E s \in Sockets : CheckConnectResult(s)
  <2>1. PICK s \in Sockets : CheckConnectResult(s)
    BY <1>2
  <2>2. ReadSoError(s) /\ UNCHANGED <<fdt, call, told, got>> /\ sock[s] # None
    BY <2>1 DEF CheckConnectResult
  <2>3. /\ sock' \in [Sockets -> SocketRecords \cup {None}] /\ KeepsFds
        /\ end' \in [Ends -> EndRecords] /\ KeepsStreams
    BY <2>2, ReadSoErrorDoes
  <2>4. KeepsCalls
    BY <2>2 DEF KeepsCalls
  <2>. QED  BY <2>2, <2>3, <2>4 DEF Quiet, SocketTyped
<1>. QED  BY <1>1, <1>2

LEMMA RefuseQuiet ==
  ASSUME SocketTyped, Refuse
  PROVE  Quiet
<1>1. /\ end["client"].st = "connecting" /\ end' = [end EXCEPT !["client"].st = "failed"]
      /\ UNCHANGED <<sock, fdt, call, told, got>>
  BY DEF Refuse
<1>2. "client" \in Ends /\ "failed" \in States \ {"connected"} /\ end["client"].st # "connected"
  BY <1>1 DEF Ends, Sockets, States
<1>3. end' \in [Ends -> EndRecords] /\ KeepsStreams
  BY <1>1, <1>2, StateSet
<1>4. KeepsFds /\ KeepsCalls
  BY <1>1 DEF KeepsFds, KeepsCalls
<1>. QED  BY <1>1, <1>3, <1>4 DEF Quiet, SocketTyped

(* The beginning of a call, on a socket that is there.                      *)
LEMMA EnterKeeps ==
  ASSUME SocketBase, NEW t \in Callers, NEW op \in Operations, NEW s \in Sockets, EnterCall(t, op, s)
  PROVE  SocketBase' /\ (Owned => Owned')
<1>1. SocketTyped /\ Calls /\ Streams
  BY DEF SocketBase
<1>2. UNCHANGED <<sock, fdt, end, told, got>> /\ sock[s] # None
  BY DEF EnterCall
<1>3. PICK c \in CallRecords : /\ call' = [call EXCEPT ![t] = c]
                               /\ c.op # "none" => c.s = s
  <2>1. CASE sock[s].closed
    BY <2>1, NoneIs DEF EnterCall
  <2>2. CASE ~sock[s].closed
    <3>. DEFINE place == IF op # "connect" /\ sock[s].blocking THEN "wait" ELSE "system"
    <3>1. place \in {"wait", "system"}
      OBVIOUS
    <3>2. call' = [call EXCEPT ![t] = [op |-> op, s |-> s, at |-> place]]
      BY <2>2 DEF EnterCall
    <3>. HIDE DEF place
    <3>3. [op |-> op, s |-> s, at |-> place] \in CallRecords
      BY <3>1 DEF CallRecords
    <3>. QED  BY <3>2, <3>3
  <2>. QED  BY <2>1, <2>2
<1>4. call' \in [Callers -> CallRecords] /\ Calls'
  BY <1>1, <1>2, <1>3 DEF Calls, SocketTyped
<1>5. KeepsFds /\ KeepsStreams
  BY <1>2 DEF KeepsFds, KeepsStreams
<1>6. SocketTyped'
  BY <1>1, <1>2, <1>4 DEF SocketTyped
<1>. QED  BY <1>1, <1>4, <1>5, <1>6, QuietOwned, QuietStreams DEF SocketBase

------------------------------------------------------------------------------
(* Descriptors.                                                             *)

LEMMA NewKeeps ==
  ASSUME SocketBase, NEW s \in Sockets, New(s)
  PROVE  SocketBase' /\ (Owned => Owned')
<1>1. SocketTyped /\ Calls /\ Streams
  BY DEF SocketBase
<1>2. /\ sock[s] = None /\ HasFreeFd /\ end[s].st = "none" /\ UNCHANGED <<call, told, got>>
      /\ end' = [end EXCEPT ![s].st = "fresh"]
  BY DEF New
<1>3. PICK f \in Fds, r \in SocketRecords :
        /\ fdt[f] = None /\ fdt' = [fdt EXCEPT ![f] = s] /\ sock' = [sock EXCEPT ![s] = r]
        /\ r.fd = f /\ r.closed = FALSE
  BY <1>2, LowestFd, SocketOnIs DEF New
<1>4. s \in Ends /\ "fresh" \in States \ {"connected"}
  BY DEF Ends, States
<1>5. end' \in [Ends -> EndRecords] /\ KeepsStreams
  BY <1>1, <1>2, <1>4, StateSet
<1>6. SocketTyped'
  BY <1>1, <1>2, <1>3, <1>4, <1>5 DEF SocketTyped
<1>7. Calls'
  <2>1. KeepsCalls
    BY <1>2 DEF KeepsCalls
  <2>2. \A q \in Sockets : sock'[q] = None => sock[q] = None
    BY <1>1, <1>2, <1>3 DEF SocketTyped
  <2>. QED  BY <1>1, <2>1, <2>2, QuietCalls
<1>8. Streams'
  BY <1>1, <1>5, QuietStreams
<1>9. ASSUME Owned PROVE Owned'
  <2>1. \A g \in Fds : fdt[g] # s
    BY <1>2, <1>9, SocketNames DEF Owned
  <2>2. /\ sock'[s] = r /\ r # None /\ \A q \in Sockets : q # s => sock'[q] = sock[q]
        /\ fdt'[f] = s /\ \A g \in Fds : g # f => fdt'[g] = fdt[g]
    BY <1>1, <1>3, SocketNames DEF SocketTyped
  <2>3. \A g \in Fds : fdt[g] # None => fdt[g] \in Sockets
    BY <1>1 DEF SocketTyped, Ends
  <2>. QED  BY <1>3, <1>9, <2>1, <2>2, <2>3, SocketNames DEF Owned
<1>. QED  BY <1>6, <1>7, <1>8, <1>9 DEF SocketBase

LEMMA ClosedEnds ==
  ASSUME SocketTyped, NEW e \in Ends
  PROVE  /\ EndsAfterClose(e) \in [Ends -> EndRecords]
         /\ HistoryAfterClose(told, e) \in [Ends -> Int] /\ HistoryAfterClose(got, e) \in [Ends -> Int]
         /\ \A x \in Ends :
              \/ EndsAfterClose(e)[x] = NoEnd
              \/ /\ EndsAfterClose(e)[x].inq = end[x].inq /\ EndsAfterClose(e)[x].st = end[x].st
                 /\ EndsAfterClose(e)[x].peer \in {end[x].peer, None}
         /\ \A x \in Ends \ Gone(e) : /\ EndsAfterClose(e)[x].st = end[x].st
                                      /\ EndsAfterClose(e)[x].queue = end[x].queue
<1>1. ASSUME NEW x \in Ends
      PROVE  /\ EndsAfterClose(e)[x] \in EndRecords
             /\ \/ EndsAfterClose(e)[x] = NoEnd
                \/ /\ EndsAfterClose(e)[x].inq = end[x].inq /\ EndsAfterClose(e)[x].st = end[x].st
                   /\ EndsAfterClose(e)[x].peer \in {end[x].peer, None}
             /\ x \notin Gone(e) => /\ EndsAfterClose(e)[x].st = end[x].st
                                    /\ EndsAfterClose(e)[x].queue = end[x].queue
  <2>1. PICK y \in EndRecords : y = end[x]
    BY DEF SocketTyped
  <2>2. PICK z \in EndRecords : z = [y EXCEPT !.peer = None, !.eof = TRUE]
    BY DEF EndRecords
  <2>3. z.inq = y.inq /\ z.st = y.st /\ z.peer = None /\ z.queue = y.queue
    BY <2>2 DEF EndRecords
  <2>4. /\ EndsAfterClose(e)[x] \in {NoEnd, z, y}
        /\ x \notin Gone(e) => EndsAfterClose(e)[x] \in {z, y}
    BY <2>1, <2>2 DEF EndsAfterClose
  <2>. QED  BY <2>1, <2>3, <2>4, NoneIs
<1>2. EndsAfterClose(e) = [x \in Ends |-> EndsAfterClose(e)[x]]
  BY DEF EndsAfterClose
<1>3. EndsAfterClose(e) \in [Ends -> EndRecords]
  BY <1>1, <1>2
<1>4. HistoryAfterClose(told, e) \in [Ends -> Int] /\ HistoryAfterClose(got, e) \in [Ends -> Int]
  BY DEF HistoryAfterClose, SocketTyped
<1>. QED  BY <1>1, <1>3, <1>4

(* The last descriptor of an end is closed: bytes in other directions stay. *)
LEMMA ClosedStreams ==
  ASSUME SocketTyped, Streams, NEW e \in Ends,
         \A x \in Ends : /\ end'[x].st = EndsAfterClose(e)[x].st
                         /\ end'[x].peer = EndsAfterClose(e)[x].peer
                         /\ end'[x].inq = EndsAfterClose(e)[x].inq
                         /\ x # "listener" => end'[x].queue = EndsAfterClose(e)[x].queue,
         told' = HistoryAfterClose(told, e), got' = HistoryAfterClose(got, e)
  PROVE  Streams'
<1>. SUFFICES ASSUME NEW x \in Ends PROVE StreamOf(x)'
  BY DEF Streams
<1>1. StreamOf(x) /\ end[x].peer \in Ends \cup {None}
  BY DEF Streams, SocketTyped, EndRecords
<1>2. CASE x \in Gone(e)
  <2>1. EndsAfterClose(e)[x] = NoEnd /\ told'[x] = 0 /\ got'[x] = 0
    BY <1>2 DEF EndsAfterClose, HistoryAfterClose
  <2>2. /\ end'[x].st = "none" /\ end'[x].peer = None /\ end'[x].inq = <<>>
        /\ x # "listener" => end'[x].queue = <<>>
    BY <2>1, NoneIs
  <2>. QED  BY <2>1, <2>2 DEF StreamOf
<1>3. CASE x \notin Gone(e) /\ end[x].peer \in Gone(e)
  <2>1. PICK y \in EndRecords : y = end[x]
    BY DEF SocketTyped
  <2>2. EndsAfterClose(e)[x] = [y EXCEPT !.peer = None, !.eof = TRUE] /\ told'[x] = told[x] /\ got'[x] = got[x]
    BY <1>3, <2>1 DEF EndsAfterClose, HistoryAfterClose
  <2>3. /\ end'[x].st = y.st /\ end'[x].peer = None /\ end'[x].inq = y.inq
        /\ x # "listener" => end'[x].queue = y.queue
    BY <2>1, <2>2 DEF EndRecords
  <2>. QED  BY <1>1, <2>1, <2>2, <2>3 DEF StreamOf
<1>4. CASE x \notin Gone(e) /\ end[x].peer \notin Gone(e)
  <2>1. EndsAfterClose(e)[x] = end[x] /\ told'[x] = told[x] /\ got'[x] = got[x]
    BY <1>4 DEF EndsAfterClose, HistoryAfterClose
  <2>2. PICK n, q : n = end[x].peer /\ q = end[x].inq
    OBVIOUS
  <2>3. /\ end'[x].st = end[x].st /\ end'[x].peer = n /\ end'[x].inq = q
        /\ x # "listener" => end'[x].queue = end[x].queue
    BY <2>1, <2>2
  <2>4. ASSUME n # None PROVE end'[n].peer = x /\ told'[n] = told[n]
    <3>1. n \in Ends /\ n \notin Gone(e) /\ end[n].peer = x
      BY <1>1, <1>4, <2>2, <2>4 DEF StreamOf
    <3>2. EndsAfterClose(e)[n] = end[n] /\ told'[n] = told[n]
      BY <1>4, <3>1 DEF EndsAfterClose, HistoryAfterClose
    <3>. QED  BY <3>1, <3>2
  <2>. QED  BY <1>1, <2>1, <2>2, <2>3, <2>4 DEF StreamOf
<1>. QED  BY <1>2, <1>3, <1>4

LEMMA ReleaseDoes ==
  ASSUME SocketTyped, Streams, NEW fd, Release(fd)
  PROVE  /\ end' \in [Ends -> EndRecords] /\ fdt' \in [Fds -> Ends \cup {None}]
         /\ told' \in [Ends -> Int] /\ got' \in [Ends -> Int] /\ Streams'
         /\ \A f \in Fds : fdt'[f] = IF f = fd THEN None ELSE fdt[f]
<1>1. CASE fd \in Fds /\ fdt[fd] # None
  <2>1. PICK e \in Ends : e = fdt[fd]
    BY <1>1 DEF SocketTyped
  <2>2. /\ end' = EndsAfterClose(e) /\ fdt' = [fdt EXCEPT ![fd] = None]
        /\ told' = HistoryAfterClose(told, e) /\ got' = HistoryAfterClose(got, e)
    BY <1>1, <2>1 DEF Release
  <2>3. Streams'
    BY <2>2, ClosedStreams
  <2>4. /\ fdt' \in [Fds -> Ends \cup {None}]
        /\ \A f \in Fds : fdt'[f] = IF f = fd THEN None ELSE fdt[f]
    BY <2>2 DEF SocketTyped
  <2>. QED  BY <2>2, <2>3, <2>4, ClosedEnds
<1>2. CASE ~(fd \in Fds /\ fdt[fd] # None)
  <2>1. UNCHANGED <<end, fdt, told, got>>
    BY <1>2 DEF Release
  <2>2. KeepsStreams
    BY <2>1 DEF KeepsStreams
  <2>. QED  BY <1>2, <2>1, <2>2, QuietStreams DEF SocketTyped
<1>. QED  BY <1>1, <1>2

LEMMA CloseKeeps ==
  ASSUME SocketBase, NEW s \in Sockets, Close(s) \/ FreeSocket(s)
  PROVE  SocketBase' /\ (CloseFails = FALSE /\ Owned => Owned')
<1>1. SocketTyped /\ Calls /\ Streams
  BY DEF SocketBase
<1>2. call' = call /\ sock[s] # None /\ ~Busy(s)
  BY DEF Close, FreeSocket
<1>3. PICK r \in SocketRecords : r = sock[s]
  BY <1>1, <1>2 DEF SocketTyped
<1>4. /\ end' \in [Ends -> EndRecords] /\ fdt' \in [Fds -> Ends \cup {None}]
      /\ told' \in [Ends -> Int] /\ got' \in [Ends -> Int] /\ Streams'
      /\ (Owned \/ ~r.closed) => \A f \in Fds : fdt'[f] = IF f = r.fd THEN None ELSE fdt[f]
  <2>1. CASE Release(r.fd)
    BY <1>1, <2>1, ReleaseDoes
  <2>2. CASE r.closed = TRUE /\ UNCHANGED <<end, fdt, told, got>>
    <3>1. KeepsStreams
      BY <2>2 DEF KeepsStreams
    <3>2. Owned => r.fd \notin Fds
      BY <1>2, <1>3, <2>2, SocketSizes DEF Owned
    <3>. QED  BY <1>1, <2>2, <3>1, <3>2, QuietStreams DEF SocketTyped
  <2>. QED  BY <1>3, <2>1, <2>2 DEF Close, FreeSocket, SocketRecords
<1>5. PICK c \in SocketRecords \cup {None} :
        /\ sock' = [sock EXCEPT ![s] = c]
        /\ c # None /\ CloseFails = FALSE => c.fd = -1
  <2>1. CASE sock' = [sock EXCEPT ![s] = CloseFlags(s)]
    <3>1. PICK c \in SocketRecords : c = [r EXCEPT !.connected = FALSE, !.closed = TRUE,
                                                   !.listening = FALSE, !.fd = -1]
      BY DEF SocketRecords
    <3>2. c.fd = -1 /\ CloseFlags(s) = c
      BY <1>3, <3>1 DEF SocketRecords, CloseFlags
    <3>. QED  BY <2>1, <3>2
  <2>2. CASE sock' = sock /\ CloseFails = TRUE
    BY <1>1, <1>3, <2>2 DEF SocketTyped
  <2>3. CASE sock' = [sock EXCEPT ![s] = None]
    BY <2>3
  <2>. QED  BY <2>1, <2>2, <2>3, SocketSizes DEF Close, FreeSocket
<1>6. SocketTyped'
  BY <1>1, <1>2, <1>4, <1>5 DEF SocketTyped
<1>7. /\ sock'[s] = c /\ \A q \in Sockets : q # s => sock'[q] = sock[q]
  BY <1>1, <1>5 DEF SocketTyped
<1>8. Calls'
  BY <1>1, <1>2, <1>7 DEF Calls, Busy
<1>9. ASSUME CloseFails = FALSE, Owned PROVE Owned'
  <2>1. \A f \in Fds : fdt'[f] = IF f = r.fd THEN None ELSE fdt[f]
    BY <1>4, <1>9
  <2>2. -1 \notin Fds
    BY SocketSizes
  <2>3. \A q \in Sockets : q # s /\ sock[q] # None => sock[q].fd \notin Fds \/ sock[q].fd # r.fd
    BY <1>2, <1>3, <1>9 DEF Owned
  <2>4. \A q \in Sockets : sock'[q] # None /\ sock'[q].fd \in Fds => fdt'[sock'[q].fd] = q
    BY <1>5, <1>7, <1>9, <2>1, <2>2, <2>3 DEF Owned
  <2>5. \A f \in Fds : fdt'[f] # None => fdt'[f] \in Sockets /\ fdt'[f] # s /\ fdt'[f] = fdt[f]
    BY <1>1, <1>3, <1>9, <2>1 DEF Owned, SocketTyped, Ends
  <2>6. \A f \in Fds : fdt'[f] # None => sock'[fdt'[f]] # None /\ sock'[fdt'[f]].fd = f
    BY <1>7, <1>9, <2>5 DEF Owned
  <2>7. \A q \in Sockets : sock'[q] # None /\ sock'[q].closed = TRUE => sock'[q].fd = -1
    BY <1>5, <1>7, <1>9 DEF Owned
  <2>. QED  BY <2>4, <2>6, <2>7 DEF Owned
<1>. QED  BY <1>4, <1>6, <1>8, <1>9 DEF SocketBase

LEMMA QueueSet ==
  ASSUME SocketTyped, NEW E, E \in [Ends -> EndRecords], NEW e \in Ends, NEW q \in Seq({"accepted"}),
         end' = [E EXCEPT ![e].queue = q]
  PROVE  /\ end' \in [Ends -> EndRecords]
         /\ \A x \in Ends : /\ end'[x].st = E[x].st /\ end'[x].peer = E[x].peer /\ end'[x].inq = E[x].inq
                            /\ x # e => end'[x].queue = E[x].queue
<1>1. PICK y \in EndRecords : y = E[e]
  OBVIOUS
<1>2. PICK z \in EndRecords : z = [y EXCEPT !.queue = q]
  BY DEF EndRecords
<1>3. z.st = y.st /\ z.peer = y.peer /\ z.inq = y.inq
  BY <1>2 DEF EndRecords
<1>4. end' = [E EXCEPT ![e] = z]
  BY <1>1, <1>2
<1>. QED  BY <1>1, <1>3, <1>4

LEMMA QueueTail ==
  ASSUME NEW q \in Seq({"accepted"}), q # <<>>
  PROVE  Head(q) = "accepted" /\ Tail(q) \in Seq({"accepted"})
OBVIOUS

LEMMA NothingQueued == Range(<<>>) = {}
<1>1. DOMAIN <<>> = {}
  OBVIOUS
<1>. QED  BY <1>1 DEF Range

LEMMA AcceptKeeps ==
  ASSUME SocketBase, NEW t \in Callers, Accept(t)
  PROVE  SocketBase' /\ (Owned => Owned')
<1>1. SocketTyped /\ Calls /\ Streams
  BY DEF SocketBase
<1>. DEFINE e == EndOf(call[t].s)
<1>2. UNCHANGED <<told, got>>
  BY DEF Accept
<1>3. CASE UNCHANGED <<sock, fdt, end>> /\ \E code : Again(t, code)
  <2>1. Quiet
    BY <1>1, <1>2, <1>3, AgainMoves, CallOnly
  <2>. QED  BY <2>1, QuietKeeps
<1>4. CASE /\ e # None /\ end[e].queue # <<>> /\ HasFreeFd
           /\ sock["accepted"] = None
           /\ sock' = [sock EXCEPT !["accepted"] =
                  [SocketOn(FreeFd) EXCEPT !.connected = DetailsFromFd("accepted")]]
           /\ fdt' = [fdt EXCEPT ![FreeFd] = Head(end[e].queue)]
           /\ end' = [end EXCEPT ![e].queue = Tail(@)]
           /\ Return(t)
  <2>1. e \in Ends
    BY <1>1, <1>4, EndOfIs
  <2>. HIDE DEF e
  <2>2. PICK q \in Seq({"accepted"}) : q = end[e].queue /\ q # <<>>
    BY <1>1, <1>4, <2>1 DEF SocketTyped, EndRecords
  <2>3. Head(q) = "accepted" /\ Tail(q) \in Seq({"accepted"})
    BY <2>2, QueueTail
  <2>4. PICK f \in Fds, o \in SocketRecords :
          f = FreeFd /\ fdt[f] = None /\ o = SocketOn(f) /\ o.fd = f /\ o.closed = FALSE
    BY <1>4, LowestFd, SocketOnIs
  <2>5. PICK r \in SocketRecords : r = [o EXCEPT !.connected = DetailsFromFd("accepted")]
    BY DEF SocketRecords, DetailsFromFd
  <2>6. r.fd = f /\ r.closed = FALSE
    BY <2>4, <2>5 DEF SocketRecords
  <2>7. sock' = [sock EXCEPT !["accepted"] = r] /\ fdt' = [fdt EXCEPT ![f] = "accepted"]
    BY <1>4, <2>2, <2>3, <2>4, <2>5
  <2>8. end' = [end EXCEPT ![e].queue = Tail(q)]
    BY <1>4, <2>2
  <2>9. end' \in [Ends -> EndRecords] /\ KeepsStreams
    <3>1. end \in [Ends -> EndRecords] /\ e = "listener"
      BY <1>1, <1>4, <2>1 DEF SocketTyped, Streams, StreamOf
    <3>. QED  BY <1>1, <1>2, <2>1, <2>3, <2>8, <3>1, QueueSet DEF KeepsStreams
  <2>10. call' \in [Callers -> CallRecords] /\ KeepsCalls
    BY <1>1, <1>4, CallMoves
  <2>11. "accepted" \in Sockets /\ "accepted" \in Ends /\ r # None
    BY SocketNames DEF Sockets, Ends
  <2>12. SocketTyped'
    BY <1>1, <1>2, <2>7, <2>9, <2>10, <2>11 DEF SocketTyped
  <2>13. /\ sock'["accepted"] = r /\ \A s \in Sockets : s # "accepted" => sock'[s] = sock[s]
         /\ fdt'[f] = "accepted" /\ \A g \in Fds : g # f => fdt'[g] = fdt[g]
    BY <1>1, <2>7, <2>11 DEF SocketTyped
  <2>14. Calls'
    BY <1>1, <2>10, <2>11, <2>13, QuietCalls
  <2>15. Streams'
    BY <1>1, <2>9, QuietStreams
  <2>16. ASSUME Owned PROVE Owned'
    <3>1. \A g \in Fds : fdt[g] # "accepted"
      BY <1>4, <2>11, <2>16, SocketNames DEF Owned
    <3>2. \A g \in Fds : fdt[g] # None => fdt[g] \in Sockets
      BY <1>1 DEF SocketTyped, Ends
    <3>. QED  BY <2>4, <2>6, <2>11, <2>13, <2>16, <3>1, <3>2, SocketNames DEF Owned
  <2>. QED  BY <2>12, <2>14, <2>15, <2>16 DEF SocketBase
<1>. QED  BY <1>3, <1>4 DEF Accept

LEMMA AcceptFailsKeeps ==
  ASSUME SocketBase, NEW t \in Callers, AcceptFails(t)
  PROVE  SocketBase' /\ (Owned => Owned')
<1>1. SocketTyped /\ Calls /\ Streams
  BY DEF SocketBase
<1>. DEFINE e == EndOf(call[t].s)
<1>2. /\ UNCHANGED <<sock, fdt>> /\ Return(t) /\ e \in Ends /\ end[e].queue # <<>>
      /\ end' = [EndsAfterClose(Head(end[e].queue)) EXCEPT ![e].queue = Tail(@)]
      /\ told' = HistoryAfterClose(told, Head(end[e].queue))
      /\ got' = HistoryAfterClose(got, Head(end[e].queue))
  BY <1>1, EndOfIs DEF AcceptFails
<1>. HIDE DEF e
<1>3. Head(end[e].queue) = "accepted" /\ "accepted" \in Ends
  <2>1. PICK q \in Seq({"accepted"}) : q = end[e].queue /\ q # <<>>
    BY <1>1, <1>2 DEF SocketTyped, EndRecords
  <2>. QED  BY <2>1, QueueTail DEF Ends, Sockets
<1>4. /\ told' = HistoryAfterClose(told, "accepted") /\ got' = HistoryAfterClose(got, "accepted")
      /\ told' \in [Ends -> Int] /\ got' \in [Ends -> Int]
  BY <1>1, <1>2, <1>3, ClosedEnds
<1>5. PICK E \in [Ends -> EndRecords] : E = EndsAfterClose("accepted")
  BY <1>1, <1>3, ClosedEnds
<1>6. e = "listener" /\ E[e].queue = end[e].queue
  <2>1. e = "listener" /\ end["accepted"].queue = <<>>
    BY <1>1, <1>2, <1>3 DEF Streams, StreamOf
  <2>2. e \notin Gone("accepted")
    BY <2>1, NothingQueued DEF Gone
  <2>3. PICK y \in EndRecords : y = end[e]
    BY <1>1, <1>2 DEF SocketTyped
  <2>4. E[e] \in {y, [y EXCEPT !.peer = None, !.eof = TRUE]}
    BY <1>2, <1>5, <2>2, <2>3 DEF EndsAfterClose
  <2>. QED  BY <2>1, <2>3, <2>4 DEF EndRecords
<1>7. PICK q \in Seq({"accepted"}) : q = end[e].queue /\ Tail(q) \in Seq({"accepted"})
  BY <1>1, <1>2, QueueTail DEF SocketTyped, EndRecords
<1>8. end' = [E EXCEPT ![e].queue = Tail(q)]
  <2>1. EndsAfterClose(Head(end[e].queue)) = E
    BY <1>3, <1>5
  <2>2. end' = [E EXCEPT ![e].queue = Tail(@)]
    BY <1>2, <2>1
  <2>. QED  BY <1>6, <1>7, <2>2
<1>9. /\ end' \in [Ends -> EndRecords]
      /\ \A x \in Ends : /\ end'[x].st = E[x].st /\ end'[x].peer = E[x].peer /\ end'[x].inq = E[x].inq
                         /\ x # "listener" => end'[x].queue = E[x].queue
  <2>1. PICK w \in Seq({"accepted"}) : w = Tail(q) /\ end' = [E EXCEPT ![e].queue = w]
    BY <1>7, <1>8
  <2>2. /\ end' \in [Ends -> EndRecords]
        /\ \A x \in Ends : /\ end'[x].st = E[x].st /\ end'[x].peer = E[x].peer /\ end'[x].inq = E[x].inq
                           /\ x # e => end'[x].queue = E[x].queue
    BY <1>1, <1>2, <2>1, QueueSet
  <2>. QED  BY <1>6, <2>2
<1>10. Streams'
  BY <1>1, <1>3, <1>4, <1>5, <1>9, ClosedStreams
<1>11. call' \in [Callers -> CallRecords] /\ KeepsCalls
  BY <1>1, <1>2, CallMoves
<1>12. KeepsFds
  BY <1>2 DEF KeepsFds
<1>13. SocketTyped'
  BY <1>1, <1>2, <1>4, <1>9, <1>11 DEF SocketTyped
<1>14. Calls'
  BY <1>1, <1>2, <1>11, QuietCalls
<1>. QED  BY <1>1, <1>10, <1>12, <1>13, <1>14, QuietOwned DEF SocketBase

------------------------------------------------------------------------------
(* Steps that connect two ends or move bytes.                               *)

LEMMA BytesMove ==
  ASSUME SocketBase, SocketTyped', KeepsFds, KeepsCalls, Streams'
  PROVE  SocketBase' /\ (Owned => Owned')
<1>1. SocketTyped /\ Calls
  BY DEF SocketBase
<1>2. Calls'
  BY <1>1, QuietCalls DEF KeepsFds
<1>. QED  BY <1>1, <1>2, QuietOwned DEF SocketBase

(* A handshake ends, in connect() itself or later.                          *)
LEMMA EstablishedKeeps ==
  ASSUME SocketBase, KeepsFds, KeepsCalls, call' \in [Callers -> CallRecords],
         sock' \in [Sockets -> SocketRecords \cup {None}], UNCHANGED <<told, got>>,
         end["client"].st # "connected", CanEstablish, end' = Established
  PROVE  SocketBase' /\ (Owned => Owned')
<1>1. SocketTyped /\ Streams
  BY DEF SocketBase
<1>2. Ends = {"client", "listener", "accepted"}
  BY DEF Ends, Sockets
<1>3. PICK x, y \in EndRecords :
        /\ x = end["client"] /\ y = end["listener"]
        /\ x.st # "connected" /\ y.st = "listening" /\ end["accepted"].st = "none"
  BY <1>1, <1>2 DEF SocketTyped, CanEstablish
<1>4. PICK q \in Seq({"accepted"}) : q = Append(y.queue, "accepted")
  <2>1. PICK w \in Seq({"accepted"}) : w = y.queue
    BY DEF EndRecords
  <2>2. Append(w, "accepted") \in Seq({"accepted"})
    OBVIOUS
  <2>. QED  BY <2>1, <2>2
<1>5. PICK c \in EndRecords : c = [x EXCEPT !.st = "connected", !.peer = "accepted"]
  BY <1>2 DEF EndRecords, States
<1>6. PICK l \in EndRecords : l = [y EXCEPT !.queue = q]
  BY DEF EndRecords
<1>7. PICK a \in EndRecords : a = [NoEnd EXCEPT !.st = "connected", !.peer = "client"]
  BY <1>2, NoneIs DEF EndRecords, States
<1>8. /\ c.st = "connected" /\ c.peer = "accepted" /\ c.inq = x.inq /\ c.queue = x.queue
      /\ l.st = "listening" /\ l.peer = y.peer /\ l.inq = y.inq /\ l.queue = q
      /\ a.st = "connected" /\ a.peer = "client" /\ a.inq = <<>> /\ a.queue = <<>>
  BY <1>3, <1>5, <1>6, <1>7, NoneIs DEF EndRecords
<1>9. /\ end' \in [Ends -> EndRecords]
      /\ end'["client"] = c /\ end'["listener"] = l /\ end'["accepted"] = a
  <2>1. end' = [end EXCEPT !["client"] = c, !["listener"] = l, !["accepted"] = a]
    BY <1>1, <1>2, <1>3, <1>4, <1>5, <1>6, <1>7 DEF Established, SocketTyped
  <2>. QED  BY <1>1, <1>2, <2>1 DEF SocketTyped
<1>10. /\ x.inq = <<>> /\ x.queue = <<>> /\ y.peer = None /\ y.inq = <<>>
       /\ \A e \in Ends : got[e] = 0 /\ told[e] = 0
  BY <1>1, <1>2, <1>3 DEF Streams, StreamOf
<1>11. \A e \in Ends : StreamOf(e)'
  BY <1>1, <1>2, <1>8, <1>9, <1>10 DEF StreamOf
<1>12. SocketTyped'
  BY <1>1, <1>9 DEF SocketTyped, KeepsFds
<1>. QED  BY <1>11, <1>12, BytesMove DEF Streams

LEMMA EstablishKeeps ==
  ASSUME SocketBase, Establish
  PROVE  SocketBase' /\ (Owned => Owned')
<1>1. /\ UNCHANGED <<sock, fdt, call, told, got>> /\ end["client"].st = "connecting"
      /\ CanEstablish /\ end' = Established
  BY DEF Establish
<1>2. KeepsFds /\ KeepsCalls
  BY <1>1 DEF KeepsFds, KeepsCalls
<1>. QED  BY <1>1, <1>2, EstablishedKeeps DEF SocketBase, SocketTyped

LEMMA ConnectKeeps ==
  ASSUME SocketBase, NEW t \in Callers, Connect(t)
  PROVE  SocketBase' /\ (Owned => Owned')
<1>. DEFINE e == EndOf(call[t].s)
<1>1. SocketTyped /\ Calls /\ call[t].op = "connect" /\ UNCHANGED <<fdt, told, got>>
  BY DEF SocketBase, Connect
<1>2. PICK s \in Sockets : s = call[t].s /\ sock[s] # None
  BY <1>1 DEF Calls
<1>3. PICK code \in IF e = None THEN {"EBADF"} ELSE SysConnect(e) :
        /\ end' = IF e = None THEN end ELSE AfterConnect(e, code)
        /\ sock' = [sock EXCEPT ![s].connected = @ \/ code = "OK"]
        /\ call' = call \/ MoveTo(t, "wait") \/ Return(t)
  BY <1>2 DEF Connect
<1>4. call' \in [Callers -> CallRecords] /\ KeepsCalls
  <2>1. CASE call' = call
    BY <1>1, <2>1 DEF SocketTyped, KeepsCalls
  <2>. QED  BY <1>1, <1>3, <2>1, CallMoves
<1>5. sock' \in [Sockets -> SocketRecords \cup {None}] /\ KeepsFds
  <2>1. PICK b \in BOOLEAN : b = (sock[s].connected \/ code = "OK")
    OBVIOUS
  <2>2. sock' = [sock EXCEPT ![s].connected = b]
    BY <1>3, <2>1
  <2>. QED  BY <1>1, <1>2, <2>2, FlagSet
<1>6. CASE end' = end
  <2>1. Quiet
    BY <1>1, <1>4, <1>5, <1>6 DEF Quiet, KeepsStreams, SocketTyped
  <2>. QED  BY <2>1, QuietKeeps
<1>7. CASE end' # end
  <2>1. e \in Ends /\ code \in SysConnect(e) /\ end' = AfterConnect(e, code)
    BY <1>1, <1>3, <1>7, EndOfIs
  <2>. HIDE DEF e
  <2>2. CASE code = "OK"
    <3>1. end[e].st = "fresh" /\ end' = Established
      BY <1>7, <2>1, <2>2 DEF AfterConnect
    <3>2. e = "client" /\ CanEstablish
      BY <2>1, <2>2, <3>1 DEF SysConnect
    <3>. QED  BY <1>1, <1>4, <1>5, <3>1, <3>2, EstablishedKeeps
  <2>3. CASE code # "OK"
    <3>1. PICK st \in {"fresh", "connecting"} : end' = [end EXCEPT ![e].st = st]
      BY <1>7, <2>1, <2>3 DEF AfterConnect
    <3>2. end[e].st # "connected"
      <4>1. code \in {"EINPROGRESS", "EINTR", "ECONNREFUSED"}
        BY <1>7, <2>1, <2>3 DEF AfterConnect
      <4>. QED  BY <2>1, <4>1 DEF SysConnect
    <3>3. st \in States \ {"connected"}
      BY DEF States
    <3>4. end' \in [Ends -> EndRecords] /\ KeepsStreams
      BY <1>1, <2>1, <3>1, <3>2, <3>3, StateSet
    <3>5. Quiet
      BY <1>1, <1>4, <1>5, <3>4 DEF Quiet, SocketTyped
    <3>. QED  BY <3>5, QuietKeeps
  <2>. QED  BY <2>2, <2>3
<1>. QED  BY <1>6, <1>7

(* Some bytes of an end are read: the rest goes on after them.              *)
LEMMA SequenceRest ==
  ASSUME NEW q \in Seq(Int), NEW g \in Int, NEW n \in 1..Len(q),
         \A i \in 1..Len(q) : q[i] = g + i
  PROVE  /\ SubSeq(q, 1, n) = [i \in 1..n |-> g + i]
         /\ SubSeq(q, n + 1, Len(q)) \in Seq(Int) /\ Len(SubSeq(q, n + 1, Len(q))) = Len(q) - n
         /\ \A i \in 1..(Len(q) - n) : SubSeq(q, n + 1, Len(q))[i] = (g + n) + i
<1>1. Len(q) \in Nat /\ n \in Int /\ 1 <= n /\ n <= Len(q)
  OBVIOUS
<1>2. SubSeq(q, 1, n) = [i \in 1..n |-> g + i]
  <2>1. SubSeq(q, 1, n) = [i \in 1..n |-> q[i]]
    BY <1>1
  <2>. QED  BY <1>1, <2>1
<1>3. SubSeq(q, n + 1, Len(q)) \in Seq(Int) /\ Len(SubSeq(q, n + 1, Len(q))) = Len(q) - n
  BY <1>1
<1>4. \A i \in 1..(Len(q) - n) : SubSeq(q, n + 1, Len(q))[i] = q[n + i]
  BY <1>1
<1>. QED  BY <1>1, <1>2, <1>3, <1>4

(* The bytes that have arrived at an end are set.                           *)
LEMMA ArrivedSet ==
  ASSUME SocketTyped, NEW e \in Ends, NEW w \in Seq(Int), end' = [end EXCEPT ![e].inq = w]
  PROVE  /\ end' \in [Ends -> EndRecords] /\ end'[e].inq = w
         /\ \A x \in Ends : /\ end'[x].st = end[x].st /\ end'[x].peer = end[x].peer
                            /\ end'[x].queue = end[x].queue
                            /\ x # e => end'[x].inq = end[x].inq
<1>1. PICK y \in EndRecords : y = end[e]
  BY DEF SocketTyped
<1>2. PICK z \in EndRecords : z = [y EXCEPT !.inq = w]
  BY DEF EndRecords
<1>3. z.st = y.st /\ z.peer = y.peer /\ z.queue = y.queue /\ z.inq = w
  BY <1>2 DEF EndRecords
<1>4. end' = [end EXCEPT ![e] = z]
  BY <1>1, <1>2
<1>. QED  BY <1>1, <1>3, <1>4 DEF SocketTyped

LEMMA ReadKeeps ==
  ASSUME SocketBase, NEW t \in Callers, NEW op, Read(t, op)
  PROVE  SocketBase' /\ (Owned => Owned')
<1>1. SocketTyped /\ Streams /\ UNCHANGED <<sock, fdt, told>>
  BY DEF SocketBase, Read
<1>2. CASE UNCHANGED <<end, got>> /\ (Return(t) \/ \E code : Again(t, code))
  <2>1. Quiet
    BY <1>1, <1>2, CallMoves, AgainMoves, CallOnly
  <2>. QED  BY <1>2, <2>1, QuietKeeps
<1>3. CASE ~(UNCHANGED <<end, got>> /\ (Return(t) \/ \E code : Again(t, code)))
  <2>. DEFINE e == EndOf(call[t].s)
  <2>1. /\ e \in Ends /\ Return(t)
        /\ \E n \in 1..Len(end[e].inq) :
             /\ end' = [end EXCEPT ![e].inq = SubSeq(@, n + 1, Len(@))]
             /\ got' = [got EXCEPT ![e] = IF SubSeq(end[e].inq, 1, n) = [i \in 1..n |-> @ + i]
                                          THEN @ + n ELSE -1]
    BY <1>1, <1>3, EndOfIs DEF Read
  <2>. HIDE DEF e
  <2>2. PICK q \in Seq(Int), g \in Int : q = end[e].inq /\ g = got[e]
    BY <1>1, <2>1 DEF SocketTyped, EndRecords
  <2>3. StreamOf(e)
    BY <1>1, <2>1 DEF Streams
  <2>4. g >= 0 /\ \A i \in 1..Len(q) : q[i] = g + i
    BY <2>2, <2>3 DEF StreamOf
  <2>5. PICK n \in 1..Len(q) :
          /\ end' = [end EXCEPT ![e].inq = SubSeq(q, n + 1, Len(q))]
          /\ got' = [got EXCEPT ![e] = IF SubSeq(q, 1, n) = [i \in 1..n |-> g + i] THEN g + n ELSE -1]
    <3>1. PICK n \in 1..Len(end[e].inq) :
            /\ end' = [end EXCEPT ![e].inq = SubSeq(@, n + 1, Len(@))]
            /\ got' = [got EXCEPT ![e] = IF SubSeq(end[e].inq, 1, n) = [i \in 1..n |-> @ + i]
                                         THEN @ + n ELSE -1]
      BY <2>1, Zenon
    <3>2. end' = [end EXCEPT ![e].inq = SubSeq(q, n + 1, Len(q))]
      BY <2>2, <3>1
    <3>3. got' = [got EXCEPT ![e] = IF SubSeq(q, 1, n) = [i \in 1..n |-> g + i] THEN g + n ELSE -1]
      BY <2>2, <3>1
    <3>. QED  BY <2>2, <3>1, <3>2, <3>3
  <2>6. PICK w \in Seq(Int) :
          /\ end' = [end EXCEPT ![e].inq = w] /\ Len(w) = Len(q) - n
          /\ \A i \in 1..Len(w) : w[i] = (g + n) + i
    <3>1. PICK w : w = SubSeq(q, n + 1, Len(q))
      OBVIOUS
    <3>2. w \in Seq(Int) /\ Len(w) = Len(q) - n /\ \A i \in 1..(Len(q) - n) : w[i] = (g + n) + i
      BY <2>4, <3>1, SequenceRest
    <3>. QED  BY <2>5, <3>1, <3>2
  <2>7. got' = [got EXCEPT ![e] = g + n]
    BY <2>4, <2>5, SequenceRest
  <2>8. n \in Nat /\ Len(q) \in Nat /\ q # <<>>
    BY <2>5
  <2>9. /\ end' \in [Ends -> EndRecords] /\ end'[e].inq = w
        /\ \A x \in Ends : /\ end'[x].st = end[x].st /\ end'[x].peer = end[x].peer
                           /\ end'[x].queue = end[x].queue
                           /\ x # e => end'[x].inq = end[x].inq
    BY <1>1, <2>1, <2>6, ArrivedSet
  <2>10. /\ got' \in [Ends -> Int] /\ got'[e] = g + n
         /\ \A x \in Ends : x # e => got'[x] = got[x]
    <3>1. PICK h \in Int : h = g + n
      BY <2>8
    <3>2. got \in [Ends -> Int] /\ got' = [got EXCEPT ![e] = h]
      BY <1>1, <2>7, <3>1 DEF SocketTyped
    <3>. QED  BY <2>1, <3>1, <3>2
  <2>11. SocketTyped' /\ KeepsFds /\ KeepsCalls
    BY <1>1, <2>1, <2>9, <2>10, CallMoves DEF SocketTyped, KeepsFds
  <2>12. ASSUME NEW x \in Ends PROVE StreamOf(x)'
    <3>1. StreamOf(x) /\ end[x].peer \in Ends \cup {None}
      BY <1>1 DEF Streams, SocketTyped, EndRecords
    <3>2. PICK p : p = end[x].peer
      OBVIOUS
    <3>3. /\ end'[x].peer = p /\ told' = told /\ end'[x].st = end[x].st /\ end'[x].queue = end[x].queue
          /\ p # None => end'[p].peer = end[p].peer
      BY <1>1, <2>9, <3>1, <3>2
    <3>4. CASE x # e
      <4>1. PICK v, h : v = end[x].inq /\ h = got[x] /\ end'[x].inq = v /\ got'[x] = h
        BY <2>9, <2>10, <3>4
      <4>. QED  BY <3>1, <3>2, <3>3, <4>1 DEF StreamOf
    <3>5. CASE x = e
      <4>1. end[e].st = "connected"
        BY <2>2, <2>3, <2>8 DEF StreamOf
      <4>2. p # None => (g + n) + Len(w) = told[p]
        <5>1. p # None => g + Len(q) = told[p]
          BY <2>2, <3>1, <3>2, <3>5 DEF StreamOf
        <5>. QED  BY <2>6, <2>8, <5>1
      <4>3. g + n >= 0
        BY <2>4, <2>8
      <4>. QED  BY <2>3, <2>6, <2>9, <2>10, <3>1, <3>2, <3>3, <3>5, <4>1, <4>2, <4>3 DEF StreamOf
    <3>. QED  BY <3>4, <3>5
  <2>. QED  BY <2>9, <2>11, <2>12, BytesMove DEF Streams
<1>. QED  BY <1>2, <1>3

(* More bytes arrive: they go on after the ones that are there.             *)
LEMMA SequenceMore ==
  ASSUME NEW q \in Seq(Int), NEW m \in Seq(Int), NEW g \in Int, NEW d \in Int, g + Len(q) = d,
         \A i \in 1..Len(q) : q[i] = g + i,
         \A i \in 1..Len(m) : m[i] = d + i
  PROVE  /\ q \o m \in Seq(Int) /\ Len(q \o m) = Len(q) + Len(m)
         /\ \A i \in 1..Len(q \o m) : (q \o m)[i] = g + i
<1>1. PICK k \in Nat, l \in Nat : k = Len(q) /\ l = Len(m)
  OBVIOUS
<1>2. q \o m \in Seq(Int) /\ Len(q \o m) = k + l
  BY <1>1
<1>3. ASSUME NEW i \in 1..(k + l) PROVE (q \o m)[i] = g + i
  <2>1. CASE i <= k
    BY <1>1, <2>1
  <2>2. CASE i > k
    <3>1. PICK j \in 1..l : i = j + k
      <4>1. i - k \in 1..l /\ i = (i - k) + k
        BY <2>2
      <4>. QED  BY <4>1
    <3>2. (q \o m)[i] = m[j]
      BY <1>1, <3>1
    <3>3. m[j] = d + j /\ g + k = d
      BY <1>1
    <3>. QED  BY <3>1, <3>2, <3>3
  <2>3. i <= k \/ i > k
    BY <1>1
  <2>. QED  BY <2>1, <2>2, <2>3, Zenon
<1>. QED  BY <1>1, <1>2, <1>3

LEMMA NewBytes ==
  ASSUME NEW n \in 1..2, NEW d \in Int
  PROVE  \E m \in Seq(Int) : /\ m = [i \in 1..n |-> d + i] /\ Len(m) = n
                             /\ \A i \in 1..Len(m) : m[i] = d + i
<1>1. PICK m : m = [i \in 1..n |-> d + i]
  OBVIOUS
<1>2. m \in Seq(Int) /\ Len(m) = n
  BY <1>1
<1>. QED  BY <1>1, <1>2

LEMMA SendKeeps ==
  ASSUME SocketBase, NEW t \in Callers, Send(t)
  PROVE  SocketBase' /\ (Owned => Owned')
<1>1. SocketTyped /\ Streams /\ UNCHANGED <<sock, fdt, got>>
  BY DEF SocketBase, Send
<1>2. CASE UNCHANGED <<end, told>> /\ \E code : Again(t, code)
  <2>1. Quiet
    BY <1>1, <1>2, AgainMoves, CallOnly
  <2>. QED  BY <1>2, <2>1, QuietKeeps
<1>3. CASE ~(UNCHANGED <<end, told>> /\ \E code : Again(t, code))
  <2>. DEFINE e == EndOf(call[t].s)
  <2>1. /\ e \in Ends /\ end[e].peer # None /\ Return(t)
        /\ \E n \in 1..2 :
             /\ end' = [end EXCEPT ![end[e].peer].inq = @ \o [i \in 1..n |-> told[e] + i]]
             /\ told' = [told EXCEPT ![e] = @ + Reported(n)]
    BY <1>1, <1>3, EndOfIs DEF Send
  <2>. HIDE DEF e
  <2>2. PICK p \in Ends : p = end[e].peer
    BY <1>1, <2>1 DEF SocketTyped, EndRecords
  <2>3. StreamOf(e) /\ StreamOf(p)
    BY <1>1, <2>1 DEF Streams
  <2>4. PICK q \in Seq(Int), g \in Int, d \in Int : q = end[p].inq /\ g = got[p] /\ d = told[e]
    BY <1>1, <2>1 DEF SocketTyped, EndRecords
  <2>5. /\ end[p].peer = e /\ g >= 0 /\ d >= 0 /\ g + Len(q) = d
        /\ \A i \in 1..Len(q) : q[i] = g + i
    <3>1. end[p].peer = e /\ d >= 0 /\ e # None
      BY <2>1, <2>2, <2>3, <2>4, SocketNames DEF StreamOf, Ends
    <3>2. g >= 0 /\ \A i \in 1..Len(q) : q[i] = g + i
      BY <2>3, <2>4 DEF StreamOf
    <3>3. got[p] + Len(end[p].inq) = told[e]
      BY <2>3, <3>1 DEF StreamOf
    <3>. QED  BY <2>4, <3>1, <3>2, <3>3
  <2>6. PICK n \in 1..2 :
          /\ end' = [end EXCEPT ![p].inq = q \o [i \in 1..n |-> d + i]]
          /\ told' = [told EXCEPT ![e] = d + n]
    BY <2>1, <2>2, <2>4 DEF Reported
  <2>7. PICK m \in Seq(Int) : /\ m = [i \in 1..n |-> d + i] /\ Len(m) = n
                              /\ \A i \in 1..Len(m) : m[i] = d + i
    BY NewBytes
  <2>8. PICK w \in Seq(Int) : /\ end' = [end EXCEPT ![p].inq = w] /\ Len(w) = Len(q) + n
                              /\ \A i \in 1..Len(w) : w[i] = g + i
    <3>1. PICK w : w = q \o m
      OBVIOUS
    <3>2. /\ q \o m \in Seq(Int) /\ Len(q \o m) = Len(q) + Len(m)
          /\ \A i \in 1..Len(q \o m) : (q \o m)[i] = g + i
      BY <2>5, <2>7, SequenceMore
    <3>. QED  BY <2>6, <2>7, <3>1, <3>2
  <2>9. n \in Nat /\ Len(q) \in Nat
    BY <2>6
  <2>10. /\ end' \in [Ends -> EndRecords] /\ end'[p].inq = w
         /\ \A x \in Ends : /\ end'[x].st = end[x].st /\ end'[x].peer = end[x].peer
                            /\ end'[x].queue = end[x].queue
                            /\ x # p => end'[x].inq = end[x].inq
    BY <1>1, <2>8, ArrivedSet
  <2>11. /\ told' \in [Ends -> Int] /\ told'[e] = d + n
         /\ \A x \in Ends : x # e => told'[x] = told[x]
    <3>1. PICK h \in Int : h = d + n
      BY <2>9
    <3>2. told \in [Ends -> Int] /\ told' = [told EXCEPT ![e] = h]
      BY <1>1, <2>6, <3>1 DEF SocketTyped
    <3>. QED  BY <2>1, <3>1, <3>2
  <2>12. SocketTyped' /\ KeepsFds /\ KeepsCalls
    BY <1>1, <2>1, <2>10, <2>11, CallMoves DEF SocketTyped, KeepsFds
  <2>13. end[e].st = "connected" /\ end[p].st = "connected"
    <3>1. e # None
      BY <2>1, SocketNames DEF Ends
    <3>. QED  BY <2>1, <2>3, <2>5, <3>1 DEF StreamOf
  <2>14. ASSUME NEW x \in Ends PROVE StreamOf(x)'
    <3>1. StreamOf(x) /\ end[x].peer \in Ends \cup {None}
      BY <1>1 DEF Streams, SocketTyped, EndRecords
    <3>2. PICK o : o = end[x].peer
      OBVIOUS
    <3>3. /\ end'[x].peer = o /\ got' = got /\ end'[x].st = end[x].st /\ end'[x].queue = end[x].queue
          /\ o # None => end'[o].peer = end[o].peer
      BY <1>1, <2>10, <3>1, <3>2
    <3>4. told'[x] >= 0 /\ (end[x].st # "connected" => told'[x] = told[x])
      BY <2>5, <2>9, <2>11, <2>13, <3>1 DEF StreamOf
    <3>5. CASE x # p
      <4>1. PICK v : v = end[x].inq /\ end'[x].inq = v
        BY <2>10, <3>5
      <4>2. o # None => o # e
        BY <2>2, <3>1, <3>2, <3>5 DEF StreamOf
      <4>3. o # None => told'[o] = told[o]
        BY <2>11, <3>1, <3>2, <4>2
      <4>. QED  BY <3>1, <3>2, <3>3, <3>4, <4>1, <4>3 DEF StreamOf
    <3>6. CASE x = p
      <4>1. o = e
        BY <2>5, <3>2, <3>6
      <4>2. g + Len(w) = told'[e]
        BY <2>5, <2>8, <2>9, <2>11
      <4>. QED  BY <2>4, <2>5, <2>8, <2>10, <2>13, <3>1, <3>2, <3>3, <3>4, <3>6, <4>1, <4>2 DEF StreamOf
    <3>. QED  BY <3>5, <3>6
  <2>. QED  BY <2>10, <2>12, <2>14, BytesMove DEF Streams
<1>. QED  BY <1>2, <1>3

------------------------------------------------------------------------------
(* The invariant holds, and what it gives.                                  *)

LEMMA SocketStart ==
  ASSUME SocketInit
  PROVE  SocketBase /\ Owned
<1>1. /\ sock = [s \in Sockets |-> None] /\ fdt = [f \in Fds |-> None]
      /\ end = [e \in Ends |-> NoEnd] /\ call = [t \in Callers |-> NoCall]
      /\ told = [e \in Ends |-> 0] /\ got = [e \in Ends |-> 0]
  BY DEF SocketInit
<1>2. SocketTyped /\ Calls /\ Owned
  BY <1>1, NoneIs DEF SocketTyped, Calls, Owned
<1>3. Streams
  BY <1>1, NoneIs DEF Streams, StreamOf
<1>. QED  BY <1>2, <1>3 DEF SocketBase

LEMMA CallStepKeeps ==
  ASSUME SocketBase, NEW t \in Callers, CallStep(t)
  PROVE  SocketBase' /\ (Owned => Owned')
<1>1. SocketTyped /\ Calls
  BY DEF SocketBase
<1>2. CASE WaitReady(t) \/ TimePasses(t) \/ WaitTimeout(t) \/ WaitInterrupted(t)
  BY <1>1, <1>2, WaitQuiet, QuietKeeps
<1>3. CASE Connect(t)
  BY <1>3, ConnectKeeps
<1>4. CASE ConnectWaited(t)
  BY <1>1, <1>4, ResultQuiet, QuietKeeps
<1>5. CASE Accept(t)
  BY <1>5, AcceptKeeps
<1>6. CASE AcceptFails(t)
  BY <1>6, AcceptFailsKeeps
<1>7. CASE Receive(t) \/ ReceiveFrom(t)
  BY <1>7, ReadKeeps DEF Receive, ReceiveFrom
<1>8. CASE Send(t)
  BY <1>8, SendKeeps
<1>. QED  BY <1>2, <1>3, <1>4, <1>5, <1>6, <1>7, <1>8 DEF CallStep

LEMMA SocketStepKeeps ==
  ASSUME SocketBase, [SocketNext]_socketVars
  PROVE  SocketBase' /\ (CloseFails = FALSE /\ Owned => Owned')
<1>1. SocketTyped /\ Calls
  BY DEF SocketBase
<1>2. ASSUME NEW s \in Sockets, New(s) PROVE SocketBase' /\ (Owned => Owned')
  BY <1>2, NewKeeps
<1>3. ASSUME NEW s \in Sockets, Bind(s) \/ Listen(s) PROVE SocketBase' /\ (Owned => Owned')
  BY <1>1, <1>3, SetUpQuiet, QuietKeeps
<1>4. ASSUME NEW s \in Sockets, Close(s) \/ FreeSocket(s)
      PROVE  SocketBase' /\ (CloseFails = FALSE /\ Owned => Owned')
  BY <1>4, CloseKeeps
<1>5. ASSUME NEW s \in Sockets, CheckConnectResult(s) PROVE SocketBase' /\ (Owned => Owned')
  BY <1>1, <1>5, ResultQuiet, QuietKeeps
<1>6. ASSUME NEW s \in Sockets, NEW r \in BOOLEAN, NEW w \in BOOLEAN, Shutdown(s, r, w)
      PROVE  SocketBase' /\ (Owned => Owned')
  BY <1>1, <1>6, ShutdownQuiet, QuietKeeps
<1>7. ASSUME NEW s \in Tuned, NEW b \in BOOLEAN, SetBlocking(s, b) \/ SetTimeout(s, b)
      PROVE  SocketBase' /\ (Owned => Owned')
  <2>1. s \in Sockets
    BY SocketNames
  <2>. QED  BY <1>1, <1>7, <2>1, SetUpQuiet, QuietKeeps
<1>8. ASSUME NEW t \in Callers, NEW d \in Duties[t], EnterCall(t, d[1], d[2])
      PROVE  SocketBase' /\ (Owned => Owned')
  <2>1. d[1] \in Operations /\ d[2] \in Sockets
    BY SocketNames
  <2>. QED  BY <1>8, <2>1, EnterKeeps
<1>9. ASSUME NEW t \in Callers, CallStep(t) PROVE SocketBase' /\ (Owned => Owned')
  BY <1>9, CallStepKeeps
<1>13. ASSUME NEW t \in Callers, WaitErrs(t) PROVE SocketBase' /\ (Owned => Owned')
  BY <1>1, <1>13, WaitQuiet, QuietKeeps
<1>10. CASE Establish
  BY <1>10, EstablishKeeps
<1>11. CASE Refuse
  BY <1>1, <1>11, RefuseQuiet, QuietKeeps
<1>12. CASE UNCHANGED socketVars
  <2>1. Quiet
    BY <1>1, <1>12, CallOnly DEF socketVars, KeepsCalls, SocketTyped
  <2>. QED  BY <2>1, QuietKeeps
<1>. QED  BY <1>2, <1>3, <1>4, <1>5, <1>6, <1>7, <1>8, <1>9, <1>10, <1>11, <1>12, <1>13 DEF SocketNext

LEMMA FdOwnedFrom ==
  ASSUME SocketTyped, Owned
  PROVE  FdOwned
<1>. SUFFICES ASSUME NEW f \in Fds
              PROVE  Cardinality({s \in Sockets : sock[s] # None /\ sock[s].fd = f})
                       = (IF fdt[f] = None THEN 0 ELSE 1)
  BY DEF FdOwned
<1>. DEFINE owners == {s \in Sockets : sock[s] # None /\ sock[s].fd = f}
<1>1. CASE fdt[f] = None
  <2>1. owners = {}
    BY <1>1, SocketNames DEF Owned
  <2>2. Cardinality(owners) = 0
    BY <2>1, FS_EmptySet, Zenon
  <2>. QED  BY <1>1, <2>2
<1>2. CASE fdt[f] # None
  <2>1. PICK s \in Sockets : s = fdt[f]
    BY <1>2 DEF SocketTyped, Ends
  <2>2. owners = {s}
    BY <1>2, <2>1 DEF Owned
  <2>3. Cardinality(owners) = 1
    BY <2>2, FS_Singleton, Zenon
  <2>. QED  BY <1>2, <2>3
<1>. QED  BY <1>1, <1>2

(* The bytes that zsocket_receive() and zsocket_receive_from() hand out are *)
(* the ones that zsocket_send() said it had taken, in order and once, for   *)
(* any number of threads that wait, are overtaken and try again, through    *)
(* shutdown and close on either side.                                       *)
THEOREM StreamsIntact == SocketSpec => []StreamIntact
<1>1. SocketInit => SocketBase
  BY SocketStart
<1>2. SocketBase /\ [SocketNext]_socketVars => SocketBase'
  BY SocketStepKeeps
<1>3. SocketBase => StreamIntact
  BY DEF SocketBase, Streams, StreamOf, StreamIntact
<1>. QED  BY <1>1, <1>2, <1>3, PTL DEF SocketSpec

(* While close() does not fail, every open descriptor belongs to exactly    *)
(* one PSocket and no PSocket holds a number that is not its own, after any *)
(* sequence of zsocket_new(), zsocket_accept() with its failures,           *)
(* zsocket_close() and zsocket_free().                                      *)
THEOREM DescriptorsOwned ==
  ASSUME CloseFails = FALSE
  PROVE  SocketSpec => []FdOwned
<1>1. SocketInit => SocketBase /\ Owned
  BY SocketStart
<1>2. SocketBase /\ Owned /\ [SocketNext]_socketVars => SocketBase' /\ Owned'
  BY SocketStepKeeps
<1>3. SocketBase /\ Owned => FdOwned
  BY FdOwnedFrom DEF SocketBase
<1>. QED  BY <1>1, <1>2, <1>3, PTL DEF SocketSpec
==============================================================================
