------------------------------ MODULE PSocket ------------------------------
(***************************************************************************)
(* lib/psocket.c for stream sockets: how it builds blocking calls from a   *)
(* descriptor that never blocks.  A descriptor is always non-blocking; a   *)
(* blocking call waits in zsocket_io_condition_wait() and tries again when *)
(* the system still says "would block", which happens when another thread  *)
(* was faster.  Threads call operations on shared sockets; the library has *)
(* no lock around a PSocket.                                               *)
(*                                                                         *)
(* The system's side is external: descriptors are numbers for the ends of  *)
(* connections, and an end is fresh, listening, connecting, failed or      *)
(* connected, with the bytes that arrived and not yet read.  The bytes of  *)
(* a direction are 1, 2, 3...: the caller sends on from where the library  *)
(* told it that it is.                                                     *)
(***************************************************************************)
EXTENDS Integers, Sequences, FiniteSets, SequencesExt, PErrors

CONSTANTS Callers,     \* threads that call
          Fds,         \* descriptors
          None,
          Builds,      \* systems the library is built for
          Duties,      \* what every thread calls: pairs of operation and socket
          Tuned,       \* sockets whose mode and timeout are set
          MaxNew,      \* bound on the calls of zsocket_new()
          MaxBytes,    \* bound on the bytes sent in a direction
          Room,        \* bytes the system keeps for a reader
          CloseFails   \* may close() release the descriptor and still fail?

ASSUME SocketSizes == /\ Builds \subseteq Systems /\ Fds \subseteq Nat
                      /\ MaxBytes \in Nat /\ Room \in Nat \ {0}
                      /\ CloseFails \in BOOLEAN

VARIABLES sys,      \* the system of this build
          sock,     \* the PSocket in every place, or None
          fdt,      \* the end behind every descriptor, or None
          end,      \* the ends
          call,     \* the call every thread is in
          told,     \* bytes sent by an end, as its callers were told
          got,      \* bytes handed to the readers of an end
          made      \* calls of zsocket_new() so far

socketVars == <<sys, sock, fdt, end, call, told, got, made>>

\* Places for the sockets of a client, of a listener and of what it accepts; an
\* end in the system has the name of the socket it is for.
Sockets == {"client", "listener", "accepted"}
Ends == Sockets
Operations == {"connect", "accept", "send", "receive", "receive_from"}
SocketRecords == [fd : Fds \cup {-1}, blocking : BOOLEAN, timed : BOOLEAN,
                  closed : BOOLEAN, connected : BOOLEAN, listening : BOOLEAN]

ASSUME SocketNames == /\ None \notin Sockets \cup SocketRecords
                      /\ Tuned \subseteq Sockets
                      /\ \A t \in Callers : Duties[t] \subseteq Operations \X Sockets

NoCall == [op |-> "none", s |-> None, at |-> "none"]
NoEnd == [st |-> "none", peer |-> None, inq |-> <<>>, eof |-> FALSE, wr |-> TRUE, queue |-> <<>>]

EndOf(s) == IF sock[s].fd \in Fds THEN fdt[sock[s].fd] ELSE None
FreeFd == CHOOSE f \in Fds : fdt[f] = None /\ \A g \in Fds : fdt[g] = None => f <= g
HasFreeFd == \E f \in Fds : fdt[f] = None
Busy(s) == \E t \in Callers : call[t].s = s

-----------------------------------------------------------------------------
(* The system. *)

\* The two ends of a connection that nobody has accepted yet.
CanEstablish == end["listener"].st = "listening" /\ end["accepted"].st = "none"
Established ==
    [end EXCEPT !["client"].st = "connected", !["client"].peer = "accepted",
                !["listener"].queue = Append(@, "accepted"),
                !["accepted"] = [NoEnd EXCEPT !.st = "connected", !.peer = "client"]]

\* connect() on a descriptor that does not block: what it may answer, and the
\* ends after it.  A signal interrupts the call and not the attempt; the answer
\* to the first call after the handshake may be success.
SysConnect(e) ==
    CASE end[e].st = "fresh" ->
           {"EINPROGRESS"} \cup {c \in {"EINTR"} : sys # "win"}
           \cup {c \in {"OK"} : e = "client" /\ CanEstablish}
           \cup {c \in {"ECONNREFUSED"} : \A l \in Ends : end[l].st # "listening"}
      [] end[e].st = "connecting" -> {"EALREADY"}
      [] end[e].st = "connected" -> {"OK", "EISCONN"}
      [] end[e].st = "failed" -> {"ECONNREFUSED"}
      [] OTHER -> {"EINVAL"}
AfterConnect(e, code) ==
    CASE code \in {"EINPROGRESS", "EINTR"} -> [end EXCEPT ![e].st = "connecting"]
      [] code = "OK" /\ end[e].st = "fresh" -> Established
      [] code = "ECONNREFUSED" -> [end EXCEPT ![e].st = "fresh"]
      [] OTHER -> end

\* The code of a system for a condition of a socket.
Native(code) ==
    CASE sys = "unix" -> code [] sys = "win" -> WinSocket[code] [] OTHER -> Os2Socket[code]

\* The handshake ends: the peer is in the queue of the listener, or nobody
\* listens any more.
Establish ==
    /\ end["client"].st = "connecting" /\ CanEstablish
    /\ end' = Established
    /\ UNCHANGED <<sys, sock, fdt, call, told, got, made>>

Refuse ==
    /\ end["client"].st = "connecting"
    /\ end' = [end EXCEPT !["client"].st = "failed"]
    /\ UNCHANGED <<sys, sock, fdt, call, told, got, made>>

\* A reader is ready with data, at the end of the data, or on an error; the
\* events FD_READ and FD_ACCEPT of Windows tell of the first only.
Readable(e) ==
    \/ end[e].inq # <<>> \/ end[e].queue # <<>>
    \/ sys # "win" /\ (end[e].eof \/ end[e].st \in {"fresh", "failed"})
Writable(e) ==
    CASE end[e].st = "connected" ->
           end[e].peer # None /\ end[e].wr => Len(end[end[e].peer].inq) < Room
      [] end[e].st = "failed" -> TRUE
      [] OTHER -> sys # "win" /\ end[e].st = "fresh"

\* The last descriptor of an end is closed: the peer comes to the end of the
\* data, connections that nobody accepted are reset.
Gone(e) == {e} \cup Range(end[e].queue)
EndsAfterClose(e) ==
    [x \in Ends |-> IF x \in Gone(e) THEN NoEnd
                    ELSE IF end[x].peer \in Gone(e) THEN [end[x] EXCEPT !.peer = None, !.eof = TRUE]
                    ELSE end[x]]
HistoryAfterClose(h, e) == [x \in Ends |-> IF x \in Gone(e) THEN 0 ELSE h[x]]

-----------------------------------------------------------------------------
(* Making and closing sockets. *)

SocketOn(fd) == [fd |-> fd, blocking |-> TRUE, timed |-> FALSE,
                 closed |-> FALSE, connected |-> FALSE, listening |-> FALSE]

\* zsocket_new(): without a descriptor there is no socket.
New(s) ==
    /\ s # "accepted" /\ sock[s] = None /\ HasFreeFd /\ end[s].st = "none"
    /\ end' = [end EXCEPT ![s].st = "fresh"]
    /\ fdt' = [fdt EXCEPT ![FreeFd] = s]
    /\ sock' = [sock EXCEPT ![s] = SocketOn(FreeFd)]
    /\ made < MaxNew /\ made' = made + 1
    /\ UNCHANGED <<sys, call, told, got>>

\* zsocket_bind(): the address may be in use, then nothing changes.
Bind(s) ==
    /\ s = "listener" /\ sock[s] # None /\ ~sock[s].closed /\ ~Busy(s)
    /\ EndOf(s) # None /\ end[EndOf(s)].st = "fresh"
    /\ end' = [end EXCEPT ![EndOf(s)].st = "bound"]
    /\ UNCHANGED <<sys, sock, fdt, call, told, got, made>>

Listen(s) ==
    /\ sock[s] # None /\ ~sock[s].closed /\ ~Busy(s)
    /\ EndOf(s) # None /\ end[EndOf(s)].st = "bound"
    /\ end' = [end EXCEPT ![EndOf(s)].st = "listening"]
    /\ sock' = [sock EXCEPT ![s].listening = TRUE]
    /\ UNCHANGED <<sys, fdt, call, told, got, made>>

\* zsys_close(): the descriptor is free again, whatever the result.
Release(fd) ==
    IF fd \in Fds /\ fdt[fd] # None
    THEN /\ end' = EndsAfterClose(fdt[fd]) /\ fdt' = [fdt EXCEPT ![fd] = None]
         /\ told' = HistoryAfterClose(told, fdt[fd]) /\ got' = HistoryAfterClose(got, fdt[fd])
    ELSE UNCHANGED <<end, fdt, told, got>>

\* zsocket_close().  Nothing changes in a socket whose close() failed.
CloseFlags(s) == [sock[s] EXCEPT !.connected = FALSE, !.closed = TRUE,
                                 !.listening = FALSE, !.fd = -1]
Close(s) ==
    /\ sock[s] # None /\ ~sock[s].closed /\ ~Busy(s)
    /\ Release(sock[s].fd)
    /\ \/ sock' = [sock EXCEPT ![s] = CloseFlags(s)]
       \/ CloseFails /\ UNCHANGED sock
    /\ UNCHANGED <<sys, call, made>>

\* zsocket_free() closes, and frees whether that worked or not.
FreeSocket(s) ==
    /\ sock[s] # None /\ ~Busy(s)
    /\ IF sock[s].closed THEN UNCHANGED <<end, fdt, told, got>> ELSE Release(sock[s].fd)
    /\ sock' = [sock EXCEPT ![s] = None]
    /\ UNCHANGED <<sys, call, made>>

\* zsocket_shutdown() of one or both directions of a connection; only the second
\* changes the connected flag.  The system refuses an end without a connection.
Shutdown(s, read, write) ==
    /\ sock[s] # None /\ ~sock[s].closed /\ (read \/ write)
    /\ LET e == EndOf(s) IN
        /\ e # None /\ end[e].st = "connected"
        /\ end' = [x \in Ends |->
               IF x = e THEN [end[x] EXCEPT !.wr = @ /\ ~write, !.eof = @ \/ read]
               ELSE IF x = end[e].peer THEN [end[x] EXCEPT !.eof = @ \/ write]
               ELSE end[x]]
    /\ sock' = [sock EXCEPT ![s].connected = @ /\ ~(read /\ write)]
    /\ UNCHANGED <<sys, fdt, call, told, got, made>>

\* zsocket_set_blocking() and zsocket_set_timeout(); a timeout is of no use to a
\* socket that does not block.
SetBlocking(s, blocking) ==
    /\ sock[s] # None /\ ~sock[s].closed /\ ~Busy(s)
    /\ ~sock[s].timed /\ sock[s].blocking # blocking
    /\ sock' = [sock EXCEPT ![s].blocking = blocking]
    /\ UNCHANGED <<sys, fdt, end, call, told, got, made>>
SetTimeout(s, timed) ==
    /\ sock[s] # None /\ ~sock[s].closed /\ ~Busy(s)
    /\ sock[s].blocking /\ sock[s].timed # timed
    /\ sock' = [sock EXCEPT ![s].timed = timed]
    /\ UNCHANGED <<sys, fdt, end, call, told, got, made>>

-----------------------------------------------------------------------------
(* Calls. *)

Return(t) == call' = [call EXCEPT ![t] = NoCall]
MoveTo(t, place) == call' = [call EXCEPT ![t].at = place]

\* A caller sends only within the bound.
MaySend(s) == EndOf(s) # None => told[EndOf(s)] + 2 <= MaxBytes

\* Whether a call succeeds is told by what it changed; error codes are kept only
\* as far as the code branches on them.  The beginning: pzsocket_check(), then the wait of a blocking one.
\* zsocket_connect() asks the system first.
EnterCall(t, op, s) ==
    /\ call[t].op = "none" /\ sock[s] # None
    /\ op = "send" => MaySend(s)
    /\ call' = [call EXCEPT ![t] =
           IF sock[s].closed THEN NoCall
           ELSE [op |-> op, s |-> s,
                 at |-> IF op # "connect" /\ sock[s].blocking THEN "wait" ELSE "system"]]
    /\ UNCHANGED <<sys, sock, fdt, end, told, got, made>>

\* zsocket_io_condition_wait().  What is ready comes before what has expired.
Readings == {"receive", "receive_from"}
ForInput(t) == call[t].op \in {"accept"} \cup Readings
Waiting(t) == call[t].at \in {"wait", "late"}
Ready(t) ==
    LET e == EndOf(call[t].s) IN
    e # None => IF ForInput(t) THEN Readable(e) ELSE Writable(e)
WaitReady(t) ==
    /\ Waiting(t) /\ Ready(t)
    /\ MoveTo(t, IF call[t].op = "connect" THEN "result" ELSE "system")
    /\ UNCHANGED <<sys, sock, fdt, end, told, got, made>>

\* The time of a wait with a timeout runs out.
TimePasses(t) ==
    /\ call[t].at = "wait" /\ sock[call[t].s].timed /\ ~Ready(t)
    /\ MoveTo(t, "late")
    /\ UNCHANGED <<sys, sock, fdt, end, told, got, made>>
WaitTimeout(t) ==
    /\ call[t].at = "late"
    /\ Return(t)
    /\ UNCHANGED <<sys, sock, fdt, end, told, got, made>>

\* A signal: poll() or select() begins again with the whole timeout, however
\* little of it was left.  (SCO alone counts the time that has gone by.)
WaitInterrupted(t) ==
    /\ call[t].at = "late" /\ sys # "win" /\ ~Ready(t)
    /\ MoveTo(t, "wait")
    /\ UNCHANGED <<sys, sock, fdt, end, told, got, made>>

\* poll(), select() or WSAWaitForMultipleEvents() fails for another reason.
WaitErrs(t) ==
    /\ Waiting(t)
    /\ Return(t)
    /\ UNCHANGED <<sys, sock, fdt, end, told, got, made>>

\* A system call that failed: a blocking call tries again when it would block.
Again(t, code) ==
    IF sock[call[t].s].blocking /\ IoFromSystem(sys, Native(code)) = "WOULD_BLOCK"
    THEN MoveTo(t, "wait") ELSE Return(t)

\* zsocket_connect(): the system's answer, and the wait for the handshake.  An
\* interrupted call is made again; success at once sets the flag.
Connect(t) ==
    /\ call[t].op = "connect" /\ call[t].at = "system"
    /\ LET s == call[t].s
           e == EndOf(s)
       IN \E code \in IF e = None THEN {"EBADF"} ELSE SysConnect(e) :
            /\ end' = IF e = None THEN end ELSE AfterConnect(e, code)
            /\ sock' = [sock EXCEPT ![s].connected = @ \/ code = "OK"]
            /\ CASE code = "EINTR" -> UNCHANGED call
                 [] code = "OK" -> Return(t)
                 [] OTHER ->
                      IF /\ IoFromSystem(sys, Native(code)) \in {"WOULD_BLOCK", "IN_PROGRESS"}
                         /\ sock[s].blocking
                      THEN MoveTo(t, "wait") ELSE Return(t)
    /\ UNCHANGED <<sys, fdt, told, got, made>>

\* zsocket_check_connect_result(): SO_ERROR is set only by an attempt that
\* failed, and reading it clears it.  Without a descriptor getsockopt() fails.
ConnectResult(s) == end[EndOf(s)].st # "failed"
ReadSoError(s) ==
    IF EndOf(s) = None THEN UNCHANGED <<sock, end>>
    ELSE /\ sock' = [sock EXCEPT ![s].connected = ConnectResult(s)]
         /\ end' = [e \in Ends |-> IF e = EndOf(s) /\ end[e].st = "failed"
                                   THEN [end[e] EXCEPT !.st = "fresh"] ELSE end[e]]
ConnectWaited(t) ==
    /\ call[t].op = "connect" /\ call[t].at = "result"
    /\ ReadSoError(call[t].s)
    /\ Return(t)
    /\ UNCHANGED <<sys, fdt, told, got, made>>
\* A caller may ask at any time.
CheckConnectResult(s) ==
    /\ sock[s] # None
    /\ ReadSoError(s)
    /\ UNCHANGED <<sys, fdt, call, told, got, made>>

\* pzsocket_set_details_from_fd(): connected is what getpeername() says.
DetailsFromFd(e) == end[e].peer # None

\* zsocket_accept(): the descriptor becomes a socket, or
\* zsocket_new_from_fd() fails and the descriptor is closed again.
Accept(t) ==
    /\ call[t].op = "accept" /\ call[t].at = "system"
    /\ LET e == EndOf(call[t].s) IN
        \/ /\ e # None /\ end[e].queue # <<>> /\ HasFreeFd
           /\ sock["accepted"] = None
           /\ sock' = [sock EXCEPT !["accepted"] =
                  [SocketOn(FreeFd) EXCEPT !.connected = DetailsFromFd("accepted")]]
           /\ fdt' = [fdt EXCEPT ![FreeFd] = Head(end[e].queue)]
           /\ end' = [end EXCEPT ![e].queue = Tail(@)]
           /\ Return(t)
        \/ /\ e # None => end[e].queue = <<>>
           /\ Again(t, CASE e = None -> "EBADF" [] end[e].st = "listening" -> "EAGAIN" [] OTHER -> "EINVAL")
           /\ UNCHANGED <<sock, fdt, end>>
    /\ UNCHANGED <<sys, told, got, made>>
\* Mutant: the descriptor stays open.
AcceptUnclosed(t) ==
    /\ call[t].op = "accept" /\ call[t].at = "system" /\ HasFreeFd
    /\ LET e == EndOf(call[t].s) IN
        /\ e # None /\ end[e].queue # <<>>
        /\ end' = [end EXCEPT ![e].queue = Tail(@)]
        /\ fdt' = [fdt EXCEPT ![FreeFd] = Head(end[e].queue)]
    /\ Return(t)
    /\ UNCHANGED <<sys, sock, told, got, made>>
AcceptFails(t) ==
    /\ call[t].op = "accept" /\ call[t].at = "system" /\ HasFreeFd
    /\ LET e == EndOf(call[t].s) IN
        /\ e # None /\ end[e].queue # <<>>
        /\ LET p == Head(end[e].queue) IN
            /\ end' = [EndsAfterClose(p) EXCEPT ![e].queue = Tail(@)]
            /\ told' = HistoryAfterClose(told, p) /\ got' = HistoryAfterClose(got, p)
    /\ Return(t)
    /\ UNCHANGED <<sys, sock, fdt, made>>

\* recv() and recvfrom(): some of what has arrived, or 0 at the end of the data.
Read(t, op) ==
    /\ call[t].op = op /\ call[t].at = "system"
    /\ LET e == EndOf(call[t].s) IN
        \/ /\ e # None /\ end[e].inq # <<>>
           /\ \E n \in 1..Len(end[e].inq) :
               /\ end' = [end EXCEPT ![e].inq = SubSeq(@, n + 1, Len(@))]
               /\ got' = [got EXCEPT ![e] = IF SubSeq(end[e].inq, 1, n) = [i \in 1..n |-> @ + i]
                                            THEN @ + n ELSE -1]
           /\ Return(t)
        \/ /\ e # None /\ end[e].inq = <<>> /\ end[e].st = "connected" /\ end[e].eof
           /\ Return(t)
           /\ UNCHANGED <<end, got>>
        \/ /\ e # None => end[e].inq = <<>> /\ ~(end[e].st = "connected" /\ end[e].eof)
           /\ Again(t, CASE e = None -> "EBADF" [] end[e].st = "connected" -> "EAGAIN" [] OTHER -> "ENOTCONN")
           /\ UNCHANGED <<end, got>>
    /\ UNCHANGED <<sys, sock, fdt, told, made>>

\* Mutant: the 0 of recv() at the end of the data is taken for a failure.
ReceiveZeroFails(t) ==
    /\ call[t].op = "receive" /\ call[t].at = "system"
    /\ LET e == EndOf(call[t].s) IN
        IF e # None /\ end[e].inq = <<>> /\ end[e].st = "connected" /\ end[e].eof
        THEN Again(t, "EAGAIN") /\ UNCHANGED <<sys, sock, fdt, end, told, got, made>>
        ELSE Read(t, "receive")
\* zsocket_receive() and zsocket_receive_from(): the same loop.
Receive(t) == Read(t, "receive")
ReceiveFrom(t) == Read(t, "receive_from")

\* zsocket_send() of two bytes: the system takes some, and
\* the caller is told how many.
\* Mutant: the caller is told that all were taken.
ReportAll(taken) == 2
Reported(taken) == taken
Send(t) ==
    /\ call[t].op = "send" /\ call[t].at = "system"
    /\ LET e == EndOf(call[t].s)
           p == IF e = None THEN None ELSE end[e].peer
           open == e # None /\ end[e].st = "connected" /\ end[e].wr /\ p # None
       IN \/ /\ open /\ Len(end[p].inq) < Room
             /\ \E n \in 1..2 :
                 /\ Len(end[p].inq) + n <= Room
                 /\ end' = [end EXCEPT ![p].inq = @ \o [i \in 1..n |-> told[e] + i]]
                 /\ told' = [told EXCEPT ![e] = @ + Reported(n)]
             /\ Return(t)
          \/ /\ open => Len(end[p].inq) = Room
             /\ Again(t, CASE open -> "EAGAIN" [] e = None -> "EBADF"
                           [] end[e].st = "connected" -> "EPIPE" [] OTHER -> "ENOTCONN")
             /\ UNCHANGED <<end, told>>
    /\ UNCHANGED <<sys, sock, fdt, got, made>>

-----------------------------------------------------------------------------
SocketInit ==
    /\ sys \in Builds
    /\ sock = [s \in Sockets |-> None]
    /\ fdt = [f \in Fds |-> None]
    /\ end = [e \in Ends |-> NoEnd]
    /\ call = [t \in Callers |-> NoCall]
    /\ told = [e \in Ends |-> 0]
    /\ got = [e \in Ends |-> 0]
    /\ made = 0

\* What the system and the library do by themselves once a call is made; the
\* signals of a process may come as often as its timeouts run out.
CallStep(t) ==
    \/ WaitReady(t) \/ TimePasses(t) \/ WaitTimeout(t) \/ WaitInterrupted(t)
    \/ Connect(t) \/ ConnectWaited(t) \/ Accept(t) \/ AcceptFails(t)
    \/ Receive(t) \/ ReceiveFrom(t) \/ Send(t)

SocketNext ==
    \/ \E s \in Sockets : New(s) \/ Bind(s) \/ Listen(s) \/ Close(s) \/ FreeSocket(s) \/ CheckConnectResult(s)
    \/ \E s \in Sockets, r, w \in BOOLEAN : Shutdown(s, r, w)
    \/ \E s \in Tuned, b \in BOOLEAN : SetBlocking(s, b) \/ SetTimeout(s, b)
    \/ \E t \in Callers : \E d \in Duties[t] : EnterCall(t, d[1], d[2])
    \/ \E t \in Callers : CallStep(t) \/ WaitErrs(t)
    \/ Establish
    \/ Refuse

\* Threads run, and time passes; nothing makes a wait fail.
SocketSpec ==
    /\ SocketInit /\ [][SocketNext]_socketVars
    /\ \A t \in Callers : WF_socketVars(CallStep(t))

-----------------------------------------------------------------------------
(* Properties. *)

\* Descriptors and PSockets match one to one: nothing that zsocket_new() or
\* zsocket_accept() opened is left without a socket that closes it, and no
\* socket holds a number that was given to another.
FdOwned ==
    \A f \in Fds :
        LET owners == {s \in Sockets : sock[s] # None /\ sock[s].fd = f}
        IN Cardinality(owners) = (IF fdt[f] = None THEN 0 ELSE 1)

\* What readers got is what the other side was told it has sent, without a gap
\* or a repetition, whoever tried again; the rest is on its way.
StreamIntact ==
    \A e \in Ends :
        /\ got[e] >= 0
        /\ end[e].peer # None => got[e] + Len(end[e].inq) = told[end[e].peer]

\* A reader that is blocked when the other side has closed or shut down comes
\* back, whoever else reads.  The events that Windows is asked for do not include
\* the end of the data.
EndReturns ==
    \A t \in Callers :
        (/\ call[t].op \in Readings /\ Waiting(t) /\ sys # "win"
         /\ EndOf(call[t].s) # None /\ end[EndOf(call[t].s)].eof)
        ~> call[t].op \notin Readings

\* "If the socket is still pending for the connection you will get the
\* P_ERROR_IO_IN_PROGRESS error code": zsocket_check_connect_result() does not
\* succeed on a socket that is still connecting.
PendingReported ==
    [][\A s \in Sockets :
        sock[s] # None /\ EndOf(s) # None /\ end[EndOf(s)].st = "connecting"
          => ~(sock'[s] # None /\ ~sock[s].connected /\ sock'[s].connected)]_socketVars
=============================================================================
