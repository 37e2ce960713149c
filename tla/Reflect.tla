------------------------------- MODULE Reflect -------------------------------
(***************************************************************************)
(* One connection between reflect_client_callback (io_client.c) and        *)
(* reflect_server_callback (io_server.c), with the loop that calls the     *)
(* server's callback when the connection is ready.                         *)
(*                                                                         *)
(* `mech` is the loop: "poll" (also WSAPoll), "select", "epoll", "kqueue", *)
(* "devpoll" and "WSAEvent" serve non-blocking sockets, "accept" blocking  *)
(* ones.  TCP is a bounded pipe per direction, `up` to the server and      *)
(* `down` to the client; the Fin flags say that its writer has shut it     *)
(* down, `rst` that the connection is reset.  Byte i of the client's data  *)
(* is the number i.  One step is one system call with the code up to the   *)
(* next one; calls that only this program can notice (fcntl, the shutdown  *)
(* of its reading side) belong to the step they follow.                    *)
(*                                                                         *)
(* A definition whose name ends in _Bug is a slip that its successor could *)
(* have had; no specification uses it.                                     *)
(***************************************************************************)
EXTENDS Integers, Sequences

CONSTANTS Total,       (* TCP_DATA_SIZE                                     *)
          BufSize,     (* TCP_BUF_SIZE                                      *)
          PipeCap,     (* bytes TCP holds in one direction                  *)
          Mechanisms,  (* the loops considered                              *)
          MaxIntr      (* bound: calls that fail with EINTR                 *)

ASSUME ReflectAssumption ==
    /\ Total \in Nat \ {0} /\ BufSize \in Nat \ {0} /\ PipeCap \in Nat \ {0}
    /\ MaxIntr \in Nat
    /\ Mechanisms \subseteq {"poll", "select", "epoll", "kqueue", "devpoll",
                       "WSAEvent", "accept"}

VARIABLES
    mech,       (* which loop serves the connection                         *)
    cpc,        (* client: "send", "shutdown", "recv", or how it ended      *)
    cbuf,       (* client: buf, both for what it sends and what it receives *)
    csent,      (* client: sendbytes                                        *)
    crecv,      (* client: recvbytes                                        *)
    spc,        (* server: "accept", "wait" in the loop, "recv", "send" and *)
                (* "shutdown" in the callback, "again" and "close" as it    *)
                (* returns with EWOULDBLOCK or not, "closed", "left" open,  *)
                (* open but "unwatched"                                     *)
    sbuf, recvbytes, sendbytes, sendagain, recvdone,  (* the io_context_t   *)
    events,     (* what the kernel is to report to the loop                 *)
    edges,      (* what has happened since it last reported, where it tells *)
                (* of changes and not of levels                             *)
    reported,   (* what the callback was called for                         *)
    up, down, upFin, downFin, rst,
    nospace,    (* a send of the server found no room since the last freed  *)
    intr,       (* calls interrupted so far                                 *)
    faulted     (* history: something has failed from outside               *)

client  == <<cpc, cbuf, csent, crecv>>
context == <<sbuf, recvbytes, sendbytes, sendagain, recvdone>>
loop    == <<mech, events, edges, reported>>
net     == <<up, down, upFin, downFin, rst, nospace>>
history == <<intr, faulted>>
vars    == <<client, spc, context, loop, net, history>>

Original == [i \in 1 .. Total |-> i]

Init ==
    /\ mech \in Mechanisms
    /\ cpc = "send" /\ cbuf = Original /\ csent = 0 /\ crecv = 0
    /\ spc = "accept"
    /\ sbuf = [i \in 1 .. BufSize |-> 0]
    /\ recvbytes = 0 /\ sendbytes = 0 /\ sendagain = FALSE /\ recvdone = FALSE
    /\ events = {} /\ edges = {} /\ reported = {}
    /\ up = <<>> /\ down = <<>> /\ upFin = FALSE /\ downFin = FALSE
    /\ rst = FALSE /\ nospace = FALSE
    /\ intr = 0 /\ faulted = FALSE

-----------------------------------------------------------------------------
(* Bytes.                                                                  *)

Least(a, b) == IF a < b THEN a ELSE b

Space(pipe) == PipeCap - Len(pipe)

\* n bytes of buf from offset `at` on.
Piece(buf, at, n) == SubSeq(buf, at + 1, at + n)

\* buf with the first n bytes of `pipe` at offset `at`.
Stored(buf, at, pipe, n) ==
    [i \in DOMAIN buf |-> IF at < i /\ i <= at + n THEN pipe[i - at] ELSE buf[i]]

\* A pipe after its first n bytes were read.
Drained(pipe, n) == SubSeq(pipe, n + 1, Len(pipe))

-----------------------------------------------------------------------------
(* Readiness of the server's socket.                                       *)

Alive == cpc \in {"send", "shutdown", "recv"}

Readable == up # <<>> \/ upFin \/ rst
Writable == Space(down) > 0 \/ rst

Ready ==
    (IF Readable THEN {"IN"} ELSE {}) \cup (IF Writable THEN {"OUT"} ELSE {})
        \cup (IF upFin \/ rst THEN {"FIN"} ELSE {})

\* epoll with EPOLLET, kqueue with EV_CLEAR and WSAEventSelect tell of changes.
Latched == mech \in {"epoll", "kqueue", "WSAEvent"}

\* Windows then keeps silent about E until the call that enables it again.
Signal(E) ==
    /\ edges' = IF Latched THEN edges \cup (E \cap events) ELSE edges
    /\ events' = IF mech = "WSAEvent" THEN events \ E ELSE events

\* recv enables FD_READ again, and records it if there is more to read.
EnableIn ==
    IF mech # "WSAEvent" THEN UNCHANGED <<events, edges>>
    ELSE IF up' # <<>> THEN edges' = edges \cup {"IN"} /\ events' = events \ {"IN"}
    ELSE events' = events \cup {"IN"} /\ UNCHANGED edges

\* A send that would block enables FD_WRITE again.
EnableOut == events' = IF mech = "WSAEvent" THEN events \cup {"OUT"} ELSE events

\* The client has read: kqueue tells of it, the others if a send had failed.
Freed == IF mech = "kqueue" \/ nospace THEN {"OUT"} ELSE {}

\* What the loop may be told next; kqueue has an event for each filter, and
\* Windows does not look again whether it is still so.
Reports ==
    IF mech = "kqueue" THEN {{e} : e \in edges \cap Ready}
    ELSE IF mech = "WSAEvent" THEN {edges} \ {{}}
    ELSE IF mech = "epoll" /\ edges = {} THEN {}
    ELSE {Ready \cap events} \ {{}}

\* What a loop asks for when it has accepted.
FirstEvents ==
    CASE mech = "accept" -> {}
      [] mech \in {"kqueue", "devpoll"} -> {"IN", "OUT"}
      [] mech = "WSAEvent" -> {"IN", "OUT", "FIN"}
      [] OTHER -> {"IN"}

\* The registration is not changed back or forth.
Watched_Bug == events

\* What it asks for when the callback has returned with EWOULDBLOCK.
Watched ==
    CASE mech = "poll" -> IF sendagain THEN {"IN", "OUT"} ELSE {"IN"}
      [] mech = "epoll" /\ sendagain /\ "OUT" \notin reported -> {"IN", "OUT"}
      [] mech = "epoll" /\ ~sendagain /\ "OUT" \in reported -> {"IN"}
      [] OTHER -> events

\* epoll_ctl looks at the socket anew.
Modified == mech = "epoll" /\ sendagain # ("OUT" \in reported)

-----------------------------------------------------------------------------
(* The client.  Its send does not block, its recv does.  What it sends to  *)
(* a closed socket is answered with a reset.                               *)

\* The client does not say that it has sent all.
Ended_Bug(sent) == FALSE

\* It shuts its side down after the last byte.
Ended(sent) == sent = Total

ClientSend ==
    /\ cpc = "send" /\ ~rst
    /\ \E n \in 1 .. Least(Total - csent, Space(up)) :
           /\ up' = up \o Piece(cbuf, csent, n)
           /\ csent' = csent + n
    /\ rst' = (spc = "closed")
    /\ Signal({"IN"})
    /\ cpc' = IF Ended(csent') THEN "shutdown" ELSE "recv"
    /\ UNCHANGED <<cbuf, crecv, spc, context, mech, reported, upFin, down, downFin, nospace,
                   history>>

\* shutdown(IO_SHUT_WR).
ClientShutdown ==
    /\ cpc = "shutdown"
    /\ upFin' = TRUE
    /\ Signal({"IN", "FIN"})
    /\ cpc' = "recv"
    /\ UNCHANGED <<cbuf, csent, crecv, spc, context, mech, reported, up, down, downFin, rst,
                   nospace, history>>

\* Everything is sent already, or the send would block.
ClientSendsNothing ==
    /\ cpc = "send"
    /\ csent = Total \/ (~rst /\ Space(up) = 0)
    /\ cpc' = "recv"
    /\ UNCHANGED <<cbuf, csent, crecv, spc, context, loop, net, history>>

ClientRecv ==
    /\ cpc = "recv"
    /\ \E n \in 1 .. Least(Total - crecv, Len(down)) :
           /\ cbuf' = Stored(cbuf, crecv, down, n)
           /\ crecv' = crecv + n
           /\ down' = Drained(down, n)
    /\ cpc' = IF crecv' = Total THEN "done" ELSE "send"
    /\ Signal(Freed)
    /\ nospace' = FALSE
    /\ UNCHANGED <<csent, spc, context, mech, reported, up, upFin, downFin, rst, history>>

\* "Recv truncate".
ClientEOF ==
    /\ cpc = "recv"
    /\ down = <<>> /\ downFin /\ ~rst
    /\ cpc' = "truncated"
    /\ UNCHANGED <<cbuf, csent, crecv, spc, context, loop, net, history>>

\* "Send failed", "Recv failed".
ClientFails ==
    /\ rst
    /\ cpc = "recv" \/ (cpc = "send" /\ csent < Total)
    /\ cpc' = "failed"
    /\ UNCHANGED <<cbuf, csent, crecv, spc, context, loop, net, history>>

\* EINTR, as the recv blocks.
ClientIntr ==
    /\ intr < MaxIntr
    /\ cpc = "recv" /\ down = <<>> /\ ~downFin /\ ~rst
    /\ cpc' = "send"
    /\ intr' = intr + 1
    /\ UNCHANGED <<cbuf, csent, crecv, spc, context, loop, net, faulted>>

ClientStep ==
    \/ ClientSend \/ ClientShutdown \/ ClientSendsNothing
    \/ ClientRecv \/ ClientEOF \/ ClientFails \/ ClientIntr

-----------------------------------------------------------------------------
(* Faults: the client is killed, the network fails, the server lacks       *)
(* resources.                                                              *)

\* The client's process ends; unread data make its close a reset.
Kill ==
    /\ Alive
    /\ faulted' = TRUE
    /\ cpc' = "dead"
    /\ rst' = (rst \/ down # <<>>)
    /\ upFin' = TRUE
    /\ Signal({"IN", "OUT", "FIN"})
    /\ UNCHANGED <<cbuf, csent, crecv, spc, context, mech, reported, up, down, downFin,
                   nospace, intr>>

Reset ==
    /\ Alive /\ ~rst
    /\ faulted' = TRUE
    /\ rst' = TRUE
    /\ Signal({"IN", "OUT", "FIN"})
    /\ UNCHANGED <<client, spc, context, mech, reported, up, down, upFin, downFin, nospace,
                   intr>>

-----------------------------------------------------------------------------
(* The loop, up to the call of the callback.                               *)

Accept ==
    /\ spc = "accept"
    /\ spc' = IF mech = "accept" THEN "recv" ELSE "wait"
    /\ edges' = IF Latched THEN Ready \cap FirstEvents ELSE {}
    /\ events' = IF mech = "WSAEvent" THEN FirstEvents \ edges' ELSE FirstEvents
    /\ UNCHANGED <<client, context, mech, reported, net, history>>

Dispatch ==
    /\ spc = "wait"
    /\ \E E \in Reports :
           /\ reported' = E
           /\ edges' = IF mech = "kqueue" THEN edges \ E ELSE {}
    /\ sendagain' = FALSE
    /\ spc' = "recv"
    /\ UNCHANGED <<client, sbuf, recvbytes, sendbytes, recvdone, mech, events, net, history>>

\* What had happened is no longer so when the kernel looks.
FalseAlarm ==
    /\ spc = "wait"
    /\ edges # {} /\ Reports = {}
    /\ edges' = {}
    /\ UNCHANGED <<client, spc, context, mech, events, reported, net, history>>

-----------------------------------------------------------------------------
(* reflect_server_callback.                                                *)

Unsent == recvbytes - sendbytes

MayRecv == ~recvdone /\ recvbytes < BufSize

\* Without new bytes the callback returns, whatever is left to send.
AfterNoData_Bug == "close"

\* The error of an earlier call is still there: the loop takes it for EWOULDBLOCK.
AfterNoDataStale_Bug == IF Unsent > 0 THEN "send" ELSE "again"

\* Where the callback goes when recv returned 0 or was not called.
AfterNoData == IF Unsent > 0 THEN "send" ELSE "close"

RecvData ==
    /\ spc = "recv" /\ MayRecv
    /\ \E n \in 1 .. Least(BufSize - recvbytes, Len(up)) :
           /\ sbuf' = Stored(sbuf, recvbytes, up, n)
           /\ recvbytes' = recvbytes + n
           /\ up' = Drained(up, n)
    /\ EnableIn
    /\ spc' = "send"
    /\ UNCHANGED <<client, sendbytes, sendagain, recvdone, mech, reported, down, upFin,
                   downFin, rst, nospace, history>>

RecvEnd ==
    /\ spc = "recv" /\ MayRecv
    /\ up = <<>> /\ upFin /\ ~rst
    /\ recvdone' = TRUE
    /\ spc' = AfterNoData
    /\ UNCHANGED <<client, sbuf, recvbytes, sendbytes, sendagain, loop, net, history>>

RecvSkipped ==
    /\ spc = "recv" /\ ~MayRecv
    /\ spc' = AfterNoData
    /\ UNCHANGED <<client, context, loop, net, history>>

RecvWouldBlock ==
    /\ spc = "recv" /\ MayRecv
    /\ up = <<>> /\ ~upFin /\ ~rst /\ mech # "accept"
    /\ UNCHANGED net
    /\ EnableIn
    /\ spc' = "again"
    /\ UNCHANGED <<client, context, mech, reported, history>>

RecvFails ==
    /\ spc = "recv" /\ MayRecv
    /\ rst
    /\ spc' = "close"
    /\ UNCHANGED <<client, context, loop, net, history>>

\* The indices restart before everything is sent.
Rewound_Bug(sent) == recvbytes = BufSize

\* The buffer is full and all of it has been sent: both indices restart.
Rewound(sent) == recvbytes = BufSize /\ sent = recvbytes

\* Only recvbytes restarts.
SentNow_Bug(sent) == sent

\* What was sent is not counted.
SentNowStill_Bug(sent) == sendbytes

RecvNow(sent) == IF Rewound(sent) THEN 0 ELSE recvbytes
SentNow(sent) == IF Rewound(sent) THEN 0 ELSE sent

\* To a client that is gone a send succeeds, once.
SendData ==
    /\ spc = "send" /\ ~rst
    /\ \E n \in 1 .. Least(Unsent, Space(down)) :
           LET sent == sendbytes + n IN
           /\ down' = IF Alive THEN down \o Piece(sbuf, sendbytes, n) ELSE down
           /\ spc' = IF recvdone /\ sent = recvbytes THEN "shutdown" ELSE "recv"
           /\ recvbytes' = RecvNow(sent)
           /\ sendbytes' = SentNow(sent)
    /\ rst' = ~Alive
    /\ UNCHANGED <<client, sbuf, sendagain, recvdone, loop, up, upFin, downFin, nospace,
                   history>>

\* All is sent, and the client has said that there is no more: shutdown(IO_SHUT_WR).
Shutdown ==
    /\ spc = "shutdown"
    /\ downFin' = TRUE
    /\ spc' = "recv"
    /\ UNCHANGED <<client, context, loop, up, down, upFin, rst, nospace, history>>

SendWouldBlock ==
    /\ spc = "send" /\ ~rst
    /\ Space(down) = 0 /\ mech # "accept"
    /\ sendagain' = TRUE
    /\ nospace' = TRUE
    /\ EnableOut
    /\ spc' = "again"
    /\ UNCHANGED <<client, sbuf, recvbytes, sendbytes, recvdone, mech, edges, reported, up,
                   down, upFin, downFin, rst, history>>

SendFails ==
    /\ spc = "send" /\ rst
    /\ spc' = "close"
    /\ UNCHANGED <<client, context, loop, net, history>>

\* EINTR, as either call blocks, leads back to the start of the loop.
ServerIntr ==
    /\ intr < MaxIntr
    /\ mech = "accept" /\ ~rst
    /\ \/ spc = "send" /\ Space(down) = 0
       \/ spc = "recv" /\ MayRecv /\ up = <<>> /\ ~upFin
    /\ spc' = "recv"
    /\ intr' = intr + 1
    /\ UNCHANGED <<client, context, loop, net, faulted>>

-----------------------------------------------------------------------------
(* The loop, when the callback has returned.                               *)

Keep ==
    /\ spc = "again" /\ "FIN" \notin reported
    /\ events' = Watched
    /\ edges' = IF Modified THEN edges \cup (Ready \cap Watched) ELSE edges
    /\ spc' = "wait"
    /\ UNCHANGED <<client, context, mech, reported, net, history>>

\* WSAEventSelect_loop: after FD_CLOSE the callback is called until it is done.
CallAgain ==
    /\ spc = "again" /\ "FIN" \in reported
    /\ sendagain' = FALSE
    /\ spc' = "recv"
    /\ UNCHANGED <<client, sbuf, recvbytes, sendbytes, recvdone, loop, net, history>>

\* close_socket; bytes nobody will read make it a reset.
Shut ==
    /\ spc' = "closed"
    /\ downFin' = TRUE
    /\ rst' = (rst \/ up # <<>>)
    /\ events' = {} /\ edges' = {}
    /\ UNCHANGED <<client, context, mech, reported, up, down, upFin, nospace, intr>>

\* The socket cannot be made non-blocking or registered, or the table is full.
Refuse ==
    /\ spc = "accept" /\ mech # "accept"
    /\ Shut
    /\ faulted' = TRUE

\* devpoll_loop: the write that registers a new connection fails.  It stays open, with
\* its context, and nobody looks at it again.
RegisterFails ==
    /\ spc = "accept" /\ mech = "devpoll"
    /\ spc' = "unwatched"
    /\ faulted' = TRUE
    /\ UNCHANGED <<client, context, loop, net, intr>>

\* epoll_ctl fails.
ModifyFails ==
    /\ spc = "again" /\ Modified
    /\ Shut
    /\ faulted' = TRUE

Close ==
    /\ mech # "accept"
    /\ \/ spc = "close"
       \/ /\ spc = "wait" /\ rst   (* the kernel reports an error *)
          /\ mech \in {"poll", "epoll", "devpoll"}
    /\ Shut
    /\ UNCHANGED faulted

\* accept_loop goes on to the next client and leaves the socket open.
Leave ==
    /\ mech = "accept" /\ spc = "close"
    /\ spc' = "left"
    /\ UNCHANGED <<client, context, loop, net, history>>

ServerStep ==
    \/ Accept \/ Dispatch \/ FalseAlarm
    \/ RecvData \/ RecvEnd \/ RecvSkipped \/ RecvWouldBlock \/ RecvFails
    \/ SendData \/ Shutdown \/ SendWouldBlock \/ SendFails \/ ServerIntr
    \/ Keep \/ CallAgain \/ Refuse \/ RegisterFails \/ ModifyFails \/ Close \/ Leave

Next == ClientStep \/ ServerStep \/ Kill \/ Reset

SafetySpec == Init /\ [][Next]_vars

Spec == SafetySpec /\ WF_vars(ClientStep) /\ WF_vars(ServerStep)

-----------------------------------------------------------------------------
(* Properties.                                                             *)

Happenings == {"IN", "OUT", "FIN"}

TypeOK ==
    /\ mech \in Mechanisms
    /\ cpc \in {"send", "shutdown", "recv", "done", "truncated", "failed", "dead"}
    /\ csent \in 0 .. Total /\ crecv \in 0 .. Total
    /\ cbuf \in [1 .. Total -> Nat]
    /\ spc \in {"accept", "wait", "recv", "send", "shutdown", "again", "close", "closed",
                "left", "unwatched"}
    /\ sbuf \in [1 .. BufSize -> Nat]
    /\ recvbytes \in 0 .. BufSize /\ sendbytes \in 0 .. recvbytes
    /\ sendagain \in BOOLEAN /\ recvdone \in BOOLEAN
    /\ events \subseteq Happenings /\ edges \subseteq Happenings
    /\ reported \subseteq Happenings
    /\ up \in Seq(Nat) /\ Len(up) <= PipeCap
    /\ down \in Seq(Nat) /\ Len(down) <= PipeCap
    /\ upFin \in BOOLEAN /\ downFin \in BOOLEAN /\ rst \in BOOLEAN /\ nospace \in BOOLEAN
    /\ intr \in 0 .. MaxIntr /\ faulted \in BOOLEAN

\* Every byte between the client and itself is at its place: the bytes on the
\* way back follow those received, then those the server has not sent, then
\* those on the way to it, up to the last one sent.
InFlight ==
    /\ crecv + Len(down) + Unsent + Len(up) = csent
    /\ \A i \in 1 .. Len(down) : down[i] = crecv + i
    /\ \A i \in 1 .. Unsent : sbuf[sendbytes + i] = crecv + Len(down) + i
    /\ \A i \in 1 .. Len(up) : up[i] = crecv + Len(down) + Unsent + i

\* What comes back is what was sent, in order, without loss or repetition,
\* although the client receives into the buffer it is still sending from.
EchoInOrder == cbuf = Original /\ (Alive => InFlight)

\* As long as nothing has failed from outside, the server lets go of the connection, and says
\* that it has sent all, only when all the data are on their way back; the client
\* never meets a reset.
ClosedAfterEcho ==
    ~faulted /\ Alive =>
        /\ ~rst
        /\ downFin \/ spc \in {"close", "closed", "left"} => crecv + Len(down) = Total

\* In the loop the server never sleeps over something it could do: it waits for
\* room in the pipe and is told of room, or it has room in its buffer and is told
\* of input.  (select_loop watches no connection for room: a client that has not
\* ended its data finds it waiting for the next of them.)
ServerAwake ==
    spc = "wait" =>
        /\ sendagain => Unsent > 0
        /\ sendagain /\ Writable /\ mech # "select" => Reports # {}
        /\ ~sendagain => MayRecv
        /\ ~sendagain /\ Readable => Reports # {}

\* A recv of the client has nothing to return.
ClientBlocked == cpc = "recv" /\ down = <<>> /\ ~downFin /\ ~rst

\* The server sleeps in its loop with nothing to report, or in a call that blocks, or
\* does not look at the connection any more.
ServerBlocked ==
    \/ spc = "wait" /\ Reports = {}
    \/ mech = "accept" /\ spc = "recv" /\ MayRecv /\ ~Readable
    \/ mech = "accept" /\ spc = "send" /\ ~Writable
    \/ spc \in {"closed", "left", "unwatched"}

\* Client and server never wait for each other: a client that waits for its data has
\* given the server something to read, or something to send that it has room for, and
\* the server knows.  (Here select_loop, which is not told of room, needs the client to
\* send again before it waits, as it does.)  The one exception is the connection that
\* devpoll_loop could not register and left open: its client waits for ever.
NoMutualWait == ClientBlocked /\ ServerBlocked => spc = "unwatched"

\* A connection is let go in the end, whatever becomes of its client, and closed by
\* all the loops that close their connections, but for one that devpoll_loop could not
\* register.
ServerReleases ==
    <>(spc \in IF mech = "accept" THEN {"left"} ELSE {"closed", "unwatched"})

\* The client of a connection that is not watched is abandoned.
Service == INSTANCE EchoService WITH
    sent <- csent, received <- crecv,
    outcome <- IF Alive THEN IF spc = "unwatched" THEN "abandoned" ELSE "running"
               ELSE IF cpc = "done" THEN "success" ELSE "failure"

\* Whatever fails and when, nothing comes back that was not sent, a client that
\* succeeds has all its data, and only one that a fault has hit fails.
ImplementsEchoSafely == Service!SafetySpec

\* The client comes to an end, and without a fault it always has its data back, whichever
\* loop serves it: no byte waits for an event that never comes.  Only a connection that
\* devpoll_loop could not register leaves its client waiting.
ImplementsEcho == Service!Spec
=============================================================================
