--------------------------- MODULE ReflectWakeProofs ---------------------------
(***************************************************************************)
(* The server of Reflect never sleeps over something it could do, for      *)
(* every amount of data, every size, every loop and every fault.           *)
(*                                                                         *)
(* WaitInv says why the server waits: for room, with bytes unsent, or for  *)
(* input, with room in its buffer.  AskInv says what each loop asks for at *)
(* each place, and EdgeInv that a loop which is told of changes only has   *)
(* been told of the change it waits for, or will be when it happens.       *)
(*                                                                         *)
(* With HandInv, a client that waits has left something under way, client  *)
(* and server never wait for each other, but for the connection that       *)
(* devpoll_loop could not register.                                        *)
(***************************************************************************)
EXTENDS ReflectProofs

InCallback == {"recv", "send", "shutdown", "again", "close"}

WaitInv ==
    /\ spc \in {"accept", "recv", "send", "shutdown"} => ~sendagain
    /\ spc = "accept" => ~recvdone /\ recvbytes = 0
    /\ spc = "send" => Unsent > 0
    /\ spc \in {"again", "wait"} => IF sendagain THEN Unsent > 0 ELSE MayRecv

AskInv ==
    /\ mech = "accept" => spc \notin {"wait", "again"}
    /\ mech \notin {"accept", "WSAEvent"} /\ spc \in InCallback \cup {"wait"}
         => "IN" \in events
    /\ mech \in {"kqueue", "devpoll"} /\ spc \in InCallback \cup {"wait"}
         => "OUT" \in events
    /\ mech = "epoll" /\ spc \in InCallback /\ "OUT" \in reported => "OUT" \in events
    /\ mech \in {"poll", "epoll"} /\ spc = "wait" /\ sendagain => "OUT" \in events

EdgeInv ==
    Latched /\ spc \in {"again", "wait"} =>
        /\ ~sendagain =>
              /\ Readable => "IN" \in edges
              /\ mech = "WSAEvent" /\ ~Readable => "IN" \in events
        /\ sendagain =>
              /\ ~Writable => nospace /\ (mech = "WSAEvent" => "OUT" \in events)
              /\ Writable => \/ "OUT" \in edges
                             \/ mech = "epoll" /\ spc = "again" /\ "OUT" \notin reported

-----------------------------------------------------------------------------
(* Facts about what the kernel tells.                                      *)

\* What the loops ask for first.
LEMMA FirstFacts ==
  ASSUME mech \in {"poll", "select", "epoll", "kqueue", "devpoll", "WSAEvent"}
  PROVE  /\ "IN" \in FirstEvents
         /\ mech \in {"kqueue", "devpoll"} => "OUT" \in FirstEvents
<1>1. CASE mech \in {"kqueue", "devpoll"}
  BY <1>1 DEF FirstEvents
<1>2. CASE mech = "WSAEvent"
  BY <1>2 DEF FirstEvents
<1>3. CASE mech \in {"poll", "select", "epoll"}
  BY <1>3 DEF FirstEvents
<1> QED
  BY <1>1, <1>2, <1>3

\* What is ready.
LEMMA ReadyFacts ==
  /\ "IN" \in Ready <=> Readable
  /\ "OUT" \in Ready <=> Writable
BY DEF Ready

\* A level is reported if it is asked for.
LEMMA ReportsLevel ==
  ASSUME mech \in {"poll", "select", "devpoll"}, NEW e \in Ready \cap events
  PROVE  Reports # {}
<1>1. Reports = {Ready \cap events} \ {{}}
  BY DEF Reports
<1> QED
  BY <1>1

\* A change is reported if the loop was told of it and it is still so.
LEMMA ReportsChange ==
  ASSUME NEW e \in Ready \cap edges,
         \/ mech = "epoll" /\ e \in events
         \/ mech = "kqueue"
         \/ mech = "WSAEvent"
  PROVE  Reports # {}
<1>1. CASE mech = "epoll" /\ e \in events
  <2>1. edges # {}
    OBVIOUS
  <2>2. Reports = {Ready \cap events} \ {{}}
    BY <1>1, <2>1 DEF Reports
  <2>3. Ready \cap events # {}
    BY <1>1
  <2> HIDE DEF Ready
  <2> QED
    BY <2>2, <2>3
<1>2. CASE mech = "kqueue"
  BY <1>2 DEF Reports
<1>3. CASE mech = "WSAEvent"
  <2>1. Reports = {edges} \ {{}}
    BY <1>3 DEF Reports
  <2> QED
    BY <2>1
<1> QED
  BY <1>1, <1>2, <1>3

\* What a signal does to one of the events.
LEMMA SignalFacts ==
  ASSUME NEW E, NEW e, Signal(E), Latched
  PROVE  /\ e \in edges => e \in edges'
         /\ e \in E /\ e \in events => e \in edges'
         /\ e \notin E /\ e \in events => e \in events'
BY DEF Signal

\* A step of the client, or a fault, that makes the socket ready signals it.
LEMMA EdgeSignal ==
  ASSUME AskInv, EdgeInv, NEW E, Signal(E), spc \in {"again", "wait"},
         UNCHANGED <<mech, spc, reported, sendagain>>,
         Readable => Readable', Writable => Writable',
         Readable' /\ ~Readable => "IN" \in E,
         Writable' /\ ~Writable /\ nospace => "OUT" \in E,
         "IN" \in E => Readable', "OUT" \in E => Writable',
         ~Writable' /\ nospace => nospace'
  PROVE  EdgeInv'
<1> SUFFICES ASSUME Latched
             PROVE  EdgeInv'
  BY DEF EdgeInv, Latched
<1>1. /\ "IN" \in edges => "IN" \in edges'
      /\ "IN" \in E /\ "IN" \in events => "IN" \in edges'
      /\ "IN" \notin E /\ "IN" \in events => "IN" \in events'
  BY SignalFacts
<1>2. /\ "OUT" \in edges => "OUT" \in edges'
      /\ "OUT" \in E /\ "OUT" \in events => "OUT" \in edges'
      /\ "OUT" \notin E /\ "OUT" \in events => "OUT" \in events'
  BY SignalFacts
<1>3. CASE sendagain
  <2>1. \/ "OUT" \in events
        \/ Writable
        \/ mech = "epoll" /\ spc = "again" /\ "OUT" \notin reported
    BY <1>3 DEF AskInv, EdgeInv, Latched, InCallback
  <2> QED
    BY <1>2, <1>3, <2>1 DEF EdgeInv, Latched
<1>4. CASE ~sendagain
  <2>1. "IN" \in events \/ Readable
    BY <1>4 DEF AskInv, EdgeInv, Latched, InCallback
  <2> QED
    BY <1>1, <1>4, <2>1 DEF EdgeInv, Latched
<1> QED
  BY <1>3, <1>4

\* What the client sends is on its way.
LEMMA SentUp ==
  ASSUME TypeOK, ClientSend
  PROVE  up' # <<>>
<1>1. PICK n \in 1 .. Least(Total - csent, Space(up)) : up' = up \o Piece(cbuf, csent, n)
  BY DEF ClientSend
<1>2. /\ Total \in Nat /\ cbuf \in [1 .. Total -> Nat] /\ up \in Seq(Nat)
      /\ csent \in Nat /\ Total - csent \in Int /\ Space(up) \in Int
  BY ConstantFacts DEF TypeOK, Space
<1>3. n \in Nat /\ n > 0 /\ n <= Total - csent
  BY <1>2, LeastFacts
<1>4. csent + n <= Total
  BY <1>2, <1>3
<1> DEFINE piece == Piece(cbuf, csent, n)
<1>5. piece \in Seq(Nat) /\ Len(piece) = n
  BY ONLY <1>2, <1>3, <1>4, PieceFacts
<1> HIDE DEF piece
<1>6. Len(up \o piece) = Len(up) + n /\ Len(up) \in Nat
  <2>1. up \in Seq(Nat) /\ piece \in Seq(Nat) /\ Len(piece) = n
    BY ONLY <1>2, <1>5
  <2> QED
    BY ONLY <2>1
<1>7. Len(up') > 0
  BY <1>1, <1>3, <1>6 DEF piece
<1> QED
  BY <1>7

\* What the server sends to a client that is there is on its way.
LEMMA SentDown ==
  ASSUME TypeOK, SendData, Alive
  PROVE  down' # <<>>
<1>1. PICK n \in 1 .. Least(Unsent, Space(down)) : down' = down \o Piece(sbuf, sendbytes, n)
  BY DEF SendData
<1>2. /\ BufSize \in Nat /\ sbuf \in [1 .. BufSize -> Nat] /\ down \in Seq(Nat)
      /\ sendbytes \in Nat /\ Unsent \in Int /\ Space(down) \in Int
      /\ recvbytes \in 0 .. BufSize
  BY ConstantFacts DEF TypeOK, Space, Unsent
<1>3. n \in Nat /\ n > 0 /\ n <= Unsent
  BY <1>2, LeastFacts
<1>4. sendbytes + n <= BufSize
  BY <1>2, <1>3 DEF Unsent
<1> DEFINE piece == Piece(sbuf, sendbytes, n)
<1>5. piece \in Seq(Nat) /\ Len(piece) = n
  BY ONLY <1>2, <1>3, <1>4, PieceFacts
<1> HIDE DEF piece
<1>6. Len(down \o piece) = Len(down) + n /\ Len(down) \in Nat
  <2>1. down \in Seq(Nat) /\ piece \in Seq(Nat) /\ Len(piece) = n
    BY ONLY <1>2, <1>5
  <2> QED
    BY ONLY <2>1
<1>7. Len(down') > 0
  BY <1>1, <1>3, <1>6 DEF piece
<1> QED
  BY <1>7

-----------------------------------------------------------------------------
(* The three parts are inductive.                                          *)

\* Why the server waits.
LEMMA WaitStep ==
  ASSUME TypeOK, WaitInv, [Next]_vars
  PROVE  WaitInv'
<1> USE ConstantFacts DEF TypeOK, WaitInv, Unsent, MayRecv, vars, client,
   context, loop, net, history
<1>1. CASE ClientSend
  BY <1>1 DEF ClientSend, Ended, Signal, Latched
<1>2. CASE ClientSendsNothing
  BY <1>2 DEF ClientSendsNothing
<1>3. CASE ClientRecv
  BY <1>3 DEF ClientRecv, Signal, Latched, Freed
<1>4. CASE ClientEOF
  BY <1>4 DEF ClientEOF
<1>5. CASE ClientFails
  BY <1>5 DEF ClientFails
<1>6. CASE ClientIntr
  BY <1>6 DEF ClientIntr
<1>7. CASE Kill
  BY <1>7 DEF Kill, Signal, Latched
<1>8. CASE Reset
  BY <1>8 DEF Reset, Signal, Latched
<1>9. CASE Accept
  BY <1>9 DEF Accept, Latched, FirstEvents
<1>10. CASE Dispatch
  BY <1>10 DEF Dispatch
<1>11. CASE FalseAlarm
  BY <1>11 DEF FalseAlarm
<1>12. CASE RecvData
  BY <1>12 DEF RecvData, EnableIn
<1>13. CASE RecvEnd
  BY <1>13 DEF RecvEnd, AfterNoData
<1>14. CASE RecvSkipped
  BY <1>14 DEF RecvSkipped, AfterNoData
<1>15. CASE RecvWouldBlock
  BY <1>15 DEF RecvWouldBlock, EnableIn
<1>16. CASE RecvFails
  BY <1>16 DEF RecvFails
<1>17. CASE SendData
  BY <1>17 DEF SendData, RecvNow, SentNow, Rewound
<1>18. CASE SendWouldBlock
  BY <1>18 DEF SendWouldBlock, EnableOut
<1>19. CASE SendFails
  BY <1>19 DEF SendFails
<1>20. CASE ServerIntr
  BY <1>20 DEF ServerIntr
<1>21. CASE Keep
  BY <1>21 DEF Keep, Watched, Modified
<1>22. CASE CallAgain
  BY <1>22 DEF CallAgain
<1>23. CASE Refuse
  BY <1>23 DEF Refuse, Shut
<1>24. CASE ModifyFails
  BY <1>24 DEF ModifyFails, Shut
<1>25. CASE Close
  BY <1>25 DEF Close, Shut
<1>26. CASE Leave
  BY <1>26 DEF Leave
<1>27. CASE ClientShutdown
  BY <1>27 DEF ClientShutdown, Signal, Latched
<1>28. CASE Shutdown
  BY <1>28 DEF Shutdown
<1>29. CASE RegisterFails
  BY <1>29 DEF RegisterFails
<1>30. CASE UNCHANGED vars
  BY <1>30
<1> QED
  BY <1>1, <1>2, <1>3, <1>4, <1>5, <1>6, <1>7, <1>8, <1>9, <1>10, <1>11,
     <1>12, <1>13, <1>14, <1>15, <1>16, <1>17, <1>18, <1>19, <1>20, <1>21,
     <1>22, <1>23, <1>24, <1>25, <1>26, <1>27, <1>28, <1>29, <1>30
     DEF Next, ClientStep, ServerStep

\* What the loops ask for.
LEMMA AskStep ==
  ASSUME TypeOK, WaitInv, AskInv, [Next]_vars
  PROVE  AskInv'
<1> USE ReflectAssumption DEF TypeOK, AskInv, InCallback, vars, client,
   context, loop, net, history
<1>1. CASE ClientSend
  BY <1>1 DEF ClientSend, Ended, Signal, Latched
<1>2. CASE ClientSendsNothing
  BY <1>2 DEF ClientSendsNothing
<1>3. CASE ClientRecv
  BY <1>3 DEF ClientRecv, Signal, Latched, Freed
<1>4. CASE ClientEOF
  BY <1>4 DEF ClientEOF
<1>5. CASE ClientFails
  BY <1>5 DEF ClientFails
<1>6. CASE ClientIntr
  BY <1>6 DEF ClientIntr
<1>7. CASE Kill
  BY <1>7 DEF Kill, Signal, Latched
<1>8. CASE Reset
  BY <1>8 DEF Reset, Signal, Latched
<1>9. CASE Accept
  <2>1. /\ mech' = mech /\ reported' = reported /\ sendagain' = sendagain
        /\ ~sendagain /\ spc' \in {"recv", "wait"}
        /\ mech = "accept" => spc' = "recv"
        /\ mech # "accept" => spc' = "wait"
        /\ mech # "WSAEvent" => events' = FirstEvents
    BY <1>9 DEF Accept, WaitInv
  <2>2. mech \notin {"accept", "WSAEvent"} => "IN" \in FirstEvents
    BY FirstFacts
  <2>3. mech \in {"kqueue", "devpoll"} => "OUT" \in FirstEvents
    BY FirstFacts
  <2> QED
    BY ONLY <2>1, <2>2, <2>3 DEF AskInv, InCallback
<1>10. CASE Dispatch
  <2>1. /\ mech' = mech /\ events' = events /\ reported' \in Reports
        /\ spc = "wait" /\ spc' = "recv" /\ ~sendagain'
    BY <1>10 DEF Dispatch
  <2>2. mech = "epoll" => reported' \subseteq events
    BY <2>1 DEF Reports
  <2> QED
    BY <2>1, <2>2
<1>11. CASE FalseAlarm
  BY <1>11 DEF FalseAlarm
<1>12. CASE RecvData
  BY <1>12 DEF RecvData, EnableIn
<1>13. CASE RecvEnd
  BY <1>13 DEF RecvEnd, AfterNoData
<1>14. CASE RecvSkipped
  BY <1>14 DEF RecvSkipped, AfterNoData
<1>15. CASE RecvWouldBlock
  BY <1>15 DEF RecvWouldBlock, EnableIn
<1>16. CASE RecvFails
  BY <1>16 DEF RecvFails
<1>17. CASE SendData
  BY <1>17 DEF SendData, RecvNow, SentNow, Rewound
<1>18. CASE SendWouldBlock
  BY <1>18 DEF SendWouldBlock, EnableOut
<1>19. CASE SendFails
  BY <1>19 DEF SendFails
<1>20. CASE ServerIntr
  BY <1>20 DEF ServerIntr
<1>21. CASE Keep
  BY <1>21 DEF Keep, Watched, Modified
<1>22. CASE CallAgain
  BY <1>22 DEF CallAgain
<1>23. CASE Refuse
  BY <1>23 DEF Refuse, Shut
<1>24. CASE ModifyFails
  BY <1>24 DEF ModifyFails, Shut
<1>25. CASE Close
  BY <1>25 DEF Close, Shut
<1>26. CASE Leave
  BY <1>26 DEF Leave
<1>27. CASE ClientShutdown
  BY <1>27 DEF ClientShutdown, Signal, Latched
<1>28. CASE Shutdown
  BY <1>28 DEF Shutdown
<1>29. CASE RegisterFails
  BY <1>29 DEF RegisterFails
<1>30. CASE UNCHANGED vars
  BY <1>30
<1> QED
  BY <1>1, <1>2, <1>3, <1>4, <1>5, <1>6, <1>7, <1>8, <1>9, <1>10, <1>11,
     <1>12, <1>13, <1>14, <1>15, <1>16, <1>17, <1>18, <1>19, <1>20, <1>21,
     <1>22, <1>23, <1>24, <1>25, <1>26, <1>27, <1>28, <1>29, <1>30
     DEF Next, ClientStep, ServerStep

\* What the loops have been told.
LEMMA EdgeStep ==
  ASSUME TypeOK, WaitInv, AskInv, EdgeInv, [Next]_vars
  PROVE  EdgeInv'
<1> USE DEF TypeOK, WaitInv, AskInv, InCallback, EdgeInv, Latched, Readable,
   Writable, Space, vars, client, context, loop, net, history
<1>1. CASE ClientSend
  <2>1. UNCHANGED <<mech, spc, reported, sendagain>> /\ Signal({"IN"})
    BY <1>1 DEF ClientSend
  <2>2. CASE spc \notin {"again", "wait"}
    BY <2>1, <2>2
  <2>3. CASE spc \in {"again", "wait"}
    <3>1. /\ ~rst /\ ~rst' /\ down' = down /\ nospace' = nospace
      BY <1>1, <2>3 DEF ClientSend
    <3>2. up' # <<>>
      BY <1>1, SentUp
    <3>3. Readable' /\ (Writable' <=> Writable)
      BY <3>1, <3>2 DEF Readable, Writable, Space
    <3> HIDE DEF Readable, Writable, EdgeInv, AskInv
    <3> QED
      BY <2>1, <2>3, <3>1, <3>3, EdgeSignal
  <2> QED
    BY <2>2, <2>3
<1>2. CASE ClientSendsNothing
  BY <1>2 DEF ClientSendsNothing
<1>3. CASE ClientRecv
  <2>1. UNCHANGED <<mech, spc, reported, sendagain>> /\ Signal(Freed)
    BY <1>3 DEF ClientRecv
  <2>2. CASE spc \notin {"again", "wait"}
    BY <2>1, <2>2
  <2>3. CASE spc \in {"again", "wait"}
    <3>1. PICK n \in 1 .. Least(Total - crecv, Len(down)) : down' = Drained(down, n)
      BY <1>3 DEF ClientRecv
    <3>2. /\ up' = up /\ upFin' = upFin /\ rst' = rst /\ ~nospace'
      BY <1>3 DEF ClientRecv
    <3>3. PipeCap - Len(down') > 0
      <4>1. Total - crecv \in Int /\ Len(down) \in Int /\ Len(down) <= PipeCap
        BY ConstantFacts DEF TypeOK
      <4>2. n \in Nat /\ n > 0 /\ n <= Len(down)
        BY <4>1, LeastFacts
      <4>3. Len(down') = Len(down) - n
        BY <3>1, <4>2, DrainedFacts DEF TypeOK
      <4> QED
        BY <4>1, <4>2, <4>3, ConstantFacts
    <3>4. Writable' /\ (Readable' <=> Readable)
      BY <3>2, <3>3 DEF Readable, Writable, Space
    <3>5. "IN" \notin Freed /\ (nospace => "OUT" \in Freed)
      BY DEF Freed
    <3> HIDE DEF Readable, Writable, EdgeInv, AskInv
    <3> QED
      BY <2>1, <2>3, <3>4, <3>5, EdgeSignal
  <2> QED
    BY <2>2, <2>3
<1>4. CASE ClientEOF
  BY <1>4 DEF ClientEOF
<1>5. CASE ClientFails
  BY <1>5 DEF ClientFails
<1>6. CASE ClientIntr
  BY <1>6 DEF ClientIntr
<1>7. CASE Kill
  <2>1. UNCHANGED <<mech, spc, reported, sendagain>> /\ Signal({"IN", "OUT", "FIN"})
    BY <1>7 DEF Kill
  <2>2. CASE spc \notin {"again", "wait"}
    BY <2>1, <2>2
  <2>3. CASE spc \in {"again", "wait"}
    <3>1. /\ upFin' /\ down' = down /\ nospace' = nospace
          /\ rst' = (rst \/ down # <<>>)
      BY <1>7 DEF Kill
    <3>2. Readable' /\ Writable'
      <4>1. CASE down = <<>>
        <5>1. Len(down') = 0
          BY <3>1, <4>1
        <5>2. PipeCap - Len(down') > 0
          BY <5>1, ConstantFacts
        <5> QED
          BY ONLY <3>1, <5>2 DEF Readable, Writable, Space
      <4>2. CASE down # <<>>
        BY ONLY <3>1, <4>2 DEF Readable, Writable
      <4> QED
        BY <4>1, <4>2
    <3> HIDE DEF Readable, Writable, EdgeInv, AskInv
    <3> QED
      BY <2>1, <2>3, <3>2, EdgeSignal
  <2> QED
    BY <2>2, <2>3
<1>8. CASE Reset
  BY <1>8 DEF Reset, Signal, Latched
<1>9. CASE Accept
  <2>1. /\ UNCHANGED <<mech, sendagain, up, upFin, rst>> /\ ~sendagain
        /\ Latched => edges' = Ready \cap FirstEvents
        /\ mech = "WSAEvent" => events' = FirstEvents \ edges'
    BY <1>9 DEF Accept
  <2>2. Latched => "IN" \in FirstEvents
    BY FirstFacts
  <2>3. "IN" \in Ready <=> Readable
    BY ReadyFacts
  <2>4. Readable' = Readable /\ Latched' = Latched /\ sendagain' = FALSE
    BY <2>1
  <2>5. mech = "WSAEvent" => Latched
    BY DEF Latched
  <2> HIDE DEF Readable, Latched
  <2>6. Latched /\ Readable => "IN" \in edges'
    BY <2>1, <2>2, <2>3
  <2>7. mech = "WSAEvent" /\ ~Readable => "IN" \in events'
    BY <2>1, <2>2, <2>3, <2>5
  <2> QED
    BY ONLY <2>1, <2>4, <2>6, <2>7 DEF EdgeInv
<1>10. CASE Dispatch
  BY <1>10 DEF Dispatch
<1>11. CASE FalseAlarm
  <2>1. /\ UNCHANGED <<spc, mech, events, reported, sendagain, nospace>>
        /\ Readable' = Readable /\ Writable' = Writable /\ Latched' = Latched
        /\ spc = "wait" /\ edges # {} /\ Reports = {}
    BY <1>11 DEF FalseAlarm
  <2> HIDE DEF Readable, Writable, EdgeInv, AskInv
  <2> SUFFICES ASSUME Latched
               PROVE  EdgeInv'
    BY <2>1 DEF EdgeInv
  <2>2. mech # "WSAEvent"
    BY <2>1 DEF Reports
  <2>3. mech \in {"epoll", "kqueue"}
    BY <2>2 DEF Latched
  <2>4. ~sendagain => ~Readable
    <3>1. SUFFICES ASSUME ~sendagain, Readable
                   PROVE  FALSE
      OBVIOUS
    <3>2. "IN" \in Ready \cap edges /\ "IN" \in events
      BY <2>1, <2>3, <3>1, ReadyFacts DEF EdgeInv, AskInv
    <3> QED
      BY <2>1, <2>3, <3>2, ReportsChange
  <2>5. sendagain => ~Writable
    <3>1. SUFFICES ASSUME sendagain, Writable
                   PROVE  FALSE
      OBVIOUS
    <3>2. "OUT" \in Ready \cap edges /\ "OUT" \in events
      BY <2>1, <2>3, <3>1, ReadyFacts DEF EdgeInv, AskInv
    <3> QED
      BY <2>1, <2>3, <3>2, ReportsChange
  <2>6. sendagain => nospace
    BY <2>1, <2>5 DEF EdgeInv
  <2> QED
    BY <2>1, <2>2, <2>4, <2>5, <2>6 DEF EdgeInv
<1>12. CASE RecvData
  BY <1>12 DEF RecvData, EnableIn
<1>13. CASE RecvEnd
  BY <1>13 DEF RecvEnd, AfterNoData
<1>14. CASE RecvSkipped
  BY <1>14 DEF RecvSkipped, AfterNoData
<1>15. CASE RecvWouldBlock
  BY <1>15 DEF RecvWouldBlock, EnableIn
<1>16. CASE RecvFails
  BY <1>16 DEF RecvFails
<1>17. CASE SendData
  BY <1>17 DEF SendData, RecvNow, SentNow, Rewound
<1>18. CASE SendWouldBlock
  BY <1>18 DEF SendWouldBlock, EnableOut
<1>19. CASE SendFails
  BY <1>19 DEF SendFails
<1>20. CASE ServerIntr
  BY <1>20 DEF ServerIntr
<1>21. CASE Keep
  <2>1. /\ UNCHANGED <<mech, reported, sendagain, nospace>> /\ spc = "again"
        /\ Readable' = Readable /\ Writable' = Writable /\ Latched' = Latched
        /\ events' = Watched
        /\ edges' = IF Modified THEN edges \cup (Ready \cap Watched) ELSE edges
    BY <1>21 DEF Keep
  <2>2. mech = "WSAEvent" => Watched = events
    BY DEF Watched
  <2>3. mech = "epoll" /\ sendagain /\ "OUT" \notin reported
        => Modified /\ "OUT" \in Watched
    BY DEF Watched, Modified
  <2>4. Writable => "OUT" \in Ready
    BY ReadyFacts
  <2> HIDE DEF Readable, Writable, EdgeInv, AskInv, Latched
  <2>5. "IN" \in edges => "IN" \in edges'
    BY <2>1
  <2>6. \/ "OUT" \in edges
        \/ mech = "epoll" /\ sendagain /\ "OUT" \notin reported /\ Writable
        => "OUT" \in edges'
    BY <2>1, <2>3, <2>4
  <2> QED
    BY <2>1, <2>2, <2>5, <2>6 DEF EdgeInv
<1>22. CASE CallAgain
  BY <1>22 DEF CallAgain
<1>23. CASE Refuse
  BY <1>23 DEF Refuse, Shut
<1>24. CASE ModifyFails
  BY <1>24 DEF ModifyFails, Shut
<1>25. CASE Close
  BY <1>25 DEF Close, Shut
<1>26. CASE Leave
  BY <1>26 DEF Leave
<1>27. CASE ClientShutdown
  <2>1. UNCHANGED <<mech, spc, reported, sendagain>> /\ Signal({"IN", "FIN"})
    BY <1>27 DEF ClientShutdown
  <2>2. CASE spc \notin {"again", "wait"}
    BY <2>1, <2>2
  <2>3. CASE spc \in {"again", "wait"}
    <3>1. upFin' /\ UNCHANGED <<down, rst, nospace>>
      BY <1>27 DEF ClientShutdown
    <3>2. Readable' /\ (Writable' <=> Writable)
      BY <3>1 DEF Readable, Writable, Space
    <3> HIDE DEF Readable, Writable, EdgeInv, AskInv
    <3> QED
      BY <2>1, <2>3, <3>1, <3>2, EdgeSignal
  <2> QED
    BY <2>2, <2>3
<1>28. CASE Shutdown
  BY <1>28 DEF Shutdown
<1>29. CASE RegisterFails
  BY <1>29 DEF RegisterFails
<1>30. CASE UNCHANGED vars
  BY <1>30
<1> QED
  BY <1>1, <1>2, <1>3, <1>4, <1>5, <1>6, <1>7, <1>8, <1>9, <1>10, <1>11,
     <1>12, <1>13, <1>14, <1>15, <1>16, <1>17, <1>18, <1>19, <1>20, <1>21,
     <1>22, <1>23, <1>24, <1>25, <1>26, <1>27, <1>28, <1>29, <1>30
     DEF Next, ClientStep, ServerStep

LEMMA WakeInitially == Init => WaitInv /\ AskInv /\ EdgeInv
BY ConstantFacts DEF Init, WaitInv, AskInv, EdgeInv, InCallback, MayRecv

\* A server that waits is told of what it waits for.
LEMMA WakeEnough == TypeOK /\ WaitInv /\ AskInv /\ EdgeInv => ServerAwake
<1> SUFFICES ASSUME TypeOK, WaitInv, AskInv, EdgeInv, spc = "wait"
             PROVE  /\ sendagain => Unsent > 0
                    /\ sendagain /\ Writable /\ mech # "select" => Reports # {}
                    /\ ~sendagain => MayRecv
                    /\ ~sendagain /\ Readable => Reports # {}
  BY DEF ServerAwake
<1>1. mech \in {"poll", "select", "devpoll", "epoll", "kqueue", "WSAEvent"}
  BY ReflectAssumption DEF TypeOK, AskInv
<1>2. Latched <=> mech \in {"epoll", "kqueue", "WSAEvent"}
  BY DEF Latched
<1>3. ASSUME sendagain, Writable, mech # "select"
      PROVE  Reports # {}
  <2>1. "OUT" \in Ready
    BY <1>3, ReadyFacts
  <2>2. CASE mech \in {"poll", "devpoll"}
    <3>1. "OUT" \in events
      BY <1>3, <2>2 DEF AskInv
    <3> QED
      BY <2>1, <2>2, <3>1, ReportsLevel
  <2>3. CASE Latched
    <3>1. "OUT" \in edges
      BY <1>3, <2>3 DEF EdgeInv
    <3>2. mech = "epoll" => "OUT" \in events
      BY <1>3 DEF AskInv
    <3> QED
      BY <1>2, <2>1, <2>3, <3>1, <3>2, ReportsChange
  <2> QED
    BY <1>1, <1>2, <1>3, <2>2, <2>3
<1>4. ASSUME ~sendagain, Readable
      PROVE  Reports # {}
  <2>1. "IN" \in Ready
    BY <1>4, ReadyFacts
  <2>2. mech # "WSAEvent" => "IN" \in events
    BY <1>1 DEF AskInv
  <2>3. CASE mech \in {"poll", "select", "devpoll"}
    BY <2>1, <2>2, <2>3, ReportsLevel
  <2>4. CASE Latched
    <3>1. "IN" \in edges
      BY <1>4, <2>4 DEF EdgeInv
    <3> QED
      BY <1>2, <2>1, <2>2, <2>4, <3>1, ReportsChange
  <2> QED
    BY <1>1, <1>2, <2>3, <2>4
<1> QED
  BY <1>3, <1>4 DEF WaitInv

(* Under every loop, split of the data, interruption and fault, a server   *)
(* that waits has bytes to send or room to receive, and the loop is told   *)
(* when it can: no edge is lost between a call that would block and the    *)
(* wait, nor by a registration that changes.                               *)
THEOREM NeverAsleep == SafetySpec => []ServerAwake
<1> DEFINE WakeInv == WaitInv /\ AskInv /\ EdgeInv
<1>1. Init => WakeInv
  BY WakeInitially
<1>2. TypeOK /\ WakeInv /\ [Next]_vars => WakeInv'
  BY WaitStep, AskStep, EdgeStep
<1>3. TypeOK /\ WakeInv => ServerAwake
  BY WakeEnough
<1> HIDE DEF WakeInv
<1> QED
  BY <1>1, <1>2, <1>3, TypeCorrect, PTL DEF SafetySpec

-----------------------------------------------------------------------------
(* Client and server never wait for each other.                            *)

\* A client that waits has left something under way: if the pipes are empty, the
\* server is about to send.
HandInv ==
    /\ csent = Total => upFin \/ cpc = "shutdown"
    /\ cpc = "recv" /\ up = <<>> /\ ~upFin /\ down = <<>> /\ ~rst => spc = "send"

\* How the connection can end.
EndInv ==
    /\ Alive => crecv < Total
    /\ spc = "closed" => downFin
    /\ spc = "left" => mech = "accept"
    /\ mech = "accept" /\ faulted => ~Alive \/ rst

\* The client leaves something under way.
LEMMA HandStep ==
  ASSUME TypeOK, WaitInv, HandInv, [Next]_vars
  PROVE  HandInv'
<1> USE DEF HandInv, vars, client,
   context, loop, net, history
<1>1. CASE ClientSend
  BY <1>1, SentUp DEF ClientSend, Ended
<1>2. CASE ClientSendsNothing
  <2>1. Space(up) = 0 => up # <<>>
    BY ConstantFacts DEF Space
  <2> QED
    BY <1>2, <2>1 DEF ClientSendsNothing
<1>3. CASE ClientRecv
  BY <1>3 DEF ClientRecv
<1>4. CASE ClientEOF
  BY <1>4 DEF ClientEOF
<1>5. CASE ClientFails
  BY <1>5 DEF ClientFails
<1>6. CASE ClientIntr
  BY <1>6 DEF ClientIntr
<1>7. CASE Kill
  BY <1>7 DEF Kill
<1>8. CASE Reset
  BY <1>8 DEF Reset
<1>9. CASE Accept
  BY <1>9 DEF Accept
<1>10. CASE Dispatch
  BY <1>10 DEF Dispatch
<1>11. CASE FalseAlarm
  BY <1>11 DEF FalseAlarm
<1>12. CASE RecvData
  BY <1>12 DEF RecvData
<1>13. CASE RecvEnd
  BY <1>13 DEF RecvEnd, AfterNoData
<1>14. CASE RecvSkipped
  BY <1>14 DEF RecvSkipped, AfterNoData
<1>15. CASE RecvWouldBlock
  BY <1>15 DEF RecvWouldBlock
<1>16. CASE RecvFails
  BY <1>16 DEF RecvFails
<1>17. CASE SendData
  <2>1. Alive => down' # <<>>
    BY <1>17, SentDown
  <2>2. UNCHANGED <<client, upFin>>
    BY <1>17 DEF SendData
  <2> QED
    BY <2>1, <2>2 DEF Alive
<1>18. CASE SendWouldBlock
  <2>1. down # <<>>
    BY <1>18, ConstantFacts DEF SendWouldBlock, Space
  <2> QED
    BY <1>18, <2>1 DEF SendWouldBlock
<1>19. CASE SendFails
  BY <1>19 DEF SendFails
<1>20. CASE ServerIntr
  <2>1. spc = "send" => down # <<>>
    BY <1>20, ConstantFacts DEF ServerIntr, Space
  <2> QED
    BY <1>20, <2>1 DEF ServerIntr
<1>21. CASE Keep
  BY <1>21 DEF Keep
<1>22. CASE CallAgain
  BY <1>22 DEF CallAgain
<1>23. CASE Refuse
  BY <1>23 DEF Refuse, Shut
<1>24. CASE ModifyFails
  BY <1>24 DEF ModifyFails, Shut, Modified
<1>25. CASE Close
  BY <1>25 DEF Close, Shut
<1>26. CASE Leave
  BY <1>26 DEF Leave
<1>27. CASE ClientShutdown
  BY <1>27 DEF ClientShutdown, Signal, Latched
<1>28. CASE Shutdown
  BY <1>28 DEF Shutdown
<1>29. CASE RegisterFails
  BY <1>29 DEF RegisterFails
<1>30. CASE UNCHANGED vars
  BY <1>30
<1> QED
  BY <1>1, <1>2, <1>3, <1>4, <1>5, <1>6, <1>7, <1>8, <1>9, <1>10, <1>11,
     <1>12, <1>13, <1>14, <1>15, <1>16, <1>17, <1>18, <1>19, <1>20, <1>21,
     <1>22, <1>23, <1>24, <1>25, <1>26, <1>27, <1>28, <1>29, <1>30
     DEF Next, ClientStep, ServerStep

\* How the connection ends.
LEMMA EndStep ==
  ASSUME TypeOK, EndInv, [Next]_vars
  PROVE  EndInv'
<1> USE DEF EndInv, Alive, vars, client,
   context, loop, net, history
<1>1. CASE ClientSend
  BY <1>1 DEF ClientSend, Ended
<1>2. CASE ClientSendsNothing
  BY <1>2 DEF ClientSendsNothing
<1>3. CASE ClientRecv
  <2>1. crecv' \in 0 .. Total
    <3>1. TypeOK'
      BY <1>3, TypeStep DEF Next, ClientStep
    <3> QED
      BY <3>1 DEF TypeOK
  <2>2. cpc' = (IF crecv' = Total THEN "done" ELSE "send")
    BY <1>3 DEF ClientRecv
  <2>3. UNCHANGED <<spc, mech, downFin, rst, faulted>> /\ Alive
    BY <1>3 DEF ClientRecv, Alive
  <2> QED
    BY <2>1, <2>2, <2>3, ConstantFacts DEF Alive
<1>4. CASE ClientEOF
  BY <1>4 DEF ClientEOF
<1>5. CASE ClientFails
  BY <1>5 DEF ClientFails
<1>6. CASE ClientIntr
  BY <1>6 DEF ClientIntr
<1>7. CASE Kill
  BY <1>7 DEF Kill
<1>8. CASE Reset
  BY <1>8 DEF Reset
<1>9. CASE Accept
  BY <1>9 DEF Accept
<1>10. CASE Dispatch
  BY <1>10 DEF Dispatch
<1>11. CASE FalseAlarm
  BY <1>11 DEF FalseAlarm
<1>12. CASE RecvData
  BY <1>12 DEF RecvData
<1>13. CASE RecvEnd
  BY <1>13 DEF RecvEnd, AfterNoData
<1>14. CASE RecvSkipped
  BY <1>14 DEF RecvSkipped, AfterNoData
<1>15. CASE RecvWouldBlock
  BY <1>15 DEF RecvWouldBlock
<1>16. CASE RecvFails
  BY <1>16 DEF RecvFails
<1>17. CASE SendData
  BY <1>17 DEF SendData
<1>18. CASE SendWouldBlock
  BY <1>18 DEF SendWouldBlock
<1>19. CASE SendFails
  BY <1>19 DEF SendFails
<1>20. CASE ServerIntr
  BY <1>20 DEF ServerIntr
<1>21. CASE Keep
  BY <1>21 DEF Keep
<1>22. CASE CallAgain
  BY <1>22 DEF CallAgain
<1>23. CASE Refuse
  BY <1>23 DEF Refuse, Shut
<1>24. CASE ModifyFails
  BY <1>24 DEF ModifyFails, Shut, Modified
<1>25. CASE Close
  BY <1>25 DEF Close, Shut
<1>26. CASE Leave
  BY <1>26 DEF Leave
<1>27. CASE ClientShutdown
  BY <1>27 DEF ClientShutdown, Signal, Latched
<1>28. CASE Shutdown
  BY <1>28 DEF Shutdown
<1>29. CASE RegisterFails
  BY <1>29 DEF RegisterFails
<1>30. CASE UNCHANGED vars
  BY <1>30
<1> QED
  BY <1>1, <1>2, <1>3, <1>4, <1>5, <1>6, <1>7, <1>8, <1>9, <1>10, <1>11,
     <1>12, <1>13, <1>14, <1>15, <1>16, <1>17, <1>18, <1>19, <1>20, <1>21,
     <1>22, <1>23, <1>24, <1>25, <1>26, <1>27, <1>28, <1>29, <1>30
     DEF Next, ClientStep, ServerStep

LEMMA HandInitially == Init => HandInv /\ EndInv
BY ConstantFacts DEF Init, HandInv, EndInv

\* With nothing under way to the client, and the server waiting, there is something for
\* the server.
LEMMA WaitEnough ==
  ASSUME TypeOK, WaitInv, AskInv, ServerAwake, InCourse, ClosedAfterEcho, HandInv, EndInv
  PROVE  NoMutualWait
<1> SUFFICES ASSUME ClientBlocked, ServerBlocked, spc # "unwatched"
             PROVE  FALSE
  BY DEF NoMutualWait
<1>1. /\ cpc = "recv" /\ Alive /\ down = <<>> /\ Len(down) = 0 /\ ~downFin /\ ~rst
      /\ crecv < Total /\ Total \in Nat /\ crecv \in Nat
  BY ConstantFacts DEF ClientBlocked, Alive, EndInv, TypeOK
<1>2. Writable
  BY <1>1, ConstantFacts DEF Writable, Space
<1>3. spc # "send" => Readable
  BY <1>1 DEF HandInv, Readable
<1>4. CASE spc = "wait" /\ Reports = {}
  <2>1. Readable /\ sendagain /\ mech = "select"
    BY <1>2, <1>3, <1>4 DEF ServerAwake
  <2>2. "IN" \in events
    BY <1>4, <2>1 DEF AskInv, InCallback
  <2>3. "IN" \in Ready
    BY <2>1, ReadyFacts
  <2> QED
    BY <1>4, <2>1, <2>2, <2>3, ReportsLevel
<1>5. CASE mech = "accept" /\ spc = "recv" /\ MayRecv /\ ~Readable
  BY <1>3, <1>5
<1>6. CASE mech = "accept" /\ spc = "send" /\ ~Writable
  BY <1>2, <1>6
<1>7. CASE spc = "closed"
  BY <1>1, <1>7 DEF EndInv
<1>8. CASE spc = "left"
  <2>1. ~faulted
    BY <1>1, <1>8 DEF EndInv
  <2>2. crecv + Len(down) = Total
    BY <1>1, <1>8, <2>1 DEF ClosedAfterEcho
  <2> QED
    BY <1>1, <2>2
<1> QED
  BY <1>4, <1>5, <1>6, <1>7, <1>8 DEF ServerBlocked

(* On a connection that its loop looks at client and server never wait for *)
(* each other, under every loop, size, split of the data, interruption and *)
(* fault: a client that waits for data finds the server about to send or   *)
(* told of something to read, although the server stops reading while it   *)
(* waits for room and the client reads only between two sends.  A          *)
(* connection whose registration fails in devpoll_loop is not looked at,   *)
(* and its client waits for ever.                                          *)
THEOREM NeverBothWait == SafetySpec => []NoMutualWait
<1> DEFINE WakeInv == WaitInv /\ AskInv
           MoveInv == HandInv /\ EndInv
<1>1. Init => WakeInv /\ MoveInv
  BY WakeInitially, HandInitially
<1>2. TypeOK /\ WakeInv /\ [Next]_vars => WakeInv'
  BY WaitStep, AskStep
<1>3. TypeOK /\ WakeInv /\ MoveInv /\ [Next]_vars => MoveInv'
  BY HandStep, EndStep
<1>4. TypeOK /\ WakeInv /\ MoveInv /\ ServerAwake /\ InCourse /\ ClosedAfterEcho
        => NoMutualWait
  BY WaitEnough
<1> HIDE DEF WakeInv, MoveInv
<1> QED
  BY <1>1, <1>2, <1>3, <1>4, TypeCorrect, NeverAsleep, CourseKept, NeverCutShort, PTL
     DEF SafetySpec
=============================================================================
