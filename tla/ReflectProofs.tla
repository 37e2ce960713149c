---------------------------- MODULE ReflectProofs ----------------------------
(***************************************************************************)
(* Theorems about Reflect for every amount of data, every size of buffer   *)
(* and pipe, every loop and every fault: the data come back in order.      *)
(***************************************************************************)
EXTENDS Reflect, SequenceTheorems, TLAPS

(* The sizes, from the assumption on the constants.                        *)
LEMMA ConstantFacts ==
  /\ Total \in Nat /\ BufSize \in Nat /\ PipeCap \in Nat /\ MaxIntr \in Nat
  /\ Total > 0 /\ BufSize > 0 /\ PipeCap > 0
BY ReflectAssumption

-----------------------------------------------------------------------------
(* Bytes.                                                                  *)

(* What a call may move.                                                   *)
LEMMA LeastFacts ==
  ASSUME NEW a \in Int, NEW b \in Int, NEW n \in 1 .. Least(a, b)
  PROVE  n \in Nat /\ n > 0 /\ n <= a /\ n <= b
BY DEF Least

(* What is cut out of a buffer.                                            *)
LEMMA PieceFacts ==
  ASSUME NEW N \in Nat, NEW b \in [1 .. N -> Nat],
         NEW at \in Nat, NEW n \in Nat, at + n <= N
  PROVE  /\ Piece(b, at, n) \in Seq(Nat) /\ Len(Piece(b, at, n)) = n
         /\ \A i \in 1 .. n : Piece(b, at, n)[i] = b[at + i]
<1>1. b \in Seq(Nat) /\ Len(b) = N
  OBVIOUS
<1>2. \A i \in at + 1 .. at + n : b[i] \in Nat
  OBVIOUS
<1> QED
  BY <1>1, <1>2 DEF Piece

(* What is left of a pipe.                                                 *)
LEMMA DrainedFacts ==
  ASSUME NEW p \in Seq(Nat), NEW n \in 0 .. Len(p)
  PROVE  /\ Drained(p, n) \in Seq(Nat) /\ Len(Drained(p, n)) = Len(p) - n
         /\ \A i \in 1 .. Len(p) - n : Drained(p, n)[i] = p[n + i]
<1>1. \A i \in n + 1 .. Len(p) : p[i] \in Nat
  OBVIOUS
<1> QED
  BY <1>1 DEF Drained

(* A buffer that was read into.                                            *)
LEMMA StoredFacts ==
  ASSUME NEW N \in Nat, NEW b \in [1 .. N -> Nat], NEW p \in Seq(Nat),
         NEW at \in Nat, NEW n \in 0 .. Len(p), at + n <= N
  PROVE  /\ Stored(b, at, p, n) \in [1 .. N -> Nat]
         /\ \A i \in 1 .. n : Stored(b, at, p, n)[at + i] = p[i]
         /\ \A i \in 1 .. at : Stored(b, at, p, n)[i] = b[i]
         /\ \A i \in at + n + 1 .. N : Stored(b, at, p, n)[i] = b[i]
<1>1. DOMAIN b = 1 .. N
  OBVIOUS
<1>2. ASSUME NEW i \in 1 .. N, at < i, i <= at + n
      PROVE  i - at \in 1 .. Len(p) /\ p[i - at] \in Nat
  BY <1>2
<1>3. Stored(b, at, p, n) \in [1 .. N -> Nat]
  BY <1>1, <1>2 DEF Stored
<1>4. ASSUME NEW i \in 1 .. n
      PROVE  Stored(b, at, p, n)[at + i] = p[i]
  <2>1. at + i \in 1 .. N /\ at < at + i /\ at + i <= at + n /\ (at + i) - at = i
    BY <1>4
  <2> QED
    BY <1>1, <2>1 DEF Stored
<1>5. \A i \in 1 .. at : Stored(b, at, p, n)[i] = b[i]
  BY <1>1 DEF Stored
<1>6. \A i \in at + n + 1 .. N : Stored(b, at, p, n)[i] = b[i]
  BY <1>1 DEF Stored
<1> QED
  BY <1>3, <1>4, <1>5, <1>6

(* A pipe that was written to.                                             *)
LEMMA JoinedFacts ==
  ASSUME NEW p \in Seq(Nat), NEW q \in Seq(Nat)
  PROVE  /\ p \o q \in Seq(Nat) /\ Len(p \o q) = Len(p) + Len(q)
         /\ \A i \in 1 .. Len(p) : (p \o q)[i] = p[i]
         /\ \A i \in 1 .. Len(q) : (p \o q)[Len(p) + i] = q[i]
OBVIOUS

-----------------------------------------------------------------------------
(* Types.                                                                  *)

(* Every step keeps the indices inside the buffers.                        *)
LEMMA TypeStep ==
  ASSUME TypeOK, [Next]_vars
  PROVE  TypeOK'
<1> USE ConstantFacts
<1>1. CASE ClientSend
  <2>1. PICK n \in 1 .. Least(Total - csent, Space(up)) :
           /\ up' = up \o Piece(cbuf, csent, n)
           /\ csent' = csent + n
    BY <1>1 DEF ClientSend
  <2>2. Total - csent \in Int /\ Space(up) \in Int /\ csent \in Nat /\ Len(up) \in Nat
    BY DEF Space, TypeOK
  <2>3. /\ n \in Nat /\ csent + n <= Total /\ Len(up) + n <= PipeCap
        /\ csent \in Nat
    <3>1. n \in Nat /\ n <= Total - csent /\ n <= Space(up)
      BY <2>2, LeastFacts
    <3> QED
      BY <2>2, <3>1 DEF Space
  <2>4. cbuf \in [1 .. Total -> Nat]
    BY DEF TypeOK
  <2>5. Total \in Nat
    BY ConstantFacts
  <2>6. Piece(cbuf, csent, n) \in Seq(Nat) /\ Len(Piece(cbuf, csent, n)) = n
    <3>1. csent \in Nat /\ n \in Nat /\ csent + n <= Total
      BY <2>3
    <3> QED
      BY ONLY <3>1, <2>4, <2>5, PieceFacts
  <2>7. up' \in Seq(Nat) /\ Len(up') <= PipeCap /\ csent' \in 0 .. Total
    BY <2>1, <2>3, <2>6, JoinedFacts DEF TypeOK
  <2> QED
    BY <1>1, <2>7 DEF ClientSend, Signal, Ended, TypeOK, history, context, Happenings
<1>2. CASE ClientSendsNothing
  BY <1>2 DEF ClientSendsNothing, TypeOK, history, context, loop, net
<1>3. CASE ClientRecv
  <2>1. PICK n \in 1 .. Least(Total - crecv, Len(down)) :
           /\ cbuf' = Stored(cbuf, crecv, down, n)
           /\ crecv' = crecv + n
           /\ down' = Drained(down, n)
    BY <1>3 DEF ClientRecv
  <2>2. n \in 0 .. Len(down) /\ crecv + n <= Total /\ crecv \in Nat /\ n > 0
    BY <2>1 DEF Least, TypeOK
  <2>3. cbuf \in [1 .. Total -> Nat] /\ down \in Seq(Nat)
    BY DEF TypeOK
  <2>4. cbuf' \in [1 .. Total -> Nat]
    <3>1. Stored(cbuf, crecv, down, n) \in [1 .. Total -> Nat]
      BY <2>2, <2>3, StoredFacts
    <3> QED
      BY <2>1, <3>1
  <2>5. Len(down) \in Nat /\ Len(down) <= PipeCap
    BY DEF TypeOK
  <2>6. down' \in Seq(Nat) /\ Len(down') <= PipeCap
    <3>1. down \in Seq(Nat) /\ n \in 0 .. Len(down)
      BY <2>2, <2>3
    <3>2. Drained(down, n) \in Seq(Nat) /\ Len(Drained(down, n)) = Len(down) - n
      BY ONLY <3>1, DrainedFacts
    <3>3. Len(down) - n <= PipeCap
      BY <2>2, <2>5
    <3> QED
      BY <2>1, <3>2, <3>3
  <2>7. crecv' \in 0 .. Total
    BY <2>1, <2>2
  <2> QED
    BY <1>3, <2>4, <2>6, <2>7 DEF ClientRecv, Signal, TypeOK, history, context, Happenings
<1>4. CASE ClientEOF \/ ClientFails
  <2>1. CASE ClientEOF
    BY <2>1 DEF ClientEOF, TypeOK, history, context, loop, net
  <2>2. CASE ClientFails
    BY <2>2 DEF ClientFails, TypeOK, history, context, loop, net
  <2> QED
    BY <1>4, <2>1, <2>2
<1>5. CASE ClientIntr
  <2>1. intr' \in 0 .. MaxIntr
    BY <1>5 DEF ClientIntr, TypeOK
  <2> QED
    BY <1>5, <2>1 DEF ClientIntr, TypeOK, history, context, loop, net
<1>6. CASE Kill
  BY <1>6 DEF Kill, Signal, TypeOK, history, context, Happenings
<1>7. CASE Reset
  BY <1>7 DEF Reset, Signal, TypeOK, history, client, context, Happenings
<1>8. CASE Accept
  BY <1>8 DEF Accept, FirstEvents, Ready, TypeOK, history, client, context, net, Happenings
<1>9. CASE Dispatch
  <2>1. PICK E \in Reports : reported' = E
    BY <1>9 DEF Dispatch
  <2>2. E \subseteq Happenings
    BY <2>1 DEF Reports, TypeOK, Ready, Happenings
  <2>3. edges' \subseteq Happenings
    BY <1>9 DEF Dispatch, TypeOK
  <2> QED
    BY <1>9, <2>1, <2>2, <2>3 DEF Dispatch, TypeOK, history, client, net
<1>10. CASE FalseAlarm
  BY <1>10 DEF FalseAlarm, TypeOK, history, client, context, net
<1>11. CASE RecvData
  <2>1. PICK n \in 1 .. Least(BufSize - recvbytes, Len(up)) :
           /\ sbuf' = Stored(sbuf, recvbytes, up, n)
           /\ recvbytes' = recvbytes + n
           /\ up' = Drained(up, n)
    BY <1>11 DEF RecvData
  <2>2. n \in 0 .. Len(up) /\ recvbytes + n <= BufSize /\ recvbytes \in Nat /\ n > 0
    BY <2>1 DEF Least, TypeOK
  <2>3. sbuf \in [1 .. BufSize -> Nat] /\ up \in Seq(Nat)
    BY DEF TypeOK
  <2>4. sbuf' \in [1 .. BufSize -> Nat]
    BY <2>1, <2>2, <2>3, StoredFacts
  <2>5. up' \in Seq(Nat) /\ Len(up') <= PipeCap
    <3>1. Drained(up, n) \in Seq(Nat) /\ Len(Drained(up, n)) = Len(up) - n
      BY ONLY <2>2, <2>3, DrainedFacts
    <3>2. Len(up) \in Nat /\ Len(up) <= PipeCap
      BY DEF TypeOK
    <3>3. Len(up) - n <= PipeCap
      BY <2>2, <3>2
    <3> QED
      BY <2>1, <3>1, <3>3
  <2>6. recvbytes' \in 0 .. BufSize /\ sendbytes \in 0 .. recvbytes'
    BY <2>1, <2>2 DEF TypeOK
  <2> QED
    BY <1>11, <2>4, <2>5, <2>6 DEF RecvData, EnableIn, TypeOK, history, client, Happenings
<1>12. CASE RecvEnd \/ RecvSkipped \/ RecvFails
  <2>1. CASE RecvEnd
    BY <2>1 DEF RecvEnd, AfterNoData, TypeOK, history, client, loop, net
  <2>2. CASE RecvSkipped
    BY <2>2 DEF RecvSkipped, AfterNoData, TypeOK, history, client, context, loop, net
  <2>3. CASE RecvFails
    BY <2>3 DEF RecvFails, TypeOK, history, client, context, loop, net
  <2> QED
    BY <1>12, <2>1, <2>2, <2>3
<1>13. CASE RecvWouldBlock
  BY <1>13 DEF RecvWouldBlock, EnableIn, TypeOK, history, client, context, net, Happenings
<1>14. CASE SendData
  <2>1. PICK n \in 1 .. Least(Unsent, Space(down)) :
           LET sent == sendbytes + n IN
           /\ down' = IF Alive THEN down \o Piece(sbuf, sendbytes, n) ELSE down
           /\ recvbytes' = RecvNow(sent)
           /\ sendbytes' = SentNow(sent)
    BY <1>14 DEF SendData
  <2>2. /\ Unsent \in Int /\ Space(down) \in Int /\ sendbytes \in Nat
        /\ recvbytes \in 0 .. BufSize /\ Len(down) \in Nat
    BY DEF Space, Unsent, TypeOK
  <2>3. /\ n \in Nat /\ sendbytes \in Nat /\ recvbytes \in 0 .. BufSize
        /\ sendbytes + n <= recvbytes
        /\ sendbytes + n <= BufSize /\ Len(down) + n <= PipeCap
    <3>1. n \in Nat /\ n <= Unsent /\ n <= Space(down)
      BY <2>2, LeastFacts
    <3> QED
      BY <2>2, <3>1 DEF Space, Unsent
  <2>4. sbuf \in [1 .. BufSize -> Nat]
    BY DEF TypeOK
  <2>5. BufSize \in Nat
    BY ConstantFacts
  <2>6. Piece(sbuf, sendbytes, n) \in Seq(Nat) /\ Len(Piece(sbuf, sendbytes, n)) = n
    <3>1. sendbytes \in Nat /\ n \in Nat /\ sendbytes + n <= BufSize
      BY <2>3
    <3> QED
      BY ONLY <3>1, <2>4, <2>5, PieceFacts
  <2>7. down' \in Seq(Nat) /\ Len(down') <= PipeCap
    BY <2>1, <2>3, <2>6, JoinedFacts DEF TypeOK
  <2>8. recvbytes' \in 0 .. BufSize /\ sendbytes' \in 0 .. recvbytes'
    BY <2>1, <2>3 DEF RecvNow, SentNow, Rewound
  <2> QED
    BY <1>14, <2>1, <2>7, <2>8 DEF SendData, TypeOK, history, client, loop
<1>15. CASE SendWouldBlock
  BY <1>15 DEF SendWouldBlock, EnableOut, TypeOK, history, client, Happenings
<1>16. CASE Shutdown \/ SendFails \/ RegisterFails \/ Leave
  BY <1>16 DEF Shutdown, SendFails, RegisterFails, Leave, TypeOK, history, client, context, loop, net
<1>17. CASE ServerIntr
  BY <1>17 DEF ServerIntr, TypeOK, history, client, context, loop, net
<1>18. CASE Keep
  BY <1>18 DEF Keep, Watched, Modified, Ready, TypeOK, history, client, context, net, Happenings
<1>19. CASE CallAgain
  BY <1>19 DEF CallAgain, TypeOK, history, client, loop, net
<1>20. CASE Close \/ Refuse \/ ModifyFails
  BY <1>20 DEF Close, Refuse, ModifyFails, Shut, TypeOK, history, client, context
<1>21. CASE UNCHANGED vars
  BY <1>21 DEF vars, TypeOK, history, client, context, loop, net
<1>22. CASE ClientShutdown
  BY <1>22 DEF ClientShutdown, Signal, TypeOK, history, context, Happenings
<1> QED
  BY <1>1, <1>2, <1>3, <1>4, <1>6, <1>8, <1>9, <1>10, <1>11, <1>12, <1>13, <1>14, <1>15,
     <1>16, <1>18, <1>19, <1>20, <1>21, <1>5, <1>17, <1>7, <1>22
     DEF Next, ClientStep, ServerStep

(* The counters stay within the buffers and the pipes within their         *)
(* capacity, whatever fails.                                               *)
THEOREM TypeCorrect == SafetySpec => []TypeOK
<1>1. Init => TypeOK
  <2> SUFFICES ASSUME Init PROVE TypeOK
    OBVIOUS
  <2>1. Original \in [1 .. Total -> Nat] /\ [i \in 1 .. BufSize |-> 0] \in [1 .. BufSize -> Nat]
    BY DEF Original
  <2>2. up \in Seq(Nat) /\ Len(up) = 0 /\ down \in Seq(Nat) /\ Len(down) = 0
    BY DEF Init
  <2>3. /\ csent \in 0 .. Total /\ crecv \in 0 .. Total /\ intr \in 0 .. MaxIntr
        /\ recvbytes \in 0 .. BufSize /\ sendbytes \in 0 .. recvbytes
        /\ Len(up) <= PipeCap /\ Len(down) <= PipeCap
    BY <2>2, ConstantFacts DEF Init
  <2> QED
    BY <2>1, <2>2, <2>3 DEF Init, TypeOK, Happenings
<1>2. TypeOK /\ [Next]_vars => TypeOK'
  BY TypeStep
<1> QED
  BY <1>1, <1>2, PTL DEF SafetySpec

-----------------------------------------------------------------------------
(* The order of the bytes.                                                 *)

data == <<cbuf, csent, crecv, up, down, sbuf, recvbytes, sendbytes>>

(* A step that moves no byte.                                              *)
LEMMA DataStay ==
  ASSUME EchoInOrder, UNCHANGED data, Alive' => Alive
  PROVE  EchoInOrder'
BY DEF EchoInOrder, InFlight, Unsent, data

(* The client appends to the way up what follows the bytes already there.  *)
LEMMA SendInOrder ==
  ASSUME TypeOK, EchoInOrder, ClientSend
  PROVE  EchoInOrder'
<1>1. PICK n \in 1 .. Least(Total - csent, Space(up)) :
         up' = up \o Piece(cbuf, csent, n) /\ csent' = csent + n
  BY DEF ClientSend
<1> DEFINE q == Piece(cbuf, csent, n)
           c == crecv + Len(down) + Unsent
<1>2. /\ csent \in Nat /\ Len(up) \in Nat /\ Len(down) \in Nat /\ up \in Seq(Nat)
      /\ crecv \in Nat /\ Unsent \in Nat /\ Total \in Nat /\ cbuf \in [1 .. Total -> Nat]
  BY ConstantFacts DEF TypeOK, Unsent
<1>3. n \in Nat /\ csent + n <= Total
  <2>1. Total - csent \in Int /\ Space(up) \in Int
    BY <1>2, ConstantFacts DEF Space
  <2>2. n \in Nat /\ n <= Total - csent
    BY <2>1, LeastFacts
  <2> QED
    BY <1>2, <2>2
<1>4. /\ cbuf' = cbuf /\ crecv' = crecv /\ down' = down /\ sbuf' = sbuf
      /\ recvbytes' = recvbytes /\ sendbytes' = sendbytes /\ Unsent' = Unsent /\ Alive
  BY DEF ClientSend, context, Alive, Unsent
<1>5. q \in Seq(Nat) /\ Len(q) = n /\ \A i \in 1 .. n : q[i] = cbuf[csent + i]
  <2>1. /\ csent \in Nat /\ n \in Nat /\ csent + n <= Total /\ Total \in Nat
        /\ cbuf \in [1 .. Total -> Nat]
    BY <1>2, <1>3
  <2>2. q \in Seq(Nat) /\ Len(q) = n
    BY ONLY <2>1, PieceFacts
  <2>3. \A i \in 1 .. n : q[i] = cbuf[csent + i]
    BY ONLY <2>1, PieceFacts
  <2> QED
    BY ONLY <2>2, <2>3
<1>6. \A i \in 1 .. n : q[i] = csent + i
  <2> TAKE i \in 1 .. n
  <2>1. csent + i \in 1 .. Total
    BY <1>2, <1>3
  <2> QED
    BY <1>5, <2>1 DEF EchoInOrder, Original
<1> HIDE DEF q, c
<1>7. up' = up \o q
  BY <1>1 DEF q
<1>8. /\ Len(up') = Len(up) + n
      /\ \A i \in 1 .. Len(up) : up'[i] = up[i]
      /\ \A i \in 1 .. n : up'[Len(up) + i] = q[i]
  BY <1>2, <1>5, <1>7, JoinedFacts
<1>9. c \in Nat /\ c + Len(up) = csent
  BY <1>2, <1>4 DEF EchoInOrder, InFlight, c
<1>10. \A i \in 1 .. Len(up) : up[i] = c + i
  BY <1>4 DEF EchoInOrder, InFlight, c
<1>11. csent \in Nat /\ Len(up) \in Nat /\ n \in Nat
  BY <1>2, <1>3
<1>12. \A i \in 1 .. Len(up) + n : up'[i] = c + i
  <2> TAKE i \in 1 .. Len(up) + n
  <2>1. CASE i \in 1 .. Len(up)
    BY <1>8, <1>10, <2>1
  <2>2. CASE i \notin 1 .. Len(up)
    <3>1. i - Len(up) \in 1 .. n /\ Len(up) + (i - Len(up)) = i
      BY <1>2, <1>3, <2>2
    <3>2. up'[i] = csent + (i - Len(up))
      BY <1>6, <1>8, <3>1
    <3>3. csent + (i - Len(up)) = c + i
      BY ONLY <1>9, <1>11, i \in 1 .. Len(up) + n
    <3> QED
      BY <3>2, <3>3
  <2> QED
    BY <2>1, <2>2
<1>13. c + Len(up') = csent'
  <2>1. Len(up') = Len(up) + n /\ csent' = csent + n
    BY <1>1, <1>8
  <2> QED
    BY ONLY <1>9, <1>11, <2>1
<1> QED
  BY <1>4, <1>8, <1>12, <1>13 DEF EchoInOrder, InFlight, c

(* The client overwrites each byte with the same byte.                     *)
LEMMA ReceiveInOrder ==
  ASSUME TypeOK, EchoInOrder, ClientRecv
  PROVE  EchoInOrder'
<1>1. PICK n \in 1 .. Least(Total - crecv, Len(down)) :
         /\ cbuf' = Stored(cbuf, crecv, down, n)
         /\ crecv' = crecv + n
         /\ down' = Drained(down, n)
  BY DEF ClientRecv
<1>2. /\ crecv \in Nat /\ Len(down) \in Nat /\ Total \in Nat
      /\ cbuf \in [1 .. Total -> Nat] /\ down \in Seq(Nat)
  BY ConstantFacts DEF TypeOK
<1>3. n \in 0 .. Len(down) /\ crecv + n <= Total
  <2>1. Total - crecv \in Int /\ Len(down) \in Int
    BY <1>2
  <2>2. n \in Nat /\ n <= Total - crecv /\ n <= Len(down)
    BY <2>1, LeastFacts
  <2> QED
    BY <1>2, <2>2
<1>4. /\ csent' = csent /\ up' = up /\ sbuf' = sbuf /\ sendbytes' = sendbytes
      /\ recvbytes' = recvbytes /\ Unsent' = Unsent /\ Alive
  BY DEF ClientRecv, context, Alive, Unsent
<1>5. cbuf = Original /\ InFlight
  BY <1>4 DEF EchoInOrder
<1>6. \A i \in 1 .. Len(down) : down[i] = crecv + i
  BY <1>5 DEF InFlight
<1>7. /\ cbuf' \in [1 .. Total -> Nat]
      /\ \A i \in 1 .. n : cbuf'[crecv + i] = down[i]
      /\ \A i \in 1 .. crecv : cbuf'[i] = cbuf[i]
      /\ \A i \in crecv + n + 1 .. Total : cbuf'[i] = cbuf[i]
  <2> DEFINE b == Stored(cbuf, crecv, down, n)
  <2>1. /\ b \in [1 .. Total -> Nat]
        /\ \A i \in 1 .. n : b[crecv + i] = down[i]
        /\ \A i \in 1 .. crecv : b[i] = cbuf[i]
        /\ \A i \in crecv + n + 1 .. Total : b[i] = cbuf[i]
    BY ONLY <1>2, <1>3, StoredFacts
  <2> QED
    BY <1>1, <2>1
<1>8. \A i \in 1 .. Total : cbuf'[i] = i
  <2> TAKE i \in 1 .. Total
  <2>1. i \in 1 .. crecv \/ i \in crecv + n + 1 .. Total \/ i - crecv \in 1 .. n
    BY ONLY <1>2, <1>3, i \in 1 .. Total
  <2>2. cbuf[i] = i
    BY <1>5 DEF Original
  <2>3. CASE i - crecv \in 1 .. n
    <3>1. /\ i - crecv \in 1 .. Len(down) /\ crecv + (i - crecv) = i
      BY ONLY <1>2, <1>3, <2>3, i \in 1 .. Total
    <3> QED
      BY <1>6, <1>7, <2>3, <3>1
  <2> QED
    BY <1>7, <2>1, <2>2, <2>3
<1>9. cbuf' = Original
  BY <1>7, <1>8 DEF Original
<1>10. /\ Len(down') = Len(down) - n
       /\ \A i \in 1 .. Len(down) - n : down'[i] = down[n + i]
  <2> DEFINE q == Drained(down, n)
  <2>1. Len(q) = Len(down) - n /\ \A i \in 1 .. Len(down) - n : q[i] = down[n + i]
    BY ONLY <1>2, <1>3, DrainedFacts
  <2> QED
    BY <1>1, <2>1
<1>11. \A i \in 1 .. Len(down') : down'[i] = crecv' + i
  <2> TAKE i \in 1 .. Len(down')
  <2>1. i \in 1 .. Len(down) - n
    BY <1>10
  <2>2. n + i \in 1 .. Len(down) /\ crecv + (n + i) = (crecv + n) + i
    BY ONLY <1>2, <1>3, <2>1
  <2> QED
    BY <1>1, <1>6, <1>10, <2>1, <2>2
<1>12. crecv' + Len(down') = crecv + Len(down)
  <2>1. crecv' = crecv + n /\ Len(down') = Len(down) - n
    BY <1>1, <1>10
  <2> QED
    BY ONLY <1>2, <1>3, <2>1
<1> HIDE DEF Unsent
<1>13. InFlight'
  BY <1>4, <1>5, <1>11, <1>12 DEF InFlight
<1> QED
  BY <1>9, <1>13 DEF EchoInOrder, Original

(* The server stores the first of the bytes on the way up behind those it  *)
(* has not sent.                                                           *)
LEMMA StoreInOrder ==
  ASSUME TypeOK, EchoInOrder, RecvData
  PROVE  EchoInOrder'
<1>1. PICK n \in 1 .. Least(BufSize - recvbytes, Len(up)) :
         /\ sbuf' = Stored(sbuf, recvbytes, up, n)
         /\ recvbytes' = recvbytes + n
         /\ up' = Drained(up, n)
  BY DEF RecvData
<1>2. /\ recvbytes \in Nat /\ sendbytes \in Nat /\ sendbytes <= recvbytes
      /\ Len(up) \in Nat /\ BufSize \in Nat
      /\ sbuf \in [1 .. BufSize -> Nat] /\ up \in Seq(Nat)
      /\ crecv \in Nat /\ Len(down) \in Nat /\ csent \in Nat
  BY ConstantFacts DEF TypeOK
<1>3. n \in 0 .. Len(up) /\ recvbytes + n <= BufSize
  <2>1. BufSize - recvbytes \in Int /\ Len(up) \in Int
    BY <1>2
  <2>2. n \in Nat /\ n <= BufSize - recvbytes /\ n <= Len(up)
    BY <2>1, LeastFacts
  <2> QED
    BY ONLY <1>2, <2>2
<1>4. /\ csent' = csent /\ crecv' = crecv /\ cbuf' = cbuf /\ down' = down
      /\ sendbytes' = sendbytes /\ (Alive' <=> Alive)
  BY DEF RecvData, client, Alive
<1>5. Original' = Original
  BY DEF Original
<1>6. SUFFICES ASSUME Alive PROVE InFlight'
  BY <1>4, <1>5 DEF EchoInOrder
<1>7. InFlight
  BY <1>6 DEF EchoInOrder
<1> DEFINE c == crecv + Len(down)
           u == recvbytes - sendbytes
<1>8. c \in Nat /\ u \in Nat
  BY ONLY <1>2
<1>9. /\ c + u + Len(up) = csent
      /\ \A i \in 1 .. u : sbuf[sendbytes + i] = c + i
      /\ \A i \in 1 .. Len(up) : up[i] = c + u + i
      /\ \A i \in 1 .. Len(down) : down[i] = crecv + i
  BY <1>7 DEF InFlight, Unsent
<1>10. /\ \A i \in 1 .. n : sbuf'[recvbytes + i] = up[i]
       /\ \A i \in 1 .. recvbytes : sbuf'[i] = sbuf[i]
  <2> DEFINE b == Stored(sbuf, recvbytes, up, n)
  <2>1. /\ sbuf \in [1 .. BufSize -> Nat] /\ up \in Seq(Nat)
        /\ recvbytes \in Nat /\ BufSize \in Nat
    BY <1>2
  <2>2. \A i \in 1 .. n : b[recvbytes + i] = up[i]
    BY ONLY <1>3, <2>1, StoredFacts
  <2>3. \A i \in 1 .. recvbytes : b[i] = sbuf[i]
    BY ONLY <1>3, <2>1, StoredFacts
  <2> QED
    BY <1>1, <2>2, <2>3
<1>11. /\ Len(up') = Len(up) - n
       /\ \A i \in 1 .. Len(up) - n : up'[i] = up[n + i]
  <2> DEFINE q == Drained(up, n)
  <2>1. Len(q) = Len(up) - n /\ \A i \in 1 .. Len(up) - n : q[i] = up[n + i]
    BY ONLY <1>2, <1>3, DrainedFacts
  <2> QED
    BY <1>1, <2>1
<1>12. Unsent' = u + n
  <2>1. Unsent' = (recvbytes + n) - sendbytes
    BY <1>1, <1>4 DEF Unsent
  <2> QED
    BY ONLY <1>2, <1>3, <2>1
<1> HIDE DEF c
<1>13. \A i \in 1 .. u + n : sbuf'[sendbytes + i] = c + i
  <2> TAKE i \in 1 .. u + n
  <2>1. CASE i \in 1 .. u
    <3>1. sendbytes + i \in 1 .. recvbytes
      BY ONLY <1>2, <2>1
    <3> QED
      BY <1>9, <1>10, <2>1, <3>1
  <2>2. CASE i \notin 1 .. u
    <3>1. i - u \in 1 .. n /\ i - u \in 1 .. Len(up) /\ recvbytes + (i - u) = sendbytes + i
      BY ONLY <1>2, <1>3, <1>8, <2>2, i \in 1 .. u + n
    <3>2. sbuf'[sendbytes + i] = up[i - u] /\ up[i - u] = c + u + (i - u)
      BY <1>9, <1>10, <3>1
    <3>3. c + u + (i - u) = c + i
      BY ONLY <1>8, i \in 1 .. u + n, <1>3
    <3> QED
      BY <3>2, <3>3
  <2> QED
    BY <2>1, <2>2
<1> HIDE DEF u
<1>14. \A i \in 1 .. Len(up') : up'[i] = c + (u + n) + i
  <2> TAKE i \in 1 .. Len(up')
  <2>1. i \in 1 .. Len(up) - n
    BY <1>11
  <2>2. n + i \in 1 .. Len(up) /\ c + u + (n + i) = c + (u + n) + i
    BY ONLY <1>2, <1>3, <1>8, <2>1
  <2> QED
    BY <1>9, <1>11, <2>1, <2>2
<1>15. c + (u + n) + Len(up') = csent
  <2>1. Len(up') = Len(up) - n /\ c + u + Len(up) = csent
    BY <1>9, <1>11
  <2>2. Len(up) \in Nat /\ n \in Nat
    BY <1>2, <1>3
  <2> QED
    BY ONLY <1>8, <2>1, <2>2
<1> QED
  BY <1>4, <1>9, <1>12, <1>13, <1>14, <1>15 DEF InFlight, c

(* The server sends the first of the bytes it has not sent; the indices    *)
(* restart only when there are none.                                       *)
LEMMA ReturnInOrder ==
  ASSUME TypeOK, EchoInOrder, SendData
  PROVE  EchoInOrder'
<1>1. /\ csent' = csent /\ crecv' = crecv /\ cbuf' = cbuf /\ up' = up
      /\ sbuf' = sbuf /\ (Alive' <=> Alive)
  BY DEF SendData, client, Alive
<1>2. SUFFICES ASSUME Alive PROVE InFlight'
  BY <1>1 DEF EchoInOrder, Original
<1>3. PICK n \in 1 .. Least(Unsent, Space(down)) :
         /\ down' = down \o Piece(sbuf, sendbytes, n)
         /\ recvbytes' = RecvNow(sendbytes + n)
         /\ sendbytes' = SentNow(sendbytes + n)
  BY <1>2 DEF SendData
<1>4. /\ recvbytes \in Nat /\ sendbytes \in Nat /\ sendbytes <= recvbytes
      /\ recvbytes <= BufSize /\ BufSize \in Nat /\ Len(up) \in Nat
      /\ crecv \in Nat /\ Len(down) \in Nat /\ csent \in Nat
  BY ConstantFacts DEF TypeOK
<1> DEFINE u == recvbytes - sendbytes
           q == Piece(sbuf, sendbytes, n)
<1>5. n \in Nat /\ n <= u
  <2>1. Unsent \in Int /\ Space(down) \in Int
    BY <1>4, ConstantFacts DEF Unsent, Space
  <2> QED
    BY <2>1, LeastFacts DEF Unsent
<1>6. u \in Nat /\ sendbytes + n <= BufSize
  BY ONLY <1>4, <1>5
<1>7. InFlight
  BY <1>2 DEF EchoInOrder
<1>8. /\ crecv + Len(down) + u + Len(up) = csent
      /\ \A i \in 1 .. Len(down) : down[i] = crecv + i
      /\ \A i \in 1 .. u : sbuf[sendbytes + i] = crecv + Len(down) + i
      /\ \A i \in 1 .. Len(up) : up[i] = crecv + Len(down) + u + i
  BY <1>7 DEF InFlight, Unsent
<1>9. q \in Seq(Nat) /\ Len(q) = n /\ \A i \in 1 .. n : q[i] = sbuf[sendbytes + i]
  <2>1. /\ sendbytes \in Nat /\ n \in Nat /\ sendbytes + n <= BufSize
        /\ BufSize \in Nat /\ sbuf \in [1 .. BufSize -> Nat]
    BY <1>4, <1>5, <1>6 DEF TypeOK
  <2>2. q \in Seq(Nat) /\ Len(q) = n
    BY ONLY <2>1, PieceFacts
  <2>3. \A i \in 1 .. n : q[i] = sbuf[sendbytes + i]
    BY ONLY <2>1, PieceFacts
  <2> QED
    BY ONLY <2>2, <2>3
<1> HIDE DEF q
<1>10. /\ Len(down') = Len(down) + n
       /\ \A i \in 1 .. Len(down) : down'[i] = down[i]
       /\ \A i \in 1 .. n : down'[Len(down) + i] = q[i]
  <2>1. down' = down \o q /\ down \in Seq(Nat)
    BY <1>3 DEF q, TypeOK
  <2> QED
    BY <1>9, <2>1, JoinedFacts
<1>11. \A i \in 1 .. Len(down) + n : down'[i] = crecv + i
  <2> TAKE i \in 1 .. Len(down) + n
  <2>1. CASE i \in 1 .. Len(down)
    BY <1>8, <1>10, <2>1
  <2>2. CASE i \notin 1 .. Len(down)
    <3>1. /\ i - Len(down) \in 1 .. n /\ i - Len(down) \in 1 .. u
          /\ Len(down) + (i - Len(down)) = i
          /\ crecv + Len(down) + (i - Len(down)) = crecv + i
      BY ONLY <1>4, <1>5, <1>6, <2>2, i \in 1 .. Len(down) + n
    <3>2. down'[i] = q[i - Len(down)]
      BY <1>10, <3>1
    <3>3. q[i - Len(down)] = crecv + Len(down) + (i - Len(down))
      BY <1>8, <1>9, <3>1
    <3> QED
      BY <3>1, <3>2, <3>3
  <2> QED
    BY <2>1, <2>2
<1>12. /\ Unsent' = u - n
       /\ \A i \in 1 .. u - n : sbuf'[sendbytes' + i] = sbuf[sendbytes + (n + i)]
  <2>1. CASE Rewound(sendbytes + n)
    <3>1. recvbytes' = 0 /\ sendbytes' = 0 /\ sendbytes + n = recvbytes
      BY <1>3, <2>1 DEF Rewound, RecvNow, SentNow
    <3>2. u - n = 0 /\ Unsent' = 0
      BY <1>4, <1>5, <3>1 DEF Unsent
    <3> QED
      BY <3>2
  <2>2. CASE ~Rewound(sendbytes + n)
    <3>1. recvbytes' = recvbytes /\ sendbytes' = sendbytes + n
      BY <1>3, <2>2 DEF RecvNow, SentNow
    <3>2. Unsent' = u - n
      BY <1>4, <1>5, <3>1 DEF Unsent
    <3>3. ASSUME NEW i \in 1 .. u - n
          PROVE  sendbytes' + i = sendbytes + (n + i)
      BY ONLY <1>4, <1>5, <3>1, i \in Int
    <3> QED
      BY <1>1, <3>2, <3>3
  <2> QED
    BY <2>1, <2>2
<1> HIDE DEF u
<1>13. crecv + Len(down') + (u - n) = crecv + Len(down) + u
  <2>1. Len(down') = Len(down) + n
    BY <1>10
  <2> QED
    BY ONLY <1>4, <1>5, <1>6, <2>1
<1>14. \A i \in 1 .. u - n : sbuf'[sendbytes' + i] = crecv + Len(down') + i
  <2> TAKE i \in 1 .. u - n
  <2>1. n + i \in 1 .. u
    BY ONLY <1>5, <1>6, i \in 1 .. u - n
  <2>2. crecv + Len(down) + (n + i) = crecv + Len(down') + i
    <3>1. Len(down') = Len(down) + n
      BY <1>10
    <3> QED
      BY ONLY <1>4, <1>5, <1>6, <3>1, i \in 1 .. u - n
  <2> QED
    BY <1>8, <1>12, <2>1, <2>2
<1> QED
  <2>1. /\ crecv' + Len(down') + Unsent' + Len(up') = csent'
        /\ \A i \in 1 .. Len(up') : up'[i] = crecv' + Len(down') + Unsent' + i
    BY <1>1, <1>8, <1>12, <1>13
  <2>2. \A i \in 1 .. Len(down') : down'[i] = crecv' + i
    BY <1>1, <1>10, <1>11
  <2>3. \A i \in 1 .. Unsent' : sbuf'[sendbytes' + i] = crecv' + Len(down') + i
    BY <1>1, <1>12, <1>14
  <2> QED
    BY <2>1, <2>2, <2>3 DEF InFlight

(* Every step keeps each byte at its place.                                *)
LEMMA OrderStep ==
  ASSUME TypeOK, EchoInOrder, [Next]_vars
  PROVE  EchoInOrder'
<1>1. CASE ClientSend
  BY <1>1, SendInOrder
<1>2. CASE ClientRecv
  BY <1>2, ReceiveInOrder
<1>3. CASE RecvData
  BY <1>3, StoreInOrder
<1>4. CASE SendData
  BY <1>4, ReturnInOrder
<1>5. CASE ClientShutdown \/ ClientSendsNothing \/ ClientEOF \/ ClientFails \/ ClientIntr
  <2>1. UNCHANGED data /\ (Alive' => Alive)
    BY <1>5 DEF ClientShutdown, ClientSendsNothing, ClientEOF, ClientFails, ClientIntr, data,
                context, net, Alive
  <2> QED
    BY <2>1, DataStay
<1>6. CASE Kill \/ Reset
  <2>1. UNCHANGED data /\ (Alive' => Alive)
    BY <1>6 DEF Kill, Reset, data, client, context, Alive
  <2> QED
    BY <2>1, DataStay
<1>7. CASE Accept \/ Dispatch \/ FalseAlarm
  <2>1. UNCHANGED data /\ (Alive' => Alive)
    BY <1>7 DEF Accept, Dispatch, FalseAlarm, data, client, context, net, Alive
  <2> QED
    BY <2>1, DataStay
<1>8. CASE RecvEnd \/ RecvSkipped \/ RecvWouldBlock \/ RecvFails
  <2>1. UNCHANGED data /\ (Alive' => Alive)
    BY <1>8 DEF RecvEnd, RecvSkipped, RecvWouldBlock, RecvFails, data, client, context,
                net, Alive
  <2> QED
    BY <2>1, DataStay
<1>9. CASE Shutdown \/ SendWouldBlock \/ SendFails \/ ServerIntr
  <2>1. UNCHANGED data /\ (Alive' => Alive)
    BY <1>9 DEF Shutdown, SendWouldBlock, SendFails, ServerIntr, data, client, context, net,
                Alive
  <2> QED
    BY <2>1, DataStay
<1>10. CASE Keep \/ CallAgain \/ Refuse \/ RegisterFails \/ ModifyFails \/ Close \/ Leave
  <2>1. UNCHANGED data /\ (Alive' => Alive)
    BY <1>10 DEF Keep, CallAgain, Refuse, RegisterFails, ModifyFails, Close, Shut, Leave, data,
                 client, context, net, Alive
  <2> QED
    BY <2>1, DataStay
<1>11. CASE UNCHANGED vars
  <2>1. UNCHANGED data /\ (Alive' => Alive)
    BY <1>11 DEF vars, data, client, context, net, Alive
  <2> QED
    BY <2>1, DataStay
<1> QED
  BY <1>1, <1>2, <1>3, <1>4, <1>5, <1>6, <1>7, <1>8, <1>9, <1>10, <1>11
     DEF Next, ClientStep, ServerStep

(* What comes back is what was sent, in order, whichever loop serves the   *)
(* connection, whatever is read and written at a time, and whatever fails. *)
THEOREM InOrder == SafetySpec => []EchoInOrder
<1>1. Init => EchoInOrder
  BY ConstantFacts DEF Init, EchoInOrder, InFlight, Unsent
<1>2. TypeOK /\ EchoInOrder /\ [Next]_vars => EchoInOrder'
  BY OrderStep
<1> QED
  BY <1>1, <1>2, TypeCorrect, PTL DEF SafetySpec

-----------------------------------------------------------------------------
(* The end of the connection.                                              *)

(* Where the connection stands while nothing fails from outside: the       *)
(* server knows of the end of the data only when there are no more, lets   *)
(* go only when it has also sent them all, and never returns to the loop   *)
(* with a buffer that is full of bytes it has sent.                        *)
Course ==
    /\ ~rst /\ crecv < Total
    /\ upFin => csent = Total
    /\ cpc = "shutdown" => csent = Total
    /\ recvdone => upFin /\ up = <<>>
    /\ spc = "send" => Unsent > 0
    /\ spc # "send" => ~(recvbytes = BufSize /\ sendbytes = BufSize)
    /\ downFin \/ spc \in {"shutdown", "close", "closed", "left"} => recvdone /\ Unsent = 0

InCourse == ~faulted /\ Alive => Course

(* A step of the client: it adds nothing after it has said that it is done. *)
LEMMA ClientCourse ==
  ASSUME TypeOK, EchoInOrder, InCourse, ~faulted, ~faulted', Alive, Alive', ClientStep
  PROVE  Course'
<1> USE ConstantFacts
<1>1. Course
  BY DEF InCourse
<1>2. CASE ClientSend
  <2>1. PICK n \in 1 .. Least(Total - csent, Space(up)) :
           up' = up \o Piece(cbuf, csent, n) /\ csent' = csent + n
    BY <1>2 DEF ClientSend
  <2>2. csent \in Nat /\ Total - csent \in Int /\ Space(up) \in Int
    BY DEF TypeOK, Space
  <2>3. n \in Nat /\ n > 0 /\ n <= Total - csent
    BY <2>2, LeastFacts
  <2>4. csent # Total
    BY <2>2, <2>3
  <2>5. /\ ~upFin /\ ~recvdone /\ ~downFin
        /\ spc \notin {"shutdown", "close", "closed", "left"}
    BY <1>1, <2>4 DEF Course
  <2>6. ~upFin' /\ (cpc' = "shutdown" => csent' = Total)
    BY <1>2, <2>5 DEF ClientSend, Ended
  <2> QED
    BY <1>1, <1>2, <2>5, <2>6 DEF Course, ClientSend, context, Unsent
<1>3. CASE ClientRecv
  <2>1. crecv' \in 0 .. Total /\ crecv' # Total
    <3>1. crecv' # Total
      BY <1>3 DEF ClientRecv, Alive
    <3>2. TypeOK'
      BY TypeStep DEF Next
    <3> QED
      BY <3>1, <3>2 DEF TypeOK
  <2>2. crecv' < Total
    BY <2>1
  <2> QED
    BY <1>1, <1>3, <2>2 DEF Course, ClientRecv, context, Unsent
<1>4. CASE ClientShutdown \/ ClientSendsNothing \/ ClientIntr
  BY <1>1, <1>4 DEF Course, ClientShutdown, ClientSendsNothing, ClientIntr, context, net, Unsent
<1>5. CASE ClientEOF \/ ClientFails
  BY <1>5 DEF ClientEOF, ClientFails, Alive
<1> QED
  BY <1>2, <1>3, <1>4, <1>5 DEF ClientStep

(* A step of the server inside its callback.                               *)
LEMMA CallbackCourse ==
  ASSUME TypeOK, EchoInOrder, InCourse, ~faulted, ~faulted', Alive, Alive',
         \/ RecvData \/ RecvEnd \/ RecvSkipped \/ RecvWouldBlock \/ RecvFails
         \/ SendData \/ Shutdown \/ SendWouldBlock \/ SendFails \/ ServerIntr
  PROVE  Course'
<1> USE ConstantFacts
<1>1. Course
  BY DEF InCourse
<1>2. recvbytes \in Nat /\ sendbytes \in Nat /\ sendbytes <= recvbytes /\ recvbytes <= BufSize
  BY DEF TypeOK
<1>3. CASE RecvData
  <2>1. PICK n \in 1 .. Least(BufSize - recvbytes, Len(up)) : recvbytes' = recvbytes + n
    BY <1>3 DEF RecvData
  <2>2. BufSize - recvbytes \in Int /\ Len(up) \in Int
    BY <1>2 DEF TypeOK
  <2>3. n \in Nat /\ n > 0
    BY <2>2, LeastFacts
  <2>4. Unsent' > 0
    BY <1>2, <1>3, <2>1, <2>3 DEF RecvData, Unsent
  <2>5. ~recvdone /\ ~downFin
    BY <1>1, <1>3 DEF RecvData, MayRecv, Course
  <2> QED
    BY <1>1, <1>3, <2>4, <2>5 DEF Course, RecvData, client
<1>4. CASE RecvEnd \/ RecvSkipped
  <2>1. spc = "recv" /\ spc' = AfterNoData
    BY <1>4 DEF RecvEnd, RecvSkipped
  <2>2. Unsent = 0 => recvdone'
    BY <1>1, <1>2, <1>4 DEF RecvEnd, RecvSkipped, MayRecv, Course, Unsent, context
  <2>3. recvdone' => recvdone \/ (upFin /\ up = <<>>)
    BY <1>4 DEF RecvEnd, RecvSkipped, context
  <2>4. UNCHANGED <<client, net, recvbytes, sendbytes>>
    BY <1>4 DEF RecvEnd, RecvSkipped, context
  <2>5. Unsent \in Int /\ Unsent >= 0 /\ Unsent' = Unsent
    BY <1>2, <2>4 DEF Unsent
  <2>6. spc' = "send" => Unsent > 0
    BY <2>1 DEF AfterNoData
  <2>7. spc' # "send" => spc' = "close" /\ Unsent = 0
    BY <2>1, <2>5 DEF AfterNoData
  <2>8. downFin => recvdone /\ Unsent = 0
    BY <1>1 DEF Course
  <2>9. recvdone => recvdone'
    BY <1>4 DEF RecvEnd, RecvSkipped, context
  <2> QED
    BY <1>1, <2>1, <2>2, <2>3, <2>4, <2>5, <2>6, <2>7, <2>8, <2>9 DEF Course, client, net
<1>5. CASE RecvWouldBlock \/ ServerIntr
  <2>1. spc # "send" \/ spc' # "send"
    BY <1>5 DEF RecvWouldBlock, ServerIntr
  <2>2. spc = "send" => Unsent > 0
    BY <1>1 DEF Course
  <2>3. ~(recvbytes = BufSize /\ sendbytes = BufSize)
    BY <1>1, <1>2, <2>2 DEF Course, Unsent
  <2> QED
    BY <1>1, <1>5, <2>3 DEF Course, RecvWouldBlock, ServerIntr, client, context, net, Unsent
<1>6. CASE RecvFails \/ SendFails
  BY <1>1, <1>6 DEF RecvFails, SendFails, Course
<1>7. CASE SendWouldBlock
  <2>1. Unsent > 0
    BY <1>1, <1>7 DEF Course, SendWouldBlock
  <2>2. ~(recvbytes = BufSize /\ sendbytes = BufSize)
    BY <1>2, <2>1 DEF Unsent
  <2> QED
    BY <1>1, <1>7, <2>2 DEF Course, SendWouldBlock, client, Unsent
<1>8. CASE SendData
  <2>1. PICK n \in 1 .. Least(Unsent, Space(down)) :
           /\ spc' = IF recvdone /\ sendbytes + n = recvbytes THEN "shutdown" ELSE "recv"
           /\ recvbytes' = RecvNow(sendbytes + n)
           /\ sendbytes' = SentNow(sendbytes + n)
    BY <1>8 DEF SendData
  <2>2. ~rst' /\ spc' \in {"recv", "shutdown"}
    BY <1>8, <2>1 DEF SendData
  <2>3. recvdone' = recvdone /\ UNCHANGED <<client, up, upFin, downFin>>
    BY <1>8 DEF SendData
  <2>4. Unsent \in Int /\ Space(down) \in Int
    BY <1>2 DEF Unsent, Space, TypeOK
  <2>5. n \in Nat /\ n > 0
    BY <2>4, LeastFacts
  <2>6. ~(recvbytes' = BufSize /\ sendbytes' = BufSize)
    BY <2>1 DEF RecvNow, SentNow, Rewound
  <2>7. ~downFin
    BY <1>1, <1>8, <2>4, <2>5 DEF Course, SendData
  <2>8. spc' = "shutdown" => recvdone' /\ Unsent' = 0
    <3> SUFFICES ASSUME spc' = "shutdown" PROVE recvdone' /\ Unsent' = 0
      OBVIOUS
    <3>1. recvdone' /\ sendbytes + n = recvbytes
      BY <2>1, <2>3
    <3>2. /\ recvbytes' = RecvNow(recvbytes) /\ sendbytes' = SentNow(recvbytes)
          /\ recvbytes \in Nat
      BY ONLY <1>2, <2>1, <3>1
    <3>3. CASE Rewound(recvbytes)
      <4>1. recvbytes' = 0 /\ sendbytes' = 0
        BY <3>2, <3>3 DEF RecvNow, SentNow
      <4> QED
        BY <3>1, <4>1 DEF Unsent
    <3>4. CASE ~Rewound(recvbytes)
      <4>1. recvbytes' = recvbytes /\ sendbytes' = recvbytes
        BY <3>2, <3>4 DEF RecvNow, SentNow
      <4>2. Unsent' = recvbytes - recvbytes
        BY <4>1 DEF Unsent
      <4> QED
        BY <3>1, <3>2, <4>2
    <3> QED
      BY <3>3, <3>4
  <2> QED
    BY <1>1, <2>2, <2>3, <2>6, <2>7, <2>8 DEF Course, client
<1>9. CASE Shutdown
  BY <1>1, <1>9 DEF Course, Shutdown, client, context, Unsent
<1> QED
  BY <1>3, <1>4, <1>5, <1>6, <1>7, <1>8, <1>9

(* A step of the loop, or a fault.                                         *)
LEMMA LoopCourse ==
  ASSUME TypeOK, EchoInOrder, InCourse, ~faulted, ~faulted', Alive, Alive',
         \/ Accept \/ Dispatch \/ FalseAlarm
         \/ Keep \/ CallAgain \/ Refuse \/ RegisterFails \/ ModifyFails \/ Close \/ Leave
         \/ Kill \/ Reset
  PROVE  Course'
<1>1. Course
  BY DEF InCourse
<1>2. CASE Accept \/ Dispatch \/ FalseAlarm \/ Keep \/ CallAgain
  BY <1>1, <1>2 DEF Course, Accept, Dispatch, FalseAlarm, Keep, CallAgain, client, context,
                    net, Unsent
<1>3. CASE Refuse \/ RegisterFails \/ ModifyFails \/ Kill \/ Reset
  BY <1>3 DEF Refuse, RegisterFails, ModifyFails, Kill, Reset
<1>4. CASE Close
  <2>1. spc = "close" /\ Shut
    BY <1>1, <1>4 DEF Close, Course
  <2>2. up = <<>> /\ recvdone /\ Unsent = 0
    BY <1>1, <2>1 DEF Course
  <2> QED
    BY <1>1, <2>1, <2>2 DEF Course, Shut, client, context, Unsent
<1>5. CASE Leave
  BY <1>1, <1>5 DEF Course, Leave, client, context, net, Unsent
<1> QED
  BY <1>2, <1>3, <1>4, <1>5

(* Every step keeps the course.                                            *)
LEMMA CourseStep ==
  ASSUME TypeOK, EchoInOrder, InCourse, [Next]_vars
  PROVE  InCourse'
<1> SUFFICES ASSUME ~faulted', Alive'
             PROVE  Course'
  BY DEF InCourse
<1>1. Alive /\ ~faulted
  BY DEF Next, vars, history, client, context, net, loop, Alive, ClientStep, ServerStep, ClientSend,
     ClientShutdown, ClientSendsNothing, ClientRecv, ClientEOF, ClientFails, ClientIntr, Kill, Reset,
     Accept, Dispatch, FalseAlarm, RecvData, RecvEnd, RecvSkipped, RecvWouldBlock,
     RecvFails, SendData, Shutdown, SendWouldBlock, SendFails, ServerIntr, Keep, CallAgain,
     Refuse, RegisterFails, ModifyFails, Close, Shut, Leave
<1>2. CASE ClientStep
  BY <1>1, <1>2, ClientCourse
<1>3. CASE \/ RecvData \/ RecvEnd \/ RecvSkipped \/ RecvWouldBlock \/ RecvFails
           \/ SendData \/ Shutdown \/ SendWouldBlock \/ SendFails \/ ServerIntr
  BY <1>1, <1>3, CallbackCourse
<1>4. CASE \/ Accept \/ Dispatch \/ FalseAlarm
           \/ Keep \/ CallAgain \/ Refuse \/ RegisterFails \/ ModifyFails \/ Close \/ Leave
           \/ Kill \/ Reset
  BY <1>1, <1>4, LoopCourse
<1>5. CASE UNCHANGED vars
  BY <1>1, <1>5 DEF InCourse, Course, vars, client, context, net, Unsent
<1> QED
  BY <1>2, <1>3, <1>4, <1>5 DEF Next, ServerStep

(* The course is kept.                                                     *)
LEMMA CourseKept == SafetySpec => []InCourse
<1>1. Init => InCourse
  BY ConstantFacts DEF Init, InCourse, Course, Unsent
<1>2. TypeOK /\ EchoInOrder /\ InCourse /\ [Next]_vars => InCourse'
  BY CourseStep
<1> QED
  BY <1>1, <1>2, TypeCorrect, InOrder, PTL DEF SafetySpec

(* The server never lets go of a connection, nor ends its data, before all *)
(* of the client's data are on their way back.                             *)
THEOREM NeverCutShort == SafetySpec => []ClosedAfterEcho
<1>1. TypeOK /\ EchoInOrder /\ InCourse => ClosedAfterEcho
  <2> SUFFICES ASSUME TypeOK, EchoInOrder, Course, Alive
               PROVE  /\ ~rst
                      /\ downFin \/ spc \in {"close", "closed", "left"} =>
                           crecv + Len(down) = Total
    BY DEF InCourse, ClosedAfterEcho
  <2>1. ~rst
    BY DEF Course
  <2>2. ASSUME downFin \/ spc \in {"close", "closed", "left"}
        PROVE  crecv + Len(down) = Total
    <3>1. Unsent = 0 /\ Len(up) = 0 /\ csent = Total
      BY <2>2 DEF Course
    <3>2. crecv + Len(down) + Unsent + Len(up) = csent
      BY DEF EchoInOrder, InFlight
    <3>3. crecv \in Nat /\ Len(down) \in Nat /\ Total \in Nat
      BY ConstantFacts DEF TypeOK
    <3> QED
      BY ONLY <3>1, <3>2, <3>3
  <2> QED
    BY <2>1, <2>2
<1> QED
  BY <1>1, TypeCorrect, InOrder, CourseKept, PTL

-----------------------------------------------------------------------------
(* The echo service.                                                       *)

(* On a connection that the loop has not taken up nothing comes back.      *)
Untouched == spc \in {"accept", "unwatched"} => down = <<>> /\ ~downFin

(* Only the callback sends, and only its loop closes.                      *)
LEMMA UntouchedStep ==
  ASSUME TypeOK, Untouched, [Next]_vars
  PROVE  Untouched'
<1>1. CASE ClientRecv
  <2>1. PICK n \in 1 .. Least(Total - crecv, Len(down)) : down' = Drained(down, n)
    BY <1>1 DEF ClientRecv
  <2>2. Total - crecv \in Int /\ Len(down) \in Int
    BY ConstantFacts DEF TypeOK
  <2>3. n > 0 /\ n <= Len(down)
    BY <2>2, LeastFacts
  <2>4. down # <<>>
    BY <2>2, <2>3
  <2> QED
    BY <1>1, <2>4 DEF Untouched, ClientRecv
<1>2. CASE ClientStep /\ ~ClientRecv
  BY <1>2 DEF Untouched, ClientStep, ClientSend, ClientShutdown, ClientSendsNothing, ClientEOF,
              ClientFails, ClientIntr, net
<1>3. CASE ServerStep
  BY <1>3 DEF Untouched, ServerStep, Accept, Dispatch, FalseAlarm, RecvData, RecvEnd,
     RecvSkipped, RecvWouldBlock, RecvFails, AfterNoData, SendData, Shutdown, SendWouldBlock,
     SendFails, ServerIntr, Keep, CallAgain, Refuse, RegisterFails, ModifyFails, Close, Shut,
     Leave, net
<1>4. CASE Kill \/ Reset \/ UNCHANGED vars
  BY <1>4 DEF Untouched, Kill, Reset, vars, net
<1> QED
  BY <1>1, <1>2, <1>3, <1>4 DEF Next

(* A step of the client is a step of the service, or none that it sees.    *)
LEMMA ClientRefines ==
  ASSUME TypeOK, EchoInOrder, InCourse, ClosedAfterEcho, Untouched, ClientStep
  PROVE  Service!Next \/ UNCHANGED Service!vars
<1> USE ConstantFacts
<1>0. faulted' = faulted
  BY DEF ClientStep, ClientSend, ClientShutdown, ClientSendsNothing, ClientRecv, ClientEOF, ClientFails,
     ClientIntr, history
<1>7. spc' = spc
  BY DEF ClientStep, ClientSend, ClientShutdown, ClientSendsNothing, ClientRecv, ClientEOF,
     ClientFails, ClientIntr
<1>1. CASE ClientSend
  <2>1. PICK n \in 1 .. Least(Total - csent, Space(up)) : csent' = csent + n
    BY <1>1 DEF ClientSend
  <2>2. csent \in Nat /\ Total - csent \in Int /\ Space(up) \in Int
    BY DEF TypeOK, Space
  <2>3. n \in Nat /\ n > 0 /\ n <= Total - csent
    BY <2>2, LeastFacts
  <2>4. csent' \in csent + 1 .. Total
    BY <2>1, <2>2, <2>3
  <2> QED
    BY <1>0, <1>1, <1>7, <2>4 DEF ClientSend, Alive, Service!Next, Service!Send, Service!Going
<1>2. CASE ClientRecv
  <2>1. PICK n \in 1 .. Least(Total - crecv, Len(down)) : crecv' = crecv + n
    BY <1>2 DEF ClientRecv
  <2>2. /\ crecv \in Nat /\ csent \in Nat /\ Len(down) \in Nat /\ Len(up) \in Nat
        /\ Unsent \in Nat /\ Total - crecv \in Int
    BY DEF TypeOK, Unsent
  <2>3. n \in Nat /\ n > 0 /\ n <= Len(down)
    BY <2>2, LeastFacts
  <2>4. crecv + Len(down) + Unsent + Len(up) = csent
    BY <1>2 DEF ClientRecv, EchoInOrder, InFlight, Alive
  <2>5. crecv' \in crecv + 1 .. csent
    BY <2>1, <2>2, <2>3, <2>4
  <2>6. cpc = "recv" /\ cpc' = (IF crecv' = Total THEN "done" ELSE "send") /\ csent' = csent
    BY <1>2 DEF ClientRecv
  <2>7. spc # "unwatched"
    <3>1. down # <<>>
      BY <2>2, <2>3
    <3> QED
      BY <3>1 DEF Untouched
  <2> QED
    BY <1>0, <1>7, <2>5, <2>6, <2>7 DEF Alive, Service!Next, Service!Receive
<1>3. CASE ClientShutdown \/ ClientSendsNothing \/ ClientIntr
  BY <1>0, <1>3, <1>7 DEF ClientShutdown, ClientSendsNothing, ClientIntr, Alive, Service!vars
<1>4. CASE ClientEOF
  <2>1. cpc = "recv" /\ down = <<>> /\ downFin
    BY <1>4 DEF ClientEOF
  <2>2. faulted
    <3> SUFFICES ASSUME ~faulted PROVE FALSE
      OBVIOUS
    <3>1. Alive /\ Len(down) = 0
      BY <2>1 DEF Alive
    <3>2. crecv + Len(down) = Total /\ crecv < Total
      BY <2>1, <3>1 DEF ClosedAfterEcho, InCourse, Course
    <3> QED
      BY <3>1, <3>2 DEF TypeOK
  <2> QED
    BY <1>0, <1>4, <2>1, <2>2 DEF ClientEOF, Alive, Service!Next, Service!Fail,
                                        Service!Going
<1>5. CASE ClientFails
  <2>1. Alive /\ rst
    BY <1>5 DEF ClientFails, Alive
  <2>2. faulted
    BY <2>1 DEF ClosedAfterEcho
  <2> QED
    BY <1>0, <1>5, <2>1, <2>2 DEF ClientFails, Alive, Service!Next, Service!Fail,
                                        Service!Going
<1> QED
  BY <1>1, <1>2, <1>3, <1>4, <1>5 DEF ClientStep

(* The two programs implement the echo service: whatever fails and when,   *)
(* nothing comes back that was not sent, and only a client that a fault    *)
(* has hit fails.                                                          *)
THEOREM Echoes == SafetySpec => ImplementsEchoSafely
<1>1. Init => Service!Init
  BY DEF Init, Alive, Service!Init
<1>2. Init => Untouched
  BY DEF Init, Untouched
<1>3. TypeOK /\ Untouched /\ [Next]_vars => Untouched'
  BY UntouchedStep
<1>4. TypeOK /\ EchoInOrder /\ InCourse /\ ClosedAfterEcho /\ Untouched /\ [Next]_vars
        => [Service!Next]_(Service!vars)
  <2> SUFFICES ASSUME TypeOK, EchoInOrder, InCourse, ClosedAfterEcho, Untouched, [Next]_vars
               PROVE  Service!Next \/ UNCHANGED Service!vars
    OBVIOUS
  <2>1. CASE ClientStep
    BY <2>1, ClientRefines
  <2>2. CASE ServerStep
    <3>1. UNCHANGED client
      BY <2>2 DEF ServerStep, Accept, Dispatch, FalseAlarm, RecvData, RecvEnd,
         RecvSkipped, RecvWouldBlock, RecvFails, SendData, Shutdown, SendWouldBlock,
         SendFails, ServerIntr, Keep, CallAgain, Refuse, RegisterFails, ModifyFails, Close, Shut,
         Leave
    <3>2. \/ faulted' = faulted /\ (spc' = "unwatched" <=> spc = "unwatched")
          \/ faulted' = TRUE /\ spc # "unwatched"
      BY <2>2 DEF ServerStep, Accept, Dispatch, FalseAlarm, RecvData, RecvEnd,
         RecvSkipped, RecvWouldBlock, RecvFails, AfterNoData, SendData, Shutdown,
         SendWouldBlock, SendFails, ServerIntr, Keep, CallAgain, Refuse, RegisterFails,
         ModifyFails, Close, Shut, Leave, history
    <3> QED
      BY <3>1, <3>2 DEF client, Alive, Service!vars, Service!Next, Service!Fault, Service!Going
  <2>3. CASE Kill
    BY <2>3 DEF Kill, Alive, Service!Next, Service!Fault, Service!Going
  <2>4. CASE Reset
    BY <2>4 DEF Reset, client, Alive, Service!Next, Service!Fault
  <2>5. CASE UNCHANGED vars
    BY <2>5 DEF vars, client, history, Alive, Service!vars
  <2> QED
    BY <2>1, <2>2, <2>3, <2>4, <2>5 DEF Next
<1> QED
  BY <1>1, <1>2, <1>3, <1>4, TypeCorrect, InOrder, CourseKept, NeverCutShort, PTL
     DEF SafetySpec, ImplementsEchoSafely, Service!SafetySpec
=============================================================================
