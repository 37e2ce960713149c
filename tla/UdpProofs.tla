------------------------------ MODULE UdpProofs ------------------------------
(***************************************************************************)
(* Theorems about Udp for every number of clients, rounds and duplicates:  *)
(* whose answers a client takes, when it is in step, and that it is owed   *)
(* an answer while it waits.                                               *)
(***************************************************************************)
EXTENDS Udp, TLAPS

(* The program starts in, and every step keeps, the types.                 *)
LEMMA TypeStep == TypeOK /\ [Next]_vars => TypeOK'
<1> SUFFICES ASSUME TypeOK, [Next]_vars PROVE TypeOK'
  OBVIOUS
<1> USE UdpAssumption
<1>1. ASSUME NEW c \in Clients, Send(c) \/ SendFails(c) \/ RecvFails(c) \/ Close(c)
      PROVE  TypeOK'
  <2>1. CASE Send(c)
    <3>1. [client |-> c, round |-> i[c], copy |-> 0] \in Datagrams
      BY <2>1 DEF Send, Datagrams, TypeOK
    <3> QED
      BY <2>1, <3>1 DEF Send, TypeOK, server, history
  <2>2. CASE SendFails(c)
    BY <2>2 DEF SendFails, NotSent, NextRound, TypeOK, server, net, history
  <2>3. CASE RecvFails(c)
    BY <2>3 DEF RecvFails, NextRound, TypeOK, server, net, history
  <2>4. CASE Close(c)
    BY <2>4 DEF Close, TypeOK, server, net, history
  <2> QED
    BY <1>1, <2>1, <2>2, <2>3, <2>4
<1>2. ASSUME NEW c \in Clients, NEW a \in answers, Recv(c, a)
      PROVE  TypeOK'
  <2>1. a.data \in Datagrams /\ i[c] \in 1 .. Rounds
    BY <1>2 DEF TypeOK, Recv
  <2>2. taken' \in [Clients -> [1 .. Rounds -> Datagrams \cup {None}]]
    BY <1>2, <2>1 DEF TypeOK, Recv
  <2> QED
    BY <1>2, <2>1, <2>2 DEF Recv, NextRound, TypeOK, server, history
<1>3. ASSUME NEW d \in requests, ServerRecv(d)
      PROVE  TypeOK'
  <2>1. d \in Datagrams /\ d.client \in Clients /\ d # None
    BY UdpAssumption DEF TypeOK, Datagrams
  <2> QED
    BY <1>3, <2>1 DEF ServerRecv, From, TypeOK, clients, history
<1>4. CASE ServerRecvFails \/ ServerSend \/ ServerSendFails
  <2>1. CASE ServerSend
    BY <2>1 DEF ServerSend, TypeOK, clients, history
  <2>2. CASE ServerRecvFails
    BY <2>2 DEF ServerRecvFails, NotReceived, TypeOK, clients, net, history
  <2>3. CASE ServerSendFails
    BY <2>3 DEF ServerSendFails, TypeOK, clients, net
  <2> QED
    BY <1>4, <2>1, <2>2, <2>3
<1>5. ASSUME NEW c \in Clients, Lose(c) \/ Duplicate(c)
      PROVE  TypeOK'
  <2>1. CASE Lose(c)
    BY <2>1 DEF Lose, TypeOK, clients, server
  <2>2. CASE Duplicate(c)
    <3>1. dups + 1 \in 0 .. MaxDups
      BY <2>2 DEF Duplicate, TypeOK
    <3>2. \A d \in Datagrams : Copy(d) \in Datagrams
      BY <3>1 DEF Copy, Datagrams
    <3>3. requests' \subseteq Datagrams /\ answers' \subseteq [to : Clients, data : Datagrams]
      <4>1. CASE \E d \in requests : requests' = requests \cup {Copy(d)} /\ UNCHANGED answers
        BY <3>2, <4>1 DEF TypeOK
      <4>2. ASSUME NEW a \in answers,
                   answers' = answers \cup {[a EXCEPT !.data = Copy(a.data)]},
                   UNCHANGED requests
            PROVE  requests' \subseteq Datagrams
                   /\ answers' \subseteq [to : Clients, data : Datagrams]
        <5>1. a \in [to : Clients, data : Datagrams] /\ Copy(a.data) \in Datagrams
          BY <3>2 DEF TypeOK
        <5>2. [a EXCEPT !.data = Copy(a.data)] \in [to : Clients, data : Datagrams]
          BY <5>1
        <5> QED
          BY <4>2, <5>2 DEF TypeOK
      <4> QED
        BY <2>2, <4>1, <4>2 DEF Duplicate
    <3> QED
      BY <2>2, <3>1, <3>3 DEF Duplicate, TypeOK, clients, server
  <2> QED
    BY <1>5, <2>1, <2>2
<1>6. CASE UNCHANGED vars
  BY <1>6 DEF TypeOK, vars, clients, server, net, history
<1> QED
  BY <1>1, <1>2, <1>3, <1>4, <1>5, <1>6 DEF Next, ClientStep, ServerStep

(* For every number of clients and rounds no client works on more rounds   *)
(* than it has, and only datagrams that were sent are under way.           *)
THEOREM TypeCorrect == SafetySpec => []TypeOK
<1>1. Init => TypeOK
  BY UdpAssumption DEF Init, TypeOK
<1> QED
  BY <1>1, TypeStep, PTL DEF SafetySpec

-----------------------------------------------------------------------------
(* Whose datagrams are under way.                                          *)

\* The client of d has sent it, in this round or before.
WasSent(d) ==
    d.round < i[d.client] \/ (pc[d.client] = "recv" /\ d.round = i[d.client])

Genuine ==
    /\ \A d \in requests : WasSent(d)
    /\ \A d \in Datagrams : spc = "send" /\ buf = d => client_addr = d.client /\ WasSent(d)
    /\ \A a \in answers : a.to = a.data.client /\ WasSent(a.data)

Paired == TypeOK /\ Genuine /\ OwnAnswer

(* What was sent stays sent, whatever the clients do.                      *)
LEMMA SentStays ==
  ASSUME TypeOK, NEW c \in Clients, NEW d \in Datagrams, WasSent(d),
         \/ Send(c) \/ SendFails(c) \/ RecvFails(c) \/ Close(c)
         \/ \E a \in answers : Recv(c, a)
  PROVE  WasSent(d)'
<1> DEFINE n == d.client
<1>1. n \in Clients /\ d.round \in Int /\ i[n] \in Int /\ i[c] \in Int
  BY UdpAssumption DEF TypeOK, Datagrams
<1>2. i' = i \/ i' = [i EXCEPT ![c] = @ + 1]
  BY DEF Send, SendFails, NotSent, NextRound, RecvFails, Close, Recv
<1>3. CASE i' = i
  <2>1. Send(c) \/ Close(c)
    <3>1. i[c] + 1 # i[c]
      BY <1>1
    <3>2. SendFails(c) \/ RecvFails(c) \/ (\E a \in answers : Recv(c, a)) => i'[c] = i[c] + 1
      BY DEF SendFails, NotSent, NextRound, RecvFails, Recv, TypeOK
    <3> QED
      BY <1>3, <3>1, <3>2
  <2>2. pc[n] = "recv" => pc'[n] = "recv"
    BY <1>1, <2>1 DEF Send, Close, TypeOK
  <2> QED
    BY <1>3, <2>2 DEF WasSent
<1>4. CASE i' = [i EXCEPT ![c] = @ + 1]
  <2>1. d.round <= i[n]
    BY <1>1 DEF WasSent
  <2>2. CASE n = c
    BY <1>1, <1>4, <2>1, <2>2 DEF WasSent, TypeOK
  <2>3. CASE n # c
    <3>1. i'[n] = i[n]
      BY <1>1, <1>4, <2>3 DEF TypeOK
    <3>2. pc'[n] = pc[n]
      BY <1>1, <2>3 DEF Send, SendFails, NotSent, NextRound, RecvFails, Close, Recv, TypeOK
    <3> QED
      BY <3>1, <3>2 DEF WasSent
  <2> QED
    BY <2>2, <2>3
<1> QED
  BY <1>2, <1>3, <1>4

(* A step that leaves the clients alone.                                   *)
LEMMA GenuineFrame ==
  ASSUME UNCHANGED <<pc, i>>,
         \A d \in requests' : WasSent(d),
         \A d \in Datagrams :
            spc' = "send" /\ buf' = d => client_addr' = d.client /\ WasSent(d),
         \A a \in answers' : a.to = a.data.client /\ WasSent(a.data)
  PROVE  Genuine'
<1>1. \A d : WasSent(d)' = WasSent(d)
  BY DEF WasSent
<1>2. \A d \in requests' : WasSent(d)'
  BY <1>1
<1>3. \A d \in Datagrams :
         spc' = "send" /\ buf' = d => client_addr' = d.client /\ WasSent(d)'
  BY <1>1
<1>4. \A a \in answers' : a.to = a.data.client /\ WasSent(a.data)'
  BY <1>1
<1> QED
  BY <1>2, <1>3, <1>4 DEF Genuine

(* Every step keeps data and address together.                             *)
LEMMA PairedStep == Paired /\ [Next]_vars => Paired'
<1> SUFFICES ASSUME Paired, [Next]_vars PROVE Paired'
  OBVIOUS
<1> USE DEF Paired
<1>1. TypeOK'
  BY TypeStep
<1>2. ASSUME NEW c \in Clients,
             \/ Send(c) \/ SendFails(c) \/ RecvFails(c) \/ Close(c)
             \/ \E a \in answers : Recv(c, a)
      PROVE  Genuine' /\ OwnAnswer'
  <2>1. \A d \in Datagrams : WasSent(d) => WasSent(d)'
    BY <1>2, SentStays
  <2>2. UNCHANGED <<spc, client_addr, buf>> /\ answers' \subseteq answers
    BY <1>2 DEF Send, SendFails, RecvFails, Close, Recv, server, net
  <2>3. \A d \in requests' : d \in requests \/ WasSent(d)'
    <3>1. CASE Send(c)
      <4>1. LET d == [client |-> c, round |-> i[c], copy |-> 0]
            IN  d.client = c /\ d.round = i[c] /\ pc'[c] = "recv" /\ i' = i
        BY <3>1 DEF Send, TypeOK
      <4> QED
        BY <3>1, <4>1 DEF Send, WasSent
    <3>2. CASE ~ Send(c)
      BY <1>2, <3>2 DEF SendFails, RecvFails, Close, Recv, net
    <3> QED
      BY <3>1, <3>2
  <2>4. Genuine'
    <3>1. \A d \in requests' : WasSent(d)'
      BY <2>1, <2>3 DEF Genuine, TypeOK
    <3>2. \A d \in Datagrams :
             spc' = "send" /\ buf' = d => client_addr' = d.client /\ WasSent(d)'
      BY <2>1, <2>2 DEF Genuine
    <3>3. \A a \in answers' : a.to = a.data.client /\ WasSent(a.data)'
      BY <2>1, <2>2 DEF Genuine, TypeOK
    <3> QED
      BY <3>1, <3>2, <3>3 DEF Genuine
  <2>5. OwnAnswer'
    <3>1. CASE UNCHANGED taken
      BY <3>1 DEF OwnAnswer
    <3>2. ASSUME NEW a \in answers, Recv(c, a)
          PROVE  OwnAnswer'
      <4>1. a.data.client = c /\ a.data.round <= i[c] /\ i[c] \in 1 .. Rounds
        <5>1. a.to = c /\ a.to = a.data.client /\ WasSent(a.data) /\ a.data \in Datagrams
          BY <3>2 DEF Recv, Genuine, TypeOK
        <5>2. a.data.round \in Int /\ i[c] \in Int /\ i[c] \in 1 .. Rounds
          BY <3>2, <5>1, UdpAssumption DEF Recv, TypeOK, Datagrams
        <5> QED
          BY <5>1, <5>2 DEF WasSent
      <4>2. \A e \in Clients, r \in 1 .. Rounds :
               taken'[e][r] = IF e = c /\ r = i[c] THEN a.data ELSE taken[e][r]
        BY <3>2, <4>1 DEF Recv, TypeOK
      <4> QED
        BY <4>1, <4>2 DEF OwnAnswer
    <3> QED
      BY <1>2, <3>1, <3>2 DEF Send, SendFails, RecvFails, Close
  <2> QED
    BY <2>4, <2>5
<1>3. ASSUME UNCHANGED clients PROVE OwnAnswer' /\ UNCHANGED <<pc, i>>
  BY <1>3 DEF OwnAnswer, clients
<1>4. ASSUME NEW d \in requests, ServerRecv(d)
      PROVE  Genuine' /\ OwnAnswer'
  BY <1>3, <1>4, GenuineFrame DEF ServerRecv, From, Genuine
<1>5. CASE ServerSend
  <2>1. client_addr = buf.client /\ WasSent(buf) /\ buf \in Datagrams
    BY <1>5 DEF ServerSend, Genuine, TypeOK
  <2>2. \A a \in answers' : a \in answers \/ a = [to |-> client_addr, data |-> buf]
    BY <1>5 DEF ServerSend
  <2>3. \A a \in answers' : a.to = a.data.client /\ WasSent(a.data)
    BY <2>1, <2>2 DEF Genuine
  <2>4. UNCHANGED clients /\ requests' = requests /\ spc' = "recv"
    BY <1>5 DEF ServerSend
  <2>5. UNCHANGED <<pc, i>> /\ OwnAnswer'
    BY <1>3, <2>4
  <2>6. \A d \in requests' : WasSent(d)
    BY <2>4 DEF Genuine
  <2>7. \A d \in Datagrams :
           spc' = "send" /\ buf' = d => client_addr' = d.client /\ WasSent(d)
    BY <2>4
  <2> QED
    BY <1>1, <2>3, <2>5, <2>6, <2>7, GenuineFrame
<1>6. CASE ServerRecvFails \/ ServerSendFails
  <2>1. UNCHANGED clients /\ UNCHANGED <<requests, answers>> /\ spc' = "recv"
    BY <1>6 DEF ServerRecvFails, NotReceived, ServerSendFails, net
  <2>2. UNCHANGED <<pc, i>> /\ OwnAnswer'
    BY <1>3, <2>1
  <2>3. \A d \in Datagrams :
           spc' = "send" /\ buf' = d => client_addr' = d.client /\ WasSent(d)
    BY <2>1
  <2>4. /\ \A d \in requests' : WasSent(d)
        /\ \A a \in answers' : a.to = a.data.client /\ WasSent(a.data)
    BY <2>1 DEF Genuine
  <2> QED
    BY <1>1, <2>2, <2>3, <2>4, GenuineFrame
<1>7. ASSUME NEW c \in Clients, Lose(c) \/ Duplicate(c)
      PROVE  Genuine' /\ OwnAnswer'
  <2>1. UNCHANGED clients /\ UNCHANGED <<spc, client_addr, buf>>
    BY <1>7 DEF Lose, Duplicate, server
  <2>2. \A d \in Datagrams : /\ Copy(d).client = d.client /\ Copy(d).round = d.round
                            /\ WasSent(Copy(d)) = WasSent(d)
    BY DEF Copy, Datagrams, WasSent
  <2>3. \A d \in requests' : WasSent(d)
    BY <1>7, <2>2 DEF Lose, Duplicate, Genuine, TypeOK
  <2>4. \A a \in answers' : a.to = a.data.client /\ WasSent(a.data)
    <3>1. ASSUME NEW a \in answers'
          PROVE  a \in answers \/ \E b \in answers : a = [b EXCEPT !.data = Copy(b.data)]
      BY <1>7 DEF Lose, Duplicate
    <3>2. \A b \in answers : /\ b \in [to : Clients, data : Datagrams]
                            /\ b.to = b.data.client /\ WasSent(b.data)
      BY DEF Genuine, TypeOK
    <3>3. \A b \in answers : LET a == [b EXCEPT !.data = Copy(b.data)]
                            IN  a.to = b.to /\ a.data = Copy(b.data)
      BY <3>2
    <3> QED
      BY <2>2, <3>1, <3>2, <3>3
  <2>5. UNCHANGED <<pc, i>> /\ OwnAnswer'
    BY <1>3, <2>1
  <2>6. \A d \in Datagrams :
           spc' = "send" /\ buf' = d => client_addr' = d.client /\ WasSent(d)
    BY <2>1 DEF Genuine
  <2> QED
    BY <2>3, <2>4, <2>5, <2>6, GenuineFrame
<1>8. CASE UNCHANGED vars
  BY <1>1, <1>3, <1>8, GenuineFrame DEF Genuine, vars, server, net
<1> QED
  BY <1>1, <1>2, <1>4, <1>5, <1>6, <1>7, <1>8 DEF Next, ClientStep, ServerStep

(* Data and addresses never part, for every number of clients.             *)
LEMMA PairedAlways == SafetySpec => []Paired
<1>1. Init => Paired
  BY UdpAssumption DEF Init, Paired, TypeOK, Genuine, OwnAnswer
<1> QED
  BY <1>1, PairedStep, PTL DEF SafetySpec

(* Whatever is lost, doubled or overtaken, and however many clients there  *)
(* are, a client takes only what it sent itself.                           *)
THEOREM AnswersOwn == SafetySpec => []OwnAnswer
BY PairedAlways, PTL DEF Paired

-----------------------------------------------------------------------------
(* One copy of one datagram.                                               *)

\* What is under way of c is of this round, and it is in one place.
OneCopy(c) ==
    /\ \A d \in requests : d.client = c => d.round = i[c]
    /\ \A a \in answers : a.to = c => a.data.round = i[c]
    /\ \A d, e \in requests : d.client = c /\ e.client = c => d = e
    /\ \A a, b \in answers : a.to = c /\ b.to = c => a = b
    /\ \A d \in requests, a \in answers : ~ (d.client = c /\ a.to = c)
    /\ spc = "send" /\ client_addr = c =>
          /\ buf.round = i[c]
          /\ \A d \in requests : d.client # c
          /\ \A a \in answers : a.to # c

Lockstep ==
    /\ Paired
    /\ \A c \in Clients : c \notin doubled \cup skipped => OneCopy(c)
    /\ InStep

(* Between two rounds nothing is under way.                                *)
LEMMA NothingUnderWay ==
  ASSUME Lockstep, NEW c \in Clients, c \notin doubled \cup skipped, pc[c] # "recv"
  PROVE  /\ \A d \in requests : d.client # c
         /\ \A a \in answers : a.to # c
         /\ ~ (spc = "send" /\ client_addr = c)
<1>1. i[c] \in Int
  BY DEF Lockstep, Paired, TypeOK
<1>2. \A d \in Datagrams : d.client = c /\ d.round = i[c] => ~ WasSent(d)
  BY <1>1 DEF WasSent
<1> QED
  BY <1>2 DEF Lockstep, Paired, Genuine, OneCopy, TypeOK

(* Every step keeps a client in step that is neither doubled nor skipped.  *)
LEMMA LockstepStep == Lockstep /\ [Next]_vars => Lockstep'
<1> SUFFICES ASSUME Lockstep, [Next]_vars PROVE Lockstep'
  OBVIOUS
<1>1. Paired' /\ Paired /\ TypeOK
  BY PairedStep DEF Lockstep, Paired
<1>2. doubled \subseteq doubled' /\ skipped \subseteq skipped'
  BY DEF Next, ClientStep, ServerStep, Send, SendFails, Recv, RecvFails, Close, ServerRecv,
         ServerRecvFails, ServerSend, ServerSendFails, Lose, Duplicate, vars, history
<1> SUFFICES ASSUME NEW c \in Clients, c \notin doubled' \cup skipped'
             PROVE  /\ OneCopy(c)'
                    /\ \A r \in 1 .. Rounds :
                          taken'[c][r] # None => taken'[c][r].round = r
  BY <1>1 DEF Lockstep, InStep
<1>3. /\ c \notin doubled \cup skipped /\ OneCopy(c)
      /\ \A r \in 1 .. Rounds : taken[c][r] # None => taken[c][r].round = r
  BY <1>2 DEF Lockstep, InStep
<1>4. ASSUME NEW k \in Clients, Send(k) \/ SendFails(k) \/ RecvFails(k) \/ Close(k)
      PROVE  /\ OneCopy(c)'
             /\ \A r \in 1 .. Rounds : taken'[c][r] # None => taken'[c][r].round = r
  <2>1. taken' = taken /\ UNCHANGED <<spc, client_addr, buf, answers>>
    BY <1>4 DEF Send, SendFails, RecvFails, Close, server, net
  <2>2. CASE Send(k)
    <3> DEFINE new == [client |-> k, round |-> i[k], copy |-> 0]
    <3>1. new.client = k /\ new.round = i[k] /\ requests' = requests \cup {new} /\ i' = i
      BY <2>2 DEF Send
    <3>2. pc[k] = "send"
      BY <2>2 DEF Send
    <3> HIDE DEF new
    <3>3. CASE k = c
      <4>1. /\ \A d \in requests : d.client # c
            /\ \A a \in answers : a.to # c
            /\ ~ (spc = "send" /\ client_addr = c)
        BY <1>3, <3>2, <3>3, NothingUnderWay
      <4> QED
        BY <1>3, <2>1, <3>1, <3>3, <4>1 DEF OneCopy
    <3>4. CASE k # c
      BY <1>3, <2>1, <3>1, <3>4 DEF OneCopy
    <3> QED
      BY <3>3, <3>4
  <2>3. CASE SendFails(k) \/ RecvFails(k) \/ Close(k)
    <3>1. requests' = requests
      BY <2>3 DEF SendFails, RecvFails, Close, net
    <3>2. CASE i'[c] = i[c]
      BY <1>3, <2>1, <3>1, <3>2 DEF OneCopy
    <3>3. CASE i'[c] # i[c]
      <4>1. k = c /\ SendFails(k)
        <5>1. k = c
          BY <1>1, <2>3, <3>3 DEF SendFails, NotSent, NextRound, RecvFails, Close, TypeOK
        <5> QED
          BY <2>3, <3>3, <5>1 DEF RecvFails, Close
      <4>2. pc[c] = "send"
        BY <4>1 DEF SendFails
      <4>3. /\ \A d \in requests : d.client # c
            /\ \A a \in answers : a.to # c
            /\ ~ (spc = "send" /\ client_addr = c)
        BY <1>3, <4>2, NothingUnderWay
      <4> QED
        BY <1>3, <2>1, <3>1, <4>3 DEF OneCopy
    <3> QED
      BY <3>2, <3>3
  <2> QED
    BY <1>4, <2>2, <2>3
<1>5. ASSUME NEW k \in Clients, NEW a \in answers, Recv(k, a)
      PROVE  /\ OneCopy(c)'
             /\ \A r \in 1 .. Rounds : taken'[c][r] # None => taken'[c][r].round = r
  <2>1. /\ answers' = answers \ {a} /\ UNCHANGED <<spc, client_addr, buf, requests>>
        /\ a.to = k
    BY <1>5 DEF Recv, server
  <2>2. CASE k = c
    <3>1. /\ \A d \in requests : d.client # c
          /\ \A b \in answers' : b.to # c
          /\ ~ (spc = "send" /\ client_addr = c)
          /\ a.data.round = i[c]
      BY <1>3, <2>1, <2>2 DEF OneCopy
    <3>2. \A r \in 1 .. Rounds : taken'[c][r] = IF r = i[c] THEN a.data ELSE taken[c][r]
      BY <1>1, <1>5, <2>2 DEF Recv, TypeOK
    <3> QED
      BY <1>3, <2>1, <3>1, <3>2 DEF OneCopy
  <2>3. CASE k # c
    <3>1. i'[c] = i[c] /\ taken'[c] = taken[c]
      BY <1>1, <1>5, <2>3 DEF Recv, NextRound, TypeOK
    <3> QED
      BY <1>3, <2>1, <3>1 DEF OneCopy
  <2> QED
    BY <2>2, <2>3
<1>6. ASSUME NEW d \in requests, ServerRecv(d)
      PROVE  /\ OneCopy(c)'
             /\ \A r \in 1 .. Rounds : taken'[c][r] # None => taken'[c][r].round = r
  <2>1. /\ requests' = requests \ {d} /\ client_addr' = d.client /\ buf' = d
        /\ UNCHANGED <<answers, taken, i>>
    BY <1>6 DEF ServerRecv, From, clients
  <2> QED
    BY <1>3, <2>1 DEF OneCopy
<1>7. CASE ServerSend
  <2> DEFINE new == [to |-> client_addr, data |-> buf]
  <2>1. /\ spc = "send" /\ spc' = "recv" /\ answers' = answers \cup {new}
        /\ new.to = client_addr /\ new.data = buf
        /\ UNCHANGED <<requests, taken, i>>
    BY <1>7 DEF ServerSend, clients
  <2> HIDE DEF new
  <2> QED
    BY <1>3, <2>1 DEF OneCopy
<1>8. CASE ServerRecvFails \/ ServerSendFails
  <2>1. spc' = "recv" /\ UNCHANGED <<requests, answers, taken, i>>
    BY <1>8 DEF ServerRecvFails, NotReceived, ServerSendFails, clients, net
  <2> QED
    BY <1>3, <2>1 DEF OneCopy
<1>9. ASSUME NEW k \in Clients, Lose(k)
      PROVE  /\ OneCopy(c)'
             /\ \A r \in 1 .. Rounds : taken'[c][r] # None => taken'[c][r].round = r
  <2>1. /\ requests' \subseteq requests /\ answers' \subseteq answers
        /\ UNCHANGED <<spc, client_addr, buf, taken, i>>
    BY <1>9 DEF Lose, clients, server
  <2> QED
    BY <1>3, <2>1 DEF OneCopy
<1>10. ASSUME NEW k \in Clients, Duplicate(k)
       PROVE  /\ OneCopy(c)'
              /\ \A r \in 1 .. Rounds : taken'[c][r] # None => taken'[c][r].round = r
  <2>1. UNCHANGED <<spc, client_addr, buf, taken, i>> /\ k # c
    BY <1>10 DEF Duplicate, clients, server
  <2>2. CASE answers' = answers /\ \E d \in requests :
                d.client = k /\ requests' = requests \cup {Copy(d)}
    <3>1. \A d \in requests : Copy(d).client = d.client
      BY <1>1 DEF Copy, TypeOK, Datagrams
    <3> QED
      BY <1>3, <2>1, <2>2, <3>1 DEF OneCopy
  <2>3. CASE requests' = requests /\ \E a \in answers :
                a.to = k /\ answers' = answers \cup {[a EXCEPT !.data = Copy(a.data)]}
    <3>1. \A a \in answers : [a EXCEPT !.data = Copy(a.data)].to = a.to
      BY <1>1 DEF TypeOK
    <3> QED
      BY <1>3, <2>1, <2>3, <3>1 DEF OneCopy
  <2> QED
    BY <1>10, <2>2, <2>3 DEF Duplicate
<1>11. CASE UNCHANGED vars
  <2>1. UNCHANGED <<requests, answers, spc, client_addr, buf, taken, i>>
    BY <1>11 DEF vars, clients, server, net
  <2> QED
    BY <1>3, <2>1 DEF OneCopy
<1> QED
  BY <1>4, <1>5, <1>6, <1>7, <1>8, <1>9, <1>10, <1>11 DEF Next, ClientStep, ServerStep

(* Without a sequence number in the datagrams, a client without duplicates *)
(* and failed calls still gets the answer of the round, in every round.    *)
THEOREM RoundsMatch == SafetySpec => []InStep
<1>1. Init => Lockstep
  <2> SUFFICES ASSUME Init PROVE Lockstep
    OBVIOUS
  <2>1. Paired
    BY UdpAssumption DEF Init, Paired, TypeOK, Genuine, OwnAnswer
  <2> QED
    BY <2>1 DEF Init, Lockstep, OneCopy, InStep
<1> QED
  BY <1>1, LockstepStep, PTL DEF SafetySpec, Lockstep

-----------------------------------------------------------------------------
(* What a client waits for.                                                *)

(* Every step keeps what a client is owed.                                 *)
LEMMA OwedStep == Paired /\ Owed /\ [Next]_vars => Owed'
<1> SUFFICES ASSUME Paired, Owed, [Next]_vars,
                    NEW c \in Clients, pc'[c] = "recv", c \notin lost'
             PROVE  \E d \in Datagrams :
                       /\ d.client = c /\ d.round = i'[c]
                       /\ \/ d \in requests'
                          \/ spc' = "send" /\ buf' = d
                          \/ [to |-> c, data |-> d] \in answers'
  BY DEF Owed
<1> DEFINE Goal == \E d \in Datagrams :
                       /\ d.client = c /\ d.round = i'[c]
                       /\ \/ d \in requests'
                          \/ spc' = "send" /\ buf' = d
                          \/ [to |-> c, data |-> d] \in answers'
<1>1. TypeOK /\ TypeOK' /\ Genuine
  BY PairedStep DEF Paired
<1>2. lost \subseteq lost'
  BY DEF Next, ClientStep, ServerStep, Send, SendFails, Recv, RecvFails, Close, ServerRecv,
         ServerRecvFails, ServerSend, ServerSendFails, Lose, Duplicate, vars, history
<1>3. ASSUME Send(c) PROVE Goal
  <2> DEFINE new == [client |-> c, round |-> i[c], copy |-> 0]
  <2>1. new \in requests' /\ i' = i /\ new.client = c /\ new.round = i[c]
    BY <1>3 DEF Send
  <2>2. new \in Datagrams
    BY <1>1, <2>1 DEF TypeOK
  <2> QED
    BY <2>1, <2>2
<1>4. CASE ~ Send(c)
  <2>1. pc[c] = "recv" /\ i'[c] = i[c]
    <3>1. CASE UNCHANGED <<pc, i>>
      BY <3>1
    <3>2. ASSUME NEW k \in Clients, ClientStep(k) PROVE pc[c] = "recv" /\ i'[c] = i[c]
      <4>1. k # c
        BY <1>1, <1>4, <3>2 DEF ClientStep, SendFails, NotSent, NextRound, Recv, RecvFails,
                                Close, TypeOK
      <4> QED
        BY <1>1, <3>2, <4>1 DEF ClientStep, Send, SendFails, NotSent, NextRound, Recv,
                                RecvFails, Close, TypeOK
    <3> QED
      BY <3>1, <3>2 DEF Next, ServerStep, ServerRecv, ServerRecvFails, ServerSend,
                        ServerSendFails, Lose, Duplicate, vars, clients
  <2>2. PICK d \in Datagrams :
           /\ d.client = c /\ d.round = i'[c]
           /\ \/ d \in requests
              \/ spc = "send" /\ buf = d
              \/ [to |-> c, data |-> d] \in answers
    BY <1>2, <2>1 DEF Owed
  <2> DEFINE a == [to |-> c, data |-> d]
  <2>3. a.to = c
    OBVIOUS
  <2> SUFFICES d \in requests' \/ (spc' = "send" /\ buf' = d) \/ a \in answers'
    BY <2>2
  <2> HIDE DEF a
  <2>4. d \in requests \/ (spc = "send" /\ buf = d) \/ a \in answers
    BY <2>2 DEF a
  <2>5. ASSUME NEW k \in Clients, ClientStep(k)
        PROVE  d \in requests' \/ (spc' = "send" /\ buf' = d) \/ a \in answers'
    <3>1. UNCHANGED <<spc, buf>> /\ requests \subseteq requests'
      BY <2>5 DEF ClientStep, Send, SendFails, Recv, RecvFails, Close, server, net
    <3>2. a \in answers => a \in answers'
      <4>1. CASE \E b \in answers : Recv(k, b)
        <5>1. k # c
          BY <1>1, <4>1 DEF Recv, NextRound, TypeOK
        <5> QED
          BY <2>3, <4>1, <5>1 DEF Recv
      <4>2. CASE Send(k) \/ SendFails(k) \/ RecvFails(k) \/ Close(k)
        BY <4>2 DEF Send, SendFails, RecvFails, Close, net
      <4> QED
        BY <2>5, <4>1, <4>2 DEF ClientStep
    <3> QED
      BY <2>4, <3>1, <3>2
  <2>6. ASSUME NEW e \in requests, ServerRecv(e)
        PROVE  d \in requests' \/ (spc' = "send" /\ buf' = d) \/ a \in answers'
    BY <2>4, <2>6 DEF ServerRecv
  <2>7. CASE ServerSend
    <3>1. buf = d /\ spc = "send" => a = [to |-> client_addr, data |-> buf]
      BY <1>1, <2>2 DEF Genuine, a
    <3> QED
      BY <2>4, <2>7, <3>1 DEF ServerSend
  <2>8. CASE ServerSendFails
    <3>1. buf = d /\ spc = "send" => client_addr = c
      BY <1>1, <2>2 DEF Genuine
    <3> QED
      BY <2>4, <2>8, <3>1 DEF ServerSendFails, net
  <2>9. CASE ServerRecvFails
    BY <2>4, <2>9 DEF ServerRecvFails, net
  <2>10. ASSUME NEW k \in Clients, Lose(k)
         PROVE  d \in requests' \/ (spc' = "send" /\ buf' = d) \/ a \in answers'
    BY <2>2, <2>3, <2>4, <2>10 DEF Lose, server
  <2>11. ASSUME NEW k \in Clients, Duplicate(k)
         PROVE  d \in requests' \/ (spc' = "send" /\ buf' = d) \/ a \in answers'
    BY <2>4, <2>11 DEF Duplicate, server
  <2>12. CASE UNCHANGED vars
    BY <2>4, <2>12 DEF vars, server, net
  <2> QED
    BY <2>5, <2>6, <2>7, <2>8, <2>9, <2>10, <2>11, <2>12 DEF Next, ServerStep
<1> QED
  BY <1>3, <1>4

(* A client that waits, without a timeout, waits for something that is     *)
(* there, unless a datagram of its own was lost.                           *)
THEOREM WaitJustified == SafetySpec => []Owed
<1>1. Init => Owed
  BY DEF Init, Owed
<1> QED
  BY <1>1, PairedAlways, OwedStep, PTL DEF SafetySpec
=============================================================================
