--------------------------------- MODULE Udp ---------------------------------
(***************************************************************************)
(* server_udp_block.c and its clients, client_udp.c, over a network that   *)
(* loses, duplicates and reorders datagrams.  A client sends one datagram  *)
(* a round and waits for any datagram to come back; it neither compares    *)
(* what it gets with what it sent nor waits with a timeout.  All datagrams *)
(* are of UDP_BUF_SIZE bytes; one is known here by its client, its round   *)
(* and the number of its copy.                                             *)
(***************************************************************************)
EXTENDS Integers

CONSTANTS Clients, None,
          Rounds,   (* client_num                                           *)
          MaxDups,  (* bound: datagrams that are duplicated                 *)
          Faults    (* TRUE: calls fail, and datagrams are lost             *)

Datagrams == [client : Clients, round : 1 .. Rounds, copy : 0 .. MaxDups]

ASSUME UdpAssumption ==
    /\ None \notin Clients \cup Datagrams
    /\ Rounds \in Nat /\ MaxDups \in Nat /\ Faults \in BOOLEAN

VARIABLES
    pc, i,        (* of each client: "send", "recv" or "closed"; the round  *)
    taken,        (* history: what each client got back in each round       *)
    spc,          (* server: "recv" or "send"                               *)
    client_addr, buf,   (* server                                           *)
    requests,     (* datagrams on their way to the server                   *)
    answers,      (* datagrams on their way back, each with its destination *)
    dups,         (* duplications so far                                    *)
    lost, doubled, skipped  (* history: clients that had a datagram lost or *)
                            (* duplicated, or whose recvfrom failed         *)

clients == <<pc, i, taken>>
server  == <<spc, client_addr, buf>>
net     == <<requests, answers>>
history == <<dups, lost, doubled, skipped>>
vars    == <<clients, server, net, history>>

Init ==
    /\ pc = [c \in Clients |-> "send"] /\ i = [c \in Clients |-> 1]
    /\ taken = [c \in Clients |-> [r \in 1 .. Rounds |-> None]]
    /\ spc = "recv" /\ client_addr = None /\ buf = None
    /\ requests = {} /\ answers = {}
    /\ dups = 0 /\ lost = {} /\ doubled = {} /\ skipped = {}

-----------------------------------------------------------------------------
(* Clients.                                                                *)

\* The next round begins.
NextRound(c) ==
    /\ i' = [i EXCEPT ![c] = @ + 1]
    /\ pc' = [pc EXCEPT ![c] = "send"]

Send(c) ==
    /\ pc[c] = "send" /\ i[c] <= Rounds
    /\ pc' = [pc EXCEPT ![c] = "recv"]
    /\ requests' = requests \cup {[client |-> c, round |-> i[c], copy |-> 0]}
    /\ UNCHANGED <<i, taken, server, answers, history>>

\* The client waits for an answer to what it could not send.
NotSent_Bug(c) == pc' = [pc EXCEPT ![c] = "recv"] /\ i' = i

NotSent(c) == NextRound(c)

SendFails(c) ==
    /\ Faults
    /\ pc[c] = "send" /\ i[c] <= Rounds
    /\ NotSent(c)
    /\ UNCHANGED <<taken, server, net, history>>

Recv(c, a) ==
    /\ pc[c] = "recv" /\ a.to = c
    /\ taken' = [taken EXCEPT ![c][i[c]] = a.data]
    /\ answers' = answers \ {a}
    /\ NextRound(c)
    /\ UNCHANGED <<server, requests, history>>

RecvFails(c) ==
    /\ Faults
    /\ pc[c] = "recv"
    /\ NextRound(c)
    /\ skipped' = skipped \cup {c}
    /\ UNCHANGED <<taken, server, net, dups, lost, doubled>>

Close(c) ==
    /\ pc[c] = "send" /\ i[c] > Rounds
    /\ pc' = [pc EXCEPT ![c] = "closed"]
    /\ UNCHANGED <<i, taken, server, net, history>>

-----------------------------------------------------------------------------
(* The server.                                                             *)

\* The address is that of the first client.
From_Bug(d) == IF client_addr = None THEN d.client ELSE client_addr

From(d) == d.client

ServerRecv(d) ==
    /\ spc = "recv"
    /\ requests' = requests \ {d}
    /\ client_addr' = From(d) /\ buf' = d
    /\ spc' = "send"
    /\ UNCHANGED <<clients, answers, history>>

\* What is in the buffer is sent although nothing was received.
NotReceived_Bug == "send"

NotReceived == "recv"

ServerRecvFails ==
    /\ Faults
    /\ spc = "recv"
    /\ spc' = NotReceived
    /\ UNCHANGED <<clients, client_addr, buf, net, history>>

ServerSend ==
    /\ spc = "send"
    /\ answers' = answers \cup {[to |-> client_addr, data |-> buf]}
    /\ spc' = "recv"
    /\ UNCHANGED <<clients, client_addr, buf, requests, history>>

ServerSendFails ==
    /\ Faults
    /\ spc = "send"
    /\ spc' = "recv"
    /\ lost' = lost \cup {client_addr}
    /\ UNCHANGED <<clients, client_addr, buf, net, dups, doubled, skipped>>

-----------------------------------------------------------------------------
(* The network.                                                            *)

Copy(d) == [d EXCEPT !.copy = dups + 1]

Lose(c) ==
    /\ Faults
    /\ \/ \E d \in requests : d.client = c /\ requests' = requests \ {d} /\ UNCHANGED answers
       \/ \E a \in answers : a.to = c /\ answers' = answers \ {a} /\ UNCHANGED requests
    /\ lost' = lost \cup {c}
    /\ UNCHANGED <<clients, server, dups, doubled, skipped>>

Duplicate(c) ==
    /\ dups < MaxDups
    /\ \/ \E d \in requests :
              d.client = c /\ requests' = requests \cup {Copy(d)} /\ UNCHANGED answers
       \/ \E a \in answers :
              /\ a.to = c /\ a.data.client = c
              /\ answers' = answers \cup {[a EXCEPT !.data = Copy(a.data)]}
              /\ UNCHANGED requests
    /\ dups' = dups + 1 /\ doubled' = doubled \cup {c}
    /\ UNCHANGED <<clients, server, lost, skipped>>

-----------------------------------------------------------------------------
ClientStep(c) ==
    Send(c) \/ SendFails(c) \/ (\E a \in answers : Recv(c, a)) \/ RecvFails(c) \/ Close(c)

ServerStep ==
    (\E d \in requests : ServerRecv(d)) \/ ServerRecvFails \/ ServerSend \/ ServerSendFails

Next ==
    \/ \E c \in Clients : ClientStep(c) \/ Lose(c) \/ Duplicate(c)
    \/ ServerStep

SafetySpec == Init /\ [][Next]_vars

\* The programs run, and a datagram that is not lost arrives.  No call is forced to fail.
Spec ==
    /\ SafetySpec
    /\ WF_vars(ServerSend \/ \E d \in requests : ServerRecv(d))
    /\ \A c \in Clients : WF_vars(Send(c) \/ Close(c) \/ \E a \in answers : Recv(c, a))

-----------------------------------------------------------------------------
(* Properties.                                                             *)

TypeOK ==
    /\ pc \in [Clients -> {"send", "recv", "closed"}]
    /\ i \in [Clients -> 1 .. Rounds + 1]
    /\ \A c \in Clients : pc[c] = "recv" => i[c] <= Rounds
    /\ taken \in [Clients -> [1 .. Rounds -> Datagrams \cup {None}]]
    /\ spc \in {"recv", "send"}
    /\ client_addr \in Clients \cup {None} /\ buf \in Datagrams \cup {None}
    /\ spc = "send" => client_addr # None /\ buf # None
    /\ requests \subseteq Datagrams
    /\ answers \subseteq [to : Clients, data : Datagrams]
    /\ dups \in 0 .. MaxDups
    /\ lost \subseteq Clients /\ doubled \subseteq Clients /\ skipped \subseteq Clients

\* What a client takes for its answer is a datagram that it sent itself, in this round
\* or before: the server pairs data and address, whoever else it serves.
OwnAnswer ==
    \A c \in Clients : \A r \in 1 .. Rounds :
        taken[c][r] # None => taken[c][r].client = c /\ taken[c][r].round <= r

\* Although nothing in a datagram is compared, it is the answer of the round: only a
\* duplicate, or a recvfrom that failed, puts a client out of step.  A lost datagram
\* does not, because the client then never begins another round.
InStep ==
    \A c \in Clients : c \notin doubled \cup skipped =>
        \A r \in 1 .. Rounds : taken[c][r] # None => taken[c][r].round = r

\* A client that blocks in recvfrom without a timeout is owed an answer: unless it was
\* lost, the datagram of the round is on its way or with the server.
Owed ==
    \A c \in Clients : pc[c] = "recv" /\ c \notin lost =>
        \E d \in Datagrams :
            /\ d.client = c /\ d.round = i[c]
            /\ d \in requests \/ (spc = "send" /\ buf = d) \/ [to |-> c, data |-> d] \in answers

\* A client none of whose datagrams is lost ends, whatever happens to the others.
Finishes == \A c \in Clients : <>(pc[c] = "closed" \/ c \in lost)
=============================================================================
