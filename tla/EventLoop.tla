------------------------------ MODULE EventLoop ------------------------------
(***************************************************************************)
(* A server with all its clients: poll_loop, select_loop, epoll_loop,      *)
(* kqueue_loop, devpoll_loop or WSAEventSelect_loop, its table of          *)
(* connections, the registry of contexts (io_context.c), and the           *)
(* descriptors, of which the kernel gives the lowest that is free.         *)
(*                                                                         *)
(* What Reflect says of one connection is reduced here to this: from time  *)
(* to time a connection is ready; the callback then takes what there is    *)
(* and keeps the connection, or ends it, the last time.  An event is a     *)
(* pair of a descriptor and a filter; only kqueue has the filter "write",  *)
(* only /dev/poll tells of a descriptor that is "closed", and only Windows *)
(* tells of the end of input, "fin".  The event object of a connection of  *)
(* WSAEventSelect_loop lives as long as its socket and stands for it.      *)
(*                                                                         *)
(* A definition whose name ends in _Bug is a slip that its successor could *)
(* have had; no specification uses it.                                     *)
(***************************************************************************)
EXTENDS Integers, FiniteSets

CONSTANTS Clients, None,
          ListenFd,    (* listenfd                                          *)
          Fds,         (* the other descriptors the process may open        *)
          MaxConn,     (* MAX_CONN, or WSA_MAXIMUM_WAIT_EVENTS              *)
          SetSize,     (* FD_SETSIZE                                        *)
          Turns,       (* bound: how often a connection is ready            *)
          Mechanisms,  (* the loops considered                              *)
          MaxIntr,     (* bound: waits that fail with EINTR                 *)
          Faults,      (* TRUE: system calls fail for want of resources     *)
          Silent       (* clients that may stop reading and writing         *)

ASSUME EventLoopAssumption ==
    /\ None \notin Clients \cup Fds \cup {ListenFd}
    /\ ListenFd \in Nat /\ Fds \subseteq Nat \ {ListenFd} /\ IsFiniteSet(Fds)
    /\ MaxConn \in Nat /\ SetSize \in Nat /\ Turns \in Nat \ {0} /\ MaxIntr \in Nat
    /\ Mechanisms \subseteq {"poll", "select", "epoll", "kqueue", "devpoll", "WSAEvent"}
    /\ Silent \subseteq Clients /\ Faults \in BOOLEAN

VARIABLES
    mech,
    stage,     (* of each client: "new", "waiting" to be accepted, "open",  *)
               (* "ended", "refused", or "gone" before it was accepted      *)
    ready,     (* the clients whose connection is ready                     *)
    left,      (* how often each client will be ready                       *)
    conn,      (* whose connection a descriptor is                          *)
    ctx,       (* the registry: for which client each context was made      *)
    watched,   (* descriptors of connections the kernel is asked about      *)
    slot, maxi,  (* pollev, selfd or events, and the last index used        *)
    pc,        (* "wait", "listen" and "scan" of poll and select, "batch"   *)
               (* of the others, "again" after FD_CLOSE, "over"             *)
    at,        (* i of the scan                                             *)
    reported, readyNum,  (* revents, rset or the events; ready_num          *)
    knock,     (* kqueue: a client has come since the listener was reported *)
    intr

env  == <<mech, knock, intr>>
vars == <<stage, ready, left, conn, ctx, watched, slot, maxi, pc, at, reported,
          readyNum, env>>

Scanning == mech \in {"poll", "select"}

Tabled == Scanning \/ mech = "WSAEvent"

\* pollev[0] and events[0] are the listener.
Slots ==
    CASE mech \in {"poll", "WSAEvent"} -> 1 .. MaxConn - 1
      [] mech = "select"               -> 0 .. SetSize - 1
      [] OTHER                         -> {}

Init ==
    /\ mech \in Mechanisms
    /\ stage = [c \in Clients |-> "new"] /\ ready = {}
    /\ left = [c \in Clients |-> Turns]
    /\ conn = [f \in Fds |-> None]
    /\ ctx = [f \in {} |-> None]
    /\ watched = {}
    /\ slot = [i \in Slots |-> None]
    /\ maxi = IF mech = "select" THEN -1 ELSE 0
    /\ pc = "wait" /\ at = 0 /\ reported = {} /\ readyNum = 0
    /\ knock = FALSE /\ intr = 0

-----------------------------------------------------------------------------
(* Clients.                                                                *)

Waiting == {c \in Clients : stage[c] = "waiting"}

Connect(c) ==
    /\ stage[c] = "new"
    /\ stage' = [stage EXCEPT ![c] = "waiting"]
    /\ knock' = (mech = "kqueue")
    /\ UNCHANGED <<ready, left, conn, ctx, watched, slot, maxi, pc, at, reported, readyNum,
                   mech, intr>>

\* A client goes away before it is accepted.
Abort(c) ==
    /\ Faults
    /\ stage[c] = "waiting"
    /\ stage' = [stage EXCEPT ![c] = "gone"]
    /\ UNCHANGED <<ready, left, conn, ctx, watched, slot, maxi, pc, at, reported, readyNum,
                   env>>

\* Input arrives, or room.
Arrive(c) ==
    /\ stage[c] \in {"waiting", "open"}
    /\ c \notin ready /\ left[c] > 0
    /\ ready' = ready \cup {c}
    /\ left' = [left EXCEPT ![c] = @ - 1]
    /\ UNCHANGED <<stage, conn, ctx, watched, slot, maxi, pc, at, reported, readyNum, env>>

-----------------------------------------------------------------------------
(* The registry.                                                           *)

\* A context that is there already stays.
Allocated(fd, c) ==
    [f \in DOMAIN ctx \cup {fd} |-> IF f \in DOMAIN ctx THEN ctx[f] ELSE c]

\* The context is not freed with the connection.
Freed_Bug(fd) == ctx

Freed(fd) == [f \in DOMAIN ctx \ {fd} |-> ctx[f]]

-----------------------------------------------------------------------------
(* The wait.                                                               *)

Knock == <<ListenFd, "read">>

Knocked == IF mech = "kqueue" THEN knock /\ Waiting # {} ELSE Waiting # {}

\* A descriptor that was closed but is still watched is an error to /dev/poll.
Happened ==
    {<<f, "read">> : f \in {g \in watched : conn[g] \in ready}}
        \cup {<<f, "closed">> : f \in {g \in watched : conn[g] = None}}
        \cup (IF Knocked THEN {Knock} ELSE {})

Lowest(S) == CHOOSE x \in S : \A y \in S : x <= y

\* The events of connections that WSAWaitForMultipleEvents finds signaled.
Signaled == {i \in Slots : i <= maxi /\ conn[slot[i]] \in ready}

\* It returns the lowest index only, where FD_CLOSE may be among what has happened.
First ==
    IF Knocked THEN {{Knock}}
    ELSE IF Signaled = {} THEN {}
    ELSE {{<<slot[Lowest(Signaled)], filter>>} : filter \in {"read", "fin"}}

\* kqueue tells of room on its own.
MayHappen == IF mech = "kqueue" THEN {<<f, "write">> : f \in watched} ELSE {}

Wait ==
    /\ pc = "wait"
    /\ reported' \in IF mech = "WSAEvent" THEN First
                     ELSE {Happened \cup more : more \in SUBSET MayHappen}
    /\ reported' # {}
    /\ readyNum' = Cardinality(reported')
    /\ pc' = IF Scanning THEN "listen" ELSE "batch"
    /\ knock' = (knock /\ Knock \notin reported')
    /\ UNCHANGED <<stage, ready, left, conn, ctx, watched, slot, maxi, at, mech, intr>>

\* After a wait that fails poll_loop reads the old revents, and select_loop a set in
\* which every descriptor is.
WaitFails ==
    /\ pc = "wait" /\ intr < MaxIntr /\ mech # "WSAEvent"
    /\ intr' = intr + 1
    /\ readyNum' = -1
    /\ reported' = IF mech = "select" THEN {<<f, "read">> : f \in watched} \cup {Knock}
                   ELSE IF mech = "poll" THEN reported ELSE {}
    /\ pc' = IF Scanning THEN "listen" ELSE "wait"
    /\ UNCHANGED <<stage, ready, left, conn, ctx, watched, slot, maxi, at, mech, knock>>

-----------------------------------------------------------------------------
(* The listener.                                                           *)

MayAccept == pc \in {"listen", "batch"} /\ Knock \in reported

FreeFds == {f \in Fds : conn[f] = None}

\* The search goes one index too far.
FreeSlots_Bug == {i \in Slots \cup {MaxConn} : i \in Slots => slot[i] = None}

\* WSAEventSelect_loop appends.
FreeSlots == {i \in Slots : IF Scanning THEN slot[i] = None ELSE i > maxi}

\* The last index used is the latest.
LastIndex_Bug(i) == i

LastIndex(i) == IF i > maxi THEN i ELSE maxi

\* poll and select wait again after an accept that failed or was the only event; the
\* others go on to the next event.  What poll said of another connection with the same
\* descriptor or slot, before a wait that failed, is cleared.
Accepted(ok, stale) ==
    IF Scanning
    THEN /\ readyNum' = IF ok THEN readyNum - 1 ELSE readyNum
         /\ pc' = IF ok /\ readyNum' > 0 THEN "scan" ELSE "wait"
         /\ at' = 0
         /\ reported' = reported \ stale
    ELSE /\ reported' = reported \ {Knock}
         /\ pc' = IF reported' = {} THEN "wait" ELSE "batch"
         /\ UNCHANGED <<readyNum, at>>

\* EWOULDBLOCK, as nobody is waiting, or EMFILE.
AcceptFails ==
    /\ MayAccept
    /\ Waiting = {} \/ FreeFds = {}
    /\ Accepted(FALSE, {})
    /\ UNCHANGED <<stage, ready, left, conn, ctx, watched, slot, maxi, env>>

\* The table is full, or the socket cannot be made non-blocking or registered.
Refuse(c) ==
    /\ MayAccept
    /\ c \in Waiting /\ FreeFds # {}
    /\ Faults \/ (Tabled /\ FreeSlots = {})
    /\ stage' = [stage EXCEPT ![c] = "refused"]
    /\ ready' = ready \ {c}
    /\ Accepted(FALSE, {})
    /\ UNCHANGED <<left, conn, ctx, watched, slot, maxi, env>>

\* The connection is registered, but for a write to /dev/poll that fails: then it is
\* left as it is.
Accept(c) ==
    /\ MayAccept
    /\ c \in Waiting /\ FreeFds # {}
    /\ Tabled => FreeSlots # {}
    /\ LET fd == Lowest(FreeFds) IN
           /\ Accepted(TRUE, {<<fd, "read">>})
           /\ conn' = [conn EXCEPT ![fd] = c]
           /\ ctx' = Allocated(fd, c)
           /\ \/ watched' = watched \cup {fd}
              \/ mech = "devpoll" /\ Faults /\ UNCHANGED watched
           /\ IF Tabled
              THEN LET i == Lowest(FreeSlots) IN
                       /\ slot' = [slot EXCEPT ![i] = fd]
                       /\ maxi' = LastIndex(i)
              ELSE UNCHANGED <<slot, maxi>>
    /\ stage' = [stage EXCEPT ![c] = "open"]
    /\ UNCHANGED <<ready, left, env>>

NobodyKnocks ==
    /\ pc = "listen" /\ Knock \notin reported
    /\ pc' = "scan" /\ at' = 0
    /\ UNCHANGED <<stage, ready, left, conn, ctx, watched, slot, maxi, reported, readyNum,
                   env>>

-----------------------------------------------------------------------------
(* The connections.                                                        *)

\* The indices at which the scan stops.
Hits == {i \in Slots : at <= i /\ i <= maxi /\ <<slot[i], "read">> \in reported}

ScanEnd ==
    /\ pc = "scan" /\ Hits = {}
    /\ pc' = "wait"
    /\ UNCHANGED <<stage, ready, left, conn, ctx, watched, slot, maxi, at, reported,
                   readyNum, env>>

\* The round ends one event too early.
RoundOver_Bug == readyNum' <= 1

\* ready_num counts the events of the round.
RoundOver == readyNum' <= 0

\* The event e is the next one, and behind it comes the next one.
Handle(e) ==
    \/ /\ pc = "scan" /\ Hits # {}
       /\ LET i == Lowest(Hits) IN e = <<slot[i], "read">> /\ at' = i + 1
       /\ readyNum' = readyNum - 1
       /\ pc' = IF RoundOver THEN "wait" ELSE "scan"
       /\ UNCHANGED reported
    \/ /\ pc \in {"batch", "again"} /\ e \in reported /\ e # Knock
       /\ reported' = reported \ {e}
       /\ pc' = IF reported' = {} THEN "wait" ELSE "batch"
       /\ UNCHANGED <<at, readyNum>>

\* After FD_CLOSE the callback is called until it ends the connection.
Repeat(e) ==
    /\ pc \in {"batch", "again"} /\ e \in reported
    /\ pc' = "again"
    /\ UNCHANGED <<at, reported, readyNum>>

\* The callback returns with EWOULDBLOCK.
Serve(e) ==
    LET fd == e[1]  c == conn[fd] IN
    /\ IF e[2] = "fin" THEN Repeat(e) ELSE Handle(e)
    /\ e[2] # "closed" /\ fd \in DOMAIN ctx
    /\ c \notin ready \/ left[c] > 0
    /\ ready' = ready \ {c}
    /\ UNCHANGED <<stage, left, conn, ctx, watched, slot, maxi, env>>

Closed(fd) == [conn EXCEPT ![fd] = None]

\* The slot keeps its descriptor.
Vacated_Bug(fd) == slot

\* The slots without a descriptor that was closed.
Vacated(fd) == [i \in Slots |-> IF slot[i] = fd THEN None ELSE slot[i]]

\* The gap stays.
Shifted_Bug(i, junk) == [slot EXCEPT ![i] = None]

\* free_event: what is behind index i moves down by one.  With the array full its
\* loop reads, and then clears, an entry that the array does not have.
Shifted(i, junk) ==
    [k \in Slots |->
        IF k < i \/ k > maxi + 1 THEN slot[k]
        ELSE IF k = maxi + 1 THEN None
        ELSE IF k + 1 \in Slots THEN slot[k + 1] ELSE junk]

Release(fd, w) ==
    /\ stage' = [stage EXCEPT ![conn[fd]] = "ended"]
    /\ ready' = ready \ {conn[fd]}
    /\ conn' = Closed(fd)
    /\ ctx' = Freed(fd)
    /\ watched' = w
    /\ IF mech = "WSAEvent"
       THEN /\ \E i \in Slots, junk \in Fds \cup {None} :
                   i <= maxi /\ slot[i] = fd /\ slot' = Shifted(i, junk)
            /\ maxi' = maxi - 1
       ELSE slot' = Vacated(fd) /\ UNCHANGED maxi
    /\ UNCHANGED <<left, env>>

\* The descriptor is not taken off /dev/poll.
Unwatched_Bug(fd) == {watched}

\* A write to /dev/poll may fail, and the descriptor then stays watched.
Unwatched(fd) ==
    {watched \ {fd}} \cup (IF mech = "devpoll" /\ Faults THEN {watched} ELSE {})

\* The callback returns with the end of the connection, or an error ends it without
\* a callback.
End(e) ==
    LET fd == e[1]  c == conn[fd] IN
    /\ Handle(e)
    /\ e[2] # "closed" /\ fd \in DOMAIN ctx
    /\ c \in ready /\ (left[c] = 0 \/ Faults)
    /\ \E w \in Unwatched(fd) : Release(fd, w)

\* kqueue: the connection was ended by the other event.
SkipEnded(e) ==
    /\ Handle(e)
    /\ mech = "kqueue" /\ e[1] \notin DOMAIN ctx
    /\ UNCHANGED <<stage, ready, left, conn, ctx, watched, slot, maxi, env>>

\* devpoll: the descriptor was not open any more when it was reported.  If it is open
\* by now it is another connection, which is closed.
Forget(e) ==
    /\ Handle(e)
    /\ e[2] = "closed"
    /\ \E w \in Unwatched(e[1]) :
           IF e[1] \in DOMAIN ctx
           THEN Release(e[1], w)
           ELSE /\ watched' = w
                /\ UNCHANGED <<stage, ready, left, conn, ctx, slot, maxi, env>>

\* WSAEventSelect_loop returns when the wait, the query of what has happened, or the
\* event of a new connection fails.  The connections there are stay open.
GiveUp ==
    /\ Faults /\ mech = "WSAEvent" /\ pc \in {"wait", "batch"}
    /\ \/ UNCHANGED <<stage, ready>>
       \/ \E c \in Waiting :
              /\ MayAccept /\ FreeFds # {} /\ FreeSlots # {}
              /\ stage' = [stage EXCEPT ![c] = "refused"]
              /\ ready' = ready \ {c}
    /\ pc' = "over" /\ reported' = {}
    /\ watched' = {} /\ maxi' = -1
    /\ UNCHANGED <<left, conn, ctx, slot, at, readyNum, env>>

-----------------------------------------------------------------------------
Events == Fds \X {"read", "write", "closed", "fin"}

ServerStep ==
    \/ Wait \/ WaitFails \/ AcceptFails \/ NobodyKnocks \/ ScanEnd \/ GiveUp
    \/ \E c \in Clients : Refuse(c) \/ Accept(c)
    \/ \E e \in Events : Serve(e) \/ End(e) \/ SkipEnded(e) \/ Forget(e)

Next == ServerStep \/ \E c \in Clients : Connect(c) \/ Abort(c) \/ Arrive(c)

SafetySpec == Init /\ [][Next]_vars

\* The server runs.  A connection makes progress (Reflect) unless its client falls
\* silent; a client that has ended its data is not to while WSAEventSelect_loop calls
\* the callback until it has taken its answer.
Spec ==
    /\ SafetySpec
    /\ WF_vars(ServerStep)
    /\ \A c \in Clients : WF_vars(Arrive(c) /\ (c \in Silent => pc = "again"))

-----------------------------------------------------------------------------
(* Properties.                                                             *)

TypeOK ==
    /\ mech \in Mechanisms
    /\ stage \in [Clients -> {"new", "waiting", "open", "ended", "refused", "gone"}]
    /\ ready \subseteq Clients /\ left \in [Clients -> 0 .. Turns]
    /\ conn \in [Fds -> Clients \cup {None}]
    /\ DOMAIN ctx \subseteq Fds /\ \A f \in DOMAIN ctx : ctx[f] \in Clients
    /\ watched \subseteq Fds
    /\ slot \in [Slots -> Fds \cup {None}]
    /\ maxi \in Slots \cup {-1, 0} /\ at \in Nat /\ readyNum \in Int
    /\ pc \in {"wait", "listen", "scan", "batch", "again", "over"}
    /\ reported \subseteq Events \cup {Knock}
    /\ knock \in BOOLEAN /\ intr \in 0 .. MaxIntr

\* A connection has a descriptor and a context of its own, made for it and not left
\* over from one that had the same descriptor before, and nothing else has.
OwnContext ==
    /\ \A f \in Fds : conn[f] # None <=> f \in DOMAIN ctx
    /\ \A f \in DOMAIN ctx : ctx[f] = conn[f]
    /\ \A f, g \in Fds : conn[f] = conn[g] /\ conn[f] # None => f = g
    /\ \A c \in Clients : stage[c] = "open" <=> \E f \in Fds : conn[f] = c

\* The entries of the table that the loop looks at.
Used == IF mech = "WSAEvent" THEN {i \in Slots : i <= maxi} ELSE Slots

\* No connection is forgotten, and none is left in the table: the kernel is asked
\* about it, and it has one entry among those the loop looks at.
AllWatched ==
    pc # "over" =>
        /\ mech # "devpoll" \/ ~Faults => watched = {f \in Fds : conn[f] # None}
        /\ Tabled =>
               /\ \A f \in watched : \E i \in Used : i <= maxi /\ slot[i] = f
               /\ \A i, j \in Used : slot[i] = slot[j] /\ slot[i] # None => i = j
               /\ \A i \in Used : slot[i] \in watched \/ (Scanning /\ slot[i] = None)

\* An event that the loop passes to the callback is about a descriptor that is still
\* open: get_io_context finds the context that the callback is given, whatever was ended,
\* accepted or shifted since the wait, and also when the events are those of an earlier
\* round, because the wait failed.  (kqueue tells of a connection twice in one batch, and
\* its loop looks whether there is a context.)
ContextFound ==
    /\ pc = "scan" => \A i \in Hits : slot[i] \in DOMAIN ctx
    /\ pc \in {"batch", "again"} /\ mech # "kqueue" =>
           \A e \in reported \ {Knock} : e[2] # "closed" => e[1] \in DOMAIN ctx

\* A round of poll or select comes to its end: in the scan, or before it with a client
\* that was accepted.  (A round whose accept fails, or that turns the client away, stops
\* there and serves nobody.)
RoundEnds == pc' = "wait" /\ (pc = "scan" \/ (pc = "listen" /\ conn' # conn))

\* If it began with a wait that succeeded, it has served every connection it was told of.
WholeRound ==
    [][RoundEnds /\ readyNum' >= 0 =>
         \A i \in Slots : at' <= i => <<slot[i], "read">> \notin reported]_vars

\* A client that has come and does not fall silent is served to the end, or turned
\* away, although others fall silent, unless one does that has ended its data and has
\* its answer still to take (Spec).
ClientsServed ==
    \A c \in Clients \ Silent :
        stage[c] = "waiting" ~> stage[c] \in {"ended", "refused", "gone"}

\* "Too many clients" (io_select.c:60): a descriptor that select cannot watch is
\* turned away.
SelectFits == mech = "select" => \A f \in watched : f < SetSize
=============================================================================
