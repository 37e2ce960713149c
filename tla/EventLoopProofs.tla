--------------------------- MODULE EventLoopProofs ---------------------------
(***************************************************************************)
(* Theorems about EventLoop for every number of clients, descriptors and   *)
(* slots, every loop and every fault: a connection has its own context,    *)
(* finds it when it has an event, none is forgotten, and a round that      *)
(* comes to its end has served all it was told of.                         *)
(***************************************************************************)
EXTENDS EventLoop, FiniteSetTheorems, WellFoundedInduction, TLAPS

(* The lowest descriptor, or slot, that is free.                           *)
LEMMA LowestFacts ==
  ASSUME NEW S, S \subseteq Nat, S # {}
  PROVE  Lowest(S) \in S /\ \A y \in S : Lowest(S) <= y
<1> DEFINE less == OpToRel(<, Nat)
<1>1. IsWellFoundedOn(less, Nat)
  BY NatLessThanWellFounded
<1>2. \A x, y \in Nat : x < y => <<x, y>> \in less
  BY DEF OpToRel
<1> HIDE DEF less
<1>3. PICK x \in S : \A y \in S : <<y, x>> \notin less
  BY <1>1, WFMin
<1>4. \A y \in S : y \in Nat /\ x \in Nat /\ ~ (y < x)
  BY <1>2, <1>3
<1>5. \A y \in S : x <= y
  BY ONLY <1>4
<1> QED
  <2>1. \E z \in S : \A y \in S : z <= y
    BY <1>5
  <2> QED
    BY ONLY <2>1 DEF Lowest

-----------------------------------------------------------------------------
(* Descriptors, slots and events.                                          *)

(* Slots are indices of an array.                                          *)
LEMMA SlotFacts == Slots \subseteq Nat
BY EventLoopAssumption DEF Slots

(* What accept returns, and where it is kept.                              *)
LEMMA FreeFacts ==
  /\ FreeFds # {} => Lowest(FreeFds) \in Fds /\ conn[Lowest(FreeFds)] = None
  /\ FreeSlots # {} =>
        /\ Lowest(FreeSlots) \in FreeSlots
        /\ \A i \in FreeSlots : Lowest(FreeSlots) <= i
<1>1. FreeFds \subseteq Nat /\ FreeSlots \subseteq Nat
  BY EventLoopAssumption, SlotFacts DEF FreeFds, FreeSlots
<1>2. FreeFds # {} => Lowest(FreeFds) \in FreeFds
  BY <1>1, LowestFacts
<1> QED
  BY <1>1, <1>2, LowestFacts DEF FreeFds

(* There are finitely many events, so that ready_num is a number.          *)
LEMMA EventsFinite == IsFiniteSet(Events \cup {Knock})
<1>1. IsFiniteSet({"read", "write", "closed", "fin"})
  <2>1. IsFiniteSet({"read"})
    BY FS_Singleton
  <2>2. IsFiniteSet((({"read"} \cup {"write"}) \cup {"closed"}) \cup {"fin"})
    BY <2>1, FS_AddElement
  <2>3. {"read", "write", "closed", "fin"} =
          (({"read"} \cup {"write"}) \cup {"closed"}) \cup {"fin"}
    OBVIOUS
  <2> QED
    BY <2>2, <2>3
<1>2. IsFiniteSet(Events)
  BY <1>1, EventLoopAssumption, FS_Product DEF Events
<1> QED
  BY <1>2, FS_AddElement

-----------------------------------------------------------------------------
(* The inductive invariant.                                                *)

Inv == TypeOK /\ OwnContext /\ AllWatched

\* The state of a round.
RoundOK ==
    /\ pc \in {"wait", "listen", "scan", "batch", "again", "over"} /\ at \in Nat /\ readyNum \in Int
    /\ reported \subseteq Events \cup {Knock}

(* The program starts in the invariant.                                    *)
LEMMA InvInit == Init => Inv
<1> SUFFICES ASSUME Init PROVE Inv
  OBVIOUS
<1>1. TypeOK
  <2>1. maxi \in Slots \cup {-1, 0} /\ slot \in [Slots -> Fds \cup {None}]
    BY DEF Init
  <2>2. DOMAIN ctx = {}
    BY DEF Init
  <2>3. left \in [Clients -> 0 .. Turns] /\ intr \in 0 .. MaxIntr
    BY EventLoopAssumption DEF Init
  <2>4. stage \in [Clients -> {"new", "waiting", "open", "ended", "refused", "gone"}]
    BY DEF Init
  <2>5. conn \in [Fds -> Clients \cup {None}]
    BY DEF Init
  <2>6. /\ mech \in Mechanisms /\ ready = {} /\ watched = {} /\ reported = {}
        /\ pc = "wait" /\ at = 0 /\ readyNum = 0
    BY DEF Init
  <2>7. knock \in BOOLEAN
    BY DEF Init
  <2> QED
    BY <2>1, <2>2, <2>3, <2>4, <2>5, <2>6, <2>7 DEF TypeOK
<1>2. OwnContext
  BY EventLoopAssumption DEF Init, OwnContext
<1>3. AllWatched
  <2>1. watched = {} /\ watched = {f \in Fds : conn[f] # None}
    BY DEF Init
  <2>2. \A i \in Slots : slot[i] = None
    BY DEF Init
  <2>3. ASSUME Tabled, NEW i \in Used PROVE Scanning /\ slot[i] = None
    <3>1. CASE Scanning
      BY <2>2, <3>1 DEF Used, Scanning
    <3>2. CASE ~ Scanning
      <4>1. mech = "WSAEvent" /\ maxi = 0 /\ i \in 1 .. MaxConn - 1 /\ i <= maxi
        BY <2>3, <3>2 DEF Tabled, Used, Slots, Init
      <4> QED
        BY ONLY <4>1, EventLoopAssumption
    <3> QED
      BY <3>1, <3>2
  <2> QED
    BY <2>1, <2>3 DEF AllWatched
<1> QED
  BY <1>1, <1>2, <1>3 DEF Inv

(* A step that leaves the connections alone.                               *)
LEMMA InvFrame ==
  ASSUME Inv, RoundOK', pc' # "over" => pc # "over",
         UNCHANGED <<conn, ctx, watched, slot, maxi, mech>>,
         stage' \in [Clients -> {"new", "waiting", "open", "ended", "refused", "gone"}],
         \A c \in Clients : stage'[c] = "open" <=> stage[c] = "open",
         ready' \subseteq Clients, left' \in [Clients -> 0 .. Turns],
         knock' \in BOOLEAN, intr' \in 0 .. MaxIntr
  PROVE  Inv'
<1>1. Slots' = Slots /\ Scanning' = Scanning /\ Tabled' = Tabled /\ Used' = Used
  BY DEF Slots, Scanning, Tabled, Used
<1>2. TypeOK'
  BY <1>1 DEF Inv, TypeOK, RoundOK, Events
<1>3. OwnContext'
  BY DEF Inv, OwnContext
<1>4. AllWatched'
  BY <1>1 DEF Inv, AllWatched
<1> QED
  BY <1>2, <1>3, <1>4 DEF Inv

(* A round after the listener was dealt with.                              *)
LEMMA RoundAfterListener ==
  ASSUME Inv, NEW ok \in BOOLEAN, NEW stale, Accepted(ok, stale)
  PROVE  RoundOK'
BY DEF Inv, TypeOK, Accepted, RoundOK, Events, Knock

(* A round after an event was dealt with.                                  *)
LEMMA RoundAfterEvent ==
  ASSUME Inv, NEW e \in Events, Handle(e)
  PROVE  RoundOK'
<1> USE DEF Inv, TypeOK, RoundOK, Events, Knock
<1>1. CASE pc = "scan"
  <2>1. Lowest(Hits) \in Nat
    <3>1. Hits \subseteq Nat /\ Hits # {}
      BY <1>1, SlotFacts DEF Handle, Hits
    <3> QED
      BY <3>1, LowestFacts
  <2> QED
    BY <1>1, <2>1 DEF Handle
<1>2. CASE pc \in {"batch", "again"}
  BY <1>2 DEF Handle
<1> QED
  BY <1>1, <1>2 DEF Handle

-----------------------------------------------------------------------------
(* Every step keeps the invariant.                                         *)

(* What the clients do.                                                    *)
LEMMA InvClients ==
  ASSUME Inv, NEW c \in Clients, Connect(c) \/ Abort(c) \/ Arrive(c)
  PROVE  Inv'
<1>1. RoundOK' /\ pc' = pc
  BY DEF Inv, TypeOK, RoundOK, Events, Connect, Abort, Arrive, env
<1>2. /\ UNCHANGED <<conn, ctx, watched, slot, maxi, mech>>
      /\ intr' \in 0 .. MaxIntr
  BY DEF Inv, TypeOK, Connect, Abort, Arrive, env
<1>3. /\ stage' \in [Clients -> {"new", "waiting", "open", "ended", "refused", "gone"}]
      /\ \A d \in Clients : stage'[d] = "open" <=> stage[d] = "open"
  BY DEF Inv, TypeOK, Connect, Abort, Arrive, env
<1>4. ready' \subseteq Clients /\ left' \in [Clients -> 0 .. Turns]
  <2>1. CASE Connect(c) \/ Abort(c)
    BY <2>1 DEF Inv, TypeOK, Connect, Abort
  <2>2. CASE Arrive(c)
    <3>1. left[c] - 1 \in 0 .. Turns
      BY <2>2, EventLoopAssumption DEF Inv, TypeOK, Arrive
    <3> QED
      BY <2>2, <3>1 DEF Inv, TypeOK, Arrive
  <2> QED
    BY <2>1, <2>2
<1>5. knock' \in BOOLEAN
  BY DEF Inv, TypeOK, Connect, Abort, Arrive, env
<1> QED
  BY <1>1, <1>2, <1>3, <1>4, <1>5, InvFrame

(* What Windows reports.                                                   *)
LEMMA FirstFacts ==
  ASSUME Inv, pc = "wait", mech = "WSAEvent", NEW R \in First
  PROVE  R \subseteq Events \cup {Knock}
<1>1. CASE R = {Knock}
  BY <1>1
<1>2. CASE R # {Knock}
  <2>1. /\ Signaled # {}
        /\ \E filter \in {"read", "fin"} : R = {<<slot[Lowest(Signaled)], filter>>}
    BY <1>2 DEF First
  <2>2. Lowest(Signaled) \in Signaled
    <3>1. Signaled \subseteq Nat
      BY SlotFacts DEF Signaled
    <3> QED
      BY <2>1, <3>1, LowestFacts
  <2>3. slot[Lowest(Signaled)] \in Fds
    BY <2>2 DEF Signaled, Inv, AllWatched, Tabled, Scanning, Used, TypeOK
  <2> QED
    BY <2>1, <2>3 DEF Events
<1> QED
  BY <1>1, <1>2

(* The wait.                                                               *)
LEMMA InvWait ==
  ASSUME Inv, Wait \/ WaitFails \/ NobodyKnocks \/ ScanEnd
  PROVE  Inv'
<1>1. Happened \cup MayHappen \subseteq Events \cup {Knock}
  BY DEF Inv, TypeOK, Happened, MayHappen, Events
<1>2. RoundOK'
  <2>1. CASE Wait
    <3>1. reported' \subseteq Events \cup {Knock}
      <4>1. CASE mech # "WSAEvent"
        BY <1>1, <2>1, <4>1 DEF Wait
      <4>2. CASE mech = "WSAEvent"
        BY <2>1, <4>2, FirstFacts DEF Wait
      <4> QED
        BY <4>1, <4>2
    <3>2. readyNum' \in Int
      BY <2>1, <3>1, EventsFinite, FS_Subset, FS_CardinalityType DEF Wait
    <3> QED
      BY <2>1, <3>1, <3>2 DEF Inv, TypeOK, RoundOK, Wait, Events, Knock
  <2>2. CASE WaitFails
    BY <2>2, <1>1 DEF Inv, TypeOK, RoundOK, WaitFails, Events, Knock
  <2>3. CASE NobodyKnocks \/ ScanEnd
    BY <2>3 DEF Inv, TypeOK, RoundOK, NobodyKnocks, ScanEnd, Events, Knock, env
  <2> QED
    BY <2>1, <2>2, <2>3
<1>3. /\ UNCHANGED <<conn, ctx, watched, slot, maxi, mech, stage, ready, left>>
      /\ pc # "over"
  BY DEF Wait, WaitFails, NobodyKnocks, ScanEnd, env
<1>4. intr' \in 0 .. MaxIntr
  BY EventLoopAssumption DEF Inv, TypeOK, Wait, WaitFails, NobodyKnocks, ScanEnd, env
<1>5. knock' \in BOOLEAN
  BY DEF Inv, TypeOK, Wait, WaitFails, NobodyKnocks, ScanEnd, env
<1> QED
  BY <1>2, <1>3, <1>4, <1>5, InvFrame DEF Inv, TypeOK

(* Nobody is accepted.                                                     *)
LEMMA InvRefuse ==
  ASSUME Inv, AcceptFails \/ \E c \in Clients : Refuse(c)
  PROVE  Inv'
<1>1. RoundOK'
  BY RoundAfterListener DEF AcceptFails, Refuse
<1>2. /\ UNCHANGED <<conn, ctx, watched, slot, maxi, mech, knock, intr, left>>
      /\ ready' \subseteq Clients /\ pc # "over"
  BY DEF Inv, TypeOK, AcceptFails, Refuse, MayAccept, env
<1>3. /\ stage' \in [Clients -> {"new", "waiting", "open", "ended", "refused", "gone"}]
      /\ \A d \in Clients : stage'[d] = "open" <=> stage[d] = "open"
  BY DEF Inv, TypeOK, AcceptFails, Refuse, Waiting
<1> QED
  BY <1>1, <1>2, <1>3, InvFrame DEF Inv, TypeOK

(* An event that changes no connection.                                    *)
LEMMA InvServe ==
  ASSUME Inv, NEW e \in Events, Serve(e) \/ SkipEnded(e)
  PROVE  Inv'
<1>1. RoundOK' /\ pc # "over"
  <2>1. CASE Handle(e)
    BY <2>1, RoundAfterEvent DEF Handle
  <2>2. CASE Repeat(e)
    BY <2>2 DEF Repeat, Inv, TypeOK, RoundOK, Events, Knock
  <2> QED
    BY <2>1, <2>2 DEF Serve, SkipEnded
<1>2. /\ UNCHANGED <<conn, ctx, watched, slot, maxi, mech, knock, intr, left, stage>>
      /\ ready' \subseteq Clients
  BY DEF Inv, TypeOK, Serve, SkipEnded, env
<1> QED
  BY <1>1, <1>2, InvFrame DEF Inv, TypeOK

(* A connection that is accepted gets a descriptor, a context and a slot   *)
(* that nobody has.                                                        *)
LEMMA InvAccept ==
  ASSUME Inv, NEW c \in Clients, Accept(c)
  PROVE  Inv'
<1> DEFINE fd == Lowest(FreeFds)  i == Lowest(FreeSlots)
<1>1. fd \in Fds /\ conn[fd] = None /\ fd # None
  BY FreeFacts, EventLoopAssumption DEF Accept
<1>2. fd \notin DOMAIN ctx
  BY <1>1 DEF Inv, OwnContext
<1>3. Tabled => i \in Slots /\ i \in Nat
  BY FreeFacts, SlotFacts DEF Accept, FreeSlots
<1>4. /\ c \notin {None} /\ stage[c] = "waiting" /\ \A f \in Fds : conn[f] # c
  BY EventLoopAssumption DEF Accept, Waiting, Inv, OwnContext
<1>5. /\ conn' = [conn EXCEPT ![fd] = c]
      /\ stage' = [stage EXCEPT ![c] = "open"]
      /\ UNCHANGED <<ready, left, mech, knock, intr>>
  BY DEF Accept, env
<1>6. /\ DOMAIN ctx' = DOMAIN ctx \cup {fd}
      /\ ctx'[fd] = c
      /\ \A f \in DOMAIN ctx : ctx'[f] = ctx[f]
  BY <1>2 DEF Accept, Allocated
<1>7. /\ watched' = watched \cup {fd} \/ (mech = "devpoll" /\ Faults /\ watched' = watched)
  BY DEF Accept
<1>8. /\ Tabled => slot' = [slot EXCEPT ![i] = fd] /\ maxi' = LastIndex(i)
      /\ ~ Tabled => slot' = slot /\ maxi' = maxi
  BY DEF Accept
<1>9. Slots' = Slots /\ Scanning' = Scanning /\ Tabled' = Tabled
  BY <1>5 DEF Slots, Scanning, Tabled
<1>10. RoundOK' /\ pc # "over"
  BY RoundAfterListener DEF Accept, MayAccept
<1>14. Tabled => \A k \in Slots : k < i => k \notin FreeSlots
  <2>1. ASSUME Tabled, NEW k \in FreeSlots PROVE ~ (k < i)
    <3>1. Lowest(FreeSlots) <= k /\ k \in Nat /\ Lowest(FreeSlots) \in Nat
      BY <1>3, <2>1, FreeFacts, SlotFacts DEF FreeSlots
    <3> QED
      BY ONLY <3>1
  <2> QED
    BY <2>1
<1>15. Tabled => i \in FreeSlots
  BY FreeFacts DEF Accept
<1> HIDE DEF fd, i
<1>11. TypeOK'
  <2>1. conn' \in [Fds -> Clients \cup {None}]
    BY <1>1, <1>5 DEF Inv, TypeOK
  <2>2. DOMAIN ctx' \subseteq Fds /\ \A f \in DOMAIN ctx' : ctx'[f] \in Clients
    BY <1>1, <1>6 DEF Inv, TypeOK
  <2>3. watched' \subseteq Fds
    BY <1>1, <1>7 DEF Inv, TypeOK
  <2>4. slot' \in [Slots' -> Fds \cup {None}] /\ maxi' \in Slots' \cup {-1, 0}
    BY <1>1, <1>3, <1>8, <1>9 DEF Inv, TypeOK, LastIndex
  <2>5. stage' \in [Clients -> {"new", "waiting", "open", "ended", "refused", "gone"}]
    BY <1>5 DEF Inv, TypeOK
  <2> QED
    BY <1>5, <1>10, <2>1, <2>2, <2>3, <2>4, <2>5 DEF Inv, TypeOK, RoundOK, Events
<1>12. OwnContext'
  <2>1. \A f \in Fds : conn'[f] = IF f = fd THEN c ELSE conn[f]
    BY <1>1, <1>5 DEF Inv, TypeOK
  <2>2. \A f \in Fds : conn'[f] # None <=> f \in DOMAIN ctx'
    BY <2>1, <1>4, <1>6 DEF Inv, OwnContext
  <2>3. \A f \in DOMAIN ctx' : ctx'[f] = conn'[f]
    BY <2>1, <1>1, <1>2, <1>6 DEF Inv, TypeOK, OwnContext
  <2>4. \A f, g \in Fds : conn'[f] = conn'[g] /\ conn'[f] # None => f = g
    BY <2>1, <1>4 DEF Inv, OwnContext
  <2>5. \A d \in Clients : stage'[d] = "open" <=> \E f \in Fds : conn'[f] = d
    BY <2>1, <1>1, <1>4, <1>5, EventLoopAssumption DEF Inv, TypeOK, OwnContext
  <2> QED
    BY <2>2, <2>3, <2>4, <2>5 DEF OwnContext
<1>13. AllWatched'
  <2>1. \A f \in Fds : conn'[f] = IF f = fd THEN c ELSE conn[f]
    BY <1>1, <1>5 DEF Inv, TypeOK
  <2>2. mech # "devpoll" \/ ~ Faults => watched' = {f \in Fds : conn'[f] # None}
    BY <2>1, <1>1, <1>4, <1>7, <1>10 DEF Inv, AllWatched
  <2>3. ASSUME Tabled
        PROVE  /\ \A f \in watched' : \E k \in Used' : k <= maxi' /\ slot'[k] = f
               /\ \A j, k \in Used' : slot'[j] = slot'[k] /\ slot'[j] # None => j = k
               /\ \A k \in Used' : slot'[k] \in watched' \/ (Scanning /\ slot'[k] = None)
    <3>1. watched = {f \in Fds : conn[f] # None} /\ watched' = watched \cup {fd}
      BY <2>3, <1>7, <1>10 DEF Inv, AllWatched, Scanning, Tabled
    <3>2. fd \notin watched
      BY <1>1, <3>1
    <3>3. \A k \in Slots : slot'[k] = IF k = i THEN fd ELSE slot[k]
      BY <2>3, <1>3, <1>8 DEF Inv, TypeOK
    <3>4. i <= maxi' /\ maxi <= maxi' /\ maxi \in Int /\ maxi' \in Int
      <4>1. maxi \in Int /\ i \in Int
        <5>1. maxi \in Slots \cup {-1, 0}
          BY DEF Inv, TypeOK
        <5>2. i \in Nat
          BY <2>3, <1>3
        <5> QED
          BY ONLY <5>1, <5>2, SlotFacts
      <4>2. maxi' = LastIndex(i)
        BY <2>3, <1>8
      <4> QED
        BY ONLY <4>1, <4>2 DEF LastIndex
    <3>5. /\ i \in Used' /\ \A k \in Used' : k \in Slots /\ (k = i \/ k \in Used)
          /\ \A k \in Used : k \in Used'
      <4>1. CASE Scanning
        BY <2>3, <4>1, <1>3, <1>5, <1>9 DEF Used, Scanning
      <4>2. CASE ~ Scanning
        <5>1. mech = "WSAEvent" /\ mech' = "WSAEvent"
          BY <2>3, <4>2, <1>5 DEF Tabled
        <5>2. /\ Used = {k \in Slots : k <= maxi}
              /\ Used' = {k \in Slots : k <= maxi'}
          BY <5>1, <1>9 DEF Used
        <5>3. i > maxi /\ \A k \in Slots : k < i => ~ (k > maxi)
          BY <2>3, <1>14, <1>15, <4>2 DEF FreeSlots
        <5>4. maxi' = i
          BY <2>3, <1>8, <5>3 DEF LastIndex
        <5>5. \A k \in Slots : k \in Nat
          BY SlotFacts
        <5> HIDE DEF i
        <5>6. ASSUME NEW k \in Slots, k <= maxi' PROVE k = i \/ k <= maxi
          <6>1. k \in Nat /\ i \in Int /\ k <= i /\ maxi \in Int /\ (k < i => ~ (k > maxi))
            BY <5>3, <5>4, <5>5, <5>6, <1>3, <2>3, <3>4
          <6> QED
            BY ONLY <6>1
        <5>7. ASSUME NEW k \in Slots, k <= maxi PROVE k <= maxi'
          <6>1. k \in Nat
            BY <5>5
          <6> QED
            BY ONLY <6>1, <5>7, <3>4
        <5> QED
          BY <5>2, <5>6, <5>7, <3>4, <1>3, <2>3
      <4> QED
        BY <4>1, <4>2
    <3>6. \A k \in Used : k # i \/ slot[k] = None
      <4>1. CASE Scanning
        BY <4>1, <1>15, <2>3 DEF FreeSlots
      <4>2. CASE ~ Scanning
        <5>1. Used = {k \in Slots : k <= maxi} /\ i > maxi /\ i \in Int
          BY <2>3, <4>2, <1>3, <1>15 DEF Used, Tabled, FreeSlots
        <5> QED
          BY <5>1, <3>4
      <4> QED
        BY <4>1, <4>2
    <3>7. \A f \in watched' : \E k \in Used' : k <= maxi' /\ slot'[k] = f
      <4>1. ASSUME NEW f \in watched
            PROVE  \E k \in Used' : k <= maxi' /\ slot'[k] = f
        <5>1. PICK k \in Used : k <= maxi /\ slot[k] = f
          BY <2>3, <1>10 DEF Inv, AllWatched
        <5>2. k # i /\ k \in Used' /\ k \in Slots /\ k \in Nat
          BY <5>1, <3>1, <3>5, <3>6, SlotFacts, EventLoopAssumption
        <5>3. k <= maxi'
          BY <5>1, <5>2, <3>4
        <5> QED
          BY <5>1, <5>2, <5>3, <3>3
      <4>2. \E k \in Used' : k <= maxi' /\ slot'[k] = fd
        BY <2>3, <1>3, <3>3, <3>4, <3>5
      <4> QED
        BY <3>1, <4>1, <4>2
    <3>8. \A k \in Used : slot[k] # fd
      BY <2>3, <3>2, <1>1, <1>10 DEF Inv, AllWatched
    <3>9. ASSUME NEW j \in Used', NEW k \in Used', slot'[j] = slot'[k], slot'[j] # None
          PROVE  j = k
      <4>1. CASE j = i \/ k = i
        BY <4>1, <3>3, <3>5, <3>8, <3>9
      <4>2. CASE j # i /\ k # i
        <5>1. j \in Used /\ k \in Used /\ slot[j] = slot[k] /\ slot[j] # None
          BY <4>2, <3>3, <3>5, <3>9
        <5> QED
          BY <5>1, <2>3, <1>10 DEF Inv, AllWatched
      <4> QED
        BY <4>1, <4>2
    <3>10. ASSUME NEW k \in Used'
           PROVE  slot'[k] \in watched' \/ (Scanning /\ slot'[k] = None)
      <4>1. CASE k = i
        BY <4>1, <3>1, <3>3, <3>5
      <4>2. CASE k # i
        <5>1. k \in Used /\ slot'[k] = slot[k]
          BY <4>2, <3>3, <3>5
        <5> QED
          BY <5>1, <2>3, <3>1, <1>10 DEF Inv, AllWatched
      <4> QED
        BY <4>1, <4>2
    <3> QED
      BY <3>7, <3>9, <3>10
  <2> QED
    BY <2>2, <2>3, <1>5, <1>9, Zenon DEF AllWatched
<1> QED
  BY <1>11, <1>12, <1>13 DEF Inv

(* What is closed and what is no longer watched.                           *)
LEMMA UnwatchedFacts ==
  ASSUME NEW fd, NEW w \in Unwatched(fd)
  PROVE  w = watched \ {fd} \/ (mech = "devpoll" /\ Faults /\ w = watched)
BY DEF Unwatched

(* The array of WSAEventSelect_loop when the entry g is taken out of it:   *)
(* the others keep their order and none is lost.                           *)
LEMMA TakenOut ==
  ASSUME Inv, pc # "over", mech = "WSAEvent", mech' = mech,
         NEW g \in Slots, NEW junk \in Fds \cup {None},
         g <= maxi, slot' = Shifted(g, junk), maxi' = maxi - 1
  PROVE  /\ slot' \in [Slots -> Fds \cup {None}] /\ maxi' \in Slots \cup {-1, 0}
         /\ \A f \in watched \ {slot[g]} : \E k \in Used' : k <= maxi' /\ slot'[k] = f
         /\ \A j, k \in Used' : slot'[j] = slot'[k] => j = k
         /\ \A k \in Used' : slot'[k] \in watched \ {slot[g]}
<1> DEFINE h(k) == IF k < g THEN k ELSE k + 1
<1>1. Slots = 1 .. MaxConn - 1 /\ Slots' = Slots /\ MaxConn \in Int
  BY EventLoopAssumption DEF Slots
<1>2. g \in Int /\ 1 <= g /\ maxi \in Slots
  BY <1>1 DEF Inv, TypeOK
<1>3. Used = {k \in Slots : k <= maxi} /\ Used' = {k \in Slots : k <= maxi - 1}
  BY <1>1 DEF Used
<1>4. slot' = [k \in Slots |->
                 IF k < g \/ k > maxi + 1 THEN slot[k]
                 ELSE IF k = maxi + 1 THEN None
                 ELSE IF k + 1 \in Slots THEN slot[k + 1] ELSE junk]
  BY DEF Shifted
<1>5. slot \in [Slots -> Fds \cup {None}]
  BY DEF Inv, TypeOK
<1>6. /\ \A f \in watched : \E k \in Used : k <= maxi /\ slot[k] = f
      /\ \A j, k \in Used : slot[j] = slot[k] /\ slot[j] # None => j = k
      /\ \A k \in Used : slot[k] \in watched
      /\ watched \subseteq Fds
  BY DEF Inv, AllWatched, Tabled, Scanning, TypeOK
<1>7. \A k \in Used : slot[k] # None
  BY <1>6, EventLoopAssumption
<1>8. ASSUME NEW k \in Used'
      PROVE  h(k) \in Used /\ h(k) # g /\ slot'[k] = slot[h(k)] /\ k \in Int
  <2>1. k \in Slots /\ k \in Int /\ 1 <= k /\ k <= maxi - 1 /\ maxi \in Int
    BY <1>1, <1>2, <1>3, <1>8
  <2>2. k + 1 \in Slots /\ k + 1 <= maxi /\ k <= maxi /\ ~ (k > maxi + 1) /\ k # maxi + 1
    BY ONLY <1>1, <1>2, <2>1
  <2>3. h(k) \in Used
    BY <1>3, <2>1, <2>2
  <2>4. h(k) # g
    BY <1>2, <2>1
  <2>5. slot'[k] = slot[h(k)]
    BY <1>4, <2>1, <2>2
  <2> QED
    BY <2>1, <2>3, <2>4, <2>5
<1>9. \A j, k \in Int : h(j) = h(k) => j = k
  BY <1>2
<1>10. g \in Used
  BY <1>3
<1>11. ASSUME NEW f \in watched \ {slot[g]}
       PROVE  \E k \in Used' : k <= maxi' /\ slot'[k] = f
  <2>1. PICK i \in Used : slot[i] = f
    BY <1>6
  <2>2. i \in Slots /\ i <= maxi /\ i \in Int /\ i # g
    BY <1>1, <1>3, <2>1
  <2>3. CASE i < g
    <3>1. i <= maxi - 1 /\ h(i) = i
      BY <2>2, <2>3, <1>1, <1>2
    <3>2. i \in Used'
      BY <3>1, <2>2, <1>3
    <3> QED
      BY <3>1, <3>2, <2>1, <1>8
  <2>4. CASE ~ (i < g)
    <3>1. i - 1 <= maxi - 1 /\ h(i - 1) = i /\ i - 1 \in Slots
      BY <2>2, <2>4, <1>1, <1>2
    <3>2. i - 1 \in Used'
      BY <3>1, <1>3
    <3> QED
      BY <3>1, <3>2, <2>1, <1>8
  <2> QED
    BY <2>3, <2>4
<1>12. slot' \in [Slots -> Fds \cup {None}]
  BY <1>4, <1>5
<1>13. maxi' \in Slots \cup {-1, 0}
  BY <1>1, <1>2
<1> HIDE DEF h
<1>14. \A j, k \in Used' : slot'[j] = slot'[k] => j = k
  <2> SUFFICES ASSUME NEW j \in Used', NEW k \in Used', slot'[j] = slot'[k] PROVE j = k
    OBVIOUS
  <2>1. h(j) \in Used /\ h(k) \in Used /\ slot[h(j)] = slot[h(k)]
    BY <1>8
  <2>2. h(j) = h(k)
    BY <2>1, <1>6, <1>7
  <2> QED
    BY <2>2, <1>8, <1>9
<1>15. \A k \in Used' : slot'[k] \in watched \ {slot[g]}
  <2> SUFFICES ASSUME NEW k \in Used' PROVE slot'[k] \in watched \ {slot[g]}
    OBVIOUS
  <2>1. h(k) \in Used /\ h(k) # g /\ slot'[k] = slot[h(k)]
    BY <1>8
  <2> QED
    BY <2>1, <1>6, <1>7, <1>10
<1> QED
  BY <1>11, <1>12, <1>13, <1>14, <1>15

(* The table when a connection has ended.                                  *)
LEMMA TableAfterRelease ==
  ASSUME Inv, pc # "over", NEW fd \in Fds, NEW w, Release(fd, w)
  PROVE  /\ slot' \in [Slots -> Fds \cup {None}] /\ maxi' \in Slots \cup {-1, 0}
         /\ Tabled =>
               /\ \A f \in watched \ {fd} : \E k \in Used' : k <= maxi' /\ slot'[k] = f
               /\ \A j, k \in Used' : slot'[j] = slot'[k] /\ slot'[j] # None => j = k
               /\ \A k \in Used' : \/ slot'[k] \in watched \ {fd}
                                   \/ Scanning /\ slot'[k] = None
<1>1. mech' = mech
  BY DEF Release, env
<1>2. CASE mech = "WSAEvent"
  <2>1. PICK g \in Slots, junk \in Fds \cup {None} :
           g <= maxi /\ slot[g] = fd /\ slot' = Shifted(g, junk)
    BY <1>2 DEF Release
  <2>2. maxi' = maxi - 1
    BY <1>2 DEF Release
  <2> QED
    BY <1>1, <1>2, <2>1, <2>2, TakenOut
<1>3. CASE mech # "WSAEvent"
  <2>1. slot' = [k \in Slots |-> IF slot[k] = fd THEN None ELSE slot[k]] /\ maxi' = maxi
    BY <1>3 DEF Release, Vacated
  <2>2. slot' \in [Slots -> Fds \cup {None}] /\ maxi' \in Slots \cup {-1, 0}
    BY <2>1 DEF Inv, TypeOK
  <2>3. ASSUME Tabled
        PROVE  /\ \A f \in watched \ {fd} : \E k \in Slots : k <= maxi' /\ slot'[k] = f
               /\ \A j, k \in Slots : slot'[j] = slot'[k] /\ slot'[j] # None => j = k
               /\ \A k \in Slots : slot'[k] \in (watched \ {fd}) \cup {None}
    <3>1. Used = Slots /\ Tabled
      BY <1>3, <2>3 DEF Used
    <3>2. \A k \in Slots : slot'[k] = IF slot[k] = fd THEN None ELSE slot[k]
      BY <2>1
    <3>3. /\ \A f \in watched : \E k \in Slots : k <= maxi /\ slot[k] = f
          /\ \A j, k \in Slots : slot[j] = slot[k] /\ slot[j] # None => j = k
          /\ \A k \in Slots : slot[k] \in watched \cup {None}
      BY <3>1 DEF Inv, AllWatched
    <3> QED
      BY <2>1, <3>2, <3>3
  <2>4. Tabled => Scanning /\ Used' = Slots
    <3>1. Slots' = Slots
      BY <1>1 DEF Slots
    <3> QED
      BY <1>1, <1>3, <3>1 DEF Tabled, Used
  <2> QED
    BY <2>2, <2>3, <2>4
<1> QED
  BY <1>2, <1>3

(* A connection that ends gives everything back.                           *)
LEMMA InvRelease ==
  ASSUME Inv, RoundOK', pc # "over",
         NEW fd \in DOMAIN ctx, NEW w \in Unwatched(fd), Release(fd, w)
  PROVE  Inv'
<1> DEFINE c == conn[fd]
<1>1. /\ fd \in Fds /\ c \in Clients /\ c # None
      /\ stage[c] = "open"
  <2>1. fd \in Fds
    BY DEF Inv, TypeOK
  <2>2. conn[fd] # None /\ conn[fd] \in Clients
    BY <2>1 DEF Inv, OwnContext, TypeOK
  <2> QED
    BY <2>1, <2>2 DEF Inv, OwnContext
<1>2. /\ stage' = [stage EXCEPT ![c] = "ended"]
      /\ ready' = ready \ {c}
      /\ conn' = [conn EXCEPT ![fd] = None]
      /\ ctx' = [f \in DOMAIN ctx \ {fd} |-> ctx[f]]
      /\ UNCHANGED <<left, mech, knock, intr>>
  BY DEF Release, Closed, Freed, env
<1>3. watched' = watched \ {fd} \/ (mech = "devpoll" /\ Faults /\ watched' = watched)
  BY UnwatchedFacts DEF Release
<1>4. Slots' = Slots /\ Scanning' = Scanning /\ Tabled' = Tabled
  BY <1>2 DEF Slots, Scanning, Tabled
<1>5. RoundOK'
  OBVIOUS
<1> HIDE DEF c
<1>6. TypeOK'
  <2>1. conn' \in [Fds -> Clients \cup {None}]
    BY <1>1, <1>2 DEF Inv, TypeOK
  <2>2. DOMAIN ctx' \subseteq Fds /\ \A f \in DOMAIN ctx' : ctx'[f] \in Clients
    BY <1>1, <1>2 DEF Inv, TypeOK
  <2>3. watched' \subseteq Fds
    BY <1>1, <1>3 DEF Inv, TypeOK
  <2>4. slot' \in [Slots' -> Fds \cup {None}] /\ maxi' \in Slots' \cup {-1, 0}
    BY <1>1, <1>4, TableAfterRelease
  <2>5. stage' \in [Clients -> {"new", "waiting", "open", "ended", "refused", "gone"}]
    BY <1>2 DEF Inv, TypeOK
  <2> QED
    BY <1>2, <1>4, <1>5, <2>1, <2>2, <2>3, <2>4, <2>5 DEF Inv, TypeOK, RoundOK, Events
<1>7. \A f \in Fds : conn'[f] = IF f = fd THEN None ELSE conn[f]
  BY <1>2 DEF Inv, TypeOK
<1>8. OwnContext'
  <2>1. \A f \in Fds : conn'[f] # None <=> f \in DOMAIN ctx'
    BY <1>2, <1>7 DEF Inv, OwnContext
  <2>2. \A f \in DOMAIN ctx' : ctx'[f] = conn'[f]
    BY <1>2, <1>7 DEF Inv, TypeOK, OwnContext
  <2>3. \A f, g \in Fds : conn'[f] = conn'[g] /\ conn'[f] # None => f = g
    BY <1>7 DEF Inv, OwnContext
  <2>4. \A d \in Clients : stage'[d] = "open" <=> \E f \in Fds : conn'[f] = d
    <3>1. ASSUME NEW d \in Clients, d # c
          PROVE  stage'[d] = "open" <=> \E f \in Fds : conn'[f] = d
      <4>1. d # None /\ conn[fd] # d /\ stage'[d] = stage[d]
        BY <3>1, <1>2, EventLoopAssumption DEF Inv, TypeOK, c
      <4> QED
        BY <4>1, <1>7 DEF Inv, OwnContext
    <3>2. stage'[c] # "open" /\ ~ \E f \in Fds : conn'[f] = c
      BY <1>1, <1>2, <1>7 DEF Inv, TypeOK, OwnContext, c
    <3> QED
      BY <3>1, <3>2
  <2> QED
    BY <2>1, <2>2, <2>3, <2>4 DEF OwnContext
<1>9. AllWatched'
  <2>1. mech # "devpoll" \/ ~ Faults => watched' = {f \in Fds : conn'[f] # None}
    <3>1. mech # "devpoll" \/ ~ Faults => watched = {f \in Fds : conn[f] # None}
      BY DEF Inv, AllWatched
    <3> QED
      BY <3>1, <1>3, <1>7
  <2>2. Tabled => watched' = watched \ {fd}
    BY <1>3 DEF Tabled, Scanning
  <2>3. Tabled =>
           /\ \A f \in watched' : \E k \in Used' : k <= maxi' /\ slot'[k] = f
           /\ \A j, k \in Used' : slot'[j] = slot'[k] /\ slot'[j] # None => j = k
           /\ \A k \in Used' : slot'[k] \in watched' \/ (Scanning /\ slot'[k] = None)
    BY <1>1, <2>2, TableAfterRelease
  <2> QED
    BY <2>1, <2>3, <1>2, <1>4, Zenon DEF AllWatched
<1> QED
  BY <1>6, <1>8, <1>9 DEF Inv

(* An event that ends a connection.                                        *)
LEMMA InvEnd ==
  ASSUME Inv, NEW e \in Events, End(e)
  PROVE  Inv'
<1>1. PICK w \in Unwatched(e[1]) : Release(e[1], w)
  BY DEF End
<1>2. e[1] \in DOMAIN ctx /\ RoundOK' /\ pc # "over"
  BY RoundAfterEvent DEF End, Handle
<1> QED
  BY <1>1, <1>2, InvRelease

(* A descriptor that is taken off /dev/poll.                               *)
LEMMA InvForget ==
  ASSUME Inv, NEW e \in Events, Forget(e)
  PROVE  Inv'
<1>1. RoundOK' /\ pc # "over"
  BY RoundAfterEvent DEF Forget, Handle
<1>2. PICK w \in Unwatched(e[1]) :
         IF e[1] \in DOMAIN ctx
         THEN Release(e[1], w)
         ELSE /\ watched' = w
              /\ UNCHANGED <<stage, ready, left, conn, ctx, slot, maxi, env>>
  BY DEF Forget
<1>3. CASE e[1] \in DOMAIN ctx
  BY <1>1, <1>2, <1>3, InvRelease
<1>4. CASE e[1] \notin DOMAIN ctx
  <2>1. /\ UNCHANGED <<conn, ctx, slot, maxi, mech, knock, intr, left, stage, ready>>
        /\ watched' = w
    BY <1>2, <1>4 DEF env
  <2>2. w = watched \ {e[1]} \/ (mech = "devpoll" /\ Faults /\ w = watched)
    BY UnwatchedFacts
  <2>3. e[1] \in Fds /\ conn[e[1]] = None
    BY <1>4 DEF Events, Inv, OwnContext
  <2>4. Slots' = Slots /\ Scanning' = Scanning /\ Tabled' = Tabled /\ Used' = Used
    BY <2>1 DEF Slots, Scanning, Tabled, Used
  <2>5. TypeOK'
    BY <1>1, <2>1, <2>2, <2>4 DEF Inv, TypeOK, RoundOK, Events
  <2>6. OwnContext'
    BY <2>1 DEF Inv, OwnContext
  <2>7. AllWatched'
    <3>1. mech # "devpoll" \/ ~ Faults => watched' = watched
      BY <2>1, <2>2, <2>3, <1>1 DEF Inv, AllWatched
    <3>2. Tabled => mech # "devpoll"
      BY DEF Tabled, Scanning
    <3> QED
      BY <1>1, <2>1, <2>4, <3>1, <3>2 DEF Inv, AllWatched
  <2> QED
    BY <2>5, <2>6, <2>7 DEF Inv
<1> QED
  BY <1>3, <1>4

(* WSAEventSelect_loop returns.                                            *)
LEMMA InvGiveUp ==
  ASSUME Inv, GiveUp
  PROVE  Inv'
<1>1. /\ UNCHANGED <<left, conn, ctx, slot, at, readyNum, mech, knock, intr>>
      /\ pc' = "over" /\ reported' = {} /\ watched' = {} /\ maxi' = -1
  BY DEF GiveUp, env
<1>2. /\ stage' \in [Clients -> {"new", "waiting", "open", "ended", "refused", "gone"}]
      /\ \A d \in Clients : stage'[d] = "open" <=> stage[d] = "open"
      /\ ready' \subseteq Clients
  BY DEF GiveUp, Waiting, Inv, TypeOK
<1>3. Slots' = Slots
  BY <1>1 DEF Slots
<1>4. TypeOK'
  BY <1>1, <1>2, <1>3 DEF Inv, TypeOK, Events
<1>5. OwnContext'
  BY <1>1, <1>2 DEF Inv, OwnContext
<1>6. AllWatched'
  BY <1>1 DEF AllWatched
<1> QED
  BY <1>4, <1>5, <1>6 DEF Inv

-----------------------------------------------------------------------------
(* The theorems.                                                           *)

(* The invariant holds always.                                             *)
THEOREM Invariance == SafetySpec => []Inv
<1>1. Inv /\ [Next]_vars => Inv'
  <2> SUFFICES ASSUME Inv, [Next]_vars PROVE Inv'
    OBVIOUS
  <2>1. CASE \E c \in Clients : Connect(c) \/ Abort(c) \/ Arrive(c)
    BY <2>1, InvClients
  <2>2. CASE Wait \/ WaitFails \/ NobodyKnocks \/ ScanEnd
    BY <2>2, InvWait
  <2>3. CASE AcceptFails \/ \E c \in Clients : Refuse(c)
    BY <2>3, InvRefuse
  <2>4. CASE \E c \in Clients : Accept(c)
    BY <2>4, InvAccept
  <2>5. CASE \E e \in Events : Serve(e) \/ SkipEnded(e)
    BY <2>5, InvServe
  <2>6. CASE \E e \in Events : Forget(e)
    BY <2>6, InvForget
  <2>7. CASE \E e \in Events : End(e)
    BY <2>7, InvEnd
  <2>8. CASE GiveUp
    BY <2>8, InvGiveUp
  <2>9. CASE UNCHANGED vars
    BY <2>9, InvFrame DEF vars, env, Inv, TypeOK, RoundOK, Events
  <2> QED
    BY <2>1, <2>2, <2>3, <2>4, <2>5, <2>6, <2>7, <2>8, <2>9, Zenon DEF Next, ServerStep
<1> QED
  BY <1>1, InvInit, PTL DEF SafetySpec

(* For every number of clients, descriptors and slots: indices stay inside *)
(* the tables, and only descriptors of the process are used.               *)
THEOREM TypeCorrect == SafetySpec => []TypeOK
BY Invariance, PTL DEF Inv

(* The kernel gives a descriptor out again as soon as it is closed, yet    *)
(* no connection ever finds the context of another.                        *)
THEOREM ContextsOwned == SafetySpec => []OwnContext
BY Invariance, PTL DEF Inv

(* No loop forgets a connection: the kernel is asked about each, and the   *)
(* scan of poll and select reaches its slot.                               *)
THEOREM NoneForgotten == SafetySpec => []AllWatched
BY Invariance, PTL DEF Inv

-----------------------------------------------------------------------------
(* The rounds of poll and select.                                          *)

\* ready_num is what the wait returned until the scan begins, and never less than
\* the events that the scan has before it; below zero the wait failed.
RoundInv ==
    /\ pc \in {"listen", "scan"} => Scanning
    /\ pc \in {"batch", "again"} => ~ Scanning
    /\ pc = "listen" /\ readyNum >= 0 => readyNum = Cardinality(reported)
    /\ pc = "scan" /\ readyNum >= 0 => IsFiniteSet(Hits) /\ Cardinality(Hits) <= readyNum

\* The indices at which a scan of the table s stops, from a to m.
HitsIn(I, s, R, a, m) == {i \in I : a <= i /\ i <= m /\ <<s[i], "read">> \in R}

(* When no two entries of the table are the same the scan stops no more    *)
(* often than connections are reported.                                    *)
LEMMA HitsCounted ==
  ASSUME NEW I, NEW s, NEW R, NEW a, NEW m, IsFiniteSet(R),
         \A i \in I : s[i] \in Fds \cup {None},
         \A i, j \in I : s[i] = s[j] /\ s[i] # None => i = j,
         <<None, "read">> \notin R
  PROVE  /\ IsFiniteSet(HitsIn(I, s, R, a, m))
         /\ Cardinality(HitsIn(I, s, R, a, m)) <= Cardinality(R \ {Knock})
<1> DEFINE H == HitsIn(I, s, R, a, m)
           T == R \ {Knock}
           g == [i \in H |-> <<s[i], "read">>]
<1>1. IsFiniteSet(T)
  BY FS_RemoveElement
<1>2. ASSUME NEW i \in H PROVE g[i] \in T
  BY EventLoopAssumption DEF Knock, HitsIn
<1>3. ASSUME NEW i \in H, NEW j \in H, g[i] = g[j] PROVE i = j
  <2>1. s[i] = s[j] /\ s[i] # None
    BY <1>3 DEF HitsIn
  <2> QED
    BY <2>1 DEF HitsIn
<1>4. g \in Injection(H, T)
  <2>1. g \in [H -> T]
    BY <1>2
  <2> QED
    BY <2>1, <1>3 DEF Injection, IsInjective
<1> HIDE DEF H, T, g
<1>5. IsFiniteSet(H) /\ Cardinality(H) <= Cardinality(T)
  BY <1>1, <1>4, FS_Injection
<1> QED
  BY <1>5 DEF H, T

(* The scan of poll and select that begins with the next step.             *)
LEMMA HitsOfRound ==
  ASSUME Inv', Scanning', pc' # "over"
  PROVE  /\ IsFiniteSet(reported') /\ IsFiniteSet(Hits')
         /\ Cardinality(Hits') <= Cardinality(reported' \ {Knock})
<1>1. IsFiniteSet(reported')
  <2>1. reported' \subseteq Events \cup {Knock}
    BY DEF Inv, TypeOK, Events, Knock
  <2> QED
    BY <2>1, EventsFinite, FS_Subset
<1>2. \A i \in Slots' : slot'[i] \in Fds \cup {None}
  BY DEF Inv, TypeOK
<1>3. \A i, j \in Slots' : slot'[i] = slot'[j] /\ slot'[i] # None => i = j
  BY DEF Inv, AllWatched, Tabled, Used, Scanning
<1>4. <<None, "read">> \notin reported'
  BY EventLoopAssumption DEF Inv, TypeOK, Events, Knock
<1>5. Hits' = HitsIn(Slots', slot', reported', at', maxi')
  BY DEF Hits, HitsIn
<1>6. /\ IsFiniteSet(HitsIn(Slots', slot', reported', at', maxi'))
      /\ Cardinality(HitsIn(Slots', slot', reported', at', maxi'))
           <= Cardinality(reported' \ {Knock})
  BY <1>1, <1>2, <1>3, <1>4, HitsCounted
<1> QED
  BY <1>1, <1>5, <1>6

(* What is reported of a connection is reported of an entry before the     *)
(* end of the table.                                                       *)
LEMMA HitsBelowEnd ==
  ASSUME Inv, Scanning, pc # "over", NEW i \in Slots, <<slot[i], "read">> \in reported
  PROVE  i <= maxi
<1>1. slot[i] # None
  BY EventLoopAssumption DEF Inv, TypeOK, Events, Knock
<1>2. i \in Used /\ Used = Slots /\ Tabled
  BY DEF Used, Tabled, Scanning
<1>3. slot[i] \in watched
  BY <1>1, <1>2 DEF Inv, AllWatched
<1>4. PICK j \in Used : j <= maxi /\ slot[j] = slot[i]
  BY <1>2, <1>3 DEF Inv, AllWatched
<1>5. i = j
  BY <1>1, <1>2, <1>4 DEF Inv, AllWatched
<1> QED
  BY <1>4, <1>5

(* An event that is dealt with is counted and is not before the scan any   *)
(* more.                                                                   *)
LEMMA HitsLess ==
  ASSUME Inv, RoundInv, pc = "scan", readyNum >= 0, NEW e, Handle(e),
         UNCHANGED <<maxi, mech>>,
         \A i \in Slots : slot'[i] = slot[i] \/ slot'[i] = None
  PROVE  /\ IsFiniteSet(Hits') /\ Cardinality(Hits') <= readyNum'
         /\ readyNum' = 0 => Hits = {Lowest(Hits)}
<1> DEFINE low == Lowest(Hits)
<1>1. /\ Hits # {} /\ at' = low + 1 /\ readyNum' = readyNum - 1
      /\ UNCHANGED reported
  BY DEF Handle
<1>2. IsFiniteSet(Hits) /\ Cardinality(Hits) <= readyNum
  BY DEF RoundInv
<1>3. low \in Hits /\ \A y \in Hits : low <= y
  <2>1. Hits \subseteq Nat
    BY SlotFacts DEF Hits
  <2> QED
    BY <1>1, <2>1, LowestFacts
<1>4. Hits' \subseteq Hits \ {low}
  <2> SUFFICES ASSUME NEW i \in Hits' PROVE i \in Hits /\ i # low
    OBVIOUS
  <2>1. /\ i \in Slots /\ at' <= i /\ i <= maxi
        /\ <<slot'[i], "read">> \in reported
    BY <1>1 DEF Hits, Slots
  <2>2. slot'[i] = slot[i]
    <3>1. slot'[i] # None
      BY <2>1, EventLoopAssumption DEF Inv, TypeOK, Events, Knock
    <3> QED
      BY <2>1, <3>1
  <2>3. i \in Nat /\ low \in Nat /\ at \in Nat /\ at <= low
    BY <1>3, <2>1, SlotFacts DEF Hits, Inv, TypeOK
  <2>4. at <= i /\ i # low
    BY ONLY <1>1, <2>1, <2>3
  <2> QED
    BY <2>1, <2>2, <2>4 DEF Hits
<1>5. /\ IsFiniteSet(Hits \ {low})
      /\ Cardinality(Hits \ {low}) = Cardinality(Hits) - 1
  BY <1>2, <1>3, FS_RemoveElement
<1>6. /\ IsFiniteSet(Hits')
      /\ Cardinality(Hits') <= Cardinality(Hits) - 1
  BY <1>4, <1>5, FS_Subset
<1>7. /\ Cardinality(Hits) \in Nat /\ Cardinality(Hits') \in Nat
      /\ readyNum \in Int
  BY <1>2, <1>6, FS_CardinalityType DEF Inv, TypeOK
<1>8. Cardinality(Hits') <= readyNum'
  BY ONLY <1>1, <1>2, <1>6, <1>7
<1>9. ASSUME readyNum' = 0 PROVE Hits = {low}
  <2>1. Cardinality(Hits) - 1 = 0
    BY ONLY <1>1, <1>2, <1>6, <1>7, <1>9
  <2>2. Hits \ {low} = {}
    BY <1>5, <2>1, FS_EmptySet
  <2> QED
    BY <1>3, <2>2
<1> QED
  BY <1>6, <1>8, <1>9

-----------------------------------------------------------------------------
(* Every step keeps the count of the round.                                *)

(* A step that leaves the round alone.                                     *)
LEMMA RoundFrame ==
  ASSUME RoundInv, UNCHANGED <<slot, maxi, at, reported, readyNum, pc, mech>>
  PROVE  RoundInv'
<1>1. Hits' = Hits /\ Scanning' = Scanning
  BY DEF Hits, Slots, Scanning
<1> QED
  BY <1>1 DEF RoundInv

(* A step after which no round is under way.                               *)
LEMMA RoundEnded ==
  ASSUME pc' \in {"wait", "over"}
  PROVE  RoundInv'
BY DEF RoundInv

(* A step of the loops that take events one by one.                        *)
LEMMA RoundOfBatch ==
  ASSUME ~ Scanning, mech' = mech, pc' \in {"wait", "batch", "again"}
  PROVE  RoundInv'
BY DEF RoundInv, Scanning

(* Waiting.                                                                *)
LEMMA RoundWait == ASSUME Wait \/ WaitFails PROVE RoundInv'
<1>1. CASE Wait
  BY <1>1 DEF Wait, RoundInv, Scanning
<1>2. CASE WaitFails
  BY <1>2 DEF WaitFails, RoundInv, Scanning
<1> QED
  BY <1>1, <1>2

(* The listener.                                                           *)
LEMMA RoundListener ==
  ASSUME Inv, Inv', RoundInv,
         AcceptFails \/ NobodyKnocks \/ \E c \in Clients : Refuse(c) \/ Accept(c)
  PROVE  RoundInv'
<1>1. CASE ~ Scanning
  <2>1. ~ NobodyKnocks
    BY <1>1 DEF NobodyKnocks, RoundInv
  <2>2. mech' = mech /\ pc' \in {"wait", "batch", "again"}
    <3>1. CASE AcceptFails
      BY <1>1, <3>1 DEF AcceptFails, Accepted, env
    <3>2. ASSUME NEW c \in Clients, Refuse(c) PROVE mech' = mech /\ pc' \in {"wait", "batch"}
      BY <1>1, <3>2 DEF Refuse, Accepted, env
    <3>3. ASSUME NEW c \in Clients, Accept(c) PROVE mech' = mech /\ pc' \in {"wait", "batch"}
      BY <1>1, <3>3 DEF Accept, Accepted, env
    <3> QED
      BY <2>1, <3>1, <3>2, <3>3
  <2> QED
    BY <1>1, <2>2, RoundOfBatch
<1>2. CASE Scanning /\ (AcceptFails \/ \E c \in Clients : Refuse(c))
  <2>1. pc' = "wait"
    BY <1>2 DEF AcceptFails, Refuse, Accepted
  <2> QED
    BY <2>1, RoundEnded
<1>3. CASE Scanning /\ NobodyKnocks
  <2>1. /\ pc = "listen" /\ pc' = "scan" /\ Knock \notin reported
        /\ UNCHANGED <<reported, readyNum, mech>>
    BY <1>3 DEF NobodyKnocks, env
  <2>2. Scanning'
    BY <1>3, <2>1 DEF Scanning
  <2>3. IsFiniteSet(Hits') /\ Cardinality(Hits') <= Cardinality(reported' \ {Knock})
    BY <2>1, <2>2, HitsOfRound
  <2>4. reported' \ {Knock} = reported
    BY <2>1
  <2>5. readyNum >= 0 => readyNum = Cardinality(reported)
    BY <2>1 DEF RoundInv
  <2> QED
    BY <2>1, <2>2, <2>3, <2>4, <2>5 DEF RoundInv
<1>4. CASE Scanning /\ \E c \in Clients : Accept(c)
  <2>1. PICK c \in Clients : Accept(c)
    BY <1>4
  <2>2. PICK fd : Accepted(TRUE, {<<fd, "read">>})
    BY <2>1 DEF Accept
  <2>3. /\ mech' = mech /\ Knock \in reported /\ pc \in {"listen", "batch"}
        /\ readyNum' = readyNum - 1 /\ reported' = reported \ {<<fd, "read">>}
        /\ pc' \in {"scan", "wait"}
    BY <1>4, <2>1, <2>2 DEF Accept, Accepted, MayAccept, env
  <2>4. CASE pc' = "wait"
    BY <2>4, RoundEnded
  <2>5. CASE pc' = "scan" /\ readyNum' >= 0
    <3>1. Scanning' /\ pc = "listen"
      BY <1>4, <2>3 DEF Scanning, RoundInv
    <3>2. /\ IsFiniteSet(Hits') /\ IsFiniteSet(reported')
          /\ Cardinality(Hits') <= Cardinality(reported' \ {Knock})
      BY <2>5, <3>1, HitsOfRound
    <3>3. readyNum \in Int /\ IsFiniteSet(reported)
      BY EventsFinite, FS_Subset DEF Inv, TypeOK
    <3>4. readyNum >= 0
      BY <2>3, <2>5, <3>3
    <3>5. readyNum = Cardinality(reported)
      BY <3>1, <3>4 DEF RoundInv
    <3>6. /\ IsFiniteSet(reported \ {Knock})
          /\ Cardinality(reported \ {Knock}) = Cardinality(reported) - 1
      BY <2>3, <3>3, FS_RemoveElement
    <3>7. Cardinality(reported' \ {Knock}) <= Cardinality(reported \ {Knock})
      <4>1. reported' \ {Knock} \subseteq reported \ {Knock}
        BY <2>3
      <4> QED
        BY <3>6, <4>1, FS_Subset
    <3>8. /\ Cardinality(Hits') \in Nat /\ Cardinality(reported) \in Nat
          /\ Cardinality(reported' \ {Knock}) \in Nat
      BY <3>2, <3>3, FS_CardinalityType, FS_RemoveElement
    <3>9. Cardinality(Hits') <= readyNum'
      BY ONLY <2>3, <3>2, <3>5, <3>6, <3>7, <3>8
    <3> QED
      BY <2>5, <3>1, <3>2, <3>9 DEF RoundInv
  <2>6. CASE pc' = "scan" /\ ~ (readyNum' >= 0)
    BY <1>4, <2>3, <2>6 DEF RoundInv, Scanning
  <2> QED
    BY <2>3, <2>4, <2>5, <2>6, Zenon
<1> QED
  BY <1>1, <1>2, <1>3, <1>4, Zenon

(* What the scan of poll and select does with an event.                    *)
LEMMA ScanStep ==
  ASSUME Inv, RoundInv, Scanning, NEW e \in Events,
         Serve(e) \/ End(e) \/ SkipEnded(e) \/ Forget(e)
  PROVE  /\ pc = "scan" /\ Handle(e) /\ UNCHANGED <<maxi, mech>>
         /\ \A i \in Slots : slot'[i] = slot[i] \/ slot'[i] = None
<1>1. pc \notin {"batch", "again"}
  BY DEF RoundInv
<1>2. Handle(e)
  BY <1>1 DEF Serve, End, SkipEnded, Forget, Repeat
<1>3. pc = "scan"
  BY <1>1, <1>2 DEF Handle
<1>4. ASSUME NEW fd, NEW w, Release(fd, w)
      PROVE  /\ UNCHANGED <<maxi, mech>>
             /\ \A i \in Slots : slot'[i] = slot[i] \/ slot'[i] = None
  BY <1>4 DEF Release, Vacated, Scanning, env
<1>5. CASE Serve(e) \/ SkipEnded(e)
  BY <1>2, <1>3, <1>5 DEF Serve, SkipEnded, env
<1>6. CASE End(e)
  <2>1. PICK w : Release(e[1], w)
    BY <1>6 DEF End
  <2> QED
    BY <1>2, <1>3, <1>4, <2>1
<1>7. CASE Forget(e)
  <2>1. PICK w : \/ Release(e[1], w)
                 \/ UNCHANGED <<stage, ready, left, conn, ctx, slot, maxi, env>>
    BY <1>7 DEF Forget
  <2>2. CASE Release(e[1], w)
    BY <1>2, <1>3, <1>4, <2>2
  <2>3. CASE UNCHANGED <<stage, ready, left, conn, ctx, slot, maxi, env>>
    BY <1>2, <1>3, <2>3 DEF env
  <2> QED
    BY <2>1, <2>2, <2>3
<1> QED
  BY <1>5, <1>6, <1>7

(* An event of a connection.                                               *)
LEMMA RoundEvent ==
  ASSUME Inv, RoundInv, NEW e \in Events,
         Serve(e) \/ End(e) \/ SkipEnded(e) \/ Forget(e)
  PROVE  RoundInv'
<1>1. CASE Scanning
  <2>1. /\ pc = "scan" /\ Handle(e) /\ UNCHANGED <<maxi, mech>>
        /\ \A i \in Slots : slot'[i] = slot[i] \/ slot'[i] = None
    BY <1>1, ScanStep
  <2>2. /\ readyNum' = readyNum - 1 /\ readyNum \in Int /\ pc' \in {"wait", "scan"}
        /\ Scanning'
    BY <1>1, <2>1 DEF Handle, Scanning, Inv, TypeOK
  <2>3. CASE readyNum' >= 0
    <3>1. readyNum >= 0
      BY ONLY <2>2, <2>3
    <3>2. IsFiniteSet(Hits') /\ Cardinality(Hits') <= readyNum'
      BY <2>1, <3>1, HitsLess
    <3> QED
      BY <2>2, <3>2 DEF RoundInv
  <2>4. CASE ~ (readyNum' >= 0)
    BY <2>2, <2>4 DEF RoundInv
  <2> QED
    BY <2>3, <2>4
<1>2. CASE ~ Scanning
  <2>1. pc # "scan"
    BY <1>2 DEF RoundInv
  <2>2. pc' \in {"wait", "batch", "again"}
    BY <2>1 DEF Serve, End, SkipEnded, Forget, Repeat, Handle
  <2>3. mech' = mech
    BY DEF Serve, End, SkipEnded, Forget, Release, env
  <2> QED
    BY <1>2, <2>2, <2>3, RoundOfBatch
<1> QED
  BY <1>1, <1>2

(* Every step of the program.                                              *)
LEMMA RoundStep == Inv /\ Inv' /\ RoundInv /\ [Next]_vars => RoundInv'
<1> SUFFICES ASSUME Inv, Inv', RoundInv, [Next]_vars PROVE RoundInv'
  OBVIOUS
<1>1. CASE \E c \in Clients : Connect(c) \/ Abort(c) \/ Arrive(c)
  BY <1>1, RoundFrame DEF Connect, Abort, Arrive, env
<1>2. CASE Wait \/ WaitFails
  BY <1>2, RoundWait
<1>3. CASE AcceptFails \/ NobodyKnocks \/ \E c \in Clients : Refuse(c) \/ Accept(c)
  BY <1>3, RoundListener
<1>4. CASE ScanEnd \/ GiveUp
  BY <1>4, RoundEnded DEF ScanEnd, GiveUp
<1>5. CASE \E e \in Events : Serve(e) \/ End(e) \/ SkipEnded(e) \/ Forget(e)
  BY <1>5, RoundEvent
<1>6. CASE UNCHANGED vars
  BY <1>6, RoundFrame DEF vars, env
<1> QED
  BY <1>1, <1>2, <1>3, <1>4, <1>5, <1>6, Zenon DEF Next, ServerStep

\* What WholeRound says of a step.
Whole ==
    RoundEnds /\ readyNum' >= 0 =>
        \A i \in Slots : at' <= i => <<slot[i], "read">> \notin reported

(* When the round ends with an accept its client was the only event.       *)
LEMMA WholeAccept ==
  ASSUME Inv, RoundInv, pc = "listen", pc' = "wait", readyNum' >= 0,
         NEW c \in Clients, Accept(c)
  PROVE  \A i \in Slots : <<slot[i], "read">> \notin reported
<1>1. Scanning
  BY DEF RoundInv
<1>2. Knock \in reported /\ readyNum' = readyNum - 1 /\ ~ (readyNum' > 0)
  BY <1>1 DEF Accept, Accepted, MayAccept
<1>3. readyNum \in Int /\ IsFiniteSet(reported)
  BY EventsFinite, FS_Subset DEF Inv, TypeOK
<1>4. readyNum = 1
  BY ONLY <1>2, <1>3, readyNum' >= 0
<1>5. Cardinality(reported) = 1
  BY <1>4 DEF RoundInv
<1>6. /\ IsFiniteSet(reported \ {Knock})
      /\ Cardinality(reported \ {Knock}) = Cardinality(reported) - 1
  BY <1>2, <1>3, FS_RemoveElement
<1>7. reported \ {Knock} = {}
  BY <1>5, <1>6, FS_EmptySet
<1>8. ASSUME NEW i \in Slots PROVE <<slot[i], "read">> # Knock
  BY EventLoopAssumption DEF Inv, TypeOK, Knock
<1> QED
  BY <1>7, <1>8

(* A scan that ends leaves no connection behind.                           *)
LEMMA WholeScan ==
  ASSUME Inv, RoundInv, [Next]_vars, pc = "scan", pc' = "wait", readyNum' >= 0
  PROVE  \A i \in Slots : at' <= i => <<slot[i], "read">> \notin reported
<1> SUFFICES ASSUME NEW i \in Slots, at' <= i, <<slot[i], "read">> \in reported
             PROVE  FALSE
  OBVIOUS
<1>1. Scanning /\ i <= maxi
  <2>1. Scanning
    BY DEF RoundInv
  <2> QED
    BY <2>1, HitsBelowEnd
<1>2. ScanEnd \/ \E e \in Events : Serve(e) \/ End(e) \/ SkipEnded(e) \/ Forget(e)
  BY DEF Next, ServerStep, vars, env, Connect, Abort, Arrive, Wait, WaitFails, AcceptFails,
         NobodyKnocks, GiveUp, Refuse, Accept, MayAccept
<1>3. CASE ScanEnd
  <2>1. Hits = {} /\ at' = at
    BY <1>3 DEF ScanEnd
  <2> QED
    BY <1>1, <2>1 DEF Hits
<1>4. ASSUME NEW e \in Events, Serve(e) \/ End(e) \/ SkipEnded(e) \/ Forget(e)
      PROVE  FALSE
  <2>1. /\ Handle(e) /\ UNCHANGED <<maxi, mech>>
        /\ \A k \in Slots : slot'[k] = slot[k] \/ slot'[k] = None
    BY <1>1, <1>4, ScanStep
  <2>2. /\ readyNum' = readyNum - 1 /\ readyNum \in Int /\ readyNum' <= 0
        /\ at' = Lowest(Hits) + 1
    BY <2>1 DEF Handle, RoundOver, Inv, TypeOK
  <2>3. readyNum >= 0 /\ readyNum' = 0
    BY ONLY <2>2, readyNum' >= 0
  <2>4. Hits = {Lowest(Hits)}
    BY <2>1, <2>3, HitsLess
  <2>5. at \in Nat /\ i \in Nat /\ Lowest(Hits) \in Nat /\ at <= Lowest(Hits)
    BY <2>4, SlotFacts DEF Hits, Inv, TypeOK
  <2>6. at <= i /\ i # Lowest(Hits)
    BY ONLY <2>2, <2>5, at' <= i
  <2>7. i \in Hits
    BY <1>1, <2>6 DEF Hits
  <2> QED
    BY <2>4, <2>6, <2>7
<1> QED
  BY <1>2, <1>3, <1>4

(* A round that ends leaves no connection behind.                          *)
LEMMA WholeStep == Inv /\ RoundInv /\ [Next]_vars => Whole
<1> SUFFICES ASSUME Inv, RoundInv, [Next]_vars, RoundEnds, readyNum' >= 0
             PROVE  \A i \in Slots : at' <= i => <<slot[i], "read">> \notin reported
  BY DEF Whole
<1>1. CASE pc = "scan"
  BY <1>1, WholeScan DEF RoundEnds
<1>2. CASE pc = "listen" /\ conn' # conn
  <2>1. \E c \in Clients : Accept(c)
    BY <1>2 DEF RoundInv, Next, ServerStep, vars, env, Connect, Abort, Arrive, Wait, WaitFails,
       AcceptFails, NobodyKnocks, ScanEnd, GiveUp, Refuse, Serve, End, SkipEnded, Forget,
       Handle, Repeat
  <2> QED
    BY <1>2, <2>1, WholeAccept DEF RoundEnds
<1> QED
  BY <1>1, <1>2 DEF RoundEnds

(* A round of poll or select that comes to its end, after a wait that      *)
(* succeeded, has served every connection it was told of, although the     *)
(* loop stops by counting and a new connection may take a slot or a        *)
(* descriptor before the scan.  A round whose accept fails, or that turns  *)
(* a client away, stops before its scan: of those nothing is said.         *)
THEOREM RoundsWhole == SafetySpec => WholeRound
<1>1. Init => RoundInv
  BY DEF Init, RoundInv
<1>2. Inv /\ RoundInv /\ [Next]_vars => [Whole]_vars
  BY WholeStep
<1> QED
  BY <1>1, <1>2, RoundStep, Invariance, PTL DEF SafetySpec, WholeRound, Whole

-----------------------------------------------------------------------------
(* The events of a batch.                                                  *)

\* But for kqueue, a batch has one event of a descriptor; and unless that says that it
\* was closed, the descriptor stays open until the loop comes to it.
BatchInv ==
    pc \in {"batch", "again"} /\ mech # "kqueue" =>
        /\ \A d, e \in reported : d[1] = e[1] => d = e
        /\ \A e \in reported \ {Knock} : e[2] # "closed" => conn[e[1]] # None

(* What is reported.                                                       *)
LEMMA BatchWait ==
  ASSUME Inv, Wait
  PROVE  BatchInv'
<1> SUFFICES ASSUME ~ Scanning, mech # "kqueue"
             PROVE  /\ \A d, e \in reported' : d[1] = e[1] => d = e
                    /\ \A e \in reported' \ {Knock} : e[2] # "closed" => conn'[e[1]] # None
  BY DEF Wait, BatchInv, Knock
<1>1. conn' = conn /\ ready \subseteq Clients /\ watched \subseteq Fds
  BY DEF Wait, Inv, TypeOK
<1>2. None \notin Clients /\ ListenFd \notin Fds
  BY EventLoopAssumption
<1>3. CASE mech = "WSAEvent"
  <2>1. reported' \in First
    BY <1>3 DEF Wait
  <2>2. CASE reported' = {Knock}
    BY <2>2
  <2>3. CASE Signaled # {} /\ \E f \in {"read", "fin"} :
               reported' = {<<slot[Lowest(Signaled)], f>>}
    <3>1. Lowest(Signaled) \in Signaled
      BY <2>3, LowestFacts, SlotFacts DEF Signaled
    <3>2. conn[slot[Lowest(Signaled)]] # None
      BY <1>1, <1>2, <3>1 DEF Signaled
    <3> QED
      BY <1>1, <2>3, <3>2
  <2> QED
    BY <2>1, <2>2, <2>3 DEF First
<1>4. CASE mech # "WSAEvent"
  <2>1. reported' = Happened
    BY <1>4 DEF Wait, MayHappen
  <2>2. ASSUME NEW e \in Happened
        PROVE  \/ e = Knock
               \/ e[1] \in Fds /\ e = <<e[1], "read">> /\ conn[e[1]] # None
               \/ e[1] \in Fds /\ e = <<e[1], "closed">> /\ conn[e[1]] = None
    BY <1>1, <1>2, <2>2 DEF Happened
  <2>3. ASSUME NEW d \in Happened, NEW e \in Happened, d[1] = e[1]
        PROVE  d = e
    BY <1>2, <2>2, <2>3 DEF Knock
  <2> QED
    BY <1>1, <2>1, <2>2, <2>3
<1> QED
  BY <1>3, <1>4

(* Events that are still there.                                            *)
LEMMA BatchShrinks ==
  ASSUME BatchInv, reported' \subseteq reported, mech' = mech,
         pc' \in {"batch", "again"} => pc \in {"batch", "again"},
         \A e \in reported' \ {Knock} : conn[e[1]] # None => conn'[e[1]] # None
  PROVE  BatchInv'
BY DEF BatchInv, Knock

(* Only the connection whose event is dealt with can end.                  *)
LEMMA BatchEvent ==
  ASSUME Inv, BatchInv, RoundInv, NEW e \in Events,
         Serve(e) \/ End(e) \/ SkipEnded(e) \/ Forget(e)
  PROVE  BatchInv'
<1>1. CASE pc = "scan"
  BY <1>1 DEF Serve, End, SkipEnded, Forget, Handle, Repeat, BatchInv
<1>2. CASE pc \in {"batch", "again"} /\ conn' = conn
  <2>1. reported' \subseteq reported /\ mech' = mech
    BY <1>2 DEF Serve, End, SkipEnded, Forget, Handle, Repeat, Release, env
  <2> QED
    BY <1>2, <2>1, BatchShrinks
<1>3. CASE pc \in {"batch", "again"} /\ conn' # conn
  <2>1. /\ Handle(e) /\ reported' = reported \ {e} /\ e \in reported
        /\ \E w : Release(e[1], w)
    BY <1>3 DEF Serve, End, SkipEnded, Forget, Handle
  <2>2. mech' = mech /\ conn' = [conn EXCEPT ![e[1]] = None]
    BY <2>1 DEF Release, Closed, env
  <2> SUFFICES ASSUME mech # "kqueue"
               PROVE  BatchInv'
    BY <2>2 DEF BatchInv
  <2>3. ASSUME NEW d \in reported' \ {Knock}, conn[d[1]] # None
        PROVE  conn'[d[1]] # None
    <3>1. d[1] # e[1]
      BY <1>3, <2>1 DEF BatchInv
    <3>2. conn \in [Fds -> Clients \cup {None}] /\ d[1] \in Fds
      BY <2>1 DEF Inv, TypeOK, Events
    <3> QED
      BY <2>2, <2>3, <3>1, <3>2
  <2> QED
    BY <1>3, <2>1, <2>2, <2>3, BatchShrinks
<1> QED
  BY <1>1, <1>2, <1>3 DEF Serve, End, SkipEnded, Forget, Handle, Repeat

(* Every step of the program.                                              *)
LEMMA BatchStep == Inv /\ RoundInv /\ BatchInv /\ [Next]_vars => BatchInv'
<1> SUFFICES ASSUME Inv, RoundInv, BatchInv, [Next]_vars PROVE BatchInv'
  OBVIOUS
<1>1. CASE \E c \in Clients : Connect(c) \/ Abort(c) \/ Arrive(c)
  BY <1>1, BatchShrinks DEF Connect, Abort, Arrive, env
<1>2. CASE Wait
  BY <1>2, BatchWait
<1>3. CASE WaitFails \/ NobodyKnocks \/ ScanEnd \/ GiveUp
  BY <1>3 DEF WaitFails, NobodyKnocks, ScanEnd, GiveUp, BatchInv
<1>4. CASE AcceptFails \/ \E c \in Clients : Refuse(c)
  <2>1. mech' = mech /\ conn' = conn /\ Accepted(FALSE, {}) /\ pc \in {"listen", "batch"}
    BY <1>4 DEF AcceptFails, Refuse, MayAccept, env
  <2>2. reported' \subseteq reported /\ (Scanning => pc' = "wait")
    BY <2>1 DEF Accepted
  <2>3. ~ Scanning => pc = "batch"
    BY <2>1 DEF RoundInv
  <2> QED
    BY <2>1, <2>2, <2>3, BatchShrinks
<1>5. ASSUME NEW c \in Clients, Accept(c) PROVE BatchInv'
  <2>1. PICK fd : /\ fd = Lowest(FreeFds) /\ FreeFds # {}
                  /\ Accepted(TRUE, {<<fd, "read">>})
                  /\ conn' = [conn EXCEPT ![fd] = c]
    BY <1>5 DEF Accept
  <2>2. mech' = mech /\ pc \in {"listen", "batch"}
    BY <1>5 DEF Accept, MayAccept, env
  <2>3. reported' \subseteq reported /\ (Scanning => pc' \in {"wait", "scan"})
    BY <2>1 DEF Accepted
  <2>4. ~ Scanning => pc = "batch"
    BY <2>2 DEF RoundInv
  <2>5. ASSUME NEW e \in reported' \ {Knock}, conn[e[1]] # None PROVE conn'[e[1]] # None
    <3>1. e[1] \in Fds /\ conn \in [Fds -> Clients \cup {None}] /\ c # None
      BY <1>5, <2>3, EventLoopAssumption DEF Inv, TypeOK, Events
    <3> QED
      BY <2>1, <2>5, <3>1
  <2> QED
    BY <2>2, <2>3, <2>4, <2>5, BatchShrinks
<1>6. CASE \E e \in Events : Serve(e) \/ End(e) \/ SkipEnded(e) \/ Forget(e)
  BY <1>6, BatchEvent
<1>7. CASE UNCHANGED vars
  BY <1>7, BatchShrinks DEF vars, env
<1> QED
  BY <1>1, <1>2, <1>3, <1>4, <1>5, <1>6, <1>7, Zenon DEF Next, ServerStep

(* What is open has a context.                                             *)
LEMMA ContextEnough == Inv /\ RoundInv /\ BatchInv => ContextFound
<1> SUFFICES ASSUME Inv, RoundInv, BatchInv PROVE ContextFound
  OBVIOUS
<1>1. ASSUME pc = "scan", NEW i \in Hits PROVE slot[i] \in DOMAIN ctx
  <2>1. Scanning /\ Tabled /\ i \in Slots /\ Used = Slots /\ mech # "devpoll"
    BY <1>1 DEF RoundInv, Tabled, Used, Scanning, Hits
  <2>2. slot[i] # None
    BY <1>1, EventLoopAssumption DEF Hits, Inv, TypeOK, Events, Knock
  <2>3. slot[i] \in watched /\ watched = {f \in Fds : conn[f] # None}
    BY <1>1, <2>1, <2>2 DEF Inv, AllWatched
  <2> QED
    BY <2>3 DEF Inv, OwnContext
<1>2. ASSUME pc \in {"batch", "again"}, mech # "kqueue",
             NEW e \in reported \ {Knock}, e[2] # "closed"
      PROVE  e[1] \in DOMAIN ctx
  <2>1. e[1] \in Fds /\ conn[e[1]] # None
    BY <1>2 DEF BatchInv, Inv, TypeOK, Events
  <2> QED
    BY <2>1 DEF Inv, OwnContext
<1> QED
  BY <1>1, <1>2 DEF ContextFound

(* The callback is called for a descriptor that is open and has a context, *)
(* whatever was ended, accepted or shifted between the wait and the call,  *)
(* and whatever failed.                                                    *)
THEOREM EventsFindContext == SafetySpec => []ContextFound
<1>1. Init => RoundInv /\ BatchInv
  BY DEF Init, RoundInv, BatchInv
<1> QED
  BY <1>1, RoundStep, BatchStep, ContextEnough, Invariance, PTL DEF SafetySpec
=============================================================================
