-------------------------------- MODULE Deque --------------------------------
(***************************************************************************)
(* The ring buffer of deque.c.                                             *)
(*                                                                         *)
(* `base` is the deque_base_t: nnode elements in nsize slots, the first at *)
(* headidx, the next free one at tailidx.  The calls are given as operators*)
(* from one base to the next, so that a push can be a growth followed by a *)
(* write.  A slot nobody has written, or that belonged to a buffer that is *)
(* gone, holds Blank.  nsize = 0 stands for the NULL buffer.               *)
(*                                                                         *)
(* A definition whose name ends in _Bug is a slip that its successor could *)
(* have had; no specification uses it.                                     *)
(***************************************************************************)
EXTENDS Integers, Sequences

CONSTANTS DefaultSize,  (* DEFAULT_SIZE                                     *)
          MaxSize,      (* bound: slots a buffer may grow to                *)
          Values,       (* elements                                         *)
          Blank, None

ASSUME DequeAssumption ==
    /\ DefaultSize \in Nat \ {0}
    /\ MaxSize \in Nat
    /\ Blank \notin Values /\ None \notin Values

VARIABLES base, result

vars == <<base, result>>

\* A deque_base_t, its fields in the order of deque.h.
Base(b, n, size, head, tail) ==
    [buf |-> b, nnode |-> n, nsize |-> size, headidx |-> head, tailidx |-> tail]

NoBuffer == Base(<<>>, 0, 0, 0, 0)

Init == base = NoBuffer /\ result = None

\* The index after i, and before i, in a buffer of n slots.
After(i, n)  == IF i + 1 = n THEN 0 ELSE i + 1
Before(i, n) == IF i = 0 THEN n - 1 ELSE i - 1

\* The slot i places behind slot h in a buffer of n slots.
Place(h, i, n) == IF h + i < n THEN h + i ELSE h + i - n

\* The slot of the i-th element, counted from 0.
Slot(d, i) == Place(d.headidx, i, d.nsize)

\* The elements, front first.
Contents(d) == [i \in 1 .. d.nnode |-> d.buf[Slot(d, i - 1)]]

-----------------------------------------------------------------------------
\* The wrapped part stays at the start of the buffer.
Grown_Bug(d) ==
    Base([i \in 0 .. 2 * d.nsize - 1 |-> IF i < d.nsize THEN d.buf[i] ELSE Blank],
         d.nnode, 2 * d.nsize, d.headidx, d.tailidx + d.nsize)

\* deque_realloc_, called with a full buffer: the elements that had wrapped
\* are copied behind the old end.
Grown(d) ==
    Base([i \in 0 .. 2 * d.nsize - 1 |->
             IF i < d.nsize THEN d.buf[i]
             ELSE IF i - d.nsize < d.tailidx THEN d.buf[i - d.nsize]
             ELSE Blank],
         d.nnode, 2 * d.nsize, d.headidx, d.tailidx + d.nsize)

Full(d) == d.nnode >= d.nsize

\* The buffer a push writes to.
Room(d) == IF Full(d) THEN Grown(d) ELSE d

WithFront(d, v) ==
    LET h == Before(d.headidx, d.nsize)
    IN  Base([d.buf EXCEPT ![h] = v], d.nnode + 1, d.nsize, h, d.tailidx)

\* The index stays behind the end of the buffer and does not come round.
WithBack_Bug(d, v) ==
    Base([d.buf EXCEPT ![d.tailidx] = v], d.nnode + 1, d.nsize, d.headidx, d.tailidx + 1)

WithBack(d, v) ==
    Base([d.buf EXCEPT ![d.tailidx] = v], d.nnode + 1, d.nsize,
         d.headidx, After(d.tailidx, d.nsize))

WithoutFront(d) ==
    Base(d.buf, d.nnode - 1, d.nsize, After(d.headidx, d.nsize), d.tailidx)

WithoutBack(d) ==
    Base(d.buf, d.nnode - 1, d.nsize, d.headidx, Before(d.tailidx, d.nsize))

-----------------------------------------------------------------------------
(* deque_shrink_.                                                          *)

AtLeast(a, b) == IF a > b THEN a ELSE b

\* What the loop of halvings may stop at, and where it does stop.
Halvings(d) ==
    {s \in 0 .. d.nsize :
        /\ s = d.nsize \/ \E k \in 1 .. d.nsize : s = d.nsize \div 2^k
        /\ s >= AtLeast(d.nnode, DefaultSize)}

ShrunkSize(d) == CHOOSE s \in Halvings(d) : \A r \in Halvings(d) : s <= r

\* The elements up to the end of the buffer, or all if they do not wrap.
FirstPart(d) ==
    IF d.headidx < d.tailidx THEN d.nnode
    ELSE IF d.nnode # 0 THEN d.nsize - d.headidx ELSE 0

Shrunk(d) ==
    LET n == ShrunkSize(d)
        k == FirstPart(d)
    IN  Base([i \in 0 .. n - 1 |->
                 IF i < k THEN d.buf[d.headidx + i]
                 ELSE IF d.nnode > k /\ i - k < d.tailidx THEN d.buf[i - k]
                 ELSE Blank],
             d.nnode, n, 0, IF d.nnode = n THEN 0 ELSE d.nnode)

MayShrink(d) == 2 * d.nnode <= d.nsize /\ d.nsize # DefaultSize

-----------------------------------------------------------------------------
(* The calls.  malloc and realloc may fail.  All but InitDeque are for a   *)
(* deque that has been initialised.                                        *)

InitDeque ==
    \/ /\ base.nsize = 0
       /\ base' = Base([i \in 0 .. DefaultSize - 1 |-> Blank], 0, DefaultSize, 0, 0)
       /\ result' = TRUE
    \/ UNCHANGED base /\ result' = FALSE

Delete ==
    /\ base' = NoBuffer
    /\ result' = None

PushFront(v) ==
    /\ base.nsize > 0
    /\ Full(base) => 2 * base.nsize <= MaxSize
    /\ base' = WithFront(Room(base), v)
    /\ result' = TRUE

PushBack(v) ==
    /\ base.nsize > 0
    /\ Full(base) => 2 * base.nsize <= MaxSize
    /\ base' = WithBack(Room(base), v)
    /\ result' = TRUE

\* Either push, when the buffer is full and realloc fails.
PushFails ==
    /\ base.nsize > 0
    /\ Full(base)
    /\ result' = FALSE
    /\ UNCHANGED base

\* Either pop, on an empty deque.
PopEmpty ==
    /\ base.nnode = 0
    /\ result' = None
    /\ UNCHANGED base

PopFront ==
    /\ base.nnode > 0
    /\ result' = base.buf[base.headidx]
    /\ base' = WithoutFront(base)

PopBack ==
    /\ base.nnode > 0
    /\ base' = WithoutBack(base)
    /\ result' = base.buf[base'.tailidx]

\* The new size is for the statistics of the caller and not kept here.
Shrink ==
    /\ base.nsize > 0
    /\ \/ MayShrink(base) /\ base' = Shrunk(base)
       \/ UNCHANGED base
    /\ result' = None

Next ==
    \/ InitDeque \/ Delete \/ PushFails \/ PopEmpty \/ PopFront \/ PopBack \/ Shrink
    \/ \E v \in Values : PushFront(v) \/ PushBack(v)

Spec == Init /\ [][Next]_vars

-----------------------------------------------------------------------------
(* Properties.                                                             *)

\* A buffer in use: the two indices and the count agree on where the elements
\* are, and every slot between them has been written.
Valid(d) ==
    /\ d.nsize \in Nat /\ d.nsize >= DefaultSize
    /\ d.nnode \in 0 .. d.nsize
    /\ d.headidx \in 0 .. d.nsize - 1
    /\ d.buf \in [0 .. d.nsize - 1 -> Values \cup {Blank}]
    /\ d.tailidx = Slot(d, d.nnode)
    /\ \A i \in 0 .. d.nnode - 1 : d.buf[Slot(d, i)] \in Values

\* The indices never leave the buffer, whatever grows, shrinks or wraps.
TypeOK == base = NoBuffer \/ Valid(base)

AD == INSTANCE AbstractDeque WITH seq <- Contents(base)

\* Wrapping, growing, shrinking and failed allocations cannot be seen from
\* outside: the calls of deque.h behave like those on a sequence.
ImplementsSequence == AD!Spec
=============================================================================
