--------------------------- MODULE AbstractDeque ---------------------------
(***************************************************************************)
(* What deque.h promises: a sequence that grows and shrinks at both ends.  *)
(* `result` is what the last call returned.  A push may be refused, which  *)
(* changes nothing; a pop of an empty deque returns None.                  *)
(***************************************************************************)
EXTENDS Integers, Sequences

CONSTANTS Values, None

VARIABLES seq, result

Init == seq = <<>> /\ result = None

\* Only an empty deque has no buffer yet.
Create == seq = <<>> /\ result' = TRUE /\ UNCHANGED seq

PushFront(v) == seq' = <<v>> \o seq /\ result' = TRUE

PushBack(v) == seq' = Append(seq, v) /\ result' = TRUE

Refuse == result' = FALSE /\ UNCHANGED seq

PopFront ==
    /\ seq # <<>>
    /\ result' = Head(seq)
    /\ seq' = Tail(seq)

PopBack ==
    /\ seq # <<>>
    /\ result' = seq[Len(seq)]
    /\ seq' = SubSeq(seq, 1, Len(seq) - 1)

PopEmpty == seq = <<>> /\ result' = None /\ UNCHANGED seq

Delete == seq' = <<>> /\ result' = None

\* A call that only moves the contents in memory.
Rearrange == result' = None /\ UNCHANGED seq

Next ==
    \/ \E v \in Values : PushFront(v) \/ PushBack(v)
    \/ Create \/ Refuse \/ PopFront \/ PopBack \/ PopEmpty \/ Delete \/ Rearrange

Spec == Init /\ [][Next]_<<seq, result>>
=============================================================================
