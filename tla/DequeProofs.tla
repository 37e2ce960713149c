---------------------------- MODULE DequeProofs ----------------------------
(***************************************************************************)
(* Theorems about Deque for every DefaultSize, every bound and every set   *)
(* of elements: the ring buffer stays valid, and it implements the         *)
(* sequence of AbstractDeque.                                              *)
(*                                                                         *)
(* The lemmas about the operators name the fields of the old base first    *)
(* and then argue about slots only; MakeValid and SameContents lead back   *)
(* from slots to bases.                                                    *)
(***************************************************************************)
EXTENDS Deque, SequenceTheorems, FiniteSetTheorems, TLAPS

Slots(n) == [0 .. n - 1 -> Values \cup {Blank}]

(* What is known of a base in use, field by field.                         *)
LEMMA Parts ==
  ASSUME NEW d, Valid(d)
  PROVE  /\ d.nsize \in Nat \ {0} /\ d.nsize >= DefaultSize
         /\ d.nnode \in 0 .. d.nsize
         /\ d.headidx \in 0 .. d.nsize - 1
         /\ d.tailidx \in 0 .. d.nsize - 1
         /\ d.tailidx = Place(d.headidx, d.nnode, d.nsize)
         /\ d.buf \in Slots(d.nsize)
         /\ \A i \in 0 .. d.nnode - 1 :
               d.buf[Place(d.headidx, i, d.nsize)] \in Values
<1>1. /\ d.nsize \in Nat \ {0} /\ d.nsize >= DefaultSize
      /\ d.nnode \in 0 .. d.nsize /\ d.headidx \in 0 .. d.nsize - 1
      /\ d.tailidx = Place(d.headidx, d.nnode, d.nsize)
  BY DequeAssumption DEF Valid, Slot
<1>2. d.tailidx \in 0 .. d.nsize - 1
  BY <1>1 DEF Place
<1> QED
  BY <1>1, <1>2 DEF Valid, Slot, Slots

(* A base is valid when its fields are.                                    *)
LEMMA MakeValid ==
  ASSUME NEW N \in Nat, N >= DefaultSize, NEW n \in 0 .. N,
         NEW h \in 0 .. N - 1, NEW b \in Slots(N), NEW t,
         t = Place(h, n, N),
         \A i \in 0 .. n - 1 : b[Place(h, i, N)] \in Values
  PROVE  Valid(Base(b, n, N, h, t))
BY DEF Valid, Base, Slot, Slots

(* Contents is a sequence of elements.                                     *)
LEMMA ContentsSeq ==
  ASSUME NEW d, Valid(d)
  PROVE  /\ Contents(d) \in Seq(Values)
         /\ Len(Contents(d)) = d.nnode
         /\ \A i \in 1 .. d.nnode :
               Contents(d)[i] = d.buf[Place(d.headidx, i - 1, d.nsize)]
<1>1. d.nnode \in Nat
  BY DEF Valid
<1>2. \A i \in 1 .. d.nnode : d.buf[Slot(d, i - 1)] \in Values
  BY <1>1 DEF Valid
<1>3. Contents(d) \in [1 .. d.nnode -> Values]
  BY <1>2 DEF Contents
<1>4. Contents(d) \in Seq(Values)
  BY <1>1, <1>3
<1> QED
  BY <1>1, <1>3, <1>4 DEF Contents, Slot

LEMMA Elements ==
  ASSUME NEW d, Valid(d), NEW i \in 0 .. d.nnode - 1
  PROVE  Contents(d)[i + 1] = d.buf[Place(d.headidx, i, d.nsize)]
<1>1. d.nnode \in Nat
  BY Parts
<1>2. i + 1 \in 1 .. d.nnode /\ (i + 1) - 1 = i
  BY <1>1
<1> QED
  BY <1>2, ContentsSeq

(* A base holds the sequence that agrees with it slot by slot.             *)
LEMMA SameContents ==
  ASSUME NEW d, Valid(d), NEW s \in Seq(Values), Len(s) = d.nnode,
         \A i \in 0 .. d.nnode - 1 :
            d.buf[Place(d.headidx, i, d.nsize)] = s[i + 1]
  PROVE  Contents(d) = s
<1>1. d.nnode \in Nat
  BY DEF Valid
<1>2. \A i \in 1 .. d.nnode : Contents(d)[i] = s[i]
  <2> TAKE i \in 1 .. d.nnode
  <2>1. i - 1 \in 0 .. d.nnode - 1 /\ (i - 1) + 1 = i
    BY <1>1
  <2> QED
    BY <2>1, ContentsSeq
<1> QED
  BY <1>1, <1>2, ContentsSeq, SeqEqual

-----------------------------------------------------------------------------
(* The operators of the calls.                                             *)

(* Growing a full buffer moves no element out of its place in the order.   *)
LEMMA GrownValid ==
  ASSUME NEW d, Valid(d), Full(d)
  PROVE  /\ Valid(Grown(d))
         /\ ~Full(Grown(d))
         /\ Contents(Grown(d)) = Contents(d)
<1> DEFINE N == d.nsize
           h == d.headidx
           t == d.tailidx
           b == d.buf
           g == [i \in 0 .. 2 * N - 1 |->
                    IF i < N THEN b[i]
                    ELSE IF i - N < t THEN b[i - N] ELSE Blank]
<1>1. /\ N \in Nat \ {0} /\ N >= DefaultSize /\ h \in 0 .. N - 1
      /\ b \in Slots(N) /\ d.nnode \in 0 .. N
      /\ \A i \in 0 .. d.nnode - 1 : b[Place(h, i, N)] \in Values
  BY Parts
<1>2. d.nnode = N
  BY <1>1 DEF Full
<1>3. t = h
  BY <1>1, <1>2, Parts DEF Place
<1>4. Grown(d) = Base(g, N, 2 * N, h, t + N)
  BY <1>2 DEF Grown
<1> HIDE DEF N, h, t, b
<1>5. g \in Slots(2 * N)
  BY <1>1, <1>3 DEF Slots
<1>6. \A i \in 0 .. N - 1 : g[Place(h, i, 2 * N)] = b[Place(h, i, N)]
  BY <1>1, <1>3 DEF Place
<1>7. t + N = Place(h, N, 2 * N)
  BY <1>1, <1>3 DEF Place
<1> HIDE DEF g
<1>8. /\ 2 * N \in Nat /\ 2 * N >= DefaultSize /\ N \in 0 .. 2 * N
      /\ h \in 0 .. 2 * N - 1
  BY <1>1, DequeAssumption
<1>9. \A i \in 0 .. N - 1 : g[Place(h, i, 2 * N)] \in Values
  BY <1>1, <1>2, <1>6
<1>10. Valid(Grown(d))
  BY <1>4, <1>5, <1>7, <1>8, <1>9, MakeValid
<1>11. /\ Grown(d).nnode = N /\ Grown(d).nsize = 2 * N
       /\ Grown(d).headidx = h /\ Grown(d).buf = g
  BY <1>4 DEF Base
<1>12. /\ Contents(d) \in Seq(Values) /\ Len(Contents(d)) = N
       /\ \A i \in 0 .. N - 1 : Contents(d)[i + 1] = b[Place(h, i, N)]
  BY <1>2, ContentsSeq, Elements DEF N, h, b
<1>13. Contents(Grown(d)) = Contents(d)
  BY <1>6, <1>10, <1>11, <1>12, SameContents
<1> QED
  BY <1>1, <1>10, <1>11, <1>13 DEF Full

(* Pushing at the back appends.                                            *)
LEMMA WithBackValid ==
  ASSUME NEW d, Valid(d), ~Full(d), NEW v \in Values
  PROVE  /\ Valid(WithBack(d, v))
         /\ Contents(WithBack(d, v)) = Append(Contents(d), v)
<1> DEFINE N == d.nsize
           n == d.nnode
           h == d.headidx
           t == d.tailidx
           b == d.buf
           g == [b EXCEPT ![t] = v]
           e == WithBack(d, v)
           s == Append(Contents(d), v)
<1>1. /\ N \in Nat \ {0} /\ N >= DefaultSize /\ h \in 0 .. N - 1
      /\ b \in Slots(N) /\ n \in 0 .. N - 1 /\ t \in 0 .. N - 1
      /\ t = Place(h, n, N)
      /\ \A i \in 0 .. n - 1 : b[Place(h, i, N)] \in Values
  BY Parts DEF Full
<1>2. /\ Contents(d) \in Seq(Values) /\ Len(Contents(d)) = n
      /\ \A i \in 0 .. n - 1 : Contents(d)[i + 1] = b[Place(h, i, N)]
  BY ContentsSeq, Elements
<1>3. e = Base(g, n + 1, N, h, After(t, N))
  BY DEF WithBack
<1> HIDE DEF N, n, h, t, b, e
<1>4. /\ s \in Seq(Values) /\ Len(s) = n + 1 /\ s[n + 1] = v
      /\ \A i \in 0 .. n - 1 : s[i + 1] = Contents(d)[i + 1]
  BY <1>1, <1>2
<1> HIDE DEF s
<1>5. \A i \in 0 .. n - 1 : Place(h, i, N) # t /\ Place(h, i, N) \in 0 .. N - 1
  BY <1>1 DEF Place
<1>6. g \in Slots(N) /\ g[t] = v
  BY <1>1 DEF Slots
<1>7. \A i \in 0 .. n - 1 : g[Place(h, i, N)] = b[Place(h, i, N)]
  BY <1>1, <1>5 DEF Slots
<1>8. \A i \in 0 .. n : g[Place(h, i, N)] = s[i + 1]
  <2> TAKE i \in 0 .. n
  <2>1. CASE i = n
    BY <1>1, <1>4, <1>6, <2>1
  <2>2. CASE i \in 0 .. n - 1
    BY <1>2, <1>4, <1>7, <2>2
  <2> QED
    BY <1>1, <2>1, <2>2
<1> HIDE DEF g
<1>9. \A i \in 0 .. n : g[Place(h, i, N)] \in Values
  BY <1>1, <1>4, <1>8
<1>10. After(t, N) = Place(h, n + 1, N)
  BY <1>1 DEF After, Place
<1>11. n + 1 \in 0 .. N /\ (n + 1) - 1 = n
  BY <1>1
<1>12. Valid(e)
  BY <1>1, <1>3, <1>6, <1>9, <1>10, <1>11, MakeValid
<1>13. e.nnode = n + 1 /\ e.nsize = N /\ e.headidx = h /\ e.buf = g
  BY <1>3 DEF Base
<1>14. Contents(e) = s
  BY <1>4, <1>8, <1>11, <1>12, <1>13, SameContents
<1> QED
  BY <1>12, <1>14 DEF e, s

(* Pushing at the front puts the element before all others.                *)
LEMMA WithFrontValid ==
  ASSUME NEW d, Valid(d), ~Full(d), NEW v \in Values
  PROVE  /\ Valid(WithFront(d, v))
         /\ Contents(WithFront(d, v)) = <<v>> \o Contents(d)
<1> DEFINE N == d.nsize
           n == d.nnode
           h == Before(d.headidx, N)
           t == d.tailidx
           b == d.buf
           g == [b EXCEPT ![h] = v]
           e == WithFront(d, v)
           s == <<v>> \o Contents(d)
<1>1. /\ N \in Nat \ {0} /\ N >= DefaultSize /\ d.headidx \in 0 .. N - 1
      /\ b \in Slots(N) /\ n \in 0 .. N - 1
      /\ t = Place(d.headidx, n, N)
      /\ \A i \in 0 .. n - 1 : b[Place(d.headidx, i, N)] \in Values
  BY Parts DEF Full
<1>2. /\ Contents(d) \in Seq(Values) /\ Len(Contents(d)) = n
      /\ \A i \in 0 .. n - 1 : Contents(d)[i + 1] = b[Place(d.headidx, i, N)]
  BY ContentsSeq, Elements
<1>3. e = Base(g, n + 1, N, h, t)
  BY DEF WithFront
<1>4. h \in 0 .. N - 1 /\ d.headidx = Place(h, 1, N)
  BY <1>1 DEF Before, Place
<1> HIDE DEF N, n, h, t, b, e
<1>5. /\ s \in Seq(Values) /\ Len(s) = n + 1 /\ s[1] = v
      /\ \A i \in 0 .. n - 1 : s[i + 2] = Contents(d)[i + 1]
  BY <1>1, <1>2
<1> HIDE DEF s
<1>6. \A i \in 0 .. n - 1 :
         /\ Place(h, i + 1, N) = Place(d.headidx, i, N)
         /\ Place(h, i + 1, N) # h /\ Place(h, i + 1, N) \in 0 .. N - 1
  BY <1>1, <1>4 DEF Place
<1>7. g \in Slots(N) /\ g[h] = v
  BY <1>1, <1>4 DEF Slots
<1>8. \A i \in 0 .. n - 1 : g[Place(h, i + 1, N)] = b[Place(h, i + 1, N)]
  BY <1>1, <1>6 DEF Slots
<1> HIDE DEF g
<1>9. \A i \in 0 .. n : g[Place(h, i, N)] = s[i + 1]
  <2> TAKE i \in 0 .. n
  <2>1. CASE i = 0
    <3>1. Place(h, i, N) = h
      BY <1>1, <1>4, <2>1 DEF Place
    <3> QED
      BY <1>5, <1>7, <2>1, <3>1
  <2>2. CASE i # 0
    <3>1. i - 1 \in 0 .. n - 1 /\ (i - 1) + 1 = i /\ (i - 1) + 2 = i + 1
      BY <1>1, <2>2
    <3> QED
      BY <1>2, <1>5, <1>6, <1>8, <3>1
  <2> QED
    BY <2>1, <2>2
<1>10. \A i \in 0 .. n : g[Place(h, i, N)] \in Values
  BY <1>1, <1>5, <1>9
<1>11. t = Place(h, n + 1, N)
  BY <1>1, <1>4 DEF Place
<1>12. n + 1 \in 0 .. N /\ (n + 1) - 1 = n
  BY <1>1
<1>13. Valid(e)
  BY <1>1, <1>3, <1>4, <1>7, <1>10, <1>11, <1>12, MakeValid
<1>14. e.nnode = n + 1 /\ e.nsize = N /\ e.headidx = h /\ e.buf = g
  BY <1>3 DEF Base
<1>15. Contents(e) = s
  BY <1>5, <1>9, <1>12, <1>13, <1>14, SameContents
<1> QED
  BY <1>13, <1>15 DEF e, s

(* Popping at the front removes the first element.                         *)
LEMMA WithoutFrontValid ==
  ASSUME NEW d, Valid(d), d.nnode > 0
  PROVE  /\ Valid(WithoutFront(d))
         /\ Contents(d) # <<>> /\ Head(Contents(d)) = d.buf[d.headidx]
         /\ Contents(WithoutFront(d)) = Tail(Contents(d))
<1> DEFINE N == d.nsize
           n == d.nnode
           h == d.headidx
           k == After(h, N)
           b == d.buf
           e == WithoutFront(d)
           s == Tail(Contents(d))
<1>1. /\ N \in Nat \ {0} /\ N >= DefaultSize /\ h \in 0 .. N - 1
      /\ b \in Slots(N) /\ n \in 1 .. N
      /\ d.tailidx = Place(h, n, N)
      /\ \A i \in 0 .. n - 1 : b[Place(h, i, N)] \in Values
  BY Parts
<1>2. /\ Contents(d) \in Seq(Values) /\ Len(Contents(d)) = n
      /\ \A i \in 0 .. n - 1 : Contents(d)[i + 1] = b[Place(h, i, N)]
  BY ContentsSeq, Elements
<1>3. e = Base(b, n - 1, N, k, d.tailidx)
  BY DEF WithoutFront
<1> HIDE DEF N, n, h, b, e
<1>4. Contents(d) # <<>> /\ Head(Contents(d)) = Contents(d)[1]
  BY <1>1, <1>2
<1>5. Head(Contents(d)) = b[h]
  <2>1. 0 \in 0 .. n - 1 /\ Place(h, 0, N) = h
    BY <1>1 DEF Place
  <2> QED
    BY <1>2, <1>4, <2>1
<1>6. /\ s \in Seq(Values) /\ Len(s) = n - 1
      /\ \A i \in 0 .. n - 2 : s[i + 1] = Contents(d)[i + 2]
  BY <1>1, <1>2, <1>4
<1> HIDE DEF s
<1>7. k \in 0 .. N - 1 /\ \A i \in 0 .. n - 1 : Place(k, i, N) = Place(h, i + 1, N)
  BY <1>1 DEF After, Place
<1> HIDE DEF k
<1>8. \A i \in 0 .. n - 2 : b[Place(k, i, N)] = s[i + 1]
  <2> TAKE i \in 0 .. n - 2
  <2>1. i + 1 \in 0 .. n - 1 /\ (i + 1) + 1 = i + 2 /\ i \in 0 .. n - 1
    BY <1>1
  <2> QED
    BY <1>2, <1>6, <1>7, <2>1
<1>9. n - 1 \in 0 .. N /\ (n - 1) - 1 = n - 2 /\ n - 1 \in 0 .. n - 1 /\ (n - 1) + 1 = n
  BY <1>1
<1>10. \A i \in 0 .. n - 2 : b[Place(k, i, N)] \in Values
  BY <1>1, <1>6, <1>8
<1>11. d.tailidx = Place(k, n - 1, N)
  BY <1>1, <1>7, <1>9
<1>12. Valid(e)
  BY <1>1, <1>3, <1>7, <1>9, <1>10, <1>11, MakeValid
<1>13. e.nnode = n - 1 /\ e.nsize = N /\ e.headidx = k /\ e.buf = b
  BY <1>3 DEF Base
<1>14. Contents(e) = s
  BY <1>6, <1>8, <1>9, <1>12, <1>13, SameContents
<1> QED
  BY <1>4, <1>5, <1>12, <1>14 DEF b, h, e, s

(* Popping at the back removes the last element.                           *)
LEMMA WithoutBackValid ==
  ASSUME NEW d, Valid(d), d.nnode > 0
  PROVE  /\ Valid(WithoutBack(d))
         /\ Contents(d) # <<>>
         /\ Contents(d)[Len(Contents(d))] = d.buf[WithoutBack(d).tailidx]
         /\ Contents(WithoutBack(d)) = SubSeq(Contents(d), 1, Len(Contents(d)) - 1)
<1> DEFINE N == d.nsize
           n == d.nnode
           h == d.headidx
           t == Before(d.tailidx, N)
           b == d.buf
           e == WithoutBack(d)
           s == SubSeq(Contents(d), 1, n - 1)
<1>1. /\ N \in Nat \ {0} /\ N >= DefaultSize /\ h \in 0 .. N - 1
      /\ b \in Slots(N) /\ n \in 1 .. N
      /\ d.tailidx = Place(h, n, N)
      /\ \A i \in 0 .. n - 1 : b[Place(h, i, N)] \in Values
  BY Parts
<1>2. /\ Contents(d) \in Seq(Values) /\ Len(Contents(d)) = n
      /\ \A i \in 0 .. n - 1 : Contents(d)[i + 1] = b[Place(h, i, N)]
  BY ContentsSeq, Elements
<1>3. e = Base(b, n - 1, N, h, t)
  BY DEF WithoutBack
<1> HIDE DEF N, n, h, b, e
<1>4. t = Place(h, n - 1, N)
  BY <1>1 DEF Before, Place
<1> HIDE DEF t
<1>5. n - 1 \in 0 .. N /\ n - 1 \in 0 .. n - 1 /\ (n - 1) + 1 = n /\ (n - 1) - 1 = n - 2
  BY <1>1
<1>6. Contents(d) # <<>> /\ Contents(d)[n] = b[t]
  BY <1>1, <1>2, <1>4, <1>5
<1>7. /\ s \in Seq(Values) /\ Len(s) = n - 1
      /\ \A i \in 0 .. n - 2 : s[i + 1] = Contents(d)[i + 1]
  BY <1>1, <1>2
<1> HIDE DEF s
<1>8. \A i \in 0 .. n - 2 : b[Place(h, i, N)] = s[i + 1]
  BY <1>1, <1>2, <1>7
<1>9. \A i \in 0 .. n - 2 : b[Place(h, i, N)] \in Values
  BY <1>1
<1>10. Valid(e)
  BY <1>1, <1>3, <1>4, <1>5, <1>9, MakeValid
<1>11. e.nnode = n - 1 /\ e.nsize = N /\ e.headidx = h /\ e.buf = b /\ e.tailidx = t
  BY <1>3 DEF Base
<1>12. Contents(e) = s
  BY <1>5, <1>7, <1>8, <1>10, <1>11, SameContents
<1> QED
  BY <1>2, <1>6, <1>10, <1>11, <1>12 DEF b, e, s

(* A set of numbers has a smallest one: among the intervals from 0 to its  *)
(* members one has no proper subset.                                       *)
LEMMA Smallest ==
  ASSUME NEW S \in SUBSET Nat, S # {}
  PROVE  \E s \in S : \A r \in S : s <= r
<1> DEFINE T == {0 .. s : s \in S}
<1>1. T \subseteq FiniteSubsetsOf(Nat)
  <2> SUFFICES ASSUME NEW s \in S
               PROVE  0 .. s \in SUBSET Nat /\ IsFiniteSet(0 .. s)
    BY DEF FiniteSubsetsOf
  <2> QED
    BY FS_Interval
<1>2. T # {}
  OBVIOUS
<1>3. PICK x \in T : \A y \in T : <<y, x>> \notin StrictSubsetOrdering(Nat)
  BY <1>1, <1>2, FS_StrictSubsetOrderingWellFounded, WFMin
<1>4. PICK s \in S : x = 0 .. s
  OBVIOUS
<1>5. ASSUME NEW r \in S, r < s
      PROVE  FALSE
  <2>1. 0 .. r \subseteq 0 .. s /\ s \in 0 .. s /\ s \notin 0 .. r
    BY <1>5
  <2>2. <<0 .. r, 0 .. s>> \in StrictSubsetOrdering(Nat)
    BY <2>1 DEF StrictSubsetOrdering
  <2> QED
    BY <1>3, <1>4, <2>2
<1> QED
  BY <1>5

(* The loop of halvings stops at a size that still holds the elements.     *)
LEMMA ShrunkSizeFits ==
  ASSUME NEW d, Valid(d)
  PROVE  /\ ShrunkSize(d) \in Nat
         /\ ShrunkSize(d) >= d.nnode /\ ShrunkSize(d) >= DefaultSize
<1>1. d.nsize \in Nat /\ d.nnode \in 0 .. d.nsize /\ d.nsize >= DefaultSize
  BY Parts
<1>2. d.nsize \in Halvings(d)
  BY <1>1, DequeAssumption DEF Halvings, AtLeast
<1>3. Halvings(d) \in SUBSET Nat
  BY <1>1 DEF Halvings
<1>4. \E s \in Halvings(d) : \A r \in Halvings(d) : s <= r
  BY <1>2, <1>3, Smallest
<1>5. ShrunkSize(d) \in Halvings(d)
  BY <1>4 DEF ShrunkSize
<1> QED
  BY <1>1, <1>5, DequeAssumption DEF Halvings, AtLeast

(* Shrinking copies the elements, unwrapped, to the start of a new buffer. *)
LEMMA ShrunkValid ==
  ASSUME NEW d, Valid(d)
  PROVE  /\ Valid(Shrunk(d))
         /\ Contents(Shrunk(d)) = Contents(d)
<1> DEFINE N == d.nsize
           n == d.nnode
           h == d.headidx
           t == d.tailidx
           b == d.buf
           m == ShrunkSize(d)
           k == FirstPart(d)
           g == [i \in 0 .. m - 1 |->
                    IF i < k THEN b[h + i]
                    ELSE IF n > k /\ i - k < t THEN b[i - k]
                    ELSE Blank]
           u == IF n = m THEN 0 ELSE n
           e == Shrunk(d)
           s == Contents(d)
<1>1. /\ N \in Nat \ {0} /\ h \in 0 .. N - 1
      /\ b \in Slots(N) /\ n \in 0 .. N
      /\ t \in 0 .. N - 1 /\ t = Place(h, n, N)
      /\ \A i \in 0 .. n - 1 : b[Place(h, i, N)] \in Values
  BY Parts
<1>2. /\ s \in Seq(Values) /\ Len(s) = n
      /\ \A i \in 0 .. n - 1 : s[i + 1] = b[Place(h, i, N)]
  BY ContentsSeq, Elements
<1>3. m \in Nat /\ m >= n /\ m >= DefaultSize
  BY ShrunkSizeFits
<1>4. k = IF h < t THEN n ELSE IF n # 0 THEN N - h ELSE 0
  BY DEF FirstPart
<1>5. e = Base(g, n, m, 0, u)
  BY DEF Shrunk
<1> HIDE DEF N, n, h, t, b, m, k, e, s
<1>6. /\ k \in 0 .. n /\ h + k <= N /\ n - k <= t
      /\ \A i \in 0 .. n - 1 : /\ i < k => Place(h, i, N) = h + i
                               /\ i >= k => Place(h, i, N) = i - k /\ i - k < t
  <2>1. CASE n = 0
    <3>1. k = 0
      BY <1>1, <1>4, <2>1 DEF Place
    <3> QED
      BY <1>1, <2>1, <3>1
  <2>2. CASE n # 0 /\ h + n < N
    <3>1. k = n
      BY <1>1, <1>4, <2>2 DEF Place
    <3> QED
      BY <1>1, <2>2, <3>1 DEF Place
  <2>3. CASE n # 0 /\ ~(h + n < N)
    <3>1. t = h + n - N /\ k = N - h
      BY <1>1, <1>4, <2>3 DEF Place
    <3> QED
      BY <1>1, <2>3, <3>1 DEF Place
  <2> QED
    BY <2>1, <2>2, <2>3
<1>7. \A i \in 0 .. n - 1 : g[i] = b[Place(h, i, N)]
  <2> TAKE i \in 0 .. n - 1
  <2>1. i \in 0 .. m - 1 /\ n > i
    BY <1>1, <1>3
  <2>2. CASE i < k
    <3>1. g[i] = b[h + i]
      BY <2>1, <2>2
    <3>2. Place(h, i, N) = h + i
      BY <1>1, <1>6, <2>2
    <3> HIDE DEF g
    <3> QED
      BY <3>1, <3>2
  <2>3. CASE ~(i < k)
    <3>1. n > k /\ i - k < t /\ Place(h, i, N) = i - k
      BY <1>1, <1>6, <2>1, <2>3
    <3>2. g[i] = b[i - k]
      BY <2>1, <2>3, <3>1
    <3> QED
      BY <3>1, <3>2
  <2> QED
    BY <2>2, <2>3
<1>8. g \in Slots(m)
  <2> SUFFICES ASSUME NEW i \in 0 .. m - 1
               PROVE  g[i] \in Values \cup {Blank}
    BY DEF Slots
  <2>1. CASE i < k
    <3>1. h + i \in 0 .. N - 1 /\ g[i] = b[h + i]
      BY <1>1, <1>3, <1>6, <2>1
    <3> QED
      BY <1>1, <3>1 DEF Slots
  <2>2. CASE ~(i < k) /\ n > k /\ i - k < t
    <3>1. i - k \in 0 .. N - 1 /\ g[i] = b[i - k]
      BY <1>1, <1>3, <1>6, <2>2
    <3> QED
      BY <1>1, <3>1 DEF Slots
  <2>3. CASE ~(i < k) /\ ~(n > k /\ i - k < t)
    BY <2>3
  <2> QED
    BY <2>1, <2>2, <2>3
<1> HIDE DEF g
<1>9. \A i \in 0 .. n - 1 : Place(0, i, m) = i
  BY <1>1, <1>3 DEF Place
<1>10. /\ 0 \in 0 .. m - 1 /\ n \in 0 .. m /\ u = Place(0, n, m)
  BY <1>1, <1>3, DequeAssumption DEF Place
<1> HIDE DEF u
<1>11. \A i \in 0 .. n - 1 : g[Place(0, i, m)] \in Values
  BY <1>1, <1>7, <1>9
<1>12. Valid(e)
  BY <1>3, <1>5, <1>8, <1>10, <1>11, MakeValid
<1>13. e.nnode = n /\ e.nsize = m /\ e.headidx = 0 /\ e.buf = g
  BY <1>5 DEF Base
<1>14. \A i \in 0 .. n - 1 : g[Place(0, i, m)] = s[i + 1]
  BY <1>2, <1>7, <1>9
<1>15. Contents(e) = s
  BY <1>2, <1>12, <1>13, <1>14, SameContents
<1> QED
  BY <1>12, <1>15 DEF e, s

-----------------------------------------------------------------------------
(* The calls.                                                              *)

(* A fresh buffer is valid and empty.                                      *)
LEMMA FreshValid ==
  LET d == Base([i \in 0 .. DefaultSize - 1 |-> Blank], 0, DefaultSize, 0, 0)
  IN  Valid(d) /\ Contents(d) = <<>>
<1> DEFINE g == [i \in 0 .. DefaultSize - 1 |-> Blank]
           d == Base(g, 0, DefaultSize, 0, 0)
<1>1. /\ DefaultSize \in Nat /\ DefaultSize >= DefaultSize
      /\ 0 \in 0 .. DefaultSize /\ 0 \in 0 .. DefaultSize - 1
      /\ 0 = Place(0, 0, DefaultSize)
  BY DequeAssumption DEF Place
<1>2. g \in Slots(DefaultSize)
  BY DEF Slots
<1> HIDE DEF g
<1>3. Valid(d)
  BY <1>1, <1>2, MakeValid
<1>4. d.nnode = 0
  BY DEF Base
<1>5. Contents(d) \in Seq(Values) /\ Len(Contents(d)) = 0
  BY <1>3, <1>4, ContentsSeq
<1> HIDE DEF d
<1>6. Contents(d) = <<>>
  BY <1>5
<1> QED
  BY <1>3, <1>6 DEF d, g

(* The deque that has no buffer.                                           *)
LEMMA NothingThere ==
  /\ NoBuffer.nsize = 0 /\ NoBuffer.nnode = 0
  /\ Contents(NoBuffer) = <<>>
<1>1. NoBuffer.nsize = 0 /\ NoBuffer.nnode = 0
  BY DEF NoBuffer, Base
<1>2. Contents(NoBuffer) = [i \in 1 .. 0 |-> NoBuffer.buf[Slot(NoBuffer, i - 1)]]
  BY <1>1 DEF Contents
<1> QED
  BY <1>1, <1>2

(* A deque that a push or a non-empty pop may be called on has a buffer.   *)
LEMMA InUse ==
  ASSUME TypeOK, base.nsize > 0 \/ base.nnode > 0
  PROVE  Valid(base)
BY NothingThere DEF TypeOK

(* Room leaves the contents alone and a slot free.                         *)
LEMMA RoomValid ==
  ASSUME NEW d, Valid(d)
  PROVE  Valid(Room(d)) /\ ~Full(Room(d)) /\ Contents(Room(d)) = Contents(d)
BY GrownValid DEF Room

(* Every step keeps the base valid and is a step, or no step, of the       *)
(* sequence.                                                               *)
LEMMA StepOfSequence ==
  ASSUME TypeOK, [Next]_vars
  PROVE  TypeOK' /\ [AD!Next]_<<Contents(base), result>>
<1> DEFINE seq == Contents(base)
<1>1. CASE InitDeque
  <2>1. CASE UNCHANGED base /\ result' = FALSE
    <3>1. AD!Refuse
      BY <2>1 DEF AD!Refuse
    <3> QED
      BY <2>1, <3>1 DEF TypeOK, AD!Next
  <2>2. CASE base.nsize = 0 /\ base' = Base([i \in 0 .. DefaultSize - 1 |-> Blank],
                                           0, DefaultSize, 0, 0) /\ result' = TRUE
    <3>1. base = NoBuffer
      BY <2>2, Parts DEF TypeOK
    <3>2. Valid(base)' /\ Contents(base)' = <<>>
      BY <2>2, FreshValid
    <3>3. AD!Create
      BY <2>2, <3>1, <3>2, NothingThere DEF AD!Create
    <3> QED
      BY <3>2, <3>3 DEF TypeOK, AD!Next
  <2> QED
    BY <1>1, <2>1, <2>2 DEF InitDeque
<1>2. CASE Delete
  <2>1. AD!Delete
    BY <1>2, NothingThere DEF Delete, AD!Delete
  <2> QED
    BY <1>2, <2>1 DEF Delete, TypeOK, AD!Next
<1>3. CASE PushFails
  <2>1. AD!Refuse
    BY <1>3 DEF PushFails, AD!Refuse
  <2> QED
    BY <1>3, <2>1 DEF PushFails, TypeOK, AD!Next
<1>4. CASE PopEmpty
  <2>1. seq = <<>>
    <3>1. CASE base = NoBuffer
      BY <3>1, NothingThere
    <3>2. CASE Valid(base)
      BY <1>4, <3>2, ContentsSeq DEF PopEmpty
    <3> QED
      BY <3>1, <3>2 DEF TypeOK
  <2>2. AD!PopEmpty
    BY <1>4, <2>1 DEF PopEmpty, AD!PopEmpty
  <2> QED
    BY <1>4, <2>2 DEF PopEmpty, TypeOK, AD!Next
<1>5. CASE PopFront
  <2>1. Valid(base)
    BY <1>5, InUse DEF PopFront
  <2>2. Valid(base)'
    BY <1>5, <2>1, WithoutFrontValid DEF PopFront
  <2>3. AD!PopFront
    BY <1>5, <2>1, WithoutFrontValid DEF PopFront, AD!PopFront
  <2> QED
    BY <2>2, <2>3 DEF TypeOK, AD!Next
<1>6. CASE PopBack
  <2>1. Valid(base)
    BY <1>6, InUse DEF PopBack
  <2>2. Valid(base)'
    BY <1>6, <2>1, WithoutBackValid DEF PopBack
  <2>3. AD!PopBack
    BY <1>6, <2>1, WithoutBackValid DEF PopBack, AD!PopBack
  <2> QED
    BY <2>2, <2>3 DEF TypeOK, AD!Next
<1>7. CASE Shrink
  <2>1. Valid(base)
    BY <1>7, InUse DEF Shrink
  <2>2. Valid(base)' /\ seq' = seq
    BY <1>7, <2>1, ShrunkValid DEF Shrink
  <2>3. AD!Rearrange
    BY <1>7, <2>2 DEF Shrink, AD!Rearrange
  <2> QED
    BY <2>2, <2>3 DEF TypeOK, AD!Next
<1>8. ASSUME NEW v \in Values, PushFront(v)
      PROVE  TypeOK' /\ AD!Next
  <2>1. Valid(base)
    BY <1>8, InUse DEF PushFront
  <2>2. Valid(base)' /\ seq' = <<v>> \o seq
    BY <1>8, <2>1, RoomValid, WithFrontValid DEF PushFront
  <2>3. AD!PushFront(v)
    BY <1>8, <2>2 DEF PushFront, AD!PushFront
  <2> QED
    BY <2>2, <2>3 DEF TypeOK, AD!Next
<1>9. ASSUME NEW v \in Values, PushBack(v)
      PROVE  TypeOK' /\ AD!Next
  <2>1. Valid(base)
    BY <1>9, InUse DEF PushBack
  <2>2. Valid(base)' /\ seq' = Append(seq, v)
    BY <1>9, <2>1, RoomValid, WithBackValid DEF PushBack
  <2>3. AD!PushBack(v)
    BY <1>9, <2>2 DEF PushBack, AD!PushBack
  <2> QED
    BY <2>2, <2>3 DEF TypeOK, AD!Next
<1>10. CASE UNCHANGED vars
  BY <1>10 DEF vars, TypeOK
<1> QED
  BY <1>1, <1>2, <1>3, <1>4, <1>5, <1>6, <1>7, <1>8, <1>9, <1>10 DEF Next

(* Whatever the order of the calls, and whichever allocations fail, the    *)
(* indices stay inside the buffer and the count agrees with them.          *)
THEOREM TypeCorrect == Spec => []TypeOK
<1>1. Init => TypeOK
  BY DEF Init, TypeOK
<1>2. TypeOK /\ [Next]_vars => TypeOK'
  BY StepOfSequence
<1> QED
  BY <1>1, <1>2, PTL DEF Spec

(* deque.c implements the sequence of AbstractDeque: the wrap, the growth  *)
(* and the shrinking of the buffer cannot be seen by its callers.          *)
THEOREM Implements == Spec => ImplementsSequence
<1>1. Init => AD!Init
  BY NothingThere DEF Init, AD!Init
<1>2. TypeOK /\ [Next]_vars => [AD!Next]_<<Contents(base), result>>
  BY StepOfSequence
<1> QED
  BY <1>1, <1>2, TypeCorrect, PTL DEF Spec, ImplementsSequence, AD!Spec
=============================================================================
