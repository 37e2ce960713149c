---------------------------- MODULE HashMapProofs ----------------------------
(***************************************************************************)
(* Theorems about HashMap for every set of keys, every hash function and   *)
(* every size: no node is misplaced, the table is a partial function, and  *)
(* its size suits the mask whatever fails.                                 *)
(***************************************************************************)
EXTENDS HashMap, FiniteSetTheorems, WellFoundedInduction, TLAPS

-----------------------------------------------------------------------------
(* The order of nodes.                                                     *)

(* Each place of a finite set has its rank, and each rank its place.       *)
LEMMA Ranks ==
  ASSUME NEW S, IsFiniteSet(S), S \subseteq Nat \X Nat
  PROVE  /\ Cardinality(S) \in Nat
         /\ \A x \in S : Cardinality(Before(S, x)) \in 0 .. Cardinality(S) - 1
         /\ \A x, y \in S :
               Cardinality(Before(S, x)) = Cardinality(Before(S, y)) => x = y
         /\ \A p \in 1 .. Cardinality(S) : \E x \in S : Cardinality(Before(S, x)) = p - 1
<1> DEFINE n == Cardinality(S)
           g == [x \in S |-> Cardinality(Before(S, x))]
<1>1. n \in Nat
  BY FS_CardinalityType
<1>2. ASSUME NEW x \in S
      PROVE  /\ IsFiniteSet(Before(S, x)) /\ x \notin Before(S, x)
             /\ Cardinality(Before(S, x)) \in 0 .. n - 1
  <2>1. x[1] \in Nat /\ x[2] \in Nat
    OBVIOUS
  <2>2. x \notin Before(S, x)
    BY <2>1 DEF Before
  <2>3. Before(S, x) \subseteq S \ {x}
    BY <2>2 DEF Before
  <2>4. IsFiniteSet(S \ {x}) /\ Cardinality(S \ {x}) = n - 1
    BY FS_RemoveElement
  <2>5. /\ IsFiniteSet(Before(S, x))
        /\ Cardinality(Before(S, x)) <= Cardinality(S \ {x})
    BY <2>3, <2>4, FS_Subset
  <2>6. Cardinality(Before(S, x)) \in Nat
    BY <2>5, FS_CardinalityType
  <2>7. Cardinality(Before(S, x)) \in 0 .. n - 1
    BY ONLY <1>1, <2>4, <2>5, <2>6
  <2> QED
    BY <2>2, <2>5, <2>7
<1>3. ASSUME NEW x \in S, NEW y \in S, y \in Before(S, x)
      PROVE  Cardinality(Before(S, y)) < Cardinality(Before(S, x))
  <2>1. Before(S, y) \subseteq Before(S, x) \ {y}
    <3> SUFFICES ASSUME NEW z \in Before(S, y) PROVE z \in Before(S, x) \ {y}
      OBVIOUS
    <3>1. /\ z \in S
          /\ z[1] > y[1] \/ (z[1] = y[1] /\ z[2] < y[2])
          /\ y[1] > x[1] \/ (y[1] = x[1] /\ y[2] < x[2])
      BY <1>3 DEF Before
    <3>2. /\ x[1] \in Nat /\ x[2] \in Nat /\ y[1] \in Nat /\ y[2] \in Nat
          /\ z[1] \in Nat /\ z[2] \in Nat
      BY <3>1
    <3>3. z[1] > x[1] \/ (z[1] = x[1] /\ z[2] < x[2])
      BY ONLY <3>1, <3>2
    <3>4. z # y
      BY <1>2
    <3> QED
      BY <3>1, <3>3, <3>4 DEF Before
  <2>2. IsFiniteSet(Before(S, x))
    BY <1>2
  <2>3. /\ IsFiniteSet(Before(S, x) \ {y})
        /\ Cardinality(Before(S, x) \ {y}) = Cardinality(Before(S, x)) - 1
    BY <1>3, <2>2, FS_RemoveElement
  <2>4. Cardinality(Before(S, y)) <= Cardinality(Before(S, x) \ {y})
    BY <2>1, <2>3, FS_Subset
  <2>5. Cardinality(Before(S, y)) \in 0 .. n - 1 /\ Cardinality(Before(S, x)) \in 0 .. n - 1
    BY <1>2
  <2> QED
    BY ONLY <1>1, <2>3, <2>4, <2>5
<1>4. ASSUME NEW x \in S, NEW y \in S,
             Cardinality(Before(S, x)) = Cardinality(Before(S, y))
      PROVE  x = y
  <2>1. SUFFICES ASSUME x # y PROVE FALSE
    OBVIOUS
  <2>2. x = <<x[1], x[2]>> /\ y = <<y[1], y[2]>>
    OBVIOUS
  <2>3. x[1] # y[1] \/ x[2] # y[2]
    BY <2>1, <2>2
  <2>4. x[1] \in Nat /\ x[2] \in Nat /\ y[1] \in Nat /\ y[2] \in Nat
    OBVIOUS
  <2>5. \/ y[1] > x[1] \/ (y[1] = x[1] /\ y[2] < x[2])
        \/ x[1] > y[1] \/ (x[1] = y[1] /\ x[2] < y[2])
    BY ONLY <2>3, <2>4
  <2>6. y \in Before(S, x) \/ x \in Before(S, y)
    BY <2>5 DEF Before
  <2>7. Cardinality(Before(S, x)) \in 0 .. n - 1 /\ Cardinality(Before(S, y)) \in 0 .. n - 1
    BY <1>2
  <2>8. \/ Cardinality(Before(S, y)) < Cardinality(Before(S, x))
        \/ Cardinality(Before(S, x)) < Cardinality(Before(S, y))
    BY <1>3, <2>6
  <2> QED
    BY ONLY <1>1, <1>4, <2>7, <2>8
<1>5. g \in Injection(S, 0 .. n - 1)
  <2>1. g \in [S -> 0 .. n - 1]
    BY <1>2
  <2> QED
    BY <1>4, <2>1 DEF Injection, IsInjective
<1>6. IsFiniteSet(0 .. n - 1) /\ Cardinality(0 .. n - 1) = n
  <2>1. /\ IsFiniteSet(0 .. n - 1)
        /\ Cardinality(0 .. n - 1) = IF 0 > n - 1 THEN 0 ELSE (n - 1) - 0 + 1
    BY <1>1, FS_Interval
  <2> QED
    BY ONLY <1>1, <2>1
<1>7. g \in Surjection(S, 0 .. n - 1)
  <2> HIDE DEF g
  <2> QED
    BY <1>5, <1>6, FS_Injection
<1>8. ASSUME NEW p \in 1 .. n PROVE \E x \in S : Cardinality(Before(S, x)) = p - 1
  <2>1. p - 1 \in 0 .. n - 1
    BY <1>1
  <2>2. PICK x \in S : g[x] = p - 1
    BY <1>7, <2>1 DEF Surjection
  <2> QED
    BY <2>2
<1> QED
  BY <1>1, <1>2, <1>4, <1>8

-----------------------------------------------------------------------------
(* Tables.                                                                 *)

Table(t) ==
    /\ t \in [nbuckets : Nat, nnodes : Nat, chain : {t.chain}]
    /\ t.chain \in [0 .. t.nbuckets - 1 -> Seq(Entries)]

\* Nodes are in the lists their hashes lead to, and have keys of their own.
Placed(t) ==
    /\ \A x \in Places(t) : BucketIdx(Node(t, x).key, t.nbuckets) = x[1]
    /\ \A x, y \in Places(t) : Node(t, x).key = Node(t, y).key => x = y

(* The remainder is an index of buckets.                                   *)
LEMMA BucketIdxRange ==
  ASSUME NEW k \in Keys, NEW n \in Nat \ {0}
  PROVE  BucketIdx(k, n) \in 0 .. n - 1
<1>1. Hash[k] \in Nat
  BY HashMapAssumption
<1>2. \A h \in Nat : h % n \in 0 .. n - 1
  OBVIOUS
<1> QED
  BY <1>1, <1>2 DEF BucketIdx

(* A place is a bucket and an index of its list.                           *)
LEMMA PlaceFacts ==
  ASSUME NEW t, Table(t)
  PROVE  /\ \A x \in Places(t) :
               /\ x = <<x[1], x[2]>> /\ x \in Nat \X Nat
               /\ x[1] \in 0 .. t.nbuckets - 1 /\ x[2] \in 1 .. Len(t.chain[x[1]])
               /\ Node(t, x) \in Entries /\ t.nbuckets > 0
         /\ \A b \in 0 .. t.nbuckets - 1 : \A i \in 1 .. Len(t.chain[b]) :
               <<b, i>> \in Places(t) /\ Node(t, <<b, i>>) = t.chain[b][i]
<1> DEFINE n == t.nbuckets
           c == t.chain
<1>1. n \in Nat /\ c \in [0 .. n - 1 -> Seq(Entries)]
  BY DEF Table
<1>2. \A b \in 0 .. n - 1 :
         /\ c[b] \in Seq(Entries) /\ DOMAIN c[b] = 1 .. Len(c[b]) /\ Len(c[b]) \in Nat
         /\ \A i \in 1 .. Len(c[b]) : c[b][i] \in Entries
  BY <1>1
<1>3. ASSUME NEW x \in Places(t)
      PROVE  /\ x = <<x[1], x[2]>>
             /\ x[1] \in 0 .. n - 1 /\ x[2] \in 1 .. Len(c[x[1]])
             /\ Node(t, x) = c[x[1]][x[2]]
  <2>1. PICK b \in 0 .. n - 1 : x \in {b} \X DOMAIN c[b]
    BY DEF Places
  <2> QED
    BY <1>2, <2>1 DEF Node
<1>4. ASSUME NEW b \in 0 .. n - 1, NEW i \in 1 .. Len(c[b])
      PROVE  <<b, i>> \in Places(t) /\ Node(t, <<b, i>>) = c[b][i]
  BY <1>2 DEF Places, Node
<1>5. ASSUME NEW x \in Places(t)
      PROVE  /\ x \in Nat \X Nat /\ n > 0 /\ Node(t, x) \in Entries
  <2>1. x[1] \in Nat /\ n > 0
    <3>1. x[1] \in 0 .. n - 1
      BY <1>3
    <3> QED
      BY ONLY <1>1, <3>1
  <2>2. x[2] \in Nat
    BY <1>2, <1>3
  <2> QED
    BY <1>2, <1>3, <2>1, <2>2
<1> QED
  BY <1>3, <1>4, <1>5

(* A key is held where it has its place, and there only.                   *)
LEMMA HeldFacts ==
  ASSUME NEW t, Table(t), Placed(t), NEW k \in Keys
  PROVE  /\ Held(t, k) <=> \E x \in Places(t) : Node(t, x).key = k
         /\ \A x \in Places(t) :
               Node(t, x).key = k =>
                  /\ x = <<BucketIdx(k, t.nbuckets), Ref(t, k)>>
                  /\ Lookup(t, k) = Node(t, x).value
         /\ Held(t, k) =>
               /\ <<BucketIdx(k, t.nbuckets), Ref(t, k)>> \in Places(t)
               /\ Node(t, <<BucketIdx(k, t.nbuckets), Ref(t, k)>>).key = k
<1> DEFINE n == t.nbuckets
           b == BucketIdx(k, n)
           list == t.chain[b]
<1>1. ASSUME NEW x \in Places(t), Node(t, x).key = k
      PROVE  /\ x = <<b, x[2]>> /\ x[2] \in DOMAIN list
             /\ list[x[2]] = Node(t, x) /\ n > 0
  <2>1. x[1] = b
    BY <1>1 DEF Placed
  <2>2. /\ x = <<x[1], x[2]>> /\ x[2] \in 1 .. Len(t.chain[x[1]]) /\ n > 0
        /\ x[1] \in 0 .. n - 1
    BY PlaceFacts
  <2>3. DOMAIN list = 1 .. Len(list)
    BY <2>1, <2>2 DEF Table
  <2> QED
    BY <2>1, <2>2, <2>3 DEF Node
<1>2. ASSUME NEW i, n > 0, i \in DOMAIN list, list[i].key = k
      PROVE  <<b, i>> \in Places(t) /\ Node(t, <<b, i>>) = list[i]
  <2>1. n \in Nat \ {0}
    BY <1>2 DEF Table
  <2>2. b \in 0 .. n - 1
    BY <2>1, BucketIdxRange
  <2>3. DOMAIN list = 1 .. Len(list)
    BY <2>2 DEF Table
  <2> QED
    BY <1>2, <2>2, <2>3, PlaceFacts
<1>3. Held(t, k) <=> \E x \in Places(t) : Node(t, x).key = k
  BY <1>1, <1>2 DEF Held, Bucket
<1>4. ASSUME NEW x \in Places(t), Node(t, x).key = k
      PROVE  Ref(t, k) = x[2]
  <2>1. \A i \in DOMAIN list : list[i].key = k => i = x[2]
    <3> SUFFICES ASSUME NEW i \in DOMAIN list, list[i].key = k PROVE i = x[2]
      OBVIOUS
    <3>1. <<b, i>> \in Places(t) /\ Node(t, <<b, i>>).key = k
      BY <1>1, <1>2, <1>4
    <3>2. <<b, i>> = x
      BY <1>4, <3>1 DEF Placed
    <3> QED
      BY <3>2
  <2>2. x[2] \in 1 .. Len(list) /\ DOMAIN list = 1 .. Len(list)
    <3>1. x[1] = b /\ x[1] \in 0 .. n - 1 /\ x[2] \in 1 .. Len(t.chain[x[1]])
      BY <1>4, PlaceFacts DEF Placed
    <3> QED
      BY <3>1 DEF Table
  <2>3. \A j \in 1 .. x[2] - 1 : list[j].key # k
    <3> SUFFICES ASSUME NEW j \in 1 .. x[2] - 1, list[j].key = k PROVE FALSE
      OBVIOUS
    <3>1. Len(list) \in Nat
      <4>1. b \in 0 .. n - 1
        BY <1>4, PlaceFacts DEF Placed
      <4> QED
        BY <4>1 DEF Table
    <3>2. j \in 1 .. Len(list) /\ j # x[2]
      BY ONLY <2>2, <3>1, j \in 1 .. x[2] - 1
    <3> QED
      BY <2>1, <2>2, <3>2
  <2>4. list[x[2]].key = k
    BY <1>1, <1>4
  <2> DEFINE P(i) == list[i].key = k /\ \A j \in 1 .. i - 1 : list[j].key # k
  <2>5. \E i \in DOMAIN list : P(i)
    BY <2>2, <2>3, <2>4
  <2>6. \A i \in DOMAIN list : P(i) => i = x[2]
    BY <2>1
  <2>7. Ref(t, k) = CHOOSE i \in DOMAIN list : P(i)
    BY DEF Ref, Bucket
  <2> HIDE DEF P
  <2> QED
    BY <2>5, <2>6, <2>7
<1>5. ASSUME NEW x \in Places(t), Node(t, x).key = k
      PROVE  x = <<b, Ref(t, k)>> /\ Lookup(t, k) = Node(t, x).value
  <2>1. x = <<b, Ref(t, k)>> /\ list[Ref(t, k)] = Node(t, x)
    BY <1>1, <1>4, <1>5
  <2>2. Held(t, k)
    BY <1>3, <1>5
  <2> QED
    BY <2>1, <2>2 DEF Lookup, Bucket
<1> QED
  BY <1>3, <1>5

(* There are no more places than keys.                                     *)
LEMMA PlacesFinite ==
  ASSUME NEW t, Table(t), Placed(t), IsFiniteSet(HeldKeys(t))
  PROVE  /\ IsFiniteSet(Places(t))
         /\ Cardinality(Places(t)) <= Cardinality(HeldKeys(t))
<1> DEFINE S == Places(t)
           g == [x \in S |-> Node(t, x).key]
<1>1. \A x \in S : Node(t, x).key \in HeldKeys(t)
  <2> SUFFICES ASSUME NEW x \in S PROVE Node(t, x).key \in HeldKeys(t)
    OBVIOUS
  <2>1. Node(t, x).key \in Keys
    BY PlaceFacts DEF Entries
  <2> QED
    BY <2>1, HeldFacts DEF HeldKeys
<1>2. \A x, y \in S : Node(t, x).key = Node(t, y).key => x = y
  BY DEF Placed
<1> HIDE DEF S
<1>3. g \in Injection(S, HeldKeys(t))
  <2>1. g \in [S -> HeldKeys(t)]
    BY <1>1
  <2> QED
    BY <1>2, <2>1 DEF Injection, IsInjective
<1> HIDE DEF g
<1> QED
  BY <1>3, FS_Injection DEF S

(* The list of the nodes at some places.                                   *)
LEMMA ListedFacts ==
  ASSUME NEW t, Table(t), NEW S \in SUBSET Places(t), IsFiniteSet(S)
  PROVE  /\ Listed(t, S) \in Seq(Entries) /\ DOMAIN Listed(t, S) = 1 .. Cardinality(S)
         /\ Len(Listed(t, S)) = Cardinality(S) /\ Cardinality(S) \in Nat
         /\ \A p \in 1 .. Cardinality(S) : \E x \in S :
               /\ Listed(t, S)[p] = Node(t, x)
               /\ Cardinality(Before(S, x)) = p - 1
         /\ \A x \in S : \E p \in 1 .. Cardinality(S) : Listed(t, S)[p] = Node(t, x)
<1> DEFINE n == Cardinality(S)
           r(x) == Cardinality(Before(S, x))
           At(p) == CHOOSE x \in S : r(x) = p - 1
           L == Listed(t, S)
<1>1. S \subseteq Nat \X Nat /\ \A x \in S : Node(t, x) \in Entries
  BY PlaceFacts
<1>2. /\ n \in Nat
      /\ \A x \in S : r(x) \in 0 .. n - 1
      /\ \A x, y \in S : r(x) = r(y) => x = y
      /\ \A p \in 1 .. n : \E x \in S : r(x) = p - 1
  BY <1>1, Ranks
<1>3. L = [p \in 1 .. n |-> Node(t, At(p))]
  BY DEF Listed
<1> HIDE DEF r, L, n
<1>4. \A p \in 1 .. n : At(p) \in S /\ r(At(p)) = p - 1
  BY <1>2
<1>5. ASSUME NEW x \in S PROVE \E p \in 1 .. n : At(p) = x
  <2>1. r(x) + 1 \in 1 .. n /\ (r(x) + 1) - 1 = r(x)
    <3>1. r(x) \in 0 .. n - 1
      BY <1>2
    <3> QED
      BY ONLY <1>2, <3>1
  <2>2. r(At(r(x) + 1)) = r(x) /\ At(r(x) + 1) \in S
    BY <1>4, <2>1
  <2>3. At(r(x) + 1) = x
    BY <1>2, <2>2
  <2> QED
    BY <2>1, <2>3
<1>6. DOMAIN L = 1 .. n /\ \A p \in 1 .. n : L[p] = Node(t, At(p))
  BY <1>3
<1> HIDE DEF At
<1>7. L \in Seq(Entries) /\ Len(L) = n
  <2>1. L \in [1 .. n -> Entries]
    BY <1>1, <1>3, <1>4
  <2> QED
    BY <1>2, <2>1
<1>8. \A p \in 1 .. n : \E x \in S : L[p] = Node(t, x) /\ r(x) = p - 1
  BY <1>4, <1>6
<1>9. \A x \in S : \E p \in 1 .. n : L[p] = Node(t, x)
  BY <1>5, <1>6
<1> QED
  BY <1>2, <1>6, <1>7, <1>8, <1>9 DEF r, L, n

-----------------------------------------------------------------------------
(* map_resize.                                                             *)

(* A resize moves nodes and changes none.                                  *)
LEMMA ResizeFacts ==
  ASSUME NEW t, Table(t), Placed(t), IsFiniteSet(HeldKeys(t)), NEW n \in Nat \ {0}
  PROVE  /\ Table(Resized(t, n)) /\ Placed(Resized(t, n))
         /\ Resized(t, n).nbuckets = n /\ Resized(t, n).nnodes = t.nnodes
         /\ \A k \in Keys : /\ Held(Resized(t, n), k) <=> Held(t, k)
                            /\ Lookup(Resized(t, n), k) = Lookup(t, k)
<1> DEFINE u == Resized(t, n)
           S(b) == {x \in Places(t) : BucketIdx(Node(t, x).key, n) = b}
           L(b) == Listed(t, S(b))
<1>1. /\ u.nbuckets = n /\ u.nnodes = t.nnodes
      /\ u.chain = [b \in 0 .. n - 1 |-> L(b)]
      /\ u \in [nbuckets : Nat, nnodes : Nat, chain : {u.chain}]
  BY DEF Resized, Table
<1>2. ASSUME NEW b \in 0 .. n - 1
      PROVE  /\ L(b) \in Seq(Entries)
             /\ DOMAIN L(b) = 1 .. Len(L(b))
             /\ \A p \in 1 .. Len(L(b)) : \E x \in S(b) :
                   L(b)[p] = Node(t, x) /\ Cardinality(Before(S(b), x)) = p - 1
             /\ \A x \in S(b) : \E p \in 1 .. Len(L(b)) : L(b)[p] = Node(t, x)
             /\ Len(L(b)) \in Nat
  <2>1. S(b) \in SUBSET Places(t) /\ IsFiniteSet(S(b))
    BY PlacesFinite, FS_Subset
  <2> HIDE DEF S
  <2> QED
    BY <2>1, ListedFacts
<1> HIDE DEF L
<1>3. Table(u)
  BY <1>1, <1>2 DEF Table
<1>4. ASSUME NEW y \in Places(u)
      PROVE  \E x \in S(y[1]) : /\ Node(u, y) = Node(t, x)
                                /\ Cardinality(Before(S(y[1]), x)) = y[2] - 1
  <2>1. y[1] \in 0 .. n - 1 /\ y[2] \in 1 .. Len(u.chain[y[1]])
    BY <1>1, <1>3, PlaceFacts
  <2>2. Node(u, y) = L(y[1])[y[2]] /\ u.chain[y[1]] = L(y[1])
    BY <1>1, <2>1 DEF Node
  <2>3. y[2] \in 1 .. Len(L(y[1]))
    BY <2>1, <2>2
  <2> HIDE DEF S
  <2> QED
    BY <1>2, <2>1, <2>2, <2>3
<1>5. ASSUME NEW x \in Places(t)
      PROVE  \E y \in Places(u) : Node(u, y) = Node(t, x)
  <2> DEFINE b == BucketIdx(Node(t, x).key, n)
  <2>1. b \in 0 .. n - 1
    BY PlaceFacts, BucketIdxRange DEF Entries
  <2>2. x \in S(b)
    OBVIOUS
  <2> HIDE DEF b
  <2>3. PICK p \in 1 .. Len(L(b)) : L(b)[p] = Node(t, x)
    BY <1>2, <2>1, <2>2
  <2>4. u.chain[b] = L(b) /\ b \in 0 .. u.nbuckets - 1
    BY <1>1, <2>1
  <2>5. <<b, p>> \in Places(u) /\ Node(u, <<b, p>>) = L(b)[p]
    BY <1>3, <2>4, PlaceFacts
  <2> QED
    BY <2>3, <2>5
<1>6. Placed(u)
  <2>1. ASSUME NEW y \in Places(u) PROVE BucketIdx(Node(u, y).key, u.nbuckets) = y[1]
    BY <1>1, <1>4
  <2>2. ASSUME NEW y \in Places(u), NEW z \in Places(u), Node(u, y).key = Node(u, z).key
        PROVE  y = z
    <3>1. y[1] = z[1]
      BY <2>1, <2>2
    <3>2. PICK x \in S(y[1]) : /\ Node(u, y) = Node(t, x)
                               /\ Cardinality(Before(S(y[1]), x)) = y[2] - 1
      BY <1>4
    <3>3. PICK w \in S(y[1]) : /\ Node(u, z) = Node(t, w)
                               /\ Cardinality(Before(S(y[1]), w)) = z[2] - 1
      BY <1>4, <3>1
    <3>4. x = w
      BY <2>2, <3>2, <3>3 DEF Placed
    <3>5. y[2] - 1 = z[2] - 1
      BY <3>2, <3>3, <3>4
    <3>6. y \in Nat \X Nat /\ z \in Nat \X Nat /\ y = <<y[1], y[2]>> /\ z = <<z[1], z[2]>>
      BY <1>3, PlaceFacts
    <3>7. y[2] \in Nat /\ z[2] \in Nat
      BY <3>6
    <3>8. y[2] = z[2]
      BY ONLY <3>5, <3>7
    <3> QED
      BY <3>1, <3>6, <3>8
  <2> QED
    BY <2>1, <2>2 DEF Placed
<1>7. ASSUME NEW k \in Keys
      PROVE  (Held(u, k) <=> Held(t, k)) /\ Lookup(u, k) = Lookup(t, k)
  <2> HIDE DEF u
  <2>1. Held(u, k) <=> Held(t, k)
    <3>1. Held(u, k) <=> \E y \in Places(u) : Node(u, y).key = k
      BY <1>3, <1>6, HeldFacts
    <3>2. Held(t, k) <=> \E x \in Places(t) : Node(t, x).key = k
      BY HeldFacts
    <3> QED
      BY <1>4, <1>5, <3>1, <3>2
  <2>2. CASE Held(t, k)
    <3>1. PICK x \in Places(t) : Node(t, x).key = k
      BY <2>2, HeldFacts
    <3>2. PICK y \in Places(u) : Node(u, y) = Node(t, x)
      BY <1>5
    <3>3. Lookup(t, k) = Node(t, x).value
      BY <3>1, HeldFacts
    <3>4. Lookup(u, k) = Node(u, y).value
      <4>1. Node(u, y).key = k
        BY <3>1, <3>2
      <4>2. \A z \in Places(u) : Node(u, z).key = k => Lookup(u, k) = Node(u, z).value
        BY <1>3, <1>6, HeldFacts
      <4> QED
        BY <4>1, <4>2
    <3> QED
      BY <2>1, <3>2, <3>3, <3>4
  <2>3. CASE ~ Held(t, k)
    BY <2>1, <2>3 DEF Lookup
  <2> QED
    BY <2>1, <2>2, <2>3
<1> QED
  BY <1>1, <1>3, <1>6, <1>7

-----------------------------------------------------------------------------
(* map_set_.                                                               *)

(* A new value in the node that is there.                                  *)
LEMMA OverwriteFacts ==
  ASSUME NEW t, Table(t), Placed(t), NEW k \in Keys, NEW v \in Values, Held(t, k)
  PROVE  /\ Table(With(t, k, v)) /\ Placed(With(t, k, v))
         /\ With(t, k, v).nbuckets = t.nbuckets /\ With(t, k, v).nnodes = t.nnodes
         /\ Places(With(t, k, v)) = Places(t)
         /\ \A x \in Places(t) :
               /\ Node(With(t, k, v), x).key = Node(t, x).key
               /\ Node(With(t, k, v), x).value =
                    IF Node(t, x).key = k THEN v ELSE Node(t, x).value
         /\ \A b \in 0 .. t.nbuckets - 1 : Len(With(t, k, v).chain[b]) = Len(t.chain[b])
<1> DEFINE n == t.nbuckets
           c == t.chain
           B == BucketIdx(k, n)
           I == Ref(t, k)
           u == With(t, k, v)
           e == [c[B][I] EXCEPT !.value = v]
<1>1. <<B, I>> \in Places(t) /\ Node(t, <<B, I>>) = c[B][I] /\ c[B][I].key = k
  BY HeldFacts DEF Node
<1>2. /\ n \in Nat /\ c \in [0 .. n - 1 -> Seq(Entries)]
      /\ B \in 0 .. n - 1 /\ I \in 1 .. Len(c[B])
  BY <1>1, PlaceFacts DEF Table
<1>3. c[B] \in Seq(Entries) /\ DOMAIN c[B] = 1 .. Len(c[B]) /\ c[B][I] \in Entries
  BY <1>2
<1>4. e \in Entries /\ e.key = k /\ e.value = v
  BY <1>1, <1>3 DEF Entries
<1>5. /\ u = [t EXCEPT !.chain = [c EXCEPT ![B] = [c[B] EXCEPT ![I] = e]]]
  BY DEF With
<1>6. /\ u.nbuckets = n /\ u.nnodes = t.nnodes
      /\ u.chain = [c EXCEPT ![B] = [c[B] EXCEPT ![I] = e]]
      /\ u \in [nbuckets : Nat, nnodes : Nat, chain : {u.chain}]
  BY <1>5 DEF Table
<1> HIDE DEF u, e
<1>7. /\ u.chain[B] = [c[B] EXCEPT ![I] = e]
      /\ \A b \in 0 .. n - 1 : b # B => u.chain[b] = c[b]
  BY <1>2, <1>6
<1>8. [c[B] EXCEPT ![I] = e] \in Seq(Entries) /\ Len([c[B] EXCEPT ![I] = e]) = Len(c[B])
  BY <1>2, <1>3, <1>4
<1>9. Table(u) /\ \A b \in 0 .. n - 1 : Len(u.chain[b]) = Len(c[b])
  <2>1. u.chain \in [0 .. n - 1 -> Seq(Entries)]
    BY <1>2, <1>6, <1>8
  <2> QED
    BY <1>6, <1>7, <1>8, <2>1 DEF Table
<1>10. Places(u) = Places(t)
  <2>1. \A b \in 0 .. n - 1 : DOMAIN u.chain[b] = DOMAIN c[b]
    BY <1>7
  <2> QED
    BY <1>6, <2>1 DEF Places
<1>11. ASSUME NEW x \in Places(t)
       PROVE  Node(u, x) = IF x = <<B, I>> THEN e ELSE Node(t, x)
  <2>1. /\ x = <<x[1], x[2]>> /\ x[1] \in 0 .. n - 1 /\ x[2] \in 1 .. Len(c[x[1]])
    BY PlaceFacts
  <2>2. CASE x = <<B, I>>
    BY <1>3, <1>7, <2>1, <2>2 DEF Node
  <2>3. CASE x # <<B, I>>
    BY <1>3, <1>7, <2>1, <2>3 DEF Node
  <2> QED
    BY <2>2, <2>3
<1>12. ASSUME NEW x \in Places(t)
       PROVE  /\ Node(u, x).key = Node(t, x).key
              /\ Node(u, x).value = IF Node(t, x).key = k THEN v ELSE Node(t, x).value
  <2>1. CASE x = <<B, I>>
    BY <1>1, <1>4, <1>11, <2>1
  <2>2. CASE x # <<B, I>>
    <3>1. Node(t, x).key # k
      BY <2>2, HeldFacts
    <3> QED
      BY <1>11, <2>2, <3>1
  <2> QED
    BY <2>1, <2>2
<1>13. Placed(u)
  BY <1>6, <1>10, <1>12 DEF Placed
<1> QED
  BY <1>6, <1>9, <1>10, <1>12, <1>13 DEF u

(* A new node is the first of its list.                                    *)
LEMMA AddNodeFacts ==
  ASSUME NEW t, Table(t), Placed(t), NEW k \in Keys, NEW v \in Values,
         ~ Held(t, k), t.nbuckets > 0,
         NEW u, u.chain = AddNode(t, k, v).chain,
         u.nbuckets = t.nbuckets, u.nnodes = t.nnodes + 1,
         u \in [nbuckets : Nat, nnodes : Nat, chain : {u.chain}]
  PROVE  /\ Table(u) /\ Placed(u)
         /\ u.nbuckets = t.nbuckets /\ u.nnodes = t.nnodes + 1
         /\ \A j \in Keys : /\ Held(u, j) <=> Held(t, j) \/ j = k
                            /\ Lookup(u, j) = IF j = k THEN v ELSE Lookup(t, j)
<1> DEFINE n == t.nbuckets
           c == t.chain
           B == BucketIdx(k, n)
           e == [key |-> k, value |-> v]
           list == <<e>> \o c[B]
           moved(x) == IF x[1] = B THEN <<B, x[2] + 1>> ELSE x
<1>1. n \in Nat \ {0} /\ B \in 0 .. n - 1 /\ c \in [0 .. n - 1 -> Seq(Entries)]
  BY BucketIdxRange DEF Table
<1>2. /\ u.nbuckets = n /\ u.nnodes = t.nnodes + 1
      /\ u.chain = [c EXCEPT ![B] = list]
      /\ u \in [nbuckets : Nat, nnodes : Nat, chain : {u.chain}]
  <2>1. AddNode(t, k, v).chain = [c EXCEPT ![B] = list]
    BY DEF AddNode, Table
  <2> QED
    BY <2>1
<1>3. /\ e \in Entries /\ c[B] \in Seq(Entries)
  BY <1>1 DEF Entries
<1>4. /\ list \in Seq(Entries) /\ Len(list) = Len(c[B]) + 1 /\ Len(c[B]) \in Nat
      /\ list[1] = e /\ \A i \in 1 .. Len(c[B]) : list[i + 1] = c[B][i]
  BY <1>3
<1> HIDE DEF list
<1>5. /\ u.chain[B] = list
      /\ \A b \in 0 .. n - 1 : b # B => u.chain[b] = c[b]
  BY <1>1, <1>2
<1>6. Table(u)
  <2>1. u.chain \in [0 .. n - 1 -> Seq(Entries)]
    BY <1>1, <1>2, <1>4
  <2> QED
    BY <1>2, <2>1 DEF Table
<1>7. ASSUME NEW x \in Places(t)
      PROVE  moved(x) \in Places(u) /\ Node(u, moved(x)) = Node(t, x) /\ moved(x) # <<B, 1>>
  <2>1. x = <<x[1], x[2]>> /\ x[1] \in 0 .. n - 1 /\ x[2] \in 1 .. Len(c[x[1]])
    BY PlaceFacts
  <2>2. CASE x[1] = B
    <3>1. x[2] + 1 \in 1 .. Len(list) /\ x[2] + 1 # 1
      BY <1>4, <2>1, <2>2
    <3>2. <<B, x[2] + 1>> \in Places(u) /\ Node(u, <<B, x[2] + 1>>) = list[x[2] + 1]
      BY <1>1, <1>2, <1>5, <1>6, <3>1, PlaceFacts
    <3> QED
      BY <1>4, <2>1, <2>2, <3>1, <3>2 DEF Node
  <2>3. CASE x[1] # B
    <3>1. u.chain[x[1]] = c[x[1]] /\ x[1] \in 0 .. u.nbuckets - 1
      BY <1>2, <1>5, <2>1, <2>3
    <3>2. <<x[1], x[2]>> \in Places(u) /\ Node(u, <<x[1], x[2]>>) = u.chain[x[1]][x[2]]
      <4>1. x[2] \in 1 .. Len(u.chain[x[1]])
        BY <2>1, <3>1
      <4>2. \A b \in 0 .. u.nbuckets - 1 : \A i \in 1 .. Len(u.chain[b]) :
               <<b, i>> \in Places(u) /\ Node(u, <<b, i>>) = u.chain[b][i]
        BY ONLY <1>6, PlaceFacts
      <4> QED
        BY ONLY <3>1, <4>1, <4>2
    <3>3. moved(x) = x /\ x # <<B, 1>>
      BY <2>3
    <3> QED
      BY <2>1, <3>1, <3>2, <3>3 DEF Node
  <2> QED
    BY <2>2, <2>3
<1>8. <<B, 1>> \in Places(u) /\ Node(u, <<B, 1>>) = e
  <2>1. 1 \in 1 .. Len(list)
    BY <1>4
  <2> QED
    BY <1>1, <1>2, <1>4, <1>5, <1>6, <2>1, PlaceFacts
<1>9. ASSUME NEW y \in Places(u), y # <<B, 1>>
      PROVE  \E x \in Places(t) : y = moved(x) /\ x[1] = y[1]
  <2>1. y = <<y[1], y[2]>> /\ y[1] \in 0 .. n - 1 /\ y[2] \in 1 .. Len(u.chain[y[1]])
    BY <1>2, <1>6, PlaceFacts
  <2>2. CASE y[1] = B
    <3>1. y[2] \in 1 .. Len(c[B]) + 1 /\ y[2] # 1
      BY <1>4, <1>5, <1>9, <2>1, <2>2
    <3>2. y[2] - 1 \in 1 .. Len(c[B]) /\ (y[2] - 1) + 1 = y[2]
      BY ONLY <1>4, <3>1
    <3>3. <<B, y[2] - 1>> \in Places(t)
      BY <1>1, <3>2, PlaceFacts
    <3>4. y = moved(<<B, y[2] - 1>>)
      BY <2>1, <2>2, <3>2
    <3> QED
      BY <2>2, <3>3, <3>4
  <2>3. CASE y[1] # B
    <3>1. y \in Places(t)
      BY <1>5, <2>1, <2>3, PlaceFacts
    <3> QED
      BY <2>3, <3>1
  <2> QED
    BY <2>2, <2>3
<1>10. \A x \in Places(t) : Node(t, x).key # k
  BY HeldFacts
<1> HIDE DEF moved
<1>11. Placed(u)
  <2>1. ASSUME NEW y \in Places(u) PROVE BucketIdx(Node(u, y).key, u.nbuckets) = y[1]
    <3>1. CASE y = <<B, 1>>
      BY <1>2, <1>8, <3>1
    <3>2. CASE y # <<B, 1>>
      <4>1. PICK x \in Places(t) : y = moved(x) /\ x[1] = y[1]
        BY <1>9, <3>2
      <4>2. Node(u, y) = Node(t, x)
        BY <1>7, <4>1
      <4>3. BucketIdx(Node(t, x).key, n) = x[1]
        BY DEF Placed
      <4> QED
        BY <1>2, <4>1, <4>2, <4>3
    <3> QED
      BY <3>1, <3>2
  <2>2. ASSUME NEW y \in Places(u), NEW z \in Places(u), Node(u, y).key = Node(u, z).key
        PROVE  y = z
    <3>1. CASE y = <<B, 1>> \/ z = <<B, 1>>
      <4>1. Node(u, y).key = k /\ Node(u, z).key = k
        BY <1>8, <2>2, <3>1
      <4> QED
        BY <1>7, <1>9, <1>10, <4>1
    <3>2. CASE y # <<B, 1>> /\ z # <<B, 1>>
      <4>1. PICK x \in Places(t) : y = moved(x)
        BY <1>9, <3>2
      <4>2. PICK w \in Places(t) : z = moved(w)
        BY <1>9, <3>2
      <4>3. x = w
        BY <1>7, <2>2, <4>1, <4>2 DEF Placed
      <4> QED
        BY <4>1, <4>2, <4>3
    <3> QED
      BY <3>1, <3>2
  <2> QED
    BY <2>1, <2>2 DEF Placed
<1>12. ASSUME NEW j \in Keys
       PROVE  /\ Held(u, j) <=> Held(t, j) \/ j = k
              /\ Lookup(u, j) = IF j = k THEN v ELSE Lookup(t, j)
  <2>0. e.key = k /\ e.value = v
    OBVIOUS
  <2> HIDE DEF e, B
  <2>1. Held(u, j) <=> \E y \in Places(u) : Node(u, y).key = j
    BY ONLY <1>6, <1>11, <1>12, HeldFacts
  <2>2. Held(t, j) <=> \E x \in Places(t) : Node(t, x).key = j
    BY HeldFacts
  <2>3. Held(u, j) <=> Held(t, j) \/ j = k
    <3>1. ASSUME Held(u, j) PROVE Held(t, j) \/ j = k
      <4>1. PICK y \in Places(u) : Node(u, y).key = j
        BY <2>1, <3>1
      <4>2. CASE y = <<B, 1>>
        BY ONLY <1>8, <2>0, <4>1, <4>2
      <4>3. CASE y # <<B, 1>>
        <5>1. PICK x \in Places(t) : y = moved(x)
          BY <1>9, <4>3
        <5> QED
          BY ONLY <1>7, <2>2, <4>1, <5>1
      <4> QED
        BY <4>2, <4>3
    <3>2. ASSUME Held(t, j) PROVE Held(u, j)
      <4>1. PICK x \in Places(t) : Node(t, x).key = j
        BY <2>2, <3>2
      <4> QED
        BY ONLY <1>7, <2>1, <4>1
    <3>3. j = k => Held(u, j)
      BY ONLY <1>8, <2>0, <2>1
    <3> QED
      BY <3>1, <3>2, <3>3
  <2>4. \A y \in Places(u) : Node(u, y).key = j => Lookup(u, j) = Node(u, y).value
    BY ONLY <1>6, <1>11, <1>12, HeldFacts
  <2>5. \A x \in Places(t) : Node(t, x).key = j => Lookup(t, j) = Node(t, x).value
    BY HeldFacts
  <2>6. CASE j = k
    <3>1. Node(u, <<B, 1>>).key = j /\ Node(u, <<B, 1>>).value = v
      BY <1>8, <2>0, <2>6
    <3>2. Lookup(u, j) = v
      BY ONLY <1>8, <2>4, <3>1
    <3> QED
      BY <2>3, <2>6, <3>2
  <2>7. CASE j # k /\ Held(t, j)
    <3>1. PICK x \in Places(t) : Node(t, x).key = j
      BY <2>2, <2>7
    <3> QED
      <4>1. Lookup(u, j) = Node(t, x).value
        BY ONLY <1>7, <2>4, <3>1
      <4>2. Lookup(t, j) = Node(t, x).value
        BY ONLY <2>5, <3>1
      <4> QED
        BY <2>3, <2>7, <4>1, <4>2
  <2>8. CASE j # k /\ ~ Held(t, j)
    BY <2>3, <2>8 DEF Lookup
  <2> QED
    BY <2>3, <2>6, <2>7, <2>8
<1> QED
  BY <1>2, <1>6, <1>11, <1>12

\* What holds of a map after each of its calls.
Good(t) ==
    /\ Table(t) /\ Placed(t)
    /\ IsFiniteSet(HeldKeys(t)) /\ t.nnodes = Cardinality(HeldKeys(t))

\* It has no bucket yet, or a power of two of them.
Sized(t) ==
    t.nbuckets = 0 \/ \A d \in 1 .. t.nbuckets : t.nbuckets % d = 0 => d = 1 \/ d % 2 = 0

(* Twice a power of two is one.                                            *)
LEMMA Doubled ==
  ASSUME NEW n \in Nat \ {0}, \A d \in 1 .. n : n % d = 0 => d = 1 \/ d % 2 = 0,
         NEW d \in 1 .. 2 * n, (2 * n) % d = 0, d % 2 # 0
  PROVE  d = 1
<1> DEFINE q == (2 * n) \div d
           e == d \div 2
           r == n - e * q
<1>1. q \in Nat /\ 2 * n = d * q
  OBVIOUS
<1>2. e \in Nat /\ d = 2 * e + 1 /\ d \in Nat /\ d > 0
  OBVIOUS
<1> HIDE DEF q, e
<1>3. r \in Int /\ 2 * (e * q) = (2 * e) * q /\ d * q = (2 * e) * q + q
  BY <1>1, <1>2
<1>4. 2 * r = q
  BY <1>1, <1>2, <1>3
<1> HIDE DEF r
<1>5. d * (2 * r) = 2 * (d * r) /\ d * r \in Int
  BY ONLY <1>2, <1>3
<1>6. n = d * r
  <2>1. 2 * n = 2 * (d * r)
    BY <1>1, <1>4, <1>5
  <2> QED
    BY ONLY <1>5, <2>1, n \in Nat
<1>7. r \in Nat /\ r > 0
  BY <1>1, <1>3, <1>4
<1>8. n % d = 0 /\ d <= n
  BY <1>2, <1>6, <1>7
<1> QED
  BY <1>2, <1>8

(* The size that a table grows to.                                         *)
LEMMA GrownSized ==
  ASSUME NEW t, t.nbuckets \in Nat, Sized(t)
  PROVE  \A d \in 1 .. NewSize(t) : NewSize(t) % d = 0 => d = 1 \/ d % 2 = 0
<1>1. CASE t.nbuckets = 0
  BY <1>1 DEF NewSize
<1>2. CASE t.nbuckets # 0
  <2>1. t.nbuckets \in Nat \ {0} /\ NewSize(t) = 2 * t.nbuckets
    BY <1>2 DEF NewSize
  <2>2. \A d \in 1 .. t.nbuckets : t.nbuckets % d = 0 => d = 1 \/ d % 2 = 0
    BY <1>2 DEF Sized
  <2> QED
    BY ONLY <2>1, <2>2, Doubled
<1> QED
  BY <1>1, <1>2

\* Two tables have the same keys at the same places.
SamePlaces(u, t) ==
    /\ u.nbuckets = t.nbuckets /\ Places(u) = Places(t)
    /\ \A x \in Places(t) : Node(u, x).key = Node(t, x).key

(* A map_set_ leaves a good table, in which one key has a new value.       *)
LEMMA WithFacts ==
  ASSUME NEW t, Good(t), NEW k \in Keys, NEW v \in Values
  PROVE  /\ Good(With(t, k, v))
         /\ With(t, k, v).nnodes = IF Held(t, k) THEN t.nnodes ELSE t.nnodes + 1
         /\ Held(t, k) => SamePlaces(With(t, k, v), t)
         /\ Sized(t) => Sized(With(t, k, v))
         /\ \A j \in Keys : /\ Held(With(t, k, v), j) <=> Held(t, j) \/ j = k
                            /\ Lookup(With(t, k, v), j) = IF j = k THEN v ELSE Lookup(t, j)
<1> DEFINE u == With(t, k, v)
<1>1. /\ Table(t) /\ Placed(t) /\ IsFiniteSet(HeldKeys(t))
      /\ t.nnodes = Cardinality(HeldKeys(t)) /\ t.nnodes \in Nat /\ t.nbuckets \in Nat
  BY DEF Good, Table
<1>2. SUFFICES
        /\ Table(u) /\ Placed(u)
        /\ u.nnodes = IF Held(t, k) THEN t.nnodes ELSE t.nnodes + 1
        /\ Held(t, k) => SamePlaces(u, t)
        /\ Sized(t) => Sized(u)
        /\ \A j \in Keys : /\ Held(u, j) <=> Held(t, j) \/ j = k
                           /\ Lookup(u, j) = IF j = k THEN v ELSE Lookup(t, j)
  <2> HIDE DEF u
  <2>1. HeldKeys(u) = HeldKeys(t) \cup {k}
    BY <1>2 DEF HeldKeys
  <2>2. k \in HeldKeys(t) <=> Held(t, k)
    BY DEF HeldKeys
  <2>3. /\ IsFiniteSet(HeldKeys(u))
        /\ Cardinality(HeldKeys(u)) = IF Held(t, k) THEN t.nnodes ELSE t.nnodes + 1
    BY <1>1, <2>1, <2>2, FS_AddElement
  <2>4. Good(u)
    BY <1>2, <2>3 DEF Good
  <2> QED
    BY <1>2, <2>4 DEF u
<1>3. CASE Held(t, k)
  <2>1. /\ Table(u) /\ Placed(u) /\ u.nnodes = t.nnodes /\ Places(u) = Places(t)
        /\ u.nbuckets = t.nbuckets
        /\ \A x \in Places(t) :
              /\ Node(u, x).key = Node(t, x).key
              /\ Node(u, x).value = IF Node(t, x).key = k THEN v ELSE Node(t, x).value
    BY <1>1, <1>3, OverwriteFacts
  <2> HIDE DEF u
  <2>2. ASSUME NEW j \in Keys
        PROVE  /\ Held(u, j) <=> Held(t, j) \/ j = k
               /\ Lookup(u, j) = IF j = k THEN v ELSE Lookup(t, j)
    <3>1. /\ Held(u, j) <=> \E x \in Places(u) : Node(u, x).key = j
          /\ \A x \in Places(u) : Node(u, x).key = j => Lookup(u, j) = Node(u, x).value
      <4>1. Table(u) /\ Placed(u) /\ j \in Keys
        BY <2>1
      <4> QED
        BY ONLY <4>1, HeldFacts
    <3>2. /\ Held(t, j) <=> \E x \in Places(t) : Node(t, x).key = j
          /\ \A x \in Places(t) : Node(t, x).key = j => Lookup(t, j) = Node(t, x).value
      BY ONLY <1>1, <2>2, HeldFacts
    <3>3. Held(u, j) <=> Held(t, j)
      BY <2>1, <3>1, <3>2
    <3>4. CASE Held(t, j)
      <4>1. PICK x \in Places(t) : Node(t, x).key = j
        BY <3>2, <3>4
      <4>2. Lookup(t, j) = Node(t, x).value /\ Lookup(u, j) = Node(u, x).value
        BY <2>1, <3>1, <3>2, <4>1
      <4> QED
        BY <2>1, <3>3, <3>4, <4>1, <4>2
    <3>5. CASE ~ Held(t, j)
      BY <1>3, <3>3, <3>5 DEF Lookup
    <3> QED
      BY <3>4, <3>5
  <2> QED
    BY <1>3, <2>1, <2>2 DEF SamePlaces, Sized
<1>4. CASE ~ Held(t, k)
  <2> DEFINE g == IF MustGrow(t) THEN Resized(t, NewSize(t)) ELSE t
  <2>1. /\ Table(g) /\ Placed(g) /\ g.nbuckets > 0 /\ g.nnodes = t.nnodes
        /\ \A j \in Keys : (Held(g, j) <=> Held(t, j)) /\ Lookup(g, j) = Lookup(t, j)
    <3>1. CASE MustGrow(t)
      <4>1. NewSize(t) \in Nat \ {0} /\ NewSize(t) > 0
        BY <1>1 DEF NewSize
      <4> QED
        BY <1>1, <3>1, <4>1, ResizeFacts
    <3>2. CASE ~ MustGrow(t)
      <4>1. t.nbuckets > 0
        BY <1>1, <3>2 DEF MustGrow
      <4> QED
        BY <1>1, <3>2, <4>1
    <3> QED
      BY <3>1, <3>2
  <2>2. u = [AddNode(g, k, v) EXCEPT !.nnodes = t.nnodes + 1]
    BY <1>4 DEF With
  <2> HIDE DEF g, u
  <2>3. ~ Held(g, k)
    BY <1>4, <2>1
  <2>4. AddNode(g, k, v) = [g EXCEPT !.chain = AddNode(g, k, v).chain]
    BY <2>1 DEF AddNode, Table
  <2>5. /\ u.chain = AddNode(g, k, v).chain /\ u.nbuckets = g.nbuckets
        /\ u.nnodes = g.nnodes + 1
        /\ u \in [nbuckets : Nat, nnodes : Nat, chain : {u.chain}]
    <3> DEFINE d == AddNode(g, k, v).chain
    <3> HIDE DEF d
    <3>1. u = [[g EXCEPT !.chain = d] EXCEPT !.nnodes = t.nnodes + 1]
      BY <2>2, <2>4 DEF d
    <3>2. g \in [nbuckets : Nat, nnodes : Nat, chain : {g.chain}]
      BY <2>1 DEF Table
    <3>3. u.chain = d /\ u.nbuckets = g.nbuckets /\ u.nnodes = t.nnodes + 1
      BY ONLY <3>1, <3>2
    <3>4. t.nnodes + 1 \in Nat
      BY <1>1
    <3>5. u \in [nbuckets : Nat, nnodes : Nat, chain : {d}]
      BY ONLY <3>1, <3>2, <3>4
    <3> QED
      BY <2>1, <3>3, <3>5 DEF d
  <2>6. /\ Table(u) /\ Placed(u)
        /\ \A j \in Keys : /\ Held(u, j) <=> Held(g, j) \/ j = k
                           /\ Lookup(u, j) = IF j = k THEN v ELSE Lookup(g, j)
    BY ONLY <2>1, <2>3, <2>5, AddNodeFacts, k \in Keys, v \in Values
  <2>7. Sized(t) => Sized(u)
    <3>1. g.nbuckets = IF MustGrow(t) THEN NewSize(t) ELSE t.nbuckets
      BY <1>1 DEF g, Resized, Table
    <3> QED
      BY <1>1, <2>5, <3>1, GrownSized DEF Sized
  <2> QED
    BY <1>4, <2>1, <2>5, <2>6, <2>7
<1> QED
  BY <1>3, <1>4

-----------------------------------------------------------------------------
(* map_remove_.                                                            *)

(* A list without one of its nodes.                                        *)
LEMMA UnlinkedFacts ==
  ASSUME NEW E, NEW list \in Seq(E), NEW i \in 1 .. Len(list)
  PROVE  /\ Unlinked(list, i) \in Seq(E) /\ Len(Unlinked(list, i)) = Len(list) - 1
         /\ \A p \in 1 .. Len(list) - 1 :
               Unlinked(list, i)[p] = IF p < i THEN list[p] ELSE list[p + 1]
<1> DEFINE a == SubSeq(list, 1, i - 1)
           b == SubSeq(list, i + 1, Len(list))
<1>1. Len(list) \in Nat /\ i \in Nat /\ 1 <= i /\ i <= Len(list)
  OBVIOUS
<1>2. a \in Seq(E) /\ Len(a) = i - 1 /\ \A p \in 1 .. i - 1 : a[p] = list[p]
  BY <1>1
<1>3. /\ b \in Seq(E) /\ Len(b) = Len(list) - i
      /\ \A p \in 1 .. Len(list) - i : b[p] = list[i + p]
  BY <1>1
<1> HIDE DEF a, b
<1>4. /\ a \o b \in Seq(E) /\ Len(a \o b) = Len(list) - 1
  <2>1. a \o b \in Seq(E) /\ Len(a \o b) = Len(a) + Len(b)
    <3>1. a \in Seq(E) /\ b \in Seq(E)
      BY <1>2, <1>3
    <3> QED
      BY ONLY <3>1
  <2> QED
    BY ONLY <1>1, <1>2, <1>3, <2>1
<1>5. ASSUME NEW p \in 1 .. Len(list) - 1
      PROVE  (a \o b)[p] = IF p < i THEN list[p] ELSE list[p + 1]
  <2>1. CASE p < i
    <3>1. p \in 1 .. i - 1 /\ p \in 1 .. Len(a)
      BY ONLY <1>1, <1>2, <2>1, p \in 1 .. Len(list) - 1
    <3> QED
      BY <1>2, <1>3, <2>1, <3>1
  <2>2. CASE ~ (p < i)
    <3>1. /\ p - (i - 1) \in 1 .. Len(list) - i /\ i + (p - (i - 1)) = p + 1
          /\ p \in Len(a) + 1 .. Len(a) + Len(b)
      BY ONLY <1>1, <1>2, <1>3, <2>2, p \in 1 .. Len(list) - 1
    <3>2. (a \o b)[p] = b[p - Len(a)]
      BY ONLY <1>2, <1>3, <3>1
    <3> QED
      BY <1>2, <1>3, <2>2, <3>1, <3>2
  <2> QED
    BY <2>1, <2>2
<1> QED
  BY <1>4, <1>5 DEF Unlinked, a, b

(* A removal takes one key out and moves the nodes behind it.              *)
LEMMA RemoveFacts ==
  ASSUME NEW t, Good(t), NEW k \in Keys, Held(t, k),
         NEW u,
         u.chain = [t.chain EXCEPT ![BucketIdx(k, t.nbuckets)] = Unlinked(@, Ref(t, k))],
         u.nbuckets = t.nbuckets, u.nnodes = t.nnodes - 1,
         u \in [nbuckets : {u.nbuckets}, nnodes : {u.nnodes}, chain : {u.chain}]
  PROVE  /\ Good(u)
         /\ \A j \in Keys : /\ Held(u, j) <=> Held(t, j) /\ j # k
                            /\ Lookup(u, j) = IF j = k THEN None ELSE Lookup(t, j)
<1> DEFINE n == t.nbuckets
           c == t.chain
           B == BucketIdx(k, n)
           I == Ref(t, k)
           list == Unlinked(c[B], I)
           \* Where a node was.
           from(y) == IF y[1] = B /\ y[2] >= I THEN <<B, y[2] + 1>> ELSE y
<1>1. /\ Table(t) /\ Placed(t) /\ IsFiniteSet(HeldKeys(t))
      /\ t.nnodes = Cardinality(HeldKeys(t)) /\ t.nnodes \in Nat
  BY DEF Good, Table
<1>2. <<B, I>> \in Places(t) /\ Node(t, <<B, I>>).key = k
  BY <1>1, HeldFacts
<1>3. /\ n \in Nat /\ c \in [0 .. n - 1 -> Seq(Entries)]
      /\ B \in 0 .. n - 1 /\ I \in 1 .. Len(c[B]) /\ c[B] \in Seq(Entries)
      /\ Len(c[B]) \in Nat
  BY <1>1, <1>2, PlaceFacts DEF Table
<1>4. /\ list \in Seq(Entries) /\ Len(list) = Len(c[B]) - 1
      /\ \A p \in 1 .. Len(c[B]) - 1 : list[p] = IF p < I THEN c[B][p] ELSE c[B][p + 1]
  BY <1>3, UnlinkedFacts
<1>5. u.chain = [c EXCEPT ![B] = list]
  OBVIOUS
<1> HIDE DEF list
<1>6. /\ u.chain[B] = list
      /\ \A b \in 0 .. n - 1 : b # B => u.chain[b] = c[b]
  BY <1>3, <1>5
<1>7. /\ IsFiniteSet(HeldKeys(t) \ {k})
      /\ Cardinality(HeldKeys(t) \ {k}) = t.nnodes - 1 /\ t.nnodes - 1 \in Nat
  <2>1. k \in HeldKeys(t)
    BY DEF HeldKeys
  <2>2. /\ IsFiniteSet(HeldKeys(t) \ {k})
        /\ Cardinality(HeldKeys(t) \ {k}) = Cardinality(HeldKeys(t)) - 1
    BY <1>1, <2>1, FS_RemoveElement
  <2>3. Cardinality(HeldKeys(t) \ {k}) \in Nat
    BY <2>2, FS_CardinalityType
  <2> QED
    BY <1>1, <2>2, <2>3
<1>8. Table(u)
  <2>1. u.chain \in [0 .. n - 1 -> Seq(Entries)]
    BY <1>3, <1>4, <1>5
  <2>2. u \in [nbuckets : Nat, nnodes : Nat, chain : {u.chain}]
    BY <1>1, <1>3, <1>7
  <2> QED
    BY <2>1, <2>2 DEF Table
<1>9. ASSUME NEW y \in Places(u)
      PROVE  /\ from(y) \in Places(t) /\ Node(u, y) = Node(t, from(y))
             /\ from(y)[1] = y[1] /\ from(y) # <<B, I>>
  <2>1. y = <<y[1], y[2]>> /\ y[1] \in 0 .. n - 1 /\ y[2] \in 1 .. Len(u.chain[y[1]])
    BY <1>8, PlaceFacts
  <2>2. CASE y[1] = B
    <3>1. y[2] \in 1 .. Len(c[B]) - 1 /\ Node(u, y) = list[y[2]]
      BY <1>4, <1>6, <2>1, <2>2 DEF Node
    <3>2. y[2] \in 1 .. Len(c[B]) /\ y[2] + 1 \in 1 .. Len(c[B]) /\ I \in Nat
          /\ y[2] \in Nat
      BY ONLY <1>3, <3>1
    <3>3. CASE y[2] >= I
      <4>1. from(y) = <<B, y[2] + 1>> /\ ~ (y[2] < I) /\ y[2] + 1 # I
        BY <2>2, <3>2, <3>3
      <4>2. <<B, y[2] + 1>> \in Places(t) /\ Node(t, <<B, y[2] + 1>>) = c[B][y[2] + 1]
        BY <1>1, <1>3, <3>2, PlaceFacts
      <4>3. Node(u, y) = c[B][y[2] + 1]
        BY <1>4, <3>1, <4>1
      <4> QED
        BY <2>2, <4>1, <4>2, <4>3
    <3>4. CASE ~ (y[2] >= I)
      <4>1. from(y) = <<B, y[2]>> /\ y[2] < I /\ y[2] # I
        BY <2>1, <2>2, <3>2, <3>4
      <4>2. <<B, y[2]>> \in Places(t) /\ Node(t, <<B, y[2]>>) = c[B][y[2]]
        BY <1>1, <1>3, <3>2, PlaceFacts
      <4>3. Node(u, y) = c[B][y[2]]
        BY <1>4, <3>1, <4>1
      <4> QED
        BY <2>2, <4>1, <4>2, <4>3
    <3> QED
      BY <3>3, <3>4
  <2>3. CASE y[1] # B
    <3>1. from(y) = <<y[1], y[2]>> /\ u.chain[y[1]] = c[y[1]] /\ from(y) # <<B, I>>
      BY <1>6, <2>1, <2>3
    <3>2. y[2] \in 1 .. Len(c[y[1]])
      BY <2>1, <3>1
    <3>3. <<y[1], y[2]>> \in Places(t) /\ Node(t, <<y[1], y[2]>>) = c[y[1]][y[2]]
      BY <1>1, <2>1, <3>2, PlaceFacts
    <3> QED
      BY <2>1, <3>1, <3>3 DEF Node
  <2> QED
    BY <2>2, <2>3
<1>10. ASSUME NEW x \in Places(t), x # <<B, I>>
       PROVE  \E y \in Places(u) : x = from(y)
  <2>1. x = <<x[1], x[2]>> /\ x[1] \in 0 .. n - 1 /\ x[2] \in 1 .. Len(c[x[1]])
    BY <1>1, PlaceFacts
  <2>2. CASE x[1] = B
    <3>1. x[2] \in 1 .. Len(c[B]) /\ x[2] # I
      BY <1>10, <2>1, <2>2
    <3>2. CASE x[2] > I
      <4>1. /\ x[2] - 1 \in 1 .. Len(c[B]) - 1 /\ x[2] - 1 >= I
            /\ (x[2] - 1) + 1 = x[2]
        BY ONLY <1>3, <3>1, <3>2
      <4>2. x[2] - 1 \in 1 .. Len(u.chain[B])
        BY <1>4, <1>6, <4>1
      <4>3. <<B, x[2] - 1>> \in Places(u)
        BY <1>3, <1>8, <4>2, PlaceFacts
      <4>4. from(<<B, x[2] - 1>>) = x
        BY <2>1, <2>2, <4>1
      <4> QED
        BY <4>3, <4>4
    <3>3. CASE ~ (x[2] > I)
      <4>1. x[2] \in 1 .. Len(c[B]) - 1 /\ ~ (x[2] >= I)
        BY ONLY <1>3, <3>1, <3>3
      <4>2. x[2] \in 1 .. Len(u.chain[B])
        BY <1>4, <1>6, <4>1
      <4>3. <<B, x[2]>> \in Places(u)
        BY <1>3, <1>8, <4>2, PlaceFacts
      <4>4. from(<<B, x[2]>>) = x
        BY <2>1, <2>2, <4>1
      <4> QED
        BY <4>3, <4>4
    <3> QED
      BY <3>2, <3>3
  <2>3. CASE x[1] # B
    <3>1. x[2] \in 1 .. Len(u.chain[x[1]])
      BY <1>6, <2>1, <2>3
    <3>2. <<x[1], x[2]>> \in Places(u)
      BY <1>8, <2>1, <3>1, PlaceFacts
    <3>3. from(<<x[1], x[2]>>) = x
      BY <2>1, <2>3
    <3> QED
      BY <3>2, <3>3
  <2> QED
    BY <2>2, <2>3
<1>11. ASSUME NEW y \in Places(u), NEW z \in Places(u), from(y) = from(z)
       PROVE  y = z
  <2>1. /\ y = <<y[1], y[2]>> /\ y[2] \in Nat /\ z = <<z[1], z[2]>> /\ z[2] \in Nat
    <3>1. y = <<y[1], y[2]>> /\ y \in Nat \X Nat
      BY <1>8, PlaceFacts
    <3>2. z = <<z[1], z[2]>> /\ z \in Nat \X Nat
      BY <1>8, PlaceFacts
    <3> QED
      BY <3>1, <3>2
  <2>2. y[1] = z[1]
    <3>1. from(y)[1] = y[1] /\ from(z)[1] = z[1]
      BY <1>9
    <3> QED
      BY <1>11, <3>1
  <2>3. I \in Nat
    BY <1>3
  <2>4. from(y)[2] = IF y[1] = B /\ y[2] >= I THEN y[2] + 1 ELSE y[2]
    OBVIOUS
  <2>5. from(z)[2] = IF z[1] = B /\ z[2] >= I THEN z[2] + 1 ELSE z[2]
    OBVIOUS
  <2>6. from(y)[2] = from(z)[2]
    BY <1>11
  <2> DEFINE p == from(y)[2]
             q == from(z)[2]
  <2> HIDE DEF p, q, B, I
  <2>7. y[2] = z[2]
    <3>1. p = q /\ p = (IF y[1] = B /\ y[2] >= I THEN y[2] + 1 ELSE y[2])
          /\ q = (IF y[1] = B /\ z[2] >= I THEN z[2] + 1 ELSE z[2])
      BY ONLY <2>2, <2>4, <2>5, <2>6 DEF p, q
    <3>2. \A f, g, i \in Nat :
             (IF f >= i THEN f + 1 ELSE f) = (IF g >= i THEN g + 1 ELSE g) => f = g
      OBVIOUS
    <3>3. CASE y[1] = B
      BY ONLY <2>1, <2>3, <3>1, <3>2, <3>3
    <3>4. CASE y[1] # B
      BY ONLY <3>1, <3>4
    <3> QED
      BY <3>3, <3>4
  <2> QED
    BY ONLY <2>1, <2>2, <2>7
<1> HIDE DEF from
<1>12. Placed(u)
  <2>1. ASSUME NEW y \in Places(u) PROVE BucketIdx(Node(u, y).key, u.nbuckets) = y[1]
    <3>1. from(y) \in Places(t) /\ Node(u, y) = Node(t, from(y)) /\ from(y)[1] = y[1]
      BY <1>9
    <3>2. BucketIdx(Node(t, from(y)).key, n) = from(y)[1]
      BY <1>1, <3>1 DEF Placed
    <3> QED
      BY <3>1, <3>2
  <2>2. ASSUME NEW y \in Places(u), NEW z \in Places(u), Node(u, y).key = Node(u, z).key
        PROVE  y = z
    <3>1. /\ from(y) \in Places(t) /\ Node(u, y) = Node(t, from(y))
          /\ from(z) \in Places(t) /\ Node(u, z) = Node(t, from(z))
      BY <1>9
    <3>2. from(y) = from(z)
      BY <1>1, <2>2, <3>1 DEF Placed
    <3> QED
      BY <1>11, <3>2
  <2> QED
    BY <2>1, <2>2 DEF Placed
<1>13. ASSUME NEW j \in Keys
       PROVE  /\ Held(u, j) <=> Held(t, j) /\ j # k
              /\ Lookup(u, j) = IF j = k THEN None ELSE Lookup(t, j)
  <2> HIDE DEF B, I
  <2>1. /\ Held(u, j) <=> \E y \in Places(u) : Node(u, y).key = j
        /\ \A y \in Places(u) : Node(u, y).key = j => Lookup(u, j) = Node(u, y).value
    BY ONLY <1>8, <1>12, <1>13, HeldFacts
  <2>2. /\ Held(t, j) <=> \E x \in Places(t) : Node(t, x).key = j
        /\ \A x \in Places(t) : Node(t, x).key = j => Lookup(t, j) = Node(t, x).value
    BY ONLY <1>1, <1>13, HeldFacts
  <2>3. \A x \in Places(t) : Node(t, x).key = k => x = <<B, I>>
    BY <1>1, <1>2 DEF Placed
  <2>4. ASSUME Held(u, j) PROVE Held(t, j) /\ j # k
    <3>1. PICK y \in Places(u) : Node(u, y).key = j
      BY <2>1, <2>4
    <3>2. from(y) \in Places(t) /\ Node(t, from(y)).key = j /\ from(y) # <<B, I>>
      BY <1>9, <3>1
    <3> QED
      BY ONLY <2>2, <2>3, <3>2
  <2>5. ASSUME Held(t, j), j # k
        PROVE  Held(u, j) /\ Lookup(u, j) = Lookup(t, j)
    <3>1. PICK x \in Places(t) : Node(t, x).key = j
      BY <2>2, <2>5
    <3>2. PICK y \in Places(u) : x = from(y)
      BY <1>2, <1>10, <2>5, <3>1
    <3>3. Node(u, y) = Node(t, x)
      BY <1>9, <3>2
    <3>4. Lookup(u, j) = Node(u, y).value /\ Held(u, j)
      BY ONLY <2>1, <3>1, <3>3
    <3>5. Lookup(t, j) = Node(t, x).value
      BY ONLY <2>2, <3>1
    <3> QED
      BY <3>3, <3>4, <3>5
  <2>6. ~ Held(u, j) => Lookup(u, j) = None
    BY DEF Lookup
  <2>7. ~ Held(t, j) => Lookup(t, j) = None
    BY DEF Lookup
  <2> QED
    BY ONLY <2>4, <2>5, <2>6, <2>7
<1>14. HeldKeys(u) = HeldKeys(t) \ {k}
  BY <1>13 DEF HeldKeys
<1> QED
  BY <1>7, <1>8, <1>12, <1>13, <1>14 DEF Good

-----------------------------------------------------------------------------
(* map_from_pairs_ and map_copy_: one map_set_ after the other.            *)

(* Each table is what a map_set_ makes of the one before.                  *)
LEMMA AfterEachSteps ==
  ASSUME NEW t, NEW entries, Len(entries) \in Nat
  PROVE  /\ AfterEach(t, entries)[0] = t
         /\ \A p \in 1 .. Len(entries) :
               AfterEach(t, entries)[p] =
                  With(AfterEach(t, entries)[p - 1], entries[p].key, entries[p].value)
<1> DEFINE W(x, p) == With(x, entries[p].key, entries[p].value)
           Is(f, n) == f = [p \in 0 .. n |-> IF p = 0 THEN t ELSE W(f[p - 1], p)]
           n == Len(entries)
           failing == {l \in Nat : ~ \E f : Is(f, l)}
           less == OpToRel(<, Nat)
<1>1. IsWellFoundedOn(less, Nat) /\ \A x, y \in Nat : x < y => <<x, y>> \in less
  BY NatLessThanWellFounded DEF OpToRel
<1>2. AfterEach(t, entries) = CHOOSE f : Is(f, n)
  BY DEF AfterEach
<1> HIDE DEF W, less, n
<1>3. ASSUME NEW l \in failing, \A j \in failing : <<j, l>> \notin less
      PROVE  FALSE
  <2>1. l \in Nat /\ ~ \E f : Is(f, l)
    OBVIOUS
  <2>2. CASE l = 0
    <3> DEFINE f == [p \in 0 .. l |-> t]
    <3>1. Is(f, l)
      <4>1. \A p \in 0 .. l : p = 0
        BY <2>2
      <4> QED
        BY <4>1
    <3> QED
      BY <2>1, <3>1
  <2>3. CASE l # 0
    <3>1. l - 1 \in Nat /\ l - 1 < l
      BY <2>1, <2>3
    <3>2. \E f : Is(f, l - 1)
      <4>1. <<l - 1, l>> \in less
        BY <1>1, <2>1, <3>1
      <4>2. l - 1 \notin failing
        BY <1>3, <4>1
      <4> QED
        BY <3>1, <4>2
    <3>3. PICK f : Is(f, l - 1)
      BY <3>2
    <3> DEFINE g == [p \in 0 .. l |-> IF p < l THEN f[p] ELSE W(f[l - 1], l)]
    <3>4. ASSUME NEW p \in 0 .. l
          PROVE  g[p] = IF p = 0 THEN t ELSE W(g[p - 1], p)
      <4>1. CASE p = 0
        <5>1. p < l /\ p \in 0 .. l - 1
          BY <2>1, <2>3, <4>1
        <5> QED
          BY <3>3, <4>1, <5>1
      <4>2. CASE p # 0
        <5>1. p - 1 \in 0 .. l /\ p - 1 < l /\ p - 1 \in 0 .. l - 1
          BY <2>1, <4>2
        <5>2. g[p - 1] = f[p - 1]
          BY <5>1
        <5>3. CASE p < l
          <6>1. p \in 0 .. l - 1
            BY <2>1, <5>3
          <6>2. f[p] = W(f[p - 1], p)
            BY <3>3, <4>2, <6>1
          <6> QED
            BY <4>2, <5>2, <5>3, <6>2
        <5>4. CASE ~ (p < l)
          <6>1. p = l
            BY <2>1, <5>4
          <6> QED
            BY <4>2, <5>2, <5>4, <6>1
        <5> QED
          BY <5>3, <5>4
      <4> QED
        BY <4>1, <4>2
    <3>5. g = [p \in 0 .. l |-> g[p]]
      OBVIOUS
    <3> HIDE DEF g
    <3>6. Is(g, l)
      BY <3>4, <3>5
    <3> QED
      BY <2>1, <3>6
  <2> QED
    BY <2>2, <2>3
<1>4. failing = {}
  <2> SUFFICES ASSUME failing # {} PROVE FALSE
    OBVIOUS
  <2>1. failing \subseteq Nat
    OBVIOUS
  <2> HIDE DEF failing
  <2>2. failing # {} /\ IsWellFoundedOn(less, Nat)
    BY <1>1
  <2>3. PICK l \in failing : \A j \in failing : <<j, l>> \notin less
    BY ONLY <2>1, <2>2, WFMin
  <2> QED
    BY <1>3, <2>3
<1>5. n \in Nat
  BY DEF n
<1>6. \E f : Is(f, n)
  BY <1>4, <1>5
<1> DEFINE a == AfterEach(t, entries)
<1>7. Is(a, n)
  <2> HIDE DEF Is
  <2> QED
    BY <1>2, <1>6
<1> HIDE DEF a
<1>8. a[0] = t
  <2>1. 0 \in 0 .. n
    BY <1>5
  <2> QED
    BY <1>7, <2>1
<1>9. ASSUME NEW p \in 1 .. n PROVE a[p] = W(a[p - 1], p)
  <2>1. p \in 0 .. n /\ p # 0
    BY <1>5
  <2> QED
    BY <1>7, <2>1
<1> QED
  BY <1>8, <1>9 DEF a, n, W

\* The table u is t with the first p of the entries set.
SetFrom(u, t, entries, p) ==
    /\ Good(u)
    /\ u.nnodes >= t.nnodes /\ (u.nnodes = t.nnodes => SamePlaces(u, t))
    /\ Sized(t) => Sized(u)
    /\ \A k \in Keys :
           LET places == {i \in 1 .. p : entries[i].key = k} IN
           /\ Held(u, k) <=> Held(t, k) \/ places # {}
           /\ IF places = {} THEN Lookup(u, k) = Lookup(t, k)
              ELSE \E i \in places : /\ \A j \in places : j <= i
                                     /\ Lookup(u, k) = entries[i].value

(* What one more map_set_ adds.                                            *)
LEMMA SetFromStep ==
  ASSUME NEW t, Good(t), NEW entries \in Seq(Entries), NEW p \in 0 .. Len(entries) - 1,
         NEW u, SetFrom(u, t, entries, p)
  PROVE  SetFrom(With(u, entries[p + 1].key, entries[p + 1].value), t, entries, p + 1)
<1> DEFINE e == entries[p + 1]
           w == With(u, e.key, e.value)
           At(k, q) == {i \in 1 .. q : entries[i].key = k}
<1>1. p \in Nat /\ p + 1 \in 1 .. Len(entries) /\ p + 1 \in Nat
  OBVIOUS
<1>2. e.key \in Keys /\ e.value \in Values
  <2>1. e \in Entries
    BY <1>1
  <2> QED
    BY <2>1 DEF Entries
<1>3. /\ Good(w)
      /\ \A k \in Keys : /\ Held(w, k) <=> Held(u, k) \/ k = e.key
                         /\ Lookup(w, k) = IF k = e.key THEN e.value ELSE Lookup(u, k)
      /\ w.nnodes = IF Held(u, e.key) THEN u.nnodes ELSE u.nnodes + 1
      /\ Held(u, e.key) => SamePlaces(w, u)
      /\ Sized(u) => Sized(w)
  BY <1>2, WithFacts DEF SetFrom
<1> HIDE DEF w
<1>4. ASSUME NEW k \in Keys
      PROVE  /\ Held(w, k) <=> Held(t, k) \/ At(k, p + 1) # {}
             /\ IF At(k, p + 1) = {} THEN Lookup(w, k) = Lookup(t, k)
                ELSE \E i \in At(k, p + 1) : /\ \A j \in At(k, p + 1) : j <= i
                                             /\ Lookup(w, k) = entries[i].value
  <2>1. /\ Held(u, k) <=> Held(t, k) \/ At(k, p) # {}
        /\ IF At(k, p) = {} THEN Lookup(u, k) = Lookup(t, k)
           ELSE \E i \in At(k, p) : /\ \A j \in At(k, p) : j <= i
                                    /\ Lookup(u, k) = entries[i].value
    BY DEF SetFrom
  <2>2. CASE k = e.key
    <3>1. p + 1 \in At(k, p + 1)
      BY <1>1, <2>2
    <3>2. \A j \in At(k, p + 1) : j <= p + 1
      BY <1>1
    <3>3. Lookup(w, k) = entries[p + 1].value /\ Held(w, k)
      BY <1>3, <2>2
    <3> HIDE DEF At
    <3> QED
      BY <3>1, <3>2, <3>3
  <2>3. CASE k # e.key
    <3>1. At(k, p + 1) = At(k, p)
      <4>1. \A i : i \in 1 .. p + 1 <=> i \in 1 .. p \/ i = p + 1
        BY <1>1
      <4> QED
        BY <2>3, <4>1
    <3>2. (Held(w, k) <=> Held(u, k)) /\ Lookup(w, k) = Lookup(u, k)
      BY <1>3, <2>3
    <3> HIDE DEF At
    <3> QED
      BY <2>1, <3>1, <3>2
  <2> QED
    BY <2>2, <2>3
<1>5. w.nnodes >= t.nnodes /\ (w.nnodes = t.nnodes => SamePlaces(w, t))
  <2>1. /\ t.nnodes \in Nat /\ u.nnodes \in Nat /\ u.nnodes >= t.nnodes
        /\ u.nnodes = t.nnodes => SamePlaces(u, t)
    BY DEF SetFrom, Good, Table
  <2>2. CASE Held(u, e.key)
    BY <1>3, <2>1, <2>2 DEF SamePlaces
  <2>3. CASE ~ Held(u, e.key)
    <3>1. w.nnodes = u.nnodes + 1
      BY <1>3, <2>3
    <3> QED
      BY ONLY <2>1, <3>1
  <2> QED
    BY <2>2, <2>3
<1> QED
  BY <1>3, <1>4, <1>5 DEF SetFrom, w

(* The tables on the way, and the last of them.                            *)
LEMMA AfterEachFacts ==
  ASSUME NEW t, Good(t), NEW entries \in Seq(Entries)
  PROVE  \A p \in 0 .. Len(entries) : SetFrom(AfterEach(t, entries)[p], t, entries, p)
<1> DEFINE a == AfterEach(t, entries)
           n == Len(entries)
           failing == {p \in 0 .. n : ~ SetFrom(a[p], t, entries, p)}
           less == OpToRel(<, Nat)
<1>1. IsWellFoundedOn(less, Nat)
  BY NatLessThanWellFounded
<1>2. \A x, y \in Nat : x < y => <<x, y>> \in less
  BY DEF OpToRel
<1>3. n \in Nat
  OBVIOUS
<1>4. a[0] = t /\ \A p \in 1 .. n : a[p] = With(a[p - 1], entries[p].key, entries[p].value)
  BY <1>3, AfterEachSteps
<1> HIDE DEF less, a
<1>5. SetFrom(t, t, entries, 0)
  <2>1. t.nnodes \in Nat
    BY DEF Good, Table
  <2> QED
    BY <2>1 DEF SetFrom, SamePlaces
<1>6. ASSUME NEW p \in failing, \A j \in failing : <<j, p>> \notin less
      PROVE  FALSE
  <2>1. p \in 0 .. n /\ ~ SetFrom(a[p], t, entries, p)
    OBVIOUS
  <2>2. p # 0
    BY <1>4, <1>5, <2>1
  <2>3. /\ p - 1 \in 0 .. n /\ p - 1 \in Nat /\ p \in Nat /\ p - 1 < p
        /\ p - 1 \in 0 .. Len(entries) - 1 /\ (p - 1) + 1 = p /\ p \in 1 .. n
    BY <1>3, <2>1, <2>2
  <2>4. <<p - 1, p>> \in less
    BY <1>2, <2>3
  <2>5. SetFrom(a[p - 1], t, entries, p - 1)
    BY <1>6, <2>3, <2>4
  <2>6. SetFrom(With(a[p - 1], entries[(p - 1) + 1].key, entries[(p - 1) + 1].value),
                t, entries, (p - 1) + 1)
    BY ONLY <2>3, <2>5, SetFromStep, Good(t), entries \in Seq(Entries)
  <2> QED
    BY <1>4, <2>1, <2>3, <2>6
<1>7. failing = {}
  <2> SUFFICES ASSUME failing # {} PROVE FALSE
    OBVIOUS
  <2>1. failing \subseteq Nat
    BY <1>3
  <2> HIDE DEF failing
  <2>2. failing # {} /\ IsWellFoundedOn(less, Nat)
    BY <1>1
  <2>3. PICK p \in failing : \A j \in failing : <<j, p>> \notin less
    BY ONLY <2>1, <2>2, WFMin
  <2> QED
    BY <1>6, <2>3
<1> QED
  BY <1>7 DEF a

(* When realloc fails in a table with one node or none, no list changes.   *)
LEMMA RelinkedFacts ==
  ASSUME NEW t, Good(t), t.nnodes < 2
  PROVE  Relinked(t) = t.chain
<1> DEFINE n == t.nbuckets
           c == t.chain
           before(b) == Listed(t, {x \in Places(t) : x[1] > b})
<1>1. /\ Table(t) /\ Placed(t) /\ n \in Nat /\ c \in [0 .. n - 1 -> Seq(Entries)]
      /\ IsFiniteSet(HeldKeys(t)) /\ t.nnodes = Cardinality(HeldKeys(t)) /\ t.nnodes \in Nat
  BY DEF Good, Table
<1>2. IsFiniteSet(Places(t)) /\ Cardinality(Places(t)) \in Nat /\ Cardinality(Places(t)) <= 1
  <2>1. IsFiniteSet(Places(t)) /\ Cardinality(Places(t)) <= t.nnodes
    BY <1>1, PlacesFinite
  <2>2. Cardinality(Places(t)) \in Nat
    BY <2>1, FS_CardinalityType
  <2> QED
    BY <1>1, <2>1, <2>2
<1>3. ASSUME NEW x \in Places(t), NEW y \in Places(t) PROVE x = y
  <2> SUFFICES ASSUME x # y PROVE FALSE
    OBVIOUS
  <2>1. IsFiniteSet({x, y}) /\ Cardinality({x, y}) = 2
    <3>1. IsFiniteSet({x}) /\ Cardinality({x}) = 1
      BY FS_Singleton
    <3>2. /\ IsFiniteSet({x} \cup {y})
          /\ Cardinality({x} \cup {y}) = Cardinality({x}) + 1
      BY <3>1, FS_AddElement
    <3> QED
      BY <3>1, <3>2
  <2>2. {x, y} \subseteq Places(t)
    OBVIOUS
  <2>3. Cardinality({x, y}) <= Cardinality(Places(t))
    BY <1>2, <2>2, FS_Subset
  <2> QED
    BY <1>2, <2>1, <2>3
<1>4. ASSUME NEW b \in 0 .. n - 1
      PROVE  c[b] = IF c[b] = <<>> THEN <<>>
                    ELSE <<Head(c[b])>>
                            \o [i \in DOMAIN before(b) |-> before(b)[Len(before(b)) + 1 - i]]
  <2> DEFINE L == before(b)
             rev == [i \in DOMAIN L |-> L[Len(L) + 1 - i]]
  <2>1. CASE c[b] # <<>>
    <3>1. c[b] \in Seq(Entries) /\ Len(c[b]) \in Nat /\ Len(c[b]) >= 1
      BY <1>1, <2>1
    <3>2. <<b, 1>> \in Places(t)
      BY <1>1, <3>1, PlaceFacts
    <3>3. Len(c[b]) = 1
      <4>0. SUFFICES ASSUME Len(c[b]) # 1 PROVE FALSE
        OBVIOUS
      <4>1. 2 \in 1 .. Len(c[b])
        <5>1. \A l \in Nat : l >= 1 /\ l # 1 => 2 \in 1 .. l
          OBVIOUS
        <5> QED
          BY ONLY <3>1, <4>0, <5>1
      <4>2. <<b, 2>> \in Places(t)
        BY <1>1, <4>1, PlaceFacts
      <4>3. <<b, 1>> = <<b, 2>>
        BY <1>3, <3>2, <4>2
      <4> QED
        BY <4>3
    <3>4. {x \in Places(t) : x[1] > b} = {}
      <4>1. \A x \in Places(t) : x = <<b, 1>>
        BY <1>3, <3>2
      <4>2. \A x \in Places(t) : x[1] = b
        BY <4>1
      <4>3. ~ (b > b)
        BY <1>1
      <4> QED
        BY <4>2, <4>3
    <3>5. L = <<>>
      <4>1. L = Listed(t, {})
        BY <3>4
      <4>2. Cardinality({}) = 0 /\ IsFiniteSet({})
        BY FS_EmptySet
      <4>3. Listed(t, {}) \in Seq(Entries) /\ Len(Listed(t, {})) = 0
        BY <1>1, <4>2, ListedFacts
      <4> QED
        BY <4>1, <4>3
    <3>6. rev = <<>>
      <4>1. \A i : i \notin DOMAIN L
        BY <3>5
      <4> HIDE DEF L
      <4>2. DOMAIN rev = 1 .. 0
        <5>1. DOMAIN rev = DOMAIN L
          OBVIOUS
        <5>2. \A i : i \notin 1 .. 0
          OBVIOUS
        <5> HIDE DEF rev
        <5> QED
          BY ONLY <4>1, <5>1, <5>2
      <4>3. rev = [i \in 1 .. 0 |-> rev[i]]
        BY <4>2
      <4>4. rev \in [1 .. 0 -> Entries]
        BY <4>2, <4>3
      <4> HIDE DEF rev
      <4>5. rev \in Seq(Entries) /\ Len(rev) = 0
        BY <4>4
      <4> QED
        BY <4>5
    <3>7. c[b] = <<Head(c[b])>> \o <<>>
      BY <3>1, <3>3
    <3> QED
      BY <2>1, <3>6, <3>7
  <2>2. CASE c[b] = <<>>
    BY <2>2
  <2> QED
    BY <2>1, <2>2
<1> QED
  BY <1>1, <1>4 DEF Relinked

-----------------------------------------------------------------------------
(* Second maps.                                                            *)

(* A resize of a good table.                                               *)
LEMMA ResizedGood ==
  ASSUME NEW t, Good(t), NEW n \in Nat \ {0}
  PROVE  /\ Good(Resized(t, n))
         /\ \A k \in Keys : /\ Held(Resized(t, n), k) <=> Held(t, k)
                            /\ Lookup(Resized(t, n), k) = Lookup(t, k)
<1> DEFINE u == Resized(t, n)
<1>1. Table(t) /\ Placed(t) /\ IsFiniteSet(HeldKeys(t)) /\ t.nnodes = Cardinality(HeldKeys(t))
  BY DEF Good
<1>2. /\ Table(u) /\ Placed(u) /\ u.nnodes = t.nnodes
      /\ \A k \in Keys : (Held(u, k) <=> Held(t, k)) /\ Lookup(u, k) = Lookup(t, k)
  BY <1>1, ResizeFacts
<1> HIDE DEF u
<1>3. HeldKeys(u) = HeldKeys(t)
  BY <1>2 DEF HeldKeys
<1> QED
  BY <1>1, <1>2, <1>3 DEF Good, u

(* A map that has not been used.                                           *)
LEMMA EmptyGood == Good(Empty) /\ \A k \in Keys : ~ Held(Empty, k)
<1>1. /\ Empty.nbuckets = 0 /\ Empty.nnodes = 0 /\ Empty.chain = [b \in {} |-> <<>>]
      /\ Empty \in [nbuckets : Nat, nnodes : Nat, chain : {Empty.chain}]
  BY DEF Empty
<1>2. \A b : b \notin 0 .. 0 - 1
  OBVIOUS
<1>3. Table(Empty)
  <2>1. Empty.chain \in [0 .. Empty.nbuckets - 1 -> Seq(Entries)]
    <3>1. 0 .. Empty.nbuckets - 1 = {}
      BY <1>1, <1>2
    <3> QED
      BY <1>1, <3>1
  <2> QED
    BY <1>1, <2>1 DEF Table
<1>4. Places(Empty) = {}
  BY <1>1, <1>2 DEF Places
<1>5. \A k \in Keys : ~ Held(Empty, k)
  BY <1>1 DEF Held
<1>6. HeldKeys(Empty) = {}
  BY <1>5 DEF HeldKeys
<1> QED
  BY <1>1, <1>3, <1>4, <1>5, <1>6, FS_EmptySet DEF Good, Placed

\* The table of a second map before it is laid out.
OneList(nodes) ==
    [nbuckets |-> 1, nnodes |-> Len(nodes), chain |-> [b \in {0} |-> nodes]]

(* It is good where keys differ.                                           *)
LEMMA OneListFacts ==
  ASSUME NEW nodes \in Seq(Entries),
         \A i, j \in DOMAIN nodes : nodes[i].key = nodes[j].key => i = j
  PROVE  /\ Good(OneList(nodes))
         /\ \A k \in Keys : Held(OneList(nodes), k) <=> \E i \in 1 .. Len(nodes) : nodes[i].key = k
<1> DEFINE t == OneList(nodes)
           l == Len(nodes)
           g == [i \in 1 .. l |-> nodes[i].key]
<1>1. /\ t.nbuckets = 1 /\ t.nnodes = l /\ t.chain = [b \in {0} |-> nodes] /\ l \in Nat
      /\ t \in [nbuckets : Nat, nnodes : Nat, chain : {t.chain}]
  BY DEF OneList
<1>2. DOMAIN nodes = 1 .. l /\ \A i \in 1 .. l : nodes[i] \in Entries /\ nodes[i].key \in Keys
  <2>1. DOMAIN nodes = 1 .. l /\ \A i \in 1 .. l : nodes[i] \in Entries
    OBVIOUS
  <2>2. \A e \in Entries : e.key \in Keys
    BY DEF Entries
  <2> QED
    BY <2>1, <2>2
<1> HIDE DEF t
<1>3. 0 .. 1 - 1 = {0}
  OBVIOUS
<1>4. Table(t)
  BY <1>1, <1>3 DEF Table
<1>5. ASSUME NEW x \in Places(t)
      PROVE  x = <<0, x[2]>> /\ x[2] \in 1 .. l /\ Node(t, x) = nodes[x[2]]
  <2>1. x = <<x[1], x[2]>> /\ x[1] \in 0 .. t.nbuckets - 1 /\ x[2] \in 1 .. Len(t.chain[x[1]])
    BY <1>4, PlaceFacts
  <2>2. x[1] = 0 /\ t.chain[0] = nodes
    BY <1>1, <1>3, <2>1
  <2> QED
    BY <2>1, <2>2 DEF Node
<1>6. \A i \in 1 .. l : <<0, i>> \in Places(t) /\ Node(t, <<0, i>>) = nodes[i]
  <2>1. 0 \in 0 .. t.nbuckets - 1 /\ t.chain[0] = nodes
    BY <1>1, <1>3
  <2> QED
    BY <1>4, <2>1, PlaceFacts
<1>7. Placed(t)
  <2>1. ASSUME NEW x \in Places(t) PROVE BucketIdx(Node(t, x).key, t.nbuckets) = x[1]
    <3>1. Node(t, x).key \in Keys /\ x[1] = 0
      BY <1>2, <1>5
    <3>2. BucketIdx(Node(t, x).key, 1) \in 0 .. 1 - 1
      BY <3>1, BucketIdxRange
    <3> QED
      BY <1>1, <1>3, <3>1, <3>2
  <2>2. ASSUME NEW x \in Places(t), NEW y \in Places(t), Node(t, x).key = Node(t, y).key
        PROVE  x = y
    <3>1. x = <<0, x[2]>> /\ x[2] \in 1 .. l /\ Node(t, x) = nodes[x[2]]
      BY <1>5
    <3>2. y = <<0, y[2]>> /\ y[2] \in 1 .. l /\ Node(t, y) = nodes[y[2]]
      BY <1>5
    <3>3. x[2] = y[2]
      BY <1>2, <2>2, <3>1, <3>2
    <3> QED
      BY <3>1, <3>2, <3>3
  <2> QED
    BY <2>1, <2>2 DEF Placed
<1>8. \A k \in Keys : Held(t, k) <=> \E i \in 1 .. l : nodes[i].key = k
  <2> SUFFICES ASSUME NEW k \in Keys
               PROVE  Held(t, k) <=> \E i \in 1 .. l : nodes[i].key = k
    OBVIOUS
  <2>1. Held(t, k) <=> \E x \in Places(t) : Node(t, x).key = k
    BY <1>4, <1>7, HeldFacts
  <2> QED
    BY <1>5, <1>6, <2>1
<1>9. g \in Bijection(1 .. l, HeldKeys(t))
  <2>1. \A i \in 1 .. l : nodes[i].key \in HeldKeys(t)
    BY <1>2, <1>8 DEF HeldKeys
  <2>2. \A k \in HeldKeys(t) : \E i \in 1 .. l : nodes[i].key = k
    BY <1>8 DEF HeldKeys
  <2>3. g \in Injection(1 .. l, HeldKeys(t))
    BY <1>2, <2>1 DEF Injection, IsInjective
  <2>4. g \in Surjection(1 .. l, HeldKeys(t))
    BY <2>1, <2>2 DEF Surjection
  <2> QED
    BY <2>3, <2>4 DEF Bijection
<1>10. IsFiniteSet(1 .. l) /\ Cardinality(1 .. l) = l
  BY <1>1, FS_Interval
<1> HIDE DEF g
<1>11. IsFiniteSet(HeldKeys(t)) /\ Cardinality(HeldKeys(t)) = l
  BY <1>9, <1>10, FS_Bijection DEF ExistsBijection
<1> QED
  BY <1>1, <1>4, <1>7, <1>8, <1>11 DEF Good, t

(* What the second maps are.                                               *)
LEMMA OthersFacts ==
  ASSUME NEW other \in Others
  PROVE  \/ other = Empty
         \/ \E nodes \in Seq(Entries), n \in Sizes :
               /\ other = Resized(OneList(nodes), n)
               /\ \A i \in 1 .. Len(nodes) : nodes[i].key \in OtherKeys
               /\ \A i, j \in DOMAIN nodes : nodes[i].key = nodes[j].key => i = j
<1>1. CASE other # Empty
  <2>1. \E nodes \in Lists(Cardinality(OtherKeys)), n \in Sizes :
           /\ \A i, j \in DOMAIN nodes : nodes[i].key = nodes[j].key => i = j
           /\ other = Resized(OneList(nodes), n)
    BY <1>1 DEF Others, OneList
  <2>2. PICK nodes \in Lists(Cardinality(OtherKeys)), n \in Sizes :
           /\ \A i, j \in DOMAIN nodes : nodes[i].key = nodes[j].key => i = j
           /\ other = Resized(OneList(nodes), n)
    BY <2>1
  <2>3. nodes \in Seq(Entries) /\ \A i \in 1 .. Len(nodes) : nodes[i].key \in OtherKeys
    BY DEF Lists
  <2> QED
    BY <2>2, <2>3
<1> QED
  BY <1>1

(* All second maps are good, and hold no other keys.                       *)
LEMMA OthersGood ==
  ASSUME NEW other \in Others
  PROVE  Good(other) /\ \A k \in Keys : Held(other, k) => k \in OtherKeys
<1>1. CASE other = Empty
  BY <1>1, EmptyGood
<1>2. CASE other # Empty
  <2>1. PICK nodes \in Seq(Entries), n \in Sizes :
               /\ other = Resized(OneList(nodes), n)
               /\ \A i \in 1 .. Len(nodes) : nodes[i].key \in OtherKeys
               /\ \A i, j \in DOMAIN nodes : nodes[i].key = nodes[j].key => i = j
    BY <1>2, OthersFacts
  <2>2. /\ Good(OneList(nodes))
        /\ \A k \in Keys : Held(OneList(nodes), k) <=> \E i \in 1 .. Len(nodes) : nodes[i].key = k
    BY <2>1, OneListFacts
  <2>3. n \in Nat \ {0}
    BY HashMapAssumption DEF Sizes
  <2>4. Good(other) /\ \A k \in Keys : Held(other, k) <=> Held(OneList(nodes), k)
    BY <2>1, <2>2, <2>3, ResizedGood
  <2> QED
    BY <2>1, <2>2, <2>4
<1> QED
  BY <1>1, <1>2

(* What map_copy works on.                                                 *)
LEMMA CopyFacts ==
  ASSUME Good(m), NEW other \in Others
  PROVE  /\ Good(other) /\ Good(CopyTo(other)) /\ Nodes(other) \in Seq(Entries)
         /\ \A k \in Keys : /\ Held(CopyTo(other), k) <=> Held(m, k)
                            /\ Lookup(CopyTo(other), k) = Lookup(m, k)
<1>1. Good(other)
  BY OthersGood
<1>2. Nodes(other) \in Seq(Entries)
  <2>1. Table(other) /\ IsFiniteSet(Places(other))
    BY <1>1, PlacesFinite DEF Good
  <2> QED
    BY <2>1, ListedFacts DEF Nodes
<1>3. CASE CopyResizes(other)
  <2>1. other.nbuckets \in Nat \ {0}
    <3>1. other.nbuckets \in Nat /\ m.nbuckets \in Nat /\ m.nnodes \in Nat
      BY <1>1 DEF Good, Table
    <3>2. m.nnodes <= m.nbuckets /\ other.nbuckets > m.nbuckets - m.nnodes
      BY <1>3 DEF CopyResizes
    <3> QED
      BY ONLY <3>1, <3>2
  <2> QED
    BY <1>1, <1>2, <1>3, <2>1, ResizedGood DEF CopyTo
<1>4. CASE ~ CopyResizes(other)
  BY <1>1, <1>2, <1>4 DEF CopyTo
<1> QED
  BY <1>3, <1>4

-----------------------------------------------------------------------------
(* The table in every state.                                               *)

Intact == intact => Good(m)

(* A realloc that fails and breaks nothing has changed nothing.            *)
LEMMA FailureFacts ==
  ASSUME NEW t, Good(t), ResizeFails(t), intact'
  PROVE  m' = t
<1>1. t.nnodes < 2 /\ m' = [t EXCEPT !.chain = Relinked(t)]
  BY DEF ResizeFails
<1>2. m' = [t EXCEPT !.chain = t.chain]
  BY <1>1, RelinkedFacts
<1>3. t \in [nbuckets : Nat, nnodes : Nat, chain : {t.chain}]
  BY DEF Good, Table
<1> QED
  BY ONLY <1>2, <1>3

(* The table that several calls of map_set_ lead to.                       *)
LEMMA SetEachFacts ==
  ASSUME NEW t, Good(t), NEW entries \in Seq(Entries), SetEach(t, entries), intact'
  PROVE  \E p \in 0 .. Len(entries) :
            /\ m' = AfterEach(t, entries)[p]
            /\ SetFrom(m', t, entries, p)
            /\ result' \in BOOLEAN
<1>1. PICK p \in 0 .. Len(entries) :
        \/ m' = AfterEach(t, entries)[p] /\ result' \in BOOLEAN
        \/ ResizeFails(AfterEach(t, entries)[p])
  BY DEF SetEach
<1>2. SetFrom(AfterEach(t, entries)[p], t, entries, p)
  BY AfterEachFacts
<1>3. Good(AfterEach(t, entries)[p])
  BY <1>2 DEF SetFrom
<1>4. CASE ResizeFails(AfterEach(t, entries)[p])
  <2>1. m' = AfterEach(t, entries)[p]
    BY <1>3, <1>4, FailureFacts
  <2>2. result' = FALSE
    BY <1>4 DEF ResizeFails
  <2> QED
    BY <1>2, <2>1, <2>2
<1> QED
  BY <1>1, <1>2, <1>4

(* What a removal is.                                                      *)
LEMMA RemoveStep ==
  ASSUME Good(m), NEW k \in Keys, Remove(k)
  PROVE  /\ Good(m)'
         /\ \A j \in Keys : /\ Held(m, j)' <=> Held(m, j) /\ j # k
                            /\ Lookup(m, j)' = IF j = k THEN None ELSE Lookup(m, j)
<1>1. CASE Held(m, k)
  <2> DEFINE d == [m.chain EXCEPT ![BucketIdx(k, m.nbuckets)] = Unlinked(@, Ref(m, k))]
  <2>1. m' = [m EXCEPT !.chain = d, !.nnodes = m.nnodes - 1]
    BY <1>1 DEF Remove
  <2>2. m \in [nbuckets : Nat, nnodes : Nat, chain : {m.chain}]
    BY DEF Good, Table
  <2> DEFINE e == d
  <2> HIDE DEF e
  <2>3. m' = [m EXCEPT !.chain = e, !.nnodes = m.nnodes - 1]
    BY <2>1 DEF e
  <2>4. /\ m'.chain = e /\ m'.nbuckets = m.nbuckets /\ m'.nnodes = m.nnodes - 1
        /\ m' \in [nbuckets : {m'.nbuckets}, nnodes : {m'.nnodes}, chain : {m'.chain}]
    BY ONLY <2>2, <2>3
  <2>5. m'.chain = [m.chain EXCEPT ![BucketIdx(k, m.nbuckets)] = Unlinked(@, Ref(m, k))]
    BY <2>4 DEF e
  <2> QED
    BY <1>1, <2>4, <2>5, RemoveFacts
<1>2. CASE ~ Held(m, k)
  BY <1>2 DEF Remove, Lookup
<1> QED
  BY <1>1, <1>2

(* Every call leaves a good table.                                         *)
LEMMA IntactStep == Intact /\ [Next]_vars => Intact'
<1> SUFFICES ASSUME Intact, [Next]_vars, intact' PROVE Good(m)'
  BY DEF Intact
<1>1. CASE UNCHANGED vars
  BY <1>1 DEF vars, Intact
<1>2. CASE Next
  <2>1. intact /\ Good(m)
    BY <1>2 DEF Next, Intact
  <2>2. ASSUME NEW k \in Keys, NEW v \in Values, Set(k, v) PROVE Good(m)'
    BY <2>1, <2>2, WithFacts DEF Set
  <2>3. ASSUME NEW k \in Keys, SetNoBuckets(k) PROVE Good(m)'
    BY <2>1, <2>3, FailureFacts DEF SetNoBuckets
  <2>4. ASSUME NEW k \in Keys, Remove(k) PROVE Good(m)'
    BY <2>1, <2>4, RemoveStep
  <2>5. ASSUME NEW pairs \in Lists(MaxPairs), FromPairs(pairs) PROVE Good(m)'
    <3>1. pairs \in Seq(Entries)
      BY DEF Lists
    <3> QED
      BY <2>1, <2>5, <3>1, SetEachFacts DEF FromPairs, SetFrom
  <2>6. ASSUME NEW other \in Others, Copy(other) PROVE Good(m)'
    <3>1. Good(CopyTo(other)) /\ Nodes(other) \in Seq(Entries)
      BY <2>1, CopyFacts
    <3> QED
      BY <2>6, <3>1, SetEachFacts DEF Copy, SetFrom
  <2>7. ASSUME NEW other \in Others, CopyNoBuckets(other) PROVE Good(m)'
    BY <2>1, <2>7, FailureFacts DEF CopyNoBuckets
  <2>8. CASE Delete
    BY <2>8, EmptyGood DEF Delete
  <2>9. ASSUME m' = m PROVE Good(m)'
    BY <2>1, <2>9
  <2> QED
    BY <1>2, <2>2, <2>3, <2>4, <2>5, <2>6, <2>7, <2>8, <2>9
       DEF Next, SetNoNode, Get, Equal, Iter, NextKey, IterEnd
<1> QED
  BY <1>1, <1>2

(* What a good table means for the lists.                                  *)
LEMMA GoodLists ==
  ASSUME Good(m)
  PROVE  /\ \A b \in DOMAIN m.chain : \A i \in DOMAIN m.chain[b] :
               /\ BucketIdx(m.chain[b][i].key, m.nbuckets) = b
               /\ \A j \in DOMAIN m.chain[b] :
                      m.chain[b][i].key = m.chain[b][j].key => i = j
         /\ m.nnodes = Cardinality(HeldKeys(m))
<1>1. Table(m) /\ Placed(m) /\ m.nnodes = Cardinality(HeldKeys(m))
  BY DEF Good
<1>2. DOMAIN m.chain = 0 .. m.nbuckets - 1
  BY <1>1 DEF Table
<1>3. \A b \in 0 .. m.nbuckets - 1 : DOMAIN m.chain[b] = 1 .. Len(m.chain[b])
  BY <1>1 DEF Table
<1>4. \A b \in 0 .. m.nbuckets - 1 : \A i \in 1 .. Len(m.chain[b]) :
         /\ <<b, i>> \in Places(m) /\ Node(m, <<b, i>>) = m.chain[b][i]
  BY <1>1, PlaceFacts
<1>5. ASSUME NEW b \in 0 .. m.nbuckets - 1, NEW i \in 1 .. Len(m.chain[b])
      PROVE  /\ BucketIdx(m.chain[b][i].key, m.nbuckets) = b
             /\ \A j \in 1 .. Len(m.chain[b]) :
                    m.chain[b][i].key = m.chain[b][j].key => i = j
  <2>1. BucketIdx(Node(m, <<b, i>>).key, m.nbuckets) = <<b, i>>[1]
    BY <1>1, <1>4 DEF Placed
  <2>2. ASSUME NEW j \in 1 .. Len(m.chain[b]), m.chain[b][i].key = m.chain[b][j].key
        PROVE  i = j
    <3>1. <<b, i>> = <<b, j>>
      BY <1>1, <1>4, <2>2 DEF Placed
    <3> QED
      BY <3>1
  <2> QED
    BY <1>4, <2>1, <2>2
<1> QED
  BY <1>1, <1>2, <1>3, <1>5

(* For every hash function: resizes, collisions, removals and copies leave *)
(* no node in a wrong list and no key with two nodes, and nnodes counts    *)
(* them.                                                                   *)
THEOREM NodesPlaced == Spec => []WellPlaced
<1>1. Init => Intact
  BY EmptyGood DEF Init, Intact
<1>2. Intact => WellPlaced
  <2> SUFFICES ASSUME Intact, intact PROVE WellPlaced
    BY DEF WellPlaced
  <2>1. Good(m)
    BY DEF Intact
  <2> QED
    BY <2>1, GoodLists DEF WellPlaced
<1> QED
  BY <1>1, <1>2, IntactStep, PTL DEF Spec

-----------------------------------------------------------------------------
(* Two maps.                                                               *)

(* A lookup tells whether a key is held.                                   *)
LEMMA LookupFacts ==
  ASSUME NEW t, Good(t), NEW k \in Keys
  PROVE  IF Held(t, k) THEN Lookup(t, k) \in Values ELSE Lookup(t, k) = None
<1>1. Table(t) /\ Placed(t)
  BY DEF Good
<1>2. CASE Held(t, k)
  <2>1. PICK x \in Places(t) : Node(t, x).key = k /\ Lookup(t, k) = Node(t, x).value
    BY <1>1, <1>2, HeldFacts
  <2>2. Node(t, x) \in Entries
    BY <1>1, PlaceFacts
  <2> QED
    BY <1>2, <2>1, <2>2 DEF Entries
<1>3. CASE ~ Held(t, k)
  BY <1>3 DEF Lookup
<1> QED
  BY <1>2, <1>3

(* Two maps that map_equal does not tell apart hold the same values, and   *)
(* the other way round: with as many keys, it is enough to look for those  *)
(* of the first map.                                                       *)
LEMMA SameFacts ==
  ASSUME Good(m), NEW other, Good(other)
  PROVE  Same(other) <=> \A k \in Keys : Lookup(m, k) = Lookup(other, k)
<1>1. \A k \in Keys : /\ Held(m, k) <=> Lookup(m, k) # None
                      /\ Held(other, k) <=> Lookup(other, k) # None
  BY LookupFacts, HashMapAssumption
<1>2. /\ IsFiniteSet(HeldKeys(m)) /\ m.nnodes = Cardinality(HeldKeys(m))
      /\ IsFiniteSet(HeldKeys(other)) /\ other.nnodes = Cardinality(HeldKeys(other))
  BY DEF Good
<1>3. ASSUME Same(other)
      PROVE  \A k \in Keys : Lookup(m, k) = Lookup(other, k)
  <2>1. m.nnodes = other.nnodes /\ \A k \in HeldKeys(m) : Lookup(other, k) = Lookup(m, k)
    BY <1>3 DEF Same
  <2>2. HeldKeys(m) \subseteq HeldKeys(other)
    BY <1>1, <2>1 DEF HeldKeys
  <2>3. HeldKeys(m) = HeldKeys(other)
    BY <1>2, <2>1, <2>2, FS_Subset
  <2> QED
    BY <1>1, <2>1, <2>3 DEF HeldKeys
<1>4. ASSUME \A k \in Keys : Lookup(m, k) = Lookup(other, k)
      PROVE  Same(other)
  <2>1. HeldKeys(m) = HeldKeys(other)
    BY <1>1, <1>4 DEF HeldKeys
  <2>2. \A k \in HeldKeys(m) : Lookup(other, k) = Lookup(m, k)
    BY <1>4 DEF HeldKeys
  <2> QED
    BY <1>2, <2>1, <2>2 DEF Same
<1> QED
  BY <1>3, <1>4

(* map_equal compares functions.                                           *)
THEOREM EqualCompares == Spec => []EqualExact
<1>1. Init => Intact
  BY EmptyGood DEF Init, Intact
<1>2. Intact => EqualExact
  <2> SUFFICES ASSUME Intact, intact, NEW other \in Others
               PROVE  Same(other) <=> \A k \in Keys : Lookup(m, k) = Lookup(other, k)
    BY DEF EqualExact
  <2>1. Good(m) /\ Good(other)
    BY OthersGood DEF Intact
  <2> QED
    BY <2>1, SameFacts
<1> QED
  BY <1>1, <1>2, IntactStep, PTL DEF Spec

(* The list of all nodes has each key of the map once, with its value.     *)
LEMMA NodesFacts ==
  ASSUME NEW t, Good(t)
  PROVE  /\ Nodes(t) \in Seq(Entries)
         /\ \A i \in 1 .. Len(Nodes(t)) :
               Held(t, Nodes(t)[i].key) /\ Lookup(t, Nodes(t)[i].key) = Nodes(t)[i].value
         /\ \A k \in Keys : Held(t, k) => \E i \in 1 .. Len(Nodes(t)) : Nodes(t)[i].key = k
<1>1. Table(t) /\ Placed(t) /\ IsFiniteSet(Places(t))
  BY PlacesFinite DEF Good
<1>2. /\ Nodes(t) \in Seq(Entries) /\ Len(Nodes(t)) = Cardinality(Places(t))
      /\ \A i \in 1 .. Cardinality(Places(t)) : \E x \in Places(t) : Nodes(t)[i] = Node(t, x)
      /\ \A x \in Places(t) : \E i \in 1 .. Cardinality(Places(t)) : Nodes(t)[i] = Node(t, x)
  BY <1>1, ListedFacts DEF Nodes
<1>3. ASSUME NEW i \in 1 .. Len(Nodes(t))
      PROVE  Held(t, Nodes(t)[i].key) /\ Lookup(t, Nodes(t)[i].key) = Nodes(t)[i].value
  <2>1. PICK x \in Places(t) : Nodes(t)[i] = Node(t, x)
    BY <1>2
  <2>2. Node(t, x).key \in Keys
    BY <1>1, PlaceFacts DEF Entries
  <2>3. Held(t, Node(t, x).key) /\ Lookup(t, Node(t, x).key) = Node(t, x).value
    BY <1>1, <2>2, HeldFacts
  <2> QED
    BY <2>1, <2>3
<1>4. ASSUME NEW k \in Keys, Held(t, k)
      PROVE  \E i \in 1 .. Len(Nodes(t)) : Nodes(t)[i].key = k
  <2>1. PICK x \in Places(t) : Node(t, x).key = k
    BY <1>1, <1>4, HeldFacts
  <2> QED
    BY <1>2, <2>1
<1> QED
  BY <1>2, <1>3, <1>4

(* What map_from_pairs and map_copy leave.                                 *)
THEOREM CopyMerges == Spec => []MergesOther
<1>1. Init => Intact
  BY EmptyGood DEF Init, Intact
<1>2. Intact => MergesOther
  <2> SUFFICES ASSUME Intact, intact PROVE MergesOther
    BY DEF MergesOther
  <2>1. Good(m)
    BY DEF Intact
  <2>2. ASSUME NEW pairs \in Lists(MaxPairs), NEW k \in Keys
        PROVE  LET places == {i \in DOMAIN pairs : pairs[i].key = k}
                   merged == AfterEach(m, pairs)[Len(pairs)]
               IN  IF places = {} THEN Lookup(merged, k) = Lookup(m, k)
                   ELSE \E i \in places : /\ \A j \in places : j <= i
                                          /\ Lookup(merged, k) = pairs[i].value
    <3>1. pairs \in Seq(Entries) /\ DOMAIN pairs = 1 .. Len(pairs) /\ Len(pairs) \in Nat
      BY DEF Lists
    <3>2. Len(pairs) \in 0 .. Len(pairs)
      BY <3>1
    <3>3. SetFrom(AfterEach(m, pairs)[Len(pairs)], m, pairs, Len(pairs))
      BY <2>1, <3>1, <3>2, AfterEachFacts
    <3> QED
      BY <3>1, <3>3 DEF SetFrom
  <2>3. ASSUME NEW other \in Others, NEW k \in Keys
        PROVE  LET merged == AfterEach(CopyTo(other), Nodes(other))[Len(Nodes(other))]
               IN  Lookup(merged, k) = Lookup(IF Held(other, k) THEN other ELSE m, k)
    <3> DEFINE t == CopyTo(other)
               nodes == Nodes(other)
               merged == AfterEach(t, nodes)[Len(nodes)]
               places == {i \in 1 .. Len(nodes) : nodes[i].key = k}
    <3>1. Good(other) /\ Good(t) /\ Lookup(t, k) = Lookup(m, k)
      BY <2>1, CopyFacts
    <3>2. /\ nodes \in Seq(Entries)
          /\ \A i \in 1 .. Len(nodes) :
                Held(other, nodes[i].key) /\ Lookup(other, nodes[i].key) = nodes[i].value
          /\ Held(other, k) => \E i \in 1 .. Len(nodes) : nodes[i].key = k
      BY <3>1, NodesFacts
    <3> HIDE DEF t, nodes
    <3>3. Len(nodes) \in 0 .. Len(nodes)
      BY <3>2
    <3>4. SetFrom(merged, t, nodes, Len(nodes))
      BY <3>1, <3>2, <3>3, AfterEachFacts
    <3>5. IF places = {} THEN Lookup(merged, k) = Lookup(t, k)
          ELSE \E i \in places : Lookup(merged, k) = nodes[i].value
      BY <3>4 DEF SetFrom
    <3>6. places = {} <=> ~ Held(other, k)
      BY <3>2
    <3>7. \A i \in places : nodes[i].value = Lookup(other, k)
      BY <3>2
    <3> HIDE DEF places, merged
    <3>8. Lookup(merged, k) = Lookup(IF Held(other, k) THEN other ELSE m, k)
      BY <3>1, <3>5, <3>6, <3>7
    <3> QED
      BY <3>8 DEF merged, t, nodes
  <2> QED
    BY <2>2, <2>3 DEF MergesOther
<1> QED
  BY <1>1, <1>2, IntactStep, PTL DEF Spec

-----------------------------------------------------------------------------
(* Iterations.                                                             *)

\* The keys that an iteration it over the table t has yet to return.
AheadIn(t, it) ==
    {k \in HeldKeys(t) :
        LET b == BucketIdx(k, t.nbuckets) IN
        b > it.bucketidx \/ (b = it.bucketidx /\ Ref(t, k) > it.node)}

\* An iteration is before the first bucket or at a node.
At(t, it) ==
    /\ it \in [bucketidx : Int, node : Nat]
    /\ \/ it.bucketidx = -1 /\ it.node = 0
       \/ <<it.bucketidx, it.node>> \in Places(t)

(* They are the keys of the nodes behind it.                               *)
LEMMA AheadFacts ==
  ASSUME NEW t, Good(t), NEW it, NEW k
  PROVE  k \in AheadIn(t, it) <=>
            \E x \in Places(t) :
               /\ Node(t, x).key = k
               /\ x[1] > it.bucketidx \/ (x[1] = it.bucketidx /\ x[2] > it.node)
<1>1. Table(t) /\ Placed(t)
  BY DEF Good
<1>2. ASSUME NEW x \in Places(t), Node(t, x).key = k
      PROVE  /\ k \in HeldKeys(t)
             /\ x[1] = BucketIdx(k, t.nbuckets) /\ x[2] = Ref(t, k)
  <2>1. k \in Keys
    <3>1. Node(t, x) \in Entries
      BY <1>1, PlaceFacts
    <3> QED
      BY <1>2, <3>1 DEF Entries
  <2>2. Held(t, k) /\ x = <<BucketIdx(k, t.nbuckets), Ref(t, k)>>
    BY <1>1, <1>2, <2>1, HeldFacts
  <2> QED
    BY <2>1, <2>2 DEF HeldKeys
<1>3. ASSUME k \in HeldKeys(t) PROVE \E x \in Places(t) : Node(t, x).key = k
  <2>1. k \in Keys /\ Held(t, k)
    BY <1>3 DEF HeldKeys
  <2> QED
    BY <1>1, <2>1, HeldFacts
<1>4. k \in AheadIn(t, it) <=>
        /\ k \in HeldKeys(t)
        /\ \/ BucketIdx(k, t.nbuckets) > it.bucketidx
           \/ BucketIdx(k, t.nbuckets) = it.bucketidx /\ Ref(t, k) > it.node
  BY DEF AheadIn
<1>5. ASSUME k \in AheadIn(t, it)
      PROVE  \E x \in Places(t) :
               /\ Node(t, x).key = k
               /\ x[1] > it.bucketidx \/ (x[1] = it.bucketidx /\ x[2] > it.node)
  <2>1. PICK x \in Places(t) : Node(t, x).key = k
    BY <1>3, <1>4, <1>5
  <2>2. x[1] = BucketIdx(k, t.nbuckets) /\ x[2] = Ref(t, k)
    BY <1>2, <2>1
  <2> QED
    BY <1>4, <1>5, <2>1, <2>2
<1>6. ASSUME NEW x \in Places(t), Node(t, x).key = k,
             x[1] > it.bucketidx \/ (x[1] = it.bucketidx /\ x[2] > it.node)
      PROVE  k \in AheadIn(t, it)
  <2>1. k \in HeldKeys(t) /\ x[1] = BucketIdx(k, t.nbuckets) /\ x[2] = Ref(t, k)
    BY <1>2, <1>6
  <2> QED
    BY <1>4, <1>6, <2>1
<1> QED
  BY <1>5, <1>6

(* An iteration goes on when the keys are where they were.                 *)
LEMMA AheadSame ==
  ASSUME NEW t, Good(t), NEW u, Good(u), SamePlaces(u, t), NEW it
  PROVE  AheadIn(u, it) = AheadIn(t, it) /\ (At(t, it) => At(u, it))
<1>1. Places(u) = Places(t) /\ \A x \in Places(t) : Node(u, x).key = Node(t, x).key
  BY DEF SamePlaces
<1>2. ASSUME NEW k PROVE k \in AheadIn(u, it) <=> k \in AheadIn(t, it)
  <2>1. k \in AheadIn(u, it) <=>
            \E x \in Places(u) :
               /\ Node(u, x).key = k
               /\ x[1] > it.bucketidx \/ (x[1] = it.bucketidx /\ x[2] > it.node)
    BY AheadFacts
  <2>2. k \in AheadIn(t, it) <=>
            \E x \in Places(t) :
               /\ Node(t, x).key = k
               /\ x[1] > it.bucketidx \/ (x[1] = it.bucketidx /\ x[2] > it.node)
    BY AheadFacts
  <2> QED
    BY ONLY <1>1, <2>1, <2>2
<1>3. At(t, it) => At(u, it)
  BY <1>1 DEF At
<1>4. AheadIn(u, it) = AheadIn(t, it)
  BY <1>2
<1> QED
  BY <1>3, <1>4

(* A resize to the size the table has moves nothing.                       *)
LEMMA ResizeSame ==
  ASSUME NEW t, Good(t), t.nbuckets > 0
  PROVE  SamePlaces(Resized(t, t.nbuckets), t)
<1> DEFINE n == t.nbuckets
           c == t.chain
           u == Resized(t, n)
           S(b) == {x \in Places(t) : BucketIdx(Node(t, x).key, n) = b}
<1>1. /\ Table(t) /\ Placed(t) /\ n \in Nat /\ c \in [0 .. n - 1 -> Seq(Entries)]
      /\ IsFiniteSet(Places(t))
  BY PlacesFinite DEF Good, Table
<1>2. /\ u.nbuckets = n /\ u.chain = [b \in 0 .. n - 1 |-> Listed(t, S(b))]
  BY DEF Resized
<1>3. ASSUME NEW b \in 0 .. n - 1
      PROVE  Listed(t, S(b)) = c[b]
  <2> DEFINE l == Len(c[b])
             L == Listed(t, S(b))
  <2>1. c[b] \in Seq(Entries) /\ l \in Nat /\ DOMAIN c[b] = 1 .. l /\ b \in Nat
    BY <1>1
  <2>2. S(b) = {b} \X (1 .. l)
    <3>1. ASSUME NEW x \in S(b) PROVE x \in {b} \X (1 .. l)
      <4>1. x = <<x[1], x[2]>> /\ x[2] \in 1 .. Len(c[x[1]]) /\ x[1] = b
        BY <1>1, PlaceFacts DEF Placed
      <4> QED
        BY <4>1
    <3>2. ASSUME NEW x \in {b} \X (1 .. l) PROVE x \in S(b)
      <4>1. x = <<b, x[2]>> /\ x[2] \in 1 .. l
        OBVIOUS
      <4>2. x \in Places(t)
        BY <1>1, <4>1, PlaceFacts
      <4>3. BucketIdx(Node(t, x).key, n) = x[1]
        BY <1>1, <4>2 DEF Placed
      <4> QED
        BY <4>1, <4>2, <4>3
    <3> QED
      BY <3>1, <3>2
  <2>3. \A i \in 1 .. l : <<b, i>> \in Places(t) /\ Node(t, <<b, i>>) = c[b][i]
    BY <1>1, PlaceFacts
  <2>4. S(b) \in SUBSET Places(t) /\ IsFiniteSet(S(b))
    BY <1>1, FS_Subset
  <2> HIDE DEF S
  <2>5. IsFiniteSet({b}) /\ Cardinality({b}) = 1
    BY FS_Singleton
  <2>6. ASSUME NEW i \in Nat
        PROVE  Cardinality({b} \X (1 .. i)) = i
    <3>1. IsFiniteSet(1 .. i) /\ Cardinality(1 .. i) = i
      BY FS_Interval
    <3>2. Cardinality({b} \X (1 .. i)) = Cardinality({b}) * Cardinality(1 .. i)
      BY <2>5, <3>1, FS_Product
    <3> QED
      BY ONLY <2>5, <3>1, <3>2, i \in Nat
  <2>7. ASSUME NEW i \in 1 .. l
        PROVE  Cardinality(Before(S(b), <<b, i>>)) = i - 1
    <3>1. Before(S(b), <<b, i>>) = {b} \X (1 .. i - 1)
      <4>1. \A j : j \in 1 .. i - 1 <=> j \in 1 .. l /\ j < i
        BY <2>1
      <4>2. ~ (b > b)
        BY <2>1
      <4>3. Before(S(b), <<b, i>>) =
              {y \in {b} \X (1 .. l) : y[1] > b \/ (y[1] = b /\ y[2] < i)}
        BY <2>2 DEF Before
      <4>4. ASSUME NEW y
            PROVE  y \in {b} \X (1 .. i - 1) <=>
                      /\ y \in {b} \X (1 .. l)
                      /\ y[1] > b \/ (y[1] = b /\ y[2] < i)
        BY <4>1, <4>2
      <4> QED
        BY ONLY <4>3, <4>4
    <3>2. i - 1 \in Nat
      BY <2>1
    <3> QED
      BY <2>6, <3>1, <3>2
  <2>8. /\ L \in Seq(Entries) /\ Len(L) = Cardinality(S(b))
        /\ \A p \in 1 .. Cardinality(S(b)) : \E x \in S(b) :
              L[p] = Node(t, x) /\ Cardinality(Before(S(b), x)) = p - 1
    BY <1>1, <2>4, ListedFacts
  <2> HIDE DEF L
  <2>9. Cardinality(S(b)) = l
    BY <2>1, <2>2, <2>6
  <2>10. ASSUME NEW p \in 1 .. l PROVE L[p] = c[b][p]
    <3>1. PICK x \in S(b) : L[p] = Node(t, x) /\ Cardinality(Before(S(b), x)) = p - 1
      BY <2>8, <2>9
    <3>2. x = <<b, x[2]>> /\ x[2] \in 1 .. l
      BY <2>2
    <3>3. x[2] - 1 = p - 1
      BY <2>7, <3>1, <3>2
    <3>4. x[2] = p
      <4>1. x[2] \in Nat /\ p \in Nat
        BY <2>1, <3>2
      <4> QED
        BY ONLY <3>3, <4>1
    <3> QED
      BY <2>3, <3>1, <3>2, <3>4
  <2> QED
    BY <2>1, <2>8, <2>9, <2>10 DEF L
<1> HIDE DEF S
<1>4. u.chain = c
  BY <1>1, <1>2, <1>3
<1> HIDE DEF u
<1>5. Places(u) = Places(t) /\ \A x : Node(u, x) = Node(t, x)
  BY <1>2, <1>4 DEF Places, Node
<1> QED
  BY <1>2, <1>5 DEF SamePlaces, u

-----------------------------------------------------------------------------
(* The table implements a partial function.                                *)

Contents(t) == [k \in HeldKeys(t) |-> Lookup(t, k)]

Todo(t, it) == IF it = None THEN None ELSE AheadIn(t, it)

RefInv ==
    /\ intact /\ Good(m)
    /\ iter = None \/ At(m, iter)

(* What AbstractMap sees.                                                  *)
LEMMA BarFacts ==
  /\ DOMAIN Contents(m) = HeldKeys(m)
  /\ \A k \in HeldKeys(m) : Contents(m)[k] = Lookup(m, k)
  /\ Ahead = AheadIn(m, iter)
BY DEF Contents, Ahead, AheadIn

\* A call that leaves an iteration goes on with it or ends it.
Kept == iter' = None \/ (iter' = iter /\ SamePlaces(m', m))

(* What becomes of it.                                                     *)
LEMMA KeptFacts ==
  ASSUME RefInv, Good(m)', Kept
  PROVE  /\ iter' = None \/ At(m, iter)'
         /\ Todo(m, iter)' = None \/ Todo(m, iter)' = Todo(m, iter)
         /\ iter' = iter => Todo(m, iter)' = Todo(m, iter)
<1>1. CASE iter' = None
  BY <1>1 DEF Todo
<1>2. CASE iter' # None
  <2>1. iter' = iter /\ SamePlaces(m', m) /\ At(m, iter) /\ Good(m)
    BY <1>2 DEF Kept, RefInv
  <2>2. AheadIn(m', iter) = AheadIn(m, iter) /\ At(m', iter)
    BY <2>1, AheadSame
  <2> QED
    BY <2>1, <2>2 DEF Todo
<1> QED
  BY <1>1, <1>2

(* A call that leaves the table alone.                                     *)
LEMMA SamePlacesSelf == SamePlaces(m, m)
BY DEF SamePlaces

(* A node more or less is noticed.                                         *)
LEMMA CountKept ==
  ASSUME IterKept, m'.nnodes = m.nnodes => SamePlaces(m', m)
  PROVE  Kept
BY DEF IterKept, Kept

\* Sets as much as Merge of AbstractMap.
Merges ==
    \E S \in SUBSET OtherKeys : \E entries \in [S -> Values] :
        Contents(m)' = [k \in HeldKeys(m) \cup S |->
                           IF k \in S THEN entries[k] ELSE Lookup(m, k)]

(* Several calls of map_set_ merge.                                        *)
LEMMA MergeFacts ==
  ASSUME Good(m), NEW t, NEW entries \in Seq(Entries),
         \A i \in 1 .. Len(entries) : entries[i].key \in OtherKeys,
         NEW p \in 0 .. Len(entries), SetFrom(m', t, entries, p),
         \A k \in Keys : (Held(t, k) <=> Held(m, k)) /\ Lookup(t, k) = Lookup(m, k)
  PROVE  Merges
<1> DEFINE At1(k) == {i \in 1 .. p : entries[i].key = k}
           S == {k \in Keys : At1(k) # {}}
           f == [k \in S |-> Lookup(m', k)]
<1>1. \A i \in 1 .. p : i \in 1 .. Len(entries)
  OBVIOUS
<1>2. \A k \in Keys :
         /\ Held(m', k) <=> Held(t, k) \/ At1(k) # {}
         /\ IF At1(k) = {} THEN Lookup(m', k) = Lookup(t, k)
            ELSE \E i \in At1(k) : Lookup(m', k) = entries[i].value
  BY DEF SetFrom
<1>3. \A i \in 1 .. Len(entries) : entries[i] \in Entries /\ entries[i].value \in Values
  <2>1. \A i \in 1 .. Len(entries) : entries[i] \in Entries
    OBVIOUS
  <2>2. \A e \in Entries : e.value \in Values
    BY DEF Entries
  <2> QED
    BY <2>1, <2>2
<1>4. S \in SUBSET OtherKeys
  BY <1>1
<1>5. f \in [S -> Values]
  <2>1. ASSUME NEW k \in S PROVE Lookup(m', k) \in Values
    <3>1. PICK i \in At1(k) : Lookup(m', k) = entries[i].value
      BY <1>2
    <3> QED
      BY <1>1, <1>3, <3>1
  <2> QED
    BY <2>1
<1>6. HeldKeys(m') = HeldKeys(m) \cup S
  BY <1>2 DEF HeldKeys
<1>7. \A k \in HeldKeys(m) \cup S :
         Lookup(m', k) = IF k \in S THEN f[k] ELSE Lookup(m, k)
  <2> SUFFICES ASSUME NEW k \in HeldKeys(m) \cup S
               PROVE  Lookup(m', k) = IF k \in S THEN f[k] ELSE Lookup(m, k)
    OBVIOUS
  <2>1. CASE k \in S
    BY <2>1
  <2>2. CASE k \notin S
    <3>1. k \in Keys /\ At1(k) = {}
      BY <2>2 DEF HeldKeys
    <3> QED
      BY <1>2, <2>2, <3>1
  <2> QED
    BY <2>1, <2>2
<1> HIDE DEF S, f, At1
<1>8. Contents(m)' = [k \in HeldKeys(m) \cup S |-> IF k \in S THEN f[k] ELSE Lookup(m, k)]
  BY <1>6, <1>7 DEF Contents
<1> QED
  BY <1>4, <1>5, <1>8 DEF Merges

\* The place x is behind that of an iteration.
Behind(it, x) == x[1] > it.bucketidx \/ (x[1] = it.bucketidx /\ x[2] > it.node)

(* Where an iteration is, and where nodes are.                             *)
LEMMA AtFacts ==
  ASSUME RefInv, iter # None
  PROVE  /\ iter \in [bucketidx : Int, node : Nat] /\ iter.bucketidx \in Int /\ iter.node \in Nat
         /\ \/ iter.bucketidx = -1 /\ iter.node = 0
            \/ /\ iter.bucketidx \in 0 .. m.nbuckets - 1
               /\ iter.node \in 1 .. Len(m.chain[iter.bucketidx])
         /\ m.nbuckets \in Nat
         /\ \A b \in 0 .. m.nbuckets - 1 :
               m.chain[b] \in Seq(Entries) /\ Len(m.chain[b]) \in Nat
         /\ \A x \in Places(m) :
               /\ x = <<x[1], x[2]>> /\ x[1] \in Int /\ x[2] \in Nat
               /\ x[1] \in 0 .. m.nbuckets - 1 /\ x[2] \in 1 .. Len(m.chain[x[1]])
               /\ m.chain[x[1]] # <<>>
<1>1. Table(m) /\ At(m, iter)
  BY DEF RefInv, Good
<1>2. m.nbuckets \in Nat /\ m.chain \in [0 .. m.nbuckets - 1 -> Seq(Entries)]
  BY <1>1 DEF Table
<1>3. ASSUME NEW x \in Places(m)
      PROVE  /\ x = <<x[1], x[2]>> /\ x[1] \in Int /\ x[2] \in Nat
             /\ x[1] \in 0 .. m.nbuckets - 1 /\ x[2] \in 1 .. Len(m.chain[x[1]])
             /\ m.chain[x[1]] # <<>>
  <2>1. /\ x = <<x[1], x[2]>> /\ x \in Nat \X Nat
        /\ x[1] \in 0 .. m.nbuckets - 1 /\ x[2] \in 1 .. Len(m.chain[x[1]])
    BY <1>1, PlaceFacts
  <2>2. x[1] \in Int /\ x[2] \in Nat
    BY <2>1
  <2>3. m.chain[x[1]] # <<>>
    <3> SUFFICES ASSUME m.chain[x[1]] = <<>> PROVE FALSE
      OBVIOUS
    <3>1. x[2] \in 1 .. 0
      BY <2>1
    <3> QED
      BY <3>1
  <2> QED
    BY <2>1, <2>2, <2>3
<1>4. CASE iter.bucketidx = -1 /\ iter.node = 0
  BY <1>1, <1>2, <1>3, <1>4 DEF At
<1>5. CASE <<iter.bucketidx, iter.node>> \in Places(m)
  <2>1. /\ iter.bucketidx \in 0 .. m.nbuckets - 1
        /\ iter.node \in 1 .. Len(m.chain[iter.bucketidx])
    <3> DEFINE x == <<iter.bucketidx, iter.node>>
    <3>1. x[1] \in 0 .. m.nbuckets - 1 /\ x[2] \in 1 .. Len(m.chain[x[1]])
      BY <1>3, <1>5
    <3> QED
      BY <3>1
  <2> QED
    BY <1>1, <1>2, <1>3, <2>1 DEF At
<1> QED
  BY <1>1, <1>4, <1>5 DEF At

(* The next node is the first one behind.                                  *)
LEMMA NextKeyFacts ==
  ASSUME RefInv, NextKey
  PROVE  /\ <<iter'.bucketidx, iter'.node>> \in Places(m)
         /\ iter' \in [bucketidx : Int, node : Nat]
         /\ result' = Node(m, <<iter'.bucketidx, iter'.node>>).key
         /\ \A x \in Places(m) :
               Behind(iter, x) <=> Behind(iter', x) \/ x = <<iter'.bucketidx, iter'.node>>
         /\ ~ Behind(iter', <<iter'.bucketidx, iter'.node>>)
<1> DEFINE B == iter.bucketidx
           I == iter.node
           b == iter'.bucketidx
           i == iter'.node
           n == m.nbuckets
           c == m.chain
<1>0. iter # None /\ result' = c[b][i].key /\ Table(m)
  BY DEF NextKey, RefInv, Good
<1>1. /\ iter \in [bucketidx : Int, node : Nat] /\ B \in Int /\ I \in Nat
      /\ \/ B = -1 /\ I = 0
         \/ B \in 0 .. n - 1 /\ I \in 1 .. Len(c[B])
      /\ n \in Nat
      /\ \A d \in 0 .. n - 1 : c[d] \in Seq(Entries) /\ Len(c[d]) \in Nat
      /\ \A x \in Places(m) :
            /\ x = <<x[1], x[2]>> /\ x[1] \in Int /\ x[2] \in Nat
            /\ x[1] \in 0 .. n - 1 /\ x[2] \in 1 .. Len(c[x[1]])
            /\ c[x[1]] # <<>>
  BY <1>0, AtFacts
<1>2. SUFFICES /\ b \in 0 .. n - 1 /\ i \in 1 .. Len(c[b])
               /\ iter' \in [bucketidx : Int, node : Nat]
               /\ \A x \in Places(m) : Behind(iter, x) <=> Behind(iter', x) \/ x = <<b, i>>
  <2>1. <<b, i>> \in Places(m) /\ Node(m, <<b, i>>) = c[b][i]
    BY <1>0, <1>2, PlaceFacts
  <2>2. ~ Behind(iter', <<b, i>>)
    <3>1. b \in Int /\ i \in Int
      BY <1>1, <1>2
    <3>2. ~ (b > b) /\ ~ (i > i)
      BY ONLY <3>1
    <3> QED
      BY <3>2 DEF Behind
  <2> QED
    BY <1>0, <1>2, <2>1, <2>2
<1>3. CASE AtListEnd
  <2>1. PICK d \in LaterBuckets :
           (\A e \in LaterBuckets : d <= e) /\ iter' = [bucketidx |-> d, node |-> 1]
    BY <1>3 DEF NextKey
  <2>2. b = d /\ i = 1 /\ iter' = [bucketidx |-> d, node |-> 1]
    BY <2>1
  <2>3. d \in 0 .. n - 1 /\ d > B /\ c[d] # <<>> /\ d \in Int /\ B \in Int
    <3>1. d \in B + 1 .. n - 1 /\ c[d] # <<>>
      BY DEF LaterBuckets
    <3> QED
      BY ONLY <1>1, <3>1
  <2>4. i \in 1 .. Len(c[b]) /\ iter' \in [bucketidx : Int, node : Nat]
    <3>1. c[d] \in Seq(Entries) /\ Len(c[d]) \in Nat /\ Len(c[d]) # 0
      BY <1>1, <2>3
    <3>2. 1 \in 1 .. Len(c[d])
      BY ONLY <3>1
    <3> QED
      BY <2>2, <2>3, <3>2
  <2>5. ASSUME NEW x \in Places(m)
        PROVE  Behind(iter, x) <=> Behind(iter', x) \/ x = <<b, i>>
    <3> DEFINE p == x[1]
               q == x[2]
    <3>1. /\ x = <<p, q>> /\ p \in Int /\ q \in Nat /\ p \in 0 .. n - 1 /\ q \in 1 .. Len(c[p])
          /\ c[p] # <<>>
      BY <1>1
    <3>2. p > B => p \in LaterBuckets
      <4>1. p > B => p \in B + 1 .. n - 1
        BY ONLY <1>1, <3>1
      <4> QED
        BY <3>1, <4>1 DEF LaterBuckets
    <3>3. p > B => d <= p
      BY <2>1, <3>2
    <3>4. ~ (p = B /\ q > I)
      <4> SUFFICES ASSUME p = B, q > I PROVE FALSE
        OBVIOUS
      <4>1. B # -1 /\ Len(c[B]) \in Nat /\ q \in 1 .. Len(c[B])
        BY <1>1, <3>1
      <4>2. I # 0 /\ I = Len(c[B])
        <5>1. I # 0
          BY <1>1, <4>1
        <5> QED
          BY <1>3, <5>1 DEF AtListEnd
      <4>3. q > Len(c[B])
        BY <4>2
      <4> QED
        BY ONLY <4>1, <4>3
    <3>5. (p > B \/ (p = B /\ q > I)) <=> (p > b \/ (p = b /\ q > i)) \/ (p = b /\ q = i)
      <4> DEFINE l == Len(c[p])
      <4>1. q \in 1 .. l
        BY <3>1
      <4>2. q >= 1 /\ q \in Nat
        BY ONLY <3>1
      <4>3. b = d /\ i = 1
        BY <2>2
      <4> HIDE DEF p, q, b, i, B, I
      <4> QED
        BY ONLY <2>3, <3>1, <3>3, <3>4, <4>2, <4>3
    <3>6. x = <<b, i>> <=> p = b /\ q = i
      BY <3>1
    <3> QED
      BY <3>5, <3>6 DEF Behind
  <2> QED
    BY <2>2, <2>3, <2>4, <2>5
<1>4. CASE ~ AtListEnd
  <2>1. I # 0 /\ I # Len(c[B]) /\ iter' = [iter EXCEPT !.node = I + 1]
    BY <1>4 DEF NextKey, AtListEnd
  <2>2. B \in 0 .. n - 1 /\ I \in 1 .. Len(c[B]) /\ Len(c[B]) \in Nat
    BY <1>1, <2>1
  <2>3. b = B /\ i = I + 1 /\ iter' \in [bucketidx : Int, node : Nat]
    BY <1>1, <2>1
  <2>4. i \in 1 .. Len(c[b])
    <3>1. I + 1 \in 1 .. Len(c[B])
      BY ONLY <1>1, <2>1, <2>2
    <3> QED
      BY <2>3, <3>1
  <2>5. ASSUME NEW x \in Places(m)
        PROVE  Behind(iter, x) <=> Behind(iter', x) \/ x = <<b, i>>
    <3> DEFINE p == x[1]
               q == x[2]
    <3>1. x = <<p, q>> /\ p \in Int /\ q \in Nat
      BY <1>1
    <3>2. (p > B \/ (p = B /\ q > I)) <=> (p > b \/ (p = b /\ q > i)) \/ (p = b /\ q = i)
      <4>1. b = B /\ i = I + 1 /\ I \in Nat /\ B \in Int
        BY <1>1, <2>3
      <4> HIDE DEF p, q, b, i, B, I
      <4> QED
        BY ONLY <3>1, <4>1
    <3>3. x = <<b, i>> <=> p = b /\ q = i
      BY <3>1
    <3> QED
      BY <3>2, <3>3 DEF Behind
  <2> QED
    BY <2>2, <2>3, <2>4, <2>5
<1> QED
  BY <1>3, <1>4

(* At the end of the last list nothing is left.                            *)
LEMMA IterEndFacts ==
  ASSUME RefInv, IterEnd
  PROVE  AheadIn(m, iter) = {}
<1>1. iter # None /\ Good(m)
  BY DEF IterEnd, RefInv
<1>2. ASSUME NEW x \in Places(m) PROVE ~ Behind(iter, x)
  <2> DEFINE B == iter.bucketidx
             I == iter.node
  <2>1. /\ B \in Int /\ I \in Nat /\ m.nbuckets \in Nat
        /\ \/ B = -1 /\ I = 0
           \/ B \in 0 .. m.nbuckets - 1 /\ I \in 1 .. Len(m.chain[B])
        /\ x[1] \in 0 .. m.nbuckets - 1 /\ x[2] \in 1 .. Len(m.chain[x[1]])
        /\ m.chain[x[1]] # <<>> /\ x[1] \in Int /\ x[2] \in Nat
    BY <1>1, AtFacts
  <2>2. ~ (x[1] > B)
    <3> SUFFICES ASSUME x[1] > B PROVE FALSE
      OBVIOUS
    <3>1. x[1] \in B + 1 .. m.nbuckets - 1
      BY <2>1
    <3>2. x[1] \in LaterBuckets
      BY <2>1, <3>1 DEF LaterBuckets
    <3> QED
      BY <3>2 DEF IterEnd
  <2>3. ~ (x[1] = B /\ x[2] > I)
    <3> SUFFICES ASSUME x[1] = B, x[2] > I PROVE FALSE
      OBVIOUS
    <3>1. B # -1 /\ x[2] \in 1 .. Len(m.chain[B]) /\ Len(m.chain[B]) \in Nat
      <4>1. \A b \in 0 .. m.nbuckets - 1 : Len(m.chain[b]) \in Nat
        BY <1>1, AtFacts
      <4> QED
        BY <2>1, <4>1
    <3>2. I # 0
      BY <2>1, <3>1
    <3>3. I = Len(m.chain[B])
      BY <3>2 DEF IterEnd, AtListEnd
    <3>4. x[2] > Len(m.chain[B])
      BY <3>3
    <3> QED
      BY ONLY <3>1, <3>4
  <2> QED
    BY <2>2, <2>3 DEF Behind
<1>3. ASSUME NEW k PROVE k \notin AheadIn(m, iter)
  <2>1. k \in AheadIn(m, iter) <=> \E x \in Places(m) : Node(m, x).key = k /\ Behind(iter, x)
    BY <1>1, AheadFacts DEF Behind
  <2> QED
    BY <1>2, <2>1
<1> QED
  BY <1>3

(* The actions of AbstractMap, about the table.                            *)
LEMMA MapActions ==
  /\ \A k, v : Map!Set(k, v) <=>
        /\ Contents(m)' = [j \in DOMAIN Contents(m) \cup {k} |->
                              IF j = k THEN v ELSE Contents(m)[j]]
        /\ Todo(m, iter)' = IF k \in DOMAIN Contents(m) THEN Todo(m, iter) ELSE None
        /\ result' = TRUE
  /\ Map!Refuse <=>
        /\ result' = FALSE
        /\ Todo(m, iter)' \in {Todo(m, iter), None}
        /\ UNCHANGED Contents(m)
  /\ \A k : Map!Get(k) <=>
        /\ result' = IF k \in DOMAIN Contents(m) THEN Contents(m)[k] ELSE None
        /\ UNCHANGED <<Contents(m), Todo(m, iter)>>
  /\ \A k : Map!Remove(k) <=>
        /\ Contents(m)' = [j \in DOMAIN Contents(m) \ {k} |-> Contents(m)[j]]
        /\ Todo(m, iter)' = IF k \in DOMAIN Contents(m) THEN None ELSE Todo(m, iter)
        /\ result' = None
  /\ Map!Delete <=>
        Contents(m)' = [k \in {} |-> None] /\ Todo(m, iter)' = None /\ result' = None
  /\ \A entries : Map!Merge(entries) <=>
        /\ Contents(m)' = [k \in DOMAIN Contents(m) \cup DOMAIN entries |->
                              IF k \in DOMAIN entries THEN entries[k] ELSE Contents(m)[k]]
        /\ Todo(m, iter)' \in {Todo(m, iter), None}
        /\ result' \in BOOLEAN
  /\ Map!Equal <=> result' \in BOOLEAN /\ UNCHANGED <<Contents(m), Todo(m, iter)>>
  /\ Map!Iter <=>
        Todo(m, iter)' = DOMAIN Contents(m) /\ result' = None /\ UNCHANGED Contents(m)
  /\ Map!NextKey <=>
        /\ Todo(m, iter) # None
        /\ \E k \in Todo(m, iter) : result' = k /\ Todo(m, iter)' = Todo(m, iter) \ {k}
        /\ UNCHANGED Contents(m)
  /\ Map!IterEnd <=>
        /\ Todo(m, iter) = {} /\ Todo(m, iter)' = None /\ result' = None
        /\ UNCHANGED Contents(m)
<1>1. Contents(m) = [k \in HeldKeys(m) |-> Lookup(m, k)]
  BY DEF Contents
<1>2. Todo(m, iter) = IF iter = None THEN None ELSE Ahead
  BY DEF Todo, Ahead, AheadIn
<1>3. Contents(m)' = [k \in HeldKeys(m) |-> Lookup(m, k)]'
  BY DEF Contents
<1>4. Todo(m, iter)' = (IF iter = None THEN None ELSE Ahead)'
  BY DEF Todo, Ahead, AheadIn
<1> QED
  BY <1>1, <1>2, <1>3, <1>4
     DEF Map!Set, Map!Refuse, Map!Get, Map!Remove, Map!Delete, Map!Merge, Map!Equal,
         Map!Iter, Map!NextKey, Map!IterEnd

(* A call that finds memory, or fails where nothing is lost.               *)
LEMMA SetRefines ==
  ASSUME RefInv, NEW k \in Keys, NEW v \in Values, Set(k, v)
  PROVE  RefInv' /\ Map!Set(k, v)
<1>1. /\ m' = With(m, k, v) /\ IterKept /\ result' = TRUE /\ intact' = intact
      /\ Good(m) /\ intact
  BY DEF Set, RefInv
<1>2. /\ Good(m')
      /\ m'.nnodes = IF Held(m, k) THEN m.nnodes ELSE m.nnodes + 1
      /\ Held(m, k) => SamePlaces(m', m)
      /\ \A j \in Keys : /\ Held(m', j) <=> Held(m, j) \/ j = k
                         /\ Lookup(m', j) = IF j = k THEN v ELSE Lookup(m, j)
  BY <1>1, WithFacts
<1>3. m.nnodes \in Nat
  BY <1>1 DEF Good, Table
<1>4. m'.nnodes = m.nnodes => SamePlaces(m', m)
  BY <1>2, <1>3
<1>5. Kept
  BY <1>1, <1>4, CountKept
<1>6. IF Held(m, k) THEN iter' = iter ELSE iter' = None
  BY <1>1, <1>2, <1>3 DEF IterKept, SamePlaces
<1>7. /\ iter' = None \/ At(m, iter)'
      /\ iter' = iter => Todo(m, iter)' = Todo(m, iter)
  BY <1>2, <1>5, KeptFacts
<1>8. Todo(m, iter)' = IF Held(m, k) THEN Todo(m, iter) ELSE None
  BY <1>6, <1>7 DEF Todo
<1>9. HeldKeys(m') = HeldKeys(m) \cup {k} /\ (k \in HeldKeys(m) <=> Held(m, k))
  BY <1>2 DEF HeldKeys
<1>10. Contents(m)' = [j \in HeldKeys(m) \cup {k} |-> IF j = k THEN v ELSE Contents(m)[j]]
  <2>1. \A j \in HeldKeys(m) : Lookup(m, j) = Contents(m)[j]
    BY BarFacts
  <2>2. \A j \in HeldKeys(m) \cup {k} : Lookup(m', j) = IF j = k THEN v ELSE Contents(m)[j]
    BY <1>2, <2>1 DEF HeldKeys
  <2> QED
    BY <1>9, <2>2 DEF Contents
<1>11. RefInv'
  BY <1>1, <1>2, <1>7 DEF RefInv
<1> QED
  BY <1>1, <1>8, <1>9, <1>10, <1>11, BarFacts, MapActions

(* A call that leaves the table and the iteration as they are.             *)
LEMMA NoChange ==
  ASSUME RefInv, m' = m, intact', iter' = iter
  PROVE  RefInv' /\ UNCHANGED <<Contents(m), Todo(m, iter)>>
<1>1. RefInv'
  BY DEF RefInv
<1> QED
  BY <1>1

(* A removal.                                                              *)
LEMMA RemoveRefines ==
  ASSUME RefInv, NEW k \in Keys, Remove(k)
  PROVE  RefInv' /\ Map!Remove(k)
<1>1. Good(m) /\ intact /\ intact' = intact /\ result' = None /\ IterKept
  BY DEF Remove, RefInv
<1>2. /\ Good(m)'
      /\ \A j \in Keys : /\ Held(m, j)' <=> Held(m, j) /\ j # k
                         /\ Lookup(m, j)' = IF j = k THEN None ELSE Lookup(m, j)
  BY <1>1, RemoveStep
<1>3. m.nnodes \in Nat
  BY <1>1 DEF Good, Table
<1>4. IF Held(m, k) THEN iter' = None ELSE m' = m /\ iter' = iter
  <2>1. CASE Held(m, k)
    <3>1. m'.nnodes = m.nnodes - 1
      <4>1. m \in [nbuckets : Nat, nnodes : Nat, chain : {m.chain}]
        BY <1>1 DEF Good, Table
      <4> DEFINE d == [m.chain EXCEPT ![BucketIdx(k, m.nbuckets)] = Unlinked(@, Ref(m, k))]
      <4>2. m' = [m EXCEPT !.chain = d, !.nnodes = m.nnodes - 1]
        BY <2>1 DEF Remove
      <4> HIDE DEF d
      <4> QED
        BY ONLY <4>1, <4>2
    <3>2. m'.nnodes # m.nnodes
      BY <1>3, <3>1
    <3> QED
      BY <1>1, <2>1, <3>2 DEF IterKept
  <2>2. CASE ~ Held(m, k)
    BY <1>1, <2>2 DEF Remove, IterKept
  <2> QED
    BY <2>1, <2>2
<1>5. RefInv' /\ Todo(m, iter)' = IF Held(m, k) THEN None ELSE Todo(m, iter)
  BY <1>1, <1>2, <1>4 DEF RefInv, Todo
<1>6. HeldKeys(m') = HeldKeys(m) \ {k} /\ (k \in HeldKeys(m) <=> Held(m, k))
  BY <1>2 DEF HeldKeys
<1>7. Contents(m)' = [j \in HeldKeys(m) \ {k} |-> Contents(m)[j]]
  <2>1. \A j \in HeldKeys(m) : Lookup(m, j) = Contents(m)[j]
    BY BarFacts
  <2>2. \A j \in HeldKeys(m) \ {k} : Lookup(m', j) = Contents(m)[j]
    BY <1>2, <2>1 DEF HeldKeys
  <2> QED
    BY <1>6, <2>2 DEF Contents
<1> QED
  BY <1>1, <1>5, <1>6, <1>7, BarFacts, MapActions

(* A realloc that fails for a map_set_, or at the start of a map_copy_.    *)
LEMMA RefuseRefines ==
  ASSUME RefInv, ResizeFails(m), intact', IterKept
  PROVE  RefInv' /\ Map!Refuse
<1>1. Good(m) /\ result' = FALSE
  BY DEF RefInv, ResizeFails
<1>2. m' = m /\ iter' = iter
  BY <1>1, FailureFacts DEF IterKept
<1> QED
  BY <1>1, <1>2, NoChange, MapActions

(* Several calls of map_set_.                                              *)
LEMMA SetEachRefines ==
  ASSUME RefInv, intact',
         NEW t, Good(t), t.nnodes = m.nnodes, t.nbuckets = m.nbuckets => SamePlaces(t, m),
         \A k \in Keys : (Held(t, k) <=> Held(m, k)) /\ Lookup(t, k) = Lookup(m, k),
         NEW entries \in Seq(Entries),
         \A i \in 1 .. Len(entries) : entries[i].key \in OtherKeys,
         SetEach(t, entries)
  PROVE  /\ RefInv'
         /\ \E S \in SUBSET OtherKeys : \E values \in [S -> Values] : Map!Merge(values)
<1>1. Good(m) /\ intact
  BY DEF RefInv
<1>2. intact' /\ IterKept
  BY DEF SetEach
<1>3. PICK p \in 0 .. Len(entries) : SetFrom(m', t, entries, p) /\ result' \in BOOLEAN
  BY <1>2, SetEachFacts
<1>4. Good(m') /\ (m'.nnodes = t.nnodes => SamePlaces(m', t))
  BY <1>3 DEF SetFrom
<1>5. Kept
  <2>1. CASE iter' # None
    <3>1. iter' = iter /\ m'.nbuckets = m.nbuckets /\ m'.nnodes = m.nnodes
      BY <1>2, <2>1 DEF IterKept
    <3>2. SamePlaces(m', t)
      BY <1>4, <3>1
    <3>3. SamePlaces(t, m)
      BY <3>1, <3>2 DEF SamePlaces
    <3> QED
      BY <3>1, <3>2, <3>3 DEF Kept, SamePlaces
  <2>2. CASE iter' = None
    BY <2>2 DEF Kept
  <2> QED
    BY <2>1, <2>2
<1>6. /\ iter' = None \/ At(m, iter)'
      /\ Todo(m, iter)' \in {Todo(m, iter), None}
  BY <1>4, <1>5, KeptFacts
<1>7. Merges
  BY <1>1, <1>3, MergeFacts
<1>8. PICK S \in SUBSET OtherKeys : \E values \in [S -> Values] :
        Contents(m)' = [k \in HeldKeys(m) \cup S |->
                           IF k \in S THEN values[k] ELSE Lookup(m, k)]
  BY <1>7 DEF Merges
<1>9. PICK values \in [S -> Values] :
        Contents(m)' = [k \in HeldKeys(m) \cup S |->
                           IF k \in S THEN values[k] ELSE Lookup(m, k)]
  BY <1>8
<1>10. Contents(m)' = [k \in DOMAIN Contents(m) \cup DOMAIN values |->
                           IF k \in DOMAIN values THEN values[k] ELSE Contents(m)[k]]
  <2>1. DOMAIN values = S /\ DOMAIN Contents(m) = HeldKeys(m)
    BY BarFacts
  <2>2. \A k \in HeldKeys(m) \cup S :
           (IF k \in S THEN values[k] ELSE Lookup(m, k))
              = IF k \in S THEN values[k] ELSE Contents(m)[k]
    BY BarFacts
  <2> QED
    BY <1>9, <2>1, <2>2
<1>11. Map!Merge(values)
  BY <1>3, <1>6, <1>10, MapActions
<1>12. RefInv'
  BY <1>2, <1>4, <1>6 DEF RefInv
<1> QED
  BY <1>11, <1>12

(* Every call that breaks no list is one of AbstractMap.                   *)
LEMMA NextRefines ==
  ASSUME RefInv, Next, intact'
  PROVE  RefInv' /\ Map!Next
<1>1. Good(m) /\ intact
  BY DEF RefInv
<1>2. ASSUME NEW k \in Keys, NEW v \in Values, Set(k, v) PROVE RefInv' /\ Map!Next
  BY <1>2, SetRefines DEF Map!Next
<1>3. ASSUME NEW k \in Keys, SetNoNode(k) PROVE RefInv' /\ Map!Next
  <2>1. m' = m /\ iter' = iter /\ intact' /\ result' = FALSE
    BY <1>1, <1>3 DEF SetNoNode
  <2> QED
    BY <2>1, NoChange, MapActions DEF Map!Next
<1>4. ASSUME NEW k \in Keys, SetNoBuckets(k) PROVE RefInv' /\ Map!Next
  BY <1>4, RefuseRefines DEF SetNoBuckets, Map!Next
<1>5. ASSUME NEW k \in Keys, Get(k) PROVE RefInv' /\ Map!Next
  <2>1. m' = m /\ iter' = iter /\ intact' /\ result' = Lookup(m, k)
    BY <1>1, <1>5 DEF Get
  <2>2. result' = IF k \in DOMAIN Contents(m) THEN Contents(m)[k] ELSE None
    <3>1. k \in HeldKeys(m) <=> Held(m, k)
      BY DEF HeldKeys
    <3>2. ~ Held(m, k) => Lookup(m, k) = None
      BY DEF Lookup
    <3> QED
      BY <2>1, <3>1, <3>2, BarFacts
  <2>3. Map!Get(k) /\ RefInv'
    BY <2>1, <2>2, NoChange, MapActions
  <2> QED
    BY <2>3 DEF Map!Next
<1>6. ASSUME NEW k \in Keys, Remove(k) PROVE RefInv' /\ Map!Next
  BY <1>6, RemoveRefines DEF Map!Next
<1>7. ASSUME NEW pairs \in Lists(MaxPairs), FromPairs(pairs) PROVE RefInv' /\ Map!Next
  <2>1. pairs \in Seq(Entries) /\ \A i \in 1 .. Len(pairs) : pairs[i].key \in OtherKeys
    BY DEF Lists
  <2>2. /\ RefInv'
        /\ \E S \in SUBSET OtherKeys : \E values \in [S -> Values] : Map!Merge(values)
    BY <1>1, <1>7, <2>1, SetEachRefines, SamePlacesSelf DEF FromPairs
  <2> QED
    BY <2>2 DEF Map!Next
<1>8. ASSUME NEW other \in Others, Copy(other) PROVE RefInv' /\ Map!Next
  <2> DEFINE t == CopyTo(other)
             nodes == Nodes(other)
  <2>1. /\ Good(other) /\ Good(t) /\ nodes \in Seq(Entries)
        /\ \A k \in Keys : (Held(t, k) <=> Held(m, k)) /\ Lookup(t, k) = Lookup(m, k)
    BY <1>1, CopyFacts
  <2>2. t.nnodes = m.nnodes
    BY DEF CopyTo, Resized, Good, Table
  <2>3. t.nbuckets = m.nbuckets => SamePlaces(t, m)
    <3> SUFFICES ASSUME t.nbuckets = m.nbuckets PROVE SamePlaces(t, m)
      OBVIOUS
    <3>1. CASE CopyResizes(other)
      <4>1. t = Resized(m, other.nbuckets)
        BY <3>1 DEF CopyTo
      <4>2. t.nbuckets = other.nbuckets
        BY <1>1, <4>1 DEF Resized, Good, Table
      <4>3. m.nbuckets > 0
        <5>1. m.nnodes <= m.nbuckets /\ other.nbuckets > m.nbuckets - m.nnodes
          BY <3>1 DEF CopyResizes
        <5>2. m.nnodes \in Nat /\ m.nbuckets \in Nat /\ other.nbuckets = m.nbuckets
          BY <1>1, <4>2 DEF Good, Table
        <5> QED
          BY ONLY <5>1, <5>2
      <4> QED
        BY <1>1, <4>1, <4>2, <4>3, ResizeSame
    <3>2. CASE ~ CopyResizes(other)
      BY <3>2, SamePlacesSelf DEF CopyTo
    <3> QED
      BY <3>1, <3>2
  <2>4. \A i \in 1 .. Len(nodes) : nodes[i].key \in OtherKeys
    <3>1. \A i \in 1 .. Len(nodes) : Held(other, nodes[i].key) /\ nodes[i].key \in Keys
      <4>1. \A i \in 1 .. Len(nodes) : Held(other, nodes[i].key) /\ nodes[i] \in Entries
        BY <2>1, NodesFacts
      <4> QED
        BY <4>1 DEF Entries
    <3> QED
      BY <3>1, OthersGood
  <2>5. SetEach(t, nodes)
    BY <1>8 DEF Copy
  <2> HIDE DEF t, nodes
  <2>6. /\ RefInv'
        /\ \E S \in SUBSET OtherKeys : \E values \in [S -> Values] : Map!Merge(values)
    BY <2>1, <2>2, <2>3, <2>4, <2>5, SetEachRefines
  <2> QED
    BY <2>6 DEF Map!Next
<1>9. ASSUME NEW other \in Others, CopyNoBuckets(other) PROVE RefInv' /\ Map!Next
  BY <1>9, RefuseRefines DEF CopyNoBuckets, Map!Next
<1>10. ASSUME NEW other \in Others, Equal(other) PROVE RefInv' /\ Map!Next
  <2>1. m' = m /\ iter' = iter /\ intact' /\ result' \in BOOLEAN
    <3>1. Same(other) \in BOOLEAN
      BY DEF Same
    <3> QED
      BY <1>1, <1>10, <3>1 DEF Equal
  <2> QED
    BY <2>1, NoChange, MapActions DEF Map!Next
<1>11. ASSUME Delete PROVE RefInv' /\ Map!Next
  <2>1. m' = Empty /\ iter' = None /\ intact' /\ result' = None
    BY <1>1, <1>11 DEF Delete
  <2>2. RefInv'
    BY <2>1, EmptyGood DEF RefInv
  <2>3. HeldKeys(m') = {}
    BY <2>1, EmptyGood DEF HeldKeys
  <2>4. Contents(m)' = [k \in {} |-> None]
    BY <2>3 DEF Contents
  <2>5. Todo(m, iter)' = None
    BY <2>1 DEF Todo
  <2> QED
    BY <2>1, <2>2, <2>4, <2>5, MapActions DEF Map!Next
<1>12. ASSUME Iter PROVE RefInv' /\ Map!Next
  <2>1. /\ m' = m /\ intact' /\ result' = None
        /\ iter' = [bucketidx |-> -1, node |-> 0]
    BY <1>1, <1>12 DEF Iter
  <2>2. iter' # None /\ At(m', iter') /\ iter'.bucketidx = -1
    BY <2>1, HashMapAssumption DEF At
  <2>3. AheadIn(m, iter') = HeldKeys(m)
    <3>1. ASSUME NEW k \in HeldKeys(m) PROVE k \in AheadIn(m, iter')
      <4>1. k \in Keys /\ Held(m, k) /\ Table(m) /\ Placed(m)
        BY <1>1 DEF HeldKeys, Good
      <4>2. PICK x \in Places(m) : Node(m, x).key = k
        BY <4>1, HeldFacts
      <4>3. x[1] > -1
        <5>1. x[1] \in 0 .. m.nbuckets - 1
          BY <4>1, PlaceFacts
        <5>2. m.nbuckets \in Nat
          BY <4>1 DEF Table
        <5> QED
          BY ONLY <5>1, <5>2
      <4> QED
        BY <1>1, <2>2, <4>2, <4>3, AheadFacts
    <3> QED
      BY <3>1 DEF AheadIn
  <2>4. RefInv'
    BY <1>1, <2>1, <2>2 DEF RefInv
  <2>5. Todo(m, iter)' = DOMAIN Contents(m)
    BY <2>1, <2>2, <2>3, BarFacts DEF Todo
  <2> QED
    BY <2>1, <2>4, <2>5, MapActions DEF Map!Next
<1>13. ASSUME NextKey PROVE RefInv' /\ Map!Next
  <2> DEFINE y == <<iter'.bucketidx, iter'.node>>
             k == Node(m, y).key
  <2>1. m' = m /\ intact' /\ iter # None
    BY <1>1, <1>13 DEF NextKey
  <2>2. /\ y \in Places(m) /\ result' = k
        /\ \A x \in Places(m) : Behind(iter, x) <=> Behind(iter', x) \/ x = y
        /\ ~ Behind(iter', y) /\ iter' \in [bucketidx : Int, node : Nat]
    BY <1>13, NextKeyFacts
  <2>3. iter' # None /\ At(m', iter')
    BY <2>1, <2>2, HashMapAssumption DEF At
  <2>4. RefInv'
    BY <1>1, <2>1, <2>3 DEF RefInv
  <2> HIDE DEF y
  <2>5. \A j : j \in AheadIn(m, iter) <=>
               \E x \in Places(m) : Node(m, x).key = j /\ Behind(iter, x)
    BY <1>1, AheadFacts DEF Behind
  <2>6. \A j : j \in AheadIn(m, iter') <=>
               \E x \in Places(m) : Node(m, x).key = j /\ Behind(iter', x)
    BY <1>1, AheadFacts DEF Behind
  <2>7. \A x \in Places(m) : Node(m, x).key = k => x = y
    BY <1>1, <2>2 DEF Good, Placed
  <2>8. k \in AheadIn(m, iter)
    BY <2>2, <2>5
  <2>9. AheadIn(m, iter') = AheadIn(m, iter) \ {k}
    BY <2>2, <2>5, <2>6, <2>7
  <2>10. Todo(m, iter) = AheadIn(m, iter) /\ Todo(m, iter)' = AheadIn(m, iter) \ {k}
    BY <2>1, <2>3, <2>9 DEF Todo
  <2>11. AheadIn(m, iter) # None
    <3>1. AheadIn(m, iter) \in SUBSET Keys
      BY DEF AheadIn, HeldKeys
    <3> QED
      BY <3>1, HashMapAssumption
  <2>12. UNCHANGED Contents(m)
    BY <2>1
  <2>13. Map!NextKey
    BY <2>2, <2>8, <2>10, <2>11, <2>12, MapActions
  <2> QED
    BY <2>4, <2>13 DEF Map!Next
<1>14. ASSUME IterEnd PROVE RefInv' /\ Map!Next
  <2>1. m' = m /\ intact' /\ iter # None /\ iter' = None /\ result' = None
    BY <1>1, <1>14 DEF IterEnd
  <2>2. AheadIn(m, iter) = {}
    BY <1>14, IterEndFacts
  <2>3. Todo(m, iter) = {} /\ Todo(m, iter)' = None /\ UNCHANGED Contents(m)
    BY <2>1, <2>2 DEF Todo
  <2>4. RefInv'
    BY <1>1, <2>1 DEF RefInv
  <2> QED
    BY <2>1, <2>3, <2>4, MapActions DEF Map!Next
<1> QED
  BY <1>2, <1>3, <1>4, <1>5, <1>6, <1>7, <1>8, <1>9, <1>10, <1>11, <1>12, <1>13, <1>14
     DEF Next

(* A realloc that fails in a table of one node or none breaks no list.     *)
LEMMA StaysIntact ==
  ASSUME intact, ReallocFails \subseteq {0, 1}, Next
  PROVE  intact'
<1>1. ASSUME NEW t, ResizeFails(t) PROVE intact'
  <2>1. t.nnodes < 2
    BY <1>1 DEF ResizeFails
  <2> QED
    BY <1>1, <2>1 DEF ResizeFails
<1>2. ASSUME NEW t, NEW entries, SetEach(t, entries) PROVE intact'
  BY <1>1, <1>2 DEF SetEach
<1> QED
  BY <1>1, <1>2 DEF Next, Set, SetNoNode, SetNoBuckets, Get, Remove, FromPairs, Copy,
     CopyNoBuckets, Equal, Delete, Iter, NextKey, IterEnd

(* The program starts where AbstractMap does.                              *)
LEMMA InitRefines == Init => RefInv /\ Map!Init
<1> SUFFICES ASSUME Init PROVE RefInv /\ Map!Init
  OBVIOUS
<1>1. m = Empty /\ intact /\ iter = None /\ result = None
  BY DEF Init
<1>2. RefInv
  BY <1>1, EmptyGood DEF RefInv
<1>3. HeldKeys(m) = {}
  BY <1>1, EmptyGood DEF HeldKeys
<1> QED
  BY <1>1, <1>2, <1>3 DEF Map!Init

(* Unless a realloc fails in a table of two nodes or more, the table is a  *)
(* partial function: no resize, collision, removal or copy shows, and an   *)
(* iteration returns each key once.                                        *)
THEOREM TableImplements == ASSUME ReallocFails \subseteq {0, 1} PROVE Spec => ImplementsMap
<1>1. Init => RefInv /\ Map!Init
  BY InitRefines
<1>2. RefInv /\ [Next]_vars => RefInv' /\ [Map!Next]_Map!mapVars
  <2> SUFFICES ASSUME RefInv, [Next]_vars
               PROVE  RefInv' /\ [Map!Next]_Map!mapVars
    OBVIOUS
  <2>1. CASE Next
    BY <2>1, NextRefines, StaysIntact DEF RefInv
  <2>2. CASE UNCHANGED vars
    <3>1. m' = m /\ iter' = iter /\ intact' = intact /\ result' = result /\ intact
      BY <2>2 DEF vars, RefInv
    <3>2. UNCHANGED Map!mapVars
      BY <3>1 DEF Map!mapVars, Ahead
    <3> QED
      BY <3>1, <3>2, NoChange
  <2> QED
    BY <2>1, <2>2
<1> QED
  BY <1>1, <1>2, PTL DEF Spec, ImplementsMap, Map!Spec

-----------------------------------------------------------------------------
(* What a realloc that fails costs.                                        *)

(* A bucket leads to its old first node still, and behind it to nodes of   *)
(* other buckets only.                                                     *)
LEMMA RelinkedLists ==
  ASSUME NEW t, Good(t), NEW b \in 0 .. t.nbuckets - 1, t.chain[b] # <<>>
  PROVE  /\ Relinked(t)[b] \in Seq(Entries) /\ Len(Relinked(t)[b]) >= 1
         /\ Relinked(t)[b][1] = t.chain[b][1]
         /\ \A i \in 2 .. Len(Relinked(t)[b]) :
               BucketIdx(Relinked(t)[b][i].key, t.nbuckets) # b
<1> DEFINE S == {x \in Places(t) : x[1] > b}
           L == Listed(t, S)
           n == Cardinality(S)
           rev == [i \in DOMAIN L |-> L[Len(L) + 1 - i]]
           e == t.chain[b][1]
<1>1. /\ Table(t) /\ Placed(t) /\ IsFiniteSet(Places(t))
      /\ t.chain \in [0 .. t.nbuckets - 1 -> Seq(Entries)] /\ b \in Int
  BY PlacesFinite DEF Good, Table
<1>2. S \in SUBSET Places(t) /\ IsFiniteSet(S)
  BY <1>1, FS_Subset
<1>3. \A x \in S : x[1] # b /\ BucketIdx(Node(t, x).key, t.nbuckets) = x[1]
  <2>1. \A x \in S : x[1] > b /\ x[1] \in Int
    BY <1>1, PlaceFacts
  <2> QED
    BY <1>1, <2>1 DEF Placed
<1>4. Relinked(t)[b] = <<Head(t.chain[b])>> \o rev
  BY DEF Relinked
<1> HIDE DEF S
<1>5. /\ L \in Seq(Entries) /\ DOMAIN L = 1 .. n /\ Len(L) = n /\ n \in Nat
      /\ \A p \in 1 .. n : \E x \in S : L[p] = Node(t, x)
  BY <1>1, <1>2, ListedFacts
<1> HIDE DEF L, n
<1>6. \A i \in 1 .. n : n + 1 - i \in 1 .. n
  BY <1>5
<1>7. \A i \in 1 .. n : /\ rev[i] \in Entries
                        /\ BucketIdx(rev[i].key, t.nbuckets) # b
  <2>1. \A p \in 1 .. n : L[p] \in Entries /\ BucketIdx(L[p].key, t.nbuckets) # b
    BY <1>3, <1>5
  <2>2. \A i \in 1 .. n : rev[i] = L[n + 1 - i]
    BY <1>5
  <2> QED
    BY <1>6, <2>1, <2>2
<1>8. rev \in Seq(Entries) /\ Len(rev) = n
  <2>1. rev \in [1 .. n -> Entries]
    BY <1>5, <1>7
  <2> QED
    BY <1>5, <2>1
<1> HIDE DEF rev
<1>9. Head(t.chain[b]) = e /\ e \in Entries
  <2>1. \A list \in Seq(Entries) : list # <<>> => Head(list) = list[1] /\ list[1] \in Entries
    OBVIOUS
  <2> QED
    BY <1>1, <2>1
<1> HIDE DEF e
<1>10. Relinked(t)[b] = <<e>> \o rev
  BY <1>4, <1>9
<1>11. /\ <<e>> \o rev \in Seq(Entries) /\ Len(<<e>> \o rev) = n + 1
       /\ (<<e>> \o rev)[1] = e
       /\ \A i \in 2 .. n + 1 : (<<e>> \o rev)[i] = rev[i - 1] /\ i - 1 \in 1 .. n
  BY <1>5, <1>8, <1>9
<1> QED
  BY <1>5, <1>7, <1>10, <1>11 DEF e

(* What is found in such a table.                                          *)
LEMMA RelinkedLookup ==
  ASSUME NEW t, Good(t), NEW u, u = [t EXCEPT !.chain = Relinked(t)], NEW k \in Keys
  PROVE  Lookup(u, k) = IF Held(t, k) /\ Ref(t, k) = 1 THEN Lookup(t, k) ELSE None
<1> DEFINE n == t.nbuckets
           b == BucketIdx(k, n)
           r == Relinked(t)
           list == t.chain[b]
<1>1. /\ Table(t) /\ Placed(t) /\ n \in Nat
      /\ t \in [nbuckets : Nat, nnodes : Nat, chain : {t.chain}]
      /\ t.chain \in [0 .. n - 1 -> Seq(Entries)]
  BY DEF Good, Table
<1>2. u.nbuckets = n /\ u.chain = r
  <2> HIDE DEF r
  <2>1. u = [t EXCEPT !.chain = r]
    BY DEF r
  <2> QED
    BY ONLY <1>1, <2>1
<1>3. CASE n = 0
  BY <1>1, <1>2, <1>3 DEF Lookup, Held
<1>4. CASE n # 0
  <2>1. b \in 0 .. n - 1
    BY <1>1, <1>4, BucketIdxRange
  <2>2. Bucket(u, k) = r[b] /\ Bucket(t, k) = list /\ n > 0
    BY <1>1, <1>2, <1>4 DEF Bucket
  <2>3. CASE list = <<>>
    <3>1. r[b] = <<>>
      BY <2>1, <2>3 DEF Relinked
    <3>2. \A i : i \notin DOMAIN <<>>
      OBVIOUS
    <3>3. ~ Held(t, k) /\ ~ Held(u, k)
      BY <2>2, <2>3, <3>1, <3>2 DEF Held
    <3> QED
      BY <3>3 DEF Lookup
  <2>4. CASE list # <<>>
    <3>1. /\ r[b] \in Seq(Entries) /\ Len(r[b]) >= 1 /\ r[b][1] = list[1]
          /\ \A i \in 2 .. Len(r[b]) : BucketIdx(r[b][i].key, n) # b
      BY <2>1, <2>4, RelinkedLists
    <3> HIDE DEF r
    <3>2. DOMAIN r[b] = 1 .. Len(r[b]) /\ Len(r[b]) \in Nat
      BY <3>1
    <3>3. ASSUME NEW i \in DOMAIN r[b], r[b][i].key = k PROVE i = 1
      <4>1. i \notin 2 .. Len(r[b])
        BY <3>1, <3>3
      <4> QED
        BY <3>2, <3>3, <4>1
    <3>4. 1 \in DOMAIN r[b]
      BY <3>1, <3>2
    <3>5. <<b, 1>> \in Places(t) /\ Node(t, <<b, 1>>) = list[1]
      <4>1. list \in Seq(Entries)
        BY <1>1, <2>1
      <4>2. 1 \in 1 .. Len(list)
        BY <2>4, <4>1
      <4> QED
        BY <1>1, <2>1, <4>2, PlaceFacts
    <3>6. CASE list[1].key = k
      <4>1. <<b, 1>> = <<b, Ref(t, k)>> /\ Lookup(t, k) = list[1].value /\ Held(t, k)
        <5>1. PICK x \in Places(t) : x = <<b, 1>> /\ Node(t, x) = list[1]
          BY <3>5
        <5>2. Node(t, x).key = k
          BY <3>6, <5>1
        <5>3. /\ x = <<b, Ref(t, k)>> /\ Lookup(t, k) = Node(t, x).value
              /\ Held(t, k)
          BY <1>1, <5>2, HeldFacts
        <5> QED
          BY <5>1, <5>3
      <4>2. Held(u, k)
        BY <1>2, <2>2, <3>1, <3>4, <3>6 DEF Held
      <4> DEFINE First(i) == r[b][i].key = k /\ \A j \in 1 .. i - 1 : r[b][j].key # k
      <4>3. First(1)
        BY <3>1, <3>6
      <4>4. \A i \in DOMAIN r[b] : First(i) => i = 1
        BY <3>3
      <4>5. Ref(u, k) = CHOOSE i \in DOMAIN r[b] : First(i)
        BY <2>2 DEF Ref
      <4> HIDE DEF First
      <4>6. Ref(u, k) = 1
        BY <3>4, <4>3, <4>4, <4>5
      <4>7. Lookup(u, k) = list[1].value
        BY <2>2, <3>1, <4>2, <4>6 DEF Lookup
      <4> QED
        BY <4>1, <4>7
    <3>7. CASE list[1].key # k
      <4>1. ~ Held(u, k)
        BY <2>2, <3>1, <3>3, <3>7 DEF Held
      <4>2. ~ (Held(t, k) /\ Ref(t, k) = 1)
        BY <1>1, <3>5, <3>7, HeldFacts
      <4> QED
        BY <4>1, <4>2 DEF Lookup
    <3> QED
      BY <3>6, <3>7
  <2> QED
    BY <2>3, <2>4
<1> QED
  BY <1>3, <1>4

(* The extent of finding 2, wherever a realloc fails: after a map_set that *)
(* is refused because map_resize failed (cmap.c:76-89) just the keys that  *)
(* came first in their lists are found, with their values, and all others  *)
(* are lost.  A table whose lists have one node each loses nothing.        *)
THEOREM RefusalCost ==
  Spec => [][\A k \in Keys : SetNoBuckets(k)
               => \A j \in Keys :
                     Lookup(m, j)' = IF Held(m, j) /\ Ref(m, j) = 1
                                     THEN Lookup(m, j) ELSE None]_vars
<1>1. Init => Intact
  BY EmptyGood DEF Init, Intact
<1>2. Intact /\ [Next]_vars
        => [\A k \in Keys : SetNoBuckets(k)
              => \A j \in Keys :
                    Lookup(m, j)' = IF Held(m, j) /\ Ref(m, j) = 1
                                    THEN Lookup(m, j) ELSE None]_vars
  <2> SUFFICES ASSUME Intact, Next, NEW k \in Keys, SetNoBuckets(k), NEW j \in Keys
               PROVE  Lookup(m, j)' = IF Held(m, j) /\ Ref(m, j) = 1
                                      THEN Lookup(m, j) ELSE None
    OBVIOUS
  <2>1. Good(m)
    BY DEF Next, Intact
  <2>2. m' = [m EXCEPT !.chain = Relinked(m)]
    BY DEF SetNoBuckets, ResizeFails
  <2>3. Lookup(m', j) = IF Held(m, j) /\ Ref(m, j) = 1 THEN Lookup(m, j) ELSE None
    BY <2>1, <2>2, RelinkedLookup
  <2>4. Lookup(m, j)' = Lookup(m', j)
    OBVIOUS
  <2> QED
    BY <2>3, <2>4
<1> QED
  BY <1>1, <1>2, IntactStep, PTL DEF Spec

-----------------------------------------------------------------------------
(* Types, also where a realloc that fails has broken the lists.            *)

\* The size, count and lists of a table.
Shaped(t) ==
    /\ t.nbuckets \in Sizes \cup {0} /\ t.nnodes \in Nat
    /\ t.chain \in [0 .. t.nbuckets - 1 -> Seq(Entries)]

(* A table within the bound has a size for the mask.                       *)
LEMMA GoodShaped ==
  ASSUME NEW t, Good(t), Sized(t), t.nbuckets <= MaxBuckets
  PROVE  Shaped(t)
<1>1. t.nbuckets \in Nat /\ t.nnodes \in Nat
      /\ t.chain \in [0 .. t.nbuckets - 1 -> Seq(Entries)]
  BY DEF Good, Table
<1>2. t.nbuckets # 0 => t.nbuckets \in 1 .. MaxBuckets
  BY <1>1, HashMapAssumption
<1>3. t.nbuckets \in Sizes \cup {0}
  BY <1>2 DEF Sizes, Sized
<1> QED
  BY <1>1, <1>3 DEF Shaped

(* The lists that a realloc leaves which fails are lists of nodes still.   *)
LEMMA RelinkedTyped ==
  ASSUME NEW t, Good(t)
  PROVE  Relinked(t) \in [0 .. t.nbuckets - 1 -> Seq(Entries)]
<1> DEFINE c == t.chain
           L(b) == Listed(t, {x \in Places(t) : x[1] > b})
           rev(b) == [i \in DOMAIN L(b) |-> L(b)[Len(L(b)) + 1 - i]]
<1>1. /\ Table(t) /\ c \in [0 .. t.nbuckets - 1 -> Seq(Entries)]
      /\ IsFiniteSet(Places(t))
  BY PlacesFinite DEF Good, Table
<1>2. ASSUME NEW b \in 0 .. t.nbuckets - 1, c[b] # <<>>
      PROVE  <<Head(c[b])>> \o rev(b) \in Seq(Entries)
  <2>1. c[b] \in Seq(Entries) /\ Head(c[b]) \in Entries
    <3>1. c[b] \in Seq(Entries)
      BY <1>1
    <3>2. \A list \in Seq(Entries) : list # <<>> => Head(list) \in Entries
      OBVIOUS
    <3> QED
      BY <1>2, <3>1, <3>2
  <2> DEFINE S == {x \in Places(t) : x[1] > b}
             n == Cardinality(S)
  <2>2. S \in SUBSET Places(t) /\ IsFiniteSet(S)
    BY <1>1, FS_Subset
  <2>3. L(b) = Listed(t, S)
    OBVIOUS
  <2> HIDE DEF S, L
  <2>4. L(b) \in Seq(Entries) /\ DOMAIN L(b) = 1 .. n /\ Len(L(b)) = n /\ n \in Nat
    BY <1>1, <2>2, <2>3, ListedFacts
  <2> HIDE DEF n
  <2>5. \A i \in 1 .. n : L(b)[n + 1 - i] \in Entries
    <3>1. \A i \in 1 .. n : n + 1 - i \in 1 .. n
      BY <2>4
    <3>2. \A i \in 1 .. n : L(b)[i] \in Entries
      BY <2>4
    <3> QED
      BY <3>1, <3>2
  <2>6. rev(b) \in [1 .. n -> Entries]
    BY <2>4, <2>5
  <2> HIDE DEF rev
  <2>7. rev(b) \in Seq(Entries)
    BY <2>4, <2>6
  <2>8. <<Head(c[b])>> \in Seq(Entries)
    BY <2>1
  <2> QED
    BY <2>7, <2>8
<1>3. Relinked(t) = [b \in 0 .. t.nbuckets - 1 |->
                        IF c[b] = <<>> THEN <<>> ELSE <<Head(c[b])>> \o rev(b)]
  BY DEF Relinked
<1> HIDE DEF c, rev
<1>4. <<>> \in Seq(Entries)
  OBVIOUS
<1> QED
  BY <1>2, <1>3, <1>4

(* So is the table.                                                        *)
LEMMA FailureShaped ==
  ASSUME NEW t, Good(t), Shaped(t), ResizeFails(t)
  PROVE  Shaped(m')
<1>1. m' = [t EXCEPT !.chain = Relinked(t)]
  BY DEF ResizeFails
<1>2. t \in [nbuckets : Nat, nnodes : Nat, chain : {t.chain}]
  BY DEF Good, Table
<1> DEFINE r == Relinked(t)
<1>3. r \in [0 .. t.nbuckets - 1 -> Seq(Entries)]
  BY RelinkedTyped
<1> HIDE DEF r
<1>4. m' = [t EXCEPT !.chain = r]
  BY <1>1 DEF r
<1>5. m'.nbuckets = t.nbuckets /\ m'.nnodes = t.nnodes /\ m'.chain = r
  BY ONLY <1>2, <1>4
<1> QED
  BY <1>3, <1>5 DEF Shaped

(* The table that several calls of map_set_ lead to, or the one that fails *)
(* of them.                                                                *)
LEMMA SetEachShaped ==
  ASSUME NEW t, Good(t), Sized(t), NEW entries \in Seq(Entries), SetEach(t, entries)
  PROVE  Shaped(m') /\ result' \in BOOLEAN /\ intact' \in BOOLEAN \cup {intact}
<1>1. PICK p \in 0 .. Len(entries) :
        LET u == AfterEach(t, entries)[p] IN
        /\ u.nbuckets <= MaxBuckets
        /\ \/ m' = u /\ result' \in BOOLEAN /\ UNCHANGED intact
           \/ ResizeFails(u)
  BY DEF SetEach
<1> DEFINE u == AfterEach(t, entries)[p]
<1>2. SetFrom(u, t, entries, p)
  BY AfterEachFacts
<1> HIDE DEF u
<1>3. Good(u) /\ Sized(u) /\ u.nbuckets <= MaxBuckets
  BY <1>1, <1>2 DEF SetFrom, u
<1>4. Shaped(u)
  BY <1>3, GoodShaped
<1>5. CASE ResizeFails(u)
  <2>1. Shaped(m')
    BY <1>3, <1>4, <1>5, FailureShaped
  <2>2. result' \in BOOLEAN
    BY <1>5 DEF ResizeFails
  <2>3. intact' \in BOOLEAN
    BY <1>5 DEF ResizeFails
  <2> QED
    BY <2>1, <2>2, <2>3
<1>6. CASE m' = u /\ result' \in BOOLEAN /\ UNCHANGED intact
  BY <1>4, <1>6
<1> QED
  BY <1>1, <1>5, <1>6 DEF u

(* The second maps have sizes for the mask.                                *)
LEMMA OthersSized ==
  ASSUME NEW other \in Others
  PROVE  Sized(other)
<1>1. CASE other = Empty
  BY <1>1 DEF Sized, Empty
<1>2. CASE other # Empty
  <2>1. PICK nodes \in Seq(Entries), n \in Sizes : other = Resized(OneList(nodes), n)
    BY <1>2, OthersFacts
  <2>2. other.nbuckets = n
    BY <2>1 DEF Resized, OneList
  <2> QED
    BY <2>2 DEF Sized, Sizes
<1> QED
  BY <1>1, <1>2

\* Where an iteration may be.
IterTyped(t, it) == it \in [bucketidx : -1 .. t.nbuckets - 1, node : Nat] \cup {None}

(* TypeOK in these terms.                                                  *)
LEMMA TypeParts ==
  TypeOK <=> /\ Shaped(m) /\ intact \in BOOLEAN /\ IterTyped(m, iter)
             /\ result \in Keys \cup Values \cup {None} \cup BOOLEAN
BY DEF TypeOK, Shaped, IterTyped

(* A call that keeps the iteration while the size is the same.             *)
LEMMA KeptTyped ==
  ASSUME IterTyped(m, iter), IterKept
  PROVE  IterTyped(m', iter')
BY DEF IterTyped, IterKept

(* A call of a map whose lists are whole.                                  *)
LEMMA CallTyped ==
  ASSUME TypeOK, RefInv, Next
  PROVE  TypeOK'
<1> DEFINE Typed == /\ Shaped(m') /\ intact' \in BOOLEAN /\ IterTyped(m', iter')
                    /\ result' \in Keys \cup Values \cup {None} \cup BOOLEAN
<1>0. SUFFICES Typed
  BY DEF TypeOK, Shaped, IterTyped
<1>1. /\ Shaped(m) /\ intact \in BOOLEAN /\ IterTyped(m, iter) /\ Good(m) /\ intact
      /\ Sized(m) /\ m.nbuckets <= MaxBuckets /\ m.nbuckets \in Nat
  <2>1. Shaped(m) /\ intact \in BOOLEAN /\ IterTyped(m, iter) /\ Good(m) /\ intact
    BY TypeParts DEF RefInv
  <2>2. m.nbuckets \in Sizes \cup {0}
    BY <2>1 DEF Shaped
  <2>3. Sized(m) /\ m.nbuckets <= MaxBuckets /\ m.nbuckets \in Nat
    BY <2>2, HashMapAssumption DEF Sized, Sizes
  <2> QED
    BY <2>1, <2>3
<1>2. ASSUME NEW k \in Keys, NEW v \in Values, Set(k, v) PROVE Typed
  <2>1. /\ m' = With(m, k, v) /\ m'.nbuckets <= MaxBuckets /\ IterKept /\ result' = TRUE
        /\ intact' = intact
    BY <1>2 DEF Set
  <2>2. Good(m') /\ Sized(m')
    BY <1>1, <2>1, WithFacts
  <2>3. Shaped(m')
    BY <2>1, <2>2, GoodShaped
  <2> QED
    BY <1>1, <2>1, <2>3, KeptTyped
<1>3. ASSUME ResizeFails(m), IterKept PROVE Typed
  <2>1. Shaped(m')
    BY <1>1, <1>3, FailureShaped
  <2>2. IterTyped(m', iter')
    BY <1>1, <1>3, KeptTyped
  <2>3. result' \in BOOLEAN
    BY <1>3 DEF ResizeFails
  <2>4. intact' \in BOOLEAN
    BY <1>3 DEF ResizeFails
  <2> QED
    BY <2>1, <2>2, <2>3, <2>4
<1>4. ASSUME NEW k \in Keys, SetNoNode(k) PROVE Typed
  BY <1>1, <1>4 DEF SetNoNode
<1>5. ASSUME NEW k \in Keys, Get(k) PROVE Typed
  <2>1. Lookup(m, k) \in Values \cup {None}
    BY <1>1, LookupFacts
  <2> QED
    BY <1>1, <1>5, <2>1 DEF Get
<1>6. ASSUME NEW k \in Keys, Remove(k) PROVE Typed
  <2>1. Good(m')
    BY <1>1, <1>6, RemoveStep
  <2>2. IterKept /\ result' = None /\ intact' = intact
    BY <1>6 DEF Remove
  <2>3. m'.nbuckets = m.nbuckets
    <3>1. m \in [nbuckets : Nat, nnodes : Nat, chain : {m.chain}]
      BY <1>1 DEF Good, Table
    <3>2. CASE Held(m, k)
      <4> DEFINE d == [m.chain EXCEPT ![BucketIdx(k, m.nbuckets)] = Unlinked(@, Ref(m, k))]
      <4>1. m' = [m EXCEPT !.chain = d, !.nnodes = m.nnodes - 1]
        BY <1>6, <3>2 DEF Remove
      <4> HIDE DEF d
      <4> QED
        BY ONLY <3>1, <4>1
    <3>3. CASE ~ Held(m, k)
      BY <1>6, <3>3 DEF Remove
    <3> QED
      BY <3>2, <3>3
  <2>4. Sized(m') /\ m'.nbuckets <= MaxBuckets
    BY <1>1, <2>3 DEF Sized
  <2>5. Shaped(m')
    BY <2>1, <2>4, GoodShaped
  <2> QED
    BY <1>1, <2>2, <2>5, KeptTyped
<1>7. ASSUME NEW t, Good(t), Sized(t), NEW entries \in Seq(Entries), SetEach(t, entries)
      PROVE  Typed
  <2>1. Shaped(m') /\ result' \in BOOLEAN /\ intact' \in BOOLEAN \cup {intact}
    BY <1>7, SetEachShaped
  <2>2. IterKept
    BY <1>7 DEF SetEach
  <2> QED
    BY <1>1, <2>1, <2>2, KeptTyped
<1>8. ASSUME NEW pairs \in Lists(MaxPairs), FromPairs(pairs) PROVE Typed
  <2>1. pairs \in Seq(Entries)
    BY DEF Lists
  <2>2. SetEach(m, pairs)
    BY <1>8 DEF FromPairs
  <2> QED
    BY <1>1, <1>7, <2>1, <2>2
<1>9. ASSUME NEW other \in Others, Copy(other) PROVE Typed
  <2>1. Good(CopyTo(other)) /\ Nodes(other) \in Seq(Entries)
    BY <1>1, CopyFacts
  <2>2. Sized(CopyTo(other))
    <3>1. CASE CopyResizes(other)
      <4>1. CopyTo(other).nbuckets = other.nbuckets
        BY <1>1, <3>1 DEF CopyTo, Resized, Good, Table
      <4> QED
        BY <4>1, OthersSized DEF Sized
    <3>2. CASE ~ CopyResizes(other)
      BY <1>1, <3>2 DEF CopyTo
    <3> QED
      BY <3>1, <3>2
  <2>3. SetEach(CopyTo(other), Nodes(other))
    BY <1>9 DEF Copy
  <2> QED
    BY <1>7, <2>1, <2>2, <2>3
<1>10. ASSUME NEW other \in Others, Equal(other) PROVE Typed
  <2>1. Same(other) \in BOOLEAN
    BY DEF Same
  <2> QED
    BY <1>1, <1>10, <2>1 DEF Equal
<1>11. ASSUME Delete PROVE Typed
  <2>1. m' = Empty /\ iter' = None /\ result' = None /\ intact' = intact
    BY <1>11 DEF Delete
  <2>2. Good(Empty) /\ Sized(Empty) /\ Empty.nbuckets <= MaxBuckets
    BY EmptyGood, HashMapAssumption DEF Empty, Sized
  <2>3. Shaped(m')
    BY <2>1, <2>2, GoodShaped
  <2> QED
    BY <1>1, <2>1, <2>3 DEF IterTyped
<1>12. ASSUME Iter PROVE Typed
  <2>1. -1 \in -1 .. m.nbuckets - 1
    BY <1>1
  <2> QED
    BY <1>1, <1>12, <2>1 DEF Iter, IterTyped
<1>13. ASSUME NextKey PROVE Typed
  <2> DEFINE x == <<iter'.bucketidx, iter'.node>>
  <2>1. /\ x \in Places(m) /\ iter' \in [bucketidx : Int, node : Nat]
        /\ result' = Node(m, x).key
    BY <1>13, NextKeyFacts
  <2>2. Table(m)
    BY <1>1 DEF Good
  <2>3. x[1] \in 0 .. m.nbuckets - 1 /\ Node(m, x) \in Entries
    BY <2>1, <2>2, PlaceFacts
  <2>4. result' \in Keys
    BY <2>1, <2>3 DEF Entries
  <2>5. iter'.bucketidx \in -1 .. m.nbuckets - 1
    BY <1>1, <2>3
  <2>6. IterTyped(m, iter')
    BY <2>1, <2>5 DEF IterTyped
  <2> QED
    BY <1>1, <1>13, <2>4, <2>6 DEF NextKey
<1>14. ASSUME IterEnd PROVE Typed
  BY <1>1, <1>14 DEF IterEnd, IterTyped
<1> HIDE DEF Typed
<1> QED
  BY <1>2, <1>3, <1>4, <1>5, <1>6, <1>8, <1>9, <1>10, <1>11, <1>12, <1>13, <1>14
     DEF Next, SetNoBuckets, CopyNoBuckets

(* The number of buckets is always a power of two, as the mask of          *)
(* map_bucketidx needs it, also after map_copy and a realloc that fails;   *)
(* an iteration stays in the table, and the calls return what their        *)
(* declarations say.                                                       *)
THEOREM TypeCorrect == Spec => []TypeOK
<1> DEFINE Whole == intact => RefInv
<1>1. Init => TypeOK /\ Whole
  <2> SUFFICES ASSUME Init PROVE TypeOK /\ Whole
    OBVIOUS
  <2>1. RefInv
    BY InitRefines
  <2>2. m = Empty /\ intact = TRUE /\ iter = None /\ result = None
    BY DEF Init
  <2>3. Good(Empty) /\ Sized(Empty) /\ Empty.nbuckets <= MaxBuckets
    BY EmptyGood, HashMapAssumption DEF Empty, Sized
  <2>4. Shaped(m)
    BY <2>2, <2>3, GoodShaped
  <2> QED
    BY <2>1, <2>2, <2>4, TypeParts DEF IterTyped
<1>2. TypeOK /\ Whole /\ [Next]_vars => TypeOK' /\ Whole'
  <2> SUFFICES ASSUME TypeOK, Whole, [Next]_vars
               PROVE  TypeOK' /\ Whole'
    OBVIOUS
  <2>1. CASE Next
    <3>1. RefInv
      BY <2>1 DEF Next
    <3>2. TypeOK'
      BY <2>1, <3>1, CallTyped
    <3>3. Whole'
      BY <2>1, <3>1, NextRefines
    <3> QED
      BY <3>2, <3>3
  <2>2. CASE UNCHANGED vars
    BY <2>2 DEF vars, TypeOK, RefInv
  <2> QED
    BY <2>1, <2>2
<1> HIDE DEF Whole
<1> QED
  BY <1>1, <1>2, PTL DEF Spec

=============================================================================
