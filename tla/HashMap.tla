------------------------------- MODULE HashMap -------------------------------
(***************************************************************************)
(* The chained hash table of cmap.c.                                       *)
(*                                                                         *)
(* m.chain[b] is the list that starts at buckets[b], an entry per node.  A *)
(* call is one step: no two run at a time.  Where a call has a second map  *)
(* it only reads it, and takes it out of `Others`.                         *)
(*                                                                         *)
(* A resize that fails leaves every node linked to those relinked before   *)
(* it, so that lists share nodes: what later calls do with them is         *)
(* undefined and no call is modelled once `intact` is FALSE.               *)
(*                                                                         *)
(* A definition whose name ends in _Bug is a slip that its successor could *)
(* have had; no specification uses it.                                     *)
(***************************************************************************)
EXTENDS Integers, Sequences, FiniteSets

CONSTANTS Keys, Values, None,
          Hash,          (* hash_func, as a function on Keys                *)
          MaxBuckets,    (* bound: number of buckets                        *)
          ReallocFails,  (* realloc may fail in a table of so many nodes    *)
          OtherKeys,     (* bound: keys of a second map, or of pairs        *)
          MaxPairs       (* bound: how many pairs                           *)

ASSUME HashMapAssumption ==
    /\ Hash \in [Keys -> Nat]
    /\ MaxBuckets \in Nat /\ MaxPairs \in Nat
    /\ ReallocFails \subseteq Nat
    /\ OtherKeys \subseteq Keys
    /\ None \notin Keys /\ None \notin Values
    /\ None \notin [bucketidx : Int, node : Nat]
    /\ \A S \in SUBSET Keys : S # None

VARIABLES
    m,       (* of map_base_t: nbuckets, nnodes, and chain                  *)
    intact,
    iter,    (* a map_iter_t: bucketidx, and node as its place in the list, *)
             (* 0 for NULL; None when there is none that is still valid     *)
    result   (* what the last call returned                                 *)

vars == <<m, intact, iter, result>>

Empty == [nbuckets |-> 0, nnodes |-> 0, chain |-> [b \in {} |-> <<>>]]

Init ==
    /\ m = Empty
    /\ intact = TRUE
    /\ iter = None
    /\ result = None

-----------------------------------------------------------------------------
(* Lists, in a table t.                                                    *)

\* map_bucketidx in a table of n buckets: n is a power of two, so the mask keeps
\* the remainder.
BucketIdx(k, n) == Hash[k] % n

Bucket(t, k) == t.chain[BucketIdx(k, t.nbuckets)]

\* map_getref finds a node.
Held(t, k) == t.nbuckets > 0 /\ \E i \in DOMAIN Bucket(t, k) : Bucket(t, k)[i].key = k

HeldKeys(t) == {k \in Keys : Held(t, k)}

\* The place of that node: the first one with the key.
Ref(t, k) ==
    CHOOSE i \in DOMAIN Bucket(t, k) :
        /\ Bucket(t, k)[i].key = k
        /\ \A j \in 1 .. i - 1 : Bucket(t, k)[j].key # k

Lookup(t, k) == IF Held(t, k) THEN Bucket(t, k)[Ref(t, k)].value ELSE None

\* map_addnode: the new node is the first of its list.
AddNode(t, k, v) ==
    [t EXCEPT !.chain[BucketIdx(k, t.nbuckets)] = <<[key |-> k, value |-> v]>> \o @]

\* The places of nodes, each a bucket and an index of its list.
Places(t) == UNION {{b} \X DOMAIN t.chain[b] : b \in 0 .. t.nbuckets - 1}

Node(t, x) == t.chain[x[1]][x[2]]

\* The last bucket comes first.
Before(S, x) == {y \in S : y[1] > x[1] \/ (y[1] = x[1] /\ y[2] < x[2])}

\* The nodes at the places S, in that order.
Listed(t, S) ==
    [p \in 1 .. Cardinality(S) |->
        Node(t, CHOOSE x \in S : Cardinality(Before(S, x)) = p - 1)]

\* The nodes stay where they were.
Resized_Bug(t, n) ==
    [t EXCEPT !.nbuckets = n,
              !.chain = [b \in 0 .. n - 1 |-> IF b < t.nbuckets THEN t.chain[b] ELSE <<>>]]

\* map_resize chains all nodes together, which turns their order round, and adds
\* each at the front of its new list, which turns it round again.
Resized(t, n) ==
    [t EXCEPT !.nbuckets = n,
              !.chain = [b \in 0 .. n - 1 |->
                  Listed(t, {x \in Places(t) : BucketIdx(Node(t, x).key, n) = b})]]

\* What the buckets lead to when realloc has failed: each still points at its old
\* first node, whose successors are the nodes relinked before it, latest first.
Relinked(t) ==
    [b \in 0 .. t.nbuckets - 1 |->
        IF t.chain[b] = <<>> THEN <<>>
        ELSE LET before == Listed(t, {x \in Places(t) : x[1] > b})
             IN  <<Head(t.chain[b])>>
                     \o [i \in DOMAIN before |-> before[Len(before) + 1 - i]]]

\* map_remove_ links the node before to the one behind.
Unlinked(list, i) == SubSeq(list, 1, i - 1) \o SubSeq(list, i + 1, Len(list))

-----------------------------------------------------------------------------
(* map_set_.                                                               *)

\* One bucket more.
NewSize_Bug(t) == t.nbuckets + 1

NewSize(t) == IF t.nbuckets > 0 THEN 2 * t.nbuckets ELSE 1

MustGrow(t) == t.nnodes >= t.nbuckets

\* The table after a map_set_ that succeeds.
With(t, k, v) ==
    IF Held(t, k)
    THEN [t EXCEPT !.chain[BucketIdx(k, t.nbuckets)][Ref(t, k)].value = v]
    ELSE LET grown == IF MustGrow(t) THEN Resized(t, NewSize(t)) ELSE t
         IN  [AddNode(grown, k, v) EXCEPT !.nnodes = t.nnodes + 1]

\* An iteration goes on as long as no node comes, goes or is moved.
IterKept ==
    iter' = IF m'.nbuckets = m.nbuckets /\ m'.nnodes = m.nnodes THEN iter ELSE None

Set(k, v) ==
    /\ m' = With(m, k, v) /\ m'.nbuckets <= MaxBuckets
    /\ IterKept
    /\ result' = TRUE
    /\ UNCHANGED intact

\* malloc fails.
SetNoNode(k) ==
    /\ ~Held(m, k)
    /\ result' = FALSE
    /\ UNCHANGED <<m, intact, iter>>

\* map_resize of the table t with a realloc that fails.  One node alone stays as it
\* was.
ResizeFails(t) ==
    /\ t.nnodes \in ReallocFails
    /\ m' = [t EXCEPT !.chain = Relinked(t)]
    /\ intact' = (t.nnodes < 2)
    /\ result' = FALSE

SetNoBuckets(k) ==
    /\ ~Held(m, k) /\ MustGrow(m)
    /\ ResizeFails(m)
    /\ IterKept

-----------------------------------------------------------------------------
(* map_from_pairs_, map_copy_ and map_equal_.                              *)

\* The tables that a map_set_ for each of the entries leads to, from the table t on.
AfterEach(t, entries) ==
    LET after[p \in 0 .. Len(entries)] ==
            IF p = 0 THEN t ELSE With(after[p - 1], entries[p].key, entries[p].value)
    IN  after

\* The calls stop at the first map_set_ that fails.
SetEach(t, entries) ==
    \E p \in 0 .. Len(entries) :
        LET u == AfterEach(t, entries)[p] IN
        /\ u.nbuckets <= MaxBuckets
        /\ \/ p = Len(entries) /\ m' = u /\ result' = TRUE /\ UNCHANGED intact
           \/ /\ p < Len(entries) /\ ~Held(u, entries[p + 1].key)
              /\ \/ m' = u /\ result' = FALSE /\ UNCHANGED intact
                 \/ MustGrow(u) /\ ResizeFails(u)
        /\ IterKept

FromPairs(pairs) == SetEach(m, pairs)

\* With more nodes than buckets the unsigned difference is huge.
CopyResizes(other) ==
    m.nnodes <= m.nbuckets /\ other.nbuckets > m.nbuckets - m.nnodes

\* The table that is copied to, with the size of the other if that is more than the
\* room it has.
CopyTo(other) == IF CopyResizes(other) THEN Resized(m, other.nbuckets) ELSE m

\* The first bucket is left out.
Nodes_Bug(t) == Listed(t, {x \in Places(t) : x[1] > 0})

\* The nodes of a map, from the last bucket to the first.
Nodes(t) == Listed(t, Places(t))

Copy(other) == SetEach(CopyTo(other), Nodes(other))

CopyNoBuckets(other) ==
    /\ CopyResizes(other)
    /\ ResizeFails(m)
    /\ IterKept

\* The number of nodes is not compared.
Same_Bug(other) == \A k \in HeldKeys(m) : Lookup(other, k) = Lookup(m, k)

\* What the iteration over m and the lookups in the other map come to.
Same(other) ==
    /\ m.nnodes = other.nnodes
    /\ \A k \in HeldKeys(m) : Lookup(other, k) = Lookup(m, k)

Equal(other) ==
    /\ result' = Same(other)
    /\ UNCHANGED <<m, intact, iter>>

-----------------------------------------------------------------------------
(* map_get_, map_remove_ and map_delete.                                   *)

Get(k) ==
    /\ result' = Lookup(m, k)
    /\ UNCHANGED <<m, intact, iter>>

Remove(k) ==
    /\ m' = IF Held(m, k)
            THEN [m EXCEPT !.chain[BucketIdx(k, m.nbuckets)] = Unlinked(@, Ref(m, k)),
                           !.nnodes = @ - 1]
            ELSE m
    /\ IterKept
    /\ result' = None
    /\ UNCHANGED intact

Delete ==
    /\ m' = Empty
    /\ iter' = None /\ result' = None
    /\ UNCHANGED intact

-----------------------------------------------------------------------------
(* map_iter_, map_next_.                                                   *)

Iter ==
    /\ iter' = [bucketidx |-> -1, node |-> 0]
    /\ result' = None
    /\ UNCHANGED <<m, intact>>

\* The list ends with this node, or there is no node yet.
AtListEnd == iter.node # 0 => iter.node = Len(m.chain[iter.bucketidx])

\* The search for a bucket starts with the one just left.
LaterBuckets_Bug ==
    {b \in iter.bucketidx .. m.nbuckets - 1 : b >= 0 /\ m.chain[b] # <<>>}

LaterBuckets == {b \in iter.bucketidx + 1 .. m.nbuckets - 1 : m.chain[b] # <<>>}

NextKey ==
    /\ iter # None
    /\ IF AtListEnd
       THEN \E b \in LaterBuckets :
                /\ \A c \in LaterBuckets : b <= c
                /\ iter' = [bucketidx |-> b, node |-> 1]
       ELSE iter' = [iter EXCEPT !.node = @ + 1]
    /\ result' = m.chain[iter'.bucketidx][iter'.node].key
    /\ UNCHANGED <<m, intact>>

IterEnd ==
    /\ iter # None
    /\ AtListEnd /\ LaterBuckets = {}
    /\ iter' = None
    /\ result' = None
    /\ UNCHANGED <<m, intact>>

-----------------------------------------------------------------------------
(* Second maps and pairs.                                                  *)

Entries == [key : Keys, value : Values]

\* The powers of two: 1 alone divides them and is odd.
Sizes == {n \in 1 .. MaxBuckets : \A d \in 1 .. n : n % d = 0 => d = 1 \/ d % 2 = 0}

Lists(n) == UNION {[1 .. l -> {e \in Entries : e.key \in OtherKeys}] : l \in 0 .. n}

\* The tables of a second map: nodes with different keys, in any order, laid out in n
\* buckets.
Others ==
    LET Distinct(nodes) == \A i, j \in DOMAIN nodes : nodes[i].key = nodes[j].key => i = j
        OneList(nodes)  == [nbuckets |-> 1, nnodes |-> Len(nodes), chain |-> [b \in {0} |-> nodes]]
    IN  {Empty}
            \cup {Resized(OneList(nodes), n) :
                    nodes \in {l \in Lists(Cardinality(OtherKeys)) : Distinct(l)}, n \in Sizes}

Next ==
    /\ intact
    /\ \/ \E k \in Keys :
              \/ \E v \in Values : Set(k, v)
              \/ SetNoNode(k) \/ SetNoBuckets(k) \/ Get(k) \/ Remove(k)
       \/ \E pairs \in Lists(MaxPairs) : FromPairs(pairs)
       \/ \E other \in Others : Copy(other) \/ CopyNoBuckets(other) \/ Equal(other)
       \/ Delete
       \/ Iter \/ NextKey \/ IterEnd

Spec == Init /\ [][Next]_vars

-----------------------------------------------------------------------------
(* Properties.                                                             *)

\* "If the implementation is changed to allow a non-power-of-2 bucket count" the
\* mask of map_bucketidx no longer reaches every bucket (cmap.c:57).
TypeOK ==
    /\ m.nbuckets \in Sizes \cup {0} /\ m.nnodes \in Nat
    /\ m.chain \in [0 .. m.nbuckets - 1 -> Seq(Entries)]
    /\ intact \in BOOLEAN
    /\ iter \in [bucketidx : -1 .. m.nbuckets - 1, node : Nat] \cup {None}
    /\ result \in Keys \cup Values \cup {None} \cup BOOLEAN

\* Every node is in the list its hash leads to, also after a resize up or down, by
\* map_set or by map_copy, no key has two nodes, and nnodes is their number.
WellPlaced ==
    intact =>
        /\ \A b \in DOMAIN m.chain : \A i \in DOMAIN m.chain[b] :
               /\ BucketIdx(m.chain[b][i].key, m.nbuckets) = b
               /\ \A j \in DOMAIN m.chain[b] :
                      m.chain[b][i].key = m.chain[b][j].key => i = j
        /\ m.nnodes = Cardinality(HeldKeys(m))

\* The keys an iteration has yet to return.
Ahead ==
    {k \in HeldKeys(m) :
        LET b == BucketIdx(k, m.nbuckets) IN
        b > iter.bucketidx \/ (b = iter.bucketidx /\ Ref(m, k) > iter.node)}

Map == INSTANCE AbstractMap WITH
    map <- [k \in HeldKeys(m) |-> Lookup(m, k)],
    todo <- IF iter = None THEN None ELSE Ahead

\* The table is a partial function: resizing, collisions and removals do not show,
\* and an iteration returns each key once.
ImplementsMap == Map!Spec

\* Whatever is already there, map_from_pairs leaves each key with the value of its
\* last pair, and map_copy with the value it has in the other map; other keys keep
\* theirs.
MergesOther ==
    intact =>
        /\ \A pairs \in Lists(MaxPairs), k \in Keys :
               LET places == {i \in DOMAIN pairs : pairs[i].key = k}
                   merged == AfterEach(m, pairs)[Len(pairs)]
               IN  IF places = {} THEN Lookup(merged, k) = Lookup(m, k)
                   ELSE \E i \in places : /\ \A j \in places : j <= i
                                          /\ Lookup(merged, k) = pairs[i].value
        /\ \A other \in Others, k \in Keys :
               LET merged == AfterEach(CopyTo(other), Nodes(other))[Len(Nodes(other))]
               IN  Lookup(merged, k) = Lookup(IF Held(other, k) THEN other ELSE m, k)

\* map_equal, which looks only for the keys of its first map, compares functions.
EqualExact ==
    intact =>
        \A other \in Others :
            Same(other) <=> \A k \in Keys : Lookup(m, k) = Lookup(other, k)

\* map_resize has an "error code if realloc() failed" (cmap.c:103), which map_set_
\* passes on: a caller that is told so still has the map it had.
RefusedSetKeepsMap ==
    [][\A k \in Keys : SetNoNode(k) \/ SetNoBuckets(k)
         => \A j \in Keys : Lookup(m, j)' = Lookup(m, j)]_vars
=============================================================================
