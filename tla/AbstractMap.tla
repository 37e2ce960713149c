----------------------------- MODULE AbstractMap -----------------------------
(***************************************************************************)
(* What cmap.h promises: a partial function from keys to values.  `todo`   *)
(* is the set of keys that an iteration has yet to return, None when none  *)
(* is under way; a change of the set of keys ends it.  `result` is what    *)
(* the last call returned.  A call that is refused changes no value, but   *)
(* one that sets several keys may have set some of them.                   *)
(***************************************************************************)
EXTENDS Integers

CONSTANTS Keys, Values, None,
          OtherKeys   (* keys of a second map, or of pairs                  *)

VARIABLES map, todo, result

mapVars == <<map, todo, result>>

Init == map = [k \in {} |-> None] /\ todo = None /\ result = None

Set(k, v) ==
    /\ map' = [j \in DOMAIN map \cup {k} |-> IF j = k THEN v ELSE map[j]]
    /\ todo' = IF k \in DOMAIN map THEN todo ELSE None
    /\ result' = TRUE

Refuse ==
    /\ result' = FALSE
    /\ todo' \in {todo, None}
    /\ UNCHANGED map

Get(k) ==
    /\ result' = IF k \in DOMAIN map THEN map[k] ELSE None
    /\ UNCHANGED <<map, todo>>

Remove(k) ==
    /\ map' = [j \in DOMAIN map \ {k} |-> map[j]]
    /\ todo' = IF k \in DOMAIN map THEN None ELSE todo
    /\ result' = None

Delete == map' = [k \in {} |-> None] /\ todo' = None /\ result' = None

\* map_copy and map_from_pairs: some keys are set.
Merge(entries) ==
    /\ map' = [k \in DOMAIN map \cup DOMAIN entries |->
                  IF k \in DOMAIN entries THEN entries[k] ELSE map[k]]
    /\ todo' \in {todo, None}
    /\ result' \in BOOLEAN

Equal == result' \in BOOLEAN /\ UNCHANGED <<map, todo>>

Iter == todo' = DOMAIN map /\ result' = None /\ UNCHANGED map

NextKey ==
    /\ todo # None
    /\ \E k \in todo : result' = k /\ todo' = todo \ {k}
    /\ UNCHANGED map

IterEnd == todo = {} /\ todo' = None /\ result' = None /\ UNCHANGED map

Next ==
    \/ \E k \in Keys : (\E v \in Values : Set(k, v)) \/ Get(k) \/ Remove(k)
    \/ Refuse \/ Delete \/ Iter \/ NextKey \/ IterEnd
    \/ Equal \/ \E S \in SUBSET OtherKeys : \E entries \in [S -> Values] : Merge(entries)

Spec == Init /\ [][Next]_mapVars
=============================================================================
