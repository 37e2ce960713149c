------------------------------ MODULE MCHashMap ------------------------------
(***************************************************************************)
(* Small instances of HashMap for TLC.  A value is only copied, and        *)
(* compared where both maps are at hand.                                   *)
(***************************************************************************)
EXTENDS HashMap, TLC

CONSTANTS k1, k2, k3, v1, v2

ValuesAlike == Permutations({v1, v2})

\* With one bucket all keys collide, with more k1 and k3 still do, and k2 moves when
\* two become four.
Hashes == k1 :> 1 @@ k2 :> 2 @@ k3 :> 5

\* With two buckets k1 and k3 collide, with four no longer.
HashesApart == k1 :> 0 @@ k2 :> 1 @@ k3 :> 2
=============================================================================
