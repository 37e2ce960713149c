------------------------------ MODULE MCDeque ------------------------------
(***************************************************************************)
(* A small instance of Deque for TLC: buffers of 2, 4 and 8 slots, so that *)
(* a wrapped buffer grows twice and a shrink may halve it twice.           *)
(***************************************************************************)
EXTENDS Deque
=============================================================================
