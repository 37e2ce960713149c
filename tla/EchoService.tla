---------------------------- MODULE EchoService ----------------------------
(***************************************************************************)
(* What a connection to a reflect server is for: the client sends Total    *)
(* bytes, gets them back, and succeeds when it has them all.  A byte comes *)
(* back at most once and only after it was sent.  A client that no fault   *)
(* has hit succeeds.  One that a fault has hit may fail, and comes to an   *)
(* end all the same, unless the fault has made the service abandon it: an  *)
(* abandoned client gets nothing more and is not told.                     *)
(***************************************************************************)
EXTENDS Integers

CONSTANT Total

VARIABLES sent, received, outcome, faulted

vars == <<sent, received, outcome, faulted>>

Init == sent = 0 /\ received = 0 /\ outcome = "running" /\ faulted = FALSE

Going == outcome \in {"running", "abandoned"}

Send ==
    /\ Going
    /\ sent' \in sent + 1 .. Total
    /\ UNCHANGED <<received, outcome, faulted>>

Receive ==
    /\ outcome = "running"
    /\ received' \in received + 1 .. sent
    /\ outcome' = IF received' = Total THEN "success" ELSE "running"
    /\ UNCHANGED <<sent, faulted>>

\* The fault itself may be the end of the client, or of the service for it.
Fault ==
    /\ faulted' = TRUE
    /\ outcome' \in {outcome} \cup (IF Going THEN {"failure", "abandoned"} ELSE {})
    /\ UNCHANGED <<sent, received>>

Fail ==
    /\ faulted
    /\ Going
    /\ outcome' = "failure"
    /\ UNCHANGED <<sent, received, faulted>>

Next == Send \/ Receive \/ Fault \/ Fail

SafetySpec == Init /\ [][Next]_vars

Spec == SafetySpec /\ WF_vars(outcome = "running" /\ (Send \/ Receive \/ Fail))
=============================================================================
