------------------------------ MODULE TaskPool ------------------------------
(***************************************************************************)
(* What the thread pool promises to the program that uses it, without its  *)
(* locks, flags and wakeups.                                               *)
(*                                                                         *)
(* A task that addtask accepts waits in `pending` until one of at most     *)
(* MaxRunning threads starts it, in the order of acceptance, and is in     *)
(* `finished` once its function has returned: each task runs exactly once. *)
(* Closing the pool (threadpool_waitallthrd) completes only when nothing   *)
(* is pending and nothing runs.  A task accepted by a closed pool is never *)
(* started; freeing the pool drops it.                                     *)
(***************************************************************************)
EXTENDS Naturals, Sequences, FiniteSets

CONSTANTS MaxTasks,    (* bound: tasks accepted over the life of the pool  *)
          MaxRunning   (* threads of the pool                              *)

VARIABLES phase,       (* "new", "open", "closing", "closed", "gone"       *)
          pending,     (* accepted tasks not started, oldest first         *)
          running,     (* tasks whose function is executing                *)
          finished,    (* tasks whose function has returned                *)
          accepted     (* number of tasks accepted; task k is the k-th     *)

absVars == <<phase, pending, running, finished, accepted>>

Init ==
    /\ phase = "new"
    /\ pending = <<>>
    /\ running = {}
    /\ finished = {}
    /\ accepted = 0

Open ==
    /\ phase = "new"
    /\ phase' = "open"
    /\ UNCHANGED <<pending, running, finished, accepted>>

Submit ==
    /\ phase \in {"open", "closed"}
    /\ accepted < MaxTasks
    /\ accepted' = accepted + 1
    /\ pending' = Append(pending, accepted')
    /\ UNCHANGED <<phase, running, finished>>

Start ==
    /\ phase \in {"open", "closing"}
    /\ pending # <<>>
    /\ Cardinality(running) < MaxRunning
    /\ running' = running \cup {Head(pending)}
    /\ pending' = Tail(pending)
    /\ UNCHANGED <<phase, finished, accepted>>

Finish ==
    /\ \E t \in running :
          /\ running' = running \ {t}
          /\ finished' = finished \cup {t}
    /\ UNCHANGED <<phase, pending, accepted>>

BeginClose ==
    /\ phase = "open"
    /\ phase' = "closing"
    /\ UNCHANGED <<pending, running, finished, accepted>>

EndClose ==
    /\ phase = "closing"
    /\ pending = <<>>
    /\ running = {}
    /\ phase' = "closed"
    /\ UNCHANGED <<pending, running, finished, accepted>>

Free ==
    /\ phase = "closed"
    /\ phase' = "gone"
    /\ pending' = <<>>
    /\ UNCHANGED <<running, finished, accepted>>

Next == Open \/ Submit \/ Start \/ Finish \/ BeginClose \/ EndClose \/ Free

\* The promise without progress: what the pool may never do.
SafetySpec == Init /\ [][Next]_absVars

\* The promise: also, tasks are started and finished and a close completes.
Spec ==
    /\ SafetySpec
    /\ WF_absVars(Start)
    /\ WF_absVars(Finish)
    /\ WF_absVars(EndClose)
=============================================================================
