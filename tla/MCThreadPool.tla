---------------------------- MODULE MCThreadPool ----------------------------
(***************************************************************************)
(* Small instances of ThreadPool for TLC.  The configurations differ in    *)
(* the number of threads, the calls the program makes, the kind of         *)
(* condition variable and the library calls that may fail.                 *)
(***************************************************************************)
EXTENDS ThreadPool

\* The calls of a program that uses the whole interface.
AllOps == {"addtask", "waitalltask", "waitallthrd", "cleanup"}

\* The calls of client_thread.c, the only program here that uses the pool.
ClientOps == {"addtask", "waitallthrd", "cleanup"}

NoFailure == {}
MallocFails == {"malloc"}
CreateFailure == {"create"}
=============================================================================
