----------------------------- MODULE MCEventLoop -----------------------------
(***************************************************************************)
(* Small instances of EventLoop for TLC.                                   *)
(***************************************************************************)
EXTENDS EventLoop, TLC

AllLoops == {"poll", "select", "epoll", "kqueue", "devpoll", "WSAEvent"}

\* The loops whose listener is reported as long as a client waits.
LevelLoops == AllLoops \ {"kqueue"}

Select == {"select"}

\* Clients are alike.
Permuted == Permutations(Clients)
=============================================================================
