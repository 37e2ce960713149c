------------------------------ MODULE MCReflect ------------------------------
(***************************************************************************)
(* Small instances of Reflect for TLC: more data than a pipe or the        *)
(* server's buffer holds, so that both fill up.                            *)
(***************************************************************************)
EXTENDS Reflect

AllMechanisms == {"poll", "select", "epoll", "kqueue", "devpoll", "WSAEvent",
                  "accept"}
=============================================================================
