-------------------------------- MODULE MCUdp --------------------------------
(***************************************************************************)
(* Small instances of Udp for TLC: clients are alike.                      *)
(***************************************************************************)
EXTENDS Udp

=============================================================================
