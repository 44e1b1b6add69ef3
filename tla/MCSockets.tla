----------------------------- MODULE MCSockets -----------------------------
(***************************************************************************)
(* Two processes that may share one socket and make another; ports go round  *)
(* after two, so that the third socket gets the first one's port.            *)
(***************************************************************************)
EXTENDS Sockets

MCProcs == {"p", "q"}
MCKinds == {"Udp", "Tcp"}
MCBindPorts == {9}
=============================================================================
