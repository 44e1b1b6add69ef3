------------------------------ MODULE MCPipes ------------------------------
(* Pipes for TLC: thread 0, the shell and one child; few descriptors, so that *)
(* tables fill up.                                                            *)
EXTENDS Pipes
=============================================================================
