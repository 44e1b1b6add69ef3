------------------------------ MODULE MCThread ------------------------------
(* Thread for TLC: thread 0, the shell and up to two more threads; an exit    *)
(* code above 255; a fatal signal, one ignored by default, and the probe 0.   *)
EXTENDS Thread
=============================================================================
