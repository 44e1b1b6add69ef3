------------------------------ MODULE MCInput ------------------------------
(***************************************************************************)
(* Keyboard input on small instances.                                        *)
(***************************************************************************)
EXTENDS Input
=============================================================================
