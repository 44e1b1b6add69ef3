----------------------------- MODULE MCRegistry -----------------------------
(***************************************************************************)
(* The registry on small instances.                                          *)
(***************************************************************************)
EXTENDS Registry
=============================================================================
