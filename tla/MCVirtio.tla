------------------------------ MODULE MCVirtio ------------------------------
(***************************************************************************)
(* A machine with a network card and one with a disk.  The indices wrap after     *)
(* four entries and the rings have two slots; sends outnumber both.                *)
(***************************************************************************)
EXTENDS Virtio

const_Machines == {{"net"}, {"blk"}}
=============================================================================
