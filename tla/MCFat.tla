------------------------------- MODULE MCFat -------------------------------
(***************************************************************************)
(* The FAT driver on a small volume: one directory level below the root.     *)
(***************************************************************************)
EXTENDS Fat

MCPaths == {<<"A">>, <<"B">>, <<"A", "B">>}
MCContents == {<<"x">>, <<"y", "x">>}
=============================================================================
