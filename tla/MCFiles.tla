------------------------------ MODULE MCFiles ------------------------------
(***************************************************************************)
(* Two processes, a file or directory d and a path d/f below it, reached by    *)
(* absolute and by relative paths.                                             *)
(***************************************************************************)
EXTENDS Files, TLC

const_Paths     == {<<"d">>, <<"d", "f">>}
const_Contents  == {}
const_Image == {(<<"d">> :> Directory) @@ (<<"d", "f">> :> n) : n \in {Nothing, File(<<0>>)}}
const_Offsets   == -1 .. 1
const_Buffers   == {<<1, 1>>, <<0, 1>>, <<1, -1>>}
const_UserPaths == {[absolute |-> TRUE, parts |-> <<"f", "..", "d">>],
                    [absolute |-> TRUE, parts |-> <<"d", ".", "", "f">>],
                    [absolute |-> FALSE, parts |-> <<"f">>]}
=============================================================================
