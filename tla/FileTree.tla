------------------------------ MODULE FileTree ------------------------------
(***************************************************************************)
(* What the file system promises its callers (src/src/fs/mod.rs): a tree of  *)
(* files and directories in which every operation takes effect at once or    *)
(* not at all.  Nothing here fails or loses power: an implementation that    *)
(* meets those must show them as an operation that took effect or as none.   *)
(***************************************************************************)
EXTENDS Integers, Sequences

CONSTANTS
    Paths,      \* the paths in use, each a non-empty sequence of names
    Contents    \* what a file may hold, each a sequence of chunks

VARIABLE tree   \* [Paths -> node]

Nothing == [kind |-> "none", data |-> <<>>]
Directory == [kind |-> "dir", data |-> <<>>]
File(data) == [kind |-> "file", data |-> data]

Parent(p) == SubSeq(p, 1, Len(p) - 1)
Name(p)   == p[Len(p)]

\* The parent of a path is the root or a directory.
ParentExists(t, p) == Len(p) > 1 => t[Parent(p)] = Directory

\* The paths that go on from p.
Below(p) == {q \in Paths : Len(p) < Len(q) /\ SubSeq(q, 1, Len(p)) = p}

TreeInit == tree = [p \in Paths |-> Nothing]

\* A write makes p a file, whatever was there, a directory and all below it included.
WithFile(t, p, data) == [q \in Paths |-> IF q = p THEN File(data)
                                         ELSE IF q \in Below(p) THEN Nothing ELSE t[q]]

PutFile(p, data) == ParentExists(tree, p) /\ tree' = WithFile(tree, p, data)

MakeDirectory(p) ==
    /\ ParentExists(tree, p)
    /\ tree[p] = Nothing
    /\ tree' = [tree EXCEPT ![p] = Directory]

RemoveFile(p) ==
    /\ tree[p].kind = "file"
    /\ tree' = [tree EXCEPT ![p] = Nothing]

RemoveDirectory(p) ==
    /\ tree[p] = Directory
    /\ \A q \in Below(p) : tree[q] = Nothing
    /\ tree' = [tree EXCEPT ![p] = Nothing]

TreeNext == \E p \in Paths : \/ \E data \in Contents : PutFile(p, data)
                             \/ MakeDirectory(p)
                             \/ RemoveFile(p)
                             \/ RemoveDirectory(p)

TreeSpec == TreeInit /\ [][TreeNext]_tree
=============================================================================
