-------------------------------- MODULE MCVfs --------------------------------
(***************************************************************************)
(* Instances of the VFS for TLC.                                           *)
(***************************************************************************)
EXTENDS Vfs, TLC

\* Paths of up to two segments over a directory name and a file name.
ShortPaths == {<<>>, <<"d">>, <<"f">>, <<"d", "d">>, <<"d", "f">>}

\* Node and mount objects are interchangeable, the root apart.
Symmetry == Permutations(Nodes \ {Root}) \cup Permutations(Mounts)
==============================================================================
