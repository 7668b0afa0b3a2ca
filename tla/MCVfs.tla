------------------------------- MODULE MCVfs -------------------------------
(* Paths and symmetry for checking Vfs.                                      *)
EXTENDS Vfs, TLC

(* Files of /tmp with names that fit and one that does not, a doubled slash, *)
(* the mount point itself, a name glued to it, other file systems and a      *)
(* relative path.                                                            *)
MCPaths == {<<"/", "t", "/", "x">>, <<"/", "t", "/", "/", "x">>, <<"/", "t", "x">>,
            <<"/", "t", "/", "x", "y">>, <<"/", "t">>, <<"/", "x">>, <<"/", "e", "/", "x">>, <<"x">>}

MCSymmetry == Permutations(Data)

============================================================================
