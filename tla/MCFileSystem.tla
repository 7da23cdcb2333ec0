---------------------------- MODULE MCFileSystem ----------------------------
(***************************************************************************)
(* Small instances of FileSystem, for TLC.                                *)
(***************************************************************************)
EXTENDS FileSystemRefines, TLC

\* Create takes a negative size for an empty file.
MetaSizes == {-1, 3}

Symmetric ==
  Permutations(Name) \cup Permutations(Handle) \cup Permutations(Program)
=============================================================================
