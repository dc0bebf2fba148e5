-------------------------- MODULE MCDirectoryWatcher --------------------------
(* Small instances of DirectoryWatcher for TLC. *)
EXTENDS DirectoryWatcher, TLC

CONSTANTS p1, p2, p3, c1, c2

MCPath == {p1, p2}
MCMatching == {p1, p2}
MCDeletable == {p1}
MCContent == {c1, c2}
MCSize == c1 :> 0 @@ c2 :> 1
=============================================================================
