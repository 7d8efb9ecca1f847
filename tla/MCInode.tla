------------------------------ MODULE MCInode -------------------------------
(***************************************************************************)
(* Inode for TLC: the paths of the runs, and interchangeable processes.    *)
(***************************************************************************)
EXTENDS Inode, TLC

OnePath == {<<"a">>}

NoPaths == {}

\* link("/a/a", "/a"), which needs /a to go away in between, and
\* link("/a", "/"), whose second path has no last element.
Links == {<< <<"a", "a">>, <<"a">> >>, << <<"a">>, <<>> >>}

MCSymmetry == Permutations(Proc)
=============================================================================
