------------------------------ MODULE MCFileData ------------------------------
(* The root, a file of three bytes that two processes share through one open   *)
(* file, and an empty one.                                                     *)
EXTENDS FileData, TLC

MCSources == <<3, 0, 0>>
MCFile == {"a", "b"}
MCIpOf == [a |-> 2, b |-> 3]
Symmetry == Permutations(Proc)
================================================================================
