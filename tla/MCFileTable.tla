---------------------------- MODULE MCFileTable -----------------------------
(***************************************************************************)
(* FileTable for TLC.  The files and the processes other than init are     *)
(* interchangeable: the order in which filealloc() looks at free slots     *)
(* makes no difference.                                                    *)
(***************************************************************************)
EXTENDS FileTable, TLC

MCSymmetry == Permutations(File) \cup Permutations(Proc \ {init})
=============================================================================
