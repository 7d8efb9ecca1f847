------------------------------- MODULE MCLog --------------------------------
(***************************************************************************)
(* Log for TLC.  Processes and blocks are interchangeable.                 *)
(***************************************************************************)
EXTENDS Log, TLC

MCSymmetry == Permutations(Thread) \cup Permutations(Block)
=============================================================================
