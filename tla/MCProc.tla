------------------------------- MODULE MCProc -------------------------------
(***************************************************************************)
(* Proc for TLC.  The processors are interchangeable in the safety runs.   *)
(***************************************************************************)
EXTENDS Proc, TLC

CPUSymmetry == Permutations(CPU)
=============================================================================
