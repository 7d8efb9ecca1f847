------------------------------- MODULE MCPipe -------------------------------
(***************************************************************************)
(* Pipe for TLC.  The processes that fork() creates are interchangeable.   *)
(***************************************************************************)
EXTENDS Pipe, TLC

Children == Permutations(Proc \ {first})
=============================================================================
