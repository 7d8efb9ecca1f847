------------------------------ MODULE OpenFile ------------------------------
(***************************************************************************)
(* The entries of ftable.file, which FileTable shares out and through      *)
(* which FileData reads and writes, and the processes that use them.       *)
(***************************************************************************)
CONSTANTS
  Proc, NoProc,   \* process slots, and no process
  File            \* ftable.file
=============================================================================
