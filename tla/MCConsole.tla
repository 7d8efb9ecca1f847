------------------------------ MODULE MCConsole -----------------------------
(***************************************************************************)
(* Console for TLC.  The one argument of sleep() is -1, which the unsigned *)
(* comparison of sys_sleep() takes for the longest sleep: it ends just     *)
(* before the counter of ticks comes round.  Processes are                 *)
(* interchangeable.                                                        *)
(***************************************************************************)
EXTENDS Console, TLC

MCSleeps == {-1}

MCSymmetry == Permutations(Proc)
=============================================================================
