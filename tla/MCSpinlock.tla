----------------------------- MODULE MCSpinlock -----------------------------
(* Two CPUs and two ordered locks, with interrupts on both CPUs.           *)
EXTENDS Spinlock, TLC

CONSTANTS tickslock, ptablelock

MCRank == (tickslock :> 1) @@ (ptablelock :> 2)
=============================================================================
