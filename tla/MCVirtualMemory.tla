-------------------------- MODULE MCVirtualMemory ---------------------------
(***************************************************************************)
(* VirtualMemory for TLC: a program of two segments, the second below the  *)
(* first, and three that exec() must refuse: not page-aligned, longer in   *)
(* the file than in memory, and with an end that wraps.                    *)
(***************************************************************************)
EXTENDS VirtualMemory

Segment(vaddr, memsz, filesz) ==
  [vaddr |-> vaddr, memsz |-> memsz, filesz |-> filesz]

MCPrograms == {<<Segment(2, 1, 1), Segment(0, 1, 1)>>,
               <<Segment(1, 1, 1)>>,
               <<Segment(0, 1, 5)>>,
               <<Segment(22, 4, 1)>>}
MCIncrements == {3, -2}
=============================================================================
