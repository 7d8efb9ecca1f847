---- MODULE KernelThread ----
(***************************************************************************)
(* The kernel threads of the processes in a system call of pipe.c (Pipe)   *)
(* or of fs.c and sysfile.c (Inode): pc[p] is the place in the code where  *)
(* the thread of process p is.                                             *)
(***************************************************************************)
CONSTANT Proc

VARIABLE pc

Goto(p, there) == pc' = [pc EXCEPT ![p] = there]
====
