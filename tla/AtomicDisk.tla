----------------------------- MODULE AtomicDisk -----------------------------
(***************************************************************************)
(* What the log of log.c promises to the file system: the writes of an     *)
(* operation reach the disk all together, or not at all if the machine     *)
(* crashes, and they never reach it while an operation is in progress.     *)
(***************************************************************************)
EXTENDS Naturals

CONSTANTS
  Block,   \* blocks of the file system
  Val      \* contents of a block

VARIABLES
  mem,      \* what a reader of the block sees now
  durable,  \* what a reader would see after a crash
  open      \* number of operations in progress

advars == <<mem, durable, open>>

Init ==
  /\ mem \in [Block -> Val]
  /\ durable = mem
  /\ open = 0

Begin ==
  /\ open' = open + 1
  /\ UNCHANGED <<mem, durable>>

Write(b, v) ==
  /\ open > 0
  /\ mem' = [mem EXCEPT ![b] = v]
  /\ UNCHANGED <<durable, open>>

End ==
  /\ open > 0
  /\ open' = open - 1
  /\ UNCHANGED <<mem, durable>>

Commit ==
  /\ open = 0
  /\ durable' = mem
  /\ UNCHANGED <<mem, open>>

Crash ==
  /\ mem' = durable
  /\ open' = 0
  /\ UNCHANGED durable

Next ==
  \/ Begin
  \/ \E b \in Block, v \in Val : Write(b, v)
  \/ End
  \/ Commit
  \/ Crash

Spec == Init /\ [][Next]_advars
=============================================================================
