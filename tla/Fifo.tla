-------------------------------- MODULE Fifo --------------------------------
(***************************************************************************)
(* What a pipe promises: a bounded queue of bytes.  Bytes come out in the  *)
(* order in which they went in, each once, and none is made up.            *)
(***************************************************************************)
EXTENDS Naturals, Sequences

CONSTANTS Byte, Capacity

VARIABLE queue

Init == queue = <<>>

Put(s) ==
  /\ Len(queue) + Len(s) <= Capacity
  /\ queue' = queue \o s

Get(k) ==
  /\ k <= Len(queue)
  /\ queue' = SubSeq(queue, k + 1, Len(queue))

Next ==
  \/ \E n \in 1..Capacity : \E s \in [1..n -> Byte] : Put(s)
  \/ \E k \in 1..Capacity : Get(k)

Spec == Init /\ [][Next]_queue
=============================================================================
