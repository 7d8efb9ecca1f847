--------------------------- MODULE MCBufferCache ----------------------------
(***************************************************************************)
(* BufferCache for TLC.  Processes and buffers are interchangeable, and so *)
(* are the blocks that cannot fail.                                        *)
(***************************************************************************)
EXTENDS BufferCache, TLC

MCSymmetry == Permutations(Proc) \cup Permutations(Buf) \cup Permutations(Block \ BadBlocks)
=============================================================================
