------------------------------- MODULE FlatFile -------------------------------
(* What fs.c and file.c promise about file contents: a file is one flat       *)
(* sequence of bytes, an open file has one offset, shared by the processes     *)
(* that inherited it, and one chunk of filewrite or one fileread moves data    *)
(* and offset together.                                                        *)
EXTENDS Naturals, Sequences, FiniteSetsExt

CONSTANTS
    Inum,       \* the files
    File,       \* the entries of the file table
    IpOf,       \* the file an entry is open on
    Chunks,     \* the pieces of data a write may consist of
    Lengths,    \* the lengths a read may ask for
    Image       \* the contents of the files on the fresh disk

VARIABLES file, off

Overwrite(s, o, d) ==
    [k \in 1..Max({Len(s), o + Len(d)}) |-> IF k \in o + 1 .. o + Len(d) THEN d[k - o] ELSE s[k]]

Init == file = Image /\ off = [f \in File |-> 0]

Write(f, d) ==
    /\ off' = [off EXCEPT ![f] = @ + Len(d)]
    /\ off[f] <= Len(file[IpOf[f]])
    /\ file' = [file EXCEPT ![IpOf[f]] = Overwrite(@, off[f], d)]

Read(f, n) ==
    /\ off' = [off EXCEPT ![f] = Max({@, Min({@ + n, Len(file[IpOf[f]])})})]
    /\ UNCHANGED file

Remove(i) ==
    /\ off' = [f \in File |-> IF IpOf[f] = i THEN 0 ELSE off[f]]
    /\ file' = [file EXCEPT ![i] = <<>>]

Next ==
    \/ \E f \in File : (\E d \in Chunks : Write(f, d)) \/ (\E n \in Lengths : Read(f, n))
    \/ \E i \in Inum : Remove(i)

Spec == Init /\ [][Next]_<<file, off>>
================================================================================
