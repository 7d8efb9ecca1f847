---------------------------- MODULE Files_proofs ----------------------------
(***************************************************************************)
(* Proofs about the open files of file.c.  FileTable, who shares them: for *)
(* any number of processes, files, descriptors and pipes.  FileData, what  *)
(* is read and written through them: for any number of processes and files *)
(* and every layout of the disk that LayoutAssumption allows.              *)
(***************************************************************************)
EXTENDS FileTable, FileData, Integers, FiniteSetTheorems, SequenceTheorems, WellFoundedInduction, TLAPS

\* Where f0 is the only reference to a file that is not a descriptor yet.
LocalPC == {"open_fd", "pipe", "pipe_kalloc", "pipe_fd"}
OpenPC == {"open", "open_fd", "open_set", "open_bad"}
PipeEnd == {"READ", "WRITE"}

\* The references that Owners counts, and the ones it owes.
Descs(f) == {d \in Proc \X FD : ofile[d[1]][d[2]] = f}
Locals(f) == {p \in Proc : pc[p] \in LocalPC /\ f0[p] = f}
Seconds(f) == {p \in Proc : f1[p] = f}
Closings(f) ==
  {c \in Proc \X {1, 2} : c[2] <= Len(closing[c[1]]) /\ closing[c[1]][c[2]] = f}
Dups(f) == {p \in Proc : pc[p] = "dup" /\ f0[p] = f}

Exact(f) ==
  ref[f] + Cardinality(Dups(f)) =
    ((Cardinality(Descs(f)) + Cardinality(Locals(f))) + Cardinality(Seconds(f)))
    + Cardinality(Closings(f))

Inodes == {f \in File : type[f] = "INODE"}
Opens == {p \in Proc : pc[p] \in OpenPC}
Iputs == {p \in Proc : ff[p].type = "INODE"}

\* What the local variables of a system call hold.
PlaceInv ==
  /\ \A p \in Proc : f0[p] # NoFile <=> pc[p] \in LocalPC \cup {"open_set", "dup"}
  /\ \A p \in Proc : f1[p] # NoFile <=> pc[p] \in {"pipe_kalloc", "pipe_fd"}
  /\ \A p \in Proc : Len(closing[p]) <= 2
       /\ (Len(closing[p]) = 2 => closing[p][1] # closing[p][2])
  /\ \A p \in Proc : pc[p] = "dup" =>
       \E d, e \in FD : d # e /\ ofile[p][d] = f0[p] /\ ofile[p][e] = f0[p]
  /\ \A p \in Proc : pc[p] = "fork" => child[p] \in Proc /\ pc[child[p]] = "embryo"
  /\ \A p, q \in Proc : (pc[p] = "fork" /\ pc[q] = "fork" /\ child[p] = child[q]) => p = q

CountInv ==
  /\ \A f \in File : Exact(f)
  /\ iref = (Cardinality(Inodes) + Cardinality(Opens)) + Cardinality(Iputs)
  /\ ~panicked

\* A file that is being set up belongs to one process; all others are set up.
SetupInv ==
  /\ \A f \in File : ref[f] = 0 => type[f] = "NONE"
  /\ \A p \in Proc : pc[p] \in LocalPC \cup {"open_set"} => ref[f0[p]] = 1
  /\ \A p \in Proc : pc[p] \in {"pipe_kalloc", "pipe_fd"} => ref[f1[p]] = 1
  /\ \A p \in Proc : pc[p] \in {"open_fd", "open_set", "pipe", "pipe_kalloc"}
       => type[f0[p]] = "NONE"
  /\ \A p \in Proc : pc[p] = "pipe_kalloc" => type[f1[p]] = "NONE"
  /\ \A p \in Proc : pc[p] = "pipe_fd" => type[f0[p]] # "NONE" /\ type[f1[p]] # "NONE"
  /\ \A p \in Proc : pc[p] = "open_set" => \E d \in FD : ofile[p][d] = f0[p]
  /\ \A p, q \in Proc, d \in FD : (pc[p] = "open_set" /\ ofile[q][d] = f0[p]) => q = p
  /\ \A p \in Proc, d \in FD : (ofile[p][d] # NoFile /\ type[ofile[p][d]] = "NONE")
       => pc[p] = "open_set" /\ f0[p] = ofile[p][d]

End(t) == IF t = "WRITE" THEN "w" ELSE "r"

\* An open end of a pipe belongs to one file, or to the fileclose() that is
\* about to close it.
EndInv ==
  /\ \A p \in Proc : ff[p].type = "NONE" => ff[p] = None
  /\ \A f \in File : type[f] \in PipeEnd =>
       pipe[f] \in Pipe /\ End(type[f]) \in pipeopen[pipe[f]]
  /\ \A p \in Proc : ff[p].type \in PipeEnd =>
       ff[p].pipe \in Pipe /\ End(ff[p].type) \in pipeopen[ff[p].pipe]
  /\ \A f, g \in File :
       (type[f] \in PipeEnd /\ type[g] = type[f] /\ pipe[g] = pipe[f]) => f = g
  /\ \A f \in File, p \in Proc :
       ~(type[f] \in PipeEnd /\ ff[p].type = type[f] /\ ff[p].pipe = pipe[f])
  /\ \A p, q \in Proc :
       (ff[p].type \in PipeEnd /\ ff[q].type = ff[p].type /\ ff[q].pipe = ff[p].pipe)
         => p = q
  /\ \A x \in Pipe, t \in PipeEnd : End(t) \in pipeopen[x] =>
       \/ \E f \in File : type[f] = t /\ pipe[f] = x
       \/ \E p \in Proc : ff[p].type = t /\ ff[p].pipe = x

IInv ==
  /\ TypeOK
  /\ PlaceInv
  /\ CountInv
  /\ SetupInv
  /\ EndInv

-----------------------------------------------------------------------------
(***************************************************************************)
(* Counting                                                                *)
(***************************************************************************)
One(c) == IF c THEN 1 ELSE 0

\* A set that gains or loses at most the member x.
LEMMA OneMember ==
  ASSUME NEW S, NEW T, NEW x, IsFiniteSet(S), S \ {x} = T \ {x}
  PROVE  /\ IsFiniteSet(T) /\ Cardinality(S) \in Nat /\ Cardinality(T) \in Nat
         /\ Cardinality(T) + One(x \in S) = Cardinality(S) + One(x \in T)
<1> DEFINE R == S \ {x}
<1>1. IsFiniteSet(R) /\ Cardinality(R) \in Nat
  BY FS_RemoveElement, FS_CardinalityType
<1>2. x \in S => S = R \cup {x}
  OBVIOUS
<1>3. x \notin S => S = R
  OBVIOUS
<1>4. x \in T => T = R \cup {x}
  OBVIOUS
<1>5. x \notin T => T = R
  OBVIOUS
<1>6. IsFiniteSet(R \cup {x}) /\ Cardinality(R \cup {x}) = Cardinality(R) + 1
  BY <1>1, FS_AddElement
<1> HIDE DEF R
<1> QED
  BY <1>1, <1>2, <1>3, <1>4, <1>5, <1>6 DEF One

\* A set of two members at least.
LEMMA TwoMembers ==
  ASSUME NEW S, IsFiniteSet(S), NEW x \in S, NEW y \in S, x # y
  PROVE  Cardinality(S) \in Nat /\ Cardinality(S) > 1
<1>1. Cardinality(S) \in Nat
  BY FS_CardinalityType
<1>2. Cardinality(S) # 0
  BY FS_EmptySet
<1>3. Cardinality(S) # 1
  BY FS_Singleton
<1> QED
  BY <1>1, <1>2, <1>3

\* The first descriptor of a set, as fdalloc() and the loops of fork() and
\* exit() find it.
LEMMA SmallestFd ==
  ASSUME NEW S \in SUBSET FD, S # {}
  PROVE  Smallest(S) \in S /\ Smallest(S) \in FD
<1>1. S \in SUBSET Nat
  BY FileTableAssumption DEF FD
<1>2. PICK i \in S : \A j \in S : <<j, i>> \notin OpToRel(<, Nat)
  BY <1>1, NatLessThanWellFounded, WFMin
<1>3. ASSUME NEW j \in S PROVE i <= j
  <2>1. i \in Nat /\ j \in Nat
    BY <1>1
  <2>2. j < i => <<j, i>> \in OpToRel(<, Nat)
    BY <2>1 DEF OpToRel
  <2>3. ~(j < i)
    BY <1>2, <2>2, Zenon
  <2> QED
    BY <2>1, <2>3
<1> QED
  BY <1>3 DEF Smallest

\* The sets of references are finite.
LEMMA RefsFinite ==
  ASSUME NEW f
  PROVE  /\ IsFiniteSet(Descs(f)) /\ Cardinality(Descs(f)) \in Nat
         /\ IsFiniteSet(Locals(f)) /\ Cardinality(Locals(f)) \in Nat
         /\ IsFiniteSet(Seconds(f)) /\ Cardinality(Seconds(f)) \in Nat
         /\ IsFiniteSet(Closings(f)) /\ Cardinality(Closings(f)) \in Nat
         /\ IsFiniteSet(Dups(f)) /\ Cardinality(Dups(f)) \in Nat
<1>1. IsFiniteSet(Proc) /\ NOFILE \in Nat
  BY FileTableAssumption
<1>2. IsFiniteSet(FD)
  BY <1>1, FS_Interval DEF FD
<1>3. IsFiniteSet({1, 2})
  <2>1. IsFiniteSet({1})
    BY FS_Singleton
  <2>2. IsFiniteSet({1} \cup {2})
    BY <2>1, FS_AddElement
  <2>3. {1, 2} = {1} \cup {2}
    OBVIOUS
  <2> QED
    BY <2>2, <2>3
<1>4. IsFiniteSet(Proc \X FD) /\ IsFiniteSet(Proc \X {1, 2})
  BY <1>1, <1>2, <1>3, FS_Product
<1>5. /\ Descs(f) \subseteq Proc \X FD /\ Locals(f) \subseteq Proc
      /\ Seconds(f) \subseteq Proc /\ Closings(f) \subseteq Proc \X {1, 2}
      /\ Dups(f) \subseteq Proc
  BY DEF Descs, Locals, Seconds, Closings, Dups
<1>6. /\ IsFiniteSet(Descs(f)) /\ IsFiniteSet(Locals(f)) /\ IsFiniteSet(Seconds(f))
      /\ IsFiniteSet(Closings(f)) /\ IsFiniteSet(Dups(f))
  BY <1>1, <1>4, <1>5, FS_Subset
<1> QED
  BY <1>6, FS_CardinalityType

\* A dup() in progress has two descriptors for one count, so a file with a
\* descriptor has more of them than it has dup()s in progress.
LEMMA DupsOwned ==
  ASSUME PlaceInv, NEW f \in File
  PROVE  /\ Cardinality(Dups(f)) <= Cardinality(Descs(f))
         /\ Descs(f) # {} => Cardinality(Dups(f)) < Cardinality(Descs(f))
         /\ Dups(f) # {} => Descs(f) # {}
<1> USE RefsFinite
<1>1. CASE Dups(f) = {}
  <2>1. Cardinality(Dups(f)) = 0
    BY <1>1, FS_EmptySet
  <2>2. Descs(f) # {} => Cardinality(Descs(f)) # 0
    BY FS_EmptySet
  <2> QED
    BY <1>1, <2>1, <2>2
<1>2. CASE Dups(f) # {}
  <2> DEFINE first(q) == CHOOSE d \in FD : ofile[q][d] = f
  <2>1. ASSUME NEW q \in Dups(f)
        PROVE  /\ q \in Proc /\ first(q) \in FD /\ ofile[q][first(q)] = f
               /\ \E e \in FD : e # first(q) /\ ofile[q][e] = f
    <3>1. PICK d \in FD, e \in FD : d # e /\ ofile[q][d] = f /\ ofile[q][e] = f
      <4>1. q \in Proc /\ pc[q] = "dup" /\ f0[q] = f
        BY DEF Dups
      <4> QED
        BY <4>1 DEF PlaceInv
    <3>2. first(q) \in FD /\ ofile[q][first(q)] = f
      BY <3>1
    <3> QED
      BY <3>1, <3>2 DEF Dups
  <2> HIDE DEF first
  <2>2. PICK p \in Dups(f) : TRUE
    BY <1>2
  <2>3. PICK e \in FD : e # first(p) /\ ofile[p][e] = f
    BY <2>1
  <2> DEFINE R == Descs(f) \ {<<p, e>>}
             j == [q \in Dups(f) |-> <<q, first(q)>>]
  <2>4. <<p, e>> \in Descs(f)
    BY <2>1, <2>3 DEF Descs
  <2>5. IsFiniteSet(R) /\ Cardinality(R) = Cardinality(Descs(f)) - 1
    BY <2>4, FS_RemoveElement
  <2>6. j \in Injection(Dups(f), R)
    <3>1. \A q \in Dups(f) : <<q, first(q)>> \in R
      BY <2>1, <2>3 DEF Descs
    <3>2. \A q, r \in Dups(f) : j[q] = j[r] => q = r
      OBVIOUS
    <3> QED
      BY <3>1, <3>2 DEF Injection, IsInjective
  <2>7. Cardinality(Dups(f)) <= Cardinality(R)
    BY <2>5, <2>6, FS_Injection
  <2> HIDE DEF R, j
  <2> QED
    BY <2>4, <2>5, <2>7
<1> QED
  BY <1>1, <1>2

\* A file that is not referenced has no owner; one that is referenced once has
\* owners of one kind, and then a local variable of one process at most.
LEMMA Sole ==
  ASSUME PlaceInv, CountInv, TypeOK, NEW f \in File
  PROVE  /\ ref[f] = 0 => Descs(f) = {} /\ Locals(f) = {} /\ Seconds(f) = {}
                            /\ Closings(f) = {} /\ Dups(f) = {}
         /\ ref[f] = 1 =>
              /\ Descs(f) # {} => Locals(f) = {} /\ Seconds(f) = {} /\ Closings(f) = {}
              /\ Locals(f) # {} => Seconds(f) = {} /\ Closings(f) = {} /\ Dups(f) = {}
              /\ Seconds(f) # {} => Closings(f) = {}
              /\ \A p, q \in Locals(f) : p = q
              /\ \A p, q \in Seconds(f) : p = q
<1>1. Exact(f) /\ ref[f] \in Nat
  BY DEF CountInv, TypeOK
<1>2. PICK a \in Nat, l \in Nat, s \in Nat, c \in Nat, d \in Nat :
        /\ a = Cardinality(Descs(f)) /\ l = Cardinality(Locals(f))
        /\ s = Cardinality(Seconds(f)) /\ c = Cardinality(Closings(f))
        /\ d = Cardinality(Dups(f))
  BY RefsFinite
<1>3. ref[f] + d = ((a + l) + s) + c
  BY <1>1, <1>2 DEF Exact
<1>4. d <= a /\ (Descs(f) # {} => d < a) /\ (Dups(f) # {} => Descs(f) # {})
  BY <1>2, DupsOwned
<1>5. /\ Locals(f) # {} => l > 0
      /\ Seconds(f) # {} => s > 0
      /\ Closings(f) # {} => c > 0
  <2>1. /\ Locals(f) # {} => Cardinality(Locals(f)) # 0
        /\ Seconds(f) # {} => Cardinality(Seconds(f)) # 0
        /\ Closings(f) # {} => Cardinality(Closings(f)) # 0
    BY RefsFinite, FS_EmptySet
  <2> QED
    BY <2>1, <1>2
<1>6. /\ (\E p, q \in Locals(f) : p # q) => l > 1
      /\ (\E p, q \in Seconds(f) : p # q) => s > 1
  <2>1. ASSUME NEW p \in Locals(f), NEW q \in Locals(f), p # q PROVE l > 1
    BY <2>1, <1>2, RefsFinite, TwoMembers
  <2>2. ASSUME NEW p \in Seconds(f), NEW q \in Seconds(f), p # q PROVE s > 1
    BY <2>2, <1>2, RefsFinite, TwoMembers
  <2> QED
    BY <2>1, <2>2
<1>7. ref[f] = 0 => Descs(f) = {} /\ Locals(f) = {} /\ Seconds(f) = {}
                      /\ Closings(f) = {} /\ Dups(f) = {}
  <2>1. ref[f] = 0 => Descs(f) = {} /\ Locals(f) = {} /\ Seconds(f) = {} /\ Closings(f) = {}
    BY <1>1, <1>3, <1>4, <1>5
  <2> QED
    BY <2>1, <1>4
<1>8. ASSUME ref[f] = 1
      PROVE  /\ Descs(f) # {} => Locals(f) = {} /\ Seconds(f) = {} /\ Closings(f) = {}
             /\ Locals(f) # {} => Seconds(f) = {} /\ Closings(f) = {}
             /\ Seconds(f) # {} => Closings(f) = {}
             /\ l < 2 /\ s < 2
  BY <1>8, <1>3, <1>4, <1>5
<1>9. ASSUME ref[f] = 1
      PROVE  /\ Locals(f) # {} => Dups(f) = {}
             /\ \A p, q \in Locals(f) : p = q
             /\ \A p, q \in Seconds(f) : p = q
  <2>1. Locals(f) # {} => Dups(f) = {}
    BY <1>9, <1>8, <1>4
  <2>2. l < 2 /\ s < 2 /\ ~(l > 1) /\ ~(s > 1)
    BY <1>9, <1>8
  <2> QED
    BY <2>1, <2>2, <1>6
<1> QED
  BY <1>7, <1>8, <1>9

\* The count stays exact when it changes by as much as the references to f do.
LEMMA ExactStep ==
  ASSUME TypeOK, CountInv, NEW f \in File, NEW d, NEW p, NEW c,
         Descs(f) \ {d} = Descs(f)' \ {d},
         Locals(f) \ {p} = Locals(f)' \ {p},
         Seconds(f) \ {p} = Seconds(f)' \ {p},
         Closings(f) \ {c} = Closings(f)' \ {c},
         Dups(f) \ {p} = Dups(f)' \ {p},
         ref'[f] \in Nat,
         ref'[f] + (One(d \in Descs(f)) + One(p \in Locals(f)) + One(p \in Seconds(f))
                    + One(c \in Closings(f)) + One(p \in Dups(f)'))
           = ref[f] + (One(d \in Descs(f)') + One(p \in Locals(f)') + One(p \in Seconds(f)')
                       + One(c \in Closings(f)') + One(p \in Dups(f)))
  PROVE  Exact(f)'
<1>1. Exact(f) /\ ref[f] \in Nat
  BY DEF CountInv, TypeOK
<1>a. /\ IsFiniteSet(Descs(f)) /\ IsFiniteSet(Locals(f)) /\ IsFiniteSet(Seconds(f))
      /\ IsFiniteSet(Closings(f)) /\ IsFiniteSet(Dups(f))
  BY RefsFinite
<1>b. \A x, S : One(x \in S) \in Nat
  BY DEF One
<1>2. PICK k \in Nat, k1 \in Nat, k2 \in Nat, k3 \in Nat :
        /\ k = Cardinality(Descs(f)) /\ k1 = Cardinality(Descs(f)')
        /\ k2 = One(d \in Descs(f)) /\ k3 = One(d \in Descs(f)')
        /\ k1 + k2 = k + k3
  <2>1. /\ Cardinality(Descs(f)) \in Nat /\ Cardinality(Descs(f)') \in Nat
        /\ Cardinality(Descs(f)') + One(d \in Descs(f))
             = Cardinality(Descs(f)) + One(d \in Descs(f)')
    BY <1>a, OneMember
  <2> QED
    BY <1>b, <2>1
<1>3. PICK l \in Nat, l1 \in Nat, l2 \in Nat, l3 \in Nat :
        /\ l = Cardinality(Locals(f)) /\ l1 = Cardinality(Locals(f)')
        /\ l2 = One(p \in Locals(f)) /\ l3 = One(p \in Locals(f)')
        /\ l1 + l2 = l + l3
  <2>1. /\ Cardinality(Locals(f)) \in Nat /\ Cardinality(Locals(f)') \in Nat
        /\ Cardinality(Locals(f)') + One(p \in Locals(f))
             = Cardinality(Locals(f)) + One(p \in Locals(f)')
    BY <1>a, OneMember
  <2> QED
    BY <1>b, <2>1
<1>4. PICK s \in Nat, s1 \in Nat, s2 \in Nat, s3 \in Nat :
        /\ s = Cardinality(Seconds(f)) /\ s1 = Cardinality(Seconds(f)')
        /\ s2 = One(p \in Seconds(f)) /\ s3 = One(p \in Seconds(f)')
        /\ s1 + s2 = s + s3
  <2>1. /\ Cardinality(Seconds(f)) \in Nat /\ Cardinality(Seconds(f)') \in Nat
        /\ Cardinality(Seconds(f)') + One(p \in Seconds(f))
             = Cardinality(Seconds(f)) + One(p \in Seconds(f)')
    BY <1>a, OneMember
  <2> QED
    BY <1>b, <2>1
<1>5. PICK m \in Nat, m1 \in Nat, m2 \in Nat, m3 \in Nat :
        /\ m = Cardinality(Closings(f)) /\ m1 = Cardinality(Closings(f)')
        /\ m2 = One(c \in Closings(f)) /\ m3 = One(c \in Closings(f)')
        /\ m1 + m2 = m + m3
  <2>1. /\ Cardinality(Closings(f)) \in Nat /\ Cardinality(Closings(f)') \in Nat
        /\ Cardinality(Closings(f)') + One(c \in Closings(f))
             = Cardinality(Closings(f)) + One(c \in Closings(f)')
    BY <1>a, OneMember
  <2> QED
    BY <1>b, <2>1
<1>6. PICK w \in Nat, w1 \in Nat, w2 \in Nat, w3 \in Nat :
        /\ w = Cardinality(Dups(f)) /\ w1 = Cardinality(Dups(f)')
        /\ w2 = One(p \in Dups(f)) /\ w3 = One(p \in Dups(f)')
        /\ w1 + w2 = w + w3
  <2>1. /\ Cardinality(Dups(f)) \in Nat /\ Cardinality(Dups(f)') \in Nat
        /\ Cardinality(Dups(f)') + One(p \in Dups(f))
             = Cardinality(Dups(f)) + One(p \in Dups(f)')
    BY <1>a, OneMember
  <2> QED
    BY <1>b, <2>1
<1>7. PICK r \in Nat, r1 \in Nat : r = ref[f] /\ r1 = ref'[f]
  BY <1>1
<1>8. r1 + (k2 + l2 + s2 + m2 + w3) = r + (k3 + l3 + s3 + m3 + w2)
  BY <1>2, <1>3, <1>4, <1>5, <1>6, <1>7
<1>9. r + w = ((k + l) + s) + m
  BY <1>1, <1>2, <1>3, <1>4, <1>5, <1>6, <1>7 DEF Exact
<1>10. /\ k1 + k2 = k + k3 /\ l1 + l2 = l + l3 /\ s1 + s2 = s + s3
       /\ m1 + m2 = m + m3 /\ w1 + w2 = w + w3
  BY <1>2, <1>3, <1>4, <1>5, <1>6
<1>11. r1 + w1 = ((k1 + l1) + s1) + m1
  BY <1>8, <1>9, <1>10
<1> QED
  BY <1>2, <1>3, <1>4, <1>5, <1>6, <1>7, <1>11 DEF Exact

\* The sets behind InodeRefs are finite.
LEMMA InodesFinite ==
  /\ IsFiniteSet(Inodes) /\ Cardinality(Inodes) \in Nat
  /\ IsFiniteSet(Opens) /\ Cardinality(Opens) \in Nat
  /\ IsFiniteSet(Iputs) /\ Cardinality(Iputs) \in Nat
<1>1. IsFiniteSet(Proc) /\ IsFiniteSet(File)
  BY FileTableAssumption
<1>2. Inodes \subseteq File /\ Opens \subseteq Proc /\ Iputs \subseteq Proc
  BY DEF Inodes, Opens, Iputs
<1>3. IsFiniteSet(Inodes) /\ IsFiniteSet(Opens) /\ IsFiniteSet(Iputs)
  BY <1>1, <1>2, FS_Subset
<1> QED
  BY <1>3, FS_CardinalityType

\* The references to inodes stay exact when iref changes by as much as the files,
\* calls and closes that own one do.
LEMMA InodeStep ==
  ASSUME CountInv, NEW f, NEW p,
         Inodes \ {f} = Inodes' \ {f}, Opens \ {p} = Opens' \ {p}, Iputs \ {p} = Iputs' \ {p},
         iref' \in Int,
         iref' + (One(f \in Inodes) + One(p \in Opens) + One(p \in Iputs))
           = iref + (One(f \in Inodes') + One(p \in Opens') + One(p \in Iputs'))
  PROVE  /\ iref' \in Nat
         /\ iref' = (Cardinality(Inodes') + Cardinality(Opens')) + Cardinality(Iputs')
<1>1. /\ Cardinality(Inodes) \in Nat /\ Cardinality(Inodes') \in Nat
      /\ Cardinality(Inodes') + One(f \in Inodes) = Cardinality(Inodes) + One(f \in Inodes')
  BY InodesFinite, OneMember
<1>2. /\ Cardinality(Opens) \in Nat /\ Cardinality(Opens') \in Nat
      /\ Cardinality(Opens') + One(p \in Opens) = Cardinality(Opens) + One(p \in Opens')
  BY InodesFinite, OneMember
<1>3. /\ Cardinality(Iputs) \in Nat /\ Cardinality(Iputs') \in Nat
      /\ Cardinality(Iputs') + One(p \in Iputs) = Cardinality(Iputs) + One(p \in Iputs')
  BY InodesFinite, OneMember
<1>4. /\ One(f \in Inodes) \in Nat /\ One(p \in Opens) \in Nat /\ One(p \in Iputs) \in Nat
      /\ One(f \in Inodes') \in Nat /\ One(p \in Opens') \in Nat /\ One(p \in Iputs') \in Nat
  BY DEF One
<1>5. iref = (Cardinality(Inodes) + Cardinality(Opens)) + Cardinality(Iputs)
  BY DEF CountInv
<1> QED
  BY <1>1, <1>2, <1>3, <1>4, <1>5

\* Nothing that has to do with the ends of pipes changes.
LEMMA EndStep ==
  ASSUME EndInv, UNCHANGED <<type, pipe, pipeopen, ff>>
  PROVE  EndInv'
BY DEF EndInv

\* At boot no file is open.
LEMMA InitIInv == Init => IInv
<1> SUFFICES ASSUME Init PROVE IInv
  OBVIOUS
<1>a. init \in Proc /\ NoFile \notin File /\ NoPipe \notin Pipe
  BY FileTableAssumption
<1>1. TypeOK
  <2>1. ff \in [Proc -> [type : Type, pipe : Pipe \cup {NoPipe}]]
    BY DEF Init, None, Type
  <2>2. closing \in [Proc -> Seq(File)]
    BY DEF Init
  <2>3. /\ ref \in [File -> Nat] /\ type \in [File -> Type]
        /\ pipe \in [File -> Pipe \cup {NoPipe}] /\ pipeopen \in [Pipe -> SUBSET {"r", "w"}]
        /\ iref \in Nat /\ panicked \in BOOLEAN
    BY DEF Init, Type
  <2>4. /\ ofile \in [Proc -> [FD -> File \cup {NoFile}]]
        /\ f0 \in [Proc -> File \cup {NoFile}] /\ f1 \in [Proc -> File \cup {NoFile}]
        /\ child \in [Proc -> Proc \cup {NoProc}] /\ pc \in [Proc -> PC]
    BY DEF Init, PC
  <2> QED
    BY <2>1, <2>2, <2>3, <2>4 DEF TypeOK
<1>2. PlaceInv
  BY DEF Init, PlaceInv, LocalPC
<1>3. CountInv
  <2>1. \A f \in File : /\ Descs(f) = {} /\ Locals(f) = {} /\ Seconds(f) = {}
                        /\ Closings(f) = {} /\ Dups(f) = {}
    <3> SUFFICES ASSUME NEW f \in File
                 PROVE  /\ Descs(f) = {} /\ Locals(f) = {} /\ Seconds(f) = {}
                        /\ Closings(f) = {} /\ Dups(f) = {}
      OBVIOUS
    <3>1. Descs(f) = {}
      BY <1>a DEF Init, Descs
    <3>2. Locals(f) = {} /\ Seconds(f) = {}
      BY <1>a DEF Init, Locals, Seconds
    <3>3. Dups(f) = {}
      BY <1>a DEF Init, Dups
    <3>4. Closings(f) = {}
      <4>1. \A p \in Proc : Len(closing[p]) = 0
        BY DEF Init
      <4> QED
        BY <4>1 DEF Closings
    <3> QED
      BY <3>1, <3>2, <3>3, <3>4
  <2>2. Inodes = {} /\ Opens = {} /\ Iputs = {}
    BY DEF Init, Inodes, Opens, Iputs, OpenPC, None
  <2>3. \A f \in File : ref[f] = 0
    BY DEF Init
  <2>4. iref = 0 /\ ~panicked
    BY DEF Init
  <2>5. \A f \in File : Exact(f)
    BY <2>1, <2>3, FS_EmptySet DEF Exact
  <2>6. iref = (Cardinality(Inodes) + Cardinality(Opens)) + Cardinality(Iputs)
    BY <2>2, <2>4, FS_EmptySet
  <2> QED
    BY <2>4, <2>5, <2>6 DEF CountInv
<1>4. SetupInv
  BY DEF Init, SetupInv, LocalPC
<1>5. EndInv
  BY DEF Init, EndInv, PipeEnd, None
<1> QED
  BY <1>1, <1>2, <1>3, <1>4, <1>5 DEF IInv

-----------------------------------------------------------------------------
(***************************************************************************)
(* Steps that take or give up no file                                      *)
(***************************************************************************)
\* Processes move between places where they own no file but their descriptors.
LEMMA MoveIInv ==
  ASSUME IInv, NEW p \in Proc,
         UNCHANGED <<ref, type, pipe, ofile, pipeopen, f0, f1, closing, ff, panicked>>,
         pc' \in [Proc -> PC], child' \in [Proc -> Proc \cup {NoProc}],
         \A q \in Proc : pc'[q] = pc[q] \/
           (pc[q] \notin LocalPC \cup {"open_set", "dup"}
              /\ pc'[q] \notin LocalPC \cup {"open_set", "dup"}),
         \A q \in Proc : pc'[q] = "fork" => child'[q] \in Proc /\ pc'[child'[q]] = "embryo",
         \A q, r \in Proc :
           (pc'[q] = "fork" /\ pc'[r] = "fork" /\ child'[q] = child'[r]) => q = r,
         Opens \ {p} = Opens' \ {p}, iref' \in Int,
         iref' + One(p \in Opens) = iref + One(p \in Opens')
  PROVE  IInv'
<1> USE DEF IInv
<1>1. PlaceInv'
  BY DEF PlaceInv, LocalPC
<1>2. \A f \in File : Exact(f)'
  <2> SUFFICES ASSUME NEW f \in File PROVE Exact(f)'
    OBVIOUS
  <2>1. /\ Descs(f)' = Descs(f) /\ Locals(f)' = Locals(f) /\ Seconds(f)' = Seconds(f)
        /\ Closings(f)' = Closings(f) /\ Dups(f)' = Dups(f)
    BY DEF Descs, Locals, Seconds, Closings, Dups
  <2>2. Exact(f) /\ ref'[f] = ref[f]
    BY DEF CountInv
  <2> QED
    BY <2>1, <2>2 DEF Exact
<1>3. /\ iref' \in Nat
      /\ iref' = (Cardinality(Inodes') + Cardinality(Opens')) + Cardinality(Iputs')
  <2>1. Inodes' = Inodes /\ Iputs' = Iputs
    BY DEF Inodes, Iputs
  <2>2. iref \in Nat /\ One(p \in Opens) \in Nat /\ One(p \in Opens') \in Nat
        /\ One(p \in Inodes) \in Nat /\ One(p \in Iputs) \in Nat
    BY DEF One, TypeOK
  <2>3. iref' + (One(p \in Inodes) + One(p \in Opens) + One(p \in Iputs))
          = iref + (One(p \in Inodes') + One(p \in Opens') + One(p \in Iputs'))
    BY <2>1, <2>2
  <2> QED
    BY <2>1, <2>3, InodeStep
<1>4. CountInv'
  BY <1>2, <1>3 DEF CountInv
<1>5. TypeOK'
  BY <1>3 DEF TypeOK
<1>6. SetupInv'
  BY DEF SetupInv, LocalPC
<1>7. EndInv'
  BY EndStep
<1> QED
  BY <1>1, <1>4, <1>5, <1>6, <1>7

\* sys_open() has its inode or puts it again; exit() begins.
LEMMA CallsIInv ==
  ASSUME IInv, NEW p \in Proc, SysOpen(p) \/ OpenBad(p) \/ SysExit(p)
  PROVE  IInv'
<1> USE DEF IInv, At, Goto
<1>1. /\ UNCHANGED <<ref, type, pipe, ofile, pipeopen, f0, f1, child, closing, ff, panicked>>
      /\ pc \in [Proc -> PC] /\ iref \in Nat /\ child \in [Proc -> Proc \cup {NoProc}]
  BY DEF SysOpen, OpenBad, SysExit, ftable, locals, TypeOK
<1>2. PICK there \in {"open", "idle", "exit"} :
        /\ pc' = [pc EXCEPT ![p] = there]
        /\ pc[p] \in {"idle", "open_bad"}
        /\ \/ pc[p] = "idle" /\ there = "open" /\ iref' = iref + 1
           \/ pc[p] = "open_bad" /\ there = "idle" /\ iref' = iref - 1
           \/ pc[p] = "idle" /\ there = "exit" /\ iref' = iref
  BY DEF SysOpen, OpenBad, SysExit
<1>3. pc' \in [Proc -> PC]
  BY <1>1, <1>2 DEF PC
<1>4. \A q \in Proc : pc'[q] = pc[q] \/
           (pc[q] \notin LocalPC \cup {"open_set", "dup"}
              /\ pc'[q] \notin LocalPC \cup {"open_set", "dup"})
  BY <1>1, <1>2 DEF LocalPC
<1>5. /\ \A q \in Proc : pc'[q] = "fork" => child'[q] \in Proc /\ pc'[child'[q]] = "embryo"
      /\ \A q, r \in Proc :
           (pc'[q] = "fork" /\ pc'[r] = "fork" /\ child'[q] = child'[r]) => q = r
  BY <1>1, <1>2 DEF PlaceInv
<1>6. Opens \ {p} = Opens' \ {p}
  BY <1>1, <1>2 DEF Opens
<1>7. iref' \in Int /\ iref' + One(p \in Opens) = iref + One(p \in Opens')
  BY <1>1, <1>2 DEF Opens, OpenPC, One
<1> QED
  BY <1>1, <1>3, <1>4, <1>5, <1>6, <1>7, MoveIInv

\* fork() takes a slot for its child, and hands it to the scheduler in the end.
LEMMA ForkIInv ==
  ASSUME IInv, NEW p \in Proc, (\E q \in Proc : ForkBegins(p, q)) \/ ForkEnds(p)
  PROVE  IInv'
<1> USE DEF IInv, At
<1>1. /\ UNCHANGED <<ref, type, pipe, ofile, pipeopen, f0, f1, closing, ff, panicked>>
      /\ pc \in [Proc -> PC] /\ iref' = iref /\ iref \in Nat
      /\ child \in [Proc -> Proc \cup {NoProc}]
  BY DEF ForkBegins, ForkEnds, ftable, TypeOK
<1>2. PICK q \in Proc :
        \/ /\ pc[p] = "idle" /\ pc[q] = "unused"
           /\ pc' = [pc EXCEPT ![p] = "fork", ![q] = "embryo"]
           /\ child' = [child EXCEPT ![p] = q]
        \/ /\ pc[p] = "fork" /\ child[p] = q /\ pc[q] = "embryo"
           /\ pc' = [pc EXCEPT ![p] = "idle", ![q] = "idle"]
           /\ child' = [child EXCEPT ![p] = NoProc]
  BY DEF ForkBegins, ForkEnds, PlaceInv
<1>p. p # q
  BY <1>2
<1>3. pc' \in [Proc -> PC] /\ child' \in [Proc -> Proc \cup {NoProc}]
  BY <1>1, <1>2 DEF PC
<1>4. \A r \in Proc : pc'[r] = pc[r] \/
           (pc[r] \notin LocalPC \cup {"open_set", "dup"}
              /\ pc'[r] \notin LocalPC \cup {"open_set", "dup"})
  BY <1>1, <1>2, <1>p DEF LocalPC
<1>5. /\ \A r \in Proc : pc'[r] = "fork" => child'[r] \in Proc /\ pc'[child'[r]] = "embryo"
      /\ \A r, s \in Proc :
           (pc'[r] = "fork" /\ pc'[s] = "fork" /\ child'[r] = child'[s]) => r = s
  BY <1>1, <1>2, <1>p DEF PlaceInv
<1>6. Opens = Opens'
  BY <1>1, <1>2, <1>p DEF Opens, OpenPC
<1>7. iref' \in Int /\ iref' + One(p \in Opens) = iref + One(p \in Opens')
  BY <1>1, <1>6 DEF One
<1> QED
  BY <1>1, <1>3, <1>4, <1>5, <1>6, <1>7, MoveIInv

-----------------------------------------------------------------------------
(***************************************************************************)
(* Steps that take a file                                                  *)
(***************************************************************************)
\* filealloc() for sys_open() or for the read end of a pipe.
LEMMA AllocFirstIInv ==
  ASSUME IInv, NEW p \in Proc, NEW f \in FreeFiles, FileAlloc(p, f0, f),
         \/ pc[p] = "open" /\ pc' = [pc EXCEPT ![p] = "open_fd"]
         \/ pc[p] = "idle" /\ pc' = [pc EXCEPT ![p] = "pipe"],
         UNCHANGED <<type, pipe, ofile, pipeopen, iref, f1, child, closing, ff, panicked>>
  PROVE  IInv'
<1> USE DEF IInv
<1>1. /\ f \in File /\ ref[f] = 0 /\ f # NoFile /\ f0[p] = NoFile
      /\ ref \in [File -> Nat] /\ f0 \in [Proc -> File \cup {NoFile}] /\ pc \in [Proc -> PC]
      /\ ref' = [ref EXCEPT ![f] = 1] /\ f0' = [f0 EXCEPT ![p] = f]
  BY FileTableAssumption DEF FreeFiles, FileAlloc, TypeOK, PlaceInv, LocalPC
<1>2. /\ \A q \in Proc : q # p => f0'[q] = f0[q] /\ pc'[q] = pc[q]
      /\ f0'[p] = f /\ pc'[p] \in {"open_fd", "pipe"} /\ pc[p] \in {"open", "idle"}
      /\ \A g \in File : g # f => ref'[g] = ref[g]
      /\ ref'[f] = 1
  BY <1>1
<1>3. /\ Descs(f) = {} /\ Locals(f) = {} /\ Seconds(f) = {} /\ Closings(f) = {}
      /\ Dups(f) = {} /\ type[f] = "NONE"
  BY <1>1, Sole DEF SetupInv
<1>4. PlaceInv'
  <2>1. \A q \in Proc : f0'[q] # NoFile <=> pc'[q] \in LocalPC \cup {"open_set", "dup"}
    BY <1>1, <1>2 DEF PlaceInv, LocalPC
  <2>2. \A q \in Proc : f1'[q] # NoFile <=> pc'[q] \in {"pipe_kalloc", "pipe_fd"}
    BY <1>2 DEF PlaceInv
  <2>3. \A q \in Proc : pc'[q] = "dup" =>
          \E d, e \in FD : d # e /\ ofile'[q][d] = f0'[q] /\ ofile'[q][e] = f0'[q]
    BY <1>2 DEF PlaceInv
  <2>4. \A q \in Proc : pc'[q] = "fork" => child'[q] \in Proc /\ pc'[child'[q]] = "embryo"
    BY <1>1, <1>2 DEF PlaceInv
  <2>5. \A q, r \in Proc :
          (pc'[q] = "fork" /\ pc'[r] = "fork" /\ child'[q] = child'[r]) => q = r
    BY <1>2 DEF PlaceInv
  <2> QED
    BY <2>1, <2>2, <2>3, <2>4, <2>5 DEF PlaceInv
<1>5. \A g \in File : Exact(g)'
  <2> SUFFICES ASSUME NEW g \in File PROVE Exact(g)'
    OBVIOUS
  <2>1. Descs(g)' = Descs(g) /\ Seconds(g)' = Seconds(g) /\ Closings(g)' = Closings(g)
    BY DEF Descs, Seconds, Closings
  <2>2. /\ Locals(g) \ {p} = Locals(g)' \ {p} /\ p \notin Locals(g)
        /\ p \in Locals(g)' <=> g = f
    BY <1>2 DEF Locals, LocalPC
  <2>3. Dups(g)' = Dups(g) /\ p \notin Dups(g)
    BY <1>2 DEF Dups
  <2>4. ref[g] \in Nat /\ ref'[g] \in Nat /\ ref'[g] = ref[g] + One(g = f)
    BY <1>1, <1>2 DEF One
  <2>5. One(p \in Locals(g)) = 0 /\ One(p \in Locals(g)') = One(g = f) /\ One(g = f) \in Nat
    BY <2>2 DEF One
  <2>6. /\ One(<<p, 1>> \in Descs(g)) \in Nat /\ One(p \in Seconds(g)) \in Nat
        /\ One(<<p, 1>> \in Closings(g)) \in Nat /\ One(p \in Dups(g)) \in Nat
    BY DEF One
  <2>7. ref'[g] + (One(<<p, 1>> \in Descs(g)) + One(p \in Locals(g)) + One(p \in Seconds(g))
                    + One(<<p, 1>> \in Closings(g)) + One(p \in Dups(g)'))
           = ref[g] + (One(<<p, 1>> \in Descs(g)') + One(p \in Locals(g)')
                       + One(p \in Seconds(g)')
                       + One(<<p, 1>> \in Closings(g)') + One(p \in Dups(g)))
    BY <2>1, <2>3, <2>4, <2>5, <2>6
  <2> QED
    BY <2>1, <2>2, <2>3, <2>4, <2>7, ExactStep
<1>6. CountInv'
  <2>1. Inodes' = Inodes /\ Opens' = Opens /\ Iputs' = Iputs
    <3>1. CASE pc[p] = "open" /\ pc' = [pc EXCEPT ![p] = "open_fd"]
      BY <3>1, <1>1 DEF Inodes, Opens, Iputs, OpenPC
    <3>2. CASE pc[p] = "idle" /\ pc' = [pc EXCEPT ![p] = "pipe"]
      BY <3>2, <1>1 DEF Inodes, Opens, Iputs, OpenPC
    <3> QED
      BY <3>1, <3>2
  <2> QED
    BY <1>5, <2>1 DEF CountInv
<1>7. TypeOK'
  BY <1>1 DEF TypeOK, PC
<1>8. SetupInv'
  <2>0. \A q \in Proc : q # p => f0'[q] # f /\ f1[q] # f
    BY <1>2, <1>3, <1>1, FileTableAssumption DEF Locals, Seconds, Dups, PlaceInv, SetupInv
  <2> QED
    BY <1>1, <1>2, <1>3, <2>0 DEF SetupInv, LocalPC
<1>9. EndInv'
  BY EndStep
<1> QED
  BY <1>4, <1>6, <1>7, <1>8, <1>9

\* A file that only f0 of one call refers to.
LEMMA Private ==
  ASSUME IInv, NEW p \in Proc, pc[p] \in LocalPC
  PROVE  /\ f0[p] \in File /\ f0[p] # NoFile /\ ref[f0[p]] = 1
         /\ \A q \in Proc, d \in FD : ofile[q][d] # f0[p]
         /\ \A q \in Proc : q # p => f0[q] # f0[p]
         /\ \A q \in Proc : f1[q] # f0[p]
<1> USE DEF IInv
<1>1. PICK f \in File : f = f0[p]
  BY DEF PlaceInv, TypeOK
<1>2. p \in Locals(f) /\ ref[f] = 1 /\ f # NoFile
  BY <1>1, FileTableAssumption DEF Locals, SetupInv
<1>3. Descs(f) = {} /\ Seconds(f) = {} /\ Dups(f) = {} /\ \A q \in Locals(f) : q = p
  BY <1>2, Sole
<1>4. \A q \in Proc, d \in FD : ofile[q][d] # f
  <2> SUFFICES ASSUME NEW q \in Proc, NEW d \in FD, ofile[q][d] = f PROVE FALSE
    OBVIOUS
  <2>1. <<q, d>> \in Descs(f)
    BY DEF Descs
  <2> QED
    BY <2>1, <1>3
<1>5. \A q \in Proc : q # p => f0[q] # f
  <2> SUFFICES ASSUME NEW q \in Proc, q # p, f0[q] = f PROVE FALSE
    OBVIOUS
  <2>1. pc[q] \in LocalPC \cup {"open_set", "dup"}
    BY <1>2 DEF PlaceInv
  <2>2. CASE pc[q] \in LocalPC
    BY <2>2, <1>3 DEF Locals
  <2>3. CASE pc[q] = "open_set"
    BY <2>3, <1>4 DEF SetupInv
  <2>4. CASE pc[q] = "dup"
    BY <2>4, <1>3 DEF Dups
  <2> QED
    BY <2>1, <2>2, <2>3, <2>4
<1>6. \A q \in Proc : f1[q] # f
  BY <1>3 DEF Seconds
<1> QED
  BY <1>1, <1>2, <1>4, <1>5, <1>6

\* A file that only f1 of one pipealloc() or sys_pipe() refers to.
LEMMA PrivateSecond ==
  ASSUME IInv, NEW p \in Proc, pc[p] \in {"pipe_kalloc", "pipe_fd"}
  PROVE  /\ f1[p] \in File /\ f1[p] # NoFile /\ ref[f1[p]] = 1
         /\ \A q \in Proc, d \in FD : ofile[q][d] # f1[p]
         /\ \A q \in Proc : q # p => f1[q] # f1[p]
         /\ \A q \in Proc : f0[q] # f1[p]
<1> USE DEF IInv
<1>1. PICK f \in File : f = f1[p]
  BY DEF PlaceInv, TypeOK
<1>2. p \in Seconds(f) /\ ref[f] = 1 /\ f # NoFile
  BY <1>1, FileTableAssumption DEF Seconds, SetupInv
<1>3. Descs(f) = {} /\ Locals(f) = {} /\ \A q \in Seconds(f) : q = p
  BY <1>2, Sole
<1>4. \A q \in Proc, d \in FD : ofile[q][d] # f
  <2> SUFFICES ASSUME NEW q \in Proc, NEW d \in FD, ofile[q][d] = f PROVE FALSE
    OBVIOUS
  <2>1. <<q, d>> \in Descs(f)
    BY DEF Descs
  <2> QED
    BY <2>1, <1>3
<1>5. \A q \in Proc : f0[q] # f
  <2> SUFFICES ASSUME NEW q \in Proc, f0[q] = f PROVE FALSE
    OBVIOUS
  <2>1. pc[q] \in LocalPC \cup {"open_set", "dup"}
    BY <1>2 DEF PlaceInv
  <2>2. CASE pc[q] \in LocalPC
    BY <2>2, <1>3 DEF Locals
  <2>3. CASE pc[q] = "open_set"
    BY <2>3, <1>4 DEF SetupInv
  <2>4. CASE pc[q] = "dup"
    BY <2>4, <1>4 DEF PlaceInv
  <2> QED
    BY <2>1, <2>2, <2>3, <2>4
<1>6. \A q \in Proc : q # p => f1[q] # f
  BY <1>3 DEF Seconds
<1> QED
  BY <1>1, <1>2, <1>4, <1>5, <1>6

\* filealloc() for the write end of a pipe.
LEMMA AllocSecondIInv ==
  ASSUME IInv, NEW p \in Proc, NEW f \in FreeFiles, FileAlloc(p, f1, f),
         pc[p] = "pipe", pc' = [pc EXCEPT ![p] = "pipe_kalloc"],
         UNCHANGED <<type, pipe, ofile, pipeopen, iref, f0, child, closing, ff, panicked>>
  PROVE  IInv'
<1> USE DEF IInv
<1>1. /\ f \in File /\ ref[f] = 0 /\ f # NoFile /\ f1[p] = NoFile
      /\ ref \in [File -> Nat] /\ f1 \in [Proc -> File \cup {NoFile}] /\ pc \in [Proc -> PC]
      /\ ref' = [ref EXCEPT ![f] = 1] /\ f1' = [f1 EXCEPT ![p] = f]
  BY FileTableAssumption DEF FreeFiles, FileAlloc, TypeOK, PlaceInv
<1>2. /\ \A q \in Proc : q # p => f1'[q] = f1[q] /\ pc'[q] = pc[q]
      /\ f1'[p] = f /\ pc'[p] = "pipe_kalloc"
      /\ \A g \in File : g # f => ref'[g] = ref[g]
      /\ ref'[f] = 1
  BY <1>1
<1>3. /\ Descs(f) = {} /\ Locals(f) = {} /\ Seconds(f) = {} /\ Closings(f) = {}
      /\ Dups(f) = {} /\ type[f] = "NONE"
  BY <1>1, Sole DEF SetupInv
<1>4. PlaceInv'
  <2>1. \A q \in Proc : f0'[q] # NoFile <=> pc'[q] \in LocalPC \cup {"open_set", "dup"}
    BY <1>1, <1>2 DEF PlaceInv, LocalPC
  <2>2. \A q \in Proc : f1'[q] # NoFile <=> pc'[q] \in {"pipe_kalloc", "pipe_fd"}
    BY <1>1, <1>2 DEF PlaceInv
  <2>3. \A q \in Proc : pc'[q] = "dup" =>
          \E d, e \in FD : d # e /\ ofile'[q][d] = f0'[q] /\ ofile'[q][e] = f0'[q]
    BY <1>2 DEF PlaceInv
  <2>4. \A q \in Proc : pc'[q] = "fork" => child'[q] \in Proc /\ pc'[child'[q]] = "embryo"
    BY <1>1, <1>2 DEF PlaceInv
  <2>5. \A q, r \in Proc :
          (pc'[q] = "fork" /\ pc'[r] = "fork" /\ child'[q] = child'[r]) => q = r
    BY <1>2 DEF PlaceInv
  <2> QED
    BY <2>1, <2>2, <2>3, <2>4, <2>5 DEF PlaceInv
<1>5. \A g \in File : Exact(g)'
  <2> SUFFICES ASSUME NEW g \in File PROVE Exact(g)'
    OBVIOUS
  <2>1. Descs(g)' = Descs(g) /\ Closings(g)' = Closings(g)
    BY DEF Descs, Closings
  <2>2. /\ Seconds(g) \ {p} = Seconds(g)' \ {p} /\ p \notin Seconds(g)
        /\ p \in Seconds(g)' <=> g = f
    BY <1>1, <1>2, FileTableAssumption DEF Seconds
  <2>3. Dups(g)' = Dups(g) /\ Locals(g)' = Locals(g)
    BY <1>2 DEF Dups, Locals, LocalPC
  <2>4. ref[g] \in Nat /\ ref'[g] \in Nat /\ ref'[g] = ref[g] + One(g = f)
    BY <1>1, <1>2 DEF One
  <2>5. One(p \in Seconds(g)) = 0 /\ One(p \in Seconds(g)') = One(g = f) /\ One(g = f) \in Nat
    BY <2>2 DEF One
  <2>6. /\ One(<<p, 1>> \in Descs(g)) \in Nat /\ One(p \in Locals(g)) \in Nat
        /\ One(<<p, 1>> \in Closings(g)) \in Nat /\ One(p \in Dups(g)) \in Nat
    BY DEF One
  <2>7. ref'[g] + (One(<<p, 1>> \in Descs(g)) + One(p \in Locals(g)) + One(p \in Seconds(g))
                    + One(<<p, 1>> \in Closings(g)) + One(p \in Dups(g)'))
           = ref[g] + (One(<<p, 1>> \in Descs(g)') + One(p \in Locals(g)')
                       + One(p \in Seconds(g)')
                       + One(<<p, 1>> \in Closings(g)') + One(p \in Dups(g)))
    BY <2>1, <2>3, <2>4, <2>5, <2>6
  <2> QED
    BY <2>1, <2>2, <2>3, <2>4, <2>7, ExactStep
<1>6. CountInv'
  <2>1. Inodes' = Inodes /\ Opens' = Opens /\ Iputs' = Iputs
    BY <1>1, <1>2 DEF Inodes, Opens, Iputs, OpenPC
  <2> QED
    BY <1>5, <2>1 DEF CountInv
<1>7. TypeOK'
  BY <1>1 DEF TypeOK, PC
<1>8. SetupInv'
  <2>0. \A q \in Proc : pc[q] \in LocalPC \cup {"open_set"} => f0[q] \in File /\ f0[q] # f
    BY <1>1 DEF SetupInv, PlaceInv, TypeOK
  <2>1. \A q \in Proc : pc[q] \in {"pipe_kalloc", "pipe_fd"} => f1[q] \in File /\ f1[q] # f
    BY <1>1 DEF SetupInv, PlaceInv, TypeOK
  <2> QED
    BY <1>1, <1>2, <1>3, <2>0, <2>1 DEF SetupInv, LocalPC
<1>9. EndInv'
  BY EndStep
<1> QED
  BY <1>4, <1>6, <1>7, <1>8, <1>9

\* The first step of sys_pipe() and both outcomes of filealloc().
LEMMA AllocIInv ==
  ASSUME IInv, NEW p \in Proc,
         \/ OpenAlloc(p) \/ PipeAlloc0(p)
         \/ PipeAlloc1(p) /\ \E f \in FreeFiles : FileAlloc(p, f1, f)
                                /\ Goto(p, "pipe_kalloc") /\ UNCHANGED <<f0, closing>>
  PROVE  IInv'
<1> USE DEF At, Goto
<1>1. CASE PipeAlloc0(p)
  <2>1. PICK f \in FreeFiles : FileAlloc(p, f0, f)
    BY <1>1 DEF PipeAlloc0
  <2>2. /\ pc[p] = "idle" /\ pc' = [pc EXCEPT ![p] = "pipe"]
        /\ UNCHANGED <<type, pipe, ofile, pipeopen, iref, f1, child, closing, ff, panicked>>
    BY <1>1 DEF PipeAlloc0
  <2> QED
    BY <2>1, <2>2, AllocFirstIInv
<1>2. ASSUME NEW f \in FreeFiles, FileAlloc(p, f0, f), Goto(p, "open_fd"), OpenAlloc(p)
      PROVE  IInv'
  <2>1. /\ pc[p] = "open" /\ pc' = [pc EXCEPT ![p] = "open_fd"]
        /\ UNCHANGED <<type, pipe, ofile, pipeopen, iref, f1, child, closing, ff, panicked>>
    BY <1>2 DEF OpenAlloc
  <2> QED
    BY <1>2, <2>1, AllocFirstIInv
<1>3. CASE OpenAlloc(p) /\ Goto(p, "open_bad") /\ UNCHANGED <<ref, f0>>
  <2>1. /\ pc[p] = "open" /\ pc' = [pc EXCEPT ![p] = "open_bad"]
        /\ UNCHANGED <<ref, type, pipe, ofile, pipeopen, f0, f1, child, closing, ff, panicked>>
        /\ iref' = iref /\ iref \in Nat /\ pc \in [Proc -> PC]
        /\ child \in [Proc -> Proc \cup {NoProc}]
    BY <1>3 DEF OpenAlloc, IInv, TypeOK
  <2>2. pc' \in [Proc -> PC] /\ child' \in [Proc -> Proc \cup {NoProc}]
    BY <2>1 DEF PC
  <2>3. \A q \in Proc : pc'[q] = pc[q] \/
           (pc[q] \notin LocalPC \cup {"open_set", "dup"}
              /\ pc'[q] \notin LocalPC \cup {"open_set", "dup"})
    BY <2>1 DEF LocalPC
  <2>4. /\ \A q \in Proc : pc'[q] = "fork" => child'[q] \in Proc /\ pc'[child'[q]] = "embryo"
        /\ \A q, r \in Proc :
             (pc'[q] = "fork" /\ pc'[r] = "fork" /\ child'[q] = child'[r]) => q = r
    BY <2>1 DEF IInv, PlaceInv
  <2>5. Opens = Opens'
    BY <2>1 DEF Opens, OpenPC
  <2>6. iref' \in Int /\ iref' + One(p \in Opens) = iref + One(p \in Opens')
    BY <2>1, <2>5 DEF One
  <2> QED
    BY <2>1, <2>2, <2>3, <2>4, <2>5, <2>6, MoveIInv
<1>4. ASSUME PipeAlloc1(p), NEW f \in FreeFiles, FileAlloc(p, f1, f),
             Goto(p, "pipe_kalloc"), UNCHANGED <<f0, closing>>
      PROVE  IInv'
  <2>1. /\ pc[p] = "pipe" /\ pc' = [pc EXCEPT ![p] = "pipe_kalloc"]
        /\ UNCHANGED <<type, pipe, ofile, pipeopen, iref, f0, child, closing, ff, panicked>>
    BY <1>4 DEF PipeAlloc1
  <2> QED
    BY <1>4, <2>1, AllocSecondIInv
<1>5. CASE OpenAlloc(p)
  BY <1>5, <1>2, <1>3 DEF OpenAlloc
<1> QED
  BY <1>1, <1>4, <1>5

-----------------------------------------------------------------------------
(***************************************************************************)
(* Steps that move a reference                                             *)
(***************************************************************************)
\* A descriptor that was free becomes one of f.
LEMMA DescAdd ==
  ASSUME TypeOK, NEW p \in Proc, NEW k \in FD, NEW f \in File, ofile[p][k] = NoFile,
         ofile' = [ofile EXCEPT ![p][k] = f]
  PROVE  /\ ofile' \in [Proc -> [FD -> File \cup {NoFile}]]
         /\ \A q \in Proc, d \in FD :
              ofile'[q][d] = IF q = p /\ d = k THEN f ELSE ofile[q][d]
         /\ \A g \in File : /\ Descs(g) \ {<<p, k>>} = Descs(g)' \ {<<p, k>>}
                            /\ <<p, k>> \notin Descs(g)
                            /\ <<p, k>> \in Descs(g)' <=> g = f
<1>1. ofile \in [Proc -> [FD -> File \cup {NoFile}]] /\ NoFile \notin File
  BY FileTableAssumption DEF TypeOK
<1>2. \A q \in Proc, d \in FD : ofile'[q][d] = IF q = p /\ d = k THEN f ELSE ofile[q][d]
  BY <1>1
<1>3. ofile' \in [Proc -> [FD -> File \cup {NoFile}]]
  BY <1>1
<1>4. ASSUME NEW g \in File
      PROVE  /\ Descs(g) \ {<<p, k>>} = Descs(g)' \ {<<p, k>>}
             /\ <<p, k>> \notin Descs(g)
             /\ <<p, k>> \in Descs(g)' <=> g = f
  BY <1>1, <1>2 DEF Descs
<1> QED
  BY <1>2, <1>3, <1>4

\* A descriptor of f becomes free.
LEMMA DescDrop ==
  ASSUME TypeOK, NEW p \in Proc, NEW k \in FD, NEW f \in File, ofile[p][k] = f,
         ofile' = [ofile EXCEPT ![p][k] = NoFile]
  PROVE  /\ ofile' \in [Proc -> [FD -> File \cup {NoFile}]]
         /\ \A q \in Proc, d \in FD :
              ofile'[q][d] = IF q = p /\ d = k THEN NoFile ELSE ofile[q][d]
         /\ \A g \in File : /\ Descs(g) \ {<<p, k>>} = Descs(g)' \ {<<p, k>>}
                            /\ <<p, k>> \in Descs(g) <=> g = f
                            /\ <<p, k>> \notin Descs(g)'
<1>1. ofile \in [Proc -> [FD -> File \cup {NoFile}]] /\ NoFile \notin File
  BY FileTableAssumption DEF TypeOK
<1>2. \A q \in Proc, d \in FD : ofile'[q][d] = IF q = p /\ d = k THEN NoFile ELSE ofile[q][d]
  BY <1>1
<1>3. ofile' \in [Proc -> [FD -> File \cup {NoFile}]]
  BY <1>1
<1>4. ASSUME NEW g \in File
      PROVE  /\ Descs(g) \ {<<p, k>>} = Descs(g)' \ {<<p, k>>}
             /\ <<p, k>> \in Descs(g) <=> g = f
             /\ <<p, k>> \notin Descs(g)'
  BY <1>1, <1>2 DEF Descs
<1> QED
  BY <1>2, <1>3, <1>4

\* A process is going to fileclose() one file.
LEMMA ClosingOne ==
  ASSUME TypeOK, NEW p \in Proc, NEW f \in File, closing[p] = <<>>,
         closing' = [closing EXCEPT ![p] = <<f>>]
  PROVE  /\ closing' \in [Proc -> Seq(File)]
         /\ \A q \in Proc : closing'[q] = IF q = p THEN <<f>> ELSE closing[q]
         /\ \A g \in File : /\ Closings(g) \ {<<p, 1>>} = Closings(g)' \ {<<p, 1>>}
                            /\ <<p, 1>> \notin Closings(g)
                            /\ <<p, 1>> \in Closings(g)' <=> g = f
<1>1. closing \in [Proc -> Seq(File)] /\ <<f>> \in Seq(File)
  BY DEF TypeOK
<1>2. \A q \in Proc : closing'[q] = IF q = p THEN <<f>> ELSE closing[q]
  BY <1>1
<1>3. closing' \in [Proc -> Seq(File)]
  BY <1>1
<1>4. Len(<<f>>) = 1 /\ <<f>>[1] = f /\ Len(closing[p]) = 0
  OBVIOUS
<1>5. ASSUME NEW g \in File
      PROVE  /\ Closings(g) \ {<<p, 1>>} = Closings(g)' \ {<<p, 1>>}
             /\ <<p, 1>> \notin Closings(g)
             /\ <<p, 1>> \in Closings(g)' <=> g = f
  <2>1. <<p, 1>> \notin Closings(g) /\ <<p, 2>> \notin Closings(g)
    BY <1>4 DEF Closings
  <2>2. (<<p, 1>> \in Closings(g)' <=> g = f) /\ <<p, 2>> \notin Closings(g)'
    BY <1>2, <1>4 DEF Closings
  <2>3. \A q \in Proc, i \in {1, 2} :
          q # p => (<<q, i>> \in Closings(g) <=> <<q, i>> \in Closings(g)')
    BY <1>2 DEF Closings
  <2>4. Closings(g) \subseteq Proc \X {1, 2} /\ Closings(g)' \subseteq Proc \X {1, 2}
    BY DEF Closings
  <2>5. ASSUME NEW c \in Proc \X {1, 2}, c # <<p, 1>>
        PROVE  c \in Closings(g) <=> c \in Closings(g)'
    <3>1. PICK q \in Proc, i \in {1, 2} : c = <<q, i>>
      OBVIOUS
    <3> QED
      BY <3>1, <2>1, <2>2, <2>3, <2>5
  <2> QED
    BY <2>1, <2>2, <2>4, <2>5
<1> QED
  BY <1>2, <1>3, <1>5

\* Two files, to be closed one after the other.
LEMMA TwoFiles ==
  ASSUME NEW f, NEW h, f # h
  PROVE  Len(<<f, h>>) <= 2 /\ <<f, h>>[1] # <<f, h>>[2]
OBVIOUS

\* "goto bad" with two files.
LEMMA ClosingTwo ==
  ASSUME TypeOK, NEW p \in Proc, NEW f \in File, NEW h \in File, f # h, closing[p] = <<>>,
         closing' = [closing EXCEPT ![p] = <<f, h>>]
  PROVE  /\ closing' \in [Proc -> Seq(File)]
         /\ \A q \in Proc : closing'[q] = IF q = p THEN <<f, h>> ELSE closing[q]
         /\ \A g \in File : g # h => /\ Closings(g) \ {<<p, 1>>} = Closings(g)' \ {<<p, 1>>}
                                     /\ <<p, 1>> \notin Closings(g)
                                     /\ <<p, 1>> \in Closings(g)' <=> g = f
         /\ /\ Closings(h) \ {<<p, 2>>} = Closings(h)' \ {<<p, 2>>}
            /\ <<p, 2>> \notin Closings(h)
            /\ <<p, 2>> \in Closings(h)'
<1>1. closing \in [Proc -> Seq(File)] /\ <<f, h>> \in Seq(File)
  BY DEF TypeOK
<1>2. \A q \in Proc : closing'[q] = IF q = p THEN <<f, h>> ELSE closing[q]
  BY <1>1
<1>3. closing' \in [Proc -> Seq(File)]
  BY <1>1
<1>4. Len(<<f, h>>) = 2 /\ <<f, h>>[1] = f /\ <<f, h>>[2] = h /\ Len(closing[p]) = 0
  OBVIOUS
<1>5. ASSUME NEW g \in File
      PROVE  /\ <<p, 1>> \notin Closings(g) /\ <<p, 2>> \notin Closings(g)
             /\ <<p, 1>> \in Closings(g)' <=> g = f
             /\ <<p, 2>> \in Closings(g)' <=> g = h
             /\ \A c \in Proc \X {1, 2} : (c # <<p, 1>> /\ c # <<p, 2>>) =>
                  (c \in Closings(g) <=> c \in Closings(g)')
             /\ Closings(g) \subseteq Proc \X {1, 2} /\ Closings(g)' \subseteq Proc \X {1, 2}
  <2>1. <<p, 1>> \notin Closings(g) /\ <<p, 2>> \notin Closings(g)
    BY <1>4 DEF Closings
  <2>2. (<<p, 1>> \in Closings(g)' <=> g = f) /\ (<<p, 2>> \in Closings(g)' <=> g = h)
    BY <1>2, <1>4 DEF Closings
  <2>3. \A q \in Proc, i \in {1, 2} :
          q # p => (<<q, i>> \in Closings(g) <=> <<q, i>> \in Closings(g)')
    BY <1>2 DEF Closings
  <2>4. Closings(g) \subseteq Proc \X {1, 2} /\ Closings(g)' \subseteq Proc \X {1, 2}
    BY DEF Closings
  <2>5. ASSUME NEW c \in Proc \X {1, 2}, c # <<p, 1>>, c # <<p, 2>>
        PROVE  c \in Closings(g) <=> c \in Closings(g)'
    <3>1. PICK q \in Proc, i \in {1, 2} : c = <<q, i>>
      OBVIOUS
    <3> QED
      BY <3>1, <2>3, <2>5
  <2> QED
    BY <2>1, <2>2, <2>4, <2>5
<1>6. ASSUME NEW g \in File, g # h
      PROVE  /\ Closings(g) \ {<<p, 1>>} = Closings(g)' \ {<<p, 1>>}
             /\ <<p, 1>> \notin Closings(g)
             /\ <<p, 1>> \in Closings(g)' <=> g = f
  BY <1>5, <1>6
<1>7. /\ Closings(h) \ {<<p, 2>>} = Closings(h)' \ {<<p, 2>>}
      /\ <<p, 2>> \notin Closings(h)
      /\ <<p, 2>> \in Closings(h)'
  BY <1>5
<1> QED
  BY <1>2, <1>3, <1>6, <1>7

\* sys_open() finds no descriptor, or pipealloc() no second file: f0 goes to
\* fileclose().
LEMMA GiveUpOneIInv ==
  ASSUME IInv, NEW p \in Proc, closing[p] = <<>>,
         \/ pc[p] = "open_fd" /\ pc' = [pc EXCEPT ![p] = "open_bad"]
         \/ pc[p] = "pipe" /\ pc' = [pc EXCEPT ![p] = "idle"],
         closing' = [closing EXCEPT ![p] = <<f0[p]>>],
         f0' = [f0 EXCEPT ![p] = NoFile],
         UNCHANGED <<ref, type, pipe, ofile, pipeopen, iref, f1, child, ff, panicked>>
  PROVE  IInv'
<1> USE DEF IInv
<1>1. /\ pc[p] \in {"open_fd", "pipe"} /\ pc \in [Proc -> PC]
      /\ f0 \in [Proc -> File \cup {NoFile}] /\ ref \in [File -> Nat]
  BY DEF TypeOK
<1>2. PICK f \in File : f = f0[p] /\ \A q \in Proc : q # p => f0[q] # f
  BY <1>1, Private DEF LocalPC
<1>3. /\ closing' \in [Proc -> Seq(File)]
      /\ \A q \in Proc : closing'[q] = IF q = p THEN <<f>> ELSE closing[q]
      /\ \A g \in File : /\ Closings(g) \ {<<p, 1>>} = Closings(g)' \ {<<p, 1>>}
                         /\ <<p, 1>> \notin Closings(g)
                         /\ <<p, 1>> \in Closings(g)' <=> g = f
  BY <1>2, ClosingOne
<1>4. /\ \A q \in Proc : q # p => f0'[q] = f0[q] /\ pc'[q] = pc[q]
      /\ f0'[p] = NoFile /\ pc'[p] \in {"open_bad", "idle"}
  BY <1>1
<1>5. PlaceInv'
  <2>1. \A q \in Proc : f0'[q] # NoFile <=> pc'[q] \in LocalPC \cup {"open_set", "dup"}
    BY <1>4 DEF PlaceInv, LocalPC
  <2>2. \A q \in Proc : f1'[q] # NoFile <=> pc'[q] \in {"pipe_kalloc", "pipe_fd"}
    BY <1>1, <1>4 DEF PlaceInv
  <2>3. \A q \in Proc : pc'[q] = "dup" =>
          \E d, e \in FD : d # e /\ ofile'[q][d] = f0'[q] /\ ofile'[q][e] = f0'[q]
    BY <1>4 DEF PlaceInv
  <2>4. \A q \in Proc : pc'[q] = "fork" => child'[q] \in Proc /\ pc'[child'[q]] = "embryo"
    BY <1>1, <1>4 DEF PlaceInv
  <2>5. \A q, r \in Proc :
          (pc'[q] = "fork" /\ pc'[r] = "fork" /\ child'[q] = child'[r]) => q = r
    BY <1>4 DEF PlaceInv
  <2>6. \A q \in Proc : Len(closing'[q]) <= 2
          /\ (Len(closing'[q]) = 2 => closing'[q][1] # closing'[q][2])
    BY <1>3 DEF PlaceInv
  <2> QED
    BY <2>1, <2>2, <2>3, <2>4, <2>5, <2>6 DEF PlaceInv
<1>6. \A g \in File : Exact(g)'
  <2> SUFFICES ASSUME NEW g \in File PROVE Exact(g)'
    OBVIOUS
  <2>1. Descs(g)' = Descs(g) /\ Seconds(g)' = Seconds(g)
    BY DEF Descs, Seconds
  <2>2. /\ Locals(g) \ {p} = Locals(g)' \ {p} /\ p \notin Locals(g)'
        /\ p \in Locals(g) <=> g = f
    BY <1>1, <1>2, <1>4 DEF Locals, LocalPC
  <2>3. Dups(g)' = Dups(g)
    BY <1>1, <1>4 DEF Dups
  <2>4. ref'[g] \in Nat /\ ref'[g] = ref[g]
    BY <1>1
  <2>5. /\ One(p \in Locals(g)') = 0 /\ One(p \in Locals(g)) = One(g = f)
        /\ One(<<p, 1>> \in Closings(g)) = 0 /\ One(<<p, 1>> \in Closings(g)') = One(g = f)
        /\ One(g = f) \in Nat
    BY <1>3, <2>2 DEF One
  <2>6. /\ One(<<p, 1>> \in Descs(g)) \in Nat /\ One(p \in Seconds(g)) \in Nat
        /\ One(p \in Dups(g)) \in Nat
    BY DEF One
  <2>7. ref'[g] + (One(<<p, 1>> \in Descs(g)) + One(p \in Locals(g)) + One(p \in Seconds(g))
                    + One(<<p, 1>> \in Closings(g)) + One(p \in Dups(g)'))
           = ref[g] + (One(<<p, 1>> \in Descs(g)') + One(p \in Locals(g)')
                       + One(p \in Seconds(g)')
                       + One(<<p, 1>> \in Closings(g)') + One(p \in Dups(g)))
    BY <2>1, <2>3, <2>4, <2>5, <2>6
  <2>8. /\ Descs(g) \ {<<p, 1>>} = Descs(g)' \ {<<p, 1>>}
        /\ Seconds(g) \ {p} = Seconds(g)' \ {p}
        /\ Dups(g) \ {p} = Dups(g)' \ {p}
        /\ Closings(g) \ {<<p, 1>>} = Closings(g)' \ {<<p, 1>>}
    BY <1>3, <2>1, <2>3
  <2>9. TypeOK /\ CountInv
    OBVIOUS
  <2> HIDE DEF IInv
  <2> QED
    BY <2>2, <2>4, <2>7, <2>8, <2>9, ExactStep
<1>7. CountInv'
  <2>1. Inodes' = Inodes /\ Opens' = Opens /\ Iputs' = Iputs
    <3>1. CASE pc[p] = "open_fd" /\ pc' = [pc EXCEPT ![p] = "open_bad"]
      BY <3>1, <1>1 DEF Inodes, Opens, Iputs, OpenPC
    <3>2. CASE pc[p] = "pipe" /\ pc' = [pc EXCEPT ![p] = "idle"]
      BY <3>2, <1>1 DEF Inodes, Opens, Iputs, OpenPC
    <3> QED
      BY <3>1, <3>2
  <2> QED
    BY <1>6, <2>1 DEF CountInv
<1>8. TypeOK'
  BY <1>1, <1>3 DEF TypeOK, PC
<1>9. SetupInv'
  BY <1>1, <1>4 DEF SetupInv, LocalPC
<1>10. EndInv'
  BY EndStep
<1> QED
  BY <1>5, <1>7, <1>8, <1>9, <1>10

\* pipealloc() finds no page, or sys_pipe() no two descriptors: both files go to
\* fileclose().
LEMMA GiveUpTwoIInv ==
  ASSUME IInv, NEW p \in Proc, closing[p] = <<>>, pc[p] \in {"pipe_kalloc", "pipe_fd"},
         GiveUp(p, <<f0[p], f1[p]>>),
         UNCHANGED <<ref, type, pipe, ofile, pipeopen, iref, child, ff, panicked>>
  PROVE  IInv'
<1> USE DEF IInv
<1>1. /\ pc \in [Proc -> PC] /\ ref \in [File -> Nat]
      /\ f0 \in [Proc -> File \cup {NoFile}] /\ f1 \in [Proc -> File \cup {NoFile}]
      /\ pc' = [pc EXCEPT ![p] = "idle"] /\ f0' = [f0 EXCEPT ![p] = NoFile]
      /\ f1' = [f1 EXCEPT ![p] = NoFile]
      /\ closing' = [closing EXCEPT ![p] = <<f0[p], f1[p]>>]
      /\ NoFile \notin File
  BY FileTableAssumption DEF TypeOK, GiveUp, Goto
<1>2. PICK f \in File, h \in File : f = f0[p] /\ h = f1[p] /\ f # h
  BY Private, PrivateSecond DEF LocalPC
<1>3. /\ closing' \in [Proc -> Seq(File)]
      /\ \A q \in Proc : closing'[q] = IF q = p THEN <<f, h>> ELSE closing[q]
      /\ \A g \in File : g # h => /\ Closings(g) \ {<<p, 1>>} = Closings(g)' \ {<<p, 1>>}
                                  /\ <<p, 1>> \notin Closings(g)
                                  /\ <<p, 1>> \in Closings(g)' <=> g = f
      /\ /\ Closings(h) \ {<<p, 2>>} = Closings(h)' \ {<<p, 2>>}
         /\ <<p, 2>> \notin Closings(h)
         /\ <<p, 2>> \in Closings(h)'
  <2>1. /\ TypeOK /\ closing[p] = <<>> /\ f # h
        /\ closing' = [closing EXCEPT ![p] = <<f, h>>]
    BY <1>1, <1>2
  <2> HIDE DEF IInv
  <2> QED
    BY <2>1, ClosingTwo
<1>4. /\ \A q \in Proc : q # p => f0'[q] = f0[q] /\ f1'[q] = f1[q] /\ pc'[q] = pc[q]
      /\ f0'[p] = NoFile /\ f1'[p] = NoFile /\ pc'[p] = "idle"
  BY <1>1
<1>5. PlaceInv'
  <2>1. \A q \in Proc : f0'[q] # NoFile <=> pc'[q] \in LocalPC \cup {"open_set", "dup"}
    BY <1>4 DEF PlaceInv, LocalPC
  <2>2. \A q \in Proc : f1'[q] # NoFile <=> pc'[q] \in {"pipe_kalloc", "pipe_fd"}
    BY <1>4 DEF PlaceInv
  <2>3. \A q \in Proc : pc'[q] = "dup" =>
          \E d, e \in FD : d # e /\ ofile'[q][d] = f0'[q] /\ ofile'[q][e] = f0'[q]
    BY <1>4 DEF PlaceInv
  <2>4. \A q \in Proc : pc'[q] = "fork" => child'[q] \in Proc /\ pc'[child'[q]] = "embryo"
    BY <1>1, <1>4 DEF PlaceInv
  <2>5. \A q, r \in Proc :
          (pc'[q] = "fork" /\ pc'[r] = "fork" /\ child'[q] = child'[r]) => q = r
    BY <1>4 DEF PlaceInv
  <2>6. \A q \in Proc : Len(closing'[q]) <= 2
          /\ (Len(closing'[q]) = 2 => closing'[q][1] # closing'[q][2])
    <3> SUFFICES ASSUME NEW q \in Proc
                 PROVE  Len(closing'[q]) <= 2
                        /\ (Len(closing'[q]) = 2 => closing'[q][1] # closing'[q][2])
      OBVIOUS
    <3>1. CASE q = p
      <4>1. closing'[q] = <<f, h>> /\ f # h
        BY <3>1, <1>2, <1>3
      <4> QED
        BY <4>1, TwoFiles
    <3>2. CASE q # p
      <4>1. closing'[q] = closing[q]
        BY <3>2, <1>3
      <4> QED
        BY <4>1 DEF PlaceInv
    <3> QED
      BY <3>1, <3>2
  <2> QED
    BY <2>1, <2>2, <2>3, <2>4, <2>5, <2>6 DEF PlaceInv
<1>6. \A g \in File : Exact(g)'
  <2> SUFFICES ASSUME NEW g \in File PROVE Exact(g)'
    OBVIOUS
  <2>1. PICK c \in Proc \X {1, 2} :
          /\ Closings(g) \ {c} = Closings(g)' \ {c} /\ c \notin Closings(g)
          /\ c \in Closings(g)' <=> (g = f \/ g = h)
    <3>1. CASE g = h
      <4>1. <<p, 2>> \in Proc \X {1, 2}
        OBVIOUS
      <4> QED
        BY <3>1, <4>1, <1>3
    <3>2. CASE g # h
      <4>1. <<p, 1>> \in Proc \X {1, 2}
        OBVIOUS
      <4> QED
        BY <3>2, <4>1, <1>3
    <3> QED
      BY <3>1, <3>2
  <2>2. /\ Locals(g) \ {p} = Locals(g)' \ {p} /\ p \notin Locals(g)'
        /\ p \in Locals(g) <=> g = f
    BY <1>1, <1>2, <1>4 DEF Locals, LocalPC
  <2>3. /\ Seconds(g) \ {p} = Seconds(g)' \ {p} /\ p \notin Seconds(g)'
        /\ p \in Seconds(g) <=> g = h
    BY <1>1, <1>2, <1>4 DEF Seconds
  <2>4. Dups(g)' = Dups(g) /\ Descs(g)' = Descs(g)
    BY <1>1, <1>4 DEF Dups, Descs
  <2>5. ref'[g] \in Nat /\ ref'[g] = ref[g]
    BY <1>1
  <2>6. /\ One(p \in Locals(g)') = 0 /\ One(p \in Locals(g)) = One(g = f)
        /\ One(p \in Seconds(g)') = 0 /\ One(p \in Seconds(g)) = One(g = h)
        /\ One(c \in Closings(g)) = 0 /\ One(c \in Closings(g)') = One(g = f) + One(g = h)
        /\ One(g = f) \in Nat /\ One(g = h) \in Nat
    BY <1>2, <2>1, <2>2, <2>3 DEF One
  <2>7. One(c \in Descs(g)) \in Nat /\ One(p \in Dups(g)) \in Nat
    BY DEF One
  <2>8. ref'[g] + (One(c \in Descs(g)) + One(p \in Locals(g)) + One(p \in Seconds(g))
                    + One(c \in Closings(g)) + One(p \in Dups(g)'))
           = ref[g] + (One(c \in Descs(g)') + One(p \in Locals(g)') + One(p \in Seconds(g)')
                       + One(c \in Closings(g)') + One(p \in Dups(g)))
    BY <2>4, <2>5, <2>6, <2>7
  <2> QED
    BY <2>1, <2>2, <2>3, <2>4, <2>5, <2>8, ExactStep
<1>7. CountInv'
  <2>1. Inodes' = Inodes /\ Opens' = Opens /\ Iputs' = Iputs
    BY <1>1, <1>4 DEF Inodes, Opens, Iputs, OpenPC
  <2> QED
    BY <1>6, <2>1 DEF CountInv
<1>8. TypeOK'
  BY <1>1, <1>3 DEF TypeOK, PC
<1>9. SetupInv'
  <2>1. \A q \in Proc : pc'[q] \in {"pipe_kalloc", "pipe_fd"}
          => q # p /\ pc[q] = pc'[q] /\ f1'[q] = f1[q] /\ f0'[q] = f0[q]
    BY <1>4
  <2>2. \A q \in Proc : pc'[q] \in {"open_fd", "open_set", "pipe", "pipe_kalloc", "pipe_fd"}
          => q # p /\ pc[q] = pc'[q] /\ f0'[q] = f0[q]
    BY <1>4
  <2>3. pc[p] # "open_set"
    OBVIOUS
  <2>4. UNCHANGED <<ref, type, ofile>>
    OBVIOUS
  <2>5. SetupInv /\ \A q \in Proc : q # p => pc'[q] = pc[q] /\ f0'[q] = f0[q]
    BY <1>4
  <2> HIDE DEF IInv
  <2> QED
    BY <2>1, <2>2, <2>3, <2>4, <2>5 DEF SetupInv, LocalPC
<1>10. EndInv'
  BY EndStep
<1> QED
  BY <1>5, <1>7, <1>8, <1>9, <1>10

\* close(), and exit() for one descriptor after the other.
LEMMA CloseIInv ==
  ASSUME IInv, NEW p \in Proc, NEW k \in FD, closing[p] = <<>>, ofile[p][k] # NoFile,
         pc[p] \in {"idle", "exit"},
         ofile' = [ofile EXCEPT ![p][k] = NoFile],
         closing' = [closing EXCEPT ![p] = <<ofile[p][k]>>],
         UNCHANGED <<ref, type, pipe, pipeopen, iref, pc, f0, f1, child, ff, panicked>>
  PROVE  IInv'
<1> USE DEF IInv
<1>1. PICK f \in File : f = ofile[p][k]
  BY DEF TypeOK
<1>2. /\ closing' \in [Proc -> Seq(File)]
      /\ \A q \in Proc : closing'[q] = IF q = p THEN <<f>> ELSE closing[q]
      /\ \A g \in File : /\ Closings(g) \ {<<p, 1>>} = Closings(g)' \ {<<p, 1>>}
                         /\ <<p, 1>> \notin Closings(g)
                         /\ <<p, 1>> \in Closings(g)' <=> g = f
  BY <1>1, ClosingOne
<1>3. /\ ofile' \in [Proc -> [FD -> File \cup {NoFile}]]
      /\ \A q \in Proc, d \in FD :
           ofile'[q][d] = IF q = p /\ d = k THEN NoFile ELSE ofile[q][d]
      /\ \A g \in File : /\ Descs(g) \ {<<p, k>>} = Descs(g)' \ {<<p, k>>}
                         /\ <<p, k>> \in Descs(g) <=> g = f
                         /\ <<p, k>> \notin Descs(g)'
  <2>1. TypeOK /\ ofile[p][k] = f /\ ofile' = [ofile EXCEPT ![p][k] = NoFile]
    BY <1>1
  <2> HIDE DEF IInv
  <2> QED
    BY <2>1, DescDrop, ZenonT(60)
<1>4. PlaceInv'
  <2>1. \A q \in Proc : pc'[q] = "dup" =>
          \E d, e \in FD : d # e /\ ofile'[q][d] = f0'[q] /\ ofile'[q][e] = f0'[q]
    BY <1>3 DEF PlaceInv
  <2>2. \A q \in Proc : Len(closing'[q]) <= 2
          /\ (Len(closing'[q]) = 2 => closing'[q][1] # closing'[q][2])
    BY <1>2 DEF PlaceInv
  <2> QED
    BY <2>1, <2>2 DEF PlaceInv
<1>5. \A g \in File : Exact(g)'
  <2> SUFFICES ASSUME NEW g \in File PROVE Exact(g)'
    OBVIOUS
  <2>1. Locals(g)' = Locals(g) /\ Seconds(g)' = Seconds(g) /\ Dups(g)' = Dups(g)
    BY DEF Locals, Seconds, Dups
  <2>2. ref'[g] \in Nat /\ ref'[g] = ref[g]
    BY DEF TypeOK
  <2>3. /\ One(<<p, k>> \in Descs(g)') = 0 /\ One(<<p, k>> \in Descs(g)) = One(g = f)
        /\ One(<<p, 1>> \in Closings(g)) = 0 /\ One(<<p, 1>> \in Closings(g)') = One(g = f)
        /\ One(g = f) \in Nat
    BY <1>2, <1>3 DEF One
  <2>4. /\ One(p \in Locals(g)) \in Nat /\ One(p \in Seconds(g)) \in Nat
        /\ One(p \in Dups(g)) \in Nat
    BY DEF One
  <2>5. ref'[g] + (One(<<p, k>> \in Descs(g)) + One(p \in Locals(g)) + One(p \in Seconds(g))
                    + One(<<p, 1>> \in Closings(g)) + One(p \in Dups(g)'))
           = ref[g] + (One(<<p, k>> \in Descs(g)') + One(p \in Locals(g)')
                       + One(p \in Seconds(g)')
                       + One(<<p, 1>> \in Closings(g)') + One(p \in Dups(g)))
    BY <2>1, <2>2, <2>3, <2>4
  <2> QED
    BY <1>2, <1>3, <2>1, <2>2, <2>5, ExactStep
<1>6. CountInv'
  <2>1. Inodes' = Inodes /\ Opens' = Opens /\ Iputs' = Iputs
    BY DEF Inodes, Opens, Iputs
  <2> QED
    BY <1>5, <2>1 DEF CountInv
<1>7. TypeOK'
  BY <1>2, <1>3 DEF TypeOK
<1>8. SetupInv'
  <2>1. /\ \A q \in Proc : pc[q] = "open_set" => \E d \in FD : ofile'[q][d] = f0[q]
        /\ \A q \in Proc, d \in FD : ofile'[q][d] = ofile[q][d] \/ ofile'[q][d] = NoFile
        /\ \A q \in Proc : pc[q] = "open_set" => f0[q] # NoFile
    BY <1>3 DEF SetupInv, PlaceInv
  <2> QED
    BY <2>1 DEF SetupInv
<1>9. EndInv'
  BY EndStep
<1> QED
  BY <1>4, <1>6, <1>7, <1>8, <1>9

\* The first free descriptor of a process.
LEMMA FreeFd ==
  ASSUME NEW p \in Proc, FreeFds(p) # {}
  PROVE  Smallest(FreeFds(p)) \in FD /\ ofile[p][Smallest(FreeFds(p))] = NoFile
<1>1. FreeFds(p) \in SUBSET FD
  BY DEF FreeFds
<1>2. Smallest(FreeFds(p)) \in FreeFds(p)
  BY <1>1, SmallestFd
<1> QED
  BY <1>2 DEF FreeFds

\* fdalloc() in sys_open(): the descriptor takes over the reference of f0.
LEMMA InstallIInv ==
  ASSUME IInv, NEW p \in Proc, NEW k \in FD, ofile[p][k] = NoFile,
         pc[p] = "open_fd", pc' = [pc EXCEPT ![p] = "open_set"],
         ofile' = [ofile EXCEPT ![p][k] = f0[p]],
         UNCHANGED <<ref, type, pipe, pipeopen, iref, f0, f1, child, closing, ff, panicked>>
  PROVE  IInv'
<1> USE DEF IInv
<1>1. PICK f \in File :
        /\ f = f0[p] /\ ref[f] = 1 /\ f # NoFile
        /\ \A q \in Proc, d \in FD : ofile[q][d] # f
        /\ \A q \in Proc : q # p => f0[q] # f
  BY Private DEF LocalPC
<1>2. /\ ofile' \in [Proc -> [FD -> File \cup {NoFile}]]
      /\ \A q \in Proc, d \in FD :
           ofile'[q][d] = IF q = p /\ d = k THEN f ELSE ofile[q][d]
      /\ \A g \in File : /\ Descs(g) \ {<<p, k>>} = Descs(g)' \ {<<p, k>>}
                         /\ <<p, k>> \notin Descs(g)
                         /\ <<p, k>> \in Descs(g)' <=> g = f
  <2>1. TypeOK /\ ofile[p][k] = NoFile /\ ofile' = [ofile EXCEPT ![p][k] = f]
    BY <1>1
  <2> HIDE DEF IInv
  <2>a. ofile \in [Proc -> [FD -> File \cup {NoFile}]]
    BY <2>1 DEF TypeOK
  <2>2. ofile' \in [Proc -> [FD -> File \cup {NoFile}]]
    BY <2>1, <2>a
  <2>3. \A q \in Proc, d \in FD :
          ofile'[q][d] = IF q = p /\ d = k THEN f ELSE ofile[q][d]
    BY <2>1, <2>a
  <2>4. \A g \in File : /\ Descs(g) \ {<<p, k>>} = Descs(g)' \ {<<p, k>>}
                        /\ <<p, k>> \notin Descs(g)
                        /\ <<p, k>> \in Descs(g)' <=> g = f
    BY <2>1, <2>3, FileTableAssumption DEF Descs
  <2> QED
    BY <2>2, <2>3, <2>4
<1>3. /\ pc \in [Proc -> PC] /\ pc'[p] = "open_set"
      /\ \A q \in Proc : q # p => pc'[q] = pc[q]
  BY DEF TypeOK
<1>4. PlaceInv'
  <2>1. \A q \in Proc : f0'[q] # NoFile <=> pc'[q] \in LocalPC \cup {"open_set", "dup"}
    BY <1>1, <1>3 DEF PlaceInv, LocalPC
  <2>2. \A q \in Proc : f1'[q] # NoFile <=> pc'[q] \in {"pipe_kalloc", "pipe_fd"}
    BY <1>3 DEF PlaceInv
  <2>3. \A q \in Proc : pc'[q] = "dup" =>
          \E d, e \in FD : d # e /\ ofile'[q][d] = f0'[q] /\ ofile'[q][e] = f0'[q]
    BY <1>2, <1>3 DEF PlaceInv
  <2>4. \A q \in Proc : pc'[q] = "fork" => child'[q] \in Proc /\ pc'[child'[q]] = "embryo"
    BY <1>3 DEF PlaceInv
  <2>5. \A q, r \in Proc :
          (pc'[q] = "fork" /\ pc'[r] = "fork" /\ child'[q] = child'[r]) => q = r
    BY <1>3 DEF PlaceInv
  <2> QED
    BY <2>1, <2>2, <2>3, <2>4, <2>5 DEF PlaceInv
<1>5. \A g \in File : Exact(g)'
  <2> SUFFICES ASSUME NEW g \in File PROVE Exact(g)'
    OBVIOUS
  <2>1. Seconds(g)' = Seconds(g) /\ Dups(g)' = Dups(g) /\ Closings(g)' = Closings(g)
    BY <1>3 DEF Seconds, Dups, Closings
  <2>2. /\ Locals(g) \ {p} = Locals(g)' \ {p} /\ p \notin Locals(g)'
        /\ p \in Locals(g) <=> g = f
    BY <1>1, <1>3 DEF Locals, LocalPC
  <2>3. ref'[g] \in Nat /\ ref'[g] = ref[g]
    BY DEF TypeOK
  <2>4. /\ One(<<p, k>> \in Descs(g)) = 0 /\ One(<<p, k>> \in Descs(g)') = One(g = f)
        /\ One(p \in Locals(g)') = 0 /\ One(p \in Locals(g)) = One(g = f)
        /\ One(g = f) \in Nat
    BY <1>2, <2>2 DEF One
  <2>5. /\ One(p \in Seconds(g)) \in Nat /\ One(<<p, 1>> \in Closings(g)) \in Nat
        /\ One(p \in Dups(g)) \in Nat
    BY DEF One
  <2>6. ref'[g] + (One(<<p, k>> \in Descs(g)) + One(p \in Locals(g)) + One(p \in Seconds(g))
                    + One(<<p, 1>> \in Closings(g)) + One(p \in Dups(g)'))
           = ref[g] + (One(<<p, k>> \in Descs(g)') + One(p \in Locals(g)')
                       + One(p \in Seconds(g)')
                       + One(<<p, 1>> \in Closings(g)') + One(p \in Dups(g)))
    BY <2>1, <2>3, <2>4, <2>5
  <2> QED
    BY <1>2, <2>1, <2>2, <2>3, <2>6, ExactStep
<1>6. CountInv'
  <2>1. Inodes' = Inodes /\ Opens' = Opens /\ Iputs' = Iputs
    BY <1>3 DEF Inodes, Opens, Iputs, OpenPC
  <2> QED
    BY <1>5, <2>1 DEF CountInv
<1>7. TypeOK'
  BY <1>2 DEF TypeOK, PC
<1>8. SetupInv'
  <2>1. /\ \A q \in Proc : pc'[q] = "open_set" => \E d \in FD : ofile'[q][d] = f0'[q]
        /\ \A q, r \in Proc, d \in FD :
             (pc'[q] = "open_set" /\ ofile'[r][d] = f0'[q]) => r = q
    BY <1>1, <1>2, <1>3 DEF SetupInv
  <2>2. \A q \in Proc, d \in FD : (ofile'[q][d] # NoFile /\ type'[ofile'[q][d]] = "NONE")
          => pc'[q] = "open_set" /\ f0'[q] = ofile'[q][d]
    BY <1>1, <1>2, <1>3 DEF SetupInv
  <2>3. /\ \A g \in File : ref'[g] = 0 => type'[g] = "NONE"
        /\ \A q \in Proc : pc'[q] \in LocalPC \cup {"open_set"} => ref'[f0'[q]] = 1
        /\ \A q \in Proc : pc'[q] \in {"pipe_kalloc", "pipe_fd"} => ref'[f1'[q]] = 1
        /\ \A q \in Proc : pc'[q] \in {"open_fd", "open_set", "pipe", "pipe_kalloc"}
             => type'[f0'[q]] = "NONE"
        /\ \A q \in Proc : pc'[q] = "pipe_kalloc" => type'[f1'[q]] = "NONE"
        /\ \A q \in Proc : pc'[q] = "pipe_fd" => type'[f0'[q]] # "NONE" /\ type'[f1'[q]] # "NONE"
    BY <1>3 DEF SetupInv, LocalPC
  <2> QED
    BY <2>1, <2>2, <2>3 DEF SetupInv
<1>9. EndInv'
  BY EndStep
<1> QED
  BY <1>4, <1>6, <1>7, <1>8, <1>9

\* The other outcome of OpenFd is a close.
LEMMA OpenFdIInv ==
  ASSUME IInv, NEW p \in Proc, OpenFd(p)
  PROVE  IInv'
<1>1. /\ pc[p] = "open_fd" /\ closing[p] = <<>>
      /\ UNCHANGED <<ref, type, pipe, pipeopen, iref, f1, child, ff, panicked>>
  BY DEF OpenFd, At, ftable
<1>2. CASE FreeFds(p) = {}
  <2>1. /\ closing' = [closing EXCEPT ![p] = <<f0[p]>>] /\ f0' = [f0 EXCEPT ![p] = NoFile]
        /\ pc' = [pc EXCEPT ![p] = "open_bad"] /\ ofile' = ofile
    BY <1>2 DEF OpenFd, Goto
  <2> QED
    BY <1>1, <2>1, GiveUpOneIInv
<1>3. CASE FreeFds(p) # {}
  <2>1. PICK k \in FD : k = Smallest(FreeFds(p)) /\ ofile[p][k] = NoFile
    BY <1>3, FreeFd
  <2>2. /\ ofile' = [ofile EXCEPT ![p][k] = f0[p]] /\ pc' = [pc EXCEPT ![p] = "open_set"]
        /\ UNCHANGED <<closing, f0>>
    BY <1>3, <2>1 DEF OpenFd, Goto
  <2> QED
    BY <1>1, <2>1, <2>2, InstallIInv
<1> QED
  BY <1>2, <1>3

\* sys_open() fills in the file, whose one descriptor nobody else can have.
LEMMA OpenSetIInv ==
  ASSUME IInv, NEW p \in Proc, OpenSet(p)
  PROVE  IInv'
<1> USE DEF IInv
<1>1. /\ pc[p] = "open_set" /\ pc' = [pc EXCEPT ![p] = "idle"]
      /\ type' = [type EXCEPT ![f0[p]] = "INODE"] /\ f0' = [f0 EXCEPT ![p] = NoFile]
      /\ UNCHANGED <<ref, pipe, ofile, pipeopen, iref, f1, child, closing, ff, panicked>>
      /\ pc \in [Proc -> PC] /\ type \in [File -> Type]
      /\ f0 \in [Proc -> File \cup {NoFile}]
  BY DEF OpenSet, At, Goto, TypeOK
<1>2. PICK f \in File : f = f0[p] /\ f # NoFile /\ ref[f] = 1 /\ type[f] = "NONE"
  BY <1>1 DEF PlaceInv, TypeOK, SetupInv
<1>3. PICK k \in FD : ofile[p][k] = f
  BY <1>1, <1>2 DEF SetupInv
<1>4. Locals(f) = {} /\ Seconds(f) = {}
  <2>1. <<p, k>> \in Descs(f)
    BY <1>3 DEF Descs
  <2> QED
    BY <2>1, <1>2, Sole
<1>5. /\ \A q \in Proc : q # p => pc'[q] = pc[q] /\ f0'[q] = f0[q]
      /\ pc'[p] = "idle" /\ f0'[p] = NoFile
      /\ \A g \in File : g # f => type'[g] = type[g]
      /\ type'[f] = "INODE"
  BY <1>1, <1>2
<1>6. \A q \in Proc : /\ (pc'[q] \in LocalPC \cup {"open_set"} => f0[q] # f /\ q # p)
                      /\ f1[q] # f
  <2>1. \A q \in Proc : pc'[q] \in LocalPC => f0[q] # f /\ q # p
    BY <1>4, <1>5 DEF Locals, LocalPC
  <2>2. \A q \in Proc : pc'[q] = "open_set" => f0[q] # f /\ q # p
    BY <1>1, <1>3, <1>5 DEF SetupInv
  <2>3. \A q \in Proc : f1[q] # f
    BY <1>4 DEF Seconds
  <2> QED
    BY <2>1, <2>2, <2>3
<1>7. PlaceInv'
  <2>1. \A q \in Proc : f0'[q] # NoFile <=> pc'[q] \in LocalPC \cup {"open_set", "dup"}
    BY <1>5 DEF PlaceInv, LocalPC
  <2>2. \A q \in Proc : f1'[q] # NoFile <=> pc'[q] \in {"pipe_kalloc", "pipe_fd"}
    BY <1>1, <1>5 DEF PlaceInv
  <2>3. \A q \in Proc : pc'[q] = "dup" =>
          \E d, e \in FD : d # e /\ ofile'[q][d] = f0'[q] /\ ofile'[q][e] = f0'[q]
    BY <1>1, <1>5 DEF PlaceInv
  <2>4. \A q \in Proc : pc'[q] = "fork" => child'[q] \in Proc /\ pc'[child'[q]] = "embryo"
    BY <1>1, <1>5 DEF PlaceInv
  <2>5. \A q, r \in Proc :
          (pc'[q] = "fork" /\ pc'[r] = "fork" /\ child'[q] = child'[r]) => q = r
    BY <1>1, <1>5 DEF PlaceInv
  <2> QED
    BY <2>1, <2>2, <2>3, <2>4, <2>5, <1>1 DEF PlaceInv
<1>8. \A g \in File : Exact(g)'
  <2> SUFFICES ASSUME NEW g \in File PROVE Exact(g)'
    OBVIOUS
  <2>1. /\ Seconds(g)' = Seconds(g) /\ Closings(g)' = Closings(g) /\ Descs(g)' = Descs(g)
    BY <1>1 DEF Seconds, Closings, Descs
  <2>2. Locals(g)' = Locals(g) /\ Dups(g)' = Dups(g)
    BY <1>1, <1>5 DEF Locals, LocalPC, Dups
  <2>3. Exact(g) /\ ref'[g] = ref[g]
    BY <1>1 DEF CountInv
  <2> QED
    BY <2>1, <2>2, <2>3 DEF Exact
<1>9. iref' = (Cardinality(Inodes') + Cardinality(Opens')) + Cardinality(Iputs')
  <2>1. /\ Inodes \ {f} = Inodes' \ {f} /\ f \notin Inodes /\ f \in Inodes'
    BY <1>2, <1>5 DEF Inodes
  <2>2. /\ Opens \ {p} = Opens' \ {p} /\ p \in Opens /\ p \notin Opens'
    BY <1>1, <1>5 DEF Opens, OpenPC
  <2>3. Iputs' = Iputs
    BY <1>1 DEF Iputs
  <2>4. iref \in Nat /\ iref' = iref
    BY <1>1 DEF TypeOK
  <2>5. /\ One(f \in Inodes) = 0 /\ One(f \in Inodes') = 1 /\ One(p \in Opens) = 1
        /\ One(p \in Opens') = 0 /\ One(p \in Iputs) \in Nat
    BY <2>1, <2>2 DEF One
  <2>6. iref' + (One(f \in Inodes) + One(p \in Opens) + One(p \in Iputs))
           = iref + (One(f \in Inodes') + One(p \in Opens') + One(p \in Iputs'))
    BY <2>3, <2>4, <2>5
  <2> QED
    BY <2>1, <2>2, <2>3, <2>4, <2>6, InodeStep
<1>10. CountInv'
  BY <1>1, <1>8, <1>9 DEF CountInv
<1>11. TypeOK'
  BY <1>1, <1>2 DEF TypeOK, PC, Type
<1>12. SetupInv'
  <2>1. \A q \in Proc : pc'[q] \in LocalPC \cup {"open_set"} =>
          pc[q] = pc'[q] /\ f0'[q] = f0[q] /\ f0[q] \in File /\ f0[q] # f
    BY <1>5, <1>6 DEF PlaceInv, TypeOK
  <2>2. \A q \in Proc : pc'[q] \in {"pipe_kalloc", "pipe_fd"} =>
          pc[q] = pc'[q] /\ f1[q] \in File /\ f1[q] # f
    BY <1>5, <1>6 DEF PlaceInv, TypeOK
  <2>3. \A q \in Proc, d \in FD : (ofile'[q][d] # NoFile /\ type'[ofile'[q][d]] = "NONE")
          => pc'[q] = "open_set" /\ f0'[q] = ofile'[q][d]
    <3> SUFFICES ASSUME NEW q \in Proc, NEW d \in FD, ofile[q][d] # NoFile,
                        type'[ofile[q][d]] = "NONE"
                 PROVE  pc'[q] = "open_set" /\ f0'[q] = ofile[q][d]
      BY <1>1
    <3>1. ofile[q][d] \in File /\ ofile[q][d] # f
      BY <1>5 DEF TypeOK
    <3> QED
      BY <3>1, <1>2, <1>5 DEF SetupInv
  <2>4. /\ \A g \in File : ref'[g] = 0 => type'[g] = "NONE"
        /\ \A q \in Proc : pc'[q] \in LocalPC \cup {"open_set"} => ref'[f0'[q]] = 1
        /\ \A q \in Proc : pc'[q] \in {"pipe_kalloc", "pipe_fd"} => ref'[f1'[q]] = 1
    BY <1>1, <1>2, <1>5, <2>1, <2>2 DEF SetupInv
  <2>5. /\ \A q \in Proc : pc'[q] \in {"open_fd", "open_set", "pipe", "pipe_kalloc"}
             => type'[f0'[q]] = "NONE"
        /\ \A q \in Proc : pc'[q] = "pipe_kalloc" => type'[f1'[q]] = "NONE"
        /\ \A q \in Proc : pc'[q] = "pipe_fd" => type'[f0'[q]] # "NONE" /\ type'[f1'[q]] # "NONE"
    BY <1>1, <1>5, <2>1, <2>2 DEF SetupInv, LocalPC
  <2>6. /\ \A q \in Proc : pc'[q] = "open_set" => \E d \in FD : ofile'[q][d] = f0'[q]
        /\ \A q, r \in Proc, d \in FD :
             (pc'[q] = "open_set" /\ ofile'[r][d] = f0'[q]) => r = q
    BY <1>1, <2>1 DEF SetupInv
  <2> QED
    BY <2>3, <2>4, <2>5, <2>6 DEF SetupInv
<1>13. EndInv'
  <2>1. \A g \in File, t \in PipeEnd : type'[g] = t <=> type[g] = t
    BY <1>2, <1>5 DEF PipeEnd
  <2> QED
    BY <2>1, <1>1 DEF EndInv, PipeEnd
<1> QED
  BY <1>7, <1>10, <1>11, <1>12, <1>13

-----------------------------------------------------------------------------
(***************************************************************************)
(* dup() and fork()                                                        *)
(***************************************************************************)
\* sys_dup() installs the descriptor, and owes the count one.
LEMMA SysDupIInv ==
  ASSUME IInv, NEW p \in Proc, NEW fd \in FD, SysDup(p, fd)
  PROVE  IInv'
<1> USE DEF IInv
<1>1. /\ pc[p] = "idle" /\ pc' = [pc EXCEPT ![p] = "dup"] /\ ofile[p][fd] # NoFile
      /\ FreeFds(p) # {}
      /\ ofile' = [ofile EXCEPT ![p][Smallest(FreeFds(p))] = ofile[p][fd]]
      /\ f0' = [f0 EXCEPT ![p] = ofile[p][fd]]
      /\ UNCHANGED <<ref, type, pipe, pipeopen, iref, f1, child, closing, ff, panicked>>
      /\ pc \in [Proc -> PC] /\ f0 \in [Proc -> File \cup {NoFile}] /\ NoFile \notin File
  BY FileTableAssumption DEF SysDup, At, Goto, Argfd, ftable, TypeOK
<1>2. PICK f \in File : f = ofile[p][fd]
  BY <1>1 DEF TypeOK
<1>3. PICK k \in FD : k = Smallest(FreeFds(p)) /\ ofile[p][k] = NoFile
  BY <1>1, FreeFd
<1>4. /\ ofile' \in [Proc -> [FD -> File \cup {NoFile}]]
      /\ \A q \in Proc, d \in FD :
           ofile'[q][d] = IF q = p /\ d = k THEN f ELSE ofile[q][d]
  <2>1. /\ ofile' = [ofile EXCEPT ![p][k] = f]
        /\ ofile \in [Proc -> [FD -> File \cup {NoFile}]]
    BY <1>1, <1>2, <1>3 DEF TypeOK
  <2> HIDE DEF IInv
  <2>2. ofile' \in [Proc -> [FD -> File \cup {NoFile}]]
    BY <2>1
  <2>3. \A q \in Proc, d \in FD : ofile'[q][d] = IF q = p /\ d = k THEN f ELSE ofile[q][d]
    BY <2>1
  <2> QED
    BY <2>2, <2>3
<1>5. \A g \in File : /\ Descs(g) \ {<<p, k>>} = Descs(g)' \ {<<p, k>>}
                      /\ <<p, k>> \notin Descs(g)
                      /\ <<p, k>> \in Descs(g)' <=> g = f
  BY <1>1, <1>3, <1>4 DEF Descs
<1>6. /\ \A q \in Proc : q # p => pc'[q] = pc[q] /\ f0'[q] = f0[q]
      /\ pc'[p] = "dup" /\ f0'[p] = f /\ k # fd
  BY <1>1, <1>2, <1>3
<1>7. PlaceInv'
  <2>1. \A q \in Proc : f0'[q] # NoFile <=> pc'[q] \in LocalPC \cup {"open_set", "dup"}
    BY <1>1, <1>6 DEF PlaceInv
  <2>2. \A q \in Proc : f1'[q] # NoFile <=> pc'[q] \in {"pipe_kalloc", "pipe_fd"}
    BY <1>1, <1>6 DEF PlaceInv
  <2>3. \A q \in Proc : pc'[q] = "dup" =>
          \E d, e \in FD : d # e /\ ofile'[q][d] = f0'[q] /\ ofile'[q][e] = f0'[q]
    <3>1. ofile'[p][k] = f /\ ofile'[p][fd] = f
      BY <1>2, <1>4, <1>6
    <3> QED
      BY <3>1, <1>4, <1>6 DEF PlaceInv
  <2>4. \A q \in Proc : pc'[q] = "fork" => child'[q] \in Proc /\ pc'[child'[q]] = "embryo"
    BY <1>1, <1>6 DEF PlaceInv
  <2>5. \A q, r \in Proc :
          (pc'[q] = "fork" /\ pc'[r] = "fork" /\ child'[q] = child'[r]) => q = r
    BY <1>1, <1>6 DEF PlaceInv
  <2> QED
    BY <2>1, <2>2, <2>3, <2>4, <2>5, <1>1 DEF PlaceInv
<1>8. \A g \in File : Exact(g)'
  <2> SUFFICES ASSUME NEW g \in File PROVE Exact(g)'
    OBVIOUS
  <2>1. Seconds(g)' = Seconds(g) /\ Closings(g)' = Closings(g) /\ Locals(g)' = Locals(g)
    BY <1>1, <1>6 DEF Seconds, Closings, Locals, LocalPC
  <2>2. Dups(g) \ {p} = Dups(g)' \ {p} /\ p \notin Dups(g) /\ (p \in Dups(g)' <=> g = f)
    BY <1>1, <1>6 DEF Dups
  <2>3. ref'[g] \in Nat /\ ref'[g] = ref[g]
    BY <1>1 DEF TypeOK
  <2>4. /\ One(<<p, k>> \in Descs(g)) = 0 /\ One(<<p, k>> \in Descs(g)') = One(g = f)
        /\ One(p \in Dups(g)) = 0 /\ One(p \in Dups(g)') = One(g = f) /\ One(g = f) \in Nat
    BY <1>5, <2>2 DEF One
  <2>5. /\ One(p \in Seconds(g)) \in Nat /\ One(<<p, 1>> \in Closings(g)) \in Nat
        /\ One(p \in Locals(g)) \in Nat
    BY DEF One
  <2>6. ref'[g] + (One(<<p, k>> \in Descs(g)) + One(p \in Locals(g)) + One(p \in Seconds(g))
                    + One(<<p, 1>> \in Closings(g)) + One(p \in Dups(g)'))
           = ref[g] + (One(<<p, k>> \in Descs(g)') + One(p \in Locals(g)')
                       + One(p \in Seconds(g)')
                       + One(<<p, 1>> \in Closings(g)') + One(p \in Dups(g)))
    BY <2>1, <2>3, <2>4, <2>5
  <2> QED
    BY <1>5, <2>1, <2>2, <2>3, <2>6, ExactStep
<1>9. CountInv'
  <2>1. Inodes' = Inodes /\ Opens' = Opens /\ Iputs' = Iputs
    BY <1>1, <1>6 DEF Inodes, Opens, Iputs, OpenPC
  <2> QED
    BY <1>1, <1>8, <2>1 DEF CountInv
<1>10. TypeOK'
  BY <1>1, <1>2, <1>4 DEF TypeOK, PC
<1>11. SetupInv'
  <2>1. /\ \A q \in Proc : pc'[q] = "open_set" => \E d \in FD : ofile'[q][d] = f0'[q]
        /\ \A q, r \in Proc, d \in FD :
             (pc'[q] = "open_set" /\ ofile'[r][d] = f0'[q]) => r = q
    BY <1>1, <1>2, <1>4, <1>6 DEF SetupInv
  <2>2. \A q \in Proc, d \in FD : (ofile'[q][d] # NoFile /\ type'[ofile'[q][d]] = "NONE")
          => pc'[q] = "open_set" /\ f0'[q] = ofile'[q][d]
    BY <1>1, <1>2, <1>4, <1>6 DEF SetupInv
  <2>3. /\ \A g \in File : ref'[g] = 0 => type'[g] = "NONE"
        /\ \A q \in Proc : pc'[q] \in LocalPC \cup {"open_set"} => ref'[f0'[q]] = 1
        /\ \A q \in Proc : pc'[q] \in {"pipe_kalloc", "pipe_fd"} => ref'[f1'[q]] = 1
        /\ \A q \in Proc : pc'[q] \in {"open_fd", "open_set", "pipe", "pipe_kalloc"}
             => type'[f0'[q]] = "NONE"
        /\ \A q \in Proc : pc'[q] = "pipe_kalloc" => type'[f1'[q]] = "NONE"
        /\ \A q \in Proc : pc'[q] = "pipe_fd" => type'[f0'[q]] # "NONE" /\ type'[f1'[q]] # "NONE"
    BY <1>1, <1>6 DEF SetupInv, LocalPC
  <2> QED
    BY <2>1, <2>2, <2>3 DEF SetupInv
<1>12. EndInv'
  BY <1>1, EndStep
<1> QED
  BY <1>7, <1>9, <1>10, <1>11, <1>12

\* A file with a descriptor, other than the one sys_open() is about to fill in,
\* is referenced by no call that sets a file up.
LEMMA Shared ==
  ASSUME IInv, NEW p \in Proc, NEW k \in FD, ofile[p][k] # NoFile, pc[p] # "open_set"
  PROVE  /\ ofile[p][k] \in File /\ ref[ofile[p][k]] \in Nat \ {0}
         /\ \A q \in Proc : pc[q] \in LocalPC \cup {"open_set"} => f0[q] # ofile[p][k]
         /\ \A q \in Proc : f1[q] # ofile[p][k]
<1> USE DEF IInv
<1>1. PICK f \in File : f = ofile[p][k]
  BY DEF TypeOK
<1>2. <<p, k>> \in Descs(f)
  BY <1>1 DEF Descs
<1>3. ref[f] # 0 /\ ref[f] \in Nat
  BY <1>2, Sole DEF TypeOK
<1>4. \A q \in Proc : pc[q] \in LocalPC => f0[q] # f
  BY <1>1, Private
<1>5. \A q \in Proc : pc[q] = "open_set" => f0[q] # f
  BY <1>1 DEF SetupInv
<1>6. \A q \in Proc : f1[q] # f
  <2>1. \A q \in Proc : pc[q] \in {"pipe_kalloc", "pipe_fd"} => f1[q] # f
    BY <1>1, PrivateSecond
  <2> QED
    BY <2>1, <1>1, FileTableAssumption DEF PlaceInv
<1> QED
  BY <1>1, <1>3, <1>4, <1>5, <1>6

\* filedup() in sys_dup() pays what it owes, and cannot panic.
LEMMA DupRefIInv ==
  ASSUME IInv, NEW p \in Proc, DupRef(p)
  PROVE  IInv'
<1> USE DEF IInv
<1>1. /\ pc[p] = "dup" /\ pc' = [pc EXCEPT ![p] = "idle"]
      /\ panicked' = (ref[f0[p]] < 1)
      /\ ref' = [ref EXCEPT ![f0[p]] = @ + 1]
      /\ f0' = [f0 EXCEPT ![p] = NoFile]
      /\ UNCHANGED <<type, pipe, ofile, pipeopen, iref, f1, child, closing, ff>>
      /\ pc \in [Proc -> PC] /\ f0 \in [Proc -> File \cup {NoFile}] /\ NoFile \notin File
      /\ ref \in [File -> Nat]
  BY FileTableAssumption DEF DupRef, FileDup, At, Goto, TypeOK
<1>2. PICK k \in FD : ofile[p][k] = f0[p] /\ f0[p] # NoFile
  BY <1>1 DEF PlaceInv
<1>3. PICK f \in File :
        /\ f = f0[p] /\ ref[f] \in Nat \ {0}
        /\ \A q \in Proc : pc[q] \in LocalPC \cup {"open_set"} => f0[q] # f
        /\ \A q \in Proc : f1[q] # f
  BY <1>1, <1>2, Shared
<1>4. /\ \A q \in Proc : q # p => pc'[q] = pc[q] /\ f0'[q] = f0[q]
      /\ pc'[p] = "idle" /\ f0'[p] = NoFile
      /\ \A g \in File : g # f => ref'[g] = ref[g]
      /\ ref'[f] = ref[f] + 1 /\ ref' \in [File -> Nat]
  BY <1>1, <1>3
<1>5. ~panicked'
  <2>1. panicked' = (ref[f] < 1) /\ ~(ref[f] < 1)
    BY <1>1, <1>3
  <2> QED
    BY <2>1, Zenon
<1>6. PlaceInv'
  <2>1. \A q \in Proc : f0'[q] # NoFile <=> pc'[q] \in LocalPC \cup {"open_set", "dup"}
    BY <1>4 DEF PlaceInv, LocalPC
  <2>2. \A q \in Proc : f1'[q] # NoFile <=> pc'[q] \in {"pipe_kalloc", "pipe_fd"}
    BY <1>1, <1>4 DEF PlaceInv
  <2>3. \A q \in Proc : pc'[q] = "dup" =>
          \E d, e \in FD : d # e /\ ofile'[q][d] = f0'[q] /\ ofile'[q][e] = f0'[q]
    BY <1>1, <1>4 DEF PlaceInv
  <2>4. \A q \in Proc : pc'[q] = "fork" => child'[q] \in Proc /\ pc'[child'[q]] = "embryo"
    BY <1>1, <1>4 DEF PlaceInv
  <2>5. \A q, r \in Proc :
          (pc'[q] = "fork" /\ pc'[r] = "fork" /\ child'[q] = child'[r]) => q = r
    BY <1>1, <1>4 DEF PlaceInv
  <2> QED
    BY <2>1, <2>2, <2>3, <2>4, <2>5, <1>1 DEF PlaceInv
<1>7. \A g \in File : Exact(g)'
  <2> SUFFICES ASSUME NEW g \in File PROVE Exact(g)'
    OBVIOUS
  <2>1. /\ Seconds(g)' = Seconds(g) /\ Closings(g)' = Closings(g) /\ Locals(g)' = Locals(g)
        /\ Descs(g)' = Descs(g)
    BY <1>1, <1>4 DEF Seconds, Closings, Locals, LocalPC, Descs
  <2>2. Dups(g) \ {p} = Dups(g)' \ {p} /\ p \notin Dups(g)' /\ (p \in Dups(g) <=> g = f)
    BY <1>1, <1>3, <1>4 DEF Dups
  <2>3. ref'[g] \in Nat /\ ref[g] \in Nat /\ ref'[g] = ref[g] + One(g = f)
    BY <1>1, <1>4 DEF One
  <2>4. One(p \in Dups(g)') = 0 /\ One(p \in Dups(g)) = One(g = f) /\ One(g = f) \in Nat
    BY <2>2 DEF One
  <2>5. /\ One(p \in Seconds(g)) \in Nat /\ One(<<p, 1>> \in Closings(g)) \in Nat
        /\ One(p \in Locals(g)) \in Nat /\ One(<<p, k>> \in Descs(g)) \in Nat
    BY DEF One
  <2>6. ref'[g] + (One(<<p, k>> \in Descs(g)) + One(p \in Locals(g)) + One(p \in Seconds(g))
                    + One(<<p, 1>> \in Closings(g)) + One(p \in Dups(g)'))
           = ref[g] + (One(<<p, k>> \in Descs(g)') + One(p \in Locals(g)')
                       + One(p \in Seconds(g)')
                       + One(<<p, 1>> \in Closings(g)') + One(p \in Dups(g)))
    BY <2>1, <2>3, <2>4, <2>5
  <2> QED
    BY <2>1, <2>2, <2>3, <2>6, ExactStep
<1>8. CountInv'
  <2>1. Inodes' = Inodes /\ Opens' = Opens /\ Iputs' = Iputs
    BY <1>1, <1>4 DEF Inodes, Opens, Iputs, OpenPC
  <2> QED
    BY <1>1, <1>5, <1>7, <2>1 DEF CountInv
<1>9. TypeOK'
  BY <1>1, <1>4 DEF TypeOK, PC
<1>10. SetupInv'
  <2>1. \A q \in Proc : pc'[q] \in LocalPC \cup {"open_set"} =>
          pc[q] = pc'[q] /\ f0'[q] = f0[q] /\ f0[q] \in File /\ f0[q] # f
    BY <1>3, <1>4 DEF PlaceInv, TypeOK, LocalPC
  <2>2. \A q \in Proc : pc'[q] \in {"pipe_kalloc", "pipe_fd"} =>
          pc[q] = pc'[q] /\ f1[q] \in File /\ f1[q] # f
    BY <1>3, <1>4 DEF PlaceInv, TypeOK
  <2>3. /\ \A g \in File : ref'[g] = 0 => type'[g] = "NONE"
        /\ \A q \in Proc : pc'[q] \in LocalPC \cup {"open_set"} => ref'[f0'[q]] = 1
        /\ \A q \in Proc : pc'[q] \in {"pipe_kalloc", "pipe_fd"} => ref'[f1'[q]] = 1
    BY <1>1, <1>3, <1>4, <2>1, <2>2 DEF SetupInv
  <2>4. /\ \A q \in Proc : pc'[q] \in {"open_fd", "open_set", "pipe", "pipe_kalloc"}
             => type'[f0'[q]] = "NONE"
        /\ \A q \in Proc : pc'[q] = "pipe_kalloc" => type'[f1'[q]] = "NONE"
        /\ \A q \in Proc : pc'[q] = "pipe_fd" => type'[f0'[q]] # "NONE" /\ type'[f1'[q]] # "NONE"
    BY <1>1, <1>4, <2>1, <2>2 DEF SetupInv, LocalPC
  <2>5. /\ \A q \in Proc : pc'[q] = "open_set" => \E d \in FD : ofile'[q][d] = f0'[q]
        /\ \A q, r \in Proc, d \in FD :
             (pc'[q] = "open_set" /\ ofile'[r][d] = f0'[q]) => r = q
    BY <1>1, <2>1 DEF SetupInv
  <2>6. \A q \in Proc, d \in FD : (ofile'[q][d] # NoFile /\ type'[ofile'[q][d]] = "NONE")
          => pc'[q] = "open_set" /\ f0'[q] = ofile'[q][d]
    BY <1>1, <1>4 DEF SetupInv
  <2> QED
    BY <2>3, <2>4, <2>5, <2>6 DEF SetupInv
<1>11. EndInv'
  BY <1>1, EndStep
<1> QED
  BY <1>6, <1>8, <1>9, <1>10, <1>11

\* fork() gives a descriptor of its own to the child and counts it.
LEMMA ForkDupIInv ==
  ASSUME IInv, NEW p \in Proc, ForkDup(p)
  PROVE  IInv'
<1> USE DEF IInv
<1>1. PICK k \in FD :
        /\ k = Smallest(ToCopy(p)) /\ ofile[p][k] # NoFile /\ ofile[child[p]][k] = NoFile
  <2>1. ToCopy(p) # {} /\ ToCopy(p) \in SUBSET FD
    BY DEF ForkDup, ToCopy
  <2> QED
    BY <2>1, SmallestFd DEF ToCopy
<1>2. /\ pc[p] = "fork"
      /\ panicked' = (ref[ofile[p][k]] < 1)
      /\ ref' = [ref EXCEPT ![ofile[p][k]] = @ + 1]
      /\ ofile' = [ofile EXCEPT ![child[p]][k] = ofile[p][k]]
      /\ UNCHANGED <<type, pipe, pipeopen, iref, pc, f0, f1, child, closing, ff>>
      /\ ref \in [File -> Nat] /\ NoFile \notin File
  BY <1>1, FileTableAssumption DEF ForkDup, FileDup, At, locals, TypeOK
<1>3. PICK c \in Proc : c = child[p] /\ pc[c] = "embryo"
  BY <1>2 DEF PlaceInv
<1>4. PICK f \in File :
        /\ f = ofile[p][k] /\ ref[f] \in Nat \ {0}
        /\ \A q \in Proc : pc[q] \in LocalPC \cup {"open_set"} => f0[q] # f
        /\ \A q \in Proc : f1[q] # f
  BY <1>1, <1>2, Shared
<1>5. /\ ofile' \in [Proc -> [FD -> File \cup {NoFile}]]
      /\ \A q \in Proc, d \in FD :
           ofile'[q][d] = IF q = c /\ d = k THEN f ELSE ofile[q][d]
  <2>1. ofile' = [ofile EXCEPT ![c][k] = f]
    BY <1>1, <1>2, <1>3, <1>4
  <2>2. ofile \in [Proc -> [FD -> File \cup {NoFile}]]
    BY DEF TypeOK
  <2>3. ofile' \in [Proc -> [FD -> File \cup {NoFile}]]
    BY <2>1, <2>2
  <2>4. \A q \in Proc, d \in FD :
           ofile'[q][d] = IF q = c /\ d = k THEN f ELSE ofile[q][d]
    BY <2>1, <2>2
  <2> QED
    BY <2>3, <2>4
<1>6. \A g \in File : /\ Descs(g) \ {<<c, k>>} = Descs(g)' \ {<<c, k>>}
                      /\ <<c, k>> \notin Descs(g)
                      /\ <<c, k>> \in Descs(g)' <=> g = f
  BY <1>1, <1>2, <1>3, <1>5 DEF Descs
<1>7. /\ \A g \in File : g # f => ref'[g] = ref[g]
      /\ ref'[f] = ref[f] + 1 /\ ref' \in [File -> Nat] /\ ~panicked'
  <2>1. panicked' = (ref[f] < 1) /\ ~(ref[f] < 1)
    BY <1>2, <1>4
  <2>2. ~panicked'
    BY <2>1, Zenon
  <2> QED
    BY <1>2, <1>4, <2>2
<1>8. PlaceInv'
  <2>1. \A q \in Proc : pc'[q] = "dup" =>
          \E d, e \in FD : d # e /\ ofile'[q][d] = f0'[q] /\ ofile'[q][e] = f0'[q]
    BY <1>2, <1>3, <1>5 DEF PlaceInv
  <2> QED
    BY <2>1, <1>2 DEF PlaceInv
<1>9. \A g \in File : Exact(g)'
  <2> SUFFICES ASSUME NEW g \in File PROVE Exact(g)'
    OBVIOUS
  <2>1. /\ Seconds(g)' = Seconds(g) /\ Closings(g)' = Closings(g) /\ Locals(g)' = Locals(g)
        /\ Dups(g)' = Dups(g)
    BY <1>2 DEF Seconds, Closings, Locals, Dups
  <2>2. ref'[g] \in Nat /\ ref[g] \in Nat /\ ref'[g] = ref[g] + One(g = f)
    BY <1>2, <1>7 DEF One
  <2>3. /\ One(<<c, k>> \in Descs(g)) = 0 /\ One(<<c, k>> \in Descs(g)') = One(g = f)
        /\ One(g = f) \in Nat
    BY <1>6 DEF One
  <2>4. /\ One(p \in Seconds(g)) \in Nat /\ One(<<p, 1>> \in Closings(g)) \in Nat
        /\ One(p \in Locals(g)) \in Nat /\ One(p \in Dups(g)) \in Nat
    BY DEF One
  <2>5. ref'[g] + (One(<<c, k>> \in Descs(g)) + One(p \in Locals(g)) + One(p \in Seconds(g))
                    + One(<<p, 1>> \in Closings(g)) + One(p \in Dups(g)'))
           = ref[g] + (One(<<c, k>> \in Descs(g)') + One(p \in Locals(g)')
                       + One(p \in Seconds(g)')
                       + One(<<p, 1>> \in Closings(g)') + One(p \in Dups(g)))
    BY <2>1, <2>2, <2>3, <2>4
  <2> QED
    BY <1>6, <2>1, <2>2, <2>5, ExactStep
<1>10. CountInv'
  <2>1. Inodes' = Inodes /\ Opens' = Opens /\ Iputs' = Iputs
    BY <1>2 DEF Inodes, Opens, Iputs
  <2> QED
    BY <1>2, <1>7, <1>9, <2>1 DEF CountInv
<1>11. TypeOK'
  BY <1>2, <1>5, <1>7 DEF TypeOK
<1>12. SetupInv'
  <2>1. \A q \in Proc : pc[q] \in LocalPC \cup {"open_set"} => f0[q] \in File /\ f0[q] # f
    BY <1>4 DEF PlaceInv, TypeOK, LocalPC
  <2>2. \A q \in Proc : pc[q] \in {"pipe_kalloc", "pipe_fd"} => f1[q] \in File /\ f1[q] # f
    BY <1>4 DEF PlaceInv, TypeOK
  <2>3. /\ \A g \in File : ref'[g] = 0 => type'[g] = "NONE"
        /\ \A q \in Proc : pc'[q] \in LocalPC \cup {"open_set"} => ref'[f0'[q]] = 1
        /\ \A q \in Proc : pc'[q] \in {"pipe_kalloc", "pipe_fd"} => ref'[f1'[q]] = 1
    BY <1>2, <1>4, <1>7, <2>1, <2>2 DEF SetupInv
  <2>4. /\ \A q \in Proc : pc'[q] = "open_set" => \E d \in FD : ofile'[q][d] = f0'[q]
        /\ \A q, r \in Proc, d \in FD :
             (pc'[q] = "open_set" /\ ofile'[r][d] = f0'[q]) => r = q
    BY <1>2, <1>3, <1>5, <2>1 DEF SetupInv
  <2>5. \A q \in Proc, d \in FD : (ofile'[q][d] # NoFile /\ type'[ofile'[q][d]] = "NONE")
          => pc'[q] = "open_set" /\ f0'[q] = ofile'[q][d]
    BY <1>1, <1>2, <1>4, <1>5 DEF SetupInv
  <2> QED
    BY <1>2, <2>3, <2>4, <2>5 DEF SetupInv
<1>13. EndInv'
  BY <1>2, EndStep
<1> QED
  BY <1>8, <1>10, <1>11, <1>12, <1>13

-----------------------------------------------------------------------------
(***************************************************************************)
(* pipealloc() and the descriptors of sys_pipe()                           *)
(***************************************************************************)
\* pipealloc() opens both ends of a free pipe, one for each of its two files.
LEMMA PipeOpenIInv ==
  ASSUME IInv, NEW p \in Proc, NEW x \in Pipe, pc[p] = "pipe_kalloc", pipeopen[x] = {},
         pipeopen' = [pipeopen EXCEPT ![x] = {"r", "w"}],
         type' = [type EXCEPT ![f0[p]] = "READ", ![f1[p]] = "WRITE"],
         pipe' = [pipe EXCEPT ![f0[p]] = x, ![f1[p]] = x],
         pc' = [pc EXCEPT ![p] = "pipe_fd"],
         UNCHANGED <<ref, ofile, iref, f0, f1, child, closing, ff, panicked>>
  PROVE  IInv'
<1> USE DEF IInv
<1>1. /\ pc \in [Proc -> PC] /\ type \in [File -> Type] /\ NoFile \notin File
      /\ pipe \in [File -> Pipe \cup {NoPipe}] /\ pipeopen \in [Pipe -> SUBSET {"r", "w"}]
  BY FileTableAssumption DEF TypeOK
<1>2. PICK f \in File, h \in File :
        /\ f = f0[p] /\ h = f1[p] /\ f # h /\ ref[f] = 1 /\ ref[h] = 1
        /\ type[f] = "NONE" /\ type[h] = "NONE"
        /\ \A q \in Proc, d \in FD : ofile[q][d] # f /\ ofile[q][d] # h
        /\ \A q \in Proc : q # p => f0[q] # f /\ f1[q] # h
        /\ \A q \in Proc : f1[q] # f /\ f0[q] # h
  <2>1. /\ f0[p] \in File /\ ref[f0[p]] = 1
        /\ \A q \in Proc, d \in FD : ofile[q][d] # f0[p]
        /\ \A q \in Proc : q # p => f0[q] # f0[p]
        /\ \A q \in Proc : f1[q] # f0[p]
    BY Private DEF LocalPC
  <2>2. /\ f1[p] \in File /\ ref[f1[p]] = 1
        /\ \A q \in Proc, d \in FD : ofile[q][d] # f1[p]
        /\ \A q \in Proc : q # p => f1[q] # f1[p]
        /\ \A q \in Proc : f0[q] # f1[p]
    BY PrivateSecond
  <2>3. type[f0[p]] = "NONE" /\ type[f1[p]] = "NONE"
    BY DEF SetupInv
  <2> QED
    BY <2>1, <2>2, <2>3
<1>3. /\ \A q \in Proc : q # p => pc'[q] = pc[q]
      /\ pc'[p] = "pipe_fd"
  BY <1>1
<1>4. /\ type' \in [File -> Type] /\ pipe' \in [File -> Pipe \cup {NoPipe}]
      /\ \A g \in File : g # f /\ g # h => type'[g] = type[g] /\ pipe'[g] = pipe[g]
      /\ type'[f] = "READ" /\ type'[h] = "WRITE" /\ pipe'[f] = x /\ pipe'[h] = x
  BY <1>1, <1>2 DEF Type
<1>5. /\ \A y \in Pipe : y # x => pipeopen'[y] = pipeopen[y]
      /\ pipeopen'[x] = {"r", "w"} /\ pipeopen' \in [Pipe -> SUBSET {"r", "w"}]
  BY <1>1
<1>6. PlaceInv'
  <2>1. \A q \in Proc : f0'[q] # NoFile <=> pc'[q] \in LocalPC \cup {"open_set", "dup"}
    BY <1>2, <1>3 DEF PlaceInv, LocalPC
  <2>2. \A q \in Proc : f1'[q] # NoFile <=> pc'[q] \in {"pipe_kalloc", "pipe_fd"}
    BY <1>3 DEF PlaceInv
  <2>3. \A q \in Proc : pc'[q] = "dup" =>
          \E d, e \in FD : d # e /\ ofile'[q][d] = f0'[q] /\ ofile'[q][e] = f0'[q]
    BY <1>3 DEF PlaceInv
  <2>4. \A q \in Proc : pc'[q] = "fork" => child'[q] \in Proc /\ pc'[child'[q]] = "embryo"
    BY <1>3 DEF PlaceInv
  <2>5. \A q, r \in Proc :
          (pc'[q] = "fork" /\ pc'[r] = "fork" /\ child'[q] = child'[r]) => q = r
    BY <1>3 DEF PlaceInv
  <2> QED
    BY <2>1, <2>2, <2>3, <2>4, <2>5 DEF PlaceInv
<1>7. CountInv'
  <2>1. ASSUME NEW g \in File PROVE Exact(g)'
    <3>1. /\ Seconds(g)' = Seconds(g) /\ Closings(g)' = Closings(g) /\ Descs(g)' = Descs(g)
      BY DEF Seconds, Closings, Descs
    <3>2. Locals(g)' = Locals(g) /\ Dups(g)' = Dups(g)
      BY <1>3 DEF Locals, LocalPC, Dups
    <3>3. Exact(g) /\ ref'[g] = ref[g]
      BY DEF CountInv
    <3> QED
      BY <3>1, <3>2, <3>3 DEF Exact
  <2>2. Inodes' = Inodes
    BY <1>2, <1>4 DEF Inodes
  <2>3. Opens' = Opens /\ Iputs' = Iputs
    BY <1>3 DEF Opens, OpenPC, Iputs
  <2> QED
    BY <2>1, <2>2, <2>3 DEF CountInv
<1>8. TypeOK'
  BY <1>1, <1>4, <1>5 DEF TypeOK, PC
<1>9. SetupInv'
  <2>1. \A q \in Proc : pc'[q] \in LocalPC \cup {"open_set"} =>
          /\ f0[q] \in File /\ f0[q] # h /\ (q # p => pc[q] = pc'[q] /\ f0[q] # f)
    BY <1>2, <1>3 DEF PlaceInv, TypeOK, LocalPC
  <2>2. \A q \in Proc : pc'[q] \in {"pipe_kalloc", "pipe_fd"} =>
          /\ f1[q] \in File /\ f1[q] # f /\ (q # p => pc[q] = pc'[q] /\ f1[q] # h)
    BY <1>2, <1>3 DEF PlaceInv, TypeOK
  <2>3. /\ \A g \in File : ref'[g] = 0 => type'[g] = "NONE"
        /\ \A q \in Proc : pc'[q] \in LocalPC \cup {"open_set"} => ref'[f0'[q]] = 1
        /\ \A q \in Proc : pc'[q] \in {"pipe_kalloc", "pipe_fd"} => ref'[f1'[q]] = 1
    BY <1>2, <1>3, <1>4, <2>1, <2>2 DEF SetupInv
  <2>4. /\ \A q \in Proc : pc'[q] \in {"open_fd", "open_set", "pipe", "pipe_kalloc"}
             => type'[f0'[q]] = "NONE"
        /\ \A q \in Proc : pc'[q] = "pipe_kalloc" => type'[f1'[q]] = "NONE"
        /\ \A q \in Proc : pc'[q] = "pipe_fd" => type'[f0'[q]] # "NONE" /\ type'[f1'[q]] # "NONE"
    BY <1>2, <1>3, <1>4, <2>1, <2>2 DEF SetupInv, LocalPC
  <2>5. /\ \A q \in Proc : pc'[q] = "open_set" => \E d \in FD : ofile'[q][d] = f0'[q]
        /\ \A q, r \in Proc, d \in FD :
             (pc'[q] = "open_set" /\ ofile'[r][d] = f0'[q]) => r = q
    BY <1>3 DEF SetupInv
  <2>6. \A q \in Proc, d \in FD : (ofile'[q][d] # NoFile /\ type'[ofile'[q][d]] = "NONE")
          => pc'[q] = "open_set" /\ f0'[q] = ofile'[q][d]
    <3> SUFFICES ASSUME NEW q \in Proc, NEW d \in FD, ofile[q][d] # NoFile,
                        type'[ofile[q][d]] = "NONE"
                 PROVE  pc'[q] = "open_set" /\ f0'[q] = ofile[q][d]
      OBVIOUS
    <3>1. ofile[q][d] \in File /\ ofile[q][d] # f /\ ofile[q][d] # h
      BY <1>2 DEF TypeOK
    <3> QED
      BY <3>1, <1>3, <1>4 DEF SetupInv
  <2> QED
    BY <2>3, <2>4, <2>5, <2>6 DEF SetupInv
<1>10. EndInv'
  <2>1. /\ \A g \in File : type[g] \in PipeEnd => pipe[g] # x /\ g # f /\ g # h
        /\ \A q \in Proc : ff[q].type \in PipeEnd => ff[q].pipe # x
    BY <1>2 DEF EndInv, PipeEnd
  <2>2. \A g \in File : type'[g] \in PipeEnd =>
          \/ g = f \/ g = h
          \/ type[g] \in PipeEnd /\ type'[g] = type[g] /\ pipe'[g] = pipe[g] /\ pipe[g] # x
    BY <2>1, <1>4
  <2>3. End("READ") = "r" /\ End("WRITE") = "w"
    BY DEF End
  <2>4. /\ \A q \in Proc : ff'[q].type = "NONE" => ff'[q] = None
        /\ \A g \in File : type'[g] \in PipeEnd =>
             pipe'[g] \in Pipe /\ End(type'[g]) \in pipeopen'[pipe'[g]]
        /\ \A q \in Proc : ff'[q].type \in PipeEnd =>
             ff'[q].pipe \in Pipe /\ End(ff'[q].type) \in pipeopen'[ff'[q].pipe]
    BY <1>4, <1>5, <2>1, <2>2, <2>3 DEF EndInv
  <2>5. \A g, i \in File :
          (type'[g] \in PipeEnd /\ type'[i] = type'[g] /\ pipe'[i] = pipe'[g]) => g = i
    BY <1>4, <2>1, <2>2 DEF EndInv
  <2>6. \A g \in File, q \in Proc :
          ~(type'[g] \in PipeEnd /\ ff'[q].type = type'[g] /\ ff'[q].pipe = pipe'[g])
    BY <1>4, <2>1, <2>2 DEF EndInv
  <2>7. \A y \in Pipe, t \in PipeEnd : End(t) \in pipeopen'[y] =>
          \/ \E g \in File : type'[g] = t /\ pipe'[g] = y
          \/ \E q \in Proc : ff'[q].type = t /\ ff'[q].pipe = y
    <3> SUFFICES ASSUME NEW y \in Pipe, NEW t \in PipeEnd, End(t) \in pipeopen'[y]
                 PROVE  \/ \E g \in File : type'[g] = t /\ pipe'[g] = y
                        \/ \E q \in Proc : ff'[q].type = t /\ ff'[q].pipe = y
      OBVIOUS
    <3>1. CASE y = x
      BY <3>1, <1>4 DEF PipeEnd
    <3>2. CASE y # x
      <4>1. \/ \E g \in File : type[g] = t /\ pipe[g] = y
            \/ \E q \in Proc : ff[q].type = t /\ ff[q].pipe = y
        BY <3>2, <1>5 DEF EndInv
      <4> QED
        BY <4>1, <1>4, <2>1
    <3> QED
      BY <3>1, <3>2
  <2> QED
    BY <2>4, <2>5, <2>6, <2>7 DEF EndInv
<1> QED
  BY <1>6, <1>7, <1>8, <1>9, <1>10

\* The two first free descriptors of a process.
LEMMA TwoFds ==
  ASSUME NEW p \in Proc, ~(Cardinality(FreeFds(p)) < 2)
  PROVE  LET fd0 == Smallest(FreeFds(p))
             fd1 == Smallest(FreeFds(p) \ {fd0})
         IN /\ fd0 \in FD /\ fd1 \in FD /\ fd0 # fd1
            /\ ofile[p][fd0] = NoFile /\ ofile[p][fd1] = NoFile
<1> DEFINE S == FreeFds(p)
           fd0 == Smallest(S)
           T == S \ {fd0}
<1>1. S \in SUBSET FD /\ T \in SUBSET FD
  BY DEF FreeFds
<1>2. IsFiniteSet(FD)
  BY FS_Interval, FileTableAssumption DEF FD
<1>3. IsFiniteSet(S) /\ Cardinality(S) \in Nat
  BY <1>1, <1>2, FS_Subset, FS_CardinalityType
<1>4. S # {}
  <2>1. S = {} => Cardinality(S) = 0
    BY FS_EmptySet
  <2> QED
    BY <2>1
<1>5. fd0 \in S
  BY <1>1, <1>4, SmallestFd
<1>6. T # {}
  <2>1. Cardinality(T) = Cardinality(S) - 1 /\ Cardinality(T) \in Nat
    BY <1>3, <1>5, FS_RemoveElement, FS_CardinalityType
  <2>2. T = {} => Cardinality(T) = 0
    BY FS_EmptySet
  <2> HIDE DEF S, T
  <2>3. ~(Cardinality(S) < 2)
    BY DEF S
  <2> QED
    BY <2>1, <2>2, <2>3, <1>3
<1>7. Smallest(T) \in T
  BY <1>1, <1>6, SmallestFd
<1> QED
  BY <1>5, <1>7 DEF FreeFds

\* sys_pipe() installs its two files, each with the reference that was local.
LEMMA PipeInstallIInv ==
  ASSUME IInv, NEW p \in Proc, NEW k \in FD, NEW m \in FD, k # m, pc[p] = "pipe_fd",
         ofile[p][k] = NoFile, ofile[p][m] = NoFile,
         ofile' = [ofile EXCEPT ![p][k] = f0[p], ![p][m] = f1[p]],
         f0' = [f0 EXCEPT ![p] = NoFile], f1' = [f1 EXCEPT ![p] = NoFile],
         pc' = [pc EXCEPT ![p] = "idle"],
         UNCHANGED <<ref, type, pipe, pipeopen, iref, child, closing, ff, panicked>>
  PROVE  IInv'
<1> USE DEF IInv
<1>1. /\ pc \in [Proc -> PC] /\ ref \in [File -> Nat] /\ NoFile \notin File
      /\ f0 \in [Proc -> File \cup {NoFile}] /\ f1 \in [Proc -> File \cup {NoFile}]
      /\ ofile \in [Proc -> [FD -> File \cup {NoFile}]]
  BY FileTableAssumption DEF TypeOK
<1>2. PICK f \in File, h \in File :
        /\ f = f0[p] /\ h = f1[p] /\ f # h /\ type[f] # "NONE" /\ type[h] # "NONE"
        /\ \A q \in Proc, d \in FD : ofile[q][d] # f /\ ofile[q][d] # h
        /\ \A q \in Proc : q # p => f0[q] # f
        /\ \A q \in Proc : f0[q] # h
  <2>1. /\ f0[p] \in File
        /\ \A q \in Proc, d \in FD : ofile[q][d] # f0[p]
        /\ \A q \in Proc : q # p => f0[q] # f0[p]
    BY Private DEF LocalPC
  <2>2. /\ f1[p] \in File
        /\ \A q \in Proc, d \in FD : ofile[q][d] # f1[p]
        /\ \A q \in Proc : f0[q] # f1[p]
    BY PrivateSecond
  <2>3. type[f0[p]] # "NONE" /\ type[f1[p]] # "NONE"
    BY DEF SetupInv
  <2> QED
    BY <2>1, <2>2, <2>3
<1>3. /\ \A q \in Proc : q # p => f0'[q] = f0[q] /\ f1'[q] = f1[q] /\ pc'[q] = pc[q]
      /\ f0'[p] = NoFile /\ f1'[p] = NoFile /\ pc'[p] = "idle"
  BY <1>1
<1>4. /\ ofile' \in [Proc -> [FD -> File \cup {NoFile}]]
      /\ \A q \in Proc, d \in FD :
           ofile'[q][d] = IF q = p /\ d = k THEN f
                          ELSE IF q = p /\ d = m THEN h ELSE ofile[q][d]
  <2>1. ofile' = [ofile EXCEPT ![p][k] = f, ![p][m] = h]
    BY <1>2
  <2>2. ofile' \in [Proc -> [FD -> File \cup {NoFile}]]
    BY <1>1, <2>1
  <2>3. \A q \in Proc, d \in FD :
           ofile'[q][d] = IF q = p /\ d = k THEN f
                          ELSE IF q = p /\ d = m THEN h ELSE ofile[q][d]
    BY <1>1, <2>1
  <2> QED
    BY <2>2, <2>3
<1>5. PlaceInv'
  <2>1. \A q \in Proc : f0'[q] # NoFile <=> pc'[q] \in LocalPC \cup {"open_set", "dup"}
    BY <1>3 DEF PlaceInv, LocalPC
  <2>2. \A q \in Proc : f1'[q] # NoFile <=> pc'[q] \in {"pipe_kalloc", "pipe_fd"}
    BY <1>3 DEF PlaceInv
  <2>3. \A q \in Proc : pc'[q] = "dup" =>
          \E d, e \in FD : d # e /\ ofile'[q][d] = f0'[q] /\ ofile'[q][e] = f0'[q]
    BY <1>3, <1>4 DEF PlaceInv
  <2>4. \A q \in Proc : pc'[q] = "fork" => child'[q] \in Proc /\ pc'[child'[q]] = "embryo"
    BY <1>3 DEF PlaceInv
  <2>5. \A q, r \in Proc :
          (pc'[q] = "fork" /\ pc'[r] = "fork" /\ child'[q] = child'[r]) => q = r
    BY <1>3 DEF PlaceInv
  <2>6. \A q \in Proc : Len(closing'[q]) <= 2
          /\ (Len(closing'[q]) = 2 => closing'[q][1] # closing'[q][2])
    BY DEF PlaceInv
  <2> HIDE DEF IInv
  <2> QED
    BY <2>1, <2>2, <2>3, <2>4, <2>5, <2>6 DEF PlaceInv
<1>6. \A g \in File : Exact(g)'
  <2> SUFFICES ASSUME NEW g \in File PROVE Exact(g)'
    OBVIOUS
  <2>1. PICK e \in Proc \X FD :
          /\ Descs(g) \ {e} = Descs(g)' \ {e} /\ e \notin Descs(g)
          /\ e \in Descs(g)' <=> (g = f \/ g = h)
    <3>1. <<p, k>> \in Proc \X FD /\ <<p, m>> \in Proc \X FD
      OBVIOUS
    <3>2. CASE g = h
      <4>1. Descs(g) \ {<<p, m>>} = Descs(g)' \ {<<p, m>>} /\ <<p, m>> \notin Descs(g)
            /\ <<p, m>> \in Descs(g)'
        BY <3>2, <1>2, <1>4 DEF Descs
      <4> QED
        BY <3>1, <3>2, <4>1
    <3>3. CASE g # h
      <4>1. Descs(g) \ {<<p, k>>} = Descs(g)' \ {<<p, k>>} /\ <<p, k>> \notin Descs(g)
            /\ (<<p, k>> \in Descs(g)' <=> g = f)
        BY <3>3, <1>1, <1>2, <1>4 DEF Descs
      <4> QED
        BY <3>1, <3>3, <4>1
    <3> QED
      BY <3>2, <3>3
  <2>2. /\ Locals(g) \ {p} = Locals(g)' \ {p} /\ p \notin Locals(g)'
        /\ p \in Locals(g) <=> g = f
    BY <1>1, <1>2, <1>3 DEF Locals, LocalPC
  <2>3. /\ Seconds(g) \ {p} = Seconds(g)' \ {p} /\ p \notin Seconds(g)'
        /\ p \in Seconds(g) <=> g = h
    BY <1>1, <1>2, <1>3 DEF Seconds
  <2>4. Dups(g)' = Dups(g) /\ Closings(g)' = Closings(g)
    BY <1>3 DEF Dups, Closings
  <2>5. ref'[g] \in Nat /\ ref'[g] = ref[g]
    BY <1>1
  <2>6. /\ One(p \in Locals(g)') = 0 /\ One(p \in Locals(g)) = One(g = f)
        /\ One(p \in Seconds(g)') = 0 /\ One(p \in Seconds(g)) = One(g = h)
        /\ One(e \in Descs(g)) = 0 /\ One(e \in Descs(g)') = One(g = f) + One(g = h)
        /\ One(g = f) \in Nat /\ One(g = h) \in Nat
    BY <1>2, <2>1, <2>2, <2>3 DEF One
  <2>7. One(<<p, 1>> \in Closings(g)) \in Nat /\ One(p \in Dups(g)) \in Nat
    BY DEF One
  <2>8. ref'[g] + (One(e \in Descs(g)) + One(p \in Locals(g)) + One(p \in Seconds(g))
                    + One(<<p, 1>> \in Closings(g)) + One(p \in Dups(g)'))
           = ref[g] + (One(e \in Descs(g)') + One(p \in Locals(g)') + One(p \in Seconds(g)')
                       + One(<<p, 1>> \in Closings(g)') + One(p \in Dups(g)))
    BY <2>4, <2>5, <2>6, <2>7
  <2> QED
    BY <2>1, <2>2, <2>3, <2>4, <2>5, <2>8, ExactStep
<1>7. CountInv'
  <2>1. Inodes' = Inodes /\ Opens' = Opens /\ Iputs' = Iputs
    BY <1>3 DEF Inodes, Opens, Iputs, OpenPC
  <2> QED
    BY <1>6, <2>1 DEF CountInv
<1>8. TypeOK'
  BY <1>1, <1>4 DEF TypeOK, PC
<1>9. SetupInv'
  <2>1. \A q \in Proc : pc'[q] \in LocalPC \cup {"open_set"} =>
          q # p /\ pc[q] = pc'[q] /\ f0'[q] = f0[q] /\ f1'[q] = f1[q]
    BY <1>3 DEF LocalPC
  <2>2. /\ \A g \in File : ref'[g] = 0 => type'[g] = "NONE"
        /\ \A q \in Proc : pc'[q] \in LocalPC \cup {"open_set"} => ref'[f0'[q]] = 1
        /\ \A q \in Proc : pc'[q] \in {"pipe_kalloc", "pipe_fd"} => ref'[f1'[q]] = 1
    BY <2>1 DEF SetupInv, LocalPC
  <2>3. /\ \A q \in Proc : pc'[q] \in {"open_fd", "open_set", "pipe", "pipe_kalloc"}
             => type'[f0'[q]] = "NONE"
        /\ \A q \in Proc : pc'[q] = "pipe_kalloc" => type'[f1'[q]] = "NONE"
        /\ \A q \in Proc : pc'[q] = "pipe_fd" => type'[f0'[q]] # "NONE" /\ type'[f1'[q]] # "NONE"
    BY <2>1 DEF SetupInv, LocalPC
  <2>4. /\ \A q \in Proc : pc'[q] = "open_set" => \E d \in FD : ofile'[q][d] = f0'[q]
        /\ \A q, r \in Proc, d \in FD :
             (pc'[q] = "open_set" /\ ofile'[r][d] = f0'[q]) => r = q
    BY <1>2, <1>4, <2>1 DEF SetupInv
  <2>5. \A q \in Proc, d \in FD : (ofile'[q][d] # NoFile /\ type'[ofile'[q][d]] = "NONE")
          => pc'[q] = "open_set" /\ f0'[q] = ofile'[q][d]
    <3> SUFFICES ASSUME NEW q \in Proc, NEW d \in FD, ofile'[q][d] # NoFile,
                        type[ofile'[q][d]] = "NONE"
                 PROVE  pc'[q] = "open_set" /\ f0'[q] = ofile'[q][d]
      OBVIOUS
    <3>1. ofile'[q][d] = ofile[q][d]
      BY <1>2, <1>4
    <3> QED
      BY <3>1, <1>3 DEF SetupInv
  <2> QED
    BY <2>2, <2>3, <2>4, <2>5 DEF SetupInv
<1>10. EndInv'
  BY EndStep
<1> QED
  BY <1>5, <1>7, <1>8, <1>9, <1>10

-----------------------------------------------------------------------------
(***************************************************************************)
(* fileclose()                                                             *)
(***************************************************************************)
\* fileclose() takes the first of the files that the process is to close.
LEMMA ClosingPop ==
  ASSUME TypeOK, PlaceInv, NEW p \in Proc, NEW f \in File, closing[p] # <<>>,
         f = Head(closing[p]), closing' = [closing EXCEPT ![p] = Tail(@)]
  PROVE  /\ closing' \in [Proc -> Seq(File)]
         /\ \A q \in Proc : Len(closing'[q]) <= 2
              /\ (Len(closing'[q]) = 2 => closing'[q][1] # closing'[q][2])
         /\ <<p, 1>> \in Closings(f) /\ <<p, 1>> \notin Closings(f)'
         /\ Closings(f) \ {<<p, 1>>} = Closings(f)' \ {<<p, 1>>}
         /\ \A g \in File : g # f =>
              Cardinality(Closings(g)') = Cardinality(Closings(g))
<1>1. closing \in [Proc -> Seq(File)] /\ closing[p] \in Seq(File)
  BY DEF TypeOK
<1>2. PICK n \in Nat : n = Len(closing[p]) /\ n # 0 /\ n <= 2
  BY <1>1, EmptySeq DEF PlaceInv
<1>3. f = closing[p][1]
  BY <1>1, <1>2
<1>4. PICK t \in Seq(File) : /\ t = Tail(closing[p]) /\ Len(t) = n - 1
                             /\ n = 2 => t[1] = closing[p][2]
  <2>1. Tail(closing[p]) \in Seq(File) /\ Len(Tail(closing[p])) = n - 1
    BY <1>1, <1>2
  <2>2. n = 2 => Tail(closing[p])[1] = closing[p][2]
    <3>1. \A i \in 1..Len(Tail(closing[p])) : Tail(closing[p])[i] = closing[p][i + 1]
      BY <1>1, HeadTailProperties
    <3> QED
      BY <2>1, <3>1
  <2> QED
    BY <2>1, <2>2
<1>5. /\ closing' \in [Proc -> Seq(File)] /\ closing'[p] = t
      /\ \A q \in Proc : q # p => closing'[q] = closing[q]
  BY <1>1, <1>4
<1>6. \A q \in Proc : Len(closing'[q]) <= 2
        /\ (Len(closing'[q]) = 2 => closing'[q][1] # closing'[q][2])
  <2> SUFFICES ASSUME NEW q \in Proc
               PROVE  Len(closing'[q]) <= 2
                      /\ (Len(closing'[q]) = 2 => closing'[q][1] # closing'[q][2])
    OBVIOUS
  <2>1. CASE q = p
    BY <2>1, <1>2, <1>4, <1>5
  <2>2. CASE q # p
    BY <2>2, <1>5 DEF PlaceInv
  <2> QED
    BY <2>1, <2>2
<1>7. n = 2 => closing[p][2] # f
  <2>1. Len(closing[p]) = 2 => closing[p][1] # closing[p][2]
    BY DEF PlaceInv
  <2> QED
    BY <2>1, <1>2, <1>3
<1>8. \A g \in File, q \in Proc, i \in {1, 2} :
        q # p => (<<q, i>> \in Closings(g)' <=> <<q, i>> \in Closings(g))
  BY <1>5 DEF Closings
<1>9. \A g \in File : /\ <<p, 1>> \in Closings(g) <=> g = f
                      /\ <<p, 2>> \in Closings(g) <=> n = 2 /\ g = closing[p][2]
                      /\ <<p, 1>> \in Closings(g)' <=> n = 2 /\ g = closing[p][2]
                      /\ <<p, 2>> \notin Closings(g)'
  <2>1. Len(closing[p]) = n /\ Len(t) = n - 1 /\ (n = 1 \/ n = 2)
    <3>1. n \in Nat /\ n # 0 /\ n <= 2
      BY <1>2
    <3>2. n = 1 \/ n = 2
      BY <3>1
    <3> QED
      BY <3>2, <1>2, <1>4
  <2>2. /\ 1 <= Len(closing[p]) /\ (2 <= Len(closing[p]) <=> n = 2)
        /\ (1 <= Len(t) <=> n = 2) /\ ~(2 <= Len(t))
    BY <2>1
  <2> QED
    BY <2>2, <1>3, <1>4, <1>5 DEF Closings
<1>10. \A g \in File : Closings(g) \subseteq Proc \X {1, 2} /\ Closings(g)' \subseteq Proc \X {1, 2}
  BY DEF Closings
<1>11. /\ <<p, 1>> \in Closings(f) /\ <<p, 1>> \notin Closings(f)'
       /\ Closings(f) \ {<<p, 1>>} = Closings(f)' \ {<<p, 1>>}
  <2>1. <<p, 1>> \in Closings(f) /\ <<p, 1>> \notin Closings(f)' /\ <<p, 2>> \notin Closings(f)
        /\ <<p, 2>> \notin Closings(f)'
    BY <1>7, <1>9
  <2>2. ASSUME NEW c \in Proc \X {1, 2}, c # <<p, 1>>
        PROVE  c \in Closings(f) <=> c \in Closings(f)'
    <3>1. PICK q \in Proc, i \in {1, 2} : c = <<q, i>>
      OBVIOUS
    <3>2. CASE q = p
      BY <3>1, <3>2, <2>1, <2>2
    <3>3. CASE q # p
      BY <3>1, <3>3, <1>8
    <3> QED
      BY <3>2, <3>3
  <2> QED
    BY <2>1, <2>2, <1>10
<1>12. ASSUME NEW g \in File, g # f
       PROVE  Cardinality(Closings(g)') = Cardinality(Closings(g))
  <2> DEFINE R == Closings(g) \ {<<p, 2>>}
  <2>1. R \ {<<p, 1>>} = Closings(g)' \ {<<p, 1>>}
    <3>1. ASSUME NEW c \in Proc \X {1, 2}, c # <<p, 1>>
          PROVE  c \in R <=> c \in Closings(g)'
      <4>1. PICK q \in Proc, i \in {1, 2} : c = <<q, i>>
        OBVIOUS
      <4>2. CASE q = p
        BY <4>1, <4>2, <3>1, <1>9
      <4>3. CASE q # p
        BY <4>1, <4>3, <1>8
      <4> QED
        BY <4>2, <4>3
    <3> QED
      BY <3>1, <1>10
  <2>2. <<p, 1>> \notin R /\ (<<p, 1>> \in Closings(g)' <=> <<p, 2>> \in Closings(g))
    BY <1>9, <1>12
  <2>3. IsFiniteSet(R) /\ Cardinality(R) \in Nat /\ Cardinality(Closings(g)) \in Nat
        /\ Cardinality(R) + One(<<p, 2>> \in Closings(g)) = Cardinality(Closings(g)) + 0
    <3>1. Closings(g) \ {<<p, 2>>} = R \ {<<p, 2>>} /\ One(<<p, 2>> \in R) = 0
      BY DEF One
    <3>2. IsFiniteSet(Closings(g))
      BY RefsFinite
    <3> HIDE DEF R
    <3>3. /\ IsFiniteSet(R) /\ Cardinality(R) \in Nat /\ Cardinality(Closings(g)) \in Nat
          /\ Cardinality(R) + One(<<p, 2>> \in Closings(g))
               = Cardinality(Closings(g)) + One(<<p, 2>> \in R)
      BY <3>1, <3>2, OneMember
    <3> QED
      BY <3>1, <3>3
  <2> HIDE DEF R
  <2>4. Cardinality(Closings(g)') \in Nat
        /\ Cardinality(Closings(g)') + One(<<p, 1>> \in R)
             = Cardinality(R) + One(<<p, 1>> \in Closings(g)')
    BY <2>1, <2>3, OneMember
  <2>5. One(<<p, 1>> \in R) = 0
        /\ One(<<p, 1>> \in Closings(g)') = One(<<p, 2>> \in Closings(g))
        /\ One(<<p, 2>> \in Closings(g)) \in Nat
    BY <2>2 DEF One
  <2> QED
    BY <2>3, <2>4, <2>5
<1> QED
  BY <1>3, <1>5, <1>6, <1>11, <1>12

\* fileclose() drops one reference; with the last one the file is free, and its
\* inode or its end of a pipe passes to the copy that the process closes next.
LEMMA FileCloseIInv ==
  ASSUME IInv, NEW p \in Proc, FileClose(p)
  PROVE  IInv'
<1> USE DEF IInv
<1>a. PICK f \in File : f = Head(closing[p])
  <2>1. closing[p] \in Seq(File) /\ closing[p] # <<>>
    BY DEF TypeOK, FileClose
  <2> QED
    BY <2>1
<1>1. /\ closing' \in [Proc -> Seq(File)]
      /\ \A q \in Proc : Len(closing'[q]) <= 2
           /\ (Len(closing'[q]) = 2 => closing'[q][1] # closing'[q][2])
      /\ <<p, 1>> \in Closings(f) /\ <<p, 1>> \notin Closings(f)'
      /\ Closings(f) \ {<<p, 1>>} = Closings(f)' \ {<<p, 1>>}
      /\ \A g \in File : g # f => Cardinality(Closings(g)') = Cardinality(Closings(g))
  <2>1. TypeOK /\ PlaceInv /\ closing[p] # <<>> /\ closing' = [closing EXCEPT ![p] = Tail(@)]
    BY DEF FileClose
  <2> HIDE DEF IInv
  <2> QED
    BY <1>a, <2>1, ClosingPop
<1>2. /\ ff[p] = None /\ panicked' = (ref[f] < 1)
      /\ ref' = [ref EXCEPT ![f] = @ - 1]
      /\ ref[f] = 1 => type' = [type EXCEPT ![f] = "NONE"]
      /\ (ref[f] = 1 /\ type[f] = "NONE") => ff' = [ff EXCEPT ![p] = None]
      /\ (ref[f] = 1 /\ type[f] # "NONE") =>
           ff' = [ff EXCEPT ![p] = [type |-> type[f], pipe |-> pipe[f]]]
      /\ ref[f] # 1 => UNCHANGED <<type, ff>>
      /\ UNCHANGED <<pipe, ofile, pipeopen, iref, pc, f0, f1, child>>
  BY <1>a DEF FileClose, Cleared, locals
<1>3. /\ ref \in [File -> Nat] /\ type \in [File -> Type] /\ NoFile \notin File
      /\ ff \in [Proc -> [type : Type, pipe : Pipe \cup {NoPipe}]]
      /\ pipe \in [File -> Pipe \cup {NoPipe}]
  BY FileTableAssumption DEF TypeOK
<1>4. /\ ref[f] \in Nat \ {0}
      /\ ref[f] = 1 => Descs(f) = {} /\ Locals(f) = {} /\ Seconds(f) = {}
  BY <1>1, <1>3, Sole
<1>5. ~panicked'
  <2>1. panicked' = (ref[f] < 1) /\ ~(ref[f] < 1)
    BY <1>2, <1>4
  <2> QED
    BY <2>1, Zenon
<1>6. /\ \A g \in File : g # f => ref'[g] = ref[g]
      /\ ref'[f] = ref[f] - 1 /\ ref' \in [File -> Nat]
  BY <1>1, <1>2, <1>3, <1>4
<1>7. /\ \A q \in Proc : pc[q] \in LocalPC \cup {"open_set"} => f0[q] \in File /\ f0[q] # f
      /\ \A q \in Proc : pc[q] \in {"pipe_kalloc", "pipe_fd"} => f1[q] \in File /\ f1[q] # f
  <2>1. \A q \in Proc : pc[q] \in LocalPC \cup {"open_set"} =>
          f0[q] \in File /\ ref[f0[q]] = 1
    BY DEF PlaceInv, SetupInv, TypeOK
  <2>2. \A q \in Proc : pc[q] \in LocalPC => f0[q] # f
    BY <1>4, <2>1 DEF Locals
  <2>3. \A q \in Proc : pc[q] = "open_set" => f0[q] # f
    <3> SUFFICES ASSUME NEW q \in Proc, pc[q] = "open_set", f0[q] = f PROVE FALSE
      OBVIOUS
    <3>1. PICK d \in FD : ofile[q][d] = f
      BY DEF SetupInv
    <3>2. <<q, d>> \in Descs(f)
      BY <3>1 DEF Descs
    <3> QED
      BY <3>2, <2>1, <1>4
  <2>4. \A q \in Proc : pc[q] \in {"pipe_kalloc", "pipe_fd"} =>
          f1[q] \in File /\ ref[f1[q]] = 1
    BY DEF PlaceInv, SetupInv, TypeOK
  <2>5. \A q \in Proc : pc[q] \in {"pipe_kalloc", "pipe_fd"} => f1[q] # f
    BY <1>4, <2>4 DEF Seconds
  <2> QED
    BY <2>1, <2>2, <2>3, <2>4, <2>5
<1>8. PlaceInv'
  BY <1>1, <1>2 DEF PlaceInv
<1>9. \A g \in File : Exact(g)'
  <2> SUFFICES ASSUME NEW g \in File PROVE Exact(g)'
    OBVIOUS
  <2>1. /\ Seconds(g)' = Seconds(g) /\ Descs(g)' = Descs(g) /\ Locals(g)' = Locals(g)
        /\ Dups(g)' = Dups(g)
    BY <1>2 DEF Seconds, Descs, Locals, Dups
  <2>2. CASE g # f
    <3>1. Exact(g) /\ ref'[g] = ref[g] /\ Cardinality(Closings(g)') = Cardinality(Closings(g))
      BY <2>2, <1>1, <1>6 DEF CountInv
    <3> QED
      BY <2>1, <3>1 DEF Exact
  <2>3. CASE g = f
    <3>1. ref'[g] \in Nat /\ ref[g] \in Nat /\ ref'[g] + 1 = ref[g]
      BY <2>3, <1>3, <1>4, <1>6
    <3>2. One(<<p, 1>> \in Closings(g)) = 1 /\ One(<<p, 1>> \in Closings(g)') = 0
      BY <2>3, <1>1 DEF One
    <3>3. /\ One(<<p, 1>> \in Descs(g)) \in Nat /\ One(p \in Locals(g)) \in Nat
          /\ One(p \in Seconds(g)) \in Nat /\ One(p \in Dups(g)) \in Nat
      BY DEF One
    <3>4. ref'[g] + (One(<<p, 1>> \in Descs(g)) + One(p \in Locals(g)) + One(p \in Seconds(g))
                      + One(<<p, 1>> \in Closings(g)) + One(p \in Dups(g)'))
             = ref[g] + (One(<<p, 1>> \in Descs(g)') + One(p \in Locals(g)')
                         + One(p \in Seconds(g)')
                         + One(<<p, 1>> \in Closings(g)') + One(p \in Dups(g)))
      BY <2>1, <3>1, <3>2, <3>3
    <3>5. Closings(g) \ {<<p, 1>>} = Closings(g)' \ {<<p, 1>>}
      BY <2>3, <1>1
    <3> QED
      BY <2>1, <3>1, <3>4, <3>5, ExactStep
  <2> QED
    BY <2>2, <2>3
<1>10. CASE ref[f] = 1 /\ type[f] # "NONE"
  <2>1. /\ type' \in [File -> Type] /\ type'[f] = "NONE"
        /\ \A g \in File : g # f => type'[g] = type[g]
        /\ ff'[p] = [type |-> type[f], pipe |-> pipe[f]]
        /\ ff'[p].type = type[f] /\ ff'[p].pipe = pipe[f]
        /\ \A q \in Proc : q # p => ff'[q] = ff[q]
    <3>1. type' = [type EXCEPT ![f] = "NONE"]
      BY <1>2, <1>10
    <3>2. ff' = [ff EXCEPT ![p] = [type |-> type[f], pipe |-> pipe[f]]]
      BY <1>2, <1>10
    <3>3. /\ type' \in [File -> Type] /\ type'[f] = "NONE"
          /\ \A g \in File : g # f => type'[g] = type[g]
      BY <1>3, <3>1 DEF Type
    <3>4. /\ ff'[p] = [type |-> type[f], pipe |-> pipe[f]]
          /\ \A q \in Proc : q # p => ff'[q] = ff[q]
      BY <1>3, <3>2
    <3> QED
      BY <3>3, <3>4
  <2>2. ff' \in [Proc -> [type : Type, pipe : Pipe \cup {NoPipe}]]
    <3>1. [type |-> type[f], pipe |-> pipe[f]] \in [type : Type, pipe : Pipe \cup {NoPipe}]
      BY <1>1, <1>3
    <3> QED
      BY <3>1, <1>2, <1>3, <1>10
  <2>3. CountInv'
    <3>1. Inodes \ {f} = Inodes' \ {f} /\ f \notin Inodes' /\ (f \in Inodes <=> type[f] = "INODE")
      BY <1>1, <2>1 DEF Inodes
    <3>2. Opens' = Opens
      BY <1>2 DEF Opens
    <3>3. Iputs \ {p} = Iputs' \ {p} /\ p \notin Iputs /\ (p \in Iputs' <=> type[f] = "INODE")
      BY <1>2, <2>1 DEF Iputs, None
    <3>4. iref \in Nat /\ iref' = iref
      BY <1>2 DEF TypeOK
    <3>5. /\ One(f \in Inodes) = One(type[f] = "INODE") /\ One(f \in Inodes') = 0
          /\ One(p \in Iputs) = 0 /\ One(p \in Iputs') = One(type[f] = "INODE")
          /\ One(type[f] = "INODE") \in Nat /\ One(p \in Opens) \in Nat
      BY <3>1, <3>3 DEF One
    <3>6. iref' + (One(f \in Inodes) + One(p \in Opens) + One(p \in Iputs))
             = iref + (One(f \in Inodes') + One(p \in Opens') + One(p \in Iputs'))
      BY <3>2, <3>4, <3>5
    <3>7. iref' = (Cardinality(Inodes') + Cardinality(Opens')) + Cardinality(Iputs')
      BY <3>1, <3>2, <3>3, <3>4, <3>6, InodeStep
    <3> QED
      BY <1>5, <1>9, <3>7 DEF CountInv
  <2>4. TypeOK'
    BY <1>1, <1>2, <1>5, <1>6, <2>1, <2>2 DEF TypeOK
  <2>5. SetupInv'
    <3>1. \A q \in Proc, d \in FD : ofile[q][d] # f
      <4> SUFFICES ASSUME NEW q \in Proc, NEW d \in FD, ofile[q][d] = f PROVE FALSE
        OBVIOUS
      <4>1. <<q, d>> \in Descs(f)
        BY DEF Descs
      <4> QED
        BY <4>1, <1>4, <1>10
    <3>2. /\ \A g \in File : ref'[g] = 0 => type'[g] = "NONE"
          /\ \A q \in Proc : pc'[q] \in LocalPC \cup {"open_set"} => ref'[f0'[q]] = 1
          /\ \A q \in Proc : pc'[q] \in {"pipe_kalloc", "pipe_fd"} => ref'[f1'[q]] = 1
      BY <1>2, <1>6, <1>7, <2>1 DEF SetupInv
    <3>3. /\ \A q \in Proc : pc'[q] \in {"open_fd", "open_set", "pipe", "pipe_kalloc"}
               => type'[f0'[q]] = "NONE"
          /\ \A q \in Proc : pc'[q] = "pipe_kalloc" => type'[f1'[q]] = "NONE"
          /\ \A q \in Proc : pc'[q] = "pipe_fd" => type'[f0'[q]] # "NONE" /\ type'[f1'[q]] # "NONE"
      BY <1>2, <1>7, <2>1 DEF SetupInv, LocalPC
    <3>4. /\ \A q \in Proc : pc'[q] = "open_set" => \E d \in FD : ofile'[q][d] = f0'[q]
          /\ \A q, r \in Proc, d \in FD :
               (pc'[q] = "open_set" /\ ofile'[r][d] = f0'[q]) => r = q
      BY <1>2 DEF SetupInv
    <3>5. \A q \in Proc, d \in FD : (ofile'[q][d] # NoFile /\ type'[ofile'[q][d]] = "NONE")
            => pc'[q] = "open_set" /\ f0'[q] = ofile'[q][d]
      <4> SUFFICES ASSUME NEW q \in Proc, NEW d \in FD, ofile[q][d] # NoFile,
                          type'[ofile[q][d]] = "NONE"
                   PROVE  pc[q] = "open_set" /\ f0[q] = ofile[q][d]
        BY <1>2
      <4>1. ofile[q][d] \in File /\ ofile[q][d] # f
        BY <3>1 DEF TypeOK
      <4> QED
        BY <4>1, <2>1 DEF SetupInv
    <3> QED
      BY <3>2, <3>3, <3>4, <3>5 DEF SetupInv
  <2>6. EndInv'
    <3>1. /\ \A g \in File : type'[g] \in PipeEnd => g # f /\ type'[g] = type[g]
          /\ \A q \in Proc : ff'[q].type \in PipeEnd =>
               \/ q # p /\ ff'[q] = ff[q] /\ ff[q].type \in PipeEnd
               \/ q = p /\ type[f] \in PipeEnd
      BY <2>1 DEF PipeEnd
    <3>a. \A q \in Proc : ff'[q].type = "NONE" => ff'[q] = None
      BY <1>1, <1>2, <1>10, <2>1 DEF EndInv
    <3>b. \A g \in File : type'[g] \in PipeEnd =>
               pipe'[g] \in Pipe /\ End(type'[g]) \in pipeopen'[pipe'[g]]
      BY <1>1, <1>2, <2>1, <3>1 DEF EndInv
    <3>2. /\ \A q \in Proc : ff'[q].type = "NONE" => ff'[q] = None
          /\ \A g \in File : type'[g] \in PipeEnd =>
               pipe'[g] \in Pipe /\ End(type'[g]) \in pipeopen'[pipe'[g]]
      BY <3>a, <3>b
    <3>7. /\ \A q \in Proc : ff'[q].type \in PipeEnd =>
               ff'[q].pipe \in Pipe /\ End(ff'[q].type) \in pipeopen'[ff'[q].pipe]
      BY <1>1, <1>2, <1>10, <2>1, <3>1 DEF EndInv
    <3>3. \A g, i \in File :
            (type'[g] \in PipeEnd /\ type'[i] = type'[g] /\ pipe'[i] = pipe'[g]) => g = i
      BY <1>2, <3>1 DEF EndInv
    <3>4. \A g \in File, q \in Proc :
            ~(type'[g] \in PipeEnd /\ ff'[q].type = type'[g] /\ ff'[q].pipe = pipe'[g])
      BY <1>1, <1>2, <2>1, <3>1 DEF EndInv
    <3>5. \A q, r \in Proc :
            (ff'[q].type \in PipeEnd /\ ff'[r].type = ff'[q].type /\ ff'[r].pipe = ff'[q].pipe)
              => q = r
      BY <1>1, <1>2, <2>1, <3>1 DEF EndInv
    <3>6. \A x \in Pipe, t \in PipeEnd : End(t) \in pipeopen'[x] =>
            \/ \E g \in File : type'[g] = t /\ pipe'[g] = x
            \/ \E q \in Proc : ff'[q].type = t /\ ff'[q].pipe = x
      <4> SUFFICES ASSUME NEW x \in Pipe, NEW t \in PipeEnd, End(t) \in pipeopen[x]
                   PROVE  \/ \E g \in File : type'[g] = t /\ pipe'[g] = x
                          \/ \E q \in Proc : ff'[q].type = t /\ ff'[q].pipe = x
        BY <1>2
      <4>1. CASE \E g \in File : type[g] = t /\ pipe[g] = x
        BY <4>1, <1>2, <2>1
      <4>2. CASE \E q \in Proc : ff[q].type = t /\ ff[q].pipe = x
        <5>1. PICK q \in Proc : ff[q].type = t /\ ff[q].pipe = x
          BY <4>2
        <5>2. q # p
          BY <5>1, <1>2 DEF None, PipeEnd
        <5> QED
          BY <5>1, <5>2, <2>1
      <4> QED
        BY <4>1, <4>2 DEF EndInv
    <3> QED
      BY <3>2, <3>3, <3>4, <3>5, <3>6, <3>7 DEF EndInv
  <2> QED
    BY <1>8, <2>3, <2>4, <2>5, <2>6
<1>11. CASE ~(ref[f] = 1 /\ type[f] # "NONE")
  <2>1. type' = type /\ ff' = ff
    BY <1>1, <1>2, <1>3, <1>11
  <2>2. CountInv'
    <3>1. Inodes' = Inodes /\ Opens' = Opens /\ Iputs' = Iputs
      BY <1>2, <2>1 DEF Inodes, Opens, Iputs
    <3> QED
      BY <1>2, <1>5, <1>9, <3>1 DEF CountInv
  <2>3. TypeOK'
    BY <1>1, <1>2, <1>5, <1>6, <2>1 DEF TypeOK
  <2>4. SetupInv'
    <3>1. \A g \in File : ref'[g] = 0 => type'[g] = "NONE"
      BY <1>3, <1>4, <1>6, <1>11, <2>1 DEF SetupInv
    <3>2. /\ \A q \in Proc : pc'[q] \in LocalPC \cup {"open_set"} => ref'[f0'[q]] = 1
          /\ \A q \in Proc : pc'[q] \in {"pipe_kalloc", "pipe_fd"} => ref'[f1'[q]] = 1
      BY <1>2, <1>6, <1>7 DEF SetupInv
    <3> QED
      BY <3>1, <3>2, <1>2, <2>1 DEF SetupInv
  <2>5. EndInv'
    BY <1>2, <2>1, EndStep
  <2> QED
    BY <1>8, <2>2, <2>3, <2>4, <2>5
<1> QED
  BY <1>10, <1>11

\* fileclose() closes the inode or the end of the pipe that it copied.
LEMMA CloseResourceIInv ==
  ASSUME IInv, NEW p \in Proc, CloseResource(p)
  PROVE  IInv'
<1> USE DEF IInv
<1>1. /\ ff[p] # None /\ ff' = [ff EXCEPT ![p] = None]
      /\ ff[p].type = "INODE" => iref' = iref - 1 /\ UNCHANGED pipeopen
      /\ ff[p].type # "INODE" =>
           /\ pipeopen' = [pipeopen EXCEPT ![ff[p].pipe] =
                             pipeopen[ff[p].pipe] \ {End(ff[p].type)}]
           /\ UNCHANGED iref
      /\ UNCHANGED <<ref, type, pipe, ofile, pc, f0, f1, child, closing, panicked>>
      /\ ff \in [Proc -> [type : Type, pipe : Pipe \cup {NoPipe}]]
      /\ pipeopen \in [Pipe -> SUBSET {"r", "w"}] /\ iref \in Nat
  BY DEF CloseResource, EndsLeft, End, ftable, locals, TypeOK
<1>2. /\ \A q \in Proc : q # p => ff'[q] = ff[q]
      /\ ff'[p] = None /\ ff'[p].type = "NONE"
      /\ ff' \in [Proc -> [type : Type, pipe : Pipe \cup {NoPipe}]]
  BY <1>1 DEF None, Type
<1>3. ff[p].type \in Type \ {"NONE"}
  BY <1>1 DEF EndInv
<1>4. PlaceInv' /\ SetupInv'
  BY <1>1 DEF PlaceInv, SetupInv
<1>5. CountInv' /\ iref' \in Nat
  <2>1. ASSUME NEW g \in File PROVE Exact(g)'
    <3>1. /\ Seconds(g)' = Seconds(g) /\ Closings(g)' = Closings(g) /\ Descs(g)' = Descs(g)
          /\ Locals(g)' = Locals(g) /\ Dups(g)' = Dups(g)
      BY <1>1 DEF Seconds, Closings, Descs, Locals, Dups
    <3>2. Exact(g) /\ ref'[g] = ref[g]
      BY <1>1 DEF CountInv
    <3> QED
      BY <3>1, <3>2 DEF Exact
  <2>2. Inodes' = Inodes /\ Opens' = Opens
    BY <1>1 DEF Inodes, Opens
  <2>3. Iputs \ {p} = Iputs' \ {p} /\ p \notin Iputs' /\ (p \in Iputs <=> ff[p].type = "INODE")
    BY <1>2 DEF Iputs
  <2>4. iref' \in Int /\ iref' + One(ff[p].type = "INODE") = iref
    <3>1. iref \in Int
      BY DEF TypeOK
    <3>2. CASE ff[p].type = "INODE"
      <4>1. iref' = iref - 1 /\ One(ff[p].type = "INODE") = 1
        BY <1>1, <3>2 DEF One
      <4> QED
        BY <3>1, <4>1
    <3>3. CASE ff[p].type # "INODE"
      <4>1. iref' = iref /\ One(ff[p].type = "INODE") = 0
        BY <1>1, <3>3 DEF One
      <4> QED
        BY <3>1, <4>1
    <3> QED
      BY <3>2, <3>3
  <2>5. /\ One(p \in Iputs) = One(ff[p].type = "INODE") /\ One(p \in Iputs') = 0
        /\ One(ff[p].type = "INODE") \in Nat
        /\ One(p \in Inodes) \in Nat /\ One(p \in Opens) \in Nat
    BY <2>3 DEF One
  <2>6. iref' + (One(p \in Inodes) + One(p \in Opens) + One(p \in Iputs))
           = iref + (One(p \in Inodes') + One(p \in Opens') + One(p \in Iputs'))
    BY <1>1, <2>2, <2>4, <2>5
  <2>7. /\ iref' \in Nat
        /\ iref' = (Cardinality(Inodes') + Cardinality(Opens')) + Cardinality(Iputs')
    BY <2>2, <2>3, <2>4, <2>6, InodeStep
  <2> QED
    BY <1>1, <2>1, <2>7 DEF CountInv
<1>6. CASE ff[p].type = "INODE"
  <2>1. TypeOK'
    BY <1>1, <1>2, <1>5, <1>6 DEF TypeOK
  <2>2. \A q \in Proc, t \in PipeEnd : ff'[q].type = t <=> (q # p /\ ff[q].type = t)
    BY <1>2, <1>6 DEF PipeEnd
  <2>3. \A q \in Proc, t \in PipeEnd : ff[q].type = t => ff'[q] = ff[q]
    BY <1>2, <1>6 DEF PipeEnd
  <2>4. EndInv'
    BY <1>1, <1>2, <1>6, <2>2, <2>3 DEF EndInv, PipeEnd
  <2> QED
    BY <1>4, <1>5, <2>1, <2>4
<1>7. CASE ff[p].type # "INODE"
  <2>1. ff[p].type \in PipeEnd
    BY <1>3, <1>7 DEF Type, PipeEnd
  <2>2. PICK x \in Pipe, u \in PipeEnd : x = ff[p].pipe /\ u = ff[p].type
    BY <2>1 DEF EndInv
  <2>3. /\ pipeopen' \in [Pipe -> SUBSET {"r", "w"}]
        /\ pipeopen'[x] = pipeopen[x] \ {End(u)}
        /\ \A y \in Pipe : y # x => pipeopen'[y] = pipeopen[y]
    BY <1>1, <1>7, <2>2
  <2>4. TypeOK'
    BY <1>1, <1>2, <1>5, <2>3 DEF TypeOK
  <2>5. /\ \A g \in File : type[g] = u => pipe[g] # x
        /\ \A q \in Proc : q # p /\ ff[q].type = u => ff[q].pipe # x
    BY <2>2 DEF EndInv
  <2>6. \A t \in PipeEnd : End(t) = End(u) => t = u
    BY <2>2 DEF End, PipeEnd
  <2>7. \A q \in Proc : ff'[q].type \in PipeEnd => q # p /\ ff'[q] = ff[q]
    BY <1>2 DEF PipeEnd
  <2>8. /\ \A q \in Proc : ff'[q].type = "NONE" => ff'[q] = None
        /\ \A g \in File : type'[g] \in PipeEnd =>
             pipe'[g] \in Pipe /\ End(type'[g]) \in pipeopen'[pipe'[g]]
        /\ \A q \in Proc : ff'[q].type \in PipeEnd =>
             ff'[q].pipe \in Pipe /\ End(ff'[q].type) \in pipeopen'[ff'[q].pipe]
    <3>1. \A q \in Proc : ff'[q].type = "NONE" => ff'[q] = None
      BY <1>2 DEF EndInv
    <3>2. ASSUME NEW g \in File, type[g] \in PipeEnd
          PROVE  pipe[g] \in Pipe /\ End(type[g]) \in pipeopen'[pipe[g]]
      <4>1. pipe[g] \in Pipe /\ End(type[g]) \in pipeopen[pipe[g]]
        BY <3>2 DEF EndInv
      <4>2. pipe[g] = x => type[g] # u /\ End(type[g]) # End(u)
        BY <3>2, <2>5, <2>6
      <4> QED
        BY <4>1, <4>2, <2>3
    <3>3. ASSUME NEW q \in Proc, ff'[q].type \in PipeEnd
          PROVE  ff'[q].pipe \in Pipe /\ End(ff'[q].type) \in pipeopen'[ff'[q].pipe]
      <4>1. q # p /\ ff'[q] = ff[q] /\ ff[q].type \in PipeEnd
        BY <3>3, <2>7
      <4>2. ff[q].pipe \in Pipe /\ End(ff[q].type) \in pipeopen[ff[q].pipe]
        BY <4>1 DEF EndInv
      <4>3. ff[q].pipe = x => ff[q].type # u /\ End(ff[q].type) # End(u)
        BY <4>1, <2>5, <2>6
      <4> QED
        BY <4>1, <4>2, <4>3, <2>3
    <3> QED
      BY <3>1, <3>2, <3>3, <1>1
  <2>9. /\ \A g, i \in File :
             (type'[g] \in PipeEnd /\ type'[i] = type'[g] /\ pipe'[i] = pipe'[g]) => g = i
        /\ \A g \in File, q \in Proc :
             ~(type'[g] \in PipeEnd /\ ff'[q].type = type'[g] /\ ff'[q].pipe = pipe'[g])
        /\ \A q, r \in Proc :
             (ff'[q].type \in PipeEnd /\ ff'[r].type = ff'[q].type /\ ff'[r].pipe = ff'[q].pipe)
               => q = r
    BY <1>1, <2>7 DEF EndInv
  <2>10. \A y \in Pipe, t \in PipeEnd : End(t) \in pipeopen'[y] =>
           \/ \E g \in File : type'[g] = t /\ pipe'[g] = y
           \/ \E q \in Proc : ff'[q].type = t /\ ff'[q].pipe = y
    <3> SUFFICES ASSUME NEW y \in Pipe, NEW t \in PipeEnd, End(t) \in pipeopen'[y]
                 PROVE  \/ \E g \in File : type'[g] = t /\ pipe'[g] = y
                        \/ \E q \in Proc : ff'[q].type = t /\ ff'[q].pipe = y
      OBVIOUS
    <3>1. End(t) \in pipeopen[y] /\ ~(y = x /\ t = u)
      BY <2>3
    <3>2. CASE \E g \in File : type[g] = t /\ pipe[g] = y
      BY <3>2, <1>1
    <3>3. CASE \E q \in Proc : ff[q].type = t /\ ff[q].pipe = y
      <4>1. PICK q \in Proc : ff[q].type = t /\ ff[q].pipe = y
        BY <3>3
      <4>2. q # p
        BY <4>1, <3>1, <2>2
      <4> QED
        BY <4>1, <4>2, <1>2
    <3> QED
      BY <3>1, <3>2, <3>3 DEF EndInv
  <2>11. EndInv'
    BY <2>8, <2>9, <2>10 DEF EndInv
  <2> QED
    BY <1>4, <1>5, <2>4, <2>11
<1> QED
  BY <1>6, <1>7

-----------------------------------------------------------------------------
(***************************************************************************)
(* The invariant and the theorems                                          *)
(***************************************************************************)
\* sys_pipe(): every step of it, the ones that give up included.
LEMMA PipeIInv ==
  ASSUME IInv, NEW p \in Proc, PipeAlloc1(p) \/ PipeKalloc(p) \/ PipeFd(p)
  PROVE  IInv'
<1>1. CASE PipeAlloc1(p)
  <2>1. pc[p] = "pipe" /\ closing[p] = <<>>
    BY <1>1 DEF PipeAlloc1, At
  <2>2. CASE FreeFiles = {} /\ GiveUp(p, <<f0[p]>>) /\ UNCHANGED ref
    <3>1. /\ pc' = [pc EXCEPT ![p] = "idle"]
          /\ closing' = [closing EXCEPT ![p] = <<f0[p]>>]
          /\ f0' = [f0 EXCEPT ![p] = NoFile]
          /\ UNCHANGED <<ref, type, pipe, ofile, pipeopen, iref, child, ff, panicked>>
      BY <1>1, <2>2 DEF PipeAlloc1, GiveUp, Goto
    <3>2. f1' = f1
      <4>1. f1 \in [Proc -> File \cup {NoFile}] /\ f1[p] = NoFile
        BY <2>1 DEF IInv, TypeOK, PlaceInv
      <4>2. f1' = [f1 EXCEPT ![p] = NoFile]
        BY <2>2 DEF GiveUp
      <4> QED
        BY <4>1, <4>2
    <3> QED
      BY <2>1, <3>1, <3>2, GiveUpOneIInv
  <2>3. CASE (\E f \in FreeFiles : FileAlloc(p, f1, f)) /\ Goto(p, "pipe_kalloc")
             /\ UNCHANGED <<f0, closing>>
    BY <1>1, <2>3, AllocIInv
  <2> QED
    BY <1>1, <2>2, <2>3 DEF PipeAlloc1
<1>2. CASE PipeKalloc(p)
  <2>1. /\ pc[p] = "pipe_kalloc" /\ closing[p] = <<>>
        /\ UNCHANGED <<ref, ofile, iref, child, ff, panicked>>
    BY <1>2 DEF PipeKalloc, At
  <2>2. CASE GiveUp(p, <<f0[p], f1[p]>>) /\ UNCHANGED <<type, pipe, pipeopen>>
    BY <2>1, <2>2, GiveUpTwoIInv
  <2>3. CASE \E x \in Pipe :
               /\ pipeopen[x] = {}
               /\ pipeopen' = [pipeopen EXCEPT ![x] = {"r", "w"}]
               /\ type' = [type EXCEPT ![f0[p]] = "READ", ![f1[p]] = "WRITE"]
               /\ pipe' = [pipe EXCEPT ![f0[p]] = x, ![f1[p]] = x]
               /\ Goto(p, "pipe_fd")
               /\ UNCHANGED <<f0, f1, closing>>
    <3>1. PICK x \in Pipe :
               /\ pipeopen[x] = {}
               /\ pipeopen' = [pipeopen EXCEPT ![x] = {"r", "w"}]
               /\ type' = [type EXCEPT ![f0[p]] = "READ", ![f1[p]] = "WRITE"]
               /\ pipe' = [pipe EXCEPT ![f0[p]] = x, ![f1[p]] = x]
               /\ pc' = [pc EXCEPT ![p] = "pipe_fd"]
               /\ UNCHANGED <<f0, f1, closing>>
      BY <2>3 DEF Goto
    <3> QED
      BY <2>1, <3>1, PipeOpenIInv
  <2> QED
    BY <1>2, <2>2, <2>3 DEF PipeKalloc
<1>3. CASE PipeFd(p)
  <2>1. /\ pc[p] = "pipe_fd" /\ closing[p] = <<>>
        /\ UNCHANGED <<ref, type, pipe, pipeopen, iref, child, ff, panicked>>
    BY <1>3 DEF PipeFd, At, ftable
  <2>2. CASE Cardinality(FreeFds(p)) < 2
    <3>1. GiveUp(p, <<f0[p], f1[p]>>) /\ UNCHANGED ofile
      BY <1>3, <2>2 DEF PipeFd
    <3> QED
      BY <2>1, <3>1, GiveUpTwoIInv
  <2>3. CASE ~(Cardinality(FreeFds(p)) < 2)
    <3>1. PICK k \in FD, m \in FD :
            /\ k = Smallest(FreeFds(p)) /\ m = Smallest(FreeFds(p) \ {k}) /\ k # m
            /\ ofile[p][k] = NoFile /\ ofile[p][m] = NoFile
      BY <2>3, TwoFds
    <3>2. /\ ofile' = [ofile EXCEPT ![p][k] = f0[p], ![p][m] = f1[p]]
          /\ f0' = [f0 EXCEPT ![p] = NoFile] /\ f1' = [f1 EXCEPT ![p] = NoFile]
          /\ pc' = [pc EXCEPT ![p] = "idle"]
          /\ UNCHANGED closing
      BY <1>3, <2>3, <3>1 DEF PipeFd, Goto
    <3> QED
      BY <2>1, <3>1, <3>2, PipeInstallIInv
  <2> QED
    BY <2>2, <2>3
<1> QED
  BY <1>1, <1>2, <1>3

\* close(), and the loop of exit() with the step that ends it.
LEMMA CloseOrExitIInv ==
  ASSUME IInv, NEW p \in Proc, (\E fd \in FD : SysClose(p, fd)) \/ Exit(p)
  PROVE  IInv'
<1>1. CASE \E fd \in FD : SysClose(p, fd)
  <2>1. PICK fd \in FD : SysClose(p, fd)
    BY <1>1
  <2>2. /\ pc[p] = "idle" /\ closing[p] = <<>> /\ ofile[p][fd] # NoFile
        /\ ofile' = [ofile EXCEPT ![p][fd] = NoFile]
        /\ closing' = [closing EXCEPT ![p] = <<ofile[p][fd]>>]
        /\ UNCHANGED <<ref, type, pipe, pipeopen, iref, pc, f0, f1, child, ff, panicked>>
    BY <2>1 DEF SysClose, At, Argfd, ftable, locals
  <2> QED
    BY <2>2, CloseIInv
<1>2. CASE Exit(p)
  <2>1. /\ pc[p] = "exit" /\ closing[p] = <<>>
        /\ UNCHANGED <<ref, type, pipe, pipeopen, iref, f0, f1, child, ff, panicked>>
    BY <1>2 DEF Exit, At, ftable, locals
  <2>2. CASE FD \ FreeFds(p) = {}
    <3>1. pc' = [pc EXCEPT ![p] = "unused"] /\ UNCHANGED <<ofile, closing>>
      BY <1>2, <2>2 DEF Exit, Goto
    <3>2. /\ pc \in [Proc -> PC] /\ child \in [Proc -> Proc \cup {NoProc}] /\ iref \in Nat
          /\ \A q \in Proc : pc[q] = "fork" => child[q] \in Proc /\ pc[child[q]] = "embryo"
          /\ \A q, r \in Proc :
               (pc[q] = "fork" /\ pc[r] = "fork" /\ child[q] = child[r]) => q = r
      BY DEF IInv, TypeOK, PlaceInv
    <3>3. /\ \A q \in Proc : q # p => pc'[q] = pc[q]
          /\ pc'[p] = "unused" /\ pc' \in [Proc -> PC]
      BY <3>1, <3>2 DEF PC
    <3>4. \A q \in Proc : pc'[q] = pc[q] \/
            (pc[q] \notin LocalPC \cup {"open_set", "dup"}
               /\ pc'[q] \notin LocalPC \cup {"open_set", "dup"})
      BY <2>1, <3>3 DEF LocalPC
    <3>5. /\ \A q \in Proc : pc'[q] = "fork" => child'[q] \in Proc /\ pc'[child'[q]] = "embryo"
          /\ \A q, r \in Proc :
               (pc'[q] = "fork" /\ pc'[r] = "fork" /\ child'[q] = child'[r]) => q = r
          /\ child' \in [Proc -> Proc \cup {NoProc}]
      BY <2>1, <3>2, <3>3
    <3>6. Opens \ {p} = Opens' \ {p} /\ p \notin Opens /\ p \notin Opens'
      BY <2>1, <3>3 DEF Opens, OpenPC
    <3>7. iref' \in Int /\ iref' + One(p \in Opens) = iref + One(p \in Opens')
      BY <2>1, <3>2, <3>6 DEF One
    <3> QED
      BY <2>1, <3>1, <3>3, <3>4, <3>5, <3>6, <3>7, MoveIInv
  <2>3. CASE FD \ FreeFds(p) # {}
    <3>1. PICK k \in FD : k = Smallest(FD \ FreeFds(p)) /\ k \in FD \ FreeFds(p)
      BY <2>3, SmallestFd
    <3>2. ofile[p][k] # NoFile
      BY <3>1 DEF FreeFds
    <3>3. /\ ofile' = [ofile EXCEPT ![p][k] = NoFile]
          /\ closing' = [closing EXCEPT ![p] = <<ofile[p][k]>>]
          /\ UNCHANGED pc
      BY <1>2, <2>3, <3>1 DEF Exit
    <3> QED
      BY <2>1, <3>2, <3>3, CloseIInv
  <2> QED
    BY <2>2, <2>3
<1> QED
  BY <1>1, <1>2

\* Every step of the file table keeps the invariant.
LEMMA NextIInv == IInv /\ [Next]_vars => IInv'
<1> SUFFICES ASSUME IInv, [Next]_vars PROVE IInv'
  OBVIOUS
<1>1. CASE Next
  <2>1. PICK p \in Proc :
          \/ FileClose(p) \/ CloseResource(p)
          \/ SysOpen(p) \/ OpenAlloc(p) \/ OpenFd(p) \/ OpenSet(p) \/ OpenBad(p)
          \/ PipeAlloc0(p) \/ PipeAlloc1(p) \/ PipeKalloc(p) \/ PipeFd(p)
          \/ \E fd \in FD : SysDup(p, fd) \/ SysClose(p, fd)
          \/ DupRef(p)
          \/ \E q \in Proc : ForkBegins(p, q)
          \/ ForkDup(p) \/ ForkEnds(p)
          \/ SysExit(p) \/ Exit(p)
    BY <1>1 DEF Next
  <2>2. CASE FileClose(p) \/ CloseResource(p)
    BY <2>2, FileCloseIInv, CloseResourceIInv
  <2>3. CASE SysOpen(p) \/ OpenBad(p) \/ SysExit(p)
    BY <2>3, CallsIInv
  <2>4. CASE OpenAlloc(p) \/ PipeAlloc0(p)
    BY <2>4, AllocIInv
  <2>5. CASE OpenFd(p) \/ OpenSet(p)
    BY <2>5, OpenFdIInv, OpenSetIInv
  <2>6. CASE PipeAlloc1(p) \/ PipeKalloc(p) \/ PipeFd(p)
    BY <2>6, PipeIInv
  <2>7. CASE \E fd \in FD : SysDup(p, fd)
    BY <2>7, SysDupIInv
  <2>8. CASE (\E fd \in FD : SysClose(p, fd)) \/ Exit(p)
    BY <2>8, CloseOrExitIInv
  <2>9. CASE DupRef(p) \/ ForkDup(p)
    BY <2>9, DupRefIInv, ForkDupIInv
  <2>10. CASE (\E q \in Proc : ForkBegins(p, q)) \/ ForkEnds(p)
    BY <2>10, ForkIInv
  <2> QED
    BY <2>1, <2>2, <2>3, <2>4, <2>5, <2>6, <2>7, <2>8, <2>9, <2>10
<1>2. CASE UNCHANGED vars
  <2>1. UNCHANGED <<ref, type, pipe, ofile, pipeopen, iref, pc, f0, f1, child, closing, ff,
                    panicked>>
    BY <1>2 DEF vars, ftable, locals
  <2>2. TypeOK' /\ PlaceInv' /\ SetupInv' /\ EndInv'
    BY <2>1 DEF IInv, TypeOK, PlaceInv, SetupInv, EndInv
  <2>3. CountInv'
    <3>1. \A f : Descs(f)' = Descs(f) /\ Locals(f)' = Locals(f) /\ Seconds(f)' = Seconds(f)
      BY <2>1 DEF Descs, Locals, Seconds
    <3>2. \A f : Closings(f)' = Closings(f) /\ Dups(f)' = Dups(f)
      BY <2>1 DEF Closings, Dups
    <3>3. Inodes' = Inodes /\ Opens' = Opens /\ Iputs' = Iputs
      BY <2>1 DEF Inodes, Opens, Iputs
    <3>4. CountInv
      BY DEF IInv
    <3>5. \A f \in File : Exact(f)'
      BY <2>1, <3>1, <3>2, <3>4 DEF CountInv, Exact
    <3>6. iref' = (Cardinality(Inodes') + Cardinality(Opens')) + Cardinality(Iputs')
      BY <2>1, <3>3, <3>4 DEF CountInv
    <3> QED
      BY <2>1, <3>4, <3>5, <3>6 DEF CountInv
  <2> QED
    BY <2>2, <2>3 DEF IInv
<1> QED
  BY <1>1, <1>2

\* The inductive invariant of file.c and of the descriptor calls of sysfile.c.
THEOREM FileTableInvariant == Spec => []IInv
BY InitIInv, NextIInv, PTL DEF Spec

\* RefIsExact: f->ref counts the references to f exactly, the references to inodes
\* are exact too, and filedup() and fileclose() never panic, whatever processes do
\* in open, pipe, dup, close, fork and exit at the same time (file.c, sysfile.c).
THEOREM RefIsExactThm == Spec => []RefIsExact
<1>1. IInv => RefIsExact
  <2> SUFFICES ASSUME IInv PROVE RefIsExact
    OBVIOUS
  <2>1. ASSUME NEW f \in File PROVE ref[f] + Owed(f) = Owners(f)
    <3>1. Exact(f)
      BY DEF IInv, CountInv
    <3>2. Owed(f) = Cardinality(Dups(f))
      BY DEF Owed, Dups
    <3>3. Owners(f) = ((Cardinality(Descs(f)) + Cardinality(Locals(f)))
                        + Cardinality(Seconds(f))) + Cardinality(Closings(f))
      BY DEF Owners, Descs, Locals, LocalPC, Seconds, Closings
    <3> QED
      BY <3>1, <3>2, <3>3 DEF Exact
  <2>2. InodeRefs
    BY DEF IInv, CountInv, InodeRefs, Inodes, Opens, OpenPC, Iputs
  <2> QED
    BY <2>1, <2>2 DEF IInv, CountInv, RefIsExact
<1> QED
  BY <1>1, FileTableInvariant, PTL

\* PipeLifetime: a descriptor that a process can use leads to a file that is set up
\* and to an open end of a pipe that no other file has, and a pipe is allocated
\* exactly as long as something refers to it (pipealloc, pipeclose, fileclose).
THEOREM PipeLifetimeThm == Spec => []PipeLifetime
<1>1. IInv => PipeLifetime
  <2> SUFFICES ASSUME IInv PROVE PipeLifetime
    OBVIOUS
  <2>1. DescriptorsUsable
    <3> SUFFICES ASSUME NEW p \in Proc, NEW fd \in FD, pc[p] = "idle", ofile[p][fd] # NoFile
                 PROVE  LET f == ofile[p][fd] IN
                        /\ type[f] # "NONE"
                        /\ type[f] = "READ" => "r" \in pipeopen[pipe[f]]
                        /\ type[f] = "WRITE" => "w" \in pipeopen[pipe[f]]
                        /\ type[f] \in {"READ", "WRITE"} =>
                             \A g \in File \ {f} : ~(type[g] = type[f] /\ pipe[g] = pipe[f])
      BY DEF DescriptorsUsable
    <3>1. PICK f \in File : f = ofile[p][fd]
      BY DEF IInv, TypeOK
    <3>2. type[f] # "NONE"
      BY <3>1 DEF IInv, SetupInv
    <3>3. /\ type[f] = "READ" => "r" \in pipeopen[pipe[f]]
          /\ type[f] = "WRITE" => "w" \in pipeopen[pipe[f]]
      BY DEF IInv, EndInv, PipeEnd, End
    <3>4. type[f] \in {"READ", "WRITE"} =>
            \A g \in File \ {f} : ~(type[g] = type[f] /\ pipe[g] = pipe[f])
      BY DEF IInv, EndInv, PipeEnd
    <3> QED
      BY <3>1, <3>2, <3>3, <3>4
  <2>2. ASSUME NEW x \in Pipe
        PROVE  pipeopen[x] # {} <=>
                 \/ \E f \in File : type[f] \in {"READ", "WRITE"} /\ pipe[f] = x
                 \/ \E p \in Proc : ff[p].type \in {"READ", "WRITE"} /\ ff[p].pipe = x
    <3>1. ASSUME pipeopen[x] # {}
          PROVE  \/ \E f \in File : type[f] \in {"READ", "WRITE"} /\ pipe[f] = x
                 \/ \E p \in Proc : ff[p].type \in {"READ", "WRITE"} /\ ff[p].pipe = x
      <4>1. pipeopen[x] \in SUBSET {"r", "w"}
        BY DEF IInv, TypeOK
      <4>2. PICK t \in PipeEnd : End(t) \in pipeopen[x]
        BY <3>1, <4>1 DEF End, PipeEnd
      <4> QED
        BY <4>2 DEF IInv, EndInv, PipeEnd
    <3>2. ASSUME NEW f \in File, type[f] \in {"READ", "WRITE"}, pipe[f] = x
          PROVE  pipeopen[x] # {}
      BY <3>2 DEF IInv, EndInv, PipeEnd
    <3>3. ASSUME NEW p \in Proc, ff[p].type \in {"READ", "WRITE"}, ff[p].pipe = x
          PROVE  pipeopen[x] # {}
      BY <3>3 DEF IInv, EndInv, PipeEnd
    <3> QED
      BY <3>1, <3>2, <3>3
  <2> QED
    BY <2>1, <2>2 DEF PipeLifetime
<1> QED
  BY <1>1, FileTableInvariant, PTL
-----------------------------------------------------------------------------
(***************************************************************************)
(* The contents of files                                                   *)
(***************************************************************************)

\* An inode, and the calls in progress.
INode == [size : Nat, addrs : [0..NDIRECT -> Nat]]

WriteCall == [op : {"write"}, f : File, n : Nat, done : Nat]
CopyCall == [op : {"copy"}, f : File, n : Nat, done : Nat, n1 : Nat, tot : Nat, dirty : SUBSET Nat]
ReadCall == [op : {"read"}, f : File, n1 : Nat, tot : Nat, dirty : SUBSET Nat]
TruncCall == [op : {"trunc"}, i : Inum, j : Nat]
Calls == {Idle} \cup WriteCall \cup CopyCall \cup ReadCall \cup TruncCall

\* Types.
DataTyped ==
  /\ mk \in Nat /\ freeblock \in Nat /\ used \in SUBSET (0 .. FSSIZE - 1)
  /\ disk \in [0 .. FSSIZE - 1 -> [Cells -> Nat]]
  /\ dip \in [Inum -> INode] /\ ip \in [Inum -> INode]
  /\ lock \in [Inum -> Proc \cup {NoProc}]
  /\ off \in [File -> Nat]
  /\ call \in [Proc -> Calls]

\* The block each place of the inodes N names.
Table(N) == [i \in Inum |-> [j \in 0..MAXFILE |-> Cell(N[i], j)]]

\* What itrunc() has passed.
Dead == [i \in Inum |-> {j \in 0..MAXFILE : Truncating(i, j)}]
NoneDead == [i \in Inum |-> {}]

\* The table c, without the dead places d, names every block of U that is not
\* metadata, and names it once.
Owned(c, d, U) ==
  /\ \A i \in Inum, j \in 0..MAXFILE :
       c[i][j] # 0 /\ j \notin d[i] => c[i][j] \in U /\ c[i][j] >= nmeta
  /\ \A i, k \in Inum, j, l \in 0..MAXFILE :
       c[i][j] # 0 /\ j \notin d[i] /\ l \notin d[k] /\ c[i][j] = c[k][l] => i = k /\ j = l
  /\ \A b \in U : b < nmeta \/ \E i \in Inum, j \in 0..MAXFILE : j \notin d[i] /\ c[i][j] = b
  /\ \A b \in 0 .. nmeta - 1 : b \in U

\* Every block below the size of n is there.
Full(n, size) == \A bn \in 0 .. MAXFILE - 1 : bn * BSIZE < size => Mapped(n, bn) # 0

\* What mkfs has written: the blocks below freeblock are in use, each once, the
\* others are still zero, and no file has holes.
MkBlocks ==
  /\ \A i \in Inum : dip[i].size <= MAXFILE * BSIZE /\ Full(dip[i], dip[i].size)
  /\ nmeta <= freeblock
  /\ \A b \in 0 .. FSSIZE - 1 : b >= freeblock => disk[b] = Zeroes
  /\ Owned(Table(dip), NoneDead, 0 .. freeblock - 1)

\* How far mkfs is.
MkProgress ==
  /\ mk \in 1 .. Len(Sources) + 3
  /\ used = {} /\ lock = [i \in Inum |-> NoProc] /\ off = [f \in File |-> 0]
  /\ call = [p \in Proc |-> Idle]
  /\ dip[ROOTINO].size = (mk - 1) * DIRENT
  /\ \A i \in Inum : i # ROOTINO =>
       /\ dip[i].size <= Sources[i - 1]
       /\ dip[i].size % BSIZE = 0 \/ dip[i].size = Sources[i - 1]

\* The invariant while mkfs runs.
MkInv == MkBlocks /\ MkProgress

\* p is in the loop of readi() or writei().
Moves(p) == call[p].op \in {"copy", "read"}

\* p works under the lock of its inode.
Hold(p) ==
  /\ Moves(p) => lock[Ino(p)] = p
  /\ call[p].op = "trunc" => lock[call[p].i] = p

\* A round stops at the end of a block or with the chunk, and the chunk ends
\* within the largest file, or, for a read, within the file.
Chunk(p) == Moves(p) =>
  /\ call[p].n1 >= 1 /\ call[p].tot <= call[p].n1
  /\ call[p].tot = 0 \/ call[p].tot = call[p].n1 \/ Position(p) % BSIZE = 0
  /\ call[p].op = "copy" => call[p].n1 <= max /\ off[call[p].f] + call[p].n1 <= MAXFILE * BSIZE
  /\ call[p].op = "read" => off[call[p].f] + call[p].n1 <= ip[Ino(p)].size

\* What a writer has copied is in blocks.
Copying(p) == call[p].op = "copy" => Full(ip[Ino(p)], Position(p))

\* How far itrunc() is.
Passed(p) == call[p].op = "trunc" =>
  /\ call[p].j <= MAXFILE + 1
  /\ \A k \in 0 .. NDIRECT - 1 : k < call[p].j => ip[call[p].i].addrs[k] = 0
  /\ call[p].j = MAXFILE + 1 => ip[call[p].i].addrs[NDIRECT] = 0
  /\ \A f \in File : IpOf[f] = call[p].i => off[f] = 0

\* What filewrite() has left to write.
Writing(p) ==
  /\ call[p].op = "write" => call[p].done < call[p].n /\ call[p].n < UINT
  /\ call[p].op = "copy" => call[p].done + call[p].n1 <= call[p].n /\ call[p].n < UINT

\* What holds of a process.
ProcInv(p) == Hold(p) /\ Chunk(p) /\ Copying(p) /\ Passed(p) /\ Writing(p)

\* itrunc() is working on i; writei() will find that i has grown.
Truncated(i) == \E p \in Proc : call[p].op = "trunc" /\ call[p].i = i
Growing(i) ==
  \E p \in Proc : call[p].op = "copy" /\ Ino(p) = i /\ off[call[p].f] + call[p].n1 > ip[i].size

\* A file has no holes, and its inode is saved unless a truncation or a write
\* that will save it is under way.
InoInv(i) ==
  /\ ip[i].size <= MAXFILE * BSIZE
  /\ Truncated(i) \/ Full(ip[i], ip[i].size)
  /\ dip[i] = ip[i] \/ Truncated(i) \/ Growing(i)

\* An offset is not past the end.
OffInv(f) == off[f] <= ip[IpOf[f]].size

\* The invariant once the kernel runs: the bitmap is exactly what the inodes in
\* memory name, less what itrunc() has passed.
KernelInv ==
  /\ \A p \in Proc : ProcInv(p)
  /\ \A i \in Inum : InoInv(i)
  /\ \A f \in File : OffInv(f)
  /\ Owned(Table(ip), Dead, used)

\* The inductive invariant.
DataInv == DataTyped /\ (mk # 0 => MkInv) /\ (mk = 0 => KernelInv)

\* mkfs does not check that the image it writes fits on the disk.
ImageFits == freeblock <= FSSIZE
-----------------------------------------------------------------------------
\* Quotient and remainder.
LEMMA DivMod ==
  ASSUME NEW a \in Nat, NEW b \in Nat \ {0}
  PROVE  /\ a \div b \in Nat /\ a % b \in Nat /\ a % b < b
         /\ a = b * (a \div b) + (a % b)
  OBVIOUS

\* The quotient is the number of whole multiples.
LEMMA DivBounds ==
  ASSUME NEW a \in Nat, NEW b \in Nat \ {0}, NEW q \in Nat, q * b <= a, a < (q + 1) * b
  PROVE  a \div b = q /\ a % b = a - q * b
<1> DEFINE d == a \div b
<1> DEFINE m == a % b
<1>1. d \in Nat /\ m \in Nat /\ m < b /\ a = b * d + m
  BY DivMod
<1> HIDE DEF d, m
<1>2. ~(d < q)
  <2> SUFFICES ASSUME d < q PROVE FALSE
    OBVIOUS
  <2>1. (d + 1) * b <= q * b
    BY <1>1
  <2> QED
    BY <1>1, <2>1
<1>3. ~(d > q)
  <2> SUFFICES ASSUME d > q PROVE FALSE
    OBVIOUS
  <2>1. (q + 1) * b <= d * b
    BY <1>1
  <2> QED
    BY <1>1, <2>1
<1> QED
  BY <1>1, <1>2, <1>3 DEF d, m

\* Multiplication keeps the order.
LEMMA MulMono ==
  ASSUME NEW a \in Nat, NEW b \in Nat, NEW c \in Nat, a <= b
  PROVE  a * c <= b * c
  OBVIOUS

\* And reflects it.
LEMMA MulLess ==
  ASSUME NEW a \in Nat, NEW b \in Nat, NEW c \in Nat \ {0}, a * c < b * c
  PROVE  a < b
  OBVIOUS

\* What is added up to the end of a block stays below the next.
LEMMA NextBlock ==
  ASSUME NEW a \in Nat, NEW b \in Nat \ {0}, NEW n \in Nat, n <= b - (a % b)
  PROVE  a + n <= (a \div b + 1) * b
  BY DivMod
-----------------------------------------------------------------------------
\* The constants.
LEMMA Sizes ==
  /\ BSIZE \in Nat \ {0} /\ NDIRECT \in Nat /\ MAXFILE \in Nat /\ MAXFILE = NDIRECT + BSIZE
  /\ FSSIZE \in Nat /\ nmeta \in Nat \ {0} /\ Len(Sources) \in Nat
  /\ Inum = 1 .. Len(Sources) + 1 /\ ROOTINO = 1 /\ ROOTINO \in Inum /\ Cells = 0 .. BSIZE - 1
  /\ DIRENT \in Nat \ {0} /\ UINT \in Nat /\ MAXFILE * BSIZE < UINT /\ MAXFILE * BSIZE \in Nat
  /\ NoProc \notin Proc /\ IpOf \in [File -> Inum]
<1>1. /\ BSIZE \in Nat \ {0} /\ NDIRECT \in Nat /\ IPB \in Nat \ {0} /\ FSSIZE \in Nat
      /\ NINODES \in Nat /\ NLOG \in Nat /\ Sources \in Seq(Nat)
  BY LayoutAssumption
<1>2. NINODES \div IPB \in Nat /\ BSIZE * 8 \in Nat \ {0}
  BY <1>1, DivMod
<1>3. FSSIZE \div (BSIZE * 8) \in Nat
  BY <1>1, <1>2, DivMod
<1>4. nmeta \in Nat \ {0}
  BY <1>1, <1>2, <1>3 DEF nmeta, ninodeblocks, nbitmap
<1>5. MAXFILE \in Nat /\ MAXFILE = NDIRECT + BSIZE
  BY <1>1 DEF MAXFILE, NINDIRECT
<1>6. Len(Sources) \in Nat
  BY <1>1
<1> QED
  BY <1>1, <1>4, <1>5, <1>6, LayoutAssumption, CallAssumption DEF Inum, ROOTINO, Cells

\* The smaller of two numbers.
LEMMA MinPair ==
  ASSUME NEW a \in Nat, NEW b \in Nat
  PROVE  /\ Min({a, b}) \in Nat /\ Min({a, b}) <= a /\ Min({a, b}) <= b
         /\ Min({a, b}) = a \/ Min({a, b}) = b
<1>1. \E x \in {a, b} : \A y \in {a, b} : x =< y
  BY a <= b \/ b <= a
<1>2. Min({a, b}) \in {a, b} /\ \A y \in {a, b} : Min({a, b}) =< y
  BY <1>1 DEF Min
<1> QED
  BY <1>2

\* The smallest member.
LEMMA MinMember ==
  ASSUME NEW S \in SUBSET Nat, S # {}
  PROVE  Min(S) \in S /\ \A y \in S : Min(S) =< y
<1>1. \E x \in S : \A y \in S : <<y, x>> \notin OpToRel(<, Nat)
  BY NatLessThanWellFounded, WFMin
<1>2. PICK x \in S : \A y \in S : <<y, x>> \notin OpToRel(<, Nat)
  BY <1>1
<1>3. ASSUME NEW y \in S PROVE x =< y
  <2>1. x \in Nat /\ y \in Nat
    OBVIOUS
  <2>2. y < x => <<y, x>> \in OpToRel(<, Nat)
    BY <2>1 DEF OpToRel
  <2>3. ~(y < x)
    BY <1>2, <2>2, Zenon
  <2> QED
    BY <2>1, <2>3
<1> QED
  BY <1>3 DEF Min

-----------------------------------------------------------------------------
\* The table of places names the same blocks.
LEMMA OwnedSame ==
  ASSUME NEW c, NEW d, NEW c1, NEW d1, NEW U, Owned(c, d, U),
         \A i \in Inum, j \in 0..MAXFILE :
           /\ c[i][j] # 0 /\ j \notin d[i] => c1[i][j] = c[i][j] /\ j \notin d1[i]
           /\ c1[i][j] # 0 /\ j \notin d1[i] => c1[i][j] = c[i][j] /\ j \notin d[i]
  PROVE  Owned(c1, d1, U)
<1>0. nmeta \in Nat \ {0} /\ MAXFILE \in Nat
  BY Sizes
<1>1. \A b \in U : b < nmeta \/ \E i \in Inum, j \in 0..MAXFILE : j \notin d1[i] /\ c1[i][j] = b
  <2> SUFFICES ASSUME NEW b \in U, ~(b < nmeta)
               PROVE  \E i \in Inum, j \in 0..MAXFILE : j \notin d1[i] /\ c1[i][j] = b
    OBVIOUS
  <2>1. PICK i \in Inum, j \in 0..MAXFILE : j \notin d[i] /\ c[i][j] = b
    BY DEF Owned
  <2>2. b # 0
    BY <1>0
  <2> QED
    BY <2>1, <2>2
<1>2. \A i, k \in Inum, j, l \in 0..MAXFILE :
        c1[i][j] # 0 /\ j \notin d1[i] /\ l \notin d1[k] /\ c1[i][j] = c1[k][l] => i = k /\ j = l
  <2> SUFFICES ASSUME NEW i \in Inum, NEW k \in Inum, NEW j \in 0..MAXFILE, NEW l \in 0..MAXFILE,
                      c1[i][j] # 0, j \notin d1[i], l \notin d1[k], c1[i][j] = c1[k][l]
               PROVE  i = k /\ j = l
    OBVIOUS
  <2>1. c[i][j] # 0 /\ j \notin d[i] /\ l \notin d[k] /\ c[i][j] = c[k][l]
    OBVIOUS
  <2> QED
    BY <2>1 DEF Owned
<1>3. \A i \in Inum, j \in 0..MAXFILE :
        c1[i][j] # 0 /\ j \notin d1[i] => c1[i][j] \in U /\ c1[i][j] >= nmeta
  BY DEF Owned
<1>4. \A b \in 0 .. nmeta - 1 : b \in U
  BY DEF Owned
<1> QED
  BY <1>1, <1>2, <1>3, <1>4 DEF Owned

\* A free block is given to the place <<i, j>>.
LEMMA OwnedAdd ==
  ASSUME NEW c, NEW d, NEW U, Owned(c, d, U), NEW c1, NEW b \in Nat, b \notin U,
         NEW i \in Inum, NEW j \in 0..MAXFILE, c[i][j] = 0, c1[i][j] = b, j \notin d[i],
         \A k \in Inum, l \in 0..MAXFILE : (k # i \/ l # j) => c1[k][l] = c[k][l]
  PROVE  Owned(c1, d, U \cup {b})
<1>0. nmeta \in Nat \ {0} /\ MAXFILE \in Nat
  BY Sizes
<1>1. b >= nmeta /\ b # 0
  BY <1>0 DEF Owned
<1>2. \A x \in U \cup {b} : x < nmeta \/ \E k \in Inum, l \in 0..MAXFILE : l \notin d[k] /\ c1[k][l] = x
  <2> SUFFICES ASSUME NEW x \in U \cup {b}, ~(x < nmeta)
               PROVE  \E k \in Inum, l \in 0..MAXFILE : l \notin d[k] /\ c1[k][l] = x
    OBVIOUS
  <2>1. CASE x = b
    BY <2>1
  <2>2. CASE x # b
    <3>1. PICK k \in Inum, l \in 0..MAXFILE : l \notin d[k] /\ c[k][l] = x
      BY <2>2 DEF Owned
    <3>2. x # 0
      BY <1>0
    <3> QED
      BY <3>1, <3>2
  <2> QED
    BY <2>1, <2>2
<1>3. \A k \in Inum, l \in 0..MAXFILE :
        c1[k][l] # 0 /\ l \notin d[k] => c1[k][l] \in U \cup {b} /\ c1[k][l] >= nmeta
  BY <1>1 DEF Owned
<1>4. ASSUME NEW k \in Inum, NEW l \in 0..MAXFILE, NEW m \in Inum, NEW n \in 0..MAXFILE,
             c1[k][l] # 0, l \notin d[k], n \notin d[m], c1[k][l] = c1[m][n]
      PROVE  k = m /\ l = n
  <2>1. CASE k = i /\ l = j
    <3>1. m = i /\ n = j
      <4> SUFFICES ASSUME m # i \/ n # j PROVE FALSE
        OBVIOUS
      <4>1. c[m][n] = b
        BY <1>4, <2>1
      <4> QED
        BY <1>1, <1>4, <4>1 DEF Owned
    <3> QED
      BY <2>1, <3>1
  <2>2. CASE k # i \/ l # j
    <3>1. c[k][l] = c1[k][l] /\ c[k][l] \in U
      BY <1>4, <2>2 DEF Owned
    <3>2. m # i \/ n # j
      BY <1>4, <3>1
    <3>3. c[m][n] = c1[m][n]
      BY <3>2
    <3> QED
      BY <1>4, <3>1, <3>3 DEF Owned
  <2> QED
    BY <2>1, <2>2
<1>5. \A x \in 0 .. nmeta - 1 : x \in U \cup {b}
  BY DEF Owned
<1> QED
  BY <1>2, <1>3, <1>4, <1>5 DEF Owned

\* The block at <<i, j>> is freed, and the place is dead.
LEMMA OwnedFree ==
  ASSUME NEW c, NEW d, NEW U, Owned(c, d, U), NEW c1, NEW d1,
         NEW i \in Inum, NEW j \in 0..MAXFILE, c[i][j] # 0, j \notin d[i], j \in d1[i],
         \A k \in Inum, l \in 0..MAXFILE :
           /\ l \notin d1[k] => l \notin d[k] /\ c1[k][l] = c[k][l]
           /\ l \notin d[k] /\ c[k][l] # 0 /\ (k # i \/ l # j) => l \notin d1[k]
  PROVE  Owned(c1, d1, U \ {c[i][j]})
<1>0. nmeta \in Nat \ {0} /\ MAXFILE \in Nat
  BY Sizes
<1>1. \A k \in Inum, l \in 0..MAXFILE :
        c1[k][l] # 0 /\ l \notin d1[k] => c1[k][l] \in U \ {c[i][j]} /\ c1[k][l] >= nmeta
  BY DEF Owned
<1>2. \A k, m \in Inum, l, n \in 0..MAXFILE :
        c1[k][l] # 0 /\ l \notin d1[k] /\ n \notin d1[m] /\ c1[k][l] = c1[m][n] => k = m /\ l = n
  BY DEF Owned
<1>3. c[i][j] >= nmeta
  BY DEF Owned
<1>4. \A b \in 0 .. nmeta - 1 : b \in U \ {c[i][j]}
  <2> SUFFICES ASSUME NEW b \in 0 .. nmeta - 1 PROVE b \in U /\ b # c[i][j]
    OBVIOUS
  <2> QED
    BY <1>0, <1>3 DEF Owned
<1>5. ASSUME NEW b \in U \ {c[i][j]}, ~(b < nmeta)
      PROVE  \E k \in Inum, l \in 0..MAXFILE : l \notin d1[k] /\ c1[k][l] = b
  <2>1. PICK k \in Inum, l \in 0..MAXFILE : l \notin d[k] /\ c[k][l] = b
    BY <1>5 DEF Owned
  <2>2. b # 0
    BY <1>0, <1>5
  <2> QED
    BY <2>1, <2>2
<1> QED
  BY <1>1, <1>2, <1>4, <1>5 DEF Owned
-----------------------------------------------------------------------------
\* The shape of a call.
LEMMA Shapes ==
  ASSUME NEW c \in Calls
  PROVE  /\ c.op \in {"idle", "write", "copy", "read", "trunc"}
         /\ c.op = "idle" => c = Idle
         /\ c.op = "write" => c \in WriteCall
         /\ c.op = "copy" => c \in CopyCall
         /\ c.op = "read" => c \in ReadCall
         /\ c.op = "trunc" => c \in TruncCall
BY DEF Calls, Idle, WriteCall, CopyCall, ReadCall, TruncCall

\* What p copies or reads.
LEMMA Mover ==
  ASSUME DataTyped, NEW p \in Proc, Moves(p)
  PROVE  /\ call[p].f \in File /\ call[p].n1 \in Nat /\ call[p].tot \in Nat
         /\ call[p].dirty \in SUBSET Nat /\ Ino(p) \in Inum /\ Ino(p) = IpOf[call[p].f]
         /\ off[call[p].f] \in Nat /\ Position(p) \in Nat
         /\ Position(p) = off[call[p].f] + call[p].tot
         /\ Bn(p) \in Nat /\ Bn(p) = Position(p) \div BSIZE
         /\ call[p].op # "trunc" /\ call[p].op # "idle" /\ call[p].op # "write"
<1>1. call[p] \in Calls
  BY DEF DataTyped
<1>2. call[p] \in CopyCall \/ call[p] \in ReadCall
  BY <1>1, Shapes DEF Moves
<1>3. /\ call[p].f \in File /\ call[p].n1 \in Nat /\ call[p].tot \in Nat
      /\ call[p].dirty \in SUBSET Nat
  BY <1>2 DEF CopyCall, ReadCall
<1>4. Ino(p) \in Inum /\ off[call[p].f] \in Nat
  BY <1>3, Sizes DEF Ino, DataTyped
<1>5. Position(p) \in Nat
  BY <1>3, <1>4 DEF Position
<1>6. Bn(p) \in Nat
  BY <1>5, Sizes, DivMod DEF Bn
<1> QED
  BY <1>3, <1>4, <1>5, <1>6 DEF Ino, Position, Bn, Moves

\* What p truncates.
LEMMA Truncator ==
  ASSUME DataTyped, NEW p \in Proc, call[p].op = "trunc"
  PROVE  call[p].i \in Inum /\ call[p].j \in Nat /\ ~Moves(p)
<1>1. call[p] \in TruncCall
  BY Shapes DEF DataTyped
<1> QED
  BY <1>1 DEF TruncCall, Moves

\* The places of an inode.
LEMMA CellCases ==
  ASSUME NEW n, NEW j \in 0..MAXFILE
  PROVE  /\ j < NDIRECT => Cell(n, j) = n.addrs[j] /\ Mapped(n, j) = n.addrs[j]
         /\ j >= NDIRECT /\ j < MAXFILE => Cell(n, j) = Mapped(n, j)
         /\ j >= NDIRECT /\ j < MAXFILE /\ n.addrs[NDIRECT] = 0 => Mapped(n, j) = 0
         /\ j >= NDIRECT /\ j < MAXFILE /\ n.addrs[NDIRECT] # 0 =>
              Mapped(n, j) = disk[n.addrs[NDIRECT]][j - NDIRECT] /\ j - NDIRECT \in Cells
         /\ j = MAXFILE => Cell(n, j) = n.addrs[NDIRECT]
<1>1. NDIRECT \in Nat /\ BSIZE \in Nat \ {0} /\ MAXFILE = NDIRECT + BSIZE /\ Cells = 0 .. BSIZE - 1
  BY Sizes
<1> QED
  BY <1>1 DEF Cell, Mapped

\* The indirect block of an inode is in use, and nothing else names it.
LEMMA IndUsed ==
  ASSUME DataTyped, KernelInv, NEW i \in Inum, ip[i].addrs[NDIRECT] # 0
  PROVE  /\ MAXFILE \notin Dead[i] /\ ip[i].addrs[NDIRECT] \in used
         /\ ip[i].addrs[NDIRECT] \in 0 .. FSSIZE - 1 /\ ip[i].addrs[NDIRECT] >= nmeta
         /\ \A k \in Inum, l \in 0..MAXFILE :
              l \notin Dead[k] /\ Cell(ip[k], l) = ip[i].addrs[NDIRECT] => k = i /\ l = MAXFILE
<1>0. MAXFILE \in 0..MAXFILE /\ MAXFILE \in Nat
  BY Sizes
<1>1. MAXFILE \notin Dead[i]
  <2> SUFFICES ASSUME Truncating(i, MAXFILE) PROVE FALSE
    BY DEF Dead
  <2>1. PICK p \in Proc : call[p].op = "trunc" /\ call[p].i = i /\ MAXFILE < call[p].j
    BY DEF Truncating
  <2>2. call[p].j \in Nat /\ Passed(p)
    BY <2>1, Truncator DEF KernelInv, ProcInv
  <2>3. call[p].j = MAXFILE + 1
    BY <1>0, <2>1, <2>2 DEF Passed
  <2> QED
    BY <2>1, <2>2, <2>3 DEF Passed
<1>2. Cell(ip[i], MAXFILE) = ip[i].addrs[NDIRECT]
  BY <1>0, CellCases
<1>3. \A k \in Inum, l \in 0..MAXFILE : Table(ip)[k][l] = Cell(ip[k], l)
  BY DEF Table
<1>4. Owned(Table(ip), Dead, used)
  BY DEF KernelInv
<1>5. Table(ip)[i][MAXFILE] = ip[i].addrs[NDIRECT]
  BY <1>0, <1>2, <1>3
<1>6. ip[i].addrs[NDIRECT] \in used /\ ip[i].addrs[NDIRECT] >= nmeta
  BY <1>0, <1>1, <1>4, <1>5 DEF Owned
<1>7. ip[i].addrs[NDIRECT] \in 0 .. FSSIZE - 1
  BY <1>6 DEF DataTyped
<1>8. ASSUME NEW k \in Inum, NEW l \in 0..MAXFILE, l \notin Dead[k], Cell(ip[k], l) = ip[i].addrs[NDIRECT]
      PROVE  k = i /\ l = MAXFILE
  <2>1. Table(ip)[k][l] = Table(ip)[i][MAXFILE]
    BY <1>3, <1>5, <1>8
  <2>2. Table(ip)[i][MAXFILE] # 0
    BY <1>5
  <2> QED
    BY <1>0, <1>1, <1>4, <1>8, <2>1, <2>2 DEF Owned
<1> QED
  BY <1>1, <1>6, <1>7, <1>8

\* A place holds a block number.
LEMMA CellNat ==
  ASSUME DataTyped, KernelInv, NEW i \in Inum, NEW j \in 0..MAXFILE
  PROVE  Cell(ip[i], j) \in Nat /\ (j < MAXFILE => Mapped(ip[i], j) \in Nat /\ Mapped(ip[i], j) = Cell(ip[i], j))
<1>1. ip[i] \in INode
  BY DEF DataTyped
<1>2. ip[i].addrs \in [0..NDIRECT -> Nat]
  BY <1>1 DEF INode
<1>3. NDIRECT \in Nat /\ MAXFILE \in Nat /\ MAXFILE >= NDIRECT
  BY Sizes
<1>4. CASE j < NDIRECT
  BY <1>2, <1>3, <1>4, CellCases
<1>5. CASE j = MAXFILE
  BY <1>2, <1>3, <1>5, CellCases
<1>6. CASE j >= NDIRECT /\ j < MAXFILE /\ ip[i].addrs[NDIRECT] = 0
  BY <1>6, CellCases
<1>7. CASE j >= NDIRECT /\ j < MAXFILE /\ ip[i].addrs[NDIRECT] # 0
  <2>1. ip[i].addrs[NDIRECT] \in 0 .. FSSIZE - 1
    BY <1>7, IndUsed
  <2>2. disk[ip[i].addrs[NDIRECT]] \in [Cells -> Nat]
    BY <2>1 DEF DataTyped
  <2>3. /\ Cell(ip[i], j) = Mapped(ip[i], j) /\ j - NDIRECT \in Cells
        /\ Mapped(ip[i], j) = disk[ip[i].addrs[NDIRECT]][j - NDIRECT]
    BY <1>7, CellCases
  <2> QED
    BY <2>2, <2>3
<1> QED
  BY <1>3, <1>4, <1>5, <1>6, <1>7

-----------------------------------------------------------------------------
\* A step of p that concerns the inode i alone, or none.
Touches(p, i) ==
  /\ i \in Inum => lock[i] \in {p, NoProc}
  /\ Moves(p) => Ino(p) = i
  /\ call[p].op = "trunc" => call[p].i = i
  /\ call'[p].op = "trunc" => call'[p].i = i
  /\ \A q \in Proc : q # p => call'[q] = call[q]
  /\ \A k \in Inum : k # i => ip'[k] = ip[k] /\ dip'[k] = dip[k] /\ lock'[k] = lock[k]
  /\ \A k \in Inum : k # i /\ ip[k].addrs[NDIRECT] # 0 =>
       disk'[ip[k].addrs[NDIRECT]] = disk[ip[k].addrs[NDIRECT]]
  /\ \A f \in File : IpOf[f] # i => off'[f] = off[f]

\* Such a step keeps the invariant.
Kept(p) == KernelInv' /\ \E i : Touches(p, i)

\* The places of the other inodes.
LEMMA OtherCells ==
  ASSUME NEW p \in Proc, NEW i, Touches(p, i), NEW k \in Inum, k # i
  PROVE  /\ \A bn : Mapped(ip[k], bn)' = Mapped(ip[k], bn)
         /\ \A j : Cell(ip[k], j)' = Cell(ip[k], j)
<1>1. ip'[k] = ip[k] /\ (ip[k].addrs[NDIRECT] # 0 =>
        disk'[ip[k].addrs[NDIRECT]] = disk[ip[k].addrs[NDIRECT]])
  BY DEF Touches
<1>2. \A bn : Mapped(ip[k], bn)' = Mapped(ip[k], bn)
  BY <1>1 DEF Mapped
<1> QED
  BY <1>1, <1>2 DEF Cell

\* Nobody else works on i.
LEMMA OtherProcs ==
  ASSUME DataTyped, KernelInv, NEW p \in Proc, NEW i, Touches(p, i), NEW q \in Proc, q # p
  PROVE  (Moves(q) => Ino(q) # i) /\ (call[q].op = "trunc" => call[q].i # i)
<1>1. Hold(q) /\ q # NoProc
  BY Sizes DEF KernelInv, ProcInv
<1>2. ASSUME Moves(q) PROVE Ino(q) # i
  BY <1>1, <1>2, Mover DEF Touches, Hold
<1>3. ASSUME call[q].op = "trunc" PROVE call[q].i # i
  BY <1>1, <1>3, Truncator DEF Touches, Hold
<1> QED
  BY <1>2, <1>3

\* The other processes, inodes and open files keep their invariants.
LEMMA OthersKept ==
  ASSUME DataTyped, KernelInv, NEW p \in Proc, NEW i, Touches(p, i)
  PROVE  /\ \A q \in Proc : q # p => ProcInv(q)'
         /\ \A k \in Inum : k # i => InoInv(k)'
         /\ \A f \in File : IpOf[f] # i => OffInv(f)'
         /\ \A k \in Inum : \A j : k # i =>
              /\ Cell(ip[k], j)' = Cell(ip[k], j)
              /\ Truncating(k, j)' <=> Truncating(k, j)
<1>1. ASSUME NEW q \in Proc, q # p PROVE ProcInv(q)'
  <2>0. call'[q] = call[q] /\ ProcInv(q)
    BY <1>1 DEF Touches, KernelInv
  <2>a. Writing(q)'
    BY <2>0 DEF ProcInv, Writing
  <2>1. CASE Moves(q)
    <3>1. /\ Ino(q) \in Inum /\ Ino(q) # i /\ call[q].f \in File /\ Ino(q) = IpOf[call[q].f]
          /\ call[q].op # "trunc"
      BY <1>1, <2>1, OtherProcs, Mover
    <3>2. /\ Moves(q)' /\ Ino(q)' = Ino(q) /\ off'[call[q].f] = off[call[q].f]
          /\ Position(q)' = Position(q) /\ lock'[Ino(q)] = lock[Ino(q)]
          /\ ip'[Ino(q)] = ip[Ino(q)]
      BY <2>0, <2>1, <3>1 DEF Touches, Moves, Ino, Position
    <3>3. Hold(q)'
      BY <2>0, <2>1, <3>1, <3>2 DEF Hold, ProcInv
    <3>4. Chunk(q)'
      BY <2>0, <2>1, <3>1, <3>2 DEF Chunk, ProcInv
    <3>5. Copying(q)'
      <4> SUFFICES ASSUME call[q].op = "copy" PROVE Full(ip[Ino(q)], Position(q))'
        BY <2>0 DEF Copying
      <4>1. PICK k \in Inum : k = Ino(q)
        BY <3>1
      <4>2. \A bn : Mapped(ip[k], bn)' = Mapped(ip[k], bn)
        BY <3>1, <4>1, OtherCells
      <4>3. Full(ip[k], Position(q))
        BY <2>0, <4>1 DEF Copying, ProcInv
      <4>4. Full(ip[k], Position(q))'
        BY <3>2, <4>2, <4>3 DEF Full
      <4> QED
        BY <3>2, <4>1, <4>4 DEF Full
    <3>6. Passed(q)'
      BY <2>0, <3>1 DEF Passed
    <3> QED
      BY <2>a, <3>3, <3>4, <3>5, <3>6 DEF ProcInv
  <2>2. CASE call[q].op = "trunc"
    <3>1. call[q].i \in Inum /\ call[q].i # i /\ ~Moves(q)
      BY <1>1, <2>2, OtherProcs, Truncator
    <3>2. /\ ip'[call[q].i] = ip[call[q].i] /\ lock'[call[q].i] = lock[call[q].i]
          /\ \A f \in File : IpOf[f] = call[q].i => off'[f] = off[f]
      BY <3>1 DEF Touches
    <3>3. Hold(q)' /\ Chunk(q)' /\ Copying(q)'
      BY <2>0, <2>2, <3>1, <3>2 DEF Hold, Chunk, Copying, Moves, ProcInv
    <3>4. Passed(q)'
      BY <2>0, <2>2, <3>1, <3>2 DEF Passed, ProcInv
    <3> QED
      BY <2>a, <3>3, <3>4 DEF ProcInv
  <2>3. CASE ~Moves(q) /\ call[q].op # "trunc"
    BY <2>a, <2>0, <2>3 DEF ProcInv, Hold, Chunk, Copying, Passed, Moves
  <2> QED
    BY <2>1, <2>2, <2>3
<1>2. ASSUME NEW k \in Inum, k # i PROVE InoInv(k)'
  <2>1. ip'[k] = ip[k] /\ dip'[k] = dip[k] /\ InoInv(k)
    BY <1>2 DEF Touches, KernelInv
  <2>2. \A bn : Mapped(ip[k], bn)' = Mapped(ip[k], bn)
    BY <1>2, OtherCells
  <2>3. Truncated(k) => Truncated(k)'
    <3> SUFFICES ASSUME NEW q \in Proc, call[q].op = "trunc", call[q].i = k
                 PROVE  Truncated(k)'
      BY DEF Truncated
    <3>1. q # p
      BY <1>2 DEF Touches
    <3>2. call'[q] = call[q]
      BY <3>1 DEF Touches
    <3> QED
      BY <3>2 DEF Truncated
  <2>4. Growing(k) => Growing(k)'
    <3> SUFFICES ASSUME NEW q \in Proc, call[q].op = "copy", Ino(q) = k,
                        off[call[q].f] + call[q].n1 > ip[k].size
                 PROVE  Growing(k)'
      BY DEF Growing
    <3>0. Moves(q)
      BY DEF Moves
    <3>1. q # p /\ call[q].f \in File /\ IpOf[call[q].f] = k
      BY <1>2, <3>0, Mover DEF Touches
    <3>2. call'[q] = call[q] /\ off'[call[q].f] = off[call[q].f] /\ Ino(q)' = k
      BY <1>2, <3>1 DEF Touches, Ino
    <3> QED
      BY <2>1, <3>2 DEF Growing
  <2>5. Full(ip[k], ip[k].size) => Full(ip[k], ip[k].size)'
    BY <2>1, <2>2 DEF Full
  <2> QED
    BY <2>1, <2>3, <2>4, <2>5 DEF InoInv
<1>3. ASSUME NEW f \in File, IpOf[f] # i PROVE OffInv(f)'
  <2>1. IpOf[f] \in Inum
    BY Sizes
  <2>2. off'[f] = off[f] /\ ip'[IpOf[f]] = ip[IpOf[f]] /\ OffInv(f)
    BY <1>3, <2>1 DEF Touches, KernelInv
  <2> QED
    BY <2>2 DEF OffInv
<1>4. ASSUME NEW k \in Inum, NEW j, k # i
      PROVE  /\ Cell(ip[k], j)' = Cell(ip[k], j)
             /\ Truncating(k, j)' <=> Truncating(k, j)
  <2>1. Cell(ip[k], j)' = Cell(ip[k], j)
    BY <1>4, OtherCells
  <2>2. ASSUME NEW q \in Proc, call[q].op = "trunc", call[q].i = k, j < call[q].j
        PROVE  Truncating(k, j)'
    <3>1. q # p
      BY <1>4, <2>2 DEF Touches
    <3>2. call'[q] = call[q]
      BY <3>1 DEF Touches
    <3> QED
      BY <2>2, <3>2 DEF Truncating
  <2>3. ASSUME NEW q \in Proc, call'[q].op = "trunc", call'[q].i = k, j < call'[q].j
        PROVE  Truncating(k, j)
    <3>1. q # p
      BY <1>4, <2>3 DEF Touches
    <3>2. call'[q] = call[q]
      BY <3>1 DEF Touches
    <3> QED
      BY <2>3, <3>2 DEF Truncating
  <2> QED
    BY <2>1, <2>2, <2>3 DEF Truncating
<1> QED
  BY <1>1, <1>2, <1>3, <1>4

\* The tables before and after a step.
LEMMA Tables ==
  /\ \A k \in Inum, l \in 0..MAXFILE : Table(ip)[k][l] = Cell(ip[k], l) /\ (l \in Dead[k] <=> Truncating(k, l))
  /\ \A k \in Inum, l \in 0..MAXFILE :
       Table(ip)'[k][l] = Cell(ip[k], l)' /\ (l \in Dead'[k] <=> Truncating(k, l)')
BY DEF Table, Dead

\* The places that name blocks are the same.
LEMMA OwnedKept ==
  ASSUME DataTyped, KernelInv, NEW p \in Proc, NEW i, Touches(p, i), used' = used,
         i \in Inum => \A j \in 0..MAXFILE :
           /\ Cell(ip[i], j) # 0 /\ ~Truncating(i, j) => Cell(ip[i], j)' = Cell(ip[i], j) /\ ~Truncating(i, j)'
           /\ Cell(ip[i], j)' # 0 /\ ~Truncating(i, j)' => Cell(ip[i], j)' = Cell(ip[i], j) /\ ~Truncating(i, j)
  PROVE  Owned(Table(ip), Dead, used)'
<1>1. Owned(Table(ip), Dead, used)
  BY DEF KernelInv
<1>2. ASSUME NEW k \in Inum, NEW j \in 0..MAXFILE
      PROVE  /\ Table(ip)[k][j] # 0 /\ j \notin Dead[k] => Table(ip)'[k][j] = Table(ip)[k][j] /\ j \notin Dead'[k]
             /\ Table(ip)'[k][j] # 0 /\ j \notin Dead'[k] => Table(ip)'[k][j] = Table(ip)[k][j] /\ j \notin Dead[k]
  <2>1. /\ Table(ip)[k][j] = Cell(ip[k], j) /\ (j \in Dead[k] <=> Truncating(k, j))
        /\ Table(ip)'[k][j] = Cell(ip[k], j)' /\ (j \in Dead'[k] <=> Truncating(k, j)')
    BY Tables
  <2>2. CASE k = i
    BY <2>1, <2>2
  <2>3. CASE k # i
    <3>1. Cell(ip[k], j)' = Cell(ip[k], j) /\ (Truncating(k, j)' <=> Truncating(k, j))
      BY <2>3, OthersKept
    <3> QED
      BY <2>1, <3>1
  <2> QED
    BY <2>2, <2>3
<1>3. Owned(Table(ip)', Dead', used)
  BY <1>1, <1>2, OwnedSame
<1> QED
  BY <1>3 DEF Owned

\* What is left to show of a step that concerns i.
LEMMA StepKeeps ==
  ASSUME DataTyped, KernelInv, NEW p \in Proc, NEW i, Touches(p, i), ProcInv(p)',
         i \in Inum => InoInv(i)', \A f \in File : IpOf[f] = i => OffInv(f)',
         Owned(Table(ip), Dead, used)'
  PROVE  Kept(p)
<1>1. /\ \A q \in Proc : ProcInv(q)'
      /\ \A k \in Inum : InoInv(k)'
      /\ \A f \in File : OffInv(f)'
  BY OthersKept
<1>2. KernelInv'
  BY <1>1 DEF KernelInv
<1> QED
  BY <1>2 DEF Kept

-----------------------------------------------------------------------------
\* No call.
LEMMA IdleCall == Idle.op = "idle" /\ Idle \in Calls
BY DEF Idle, Calls

\* The lengths callers give.
LEMMA LengthNat == \A n \in Lengths : n \in Nat /\ n >= 1 /\ n < UINT
BY CallAssumption, Sizes

\* filewrite() starts.
LEMMA SysWriteInv ==
  ASSUME DataTyped, KernelInv, mk = 0, NEW p \in Proc, NEW f \in Writable, NEW n \in Lengths,
         SysWrite(p, f, n)
  PROVE  DataTyped' /\ mk' = 0 /\ Kept(p)
<1>0. /\ call[p] = Idle /\ call' = [call EXCEPT ![p] = [op |-> "write", f |-> f, n |-> n, done |-> 0]]
      /\ mk' = mk /\ freeblock' = freeblock /\ used' = used /\ disk' = disk /\ dip' = dip /\ ip' = ip
      /\ lock' = lock /\ off' = off
  BY DEF SysWrite, mkfsVars
<1>1. f \in File /\ n \in Nat
  BY LengthNat, CallAssumption
<1>2. [op |-> "write", f |-> f, n |-> n, done |-> 0] \in Calls
  BY <1>1 DEF Calls, WriteCall
<1>3. DataTyped'
  BY <1>0, <1>2 DEF DataTyped
<1>4. call'[p].op = "write" /\ call[p].op = "idle" /\ \A q \in Proc : q # p => call'[q] = call[q]
  BY <1>0, IdleCall DEF DataTyped
<1>5. Touches(p, 0)
  BY <1>0, <1>4, Sizes DEF Touches, Moves
<1>6. ProcInv(p)'
  <2>1. call'[p].n = n /\ call'[p].done = 0
    BY <1>0 DEF DataTyped
  <2> QED
    BY <1>4, <2>1, LengthNat DEF ProcInv, Hold, Chunk, Copying, Passed, Moves, Writing
<1>7. 0 \notin Inum /\ \A g \in File : IpOf[g] # 0
  BY Sizes
<1>8. Owned(Table(ip), Dead, used)'
  BY <1>0, <1>5, <1>7, OwnedKept
<1>9. Kept(p)
  BY <1>5, <1>6, <1>7, <1>8, StepKeeps
<1> QED
  BY <1>0, <1>3, <1>9

\* The largest chunk.
LEMMA MaxNat ==
  /\ (MAXOPBLOCKS - 1 - 1 - 2) \div 2 \in Nat \ {0}
  /\ max = ((MAXOPBLOCKS - 1 - 1 - 2) \div 2) * BSIZE /\ max \in Nat \ {0}
<1>1. (MAXOPBLOCKS - 1 - 1 - 2) \div 2 \in Nat \ {0}
  BY CallAssumption
<1> QED
  BY <1>1, Sizes DEF max

\* The largest file.
LEMMA LimitNat == MAXFILE * BSIZE \in Nat /\ MAXFILE * BSIZE < UINT /\ UINT \in Nat
BY Sizes

\* An unsigned sum that is not less than a term has not wrapped around.
LEMMA NoWrap ==
  ASSUME NEW o \in Nat, NEW n \in Nat, o < UINT, n < UINT, ~((o + n) % UINT < o)
  PROVE  (o + n) % UINT = o + n
<1>1. UINT \in Nat \ {0}
  BY Sizes
<1>2. PICK s \in Nat : s = o + n
  OBVIOUS
<1>3. ASSUME s < UINT PROVE s % UINT = s
  <2>1. 0 * UINT <= s /\ s < (0 + 1) * UINT
    BY <1>1, <1>3
  <2>2. s % UINT = s - 0 * UINT
    BY <1>1, <2>1, DivBounds
  <2> QED
    BY <1>1, <2>2
<1>4. ASSUME s >= UINT PROVE s % UINT = s - UINT
  <2>1. 1 * UINT <= s /\ s < (1 + 1) * UINT
    BY <1>1, <1>2, <1>4
  <2>2. s % UINT = s - 1 * UINT
    BY <1>1, <2>1, DivBounds
  <2> QED
    BY <1>1, <2>2
<1>5. ~(s % UINT < o)
  BY <1>2
<1> QED
  BY <1>1, <1>2, <1>3, <1>4, <1>5

\* An inode nobody has locked is not being truncated.
LEMMA UnlockedFull ==
  ASSUME DataTyped, KernelInv, NEW i \in Inum, lock[i] = NoProc
  PROVE  Full(ip[i], ip[i].size) /\ ~Truncated(i) /\ dip[i] = ip[i]
<1>1. ~Truncated(i)
  BY Sizes DEF Truncated, KernelInv, ProcInv, Hold
<1>2. ~Growing(i)
  <2> SUFFICES ASSUME NEW p \in Proc, call[p].op = "copy", Ino(p) = i PROVE FALSE
    BY DEF Growing
  <2> QED
    BY Sizes DEF KernelInv, ProcInv, Hold, Moves
<1> QED
  BY <1>1, <1>2 DEF KernelInv, InoInv

\* The start of a chunk.
LEMMA ChunkStarts ==
  ASSUME DataTyped, KernelInv, NEW p \in Proc, NEW f \in File, NEW c \in Calls,
         ~Moves(p), call[p].op # "trunc", lock[IpOf[f]] = NoProc,
         c.f = f, c.tot = 0, c.n1 >= 1, c.n1 \in Nat,
         \/ /\ c.op = "copy" /\ c.n1 <= max /\ off[f] + c.n1 <= MAXFILE * BSIZE
            /\ c.done + c.n1 <= c.n /\ c.n < UINT
         \/ c.op = "read" /\ off[f] + c.n1 <= ip[IpOf[f]].size,
         lock' = [lock EXCEPT ![IpOf[f]] = p], call' = [call EXCEPT ![p] = c],
         used' = used, disk' = disk, dip' = dip, ip' = ip, off' = off
  PROVE  Kept(p)
<1>0. PICK i \in Inum : i = IpOf[f]
  BY Sizes
<1>1. call'[p] = c /\ c.op # "trunc" /\ c.op # "write" /\ \A q \in Proc : q # p => call'[q] = call[q]
  BY DEF DataTyped
<1>2. lock'[i] = p /\ \A k \in Inum : k # i => lock'[k] = lock[k]
  BY <1>0 DEF DataTyped
<1>3. Touches(p, i)
  BY <1>0, <1>1, <1>2 DEF Touches
<1>4. off[f] \in Nat /\ ip[i] \in INode /\ off[f] <= ip[i].size
  BY <1>0 DEF DataTyped, KernelInv, OffInv
<1>5. ip[i].size \in Nat
  BY <1>4 DEF INode
<1>6. Full(ip[i], ip[i].size) /\ ~Truncated(i) /\ dip[i] = ip[i]
  BY <1>0, UnlockedFull
<1>7. Ino(p)' = i /\ Moves(p)' /\ Position(p)' = off[f]
  BY <1>0, <1>1, <1>4 DEF Ino, Moves, Position
<1>8. Hold(p)' /\ Passed(p)' /\ Writing(p)'
  BY <1>0, <1>1, <1>2, <1>7 DEF Hold, Passed, Writing
<1>9. Chunk(p)'
  BY <1>0, <1>1, <1>4, <1>7 DEF Chunk
<1>10. Copying(p)'
  <2>1. \A bn : Mapped(ip[i], bn)' = Mapped(ip[i], bn)
    BY DEF Mapped
  <2>2. \A bn \in 0 .. MAXFILE - 1 : bn * BSIZE \in Nat
    BY Sizes
  <2>3. \A bn \in 0 .. MAXFILE - 1 : bn * BSIZE < off[f] => bn * BSIZE < ip[i].size
    BY <1>4, <1>5, <2>2
  <2>4. Full(ip[i], off[f])
    BY <1>6, <2>3 DEF Full
  <2>5. Full(ip[i], off[f])'
    BY <2>1, <2>4 DEF Full
  <2> QED
    BY <1>7, <2>5 DEF Copying, Full
<1>11. InoInv(i)'
  <2>1. InoInv(i)
    BY DEF KernelInv
  <2>2. \A bn : Mapped(ip[i], bn)' = Mapped(ip[i], bn)
    BY DEF Mapped
  <2>3. Full(ip[i], ip[i].size)'
    BY <1>6, <2>2 DEF Full
  <2> QED
    BY <1>6, <2>1, <2>3 DEF InoInv
<1>12. \A g \in File : IpOf[g] = i => OffInv(g)'
  BY DEF OffInv, KernelInv
<1>13. \A j \in 0..MAXFILE : Cell(ip[i], j)' = Cell(ip[i], j) /\ ~Truncating(i, j) /\ ~Truncating(i, j)'
  <2>1. \A j : Cell(ip[i], j)' = Cell(ip[i], j)
    BY DEF Cell, Mapped
  <2>2. ~Truncated(i)'
    BY <1>1, <1>6 DEF Truncated
  <2> QED
    BY <1>6, <2>1, <2>2 DEF Truncating, Truncated
<1>14. Owned(Table(ip), Dead, used)'
  BY <1>3, <1>13, OwnedKept
<1>15. ProcInv(p)'
  BY <1>8, <1>9, <1>10 DEF ProcInv
<1> QED
  BY <1>3, <1>11, <1>12, <1>14, <1>15, StepKeeps

\* A call that ends, or that waits for its next chunk, without having touched anything.
LEMMA CallAlone ==
  ASSUME DataTyped, KernelInv, NEW p \in Proc, NEW c \in Calls, ~Moves(p), call[p].op # "trunc",
         \/ c.op = "idle" 
         \/ c.op = "write" /\ c.done < c.n /\ c.n < UINT,
         call' = [call EXCEPT ![p] = c],
         used' = used, disk' = disk, dip' = dip, ip' = ip, off' = off, lock' = lock
  PROVE  Kept(p)
<1>4. call'[p] = c /\ \A q \in Proc : q # p => call'[q] = call[q]
  BY DEF DataTyped
<1>5. Touches(p, 0)
  BY <1>4, Sizes DEF Touches
<1>6. ProcInv(p)'
  BY <1>4 DEF ProcInv, Hold, Chunk, Copying, Passed, Moves, Writing
<1>7. 0 \notin Inum /\ \A g \in File : IpOf[g] # 0
  BY Sizes
<1>8. Owned(Table(ip), Dead, used)'
  BY <1>5, <1>7, OwnedKept
<1> QED
  BY <1>5, <1>6, <1>7, <1>8, StepKeeps

\* writei() lets the chunk through, or filewrite() gives up.
LEMMA WriteChunkInv ==
  ASSUME DataTyped, KernelInv, mk = 0, NEW p \in Proc, WriteChunk(p)
  PROVE  DataTyped' /\ mk' = 0 /\ Kept(p)
<1>0. /\ call[p].op = "write" /\ lock[Ino(p)] = NoProc
      /\ mk' = mk /\ freeblock' = freeblock /\ used' = used /\ disk' = disk /\ dip' = dip /\ ip' = ip
      /\ off' = off
  BY DEF WriteChunk, mkfsVars
<1>1. PICK c : c = call[p]
  OBVIOUS
<1>2. c \in WriteCall
  BY <1>0, <1>1, Shapes DEF DataTyped
<1>3. c.f \in File /\ c.n \in Nat /\ c.done \in Nat
  BY <1>2 DEF WriteCall
<1>4. c.done < c.n /\ c.n < UINT
  BY <1>0, <1>1 DEF KernelInv, ProcInv, Writing
<1>5. PICK n1 : n1 = Min({c.n - c.done, max})
  OBVIOUS
<1>6. n1 \in Nat /\ n1 >= 1 /\ n1 <= c.n - c.done /\ n1 <= max
  BY <1>3, <1>4, <1>5, MaxNat, MinPair
<1>7. Ino(p) = IpOf[c.f] /\ IpOf[c.f] \in Inum
  BY <1>1, <1>3, Sizes DEF Ino
<1>8. ~Moves(p) /\ call[p].op # "trunc"
  BY <1>0 DEF Moves
<1>9. CASE WriteRefused(off[c.f], n1, ip[Ino(p)].size) /\ call' = [call EXCEPT ![p] = Idle] /\ lock' = lock
  <2>1. Kept(p)
    BY <1>0, <1>8, <1>9, CallAlone, IdleCall
  <2>2. DataTyped'
    BY <1>0, <1>9, IdleCall DEF DataTyped
  <2> QED
    BY <1>0, <2>1, <2>2
<1>10. CASE /\ ~WriteRefused(off[c.f], n1, ip[Ino(p)].size)
            /\ lock' = [lock EXCEPT ![Ino(p)] = p]
            /\ call' = [call EXCEPT ![p] = [op |-> "copy", f |-> c.f, n |-> c.n, done |-> c.done,
                                            n1 |-> n1, tot |-> 0, dirty |-> {}]]
  <2>1. PICK d : d = [op |-> "copy", f |-> c.f, n |-> c.n, done |-> c.done,
                      n1 |-> n1, tot |-> 0, dirty |-> {}]
    OBVIOUS
  <2>2. d \in CopyCall
    BY <1>3, <1>6, <2>1 DEF CopyCall
  <2>3. d \in Calls
    BY <2>2 DEF Calls
  <2>4. off[c.f] \in Nat /\ ip[IpOf[c.f]].size \in Nat /\ off[c.f] <= MAXFILE * BSIZE
    <3>1. ip[IpOf[c.f]] \in INode /\ off[c.f] \in Nat
      BY <1>3, <1>7 DEF DataTyped
    <3>2. ip[IpOf[c.f]].size \in Nat
      BY <3>1 DEF INode
    <3>3. off[c.f] <= ip[IpOf[c.f]].size /\ ip[IpOf[c.f]].size <= MAXFILE * BSIZE
      BY <1>3, <1>7 DEF KernelInv, OffInv, InoInv
    <3> QED
      BY <3>1, <3>2, <3>3, LimitNat
  <2>5. ~((off[c.f] + n1) % UINT < off[c.f]) /\ ~((off[c.f] + n1) % UINT > MAXFILE * BSIZE)
    BY <1>10 DEF WriteRefused, Refused
  <2>6. n1 < UINT /\ off[c.f] < UINT
    BY <1>3, <1>4, <1>6, <2>4, LimitNat
  <2>7. off[c.f] + n1 <= MAXFILE * BSIZE
    <3>1. (off[c.f] + n1) % UINT = off[c.f] + n1
      BY <1>6, <2>4, <2>5, <2>6, NoWrap
    <3> QED
      BY <1>6, <2>4, <2>5, <3>1, Sizes
  <2>8. d.done + d.n1 <= d.n /\ d.n < UINT /\ d.n1 = n1 /\ d.op = "copy" /\ d.f = c.f /\ d.tot = 0
    BY <1>3, <1>4, <1>6, <2>1
  <2>9. Kept(p)
    BY <1>0, <1>3, <1>6, <1>7, <1>8, <1>10, <2>1, <2>3, <2>7, <2>8, ChunkStarts
  <2>10. DataTyped'
    BY <1>0, <1>7, <1>10, <2>1, <2>3 DEF DataTyped
  <2> QED
    BY <1>0, <2>9, <2>10
<1> QED
  BY <1>1, <1>5, <1>9, <1>10 DEF WriteChunk

\* fileread() locks the inode and cuts the length.
LEMMA SysReadInv ==
  ASSUME DataTyped, KernelInv, mk = 0, NEW p \in Proc, NEW f \in Readable, NEW n \in Lengths,
         SysRead(p, f, n)
  PROVE  DataTyped' /\ mk' = 0 /\ Kept(p)
<1>1. PICK n1 : n1 = Available(off[f], n, ip[IpOf[f]].size)
  OBVIOUS
<1>2. PICK d : d = [op |-> "read", f |-> f, n1 |-> n1, tot |-> 0, dirty |-> {}]
  OBVIOUS
<1>0. /\ call[p] = Idle /\ lock[IpOf[f]] = NoProc /\ n1 > 0
      /\ ~Refused(off[f], n, ip[IpOf[f]].size)
      /\ lock' = [lock EXCEPT ![IpOf[f]] = p] /\ call' = [call EXCEPT ![p] = d]
      /\ mk' = mk /\ freeblock' = freeblock /\ used' = used /\ disk' = disk /\ dip' = dip /\ ip' = ip
      /\ off' = off
  BY <1>1, <1>2 DEF SysRead, mkfsVars
<1>3. f \in File /\ n \in Nat /\ n < UINT /\ IpOf[f] \in Inum
  BY LengthNat, CallAssumption
<1>4. off[f] \in Nat /\ ip[IpOf[f]].size \in Nat /\ off[f] <= ip[IpOf[f]].size
      /\ ip[IpOf[f]].size <= MAXFILE * BSIZE
  <2>1. ip[IpOf[f]] \in INode /\ off[f] \in Nat
    BY <1>3 DEF DataTyped
  <2> QED
    BY <1>3, <2>1 DEF INode, KernelInv, OffInv, InoInv
<1>5. off[f] < UINT
  BY <1>4, Sizes
<1>6. (off[f] + n) % UINT = off[f] + n
  <2>1. ~((off[f] + n) % UINT < off[f])
    BY <1>0 DEF Refused
  <2> QED
    BY <1>3, <1>4, <1>5, <2>1, NoWrap
<1>7. n1 \in Nat /\ off[f] + n1 <= ip[IpOf[f]].size
  <2>1. CASE off[f] + n > ip[IpOf[f]].size
    BY <1>1, <1>3, <1>4, <1>6, <2>1 DEF Available
  <2>2. CASE ~(off[f] + n > ip[IpOf[f]].size)
    BY <1>1, <1>3, <1>4, <1>6, <2>2 DEF Available
  <2> QED
    BY <2>1, <2>2
<1>8. d \in ReadCall
  BY <1>2, <1>3, <1>7 DEF ReadCall
<1>9. d \in Calls
  BY <1>8 DEF Calls
<1>10. call[p].op = "idle" /\ ~Moves(p) /\ call[p].op # "trunc"
  BY <1>0, IdleCall DEF Moves
<1>11. d.n1 = n1 /\ d.f = f /\ d.op = "read" /\ d.tot = 0 /\ n1 >= 1
  BY <1>0, <1>2, <1>7
<1>12. Kept(p)
  BY <1>0, <1>3, <1>7, <1>9, <1>10, <1>11, ChunkStarts
<1>13. DataTyped'
  BY <1>0, <1>3, <1>9 DEF DataTyped
<1> QED
  BY <1>0, <1>12, <1>13
-----------------------------------------------------------------------------
\* A process that moves data has the inode to itself.
LEMMA HolderAlone ==
  ASSUME DataTyped, KernelInv, NEW p \in Proc, Moves(p)
  PROVE  /\ ~Truncated(Ino(p)) /\ \A j : ~Truncating(Ino(p), j)
         /\ Full(ip[Ino(p)], ip[Ino(p)].size)
<1>1. ~Truncated(Ino(p))
  <2> SUFFICES ASSUME NEW q \in Proc, call[q].op = "trunc", call[q].i = Ino(p) PROVE FALSE
    BY DEF Truncated
  <2>1. q = p
    BY DEF KernelInv, ProcInv, Hold
  <2> QED
    BY <2>1 DEF Moves
<1>2. InoInv(Ino(p))
  BY Mover DEF KernelInv
<1> QED
  BY <1>1, <1>2 DEF Truncating, Truncated, InoInv

\* One round of the loops of readi() and writei().
LEMMA Round ==
  ASSUME DataTyped, KernelInv, NEW p \in Proc, InChunk(p)
  PROVE  /\ Moves(p) /\ Bn(p) \in 0 .. MAXFILE - 1 /\ Bn(p) * BSIZE <= Position(p) /\ Bn(p) * BSIZE \in Nat
         /\ Position(p) % BSIZE \in Nat /\ Position(p) % BSIZE < BSIZE
         /\ Position(p) = Bn(p) * BSIZE + (Position(p) % BSIZE)
         /\ Span(p) \in Nat /\ Span(p) >= 1 /\ call[p].tot + Span(p) <= call[p].n1
         /\ Span(p) <= BSIZE - (Position(p) % BSIZE)
         /\ Position(p) + Span(p) <= (Bn(p) + 1) * BSIZE
         /\ call[p].tot + Span(p) = call[p].n1 \/ (Position(p) + Span(p)) % BSIZE = 0
<1>0. Moves(p) /\ call[p].tot < call[p].n1
  BY DEF InChunk, Moves
<1>1. /\ call[p].f \in File /\ call[p].n1 \in Nat /\ call[p].tot \in Nat
      /\ off[call[p].f] \in Nat /\ Position(p) \in Nat /\ Ino(p) \in Inum
      /\ Position(p) = off[call[p].f] + call[p].tot
      /\ Bn(p) \in Nat /\ Bn(p) = Position(p) \div BSIZE
  BY <1>0, Mover
<1>2. BSIZE \in Nat \ {0} /\ MAXFILE \in Nat
  BY Sizes
<1>3. PICK x \in Nat : x = Position(p)
  BY <1>1
<1>4. PICK r : r = x % BSIZE
  OBVIOUS
<1>5. PICK d : d = Bn(p)
  OBVIOUS
<1>6. r \in Nat /\ r < BSIZE /\ x = BSIZE * d + r /\ d \in Nat
  BY <1>1, <1>2, <1>3, <1>4, <1>5, DivMod
<1>7. off[call[p].f] + call[p].n1 <= MAXFILE * BSIZE
  <2>1. Chunk(p) /\ InoInv(Ino(p))
    BY <1>1 DEF KernelInv, ProcInv
  <2>2. CASE call[p].op = "copy"
    BY <1>0, <2>1, <2>2 DEF Chunk
  <2>3. CASE call[p].op = "read"
    <3>1. ip[Ino(p)].size \in Nat
      BY <1>1 DEF DataTyped, INode
    <3>2. off[call[p].f] + call[p].n1 <= ip[Ino(p)].size /\ ip[Ino(p)].size <= MAXFILE * BSIZE
      BY <1>0, <2>1, <2>3 DEF Chunk, InoInv
    <3> QED
      BY <1>1, <3>1, <3>2, LimitNat
  <2> QED
    BY <1>0, <2>2, <2>3 DEF Moves
<1>8. x < MAXFILE * BSIZE
  BY <1>0, <1>1, <1>3, <1>7, LimitNat
<1>9. d * BSIZE <= x /\ d * BSIZE \in Nat /\ x = d * BSIZE + r
  BY <1>2, <1>6
<1>10. d < MAXFILE
  <2>1. d * BSIZE < MAXFILE * BSIZE
    BY <1>8, <1>9, LimitNat
  <2> QED
    BY <1>2, <1>6, <2>1, MulLess
<1>11. Span(p) = Min({call[p].n1 - call[p].tot, BSIZE - r})
  BY <1>3, <1>4 DEF Span
<1>12. PICK s : s = Span(p)
  OBVIOUS
<1>13. call[p].n1 - call[p].tot \in Nat /\ BSIZE - r \in Nat /\ call[p].n1 - call[p].tot >= 1 /\ BSIZE - r >= 1
  BY <1>0, <1>1, <1>2, <1>6
<1>14. s \in Nat /\ s >= 1 /\ s <= call[p].n1 - call[p].tot /\ s <= BSIZE - r
       /\ (s = call[p].n1 - call[p].tot \/ s = BSIZE - r)
  BY <1>11, <1>12, <1>13, MinPair
<1>15. x + s <= (d + 1) * BSIZE
  BY <1>2, <1>6, <1>9, <1>14
<1>16. ASSUME s = BSIZE - r PROVE (x + s) % BSIZE = 0
  <2>1. PICK y \in Nat : y = x + s
    BY <1>14
  <2>2. y = (d + 1) * BSIZE
    BY <1>2, <1>6, <1>9, <1>16, <2>1
  <2>3. (d + 1) * BSIZE <= y /\ y < ((d + 1) + 1) * BSIZE /\ d + 1 \in Nat
    BY <1>2, <1>6, <2>2
  <2>4. y % BSIZE = y - (d + 1) * BSIZE
    BY <1>2, <2>3, DivBounds
  <2> QED
    BY <1>2, <1>6, <2>1, <2>2, <2>4
<1>17. s = call[p].n1 - call[p].tot => call[p].tot + s = call[p].n1
  BY <1>1, <1>14
<1>18. call[p].tot + s <= call[p].n1
  BY <1>1, <1>14
<1> QED
  BY <1>0, <1>2, <1>3, <1>4, <1>5, <1>6, <1>9, <1>10, <1>12, <1>14, <1>15, <1>16, <1>17, <1>18

\* The blocks below the end of the round are those below its start and its own.
LEMMA RoundFull ==
  ASSUME DataTyped, KernelInv, NEW p \in Proc, InChunk(p), call[p].op = "copy", Mapped(ip[Ino(p)], Bn(p)) # 0
  PROVE  Full(ip[Ino(p)], Position(p) + Span(p))
<1>1. /\ Bn(p) \in 0 .. MAXFILE - 1 /\ Bn(p) * BSIZE <= Position(p) /\ Position(p) \in Nat /\ Span(p) \in Nat
      /\ Position(p) + Span(p) <= (Bn(p) + 1) * BSIZE
  BY Round, Mover
<1>2. BSIZE \in Nat \ {0} /\ MAXFILE \in Nat
  BY Sizes
<1>3. Full(ip[Ino(p)], Position(p))
  BY DEF KernelInv, ProcInv, Copying
<1> SUFFICES ASSUME NEW bn \in 0 .. MAXFILE - 1, bn * BSIZE < Position(p) + Span(p)
             PROVE  Mapped(ip[Ino(p)], bn) # 0
  BY DEF Full
<1>4. bn * BSIZE < (Bn(p) + 1) * BSIZE
  BY <1>1, <1>2
<1>5. bn < Bn(p) + 1
  BY <1>1, <1>2, <1>4, MulLess
<1>6. CASE bn = Bn(p)
  BY <1>6
<1>7. CASE bn < Bn(p)
  <2>1. bn * BSIZE < Bn(p) * BSIZE
    BY <1>1, <1>2, <1>7
  <2>2. bn * BSIZE < Position(p)
    BY <1>1, <1>2, <2>1
  <2> QED
    BY <1>3, <2>2 DEF Full
<1> QED
  BY <1>1, <1>2, <1>5, <1>6, <1>7

\* p has moved the data of one block.
LEMMA RoundDone ==
  ASSUME DataTyped, KernelInv, NEW p \in Proc, InChunk(p), Mapped(ip[Ino(p)], Bn(p)) # 0,
         call'[p].op = call[p].op, call'[p].f = call[p].f, call'[p].n1 = call[p].n1,
         call[p].op = "copy" => call'[p].n = call[p].n /\ call'[p].done = call[p].done,
         call'[p].tot = call[p].tot + Span(p), \A q \in Proc : q # p => call'[q] = call[q],
         used' = used, ip' = ip, dip' = dip, lock' = lock, off' = off,
         \A k \in Inum : ip[k].addrs[NDIRECT] # 0 =>
           disk'[ip[k].addrs[NDIRECT]] = disk[ip[k].addrs[NDIRECT]]
  PROVE  Kept(p)
<1>0. Moves(p) /\ Ino(p) \in Inum /\ ProcInv(p)
  BY Round, Mover DEF KernelInv
<1>1. PICK i \in Inum : i = Ino(p)
  BY <1>0
<1>2. Touches(p, i)
  BY <1>0, <1>1 DEF Touches, Moves, ProcInv, Hold
<1>3. Moves(p)' /\ Ino(p)' = i /\ Position(p)' = Position(p) + Span(p)
  <2>1. /\ off[call[p].f] \in Nat /\ call[p].tot \in Nat /\ Span(p) \in Nat
        /\ Position(p) = off[call[p].f] + call[p].tot
    BY <1>0, Round, Mover
  <2> QED
    BY <1>0, <1>1, <2>1 DEF Moves, Ino, Position
<1>4. (\A bn : Mapped(ip[i], bn)' = Mapped(ip[i], bn)) /\ \A j : Cell(ip[i], j)' = Cell(ip[i], j)
  BY DEF Mapped, Cell
<1>5. Hold(p)' /\ Passed(p)' /\ Writing(p)'
  BY <1>0, <1>1, <1>3 DEF Hold, Passed, Writing, ProcInv, Moves
<1>6. Chunk(p)'
  <2>1. /\ call[p].tot + Span(p) <= call[p].n1
        /\ call[p].tot + Span(p) = call[p].n1 \/ (Position(p) + Span(p)) % BSIZE = 0
    BY Round
  <2> QED
    BY <1>0, <1>1, <1>3, <2>1 DEF Chunk, ProcInv
<1>7. Copying(p)'
  <2> SUFFICES ASSUME call[p].op = "copy" PROVE Full(ip[Ino(p)], Position(p))'
    BY DEF Copying
  <2>1. Full(ip[i], Position(p) + Span(p))
    BY <1>1, RoundFull
  <2>2. PICK x : x = Position(p) + Span(p)
    OBVIOUS
  <2>3. \A bn \in 0 .. MAXFILE - 1 : bn * BSIZE < Position(p)' => Mapped(ip[i], bn)' # 0
    BY <1>3, <1>4, <2>1 DEF Full
  <2> QED
    BY <1>3, <2>3 DEF Full
<1>8. InoInv(i)'
  <2>1. InoInv(i)
    BY DEF KernelInv
  <2>2. Full(ip[i], ip[i].size)'
    <3>1. Full(ip[i], ip[i].size)
      BY <1>0, <1>1, HolderAlone
    <3> QED
      BY <1>4, <3>1 DEF Full
  <2>3. dip[i] = ip[i] \/ Growing(i)
    BY <1>0, <1>1, <2>1, HolderAlone DEF InoInv
  <2>4. Growing(i) => Growing(i)'
    <3> SUFFICES ASSUME NEW q \in Proc, call[q].op = "copy", Ino(q) = i,
                        off[call[q].f] + call[q].n1 > ip[i].size
                 PROVE  Growing(i)'
      BY DEF Growing
    <3>1. /\ call'[q].op = "copy" /\ Ino(q)' = i /\ call'[q].f = call[q].f /\ call'[q].n1 = call[q].n1
      BY <1>3 DEF Ino
    <3> QED
      BY <3>1 DEF Growing
  <2> QED
    BY <2>1, <2>2, <2>3, <2>4 DEF InoInv
<1>9. \A f \in File : IpOf[f] = i => OffInv(f)'
  BY DEF OffInv, KernelInv
<1>10. \A j : ~Truncating(i, j) /\ ~Truncating(i, j)'
  <2>1. ~Truncated(i)
    BY <1>0, <1>1, HolderAlone
  <2>2. ~Truncated(i)'
    BY <2>1, <1>0 DEF Truncated, Moves
  <2> QED
    BY <2>1, <2>2 DEF Truncated, Truncating
<1>11. Owned(Table(ip), Dead, used)'
  BY <1>2, <1>4, <1>10, OwnedKept
<1>12. ProcInv(p)'
  BY <1>5, <1>6, <1>7 DEF ProcInv
<1> QED
  BY <1>2, <1>8, <1>9, <1>11, <1>12, StepKeeps

\* A round of readi()'s loop.
LEMMA ReadBlockInv ==
  ASSUME DataTyped, KernelInv, mk = 0, NEW p \in Proc, ReadBlock(p)
  PROVE  DataTyped' /\ mk' = 0 /\ Kept(p)
<1>0. /\ InChunk(p) /\ call[p].op = "read" /\ Mapped(ip[Ino(p)], Bn(p)) # 0
      /\ call' = [call EXCEPT ![p].tot = @ + Span(p)]
      /\ mk' = mk /\ freeblock' = freeblock /\ used' = used /\ disk' = disk /\ dip' = dip /\ ip' = ip
      /\ lock' = lock /\ off' = off
  BY DEF ReadBlock, mkfsVars
<1>1. call[p] \in ReadCall
  BY <1>0, Shapes DEF DataTyped
<1>2. Span(p) \in Nat
  BY <1>0, Round
<1>3. call'[p] = [call[p] EXCEPT !.tot = @ + Span(p)] /\ \A q \in Proc : q # p => call'[q] = call[q]
  BY <1>0 DEF DataTyped
<1>4. /\ call'[p].op = call[p].op /\ call'[p].f = call[p].f /\ call'[p].n1 = call[p].n1
      /\ call'[p].tot = call[p].tot + Span(p) /\ call'[p] \in ReadCall
  BY <1>1, <1>2, <1>3 DEF ReadCall
<1>5. call' \in [Proc -> Calls]
  <2>1. call'[p] \in Calls
    BY <1>4 DEF Calls
  <2>2. \A q \in Proc : call'[q] \in Calls
    BY <1>3, <2>1 DEF DataTyped
  <2>3. call' = [q \in Proc |-> call'[q]]
    BY <1>0 DEF DataTyped
  <2> QED
    BY <2>2, <2>3
<1>6. DataTyped'
  BY <1>0, <1>5 DEF DataTyped
<1>7. Kept(p)
  BY <1>0, <1>3, <1>4, RoundDone
<1> QED
  BY <1>0, <1>6, <1>7

\* A block that a place names.
LEMMA PlaceUsed ==
  ASSUME DataTyped, KernelInv, NEW i \in Inum, NEW j \in 0..MAXFILE, ~Truncating(i, j), Cell(ip[i], j) # 0
  PROVE  /\ Cell(ip[i], j) \in used /\ Cell(ip[i], j) \in 0 .. FSSIZE - 1 /\ Cell(ip[i], j) >= nmeta
         /\ \A k \in Inum : ip[k].addrs[NDIRECT] = Cell(ip[i], j) => k = i /\ j = MAXFILE
<1>1. Table(ip)[i][j] = Cell(ip[i], j) /\ j \notin Dead[i]
  BY Tables
<1>2. Cell(ip[i], j) \in used /\ Cell(ip[i], j) >= nmeta
  BY <1>1 DEF KernelInv, Owned
<1>3. ASSUME NEW k \in Inum, ip[k].addrs[NDIRECT] = Cell(ip[i], j) PROVE k = i /\ j = MAXFILE
  BY <1>1, <1>3, IndUsed
<1> QED
  BY <1>2, <1>3 DEF DataTyped

\* A round of writei()'s loop: it writes to a block of the file, which is no
\* indirect block.
LEMMA WriteBlockInv ==
  ASSUME DataTyped, KernelInv, mk = 0, NEW p \in Proc, WriteBlock(p)
  PROVE  DataTyped' /\ mk' = 0 /\ Kept(p)
<1>a. PICK b : b = Mapped(ip[Ino(p)], Bn(p))
  OBVIOUS
<1>b. PICK at : at = Position(p) % BSIZE
  OBVIOUS
<1>0. /\ InChunk(p) /\ call[p].op = "copy" /\ b # 0
      /\ disk' = [disk EXCEPT ![b] =
              [c \in Cells |-> IF c \in at .. at + Span(p) - 1
                               THEN Byte(call[p].done + call[p].tot + (c - at) + 1) ELSE @[c]]]
      /\ call' = [call EXCEPT ![p].tot = @ + Span(p), ![p].dirty = @ \cup {b}]
      /\ mk' = mk /\ freeblock' = freeblock /\ used' = used /\ dip' = dip /\ ip' = ip
      /\ lock' = lock /\ off' = off
  BY <1>a, <1>b DEF WriteBlock, mkfsVars
<1>1. call[p] \in CopyCall
  BY <1>0, Shapes DEF DataTyped
<1>2. Span(p) \in Nat /\ Moves(p) /\ Bn(p) \in 0 .. MAXFILE - 1 /\ Ino(p) \in Inum /\ at \in Nat
  BY <1>0, <1>b, Round, Mover
<1>3. /\ b \in Nat /\ b \in 0 .. FSSIZE - 1
      /\ \A k \in Inum : ip[k].addrs[NDIRECT] # b
  <2>1. Bn(p) \in 0..MAXFILE /\ Bn(p) < MAXFILE /\ MAXFILE \in Nat
    BY <1>2, Sizes
  <2>2. b = Cell(ip[Ino(p)], Bn(p)) /\ b \in Nat
    BY <1>2, <1>a, <2>1, CellNat
  <2>3. ~Truncating(Ino(p), Bn(p))
    BY <1>2, HolderAlone
  <2> QED
    BY <1>0, <1>2, <2>1, <2>2, <2>3, PlaceUsed
<1>4. /\ call'[p] = [call[p] EXCEPT !.tot = @ + Span(p), !.dirty = @ \cup {b}]
      /\ \A q \in Proc : q # p => call'[q] = call[q]
  BY <1>0 DEF DataTyped
<1>5. /\ call'[p].op = call[p].op /\ call'[p].f = call[p].f /\ call'[p].n1 = call[p].n1
      /\ call'[p].n = call[p].n /\ call'[p].done = call[p].done
      /\ call'[p].tot = call[p].tot + Span(p) /\ call'[p] \in CopyCall
  <2>1. call[p].tot + Span(p) \in Nat /\ call[p].dirty \cup {b} \in SUBSET Nat
    BY <1>1, <1>2, <1>3 DEF CopyCall
  <2>2. call'[p] = [call[p] EXCEPT !.tot = call[p].tot + Span(p), !.dirty = call[p].dirty \cup {b}]
    BY <1>1, <1>4 DEF CopyCall
  <2>3. PICK t \in Nat : t = call[p].tot + Span(p)
    BY <2>1
  <2>4. PICK D \in SUBSET Nat : D = call[p].dirty \cup {b}
    BY <2>1
  <2>5. PICK c \in CopyCall : c = call[p]
    BY <1>1
  <2>6. PICK e : e = call'[p]
    OBVIOUS
  <2>7. e = [c EXCEPT !.tot = t, !.dirty = D]
    BY <2>2, <2>3, <2>4, <2>5, <2>6
  <2>8. /\ e \in CopyCall /\ e.tot = t /\ e.op = "copy" /\ c.op = "copy"
        /\ e.f = c.f /\ e.n1 = c.n1 /\ e.n = c.n /\ e.done = c.done
    BY <2>7 DEF CopyCall
  <2> QED
    BY <2>3, <2>5, <2>6, <2>8
<1>6. call' \in [Proc -> Calls]
  <2>1. call'[p] \in Calls
    BY <1>5 DEF Calls
  <2>2. \A q \in Proc : call'[q] \in Calls
    BY <1>4, <2>1 DEF DataTyped
  <2>3. call' = [q \in Proc |-> call'[q]]
    BY <1>0 DEF DataTyped
  <2> QED
    BY <2>2, <2>3
<1>7. disk' \in [0 .. FSSIZE - 1 -> [Cells -> Nat]] /\ \A x \in 0 .. FSSIZE - 1 : x # b => disk'[x] = disk[x]
  <2>1. \A c \in Cells : c \in at .. at + Span(p) - 1 =>
          Byte(call[p].done + call[p].tot + (c - at) + 1) \in Nat
    <3> SUFFICES ASSUME NEW c \in Cells, c \in at .. at + Span(p) - 1
                 PROVE  Byte(call[p].done + call[p].tot + (c - at) + 1) \in Nat
      OBVIOUS
    <3>1. call[p].done \in Nat /\ call[p].tot \in Nat
      BY <1>1 DEF CopyCall
    <3>2. call[p].done + call[p].tot + (c - at) + 1 \in Nat
      BY <1>2, <3>1
    <3> QED
      BY <3>2 DEF Byte
  <2>2. disk[b] \in [Cells -> Nat]
    BY <1>3 DEF DataTyped
  <2>3. PICK new : new = [c \in Cells |-> IF c \in at .. at + Span(p) - 1
                               THEN Byte(call[p].done + call[p].tot + (c - at) + 1) ELSE disk[b][c]]
    OBVIOUS
  <2>4. new \in [Cells -> Nat]
    BY <2>1, <2>2, <2>3
  <2>5. disk' = [disk EXCEPT ![b] = new]
    BY <1>0, <2>3
  <2> QED
    BY <2>4, <2>5 DEF DataTyped
<1>8. DataTyped'
  BY <1>0, <1>6, <1>7 DEF DataTyped
<1>9. \A k \in Inum : ip[k].addrs[NDIRECT] # 0 =>
           disk'[ip[k].addrs[NDIRECT]] = disk[ip[k].addrs[NDIRECT]]
  BY <1>3, <1>7, IndUsed
<1>10. Kept(p)
  BY <1>0, <1>a, <1>4, <1>5, <1>9, RoundDone
<1> QED
  BY <1>0, <1>8, <1>10
-----------------------------------------------------------------------------
\* Inodes with the same addresses have the same places.
LEMMA SameAddrs ==
  ASSUME NEW m, NEW n, m.addrs = n.addrs
  PROVE  (\A bn : Mapped(m, bn) = Mapped(n, bn)) /\ \A j : Cell(m, j) = Cell(n, j)
BY DEF Mapped, Cell

\* The end of a chunk: the inode is saved, the offset moves, iunlock().
LEMMA ChunkEnds ==
  ASSUME DataTyped, KernelInv, NEW p \in Proc, Moves(p), NEW i \in Inum, i = Ino(p),
         NEW new \in INode, new.addrs = ip[i].addrs, new.size >= ip[i].size,
         off[call[p].f] + call[p].n1 <= new.size, new.size <= MAXFILE * BSIZE, Full(ip[i], new.size),
         ip' = [ip EXCEPT ![i] = new], dip'[i] = new, \A k \in Inum : k # i => dip'[k] = dip[k],
         off' = [off EXCEPT ![call[p].f] = @ + call[p].n1], lock' = [lock EXCEPT ![i] = NoProc],
         NEW c \in Calls, call' = [call EXCEPT ![p] = c],
         c.op = "idle" \/ (c.op = "write" /\ c.done < c.n /\ c.n < UINT),
         used' = used, disk' = disk
  PROVE  Kept(p)
<1>0. /\ call[p].f \in File /\ IpOf[call[p].f] = i /\ off[call[p].f] \in Nat /\ call[p].n1 \in Nat
      /\ call[p].op # "trunc" /\ lock[i] = p
  BY Mover DEF KernelInv, ProcInv, Hold
<1>1. /\ call'[p] = c /\ \A q \in Proc : q # p => call'[q] = call[q]
      /\ ip'[i] = new /\ \A k \in Inum : k # i => ip'[k] = ip[k] /\ lock'[k] = lock[k]
  BY DEF DataTyped
<1>2. /\ off'[call[p].f] = off[call[p].f] + call[p].n1
      /\ \A g \in File : g # call[p].f => off'[g] = off[g]
  BY <1>0 DEF DataTyped
<1>3. Touches(p, i)
  BY <1>0, <1>1, <1>2 DEF Touches
<1>4. ProcInv(p)'
  BY <1>1 DEF ProcInv, Hold, Chunk, Copying, Passed, Moves, Writing
<1>5. /\ \A bn : Mapped(ip[i], bn)' = Mapped(ip[i], bn)
      /\ \A j : Cell(ip[i], j)' = Cell(ip[i], j)
  <2>1. /\ \A bn : Mapped(ip[i], bn)' = Mapped(new, bn)
        /\ \A j : Cell(ip[i], j)' = Cell(new, j)
    BY <1>1 DEF Mapped, Cell
  <2> QED
    BY <2>1, SameAddrs
<1>6. InoInv(i)'
  <2>1. Full(ip[i], ip[i].size)'
    BY <1>1, <1>5 DEF Full
  <2> QED
    BY <1>1, <2>1 DEF InoInv
<1>7. ASSUME NEW g \in File, IpOf[g] = i PROVE OffInv(g)'
  <2>1. off[g] \in Nat /\ ip[i].size \in Nat /\ new.size \in Nat /\ off[g] <= ip[i].size
    BY <1>7 DEF DataTyped, INode, KernelInv, OffInv
  <2>2. CASE g = call[p].f
    BY <1>1, <1>2, <1>7, <2>2 DEF OffInv
  <2>3. CASE g # call[p].f
    BY <1>1, <1>2, <1>7, <2>1, <2>3 DEF OffInv
  <2> QED
    BY <2>2, <2>3
<1>8. \A j : ~Truncating(i, j) /\ ~Truncating(i, j)'
  <2>1. ~Truncated(i)
    BY HolderAlone
  <2>2. ~Truncated(i)'
    BY <1>1, <2>1 DEF Truncated
  <2> QED
    BY <2>1, <2>2 DEF Truncated, Truncating
<1>9. Owned(Table(ip), Dead, used)'
  BY <1>3, <1>5, <1>8, OwnedKept
<1> QED
  BY <1>3, <1>4, <1>6, <1>7, <1>9, StepKeeps

\* Only the holder of the lock may have an inode to save.
LEMMA HolderSaved ==
  ASSUME DataTyped, KernelInv, NEW p \in Proc, Moves(p),
         call[p].op = "copy" => off[call[p].f] + call[p].n1 <= ip[Ino(p)].size
  PROVE  dip[Ino(p)] = ip[Ino(p)]
<1>0. PICK i \in Inum : i = Ino(p)
  BY Mover
<1>1. ~Growing(i)
  <2> SUFFICES ASSUME NEW q \in Proc, call[q].op = "copy", Ino(q) = i,
                      off[call[q].f] + call[q].n1 > ip[i].size
               PROVE  FALSE
    BY DEF Growing
  <2>1. q = p
    BY <1>0 DEF KernelInv, ProcInv, Hold, Moves
  <2>2. off[call[p].f] \in Nat /\ call[p].n1 \in Nat /\ ip[i].size \in Nat
    BY Mover DEF DataTyped, INode
  <2> QED
    BY <1>0, <2>1, <2>2
<1>2. ~Truncated(i) /\ InoInv(i)
  BY <1>0, HolderAlone DEF KernelInv
<1> QED
  BY <1>0, <1>1, <1>2 DEF InoInv

\* fileread() moves the offset and unlocks the inode.
LEMMA ReadEndInv ==
  ASSUME DataTyped, KernelInv, mk = 0, NEW p \in Proc, ReadEnd(p)
  PROVE  DataTyped' /\ mk' = 0 /\ Kept(p)
<1>0. /\ call[p].op = "read" /\ call[p].tot = call[p].n1
      /\ off' = [off EXCEPT ![call[p].f] = @ + call[p].n1]
      /\ lock' = [lock EXCEPT ![Ino(p)] = NoProc] /\ call' = [call EXCEPT ![p] = Idle]
      /\ mk' = mk /\ freeblock' = freeblock /\ used' = used /\ disk' = disk /\ dip' = dip /\ ip' = ip
  BY DEF ReadEnd, mkfsVars
<1>1. Moves(p)
  BY <1>0 DEF Moves
<1>2. PICK i \in Inum : i = Ino(p)
  BY <1>1, Mover
<1>3. call[p].f \in File /\ call[p].n1 \in Nat /\ off[call[p].f] \in Nat
  BY <1>1, Mover
<1>4. ip[i] \in INode /\ dip[i] = ip[i]
  BY <1>0, <1>1, <1>2, HolderSaved DEF DataTyped
<1>5. /\ off[call[p].f] + call[p].n1 <= ip[i].size /\ ip[i].size <= MAXFILE * BSIZE
      /\ Full(ip[i], ip[i].size) /\ ip[i].size >= ip[i].size
  <2>1. Chunk(p) /\ InoInv(i) /\ Full(ip[i], ip[i].size)
    BY <1>1, <1>2, HolderAlone DEF KernelInv, ProcInv
  <2>2. ip[i].size \in Nat
    BY <1>4 DEF INode
  <2> QED
    BY <1>0, <1>1, <1>2, <2>1, <2>2 DEF Chunk, InoInv
<1>6. ip' = [ip EXCEPT ![i] = ip[i]]
  BY <1>0 DEF DataTyped
<1>7. Kept(p)
  BY <1>0, <1>1, <1>2, <1>4, <1>5, <1>6, IdleCall, ChunkEnds
<1>8. DataTyped'
  BY <1>0, <1>2, <1>3, IdleCall DEF DataTyped
<1> QED
  BY <1>0, <1>7, <1>8

\* writei() saves the inode if the file has grown; filewrite() moves the offset.
LEMMA WriteEndInv ==
  ASSUME DataTyped, KernelInv, mk = 0, NEW p \in Proc, WriteEnd(p)
  PROVE  DataTyped' /\ mk' = 0 /\ Kept(p)
<1>a. PICK c : c = call[p]
  OBVIOUS
<1>b. PICK d : d = IF c.done + c.n1 < c.n
                   THEN [op |-> "write", f |-> c.f, n |-> c.n, done |-> c.done + c.n1] ELSE Idle
  OBVIOUS
<1>c. PICK i : i = Ino(p)
  OBVIOUS
<1>d. PICK grown : grown = [ip[i] EXCEPT !.size = Position(p)]
  OBVIOUS
<1>0. /\ c.op = "copy" /\ c.tot = c.n1
      /\ \/ Position(p) > ip[i].size /\ ip' = [ip EXCEPT ![i] = grown] /\ dip' = [dip EXCEPT ![i] = grown]
         \/ Position(p) <= ip[i].size /\ ip' = ip /\ dip' = dip
      /\ off' = [off EXCEPT ![c.f] = @ + c.n1]
      /\ lock' = [lock EXCEPT ![i] = NoProc] /\ call' = [call EXCEPT ![p] = d]
      /\ mk' = mk /\ freeblock' = freeblock /\ used' = used /\ disk' = disk
  BY <1>a, <1>b, <1>c, <1>d DEF WriteEnd, mkfsVars, iupdate
<1>1. Moves(p)
  BY <1>0, <1>a DEF Moves
<1>2. /\ i \in Inum /\ c.f \in File /\ c.n1 \in Nat /\ off[c.f] \in Nat
      /\ Position(p) = off[c.f] + c.n1 /\ Position(p) \in Nat
  BY <1>0, <1>1, <1>a, <1>c, Mover
<1>3. c \in CopyCall
  BY <1>0, <1>a, Shapes DEF DataTyped
<1>4. c.n \in Nat /\ c.done \in Nat /\ c.n < UINT
  BY <1>0, <1>3, <1>a DEF CopyCall, KernelInv, ProcInv, Writing
<1>5. d \in Calls /\ (d.op = "idle" \/ (d.op = "write" /\ d.done < d.n /\ d.n < UINT))
  <2>1. CASE c.done + c.n1 < c.n
    <3>1. d = [op |-> "write", f |-> c.f, n |-> c.n, done |-> c.done + c.n1]
      BY <1>b, <2>1
    <3>2. d \in WriteCall
      BY <1>2, <1>4, <3>1 DEF WriteCall
    <3> QED
      BY <1>4, <2>1, <3>1, <3>2 DEF Calls
  <2>2. CASE ~(c.done + c.n1 < c.n)
    BY <1>b, <2>2, IdleCall
  <2> QED
    BY <2>1, <2>2
<1>6. ip[i] \in INode /\ dip[i] \in INode
  BY <1>2 DEF DataTyped
<1>7. ip[i].size \in Nat /\ InoInv(i) /\ ProcInv(p)
  BY <1>2, <1>6 DEF INode, KernelInv
<1>8. /\ off[c.f] + c.n1 <= MAXFILE * BSIZE /\ Full(ip[i], Position(p)) /\ Full(ip[i], ip[i].size)
      /\ ip[i].size <= MAXFILE * BSIZE
  BY <1>0, <1>1, <1>7, <1>a, <1>c, HolderAlone DEF ProcInv, Chunk, Copying, InoInv
<1>9. CASE Position(p) > ip[i].size /\ ip' = [ip EXCEPT ![i] = grown] /\ dip' = [dip EXCEPT ![i] = grown]
  <2>1. grown \in INode /\ grown.addrs = ip[i].addrs /\ grown.size = Position(p)
    BY <1>2, <1>6, <1>d DEF INode
  <2>2. dip'[i] = grown /\ \A k \in Inum : k # i => dip'[k] = dip[k]
    BY <1>2, <1>9 DEF DataTyped
  <2>3. Position(p) >= ip[i].size /\ off[c.f] + c.n1 <= Position(p) /\ Position(p) <= MAXFILE * BSIZE
    BY <1>2, <1>7, <1>8, <1>9
  <2>4. Kept(p)
    BY <1>0, <1>1, <1>2, <1>5, <1>8, <1>9, <1>a, <1>c, <2>1, <2>2, <2>3, ChunkEnds
  <2>5. DataTyped'
    BY <1>0, <1>2, <1>5, <1>9, <2>1 DEF DataTyped
  <2> QED
    BY <1>0, <2>4, <2>5
<1>10. CASE Position(p) <= ip[i].size /\ ip' = ip /\ dip' = dip
  <2>1. dip'[i] = ip[i]
    BY <1>1, <1>2, <1>10, <1>a, <1>c, HolderSaved
  <2>2. ip' = [ip EXCEPT ![i] = ip[i]] /\ ip[i].size >= ip[i].size /\ off[c.f] + c.n1 <= ip[i].size
    BY <1>2, <1>7, <1>10 DEF DataTyped
  <2>4. Kept(p)
    BY <1>0, <1>1, <1>2, <1>5, <1>6, <1>8, <1>10, <1>a, <1>c, <2>1, <2>2, ChunkEnds
  <2>5. DataTyped'
    BY <1>0, <1>2, <1>5, <1>10 DEF DataTyped
  <2> QED
    BY <1>0, <2>4, <2>5
<1> QED
  BY <1>0, <1>9, <1>10
-----------------------------------------------------------------------------
\* iput() finds nobody using the file.
LEMMA TruncStarts ==
  ASSUME DataTyped, KernelInv, mk = 0, NEW p \in Proc, NEW i \in Removable, Trunc(p, i)
  PROVE  DataTyped' /\ mk' = 0 /\ Kept(p)
<1>a. PICK c : c = [op |-> "trunc", i |-> i, j |-> 0]
  OBVIOUS
<1>0. /\ call[p] = Idle /\ lock[i] = NoProc
      /\ lock' = [lock EXCEPT ![i] = p]
      /\ off' = [f \in File |-> IF IpOf[f] = i THEN 0 ELSE off[f]]
      /\ call' = [call EXCEPT ![p] = c]
      /\ mk' = mk /\ freeblock' = freeblock /\ used' = used /\ disk' = disk /\ dip' = dip /\ ip' = ip
  BY <1>a DEF Trunc, mkfsVars
<1>1. i \in Inum /\ MAXFILE \in Nat
  BY CallAssumption, Sizes
<1>2. c \in TruncCall /\ c.op = "trunc" /\ c.i = i /\ c.j = 0
  BY <1>a, <1>1 DEF TruncCall
<1>3. c \in Calls
  BY <1>2 DEF Calls
<1>4. DataTyped'
  BY <1>0, <1>1, <1>3 DEF DataTyped
<1>5. /\ call'[p] = c /\ call[p].op = "idle" /\ (\A q \in Proc : q # p => call'[q] = call[q])
      /\ lock'[i] = p /\ \A k \in Inum : k # i => lock'[k] = lock[k]
  BY <1>0, <1>1, IdleCall DEF DataTyped
<1>6. Touches(p, i)
  BY <1>0, <1>1, <1>2, <1>5 DEF Touches, Moves
<1>7. ~Truncated(i)
  BY <1>0, <1>1, UnlockedFull
<1>8. ProcInv(p)'
  <2>1. Passed(p)'
    BY <1>0, <1>1, <1>2, <1>5, Sizes DEF Passed
  <2> QED
    BY <1>2, <1>5, <2>1 DEF ProcInv, Hold, Chunk, Copying, Moves, Writing
<1>9. InoInv(i)'
  <2>1. Truncated(i)'
    BY <1>2, <1>5 DEF Truncated
  <2>2. InoInv(i)
    BY <1>1 DEF KernelInv
  <2> QED
    BY <1>0, <2>1, <2>2 DEF InoInv
<1>10. ASSUME NEW f \in File, IpOf[f] = i PROVE OffInv(f)'
  <2>1. off'[f] = 0 /\ ip'[i].size \in Nat
    BY <1>0, <1>1, <1>10 DEF DataTyped, INode
  <2> QED
    BY <1>10, <2>1 DEF OffInv
<1>11. \A j \in 0..MAXFILE : Cell(ip[i], j)' = Cell(ip[i], j) /\ ~Truncating(i, j) /\ ~Truncating(i, j)'
  <2>1. \A j : Cell(ip[i], j)' = Cell(ip[i], j)
    BY <1>0 DEF Cell, Mapped
  <2>2. ASSUME NEW j \in 0..MAXFILE, NEW q \in Proc, call'[q].op = "trunc", call'[q].i = i, j < call'[q].j
        PROVE  FALSE
    <3>1. CASE q = p
      BY <1>1, <1>2, <1>5, <2>2, <3>1
    <3>2. CASE q # p
      BY <1>5, <1>7, <2>2, <3>2 DEF Truncated
    <3> QED
      BY <3>1, <3>2
  <2> QED
    BY <1>7, <2>1, <2>2 DEF Truncating, Truncated
<1>12. Owned(Table(ip), Dead, used)'
  BY <1>0, <1>6, <1>11, OwnedKept
<1>13. Kept(p)
  BY <1>6, <1>8, <1>9, <1>10, <1>12, StepKeeps
<1> QED
  BY <1>0, <1>4, <1>13

\* Nobody else truncates the inode, so that what is dead is what p has passed.
LEMMA DeadBelow ==
  ASSUME DataTyped, KernelInv, NEW p \in Proc, call[p].op = "trunc", NEW l
  PROVE  Truncating(call[p].i, l) <=> l < call[p].j
<1>1. ASSUME NEW q \in Proc, call[q].op = "trunc", call[q].i = call[p].i PROVE q = p
  BY <1>1 DEF KernelInv, ProcInv, Hold
<1> QED
  BY <1>1 DEF Truncating

\* itrunc() sets the size and saves the inode.
LEMMA TruncEndInv ==
  ASSUME DataTyped, KernelInv, mk = 0, NEW p \in Proc, TruncEnd(p)
  PROVE  DataTyped' /\ mk' = 0 /\ Kept(p)
<1>a. PICK i : i = call[p].i
  OBVIOUS
<1>b. PICK empty : empty = [ip[i] EXCEPT !.size = 0]
  OBVIOUS
<1>0. /\ call[p].op = "trunc" /\ ToFree(p) = {}
      /\ ip' = [ip EXCEPT ![i] = empty] /\ dip' = [dip EXCEPT ![i] = empty]
      /\ lock' = [lock EXCEPT ![i] = NoProc] /\ call' = [call EXCEPT ![p] = Idle]
      /\ mk' = mk /\ freeblock' = freeblock /\ used' = used /\ disk' = disk /\ off' = off
  BY <1>a, <1>b DEF TruncEnd, mkfsVars, iupdate
<1>1. i \in Inum /\ call[p].j \in Nat /\ ~Moves(p) /\ lock[i] = p /\ Passed(p)
  BY <1>0, <1>a, Truncator DEF KernelInv, ProcInv, Hold
<1>2. ip[i] \in INode /\ empty \in INode /\ empty.addrs = ip[i].addrs /\ empty.size = 0
  BY <1>1, <1>b DEF DataTyped, INode
<1>3. DataTyped'
  BY <1>0, <1>1, <1>2, IdleCall DEF DataTyped
<1>4. /\ call'[p] = Idle /\ (\A q \in Proc : q # p => call'[q] = call[q])
      /\ ip'[i] = empty /\ dip'[i] = empty
      /\ \A k \in Inum : k # i => lock'[k] = lock[k] /\ ip'[k] = ip[k] /\ dip'[k] = dip[k]
  BY <1>0, <1>1 DEF DataTyped
<1>5. Touches(p, i)
  BY <1>0, <1>1, <1>4, <1>a, IdleCall DEF Touches
<1>6. ProcInv(p)'
  BY <1>4, IdleCall DEF ProcInv, Hold, Chunk, Copying, Passed, Moves, Writing
<1>7. InoInv(i)'
  <2>1. \A bn \in 0 .. MAXFILE - 1 : ~(bn * BSIZE < 0)
    BY Sizes
  <2>2. Full(ip[i], ip[i].size)'
    BY <1>2, <1>4, <2>1 DEF Full
  <2> QED
    BY <1>2, <1>4, <2>2, LimitNat DEF InoInv
<1>8. ASSUME NEW f \in File, IpOf[f] = i PROVE OffInv(f)'
  <2>1. off[f] = 0
    BY <1>0, <1>1, <1>8, <1>a DEF Passed
  <2> QED
    BY <1>0, <1>2, <1>4, <1>8, <2>1 DEF OffInv
<1>9. ASSUME NEW j \in 0..MAXFILE PROVE Cell(ip[i], j) = 0 /\ Cell(ip[i], j)' = 0
  <2>0. NDIRECT \in Nat /\ MAXFILE \in Nat /\ NDIRECT <= MAXFILE
    BY Sizes
  <2>1. \A l \in 0..MAXFILE : l >= call[p].j => Cell(ip[i], l) = 0
    BY <1>0, <1>1, <1>a, <2>0 DEF ToFree
  <2>2. ip[i].addrs[NDIRECT] = 0
    <3>1. CASE call[p].j <= MAXFILE
      BY <2>0, <2>1, <3>1, CellCases
    <3>2. CASE call[p].j > MAXFILE
      BY <1>0, <1>1, <1>a, <2>0, <3>2 DEF Passed
    <3> QED
      BY <1>1, <2>0, <3>1, <3>2
  <2>3. Cell(ip[i], j) = 0
    <3>1. CASE j < NDIRECT
      <4>1. CASE j < call[p].j
        <5>1. ip[i].addrs[j] = 0
          BY <1>0, <1>1, <1>a, <2>0, <3>1, <4>1 DEF Passed
        <5> QED
          BY <3>1, <5>1, CellCases
      <4>2. CASE j >= call[p].j
        BY <2>1, <4>2
      <4> QED
        BY <1>1, <4>1, <4>2
    <3>2. CASE j >= NDIRECT
      BY <2>0, <2>2, <3>2, CellCases
    <3> QED
      BY <2>0, <3>1, <3>2
  <2>4. Cell(ip[i], j)' = Cell(empty, j)
    BY <1>0, <1>4 DEF Cell, Mapped
  <2>5. Cell(empty, j) = Cell(ip[i], j)
    BY <1>2, SameAddrs
  <2> QED
    BY <2>3, <2>4, <2>5
<1>10. Owned(Table(ip), Dead, used)'
  BY <1>0, <1>5, <1>9, OwnedKept
<1>11. Kept(p)
  BY <1>5, <1>6, <1>7, <1>8, <1>10, StepKeeps
<1> QED
  BY <1>0, <1>3, <1>11

\* itrunc() frees the next block.
LEMMA TruncFreeInv ==
  ASSUME DataTyped, KernelInv, mk = 0, NEW p \in Proc, TruncFree(p)
  PROVE  DataTyped' /\ mk' = 0 /\ Kept(p)
<1>a. PICK i : i = call[p].i
  OBVIOUS
<1>b. PICK j : j = Min(ToFree(p))
  OBVIOUS
<1>0. /\ call[p].op = "trunc" /\ ToFree(p) # {}
      /\ used' = used \ {Cell(ip[i], j)}
      /\ ip' = CASE j < NDIRECT -> [ip EXCEPT ![i].addrs[j] = 0]
                 [] j = MAXFILE -> [ip EXCEPT ![i].addrs[NDIRECT] = 0]
                 [] OTHER -> ip
      /\ call' = [call EXCEPT ![p].j = j + 1]
      /\ mk' = mk /\ freeblock' = freeblock /\ disk' = disk /\ dip' = dip /\ lock' = lock /\ off' = off
  BY <1>a, <1>b DEF TruncFree, mkfsVars
<1>1. i \in Inum /\ call[p].j \in Nat /\ ~Moves(p) /\ lock[i] = p /\ Passed(p)
  BY <1>0, <1>a, Truncator DEF KernelInv, ProcInv, Hold
<1>2. NDIRECT \in Nat /\ MAXFILE \in Nat /\ NDIRECT < MAXFILE
  BY Sizes
<1>3. /\ j \in 0..MAXFILE /\ j \in Nat /\ j >= call[p].j /\ Cell(ip[i], j) # 0
      /\ \A l \in 0..MAXFILE : l >= call[p].j /\ l < j => Cell(ip[i], l) = 0
  <2>1. ToFree(p) \in SUBSET Nat
    BY <1>1, <1>2 DEF ToFree
  <2>2. j \in ToFree(p) /\ \A y \in ToFree(p) : j =< y
    BY <1>0, <1>b, <2>1, MinMember
  <2>3. j \in 0..MAXFILE /\ j \in Nat /\ j >= call[p].j /\ Cell(ip[i], j) # 0
    BY <1>1, <1>2, <1>a, <2>2 DEF ToFree
  <2>4. ASSUME NEW l \in 0..MAXFILE, l >= call[p].j, l < j PROVE Cell(ip[i], l) = 0
    <3>1. ~(j =< l)
      BY <2>3, <2>4
    <3>2. l \notin ToFree(p)
      BY <2>2, <3>1
    <3> QED
      BY <1>1, <1>2, <1>a, <2>4, <3>2 DEF ToFree
  <2> QED
    BY <2>3, <2>4
<1>4. ip[i] \in INode /\ ip[i].addrs \in [0..NDIRECT -> Nat]
  BY <1>1 DEF DataTyped, INode
<1>5. /\ ip' \in [Inum -> INode] /\ \A k \in Inum : k # i => ip'[k] = ip[k]
      /\ ip'[i].size = ip[i].size
      /\ j < NDIRECT => ip'[i].addrs = [ip[i].addrs EXCEPT ![j] = 0]
      /\ j = MAXFILE => ip'[i].addrs = [ip[i].addrs EXCEPT ![NDIRECT] = 0]
      /\ j >= NDIRECT /\ j < MAXFILE => ip'[i] = ip[i]
  <2>1. CASE j < NDIRECT
    <3>1. ip' = [ip EXCEPT ![i].addrs[j] = 0]
      <4>1. ~(j = MAXFILE)
        BY <1>2, <1>3, <2>1
      <4> QED
        BY <1>0, <2>1, <4>1
    <3>2. ip' = [ip EXCEPT ![i] = [ip[i] EXCEPT !.addrs = [ip[i].addrs EXCEPT ![j] = 0]]]
      BY <3>1
    <3>3. [ip[i].addrs EXCEPT ![j] = 0] \in [0..NDIRECT -> Nat]
      BY <1>2, <1>4
    <3>4. [ip[i] EXCEPT !.addrs = [ip[i].addrs EXCEPT ![j] = 0]] \in INode
      BY <1>4, <3>3 DEF INode
    <3>5. /\ ip' \in [Inum -> INode] /\ (\A k \in Inum : k # i => ip'[k] = ip[k])
          /\ ip'[i] = [ip[i] EXCEPT !.addrs = [ip[i].addrs EXCEPT ![j] = 0]]
      BY <1>1, <3>2, <3>4 DEF DataTyped
    <3>6. ip'[i].size = ip[i].size /\ ip'[i].addrs = [ip[i].addrs EXCEPT ![j] = 0]
      BY <1>4, <3>5 DEF INode
    <3> QED
      BY <1>2, <1>3, <2>1, <3>5, <3>6
  <2>2. CASE j = MAXFILE
    <3>1. ip' = [ip EXCEPT ![i].addrs[NDIRECT] = 0]
      BY <1>0, <1>2, <2>2
    <3>2. ip' = [ip EXCEPT ![i] = [ip[i] EXCEPT !.addrs = [ip[i].addrs EXCEPT ![NDIRECT] = 0]]]
      BY <3>1
    <3>3. [ip[i].addrs EXCEPT ![NDIRECT] = 0] \in [0..NDIRECT -> Nat]
      BY <1>2, <1>4
    <3>4. [ip[i] EXCEPT !.addrs = [ip[i].addrs EXCEPT ![NDIRECT] = 0]] \in INode
      BY <1>4, <3>3 DEF INode
    <3>5. /\ ip' \in [Inum -> INode] /\ (\A k \in Inum : k # i => ip'[k] = ip[k])
          /\ ip'[i] = [ip[i] EXCEPT !.addrs = [ip[i].addrs EXCEPT ![NDIRECT] = 0]]
      BY <1>1, <3>2, <3>4 DEF DataTyped
    <3>6. ip'[i].size = ip[i].size /\ ip'[i].addrs = [ip[i].addrs EXCEPT ![NDIRECT] = 0]
      BY <1>4, <3>5 DEF INode
    <3> QED
      BY <1>2, <1>3, <2>2, <3>5, <3>6
  <2>3. CASE j >= NDIRECT /\ j < MAXFILE
    <3>1. ip' = ip
      BY <1>0, <1>2, <1>3, <2>3
    <3> QED
      BY <1>2, <1>3, <2>3, <3>1 DEF DataTyped
  <2> QED
    BY <1>2, <1>3, <2>1, <2>2, <2>3
<1>6. /\ call' \in [Proc -> Calls] /\ (\A q \in Proc : q # p => call'[q] = call[q])
      /\ call'[p].op = "trunc" /\ call'[p].i = i /\ call'[p].j = j + 1
  <2>1. call[p] \in TruncCall
    BY <1>0, Shapes DEF DataTyped
  <2>2. call' = [call EXCEPT ![p] = [call[p] EXCEPT !.j = j + 1]]
    BY <1>0
  <2>3. [call[p] EXCEPT !.j = j + 1] \in TruncCall
    BY <1>3, <2>1 DEF TruncCall
  <2>4. [call[p] EXCEPT !.j = j + 1] \in Calls
    BY <2>3 DEF Calls
  <2>5. /\ call' \in [Proc -> Calls] /\ (\A q \in Proc : q # p => call'[q] = call[q])
        /\ call'[p] = [call[p] EXCEPT !.j = j + 1]
    BY <2>2, <2>4 DEF DataTyped
  <2> QED
    BY <1>a, <2>1, <2>5 DEF TruncCall
<1>7. DataTyped'
  BY <1>0, <1>5, <1>6 DEF DataTyped
<1>8. Touches(p, i)
  BY <1>0, <1>1, <1>5, <1>6, <1>a DEF Touches
<1>9. Passed(p)'
  <2>1. ASSUME NEW k \in 0 .. NDIRECT - 1, k < j + 1 PROVE ip'[i].addrs[k] = 0
    <3>1. ASSUME k < j PROVE ip[i].addrs[k] = 0
      <4>1. CASE k < call[p].j
        BY <1>0, <1>1, <1>a, <4>1 DEF Passed
      <4>2. CASE k >= call[p].j
        <5>1. k \in 0..MAXFILE /\ k < NDIRECT
          BY <1>2
        <5>2. Cell(ip[i], k) = 0
          BY <1>3, <3>1, <4>2, <5>1
        <5> QED
          BY <5>1, <5>2, CellCases
      <4> QED
        BY <1>1, <1>2, <4>1, <4>2
    <3>2. CASE j < NDIRECT
      <4>1. ip'[i].addrs = [ip[i].addrs EXCEPT ![j] = 0]
        BY <1>5, <3>2
      <4>2. k \in 0..NDIRECT /\ j \in 0..NDIRECT /\ (k = j \/ k < j)
        BY <1>2, <1>3, <2>1, <3>2
      <4> QED
        BY <1>4, <3>1, <4>1, <4>2
    <3>3. CASE j = MAXFILE
      <4>1. k # NDIRECT /\ k < j
        BY <1>2, <3>3
      <4> QED
        BY <1>2, <1>4, <1>5, <3>1, <3>3, <4>1
    <3>4. CASE j >= NDIRECT /\ j < MAXFILE
      <4>1. k < j
        BY <1>2, <1>3, <3>4
      <4> QED
        BY <1>5, <3>1, <3>4, <4>1
    <3> QED
      BY <1>2, <1>3, <3>2, <3>3, <3>4
  <2>2. j + 1 = MAXFILE + 1 => ip'[i].addrs[NDIRECT] = 0
    BY <1>2, <1>3, <1>4, <1>5
  <2>3. \A f \in File : IpOf[f] = i => off'[f] = 0
    BY <1>0, <1>1, <1>a DEF Passed
  <2>4. j + 1 <= MAXFILE + 1
    BY <1>2, <1>3
  <2> QED
    BY <1>6, <2>1, <2>2, <2>3, <2>4 DEF Passed
<1>10. ProcInv(p)'
  BY <1>0, <1>1, <1>6, <1>9 DEF ProcInv, Hold, Chunk, Copying, Moves, Writing
<1>11. InoInv(i)'
  <2>1. Truncated(i)'
    BY <1>6 DEF Truncated
  <2>2. InoInv(i)
    BY <1>1 DEF KernelInv
  <2> QED
    BY <1>5, <2>1, <2>2 DEF InoInv
<1>12. \A f \in File : IpOf[f] = i => OffInv(f)'
  BY <1>0, <1>5 DEF OffInv, KernelInv
<1>13. \A l : (Truncating(i, l) <=> l < call[p].j) /\ (Truncating(i, l)' <=> l < j + 1)
  <2>1. \A l : Truncating(i, l) <=> l < call[p].j
    BY <1>0, <1>a, DeadBelow
  <2>2. ASSUME NEW q \in Proc, q # p PROVE ~(call'[q].op = "trunc" /\ call'[q].i = i)
    BY <1>6, <1>8, <2>2, OtherProcs
  <2>3. \A l : Truncating(i, l)' <=> l < j + 1
    BY <1>6, <2>2 DEF Truncating
  <2> QED
    BY <2>1, <2>3
<1>14. ASSUME NEW l \in 0..MAXFILE, l > j PROVE Cell(ip[i], l)' = Cell(ip[i], l)
  <2>0. l \in Nat /\ j < MAXFILE
    BY <1>2, <1>3, <1>14
  <2>1. CASE j < NDIRECT
    <3>1. /\ ip'[i].addrs[NDIRECT] = ip[i].addrs[NDIRECT]
          /\ l < NDIRECT => ip'[i].addrs[l] = ip[i].addrs[l]
      <4>1. ip'[i].addrs = [ip[i].addrs EXCEPT ![j] = 0]
        BY <1>5, <2>1
      <4>2. NDIRECT \in 0..NDIRECT /\ j # NDIRECT /\ l # j /\ (l < NDIRECT => l \in 0..NDIRECT)
        BY <1>2, <1>3, <1>14, <2>0, <2>1
      <4> QED
        BY <1>4, <4>1, <4>2
    <3>2. CASE l < NDIRECT
      BY <1>0, <1>2, <2>0, <3>1, <3>2 DEF Cell, Mapped
    <3>3. CASE ~(l < NDIRECT)
      BY <1>0, <1>2, <2>0, <3>1, <3>3 DEF Cell, Mapped
    <3> QED
      BY <3>2, <3>3
  <2>2. CASE j >= NDIRECT
    <3>1. ip'[i] = ip[i]
      BY <1>2, <1>3, <1>5, <2>0, <2>2
    <3>2. disk' = disk
      BY <1>0
    <3> QED
      BY <3>1, <3>2 DEF Cell, Mapped
  <2> QED
    BY <1>2, <1>3, <2>1, <2>2
<1>15. Owned(Table(ip), Dead, used)'
  <2>1. Table(ip)[i][j] # 0 /\ j \notin Dead[i] /\ j \in Dead'[i] /\ Table(ip)[i][j] = Cell(ip[i], j)
    <3>1. ~(j < call[p].j) /\ j < j + 1
      BY <1>1, <1>3
    <3> QED
      BY <1>1, <1>3, <1>13, <3>1, Tables
  <2>2. ASSUME NEW k \in Inum, NEW l \in 0..MAXFILE
        PROVE  /\ l \notin Dead'[k] => l \notin Dead[k] /\ Table(ip)'[k][l] = Table(ip)[k][l]
               /\ l \notin Dead[k] /\ Table(ip)[k][l] # 0 /\ (k # i \/ l # j) => l \notin Dead'[k]
    <3>0. /\ Table(ip)[k][l] = Cell(ip[k], l) /\ (l \in Dead[k] <=> Truncating(k, l))
          /\ Table(ip)'[k][l] = Cell(ip[k], l)' /\ (l \in Dead'[k] <=> Truncating(k, l)')
      BY Tables
    <3>1. CASE k # i
      <4>1. Cell(ip[k], l)' = Cell(ip[k], l) /\ (Truncating(k, l)' <=> Truncating(k, l))
        BY <1>8, <3>1, OthersKept
      <4> QED
        BY <3>0, <3>1, <4>1
    <3>2. CASE k = i
      <4>1. (l \in Dead[k] <=> l < call[p].j) /\ (l \in Dead'[k] <=> l < j + 1)
        BY <1>13, <3>0, <3>2
      <4>2. l \notin Dead'[k] => l > j /\ l \notin Dead[k]
        BY <1>1, <1>2, <1>3, <4>1
      <4>3. l \notin Dead'[k] => Table(ip)'[k][l] = Table(ip)[k][l]
        BY <1>14, <3>0, <3>2, <4>2
      <4>4. l \notin Dead[k] /\ Table(ip)[k][l] # 0 /\ l # j => ~(l < j + 1)
        BY <1>1, <1>2, <1>3, <3>0, <3>2, <4>1
      <4> QED
        BY <3>2, <4>1, <4>2, <4>3, <4>4
    <3> QED
      BY <3>1, <3>2
  <2>3. Owned(Table(ip), Dead, used)
    BY DEF KernelInv
  <2>4. Owned(Table(ip)', Dead', used \ {Table(ip)[i][j]})
    BY <1>1, <1>3, <2>1, <2>2, <2>3, OwnedFree
  <2>5. used' = used \ {Table(ip)[i][j]}
    BY <1>0, <2>1
  <2>6. Owned(Table(ip)', Dead', used')
    BY <2>4, <2>5
  <2> QED
    BY <2>6 DEF Owned
<1>16. Kept(p)
  BY <1>8, <1>10, <1>11, <1>12, <1>15, StepKeeps
<1> QED
  BY <1>0, <1>7, <1>16
-----------------------------------------------------------------------------
\* bmap() has to allocate only for a write that makes the file grow.
LEMMA BmapGrows ==
  ASSUME DataTyped, KernelInv, NEW p \in Proc, InChunk(p), Mapped(ip[Ino(p)], Bn(p)) = 0
  PROVE  /\ call[p].op = "copy" /\ ip[Ino(p)].size <= Bn(p) * BSIZE
         /\ off[call[p].f] + call[p].n1 > ip[Ino(p)].size
<1>0. /\ Moves(p) /\ Bn(p) \in 0 .. MAXFILE - 1 /\ Bn(p) * BSIZE <= Position(p) /\ Bn(p) * BSIZE \in Nat
      /\ Ino(p) \in Inum /\ Position(p) = off[call[p].f] + call[p].tot /\ off[call[p].f] \in Nat
      /\ call[p].tot \in Nat /\ call[p].n1 \in Nat
  BY Round, Mover
<1>1. ip[Ino(p)].size \in Nat /\ call[p].tot < call[p].n1
  BY <1>0 DEF DataTyped, INode, InChunk
<1>2. Full(ip[Ino(p)], ip[Ino(p)].size)
  BY <1>0, HolderAlone
<1>3. ~(Bn(p) * BSIZE < ip[Ino(p)].size)
  BY <1>0, <1>2 DEF Full
<1>4. ip[Ino(p)].size <= Bn(p) * BSIZE /\ off[call[p].f] + call[p].n1 > ip[Ino(p)].size
  BY <1>0, <1>1, <1>3
<1>5. call[p].op # "read"
  <2> SUFFICES ASSUME call[p].op = "read" PROVE FALSE
    OBVIOUS
  <2>1. off[call[p].f] + call[p].n1 <= ip[Ino(p)].size
    BY <1>0 DEF KernelInv, ProcInv, Chunk
  <2> QED
    BY <1>0, <1>1, <1>4, <2>1
<1> QED
  BY <1>0, <1>4, <1>5 DEF Moves

\* A place of the inode gets a free block.
LEMMA BlockAdded ==
  ASSUME DataTyped, KernelInv, NEW p \in Proc, InChunk(p), Mapped(ip[Ino(p)], Bn(p)) = 0,
         NEW i \in Inum, i = Ino(p), NEW j \in 0..MAXFILE, NEW b \in Nat, b \notin used,
         used' = used \cup {b}, Cell(ip[i], j) = 0, Cell(ip[i], j)' = b,
         \A l \in 0..MAXFILE : l # j => Cell(ip[i], l)' = Cell(ip[i], l),
         ip'[i].size = ip[i].size, \A k \in Inum : k # i => ip'[k] = ip[k],
         \A k \in Inum : k # i /\ ip[k].addrs[NDIRECT] # 0 =>
           disk'[ip[k].addrs[NDIRECT]] = disk[ip[k].addrs[NDIRECT]],
         call'[p].op = call[p].op, call'[p].f = call[p].f, call'[p].n1 = call[p].n1,
         call'[p].tot = call[p].tot, call'[p].n = call[p].n, call'[p].done = call[p].done,
         \A q \in Proc : q # p => call'[q] = call[q], dip' = dip, lock' = lock, off' = off
  PROVE  Kept(p)
<1>0. Moves(p) /\ ProcInv(p)
  BY Round DEF KernelInv
<1>1. Touches(p, i)
  BY <1>0 DEF Touches, Moves, ProcInv, Hold
<1>2. Moves(p)' /\ Ino(p)' = i /\ Position(p)' = Position(p)
  BY <1>0 DEF Moves, Ino, Position
<1>3. b # 0
  <2>1. \A c \in 0 .. nmeta - 1 : c \in used
    BY DEF KernelInv, Owned
  <2>2. 0 \in 0 .. nmeta - 1
    BY Sizes
  <2> QED
    BY <2>1, <2>2
<1>4. ASSUME NEW bn \in 0 .. MAXFILE - 1, Mapped(ip[i], bn) # 0 PROVE Mapped(ip[i], bn)' # 0
  <2>1. bn \in 0..MAXFILE /\ bn < MAXFILE
    BY Sizes
  <2>2. Mapped(ip[i], bn) = Cell(ip[i], bn) /\ Mapped(ip[i], bn)' = Cell(ip[i], bn)'
    BY <2>1 DEF Cell
  <2> QED
    BY <1>3, <1>4, <2>1, <2>2
<1>5. Hold(p)' /\ Passed(p)' /\ Writing(p)'
  BY <1>0, <1>2 DEF Hold, Passed, Writing, ProcInv, Moves
<1>6. Chunk(p)'
  BY <1>0, <1>2 DEF Chunk, ProcInv
<1>7. Copying(p)'
  BY <1>0, <1>2, <1>4 DEF Copying, ProcInv, Full
<1>8. InoInv(i)'
  <2>1. InoInv(i) /\ Full(ip[i], ip[i].size)
    BY <1>0, HolderAlone DEF KernelInv
  <2>2. Full(ip[i], ip[i].size)'
    BY <1>4, <2>1 DEF Full
  <2>3. call[p].op = "copy" /\ off[call[p].f] + call[p].n1 > ip[i].size
    BY BmapGrows
  <2>4. Growing(i)'
    BY <1>2, <2>3 DEF Growing
  <2> QED
    BY <2>1, <2>2, <2>4 DEF InoInv
<1>9. \A f \in File : IpOf[f] = i => OffInv(f)'
  BY DEF OffInv, KernelInv
<1>10. \A l : ~Truncating(i, l) /\ ~Truncating(i, l)'
  <2>1. ~Truncated(i)
    BY <1>0, HolderAlone
  <2>2. ~Truncated(i)'
    BY <1>0, <2>1 DEF Truncated, Moves
  <2> QED
    BY <2>1, <2>2 DEF Truncated, Truncating
<1>11. Owned(Table(ip), Dead, used)'
  <2>1. Owned(Table(ip), Dead, used)
    BY DEF KernelInv
  <2>2. Table(ip)[i][j] = 0 /\ Table(ip)'[i][j] = b /\ j \notin Dead[i]
    BY <1>10, Tables
  <2>3. ASSUME NEW k \in Inum, NEW l \in 0..MAXFILE, k # i \/ l # j PROVE Table(ip)'[k][l] = Table(ip)[k][l]
    <3>1. Table(ip)[k][l] = Cell(ip[k], l) /\ Table(ip)'[k][l] = Cell(ip[k], l)'
      BY Tables
    <3>2. CASE k # i
      BY <1>1, <3>1, <3>2, OtherCells
    <3>3. CASE k = i
      BY <2>3, <3>1, <3>3
    <3> QED
      BY <3>2, <3>3
  <2>4. Owned(Table(ip)', Dead, used \cup {b})
    BY <2>1, <2>2, <2>3, OwnedAdd
  <2>5. Dead' = Dead
    <3>1. \A k \in Inum, l \in 0..MAXFILE : Truncating(k, l)' <=> Truncating(k, l)
      BY <1>1, <1>10, OthersKept
    <3> QED
      BY <3>1 DEF Dead
  <2>6. Owned(Table(ip)', Dead', used')
    BY <2>4, <2>5
  <2> QED
    BY <2>6 DEF Owned
<1>12. ProcInv(p)'
  BY <1>5, <1>6, <1>7 DEF ProcInv
<1> QED
  BY <1>1, <1>8, <1>9, <1>11, <1>12, StepKeeps

\* The block of the bitmap.
LEMMA BblockNat == ASSUME NEW b \in Nat PROVE BBLOCK(b) \in Nat
<1>1. /\ BSIZE \in Nat \ {0} /\ IPB \in Nat \ {0} /\ NINODES \in Nat /\ NLOG \in Nat
  BY LayoutAssumption
<1>2. BSIZE * 8 \in Nat \ {0}
  BY <1>1
<1>3. b \div (BSIZE * 8) \in Nat /\ NINODES \div IPB \in Nat
  BY <1>1, <1>2, DivMod
<1> QED
  BY <1>1, <1>3 DEF BBLOCK, bmapstart, inodestart, ninodeblocks

\* bmap() allocates: a direct block, the indirect block, or an entry of it.
LEMMA BmapInv ==
  ASSUME DataTyped, KernelInv, mk = 0, NEW p \in Proc, Bmap(p)
  PROVE  DataTyped' /\ mk' = 0 /\ Kept(p)
<1>a. PICK i : i = Ino(p)
  OBVIOUS
<1>b. PICK ind : ind = ip[i].addrs[NDIRECT]
  OBVIOUS
<1>c. PICK bn : bn = Bn(p)
  OBVIOUS
<1>0. /\ InChunk(p) /\ Mapped(ip[i], bn) = 0
      /\ mk' = mk /\ freeblock' = freeblock /\ dip' = dip /\ lock' = lock /\ off' = off
  BY <1>a, <1>c DEF Bmap, mkfsVars
<1>d. PICK b \in Free :
        /\ used' = used \cup {b}
        /\ \/ /\ bn < NDIRECT
              /\ ip' = [ip EXCEPT ![i].addrs[bn] = b]
              /\ disk' = [disk EXCEPT ![b] = bzero(b)]
           \/ /\ bn >= NDIRECT /\ ind = 0
              /\ ip' = [ip EXCEPT ![i].addrs[NDIRECT] = b]
              /\ disk' = [disk EXCEPT ![b] = bzero(b)]
           \/ /\ bn >= NDIRECT /\ ind # 0
              /\ disk' = [disk EXCEPT ![b] = bzero(b), ![ind][bn - NDIRECT] = b]
              /\ ip' = ip
        /\ call' = [call EXCEPT ![p].dirty = @ \cup {BBLOCK(b), b} \cup {x \in {ind} : bn >= NDIRECT /\ ind # 0}]
  BY <1>a, <1>b, <1>c DEF Bmap, balloc
<1>1. /\ b \in Nat /\ b \in 0 .. FSSIZE - 1 /\ b \notin used
  BY Sizes DEF Free
<1>2. Moves(p) /\ i \in Inum /\ bn \in 0 .. MAXFILE - 1 /\ call[p].op = "copy"
  BY <1>0, <1>a, <1>c, Round, Mover, BmapGrows
<1>3. NDIRECT \in Nat /\ MAXFILE \in Nat /\ BSIZE \in Nat \ {0} /\ MAXFILE = NDIRECT + BSIZE /\ Cells = 0 .. BSIZE - 1
  BY Sizes
<1>4. ip[i] \in INode /\ ip[i].addrs \in [0..NDIRECT -> Nat] /\ ind \in Nat
  BY <1>2, <1>3, <1>b DEF DataTyped, INode
<1>5. bzero(b) = [c \in Cells |-> 0] /\ bzero(b) \in [Cells -> Nat]
  BY DEF bzero
<1>6. /\ call' \in [Proc -> Calls] /\ (\A q \in Proc : q # p => call'[q] = call[q])
      /\ call'[p].op = call[p].op /\ call'[p].f = call[p].f /\ call'[p].n1 = call[p].n1
      /\ call'[p].tot = call[p].tot /\ call'[p].n = call[p].n /\ call'[p].done = call[p].done
  <2>1. call[p] \in CopyCall
    BY <1>2, Shapes DEF DataTyped
  <2>2. PICK D : D = call[p].dirty \cup {BBLOCK(b), b} \cup {x \in {ind} : bn >= NDIRECT /\ ind # 0}
    OBVIOUS
  <2>3. D \in SUBSET Nat
    BY <1>1, <1>4, <2>1, <2>2, BblockNat DEF CopyCall
  <2>4. call' = [call EXCEPT ![p] = [call[p] EXCEPT !.dirty = D]]
    BY <1>d, <2>2
  <2>5. [call[p] EXCEPT !.dirty = D] \in CopyCall
    BY <2>1, <2>3 DEF CopyCall
  <2>6. [call[p] EXCEPT !.dirty = D] \in Calls
    BY <2>5 DEF Calls
  <2>7. /\ call' \in [Proc -> Calls] /\ (\A q \in Proc : q # p => call'[q] = call[q])
        /\ call'[p] = [call[p] EXCEPT !.dirty = D]
    BY <2>4, <2>6 DEF DataTyped
  <2> QED
    BY <2>1, <2>7 DEF CopyCall
<1>7. \A k \in Inum : ip[k].addrs[NDIRECT] # 0 => ip[k].addrs[NDIRECT] # b /\ ip[k].addrs[NDIRECT] \in 0 .. FSSIZE - 1
  BY <1>1, IndUsed
<1>8. bn \in 0..MAXFILE /\ bn < MAXFILE /\ Cell(ip[i], bn) = 0
  <2>1. bn \in 0..MAXFILE /\ bn < MAXFILE
    BY <1>2, <1>3
  <2> QED
    BY <1>0, <2>1 DEF Cell
<1>9. used' \in SUBSET (0 .. FSSIZE - 1)
  BY <1>1, <1>d DEF DataTyped
<1>e. used' = used \cup {b}
  BY <1>d
<1>10. CASE /\ bn < NDIRECT /\ ip' = [ip EXCEPT ![i].addrs[bn] = b] /\ disk' = [disk EXCEPT ![b] = bzero(b)]
  <2>1. ip' = [ip EXCEPT ![i] = [ip[i] EXCEPT !.addrs = [ip[i].addrs EXCEPT ![bn] = b]]]
    BY <1>10
  <2>2. [ip[i].addrs EXCEPT ![bn] = b] \in [0..NDIRECT -> Nat]
    BY <1>1, <1>2, <1>3, <1>4, <1>10
  <2>3. [ip[i] EXCEPT !.addrs = [ip[i].addrs EXCEPT ![bn] = b]] \in INode
    BY <1>4, <2>2 DEF INode
  <2>4. /\ ip' \in [Inum -> INode] /\ (\A k \in Inum : k # i => ip'[k] = ip[k])
        /\ ip'[i] = [ip[i] EXCEPT !.addrs = [ip[i].addrs EXCEPT ![bn] = b]]
    BY <1>2, <2>1, <2>3 DEF DataTyped
  <2>5. ip'[i].size = ip[i].size /\ ip'[i].addrs = [ip[i].addrs EXCEPT ![bn] = b]
    BY <1>4, <2>4 DEF INode
  <2>6. /\ disk' \in [0 .. FSSIZE - 1 -> [Cells -> Nat]]
        /\ \A x \in 0 .. FSSIZE - 1 : x # b => disk'[x] = disk[x]
    BY <1>1, <1>5, <1>10 DEF DataTyped
  <2>7. DataTyped'
    BY <1>0, <1>6, <1>9, <2>4, <2>6 DEF DataTyped
  <2>8. ip'[i].addrs[bn] = b /\ \A l \in 0..NDIRECT : l # bn => ip'[i].addrs[l] = ip[i].addrs[l]
    BY <1>2, <1>3, <1>4, <1>10, <2>5
  <2>9. Cell(ip[i], bn)' = b
    BY <1>8, <1>10, <2>8 DEF Cell, Mapped
  <2>10. ASSUME NEW l \in 0..MAXFILE, l # bn PROVE Cell(ip[i], l)' = Cell(ip[i], l)
    <3>1. ip'[i].addrs[NDIRECT] = ind /\ ip[i].addrs[NDIRECT] = ind
      BY <1>3, <1>8, <1>10, <1>b, <2>8
    <3>2. ind # 0 => disk'[ind] = disk[ind]
      BY <1>2, <1>7, <1>b, <2>6
    <3>3. l < NDIRECT => ip'[i].addrs[l] = ip[i].addrs[l]
      BY <1>3, <2>8, <2>10
    <3> QED
      BY <3>1, <3>2, <3>3 DEF Cell, Mapped
  <2>a. \A k \in Inum : k # i /\ ip[k].addrs[NDIRECT] # 0 =>
           disk'[ip[k].addrs[NDIRECT]] = disk[ip[k].addrs[NDIRECT]]
    BY <1>7, <2>6
  <2>b. ip'[i].size = ip[i].size /\ \A k \in Inum : k # i => ip'[k] = ip[k]
    BY <2>4, <2>5
  <2>11. Kept(p)
    BY <1>0, <1>1, <1>2, <1>6, <1>8, <1>a, <1>c, <1>e, <2>9, <2>10, <2>a, <2>b, BlockAdded
  <2> QED
    BY <1>0, <2>7, <2>11
<1>11. CASE /\ bn >= NDIRECT /\ ind = 0 /\ ip' = [ip EXCEPT ![i].addrs[NDIRECT] = b]
            /\ disk' = [disk EXCEPT ![b] = bzero(b)]
  <2>1. ip' = [ip EXCEPT ![i] = [ip[i] EXCEPT !.addrs = [ip[i].addrs EXCEPT ![NDIRECT] = b]]]
    BY <1>11
  <2>2. [ip[i].addrs EXCEPT ![NDIRECT] = b] \in [0..NDIRECT -> Nat]
    BY <1>1, <1>3, <1>4
  <2>3. [ip[i] EXCEPT !.addrs = [ip[i].addrs EXCEPT ![NDIRECT] = b]] \in INode
    BY <1>4, <2>2 DEF INode
  <2>4. /\ ip' \in [Inum -> INode] /\ (\A k \in Inum : k # i => ip'[k] = ip[k])
        /\ ip'[i] = [ip[i] EXCEPT !.addrs = [ip[i].addrs EXCEPT ![NDIRECT] = b]]
    BY <1>2, <2>1, <2>3 DEF DataTyped
  <2>5. ip'[i].size = ip[i].size /\ ip'[i].addrs = [ip[i].addrs EXCEPT ![NDIRECT] = b]
    BY <1>4, <2>4 DEF INode
  <2>6. /\ disk' \in [0 .. FSSIZE - 1 -> [Cells -> Nat]]
        /\ (\A x \in 0 .. FSSIZE - 1 : x # b => disk'[x] = disk[x])
        /\ disk'[b] = [c \in Cells |-> 0]
    BY <1>1, <1>5, <1>11 DEF DataTyped
  <2>7. DataTyped'
    BY <1>0, <1>6, <1>9, <2>4, <2>6 DEF DataTyped
  <2>8. ip'[i].addrs[NDIRECT] = b /\ \A l \in 0..NDIRECT : l # NDIRECT => ip'[i].addrs[l] = ip[i].addrs[l]
    BY <1>3, <1>4, <2>5
  <2>9. MAXFILE \in 0..MAXFILE /\ Cell(ip[i], MAXFILE)' = b /\ Cell(ip[i], MAXFILE) = 0
    BY <1>3, <1>11, <1>b, <2>8 DEF Cell
  <2>10. ASSUME NEW l \in 0..MAXFILE, l # MAXFILE PROVE Cell(ip[i], l)' = Cell(ip[i], l)
    <3>1. CASE l < NDIRECT
      <4>1. ip'[i].addrs[l] = ip[i].addrs[l]
        BY <1>3, <2>8, <3>1
      <4> QED
        BY <1>3, <2>10, <3>1, <4>1 DEF Cell, Mapped
    <3>2. CASE ~(l < NDIRECT)
      <4>1. l < MAXFILE /\ l - NDIRECT \in Cells
        BY <1>3, <2>10, <3>2
      <4>2. disk'[b][l - NDIRECT] = 0
        BY <2>6, <4>1
      <4> QED
        BY <1>11, <1>b, <2>8, <3>2, <4>1, <4>2 DEF Cell, Mapped
    <3> QED
      BY <3>1, <3>2
  <2>a. \A k \in Inum : k # i /\ ip[k].addrs[NDIRECT] # 0 =>
           disk'[ip[k].addrs[NDIRECT]] = disk[ip[k].addrs[NDIRECT]]
    BY <1>7, <2>6
  <2>b. ip'[i].size = ip[i].size /\ \A k \in Inum : k # i => ip'[k] = ip[k]
    BY <2>4, <2>5
  <2>11. Kept(p)
    BY <1>0, <1>1, <1>2, <1>6, <1>a, <1>c, <1>e, <2>9, <2>10, <2>a, <2>b, BlockAdded
  <2> QED
    BY <1>0, <2>7, <2>11
<1>12. CASE /\ bn >= NDIRECT /\ ind # 0 /\ ip' = ip
            /\ disk' = [disk EXCEPT ![b] = bzero(b), ![ind][bn - NDIRECT] = b]
  <2>1. bn - NDIRECT \in Cells /\ ind \in 0 .. FSSIZE - 1 /\ ind # b
    BY <1>2, <1>3, <1>7, <1>12, <1>b
  <2>2. disk[ind] \in [Cells -> Nat] /\ [disk[ind] EXCEPT ![bn - NDIRECT] = b] \in [Cells -> Nat]
    BY <1>1, <2>1 DEF DataTyped
  <2>3. PICK d1 : d1 = [disk EXCEPT ![b] = bzero(b)]
    OBVIOUS
  <2>4. d1 \in [0 .. FSSIZE - 1 -> [Cells -> Nat]] /\ \A x \in 0 .. FSSIZE - 1 : x # b => d1[x] = disk[x]
    BY <1>1, <1>5, <2>3 DEF DataTyped
  <2>5. disk' = [d1 EXCEPT ![ind] = [d1[ind] EXCEPT ![bn - NDIRECT] = b]]
    BY <1>12, <2>3
  <2>6. /\ disk' \in [0 .. FSSIZE - 1 -> [Cells -> Nat]]
        /\ (\A x \in 0 .. FSSIZE - 1 : x # b /\ x # ind => disk'[x] = disk[x])
        /\ disk'[ind] = [disk[ind] EXCEPT ![bn - NDIRECT] = b]
    BY <2>1, <2>2, <2>4, <2>5
  <2>7. DataTyped'
    BY <1>0, <1>6, <1>9, <1>12, <2>6 DEF DataTyped
  <2>8. disk'[ind][bn - NDIRECT] = b /\ \A c \in Cells : c # bn - NDIRECT => disk'[ind][c] = disk[ind][c]
    BY <2>1, <2>2, <2>6
  <2>9. Cell(ip[i], bn)' = b
    <3>1. ~(bn < NDIRECT) /\ ip'[i].addrs[NDIRECT] = ind
      BY <1>2, <1>3, <1>12, <1>b
    <3> QED
      BY <1>8, <1>12, <2>8, <3>1 DEF Cell, Mapped
  <2>10. ASSUME NEW l \in 0..MAXFILE, l # bn PROVE Cell(ip[i], l)' = Cell(ip[i], l)
    <3>1. CASE l < NDIRECT \/ l = MAXFILE
      BY <1>3, <1>12, <3>1 DEF Cell, Mapped
    <3>2. CASE ~(l < NDIRECT) /\ l # MAXFILE
      <4>1. l < MAXFILE /\ l - NDIRECT \in Cells /\ l - NDIRECT # bn - NDIRECT
        BY <1>2, <1>3, <2>10, <3>2
      <4>2. disk'[ind][l - NDIRECT] = disk[ind][l - NDIRECT]
        BY <2>8, <4>1
      <4> QED
        BY <1>12, <1>b, <3>2, <4>1, <4>2 DEF Cell, Mapped
    <3> QED
      BY <3>1, <3>2
  <2>11. ASSUME NEW k \in Inum, k # i, ip[k].addrs[NDIRECT] # 0
         PROVE  disk'[ip[k].addrs[NDIRECT]] = disk[ip[k].addrs[NDIRECT]]
    <3>1. ip[k].addrs[NDIRECT] # ind
      <4> SUFFICES ASSUME ip[k].addrs[NDIRECT] = ind PROVE FALSE
        OBVIOUS
      <4>1. MAXFILE \in 0..MAXFILE /\ Cell(ip[i], MAXFILE) = ind
        BY <1>3, <1>b DEF Cell
      <4>2. MAXFILE \notin Dead[i]
        BY <1>2, <1>12, <1>b, IndUsed
      <4> QED
        BY <1>2, <2>11, <4>1, <4>2, IndUsed
    <3> QED
      BY <1>7, <2>6, <2>11, <3>1
  <2>12. ip'[i].size = ip[i].size /\ \A k \in Inum : k # i => ip'[k] = ip[k]
    BY <1>12
  <2>13. Kept(p)
    BY <1>0, <1>1, <1>2, <1>6, <1>8, <1>a, <1>c, <1>e, <2>9, <2>10, <2>11, <2>12, BlockAdded
  <2> QED
    BY <1>0, <2>7, <2>13
<1> QED
  BY <1>d, <1>10, <1>11, <1>12
-----------------------------------------------------------------------------
\* The indirect block of an inode that mkfs has given one.
LEMMA MkIndUsed ==
  ASSUME DataTyped, MkBlocks, NEW i \in Inum, dip[i].addrs[NDIRECT] # 0
  PROVE  /\ dip[i].addrs[NDIRECT] < freeblock /\ dip[i].addrs[NDIRECT] >= nmeta
         /\ dip[i].addrs[NDIRECT] \in Nat
         /\ \A k \in Inum, l \in 0..MAXFILE : Cell(dip[k], l) = dip[i].addrs[NDIRECT] => k = i /\ l = MAXFILE
<1>0. MAXFILE \in 0..MAXFILE /\ MAXFILE \in Nat /\ nmeta \in Nat /\ freeblock \in Nat
  BY Sizes DEF DataTyped
<1>1. \A k \in Inum, l \in 0..MAXFILE : Table(dip)[k][l] = Cell(dip[k], l) /\ l \notin NoneDead[k]
  BY DEF Table, NoneDead
<1>2. Cell(dip[i], MAXFILE) = dip[i].addrs[NDIRECT]
  BY <1>0, CellCases
<1>3. Owned(Table(dip), NoneDead, 0 .. freeblock - 1)
  BY DEF MkBlocks
<1>4. dip[i].addrs[NDIRECT] \in 0 .. freeblock - 1 /\ dip[i].addrs[NDIRECT] >= nmeta
  BY <1>0, <1>1, <1>2, <1>3 DEF Owned
<1>5. ASSUME NEW k \in Inum, NEW l \in 0..MAXFILE, Cell(dip[k], l) = dip[i].addrs[NDIRECT]
      PROVE  k = i /\ l = MAXFILE
  BY <1>0, <1>1, <1>2, <1>3, <1>5 DEF Owned
<1> QED
  BY <1>0, <1>4, <1>5

\* The blocks mkfs has given.
LEMMA MkCell ==
  ASSUME DataTyped, MkBlocks, NEW i \in Inum, NEW j \in 0..MAXFILE, Cell(dip[i], j) # 0
  PROVE  Cell(dip[i], j) \in Nat /\ Cell(dip[i], j) < freeblock /\ Cell(dip[i], j) >= nmeta
<1>0. freeblock \in Nat
  BY DEF DataTyped
<1>1. Table(dip)[i][j] = Cell(dip[i], j) /\ j \notin NoneDead[i]
  BY DEF Table, NoneDead
<1>2. Cell(dip[i], j) \in 0 .. freeblock - 1 /\ Cell(dip[i], j) >= nmeta
  BY <1>1 DEF MkBlocks, Owned
<1> QED
  BY <1>0, <1>2

\* An append to the inode i: the block it goes to is x, and the indirect block ind.
Appended(i, len, x, ind) ==
  LET fbn == dip[i].size \div BSIZE
  IN  /\ fbn \in 0 .. MAXFILE - 1 /\ x >= nmeta /\ x # 0 /\ freeblock' \in Nat
      /\ Mapped(dip[i], fbn) # 0 => x = Mapped(dip[i], fbn) /\ freeblock' = freeblock
      /\ Mapped(dip[i], fbn) = 0 /\ (fbn < NDIRECT \/ dip[i].addrs[NDIRECT] # 0) =>
           x = freeblock /\ freeblock' = freeblock + 1
      /\ fbn >= NDIRECT /\ dip[i].addrs[NDIRECT] # 0 => ind = dip[i].addrs[NDIRECT]
      /\ fbn >= NDIRECT /\ dip[i].addrs[NDIRECT] = 0 =>
           ind = freeblock /\ x = freeblock + 1 /\ freeblock' = freeblock + 2
      /\ fbn >= NDIRECT => x # ind
      /\ \A k \in Inum : dip[k].addrs[NDIRECT] # x
      /\ dip' = [dip EXCEPT ![i] = [size |-> dip[i].size + len,
               addrs |-> IF fbn < NDIRECT THEN [dip[i].addrs EXCEPT ![fbn] = x]
                         ELSE [dip[i].addrs EXCEPT ![NDIRECT] = ind]]]
      /\ disk' \in [0 .. FSSIZE - 1 -> [Cells -> Nat]]
      /\ \A b \in 0 .. FSSIZE - 1 : b # x /\ (fbn < NDIRECT \/ b # ind) => disk'[b] = disk[b]
      /\ fbn >= NDIRECT => disk'[ind] = [disk[ind] EXCEPT ![fbn - NDIRECT] = x]

\* iappend() of data that does not cross the end of a block: where it goes, and
\* what it makes of the inode and the disk.
LEMMA AppendBlock ==
  ASSUME DataTyped, MkBlocks, ImageFits', NEW i \in Inum, NEW data \in Seq(Nat), iappend(i, data)
  PROVE  \E x \in 0 .. FSSIZE - 1, ind \in 0 .. FSSIZE - 1 : Appended(i, Len(data), x, ind)
<1> DEFINE din == dip[i]
           fbn == din.size \div BSIZE
           needsInd == fbn >= NDIRECT /\ din.addrs[NDIRECT] = 0
           ind0 == IF needsInd THEN freeblock ELSE din.addrs[NDIRECT]
           fresh == Mapped(din, fbn) = 0
           x0 == IF fresh THEN freeblock + (IF needsInd THEN 1 ELSE 0) ELSE Mapped(din, fbn)
           at == din.size % BSIZE
<1>0. /\ fbn < MAXFILE
      /\ disk' = [b \in DOMAIN disk |->
              CASE b = x0 -> [c \in Cells |-> IF c \in at .. at + Len(data) - 1
                                             THEN data[c - at + 1] ELSE disk[b][c]]
                [] fbn >= NDIRECT /\ b = ind0 -> [disk[b] EXCEPT ![fbn - NDIRECT] = x0]
                [] OTHER -> disk[b]]
      /\ dip' = [dip EXCEPT ![i] = [size |-> din.size + Len(data),
                      addrs |-> IF fbn < NDIRECT THEN [din.addrs EXCEPT ![fbn] = x0]
                                ELSE [din.addrs EXCEPT ![NDIRECT] = ind0]]]
      /\ freeblock' = freeblock + (IF needsInd THEN 1 ELSE 0) + (IF fresh THEN 1 ELSE 0)
  BY DEF iappend, rinode, winode
<1>1. /\ NDIRECT \in Nat /\ MAXFILE \in Nat /\ BSIZE \in Nat \ {0} /\ MAXFILE = NDIRECT + BSIZE
      /\ Cells = 0 .. BSIZE - 1 /\ nmeta \in Nat \ {0} /\ FSSIZE \in Nat /\ freeblock \in Nat
      /\ nmeta <= freeblock /\ freeblock' <= FSSIZE
  BY Sizes DEF DataTyped, MkBlocks, ImageFits
<1>a. dip[i] \in INode
  BY DEF DataTyped
<1>2. din.size \in Nat /\ din.addrs \in [0..NDIRECT -> Nat] /\ din.addrs[NDIRECT] \in Nat
  BY <1>1, <1>a DEF INode
<1>3. fbn \in Nat /\ at \in Nat
  BY <1>1, <1>2, DivMod
<1>4. fbn \in 0..MAXFILE /\ fbn \in 0 .. MAXFILE - 1 /\ Cell(din, fbn) = Mapped(din, fbn)
  BY <1>0, <1>1, <1>3 DEF Cell
<1>5. needsInd => fresh
  BY <1>1, <1>3, <1>4, CellCases
<1>6. /\ ~fresh => x0 = Mapped(din, fbn) /\ freeblock' = freeblock /\ ~needsInd
      /\ fresh /\ ~needsInd => x0 = freeblock /\ freeblock' = freeblock + 1
      /\ needsInd => fresh /\ ind0 = freeblock /\ x0 = freeblock + 1 /\ freeblock' = freeblock + 2
      /\ ~needsInd => ind0 = din.addrs[NDIRECT]
  <2>1. CASE ~fresh
    <3>1. ~needsInd
      BY <1>5, <2>1
    <3>2. freeblock' = freeblock + 0 + 0
      BY <1>0, <2>1, <3>1
    <3> QED
      BY <1>1, <2>1, <3>1, <3>2
  <2>2. CASE fresh /\ ~needsInd
    <3>1. freeblock' = freeblock + 0 + 1 /\ x0 = freeblock + 0
      BY <1>0, <2>2
    <3> QED
      BY <1>1, <2>2, <3>1
  <2>3. CASE fresh /\ needsInd
    <3>1. freeblock' = freeblock + 1 + 1 /\ x0 = freeblock + 1
      BY <1>0, <2>3
    <3> QED
      BY <1>1, <2>3, <3>1
  <2> QED
    BY <2>1, <2>2, <2>3
<1>7. ~fresh => Mapped(din, fbn) \in Nat /\ Mapped(din, fbn) < freeblock /\ Mapped(din, fbn) >= nmeta
  BY <1>4, MkCell
<1>8. din.addrs[NDIRECT] # 0 => din.addrs[NDIRECT] < freeblock
  BY MkIndUsed
<1> HIDE DEF fresh, needsInd, ind0, x0, fbn, at
<1>9. x0 \in Nat /\ x0 >= nmeta /\ x0 < freeblock' /\ freeblock' \in Nat /\ freeblock <= freeblock'
  <2>1. CASE ~fresh
    BY <1>1, <1>6, <1>7, <2>1
  <2>2. CASE fresh /\ ~needsInd
    BY <1>1, <1>6, <2>2
  <2>3. CASE needsInd
    BY <1>1, <1>6, <2>3
  <2> QED
    BY <2>1, <2>2, <2>3
<1>10. /\ x0 \in 0 .. FSSIZE - 1 /\ x0 # 0
       /\ ind0 \in 0 .. FSSIZE - 1
  <2>1. ind0 \in Nat /\ (ind0 < freeblock' \/ ind0 = 0)
    <3>1. CASE needsInd
      BY <1>1, <1>6, <3>1
    <3>2. CASE ~needsInd
      BY <1>1, <1>2, <1>6, <1>8, <1>9, <3>2
    <3> QED
      BY <3>1, <3>2
  <2> QED
    BY <1>1, <1>9, <2>1
<1>11. ASSUME NEW k \in Inum PROVE dip[k].addrs[NDIRECT] # x0
  <2>1. CASE dip[k].addrs[NDIRECT] = 0
    BY <1>10, <2>1
  <2>2. CASE dip[k].addrs[NDIRECT] # 0
    <3>1. dip[k].addrs[NDIRECT] < freeblock /\ dip[k].addrs[NDIRECT] \in Nat
      BY <2>2, MkIndUsed
    <3>2. CASE ~fresh
      <4> SUFFICES ASSUME dip[k].addrs[NDIRECT] = x0 PROVE FALSE
        OBVIOUS
      <4>1. Cell(dip[i], fbn) = dip[k].addrs[NDIRECT]
        BY <1>4, <1>6, <3>2
      <4>2. fbn = MAXFILE
        BY <1>4, <2>2, <4>1, MkIndUsed
      <4> QED
        BY <1>0, <1>1, <4>2
    <3>3. CASE fresh /\ ~needsInd
      BY <1>1, <1>6, <3>1, <3>3
    <3>4. CASE needsInd
      BY <1>1, <1>6, <3>1, <3>4
    <3> QED
      BY <3>2, <3>3, <3>4
  <2> QED
    BY <2>1, <2>2
<1>12. x0 # ind0
  <2>1. CASE needsInd
    BY <1>1, <1>6, <2>1
  <2>2. CASE ~needsInd
    BY <1>6, <1>11, <2>2
  <2> QED
    BY <2>1, <2>2
<1>13. DOMAIN disk = 0 .. FSSIZE - 1 /\ \A b \in 0 .. FSSIZE - 1 : disk[b] \in [Cells -> Nat]
  BY DEF DataTyped
<1>14. \A b \in 0 .. FSSIZE - 1 : b # x0 /\ (fbn < NDIRECT \/ b # ind0) => disk'[b] = disk[b]
  <2> SUFFICES ASSUME NEW b \in 0 .. FSSIZE - 1, b # x0, fbn < NDIRECT \/ b # ind0 PROVE disk'[b] = disk[b]
    OBVIOUS
  <2>1. ~(b = x0) /\ ~(fbn >= NDIRECT /\ b = ind0)
    BY <1>1, <1>3
  <2> QED
    BY <1>0, <1>13, <2>1
<1>15. fbn >= NDIRECT => disk'[ind0] = [disk[ind0] EXCEPT ![fbn - NDIRECT] = x0]
  <2> SUFFICES ASSUME fbn >= NDIRECT PROVE disk'[ind0] = [disk[ind0] EXCEPT ![fbn - NDIRECT] = x0]
    OBVIOUS
  <2>1. ~(ind0 = x0)
    BY <1>12
  <2> QED
    BY <1>0, <1>10, <1>13, <2>1
<1>16. disk'[x0] \in [Cells -> Nat]
  <2>1. disk'[x0] = [c \in Cells |-> IF c \in at .. at + Len(data) - 1
                                             THEN data[c - at + 1] ELSE disk[x0][c]]
    <3>1. ~(fbn >= NDIRECT /\ x0 = ind0)
      BY <1>12
    <3> QED
      BY <1>0, <1>10, <1>13, <3>1
  <2>2. \A c \in Cells : c \in at .. at + Len(data) - 1 => data[c - at + 1] \in Nat
    <3> SUFFICES ASSUME NEW c \in Cells, c \in at .. at + Len(data) - 1 PROVE data[c - at + 1] \in Nat
      OBVIOUS
    <3>1. Len(data) \in Nat
      OBVIOUS
    <3>2. c - at + 1 \in 1 .. Len(data)
      BY <1>1, <1>3, <3>1
    <3> QED
      BY <3>2
  <2> QED
    BY <1>10, <1>13, <2>1, <2>2
<1>17. disk' \in [0 .. FSSIZE - 1 -> [Cells -> Nat]]
  <2>1. \A b \in 0 .. FSSIZE - 1 : disk'[b] \in [Cells -> Nat]
    <3> SUFFICES ASSUME NEW b \in 0 .. FSSIZE - 1 PROVE disk'[b] \in [Cells -> Nat]
      OBVIOUS
    <3>1. CASE b = x0
      BY <1>16, <3>1
    <3>2. CASE b # x0 /\ (fbn < NDIRECT \/ b # ind0)
      BY <1>13, <1>14, <3>2
    <3>3. CASE fbn >= NDIRECT /\ b = ind0
      BY <1>9, <1>10, <1>13, <1>15, <3>3
    <3> QED
      BY <1>1, <1>3, <3>1, <3>2, <3>3
  <2>2. disk' = [b \in 0 .. FSSIZE - 1 |-> disk'[b]]
    BY <1>0, <1>13
  <2> QED
    BY <2>1, <2>2
<1>18. /\ Mapped(dip[i], fbn) # 0 => x0 = Mapped(dip[i], fbn) /\ freeblock' = freeblock
       /\ Mapped(dip[i], fbn) = 0 /\ (fbn < NDIRECT \/ dip[i].addrs[NDIRECT] # 0) =>
            x0 = freeblock /\ freeblock' = freeblock + 1
       /\ fbn >= NDIRECT /\ dip[i].addrs[NDIRECT] # 0 => ind0 = dip[i].addrs[NDIRECT]
       /\ fbn >= NDIRECT /\ dip[i].addrs[NDIRECT] = 0 =>
            ind0 = freeblock /\ x0 = freeblock + 1 /\ freeblock' = freeblock + 2
  BY <1>1, <1>3, <1>6 DEF fresh, needsInd
<1>19. dip' = [dip EXCEPT ![i] = [size |-> dip[i].size + Len(data),
                      addrs |-> IF fbn < NDIRECT THEN [dip[i].addrs EXCEPT ![fbn] = x0]
                                ELSE [dip[i].addrs EXCEPT ![NDIRECT] = ind0]]]
  BY <1>0
<1>20. /\ fbn \in 0 .. MAXFILE - 1 /\ x0 >= nmeta /\ x0 # 0 /\ freeblock' \in Nat
       /\ x0 \in 0 .. FSSIZE - 1 /\ ind0 \in 0 .. FSSIZE - 1
  BY <1>4, <1>9, <1>10
<1>21. Appended(i, Len(data), x0, ind0)
  BY <1>11, <1>12, <1>14, <1>15, <1>17, <1>18, <1>19, <1>20 DEF Appended, fbn
<1> QED
  BY <1>20, <1>21
-----------------------------------------------------------------------------
\* The places after an append.
LEMMA AppendCells ==
  ASSUME DataTyped, MkBlocks, ImageFits', NEW i \in Inum, NEW x \in 0 .. FSSIZE - 1,
         NEW ind \in 0 .. FSSIZE - 1, NEW len, Appended(i, len, x, ind), NEW fbn, fbn = dip[i].size \div BSIZE
  PROVE  /\ \A k \in Inum, l \in 0..MAXFILE : k # i => Cell(dip[k], l)' = Cell(dip[k], l)
         /\ Cell(dip[i], fbn)' = x
         /\ \A l \in 0..MAXFILE : l # fbn /\ l # MAXFILE => Cell(dip[i], l)' = Cell(dip[i], l)
         /\ fbn < NDIRECT => Cell(dip[i], MAXFILE)' = Cell(dip[i], MAXFILE)
         /\ fbn >= NDIRECT => Cell(dip[i], MAXFILE)' = ind
         /\ x \in Nat /\ x < freeblock' /\ (fbn >= NDIRECT => ind < freeblock') /\ freeblock <= freeblock'
<1>1. /\ NDIRECT \in Nat /\ MAXFILE \in Nat /\ BSIZE \in Nat \ {0} /\ MAXFILE = NDIRECT + BSIZE
      /\ Cells = 0 .. BSIZE - 1 /\ nmeta \in Nat \ {0} /\ FSSIZE \in Nat /\ freeblock \in Nat
      /\ nmeta <= freeblock /\ freeblock' <= FSSIZE
  BY Sizes DEF DataTyped, MkBlocks, ImageFits
<1>2. /\ fbn \in 0 .. MAXFILE - 1 /\ x # 0 /\ freeblock' \in Nat
      /\ (Mapped(dip[i], fbn) # 0 => x = Mapped(dip[i], fbn) /\ freeblock' = freeblock)
      /\ (Mapped(dip[i], fbn) = 0 /\ (fbn < NDIRECT \/ dip[i].addrs[NDIRECT] # 0) =>
           x = freeblock /\ freeblock' = freeblock + 1)
      /\ (fbn >= NDIRECT /\ dip[i].addrs[NDIRECT] # 0 => ind = dip[i].addrs[NDIRECT])
      /\ (fbn >= NDIRECT /\ dip[i].addrs[NDIRECT] = 0 =>
           ind = freeblock /\ x = freeblock + 1 /\ freeblock' = freeblock + 2)
      /\ (fbn >= NDIRECT => x # ind)
  BY DEF Appended
<1>3. \A k \in Inum : dip[k].addrs[NDIRECT] # x
  BY DEF Appended
<1>4. dip' = [dip EXCEPT ![i] = [size |-> dip[i].size + len,
               addrs |-> IF fbn < NDIRECT THEN [dip[i].addrs EXCEPT ![fbn] = x]
                         ELSE [dip[i].addrs EXCEPT ![NDIRECT] = ind]]]
  BY DEF Appended
<1>5. \A b \in 0 .. FSSIZE - 1 : b # x /\ (fbn < NDIRECT \/ b # ind) => disk'[b] = disk[b]
  BY DEF Appended
<1>6. fbn >= NDIRECT => disk'[ind] = [disk[ind] EXCEPT ![fbn - NDIRECT] = x]
  BY DEF Appended
<1>7. dip[i] \in INode /\ dip \in [Inum -> INode] /\ disk \in [0 .. FSSIZE - 1 -> [Cells -> Nat]]
  BY DEF DataTyped
<1>8. dip[i].addrs \in [0..NDIRECT -> Nat]
  BY <1>7 DEF INode
<1>9. /\ (\A k \in Inum : k # i => dip'[k] = dip[k])
      /\ (fbn < NDIRECT => dip'[i].addrs = [dip[i].addrs EXCEPT ![fbn] = x])
      /\ (~(fbn < NDIRECT) => dip'[i].addrs = [dip[i].addrs EXCEPT ![NDIRECT] = ind])
  BY <1>4, <1>7
<1>10. fbn \in 0..MAXFILE /\ fbn < MAXFILE /\ MAXFILE \in 0..MAXFILE
  BY <1>1, <1>2
<1>11. Mapped(dip[i], fbn) # 0 => Mapped(dip[i], fbn) \in Nat /\ Mapped(dip[i], fbn) < freeblock
  <2>1. Cell(dip[i], fbn) = Mapped(dip[i], fbn)
    BY <1>10 DEF Cell
  <2> QED
    BY <1>10, <2>1, MkCell
<1>12. x \in Nat /\ x < freeblock' /\ freeblock <= freeblock'
  <2>1. CASE Mapped(dip[i], fbn) # 0
    BY <1>1, <1>2, <1>11, <2>1
  <2>2. CASE Mapped(dip[i], fbn) = 0 /\ (fbn < NDIRECT \/ dip[i].addrs[NDIRECT] # 0)
    BY <1>1, <1>2, <2>2
  <2>3. CASE fbn >= NDIRECT /\ dip[i].addrs[NDIRECT] = 0
    BY <1>1, <1>2, <2>3
  <2> QED
    BY <1>1, <1>2, <2>1, <2>2, <2>3
<1>13. fbn >= NDIRECT => ind < freeblock' /\ ind # 0
  <2>1. CASE dip[i].addrs[NDIRECT] # 0
    BY <1>1, <1>2, <1>12, <2>1, MkIndUsed
  <2>2. CASE dip[i].addrs[NDIRECT] = 0
    <3> SUFFICES ASSUME fbn >= NDIRECT PROVE ind < freeblock' /\ ind # 0
      OBVIOUS
    <3>1. ind = freeblock /\ freeblock' = freeblock + 2
      BY <1>2, <2>2
    <3>2. freeblock \in Nat /\ freeblock # 0
      BY <1>1
    <3> QED
      BY <3>1, <3>2
  <2> QED
    BY <2>1, <2>2
<1>14. ASSUME NEW k \in Inum, dip[k].addrs[NDIRECT] # 0, k # i \/ fbn < NDIRECT
       PROVE  disk'[dip[k].addrs[NDIRECT]] = disk[dip[k].addrs[NDIRECT]]
  <2>1. /\ dip[k].addrs[NDIRECT] < freeblock /\ dip[k].addrs[NDIRECT] \in Nat
        /\ \A m \in Inum, l \in 0..MAXFILE : Cell(dip[m], l) = dip[k].addrs[NDIRECT] => m = k /\ l = MAXFILE
    BY <1>14, MkIndUsed
  <2>2. dip[k].addrs[NDIRECT] \in 0 .. FSSIZE - 1
    <3>1. freeblock \in Nat /\ freeblock' \in Nat /\ freeblock' <= FSSIZE /\ FSSIZE \in Nat /\ freeblock <= freeblock'
      BY <1>1, <1>2, <1>12
    <3> QED
      BY <2>1, <3>1
  <2>3. fbn >= NDIRECT => dip[k].addrs[NDIRECT] # ind
    <3> SUFFICES ASSUME fbn >= NDIRECT, dip[k].addrs[NDIRECT] = ind PROVE FALSE
      OBVIOUS
    <3>1. k # i
      BY <1>1, <1>2, <1>14
    <3>2. CASE dip[i].addrs[NDIRECT] = 0
      BY <1>1, <1>2, <2>1, <3>2
    <3>3. CASE dip[i].addrs[NDIRECT] # 0
      <4>1. Cell(dip[i], MAXFILE) = dip[k].addrs[NDIRECT]
        BY <1>2, <1>10, <3>3, CellCases
      <4> QED
        BY <1>10, <2>1, <3>1, <4>1
    <3> QED
      BY <3>2, <3>3
  <2> QED
    <3>1. dip[k].addrs[NDIRECT] # x
      BY <1>3
    <3>2. fbn < NDIRECT \/ fbn >= NDIRECT
      BY <1>1, <1>10
    <3> QED
      BY <1>5, <2>2, <2>3, <3>1, <3>2
<1>15. ASSUME NEW k \in Inum, NEW l \in 0..MAXFILE, k # i PROVE Cell(dip[k], l)' = Cell(dip[k], l)
  <2>1. dip'[k] = dip[k] /\ (dip[k].addrs[NDIRECT] # 0 => disk'[dip[k].addrs[NDIRECT]] = disk[dip[k].addrs[NDIRECT]])
    BY <1>9, <1>14, <1>15
  <2> QED
    BY <2>1 DEF Cell, Mapped
<1>16. CASE fbn < NDIRECT
  <2>1. dip'[i].addrs[fbn] = x /\ \A l \in 0..NDIRECT : l # fbn => dip'[i].addrs[l] = dip[i].addrs[l]
    <3>1. dip'[i].addrs = [dip[i].addrs EXCEPT ![fbn] = x]
      BY <1>9, <1>16
    <3>2. fbn \in 0..NDIRECT
      BY <1>1, <1>2, <1>16
    <3> QED
      BY <1>8, <3>1, <3>2
  <2>2. Cell(dip[i], fbn)' = x
    BY <1>10, <1>16, <2>1 DEF Cell, Mapped
  <2>3. ASSUME NEW l \in 0..MAXFILE, l # fbn PROVE Cell(dip[i], l)' = Cell(dip[i], l)
    <3>1. dip'[i].addrs[NDIRECT] = dip[i].addrs[NDIRECT]
      BY <1>1, <1>10, <1>16, <2>1
    <3>2. dip[i].addrs[NDIRECT] # 0 => disk'[dip[i].addrs[NDIRECT]] = disk[dip[i].addrs[NDIRECT]]
      BY <1>14, <1>16
    <3>3. l < NDIRECT => dip'[i].addrs[l] = dip[i].addrs[l]
      BY <1>1, <2>1, <2>3
    <3> QED
      BY <3>1, <3>2, <3>3 DEF Cell, Mapped
  <2>4. MAXFILE # fbn /\ ~(fbn >= NDIRECT)
    BY <1>1, <1>10, <1>16
  <2> QED
    BY <1>10, <1>12, <1>15, <1>16, <2>2, <2>3, <2>4
<1>17. CASE ~(fbn < NDIRECT)
  <2>0. fbn >= NDIRECT /\ fbn - NDIRECT \in Cells
    <3>1. fbn >= NDIRECT
      BY <1>1, <1>10, <1>17
    <3> QED
      BY <1>1, <1>10, <3>1, Sizes
  <2>1. dip'[i].addrs[NDIRECT] = ind /\ \A l \in 0..NDIRECT : l # NDIRECT => dip'[i].addrs[l] = dip[i].addrs[l]
    <3>1. dip'[i].addrs = [dip[i].addrs EXCEPT ![NDIRECT] = ind]
      BY <1>9, <1>17
    <3>2. NDIRECT \in 0..NDIRECT
      BY <1>1
    <3> QED
      BY <1>8, <3>1, <3>2
  <2>2. disk'[ind][fbn - NDIRECT] = x /\ \A c \in Cells : c # fbn - NDIRECT => disk'[ind][c] = disk[ind][c]
    <3>1. disk[ind] \in [Cells -> Nat]
      BY <1>7
    <3> QED
      BY <1>6, <2>0, <3>1
  <2>3. Cell(dip[i], fbn)' = x
    BY <1>10, <1>13, <1>17, <2>0, <2>1, <2>2 DEF Cell, Mapped
  <2>4. Cell(dip[i], MAXFILE)' = ind
    BY <1>1, <2>1 DEF Cell
  <2>5. ASSUME NEW l \in 0..MAXFILE, l # fbn, l # MAXFILE PROVE Cell(dip[i], l)' = Cell(dip[i], l)
    <3>1. CASE l < NDIRECT
      <4>1. dip'[i].addrs[l] = dip[i].addrs[l]
        BY <1>1, <2>1, <3>1
      <4> QED
        BY <1>1, <2>5, <3>1, <4>1 DEF Cell, Mapped
    <3>2. CASE ~(l < NDIRECT)
      <4>1. l < MAXFILE /\ l - NDIRECT \in Cells /\ l - NDIRECT # fbn - NDIRECT
        <5>1. fbn \in Nat
          BY <1>2
        <5> QED
          BY <1>1, <2>5, <3>2, <5>1
      <4>2. Cell(dip[i], l)' = disk[ind][l - NDIRECT]
        BY <1>13, <2>0, <2>1, <2>2, <3>2, <4>1 DEF Cell, Mapped
      <4>3. CASE dip[i].addrs[NDIRECT] # 0
        BY <1>2, <2>0, <3>2, <4>1, <4>2, <4>3 DEF Cell, Mapped
      <4>4. CASE dip[i].addrs[NDIRECT] = 0
        <5>1. ind = freeblock
          BY <1>2, <2>0, <4>4
        <5>2. disk[ind] = Zeroes
          BY <1>1, <5>1 DEF MkBlocks
        <5>3. disk[ind][l - NDIRECT] = 0
          BY <4>1, <5>2 DEF Zeroes
        <5> QED
          BY <3>2, <4>1, <4>2, <4>4, <5>3 DEF Cell, Mapped
      <4> QED
        BY <4>3, <4>4
    <3> QED
      BY <3>1, <3>2
  <2> QED
    BY <1>12, <1>13, <1>15, <1>17, <2>3, <2>4, <2>5
<1> QED
  BY <1>16, <1>17
-----------------------------------------------------------------------------
\* An append keeps the image whole.
LEMMA AppendInv ==
  ASSUME DataTyped, MkBlocks, ImageFits', NEW i \in Inum, NEW data \in Seq(Nat), iappend(i, data),
         Len(data) <= BSIZE - (dip[i].size % BSIZE)
  PROVE  /\ freeblock' \in Nat /\ disk' \in [0 .. FSSIZE - 1 -> [Cells -> Nat]] /\ dip' \in [Inum -> INode]
         /\ \A k \in Inum : k # i => dip'[k] = dip[k]
         /\ dip'[i].size = dip[i].size + Len(data)
         /\ MkBlocks'
<1>a. PICK x \in 0 .. FSSIZE - 1, ind \in 0 .. FSSIZE - 1 : Appended(i, Len(data), x, ind)
  BY AppendBlock
<1>b. PICK fbn : fbn = dip[i].size \div BSIZE
  OBVIOUS
<1>c. /\ (\A k \in Inum, l \in 0..MAXFILE : k # i => Cell(dip[k], l)' = Cell(dip[k], l))
      /\ Cell(dip[i], fbn)' = x
      /\ (\A l \in 0..MAXFILE : l # fbn /\ l # MAXFILE => Cell(dip[i], l)' = Cell(dip[i], l))
      /\ (fbn < NDIRECT => Cell(dip[i], MAXFILE)' = Cell(dip[i], MAXFILE))
      /\ (fbn >= NDIRECT => Cell(dip[i], MAXFILE)' = ind)
      /\ x \in Nat /\ x < freeblock' /\ (fbn >= NDIRECT => ind < freeblock') /\ freeblock <= freeblock'
  BY <1>a, <1>b, AppendCells
<1>1. /\ NDIRECT \in Nat /\ MAXFILE \in Nat /\ BSIZE \in Nat \ {0} /\ MAXFILE = NDIRECT + BSIZE
      /\ nmeta \in Nat \ {0} /\ FSSIZE \in Nat /\ freeblock \in Nat
      /\ nmeta <= freeblock /\ freeblock' <= FSSIZE
  BY Sizes DEF DataTyped, MkBlocks, ImageFits
<1>2. /\ fbn \in 0 .. MAXFILE - 1 /\ x # 0 /\ freeblock' \in Nat
      /\ (Mapped(dip[i], fbn) # 0 => x = Mapped(dip[i], fbn) /\ freeblock' = freeblock)
      /\ (Mapped(dip[i], fbn) = 0 /\ (fbn < NDIRECT \/ dip[i].addrs[NDIRECT] # 0) =>
           x = freeblock /\ freeblock' = freeblock + 1)
      /\ (fbn >= NDIRECT /\ dip[i].addrs[NDIRECT] # 0 => ind = dip[i].addrs[NDIRECT])
      /\ (fbn >= NDIRECT /\ dip[i].addrs[NDIRECT] = 0 =>
           ind = freeblock /\ x = freeblock + 1 /\ freeblock' = freeblock + 2)
  BY <1>a, <1>b DEF Appended
<1>3. dip' = [dip EXCEPT ![i] = [size |-> dip[i].size + Len(data),
               addrs |-> IF fbn < NDIRECT THEN [dip[i].addrs EXCEPT ![fbn] = x]
                         ELSE [dip[i].addrs EXCEPT ![NDIRECT] = ind]]]
  BY <1>a, <1>b DEF Appended
<1>4. \A b \in 0 .. FSSIZE - 1 : b # x /\ (fbn < NDIRECT \/ b # ind) => disk'[b] = disk[b]
  BY <1>a, <1>b DEF Appended
<1>5. disk' \in [0 .. FSSIZE - 1 -> [Cells -> Nat]]
  BY <1>a, <1>b DEF Appended
<1>6. dip[i] \in INode /\ dip \in [Inum -> INode]
  BY DEF DataTyped
<1>7. dip[i].addrs \in [0..NDIRECT -> Nat] /\ dip[i].size \in Nat /\ Len(data) \in Nat
  BY <1>6 DEF INode
<1>8. dip' \in [Inum -> INode] /\ dip'[i].size = dip[i].size + Len(data) /\ \A k \in Inum : k # i => dip'[k] = dip[k]
  <2>1. PICK A : A = IF fbn < NDIRECT THEN [dip[i].addrs EXCEPT ![fbn] = x] ELSE [dip[i].addrs EXCEPT ![NDIRECT] = ind]
    OBVIOUS
  <2>2. ind \in Nat /\ x \in Nat
    BY <1>1
  <2>3. A \in [0..NDIRECT -> Nat]
    <3>1. CASE fbn < NDIRECT
      BY <1>7, <2>1, <2>2, <3>1
    <3>2. CASE ~(fbn < NDIRECT)
      BY <1>7, <2>1, <2>2, <3>2
    <3> QED
      BY <3>1, <3>2
  <2>4. PICK r : r = [size |-> dip[i].size + Len(data), addrs |-> A]
    OBVIOUS
  <2>5. r \in INode /\ r.size = dip[i].size + Len(data)
    BY <1>7, <2>3, <2>4 DEF INode
  <2>6. dip' = [dip EXCEPT ![i] = r]
    BY <1>3, <2>1, <2>4
  <2> QED
    BY <1>6, <2>5, <2>6
<1>d. fbn \in 0 .. MAXFILE - 1
  BY <1>2
<1>9. fbn \in Nat /\ fbn \in 0..MAXFILE /\ fbn < MAXFILE /\ MAXFILE \in 0..MAXFILE /\ fbn # MAXFILE
  BY <1>1, <1>d
<1>10. /\ dip'[i].size <= (fbn + 1) * BSIZE /\ fbn * BSIZE <= dip[i].size
  <2>1. dip[i].size + Len(data) <= (dip[i].size \div BSIZE + 1) * BSIZE
    BY <1>1, <1>7, NextBlock
  <2>2. dip[i].size = BSIZE * fbn + (dip[i].size % BSIZE) /\ dip[i].size % BSIZE \in Nat
    BY <1>1, <1>7, <1>b, DivMod
  <2>3. fbn * BSIZE <= dip[i].size
    BY <1>1, <1>9, <1>7, <2>2
  <2> QED
    BY <1>8, <1>b, <2>1, <2>3
<1>11. Cell(dip[i], fbn) = Mapped(dip[i], fbn) /\ Cell(dip[i], MAXFILE) = dip[i].addrs[NDIRECT]
  BY <1>9 DEF Cell
<1>12. \A k \in Inum : dip'[k].size <= MAXFILE * BSIZE /\ Full(dip[k], dip[k].size)'
  <2> SUFFICES ASSUME NEW k \in Inum PROVE dip'[k].size <= MAXFILE * BSIZE /\ Full(dip[k], dip[k].size)'
    OBVIOUS
  <2>0. dip[k].size <= MAXFILE * BSIZE /\ Full(dip[k], dip[k].size)
    BY DEF MkBlocks
  <2>m. \A bn \in 0 .. MAXFILE - 1 : bn \in 0..MAXFILE /\ bn < MAXFILE /\ Mapped(dip[k], bn) = Cell(dip[k], bn) /\ Mapped(dip[k], bn)' = Cell(dip[k], bn)'
    BY <1>1 DEF Cell
  <2>1. CASE k # i
    <3>1. dip'[k] = dip[k]
      BY <1>8, <2>1
    <3>2. ASSUME NEW bn \in 0 .. MAXFILE - 1, bn * BSIZE < dip[k].size PROVE Mapped(dip[k], bn)' # 0
      BY <1>c, <2>0, <2>m, <2>1, <3>2 DEF Full
    <3> QED
      BY <2>0, <3>1, <3>2 DEF Full
  <2>2. CASE k = i
    <3>1. (fbn + 1) * BSIZE <= MAXFILE * BSIZE
      <4>1. fbn + 1 \in Nat /\ fbn + 1 <= MAXFILE
        BY <1>1, <1>9
      <4> QED
        BY <1>1, <4>1, MulMono
    <3>2. dip'[k].size <= MAXFILE * BSIZE
      <4>1. (fbn + 1) * BSIZE \in Nat /\ MAXFILE * BSIZE \in Nat /\ dip'[k].size \in Nat
        BY <1>1, <1>7, <1>8, <1>9, <2>2
      <4> QED
        BY <1>10, <2>2, <3>1, <4>1
    <3>3. ASSUME NEW bn \in 0 .. MAXFILE - 1, bn * BSIZE < dip'[i].size PROVE Mapped(dip[i], bn)' # 0
      <4>0. bn \in Nat /\ bn * BSIZE \in Nat /\ fbn * BSIZE \in Nat /\ (fbn + 1) * BSIZE \in Nat /\ dip'[i].size \in Nat
        <5>1. bn \in Nat /\ BSIZE \in Nat
          BY <1>1
        <5>2. dip'[i].size \in Nat
          <6>1. dip'[i].size = dip[i].size + Len(data)
            BY <1>8
          <6> QED
            BY <1>7, <6>1
        <5>3. bn * BSIZE \in Nat
          BY <5>1
        <5>4. fbn * BSIZE \in Nat /\ (fbn + 1) * BSIZE \in Nat
          BY <1>9, <5>1
        <5> QED
          BY <5>1, <5>2, <5>3, <5>4
      <4>1. bn * BSIZE < (fbn + 1) * BSIZE
        BY <1>10, <3>3, <4>0
      <4>2. bn < fbn + 1
        BY <1>1, <1>9, <4>0, <4>1, MulLess
      <4>3. CASE bn = fbn
        BY <1>2, <1>c, <2>2, <2>m, <4>3
      <4>4. CASE bn # fbn
        <5>1. bn + 1 <= fbn
          BY <1>9, <4>0, <4>2, <4>4
        <5>2. (bn + 1) * BSIZE <= fbn * BSIZE
          <6>1. bn + 1 \in Nat /\ fbn \in Nat /\ BSIZE \in Nat
            BY <1>1, <1>9, <4>0
          <6> QED
            BY <5>1, <6>1, MulMono
        <5>3. bn * BSIZE < dip[i].size
          BY <1>1, <1>7, <1>10, <4>0, <5>2
        <5>4. Mapped(dip[i], bn) # 0
          BY <2>0, <2>2, <5>3 DEF Full
        <5>5. bn \in 0..MAXFILE /\ bn # MAXFILE
          BY <1>1
        <5> QED
          BY <1>c, <2>2, <2>m, <4>4, <5>4, <5>5
      <4> QED
        BY <4>3, <4>4
    <3> QED
      BY <2>2, <3>2, <3>3 DEF Full
  <2> QED
    BY <2>1, <2>2
<1>13. nmeta <= freeblock'
  BY <1>1, <1>2, <1>c
<1>14. ASSUME NEW b \in 0 .. FSSIZE - 1, b >= freeblock' PROVE disk'[b] = Zeroes
  <2>1. b # x /\ (fbn >= NDIRECT => b # ind) /\ b >= freeblock
    BY <1>1, <1>2, <1>14, <1>c
  <2>2. disk'[b] = disk[b]
    BY <1>1, <1>4, <1>9, <2>1
  <2> QED
    BY <2>1, <2>2 DEF MkBlocks
<1>15. Owned(Table(dip)', NoneDead, 0 .. freeblock' - 1)
  <2>1. Owned(Table(dip), NoneDead, 0 .. freeblock - 1)
    BY DEF MkBlocks
  <2>2. \A k \in Inum, l \in 0..MAXFILE : l \notin NoneDead[k]
    BY DEF NoneDead
  <2>3. \A k \in Inum, l \in 0..MAXFILE : Table(dip)[k][l] = Cell(dip[k], l) /\ Table(dip)'[k][l] = Cell(dip[k], l)'
    BY DEF Table
  <2>4. CASE Mapped(dip[i], fbn) # 0
    <3>1. fbn >= NDIRECT => dip[i].addrs[NDIRECT] # 0
      BY <1>9, <2>4, CellCases
    <3>2. Cell(dip[i], fbn)' = Cell(dip[i], fbn) /\ Cell(dip[i], MAXFILE)' = Cell(dip[i], MAXFILE)
      BY <1>1, <1>2, <1>9, <1>11, <1>c, <2>4, <3>1
    <3>3. \A k \in Inum, l \in 0..MAXFILE : Table(dip)'[k][l] = Table(dip)[k][l]
      BY <1>c, <2>3, <3>2
    <3>4. freeblock' = freeblock
      BY <1>2, <2>4
    <3> QED
      BY <2>1, <2>2, <3>3, <3>4, OwnedSame
  <2>5. CASE Mapped(dip[i], fbn) = 0 /\ (fbn < NDIRECT \/ dip[i].addrs[NDIRECT] # 0)
    <3>1. x = freeblock /\ freeblock' = freeblock + 1
      BY <1>2, <2>5
    <3>2. Cell(dip[i], MAXFILE)' = Cell(dip[i], MAXFILE)
      BY <1>1, <1>2, <1>9, <1>11, <1>c, <2>5
    <3>3. \A k \in Inum, l \in 0..MAXFILE : (k # i \/ l # fbn) => Table(dip)'[k][l] = Table(dip)[k][l]
      BY <1>c, <2>3, <3>2
    <3>4. Table(dip)[i][fbn] = 0 /\ Table(dip)'[i][fbn] = freeblock
      BY <1>9, <1>11, <1>c, <2>3, <2>5, <3>1
    <3>5. freeblock \notin 0 .. freeblock - 1 /\ 0 .. freeblock' - 1 = (0 .. freeblock - 1) \cup {freeblock}
      BY <1>1, <3>1
    <3>6. Owned(Table(dip)', NoneDead, (0 .. freeblock - 1) \cup {freeblock})
      <4>1. freeblock \in Nat /\ fbn \in 0..MAXFILE /\ fbn \notin NoneDead[i]
        BY <1>1, <1>9, <2>2
      <4>2. PICK c, c1, U : c = Table(dip) /\ c1 = Table(dip)' /\ U = 0 .. freeblock - 1
        OBVIOUS
      <4>3. Owned(c, NoneDead, U) /\ freeblock \notin U /\ c[i][fbn] = 0 /\ c1[i][fbn] = freeblock
        BY <2>1, <3>4, <3>5, <4>2
      <4>4. \A k \in Inum, l \in 0..MAXFILE : (k # i \/ l # fbn) => c1[k][l] = c[k][l]
        BY <3>3, <4>2
      <4>5. Owned(c1, NoneDead, U \cup {freeblock})
        BY <4>1, <4>3, <4>4, OwnedAdd
      <4> QED
        BY <4>2, <4>5
    <3> QED
      BY <3>5, <3>6
  <2>6. CASE fbn >= NDIRECT /\ dip[i].addrs[NDIRECT] = 0
    <3>1. ind = freeblock /\ x = freeblock + 1 /\ freeblock' = freeblock + 2
      BY <1>2, <2>6
    <3>2. Mapped(dip[i], fbn) = 0
      BY <1>9, <2>6, CellCases
    <3>3. PICK c1 : c1 = [k \in Inum |-> [l \in 0..MAXFILE |-> IF k = i /\ l = MAXFILE THEN freeblock ELSE Table(dip)[k][l]]]
      OBVIOUS
    <3>4. /\ (\A k \in Inum, l \in 0..MAXFILE : (k # i \/ l # MAXFILE) => c1[k][l] = Table(dip)[k][l])
          /\ c1[i][MAXFILE] = freeblock
      BY <1>9, <3>3
    <3>5. freeblock \notin 0 .. freeblock - 1 /\ freeblock + 1 \notin (0 .. freeblock - 1) \cup {freeblock} /\ freeblock + 1 \in Nat
      BY <1>1
    <3>6. 0 .. freeblock' - 1 = ((0 .. freeblock - 1) \cup {freeblock}) \cup {freeblock + 1}
      BY <1>1, <3>1
    <3>7. Table(dip)[i][MAXFILE] = 0 /\ Table(dip)[i][fbn] = 0
      BY <1>9, <1>11, <2>3, <2>6, <3>2
    <3>8. Owned(c1, NoneDead, (0 .. freeblock - 1) \cup {freeblock})
      <4>1. freeblock \in Nat
        BY <1>1
      <4>2. MAXFILE \in 0..MAXFILE
        BY <1>9
      <4> QED
        <5>1. MAXFILE \notin NoneDead[i] /\ freeblock \notin 0 .. freeblock - 1
          BY <2>2, <3>5, <4>2
        <5>2. Table(dip)[i][MAXFILE] = 0
          BY <3>7
        <5> QED
          BY <2>1, <3>4, <4>1, <4>2, <5>1, <5>2, OwnedAdd
    <3>9. Table(dip)'[i][fbn] = freeblock + 1 /\ c1[i][fbn] = 0
      BY <1>9, <1>c, <2>3, <3>1, <3>4, <3>7
    <3>10. \A k \in Inum, l \in 0..MAXFILE : (k # i \/ l # fbn) => Table(dip)'[k][l] = c1[k][l]
      <4> SUFFICES ASSUME NEW k \in Inum, NEW l \in 0..MAXFILE, k # i \/ l # fbn PROVE Table(dip)'[k][l] = c1[k][l]
        OBVIOUS
      <4>1. CASE k = i /\ l = MAXFILE
        BY <1>c, <2>3, <2>6, <3>1, <3>4, <4>1
      <4>2. CASE k # i \/ l # MAXFILE
        BY <1>c, <2>3, <3>4, <4>2
      <4> QED
        BY <4>1, <4>2
    <3>11. Owned(Table(dip)', NoneDead, ((0 .. freeblock - 1) \cup {freeblock}) \cup {freeblock + 1})
      BY <1>9, <2>2, <3>5, <3>8, <3>9, <3>10, OwnedAdd
    <3> QED
      BY <3>6, <3>11
  <2> QED
    BY <1>1, <1>9, <2>4, <2>5, <2>6
<1>16. Owned(Table(dip), NoneDead, 0 .. freeblock - 1)'
  <2>1. NoneDead' = NoneDead
    BY DEF NoneDead
  <2> QED
    BY <1>15, <2>1 DEF Owned
<1>17. MkBlocks'
  BY <1>12, <1>13, <1>14, <1>16 DEF MkBlocks
<1> QED
  BY <1>2, <1>5, <1>8, <1>17
-----------------------------------------------------------------------------
\* Entries divide blocks: none crosses the end of a block (mkfs.c:85).
LEMMA EntryFits ==
  ASSUME NEW k \in Nat
  PROVE  k * DIRENT \in Nat /\ DIRENT <= BSIZE - ((k * DIRENT) % BSIZE)
<1>1. BSIZE \in Nat \ {0} /\ DIRENT \in Nat \ {0} /\ BSIZE % DIRENT = 0
  BY LayoutAssumption
<1>2. PICK q : q = BSIZE \div DIRENT
  OBVIOUS
<1>3. q \in Nat /\ BSIZE = DIRENT * q
  <2>1. BSIZE = DIRENT * (BSIZE \div DIRENT) + (BSIZE % DIRENT) /\ BSIZE \div DIRENT \in Nat
    BY <1>1, DivMod
  <2> QED
    BY <1>1, <1>2, <2>1
<1>4. PICK s : s = k * DIRENT
  OBVIOUS
<1>5. s \in Nat
  BY <1>1, <1>4
<1>6. PICK d, m : d = s \div BSIZE /\ m = s % BSIZE
  OBVIOUS
<1>7. d \in Nat /\ m \in Nat /\ m < BSIZE /\ s = BSIZE * d + m
  BY <1>1, <1>5, <1>6, DivMod
<1>8. m = DIRENT * (k - q * d)
  <2>1. q * d \in Nat /\ DIRENT * (q * d) = BSIZE * d
    BY <1>1, <1>3, <1>7
  <2>2. DIRENT * (k - q * d) = DIRENT * k - DIRENT * (q * d)
    BY <1>1, <2>1
  <2> QED
    <3>1. s = DIRENT * k /\ DIRENT * k \in Nat /\ BSIZE * d \in Nat
      BY <1>1, <1>4, <1>7
    <3>2. m = DIRENT * k - BSIZE * d
      BY <1>7, <3>1
    <3> QED
      BY <2>1, <2>2, <3>2
<1>9. PICK e : e = k - q * d
  OBVIOUS
<1>10. e \in Int
  BY <1>3, <1>7, <1>9
<1>11. e < q
  <2> SUFFICES ASSUME q <= e PROVE FALSE
    BY <1>3, <1>10
  <2>1. e \in Nat
    BY <1>3, <1>10
  <2>2. q * DIRENT <= e * DIRENT
    BY <1>1, <1>3, <2>1, MulMono
  <2> QED
    BY <1>1, <1>3, <1>7, <1>8, <1>9, <2>1, <2>2
<1>12. DIRENT * e + DIRENT <= BSIZE
  <2>1. DIRENT * (e + 1) <= DIRENT * q
    BY <1>1, <1>3, <1>10, <1>11
  <2> QED
    BY <1>1, <1>3, <1>10, <2>1
<1> QED
  BY <1>1, <1>4, <1>5, <1>6, <1>7, <1>8, <1>9, <1>10, <1>12

\* What mkfs writes.
LEMMA Bytes ==
  /\ Dirent \in Seq(Nat) /\ Len(Dirent) = DIRENT
  /\ \A from, n \in Nat : Piece(from, n) \in Seq(Nat) /\ Len(Piece(from, n)) = n
<1>1. DIRENT \in Nat
  BY Sizes
<1>2. Dirent \in Seq(Nat) /\ Len(Dirent) = DIRENT
  BY <1>1 DEF Dirent
<1>3. ASSUME NEW from \in Nat, NEW n \in Nat PROVE Piece(from, n) \in Seq(Nat) /\ Len(Piece(from, n)) = n
  <2>1. \A k \in 1..n : Byte(from + k) \in Nat
    BY DEF Byte
  <2> QED
    BY <2>1 DEF Piece
<1> QED
  BY <1>2, <1>3

\* An image without files.
LEMMA FilesInitInv ==
  ASSUME FilesInit
  PROVE  DataTyped /\ mk # 0 /\ MkInv
<1>1. /\ BSIZE \in Nat \ {0} /\ NDIRECT \in Nat /\ MAXFILE \in Nat /\ nmeta \in Nat \ {0} /\ Len(Sources) \in Nat
      /\ Inum = 1 .. Len(Sources) + 1 /\ ROOTINO \in Inum /\ ROOTINO = 1 /\ Cells = 0 .. BSIZE - 1 /\ DIRENT \in Nat
      /\ MAXFILE * BSIZE \in Nat
  BY Sizes
<1>2. NoInode \in INode /\ NoInode.size = 0 /\ \A k \in 0..NDIRECT : NoInode.addrs[k] = 0
  BY DEF NoInode, INode
<1>3. Zeroes \in [Cells -> Nat]
  BY <1>1 DEF Zeroes
<1>4. Idle \in Calls
  BY DEF Calls
<1>5. /\ mk = 1 /\ freeblock = nmeta /\ used = {} /\ disk = [b \in 0 .. FSSIZE - 1 |-> Zeroes]
      /\ dip = [i \in Inum |-> NoInode] /\ ip = dip /\ lock = [i \in Inum |-> NoProc]
      /\ off = [f \in File |-> 0] /\ call = [p \in Proc |-> Idle]
  BY DEF FilesInit
<1>6. DataTyped
  BY <1>1, <1>2, <1>3, <1>4, <1>5 DEF DataTyped
<1>7. \A i \in Inum : dip[i] = NoInode
  BY <1>5
<1>8. ASSUME NEW i \in Inum, NEW j \in 0..MAXFILE PROVE Cell(dip[i], j) = 0
  BY <1>1, <1>2, <1>7 DEF Cell, Mapped
<1>9. \A i \in Inum, j \in 0..MAXFILE : Table(dip)[i][j] = 0
  BY <1>8 DEF Table
<1>10. Owned(Table(dip), NoneDead, 0 .. freeblock - 1)
  <2>1. PICK T : T = Table(dip)
    OBVIOUS
  <2>2. \A i \in Inum, j \in 0..MAXFILE : T[i][j] = 0
    BY <1>9, <2>1
  <2>3. \A b \in 0 .. freeblock - 1 : b < nmeta
    BY <1>1, <1>5
  <2>4. \A b \in 0 .. nmeta - 1 : b \in 0 .. freeblock - 1
    BY <1>5
  <2>5. Owned(T, NoneDead, 0 .. freeblock - 1)
    BY <2>2, <2>3, <2>4 DEF Owned
  <2> QED
    BY <2>1, <2>5
<1>11. ASSUME NEW i \in Inum PROVE dip[i].size <= MAXFILE * BSIZE /\ Full(dip[i], dip[i].size)
  <2>1. dip[i].size = 0
    BY <1>2, <1>7
  <2>2. \A bn \in 0 .. MAXFILE - 1 : bn * BSIZE \in Nat
    BY <1>1
  <2> QED
    BY <1>1, <2>1, <2>2 DEF Full
<1>12. MkBlocks
  <2>1. \A b \in 0 .. FSSIZE - 1 : disk[b] = Zeroes
    BY <1>5
  <2>2. nmeta <= freeblock
    BY <1>1, <1>5
  <2> QED
    BY <1>10, <1>11, <2>1, <2>2 DEF MkBlocks
<1>13. MkProgress
  <2>1. mk \in 1 .. Len(Sources) + 3
    BY <1>1, <1>5
  <2>2. dip[ROOTINO].size = (mk - 1) * DIRENT
    BY <1>1, <1>2, <1>5, <1>7
  <2>3. ASSUME NEW i \in Inum, i # ROOTINO PROVE dip[i].size <= Sources[i - 1] /\ dip[i].size % BSIZE = 0
    <3>1. dip[i].size = 0 /\ 0 % BSIZE = 0
      BY <1>1, <1>2, <1>7
    <3>2. i - 1 \in 1 .. Len(Sources)
      BY <1>1, <2>3
    <3>3. Sources[i - 1] \in Nat
      BY <3>2, LayoutAssumption
    <3> QED
      BY <3>1, <3>3
  <2> QED
    BY <1>5, <2>1, <2>2, <2>3 DEF MkProgress
<1> QED
  BY <1>5, <1>6, <1>12, <1>13 DEF MkInv
-----------------------------------------------------------------------------
\* The source of the inode i.
LEMMA SourceOf ==
  ASSUME NEW i \in Inum, i # ROOTINO
  PROVE  Sources[i - 1] \in Nat
<1>1. i - 1 \in 1 .. Len(Sources)
  BY Sizes
<1> QED
  BY <1>1, LayoutAssumption

\* mkfs appends an entry to the root.
LEMMA MkEntryInv ==
  ASSUME DataTyped, MkInv, mk # 0, ImageFits', MkEntry
  PROVE  DataTyped' /\ mk' # 0 /\ MkInv'
<1>1. /\ mk \in 1 .. Len(Sources) + 2 /\ iappend(ROOTINO, Dirent) /\ mk' = mk + 1
      /\ used' = used /\ ip' = ip /\ lock' = lock /\ off' = off /\ call' = call
  BY DEF MkEntry
<1>2. /\ used = {} /\ lock = [i \in Inum |-> NoProc] /\ off = [f \in File |-> 0] /\ call = [p \in Proc |-> Idle]
      /\ dip[ROOTINO].size = (mk - 1) * DIRENT /\ MkBlocks
  BY DEF MkInv, MkProgress
<1>3. ROOTINO \in Inum /\ DIRENT \in Nat /\ Len(Sources) \in Nat
  BY Sizes
<1>4. mk - 1 \in Nat
  BY <1>1
<1>5. DIRENT <= BSIZE - (dip[ROOTINO].size % BSIZE)
  BY <1>2, <1>4, EntryFits
<1>6. /\ freeblock' \in Nat /\ disk' \in [0 .. FSSIZE - 1 -> [Cells -> Nat]] /\ dip' \in [Inum -> INode]
      /\ (\A k \in Inum : k # ROOTINO => dip'[k] = dip[k])
      /\ dip'[ROOTINO].size = dip[ROOTINO].size + DIRENT
      /\ MkBlocks'
  BY <1>1, <1>2, <1>3, <1>5, Bytes, AppendInv
<1>7. mk' \in 1 .. Len(Sources) + 3 /\ mk' \in Nat /\ mk' # 0
  BY <1>1, <1>3
<1>8. DataTyped'
  BY <1>1, <1>6, <1>7 DEF DataTyped
<1>9. dip'[ROOTINO].size = (mk' - 1) * DIRENT
  BY <1>1, <1>2, <1>3, <1>4, <1>6
<1>10. MkProgress'
  BY <1>1, <1>2, <1>6, <1>7, <1>9 DEF MkInv, MkProgress
<1> QED
  BY <1>6, <1>7, <1>8, <1>10 DEF MkInv

\* mkfs appends a block to a file.
LEMMA MkContentsInv ==
  ASSUME DataTyped, MkInv, mk # 0, ImageFits', MkContents
  PROVE  DataTyped' /\ mk' # 0 /\ MkInv'
<1>a. PICK i : i = mk - 2
  OBVIOUS
<1>b. PICK size : size = dip[i].size
  OBVIOUS
<1>c. PICK n : n = Min({BSIZE, Sources[mk - 3] - size})
  OBVIOUS
<1>1. /\ ~Copied /\ iappend(i, Piece(size, n)) /\ mk' = mk
      /\ used' = used /\ ip' = ip /\ lock' = lock /\ off' = off /\ call' = call
  BY <1>a, <1>b, <1>c DEF MkContents
<1>2. /\ used = {} /\ lock = [k \in Inum |-> NoProc] /\ off = [f \in File |-> 0] /\ call = [p \in Proc |-> Idle]
      /\ dip[ROOTINO].size = (mk - 1) * DIRENT /\ MkBlocks /\ mk \in 1 .. Len(Sources) + 3
  BY DEF MkInv, MkProgress
<1>3. BSIZE \in Nat \ {0} /\ ROOTINO = 1 /\ ROOTINO \in Inum /\ Inum = 1 .. Len(Sources) + 1 /\ Len(Sources) \in Nat
  BY Sizes
<1>4. mk > 3 /\ size # Sources[mk - 3]
  BY <1>1, <1>a, <1>b DEF Copied
<1>5. i \in Inum /\ i # ROOTINO /\ mk - 3 = i - 1
  BY <1>2, <1>3, <1>4, <1>a
<1>6. PICK S : S = Sources[i - 1]
  OBVIOUS
<1>7. S \in Nat /\ size # S
  BY <1>4, <1>5, <1>6, SourceOf
<1>8. size \in Nat
  <2>1. dip[i] \in INode
    BY <1>5 DEF DataTyped
  <2> QED
    BY <1>b, <2>1 DEF INode
<1>9. size <= S /\ size % BSIZE = 0
  BY <1>5, <1>6, <1>7, <1>b DEF MkInv, MkProgress
<1>10. S - size \in Nat /\ n = Min({BSIZE, S - size})
  <2>1. Sources[mk - 3] = S
    BY <1>5, <1>6
  <2>2. S - size \in Nat
    BY <1>7, <1>8, <1>9
  <2> QED
    BY <1>c, <2>1, <2>2
<1>11. n \in Nat /\ n <= BSIZE /\ n <= S - size /\ (n = BSIZE \/ n = S - size)
  BY <1>3, <1>10, MinPair
<1>12. Piece(size, n) \in Seq(Nat) /\ Len(Piece(size, n)) = n
  BY <1>8, <1>11, Bytes
<1>13. n <= BSIZE - (dip[i].size % BSIZE)
  BY <1>3, <1>9, <1>11, <1>b
<1>14. /\ freeblock' \in Nat /\ disk' \in [0 .. FSSIZE - 1 -> [Cells -> Nat]] /\ dip' \in [Inum -> INode]
       /\ (\A k \in Inum : k # i => dip'[k] = dip[k])
       /\ dip'[i].size = size + n
       /\ MkBlocks'
  BY <1>1, <1>2, <1>5, <1>12, <1>13, <1>b, AppendInv
<1>15. DataTyped'
  BY <1>1, <1>14 DEF DataTyped
<1>16. dip'[i].size <= S /\ (dip'[i].size % BSIZE = 0 \/ dip'[i].size = S)
  <2>1. CASE n = S - size
    BY <1>7, <1>8, <1>14, <2>1
  <2>2. CASE n = BSIZE
    <3>1. size = BSIZE * (size \div BSIZE) /\ size \div BSIZE \in Nat
      BY <1>3, <1>8, <1>9, DivMod
    <3>2. PICK d : d = size \div BSIZE
      OBVIOUS
    <3>3. PICK t : t = size + BSIZE
      OBVIOUS
    <3>4. PICK e : e = d + 1
      OBVIOUS
    <3>a. t \in Nat /\ e \in Nat
      BY <1>3, <1>8, <3>1, <3>2, <3>3, <3>4
    <3>b. e * BSIZE = t
      BY <1>3, <1>8, <3>1, <3>2, <3>3, <3>4
    <3>c. t < (e + 1) * BSIZE
      BY <1>3, <3>a, <3>b
    <3>d. t % BSIZE = t - e * BSIZE
      <4>1. e * BSIZE <= t
        BY <3>a, <3>b
      <4>2. BSIZE \in Nat \ {0}
        BY <1>3
      <4> QED
        BY <3>a, <3>c, <4>1, <4>2, DivBounds, Zenon
    <3>5. (size + BSIZE) % BSIZE = 0
      BY <3>3, <3>a, <3>b, <3>d
    <3> QED
      BY <1>3, <1>7, <1>8, <1>11, <1>14, <2>2, <3>5
  <2> QED
    BY <1>11, <2>1, <2>2
<1>17. MkProgress'
  <2>1. dip'[ROOTINO].size = (mk' - 1) * DIRENT
    BY <1>1, <1>2, <1>3, <1>5, <1>14
  <2>2. ASSUME NEW k \in Inum, k # ROOTINO
        PROVE  dip'[k].size <= Sources[k - 1] /\ (dip'[k].size % BSIZE = 0 \/ dip'[k].size = Sources[k - 1])
    <3>1. CASE k = i
      BY <1>6, <1>16, <3>1
    <3>2. CASE k # i
      BY <1>14, <2>2, <3>2 DEF MkInv, MkProgress
    <3> QED
      BY <3>1, <3>2
  <2> QED
    BY <1>1, <1>2, <2>1, <2>2 DEF MkProgress
<1> QED
  BY <1>1, <1>14, <1>15, <1>17 DEF MkInv

\* mkfs rounds the root up and writes the bitmap; the kernel starts from there.
LEMMA BootInv ==
  ASSUME DataTyped, MkInv, mk # 0, ImageFits, Boot
  PROVE  DataTyped' /\ mk' = 0 /\ KernelInv'
<1>1. /\ mk = Len(Sources) + 3 /\ dip' = [dip EXCEPT ![ROOTINO] = [dip[ROOTINO] EXCEPT !.size = RootSize(@)]]
      /\ ip' = dip' /\ used' = 0 .. freeblock - 1 /\ mk' = 0
      /\ freeblock' = freeblock /\ disk' = disk /\ lock' = lock /\ off' = off /\ call' = call
  BY DEF Boot, winode, rinode, MkBitmap
<1>2. /\ lock = [k \in Inum |-> NoProc] /\ off = [f \in File |-> 0] /\ call = [p \in Proc |-> Idle]
      /\ dip[ROOTINO].size = (mk - 1) * DIRENT /\ MkBlocks
  BY DEF MkInv, MkProgress
<1>3. /\ BSIZE \in Nat \ {0} /\ ROOTINO \in Inum /\ Len(Sources) \in Nat /\ DIRENT \in Nat /\ MAXFILE \in Nat
      /\ freeblock \in Nat /\ FSSIZE \in Nat /\ freeblock <= FSSIZE /\ IpOf \in [File -> Inum] /\ NDIRECT \in Nat
  BY Sizes DEF DataTyped, ImageFits
<1>4. dip[ROOTINO] \in INode /\ dip \in [Inum -> INode]
  BY <1>3 DEF DataTyped
<1>5. PICK s : s = dip[ROOTINO].size
  OBVIOUS
<1>6. s \in Nat
  BY <1>4, <1>5 DEF INode
<1>7. s % BSIZE # 0
  <2>1. s = (2 + Len(Sources)) * DIRENT
    BY <1>1, <1>2, <1>3, <1>5
  <2> QED
    BY <2>1, LayoutAssumption
<1>8. PICK d : d = s \div BSIZE
  OBVIOUS
<1>9. d \in Nat /\ d * BSIZE < s /\ RootSize(s) = (d + 1) * BSIZE /\ RootSize(s) \in Nat
  <2>1. d \in Nat /\ s % BSIZE \in Nat /\ s = BSIZE * d + (s % BSIZE)
    BY <1>3, <1>6, <1>8, DivMod
  <2>2. d * BSIZE = BSIZE * d /\ BSIZE * d \in Nat
    BY <1>3, <2>1
  <2>3. RootSize(s) = (d + 1) * BSIZE
    BY <1>8 DEF RootSize
  <2>4. RootSize(s) \in Nat
    BY <1>3, <2>1, <2>3
  <2>5. d * BSIZE < s
    BY <1>6, <1>7, <2>1, <2>2
  <2> QED
    BY <2>1, <2>3, <2>4, <2>5
<1>10. PICK r : r = [dip[ROOTINO] EXCEPT !.size = RootSize(s)]
  OBVIOUS
<1>11. r \in INode /\ r.size = RootSize(s) /\ r.addrs = dip[ROOTINO].addrs
  BY <1>4, <1>9, <1>10 DEF INode
<1>12. dip' = [dip EXCEPT ![ROOTINO] = r]
  BY <1>1, <1>5, <1>10
<1>13. /\ dip' \in [Inum -> INode] /\ dip'[ROOTINO] = r /\ ip' = dip'
       /\ \A k \in Inum : k # ROOTINO => dip'[k] = dip[k]
  BY <1>1, <1>3, <1>4, <1>11, <1>12
<1>14. used' \in SUBSET (0 .. FSSIZE - 1)
  BY <1>1, <1>3
<1>15. DataTyped'
  <2>1. mk' \in Nat
    BY <1>1
  <2> QED
    BY <1>1, <1>13, <1>14, <2>1 DEF DataTyped
<1>16. \A k \in Inum : ip'[k].addrs = dip[k].addrs
  BY <1>11, <1>13
<1>17. /\ \A k \in Inum, bn \in 0..MAXFILE : Mapped(ip[k], bn)' = Mapped(dip[k], bn)
       /\ \A k \in Inum, j \in 0..MAXFILE : Cell(ip[k], j)' = Cell(dip[k], j)
  <2>1. \A k \in Inum, bn \in 0..MAXFILE : Mapped(ip[k], bn)' = Mapped(dip[k], bn)
    BY <1>1, <1>16 DEF Mapped
  <2> QED
    BY <1>16, <2>1 DEF Cell
<1>18. \A p \in Proc : call'[p] = Idle /\ call'[p].op = "idle"
  BY <1>1, <1>2 DEF Idle
<1>19. \A p \in Proc : ProcInv(p)'
  BY <1>18 DEF ProcInv, Hold, Chunk, Copying, Passed, Writing, Moves
<1>20. ASSUME NEW k \in Inum PROVE InoInv(k)'
  <2>0. dip[k].size <= MAXFILE * BSIZE /\ Full(dip[k], dip[k].size)
    BY <1>2 DEF MkBlocks
  <2>m. \A bn \in 0 .. MAXFILE - 1 : bn \in 0..MAXFILE /\ bn \in Nat
    BY <1>3
  <2>1. ip'[k].size <= MAXFILE * BSIZE /\ Full(ip[k], ip[k].size)'
    <3>1. CASE k # ROOTINO
      <4>1. ip'[k] = dip[k]
        BY <1>13, <3>1
      <4> QED
        BY <1>17, <2>0, <2>m, <4>1 DEF Full
    <3>2. CASE k = ROOTINO
      <4>1. ip'[k].size = (d + 1) * BSIZE
        BY <1>9, <1>11, <1>13, <3>2
      <4>2. d < MAXFILE
        <5>1. d * BSIZE < MAXFILE * BSIZE
          <6>1. d * BSIZE \in Nat /\ MAXFILE * BSIZE \in Nat
            BY <1>3, <1>9
          <6>2. s <= MAXFILE * BSIZE /\ d * BSIZE < s
            BY <1>5, <1>9, <2>0, <3>2
          <6> QED
            BY <1>6, <6>1, <6>2
        <5> QED
          BY <1>3, <1>9, <5>1, MulLess
      <4>3. (d + 1) * BSIZE <= MAXFILE * BSIZE
        <5>1. d + 1 \in Nat /\ d + 1 <= MAXFILE /\ BSIZE \in Nat
          BY <1>3, <1>9, <4>2
        <5> QED
          BY <1>3, <5>1, MulMono
      <4>4. ASSUME NEW bn \in 0 .. MAXFILE - 1, bn * BSIZE < (d + 1) * BSIZE PROVE Mapped(dip[k], bn) # 0
        <5>1. bn \in Nat /\ d + 1 \in Nat
          BY <1>3, <1>9
        <5>2. bn < d + 1
          BY <1>3, <4>4, <5>1, MulLess
        <5>3. bn <= d
          BY <1>9, <5>1, <5>2
        <5>4. bn * BSIZE <= d * BSIZE
          BY <1>3, <1>9, <5>1, <5>3, MulMono
        <5>5. bn * BSIZE \in Nat /\ d * BSIZE \in Nat
          BY <1>3, <1>9, <5>1
        <5>6. bn * BSIZE < dip[k].size
          BY <1>5, <1>6, <1>9, <3>2, <5>4, <5>5
        <5> QED
          BY <2>0, <5>6 DEF Full
      <4>5. Full(ip[k], ip[k].size)'
        BY <1>17, <2>m, <4>1, <4>4 DEF Full
      <4> QED
        BY <4>1, <4>3, <4>5
    <3> QED
      BY <3>1, <3>2
  <2> QED
    BY <1>13, <2>1 DEF InoInv
<1>21. ASSUME NEW f \in File PROVE OffInv(f)'
  <2>1. off'[f] = 0 /\ IpOf[f] \in Inum
    BY <1>1, <1>2, <1>3
  <2>2. ip'[IpOf[f]] \in INode
    BY <1>13, <2>1
  <2>3. ip'[IpOf[f]].size \in Nat
    BY <2>2 DEF INode
  <2> QED
    BY <2>1, <2>3 DEF OffInv
<1>22. Owned(Table(ip), Dead, used)'
  <2>1. Owned(Table(dip), NoneDead, 0 .. freeblock - 1)
    BY <1>2 DEF MkBlocks
  <2>2. \A k \in Inum, l \in 0..MAXFILE : l \notin NoneDead[k] /\ l \notin Dead'[k]
    BY <1>18 DEF NoneDead, Dead, Truncating
  <2>3. \A k \in Inum, l \in 0..MAXFILE : Table(ip)'[k][l] = Table(dip)[k][l]
    <3> SUFFICES ASSUME NEW k \in Inum, NEW l \in 0..MAXFILE PROVE Table(ip)'[k][l] = Table(dip)[k][l]
      OBVIOUS
    <3>1. Table(ip)'[k][l] = Cell(ip[k], l)' /\ Table(dip)[k][l] = Cell(dip[k], l)
      BY DEF Table
    <3> QED
      BY <1>17, <3>1
  <2>4. Owned(Table(ip)', Dead', 0 .. freeblock - 1)
    BY <2>1, <2>2, <2>3, OwnedSame
  <2>5. Owned(Table(ip)', Dead', used')
    BY <1>1, <2>4
  <2> QED
    BY <2>5 DEF Owned
<1> QED
  BY <1>1, <1>15, <1>19, <1>20, <1>21, <1>22 DEF KernelInv
-----------------------------------------------------------------------------
\* A step of p.
ProcStep(p) ==
  \/ \E f \in Writable, n \in Lengths : SysWrite(p, f, n)
  \/ \E f \in Readable, n \in Lengths : SysRead(p, f, n)
  \/ WriteChunk(p) \/ Bmap(p) \/ WriteBlock(p) \/ ReadBlock(p) \/ WriteEnd(p) \/ ReadEnd(p)
  \/ \E i \in Removable : Trunc(p, i)
  \/ TruncFree(p) \/ TruncEnd(p)

\* Every step of a process keeps the kernel's invariant.
LEMMA ProcStepInv ==
  ASSUME DataTyped, KernelInv, mk = 0, NEW p \in Proc, ProcStep(p)
  PROVE  DataTyped' /\ mk' = 0 /\ Kept(p)
<1>1. CASE \E f \in Writable, n \in Lengths : SysWrite(p, f, n)
  BY <1>1, SysWriteInv
<1>2. CASE \E f \in Readable, n \in Lengths : SysRead(p, f, n)
  BY <1>2, SysReadInv
<1>3. CASE WriteChunk(p)
  BY <1>3, WriteChunkInv
<1>4. CASE Bmap(p)
  BY <1>4, BmapInv
<1>5. CASE WriteBlock(p)
  BY <1>5, WriteBlockInv
<1>6. CASE ReadBlock(p)
  BY <1>6, ReadBlockInv
<1>7. CASE WriteEnd(p)
  BY <1>7, WriteEndInv
<1>8. CASE ReadEnd(p)
  BY <1>8, ReadEndInv
<1>9. CASE \E i \in Removable : Trunc(p, i)
  BY <1>9, TruncStarts
<1>10. CASE TruncFree(p)
  BY <1>10, TruncFreeInv
<1>11. CASE TruncEnd(p)
  BY <1>11, TruncEndInv
<1> QED
  BY <1>1, <1>2, <1>3, <1>4, <1>5, <1>6, <1>7, <1>8, <1>9, <1>10, <1>11 DEF ProcStep

\* mkfs runs first, then the processes.
LEMMA Phases ==
  ASSUME DataInv, FilesNext
  PROVE  \/ mk # 0 /\ (MkEntry \/ MkContents \/ Boot)
         \/ mk = 0 /\ \E p \in Proc : ProcStep(p)
<1>1. MkEntry \/ MkContents \/ Boot => mk # 0
  BY Sizes DEF MkEntry, MkContents, Boot
<1>2. ASSUME NEW p \in Proc, mk # 0, ProcStep(p) PROVE FALSE
  <2>1. call[p] = Idle
    BY <1>2 DEF DataInv, MkInv, MkProgress
  <2>2. call[p].op = "idle"
    BY <2>1, IdleCall
  <2> QED
    BY <1>2, <2>2 DEF ProcStep, SysWrite, SysRead, WriteChunk, Bmap, WriteBlock, ReadBlock, WriteEnd, ReadEnd, Trunc,
       TruncFree, TruncEnd, InChunk
<1> QED
  BY <1>1, <1>2 DEF FilesNext, ProcStep

\* Every step.
LEMMA DataNext ==
  ASSUME DataInv, ImageFits, ImageFits', [FilesNext]_filesVars
  PROVE  DataInv'
<1>1. DataTyped
  BY DEF DataInv
<1>2. CASE UNCHANGED filesVars
  <2>1. /\ mk' = mk /\ freeblock' = freeblock /\ used' = used /\ disk' = disk /\ dip' = dip /\ ip' = ip
        /\ lock' = lock /\ off' = off /\ call' = call
    BY <1>2 DEF filesVars
  <2>2. DataTyped'
    BY <1>1, <2>1 DEF DataTyped
  <2>3. ASSUME mk' # 0 PROVE MkInv'
    <3>1. MkInv
      BY <2>1, <2>3 DEF DataInv
    <3>2. /\ \A i \in Inum : \A bn : Mapped(dip[i], bn)' = Mapped(dip[i], bn)
          /\ \A i \in Inum : \A j : Cell(dip[i], j)' = Cell(dip[i], j)
      BY <2>1 DEF Mapped, Cell
    <3>3. Table(dip)' = Table(dip) /\ NoneDead' = NoneDead
      BY <2>1, <3>2 DEF Table, NoneDead
    <3>4. Owned(Table(dip)', NoneDead', 0 .. freeblock' - 1)
      BY <2>1, <3>1, <3>3 DEF MkInv, MkBlocks
    <3>5. Owned(Table(dip), NoneDead, 0 .. freeblock - 1)'
      BY <3>4 DEF Owned
    <3>6. MkBlocks'
      BY <2>1, <3>1, <3>2, <3>5 DEF MkInv, MkBlocks, Full
    <3>7. MkProgress'
      BY <2>1, <3>1 DEF MkInv, MkProgress
    <3> QED
      BY <3>6, <3>7 DEF MkInv
  <2>4. ASSUME mk' = 0 PROVE KernelInv'
    <3>1. KernelInv
      BY <2>1, <2>4 DEF DataInv
    <3>2. /\ \A i \in Inum : \A bn : Mapped(ip[i], bn)' = Mapped(ip[i], bn)
          /\ \A i \in Inum : \A j : Cell(ip[i], j)' = Cell(ip[i], j)
          /\ \A i, j : Truncating(i, j)' <=> Truncating(i, j)
          /\ \A p \in Proc : Ino(p)' = Ino(p) /\ Position(p)' = Position(p) /\ (Moves(p)' <=> Moves(p))
          /\ \A i : (Truncated(i)' <=> Truncated(i)) /\ (Growing(i)' <=> Growing(i))
      BY <2>1 DEF Mapped, Cell, Truncating, Ino, Position, Moves, Truncated, Growing
    <3>3. Table(ip)' = Table(ip) /\ Dead' = Dead
      BY <2>1, <3>2 DEF Table, Dead
    <3>4. Owned(Table(ip)', Dead', used')
      BY <2>1, <3>1, <3>3 DEF KernelInv
    <3>5. Owned(Table(ip), Dead, used)'
      BY <3>4 DEF Owned
    <3>6. ASSUME NEW p \in Proc PROVE ProcInv(p)'
      <4>1. ProcInv(p)
        BY <3>1 DEF KernelInv
      <4>2. Hold(p)' /\ Chunk(p)' /\ Passed(p)' /\ Writing(p)'
        BY <2>1, <3>2, <4>1 DEF ProcInv, Hold, Chunk, Passed, Writing
      <4>3. Copying(p)'
        <5> SUFFICES ASSUME call[p].op = "copy" PROVE Full(ip[Ino(p)], Position(p))'
          BY <2>1 DEF Copying
        <5>1. Ino(p) \in Inum
          BY <1>1, Mover DEF Moves
        <5>2. Full(ip[Ino(p)], Position(p))
          BY <4>1 DEF ProcInv, Copying
        <5> QED
          BY <2>1, <3>2, <5>1, <5>2 DEF Full
      <4> QED
        BY <4>2, <4>3 DEF ProcInv
    <3>7. ASSUME NEW i \in Inum PROVE InoInv(i)'
      BY <2>1, <3>1, <3>2 DEF KernelInv, InoInv, Full
    <3>8. \A f \in File : OffInv(f)'
      BY <2>1, <3>1 DEF KernelInv, OffInv
    <3> QED
      BY <3>5, <3>6, <3>7, <3>8 DEF KernelInv
  <2> QED
    BY <2>2, <2>3, <2>4 DEF DataInv
<1>3. CASE mk # 0 /\ (MkEntry \/ MkContents \/ Boot)
  <2>1. MkInv
    BY <1>3 DEF DataInv
  <2>2. CASE MkEntry
    BY <1>1, <1>3, <2>1, <2>2, MkEntryInv DEF DataInv
  <2>3. CASE MkContents
    BY <1>1, <1>3, <2>1, <2>3, MkContentsInv DEF DataInv
  <2>4. CASE Boot
    BY <1>1, <1>3, <2>1, <2>4, BootInv DEF DataInv
  <2> QED
    BY <1>3, <2>2, <2>3, <2>4
<1>4. CASE mk = 0 /\ \E p \in Proc : ProcStep(p)
  <2>1. KernelInv
    BY <1>4 DEF DataInv
  <2> QED
    BY <1>1, <1>4, <2>1, ProcStepInv DEF DataInv, Kept
<1> QED
  BY <1>2, <1>3, <1>4, Phases

(* Types, and the invariant the other results rest on.  mkfs does not check    *)
(* that the image fits on the disk (iappend() only takes the next block,       *)
(* mkfs.c:273, :278 and :282): that is the premise.                            *)
THEOREM FileDataInvariant == FilesSpec /\ []ImageFits => []DataInv
<1>1. FilesInit => DataInv
  BY FilesInitInv DEF DataInv
<1>2. DataInv /\ ImageFits /\ ImageFits' /\ [FilesNext]_filesVars => DataInv'
  BY DataNext
<1> QED
  BY <1>1, <1>2, PTL DEF FilesSpec

(* An unlocked inode is the one on disk, although bmap() changes only the one  *)
(* in memory and writei() saves it only when the file has grown.               *)
THEOREM InodeSavedThm == FilesSpec /\ []ImageFits => []InodeSaved
<1>1. DataInv => InodeSaved
  BY UnlockedFull DEF DataInv, InodeSaved
<1> QED
  BY <1>1, FileDataInvariant, PTL

\* No two places name the same block.
LEMMA PlacesCounted ==
  ASSUME DataTyped, KernelInv
  PROVE  LET owned == {BlockAt(r) : r \in Places}
         IN  /\ used = (0 .. nmeta - 1) \cup owned
             /\ owned \cap (0 .. nmeta - 1) = {}
             /\ Cardinality(owned) = Cardinality(Places)
             /\ IsFiniteSet(Places)
<1> DEFINE owned == {BlockAt(r) : r \in Places}
<1>1. /\ MAXFILE \in Nat /\ nmeta \in Nat \ {0} /\ FSSIZE \in Nat /\ Len(Sources) \in Nat /\ Inum = 1 .. Len(Sources) + 1
  BY Sizes
<1>2. Owned(Table(ip), Dead, used) /\ used \in SUBSET (0 .. FSSIZE - 1)
  BY DEF KernelInv, DataTyped
<1>3. \A k \in Inum, l \in 0..MAXFILE : Table(ip)[k][l] = Cell(ip[k], l) /\ (l \in Dead[k] <=> Truncating(k, l))
  BY Tables
<1>4. \A r \in Places : r[1] \in Inum /\ r[2] \in 0..MAXFILE /\ r = <<r[1], r[2]>>
        /\ Cell(ip[r[1]], r[2]) # 0 /\ ~Truncating(r[1], r[2]) /\ BlockAt(r) = Cell(ip[r[1]], r[2])
  BY DEF Places, BlockAt
<1>5. ASSUME NEW r \in Places PROVE BlockAt(r) \in used /\ BlockAt(r) >= nmeta
  <2>1. PICK i \in Inum, j \in 0..MAXFILE : i = r[1] /\ j = r[2] /\ Cell(ip[i], j) # 0 /\ ~Truncating(i, j) /\ BlockAt(r) = Cell(ip[i], j)
    BY <1>4
  <2> QED
    BY <2>1, PlaceUsed
<1>6. ASSUME NEW b \in used, ~(b < nmeta) PROVE \E r \in Places : b = BlockAt(r)
  <2>1. PICK i \in Inum, j \in 0..MAXFILE : j \notin Dead[i] /\ Table(ip)[i][j] = b
    BY <1>2, <1>6 DEF Owned
  <2>2. Cell(ip[i], j) = b /\ ~Truncating(i, j) /\ b # 0
    BY <1>1, <1>3, <1>6, <2>1
  <2>3. <<i, j>> \in Places /\ BlockAt(<<i, j>>) = b
    BY <2>2 DEF Places, BlockAt
  <2> QED
    BY <2>3
<1>7. used = (0 .. nmeta - 1) \cup owned
  <2>1. ASSUME NEW b \in used PROVE b \in (0 .. nmeta - 1) \cup owned
    <3>1. b \in Nat
      BY <1>2
    <3>2. CASE b < nmeta
      BY <1>1, <3>1, <3>2
    <3>3. CASE ~(b < nmeta)
      BY <1>6, <3>3
    <3> QED
      BY <3>2, <3>3
  <2>2. \A b \in 0 .. nmeta - 1 : b \in used
    BY <1>2 DEF Owned
  <2>3. \A b \in owned : b \in used
    BY <1>5
  <2> QED
    BY <2>1, <2>2, <2>3
<1>8. owned \cap (0 .. nmeta - 1) = {}
  <2> SUFFICES ASSUME NEW r \in Places, BlockAt(r) \in 0 .. nmeta - 1 PROVE FALSE
    OBVIOUS
  <2> QED
    BY <1>1, <1>5
<1>9. IsFiniteSet(Places)
  <2>1. IsFiniteSet(Inum) /\ IsFiniteSet(0..MAXFILE)
    BY <1>1, FS_Interval
  <2>2. IsFiniteSet(Inum \X (0..MAXFILE))
    BY <2>1, FS_Product
  <2>3. Places \in SUBSET (Inum \X (0..MAXFILE))
    BY DEF Places
  <2> QED
    BY <2>2, <2>3, FS_Subset
<1>10. Cardinality(owned) = Cardinality(Places)
  <2>1. PICK f : f = [r \in Places |-> BlockAt(r)]
    OBVIOUS
  <2>2. f \in [Places -> owned] /\ \A r \in Places : f[r] = BlockAt(r)
    BY <2>1
  <2>3. ASSUME NEW r \in Places, NEW s \in Places, f[r] = f[s] PROVE r = s
    <3>1. PICK i \in Inum, j \in 0..MAXFILE : i = r[1] /\ j = r[2] /\ r = <<i, j>> /\ Cell(ip[i], j) # 0 /\ ~Truncating(i, j) /\ BlockAt(r) = Cell(ip[i], j)
      BY <1>4
    <3>2. PICK k \in Inum, l \in 0..MAXFILE : k = s[1] /\ l = s[2] /\ s = <<k, l>> /\ Cell(ip[k], l) # 0 /\ ~Truncating(k, l) /\ BlockAt(s) = Cell(ip[k], l)
      BY <1>4
    <3>3. Table(ip)[i][j] # 0 /\ j \notin Dead[i] /\ l \notin Dead[k] /\ Table(ip)[i][j] = Table(ip)[k][l]
      BY <1>3, <2>2, <2>3, <3>1, <3>2
    <3>4. i = k /\ j = l
      BY <1>2, <3>3 DEF Owned
    <3> QED
      BY <3>1, <3>2, <3>4
  <2>4. f \in Injection(Places, owned)
    BY <2>2, <2>3 DEF Injection, IsInjective
  <2>5. f \in Surjection(Places, owned)
    BY <2>2 DEF Surjection
  <2> QED
    BY <1>9, <2>4, <2>5, FS_Surjection
<1> QED
  BY <1>7, <1>8, <1>9, <1>10

(* The bitmap is exact: a block is marked if and only if it is metadata or     *)
(* exactly one place of one file, past which no truncation is, names it.       *)
THEOREM BlocksAccountedThm == FilesSpec /\ []ImageFits => []BlocksAccounted
<1>1. DataInv => BlocksAccounted
  BY PlacesCounted DEF DataInv, BlocksAccounted
<1> QED
  BY <1>1, FileDataInvariant, PTL
-----------------------------------------------------------------------------
(***************************************************************************)
(* The blocks a transaction logs                                           *)
(***************************************************************************)

\* The rounds of writei's loop that the chunk of p has done.
Rounds(p) ==
  IF call[p].tot = 0 THEN 0
  ELSE ((Position(p) - 1) \div BSIZE - off[call[p].f] \div BSIZE) + 1

\* The indirect block, and the block of this round.
Ind(p) == ip[Ino(p)].addrs[NDIRECT]
Cur(p) == Mapped(ip[Ino(p)], Bn(p))

\* A chunk that starts inside a block does not allocate it: one block less.
Started(p) == IF call[p].tot # 0 /\ off[call[p].f] % BSIZE # 0 THEN 1 ELSE 0

\* The indirect block and its bitmap block; the block of this round and its own.
IndCost(p) == IF Ind(p) # 0 /\ Ind(p) \in call[p].dirty THEN 2 ELSE 0
CurCost(p) == IF call[p].tot < call[p].n1 /\ Cur(p) # 0 /\ Cur(p) \in call[p].dirty THEN 2 ELSE 0

\* Two blocks for each round and two for the indirect block.  A block allocated
\* in this round is counted ahead, with its bitmap block.
Logged(p) == call[p].op = "copy" =>
  /\ IsFiniteSet(call[p].dirty)
  /\ call[p].tot = 0 /\ off[call[p].f] % BSIZE # 0 => call[p].dirty = {}
  /\ Cardinality(call[p].dirty) + Started(p) <= (2 * Rounds(p) + IndCost(p)) + CurCost(p)

DirtyInv == \A p \in Proc : Logged(p)

\* The costs are numbers.
LEMMA Costs ==
  ASSUME NEW p
  PROVE  /\ Started(p) \in {0, 1} /\ IndCost(p) \in {0, 2} /\ CurCost(p) \in {0, 2}
         /\ (Started(p) = 1 <=> call[p].tot # 0 /\ off[call[p].f] % BSIZE # 0)
         /\ (IndCost(p) = 2 <=> Ind(p) # 0 /\ Ind(p) \in call[p].dirty)
         /\ (CurCost(p) = 2 <=> call[p].tot < call[p].n1 /\ Cur(p) # 0 /\ Cur(p) \in call[p].dirty)
BY DEF Started, IndCost, CurCost

\* And after the step.
LEMMA CostsNext ==
  ASSUME NEW p
  PROVE  /\ Started(p)' \in {0, 1} /\ IndCost(p)' \in {0, 2} /\ CurCost(p)' \in {0, 2}
         /\ (Started(p)' = 1 <=> call'[p].tot # 0 /\ off'[call'[p].f] % BSIZE # 0)
         /\ (IndCost(p)' = 2 <=> Ind(p)' # 0 /\ Ind(p)' \in call'[p].dirty)
         /\ (CurCost(p)' = 2 <=> call'[p].tot < call'[p].n1 /\ Cur(p)' # 0 /\ Cur(p)' \in call'[p].dirty)
BY DEF Started, IndCost, CurCost

\* The rounds before this one.
LEMMA RoundNow ==
  ASSUME DataTyped, KernelInv, NEW p \in Proc, InChunk(p)
  PROVE  /\ off[call[p].f] \div BSIZE \in Nat /\ off[call[p].f] \div BSIZE <= Bn(p)
         /\ Rounds(p) = Bn(p) - off[call[p].f] \div BSIZE /\ Rounds(p) \in Nat
<1>1. /\ Moves(p) /\ call[p].tot \in Nat /\ call[p].n1 \in Nat /\ off[call[p].f] \in Nat /\ Position(p) \in Nat
      /\ Position(p) = off[call[p].f] + call[p].tot /\ Bn(p) \in Nat /\ Bn(p) = Position(p) \div BSIZE
      /\ call[p].tot < call[p].n1
  BY Round, Mover DEF InChunk
<1>2. BSIZE \in Nat \ {0}
  BY Sizes
<1>3. PICK o, k, x, d : o = off[call[p].f] /\ k = o \div BSIZE /\ x = Position(p) /\ d = Bn(p)
  OBVIOUS
<1>4. o \in Nat /\ k \in Nat /\ x \in Nat /\ d \in Nat /\ d = x \div BSIZE
  BY <1>1, <1>2, <1>3, DivMod
<1>5. k * BSIZE <= o /\ d * BSIZE <= x /\ x < (d + 1) * BSIZE /\ x = d * BSIZE + (x % BSIZE) /\ x % BSIZE \in Nat
  <2>1. o = BSIZE * (o \div BSIZE) + (o % BSIZE) /\ o % BSIZE \in Nat
    BY <1>2, <1>4, DivMod
  <2>2. x = BSIZE * d + (x % BSIZE) /\ x % BSIZE \in Nat /\ x % BSIZE < BSIZE
    BY <1>2, <1>4, DivMod
  <2>3. k * BSIZE <= o
    BY <1>2, <1>3, <1>4, <2>1
  <2>4. d * BSIZE <= x /\ x < (d + 1) * BSIZE /\ x = d * BSIZE + (x % BSIZE)
    BY <1>2, <1>4, <2>2
  <2> QED
    BY <2>2, <2>3, <2>4
<1>6. k <= d
  <2>1. k * BSIZE < (d + 1) * BSIZE
    <3>1. k * BSIZE \in Nat /\ (d + 1) * BSIZE \in Nat
      BY <1>2, <1>4
    <3>2. o <= x
      BY <1>1, <1>3
    <3> QED
      BY <1>4, <1>5, <3>1, <3>2
  <2>2. k < d + 1
    <3>1. d + 1 \in Nat
      BY <1>4
    <3> QED
      BY <1>2, <1>4, <2>1, <3>1, MulLess
  <2> QED
    BY <1>4, <2>2
<1>7. CASE call[p].tot = 0
  <2>1. x = o /\ d = k
    BY <1>1, <1>3, <1>4, <1>7
  <2>2. Rounds(p) = 0
    BY <1>7 DEF Rounds
  <2> QED
    BY <1>3, <1>4, <2>1, <2>2
<1>8. CASE call[p].tot # 0
  <2>1. x % BSIZE = 0
    BY <1>1, <1>3, <1>8 DEF KernelInv, ProcInv, Chunk
  <2>2. x >= 1
    BY <1>1, <1>3, <1>8
  <2>3. x = d * BSIZE
    <3>1. d * BSIZE \in Nat
      BY <1>2, <1>4
    <3> QED
      BY <1>5, <2>1, <3>1
  <2>4. d >= 1
    BY <1>2, <1>4, <2>2, <2>3
  <2>5. PICK e : e = d - 1
    OBVIOUS
  <2>6. e \in Nat /\ d = e + 1
    BY <1>4, <2>4, <2>5
  <2>7. e * BSIZE <= x - 1 /\ x - 1 < (e + 1) * BSIZE /\ x - 1 \in Nat
    BY <1>2, <1>4, <2>2, <2>3, <2>6
  <2>8. (x - 1) \div BSIZE = e
    <3>1. PICK y : y = x - 1
      OBVIOUS
    <3>2. y \in Nat /\ e * BSIZE <= y /\ y < (e + 1) * BSIZE
      BY <2>7, <3>1
    <3>3. y \div BSIZE = e
      BY <1>2, <2>6, <3>2, DivBounds
    <3> QED
      BY <3>1, <3>3
  <2>9. Rounds(p) = (e - k) + 1
    BY <1>3, <1>8, <2>8 DEF Rounds
  <2> QED
    BY <1>3, <1>4, <1>6, <2>6, <2>9
<1> QED
  BY <1>7, <1>8

\* The other writers.
LEMMA OthersLogged ==
  ASSUME DataTyped, KernelInv, NEW p \in Proc, NEW i, Touches(p, i), NEW q \in Proc, q # p, Logged(q)
  PROVE  Logged(q)'
<1>1. call'[q] = call[q]
  BY DEF Touches
<1> SUFFICES ASSUME call[q].op = "copy" PROVE Logged(q)'
  BY <1>1 DEF Logged
<1>2. Moves(q)
  BY DEF Moves
<1>3. Ino(q) \in Inum /\ call[q].f \in File /\ IpOf[call[q].f] = Ino(q) /\ Ino(q) # i
  BY <1>2, Mover, OtherProcs
<1>4. ip'[Ino(q)] = ip[Ino(q)] /\ off'[call[q].f] = off[call[q].f]
  BY <1>3 DEF Touches
<1>5. \A bn : Mapped(ip[Ino(q)], bn)' = Mapped(ip[Ino(q)], bn)
  <2>1. PICK k \in Inum : k = Ino(q)
    BY <1>3
  <2>2. Ino(q)' = Ino(q)
    BY <1>1 DEF Ino
  <2>3. \A bn : Mapped(ip[k], bn)' = Mapped(ip[k], bn)
    BY <1>3, <2>1, OtherCells
  <2> QED
    BY <2>1, <2>2, <2>3 DEF Mapped
<1>6. Ino(q)' = Ino(q) /\ Position(q)' = Position(q) /\ Bn(q)' = Bn(q)
  BY <1>1, <1>4 DEF Ino, Position, Bn
<1>7. Ind(q)' = Ind(q) /\ Cur(q)' = Cur(q)
  BY <1>4, <1>5, <1>6 DEF Ind, Cur
<1>8. Rounds(q)' = Rounds(q) /\ Started(q)' = Started(q)
  BY <1>1, <1>4, <1>6 DEF Rounds, Started
<1>9. IndCost(q)' = IndCost(q) /\ CurCost(q)' = CurCost(q)
  BY <1>1, <1>7 DEF IndCost, CurCost
<1> QED
  BY <1>1, <1>4, <1>8, <1>9 DEF Logged
-----------------------------------------------------------------------------
\* One block more.
LEMMA OneMore ==
  ASSUME NEW S, IsFiniteSet(S), NEW x
  PROVE  /\ Cardinality(S) \in Nat /\ IsFiniteSet(S \cup {x}) /\ Cardinality(S \cup {x}) \in Nat
         /\ Cardinality(S \cup {x}) <= Cardinality(S) + 1
         /\ x \in S => Cardinality(S \cup {x}) = Cardinality(S)
<1>1. Cardinality(S) \in Nat
  BY FS_CardinalityType
<1>2. IsFiniteSet(S \cup {x}) /\ Cardinality(S \cup {x}) = IF x \in S THEN Cardinality(S) ELSE Cardinality(S) + 1
  BY FS_AddElement
<1> QED
  BY <1>1, <1>2

\* writei() starts with nothing logged.
LEMMA WriteChunkLogged ==
  ASSUME DataTyped, NEW p \in Proc, WriteChunk(p)
  PROVE  Logged(p)'
<1>1. PICK c, n1 : c = call[p] /\ n1 = Min({c.n - c.done, max})
  OBVIOUS
<1>2. CASE call' = [call EXCEPT ![p] = Idle]
  <2>1. call'[p].op = "idle"
    BY <1>2, IdleCall DEF DataTyped
  <2> QED
    BY <2>1 DEF Logged
<1>3. CASE call' = [call EXCEPT ![p] = [op |-> "copy", f |-> c.f, n |-> c.n, done |-> c.done,
                                            n1 |-> n1, tot |-> 0, dirty |-> {}]]
  <2>1. call'[p].tot = 0 /\ call'[p].dirty = {}
    BY <1>3 DEF DataTyped
  <2>2. Rounds(p)' = 0 /\ Started(p)' = 0 /\ IndCost(p)' = 0 /\ CurCost(p)' = 0
    BY <2>1 DEF Rounds, Started, IndCost, CurCost
  <2>3. IsFiniteSet({}) /\ Cardinality({}) = 0
    BY FS_EmptySet
  <2> QED
    BY <2>1, <2>2, <2>3 DEF Logged
<1> QED
  BY <1>1, <1>2, <1>3 DEF WriteChunk

\* A round logs its block.
LEMMA WriteBlockLogged ==
  ASSUME DataTyped, KernelInv, NEW p \in Proc, Logged(p), WriteBlock(p)
  PROVE  Logged(p)'
<1>1. PICK b : b = Cur(p)
  OBVIOUS
<1>2. /\ InChunk(p) /\ call[p].op = "copy" /\ b # 0 /\ ip' = ip /\ off' = off
      /\ call' = [call EXCEPT ![p].tot = @ + Span(p), ![p].dirty = @ \cup {b}]
  BY <1>1 DEF WriteBlock, Cur
<1>3. /\ call'[p].tot = call[p].tot + Span(p) /\ call'[p].dirty = call[p].dirty \cup {b}
      /\ call'[p].f = call[p].f /\ call'[p].n1 = call[p].n1 /\ call'[p].op = "copy"
  <2>1. call[p] \in CopyCall
    BY <1>2, Shapes DEF DataTyped
  <2>2. PICK c \in CopyCall : c = call[p]
    BY <2>1
  <2>3. call'[p] = [c EXCEPT !.tot = c.tot + Span(p), !.dirty = c.dirty \cup {b}]
    BY <1>2, <2>2 DEF DataTyped
  <2>4. PICK t, D : t = c.tot + Span(p) /\ D = c.dirty \cup {b}
    OBVIOUS
  <2>5. PICK e : e = call'[p]
    OBVIOUS
  <2>6. e = [c EXCEPT !.tot = t, !.dirty = D]
    BY <2>3, <2>4, <2>5
  <2>7. e.tot = t /\ e.dirty = D /\ e.f = c.f /\ e.n1 = c.n1 /\ e.op = c.op
    BY <2>6 DEF CopyCall
  <2> QED
    BY <1>2, <2>2, <2>4, <2>5, <2>7
<1>4. /\ Moves(p) /\ Bn(p) * BSIZE <= Position(p) /\ Bn(p) * BSIZE \in Nat /\ Span(p) \in Nat /\ Span(p) >= 1
      /\ Position(p) + Span(p) <= (Bn(p) + 1) * BSIZE /\ Bn(p) \in Nat /\ Position(p) \in Nat
      /\ Position(p) = off[call[p].f] + call[p].tot /\ off[call[p].f] \in Nat /\ call[p].tot \in Nat
      /\ call[p].n1 \in Nat
  BY <1>2, Round, Mover
<1>5. /\ off[call[p].f] \div BSIZE \in Nat /\ Rounds(p) = Bn(p) - off[call[p].f] \div BSIZE /\ Rounds(p) \in Nat
  BY <1>2, RoundNow
<1>6. Position(p)' = Position(p) + Span(p) /\ Ino(p)' = Ino(p) /\ call'[p].tot # 0
  BY <1>2, <1>3, <1>4 DEF Position, Ino
<1>7. Rounds(p)' = Rounds(p) + 1
  <2>1. PICK y, d : y = Position(p) + Span(p) - 1 /\ d = Bn(p)
    OBVIOUS
  <2>2. BSIZE \in Nat \ {0}
    BY Sizes
  <2>3. y \in Nat /\ d \in Nat
    BY <1>4, <2>1
  <2>4. d * BSIZE <= y
    BY <1>4, <2>1
  <2>5. y < (d + 1) * BSIZE
    <3>1. (d + 1) * BSIZE \in Nat
      BY <2>2, <2>3
    <3> QED
      BY <1>4, <2>1, <3>1
  <2>6. y \div BSIZE = d
    BY <2>2, <2>3, <2>4, <2>5, DivBounds
  <2>7. Rounds(p)' = (y \div BSIZE - off[call[p].f] \div BSIZE) + 1
    <3>1. Rounds(p)' = IF call'[p].tot = 0 THEN 0
                       ELSE ((Position(p)' - 1) \div BSIZE - off'[call'[p].f] \div BSIZE) + 1
      BY DEF Rounds
    <3>2. Position(p)' - 1 = y
      <4>1. Position(p)' = Position(p) + Span(p)
        BY <1>6
      <4> QED
        BY <1>4, <2>1, <4>1
    <3>3. off'[call'[p].f] = off[call[p].f]
      BY <1>2, <1>3
    <3> QED
      BY <1>6, <3>1, <3>2, <3>3
  <2> QED
    BY <1>4, <1>5, <2>1, <2>6, <2>7
<1>8. Ind(p)' = Ind(p)
  BY <1>2, <1>6 DEF Ind
<1>9. /\ IsFiniteSet(call[p].dirty) /\ (call[p].tot = 0 /\ off[call[p].f] % BSIZE # 0 => call[p].dirty = {})
      /\ Cardinality(call[p].dirty) + Started(p) <= (2 * Rounds(p) + IndCost(p)) + CurCost(p)
  BY <1>2 DEF Logged
<1>10. PICK m, m1 : m = Cardinality(call[p].dirty) /\ m1 = Cardinality(call[p].dirty \cup {b})
  OBVIOUS
<1>11. m \in Nat /\ m1 \in Nat /\ m1 <= m + 1 /\ (b \in call[p].dirty => m1 = m) /\ IsFiniteSet(call[p].dirty \cup {b})
  BY <1>9, <1>10, OneMore
<1>12. PICK s, s1, i, i1, c, c1, r : /\ s = Started(p) /\ s1 = Started(p)' /\ i = IndCost(p) /\ i1 = IndCost(p)'
                                     /\ c = CurCost(p) /\ c1 = CurCost(p)' /\ r = Rounds(p)
  OBVIOUS
<1>13. s \in {0, 1} /\ s1 \in {0, 1} /\ i \in {0, 2} /\ i1 \in {0, 2} /\ c \in {0, 2} /\ c1 \in {0, 2}
  BY <1>12, Costs, CostsNext
<1>14. i <= i1
  <2>1. i = 2 => i1 = 2
    BY <1>3, <1>8, <1>12, Costs, CostsNext
  <2> QED
    BY <1>13, <2>1
<1>15. c = 2 <=> b \in call[p].dirty
  <2>1. call[p].tot < call[p].n1
    BY <1>2 DEF InChunk
  <2> QED
    BY <1>1, <1>2, <1>12, <2>1, Costs
<1>16. s1 = 1 /\ s = 0 => call[p].dirty = {}
  <2>1. s1 = 1 => off[call[p].f] % BSIZE # 0
    BY <1>2, <1>3, <1>12, CostsNext
  <2>2. s = 0 /\ off[call[p].f] % BSIZE # 0 => call[p].tot = 0
    BY <1>12 DEF Started
  <2> QED
    BY <1>9, <2>1, <2>2
<1>17. m1 + s1 <= (2 * (r + 1) + i1) + c1
  <2>0. m + s <= (2 * r + i) + c /\ r \in Nat
    BY <1>5, <1>9, <1>10, <1>12
  <2>1. CASE b \in call[p].dirty
    <3>1. m1 = m /\ ~(s1 = 1 /\ s = 0)
      BY <1>11, <1>16, <2>1
    <3> QED
      BY <1>11, <1>13, <1>14, <2>0, <3>1
  <2>2. CASE b \notin call[p].dirty
    <3>1. c = 0
      BY <1>13, <1>15, <2>2
    <3> QED
      BY <1>11, <1>13, <1>14, <2>0, <3>1
  <2> QED
    BY <2>1, <2>2
<1>18. Cardinality(call'[p].dirty) + Started(p)' <= (2 * Rounds(p)' + IndCost(p)') + CurCost(p)'
  BY <1>3, <1>7, <1>10, <1>12, <1>17
<1> QED
  BY <1>3, <1>6, <1>11, <1>18 DEF Logged
-----------------------------------------------------------------------------
\* bmap() logs the block it gives out, its bit in the bitmap, and the indirect
\* block that names it.
LEMMA BmapLogged ==
  ASSUME DataTyped, KernelInv, NEW p \in Proc, Logged(p), Bmap(p)
  PROVE  Logged(p)'
<1>a. PICK i : i = Ino(p)
  OBVIOUS
<1>b. PICK ind : ind = ip[i].addrs[NDIRECT]
  OBVIOUS
<1>c. PICK bn : bn = Bn(p)
  OBVIOUS
<1>0. InChunk(p) /\ Mapped(ip[i], bn) = 0 /\ off' = off
  BY <1>a, <1>c DEF Bmap, mkfsVars
<1>d. PICK b \in Free :
        /\ \/ /\ bn < NDIRECT
              /\ ip' = [ip EXCEPT ![i].addrs[bn] = b]
           \/ /\ bn >= NDIRECT /\ ind = 0
              /\ ip' = [ip EXCEPT ![i].addrs[NDIRECT] = b]
           \/ /\ bn >= NDIRECT /\ ind # 0
              /\ disk' = [disk EXCEPT ![b] = bzero(b), ![ind][bn - NDIRECT] = b]
              /\ ip' = ip
        /\ call' = [call EXCEPT ![p].dirty = @ \cup {BBLOCK(b), b} \cup {x \in {ind} : bn >= NDIRECT /\ ind # 0}]
  BY <1>a, <1>b, <1>c DEF Bmap, balloc
<1>1. /\ b \in Nat /\ b \in 0 .. FSSIZE - 1 /\ b \notin used
  BY Sizes DEF Free
<1>2. Moves(p) /\ i \in Inum /\ bn \in 0 .. MAXFILE - 1 /\ call[p].op = "copy"
  BY <1>0, <1>a, <1>c, Round, Mover, BmapGrows
<1>3. NDIRECT \in Nat /\ MAXFILE \in Nat /\ BSIZE \in Nat \ {0} /\ MAXFILE = NDIRECT + BSIZE /\ Cells = 0 .. BSIZE - 1
  BY Sizes
<1>4. ip[i] \in INode /\ ip[i].addrs \in [0..NDIRECT -> Nat] /\ ind \in Nat
  BY <1>2, <1>3, <1>b DEF DataTyped, INode
<1>5. b # 0
  BY <1>1, Sizes DEF KernelInv, Owned
<1>6. PICK D : D = call[p].dirty \cup {BBLOCK(b), b} \cup {x \in {ind} : bn >= NDIRECT /\ ind # 0}
  OBVIOUS
<1>7. /\ call'[p].dirty = D /\ call'[p].op = "copy" /\ call'[p].f = call[p].f /\ call'[p].n1 = call[p].n1
      /\ call'[p].tot = call[p].tot
  <2>1. call[p] \in CopyCall
    BY <1>2, Shapes DEF DataTyped
  <2>2. call' = [call EXCEPT ![p] = [call[p] EXCEPT !.dirty = D]]
    BY <1>6, <1>d
  <2>3. call'[p] = [call[p] EXCEPT !.dirty = D]
    BY <2>2 DEF DataTyped
  <2> QED
    BY <1>2, <2>1, <2>3 DEF CopyCall
<1>8. Position(p)' = Position(p) /\ Ino(p)' = i /\ Bn(p)' = bn
  <2>1. Position(p)' = Position(p) /\ Ino(p)' = i
    BY <1>0, <1>7, <1>a DEF Position, Ino
  <2> QED
    BY <1>c, <2>1 DEF Bn
<1>9. Rounds(p)' = Rounds(p) /\ Started(p)' = Started(p)
  BY <1>0, <1>7, <1>8 DEF Rounds, Started
<1>10. Ind(p) = ind /\ Cur(p) = 0 /\ CurCost(p) = 0
  <2>1. Ind(p) = ind /\ Cur(p) = 0
    BY <1>0, <1>a, <1>b, <1>c DEF Ind, Cur
  <2> QED
    BY <2>1 DEF CurCost
<1>11. /\ IsFiniteSet(call[p].dirty)
       /\ Cardinality(call[p].dirty) + Started(p) <= (2 * Rounds(p) + IndCost(p)) + 0
  BY <1>2, <1>10 DEF Logged
<1>12. PICK m, m1 : m = Cardinality(call[p].dirty) /\ m1 = Cardinality(D)
  OBVIOUS
<1>13. /\ IsFiniteSet(D) /\ m \in Nat /\ m1 \in Nat
       /\ (bn < NDIRECT \/ ind = 0 \/ ind \in call[p].dirty => m1 <= m + 2) /\ m1 <= m + 3
  <2>1. PICK A, B, C : A = call[p].dirty \cup {BBLOCK(b)} /\ B = A \cup {b} /\ C = B \cup {ind}
    OBVIOUS
  <2>2. IsFiniteSet(A) /\ Cardinality(A) \in Nat /\ m \in Nat /\ Cardinality(A) <= m + 1
    BY <1>11, <1>12, <2>1, OneMore
  <2>3. IsFiniteSet(B) /\ Cardinality(B) \in Nat /\ Cardinality(B) <= m + 2
    BY <2>1, <2>2, OneMore
  <2>4. /\ IsFiniteSet(C) /\ Cardinality(C) \in Nat /\ Cardinality(C) <= m + 3
        /\ (ind \in call[p].dirty => Cardinality(C) = Cardinality(B))
    BY <2>1, <2>2, <2>3, OneMore
  <2>5. CASE bn >= NDIRECT /\ ind # 0
    <3>1. D = C
      BY <1>6, <2>1, <2>5
    <3>2. ~(bn < NDIRECT)
      BY <1>2, <1>3, <2>5
    <3> QED
      BY <1>12, <2>2, <2>3, <2>4, <2>5, <3>1, <3>2
  <2>6. CASE ~(bn >= NDIRECT /\ ind # 0)
    <3>1. D = B
      BY <1>6, <2>1, <2>6
    <3> QED
      BY <1>12, <2>2, <2>3, <3>1
  <2> QED
    BY <2>5, <2>6
<1>14. PICK s, k, k1, c1, r : s = Started(p) /\ k = IndCost(p) /\ k1 = IndCost(p)' /\ c1 = CurCost(p)' /\ r = Rounds(p)
  OBVIOUS
<1>15. s \in {0, 1} /\ k \in {0, 2} /\ k1 \in {0, 2} /\ c1 \in {0, 2} /\ r \in Nat /\ m + s <= (2 * r + k) + 0
  BY <1>0, <1>11, <1>12, <1>14, Costs, CostsNext, RoundNow
<1>16. call[p].tot < call[p].n1 /\ b \in D
  BY <1>0, <1>6 DEF InChunk
<1>17. m1 + s <= (2 * r + k1) + c1
  <2>1. CASE bn < NDIRECT /\ ip' = [ip EXCEPT ![i].addrs[bn] = b]
    <3>1. ip'[i].addrs = [ip[i].addrs EXCEPT ![bn] = b]
      BY <1>2, <1>4, <2>1 DEF DataTyped, INode
    <3>2. bn \in 0..NDIRECT /\ bn # NDIRECT /\ NDIRECT \in 0..NDIRECT
      BY <1>2, <1>3, <2>1
    <3>3. ip'[i].addrs[bn] = b /\ ip'[i].addrs[NDIRECT] = ind
      BY <1>4, <1>b, <3>1, <3>2
    <3>4. Cur(p)' = b /\ Ind(p)' = ind
      BY <1>8, <2>1, <3>3 DEF Cur, Ind, Mapped
    <3>5. c1 = 2
      BY <1>5, <1>7, <1>14, <1>16, <3>4, CostsNext
    <3>6. k = 2 => k1 = 2
      <4> SUFFICES ASSUME k = 2 PROVE k1 = 2
        OBVIOUS
      <4>1. ind # 0 /\ ind \in call[p].dirty
        BY <1>10, <1>14, Costs
      <4>2. Ind(p)' # 0 /\ Ind(p)' \in call'[p].dirty
        BY <1>6, <1>7, <3>4, <4>1
      <4> QED
        BY <1>14, <4>2, CostsNext
    <3> QED
      BY <1>13, <1>15, <2>1, <3>5, <3>6
  <2>2. CASE bn >= NDIRECT /\ ind = 0 /\ ip' = [ip EXCEPT ![i].addrs[NDIRECT] = b]
    <3>1. ip'[i].addrs = [ip[i].addrs EXCEPT ![NDIRECT] = b]
      BY <1>2, <1>4, <2>2 DEF DataTyped, INode
    <3>2. ip'[i].addrs[NDIRECT] = b
      BY <1>3, <1>4, <3>1
    <3>3. Ind(p)' = b
      BY <1>8, <3>2 DEF Ind
    <3>4. k1 = 2
      BY <1>5, <1>7, <1>14, <1>16, <3>3, CostsNext
    <3>5. k = 0
      BY <1>10, <1>14, <2>2 DEF IndCost
    <3> QED
      BY <1>13, <1>15, <2>2, <3>4, <3>5
  <2>3. CASE /\ bn >= NDIRECT /\ ind # 0 /\ ip' = ip
             /\ disk' = [disk EXCEPT ![b] = bzero(b), ![ind][bn - NDIRECT] = b]
    <3>1. bn - NDIRECT \in Cells /\ ind \in 0 .. FSSIZE - 1 /\ ind # b /\ ~(bn < NDIRECT)
      <4>1. ind \in used /\ ind \in 0 .. FSSIZE - 1
        BY <1>2, <1>b, <2>3, IndUsed
      <4> QED
        BY <1>1, <1>2, <1>3, <2>3, <4>1
    <3>2. PICK d1 : d1 = [disk EXCEPT ![b] = bzero(b)]
      OBVIOUS
    <3>3. d1[ind] = disk[ind] /\ DOMAIN d1 = 0 .. FSSIZE - 1 /\ disk[ind] \in [Cells -> Nat]
      BY <1>1, <3>1, <3>2 DEF DataTyped
    <3>4. disk' = [d1 EXCEPT ![ind] = [d1[ind] EXCEPT ![bn - NDIRECT] = b]]
      BY <2>3, <3>2
    <3>5. disk'[ind] = [disk[ind] EXCEPT ![bn - NDIRECT] = b]
      BY <3>1, <3>3, <3>4
    <3>6. disk'[ind][bn - NDIRECT] = b
      BY <3>1, <3>3, <3>5
    <3>7. Cur(p)' = b /\ Ind(p)' = ind
      BY <1>8, <1>b, <2>3, <3>1, <3>6 DEF Cur, Ind, Mapped
    <3>8. c1 = 2
      BY <1>5, <1>7, <1>14, <1>16, <3>7, CostsNext
    <3>9. k1 = 2
      <4>1. ind \in D
        BY <1>6, <2>3
      <4> QED
        BY <1>7, <1>14, <2>3, <3>7, <4>1, CostsNext
    <3>10. ind \notin call[p].dirty => k = 0
      BY <1>10, <1>14 DEF IndCost
    <3> QED
      BY <1>13, <1>15, <3>8, <3>9, <3>10
  <2> QED
    BY <1>d, <2>1, <2>2, <2>3
<1>18. Cardinality(call'[p].dirty) + Started(p)' <= (2 * Rounds(p)' + IndCost(p)') + CurCost(p)'
  BY <1>7, <1>9, <1>12, <1>14, <1>17
<1>19. call'[p].tot = 0 => off'[call'[p].f] % BSIZE = 0
  <2> SUFFICES ASSUME call[p].tot = 0, off[call[p].f] % BSIZE # 0 PROVE FALSE
    BY <1>0, <1>7
  <2>1. /\ ip[i].size <= bn * BSIZE /\ off[call[p].f] <= ip[i].size /\ ip[i].size \in Nat
        /\ off[call[p].f] \in Nat /\ Position(p) = off[call[p].f] + call[p].tot
        /\ Position(p) = bn * BSIZE + (Position(p) % BSIZE) /\ bn * BSIZE \in Nat /\ Position(p) % BSIZE \in Nat
    <3>1. call[p].f \in File /\ IpOf[call[p].f] = i
      BY <1>2, <1>a, Mover
    <3>2. off[call[p].f] <= ip[i].size
      BY <3>1 DEF KernelInv, OffInv
    <3>3. ip[i].size \in Nat
      BY <1>4 DEF INode
    <3> QED
      BY <1>0, <1>2, <1>a, <1>c, <3>2, <3>3, Round, Mover, BmapGrows
  <2>2. Position(p) = off[call[p].f]
    BY <2>1
  <2> QED
    BY <2>1, <2>2
<1> QED
  BY <1>7, <1>13, <1>18, <1>19 DEF Logged
-----------------------------------------------------------------------------
\* Every step of a process.
LEMMA LoggedNext ==
  ASSUME DataTyped, KernelInv, mk = 0, DirtyInv, NEW p \in Proc, ProcStep(p)
  PROVE  DirtyInv'
<1>1. Kept(p)
  BY ProcStepInv
<1>2. PICK i : Touches(p, i)
  BY <1>1 DEF Kept
<1>3. \A q \in Proc : q # p => Logged(q)'
  BY <1>2, OthersLogged DEF DirtyInv
<1>4. call \in [Proc -> Calls] /\ Logged(p)
  BY DEF DataTyped, DirtyInv
<1>5. Logged(p)'
  <2>1. ASSUME call'[p].op # "copy" PROVE Logged(p)'
    BY <2>1 DEF Logged
  <2>2. CASE \E f \in Writable, n \in Lengths : SysWrite(p, f, n)
    BY <1>4, <2>1, <2>2 DEF SysWrite
  <2>3. CASE \E f \in Readable, n \in Lengths : SysRead(p, f, n)
    BY <1>4, <2>1, <2>3 DEF SysRead
  <2>4. CASE WriteChunk(p)
    BY <2>4, WriteChunkLogged
  <2>5. CASE Bmap(p)
    BY <1>4, <2>5, BmapLogged
  <2>6. CASE WriteBlock(p)
    BY <1>4, <2>6, WriteBlockLogged
  <2>7. CASE ReadBlock(p)
    <3>1. call' = [call EXCEPT ![p] = [call[p] EXCEPT !.tot = @ + Span(p)]] /\ call[p].op = "read"
      BY <2>7 DEF ReadBlock
    <3>2. call[p] \in ReadCall
      BY <1>4, <3>1, Shapes
    <3>3. call'[p] = [call[p] EXCEPT !.tot = @ + Span(p)]
      BY <1>4, <3>1
    <3>4. call'[p].op = "read"
      BY <3>1, <3>2, <3>3 DEF ReadCall
    <3> QED
      BY <2>1, <3>4
  <2>8. CASE WriteEnd(p)
    <3>1. PICK c : c = call[p]
      OBVIOUS
    <3>2. call'[p] = IF c.done + c.n1 < c.n
                     THEN [op |-> "write", f |-> c.f, n |-> c.n, done |-> c.done + c.n1] ELSE Idle
      BY <1>4, <2>8, <3>1 DEF WriteEnd
    <3>3. call'[p].op = "write" \/ call'[p].op = "idle"
      BY <3>2, IdleCall
    <3> QED
      BY <2>1, <3>3
  <2>9. CASE ReadEnd(p)
    BY <1>4, <2>1, <2>9, IdleCall DEF ReadEnd
  <2>10. CASE \E k \in Removable : Trunc(p, k)
    BY <1>4, <2>1, <2>10 DEF Trunc
  <2>11. CASE TruncFree(p)
    <3>1. call[p].op = "trunc" /\ call' = [call EXCEPT ![p] = [call[p] EXCEPT !.j = Min(ToFree(p)) + 1]]
      BY <2>11 DEF TruncFree
    <3>2. call[p] \in TruncCall
      BY <1>4, <3>1, Shapes
    <3>3. call'[p] = [call[p] EXCEPT !.j = Min(ToFree(p)) + 1]
      BY <1>4, <3>1
    <3>4. call'[p].op = "trunc"
      BY <3>1, <3>2, <3>3 DEF TruncCall
    <3> QED
      BY <2>1, <3>4
  <2>12. CASE TruncEnd(p)
    BY <1>4, <2>1, <2>12, IdleCall DEF TruncEnd
  <2> QED
    BY <2>2, <2>3, <2>4, <2>5, <2>6, <2>7, <2>8, <2>9, <2>10, <2>11, <2>12 DEF ProcStep
<1> QED
  BY <1>3, <1>5 DEF DirtyInv

\* Every step.
LEMMA DirtyNext ==
  ASSUME DataInv, DirtyInv, DataInv', [FilesNext]_filesVars
  PROVE  DirtyInv'
<1>1. CASE UNCHANGED filesVars
  <2>1. call' = call /\ off' = off /\ ip' = ip /\ disk' = disk
    BY <1>1 DEF filesVars
  <2> SUFFICES ASSUME NEW p \in Proc PROVE Logged(p)'
    BY DEF DirtyInv
  <2>2. Ino(p)' = Ino(p) /\ Position(p)' = Position(p) /\ Bn(p)' = Bn(p)
    BY <2>1 DEF Ino, Position, Bn
  <2>3. Ind(p)' = Ind(p) /\ Cur(p)' = Cur(p)
    BY <2>1, <2>2 DEF Ind, Cur, Mapped
  <2>4. Rounds(p)' = Rounds(p) /\ Started(p)' = Started(p) /\ IndCost(p)' = IndCost(p) /\ CurCost(p)' = CurCost(p)
    BY <2>1, <2>2, <2>3 DEF Rounds, Started, IndCost, CurCost
  <2> QED
    BY <2>1, <2>4 DEF DirtyInv, Logged
<1>2. CASE mk # 0 /\ (MkEntry \/ MkContents \/ Boot)
  <2>1. call' = call
    BY <1>2 DEF MkEntry, MkContents, Boot
  <2>2. \A p \in Proc : call[p].op = "idle"
    BY <1>2, IdleCall DEF DataInv, MkInv, MkProgress
  <2> QED
    BY <2>1, <2>2 DEF DirtyInv, Logged
<1>3. CASE mk = 0 /\ \E p \in Proc : ProcStep(p)
  BY <1>3, LoggedNext DEF DataInv
<1> QED
  BY <1>1, <1>2, <1>3, Phases
-----------------------------------------------------------------------------
\* A chunk of at most K blocks' length reaches into K + 1 blocks, and into K if
\* it starts at the beginning of one.
LEMMA LastBlock ==
  ASSUME NEW o \in Nat, NEW n1 \in Nat, NEW e \in Nat, NEW K \in Nat, e * BSIZE < o + n1, n1 <= K * BSIZE
  PROVE  /\ (e - o \div BSIZE) + 1 <= K + 1
         /\ o % BSIZE = 0 => (e - o \div BSIZE) + 1 <= K
<1>1. BSIZE \in Nat \ {0}
  BY Sizes
<1>2. PICK k, a : k = o \div BSIZE /\ a = o % BSIZE
  OBVIOUS
<1>3. k \in Nat /\ a \in Nat /\ a < BSIZE /\ o = BSIZE * k + a
  BY <1>1, <1>2, DivMod
<1>4. e * BSIZE \in Nat /\ K * BSIZE \in Nat /\ BSIZE * k \in Nat
  BY <1>1, <1>3
<1>5. e * BSIZE < BSIZE * k + a + K * BSIZE
  BY <1>3, <1>4
<1>6. e < (k + K) + 1
  <2>1. ((k + K) + 1) * BSIZE = BSIZE * k + K * BSIZE + BSIZE
    BY <1>1, <1>3
  <2>2. e * BSIZE < ((k + K) + 1) * BSIZE
    BY <1>1, <1>3, <1>4, <1>5, <2>1
  <2>3. PICK t : t = (k + K) + 1
    OBVIOUS
  <2>4. t \in Nat /\ e * BSIZE < t * BSIZE
    BY <1>3, <2>2, <2>3
  <2> QED
    BY <1>1, <2>3, <2>4, MulLess
<1>7. a = 0 => e < k + K
  <2> SUFFICES ASSUME a = 0 PROVE e < k + K
    OBVIOUS
  <2>1. (k + K) * BSIZE = BSIZE * k + K * BSIZE
    BY <1>1, <1>3
  <2>2. e * BSIZE < (k + K) * BSIZE
    BY <1>1, <1>3, <1>4, <1>5, <2>1
  <2>3. PICK t : t = k + K
    OBVIOUS
  <2>4. t \in Nat /\ e * BSIZE < t * BSIZE
    BY <1>3, <2>2, <2>3
  <2> QED
    BY <1>1, <2>3, <2>4, MulLess
<1> QED
  BY <1>2, <1>3, <1>6, <1>7

\* What filewrite() keeps free of MAXOPBLOCKS is enough.
LEMMA ChunkFits ==
  ASSUME DataTyped, KernelInv, NEW p \in Proc, call[p].op = "copy", Logged(p)
  PROVE  Cardinality(call[p].dirty \cup {IBLOCK(Ino(p))}) <= MAXOPBLOCKS
<1>1. PICK K : K = (MAXOPBLOCKS - 1 - 1 - 2) \div 2
  OBVIOUS
<1>2. K \in Nat /\ 2 * K + 4 <= MAXOPBLOCKS /\ max = K * BSIZE /\ MAXOPBLOCKS \in Nat
  <2>1. MAXOPBLOCKS \in Nat /\ MAXOPBLOCKS >= 6
    BY CallAssumption
  <2>2. MAXOPBLOCKS - 1 - 1 - 2 \in Nat
    BY <2>1
  <2>3. PICK a \in Nat : a = MAXOPBLOCKS - 1 - 1 - 2
    BY <2>2
  <2>4. K \in Nat /\ a % 2 \in Nat /\ a = 2 * K + (a % 2)
    BY <1>1, <2>3, DivMod
  <2>5. max = K * BSIZE
    BY <1>1 DEF max
  <2> QED
    BY <2>1, <2>3, <2>4, <2>5
<1>3. Moves(p)
  BY DEF Moves
<1>4. PICK o, n1, x : o = off[call[p].f] /\ n1 = call[p].n1 /\ x = Position(p)
  OBVIOUS
<1>5. o \in Nat /\ n1 \in Nat /\ call[p].tot \in Nat /\ x \in Nat /\ x = o + call[p].tot
  BY <1>3, <1>4, Mover
<1>6. n1 >= 1 /\ call[p].tot <= n1 /\ n1 <= K * BSIZE
  BY <1>2, <1>3, <1>4 DEF KernelInv, ProcInv, Chunk
<1>7. PICK m, s, i, c : m = Cardinality(call[p].dirty) /\ s = Started(p) /\ i = IndCost(p) /\ c = CurCost(p)
  OBVIOUS
<1>8. /\ IsFiniteSet(call[p].dirty) /\ (call[p].tot = 0 /\ o % BSIZE # 0 => call[p].dirty = {})
      /\ m + s <= (2 * Rounds(p) + i) + c
  BY <1>4, <1>7 DEF Logged
<1>9. m \in Nat /\ Cardinality(call[p].dirty \cup {IBLOCK(Ino(p))}) <= m + 1
       /\ Cardinality(call[p].dirty \cup {IBLOCK(Ino(p))}) \in Nat
  BY <1>7, <1>8, OneMore
<1>10. s \in {0, 1} /\ i \in {0, 2} /\ c \in {0, 2} /\ (s = 1 <=> call[p].tot # 0 /\ o % BSIZE # 0)
  BY <1>4, <1>7, Costs
<1>11. CASE call[p].tot = 0 /\ o % BSIZE # 0
  <2>1. m = 0
    BY <1>7, <1>8, <1>11, FS_EmptySet
  <2> QED
    BY <1>2, <1>9, <2>1
<1>12. CASE ~(call[p].tot = 0 /\ o % BSIZE # 0)
  <2>0. o \div BSIZE \in Nat /\ BSIZE \in Nat \ {0}
    BY <1>5, Sizes, DivMod
  <2>1. \E e \in Nat : e * BSIZE < o + n1 /\ m + s <= 2 * ((e - o \div BSIZE) + 1) + 2
    <3>1. CASE call[p].tot < n1
      <4>1. InChunk(p)
        BY <1>4, <3>1 DEF InChunk
      <4>2. Bn(p) \in Nat /\ Bn(p) * BSIZE <= x /\ Bn(p) * BSIZE \in Nat
        BY <1>3, <1>4, <4>1, Round, Mover
      <4>3. Rounds(p) = Bn(p) - o \div BSIZE
        BY <1>4, <4>1, RoundNow
      <4>4. Bn(p) * BSIZE < o + n1
        BY <1>5, <3>1, <4>2
      <4>5. m + s <= 2 * ((Bn(p) - o \div BSIZE) + 1) + 2
        BY <1>8, <1>9, <1>10, <2>0, <4>2, <4>3
      <4> QED
        BY <4>2, <4>4, <4>5
    <3>2. CASE call[p].tot = n1
      <4>1. x - 1 \in Nat
        BY <1>5, <1>6, <3>2
      <4>2. PICK y : y = x - 1
        OBVIOUS
      <4>3. PICK e : e = y \div BSIZE
        OBVIOUS
      <4>4. y \in Nat /\ e \in Nat /\ y = BSIZE * e + (y % BSIZE) /\ y % BSIZE \in Nat
        BY <2>0, <4>1, <4>2, <4>3, DivMod
      <4>5. e * BSIZE <= y /\ e * BSIZE \in Nat
        BY <2>0, <4>4
      <4>6. e * BSIZE < o + n1
        BY <1>5, <3>2, <4>2, <4>4, <4>5
      <4>7. Rounds(p) = (e - o \div BSIZE) + 1
        BY <1>4, <1>6, <3>2, <4>2, <4>3 DEF Rounds
      <4>8. c = 0
        BY <1>4, <1>5, <1>7, <3>2 DEF CurCost
      <4>9. m + s <= 2 * ((e - o \div BSIZE) + 1) + 2
        BY <1>8, <1>9, <1>10, <2>0, <4>4, <4>7, <4>8
      <4> QED
        BY <4>4, <4>6, <4>9
    <3> QED
      BY <1>5, <1>6, <3>1, <3>2
  <2>2. PICK e \in Nat : e * BSIZE < o + n1 /\ m + s <= 2 * ((e - o \div BSIZE) + 1) + 2
    BY <2>1
  <2>3. PICK R : R = (e - o \div BSIZE) + 1
    OBVIOUS
  <2>4. R \in Int /\ R <= K + 1 /\ (o % BSIZE = 0 => R <= K) /\ m + s <= 2 * R + 2
    <3>1. (e - o \div BSIZE) + 1 <= K + 1 /\ (o % BSIZE = 0 => (e - o \div BSIZE) + 1 <= K)
      BY <1>2, <1>5, <1>6, <2>2, LastBlock
    <3> QED
      BY <2>0, <2>2, <2>3, <3>1
  <2>5. CASE o % BSIZE = 0
    BY <1>2, <1>9, <1>10, <2>4, <2>5
  <2>6. CASE o % BSIZE # 0
    <3>1. s = 1
      BY <1>10, <1>12, <2>6
    <3> QED
      BY <1>2, <1>9, <2>4, <3>1
  <2> QED
    BY <2>5, <2>6
<1> QED
  BY <1>11, <1>12

-----------------------------------------------------------------------------
(***************************************************************************)
(* Room for the image                                                      *)
(***************************************************************************)

\* The places of all inodes.
AllPlaces == Inum \X (0..MAXFILE)

\* The places of the inodes mkfs has written that name a block.
Named == {r \in AllPlaces : Cell(dip[r[1]], r[2]) # 0}

\* The places there are.
LEMMA PlacesInAll ==
  IsFiniteSet(AllPlaces) /\ Cardinality(AllPlaces) = (Len(Sources) + 1) * (MAXFILE + 1)
<1>1. MAXFILE \in Nat /\ Len(Sources) \in Nat /\ Inum = 1 .. Len(Sources) + 1
  BY Sizes
<1>2. IsFiniteSet(Inum) /\ Cardinality(Inum) = Len(Sources) + 1
  <2>1. 1 \in Int /\ Len(Sources) + 1 \in Int
    BY <1>1
  <2>2. /\ IsFiniteSet(1 .. Len(Sources) + 1)
        /\ Cardinality(1 .. Len(Sources) + 1) = IF 1 > Len(Sources) + 1 THEN 0 ELSE (Len(Sources) + 1) - 1 + 1
    BY <2>1, FS_Interval
  <2> QED
    BY <1>1, <2>2
<1>3. IsFiniteSet(0..MAXFILE) /\ Cardinality(0..MAXFILE) = MAXFILE + 1
  <2>1. 0 \in Int /\ MAXFILE \in Int
    BY <1>1
  <2>2. IsFiniteSet(0..MAXFILE) /\ Cardinality(0..MAXFILE) = IF 0 > MAXFILE THEN 0 ELSE MAXFILE - 0 + 1
    BY <2>1, FS_Interval
  <2> QED
    BY <1>1, <2>2
<1>4. IsFiniteSet(AllPlaces) /\ Cardinality(AllPlaces) = Cardinality(Inum) * Cardinality(0..MAXFILE)
  BY <1>2, <1>3, FS_Product DEF AllPlaces
<1> QED
  BY <1>2, <1>3, <1>4

\* mkfs takes a block for every place that names one, and for no other reason.
LEMMA NamedCount ==
  ASSUME DataTyped, MkBlocks
  PROVE  IsFiniteSet(Named) /\ Cardinality(Named) = freeblock - nmeta
<1>1. nmeta \in Nat \ {0} /\ freeblock \in Nat /\ nmeta <= freeblock
  BY Sizes DEF DataTyped, MkBlocks
<1>2. Owned(Table(dip), NoneDead, 0 .. freeblock - 1)
  BY DEF MkBlocks
<1>3. \A k \in Inum, l \in 0..MAXFILE : Table(dip)[k][l] = Cell(dip[k], l) /\ l \notin NoneDead[k]
  BY DEF Table, NoneDead
<1>4. \A r \in Named : /\ r[1] \in Inum /\ r[2] \in 0..MAXFILE /\ r = <<r[1], r[2]>>
                       /\ Cell(dip[r[1]], r[2]) # 0
  BY DEF Named, AllPlaces
<1>5. IsFiniteSet(Named)
  <2>1. Named \in SUBSET AllPlaces
    BY DEF Named
  <2> QED
    BY <2>1, PlacesInAll, FS_Subset
<1>6. PICK f : f = [r \in Named |-> Cell(dip[r[1]], r[2])]
  OBVIOUS
<1>7. \A r \in Named : f[r] = Cell(dip[r[1]], r[2])
  BY <1>6
<1>8. f \in [Named -> nmeta .. freeblock - 1]
  <2>1. ASSUME NEW r \in Named PROVE f[r] \in nmeta .. freeblock - 1
    <3>1. PICK i \in Inum, j \in 0..MAXFILE : i = r[1] /\ j = r[2] /\ Cell(dip[i], j) # 0
      BY <1>4
    <3>2. Cell(dip[i], j) \in Nat /\ Cell(dip[i], j) < freeblock /\ Cell(dip[i], j) >= nmeta
      BY <3>1, MkCell
    <3>3. f[r] = Cell(dip[i], j)
      BY <1>7, <3>1
    <3> QED
      BY <1>1, <3>2, <3>3
  <2> QED
    BY <1>6, <2>1
<1>9. ASSUME NEW r \in Named, NEW s \in Named, f[r] = f[s] PROVE r = s
  <2>1. PICK i \in Inum, j \in 0..MAXFILE : i = r[1] /\ j = r[2] /\ r = <<i, j>> /\ Cell(dip[i], j) # 0 /\ f[r] = Cell(dip[i], j)
    BY <1>4, <1>7
  <2>2. PICK k \in Inum, l \in 0..MAXFILE : k = s[1] /\ l = s[2] /\ s = <<k, l>> /\ f[s] = Cell(dip[k], l)
    BY <1>4, <1>7
  <2>3. Table(dip)[i][j] # 0 /\ j \notin NoneDead[i] /\ l \notin NoneDead[k] /\ Table(dip)[i][j] = Table(dip)[k][l]
    BY <1>3, <1>9, <2>1, <2>2
  <2>4. i = k /\ j = l
    BY <1>2, <2>3 DEF Owned
  <2> QED
    BY <2>1, <2>2, <2>4
<1>10. ASSUME NEW b \in nmeta .. freeblock - 1 PROVE \E r \in Named : f[r] = b
  <2>1. b \in 0 .. freeblock - 1 /\ ~(b < nmeta) /\ b # 0
    BY <1>1
  <2>2. PICK i \in Inum, j \in 0..MAXFILE : Table(dip)[i][j] = b
    BY <1>2, <2>1 DEF Owned
  <2>3. <<i, j>> \in Named /\ f[<<i, j>>] = b
    BY <1>3, <1>7, <2>1, <2>2 DEF Named, AllPlaces
  <2> QED
    BY <2>3
<1>11. f \in Surjection(Named, nmeta .. freeblock - 1)
  BY <1>8, <1>10 DEF Surjection
<1>12. f \in Injection(Named, nmeta .. freeblock - 1)
  BY <1>8, <1>9 DEF Injection, IsInjective
<1>13. Cardinality(nmeta .. freeblock - 1) = Cardinality(Named)
  BY <1>5, <1>11, <1>12, FS_Surjection
<1>14. Cardinality(nmeta .. freeblock - 1) = freeblock - nmeta
  <2>1. nmeta \in Int /\ freeblock - 1 \in Int
    BY <1>1
  <2>2. Cardinality(nmeta .. freeblock - 1) = IF nmeta > freeblock - 1 THEN 0 ELSE (freeblock - 1) - nmeta + 1
    BY <2>1, FS_Interval
  <2> QED
    BY <1>1, <2>2
<1> QED
  BY <1>5, <1>13, <1>14

\* An append takes a block only for a place that names none.
LEMMA AppendFits ==
  ASSUME RoomForAll, DataTyped, MkBlocks, ImageFits, NEW i \in Inum, NEW data, iappend(i, data)
  PROVE  ImageFits'
<1>1. PICK fbn, ind : fbn = dip[i].size \div BSIZE /\ ind = dip[i].addrs[NDIRECT]
  OBVIOUS
<1>2. /\ fbn < MAXFILE
      /\ freeblock' = freeblock + (IF fbn >= NDIRECT /\ ind = 0 THEN 1 ELSE 0)
                                + (IF Mapped(dip[i], fbn) = 0 THEN 1 ELSE 0)
  BY <1>1 DEF iappend, rinode
<1>3. /\ NDIRECT \in Nat /\ MAXFILE \in Nat /\ BSIZE \in Nat \ {0} /\ nmeta \in Nat /\ FSSIZE \in Nat
      /\ freeblock \in Nat /\ freeblock <= FSSIZE /\ Len(Sources) \in Nat /\ nmeta <= freeblock
  BY Sizes DEF DataTyped, ImageFits, MkBlocks
<1>4. dip[i].size \in Nat
  <2>1. dip[i] \in INode
    BY DEF DataTyped
  <2> QED
    BY <2>1 DEF INode
<1>5. fbn \in Nat /\ fbn \in 0..MAXFILE /\ MAXFILE \in 0..MAXFILE /\ fbn # MAXFILE
  <2>1. fbn \in Nat
    BY <1>1, <1>3, <1>4, DivMod
  <2> QED
    BY <1>2, <1>3, <2>1
<1>6. PICK a, b : a = <<i, fbn>> /\ b = <<i, MAXFILE>>
  OBVIOUS
<1>7. a \in AllPlaces /\ b \in AllPlaces /\ a # b
  BY <1>5, <1>6 DEF AllPlaces
<1>8. (a \in Named <=> Mapped(dip[i], fbn) # 0) /\ (b \in Named <=> ind # 0)
  <2>1. Cell(dip[i], fbn) = Mapped(dip[i], fbn) /\ Cell(dip[i], MAXFILE) = ind
    BY <1>1, <1>2, <1>3, <1>5 DEF Cell
  <2>2. a[1] = i /\ a[2] = fbn /\ b[1] = i /\ b[2] = MAXFILE
    BY <1>6
  <2> QED
    BY <1>7, <2>1, <2>2 DEF Named
<1>9. PICK t, u : t = (Len(Sources) + 1) * (MAXFILE + 1) /\ u = Cardinality(Named)
  OBVIOUS
<1>10. t \in Nat /\ u \in Nat /\ u = freeblock - nmeta /\ nmeta + t <= FSSIZE
  <2>1. t \in Nat
    BY <1>3, <1>9
  <2>2. u = freeblock - nmeta
    BY <1>9, NamedCount
  <2>3. nmeta + t <= FSSIZE
    BY <1>9 DEF RoomForAll
  <2> QED
    BY <1>3, <2>1, <2>2, <2>3
<1>11. \A S \in SUBSET AllPlaces : Cardinality(S) <= t
  BY <1>9, PlacesInAll, FS_Subset
<1>12. IsFiniteSet(Named) /\ Named \in SUBSET AllPlaces
  BY NamedCount DEF Named
<1>13. CASE Mapped(dip[i], fbn) # 0
  <2>1. ~(fbn >= NDIRECT /\ ind = 0)
    BY <1>1, <1>2, <1>5, <1>13, CellCases
  <2>2. freeblock' = freeblock + 0 + 0
    BY <1>2, <1>13, <2>1
  <2> QED
    BY <1>3, <2>2 DEF ImageFits
<1>14. CASE Mapped(dip[i], fbn) = 0
  <2>1. PICK S : S = Named \cup {a}
    OBVIOUS
  <2>2. S \in SUBSET AllPlaces /\ IsFiniteSet(S) /\ Cardinality(S) = u + 1
    BY <1>7, <1>8, <1>9, <1>12, <1>14, <2>1, FS_AddElement
  <2>3. CASE ~(fbn >= NDIRECT /\ ind = 0)
    <3>1. freeblock' = freeblock + 0 + 1
      BY <1>2, <1>14, <2>3
    <3>2. u + 1 <= t
      BY <1>11, <2>2
    <3> QED
      BY <1>3, <1>10, <3>1, <3>2 DEF ImageFits
  <2>4. CASE fbn >= NDIRECT /\ ind = 0
    <3>1. freeblock' = freeblock + 1 + 1
      BY <1>2, <1>14, <2>4
    <3>2. b \notin S
      BY <1>7, <1>8, <2>1, <2>4
    <3>3. S \cup {b} \in SUBSET AllPlaces /\ Cardinality(S \cup {b}) = (u + 1) + 1
      BY <1>7, <2>2, <3>2, FS_AddElement
    <3>4. (u + 1) + 1 <= t
      BY <1>11, <3>3
    <3> QED
      BY <1>3, <1>10, <3>1, <3>4 DEF ImageFits
  <2> QED
    BY <2>3, <2>4
<1> QED
  BY <1>13, <1>14

\* The image of mkfs fits where every file fits at its largest.
LEMMA ImageHasRoom ==
  ASSUME RoomForAll
  PROVE  FilesSpec => [](DataInv /\ ImageFits)
<1>1. FilesInit => DataInv /\ ImageFits
  <2> SUFFICES ASSUME FilesInit PROVE DataInv /\ ImageFits
    OBVIOUS
  <2>1. DataInv
    BY FilesInitInv DEF DataInv
  <2>2. PICK t : t = (Len(Sources) + 1) * (MAXFILE + 1)
    OBVIOUS
  <2>3. t \in Nat /\ nmeta \in Nat /\ FSSIZE \in Nat /\ nmeta + t <= FSSIZE
    BY <2>2, Sizes DEF RoomForAll
  <2>4. freeblock = nmeta
    BY DEF FilesInit
  <2> QED
    BY <2>1, <2>3, <2>4 DEF ImageFits
<1>2. (DataInv /\ ImageFits) /\ [FilesNext]_filesVars => (DataInv /\ ImageFits)'
  <2> SUFFICES ASSUME DataInv, ImageFits, [FilesNext]_filesVars PROVE DataInv' /\ ImageFits'
    OBVIOUS
  <2>1. ImageFits'
    <3>1. CASE freeblock' = freeblock
      BY <3>1 DEF ImageFits
    <3>2. CASE MkEntry \/ MkContents
      <4>1. mk # 0 /\ mk \in Nat
        BY <3>2 DEF MkEntry, MkContents, DataInv, DataTyped
      <4>2. DataTyped /\ MkBlocks
        BY <4>1 DEF DataInv, MkInv
      <4>3. PICK i \in Inum : \E data : iappend(i, data)
        <5>1. CASE MkEntry
          BY <5>1, Sizes DEF MkEntry
        <5>2. CASE MkContents
          <6>1. mk - 2 \in Inum
            <7>1. mk \in 1 .. Len(Sources) + 3 /\ mk > 3 /\ Len(Sources) \in Nat /\ Inum = 1 .. Len(Sources) + 1
              BY <4>1, <5>2, Sizes DEF DataInv, MkInv, MkProgress, MkContents, Copied
            <7> QED
              BY <7>1
          <6> QED
            BY <5>2, <6>1 DEF MkContents
        <5> QED
          BY <3>2, <5>1, <5>2
      <4> QED
        BY <4>2, <4>3, AppendFits
    <3>3. CASE Boot
      BY <3>3 DEF Boot, ImageFits
    <3>4. CASE \E p \in Proc : ProcStep(p)
      <4>1. PICK p \in Proc : ProcStep(p)
        BY <3>4
      <4>2. CASE \/ \E f \in Writable, n \in Lengths : SysWrite(p, f, n)
                 \/ \E f \in Readable, n \in Lengths : SysRead(p, f, n)
                 \/ \E i \in Removable : Trunc(p, i)
        BY <3>1, <4>2 DEF SysWrite, SysRead, Trunc, mkfsVars
      <4>3. CASE WriteChunk(p) \/ Bmap(p)
        BY <3>1, <4>3 DEF WriteChunk, Bmap, mkfsVars
      <4>4. CASE WriteBlock(p) \/ ReadBlock(p)
        BY <3>1, <4>4 DEF WriteBlock, ReadBlock, mkfsVars
      <4>5. CASE WriteEnd(p) \/ ReadEnd(p)
        BY <3>1, <4>5 DEF WriteEnd, ReadEnd, mkfsVars
      <4>6. CASE TruncFree(p) \/ TruncEnd(p)
        BY <3>1, <4>6 DEF TruncFree, TruncEnd, mkfsVars
      <4> QED
        BY <4>1, <4>2, <4>3, <4>4, <4>5, <4>6 DEF ProcStep
    <3>5. CASE UNCHANGED filesVars
      BY <3>5 DEF filesVars, ImageFits
    <3> QED
      BY <3>2, <3>3, <3>4, <3>5, Phases
  <2> QED
    BY <2>1, DataNext
<1> QED
  BY <1>1, <1>2, PTL DEF FilesSpec

-----------------------------------------------------------------------------
\* While a place names no block, one block is free.
LEMMA RoomLeft ==
  ASSUME RoomForAll, DataTyped, KernelInv, NEW i \in Inum, NEW j \in 0..MAXFILE, Cell(ip[i], j) = 0
  PROVE  Free # {}
<1> SUFFICES ASSUME Free = {} PROVE FALSE
  OBVIOUS
<1> DEFINE owned == {BlockAt(r) : r \in Places}
           all == Inum \X (0..MAXFILE)
<1>1. /\ MAXFILE \in Nat /\ nmeta \in Nat \ {0} /\ FSSIZE \in Nat /\ Len(Sources) \in Nat /\ Inum = 1 .. Len(Sources) + 1
  BY Sizes
<1>2. /\ used = (0 .. nmeta - 1) \cup owned /\ owned \cap (0 .. nmeta - 1) = {}
      /\ Cardinality(owned) = Cardinality(Places) /\ IsFiniteSet(Places)
  BY PlacesCounted
<1>3. used = 0 .. FSSIZE - 1
  BY DEF Free, DataTyped
<1>4. Cardinality(0 .. FSSIZE - 1) = FSSIZE /\ IsFiniteSet(0 .. FSSIZE - 1)
  <2>1. 0 \in Int /\ FSSIZE - 1 \in Int
    BY <1>1
  <2>2. /\ IsFiniteSet(0 .. FSSIZE - 1)
        /\ Cardinality(0 .. FSSIZE - 1) = IF 0 > FSSIZE - 1 THEN 0 ELSE (FSSIZE - 1) - 0 + 1
    BY <2>1, FS_Interval
  <2> QED
    BY <1>1, <2>2
<1>5. Cardinality(0 .. nmeta - 1) = nmeta /\ IsFiniteSet(0 .. nmeta - 1)
  <2>1. 0 \in Int /\ nmeta - 1 \in Int
    BY <1>1
  <2>2. /\ IsFiniteSet(0 .. nmeta - 1)
        /\ Cardinality(0 .. nmeta - 1) = IF 0 > nmeta - 1 THEN 0 ELSE (nmeta - 1) - 0 + 1
    BY <2>1, FS_Interval
  <2> QED
    BY <1>1, <2>2
<1>6. IsFiniteSet(owned)
  <2>1. owned \in SUBSET (0 .. FSSIZE - 1)
    BY <1>2, <1>3
  <2> QED
    BY <1>4, <2>1, FS_Subset
<1>7. Cardinality(used) = nmeta + Cardinality(Places)
  <2>1. PICK A, B : A = 0 .. nmeta - 1 /\ B = owned
    OBVIOUS
  <2>2. A \cap B = {}
    BY <1>2, <2>1
  <2>3. Cardinality(A \cup B) = Cardinality(A) + Cardinality(B) - Cardinality(A \cap B)
    <3>1. IsFiniteSet(A)
      BY <1>5, <2>1
    <3>2. IsFiniteSet(B)
      BY <1>6, <2>1
    <3> HIDE DEF owned, all
    <3> QED
      BY <3>1, <3>2, FS_Union
  <2>4. Cardinality(A \cap B) = 0
    BY <2>2, FS_EmptySet
  <2>5. Cardinality(Places) \in Nat
    BY <1>2, FS_CardinalityType
  <2>6. Cardinality(A) = nmeta /\ Cardinality(B) = Cardinality(Places) /\ used = A \cup B
    BY <1>2, <1>5, <2>1
  <2> QED
    BY <1>1, <2>3, <2>4, <2>5, <2>6
<1>8. IsFiniteSet(all) /\ Cardinality(all) = (Len(Sources) + 1) * (MAXFILE + 1)
  BY PlacesInAll DEF AllPlaces
<1>9. Places \in SUBSET all /\ Places # all
  <2>1. <<i, j>> \in all /\ <<i, j>> \notin Places
    BY DEF Places
  <2> QED
    BY <2>1 DEF Places
<1>10. Cardinality(Places) < Cardinality(all)
  <2>1. PICK A : A = all
    OBVIOUS
  <2>2. Cardinality(Places) <= Cardinality(A) /\ (Cardinality(A) = Cardinality(Places) => A = Places)
    BY <1>8, <1>9, <2>1, FS_Subset
  <2>3. Cardinality(Places) \in Nat /\ Cardinality(A) \in Nat
    BY <1>2, <1>8, <2>1, FS_CardinalityType
  <2> QED
    BY <1>9, <2>1, <2>2, <2>3
<1>11. PICK t, u : t = (Len(Sources) + 1) * (MAXFILE + 1) /\ u = Cardinality(Places)
  OBVIOUS
<1>12. t \in Nat /\ u \in Nat /\ u < t /\ nmeta + u = FSSIZE /\ nmeta + t <= FSSIZE
  <2>1. t \in Nat /\ u \in Nat
    BY <1>1, <1>2, <1>11, FS_CardinalityType
  <2>2. u < t
    BY <1>8, <1>10, <1>11
  <2>3. nmeta + u = FSSIZE
    BY <1>3, <1>4, <1>7, <1>11
  <2>4. nmeta + t <= FSSIZE
    BY <1>11 DEF RoomForAll
  <2> QED
    BY <2>1, <2>2, <2>3, <2>4
<1> QED
  BY <1>1, <1>12

\* The invariants rule out the panics.
LEMMA PanicsRuledOut ==
  ASSUME RoomForAll, DataInv, DirtyInv
  PROVE  NoPanic
<1>1. DataTyped
  BY DEF DataInv
<1>2. CASE mk # 0
  <2>1. \A p \in Proc : call[p].op = "idle"
    BY <1>2, IdleCall DEF DataInv, MkInv, MkProgress
  <2> QED
    BY <2>1 DEF NoPanic, TransactionFits, InChunk
<1>3. CASE mk = 0
  <2>1. KernelInv
    BY <1>3 DEF DataInv
  <2>2. TransactionFits
    BY <1>1, <2>1, ChunkFits DEF TransactionFits, DirtyInv
  <2>3. ASSUME NEW p \in Proc, InChunk(p)
        PROVE  Bn(p) < MAXFILE /\ (Mapped(ip[Ino(p)], Bn(p)) = 0 => call[p].op = "copy" /\ Free # {})
    <3>1. Bn(p) \in 0 .. MAXFILE - 1 /\ Ino(p) \in Inum /\ MAXFILE \in Nat
      BY <1>1, <2>1, <2>3, Round, Mover, Sizes
    <3>2. Bn(p) \in 0..MAXFILE /\ Bn(p) < MAXFILE
      BY <3>1
    <3>3. ASSUME Mapped(ip[Ino(p)], Bn(p)) = 0 PROVE call[p].op = "copy" /\ Free # {}
      <4>1. Cell(ip[Ino(p)], Bn(p)) = 0
        BY <3>2, <3>3 DEF Cell
      <4>2. Free # {}
        BY <1>1, <2>1, <3>1, <3>2, <4>1, RoomLeft
      <4> QED
        BY <1>1, <2>1, <2>3, <3>3, <4>2, BmapGrows
    <3> QED
      BY <3>2, <3>3
  <2>4. ASSUME NEW p \in Proc, call[p].op = "trunc", ToFree(p) # {}
        PROVE  Cell(ip[call[p].i], Min(ToFree(p))) \in used
    <3>1. call[p].i \in Inum /\ call[p].j \in Nat /\ MAXFILE \in Nat
      BY <1>1, <2>4, Truncator, Sizes
    <3>2. PICK j : j = Min(ToFree(p))
      OBVIOUS
    <3>3. ToFree(p) \in SUBSET Nat
      BY <3>1 DEF ToFree
    <3>4. j \in ToFree(p)
      BY <2>4, <3>2, <3>3, MinMember
    <3>5. j \in 0..MAXFILE /\ j >= call[p].j /\ Cell(ip[call[p].i], j) # 0
      BY <3>1, <3>4 DEF ToFree
    <3>6. ~Truncating(call[p].i, j)
      <4>1. ~(j < call[p].j)
        BY <3>1, <3>5
      <4> QED
        BY <1>1, <2>1, <2>4, <4>1, DeadBelow
    <3> QED
      BY <1>1, <2>1, <3>1, <3>2, <3>5, <3>6, PlaceUsed
  <2> QED
    BY <2>2, <2>3, <2>4 DEF NoPanic
<1> QED
  BY <1>2, <1>3

(* No panic of bmap(), balloc(), bfree() and log_write(): a chunk of            *)
(* filewrite() logs at most what begin_op() reserved for it, readi() never has  *)
(* to allocate, and itrunc() frees only blocks that are in use.  balloc() does  *)
(* panic on a full disk, which the premise RoomForAll excludes.                 *)
THEOREM NoPanicThm == ASSUME RoomForAll PROVE FilesSpec => []NoPanic
<1>1. FilesInit => DirtyInv
  <2> SUFFICES ASSUME FilesInit PROVE DirtyInv
    OBVIOUS
  <2>1. \A p \in Proc : call[p].op = "idle"
    BY IdleCall DEF FilesInit
  <2> QED
    BY <2>1 DEF DirtyInv, Logged
<1>2. DataInv /\ DataInv' /\ DirtyInv /\ [FilesNext]_filesVars => DirtyInv'
  BY DirtyNext
<1>3. DataInv /\ DirtyInv => NoPanic
  BY PanicsRuledOut
<1>4. FilesSpec => [](DataInv /\ ImageFits)
  BY ImageHasRoom
<1> QED
  BY <1>1, <1>2, <1>3, <1>4, PTL DEF FilesSpec
=============================================================================
