------------------------------- MODULE FileData -------------------------------
(* The contents of files: mkfs.c, which lays out the disk and builds the first *)
(* image, and the part of fs.c and file.c that keeps bytes in blocks: balloc,  *)
(* bfree, bmap, itrunc, readi, writei, fileread and filewrite.                 *)
(*                                                                             *)
(* A block is BSIZE cells; a cell holds a byte or a block number, so that an   *)
(* indirect block has NINDIRECT = BSIZE entries.  The inode's sleep lock is    *)
(* held over one chunk of filewrite, one fileread and one itrunc; the lock of  *)
(* the bitmap's buffer makes balloc's search and its mark one step.  Between   *)
(* those steps the processes interleave.  Inode models the inode cache and the *)
(* references, Log the transactions, BufferCache the buffers.                  *)
EXTENDS OpenFile, Naturals, Sequences, FiniteSetsExt, SequencesExt

CONSTANTS
    BSIZE, NDIRECT,     \* fs.h
    FSSIZE,             \* blocks of the disk
    NINODES, IPB, NLOG, \* the layout mkfs is built with
    MAXOPBLOCKS,        \* blocks an operation may log
    UINT,               \* 2^32
    DIRENT,             \* cells of a directory entry
    Sources,            \* the lengths of the files given to mkfs: inode k + 1 is the k-th
    IpOf,               \* the inode each open file is open on
    Readable, Writable, \* the open files with f->readable and f->writable set
    Removable,          \* the inodes that may lose their last name
    Lengths             \* the lengths given to read and write

ROOTINO == 1
Inum == 1 .. Len(Sources) + 1
NINDIRECT == BSIZE
MAXFILE == NDIRECT + NINDIRECT
Cells == 0 .. BSIZE - 1
Zeroes == [c \in Cells |-> 0]

--------------------------------------------------------------------------------
(* The layout: boot block, super block, log, inodes, bitmap, data.             *)
nbitmap == FSSIZE \div (BSIZE * 8) + 1
ninodeblocks == NINODES \div IPB + 1
inodestart == 2 + NLOG
bmapstart == inodestart + ninodeblocks
nmeta == 2 + NLOG + ninodeblocks + nbitmap

IBLOCK(i) == i \div IPB + inodestart
BBLOCK(b) == b \div (BSIZE * 8) + bmapstart

\* The byte the sources and the callers' buffers hold at position k: a pattern
\* that no misplaced copy of up to three cells reproduces.
Byte(k) == (k % 3) + 10
Dirent == [k \in 1..DIRENT |-> 20]
Piece(from, n) == [k \in 1..n |-> Byte(from + k)]

(* The makefile's image: entries divide blocks (mkfs.c:85), the inodes and the *)
(* bitmap fit, and the entries of the root do not fill its last block, since   *)
(* mkfs.c:161 would then give it a block more than it has.                     *)
ASSUME LayoutAssumption ==
    /\ BSIZE \in Nat \ {0} /\ NDIRECT \in Nat /\ IPB \in Nat \ {0} /\ DIRENT \in Nat \ {0}
    /\ FSSIZE \in Nat /\ NINODES \in Nat /\ NLOG \in Nat /\ UINT \in Nat
    /\ Sources \in Seq(Nat)
    /\ BSIZE % DIRENT = 0
    /\ Len(Sources) + 1 < NINODES
    /\ (2 + Len(Sources)) * DIRENT % BSIZE # 0
    /\ MAXFILE * BSIZE < UINT

(* The callers: argint and argptr let no length through that an int cannot     *)
(* hold, and a call of length 0 does nothing.                                  *)
ASSUME CallAssumption ==
    /\ NoProc \notin Proc
    /\ IpOf \in [File -> Inum] /\ Readable \subseteq File /\ Writable \subseteq File
    /\ Removable \subseteq Inum
    /\ Lengths \subseteq 1 .. UINT - 1
    /\ MAXOPBLOCKS \in Nat /\ MAXOPBLOCKS >= 6

VARIABLES
    mk,         \* the entry of the root that mkfs makes next; 0 once the kernel runs
    freeblock,  \* mkfs's next free block
    used,       \* the bitmap
    disk,       \* the blocks, as the buffer cache and the log show them
    dip,        \* the inodes on disk
    ip,         \* the inodes in memory
    lock,       \* ip->lock
    off,        \* f->off
    call        \* the call of each process

mkfsVars == <<mk, freeblock>>
filesVars == <<mk, freeblock, used, disk, dip, ip, lock, off, call>>

NoInode == [size |-> 0, addrs |-> [k \in 0..NDIRECT |-> 0]]
Idle == [op |-> "idle"]

\* bmap's answer for block bn of inode n, 0 where none is allocated.
Mapped(n, bn) ==
    IF bn < NDIRECT THEN n.addrs[bn]
    ELSE IF n.addrs[NDIRECT] = 0 THEN 0
    ELSE disk[n.addrs[NDIRECT]][bn - NDIRECT]

--------------------------------------------------------------------------------
(* mkfs *)

FilesInit ==
    /\ mk = 1 /\ freeblock = nmeta
    /\ used = {}
    /\ disk = [b \in 0 .. FSSIZE - 1 |-> Zeroes]
    /\ dip = [i \in Inum |-> NoInode] /\ ip = dip
    /\ lock = [i \in Inum |-> NoProc]
    /\ off = [f \in File |-> 0]
    /\ call = [p \in Proc |-> Idle]

rinode(i) == dip[i]
winode(i, din) == dip' = [dip EXCEPT ![i] = din]

\* mkfs takes data blocks in the order it needs them: the indirect block first.
iappend(i, data) ==
    LET din == rinode(i)
        fbn == din.size \div BSIZE
        needsInd == fbn >= NDIRECT /\ din.addrs[NDIRECT] = 0
        ind == IF needsInd THEN freeblock ELSE din.addrs[NDIRECT]
        fresh == Mapped(din, fbn) = 0
        x == IF fresh THEN freeblock + (IF needsInd THEN 1 ELSE 0) ELSE Mapped(din, fbn)
        at == din.size % BSIZE
    IN  /\ fbn < MAXFILE
        /\ disk' = [b \in DOMAIN disk |->
              CASE b = x -> [c \in Cells |-> IF c \in at .. at + Len(data) - 1
                                             THEN data[c - at + 1] ELSE disk[b][c]]
                [] fbn >= NDIRECT /\ b = ind -> [disk[b] EXCEPT ![fbn - NDIRECT] = x]
                [] OTHER -> disk[b]]
        /\ winode(i, [size |-> din.size + Len(data),
                      addrs |-> IF fbn < NDIRECT THEN [din.addrs EXCEPT ![fbn] = x]
                                ELSE [din.addrs EXCEPT ![NDIRECT] = ind]])
        /\ freeblock' = freeblock + (IF needsInd THEN 1 ELSE 0) + (IF fresh THEN 1 ELSE 0)

\* The first two entries are "." and "..", and entry k + 2 is that of the k-th
\* file, whose contents follow it, a block at a time.  No append crosses the end
\* of a block, so that the loop of iappend runs once.
Copied == mk > 3 => dip[mk - 2].size = Sources[mk - 3]

MkEntry ==
    /\ mk \in 1 .. Len(Sources) + 2 /\ Copied
    /\ iappend(ROOTINO, Dirent)
    /\ mk' = mk + 1
    /\ UNCHANGED <<used, ip, lock, off, call>>

MkContents ==
    LET size == dip[mk - 2].size
    IN  /\ mk # 0 /\ ~Copied
        /\ iappend(mk - 2, Piece(size, Min({BSIZE, Sources[mk - 3] - size})))
        /\ UNCHANGED <<mk, used, ip, lock, off, call>>

\* Round the root up to whole blocks, and write the bitmap; the kernel boots and
\* reads the inodes it uses.
RootSize(size) == (size \div BSIZE + 1) * BSIZE

MkBitmap(n) == 0 .. n - 1

Boot ==
    /\ mk = Len(Sources) + 3 /\ Copied /\ freeblock < BSIZE * 8
    /\ winode(ROOTINO, [rinode(ROOTINO) EXCEPT !.size = RootSize(@)])
    /\ ip' = dip'
    /\ used' = MkBitmap(freeblock)
    /\ mk' = 0
    /\ UNCHANGED <<freeblock, disk, lock, off, call>>

--------------------------------------------------------------------------------
(* The kernel: one block at a time, under the inode's lock.                    *)

\* The largest chunk of filewrite.  Mutant: no room is kept for the inode, the
\* indirect block and blocks that are only partly written.
maxUnreserved == (MAXOPBLOCKS \div 2) * BSIZE

max == ((MAXOPBLOCKS - 1 - 1 - 2) \div 2) * BSIZE

Refused(o, n, size) == o > size \/ (o + n) % UINT < o
WriteRefused(o, n, size) == Refused(o, n, size) \/ (o + n) % UINT > MAXFILE * BSIZE

Ino(p) == IpOf[call[p].f]
Position(p) == off[call[p].f] + call[p].tot
Bn(p) == Position(p) \div BSIZE
InChunk(p) == call[p].op \in {"copy", "read"} /\ call[p].tot < call[p].n1
\* The cells of this round: to the end of the block.
Span(p) == Min({call[p].n1 - call[p].tot, BSIZE - (Position(p) % BSIZE)})

\* Mutant: the block numbers are not copied.
iupdateSize(i, n) == dip' = [dip EXCEPT ![i].size = n.size]

iupdate(i, n) == dip' = [dip EXCEPT ![i] = n]

SysWrite(p, f, n) ==
    /\ mk = 0 /\ call[p] = Idle
    /\ call' = [call EXCEPT ![p] = [op |-> "write", f |-> f, n |-> n, done |-> 0]]
    /\ UNCHANGED <<mkfsVars, used, disk, dip, ip, lock, off>>

\* The next round of filewrite's loop: begin_op (Log), ilock, writei's checks.
WriteChunk(p) ==
    LET c == call[p]
        i == Ino(p)
        n1 == Min({c.n - c.done, max})
    IN  /\ c.op = "write" /\ lock[i] = NoProc
        /\ \/ /\ WriteRefused(off[c.f], n1, ip[i].size)
              /\ call' = [call EXCEPT ![p] = Idle]
              /\ UNCHANGED lock
           \/ /\ ~WriteRefused(off[c.f], n1, ip[i].size)
              /\ lock' = [lock EXCEPT ![i] = p]
              /\ call' = [call EXCEPT ![p] = [op |-> "copy", f |-> c.f, n |-> c.n, done |-> c.done,
                                              n1 |-> n1, tot |-> 0, dirty |-> {}]]
        /\ UNCHANGED <<mkfsVars, used, disk, dip, ip, off>>

\* Mutant: a read is not cut short at the end of the file.
AvailableAll(o, n, size) == n

\* readi: what there is of the n bytes at o.
Available(o, n, size) == IF (o + n) % UINT > size THEN size - o ELSE n

\* fileread: ilock, and readi up to its loop.
SysRead(p, f, n) ==
    LET i == IpOf[f]
        n1 == Available(off[f], n, ip[i].size)
    IN  /\ mk = 0 /\ call[p] = Idle /\ lock[i] = NoProc
        /\ ~Refused(off[f], n, ip[i].size) /\ n1 > 0
        /\ lock' = [lock EXCEPT ![i] = p]
        /\ call' = [call EXCEPT ![p] = [op |-> "read", f |-> f, n1 |-> n1, tot |-> 0, dirty |-> {}]]
        /\ UNCHANGED <<mkfsVars, used, disk, dip, ip, off>>

\* The first free block, marked in use; it is zeroed before anyone else knows it.
Free == {b \in 0 .. FSSIZE - 1 : b \notin used}

\* Mutant: the block keeps what its last owner left in it.
bzeroNot(b) == disk[b]

bzero(b) == [c \in Cells |-> 0]

balloc(b) == b = Min(Free) /\ used' = used \cup {b}

\* bmap finds no block and allocates one: a direct block, the indirect block
\* (bmap then looks again), or a block the indirect block will name.
Bmap(p) ==
    LET i == Ino(p)
        ind == ip[i].addrs[NDIRECT]
    IN  /\ InChunk(p) /\ Bn(p) < MAXFILE /\ Mapped(ip[i], Bn(p)) = 0 /\ Free # {}
        /\ \E b \in Free :
              /\ balloc(b)
              /\ \/ /\ Bn(p) < NDIRECT
                    /\ ip' = [ip EXCEPT ![i].addrs[Bn(p)] = b]
                    /\ disk' = [disk EXCEPT ![b] = bzero(b)]
                 \/ /\ Bn(p) >= NDIRECT /\ ind = 0
                    /\ ip' = [ip EXCEPT ![i].addrs[NDIRECT] = b]
                    /\ disk' = [disk EXCEPT ![b] = bzero(b)]
                 \/ /\ Bn(p) >= NDIRECT /\ ind # 0
                    /\ disk' = [disk EXCEPT ![b] = bzero(b), ![ind][Bn(p) - NDIRECT] = b]
                    /\ UNCHANGED ip
              /\ call' = [call EXCEPT ![p].dirty = @ \cup {BBLOCK(b), b}
                     \cup {x \in {ind} : Bn(p) >= NDIRECT /\ ind # 0}]
        /\ UNCHANGED <<mkfsVars, dip, lock, off>>

\* One round of the loops of writei and readi, once the block is there.
WriteBlock(p) ==
    LET b == Mapped(ip[Ino(p)], Bn(p))
        at == Position(p) % BSIZE
    IN  /\ InChunk(p) /\ call[p].op = "copy" /\ Bn(p) < MAXFILE /\ b # 0
        /\ disk' = [disk EXCEPT ![b] =
              [c \in Cells |-> IF c \in at .. at + Span(p) - 1
                               THEN Byte(call[p].done + call[p].tot + (c - at) + 1) ELSE @[c]]]
        /\ call' = [call EXCEPT ![p].tot = @ + Span(p), ![p].dirty = @ \cup {b}]
        /\ UNCHANGED <<mkfsVars, used, dip, ip, lock, off>>

ReadBlock(p) ==
    /\ InChunk(p) /\ call[p].op = "read" /\ Mapped(ip[Ino(p)], Bn(p)) # 0
    /\ call' = [call EXCEPT ![p].tot = @ + Span(p)]
    /\ UNCHANGED <<mkfsVars, used, disk, dip, ip, lock, off>>

\* The end of writei, and of the round of filewrite: the size, the inode, the
\* offset, iunlock.
WriteEnd(p) ==
    LET c == call[p]
        i == Ino(p)
        grown == [ip[i] EXCEPT !.size = Position(p)]
    IN  /\ c.op = "copy" /\ c.tot = c.n1
        /\ \/ Position(p) > ip[i].size /\ ip' = [ip EXCEPT ![i] = grown] /\ iupdate(i, grown)
           \/ Position(p) <= ip[i].size /\ UNCHANGED <<ip, dip>>
        /\ off' = [off EXCEPT ![c.f] = @ + c.n1]
        /\ lock' = [lock EXCEPT ![i] = NoProc]
        /\ call' = [call EXCEPT ![p] = IF c.done + c.n1 < c.n
                      THEN [op |-> "write", f |-> c.f, n |-> c.n, done |-> c.done + c.n1] ELSE Idle]
        /\ UNCHANGED <<mkfsVars, used, disk>>

ReadEnd(p) ==
    /\ call[p].op = "read" /\ call[p].tot = call[p].n1
    /\ off' = [off EXCEPT ![call[p].f] = @ + call[p].n1]
    /\ lock' = [lock EXCEPT ![Ino(p)] = NoProc]
    /\ call' = [call EXCEPT ![p] = Idle]
    /\ UNCHANGED <<mkfsVars, used, disk, dip, ip>>

\* The open files some call is working on.
InUse == {call[p].f : p \in {q \in Proc : call[q].op \in {"write", "copy", "read"}}}

\* iput of a file that has lost its last name and its last open descriptor.
Trunc(p, i) ==
    /\ mk = 0 /\ call[p] = Idle /\ lock[i] = NoProc /\ ip[i] # NoInode
    /\ \A f \in InUse : IpOf[f] # i
    /\ lock' = [lock EXCEPT ![i] = p]
    /\ off' = [f \in File |-> IF IpOf[f] = i THEN 0 ELSE off[f]]
    /\ call' = [call EXCEPT ![p] = [op |-> "trunc", i |-> i, j |-> 0]]
    /\ UNCHANGED <<mkfsVars, used, disk, dip, ip>>

\* The cells of itrunc in its order: direct blocks, entries of the indirect block,
\* the indirect block.
Cell(n, j) == IF j < MAXFILE THEN Mapped(n, j) ELSE n.addrs[NDIRECT]
ToFree(p) == {j \in call[p].j .. MAXFILE : Cell(ip[call[p].i], j) # 0}

TruncFree(p) ==
    LET i == call[p].i
        j == Min(ToFree(p))
    IN  /\ call[p].op = "trunc" /\ ToFree(p) # {}
        /\ used' = used \ {Cell(ip[i], j)}
        /\ ip' = CASE j < NDIRECT -> [ip EXCEPT ![i].addrs[j] = 0]
                   [] j = MAXFILE -> [ip EXCEPT ![i].addrs[NDIRECT] = 0]
                   [] OTHER -> ip
        /\ call' = [call EXCEPT ![p].j = j + 1]
        /\ UNCHANGED <<mkfsVars, disk, dip, lock, off>>

TruncEnd(p) ==
    LET i == call[p].i
        empty == [ip[i] EXCEPT !.size = 0]
    IN  /\ call[p].op = "trunc" /\ ToFree(p) = {}
        /\ ip' = [ip EXCEPT ![i] = empty] /\ iupdate(i, empty)
        /\ lock' = [lock EXCEPT ![i] = NoProc]
        /\ call' = [call EXCEPT ![p] = Idle]
        /\ UNCHANGED <<mkfsVars, used, disk, off>>

FilesNext ==
    \/ MkEntry \/ MkContents \/ Boot
    \/ \E p \in Proc :
          \/ \E f \in Writable, n \in Lengths : SysWrite(p, f, n)
          \/ \E f \in Readable, n \in Lengths : SysRead(p, f, n)
          \/ WriteChunk(p) \/ Bmap(p) \/ WriteBlock(p) \/ ReadBlock(p) \/ WriteEnd(p) \/ ReadEnd(p)
          \/ \E i \in Removable : Trunc(p, i)
          \/ TruncFree(p) \/ TruncEnd(p)

FilesSpec == FilesInit /\ [][FilesNext]_filesVars

--------------------------------------------------------------------------------
(* Properties *)

\* The places that name a block: cells of inodes and of indirect blocks.
Truncating(i, j) == \E p \in Proc : call[p].op = "trunc" /\ call[p].i = i /\ j < call[p].j
Places == {r \in Inum \X (0..MAXFILE) : Cell(ip[r[1]], r[2]) # 0 /\ ~Truncating(r[1], r[2])}
BlockAt(r) == Cell(ip[r[1]], r[2])

(* The bitmap mkfs writes and balloc and bfree keep is exact: a block is marked *)
(* if and only if it is metadata or some file uses it, and no block has two     *)
(* users, however the writers and the truncations of several processes mix.     *)
BlocksAccounted ==
    mk = 0 =>
      LET owned == {BlockAt(r) : r \in Places}
      IN  /\ used = (0 .. nmeta - 1) \cup owned
          /\ owned \cap (0 .. nmeta - 1) = {}
          /\ Cardinality(owned) = Cardinality(Places)

(* bmap changes only the inode in memory, and writei saves the inode only when  *)
(* the file has grown: that is enough, an unlocked inode is the one on disk.    *)
InodeSaved == mk = 0 => \A i \in Inum : lock[i] = NoProc => dip[i] = ip[i]

\* A chunk of filewrite logs no more blocks than begin_op reserved for it: data,
\* bitmap, indirect block, and the block of the inode.
TransactionFits ==
    \A p \in Proc : call[p].op = "copy" =>
        Cardinality(call[p].dirty \cup {IBLOCK(Ino(p))}) <= MAXOPBLOCKS

\* The disk holds every file at its largest.
RoomForAll == nmeta + (Len(Sources) + 1) * (MAXFILE + 1) <= FSSIZE

(* No panic of bmap, balloc (while the disk holds every file at its largest) or *)
(* bfree; nor of log_write: readi, which runs outside a transaction, never has  *)
(* to allocate, and a write, however large and wherever it starts, is split     *)
(* into transactions that fit.                                                  *)
NoPanic ==
    /\ TransactionFits
    /\ \A p \in Proc : InChunk(p) =>
          /\ Bn(p) < MAXFILE
          /\ Mapped(ip[Ino(p)], Bn(p)) = 0 => call[p].op = "copy" /\ Free # {}
    /\ \A p \in Proc : call[p].op = "trunc" /\ ToFree(p) # {} =>
          Cell(ip[call[p].i], Min(ToFree(p))) \in used

--------------------------------------------------------------------------------
(* The contents as readi finds them, and, while a chunk is being copied, with   *)
(* the rest of it in place: a write takes effect at once, when the chunk starts *)

Contents(i, len) ==
    [k \in 1..len |-> LET b == Mapped(ip[i], (k - 1) \div BSIZE)
                      IN  IF b = 0 THEN "hole" ELSE disk[b][(k - 1) % BSIZE]]

Writer(i) == {p \in Proc : call[p].op = "copy" /\ Ino(p) = i}

Image == [i \in Inum |->
    IF i = ROOTINO
    THEN [k \in 1 .. RootSize((2 + Len(Sources)) * DIRENT) |->
            IF k <= (2 + Len(Sources)) * DIRENT THEN 20 ELSE 0]
    ELSE Piece(0, Sources[i - 1])]

Flattened(i) ==
    IF Writer(i) = {} THEN Contents(i, ip[i].size)
    ELSE LET p == CHOOSE p \in Writer(i) : TRUE
             start == off[call[p].f]
             end == start + call[p].n1
             sofar == Contents(i, Max({ip[i].size, Position(p)}))
         IN  [k \in 1 .. Max({ip[i].size, end}) |->
                IF k \in Position(p) + 1 .. end THEN Byte(call[p].done + k - start) ELSE sofar[k]]

Moving(f) == {p \in Proc : call[p].op \in {"copy", "read"} /\ call[p].f = f}

Flat == INSTANCE FlatFile WITH
    Chunks <- {Piece(from, n) : from \in 0 .. Max(Lengths) - 1, n \in 1 .. max},
    file <- [i \in Inum |->
        IF mk # 0 THEN Image[i]
        ELSE IF \E p \in Proc : call[p].op = "trunc" /\ call[p].i = i THEN <<>>
        ELSE Flattened(i)],
    off <- [f \in File |-> IF Moving(f) = {} THEN off[f] ELSE off[f] + call[CHOOSE p \in Moving(f) : TRUE].n1]

(* The blocks implement flat files: mkfs puts the bytes it is given where the   *)
(* kernel will read them, every chunk of a write lands whole at the offset its  *)
(* open file had, also when two processes share it, and truncation empties the  *)
(* file.                                                                        *)
FilesAreFlat == Flat!Spec
================================================================================
