----------------------------- MODULE FileTable ------------------------------
(***************************************************************************)
(* The open file table of file.c with the system calls of sysfile.c that   *)
(* allocate, share and close descriptors: open, pipe, dup, close, and the  *)
(* inheritance by fork() and release by exit().  ftable.lock is held for   *)
(* single steps only; everything between two of them interleaves with      *)
(* other processes.  Inodes and pipes count as resources: a reference to   *)
(* an inode is taken before the file exists and dropped after the file is  *)
(* gone, outside the lock.                                                 *)
(***************************************************************************)
EXTENDS OpenFile, Naturals, FiniteSets, Sequences

CONSTANTS
  init,         \* the process that never exits
  Pipe,         \* pages that kalloc() may return for a pipe
  NOFILE,       \* descriptors of a process
  NoFile, NoPipe

ASSUME FileTableAssumption ==
  /\ IsFiniteSet(Proc) /\ IsFiniteSet(File)
  /\ init \in Proc /\ NoProc \notin Proc
  /\ NoFile \notin File /\ NoPipe \notin Pipe
  /\ NOFILE \in Nat \ {0}

FD == 0..NOFILE-1

Type == {"NONE", "INODE", "READ", "WRITE"}   \* FD_NONE, FD_INODE, pipe ends

VARIABLES
  ref, type, pipe,  \* struct file
  ofile,            \* p->ofile
  pipeopen,         \* the open ends of each pipe; {} when it is free
  iref,             \* references to inodes
  pc,
  f0, f1,           \* local struct file pointers of a system call
  closing,          \* files the process is about to fileclose(), in order
  ff,               \* fileclose(): the copy *f of a file whose ref reached 0
  child,            \* np of fork()
  panicked

ftable == <<ref, type, pipe>>
locals == <<f0, f1, child>>
vars == <<ftable, ofile, pipeopen, iref, pc, locals, closing, ff, panicked>>

PC == {"unused", "embryo", "idle", "open", "open_fd", "open_set", "open_bad",
       "pipe", "pipe_kalloc", "pipe_fd", "dup", "fork", "exit"}

None == [type |-> "NONE", pipe |-> NoPipe]

\* p is at "here", and no fileclose() it called is unfinished.
At(p, here) == pc[p] = here /\ closing[p] = <<>> /\ ff[p] = None /\ ~panicked

Goto(p, there) == pc' = [pc EXCEPT ![p] = there]

FreeFiles == {f \in File : ref[f] = 0}

\* argfd() accepts the descriptor.
Argfd(p, fd) == fd \in FD /\ ofile[p][fd] # NoFile
FreeFds(p) == {fd \in FD : ofile[p][fd] = NoFile}

Smallest(S) == CHOOSE m \in S : \A n \in S : m <= n

-----------------------------------------------------------------------------
\* init has no files yet; the other slots are free.
Init ==
  /\ ref = [f \in File |-> 0]
  /\ type = [f \in File |-> "NONE"]
  /\ pipe = [f \in File |-> NoPipe]
  /\ ofile = [p \in Proc |-> [fd \in FD |-> NoFile]]
  /\ pipeopen = [x \in Pipe |-> {}]
  /\ iref = 0
  /\ pc = [p \in Proc |-> IF p = init THEN "idle" ELSE "unused"]
  /\ f0 = [p \in Proc |-> NoFile]
  /\ f1 = [p \in Proc |-> NoFile]
  /\ child = [p \in Proc |-> NoProc]
  /\ closing = [p \in Proc |-> <<>>]
  /\ ff = [p \in Proc |-> None]
  /\ panicked = FALSE

\* filealloc() stores its result in the local variable "var" of p.
FileAlloc(p, var, f) ==
  /\ ref' = [ref EXCEPT ![f] = 1]
  /\ var' = [var EXCEPT ![p] = f]

(***************************************************************************)
(* fileclose(): the count under the lock, the resource after it.           *)
(***************************************************************************)
\* f->type = FD_NONE
Cleared(f) == [type EXCEPT ![f] = "NONE"]

FileClose(p) ==
  LET f == Head(closing[p]) IN
  /\ closing[p] # <<>> /\ ff[p] = None /\ ~panicked
  /\ panicked' = (ref[f] < 1)
  /\ ref' = [ref EXCEPT ![f] = @ - 1]
  /\ closing' = [closing EXCEPT ![p] = Tail(@)]
  /\ IF ref[f] = 1
     THEN /\ type' = Cleared(f)
          /\ ff' = [ff EXCEPT ![p] = IF type[f] = "NONE" THEN None
                       ELSE [type |-> type[f], pipe |-> pipe[f]]]
     ELSE UNCHANGED <<type, ff>>
  /\ UNCHANGED <<pipe, ofile, pipeopen, iref, pc, locals>>

\* Mutant: both ends are closed.
EndsLeftNone(x, t) == {}

\* pipeclose(p, writable)
EndsLeft(x, t) == pipeopen[x] \ {IF t = "WRITE" THEN "w" ELSE "r"}

\* pipeclose() or iput() of the copy.
CloseResource(p) ==
  /\ ff[p] # None /\ ~panicked
  /\ IF ff[p].type = "INODE"
     THEN iref' = iref - 1 /\ UNCHANGED pipeopen
     ELSE /\ pipeopen' = [pipeopen EXCEPT ![ff[p].pipe] =
                            EndsLeft(ff[p].pipe, ff[p].type)]
          /\ UNCHANGED iref
  /\ ff' = [ff EXCEPT ![p] = None]
  /\ UNCHANGED <<ftable, ofile, pc, locals, closing, panicked>>

(***************************************************************************)
(* sys_open(), from the point where namei() or create() has returned ip.   *)
(***************************************************************************)
SysOpen(p) ==
  /\ At(p, "idle")
  /\ iref' = iref + 1
  /\ Goto(p, "open")
  /\ UNCHANGED <<ftable, ofile, pipeopen, locals, closing, ff, panicked>>

OpenAlloc(p) ==
  /\ At(p, "open")
  /\ \/ /\ FreeFiles = {}
        /\ Goto(p, "open_bad") /\ UNCHANGED <<ref, f0>>
     \/ \E f \in FreeFiles : FileAlloc(p, f0, f) /\ Goto(p, "open_fd")
  /\ UNCHANGED <<type, pipe, ofile, pipeopen, iref, f1, child, closing, ff,
                 panicked>>

OpenFd(p) ==
  /\ At(p, "open_fd")
  /\ IF FreeFds(p) = {}
     THEN /\ closing' = [closing EXCEPT ![p] = <<f0[p]>>]
          /\ f0' = [f0 EXCEPT ![p] = NoFile]
          /\ Goto(p, "open_bad")
          /\ UNCHANGED ofile
     ELSE /\ ofile' = [ofile EXCEPT ![p][Smallest(FreeFds(p))] = f0[p]]
          /\ Goto(p, "open_set")
          /\ UNCHANGED <<closing, f0>>
  /\ UNCHANGED <<ftable, pipeopen, iref, f1, child, ff, panicked>>

\* iunlock(); end_op(); and only then the fields of the file.
OpenSet(p) ==
  /\ At(p, "open_set")
  /\ type' = [type EXCEPT ![f0[p]] = "INODE"]
  /\ f0' = [f0 EXCEPT ![p] = NoFile]
  /\ Goto(p, "idle")
  /\ UNCHANGED <<ref, pipe, ofile, pipeopen, iref, f1, child, closing, ff,
                 panicked>>

\* iunlockput(ip)
OpenBad(p) ==
  /\ At(p, "open_bad")
  /\ iref' = iref - 1
  /\ Goto(p, "idle")
  /\ UNCHANGED <<ftable, ofile, pipeopen, locals, closing, ff, panicked>>

(***************************************************************************)
(* sys_pipe() and pipealloc()                                              *)
(***************************************************************************)
\* "goto bad": close what was allocated and return -1.
GiveUp(p, files) ==
  /\ closing' = [closing EXCEPT ![p] = files]
  /\ f0' = [f0 EXCEPT ![p] = NoFile]
  /\ f1' = [f1 EXCEPT ![p] = NoFile]
  /\ Goto(p, "idle")

PipeAlloc0(p) ==
  /\ At(p, "idle")
  /\ \E f \in FreeFiles : FileAlloc(p, f0, f)
  /\ Goto(p, "pipe")
  /\ UNCHANGED <<type, pipe, ofile, pipeopen, iref, f1, child, closing, ff,
                 panicked>>

PipeAlloc1(p) ==
  /\ At(p, "pipe")
  /\ \/ FreeFiles = {} /\ GiveUp(p, <<f0[p]>>) /\ UNCHANGED ref
     \/ /\ \E f \in FreeFiles : FileAlloc(p, f1, f)
        /\ Goto(p, "pipe_kalloc")
        /\ UNCHANGED <<f0, closing>>
  /\ UNCHANGED <<type, pipe, ofile, pipeopen, iref, child, ff, panicked>>

PipeKalloc(p) ==
  /\ At(p, "pipe_kalloc")
  /\ \/ GiveUp(p, <<f0[p], f1[p]>>) /\ UNCHANGED <<type, pipe, pipeopen>>
     \/ \E x \in Pipe :
          /\ pipeopen[x] = {}
          /\ pipeopen' = [pipeopen EXCEPT ![x] = {"r", "w"}]
          /\ type' = [type EXCEPT ![f0[p]] = "READ", ![f1[p]] = "WRITE"]
          /\ pipe' = [pipe EXCEPT ![f0[p]] = x, ![f1[p]] = x]
          /\ Goto(p, "pipe_fd")
          /\ UNCHANGED <<f0, f1, closing>>
  /\ UNCHANGED <<ref, ofile, iref, child, ff, panicked>>

\* Two descriptors or none.
PipeFd(p) ==
  /\ At(p, "pipe_fd")
  /\ IF Cardinality(FreeFds(p)) < 2
     THEN GiveUp(p, <<f0[p], f1[p]>>) /\ UNCHANGED ofile
     ELSE LET fd0 == Smallest(FreeFds(p))
              fd1 == Smallest(FreeFds(p) \ {fd0})
          IN /\ ofile' = [ofile EXCEPT ![p][fd0] = f0[p], ![p][fd1] = f1[p]]
             /\ f0' = [f0 EXCEPT ![p] = NoFile]
             /\ f1' = [f1 EXCEPT ![p] = NoFile]
             /\ Goto(p, "idle")
             /\ UNCHANGED closing
  /\ UNCHANGED <<ftable, pipeopen, iref, child, ff, panicked>>

(***************************************************************************)
(* sys_dup(): the descriptor first, the count after it.                    *)
(***************************************************************************)
SysDup(p, fd) ==
  /\ At(p, "idle")
  /\ Argfd(p, fd) /\ FreeFds(p) # {}
  /\ ofile' = [ofile EXCEPT ![p][Smallest(FreeFds(p))] = ofile[p][fd]]
  /\ f0' = [f0 EXCEPT ![p] = ofile[p][fd]]
  /\ Goto(p, "dup")
  /\ UNCHANGED <<ftable, pipeopen, iref, f1, child, closing, ff, panicked>>

\* Mutant: the count is not incremented.
FileDupNot(f) == panicked' = (ref[f] < 1) /\ UNCHANGED ref

FileDup(f) ==
  /\ panicked' = (ref[f] < 1)
  /\ ref' = [ref EXCEPT ![f] = @ + 1]

DupRef(p) ==
  /\ At(p, "dup")
  /\ FileDup(f0[p])
  /\ f0' = [f0 EXCEPT ![p] = NoFile]
  /\ Goto(p, "idle")
  /\ UNCHANGED <<type, pipe, ofile, pipeopen, iref, f1, child, closing, ff>>

SysClose(p, fd) ==
  /\ At(p, "idle")
  /\ Argfd(p, fd)
  /\ ofile' = [ofile EXCEPT ![p][fd] = NoFile]
  /\ closing' = [closing EXCEPT ![p] = <<ofile[p][fd]>>]
  /\ UNCHANGED <<ftable, pipeopen, iref, pc, locals, ff, panicked>>

(***************************************************************************)
(* fork() duplicates one descriptor after the other; exit() closes them.   *)
(***************************************************************************)
ForkBegins(p, q) ==
  /\ At(p, "idle") /\ pc[q] = "unused"
  /\ child' = [child EXCEPT ![p] = q]
  /\ pc' = [pc EXCEPT ![p] = "fork", ![q] = "embryo"]
  /\ UNCHANGED <<ftable, ofile, pipeopen, iref, f0, f1, closing, ff, panicked>>

ToCopy(p) == {fd \in FD : ofile[p][fd] # NoFile /\ ofile[child[p]][fd] = NoFile}

ForkDup(p) ==
  /\ At(p, "fork")
  /\ ToCopy(p) # {}
  /\ LET fd == Smallest(ToCopy(p)) IN
       /\ FileDup(ofile[p][fd])
       /\ ofile' = [ofile EXCEPT ![child[p]][fd] = ofile[p][fd]]
  /\ UNCHANGED <<type, pipe, pipeopen, iref, pc, locals, closing, ff>>

ForkEnds(p) ==
  /\ At(p, "fork")
  /\ ToCopy(p) = {}
  /\ pc' = [pc EXCEPT ![p] = "idle", ![child[p]] = "idle"]
  /\ child' = [child EXCEPT ![p] = NoProc]
  /\ UNCHANGED <<ftable, ofile, pipeopen, iref, f0, f1, closing, ff, panicked>>

SysExit(p) ==
  /\ At(p, "idle") /\ p # init
  /\ Goto(p, "exit")
  /\ UNCHANGED <<ftable, ofile, pipeopen, iref, locals, closing, ff, panicked>>

Exit(p) ==
  LET used == FD \ FreeFds(p) IN
  /\ At(p, "exit")
  /\ IF used = {}
     THEN Goto(p, "unused") /\ UNCHANGED <<ofile, closing>>
     ELSE /\ ofile' = [ofile EXCEPT ![p][Smallest(used)] = NoFile]
          /\ closing' = [closing EXCEPT ![p] = <<ofile[p][Smallest(used)]>>]
          /\ UNCHANGED pc
  /\ UNCHANGED <<ftable, pipeopen, iref, locals, ff, panicked>>

Next ==
  \E p \in Proc :
    \/ FileClose(p) \/ CloseResource(p)
    \/ SysOpen(p) \/ OpenAlloc(p) \/ OpenFd(p) \/ OpenSet(p) \/ OpenBad(p)
    \/ PipeAlloc0(p) \/ PipeAlloc1(p) \/ PipeKalloc(p) \/ PipeFd(p)
    \/ \E fd \in FD : SysDup(p, fd) \/ SysClose(p, fd)
    \/ DupRef(p)
    \/ \E q \in Proc : ForkBegins(p, q)
    \/ ForkDup(p) \/ ForkEnds(p)
    \/ SysExit(p) \/ Exit(p)

Spec == Init /\ [][Next]_vars

-----------------------------------------------------------------------------
TypeOK ==
  /\ ref \in [File -> Nat]
  /\ type \in [File -> Type]
  /\ pipe \in [File -> Pipe \cup {NoPipe}]
  /\ ofile \in [Proc -> [FD -> File \cup {NoFile}]]
  /\ pipeopen \in [Pipe -> SUBSET {"r", "w"}]
  /\ iref \in Nat
  /\ pc \in [Proc -> PC]
  /\ f0 \in [Proc -> File \cup {NoFile}] /\ f1 \in [Proc -> File \cup {NoFile}]
  /\ child \in [Proc -> Proc \cup {NoProc}]
  /\ closing \in [Proc -> Seq(File)]
  /\ ff \in [Proc -> [type : Type, pipe : Pipe \cup {NoPipe}]]
  /\ panicked \in BOOLEAN

\* References to f: descriptors, local variables that own one, and files that
\* are about to be closed.  A dup() in progress owes the count one.
Owners(f) ==
  Cardinality({d \in Proc \X FD : ofile[d[1]][d[2]] = f})
  + Cardinality({p \in Proc : pc[p] \in {"open_fd", "pipe", "pipe_kalloc", "pipe_fd"}
                              /\ f0[p] = f})
  + Cardinality({p \in Proc : f1[p] = f})
  + Cardinality({c \in Proc \X {1, 2} :
                   c[2] <= Len(closing[c[1]]) /\ closing[c[1]][c[2]] = f})

Owed(f) == Cardinality({p \in Proc : pc[p] = "dup" /\ f0[p] = f})

\* Each open inode file, each sys_open() under way and each fileclose() that
\* has yet to call iput() owns one reference to the inode.
InodeRefs ==
  iref = Cardinality({f \in File : type[f] = "INODE"})
         + Cardinality({p \in Proc : pc[p] \in {"open", "open_fd", "open_set",
                                                "open_bad"}})
         + Cardinality({p \in Proc : ff[p].type = "INODE"})

(***************************************************************************)
(* f->ref counts the references to f exactly, whatever open, pipe, dup,    *)
(* close, fork and exit do at the same time and wherever they fail, so no  *)
(* struct file leaks, none is reused under a descriptor, and no panic of   *)
(* filedup() or fileclose() is reachable; the references the files own to  *)
(* their inode are exact too (filealloc, filedup, fileclose, sys_open).    *)
(***************************************************************************)
RefIsExact ==
  /\ \A f \in File : ref[f] + Owed(f) = Owners(f)
  /\ InodeRefs
  /\ ~panicked

\* A descriptor that a process can use leads to a file that is set up and whose
\* end of the pipe is open, and no other file has that end.
DescriptorsUsable ==
  \A p \in Proc, fd \in FD :
    LET f == ofile[p][fd] IN
    pc[p] = "idle" /\ f # NoFile =>
      /\ type[f] # "NONE"
      /\ type[f] = "READ" => "r" \in pipeopen[pipe[f]]
      /\ type[f] = "WRITE" => "w" \in pipeopen[pipe[f]]
      /\ type[f] \in {"READ", "WRITE"} =>
           \A g \in File \ {f} : ~(type[g] = type[f] /\ pipe[g] = pipe[f])

(***************************************************************************)
(* A pipe lives exactly as long as a file or a fileclose() in progress     *)
(* that refers to it, and every descriptor leads to an open end: a use of  *)
(* a freed pipe, and the panics of fileread() and filewrite() on FD_NONE,  *)
(* are out of reach (sys_open, pipealloc, pipeclose, fileclose).           *)
(***************************************************************************)
PipeLifetime ==
  /\ DescriptorsUsable
  /\ \A x \in Pipe :
       pipeopen[x] # {} <=>
         \/ \E f \in File : type[f] \in {"READ", "WRITE"} /\ pipe[f] = x
         \/ \E p \in Proc : ff[p].type \in {"READ", "WRITE"} /\ ff[p].pipe = x
=============================================================================
