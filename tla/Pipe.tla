-------------------------------- MODULE Pipe --------------------------------
(***************************************************************************)
(* One pipe of pipe.c, shared by processes that fork, read, write, close,  *)
(* are killed and exit.  p->lock is held from acquire() to the sleep() or  *)
(* release() that ends a stretch of code, so each stretch is one step; the *)
(* loops of pipewrite() and piperead() go on for several of them.  nread   *)
(* and nwrite are unsigned and wrap at UINT.                               *)
(***************************************************************************)
EXTENDS Naturals, FiniteSets, Sequences, KernelThread

CONSTANTS
  first,     \* the one that called pipe()
  Byte,      \* contents of a byte
  PIPESIZE,  \* size of the ring
  UINT,      \* the unsigned integers are 0..UINT-1; 2^32 in the code
  MaxRequest,  \* bound: bytes of one read() or write()
  MaxKills     \* bound: processes that are killed

ASSUME PipeAssumption ==
  /\ first \in Proc
  /\ PIPESIZE \in Nat \ {0} /\ UINT \in Nat /\ MaxRequest \in Nat /\ MaxKills \in Nat
  /\ UINT > PIPESIZE /\ UINT % PIPESIZE = 0

VARIABLES
  data, nread, nwrite, readopen, writeopen,  \* struct pipe
  freed,    \* kfree() was called
  ends,     \* file descriptors of each process: subset of {"r", "w"}
  todo,     \* pipewrite(): the bytes not yet written
  want,     \* piperead(): the argument n
  killed

ring == <<data, nread, nwrite>>
open == <<readopen, writeopen, freed>>
pipeVars == <<ring, open, ends, pc, todo, want, killed>>

PipePC == {"unborn", "idle", "write", "sleep_nwrite", "read", "sleep_nread", "dead"}

Used == (UINT + nwrite - nread) % UINT

PcIs(p, here) == pc[p] = here

\* Mutant: wakeup() wakes one sleeper only.
WakeupOne(who, from, to, there) ==
  LET asleep == {p \in Proc \ {who} : pc[p] = from} IN
  pc' = [p \in Proc |-> IF p = who THEN there
                        ELSE IF asleep # {} /\ p = CHOOSE q \in asleep : TRUE
                        THEN to ELSE pc[p]]

\* wakeup(chan) by "who", which goes on at "there".
Wakeup(who, from, to, there) ==
  pc' = [p \in Proc |-> IF p = who THEN there
                        ELSE IF pc[p] = from THEN to ELSE pc[p]]

WakeReaders(p, there) == Wakeup(p, "sleep_nread", "read", there)

WakeWriters(p, there) == Wakeup(p, "sleep_nwrite", "write", there)

-----------------------------------------------------------------------------
\* pipealloc() has succeeded; kalloc() does not clear the page.
PipeInit ==
  /\ data \in [0..PIPESIZE-1 -> Byte]
  /\ nread = 0 /\ nwrite = 0
  /\ readopen = TRUE /\ writeopen = TRUE /\ freed = FALSE
  /\ ends = [p \in Proc |-> IF p = first THEN {"r", "w"} ELSE {}]
  /\ pc = [p \in Proc |-> IF p = first THEN "idle" ELSE "unborn"]
  /\ todo = [p \in Proc |-> <<>>]
  /\ want = [p \in Proc |-> 0]
  /\ killed = [p \in Proc |-> FALSE]

SysWrite(p, s) ==
  /\ PcIs(p, "idle") /\ "w" \in ends[p] /\ ~killed[p]
  /\ todo' = [todo EXCEPT ![p] = s]
  /\ Goto(p, "write")
  /\ UNCHANGED <<ring, open, ends, want, killed>>

SysRead(p, n) ==
  /\ PcIs(p, "idle") /\ "r" \in ends[p] /\ ~killed[p]
  /\ want' = [want EXCEPT ![p] = n]
  /\ Goto(p, "read")
  /\ UNCHANGED <<ring, open, ends, todo, killed>>

(***************************************************************************)
(* pipewrite(): store bytes until the ring is full or all are stored.      *)
(***************************************************************************)
Least(m, n) == IF m <= n THEN m ELSE n

\* Mutant: the ring is taken for full one byte too late.
RoomPlusOne == PIPESIZE + 1 - Used

\* "nwrite == nread + PIPESIZE" fails this many times.
Room == PIPESIZE - Used

Store(s) ==
  /\ data' = [i \in 0..PIPESIZE-1 |->
                LET k == ((PIPESIZE + i) - (nwrite % PIPESIZE)) % PIPESIZE
                IN IF k < Len(s) THEN s[k + 1] ELSE data[i]]
  /\ nwrite' = (nwrite + Len(s)) % UINT
  /\ UNCHANGED nread

MoreKills == Cardinality({p \in Proc : killed[p]}) < MaxKills

\* kill() takes ptable.lock, not the pipe's: it may set p->killed between the
\* test of the flag and the sleep(), which then goes to sleep all the same.
KillMayLand(p) ==
  \/ UNCHANGED killed
  \/ MoreKills /\ killed' = [killed EXCEPT ![p] = TRUE]

PipeWrite(p) ==
  LET k == Least(Len(todo[p]), Room) IN
  /\ PcIs(p, "write")
  /\ Store(SubSeq(todo[p], 1, k))
  /\ \/ /\ k = Len(todo[p])
        /\ WakeReaders(p, "idle")
        /\ todo' = [todo EXCEPT ![p] = <<>>]
        /\ UNCHANGED killed
     \/ /\ k < Len(todo[p])
        /\ ~readopen \/ killed[p]
        /\ Goto(p, "idle")
        /\ todo' = [todo EXCEPT ![p] = <<>>]
        /\ UNCHANGED killed
     \/ /\ k < Len(todo[p])
        /\ readopen /\ ~killed[p]
        /\ WakeReaders(p, "sleep_nwrite")
        /\ todo' = [todo EXCEPT ![p] = SubSeq(@, k + 1, Len(@))]
        /\ KillMayLand(p)
  /\ UNCHANGED <<open, ends, want>>

(***************************************************************************)
(* piperead(): wait for a byte or the end of the writers.                  *)
(***************************************************************************)
PipeReadWaits(p) ==
  /\ PcIs(p, "read")
  /\ nread = nwrite /\ writeopen
  /\ \/ /\ killed[p]
        /\ Goto(p, "idle")
        /\ want' = [want EXCEPT ![p] = 0]
        /\ UNCHANGED killed
     \/ /\ ~killed[p]
        /\ Goto(p, "sleep_nread")
        /\ KillMayLand(p)
        /\ UNCHANGED want
  /\ UNCHANGED <<ring, open, ends, todo>>

PipeRead(p) ==
  /\ PcIs(p, "read")
  /\ nread # nwrite \/ ~writeopen
  /\ nread' = (nread + Least(want[p], Used)) % UINT
  /\ want' = [want EXCEPT ![p] = 0]
  /\ WakeWriters(p, "idle")
  /\ UNCHANGED <<data, nwrite, open, ends, todo, killed>>

(***************************************************************************)
(* close(): the last descriptor of an end calls pipeclose().               *)
(***************************************************************************)
\* pipeclose() frees the page when neither end is open.
Free(r, w) == ~r /\ ~w

Close(p, e) ==
  LET last == \A q \in Proc \ {p} : e \notin ends[q] IN
  /\ PcIs(p, "idle") /\ e \in ends[p]
  /\ ends' = [ends EXCEPT ![p] = @ \ {e}]
  /\ readopen' = (readopen /\ ~(last /\ e = "r"))
  /\ writeopen' = (writeopen /\ ~(last /\ e = "w"))
  /\ freed' = (freed \/ (last /\ Free(readopen', writeopen')))
  /\ IF ~last THEN UNCHANGED pc
     ELSE IF e = "w" THEN WakeReaders(p, "idle") ELSE WakeWriters(p, "idle")
  /\ UNCHANGED <<ring, todo, want, killed>>

\* exit(), once the descriptors are closed.
Exit(p) ==
  /\ PcIs(p, "idle") /\ ends[p] = {}
  /\ Goto(p, "dead")
  /\ UNCHANGED <<ring, open, ends, todo, want, killed>>

\* fork(): filedup() of each descriptor.
Fork(p, q) ==
  /\ PcIs(p, "idle") /\ ~killed[p] /\ PcIs(q, "unborn")
  /\ ends' = [ends EXCEPT ![q] = ends[p]]
  /\ Goto(q, "idle")
  /\ UNCHANGED <<ring, open, todo, want, killed>>

Kill(q) ==
  /\ pc[q] \notin {"unborn", "dead"}
  /\ (~killed[q] /\ MoreKills) \/ (killed[q] /\ pc[q] \in {"sleep_nread", "sleep_nwrite"})
  /\ killed' = [killed EXCEPT ![q] = TRUE]
  /\ Goto(q, CASE pc[q] = "sleep_nread" -> "read"
               [] pc[q] = "sleep_nwrite" -> "write"
               [] OTHER -> pc[q])
  /\ UNCHANGED <<ring, open, ends, todo, want>>

PipeNext ==
  \E p \in Proc :
    \/ \E n \in 1..MaxRequest : \/ \E s \in [1..n -> Byte] : SysWrite(p, s)
                                \/ SysRead(p, n)
    \/ PipeWrite(p) \/ PipeReadWaits(p) \/ PipeRead(p)
    \/ \E e \in {"r", "w"} : Close(p, e)
    \/ Exit(p) \/ Kill(p)
    \/ \E q \in Proc : Fork(p, q)

PipeSpec == PipeInit /\ [][PipeNext]_pipeVars

-----------------------------------------------------------------------------
PipeTypeOK ==
  /\ data \in [0..PIPESIZE-1 -> Byte]
  /\ nread \in 0..UINT-1 /\ nwrite \in 0..UINT-1
  /\ readopen \in BOOLEAN /\ writeopen \in BOOLEAN /\ freed \in BOOLEAN
  /\ ends \in [Proc -> SUBSET {"r", "w"}]
  /\ pc \in [Proc -> PipePC]
  /\ todo \in [Proc -> Seq(Byte)]
  /\ want \in [Proc -> 0..MaxRequest]
  /\ killed \in [Proc -> BOOLEAN]
  /\ Used <= PIPESIZE

(***************************************************************************)
(* The ring is a queue of at most PIPESIZE bytes, across the wraparound of *)
(* its indices and of the two counters, with several writers that sleep in *)
(* the middle of a write (pipewrite, piperead).                            *)
(***************************************************************************)
Queue == [i \in 1..Used |-> data[(nread + i - 1) % PIPESIZE]]

Abstract == INSTANCE Fifo WITH queue <- Queue, Capacity <- PIPESIZE

PipeIsFifo == Abstract!Spec

(***************************************************************************)
(* A writer asleep in pipewrite() has a full pipe and a reader left, and a *)
(* reader asleep in piperead() an empty pipe and a writer left: no wakeup  *)
(* was missed, and the page is freed exactly when no descriptor is left,   *)
(* so nobody sleeps in a pipe that is gone.  The one exception is a writer *)
(* that is killed: the error return of pipewrite() leaves the bytes it     *)
(* stored unannounced.  Nothing is said of a sleeper's own killed flag: a  *)
(* kill() between the test and the sleep is not noticed (pipewrite,        *)
(* piperead, pipeclose).                                                   *)
(***************************************************************************)
NoStrandedSleeper ==
  /\ freed <=> \A p \in Proc : ends[p] = {}
  /\ \A p \in Proc :
       /\ pc[p] = "sleep_nwrite" => Used = PIPESIZE /\ readopen
       /\ pc[p] = "sleep_nread" =>
            writeopen /\ (nread = nwrite \/ \E q \in Proc : killed[q])
=============================================================================
