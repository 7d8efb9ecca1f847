------------------------------ MODULE Spinlock ------------------------------
(***************************************************************************)
(* The spin locks of spinlock.c, instruction by instruction, on a          *)
(* multiprocessor whose CPUs take interrupts.  Every CPU runs a kernel     *)
(* thread; while the interrupt flag is on, an interrupt may suspend the    *)
(* thread and run a handler that takes locks of its own (trap.c: timer,    *)
(* disk, console).  pushcli/popcli keep the handler out of the CPU while   *)
(* the thread holds a lock.                                                *)
(***************************************************************************)
EXTENDS Naturals, FiniteSets

CONSTANTS
  CPU,      \* the processors
  Lock,     \* the spin locks
  Rank,     \* Rank[l]: the place of l in the kernel's lock order
  NoLock,   \* the "lock" of a bare pushcli/popcli pair, as in myproc()
  NoCPU     \* lk->cpu = 0

ASSUME SpinlockAssumption ==
  /\ Rank \in [Lock -> Nat]
  /\ NoLock \notin Lock
  /\ NoCPU \notin CPU

Ctx == {"thread", "handler"}

VARIABLES
  locked,    \* lk->locked
  lkcpu,     \* lk->cpu, "for debugging" but read by holding()
  intr,      \* the CPU's interrupt flag FL_IF
  ncli,      \* cpu->ncli, depth of pushcli nesting
  intena,    \* cpu->intena, was FL_IF on before the first pushcli?
  base,      \* does this CPU's thread run with interrupts on?
  inhandler, \* is an interrupt handler running on the CPU?
  pc,        \* where each context is inside acquire() or release()
  eflags,    \* the local variable eflags of pushcli()
  target,    \* the argument of the acquire() or release() in progress
  held,      \* history: locks whose xchg the context won and has not undone
  panicked   \* some CPU called panic()

vars == <<locked, lkcpu, intr, ncli, intena, base, inhandler, pc, eflags,
          target, held, panicked>>

PC == {"idle", "cli", "holding", "holdingcpu", "xchg", "setcpu",
       "clrcpu", "unlock", "popcli"}

\* The context that executes on c: the handler, if one is running.
Cur(c) == IF inhandler[c] THEN "handler" ELSE "thread"

At(c, here) == /\ ~panicked
               /\ pc[c][Cur(c)] = here

Goto(c, there) == pc' = [pc EXCEPT ![c][Cur(c)] = there]

Held(c) == held[c]["thread"] \cup held[c]["handler"]

\* The kernel's discipline: locks are acquired in increasing rank.
MayAcquire(c, l) == \A m \in held[c][Cur(c)] : Rank[m] < Rank[l]

-----------------------------------------------------------------------------
Init ==
  /\ locked = [l \in Lock |-> FALSE]
  /\ lkcpu = [l \in Lock |-> NoCPU]
  /\ base \in [CPU -> BOOLEAN]
  /\ intr = base
  /\ ncli = [c \in CPU |-> 0]
  /\ intena = [c \in CPU |-> FALSE]
  /\ inhandler = [c \in CPU |-> FALSE]
  /\ pc = [c \in CPU |-> [x \in Ctx |-> "idle"]]
  /\ eflags = [c \in CPU |-> [x \in Ctx |-> FALSE]]
  /\ target = [c \in CPU |-> [x \in Ctx |-> NoLock]]
  /\ held = [c \in CPU |-> [x \in Ctx |-> {}]]
  /\ panicked = FALSE

(***************************************************************************)
(* pushcli(): the flags are read with interrupts possibly still on, so a   *)
(* handler may run between the read and the cli.                           *)
(***************************************************************************)
ReadEflags(c, l) ==
  /\ At(c, "idle")
  /\ \/ l \in Lock /\ MayAcquire(c, l)
     \/ l = NoLock
  /\ eflags' = [eflags EXCEPT ![c][Cur(c)] = intr[c]]
  /\ target' = [target EXCEPT ![c][Cur(c)] = l]
  /\ Goto(c, "cli")
  /\ UNCHANGED <<locked, lkcpu, intr, ncli, intena, base, inhandler, held,
                 panicked>>

\* Mutant: every pushcli(), not only the outermost, records the flag.
PushCliAlways(c) ==
  /\ At(c, "cli")
  /\ intr' = [intr EXCEPT ![c] = FALSE]
  /\ intena' = [intena EXCEPT ![c] = eflags[c][Cur(c)]]
  /\ ncli' = [ncli EXCEPT ![c] = @ + 1]
  /\ Goto(c, IF target[c][Cur(c)] = NoLock THEN "popcli" ELSE "holding")
  /\ UNCHANGED <<locked, lkcpu, base, inhandler, eflags, target, held,
                 panicked>>

PushCli(c) ==
  /\ At(c, "cli")
  /\ intr' = [intr EXCEPT ![c] = FALSE]
  /\ intena' = [intena EXCEPT ![c] =
                  IF ncli[c] = 0 THEN eflags[c][Cur(c)] ELSE @]
  /\ ncli' = [ncli EXCEPT ![c] = @ + 1]
  /\ Goto(c, IF target[c][Cur(c)] = NoLock THEN "popcli" ELSE "holding")
  /\ UNCHANGED <<locked, lkcpu, base, inhandler, eflags, target, held,
                 panicked>>

(***************************************************************************)
(* acquire(): holding() reads lk->locked and, only if it is set, lk->cpu;  *)
(* other CPUs may write both in between.                                   *)
(***************************************************************************)
HoldingLocked(c) ==
  /\ At(c, "holding")
  /\ Goto(c, IF locked[target[c][Cur(c)]] THEN "holdingcpu" ELSE "xchg")
  /\ UNCHANGED <<locked, lkcpu, intr, ncli, intena, base, inhandler, eflags,
                 target, held, panicked>>

HoldingCpu(c) ==
  /\ At(c, "holdingcpu")
  /\ panicked' = (lkcpu[target[c][Cur(c)]] = c)
  /\ Goto(c, "xchg")
  /\ UNCHANGED <<locked, lkcpu, intr, ncli, intena, base, inhandler, eflags,
                 target, held>>

\* Mutant: a store instead of the atomic exchange.
XchgBlind(c) ==
  LET l == target[c][Cur(c)] IN
  /\ At(c, "xchg")
  /\ locked' = [locked EXCEPT ![l] = TRUE]
  /\ held' = [held EXCEPT ![c][Cur(c)] = @ \cup {l}]
  /\ Goto(c, "setcpu")
  /\ UNCHANGED <<lkcpu, intr, ncli, intena, base, inhandler, eflags, target,
                 panicked>>

\* The xchg that finds the lock free; the ones that do not only spin.
Xchg(c) ==
  LET l == target[c][Cur(c)] IN
  /\ At(c, "xchg")
  /\ ~locked[l]
  /\ locked' = [locked EXCEPT ![l] = TRUE]
  /\ held' = [held EXCEPT ![c][Cur(c)] = @ \cup {l}]
  /\ Goto(c, "setcpu")
  /\ UNCHANGED <<lkcpu, intr, ncli, intena, base, inhandler, eflags, target,
                 panicked>>

SetCpu(c) ==
  /\ At(c, "setcpu")
  /\ lkcpu' = [lkcpu EXCEPT ![target[c][Cur(c)]] = c]
  /\ Goto(c, "idle")
  /\ UNCHANGED <<locked, intr, ncli, intena, base, inhandler, eflags, target,
                 held, panicked>>

(***************************************************************************)
(* release(): locks need not be released in the order of their             *)
(* acquisition (sleep() releases the outer lock first).                    *)
(***************************************************************************)
Release(c, l) ==
  /\ At(c, "idle")
  /\ l \in held[c][Cur(c)]
  /\ panicked' = ~(locked[l] /\ lkcpu[l] = c)
  /\ target' = [target EXCEPT ![c][Cur(c)] = l]
  /\ Goto(c, "clrcpu")
  /\ UNCHANGED <<locked, lkcpu, intr, ncli, intena, base, inhandler, eflags,
                 held>>

\* Mutant: release() leaves lk->cpu as it is.
ClearCpuNot(c) ==
  /\ At(c, "clrcpu")
  /\ Goto(c, "unlock")
  /\ UNCHANGED <<locked, lkcpu, intr, ncli, intena, base, inhandler, eflags,
                 target, held, panicked>>

ClearCpu(c) ==
  /\ At(c, "clrcpu")
  /\ lkcpu' = [lkcpu EXCEPT ![target[c][Cur(c)]] = NoCPU]
  /\ Goto(c, "unlock")
  /\ UNCHANGED <<locked, intr, ncli, intena, base, inhandler, eflags, target,
                 held, panicked>>

Unlock(c) ==
  LET l == target[c][Cur(c)] IN
  /\ At(c, "unlock")
  /\ locked' = [locked EXCEPT ![l] = FALSE]
  /\ held' = [held EXCEPT ![c][Cur(c)] = @ \ {l}]
  /\ Goto(c, "popcli")
  /\ UNCHANGED <<lkcpu, intr, ncli, intena, base, inhandler, eflags, target,
                 panicked>>

\* Mutant: interrupts come back at the first popcli().
PopCliEager(c) ==
  /\ At(c, "popcli")
  /\ ncli' = [ncli EXCEPT ![c] = @ - 1]
  /\ intr' = [intr EXCEPT ![c] = @ \/ intena[c]]
  /\ Goto(c, "idle")
  /\ UNCHANGED <<locked, lkcpu, intena, base, inhandler, eflags, target, held,
                 panicked>>

PopCli(c) ==
  /\ At(c, "popcli")
  /\ IF intr[c] \/ ncli[c] = 0
     THEN panicked' = TRUE /\ UNCHANGED <<ncli, intr>>
     ELSE /\ ncli' = [ncli EXCEPT ![c] = @ - 1]
          /\ intr' = [intr EXCEPT ![c] = @ \/ (ncli[c] = 1 /\ intena[c])]
          /\ UNCHANGED panicked
  /\ Goto(c, "idle")
  /\ UNCHANGED <<locked, lkcpu, intena, base, inhandler, eflags, target, held>>

(***************************************************************************)
(* The processor: an interrupt gate clears FL_IF, and iret restores it.    *)
(***************************************************************************)
Interrupt(c) ==
  /\ ~panicked
  /\ intr[c]
  /\ inhandler' = [inhandler EXCEPT ![c] = TRUE]
  /\ intr' = [intr EXCEPT ![c] = FALSE]
  /\ UNCHANGED <<locked, lkcpu, ncli, intena, base, pc, eflags, target, held,
                 panicked>>

Iret(c) ==
  /\ inhandler[c]
  /\ At(c, "idle")
  /\ held[c]["handler"] = {}
  /\ inhandler' = [inhandler EXCEPT ![c] = FALSE]
  /\ intr' = [intr EXCEPT ![c] = TRUE]
  /\ UNCHANGED <<locked, lkcpu, ncli, intena, base, pc, eflags, target, held,
                 panicked>>

Acquire(c) ==
  \/ \E l \in Lock \cup {NoLock} : ReadEflags(c, l)
  \/ PushCli(c)
  \/ HoldingLocked(c)
  \/ HoldingCpu(c)
  \/ Xchg(c)
  \/ SetCpu(c)

Next ==
  \E c \in CPU :
    \/ Acquire(c)
    \/ \E l \in Lock : Release(c, l)
    \/ ClearCpu(c)
    \/ Unlock(c)
    \/ PopCli(c)
    \/ Interrupt(c)
    \/ Iret(c)

Spec == Init /\ [][Next]_vars

-----------------------------------------------------------------------------
TypeOK ==
  /\ locked \in [Lock -> BOOLEAN]
  /\ lkcpu \in [Lock -> CPU \cup {NoCPU}]
  /\ intr \in [CPU -> BOOLEAN]
  /\ ncli \in [CPU -> Nat]
  /\ intena \in [CPU -> BOOLEAN]
  /\ base \in [CPU -> BOOLEAN]
  /\ inhandler \in [CPU -> BOOLEAN]
  /\ pc \in [CPU -> [Ctx -> PC]]
  /\ eflags \in [CPU -> [Ctx -> BOOLEAN]]
  /\ target \in [CPU -> [Ctx -> Lock \cup {NoLock}]]
  /\ held \in [CPU -> [Ctx -> SUBSET Lock]]
  /\ panicked \in BOOLEAN

(***************************************************************************)
(* Two contexts, of two CPUs or of the same one, are never both between    *)
(* the winning xchg of acquire() and the clearing store of release().      *)
(***************************************************************************)
MutualExclusion ==
  \A c, d \in CPU : \A x, y \in Ctx :
    <<c, x>> # <<d, y>> => held[c][x] \cap held[d][y] = {}

(***************************************************************************)
(* A CPU that holds a lock takes no interrupt, so a handler never spins on *)
(* a lock of the thread it interrupted ("disable interrupts to avoid       *)
(* deadlock", spinlock.c:27).                                              *)
(***************************************************************************)
InterruptsOffWhileHolding ==
  \A c \in CPU : Held(c) # {} => ~intr[c]

(***************************************************************************)
(* None of the panics of acquire(), release() and popcli() is reachable:   *)
(* holding() never mistakes another CPU's lock for this CPU's, although it *)
(* reads lk->locked and lk->cpu without a lock while others write them.    *)
(***************************************************************************)
NoPanic == ~panicked

(***************************************************************************)
(* "It takes two popcli to undo two pushcli", and "if interrupts are off,  *)
(* then pushcli, popcli leaves them off" (spinlock.c:96): outside the lock *)
(* code a context that holds nothing has the interrupt flag it started     *)
(* with, whatever handlers ran in between.                                 *)
(***************************************************************************)
FlagRestored ==
  \A c \in CPU :
    pc[c][Cur(c)] = "idle" /\ held[c][Cur(c)] = {}
      => intr[c] = (~inhandler[c] /\ base[c])
=============================================================================
