-------------------------------- MODULE Proc --------------------------------
(***************************************************************************)
(* The process table of proc.c: fork, exit, wait, kill, yield, the         *)
(* priority scheduler of every CPU, and the traps that enter and leave     *)
(* them (trap.c).  ptable.lock is explicit, because sched() carries it     *)
(* across swtch(): a process acquires it, the scheduler that runs next     *)
(* keeps it, and the next process releases it.  A critical section that    *)
(* ends in release() is one step; code outside the lock (the EMBRYO phase  *)
(* of fork, the reads of p->killed) is split where others can intervene.   *)
(***************************************************************************)
EXTENDS Naturals, FiniteSets

CONSTANTS
  NPROC,      \* slots of ptable.proc
  CPU,        \* the processors
  NoCPU,      \* ptable.lock is free
  Syscalls,   \* system calls the user programs make
  Pids,       \* bound: the processes that kill and chpr name, that exec and fault
  Priorities, \* arguments they pass to chpr()
  MaxPid      \* bound: processes are created while nextpid <= MaxPid

ASSUME ProcAssumption ==
  /\ NPROC \in Nat \ {0}
  /\ NoCPU \notin CPU
  /\ Syscalls \subseteq {"fork", "exit", "wait", "kill", "chpr", "exec", "fault"}
  /\ Pids \subseteq Nat
  /\ Priorities \subseteq Nat
  /\ MaxPid \in Nat \ {0}

Slot == 1..NPROC
Null == 0                \* a null struct proc*
initproc == 1            \* userinit() fills the first slot

ProcState == {"UNUSED", "EMBRYO", "SLEEPING", "RUNNABLE", "RUNNING", "ZOMBIE"}

VARIABLES
  state, pid, parent, chan, killed, priority,   \* struct proc
  kstack,    \* p->kstack is not null
  pgdir,     \* p->pgdir: "none", "owned", or "freed" (dangling)
  nextpid,
  lock,      \* the CPU that holds ptable.lock
  cpuproc,   \* c->proc
  scan,      \* the loop variable p of scheduler(); 0 outside its loop
  intena,    \* c->intena
  pc,        \* where the kernel thread of each process is
  back,      \* where a process preempted by the timer goes on
  np,        \* the local variable np of fork()
  ena,       \* the local variable intena of sched()
  panicked

procVars == <<state, pid, parent, chan, killed, priority, kstack, pgdir,
              nextpid>>
cpuVars == <<lock, cpuproc, scan, intena>>
threadVars == <<pc, back, np, ena>>
vars == <<procVars, cpuVars, threadVars, panicked>>

\* Code of a process that runs with interrupts on and no lock held.
Preemptible == {"user", "fork_kstack", "fork_copy", "fork_ready", "sysret",
                "exit"}

PC == Preemptible \cup {"unborn", "forkret", "wait", "wait_sleep", "yielded",
                        "dead"}

Live == {"SLEEPING", "RUNNABLE", "RUNNING"}

-----------------------------------------------------------------------------
(***************************************************************************)
(* The scheduler's two loops over the table (scheduler).                   *)
(***************************************************************************)
Least(S) == CHOOSE p \in S : \A q \in S : p <= q

\* Mutant: the scheduler also takes a process that runs on another CPU.
RunnableOrRunning == {p \in Slot : state[p] \in {"RUNNABLE", "RUNNING"}}

Runnable == {p \in Slot : state[p] = "RUNNABLE"}

\* The outer loop stops at the first RUNNABLE slot from "from" on.
RunnableFrom(from) == {p \in Runnable : p >= from}

\* Mutant: the inner loop is left out.
HighPFirst(p) == p

\* highP starts as p and is replaced by any slot of smaller value, so it ends
\* as p if nothing beats it and else as the first slot of the best value.
HighP(p) ==
  LET best == {q \in Runnable : \A r \in Runnable : priority[q] <= priority[r]}
  IN IF p \in best THEN p ELSE Least(best)

(***************************************************************************)
(* Context switching.  Running(c, p): p's kernel thread executes on c.     *)
(***************************************************************************)
Running(c, p) == cpuproc[c] = p /\ ~panicked

\* acquire(&ptable.lock) with interrupts as in "on"; ncli was 0.
Acquire(c, on) ==
  /\ lock = NoCPU
  /\ lock' = c
  /\ intena' = [intena EXCEPT ![c] = on]

\* acquire(); ...; release() in one step.
Atomically(c) ==
  /\ lock = NoCPU
  /\ intena' = [intena EXCEPT ![c] = TRUE]
  /\ UNCHANGED <<lock, cpuproc, scan>>

\* Mutant: the scan starts over after every switch.
SwitchAndRestart(c, p) ==
  /\ ena' = [ena EXCEPT ![p] = intena'[c]]
  /\ cpuproc' = [cpuproc EXCEPT ![c] = Null]
  /\ scan' = [scan EXCEPT ![c] = 1]

\* sched(): save intena, switch to the scheduler, which sets c->proc = 0 and
\* goes on with the slot after p.
SwitchToScheduler(c, p) ==
  /\ ena' = [ena EXCEPT ![p] = intena'[c]]
  /\ cpuproc' = [cpuproc EXCEPT ![c] = Null]
  /\ scan' = [scan EXCEPT ![c] = p + 1]

\* Mutant: intena stays what the CPU's last thread left.
SchedReturnsRaw(c, p) == lock = c /\ UNCHANGED intena

\* The second half of sched(): the lock is held, by this CPU.
SchedReturns(c, p) ==
  /\ lock = c
  /\ intena' = [intena EXCEPT ![c] = ena[p]]

\* Mutant: the loop over the table misses its first slot.
Wakeup1Misses(st, ch) ==
  [p \in Slot |-> IF p > 1 /\ st[p] = "SLEEPING" /\ chan[p] = ch
                  THEN "RUNNABLE" ELSE st[p]]

\* wakeup1(chan), on the states st.
Wakeup1(st, ch) ==
  [p \in Slot |-> IF st[p] = "SLEEPING" /\ chan[p] = ch THEN "RUNNABLE" ELSE st[p]]

Goto(p, there) == pc' = [pc EXCEPT ![p] = there]

-----------------------------------------------------------------------------
\* userinit() has made the first process; the CPUs enter scheduler().
Init ==
  /\ state = [p \in Slot |-> IF p = initproc THEN "RUNNABLE" ELSE "UNUSED"]
  /\ pid = [p \in Slot |-> IF p = initproc THEN 1 ELSE 0]
  /\ parent = [p \in Slot |-> Null]
  /\ chan = [p \in Slot |-> Null]
  /\ killed = [p \in Slot |-> FALSE]
  /\ priority = [p \in Slot |-> IF p = initproc THEN 10 ELSE 0]
  /\ kstack = [p \in Slot |-> p = initproc]
  /\ pgdir = [p \in Slot |-> IF p = initproc THEN "owned" ELSE "none"]
  /\ nextpid = 2
  /\ lock = NoCPU
  /\ cpuproc = [c \in CPU |-> Null]
  /\ scan = [c \in CPU |-> 0]
  /\ intena = [c \in CPU |-> FALSE]
  /\ pc = [p \in Slot |-> IF p = initproc THEN "forkret" ELSE "unborn"]
  /\ back = [p \in Slot |-> "user"]
  /\ np = [p \in Slot |-> Null]
  /\ ena = [p \in Slot |-> FALSE]
  /\ panicked = FALSE

(***************************************************************************)
(* scheduler()                                                             *)
(***************************************************************************)
SchedulerAcquire(c) ==
  /\ Running(c, Null)
  /\ scan[c] = 0
  /\ Acquire(c, TRUE)
  /\ scan' = [scan EXCEPT ![c] = 1]
  /\ UNCHANGED <<procVars, cpuproc, threadVars, panicked>>

\* switchuvm() panics on a process without stack or page table.
SchedulerSwitch(c) ==
  /\ Running(c, Null)
  /\ lock = c
  /\ RunnableFrom(scan[c]) # {}
  /\ LET p == HighP(Least(RunnableFrom(scan[c]))) IN
       /\ cpuproc' = [cpuproc EXCEPT ![c] = p]
       /\ state' = [state EXCEPT ![p] = "RUNNING"]
       /\ panicked' = ~(kstack[p] /\ pgdir[p] = "owned")
  /\ UNCHANGED <<pid, parent, chan, killed, priority, kstack, pgdir, nextpid,
                 lock, scan, intena, threadVars>>

SchedulerRelease(c) ==
  /\ Running(c, Null)
  /\ lock = c
  /\ RunnableFrom(scan[c]) = {}
  /\ lock' = NoCPU
  /\ scan' = [scan EXCEPT ![c] = 0]
  /\ UNCHANGED <<procVars, cpuproc, intena, threadVars, panicked>>

\* forkret(): release the scheduler's lock and return to user space.
Forkret(c, p) ==
  /\ Running(c, p)
  /\ pc[p] = "forkret"
  /\ lock = c
  /\ lock' = NoCPU
  /\ Goto(p, "user")
  /\ UNCHANGED <<procVars, cpuproc, scan, intena, back, np, ena,
                 panicked>>

(***************************************************************************)
(* Traps.  A killed process exits when it enters the kernel from user      *)
(* space and when a system call returns.                                   *)
(***************************************************************************)
TrapKilled(c, p) ==
  /\ Running(c, p)
  /\ pc[p] = "user"
  /\ killed[p]
  /\ Goto(p, "exit")
  /\ UNCHANGED <<procVars, cpuVars, back, np, ena, panicked>>

Sysret(c, p) ==
  /\ Running(c, p)
  /\ pc[p] = "sysret"
  /\ Goto(p, IF killed[p] THEN "exit" ELSE "user")
  /\ UNCHANGED <<procVars, cpuVars, back, np, ena, panicked>>

\* An exception in user space.
Fault(c, p) ==
  /\ "fault" \in Syscalls
  /\ Running(c, p)
  /\ pc[p] = "user"
  /\ killed' = [killed EXCEPT ![p] = TRUE]
  /\ Goto(p, "exit")
  /\ UNCHANGED <<state, pid, parent, chan, priority, kstack, pgdir, nextpid,
                 cpuVars, back, np, ena, panicked>>

\* The timer interrupt: yield(), with interrupts off.
Timer(c, p) ==
  /\ Running(c, p)
  /\ pc[p] \in Preemptible
  /\ ~(pc[p] = "user" /\ killed[p])
  /\ Acquire(c, FALSE)
  /\ state' = [state EXCEPT ![p] = "RUNNABLE"]
  /\ back' = [back EXCEPT ![p] = pc[p]]
  /\ Goto(p, "yielded")
  /\ SwitchToScheduler(c, p)
  /\ UNCHANGED <<pid, parent, chan, killed, priority, kstack, pgdir, nextpid,
                 np, panicked>>

\* yield() returns; trap() checks p->killed again.
YieldReturns(c, p) ==
  /\ Running(c, p)
  /\ pc[p] = "yielded"
  /\ SchedReturns(c, p)
  /\ lock' = NoCPU
  /\ Goto(p, IF back[p] = "user" /\ killed[p] THEN "exit" ELSE back[p])
  /\ UNCHANGED <<procVars, cpuproc, scan, back, np, ena, panicked>>

Syscall(c, p, name) ==
  /\ name \in Syscalls
  /\ Running(c, p)
  /\ pc[p] = "user"
  /\ ~killed[p]

(***************************************************************************)
(* fork()                                                                  *)
(***************************************************************************)
Unused == {q \in Slot : state[q] = "UNUSED"}

\* allocproc() up to its release(); p->killed is not reset.
Allocproc(c, p) ==
  /\ Syscall(c, p, "fork")
  /\ Unused = {} \/ nextpid <= MaxPid
  /\ Atomically(c)
  /\ IF Unused = {}
     THEN Goto(p, "sysret") /\ UNCHANGED <<procVars, np>>
     ELSE LET q == Least(Unused) IN
          /\ state' = [state EXCEPT ![q] = "EMBRYO"]
          /\ pid' = [pid EXCEPT ![q] = nextpid]
          /\ nextpid' = nextpid + 1
          /\ priority' = [priority EXCEPT ![q] = 10]
          /\ np' = [np EXCEPT ![p] = q]
          /\ Goto(p, "fork_kstack")
          /\ UNCHANGED <<parent, chan, killed, kstack, pgdir>>
  /\ UNCHANGED <<back, ena, panicked>>

\* allocproc(): kalloc() may fail, and the slot is freed without the lock.
AllocKstack(c, p, ok) ==
  /\ Running(c, p)
  /\ pc[p] = "fork_kstack"
  /\ IF ok
     THEN /\ kstack' = [kstack EXCEPT ![np[p]] = TRUE]
          /\ Goto(p, "fork_copy")
          /\ UNCHANGED <<state, np>>
     ELSE /\ state' = [state EXCEPT ![np[p]] = "UNUSED"]
          /\ np' = [np EXCEPT ![p] = Null]
          /\ Goto(p, "sysret")
          /\ UNCHANGED kstack
  /\ UNCHANGED <<pid, parent, chan, killed, priority, pgdir, nextpid, cpuVars,
                 back, ena, panicked>>

\* Mutant: the stack of the child that is given up leaks.
KfreeKstackNot(q) == UNCHANGED kstack

\* kfree(np->kstack); np->kstack = 0
KfreeKstack(q) == kstack' = [kstack EXCEPT ![q] = FALSE]

\* copyuvm() may fail; on success the child is linked to its parent.
CopyProc(c, p, ok) ==
  /\ Running(c, p)
  /\ pc[p] = "fork_copy"
  /\ IF ok
     THEN /\ pgdir' = [pgdir EXCEPT ![np[p]] = "owned"]
          /\ parent' = [parent EXCEPT ![np[p]] = p]
          /\ Goto(p, "fork_ready")
          /\ UNCHANGED <<state, kstack, np>>
     ELSE /\ pgdir' = [pgdir EXCEPT ![np[p]] = "none"]
          /\ KfreeKstack(np[p])
          /\ state' = [state EXCEPT ![np[p]] = "UNUSED"]
          /\ np' = [np EXCEPT ![p] = Null]
          /\ Goto(p, "sysret")
          /\ UNCHANGED parent
  /\ UNCHANGED <<pid, chan, killed, priority, nextpid, cpuVars, back, ena,
                 panicked>>

MakeRunnable(c, p) ==
  /\ Running(c, p)
  /\ pc[p] = "fork_ready"
  /\ Atomically(c)
  /\ state' = [state EXCEPT ![np[p]] = "RUNNABLE"]
  /\ pc' = [pc EXCEPT ![p] = "sysret", ![np[p]] = "forkret"]
  /\ np' = [np EXCEPT ![p] = Null]
  /\ UNCHANGED <<pid, parent, chan, killed, priority, kstack, pgdir, nextpid,
                 back, ena, panicked>>

(***************************************************************************)
(* exit(): files are closed before the lock is taken.  The parent and, if  *)
(* a zombie child is passed on, init are woken; then the lock goes to the  *)
(* scheduler.                                                              *)
(***************************************************************************)
\* Mutant: only zombies count as children.
ChildrenZombie(p) == {q \in Slot : parent[q] = p /\ state[q] = "ZOMBIE"}

Children(p) == {q \in Slot : parent[q] = p}

SysExit(c, p) ==
  /\ Syscall(c, p, "exit")
  /\ Goto(p, "exit")
  /\ UNCHANGED <<procVars, cpuVars, back, np, ena, panicked>>

ExitInit(c) ==
  /\ Running(c, initproc)
  /\ pc[initproc] = "exit"
  /\ panicked' = TRUE
  /\ UNCHANGED <<procVars, cpuVars, threadVars>>

Exit(c, p) ==
  LET wokeParent == Wakeup1(state, parent[p])
      orphans == Children(p)
      woke == IF \E q \in orphans : state[q] = "ZOMBIE"
              THEN Wakeup1(wokeParent, initproc) ELSE wokeParent
  IN
  /\ Running(c, p)
  /\ pc[p] = "exit"
  /\ p # initproc
  /\ Acquire(c, TRUE)
  /\ parent' = [q \in Slot |-> IF q \in orphans THEN initproc ELSE parent[q]]
  /\ state' = [woke EXCEPT ![p] = "ZOMBIE"]
  /\ Goto(p, "dead")
  /\ SwitchToScheduler(c, p)
  /\ UNCHANGED <<pid, chan, killed, priority, kstack, pgdir, nextpid, back, np,
                 panicked>>

(***************************************************************************)
(* wait()                                                                  *)
(***************************************************************************)
SysWait(c, p) ==
  /\ Syscall(c, p, "wait")
  /\ Acquire(c, TRUE)
  /\ Goto(p, "wait")
  /\ UNCHANGED <<procVars, cpuproc, scan, back, np, ena, panicked>>

ZombieChildren(p) == {q \in Children(p) : state[q] = "ZOMBIE"}

\* Reap the first zombie child; its page directory pointer is left behind.
WaitReap(c, p) ==
  /\ Running(c, p)
  /\ pc[p] = "wait"
  /\ ZombieChildren(p) # {}
  /\ LET q == Least(ZombieChildren(p)) IN
       /\ state' = [state EXCEPT ![q] = "UNUSED"]
       /\ pid' = [pid EXCEPT ![q] = 0]
       /\ parent' = [parent EXCEPT ![q] = Null]
       /\ killed' = [killed EXCEPT ![q] = FALSE]
       /\ kstack' = [kstack EXCEPT ![q] = FALSE]
       /\ pgdir' = [pgdir EXCEPT ![q] = "freed"]
       /\ pc' = [pc EXCEPT ![p] = "sysret", ![q] = "unborn"]
  /\ lock' = NoCPU
  /\ UNCHANGED <<chan, priority, nextpid, cpuproc, scan, intena, back, np, ena,
                 panicked>>

\* Mutant: a killed process goes back to sleep.
NoPointIfChildless(p) == Children(p) = {}

\* "No point waiting": the loop of wait() ends.
NoPointWaiting(p) == Children(p) = {} \/ killed[p]

WaitFails(c, p) ==
  /\ Running(c, p)
  /\ pc[p] = "wait"
  /\ ZombieChildren(p) = {}
  /\ NoPointWaiting(p)
  /\ lock' = NoCPU
  /\ Goto(p, "sysret")
  /\ UNCHANGED <<procVars, cpuproc, scan, intena, back, np, ena,
                 panicked>>

\* sleep(curproc, &ptable.lock)
WaitSleep(c, p) ==
  /\ Running(c, p)
  /\ pc[p] = "wait"
  /\ ZombieChildren(p) = {}
  /\ ~NoPointWaiting(p)
  /\ chan' = [chan EXCEPT ![p] = p]
  /\ state' = [state EXCEPT ![p] = "SLEEPING"]
  /\ Goto(p, "wait_sleep")
  /\ UNCHANGED <<lock, intena>>
  /\ SwitchToScheduler(c, p)
  /\ UNCHANGED <<pid, parent, killed, priority, kstack, pgdir, nextpid, back,
                 np, panicked>>

WaitWakes(c, p) ==
  /\ Running(c, p)
  /\ pc[p] = "wait_sleep"
  /\ SchedReturns(c, p)
  /\ chan' = [chan EXCEPT ![p] = Null]
  /\ Goto(p, "wait")
  /\ UNCHANGED <<state, pid, parent, killed, priority, kstack, pgdir, nextpid,
                 lock, cpuproc, scan, back, np, ena, panicked>>

(***************************************************************************)
(* kill(), chpr(): the first slot with the given pid, whatever its state.  *)
(***************************************************************************)
SlotsOf(n) == {q \in Slot : pid[q] = n}

Kill(c, p, n) ==
  /\ Syscall(c, p, "kill")
  /\ Atomically(c)
  /\ IF SlotsOf(n) = {}
     THEN UNCHANGED <<killed, state>>
     ELSE LET q == Least(SlotsOf(n)) IN
          /\ killed' = [killed EXCEPT ![q] = TRUE]
          /\ state' = [state EXCEPT ![q] =
                         IF @ = "SLEEPING" THEN "RUNNABLE" ELSE @]
  /\ Goto(p, "sysret")
  /\ UNCHANGED <<pid, parent, chan, priority, kstack, pgdir, nextpid, back, np,
                 ena, panicked>>

Chpr(c, p, n, pr) ==
  /\ Syscall(c, p, "chpr")
  /\ Atomically(c)
  /\ priority' = IF SlotsOf(n) = {} THEN priority
                 ELSE [priority EXCEPT ![Least(SlotsOf(n))] = pr]
  /\ Goto(p, "sysret")
  /\ UNCHANGED <<state, pid, parent, chan, killed, kstack, pgdir, nextpid,
                 back, np, ena, panicked>>

\* exec() ends with an unlocked write of the priority.
Exec(c, p) ==
  /\ Syscall(c, p, "exec")
  /\ priority' = [priority EXCEPT ![p] = 2]
  /\ Goto(p, "sysret")
  /\ UNCHANGED <<state, pid, parent, chan, killed, kstack, pgdir, nextpid,
                 cpuVars, back, np, ena, panicked>>

-----------------------------------------------------------------------------
\* panic() freezes the machine.
Halted == panicked /\ UNCHANGED vars

Scheduler(c) ==
  \/ SchedulerAcquire(c)
  \/ SchedulerSwitch(c)
  \/ SchedulerRelease(c)

\* What a process in the kernel does next; nothing of it is optional.
KernelStep(c, p) ==
  \/ Forkret(c, p) \/ TrapKilled(c, p) \/ Sysret(c, p)
  \/ \E ok \in BOOLEAN : AllocKstack(c, p, ok) \/ CopyProc(c, p, ok)
  \/ MakeRunnable(c, p)
  \/ Exit(c, p)
  \/ WaitReap(c, p) \/ WaitFails(c, p) \/ WaitSleep(c, p) \/ WaitWakes(c, p)

\* What a user program may ask for.
UserStep(c, p) ==
  \/ Allocproc(c, p) \/ SysExit(c, p) \/ SysWait(c, p)
  \/ pid[p] \in Pids /\ (Exec(c, p) \/ Fault(c, p))
  \/ \E n \in Pids : Kill(c, p, n)
  \/ \E n \in Pids, pr \in Priorities : Chpr(c, p, n, pr)

Next ==
  \/ \E c \in CPU :
       \/ Scheduler(c)
       \/ ExitInit(c)
       \/ \E p \in Slot : KernelStep(c, p) \/ UserStep(c, p) \/ Timer(c, p)
                      \/ YieldReturns(c, p)
  \/ Halted

Spec == Init /\ [][Next]_vars

(***************************************************************************)
(* Every CPU keeps executing and keeps taking timer interrupts; user       *)
(* programs need not do anything.  The timer is strongly fair, because a   *)
(* tick that finds interrupts off stays pending, and so is a kernel step,  *)
(* because a thread that is preempted again and again still executes its   *)
(* instructions between two ticks (lapic.c: ten million bus cycles).       *)
(***************************************************************************)
Fairness ==
  \A c \in CPU :
    /\ WF_vars(Scheduler(c))
    /\ \A p \in Slot :
         /\ SF_vars(KernelStep(c, p))
         /\ SF_vars(Timer(c, p))
         /\ WF_vars(YieldReturns(c, p))

FairSpec == Spec /\ Fairness

-----------------------------------------------------------------------------
TypeOK ==
  /\ state \in [Slot -> ProcState]
  /\ pid \in [Slot -> Nat]
  /\ parent \in [Slot -> Slot \cup {Null}]
  /\ chan \in [Slot -> Slot \cup {Null}]
  /\ killed \in [Slot -> BOOLEAN]
  /\ priority \in [Slot -> Nat]
  /\ kstack \in [Slot -> BOOLEAN]
  /\ pgdir \in [Slot -> {"none", "owned", "freed"}]
  /\ nextpid \in Nat
  /\ lock \in CPU \cup {NoCPU}
  /\ cpuproc \in [CPU -> Slot \cup {Null}]
  /\ scan \in [CPU -> 0..(NPROC + 1)]
  /\ intena \in [CPU -> BOOLEAN]
  /\ pc \in [Slot -> PC]
  /\ back \in [Slot -> Preemptible]
  /\ np \in [Slot -> Slot \cup {Null}]
  /\ ena \in [Slot -> BOOLEAN]
  /\ panicked \in BOOLEAN

(***************************************************************************)
(* A process is RUNNING exactly when some CPU runs it, and no two CPUs run *)
(* the same process on its one kernel stack, although the lock that        *)
(* protects the switch is taken by one thread and released by another      *)
(* (sched, scheduler).                                                     *)
(***************************************************************************)
OneCpuPerProcess ==
  /\ \A p \in Slot : state[p] = "RUNNING" <=> \E c \in CPU : cpuproc[c] = p
  /\ \A c, d \in CPU : cpuproc[c] = cpuproc[d] /\ cpuproc[c] # Null => c = d

\* The processes for which cps(), with ptable.lock, prints p->parent->pid.
Listed == {p \in Slot : state[p] \in Live /\ pid[p] > 1}

(***************************************************************************)
(* Every process but init that can run or waits to be reaped has a parent  *)
(* that is alive and can still reap it, and cps(), like getppid() and      *)
(* suid(), may follow the pointer without a check (exit hands children to  *)
(* init).                                                                  *)
(***************************************************************************)
ParentAlive ==
  /\ \A p \in Slot \ {initproc} :
       state[p] \in Live \cup {"ZOMBIE"} =>
         parent[p] # Null /\ state[parent[p]] \in Live
  /\ \A p \in Listed : parent[p] # Null

(***************************************************************************)
(* No wakeup of wait() is lost: a process that sleeps in wait() has no     *)
(* zombie child and was not killed, so it need not look (exit, kill,       *)
(* sleep).                                                                 *)
(***************************************************************************)
NoLostExit ==
  \A p \in Slot :
    state[p] = "SLEEPING" => ZombieChildren(p) = {} /\ ~killed[p]

\* An EMBRYO belongs to exactly one fork() in progress.
ForkOwns(p, q) == np[p] = q /\ state[p] # "UNUSED"

EmbryoOwned ==
  /\ \A q \in Slot : state[q] = "EMBRYO" <=> \E p \in Slot : ForkOwns(p, q)
  /\ \A p, q \in Slot : np[p] = np[q] /\ np[p] # Null => p = q

(***************************************************************************)
(* Memory follows the life of a process: whoever can be scheduled has a    *)
(* kernel stack and a page table, a free slot has no stack, an EMBRYO      *)
(* belongs to one fork(), which alone makes its unlocked writes and the    *)
(* unlocked release of the slot on its error paths safe, and the only      *)
(* panic is init's exit (switchuvm, wait, allocproc, fork).                *)
(***************************************************************************)
ResourcesOwned ==
  /\ EmbryoOwned
  /\ \A p \in Slot :
       /\ state[p] \in Live \cup {"ZOMBIE"} => kstack[p] /\ pgdir[p] = "owned"
       /\ state[p] = "UNUSED" => ~kstack[p] /\ pgdir[p] # "owned"
  /\ panicked => pc[initproc] = "exit"

(***************************************************************************)
(* The interrupt state is "a property of this kernel thread, not this      *)
(* CPU" (proc.c:386): a process that went to sleep in a system call goes   *)
(* on with interrupts enabled on release, even if the CPU was last used by *)
(* a thread that yielded from an interrupt handler (sched).                *)
(***************************************************************************)
IntenaFollowsThread ==
  \A c \in CPU : \A p \in Slot :
    cpuproc[c] = p /\ pc[p] = "wait" => lock = c /\ intena[c]

(***************************************************************************)
(* "choose one with highest priority" (proc.c:356): the process a CPU      *)
(* switches to is one of smallest priority value among the RUNNABLE ones,  *)
(* wherever the outer loop stands (scheduler).                             *)
(***************************************************************************)
HighestPriorityRuns ==
  [][\A c \in CPU :
       cpuproc[c] = Null /\ cpuproc'[c] # Null =>
         \A q \in Runnable : priority[cpuproc'[c]] <= priority[q]]_vars

(***************************************************************************)
(* With equal priorities the scan is round robin: a process that is        *)
(* RUNNABLE gets a CPU.  (scheduler, yield)                                *)
(***************************************************************************)
RunnableRuns ==
  \A p \in Slot : state[p] = "RUNNABLE" ~> state[p] # "RUNNABLE" \/ panicked

(***************************************************************************)
(* A wait() with a zombie child to report returns (exit, wait).            *)
(***************************************************************************)
WaitReturns ==
  \A p \in Slot :
    pc[p] \in {"wait", "wait_sleep"} /\ ZombieChildren(p) # {}
      ~> pc[p] \notin {"wait", "wait_sleep"} \/ panicked

(***************************************************************************)
(* A killed process stops being a process: it becomes a zombie, or the     *)
(* machine stops because it was init (kill, trap).                         *)
(***************************************************************************)
KilledExits ==
  \A p \in Slot :
    killed[p] /\ state[p] \in Live ~> state[p] \notin Live \/ panicked
=============================================================================
