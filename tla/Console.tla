------------------------------ MODULE Console -------------------------------
(***************************************************************************)
(* The console and the clock: two devices whose interrupt handlers wake    *)
(* processes, and the hand-over of locks in sleep() that makes this safe.  *)
(* consoleintr() edits a line in a ring, consoleread() takes finished      *)
(* lines out of it, sys_sleep() waits for ticks.  The three spin locks are *)
(* explicit: cons.lock, tickslock and, inside sleep() and wakeup(),        *)
(* ptable.lock.  A stretch of code that gives up no lock and waits for     *)
(* none is one step.  Unsigned counters wrap at UINT.                      *)
(***************************************************************************)
EXTENDS Integers, Sequences, FiniteSets

CONSTANTS
  Proc,
  INPUT_BUF, UINT,
  COLS, ROWS,     \* of the screen: 80 and 25 in the code
  Reads, Sleeps   \* arguments of read() and sleep()

ASSUME ConsoleAssumption ==
  /\ INPUT_BUF \in Nat \ {0} /\ UINT \in Nat /\ UINT > INPUT_BUF
  /\ UINT % INPUT_BUF = 0
  /\ COLS \in Nat \ {0} /\ ROWS \in Nat \ {0, 1}
  /\ Reads \subseteq Nat \ {0} /\ Sleeps \subseteq Int
  /\ Proc \cap {"none", "kbd", "timer"} = {}

VARIABLES
  buf, r, w, e,     \* input
  pos,              \* cursor
  ticks,
  lock,             \* holder of each spin lock
  pc, call,         \* system call of each process, with its local variables
  killed,
  kbd, timer        \* where the two interrupt handlers are

input == <<buf, r, w, e>>
vars == <<input, pos, ticks, lock, pc, call, killed, kbd, timer>>

Lock == {"cons", "tickslock", "ptable"}
NoCall == [on |-> "cons", n |-> 0, copied |-> 0, ticks0 |-> -1]
PC == {"user", "acquire", "sleep", "handover", "asleep"}
EOT == "^D"
Typed == {"a", "cr", EOT, "^H", "^U"}

Free(l) == lock[l] = "none"
Hold(l, who) == lock' = [lock EXCEPT ![l] = who]
Drop(l) == lock' = [lock EXCEPT ![l] = "none"]
Goto(p, there) == pc' = [pc EXCEPT ![p] = there]

-----------------------------------------------------------------------------
\* Mutant: the screen scrolls one line too late.
cgaputcLate(at, c) ==
  LET to == CASE c = "nl" -> at + COLS - (at % COLS)
              [] c = "^H" -> IF at > 0 THEN at - 1 ELSE 0
              [] OTHER -> at + 1
  IN IF to \div COLS > ROWS THEN to - COLS ELSE to

\* The cursor after cgaputc(c): the screen scrolls in its last line.
cgaputc(at, c) ==
  LET to == CASE c = "nl" -> at + COLS - (at % COLS)
              [] c = "^H" -> IF at > 0 THEN at - 1 ELSE 0
              [] OTHER -> at + 1
  IN IF to \div COLS >= ROWS - 1 THEN to - COLS ELSE to

Init ==
  /\ buf = [i \in 0..INPUT_BUF-1 |-> "a"] /\ r = 0 /\ w = 0 /\ e = 0
  /\ pos = 0 /\ ticks = 0
  /\ lock = [l \in Lock |-> "none"]
  /\ pc = [p \in Proc |-> "user"] /\ call = [p \in Proc |-> NoCall]
  /\ killed = [p \in Proc |-> FALSE]
  /\ kbd = "idle" /\ timer = "idle"

\* The n bytes of the ring from index i on.
Bytes(i, n) == [k \in 1..n |-> buf[(i + k - 1) % INPUT_BUF]]
Minus(m, n) == (UINT + m - n) % UINT

\* wakeup(chan) marks the sleepers RUNNABLE; in sleep() they release
\* ptable.lock, which the scheduler gave them, and want their own lock back.
Wakeup(chan) ==
  pc' = [p \in Proc |-> IF pc[p] = "asleep" /\ call[p].on = chan
                        THEN "acquire" ELSE pc[p]]

(***************************************************************************)
(* consoleintr(), called by the keyboard and by the serial port.           *)
(***************************************************************************)
\* Mutant: a full ring is not published.
PublishesLine(c) == c \in {"nl", EOT}

\* A line is finished by a newline, by ^D, and by the end of the ring.
Publishes(c) == c \in {"nl", EOT} \/ Minus(e, r) = INPUT_BUF - 1

Store(c) ==
  /\ Minus(e, r) < INPUT_BUF
  /\ buf' = [buf EXCEPT ![e % INPUT_BUF] = c]
  /\ e' = (e + 1) % UINT
  /\ pos' = cgaputc(pos, c)
  /\ \/ /\ Publishes(c)
        /\ w' = (e + 1) % UINT
        /\ kbd' = "wakeup" /\ Hold("cons", "kbd")
     \/ ~Publishes(c) /\ UNCHANGED <<w, kbd, lock>>
  /\ UNCHANGED r

\* Mutant: ^H goes on into the part that readers may have.
EraseTooFar == e # r

Erasable == e # w

Erase(n) ==
  /\ Erasable
  /\ e' = Minus(e, n)
  /\ pos' = IF pos >= n THEN pos - n ELSE 0
  /\ UNCHANGED <<buf, r, w, kbd, lock>>

\* ^U erases back to w, or to a newline after it.
LineLength ==
  LET s == Bytes(w, Minus(e, w)) IN
  Len(s) - (IF \E k \in DOMAIN s : s[k] = "nl"
            THEN CHOOSE k \in DOMAIN s : s[k] = "nl" /\ \A m \in k+1..Len(s) : s[m] # "nl"
            ELSE 0)

\* One round of the loop of consoleintr(): cons.lock may be released after
\* it or kept for the next.  A character that changes nothing (^H in an empty
\* line, anything in a full ring) is not a step.
Getc(c) ==
  /\ kbd = "idle" /\ Free("cons")
  /\ \/ c = "^U" /\ Erase(LineLength)
     \/ c = "^H" /\ Erase(1)
     \/ c \notin {"^U", "^H"} /\ Store(IF c = "cr" THEN "nl" ELSE c)
  /\ UNCHANGED <<ticks, pc, call, killed, timer>>

\* A character of cprintf(), which takes cons.lock whatever it prints.
Cprintf(c) == Free("cons") /\ pos' = cgaputc(pos, c)

\* ^P: at its end, without cons.lock, consoleintr() calls procdump(), which
\* takes no lock of its own and only prints.  How much it has printed changes
\* nothing but the cursor, so each character is a step from the idle handler.
Procdump(c) ==
  /\ kbd = "idle"
  /\ Cprintf(c)
  /\ UNCHANGED <<input, ticks, lock, pc, call, killed, kbd, timer>>

IntrWakes ==
  /\ kbd = "wakeup" /\ Free("ptable")
  /\ Wakeup("cons")
  /\ Drop("cons")
  /\ kbd' = "idle"
  /\ UNCHANGED <<input, pos, ticks, call, killed, timer>>

(***************************************************************************)
(* The timer interrupt, on processor 0.                                    *)
(***************************************************************************)
Tick ==
  /\ timer = "idle" /\ Free("tickslock")
  /\ Hold("tickslock", "timer")
  /\ ticks' = (ticks + 1) % UINT
  /\ timer' = "wakeup"
  /\ UNCHANGED <<input, pos, pc, call, killed, kbd>>

TickWakes ==
  /\ timer = "wakeup" /\ Free("ptable")
  /\ Wakeup("tickslock")
  /\ Drop("tickslock")
  /\ timer' = "idle"
  /\ UNCHANGED <<input, pos, ticks, call, killed, kbd>>

(***************************************************************************)
(* System calls                                                            *)
(***************************************************************************)
SysRead(p, n) ==
  /\ pc[p] = "user"
  /\ call' = [call EXCEPT ![p] = [NoCall EXCEPT !.n = n]]
  /\ Goto(p, "acquire")
  /\ UNCHANGED <<input, pos, ticks, lock, killed, kbd, timer>>

SysSleep(p, n) ==
  /\ pc[p] = "user"
  /\ call' = [call EXCEPT ![p] = [NoCall EXCEPT !.on = "tickslock", !.n = n]]
  /\ Goto(p, "acquire")
  /\ UNCHANGED <<input, pos, ticks, lock, killed, kbd, timer>>

\* consolewrite() holds cons.lock for all of its output.
ConsoleWrite(p, c) ==
  /\ pc[p] = "user" /\ Free("cons")
  /\ pos' = cgaputc(pos, c)
  /\ UNCHANGED <<input, ticks, lock, pc, call, killed, kbd, timer>>

\* Back in trap() a killed process exits; a new one takes its place.
Return(p) ==
  /\ Goto(p, "user")
  /\ killed' = [killed EXCEPT ![p] = FALSE]
  /\ call' = [call EXCEPT ![p] = NoCall]
  /\ UNCHANGED lock

\* if(killed) return -1; sleep(...), with the local variables of c.
MayWait(p, c) ==
  \/ killed[p] /\ Return(p)
  \/ /\ ~killed[p]
     /\ Goto(p, "sleep")
     /\ call' = [call EXCEPT ![p] = c]
     /\ Hold(c.on, p)
     /\ UNCHANGED killed

\* Mutant: ^D is taken out of the ring together with what comes before it.
EndLost(p, s, k) == k

\* A ^D after other characters stays for the next read.
End(p, s, k) == IF s[k] = EOT /\ (k > 1 \/ call[p].copied > 0) THEN k - 1 ELSE k

\* The loop of consoleread(), from acquire() to sleep() or release().
ReadLine(p) ==
  LET s == Bytes(r, Minus(w, r))
      n == call[p].n
      Ends == {k \in 1..Len(s) : k <= n /\ (s[k] \in {"nl", EOT} \/ k = n)}
      k == CHOOSE i \in Ends : \A j \in Ends : i <= j
  IN
  /\ pc[p] = "acquire" /\ call[p].on = "cons" /\ Free("cons")
  /\ \/ /\ Ends # {}
        /\ r' = (r + End(p, s, k)) % UINT
        /\ Return(p)
     \/ /\ Ends = {}
        /\ r' = w
        /\ MayWait(p, [call[p] EXCEPT !.n = @ - Len(s), !.copied = @ + Len(s)])
  /\ UNCHANGED <<buf, w, e, pos, ticks, kbd, timer>>

\* ticks - ticks0 < n, in unsigned arithmetic
NotYet(c) == Minus(ticks, c.ticks0) < (UINT + c.n) % UINT

\* The loop of sys_sleep(); ticks0 is set when the lock is first held.
SleepLoop(p) ==
  LET c == IF call[p].ticks0 = -1 THEN [call[p] EXCEPT !.ticks0 = ticks] ELSE call[p] IN
  /\ pc[p] = "acquire" /\ call[p].on = "tickslock" /\ Free("tickslock")
  /\ \/ ~NotYet(c) /\ Return(p)
     \/ NotYet(c) /\ MayWait(p, c)
  /\ UNCHANGED <<input, pos, ticks, kbd, timer>>

(***************************************************************************)
(* sleep(chan, lk)                                                         *)
(***************************************************************************)
\* Mutant: lk is released before ptable.lock is held.
SleepUnlocked(p) ==
  /\ pc[p] = "sleep"
  /\ Drop(call[p].on)
  /\ Goto(p, "handover")
  /\ UNCHANGED <<input, pos, ticks, call, killed, kbd, timer>>

Sleep(p) ==
  /\ pc[p] = "sleep" /\ Free("ptable")
  /\ lock' = [lock EXCEPT !["ptable"] = p, ![call[p].on] = "none"]
  /\ Goto(p, "handover")
  /\ UNCHANGED <<input, pos, ticks, call, killed, kbd, timer>>

\* state = SLEEPING, and sched() lets go of ptable.lock.
Sched(p) ==
  /\ pc[p] = "handover"
  /\ Drop("ptable")
  /\ Goto(p, "asleep")
  /\ UNCHANGED <<input, pos, ticks, call, killed, kbd, timer>>

Kill(p) ==
  /\ pc[p] # "user" /\ ~killed[p] /\ Free("ptable")
  /\ killed' = [killed EXCEPT ![p] = TRUE]
  /\ pc' = [pc EXCEPT ![p] = IF @ = "asleep" THEN "acquire" ELSE @]
  /\ UNCHANGED <<input, pos, ticks, lock, call, kbd, timer>>

Next ==
  \/ IntrWakes \/ \E c \in Typed : Getc(c)
  \/ \E c \in {"a", "nl"} : Procdump(c)
  \/ Tick \/ TickWakes
  \/ \E p \in Proc :
       \/ \E n \in Reads : SysRead(p, n)
       \/ \E n \in Sleeps : SysSleep(p, n)
       \/ \E c \in {"a", "nl"} : ConsoleWrite(p, c)
       \/ ReadLine(p) \/ SleepLoop(p) \/ Sleep(p) \/ Sched(p) \/ Kill(p)

Spec == Init /\ [][Next]_vars

-----------------------------------------------------------------------------
TypeOK ==
  /\ buf \in [0..INPUT_BUF-1 -> {"a", "nl", EOT}]
  /\ r \in 0..UINT-1 /\ w \in 0..UINT-1 /\ e \in 0..UINT-1
  /\ pos \in Nat /\ ticks \in 0..UINT-1
  /\ lock \in [Lock -> {"none", "kbd", "timer"} \cup Proc]
  /\ pc \in [Proc -> PC]
  /\ call \in [Proc -> [on: {"cons", "tickslock"}, n: Int, copied: Nat, ticks0: Int]]
  /\ killed \in [Proc -> BOOLEAN]
  /\ kbd \in {"idle", "wakeup"} /\ timer \in {"idle", "wakeup"}

(***************************************************************************)
(* Finished input is a queue: no character is lost, repeated or delivered  *)
(* before its line is finished, and none changes by later editing, across  *)
(* the wraparound and with several readers (consoleintr, consoleread).     *)
(***************************************************************************)
Finished == Bytes(r, Minus(w, r))

Abstract == INSTANCE Fifo WITH
  queue <- Finished, Capacity <- INPUT_BUF, Byte <- {"a", "nl", EOT}

FinishedIsFifo == Abstract!Spec

(***************************************************************************)
(* Each ^D ends exactly one read with 0 bytes: it leaves the queue in a    *)
(* read that returns nothing else, and no other read returns nothing.      *)
(* Killed processes aside, this is how a program sees the end of its input *)
(* (the "save ^D for next time" of consoleread).                           *)
(***************************************************************************)
EndOfFileOnce ==
  [][\A p \in Proc :
       LET taken == SubSeq(Finished, 1, Minus(r', r))
           ends == \E k \in DOMAIN taken : taken[k] = EOT
           got == call[p].copied + Cardinality({k \in DOMAIN taken : taken[k] # EOT})
       IN pc[p] = "acquire" /\ call[p].on = "cons" /\ pc'[p] # "acquire" /\ ~killed[p] =>
            (ends <=> pc'[p] = "user" /\ got = 0)]_vars

(***************************************************************************)
(* The ring does not get stuck: r, w and e stay in order across the        *)
(* wraparound, and a ring with no room left has been handed to the readers *)
(* (the last test in consoleintr).                                         *)
(***************************************************************************)
RingMovesOn ==
  /\ Minus(w, r) <= Minus(e, r) /\ Minus(e, r) <= INPUT_BUF
  /\ Minus(e, r) = INPUT_BUF => w = e

(***************************************************************************)
(* A process asleep in consoleread() has nothing to read, and one asleep   *)
(* in sys_sleep() has ticks to wait for, unless the interrupt handler is   *)
(* about to call wakeup(): nothing happens between the test and the sleep  *)
(* that goes unnoticed, although the lock is given up (sleep, wakeup).     *)
(***************************************************************************)
NoLostWakeup ==
  \A p \in Proc : pc[p] = "asleep" =>
    IF call[p].on = "cons" THEN r = w \/ kbd = "wakeup"
    ELSE NotYet(call[p]) \/ timer = "wakeup"

(***************************************************************************)
(* The cursor stays in the lines that scroll, through echo, erasing and    *)
(* output of processes, so that cgaputc() neither panics nor writes beyond *)
(* the screen (cgaputc, consputc).                                         *)
(***************************************************************************)
CursorOnScreen == pos \in 0..(ROWS - 1) * COLS - 1
=============================================================================
