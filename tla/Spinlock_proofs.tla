--------------------------- MODULE Spinlock_proofs ---------------------------
(***************************************************************************)
(* Mutual exclusion of the spin locks, the interrupt discipline and the    *)
(* absence of panics, for every number of CPUs and locks and every order.  *)
(***************************************************************************)
EXTENDS Spinlock, FiniteSetTheorems, TLAPS

-----------------------------------------------------------------------------
\* The interrupt flag of c outside the lock code.
Flag(c) == ~inhandler[c] /\ base[c]

\* pushcli was done for a lock that is not, or is no longer, held.
Extra(here) ==
  IF here \in {"holding", "holdingcpu", "xchg", "popcli"} THEN 1 ELSE 0

\* A held lock is locked, and lk->cpu names the holder except at the two
\* places where the holder is about to set it or has just cleared it.
OwnInv ==
  \A c \in CPU, x \in Ctx : \A l \in held[c][x] :
    /\ locked[l]
    /\ \/ target[c][x] = l /\ pc[c][x] \in {"setcpu", "unlock"}
       \/ lkcpu[l] = c

\* Converse: lk->cpu names only a CPU that holds the lock.
CpuInv ==
  \A c \in CPU : \A l \in Lock :
    lkcpu[l] = c => l \in held[c]["thread"] \/ l \in held[c]["handler"]

\* The lock an acquire() or release() in progress is about.
PcInv ==
  \A c \in CPU, x \in Ctx :
    /\ pc[c][x] \in {"setcpu", "clrcpu", "unlock"} => target[c][x] \in held[c][x]
    /\ pc[c][x] \in {"holding", "holdingcpu", "xchg"} => target[c][x] \in Lock
    /\ pc[c][x] \in {"cli", "holding", "holdingcpu", "xchg"}
         => target[c][x] \notin held[c][x]
    /\ pc[c][x] = "unlock" => lkcpu[target[c][x]] # c

\* A handler interrupts only code that holds no lock.
HandlerInv ==
  \A c \in CPU :
    /\ ~inhandler[c] => pc[c]["handler"] = "idle" /\ held[c]["handler"] = {}
    /\ inhandler[c] => /\ base[c]
                       /\ pc[c]["thread"] \in {"idle", "cli"}
                       /\ held[c]["thread"] = {}
                       /\ pc[c]["thread"] = "cli" => eflags[c]["thread"]

\* ncli counts the locks held, and one more inside pushcli..xchg and popcli.
NcliInv ==
  \A c \in CPU :
    /\ IsFiniteSet(held[c][Cur(c)])
    /\ ncli[c] = Cardinality(held[c][Cur(c)]) + Extra(pc[c][Cur(c)])

FlagInv ==
  \A c \in CPU :
    /\ ncli[c] = 0 => intr[c] = Flag(c)
    /\ ncli[c] # 0 => ~intr[c] /\ intena[c] = Flag(c)
    /\ ncli[c] = 0 /\ pc[c][Cur(c)] = "cli" => eflags[c][Cur(c)] = Flag(c)

IInv == /\ TypeOK /\ MutualExclusion /\ NoPanic
        /\ OwnInv /\ CpuInv /\ PcInv /\ HandlerInv /\ NcliInv /\ FlagInv

-----------------------------------------------------------------------------
(***************************************************************************)
(* Initially no lock is held and every CPU runs its thread (Init).         *)
(***************************************************************************)
LEMMA InitIInv == Init => IInv
  <1> USE DEF Init
  <1> SUFFICES ASSUME Init PROVE IInv
    OBVIOUS
  <1>1. TypeOK /\ NoPanic
    BY SpinlockAssumption DEF TypeOK, NoPanic, PC, Ctx
  <1>2. MutualExclusion /\ OwnInv /\ CpuInv /\ PcInv /\ HandlerInv
    BY SpinlockAssumption DEF MutualExclusion, OwnInv, CpuInv, PcInv, HandlerInv, Ctx
  <1>3. NcliInv
    BY FS_EmptySet DEF NcliInv, Cur, Ctx, Extra
  <1>4. FlagInv
    BY DEF FlagInv, Flag, Cur, Ctx
  <1> QED
    BY <1>1, <1>2, <1>3, <1>4 DEF IInv

(***************************************************************************)
(* The number of locks a CPU's running context holds is a natural number,  *)
(* zero exactly when it holds none: what ncli says of held.                *)
(***************************************************************************)
LEMMA HeldCount ==
  ASSUME IInv, NEW c \in CPU
  PROVE  /\ IsFiniteSet(held[c][Cur(c)])
         /\ Cardinality(held[c][Cur(c)]) \in Nat
         /\ Cardinality(held[c][Cur(c)]) = 0 <=> held[c][Cur(c)] = {}
         /\ ncli[c] = Cardinality(held[c][Cur(c)]) + Extra(pc[c][Cur(c)])
         /\ Cardinality({}) = 0 /\ IsFiniteSet({})
  BY FS_CardinalityType, FS_EmptySet DEF IInv, NcliInv

(***************************************************************************)
(* ReadEflags keeps the inductive invariant.                              *)
(***************************************************************************)
LEMMA ReadEflagsIInv ==
  ASSUME IInv, NEW c \in CPU, NEW l \in Lock \cup {NoLock}, ReadEflags(c, l) PROVE IInv'
  <1> USE DEF ReadEflags, At, Goto, Cur, Ctx
  <1>1. TypeOK'
    BY SpinlockAssumption DEF IInv, TypeOK, PC, MayAcquire
  <1>2. MutualExclusion'
    BY SpinlockAssumption DEF IInv, TypeOK, MutualExclusion, OwnInv, MayAcquire
  <1>3. NoPanic'
    BY SpinlockAssumption DEF IInv, TypeOK, NoPanic, OwnInv, CpuInv, PcInv, HandlerInv, NcliInv, FlagInv, Extra, Flag, MayAcquire
  <1>4. OwnInv'
    BY SpinlockAssumption DEF IInv, TypeOK, OwnInv, MutualExclusion, PcInv, HandlerInv, MayAcquire
  <1>5. CpuInv'
    BY SpinlockAssumption DEF IInv, TypeOK, CpuInv, PcInv, HandlerInv, OwnInv, MayAcquire
  <1>6. PcInv'
    BY SpinlockAssumption DEF IInv, TypeOK, PcInv, HandlerInv, OwnInv, CpuInv, MutualExclusion, MayAcquire
  <1>7. HandlerInv'
    BY SpinlockAssumption DEF IInv, TypeOK, HandlerInv, FlagInv, NcliInv, Extra, Flag, MayAcquire
  <1>8. NcliInv'
    BY SpinlockAssumption DEF IInv, TypeOK, NcliInv, PcInv, HandlerInv, Extra, MayAcquire
  <1>9. FlagInv'
    BY SpinlockAssumption DEF IInv, TypeOK, FlagInv, NcliInv, HandlerInv, Extra, Flag, MayAcquire
  <1> QED
    BY <1>1, <1>2, <1>3, <1>4, <1>5, <1>6, <1>7, <1>8, <1>9 DEF IInv

(***************************************************************************)
(* PushCli keeps the inductive invariant.                                 *)
(***************************************************************************)
LEMMA PushCliIInv ==
  ASSUME IInv, NEW c \in CPU, PushCli(c) PROVE IInv'
  <1> USE DEF PushCli, At, Goto, Cur, Ctx
  <1>1. TypeOK'
    BY SpinlockAssumption DEF IInv, TypeOK, PC
  <1>2. MutualExclusion'
    BY SpinlockAssumption DEF IInv, TypeOK, MutualExclusion, OwnInv
  <1>3. NoPanic'
    BY SpinlockAssumption DEF IInv, TypeOK, NoPanic, OwnInv, CpuInv, PcInv, HandlerInv, NcliInv, FlagInv, Extra, Flag
  <1>4. OwnInv'
    BY SpinlockAssumption DEF IInv, TypeOK, OwnInv, MutualExclusion, PcInv, HandlerInv
  <1>5. CpuInv'
    BY SpinlockAssumption DEF IInv, TypeOK, CpuInv, PcInv, HandlerInv, OwnInv
  <1>6. PcInv'
    BY SpinlockAssumption DEF IInv, TypeOK, PcInv, HandlerInv, OwnInv, CpuInv, MutualExclusion
  <1>7. HandlerInv'
    BY SpinlockAssumption DEF IInv, TypeOK, HandlerInv, FlagInv, NcliInv, Extra, Flag
  <1>8. NcliInv'
    <2>1. /\ Cardinality(held[c][Cur(c)]) \in Nat
          /\ ncli[c] = Cardinality(held[c][Cur(c)]) + Extra(pc[c][Cur(c)])
      BY HeldCount
    <2>2. Extra(pc[c][Cur(c)]) = 0 /\ Extra(pc'[c][Cur(c)]) = 1
      BY DEF IInv, TypeOK, Extra
    <2>3. ncli'[c] = ncli[c] + 1
      BY DEF IInv, TypeOK
    <2>4. ncli'[c] = Cardinality(held[c][Cur(c)]) + 1
      BY <2>1, <2>2, <2>3
    <2>5. \A d \in CPU \ {c} : pc'[d] = pc[d] /\ ncli'[d] = ncli[d]
      BY DEF IInv, TypeOK
    <2> QED
      BY <2>2, <2>4, <2>5 DEF IInv, NcliInv
  <1>9. FlagInv'
    <2>1. ncli[c] \in Nat /\ ncli'[c] = ncli[c] + 1 /\ ~intr'[c]
      BY DEF IInv, TypeOK
    <2>2. intena'[c] = Flag(c)
      BY <2>1 DEF IInv, TypeOK, FlagInv
    <2>3. pc'[c][Cur(c)] # "cli"
      BY DEF IInv, TypeOK
    <2>4. \A d \in CPU \ {c} : /\ pc'[d] = pc[d] /\ ncli'[d] = ncli[d]
                               /\ intr'[d] = intr[d] /\ intena'[d] = intena[d]
      BY DEF IInv, TypeOK
    <2>5. UNCHANGED <<inhandler, base, eflags>>
      OBVIOUS
    <2> HIDE DEF PushCli
    <2>6. ASSUME NEW d \in CPU
          PROVE  /\ ncli'[d] = 0 => intr'[d] = Flag(d)'
                 /\ ncli'[d] # 0 => ~intr'[d] /\ intena'[d] = Flag(d)'
                 /\ ncli'[d] = 0 /\ pc'[d][Cur(d)'] = "cli"
                      => eflags'[d][Cur(d)'] = Flag(d)'
      <3>1. CASE d = c
        BY <3>1, <2>1, <2>2, <2>5 DEF Flag
      <3>2. CASE d # c
        BY <3>2, <2>4, <2>5 DEF IInv, FlagInv, Flag
      <3> QED
        BY <3>1, <3>2
    <2> QED
      BY <2>6 DEF FlagInv
  <1> QED
    BY <1>1, <1>2, <1>3, <1>4, <1>5, <1>6, <1>7, <1>8, <1>9 DEF IInv

(***************************************************************************)
(* HoldingLocked keeps the inductive invariant.                           *)
(***************************************************************************)
LEMMA HoldingLockedIInv ==
  ASSUME IInv, NEW c \in CPU, HoldingLocked(c) PROVE IInv'
  <1> USE DEF HoldingLocked, At, Goto, Cur, Ctx
  <1>1. TypeOK'
    BY SpinlockAssumption DEF IInv, TypeOK, PC
  <1>2. MutualExclusion'
    BY SpinlockAssumption DEF IInv, TypeOK, MutualExclusion, OwnInv
  <1>3. NoPanic'
    BY SpinlockAssumption DEF IInv, TypeOK, NoPanic, OwnInv, CpuInv, PcInv, HandlerInv, NcliInv, FlagInv, Extra, Flag
  <1>4. OwnInv'
    BY SpinlockAssumption DEF IInv, TypeOK, OwnInv, MutualExclusion, PcInv, HandlerInv
  <1>5. CpuInv'
    BY SpinlockAssumption DEF IInv, TypeOK, CpuInv, PcInv, HandlerInv, OwnInv
  <1>6. PcInv'
    BY SpinlockAssumption DEF IInv, TypeOK, PcInv, HandlerInv, OwnInv, CpuInv, MutualExclusion
  <1>7. HandlerInv'
    BY SpinlockAssumption DEF IInv, TypeOK, HandlerInv, FlagInv, NcliInv, Extra, Flag
  <1>8. NcliInv'
    BY SpinlockAssumption DEF IInv, TypeOK, NcliInv, PcInv, HandlerInv, Extra
  <1>9. FlagInv'
    BY SpinlockAssumption DEF IInv, TypeOK, FlagInv, NcliInv, HandlerInv, Extra, Flag
  <1> QED
    BY <1>1, <1>2, <1>3, <1>4, <1>5, <1>6, <1>7, <1>8, <1>9 DEF IInv

(***************************************************************************)
(* HoldingCpu keeps the inductive invariant.                              *)
(***************************************************************************)
LEMMA HoldingCpuIInv ==
  ASSUME IInv, NEW c \in CPU, HoldingCpu(c) PROVE IInv'
  <1> USE DEF HoldingCpu, At, Goto, Cur, Ctx
  <1>1. TypeOK'
    BY SpinlockAssumption DEF IInv, TypeOK, PC
  <1>2. MutualExclusion'
    BY SpinlockAssumption DEF IInv, TypeOK, MutualExclusion, OwnInv
  <1>3. NoPanic'
    BY SpinlockAssumption DEF IInv, TypeOK, NoPanic, OwnInv, CpuInv, PcInv, HandlerInv, NcliInv, FlagInv, Extra, Flag
  <1>4. OwnInv'
    BY SpinlockAssumption DEF IInv, TypeOK, OwnInv, MutualExclusion, PcInv, HandlerInv
  <1>5. CpuInv'
    BY SpinlockAssumption DEF IInv, TypeOK, CpuInv, PcInv, HandlerInv, OwnInv
  <1>6. PcInv'
    BY SpinlockAssumption DEF IInv, TypeOK, PcInv, HandlerInv, OwnInv, CpuInv, MutualExclusion
  <1>7. HandlerInv'
    BY SpinlockAssumption DEF IInv, TypeOK, HandlerInv, FlagInv, NcliInv, Extra, Flag
  <1>8. NcliInv'
    BY SpinlockAssumption DEF IInv, TypeOK, NcliInv, PcInv, HandlerInv, Extra
  <1>9. FlagInv'
    BY SpinlockAssumption DEF IInv, TypeOK, FlagInv, NcliInv, HandlerInv, Extra, Flag
  <1> QED
    BY <1>1, <1>2, <1>3, <1>4, <1>5, <1>6, <1>7, <1>8, <1>9 DEF IInv

(***************************************************************************)
(* Xchg keeps the inductive invariant.                                    *)
(***************************************************************************)
LEMMA XchgIInv ==
  ASSUME IInv, NEW c \in CPU, Xchg(c) PROVE IInv'
  <1> USE DEF Xchg, At, Goto, Cur, Ctx
  <1>1. TypeOK'
    <2>1. target[c][Cur(c)] \in Lock
      BY DEF IInv, PcInv
    <2> QED
      BY <2>1 DEF IInv, TypeOK, PC
  <1>2. MutualExclusion'
    BY SpinlockAssumption DEF IInv, TypeOK, MutualExclusion, OwnInv
  <1>3. NoPanic'
    BY SpinlockAssumption DEF IInv, TypeOK, NoPanic, OwnInv, CpuInv, PcInv, HandlerInv, NcliInv, FlagInv, Extra, Flag
  <1>4. OwnInv'
    BY SpinlockAssumption DEF IInv, TypeOK, OwnInv, MutualExclusion, PcInv, HandlerInv
  <1>5. CpuInv'
    BY SpinlockAssumption DEF IInv, TypeOK, CpuInv, PcInv, HandlerInv, OwnInv
  <1>6. PcInv'
    BY SpinlockAssumption DEF IInv, TypeOK, PcInv, HandlerInv, OwnInv, CpuInv, MutualExclusion
  <1>7. HandlerInv'
    BY SpinlockAssumption DEF IInv, TypeOK, HandlerInv, FlagInv, NcliInv, Extra, Flag
  <1>8. NcliInv'
    <2>1. /\ target[c][Cur(c)] \in Lock
          /\ target[c][Cur(c)] \notin held[c][Cur(c)]
      BY DEF IInv, PcInv
    <2>2. /\ IsFiniteSet(held[c][Cur(c)] \cup {target[c][Cur(c)]})
          /\ Cardinality(held[c][Cur(c)] \cup {target[c][Cur(c)]})
               = Cardinality(held[c][Cur(c)]) + 1
      BY <2>1, FS_AddElement DEF IInv, NcliInv
    <2> QED
      BY <2>1, <2>2, HeldCount DEF IInv, TypeOK, NcliInv, Extra
  <1>9. FlagInv'
    BY SpinlockAssumption DEF IInv, TypeOK, FlagInv, NcliInv, HandlerInv, Extra, Flag
  <1> QED
    BY <1>1, <1>2, <1>3, <1>4, <1>5, <1>6, <1>7, <1>8, <1>9 DEF IInv

(***************************************************************************)
(* SetCpu keeps the inductive invariant.                                  *)
(***************************************************************************)
LEMMA SetCpuIInv ==
  ASSUME IInv, NEW c \in CPU, SetCpu(c) PROVE IInv'
  <1> USE DEF SetCpu, At, Goto, Cur, Ctx
  <1>1. TypeOK'
    BY SpinlockAssumption DEF IInv, TypeOK, PC
  <1>2. MutualExclusion'
    BY SpinlockAssumption DEF IInv, TypeOK, MutualExclusion, OwnInv
  <1>3. NoPanic'
    BY SpinlockAssumption DEF IInv, TypeOK, NoPanic, OwnInv, CpuInv, PcInv, HandlerInv, NcliInv, FlagInv, Extra, Flag
  <1>4. OwnInv'
    BY SpinlockAssumption DEF IInv, TypeOK, OwnInv, MutualExclusion, PcInv, HandlerInv
  <1>5. CpuInv'
    BY SpinlockAssumption DEF IInv, TypeOK, CpuInv, PcInv, HandlerInv, OwnInv
  <1>6. PcInv'
    BY SpinlockAssumption DEF IInv, TypeOK, PcInv, HandlerInv, OwnInv, CpuInv, MutualExclusion
  <1>7. HandlerInv'
    BY SpinlockAssumption DEF IInv, TypeOK, HandlerInv, FlagInv, NcliInv, Extra, Flag
  <1>8. NcliInv'
    BY SpinlockAssumption DEF IInv, TypeOK, NcliInv, PcInv, HandlerInv, Extra
  <1>9. FlagInv'
    BY SpinlockAssumption DEF IInv, TypeOK, FlagInv, NcliInv, HandlerInv, Extra, Flag
  <1> QED
    BY <1>1, <1>2, <1>3, <1>4, <1>5, <1>6, <1>7, <1>8, <1>9 DEF IInv

(***************************************************************************)
(* Release keeps the inductive invariant.                                 *)
(***************************************************************************)
LEMMA ReleaseIInv ==
  ASSUME IInv, NEW c \in CPU, NEW l \in Lock, Release(c, l) PROVE IInv'
  <1> USE DEF Release, At, Goto, Cur, Ctx
  <1>1. TypeOK'
    BY SpinlockAssumption DEF IInv, TypeOK, PC
  <1>2. MutualExclusion'
    BY SpinlockAssumption DEF IInv, TypeOK, MutualExclusion, OwnInv
  <1>3. NoPanic'
    <2>1. /\ locked[l]
          /\ \/ target[c][Cur(c)] = l /\ pc[c][Cur(c)] \in {"setcpu", "unlock"}
             \/ lkcpu[l] = c
      BY DEF IInv, OwnInv
    <2> QED
      BY <2>1 DEF NoPanic
  <1>4. OwnInv'
    BY SpinlockAssumption DEF IInv, TypeOK, OwnInv, MutualExclusion, PcInv, HandlerInv
  <1>5. CpuInv'
    BY SpinlockAssumption DEF IInv, TypeOK, CpuInv, PcInv, HandlerInv, OwnInv
  <1>6. PcInv'
    BY SpinlockAssumption DEF IInv, TypeOK, PcInv, HandlerInv, OwnInv, CpuInv, MutualExclusion
  <1>7. HandlerInv'
    BY SpinlockAssumption DEF IInv, TypeOK, HandlerInv, FlagInv, NcliInv, Extra, Flag
  <1>8. NcliInv'
    BY SpinlockAssumption DEF IInv, TypeOK, NcliInv, PcInv, HandlerInv, Extra
  <1>9. FlagInv'
    BY SpinlockAssumption DEF IInv, TypeOK, FlagInv, NcliInv, HandlerInv, Extra, Flag
  <1> QED
    BY <1>1, <1>2, <1>3, <1>4, <1>5, <1>6, <1>7, <1>8, <1>9 DEF IInv

(***************************************************************************)
(* ClearCpu keeps the inductive invariant.                                *)
(***************************************************************************)
LEMMA ClearCpuIInv ==
  ASSUME IInv, NEW c \in CPU, ClearCpu(c) PROVE IInv'
  <1> USE DEF ClearCpu, At, Goto, Cur, Ctx
  <1>1. TypeOK'
    BY SpinlockAssumption DEF IInv, TypeOK, PC
  <1>2. MutualExclusion'
    BY SpinlockAssumption DEF IInv, TypeOK, MutualExclusion, OwnInv
  <1>3. NoPanic'
    BY SpinlockAssumption DEF IInv, TypeOK, NoPanic, OwnInv, CpuInv, PcInv, HandlerInv, NcliInv, FlagInv, Extra, Flag
  <1>4. OwnInv'
    BY SpinlockAssumption DEF IInv, TypeOK, OwnInv, MutualExclusion, PcInv, HandlerInv
  <1>5. CpuInv'
    BY SpinlockAssumption DEF IInv, TypeOK, CpuInv, PcInv, HandlerInv, OwnInv
  <1>6. PcInv'
    BY SpinlockAssumption DEF IInv, TypeOK, PcInv, HandlerInv, OwnInv, CpuInv, MutualExclusion
  <1>7. HandlerInv'
    BY SpinlockAssumption DEF IInv, TypeOK, HandlerInv, FlagInv, NcliInv, Extra, Flag
  <1>8. NcliInv'
    BY SpinlockAssumption DEF IInv, TypeOK, NcliInv, PcInv, HandlerInv, Extra
  <1>9. FlagInv'
    BY SpinlockAssumption DEF IInv, TypeOK, FlagInv, NcliInv, HandlerInv, Extra, Flag
  <1> QED
    BY <1>1, <1>2, <1>3, <1>4, <1>5, <1>6, <1>7, <1>8, <1>9 DEF IInv

(***************************************************************************)
(* Unlock keeps the inductive invariant.                                  *)
(***************************************************************************)
LEMMA UnlockIInv ==
  ASSUME IInv, NEW c \in CPU, Unlock(c) PROVE IInv'
  <1> USE DEF Unlock, At, Goto, Cur, Ctx
  <1>1. TypeOK'
    <2>1. target[c][Cur(c)] \in Lock
      BY DEF IInv, PcInv, TypeOK
    <2> QED
      BY <2>1 DEF IInv, TypeOK, PC
  <1>2. MutualExclusion'
    BY SpinlockAssumption DEF IInv, TypeOK, MutualExclusion, OwnInv
  <1>3. NoPanic'
    BY SpinlockAssumption DEF IInv, TypeOK, NoPanic, OwnInv, CpuInv, PcInv, HandlerInv, NcliInv, FlagInv, Extra, Flag
  <1>4. OwnInv'
    BY SpinlockAssumption DEF IInv, TypeOK, OwnInv, MutualExclusion, PcInv, HandlerInv
  <1>5. CpuInv'
    BY SpinlockAssumption DEF IInv, TypeOK, CpuInv, PcInv, HandlerInv, OwnInv
  <1>6. PcInv'
    BY SpinlockAssumption DEF IInv, TypeOK, PcInv, HandlerInv, OwnInv, CpuInv, MutualExclusion
  <1>7. HandlerInv'
    BY SpinlockAssumption DEF IInv, TypeOK, HandlerInv, FlagInv, NcliInv, Extra, Flag
  <1>8. NcliInv'
    <2>1. /\ target[c][Cur(c)] \in held[c][Cur(c)]
          /\ Extra(pc[c][Cur(c)]) = 0
      BY DEF IInv, PcInv, Extra
    <2>2. /\ IsFiniteSet(held[c][Cur(c)])
          /\ Cardinality(held[c][Cur(c)]) \in Nat
          /\ ncli[c] = Cardinality(held[c][Cur(c)]) + Extra(pc[c][Cur(c)])
      BY HeldCount
    <2>3. /\ IsFiniteSet(held[c][Cur(c)] \ {target[c][Cur(c)]})
          /\ Cardinality(held[c][Cur(c)] \ {target[c][Cur(c)]})
               = Cardinality(held[c][Cur(c)]) - 1
      <3> HIDE DEF Cur
      <3> QED
        BY <2>1, <2>2, FS_RemoveElement
    <2>4. /\ held'[c][Cur(c)] = held[c][Cur(c)] \ {target[c][Cur(c)]}
          /\ Extra(pc'[c][Cur(c)]) = 1
          /\ Cur(c)' = Cur(c)
          /\ \A d \in CPU \ {c} : pc'[d] = pc[d] /\ held'[d] = held[d]
      BY DEF IInv, TypeOK, Extra
    <2>5. ncli[c] = Cardinality(held[c][Cur(c)] \ {target[c][Cur(c)]}) + 1
      <3> HIDE DEF Cur
      <3> QED
        BY <2>1, <2>2, <2>3
    <2> QED
      BY <2>3, <2>4, <2>5 DEF IInv, NcliInv
  <1>9. FlagInv'
    BY SpinlockAssumption DEF IInv, TypeOK, FlagInv, NcliInv, HandlerInv, Extra, Flag
  <1> QED
    BY <1>1, <1>2, <1>3, <1>4, <1>5, <1>6, <1>7, <1>8, <1>9 DEF IInv

(***************************************************************************)
(* PopCli keeps the inductive invariant.                                  *)
(***************************************************************************)
LEMMA PopCliIInv ==
  ASSUME IInv, NEW c \in CPU, PopCli(c) PROVE IInv'
  <1> USE DEF PopCli, At, Goto, Cur, Ctx
  <1>1. TypeOK'
    <2>1. ncli[c] # 0 /\ ncli[c] \in Nat /\ ~intr[c]
      BY HeldCount DEF IInv, TypeOK, NcliInv, FlagInv, Extra
    <2>2. ncli[c] - 1 \in Nat
      BY <2>1
    <2>3. ncli' \in [CPU -> Nat] /\ intr' \in [CPU -> BOOLEAN]
      BY <2>1, <2>2 DEF IInv, TypeOK
    <2> QED
      BY <2>1, <2>3 DEF IInv, TypeOK, PC
  <1>2. MutualExclusion'
    BY SpinlockAssumption DEF IInv, TypeOK, MutualExclusion, OwnInv
  <1>3. NoPanic'
    <2>1. ncli[c] # 0 /\ ncli[c] \in Nat /\ ~intr[c]
      BY HeldCount DEF IInv, TypeOK, NcliInv, FlagInv, Extra
    <2> QED
      BY <2>1, HeldCount DEF IInv, TypeOK, NoPanic
  <1>4. OwnInv'
    BY SpinlockAssumption DEF IInv, TypeOK, OwnInv, MutualExclusion, PcInv, HandlerInv
  <1>5. CpuInv'
    BY SpinlockAssumption DEF IInv, TypeOK, CpuInv, PcInv, HandlerInv, OwnInv
  <1>6. PcInv'
    BY SpinlockAssumption DEF IInv, TypeOK, PcInv, HandlerInv, OwnInv, CpuInv, MutualExclusion
  <1>7. HandlerInv'
    BY SpinlockAssumption DEF IInv, TypeOK, HandlerInv, FlagInv, NcliInv, Extra, Flag
  <1>8. NcliInv'
    <2>1. ncli[c] # 0 /\ ncli[c] \in Nat /\ ~intr[c]
      BY HeldCount DEF IInv, TypeOK, NcliInv, FlagInv, Extra
    <2> QED
      BY <2>1, HeldCount DEF IInv, TypeOK, NcliInv, Extra
  <1>9. FlagInv'
    BY SpinlockAssumption DEF IInv, TypeOK, FlagInv, NcliInv, HandlerInv, Extra, Flag
  <1> QED
    BY <1>1, <1>2, <1>3, <1>4, <1>5, <1>6, <1>7, <1>8, <1>9 DEF IInv

(***************************************************************************)
(* Interrupt keeps the inductive invariant.                               *)
(***************************************************************************)
LEMMA InterruptIInv ==
  ASSUME IInv, NEW c \in CPU, Interrupt(c) PROVE IInv'
  <1> USE DEF Interrupt, At, Goto, Cur, Ctx
  <1>1. TypeOK'
    BY SpinlockAssumption DEF IInv, TypeOK, PC
  <1>2. MutualExclusion'
    BY SpinlockAssumption DEF IInv, TypeOK, MutualExclusion, OwnInv
  <1>3. NoPanic'
    BY SpinlockAssumption DEF IInv, TypeOK, NoPanic, OwnInv, CpuInv, PcInv, HandlerInv, NcliInv, FlagInv, Extra, Flag
  <1>4. OwnInv'
    BY SpinlockAssumption DEF IInv, TypeOK, OwnInv, MutualExclusion, PcInv, HandlerInv
  <1>5. CpuInv'
    BY SpinlockAssumption DEF IInv, TypeOK, CpuInv, PcInv, HandlerInv, OwnInv
  <1>6. PcInv'
    BY SpinlockAssumption DEF IInv, TypeOK, PcInv, HandlerInv, OwnInv, CpuInv, MutualExclusion
  <1>7. HandlerInv'
    <2>1. ncli[c] = 0 /\ ~inhandler[c] /\ base[c]
      BY DEF IInv, TypeOK, FlagInv, Flag
    <2>2. held[c]["thread"] = {}
      <3>1. Cur(c) = "thread"
        BY <2>1
      <3>2. Extra(pc[c][Cur(c)]) \in {0, 1}
        BY DEF Extra
      <3> HIDE DEF Cur, Interrupt
      <3>3. /\ Cardinality(held[c][Cur(c)]) \in Nat
            /\ Cardinality(held[c][Cur(c)]) = 0 <=> held[c][Cur(c)] = {}
            /\ ncli[c] = Cardinality(held[c][Cur(c)]) + Extra(pc[c][Cur(c)])
        BY HeldCount
      <3>4. Cardinality(held[c][Cur(c)]) = 0
        BY <2>1, <3>2, <3>3
      <3> QED
        BY <3>1, <3>3, <3>4
    <2>3. pc[c]["thread"] \notin {"setcpu", "clrcpu", "unlock"}
      BY <2>2 DEF IInv, PcInv
    <2>4. pc[c]["thread"] \notin {"holding", "holdingcpu", "xchg", "popcli"}
      BY <2>1, HeldCount DEF IInv, TypeOK, NcliInv, Extra
    <2>5. pc[c]["thread"] \in {"idle", "cli"}
      BY <2>3, <2>4 DEF IInv, TypeOK, PC
    <2> QED
      BY <2>1, <2>2, <2>5 DEF IInv, TypeOK, HandlerInv, FlagInv, Flag
  <1>8. NcliInv'
    <2>1. ncli[c] = 0 /\ ~inhandler[c]
      BY DEF IInv, TypeOK, FlagInv, Flag
    <2>2. /\ Cur(c)' = "handler" /\ held[c]["handler"] = {}
          /\ pc[c]["handler"] = "idle"
          /\ \A d \in CPU \ {c} : Cur(d)' = Cur(d)
      BY <2>1 DEF IInv, TypeOK, HandlerInv
    <2>3. IsFiniteSet({}) /\ Cardinality({}) = 0
      BY FS_EmptySet
    <2>4. UNCHANGED <<held, ncli, pc>>
      OBVIOUS
    <2> HIDE DEF Cur, Interrupt
    <2>5. ASSUME NEW d \in CPU
          PROVE  /\ IsFiniteSet(held'[d][Cur(d)'])
                 /\ ncli'[d] = Cardinality(held'[d][Cur(d)']) + Extra(pc'[d][Cur(d)'])
      <3>1. CASE d = c
        BY <3>1, <2>1, <2>2, <2>3, <2>4 DEF Extra
      <3>2. CASE d # c
        BY <3>2, <2>2, <2>4 DEF IInv, NcliInv
      <3> QED
        BY <3>1, <3>2
    <2> QED
      BY <2>5 DEF NcliInv
  <1>9. FlagInv'
    BY SpinlockAssumption DEF IInv, TypeOK, FlagInv, NcliInv, HandlerInv, Extra, Flag
  <1> QED
    BY <1>1, <1>2, <1>3, <1>4, <1>5, <1>6, <1>7, <1>8, <1>9 DEF IInv

(***************************************************************************)
(* Iret keeps the inductive invariant.                                    *)
(***************************************************************************)
LEMMA IretIInv ==
  ASSUME IInv, NEW c \in CPU, Iret(c) PROVE IInv'
  <1> USE DEF Iret, At, Goto, Cur, Ctx
  <1>1. TypeOK'
    BY SpinlockAssumption DEF IInv, TypeOK, PC
  <1>2. MutualExclusion'
    BY SpinlockAssumption DEF IInv, TypeOK, MutualExclusion, OwnInv
  <1>3. NoPanic'
    BY SpinlockAssumption DEF IInv, TypeOK, NoPanic, OwnInv, CpuInv, PcInv, HandlerInv, NcliInv, FlagInv, Extra, Flag
  <1>4. OwnInv'
    BY SpinlockAssumption DEF IInv, TypeOK, OwnInv, MutualExclusion, PcInv, HandlerInv
  <1>5. CpuInv'
    BY SpinlockAssumption DEF IInv, TypeOK, CpuInv, PcInv, HandlerInv, OwnInv
  <1>6. PcInv'
    BY SpinlockAssumption DEF IInv, TypeOK, PcInv, HandlerInv, OwnInv, CpuInv, MutualExclusion
  <1>7. HandlerInv'
    BY SpinlockAssumption DEF IInv, TypeOK, HandlerInv, FlagInv, NcliInv, Extra, Flag
  <1>8. NcliInv'
    <2>1. held[c]["thread"] = {} /\ pc[c]["thread"] \in {"idle", "cli"}
      BY DEF IInv, HandlerInv
    <2>2. IsFiniteSet({}) /\ Cardinality({}) = 0
      BY FS_EmptySet
    <2>3. ncli[c] = Cardinality({}) + Extra("idle")
      BY HeldCount
    <2>4. Cur(c)' = "thread" /\ \A d \in CPU \ {c} : Cur(d)' = Cur(d)
      BY DEF IInv, TypeOK
    <2> HIDE DEF Cur
    <2> QED
      BY <2>1, <2>2, <2>3, <2>4 DEF IInv, NcliInv, Extra
  <1>9. FlagInv'
    <2>1. base[c] /\ (pc[c]["thread"] = "cli" => eflags[c]["thread"])
      BY DEF IInv, HandlerInv
    <2>2. ncli[c] = Cardinality({}) + Extra("idle")
      BY HeldCount
    <2>3. ncli[c] = 0
      BY <2>2, FS_EmptySet DEF Extra
    <2> QED
      BY <2>1, <2>3 DEF IInv, TypeOK, FlagInv, Flag
  <1> QED
    BY <1>1, <1>2, <1>3, <1>4, <1>5, <1>6, <1>7, <1>8, <1>9 DEF IInv

-----------------------------------------------------------------------------
(***************************************************************************)
(* Every step of acquire(), release() and the interrupt hardware keeps     *)
(* the inductive invariant.                                                *)
(***************************************************************************)
LEMMA NextIInv == IInv /\ [Next]_vars => IInv'
  <1> SUFFICES ASSUME IInv, [Next]_vars PROVE IInv'
    OBVIOUS
  <1>1. CASE UNCHANGED vars
    BY <1>1 DEF vars, IInv, TypeOK, MutualExclusion, NoPanic, OwnInv, CpuInv,
       PcInv, HandlerInv, NcliInv, FlagInv, Flag, Cur
  <1>2. CASE Next
    <2> PICK c \in CPU :
          \/ Acquire(c) \/ (\E l \in Lock : Release(c, l)) \/ ClearCpu(c)
          \/ Unlock(c) \/ PopCli(c) \/ Interrupt(c) \/ Iret(c)
      BY <1>2 DEF Next
    <2> QED
      BY ReadEflagsIInv, PushCliIInv, HoldingLockedIInv, HoldingCpuIInv,
         XchgIInv, SetCpuIInv, ReleaseIInv, ClearCpuIInv, UnlockIInv,
         PopCliIInv, InterruptIInv, IretIInv DEF Acquire
  <1> QED
    BY <1>1, <1>2

(***************************************************************************)
(* The inductive invariant contains what the runs check.                   *)
(***************************************************************************)
LEMMA IInvImplies ==
  IInv => InterruptsOffWhileHolding /\ FlagRestored
  <1> SUFFICES ASSUME IInv PROVE InterruptsOffWhileHolding /\ FlagRestored
    OBVIOUS
  <1>1. ASSUME NEW c \in CPU, Held(c) # {} PROVE ~intr[c]
    <2>1. held[c][Cur(c)] # {}
      BY <1>1 DEF IInv, HandlerInv, Held, Cur, TypeOK
    <2>2. ncli[c] # 0
      BY <2>1, HeldCount DEF IInv, NcliInv, Extra
    <2> QED
      BY <2>2 DEF IInv, FlagInv
  <1>2. ASSUME NEW c \in CPU, pc[c][Cur(c)] = "idle", held[c][Cur(c)] = {}
        PROVE intr[c] = (~inhandler[c] /\ base[c])
    <2>1. ncli[c] = 0
      BY <1>2, HeldCount DEF IInv, NcliInv, Extra
    <2> QED
      BY <2>1 DEF IInv, FlagInv, Flag
  <1> QED
    BY <1>1, <1>2 DEF InterruptsOffWhileHolding, FlagRestored

(***************************************************************************)
(* acquire()/release() exclude each other on every lock, for any number    *)
(* of CPUs, locks and interrupts (xchg in acquire, the store in release).  *)
(***************************************************************************)
THEOREM MutualExclusionThm == Spec => [](TypeOK /\ MutualExclusion)
  <1>1. IInv => TypeOK /\ MutualExclusion
    BY DEF IInv
  <1> QED
    BY InitIInv, NextIInv, <1>1, PTL DEF Spec

(***************************************************************************)
(* pushcli() keeps interrupts off as long as the CPU holds any lock.       *)
(***************************************************************************)
THEOREM InterruptsOffThm == Spec => []InterruptsOffWhileHolding
  BY InitIInv, NextIInv, IInvImplies, PTL DEF Spec

(***************************************************************************)
(* The racy reads of holding() never make acquire(), release() or popcli() *)
(* panic when locks are taken in order.                                    *)
(***************************************************************************)
THEOREM NoPanicThm == Spec => []NoPanic
  <1>1. IInv => NoPanic
    BY DEF IInv
  <1> QED
    BY InitIInv, NextIInv, <1>1, PTL DEF Spec

(***************************************************************************)
(* Matched pushcli/popcli give every context its interrupt flag back.      *)
(***************************************************************************)
THEOREM FlagRestoredThm == Spec => []FlagRestored
  BY InitIInv, NextIInv, IInvImplies, PTL DEF Spec
=============================================================================
