---------------------------- MODULE Console_proofs ---------------------------
(***************************************************************************)
(* Proofs about Console, for any number of processes, any screen, any size *)
(* of the ring and any width of the counters that ConsoleAssumption allows.*)
(***************************************************************************)
EXTENDS Console, SequenceTheorems, FiniteSetTheorems, WellFoundedInduction, TLAPS

(***************************************************************************)
(* Remainders, for a ring of n bytes that is indexed by counters modulo n, *)
(* where the counters are unsigned and wrap around at a multiple of n.     *)
(***************************************************************************)
\* % gives the only remainder below n.
LEMMA Remainder ==
  ASSUME NEW n \in Nat \ {0}, NEW a \in Int, NEW q \in Int, NEW j \in 0..n-1, a = n * q + j
  PROVE  a % n = j
  OBVIOUS

\* An integer is a multiple of n plus its remainder.
LEMMA DivMod ==
  ASSUME NEW n \in Nat \ {0}, NEW a \in Int
  PROVE  \E q \in Int, j \in 0..n-1 : a = n * q + j /\ a % n = j
  <1>1. /\ (a % n) \in 0..n-1 /\ (a \div n) \in Int
        /\ a = n * (a \div n) + (a % n)
    OBVIOUS
  <1> QED
    BY <1>1

\* A whole number of turns around the ring leads back to the same slot.
LEMMA Congruent ==
  ASSUME NEW n \in Nat \ {0}, NEW a \in Int, NEW b \in Int, NEW q \in Int,
         a = b + n * q
  PROVE  a % n = b % n
  <1>1. PICK p \in Int, j \in 0..n-1 : b = n * p + j /\ b % n = j
    BY DivMod
  <1>2. a = n * (p + q) + j
    BY <1>1
  <1>3. p + q \in Int
    OBVIOUS
  <1> QED
    BY <1>1, <1>2, <1>3, Remainder

\* What unsigned subtraction of two counters gives.
LEMMA Distance ==
  ASSUME NEW n \in Nat \ {0}, NEW a \in 0..n-1, NEW b \in 0..n-1
  PROVE  (n + a - b) % n = IF a >= b THEN a - b ELSE n + a - b
  OBVIOUS

\* What unsigned addition to a counter gives.
LEMMA Advance ==
  ASSUME NEW n \in Nat \ {0}, NEW a \in 0..n-1, NEW k \in 0..n
  PROVE  (a + k) % n = IF a + k < n THEN a + k ELSE a + k - n
  OBVIOUS

\* The number of counter values is a whole number of turns.
LEMMA Multiple ==
  ASSUME NEW n \in Nat \ {0}, NEW u \in Nat \ {0}, u % n = 0
  PROVE  \E m \in Int : u = n * m
  <1>1. u \div n \in Int /\ u = n * (u \div n)
    OBVIOUS
  <1> QED
    BY <1>1

\* A counter that overflows stays at its slot (INPUT_BUF divides 2^32).
LEMMA WrapSlot ==
  ASSUME NEW n \in Nat \ {0}, NEW u \in Nat \ {0}, u % n = 0, NEW b \in Int
  PROVE  (b - u) % n = b % n
  <1>1. PICK m \in Int : u = n * m
    BY Multiple
  <1>2. PICK a \in Int, k \in Int : k = -m /\ a = b - u
    OBVIOUS
  <1>3. a = b + n * k
    BY <1>1, <1>2
  <1>4. a % n = b % n
    BY <1>3, Congruent, Zenon
  <1> QED
    BY <1>2, <1>4

\* Two positions less than a turn apart are different slots.
LEMMA DistinctSlots ==
  ASSUME NEW n \in Nat \ {0}, NEW a \in Int, NEW d \in 1..n-1
  PROVE  (a + d) % n # a % n
  <1>1. PICK p \in Int, j \in 0..n-1 : a = n * p + j /\ a % n = j
    BY DivMod
  <1>2. CASE j + d < n
    <2>1. PICK b \in Int, s \in 0..n-1 : b = a + d /\ s = j + d /\ b = n * p + s
      BY <1>1, <1>2
    <2>2. b % n = s
      BY <2>1, Remainder, Zenon
    <2> QED
      BY <1>1, <2>1, <2>2
  <1>3. CASE j + d >= n
    <2>1. PICK b \in Int, s \in 0..n-1, q \in Int :
            b = a + d /\ s = j + d - n /\ q = p + 1 /\ b = n * q + s
      BY <1>1, <1>3
    <2>2. b % n = s
      BY <2>1, Remainder, Zenon
    <2> QED
      BY <1>1, <2>1, <2>2
  <1> QED
    BY <1>2, <1>3

-----------------------------------------------------------------------------

\* What is between w and e is one unfinished line.
LineInv == \A k \in 1..Minus(e, w) : Bytes(w, Minus(e, w))[k] # "nl"

\* A reader in the kernel has asked for at least one byte more.
ReaderInv == \A p \in Proc : pc[p] # "user" /\ call[p].on = "cons" => call[p].n >= 1

\* Who holds which spin lock between two steps.
LockInv ==
  /\ lock["cons"] = "kbd" <=> kbd = "wakeup"
  /\ lock["tickslock"] = "timer" <=> timer = "wakeup"
  /\ \A p \in Proc : /\ pc[p] = "sleep" => lock[call[p].on] = p
                     /\ pc[p] = "handover" => lock["ptable"] = p

\* What a process has tested before sleep() stays true until it is woken.
MayStillWait(p) ==
  IF call[p].on = "cons" THEN r = w \/ kbd = "wakeup"
  ELSE NotYet(call[p]) \/ timer = "wakeup"

WaitInv == \A p \in Proc : pc[p] \in {"sleep", "handover", "asleep"} => MayStillWait(p)

IInv == TypeOK /\ RingMovesOn /\ LineInv /\ CursorOnScreen /\ ReaderInv /\ LockInv /\ WaitInv

Char == {"a", "nl", EOT}

-----------------------------------------------------------------------------
(***************************************************************************)
(* The difference and the successor of unsigned counters.                  *)
(***************************************************************************)
LEMMA MinusValue ==
  ASSUME NEW i \in 0..UINT-1, NEW j \in 0..UINT-1
  PROVE  /\ Minus(i, j) \in 0..UINT-1
         /\ Minus(i, j) = IF i >= j THEN i - j ELSE UINT + i - j
  <1>1. UINT \in Nat \ {0}
    BY ConsoleAssumption
  <1>2. Minus(i, j) = IF i >= j THEN i - j ELSE UINT + i - j
    BY <1>1, Distance, Zenon DEF Minus
  <1> QED
    BY <1>1, <1>2

\* Unsigned addition to input.r, input.w or input.e.
LEMMA PlusValue ==
  ASSUME NEW i \in 0..UINT-1, NEW k \in 0..UINT
  PROVE  /\ (i + k) % UINT \in 0..UINT-1
         /\ (i + k) % UINT = IF i + k < UINT THEN i + k ELSE i + k - UINT
  <1>1. UINT \in Nat \ {0}
    BY ConsoleAssumption
  <1>2. (i + k) % UINT = IF i + k < UINT THEN i + k ELSE i + k - UINT
    BY <1>1, Advance, Zenon
  <1> QED
    BY <1>1, <1>2

(***************************************************************************)
(* A stretch of the ring is a sequence of characters.                      *)
(***************************************************************************)
LEMMA BytesType ==
  ASSUME buf \in [0..INPUT_BUF-1 -> Char], NEW i \in Nat, NEW n \in Nat
  PROVE  /\ Bytes(i, n) \in Seq(Char) /\ Len(Bytes(i, n)) = n
         /\ Bytes(i, n) \in [1..n -> Char]
         /\ \A k \in 1..n : Bytes(i, n)[k] = buf[(i + k - 1) % INPUT_BUF]
  <1>1. INPUT_BUF \in Nat \ {0}
    BY ConsoleAssumption
  <1>2. \A k \in 1..n : (i + k - 1) % INPUT_BUF \in 0..INPUT_BUF-1
    BY <1>1
  <1>3. Bytes(i, n) \in [1..n -> Char]
    BY <1>2 DEF Bytes
  <1>4. Bytes(i, n) \in Seq(Char)
    BY <1>3
  <1>5. Len(Bytes(i, n)) = n
    BY <1>3, <1>4
  <1>6. \A k \in 1..n : Bytes(i, n)[k] = buf[(i + k - 1) % INPUT_BUF]
    BY DEF Bytes
  <1> QED
    BY <1>3, <1>4, <1>5, <1>6

(***************************************************************************)
(* The cursor stays in the lines that scroll.                              *)
(***************************************************************************)
LEMMA CursorStays ==
  ASSUME NEW at \in 0..(ROWS - 1) * COLS - 1, NEW c
  PROVE  cgaputc(at, c) \in 0..(ROWS - 1) * COLS - 1
  <1>1. COLS \in Nat \ {0} /\ ROWS \in Nat \ {0, 1}
    BY ConsoleAssumption
  <1>2. PICK m \in Nat : m = (ROWS - 1) * COLS /\ m >= COLS
    BY <1>1
  <1> DEFINE to == CASE c = "nl" -> at + COLS - (at % COLS)
                     [] c = "^H" -> IF at > 0 THEN at - 1 ELSE 0
                     [] OTHER -> at + 1
  <1>3. to \in 0..m
    <2>1. PICK q \in Int, x \in 0..COLS-1 : at = COLS * q + x /\ at % COLS = x
      BY <1>1, <1>2, DivMod
    <2>2. at + COLS - x = COLS * (q + 1)
      BY <1>1, <2>1
    <2>3. q < ROWS - 1
      BY <1>1, <1>2, <2>1
    <2>4. COLS * (q + 1) <= m
      BY <1>1, <1>2, <2>3
    <2>5. at + COLS - (at % COLS) \in 0..m
      BY <1>1, <1>2, <2>1, <2>2, <2>4
    <2> QED
      BY <1>1, <1>2, <2>5
  <1>4. to \div COLS >= ROWS - 1 <=> to >= m
    <2>1. PICK t \in Int : t = to
      BY <1>3
    <2> HIDE DEF to
    <2>2. t \div COLS \in Int /\ COLS * (t \div COLS) <= t /\ t < COLS * (t \div COLS) + COLS
      BY <1>1
    <2>3. t \div COLS >= ROWS - 1 => t >= m
      BY <1>1, <1>2, <2>2
    <2>4. t \div COLS < ROWS - 1 => t < m
      <3>1. ASSUME t \div COLS < ROWS - 1 PROVE (t \div COLS) + 1 <= ROWS - 1
        BY <1>1, <2>2, <3>1
      <3>2. ASSUME t \div COLS < ROWS - 1 PROVE COLS * ((t \div COLS) + 1) <= m
        BY <1>1, <1>2, <2>2, <3>1, <3>2
      <3> QED
        BY <1>1, <2>2, <3>2
    <2> QED
      BY <1>1, <2>1, <2>2, <2>3, <2>4
  <1>5. cgaputc(at, c) = IF to >= m THEN to - COLS ELSE to
    BY <1>4 DEF cgaputc
  <1> HIDE DEF to
  <1> QED
    BY <1>1, <1>2, <1>3, <1>5

(***************************************************************************)
(* The slot of a counter is its distance from another counter, though both *)
(* wrap, since UINT is a multiple of INPUT_BUF.                            *)
(***************************************************************************)
LEMMA SlotFrom ==
  ASSUME NEW i \in 0..UINT-1, NEW j \in 0..UINT-1, NEW k \in Int
  PROVE  (i + k) % INPUT_BUF = (j + Minus(i, j) + k) % INPUT_BUF
  <1>1. UINT \in Nat \ {0} /\ INPUT_BUF \in Nat \ {0} /\ UINT % INPUT_BUF = 0
    BY ConsoleAssumption
  <1>2. PICK a \in Int, b \in Int : a = i + k /\ b = j + Minus(i, j) + k
    BY <1>1, MinusValue
  <1>3. Minus(i, j) = IF i >= j THEN i - j ELSE UINT + i - j
    BY MinusValue
  <1>4. a = b \/ a = b - UINT
    BY <1>1, <1>2, <1>3
  <1>5. (b - UINT) % INPUT_BUF = b % INPUT_BUF
    BY <1>1, WrapSlot, Zenon
  <1> QED
    BY <1>2, <1>4, <1>5

(***************************************************************************)
(* r, w and e in their order around the ring.                              *)
(***************************************************************************)
LEMMA RingOrder ==
  ASSUME TypeOK, RingMovesOn
  PROVE  /\ Minus(w, r) \in 0..INPUT_BUF /\ Minus(e, r) \in 0..INPUT_BUF
         /\ Minus(w, r) <= Minus(e, r)
         /\ Minus(e, w) = Minus(e, r) - Minus(w, r)
  <1>1. /\ r \in 0..UINT-1 /\ w \in 0..UINT-1 /\ e \in 0..UINT-1
        /\ UINT \in Nat /\ INPUT_BUF \in Nat
    BY ConsoleAssumption DEF TypeOK
  <1>2. /\ Minus(w, r) = IF w >= r THEN w - r ELSE UINT + w - r
        /\ Minus(e, r) = IF e >= r THEN e - r ELSE UINT + e - r
        /\ Minus(e, w) = IF e >= w THEN e - w ELSE UINT + e - w
    BY <1>1, MinusValue
  <1> QED
    BY <1>1, <1>2 DEF RingMovesOn

(***************************************************************************)
(* The slot that consoleintr() writes is none of those in use.             *)
(***************************************************************************)
LEMMA NewSlot ==
  ASSUME TypeOK, RingMovesOn, Minus(e, r) < INPUT_BUF, NEW k \in 1..Minus(e, r)
  PROVE  (r + k - 1) % INPUT_BUF # e % INPUT_BUF
  <1>1. INPUT_BUF \in Nat \ {0} /\ Minus(e, r) \in 0..INPUT_BUF-1 /\ r \in Nat /\ e \in Nat
    BY ConsoleAssumption, RingOrder DEF TypeOK
  <1>2. e % INPUT_BUF = (r + Minus(e, r)) % INPUT_BUF
    <2>1. (e + 0) % INPUT_BUF = (r + Minus(e, r) + 0) % INPUT_BUF
      BY SlotFrom DEF TypeOK
    <2> QED
      BY <1>1, <2>1
  <1>3. PICK a \in Int, d \in 1..INPUT_BUF-1 : a = r + k - 1 /\ d = Minus(e, r) - k + 1
    BY <1>1
  <1>4. (a + d) % INPUT_BUF # a % INPUT_BUF
    BY <1>1, DistinctSlots, Zenon
  <1>5. a + d = r + Minus(e, r)
    BY <1>1, <1>3
  <1> QED
    BY <1>2, <1>3, <1>4, <1>5

(***************************************************************************)
(* Store() adds a character to the unfinished line, or finishes the line   *)
(* with it; what is finished is in the ring as before.                     *)
(***************************************************************************)
LEMMA StoreFacts ==
  ASSUME TypeOK, RingMovesOn, LineInv, NEW c \in Char, Store(c)
  PROVE  /\ buf' \in [0..INPUT_BUF-1 -> Char] /\ e' \in 0..UINT-1 /\ w' \in 0..UINT-1
         /\ r' = r /\ RingMovesOn' /\ LineInv'
         /\ w' # w => kbd' = "wakeup" /\ lock' = [lock EXCEPT !["cons"] = "kbd"]
         /\ w' = w => kbd' = kbd /\ lock' = lock
         /\ \E s \in Seq(Char) : /\ Len(s) <= INPUT_BUF - Len(Finished)
                                 /\ Finished' = Finished \o s
                                 /\ w' # w => Len(s) > 0
  <1> DEFINE dw == Minus(w, r)
             de == Minus(e, r)
             n == Minus(e, w)
  <1>1. /\ r \in 0..UINT-1 /\ w \in 0..UINT-1 /\ e \in 0..UINT-1
        /\ UINT \in Nat \ {0} /\ INPUT_BUF \in Nat \ {0} /\ UINT > INPUT_BUF
        /\ buf \in [0..INPUT_BUF-1 -> Char]
    BY ConsoleAssumption DEF TypeOK, Char
  <1>2. dw \in 0..INPUT_BUF /\ de \in 0..INPUT_BUF-1 /\ dw <= de /\ n = de - dw
    BY RingOrder, <1>1 DEF Store
  <1>3. /\ r' = r /\ e' = (e + 1) % UINT
        /\ buf' = [buf EXCEPT ![e % INPUT_BUF] = c]
        /\ \/ /\ Publishes(c) /\ w' = e' /\ kbd' = "wakeup" /\ lock' = [lock EXCEPT !["cons"] = "kbd"]
           \/ ~Publishes(c) /\ w' = w /\ kbd' = kbd /\ lock' = lock
    BY DEF Store, Hold
  <1>4. /\ e' \in 0..UINT-1
        /\ e' = IF e + 1 < UINT THEN e + 1 ELSE e + 1 - UINT
    <2>1. 1 \in 0..UINT
      BY <1>1
    <2> QED
      BY <1>1, <1>3, <2>1, PlusValue
  <1>5. buf' \in [0..INPUT_BUF-1 -> Char] /\ w' \in 0..UINT-1
    BY <1>1, <1>3, <1>4
  <1>6. Minus(e', r) = de + 1 /\ Minus(e', w) = n + 1 /\ Minus(e', e') = 0
    <2>1. /\ de = IF e >= r THEN e - r ELSE UINT + e - r
          /\ n = IF e >= w THEN e - w ELSE UINT + e - w
          /\ Minus(e', r) = IF e' >= r THEN e' - r ELSE UINT + e' - r
          /\ Minus(e', w) = IF e' >= w THEN e' - w ELSE UINT + e' - w
          /\ Minus(e', e') = IF e' >= e' THEN e' - e' ELSE UINT + e' - e'
      BY <1>1, <1>4, MinusValue
    <2>2. r \in Int /\ w \in Int /\ e \in Int /\ e' \in Int /\ UINT \in Int
      BY <1>1, <1>4
    <2> HIDE DEF de, n
    <2>3. Minus(e', e') = 0
      <3>1. \A x \in Int : x >= x /\ x - x = 0
        OBVIOUS
      <3> QED
        BY <2>1, <2>2, <3>1
    <2>4. Minus(e', r) = de + 1
      <3>1. de + 1 < UINT
        BY <1>1, <1>2
      <3> QED
        BY <1>1, <1>4, <2>1, <2>2, <3>1
    <2>5. Minus(e', w) = n + 1
      <3>1. n + 1 < UINT
        BY <1>1, <1>2
      <3> QED
        BY <1>1, <1>4, <2>1, <2>2, <3>1
    <2> QED
      BY <2>3, <2>4, <2>5
  <1>7. w' = w \/ w' = e'
    BY <1>3
  <1>8. /\ Minus(w, r)' = Minus(w', r) /\ Minus(e, r)' = Minus(e', r)
        /\ Minus(e, w)' = Minus(e', w')
    BY <1>3 DEF Minus
  <1>9. RingMovesOn'
    <2>1. CASE w' = e'
      BY <1>1, <1>2, <1>6, <1>8, <2>1 DEF RingMovesOn
    <2>2. CASE w' = w /\ ~Publishes(c)
      <3>1. de # INPUT_BUF - 1
        BY <2>2 DEF Publishes
      <3>2. de + 1 < INPUT_BUF
        BY <1>1, <1>2, <3>1
      <3> HIDE DEF de, dw, n
      <3> QED
        BY <1>1, <1>2, <1>6, <1>8, <2>2, <3>2 DEF RingMovesOn, dw
    <2> QED
      BY <1>3, <2>1, <2>2
  <1>10. \A k \in 1..de : buf'[(r + k - 1) % INPUT_BUF] = buf[(r + k - 1) % INPUT_BUF]
    <2> TAKE k \in 1..de
    <2>1. (r + k - 1) % INPUT_BUF # e % INPUT_BUF
      BY <1>1, <1>2, NewSlot
    <2>2. (r + k - 1) % INPUT_BUF \in 0..INPUT_BUF-1
      BY <1>1
    <2> QED
      BY <1>1, <1>3, <2>1, <2>2
  <1>11. \A k \in 1..n : buf'[(w + k - 1) % INPUT_BUF] = buf[(w + k - 1) % INPUT_BUF]
    <2> TAKE k \in 1..n
    <2>1. PICK j \in 1..de, i \in Int : j = dw + k /\ i = k - 1
      BY <1>2
    <2>2. (w + i) % INPUT_BUF = (r + Minus(w, r) + i) % INPUT_BUF
      BY <1>1, SlotFrom
    <2>3. w + i = w + k - 1 /\ r + dw + i = r + j - 1
      <3>1. w \in Int /\ r \in Int /\ dw \in Int /\ k \in Int /\ n \in Int
        BY <1>1, <1>2
      <3> HIDE DEF dw, de, n
      <3> QED
        BY <2>1, <3>1
    <2> QED
      BY <1>10, <2>1, <2>2, <2>3
  <1>12. n + 1 \in Nat /\ buf'[(w + (n + 1) - 1) % INPUT_BUF] = c
    <2>1. (e + 0) % INPUT_BUF = (w + Minus(e, w) + 0) % INPUT_BUF
      BY <1>1, SlotFrom
    <2>2. e + 0 = e /\ w + n + 0 = w + (n + 1) - 1
      BY <1>1, <1>2
    <2>3. e % INPUT_BUF \in 0..INPUT_BUF-1
      BY <1>1
    <2> QED
      BY <1>1, <1>2, <1>3, <2>1, <2>2, <2>3
  <1>13. LineInv'
    <2>1. CASE w' = e'
      BY <1>1, <1>6, <1>8, <2>1 DEF LineInv
    <2>2. CASE w' = w /\ ~Publishes(c)
      <3>1. c # "nl"
        BY <2>2 DEF Publishes
      <3>2. ASSUME NEW k \in 1..n + 1
            PROVE  buf'[(w + k - 1) % INPUT_BUF] # "nl"
        <4>1. CASE k \in 1..n
          <5>1. Bytes(w, n)[k] = buf[(w + k - 1) % INPUT_BUF]
            BY <4>1 DEF Bytes
          <5> QED
            BY <1>11, <4>1, <5>1 DEF LineInv
        <4>2. CASE k = n + 1
          BY <1>12, <3>1, <4>2
        <4> QED
          BY <1>2, <4>1, <4>2
      <3>3. Bytes(w, Minus(e, w))' = [k \in 1..n + 1 |-> buf'[(w + k - 1) % INPUT_BUF]]
        BY <1>6, <1>8, <2>2 DEF Bytes
      <3> HIDE DEF n
      <3> QED
        <4>1. Minus(e, w)' = n + 1
          BY <1>6, <1>8, <2>2 DEF n
        <4>2. \A k \in 1..n + 1 : Bytes(w, Minus(e, w))'[k] # "nl"
          BY <3>2, <3>3
        <4> QED
          BY <4>1, <4>2 DEF LineInv
    <2> QED
      BY <1>3, <2>1, <2>2
  <1>14. /\ Finished \in Seq(Char) /\ Len(Finished) = dw
         /\ Finished = [k \in 1..dw |-> buf[(r + k - 1) % INPUT_BUF]]
    BY <1>1, <1>2, BytesType DEF Finished, Bytes
  <1>15. \E s \in Seq(Char) : /\ Len(s) <= INPUT_BUF - Len(Finished)
                              /\ Finished' = Finished \o s
                              /\ w' # w => Len(s) > 0
    <2>1. CASE w' = w
      <3>1. Finished' = [k \in 1..dw |-> buf'[(r + k - 1) % INPUT_BUF]]
        BY <1>3, <1>8, <2>1 DEF Finished, Bytes
      <3>2. \A k \in 1..dw : k \in 1..de
        BY <1>2
      <3>3. Finished' = Finished
        BY <1>10, <1>14, <3>1, <3>2
      <3>4. <<>> \in Seq(Char) /\ Len(<<>>) = 0 /\ Finished' = Finished \o <<>>
        BY <1>14, <3>3, ConcatEmptySeq, EmptySeq
      <3> QED
        <4>1. Len(<<>>) <= INPUT_BUF - Len(Finished)
          BY <1>1, <1>2, <1>14, <3>4
        <4> QED
          BY <2>1, <3>4, <4>1
    <2>2. CASE w' = e'
      <3> DEFINE s == [k \in 1..n + 1 |-> buf'[(w + k - 1) % INPUT_BUF]]
      <3>1. n + 1 \in Nat /\ \A k \in 1..n + 1 : (w + k - 1) % INPUT_BUF \in 0..INPUT_BUF-1
        BY <1>1, <1>2
      <3>2. s \in [1..n + 1 -> Char]
        BY <1>5, <3>1
      <3>3. s \in Seq(Char) /\ Len(s) = n + 1
        BY <3>1, <3>2
      <3>4. Finished' = [k \in 1..de + 1 |-> buf'[(r + k - 1) % INPUT_BUF]]
        BY <1>3, <1>6, <1>8, <2>2 DEF Finished, Bytes
      <3>5. /\ Finished \o s \in Seq(Char) /\ Len(Finished \o s) = de + 1
            /\ \A k \in 1..de + 1 :
                 (Finished \o s)[k] = IF k <= dw THEN Finished[k] ELSE s[k - dw]
        <4>1. dw + (n + 1) = de + 1
          BY <1>2
        <4> HIDE DEF s, dw, de, n
        <4> QED
          <5>1. /\ Finished \o s \in Seq(Char)
                /\ Len(Finished \o s) = Len(Finished) + Len(s)
                /\ \A k \in 1..Len(Finished) + Len(s) :
                     (Finished \o s)[k] =
                       IF k <= Len(Finished) THEN Finished[k] ELSE s[k - Len(Finished)]
            BY <1>14, <3>3, ConcatProperties, Zenon
          <5> QED
            BY <1>14, <3>3, <4>1, <5>1
      <3>6. ASSUME NEW k \in 1..de + 1
            PROVE  (Finished \o s)[k] = buf'[(r + k - 1) % INPUT_BUF]
        <4>1. CASE k <= dw
          <5>1. k \in 1..dw /\ k \in 1..de
            BY <1>2, <4>1
          <5> QED
            BY <1>10, <1>14, <3>5, <4>1, <5>1
        <4>2. CASE k > dw
          <5>1. PICK j \in 1..n + 1, i \in Int : j = k - dw /\ i = k - dw - 1
            BY <1>2, <4>2
          <5>2. (w + i) % INPUT_BUF = (r + Minus(w, r) + i) % INPUT_BUF
            BY <1>1, SlotFrom
          <5>3. w + i = w + j - 1 /\ r + dw + i = r + k - 1
            <6>1. w \in Int /\ r \in Int /\ dw \in Int /\ k \in Int /\ j \in Int
              BY <1>1, <1>2
            <6> HIDE DEF s, dw, de, n
            <6> QED
              BY <5>1, <6>1
          <5>4. (Finished \o s)[k] = s[j]
            <6>1. ~(k <= dw)
              BY <1>2, <4>2
            <6> HIDE DEF s, dw, de, n
            <6> QED
              BY <3>5, <5>1, <6>1
          <5> QED
            BY <5>2, <5>3, <5>4
        <4> QED
          <5>1. k <= dw \/ k > dw
            BY <1>2
          <5> HIDE DEF s, dw, de
          <5> QED
            BY <4>1, <4>2, <5>1, Zenon
      <3>7. Finished \o s = [k \in 1..de + 1 |-> (Finished \o s)[k]]
        BY <3>5, LenProperties
      <3>8. Finished' = Finished \o s
        BY <3>4, <3>6, <3>7
      <3>9. Len(s) <= INPUT_BUF - Len(Finished) /\ Len(s) > 0
        BY <1>1, <1>2, <1>14, <3>3
      <3> HIDE DEF s
      <3> QED
        BY <3>3, <3>8, <3>9
    <2> QED
      BY <1>7, <2>1, <2>2
  <1>16. Publishes(c) => w' # w
    <2>1. Minus(w, w) = 0
      BY <1>1, MinusValue
    <2> QED
      BY <1>2, <1>3, <1>6, <2>1
  <1> QED
    BY <1>3, <1>4, <1>5, <1>9, <1>13, <1>15, <1>16

(***************************************************************************)
(* ^U erases the whole unfinished line, as there is no newline in it.      *)
(***************************************************************************)
LEMMA LineLengthValue ==
  ASSUME TypeOK, LineInv
  PROVE  LineLength = Minus(e, w) /\ Minus(e, w) \in 0..UINT-1
  <1>0. w \in 0..UINT-1 /\ e \in 0..UINT-1 /\ UINT \in Nat
    BY ConsoleAssumption DEF TypeOK
  <1>1. Minus(e, w) \in 0..UINT-1 /\ w \in Nat /\ buf \in [0..INPUT_BUF-1 -> Char]
    BY <1>0, MinusValue DEF TypeOK, Char
  <1> DEFINE s == Bytes(w, Minus(e, w))
  <1>2. s \in Seq(Char) /\ Len(s) = Minus(e, w) /\ s \in [1..Minus(e, w) -> Char]
    BY <1>1, BytesType, ConsoleAssumption
  <1>3. ~ \E k \in DOMAIN s : s[k] = "nl"
    BY <1>2 DEF LineInv
  <1>4. LineLength = Len(s) - 0
    BY <1>3 DEF LineLength
  <1> HIDE DEF s
  <1> QED
    BY <1>1, <1>2, <1>4, ConsoleAssumption

(***************************************************************************)
(* Erase() stays in the unfinished line: it never reaches what is finished *)
(* (the guards e != w of consoleintr), nor does the cursor leave the screen*)
(***************************************************************************)
LEMMA EraseFacts ==
  ASSUME TypeOK, RingMovesOn, LineInv, CursorOnScreen, NEW n \in {1, LineLength}, Erase(n)
  PROVE  /\ e' \in 0..UINT-1 /\ UNCHANGED <<buf, r, w, kbd, lock>>
         /\ RingMovesOn' /\ LineInv' /\ CursorOnScreen'
         /\ Finished' = Finished
  <1> DEFINE m == Minus(e, w)
  <1>1. /\ r \in 0..UINT-1 /\ w \in 0..UINT-1 /\ e \in 0..UINT-1
        /\ UINT \in Nat \ {0} /\ INPUT_BUF \in Nat \ {0} /\ UINT > INPUT_BUF
    BY ConsoleAssumption DEF TypeOK
  <1>2. /\ Minus(w, r) \in 0..INPUT_BUF /\ Minus(e, r) \in 0..INPUT_BUF
        /\ Minus(w, r) <= Minus(e, r) /\ m = Minus(e, r) - Minus(w, r)
    BY RingOrder
  <1>3. n \in 1..m /\ n \in 0..UINT-1
    <2>1. m # 0
      <3>1. m = IF e >= w THEN e - w ELSE UINT + e - w
        BY <1>1, MinusValue
      <3> QED
        BY <1>1, <3>1 DEF Erase, Erasable
    <2> QED
      BY <1>1, <1>2, <2>1, LineLengthValue
  <1>4. /\ UNCHANGED <<buf, r, w, kbd, lock>> /\ e' = Minus(e, n)
        /\ pos' = IF pos >= n THEN pos - n ELSE 0
    BY DEF Erase
  <1>5. e' \in 0..UINT-1 /\ e' = IF e >= n THEN e - n ELSE UINT + e - n
    BY <1>1, <1>3, <1>4, MinusValue
  <1>6. Minus(e', r) = Minus(e, r) - n /\ Minus(e', w) = m - n
    <2>1. /\ m = IF e >= w THEN e - w ELSE UINT + e - w
          /\ Minus(e, r) = IF e >= r THEN e - r ELSE UINT + e - r
          /\ Minus(e', r) = IF e' >= r THEN e' - r ELSE UINT + e' - r
          /\ Minus(e', w) = IF e' >= w THEN e' - w ELSE UINT + e' - w
      BY <1>1, <1>5, MinusValue
    <2> HIDE DEF m
    <2> QED
      BY <1>1, <1>2, <1>3, <1>5, <2>1
  <1>7. Minus(w, r)' = Minus(w, r) /\ Minus(e, r)' = Minus(e', r) /\ Minus(e, w)' = Minus(e', w)
    BY <1>4 DEF Minus
  <1>8. RingMovesOn'
    BY <1>1, <1>2, <1>3, <1>6, <1>7 DEF RingMovesOn
  <1>9. LineInv'
    <2>1. ASSUME NEW k \in 1..m - n PROVE Bytes(w, m - n)[k] # "nl"
      <3>1. k \in 1..m /\ Bytes(w, m)[k] = Bytes(w, m - n)[k]
        BY <1>2, <1>3 DEF Bytes
      <3> QED
        BY <3>1 DEF LineInv
    <2>2. Bytes(w, Minus(e, w))' = Bytes(w, m - n) /\ Minus(e, w)' = m - n
      BY <1>4, <1>6, <1>7 DEF Bytes
    <2> HIDE DEF m
    <2> QED
      BY <2>1, <2>2 DEF LineInv
  <1>10. CursorOnScreen'
    <2>1. PICK top \in Int : top = (ROWS - 1) * COLS - 1
      BY ConsoleAssumption
    <2> HIDE DEF m
    <2> QED
      BY <1>2, <1>3, <1>4, <2>1 DEF CursorOnScreen
  <1>11. Finished' = Finished
    BY <1>4, <1>7 DEF Finished, Bytes
  <1> QED
    BY <1>4, <1>5, <1>8, <1>9, <1>10, <1>11

(***************************************************************************)
(* A reader that takes j finished characters leaves the others, and the    *)
(* unfinished line, as they are.                                           *)
(***************************************************************************)
LEMMA TakeFacts ==
  ASSUME TypeOK, RingMovesOn, LineInv, NEW j \in 0..Minus(w, r),
         r' = (r + j) % UINT, UNCHANGED <<buf, w, e>>
  PROVE  /\ r' \in 0..UINT-1 /\ Minus(r', r) = j /\ RingMovesOn' /\ LineInv'
         /\ Finished \in Seq(Char) /\ Len(Finished) = Minus(w, r)
         /\ Finished' = SubSeq(Finished, j + 1, Len(Finished))
  <1> DEFINE dw == Minus(w, r)
  <1>1. /\ r \in 0..UINT-1 /\ w \in 0..UINT-1 /\ e \in 0..UINT-1 /\ r \in Nat
        /\ UINT \in Nat \ {0} /\ INPUT_BUF \in Nat \ {0} /\ UINT > INPUT_BUF
        /\ buf \in [0..INPUT_BUF-1 -> Char]
    BY ConsoleAssumption DEF TypeOK, Char
  <1>2. /\ dw \in 0..INPUT_BUF /\ Minus(e, r) \in 0..INPUT_BUF
        /\ dw <= Minus(e, r)
    BY RingOrder
  <1>3. r' \in 0..UINT-1 /\ r' = IF r + j < UINT THEN r + j ELSE r + j - UINT
    <2>1. j \in 0..UINT
      BY <1>1, <1>2
    <2> QED
      BY <1>1, <2>1, PlusValue
  <1>4. Minus(w, r') = dw - j /\ Minus(e, r') = Minus(e, r) - j /\ Minus(r', r) = j
    <2>1. /\ dw = IF w >= r THEN w - r ELSE UINT + w - r
          /\ Minus(e, r) = IF e >= r THEN e - r ELSE UINT + e - r
          /\ Minus(e, r') = IF e >= r' THEN e - r' ELSE UINT + e - r'
          /\ Minus(w, r') = IF w >= r' THEN w - r' ELSE UINT + w - r'
          /\ Minus(r', r) = IF r' >= r THEN r' - r ELSE UINT + r' - r
      BY <1>1, <1>3, MinusValue
    <2>2. j \in 0..dw
      OBVIOUS
    <2> HIDE DEF dw
    <2>3. j \in 0..INPUT_BUF /\ j <= dw
      BY <1>1, <1>2, <2>2
    <2>4. Minus(r', r) = j
      BY <1>1, <1>3, <2>1, <2>3
    <2>a. /\ r \in Int /\ w \in Int /\ e \in Int /\ r' \in Int /\ UINT \in Int /\ j \in Int
          /\ r < UINT /\ w < UINT /\ e < UINT /\ 0 <= j /\ j <= Minus(e, r)
      BY <1>1, <1>2, <1>3, <2>3
    <2>5. Minus(w, r') = dw - j
      <3>1. 0 <= w
        BY <1>1
      <3> QED
        BY <1>3, <2>1, <2>3, <2>a, <3>1
    <2>6. Minus(e, r') = Minus(e, r) - j
      <3>1. 0 <= e
        BY <1>1
      <3> QED
        BY <1>3, <2>1, <2>a, <3>1
    <2> QED
      BY <2>4, <2>5, <2>6
  <1>5. Minus(w, r)' = Minus(w, r') /\ Minus(e, r)' = Minus(e, r') /\ Minus(e, w)' = Minus(e, w)
    BY DEF Minus
  <1>6. RingMovesOn'
    BY <1>1, <1>2, <1>4, <1>5 DEF RingMovesOn
  <1>7. LineInv'
    BY <1>5 DEF LineInv, Bytes
  <1>8. /\ Finished \in Seq(Char) /\ Len(Finished) = dw
        /\ Finished = [k \in 1..dw |-> buf[(r + k - 1) % INPUT_BUF]]
    BY <1>1, <1>2, BytesType DEF Finished, Bytes
  <1>9. Finished' = [k \in 1..dw - j |-> buf[(r' + k - 1) % INPUT_BUF]]
    BY <1>4, <1>5 DEF Finished, Bytes
  <1>10. SubSeq(Finished, j + 1, Len(Finished)) = [k \in 1..dw - j |-> Finished[k + j]]
    <2>1. j \in Nat /\ dw \in Nat /\ j <= dw
      BY <1>2
    <2> HIDE DEF dw
    <2>2. SubSeq(Finished, j + 1, dw) = [k \in 1..(1 + dw - (j + 1)) |-> Finished[(j + 1) + k - 1]]
      BY <1>8, <2>1
    <2>3. 1 + dw - (j + 1) = dw - j /\ \A k \in 1..dw - j : (j + 1) + k - 1 = k + j
      BY <2>1
    <2> QED
      BY <1>8, <2>2, <2>3
  <1>11. ASSUME NEW k \in 1..dw - j
         PROVE  Finished[k + j] = buf[(r' + k - 1) % INPUT_BUF]
    <2>1. PICK i \in Int, m \in 1..dw : i = k - 1 /\ m = k + j
      BY <1>2
    <2>2. (r' + i) % INPUT_BUF = (r + Minus(r', r) + i) % INPUT_BUF
      BY <1>1, <1>3, SlotFrom
    <2>3. r' + i = r' + k - 1 /\ r + j + i = r + m - 1
      BY <1>1, <1>2, <1>3, <2>1
    <2> QED
      BY <1>4, <1>8, <2>1, <2>2, <2>3
  <1>12. Finished' = SubSeq(Finished, j + 1, Len(Finished))
    BY <1>9, <1>10, <1>11
  <1> QED
    BY <1>3, <1>4, <1>6, <1>7, <1>8, <1>12

(***************************************************************************)
(* Which read ends where: k is the first finished character that ends the  *)
(* read of p, and there is one unless all the finished characters are      *)
(* copied and more are wanted.                                             *)
(***************************************************************************)
Ends(p) == {k \in 1..Len(Finished) :
              k <= call[p].n /\ (Finished[k] \in {"nl", EOT} \/ k = call[p].n)}

FirstEnd(p) == CHOOSE i \in Ends(p) : \A j \in Ends(p) : i <= j

\* A read that some finished character ends has a first such character.
LEMMA FirstEndIsFirst ==
  ASSUME NEW p \in Proc, Ends(p) # {}, Len(Finished) \in Nat
  PROVE  FirstEnd(p) \in Ends(p) /\ \A j \in Ends(p) : FirstEnd(p) <= j
  <1>1. Ends(p) \subseteq Nat
    BY DEF Ends
  <1>2. PICK i \in Ends(p) : \A j \in Ends(p) : <<j, i>> \notin OpToRel(<, Nat)
    BY <1>1, NatLessThanWellFounded, WFMin, IsWellFoundedOnSubset
  <1>3. ASSUME NEW j \in Ends(p) PROVE i <= j
    <2>1. i \in Nat /\ j \in Nat
      BY <1>1
    <2>2. j < i => <<j, i>> \in OpToRel(<, Nat)
      BY <2>1 DEF OpToRel
    <2>3. ~(j < i)
      BY <1>2, <2>2, Zenon
    <2> QED
      BY <2>1, <2>3
  <1> QED
    BY <1>3 DEF FirstEnd

(***************************************************************************)
(* consoleread() takes characters from the front of the finished ones.     *)
(***************************************************************************)
LEMMA ReadFacts ==
  ASSUME TypeOK, RingMovesOn, ReaderInv, NEW p \in Proc, ReadLine(p)
  PROVE  /\ UNCHANGED <<buf, w, e, pos, ticks, kbd, timer>>
         /\ call[p].n \in Nat \ {0} /\ call[p].copied \in Nat
         /\ pc[p] = "acquire" /\ call[p].on = "cons" /\ lock["cons"] = "none"
         /\ \/ /\ Ends(p) # {} /\ FirstEnd(p) \in Ends(p)
               /\ \A j \in Ends(p) : FirstEnd(p) <= j
               /\ End(p, Finished, FirstEnd(p)) \in 0..Len(Finished)
               /\ r' = (r + End(p, Finished, FirstEnd(p))) % UINT
               /\ Return(p)
            \/ /\ Ends(p) = {}
               /\ r' = w /\ r' = (r + Len(Finished)) % UINT
               /\ call[p].n > Len(Finished)
               /\ MayWait(p, [call[p] EXCEPT !.n = @ - Len(Finished),
                                             !.copied = @ + Len(Finished)])
  <1>1. /\ r \in 0..UINT-1 /\ w \in 0..UINT-1 /\ e \in 0..UINT-1 /\ r \in Nat
        /\ UINT \in Nat \ {0} /\ INPUT_BUF \in Nat \ {0} /\ UINT > INPUT_BUF
        /\ buf \in [0..INPUT_BUF-1 -> Char]
    BY ConsoleAssumption DEF TypeOK, Char
  <1>2. Minus(w, r) \in 0..INPUT_BUF
    BY RingOrder
  <1>3. Finished \in Seq(Char) /\ Len(Finished) = Minus(w, r) /\ Len(Finished) \in Nat
    BY <1>1, <1>2, BytesType DEF Finished
  <1>4. /\ UNCHANGED <<buf, w, e, pos, ticks, kbd, timer>>
        /\ pc[p] = "acquire" /\ call[p].on = "cons" /\ lock["cons"] = "none"
    BY DEF ReadLine, Free
  <1>5. call[p].n \in Nat \ {0} /\ call[p].copied \in Nat
    <2>1. call[p] \in [on: {"cons", "tickslock"}, n: Int, copied: Nat, ticks0: Int]
      BY DEF TypeOK
    <2>2. call[p].n >= 1
      BY <1>4 DEF ReaderInv
    <2> QED
      BY <2>1, <2>2
  <1>6. \/ /\ Ends(p) # {}
           /\ r' = (r + End(p, Finished, FirstEnd(p))) % UINT
           /\ Return(p)
        \/ /\ Ends(p) = {}
           /\ r' = w
           /\ MayWait(p, [call[p] EXCEPT !.n = @ - Len(Finished),
                                         !.copied = @ + Len(Finished)])
    BY DEF ReadLine, Ends, FirstEnd, Finished
  <1>7. CASE Ends(p) # {}
    <2>1. FirstEnd(p) \in Ends(p) /\ \A j \in Ends(p) : FirstEnd(p) <= j
      BY <1>3, <1>7, FirstEndIsFirst
    <2>2. FirstEnd(p) \in 1..Len(Finished)
      BY <2>1 DEF Ends
    <2>3. End(p, Finished, FirstEnd(p)) \in 0..Len(Finished)
      BY <1>3, <2>2 DEF End
    <2> QED
      BY <1>4, <1>5, <1>6, <1>7, <2>1, <2>3
  <1>8. CASE Ends(p) = {}
    <2>1. call[p].n > Len(Finished)
      <3>1. call[p].n \notin 1..Len(Finished)
        BY <1>5, <1>8 DEF Ends
      <3> QED
        BY <1>3, <1>5, <3>1
    <2>2. w = (r + Len(Finished)) % UINT
      <3>1. PICK d \in 0..UINT : d = Minus(w, r)
        BY <1>1, <1>2
      <3>2. d = IF w >= r THEN w - r ELSE UINT + w - r
        BY <1>1, <3>1, MinusValue
      <3>3. (r + d) % UINT = IF r + d < UINT THEN r + d ELSE r + d - UINT
        BY <1>1, PlusValue
      <3> QED
        BY <1>1, <1>3, <3>1, <3>2, <3>3
    <2> QED
      BY <1>4, <1>5, <1>6, <1>8, <2>1, <2>2
  <1> QED
    BY <1>7, <1>8

-----------------------------------------------------------------------------
(***************************************************************************)
(* The inductive invariant, action by action.                              *)
(***************************************************************************)
LEMMA InitIInv == Init => IInv
  <1> SUFFICES ASSUME Init PROVE IInv
    OBVIOUS
  <1>0. /\ INPUT_BUF \in Nat \ {0} /\ UINT \in Nat \ {0} /\ UINT > INPUT_BUF
        /\ COLS \in Nat \ {0} /\ ROWS \in Nat \ {0, 1}
        /\ Proc \cap {"none", "kbd", "timer"} = {}
    BY ConsoleAssumption
  <1>1. TypeOK
    BY <1>0 DEF Init, TypeOK, NoCall, PC, Lock
  <1>2. Minus(e, r) = 0 /\ Minus(w, r) = 0 /\ Minus(e, w) = 0
    BY <1>0, <1>1, MinusValue DEF Init, TypeOK
  <1>3. RingMovesOn /\ LineInv
    BY <1>0, <1>2 DEF Init, RingMovesOn, LineInv
  <1>4. CursorOnScreen
    <2>1. (ROWS - 1) * COLS \in Nat \ {0}
      BY <1>0
    <2> QED
      BY <2>1 DEF Init, CursorOnScreen
  <1>5. ReaderInv /\ WaitInv /\ LockInv
    BY DEF Init, ReaderInv, WaitInv, LockInv, Lock
  <1> QED
    BY <1>1, <1>3, <1>4, <1>5 DEF IInv

\* A key that consoleintr() handles: echo, erase, kill the line, or end it.
LEMMA GetcIInv ==
  ASSUME IInv, NEW c \in Typed, Getc(c)
  PROVE  IInv'
  <1>0. Proc \cap {"none", "kbd", "timer"} = {}
    BY ConsoleAssumption
  <1>1. /\ kbd = "idle" /\ lock["cons"] = "none" /\ UNCHANGED <<ticks, pc, call, killed, timer>>
        /\ TypeOK /\ RingMovesOn /\ LineInv /\ CursorOnScreen /\ ReaderInv /\ LockInv /\ WaitInv
    BY DEF IInv, Getc, Free
  <1>2. ReaderInv'
    BY <1>1 DEF ReaderInv
  <1>3. CASE \E n \in {1, LineLength} : Erase(n)
    <2>1. PICK n \in {1, LineLength} : Erase(n)
      BY <1>3
    <2>2. /\ e' \in 0..UINT-1 /\ UNCHANGED <<buf, r, w, kbd, lock>>
          /\ RingMovesOn' /\ LineInv' /\ CursorOnScreen'
      BY <1>1, <2>1, EraseFacts
    <2>3. TypeOK'
      <3>1. pos' \in Nat
        BY <2>2, ConsoleAssumption DEF CursorOnScreen
      <3> QED
        BY <1>1, <2>2, <3>1 DEF TypeOK
    <2>4. LockInv' /\ WaitInv'
      BY <1>1, <2>2 DEF LockInv, WaitInv, MayStillWait, NotYet, Minus
    <2> QED
      BY <1>2, <2>2, <2>3, <2>4 DEF IInv
  <1>4. CASE \E d \in Char : Store(d)
    <2>1. PICK d \in Char : Store(d)
      BY <1>4
    <2>2. /\ buf' \in [0..INPUT_BUF-1 -> Char] /\ e' \in 0..UINT-1 /\ w' \in 0..UINT-1
          /\ r' = r /\ RingMovesOn' /\ LineInv'
          /\ w' # w => kbd' = "wakeup" /\ lock' = [lock EXCEPT !["cons"] = "kbd"]
          /\ w' = w => kbd' = kbd /\ lock' = lock
      BY <1>1, <2>1, StoreFacts
    <2>3. CursorOnScreen'
      BY <1>1, <2>1, CursorStays DEF Store, CursorOnScreen
    <2>4. TypeOK'
      <3>1. pos' \in Nat
        BY <2>3, ConsoleAssumption DEF CursorOnScreen
      <3> QED
        BY <1>1, <2>2, <3>1 DEF TypeOK, Char
    <2>5. LockInv'
      BY <1>0, <1>1, <2>2 DEF LockInv, TypeOK, Lock
    <2>6. WaitInv'
      BY <1>1, <2>2 DEF WaitInv, MayStillWait, NotYet, Minus
    <2> QED
      BY <1>2, <2>2, <2>3, <2>4, <2>5, <2>6 DEF IInv
  <1> QED
    BY <1>3, <1>4 DEF Getc, Typed, Char

(***************************************************************************)
(* Steps that change nothing but the cursor.                               *)
(***************************************************************************)
LEMMA PrintIInv ==
  ASSUME IInv, NEW c, pos' = cgaputc(pos, c),
         UNCHANGED <<input, ticks, lock, pc, call, killed, kbd, timer>>
  PROVE  IInv'
  <1>1. CursorOnScreen'
    BY CursorStays DEF IInv, CursorOnScreen
  <1>2. pos' \in Nat
    BY <1>1, ConsoleAssumption DEF CursorOnScreen
  <1>3. TypeOK'
    BY <1>2 DEF IInv, TypeOK, input
  <1>4. RingMovesOn' /\ LineInv'
    BY DEF IInv, input, RingMovesOn, LineInv, Minus, Bytes
  <1>5. ReaderInv' /\ LockInv' /\ WaitInv'
    BY DEF IInv, input, ReaderInv, LockInv, WaitInv, MayStillWait, NotYet, Minus
  <1> QED
    BY <1>1, <1>3, <1>4, <1>5 DEF IInv

(***************************************************************************)
(* Steps that leave the ring, the cursor and the clock alone.              *)
(***************************************************************************)
LEMMA RingStays ==
  ASSUME IInv, UNCHANGED <<input, pos>>
  PROVE  RingMovesOn' /\ LineInv' /\ CursorOnScreen'
  BY DEF IInv, input, RingMovesOn, LineInv, Minus, Bytes, CursorOnScreen

\* The wakeup() of consoleintr() and the two steps of the clock interrupt.
LEMMA HandlerIInv ==
  ASSUME IInv, IntrWakes \/ Tick \/ TickWakes
  PROVE  IInv'
  <1>0. Proc \cap {"none", "kbd", "timer"} = {}
    BY ConsoleAssumption
  <1>1. TypeOK /\ ReaderInv /\ LockInv /\ WaitInv
    BY DEF IInv
  <1>2. RingMovesOn' /\ LineInv' /\ CursorOnScreen'
    BY RingStays DEF IntrWakes, Tick, TickWakes
  <1>3. CASE IntrWakes
    <2>1. /\ kbd = "wakeup" /\ lock["ptable"] = "none" /\ kbd' = "idle"
          /\ lock' = [lock EXCEPT !["cons"] = "none"]
          /\ pc' = [p \in Proc |-> IF pc[p] = "asleep" /\ call[p].on = "cons"
                                   THEN "acquire" ELSE pc[p]]
          /\ UNCHANGED <<buf, r, w, e, pos, ticks, call, killed, timer>>
      BY <1>3 DEF IntrWakes, Free, Drop, Wakeup, input
    <2>2. TypeOK'
      BY <1>1, <2>1 DEF TypeOK, PC
    <2>3. ReaderInv'
      BY <1>1, <2>1 DEF ReaderInv
    <2>4. LockInv'
      BY <1>0, <1>1, <2>1 DEF LockInv, TypeOK, Lock
    <2>5. WaitInv'
      BY <1>0, <1>1, <2>1 DEF WaitInv, LockInv, TypeOK, MayStillWait, NotYet, Minus
    <2> QED
      BY <1>2, <2>2, <2>3, <2>4, <2>5 DEF IInv
  <1>4. CASE Tick
    <2>1. /\ timer = "idle" /\ lock["tickslock"] = "none" /\ timer' = "wakeup"
          /\ lock' = [lock EXCEPT !["tickslock"] = "timer"]
          /\ ticks' = (ticks + 1) % UINT
          /\ UNCHANGED <<buf, r, w, e, pos, pc, call, killed, kbd>>
      BY <1>4 DEF Tick, Free, Hold, input
    <2>2. TypeOK'
      <3>1. ticks' \in 0..UINT-1
        BY <1>1, <2>1, ConsoleAssumption DEF TypeOK
      <3> QED
        BY <1>1, <2>1, <3>1 DEF TypeOK
    <2>3. ReaderInv'
      BY <1>1, <2>1 DEF ReaderInv
    <2>4. LockInv'
      BY <1>0, <1>1, <2>1 DEF LockInv, TypeOK, Lock
    <2>5. WaitInv'
      BY <1>1, <2>1 DEF WaitInv, MayStillWait
    <2> QED
      BY <1>2, <2>2, <2>3, <2>4, <2>5 DEF IInv
  <1>5. CASE TickWakes
    <2>1. /\ timer = "wakeup" /\ lock["ptable"] = "none" /\ timer' = "idle"
          /\ lock' = [lock EXCEPT !["tickslock"] = "none"]
          /\ pc' = [p \in Proc |-> IF pc[p] = "asleep" /\ call[p].on = "tickslock"
                                   THEN "acquire" ELSE pc[p]]
          /\ UNCHANGED <<buf, r, w, e, pos, ticks, call, killed, kbd>>
      BY <1>5 DEF TickWakes, Free, Drop, Wakeup, input
    <2>2. TypeOK'
      BY <1>1, <2>1 DEF TypeOK, PC
    <2>3. ReaderInv'
      BY <1>1, <2>1 DEF ReaderInv
    <2>4. LockInv'
      BY <1>0, <1>1, <2>1 DEF LockInv, TypeOK, Lock
    <2>5. WaitInv'
      <3>1. \A p \in Proc : call[p].on \in {"cons", "tickslock"}
        BY <1>1 DEF TypeOK
      <3> QED
        BY <1>0, <1>1, <2>1, <3>1 DEF WaitInv, LockInv, MayStillWait, TypeOK
    <2> QED
      BY <1>2, <2>2, <2>3, <2>4, <2>5 DEF IInv
  <1> QED
    BY <1>3, <1>4, <1>5

\* sys_read() of the console and sys_sleep() begin.
LEMMA SyscallIInv ==
  ASSUME IInv, NEW p \in Proc,
         (\E n \in Reads : SysRead(p, n)) \/ (\E n \in Sleeps : SysSleep(p, n))
  PROVE  IInv'
  <1>1. TypeOK /\ ReaderInv /\ LockInv /\ WaitInv
    BY DEF IInv
  <1>2. RingMovesOn' /\ LineInv' /\ CursorOnScreen'
    BY RingStays DEF SysRead, SysSleep
  <1>3. /\ UNCHANGED <<buf, r, w, e, pos, ticks, lock, killed, kbd, timer>>
        /\ pc[p] = "user" /\ pc' = [pc EXCEPT ![p] = "acquire"]
    BY DEF SysRead, SysSleep, Goto, input
  <1>4. PICK c \in [on: {"cons", "tickslock"}, n: Int, copied: Nat, ticks0: Int] :
          call' = [call EXCEPT ![p] = c] /\ (c.on = "cons" => c.n >= 1)
    <2>1. CASE \E n \in Reads : SysRead(p, n)
      <3>1. PICK n \in Reads : SysRead(p, n)
        BY <2>1
      <3>2. n \in Int /\ n >= 1
        BY ConsoleAssumption
      <3>3. /\ [NoCall EXCEPT !.n = n] \in [on: {"cons", "tickslock"}, n: Int, copied: Nat, ticks0: Int]
            /\ [NoCall EXCEPT !.n = n].n >= 1
        BY <3>2 DEF NoCall
      <3> QED
        BY <3>1, <3>3 DEF SysRead
    <2>2. CASE \E n \in Sleeps : SysSleep(p, n)
      <3>1. PICK n \in Sleeps : SysSleep(p, n)
        BY <2>2
      <3>2. n \in Int
        BY ConsoleAssumption
      <3>3. /\ [NoCall EXCEPT !.on = "tickslock", !.n = n]
                 \in [on: {"cons", "tickslock"}, n: Int, copied: Nat, ticks0: Int]
            /\ [NoCall EXCEPT !.on = "tickslock", !.n = n].on = "tickslock"
        <4>1. NoCall \in [on: {"cons", "tickslock"}, n: Int, copied: Nat, ticks0: Int]
          BY DEF NoCall
        <4> QED
          BY <3>2, <4>1
      <3> QED
        BY <3>1, <3>3 DEF SysSleep
    <2> QED
      BY <2>1, <2>2
  <1>5. TypeOK'
    BY <1>1, <1>3, <1>4 DEF TypeOK, PC
  <1>6. ReaderInv'
    BY <1>1, <1>3, <1>4 DEF ReaderInv, TypeOK
  <1>7. LockInv'
    BY <1>1, <1>3, <1>4 DEF LockInv, TypeOK
  <1>8. WaitInv'
    BY <1>1, <1>3, <1>4 DEF WaitInv, TypeOK, MayStillWait, NotYet, Minus
  <1> QED
    BY <1>2, <1>5, <1>6, <1>7, <1>8 DEF IInv

(***************************************************************************)
(* The end of a turn of the loops of consoleread() and sys_sleep(): either *)
(* the call returns, or it goes on to sleep(), holding its lock, with      *)
(* nothing to read or with ticks still to wait for.                        *)
(***************************************************************************)
LEMMA TurnIInv ==
  ASSUME IInv, NEW p \in Proc, pc[p] = "acquire",
         NEW c \in [on: {"cons", "tickslock"}, n: Int, copied: Nat, ticks0: Int],
         c.on = call[p].on, lock[c.on] = "none",
         c.on = "cons" => c.n >= 1,
         UNCHANGED <<buf, w, e, pos, ticks, kbd, timer>>,
         TypeOK => r' \in 0..UINT-1, RingMovesOn', LineInv',
         \A q \in Proc : pc[q] \in {"sleep", "handover", "asleep"} /\ call[q].on = "cons"
                            => r' = r \/ r' = w,
         \/ Return(p)
         \/ /\ MayWait(p, c)
            /\ c.on = "cons" => r' = w
            /\ c.on # "cons" => NotYet(c)
  PROVE  IInv'
  <1>0. Proc \cap {"none", "kbd", "timer"} = {}
    BY ConsoleAssumption
  <1>1. TypeOK /\ ReaderInv /\ LockInv /\ WaitInv
    BY DEF IInv
  <1>2. CursorOnScreen'
    BY DEF IInv, CursorOnScreen
  <1>3. \A d : NotYet(d)' <=> NotYet(d)
    BY DEF NotYet, Minus
  <1>4. CASE Return(p)
    <2>1. /\ pc' = [pc EXCEPT ![p] = "user"] /\ killed' = [killed EXCEPT ![p] = FALSE]
          /\ call' = [call EXCEPT ![p] = NoCall] /\ lock' = lock
      BY <1>4 DEF Return, Goto
    <2>2. TypeOK'
      <3>1. NoCall \in [on: {"cons", "tickslock"}, n: Int, copied: Nat, ticks0: Int]
        BY DEF NoCall
      <3> QED
        BY <1>1, <2>1, <3>1 DEF TypeOK, PC
    <2>3. ReaderInv'
      BY <1>1, <2>1 DEF ReaderInv, TypeOK
    <2>4. LockInv'
      BY <1>1, <2>1 DEF LockInv, TypeOK
    <2>5. WaitInv'
      BY <1>1, <1>3, <2>1 DEF WaitInv, TypeOK, MayStillWait, NotYet, Minus
    <2> QED
      BY <1>2, <2>2, <2>3, <2>4, <2>5 DEF IInv
  <1>5. CASE /\ ~killed[p] /\ MayWait(p, c)
             /\ c.on = "cons" => r' = w
             /\ c.on # "cons" => NotYet(c)
    <2>1. /\ pc' = [pc EXCEPT ![p] = "sleep"] /\ killed' = killed
          /\ call' = [call EXCEPT ![p] = c] /\ lock' = [lock EXCEPT ![c.on] = p]
      BY <1>5 DEF MayWait, Goto, Hold
    <2>2. TypeOK'
      BY <1>1, <2>1 DEF TypeOK, PC
    <2>3. ReaderInv'
      BY <1>1, <2>1 DEF ReaderInv, TypeOK
    <2>4. LockInv'
      <3>1. c.on \in {"cons", "tickslock"} /\ c.on # "ptable"
        OBVIOUS
      <3>2. \A q \in Proc : pc[q] = "sleep" => call[q].on # c.on
        BY <1>0, <1>1 DEF LockInv
      <3> QED
        BY <1>0, <1>1, <2>1, <3>1, <3>2 DEF LockInv, TypeOK, Lock
    <2>5. WaitInv'
      <3> SUFFICES ASSUME NEW q \in Proc, pc'[q] \in {"sleep", "handover", "asleep"}
                   PROVE  MayStillWait(q)'
        BY DEF WaitInv
      <3>1. CASE q = p
        BY <1>1, <1>3, <1>5, <2>1, <3>1 DEF MayStillWait, TypeOK
      <3>2. CASE q # p
        BY <1>1, <1>3, <2>1, <3>2 DEF WaitInv, MayStillWait, TypeOK
      <3> QED
        BY <3>1, <3>2
    <2> QED
      BY <1>2, <2>2, <2>3, <2>4, <2>5 DEF IInv
  <1> QED
    BY <1>4, <1>5 DEF MayWait

\* One turn of the loops of consoleread(), from one sleep() to the next.
LEMMA ReadLineIInv ==
  ASSUME IInv, NEW p \in Proc, ReadLine(p)
  PROVE  IInv'
  <1>0. TypeOK /\ RingMovesOn /\ LineInv /\ ReaderInv /\ LockInv /\ WaitInv
    BY DEF IInv
  <1>1. /\ UNCHANGED <<buf, w, e, pos, ticks, kbd, timer>>
        /\ pc[p] = "acquire" /\ call[p].on = "cons" /\ lock["cons"] = "none"
    BY <1>0, ReadFacts
  <1>2. call[p] \in [on: {"cons", "tickslock"}, n: Int, copied: Nat, ticks0: Int]
        /\ call[p].n >= 1
    BY <1>0, <1>1 DEF TypeOK, ReaderInv
  <1>3. Minus(w, r) \in Nat /\ Len(Finished) = Minus(w, r)
    <2>1. /\ Minus(w, r) \in Nat /\ r \in Nat /\ buf \in [0..INPUT_BUF-1 -> Char]
      BY <1>0, RingOrder, ConsoleAssumption DEF TypeOK, Char
    <2> QED
      BY <2>1, BytesType DEF Finished
  <1>4. CASE /\ Ends(p) # {} /\ FirstEnd(p) \in Ends(p)
             /\ End(p, Finished, FirstEnd(p)) \in 0..Len(Finished)
             /\ r' = (r + End(p, Finished, FirstEnd(p))) % UINT
             /\ Return(p)
    <2>1. r' \in 0..UINT-1 /\ RingMovesOn' /\ LineInv'
      BY <1>0, <1>1, <1>3, <1>4, TakeFacts
    <2>2. Len(Finished) # 0
      BY <1>3, <1>4 DEF Ends
    <2>3. r # w
      <3>1. Minus(r, r) = 0
        BY <1>0, MinusValue, ConsoleAssumption DEF TypeOK
      <3> QED
        BY <1>3, <2>2, <3>1
    <2>4. \A q \in Proc : pc[q] \in {"sleep", "handover", "asleep"} => call[q].on # "cons"
      BY <1>0, <1>1, <2>3 DEF WaitInv, MayStillWait, LockInv
    <2> QED
      BY <1>1, <1>2, <1>4, <2>1, <2>4, TurnIInv
  <1>5. CASE /\ Ends(p) = {} /\ r' = w /\ r' = (r + Len(Finished)) % UINT
             /\ call[p].n > Len(Finished)
             /\ MayWait(p, [call[p] EXCEPT !.n = @ - Len(Finished),
                                           !.copied = @ + Len(Finished)])
    <2>1. r' \in 0..UINT-1 /\ RingMovesOn' /\ LineInv'
      <3>1. Len(Finished) \in 0..Minus(w, r)
        BY <1>3
      <3> QED
        BY <1>0, <1>1, <1>5, <3>1, TakeFacts
    <2>2. PICK c \in [on: {"cons", "tickslock"}, n: Int, copied: Nat, ticks0: Int] :
            /\ c = [call[p] EXCEPT !.n = @ - Len(Finished), !.copied = @ + Len(Finished)]
            /\ c.on = "cons" /\ c.n >= 1
      <3>1. PICK m \in Nat, i \in Int, j \in Nat : /\ m = Len(Finished)
                                                  /\ i = call[p].n - m /\ i >= 1
                                                  /\ j = call[p].copied + m
        <4>1. call[p].n \in Int /\ call[p].copied \in Nat
          BY <1>2
        <4>2. Len(Finished) \in Nat /\ call[p].n > Len(Finished)
          BY <1>3, <1>5
        <4>3. /\ call[p].n - Len(Finished) \in Int /\ call[p].n - Len(Finished) >= 1
              /\ call[p].copied + Len(Finished) \in Nat
          BY <4>1, <4>2
        <4> QED
          BY <4>2, <4>3
      <3>2. PICK c : c = [call[p] EXCEPT !.n = @ - Len(Finished), !.copied = @ + Len(Finished)]
        OBVIOUS
      <3>3. /\ c \in [on: {"cons", "tickslock"}, n: Int, copied: Nat, ticks0: Int]
            /\ c.on = "cons" /\ c.n >= 1
        BY <1>1, <1>2, <3>1, <3>2
      <3> QED
        BY <3>2, <3>3
    <2>3. MayWait(p, c)
      BY <1>5, <2>2
    <2> QED
      BY <1>1, <1>5, <2>1, <2>2, <2>3, TurnIInv
  <1> QED
    BY <1>0, <1>4, <1>5, ReadFacts

\* One turn of the loop of sys_sleep().
LEMMA SleepLoopIInv ==
  ASSUME IInv, NEW p \in Proc, SleepLoop(p)
  PROVE  IInv'
  <1>1. /\ UNCHANGED <<buf, r, w, e, pos, ticks, kbd, timer>>
        /\ pc[p] = "acquire" /\ call[p].on = "tickslock" /\ lock["tickslock"] = "none"
    BY DEF SleepLoop, Free, input
  <1>2. PICK c \in [on: {"cons", "tickslock"}, n: Int, copied: Nat, ticks0: Int] :
          /\ c.on = "tickslock"
          /\ Return(p) \/ (NotYet(c) /\ MayWait(p, c))
    <2>1. call[p] \in [on: {"cons", "tickslock"}, n: Int, copied: Nat, ticks0: Int]
          /\ ticks \in Int
      BY ConsoleAssumption DEF IInv, TypeOK
    <2>2. PICK c : /\ c = IF call[p].ticks0 = -1 THEN [call[p] EXCEPT !.ticks0 = ticks] ELSE call[p]
                   /\ Return(p) \/ (NotYet(c) /\ MayWait(p, c))
      BY DEF SleepLoop
    <2>3. c \in [on: {"cons", "tickslock"}, n: Int, copied: Nat, ticks0: Int] /\ c.on = "tickslock"
      BY <1>1, <2>1, <2>2
    <2> QED
      BY <2>2, <2>3
  <1>3. RingMovesOn' /\ LineInv'
    BY <1>1, RingStays DEF input
  <1>4. TypeOK => r' \in 0..UINT-1
    BY <1>1 DEF TypeOK
  <1> QED
    BY <1>1, <1>2, <1>3, <1>4, TurnIInv

\* sleep() gives up the caller's lock and marks the process SLEEPING; kill() wakes it.
LEMMA SleepIInv ==
  ASSUME IInv, NEW p \in Proc, Sleep(p) \/ Sched(p) \/ Kill(p)
  PROVE  IInv'
  <1>0. Proc \cap {"none", "kbd", "timer"} = {}
    BY ConsoleAssumption
  <1>1. TypeOK /\ ReaderInv /\ LockInv /\ WaitInv /\ call[p].on \in {"cons", "tickslock"}
    BY DEF IInv, TypeOK
  <1>2. RingMovesOn' /\ LineInv' /\ CursorOnScreen'
    BY RingStays DEF Sleep, Sched, Kill
  <1>3. UNCHANGED <<buf, r, w, e, pos, ticks, call, kbd, timer>>
    BY DEF Sleep, Sched, Kill, input
  <1>4. \A q \in Proc : pc'[q] \in {"sleep", "handover", "asleep"} =>
                          pc[q] \in {"sleep", "handover", "asleep"}
    BY <1>1 DEF Sleep, Sched, Kill, Goto, TypeOK
  <1>5. WaitInv'
    BY <1>1, <1>3, <1>4 DEF WaitInv, MayStillWait, NotYet, Minus
  <1>6. ReaderInv'
    BY <1>1, <1>3 DEF ReaderInv, Sleep, Sched, Kill, Goto, TypeOK
  <1>7. TypeOK' /\ LockInv'
    <2>1. CASE Sleep(p)
      <3>1. /\ pc[p] = "sleep" /\ lock["ptable"] = "none" /\ killed' = killed
            /\ lock' = [lock EXCEPT !["ptable"] = p, ![call[p].on] = "none"]
            /\ pc' = [pc EXCEPT ![p] = "handover"]
        BY <2>1 DEF Sleep, Free, Goto
      <3>2. TypeOK'
        BY <1>1, <1>3, <3>1 DEF TypeOK, PC
      <3>3. LockInv'
        <4>1. \A q \in Proc : pc[q] = "sleep" /\ q # p => call[q].on # call[p].on
          BY <1>1, <3>1 DEF LockInv
        <4>2. \A q \in Proc : pc[q] # "handover"
          BY <1>0, <1>1, <3>1 DEF LockInv
        <4>3. lock[call[p].on] = p
          BY <1>1, <3>1 DEF LockInv
        <4> QED
          BY <1>0, <1>1, <1>3, <3>1, <4>1, <4>2, <4>3 DEF LockInv, TypeOK, Lock
      <3> QED
        BY <3>2, <3>3
    <2>2. CASE Sched(p)
      <3>1. /\ pc[p] = "handover" /\ killed' = killed
            /\ lock' = [lock EXCEPT !["ptable"] = "none"]
            /\ pc' = [pc EXCEPT ![p] = "asleep"]
        BY <2>2 DEF Sched, Drop, Goto
      <3>2. TypeOK'
        BY <1>1, <1>3, <3>1 DEF TypeOK, PC
      <3>3. \A q \in Proc : call[q].on # "ptable"
        BY <1>1 DEF TypeOK
      <3>4. LockInv'
        BY <1>0, <1>1, <1>3, <3>1, <3>3 DEF LockInv, TypeOK, Lock
      <3> QED
        BY <3>2, <3>4
    <2>3. CASE Kill(p)
      <3>1. /\ lock' = lock /\ killed' = [killed EXCEPT ![p] = TRUE]
            /\ pc' = [pc EXCEPT ![p] = IF pc[p] = "asleep" THEN "acquire" ELSE pc[p]]
        BY <2>3 DEF Kill
      <3>2. TypeOK'
        BY <1>1, <1>3, <3>1 DEF TypeOK, PC
      <3>3. LockInv'
        BY <1>1, <1>3, <3>1 DEF LockInv, TypeOK
      <3> QED
        BY <3>2, <3>3
    <2> QED
      BY <2>1, <2>2, <2>3
  <1> QED
    BY <1>2, <1>5, <1>6, <1>7 DEF IInv

\* Every step of the interrupts and the processes keeps the invariant.
LEMMA NextIInv == IInv /\ [Next]_vars => IInv'
  <1> SUFFICES ASSUME IInv, [Next]_vars PROVE IInv'
    OBVIOUS
  <1>1. ASSUME NEW c, Procdump(c) PROVE IInv'
    BY <1>1, PrintIInv DEF Procdump, Cprintf
  <1>2. ASSUME NEW p \in Proc, NEW c, ConsoleWrite(p, c) PROVE IInv'
    BY <1>2, PrintIInv DEF ConsoleWrite
  <1>3. CASE UNCHANGED vars
    <2>1. RingMovesOn' /\ LineInv' /\ CursorOnScreen'
      BY <1>3, RingStays DEF vars
    <2> QED
      BY <1>3, <2>1 DEF IInv, vars, input, TypeOK, ReaderInv, LockInv, WaitInv,
                        MayStillWait, NotYet, Minus
  <1> QED
    BY <1>1, <1>2, <1>3, GetcIInv, HandlerIInv, SyscallIInv, ReadLineIInv, SleepLoopIInv, SleepIInv
       DEF Next

(***************************************************************************)
(* The inductive invariant holds in every reachable state.                 *)
(***************************************************************************)
THEOREM ConsoleInvariant == Spec => []IInv
  BY InitIInv, NextIInv, PTL DEF Spec

(***************************************************************************)
(* The ring of consoleintr() never gets stuck: r, w and e keep their order *)
(* across the wraparound, and a full ring has been handed to the readers.  *)
(***************************************************************************)
THEOREM RingMovesOnThm == Spec => []RingMovesOn
  <1>1. IInv => RingMovesOn
    BY DEF IInv
  <1> QED
    BY <1>1, ConsoleInvariant, PTL

(***************************************************************************)
(* Whatever is echoed, erased and printed, the cursor of cgaputc() stays   *)
(* in the lines that scroll.                                               *)
(***************************************************************************)
THEOREM CursorOnScreenThm == Spec => []CursorOnScreen
  <1>1. IInv => CursorOnScreen
    BY DEF IInv
  <1> QED
    BY <1>1, ConsoleInvariant, PTL

(***************************************************************************)
(* The hand-over of locks in sleep() loses no wakeup of the keyboard and   *)
(* the timer: whoever sleeps has nothing to read or ticks to wait for, or  *)
(* a handler is about to wake it.                                          *)
(***************************************************************************)
THEOREM NoLostWakeupThm == Spec => []NoLostWakeup
  <1>1. IInv => NoLostWakeup
    BY DEF IInv, WaitInv, MayStillWait, NoLostWakeup
  <1> QED
    BY <1>1, ConsoleInvariant, PTL

-----------------------------------------------------------------------------
(***************************************************************************)
(* Editing, echo and reading change what is finished as a queue changes:   *)
(* consoleintr() appends, consoleread() takes from the front, and every    *)
(* other step leaves it alone.                                             *)
(***************************************************************************)
LEMMA StepIsFifo == IInv /\ [Next]_vars => [Abstract!Next]_Finished
  <1> SUFFICES ASSUME IInv, [Next]_vars PROVE [Abstract!Next]_Finished
    OBVIOUS
  <1>0. TypeOK /\ RingMovesOn /\ LineInv /\ CursorOnScreen /\ ReaderInv
    BY DEF IInv
  <1>a. Finished \in Seq(Char) /\ Len(Finished) = Minus(w, r) /\ Len(Finished) \in 0..INPUT_BUF
    <2>1. Minus(w, r) \in 0..INPUT_BUF /\ r \in Nat /\ buf \in [0..INPUT_BUF-1 -> Char]
      BY <1>0, RingOrder, ConsoleAssumption DEF TypeOK, Char
    <2> QED
      BY <2>1, BytesType, ConsoleAssumption DEF Finished
  <1>1. CASE UNCHANGED input
    <2>1. Finished' = Finished
      BY <1>1 DEF input, Finished, Bytes, Minus
    <2> QED
      BY <2>1
  <1>2. ASSUME NEW c \in Typed, Getc(c) PROVE [Abstract!Next]_Finished
    <2>1. CASE \E n \in {1, LineLength} : Erase(n)
      BY <1>0, <2>1, EraseFacts
    <2>2. CASE \E d \in Char : Store(d)
      <3>1. PICK d \in Char : Store(d)
        BY <2>2
      <3>2. PICK s \in Seq(Char) : Len(s) <= INPUT_BUF - Len(Finished) /\ Finished' = Finished \o s
        BY <1>0, <3>1, StoreFacts
      <3>3. CASE Len(s) = 0
        <4>1. s = <<>> /\ Finished \in Seq(Char)
          BY <1>a, <3>3, EmptySeq
        <4> QED
          BY <3>2, <4>1, ConcatEmptySeq
      <3>4. CASE Len(s) # 0
        <4>1. Len(s) \in 1..INPUT_BUF /\ Len(Finished) + Len(s) <= INPUT_BUF
          BY <1>a, <3>2, <3>4, ConsoleAssumption
        <4>2. s \in [1..Len(s) -> {"a", "nl", EOT}]
          BY LenProperties DEF Char
        <4>3. Abstract!Put(s)
          BY <3>2, <4>1 DEF Abstract!Put
        <4> QED
          BY <4>1, <4>2, <4>3 DEF Abstract!Next
      <3> QED
        BY <3>3, <3>4
    <2> QED
      BY <1>2, <2>1, <2>2 DEF Getc, Typed, Char
  <1>3. ASSUME NEW p \in Proc, ReadLine(p) PROVE [Abstract!Next]_Finished
    <2>1. PICK j \in 0..Len(Finished) : r' = (r + j) % UINT
      <3>1. Len(Finished) \in 0..Len(Finished)
        BY <1>a, ConsoleAssumption
      <3> QED
        BY <1>0, <1>3, <3>1, ReadFacts
    <2>2. Finished' = SubSeq(Finished, j + 1, Len(Finished))
      BY <1>0, <1>a, <1>3, <2>1, ReadFacts, TakeFacts
    <2>3. CASE j = 0
      <3>1. Finished' = Finished
        BY <1>a, <2>2, <2>3, SubSeqFull
      <3> QED
        BY <3>1
    <2>4. CASE j # 0
      <3>1. j \in 1..INPUT_BUF /\ j <= Len(Finished)
        BY <1>a, <2>1, <2>4, ConsoleAssumption
      <3>2. Abstract!Get(j)
        BY <2>2, <3>1 DEF Abstract!Get
      <3> QED
        BY <3>1, <3>2 DEF Abstract!Next
    <2> QED
      BY <2>3, <2>4
  <1>4. CASE UNCHANGED vars
    BY <1>1, <1>4 DEF vars
  <1> QED
    BY <1>1, <1>2, <1>3, <1>4 DEF Next, Procdump, IntrWakes, Tick, TickWakes, SysRead, SysSleep,
         ConsoleWrite, SleepLoop, Sleep, Sched, Kill

(***************************************************************************)
(* Finished input is a queue, however the line is edited, wherever the     *)
(* counters wrap and however many processes read (consoleintr,             *)
(* consoleread).                                                           *)
(***************************************************************************)
THEOREM FinishedIsFifoThm == Spec => FinishedIsFifo
  <1>1. Init => Abstract!Init
    <2> SUFFICES ASSUME Init PROVE Finished = <<>>
      BY DEF Abstract!Init
    <2>1. Minus(w, r) = 0
      BY MinusValue, ConsoleAssumption DEF Init
    <2> QED
      BY <2>1 DEF Finished, Bytes
  <1> QED
    BY <1>1, ConsoleInvariant, StepIsFifo, PTL DEF Spec, FinishedIsFifo, Abstract!Spec

(***************************************************************************)
(* What a read takes that ends, and what one takes that goes on waiting:   *)
(* ^D is in it exactly if the read returns nothing.                        *)
(***************************************************************************)
LEMMA EndFacts ==
  ASSUME IInv, NEW p \in Proc, ReadLine(p), ~killed[p]
  PROVE  LET taken == SubSeq(Finished, 1, Minus(r', r))
             ends == \E k \in DOMAIN taken : taken[k] = EOT
             got == call[p].copied + Cardinality({k \in DOMAIN taken : taken[k] # EOT})
         IN ends <=> pc'[p] = "user" /\ got = 0
  <1>0. TypeOK /\ RingMovesOn /\ LineInv /\ CursorOnScreen /\ ReaderInv
    BY DEF IInv
  <1>1. Finished \in Seq(Char) /\ Len(Finished) = Minus(w, r) /\ Len(Finished) \in Nat
    <2>1. Minus(w, r) \in Nat /\ r \in Nat /\ buf \in [0..INPUT_BUF-1 -> Char]
      BY <1>0, RingOrder, ConsoleAssumption DEF TypeOK, Char
    <2> QED
      BY <2>1, BytesType DEF Finished
  <1>2. call[p].n \in Nat \ {0} /\ call[p].copied \in Nat
    BY <1>0, ReadFacts
  <1> DEFINE taken == SubSeq(Finished, 1, Minus(r', r))
             text == {k \in DOMAIN taken : taken[k] # EOT}
  <1>3. ASSUME NEW j \in 0..Len(Finished), r' = (r + j) % UINT
        PROVE  DOMAIN taken = 1..j /\ \A k \in 1..j : taken[k] = Finished[k]
    <2>1. Minus(r', r) = j
      BY <1>0, <1>1, <1>3, ReadFacts, TakeFacts
    <2> QED
      BY <1>1, <2>1
  <1>4. CASE Ends(p) = {}
    <2>1. /\ r' = (r + Len(Finished)) % UINT /\ call[p].n > Len(Finished)
          /\ MayWait(p, [call[p] EXCEPT !.n = @ - Len(Finished),
                                        !.copied = @ + Len(Finished)])
      BY <1>0, <1>4, ReadFacts
    <2>2. pc'[p] = "sleep"
      BY <1>0, <2>1 DEF MayWait, Goto, TypeOK
    <2>3. \A k \in 1..Len(Finished) : Finished[k] # EOT
      BY <1>1, <1>2, <1>4, <2>1 DEF Ends
    <2>4. Len(Finished) \in 0..Len(Finished)
      BY <1>1
    <2>5. ~ \E k \in DOMAIN taken : taken[k] = EOT
      BY <1>3, <2>1, <2>3, <2>4
    <2> QED
      BY <2>2, <2>5
  <1>5. CASE Ends(p) # {}
    <2> DEFINE k == FirstEnd(p)
               j == End(p, Finished, k)
    <2>1. /\ k \in Ends(p) /\ (\A i \in Ends(p) : k <= i)
          /\ j \in 0..Len(Finished) /\ r' = (r + j) % UINT /\ Return(p)
      BY <1>0, <1>5, ReadFacts
    <2>2. pc'[p] = "user"
      BY <1>0, <2>1 DEF Return, Goto, TypeOK
    <2>3. k \in 1..Len(Finished) /\ k <= call[p].n
      BY <2>1 DEF Ends
    <2>4. \A i \in 1..k - 1 : Finished[i] # EOT
      BY <1>1, <1>2, <2>1, <2>3 DEF Ends
    <2>5. DOMAIN taken = 1..j /\ \A i \in 1..j : taken[i] = Finished[i]
      BY <1>3, <2>1
    <2>6. CASE Finished[k] = EOT /\ k = 1 /\ call[p].copied = 0
      <3>1. j = 1
        BY <2>6 DEF End
      <3> HIDE DEF j, k, taken
      <3>2. text = {} /\ 1 \in DOMAIN taken /\ taken[1] = EOT
        BY <2>5, <2>6, <3>1
      <3> HIDE DEF text
      <3>3. call[p].copied + Cardinality(text) = 0
        BY <2>6, <3>2, FS_EmptySet
      <3> QED
        BY <2>2, <3>2, <3>3 DEF text, taken
    <2>7. CASE ~(Finished[k] = EOT /\ k = 1 /\ call[p].copied = 0)
      <3>1. \A i \in 1..j : Finished[i] # EOT
        BY <1>1, <1>2, <2>3, <2>4, <2>7 DEF End
      <3>2. call[p].copied > 0 \/ j > 0
        BY <1>1, <1>2, <2>3, <2>7 DEF End
      <3> HIDE DEF j, k, taken
      <3>3. text = 1..j
        BY <2>5, <3>1
      <3> HIDE DEF text
      <3>4. Cardinality(1..j) = IF 1 > j THEN 0 ELSE j - 1 + 1
        BY <1>1, <2>1, FS_Interval
      <3>5. call[p].copied + Cardinality(text) # 0
        BY <1>1, <1>2, <2>1, <3>2, <3>3, <3>4
      <3> QED
        BY <2>5, <3>1, <3>5 DEF text, taken
    <2> QED
      BY <2>6, <2>7
  <1> QED
    BY <1>4, <1>5

(***************************************************************************)
(* Every ^D ends exactly one read with 0 bytes, and no other read returns  *)
(* nothing ("save ^D for next time" in consoleread).                       *)
(***************************************************************************)
THEOREM EndOfFileOnceThm == Spec => EndOfFileOnce
  <1>1. ASSUME IInv, [Next]_vars, NEW p \in Proc,
               pc[p] = "acquire", call[p].on = "cons", pc'[p] # "acquire"
        PROVE  ReadLine(p)
    <2>1. pc \in [Proc -> PC]
      BY <1>1 DEF IInv, TypeOK
    <2>2. CASE \E q \in Proc : q # p /\ \/ \E n \in Reads : SysRead(q, n)
                                        \/ \E n \in Sleeps : SysSleep(q, n)
                                        \/ \E c \in {"a", "nl"} : ConsoleWrite(q, c)
                                        \/ ReadLine(q) \/ SleepLoop(q) \/ Sleep(q)
                                        \/ Sched(q) \/ Kill(q)
      <3>1. \E q \in Proc : q # p /\ (pc' = pc \/ \E x : pc' = [pc EXCEPT ![q] = x])
        BY <2>2 DEF SysRead, SysSleep, ConsoleWrite, ReadLine, SleepLoop, Sleep, Sched, Kill,
                    Goto, MayWait, Return
      <3> QED
        BY <1>1, <2>1, <3>1
    <2>3. CASE IntrWakes \/ Tick \/ TickWakes \/ UNCHANGED vars
               \/ (\E c \in Typed : Getc(c)) \/ (\E c \in {"a", "nl"} : Procdump(c))
      BY <1>1, <2>1, <2>3 DEF IntrWakes, Tick, TickWakes, vars, Getc, Procdump, Wakeup
    <2>4. CASE \/ \E n \in Reads : SysRead(p, n)
               \/ \E n \in Sleeps : SysSleep(p, n)
               \/ \E c \in {"a", "nl"} : ConsoleWrite(p, c)
               \/ SleepLoop(p) \/ Sleep(p) \/ Sched(p) \/ Kill(p)
      BY <1>1, <2>1, <2>4 DEF SysRead, SysSleep, ConsoleWrite, SleepLoop, Sleep, Sched, Kill
    <2> QED
      BY <1>1, <2>2, <2>3, <2>4 DEF Next
  <1>2. IInv /\ [Next]_vars =>
          [\A p \in Proc :
             LET taken == SubSeq(Finished, 1, Minus(r', r))
                 ends == \E k \in DOMAIN taken : taken[k] = EOT
                 got == call[p].copied + Cardinality({k \in DOMAIN taken : taken[k] # EOT})
             IN pc[p] = "acquire" /\ call[p].on = "cons" /\ pc'[p] # "acquire" /\ ~killed[p] =>
                  (ends <=> pc'[p] = "user" /\ got = 0)]_vars
    BY <1>1, EndFacts
  <1> QED
    BY <1>2, ConsoleInvariant, PTL DEF Spec, EndOfFileOnce
=============================================================================
