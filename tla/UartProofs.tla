----------------------------- MODULE UartProofs -----------------------------
(***************************************************************************)
(* The UART driver keeps its bytes in order, never goes deaf, never stalls *)
(* its output and loses no wakeup, for any rings, budgets and threads.     *)
(***************************************************************************)
EXTENDS Uart, Integers, TLAPS

---------------------------------------------------------------------------
(* The inductive invariant.                                                *)

\* The numbers of s count up, behind a and up to b.
Within(a, s, b) ==
    /\ a <= b /\ Increasing(s)
    /\ \A i \in 1..Len(s) : a < s[i] /\ s[i] <= b

\* Input: read, then in the ring, then in the device, in the order received.
RxInv ==
    /\ received \in Nat /\ lastRead \in Nat /\ rx \in Seq(Nat) /\ fifo \in Seq(Nat)
    /\ Within(lastRead, rx, received) /\ Within(lastRead, fifo, received)
    /\ \A i \in 1..Len(rx), j \in 1..Len(fifo) : rx[i] < fifo[j]

\* Output: sent, then in the ring, in the order accepted; the ring has room.
TxInv ==
    /\ accepted \in Nat /\ lastSent \in Nat /\ tx \in Seq(Nat)
    /\ Within(lastSent, tx, accepted) /\ Len(tx) <= Capacity

\* The threads of one side: every sleeper is registered, and while there is
\* one, each of the n bytes or slots has a thread awake for it, or one that
\* was stopped with its wakeup unused.
AwakeIn(S, ts) == {t \in S : ts[t] \in {"in", "woken"}}
Side(S, ts, q, n, gone) ==
    /\ q \in Seq(S) /\ n \in Int
    /\ \A t \in S : ts[t] = "waiting" => \E i \in 1..Len(q) : q[i] = t
    /\ (\E t \in S : ts[t] = "waiting") =>
           n <= Cardinality(AwakeIn(S, ts)) + Cardinality(gone \cap S)

ThreadInv ==
    /\ tstate \in [Thread -> {"out", "in", "waiting", "woken", "dead"}]
    /\ \A t \in lost : t \in Thread /\ tstate[t] = "dead"
    /\ ~irq_enabled => \A t \in Thread : tstate[t] = "out"
    /\ Side(Reader, tstate, rx_wait, Len(rx), lost)
    /\ Side(Writer, tstate, tx_wait, Room, lost)

\* The stream: it runs with interrupts set up and its refill installed, and
\* when the TX bottom half decides on an empty ring it is over.
StreamInv ==
    /\ irq_enabled \in BOOLEAN /\ refill \in BOOLEAN
    /\ ier_rx \in BOOLEAN /\ ier_tx \in BOOLEAN
    /\ remaining \in Nat /\ timer_markers \in Nat
    /\ Streaming => irq_enabled /\ refill
    /\ InHandler(TX, "decide") /\ tx = <<>> => ~Streaming

ArmInv == StreamInv /\ RxArmed /\ TxArmed

---------------------------------------------------------------------------
(* Lists of numbers.                                                       *)

\* The head of a list and the rest behind it.
LEMMA WithinTail ==
    ASSUME NEW a \in Nat, NEW b \in Nat, NEW s \in Seq(Nat), s # <<>>, Within(a, s, b)
    PROVE  /\ Head(s) \in Nat /\ a < Head(s) /\ Head(s) <= b /\ Head(s) = s[1]
           /\ Tail(s) \in Seq(Nat) /\ Len(Tail(s)) = Len(s) - 1 /\ Len(s) \in Nat \ {0}
           /\ \A i \in 1..Len(Tail(s)) : i + 1 \in 1..Len(s) /\ Tail(s)[i] = s[i + 1]
           /\ Within(Head(s), Tail(s), b) /\ Within(a, Tail(s), b)
<1>1. /\ Head(s) = s[1] /\ Tail(s) \in Seq(Nat) /\ Len(Tail(s)) = Len(s) - 1
      /\ Len(s) \in Nat \ {0} /\ \A i \in 1..Len(s) : s[i] \in Nat
      /\ \A i \in 1..Len(Tail(s)) : i + 1 \in 1..Len(s) /\ Tail(s)[i] = s[i + 1]
  OBVIOUS
<1>2. /\ 1 \in 1..Len(s) /\ a <= b
      /\ \A i, j \in 1..Len(s) : i < j => s[i] < s[j]
      /\ \A i \in 1..Len(s) : a < s[i] /\ s[i] <= b
  BY <1>1 DEF Within, Increasing
<1>3. \A i, j \in 1..Len(Tail(s)) : i < j => Tail(s)[i] < Tail(s)[j]
  <2> TAKE i, j \in 1..Len(Tail(s))
  <2>1. i < j => i + 1 < j + 1
    BY <1>1
  <2> QED
    BY <1>1, <1>2, <2>1
<1>4. \A i \in 1..Len(Tail(s)) : s[1] < Tail(s)[i] /\ a < Tail(s)[i] /\ Tail(s)[i] <= b
  <2> TAKE i \in 1..Len(Tail(s))
  <2>1. 1 < i + 1
    BY <1>1
  <2> QED
    BY <1>1, <1>2, <2>1
<1>5. Increasing(Tail(s))
  BY <1>3 DEF Increasing
<1> QED
  BY <1>1, <1>2, <1>4, <1>5 DEF Within

\* x is larger than all numbers of s.
Below(s, x) == \A i \in 1..Len(s) : s[i] < x

\* The list with such a number at its end is still in order.
LEMMA WithinAppend ==
    ASSUME NEW a \in Nat, NEW b \in Nat, NEW c \in Nat, NEW s \in Seq(Nat), NEW x \in Nat,
           Within(a, s, b), a < x, x <= c, b <= c, Below(s, x)
    PROVE  /\ Append(s, x) \in Seq(Nat) /\ Len(Append(s, x)) = Len(s) + 1 /\ Len(s) \in Nat
           /\ \A i \in 1..Len(s) : Append(s, x)[i] = s[i]
           /\ Append(s, x)[Len(s) + 1] = x
           /\ Within(a, Append(s, x), c)
<1> DEFINE r == Append(s, x)
<1>1. /\ r \in Seq(Nat) /\ Len(r) = Len(s) + 1 /\ Len(s) \in Nat
      /\ \A i \in 1..Len(s) : r[i] = s[i] /\ s[i] \in Nat
      /\ r[Len(s) + 1] = x
  OBVIOUS
<1> HIDE DEF r
<1>2. \A i \in 1..Len(r) : i \in 1..Len(s) \/ i = Len(s) + 1
  BY <1>1
<1>3. Increasing(r)
  <2> SUFFICES ASSUME NEW i \in 1..Len(r), NEW j \in 1..Len(r), i < j PROVE r[i] < r[j]
    BY DEF Increasing
  <2>1. i \in 1..Len(s)
    BY <1>1
  <2>2. CASE j \in 1..Len(s)
    BY <1>1, <2>1, <2>2, Zenon DEF Within, Increasing
  <2>3. CASE j = Len(s) + 1
    BY <1>1, <2>1, <2>3, Zenon DEF Below
  <2> QED
    BY <1>2, <2>2, <2>3
<1>4. \A i \in 1..Len(r) : a < r[i] /\ r[i] <= c
  <2>1. \A i \in 1..Len(s) : a < s[i] /\ s[i] <= b
    BY DEF Within
  <2>2. \A i \in 1..Len(s) : a < s[i] /\ s[i] <= c
    <3> TAKE i \in 1..Len(s)
    <3>1. s[i] \in Nat /\ a < s[i] /\ s[i] <= b
      BY <1>1, <2>1, SMTT(30)
    <3> QED
      BY <3>1
  <2>3. \A i \in 1..Len(s) : a < r[i] /\ r[i] <= c
    BY <1>1, <2>2, Zenon
  <2> QED
    BY <1>1, <1>2, <2>3, Zenon
<1>5. a <= c
  OBVIOUS
<1> QED
  BY <1>1, <1>3, <1>4, <1>5 DEF Within, r

\* Where the elements of a concatenation come from.
LEMMA ConcatIndex ==
    ASSUME NEW S, NEW s \in Seq(S), NEW t \in Seq(S)
    PROVE  /\ s \o t \in Seq(S) /\ Len(s \o t) = Len(s) + Len(t)
           /\ Len(s) \in Nat /\ Len(t) \in Nat
           /\ \A i \in 1..Len(s \o t) :
                 \/ i \in 1..Len(s) /\ (s \o t)[i] = s[i]
                 \/ /\ i > Len(s) /\ i - Len(s) \in 1..Len(t)
                    /\ (s \o t)[i] = t[i - Len(s)]
<1> DEFINE u == s \o t
<1>1. /\ u \in Seq(S) /\ Len(u) = Len(s) + Len(t) /\ Len(s) \in Nat /\ Len(t) \in Nat
      /\ \A i \in 1..Len(s) : u[i] = s[i]
      /\ \A i \in 1..Len(u) : i - Len(s) \in 1..Len(t) => u[i] = t[i - Len(s)]
  OBVIOUS
<1> HIDE DEF u
<1>2. \A i \in 1..Len(u) : i \in 1..Len(s) \/ (i > Len(s) /\ i - Len(s) \in 1..Len(t))
  BY <1>1
<1>3. \A i \in 1..Len(u) : \/ i \in 1..Len(s) /\ u[i] = s[i]
                           \/ i > Len(s) /\ i - Len(s) \in 1..Len(t) /\ u[i] = t[i - Len(s)]
  BY <1>1, <1>2, Zenon
<1> QED
  BY <1>1, <1>3 DEF u

\* A run of new numbers at the end.
LEMMA WithinRun ==
    ASSUME NEW a \in Nat, NEW b \in Nat, NEW s \in Seq(Nat), NEW n \in Nat, Within(a, s, b)
    PROVE  LET r == s \o [i \in 1..n |-> b + i]
           IN  r \in Seq(Nat) /\ Len(r) = Len(s) + n /\ Within(a, r, b + n)
<1> DEFINE u == [i \in 1..n |-> b + i]
           r == s \o u
<1>1. u \in Seq(Nat) /\ Len(u) = n /\ \A i \in 1..n : u[i] = b + i
  OBVIOUS
<1>2. Len(s) \in Nat /\ \A i \in 1..Len(s) : s[i] \in Nat
  OBVIOUS
<1> HIDE DEF u
<1>3. /\ r \in Seq(Nat) /\ Len(r) = Len(s) + n
      /\ \A i \in 1..Len(r) : \/ i \in 1..Len(s) /\ r[i] = s[i]
                              \/ i > Len(s) /\ i - Len(s) \in 1..n /\ r[i] = u[i - Len(s)]
  BY <1>1, ConcatIndex, Zenon
<1> HIDE DEF r
<1>4. \A i \in 1..Len(r) : \/ i \in 1..Len(s) /\ r[i] = s[i]
                           \/ i > Len(s) /\ r[i] = b + (i - Len(s)) /\ i - Len(s) \in 1..n
  BY <1>1, <1>3
<1>5. \A i \in 1..Len(s) : a < s[i] /\ s[i] <= b
  BY DEF Within
<1>6. \A i \in 1..Len(r) : a < r[i] /\ r[i] <= b + n
  BY <1>2, <1>4, <1>5 DEF Within
<1>7. Increasing(r)
  <2> SUFFICES ASSUME NEW i \in 1..Len(r), NEW j \in 1..Len(r), i < j PROVE r[i] < r[j]
    BY DEF Increasing
  <2>1. CASE j \in 1..Len(s)
    <3>1. i \in 1..Len(s) /\ r[i] = s[i] /\ r[j] = s[j]
      BY <1>2, <1>4, <2>1
    <3> QED
      BY <2>1, <3>1 DEF Within, Increasing
  <2>2. CASE j > Len(s) /\ r[j] = b + (j - Len(s)) /\ j - Len(s) \in 1..n
    BY <1>2, <1>4, <1>5, <2>2, SMTT(30)
  <2> QED
    BY <1>4, <2>1, <2>2
<1> QED
  BY <1>3, <1>6, <1>7 DEF Within, r, u

\* A list behind its bound, and two lists one behind the other.
LEMMA IncreasingParts ==
    ASSUME NEW a \in Nat, NEW b \in Nat, NEW s \in Seq(Nat), NEW t \in Seq(Nat),
           Within(a, s, b), Within(a, t, b),
           \A i \in 1..Len(s), j \in 1..Len(t) : s[i] < t[j]
    PROVE  Increasing(<<a>> \o s) /\ Increasing(<<a>> \o s \o t)
<1> DEFINE u == <<a>> \o s
           r == u \o t
<1>1. /\ u \in Seq(Nat) /\ Len(u) = Len(s) + 1 /\ Len(s) \in Nat /\ Len(t) \in Nat
      /\ \A i \in 1..Len(u) : u[i] = IF i = 1 THEN a ELSE s[i - 1]
      /\ \A i \in 1..Len(s) : s[i] \in Nat
      /\ \A i \in 1..Len(t) : t[i] \in Nat
  OBVIOUS
<1> HIDE DEF u
<1>2. \A i \in 1..Len(u) : u[i] = a \/ (i - 1 \in 1..Len(s) /\ u[i] = s[i - 1])
  BY <1>1
<1>3. Increasing(u)
  <2> SUFFICES ASSUME NEW i \in 1..Len(u), NEW j \in 1..Len(u), i < j PROVE u[i] < u[j]
    BY DEF Increasing
  <2>1. j - 1 \in 1..Len(s) /\ u[j] = s[j - 1]
    BY <1>1
  <2>2. CASE i = 1
    BY <1>1, <2>1, <2>2, SMTT(30) DEF Within
  <2>3. CASE i # 1
    <3>1. i - 1 \in 1..Len(s) /\ u[i] = s[i - 1] /\ i - 1 < j - 1
      BY <1>1, <2>3
    <3> QED
      BY <2>1, <3>1, Zenon DEF Within, Increasing
  <2> QED
    BY <2>2, <2>3
<1>4. \A i \in 1..Len(u), j \in 1..Len(t) : u[i] < t[j]
  BY <1>2, Zenon DEF Within
<1>5. /\ Len(r) = Len(u) + Len(t)
      /\ \A i \in 1..Len(r) :
            \/ i \in 1..Len(u) /\ r[i] = u[i]
            \/ i > Len(u) /\ i - Len(u) \in 1..Len(t) /\ r[i] = t[i - Len(u)]
  BY <1>1, ConcatIndex, Zenon
<1> HIDE DEF r
<1>6. Increasing(r)
  <2> SUFFICES ASSUME NEW i \in 1..Len(r), NEW j \in 1..Len(r), i < j PROVE r[i] < r[j]
    BY DEF Increasing
  <2>1. CASE j \in 1..Len(u) /\ r[j] = u[j]
    <3>1. i \in 1..Len(u) /\ ~(i > Len(u))
      <4>1. Len(r) \in Nat /\ Len(u) \in Nat
        BY <1>1, <1>5
      <4> QED
        BY <2>1, <4>1
    <3>2. r[i] = u[i]
      BY <1>5, <3>1, Zenon
    <3> QED
      BY <1>3, <2>1, <3>1, <3>2, Zenon DEF Increasing
  <2>2. CASE j > Len(u) /\ j - Len(u) \in 1..Len(t) /\ r[j] = t[j - Len(u)]
    <3>1. CASE i \in 1..Len(u) /\ r[i] = u[i]
      BY <1>4, <2>2, <3>1
    <3>2. CASE i > Len(u) /\ i - Len(u) \in 1..Len(t) /\ r[i] = t[i - Len(u)]
      <4>1. i - Len(u) < j - Len(u)
        BY <1>1
      <4> QED
        BY <2>2, <3>2, <4>1, Zenon DEF Within, Increasing
    <3> QED
      BY <1>5, <3>1, <3>2
  <2> QED
    BY <1>5, <2>1, <2>2
<1> QED
  BY <1>3, <1>6 DEF r, u

---------------------------------------------------------------------------
(* demo_fill_tx.                                                           *)

\* k markers of length m fit into r free slots when k <= r \div m.
LEMMA MarkersFit ==
    ASSUME NEW r \in Nat, NEW m \in Nat \ {0}, NEW k \in Nat, k <= r \div m
    PROVE  k * m \in Nat /\ k * m <= r
<1>1. r = m * (r \div m) + (r % m) /\ r % m \in Nat /\ r \div m \in Nat
  OBVIOUS
<1>2. \E d \in Nat : r \div m = k + d
  <2>1. (r \div m) - k \in Nat /\ r \div m = k + ((r \div m) - k)
    BY <1>1
  <2> QED
    BY <2>1
<1>3. PICK d \in Nat : r \div m = k + d
  BY <1>2
<1>4. m * (k + d) = k * m + m * d /\ m * d \in Nat /\ k * m \in Nat
  OBVIOUS
<1> QED
  BY <1>1, <1>3, <1>4

\* There is room for a marker when there are m free slots, and k markers
\* have bytes.
LEMMA MarkerRoom ==
    ASSUME NEW r \in Nat, NEW m \in Nat \ {0}
    PROVE  /\ r \div m \in Nat /\ (m <= r => r \div m >= 1)
           /\ \A k \in Nat : k > 0 <=> k * m > 0
OBVIOUS

\* What demo_fill_tx does to the ring, the interrupt bit and the stream: it
\* pushes n bytes that fit, and an empty ring gets some if markers are left.
FillStep(n, left, timers) ==
    /\ n \in Nat /\ n <= Room /\ Push(n)
    /\ remaining' \in Nat /\ timer_markers' \in Nat
    /\ left = 0 /\ timers = 0 => remaining' = 0 /\ timer_markers' = 0
    /\ ier_tx' \in BOOLEAN /\ (ier_tx \/ n > 0 => ier_tx')
    /\ tx = <<>> /\ (left > 0 \/ timers > 0) => n > 0

\* demo_fill_tx is such a step.
LEMMA FillFacts ==
    ASSUME TxInv, ier_tx \in BOOLEAN, NEW left \in Nat, NEW timers \in Nat,
           demo_fill_tx(left, timers)
    PROVE  \E n \in Nat : FillStep(n, left, timers)
<1> DEFINE slots == Room \div MarkerLen
           t == Least(timers, slots)
           u == Least(Least(left, FillBudget), slots - t)
<1>1. /\ Push((t + u) * MarkerLen) /\ remaining' = left - u /\ timer_markers' = timers - t
      /\ ier_tx' = (ier_tx \/ t + u > 0)
  BY DEF demo_fill_tx
<1>2. /\ Capacity \in Nat \ {0} /\ MarkerLen \in Nat \ {0} /\ FillBudget \in Nat \ {0}
      /\ MarkerLen <= Capacity
  BY UartAssumption
<1>3. Room \in Nat /\ (tx = <<>> => Room = Capacity)
  BY <1>2 DEF TxInv, Room
<1>4. slots \in Nat /\ (tx = <<>> => slots >= 1)
  BY <1>2, <1>3, MarkerRoom
<1> HIDE DEF slots
<1>5. t \in Nat /\ t <= timers /\ t <= slots /\ (timers > 0 /\ slots >= 1 => t > 0)
  BY <1>4 DEF Least
<1>6. /\ u \in Nat /\ u <= left /\ t + u <= slots
      /\ timers = 0 /\ left > 0 /\ slots >= 1 => u > 0
  <2> HIDE DEF t
  <2>1. timers = 0 => t = 0
    BY <1>5
  <2> QED
    BY <1>2, <1>4, <1>5, <2>1 DEF Least
<1> HIDE DEF t, u
<1>7. t + u \in Nat
  BY <1>5, <1>6
<1>8. /\ (t + u) * MarkerLen \in Nat /\ (t + u) * MarkerLen <= Room
      /\ t + u > 0 <=> (t + u) * MarkerLen > 0
  BY <1>2, <1>3, <1>6, <1>7, MarkersFit, MarkerRoom, SMTT(30) DEF slots
<1>9. /\ remaining' \in Nat /\ timer_markers' \in Nat
      /\ left = 0 /\ timers = 0 => remaining' = 0 /\ timer_markers' = 0
  BY <1>1, <1>5, <1>6
<1>10. tx = <<>> /\ (left > 0 \/ timers > 0) => t + u > 0
  BY <1>4, <1>5, <1>6
<1>11. FillStep((t + u) * MarkerLen, left, timers)
  BY <1>1, <1>8, <1>9, <1>10, Zenon DEF FillStep
<1> QED
  BY <1>8, <1>11

---------------------------------------------------------------------------
(* Bytes in order.                                                         *)

\* What a step may do to the input: nothing; a byte arrives; uart_irq_init
\* empties ring and device; the ring is popped; the device is polled with
\* the ring empty; a byte moves to the ring or is dropped.
RxMove ==
    \/ UNCHANGED <<fifo, received, rx, lastRead>>
    \/ /\ received' = received + 1 /\ fifo' \in {fifo, Append(fifo, received + 1)}
       /\ UNCHANGED <<rx, lastRead>>
    \/ rx' = <<>> /\ fifo' = <<>> /\ UNCHANGED <<received, lastRead>>
    \/ rx # <<>> /\ rx' = Tail(rx) /\ lastRead' = Head(rx) /\ UNCHANGED <<fifo, received>>
    \/ /\ rx = <<>> /\ fifo # <<>> /\ lastRead' = Head(fifo) /\ fifo' = Tail(fifo)
       /\ UNCHANGED <<rx, received>>
    \/ /\ fifo # <<>> /\ fifo' = Tail(fifo) /\ rx' \in {rx, Append(rx, Head(fifo))}
       /\ UNCHANGED <<lastRead, received>>

\* What a step may do to the output: nothing; a byte goes to the device; n
\* bytes that fit are accepted; one is accepted and sent past the empty
\* ring; uart_irq_init empties the ring.
TxPush(n) ==
    /\ n \in Nat /\ n <= Room /\ accepted' = accepted + n
    /\ tx' = tx \o [i \in 1..n |-> accepted + i] /\ lastSent' = lastSent
TxMove ==
    \/ UNCHANGED <<tx, accepted, lastSent>>
    \/ tx # <<>> /\ tx' = Tail(tx) /\ lastSent' = Head(tx) /\ accepted' = accepted
    \/ \E n \in Nat : TxPush(n)
    \/ tx = <<>> /\ tx' = tx /\ accepted' = accepted + 1 /\ lastSent' = accepted + 1
    \/ tx' = <<>> /\ UNCHANGED <<accepted, lastSent>>

\* Input stays in order.
LEMMA RxKept ==
    ASSUME RxInv, RxMove
    PROVE  RxInv'
<1>1. /\ received \in Nat /\ lastRead \in Nat /\ rx \in Seq(Nat) /\ fifo \in Seq(Nat)
      /\ Within(lastRead, rx, received) /\ Within(lastRead, fifo, received)
      /\ \A i \in 1..Len(rx), j \in 1..Len(fifo) : rx[i] < fifo[j]
      /\ lastRead <= received
  BY DEF RxInv, Within
<1>2. CASE UNCHANGED <<fifo, received, rx, lastRead>>
  BY <1>2 DEF RxInv, Within, Increasing
<1>3. ASSUME received' = received + 1, fifo' \in {fifo, Append(fifo, received + 1)},
             UNCHANGED <<rx, lastRead>>
      PROVE  RxInv'
  <2>1. \A i \in 1..Len(fifo) : fifo[i] < received + 1
    BY <1>1 DEF Within
  <2>2. \A i \in 1..Len(rx) : rx[i] < received + 1
    BY <1>1 DEF Within
  <2>3. Within(lastRead, rx, received + 1) /\ Within(lastRead, fifo, received + 1)
    BY <1>1 DEF Within
  <2>4. CASE fifo' = fifo
    BY <1>1, <1>3, <2>3, <2>4 DEF RxInv
  <2>5. CASE fifo' = Append(fifo, received + 1)
    <3>1. /\ fifo' \in Seq(Nat) /\ Within(lastRead, fifo', received + 1)
          /\ Len(fifo') = Len(fifo) + 1 /\ Len(fifo) \in Nat
          /\ \A i \in 1..Len(fifo) : fifo'[i] = fifo[i]
          /\ fifo'[Len(fifo) + 1] = received + 1
      <4>1. /\ Below(fifo, received + 1) /\ lastRead < received + 1 /\ received + 1 \in Nat
            /\ received <= received + 1 /\ received + 1 <= received + 1
        BY <1>1, <2>1 DEF Below
      <4> QED
        BY <1>1, <2>5, <4>1, WithinAppend
    <3>2. \A i \in 1..Len(rx), j \in 1..Len(fifo') : rx[i] < fifo'[j]
      <4> TAKE i \in 1..Len(rx), j \in 1..Len(fifo')
      <4>1. CASE j \in 1..Len(fifo)
        BY <1>1, <3>1, <4>1, Zenon
      <4>2. CASE j = Len(fifo) + 1
        BY <2>2, <3>1, <4>2
      <4> QED
        BY <3>1, <4>1, <4>2
    <3> QED
      BY <1>1, <1>3, <2>3, <3>1, <3>2 DEF RxInv
  <2> QED
    BY <1>3, <2>4, <2>5
<1>4. ASSUME rx' = <<>>, fifo' = <<>>, UNCHANGED <<received, lastRead>>
      PROVE  RxInv'
  BY <1>1, <1>4 DEF RxInv, Within, Increasing
<1>5. ASSUME rx # <<>>, rx' = Tail(rx), lastRead' = Head(rx), UNCHANGED <<fifo, received>>
      PROVE  RxInv'
  <2>1. /\ Head(rx) \in Nat /\ Head(rx) = rx[1] /\ 1 \in 1..Len(rx)
        /\ Tail(rx) \in Seq(Nat) /\ Within(Head(rx), Tail(rx), received)
        /\ \A i \in 1..Len(Tail(rx)) : i + 1 \in 1..Len(rx) /\ Tail(rx)[i] = rx[i + 1]
        /\ Head(rx) <= received
    BY <1>1, <1>5, WithinTail
  <2>2. \A j \in 1..Len(fifo) : Head(rx) < fifo[j]
    BY <1>1, <2>1
  <2>3. Within(Head(rx), fifo, received)
    BY <1>1, <2>1, <2>2 DEF Within
  <2>4. \A i \in 1..Len(Tail(rx)), j \in 1..Len(fifo) : Tail(rx)[i] < fifo[j]
    BY <1>1, <2>1
  <2> QED
    BY <1>1, <1>5, <2>1, <2>3, <2>4 DEF RxInv
<1>6. ASSUME rx = <<>>, fifo # <<>>, lastRead' = Head(fifo), fifo' = Tail(fifo),
             UNCHANGED <<rx, received>>
      PROVE  RxInv'
  <2>1. /\ Head(fifo) \in Nat /\ Head(fifo) <= received
        /\ Tail(fifo) \in Seq(Nat) /\ Within(Head(fifo), Tail(fifo), received)
    BY <1>1, <1>6, WithinTail
  <2>2. Within(Head(fifo), rx, received)
    BY <1>1, <1>6, <2>1 DEF Within, Increasing
  <2> QED
    BY <1>1, <1>6, <2>1, <2>2 DEF RxInv
<1>7. ASSUME fifo # <<>>, fifo' = Tail(fifo), rx' \in {rx, Append(rx, Head(fifo))},
             UNCHANGED <<lastRead, received>>
      PROVE  RxInv'
  <2>1. /\ Head(fifo) \in Nat /\ lastRead < Head(fifo) /\ Head(fifo) <= received
        /\ Head(fifo) = fifo[1] /\ 1 \in 1..Len(fifo)
        /\ Tail(fifo) \in Seq(Nat) /\ Within(lastRead, Tail(fifo), received)
        /\ \A i \in 1..Len(Tail(fifo)) : i + 1 \in 1..Len(fifo) /\ Tail(fifo)[i] = fifo[i + 1]
        /\ Within(Head(fifo), Tail(fifo), received)
    BY <1>1, <1>7, WithinTail
  <2>2. \A i \in 1..Len(rx) : rx[i] < Head(fifo)
    BY <1>1, <2>1
  <2>3. \A i \in 1..Len(rx), j \in 1..Len(Tail(fifo)) : rx[i] < Tail(fifo)[j]
    BY <1>1, <2>1
  <2>4. CASE rx' = rx
    BY <1>1, <1>7, <2>1, <2>3, <2>4 DEF RxInv
  <2>5. CASE rx' = Append(rx, Head(fifo))
    <3>1. /\ rx' \in Seq(Nat) /\ Within(lastRead, rx', received)
          /\ Len(rx') = Len(rx) + 1 /\ Len(rx) \in Nat
          /\ \A i \in 1..Len(rx) : rx'[i] = rx[i]
          /\ rx'[Len(rx) + 1] = Head(fifo)
      <4>1. Below(rx, Head(fifo)) /\ received <= received
        BY <1>1, <2>2 DEF Below
      <4> QED
        BY <1>1, <2>1, <2>5, <4>1, WithinAppend
    <3>2. \A i \in 1..Len(rx'), j \in 1..Len(Tail(fifo)) : rx'[i] < Tail(fifo)[j]
      <4> TAKE i \in 1..Len(rx'), j \in 1..Len(Tail(fifo))
      <4>1. CASE i \in 1..Len(rx)
        BY <2>3, <3>1, <4>1
      <4>2. CASE i = Len(rx) + 1
        BY <2>1, <3>1, <4>2 DEF Within
      <4> QED
        BY <3>1, <4>1, <4>2
    <3> QED
      BY <1>1, <1>7, <2>1, <3>1, <3>2 DEF RxInv
  <2> QED
    BY <1>7, <2>4, <2>5
<1> QED
  BY <1>2, <1>3, <1>4, <1>5, <1>6, <1>7 DEF RxMove

\* Output stays in order and within the ring.
LEMMA TxKept ==
    ASSUME TxInv, TxMove
    PROVE  TxInv'
<1>1. /\ accepted \in Nat /\ lastSent \in Nat /\ tx \in Seq(Nat) /\ Len(tx) \in Nat
      /\ Within(lastSent, tx, accepted) /\ Len(tx) <= Capacity /\ lastSent <= accepted
      /\ Capacity \in Nat
  BY UartAssumption DEF TxInv, Within
<1>2. CASE UNCHANGED <<tx, accepted, lastSent>>
  BY <1>2 DEF TxInv, Within, Increasing
<1>3. ASSUME tx # <<>>, tx' = Tail(tx), lastSent' = Head(tx), accepted' = accepted
      PROVE  TxInv'
  <2>1. /\ Head(tx) \in Nat /\ Tail(tx) \in Seq(Nat) /\ Len(Tail(tx)) = Len(tx) - 1
        /\ Within(Head(tx), Tail(tx), accepted)
    BY <1>1, <1>3, WithinTail
  <2>2. Len(Tail(tx)) <= Capacity
    BY <1>1, <2>1
  <2> QED
    BY <1>1, <1>3, <2>1, <2>2 DEF TxInv
<1>4. ASSUME NEW n \in Nat, TxPush(n) PROVE TxInv'
  <2> DEFINE r == tx \o [i \in 1..n |-> accepted + i]
  <2>1. r \in Seq(Nat) /\ Len(r) = Len(tx) + n /\ Within(lastSent, r, accepted + n)
    BY <1>1, WithinRun
  <2>2. n <= Room /\ accepted' = accepted + n /\ tx' = r /\ lastSent' = lastSent
    BY <1>4 DEF TxPush
  <2> HIDE DEF r
  <2>3. Len(r) <= Capacity /\ accepted + n \in Nat
    BY <1>1, <2>1, <2>2 DEF Room
  <2> QED
    BY <1>1, <2>1, <2>2, <2>3 DEF TxInv
<1>5. ASSUME tx = <<>>, tx' = tx, accepted' = accepted + 1, lastSent' = accepted + 1
      PROVE  TxInv'
  BY <1>1, <1>5 DEF TxInv, Within, Increasing
<1>6. ASSUME tx' = <<>>, UNCHANGED <<accepted, lastSent>> PROVE TxInv'
  BY <1>1, <1>6 DEF TxInv, Within, Increasing
<1> QED
  BY <1>2, <1>3, <1>4, <1>5, <1>6 DEF TxMove

\* Every step moves the input in one of these ways.
LEMMA RxMoves ==
    ASSUME [Next]_vars
    PROVE  RxMove
<1>1. ASSUME UNCHANGED <<dev, rxVars>> PROVE RxMove
  BY <1>1 DEF dev, rxVars, RxMove
<1>2. ASSUME UNCHANGED dev, UNCHANGED <<rx, lastRead>> PROVE RxMove
  BY <1>2 DEF dev, RxMove
<1>3. CASE ByteArrives
  <2>1. received' = received + 1 /\ UNCHANGED <<rx, lastRead>>
    BY <1>3 DEF ByteArrives, rxVars
  <2>2. fifo' \in {fifo, Append(fifo, received + 1)}
    BY <1>3 DEF ByteArrives
  <2> QED
    BY <2>1, <2>2 DEF RxMove
<1>4. CASE ByteSent \/ SendSpin \/ SendPolled \/ uart_tx_wait_idle
  BY <1>1, <1>4, Zenon DEF ByteSent, SendSpin, SendPolled, uart_tx_wait_idle
<1>5. CASE uart_irq_init
  BY <1>5 DEF uart_irq_init, RxMove
<1>6. ASSUME NEW t \in Thread, Call(t) \/ Resume(t) \/ Stop(t) PROVE RxMove
  BY <1>1, <1>6, Zenon DEF Call, Resume, Stop
<1>7. ASSUME NEW t, uart_recv(t) PROVE RxMove
  <2>1. UNCHANGED <<fifo, received>>
    BY <1>7 DEF uart_recv, dev
  <2> QED
    BY <1>7, <2>1 DEF uart_recv, RxMove
<1>8. ASSUME NEW t, uart_send(t) PROVE RxMove
  BY <1>1, <1>8, Zenon DEF uart_send
<1>9. CASE RecvSpin
  BY <1>9 DEF RecvSpin, RxMove, dev
<1>10. CASE RecvPolled
  BY <1>10 DEF RecvPolled, RxMove
<1>11. ASSUME NEW n, demo_uart_stress_start(n) PROVE RxMove
  BY <1>1, <1>11, Zenon DEF demo_uart_stress_start
<1>12. CASE demo_uart_stress_note_timer
  BY <1>1, <1>12, Zenon DEF demo_uart_stress_note_timer
<1>13. CASE uart_irq_top \/ RxUnmask
  BY <1>2, <1>13 DEF uart_irq_top, RxUnmask
<1>14. ASSUME NEW b, OtherIrq(b) \/ OtherHandlerReturns(b) \/ StartHandler(b) PROVE RxMove
  BY <1>1, <1>14, Zenon DEF OtherIrq, OtherHandlerReturns, StartHandler
<1>15. CASE NextRound \/ RxCheck \/ TxRefill \/ TxDrain \/ TxDecide
  BY <1>1, <1>15, Zenon DEF NextRound, RxCheck, TxRefill, TxDrain, TxDecide
<1>16. CASE RxDrain
  BY <1>16 DEF RxDrain, RxMove
<1>17. CASE UNCHANGED vars
  BY <1>1, <1>17 DEF vars
<1> QED
  BY <1>3, <1>4, <1>5, <1>6, <1>7, <1>8, <1>9, <1>10, <1>11, <1>12, <1>13, <1>14,
     <1>15, <1>16, <1>17, Zenon DEF Next

\* One byte pushed, and n of them.
LEMMA PushMoves ==
    ASSUME NEW n \in Nat, n <= Room, Push(n)
    PROVE  TxPush(n) /\ TxMove
<1>1. TxPush(n)
  BY DEF Push, TxPush
<1> QED
  BY <1>1, Zenon DEF TxMove

\* Every step moves the output in one of these ways.
LEMMA TxMoves ==
    ASSUME TxInv, StreamInv, [Next]_vars
    PROVE  TxMove
<1>1. ASSUME UNCHANGED txVars PROVE TxMove
  BY <1>1 DEF txVars, TxMove
<1>2. ASSUME UNCHANGED <<tx, accepted, lastSent>> PROVE TxMove
  BY <1>2 DEF TxMove
<1>3. ASSUME DrainOne PROVE TxMove
  BY <1>3 DEF DrainOne, CanDrain, TxMove
<1>4. /\ Room \in Int /\ remaining \in Nat /\ timer_markers \in Nat /\ ier_tx \in BOOLEAN
      /\ timer_markers + 1 \in Nat
  BY UartAssumption DEF TxInv, Room, StreamInv
<1>5. ASSUME Room > 0, Push(1) PROVE TxMove
  BY <1>4, <1>5, PushMoves
<1>6. ASSUME NEW left \in Nat, NEW timers \in Nat, demo_fill_tx(left, timers) PROVE TxMove
  <2>1. PICK n \in Nat : FillStep(n, left, timers)
    BY <1>4, <1>6, FillFacts
  <2> QED
    BY <2>1, PushMoves DEF FillStep
<1>7. CASE ByteArrives \/ ByteSent
  BY <1>1, <1>2, <1>7 DEF ByteArrives, ByteSent
<1>8. CASE uart_irq_init
  BY <1>8 DEF uart_irq_init, TxMove
<1>9. ASSUME NEW t, Call(t) \/ Resume(t) \/ Stop(t) \/ uart_recv(t) PROVE TxMove
  BY <1>1, <1>9, Zenon DEF Call, Resume, Stop, uart_recv
<1>10. ASSUME NEW t, uart_send(t) PROVE TxMove
  BY <1>2, <1>5, <1>10 DEF uart_send
<1>11. CASE RecvSpin \/ RecvPolled
  BY <1>1, <1>11, Zenon DEF RecvSpin, RecvPolled
<1>12. CASE SendSpin
  BY <1>2, <1>3, <1>5, <1>12 DEF SendSpin
<1>13. CASE SendPolled \/ uart_tx_wait_idle
  BY <1>3, <1>13 DEF SendPolled, uart_tx_wait_idle, TxMove
<1>14. ASSUME NEW n \in 1..MaxMarkers, demo_uart_stress_start(n) PROVE TxMove
  <2>1. n \in Nat /\ 0 \in Nat /\ demo_fill_tx(n, 0)
    BY <1>14, UartAssumption DEF demo_uart_stress_start
  <2> QED
    BY <1>6, <2>1
<1>15. CASE demo_uart_stress_note_timer
  <2>1. demo_fill_tx(remaining, timer_markers + 1)
    BY <1>15 DEF demo_uart_stress_note_timer
  <2> QED
    BY <1>4, <1>6, <2>1
<1>16. CASE uart_irq_top \/ TxDecide
  BY <1>2, <1>16 DEF uart_irq_top, TxDecide
<1>17. ASSUME NEW b, OtherIrq(b) \/ OtherHandlerReturns(b) \/ StartHandler(b) PROVE TxMove
  BY <1>1, <1>17, Zenon DEF OtherIrq, OtherHandlerReturns, StartHandler
<1>18. CASE NextRound \/ RxDrain \/ RxCheck \/ RxUnmask
  BY <1>1, <1>18, Zenon DEF NextRound, RxDrain, RxCheck, RxUnmask
<1>19. CASE TxRefill
  <2>1. demo_fill_tx(remaining, timer_markers) \/ UNCHANGED txVars
    BY <1>19, Zenon DEF TxRefill
  <2> QED
    BY <1>1, <1>4, <1>6, <2>1
<1>20. CASE TxDrain
  BY <1>1, <1>3, <1>20, Zenon DEF TxDrain
<1>21. CASE UNCHANGED vars
  BY <1>1, <1>21, Zenon DEF vars
<1> QED
  BY <1>7, <1>8, <1>9, <1>10, <1>11, <1>12, <1>13, <1>14, <1>15, <1>16, <1>17, <1>18,
     <1>19, <1>20, <1>21, Zenon DEF Next

---------------------------------------------------------------------------
(* Wait queues.                                                            *)

\* What the counting of threads needs of numbers and of the subsets of S;
\* both follow from the finiteness of S, see ThreadsCounted.
HasLeast == \A T \in SUBSET Nat : T # {} => \E x \in T : \A y \in T : ~(y < x)
Counted(S) ==
    /\ \A A \in SUBSET S : Cardinality(A) \in Nat
    /\ \A A \in SUBSET S : \A x \in S \ A : Cardinality(A \cup {x}) = Cardinality(A) + 1

\* Unlinking t leaves the others on the queue.
LEMMA Unlinked ==
    ASSUME HasLeast, NEW S, NEW q \in Seq(S), NEW t
    PROVE  /\ Without(q, t) \in Seq(S)
           /\ \A u : u # t /\ (\E i \in 1..Len(q) : q[i] = u) =>
                 \E i \in 1..Len(Without(q, t)) : Without(q, t)[i] = u
<1>1. Len(q) \in Nat /\ \A i \in 1..Len(q) : q[i] \in S
  OBVIOUS
<1>2. CASE ~ \E i \in 1..Len(q) : q[i] = t
  BY <1>2 DEF Without
<1>3. CASE \E i \in 1..Len(q) : q[i] = t
  <2> DEFINE k == CHOOSE i \in 1..Len(q) : IsFirst(q, i, t)
             r == [j \in 1..(Len(q) - 1) |-> IF j < k THEN q[j] ELSE q[j + 1]]
             T == {i \in 1..Len(q) : q[i] = t}
  <2>1. k \in 1..Len(q) /\ q[k] = t
    <3>1. T \in SUBSET Nat /\ T # {}
      BY <1>1, <1>3
    <3>2. PICK i \in T : \A j \in T : ~(j < i)
      BY <3>1, Zenon DEF HasLeast
    <3>3. i \in 1..Len(q) /\ q[i] = t /\ \A j \in 1..(i - 1) : j \in 1..Len(q) /\ j < i
      BY <1>1, <3>2
    <3>4. i \in 1..Len(q) /\ IsFirst(q, i, t)
      BY <3>2, <3>3, Zenon DEF IsFirst
    <3>5. k \in 1..Len(q) /\ IsFirst(q, k, t)
      BY <3>4, Zenon
    <3> QED
      BY <3>5 DEF IsFirst
  <2>2. Without(q, t) = r
    BY <1>3, Zenon DEF Without
  <2> HIDE DEF k
  <2>3. Len(q) - 1 \in Nat /\ \A j \in 1..(Len(q) - 1) :
          (IF j < k THEN q[j] ELSE q[j + 1]) \in S
    BY <1>1, <2>1
  <2>4. r \in Seq(S) /\ Len(r) = Len(q) - 1
    BY <2>3
  <2>5. \A j \in 1..(Len(q) - 1) : r[j] = IF j < k THEN q[j] ELSE q[j + 1]
    OBVIOUS
  <2> HIDE DEF r
  <2>6. ASSUME NEW u, NEW i \in 1..Len(q), q[i] = u, u # t
        PROVE  \E j \in 1..Len(r) : r[j] = u
    <3>1. i # k
      BY <2>1, <2>6
    <3>2. CASE i < k
      <4>1. i \in 1..(Len(q) - 1)
        BY <1>1, <2>1, <3>2
      <4> QED
        BY <2>4, <2>5, <2>6, <3>2, <4>1
    <3>3. CASE i > k
      <4>1. i - 1 \in 1..(Len(q) - 1) /\ ~(i - 1 < k) /\ (i - 1) + 1 = i
        BY <1>1, <2>1, <3>3
      <4> QED
        BY <2>4, <2>5, <2>6, <4>1
    <3> QED
      BY <1>1, <2>1, <3>1, <3>2, <3>3
  <2> QED
    BY <2>2, <2>4, <2>6, Zenon
<1> QED
  BY <1>2, <1>3

\* Every sleeper is registered; who sleeps afterwards slept before.
Registered(S, ts, q) ==
    \A u \in S : ts[u] = "waiting" => \E i \in 1..Len(q) : q[i] = u
SleepOn(S, ts, ts2, t) ==
    \A u \in S : ts2[u] = "waiting" => u # t /\ ts[u] = "waiting"

\* Unlinking t keeps the other sleepers registered.
LEMMA StillRegistered ==
    ASSUME HasLeast, NEW S, NEW q \in Seq(S), NEW t, NEW ts, NEW ts2,
           Registered(S, ts, q), SleepOn(S, ts, ts2, t)
    PROVE  Without(q, t) \in Seq(S) /\ Registered(S, ts2, Without(q, t))
<1>1. /\ Without(q, t) \in Seq(S)
      /\ \A u : u # t /\ (\E i \in 1..Len(q) : q[i] = u) =>
            \E i \in 1..Len(Without(q, t)) : Without(q, t)[i] = u
  BY Unlinked
<1> QED
  BY <1>1, Zenon DEF Registered, SleepOn

\* Counting the threads awake.
LEMMA AwakeCount ==
    ASSUME NEW S, Counted(S), NEW ts, NEW gone
    PROVE  /\ AwakeIn(S, ts) \in SUBSET S /\ Cardinality(AwakeIn(S, ts)) \in Nat
           /\ gone \cap S \in SUBSET S /\ Cardinality(gone \cap S) \in Nat
<1>1. AwakeIn(S, ts) \in SUBSET S /\ gone \cap S \in SUBSET S
  BY DEF AwakeIn
<1> QED
  BY <1>1, Zenon DEF Counted

\* A thread more.
LEMMA OneMore ==
    ASSUME NEW S, Counted(S), NEW A \in SUBSET S, NEW x \in S, x \notin A
    PROVE  Cardinality(A \cup {x}) = Cardinality(A) + 1
BY Zenon DEF Counted

\* A thread less.
LEMMA OneLess ==
    ASSUME NEW S, Counted(S), NEW A \in SUBSET S, NEW x \in A
    PROVE  Cardinality(A \ {x}) = Cardinality(A) - 1
<1>1. A \ {x} \in SUBSET S /\ x \in S /\ x \notin A \ {x} /\ (A \ {x}) \cup {x} = A
  OBVIOUS
<1>2. Cardinality(A) = Cardinality(A \ {x}) + 1 /\ Cardinality(A \ {x}) \in Nat
  BY <1>1, Zenon DEF Counted
<1> QED
  BY <1>2

\* One side whose threads do nothing, and whose ring has no more to offer.
LEMMA SideSame ==
    ASSUME NEW S, NEW ts, NEW ts2, NEW q, NEW n, NEW m \in Int, NEW gone,
           Side(S, ts, q, n, gone), m <= n, Counted(S), \A t \in S : ts2[t] = ts[t]
    PROVE  Side(S, ts2, q, m, gone)
<1>1. AwakeIn(S, ts2) = AwakeIn(S, ts)
  BY DEF AwakeIn
<1>2. Cardinality(AwakeIn(S, ts)) \in Nat /\ Cardinality(gone \cap S) \in Nat
  BY AwakeCount, Zenon
<1> DEFINE c == Cardinality(AwakeIn(S, ts)) + Cardinality(gone \cap S)
<1>3. c \in Nat
  BY <1>2
<1>4. n \in Int /\ ((\E t \in S : ts[t] = "waiting") => n <= c)
  BY DEF Side
<1> HIDE DEF c
<1>5. n <= c => m <= c
  BY <1>3, <1>4
<1> QED
  BY <1>1, <1>4, <1>5, Zenon DEF Side, c

\* A thread calls uart_recv or uart_send.
LEMMA SideEnter ==
    ASSUME NEW S, NEW ts, NEW ts2, NEW q, NEW n, NEW gone, NEW t \in S,
           Side(S, ts, q, n, gone), Counted(S),
           ts[t] = "out", ts2[t] = "in", \A u \in S : u # t => ts2[u] = ts[u]
    PROVE  Side(S, ts2, q, n, gone)
<1>1. AwakeIn(S, ts2) = AwakeIn(S, ts) \cup {t} /\ t \notin AwakeIn(S, ts)
  BY DEF AwakeIn
<1>2. Cardinality(AwakeIn(S, ts)) \in Nat /\ Cardinality(gone \cap S) \in Nat
      /\ AwakeIn(S, ts) \in SUBSET S
  BY AwakeCount, Zenon
<1>3. Cardinality(AwakeIn(S, ts2)) = Cardinality(AwakeIn(S, ts)) + 1
  BY <1>1, <1>2, OneMore, Zenon
<1>4. \A u \in S : ts2[u] = "waiting" => ts[u] = "waiting"
  OBVIOUS
<1>5. q \in Seq(S) /\ n \in Int /\ \A u \in S : ts2[u] = "waiting" => \E i \in 1..Len(q) : q[i] = u
  BY <1>4 DEF Side
<1>6. (\E u \in S : ts2[u] = "waiting") =>
         n <= Cardinality(AwakeIn(S, ts)) + Cardinality(gone \cap S)
  BY <1>4 DEF Side
<1> QED
  BY <1>2, <1>3, <1>5, <1>6 DEF Side

\* It finds a byte or a slot and returns.
LEMMA SideLeave ==
    ASSUME NEW S, NEW ts, NEW ts2, NEW q, NEW n, NEW m \in Int, NEW gone, NEW t \in S,
           Side(S, ts, q, n, gone), m <= n - 1, Counted(S),
           ts[t] = "in", ts2[t] = "out", \A u \in S : u # t => ts2[u] = ts[u]
    PROVE  Side(S, ts2, q, m, gone)
<1>1. AwakeIn(S, ts2) = AwakeIn(S, ts) \ {t} /\ t \in AwakeIn(S, ts)
  BY DEF AwakeIn
<1>2. Cardinality(AwakeIn(S, ts)) \in Nat /\ Cardinality(gone \cap S) \in Nat
      /\ AwakeIn(S, ts) \in SUBSET S
  BY AwakeCount, Zenon
<1>3. Cardinality(AwakeIn(S, ts2)) = Cardinality(AwakeIn(S, ts)) - 1
  BY <1>1, <1>2, OneLess, Zenon
<1>4. \A u \in S : ts2[u] = "waiting" => ts[u] = "waiting"
  OBVIOUS
<1>5. q \in Seq(S) /\ n \in Int /\ \A u \in S : ts2[u] = "waiting" => \E i \in 1..Len(q) : q[i] = u
  BY <1>4 DEF Side
<1>6. (\E u \in S : ts2[u] = "waiting") =>
         n <= Cardinality(AwakeIn(S, ts)) + Cardinality(gone \cap S)
  BY <1>4 DEF Side
<1> QED
  BY <1>2, <1>3, <1>5, <1>6, SMTT(30) DEF Side

\* It finds none, registers and sleeps.
LEMMA SideSleep ==
    ASSUME NEW S, NEW ts, NEW ts2, NEW q, NEW n, NEW gone, NEW t \in S,
           Side(S, ts, q, n, gone), n <= 0, Counted(S),
           \A u \in S : u # t => ts2[u] = ts[u]
    PROVE  Side(S, ts2, Append(q, t), n, gone)
<1>1. q \in Seq(S) /\ n \in Int /\ \A u \in S : ts[u] = "waiting" => \E i \in 1..Len(q) : q[i] = u
  BY DEF Side
<1>2. /\ Append(q, t) \in Seq(S) /\ Len(Append(q, t)) = Len(q) + 1 /\ Len(q) \in Nat
      /\ \A i \in 1..Len(q) : Append(q, t)[i] = q[i] /\ i \in 1..(Len(q) + 1)
      /\ Append(q, t)[Len(q) + 1] = t /\ Len(q) + 1 \in 1..(Len(q) + 1)
  BY <1>1
<1>3. ASSUME NEW u \in S, ts2[u] = "waiting"
      PROVE  \E i \in 1..Len(Append(q, t)) : Append(q, t)[i] = u
  <2>1. CASE u = t
    BY <1>2, <2>1, SMTT(30)
  <2>2. CASE u # t
    <3>1. PICK i \in 1..Len(q) : q[i] = u
      BY <1>1, <1>3, <2>2
    <3> QED
      BY <1>2, <3>1
  <2> QED
    BY <2>1, <2>2
<1>4. Cardinality(AwakeIn(S, ts2)) \in Nat /\ Cardinality(gone \cap S) \in Nat
  BY AwakeCount, Zenon
<1>5. n <= Cardinality(AwakeIn(S, ts2)) + Cardinality(gone \cap S)
  BY <1>1, <1>4
<1> QED
  BY <1>1, <1>2, <1>3, <1>5 DEF Side

\* A woken thread runs again and ends its registration; t may be of the
\* other side.
LEMMA SideResume ==
    ASSUME HasLeast, NEW S, NEW ts, NEW ts2, NEW q, NEW n, NEW gone, NEW t,
           Side(S, ts, q, n, gone), Counted(S),
           t \in S => ts[t] = "woken" /\ ts2[t] = "in",
           \A u \in S : u # t => ts2[u] = ts[u]
    PROVE  Side(S, ts2, Without(q, t), n, gone)
<1>1. q \in Seq(S) /\ n \in Int /\ \A u \in S : ts[u] = "waiting" => \E i \in 1..Len(q) : q[i] = u
  BY DEF Side
<1>2. AwakeIn(S, ts2) = AwakeIn(S, ts)
  BY DEF AwakeIn
<1>3. \A u \in S : ts2[u] = "waiting" => u # t /\ ts[u] = "waiting"
  OBVIOUS
<1>4. /\ Without(q, t) \in Seq(S)
      /\ \A u \in S : ts2[u] = "waiting" =>
            \E i \in 1..Len(Without(q, t)) : Without(q, t)[i] = u
  <2>1. Registered(S, ts, q) /\ SleepOn(S, ts, ts2, t)
    BY <1>1, <1>3, Zenon DEF Registered, SleepOn
  <2>2. Without(q, t) \in Seq(S) /\ Registered(S, ts2, Without(q, t))
    BY <1>1, <2>1, StillRegistered, Zenon
  <2> QED
    BY <2>2, Zenon DEF Registered
<1> QED
  BY <1>1, <1>2, <1>3, <1>4, Zenon DEF Side

\* A sleeping or woken thread is stopped; t may be of the other side.
LEMMA SideStop ==
    ASSUME HasLeast, NEW S, NEW ts, NEW ts2, NEW q, NEW n, NEW gone, NEW gone2, NEW t,
           Side(S, ts, q, n, gone), Counted(S), t \notin gone,
           ts[t] \in {"waiting", "woken"}, ts2[t] = "dead",
           gone2 = (IF ts[t] = "woken" THEN gone \cup {t} ELSE gone),
           \A u \in S : u # t => ts2[u] = ts[u]
    PROVE  Side(S, ts2, Without(q, t), n, gone2)
<1>1. q \in Seq(S) /\ n \in Int /\ \A u \in S : ts[u] = "waiting" => \E i \in 1..Len(q) : q[i] = u
  BY DEF Side
<1>2. \A u \in S : ts2[u] = "waiting" => u # t /\ ts[u] = "waiting"
  OBVIOUS
<1>3. /\ Without(q, t) \in Seq(S)
      /\ \A u \in S : ts2[u] = "waiting" =>
            \E i \in 1..Len(Without(q, t)) : Without(q, t)[i] = u
  <2>1. Registered(S, ts, q) /\ SleepOn(S, ts, ts2, t)
    BY <1>1, <1>2, Zenon DEF Registered, SleepOn
  <2>2. Without(q, t) \in Seq(S) /\ Registered(S, ts2, Without(q, t))
    BY <1>1, <2>1, StillRegistered, Zenon
  <2> QED
    BY <2>2, Zenon DEF Registered
<1> DEFINE A == AwakeIn(S, ts)
           G == gone \cap S
<1>4. /\ Cardinality(A) \in Nat /\ Cardinality(G) \in Nat
      /\ A \in SUBSET S /\ G \in SUBSET S
  BY AwakeCount, Zenon
<1>5. Cardinality(AwakeIn(S, ts2)) + Cardinality(gone2 \cap S) = Cardinality(A) + Cardinality(G)
  <2>1. CASE t \in S /\ ts[t] = "woken"
    <3>1. /\ AwakeIn(S, ts2) = A \ {t} /\ t \in A
          /\ gone2 \cap S = G \cup {t} /\ t \notin G
      BY <2>1 DEF AwakeIn
    <3>2. Cardinality(AwakeIn(S, ts2)) = Cardinality(A) - 1
      BY <1>4, <3>1, OneLess, Zenon
    <3>3. Cardinality(gone2 \cap S) = Cardinality(G) + 1
      <4> HIDE DEF A, G
      <4>1. Cardinality(G \cup {t}) = Cardinality(G) + 1
        BY <1>4, <2>1, <3>1, OneMore
      <4> QED
        BY <3>1, <4>1, Zenon
    <3> QED
      BY <1>4, <3>2, <3>3
  <2>2. CASE ~(t \in S /\ ts[t] = "woken")
    <3>1. AwakeIn(S, ts2) = A /\ gone2 \cap S = G
      BY <2>2 DEF AwakeIn
    <3> QED
      BY <3>1
  <2> QED
    BY <2>1, <2>2
<1>6. (\E u \in S : ts2[u] = "waiting") => n <= Cardinality(A) + Cardinality(G)
  BY <1>2, Zenon DEF Side
<1> HIDE DEF A, G
<1>7. (\E u \in S : ts2[u] = "waiting") =>
          n <= Cardinality(AwakeIn(S, ts2)) + Cardinality(gone2 \cap S)
  BY <1>5, <1>6, Zenon
<1> QED
  BY <1>1, <1>3, <1>7, Zenon DEF Side

\* The sleeper that wait_queue_wake_one wakes, if there is one.
FirstIn(ts, q, t) ==
    \E i \in 1..Len(q) : /\ q[i] = t /\ ts[t] = "waiting"
                         /\ \A j \in 1..(i - 1) : ts[q[j]] # "waiting"

\* The sleeper that is woken makes up for the byte or slot gained.
LEMMA SideWake ==
    ASSUME HasLeast, NEW S, NEW ts, NEW ts2, NEW q, NEW n, NEW m \in Int, NEW gone,
           Side(S, ts, q, n, gone), m <= n + 1, Counted(S),
           \A u \in S : ts2[u] = IF FirstIn(ts, q, u) THEN "woken" ELSE ts[u]
    PROVE  Side(S, ts2, q, m, gone)
<1>1. q \in Seq(S) /\ n \in Int /\ \A u \in S : ts[u] = "waiting" => \E i \in 1..Len(q) : q[i] = u
  BY DEF Side
<1>2. \A u \in S : ts2[u] = "waiting" => ts[u] = "waiting"
  OBVIOUS
<1>3. \A u \in S : ts2[u] = "waiting" => \E i \in 1..Len(q) : q[i] = u
  BY <1>1, <1>2, Zenon
<1>4. ASSUME NEW v \in S, ts2[v] = "waiting"
      PROVE  m <= Cardinality(AwakeIn(S, ts2)) + Cardinality(gone \cap S)
  <2> DEFINE T == {i \in 1..Len(q) : ts[q[i]] = "waiting"}
  <2>1. Len(q) \in Nat /\ \A i \in 1..Len(q) : q[i] \in S /\ i \in Nat
    BY <1>1
  <2>2. T \in SUBSET Nat /\ T # {}
    BY <1>2, <1>3, <1>4, <2>1
  <2>3. PICK i \in T : \A j \in T : ~(j < i)
    BY <2>2, Zenon DEF HasLeast
  <2>4. i \in 1..Len(q) /\ ts[q[i]] = "waiting" /\ q[i] \in S
    BY <2>1, <2>3
  <2>5. FirstIn(ts, q, q[i])
    <3>1. \A j \in 1..(i - 1) : j \in 1..Len(q) /\ j < i
      BY <2>1, <2>4
    <3>2. \A j \in 1..(i - 1) : ts[q[j]] # "waiting"
      BY <2>3, <3>1, Zenon
    <3> QED
      BY <2>4, <3>2, Zenon DEF FirstIn
  <2>6. ASSUME NEW u \in S, FirstIn(ts, q, u) PROVE u = q[i]
    <3>1. PICK k \in 1..Len(q) : /\ q[k] = u /\ ts[u] = "waiting"
                                 /\ \A j \in 1..(k - 1) : ts[q[j]] # "waiting"
      BY <2>6 DEF FirstIn
    <3>2. ~(k < i)
      BY <2>3, <3>1, Zenon
    <3>3. ~(i < k)
      <4>1. i < k => i \in 1..(k - 1)
        BY <2>1, <2>4
      <4> QED
        BY <2>4, <3>1, <4>1, Zenon
    <3>4. i = k
      BY <2>1, <2>4, <3>2, <3>3, SMTT(30)
    <3> QED
      BY <3>1, <3>4
  <2>7. AwakeIn(S, ts2) = AwakeIn(S, ts) \cup {q[i]} /\ q[i] \notin AwakeIn(S, ts)
    <3>1. q[i] \notin AwakeIn(S, ts)
      BY <2>4 DEF AwakeIn
    <3>2. ts2[q[i]] = "woken" /\ \A u \in S : u # q[i] => ts2[u] = ts[u]
      BY <2>4, <2>5, <2>6, Zenon
    <3>3. \A u \in S : u \in AwakeIn(S, ts2) <=> u \in AwakeIn(S, ts) \/ u = q[i]
      BY <3>2 DEF AwakeIn
    <3> QED
      BY <2>4, <3>1, <3>3 DEF AwakeIn
  <2>8. /\ Cardinality(AwakeIn(S, ts)) \in Nat /\ Cardinality(gone \cap S) \in Nat
        /\ AwakeIn(S, ts) \in SUBSET S
    BY AwakeCount, Zenon
  <2>9. Cardinality(AwakeIn(S, ts2)) = Cardinality(AwakeIn(S, ts)) + 1
    <3>1. Cardinality(AwakeIn(S, ts) \cup {q[i]}) = Cardinality(AwakeIn(S, ts)) + 1
      BY <2>4, <2>7, <2>8, OneMore
    <3> QED
      BY <2>7, <3>1, Zenon
  <2>10. n <= Cardinality(AwakeIn(S, ts)) + Cardinality(gone \cap S)
    BY <1>2, <1>4, Zenon DEF Side
  <2> QED
    BY <1>1, <2>8, <2>9, <2>10, SMTT(30)
<1> QED
  BY <1>1, <1>3, <1>4, Zenon DEF Side

---------------------------------------------------------------------------
(* No lost wakeup.                                                         *)
Counting == HasLeast /\ Counted(Reader) /\ Counted(Writer)

\* The free slots after a byte went to the device, and after n were accepted.
LEMMA RoomFacts ==
    ASSUME TxInv
    PROVE  /\ Room \in Nat /\ Room \in Int /\ (tx' = tx => Room' = Room)
           /\ DrainOne => Room' = Room + 1
           /\ \A n \in Nat : Push(n) => Room' = Room - n
<1>1. Capacity \in Nat /\ tx \in Seq(Nat) /\ Len(tx) \in Nat /\ Len(tx) <= Capacity
      /\ accepted \in Nat
  BY UartAssumption DEF TxInv
<1>2. ASSUME DrainOne PROVE Room' = Room + 1
  <2>1. tx' = Tail(tx) /\ tx # <<>>
    BY <1>2 DEF DrainOne, CanDrain
  <2>2. Len(tx') = Len(tx) - 1
    BY <1>1, <2>1
  <2> QED
    BY <1>1, <2>2 DEF Room
<1>3. ASSUME NEW n \in Nat, Push(n) PROVE Room' = Room - n
  <2>1. tx' = tx \o [i \in 1..n |-> accepted + i]
    BY <1>3 DEF Push
  <2>2. Len(tx') = Len(tx) + n
    BY <1>1, <2>1, WithinRun DEF TxInv
  <2> QED
    BY <1>1, <2>2 DEF Room
<1> QED
  BY <1>1, <1>2, <1>3 DEF Room

\* No thread moves; no byte and no free slot is gained.
LEMMA ThreadsQuiet ==
    ASSUME Counting, ThreadInv, UNCHANGED <<threads, irq_enabled>>,
           Len(rx') \in Int, Len(rx') <= Len(rx), Room' \in Int, Room' <= Room
    PROVE  ThreadInv'
<1>1. UNCHANGED <<tstate, rx_wait, tx_wait, lost, irq_enabled>>
  BY DEF threads
<1>2. HasLeast /\ Counted(Reader) /\ Counted(Writer)
  BY UartAssumption DEF Counting
<1>3. Side(Reader, tstate', rx_wait', Len(rx'), lost')
  BY <1>1, <1>2, SideSame DEF ThreadInv
<1>4. Side(Writer, tstate', tx_wait', Room', lost')
  BY <1>1, <1>2, SideSame DEF ThreadInv
<1> QED
  BY <1>1, <1>3, <1>4 DEF ThreadInv

\* A byte comes, and a reader is woken.
LEMMA ReaderWoken ==
    ASSUME Counting, ThreadInv, wake_one(rx_wait), UNCHANGED irq_enabled,
           Len(rx') \in Int, Len(rx') <= Len(rx) + 1, Room' = Room
    PROVE  ThreadInv'
<1>1. /\ UNCHANGED <<rx_wait, tx_wait, lost, irq_enabled>>
      /\ tstate' = [t \in Thread |-> IF FirstIn(tstate, rx_wait, t) THEN "woken" ELSE tstate[t]]
  BY DEF wake_one, FirstWaiting, FirstIn
<1>2. HasLeast /\ Counted(Reader) /\ Counted(Writer) /\ Reader \cap Writer = {}
      /\ Reader \subseteq Thread /\ Writer \subseteq Thread
  BY UartAssumption DEF Thread, Counting
<1>3. rx_wait \in Seq(Reader) /\ Room \in Int
  BY DEF ThreadInv, Side
<1>4. \A t \in Writer : ~FirstIn(tstate, rx_wait, t)
  BY <1>2, <1>3 DEF FirstIn
<1>5. Side(Reader, tstate', rx_wait', Len(rx'), lost')
  <2>1. \A t \in Reader : tstate'[t] = IF FirstIn(tstate, rx_wait, t) THEN "woken" ELSE tstate[t]
    BY <1>1, <1>2
  <2>2. Side(Reader, tstate, rx_wait, Len(rx), lost)
    BY DEF ThreadInv
  <2>3. Side(Reader, tstate', rx_wait, Len(rx'), lost)
    BY <1>2, <2>1, <2>2, SideWake
  <2> QED
    BY <1>1, <2>3
<1>6. Side(Writer, tstate', tx_wait', Room', lost')
  <2>1. \A t \in Writer : tstate'[t] = tstate[t]
    BY <1>1, <1>2, <1>4
  <2>2. Room' \in Int /\ Room' <= Room
    BY <1>3
  <2> QED
    BY <1>1, <1>2, <2>1, <2>2, SideSame, Zenon DEF ThreadInv
<1>7. /\ tstate' \in [Thread -> {"out", "in", "waiting", "woken", "dead"}]
      /\ \A t \in Thread : tstate[t] \in {"out", "dead"} => tstate'[t] = tstate[t]
  BY <1>1, Zenon DEF ThreadInv, FirstIn
<1>8. /\ \A t \in lost' : t \in Thread /\ tstate'[t] = "dead"
      /\ ~irq_enabled' => \A t \in Thread : tstate'[t] = "out"
  BY <1>1, <1>7 DEF ThreadInv
<1> QED
  BY <1>5, <1>6, <1>7, <1>8, Zenon DEF ThreadInv

\* A slot becomes free, and a writer is woken.
LEMMA WriterWoken ==
    ASSUME Counting, ThreadInv, wake_one(tx_wait), UNCHANGED <<irq_enabled, rx>>,
           Room' \in Int, Room' <= Room + 1
    PROVE  ThreadInv'
<1>1. /\ UNCHANGED <<rx_wait, tx_wait, lost, irq_enabled>>
      /\ tstate' = [t \in Thread |-> IF FirstIn(tstate, tx_wait, t) THEN "woken" ELSE tstate[t]]
  BY DEF wake_one, FirstWaiting, FirstIn
<1>2. HasLeast /\ Counted(Reader) /\ Counted(Writer) /\ Reader \cap Writer = {}
      /\ Reader \subseteq Thread /\ Writer \subseteq Thread
  BY UartAssumption DEF Thread, Counting
<1>3. tx_wait \in Seq(Writer) /\ Len(rx) \in Int
  BY DEF ThreadInv, Side
<1>4. \A t \in Reader : ~FirstIn(tstate, tx_wait, t)
  BY <1>2, <1>3 DEF FirstIn
<1>5. Side(Writer, tstate', tx_wait', Room', lost')
  <2>1. \A t \in Writer : tstate'[t] = IF FirstIn(tstate, tx_wait, t) THEN "woken" ELSE tstate[t]
    BY <1>1, <1>2
  <2>2. Side(Writer, tstate, tx_wait, Room, lost)
    BY DEF ThreadInv
  <2>3. Side(Writer, tstate', tx_wait, Room', lost)
    BY <1>2, <2>1, <2>2, SideWake
  <2> QED
    BY <1>1, <2>3
<1>6. Side(Reader, tstate', rx_wait', Len(rx'), lost')
  <2>1. \A t \in Reader : tstate'[t] = tstate[t]
    BY <1>1, <1>2, <1>4
  <2>2. Len(rx') \in Int /\ Len(rx') <= Len(rx)
    BY <1>3, SMTT(30)
  <2> QED
    BY <1>1, <1>2, <2>1, <2>2, SideSame DEF ThreadInv
<1>7. /\ tstate' \in [Thread -> {"out", "in", "waiting", "woken", "dead"}]
      /\ \A t \in Thread : tstate[t] \in {"out", "dead"} => tstate'[t] = tstate[t]
  BY <1>1 DEF ThreadInv, FirstIn
<1>8. /\ \A t \in lost' : t \in Thread /\ tstate'[t] = "dead"
      /\ ~irq_enabled' => \A t \in Thread : tstate'[t] = "out"
  BY <1>1, <1>7 DEF ThreadInv
<1> QED
  BY <1>5, <1>6, <1>7, <1>8, Zenon DEF ThreadInv

\* The thread t of one side moves from state a to b; the other side stays.
LEMMA OneMoves ==
    ASSUME ThreadInv, UNCHANGED lost, NEW t \in Thread, tstate[t] \notin {"dead"},
           NEW b \in {"out", "in", "waiting", "woken"},
           irq_enabled' = TRUE,
           tstate' = [tstate EXCEPT ![t] = b],
           Side(Reader, tstate', rx_wait', Len(rx'), lost'),
           Side(Writer, tstate', tx_wait', Room', lost')
    PROVE  ThreadInv'
<1>1. /\ tstate' \in [Thread -> {"out", "in", "waiting", "woken", "dead"}]
      /\ \A u \in Thread : tstate[u] = "dead" => tstate'[u] = "dead"
  BY DEF ThreadInv
<1>2. \A u \in lost' : u \in Thread /\ tstate'[u] = "dead"
  BY <1>1 DEF ThreadInv
<1> QED
  BY <1>1, <1>2 DEF ThreadInv

\* A side that t does not belong to.
LEMMA OtherSide ==
    ASSUME NEW S \in SUBSET Thread, NEW t, t \notin S, NEW b, NEW q, NEW n, NEW gone,
           tstate \in [Thread -> {"out", "in", "waiting", "woken", "dead"}],
           Side(S, tstate, q, n, gone), Counted(S)
    PROVE  Side(S, [tstate EXCEPT ![t] = b], q, n, gone)
<1>1. \A u \in S : [tstate EXCEPT ![t] = b][u] = tstate[u]
  OBVIOUS
<1>2. n \in Int /\ n <= n
  BY DEF Side
<1> QED
  BY <1>1, <1>2, SideSame, Zenon

\* A thread calls uart_recv or uart_send.
LEMMA CallKeeps ==
    ASSUME Counting, ThreadInv, NEW t \in Thread, Call(t)
    PROVE  ThreadInv'
<1>1. /\ UNCHANGED <<rx_wait, tx_wait, lost, irq_enabled, rx, tx>> /\ irq_enabled
      /\ tstate[t] = "out" /\ tstate' = [tstate EXCEPT ![t] = "in"]
  BY DEF Call, rxVars, txVars
<1>2. Room' = Room /\ irq_enabled' = TRUE
  BY <1>1, Zenon DEF Room, Call
<1>3. /\ tstate \in [Thread -> {"out", "in", "waiting", "woken", "dead"}]
      /\ tstate'[t] = "in" /\ \A u \in Thread : u # t => tstate'[u] = tstate[u]
      /\ Side(Reader, tstate, rx_wait, Len(rx), lost) /\ Side(Writer, tstate, tx_wait, Room, lost)
  BY <1>1 DEF ThreadInv
<1>4. /\ HasLeast /\ Counted(Reader) /\ Counted(Writer) /\ Reader \in SUBSET Thread
      /\ Writer \in SUBSET Thread
  BY UartAssumption DEF Thread, Counting
<1>5. Side(Reader, tstate', rx_wait, Len(rx), lost)
  <2>1. CASE t \in Reader
    BY <1>1, <1>3, <1>4, <2>1, SideEnter, Zenon
  <2>2. CASE t \notin Reader
    BY <1>1, <1>3, <1>4, <2>2, OtherSide, Zenon
  <2> QED
    BY <2>1, <2>2
<1>6. Side(Writer, tstate', tx_wait, Room, lost)
  <2>1. CASE t \in Writer
    BY <1>1, <1>3, <1>4, <2>1, SideEnter, Zenon
  <2>2. CASE t \notin Writer
    BY <1>1, <1>3, <1>4, <2>2, OtherSide, Zenon
  <2> QED
    BY <2>1, <2>2
<1> QED
  BY <1>1, <1>2, <1>5, <1>6, OneMoves, Zenon

\* A reader takes a byte, or registers and sleeps on an empty ring.
LEMMA RecvKeeps ==
    ASSUME Counting, ThreadInv, RxInv, NEW t \in Reader, uart_recv(t)
    PROVE  ThreadInv'
<1>1. /\ UNCHANGED <<tx_wait, lost, irq_enabled, tx>> /\ tstate[t] = "in"
  BY DEF uart_recv, txVars
<1>2. /\ HasLeast /\ Counted(Reader) /\ Counted(Writer) /\ Reader \in SUBSET Thread
      /\ Writer \in SUBSET Thread /\ t \notin Writer /\ t \in Thread
  BY UartAssumption DEF Thread, Counting
<1>3. Room' = Room /\ irq_enabled' = TRUE
  BY <1>1, <1>2 DEF Room, ThreadInv, StreamInv
<1>4. /\ tstate \in [Thread -> {"out", "in", "waiting", "woken", "dead"}]
      /\ Side(Reader, tstate, rx_wait, Len(rx), lost) /\ Side(Writer, tstate, tx_wait, Room, lost)
      /\ rx \in Seq(Nat)
  BY DEF ThreadInv, RxInv
<1>5. CASE rx # <<>>
  <2>1. rx' = Tail(rx) /\ tstate' = [tstate EXCEPT ![t] = "out"] /\ UNCHANGED rx_wait
    BY <1>5 DEF uart_recv
  <2>2. tstate'[t] = "out" /\ \A u \in Reader : u # t => tstate'[u] = tstate[u]
    BY <1>2, <1>4, <2>1
  <2>3. Len(rx') \in Int /\ Len(rx') <= Len(rx) - 1
    BY <1>4, <1>5, <2>1, SMTT(30)
  <2>4. Side(Reader, tstate', rx_wait, Len(rx'), lost)
    BY <1>1, <1>2, <1>4, <2>2, <2>3, SideLeave, SMTT(30)
  <2>5. Side(Writer, tstate', tx_wait, Room, lost)
    BY <1>2, <1>4, <2>1, OtherSide, Zenon
  <2> QED
    BY <1>1, <1>2, <1>3, <2>1, <2>4, <2>5, OneMoves, Zenon
<1>6. CASE rx = <<>>
  <2>1. /\ rx' = rx /\ rx_wait' = Append(rx_wait, t)
        /\ tstate' = [tstate EXCEPT ![t] = "waiting"]
    BY <1>6 DEF uart_recv
  <2>2. \A u \in Reader : u # t => tstate'[u] = tstate[u]
    BY <1>2, <1>4, <2>1
  <2>3. Len(rx) <= 0
    BY <1>6
  <2>4. Side(Reader, tstate', Append(rx_wait, t), Len(rx), lost)
    BY <1>2, <1>4, <2>2, <2>3, SideSleep, SMTT(30)
  <2>5. Side(Writer, tstate', tx_wait, Room, lost)
    BY <1>2, <1>4, <2>1, OtherSide, Zenon
  <2> QED
    BY <1>1, <1>2, <1>3, <2>1, <2>4, <2>5, OneMoves, Zenon
<1> QED
  BY <1>5, <1>6

\* A writer gives a byte, or registers and sleeps on a full ring.
LEMMA SendKeeps ==
    ASSUME Counting, ThreadInv, TxInv, NEW t \in Writer, uart_send(t)
    PROVE  ThreadInv'
<1>1. /\ UNCHANGED <<rx_wait, lost, irq_enabled, rx>> /\ tstate[t] = "in"
  BY DEF uart_send, rxVars
<1>2. /\ HasLeast /\ Counted(Reader) /\ Counted(Writer) /\ Reader \in SUBSET Thread
      /\ Writer \in SUBSET Thread /\ t \notin Reader /\ t \in Thread
  BY UartAssumption DEF Thread, Counting
<1>3. irq_enabled' = TRUE
  BY <1>1, <1>2 DEF ThreadInv
<1>4. /\ tstate \in [Thread -> {"out", "in", "waiting", "woken", "dead"}]
      /\ Side(Reader, tstate, rx_wait, Len(rx), lost) /\ Side(Writer, tstate, tx_wait, Room, lost)
  BY DEF ThreadInv
<1>5. CASE Room > 0
  <2>1. Push(1) /\ tstate' = [tstate EXCEPT ![t] = "out"] /\ UNCHANGED tx_wait
    BY <1>5, Zenon DEF uart_send
  <2>2. tstate'[t] = "out" /\ \A u \in Writer : u # t => tstate'[u] = tstate[u]
    BY <1>2, <1>4, <2>1
  <2>3. Room' \in Int /\ Room' <= Room - 1
    <3>1. Room \in Int /\ Room' = Room - 1
      BY <2>1, RoomFacts
    <3> QED
      BY <3>1
  <2>4. Side(Writer, tstate', tx_wait, Room', lost)
    BY <1>1, <1>2, <1>4, <2>2, <2>3, SideLeave, SMTT(30)
  <2>5. Side(Reader, tstate', rx_wait, Len(rx), lost)
    BY <1>2, <1>4, <2>1, OtherSide, Zenon
  <2> QED
    BY <1>1, <1>2, <1>3, <2>1, <2>4, <2>5, OneMoves, Zenon
<1>6. CASE ~(Room > 0)
  <2>1. /\ tx' = tx /\ tx_wait' = Append(tx_wait, t)
        /\ tstate' = [tstate EXCEPT ![t] = "waiting"]
    BY <1>6 DEF uart_send
  <2>2. \A u \in Writer : u # t => tstate'[u] = tstate[u]
    BY <1>2, <1>4, <2>1
  <2>3. Room <= 0 /\ Room' = Room
    <3>1. Room \in Int /\ Room' = Room
      BY <2>1, RoomFacts
    <3> QED
      BY <1>6, <3>1
  <2>4. Side(Writer, tstate', Append(tx_wait, t), Room, lost)
    BY <1>2, <1>4, <2>2, <2>3, SideSleep, SMTT(30)
  <2>5. Side(Reader, tstate', rx_wait, Len(rx), lost)
    BY <1>2, <1>4, <2>1, OtherSide, Zenon
  <2> QED
    BY <1>1, <1>2, <1>3, <2>1, <2>3, <2>4, <2>5, OneMoves, Zenon
<1> QED
  BY <1>5, <1>6

\* A woken thread goes back into its loop.
LEMMA ResumeKeeps ==
    ASSUME Counting, ThreadInv, NEW t \in Thread, Resume(t)
    PROVE  ThreadInv'
<1>1. /\ UNCHANGED <<lost, irq_enabled, rx, tx>>
      /\ tstate[t] = "woken" /\ tstate' = [tstate EXCEPT ![t] = "in"]
      /\ rx_wait' = Without(rx_wait, t) /\ tx_wait' = Without(tx_wait, t)
  BY DEF Resume, rxVars, txVars
<1>2. Room' = Room /\ irq_enabled' = TRUE
  BY <1>1 DEF Room, ThreadInv
<1>3. /\ tstate \in [Thread -> {"out", "in", "waiting", "woken", "dead"}]
      /\ tstate'[t] = "in" /\ \A u \in Thread : u # t => tstate'[u] = tstate[u]
      /\ Side(Reader, tstate, rx_wait, Len(rx), lost) /\ Side(Writer, tstate, tx_wait, Room, lost)
  BY <1>1 DEF ThreadInv
<1>4. /\ HasLeast /\ Counted(Reader) /\ Counted(Writer)
      /\ \A u \in Reader : u # t => tstate'[u] = tstate[u]
      /\ \A u \in Writer : u # t => tstate'[u] = tstate[u]
  BY <1>3, UartAssumption DEF Thread, Counting
<1>5. Side(Reader, tstate', Without(rx_wait, t), Len(rx), lost)
  BY <1>1, <1>3, <1>4, SideResume, Zenon
<1>6. Side(Writer, tstate', Without(tx_wait, t), Room, lost)
  BY <1>1, <1>3, <1>4, SideResume, Zenon
<1> QED
  BY <1>1, <1>2, <1>5, <1>6, OneMoves, Zenon

\* A sleeping or woken thread is stopped.
LEMMA StopKeeps ==
    ASSUME Counting, ThreadInv, NEW t \in Thread, Stop(t)
    PROVE  ThreadInv'
<1>1. /\ UNCHANGED <<irq_enabled, rx, tx>>
      /\ tstate[t] \in {"waiting", "woken"} /\ tstate' = [tstate EXCEPT ![t] = "dead"]
      /\ rx_wait' = Without(rx_wait, t) /\ tx_wait' = Without(tx_wait, t)
      /\ lost' = IF tstate[t] = "woken" THEN lost \cup {t} ELSE lost
  BY DEF Stop, rxVars, txVars
<1>2. Room' = Room /\ irq_enabled' = TRUE
  BY <1>1 DEF Room, ThreadInv
<1>3. /\ tstate \in [Thread -> {"out", "in", "waiting", "woken", "dead"}]
      /\ tstate'[t] = "dead" /\ \A u \in Thread : u # t => tstate'[u] = tstate[u]
      /\ Side(Reader, tstate, rx_wait, Len(rx), lost) /\ Side(Writer, tstate, tx_wait, Room, lost)
      /\ t \notin lost
  BY <1>1, SMTT(30) DEF ThreadInv
<1>4. /\ HasLeast /\ Counted(Reader) /\ Counted(Writer)
      /\ \A u \in Reader : u # t => tstate'[u] = tstate[u]
      /\ \A u \in Writer : u # t => tstate'[u] = tstate[u]
  BY <1>3, UartAssumption DEF Thread, Counting
<1>5. Side(Reader, tstate', Without(rx_wait, t), Len(rx), lost')
  BY <1>1, <1>3, <1>4, SideStop, Zenon
<1>6. Side(Writer, tstate', Without(tx_wait, t), Room, lost')
  BY <1>1, <1>3, <1>4, SideStop, Zenon
<1>7. tstate' \in [Thread -> {"out", "in", "waiting", "woken", "dead"}]
  BY <1>1, <1>3
<1>8. \A u \in lost' : u \in Thread /\ tstate'[u] = "dead"
  BY <1>1, <1>3 DEF ThreadInv
<1> QED
  BY <1>1, <1>2, <1>5, <1>6, <1>7, <1>8 DEF ThreadInv

\* uart_irq_init comes before any thread can sleep.
LEMMA InitKeeps ==
    ASSUME ThreadInv, TxInv, uart_irq_init
    PROVE  ThreadInv'
<1>1. /\ UNCHANGED threads /\ rx' = <<>> /\ tx' = <<>> /\ irq_enabled' = TRUE
      /\ \A t \in Thread : tstate[t] = "out"
  BY DEF uart_irq_init, ThreadInv
<1>2. /\ \A t \in Reader : tstate'[t] # "waiting"
      /\ \A t \in Writer : tstate'[t] # "waiting"
  BY <1>1 DEF Thread, threads
<1>3. Len(rx') \in Int /\ Room' \in Int
  BY <1>1, UartAssumption DEF Room
<1>4. UNCHANGED <<tstate, rx_wait, tx_wait, lost>>
  BY <1>1 DEF threads
<1>5. rx_wait' \in Seq(Reader) /\ tx_wait' \in Seq(Writer)
  BY <1>4 DEF ThreadInv, Side
<1>6. Side(Reader, tstate', rx_wait', Len(rx'), lost')
  BY <1>2, <1>3, <1>5, SMTT(30) DEF Side
<1>7. Side(Writer, tstate', tx_wait', Room', lost')
  BY <1>2, <1>3, <1>5 DEF Side
<1> QED
  BY <1>1, <1>4, <1>6, <1>7, SMTT(30) DEF ThreadInv

\* Every step keeps the threads' part of the invariant.
LEMMA ThreadsKept ==
    ASSUME Counting, RxInv, TxInv, StreamInv, ThreadInv, [Next]_vars
    PROVE  ThreadInv'
<1>1. /\ Room \in Int /\ (tx' = tx => Room' = Room) /\ (DrainOne => Room' = Room + 1)
      /\ \A n \in Nat : Push(n) => Room' = Room - n
      /\ ier_tx \in BOOLEAN /\ remaining \in Nat /\ timer_markers \in Nat
      /\ timer_markers + 1 \in Nat
  BY RoomFacts DEF StreamInv
<1>2. rx \in Seq(Nat) /\ Len(rx) \in Int /\ Len(rx) <= Len(rx)
  BY DEF RxInv
<1>3. ASSUME UNCHANGED <<threads, irq_enabled, tx>>, rx' = rx \/ (rx # <<>> /\ rx' = Tail(rx))
      PROVE  ThreadInv'
  <2>1. Len(rx') \in Int /\ Len(rx') <= Len(rx)
    BY <1>2, <1>3
  <2>2. Room' \in Int /\ Room' <= Room
    BY <1>1, <1>3
  <2> QED
    BY <1>3, <2>1, <2>2, ThreadsQuiet
<1>4. ASSUME UNCHANGED <<threads, irq_enabled, rx, tx>> PROVE ThreadInv'
  BY <1>3, <1>4, Zenon
<1>5. ASSUME NEW n \in Nat, Push(n), UNCHANGED <<threads, irq_enabled, rx>> PROVE ThreadInv'
  <2>1. Room' \in Int /\ Room' <= Room
    <3>1. Room' = Room - n
      BY <1>1, <1>5
    <3> QED
      BY <1>1, <3>1
  <2>2. Len(rx') \in Int /\ Len(rx') <= Len(rx)
    BY <1>2, <1>5
  <2> QED
    BY <1>5, <2>1, <2>2, ThreadsQuiet
<1>6. ASSUME DrainOne, UNCHANGED <<irq_enabled, rx>> PROVE ThreadInv'
  <2>1. Room' \in Int /\ Room' <= Room + 1
    BY <1>1, <1>6
  <2>2. wake_one(tx_wait)
    BY <1>6, Zenon DEF DrainOne
  <2> QED
    BY <1>6, <2>1, <2>2, WriterWoken
<1>7. ASSUME NEW left \in Nat, NEW timers \in Nat, demo_fill_tx(left, timers),
             UNCHANGED <<threads, irq_enabled, rx>>
      PROVE  ThreadInv'
  <2>1. PICK n \in Nat : FillStep(n, left, timers)
    BY <1>1, <1>7, FillFacts, Zenon
  <2>2. Push(n)
    BY <2>1, Zenon DEF FillStep
  <2> QED
    BY <1>5, <1>7, <2>2, Zenon
<1>8. CASE ByteArrives \/ ByteSent
  BY <1>4, <1>8 DEF ByteArrives, ByteSent, rxVars, txVars
<1>9. CASE uart_irq_init
  BY <1>9, InitKeeps
<1>10. ASSUME NEW t \in Thread, Call(t) \/ Resume(t) \/ Stop(t) PROVE ThreadInv'
  BY <1>10, CallKeeps, ResumeKeeps, StopKeeps, Zenon
<1>11. ASSUME NEW t \in Reader, uart_recv(t) PROVE ThreadInv'
  BY <1>11, RecvKeeps
<1>12. ASSUME NEW t \in Writer, uart_send(t) PROVE ThreadInv'
  BY <1>12, SendKeeps
<1>13. CASE RecvSpin \/ RecvPolled
  BY <1>3, <1>13 DEF RecvSpin, RecvPolled, txVars
<1>14. CASE SendSpin
  <2>1. UNCHANGED <<irq_enabled, rx>>
    BY <1>14 DEF SendSpin, rxVars
  <2>2. ASSUME Push(1), UNCHANGED threads PROVE ThreadInv'
    BY <1>5, <2>1, <2>2, SMTT(30)
  <2>3. ASSUME UNCHANGED <<tx, threads>> PROVE ThreadInv'
    BY <1>4, <2>1, <2>3, SMTT(30)
  <2>4. \/ Push(1) /\ UNCHANGED threads
        \/ DrainOne
        \/ UNCHANGED <<tx, threads>>
    BY <1>14 DEF SendSpin
  <2> QED
    BY <1>6, <2>1, <2>2, <2>3, <2>4, SMTT(30)
<1>15. CASE SendPolled \/ uart_tx_wait_idle
  <2>1. UNCHANGED <<irq_enabled, rx>>
    BY <1>15 DEF SendPolled, uart_tx_wait_idle, rxVars
  <2>2. DrainOne \/ UNCHANGED <<tx, threads>>
    BY <1>15 DEF SendPolled, uart_tx_wait_idle
  <2> QED
    BY <1>4, <1>6, <2>1, <2>2, SMTT(30)
<1>16. ASSUME NEW n \in 1..MaxMarkers, demo_uart_stress_start(n) PROVE ThreadInv'
  <2>1. n \in Nat /\ 0 \in Nat
    BY <1>16, UartAssumption
  <2>2. demo_fill_tx(n, 0) /\ UNCHANGED <<threads, irq_enabled, rx>>
    BY <1>16 DEF demo_uart_stress_start, rxVars
  <2> QED
    BY <1>7, <2>1, <2>2, SMTT(30)
<1>17. CASE demo_uart_stress_note_timer
  <2>1. demo_fill_tx(remaining, timer_markers + 1) /\ UNCHANGED <<threads, irq_enabled, rx>>
    BY <1>17 DEF demo_uart_stress_note_timer, rxVars
  <2> QED
    BY <1>1, <1>7, <2>1, SMTT(30)
<1>18. CASE uart_irq_top \/ TxDecide \/ RxUnmask
  BY <1>4, <1>18, SMTT(30) DEF uart_irq_top, TxDecide, RxUnmask, rxVars, txVars
<1>19. ASSUME NEW b, OtherIrq(b) \/ OtherHandlerReturns(b) \/ StartHandler(b) PROVE ThreadInv'
  BY <1>4, <1>19, SMTT(30) DEF OtherIrq, OtherHandlerReturns, StartHandler, rxVars, txVars
<1>20. CASE NextRound \/ RxCheck
  BY <1>4, <1>20 DEF NextRound, RxCheck, rxVars, txVars
<1>21. CASE RxDrain
  <2>1. UNCHANGED <<irq_enabled, tx>>
    BY <1>21 DEF RxDrain, txVars
  <2>2. ASSUME rx' = Append(rx, Head(fifo)), wake_one(rx_wait) PROVE ThreadInv'
    <3>1. Len(rx') \in Int /\ Len(rx') <= Len(rx) + 1
      BY <1>2, <2>2
    <3> QED
      BY <1>1, <2>1, <2>2, <3>1, ReaderWoken, SMTT(30)
  <2>3. \/ rx' = Append(rx, Head(fifo)) /\ wake_one(rx_wait)
        \/ UNCHANGED <<rx, threads>>
    BY <1>21, Zenon DEF RxDrain
  <2> QED
    BY <1>4, <2>1, <2>2, <2>3, SMTT(30)
<1>22. CASE TxRefill
  <2>1. UNCHANGED <<threads, irq_enabled, rx>>
    BY <1>22, Zenon DEF TxRefill, rxVars
  <2>2. demo_fill_tx(remaining, timer_markers) \/ UNCHANGED tx
    BY <1>22, Zenon DEF TxRefill, txVars
  <2> QED
    BY <1>1, <1>4, <1>7, <2>1, <2>2, SMTT(30)
<1>23. CASE TxDrain
  <2>1. UNCHANGED <<irq_enabled, rx>>
    BY <1>23, Zenon DEF TxDrain, rxVars
  <2>2. DrainOne \/ UNCHANGED <<tx, threads>>
    BY <1>23, Zenon DEF TxDrain, txVars
  <2> QED
    BY <1>4, <1>6, <2>1, <2>2
<1>24. CASE UNCHANGED vars
  BY <1>4, <1>24, SMTT(30) DEF vars, rxVars, txVars
<1> QED
  BY <1>8, <1>9, <1>10, <1>11, <1>12, <1>13, <1>14, <1>15, <1>16, <1>17, <1>18, <1>19,
     <1>20, <1>21, <1>22, <1>23, <1>24, Zenon DEF Next

---------------------------------------------------------------------------
(* The runner, as the driver sees it.                                      *)
BHP == INSTANCE BottomHalfProofs

\* The operators of the runner as seen from here and from its proofs.
LEMMA SameRunner ==
    /\ \A b : BH!Handling(b) <=> BHP!Handling(b)
    /\ \A b : BH!Handling(b)' <=> BHP!Handling(b)'
    /\ \A b : Coming(b) <=> BHP!Waits(b) \/ BHP!Handling(b)
    /\ \A b : Coming(b)' <=> BHP!Waits(b)' \/ BHP!Handling(b)'
    /\ \A b : BHP!Handling(b) => BHP!Active
    /\ BH!Active <=> BHP!Active
    /\ \A S : BH!RaiseAndRun(S) <=> BHP!RaiseAndRun(S)
    /\ \A S : BH!FinishHandler(S) <=> BHP!FinishHandler(S)
    /\ \A S : BH!clear_bottom_half(S) <=> BHP!clear_bottom_half(S)
    /\ \A b : BH!StartHandler(b) <=> BHP!StartHandler(b)
    /\ BH!EndRound <=> BHP!EndRound
BY DEF BH!Handling, BHP!Handling, BH!Active, BHP!Active, Coming, BHP!Waits,
       BH!InRound, BHP!InRound,
       BH!Top, BHP!Top, BH!SetTop, BHP!SetTop, BH!Between, BHP!Between,
       BH!Types, BHP!Types, BH!Rank, BHP!Rank,
       BH!raise_bottom_half, BHP!raise_bottom_half, BH!RaiseAndRun, BHP!RaiseAndRun,
       BH!clear_bottom_half, BHP!clear_bottom_half,
       BH!FinishHandler, BHP!FinishHandler, BH!StartHandler, BHP!StartHandler,
       BH!EndRound, BHP!EndRound

\* The UART's bottom halves and the others.
LEMMA UartTypes ==
    /\ RX \in BHP!Types /\ TX \in BHP!Types /\ RX # TX
    /\ OtherWork \subseteq BHP!Types /\ RX \notin OtherWork /\ TX \notin OtherWork
    /\ BH!Types = BHP!Types
    /\ \A b, c : BH!Handling(b) /\ BH!Handling(c) => b = c
    /\ Outside => ~BH!Handling(RX) /\ ~BH!Handling(TX)
    /\ InThread => ~BH!Handling(RX) /\ ~BH!Handling(TX)
BY UartAssumption DEF RX, TX, BHP!Types, BH!Types, BH!Handling, Outside, InThread

\* A step that leaves the runner alone.
LEMMA QuietFacts ==
    ASSUME BHP!BHInv, UNCHANGED bh
    PROVE  BHP!BHInv' /\ \A b : (BH!Handling(b)' <=> BH!Handling(b)) /\ (Coming(b)' <=> Coming(b))
BY SameRunner, BHP!QuietStep, SMTT(30) DEF bh

\* A trap whose handler raises S.
LEMMA TrapFacts ==
    ASSUME BHP!BHInv, NEW S \in SUBSET BHP!Types, BH!RaiseAndRun(S)
    PROVE  /\ BHP!BHInv'
           /\ \A b \in {RX, TX} : /\ BH!Handling(b)' <=> BH!Handling(b)
                                  /\ Coming(b)' <=> Coming(b) \/ b \in S
BY SameRunner, UartTypes, BHP!TrapStep

\* The start of a handler.
LEMMA StartFacts ==
    ASSUME BHP!BHInv, NEW c \in BHP!Types, BH!StartHandler(c)
    PROVE  /\ BHP!BHInv'
           /\ \A b \in {RX, TX} : /\ ~BH!Handling(b) /\ (BH!Handling(b)' <=> b = c)
                                  /\ Coming(b) => Coming(b)'
BY SameRunner, UartTypes, BHP!StartStep

\* The return of a handler that raises S.
LEMMA FinishFacts ==
    ASSUME BHP!BHInv, NEW c, BH!Handling(c), NEW S, BH!FinishHandler(S)
    PROVE  /\ BHP!BHInv'
           /\ \A b \in {RX, TX} : /\ ~BH!Handling(b)'
                                  /\ (Coming(b) /\ ~BH!Handling(b)) \/ b \in S => Coming(b)'
BY SameRunner, UartTypes, BHP!FinishStep

\* The end of a round.
LEMMA EndRoundFacts ==
    ASSUME BHP!BHInv, BH!EndRound
    PROVE  /\ BHP!BHInv'
           /\ \A b \in {RX, TX} : /\ ~BH!Handling(b) /\ ~BH!Handling(b)'
                                  /\ Coming(b)' <=> Coming(b)
BY SameRunner, UartTypes, BHP!EndRoundStep

---------------------------------------------------------------------------
(* The interrupt bits and the bottom halves.                               *)

\* The stream is not touched, and the TX bottom half is not moved to its
\* decision.
LEMMA StreamSame ==
    ASSUME StreamInv, UNCHANGED <<stream, irq_enabled>>,
           ier_rx' \in BOOLEAN, ier_tx' \in BOOLEAN,
           BH!Handling(TX)' /\ step' = "decide" /\ tx' = <<>> => InHandler(TX, "decide") /\ tx = <<>>
    PROVE  StreamInv' /\ (Streaming' <=> Streaming)
<1>1. UNCHANGED <<refill, remaining, timer_markers, irq_enabled>>
  BY DEF stream
<1>2. Streaming' <=> Streaming
  BY <1>1 DEF Streaming
<1>3. InHandler(TX, "decide")' /\ tx' = <<>> => InHandler(TX, "decide") /\ tx = <<>>
  BY Zenon DEF InHandler
<1>4. /\ irq_enabled' \in BOOLEAN /\ refill' \in BOOLEAN
      /\ remaining' \in Nat /\ timer_markers' \in Nat
  BY <1>1 DEF StreamInv
<1>5. Streaming' => irq_enabled' /\ refill'
  BY <1>1, <1>2 DEF StreamInv
<1>6. InHandler(TX, "decide")' /\ tx' = <<>> => ~Streaming'
  BY <1>2, <1>3, Zenon DEF StreamInv
<1> QED
  BY <1>2, <1>4, <1>5, <1>6, Zenon DEF StreamInv

\* The runner, the stream and the RX bit stay as they are; the TX bit may be
\* set, and is when the ring gets its first byte.
LEMMA ArmQuiet ==
    ASSUME BHP!BHInv, ArmInv, UNCHANGED <<bh, irq_enabled, ier_rx, stream>>,
           ier_tx' \in BOOLEAN, ier_tx => ier_tx', tx' # <<>> => tx # <<>> \/ ier_tx',
           ~BH!Handling(TX) \/ step' # "decide" \/ (step' = step /\ tx' = tx)
    PROVE  BHP!BHInv' /\ ArmInv'
<1>1. BHP!BHInv' /\ \A b : (BH!Handling(b)' <=> BH!Handling(b)) /\ (Coming(b)' <=> Coming(b))
  BY QuietFacts, Zenon
<1>2. BH!Handling(TX)' /\ step' = "decide" /\ tx' = <<>> => InHandler(TX, "decide") /\ tx = <<>>
  BY <1>1 DEF InHandler
<1>3. ier_rx' \in BOOLEAN
  BY DEF ArmInv, StreamInv
<1>4. StreamInv' /\ (Streaming' <=> Streaming)
  BY <1>2, <1>3, StreamSame DEF ArmInv
<1>5. RxArmed'
  BY <1>1 DEF ArmInv, RxArmed
<1>6. TxArmed'
  BY <1>1, <1>4 DEF ArmInv, TxArmed
<1> QED
  BY <1>1, <1>4, <1>5, <1>6 DEF ArmInv

\* demo_fill_tx leaves the ring empty only when the stream is over, and
\* enables the transmit interrupt for what it queues.
LEMMA FillArms ==
    ASSUME TxInv, NEW n \in Nat, NEW left \in Nat, NEW timers \in Nat,
           FillStep(n, left, timers), NEW c, tx # <<>> => ier_tx \/ c
    PROVE  /\ tx' = <<>> => ~Streaming'
           /\ tx' # <<>> \/ Streaming' => ier_tx' \/ c
<1>1. accepted \in Nat /\ tx \in Seq(Nat)
  BY DEF TxInv
<1>2. tx' = tx \o [i \in 1..n |-> accepted + i] /\ n \in Nat
  BY DEF FillStep, Push
<1>3. n = 0 => tx' = tx
  BY <1>1, <1>2
<1>4. tx = <<>> /\ n = 0 => ~Streaming'
  <2>1. tx = <<>> /\ n = 0 => left = 0 /\ timers = 0
    BY DEF FillStep
  <2> QED
    BY <2>1 DEF FillStep, Streaming
<1>5. n > 0 => ier_tx' /\ tx' # <<>>
  <2>1. n > 0 => Len(tx') = Len(tx) + n /\ Len(tx) \in Nat
    BY <1>1, <1>2, WithinRun DEF TxInv
  <2>2. n > 0 => tx' # <<>>
    BY <2>1
  <2> QED
    BY <2>2 DEF FillStep
<1>6. ier_tx => ier_tx'
  BY Zenon DEF FillStep
<1>7. n = 0 \/ n > 0
  OBVIOUS
<1>8. CASE n = 0
  BY <1>3, <1>4, <1>6, <1>8, Zenon
<1>9. CASE n > 0
  BY <1>5, <1>9, Zenon
<1> QED
  BY <1>7, <1>8, <1>9, Zenon

\* A step that fills the ring from the stream.
LEMMA ArmFill ==
    ASSUME BHP!BHInv, TxInv, ArmInv, UNCHANGED <<bh, irq_enabled, ier_rx>>,
           NEW left \in Nat, NEW timers \in Nat, demo_fill_tx(left, timers),
           refill' \in BOOLEAN, Streaming' => irq_enabled /\ refill'
    PROVE  BHP!BHInv' /\ ArmInv'
<1>1. BHP!BHInv' /\ \A b : (BH!Handling(b)' <=> BH!Handling(b)) /\ (Coming(b)' <=> Coming(b))
  BY QuietFacts, Zenon
<1>2. PICK n \in Nat : FillStep(n, left, timers)
  BY FillFacts DEF ArmInv, StreamInv
<1>3. irq_enabled => (tx # <<>> => ier_tx \/ Coming(TX))
  BY DEF ArmInv, TxArmed
<1>4. /\ tx' = <<>> => ~Streaming'
      /\ irq_enabled => (tx' # <<>> \/ Streaming' => ier_tx' \/ Coming(TX))
  <2>1. ASSUME irq_enabled PROVE tx' # <<>> \/ Streaming' => ier_tx' \/ Coming(TX)
    BY <1>2, <1>3, <2>1, FillArms, Zenon
  <2>2. (tx # <<>> => ier_tx \/ TRUE) => (tx' = <<>> => ~Streaming')
    BY <1>2, FillArms, Zenon
  <2> QED
    BY <2>1, <2>2
<1>5. StreamInv'
  <2>1. remaining' \in Nat /\ timer_markers' \in Nat /\ ier_tx' \in BOOLEAN
    BY <1>2 DEF FillStep
  <2>2. irq_enabled' \in BOOLEAN /\ ier_rx' \in BOOLEAN
    BY DEF ArmInv, StreamInv
  <2> QED
    BY <1>4, <2>1, <2>2, Zenon DEF StreamInv
<1>6. RxArmed'
  BY <1>1 DEF ArmInv, RxArmed
<1>7. TxArmed'
  BY <1>1, <1>4, Zenon DEF TxArmed
<1> QED
  BY <1>1, <1>5, <1>6, <1>7 DEF ArmInv

\* Every step keeps the interrupt bits and the bottom halves in step.
LEMMA ArmKept ==
    ASSUME BHP!BHInv, TxInv, ArmInv, [Next]_vars
    PROVE  BHP!BHInv' /\ ArmInv'
<1> DEFINE Goal == BHP!BHInv' /\ ArmInv'
<1>1. /\ irq_enabled \in BOOLEAN /\ ier_rx \in BOOLEAN /\ ier_tx \in BOOLEAN
      /\ refill \in BOOLEAN /\ remaining \in Nat /\ timer_markers \in Nat
      /\ timer_markers + 1 \in Nat
  BY DEF ArmInv, StreamInv
<1>2. (tx # <<>> => tx # <<>> \/ ier_tx') /\ (Tail(tx) # <<>> => tx # <<>>)
  BY DEF TxInv
<1>3. ASSUME UNCHANGED <<bh, irq_enabled, ier_rx, ier_tx, stream, tx>>,
             step' = step \/ ~BH!Handling(TX)
      PROVE  Goal
  BY <1>1, <1>3, ArmQuiet
<1>4. ASSUME UNCHANGED <<bh, irq_enabled, ier_rx, stream>>, ~BH!Handling(TX),
             ier_tx' = ier_tx \/ ier_tx' = TRUE, DrainOne \/ tx' = tx \/ ier_tx' = TRUE
      PROVE  Goal
  <2>1. ier_tx' \in BOOLEAN /\ (ier_tx => ier_tx')
    <3>1. CASE ier_tx' = ier_tx
      BY <1>1, <3>1
    <3>2. CASE ier_tx' = TRUE
      BY <3>2, SMTT(30)
    <3> QED
      BY <1>4, <3>1, <3>2, Zenon
  <2>2. tx' # <<>> => tx # <<>> \/ ier_tx'
    BY <1>4 DEF DrainOne, CanDrain
  <2> QED
    BY <1>4, <2>1, <2>2, ArmQuiet, SMTT(30)
<1>5. (Outside \/ InThread \/ (\E b \in OtherWork : BH!Handling(b)) => ~BH!Handling(TX))
      /\ (BH!Handling(RX) => ~BH!Handling(TX)) /\ (BH!Handling(TX) => ~BH!Handling(RX))
      /\ (BH!Handling("TIMER") => ~BH!Handling(TX))
  BY UartTypes DEF Outside, RX, TX
<1>6. CASE ByteArrives \/ ByteSent
  BY <1>3, <1>6 DEF ByteArrives, ByteSent, rxVars, txVars, handler
<1>7. CASE uart_irq_init
  <2>1. /\ BHP!BHInv' /\ (BH!Handling(TX)' <=> BH!Handling(TX))
    <3>1. BH!clear_bottom_half({RX, TX})
      BY <1>7, Zenon DEF uart_irq_init
    <3> QED
      BY <3>1, SameRunner, BHP!ClearStep, SMTT(30)
  <2>2. /\ irq_enabled' = TRUE /\ ier_rx' = TRUE /\ ier_tx' = FALSE /\ refill' = FALSE
        /\ UNCHANGED <<remaining, timer_markers>> /\ tx' = <<>> /\ ~irq_enabled /\ InThread
    BY <1>7 DEF uart_irq_init
  <2>3. ~Streaming' /\ ~Streaming
    BY <2>2 DEF ArmInv, StreamInv, Streaming
  <2>4. StreamInv'
    BY <1>1, <2>2, <2>3, Zenon DEF StreamInv
  <2>5. RxArmed' /\ TxArmed'
    BY <2>2, <2>3, SMTT(30) DEF RxArmed, TxArmed
  <2> QED
    BY <2>1, <2>4, <2>5, SMTT(30) DEF ArmInv
<1>8. ASSUME NEW t, Call(t) \/ Resume(t) \/ Stop(t) \/ uart_recv(t) PROVE Goal
  BY <1>3, <1>8, SMTT(30) DEF Call, Resume, Stop, uart_recv, rxVars, txVars, handler
<1>9. ASSUME NEW t, uart_send(t) PROVE Goal
  BY <1>4, <1>5, <1>9, SMTT(30) DEF uart_send, rxVars
<1>10. CASE RecvSpin \/ RecvPolled
  BY <1>3, <1>10 DEF RecvSpin, RecvPolled, txVars, handler
<1>11. CASE SendSpin
  <2>1. UNCHANGED <<bh, irq_enabled, ier_rx>> /\ ~BH!Handling(TX) /\ ier_tx' = TRUE
    BY <1>5, <1>11 DEF SendSpin, rxVars
  <2>2. UNCHANGED stream
    BY <1>11 DEF SendSpin, DrainOne
  <2> QED
    BY <1>4, <2>1, <2>2, Zenon
<1>12. CASE SendPolled \/ uart_tx_wait_idle
  <2>1. UNCHANGED <<bh, irq_enabled, ier_rx, ier_tx>> /\ ~BH!Handling(TX)
    BY <1>5, <1>12, SMTT(30) DEF SendPolled, uart_tx_wait_idle, rxVars
  <2>2. UNCHANGED stream /\ (DrainOne \/ tx' = tx)
    BY <1>12 DEF SendPolled, uart_tx_wait_idle, DrainOne
  <2> QED
    BY <1>4, <2>1, <2>2, Zenon
<1>13. ASSUME NEW n \in 1..MaxMarkers, demo_uart_stress_start(n) PROVE Goal
  <2>1. n \in Nat /\ 0 \in Nat
    BY <1>13, UartAssumption
  <2>2. /\ demo_fill_tx(n, 0) /\ refill' = TRUE /\ irq_enabled
        /\ UNCHANGED <<bh, irq_enabled, ier_rx>>
    BY <1>13 DEF demo_uart_stress_start, rxVars
  <2> QED
    BY <2>1, <2>2, ArmFill, SMTT(30)
<1>14. CASE demo_uart_stress_note_timer
  <2>1. /\ demo_fill_tx(remaining, timer_markers + 1) /\ Streaming
        /\ UNCHANGED <<bh, irq_enabled, ier_rx, refill>>
    BY <1>14 DEF demo_uart_stress_note_timer, rxVars
  <2>2. irq_enabled /\ refill'
    BY <2>1 DEF ArmInv, StreamInv
  <2>3. refill' \in BOOLEAN
    BY <1>1, <2>1
  <2> QED
    BY <1>1, <2>1, <2>2, <2>3, ArmFill, Zenon
<1>15. CASE uart_irq_top
  <2> DEFINE S == (IF fifo # <<>> THEN {RX} ELSE {}) \cup (IF thr_idle /\ ier_tx THEN {TX} ELSE {})
  <2>1. /\ BH!RaiseAndRun(S) /\ UNCHANGED <<stream, irq_enabled, tx, step>>
        /\ ier_rx' = (ier_rx /\ ~(fifo # <<>>)) /\ ier_tx' = (ier_tx /\ ~(thr_idle /\ ier_tx))
    BY <1>15 DEF uart_irq_top, handler
  <2>2. S \in SUBSET BHP!Types /\ (fifo # <<>> => RX \in S) /\ (thr_idle /\ ier_tx => TX \in S)
    BY UartTypes, Zenon
  <2> HIDE DEF S
  <2>3. /\ BHP!BHInv' /\ (BH!Handling(TX)' <=> BH!Handling(TX))
        /\ Coming(RX)' <=> Coming(RX) \/ RX \in S
        /\ Coming(TX)' <=> Coming(TX) \/ TX \in S
    BY <2>1, <2>2, TrapFacts, Zenon
  <2>4. ier_rx' \in BOOLEAN /\ ier_tx' \in BOOLEAN
    BY <2>1
  <2>5. BH!Handling(TX)' /\ step' = "decide" /\ tx' = <<>> => InHandler(TX, "decide") /\ tx = <<>>
    BY <2>1, <2>3, Zenon DEF InHandler
  <2>6. StreamInv' /\ (Streaming' <=> Streaming)
    BY <2>1, <2>4, <2>5, StreamSame, SMTT(30) DEF ArmInv
  <2>7. RxArmed'
    BY <2>1, <2>2, <2>3, Zenon DEF ArmInv, RxArmed
  <2>8. TxArmed'
    BY <2>1, <2>2, <2>3, <2>6, Zenon DEF ArmInv, TxArmed
  <2> QED
    BY <2>3, <2>6, <2>7, <2>8, SMTT(30) DEF ArmInv
<1>16. ASSUME NEW b \in OtherWork, OtherIrq(b) PROVE Goal
  <2>1. /\ BH!RaiseAndRun({b}) /\ {b} \in SUBSET BHP!Types
        /\ UNCHANGED <<stream, irq_enabled, tx, step, ier_rx, ier_tx>>
    BY <1>16, UartTypes DEF OtherIrq, handler, rxVars, txVars
  <2>2. /\ BHP!BHInv' /\ (BH!Handling(TX)' <=> BH!Handling(TX))
        /\ Coming(RX) => Coming(RX)'
        /\ Coming(TX) => Coming(TX)'
    BY <2>1, TrapFacts, Zenon
  <2>3. StreamInv' /\ (Streaming' <=> Streaming)
    <3>1. BH!Handling(TX)' /\ step' = "decide" /\ tx' = <<>> => InHandler(TX, "decide") /\ tx = <<>>
      BY <2>1, <2>2, Zenon DEF InHandler
    <3>2. ier_rx' \in BOOLEAN /\ ier_tx' \in BOOLEAN
      BY <1>1, <2>1
    <3> QED
      BY <2>1, <3>1, <3>2, StreamSame DEF ArmInv
  <2>4. RxArmed' /\ TxArmed'
    BY <2>1, <2>2, <2>3, Zenon DEF ArmInv, RxArmed, TxArmed
  <2> QED
    BY <2>2, <2>3, <2>4, SMTT(30) DEF ArmInv
<1>17. ASSUME ~BH!Handling(TX)', UNCHANGED <<stream, irq_enabled>>,
              ier_rx' \in BOOLEAN, ier_tx' \in BOOLEAN
       PROVE  StreamInv' /\ (Streaming' <=> Streaming)
  BY <1>17, StreamSame DEF ArmInv
<1>18. ASSUME NEW b \in OtherWork, OtherHandlerReturns(b) PROVE Goal
  <2>1. /\ BH!Handling(b) /\ BH!FinishHandler({})
        /\ UNCHANGED <<stream, irq_enabled, tx, ier_rx, ier_tx>>
    BY <1>18 DEF OtherHandlerReturns, rxVars, txVars
  <2>2. ~BH!Handling(RX) /\ ~BH!Handling(TX)
    BY <2>1, UartTypes
  <2>3. /\ BHP!BHInv' /\ ~BH!Handling(TX)'
        /\ Coming(RX) => Coming(RX)'
        /\ Coming(TX) => Coming(TX)'
    BY <2>1, <2>2, FinishFacts, Zenon
  <2>4. StreamInv' /\ (Streaming' <=> Streaming)
    BY <1>1, <1>17, <2>1, <2>3, SMTT(30)
  <2>5. RxArmed' /\ TxArmed'
    BY <2>1, <2>3, <2>4, Zenon DEF ArmInv, RxArmed, TxArmed
  <2> QED
    BY <2>3, <2>4, <2>5, SMTT(30) DEF ArmInv
<1>19. ASSUME NEW b \in BH!Types, StartHandler(b) PROVE Goal
  <2>1. /\ b \in BHP!Types /\ BH!StartHandler(b) /\ (b = TX => step' = "refill")
        /\ UNCHANGED <<stream, irq_enabled, tx, ier_rx, ier_tx>>
    BY <1>19, UartTypes DEF StartHandler, rxVars, txVars
  <2>2. /\ BHP!BHInv' /\ (BH!Handling(TX)' => b = TX)
        /\ Coming(RX) => Coming(RX)'
        /\ Coming(TX) => Coming(TX)'
    BY <2>1, StartFacts, Zenon
  <2>3. StreamInv' /\ (Streaming' <=> Streaming)
    <3>1. ~(BH!Handling(TX)' /\ step' = "decide")
      BY <2>1, <2>2
    <3>2. ier_rx' \in BOOLEAN /\ ier_tx' \in BOOLEAN
      BY <1>1, <2>1
    <3> QED
      BY <2>1, <3>1, <3>2, StreamSame, SMTT(30) DEF ArmInv
  <2>4. RxArmed' /\ TxArmed'
    BY <2>1, <2>2, <2>3, Zenon DEF ArmInv, RxArmed, TxArmed
  <2> QED
    BY <2>2, <2>3, <2>4, SMTT(30) DEF ArmInv
<1>20. CASE NextRound
  <2>1. BH!EndRound /\ UNCHANGED <<stream, irq_enabled, tx, ier_rx, ier_tx>>
    BY <1>20 DEF NextRound, rxVars, txVars
  <2>2. /\ BHP!BHInv' /\ ~BH!Handling(TX)'
        /\ Coming(RX) => Coming(RX)'
        /\ Coming(TX) => Coming(TX)'
    BY <2>1, EndRoundFacts, Zenon
  <2>3. StreamInv' /\ (Streaming' <=> Streaming)
    BY <1>1, <1>17, <2>1, <2>2
  <2>4. RxArmed' /\ TxArmed'
    BY <2>1, <2>2, <2>3, Zenon DEF ArmInv, RxArmed, TxArmed
  <2> QED
    BY <2>2, <2>3, <2>4 DEF ArmInv
<1>21. CASE RxDrain
  <2>1. UNCHANGED <<bh, irq_enabled, ier_rx, ier_tx, stream, tx>> /\ BH!Handling(RX)
    BY <1>21 DEF RxDrain, txVars, InHandler
  <2> QED
    BY <1>3, <1>5, <2>1, SMTT(30)
<1>22. CASE RxCheck
  <2>1. UNCHANGED <<irq_enabled, ier_rx, ier_tx, stream, tx>> /\ BH!Handling(RX)
    BY <1>22 DEF RxCheck, rxVars, txVars, InHandler
  <2>2. CASE UNCHANGED bh
    BY <1>3, <1>5, <2>1, <2>2, SMTT(30)
  <2>3. CASE BH!FinishHandler({RX})
    <3>1. /\ BHP!BHInv' /\ ~BH!Handling(TX)' /\ Coming(RX)'
          /\ Coming(TX) => Coming(TX)'
      <4>1. ~BH!Handling(TX) /\ RX \in {RX}
        BY <1>5, <2>1
      <4> QED
        BY <2>1, <2>3, <4>1, FinishFacts, Zenon
    <3>2. StreamInv' /\ (Streaming' <=> Streaming)
      BY <1>1, <1>17, <2>1, <3>1
    <3>3. RxArmed' /\ TxArmed'
      BY <2>1, <3>1, <3>2, Zenon DEF ArmInv, RxArmed, TxArmed
    <3> QED
      BY <3>1, <3>2, <3>3 DEF ArmInv
  <2> QED
    BY <1>22, <2>2, <2>3, Zenon DEF RxCheck
<1>23. CASE RxUnmask
  <2>1. /\ UNCHANGED <<irq_enabled, ier_tx, stream, tx>> /\ BH!Handling(RX)
        /\ ier_rx' = TRUE /\ BH!FinishHandler({})
    BY <1>23 DEF RxUnmask, txVars, InHandler
  <2>2. BHP!BHInv' /\ ~BH!Handling(TX)' /\ (Coming(TX) => Coming(TX)')
    BY <1>5, <2>1, FinishFacts, Zenon
  <2>3. StreamInv' /\ (Streaming' <=> Streaming)
    BY <1>1, <1>17, <2>1, <2>2, SMTT(30)
  <2>4. RxArmed' /\ TxArmed'
    BY <2>1, <2>2, <2>3, Zenon DEF ArmInv, RxArmed, TxArmed
  <2> QED
    BY <2>2, <2>3, <2>4 DEF ArmInv
<1>24. CASE TxRefill
  <2>1. UNCHANGED <<bh, irq_enabled, ier_rx>> /\ BH!Handling(TX) /\ step' \in {"drain", "decide"}
    BY <1>24, Zenon DEF TxRefill, rxVars
  <2>2. CASE tx = <<>> /\ refill
    <3>1. /\ demo_fill_tx(remaining, timer_markers)
          /\ refill' = (remaining' > 0 \/ timer_markers' > 0)
      BY <1>24, <2>2, Zenon DEF TxRefill
    <3>2. PICK n \in Nat : FillStep(n, remaining, timer_markers)
      BY <1>1, <3>1, FillFacts, SMTT(30)
    <3>3. Streaming' => Streaming
      BY <1>1, <3>2 DEF FillStep, Streaming
    <3>4. Streaming' => irq_enabled
      BY <3>3 DEF ArmInv, StreamInv
    <3>5. refill' \in BOOLEAN /\ (Streaming' => refill')
      BY <3>1, Zenon DEF Streaming
    <3> QED
      BY <1>1, <2>1, <3>1, <3>4, <3>5, ArmFill, Zenon
  <2>3. CASE ~(tx = <<>> /\ refill)
    <3>1. UNCHANGED <<ier_tx, stream, tx>>
      BY <1>24, <2>3, Zenon DEF TxRefill, txVars
    <3>2. BHP!BHInv' /\ \A b : (BH!Handling(b)' <=> BH!Handling(b)) /\ (Coming(b)' <=> Coming(b))
      BY <2>1, QuietFacts, Zenon
    <3>3. UNCHANGED <<refill, remaining, timer_markers>> /\ (Streaming' <=> Streaming)
      BY <3>1 DEF stream, Streaming
    <3>4. tx = <<>> => ~Streaming
      BY <2>3 DEF ArmInv, StreamInv
    <3>5. StreamInv'
      <4>1. /\ irq_enabled' \in BOOLEAN /\ refill' \in BOOLEAN /\ ier_rx' \in BOOLEAN
            /\ ier_tx' \in BOOLEAN /\ remaining' \in Nat /\ timer_markers' \in Nat
        BY <1>1, <2>1, <3>1, <3>3, SMTT(30)
      <4>2. Streaming' => irq_enabled' /\ refill'
        BY <2>1, <3>3 DEF ArmInv, StreamInv
      <4> QED
        BY <3>1, <3>3, <3>4, <4>1, <4>2, Zenon DEF StreamInv
    <3>6. RxArmed'
      BY <2>1, <3>2, SMTT(30) DEF ArmInv, RxArmed
    <3>7. TxArmed'
      BY <2>1, <3>1, <3>2, <3>3, SMTT(30) DEF ArmInv, TxArmed
    <3> QED
      BY <3>2, <3>5, <3>6, <3>7 DEF ArmInv
  <2> QED
    BY <2>2, <2>3
<1>25. CASE TxDrain
  <2>1. UNCHANGED <<bh, irq_enabled, ier_rx, ier_tx, stream>> /\ step' # "decide"
    BY <1>25, Zenon DEF TxDrain, DrainOne, rxVars, txVars, InHandler
  <2>2. tx' # <<>> => tx # <<>>
    BY <1>25, Zenon DEF TxDrain, DrainOne, CanDrain, txVars
  <2>3. ier_tx' \in BOOLEAN
    BY <1>1, <2>1
  <2> QED
    BY <2>1, <2>2, <2>3, ArmQuiet, SMTT(30)
<1>26. CASE TxDecide
  <2> DEFINE S == IF tx # <<>> /\ thr_idle THEN {TX} ELSE {}
  <2>1. /\ UNCHANGED <<irq_enabled, ier_rx, stream, tx>> /\ InHandler(TX, "decide")
        /\ ier_tx' = (tx # <<>>) /\ BH!FinishHandler(S)
    BY <1>26 DEF TxDecide, rxVars
  <2>2. BH!Handling(TX) /\ ~BH!Handling(RX)
    BY <1>5, <2>1 DEF InHandler
  <2>3. BHP!BHInv' /\ ~BH!Handling(TX)' /\ (Coming(RX) => Coming(RX)')
    <3> HIDE DEF S
    <3> QED
      BY <2>1, <2>2, FinishFacts, Zenon
  <2>4. ier_rx' \in BOOLEAN /\ ier_tx' \in BOOLEAN
    BY <1>1, <2>1, SMTT(30)
  <2>5. StreamInv' /\ (Streaming' <=> Streaming)
    BY <1>17, <2>1, <2>3, <2>4, SMTT(30)
  <2>6. tx = <<>> => ~Streaming
    BY <2>1 DEF ArmInv, StreamInv
  <2>7. RxArmed'
    BY <2>1, <2>3 DEF ArmInv, RxArmed
  <2>8. TxArmed'
    BY <2>1, <2>5, <2>6, Zenon DEF TxArmed
  <2> QED
    BY <2>3, <2>5, <2>7, <2>8, SMTT(30) DEF ArmInv
<1>27. CASE UNCHANGED vars
  BY <1>3, <1>27, SMTT(30) DEF vars, rxVars, txVars, handler
<1> QED
  BY <1>6, <1>7, <1>8, <1>9, <1>10, <1>11, <1>12, <1>13, <1>14, <1>15, <1>16, <1>18,
     <1>19, <1>20, <1>21, <1>22, <1>23, <1>24, <1>25, <1>26, <1>27, Zenon DEF Next

---------------------------------------------------------------------------
(* The invariant and what follows from it.                                 *)
INSTANCE FiniteSetTheorems

UartInv == BHP!BHInv /\ RxInv /\ TxInv /\ ThreadInv /\ ArmInv

\* The readers and the writers are finitely many, so they can be counted.
LEMMA ThreadsCounted == Counting
<1>1. HasLeast
  <2> SUFFICES ASSUME NEW T \in SUBSET Nat, T # {}
               PROVE  \E x \in T : \A y \in T : ~(y < x)
    BY DEF HasLeast
  <2>1. PICK x \in T : \A y \in T : ~(<<y, x>> \in OpToRel(<, Nat))
    BY NatLessThanWellFounded, WFMin, Zenon
  <2>2. \A y \in T : <<y, x>> \in OpToRel(<, Nat) <=> y < x
    BY DEF OpToRel
  <2> QED
    BY <2>1, <2>2, Zenon
<1>2. ASSUME NEW S, IsFiniteSet(S) PROVE Counted(S)
  <2>1. \A A \in SUBSET S : IsFiniteSet(A) /\ Cardinality(A) \in Nat
    BY <1>2, FS_Subset, FS_CardinalityType, SMTT(30)
  <2>2. ASSUME NEW A \in SUBSET S, NEW x \in S \ A
        PROVE  Cardinality(A \cup {x}) = Cardinality(A) + 1
    BY <2>1, FS_AddElement
  <2> QED
    BY <2>1, <2>2, Zenon DEF Counted
<1> QED
  BY <1>1, <1>2, UartAssumption, SMTT(30) DEF Counting

\* The driver at reset.
LEMMA UartStart ==
    ASSUME Init
    PROVE  UartInv
<1>1. BHP!BHInv
  <2>1. BHP!Init
    BY DEF Init, BH!Init, BHP!Init
  <2> QED
    BY <2>1, BHP!BHStart, SMTT(30)
<1>2. RxInv
  BY SMTT(30) DEF Init, RxInv, Within, Increasing
<1>3. TxInv
  BY UartAssumption, SMTT(30) DEF Init, TxInv, Within, Increasing
<1>4. ThreadInv
  <2>1. /\ \A t \in Reader : tstate[t] = "out"
        /\ \A t \in Writer : tstate[t] = "out"
    BY SMTT(30) DEF Init, Thread
  <2>2. Len(rx) \in Int /\ Room \in Int
    BY UartAssumption, SMTT(30) DEF Init, Room
  <2>3. Side(Reader, tstate, rx_wait, Len(rx), lost)
    BY <2>1, <2>2, SMTT(30) DEF Init, Side
  <2>4. Side(Writer, tstate, tx_wait, Room, lost)
    BY <2>1, <2>2, SMTT(30) DEF Init, Side
  <2> QED
    BY <2>3, <2>4, SMTT(30) DEF Init, ThreadInv
<1>5. StreamInv /\ RxArmed /\ TxArmed
  <2>1. ~Streaming
    BY DEF Init, Streaming
  <2> QED
    BY <2>1, Zenon DEF Init, StreamInv, RxArmed, TxArmed
<1> QED
  BY <1>1, <1>2, <1>3, <1>4, <1>5, SMTT(30) DEF UartInv, ArmInv

\* Every step keeps it.
LEMMA UartStep ==
    ASSUME UartInv, [Next]_vars
    PROVE  UartInv'
<1>1. BHP!BHInv /\ RxInv /\ TxInv /\ ThreadInv /\ ArmInv /\ StreamInv
  BY DEF UartInv, ArmInv
<1>2. RxInv'
  BY <1>1, RxMoves, RxKept, SMTT(30)
<1>3. TxInv'
  BY <1>1, TxMoves, TxKept, SMTT(30)
<1>4. ThreadInv'
  BY <1>1, ThreadsKept, ThreadsCounted, SMTT(30)
<1>5. BHP!BHInv' /\ ArmInv'
  BY <1>1, ArmKept, SMTT(30)
<1> QED
  BY <1>2, <1>3, <1>4, <1>5, SMTT(30) DEF UartInv

\* The inductive invariant holds in every state the driver can reach.
THEOREM UartInvariance == Spec => []UartInv
<1>1. Init => UartInv
  BY UartStart
<1>2. UartInv /\ [Next]_vars => UartInv'
  BY UartStep
<1> QED
  BY <1>1, <1>2, PTL DEF Spec

\* Receive interrupts are masked only while the RX bottom half, which unmasks
\* them or raises itself, is on its way (uart_irq_top,
\* uart_rx_run_bottom_half), however interrupts nest.
THEOREM InputStaysArmed == Spec => []RxArmed
<1>1. UartInv => RxArmed
  BY SMTT(30) DEF UartInv, ArmInv
<1> QED
  BY <1>1, UartInvariance, PTL

\* While output is queued or a stream has markers left, the transmit
\* interrupt is enabled or the TX bottom half is on its way
\* (uart_tx_run_bottom_half, uart_send, demo_fill_tx).
THEOREM OutputStaysArmed == Spec => []TxArmed
<1>1. UartInv => TxArmed
  BY SMTT(30) DEF UartInv, ArmInv
<1> QED
  BY <1>1, UartInvariance, PTL

\* Input is read in the order in which the device received it, by threads
\* from the ring and by polling callers (uart_recv, uart_rx_drain).
THEOREM InputInOrder == Spec => []RxInOrder
<1>1. UartInv => RxInOrder
  BY IncreasingParts, SMTT(30) DEF UartInv, RxInv, RxInOrder
<1> QED
  BY <1>1, UartInvariance, PTL

\* Output reaches the device in the order in which it was accepted, from
\* threads, polling callers and the stream (uart_send, uart_tx_try_drain_one).
THEOREM OutputInOrder == Spec => []TxInOrder
<1>1. ASSUME UartInv PROVE TxInOrder
  <2>1. /\ accepted \in Nat /\ lastSent \in Nat /\ tx \in Seq(Nat)
        /\ Within(lastSent, tx, accepted)
    BY <1>1, SMTT(30) DEF UartInv, TxInv
  <2>2. <<>> \in Seq(Nat) /\ Within(lastSent, <<>>, accepted)
    BY <2>1 DEF Within, Increasing
  <2>3. \A i \in 1..Len(tx), j \in 1..Len(<<>>) : tx[i] < <<>>[j]
    OBVIOUS
  <2>4. Increasing(<<lastSent>> \o tx)
    BY <2>1, <2>2, <2>3, IncreasingParts, Zenon
  <2> QED
    BY <2>4 DEF TxInOrder
<1> QED
  BY <1>1, UartInvariance, PTL

\* While a reader sleeps, every byte in the ring has a reader awake for it,
\* or one that was stopped after its wakeup (uart_recv, wait_queue_wake_one).
THEOREM BytesHaveReaders == Spec => []ByteHasReader
<1>1. UartInv => ByteHasReader
  <2>1. Awake(Reader) = AwakeIn(Reader, tstate)
    BY DEF Awake, AwakeIn
  <2>2. Asleep(Reader) # {} => \E t \in Reader : tstate[t] = "waiting"
    BY SMTT(30) DEF Asleep
  <2> QED
    BY <2>1, <2>2, SMTT(30) DEF UartInv, ThreadInv, Side, ByteHasReader
<1> QED
  BY <1>1, UartInvariance, PTL

\* While a writer sleeps, every free slot of the transmit ring has a writer
\* awake for it, or one that was stopped after its wakeup (uart_send).
THEOREM SlotsHaveWriters == Spec => []SlotHasWriter
<1>1. UartInv => SlotHasWriter
  <2>1. Awake(Writer) = AwakeIn(Writer, tstate)
    BY DEF Awake, AwakeIn
  <2>2. Asleep(Writer) # {} => \E t \in Writer : tstate[t] = "waiting"
    BY DEF Asleep
  <2> QED
    BY <2>1, <2>2 DEF UartInv, ThreadInv, Side, SlotHasWriter
<1> QED
  BY <1>1, UartInvariance, PTL
=============================================================================
