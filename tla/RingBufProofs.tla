---------------------------- MODULE RingBufProofs ----------------------------
(***************************************************************************)
(* The ring buffer of ringbuf.c is a FIFO queue, for every capacity and    *)
(* every set of characters.                                                *)
(*                                                                         *)
(* The refinement maps the ring to the sequence Contents.  A push or a pop *)
(* acts on that sequence at one end only because the three indices agree,  *)
(* so IndicesAgree joins the type invariant as the inductive invariant.    *)
(***************************************************************************)
EXTENDS RingBuf, SequenceTheorems, TLAPS

RingInv == TypeOK /\ IndicesAgree

---------------------------------------------------------------------------
\* The index step of push and pop, without the modulo.
LEMMA AfterCell ==
    ASSUME NEW i \in Cell
    PROVE  After(i) = (IF i + 1 < Capacity THEN i + 1 ELSE 0) /\ After(i) \in Cell
<1>1. CASE i + 1 < Capacity
  BY <1>1, RingAssumption DEF Cell, After
<1>2. CASE i + 1 = Capacity
  BY <1>2, RingAssumption DEF Cell, After
<1>3. QED BY <1>1, <1>2, RingAssumption DEF Cell

\* The contents are a sequence of count characters.
LEMMA ContentsSeq ==
    ASSUME RingInv
    PROVE  /\ Contents \in Seq(Char) /\ Len(Contents) = count
           /\ \A i \in 1..count : Contents[i] = Nth(i)
<1>1. ASSUME NEW i \in 1..count PROVE Nth(i) \in Char
  <2>1. (IF tail + i <= Capacity THEN tail + i - 1 ELSE tail + i - 1 - Capacity) \in Cell
    BY RingAssumption DEF RingInv, TypeOK, Cell
  <2>2. QED BY <2>1 DEF RingInv, TypeOK, Nth
<1>2. count \in Nat
  BY RingAssumption DEF RingInv, TypeOK
<1>3. QED BY <1>1, <1>2 DEF Contents

\* An empty ring is the empty sequence.
LEMMA ContentsEmpty ==
    ASSUME RingInv PROVE Contents = <<>> <=> count = 0
BY ContentsSeq, EmptySeq DEF RingInv, TypeOK

\* The same in the state after a step.
ContentsFacts ==
    /\ Contents \in Seq(Char) /\ Len(Contents) = count
    /\ \A i \in 1..count : Contents[i] = Nth(i)
    /\ Contents = <<>> <=> count = 0

\* What Contents is in the state after a step.
LEMMA ContentsNext == RingInv' => ContentsFacts'
<1>1. RingInv => ContentsFacts
  BY ContentsSeq, ContentsEmpty DEF ContentsFacts
<1>2. QED BY <1>1, PTL

---------------------------------------------------------------------------
\* Every step keeps the types and the agreement of the indices.
LEMMA RingStep == RingInv /\ [Next]_vars => RingInv'
<1> SUFFICES ASSUME RingInv, [Next]_vars PROVE RingInv'
  OBVIOUS
<1> USE RingAssumption
<1>1. CASE ringbuf_init
  BY <1>1 DEF RingInv, TypeOK, IndicesAgree, ringbuf_init, Cell
<1>2. ASSUME NEW c \in Char, ringbuf_push(c) PROVE RingInv'
  <2>1. CASE count = Capacity
    BY <1>2, <2>1 DEF RingInv, TypeOK, IndicesAgree, ringbuf_push, ringbuf_is_full
  <2>2. CASE count # Capacity
    <3>1. /\ head' = (IF head + 1 < Capacity THEN head + 1 ELSE 0) /\ head' \in Cell
          /\ data' \in [Cell -> Char] /\ count' = count + 1 /\ ret' = 0 /\ tail' = tail
      BY <1>2, <2>2, AfterCell DEF RingInv, TypeOK, ringbuf_push, ringbuf_is_full
    <3>2. TypeOK'
      BY <2>2, <3>1 DEF RingInv, TypeOK
    <3>3. IndicesAgree'
      BY <2>2, <3>1 DEF RingInv, TypeOK, IndicesAgree, Cell
    <3>4. QED BY <3>2, <3>3 DEF RingInv
  <2>3. QED BY <2>1, <2>2
<1>3. CASE ringbuf_pop
  <2>1. CASE count = 0
    BY <1>3, <2>1 DEF RingInv, TypeOK, IndicesAgree, ringbuf_pop, ringbuf_is_empty
  <2>2. CASE count # 0
    <3>1. /\ tail' = (IF tail + 1 < Capacity THEN tail + 1 ELSE 0) /\ tail' \in Cell
          /\ ret' \in Char /\ count' = count - 1 /\ data' = data /\ head' = head
      BY <1>3, <2>2, AfterCell DEF RingInv, TypeOK, ringbuf_pop, ringbuf_is_empty
    <3>2. TypeOK'
      BY <2>2, <3>1 DEF RingInv, TypeOK
    <3>3. IndicesAgree'
      BY <2>2, <3>1 DEF RingInv, TypeOK, IndicesAgree, Cell
    <3>4. QED BY <3>2, <3>3 DEF RingInv
  <2>3. QED BY <2>1, <2>2
<1>4. CASE UNCHANGED vars
  BY <1>4 DEF vars, RingInv, TypeOK, IndicesAgree
<1>5. QED BY <1>1, <1>2, <1>3, <1>4 DEF Next

---------------------------------------------------------------------------
(* The steps of the ring are steps of the queue.                           *)
LEMMA PushIsPut ==
    ASSUME RingInv, RingInv', NEW c \in Char, ringbuf_push(c)
    PROVE  F!Put(c)
<1> USE RingAssumption
<1>1. Len(Contents) = count /\ Contents \in Seq(Char)
  BY ContentsSeq
<1>2. CASE count = Capacity
  <2>1. UNCHANGED <<data, tail, count>> /\ ret' = Fail
    BY <1>2 DEF ringbuf_push, ringbuf_is_full
  <2>2. Contents' = Contents
    BY <2>1 DEF Contents, Nth
  <2>3. QED BY <1>1, <1>2, <2>1, <2>2 DEF F!Put
<1>3. CASE count # Capacity
  <2>1. /\ data' = [data EXCEPT ![head] = c] /\ tail' = tail
        /\ count' = count + 1 /\ ret' = 0
    BY <1>3 DEF ringbuf_push, ringbuf_is_full
  <2>2. /\ Contents' \in Seq(Char) /\ Len(Contents') = count + 1
        /\ \A i \in 1..(count + 1) : Contents'[i] = Nth(i)'
    BY <2>1, ContentsNext DEF ContentsFacts
  <2>3. ASSUME NEW i \in 1..count PROVE Contents'[i] = Contents[i]
    <3> DEFINE x == IF tail + i <= Capacity THEN tail + i - 1 ELSE tail + i - 1 - Capacity
    <3>1. x \in Cell /\ x # head
      BY <1>3 DEF RingInv, TypeOK, IndicesAgree, Cell
    <3>2. Nth(i)' = data'[x] /\ Nth(i) = data[x]
      BY <2>1 DEF Nth
    <3>3. data'[x] = data[x]
      BY <2>1, <3>1 DEF RingInv, TypeOK
    <3>4. Contents[i] = Nth(i) /\ Contents'[i] = Nth(i)'
      BY <2>2, ContentsSeq DEF RingInv, TypeOK
    <3>5. QED BY <3>2, <3>3, <3>4
  <2>4. Contents'[count + 1] = c
    <3> SUFFICES ASSUME NEW k \in 1..(count + 1), k = count + 1
                 PROVE  Contents'[k] = c
      BY DEF RingInv, TypeOK
    <3>1. head = (IF tail + k <= Capacity THEN tail + k - 1 ELSE tail + k - 1 - Capacity)
      BY <1>3 DEF RingInv, TypeOK, IndicesAgree, Cell
    <3>2. Nth(k)' = data'[head]
      BY <2>1, <3>1 DEF Nth
    <3>3. data'[head] = c
      BY <2>1 DEF RingInv, TypeOK
    <3>4. QED BY <2>2, <3>2, <3>3
  <2>5. Contents' = Append(Contents, c)
    <3>1. Append(Contents, c) \in Seq(Char) /\ Len(Append(Contents, c)) = count + 1
      BY <1>1
    <3>2. \A i \in 1..(count + 1) : Contents'[i] = Append(Contents, c)[i]
      BY <1>1, <2>3, <2>4 DEF RingInv, TypeOK
    <3>3. QED BY <2>2, <3>1, <3>2, SeqEqual
  <2>6. QED BY <1>1, <1>3, <2>1, <2>5 DEF F!Put, RingInv, TypeOK
<1>4. QED BY <1>2, <1>3

\* ringbuf_pop takes the first character of the queue, or finds none.
LEMMA PopIsGet ==
    ASSUME RingInv, RingInv', ringbuf_pop PROVE F!Get
<1> USE RingAssumption
<1>1. Len(Contents) = count /\ Contents \in Seq(Char)
  BY ContentsSeq
<1>2. CASE count = 0
  <2>1. UNCHANGED <<data, tail, count>> /\ ret' = Fail
    BY <1>2 DEF ringbuf_pop, ringbuf_is_empty
  <2>2. Contents' = Contents
    BY <2>1 DEF Contents, Nth
  <2>3. QED BY <1>2, <2>1, <2>2, ContentsEmpty DEF F!Get
<1>3. CASE count # 0
  <2>1. /\ ret' = data[tail] /\ tail' = After(tail)
        /\ count' = count - 1 /\ data' = data
    BY <1>3 DEF ringbuf_pop, ringbuf_is_empty
  <2>2. tail' = (IF tail + 1 < Capacity THEN tail + 1 ELSE 0)
    BY <2>1, AfterCell DEF RingInv, TypeOK
  <2>3. /\ Contents' \in Seq(Char) /\ Len(Contents') = count - 1
        /\ \A i \in 1..(count - 1) : Contents'[i] = Nth(i)'
    BY <2>1, ContentsNext DEF ContentsFacts
  <2>4. /\ Contents # <<>> /\ Tail(Contents) \in Seq(Char)
        /\ Len(Tail(Contents)) = count - 1
        /\ \A i \in 1..(count - 1) : Tail(Contents)[i] = Contents[i + 1]
        /\ Head(Contents) = Contents[1]
    BY <1>1, <1>3, ContentsEmpty DEF RingInv, TypeOK
  <2>5. ASSUME NEW i \in 1..(count - 1) PROVE Contents'[i] = Tail(Contents)[i]
    <3>1. Contents[i + 1] = Nth(i + 1)
      BY ContentsSeq DEF RingInv, TypeOK
    <3>2. (IF tail' + i <= Capacity THEN tail' + i - 1 ELSE tail' + i - 1 - Capacity)
           = (IF tail + (i + 1) <= Capacity THEN tail + (i + 1) - 1
              ELSE tail + (i + 1) - 1 - Capacity)
      BY <2>2 DEF RingInv, TypeOK, Cell
    <3>3. Nth(i)' = Nth(i + 1)
      BY <2>1, <3>2 DEF Nth
    <3>4. QED BY <2>3, <2>4, <3>1, <3>3
  <2>6. Contents' = Tail(Contents)
    BY <2>3, <2>4, <2>5, SeqEqual
  <2>7. ret' = Head(Contents)
    <3>1. Contents[1] = Nth(1)
      BY <1>3, ContentsSeq DEF RingInv, TypeOK
    <3>2. Nth(1) = data[tail]
      BY DEF Nth, RingInv, TypeOK, Cell
    <3>3. QED BY <2>1, <2>4, <3>1, <3>2
  <2>8. QED BY <2>4, <2>6, <2>7 DEF F!Get
<1>4. QED BY <1>2, <1>3

---------------------------------------------------------------------------
\* In every reachable state the two indices and the count agree and stay
\* inside the array: push never writes, and pop never reads, past its end.
THEOREM RingInvariance == Spec => [](TypeOK /\ IndicesAgree)
<1>1. Init => RingInv
  BY RingAssumption DEF Init, RingInv, TypeOK, IndicesAgree, Cell
<1>2. RingInv => TypeOK /\ IndicesAgree
  BY DEF RingInv
<1>3. QED BY <1>1, <1>2, RingStep, PTL DEF Spec

\* The ring implements the queue: ringbuf_push and ringbuf_pop return what a
\* FIFO queue of the same capacity returns, in every sequence of calls.
THEOREM RingIsFifo == Spec => IsFifo
<1>1. Init => RingInv /\ F!Init
  <2>1. Init => RingInv
    BY RingAssumption DEF Init, RingInv, TypeOK, IndicesAgree, Cell
  <2>2. Init => F!Init
    BY <2>1, ContentsEmpty DEF Init, F!Init
  <2>3. QED BY <2>1, <2>2
<1>2. RingInv /\ RingInv' /\ [Next]_vars => [F!Next]_<<Contents, ret>>
  <2> SUFFICES ASSUME RingInv, RingInv', [Next]_vars PROVE [F!Next]_<<Contents, ret>>
    OBVIOUS
  <2>1. CASE ringbuf_init
    <3>1. count' = 0 /\ ret' = 0
      BY <2>1 DEF ringbuf_init
    <3>2. Contents' = <<>>
      BY <3>1, ContentsNext DEF ContentsFacts
    <3>3. QED BY <3>1, <3>2 DEF F!Next, F!Reset
  <2>2. CASE ringbuf_pop
    BY <2>2, PopIsGet DEF F!Next
  <2>3. ASSUME NEW c \in Char, ringbuf_push(c) PROVE F!Next
    BY <2>3, PushIsPut DEF F!Next
  <2>4. CASE UNCHANGED vars
    BY <2>4 DEF vars, Contents, Nth
  <2>5. QED BY <2>1, <2>2, <2>3, <2>4 DEF Next
<1>3. QED BY <1>1, <1>2, RingStep, PTL DEF Spec, IsFifo, F!Spec
=============================================================================
