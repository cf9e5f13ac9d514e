------------------------------- MODULE RingBuf -------------------------------
(***************************************************************************)
(* The ring buffer of ringbuf.c, which the UART driver's two queues are:   *)
(* an array, the index of the next free cell, the index of the oldest      *)
(* character, and a count that tells a full ring from an empty one.        *)
(* Callers hold the IRQ lock, so a call is one step.  The null-pointer     *)
(* tests are left out: every ring is a static object.                      *)
(***************************************************************************)
EXTENDS Naturals, Sequences

CONSTANTS Char,
          Capacity,   \* RINGBUF_CAPACITY
          Fail        \* the return value -1

ASSUME RingAssumption ==
    /\ Capacity \in Nat \ {0}
    /\ Fail \notin Char \cup {0}

VARIABLES data, head, tail, count,
          ret         \* the last call's result: 0, Fail, or the popped *out

vars == <<data, head, tail, count, ret>>

Cell == 0..(Capacity - 1)

\* The cell after i.  The indices never pass Capacity, so the unsigned sum
\* does not wrap.
After(i) == (i + 1) % Capacity

ringbuf_is_empty == count = 0

ringbuf_is_full == count = Capacity

\* data need not be cleared: a ring that is used again keeps old characters.
ringbuf_init ==
    /\ head' = 0 /\ tail' = 0 /\ count' = 0 /\ ret' = 0
    /\ UNCHANGED data

\* A full ring takes the character over its oldest one.
ringbuf_push_Overwrite(c) ==
    /\ data' = [data EXCEPT ![head] = c]
    /\ head' = After(head)
    /\ count' = IF ringbuf_is_full THEN count ELSE count + 1
    /\ ret' = 0
    /\ UNCHANGED tail

ringbuf_push(c) ==
    IF ringbuf_is_full
    THEN ret' = Fail /\ UNCHANGED <<data, head, tail, count>>
    ELSE /\ data' = [data EXCEPT ![head] = c]
         /\ head' = After(head)
         /\ count' = count + 1
         /\ ret' = 0
         /\ UNCHANGED tail

ringbuf_pop ==
    IF ringbuf_is_empty
    THEN ret' = Fail /\ UNCHANGED <<data, head, tail, count>>
    ELSE /\ ret' = data[tail]
         /\ tail' = After(tail)
         /\ count' = count - 1
         /\ UNCHANGED <<data, head>>

Init ==
    /\ data \in [Cell -> Char]
    /\ head = 0 /\ tail = 0 /\ count = 0 /\ ret = 0

Next == ringbuf_init \/ ringbuf_pop \/ \E c \in Char : ringbuf_push(c)

Spec == Init /\ [][Next]_vars

---------------------------------------------------------------------------
\* Every variable has its type.
TypeOK ==
    /\ data \in [Cell -> Char]
    /\ head \in Cell /\ tail \in Cell
    /\ count \in 0..Capacity
    /\ ret \in Char \cup {0, Fail}

\* The three indices agree: the next free cell lies count cells after the
\* oldest character, around the end of the array.  Push and pop keep it
\* although each of them moves only one of the two indices.
IndicesAgree == head = (IF tail + count < Capacity THEN tail + count
                                                   ELSE tail + count - Capacity)

\* The i-th oldest character.
Nth(i) == data[IF tail + i <= Capacity THEN tail + i - 1 ELSE tail + i - 1 - Capacity]
Contents == [i \in 1..count |-> Nth(i)]

F == INSTANCE Fifo WITH q <- Contents

\* The ring is a FIFO queue: in every sequence of calls the characters come
\* out in the order they went in, none lost, none twice, and a call fails
\* exactly when the queue is full or empty, wherever the indices wrap.
IsFifo == F!Spec
=============================================================================
