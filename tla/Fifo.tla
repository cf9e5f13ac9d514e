-------------------------------- MODULE Fifo --------------------------------
(***************************************************************************)
(* What a bounded queue of characters promises its users (ringbuf.h): the  *)
(* characters come out in the order they went in, each once, and a put or  *)
(* a get that cannot be done fails and changes nothing.                    *)
(***************************************************************************)
EXTENDS Naturals, Sequences

CONSTANTS Char, Capacity, Fail

VARIABLES q,    \* the queued characters, oldest first
          ret   \* what the last call returned: 0, a character or Fail

Init == q = <<>> /\ ret = 0

Reset == q' = <<>> /\ ret' = 0

Put(c) ==
    \/ Len(q) < Capacity /\ q' = Append(q, c) /\ ret' = 0
    \/ Len(q) = Capacity /\ ret' = Fail /\ UNCHANGED q

Get ==
    \/ q # <<>> /\ q' = Tail(q) /\ ret' = Head(q)
    \/ q = <<>> /\ ret' = Fail /\ UNCHANGED q

Next == Reset \/ Get \/ \E c \in Char : Put(c)

Spec == Init /\ [][Next]_<<q, ret>>
=============================================================================
