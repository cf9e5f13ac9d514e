------------------------------- MODULE MCBoot -------------------------------
(* Boot for TLC: images that hold a CR, that end in zeros, and a kernel    *)
(* longer than META, whose copy overlaps its source.                       *)
EXTENDS Boot

MCImages ==
  {[kernel |-> <<13, 5>>, initrd |-> <<6, 0>>],
   [kernel |-> <<0, 0>>, initrd |-> <<0>>],
   [kernel |-> <<5, 14, 6, 1, 2>>, initrd |-> <<13, 0>>]}
MCChanges == {0, 1, 4, 7, 8, 9, 10, 12, 13, 14, 15}
=============================================================================
