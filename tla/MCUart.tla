------------------------------- MODULE MCUart -------------------------------
(* Model-checking instances of Uart.                                        *)
EXTENDS Uart, TLC

Symmetry == Permutations(Reader) \cup Permutations(Writer)
=============================================================================
