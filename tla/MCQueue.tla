------------------------------- MODULE MCQueue -------------------------------
(* Queue for TLC.                                                          *)
EXTENDS Queue, TLC

Symmetry == Permutations(Calls)

\* The operations that can wait, and the one that wakes them.
WaitingOps == {"send", "recv", "close"}
=============================================================================
