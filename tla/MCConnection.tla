---------------------------- MODULE MCConnection ----------------------------
(* Connection for TLC.                                                     *)
EXTENDS Connection, TLC

CONSTANTS c1, c2, c3

\* Calls that may be anything are interchangeable.
Symmetry == Permutations(Calls)

\* The operations of the sending direction, both ways of closing, and pausing.
WriteSide ==
    [c \in Calls |-> {"send", "send_timeout", "write", "flush", "shutdown_write", "close",
                      "pause", "resume"}]

\* Two calls that may block, and what interrupts them.  The calls have
\* different operations, which is what symmetry would have saved.
Blocking ==
    (c1 :> {"receive", "send"}) @@ (c2 :> {"receive", "send"})
    @@ (c3 :> {"read_timeout", "close", "shutdown_read"})
=============================================================================
