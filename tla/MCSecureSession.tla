--------------------------- MODULE MCSecureSession ---------------------------
(* SecureSession for TLC: calls that may be the same are interchangeable,  *)
(* and so are the ends where both are used alike.                          *)
EXTENDS SecureSession, TLC

CONSTANTS client, server, Senders

Symmetry == Permutations(Calls) \cup Permutations(Sessions)
AnyUse   == [c \in Calls |-> Sessions \X AllOps]

OneWaySymmetry == Permutations(Senders) \cup Permutations(Calls \ Senders)
OneWay == [c \in Calls |-> IF c \in Senders THEN {<<client, "send">>}
                                            ELSE {<<server, "receive">>}]
=============================================================================
