--------------------------- MODULE MCPyConnection ---------------------------
(* PyConnection for TLC.                                                   *)
EXTENDS PyConnection, TLC

CONSTANT PyOps      \* the operations that the calls may be

PyCallsAndTasks == PyCalls \cup {Task(c) : c \in PyCalls}
PyAndTaskOps ==
    [c \in PyCallsAndTasks |-> IF c \in PyCalls THEN PyOps ELSE {"close", "shutdown_write"}]

\* The guarded methods, a receive beside them, and pause.
Guarding == {"send", "send_timeout", "write", "shutdown_write", "close", "receive", "pause", "resume"}

Symmetry == Permutations(PyCalls)
=============================================================================
