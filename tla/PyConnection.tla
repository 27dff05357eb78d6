---------------------------- MODULE PyConnection ----------------------------
(***************************************************************************)
(* Connection, ReadHalf and WriteHalf of the Python binding                *)
(* (crates/taunicorn-python/src/lib.rs) over the ConnectionCore of module  *)
(* Connection.                                                             *)
(*                                                                         *)
(* The wrapper keeps the native connection in a slot.  Each asynchronous   *)
(* method clones the slot's Arc into a tokio task and returns an asyncio   *)
(* future.  Cancelling that future drops the task at its next await; the   *)
(* guard of a write then spawns a cleanup task of its own.  into_split and *)
(* the secure upgrade take the connection out of the slot, if no task has  *)
(* a clone of the Arc left.                                                *)
(*                                                                         *)
(* A step of the binding is a step of Connection, or leaves it alone.  The *)
(* tasks are calls of Connection as well: Task(c) cleans up after c.  The  *)
(* GIL only serialises the steps of Python threads; they are left free to  *)
(* interleave, as on a free-threaded build.                                *)
(***************************************************************************)
EXTENDS Connection

CONSTANT PyCalls    \* the calls made by Python code

Task(c) == <<"cleanup", c>>

ASSUME PyCallsAssumption ==
    /\ Calls = PyCalls \cup {Task(c) : c \in PyCalls}
    /\ \A c \in PyCalls : Task(c) \notin PyCalls /\ Ops[Task(c)] = {"close", "shutdown_write"}

VARIABLES
    slot,      \* ConnectionSlot; what follows "upgrading" is module Handshake
    via,       \* via[c]: the object c was called on
    future,    \* future[c]: its asyncio future
    armed,     \* the calls whose guard has not been completed or dropped
    after      \* history: after[c] are the calls known as cancelled when c was made

pyVars  == <<slot, via, future, armed, after>>
allVars == <<vars, pyVars>>

HalfOps == {"receive", "send", "write", "flush", "shutdown_read", "shutdown_write"}

\* The methods with a CloseConnectionUnlessCompleted, on a half with a
\* ShutdownWriteUnlessCompleted.
GuardedOps == SendOps \cup {"shutdown_write", "close"}

PyTypeOK ==
    /\ slot \in {"plain", "upgrading", "consumed"}
    /\ via \in [PyCalls -> {"none", "wrapper", "half"}]
    /\ future \in [PyCalls -> {"none", "pending", "cancelled", "delivered"}]
    /\ armed \in SUBSET PyCalls
    /\ after \in [PyCalls -> SUBSET PyCalls]

PyInit ==
    /\ Init
    /\ slot = "plain"
    /\ via = [c \in PyCalls |-> "none"]
    /\ future = [c \in PyCalls |-> "none"]
    /\ armed = {}
    /\ after = [c \in PyCalls |-> {}]

-----------------------------------------------------------------------------
(* Calls and their futures.                                                *)

\* A method of the wrapper, or of the halves.  pause and resume are
\* synchronous; every other method returns a future.
PyCall(c) ==
    /\ BeginEmpty(c) \/ Begin(c)
    /\ \/ slot = "plain" /\ via' = [via EXCEPT ![c] = "wrapper"]
       \/ slot = "consumed" /\ op'[c] \in HalfOps /\ via' = [via EXCEPT ![c] = "half"]
    /\ future' = [future EXCEPT ![c] = IF op'[c] \in {"pause", "resume"} THEN "none" ELSE "pending"]
    /\ armed' = armed \cup {d \in {c} : op'[d] \in GuardedOps}
    /\ after' = [after EXCEPT ![c] = {d \in PyCalls : future[d] = "cancelled"}]
    /\ UNCHANGED slot

\* The future is cancelled, perhaps after its task has finished.
PyCancel(c) ==
    /\ future[c] = "pending"
    /\ future' = [future EXCEPT ![c] = "cancelled"]
    /\ UNCHANGED <<vars, slot, via, armed, after>>

\* tokio drops the task of a cancelled future at the await it has reached.
DropTask(c) == future[c] = "cancelled" /\ DropFuture(c) /\ UNCHANGED pyVars

\* Fault: a half is cleaned up like the wrapper.
CleanupCloses(c) == "close"

\* What the guard of c spawns.
Cleanup(c) == IF via[c] = "wrapper" THEN "close" ELSE "shutdown_write"

\* Fault: completed() is called before the operation is awaited.
EndGuardedEarly(c) ==
    /\ c \in armed /\ pc[c] = "done"
    /\ armed' = armed \ {c}
    /\ UNCHANGED <<vars, slot, via, future, after>>

\* The guard goes after the operation it watches: completed() if the result
\* is Ok, or else the cleanup task.
EndGuarded(c) ==
    /\ c \in armed /\ pc[c] = "done"
    /\ armed' = armed \ {c}
    /\ \/ result[c] = "ok" /\ UNCHANGED vars
       \/ result[c] # "ok" /\ Begin(Task(c)) /\ op'[Task(c)] = Cleanup(c)
    /\ UNCHANGED <<slot, via, future, after>>

\* The event loop hands the result to a future nobody has cancelled.
Deliver(c) ==
    /\ future[c] = "pending" /\ pc[c] = "done" /\ c \notin armed
    /\ future' = [future EXCEPT ![c] = "delivered"]
    /\ UNCHANGED <<vars, slot, via, armed, after>>

-----------------------------------------------------------------------------
(* The slot.                                                               *)

\* c, its guard or its cleanup has a clone of the wrapper's Arc.
InProgressPy(c) == c \in armed \/ InProgress(c) \/ InProgress(Task(c))
Holders == {c \in PyCalls : via[c] = "wrapper" /\ InProgressPy(c)}

\* Fault: cleanups are not counted as users of the connection.
TakePlainDetached(next) ==
    /\ slot = "plain" /\ \A c \in PyCalls : via[c] = "wrapper" => c \notin armed /\ ~InProgress(c)
    /\ slot' = next
    /\ UNCHANGED <<vars, via, future, armed, after>>

\* Fault: the new owner gets a clone of the Arc.
TakePlainShares(next) ==
    /\ slot = "plain"
    /\ slot' = next
    /\ UNCHANGED <<vars, via, future, armed, after>>

\* take_plain: Arc::try_unwrap succeeds for the last holder only.
TakePlain(next) ==
    /\ slot = "plain" /\ Holders = {}
    /\ slot' = next
    /\ UNCHANGED <<vars, via, future, armed, after>>

IntoSplit   == TakePlain("consumed")
BeginSecure == TakePlain("upgrading")

-----------------------------------------------------------------------------
\* What tokio does for a call and its cleanup without anybody's help.
PyRun(c) ==
    \/ (Run(c) \/ Run(Task(c))) /\ UNCHANGED pyVars
    \/ DropTask(c) \/ EndGuarded(c)

PyNext ==
    \/ \E c \in PyCalls : \/ PyCall(c) \/ PyCancel(c) \/ Deliver(c) \/ PyRun(c)
                          \/ TimesOut(c) /\ UNCHANGED pyVars
    \/ Peer /\ UNCHANGED pyVars
    \/ IntoSplit \/ BeginSecure

PySpec == PyInit /\ [][PyNext]_allVars

-----------------------------------------------------------------------------
(* Properties.                                                             *)

Settled(c) == pc[c] = "done" /\ ~InProgressPy(c)

\* Once the cleanup after a send that stopped inside its buffer, cancelled or
\* failed, is through, its direction is marked shut down and, unless the
\* connection was split, the connection closed ("a prefix of the buffer may
\* already have been written", Connection.send).
TornSendSealed ==
    \A c \in PyCalls :
        Settled(c) /\ op[c] \in SendOps /\ result[c] # "ok" /\ OnWire(c) =>
            closed \/ (via[c] = "half" /\ write_shutdown)

\* From the split on only a transport failure closes the connection: no late
\* cleanup of a call made on the wrapper reaches the halves, and a cancelled
\* send of the WriteHalf leaves the ReadHalf its direction
\* (ShutdownWriteUnlessCompleted, take_plain).
SplitOutlivesWriter ==
    [][slot = "consumed" /\ ~closed /\ closed' => peerGone]_allVars

\* The upgrade gets a connection that nobody else uses any more: from then on
\* no plain call, and no cleanup after one that Python has given up, reads a
\* byte of the handshake, writes into it or changes the connection's state
\* ("cannot secure-upgrade Connection while an async operation is still
\* pending").  What the peer does is free.
UpgradeOwnsConnection ==
    [][slot = "upgrading" =>
          /\ UNCHANGED <<flagVars, coreVars, gateVars, wire, fin>>
          /\ inbound' >= inbound]_allVars

\* A WriteHalf send that has begun to write is only cut short by its own
\* cancellation or by the transport: the cleanup after another send, even one
\* cancelled while it waited for the gate, waits its turn.
HalfSendsWhole ==
    \A c \in PyCalls :
        via[c] = "half" /\ op[c] = "send" /\ pc[c] = "done" /\ OnWire(c) =>
            result[c] \in {"ok", "dropped"} \/ peerGone

\* "Closing the connection on cancellation prevents a blind retry of the
\* complete buffer from duplicating bytes": a send begun after the
\* cancellation of one that had written a prefix does not write.
NoBlindRetry ==
    \A d \in PyCalls : \A c \in after[d] :
        op[c] \in SendOps /\ result[c] = "dropped" /\ OnWire(c) => ~OnWire(d)
=============================================================================
