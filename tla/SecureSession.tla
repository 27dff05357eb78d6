---------------------------- MODULE SecureSession ----------------------------
(***************************************************************************)
(* An established secure session between two processes: SecureConnection   *)
(* of crates/taunicorn/src/security.rs (sequence numbers, framing) under   *)
(* the SecureSession of crates/taunicorn-python/src/security.rs (gates and *)
(* the cancellation token that makes every failure terminal).              *)
(*                                                                         *)
(* Each end is used by concurrent asyncio calls, each a task on tokio and  *)
(* a Python future.  Places of a call:                                     *)
(*   new    not called yet             header  awaiting the frame's header *)
(*   poll   first poll at the gate     more    starting the next read      *)
(*   lock   awaiting its gate          body    awaiting the frame's body   *)
(*   open   ensure_open                unwind  dropping the armed guard    *)
(*   armed  drop guard armed           release dropping the gate           *)
(*   write  nothing written yet        closing in inner.close()            *)
(*   half   half a frame written       done    the Rust future is gone     *)
(*                                                                         *)
(* A frame travels as two halves, which is enough to tear it.  The message *)
(* of a send is the identity of its call.  The transport is the Connection *)
(* module seen from here: ordered, failing once either end is closed.  The *)
(* inner mutexes of SecureConnection are never contended under the gates.  *)
(***************************************************************************)
EXTENDS Naturals, Sequences, FiniteSets

CONSTANTS Calls,     \* the API calls made on either end
          Sessions,  \* the two ends: they differ only in their traffic keys
          Uses,      \* Uses[c]: what call c may be, on which end
          MaxSeq     \* bound: stands for u64::MAX, the last sequence number

Other(s) == CHOOSE t \in Sessions : t # s
IoOps    == {"send", "receive"}
AllOps   == IoOps \cup {"close", "abort", "pause", "resume", "oversized"}

\* Both key confirmations of the handshake used sequence number 0.
FirstSeq == 1

ASSUME ConstantsAssumption ==
    /\ \E a, b \in Sessions : a # b /\ Sessions = {a, b}
    /\ MaxSeq \in Nat /\ MaxSeq > FirstSeq
    /\ IsFiniteSet(Calls) /\ Uses \in [Calls -> SUBSET (Sessions \X AllOps)]

VARIABLES
    cancel,             \* cancel[s]: the token of end s is cancelled
    closed, paused,     \* the flags of its Connection
    sequence,           \* sequence[s][d]: DirectionState.sequence, d in IoOps
    queued, ahead,      \* calls that hold or await a gate; the earlier ones
    pc, on, op, result,
    future,             \* the asyncio future of the call
    wire,               \* wire[s]: the halves that s has written
    taken,              \* taken[s]: how many halves of its peer s has read
    received,           \* received[s]: the messages s has decrypted
    late                \* history: calls begun after their session had ended

connVars == <<closed, paused>>
gateVars == <<queued, ahead>>
dataVars == <<sequence, wire, taken, received>>
vars == <<cancel, connVars, gateVars, pc, on, op, result, future, dataVars, late>>

Places  == {"new", "poll", "lock", "open", "armed", "write", "half", "header",
            "more", "body", "unwind", "release", "closing", "done"}
Failures == {"closed", "refused", "exhausted", "failed", "eof", "rejected", "dropped"}
Results == Failures \cup {"none", "ok", "toolarge"}
Half    == [call : Calls, sequence : 0 .. MaxSeq, part : {1, 2}]

TypeOK ==
    /\ cancel \in [Sessions -> BOOLEAN]
    /\ closed \in [Sessions -> BOOLEAN] /\ paused \in [Sessions -> BOOLEAN]
    /\ sequence \in [Sessions -> [IoOps -> 0 .. MaxSeq]]
    /\ queued \in SUBSET Calls /\ ahead \in [Calls -> SUBSET Calls]
    /\ pc \in [Calls -> Places]
    /\ on \in [Calls -> Sessions \cup {"none"}] /\ op \in [Calls -> AllOps \cup {"none"}]
    /\ result \in [Calls -> Results]
    /\ future \in [Calls -> {"none", "pending", "cancelling", "cancelled"}]
    /\ wire \in [Sessions -> Seq(Half)]
    /\ taken \in [Sessions -> Nat]
    /\ received \in [Sessions -> Seq(Calls)]
    /\ late \in SUBSET Calls

Init ==
    /\ cancel = [s \in Sessions |-> FALSE]
    /\ closed = [s \in Sessions |-> FALSE] /\ paused = [s \in Sessions |-> FALSE]
    /\ sequence = [s \in Sessions |-> [d \in IoOps |-> FirstSeq]]
    /\ queued = {} /\ ahead = [c \in Calls |-> {}]
    /\ pc = [c \in Calls |-> "new"]
    /\ on = [c \in Calls |-> "none"] /\ op = [c \in Calls |-> "none"]
    /\ result = [c \in Calls |-> "none"]
    /\ future = [c \in Calls |-> "none"]
    /\ wire = [s \in Sessions |-> <<>>]
    /\ taken = [s \in Sessions |-> 0]
    /\ received = [s \in Sessions |-> <<>>]
    /\ late = {}

-----------------------------------------------------------------------------
Goto(c, place) == pc' = [pc EXCEPT ![c] = place]

SameGate(c, d) == on[c] = on[d] /\ op[c] = op[d]

Join(c) ==
    /\ queued' = queued \cup {c}
    /\ ahead' = [ahead EXCEPT ![c] = {d \in queued : SameGate(c, d)}]

Leave(c) ==
    /\ queued' = queued \ {c}
    /\ ahead' = [d \in Calls |-> IF d = c THEN {} ELSE ahead[d] \ {c}]

\* The task ends with r while no drop guard is armed.
Return(c, r) ==
    /\ Goto(c, "done")
    /\ result' = [result EXCEPT ![c] = r]
    /\ Leave(c)

\* The task ends with r and its drop guard is still armed.
Unwind(c, r) ==
    /\ Goto(c, "unwind")
    /\ result' = [result EXCEPT ![c] = r]
    /\ UNCHANGED gateVars

Cancel(s) == cancel' = [cancel EXCEPT ![s] = TRUE]

\* The session has visibly ended: close() or abort() was called on it, or one
\* of its calls failed (after a cancelled one, once the callback has run).
Ended(s) ==
    \E d \in Calls : on[d] = s /\ (\/ op[d] \in {"close", "abort"}
                                   \/ /\ pc[d] = "done" /\ result[d] \in Failures
                                      /\ future[d] # "cancelling")

-----------------------------------------------------------------------------
(* Calling an operation.                                                   *)

\* send() refuses a plaintext over MAX_PLAINTEXT_SIZE before it makes a future.
BeginOversized(c) ==
    /\ pc[c] = "new" /\ \E s \in Sessions : <<s, "oversized">> \in Uses[c]
    /\ op' = [op EXCEPT ![c] = "oversized"]
    /\ result' = [result EXCEPT ![c] = "toolarge"]
    /\ Goto(c, "done")
    /\ UNCHANGED <<cancel, connVars, gateVars, on, future, dataVars, late>>

Begin(c) ==
    /\ pc[c] = "new"
    /\ \E s \in Sessions, o \in IoOps \cup {"close", "abort"} :
          /\ <<s, o>> \in Uses[c]
          /\ on' = [on EXCEPT ![c] = s]
          /\ op' = [op EXCEPT ![c] = o]
          /\ late' = late \cup {d \in {c} : Ended(s)}
          /\ \/ /\ o \in IoOps /\ Goto(c, "poll")
                /\ future' = [future EXCEPT ![c] = "pending"]
                /\ UNCHANGED cancel
             \/ /\ o = "close" /\ Cancel(s) /\ Goto(c, "closing")
                /\ future' = [future EXCEPT ![c] = "pending"]
             \/ /\ o = "abort" /\ Cancel(s) /\ Goto(c, "done")
                /\ UNCHANGED future
    /\ UNCHANGED <<connVars, gateVars, result, dataVars>>

\* Connection.pause() and resume() stay available after the upgrade.
BeginPause(c) ==
    /\ pc[c] = "new"
    /\ \E s \in Sessions, o \in {"pause", "resume"} :
          /\ <<s, o>> \in Uses[c]
          /\ on' = [on EXCEPT ![c] = s]
          /\ op' = [op EXCEPT ![c] = o]
          /\ paused' = [paused EXCEPT ![s] = IF closed[s] THEN @ ELSE o = "pause"]
    /\ Goto(c, "done")
    /\ UNCHANGED <<cancel, closed, gateVars, result, future, dataVars, late>>

CloseInner(c) ==
    /\ pc[c] = "closing"
    /\ closed' = [closed EXCEPT ![on[c]] = TRUE]
    /\ Return(c, "ok")
    /\ UNCHANGED <<cancel, paused, on, op, future, dataVars, late>>

-----------------------------------------------------------------------------
(* Entering a send or a receive of the binding.                            *)

\* The biased select! looks at the token first, then joins the gate's queue.
GatePoll(c) ==
    /\ pc[c] = "poll"
    /\ \/ cancel[on[c]] /\ Return(c, "closed")
       \/ ~cancel[on[c]] /\ Goto(c, "lock") /\ Join(c) /\ UNCHANGED result
    /\ UNCHANGED <<cancel, connVars, on, op, future, dataVars, late>>

\* The gate may be granted although the token was cancelled after the poll.
GateWait(c) ==
    /\ pc[c] = "lock"
    /\ \/ cancel[on[c]] /\ Return(c, "closed")
       \/ ahead[c] = {} /\ Goto(c, "open") /\ UNCHANGED <<result, gateVars>>
    /\ UNCHANGED <<cancel, connVars, on, op, future, dataVars, late>>

EnsureOpen(c) ==
    /\ pc[c] = "open"
    /\ \/ (cancel[on[c]] \/ closed[on[c]]) /\ Return(c, "closed")
       \/ ~cancel[on[c]] /\ ~closed[on[c]] /\ Goto(c, "armed") /\ UNCHANGED <<result, gateVars>>
    /\ UNCHANGED <<cancel, connVars, on, op, future, dataVars, late>>

\* ensure_read_available / ensure_write_available of the Connection.
Refused(s) == closed[s] \/ paused[s]

\* Fault: the sequence number is advanced unchecked.
ArmedUnchecked(c) ==
    /\ pc[c] = "armed"
    /\ \/ cancel[on[c]] /\ Unwind(c, "closed")
       \/ ~cancel[on[c]] /\ Refused(on[c]) /\ Unwind(c, "refused")
       \/ /\ ~cancel[on[c]] /\ ~Refused(on[c])
          /\ Goto(c, IF op[c] = "send" THEN "write" ELSE "header")
          /\ UNCHANGED <<result, gateVars>>
    /\ UNCHANGED <<cancel, connVars, on, op, future, dataVars, late>>

\* The first poll of inner.send / inner.receive, up to the OS operation: a
\* send gives up on an exhausted sequence before it encrypts.
Armed(c) ==
    LET s == on[c]
        exhausted == op[c] = "send" /\ sequence[s]["send"] = MaxSeq IN
    /\ pc[c] = "armed"
    /\ \/ cancel[s] /\ Unwind(c, "closed")
       \/ ~cancel[s] /\ exhausted /\ Unwind(c, "exhausted")
       \/ ~cancel[s] /\ ~exhausted /\ Refused(s) /\ Unwind(c, "refused")
       \/ /\ ~cancel[s] /\ ~exhausted /\ ~Refused(s)
          /\ Goto(c, IF op[c] = "send" THEN "write" ELSE "header")
          /\ UNCHANGED <<result, gateVars>>
    /\ UNCHANGED <<cancel, connVars, on, op, future, dataVars, late>>

Awaiting == {"write", "half", "header", "body"}

\* The cancellation branch of the second select!.
IoCancelled(c) ==
    /\ pc[c] \in Awaiting /\ cancel[on[c]]
    /\ Unwind(c, "closed")
    /\ UNCHANGED <<cancel, connVars, on, op, future, dataVars, late>>

\* The OS operation is interrupted by close, or a write meets a closed peer:
\* Connection::fail_connection.
IoFails(c) ==
    /\ pc[c] \in Awaiting
    /\ closed[on[c]] \/ (op[c] = "send" /\ closed[Other(on[c])])
    /\ closed' = [closed EXCEPT ![on[c]] = TRUE]
    /\ Unwind(c, "failed")
    /\ UNCHANGED <<cancel, paused, on, op, future, dataVars, late>>

\* The OS may report a closed peer to a read as an error, not as its end.
ReadReset(c) ==
    /\ pc[c] \in {"header", "body"} /\ closed[Other(on[c])]
    /\ closed' = [closed EXCEPT ![on[c]] = TRUE]
    /\ Unwind(c, "failed")
    /\ UNCHANGED <<cancel, paused, on, op, future, dataVars, late>>

-----------------------------------------------------------------------------
(* SecureConnection::send: the frame is written with the current sequence  *)
(* number, which is advanced only when all of it was handed over.          *)

Piece(c, n) == [call |-> c, sequence |-> sequence[on[c]]["send"], part |-> n]

WriteHalf(c) ==
    /\ pc[c] = "write" /\ ~closed[Other(on[c])]
    /\ wire' = [wire EXCEPT ![on[c]] = Append(@, Piece(c, 1))]
    /\ Goto(c, "half")
    /\ UNCHANGED <<cancel, connVars, gateVars, on, op, result, future, sequence, taken, received, late>>

\* The rest is written; the guard is disarmed and the gate released.
WriteRest(c) ==
    /\ pc[c] = "half" /\ ~closed[Other(on[c])]
    /\ wire' = [wire EXCEPT ![on[c]] = Append(@, Piece(c, 2))]
    /\ sequence' = [sequence EXCEPT ![on[c]]["send"] = @ + 1]
    /\ Return(c, "ok")
    /\ UNCHANGED <<cancel, connVars, on, op, future, taken, received, late>>

-----------------------------------------------------------------------------
(* SecureConnection::receive.                                              *)

Stream(s) == wire[Other(s)]
Readable(s) == taken[s] < Len(Stream(s))

ReadHeader(c) ==
    /\ pc[c] = "header" /\ Readable(on[c])
    /\ taken' = [taken EXCEPT ![on[c]] = @ + 1]
    /\ Goto(c, "more")
    /\ UNCHANGED <<cancel, connVars, gateVars, on, op, result, future, sequence, wire, received, late>>

\* read_exact calls Connection::receive again for the body.
ReadMore(c) ==
    /\ pc[c] = "more"
    /\ \/ Refused(on[c]) /\ Unwind(c, "refused")
       \/ ~Refused(on[c]) /\ Goto(c, "body") /\ UNCHANGED <<result, gateVars>>
    /\ UNCHANGED <<cancel, connVars, on, op, future, dataVars, late>>

\* What was read is one frame and carries the next sequence number; a torn
\* or misplaced frame fails its length, version or authentication check.
Accepts(s, header, body) ==
    /\ header.part = 1 /\ body.part = 2 /\ header.call = body.call
    /\ header.sequence = sequence[s]["receive"]

\* Fault: read_exact is satisfied with a short read.
ReadBodyShort(c) ==
    /\ pc[c] = "body"
    /\ received' = [received EXCEPT ![on[c]] = Append(@, Stream(on[c])[taken[on[c]]].call)]
    /\ sequence' = [sequence EXCEPT ![on[c]]["receive"] = @ + 1]
    /\ Return(c, "ok")
    /\ UNCHANGED <<cancel, connVars, on, op, future, wire, taken, late>>

\* An accepted message advances the sequence, unless it is the last one.
ReadBody(c) ==
    LET s      == on[c]
        header == Stream(s)[taken[s]]
        body   == Stream(s)[taken[s] + 1]
        next   == sequence[s]["receive"] + 1 IN
    /\ pc[c] = "body" /\ Readable(s)
    /\ taken' = [taken EXCEPT ![s] = @ + 1]
    /\ \/ ~Accepts(s, header, body) /\ Unwind(c, "rejected") /\ UNCHANGED <<sequence, received>>
       \/ /\ Accepts(s, header, body) /\ next > MaxSeq
          /\ Unwind(c, "exhausted") /\ UNCHANGED <<sequence, received>>
       \/ /\ Accepts(s, header, body) /\ next <= MaxSeq
          /\ sequence' = [sequence EXCEPT ![s]["receive"] = next]
          /\ received' = [received EXCEPT ![s] = Append(@, header.call)]
          /\ Return(c, "ok")
    /\ UNCHANGED <<cancel, connVars, on, op, future, wire, late>>

\* Fault: the end of the stream is noticed between frames only.
ReadEofBetween(c) ==
    /\ pc[c] = "header" /\ ~Readable(on[c]) /\ closed[Other(on[c])]
    /\ Unwind(c, "eof")
    /\ UNCHANGED <<cancel, connVars, on, op, future, dataVars, late>>

ReadEof(c) ==
    /\ pc[c] \in {"header", "body"} /\ ~Readable(on[c]) /\ closed[Other(on[c])]
    /\ Unwind(c, "eof")
    /\ UNCHANGED <<cancel, connVars, on, op, future, dataVars, late>>

-----------------------------------------------------------------------------
(* Ending.                                                                 *)

\* Fault: the guard is declared before the gate, so it is dropped after it.
DropGuardsSwapped(c) ==
    /\ \/ pc[c] = "unwind" /\ Goto(c, "release") /\ Leave(c) /\ UNCHANGED cancel
       \/ pc[c] = "release" /\ Cancel(on[c]) /\ Goto(c, "done") /\ UNCHANGED gateVars
    /\ UNCHANGED <<connVars, on, op, result, future, dataVars, late>>

\* Fault: the guard is disarmed before the result is looked at.
DropGuardsDisarmed(c) ==
    /\ pc[c] = "unwind" /\ Leave(c) /\ Goto(c, "done")
    /\ UNCHANGED <<cancel, connVars, on, op, result, future, dataVars, late>>

\* Locals are dropped in reverse order: the guard cancels the token, then the
\* gate is released.
DropGuards(c) ==
    /\ \/ pc[c] = "unwind" /\ Cancel(on[c]) /\ Goto(c, "release") /\ UNCHANGED gateVars
       \/ pc[c] = "release" /\ Leave(c) /\ Goto(c, "done") /\ UNCHANGED cancel
    /\ UNCHANGED <<connVars, on, op, result, future, dataVars, late>>

\* tokio drops the task of a cancelled asyncio future at one of its awaits.
DropFuture(c) ==
    /\ future[c] \in {"cancelling", "cancelled"}
    /\ \/ pc[c] \in {"poll", "lock", "closing"} /\ Return(c, "dropped")
       \/ pc[c] \in Awaiting /\ Unwind(c, "dropped")
    /\ UNCHANGED <<cancel, connVars, on, op, future, dataVars, late>>

\* The application cancels the future, even one whose task has just finished.
PyCancel(c) ==
    /\ future[c] = "pending"
    /\ future' = [future EXCEPT ![c] = IF op[c] \in IoOps THEN "cancelling" ELSE "cancelled"]
    /\ UNCHANGED <<cancel, connVars, gateVars, pc, on, op, result, dataVars, late>>

\* Fault: cancellation is left to the drop guards of a running task.
PyCallbackRunning(c) ==
    /\ future[c] = "cancelling"
    /\ future' = [future EXCEPT ![c] = "cancelled"]
    /\ \/ pc[c] # "done" /\ Cancel(on[c])
       \/ pc[c] = "done" /\ UNCHANGED cancel
    /\ UNCHANGED <<connVars, gateVars, pc, on, op, result, dataVars, late>>

\* CancelOnPythonCancellation, run by the event loop after the cancellation.
PyCallback(c) ==
    /\ future[c] = "cancelling"
    /\ future' = [future EXCEPT ![c] = "cancelled"]
    /\ Cancel(on[c])
    /\ UNCHANGED <<connVars, gateVars, pc, on, op, result, dataVars, late>>

\* Fault: nobody watches the token.
WaiterIdle(s) == FALSE /\ UNCHANGED vars

\* The task spawned by SecureSession::new closes the transport.
Waiter(s) ==
    /\ cancel[s] /\ ~closed[s]
    /\ closed' = [closed EXCEPT ![s] = TRUE]
    /\ UNCHANGED <<cancel, paused, gateVars, pc, on, op, result, future, dataVars, late>>

-----------------------------------------------------------------------------
Run(c) ==
    \/ CloseInner(c) \/ GatePoll(c) \/ GateWait(c) \/ EnsureOpen(c) \/ Armed(c)
    \/ IoCancelled(c) \/ IoFails(c) \/ WriteHalf(c) \/ WriteRest(c)
    \/ ReadHeader(c) \/ ReadMore(c) \/ ReadBody(c) \/ ReadEof(c) \/ DropGuards(c)

Next ==
    \/ \E c \in Calls :
          \/ BeginOversized(c) \/ Begin(c) \/ BeginPause(c) \/ Run(c) \/ ReadReset(c)
          \/ DropFuture(c) \/ PyCancel(c) \/ PyCallback(c)
    \/ \E s \in Sessions : Waiter(s)

Spec == Init /\ [][Next]_vars

\* tokio polls every task that can go on and asyncio runs every callback; the
\* application's calls, cancellations and pauses are its own choice.
FairSpec ==
    /\ Spec
    /\ \A c \in Calls : WF_vars(Run(c)) /\ WF_vars(PyCallback(c))
    /\ \A s \in Sessions : WF_vars(Waiter(s))

-----------------------------------------------------------------------------
(* Properties.                                                             *)

\* "guarantees unique nonces under one directional session key" (make_nonce):
\* no sequence number is put on the wire, not even in half a frame, for two
\* different messages, whichever sends fail, are cancelled or are dropped.
NonceUnique ==
    \A s \in Sessions : \A i, j \in DOMAIN wire[s] :
        wire[s][i].sequence = wire[s][j].sequence => wire[s][i].call = wire[s][j].call

\* A torn frame ends its session before anyone else can use that direction:
\* if the last frame written, or the last frame read, is only half there and
\* no call is still at it, the token is cancelled ("Declared AFTER the gate,
\* hence cancelled BEFORE that gate is released").
Torn(s, o) == \/ o = "send" /\ Len(wire[s]) % 2 = 1
              \/ o = "receive" /\ taken[s] % 2 = 1
TornFrameIsTerminal ==
    \A s \in Sessions, o \in IoOps :
        Torn(s, o) =>
            \/ cancel[s]
            \/ \E c \in Calls : /\ on[c] = s /\ op[c] = o /\ c \in queued
                                /\ pc[c] \in {"half", "more", "body", "unwind"}

\* A receiver never rejects what an honest peer sent: cancellation and
\* failure on either end cannot shift the frame boundaries or the sequence
\* numbers that the two ends agree on.
NoFalseRejection == \A c \in Calls : result[c] # "rejected"

\* The session seen as a channel: a message is sent when the second half of
\* its frame is written, and a direction is cut when half a frame is left
\* there by a call that is no longer at it.
CompleteFrames(s) == [i \in 1 .. Len(wire[s]) \div 2 |-> wire[s][2 * i].call]
LeftTorn(s) ==
    Len(wire[s]) % 2 = 1 /\ ~\E c \in Calls : on[c] = s /\ pc[c] = "half"
Channel == INSTANCE SecureChannel WITH
    Ends <- Sessions, Messages <- Calls, Limit <- MaxSeq - FirstSeq,
    sent <- [s \in Sessions |-> CompleteFrames(s)],
    received <- received,
    cut <- [s \in Sessions |-> LeftTorn(s)]

\* A session implements SecureChannel: whatever sends and receives race, fail,
\* are cancelled or dropped, each end gets the messages of the other whole,
\* once and in order, none follows a torn frame, and no more than the
\* sequence numbers of one key allow ("Strict sequence numbers reject
\* replayed, reordered, and skipped messages"; SecureConnection::send and
\* receive under the gates and the token of SecureSession).
ImplementsChannel == Channel!Spec

\* Nothing is sent or received by a call begun after its session ended by a
\* failed call, by close() or by abort() ("Immediately prevent further secure
\* I/O"; "create a new connection").
NoLateIo ==
    \A c \in late :
        op[c] \in IoOps =>
            /\ result[c] # "ok"
            /\ \A i \in DOMAIN wire[on[c]] : wire[on[c]][i].call # c

\* A cancelled token closes the transport and ends every call of its session
\* even if the peer never reads or writes again.
InProgress(s, o) == \E c \in Calls : on[c] = s /\ op[c] = o /\ pc[c] # "done"
CancelEnds ==
    \A s \in Sessions : cancel[s] ~> (closed[s] /\ \A o \in AllOps : ~InProgress(s, o))

\* A receive does not wait for ever on a peer that is gone, not even for the
\* rest of a frame that the peer never finished.
PeerEndEndsReceive ==
    \A s \in Sessions : closed[Other(s)] ~> ~InProgress(s, "receive")

\* Cancelling a Python call ends the session also when Rust had already
\* completed it and only the result is discarded: no message can go missing
\* in a session that lives on (observe_cancellation).
DiscardEnds ==
    \A s \in Sessions : (\E c \in Calls : on[c] = s /\ future[c] = "cancelling") ~> closed[s]
=============================================================================
