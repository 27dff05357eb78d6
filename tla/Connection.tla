----------------------------- MODULE Connection -----------------------------
(***************************************************************************)
(* ConnectionCore of crates/taunicorn/src/lib.rs: one local byte-stream    *)
(* connection shared by concurrent asynchronous calls.                     *)
(*                                                                         *)
(* A call is one invocation of an operation of the connection.  It runs as *)
(* its own task on a multi-threaded runtime, so its steps interleave with  *)
(* those of every other call at each atomic access, each lock and each     *)
(* .await.  pc[c] names the place in the handler that c has reached:       *)
(*                                                                         *)
(*   new      not called yet              swap     ConnectionState::close, *)
(*   entry    first state checks                   the closed.swap         *)
(*   gate     awaiting its gate           flags    its stores, first close *)
(*   recheck  checks under the gate       again    its stores, later close *)
(*   stream   ConnectionCore::stream()    cancel   cancelling both tokens  *)
(*   io       awaiting the OS read/write  take     taking the core's Arc   *)
(*   mark     a flag store after a check  shut     awaiting OS shutdown    *)
(*                                        done     returned, or dropped    *)
(*                                                                         *)
(* Loads that only choose between error messages are read in one step.     *)
(***************************************************************************)
EXTENDS Naturals, Sequences, FiniteSets

CONSTANTS Calls,    \* the API calls made on the connection
          Ops,      \* Ops[c]: the operations that call c may be
          MaxLen,   \* bound: the longest buffer passed to a call
          SndBuf,   \* bound: bytes the OS accepts before the peer reads
          RcvBuf    \* bound: bytes from the peer the OS keeps for us

ReadOps  == {"receive", "read_timeout"}
SendOps  == {"send", "send_timeout", "write"}
IoOps    == ReadOps \cup SendOps \cup {"flush"}
GateOps  == IoOps \cup {"shutdown_write", "close"}
AllOps   == GateOps \cup {"shutdown_read", "pause", "resume"}

ASSUME ConstantsAssumption ==
    /\ Ops \in [Calls -> SUBSET AllOps]
    /\ IsFiniteSet(Calls)
    /\ MaxLen \in Nat \ {0} /\ SndBuf \in Nat \ {0} /\ RcvBuf \in Nat \ {0}

VARIABLES
    \* ConnectionState: five atomic booleans
    closed, paused, read_shutdown, write_shutdown, peer_sent_eof,
    \* ConnectionCore: the core-owned Arc, and the cancellation tokens
    stream, close_token, read_shutdown_token,
    \* read_gate and write_gate: FIFO locks.  queued is the set of calls that
    \* hold or await their gate, ahead[c] the calls that must leave it first
    queued, ahead,
    \* the calls
    pc, op, size, written, result,
    \* the OS socket and the peer
    wire, unread, fin, inbound, peerFin, peerGone

flagVars == <<closed, paused, read_shutdown, write_shutdown, peer_sent_eof>>
coreVars == <<stream, close_token, read_shutdown_token>>
gateVars == <<queued, ahead>>
callVars == <<pc, op, size, written, result>>
outVars  == <<wire, unread, fin>>
inVars   == <<inbound, peerFin, peerGone>>
vars == <<flagVars, coreVars, gateVars, callVars, outVars, inVars>>

Places  == {"new", "entry", "gate", "recheck", "stream", "io", "mark",
            "swap", "flags", "again", "cancel", "take", "shut", "done"}
Errors  == {"closed", "paused", "shut", "timeout", "failed"}
Results == Errors \cup {"none", "ok", "data", "eof", "dropped"}
Chunk   == [call : Calls, from : 0 .. MaxLen, to : 0 .. MaxLen]

TypeOK ==
    /\ closed \in BOOLEAN /\ paused \in BOOLEAN /\ peer_sent_eof \in BOOLEAN
    /\ read_shutdown \in BOOLEAN /\ write_shutdown \in BOOLEAN
    /\ stream \in BOOLEAN /\ close_token \in BOOLEAN /\ read_shutdown_token \in BOOLEAN
    /\ queued \in SUBSET Calls
    /\ ahead \in [Calls -> SUBSET Calls]
    /\ pc \in [Calls -> Places]
    /\ op \in [Calls -> AllOps \cup {"none"}]
    /\ size \in [Calls -> 0 .. MaxLen]
    /\ written \in [Calls -> 0 .. MaxLen]
    /\ result \in [Calls -> Results]
    /\ wire \in Seq(Chunk)
    /\ unread \in 0 .. SndBuf
    /\ inbound \in 0 .. RcvBuf
    /\ fin \in BOOLEAN /\ peerFin \in BOOLEAN /\ peerGone \in BOOLEAN

Init ==
    /\ closed = FALSE /\ paused = FALSE
    /\ read_shutdown = FALSE /\ write_shutdown = FALSE /\ peer_sent_eof = FALSE
    /\ stream = TRUE /\ close_token = FALSE /\ read_shutdown_token = FALSE
    /\ queued = {} /\ ahead = [c \in Calls |-> {}]
    /\ pc = [c \in Calls |-> "new"]
    /\ op = [c \in Calls |-> "none"]
    /\ size = [c \in Calls |-> 0]
    /\ written = [c \in Calls |-> 0]
    /\ result = [c \in Calls |-> "none"]
    /\ wire = <<>> /\ unread = 0 /\ fin = FALSE
    /\ inbound = 0 /\ peerFin = FALSE /\ peerGone = FALSE

-----------------------------------------------------------------------------
(* Gates.  tokio::sync::Mutex hands the lock to its waiters in the order   *)
(* in which they asked for it; a waiter that goes away gives up its turn.  *)

\* Fault: one gate for both directions.
SameGateSingle(c, d) == TRUE

SameGate(c, d) == (op[c] \in ReadOps) = (op[d] \in ReadOps)

Join(c) ==
    /\ queued' = queued \cup {c}
    /\ ahead' = [ahead EXCEPT ![c] = {d \in queued : SameGate(c, d)}]

Leave(c) ==
    /\ queued' = queued \ {c}
    /\ ahead' = [d \in Calls |-> IF d = c THEN {} ELSE ahead[d] \ {c}]

Goto(c, place) == pc' = [pc EXCEPT ![c] = place]

\* The handler returns r: its gate guard and its temporary Arc are dropped.
Return(c, r) ==
    /\ Goto(c, "done")
    /\ result' = [result EXCEPT ![c] = r]
    /\ Leave(c)

-----------------------------------------------------------------------------
(* Calling an operation.                                                   *)

BeginEmpty(c) ==
    /\ pc[c] = "new"
    /\ \E o \in Ops[c] \cap (ReadOps \cup SendOps) :
          /\ op' = [op EXCEPT ![c] = o]
          /\ result' = [result EXCEPT ![c] = IF o \in ReadOps THEN "data" ELSE "ok"]
    /\ Goto(c, "done")
    /\ UNCHANGED <<flagVars, coreVars, gateVars, size, written, outVars, inVars>>

Begin(c) ==
    /\ pc[c] = "new"
    /\ \E o \in Ops[c] :
          /\ op' = [op EXCEPT ![c] = o]
          /\ \E n \in IF o \in ReadOps \cup SendOps THEN 1 .. MaxLen ELSE {0} :
                size' = [size EXCEPT ![c] = n]
          /\ Goto(c, IF o = "close" THEN "swap" ELSE "entry")
    /\ UNCHANGED <<flagVars, coreVars, gateVars, written, result, outVars, inVars>>

-----------------------------------------------------------------------------
(* receive, write_once, send, send_timeout, flush: up to the OS operation. *)

\* ensure_read_available / ensure_write_available: the error, or "none".
Refusal(o) ==
    CASE closed -> "closed"
      [] ~closed /\ paused -> "paused"
      [] ~closed /\ ~paused /\ (IF o \in ReadOps THEN read_shutdown ELSE write_shutdown) -> "shut"
      [] OTHER -> "none"

\* The checks made on entry and again under the gate.
Admitted(c) == ~(op[c] \in ReadOps /\ peer_sent_eof) /\ Refusal(op[c]) = "none"

NotAdmitted(c) ==
    /\ ~Admitted(c)
    /\ Return(c, IF op[c] \in ReadOps /\ peer_sent_eof THEN "eof" ELSE Refusal(op[c]))

Ensure(c) ==
    /\ pc[c] = "entry" /\ op[c] \in IoOps
    /\ \/ NotAdmitted(c)
       \/ Admitted(c) /\ Goto(c, "gate") /\ Join(c) /\ UNCHANGED result
    /\ UNCHANGED <<flagVars, coreVars, op, size, written, outVars, inVars>>

\* Fault: the lock is entered without waiting for its holder.
AcquireBarging(c) ==
    /\ pc[c] = "gate"
    /\ Goto(c, IF op[c] = "close" THEN "shut" ELSE "recheck")
    /\ UNCHANGED <<flagVars, coreVars, gateVars, op, size, written, result, outVars, inVars>>

\* The gate is granted to the call at the front of its queue.
Acquire(c) ==
    /\ pc[c] = "gate" /\ ahead[c] = {}
    /\ Goto(c, IF op[c] = "close" THEN "shut" ELSE "recheck")
    /\ UNCHANGED <<flagVars, coreVars, gateVars, op, size, written, result, outVars, inVars>>

Recheck(c) ==
    /\ pc[c] = "recheck" /\ op[c] \in IoOps
    /\ \/ NotAdmitted(c)
       \/ Admitted(c) /\ Goto(c, "stream") /\ UNCHANGED <<result, gateVars>>
    /\ UNCHANGED <<flagVars, coreVars, op, size, written, outVars, inVars>>

\* ConnectionCore::stream(): clone the Arc unless the core is closed.
CloneStream(c) ==
    /\ pc[c] = "stream"
    /\ \/ (closed \/ ~stream) /\ Return(c, "closed")
       \/ /\ ~closed /\ stream
          /\ Goto(c, IF op[c] = "shutdown_write" THEN "shut" ELSE "io")
          /\ UNCHANGED <<result, gateVars>>
    /\ UNCHANGED <<flagVars, coreVars, op, size, written, outVars, inVars>>

\* Fault: the OS operation is awaited without watching close_token.
InterruptedAtGateOnly(c) ==
    /\ pc[c] \in {"gate", "io"} /\ op[c] \in IoOps
    /\ \/ pc[c] = "gate" /\ close_token /\ Return(c, "closed")
       \/ op[c] \in ReadOps /\ read_shutdown_token /\ Return(c, "shut")
    /\ UNCHANGED <<flagVars, coreVars, op, size, written, outVars, inVars>>

\* The cancellation branches of select!, at the gate and in the OS operation.
Interrupted(c) ==
    /\ pc[c] \in {"gate", "io"} /\ op[c] \in IoOps
    /\ \/ close_token /\ Return(c, "closed")
       \/ op[c] \in ReadOps /\ read_shutdown_token /\ Return(c, "shut")
    /\ UNCHANGED <<flagVars, coreVars, op, size, written, outVars, inVars>>

-----------------------------------------------------------------------------
(* The OS operation.                                                       *)

\* Fault: each turn of the loop passes data instead of data[written..].
WriteSomeFromStart(c) ==
    /\ pc[c] = "io" /\ op[c] \in SendOps /\ ~peerGone
    /\ \E n \in 1 .. size[c] :
          /\ unread + n <= SndBuf
          /\ unread' = unread + n
          /\ written' = [written EXCEPT ![c] = written[c] + n]
          /\ wire' = Append(wire, [call |-> c, from |-> 0, to |-> n])
          /\ \/ op[c] = "write" /\ Return(c, "ok")
             \/ op[c] # "write" /\ UNCHANGED <<pc, result, gateVars>>
    /\ UNCHANGED <<flagVars, coreVars, op, size, fin, inVars>>

\* Fault: send does not loop after a short write.
WriteSomeOnce(c) ==
    /\ pc[c] = "io" /\ op[c] \in SendOps /\ ~peerGone
    /\ \E n \in 1 .. (size[c] - written[c]) :
          /\ unread + n <= SndBuf
          /\ unread' = unread + n
          /\ written' = [written EXCEPT ![c] = written[c] + n]
          /\ wire' = Append(wire, [call |-> c, from |-> written[c], to |-> written[c] + n])
          /\ Return(c, "ok")
    /\ UNCHANGED <<flagVars, coreVars, op, size, fin, inVars>>

\* write_once returns after one write; send and send_timeout loop.
WriteSome(c) ==
    /\ pc[c] = "io" /\ op[c] \in SendOps /\ ~peerGone
    /\ \E n \in 1 .. (size[c] - written[c]) :
          /\ unread + n <= SndBuf
          /\ unread' = unread + n
          /\ written' = [written EXCEPT ![c] = written[c] + n]
          /\ wire' = Append(wire, [call |-> c, from |-> written[c], to |-> written[c] + n])
          /\ \/ /\ (op[c] = "write" \/ written[c] + n = size[c])
                /\ Return(c, "ok")
             \/ /\ op[c] # "write" /\ written[c] + n < size[c]
                /\ UNCHANGED <<pc, result, gateVars>>
    /\ UNCHANGED <<flagVars, coreVars, op, size, fin, inVars>>

FlushDone(c) ==
    /\ pc[c] = "io" /\ op[c] = "flush"
    /\ Return(c, "ok")
    /\ UNCHANGED <<flagVars, coreVars, op, size, written, outVars, inVars>>

ReadSome(c) ==
    /\ pc[c] = "io" /\ op[c] \in ReadOps
    /\ \E n \in 1 .. size[c] : n <= inbound /\ inbound' = inbound - n
    /\ Return(c, "data")
    /\ UNCHANGED <<flagVars, coreVars, op, size, written, outVars, peerFin, peerGone>>

ReadEof(c) ==
    /\ pc[c] = "io" /\ op[c] \in ReadOps
    /\ inbound = 0 /\ (peerFin \/ peerGone)
    /\ peer_sent_eof' = TRUE
    /\ Return(c, "eof")
    /\ UNCHANGED <<closed, paused, read_shutdown, write_shutdown, coreVars,
                   op, size, written, outVars, inVars>>

\* The OS operation failed, or a write returned zero: fail_connection.
IoFails(c) ==
    /\ pc[c] = "io" /\ peerGone
    /\ Goto(c, "swap")
    /\ UNCHANGED <<flagVars, coreVars, gateVars, op, size, written, result, outVars, inVars>>

\* Fault: a deadline that expires during the write leaves the connection open.
TimesOutOpen(c) ==
    /\ op[c] \in {"send_timeout", "read_timeout"} /\ pc[c] \in {"gate", "io"}
    /\ Return(c, "timeout")
    /\ UNCHANGED <<flagVars, coreVars, op, size, written, outVars, inVars>>

\* A deadline may expire at any await it covers.  send_timeout: at the gate
\* nothing was written; during the write the connection is failed.
\* read_timeout: the whole receive future is dropped.
TimesOut(c) ==
    /\ \/ /\ op[c] = "send_timeout" /\ pc[c] = "io"
          /\ Goto(c, "swap") /\ UNCHANGED <<result, gateVars>>
       \/ /\ op[c] = "send_timeout" /\ pc[c] = "gate"
          /\ Return(c, "timeout")
       \/ /\ op[c] = "read_timeout" /\ pc[c] \in {"gate", "io"}
          /\ Return(c, "timeout")
    /\ UNCHANGED <<flagVars, coreVars, op, size, written, outVars, inVars>>

-----------------------------------------------------------------------------
(* shutdown_write, shutdown_read, pause, resume.                           *)

\* Fault: the state transition comes before the gate is acquired.
ShutdownWriteEnterEarly(c) ==
    /\ pc[c] = "entry" /\ op[c] = "shutdown_write"
    /\ \/ (closed \/ write_shutdown) /\ Return(c, "ok") /\ UNCHANGED write_shutdown
       \/ /\ ~closed /\ ~write_shutdown
          /\ write_shutdown' = TRUE
          /\ Goto(c, "gate") /\ Join(c) /\ UNCHANGED result
    /\ UNCHANGED <<closed, paused, read_shutdown, peer_sent_eof, coreVars,
                   op, size, written, outVars, inVars>>

ShutdownWriteEnter(c) ==
    /\ pc[c] = "entry" /\ op[c] = "shutdown_write"
    /\ \/ (closed \/ write_shutdown) /\ Return(c, "ok")
       \/ ~closed /\ ~write_shutdown /\ Goto(c, "gate") /\ Join(c) /\ UNCHANGED result
    /\ UNCHANGED <<flagVars, coreVars, op, size, written, outVars, inVars>>

ShutdownWriteMark(c) ==
    /\ pc[c] = "recheck" /\ op[c] = "shutdown_write"
    /\ \/ (closed \/ write_shutdown) /\ Return(c, "ok") /\ UNCHANGED write_shutdown
       \/ /\ ~closed /\ ~write_shutdown
          /\ write_shutdown' = TRUE
          /\ Goto(c, "stream") /\ UNCHANGED <<result, gateVars>>
    /\ UNCHANGED <<closed, paused, read_shutdown, peer_sent_eof, coreVars,
                   op, size, written, outVars, inVars>>

\* The OS shutdown of the sending direction (by shutdown_write and close).
ShutdownDone(c) ==
    /\ pc[c] = "shut"
    /\ fin' = TRUE
    /\ Return(c, "ok")
    /\ UNCHANGED <<flagVars, coreVars, op, size, written, wire, unread, inVars>>

ShutdownFails(c) ==
    /\ pc[c] = "shut" /\ peerGone
    /\ \/ op[c] = "close" /\ Return(c, "failed")
       \/ op[c] # "close" /\ Goto(c, "swap") /\ UNCHANGED <<result, gateVars>>
    /\ UNCHANGED <<flagVars, coreVars, op, size, written, outVars, inVars>>

ShutdownRead(c) ==
    /\ pc[c] = "entry" /\ op[c] = "shutdown_read"
    /\ \/ (closed \/ read_shutdown) /\ Return(c, "ok") /\ UNCHANGED read_shutdown
       \/ /\ ~closed /\ ~read_shutdown
          /\ read_shutdown' = TRUE
          /\ Goto(c, "mark") /\ UNCHANGED <<result, gateVars>>
    /\ UNCHANGED <<closed, paused, write_shutdown, peer_sent_eof, coreVars,
                   op, size, written, outVars, inVars>>

\* Fault: the pending receive is not woken.
ShutdownReadSilent(c) ==
    /\ pc[c] = "mark" /\ op[c] = "shutdown_read"
    /\ Return(c, "ok")
    /\ UNCHANGED <<flagVars, coreVars, op, size, written, outVars, inVars>>

ShutdownReadWake(c) ==
    /\ pc[c] = "mark" /\ op[c] = "shutdown_read"
    /\ read_shutdown_token' = TRUE
    /\ Return(c, "ok")
    /\ UNCHANGED <<flagVars, stream, close_token, op, size, written, outVars, inVars>>

\* pause and resume load closed, then store: the store may come late.
PauseCheck(c) ==
    /\ pc[c] = "entry" /\ op[c] \in {"pause", "resume"}
    /\ \/ closed /\ Return(c, "ok")
       \/ ~closed /\ Goto(c, "mark") /\ UNCHANGED <<result, gateVars>>
    /\ UNCHANGED <<flagVars, coreVars, op, size, written, outVars, inVars>>

PauseStore(c) ==
    /\ pc[c] = "mark" /\ op[c] \in {"pause", "resume"}
    /\ paused' = (op[c] = "pause")
    /\ Return(c, "ok")
    /\ UNCHANGED <<closed, read_shutdown, write_shutdown, peer_sent_eof, coreVars,
                   op, size, written, outVars, inVars>>

-----------------------------------------------------------------------------
(* close and fail_connection.  Both run ConnectionState::close; only the   *)
(* call whose swap finds FALSE cancels the tokens and takes the stream.    *)
(* close then waits for the write gate and shuts the OS direction down;    *)
(* fail_connection returns to its caller, which still holds its gate.      *)

Swap(c) ==
    /\ pc[c] = "swap"
    /\ closed' = TRUE
    /\ Goto(c, IF closed THEN "again" ELSE "flags")
    /\ UNCHANGED <<paused, read_shutdown, write_shutdown, peer_sent_eof, coreVars,
                   gateVars, op, size, written, result, outVars, inVars>>

\* A later close repeats the stores and returns.
Flags(c) ==
    /\ paused' = FALSE /\ read_shutdown' = TRUE /\ write_shutdown' = TRUE
    /\ \/ pc[c] = "flags" /\ Goto(c, "cancel") /\ UNCHANGED <<result, gateVars>>
       \/ pc[c] = "again" /\ Return(c, IF op[c] = "close" THEN "ok" ELSE "failed")
    /\ UNCHANGED <<closed, peer_sent_eof, coreVars, op, size, written, outVars, inVars>>

CancelTokens(c) ==
    /\ pc[c] = "cancel"
    /\ close_token' = TRUE /\ read_shutdown_token' = TRUE
    /\ Goto(c, "take")
    /\ UNCHANGED <<flagVars, stream, gateVars, op, size, written, result, outVars, inVars>>

\* Fault: a failing call marks the state but leaves the stream in the core.
TakeStreamKept(c) ==
    /\ pc[c] = "take"
    /\ \/ op[c] = "close" /\ stream' = FALSE /\ Goto(c, "gate") /\ Join(c) /\ UNCHANGED result
       \/ op[c] # "close" /\ Return(c, "failed") /\ UNCHANGED stream
    /\ UNCHANGED <<flagVars, close_token, read_shutdown_token,
                   op, size, written, outVars, inVars>>

TakeStream(c) ==
    /\ pc[c] = "take"
    /\ stream' = FALSE
    /\ \/ op[c] = "close" /\ stream /\ Goto(c, "gate") /\ Join(c) /\ UNCHANGED result
       \/ op[c] # "close" /\ Return(c, "failed")
    /\ UNCHANGED <<flagVars, close_token, read_shutdown_token,
                   op, size, written, outVars, inVars>>

\* The caller drops the future at one of its awaits.
DropFuture(c) ==
    /\ pc[c] \in {"gate", "io", "shut"}
    /\ Return(c, "dropped")
    /\ UNCHANGED <<flagVars, coreVars, op, size, written, outVars, inVars>>

-----------------------------------------------------------------------------
(* The peer, through the OS socket.                                        *)

PeerSend ==
    /\ ~peerFin /\ ~peerGone /\ inbound < RcvBuf
    /\ inbound' = inbound + 1
    /\ UNCHANGED <<flagVars, coreVars, gateVars, callVars, outVars, peerFin, peerGone>>

PeerShutdown ==
    /\ ~peerFin /\ ~peerGone
    /\ peerFin' = TRUE
    /\ UNCHANGED <<flagVars, coreVars, gateVars, callVars, outVars, inbound, peerGone>>

PeerRead ==
    /\ ~peerGone /\ unread > 0
    /\ unread' = unread - 1
    /\ UNCHANGED <<flagVars, coreVars, gateVars, callVars, wire, fin, inVars>>

PeerClose ==
    /\ ~peerGone
    /\ peerGone' = TRUE
    /\ UNCHANGED <<flagVars, coreVars, gateVars, callVars, outVars, inbound, peerFin>>

Peer == PeerSend \/ PeerShutdown \/ PeerRead \/ PeerClose

-----------------------------------------------------------------------------
\* A step a polled call takes by itself (its timer and its owner aside).
Run(c) ==
    \/ Ensure(c) \/ Acquire(c) \/ Recheck(c) \/ CloneStream(c) \/ Interrupted(c)
    \/ WriteSome(c) \/ FlushDone(c) \/ ReadSome(c) \/ ReadEof(c) \/ IoFails(c)
    \/ ShutdownWriteEnter(c) \/ ShutdownWriteMark(c) \/ ShutdownDone(c) \/ ShutdownFails(c)
    \/ ShutdownRead(c) \/ ShutdownReadWake(c) \/ PauseCheck(c) \/ PauseStore(c)
    \/ Swap(c) \/ Flags(c) \/ CancelTokens(c) \/ TakeStream(c)

Next ==
    \/ \E c \in Calls : BeginEmpty(c) \/ Begin(c) \/ Run(c) \/ TimesOut(c) \/ DropFuture(c)
    \/ Peer

Spec == Init /\ [][Next]_vars

\* The runtime polls every call that can make progress.  Callers, timers and
\* the peer are not fair: nobody has to call, wait, read or write.
FairSpec == Spec /\ \A c \in Calls : WF_vars(Run(c))

-----------------------------------------------------------------------------
(* Properties.                                                             *)

\* The sending direction, seen from the peer.
Sink == INSTANCE ByteSink

\* The sends of a connection implement ByteSink: whatever calls race, time
\* out, are dropped or close the connection, the bytes of one buffer are one
\* unbroken run on the wire and no byte follows the end-of-stream mark
\* (write_gate in send, send_timeout, write_once, shutdown_write and close).
ImplementsSink == Sink!Spec

\* "Same-direction calls are serialized so concurrent full-buffer sends
\* cannot interleave their bytes" (Connection): between two chunks of one
\* buffer there is never a byte of another.
SendsDoNotInterleave == Sink!NoInterleaving

\* Calls of one direction never use the OS stream at the same time, and the
\* shutdown made by shutdown_write or close never overlaps a write.
UsesStream(c) == pc[c] \in {"io", "shut"}
GateExclusion ==
    \A c, d \in Calls :
        c # d /\ UsesStream(c) /\ UsesStream(d) => ~SameGate(c, d)

\* A send that reports an error can be repeated exactly when the connection
\* survives: a timeout, a paused or a shut-down error means no byte of the
\* buffer left, and an error after a partial write leaves the connection
\* closed (fail_connection; "do not blindly retry the full buffer").
OnWire(c) == \E i \in DOMAIN wire : wire[i].call = c
RetrySafe ==
    \A c \in Calls :
        op[c] \in SendOps /\ result[c] \in Errors /\ OnWire(c) =>
            closed /\ result[c] \in {"closed", "failed"}

\* send and send_timeout that return Ok have put the complete buffer on the
\* wire, in spite of short writes ("Send the complete buffer").
CompleteSends ==
    \A c \in Calls :
        op[c] \in {"send", "send_timeout"} /\ result[c] = "ok" /\ size[c] > 0 =>
            \E i \in DOMAIN wire : wire[i].call = c /\ wire[i].to = size[c]

\* Once no call is inside ConnectionState::close or fail_connection, a closed
\* connection has let go of the OS stream, both tokens are cancelled and both
\* directions are shut: several failing calls and closers cannot leave it
\* half closed, because exactly one of them wins the swap.
Closing(c) == pc[c] \in {"flags", "again", "cancel", "take"}
ClosedReleasesAll ==
    closed /\ (\A c \in Calls : ~Closing(c)) =>
        /\ ~stream /\ close_token /\ read_shutdown_token
        /\ read_shutdown /\ write_shutdown

\* shutdown_write reports success only if the end-of-stream mark was sent, is
\* being sent by another call, was given up with a dropped future, or the
\* connection is closed anyway: unless its owner is dropped, the flag that
\* makes it idempotent never hides a shutdown nobody performs.
ShutdownHonest ==
    \A c \in Calls :
        op[c] = "shutdown_write" /\ result[c] = "ok" =>
            \/ fin \/ closed
            \/ \E d \in Calls : /\ op[d] = "shutdown_write"
                                /\ pc[d] \in {"stream", "shut", "swap"} \/ result[d] = "dropped"

\* Full close interrupts pending I/O: every call in progress on a closed
\* connection returns, though the peer may never read or write again.
InProgress(c) == pc[c] \notin {"new", "done"}
CloseInterrupts ==
    \A c \in Calls : (closed /\ InProgress(c)) ~> ~InProgress(c)

\* shutdown_read ends the receives in progress, also the one blocked in the
\* OS read, without closing the connection.
ShutdownReadInterrupts ==
    \A c \in Calls :
        (read_shutdown /\ InProgress(c) /\ op[c] \in ReadOps) ~> ~InProgress(c)

\* "allowing one receive and one send to progress at the same time": a
\* receive for which bytes have arrived returns even if a send is blocked
\* for ever behind a peer that does not read.
ReceiveNotBlockedBySend ==
    \A c \in Calls :
        (InProgress(c) /\ op[c] \in ReadOps /\ inbound > 0) ~> (~InProgress(c) \/ inbound = 0)
=============================================================================
