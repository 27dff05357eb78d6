-------------------------------- MODULE Queue --------------------------------
(***************************************************************************)
(* BoundedQueue and UnboundedQueue of                                      *)
(* crates/taunicorn-python/src/channel.rs: a tokio mpsc channel whose      *)
(* receiver sits behind a FIFO mutex, and a cancellation token that closes *)
(* the queue even while a receive holds that mutex.                        *)
(*                                                                         *)
(* Calls run on tokio workers and Python threads; their steps interleave.  *)
(* The item of a send is the identity of the call.  Places:                *)
(*   new     not called yet           locked  rx held, about to poll       *)
(*   check   first look at shutdown   take    polling rx.recv              *)
(*   try     offering the item        drain   rx.recv after rx.close       *)
(*   lock    awaiting the rx mutex    pending nothing to do until woken    *)
(*   deliver the result is on its way to the asyncio future                *)
(*   seal    close's try_lock         done    returned, or cancelled       *)
(*                                                                         *)
(* An UnboundedQueue is a queue whose capacity is never reached.  The mpsc *)
(* channel, the mutex and the asyncio bridge are external; they appear as  *)
(* the code uses them: a send is accepted while the channel is open and a  *)
(* permit is free, permits and the mutex are granted first come, first     *)
(* served, rx.recv returns None only when the channel is closed and empty. *)
(***************************************************************************)
EXTENDS Naturals, Sequences, FiniteSets

CONSTANTS Calls,     \* the API calls made on the queue
          OpSet,     \* the operations they may be
          Capacities \* the capacities a queue may be made with

SendOps == {"send", "try_send"}
RecvOps == {"recv", "try_recv"}
AllOps  == SendOps \cup RecvOps \cup {"close"}

\* BoundedQueue::new refuses a capacity of zero.
ASSUME CapacityAssumption ==
    /\ Capacities \subseteq Nat \ {0} /\ OpSet \subseteq AllOps /\ IsFiniteSet(Calls)
    /\ "none" \notin Calls

VARIABLES
    capacity,       \* the queue's capacity
    shutdown,       \* the cancellation token
    rxClosed,       \* rx.close() was called
    buf,            \* the items in the channel
    queued, ahead,  \* calls holding or awaiting a permit or the rx mutex, and
                    \* the earlier ones that each must wait for
    pc, op, result,
    got,            \* got[c]: the item a receive took out of the channel
    late            \* history: the calls begun after a close() had returned

chanVars == <<capacity, shutdown, rxClosed, buf>>
lineVars == <<queued, ahead>>
vars == <<chanVars, lineVars, pc, op, result, got, late>>

Places  == {"new", "check", "try", "lock", "locked", "take", "drain",
            "pending", "deliver", "seal", "done"}
Results == {"none", "ok", "item", "closed", "full", "empty", "busy", "cancelled"}
NoItem  == "none"

TypeOK ==
    /\ capacity \in Capacities
    /\ shutdown \in BOOLEAN /\ rxClosed \in BOOLEAN
    /\ buf \in Seq(Calls) /\ Len(buf) <= capacity
    /\ queued \in SUBSET Calls
    /\ ahead \in [Calls -> SUBSET Calls]
    /\ pc \in [Calls -> Places]
    /\ op \in [Calls -> AllOps \cup {"none"}]
    /\ result \in [Calls -> Results]
    /\ got \in [Calls -> Calls \cup {NoItem}]
    /\ late \in SUBSET Calls

Init ==
    /\ capacity \in Capacities
    /\ shutdown = FALSE /\ rxClosed = FALSE /\ buf = <<>>
    /\ queued = {} /\ ahead = [c \in Calls |-> {}]
    /\ pc = [c \in Calls |-> "new"]
    /\ op = [c \in Calls |-> "none"]
    /\ result = [c \in Calls |-> "none"]
    /\ got = [c \in Calls |-> NoItem]
    /\ late = {}

-----------------------------------------------------------------------------
\* The calls that hold or await the receiver's mutex; the waiting senders.
Receivers == {c \in queued : op[c] \in RecvOps}
Senders   == {c \in queued : op[c] \in SendOps}

Join(c, line) ==
    /\ queued' = queued \cup {c}
    /\ ahead' = [ahead EXCEPT ![c] = line]

Leave(c) ==
    /\ queued' = queued \ {c}
    /\ ahead' = [d \in Calls |-> IF d = c THEN {} ELSE ahead[d] \ {c}]

Goto(c, place) == pc' = [pc EXCEPT ![c] = place] /\ UNCHANGED result

\* The handler is finished; what a future produced still has to reach asyncio.
Return(c, r) ==
    /\ pc' = [pc EXCEPT ![c] = IF op[c] \in {"send", "recv"} THEN "deliver" ELSE "done"]
    /\ result' = [result EXCEPT ![c] = r]

Begin(c) ==
    /\ pc[c] = "new"
    /\ \E o \in OpSet :
          /\ op' = [op EXCEPT ![c] = o]
          /\ \/ o # "recv" /\ Goto(c, "check") /\ UNCHANGED lineVars
             \/ o = "recv" /\ Goto(c, "lock") /\ Join(c, Receivers)
    /\ late' = late \cup {d \in {c} : \E s \in Calls : op[s] = "close" /\ pc[s] = "done"}
    /\ UNCHANGED <<chanVars, got>>

-----------------------------------------------------------------------------
(* send and try_send.                                                      *)

\* A permit is free for c: earlier waiters are served first.
Permit(c) ==
    Cardinality(IF c \in queued THEN ahead[c] ELSE Senders) + Len(buf) < capacity

\* Fault: the token is not consulted, only the channel.
SendCheckChannelOnly(c) ==
    /\ pc[c] = "check" /\ op[c] \in SendOps
    /\ Goto(c, "try") /\ UNCHANGED lineVars
    /\ UNCHANGED <<chanVars, op, got, late>>

\* send: the biased shutdown branch; try_send: is_closed().
SendCheck(c) ==
    /\ pc[c] = "check" /\ op[c] \in SendOps
    /\ \/ (shutdown \/ (op[c] = "try_send" /\ rxClosed)) /\ Return(c, "closed") /\ Leave(c)
       \/ ~shutdown /\ ~(op[c] = "try_send" /\ rxClosed) /\ Goto(c, "try") /\ UNCHANGED lineVars
    /\ UNCHANGED <<chanVars, op, got, late>>

\* Fault: the item is buffered though the channel is full.
SendTryOverfull(c) ==
    /\ pc[c] = "try"
    /\ \/ rxClosed /\ Return(c, "closed") /\ Leave(c) /\ UNCHANGED buf
       \/ ~rxClosed /\ buf' = Append(buf, c) /\ Return(c, "ok") /\ Leave(c)
    /\ UNCHANGED <<capacity, shutdown, rxClosed, op, got, late>>

\* The channel's answer to the item.
SendTry(c) ==
    /\ pc[c] = "try"
    /\ \/ rxClosed /\ Return(c, "closed") /\ Leave(c) /\ UNCHANGED buf
       \/ ~rxClosed /\ Permit(c) /\ buf' = Append(buf, c) /\ Return(c, "ok") /\ Leave(c)
       \/ /\ ~rxClosed /\ ~Permit(c) /\ op[c] = "try_send"
          /\ Return(c, "full") /\ UNCHANGED <<buf, lineVars>>
       \/ /\ ~rxClosed /\ ~Permit(c) /\ op[c] = "send"
          /\ Goto(c, "pending") /\ UNCHANGED buf
          /\ IF c \in queued THEN UNCHANGED lineVars ELSE Join(c, Senders)
    /\ UNCHANGED <<capacity, shutdown, rxClosed, op, got, late>>

SendWake(c) ==
    /\ pc[c] = "pending" /\ op[c] = "send"
    /\ shutdown \/ rxClosed \/ Permit(c)
    /\ Goto(c, "check")
    /\ UNCHANGED <<chanVars, lineVars, op, got, late>>

-----------------------------------------------------------------------------
(* recv.                                                                   *)

RecvLock(c) ==
    /\ pc[c] = "lock" /\ ahead[c] = {}
    /\ Goto(c, "locked")
    /\ UNCHANGED <<chanVars, lineVars, op, got, late>>

\* Fault: the cancelled branch reports closure without closing and draining.
RecvPollNoDrain(c) ==
    /\ pc[c] = "locked"
    /\ \/ shutdown /\ Return(c, "closed") /\ Leave(c)
       \/ ~shutdown /\ Goto(c, "take") /\ UNCHANGED lineVars
    /\ UNCHANGED <<chanVars, op, got, late>>

\* The biased select looks at the token first.
RecvPoll(c) ==
    /\ pc[c] = "locked"
    /\ \/ shutdown /\ rxClosed' = TRUE /\ Goto(c, "drain")
       \/ ~shutdown /\ Goto(c, "take") /\ UNCHANGED rxClosed
    /\ UNCHANGED <<capacity, shutdown, buf, lineVars, op, got, late>>

\* Take the head of the channel.
Pop(c) ==
    /\ buf # <<>>
    /\ buf' = Tail(buf)
    /\ got' = [got EXCEPT ![c] = Head(buf)]

\* Fault: the receive that meets the closed queue drops what it reads.
RecvTakeDiscards(c) ==
    /\ pc[c] \in {"take", "drain"} /\ op[c] = "recv"
    /\ \/ pc[c] = "take" /\ Pop(c) /\ Return(c, "item") /\ Leave(c)
       \/ /\ pc[c] = "drain" /\ buf # <<>> /\ buf' = Tail(buf) /\ UNCHANGED got
          /\ Return(c, "closed") /\ Leave(c)
       \/ /\ buf = <<>> /\ rxClosed
          /\ Return(c, "closed") /\ Leave(c) /\ UNCHANGED <<buf, got>>
       \/ /\ buf = <<>> /\ ~rxClosed
          /\ Goto(c, "pending") /\ UNCHANGED <<buf, got, lineVars>>
    /\ UNCHANGED <<capacity, shutdown, rxClosed, op, late>>

\* Fault: the guard of the receiver's mutex outlives the receive.
RecvTakeKeepsLock(c) ==
    /\ pc[c] \in {"take", "drain"} /\ op[c] = "recv"
    /\ \/ Pop(c) /\ Return(c, "item")
       \/ buf = <<>> /\ rxClosed /\ Return(c, "closed") /\ UNCHANGED <<buf, got>>
       \/ buf = <<>> /\ ~rxClosed /\ Goto(c, "pending") /\ UNCHANGED <<buf, got>>
    /\ UNCHANGED <<capacity, shutdown, rxClosed, lineVars, op, late>>

RecvTake(c) ==
    /\ pc[c] \in {"take", "drain"} /\ op[c] = "recv"
    /\ \/ Pop(c) /\ Return(c, "item") /\ Leave(c)
       \/ /\ buf = <<>> /\ rxClosed
          /\ Return(c, "closed") /\ Leave(c) /\ UNCHANGED <<buf, got>>
       \/ /\ buf = <<>> /\ ~rxClosed
          /\ Goto(c, "pending") /\ UNCHANGED <<buf, got, lineVars>>
    /\ UNCHANGED <<capacity, shutdown, rxClosed, op, late>>

\* Fault: the waiting receive does not watch the token.
RecvWakeNoToken(c) ==
    /\ pc[c] = "pending" /\ op[c] = "recv"
    /\ rxClosed \/ buf # <<>>
    /\ Goto(c, "locked")
    /\ UNCHANGED <<chanVars, lineVars, op, got, late>>

RecvWake(c) ==
    /\ pc[c] = "pending" /\ op[c] = "recv"
    /\ shutdown \/ rxClosed \/ buf # <<>>
    /\ Goto(c, "locked")
    /\ UNCHANGED <<chanVars, lineVars, op, got, late>>

-----------------------------------------------------------------------------
(* try_recv and close.  Neither waits for the mutex.                       *)

TryRecvLock(c) ==
    /\ pc[c] = "check" /\ op[c] = "try_recv"
    /\ \/ /\ Receivers # {}
          /\ Return(c, "busy") /\ UNCHANGED <<rxClosed, lineVars>>
       \/ /\ Receivers = {}
          /\ Join(c, {})
          /\ rxClosed' = (rxClosed \/ shutdown)
          /\ Goto(c, "take")
    /\ UNCHANGED <<capacity, shutdown, buf, op, got, late>>

TryRecvTake(c) ==
    /\ pc[c] = "take" /\ op[c] = "try_recv"
    /\ \/ Pop(c) /\ Return(c, "item")
       \/ /\ buf = <<>>
          /\ Return(c, IF rxClosed THEN "closed" ELSE "empty")
          /\ UNCHANGED <<buf, got>>
    /\ Leave(c)
    /\ UNCHANGED <<capacity, shutdown, rxClosed, op, late>>

CloseCancel(c) ==
    /\ pc[c] = "check" /\ op[c] = "close"
    /\ shutdown' = TRUE
    /\ Goto(c, "seal")
    /\ UNCHANGED <<capacity, rxClosed, buf, lineVars, op, got, late>>

\* try_lock: the channel is closed only if nobody has or awaits the receiver.
CloseSeal(c) ==
    /\ pc[c] = "seal"
    /\ rxClosed' = (rxClosed \/ Receivers = {})
    /\ Return(c, "ok")
    /\ UNCHANGED <<capacity, shutdown, buf, lineVars, op, got, late>>

-----------------------------------------------------------------------------
(* The asyncio bridge of send and recv (future_into_py).                   *)

Deliver(c) ==
    /\ pc[c] = "deliver"
    /\ Goto(c, "done")
    /\ UNCHANGED <<chanVars, lineVars, op, got, late>>

\* The asyncio future is cancelled: the Rust future is dropped at its await,
\* or the result it has already produced is thrown away.
Cancel(c) ==
    /\ op[c] \in {"send", "recv"} /\ pc[c] \in {"lock", "pending", "deliver"}
    /\ pc' = [pc EXCEPT ![c] = "done"]
    /\ result' = [result EXCEPT ![c] = "cancelled"]
    /\ Leave(c)
    /\ UNCHANGED <<chanVars, op, got, late>>

-----------------------------------------------------------------------------
Run(c) ==
    \/ SendCheck(c) \/ SendTry(c) \/ SendWake(c)
    \/ RecvLock(c) \/ RecvPoll(c) \/ RecvTake(c) \/ RecvWake(c)
    \/ TryRecvLock(c) \/ TryRecvTake(c) \/ CloseCancel(c) \/ CloseSeal(c) \/ Deliver(c)

Next == \E c \in Calls : Begin(c) \/ Run(c) \/ Cancel(c)

Spec == Init /\ [][Next]_vars

\* Every call that can go on does; calling and cancelling are not fair.
FairSpec == Spec /\ \A c \in Calls : WF_vars(Run(c))

-----------------------------------------------------------------------------
(* Properties.                                                             *)

\* QueueClosed raised by a receive is final ("closed and drained"): the
\* channel is closed and empty, so no send is accepted and no item appears
\* afterwards, whichever of close, recv and try_recv closed the channel.
ClosedMeansDrained ==
    \A c \in Calls :
        op[c] \in RecvOps /\ result[c] = "closed" => rxClosed /\ buf = <<>>

\* How often the item of call i exists: in the channel, or with a receive.
Copies(i) == Cardinality({k \in DOMAIN buf : buf[k] = i})
             + Cardinality({c \in Calls : got[c] = i})

\* A send called after close() returned is never accepted, even though close
\* may have failed to lock the receiver and left the channel itself open.
NoLateSend ==
    \A c \in late : op[c] \in SendOps => Copies(c) = 0 /\ result[c] # "ok"

\* An item is never duplicated, never kept after its send was refused, and,
\* once its send succeeded, never gone: it is in the channel or with the one
\* receive that took it.  Only cancelling makes the outcome uncertain: the
\* item of a cancelled send may be in the queue, and a receive cancelled
\* after it took an item keeps it from everybody else.
ItemsAccounted ==
    \A i \in Calls :
        /\ Copies(i) <= 1
        /\ op[i] \in SendOps /\ result[i] = "ok" => Copies(i) = 1
        /\ result[i] \in {"closed", "full"} => Copies(i) = 0

\* close() wakes waiters: every send and receive in progress on a closed
\* queue returns, though close never waits for the receiver's mutex.
InProgress(c) == pc[c] \notin {"new", "done"}
CloseWakes ==
    \A c \in Calls : (shutdown /\ InProgress(c)) ~> ~InProgress(c)

\* A buffered item reaches a receive that waits for one: an item and a
\* waiting receive do not sit beside each other for ever.
ReceiverServed ==
    \A c \in Calls :
        (op[c] = "recv" /\ InProgress(c) /\ buf # <<>>) ~> (~InProgress(c) \/ buf = <<>>)
=============================================================================
