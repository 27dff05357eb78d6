------------------------- MODULE SecureSessionProofs -------------------------
(***************************************************************************)
(* Proofs about SecureSession, for any set of calls, any use of them and   *)
(* any last sequence number.                                               *)
(***************************************************************************)
EXTENDS SecureSession, TLAPS

-----------------------------------------------------------------------------
(* The inductive invariant: what holds of one call, of the gates, of what  *)
(* is on the wire, and of the call that is at it.                          *)

\* The places at which a call holds or awaits its gate; past the gate.
Holding == {"open", "armed", "write", "half", "header", "more", "body", "unwind", "release"}
Inside  == {"lock"} \cup Holding

\* Which operation can be where, on which end, with which result.
PlaceOK(c) ==
    /\ c \in queued <=> pc[c] \in Inside
    /\ pc[c] = "new" => op[c] = "none" /\ future[c] = "none"
    /\ pc[c] \in Inside \cup {"poll"} => op[c] \in IoOps /\ on[c] \in Sessions
    /\ pc[c] \in {"write", "half"} => op[c] = "send"
    /\ pc[c] \in {"header", "more", "body"} => op[c] = "receive"
    /\ pc[c] = "closing" => op[c] = "close"
    /\ op[c] \in IoOps \cup {"close", "abort"} => on[c] \in Sessions
    /\ pc[c] \notin {"unwind", "release", "done"} => result[c] = "none"
    /\ pc[c] \in {"unwind", "release"} => result[c] \in Failures
    /\ result[c] # "rejected"

\* Past the gate, nobody is ahead.
AheadOK(c) == pc[c] # "lock" => ahead[c] = {}

\* What ended the session of a call that failed, was cancelled or closed it.
EndedOK(c) ==
    /\ future[c] # "none" => op[c] \in IoOps \cup {"close"}
    /\ future[c] = "cancelled" => cancel[on[c]]
    /\ pc[c] = "release" => cancel[on[c]]
    /\ op[c] \in {"close", "abort"} => cancel[on[c]]
    /\ pc[c] = "done" /\ result[c] \in Failures /\ future[c] # "cancelling" =>
          on[c] \in Sessions /\ (cancel[on[c]] \/ closed[on[c]])

\* A late call finds its session ended and gets no further than ensure_open.
LateOK(c) ==
    /\ c \in late => pc[c] # "new"
    /\ c \in late /\ op[c] \in IoOps =>
          /\ cancel[on[c]] \/ closed[on[c]]
          /\ pc[c] \in {"poll", "lock", "open", "done"} /\ result[c] # "ok"

LocalOK(c) == PlaceOK(c) /\ AheadOK(c) /\ EndedOK(c) /\ LateOK(c)

\* Of two calls in the same queue one is ahead of the other.
QueueTotal ==
    \A c, d \in queued : c # d /\ SameGate(c, d) => c \in ahead[d] \/ d \in ahead[c]

\* How the call at a direction finds it: between two frames, or in its own.
AtFrame(c) ==
    /\ pc[c] = "write" => Len(wire[on[c]]) % 2 = 0
    /\ pc[c] = "half" => Len(wire[on[c]]) % 2 = 1 /\ wire[on[c]][Len(wire[on[c]])].call = c
    /\ pc[c] \in {"write", "half"} => sequence[on[c]]["send"] < MaxSeq
    /\ pc[c] = "header" => taken[on[c]] % 2 = 0
    /\ pc[c] \in {"more", "body"} => taken[on[c]] % 2 = 1

\* What is on the wire was written by sends of that end that got so far and
\* were not begun late, and a frame is not repeated.
Authentic(s) ==
    \A i \in 1 .. Len(wire[s]) :
        LET c == wire[s][i].call IN
        /\ on[c] = s /\ op[c] = "send" /\ pc[c] \in {"half", "unwind", "release", "done"}
        /\ pc[c] = "half" => i = Len(wire[s])
        /\ c \notin late

\* The halves on the wire are frames in sequence, the last one perhaps torn.
Framed(s) ==
    /\ sequence[s]["send"] = FirstSeq + (Len(wire[s]) \div 2)
    /\ \A i \in 1 .. Len(wire[s]) :
          /\ wire[s][i].sequence = FirstSeq + ((i - 1) \div 2)
          /\ wire[s][i].sequence < MaxSeq
          /\ i % 2 = 1 => wire[s][i].part = 1
          /\ i % 2 = 0 => wire[s][i].part = 2 /\ wire[s][i - 1].call = wire[s][i].call

\* What was received are the frames taken off the peer's wire, one by one.
InStep(s) ==
    /\ taken[s] <= Len(Stream(s))
    /\ Len(received[s]) = taken[s] \div 2
    /\ sequence[s]["receive"] = FirstSeq + Len(received[s])
    /\ \A k \in 1 .. Len(received[s]) : received[s][k] = Stream(s)[2 * k].call

IInv ==
    /\ TypeOK
    /\ \A c \in Calls : LocalOK(c) /\ AtFrame(c)
    /\ QueueTotal
    /\ \A s \in Sessions : Authentic(s) /\ Framed(s) /\ InStep(s)
    /\ TornFrameIsTerminal

-----------------------------------------------------------------------------
(* The two ends, and counting halves.                                      *)

\* Other is the one other end.
LEMMA OtherEnd ==
    ASSUME NEW s \in Sessions
    PROVE  /\ Other(s) \in Sessions /\ Other(s) # s /\ Other(Other(s)) = s
           /\ \A t \in Sessions : t = s \/ t = Other(s)
<1>1. PICK a \in Sessions, b \in Sessions : a # b /\ Sessions = {a, b} BY ConstantsAssumption
<1>2. \A t \in Sessions : Other(t) \in Sessions /\ Other(t) # t
  <2> TAKE t \in Sessions
  <2>1. \E u \in Sessions : u # t BY <1>1
  <2> QED BY <2>1 DEF Other
<1> QED BY <1>1, <1>2

\* Every second half completes a frame.
LEMMA Parity ==
    ASSUME NEW n \in Nat
    PROVE  /\ n % 2 \in {0, 1} /\ n \div 2 \in Nat
           /\ n = 2 * (n \div 2) + (n % 2)
           /\ n % 2 = 0 => (n + 1) % 2 = 1 /\ (n + 1) \div 2 = n \div 2
           /\ n % 2 = 1 => (n + 1) % 2 = 0 /\ (n + 1) \div 2 = (n \div 2) + 1
OBVIOUS

\* A direction that had half a frame is whole after the second half.
LEMMA SecondHalf ==
    ASSUME NEW n \in Nat, NEW m, n % 2 = 1, m = n + 1
    PROVE  m % 2 # 1
OBVIOUS

-----------------------------------------------------------------------------
(* How a step moves a call.                                                *)

\* It returns, fails with its guard armed, goes on with its gate as it was,
\* queues for its gate, or leaves it with the result it already has.
Moves(c) ==
    \/ \E r \in Results : Return(c, r)
    \/ \E r \in Failures : Unwind(c, r)
    \/ \E p \in Places : Goto(c, p) /\ UNCHANGED <<result, gateVars>>
    \/ \E p \in Places : Goto(c, p) /\ Join(c) /\ UNCHANGED result
    \/ \E p \in Places : Goto(c, p) /\ Leave(c) /\ UNCHANGED result

\* A step of a call already begun, by its task.
CallAction(c) == Run(c) \/ ReadReset(c) \/ DropFuture(c)

\* Every such step moves its call in one of these ways.
LEMMA CallMoves ==
    ASSUME TypeOK, NEW c \in Calls, CallAction(c)
    PROVE  Moves(c) /\ UNCHANGED <<on, op, future, late>>
<1> USE DEF Moves, Places, Results, Failures
<1>1. CASE CloseInner(c) BY <1>1 DEF CloseInner
<1>2. CASE GatePoll(c) BY <1>2 DEF GatePoll
<1>3. CASE GateWait(c) BY <1>3 DEF GateWait
<1>4. CASE EnsureOpen(c) BY <1>4 DEF EnsureOpen
<1>5. CASE Armed(c) BY <1>5 DEF Armed
<1>6. CASE IoCancelled(c) BY <1>6 DEF IoCancelled
<1>7. CASE IoFails(c) BY <1>7 DEF IoFails
<1>8. CASE WriteHalf(c) BY <1>8 DEF WriteHalf
<1>9. CASE WriteRest(c) BY <1>9 DEF WriteRest
<1>10. CASE ReadHeader(c) BY <1>10 DEF ReadHeader
<1>11. CASE ReadMore(c) BY <1>11 DEF ReadMore
<1>12. CASE ReadBody(c) BY <1>12 DEF ReadBody
<1>13. CASE ReadEof(c) BY <1>13 DEF ReadEof
<1>14. CASE DropGuards(c) BY <1>14 DEF DropGuards
<1>15. CASE ReadReset(c) BY <1>15 DEF ReadReset
<1>16. CASE DropFuture(c) BY <1>16 DEF DropFuture
<1> QED BY <1>1, <1>2, <1>3, <1>4, <1>5, <1>6, <1>7, <1>8, <1>9, <1>10, <1>11, <1>12, <1>13,
           <1>14, <1>15, <1>16 DEF CallAction, Run

\* The variables that describe the calls and the gates.
CallsTyped ==
    /\ queued \in SUBSET Calls /\ ahead \in [Calls -> SUBSET Calls]
    /\ pc \in [Calls -> Places] /\ result \in [Calls -> Results]
    /\ on \in [Calls -> Sessions \cup {"none"}] /\ op \in [Calls -> AllOps \cup {"none"}]
    /\ future \in [Calls -> {"none", "pending", "cancelling", "cancelled"}]
    /\ late \in SUBSET Calls

\* Everything LocalOK(d) reads of call d itself is as it was, except that
\* calls ahead of it may have left.
Untouched(d) ==
    /\ pc'[d] = pc[d] /\ on'[d] = on[d] /\ op'[d] = op[d]
    /\ result'[d] = result[d] /\ future'[d] = future[d]
    /\ d \in queued' <=> d \in queued
    /\ ahead'[d] \subseteq ahead[d]
    /\ d \in late' <=> d \in late

\* A move of c is well typed and touches no other call.
LEMMA MovesFrame ==
    ASSUME TypeOK, NEW c \in Calls, Moves(c), UNCHANGED <<on, op, future, late>>
    PROVE  CallsTyped' /\ \A d \in Calls \ {c} : Untouched(d)
<1> USE DEF TypeOK, CallsTyped, Untouched
<1>1. ASSUME NEW r \in Results, Return(c, r)
      PROVE  CallsTyped' /\ \A d \in Calls \ {c} : Untouched(d)
      BY <1>1 DEF Return, Goto, Leave, Places
<1>2. ASSUME NEW r \in Failures, Unwind(c, r)
      PROVE  CallsTyped' /\ \A d \in Calls \ {c} : Untouched(d)
      BY <1>2 DEF Unwind, Goto, gateVars, Places, Results
<1>3. ASSUME NEW p \in Places, Goto(c, p), UNCHANGED <<result, gateVars>>
      PROVE  CallsTyped' /\ \A d \in Calls \ {c} : Untouched(d)
      BY <1>3 DEF Goto, gateVars
<1>4. ASSUME NEW p \in Places, Goto(c, p), Join(c), UNCHANGED result
      PROVE  CallsTyped' /\ \A d \in Calls \ {c} : Untouched(d)
      BY <1>4 DEF Goto, Join
<1>5. ASSUME NEW p \in Places, Goto(c, p), Leave(c), UNCHANGED result
      PROVE  CallsTyped' /\ \A d \in Calls \ {c} : Untouched(d)
      BY <1>5 DEF Goto, Leave
<1> QED BY <1>1, <1>2, <1>3, <1>4, <1>5 DEF Moves

\* A token once cancelled, and a transport once closed, stay so.
Monotone ==
    \A s \in Sessions : (cancel[s] => cancel'[s]) /\ (closed[s] => closed'[s])

\* LocalOK of a call survives the steps of the others.
LEMMA UntouchedKeeps ==
    ASSUME TypeOK, NEW d \in Calls, LocalOK(d), Untouched(d), Monotone
    PROVE  LocalOK(d)'
<1> USE DEF Untouched
<1>1. PlaceOK(d)' BY DEF LocalOK, PlaceOK
<1>2. AheadOK(d)' BY DEF LocalOK, AheadOK
<1>3. EndedOK(d)' BY DEF LocalOK, PlaceOK, EndedOK, Monotone, Inside, Holding
<1>4. LateOK(d)' BY DEF LocalOK, PlaceOK, LateOK, Monotone
<1> QED BY <1>1, <1>2, <1>3, <1>4 DEF LocalOK

\* Where a move leaves its call.
LEMMA Moved ==
    ASSUME TypeOK, NEW c \in Calls
    PROVE  /\ \A r \in Results : Return(c, r) =>
                 pc'[c] = "done" /\ result'[c] = r /\ c \notin queued' /\ ahead'[c] = {}
           /\ \A r \in Failures : Unwind(c, r) =>
                 pc'[c] = "unwind" /\ result'[c] = r /\ UNCHANGED <<queued, ahead>>
           /\ \A p \in Places : Goto(c, p) => pc'[c] = p
           /\ Join(c) => c \in queued'
           /\ Leave(c) => c \notin queued' /\ ahead'[c] = {}
BY DEF TypeOK, Return, Unwind, Goto, Join, Leave, gateVars, Results

-----------------------------------------------------------------------------
(* LocalOK of the call that moves.                                         *)

\* A call that returns r satisfies LocalOK if the result is accounted for.
LEMMA ReturnLocal ==
    ASSUME TypeOK, NEW c \in Calls, LocalOK(c), NEW r \in Results, r # "rejected", Return(c, r),
           Monotone, UNCHANGED <<on, op, future, late>>,
           op[c] \in IoOps \cup {"close", "abort"},
           r \in Failures /\ future[c] # "cancelling" => cancel'[on[c]] \/ closed'[on[c]],
           r = "ok" => c \notin late \/ op[c] \notin IoOps
    PROVE  LocalOK(c)'
<1>1. pc'[c] = "done" /\ result'[c] = r /\ c \notin queued' /\ ahead'[c] = {} BY Moved
<1>2. on[c] \in Sessions BY DEF LocalOK, PlaceOK
<1>3. PlaceOK(c)' BY <1>1, <1>2 DEF PlaceOK, Inside, Holding
<1>4. AheadOK(c)' BY <1>1 DEF AheadOK
<1>5. EndedOK(c)' BY <1>1, <1>2 DEF LocalOK, EndedOK, Monotone
<1>6. LateOK(c)' BY <1>1, <1>2 DEF LocalOK, LateOK, Monotone
<1> QED BY <1>3, <1>4, <1>5, <1>6 DEF LocalOK

\* A call that fails past its gate keeps the gate, with its guard armed.
LEMMA UnwindLocal ==
    ASSUME TypeOK, NEW c \in Calls, LocalOK(c), NEW r \in Failures, r # "rejected", Unwind(c, r),
           Monotone, UNCHANGED <<on, op, future, late>>,
           pc[c] \in {"armed", "more"} \cup Awaiting
    PROVE  LocalOK(c)'
<1>1. pc'[c] = "unwind" /\ result'[c] = r /\ UNCHANGED <<queued, ahead>> BY Moved
<1>2. on[c] \in Sessions /\ op[c] \in IoOps
      BY DEF LocalOK, PlaceOK, Inside, Holding, Awaiting
<1>3. PlaceOK(c)' BY <1>1, <1>2 DEF LocalOK, PlaceOK, Inside, Holding, Awaiting
<1>4. AheadOK(c)' BY <1>1 DEF LocalOK, AheadOK, Awaiting
<1>5. EndedOK(c)' BY <1>1, <1>2 DEF LocalOK, EndedOK, Monotone
<1>6. LateOK(c)' BY <1>1, <1>2 DEF LocalOK, LateOK, Monotone, Awaiting
<1> QED BY <1>3, <1>4, <1>5, <1>6 DEF LocalOK

\* A call that goes on past its gate keeps it; only an open session lets it
\* go on beyond ensure_open.
LEMMA GotoLocal ==
    ASSUME TypeOK, NEW c \in Calls, LocalOK(c), NEW p \in Holding, Goto(c, p),
           Monotone, UNCHANGED <<on, op, future, late, result, gateVars>>,
           pc[c] \in Inside \ {"unwind", "release"}, pc[c] = "lock" => p = "open" /\ ahead[c] = {},
           pc[c] = "open" => ~cancel[on[c]] /\ ~closed[on[c]],
           p \in {"write", "half"} => op[c] = "send",
           p \in {"header", "more", "body"} => op[c] = "receive",
           p \notin {"unwind", "release"}
    PROVE  LocalOK(c)'
<1>1. pc'[c] = p BY Moved DEF Holding, Places
<1>2. on[c] \in Sessions /\ op[c] \in IoOps /\ pc[c] # "done"
      BY DEF LocalOK, PlaceOK, Inside, Holding
<1>3. PlaceOK(c)' BY <1>1, <1>2 DEF LocalOK, PlaceOK, Inside, Holding, gateVars
<1>4. AheadOK(c)' BY <1>1 DEF LocalOK, AheadOK, gateVars
<1>5. EndedOK(c)' BY <1>1, <1>2 DEF LocalOK, EndedOK, Monotone, Holding
<1>6. LateOK(c)'
  <2>1. CASE c \notin late BY <2>1 DEF LateOK
  <2>2. CASE c \in late
    <3>1. pc[c] = "lock" BY <1>2, <2>2 DEF LocalOK, LateOK, Inside, Holding
    <3> QED BY <1>1, <1>2, <2>2, <3>1 DEF LocalOK, LateOK, Monotone
  <2> QED BY <2>1, <2>2
<1> QED BY <1>3, <1>4, <1>5, <1>6 DEF LocalOK

\* The call that has read a header finds the body of the same frame next, with
\* the sequence number that its end expects, and not the last one.
LEMMA BodyAccepted ==
    ASSUME IInv, NEW c \in Calls, pc[c] = "body", Readable(on[c])
    PROVE  LET s == on[c] IN
           /\ s \in Sessions /\ taken[s] \in Nat /\ taken[s] % 2 = 1
           /\ Accepts(s, Stream(s)[taken[s]], Stream(s)[taken[s] + 1])
           /\ sequence[s]["receive"] + 1 <= MaxSeq
<1> DEFINE s == on[c]
           n == taken[s]
           w == Stream(s)
<1>1. s \in Sessions BY DEF IInv, LocalOK, PlaceOK, Inside, Holding
<1>2. Other(s) \in Sessions /\ w = wire[Other(s)] BY <1>1, OtherEnd DEF Stream
<1>3. n \in Nat /\ n % 2 = 1 /\ Len(w) \in Nat /\ n < Len(w) /\ w \in Seq(Half)
  <2>1. n \in Nat /\ w \in Seq(Half) BY <1>1, <1>2 DEF IInv, TypeOK
  <2>2. n % 2 = 1 BY DEF IInv, AtFrame
  <2>3. n < Len(w) BY DEF Readable
  <2> QED BY <2>1, <2>2, <2>3
<1>4. n \in 1 .. Len(w) /\ n + 1 \in 1 .. Len(w) BY <1>3
<1>5. (n + 1) % 2 = 0 /\ (n - 1) \div 2 = n \div 2 /\ (n + 1) - 1 = n
  <2> DEFINE m == n - 1
  <2>1. m \in Nat /\ m + 1 = n BY <1>3
  <2> HIDE DEF m
  <2>2. m % 2 = 0 /\ (m + 1) \div 2 = m \div 2 BY <1>3, <2>1, Parity
  <2>3. (n + 1) % 2 = 0 BY <1>3, Parity
  <2> QED BY <1>3, <2>1, <2>2, <2>3 DEF m
<1>6. /\ w[n].part = 1 /\ w[n].sequence = FirstSeq + ((n - 1) \div 2) /\ w[n].sequence < MaxSeq
      /\ w[n + 1].part = 2 /\ w[n].call = w[n + 1].call
  <2>1. \A i \in 1 .. Len(w) :
          /\ w[i].sequence = FirstSeq + ((i - 1) \div 2)
          /\ w[i].sequence < MaxSeq
          /\ i % 2 = 1 => w[i].part = 1
          /\ i % 2 = 0 => w[i].part = 2 /\ w[i - 1].call = w[i].call
    <3>1. Framed(Other(s)) BY <1>2 DEF IInv
    <3> QED BY <3>1 DEF Framed, Stream
  <2> HIDE DEF n, w
  <2> QED BY <1>3, <1>4, <1>5, <2>1
<1>7. sequence[s]["receive"] = FirstSeq + (n \div 2) BY <1>1 DEF IInv, InStep
<1>8. w[n].sequence = sequence[s]["receive"] BY <1>5, <1>6, <1>7
<1>9. sequence[s]["receive"] \in Nat BY <1>1 DEF IInv, TypeOK, IoOps
<1> QED BY <1>1, <1>3, <1>6, <1>8, <1>9, ConstantsAssumption DEF Accepts

\* No step takes back a cancellation or a close.
LEMMA NeverReset ==
    ASSUME TypeOK, [Next]_vars
    PROVE  Monotone
<1> USE DEF TypeOK, Monotone, connVars
<1>1. ASSUME NEW s, cancel' = cancel \/ Cancel(s),
             closed' = closed \/ closed' = [closed EXCEPT ![s] = TRUE]
      PROVE  Monotone
      BY <1>1 DEF Cancel
<1>2. ASSUME NEW c \in Calls, CallAction(c) PROVE Monotone
  <2>1. \/ UNCHANGED <<cancel, closed>>
        \/ cancel' = cancel /\ closed' = [closed EXCEPT ![on[c]] = TRUE]
        \/ Cancel(on[c]) /\ closed' = closed
        BY <1>2 DEF CallAction, Run, CloseInner, GatePoll, GateWait, EnsureOpen, Armed, IoCancelled,
              IoFails, WriteHalf, WriteRest, ReadHeader, ReadMore, ReadBody, ReadEof, DropGuards,
              ReadReset, DropFuture
  <2> QED BY <1>1, <2>1
<1>3. ASSUME NEW c \in Calls, Begin(c) PROVE Monotone BY <1>1, <1>3 DEF Begin
<1>4. ASSUME NEW c \in Calls, BeginOversized(c) \/ BeginPause(c) \/ PyCancel(c) PROVE Monotone
      BY <1>4 DEF BeginOversized, BeginPause, PyCancel
<1>5. ASSUME NEW c \in Calls, PyCallback(c) PROVE Monotone BY <1>1, <1>5 DEF PyCallback
<1>6. ASSUME NEW s \in Sessions, Waiter(s) PROVE Monotone BY <1>1, <1>6 DEF Waiter
<1>7. CASE UNCHANGED vars BY <1>7 DEF vars
<1> QED BY <1>2, <1>3, <1>4, <1>5, <1>6, <1>7 DEF Next, CallAction

\* Every step of a call re-establishes LocalOK of that call.
LEMMA LocalStep ==
    ASSUME IInv, NEW c \in Calls, CallAction(c)
    PROVE  LocalOK(c)'
<1>0. /\ TypeOK /\ LocalOK(c) /\ PlaceOK(c) /\ EndedOK(c) /\ Monotone
      /\ UNCHANGED <<on, op, future, late>>
      BY CallMoves, NeverReset DEF IInv, LocalOK, Next, CallAction
<1> USE <1>0 DEF PlaceOK, Inside, Holding, Awaiting, IoOps, Places, Results, Failures
<1>1. CASE CloseInner(c)
  <2>1. pc[c] = "closing" /\ Return(c, "ok") BY <1>1 DEF CloseInner
  <2> QED BY <2>1, ReturnLocal
<1>2. CASE GatePoll(c)
  <2>1. pc[c] = "poll" /\ UNCHANGED <<cancel, closed>> BY <1>2 DEF GatePoll, connVars
  <2>2. CASE cancel[on[c]] /\ Return(c, "closed") BY <2>1, <2>2, ReturnLocal
  <2>3. CASE Goto(c, "lock") /\ Join(c) /\ UNCHANGED result
    <3>1. pc'[c] = "lock" /\ c \in queued' BY <2>3, Moved
    <3> QED BY <2>1, <2>3, <3>1 DEF LocalOK, AheadOK, EndedOK, LateOK
  <2> QED BY <1>2, <2>2, <2>3 DEF GatePoll
<1>3. CASE GateWait(c)
  <2>1. pc[c] = "lock" /\ UNCHANGED <<cancel, closed>> BY <1>3 DEF GateWait, connVars
  <2>2. CASE cancel[on[c]] /\ Return(c, "closed") BY <2>1, <2>2, ReturnLocal
  <2>3. CASE ahead[c] = {} /\ Goto(c, "open") /\ UNCHANGED <<result, gateVars>>
        BY <2>1, <2>3, GotoLocal
  <2> QED BY <1>3, <2>2, <2>3 DEF GateWait
<1>4. CASE EnsureOpen(c)
  <2>1. pc[c] = "open" /\ UNCHANGED <<cancel, closed>> BY <1>4 DEF EnsureOpen, connVars
  <2>2. CASE (cancel[on[c]] \/ closed[on[c]]) /\ Return(c, "closed") BY <2>1, <2>2, ReturnLocal
  <2>3. CASE ~cancel[on[c]] /\ ~closed[on[c]] /\ Goto(c, "armed") /\ UNCHANGED <<result, gateVars>>
        BY <2>1, <2>3, GotoLocal
  <2> QED BY <1>4, <2>2, <2>3 DEF EnsureOpen
<1>5. CASE Armed(c)
  <2>1. pc[c] = "armed" BY <1>5 DEF Armed
  <2>2. ASSUME NEW r \in {"closed", "exhausted", "refused"}, Unwind(c, r) PROVE LocalOK(c)'
        BY <2>1, <2>2, UnwindLocal
  <2>3. CASE /\ Goto(c, IF op[c] = "send" THEN "write" ELSE "header")
             /\ UNCHANGED <<result, gateVars>>
    <3>1. CASE op[c] = "send" BY <2>1, <2>3, <3>1, GotoLocal
    <3>2. CASE op[c] = "receive" BY <2>1, <2>3, <3>2, GotoLocal
    <3> QED BY <2>1, <3>1, <3>2
  <2> QED BY <1>5, <2>2, <2>3 DEF Armed
<1>6. CASE IoCancelled(c) \/ IoFails(c) \/ ReadReset(c) \/ ReadEof(c)
  <2>1. PICK r \in {"closed", "failed", "eof"} : pc[c] \in Awaiting /\ Unwind(c, r)
        BY <1>6 DEF IoCancelled, IoFails, ReadReset, ReadEof
  <2> QED BY <2>1, UnwindLocal
<1>7. CASE WriteHalf(c)
  <2>1. pc[c] = "write" /\ Goto(c, "half") /\ UNCHANGED <<result, gateVars>> BY <1>7 DEF WriteHalf
  <2> QED BY <2>1, GotoLocal
<1>8. CASE WriteRest(c)
  <2>1. pc[c] = "half" /\ Return(c, "ok") BY <1>8 DEF WriteRest
  <2>2. c \notin late BY <2>1 DEF LocalOK, LateOK
  <2> QED BY <2>1, <2>2, ReturnLocal
<1>9. CASE ReadHeader(c)
  <2>1. pc[c] = "header" /\ Goto(c, "more") /\ UNCHANGED <<result, gateVars>>
        BY <1>9 DEF ReadHeader
  <2> QED BY <2>1, GotoLocal
<1>10. CASE ReadMore(c)
  <2>1. pc[c] = "more" BY <1>10 DEF ReadMore
  <2>2. CASE Unwind(c, "refused") BY <2>1, <2>2, UnwindLocal
  <2>3. CASE Goto(c, "body") /\ UNCHANGED <<result, gateVars>> BY <2>1, <2>3, GotoLocal
  <2> QED BY <1>10, <2>2, <2>3 DEF ReadMore
<1>11. CASE ReadBody(c)
  <2>1. pc[c] = "body" /\ Readable(on[c]) BY <1>11 DEF ReadBody
  <2>2. Return(c, "ok")
    <3>1. /\ Accepts(on[c], Stream(on[c])[taken[on[c]]], Stream(on[c])[taken[on[c]] + 1])
          /\ sequence[on[c]]["receive"] + 1 <= MaxSeq
          /\ sequence[on[c]]["receive"] \in Nat
          BY <2>1, BodyAccepted DEF TypeOK
    <3>2. ~(sequence[on[c]]["receive"] + 1 > MaxSeq) BY <3>1, ConstantsAssumption
    <3> QED BY <1>11, <3>1, <3>2 DEF ReadBody
  <2>3. c \notin late BY <2>1 DEF LocalOK, LateOK
  <2> QED BY <2>1, <2>2, <2>3, ReturnLocal
<1>12. CASE DropGuards(c)
  <2>1. CASE pc[c] = "unwind" /\ Cancel(on[c]) /\ Goto(c, "release") /\ UNCHANGED <<result, gateVars>>
    <3>1. pc'[c] = "release" BY <2>1, Moved
    <3>2. cancel'[on[c]] BY <2>1 DEF Cancel, TypeOK
    <3> QED BY <2>1, <3>1, <3>2 DEF LocalOK, AheadOK, EndedOK, LateOK, gateVars
  <2>2. CASE pc[c] = "release" /\ Leave(c) /\ Goto(c, "done") /\ UNCHANGED <<result, cancel>>
    <3>1. pc'[c] = "done" /\ c \notin queued' /\ ahead'[c] = {} BY <2>2, Moved
    <3> QED BY <2>2, <3>1 DEF LocalOK, AheadOK, EndedOK, LateOK
  <2> QED BY <1>12, <2>1, <2>2 DEF DropGuards
<1>13. CASE DropFuture(c)
  <2>1. future[c] \in {"cancelling", "cancelled"} /\ UNCHANGED cancel BY <1>13 DEF DropFuture
  <2>2. CASE pc[c] \in {"poll", "lock", "closing"} /\ Return(c, "dropped")
        BY <2>1, <2>2, ReturnLocal DEF EndedOK
  <2>3. CASE pc[c] \in Awaiting /\ Unwind(c, "dropped") BY <2>3, UnwindLocal
  <2> QED BY <1>13, <2>2, <2>3 DEF DropFuture
<1> QED BY <1>1, <1>2, <1>3, <1>4, <1>5, <1>6, <1>7, <1>8, <1>9, <1>10, <1>11, <1>12, <1>13
        DEF CallAction, Run

-----------------------------------------------------------------------------
(* The steps that are not a step of a call's task.                         *)

\* A session that has visibly ended is cancelled or closed.
LEMMA EndedTerminal ==
    ASSUME IInv, NEW s \in Sessions, Ended(s)
    PROVE  cancel[s] \/ closed[s]
<1>1. PICK d \in Calls : on[d] = s /\ (\/ op[d] \in {"close", "abort"}
                                       \/ /\ pc[d] = "done" /\ result[d] \in Failures
                                          /\ future[d] # "cancelling")
      BY DEF Ended
<1>2. EndedOK(d) BY DEF IInv, LocalOK
<1> QED BY <1>1, <1>2 DEF EndedOK

\* The application and the event loop: calling an operation, cancelling its
\* future, running the callback.
AppAction(c) ==
    BeginOversized(c) \/ Begin(c) \/ BeginPause(c) \/ PyCancel(c) \/ PyCallback(c)

\* They keep LocalOK of their call, leave the gates and the data alone, touch
\* no other call, and neither begin nor end the use of a direction.
LEMMA AppStep ==
    ASSUME IInv, NEW c \in Calls, AppAction(c)
    PROVE  /\ CallsTyped' /\ cancel' \in [Sessions -> BOOLEAN]
           /\ paused' \in [Sessions -> BOOLEAN]
           /\ UNCHANGED <<closed, gateVars, dataVars>>
           /\ \A d \in Calls \ {c} : Untouched(d)
           /\ LocalOK(c)'
           /\ pc'[c] = pc[c] \/ pc'[c] \in {"poll", "closing", "done"}
           /\ UNCHANGED <<op, on, pc, result, late>> \/ pc[c] = "new"
<1>0. /\ TypeOK /\ CallsTyped /\ LocalOK(c) /\ PlaceOK(c) /\ AheadOK(c) /\ EndedOK(c) /\ LateOK(c)
      /\ Monotone
      BY NeverReset DEF IInv, TypeOK, CallsTyped, LocalOK, Next, AppAction
<1>00. pc[c] = "new" => /\ c \notin queued /\ ahead[c] = {} /\ result[c] = "none"
                        /\ future[c] = "none"
      BY <1>0 DEF PlaceOK, AheadOK, Inside, Holding
<1> USE DEF Places, Results, Failures, AllOps, IoOps
<1>1. CASE BeginOversized(c)
  <2>1. /\ pc[c] = "new" /\ pc' = [pc EXCEPT ![c] = "done"]
        /\ op' = [op EXCEPT ![c] = "oversized"] /\ result' = [result EXCEPT ![c] = "toolarge"]
        /\ UNCHANGED <<cancel, closed, paused, gateVars, on, future, dataVars, late>>
        BY <1>1 DEF BeginOversized, Goto, connVars
  <2>2. CallsTyped' /\ \A d \in Calls \ {c} : Untouched(d)
        BY <1>0, <2>1 DEF CallsTyped, Untouched, gateVars
  <2>3. /\ pc'[c] = "done" /\ op'[c] = "oversized" /\ result'[c] = "toolarge"
        /\ UNCHANGED <<queued, ahead>>
        BY <1>0, <2>1 DEF CallsTyped, gateVars
  <2>4. LocalOK(c)'
        BY <1>00, <2>1, <2>3 DEF LocalOK, PlaceOK, AheadOK, EndedOK, LateOK, Inside, Holding
  <2> QED BY <1>0, <2>1, <2>2, <2>3, <2>4 DEF TypeOK
<1>2. CASE Begin(c)
  <2>1. PICK s \in Sessions, o \in IoOps \cup {"close", "abort"} :
          /\ on' = [on EXCEPT ![c] = s] /\ op' = [op EXCEPT ![c] = o]
          /\ late' = late \cup {d \in {c} : Ended(s)}
          /\ \/ /\ o \in IoOps /\ Goto(c, "poll")
                /\ future' = [future EXCEPT ![c] = "pending"]
                /\ UNCHANGED cancel
             \/ /\ o = "close" /\ Cancel(s) /\ Goto(c, "closing")
                /\ future' = [future EXCEPT ![c] = "pending"]
             \/ /\ o = "abort" /\ Cancel(s) /\ Goto(c, "done")
                /\ UNCHANGED future
        BY <1>2 DEF Begin
  <2>2. pc[c] = "new" /\ UNCHANGED <<closed, paused, gateVars, result, dataVars>>
        BY <1>2 DEF Begin, connVars
  <2>3. /\ on'[c] = s /\ op'[c] = o /\ future'[c] \in {"none", "pending"}
        /\ future'[c] = "pending" => o \in IoOps \cup {"close"}
        /\ pc'[c] = CASE o \in IoOps -> "poll" [] o = "close" -> "closing" [] OTHER -> "done"
        BY <1>0, <1>00, <2>1, <2>2 DEF CallsTyped, Goto
  <2>4. o \notin IoOps => cancel'[s] BY <1>0, <2>1 DEF TypeOK, Cancel
  <2>5. CallsTyped' /\ \A d \in Calls \ {c} : Untouched(d)
    <3>1. late' \in SUBSET Calls /\ \A d \in Calls \ {c} : d \in late' <=> d \in late
          BY <1>0, <2>1 DEF CallsTyped
    <3>2. /\ on' \in [Calls -> Sessions \cup {"none"}]
          /\ op' \in [Calls -> AllOps \cup {"none"}]
          /\ \A d \in Calls \ {c} : on'[d] = on[d] /\ op'[d] = op[d]
          BY <1>0, <2>1 DEF CallsTyped
    <3>3. /\ pc' \in [Calls -> Places]
          /\ future' \in [Calls -> {"none", "pending", "cancelling", "cancelled"}]
          /\ \A d \in Calls \ {c} : pc'[d] = pc[d] /\ future'[d] = future[d]
          BY <1>0, <2>1 DEF CallsTyped, Goto
    <3> QED BY <1>0, <2>2, <3>1, <3>2, <3>3 DEF CallsTyped, Untouched, gateVars
  <2>6. cancel' \in [Sessions -> BOOLEAN] BY <1>0, <2>1 DEF TypeOK, Cancel
  <2>7. c \in late' /\ o \in IoOps => cancel'[s] \/ closed'[s]
    <3>1. c \in late' => Ended(s) BY <1>0, <2>1, <2>2 DEF LateOK
    <3> QED BY <1>0, <2>1, <2>2, <3>1, EndedTerminal DEF Monotone
  <2>8. LocalOK(c)'
        BY <1>00, <2>2, <2>3, <2>4, <2>7
           DEF LocalOK, PlaceOK, AheadOK, EndedOK, LateOK, Inside, Holding, gateVars
  <2> QED BY <1>0, <2>2, <2>3, <2>5, <2>6, <2>8 DEF TypeOK
<1>3. CASE BeginPause(c)
  <2>1. PICK s \in Sessions, o \in {"pause", "resume"} :
          /\ on' = [on EXCEPT ![c] = s] /\ op' = [op EXCEPT ![c] = o]
          /\ paused' = [paused EXCEPT ![s] = IF closed[s] THEN paused[s] ELSE o = "pause"]
        BY <1>3 DEF BeginPause
  <2>2. /\ pc[c] = "new" /\ pc' = [pc EXCEPT ![c] = "done"]
        /\ UNCHANGED <<cancel, closed, gateVars, result, future, dataVars, late>>
        BY <1>3 DEF BeginPause, Goto
  <2>3. CallsTyped' /\ \A d \in Calls \ {c} : Untouched(d)
        BY <1>0, <2>1, <2>2 DEF CallsTyped, Untouched, gateVars
  <2>4. pc'[c] = "done" /\ op'[c] \in {"pause", "resume"} /\ UNCHANGED <<queued, ahead>>
        BY <1>0, <2>1, <2>2 DEF CallsTyped, gateVars
  <2>5. LocalOK(c)'
        BY <1>00, <2>2, <2>4 DEF LocalOK, PlaceOK, AheadOK, EndedOK, LateOK, Inside, Holding
  <2>6. paused' \in [Sessions -> BOOLEAN]
    <3>1. (IF closed[s] THEN paused[s] ELSE o = "pause") \in BOOLEAN BY <1>0 DEF TypeOK
    <3> QED BY <1>0, <2>1, <3>1 DEF TypeOK
  <2> QED BY <1>0, <2>2, <2>3, <2>4, <2>5, <2>6 DEF TypeOK
<1>4. CASE PyCancel(c)
  <2>1. /\ future[c] = "pending"
        /\ future' = [future EXCEPT ![c] = IF op[c] \in IoOps THEN "cancelling" ELSE "cancelled"]
        /\ UNCHANGED <<cancel, closed, paused, gateVars, pc, on, op, result, dataVars, late>>
        BY <1>4 DEF PyCancel, connVars
  <2>2. CallsTyped' /\ \A d \in Calls \ {c} : Untouched(d)
        BY <1>0, <2>1 DEF CallsTyped, Untouched, gateVars
  <2>3. /\ future'[c] = IF op[c] \in IoOps THEN "cancelling" ELSE "cancelled"
        /\ UNCHANGED <<queued, ahead>>
        BY <1>0, <2>1 DEF CallsTyped, gateVars
  <2>4. LocalOK(c)' BY <1>0, <2>1, <2>3 DEF LocalOK, PlaceOK, AheadOK, EndedOK, LateOK
  <2> QED BY <1>0, <2>1, <2>2, <2>4 DEF TypeOK
<1>5. CASE PyCallback(c)
  <2>1. /\ future[c] = "cancelling" /\ future' = [future EXCEPT ![c] = "cancelled"]
        /\ cancel' = [cancel EXCEPT ![on[c]] = TRUE]
        /\ UNCHANGED <<closed, paused, gateVars, pc, on, op, result, dataVars, late>>
        BY <1>5 DEF PyCallback, Cancel, connVars
  <2>2. CallsTyped' /\ \A d \in Calls \ {c} : Untouched(d)
        BY <1>0, <2>1 DEF CallsTyped, Untouched, gateVars
  <2>3. future'[c] = "cancelled" /\ UNCHANGED <<queued, ahead>>
        BY <1>0, <2>1 DEF CallsTyped, gateVars
  <2>4. on[c] \in Sessions /\ cancel' \in [Sessions -> BOOLEAN] /\ cancel'[on[c]]
        BY <1>0, <2>1 DEF TypeOK, PlaceOK, EndedOK
  <2>5. LocalOK(c)' BY <1>0, <2>1, <2>3, <2>4 DEF LocalOK, PlaceOK, AheadOK, EndedOK, LateOK
  <2> QED BY <1>0, <2>1, <2>2, <2>4, <2>5 DEF TypeOK
<1> QED BY <1>1, <1>2, <1>3, <1>4, <1>5 DEF AppAction

-----------------------------------------------------------------------------
(* The gates.                                                              *)

\* LocalOK is preserved for every call.
LEMMA LocalPreserved ==
    ASSUME IInv, [Next]_vars
    PROVE  \A d \in Calls : LocalOK(d)'
<1>0. TypeOK /\ Monotone /\ \A d \in Calls : LocalOK(d) BY NeverReset DEF IInv
<1>1. ASSUME NEW c \in Calls, CallAction(c), NEW d \in Calls PROVE LocalOK(d)'
      BY <1>0, <1>1, LocalStep, CallMoves, MovesFrame, UntouchedKeeps
<1>2. ASSUME NEW c \in Calls, AppAction(c), NEW d \in Calls PROVE LocalOK(d)'
      BY <1>0, <1>2, AppStep, UntouchedKeeps
<1>3. ASSUME NEW s \in Sessions, Waiter(s) \/ UNCHANGED vars, NEW d \in Calls PROVE LocalOK(d)'
  <2>1. Untouched(d) BY <1>3 DEF Untouched, Waiter, vars, gateVars
  <2> QED BY <1>0, <2>1, UntouchedKeeps
<1> QED BY <1>1, <1>2, <1>3, ConstantsAssumption DEF Next, CallAction, AppAction

\* The queues of the gates stay totally ordered.
LEMMA QueuePreserved ==
    ASSUME IInv, [Next]_vars
    PROVE  QueueTotal'
<1> USE DEF IInv, QueueTotal, SameGate
<1>1. ASSUME NEW c \in Calls, CallAction(c) PROVE QueueTotal'
  <2>1. Moves(c) /\ op' = op /\ on' = on BY <1>1, CallMoves
  <2>2. CASE Leave(c) BY <2>1, <2>2 DEF Leave, TypeOK
  <2>3. CASE Join(c)
    <3>1. SUFFICES ASSUME NEW d \in queued', NEW e \in queued', d # e, SameGate(d, e)'
                   PROVE  (d \in ahead[e] \/ e \in ahead[d])'
          OBVIOUS
    <3>2. \A x \in Calls \ {c} : ahead'[x] = ahead[x] BY <2>3 DEF Join, TypeOK
    <3>3. ahead'[c] = {x \in queued : SameGate(c, x)} BY <2>3 DEF Join, TypeOK
    <3>4. queued' = queued \cup {c} /\ queued \subseteq Calls BY <2>3 DEF Join, TypeOK
    <3>5. CASE d = c BY <2>1, <3>1, <3>3, <3>4, <3>5
    <3>6. CASE e = c BY <2>1, <3>1, <3>3, <3>4, <3>6
    <3>7. CASE d # c /\ e # c BY <2>1, <3>1, <3>2, <3>4, <3>7
    <3> QED BY <3>5, <3>6, <3>7
  <2>4. CASE UNCHANGED gateVars BY <2>1, <2>4 DEF gateVars
  <2> QED BY <2>1, <2>2, <2>3, <2>4 DEF Moves, Return, Unwind
<1>2. ASSUME NEW c \in Calls, AppAction(c) PROVE QueueTotal'
  <2>1. /\ UNCHANGED gateVars /\ \A d \in Calls \ {c} : on'[d] = on[d] /\ op'[d] = op[d]
        /\ (op' = op /\ on' = on) \/ pc[c] = "new"
        BY <1>2, AppStep DEF Untouched
  <2>2. pc[c] = "new" => c \notin queued BY DEF LocalOK, PlaceOK, Inside, Holding
  <2>3. \A d \in queued : on'[d] = on[d] /\ op'[d] = op[d] BY <2>1, <2>2 DEF TypeOK
  <2> QED BY <2>1, <2>3 DEF gateVars
<1>3. ASSUME NEW s \in Sessions, Waiter(s) PROVE QueueTotal' BY <1>3 DEF Waiter, gateVars
<1>4. CASE UNCHANGED vars BY <1>4 DEF vars, gateVars
<1> QED BY <1>1, <1>2, <1>3, <1>4 DEF Next, CallAction, AppAction

\* Two calls past the same gate are the same call.
LEMMA Exclusive ==
    ASSUME IInv, NEW c \in Calls, NEW d \in Calls, SameGate(c, d),
           pc[c] \in Holding, pc[d] \in Holding
    PROVE  c = d
<1>1. c \in queued /\ d \in queued BY DEF IInv, LocalOK, PlaceOK, Inside
<1>2. ahead[c] = {} /\ ahead[d] = {} BY DEF IInv, LocalOK, AheadOK, Holding
<1> QED BY <1>1, <1>2 DEF IInv, QueueTotal

-----------------------------------------------------------------------------
(* Who reaches which place, and what the four steps on the stream do.      *)

\* The ways into a frame, out of one, and of changing the data.
Causes(c) ==
    /\ pc'[c] = "write" => Armed(c) /\ op[c] = "send"
    /\ pc'[c] = "header" => Armed(c) /\ op[c] = "receive"
    /\ pc'[c] = "half" => WriteHalf(c)
    /\ pc'[c] = "more" => ReadHeader(c)
    /\ pc'[c] = "body" => ReadMore(c)
    /\ pc[c] \in {"half", "more", "body", "unwind"} =>
          \/ pc'[c] \in {"half", "more", "body", "unwind"} \/ WriteRest(c) \/ ReadBody(c)
          \/ cancel'[on[c]]
    /\ UNCHANGED dataVars \/ WriteHalf(c) \/ WriteRest(c) \/ ReadHeader(c) \/ ReadBody(c)

\* Every step of a call has a cause of that kind.
LEMMA StepCauses ==
    ASSUME IInv, NEW c \in Calls, CallAction(c)
    PROVE  Causes(c)
<1>0. TypeOK /\ PlaceOK(c) BY DEF IInv, LocalOK
<1>00. ASSUME NEW r, Return(c, r) PROVE pc'[c] = "done" BY <1>0, <1>00 DEF TypeOK, Return, Goto
<1>000. ASSUME NEW r, Unwind(c, r) PROVE pc'[c] = "unwind" BY <1>0, <1>000 DEF TypeOK, Unwind, Goto
<1>0000. ASSUME NEW p, Goto(c, p) PROVE pc'[c] = p BY <1>0, <1>0000 DEF TypeOK, Goto
<1> USE <1>00, <1>000, <1>0000 DEF Causes
<1>1. CASE CloseInner(c) BY <1>1 DEF CloseInner
<1>2. CASE GatePoll(c) BY <1>2 DEF GatePoll
<1>3. CASE GateWait(c) BY <1>3 DEF GateWait
<1>4. CASE EnsureOpen(c) BY <1>4 DEF EnsureOpen
<1>5. CASE Armed(c)
  <2>1. op[c] \in {"send", "receive"} /\ pc[c] = "armed"
        BY <1>0, <1>5 DEF Armed, PlaceOK, Inside, Holding, IoOps
  <2>2. UNCHANGED dataVars BY <1>5 DEF Armed
  <2>3. \/ pc'[c] = "unwind"
        \/ pc'[c] = IF op[c] = "send" THEN "write" ELSE "header"
        BY <1>5 DEF Armed
  <2> QED BY <1>5, <2>1, <2>2, <2>3
<1>6. CASE IoCancelled(c) BY <1>6 DEF IoCancelled
<1>7. CASE IoFails(c) BY <1>7 DEF IoFails
<1>8. CASE WriteHalf(c) BY <1>8 DEF WriteHalf
<1>9. CASE WriteRest(c) BY <1>9 DEF WriteRest
<1>10. CASE ReadHeader(c) BY <1>10 DEF ReadHeader
<1>11. CASE ReadMore(c) BY <1>11 DEF ReadMore
<1>12. CASE ReadBody(c) BY <1>12 DEF ReadBody
<1>13. CASE ReadEof(c) BY <1>13 DEF ReadEof
<1>14. CASE DropGuards(c)
  <2>1. pc[c] = "unwind" => cancel'[on[c]]
    <3>1. pc[c] = "unwind" => on[c] \in Sessions BY <1>0 DEF PlaceOK, Inside, Holding
    <3> QED BY <1>0, <1>14, <3>1 DEF DropGuards, Cancel, TypeOK
  <2> QED BY <1>14, <2>1 DEF DropGuards
<1>15. CASE ReadReset(c) BY <1>15 DEF ReadReset
<1>16. CASE DropFuture(c) BY <1>16 DEF DropFuture
<1> QED BY <1>1, <1>2, <1>3, <1>4, <1>5, <1>6, <1>7, <1>8, <1>9, <1>10, <1>11, <1>12, <1>13,
           <1>14, <1>15, <1>16 DEF CallAction, Run

\* What writing the next half of a frame does to the wires.
Writes(c, n) ==
    LET s == on[c] IN
    /\ s \in Sessions /\ op[c] = "send" /\ pc[c] \in {"write", "half"}
    /\ wire' \in [Sessions -> Seq(Half)]
    /\ Len(wire[s]) \in Nat /\ Len(wire'[s]) = Len(wire[s]) + 1
    /\ wire'[s][Len(wire[s]) + 1] = Piece(c, n)
    /\ \A i \in 1 .. Len(wire[s]) : wire'[s][i] = wire[s][i]
    /\ \A t \in Sessions \ {s} : wire'[t] = wire[t]
    /\ UNCHANGED <<taken, received>>

\* A half is appended to the wire of the writer's end.
LEMMA WritesStep ==
    ASSUME IInv, NEW c \in Calls
    PROVE  /\ WriteHalf(c) => Writes(c, 1)
           /\ WriteRest(c) => Writes(c, 2)
<1> DEFINE s == on[c]
<1>1. ASSUME NEW n \in {1, 2}, pc[c] \in {"write", "half"}, UNCHANGED <<taken, received>>,
             wire' = [wire EXCEPT ![s] = Append(wire[s], Piece(c, n))]
      PROVE  Writes(c, n)
  <2>1. s \in Sessions /\ op[c] = "send"
        BY <1>1 DEF IInv, LocalOK, PlaceOK, Inside, Holding
  <2>2. wire \in [Sessions -> Seq(Half)] /\ wire[s] \in Seq(Half) BY <2>1 DEF IInv, TypeOK
  <2>3. Piece(c, n) \in Half
    <3>1. sequence[s]["send"] \in 0 .. MaxSeq BY <2>1 DEF IInv, TypeOK, IoOps
    <3> QED BY <1>1, <3>1 DEF Piece, Half
  <2>4. /\ Append(wire[s], Piece(c, n)) \in Seq(Half)
        /\ Len(Append(wire[s], Piece(c, n))) = Len(wire[s]) + 1
        /\ Append(wire[s], Piece(c, n))[Len(wire[s]) + 1] = Piece(c, n)
        /\ \A i \in 1 .. Len(wire[s]) : Append(wire[s], Piece(c, n))[i] = wire[s][i]
        BY <2>2, <2>3
  <2> QED BY <1>1, <2>1, <2>2, <2>4 DEF Writes
<1> QED BY <1>1 DEF WriteHalf, WriteRest

\* What reading the next half of a frame does.
Reads(c) ==
    LET s == on[c] IN
    /\ s \in Sessions /\ op[c] = "receive" /\ pc[c] \in {"header", "body"}
    /\ taken[s] \in Nat /\ taken[s] < Len(Stream(s))
    /\ taken' \in [Sessions -> Nat] /\ taken'[s] = taken[s] + 1
    /\ \A t \in Sessions \ {s} : taken'[t] = taken[t]
    /\ wire' = wire

\* One half is taken off the stream of the reader's end.
LEMMA ReadsStep ==
    ASSUME IInv, NEW c \in Calls, ReadHeader(c) \/ ReadBody(c)
    PROVE  Reads(c)
<1> DEFINE s == on[c]
<1>1. /\ pc[c] \in {"header", "body"} /\ Readable(s) /\ wire' = wire
      /\ taken' = [taken EXCEPT ![s] = taken[s] + 1]
      BY DEF ReadHeader, ReadBody
<1>2. s \in Sessions /\ op[c] = "receive"
      BY <1>1 DEF IInv, LocalOK, PlaceOK, Inside, Holding
<1> QED BY <1>1, <1>2 DEF Reads, Readable, IInv, TypeOK

\* What accepting a frame does: the message is received, the sequence advances.
LEMMA BodyStep ==
    ASSUME IInv, NEW c \in Calls, ReadBody(c)
    PROVE  LET s == on[c] IN
           /\ received' = [received EXCEPT ![s] =
                             Append(received[s], Stream(s)[taken[s] + 1].call)]
           /\ sequence' = [sequence EXCEPT ![s]["receive"] = sequence[s]["receive"] + 1]
           /\ Stream(s)[taken[s] + 1].call \in Calls
           /\ sequence[s]["receive"] + 1 \in 0 .. MaxSeq
           /\ Return(c, "ok")
<1> DEFINE s == on[c]
           w == Stream(s)
           n == taken[s]
<1>1. pc[c] = "body" /\ Readable(s) BY DEF ReadBody
<1>2. /\ s \in Sessions /\ n \in Nat
      /\ Accepts(s, w[n], w[n + 1]) /\ sequence[s]["receive"] + 1 <= MaxSeq
      BY <1>1, BodyAccepted
<1>3. sequence[s]["receive"] \in Nat /\ sequence[s]["receive"] + 1 \in 0 .. MaxSeq
  <2>1. sequence[s]["receive"] \in 0 .. MaxSeq BY <1>2 DEF IInv, TypeOK, IoOps
  <2> HIDE DEF s
  <2> QED BY <1>2, <2>1, ConstantsAssumption
<1>4. ~(sequence[s]["receive"] + 1 > MaxSeq) BY <1>2, <1>3, ConstantsAssumption
<1>5. /\ received' = [received EXCEPT ![s] = Append(received[s], w[n].call)]
      /\ sequence' = [sequence EXCEPT ![s]["receive"] = sequence[s]["receive"] + 1]
      /\ Return(c, "ok")
      BY <1>2, <1>4 DEF ReadBody
<1>6. w[n].call = w[n + 1].call BY <1>2 DEF Accepts
<1>7. w[n + 1].call \in Calls
  <2>1. w \in Seq(Half) /\ n < Len(w) BY <1>1, <1>2, OtherEnd DEF Stream, Readable, IInv, TypeOK
  <2>2. w[n + 1] \in Half BY <1>2, <2>1
  <2> QED BY <2>2 DEF Half
<1> QED BY <1>3, <1>5, <1>6, <1>7

-----------------------------------------------------------------------------
(* Type correctness.                                                       *)

\* The variables that the calls and the gates are not part of.
DataTyped ==
    /\ sequence \in [Sessions -> [IoOps -> 0 .. MaxSeq]]
    /\ wire \in [Sessions -> Seq(Half)] /\ taken \in [Sessions -> Nat]
    /\ received \in [Sessions -> Seq(Calls)]

\* Advancing one sequence number.
LEMMA SequenceTyped ==
    ASSUME TypeOK, NEW s \in Sessions, NEW d \in IoOps, NEW n \in 0 .. MaxSeq,
           sequence' = [sequence EXCEPT ![s][d] = n]
    PROVE  /\ sequence' \in [Sessions -> [IoOps -> 0 .. MaxSeq]]
           /\ sequence'[s][d] = n
           /\ \A t \in Sessions, e \in IoOps : t # s \/ e # d => sequence'[t][e] = sequence[t][e]
BY DEF TypeOK

\* What a completed send does to the sequence numbers.
LEMMA RestStep ==
    ASSUME IInv, NEW c \in Calls, WriteRest(c)
    PROVE  /\ sequence' \in [Sessions -> [IoOps -> 0 .. MaxSeq]]
           /\ sequence'[on[c]]["send"] = sequence[on[c]]["send"] + 1
           /\ \A t \in Sessions, e \in IoOps :
                 t # on[c] \/ e # "send" => sequence'[t][e] = sequence[t][e]
<1>1. on[c] \in Sessions /\ pc[c] = "half" BY WritesStep DEF Writes, WriteRest
<1>2. sequence[on[c]]["send"] \in 0 .. MaxSeq /\ sequence[on[c]]["send"] < MaxSeq
  <2>1. sequence[on[c]]["send"] \in 0 .. MaxSeq BY <1>1 DEF IInv, TypeOK, IoOps
  <2>2. sequence[on[c]]["send"] < MaxSeq BY <1>1 DEF IInv, AtFrame
  <2> QED BY <2>1, <2>2
<1>3. sequence[on[c]]["send"] + 1 \in 0 .. MaxSeq BY <1>2, ConstantsAssumption
<1>4. sequence' = [sequence EXCEPT ![on[c]]["send"] = sequence[on[c]]["send"] + 1]
      BY DEF WriteRest
<1> QED BY <1>1, <1>3, <1>4, SequenceTyped DEF IInv, IoOps

\* TypeOK is preserved by every step.
LEMMA TypeStep ==
    ASSUME IInv, [Next]_vars
    PROVE  TypeOK'
<1>0. TypeOK BY DEF IInv
<1>1. ASSUME NEW c \in Calls, CallAction(c) PROVE TypeOK'
  <2>1. CallsTyped' BY <1>0, <1>1, CallMoves, MovesFrame
  <2>2. /\ cancel' \in [Sessions -> BOOLEAN] /\ closed' \in [Sessions -> BOOLEAN]
        /\ paused' \in [Sessions -> BOOLEAN]
    <3>1. /\ \/ UNCHANGED <<cancel, closed>>
             \/ cancel' = cancel /\ closed' = [closed EXCEPT ![on[c]] = TRUE]
             \/ cancel' = [cancel EXCEPT ![on[c]] = TRUE] /\ closed' = closed
          /\ paused' = paused
          BY <1>1 DEF CallAction, Run, CloseInner, GatePoll, GateWait, EnsureOpen, Armed,
              IoCancelled, IoFails, WriteHalf, WriteRest, ReadHeader, ReadMore, ReadBody, ReadEof,
              DropGuards, ReadReset, DropFuture, connVars, Cancel
    <3> QED BY <1>0, <3>1 DEF TypeOK
  <2>3. DataTyped'
    <3>1. CASE UNCHANGED dataVars BY <1>0, <3>1 DEF TypeOK, DataTyped, dataVars
    <3>2. CASE WriteHalf(c)
      <4>1. UNCHANGED sequence BY <3>2 DEF WriteHalf
      <4> QED BY <1>0, <3>2, <4>1, WritesStep DEF Writes, TypeOK, DataTyped
    <3>3. CASE WriteRest(c) BY <1>0, <3>3, WritesStep, RestStep DEF Writes, TypeOK, DataTyped
    <3>4. CASE ReadHeader(c)
      <4>1. UNCHANGED <<sequence, received>> BY <3>4 DEF ReadHeader
      <4> QED BY <1>0, <3>4, <4>1, ReadsStep DEF Reads, TypeOK, DataTyped
    <3>5. CASE ReadBody(c)
      <4>1. Reads(c) BY <3>5, ReadsStep
      <4>2. sequence' \in [Sessions -> [IoOps -> 0 .. MaxSeq]]
            BY <1>0, <3>5, <4>1, BodyStep, SequenceTyped DEF Reads, IoOps
      <4>3. received' \in [Sessions -> Seq(Calls)]
        <5>1. PICK m \in Calls :
                received' = [received EXCEPT ![on[c]] = Append(received[on[c]], m)]
              BY <3>5, BodyStep
        <5>2. received \in [Sessions -> Seq(Calls)] /\ on[c] \in Sessions
              BY <1>0, <4>1 DEF Reads, TypeOK
        <5> QED BY <5>1, <5>2
      <4> QED BY <1>0, <4>1, <4>2, <4>3 DEF Reads, TypeOK, DataTyped
    <3> QED BY <1>1, <3>1, <3>2, <3>3, <3>4, <3>5, StepCauses DEF Causes
  <2> QED BY <2>1, <2>2, <2>3 DEF TypeOK, CallsTyped, DataTyped
<1>2. ASSUME NEW c \in Calls, AppAction(c) PROVE TypeOK'
      BY <1>0, <1>2, AppStep DEF TypeOK, CallsTyped, dataVars
<1>3. ASSUME NEW s \in Sessions, Waiter(s) PROVE TypeOK'
      BY <1>0, <1>3 DEF TypeOK, Waiter, gateVars, dataVars
<1>4. CASE UNCHANGED vars BY <1>0, <1>4 DEF TypeOK, vars, connVars, gateVars, dataVars
<1> QED BY <1>1, <1>2, <1>3, <1>4 DEF Next, CallAction, AppAction

-----------------------------------------------------------------------------
(* Frames.                                                                 *)

\* Between frames nothing is torn: the call about to use a direction of a
\* session that is not cancelled finds it whole.
LEMMA FindsWhole ==
    ASSUME IInv, NEW c \in Calls, pc[c] = "armed", ~cancel[on[c]]
    PROVE  /\ op[c] = "send" => Len(wire[on[c]]) % 2 = 0
           /\ op[c] = "receive" => taken[on[c]] % 2 = 0
<1>1. on[c] \in Sessions /\ op[c] \in IoOps /\ pc[c] \in Holding
      BY DEF IInv, LocalOK, PlaceOK, Inside, Holding
<1>2. ~Torn(on[c], op[c])
  <2>1. SUFFICES ASSUME Torn(on[c], op[c]) PROVE FALSE OBVIOUS
  <2>2. PICK d \in Calls : /\ on[d] = on[c] /\ op[d] = op[c]
                           /\ pc[d] \in {"half", "more", "body", "unwind"}
        BY <1>1, <2>1 DEF IInv, TornFrameIsTerminal
  <2>3. d = c BY <1>1, <2>2, Exclusive DEF SameGate, Holding
  <2> QED BY <2>2, <2>3
<1>3. Len(wire[on[c]]) \in Nat /\ taken[on[c]] \in Nat BY <1>1 DEF IInv, TypeOK
<1>4. Len(wire[on[c]]) % 2 \in {0, 1} /\ taken[on[c]] % 2 \in {0, 1} BY <1>3, Parity
<1> QED BY <1>2, <1>4 DEF Torn

\* Only one call at a time is at a frame of a direction.
LEMMA FramePreserved ==
    ASSUME IInv, [Next]_vars
    PROVE  \A d \in Calls : AtFrame(d)'
<1>0. TypeOK BY DEF IInv
<1>1. ASSUME NEW c \in Calls, CallAction(c), NEW d \in Calls, d # c PROVE AtFrame(d)'
  <2>1. Untouched(d) BY <1>0, <1>1, CallMoves, MovesFrame
  <2>2. AtFrame(d) BY DEF IInv
  <2>3. ASSUME NEW n \in {1, 2}, Writes(c, n),
               \A t \in Sessions, e \in IoOps :
                 t # on[c] \/ e # "send" => sequence'[t][e] = sequence[t][e]
        PROVE  AtFrame(d)'
    <3>1. CASE pc[d] \in {"write", "half"}
      <4>1. op[d] = "send" /\ on[d] \in Sessions
            BY <3>1 DEF IInv, LocalOK, PlaceOK, Inside, Holding
      <4>2. on[d] # on[c]
            BY <1>1, <2>3, <3>1, <4>1, Exclusive DEF Writes, SameGate, Holding
      <4> QED BY <2>1, <2>2, <2>3, <3>1, <4>1, <4>2 DEF AtFrame, Untouched, Writes, IoOps
    <3>2. CASE pc[d] \notin {"write", "half"}
          BY <2>1, <2>2, <2>3, <3>2 DEF AtFrame, Untouched, Writes
    <3> QED BY <3>1, <3>2
  <2>4. ASSUME Reads(c), \A t \in Sessions : sequence'[t]["send"] = sequence[t]["send"]
        PROVE  AtFrame(d)'
    <3>1. CASE pc[d] \in {"header", "more", "body"}
      <4>1. op[d] = "receive" /\ on[d] \in Sessions
            BY <3>1 DEF IInv, LocalOK, PlaceOK, Inside, Holding
      <4>2. on[d] # on[c]
            BY <1>1, <2>4, <3>1, <4>1, Exclusive DEF Reads, SameGate, Holding
      <4> QED BY <2>1, <2>2, <2>4, <3>1, <4>1, <4>2 DEF AtFrame, Untouched, Reads
    <3>2. CASE pc[d] \in {"write", "half"}
      <4>1. on[d] \in Sessions BY <3>2 DEF IInv, LocalOK, PlaceOK, Inside, Holding
      <4> QED BY <2>1, <2>2, <2>4, <3>2, <4>1 DEF AtFrame, Untouched, Reads
    <3>3. CASE pc[d] \notin {"header", "more", "body", "write", "half"}
          BY <2>1, <3>3 DEF AtFrame, Untouched
    <3> QED BY <3>1, <3>2, <3>3
  <2>5. CASE UNCHANGED dataVars BY <2>1, <2>2, <2>5 DEF AtFrame, Untouched, dataVars
  <2>6. CASE WriteHalf(c)
    <3>1. UNCHANGED sequence BY <2>6 DEF WriteHalf
    <3> QED BY <2>3, <2>6, <3>1, WritesStep
  <2>7. CASE WriteRest(c) BY <2>3, <2>7, WritesStep, RestStep
  <2>8. CASE ReadHeader(c)
    <3>1. UNCHANGED sequence BY <2>8 DEF ReadHeader
    <3> QED BY <2>4, <2>8, <3>1, ReadsStep
  <2>9. CASE ReadBody(c)
    <3>1. Reads(c) BY <2>9, ReadsStep
    <3>2. \A t \in Sessions : sequence'[t]["send"] = sequence[t]["send"]
      <4>1. PICK n \in 0 .. MaxSeq : sequence' = [sequence EXCEPT ![on[c]]["receive"] = n]
            BY <2>9, BodyStep
      <4>2. on[c] \in Sessions /\ "receive" \in IoOps /\ "send" \in IoOps
            BY <3>1 DEF Reads, IoOps
      <4>3. \A t \in Sessions, e \in IoOps :
              t # on[c] \/ e # "receive" => sequence'[t][e] = sequence[t][e]
            BY <1>0, <4>1, <4>2, SequenceTyped
      <4> QED BY <4>2, <4>3
    <3> QED BY <2>4, <3>1, <3>2
  <2> QED BY <1>1, <2>5, <2>6, <2>7, <2>8, <2>9, StepCauses DEF Causes
<1>2. ASSUME NEW c \in Calls, CallAction(c) PROVE AtFrame(c)'
  <2>1. Causes(c) /\ on' = on /\ AtFrame(c) BY <1>0, <1>2, StepCauses, CallMoves DEF IInv
  <2>2. CASE Armed(c)
    <3>1. pc[c] = "armed" /\ UNCHANGED dataVars BY <2>2 DEF Armed
    <3>2. on[c] \in Sessions /\ op[c] \in IoOps BY <3>1 DEF IInv, LocalOK, PlaceOK, Inside, Holding
    <3>3. pc'[c] \in {"write", "header"} =>
            ~cancel[on[c]] /\ ~(op[c] = "send" /\ sequence[on[c]]["send"] = MaxSeq)
          BY <1>0, <2>2, Moved DEF Armed, Places, Failures
    <3>4. sequence[on[c]]["send"] \in 0 .. MaxSeq BY <1>0, <3>2 DEF TypeOK, IoOps
    <3>5. pc'[c] \notin {"half", "more", "body"}
          BY <1>0, <2>2, Moved DEF Armed, Places, Failures
    <3>6. CASE pc'[c] = "write"
      <4>1. sequence[on[c]]["send"] < MaxSeq BY <2>1, <3>3, <3>4, <3>6, ConstantsAssumption DEF Causes
      <4> QED BY <2>1, <3>1, <3>3, <3>6, <4>1, FindsWhole DEF AtFrame, Causes, dataVars
    <3>7. CASE pc'[c] = "header"
          BY <2>1, <3>1, <3>3, <3>7, FindsWhole DEF AtFrame, Causes, dataVars
    <3> QED BY <3>5, <3>6, <3>7 DEF AtFrame
  <2>3. CASE WriteHalf(c)
    <3>1. Writes(c, 1) /\ pc[c] = "write" /\ pc'[c] = "half" /\ sequence' = sequence
          BY <1>0, <2>3, WritesStep, Moved DEF WriteHalf, Places
    <3>2. Len(wire'[on[c]]) % 2 = 1
          BY <2>1, <3>1, Parity DEF AtFrame, Writes
    <3>3. wire'[on[c]][Len(wire'[on[c]])].call = c BY <3>1 DEF Writes, Piece
    <3> QED BY <2>1, <3>1, <3>2, <3>3 DEF AtFrame
  <2>4. CASE ReadHeader(c)
    <3>1. Reads(c) /\ pc[c] = "header" /\ pc'[c] = "more"
          BY <1>0, <2>4, ReadsStep, Moved DEF ReadHeader, Places
    <3>2. taken'[on[c]] % 2 = 1 BY <2>1, <3>1, Parity DEF AtFrame, Reads
    <3> QED BY <2>1, <3>1, <3>2 DEF AtFrame
  <2>5. CASE ReadMore(c)
    <3>1. pc[c] = "more" /\ UNCHANGED dataVars BY <2>5 DEF ReadMore
    <3>2. pc'[c] \in {"body", "unwind"} BY <1>0, <2>5, Moved DEF ReadMore, Places, Failures
    <3> QED BY <2>1, <3>1, <3>2 DEF AtFrame, dataVars
  <2>6. CASE ~Armed(c) /\ ~WriteHalf(c) /\ ~ReadHeader(c) /\ ~ReadMore(c)
        BY <2>1, <2>6 DEF Causes, AtFrame
  <2> QED BY <2>2, <2>3, <2>4, <2>5, <2>6
<1>3. ASSUME NEW c \in Calls, AppAction(c), NEW d \in Calls PROVE AtFrame(d)'
  <2>1. /\ UNCHANGED dataVars /\ (d # c => Untouched(d))
        /\ \/ pc'[c] = pc[c] /\ on'[c] = on[c]
           \/ pc'[c] \in {"poll", "closing", "done", "new"}
        BY <1>3, AppStep
  <2> QED BY <2>1 DEF IInv, AtFrame, Untouched, dataVars
<1>4. ASSUME NEW s \in Sessions, Waiter(s) PROVE \A d \in Calls : AtFrame(d)'
      BY <1>4 DEF IInv, Waiter, AtFrame, dataVars
<1>5. CASE UNCHANGED vars BY <1>5 DEF IInv, vars, AtFrame, dataVars
<1> QED BY <1>1, <1>2, <1>3, <1>4, <1>5 DEF Next, CallAction, AppAction

\* A send that has begun its frame only winds up.
LEMMA WindsUp ==
    ASSUME IInv, NEW c \in Calls, CallAction(c), pc[c] \in {"half", "unwind", "release", "done"}
    PROVE  pc'[c] \in {"unwind", "release", "done"}
<1>0. TypeOK BY DEF IInv
<1>00. ASSUME NEW r, Return(c, r) PROVE pc'[c] = "done" BY <1>0, <1>00 DEF TypeOK, Return, Goto
<1>000. ASSUME NEW r, Unwind(c, r) PROVE pc'[c] = "unwind" BY <1>0, <1>000 DEF TypeOK, Unwind, Goto
<1>0000. ASSUME NEW p, Goto(c, p) PROVE pc'[c] = p BY <1>0, <1>0000 DEF TypeOK, Goto
<1>1. CASE IoCancelled(c) BY <1>000, <1>1 DEF IoCancelled
<1>2. CASE IoFails(c) BY <1>000, <1>2 DEF IoFails
<1>3. CASE WriteRest(c) BY <1>00, <1>3 DEF WriteRest
<1>4. CASE DropGuards(c) BY <1>0000, <1>4 DEF DropGuards
<1>5. CASE DropFuture(c) BY <1>000, <1>5 DEF DropFuture
<1> QED BY <1>1, <1>2, <1>3, <1>4, <1>5
        DEF CallAction, Run, CloseInner, GatePoll, GateWait, EnsureOpen, Armed, WriteHalf,
            ReadHeader, ReadMore, ReadBody, ReadEof, ReadReset

\* What is on the wire stays attributed to the sends that wrote it.
LEMMA AuthenticPreserved ==
    ASSUME IInv, [Next]_vars
    PROVE  \A s \in Sessions : Authentic(s)'
<1>0. TypeOK /\ \A s \in Sessions : Authentic(s) BY DEF IInv
<1>00. ASSUME NEW s \in Sessions, NEW i \in 1 .. Len(wire[s])
       PROVE  wire[s][i].call \in Calls
  <2>1. wire[s] \in Seq(Half) BY <1>0 DEF TypeOK
  <2>2. wire[s][i] \in Half BY <2>1
  <2> QED BY <2>2 DEF Half
<1> DEFINE Ok(s, i) ==
             /\ on[wire[s][i].call] = s /\ op[wire[s][i].call] = "send"
             /\ pc[wire[s][i].call] \in {"half", "unwind", "release", "done"}
             /\ pc[wire[s][i].call] = "half" => i = Len(wire[s])
             /\ wire[s][i].call \notin late
<1>1. ASSUME NEW c \in Calls, CallAction(c) PROVE \A s \in Sessions : Authentic(s)'
  <2>0. on' = on /\ op' = op /\ late' = late /\ \A d \in Calls \ {c} : pc'[d] = pc[d]
        BY <1>0, <1>1, CallMoves, MovesFrame DEF Untouched
  <2>1. ASSUME NEW s \in Sessions, wire'[s] = wire[s] PROVE Authentic(s)'
    <3> SUFFICES ASSUME NEW i \in 1 .. Len(wire[s]) PROVE Ok(s, i)' BY <2>1 DEF Authentic
    <3>1. Ok(s, i) BY <1>0 DEF Authentic
    <3>2. wire[s][i].call = c => pc'[c] \in {"unwind", "release", "done"}
          BY <1>1, <3>1, WindsUp
    <3> QED BY <1>00, <2>0, <2>1, <3>1, <3>2
  <2>2. ASSUME NEW n \in {1, 2}, Writes(c, n), pc'[c] = "half" \/ pc'[c] = "done",
               pc'[c] = "half" => pc[c] = "write"
        PROVE  \A s \in Sessions : Authentic(s)'
    <3>1. ASSUME NEW s \in Sessions, s # on[c] PROVE Authentic(s)'
          BY <2>1, <2>2, <3>1 DEF Writes
    <3>2. ASSUME NEW s \in Sessions, s = on[c] PROVE Authentic(s)'
      <4> SUFFICES ASSUME NEW i \in 1 .. Len(wire'[s]) PROVE Ok(s, i)' BY <2>0 DEF Authentic
      <4>0. c \notin late BY <2>2 DEF Writes, IInv, LocalOK, LateOK, IoOps
      <4>1. /\ op[c] = "send" /\ Len(wire[s]) \in Nat
            /\ Len(wire'[s]) = Len(wire[s]) + 1 /\ wire'[s][Len(wire[s]) + 1].call = c
            /\ \A j \in 1 .. Len(wire[s]) : wire'[s][j] = wire[s][j]
            BY <2>2, <3>2 DEF Writes, Piece
      <4>2. CASE i = Len(wire[s]) + 1 BY <2>0, <2>2, <3>2, <4>0, <4>1, <4>2
      <4>3. CASE i \in 1 .. Len(wire[s])
        <5>1. Ok(s, i) /\ wire'[s][i] = wire[s][i] BY <1>0, <4>1, <4>3 DEF Authentic
        <5>2. CASE wire[s][i].call = c
          <6>1. pc[c] # "write" BY <5>1, <5>2
          <6> QED BY <2>0, <2>2, <5>1, <5>2, <6>1
        <5>3. CASE wire[s][i].call # c
          <6>1. wire[s][i].call \in Calls BY <1>00, <4>1, <4>3
          <6>2. pc[wire[s][i].call] # "half"
                BY <2>2, <3>2, <5>1, <5>3, <6>1, Exclusive DEF Writes, SameGate, Holding
          <6> QED BY <2>0, <5>1, <5>3, <6>1, <6>2
        <5> QED BY <5>2, <5>3
      <4> QED BY <4>1, <4>2, <4>3
    <3> QED BY <3>1, <3>2
  <2>3. CASE WriteHalf(c)
    <3>1. Writes(c, 1) /\ pc[c] = "write" /\ pc'[c] = "half"
          BY <1>0, <2>3, WritesStep, Moved DEF WriteHalf, Places
    <3> QED BY <2>2, <3>1
  <2>4. CASE WriteRest(c)
    <3>1. Writes(c, 2) /\ pc'[c] = "done"
          BY <1>0, <2>4, WritesStep, Moved DEF WriteRest, Results
    <3> QED BY <2>2, <3>1
  <2>5. CASE wire' = wire BY <2>1, <2>5
  <2>6. ReadHeader(c) \/ ReadBody(c) => wire' = wire BY ReadsStep DEF Reads
  <2> QED BY <1>1, <2>3, <2>4, <2>5, <2>6, StepCauses DEF Causes, dataVars
<1>2. ASSUME NEW c \in Calls, AppAction(c), NEW s \in Sessions PROVE Authentic(s)'
  <2>1. /\ wire' = wire /\ \A d \in Calls \ {c} : Untouched(d)
        /\ UNCHANGED <<op, on, pc, result, late>> \/ pc[c] = "new"
        BY <1>2, AppStep DEF dataVars
  <2> SUFFICES ASSUME NEW i \in 1 .. Len(wire[s]) PROVE Ok(s, i)' BY <2>1 DEF Authentic
  <2>2. Ok(s, i) /\ wire[s][i].call \in Calls BY <1>0, <1>00 DEF Authentic
  <2>3. pc[c] = "new" => wire[s][i].call # c BY <2>2
  <2> QED BY <2>1, <2>2, <2>3 DEF Untouched
<1>3. ASSUME NEW t \in Sessions, Waiter(t) PROVE \A s \in Sessions : Authentic(s)'
      BY <1>0, <1>3 DEF Waiter, Authentic, dataVars
<1>4. CASE UNCHANGED vars BY <1>0, <1>4 DEF vars, Authentic, dataVars
<1> QED BY <1>1, <1>2, <1>3, <1>4 DEF Next, CallAction, AppAction

\* The steps outside the tasks leave the data alone, and so do most of theirs.
LEMMA DataSteps ==
    ASSUME IInv, [Next]_vars
    PROVE  \/ UNCHANGED dataVars
           \/ \E c \in Calls : WriteHalf(c) \/ WriteRest(c) \/ ReadHeader(c) \/ ReadBody(c)
<1>1. ASSUME NEW c \in Calls, AppAction(c) PROVE UNCHANGED dataVars BY <1>1, AppStep
<1>2. ASSUME NEW s \in Sessions, Waiter(s) PROVE UNCHANGED dataVars BY <1>2 DEF Waiter
<1>3. CASE UNCHANGED vars BY <1>3 DEF vars
<1> QED BY <1>1, <1>2, <1>3, StepCauses DEF Next, CallAction, AppAction, Causes

\* The wire stays a sequence of frames with consecutive sequence numbers.
LEMMA FramedPreserved ==
    ASSUME IInv, [Next]_vars
    PROVE  \A s \in Sessions : Framed(s)'
<1>0. TypeOK /\ \A s \in Sessions : Framed(s) BY DEF IInv
<1>00. ASSUME NEW s \in Sessions, wire'[s] = wire[s], sequence'[s]["send"] = sequence[s]["send"]
       PROVE  Framed(s)'
       BY <1>0, <1>00 DEF Framed
<1> DEFINE Ok(s, i) ==
             /\ wire[s][i].sequence = FirstSeq + ((i - 1) \div 2)
             /\ wire[s][i].sequence < MaxSeq
             /\ i % 2 = 1 => wire[s][i].part = 1
             /\ i % 2 = 0 => wire[s][i].part = 2 /\ wire[s][i - 1].call = wire[s][i].call
<1>1. ASSUME NEW c \in Calls, NEW n \in {1, 2}, Writes(c, n),
             AtFrame(c), n = 1 => pc[c] = "write", n = 2 => pc[c] = "half",
             sequence'[on[c]]["send"] = sequence[on[c]]["send"] + (n - 1),
             \A t \in Sessions, e \in IoOps :
                 t # on[c] \/ e # "send" => sequence'[t][e] = sequence[t][e]
      PROVE  \A s \in Sessions : Framed(s)'
  <2> SUFFICES ASSUME NEW s \in Sessions, s = on[c] PROVE \A t \in Sessions : Framed(t)'
      BY <1>1 DEF Writes
  <2> DEFINE L == Len(wire[s])
  <2>1. /\ L \in Nat /\ Len(wire'[s]) = L + 1
        /\ wire'[s][L + 1] = Piece(c, n)
        /\ \A i \in 1 .. L : wire'[s][i] = wire[s][i]
        BY <1>1 DEF Writes
  <2>2. \A t \in Sessions \ {s} : Framed(t)' BY <1>00, <1>1 DEF Writes, IoOps
  <2>3. L % 2 = n - 1
    <3>1. n = 1 => L % 2 = 0 BY <1>1 DEF AtFrame
    <3>2. n = 2 => L % 2 = 1 BY <1>1 DEF AtFrame
    <3> HIDE DEF L
    <3> QED BY <3>1, <3>2
  <2>4. /\ (L + 1) % 2 = 2 - n /\ (L + 1) \div 2 = (L \div 2) + (n - 1)
        /\ L \div 2 \in Nat /\ (L + 1) - 1 = L
    <3> HIDE DEF L
    <3> QED BY <2>1, <2>3, Parity
  <2>5. sequence[s]["send"] = FirstSeq + (L \div 2) /\ sequence[s]["send"] < MaxSeq
        BY <1>0, <1>1, <2>1 DEF Framed, AtFrame
  <2>6. sequence'[s]["send"] = FirstSeq + (Len(wire'[s]) \div 2)
    <3> HIDE DEF L
    <3> QED BY <1>1, <2>1, <2>4, <2>5 DEF FirstSeq
  <2>7. Piece(c, n).call = c /\ Piece(c, n).sequence = sequence[s]["send"] /\ Piece(c, n).part = n
        BY DEF Piece
  <2>8. n = 2 => wire[s][L].call = c /\ L \in 1 .. L
    <3>1. n = 2 => wire[s][L].call = c BY <1>1 DEF AtFrame
    <3>2. n = 2 => L # 0
      <4> HIDE DEF L
      <4> QED BY <2>3
    <3> QED BY <2>1, <3>1, <3>2
  <2>9. ASSUME NEW i \in 1 .. L + 1 PROVE Ok(s, i)'
    <3>1. CASE i \in 1 .. L
      <4>1. Ok(s, i) BY <1>0, <2>1, <3>1 DEF Framed
      <4>2. wire'[s][i] = wire[s][i] BY <2>1, <3>1
      <4>3. i % 2 = 0 => wire'[s][i - 1] = wire[s][i - 1]
        <5>1. i % 2 = 0 => i - 1 \in 1 .. L BY <2>1, <3>1
        <5> QED BY <2>1, <5>1
      <4> QED BY <4>1, <4>2, <4>3
    <3>2. CASE i = L + 1
      <4>1. i % 2 = 2 - n /\ (i - 1) \div 2 = L \div 2 /\ i - 1 = L BY <2>4, <3>2
      <4>2. wire'[s][i] = Piece(c, n) BY <2>1, <3>2
      <4>3. n = 2 => wire'[s][i - 1].call = c BY <2>1, <2>8, <4>1
      <4> HIDE DEF L
      <4>4. CASE n = 1 BY <2>5, <2>7, <4>1, <4>2, <4>4
      <4>5. CASE n = 2 BY <2>5, <2>7, <4>1, <4>2, <4>3, <4>5
      <4> QED BY <4>4, <4>5
    <3> QED BY <2>1, <3>1, <3>2
  <2>10. Framed(s)' BY <2>1, <2>6, <2>9 DEF Framed
  <2> QED BY <2>2, <2>10
<1>2. ASSUME NEW c \in Calls, WriteHalf(c) PROVE \A s \in Sessions : Framed(s)'
  <2>1. Writes(c, 1) /\ pc[c] = "write" /\ sequence' = sequence /\ AtFrame(c)
        BY <1>2, WritesStep DEF WriteHalf, IInv
  <2>2. sequence'[on[c]]["send"] = sequence[on[c]]["send"] + (1 - 1)
    <3>1. sequence[on[c]]["send"] \in 0 .. MaxSeq BY <1>0, <2>1 DEF Writes, TypeOK, IoOps
    <3> QED BY <2>1, <3>1
  <2>3. \A t \in Sessions, e \in IoOps :
          t # on[c] \/ e # "send" => sequence'[t][e] = sequence[t][e]
        BY <2>1
  <2>4. 1 \in {1, 2} /\ 1 # 2 OBVIOUS
  <2> QED BY <1>1, <2>1, <2>2, <2>3, <2>4
<1>3. ASSUME NEW c \in Calls, WriteRest(c) PROVE \A s \in Sessions : Framed(s)'
  <2>1. Writes(c, 2) /\ pc[c] = "half" /\ AtFrame(c) BY <1>3, WritesStep DEF WriteRest, IInv
  <2> QED BY <1>1, <1>3, <2>1, RestStep
<1>4. ASSUME NEW c \in Calls, ReadHeader(c) PROVE \A s \in Sessions : Framed(s)'
      BY <1>00, <1>4 DEF ReadHeader
<1>5. ASSUME NEW c \in Calls, ReadBody(c) PROVE \A s \in Sessions : Framed(s)'
  <2>1. Reads(c) BY <1>5, ReadsStep
  <2>2. PICK n \in 0 .. MaxSeq : sequence' = [sequence EXCEPT ![on[c]]["receive"] = n]
        BY <1>5, BodyStep
  <2>3. on[c] \in Sessions /\ "receive" \in IoOps /\ "send" \in IoOps BY <2>1 DEF Reads, IoOps
  <2>4. \A t \in Sessions : sequence'[t]["send"] = sequence[t]["send"]
        BY <1>0, <2>2, <2>3, SequenceTyped
  <2> QED BY <1>00, <2>1, <2>4 DEF Reads
<1>6. CASE UNCHANGED dataVars BY <1>00, <1>6 DEF dataVars
<1> QED BY <1>2, <1>3, <1>4, <1>5, <1>6, DataSteps

\* The receiver stays in step with what its peer wrote.
LEMMA InStepPreserved ==
    ASSUME IInv, [Next]_vars
    PROVE  \A s \in Sessions : InStep(s)'
<1>0. TypeOK /\ \A s \in Sessions : InStep(s) BY DEF IInv
<1>00. \A s \in Sessions :
         /\ Other(s) \in Sessions /\ taken[s] \in Nat /\ Len(received[s]) \in Nat
         /\ Len(wire[Other(s)]) \in Nat
       BY <1>0, OtherEnd DEF TypeOK
<1>1. ASSUME NEW s \in Sessions, UNCHANGED received, taken'[s] = taken[s],
             sequence'[s]["receive"] = sequence[s]["receive"],
             Len(wire'[Other(s)]) \in Nat, Len(wire'[Other(s)]) >= Len(wire[Other(s)]),
             \A i \in 1 .. Len(wire[Other(s)]) : wire'[Other(s)][i] = wire[Other(s)][i]
      PROVE  InStep(s)'
  <2>1. InStep(s) BY <1>0
  <2>2. \A k \in 1 .. Len(received[s]) : 2 * k \in 1 .. Len(wire[Other(s)])
    <3> TAKE k \in 1 .. Len(received[s])
    <3> DEFINE q == taken[s] \div 2
               r == taken[s] % 2
    <3>1. taken[s] = 2 * q + r /\ r \in {0, 1} /\ q \in Nat BY <1>00, Parity
    <3>2. taken[s] <= Len(wire[Other(s)]) /\ Len(received[s]) = q
          BY <2>1 DEF InStep, Stream
    <3> HIDE DEF q, r
    <3> QED BY <1>00, <3>1, <3>2
  <2>3. taken'[s] <= Len(wire'[Other(s)]) BY <1>00, <1>1, <2>1 DEF InStep, Stream
  <2> QED BY <1>1, <2>1, <2>2, <2>3 DEF InStep, Stream
<1>2. ASSUME NEW c \in Calls, NEW n \in {1, 2}, Writes(c, n),
             \A t \in Sessions : sequence'[t]["receive"] = sequence[t]["receive"]
      PROVE  \A s \in Sessions : InStep(s)'
  <2> SUFFICES ASSUME NEW s \in Sessions PROVE InStep(s)' OBVIOUS
  <2>1. CASE Other(s) = on[c] BY <1>00, <1>1, <1>2, <2>1 DEF Writes
  <2>2. CASE Other(s) # on[c] BY <1>00, <1>1, <1>2, <2>2 DEF Writes
  <2> QED BY <2>1, <2>2
<1>3. ASSUME NEW c \in Calls, WriteHalf(c) PROVE \A s \in Sessions : InStep(s)'
  <2>1. Writes(c, 1) /\ sequence' = sequence BY <1>3, WritesStep DEF WriteHalf
  <2> QED BY <1>2, <2>1
<1>4. ASSUME NEW c \in Calls, WriteRest(c) PROVE \A s \in Sessions : InStep(s)'
  <2>1. \A t \in Sessions : sequence'[t]["receive"] = sequence[t]["receive"]
        BY <1>4, RestStep DEF IoOps
  <2> QED BY <1>2, <1>4, <2>1, WritesStep
<1>5. ASSUME NEW c \in Calls, ReadHeader(c), NEW s \in Sessions PROVE InStep(s)'
  <2>1. Reads(c) /\ UNCHANGED <<sequence, received, wire>> BY <1>5, ReadsStep DEF ReadHeader
  <2>2. CASE s # on[c] BY <1>00, <1>1, <2>1, <2>2 DEF Reads
  <2>3. CASE s = on[c]
    <3>1. taken[s] % 2 = 0 /\ taken[s] < Len(Stream(s)) /\ taken'[s] = taken[s] + 1
      <4>1. pc[c] = "header" BY <1>5 DEF ReadHeader
      <4> QED BY <2>1, <2>3, <4>1 DEF Reads, IInv, AtFrame
    <3>2. taken'[s] \div 2 = taken[s] \div 2 BY <1>00, <3>1, Parity
    <3>3. taken'[s] <= Len(Stream(s)) BY <1>00, <3>1 DEF Stream
    <3> QED BY <1>0, <2>1, <3>2, <3>3 DEF InStep, Stream
  <2> QED BY <2>2, <2>3
<1>6. ASSUME NEW c \in Calls, ReadBody(c), NEW s \in Sessions PROVE InStep(s)'
  <2>1. Reads(c) BY <1>6, ReadsStep
  <2>2. /\ received' = [received EXCEPT ![on[c]] =
                          Append(received[on[c]], Stream(on[c])[taken[on[c]] + 1].call)]
        /\ sequence' = [sequence EXCEPT ![on[c]]["receive"] = sequence[on[c]]["receive"] + 1]
        /\ Stream(on[c])[taken[on[c]] + 1].call \in Calls
        /\ sequence[on[c]]["receive"] + 1 \in 0 .. MaxSeq
        BY <1>6, BodyStep
  <2>3. /\ sequence'[on[c]]["receive"] = sequence[on[c]]["receive"] + 1
        /\ \A t \in Sessions \ {on[c]} : sequence'[t]["receive"] = sequence[t]["receive"]
    <3>1. PICK n \in 0 .. MaxSeq : /\ n = sequence[on[c]]["receive"] + 1
                                   /\ sequence' = [sequence EXCEPT ![on[c]]["receive"] = n]
          BY <2>2
    <3>2. on[c] \in Sessions /\ "receive" \in IoOps BY <2>1 DEF Reads, IoOps
    <3>3. /\ sequence'[on[c]]["receive"] = n
          /\ \A t \in Sessions, e \in IoOps :
                t # on[c] \/ e # "receive" => sequence'[t][e] = sequence[t][e]
      <4>1. sequence' = [sequence EXCEPT ![on[c]]["receive"] = n] BY <3>1
      <4>2. sequence \in [Sessions -> [IoOps -> 0 .. MaxSeq]] BY <1>0 DEF TypeOK
      <4> QED BY <3>2, <4>1, <4>2
    <3> QED BY <3>1, <3>2, <3>3
  <2>4. CASE s # on[c]
    <3>1. received'[s] = received[s] BY <1>0, <2>1, <2>2, <2>4 DEF TypeOK
    <3> QED BY <1>0, <2>1, <2>3, <2>4, <3>1 DEF Reads, InStep, Stream
  <2>5. CASE s = on[c]
    <3>1. /\ taken[s] % 2 = 1 /\ taken[s] < Len(Stream(s)) /\ taken'[s] = taken[s] + 1
          /\ wire' = wire
      <4>1. pc[c] = "body" BY <1>6 DEF ReadBody
      <4> QED BY <2>1, <2>5, <4>1 DEF Reads, IInv, AtFrame
    <3>2. taken'[s] \div 2 = (taken[s] \div 2) + 1 /\ taken[s] + 1 = 2 * ((taken[s] \div 2) + 1)
      <4>1. taken'[s] \div 2 = (taken[s] \div 2) + 1 BY <1>00, <3>1, Parity
      <4>2. taken[s] = 2 * (taken[s] \div 2) + 1 BY <1>00, <3>1, Parity
      <4> QED BY <1>00, <4>1, <4>2
    <3>3. taken'[s] <= Len(Stream(s)) BY <1>00, <3>1 DEF Stream
    <3>4. /\ Len(received'[s]) = Len(received[s]) + 1
          /\ received'[s][Len(received[s]) + 1] = Stream(s)[taken[s] + 1].call
          /\ \A k \in 1 .. Len(received[s]) : received'[s][k] = received[s][k]
      <4>1. received \in [Sessions -> Seq(Calls)] /\ received[s] \in Seq(Calls) BY <1>0 DEF TypeOK
      <4>2. received'[s] = Append(received[s], Stream(s)[taken[s] + 1].call)
            BY <2>2, <2>5, <4>1
      <4> QED BY <2>2, <2>5, <4>1, <4>2
    <3>5. /\ Len(received[s]) = taken[s] \div 2
          /\ sequence[s]["receive"] = FirstSeq + Len(received[s])
          /\ \A k \in 1 .. Len(received[s]) : received[s][k] = Stream(s)[2 * k].call
          BY <1>0 DEF InStep
    <3>6. Len(received'[s]) = taken'[s] \div 2 BY <3>2, <3>4, <3>5
    <3>7. sequence'[s]["receive"] = FirstSeq + Len(received'[s])
          BY <1>00, <2>3, <2>5, <3>4, <3>5 DEF FirstSeq
    <3>8. \A k \in 1 .. Len(received'[s]) : received'[s][k] = Stream(s)[2 * k].call
      <4> TAKE k \in 1 .. Len(received'[s])
      <4>1. CASE k \in 1 .. Len(received[s]) BY <3>4, <3>5, <4>1
      <4>2. CASE k = Len(received[s]) + 1
        <5>1. 2 * k = taken[s] + 1 BY <3>2, <3>5, <4>2
        <5> QED BY <3>4, <4>2, <5>1
      <4> QED BY <1>00, <3>4, <4>1, <4>2
    <3> QED BY <3>1, <3>3, <3>6, <3>7, <3>8 DEF InStep, Stream
  <2> QED BY <2>4, <2>5
<1>7. ASSUME UNCHANGED dataVars, NEW s \in Sessions PROVE InStep(s)'
      BY <1>0, <1>7 DEF dataVars, InStep, Stream
<1> QED BY <1>3, <1>4, <1>5, <1>6, <1>7, DataSteps

\* Whoever leaves half a frame behind cancels the token first.
LEMMA TornPreserved ==
    ASSUME IInv, [Next]_vars
    PROVE  TornFrameIsTerminal'
<1>0. TypeOK /\ Monotone BY NeverReset DEF IInv
<1> DEFINE At(c, s, o) == /\ on[c] = s /\ op[c] = o /\ c \in queued
                          /\ pc[c] \in {"half", "more", "body", "unwind"}
<1> SUFFICES ASSUME NEW s \in Sessions, NEW o \in IoOps, Torn(s, o)',
                    ~cancel'[s]
             PROVE  \E c \in Calls : At(c, s, o)'
    BY DEF TornFrameIsTerminal
<1>00. ~cancel[s] BY <1>0 DEF Monotone
<1>1. ASSUME NEW c \in Calls, CallAction(c) PROVE \E d \in Calls : At(d, s, o)'
  <2>0. /\ UNCHANGED <<on, op>> /\ Causes(c) /\ LocalOK(c)' /\ \A d \in Calls \ {c} : Untouched(d)
        BY <1>0, <1>1, CallMoves, MovesFrame, StepCauses, LocalStep
  <2>1. ASSUME Torn(s, o) PROVE \E d \in Calls : At(d, s, o)'
    <3>1. PICK d \in Calls : At(d, s, o) BY <1>00, <2>1 DEF IInv, TornFrameIsTerminal
    <3>2. CASE d # c BY <2>0, <3>1, <3>2 DEF Untouched
    <3>3. CASE d = c
      <4>1. ~WriteRest(c) /\ ~ReadBody(c)
        <5>1. ASSUME WriteRest(c) PROVE FALSE
          <6>1. Writes(c, 2) /\ pc[c] = "half" /\ AtFrame(c)
                BY <5>1, WritesStep DEF WriteRest, IInv
          <6>2. o = "send" /\ on[c] = s BY <3>1, <3>3, <6>1 DEF Writes
          <6>3. /\ Len(wire[s]) \in Nat /\ Len(wire[s]) % 2 = 1
                /\ Len(wire'[s]) = Len(wire[s]) + 1
                BY <6>1, <6>2 DEF Writes, AtFrame
          <6>4. Len(wire'[s]) % 2 # 1 BY <6>3, SecondHalf
          <6> QED BY <6>2, <6>4 DEF Torn
        <5>2. ASSUME ReadBody(c) PROVE FALSE
          <6>1. Reads(c) /\ pc[c] = "body" /\ AtFrame(c)
                BY <5>2, ReadsStep DEF ReadBody, IInv
          <6>2. o = "receive" /\ on[c] = s BY <3>1, <3>3, <6>1 DEF Reads
          <6>3. taken'[s] % 2 = 0 BY <6>1, <6>2, Parity DEF Reads, AtFrame
          <6>4. taken'[s] % 2 = 1 BY <6>2 DEF Torn
          <6> QED BY <6>3, <6>4
        <5> QED BY <5>1, <5>2
      <4>2. pc'[c] \in {"half", "more", "body", "unwind"}
            BY <2>0, <3>1, <3>3, <4>1 DEF Causes
      <4>3. c \in queued' BY <2>0, <4>2 DEF LocalOK, PlaceOK, Inside, Holding
      <4> QED BY <2>0, <3>1, <3>3, <4>2, <4>3
    <3> QED BY <3>2, <3>3
  <2>2. CASE WriteHalf(c)
    <3>1. Writes(c, 1) /\ pc'[c] = "half" BY <1>0, <2>2, WritesStep, Moved DEF WriteHalf, Places
    <3>2. CASE o = "send" /\ s = on[c]
      <4>1. c \in queued' BY <2>0, <3>1 DEF LocalOK, PlaceOK, Inside, Holding
      <4> QED BY <2>0, <3>1, <3>2, <4>1 DEF Writes
    <3>3. CASE o # "send" \/ s # on[c]
      <4>1. Torn(s, o) BY <3>1, <3>3 DEF Torn, Writes
      <4> QED BY <2>1, <4>1
    <3> QED BY <3>2, <3>3
  <2>3. CASE ReadHeader(c)
    <3>1. Reads(c) /\ pc'[c] = "more" BY <1>0, <2>3, ReadsStep, Moved DEF ReadHeader, Places
    <3>2. CASE o = "receive" /\ s = on[c]
      <4>1. c \in queued' BY <2>0, <3>1 DEF LocalOK, PlaceOK, Inside, Holding
      <4> QED BY <2>0, <3>1, <3>2, <4>1 DEF Reads
    <3>3. CASE o # "receive" \/ s # on[c]
      <4>1. Torn(s, o) BY <3>1, <3>3 DEF Torn, Reads
      <4> QED BY <2>1, <4>1
    <3> QED BY <3>2, <3>3
  <2>4. CASE WriteRest(c)
    <3>1. Writes(c, 2) /\ pc[c] = "half" /\ AtFrame(c) BY <2>4, WritesStep DEF WriteRest, IInv
    <3>2. ASSUME o = "send", s = on[c] PROVE FALSE
      <4>1. /\ Len(wire[s]) \in Nat /\ Len(wire[s]) % 2 = 1
            /\ Len(wire'[s]) = Len(wire[s]) + 1
            BY <3>1, <3>2 DEF Writes, AtFrame
      <4>2. Len(wire'[s]) % 2 # 1 BY <4>1, SecondHalf
      <4> QED BY <3>2, <4>2 DEF Torn
    <3>3. Torn(s, o) BY <3>1, <3>2 DEF Torn, Writes
    <3> QED BY <2>1, <3>3
  <2>5. CASE ReadBody(c)
    <3>1. Reads(c) /\ pc[c] = "body" /\ AtFrame(c) BY <2>5, ReadsStep DEF ReadBody, IInv
    <3>2. ASSUME o = "receive", s = on[c] PROVE FALSE
      <4>1. taken'[s] % 2 = 0 BY <3>1, <3>2, Parity DEF Reads, AtFrame
      <4>2. taken'[s] % 2 = 1 BY <3>2 DEF Torn
      <4> QED BY <4>1, <4>2
    <3>3. Torn(s, o) BY <3>1, <3>2 DEF Torn, Reads
    <3> QED BY <2>1, <3>3
  <2>6. CASE UNCHANGED dataVars
    <3>1. Torn(s, o) BY <2>6 DEF Torn, dataVars
    <3> QED BY <2>1, <3>1
  <2> QED BY <2>0, <2>2, <2>3, <2>4, <2>5, <2>6 DEF Causes
<1>2. ASSUME UNCHANGED dataVars, \A d \in Calls : At(d, s, o) => At(d, s, o)'
      PROVE  \E d \in Calls : At(d, s, o)'
  <2>1. Torn(s, o) BY <1>2 DEF Torn, dataVars
  <2>2. PICK d \in Calls : At(d, s, o) BY <1>00, <2>1 DEF IInv, TornFrameIsTerminal
  <2> QED BY <1>2, <2>2
<1>3. ASSUME NEW c \in Calls, AppAction(c) PROVE \E d \in Calls : At(d, s, o)'
  <2>1. /\ UNCHANGED <<gateVars, dataVars>> /\ \A d \in Calls \ {c} : Untouched(d)
        /\ UNCHANGED <<op, on, pc, result, late>> \/ pc[c] = "new"
        BY <1>3, AppStep
  <2>2. \A d \in Calls : At(d, s, o) => At(d, s, o)' BY <2>1 DEF Untouched, gateVars
  <2> QED BY <1>2, <2>1, <2>2
<1>4. ASSUME NEW t \in Sessions, Waiter(t) PROVE \E d \in Calls : At(d, s, o)'
      BY <1>2, <1>4 DEF Waiter, gateVars
<1>5. CASE UNCHANGED vars BY <1>2, <1>5 DEF vars, gateVars
<1> QED BY <1>1, <1>3, <1>4, <1>5 DEF Next, CallAction, AppAction

-----------------------------------------------------------------------------
(* The invariant and what follows from it.                                 *)

\* A session starts in step, with nothing on either wire.
LEMMA InitInv == Init => IInv
<1> SUFFICES ASSUME Init PROVE IInv OBVIOUS
<1>1. TypeOK
  <2>1. FirstSeq \in 0 .. MaxSeq BY ConstantsAssumption DEF FirstSeq
  <2>2. <<>> \in Seq(Half) /\ <<>> \in Seq(Calls) OBVIOUS
  <2> QED BY <2>1, <2>2 DEF Init, TypeOK, Places, Results
<1>2. \A c \in Calls : LocalOK(c) /\ AtFrame(c)
      BY DEF Init, LocalOK, PlaceOK, AheadOK, EndedOK, LateOK, AtFrame, Inside, Holding, IoOps,
             Failures
<1>3. QueueTotal BY DEF Init, QueueTotal
<1>4. ASSUME NEW s \in Sessions PROVE Authentic(s) /\ Framed(s) /\ InStep(s)
  <2>1. /\ Other(s) \in Sessions /\ wire[s] = <<>> /\ Stream(s) = <<>> /\ received[s] = <<>>
        /\ taken[s] = 0 /\ sequence[s]["send"] = FirstSeq /\ sequence[s]["receive"] = FirstSeq
        BY OtherEnd DEF Init, Stream, IoOps
  <2>2. Len(wire[s]) = 0 /\ Len(Stream(s)) = 0 /\ Len(received[s]) = 0 BY <2>1
  <2> QED BY <2>1, <2>2 DEF Authentic, Framed, InStep, FirstSeq
<1>5. TornFrameIsTerminal
  <2>1. \A s \in Sessions : Len(wire[s]) = 0 /\ taken[s] = 0 BY DEF Init
  <2>2. ASSUME NEW n, n = 0 PROVE n % 2 # 1 BY <2>2
  <2> QED BY <2>1, <2>2 DEF TornFrameIsTerminal, Torn
<1> QED BY <1>1, <1>2, <1>3, <1>4, <1>5 DEF IInv

\* The invariant is inductive.
THEOREM Invariance == Spec => []IInv
<1>1. IInv /\ [Next]_vars => IInv'
      BY TypeStep, LocalPreserved, FramePreserved, QueuePreserved, AuthenticPreserved,
         FramedPreserved, InStepPreserved, TornPreserved DEF IInv
<1> QED BY <1>1, InitInv, PTL DEF Spec

\* Type correctness of a session.
THEOREM TypeCorrect == Spec => []TypeOK
<1>1. IInv => TypeOK BY DEF IInv
<1> QED BY <1>1, Invariance, PTL

\* Half a frame is never left in a direction that somebody may go on using:
\* the drop guard of SecureSession cancels the token before the gate opens.
THEOREM TornFrameEnds == Spec => []TornFrameIsTerminal
<1>1. IInv => TornFrameIsTerminal BY DEF IInv
<1> QED BY <1>1, Invariance, PTL

\* A receiver never rejects a frame of an honest peer, whatever sends and
\* receives were cancelled, dropped or failed on either end before.
THEOREM HonestFramesAccepted == Spec => []NoFalseRejection
<1>1. IInv => NoFalseRejection BY DEF IInv, LocalOK, PlaceOK, NoFalseRejection
<1> QED BY <1>1, Invariance, PTL

\* make_nonce's guarantee: no sequence number is put on a wire for two
\* different messages.  Two halves with the same number are the two halves of
\* one frame, and these come from one send.
THEOREM NoncesAreUnique == Spec => []NonceUnique
<1>1. IInv => NonceUnique
  <2> SUFFICES ASSUME IInv, NEW s \in Sessions
               PROVE  \A i, j \in DOMAIN wire[s] :
                         wire[s][i].sequence = wire[s][j].sequence => wire[s][i].call = wire[s][j].call
      BY DEF NonceUnique
  <2>1. wire[s] \in Seq(Half) /\ Framed(s) BY DEF IInv, TypeOK
  <2>2. DOMAIN wire[s] = 1 .. Len(wire[s]) /\ Len(wire[s]) \in Nat BY <2>1
  <2>3. ASSUME NEW i \in 1 .. Len(wire[s]), NEW j \in 1 .. Len(wire[s]), i < j,
               wire[s][i].sequence = wire[s][j].sequence
        PROVE  wire[s][i].call = wire[s][j].call
    <3>1. /\ wire[s][i].sequence = FirstSeq + ((i - 1) \div 2)
          /\ wire[s][j].sequence = FirstSeq + ((j - 1) \div 2)
          /\ j % 2 = 0 => wire[s][j - 1].call = wire[s][j].call
          BY <2>1 DEF Framed
    <3>2. (i - 1) \div 2 = (j - 1) \div 2
      <4> DEFINE p == (i - 1) \div 2
                 q == (j - 1) \div 2
      <4>1. p \in Nat /\ q \in Nat
        <5>1. i - 1 \in Nat /\ j - 1 \in Nat BY <2>2
        <5> QED BY <5>1, Parity
      <4>2. FirstSeq + p = FirstSeq + q BY <2>3, <3>1
      <4> HIDE DEF p, q
      <4>3. p = q BY <4>1, <4>2 DEF FirstSeq
      <4> QED BY <4>3 DEF p, q
    <3>3. j % 2 = 0 /\ j - 1 = i BY <2>2, <2>3, <3>2
    <3> QED BY <3>1, <3>3
  <2>4. ASSUME NEW i \in 1 .. Len(wire[s]), NEW j \in 1 .. Len(wire[s])
        PROVE  i = j \/ i < j \/ j < i
        BY <2>2
  <2> QED BY <2>2, <2>3, <2>4
<1> QED BY <1>1, Invariance, PTL

\* A call begun after its session visibly ended succeeds in nothing and puts
\* nothing on the wire.
THEOREM LateCallsDoNothing == Spec => []NoLateIo
<1>1. IInv => NoLateIo
  <2> SUFFICES ASSUME IInv, NEW c \in late, op[c] \in IoOps
               PROVE  /\ result[c] # "ok"
                      /\ \A i \in DOMAIN wire[on[c]] : wire[on[c]][i].call # c
      BY DEF NoLateIo
  <2>1. c \in Calls BY DEF IInv, TypeOK
  <2>2. result[c] # "ok" /\ on[c] \in Sessions BY <2>1 DEF IInv, LocalOK, PlaceOK, LateOK
  <2>3. wire[on[c]] \in Seq(Half) /\ Authentic(on[c]) BY <2>2 DEF IInv, TypeOK
  <2>4. DOMAIN wire[on[c]] = 1 .. Len(wire[on[c]]) BY <2>3
  <2> QED BY <2>2, <2>3, <2>4 DEF Authentic
<1> QED BY <1>1, Invariance, PTL
=============================================================================
