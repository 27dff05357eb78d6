----------------------------- MODULE QueueProofs -----------------------------
(***************************************************************************)
(* Proofs about Queue, for any calls and every capacity.                   *)
(***************************************************************************)
EXTENDS Queue, FiniteSetTheorems, TLAPS

-----------------------------------------------------------------------------
(* The inductive invariant.                                                *)

\* Which operation can be where, and with which result.
PlaceOK(c) ==
    /\ pc[c] = "new" => op[c] = "none"
    /\ pc[c] = "try" => op[c] \in SendOps
    /\ pc[c] \in {"lock", "locked", "drain"} => op[c] = "recv"
    /\ pc[c] = "take" => op[c] \in RecvOps
    /\ pc[c] = "seal" => op[c] = "close"
    /\ pc[c] \in {"pending", "deliver"} => op[c] \in {"send", "recv"}
    /\ pc[c] \notin {"deliver", "done"} => result[c] = "none" /\ got[c] = NoItem

\* A receive that met the end of the queue.
DrainedOK(c) == op[c] \in RecvOps /\ result[c] = "closed" => rxClosed /\ buf = <<>>

\* close() cancels the token first; a send begun after it gets no further
\* than its first look at the token.
ShutOK(c) ==
    /\ op[c] = "close" /\ pc[c] \in {"seal", "done"} => shutdown
    /\ c \in late => shutdown /\ pc[c] # "new"
    /\ c \in late /\ op[c] \in SendOps =>
          pc[c] \in {"check", "deliver", "done"} /\ result[c] # "ok"

\* The channel may have accepted the item of i: its send succeeded, or was
\* cancelled.
Accepted(i) ==
    /\ op[i] \in SendOps /\ pc[i] \in {"deliver", "done"} /\ result[i] \in {"ok", "cancelled"}
    /\ i \notin late

\* Nothing but accepted items is in the channel or with a receive, and
\* nothing twice.
BufOK ==
    \A k \in 1 .. Len(buf) :
        /\ Accepted(buf[k])
        /\ \A l \in 1 .. Len(buf) : buf[k] = buf[l] => k = l
        /\ \A c \in Calls : got[c] # buf[k]
GotOK ==
    \A c \in Calls :
        got[c] # NoItem =>
            Accepted(got[c]) /\ \A d \in Calls : got[d] = got[c] => d = c

\* A successful send's item is somewhere.
Somewhere(i) == (\E k \in 1 .. Len(buf) : buf[k] = i) \/ (\E c \in Calls : got[c] = i)
KeptOK(i) == op[i] \in SendOps /\ result[i] = "ok" => Somewhere(i)

CallOK(c) == PlaceOK(c) /\ DrainedOK(c) /\ ShutOK(c)

IInv ==
    /\ TypeOK
    /\ \A c \in Calls : CallOK(c) /\ KeptOK(c)
    /\ BufOK /\ GotOK

-----------------------------------------------------------------------------
(* How a step moves a call.                                                *)

\* The variables that describe the calls and the lines.
CallsTyped ==
    /\ queued \in SUBSET Calls /\ ahead \in [Calls -> SUBSET Calls]
    /\ pc \in [Calls -> Places] /\ op \in [Calls -> AllOps \cup {"none"}]
    /\ result \in [Calls -> Results] /\ late \in SUBSET Calls

\* Nothing about call d changes.
Untouched(d) ==
    /\ pc'[d] = pc[d] /\ op'[d] = op[d] /\ result'[d] = result[d] /\ got'[d] = got[d]
    /\ d \in late' <=> d \in late

\* A call in progress goes on or returns; it keeps its place in line, joins a
\* line or leaves it.
Moves(c) ==
    /\ \/ \E p \in Places : Goto(c, p)
       \/ \E r \in Results : Return(c, r)
       \/ \E r \in Results : pc' = [pc EXCEPT ![c] = "done"] /\ result' = [result EXCEPT ![c] = r]
    /\ \/ UNCHANGED lineVars
       \/ Leave(c)
       \/ \E line \in SUBSET Calls : Join(c, line)
    /\ UNCHANGED <<op, late>>

\* Every step of a call in progress does that.
LEMMA CallMoves ==
    ASSUME TypeOK, NEW c \in Calls, Run(c) \/ Cancel(c)
    PROVE  Moves(c)
<1>0. Senders \in SUBSET Calls /\ {} \in SUBSET Calls BY DEF TypeOK, Senders
<1> USE DEF Moves, Places, Results
<1>1. CASE SendCheck(c) BY <1>1 DEF SendCheck
<1>2. CASE SendTry(c) BY <1>0, <1>2 DEF SendTry
<1>3. CASE SendWake(c) BY <1>3 DEF SendWake
<1>4. CASE RecvLock(c) BY <1>4 DEF RecvLock
<1>5. CASE RecvPoll(c) BY <1>5 DEF RecvPoll
<1>6. CASE RecvTake(c) BY <1>6 DEF RecvTake
<1>7. CASE RecvWake(c) BY <1>7 DEF RecvWake
<1>8. CASE TryRecvLock(c) BY <1>0, <1>8 DEF TryRecvLock
<1>9. CASE TryRecvTake(c) BY <1>9 DEF TryRecvTake
<1>10. CASE CloseCancel(c) BY <1>10 DEF CloseCancel
<1>11. CASE CloseSeal(c) BY <1>11 DEF CloseSeal
<1>12. CASE Deliver(c) BY <1>12 DEF Deliver
<1>13. CASE Cancel(c) BY <1>13 DEF Cancel
<1> QED BY <1>1, <1>2, <1>3, <1>4, <1>5, <1>6, <1>7, <1>8, <1>9, <1>10, <1>11, <1>12, <1>13 DEF Run

\* Such a move is well typed and touches no other call.
LEMMA MovesFrame ==
    ASSUME TypeOK, NEW c \in Calls, Moves(c)
    PROVE  /\ CallsTyped'
           /\ \A d \in Calls \ {c} : pc'[d] = pc[d] /\ result'[d] = result[d]
           /\ op' = op /\ late' = late
<1>1. /\ pc' \in [Calls -> Places] /\ result' \in [Calls -> Results]
      /\ \A d \in Calls \ {c} : pc'[d] = pc[d] /\ result'[d] = result[d]
      BY DEF Moves, TypeOK, Goto, Return, Places
<1>2. queued' \in SUBSET Calls /\ ahead' \in [Calls -> SUBSET Calls]
      BY DEF Moves, TypeOK, lineVars, Leave, Join
<1> QED BY <1>1, <1>2 DEF Moves, TypeOK, CallsTyped

\* What a move leaves the call with.
LEMMA Moved ==
    ASSUME TypeOK, NEW c \in Calls
    PROVE  /\ \A p \in Places : Goto(c, p) => pc'[c] = p /\ result'[c] = result[c]
           /\ \A r \in Results : Return(c, r) =>
                 pc'[c] = (IF op[c] \in {"send", "recv"} THEN "deliver" ELSE "done") /\ result'[c] = r
BY DEF TypeOK, Goto, Return

-----------------------------------------------------------------------------
(* What a step does to the channel.                                        *)

\* It leaves the items alone, and no send succeeds by it; or it puts the
\* item of c in; or c takes the first item out.
Rests(c) ==
    /\ buf' = buf /\ got' = got
    /\ result'[c] = "ok" /\ op[c] \in SendOps => result[c] = "ok"
Puts(c) ==
    /\ ~rxClosed /\ pc[c] = "try" /\ Len(buf) + 1 <= capacity
    /\ buf' = Append(buf, c) /\ got' = got
    /\ pc'[c] \in {"deliver", "done"} /\ result'[c] = "ok"
Takes(c) ==
    /\ buf # <<>> /\ buf' = Tail(buf) /\ got' = [got EXCEPT ![c] = Head(buf)]
    /\ op[c] \in RecvOps /\ pc[c] \in {"take", "drain"} /\ pc'[c] \in {"deliver", "done"}
    /\ result'[c] = "item"

\* Closing is final, and the step leaves its call in order.
Effect(c) ==
    /\ capacity' = capacity
    /\ shutdown' \in BOOLEAN /\ (shutdown => shutdown')
    /\ rxClosed' \in BOOLEAN /\ (rxClosed => rxClosed')
    /\ Rests(c) \/ Puts(c) \/ Takes(c)
    /\ Accepted(c) => Accepted(c)'
    /\ CallOK(c)'

\* A permit is free only while the channel is not full.
LEMMA PermitRoom ==
    ASSUME TypeOK, NEW c \in Calls, Permit(c)
    PROVE  Len(buf) + 1 <= capacity
<1> DEFINE S == IF c \in queued THEN ahead[c] ELSE Senders
<1>1. S \subseteq Calls BY DEF TypeOK, Senders
<1>2. Cardinality(S) \in Nat BY <1>1, CapacityAssumption, FS_Subset, FS_CardinalityType
<1>3. Len(buf) \in Nat /\ capacity \in Nat BY CapacityAssumption DEF TypeOK
<1>4. Cardinality(S) + Len(buf) < capacity BY DEF Permit
<1> HIDE DEF S
<1> QED BY <1>2, <1>3, <1>4

\* Every step of a call in progress has such an effect.
LEMMA StepEffect ==
    ASSUME IInv, NEW c \in Calls, Run(c) \/ Cancel(c)
    PROVE  Effect(c)
<1>0. /\ TypeOK /\ CallOK(c) /\ PlaceOK(c) /\ DrainedOK(c) /\ ShutOK(c) /\ shutdown \in BOOLEAN
      /\ rxClosed \in BOOLEAN /\ got \in [Calls -> Calls \cup {NoItem}]
      BY DEF IInv, CallOK, TypeOK
<1>00. op' = op /\ late' = late BY <1>0, CallMoves, MovesFrame
<1>1000. \A p \in Places : Goto(c, p) => pc'[c] = p /\ result'[c] = result[c] BY <1>0, Moved
<1>2000. \A r \in Results : Return(c, r) =>
          pc'[c] = (IF op[c] \in {"send", "recv"} THEN "deliver" ELSE "done") /\ result'[c] = r
       BY <1>0, Moved
<1> USE DEF Places, Results, SendOps, RecvOps
\* A call that goes on without touching the items.
<1>100. ASSUME NEW p \in Places \ {"new", "deliver", "done"}, Goto(c, p),
             pc[c] \notin {"new", "deliver", "done"},
             UNCHANGED <<capacity, buf, got>>, shutdown' \in BOOLEAN, shutdown => shutdown',
             rxClosed' \in BOOLEAN, rxClosed => rxClosed',
             p \in {"check", "try"} => op[c] \in SendOps,
             p \in {"lock", "locked", "drain"} => op[c] = "recv",
             p = "take" => op[c] \in RecvOps,
             p = "seal" => op[c] = "close" /\ shutdown',
             p = "pending" => op[c] \in {"send", "recv"},
             p \in {"try", "pending"} /\ op[c] = "send" => c \notin late,
             p = "try" => c \notin late
      PROVE  Effect(c)
  <2>1. pc'[c] = p /\ result'[c] = "none" /\ result[c] = "none" /\ got[c] = NoItem
        BY <1>0, <1>100, <1>1000 DEF PlaceOK
  <2>2. PlaceOK(c)' BY <1>00, <1>100, <2>1 DEF PlaceOK
  <2>3. DrainedOK(c)' BY <2>1 DEF DrainedOK
  <2>4. ShutOK(c)' BY <1>0, <1>00, <1>100, <2>1 DEF ShutOK
  <2>5. ~Accepted(c) BY <2>1 DEF Accepted
  <2> QED BY <1>100, <2>1, <2>2, <2>3, <2>4, <2>5 DEF Effect, Rests, CallOK
\* A call that returns without touching the items.
<1>200. ASSUME NEW r \in Results \ {"none", "ok"}, Return(c, r), pc[c] \notin {"new", "deliver", "done"},
             UNCHANGED <<capacity, buf, got, shutdown, rxClosed>>,
             op[c] \in RecvOps /\ r = "closed" => rxClosed /\ buf = <<>>,
             op[c] \in SendOps \cup RecvOps
      PROVE  Effect(c)
  <2>1. /\ pc'[c] = (IF op[c] \in {"send", "recv"} THEN "deliver" ELSE "done") /\ result'[c] = r
        /\ result[c] = "none" /\ got[c] = NoItem
        BY <1>0, <1>200, <1>2000 DEF PlaceOK
  <2>2. PlaceOK(c)' BY <1>00, <1>200, <2>1 DEF PlaceOK
  <2>3. DrainedOK(c)' BY <1>00, <1>200, <2>1 DEF DrainedOK
  <2>4. ShutOK(c)' BY <1>0, <1>00, <1>200, <2>1 DEF ShutOK
  <2>5. ~Accepted(c) BY <2>1 DEF Accepted
  <2> QED BY <1>0, <1>200, <2>1, <2>2, <2>3, <2>4, <2>5 DEF Effect, Rests, CallOK
\* A call that takes the first item.
<1>300. ASSUME Pop(c), Return(c, "item"), pc[c] \in {"take", "drain"},
             UNCHANGED <<capacity, shutdown, rxClosed>>
      PROVE  Effect(c)
  <2>1. /\ pc'[c] = (IF op[c] \in {"send", "recv"} THEN "deliver" ELSE "done") /\ result'[c] = "item"
        /\ result[c] = "none" /\ op[c] \in RecvOps
        BY <1>0, <1>300, <1>2000 DEF PlaceOK
  <2>2. PlaceOK(c)' BY <1>00, <2>1 DEF PlaceOK
  <2>3. DrainedOK(c)' BY <2>1 DEF DrainedOK
  <2>4. ShutOK(c)' BY <1>0, <1>00, <1>300, <2>1 DEF ShutOK
  <2>5. ~Accepted(c) BY <2>1 DEF Accepted
  <2>6. Takes(c) BY <1>300, <2>1 DEF Takes, Pop
  <2> QED BY <1>0, <1>300, <2>1, <2>2, <2>3, <2>4, <2>5, <2>6 DEF Effect, CallOK
<1>1. CASE SendCheck(c)
  <2>1. pc[c] = "check" /\ op[c] \in SendOps /\ UNCHANGED <<capacity, shutdown, rxClosed, buf, got>>
        BY <1>1 DEF SendCheck, chanVars
  <2>2. CASE Return(c, "closed") BY <1>200, <2>1, <2>2
  <2>3. CASE ~shutdown /\ Goto(c, "try") BY <1>0, <1>100, <2>1, <2>3 DEF ShutOK
  <2> QED BY <1>1, <2>2, <2>3 DEF SendCheck
<1>2. CASE SendTry(c)
  <2>1. pc[c] = "try" /\ op[c] \in SendOps /\ UNCHANGED <<capacity, shutdown, rxClosed, got>>
        BY <1>0, <1>2 DEF SendTry, PlaceOK
  <2>2. c \notin late BY <1>0, <2>1 DEF ShutOK
  <2>3. CASE UNCHANGED buf /\ (Return(c, "closed") \/ Return(c, "full")) BY <1>200, <2>1, <2>3
  <2>4. CASE UNCHANGED buf /\ op[c] = "send" /\ Goto(c, "pending")
        BY <1>0, <1>100, <2>1, <2>2, <2>4
  <2>5. CASE ~rxClosed /\ Permit(c) /\ buf' = Append(buf, c) /\ Return(c, "ok")
    <3>1. /\ pc'[c] = (IF op[c] \in {"send", "recv"} THEN "deliver" ELSE "done") /\ result'[c] = "ok"
          BY <1>0, <1>2000, <2>5
    <3>2. Puts(c) BY <1>0, <2>1, <2>5, <3>1, PermitRoom DEF Puts
    <3>3. PlaceOK(c)' BY <1>00, <2>1, <3>1 DEF PlaceOK
    <3>4. DrainedOK(c)' BY <3>1 DEF DrainedOK
    <3>5. ShutOK(c)' BY <1>00, <2>1, <2>2 DEF ShutOK
    <3>6. ~Accepted(c) BY <2>1 DEF Accepted
    <3> QED BY <1>0, <2>1, <3>2, <3>3, <3>4, <3>5, <3>6 DEF Effect, CallOK
  <2> QED BY <1>2, <2>3, <2>4, <2>5 DEF SendTry
<1>3. CASE SendWake(c)
  <2>1. c \notin late BY <1>0, <1>3 DEF SendWake, ShutOK
  <2> QED BY <1>0, <1>3, <1>100, <2>1 DEF SendWake, chanVars
<1>4. CASE RecvLock(c) BY <1>0, <1>4, <1>100 DEF RecvLock, chanVars, PlaceOK
<1>5. CASE RecvPoll(c) BY <1>0, <1>5, <1>100 DEF RecvPoll, PlaceOK
<1>6. CASE RecvTake(c)
  <2>1. pc[c] \in {"take", "drain"} /\ op[c] = "recv" /\ UNCHANGED <<capacity, shutdown, rxClosed>>
        BY <1>6 DEF RecvTake
  <2>2. CASE Pop(c) /\ Return(c, "item") BY <1>300, <2>1, <2>2
  <2>3. CASE buf = <<>> /\ rxClosed /\ Return(c, "closed") /\ UNCHANGED <<buf, got>>
        BY <1>200, <2>1, <2>3
  <2>4. CASE Goto(c, "pending") /\ UNCHANGED <<buf, got>> BY <1>0, <1>100, <2>1, <2>4
  <2> QED BY <1>6, <2>2, <2>3, <2>4 DEF RecvTake
<1>7. CASE RecvWake(c) BY <1>0, <1>7, <1>100 DEF RecvWake, chanVars
<1>8. CASE TryRecvLock(c)
  <2>1. pc[c] = "check" /\ op[c] = "try_recv" /\ UNCHANGED <<capacity, shutdown, buf, got>>
        BY <1>8 DEF TryRecvLock
  <2>2. CASE Return(c, "busy") /\ UNCHANGED rxClosed BY <1>200, <2>1, <2>2
  <2>3. CASE rxClosed' = (rxClosed \/ shutdown) /\ Goto(c, "take") BY <1>0, <1>100, <2>1, <2>3
  <2> QED BY <1>8, <2>2, <2>3 DEF TryRecvLock
<1>9. CASE TryRecvTake(c)
  <2>1. pc[c] = "take" /\ op[c] = "try_recv" /\ UNCHANGED <<capacity, shutdown, rxClosed>>
        BY <1>9 DEF TryRecvTake
  <2>2. CASE Pop(c) /\ Return(c, "item") BY <1>300, <2>1, <2>2
  <2>3. CASE /\ buf = <<>> /\ UNCHANGED <<buf, got>>
             /\ Return(c, IF rxClosed THEN "closed" ELSE "empty")
    <3>1. CASE rxClosed BY <1>200, <2>1, <2>3, <3>1
    <3>2. CASE ~rxClosed BY <1>200, <2>1, <2>3, <3>2
    <3> QED BY <3>1, <3>2
  <2> QED BY <1>9, <2>2, <2>3 DEF TryRecvTake
<1>10. CASE CloseCancel(c) BY <1>0, <1>10, <1>100 DEF CloseCancel
<1>11. CASE CloseSeal(c)
  <2>1. /\ pc[c] = "seal" /\ op[c] = "close" /\ shutdown /\ rxClosed' = (rxClosed \/ Receivers = {})
        /\ Return(c, "ok") /\ UNCHANGED <<capacity, shutdown, buf, got>>
        BY <1>0, <1>11 DEF CloseSeal, PlaceOK, ShutOK
  <2>2. pc'[c] = "done" /\ result'[c] = "ok" BY <1>2000, <2>1
  <2>3. PlaceOK(c)' /\ DrainedOK(c)' /\ ShutOK(c)'
        BY <1>0, <1>00, <2>1, <2>2 DEF PlaceOK, DrainedOK, ShutOK
  <2>4. ~Accepted(c) BY <2>1 DEF Accepted
  <2> QED BY <1>0, <2>1, <2>2, <2>3, <2>4 DEF Effect, Rests, CallOK
<1>12. CASE Deliver(c)
  <2>1. /\ pc[c] = "deliver" /\ pc'[c] = "done" /\ result'[c] = result[c]
        /\ UNCHANGED <<capacity, shutdown, rxClosed, buf, got>>
        BY <1>12, <1>1000 DEF Deliver, chanVars
  <2>2. PlaceOK(c)' /\ DrainedOK(c)' /\ ShutOK(c)'
        BY <1>0, <1>00, <2>1 DEF PlaceOK, DrainedOK, ShutOK
  <2>3. Accepted(c) => Accepted(c)' BY <1>00, <2>1 DEF Accepted
  <2> QED BY <1>0, <2>1, <2>2, <2>3 DEF Effect, Rests, CallOK
<1>13. CASE Cancel(c)
  <2>1. /\ op[c] \in {"send", "recv"} /\ pc[c] \in {"lock", "pending", "deliver"}
        /\ pc'[c] = "done" /\ result'[c] = "cancelled"
        /\ UNCHANGED <<capacity, shutdown, rxClosed, buf, got>>
        BY <1>0, <1>13 DEF Cancel, chanVars, TypeOK
  <2>2. PlaceOK(c)' /\ DrainedOK(c)' /\ ShutOK(c)'
        BY <1>0, <1>00, <2>1 DEF PlaceOK, DrainedOK, ShutOK
  <2>3. Accepted(c) => Accepted(c)' BY <1>00, <2>1 DEF Accepted
  <2> QED BY <1>0, <2>1, <2>2, <2>3 DEF Effect, Rests, CallOK
<1> QED BY <1>1, <1>2, <1>3, <1>4, <1>5, <1>6, <1>7, <1>8, <1>9, <1>10, <1>11, <1>12, <1>13 DEF Run

-----------------------------------------------------------------------------
(* A step with such an effect keeps the invariant.                         *)

\* The new contents of the channel, item by item.
LEMMA PutItems ==
    ASSUME TypeOK, NEW c \in Calls, Puts(c)
    PROVE  /\ buf' \in Seq(Calls) /\ Len(buf') = Len(buf) + 1 /\ Len(buf) \in Nat
           /\ \A k \in 1 .. Len(buf) : buf'[k] = buf[k]
           /\ buf'[Len(buf) + 1] = c
BY DEF TypeOK, Puts

LEMMA TakeItems ==
    ASSUME TypeOK, NEW c \in Calls, Takes(c)
    PROVE  /\ buf' \in Seq(Calls) /\ Len(buf) \in Nat \ {0} /\ Len(buf') = Len(buf) - 1
           /\ \A k \in 1 .. Len(buf') : buf'[k] = buf[k + 1]
           /\ Head(buf) = buf[1] /\ buf[1] \in Calls
           /\ got'[c] = buf[1] /\ \A d \in Calls \ {c} : got'[d] = got[d]
           /\ got' \in [Calls -> Calls \cup {NoItem}]
<1>1. buf \in Seq(Calls) /\ buf # <<>> /\ buf' = Tail(buf) /\ got' = [got EXCEPT ![c] = Head(buf)]
      BY DEF TypeOK, Takes
<1>2. Len(buf) \in Nat \ {0} /\ buf' \in Seq(Calls) /\ Len(buf') = Len(buf) - 1 BY <1>1
<1>3. \A k \in 1 .. Len(buf') : buf'[k] = buf[k + 1] BY <1>1, <1>2
<1>4. Head(buf) = buf[1] /\ buf[1] \in Calls BY <1>1, <1>2
<1> QED BY <1>1, <1>2, <1>3, <1>4 DEF TypeOK

LEMMA EffectKeeps ==
    ASSUME IInv, NEW c \in Calls, Effect(c), CallsTyped',
           \A d \in Calls \ {c} : Untouched(d),
           op'[c] = op[c] \/ result'[c] = "none"
    PROVE  IInv'
<1>0. /\ TypeOK /\ BufOK /\ GotOK /\ \A d \in Calls : CallOK(d) /\ KeptOK(d)
      /\ Rests(c) \/ Puts(c) \/ Takes(c)
      BY DEF IInv, Effect
<1>1. \A i \in Calls : Accepted(i) => Accepted(i)'
      BY DEF Effect, Accepted, Untouched
<1>2. \A i \in Calls : Accepted(i) => pc[i] \in {"deliver", "done"} BY DEF Accepted
<1>20. /\ \A k \in 1 .. Len(buf) : buf[k] \in Calls
       /\ Len(buf) \in Nat /\ NoItem \notin Calls
       BY <1>0, CapacityAssumption DEF TypeOK, NoItem
<1>3. TypeOK'
  <2>1. buf' \in Seq(Calls) /\ Len(buf') <= capacity /\ got' \in [Calls -> Calls \cup {NoItem}]
    <3>1. CASE Rests(c) BY <1>0, <3>1 DEF Rests, TypeOK
    <3>2. CASE Puts(c) BY <1>0, <3>2, PutItems DEF Puts, TypeOK
    <3>3. CASE Takes(c)
      <4>1. capacity \in Nat /\ Len(buf) <= capacity BY <1>0, CapacityAssumption DEF TypeOK
      <4> QED BY <1>0, <3>3, <4>1, TakeItems
    <3> QED BY <1>0, <3>1, <3>2, <3>3
  <2> QED BY <1>0, <2>1 DEF TypeOK, CallsTyped, Effect
<1>4. ASSUME NEW d \in Calls PROVE CallOK(d)'
  <2>1. CASE d = c BY <2>1 DEF Effect
  <2>2. CASE d # c
    <3>1. Untouched(d) /\ CallOK(d) BY <1>0, <2>2
    <3>2. PlaceOK(d)' BY <3>1 DEF CallOK, PlaceOK, Untouched
    <3>3. ShutOK(d)' BY <3>1 DEF CallOK, ShutOK, Untouched, Effect
    <3>4. ASSUME op[d] \in RecvOps, result[d] = "closed" PROVE rxClosed' /\ buf' = <<>>
      <4>1. rxClosed /\ buf = <<>> BY <3>1, <3>4 DEF CallOK, DrainedOK
      <4> QED BY <1>0, <4>1 DEF Effect, Rests, Puts, Takes
    <3>5. DrainedOK(d)' BY <3>1, <3>4 DEF DrainedOK, Untouched
    <3> QED BY <3>2, <3>3, <3>5 DEF CallOK
  <2> QED BY <2>1, <2>2
<1>5. CASE Rests(c)
  <2>1. buf' = buf /\ got' = got BY <1>5 DEF Rests
  <2>2. BufOK' BY <1>0, <1>1, <1>20, <2>1 DEF BufOK
  <2>3. GotOK' BY <1>0, <1>1, <1>20, <2>1 DEF GotOK, TypeOK
  <2>4. ASSUME NEW d \in Calls PROVE KeptOK(d)'
    <3>1. Somewhere(d) => Somewhere(d)' BY <2>1 DEF Somewhere
    <3>2. op'[d] \in SendOps /\ result'[d] = "ok" => op[d] \in SendOps /\ result[d] = "ok"
          BY <1>5 DEF Untouched, Rests
    <3> QED BY <1>0, <3>1, <3>2 DEF KeptOK
  <2> QED BY <1>3, <1>4, <2>2, <2>3, <2>4 DEF IInv
<1>6. CASE Puts(c)
  <2>1. got' = got /\ pc[c] = "try" /\ result'[c] = "ok" /\ pc'[c] \in {"deliver", "done"}
        BY <1>6 DEF Puts
  <2>2. ~Accepted(c) BY <2>1 DEF Accepted
  <2>3. Accepted(c)'
    <3>1. op[c] \in SendOps /\ op'[c] = op[c] BY <1>0, <2>1 DEF CallOK, PlaceOK
    <3>2. c \notin late' BY <2>1, <3>1 DEF Effect, CallOK, ShutOK
    <3> QED BY <2>1, <3>1, <3>2 DEF Accepted
  <2>4. (\A k \in 1 .. Len(buf) : buf[k] # c) /\ \A d \in Calls : got[d] # c
        BY <1>0, <1>20, <2>2 DEF BufOK, GotOK
  <2>5. /\ Len(buf') = Len(buf) + 1 /\ \A k \in 1 .. Len(buf) : buf'[k] = buf[k]
        /\ buf'[Len(buf) + 1] = c
        BY <1>0, <1>6, PutItems
  <2>6. BufOK'
    <3>1. SUFFICES ASSUME NEW k \in 1 .. Len(buf')
                   PROVE  /\ Accepted(buf[k])'
                          /\ \A l \in 1 .. Len(buf') : buf'[k] = buf'[l] => k = l
                          /\ \A d \in Calls : got'[d] # buf'[k]
          BY DEF BufOK
    <3>2. CASE k = Len(buf) + 1
      <4>1. buf'[k] = c BY <2>5, <3>2
      <4>2. \A l \in 1 .. Len(buf') : l # k => l \in 1 .. Len(buf) BY <1>20, <2>5, <3>2
      <4>3. \A l \in 1 .. Len(buf') : buf'[k] = buf'[l] => k = l BY <2>4, <2>5, <4>1, <4>2
      <4>4. Accepted(buf[k])' BY <2>3, <4>1
      <4> QED BY <2>1, <2>4, <4>1, <4>3, <4>4
    <3>3. CASE k # Len(buf) + 1
      <4>1. k \in 1 .. Len(buf) BY <1>20, <2>5, <3>3
      <4>2. buf'[k] = buf[k] /\ Accepted(buf[k]) /\ \A d \in Calls : got[d] # buf[k]
            BY <1>0, <2>5, <4>1 DEF BufOK
      <4>3. ASSUME NEW l \in 1 .. Len(buf'), buf'[k] = buf'[l] PROVE k = l
        <5>1. CASE l = Len(buf) + 1 BY <2>4, <2>5, <4>1, <4>2, <4>3, <5>1
        <5>2. CASE l # Len(buf) + 1
          <6>1. l \in 1 .. Len(buf) BY <1>20, <2>5, <5>2
          <6> QED BY <1>0, <2>5, <4>1, <4>2, <4>3, <6>1 DEF BufOK
        <5> QED BY <5>1, <5>2
      <4>4. Accepted(buf[k])'
        <5>1. \A i \in Calls : i = buf'[k] => Accepted(i)' BY <1>1, <1>20, <4>1, <4>2
        <5> QED BY <1>20, <4>1, <4>2, <5>1
      <4> QED BY <2>1, <4>2, <4>3, <4>4
    <3> QED BY <3>2, <3>3
  <2>7. GotOK' BY <1>0, <1>1, <1>20, <2>1 DEF GotOK, TypeOK
  <2>8. ASSUME NEW d \in Calls PROVE KeptOK(d)'
    <3>1. Somewhere(d) => Somewhere(d)' BY <1>20, <2>1, <2>5 DEF Somewhere
    <3>2. Somewhere(c)' BY <1>20, <2>5 DEF Somewhere
    <3> QED BY <1>0, <3>1, <3>2 DEF KeptOK, Untouched
  <2> QED BY <1>3, <1>4, <2>6, <2>7, <2>8 DEF IInv
<1>7. CASE Takes(c)
  <2>1. /\ Len(buf) \in Nat \ {0} /\ Len(buf') = Len(buf) - 1
        /\ \A k \in 1 .. Len(buf') : buf'[k] = buf[k + 1]
        /\ buf[1] \in Calls /\ got'[c] = buf[1] /\ \A d \in Calls \ {c} : got'[d] = got[d]
        BY <1>0, <1>7, TakeItems
  <2>2. got[c] = NoItem /\ result'[c] = "item" BY <1>0, <1>7 DEF Takes, CallOK, PlaceOK
  <2>3. /\ Accepted(buf[1]) /\ \A d \in Calls : got[d] # buf[1]
        /\ \A l \in 1 .. Len(buf) : buf[1] = buf[l] => 1 = l
        BY <1>0, <2>1 DEF BufOK
  <2>4. BufOK'
    <3>1. SUFFICES ASSUME NEW k \in 1 .. Len(buf')
                   PROVE  /\ Accepted(buf[k])'
                          /\ \A l \in 1 .. Len(buf') : buf'[k] = buf'[l] => k = l
                          /\ \A d \in Calls : got'[d] # buf'[k]
          BY DEF BufOK
    <3>2. k + 1 \in 1 .. Len(buf) /\ k + 1 # 1 /\ buf'[k] = buf[k + 1] BY <2>1
    <3>3. Accepted(buf[k + 1]) /\ \A d \in Calls : got[d] # buf[k + 1] BY <1>0, <3>2 DEF BufOK
    <3>4. Accepted(buf[k])'
      <4>1. \A i \in Calls : i = buf'[k] => Accepted(i)' BY <1>1, <1>20, <3>2, <3>3
      <4> QED BY <1>20, <3>2, <4>1
    <3>5. ASSUME NEW l \in 1 .. Len(buf'), buf'[k] = buf'[l] PROVE k = l
      <4>1. l + 1 \in 1 .. Len(buf) /\ buf'[l] = buf[l + 1] BY <2>1
      <4>2. k + 1 = l + 1 BY <1>0, <3>2, <3>5, <4>1 DEF BufOK
      <4> QED BY <2>1, <4>2
    <3>6. buf[1] # buf[k + 1] BY <2>3, <3>2
    <3> QED BY <2>1, <3>2, <3>3, <3>4, <3>5, <3>6
  <2>5. GotOK'
    <3>1. SUFFICES ASSUME NEW d \in Calls, got'[d] # NoItem
                   PROVE  Accepted(got[d])' /\ \A e \in Calls : got'[e] = got'[d] => e = d
          BY DEF GotOK
    <3>2. CASE d = c
      <4>1. got'[d] = buf[1] BY <2>1, <3>2
      <4>2. \A i \in Calls : i = got'[d] => Accepted(i)' BY <1>1, <2>3, <4>1
      <4> QED BY <2>1, <2>3, <3>2, <4>1, <4>2
    <3>3. CASE d # c
      <4>1. got'[d] = got[d] /\ got[d] \in Calls BY <1>0, <2>1, <3>1, <3>3 DEF TypeOK
      <4>2. Accepted(got[d]) /\ \A e \in Calls : got[e] = got[d] => e = d
            BY <1>0, <3>1, <4>1 DEF GotOK
      <4>3. \A i \in Calls : i = got'[d] => Accepted(i)' BY <1>1, <4>1, <4>2
      <4> QED BY <2>1, <2>3, <4>1, <4>2, <4>3
    <3> QED BY <3>2, <3>3
  <2>6. ASSUME NEW d \in Calls PROVE KeptOK(d)'
    <3>1. ASSUME Somewhere(d) PROVE Somewhere(d)'
      <4>1. CASE \E e \in Calls : got[e] = d
        <5>1. PICK e \in Calls : got[e] = d BY <4>1
        <5>2. e # c BY <1>20, <2>2, <5>1
        <5> QED BY <2>1, <5>1, <5>2 DEF Somewhere
      <4>2. CASE \E k \in 1 .. Len(buf) : buf[k] = d
        <5>1. PICK k \in 1 .. Len(buf) : buf[k] = d BY <4>2
        <5>2. CASE k = 1 BY <2>1, <5>1, <5>2 DEF Somewhere
        <5>3. CASE k # 1
          <6>1. k - 1 \in 1 .. Len(buf') /\ (k - 1) + 1 = k BY <2>1, <5>3
          <6>2. buf'[k - 1] = d BY <2>1, <5>1, <6>1
          <6> QED BY <6>1, <6>2 DEF Somewhere
        <5> QED BY <5>2, <5>3
      <4> QED BY <3>1, <4>1, <4>2 DEF Somewhere
    <3>2. op'[d] \in SendOps /\ result'[d] = "ok" => op[d] \in SendOps /\ result[d] = "ok"
          BY <2>2 DEF Untouched
    <3> QED BY <1>0, <3>1, <3>2 DEF KeptOK
  <2> QED BY <1>3, <1>4, <2>4, <2>5, <2>6 DEF IInv
<1> QED BY <1>0, <1>5, <1>6, <1>7

\* A call that begins has no effect on the channel; if a close has returned,
\* the token is already cancelled.
LEMMA BeginKeeps ==
    ASSUME IInv, NEW c \in Calls, Begin(c)
    PROVE  IInv'
<1>0. TypeOK /\ CallOK(c) /\ \A d \in Calls : ShutOK(d) BY DEF IInv, CallOK
<1>1. PICK o \in OpSet :
          /\ op' = [op EXCEPT ![c] = o]
          /\ \/ o # "recv" /\ Goto(c, "check") /\ UNCHANGED lineVars
             \/ o = "recv" /\ Goto(c, "lock") /\ Join(c, Receivers)
      BY DEF Begin
<1>2. /\ pc[c] = "new" /\ UNCHANGED <<capacity, shutdown, rxClosed, buf, got>>
      /\ late' = late \cup {d \in {c} : \E s \in Calls : op[s] = "close" /\ pc[s] = "done"}
      BY DEF Begin, chanVars
<1>3. o \in AllOps /\ Receivers \in SUBSET Calls BY <1>0, CapacityAssumption DEF Receivers, TypeOK
<1>4. CallsTyped' BY <1>0, <1>1, <1>2, <1>3 DEF CallsTyped, TypeOK, Goto, Join, lineVars, Places
<1>5. \A d \in Calls \ {c} : Untouched(d) BY <1>0, <1>1, <1>2 DEF TypeOK, Untouched, Goto
<1>6. /\ result[c] = "none" /\ result'[c] = "none" /\ got[c] = NoItem /\ op[c] = "none"
      /\ op'[c] = o /\ pc'[c] = (IF o = "recv" THEN "lock" ELSE "check")
      BY <1>0, <1>1, <1>2 DEF CallOK, PlaceOK, TypeOK, Goto
<1>7. c \in late' => shutdown BY <1>0, <1>2 DEF ShutOK
<1>8. PlaceOK(c)' BY <1>2, <1>6 DEF PlaceOK
<1>9. DrainedOK(c)' /\ ShutOK(c)' BY <1>2, <1>6, <1>7 DEF DrainedOK, ShutOK, SendOps
<1>10. ~Accepted(c) BY <1>2 DEF Accepted
<1>11. Effect(c) BY <1>0, <1>2, <1>6, <1>8, <1>9, <1>10 DEF Effect, Rests, CallOK, TypeOK
<1> QED BY <1>4, <1>5, <1>6, <1>11, EffectKeeps

LEMMA InitInv == Init => IInv
<1> SUFFICES ASSUME Init PROVE IInv OBVIOUS
<1>1. /\ Len(buf) = 0 /\ buf \in Seq(Calls) /\ capacity \in Nat \ {0} /\ capacity \in Capacities
      BY CapacityAssumption DEF Init
<1>2. TypeOK
  <2>1. Len(buf) <= capacity BY <1>1
  <2> QED BY <1>1, <2>1 DEF Init, TypeOK, Places, Results
<1>3. \A c \in Calls : CallOK(c) /\ KeptOK(c)
      BY DEF Init, CallOK, KeptOK, PlaceOK, DrainedOK, ShutOK, SendOps, RecvOps
<1>4. BufOK /\ GotOK BY <1>1 DEF Init, BufOK, GotOK
<1> QED BY <1>2, <1>3, <1>4 DEF IInv

LEMMA StepInv == IInv /\ [Next]_vars => IInv'
<1> SUFFICES ASSUME IInv, [Next]_vars PROVE IInv' OBVIOUS
<1>1. CASE UNCHANGED vars
      BY <1>1 DEF vars, chanVars, lineVars, IInv, TypeOK, CallOK, KeptOK, PlaceOK, DrainedOK,
         ShutOK, Accepted, BufOK, GotOK, Somewhere
<1>2. ASSUME NEW c \in Calls, Run(c) \/ Cancel(c) PROVE IInv'
  <2>1. TypeOK BY DEF IInv
  <2>2. Moves(c) /\ Effect(c) BY <1>2, <2>1, CallMoves, StepEffect
  <2>3. /\ CallsTyped' /\ op' = op /\ late' = late
        /\ \A d \in Calls \ {c} : pc'[d] = pc[d] /\ result'[d] = result[d]
        BY <2>1, <2>2, MovesFrame
  <2>4. \A d \in Calls \ {c} : got'[d] = got[d]
        BY <2>1, <2>2 DEF Effect, Rests, Puts, Takes, TypeOK
  <2>5. \A d \in Calls \ {c} : Untouched(d) BY <2>3, <2>4 DEF Untouched
  <2> QED BY <2>2, <2>3, <2>5, EffectKeeps
<1>3. ASSUME NEW c \in Calls, Begin(c) PROVE IInv' BY <1>3, BeginKeeps
<1> QED BY <1>1, <1>2, <1>3 DEF Next

-----------------------------------------------------------------------------
(* The theorems.                                                           *)

\* In every behaviour of the queue the invariant holds.
THEOREM Invariance == Spec => []IInv
BY InitInv, StepInv, PTL DEF Spec

\* The queue's state is well typed, and the channel never holds more items
\* than its capacity, whatever the number of calls and the capacity.
THEOREM TypeCorrect == Spec => []TypeOK
<1>1. IInv => TypeOK BY DEF IInv
<1> QED BY <1>1, Invariance, PTL

\* QueueClosed from a receive is final: recv and try_recv raise it only when
\* the channel is closed and empty, and it stays so.
THEOREM ClosedIsFinal == Spec => []ClosedMeansDrained
<1>1. IInv => ClosedMeansDrained BY DEF IInv, CallOK, DrainedOK, ClosedMeansDrained
<1> QED BY <1>1, Invariance, PTL

\* The copies of an item: none if it was never accepted, at most one anyway,
\* one if it is somewhere.
LEMMA CopiesCount ==
    ASSUME IInv, NEW i \in Calls
    PROVE  /\ Copies(i) \in {0, 1}
           /\ Somewhere(i) <=> Copies(i) = 1
           /\ Somewhere(i) => Accepted(i)
<1> DEFINE B == {k \in DOMAIN buf : buf[k] = i}
           G == {c \in Calls : got[c] = i}
<1>0. /\ TypeOK /\ BufOK /\ GotOK /\ NoItem \notin Calls /\ DOMAIN buf = 1 .. Len(buf)
      BY CapacityAssumption DEF IInv, TypeOK, NoItem
<1>1. B = {} \/ \E k : B = {k}
  <2>1. ASSUME NEW k \in B PROVE B = {k} BY <1>0, <2>1 DEF BufOK
  <2> QED BY <2>1
<1>2. G = {} \/ \E c : G = {c}
  <2>1. ASSUME NEW c \in G PROVE G = {c} BY <1>0, <2>1 DEF GotOK
  <2> QED BY <2>1
<1>3. B = {} \/ G = {} BY <1>0 DEF BufOK
<1>4. Somewhere(i) <=> ~(B = {} /\ G = {}) BY <1>0 DEF Somewhere
<1>5. Somewhere(i) => Accepted(i) BY <1>0 DEF Somewhere, BufOK, GotOK
<1>6. Cardinality({}) = 0 /\ \A x : Cardinality({x}) = 1 BY FS_EmptySet, FS_Singleton
<1>7. /\ B = {} => Cardinality(B) = 0
      /\ B # {} => Cardinality(B) = 1
      /\ G = {} => Cardinality(G) = 0
      /\ G # {} => Cardinality(G) = 1
      BY <1>1, <1>2, <1>6
<1>8. Copies(i) = Cardinality(B) + Cardinality(G) BY DEF Copies
<1> HIDE DEF B, G
<1> QED BY <1>3, <1>4, <1>5, <1>7, <1>8

\* A send called after close() returned is refused, though close() may have
\* found the receiver locked and left the channel open.
THEOREM LateSendsRefused == Spec => []NoLateSend
<1>1. ASSUME IInv PROVE NoLateSend
  <2> SUFFICES ASSUME NEW c \in late, op[c] \in SendOps
               PROVE  Copies(c) = 0 /\ result[c] # "ok"
      BY DEF NoLateSend
  <2>1. c \in Calls /\ ShutOK(c) BY <1>1 DEF IInv, TypeOK, CallOK
  <2>2. ~Accepted(c) BY DEF Accepted
  <2>3. Copies(c) = 0 BY <1>1, <2>1, <2>2, CopiesCount
  <2> QED BY <2>1, <2>3 DEF ShutOK
<1> QED BY <1>1, Invariance, PTL

\* No item is duplicated, lost or kept against a refusal: an accepted item is
\* in the channel or with exactly one receive.
THEOREM NothingLost == Spec => []ItemsAccounted
<1>1. ASSUME IInv PROVE ItemsAccounted
  <2> SUFFICES ASSUME NEW i \in Calls
               PROVE  /\ Copies(i) <= 1
                      /\ op[i] \in SendOps /\ result[i] = "ok" => Copies(i) = 1
                      /\ result[i] \in {"closed", "full"} => Copies(i) = 0
      BY DEF ItemsAccounted
  <2>1. /\ Copies(i) \in {0, 1} /\ (Somewhere(i) <=> Copies(i) = 1)
        /\ Somewhere(i) => Accepted(i)
        BY <1>1, CopiesCount
  <2>2. KeptOK(i) BY <1>1 DEF IInv
  <2>3. result[i] \in {"closed", "full"} => ~Accepted(i) BY DEF Accepted
  <2> QED BY <2>1, <2>2, <2>3 DEF KeptOK
<1> QED BY <1>1, Invariance, PTL
=============================================================================
