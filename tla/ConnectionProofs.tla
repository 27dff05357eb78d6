-------------------------- MODULE ConnectionProofs --------------------------
(***************************************************************************)
(* Proofs about Connection, for any set of calls and any bounds.           *)
(***************************************************************************)
EXTENDS Connection, TLAPS

-----------------------------------------------------------------------------
(* What the helpers of the actions leave well typed.                       *)

\* The variables that Goto, Return, Join and Leave assign.
HelpersTyped ==
    /\ pc \in [Calls -> Places] /\ result \in [Calls -> Results]
    /\ queued \in SUBSET Calls /\ ahead \in [Calls -> SUBSET Calls]

\* How a step of call c moves it: it returns, goes on with its gate as it
\* was, goes on to queue for its gate, or stays where it is.
Moves(c) ==
    \/ \E r \in Results : Return(c, r)
    \/ \E p \in Places : Goto(c, p) /\ UNCHANGED <<result, gateVars>>
    \/ \E p \in Places : Goto(c, p) /\ Join(c) /\ UNCHANGED result
    \/ UNCHANGED <<pc, result, gateVars>>

\* Each leaves the call and the gates well typed.
LEMMA MovesTyped ==
    ASSUME TypeOK, NEW c \in Calls, Moves(c)
    PROVE  HelpersTyped'
<1>1. ASSUME NEW r \in Results, Return(c, r) PROVE HelpersTyped'
      BY <1>1 DEF TypeOK, HelpersTyped, Return, Goto, Leave, Places
<1>2. ASSUME NEW p \in Places, Goto(c, p), UNCHANGED <<result, gateVars>> PROVE HelpersTyped'
      BY <1>2 DEF TypeOK, HelpersTyped, Goto, gateVars
<1>3. ASSUME NEW p \in Places, Goto(c, p), Join(c), UNCHANGED result PROVE HelpersTyped'
      BY <1>3 DEF TypeOK, HelpersTyped, Goto, Join
<1>4. CASE UNCHANGED <<pc, result, gateVars>>
      BY <1>4 DEF TypeOK, HelpersTyped, gateVars
<1> QED BY <1>1, <1>2, <1>3, <1>4 DEF Moves

\* The outcome of the state checks is a result.
LEMMA RefusalTyped == \A o : Refusal(o) \in Results
BY DEF Refusal, Results, Errors

\* A step of a call already begun, by its task, its timer or its owner.
CallAction(c) == Run(c) \/ TimesOut(c) \/ DropFuture(c)

\* Such a step moves its own call only.
LEMMA CallMoves ==
    ASSUME TypeOK, NEW c \in Calls, CallAction(c)
    PROVE  Moves(c) /\ UNCHANGED <<op, size>>
<1> USE DEF Moves, Places, Results, Errors
<1>1. CASE Ensure(c) BY <1>1, RefusalTyped DEF Ensure, NotAdmitted
<1>2. CASE Acquire(c) BY <1>2 DEF Acquire
<1>3. CASE Recheck(c) BY <1>3, RefusalTyped DEF Recheck, NotAdmitted
<1>4. CASE CloneStream(c) BY <1>4 DEF CloneStream
<1>5. CASE Interrupted(c) BY <1>5 DEF Interrupted
<1>6. CASE WriteSome(c) BY <1>6 DEF WriteSome
<1>7. CASE FlushDone(c) BY <1>7 DEF FlushDone
<1>8. CASE ReadSome(c) BY <1>8 DEF ReadSome
<1>9. CASE ReadEof(c) BY <1>9 DEF ReadEof
<1>10. CASE IoFails(c) BY <1>10 DEF IoFails
<1>11. CASE TimesOut(c) BY <1>11 DEF TimesOut
<1>12. CASE ShutdownWriteEnter(c) BY <1>12 DEF ShutdownWriteEnter
<1>13. CASE ShutdownWriteMark(c) BY <1>13 DEF ShutdownWriteMark
<1>14. CASE ShutdownDone(c) BY <1>14 DEF ShutdownDone
<1>15. CASE ShutdownFails(c) BY <1>15 DEF ShutdownFails
<1>16. CASE ShutdownRead(c) BY <1>16 DEF ShutdownRead
<1>17. CASE ShutdownReadWake(c) BY <1>17 DEF ShutdownReadWake
<1>18. CASE PauseCheck(c) BY <1>18 DEF PauseCheck
<1>19. CASE PauseStore(c) BY <1>19 DEF PauseStore
<1>20. CASE Swap(c) BY <1>20 DEF Swap
<1>21. CASE Flags(c) BY <1>21 DEF Flags
<1>22. CASE CancelTokens(c) BY <1>22 DEF CancelTokens
<1>23. CASE TakeStream(c) BY <1>23 DEF TakeStream
<1>24. CASE DropFuture(c) BY <1>24 DEF DropFuture
<1> QED BY <1>1, <1>2, <1>3, <1>4, <1>5, <1>6, <1>7, <1>8, <1>9, <1>10, <1>11, <1>12, <1>13,
           <1>14, <1>15, <1>16, <1>17, <1>18, <1>19, <1>20, <1>21, <1>22, <1>23, <1>24
           DEF CallAction, Run

-----------------------------------------------------------------------------
(* Type correctness.                                                       *)

\* TypeOK is preserved by every step.
LEMMA TypeStep ==
    ASSUME TypeOK, [Next]_vars
    PROVE  TypeOK'
<1> USE ConstantsAssumption DEF TypeOK, HelpersTyped, Places, Results, Errors, AllOps, GateOps,
        IoOps, ReadOps, SendOps, flagVars, coreVars, gateVars, callVars, outVars, inVars
<1>1. ASSUME NEW c \in Calls, BeginEmpty(c) PROVE TypeOK' BY <1>1 DEF BeginEmpty, Goto
<1>2. ASSUME NEW c \in Calls, Begin(c) PROVE TypeOK'
  <2>1. op' \in [Calls -> AllOps \cup {"none"}]
    <3>1. PICK o \in Ops[c] : op' = [op EXCEPT ![c] = o] BY <1>2 DEF Begin
    <3>2. o \in AllOps BY ConstantsAssumption DEF AllOps
    <3> QED BY <3>1, <3>2
  <2>2. size' \in [Calls -> 0 .. MaxLen] BY <1>2 DEF Begin
  <2> QED BY <1>2, <2>1, <2>2 DEF Begin, Goto
<1>3. ASSUME NEW c \in Calls, CallAction(c) PROVE TypeOK'
  <2>1. HelpersTyped' /\ UNCHANGED <<op, size>> BY <1>3, CallMoves, MovesTyped
  <2>2. CASE Ensure(c) BY <2>1, <2>2 DEF Ensure
  <2>3. CASE Acquire(c) BY <2>1, <2>3 DEF Acquire
  <2>4. CASE Recheck(c) BY <2>1, <2>4 DEF Recheck
  <2>5. CASE CloneStream(c) BY <2>1, <2>5 DEF CloneStream
  <2>6. CASE Interrupted(c) BY <2>1, <2>6 DEF Interrupted
  <2>7. CASE WriteSome(c)
    <3>1. PICK n \in 1 .. (size[c] - written[c]) :
            /\ unread + n <= SndBuf /\ unread' = unread + n
            /\ written' = [written EXCEPT ![c] = written[c] + n]
            /\ wire' = Append(wire, [call |-> c, from |-> written[c], to |-> written[c] + n])
          BY <2>7 DEF WriteSome
    <3>2. written[c] \in 0 .. MaxLen /\ written[c] + n \in 0 .. MaxLen BY <3>1
    <3>3. [call |-> c, from |-> written[c], to |-> written[c] + n] \in Chunk BY <3>2 DEF Chunk
    <3>4. wire' \in Seq(Chunk) BY <3>1, <3>3
    <3>5. written' \in [Calls -> 0 .. MaxLen] /\ unread' \in 0 .. SndBuf BY <3>1
    <3>6. UNCHANGED <<flagVars, coreVars, fin, inVars>> BY <2>7 DEF WriteSome
    <3> QED BY <2>1, <3>4, <3>5, <3>6
  <2>8. CASE FlushDone(c) BY <2>1, <2>8 DEF FlushDone
  <2>9. CASE ReadSome(c) BY <2>1, <2>9 DEF ReadSome
  <2>10. CASE ReadEof(c) BY <2>1, <2>10 DEF ReadEof
  <2>11. CASE IoFails(c) BY <2>1, <2>11 DEF IoFails
  <2>12. CASE TimesOut(c) BY <2>1, <2>12 DEF TimesOut
  <2>13. CASE ShutdownWriteEnter(c) BY <2>1, <2>13 DEF ShutdownWriteEnter
  <2>14. CASE ShutdownWriteMark(c)
    <3>1. write_shutdown' \in BOOLEAN BY <2>14 DEF ShutdownWriteMark
    <3> QED BY <2>1, <2>14, <3>1 DEF ShutdownWriteMark
  <2>15. CASE ShutdownDone(c) BY <2>1, <2>15 DEF ShutdownDone
  <2>16. CASE ShutdownFails(c) BY <2>1, <2>16 DEF ShutdownFails
  <2>17. CASE ShutdownRead(c)
    <3>1. read_shutdown' \in BOOLEAN BY <2>17 DEF ShutdownRead
    <3> QED BY <2>1, <2>17, <3>1 DEF ShutdownRead
  <2>18. CASE ShutdownReadWake(c) BY <2>1, <2>18 DEF ShutdownReadWake
  <2>19. CASE PauseCheck(c) BY <2>1, <2>19 DEF PauseCheck
  <2>20. CASE PauseStore(c) BY <2>1, <2>20 DEF PauseStore
  <2>21. CASE Swap(c) BY <2>1, <2>21 DEF Swap
  <2>22. CASE Flags(c) BY <2>1, <2>22 DEF Flags
  <2>23. CASE CancelTokens(c) BY <2>1, <2>23 DEF CancelTokens
  <2>24. CASE TakeStream(c)
    <3>1. stream' = FALSE /\ UNCHANGED <<flagVars, close_token, read_shutdown_token,
                                              written, outVars, inVars>>
          BY <2>24 DEF TakeStream
    <3> QED BY <2>1, <3>1
  <2>25. CASE DropFuture(c) BY <2>1, <2>25 DEF DropFuture
  <2> QED BY <1>3, <2>2, <2>3, <2>4, <2>5, <2>6, <2>7, <2>8, <2>9, <2>10, <2>11, <2>12, <2>13,
             <2>14, <2>15, <2>16, <2>17, <2>18, <2>19, <2>20, <2>21, <2>22, <2>23, <2>24, <2>25
             DEF CallAction, Run
<1>4. CASE PeerSend BY <1>4 DEF PeerSend
<1>5. CASE PeerShutdown BY <1>5 DEF PeerShutdown
<1>6. CASE PeerRead BY <1>6 DEF PeerRead
<1>7. CASE PeerClose BY <1>7 DEF PeerClose
<1>8. CASE UNCHANGED vars BY <1>8 DEF vars
<1> QED BY <1>1, <1>2, <1>3, <1>4, <1>5, <1>6, <1>7, <1>8 DEF Next, Peer, CallAction

-----------------------------------------------------------------------------
(* The inductive invariant.  LocalOK(c) is what holds of one call, beside  *)
(* flags that are never reset; the other parts relate calls to each other, *)
(* to the wire and to the released stream.                                 *)

ClosePlaces == {"swap", "flags", "again", "cancel", "take"}

\* The places at which a call holds or awaits its gate.
InLine(c) ==
    \/ pc[c] \in {"gate", "recheck", "stream", "io", "shut"}
    \/ pc[c] \in ClosePlaces /\ op[c] # "close"

\* Which operation can be where, and when it is in its gate's queue.
PlaceOK(c) ==
    /\ c \in queued <=> InLine(c)
    /\ pc[c] = "new" => op[c] = "none"
    /\ pc[c] = "gate" => op[c] \in GateOps
    /\ pc[c] \in {"recheck", "stream"} => op[c] \in IoOps \cup {"shutdown_write"}
    /\ pc[c] = "io" => op[c] \in IoOps
    /\ pc[c] = "shut" => op[c] \in {"shutdown_write", "close"}
    /\ pc[c] # "done" => result[c] = "none"

\* Past the gate, nobody is ahead.
AheadOK(c) == pc[c] # "gate" => ahead[c] = {}

\* What a call inside close, fail_connection or shutdown_write has done.
ClosingOK(c) ==
    /\ pc[c] \in {"flags", "again", "cancel", "take"} => closed
    /\ op[c] = "close" /\ pc[c] \in {"gate", "shut"} => closed
    /\ pc[c] \in {"cancel", "take"} => read_shutdown /\ write_shutdown
    /\ pc[c] = "take" => close_token /\ read_shutdown_token
    /\ op[c] = "shutdown_write" /\ pc[c] \in {"stream", "shut"} => write_shutdown

\* When a call may have written, and what its error says then.
WrittenOK(c) ==
    /\ op[c] \notin SendOps => written[c] = 0
    /\ pc[c] \in {"new", "entry", "gate", "recheck", "stream"} => written[c] = 0
    /\ result[c] \in Errors /\ written[c] > 0 => closed /\ result[c] \in {"closed", "failed"}

LocalOK(c) == PlaceOK(c) /\ AheadOK(c) /\ ClosingOK(c) /\ WrittenOK(c)

\* Of two calls in the same queue one is ahead of the other.
QueueTotal ==
    \A c, d \in queued : c # d /\ SameGate(c, d) => c \in ahead[d] \/ d \in ahead[c]

\* What the tokens, the stream and the end-of-stream mark say of the flags.
FlagsAgree ==
    /\ close_token \/ ~stream => closed
    /\ fin => closed \/ write_shutdown

\* The end-of-stream mark is not sent while a send is past its checks.
WriterBeforeFin ==
    \A c \in Calls : pc[c] \in {"stream", "io"} /\ op[c] \in SendOps => ~fin

\* written[c] is where the bytes of c on the wire stop, and while c is
\* writing they are the last ones.
WireOK ==
    \A c \in Calls :
        /\ written[c] = 0 => ~OnWire(c)
        /\ pc[c] = "io" /\ written[c] > 0 =>
              /\ wire # <<>>
              /\ wire[Len(wire)].call = c /\ wire[Len(wire)].to = written[c]

\* Once no winner of the closed.swap is under way, everything is released.
Released ==
    closed /\ (\A c \in Calls : pc[c] \notin {"flags", "cancel", "take"}) =>
        /\ ~stream /\ close_token /\ read_shutdown_token
        /\ read_shutdown /\ write_shutdown

IInv ==
    /\ TypeOK
    /\ \A c \in Calls : LocalOK(c)
    /\ QueueTotal /\ FlagsAgree /\ WriterBeforeFin /\ WireOK /\ Released

-----------------------------------------------------------------------------
(* What a step leaves alone.                                               *)

Monotone ==
    /\ closed => closed'
    /\ read_shutdown => read_shutdown'
    /\ write_shutdown => write_shutdown'
    /\ close_token => close_token'
    /\ read_shutdown_token => read_shutdown_token'
    /\ fin => fin'
    /\ stream' => stream

\* No flag, token or end-of-stream mark is ever reset, and the core never
\* gets a stream back.
LEMMA NeverReset ==
    ASSUME TypeOK, [Next]_vars
    PROVE  Monotone
<1> USE DEF Monotone, flagVars, coreVars, outVars
<1>1. ASSUME NEW c \in Calls, BeginEmpty(c) PROVE Monotone BY <1>1 DEF BeginEmpty
<1>2. ASSUME NEW c \in Calls, Begin(c) PROVE Monotone BY <1>2 DEF Begin
<1>3. ASSUME NEW c \in Calls, Ensure(c) PROVE Monotone BY <1>3 DEF Ensure
<1>4. ASSUME NEW c \in Calls, Acquire(c) PROVE Monotone BY <1>4 DEF Acquire
<1>5. ASSUME NEW c \in Calls, Recheck(c) PROVE Monotone BY <1>5 DEF Recheck
<1>6. ASSUME NEW c \in Calls, CloneStream(c) PROVE Monotone BY <1>6 DEF CloneStream
<1>7. ASSUME NEW c \in Calls, Interrupted(c) PROVE Monotone BY <1>7 DEF Interrupted
<1>8. ASSUME NEW c \in Calls, WriteSome(c) PROVE Monotone BY <1>8 DEF WriteSome
<1>9. ASSUME NEW c \in Calls, FlushDone(c) PROVE Monotone BY <1>9 DEF FlushDone
<1>10. ASSUME NEW c \in Calls, ReadSome(c) PROVE Monotone BY <1>10 DEF ReadSome
<1>11. ASSUME NEW c \in Calls, ReadEof(c) PROVE Monotone BY <1>11 DEF ReadEof
<1>12. ASSUME NEW c \in Calls, IoFails(c) PROVE Monotone BY <1>12 DEF IoFails
<1>13. ASSUME NEW c \in Calls, TimesOut(c) PROVE Monotone BY <1>13 DEF TimesOut
<1>14. ASSUME NEW c \in Calls, ShutdownWriteEnter(c) PROVE Monotone BY <1>14 DEF ShutdownWriteEnter
<1>15. ASSUME NEW c \in Calls, ShutdownWriteMark(c) PROVE Monotone BY <1>15 DEF ShutdownWriteMark
<1>16. ASSUME NEW c \in Calls, ShutdownDone(c) PROVE Monotone BY <1>16 DEF ShutdownDone
<1>17. ASSUME NEW c \in Calls, ShutdownFails(c) PROVE Monotone BY <1>17 DEF ShutdownFails
<1>18. ASSUME NEW c \in Calls, ShutdownRead(c) PROVE Monotone BY <1>18 DEF ShutdownRead
<1>19. ASSUME NEW c \in Calls, ShutdownReadWake(c) PROVE Monotone BY <1>19 DEF ShutdownReadWake
<1>20. ASSUME NEW c \in Calls, PauseCheck(c) PROVE Monotone BY <1>20 DEF PauseCheck
<1>21. ASSUME NEW c \in Calls, PauseStore(c) PROVE Monotone BY <1>21 DEF PauseStore
<1>22. ASSUME NEW c \in Calls, Swap(c) PROVE Monotone BY <1>22 DEF Swap
<1>23. ASSUME NEW c \in Calls, Flags(c) PROVE Monotone BY <1>23 DEF Flags
<1>24. ASSUME NEW c \in Calls, CancelTokens(c) PROVE Monotone BY <1>24 DEF CancelTokens
<1>25. ASSUME NEW c \in Calls, TakeStream(c) PROVE Monotone BY <1>25 DEF TakeStream
<1>26. ASSUME NEW c \in Calls, DropFuture(c) PROVE Monotone BY <1>26 DEF DropFuture
<1>27. CASE Peer BY <1>27 DEF Peer, PeerSend, PeerShutdown, PeerRead, PeerClose
<1>28. CASE UNCHANGED vars BY <1>28 DEF vars
<1> QED BY <1>1, <1>2, <1>3, <1>4, <1>5, <1>6, <1>7, <1>8, <1>9, <1>10, <1>11, <1>12, <1>13,
           <1>14, <1>15, <1>16, <1>17, <1>18, <1>19, <1>20, <1>21, <1>22, <1>23, <1>24, <1>25,
           <1>26, <1>27, <1>28 DEF Next, Run

\* Everything LocalOK(d) reads of call d itself is as it was, except that
\* calls ahead of it may have left.
Untouched(d) ==
    /\ pc'[d] = pc[d] /\ op'[d] = op[d] /\ result'[d] = result[d]
    /\ written'[d] = written[d]
    /\ d \in queued' <=> d \in queued
    /\ ahead'[d] \subseteq ahead[d]

\* LocalOK of a call survives the steps of the others.
LEMMA UntouchedKeeps ==
    ASSUME TypeOK, TypeOK', Monotone, NEW d \in Calls, Untouched(d), LocalOK(d)
    PROVE  LocalOK(d)'
<1> USE DEF Untouched
<1>1. PlaceOK(d)' BY DEF LocalOK, PlaceOK, InLine
<1>2. AheadOK(d)' BY DEF LocalOK, AheadOK
<1>3. ClosingOK(d)' BY DEF LocalOK, ClosingOK, Monotone
<1>4. WrittenOK(d)' BY DEF LocalOK, WrittenOK, Monotone
<1> QED BY <1>1, <1>2, <1>3, <1>4 DEF LocalOK

\* A step of call c does not touch the other calls.
LEMMA OthersUntouched ==
    ASSUME TypeOK, NEW c \in Calls, CallAction(c), NEW d \in Calls, d # c
    PROVE  Untouched(d)
<1>1. Moves(c) /\ UNCHANGED <<op, size>> BY CallMoves
<1> DEFINE Kept == /\ pc'[d] = pc[d] /\ result'[d] = result[d]
                   /\ d \in queued' <=> d \in queued
                   /\ ahead'[d] \subseteq ahead[d]
<1>2. Kept
  <2>1. ASSUME NEW r \in Results, Return(c, r) PROVE Kept
        BY <2>1 DEF TypeOK, Return, Goto, Leave
  <2>2. ASSUME NEW p \in Places, Goto(c, p), UNCHANGED <<result, gateVars>> PROVE Kept
        BY <2>2 DEF TypeOK, Goto, gateVars
  <2>3. ASSUME NEW p \in Places, Goto(c, p), Join(c), UNCHANGED result PROVE Kept
        BY <2>3 DEF TypeOK, Goto, Join
  <2>4. CASE UNCHANGED <<pc, result, gateVars>> BY <2>4 DEF gateVars
  <2> QED BY <1>1, <2>1, <2>2, <2>3, <2>4 DEF Moves
<1>3. written'[d] = written[d]
  <2>1. CASE WriteSome(c) BY <2>1 DEF WriteSome, TypeOK
  <2>2. CASE ~WriteSome(c)
        BY <2>2 DEF CallAction, Run, Ensure, Acquire, Recheck, CloneStream, Interrupted,
               FlushDone, ReadSome, ReadEof, IoFails, TimesOut,
               ShutdownWriteEnter, ShutdownWriteMark, ShutdownDone, ShutdownFails, ShutdownRead,
               ShutdownReadWake, PauseCheck, PauseStore, Swap, Flags,
               CancelTokens, TakeStream, DropFuture
  <2> QED BY <2>1, <2>2
<1> QED BY <1>1, <1>2, <1>3 DEF Untouched

-----------------------------------------------------------------------------
(* LocalOK of the call that moves.                                         *)

\* A call that returns satisfies LocalOK if its error is honest about what
\* it wrote.
LEMMA ReturnLocal ==
    ASSUME TypeOK, NEW c \in Calls, NEW r \in Results, Return(c, r),
           op' = op, op[c] \notin SendOps => written'[c] = 0,
           r \in Errors /\ written'[c] > 0 => closed' /\ r \in {"closed", "failed"}
    PROVE  LocalOK(c)'
<1>1. pc'[c] = "done" /\ result'[c] = r /\ c \notin queued' /\ ahead'[c] = {}
      BY DEF TypeOK, Return, Goto, Leave
<1>2. PlaceOK(c)' /\ AheadOK(c)' /\ ClosingOK(c)'
      BY <1>1 DEF PlaceOK, InLine, ClosePlaces, AheadOK, ClosingOK
<1>3. WrittenOK(c)' BY <1>1 DEF WrittenOK
<1> QED BY <1>2, <1>3 DEF LocalOK

\* Where a call is after Goto, with its gate as it was or after Join.
LEMMA GotoPlace ==
    ASSUME TypeOK, NEW c \in Calls, NEW p \in Places, Goto(c, p)
    PROVE  /\ pc'[c] = p
           /\ UNCHANGED result => result'[c] = result[c]
           /\ UNCHANGED gateVars => ahead'[c] = ahead[c] /\ queued' = queued
           /\ Join(c) => c \in queued'
BY DEF TypeOK, Goto, Join, gateVars

\* Every step of a call re-establishes LocalOK of that call.
LEMMA LocalStep ==
    ASSUME IInv, NEW c \in Calls, CallAction(c)
    PROVE  LocalOK(c)'
<1> USE DEF IInv, Results, Errors, Places
<1>0. LocalOK(c) /\ TypeOK /\ op' = op BY CallMoves
<1>1. CASE Ensure(c)
  <2>1. pc[c] = "entry" /\ op[c] \in IoOps /\ UNCHANGED <<flagVars, written>> BY <1>1 DEF Ensure
  <2>2. CASE NotAdmitted(c)
    <3>1. PICK r \in Results : Return(c, r) BY <2>2, RefusalTyped DEF NotAdmitted
    <3> QED BY <1>0, <2>1, <3>1, ReturnLocal DEF LocalOK, WrittenOK
  <2>3. CASE Goto(c, "gate") /\ Join(c) /\ UNCHANGED result
    <3>1. pc'[c] = "gate" /\ c \in queued' /\ result'[c] = result[c] BY <1>0, <2>3, GotoPlace
    <3> QED BY <1>0, <2>1, <3>1 DEF LocalOK, PlaceOK, InLine, AheadOK, ClosingOK, WrittenOK,
                                    GateOps, IoOps, ReadOps, SendOps
  <2> QED BY <1>1, <2>2, <2>3 DEF Ensure
<1>2. CASE Acquire(c)
  <2>1. pc[c] = "gate" /\ ahead[c] = {} /\ UNCHANGED <<flagVars, gateVars, written, result>>
        BY <1>2 DEF Acquire
  <2>2. pc'[c] = IF op[c] = "close" THEN "shut" ELSE "recheck"
        BY <1>0, <1>2, GotoPlace DEF Acquire
  <2> QED BY <1>0, <2>1, <2>2 DEF LocalOK, PlaceOK, InLine, ClosePlaces, AheadOK, ClosingOK,
                                  WrittenOK, GateOps, gateVars, flagVars
<1>3. CASE Recheck(c)
  <2>1. pc[c] = "recheck" /\ op[c] \in IoOps /\ UNCHANGED <<flagVars, written>> BY <1>3 DEF Recheck
  <2>2. CASE NotAdmitted(c)
    <3>1. PICK r \in Results : Return(c, r) BY <2>2, RefusalTyped DEF NotAdmitted
    <3> QED BY <1>0, <2>1, <3>1, ReturnLocal DEF LocalOK, WrittenOK
  <2>3. CASE Goto(c, "stream") /\ UNCHANGED <<result, gateVars>>
    <3>1. pc'[c] = "stream" BY <1>0, <2>3, GotoPlace
    <3> QED BY <1>0, <2>1, <2>3, <3>1 DEF LocalOK, PlaceOK, InLine, ClosePlaces, AheadOK,
                ClosingOK, WrittenOK, IoOps, ReadOps, SendOps, gateVars, flagVars
  <2> QED BY <1>3, <2>2, <2>3 DEF Recheck
<1>4. CASE CloneStream(c)
  <2>1. pc[c] = "stream" /\ UNCHANGED <<flagVars, written>> BY <1>4 DEF CloneStream
  <2>2. CASE Return(c, "closed") BY <1>0, <2>1, <2>2, ReturnLocal DEF LocalOK, WrittenOK
  <2>3. CASE Goto(c, IF op[c] = "shutdown_write" THEN "shut" ELSE "io")
             /\ UNCHANGED <<result, gateVars>>
    <3>1. pc'[c] = IF op[c] = "shutdown_write" THEN "shut" ELSE "io" BY <1>0, <2>3, GotoPlace
    <3> QED BY <1>0, <2>1, <2>3, <3>1 DEF LocalOK, PlaceOK, InLine, ClosePlaces, AheadOK,
                ClosingOK, WrittenOK, IoOps, ReadOps, SendOps, gateVars, flagVars
  <2> QED BY <1>4, <2>2, <2>3 DEF CloneStream
<1>5. CASE Interrupted(c)
  <2>1. UNCHANGED <<flagVars, written>> BY <1>5 DEF Interrupted
  <2>2. CASE close_token /\ Return(c, "closed")
        BY <1>0, <2>1, <2>2, ReturnLocal DEF FlagsAgree, LocalOK, WrittenOK, flagVars
  <2>3. CASE op[c] \in ReadOps /\ Return(c, "shut")
    <3>1. written[c] = 0 BY <1>0, <2>3 DEF LocalOK, WrittenOK, ReadOps, SendOps
    <3> QED BY <1>0, <2>1, <2>3, <3>1, ReturnLocal
  <2> QED BY <1>5, <2>2, <2>3 DEF Interrupted
<1>6. CASE WriteSome(c)
  <2>1. /\ pc[c] = "io" /\ op[c] \in SendOps /\ UNCHANGED flagVars
        /\ \/ Return(c, "ok")
           \/ UNCHANGED <<pc, result, gateVars>>
        BY <1>6 DEF WriteSome
  <2>2. CASE Return(c, "ok") BY <1>0, <2>1, <2>2, ReturnLocal
  <2>3. CASE UNCHANGED <<pc, result, gateVars>>
        BY <1>0, <2>1, <2>3 DEF LocalOK, PlaceOK, InLine, ClosePlaces, AheadOK, ClosingOK,
              WrittenOK, IoOps, gateVars, flagVars
  <2> QED BY <2>1, <2>2, <2>3
<1>7. CASE FlushDone(c) \/ ReadSome(c) \/ ReadEof(c)
  <2>1. PICK r \in {"ok", "data", "eof"} : Return(c, r) /\ UNCHANGED written
        BY <1>7 DEF FlushDone, ReadSome, ReadEof
  <2> QED BY <1>0, <2>1, ReturnLocal DEF LocalOK, WrittenOK
<1>8. CASE IoFails(c)
  <2>1. pc[c] = "io" /\ UNCHANGED <<flagVars, gateVars, written, result>> BY <1>8 DEF IoFails
  <2>2. pc'[c] = "swap" BY <1>0, <1>8, GotoPlace DEF IoFails
  <2> QED BY <1>0, <2>1, <2>2 DEF LocalOK, PlaceOK, InLine, ClosePlaces, AheadOK, ClosingOK,
                WrittenOK, IoOps, ReadOps, SendOps, gateVars
<1>9. CASE TimesOut(c)
  <2>1. UNCHANGED <<flagVars, written>> BY <1>9 DEF TimesOut
  <2>2. CASE /\ op[c] = "send_timeout" /\ pc[c] = "io"
             /\ Goto(c, "swap") /\ UNCHANGED <<result, gateVars>>
    <3>1. pc'[c] = "swap" BY <1>0, <2>2, GotoPlace
    <3> QED BY <1>0, <2>1, <2>2, <3>1 DEF LocalOK, PlaceOK, InLine, ClosePlaces, AheadOK,
                ClosingOK, WrittenOK, SendOps, gateVars
  <2>3. CASE op[c] = "send_timeout" /\ pc[c] = "gate" /\ Return(c, "timeout")
        BY <1>0, <2>1, <2>3, ReturnLocal DEF LocalOK, WrittenOK
  <2>4. CASE op[c] = "read_timeout" /\ Return(c, "timeout")
    <3>1. written[c] = 0 BY <1>0, <2>4 DEF LocalOK, WrittenOK, SendOps
    <3> QED BY <1>0, <2>1, <2>4, <3>1, ReturnLocal
  <2> QED BY <1>9, <2>2, <2>3, <2>4 DEF TimesOut
<1>10. CASE ShutdownWriteEnter(c)
  <2>1. op[c] = "shutdown_write" /\ pc[c] = "entry" /\ UNCHANGED written
        BY <1>10 DEF ShutdownWriteEnter
  <2>2. CASE Return(c, "ok") BY <1>0, <2>1, <2>2, ReturnLocal DEF LocalOK, WrittenOK
  <2>3. CASE Goto(c, "gate") /\ Join(c) /\ UNCHANGED result
    <3>1. pc'[c] = "gate" /\ c \in queued' /\ result'[c] = result[c] BY <1>0, <2>3, GotoPlace
    <3> QED BY <1>0, <2>1, <3>1 DEF LocalOK, PlaceOK, InLine, AheadOK, ClosingOK, WrittenOK,
                                    GateOps
  <2> QED BY <1>10, <2>2, <2>3 DEF ShutdownWriteEnter
<1>11. CASE ShutdownWriteMark(c)
  <2>1. op[c] = "shutdown_write" /\ pc[c] = "recheck" /\ UNCHANGED written
        BY <1>11 DEF ShutdownWriteMark
  <2>2. CASE Return(c, "ok") BY <1>0, <2>1, <2>2, ReturnLocal DEF LocalOK, WrittenOK
  <2>3. CASE write_shutdown' = TRUE /\ Goto(c, "stream") /\ UNCHANGED <<result, gateVars>>
    <3>1. pc'[c] = "stream" BY <1>0, <2>3, GotoPlace
    <3> QED BY <1>0, <2>1, <2>3, <3>1 DEF LocalOK, PlaceOK, InLine, ClosePlaces, AheadOK,
                ClosingOK, WrittenOK, gateVars
  <2> QED BY <1>11, <2>2, <2>3 DEF ShutdownWriteMark
<1>12. CASE ShutdownDone(c) \/ ShutdownReadWake(c) \/ PauseStore(c) \/ DropFuture(c)
  <2>1. PICK r \in {"ok", "dropped"} : Return(c, r) /\ UNCHANGED written
        BY <1>12 DEF ShutdownDone, ShutdownReadWake, PauseStore, DropFuture
  <2> QED BY <1>0, <2>1, ReturnLocal DEF LocalOK, WrittenOK
<1>13. CASE ShutdownFails(c)
  <2>1. pc[c] = "shut" /\ UNCHANGED <<flagVars, written>> BY <1>13 DEF ShutdownFails
  <2>2. CASE op[c] = "close" /\ Return(c, "failed")
    <3>1. written[c] = 0 BY <1>0, <2>2 DEF LocalOK, WrittenOK, SendOps
    <3> QED BY <1>0, <2>1, <2>2, <3>1, ReturnLocal
  <2>3. CASE op[c] # "close" /\ Goto(c, "swap") /\ UNCHANGED <<result, gateVars>>
    <3>1. pc'[c] = "swap" BY <1>0, <2>3, GotoPlace
    <3> QED BY <1>0, <2>1, <2>3, <3>1 DEF LocalOK, PlaceOK, InLine, ClosePlaces, AheadOK,
                ClosingOK, WrittenOK, gateVars
  <2> QED BY <1>13, <2>2, <2>3 DEF ShutdownFails
<1>14. CASE ShutdownRead(c) \/ PauseCheck(c)
  <2>1. pc[c] = "entry" /\ UNCHANGED written BY <1>14 DEF ShutdownRead, PauseCheck
  <2>2. CASE Return(c, "ok") BY <1>0, <2>1, <2>2, ReturnLocal DEF LocalOK, WrittenOK
  <2>3. CASE Goto(c, "mark") /\ UNCHANGED <<result, gateVars>>
    <3>1. pc'[c] = "mark" BY <1>0, <2>3, GotoPlace
    <3> QED BY <1>0, <2>1, <2>3, <3>1 DEF LocalOK, PlaceOK, InLine, ClosePlaces, AheadOK,
                ClosingOK, WrittenOK, gateVars
  <2> QED BY <1>14, <2>2, <2>3 DEF ShutdownRead, PauseCheck
<1>15. CASE Swap(c)
  <2>1. pc[c] = "swap" /\ closed' = TRUE /\ UNCHANGED <<gateVars, written, result>>
        BY <1>15 DEF Swap
  <2>2. pc'[c] \in {"again", "flags"} BY <1>0, <1>15, GotoPlace DEF Swap
  <2> QED BY <1>0, <2>1, <2>2 DEF LocalOK, PlaceOK, InLine, ClosePlaces, AheadOK, ClosingOK,
                WrittenOK, gateVars
<1>16. CASE Flags(c)
  <2>1. /\ UNCHANGED <<closed, written>>
        /\ read_shutdown' = TRUE /\ write_shutdown' = TRUE
        BY <1>16 DEF Flags
  <2>2. CASE pc[c] = "flags" /\ Goto(c, "cancel") /\ UNCHANGED <<result, gateVars>>
    <3>1. pc'[c] = "cancel" BY <1>0, <2>2, GotoPlace
    <3> QED BY <1>0, <2>1, <2>2, <3>1 DEF LocalOK, PlaceOK, InLine, ClosePlaces, AheadOK,
                ClosingOK, WrittenOK, gateVars
  <2>3. CASE pc[c] = "again" /\ Return(c, IF op[c] = "close" THEN "ok" ELSE "failed")
        BY <1>0, <2>1, <2>3, ReturnLocal DEF LocalOK, ClosingOK, WrittenOK
  <2> QED BY <1>16, <2>2, <2>3 DEF Flags
<1>17. CASE CancelTokens(c)
  <2>1. /\ pc[c] = "cancel" /\ close_token' = TRUE /\ read_shutdown_token' = TRUE
        /\ UNCHANGED <<flagVars, gateVars, written, result>>
        BY <1>17 DEF CancelTokens
  <2>2. pc'[c] = "take" BY <1>0, <1>17, GotoPlace DEF CancelTokens
  <2> QED BY <1>0, <2>1, <2>2 DEF LocalOK, PlaceOK, InLine, ClosePlaces, AheadOK, ClosingOK,
                WrittenOK, gateVars, flagVars
<1>18. CASE TakeStream(c)
  <2>1. pc[c] = "take" /\ UNCHANGED <<flagVars, written>> BY <1>18 DEF TakeStream
  <2>2. CASE op[c] = "close" /\ Goto(c, "gate") /\ Join(c) /\ UNCHANGED result
    <3>1. pc'[c] = "gate" /\ c \in queued' /\ result'[c] = result[c] BY <1>0, <2>2, GotoPlace
    <3> QED BY <1>0, <2>1, <2>2, <3>1 DEF LocalOK, PlaceOK, InLine, AheadOK, ClosingOK,
                WrittenOK, GateOps, SendOps, flagVars
  <2>3. CASE Return(c, "failed")
        BY <1>0, <2>1, <2>3, ReturnLocal DEF LocalOK, ClosingOK, WrittenOK, flagVars
  <2> QED BY <1>18, <2>2, <2>3 DEF TakeStream
<1> QED BY <1>1, <1>2, <1>3, <1>4, <1>5, <1>6, <1>7, <1>8, <1>9, <1>10, <1>11, <1>12, <1>13,
           <1>14, <1>15, <1>16, <1>17, <1>18 DEF CallAction, Run

-----------------------------------------------------------------------------
(* Who reaches which place, and who changes what.                          *)

Winning == {"flags", "cancel", "take"}

\* The only ways into the OS operation and out of closing, and the only
\* writers of closed, fin and wire.
Causes(c) ==
    /\ pc'[c] = "io" => pc[c] \in {"io", "stream"}
    /\ pc'[c] = "stream" /\ op[c] \in SendOps => Admitted(c)
    /\ pc[c] \in Winning => pc'[c] \in Winning \/ TakeStream(c)
    /\ closed' # closed => pc'[c] = "flags"
    /\ fin' # fin => ShutdownDone(c)
    /\ UNCHANGED <<wire, written>> \/ WriteSome(c)

\* Every step of a call has a cause of that kind.
LEMMA StepCauses ==
    ASSUME TypeOK, NEW c \in Calls, CallAction(c)
    PROVE  Causes(c)
<1>0. ASSUME NEW r, Return(c, r) PROVE pc'[c] = "done" BY <1>0 DEF TypeOK, Return, Goto
<1>00. ASSUME NEW p, Goto(c, p) PROVE pc'[c] = p BY <1>00 DEF TypeOK, Goto
<1> USE <1>0, <1>00 DEF Causes, Winning, flagVars, outVars
<1>1. CASE Ensure(c) BY <1>1 DEF Ensure, NotAdmitted
<1>2. CASE Acquire(c) BY <1>2 DEF Acquire
<1>3. CASE Recheck(c) BY <1>3 DEF Recheck, NotAdmitted
<1>4. CASE CloneStream(c) BY <1>4 DEF CloneStream
<1>5. CASE Interrupted(c) BY <1>5 DEF Interrupted
<1>6. CASE WriteSome(c) BY <1>6 DEF WriteSome
<1>7. CASE FlushDone(c) BY <1>7 DEF FlushDone
<1>8. CASE ReadSome(c) BY <1>8 DEF ReadSome
<1>9. CASE ReadEof(c) BY <1>9 DEF ReadEof
<1>10. CASE IoFails(c) BY <1>10 DEF IoFails
<1>11. CASE TimesOut(c) BY <1>11 DEF TimesOut
<1>12. CASE ShutdownWriteEnter(c) BY <1>12 DEF ShutdownWriteEnter
<1>13. CASE ShutdownWriteMark(c) BY <1>13 DEF ShutdownWriteMark, SendOps
<1>14. CASE ShutdownDone(c) BY <1>14 DEF ShutdownDone
<1>15. CASE ShutdownFails(c) BY <1>15 DEF ShutdownFails
<1>16. CASE ShutdownRead(c) BY <1>16 DEF ShutdownRead
<1>17. CASE ShutdownReadWake(c) BY <1>17 DEF ShutdownReadWake
<1>18. CASE PauseCheck(c) BY <1>18 DEF PauseCheck
<1>19. CASE PauseStore(c) BY <1>19 DEF PauseStore
<1>20. CASE Swap(c) BY <1>20 DEF Swap
<1>21. CASE Flags(c) BY <1>21 DEF Flags
<1>22. CASE CancelTokens(c) BY <1>22 DEF CancelTokens
<1>23. CASE TakeStream(c) BY <1>23 DEF TakeStream
<1>24. CASE DropFuture(c) BY <1>24 DEF DropFuture
<1> QED BY <1>1, <1>2, <1>3, <1>4, <1>5, <1>6, <1>7, <1>8, <1>9, <1>10, <1>11, <1>12, <1>13,
           <1>14, <1>15, <1>16, <1>17, <1>18, <1>19, <1>20, <1>21, <1>22, <1>23, <1>24
           DEF CallAction, Run

-----------------------------------------------------------------------------
(* Steps that are not a step of a call already begun.                      *)

\* Calling an operation establishes LocalOK of the new call.
LEMMA BeginLocal ==
    ASSUME IInv, NEW c \in Calls, BeginEmpty(c) \/ Begin(c)
    PROVE  /\ LocalOK(c)' /\ c \notin queued
           /\ pc'[c] \in {"entry", "swap", "done"}
           /\ \A d \in Calls \ {c} : Untouched(d)
<1>0. TypeOK /\ LocalOK(c) /\ pc[c] = "new" BY DEF IInv, BeginEmpty, Begin
<1>1. c \notin queued /\ ahead[c] = {} /\ written[c] = 0 /\ result[c] = "none"
      BY <1>0 DEF LocalOK, PlaceOK, InLine, ClosePlaces, AheadOK, WrittenOK
<1>2. UNCHANGED <<flagVars, coreVars, gateVars, written>> BY DEF BeginEmpty, Begin
<1>3. \A d \in Calls \ {c} : Untouched(d)
      BY <1>0, <1>2 DEF BeginEmpty, Begin, Goto, TypeOK, Untouched, gateVars
<1>4. CASE BeginEmpty(c)
  <2>1. pc'[c] = "done" /\ result'[c] \in {"ok", "data"} BY <1>0, <1>4 DEF BeginEmpty, Goto, TypeOK
  <2> QED BY <1>1, <1>2, <1>3, <2>1 DEF LocalOK, PlaceOK, InLine, ClosePlaces, AheadOK, ClosingOK,
                WrittenOK, Errors, gateVars
<1>5. CASE Begin(c)
  <2>1. /\ op'[c] \in Ops[c] /\ result'[c] = "none"
        /\ pc'[c] = IF op'[c] = "close" THEN "swap" ELSE "entry"
        BY <1>0, <1>1, <1>5, ConstantsAssumption DEF Begin, Goto, TypeOK
  <2> QED BY <1>1, <1>2, <1>3, <2>1 DEF LocalOK, PlaceOK, InLine, ClosePlaces, AheadOK, ClosingOK,
                WrittenOK, Errors, gateVars
<1> QED BY <1>4, <1>5

\* The peer's steps, and stuttering, touch nothing the invariant reads.
LEMMA PeerKeeps ==
    ASSUME Peer \/ UNCHANGED vars
    PROVE  UNCHANGED <<flagVars, coreVars, gateVars, callVars, wire, fin>>
BY DEF Peer, PeerSend, PeerShutdown, PeerRead, PeerClose, vars, outVars

-----------------------------------------------------------------------------
(* The parts of the invariant, one lemma each.                             *)

\* LocalOK is preserved for every call.
LEMMA LocalPreserved ==
    ASSUME IInv, [Next]_vars
    PROVE  \A d \in Calls : LocalOK(d)'
<1>0. TypeOK /\ TypeOK' /\ Monotone /\ \A d \in Calls : LocalOK(d)
      BY TypeStep, NeverReset DEF IInv
<1>1. ASSUME NEW c \in Calls, CallAction(c), NEW d \in Calls PROVE LocalOK(d)'
      BY <1>0, <1>1, LocalStep, OthersUntouched, UntouchedKeeps
<1>2. ASSUME NEW c \in Calls, BeginEmpty(c) \/ Begin(c), NEW d \in Calls PROVE LocalOK(d)'
      BY <1>0, <1>2, BeginLocal, UntouchedKeeps
<1>3. ASSUME Peer \/ UNCHANGED vars, NEW d \in Calls PROVE LocalOK(d)'
  <2>1. Untouched(d) BY <1>3, PeerKeeps DEF Untouched, gateVars, callVars
  <2> QED BY <1>0, <2>1, UntouchedKeeps
<1> QED BY <1>1, <1>2, <1>3 DEF Next, CallAction

\* The queues of the gates stay totally ordered.
LEMMA QueuePreserved ==
    ASSUME IInv, [Next]_vars
    PROVE  QueueTotal'
<1> USE DEF IInv, TypeOK, QueueTotal, SameGate
<1>1. ASSUME NEW c \in Calls, CallAction(c) PROVE QueueTotal'
  <2>1. Moves(c) /\ op' = op BY <1>1, CallMoves
  <2>2. ASSUME NEW r \in Results, Return(c, r) PROVE QueueTotal'
        BY <2>1, <2>2 DEF Return, Leave
  <2>3. ASSUME NEW p \in Places, Goto(c, p), Join(c) PROVE QueueTotal'
    <3>1. SUFFICES ASSUME NEW d \in queued', NEW e \in queued', d # e, SameGate(d, e)'
                   PROVE  (d \in ahead[e] \/ e \in ahead[d])'
          OBVIOUS
    <3>2. \A x \in Calls \ {c} : ahead'[x] = ahead[x] BY <2>3 DEF Join
    <3>3. ahead'[c] = {x \in queued : SameGate(c, x)} BY <2>3 DEF Join
    <3>4. queued' = queued \cup {c} BY <2>3 DEF Join
    <3>5. CASE d = c BY <2>1, <3>1, <3>3, <3>4, <3>5
    <3>6. CASE e = c BY <2>1, <3>1, <3>3, <3>4, <3>6
    <3>7. CASE d # c /\ e # c BY <2>1, <3>1, <3>2, <3>4, <3>7
    <3> QED BY <3>5, <3>6, <3>7
  <2>4. CASE UNCHANGED gateVars BY <2>1, <2>4 DEF gateVars
  <2> QED BY <2>1, <2>2, <2>3, <2>4 DEF Moves
<1>2. ASSUME NEW c \in Calls, BeginEmpty(c) \/ Begin(c) PROVE QueueTotal'
  <2>1. c \notin queued /\ \A d \in Calls \ {c} : op'[d] = op[d]
        BY <1>2, BeginLocal DEF Untouched
  <2>2. UNCHANGED gateVars BY <1>2 DEF BeginEmpty, Begin
  <2> QED BY <2>1, <2>2 DEF gateVars
<1>3. CASE Peer \/ UNCHANGED vars BY <1>3, PeerKeeps DEF gateVars, callVars
<1> QED BY <1>1, <1>2, <1>3 DEF Next, CallAction

\* Two calls past the same gate are the same call.
LEMMA Exclusive ==
    ASSUME IInv, NEW c \in Calls, NEW d \in Calls, c # d, SameGate(c, d),
           pc[c] \in {"recheck", "stream", "io", "shut"},
           pc[d] \in {"recheck", "stream", "io", "shut"}
    PROVE  FALSE
<1>1. c \in queued /\ d \in queued BY DEF IInv, LocalOK, PlaceOK, InLine
<1>2. ahead[c] = {} /\ ahead[d] = {} BY DEF IInv, LocalOK, AheadOK
<1> QED BY <1>1, <1>2 DEF IInv, QueueTotal

\* The tokens, the stream and fin keep agreeing with the flags.
LEMMA FlagsPreserved ==
    ASSUME IInv, [Next]_vars
    PROVE  FlagsAgree'
<1> USE DEF IInv, FlagsAgree
<1>0. Monotone BY NeverReset
<1>1. ASSUME NEW c \in Calls, CancelTokens(c) PROVE FlagsAgree'
      BY <1>1 DEF CancelTokens, LocalOK, ClosingOK, flagVars, outVars
<1>2. ASSUME NEW c \in Calls, TakeStream(c) PROVE FlagsAgree'
      BY <1>2 DEF TakeStream, LocalOK, ClosingOK, flagVars, outVars
<1>3. ASSUME NEW c \in Calls, ShutdownDone(c) PROVE FlagsAgree'
      BY <1>3 DEF ShutdownDone, LocalOK, ClosingOK, PlaceOK, flagVars, coreVars
<1>4. CASE UNCHANGED <<close_token, stream, fin>> BY <1>0, <1>4 DEF Monotone
<1>5. ASSUME NEW c \in Calls, CallAction(c),
             ~CancelTokens(c), ~TakeStream(c), ~ShutdownDone(c)
      PROVE  UNCHANGED <<close_token, stream, fin>>
      BY <1>5 DEF CallAction, Run, Ensure, Acquire, Recheck, CloneStream, Interrupted, WriteSome,
            FlushDone, ReadSome, ReadEof, IoFails, ShutdownWriteEnter, ShutdownWriteMark,
            ShutdownFails, ShutdownRead, ShutdownReadWake, PauseCheck, PauseStore, Swap, Flags,
            TimesOut, DropFuture, coreVars, outVars
<1>6. ASSUME NEW c \in Calls, BeginEmpty(c) \/ Begin(c)
      PROVE  UNCHANGED <<close_token, stream, fin>>
      BY <1>6 DEF BeginEmpty, Begin, coreVars, outVars
<1>7. CASE Peer \/ UNCHANGED vars BY <1>4, <1>7, PeerKeeps DEF coreVars
<1> QED BY <1>1, <1>2, <1>3, <1>4, <1>5, <1>6, <1>7 DEF Next, CallAction

\* A call is admitted only while the end-of-stream mark has not been sent.
LEMMA AdmittedBeforeFin ==
    ASSUME IInv, NEW c \in Calls, Admitted(c), op[c] \in SendOps
    PROVE  ~fin
BY DEF IInv, FlagsAgree, Admitted, Refusal, SendOps, ReadOps

\* No send is past its checks when the end-of-stream mark is sent.
LEMMA WriterPreserved ==
    ASSUME IInv, [Next]_vars
    PROVE  WriterBeforeFin'
<1> USE DEF IInv
<1>1. ASSUME NEW c \in Calls, CallAction(c), NEW d \in Calls,
             pc'[d] \in {"stream", "io"}, op'[d] \in SendOps
      PROVE  ~fin'
  <2>1. Causes(c) /\ op' = op BY <1>1, StepCauses, CallMoves
  <2>2. d # c => pc'[d] = pc[d] BY <1>1, OthersUntouched DEF Untouched
  <2>3. ~fin
    <3>1. CASE pc[d] \in {"stream", "io"} BY <1>1, <2>1, <3>1 DEF WriterBeforeFin
    <3>2. CASE d = c /\ pc'[c] = "stream" BY <1>1, <2>1, <3>2, AdmittedBeforeFin DEF Causes
    <3> QED BY <1>1, <2>1, <2>2, <3>1, <3>2 DEF Causes
  <2>4. CASE fin' # fin
    <3>1. ShutdownDone(c) BY <2>1, <2>4 DEF Causes
    <3>2. pc[c] = "shut" /\ pc'[c] = "done" BY <3>1 DEF ShutdownDone, Return, Goto, TypeOK
    <3>3. op[c] \in {"shutdown_write", "close"} BY <3>2 DEF LocalOK, PlaceOK
    <3>4. d # c /\ pc[d] \in {"stream", "io"} BY <1>1, <2>2, <3>2
    <3>5. SameGate(c, d) BY <1>1, <2>1, <3>3 DEF SameGate, SendOps, ReadOps
    <3> QED BY <3>2, <3>4, <3>5, Exclusive
  <2> QED BY <2>3, <2>4
<1>2. ASSUME NEW c \in Calls, BeginEmpty(c) \/ Begin(c) PROVE WriterBeforeFin'
  <2>1. fin' = fin BY <1>2 DEF BeginEmpty, Begin, outVars
  <2> QED BY <1>2, <2>1, BeginLocal DEF WriterBeforeFin, Untouched
<1>3. CASE Peer \/ UNCHANGED vars BY <1>3, PeerKeeps DEF WriterBeforeFin, callVars
<1> QED BY <1>1, <1>2, <1>3 DEF Next, CallAction, WriterBeforeFin

\* The wire keeps recording how far each call has written.
LEMMA WirePreserved ==
    ASSUME IInv, [Next]_vars
    PROVE  WireOK'
<1> USE DEF IInv
<1>1. ASSUME NEW c \in Calls, WriteSome(c) PROVE WireOK'
  <2>1. PICK n \in 1 .. (size[c] - written[c]) :
          /\ written' = [written EXCEPT ![c] = written[c] + n]
          /\ wire' = Append(wire, [call |-> c, from |-> written[c], to |-> written[c] + n])
        BY <1>1 DEF WriteSome
  <2>2. pc[c] = "io" /\ op[c] \in SendOps /\ op' = op BY <1>1 DEF WriteSome
  <2>3. wire \in Seq(Chunk) /\ wire' \in Seq(Chunk) /\ written[c] \in Nat /\ size[c] \in Nat
        BY TypeStep, ConstantsAssumption DEF TypeOK
  <2>4. /\ Len(wire') = Len(wire) + 1
        /\ wire'[Len(wire')] = [call |-> c, from |-> written[c], to |-> written[c] + n]
        /\ \A i \in 1 .. Len(wire) : wire'[i] = wire[i]
        BY <2>1, <2>3
  <2>5. written'[c] = written[c] + n /\ written'[c] > 0 BY <2>1, <2>3 DEF TypeOK
  <2>6. ASSUME NEW d \in Calls, d # c
        PROVE  /\ written'[d] = 0 => ~OnWire(d)'
               /\ ~(pc'[d] = "io" /\ written'[d] > 0)
    <3>1. pc'[d] = pc[d] /\ written'[d] = written[d]
          BY <1>1, <2>6, OthersUntouched DEF Untouched, CallAction, Run
    <3>2. ASSUME written[d] = 0, NEW i \in DOMAIN wire', wire'[i].call = d PROVE FALSE
      <4>1. i \in 1 .. Len(wire) + 1 BY <2>3, <2>4, <3>2
      <4>2. CASE i = Len(wire) + 1 BY <2>4, <2>6, <3>2, <4>2
      <4>3. CASE i # Len(wire) + 1
        <5>1. i \in DOMAIN wire /\ wire[i].call = d BY <2>3, <2>4, <3>2, <4>1, <4>3
        <5> QED BY <3>2, <5>1 DEF WireOK, OnWire
      <4> QED BY <4>2, <4>3
    <3>3. ASSUME pc[d] = "io", written[d] > 0 PROVE FALSE
      <4>1. op[d] \in SendOps BY <3>3 DEF LocalOK, WrittenOK
      <4>2. SameGate(c, d) BY <2>2, <4>1 DEF SameGate, SendOps, ReadOps
      <4> QED BY <2>2, <2>6, <3>3, <4>2, Exclusive
    <3> QED BY <3>1, <3>2, <3>3 DEF OnWire
  <2>7. /\ wire' # <<>>
        /\ wire'[Len(wire')].call = c /\ wire'[Len(wire')].to = written'[c]
        BY <2>3, <2>4, <2>5
  <2> QED BY <2>5, <2>6, <2>7 DEF WireOK
<1>2. ASSUME NEW c \in Calls, CallAction(c), ~WriteSome(c) PROVE WireOK'
  <2>1. UNCHANGED <<wire, written>> /\ (pc'[c] = "io" => pc[c] \in {"io", "stream"})
        BY <1>2, StepCauses DEF Causes
  <2>2. \A d \in Calls \ {c} : pc'[d] = pc[d] BY <1>2, OthersUntouched DEF Untouched
  <2>3. pc[c] = "stream" => written[c] = 0 BY DEF LocalOK, WrittenOK
  <2> QED BY <2>1, <2>2, <2>3 DEF WireOK, OnWire
<1>3. ASSUME NEW c \in Calls, BeginEmpty(c) \/ Begin(c) PROVE WireOK'
  <2>1. UNCHANGED <<wire, written>> BY <1>3 DEF BeginEmpty, Begin, outVars
  <2> QED BY <1>3, <2>1, BeginLocal DEF WireOK, OnWire, Untouched
<1>4. CASE Peer \/ UNCHANGED vars BY <1>4, PeerKeeps DEF WireOK, OnWire, callVars
<1> QED BY <1>1, <1>2, <1>3, <1>4 DEF Next, CallAction

\* The winner of the swap releases everything before it stops closing.
LEMMA ReleasedPreserved ==
    ASSUME IInv, [Next]_vars
    PROVE  Released'
<1> USE DEF IInv, Winning
<1>0. Monotone BY NeverReset
<1>1. ASSUME NEW c \in Calls, CallAction(c) PROVE Released'
  <2>1. Causes(c) BY <1>1, StepCauses
  <2>2. \A d \in Calls \ {c} : pc'[d] = pc[d] BY <1>1, OthersUntouched DEF Untouched
  <2>3. CASE TakeStream(c)
    <3>1. pc[c] = "take" /\ stream' = FALSE BY <2>3 DEF TakeStream
    <3>2. close_token /\ read_shutdown_token /\ read_shutdown /\ write_shutdown
          BY <3>1 DEF LocalOK, ClosingOK
    <3> QED BY <1>0, <3>1, <3>2 DEF Released, Monotone
  <2>4. CASE ~TakeStream(c) BY <1>0, <2>1, <2>2, <2>4 DEF Causes, Released, Monotone
  <2> QED BY <2>3, <2>4
<1>2. ASSUME NEW c \in Calls, BeginEmpty(c) \/ Begin(c) PROVE Released'
  <2>1. closed' = closed BY <1>2 DEF BeginEmpty, Begin, flagVars
  <2>2. pc[c] = "new" BY <1>2 DEF BeginEmpty, Begin
  <2>3. \A d \in Calls \ {c} : pc'[d] = pc[d] BY <1>2, BeginLocal DEF Untouched
  <2> QED BY <1>0, <2>1, <2>2, <2>3 DEF Released, Monotone
<1>3. CASE Peer \/ UNCHANGED vars BY <1>3, PeerKeeps DEF Released, callVars, flagVars, coreVars
<1> QED BY <1>1, <1>2, <1>3 DEF Next, CallAction

-----------------------------------------------------------------------------
(* The theorems.                                                           *)

\* IInv is an inductive invariant of the connection.
THEOREM Invariance == Spec => []IInv
<1>1. Init => IInv
  <2> SUFFICES ASSUME Init PROVE IInv OBVIOUS
  <2>1. TypeOK
    <3>1. wire \in Seq(Chunk) BY DEF Init
    <3>2. 0 \in 0 .. MaxLen /\ 0 \in 0 .. SndBuf /\ 0 \in 0 .. RcvBuf BY ConstantsAssumption
    <3>3. size \in [Calls -> 0 .. MaxLen] /\ written \in [Calls -> 0 .. MaxLen]
          BY <3>2 DEF Init
    <3>4. queued \in SUBSET Calls /\ ahead \in [Calls -> SUBSET Calls] BY DEF Init
    <3>5. /\ pc \in [Calls -> Places] /\ op \in [Calls -> AllOps \cup {"none"}]
          /\ result \in [Calls -> Results]
          BY DEF Init, Places, Results
    <3> QED BY <3>1, <3>2, <3>3, <3>4, <3>5 DEF Init, TypeOK
  <2>2. \A c \in Calls : LocalOK(c)
        BY DEF Init, LocalOK, PlaceOK, InLine, ClosePlaces, AheadOK, ClosingOK, WrittenOK, Errors
  <2>3. QueueTotal /\ FlagsAgree /\ WriterBeforeFin /\ WireOK /\ Released
        BY DEF Init, QueueTotal, FlagsAgree, WriterBeforeFin, WireOK, OnWire, Released
  <2> QED BY <2>1, <2>2, <2>3 DEF IInv
<1>2. IInv /\ [Next]_vars => IInv'
  <2> SUFFICES ASSUME IInv, [Next]_vars PROVE IInv' OBVIOUS
  <2>1. TypeOK' BY TypeStep DEF IInv
  <2> QED BY <2>1, LocalPreserved, QueuePreserved, FlagsPreserved, WriterPreserved,
             WirePreserved, ReleasedPreserved DEF IInv
<1> QED BY <1>1, <1>2, PTL DEF Spec

\* The state variables keep their types.
THEOREM TypeCorrect == Spec => []TypeOK
<1>1. IInv => TypeOK BY DEF IInv
<1> QED BY <1>1, Invariance, PTL

\* At most one call per direction is inside the OS operation.
THEOREM Exclusion == Spec => []GateExclusion
<1>1. IInv => GateExclusion BY Exclusive DEF GateExclusion, UsesStream
<1> QED BY <1>1, Invariance, PTL

\* A send that fails on a surviving connection has written nothing.
THEOREM RetryIsSafe == Spec => []RetrySafe
<1>1. IInv => RetrySafe
  <2> SUFFICES ASSUME IInv, NEW c \in Calls, op[c] \in SendOps, result[c] \in Errors, OnWire(c)
               PROVE  closed /\ result[c] \in {"closed", "failed"}
      BY DEF RetrySafe
  <2>1. written[c] # 0 /\ written[c] \in 0 .. MaxLen BY DEF IInv, WireOK, TypeOK
  <2>2. written[c] > 0 BY <2>1, ConstantsAssumption
  <2> QED BY <2>2 DEF IInv, LocalOK, WrittenOK
<1> QED BY <1>1, Invariance, PTL

\* A closed connection that nobody is closing any more is fully released.
THEOREM CloseReleases == Spec => []ClosedReleasesAll
<1>1. IInv => ClosedReleasesAll BY DEF IInv, Released, ClosedReleasesAll, Closing
<1> QED BY <1>1, Invariance, PTL

\* The sends of a connection implement ByteSink.
THEOREM Refinement == Spec => ImplementsSink
<1>1. Init => Sink!Init BY DEF Init, Sink!Init
<1>2. IInv /\ [Next]_vars => [Sink!Next]_(Sink!sinkVars)
  <2> SUFFICES ASSUME IInv, [Next]_vars
               PROVE  Sink!Put \/ Sink!Finish \/ UNCHANGED <<wire, fin>>
      BY DEF Sink!Next, Sink!sinkVars
  <2>1. ASSUME NEW c \in Calls, WriteSome(c) PROVE Sink!Put
    <3>1. PICK n \in 1 .. (size[c] - written[c]) :
            wire' = Append(wire, [call |-> c, from |-> written[c], to |-> written[c] + n])
          BY <2>1 DEF WriteSome
    <3>2. ~fin /\ fin' = fin BY <2>1 DEF WriteSome, IInv, WriterBeforeFin
    <3>3. written[c] \in 0 .. MaxLen /\ written[c] + n \in 0 .. MaxLen /\ written[c] < written[c] + n
          BY ConstantsAssumption DEF IInv, TypeOK
    <3> DEFINE k == [call |-> c, from |-> written[c], to |-> written[c] + n]
    <3>4. k \in Sink!Chunk /\ k.from < k.to BY <3>3 DEF Sink!Chunk
    <3>5. Sink!Continues(k) \/ Sink!Starts(k)
          BY <2>1, <3>3 DEF WriteSome, IInv, WireOK, OnWire, Sink!Continues, Sink!Starts
    <3> QED BY <3>1, <3>2, <3>4, <3>5 DEF Sink!Put
  <2>2. ASSUME NEW c \in Calls, CallAction(c), ~WriteSome(c)
        PROVE  Sink!Finish \/ UNCHANGED <<wire, fin>>
    <3>1. wire' = wire /\ (fin' # fin => ShutdownDone(c))
          BY <2>2, StepCauses DEF IInv, Causes
    <3> QED BY <3>1 DEF Sink!Finish, ShutdownDone
  <2>3. ASSUME NEW c \in Calls, BeginEmpty(c) \/ Begin(c) PROVE UNCHANGED <<wire, fin>>
        BY <2>3 DEF BeginEmpty, Begin, outVars
  <2>4. CASE Peer \/ UNCHANGED vars BY <2>4, PeerKeeps
  <2> QED BY <2>1, <2>2, <2>3, <2>4 DEF Next, CallAction
<1> QED BY <1>1, <1>2, Invariance, PTL DEF Spec, ImplementsSink, Sink!Spec

-----------------------------------------------------------------------------
(* What success means: of a send, and of shutdown_write.                   *)

\* The only ways to a result of a full send or a shutdown_write that a caller
\* takes for success, and the only ways to shut the sending direction.
SuccessCauses(c) ==
    /\ op[c] \in {"send", "send_timeout"} /\ result'[c] = "ok" /\ result[c] # "ok" => WriteSome(c)
    /\ op[c] = "shutdown_write" /\ result'[c] = "ok" /\ result[c] # "ok" =>
          closed \/ write_shutdown \/ fin'
    /\ write_shutdown' # write_shutdown =>
          closed \/ (op[c] = "shutdown_write" /\ pc'[c] = "stream")

\* Every step of a call has a cause of that kind.
LEMMA StepSuccess ==
    ASSUME IInv, NEW c \in Calls, CallAction(c)
    PROVE  SuccessCauses(c)
<1>0. TypeOK /\ LocalOK(c) BY DEF IInv
<1>00. ASSUME NEW r, Return(c, r) PROVE result'[c] = r BY <1>0, <1>00 DEF TypeOK, Return
<1>000. ASSUME NEW p, Goto(c, p) PROVE pc'[c] = p BY <1>0, <1>000 DEF TypeOK, Goto
<1> USE <1>00, <1>000 DEF SuccessCauses, flagVars, outVars
<1>1. CASE Ensure(c) BY <1>1 DEF Ensure, NotAdmitted, IoOps, ReadOps, SendOps, Refusal
<1>2. CASE Acquire(c) BY <1>2 DEF Acquire
<1>3. CASE Recheck(c) BY <1>3 DEF Recheck, NotAdmitted, IoOps, ReadOps, SendOps, Refusal
<1>4. CASE CloneStream(c) BY <1>4 DEF CloneStream
<1>5. CASE Interrupted(c) BY <1>5 DEF Interrupted
<1>6. CASE WriteSome(c) BY <1>6 DEF WriteSome, SendOps
<1>7. CASE FlushDone(c) BY <1>7 DEF FlushDone
<1>8. CASE ReadSome(c) BY <1>8 DEF ReadSome
<1>9. CASE ReadEof(c) BY <1>9 DEF ReadEof
<1>10. CASE IoFails(c) BY <1>10 DEF IoFails
<1>11. CASE TimesOut(c) BY <1>11 DEF TimesOut
<1>12. CASE ShutdownWriteEnter(c) BY <1>12 DEF ShutdownWriteEnter
<1>13. CASE ShutdownWriteMark(c) BY <1>13 DEF ShutdownWriteMark
<1>14. CASE ShutdownDone(c) BY <1>0, <1>14 DEF ShutdownDone, LocalOK, PlaceOK
<1>15. CASE ShutdownFails(c) BY <1>15 DEF ShutdownFails
<1>16. CASE ShutdownRead(c) BY <1>16 DEF ShutdownRead
<1>17. CASE ShutdownReadWake(c) BY <1>17 DEF ShutdownReadWake
<1>18. CASE PauseCheck(c) BY <1>18 DEF PauseCheck
<1>19. CASE PauseStore(c) BY <1>19 DEF PauseStore
<1>20. CASE Swap(c) BY <1>20 DEF Swap
<1>21. CASE Flags(c)
  <2>1. closed BY <1>0, <1>21 DEF Flags, LocalOK, ClosingOK
  <2>2. result' = result \/ result'[c] = IF op[c] = "close" THEN "ok" ELSE "failed"
        BY <1>21 DEF Flags
  <2> QED BY <2>1, <2>2
<1>22. CASE CancelTokens(c) BY <1>22 DEF CancelTokens
<1>23. CASE TakeStream(c) BY <1>23 DEF TakeStream
<1>24. CASE DropFuture(c) BY <1>24 DEF DropFuture
<1> QED BY <1>1, <1>2, <1>3, <1>4, <1>5, <1>6, <1>7, <1>8, <1>9, <1>10, <1>11, <1>12, <1>13,
           <1>14, <1>15, <1>16, <1>17, <1>18, <1>19, <1>20, <1>21, <1>22, <1>23, <1>24
           DEF CallAction, Run

\* A call that has not begun has no buffer: what BeginEmpty leaves at size 0.
NewUnsized == \A c \in Calls : pc[c] = "new" => size[c] = 0

\* Bytes on the wire stay there.
LEMMA WireGrows ==
    ASSUME TypeOK, [Next]_vars
    PROVE  \A i \in DOMAIN wire : i \in DOMAIN wire' /\ wire'[i] = wire[i]
<1>1. ASSUME NEW c \in Calls, WriteSome(c)
      PROVE  \A i \in DOMAIN wire : i \in DOMAIN wire' /\ wire'[i] = wire[i]
  <2>1. PICK k : wire' = Append(wire, k) BY <1>1 DEF WriteSome
  <2>2. wire \in Seq(Chunk) /\ wire' \in Seq(Chunk) BY TypeStep DEF TypeOK
  <2>3. DOMAIN wire = 1 .. Len(wire) /\ DOMAIN wire' = 1 .. Len(wire) + 1 /\ Len(wire) \in Nat
        BY <2>1, <2>2
  <2> QED BY <2>1, <2>2, <2>3
<1>2. ASSUME NEW c \in Calls, CallAction(c), ~WriteSome(c) PROVE wire' = wire
      BY <1>2, StepCauses DEF Causes
<1>3. ASSUME NEW c \in Calls, BeginEmpty(c) \/ Begin(c) PROVE wire' = wire
      BY <1>3 DEF BeginEmpty, Begin, outVars
<1>4. CASE Peer \/ UNCHANGED vars BY <1>4, PeerKeeps
<1> QED BY <1>1, <1>2, <1>3, <1>4 DEF Next, CallAction

\* A send that succeeds has just put its last byte on the wire.
LEMMA SendsStep ==
    ASSUME IInv, NewUnsized, CompleteSends, [Next]_vars
    PROVE  NewUnsized' /\ CompleteSends'
<1> DEFINE Full(c) == op[c] \in {"send", "send_timeout"} /\ result[c] = "ok" /\ size[c] > 0
           Whole(c) == \E i \in DOMAIN wire : wire[i].call = c /\ wire[i].to = size[c]
<1>0. TypeOK /\ TypeOK' BY TypeStep DEF IInv
<1>1. ASSUME NEW c \in Calls, Whole(c), size'[c] = size[c] PROVE Whole(c)'
      BY <1>0, <1>1, WireGrows
<1>2. ASSUME NEW c \in Calls, CallAction(c) PROVE NewUnsized' /\ CompleteSends'
  <2>1. op' = op /\ size' = size BY <1>0, <1>2, CallMoves
  <2>2. \A d \in Calls \ {c} : pc'[d] = pc[d] /\ result'[d] = result[d]
        BY <1>0, <1>2, OthersUntouched DEF Untouched
  <2>3. pc'[c] # "new"
    <3>0. ASSUME NEW p, Goto(c, p) PROVE pc'[c] = p BY <1>0, <3>0 DEF TypeOK, Goto
    <3> QED BY <1>2, <3>0
             DEF Return, NotAdmitted, CallAction, Run, Ensure, Acquire, Recheck, CloneStream,
                 Interrupted, WriteSome, FlushDone, ReadSome, ReadEof, IoFails, TimesOut,
                 ShutdownWriteEnter, ShutdownWriteMark, ShutdownDone, ShutdownFails, ShutdownRead,
                 ShutdownReadWake, PauseCheck, PauseStore, Swap, Flags, CancelTokens, TakeStream,
                 DropFuture
  <2>4. ASSUME NEW d \in Calls, Full(d)' PROVE Whole(d)'
    <3>1. CASE Full(d) BY <1>1, <2>1, <3>1 DEF CompleteSends
    <3>2. CASE ~Full(d)
      <4>1. d = c /\ WriteSome(c) BY <1>2, <2>1, <2>2, <2>4, <3>2, StepSuccess DEF SuccessCauses
      <4>2. PICK n \in 1 .. (size[c] - written[c]) :
              /\ wire' = Append(wire, [call |-> c, from |-> written[c], to |-> written[c] + n])
              /\ \/ op[c] = "write" \/ written[c] + n = size[c]
                 \/ result' = result
            BY <4>1 DEF WriteSome
      <4>3. written[c] + n = size[c] BY <2>1, <2>4, <3>2, <4>1, <4>2
      <4>4. /\ Len(wire') \in DOMAIN wire'
            /\ wire'[Len(wire')] = [call |-> c, from |-> written[c], to |-> written[c] + n]
            BY <1>0, <4>2 DEF TypeOK
      <4> QED BY <2>1, <4>1, <4>3, <4>4
    <3> QED BY <3>1, <3>2
  <2> QED BY <2>1, <2>2, <2>3, <2>4 DEF NewUnsized, CompleteSends
<1>3. ASSUME NEW c \in Calls, BeginEmpty(c) \/ Begin(c) PROVE NewUnsized' /\ CompleteSends'
  <2>1. /\ pc'[c] # "new" /\ \A d \in Calls \ {c} : pc'[d] = pc[d] /\ op'[d] = op[d]
                                                    /\ result'[d] = result[d]
        BY <1>3, BeginLocal DEF Untouched
  <2>2. \A d \in Calls \ {c} : size'[d] = size[d]
        BY <1>0, <1>3 DEF BeginEmpty, Begin, TypeOK
  <2>3. ~Full(c)'
    <3>1. pc[c] = "new" /\ size[c] = 0 /\ result[c] = "none"
          BY <1>3 DEF BeginEmpty, Begin, NewUnsized, IInv, LocalOK, PlaceOK
    <3>2. CASE BeginEmpty(c) BY <3>1, <3>2 DEF BeginEmpty
    <3>3. CASE Begin(c) BY <3>1, <3>3 DEF Begin
    <3> QED BY <1>3, <3>2, <3>3
  <2> QED BY <1>1, <2>1, <2>2, <2>3 DEF NewUnsized, CompleteSends
<1>4. CASE Peer \/ UNCHANGED vars
      BY <1>4, PeerKeeps DEF callVars, NewUnsized, CompleteSends
<1> QED BY <1>2, <1>3, <1>4 DEF Next, CallAction

\* A send or send_timeout that returned Ok put its whole buffer on the wire,
\* whatever short writes the OS made and whoever raced it.
THEOREM SendsAreComplete == Spec => []CompleteSends
<1>1. Init => NewUnsized /\ CompleteSends BY DEF Init, NewUnsized, CompleteSends
<1>2. IInv /\ NewUnsized /\ CompleteSends /\ [Next]_vars => NewUnsized' /\ CompleteSends'
      BY SendsStep
<1> QED BY <1>1, <1>2, Invariance, PTL DEF Spec

\* The end-of-stream mark was sent, is on its way, was given up with a dropped
\* future, or the connection is closed.
ShutdownUnderway ==
    \E d \in Calls : /\ op[d] = "shutdown_write"
                     /\ pc[d] \in {"stream", "shut", "swap"} \/ result[d] = "dropped"
Accounted == fin \/ closed \/ ShutdownUnderway

\* The flag that makes shutdown_write idempotent is backed by somebody.
FlagBacked == write_shutdown => Accounted

\* The call that set the flag hands the shutdown on, or closes, or is dropped.
LEMMA UnderwayStays ==
    ASSUME IInv, NEW c \in Calls, CallAction(c), op[c] = "shutdown_write",
           pc[c] \in {"stream", "shut", "swap"}
    PROVE  fin' \/ closed' \/ pc'[c] \in {"stream", "shut", "swap"} \/ result'[c] = "dropped"
<1>0. TypeOK /\ FlagsAgree BY DEF IInv
<1>00. ASSUME NEW r, Return(c, r) PROVE result'[c] = r BY <1>0, <1>00 DEF TypeOK, Return
<1>000. ASSUME NEW p, Goto(c, p) PROVE pc'[c] = p BY <1>0, <1>000 DEF TypeOK, Goto
<1>1. CASE CloneStream(c) BY <1>0, <1>000, <1>1 DEF CloneStream, FlagsAgree, flagVars
<1>2. CASE ShutdownDone(c) BY <1>2 DEF ShutdownDone
<1>3. CASE ShutdownFails(c) BY <1>000, <1>3 DEF ShutdownFails
<1>4. CASE Swap(c) BY <1>4 DEF Swap
<1>5. CASE DropFuture(c) BY <1>00, <1>5 DEF DropFuture
<1>6. CASE TimesOut(c) BY <1>6 DEF TimesOut
<1> QED BY <1>1, <1>2, <1>3, <1>4, <1>5, <1>6
        DEF CallAction, Run, Ensure, Acquire, Recheck, Interrupted, WriteSome, FlushDone, ReadSome,
            ReadEof, IoFails, ShutdownWriteEnter, ShutdownWriteMark, ShutdownRead,
            ShutdownReadWake, PauseCheck, PauseStore, Flags, CancelTokens, TakeStream

\* Once accounted for, a shutdown stays accounted for.
LEMMA AccountedStays ==
    ASSUME IInv, Accounted, [Next]_vars
    PROVE  Accounted'
<1>0. TypeOK /\ Monotone BY NeverReset DEF IInv
<1>1. CASE fin \/ closed BY <1>0, <1>1 DEF Monotone, Accounted
<1>2. ASSUME NEW d \in Calls, op[d] = "shutdown_write",
             pc[d] \in {"stream", "shut", "swap"} \/ result[d] = "dropped"
      PROVE  Accounted'
  <2>1. ASSUME NEW c \in Calls, CallAction(c) PROVE Accounted'
    <3>1. op' = op BY <1>0, <2>1, CallMoves
    <3>2. CASE d # c
      <4>1. pc'[d] = pc[d] /\ result'[d] = result[d]
            BY <1>0, <2>1, <3>2, OthersUntouched DEF Untouched
      <4> QED BY <1>2, <3>1, <4>1 DEF Accounted, ShutdownUnderway
    <3>3. CASE d = c /\ pc[c] \in {"stream", "shut", "swap"}
          BY <1>2, <2>1, <3>1, <3>3, UnderwayStays DEF Accounted, ShutdownUnderway
    <3>4. CASE d = c /\ result[c] = "dropped"
      <4>1. pc[c] = "done" BY <3>4 DEF IInv, LocalOK, PlaceOK
      <4> QED BY <2>1, <4>1
            DEF CallAction, Run, Ensure, Acquire, Recheck, CloneStream, Interrupted, WriteSome,
                FlushDone, ReadSome, ReadEof, IoFails, TimesOut, ShutdownWriteEnter,
                ShutdownWriteMark, ShutdownDone, ShutdownFails, ShutdownRead, ShutdownReadWake,
                PauseCheck, PauseStore, Swap, Flags, CancelTokens, TakeStream, DropFuture
    <3> QED BY <1>2, <3>2, <3>3, <3>4
  <2>2. ASSUME NEW c \in Calls, BeginEmpty(c) \/ Begin(c) PROVE Accounted'
    <3>1. pc[c] = "new" /\ op[c] = "none" BY <2>2 DEF BeginEmpty, Begin, IInv, LocalOK, PlaceOK
    <3>2. d # c BY <1>2, <3>1
    <3> QED BY <1>2, <2>2, <3>2, BeginLocal DEF Untouched, Accounted, ShutdownUnderway
  <2>3. CASE Peer \/ UNCHANGED vars
        BY <1>2, <2>3, PeerKeeps DEF callVars, Accounted, ShutdownUnderway
  <2> QED BY <2>1, <2>2, <2>3 DEF Next, CallAction
<1> QED BY <1>1, <1>2 DEF Accounted, ShutdownUnderway

\* Nobody sets the flag, or reports success, without an account of it.
LEMMA HonestStep ==
    ASSUME IInv, FlagBacked, ShutdownHonest, [Next]_vars
    PROVE  FlagBacked' /\ ShutdownHonest'
<1>0. TypeOK /\ Monotone BY NeverReset DEF IInv
<1>1. CASE Accounted' BY <1>1 DEF FlagBacked, ShutdownHonest, Accounted, ShutdownUnderway
<1>2. CASE ~Accounted'
  <2>0. ~Accounted /\ ~write_shutdown /\ ~closed /\ ~closed'
        BY <1>0, <1>2, AccountedStays DEF FlagBacked, Accounted
  <2>1. \A d \in Calls : ~(op[d] = "shutdown_write" /\ result[d] = "ok")
        BY <2>0 DEF ShutdownHonest, Accounted, ShutdownUnderway
  <2> SUFFICES /\ ~write_shutdown'
               /\ \A d \in Calls : ~(op'[d] = "shutdown_write" /\ result'[d] = "ok")
      BY DEF FlagBacked, ShutdownHonest
  <2>2. ASSUME NEW c \in Calls, CallAction(c)
        PROVE  /\ ~write_shutdown'
               /\ \A d \in Calls : ~(op'[d] = "shutdown_write" /\ result'[d] = "ok")
    <3>1. SuccessCauses(c) /\ op' = op BY <1>0, <2>2, StepSuccess, CallMoves
    <3>2. \A d \in Calls \ {c} : result'[d] = result[d]
          BY <1>0, <2>2, OthersUntouched DEF Untouched
    <3>3. ~write_shutdown'
          BY <1>2, <2>0, <3>1 DEF SuccessCauses, Accounted, ShutdownUnderway
    <3>4. ~(op[c] = "shutdown_write" /\ result'[c] = "ok")
          BY <1>2, <2>0, <2>1, <3>1 DEF SuccessCauses, Accounted
    <3> QED BY <2>1, <3>1, <3>2, <3>3, <3>4
  <2>3. ASSUME NEW c \in Calls, BeginEmpty(c) \/ Begin(c)
        PROVE  /\ ~write_shutdown'
               /\ \A d \in Calls : ~(op'[d] = "shutdown_write" /\ result'[d] = "ok")
    <3>1. \A d \in Calls \ {c} : op'[d] = op[d] /\ result'[d] = result[d]
          BY <2>3, BeginLocal DEF Untouched
    <3>2. ~write_shutdown' BY <2>0, <2>3 DEF BeginEmpty, Begin, flagVars
    <3>3. ~(op'[c] = "shutdown_write" /\ result'[c] = "ok")
      <4>1. result[c] = "none" /\ pc[c] = "new"
            BY <2>3 DEF BeginEmpty, Begin, IInv, LocalOK, PlaceOK
      <4>2. CASE BeginEmpty(c) BY <1>0, <4>2 DEF BeginEmpty, TypeOK, ReadOps, SendOps
      <4>3. CASE Begin(c) BY <4>1, <4>3 DEF Begin
      <4> QED BY <2>3, <4>2, <4>3
    <3> QED BY <2>1, <3>1, <3>2, <3>3
  <2>4. CASE Peer \/ UNCHANGED vars BY <2>0, <2>1, <2>4, PeerKeeps DEF callVars, flagVars
  <2> QED BY <2>2, <2>3, <2>4 DEF Next, CallAction
<1> QED BY <1>1, <1>2

\* shutdown_write returns Ok only if the end of the stream is accounted for.
THEOREM ShutdownIsHonest == Spec => []ShutdownHonest
<1>1. Init => FlagBacked /\ ShutdownHonest BY DEF Init, FlagBacked, ShutdownHonest
<1>2. IInv /\ FlagBacked /\ ShutdownHonest /\ [Next]_vars => FlagBacked' /\ ShutdownHonest'
      BY HonestStep
<1> QED BY <1>1, <1>2, Invariance, PTL DEF Spec

-----------------------------------------------------------------------------
(* Consequences of the refinement.                                         *)

\* Appending a chunk that carries on the last buffer, or starts a new one,
\* keeps buffers apart.
LEMMA PutKeepsApart ==
    ASSUME wire \in Seq(Chunk), Sink!NoInterleaving, Sink!Put
    PROVE  wire' \in Seq(Chunk) /\ Sink!NoInterleaving'
<1>1. PICK k \in Chunk : (Sink!Continues(k) \/ Sink!Starts(k)) /\ wire' = Append(wire, k)
      BY DEF Sink!Put, Sink!Chunk, Chunk
<1>2. /\ wire' \in Seq(Chunk) /\ Len(wire') = Len(wire) + 1
      /\ wire'[Len(wire) + 1] = k
      /\ \A i \in 1 .. Len(wire) : wire'[i] = wire[i]
      BY <1>1
<1>3. ASSUME NEW i \in DOMAIN wire', NEW j \in DOMAIN wire', NEW m \in DOMAIN wire',
             i < j, j < m, wire'[i].call = wire'[m].call
      PROVE  wire'[j].call = wire'[i].call
  <2>1. /\ i \in 1 .. Len(wire) /\ j \in 1 .. Len(wire) /\ m \in 1 .. Len(wire) + 1
        /\ Len(wire) \in Nat
        BY <1>2, <1>3
  <2>2. wire'[i] = wire[i] /\ wire'[j] = wire[j] BY <1>2, <2>1
  <2>3. CASE m \in 1 .. Len(wire) BY <1>2, <1>3, <2>1, <2>2, <2>3 DEF Sink!NoInterleaving
  <2>4. CASE m = Len(wire) + 1
    <3>1. wire[i].call = k.call BY <1>2, <1>3, <2>2, <2>4
    <3>2. Sink!Continues(k) BY <1>1, <2>1, <3>1 DEF Sink!Starts
    <3>3. wire[Len(wire)].call = k.call BY <3>2 DEF Sink!Continues
    <3>4. CASE j = Len(wire) BY <2>2, <3>1, <3>3, <3>4
    <3>5. CASE j < Len(wire)
      <4>1. Len(wire) \in DOMAIN wire /\ i \in DOMAIN wire /\ j \in DOMAIN wire BY <2>1
      <4> QED BY <1>3, <2>2, <3>1, <3>3, <3>5, <4>1 DEF Sink!NoInterleaving
    <3> QED BY <2>1, <3>4, <3>5
  <2> QED BY <2>1, <2>3, <2>4
<1> QED BY <1>2, <1>3 DEF Sink!NoInterleaving

\* Whatever implements ByteSink keeps the buffers of two calls apart.
THEOREM SinkKeepsApart == Sink!Spec => []Sink!NoInterleaving
<1> DEFINE Apart == wire \in Seq(Chunk) /\ Sink!NoInterleaving
<1>1. Sink!Init => Apart BY DEF Sink!Init, Sink!NoInterleaving
<1>2. Apart /\ [Sink!Next]_(Sink!sinkVars) => Apart'
  <2> SUFFICES ASSUME Apart, [Sink!Next]_(Sink!sinkVars) PROVE Apart' OBVIOUS
  <2>1. CASE Sink!Put BY <2>1, PutKeepsApart
  <2>2. CASE wire' = wire BY <2>2 DEF Sink!NoInterleaving
  <2> QED BY <2>1, <2>2 DEF Sink!Next, Sink!Finish, Sink!sinkVars
<1> QED BY <1>1, <1>2, PTL DEF Sink!Spec

\* Concurrent sends on one connection never interleave their bytes.
THEOREM NoInterleavedSends == Spec => []SendsDoNotInterleave
BY Refinement, SinkKeepsApart, PTL DEF ImplementsSink, SendsDoNotInterleave
=============================================================================
