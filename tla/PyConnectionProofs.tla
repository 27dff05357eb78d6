------------------------- MODULE PyConnectionProofs -------------------------
(***************************************************************************)
(* Proofs about PyConnection, for any set of Python calls and any bounds.  *)
(* A step of the binding is a step of Connection, so the invariant IInv of *)
(* ConnectionProofs holds below it; PyInv is what the slot, the futures    *)
(* and the guards add.                                                     *)
(***************************************************************************)
EXTENDS PyConnection, ConnectionProofs

-----------------------------------------------------------------------------
(* The inductive invariant.                                                *)

\* What a close, a shutdown_write and a send have achieved when they return.
\* A dropped shutdown_write may have given up at the gate.
OutcomeOK(x) ==
    /\ op[x] = "close" /\ pc[x] \notin {"new", "swap"} => closed
    /\ op[x] = "shutdown_write" /\ pc[x] \notin {"new", "entry", "gate", "recheck"} =>
          closed \/ write_shutdown \/ result[x] = "dropped"
    /\ op[x] \in SendOps /\ pc[x] = "done" => result[x] \in Errors \cup {"ok", "dropped"}

\* A call and its guard: the cleanup starts only after the call has returned
\* without success, and then it has started as soon as the guard is gone.
GuardOK(c) ==
    /\ pc[c] = "new" <=> via[c] = "none"
    /\ c \in armed => op[c] \in GuardedOps /\ pc[Task(c)] = "new"
    /\ op[c] \in GuardedOps /\ c \notin armed =>
          pc[c] = "done" /\ (result[c] = "ok" \/ pc[Task(c)] # "new")
    /\ pc[Task(c)] # "new" =>
          /\ pc[c] = "done" /\ op[Task(c)] = Cleanup(c)
          /\ op[c] \in GuardedOps /\ c \notin armed
    /\ result[Task(c)] # "dropped"

\* Nobody uses the wrapper's connection after it was taken, and a call on a
\* half, or its cleanup, closes the connection only because the peer is gone.
SlotOK(c) ==
    /\ via[c] = "wrapper" /\ slot # "plain" => ~InProgressPy(c)
    /\ via[c] = "half" =>
          /\ slot = "consumed" /\ op[c] \in HalfOps
          /\ pc[c] = "swap" \/ pc[Task(c)] = "swap" => peerGone

\* A send of a half that was admitted saw an open connection after the split.
HalfOK(c) ==
    via[c] = "half" /\ op[c] = "send" /\ closed
        /\ (pc[c] \notin {"entry", "done"} \/ written[c] > 0) => peerGone

PyInv ==
    /\ PyTypeOK
    /\ \A x \in Calls : OutcomeOK(x)
    /\ \A c \in PyCalls : GuardOK(c) /\ SlotOK(c) /\ HalfOK(c)

-----------------------------------------------------------------------------
(* The binding only takes steps of the connection.                         *)

\* Every call of the connection is a Python call or the cleanup of one.
LEMMA Owners ==
    /\ \A c \in PyCalls : c \in Calls /\ Task(c) \in Calls /\ Task(c) \notin PyCalls /\ Task(c) # c
    /\ \A c, d \in PyCalls : Task(c) = Task(d) => c = d
    /\ \A x \in Calls : x \in PyCalls \/ \E c \in PyCalls : x = Task(c)
BY PyCallsAssumption DEF Task

LEMMA CoreStep ==
    ASSUME [PyNext]_allVars
    PROVE  [Next]_vars
<1>1. ASSUME NEW c \in PyCalls, PyCall(c) PROVE Next BY <1>1, Owners DEF PyCall, Next
<1>2. ASSUME NEW c \in PyCalls, PyCancel(c) \/ Deliver(c) PROVE UNCHANGED vars
      BY <1>2 DEF PyCancel, Deliver
<1>3. ASSUME NEW c \in PyCalls, PyRun(c) PROVE [Next]_vars
      BY <1>3, Owners DEF PyRun, DropTask, EndGuarded, Next
<1>4. ASSUME NEW c \in PyCalls, TimesOut(c) PROVE Next BY <1>4, Owners DEF Next
<1>5. CASE IntoSplit \/ BeginSecure BY <1>5 DEF IntoSplit, BeginSecure, TakePlain
<1>6. CASE UNCHANGED allVars BY <1>6 DEF allVars
<1> QED BY <1>1, <1>2, <1>3, <1>4, <1>5, <1>6 DEF PyNext, Next

\* Whatever Python calls, cancels, splits or upgrades, the native connection
\* under the binding only behaves as a Connection behaves: cleanup tasks and
\* dropped tasks are ordinary calls and dropped futures of it.  So every
\* property proved of Connection holds below the binding too.
THEOREM BindingImplements == PySpec => Spec
<1>1. PyInit => Init BY DEF PyInit
<1>2. [PyNext]_allVars => [Next]_vars BY CoreStep
<1> QED BY <1>1, <1>2, PTL DEF PySpec, Spec

-----------------------------------------------------------------------------
(* What the steps of one call do, as far as PyInv looks.                   *)

\* Only a call in progress moves.  It comes to close the connection because
\* the peer is gone or its own deadline expired, and a send leaves its entry
\* for the gate only if the connection is open.
Motives(x) ==
    /\ pc[x] \notin {"new", "done"} /\ pc'[x] # "new"
    /\ pc'[x] = "swap" => peerGone \/ op[x] = "send_timeout"
    /\ closed' # closed => pc[x] = "swap"
    /\ op[x] = "send" /\ pc[x] = "entry" => pc'[x] = "done" \/ ~closed'
    /\ written'[x] # written[x] => pc[x] = "io"
    /\ peerGone' = peerGone

LEMMA StepMotives ==
    ASSUME TypeOK, NEW x \in Calls, CallAction(x)
    PROVE  Motives(x)
<1>0. ASSUME NEW r, Return(x, r) PROVE pc'[x] = "done" BY <1>0 DEF TypeOK, Return, Goto
<1>00. ASSUME NEW p, Goto(x, p) PROVE pc'[x] = p BY <1>00 DEF TypeOK, Goto
<1> USE <1>0, <1>00 DEF Motives, flagVars, inVars
<1>1. CASE Ensure(x) BY <1>1 DEF Ensure, NotAdmitted, Admitted, Refusal
<1>2. CASE Acquire(x) BY <1>2 DEF Acquire
<1>3. CASE Recheck(x) BY <1>3 DEF Recheck, NotAdmitted
<1>4. CASE CloneStream(x) BY <1>4 DEF CloneStream
<1>5. CASE Interrupted(x) BY <1>5 DEF Interrupted
<1>6. CASE WriteSome(x) BY <1>6 DEF WriteSome
<1>7. CASE FlushDone(x) BY <1>7 DEF FlushDone
<1>8. CASE ReadSome(x) BY <1>8 DEF ReadSome
<1>9. CASE ReadEof(x) BY <1>9 DEF ReadEof
<1>10. CASE IoFails(x) BY <1>10 DEF IoFails
<1>11. CASE TimesOut(x) BY <1>11 DEF TimesOut
<1>12. CASE ShutdownWriteEnter(x) BY <1>12 DEF ShutdownWriteEnter
<1>13. CASE ShutdownWriteMark(x) BY <1>13 DEF ShutdownWriteMark
<1>14. CASE ShutdownDone(x) BY <1>14 DEF ShutdownDone
<1>15. CASE ShutdownFails(x) BY <1>15 DEF ShutdownFails
<1>16. CASE ShutdownRead(x) BY <1>16 DEF ShutdownRead
<1>17. CASE ShutdownReadWake(x) BY <1>17 DEF ShutdownReadWake
<1>18. CASE PauseCheck(x) BY <1>18 DEF PauseCheck
<1>19. CASE PauseStore(x) BY <1>19 DEF PauseStore
<1>20. CASE Swap(x) BY <1>20 DEF Swap
<1>21. CASE Flags(x) BY <1>21 DEF Flags
<1>22. CASE CancelTokens(x) BY <1>22 DEF CancelTokens
<1>23. CASE TakeStream(x) BY <1>23 DEF TakeStream
<1>24. CASE DropFuture(x) BY <1>24 DEF DropFuture
<1> QED BY <1>1, <1>2, <1>3, <1>4, <1>5, <1>6, <1>7, <1>8, <1>9, <1>10, <1>11, <1>12, <1>13,
           <1>14, <1>15, <1>16, <1>17, <1>18, <1>19, <1>20, <1>21, <1>22, <1>23, <1>24
           DEF CallAction, Run

\* Only the owner of a future drops it.
LEMMA RunNotDropped ==
    ASSUME TypeOK, NEW x \in Calls, Run(x) \/ TimesOut(x), result[x] # "dropped"
    PROVE  result'[x] # "dropped"
<1>0. ASSUME NEW r, Return(x, r) PROVE result'[x] = r BY <1>0 DEF TypeOK, Return
<1>00. \A o : Refusal(o) # "dropped" BY DEF Refusal
<1> USE <1>0, <1>00
<1>1. CASE Ensure(x) BY <1>1 DEF Ensure, NotAdmitted
<1>2. CASE Acquire(x) BY <1>2 DEF Acquire
<1>3. CASE Recheck(x) BY <1>3 DEF Recheck, NotAdmitted
<1>4. CASE CloneStream(x) BY <1>4 DEF CloneStream
<1>5. CASE Interrupted(x) BY <1>5 DEF Interrupted
<1>6. CASE WriteSome(x) BY <1>6 DEF WriteSome
<1>7. CASE FlushDone(x) BY <1>7 DEF FlushDone
<1>8. CASE ReadSome(x) BY <1>8 DEF ReadSome
<1>9. CASE ReadEof(x) BY <1>9 DEF ReadEof
<1>10. CASE IoFails(x) BY <1>10 DEF IoFails
<1>11. CASE TimesOut(x) BY <1>11 DEF TimesOut
<1>12. CASE ShutdownWriteEnter(x) BY <1>12 DEF ShutdownWriteEnter
<1>13. CASE ShutdownWriteMark(x) BY <1>13 DEF ShutdownWriteMark
<1>14. CASE ShutdownDone(x) BY <1>14 DEF ShutdownDone
<1>15. CASE ShutdownFails(x) BY <1>15 DEF ShutdownFails
<1>16. CASE ShutdownRead(x) BY <1>16 DEF ShutdownRead
<1>17. CASE ShutdownReadWake(x) BY <1>17 DEF ShutdownReadWake
<1>18. CASE PauseCheck(x) BY <1>18 DEF PauseCheck
<1>19. CASE PauseStore(x) BY <1>19 DEF PauseStore
<1>20. CASE Swap(x) BY <1>20 DEF Swap
<1>21. CASE Flags(x) BY <1>21 DEF Flags
<1>22. CASE CancelTokens(x) BY <1>22 DEF CancelTokens
<1>23. CASE TakeStream(x) BY <1>23 DEF TakeStream
<1> QED BY <1>1, <1>2, <1>3, <1>4, <1>5, <1>6, <1>7, <1>8, <1>9, <1>10, <1>11, <1>12, <1>13,
           <1>14, <1>15, <1>16, <1>17, <1>18, <1>19, <1>20, <1>21, <1>22, <1>23
           DEF Run

\* How close, shutdown_write and the sends come to what OutcomeOK says.
Outcomes(x) ==
    /\ pc[x] = "swap" => closed'
    /\ op[x] = "shutdown_write" /\ pc[x] \in {"entry", "gate", "recheck"} =>
          \/ pc'[x] \in {"gate", "recheck"}
          \/ closed \/ write_shutdown' \/ result'[x] = "dropped"
    /\ op[x] \in SendOps /\ pc'[x] = "done" => result'[x] \in Errors \cup {"ok", "dropped"}

LEMMA StepOutcomes ==
    ASSUME TypeOK, NEW x \in Calls, CallAction(x)
    PROVE  Outcomes(x)
<1>0. ASSUME NEW r, Return(x, r) PROVE pc'[x] = "done" /\ result'[x] = r
      BY <1>0 DEF TypeOK, Return, Goto
<1>00. ASSUME NEW p, Goto(x, p) PROVE pc'[x] = p BY <1>00 DEF TypeOK, Goto
<1>000. SendOps \cap ReadOps = {} /\ "shutdown_write" \notin IoOps /\ "flush" \notin SendOps
        BY DEF SendOps, ReadOps, IoOps
<1> USE <1>0, <1>00, <1>000 DEF Outcomes, Errors, flagVars
<1>1. CASE Ensure(x) BY <1>1 DEF Ensure, NotAdmitted, Admitted, Refusal
<1>2. CASE Acquire(x) BY <1>2 DEF Acquire
<1>3. CASE Recheck(x) BY <1>3 DEF Recheck, NotAdmitted, Admitted, Refusal
<1>4. CASE CloneStream(x) BY <1>4 DEF CloneStream
<1>5. CASE Interrupted(x) BY <1>5 DEF Interrupted
<1>6. CASE WriteSome(x) BY <1>6 DEF WriteSome
<1>7. CASE FlushDone(x) BY <1>7 DEF FlushDone
<1>8. CASE ReadSome(x) BY <1>8 DEF ReadSome
<1>9. CASE ReadEof(x) BY <1>9 DEF ReadEof
<1>10. CASE IoFails(x) BY <1>10 DEF IoFails
<1>11. CASE TimesOut(x) BY <1>11 DEF TimesOut
<1>12. CASE ShutdownWriteEnter(x) BY <1>12 DEF ShutdownWriteEnter, SendOps
<1>13. CASE ShutdownWriteMark(x) BY <1>13 DEF ShutdownWriteMark, SendOps
<1>14. CASE ShutdownDone(x) BY <1>14 DEF ShutdownDone
<1>15. CASE ShutdownFails(x) BY <1>15 DEF ShutdownFails
<1>16. CASE ShutdownRead(x) BY <1>16 DEF ShutdownRead, SendOps
<1>17. CASE ShutdownReadWake(x) BY <1>17 DEF ShutdownReadWake, SendOps
<1>18. CASE PauseCheck(x) BY <1>18 DEF PauseCheck, SendOps
<1>19. CASE PauseStore(x) BY <1>19 DEF PauseStore, SendOps
<1>20. CASE Swap(x) BY <1>20 DEF Swap
<1>21. CASE Flags(x) BY <1>21 DEF Flags
<1>22. CASE CancelTokens(x) BY <1>22 DEF CancelTokens
<1>23. CASE TakeStream(x) BY <1>23 DEF TakeStream
<1>24. CASE DropFuture(x) BY <1>24 DEF DropFuture
<1> QED BY <1>1, <1>2, <1>3, <1>4, <1>5, <1>6, <1>7, <1>8, <1>9, <1>10, <1>11, <1>12, <1>13,
           <1>14, <1>15, <1>16, <1>17, <1>18, <1>19, <1>20, <1>21, <1>22, <1>23, <1>24
           DEF CallAction, Run

\* A step keeps the outcomes of its call honest.
LEMMA StepOutcome ==
    ASSUME IInv, [Next]_vars, NEW x \in Calls, CallAction(x), OutcomeOK(x)
    PROVE  OutcomeOK(x)'
<1>0. TypeOK /\ PlaceOK(x) /\ Monotone BY NeverReset DEF IInv, LocalOK
<1>1. op' = op BY <1>0, CallMoves
<1>2. Motives(x) /\ Outcomes(x) BY <1>0, StepMotives, StepOutcomes
<1>3. op[x] = "close" => pc'[x] \in {"new", "swap"} \/ closed'
      BY <1>0, <1>2 DEF OutcomeOK, Motives, Outcomes, Monotone
<1>4. op[x] = "shutdown_write" =>
          \/ pc'[x] \in {"entry", "gate", "recheck"}
          \/ closed' \/ write_shutdown' \/ result'[x] = "dropped"
  <2>1. CASE pc[x] \in {"entry", "gate", "recheck"} BY <1>0, <1>2, <2>1 DEF Outcomes, Monotone
  <2>2. CASE pc[x] \notin {"entry", "gate", "recheck"}
        BY <1>0, <1>2, <2>2 DEF OutcomeOK, PlaceOK, Motives, Monotone
  <2> QED BY <2>1, <2>2
<1> QED BY <1>1, <1>2, <1>3, <1>4 DEF OutcomeOK, Outcomes

\* So does a call that begins, and it leaves everything else alone.
LEMMA BeginOutcome ==
    ASSUME IInv, NEW x \in Calls, BeginEmpty(x) \/ Begin(x)
    PROVE  /\ OutcomeOK(x)' /\ \A y \in Calls \ {x} : Untouched(y)
           /\ UNCHANGED <<closed, write_shutdown, written, peerGone>>
           /\ pc[x] = "new" /\ written[x] = 0 /\ result[x] = "none"
           /\ pc'[x] \in {"entry", "swap", "done"}
           /\ pc'[x] = "swap" => op'[x] = "close"
           /\ result'[x] # "dropped" /\ op'[x] \in Ops[x]
<1>0. TypeOK /\ LocalOK(x) /\ pc[x] = "new" BY DEF IInv, BeginEmpty, Begin
<1>1. written[x] = 0 /\ result[x] = "none" BY <1>0 DEF LocalOK, PlaceOK, WrittenOK
<1>2. UNCHANGED <<closed, write_shutdown, written, peerGone>>
      BY DEF BeginEmpty, Begin, flagVars, inVars
<1>3. pc'[x] \in {"entry", "swap", "done"} /\ \A y \in Calls \ {x} : Untouched(y) BY BeginLocal
<1>4. CASE BeginEmpty(x)
  <2>1. /\ pc'[x] = "done" /\ op'[x] \in Ops[x] \cap (ReadOps \cup SendOps)
        /\ result'[x] = IF op'[x] \in ReadOps THEN "data" ELSE "ok"
        BY <1>0, <1>4 DEF BeginEmpty, Goto, TypeOK
  <2> QED BY <1>0, <1>1, <1>2, <1>3, <2>1 DEF OutcomeOK, ReadOps, SendOps
<1>5. CASE Begin(x)
  <2>1. /\ op'[x] \in Ops[x] /\ result'[x] = "none"
        /\ pc'[x] = IF op'[x] = "close" THEN "swap" ELSE "entry"
        BY <1>0, <1>1, <1>5 DEF Begin, Goto, TypeOK
  <2> QED BY <1>0, <1>1, <1>2, <1>3, <2>1 DEF OutcomeOK
<1> QED BY <1>4, <1>5

\* The outcomes stay honest for every call.
LEMMA OutcomesKept ==
    ASSUME IInv, [Next]_vars, \A x \in Calls : OutcomeOK(x)
    PROVE  \A x \in Calls : OutcomeOK(x)'
<1>0. TypeOK /\ Monotone BY NeverReset DEF IInv
<1>1. ASSUME NEW y \in Calls, Untouched(y) PROVE OutcomeOK(y)'
      BY <1>0, <1>1 DEF OutcomeOK, Untouched, Monotone
<1>2. ASSUME NEW x \in Calls, CallAction(x), NEW y \in Calls PROVE OutcomeOK(y)'
      BY <1>0, <1>1, <1>2, StepOutcome, OthersUntouched
<1>3. ASSUME NEW x \in Calls, BeginEmpty(x) \/ Begin(x), NEW y \in Calls PROVE OutcomeOK(y)'
      BY <1>1, <1>3, BeginOutcome
<1>4. ASSUME Peer \/ UNCHANGED vars, NEW y \in Calls PROVE OutcomeOK(y)'
  <2>1. Untouched(y) BY <1>4, PeerKeeps DEF Untouched, gateVars, callVars
  <2> QED BY <1>1, <2>1
<1> QED BY <1>2, <1>3, <1>4 DEF Next, CallAction

-----------------------------------------------------------------------------
(* The parts of PyInv.                                                     *)

PyOK(c) == GuardOK(c) /\ SlotOK(c) /\ HalfOK(c)

\* Once split, a connection is closed only because the peer is gone.
LEMMA CloseCause ==
    ASSUME IInv, PyInv, NEW x \in Calls, CallAction(x), closed' # closed, slot = "consumed"
    PROVE  peerGone
<1>1. Motives(x) BY StepMotives DEF IInv
<1>2. pc[x] = "swap" BY <1>1 DEF Motives
<1>3. PICK c \in PyCalls : x = c \/ x = Task(c) BY Owners
<1>4. GuardOK(c) /\ SlotOK(c) /\ PyTypeOK BY DEF PyInv
<1>5. via[c] # "none" BY <1>2, <1>3, <1>4 DEF GuardOK
<1>6. via[c] # "wrapper" BY <1>2, <1>3, <1>4 DEF SlotOK, InProgressPy, InProgress
<1>7. via[c] = "half" BY <1>4, <1>5, <1>6 DEF PyTypeOK
<1> QED BY <1>2, <1>3, <1>4, <1>7 DEF SlotOK

\* A Python call and its cleanup that a step leaves alone stay in order.
Still(c) ==
    /\ Untouched(c) /\ Untouched(Task(c))
    /\ via'[c] = via[c] /\ (c \in armed' <=> c \in armed)

LEMMA StillKeeps ==
    ASSUME NEW c \in PyCalls, PyOK(c), Still(c),
           slot' = slot \/ (slot = "plain" /\ c \notin Holders),
           peerGone => peerGone',
           closed' # closed /\ via[c] = "half" => peerGone
    PROVE  PyOK(c)'
<1> USE DEF PyOK, Still, Untouched
<1>1. GuardOK(c)' BY DEF GuardOK, Cleanup
<1>2. SlotOK(c)'
  <2>1. InProgressPy(c)' <=> InProgressPy(c) BY DEF InProgressPy, InProgress
  <2>2. via[c] = "wrapper" /\ slot' # "plain" => ~InProgressPy(c) BY DEF SlotOK, Holders
  <2>3. via[c] = "half" => slot = "consumed" /\ slot' = slot BY DEF SlotOK
  <2> QED BY <2>1, <2>2, <2>3 DEF SlotOK
<1>3. HalfOK(c)' BY DEF HalfOK
<1> QED BY <1>1, <1>2, <1>3

\* A step of a call, of its cleanup, or the drop of its task.
LEMMA MoveKeeps ==
    ASSUME IInv, PyInv, UNCHANGED pyVars, NEW c \in PyCalls,
           NEW x \in {c, Task(c)}, CallAction(x), x = c \/ Run(x)
    PROVE  \A d \in PyCalls : PyOK(d)'
<1>0. /\ x \in Calls /\ c \in Calls /\ Task(c) \in Calls /\ Task(c) # c /\ TypeOK /\ PyOK(c)
      /\ LocalOK(c)
      BY Owners DEF IInv, PyInv, PyOK
<1>1. Motives(x) /\ op' = op BY <1>0, StepMotives, CallMoves
<1>2. UNCHANGED <<slot, via, armed>> BY DEF pyVars
<1>3. \A y \in Calls \ {x} : Untouched(y) BY <1>0, OthersUntouched
<1>4. closed' # closed /\ slot = "consumed" => peerGone BY <1>0, CloseCause
<1>5. ASSUME NEW d \in PyCalls, d # c PROVE PyOK(d)'
  <2>1. d \in Calls \ {x} /\ Task(d) \in Calls \ {x} BY <1>5, Owners
  <2>2. PyOK(d) /\ Still(d) BY <1>2, <1>3, <2>1 DEF PyInv, PyOK, Still
  <2> QED BY <1>1, <1>2, <1>4, <2>2, StillKeeps DEF Motives, PyOK, SlotOK
<1>6. CASE x = c
  <2>1. /\ pc[c] \notin {"new", "done"} /\ pc'[c] # "new"
        /\ pc'[c] = "swap" => peerGone \/ op[c] = "send_timeout"
        /\ op[c] = "send" /\ pc[c] = "entry" => pc'[c] = "done" \/ ~closed'
        /\ written'[c] # written[c] => pc[c] = "io"
        /\ peerGone' = peerGone
        BY <1>1, <1>6 DEF Motives
  <2>2. Untouched(Task(c)) BY <1>0, <1>3, <1>6
  <2>3. via[c] # "none" /\ pc[Task(c)] = "new" /\ (op[c] \in GuardedOps => c \in armed)
        BY <1>0, <2>1 DEF PyOK, GuardOK
  <2>4. GuardOK(c)'
        BY <1>0, <1>1, <1>2, <2>1, <2>2, <2>3 DEF PyOK, GuardOK, Untouched
  <2>5. SlotOK(c)'
    <3>1. ~(via[c] = "wrapper" /\ slot # "plain")
          BY <1>0, <2>1 DEF PyOK, SlotOK, InProgressPy, InProgress
    <3>2. op[c] \in HalfOps => op[c] # "send_timeout" BY DEF HalfOps
    <3> QED BY <1>0, <1>1, <1>2, <2>1, <2>2, <2>3, <3>1, <3>2 DEF PyOK, SlotOK, Untouched
  <2>6. HalfOK(c)'
    <3>1. SUFFICES ASSUME via[c] = "half", op[c] = "send", closed',
                          pc'[c] \notin {"entry", "done"} \/ written'[c] > 0
                   PROVE  peerGone
          BY <1>1, <1>2, <2>1 DEF HalfOK
    <3>2. CASE closed' # closed BY <1>0, <1>4, <3>1, <3>2 DEF PyOK, SlotOK
    <3>3. CASE closed' = closed /\ pc[c] = "entry"
      <4>1. pc'[c] = "done" /\ written'[c] = 0 BY <1>0, <2>1, <3>1, <3>3 DEF LocalOK, WrittenOK
      <4> QED BY <3>1, <4>1
    <3>4. CASE closed' = closed /\ pc[c] # "entry"
          BY <1>0, <2>1, <3>1, <3>4 DEF PyOK, HalfOK
    <3> QED BY <3>2, <3>3, <3>4
  <2> QED BY <1>5, <2>4, <2>5, <2>6 DEF PyOK
<1>7. CASE x = Task(c)
  <2>1. /\ pc[Task(c)] \notin {"new", "done"} /\ pc'[Task(c)] # "new"
        /\ pc'[Task(c)] = "swap" => peerGone \/ op[Task(c)] = "send_timeout"
        /\ peerGone' = peerGone
        BY <1>1, <1>7 DEF Motives
  <2>2. Untouched(c) BY <1>0, <1>3, <1>7
  <2>3. result'[Task(c)] # "dropped" BY <1>0, <1>7, RunNotDropped DEF PyOK, GuardOK
  <2>4. GuardOK(c)'
        BY <1>0, <1>1, <1>2, <2>1, <2>2, <2>3 DEF PyOK, GuardOK, Untouched, Cleanup
  <2>5. SlotOK(c)'
    <3>1. ~(via[c] = "wrapper" /\ slot # "plain")
          BY <1>0, <2>1 DEF PyOK, SlotOK, InProgressPy, InProgress
    <3>2. op[Task(c)] # "send_timeout" BY <1>0, <2>1 DEF PyOK, GuardOK, Cleanup
    <3> QED BY <1>0, <1>1, <1>2, <2>1, <2>2, <3>1, <3>2 DEF PyOK, SlotOK, Untouched
  <2>6. HalfOK(c)' BY <1>0, <1>1, <1>2, <1>4, <2>1, <2>2 DEF PyOK, HalfOK, SlotOK, Untouched
  <2> QED BY <1>5, <2>4, <2>5, <2>6 DEF PyOK
<1> QED BY <1>5, <1>6, <1>7

\* A call from Python.
LEMMA CallKeeps ==
    ASSUME IInv, PyInv, NEW c \in PyCalls, PyCall(c)
    PROVE  \A d \in PyCalls : PyOK(d)'
<1>0. /\ c \in Calls /\ Task(c) \in Calls /\ Task(c) # c /\ PyOK(c) /\ PlaceOK(c) /\ PyTypeOK
      BY Owners DEF IInv, PyInv, PyOK, LocalOK
<1>1. BeginEmpty(c) \/ Begin(c) BY DEF PyCall
<1>2. /\ \A y \in Calls \ {c} : Untouched(y)
      /\ UNCHANGED <<closed, written, peerGone>> /\ pc[c] = "new" /\ written[c] = 0
      /\ pc'[c] \in {"entry", "swap", "done"} /\ (pc'[c] = "swap" => op'[c] = "close")
      BY <1>0, <1>1, BeginOutcome
<1>3. /\ slot' = slot /\ armed' = armed \cup {d \in {c} : op'[d] \in GuardedOps}
      /\ \/ slot = "plain" /\ via' = [via EXCEPT ![c] = "wrapper"]
         \/ slot = "consumed" /\ op'[c] \in HalfOps /\ via' = [via EXCEPT ![c] = "half"]
      BY DEF PyCall
<1>4. ASSUME NEW d \in PyCalls, d # c PROVE PyOK(d)'
  <2>1. d \in Calls \ {c} /\ Task(d) \in Calls \ {c} BY <1>4, Owners
  <2>2. PyOK(d) /\ Still(d) BY <1>0, <1>2, <1>3, <1>4, <2>1 DEF PyInv, PyOK, Still, PyTypeOK
  <2> QED BY <1>2, <1>3, <2>2, StillKeeps
<1>5. pc[Task(c)] = "new" /\ c \notin armed /\ Untouched(Task(c)) /\ result[Task(c)] # "dropped"
  <2>1. op[c] = "none" BY <1>0, <1>2 DEF PlaceOK
  <2> QED BY <1>0, <1>2, <2>1 DEF PyOK, GuardOK, GuardedOps, SendOps
<1>6. /\ via'[c] \in {"wrapper", "half"} /\ (c \in armed' <=> op'[c] \in GuardedOps)
      /\ via'[c] = "wrapper" => slot' = "plain"
      /\ via'[c] = "half" => slot' = "consumed" /\ op'[c] \in HalfOps
      BY <1>0, <1>3, <1>5 DEF PyTypeOK
<1>7. GuardOK(c)' BY <1>2, <1>5, <1>6 DEF GuardOK, Untouched
<1>8. SlotOK(c)' BY <1>2, <1>5, <1>6 DEF SlotOK, HalfOps, Untouched
<1>9. HalfOK(c)' BY <1>2, <1>6 DEF HalfOK
<1> QED BY <1>4, <1>7, <1>8, <1>9 DEF PyOK

\* The end of a guard.
LEMMA GuardKeeps ==
    ASSUME IInv, PyInv, NEW c \in PyCalls, EndGuarded(c)
    PROVE  \A d \in PyCalls : PyOK(d)'
<1>0. /\ c \in Calls /\ Task(c) \in Calls /\ Task(c) # c /\ PyOK(c) /\ PyTypeOK
      BY Owners DEF IInv, PyInv, PyOK
<1>1. /\ c \in armed /\ pc[c] = "done" /\ armed' = armed \ {c} /\ UNCHANGED <<slot, via>>
      /\ \/ result[c] = "ok" /\ UNCHANGED vars
         \/ result[c] # "ok" /\ Begin(Task(c)) /\ op'[Task(c)] = Cleanup(c)
      BY DEF EndGuarded
<1>2. /\ op[c] \in GuardedOps /\ pc[Task(c)] = "new" /\ via[c] # "none"
      /\ result[Task(c)] # "dropped" /\ ~(via[c] = "wrapper" /\ slot # "plain")
      BY <1>0, <1>1 DEF PyOK, GuardOK, SlotOK, InProgressPy
<1>3. /\ \A y \in Calls \ {Task(c)} : Untouched(y)
      /\ UNCHANGED <<closed, written, peerGone>>
  <2>1. CASE UNCHANGED vars
        BY <2>1 DEF vars, flagVars, gateVars, callVars, inVars, Untouched
  <2>2. CASE Begin(Task(c)) BY <1>0, <2>2, BeginOutcome
  <2> QED BY <1>1, <2>1, <2>2
<1>4. ASSUME NEW d \in PyCalls, d # c PROVE PyOK(d)'
  <2>1. d \in Calls \ {Task(c)} /\ Task(d) \in Calls \ {Task(c)} BY <1>4, Owners
  <2>2. PyOK(d) /\ Still(d) BY <1>1, <1>3, <1>4, <2>1 DEF PyInv, PyOK, Still
  <2> QED BY <1>1, <1>3, <2>2, StillKeeps
<1>5. Untouched(c) /\ c \notin armed' BY <1>0, <1>1, <1>3
<1>6. CASE result[c] = "ok" /\ UNCHANGED vars
  <2>1. Untouched(Task(c)) BY <1>6 DEF vars, gateVars, callVars, Untouched
  <2>2. GuardOK(c)' BY <1>1, <1>2, <1>5, <1>6, <2>1 DEF GuardOK, Untouched
  <2>3. SlotOK(c)' BY <1>0, <1>1, <1>2, <1>3, <1>5, <2>1 DEF PyOK, SlotOK, Untouched
  <2>4. HalfOK(c)' BY <1>0, <1>1, <1>3, <1>5 DEF PyOK, HalfOK, Untouched
  <2> QED BY <1>4, <2>2, <2>3, <2>4 DEF PyOK
<1>7. CASE Begin(Task(c)) /\ op'[Task(c)] = Cleanup(c)
  <2>1. /\ pc'[Task(c)] \in {"entry", "swap", "done"} /\ result'[Task(c)] # "dropped"
        /\ pc'[Task(c)] = "swap" => op'[Task(c)] = "close"
        BY <1>0, <1>7, BeginOutcome
  <2>2. GuardOK(c)' BY <1>1, <1>2, <1>5, <1>7, <2>1 DEF GuardOK, Untouched, Cleanup
  <2>3. SlotOK(c)'
        BY <1>0, <1>1, <1>2, <1>3, <1>5, <1>7, <2>1 DEF PyOK, SlotOK, Untouched, Cleanup
  <2>4. HalfOK(c)' BY <1>0, <1>1, <1>3, <1>5 DEF PyOK, HalfOK, Untouched
  <2> QED BY <1>4, <2>2, <2>3, <2>4 DEF PyOK
<1> QED BY <1>1, <1>6, <1>7

\* Steps that move no call: of the peer, of the slot, of a future alone.
LEMMA QuietKeeps ==
    ASSUME PyInv, Peer \/ UNCHANGED vars, UNCHANGED <<via, armed>>,
           slot' = slot \/ (slot = "plain" /\ Holders = {})
    PROVE  \A d \in PyCalls : PyOK(d)'
<1>1. UNCHANGED <<closed, callVars, gateVars>> BY PeerKeeps DEF flagVars
<1>2. peerGone => peerGone'
      BY DEF Peer, PeerSend, PeerShutdown, PeerRead, PeerClose, vars, inVars
<1>3. ASSUME NEW d \in PyCalls PROVE PyOK(d)'
  <2>1. PyOK(d) /\ Still(d) BY <1>1 DEF PyInv, PyOK, Still, Untouched, callVars, gateVars
  <2> QED BY <1>1, <1>2, <2>1, StillKeeps
<1> QED BY <1>3

\* The binding's own variables keep their types.
LEMMA PyTypeStep ==
    ASSUME PyInv, [PyNext]_allVars
    PROVE  PyTypeOK'
<1>0. PyTypeOK BY DEF PyInv
<1>1. ASSUME UNCHANGED pyVars PROVE PyTypeOK' BY <1>0, <1>1 DEF pyVars, PyTypeOK
<1>2. ASSUME NEW c \in PyCalls, PyCall(c) PROVE PyTypeOK' BY <1>0, <1>2 DEF PyCall, PyTypeOK
<1>3. ASSUME NEW c \in PyCalls, PyCancel(c) \/ Deliver(c) PROVE PyTypeOK'
      BY <1>0, <1>3 DEF PyCancel, Deliver, PyTypeOK
<1>4. ASSUME NEW c \in PyCalls, EndGuarded(c) PROVE PyTypeOK'
      BY <1>0, <1>4 DEF EndGuarded, PyTypeOK
<1>5. CASE IntoSplit \/ BeginSecure
      BY <1>0, <1>5 DEF IntoSplit, BeginSecure, TakePlain, PyTypeOK
<1> QED BY <1>1, <1>2, <1>3, <1>4, <1>5 DEF PyNext, PyRun, DropTask, allVars

LEMMA PyStep == IInv /\ PyInv /\ [PyNext]_allVars => PyInv'
<1> SUFFICES ASSUME IInv, PyInv, [PyNext]_allVars PROVE PyInv' OBVIOUS
<1>1. \A x \in Calls : OutcomeOK(x)' BY CoreStep, OutcomesKept DEF PyInv
<1>2. \A d \in PyCalls : PyOK(d)'
  <2> DEFINE Goal == \A d \in PyCalls : PyOK(d)'
  <2>1. ASSUME NEW c \in PyCalls, PyCall(c) PROVE Goal BY <2>1, CallKeeps
  <2>2. ASSUME NEW c \in PyCalls, PyCancel(c) \/ Deliver(c) PROVE Goal
        BY <2>2, QuietKeeps DEF PyCancel, Deliver
  <2>3. ASSUME NEW c \in PyCalls, PyRun(c) \/ (TimesOut(c) /\ UNCHANGED pyVars) PROVE Goal
    <3>1. CASE (Run(c) \/ TimesOut(c) \/ DropFuture(c)) /\ UNCHANGED pyVars
          BY <3>1, MoveKeeps DEF CallAction
    <3>2. CASE Run(Task(c)) /\ UNCHANGED pyVars BY <3>2, MoveKeeps DEF CallAction
    <3>3. CASE EndGuarded(c) BY <3>3, GuardKeeps
    <3> QED BY <2>3, <3>1, <3>2, <3>3 DEF PyRun, DropTask
  <2>4. CASE Peer /\ UNCHANGED pyVars BY <2>4, QuietKeeps DEF pyVars
  <2>5. CASE IntoSplit \/ BeginSecure
        BY <2>5, QuietKeeps DEF IntoSplit, BeginSecure, TakePlain
  <2>6. CASE UNCHANGED allVars BY <2>6, QuietKeeps DEF allVars, pyVars
  <2> QED BY <2>1, <2>2, <2>3, <2>4, <2>5, <2>6 DEF PyNext
<1> QED BY <1>1, <1>2, PyTypeStep DEF PyInv, PyOK

LEMMA PyInitInv == PyInit => PyInv
<1> SUFFICES ASSUME PyInit PROVE PyInv OBVIOUS
<1>1. \A x \in Calls : pc[x] = "new" /\ op[x] = "none" /\ result[x] = "none"
      BY DEF PyInit, Init
<1>2. PyTypeOK BY DEF PyInit, PyTypeOK
<1>3. \A x \in Calls : OutcomeOK(x) BY <1>1 DEF OutcomeOK, SendOps
<1>4. ASSUME NEW c \in PyCalls PROVE GuardOK(c) /\ SlotOK(c) /\ HalfOK(c)
  <2>1. /\ pc[c] = "new" /\ op[c] = "none" /\ pc[Task(c)] = "new" /\ result[Task(c)] = "none"
        /\ via[c] = "none" /\ c \notin armed
        BY <1>1, Owners DEF PyInit
  <2> QED BY <2>1 DEF GuardOK, SlotOK, HalfOK, GuardedOps, SendOps
<1> QED BY <1>2, <1>3, <1>4 DEF PyInv

-----------------------------------------------------------------------------
(* The theorems.                                                           *)

\* In every behaviour of the binding both invariants hold.
THEOREM PyInvariance == PySpec => [](IInv /\ PyInv)
<1>1. PySpec => []IInv BY BindingImplements, Invariance, PTL
<1> QED BY <1>1, PyInitInv, PyStep, PTL DEF PySpec

\* A send that stopped after a prefix, cancelled or failed, leaves the
\* direction shut once its cleanup is through, and the connection closed
\* unless it was split.
THEOREM TornSendsSealed == PySpec => []TornSendSealed
<1>1. ASSUME IInv, PyInv PROVE TornSendSealed
  <2> SUFFICES ASSUME NEW c \in PyCalls, Settled(c), op[c] \in SendOps, result[c] # "ok", OnWire(c)
               PROVE  closed \/ (via[c] = "half" /\ write_shutdown)
      BY DEF TornSendSealed
  <2>1. c \in Calls /\ Task(c) \in Calls /\ GuardOK(c) /\ OutcomeOK(Task(c)) /\ PyTypeOK
        BY <1>1, Owners DEF PyInv
  <2>2. pc[c] = "done" /\ c \notin armed /\ pc[Task(c)] \in {"new", "done"}
        BY DEF Settled, InProgressPy, InProgress
  <2>3. pc[Task(c)] = "done" /\ op[Task(c)] = Cleanup(c) /\ result[Task(c)] # "dropped"
        BY <2>1, <2>2 DEF GuardOK, GuardedOps
  <2>4. via[c] \in {"wrapper", "half"} BY <2>1, <2>2 DEF GuardOK, PyTypeOK
  <2>5. CASE via[c] = "wrapper" BY <2>1, <2>3, <2>5 DEF OutcomeOK, Cleanup
  <2>6. CASE via[c] = "half" BY <2>1, <2>3, <2>6 DEF OutcomeOK, Cleanup
  <2> QED BY <2>4, <2>5, <2>6
<1> QED BY <1>1, PyInvariance, PTL

\* A send of the WriteHalf that has begun to write is cut short only by its
\* own cancellation or because the peer is gone.
THEOREM HalfSendsAreWhole == PySpec => []HalfSendsWhole
<1>1. ASSUME IInv, PyInv PROVE HalfSendsWhole
  <2> SUFFICES ASSUME NEW c \in PyCalls, via[c] = "half", op[c] = "send", pc[c] = "done", OnWire(c),
                      result[c] \notin {"ok", "dropped"}
               PROVE  peerGone
      BY DEF HalfSendsWhole
  <2>1. c \in Calls /\ HalfOK(c) /\ OutcomeOK(c) BY <1>1, Owners DEF PyInv
  <2>2. result[c] \in Errors BY <2>1 DEF OutcomeOK, SendOps
  <2>3. written[c] # 0 /\ written[c] \in 0 .. MaxLen BY <1>1, <2>1 DEF IInv, WireOK, TypeOK
  <2>4. written[c] > 0 BY <2>3, ConstantsAssumption
  <2>5. closed BY <1>1, <2>1, <2>2, <2>4 DEF IInv, LocalOK, WrittenOK
  <2> QED BY <2>1, <2>4, <2>5 DEF HalfOK
<1> QED BY <1>1, PyInvariance, PTL

\* After into_split nothing but a failed transport closes the connection: no
\* late cleanup of the wrapper, and no cancelled send of a half, does.
THEOREM SplitIsSafe == PySpec => SplitOutlivesWriter
<1> DEFINE Safe == slot = "consumed" /\ ~closed /\ closed' => peerGone
<1>1. ASSUME IInv, PyInv, [PyNext]_allVars PROVE Safe
  <2>0. TypeOK BY <1>1 DEF IInv
  <2>1. ASSUME NEW x \in Calls, CallAction(x) PROVE Safe BY <1>1, <2>1, CloseCause
  <2>2. ASSUME NEW x \in Calls, BeginEmpty(x) \/ Begin(x) PROVE Safe BY <1>1, <2>2, BeginOutcome
  <2>3. CASE Peer \/ UNCHANGED vars BY <2>3, PeerKeeps DEF flagVars
  <2>4. [Next]_vars BY <1>1, CoreStep
  <2> QED BY <2>1, <2>2, <2>3, <2>4 DEF Next, CallAction
<1>2. IInv /\ PyInv /\ [PyNext]_allVars => [Safe]_allVars BY <1>1
<1> QED BY <1>2, PyInvariance, PTL DEF PySpec, SplitOutlivesWriter

\* The upgrade owns the connection it was given: no plain call and no cleanup
\* is left that could read, write or close it.
THEOREM UpgradeIsExclusive == PySpec => UpgradeOwnsConnection
<1> DEFINE Owned == slot = "upgrading" =>
                       /\ UNCHANGED <<flagVars, coreVars, gateVars, wire, fin>>
                       /\ inbound' >= inbound
<1>1. ASSUME IInv, PyInv, [PyNext]_allVars, slot = "upgrading"
      PROVE  UNCHANGED <<flagVars, coreVars, gateVars, wire, fin>> /\ inbound' >= inbound
  <2>1. ASSUME NEW c \in PyCalls PROVE ~InProgressPy(c)
    <3>1. GuardOK(c) /\ SlotOK(c) /\ PyTypeOK BY <1>1 DEF PyInv
    <3>2. via[c] # "half" BY <1>1, <3>1 DEF SlotOK
    <3>3. CASE via[c] = "none"
      <4>1. pc[c] = "new" /\ op[c] = "none"
            BY <1>1, <3>1, <3>3, Owners DEF GuardOK, IInv, LocalOK, PlaceOK
      <4>2. c \notin armed BY <3>1, <4>1 DEF GuardOK, GuardedOps, SendOps
      <4> QED BY <3>1, <4>1, <4>2 DEF GuardOK, InProgressPy, InProgress
    <3>4. CASE via[c] = "wrapper" BY <1>1, <3>1, <3>4 DEF SlotOK
    <3> QED BY <3>1, <3>2, <3>3, <3>4 DEF PyTypeOK
  <2>2. ASSUME NEW x \in Calls PROVE ~CallAction(x)
    <3>1. PICK c \in PyCalls : x = c \/ x = Task(c) BY Owners
    <3>2. pc[x] \in {"new", "done"} BY <2>1, <3>1 DEF InProgressPy, InProgress
    <3> QED BY <1>1, <3>2, StepMotives DEF Motives, IInv
  <2>3. \/ Peer \/ UNCHANGED vars
    <3>1. ASSUME NEW c \in PyCalls
          PROVE  ~PyCall(c) /\ ~EndGuarded(c) /\ ~Run(c) /\ ~Run(Task(c)) /\ ~TimesOut(c)
                 /\ ~DropFuture(c)
          BY <1>1, <2>1, <2>2, Owners DEF PyCall, EndGuarded, InProgressPy, CallAction
    <3> QED BY <1>1, <3>1 DEF PyNext, PyRun, DropTask, PyCancel, Deliver, IntoSplit,
                              BeginSecure, TakePlain, allVars
  <2>4. inbound' >= inbound
    <3>1. inbound \in Nat BY <1>1 DEF IInv, TypeOK
    <3> QED BY <2>3, <3>1 DEF Peer, PeerSend, PeerShutdown, PeerRead, PeerClose, vars, inVars
  <2> QED BY <2>3, <2>4, PeerKeeps
<1>2. IInv /\ PyInv /\ [PyNext]_allVars => [Owned]_allVars BY <1>1
<1> QED BY <1>2, PyInvariance, PTL DEF PySpec, UpgradeOwnsConnection
=============================================================================
