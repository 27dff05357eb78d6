---------------------------- MODULE ServerProofs ----------------------------
(***************************************************************************)
(* Proofs about Server, for any set of calls and any backlog.              *)
(***************************************************************************)
EXTENDS Server, TLAPS

-----------------------------------------------------------------------------
(* The inductive invariant.  The flag of the swap and the release of the   *)
(* listener are separate steps, so NoLateAccept and StoppedReleases are    *)
(* not inductive as they stand: a call's place must tell what it is doing  *)
(* and what has been done before it got there.                             *)

\* Which operation can be where, and nothing is returned early.
PlaceOK(c) ==
    /\ pc[c] = "new" => op[c] = "none"
    /\ pc[c] \in {"listener", "wait"} => op[c] \in AcceptOps
    /\ pc[c] = "mark" => op[c] \in {"pause", "resume"}
    /\ pc[c] \in {"swap", "clear", "again", "cancel", "take"} => op[c] = "stop"
    /\ pc[c] # "done" => result[c] = "none"

\* The stop() that won the swap, on its way to the token and the listener.
Winner(c) == pc[c] \in {"clear", "cancel", "take"}

\* What a call past the swap, or past the token, finds done.
StopOK(c) ==
    /\ Winner(c) \/ pc[c] = "again" => stopped
    /\ op[c] = "stop" /\ pc[c] = "done" => stopped
    /\ pc[c] = "take" => stop_token

\* A late call finds the server stopped, so it never gets to await a client.
LateOK(c) == c \in late => stopped /\ pc[c] # "wait" /\
                           (op[c] \in AcceptOps => result[c] # "ok")

LocalOK(c) == PlaceOK(c) /\ StopOK(c) /\ LateOK(c)

\* One stop() wins, and until it is through the listener is not released.
OneWinner == \A c, d \in Calls : Winner(c) /\ Winner(d) => c = d

\* A stopped server has a winner under way, or everything is released.
Released == stopped => (\E c \in Calls : Winner(c)) \/ (stop_token /\ ~inner)

IInv ==
    /\ TypeOK
    /\ \A c \in Calls : LocalOK(c)
    /\ OneWinner /\ Released

-----------------------------------------------------------------------------
(* Steps of a call.                                                        *)

\* A step of a call already begun.
CallAction(c) == Run(c) \/ AcceptFails(c) \/ TimesOut(c) \/ DropFuture(c)

\* What a step of call c leaves alone: every other call, what it was called
\* for, which calls are late, and that the server is stopped and interrupted.
Frame(c) ==
    /\ \A d \in Calls \ {c} : pc'[d] = pc[d] /\ op'[d] = op[d] /\ result'[d] = result[d]
    /\ late' \ {c} = late \ {c}
    /\ stopped => stopped'
    /\ stop_token => stop_token'
    /\ inner' => inner

\* LocalOK of the other calls is preserved by any step that frames them.
LEMMA FrameKeeps ==
    ASSUME NEW c \in Calls, Frame(c), NEW d \in Calls, d # c, LocalOK(d)
    PROVE  LocalOK(d)'
<1>1. pc'[d] = pc[d] /\ op'[d] = op[d] /\ result'[d] = result[d]
      BY DEF Frame
<1>2. d \in late' <=> d \in late BY DEF Frame
<1>3. (stopped => stopped') /\ (stop_token => stop_token') BY DEF Frame
<1>4. PlaceOK(d)' BY <1>1 DEF LocalOK, PlaceOK
<1>5. StopOK(d)' BY <1>1, <1>3 DEF LocalOK, StopOK, Winner
<1>6. LateOK(d)' BY <1>1, <1>2, <1>3 DEF LocalOK, LateOK
<1> QED BY <1>4, <1>5, <1>6 DEF LocalOK

\* Where a call is after Goto and after Return.
LEMMA Moved ==
    ASSUME TypeOK, NEW c \in Calls
    PROVE  /\ \A p \in Places : Goto(c, p) =>
                 /\ pc' \in [Calls -> Places] /\ result' = result /\ pc'[c] = p
                 /\ \A d \in Calls \ {c} : pc'[d] = pc[d]
           /\ \A r \in Results : Return(c, r) =>
                 /\ pc' \in [Calls -> Places] /\ result' \in [Calls -> Results]
                 /\ pc'[c] = "done" /\ result'[c] = r
                 /\ \A d \in Calls \ {c} : pc'[d] = pc[d] /\ result'[d] = result[d]
BY DEF TypeOK, Goto, Return, Places, Results

\* What a step of a call re-establishes: types, its own part of the
\* invariant, and who may become or cease to be the winner.
StepOK(c) ==
    /\ TypeOK' /\ Frame(c) /\ LocalOK(c)'
    /\ Winner(c)' /\ ~Winner(c) => ~stopped
    /\ Winner(c) /\ ~Winner(c)' => (stop_token /\ ~inner)'
    /\ stopped' /\ ~stopped => Winner(c)'

\* Every step of a call already begun does.
LEMMA CallStep ==
    ASSUME IInv, NEW c \in Calls, CallAction(c)
    PROVE  StepOK(c)
<1>0. TypeOK /\ LocalOK(c) BY DEF IInv
<1> USE <1>0, Moved, BacklogAssumption
        DEF TypeOK, StepOK, Frame, LocalOK, PlaceOK, StopOK, LateOK, Winner, serverVars,
            Places, Results, AllOps, AcceptOps
<1>1. CASE AcceptEnter(c) BY <1>1 DEF AcceptEnter
<1>2. CASE CloneListener(c) BY <1>2 DEF CloneListener
<1>3. CASE Accept(c) BY <1>3 DEF Accept
<1>4. CASE Interrupted(c) BY <1>4 DEF Interrupted
<1>5. CASE StopSwap(c) BY <1>5 DEF StopSwap
<1>6. CASE StopClear(c) BY <1>6 DEF StopClear
<1>7. CASE StopCancel(c) BY <1>7 DEF StopCancel
<1>8. CASE StopTake(c) BY <1>8 DEF StopTake
<1>9. CASE PauseCheck(c) BY <1>9 DEF PauseCheck
<1>10. CASE PauseStore(c)
  <2>1. paused' \in BOOLEAN BY <1>10 DEF PauseStore
  <2> QED BY <1>10, <2>1 DEF PauseStore
<1>11. CASE AcceptFails(c) BY <1>11 DEF AcceptFails
<1>12. CASE TimesOut(c) BY <1>12 DEF TimesOut
<1>13. CASE DropFuture(c) BY <1>13 DEF DropFuture
<1> QED BY <1>1, <1>2, <1>3, <1>4, <1>5, <1>6, <1>7, <1>8, <1>9, <1>10, <1>11, <1>12, <1>13
           DEF CallAction, Run

\* Beginning a call does: it is late only if some stop() has returned, and
\* then the server is stopped.
LEMMA BeginStep ==
    ASSUME IInv, NEW c \in Calls, Begin(c)
    PROVE  StepOK(c)
<1>0. TypeOK /\ \A d \in Calls : LocalOK(d) BY DEF IInv
<1>1. PICK o \in AllOps :
        /\ op' = [op EXCEPT ![c] = o]
        /\ Goto(c, IF o = "stop" THEN "swap" ELSE "entry")
      BY DEF Begin
<1>2. /\ pc[c] = "new" /\ UNCHANGED <<serverVars, backlog>>
      /\ late' = late \cup {d \in {c} : \E s \in Calls : op[s] = "stop" /\ pc[s] = "done"}
      BY DEF Begin
<1>3. /\ pc' \in [Calls -> Places] /\ result' = result
      /\ pc'[c] = IF o = "stop" THEN "swap" ELSE "entry"
      /\ \A d \in Calls \ {c} : pc'[d] = pc[d]
      BY <1>0, <1>1, Moved DEF Places
<1>4. /\ op' \in [Calls -> AllOps \cup {"none"}] /\ op'[c] = o
      /\ \A d \in Calls \ {c} : op'[d] = op[d]
      BY <1>0, <1>1 DEF TypeOK
<1>5. late' \in SUBSET Calls /\ late' \ {c} = late \ {c} BY <1>0, <1>2 DEF TypeOK
<1>6. c \in late' => stopped BY <1>0, <1>2 DEF LocalOK, LateOK, StopOK
<1>7. TypeOK' BY <1>0, <1>2, <1>3, <1>4, <1>5 DEF TypeOK, serverVars
<1>8. Frame(c) BY <1>2, <1>3, <1>4, <1>5 DEF Frame, serverVars
<1>9. result[c] = "none" BY <1>0, <1>2 DEF LocalOK, PlaceOK
<1>10. LocalOK(c)'
       BY <1>2, <1>3, <1>4, <1>6, <1>9
          DEF LocalOK, PlaceOK, StopOK, LateOK, Winner, serverVars, AllOps, AcceptOps
<1> QED BY <1>2, <1>3, <1>7, <1>8, <1>10 DEF StepOK, Winner, serverVars

-----------------------------------------------------------------------------
(* The theorems.                                                           *)

\* A step of a call preserves the invariant.
LEMMA StepKeeps ==
    ASSUME IInv, NEW c \in Calls, StepOK(c)
    PROVE  IInv'
<1>1. TypeOK' BY DEF StepOK
<1>2. \A d \in Calls : LocalOK(d)' BY FrameKeeps DEF IInv, StepOK
<1>3. \A d \in Calls \ {c} : Winner(d)' <=> Winner(d) BY DEF StepOK, Frame, Winner
<1>4. OneWinner'
  <2>1. ASSUME Winner(c)', NEW d \in Calls \ {c}, Winner(d)' PROVE FALSE
    <3>1. Winner(d) /\ stopped BY <1>3, <2>1 DEF IInv, LocalOK, StopOK
    <3>2. Winner(c) BY <2>1, <3>1 DEF StepOK
    <3> QED BY <2>1, <3>1, <3>2 DEF IInv, OneWinner
  <2> QED BY <1>3, <2>1 DEF IInv, OneWinner
<1>5. Released'
  <2>1. CASE Winner(c)' BY <2>1 DEF Released
  <2>2. CASE ~Winner(c)' /\ Winner(c) BY <2>2 DEF StepOK, Released
  <2>3. CASE ~Winner(c)' /\ ~Winner(c)
    <3>1. stopped' => stopped BY <2>3 DEF StepOK
    <3>2. stop_token /\ ~inner => (stop_token /\ ~inner)' BY DEF StepOK, Frame
    <3> QED BY <1>3, <2>3, <3>1, <3>2 DEF IInv, Released
  <2> QED BY <2>1, <2>2, <2>3
<1> QED BY <1>1, <1>2, <1>4, <1>5 DEF IInv

\* IInv is an inductive invariant of the server.
THEOREM Invariance == Spec => []IInv
<1>1. Init => IInv
  <2> SUFFICES ASSUME Init PROVE IInv OBVIOUS
  <2>1. backlog \in 0 .. MaxBacklog BY BacklogAssumption DEF Init
  <2>2. TypeOK BY <2>1 DEF Init, TypeOK, Places, Results
  <2>3. \A c \in Calls : LocalOK(c)
        BY DEF Init, LocalOK, PlaceOK, StopOK, LateOK, Winner
  <2>4. OneWinner /\ Released BY DEF Init, OneWinner, Released, Winner
  <2> QED BY <2>2, <2>3, <2>4 DEF IInv
<1>2. IInv /\ [Next]_vars => IInv'
  <2> SUFFICES ASSUME IInv, [Next]_vars PROVE IInv' OBVIOUS
  <2>1. ASSUME NEW c \in Calls, Begin(c) PROVE IInv' BY <2>1, BeginStep, StepKeeps
  <2>2. ASSUME NEW c \in Calls, CallAction(c) PROVE IInv' BY <2>2, CallStep, StepKeeps
  <2>3. CASE ClientConnects
    <3>1. backlog' \in 0 .. MaxBacklog BY <2>3, BacklogAssumption DEF ClientConnects, IInv, TypeOK
    <3> QED BY <2>3, <3>1
            DEF ClientConnects, serverVars, IInv, TypeOK, LocalOK, PlaceOK, StopOK, LateOK,
                OneWinner, Released, Winner
  <2>4. CASE UNCHANGED vars
        BY <2>4 DEF vars, serverVars, IInv, TypeOK, LocalOK, PlaceOK, StopOK, LateOK,
                    OneWinner, Released, Winner
  <2> QED BY <2>1, <2>2, <2>3, <2>4 DEF Next, CallAction
<1> QED BY <1>1, <1>2, PTL DEF Spec

\* Every variable keeps its type: the atomics of ServerState, the calls, and a
\* backlog that accept never takes below zero.
THEOREM TypeCorrect == Spec => []TypeOK
<1>1. IInv => TypeOK BY DEF IInv
<1> QED BY <1>1, Invariance, PTL

\* No accept called after some stop() returned yields a connection, however
\* many stops race and wherever the winner of the swap is (accept, listener).
THEOREM LateAcceptsRefused == Spec => []NoLateAccept
<1>1. IInv => NoLateAccept BY DEF IInv, TypeOK, LocalOK, LateOK, NoLateAccept
<1> QED BY <1>1, Invariance, PTL

\* Once no stop() is under way, a stopped server holds no listener and its
\* token is cancelled (stop_now).
THEOREM StopReleases == Spec => []StoppedReleases
<1>1. IInv => StoppedReleases BY DEF IInv, Released, Winner, StoppedReleases, Stopping
<1> QED BY <1>1, Invariance, PTL

\* At most one of the racing stops goes past the swap to cancel the token and
\* drop the listener (the value ServerState::stop returns to stop_now).
THEOREM SingleRelease == Spec => []OneWinner
<1>1. IInv => OneWinner BY DEF IInv
<1> QED BY <1>1, Invariance, PTL
=============================================================================
