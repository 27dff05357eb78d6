------------------------- MODULE SecureChannelProofs -------------------------
(***************************************************************************)
(* A secure session implements SecureChannel: under the mapping of         *)
(* SecureSession every initial state is an initial state of the channel,   *)
(* and every step is one of its steps or a stutter.  Writing the second    *)
(* half of a frame is Send, taking the second half is Receive, and a send  *)
(* that leaves its frame half written is Cut; nothing else is visible.     *)
(***************************************************************************)
EXTENDS SecureSessionProofs, SequenceTheorems

\* The mapped variables.
Sent   == [s \in Sessions |-> CompleteFrames(s)]
CutOff == [s \in Sessions |-> LeftTorn(s)]

-----------------------------------------------------------------------------
(* The mapping.                                                            *)

\* A message is a call, and the messages sent are the even halves.
LEMMA FramesOf ==
    ASSUME TypeOK, NEW s \in Sessions
    PROVE  /\ Len(wire[s]) \in Nat /\ Len(wire[s]) \div 2 \in Nat
           /\ CompleteFrames(s) \in Seq(Calls)
           /\ Len(CompleteFrames(s)) = Len(wire[s]) \div 2
           /\ DOMAIN CompleteFrames(s) = 1 .. Len(wire[s]) \div 2
           /\ \A i \in 1 .. Len(wire[s]) \div 2 :
                 2 * i \in 1 .. Len(wire[s]) /\ CompleteFrames(s)[i] = wire[s][2 * i].call
<1> DEFINE L == Len(wire[s])
           h == L \div 2
           r == L % 2
<1>1. wire[s] \in Seq(Half) /\ L \in Nat BY DEF TypeOK
<1>2. h \in Nat /\ r \in {0, 1} /\ L = 2 * h + r
  <2> HIDE DEF L
  <2> QED BY <1>1, Parity
<1>3. ASSUME NEW i \in 1 .. h PROVE 2 * i \in 1 .. L /\ wire[s][2 * i].call \in Calls
  <2>1. 2 * i \in 1 .. L
    <3> HIDE DEF L, h, r
    <3> QED BY <1>1, <1>2
  <2>2. wire[s][2 * i] \in Half BY <1>1, <2>1
  <2> QED BY <2>1, <2>2 DEF Half
<1>4. CompleteFrames(s) = [i \in 1 .. h |-> wire[s][2 * i].call] BY DEF CompleteFrames
<1> HIDE DEF h
<1>5. CompleteFrames(s) \in [1 .. h -> Calls] BY <1>3, <1>4
<1>6. CompleteFrames(s) \in Seq(Calls) /\ Len(CompleteFrames(s)) = h BY <1>2, <1>5
<1> QED BY <1>1, <1>2, <1>3, <1>4, <1>6 DEF h

\* The first half of a frame adds nothing to what was sent.
LEMMA FramesKept ==
    ASSUME TypeOK, NEW s \in Sessions, Len(wire'[s]) \div 2 = Len(wire[s]) \div 2,
           \A i \in 1 .. Len(wire[s]) : wire'[s][i] = wire[s][i]
    PROVE  CompleteFrames(s)' = CompleteFrames(s)
<1> DEFINE h == Len(wire[s]) \div 2
<1>1. \A i \in 1 .. h : wire'[s][2 * i] = wire[s][2 * i] BY FramesOf
<1>2. CompleteFrames(s)' = [i \in 1 .. Len(wire'[s]) \div 2 |-> wire'[s][2 * i].call]
      BY DEF CompleteFrames
<1>3. CompleteFrames(s) = [i \in 1 .. h |-> wire[s][2 * i].call] BY DEF CompleteFrames
<1> HIDE DEF h
<1>4. Len(wire'[s]) \div 2 = h BY DEF h
<1> QED BY <1>1, <1>2, <1>3, <1>4

\* The second half adds its message.
LEMMA FramesGrow ==
    ASSUME TypeOK, NEW s \in Sessions, NEW m \in Calls,
           Len(wire'[s]) \div 2 = (Len(wire[s]) \div 2) + 1,
           \A i \in 1 .. Len(wire[s]) : wire'[s][i] = wire[s][i],
           wire'[s][2 * ((Len(wire[s]) \div 2) + 1)].call = m
    PROVE  CompleteFrames(s)' = Append(CompleteFrames(s), m)
<1> DEFINE h == Len(wire[s]) \div 2
           f == CompleteFrames(s)
<1>1. \A i \in 1 .. h : f[i] = wire'[s][2 * i].call BY FramesOf
<1>2. CompleteFrames(s)' = [i \in 1 .. Len(wire'[s]) \div 2 |-> wire'[s][2 * i].call]
      BY DEF CompleteFrames
<1>3. h \in Nat /\ f \in Seq(Calls) /\ Len(f) = h BY FramesOf
<1>4. Len(wire'[s]) \div 2 = h + 1 /\ wire'[s][2 * (h + 1)].call = m OBVIOUS
<1> HIDE DEF h, f
<1>5. Append(f, m) \in [1 .. h + 1 -> Calls]
  <2>1. Append(f, m) \in Seq(Calls) /\ Len(Append(f, m)) = h + 1 BY <1>3
  <2> QED BY <2>1, LenProperties
<1>6. \A i \in 1 .. h + 1 : Append(f, m)[i] = wire'[s][2 * i].call
  <2> TAKE i \in 1 .. h + 1
  <2>1. CASE i = h + 1 BY <1>3, <1>4, <2>1
  <2>2. CASE i \in 1 .. h BY <1>1, <1>3, <2>2
  <2> QED BY <1>3, <2>1, <2>2
<1> QED BY <1>2, <1>4, <1>5, <1>6 DEF f

\* A direction is as cut as it was if its wire is as long and the same sends
\* are in the middle of a frame.
LEMMA CutStays ==
    ASSUME NEW s \in Sessions, wire'[s] = wire[s],
           \A d \in Calls : (on'[d] = s /\ pc'[d] = "half") <=> (on[d] = s /\ pc[d] = "half")
    PROVE  LeftTorn(s)' = LeftTorn(s)
BY DEF LeftTorn

\* The peer of an end of the channel is the other end of the session.
LEMMA PeerIsOther == \A s \in Sessions : Channel!Peer(s) = Other(s)
BY DEF Channel!Peer, Other

-----------------------------------------------------------------------------
(* The steps.                                                              *)

\* Send, in terms of the session.
LEMMA SendIs ==
    ASSUME NEW s \in Sessions, NEW m \in Calls, CutOff' = CutOff, UNCHANGED received,
           ~LeftTorn(s), Len(CompleteFrames(s)) < MaxSeq - FirstSeq,
           \A i \in DOMAIN CompleteFrames(s) : CompleteFrames(s)[i] # m,
           CompleteFrames(s)' = Append(CompleteFrames(s), m),
           \A t \in Sessions \ {s} : CompleteFrames(t)' = CompleteFrames(t)
    PROVE  Channel!Send(s, m)
<1>1. Sent' = [Sent EXCEPT ![s] = Append(Sent[s], m)]
  <2>1. Sent' = [t \in Sessions |-> CompleteFrames(t)'] BY DEF Sent
  <2> QED BY <2>1 DEF Sent
<1>2. Sent[s] = CompleteFrames(s) /\ CutOff[s] = LeftTorn(s) BY DEF Sent, CutOff
<1> QED BY <1>1, <1>2 DEF Channel!Send, Sent, CutOff

\* Receive, in terms of the session.
LEMMA ReceiveIs ==
    ASSUME NEW s \in Sessions, UNCHANGED <<Sent, CutOff>>,
           Len(received[s]) < Len(CompleteFrames(Other(s))),
           received' = [received EXCEPT ![s] =
                          Append(received[s], CompleteFrames(Other(s))[Len(received[s]) + 1])]
    PROVE  Channel!Receive(s)
<1>1. Sent[Other(s)] = CompleteFrames(Other(s)) BY OtherEnd DEF Sent
<1> QED BY <1>1, PeerIsOther DEF Channel!Receive, Sent, CutOff

\* Cut, in terms of the session.
LEMMA CutIs ==
    ASSUME NEW s \in Sessions, UNCHANGED <<Sent, received>>, ~LeftTorn(s), LeftTorn(s)',
           \A t \in Sessions \ {s} : LeftTorn(t)' = LeftTorn(t)
    PROVE  Channel!Cut(s)
<1>1. CutOff' = [CutOff EXCEPT ![s] = TRUE]
  <2>1. CutOff' = [t \in Sessions |-> LeftTorn(t)'] BY DEF CutOff
  <2>2. LeftTorn(s)' = TRUE OBVIOUS
  <2> QED BY <2>1, <2>2 DEF CutOff
<1>2. ~CutOff[s] BY DEF CutOff
<1> QED BY <1>1, <1>2 DEF Channel!Cut, Sent, CutOff

\* The mapped variables are functions of their parts.
LEMMA MappedStays ==
    /\ (\A s \in Sessions : CompleteFrames(s)' = CompleteFrames(s)) => Sent' = Sent
    /\ (\A s \in Sessions : LeftTorn(s)' = LeftTorn(s)) => CutOff' = CutOff
BY DEF Sent, CutOff

\* A step that leaves the mapped variables alone stutters.
LEMMA Stutter ==
    ASSUME UNCHANGED <<Sent, received, CutOff>>
    PROVE  UNCHANGED Channel!vars
BY DEF Channel!vars, Sent, CutOff

\* Writing the first half of a frame is invisible.
LEMMA HalfStutters ==
    ASSUME IInv, NEW c \in Calls, WriteHalf(c)
    PROVE  UNCHANGED <<Sent, received, CutOff>>
<1>1. Writes(c, 1) /\ AtFrame(c) /\ pc[c] = "write" BY WritesStep DEF WriteHalf, IInv
<1>2. /\ on' = on /\ pc'[c] = "half" /\ \A d \in Calls \ {c} : pc'[d] = pc[d]
      BY DEF WriteHalf, Goto, IInv, TypeOK
<1>3. ASSUME NEW s \in Sessions, s = on[c]
      PROVE  CompleteFrames(s)' = CompleteFrames(s) /\ LeftTorn(s)' = LeftTorn(s)
  <2>1. /\ Len(wire[s]) \in Nat /\ Len(wire[s]) % 2 = 0 /\ Len(wire'[s]) = Len(wire[s]) + 1
        /\ \A i \in 1 .. Len(wire[s]) : wire'[s][i] = wire[s][i]
        BY <1>1, <1>3 DEF Writes, AtFrame
  <2>2. Len(wire'[s]) \div 2 = Len(wire[s]) \div 2 BY <2>1, Parity
  <2>3. CompleteFrames(s)' = CompleteFrames(s) BY <2>1, <2>2, FramesKept DEF IInv
  <2>4. ~(Len(wire[s]) % 2 = 1)
    <3>1. ASSUME NEW n \in Nat, n % 2 = 0 PROVE ~(n % 2 = 1) BY <3>1
    <3> QED BY <2>1, <3>1
  <2>5. ~LeftTorn(s) /\ ~LeftTorn(s)' BY <1>2, <1>3, <2>4 DEF LeftTorn
  <2> QED BY <2>3, <2>5 DEF LeftTorn
<1>4. ASSUME NEW s \in Sessions, s # on[c]
      PROVE  CompleteFrames(s)' = CompleteFrames(s) /\ LeftTorn(s)' = LeftTorn(s)
  <2>1. wire'[s] = wire[s] BY <1>1, <1>4 DEF Writes
  <2>2. CompleteFrames(s)' = CompleteFrames(s) BY <2>1 DEF CompleteFrames
  <2> QED BY <1>2, <1>4, <2>1, <2>2, CutStays
<1>5. received' = received BY <1>1 DEF Writes
<1> QED BY <1>3, <1>4, <1>5, MappedStays

\* Writing the second half is Send: the message is new because the only half
\* that the send has on the wire is the last one, and the sequence number
\* checked before the frame was encrypted keeps the channel under its limit.
LEMMA RestSends ==
    ASSUME IInv, NEW c \in Calls, WriteRest(c), NEW s \in Sessions, s = on[c]
    PROVE  Channel!Send(s, c)
<1>1. Writes(c, 2) /\ AtFrame(c) /\ pc[c] = "half" /\ TypeOK BY WritesStep DEF WriteRest, IInv
<1>2. /\ on' = on /\ pc'[c] = "done" /\ \A d \in Calls \ {c} : pc'[d] = pc[d]
      BY DEF WriteRest, Return, Goto, IInv, TypeOK
<1>3. /\ Len(wire[s]) \in Nat /\ Len(wire[s]) % 2 = 1 /\ Len(wire'[s]) = Len(wire[s]) + 1
      /\ \A i \in 1 .. Len(wire[s]) : wire'[s][i] = wire[s][i]
      /\ wire'[s][Len(wire[s]) + 1].call = c
  <2>1. Len(wire[s]) \in Nat /\ Len(wire[s]) % 2 = 1 BY <1>1 DEF Writes, AtFrame
  <2>2. Piece(c, 2).call = c BY DEF Piece
  <2> QED BY <1>1, <2>1, <2>2 DEF Writes
<1> DEFINE h == Len(wire[s]) \div 2
<1>4. h \in Nat /\ Len(wire'[s]) \div 2 = h + 1 /\ 2 * (h + 1) = Len(wire[s]) + 1
  <2>1. Len(wire[s]) = 2 * h + 1 /\ h \in Nat BY <1>3, Parity
  <2>2. Len(wire'[s]) \div 2 = h + 1 BY <1>3, Parity
  <2> HIDE DEF h
  <2>3. 2 * (h + 1) = (2 * h + 1) + 1 BY <2>1
  <2> QED BY <2>1, <2>2, <2>3
<1>5. CompleteFrames(s)' = Append(CompleteFrames(s), c) BY <1>1, <1>3, <1>4, FramesGrow
<1>6. ~LeftTorn(s) /\ ~LeftTorn(s)'
  <2>1. Len(wire'[s]) % 2 # 1 BY <1>3, SecondHalf
  <2> QED BY <1>1, <2>1 DEF LeftTorn
<1>7. ASSUME NEW t \in Sessions, t # s
      PROVE  CompleteFrames(t)' = CompleteFrames(t) /\ LeftTorn(t)' = LeftTorn(t)
  <2>1. wire'[t] = wire[t] BY <1>1, <1>7 DEF Writes
  <2>2. CompleteFrames(t)' = CompleteFrames(t) BY <2>1 DEF CompleteFrames
  <2> QED BY <1>2, <1>7, <2>1, <2>2, CutStays
<1>8. CutOff' = CutOff
  <2>1. LeftTorn(s)' = LeftTorn(s) BY <1>6 DEF LeftTorn
  <2> QED BY <1>7, <2>1, MappedStays
<1>9. Len(CompleteFrames(s)) < MaxSeq - FirstSeq
  <2>1. sequence[s]["send"] < MaxSeq BY <1>1 DEF AtFrame
  <2>2. sequence[s]["send"] = FirstSeq + h BY DEF IInv, Framed
  <2>3. Len(CompleteFrames(s)) = h BY <1>1, FramesOf
  <2> HIDE DEF h
  <2> QED BY <1>4, <2>1, <2>2, <2>3, ConstantsAssumption DEF FirstSeq
<1>10. \A i \in DOMAIN CompleteFrames(s) : CompleteFrames(s)[i] # c
  <2>1. SUFFICES ASSUME NEW i \in 1 .. h, CompleteFrames(s)[i] = c PROVE FALSE
        BY <1>1, FramesOf
  <2>2. 2 * i \in 1 .. Len(wire[s]) /\ wire[s][2 * i].call = c BY <1>1, <2>1, FramesOf
  <2>3. 2 * i = Len(wire[s]) BY <1>1, <2>2 DEF IInv, Authentic
  <2> HIDE DEF h
  <2> QED BY <1>3, <1>4, <2>3
<1>11. received' = received BY <1>1 DEF Writes
<1> QED BY <1>5, <1>6, <1>7, <1>8, <1>9, <1>10, <1>11, SendIs

\* A step that leaves the wire alone and no send half way changes neither.
LEMMA WireKept ==
    ASSUME wire' = wire,
           \A s \in Sessions, d \in Calls :
              (on'[d] = s /\ pc'[d] = "half") <=> (on[d] = s /\ pc[d] = "half")
    PROVE  UNCHANGED <<Sent, CutOff>>
<1>1. ASSUME NEW s \in Sessions
      PROVE  CompleteFrames(s)' = CompleteFrames(s) /\ LeftTorn(s)' = LeftTorn(s)
      BY CutStays DEF CompleteFrames
<1> QED BY <1>1, MappedStays

\* Accepting the second half of a frame is Receive.
LEMMA BodyReceives ==
    ASSUME IInv, NEW c \in Calls, ReadBody(c), NEW s \in Sessions, s = on[c]
    PROVE  Channel!Receive(s)
<1>1. Reads(c) /\ AtFrame(c) /\ pc[c] = "body" /\ TypeOK /\ InStep(s)
      BY ReadsStep DEF ReadBody, IInv
<1>2. on' = on /\ pc'[c] = "done" /\ \A d \in Calls \ {c} : pc'[d] = pc[d]
  <2>1. Return(c, "ok") BY BodyStep
  <2> QED BY <1>1, <2>1 DEF ReadBody, Return, Goto, TypeOK
<1>3. UNCHANGED <<Sent, CutOff>> BY <1>1, <1>2, WireKept DEF Reads
<1> DEFINE t == Other(s)
           n == taken[s]
           k == Len(received[s])
<1>4. t \in Sessions /\ n \in Nat /\ n % 2 = 1 /\ n < Len(wire[t]) /\ k = n \div 2
      BY <1>1, OtherEnd DEF Reads, AtFrame, Stream, InStep
<1>5. k \in Nat /\ n + 1 = 2 * (k + 1)
  <2>1. n = 2 * (n \div 2) + 1 /\ n \div 2 \in Nat BY <1>4, Parity
  <2> HIDE DEF n, k
  <2> QED BY <1>4, <2>1
<1>6. k + 1 \in 1 .. Len(wire[t]) \div 2
  <2> DEFINE L == Len(wire[t])
             q == L \div 2
             r == L % 2
  <2>1. L \in Nat BY <1>1, <1>4, FramesOf
  <2>2. L = 2 * q + r /\ q \in Nat /\ r \in {0, 1} BY <2>1, Parity
  <2>3. n < L BY <1>4
  <2> HIDE DEF n, k, L, q, r
  <2>4. k + 1 \in 1 .. q BY <1>4, <1>5, <2>2, <2>3
  <2> QED BY <2>4 DEF q, L
<1>7. CompleteFrames(t)[k + 1] = wire[t][n + 1].call BY <1>1, <1>4, <1>5, <1>6, FramesOf
<1>8. k < Len(CompleteFrames(t))
  <2> DEFINE q == Len(wire[t]) \div 2
  <2>1. Len(CompleteFrames(t)) = q /\ q \in Nat BY <1>1, <1>4, FramesOf
  <2>2. k + 1 \in 1 .. q BY <1>6
  <2> HIDE DEF k, q
  <2> QED BY <1>5, <2>1, <2>2
<1>9. received' = [received EXCEPT ![s] = Append(received[s], CompleteFrames(t)[k + 1])]
      BY <1>7, BodyStep DEF Stream
<1> QED BY <1>3, <1>8, <1>9, ReceiveIs

\* A send that stops half way cuts its direction.
LEMMA LeavingCuts ==
    ASSUME IInv, NEW c \in Calls, CallAction(c), pc[c] = "half", UNCHANGED dataVars,
           NEW s \in Sessions, s = on[c]
    PROVE  Channel!Cut(s)
<1>1. pc'[c] # "half" BY WindsUp
<1>2. TypeOK /\ on' = on /\ \A d \in Calls \ {c} : pc'[d] = pc[d]
      BY CallMoves, MovesFrame DEF Untouched, IInv
<1>3. wire' = wire /\ received' = received BY DEF dataVars
<1>4. Sent' = Sent BY <1>3 DEF Sent, CompleteFrames
<1>5. ~LeftTorn(s) BY DEF LeftTorn
<1>6. LeftTorn(s)'
  <2>1. Len(wire[s]) % 2 = 1 BY DEF IInv, AtFrame
  <2>2. ASSUME NEW d \in Calls, on[d] = s, pc'[d] = "half" PROVE FALSE
    <3>1. d # c /\ pc[d] = "half" BY <1>1, <1>2, <2>2
    <3>2. op[d] = "send" /\ op[c] = "send" BY <3>1 DEF IInv, LocalOK, PlaceOK
    <3> QED BY <2>2, <3>1, <3>2, Exclusive DEF SameGate, Holding
  <2> QED BY <1>2, <1>3, <2>1, <2>2 DEF LeftTorn
<1>7. ASSUME NEW t \in Sessions, t # s PROVE LeftTorn(t)' = LeftTorn(t)
      BY <1>2, <1>3, <1>7, CutStays
<1> QED BY <1>3, <1>4, <1>5, <1>6, <1>7, CutIs

\* Every step of a session is a step of the channel or a stutter.
LEMMA StepImplements ==
    ASSUME IInv, [Next]_vars
    PROVE  [Channel!Next]_Channel!vars
<1> SUFFICES \/ UNCHANGED Channel!vars
             \/ \E s \in Sessions : \/ Channel!Receive(s) \/ Channel!Cut(s)
                                    \/ \E m \in Calls : Channel!Send(s, m)
    BY DEF Channel!Next
<1>0. TypeOK BY DEF IInv
<1>1. ASSUME NEW c \in Calls, CallAction(c)
      PROVE  \/ UNCHANGED Channel!vars
             \/ \E s \in Sessions : \/ Channel!Receive(s) \/ Channel!Cut(s)
                                    \/ \E m \in Calls : Channel!Send(s, m)
  <2>0. Causes(c) /\ on' = on /\ \A d \in Calls \ {c} : pc'[d] = pc[d]
        BY <1>0, <1>1, StepCauses, CallMoves, MovesFrame DEF Untouched
  <2>1. CASE WriteHalf(c) BY <2>1, HalfStutters, Stutter
  <2>2. CASE WriteRest(c)
    <3>1. on[c] \in Sessions BY <2>2, WritesStep DEF Writes
    <3> QED BY <2>2, <3>1, RestSends
  <2>3. CASE ReadBody(c)
    <3>1. on[c] \in Sessions BY <2>3, ReadsStep DEF Reads
    <3> QED BY <2>3, <3>1, BodyReceives
  <2>4. CASE ReadHeader(c)
    <3>1. wire' = wire /\ received' = received /\ pc[c] = "header" /\ pc'[c] = "more"
          BY <1>0, <2>4, Moved DEF ReadHeader, Places
    <3> QED BY <2>0, <3>1, WireKept, Stutter
  <2>5. CASE UNCHANGED dataVars /\ ~WriteHalf(c)
    <3>1. CASE pc[c] = "half"
      <4>1. on[c] \in Sessions BY <3>1 DEF IInv, LocalOK, PlaceOK, Inside, Holding
      <4> QED BY <1>1, <2>5, <3>1, <4>1, LeavingCuts
    <3>2. CASE pc[c] # "half"
      <4>1. pc'[c] # "half" BY <2>0, <2>5 DEF Causes
      <4> QED BY <2>0, <2>5, <3>2, <4>1, WireKept, Stutter DEF dataVars
    <3> QED BY <3>1, <3>2
  <2> QED BY <2>0, <2>1, <2>2, <2>3, <2>4, <2>5 DEF Causes
<1>2. ASSUME NEW c \in Calls, AppAction(c) PROVE UNCHANGED Channel!vars
  <2>1. /\ UNCHANGED dataVars /\ \A d \in Calls \ {c} : Untouched(d)
        /\ UNCHANGED <<op, on, pc, result, late>> \/ pc[c] = "new"
        /\ pc'[c] = pc[c] \/ pc'[c] \in {"poll", "closing", "done"}
        BY <1>2, AppStep
  <2>2. ASSUME NEW s \in Sessions, NEW d \in Calls
        PROVE  (on'[d] = s /\ pc'[d] = "half") <=> (on[d] = s /\ pc[d] = "half")
        BY <2>1 DEF Untouched
  <2> QED BY <2>1, <2>2, WireKept, Stutter DEF dataVars
<1>3. ASSUME NEW s \in Sessions, Waiter(s) PROVE UNCHANGED Channel!vars
      BY <1>3, WireKept, Stutter DEF Waiter, dataVars
<1>4. CASE UNCHANGED vars BY <1>4, WireKept, Stutter DEF vars, dataVars
<1> QED BY <1>1, <1>2, <1>3, <1>4 DEF Next, CallAction, AppAction

\* Nothing is sent, received or cut at first.
LEMMA InitImplements == Init => Channel!Init
<1> SUFFICES ASSUME Init PROVE Channel!Init OBVIOUS
<1>1. ASSUME NEW s \in Sessions PROVE CompleteFrames(s) = <<>> /\ LeftTorn(s) = FALSE
  <2>1. wire[s] = <<>> BY DEF Init
  <2>2. Len(wire[s]) = 0 /\ Len(wire[s]) \div 2 = 0 /\ ~(Len(wire[s]) % 2 = 1) BY <2>1
  <2>3. CompleteFrames(s) = [i \in 1 .. 0 |-> wire[s][2 * i].call] BY <2>2 DEF CompleteFrames
  <2>4. CompleteFrames(s) = <<>> BY <2>3
  <2> QED BY <2>2, <2>4 DEF LeftTorn
<1> QED BY <1>1 DEF Init, Channel!Init

\* A secure session implements SecureChannel, for every number of calls on
\* either end and every last sequence number: whatever is cancelled, dropped,
\* refused or fails, each end gets whole messages of the other, once and in
\* order, none after a torn frame.
THEOREM SessionIsChannel == Spec => ImplementsChannel
<1>1. IInv /\ [Next]_vars => [Channel!Next]_Channel!vars BY StepImplements
<1> QED BY <1>1, InitImplements, Invariance, PTL DEF Spec, ImplementsChannel, Channel!Spec
=============================================================================
