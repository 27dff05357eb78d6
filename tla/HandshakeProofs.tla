--------------------------- MODULE HandshakeProofs ---------------------------
(***************************************************************************)
(* Proofs about Handshake, for any two identities, every choice of roles   *)
(* and pins and whatever plain bytes were left in the stream.              *)
(***************************************************************************)
EXTENDS Handshake, TLAPS

-----------------------------------------------------------------------------
(* What the ends write, if they write it: determined by their identities   *)
(* and by what they were configured with.                                  *)

ClientHello(e) == Hello("client_hello", e, ClientSigns(e, Fresh(e), pin[e]))
ServerHello(e) ==
    Hello("server_hello", e, ServerSigns(Peer(e), Fresh(Peer(e)), e, Fresh(e)))
HelloOf(e) == IF role[e] = "client" THEN ClientHello(e) ELSE ServerHello(e)

\* The keys that two ends derive that accepted each other.
Keys(e) ==
    IF role[e] = "client" THEN <<e, Peer(e), Fresh(e), Fresh(Peer(e))>>
                          ELSE <<Peer(e), e, Fresh(Peer(e)), Fresh(e)>>
FinishedOf(e) == Sealed(Keys(e), role[e], 0, Finished(role[e]))

Frames == Leftovers \cup {HelloOf(e) : e \in Ends} \cup {FinishedOf(e) : e \in Ends}

-----------------------------------------------------------------------------
(* The inductive invariant.                                                *)

\* The type invariant, and the shape of the variables TypeOK leaves open.
Shape ==
    /\ role \in [Ends -> Roles]
    /\ pin \in [Ends -> Ends \cup {Stranger}]
    /\ cancel \in [Ends -> BOOLEAN]
    /\ future \in [Ends -> {"pending", "cancelling", "cancelled", "delivered"}]
    /\ asked \in [Ends -> {"never", "upgrading", "secured"}]
    /\ pc \in [Ends -> Places]
    /\ sequence \in [Ends -> [Ways -> {0, 1}]]
    /\ seen \in [Ends -> Frames \cup {NoHello}]
    /\ wire \in [Ends -> Seq(Frames)]
    /\ taken \in [Ends -> Nat]

\* An end writes its own hello, and its Finished only if it accepted a hello.
WroteOK(e) ==
    \A i \in 1 .. Len(wire[e]) :
        /\ wire[e][i] \in Leftovers \cup {HelloOf(e), FinishedOf(e)}
        /\ wire[e][i] = FinishedOf(e) => seen[e] # NoHello

\* The hello that was accepted is the first frame of the peer, who is the
\* pinned identity and has the other role.
SeenOK(e) ==
    seen[e] # NoHello =>
        /\ pin[e] = Peer(e) /\ role[Peer(e)] = Opposite(role[e])
        /\ seen[e] = HelloOf(Peer(e))
        /\ taken[e] >= 1 /\ wire[Peer(e)][1] = seen[e]

\* How far an end is: both messages exchanged, or the peer's hello accepted.
Complete(e) == pc[e] \in {"finish", "secured", "closed"}
Greeted(e)  == pc[e] \notin {"start", "hello", "failed"}

\* Leftover plain bytes count as one frame.
Leftover(e) == IF Len(wire[e]) > 0 /\ wire[e][1] \in Leftovers THEN 1 ELSE 0

\* What an end at each place has accepted, sent and read.
PlaceOK(e) ==
    /\ pc[e] = "hello" => role[e] = "client"
    /\ pc[e] = "reply" => role[e] = "server"
    /\ pc[e] # "failed" =>
          /\ seen[e] # NoHello <=> Greeted(e)
          /\ sequence[e]["send"] =
                IF Complete(e) \/ (pc[e] = "await" /\ role[e] = "server") THEN 1 ELSE 0
          /\ sequence[e]["receive"] =
                IF Complete(e) \/ (pc[e] = "confirm" /\ role[e] = "client") THEN 1 ELSE 0
          /\ taken[e] = IF Greeted(e) THEN 1 + sequence[e]["receive"] ELSE 0
          /\ Len(wire[e]) = Leftover(e) + (IF pc[e] \in {"start", "reply"} THEN 0 ELSE 1)
                                        + sequence[e]["send"]

\* A Finished message that opened was sealed by a peer that had accepted e.
ConfirmedOK(e) == sequence[e]["receive"] = 1 => seen[Peer(e)] # NoHello

\* close() while upgrading cancelled the token in time.
AskedOK(e) ==
    asked[e] = "upgrading" => cancel[e] /\ pc[e] \notin {"secured", "closed"}

EndOK(e) ==
    /\ taken[e] <= Len(wire[Peer(e)])
    /\ WroteOK(e) /\ SeenOK(e) /\ PlaceOK(e) /\ ConfirmedOK(e) /\ AskedOK(e)

IInv == Shape /\ \A e \in Ends : EndOK(e)

-----------------------------------------------------------------------------
(* The two ends, and their frames.                                         *)

\* Peer is the one other end.
LEMMA PeerEnd ==
    ASSUME NEW e \in Ends
    PROVE  /\ Peer(e) \in Ends /\ Peer(e) # e /\ Peer(Peer(e)) = e
           /\ \A d \in Ends : d = e \/ d = Peer(e)
<1>1. PICK a \in Ends, b \in Ends : a # b /\ Ends = {a, b} BY EndsAssumption
<1>2. \A d \in Ends : Peer(d) \in Ends /\ Peer(d) # d
  <2> TAKE d \in Ends
  <2>1. \E f \in Ends : f # d BY <1>1
  <2> QED BY <2>1 DEF Peer
<1> QED BY <1>1, <1>2

\* The frames of an end are told apart by their type.
LEMMA Kinds ==
    ASSUME NEW e
    PROVE  /\ (\A b \in Leftovers : b.type = "plain") /\ NoHello.type = "none" /\ FinishedOf(e).type = "sealed"
           /\ role[e] = "client" => HelloOf(e).type = "client_hello"
           /\ role[e] # "client" => HelloOf(e).type = "server_hello"
           /\ HelloOf(e).identity = e /\ HelloOf(e).fresh = Fresh(e)
           /\ HelloOf(e) \notin Leftovers /\ FinishedOf(e) \notin Leftovers
           /\ HelloOf(e) # FinishedOf(e)
           /\ HelloOf(e) # NoHello
<1>1. (\A b \in Leftovers : b.type = "plain") /\ NoHello.type = "none"
      BY DEF Leftovers, Plain, NoHello
<1>2. FinishedOf(e).type = "sealed" BY DEF FinishedOf, Sealed
<1>3. role[e] = "client" => HelloOf(e).type = "client_hello" BY DEF HelloOf, ClientHello, Hello
<1>4. role[e] # "client" => HelloOf(e).type = "server_hello" BY DEF HelloOf, ServerHello, Hello
<1>5. HelloOf(e).identity = e /\ HelloOf(e).fresh = Fresh(e)
      BY DEF HelloOf, ClientHello, ServerHello, Hello
<1> QED BY <1>1, <1>2, <1>3, <1>4, <1>5

\* What the configuration says stays so.
LEMMA FramesFixed ==
    ASSUME UNCHANGED <<role, pin>>
    PROVE  /\ Frames' = Frames
           /\ \A e \in Ends : HelloOf(e)' = HelloOf(e) /\ FinishedOf(e)' = FinishedOf(e)
BY DEF Frames, HelloOf, FinishedOf, ClientHello, ServerHello, Keys

\* The frame that an end reads next was written by its peer.
LEMMA NextFrame ==
    ASSUME IInv, NEW e \in Ends, Readable(e)
    PROVE  LET f == Peer(e) IN
           /\ taken[e] \in Nat /\ taken[e] + 1 \in 1 .. Len(wire[f]) /\ Len(wire[f]) \in Nat
           /\ Frame(e) = wire[f][taken[e] + 1]
           /\ Frame(e) \in Frames /\ Frame(e) \in Leftovers \cup {HelloOf(f), FinishedOf(f)}
           /\ Frame(e) = FinishedOf(f) => seen[f] # NoHello
<1>1. Peer(e) \in Ends BY PeerEnd
<1>2. /\ wire[Peer(e)] \in Seq(Frames) /\ Len(wire[Peer(e)]) \in Nat /\ taken[e] \in Nat
      /\ WroteOK(Peer(e))
      BY <1>1 DEF IInv, Shape, EndOK
<1>3. taken[e] + 1 \in 1 .. Len(wire[Peer(e)]) BY <1>2 DEF Readable
<1> QED BY <1>2, <1>3 DEF Frame, WroteOK

\* An end that accepted a hello has the keys it should have.
LEMMA KeysAre ==
    ASSUME IInv, NEW e \in Ends, seen[e] # NoHello
    PROVE  KeyMaterial(e) = Keys(e)
<1>1. SeenOK(e) BY DEF IInv, EndOK
<1>2. seen[e].identity = Peer(e) /\ seen[e].fresh = Fresh(Peer(e)) BY <1>1, Kinds DEF SeenOK
<1> QED BY <1>2 DEF KeyMaterial, Keys

-----------------------------------------------------------------------------
(* Steps.                                                                  *)

\* What a step of e leaves alone: the other end, and what was written.
Touches(e) ==
    /\ UNCHANGED <<role, pin>>
    /\ \A d \in Ends \ {e} :
          /\ pc'[d] = pc[d] /\ seen'[d] = seen[d] /\ sequence'[d] = sequence[d]
          /\ wire'[d] = wire[d] /\ taken'[d] = taken[d]
          /\ cancel'[d] = cancel[d] /\ asked'[d] = asked[d]
    /\ seen[e] # NoHello => seen'[e] = seen[e]
    /\ Len(wire'[e]) \in Nat /\ Len(wire'[e]) >= Len(wire[e])
    /\ \A i \in 1 .. Len(wire[e]) : wire'[e][i] = wire[e][i]

\* The other end is as well off after such a step as before.
LEMMA OtherKeeps ==
    ASSUME IInv, NEW e \in Ends, Touches(e), NEW d \in Ends, d # e
    PROVE  EndOK(d)'
<1>0. EndOK(d) /\ Peer(d) = e /\ role' = role /\ pin' = pin BY PeerEnd DEF IInv, Touches
<1>1. /\ taken[d] \in Nat /\ Len(wire[e]) \in Nat /\ taken[d] <= Len(wire[e])
      BY <1>0 DEF IInv, Shape, EndOK
<1>2. taken'[d] <= Len(wire'[e]) BY <1>1 DEF Touches
<1>3. WroteOK(d)' BY <1>0, FramesFixed DEF EndOK, WroteOK, Touches
<1>4. SeenOK(d)'
  <2>1. CASE seen[d] = NoHello BY <2>1 DEF SeenOK, Touches
  <2>2. CASE seen[d] # NoHello
    <3>1. 1 \in 1 .. Len(wire[e]) BY <1>0, <1>1, <2>2 DEF EndOK, SeenOK
    <3> QED BY <1>0, <2>2, <3>1, FramesFixed DEF EndOK, SeenOK, Touches
  <2> QED BY <2>1, <2>2
<1>5. PlaceOK(d)' BY <1>0 DEF EndOK, PlaceOK, Touches, Complete, Greeted, Leftover
<1>6. ConfirmedOK(d)' BY <1>0 DEF EndOK, ConfirmedOK, Touches
<1>7. AskedOK(d)' BY <1>0 DEF EndOK, AskedOK, Touches
<1> QED BY <1>0, <1>2, <1>3, <1>4, <1>5, <1>6, <1>7 DEF EndOK

\* Failing ends an upgrade wherever it is, also on a frame just read.
LEMMA FailStep ==
    ASSUME IInv, NEW e \in Ends, Fail(e), UNCHANGED <<pyVars, seen, sequence, wire>>,
           UNCHANGED taken \/ ReadFrame(e)
    PROVE  Shape' /\ Touches(e) /\ EndOK(e)'
<1>0. Shape /\ EndOK(e) /\ Peer(e) \in Ends BY PeerEnd DEF IInv
<1>1. /\ pc' = [pc EXCEPT ![e] = "failed"] /\ cancel' = [cancel EXCEPT ![e] = TRUE]
      /\ UNCHANGED <<role, pin, future, asked, seen, sequence, wire>>
      BY DEF Fail, Goto, CancelToken, pyVars
<1>2. /\ pc' \in [Ends -> Places] /\ pc'[e] = "failed" /\ \A d \in Ends \ {e} : pc'[d] = pc[d]
      /\ cancel' \in [Ends -> BOOLEAN] /\ cancel'[e] /\ \A d \in Ends \ {e} : cancel'[d] = cancel[d]
      BY <1>0, <1>1 DEF Shape, Places
<1>3. /\ taken' \in [Ends -> Nat] /\ \A d \in Ends \ {e} : taken'[d] = taken[d]
      /\ taken'[e] >= taken[e] /\ taken'[e] <= Len(wire[Peer(e)])
  <2>1. /\ taken \in [Ends -> Nat] /\ Len(wire[Peer(e)]) \in Nat /\ taken[e] <= Len(wire[Peer(e)])
        BY <1>0 DEF Shape, EndOK
  <2> QED BY <2>1 DEF ReadFrame, Readable
<1>4. Frames' = Frames BY <1>1, FramesFixed
<1>5. Shape' BY <1>0, <1>1, <1>2, <1>3, <1>4 DEF Shape
<1>6. Touches(e)
  <2>1. Len(wire[e]) \in Nat BY <1>0 DEF Shape
  <2> QED BY <1>1, <1>2, <1>3, <2>1 DEF Touches
<1>7. EndOK(e)'
  <2>1. WroteOK(e)' BY <1>0, <1>1, FramesFixed DEF EndOK, WroteOK
  <2>2. SeenOK(e)'
    <3>1. taken[e] \in Nat /\ taken'[e] \in Nat BY <1>0, <1>3 DEF Shape
    <3> QED BY <1>0, <1>1, <1>3, <3>1, FramesFixed DEF EndOK, SeenOK
  <2>3. PlaceOK(e)' BY <1>2 DEF PlaceOK
  <2>4. ConfirmedOK(e)' BY <1>0, <1>1 DEF EndOK, ConfirmedOK
  <2>5. AskedOK(e)' BY <1>2 DEF AskedOK
  <2> QED BY <1>1, <1>3, <2>1, <2>2, <2>3, <2>4, <2>5 DEF EndOK
<1> QED BY <1>5, <1>6, <1>7

\* Writing a frame: everything about e holds again, given that its new place
\* and its sequence numbers go with one frame more.
LEMMA WriteStep ==
    ASSUME IInv, NEW e \in Ends, NEW frame \in {HelloOf(e), FinishedOf(e)}, WriteFrame(e, frame),
           NEW p \in Places, Goto(e, p), p \notin {"secured", "closed"},
           UNCHANGED <<pyVars, cancel, seen, taken>>,
           sequence' \in [Ends -> [Ways -> {0, 1}]],
           sequence'[e]["receive"] = sequence[e]["receive"],
           \A d \in Ends \ {e} : sequence'[d] = sequence[d],
           frame = FinishedOf(e) => seen[e] # NoHello
    PROVE  /\ Shape' /\ Touches(e) /\ (PlaceOK(e)' => EndOK(e)')
           /\ pc'[e] = p /\ Leftover(e)' = Leftover(e) /\ Leftover(e) \in {0, 1}
           /\ Len(wire[e]) \in Nat /\ Len(wire'[e]) = Len(wire[e]) + 1
<1>0. Shape /\ EndOK(e) /\ Peer(e) \in Ends /\ Peer(e) # e BY PeerEnd DEF IInv
<1>1. /\ pc' = [pc EXCEPT ![e] = p] /\ wire' = [wire EXCEPT ![e] = Append(wire[e], frame)]
      /\ UNCHANGED <<role, pin, future, asked, cancel, seen, taken>>
      BY DEF Goto, WriteFrame, pyVars
<1>2. pc' \in [Ends -> Places] /\ pc'[e] = p /\ \A d \in Ends \ {e} : pc'[d] = pc[d]
      BY <1>0, <1>1 DEF Shape
<1>3. frame \in Frames /\ frame \notin Leftovers BY Kinds DEF Frames
<1>4. wire[e] \in Seq(Frames) /\ Len(wire[e]) \in Nat BY <1>0 DEF Shape
<1>5. /\ wire' \in [Ends -> Seq(Frames)] /\ \A d \in Ends \ {e} : wire'[d] = wire[d]
      /\ Len(wire'[e]) = Len(wire[e]) + 1 /\ wire'[e][Len(wire[e]) + 1] = frame
      /\ \A i \in 1 .. Len(wire[e]) : wire'[e][i] = wire[e][i]
  <2>1. /\ Append(wire[e], frame) \in Seq(Frames) /\ Len(Append(wire[e], frame)) = Len(wire[e]) + 1
        /\ Append(wire[e], frame)[Len(wire[e]) + 1] = frame
        /\ \A i \in 1 .. Len(wire[e]) : Append(wire[e], frame)[i] = wire[e][i]
        BY <1>3, <1>4
  <2> QED BY <1>0, <1>1, <2>1 DEF Shape
<1>6. Frames' = Frames /\ HelloOf(e)' = HelloOf(e) /\ FinishedOf(e)' = FinishedOf(e)
      BY <1>1, FramesFixed
<1>7. Shape' BY <1>0, <1>1, <1>2, <1>5, <1>6 DEF Shape
<1>8. Touches(e) BY <1>1, <1>2, <1>4, <1>5 DEF Touches
<1>9. Leftover(e)' = Leftover(e) /\ Leftover(e) \in {0, 1}
  <2>1. CASE Len(wire[e]) = 0 BY <1>3, <1>5, <2>1 DEF Leftover
  <2>2. CASE Len(wire[e]) > 0
    <3>1. 1 \in 1 .. Len(wire[e]) /\ Len(wire'[e]) > 0 BY <1>4, <1>5, <2>2
    <3> QED BY <1>5, <2>2, <3>1 DEF Leftover
  <2> QED BY <1>4, <2>1, <2>2
<1>10. ASSUME PlaceOK(e)' PROVE EndOK(e)'
  <2>1. WroteOK(e)'
    <3> SUFFICES ASSUME NEW i \in 1 .. Len(wire'[e])
                 PROVE  /\ wire'[e][i] \in Leftovers \cup {HelloOf(e), FinishedOf(e)}
                        /\ wire'[e][i] = FinishedOf(e) => seen[e] # NoHello
        BY <1>1, <1>6 DEF WroteOK
    <3>1. CASE i \in 1 .. Len(wire[e]) BY <1>0, <1>5, <3>1 DEF EndOK, WroteOK
    <3>2. CASE i = Len(wire[e]) + 1 BY <1>5, <3>2
    <3> QED BY <1>4, <1>5, <3>1, <3>2
  <2>2. SeenOK(e)' BY <1>0, <1>1, <1>5, FramesFixed DEF EndOK, SeenOK
  <2>3. ConfirmedOK(e)' BY <1>0, <1>1 DEF EndOK, ConfirmedOK
  <2>4. AskedOK(e)' BY <1>0, <1>1, <1>2 DEF EndOK, AskedOK
  <2>5. (taken[e] <= Len(wire[Peer(e)]))' BY <1>0, <1>1, <1>5 DEF EndOK
  <2> QED BY <1>10, <2>1, <2>2, <2>3, <2>4, <2>5 DEF EndOK
<1> QED BY <1>2, <1>4, <1>5, <1>7, <1>8, <1>9, <1>10

\* The three steps that write.
LEMMA Writers ==
    ASSUME IInv, NEW e \in Ends, SendClientHello(e) \/ SendServerHello(e) \/ SendFinished(e)
    PROVE  Shape' /\ Touches(e) /\ EndOK(e)'
<1>0. Shape /\ EndOK(e) /\ PlaceOK(e) /\ SeenOK(e) BY DEF IInv, EndOK
<1>1. CASE SendClientHello(e)
  <2>1. /\ pc[e] = "start" /\ role[e] = "client" /\ HelloOf(e) = ClientHello(e)
        /\ WriteFrame(e, HelloOf(e)) /\ Goto(e, "hello")
        /\ UNCHANGED <<pyVars, cancel, seen, sequence, taken>> /\ role' = role
        BY <1>1 DEF SendClientHello, HelloOf, ClientHello, pyVars
  <2>2. /\ Shape' /\ Touches(e) /\ (PlaceOK(e)' => EndOK(e)')
        /\ pc'[e] = "hello" /\ Leftover(e)' = Leftover(e) /\ Leftover(e) \in {0, 1}
        /\ Len(wire[e]) \in Nat /\ Len(wire'[e]) = Len(wire[e]) + 1
        BY <1>0, <2>1, WriteStep, Kinds DEF Shape, Places
  <2>3. PlaceOK(e)' BY <1>0, <2>1, <2>2 DEF PlaceOK, Complete, Greeted
  <2> QED BY <2>2, <2>3
<1>2. CASE SendServerHello(e)
  <2>1. /\ pc[e] = "reply" /\ role[e] = "server" /\ Goto(e, "confirm")
        /\ UNCHANGED <<pyVars, cancel, seen, sequence, taken>> /\ role' = role
        /\ seen[e] # NoHello
        BY <1>0, <1>2 DEF SendServerHello, PlaceOK, Greeted, pyVars
  <2>2. seen[e].identity = Peer(e) /\ seen[e].fresh = Fresh(Peer(e))
        BY <1>0, <2>1, Kinds DEF SeenOK
  <2>3. WriteFrame(e, HelloOf(e)) BY <1>2, <2>1, <2>2 DEF SendServerHello, HelloOf, ServerHello
  <2>4. /\ Shape' /\ Touches(e) /\ (PlaceOK(e)' => EndOK(e)')
        /\ pc'[e] = "confirm" /\ Leftover(e)' = Leftover(e) /\ Leftover(e) \in {0, 1}
        /\ Len(wire[e]) \in Nat /\ Len(wire'[e]) = Len(wire[e]) + 1
        BY <1>0, <2>1, <2>3, WriteStep, Kinds DEF Shape, Places
  <2>5. PlaceOK(e)' BY <1>0, <2>1, <2>4 DEF PlaceOK, Complete, Greeted
  <2> QED BY <2>4, <2>5
<1>3. CASE SendFinished(e)
  <2> DEFINE p == IF role[e] = "server" THEN "await" ELSE "finish"
  <2>1. /\ pc[e] = "confirm" /\ Goto(e, p) /\ seen[e] # NoHello /\ role' = role
        /\ sequence' = [sequence EXCEPT ![e]["send"] = sequence[e]["send"] + 1]
        /\ UNCHANGED <<pyVars, cancel, seen, taken>>
        BY <1>0, <1>3 DEF SendFinished, PlaceOK, Greeted, pyVars
  <2>2. sequence[e]["send"] = 0 BY <1>0, <2>1 DEF PlaceOK, Complete
  <2>3. WriteFrame(e, FinishedOf(e)) BY <1>3, <2>1, <2>2, KeysAre DEF SendFinished, FinishedOf
  <2>4. /\ sequence' \in [Ends -> [Ways -> {0, 1}]] /\ sequence'[e]["send"] = 1
        /\ sequence'[e]["receive"] = sequence[e]["receive"]
        /\ \A d \in Ends \ {e} : sequence'[d] = sequence[d]
        BY <1>0, <2>1, <2>2 DEF Shape, Ways
  <2>5. p \in Places /\ p \notin {"secured", "closed"} BY DEF Places
  <2>6. /\ Shape' /\ Touches(e) /\ (PlaceOK(e)' => EndOK(e)')
        /\ pc'[e] = p /\ Leftover(e)' = Leftover(e) /\ Leftover(e) \in {0, 1}
        /\ Len(wire[e]) \in Nat /\ Len(wire'[e]) = Len(wire[e]) + 1
    <3> HIDE DEF p
    <3> QED BY <2>1, <2>3, <2>4, <2>5, WriteStep
  <2>7. role[e] \in Roles BY <1>0 DEF Shape
  <2>8. PlaceOK(e)'
        BY <1>0, <2>1, <2>2, <2>4, <2>6, <2>7 DEF PlaceOK, Complete, Greeted, Roles
  <2> QED BY <2>6, <2>8
<1> QED BY <1>1, <1>2, <1>3

\* Taking the next frame of the peer.
LEMMA TakeStep ==
    ASSUME IInv, NEW e \in Ends, ReadFrame(e)
    PROVE  /\ Readable(e) /\ taken[e] \in Nat /\ taken' \in [Ends -> Nat]
           /\ taken'[e] = taken[e] + 1 /\ taken'[e] <= Len(wire[Peer(e)])
           /\ \A d \in Ends \ {e} : taken'[d] = taken[d]
<1>1. taken \in [Ends -> Nat] BY DEF IInv, Shape
<1>2. Readable(e) /\ taken' = [taken EXCEPT ![e] = taken[e] + 1] BY DEF ReadFrame
<1>3. taken[e] + 1 \in 1 .. Len(wire[Peer(e)]) BY <1>2, NextFrame
<1>4. Len(wire[Peer(e)]) \in Nat BY <1>2, NextFrame
<1> QED BY <1>1, <1>2, <1>3, <1>4

\* A hello that passes the checks is the first frame of the pinned peer.
LEMMA HelloStep ==
    ASSUME IInv, NEW e \in Ends, AcceptHello(e)
    PROVE  Shape' /\ Touches(e) /\ EndOK(e)'
<1> DEFINE f == Peer(e)
           p == IF role[e] = "server" THEN "reply" ELSE "await"
<1>0. /\ Shape /\ EndOK(e) /\ PlaceOK(e) /\ f \in Ends /\ f # e
      /\ role[e] \in Roles /\ role[f] \in Roles
      BY PeerEnd DEF IInv, EndOK, Shape
<1>1. /\ ReadFrame(e) /\ Goto(e, p) /\ seen' = [seen EXCEPT ![e] = Frame(e)]
      /\ \/ role[e] = "server" /\ pc[e] = "start" /\ ClientHelloOK(e, Frame(e))
         \/ role[e] = "client" /\ pc[e] = "hello" /\ ServerHelloOK(e, Frame(e))
      /\ UNCHANGED <<role, pin, future, asked, cancel, sequence, wire>>
      BY DEF AcceptHello, pyVars
<1>2. /\ Readable(e) /\ taken[e] \in Nat /\ taken' \in [Ends -> Nat]
      /\ taken'[e] = taken[e] + 1 /\ taken'[e] <= Len(wire[f])
      /\ \A d \in Ends \ {e} : taken'[d] = taken[d]
      BY <1>1, TakeStep
<1>3. /\ seen[e] = NoHello /\ taken[e] = 0 /\ sequence[e]["send"] = 0
      /\ sequence[e]["receive"] = 0
      BY <1>0, <1>1 DEF PlaceOK, Greeted, Complete
<1>4. Frame(e) \in Frames /\ Frame(e) \in Leftovers \cup {HelloOf(f), FinishedOf(f)} /\ Frame(e) = wire[f][1]
      BY <1>2, <1>3, NextFrame
<1>5. Frame(e).type = IF role[e] = "server" THEN "client_hello" ELSE "server_hello"
      BY <1>1 DEF ClientHelloOK, ServerHelloOK
<1>6. Frame(e) = HelloOf(f) /\ role[f] = Opposite(role[e])
  <2>1. Frame(e) = HelloOf(f) BY <1>4, <1>5, Kinds
  <2>2. role[f] = "client" => HelloOf(f).type = "client_hello" BY Kinds
  <2>3. role[f] # "client" => HelloOf(f).type = "server_hello" BY Kinds
  <2> QED BY <1>0, <1>5, <2>1, <2>2, <2>3 DEF Opposite, Roles
<1>7. pin[e] = f /\ HelloOf(f) # NoHello
  <2>1. HelloOf(f).identity = f /\ HelloOf(f) # NoHello BY Kinds
  <2> QED BY <1>1, <1>6, <2>1 DEF ClientHelloOK, ServerHelloOK
<1>8. p \in {"reply", "await"} /\ p \in Places BY DEF Places
<1>9. /\ pc' \in [Ends -> Places] /\ pc'[e] = p /\ \A d \in Ends \ {e} : pc'[d] = pc[d]
      /\ seen' \in [Ends -> Frames \cup {NoHello}] /\ seen'[e] = HelloOf(f)
      /\ \A d \in Ends \ {e} : seen'[d] = seen[d]
  <2> HIDE DEF p
  <2> QED BY <1>0, <1>1, <1>4, <1>6, <1>8 DEF Shape, Goto
<1>10. Frames' = Frames /\ HelloOf(f)' = HelloOf(f) BY <1>0, <1>1, FramesFixed
<1>11. Shape' BY <1>0, <1>1, <1>2, <1>9, <1>10 DEF Shape
<1>12. Touches(e)
  <2>1. Len(wire[e]) \in Nat BY <1>0 DEF Shape
  <2> QED BY <1>1, <1>2, <1>3, <1>9, <2>1 DEF Touches
<1>13. EndOK(e)'
  <2>1. WroteOK(e)' BY <1>0, <1>1, <1>7, <1>9, FramesFixed DEF EndOK, WroteOK
  <2>2. SeenOK(e)'
        BY <1>0, <1>1, <1>2, <1>3, <1>4, <1>6, <1>7, <1>9, <1>10 DEF SeenOK
  <2>3. PlaceOK(e)'
    <3>1. Leftover(e)' = Leftover(e) BY <1>1 DEF Leftover
    <3>2. role'[e] = role[e] /\ (role[e] = "server" \/ role[e] = "client") BY <1>0, <1>1 DEF Roles
    <3> QED BY <1>0, <1>1, <1>2, <1>3, <1>7, <1>9, <3>1, <3>2 DEF PlaceOK, Greeted, Complete
  <2>4. ConfirmedOK(e)' BY <1>1, <1>3 DEF ConfirmedOK
  <2>5. AskedOK(e)' BY <1>0, <1>1, <1>8, <1>9 DEF EndOK, AskedOK
  <2> QED BY <1>1, <1>2, <2>1, <2>2, <2>3, <2>4, <2>5 DEF EndOK
<1> QED BY <1>11, <1>12, <1>13

\* A Finished message that opens is that of a peer that accepted e.
LEMMA FinishedStep ==
    ASSUME IInv, NEW e \in Ends, ReceiveFinished(e)
    PROVE  Shape' /\ Touches(e) /\ EndOK(e)'
<1> DEFINE f == Peer(e)
           p == IF role[e] = "server" THEN "finish" ELSE "confirm"
<1>0. /\ Shape /\ EndOK(e) /\ PlaceOK(e) /\ f \in Ends /\ f # e /\ role[e] \in Roles
      BY PeerEnd DEF IInv, EndOK, Shape
<1>1. pc[e] = "await" /\ ReadFrame(e) /\ UNCHANGED <<role, pin, future, asked, seen, wire>>
      BY DEF ReceiveFinished, pyVars
<1>2. CASE ~FinishedOK(e, Frame(e))
  <2>1. Fail(e) /\ UNCHANGED <<pyVars, seen, sequence, wire>> BY <1>2 DEF ReceiveFinished
  <2> QED BY <1>1, <2>1, FailStep
<1>3. CASE FinishedOK(e, Frame(e))
  <2>1. /\ Goto(e, p) /\ cancel' = cancel
        /\ sequence' = [sequence EXCEPT ![e]["receive"] = sequence[e]["receive"] + 1]
        BY <1>3 DEF ReceiveFinished
  <2>2. /\ Readable(e) /\ taken[e] \in Nat /\ taken' \in [Ends -> Nat]
        /\ taken'[e] = taken[e] + 1 /\ taken'[e] <= Len(wire[f])
        /\ \A d \in Ends \ {e} : taken'[d] = taken[d]
        BY <1>1, TakeStep
  <2>3. seen[e] # NoHello /\ taken[e] = 1 /\ sequence[e]["receive"] = 0
        BY <1>0, <1>1 DEF PlaceOK, Greeted, Complete
  <2>4. seen[f] # NoHello
    <3>1. /\ Frame(e) \in Leftovers \cup {HelloOf(f), FinishedOf(f)}
          /\ Frame(e) = FinishedOf(f) => seen[f] # NoHello
          BY <2>2, NextFrame
    <3>2. Frame(e).type = "sealed" BY <1>3 DEF FinishedOK, Sealed
    <3>3. (\A b \in Leftovers : b.type # "sealed") /\ HelloOf(f).type # "sealed" BY Kinds
    <3> QED BY <3>1, <3>2, <3>3
  <2>5. /\ sequence' \in [Ends -> [Ways -> {0, 1}]] /\ sequence'[e]["receive"] = 1
        /\ sequence'[e]["send"] = sequence[e]["send"]
        /\ \A d \in Ends \ {e} : sequence'[d] = sequence[d]
        BY <1>0, <2>1, <2>3 DEF Shape, Ways
  <2>6. p \in {"finish", "confirm"} /\ p \in Places BY DEF Places
  <2>7. pc' \in [Ends -> Places] /\ pc'[e] = p /\ \A d \in Ends \ {e} : pc'[d] = pc[d]
    <3> HIDE DEF p
    <3> QED BY <1>0, <2>1, <2>6 DEF Shape, Goto
  <2>8. Shape'
    <3>1. Frames' = Frames BY <1>1, FramesFixed
    <3> QED BY <1>0, <1>1, <2>1, <2>2, <2>5, <2>7, <3>1 DEF Shape
  <2>9. Touches(e)
    <3>1. Len(wire[e]) \in Nat BY <1>0 DEF Shape
    <3> QED BY <1>1, <2>1, <2>2, <2>5, <2>7, <3>1 DEF Touches
  <2>10. EndOK(e)'
    <3>1. WroteOK(e)' BY <1>0, <1>1, FramesFixed DEF EndOK, WroteOK
    <3>2. SeenOK(e)' BY <1>0, <1>1, <2>2, <2>3, FramesFixed DEF EndOK, SeenOK
    <3>3. PlaceOK(e)'
      <4>1. Leftover(e)' = Leftover(e) BY <1>1 DEF Leftover
      <4>2. role'[e] = role[e] /\ (role[e] = "server" \/ role[e] = "client") BY <1>0, <1>1 DEF Roles
      <4> QED BY <1>0, <1>1, <2>2, <2>3, <2>5, <2>7, <4>1, <4>2 DEF PlaceOK, Greeted, Complete
    <3>4. ConfirmedOK(e)' BY <1>1, <2>4 DEF ConfirmedOK
    <3>5. AskedOK(e)' BY <1>0, <1>1, <2>1, <2>6, <2>7 DEF EndOK, AskedOK
    <3> QED BY <1>1, <2>2, <3>1, <3>2, <3>3, <3>4, <3>5 DEF EndOK
  <2> QED BY <2>8, <2>9, <2>10
<1> QED BY <1>2, <1>3

\* A step that exchanges nothing: the end of the upgrade, close() and the
\* life of the asyncio future.
LEMMA QuietStep ==
    ASSUME IInv, NEW e \in Ends, UNCHANGED <<role, pin, seen, sequence, wire, taken>>,
           pc' \in [Ends -> Places], cancel' \in [Ends -> BOOLEAN],
           future' \in [Ends -> {"pending", "cancelling", "cancelled", "delivered"}],
           asked' \in [Ends -> {"never", "upgrading", "secured"}],
           \A d \in Ends \ {e} : pc'[d] = pc[d] /\ cancel'[d] = cancel[d] /\ asked'[d] = asked[d],
           \/ pc'[e] = pc[e] \/ pc'[e] = "failed" \/ (pc[e] = "finish" /\ pc'[e] = "secured")
           \/ (pc[e] = "secured" /\ pc'[e] = "closed"),
           AskedOK(e)'
    PROVE  Shape' /\ Touches(e) /\ EndOK(e)'
<1>0. Shape /\ EndOK(e) BY DEF IInv
<1>1. Frames' = Frames BY FramesFixed
<1>2. Shape' BY <1>0, <1>1 DEF Shape
<1>3. Touches(e)
  <2>1. Len(wire[e]) \in Nat BY <1>0 DEF Shape
  <2> QED BY <2>1 DEF Touches
<1>4. WroteOK(e)' BY <1>0, FramesFixed DEF EndOK, WroteOK
<1>5. SeenOK(e)' BY <1>0, FramesFixed, PeerEnd DEF EndOK, SeenOK
<1>6. PlaceOK(e)' BY <1>0 DEF EndOK, PlaceOK, Greeted, Complete, Leftover
<1>7. ConfirmedOK(e)' BY <1>0 DEF EndOK, ConfirmedOK
<1> QED BY <1>0, <1>2, <1>3, <1>4, <1>5, <1>6, <1>7 DEF EndOK

\* Every step keeps the invariant.
LEMMA StepKeeps ==
    ASSUME IInv, NEW e \in Ends, Run(e) \/ Close(e) \/ PyCancel(e) \/ PyCallback(e)
                                 \/ DropTask(e) \/ Discard(e) \/ Deliver(e)
    PROVE  IInv'
<1> SUFFICES Shape' /\ Touches(e) /\ EndOK(e)'
  <2>1. ASSUME Shape' /\ Touches(e) /\ EndOK(e)' PROVE \A d \in Ends : EndOK(d)'
        BY <2>1, OtherKeeps
  <2> QED BY <2>1 DEF IInv
<1>0. Shape /\ AskedOK(e) BY DEF IInv, EndOK
<1>1. CASE SendClientHello(e) \/ SendServerHello(e) \/ SendFinished(e) BY <1>1, Writers
<1>2. CASE AcceptHello(e) BY <1>2, HelloStep
<1>3. CASE ReceiveFinished(e) BY <1>3, FinishedStep
<1>4. CASE RejectHello(e) \/ Cancelled(e) \/ PeerGone(e) \/ DropTask(e)
      BY <1>4, FailStep DEF RejectHello, Cancelled, PeerGone, DropTask
<1>00. /\ pc \in [Ends -> Places] /\ cancel \in [Ends -> BOOLEAN]
       /\ future \in [Ends -> {"pending", "cancelling", "cancelled", "delivered"}]
       /\ asked \in [Ends -> {"never", "upgrading", "secured"}]
       BY <1>0 DEF Shape
<1>5. CASE FinishSecure(e)
  <2> DEFINE p == IF cancel[e] THEN "failed" ELSE "secured"
  <2>1. /\ pc[e] = "finish" /\ pc' = [pc EXCEPT ![e] = p]
        /\ UNCHANGED <<role, pin, future, asked, cancel, seen, sequence, wire, taken>>
        BY <1>5 DEF FinishSecure, Goto, pyVars
  <2>2. p \in Places BY DEF Places
  <2>3. pc' \in [Ends -> Places] /\ pc'[e] = p /\ \A d \in Ends \ {e} : pc'[d] = pc[d]
        BY <1>00, <2>1, <2>2
  <2>4. AskedOK(e)' BY <1>0, <2>1, <2>3 DEF AskedOK
  <2>5. pc'[e] = "failed" \/ (pc[e] = "finish" /\ pc'[e] = "secured") BY <2>1, <2>3
  <2> HIDE DEF p
  <2> QED BY <1>00, <2>1, <2>3, <2>4, <2>5, QuietStep
<1>6. CASE Waiter(e)
  <2>1. /\ pc' \in [Ends -> Places] /\ pc[e] = "secured" /\ pc'[e] = "closed"
        /\ \A d \in Ends \ {e} : pc'[d] = pc[d]
        BY <1>00, <1>6 DEF Waiter, Places, Goto
  <2>2. UNCHANGED <<role, pin, future, asked, cancel, seen, sequence, wire, taken>>
        BY <1>6 DEF Waiter, pyVars
  <2>3. AskedOK(e)' BY <1>0, <2>1, <2>2 DEF AskedOK
  <2> QED BY <1>00, <2>1, <2>2, <2>3, QuietStep
<1>7. CASE Close(e)
  <2> DEFINE a == IF asked[e] # "never" THEN asked[e]
                  ELSE IF pc[e] = "secured" THEN "secured" ELSE "upgrading"
  <2>1. /\ ~Gone(e) /\ cancel' = [cancel EXCEPT ![e] = TRUE] /\ asked' = [asked EXCEPT ![e] = a]
        /\ UNCHANGED <<role, pin, future, pc, seen, sequence, wire, taken>>
        BY <1>7 DEF Close, CancelToken
  <2>2. a \in {"never", "upgrading", "secured"} BY <1>00
  <2>3. /\ asked' \in [Ends -> {"never", "upgrading", "secured"}] /\ asked'[e] = a
        /\ \A d \in Ends \ {e} : asked'[d] = asked[d]
        BY <1>00, <2>1, <2>2
  <2>4. /\ cancel' \in [Ends -> BOOLEAN] /\ cancel'[e] = TRUE
        /\ \A d \in Ends \ {e} : cancel'[d] = cancel[d]
        BY <1>00, <2>1
  <2>5. AskedOK(e)' BY <1>0, <2>1, <2>3, <2>4 DEF AskedOK, Gone
  <2> HIDE DEF a
  <2> QED BY <1>00, <2>1, <2>3, <2>4, <2>5, QuietStep
<1>8. CASE PyCallback(e) \/ Discard(e)
  <2>1. /\ cancel' = [cancel EXCEPT ![e] = TRUE]
        /\ future' \in [Ends -> {"pending", "cancelling", "cancelled", "delivered"}]
        /\ UNCHANGED <<role, pin, asked, pc, seen, sequence, wire, taken>>
        BY <1>00, <1>8 DEF PyCallback, Discard, CancelToken, pyVars
  <2>2. /\ cancel' \in [Ends -> BOOLEAN] /\ cancel'[e] = TRUE
        /\ \A d \in Ends \ {e} : cancel'[d] = cancel[d]
        BY <1>00, <2>1
  <2>3. AskedOK(e)' BY <1>0, <2>1, <2>2 DEF AskedOK
  <2> QED BY <1>00, <2>1, <2>2, <2>3, QuietStep
<1>9. CASE PyCancel(e) \/ Deliver(e)
  <2>1. /\ UNCHANGED <<role, pin, asked, cancel, pc, seen, sequence, wire, taken>>
        /\ future' \in [Ends -> {"pending", "cancelling", "cancelled", "delivered"}]
        BY <1>00, <1>9 DEF PyCancel, Deliver
  <2>2. AskedOK(e)' BY <1>0, <2>1 DEF AskedOK
  <2> QED BY <1>00, <2>1, <2>2, QuietStep
<1> QED BY <1>1, <1>2, <1>3, <1>4, <1>5, <1>6, <1>7, <1>8, <1>9 DEF Run

-----------------------------------------------------------------------------
(* The invariant and what follows from it.                                 *)

\* The upgrade starts with nothing exchanged but plain bytes.
LEMMA InitInv == Init => IInv
<1> SUFFICES ASSUME Init PROVE IInv OBVIOUS
<1>1. (\A b \in Leftovers : <<b>> \in Seq(Frames)) /\ <<>> \in Seq(Frames) BY DEF Frames
<1>2. Shape
  <2>1. {<<>>} \cup {<<b>> : b \in Leftovers} \subseteq Seq(Frames) BY <1>1
  <2>2. wire \in [Ends -> Seq(Frames)] BY <2>1 DEF Init
  <2> QED BY <2>2 DEF Init, Shape, Places, Ways
<1>3. ASSUME NEW e \in Ends PROVE EndOK(e)
  <2>1. /\ Peer(e) \in Ends /\ wire[e] \in {<<>>} \cup {<<b>> : b \in Leftovers} /\ Len(wire[Peer(e)]) \in Nat
        /\ taken[e] = 0 /\ seen[e] = NoHello /\ pc[e] = "start" /\ asked[e] = "never"
        /\ sequence[e]["send"] = 0 /\ sequence[e]["receive"] = 0
        BY <1>2, PeerEnd DEF Init, Shape, Ways
  <2>2. WroteOK(e)
    <3>1. ASSUME NEW i \in 1 .. Len(wire[e]) PROVE wire[e][i] \in Leftovers BY <2>1
    <3> QED BY <3>1, Kinds DEF WroteOK
  <2>3. Len(wire[e]) = Leftover(e)
    <3>1. CASE wire[e] = <<>> BY <3>1 DEF Leftover
    <3>2. ASSUME NEW b \in Leftovers, wire[e] = <<b>> PROVE Len(wire[e]) = Leftover(e)
      <4>1. Len(wire[e]) = 1 /\ wire[e][1] = b BY <3>2
      <4> QED BY <3>2, <4>1 DEF Leftover
    <3> QED BY <2>1, <3>1, <3>2
  <2>4. PlaceOK(e) BY <2>1, <2>3 DEF PlaceOK, Greeted, Complete
  <2> QED BY <2>1, <2>2, <2>4 DEF EndOK, SeenOK, ConfirmedOK, AskedOK
<1> QED BY <1>2, <1>3 DEF IInv

\* The invariant is inductive.
THEOREM Invariance == Spec => []IInv
<1>1. IInv /\ [Next]_vars => IInv'
  <2> SUFFICES ASSUME IInv, [Next]_vars PROVE IInv' OBVIOUS
  <2>1. CASE Next BY <2>1, StepKeeps DEF Next
  <2>2. CASE UNCHANGED vars
    <3>1. UNCHANGED <<role, pin, future, asked, cancel, pc, seen, sequence, wire, taken>>
          BY <2>2 DEF vars, pyVars
    <3>2. Frames' = Frames /\ \A e \in Ends : HelloOf(e)' = HelloOf(e) /\ FinishedOf(e)' = FinishedOf(e)
          BY <3>1, FramesFixed
    <3>3. Shape' BY <3>1, <3>2 DEF IInv, Shape
    <3>4. ASSUME NEW e \in Ends PROVE EndOK(e)'
      <4>1. EndOK(e) /\ Peer(e) \in Ends BY PeerEnd DEF IInv
      <4> QED BY <3>1, <3>2, <4>1 DEF EndOK, WroteOK, SeenOK, PlaceOK, ConfirmedOK, AskedOK,
                                      Greeted, Complete, Leftover
    <3> QED BY <3>3, <3>4 DEF IInv
  <2> QED BY <2>1, <2>2
<1> QED BY <1>1, InitInv, PTL DEF Spec

\* Type correctness of the upgrade.
THEOREM TypeCorrect == Spec => []TypeOK
<1>1. IInv => TypeOK
  <2> SUFFICES ASSUME IInv PROVE TypeOK OBVIOUS
  <2>1. ASSUME NEW e \in Ends
        PROVE  /\ taken[e] \in 0 .. Len(wire[Peer(e)])
               /\ pc[e] \in {"confirm", "await", "finish", "secured"} => seen[e] # NoHello
    <3>1. /\ taken[e] \in Nat /\ Len(wire[Peer(e)]) \in Nat /\ taken[e] <= Len(wire[Peer(e)])
          BY PeerEnd DEF IInv, Shape, EndOK
    <3>2. PlaceOK(e) BY DEF IInv, EndOK
    <3> QED BY <3>1, <3>2 DEF PlaceOK, Greeted
  <2> QED BY <2>1 DEF TypeOK, IInv, Shape
<1> QED BY <1>1, Invariance, PTL

\* "Mutually authenticated": a secured end and its peer pinned each other, have
\* opposite roles and derived the same keys, whatever either was configured
\* with and whatever was left in the stream.
THEOREM MutualAgreement == Spec => []Agreement
<1>1. IInv => Agreement
  <2> SUFFICES ASSUME IInv, NEW e \in Ends, pc[e] = "secured"
               PROVE  LET f == Peer(e) IN
                      /\ pin[e] = f /\ pin[f] = e
                      /\ role[f] = Opposite(role[e])
                      /\ seen[f] # NoHello /\ KeyMaterial(f) = KeyMaterial(e)
      BY DEF Agreement
  <2> DEFINE f == Peer(e)
  <2>1. f \in Ends /\ Peer(f) = e BY PeerEnd
  <2>2. seen[e] # NoHello /\ seen[f] # NoHello
        BY DEF IInv, EndOK, PlaceOK, ConfirmedOK, Greeted, Complete
  <2>3. pin[e] = f /\ role[f] = Opposite(role[e]) BY <2>2 DEF IInv, EndOK, SeenOK
  <2>4. pin[f] = e BY <2>1, <2>2 DEF IInv, EndOK, SeenOK
  <2>5. KeyMaterial(e) = Keys(e) /\ KeyMaterial(f) = Keys(f) BY <2>1, <2>2, KeysAre
  <2>6. role[e] \in Roles BY DEF IInv, Shape
  <2>7. Keys(e) = Keys(f) BY <2>1, <2>3, <2>6 DEF Keys, Opposite, Roles
  <2> QED BY <2>2, <2>3, <2>4, <2>5, <2>7
<1> QED BY <1>1, Invariance, PTL

\* A secured end consumed two frames of its peer and wrote two, and both its
\* directions stand at 1, so the first data message is the next frame.
THEOREM TrafficStartsClean == Spec => []ReadyForTraffic
<1>1. IInv => ReadyForTraffic
  <2> SUFFICES ASSUME IInv, NEW e \in Ends, pc[e] = "secured"
               PROVE  taken[e] = 2 /\ sequence[e] = [d \in Ways |-> 1] /\ Len(wire[e]) = 2
      BY DEF ReadyForTraffic
  <2> DEFINE f == Peer(e)
  <2>1. f \in Ends /\ Peer(f) = e BY PeerEnd
  <2>2. /\ sequence[e]["send"] = 1 /\ sequence[e]["receive"] = 1 /\ taken[e] = 2
        /\ Len(wire[e]) = Leftover(e) + 1 + 1
        BY DEF IInv, EndOK, PlaceOK, Greeted, Complete
  <2>3. seen[f] # NoHello BY <2>2 DEF IInv, EndOK, ConfirmedOK
  <2>4. wire[e][1] \notin Leftovers BY <2>1, <2>3, Kinds DEF IInv, EndOK, SeenOK
  <2>5. Leftover(e) = 0 BY <2>4 DEF Leftover
  <2>6. sequence[e] \in [Ways -> {0, 1}] BY DEF IInv, Shape
  <2>7. sequence[e] = [d \in Ways |-> 1] BY <2>2, <2>6 DEF Ways
  <2> QED BY <2>2, <2>5, <2>7
<1> QED BY <1>1, Invariance, PTL

\* close() called while the wrapper is upgrading wins over the handshake.
THEOREM CloseWins == Spec => []CloseStopsUpgrade
<1>1. IInv => CloseStopsUpgrade BY DEF IInv, EndOK, AskedOK, CloseStopsUpgrade
<1> QED BY <1>1, Invariance, PTL
=============================================================================
