------------------------------ MODULE Handshake ------------------------------
(***************************************************************************)
(* The secure upgrade of a connection: SecureConnection::client and        *)
(* SecureConnection::server of crates/taunicorn/src/security.rs, started   *)
(* by PySecureConnection::establish of the Python binding.                 *)
(*                                                                         *)
(* Both ends of one connection upgrade it, each in the role and with the   *)
(* pinned peer identity its application configured, rightly or wrongly.    *)
(* Plain bytes sent before the upgrade may still be in the stream, and are *)
(* then read as the length and the body of a frame.  The application may   *)
(* cancel the asyncio future of either upgrade, or close its Connection,   *)
(* at any time.  Places of an end:                                         *)
(*   start    about to write, or await, the client hello                   *)
(*   hello    client: awaiting the server hello                            *)
(*   reply    server: the client hello is accepted                         *)
(*   confirm  about to send its Finished message                           *)
(*   await    awaiting the peer's Finished message                         *)
(*   finish   handshake complete, the wrapper not switched over yet        *)
(*   secured  the wrapper holds a SecureSession                            *)
(*   closed   ... whose transport was closed                               *)
(*   failed   no session came about and the raw socket is gone             *)
(*                                                                         *)
(* Cryptography is symbolic: a signature is its signer and its message, a  *)
(* sealed message opens only under the same keys, direction and sequence.  *)
(***************************************************************************)
EXTENDS Naturals, Sequences

CONSTANTS Ends,      \* the two ends of the connection; each is an identity
          Stranger,  \* the identity of somebody else
          Excess     \* the frames that a leftover may claim for its body

ASSUME EndsAssumption ==
    /\ \E a, b \in Ends : a # b /\ Ends = {a, b}
    /\ Stranger \notin Ends
    /\ Excess \subseteq Nat

Roles == {"client", "server"}
Peer(e) == CHOOSE f \in Ends : f # e
Opposite(r) == IF r = "client" THEN "server" ELSE "client"

VARIABLES
    role, pin,   \* the arguments of establish: client, peer_identity_public_key
    cancel,      \* the token of the upgrade, and of the session after it
    future,      \* future[e]: the asyncio future that establish returned
    asked,       \* history: where e was when the application first closed it
    pc,
    seen,        \* seen[e]: the hello that e accepted
    sequence,    \* sequence[e][d]: DirectionState.sequence, d in Ways
    wire,        \* wire[e]: the frames e has written
    taken        \* taken[e]: how many frames of its peer e has read

pyVars == <<role, pin, future, asked>>
vars == <<pyVars, cancel, pc, seen, sequence, wire, taken>>

Places == {"start", "hello", "reply", "confirm", "await", "finish", "secured",
           "closed", "failed"}
Ways   == {"send", "receive"}
NoHello == [type |-> "none"]

-----------------------------------------------------------------------------
(* Messages.                                                               *)

\* Each handshake draws a fresh X25519 key and nonce: as fresh as its end.
Fresh(e) == [fresh |-> e]

Signed(signer, message) == [signer |-> signer, message |-> message]

\* client_signature_message names the server it is meant for, and
\* server_signature_message both identities and both fresh values.
ClientSigns(identity, fresh, server) == <<"client-auth", identity, server, fresh>>
ServerSigns(client, clientFresh, server, serverFresh) ==
    <<"server-auth", client, server, clientFresh, serverFresh>>

Hello(type, e, message) ==
    [type |-> type, identity |-> e, fresh |-> Fresh(e), signature |-> Signed(e, message)]

\* Bytes of the plain protocol.  read_frame takes the first four as a length:
\* the body ends before the next frame, or the length is refused (claims = 0),
\* or it takes in bytes of as many frames as follow (claims > 0).
Plain(n) == [type |-> "plain", claims |-> n]
Leftovers == {Plain(n) : n \in Excess}

\* derive_key_material from the ephemeral secret and the transcript hash.
KeyMaterial(e) ==
    IF role[e] = "client"
    THEN <<e, seen[e].identity, Fresh(e), seen[e].fresh>>
    ELSE <<seen[e].identity, e, seen[e].fresh, Fresh(e)>>

Sealed(keys, direction, n, text) ==
    [type |-> "sealed", keys |-> keys, direction |-> direction, sequence |-> n, text |-> text]

Finished(r) == IF r = "client" THEN "client-finished" ELSE "server-finished"

TypeOK ==
    /\ role \in [Ends -> Roles]
    /\ pin \in [Ends -> Ends \cup {Stranger}]
    /\ cancel \in [Ends -> BOOLEAN]
    /\ future \in [Ends -> {"pending", "cancelling", "cancelled", "delivered"}]
    /\ asked \in [Ends -> {"never", "upgrading", "secured"}]
    /\ pc \in [Ends -> Places]
    /\ sequence \in [Ends -> [Ways -> {0, 1}]]
    /\ \A e \in Ends :
          /\ taken[e] \in 0 .. Len(wire[Peer(e)])
          /\ pc[e] \in {"confirm", "await", "finish", "secured"} => seen[e] # NoHello

Init ==
    /\ role \in [Ends -> Roles]
    /\ pin \in [Ends -> Ends \cup {Stranger}]
    /\ cancel = [e \in Ends |-> FALSE]
    /\ future = [e \in Ends |-> "pending"]
    /\ asked = [e \in Ends |-> "never"]
    /\ pc = [e \in Ends |-> "start"]
    /\ seen = [e \in Ends |-> NoHello]
    /\ sequence = [e \in Ends |-> [d \in Ways |-> 0]]
    /\ wire \in [Ends -> {<<>>} \cup {<<b>> : b \in Leftovers}]
    /\ taken = [e \in Ends |-> 0]

-----------------------------------------------------------------------------
Goto(e, place) == pc' = [pc EXCEPT ![e] = place]

CancelToken(e) == cancel' = [cancel EXCEPT ![e] = TRUE]

\* The task ends without a session: the raw socket is dropped, and cancel_guard
\* leaves the upgrading wrapper in a terminal state.
Fail(e) == Goto(e, "failed") /\ CancelToken(e)

Frame(e) == wire[Peer(e)][taken[e] + 1]

\* read_exact has all the bytes that the length announced.
Readable(e) ==
    /\ taken[e] < Len(wire[Peer(e)])
    /\ Frame(e) \in Leftovers => taken[e] + 1 + Frame(e).claims <= Len(wire[Peer(e)])

ReadFrame(e) == Readable(e) /\ taken' = [taken EXCEPT ![e] = @ + 1]

Gone(e) == pc[e] \in {"closed", "failed"}

\* Connection::send succeeds while the peer still has its socket.
WriteFrame(e, frame) ==
    /\ ~Gone(Peer(e))
    /\ wire' = [wire EXCEPT ![e] = Append(@, frame)]

-----------------------------------------------------------------------------
(* The hellos.                                                             *)

SendClientHello(e) ==
    /\ pc[e] = "start" /\ role[e] = "client"
    /\ WriteFrame(e, Hello("client_hello", e, ClientSigns(e, Fresh(e), pin[e])))
    /\ Goto(e, "hello")
    /\ UNCHANGED <<pyVars, cancel, seen, sequence, taken>>

\* verify_signature under the identity that the hello claims.
Verifies(hello, message) == hello.signature = Signed(hello.identity, message)

\* Fault: the pinned identity is not compared.
ClientHelloUnpinned(e, hello) ==
    /\ hello.type = "client_hello"
    /\ Verifies(hello, ClientSigns(hello.identity, hello.fresh, e))

\* decode_client_hello, the pinned identity, and the signature.
ClientHelloOK(e, hello) ==
    /\ hello.type = "client_hello"
    /\ hello.identity = pin[e]
    /\ Verifies(hello, ClientSigns(hello.identity, hello.fresh, e))

ServerHelloOK(e, hello) ==
    /\ hello.type = "server_hello"
    /\ hello.identity = pin[e]
    /\ Verifies(hello, ServerSigns(e, Fresh(e), hello.identity, hello.fresh))

\* Fault: the server forgets whom it accepted.
AcceptHelloForgets(e) ==
    /\ \/ /\ role[e] = "server" /\ pc[e] = "start" /\ ReadFrame(e)
          /\ ClientHelloOK(e, Frame(e)) /\ Goto(e, "confirm")
       \/ /\ role[e] = "client" /\ pc[e] = "hello" /\ ReadFrame(e)
          /\ ServerHelloOK(e, Frame(e)) /\ Goto(e, "await")
    /\ UNCHANGED <<pyVars, cancel, seen, sequence, wire>>

\* The next frame is the hello that e expects; any other one is an error.
AcceptHello(e) ==
    /\ \/ /\ role[e] = "server" /\ pc[e] = "start" /\ ReadFrame(e)
          /\ ClientHelloOK(e, Frame(e)) /\ Goto(e, "reply")
       \/ /\ role[e] = "client" /\ pc[e] = "hello" /\ ReadFrame(e)
          /\ ServerHelloOK(e, Frame(e)) /\ Goto(e, "await")
    /\ seen' = [seen EXCEPT ![e] = Frame(e)]
    /\ UNCHANGED <<pyVars, cancel, sequence, wire>>

RejectHello(e) ==
    /\ \/ role[e] = "server" /\ pc[e] = "start" /\ ReadFrame(e) /\ ~ClientHelloOK(e, Frame(e))
       \/ role[e] = "client" /\ pc[e] = "hello" /\ ReadFrame(e) /\ ~ServerHelloOK(e, Frame(e))
    /\ Fail(e)
    /\ UNCHANGED <<pyVars, seen, sequence, wire>>

\* Fault: the server, too, waits before it confirms.
SendServerHelloThenAwait(e) ==
    /\ pc[e] = "reply"
    /\ WriteFrame(e, Hello("server_hello", e,
                           ServerSigns(seen[e].identity, seen[e].fresh, e, Fresh(e))))
    /\ Goto(e, "await")
    /\ UNCHANGED <<pyVars, cancel, seen, sequence, taken>>

SendServerHello(e) ==
    /\ pc[e] = "reply"
    /\ WriteFrame(e, Hello("server_hello", e,
                           ServerSigns(seen[e].identity, seen[e].fresh, e, Fresh(e))))
    /\ Goto(e, "confirm")
    /\ UNCHANGED <<pyVars, cancel, seen, sequence, taken>>

-----------------------------------------------------------------------------
(* Key confirmation: the first message in each direction.  The server      *)
(* sends its own before it waits, the client waits first.                  *)

\* Fault: the sequence number is not advanced.
SendFinishedStuck(e) ==
    /\ pc[e] = "confirm"
    /\ WriteFrame(e, Sealed(KeyMaterial(e), role[e], sequence[e]["send"], Finished(role[e])))
    /\ Goto(e, IF role[e] = "server" THEN "await" ELSE "finish")
    /\ UNCHANGED <<pyVars, cancel, seen, sequence, taken>>

SendFinished(e) ==
    /\ pc[e] = "confirm"
    /\ WriteFrame(e, Sealed(KeyMaterial(e), role[e], sequence[e]["send"], Finished(role[e])))
    /\ sequence' = [sequence EXCEPT ![e]["send"] = @ + 1]
    /\ Goto(e, IF role[e] = "server" THEN "await" ELSE "finish")
    /\ UNCHANGED <<pyVars, cancel, seen, taken>>

\* Fault: the receiving direction is set up with the sender's own constant.
FinishedOwnDirection(e, frame) ==
    LET sender == Opposite(role[e]) IN
    frame = Sealed(KeyMaterial(e), role[e], sequence[e]["receive"], Finished(sender))

FinishedOK(e, frame) ==
    LET sender == Opposite(role[e]) IN
    frame = Sealed(KeyMaterial(e), sender, sequence[e]["receive"], Finished(sender))

ReceiveFinished(e) ==
    /\ pc[e] = "await" /\ ReadFrame(e)
    /\ \/ /\ FinishedOK(e, Frame(e))
          /\ sequence' = [sequence EXCEPT ![e]["receive"] = @ + 1]
          /\ Goto(e, IF role[e] = "server" THEN "finish" ELSE "confirm")
          /\ UNCHANGED cancel
       \/ ~FinishedOK(e, Frame(e)) /\ Fail(e) /\ UNCHANGED sequence
    /\ UNCHANGED <<pyVars, seen, wire>>

-----------------------------------------------------------------------------
(* Ending the upgrade.                                                     *)

\* Fault: the token is not looked at again.
FinishSecureUnchecked(e) ==
    /\ pc[e] = "finish"
    /\ Goto(e, "secured")
    /\ UNCHANGED <<pyVars, cancel, seen, sequence, wire, taken>>

\* finish_secure gives the wrapper the session, unless it was cancelled.
FinishSecure(e) ==
    /\ pc[e] = "finish"
    /\ Goto(e, IF cancel[e] THEN "failed" ELSE "secured")
    /\ UNCHANGED <<pyVars, cancel, seen, sequence, wire, taken>>

Underway(e) == pc[e] \notin {"finish", "secured", "closed", "failed"}

\* The biased select! drops the handshake and with it the raw socket.
Cancelled(e) ==
    /\ Underway(e) /\ cancel[e]
    /\ Fail(e)
    /\ UNCHANGED <<pyVars, seen, sequence, wire, taken>>

\* A read meets the end of the stream, or a write a peer that is gone.
PeerGone(e) ==
    /\ Underway(e) /\ Gone(Peer(e))
    /\ pc[e] \in {"hello", "await"} \/ (pc[e] = "start" /\ role[e] = "server") => ~Readable(e)
    /\ Fail(e)
    /\ UNCHANGED <<pyVars, seen, sequence, wire, taken>>

\* Fault: nobody watches the token of the session.
WaiterIdle(e) == FALSE /\ UNCHANGED vars

\* The task spawned by SecureSession::new closes the transport.
Waiter(e) ==
    /\ pc[e] = "secured" /\ cancel[e]
    /\ Goto(e, "closed")
    /\ UNCHANGED <<pyVars, cancel, seen, sequence, wire, taken>>

-----------------------------------------------------------------------------
(* The asyncio future, and the application.                                *)

\* Connection.close() while it is upgrading, or secure.
Close(e) ==
    /\ ~Gone(e)
    /\ CancelToken(e)
    /\ asked' = [asked EXCEPT ![e] =
          IF @ # "never" THEN @ ELSE IF pc[e] = "secured" THEN "secured" ELSE "upgrading"]
    /\ UNCHANGED <<role, pin, future, pc, seen, sequence, wire, taken>>

\* The application cancels the future, even one whose task has finished.
PyCancel(e) ==
    /\ future[e] = "pending"
    /\ future' = [future EXCEPT ![e] = "cancelling"]
    /\ UNCHANGED <<role, pin, asked, cancel, pc, seen, sequence, wire, taken>>

\* CancelOnPythonCancellation, run by the event loop.
PyCallback(e) ==
    /\ future[e] = "cancelling"
    /\ future' = [future EXCEPT ![e] = "cancelled"]
    /\ CancelToken(e)
    /\ UNCHANGED <<role, pin, asked, pc, seen, sequence, wire, taken>>

\* tokio drops the task of a cancelled future at an await.
DropTask(e) ==
    /\ future[e] \in {"cancelling", "cancelled"} /\ Underway(e)
    /\ Fail(e)
    /\ UNCHANGED <<pyVars, seen, sequence, wire, taken>>

\* The bridge drops the PySecureConnection that a cancelled future was to get.
Discard(e) ==
    /\ future[e] \in {"cancelling", "cancelled"} /\ pc[e] = "secured"
    /\ CancelToken(e)
    /\ UNCHANGED <<pyVars, pc, seen, sequence, wire, taken>>

Deliver(e) ==
    /\ future[e] = "pending" /\ ~Underway(e) /\ pc[e] # "finish"
    /\ future' = [future EXCEPT ![e] = "delivered"]
    /\ UNCHANGED <<role, pin, asked, cancel, pc, seen, sequence, wire, taken>>

-----------------------------------------------------------------------------
Run(e) ==
    \/ SendClientHello(e) \/ AcceptHello(e) \/ RejectHello(e) \/ SendServerHello(e)
    \/ SendFinished(e) \/ ReceiveFinished(e) \/ FinishSecure(e)
    \/ Cancelled(e) \/ PeerGone(e) \/ Waiter(e)

Next ==
    \E e \in Ends :
        \/ Run(e) \/ Close(e) \/ PyCancel(e) \/ PyCallback(e)
        \/ DropTask(e) \/ Discard(e) \/ Deliver(e)

Spec == Init /\ [][Next]_vars

\* tokio polls both ends and asyncio runs its callbacks; closing and
\* cancelling are the application's choice.
FairSpec ==
    Spec /\ \A e \in Ends : WF_vars(Run(e)) /\ WF_vars(PyCallback(e))

-----------------------------------------------------------------------------
(* Properties.                                                             *)

\* A secured end talks to the identity it pinned, in the opposite role, that
\* end has pinned it in turn, and both derived the same keys: a wrong pin on
\* either side, a wrong role or leftover plain bytes end or stall the upgrade,
\* and no end is secured that its peer did not confirm ("mutually authenticated").
Agreement ==
    \A e \in Ends :
        pc[e] = "secured" =>
            LET f == Peer(e) IN
            /\ pin[e] = f /\ pin[f] = e
            /\ role[f] = Opposite(role[e])
            /\ seen[f] # NoHello /\ KeyMaterial(f) = KeyMaterial(e)

\* A secured end starts traffic where its peer does: it consumed the peer's
\* hello and Finished and nothing else, and both directions stand at 1.
ReadyForTraffic ==
    \A e \in Ends :
        pc[e] = "secured" =>
            /\ taken[e] = 2 /\ sequence[e] = [d \in Ways |-> 1]
            /\ Len(wire[e]) = 2

\* The frames that an end sends before it has to be answered: a client its
\* hello, a server its hello and its Finished.
Unasked(e) == IF role[e] = "client" THEN 1 ELSE 2

\* e left no bytes in the stream that claim more frames than follow.
NoSwallow(e) ==
    Len(wire[e]) > 0 /\ wire[e][1] \in Leftovers => wire[e][1].claims <= Unasked(e)

\* An upgrade comes to an end on both sides whatever is misconfigured: the two
\* never wait for each other, unless both are servers or a leftover announces
\* more bytes than its sender goes on to send, which read_exact waits for.
\* There is no built-in deadline ("Secure handshake stalls"); closing or
\* cancelling ends these too (NoOrphanedSession).
UpgradeEnds ==
    (\E e \in Ends : role[e] = "client") /\ (\A e \in Ends : NoSwallow(e)) ~>
        (\A e \in Ends : pc[e] = "secured" \/ Gone(e))

\* Well configured ends that nobody cancels are both secured.
UpgradeSucceeds ==
    (\A e \in Ends : pin[e] = Peer(e) /\ role[Peer(e)] # role[e] /\ wire[e] = <<>>) ~>
        \/ \A e \in Ends : pc[e] = "secured"
        \/ \E e \in Ends : asked[e] # "never" \/ future[e] \in {"cancelling", "cancelled"}

\* close() called while the wrapper is upgrading wins over a handshake that
\* completes at the same time: the upgrade never becomes a session
\* (finish_secure looks at the token again, under the lock of the slot).
CloseStopsUpgrade ==
    \A e \in Ends : asked[e] = "upgrading" => pc[e] \notin {"secured", "closed"}

\* A cancelled upgrade leaves no live session behind, not even when Rust had
\* completed it and only the result is discarded: the transport goes and the
\* peer is not kept waiting ("retaining the original Connection object must
\* not leave an orphaned live session").
NoOrphanedSession ==
    \A e \in Ends : (cancel[e] \/ future[e] = "cancelling") ~> []Gone(e)
=============================================================================
