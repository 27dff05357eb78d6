# A TLA+ model of taunicorn

taunicorn is a local (Unix-socket or named-pipe) byte-stream transport written
in Rust on tokio, with an optional authenticated and encrypted message layer
and Python (asyncio) bindings.  Its hard part is not the data but the
concurrency: every object is shared by calls that run as tasks on a
multi-threaded runtime, are cancelled by dropping their futures, time out, race
with `close()` and meet peers that stop reading or disappear.

The modules here model that concurrency.  The properties were chosen from the
list of hazards in `PROJECT.json`; TLC checks them on small instances, and TLAPS
proves the safety properties among them, and both refinements, for every instance.

## 1. The system

| Part | State | Operations | Hard behaviour | What makes it correct |
| --- | --- | --- | --- | --- |
| `ConnectionCore` (`taunicorn/src/lib.rs`) | five atomic flags, the stream's `Arc`, two FIFO gates, two cancellation tokens | receive, send, send_timeout, write, flush, shutdown_read, shutdown_write, close, pause, resume | several calls in one direction; short writes; close, timeout or failure in the middle of a send; half-close | buffers do not mix; errors tell the truth about what was written; close ends everything |
| `Server` (`taunicorn/src/lib.rs`) | two flags, the listener's `Arc`, a token | accept, accept_timeout, stop, close, pause, resume | accepts in flight keep the listener alive; racing stops | nothing is accepted after stop; the listener is released |
| `ReadHalf`, `WriteHalf` | a shared `ConnectionCore` | forwards | as `ConnectionCore` | as `ConnectionCore` |
| `SecureConnection` (`taunicorn/src/security.rs`) | two sequence numbers, two keys, a transcript hash | client, server, send, receive, close | torn frames, sequence exhaustion, a peer that ends inside a frame, both ends waiting | ends agree; a sequence number is used once; messages arrive whole and in order |
| `SecureSession`, `PySecureConnection` (`taunicorn-python/src/security.rs`) | a token, two gates | establish, send, receive, close, abort | cancellation at every await and at the completion boundary; order in which locals are dropped | any failure is terminal, before anybody else gets the gate |
| `BoundedQueue`, `UnboundedQueue` (`taunicorn-python/src/channel.rs`) | an mpsc channel, its receiver behind a mutex, a token | send, recv, try_send, try_recv, close | close cannot take the receiver's mutex from a waiting recv; cancelled calls | no item is lost, doubled or accepted after close; waiters wake |
| `PyConnection`, `PyReadHalf`, `PyWriteHalf` (`taunicorn-python/src/lib.rs`) | the slot Plain/Upgrading/Secure/Consumed, clones of the connection in pending tasks, drop guards, cleanup tasks | the Python API: the raw methods, close, into_split, the start of an upgrade | ownership moves while calls are pending; guards fire on cancellation, in tasks of their own | a torn send seals its direction; a cleanup never reaches past the object it was made for; no upgrade survives its close |
| `PyServer` (`taunicorn-python/src/lib.rs`) | a shared `Server` | forwards | as `Server` | as `Server` |
| Endpoint names, bind options, error mapping, Python facade, examples | none | | | not modelled |

`Server::accept` and `Connection::connect` create connections, which are then
independent of the server.  The secure layer uses one `Connection` by calling
`send`, `receive` and `close`; the binding wraps every Rust future in an asyncio
future.  Tasks share state through atomics, locks and tokens only.

## 2. Modules

| Module | Models | Uses |
| --- | --- | --- |
| `ByteSink` | the promise of the sending direction: an append-only log in which every buffer is one unbroken run and nothing follows the end of stream | |
| `Connection` | `ConnectionCore` and its peer behind the OS socket | instantiates `ByteSink` as `Sink` (variables of the same names: `wire`, `fin`) |
| `Server` | the listener | |
| `Queue` | both queue classes; an unbounded one has a `capacity` that is never reached | |
| `PyConnection` | `PyConnection`, `PyReadHalf`, `PyWriteHalf`: slot, guards, asyncio futures, cleanup tasks | extends `Connection`: a step of the binding is a step of `Connection` or leaves it alone |
| `Handshake` | the two ends of a secure upgrade, from `establish` through `finish_secure` to the end of a discarded or closed session | begins where `PyConnection!BeginSecure` leaves off |
| `SecureChannel` | the promise of a secure session: two channels that deliver whole messages once and in order up to some point | |
| `SecureSession` | the two ends of an established session under the Python binding | starts where `Handshake!ReadyForTraffic` leaves off; its transport is `Connection` reduced to "ordered, fails once an end is closed"; instantiates `SecureChannel` with a refinement mapping |
| `ConnectionProofs`, `ServerProofs`, `QueueProofs`, `HandshakeProofs`, `SecureSessionProofs` | the inductive invariant and the theorems of each module (section 4) | extend the module they are named after, and TLAPS |
| `SecureChannelProofs` | the refinement of `SecureChannel` | extends `SecureSessionProofs` |
| `PyConnectionProofs` | the theorems about the Python binding | extends `PyConnection` and `ConnectionProofs` |
| `MCConnection`, `MCPyConnection`, `MCQueue`, `MCSecureSession` | constants and symmetry sets for TLC | extend the module they are named after |

### How calls are modelled

A call is an element of `Calls` with a program counter `pc[c]`.  A step is a
stretch of code with no await and at most one access that another task can
observe: an atomic load or store, a lock operation, a token, an OS operation.
`pc` names the place (listed at the head of each module), `result[c]` what the
caller gets.  `Return` drops the locals of the handler, which is where gates are
released.  Loads that only choose between two error messages are read together.

*Gates* are tokio mutexes: first come, first served, and a waiter whose future
is dropped gives up its turn.  `queued` holds the calls that own or await a
gate; `ahead[c]` those that must leave before `c` is served.

*`select!`* without `biased` polls its branches in random order, so a finished
read or write may win over a cancelled token: `Interrupted` and `WriteSome` are
both enabled.  With `biased` the token is looked at first; in `SecureSession`
the look at the token (`GatePoll`) and the grant of the gate (`GateWait`) are
separate steps, because another thread may cancel in between, and in `Queue`
`SendCheck` and `RecvPoll` come before `SendTry` and `RecvTake`.

*Dropped futures.* `DropFuture` and `Cancel` may remove a call at any of its
awaits.  In `SecureSession` the application's cancellation (`PyCancel`), the
asyncio callback (`PyCallback`) and the dropping of the Rust task (`DropFuture`)
are three steps in any order, and dropping runs `DropGuards` in two: first the
guard, then the gate.  In `PyConnection` it is the other way round, as in the
code: the dropped `send` releases the gate (`DropTask`), then the guard spawns
its cleanup (`EndGuarded`), and the cleanup is a call of its own (`Task(c)`) that
any other call may overtake.

*Python threads.* The GIL serialises Python code but not the tokio workers, and
each step of the model is at most one access to shared state, so the steps of
Python callers are left free to interleave.  The bridge
(`pyo3_async_runtimes`) polls a task at least once before it looks at the
cancellation, so the guard always exists when a task is dropped.

### Correspondence

* `Connection`: `Ensure`, `Acquire`, `Recheck`, `CloneStream` are the common
  front of receive, send, send_timeout, write_once and flush; `WriteSome`,
  `ReadSome`, `ReadEof`, `FlushDone`, `IoFails` their OS operation; `TimesOut` the
  deadlines; `Swap`, `Flags`, `CancelTokens`, `TakeStream` are `close` and
  `fail_connection`; `ShutdownWriteEnter`, `ShutdownWriteMark`, `ShutdownDone`,
  `ShutdownFails` and `ShutdownRead`, `ShutdownReadWake` the half-closes;
  `PauseCheck`, `PauseStore` pause and resume.  `wire` records the chunk of each
  OS write as (call, from, to).
* `Server`: `AcceptEnter`, `CloneListener`, `Accept`, `AcceptFails`,
  `Interrupted`, `TimesOut`; `StopSwap`, `StopClear`, `StopCancel`, `StopTake`.
* `Queue`: `SendCheck`, `SendTry`, `SendWake`; `RecvLock`, `RecvPoll`, `RecvTake`,
  `RecvWake`; `TryRecvLock`, `TryRecvTake`; `CloseCancel`, `CloseSeal`; `Deliver`
  and `Cancel` are the asyncio bridge.  The item of a send is the call's name.
* `PyConnection`: `PyCall` is a method of the wrapper (`slot = "plain"`) or of a
  half (`slot = "consumed"`); `Holders` are the clones that make
  `Arc::try_unwrap` fail in `take_plain` (`TakePlain`, used by `IntoSplit` and
  `BeginSecure`); `EndGuarded` is `completed()` or the drop of either guard,
  `Cleanup` what it spawns.  A refused `take_plain`, or a method called on a
  consumed or upgrading wrapper, raises and changes nothing.
* `Handshake`: `SendClientHello`, `AcceptHello`/`RejectHello`, `SendServerHello`,
  `SendFinished`, `ReceiveFinished`, `FinishSecure`; `Close` is
  `Connection.close()` of an upgrading or secured wrapper; `PyCancel`,
  `PyCallback`, `DropTask`, `Discard` and `Deliver` are the asyncio future, and
  `Waiter` the task that closes the transport of a cancelled session.
  Plain bytes left in the stream (`Leftovers`) are what `read_frame` makes of them:
  a length, of which only matters how far it reaches.  `Plain(0)` is refused at once
  (a bad length, or a body that is all there), `Plain(n)` is readable only when `n`
  frames have followed it (`Readable`, the loop of `read_exact`), and is then refused,
  the end of its body being somewhere in the `n`-th of them.
  Signatures and sealing are symbolic, a fresh key pair and nonce are one fresh
  value per end.
* `SecureSession`: `GatePoll`, `GateWait`, `EnsureOpen`, `Armed` enter a call;
  `WriteHalf`, `WriteRest` send a frame in two halves; `ReadHeader`, `ReadMore`,
  `ReadBody`, `ReadEof` receive one; `DropGuards`, `Waiter`, `PyCallback` end it.
  `MaxSeq` stands for `u64::MAX`.
* The refinement of `SecureChannel`: `sent` are the frames whose second half is
  on the wire (`CompleteFrames`), `received` the messages handed to the
  application, `cut` becomes true when half a frame is left by a call that is
  no longer at it (`LeftTorn`), and `Limit` is the number of sequence numbers.

Operators whose comment starts with *Fault:* are wrong variants of the
definition that follows them.  No specification uses them; `PROJECT.json`
(`mutants`) says which property each one breaks.

## 3. Runs

| Run | Bounds | Shows |
| --- | --- | --- |
| `connection_write` | 3 calls of the sending direction, close, pause and resume, buffers of 1..2 bytes, OS buffer 2 | `SendsDoNotInterleave`, `RetrySafe`, `CompleteSends`, `ShutdownHonest`, `ClosedReleasesAll`, refinement `ImplementsSink` |
| `connection_live` | 2 calls of receive or send and one of read_timeout, close or shutdown_read | `CloseInterrupts`, `ShutdownReadInterrupts`, `ReceiveNotBlockedBySend` |
| `py_connection` | 2 Python calls of the guarded methods, receive, pause and resume, and their 2 cleanup tasks | `TornSendSealed`, `HalfSendsWhole`, `SplitOutlivesWriter`, `UpgradeOwnsConnection` |
| `py_retry` | 2 sends and their cleanups | **violated**: `NoBlindRetry` (see Findings) |
| `server` | 3 racing calls of all operations, a backlog of 2 | `NoLateAccept`, `StoppedReleases`, `StopReleasesListener` |
| `server_late_accept` | as `server` | **violated**: `LateAcceptReportsStopped` (see Findings) |
| `queue` | 5 calls; one slot (bounded), or more slots than calls (unbounded) | `ClosedMeansDrained`, `NoLateSend`, `ItemsAccounted` |
| `queue_live` | 4 calls of send, recv, close | `CloseWakes`, `ReceiverServed` |
| `handshake` | 2 ends, all roles and pins, no leftover or one that claims 0, 2 or 3 frames, closed and cancelled anywhere | `Agreement`, `ReadyForTraffic`, `CloseStopsUpgrade`, `UpgradeEnds`, `UpgradeSucceeds`, `NoOrphanedSession` |
| `secure_session` | 3 calls of any kind on either end, one number per direction left | `NonceUnique`, `TornFrameIsTerminal`, `NoFalseRejection`, `NoLateIo` |
| `secure_stream` | 2 sends and 2 receives one way, two numbers left | refinement `ImplementsChannel` across several messages |
| `secure_live` | any 2 calls | `CancelEnds`, `PeerEndEndsReceive`, `DiscardEnds` |

Why the bounds are enough: every race in the hazard list needs at most three
calls (one that is interrupted, one that interrupts it, one that comes after);
in `PyConnection` the interrupter is the cleanup, a call of its own, so two
Python calls make up to four calls of `Connection`;
buffers of two bytes are the shortest that can be written in two turns; a frame
of two halves is the shortest that can be torn; one slot makes a queue both full
and empty.  An end sends at most two frames unasked, so a leftover that claims two
is the first to swallow all that a client sends, one that claims three all that a
server sends (a claim of 1 was checked as well; it only adds states).  Symmetry over `Calls` is used in safety runs only.  The liveness runs
leave out the operations that take no part in the wait they are about; a
`shutdown_write` waits at the same gate as a `send`.  That the gates exclude
their holders, in both directions and with all eleven operations, is not left to a
run: `Exclusion` (section 4) holds for any `Ops`.

Deadlock checking is off everywhere because the calls are finite: when all of
them have returned, or wait for a peer that need not do anything, the system
rightly stops.  What must not stop is stated as a liveness property.

### Fairness

`FairSpec` is weak fairness of `Run(c)` for each call: tokio polls a task again
after each wake-up.  The waiter task of a session and asyncio's callbacks are
fair for the same reason.  Not fair: beginning or cancelling a call, timers,
dropping a future, an OS that refuses, and everything the peer does.  So "close
ends every call" holds though the peer never reads again.

`UpgradeEnds` claims no more than the code gives: two servers wait for each other's
hello, and a leftover whose length reaches beyond what its sender goes on to send
keeps its reader in `read_exact` and, behind it, both ends waiting.  Without the
second condition TLC shows the stall in two states: a client whose leftover claims
two frames sends its hello, and nobody has anything more to do.  The repository's
README says so too (no "built-in deadline", line 1028; "Secure handshake stalls",
line 1070).  `NoOrphanedSession` has no such condition: a stalled upgrade that is
closed or cancelled, by a deadline for instance, ends.

### Findings

`server_late_accept`: `pause()` loads `stopped`, then stores `paused`.  If a
`stop()` runs in between, the server stays stopped and paused, `resume()` no
longer does anything, and since `accept()` asks `is_paused()` first, every later
accept reports "socket server is paused" (`BlockingIOError`) where the README's
error table promises `ConnectionError` for a stopped transport.

`py_retry`: a comment above `CloseConnectionUnlessCompleted` and the stub of
`Connection.send` say that closing on cancellation prevents a blind retry from
duplicating bytes.  The close runs in a spawned task, after the dropped send has
released the write gate.  A send that Python begins after it has seen the
`CancelledError` may pass the state checks and the gate first; its bytes then
follow the prefix of the cancelled send.  What does hold is `TornSendSealed`:
once the cleanup is through, nothing follows.  (The secure layer does not have
this gap: there the guard is dropped before the gate, see `TornFrameIsTerminal`.)

Observed while modelling, without a run: the guards are completed by `Ok` only, so
a send refused because the connection is paused, and a `write_all_timeout` that
expired at the gate with nothing written, close the connection;
a send cancelled while it waits for the gate of a `Connection` closes it under the
send that holds the gate (on a `WriteHalf` it does not: `HalfSendsWhole`); a raw
send cancelled when Rust has already completed it raises `CancelledError` although
the whole buffer was sent and the connection stays open; the halves of a paused
connection have no `resume()`.

## 4. Theorems

Every safety property that a passing run checks is also proved by TLAPS, for every
value of the constants that the named assumptions admit.  The assumptions say no
more than the code does: finitely many calls, a capacity that is not zero, buffers
of at least one byte, two distinct ends, leftovers of any length (`Excess`), a last sequence number beyond the first.
(`"none" \notin Calls` in `Queue` and the shape of `Calls` in `PyConnection` only
keep names apart.)

| Module | Theorem | States |
| --- | --- | --- |
| `ConnectionProofs` | `TypeCorrect`, `Exclusion`, `RetryIsSafe`, `CloseReleases`, `SendsAreComplete`, `ShutdownIsHonest` | `TypeOK`, `GateExclusion`, `RetrySafe`, `ClosedReleasesAll`, `CompleteSends`, `ShutdownHonest` |
| | `Refinement` | `Spec => ImplementsSink` |
| | `SinkKeepsApart`, `NoInterleavedSends` | `ByteSink` never interleaves, hence `SendsDoNotInterleave` |
| `PyConnectionProofs` | `BindingImplements` | `PySpec => Spec` |
| | `TornSendsSealed`, `HalfSendsAreWhole` | `TornSendSealed`, `HalfSendsWhole` |
| | `SplitIsSafe`, `UpgradeIsExclusive` | the action properties `SplitOutlivesWriter`, `UpgradeOwnsConnection` |
| `ServerProofs` | `TypeCorrect`, `LateAcceptsRefused`, `StopReleases`, `SingleRelease` | `TypeOK`, `NoLateAccept`, `StoppedReleases`, `OneWinner` |
| `QueueProofs` | `TypeCorrect`, `ClosedIsFinal`, `LateSendsRefused`, `NothingLost` | `TypeOK`, `ClosedMeansDrained`, `NoLateSend`, `ItemsAccounted` |
| `HandshakeProofs` | `TypeCorrect`, `MutualAgreement`, `TrafficStartsClean`, `CloseWins` | `TypeOK`, `Agreement`, `ReadyForTraffic`, `CloseStopsUpgrade` |
| `SecureSessionProofs` | `TypeCorrect`, `TornFrameEnds`, `HonestFramesAccepted`, `NoncesAreUnique`, `LateCallsDoNothing` | `TypeOK`, `TornFrameIsTerminal`, `NoFalseRejection`, `NonceUnique`, `NoLateIo` |
| `SecureChannelProofs` | `SessionIsChannel` | `Spec => ImplementsChannel` |

Each module has one inductive invariant, `IInv` (`PyInv` beside `IInv` in
`PyConnectionProofs`), and a theorem `Invariance` (`PyInvariance`).  TLC checked
each of them on the module's instance before it was proved.  The proofs share a
layout: how a step moves the one call that takes it (`Moves`, `CallMoves`), that it
touches no other (`Untouched`), which flags are never reset (`Monotone`), the only
ways a step can come to a place or a result (`Causes`, `Motives`, `Outcomes`,
`StepEffect`), and then one lemma per part of the invariant.  None of the properties
is inductive as it stands; what has to be added:

* **Connection.**  Exclusion of two holders depends on the order of the queue: a
  call past its gate is queued with nobody ahead of it, and of two queued calls of
  one gate one is ahead of the other.  The refinement needs to know that the call in
  the OS write is the one whose chunk ends the log (or has no chunk at all), that
  `written` agrees with the log, and that the end of stream has been sent only when
  nobody can be writing.  `RetrySafe` needs the places at which a call can have bytes
  on the wire; `ClosedReleasesAll` that one call only passes from the swap to the
  release of the stream.  `CompleteSends` adds that bytes on the wire stay there,
  `ShutdownHonest` that the flag `write_shutdown` is backed by a shutdown that was
  made, is under way or was given up (`FlagBacked`).
* **PyConnection.**  A step of the binding is a step of `Connection` or leaves it
  alone, so `IInv` holds below the binding and every theorem about `Connection` does
  too.  `PyInv` adds: a guard that is gone after a failed call has spawned its cleanup
  (`GuardOK`); a cleanup is never dropped, so when it has returned the flag it was to
  set is set (`OutcomeOK`); nobody holds the wrapper's connection once it was taken,
  and a call on a half, or its cleanup, enters `ConnectionState::close` only after the
  peer has gone (`SlotOK`); a send of a half that got past its first check saw an open
  connection after the split (`HalfOK`).
* **Server.**  The racing stops have one winner, and until it is through the
  listener is accounted for by it (`OneWinner`, `Released`); a late accept starts
  with `stopped` already set.
* **Queue.**  Everything in the channel or with a receive was accepted, and is there
  once (`BufOK`, `GotOK`); the item of a successful send is somewhere (`KeptOK`);
  `close` cancels the token before it tries the receiver's mutex, so a late send gets
  no further than its first look at the token (`ShutOK`).  Every step leaves the
  items alone, puts its own in, or takes the first one out (`Effect`).
* **Handshake.**  A leftover is never accepted, whatever it claims (`Kinds`).  What an end may have written is determined by its identity and
  configuration (`WroteOK`); an accepted hello is the peer's and has the pinned
  identity (`SeenOK`); a Finished message that opened was sealed by a peer that had
  accepted this end (`ConfirmedOK`); the numbers of frames written and read follow
  from the place an end has reached (`PlaceOK`).
* **SecureSession.**  The wire of an end is a sequence of frames with consecutive
  numbers, the last one perhaps torn (`Framed`), each half written by a send of that
  end that got so far (`Authentic`); what was received are the frames taken off the
  peer's wire (`InStep`); the call at a direction finds it between two frames or
  inside its own (`AtFrame`), which holds because a torn frame ends the session
  before the gate is passed on: `TornFrameIsTerminal` is part of the invariant.
* **SecureChannel.**  Under the mapping of section 2 the second half of a frame is
  `Send`, the last step of a receive is `Receive`, and leaving half a frame is the
  cut; every other step stutters.  `Framed` makes the sequence of complete frames
  grow by one message exactly there, `InStep` makes the received message the next.

Only model-checked: the liveness properties (`CloseInterrupts`,
`ShutdownReadInterrupts`, `ReceiveNotBlockedBySend`, `StopReleasesListener`,
`CloseWakes`, `ReceiverServed`, `UpgradeEnds`, `UpgradeSucceeds`,
`NoOrphanedSession`, `CancelEnds`, `PeerEndEndsReceive`, `DiscardEnds`): fairness and
ENABLED are out of the prover's reach.  The two violated properties are refuted by
TLC's counterexamples.

## 5. What is left out

* The tokio mpsc channel is linearizable here: a permit and the push of the item
  are one step, so a receive that drains a closed channel never waits for a send
  that owns a permit and has not pushed yet.
* What a plain message says.  A leftover counts by how far its first four bytes reach
  as a length; that it could itself be a valid signed hello is left out.
* Poisoned std mutexes (a panic while a flag is copied), allocation failure.
* Cryptographic strength, randomness, key encoding, MessagePack.
* `info()` and the boolean getters, which only read.
* Direct use of `SecureConnection` from Rust with dropped futures: the
  repository's README excludes it from the guarantees; the model is of the
  binding, whose gates and guards give `NonceUnique`.
* A connection or session that Python garbage-collects without closing it: its
  destructor drops the socket and nobody is left to observe it.  The same goes for
  a client that `PyServer.accept` accepted for a future cancelled at that moment.
* `Endpoint`, `LocalTransport`, `connect`, `bind`: they validate and construct.
* Native Rust callers of `send_msgpack`/`receive_msgpack`.

## 6. Plan

1. *Done:* all modules and runs of sections 2 and 3; both refinements and every
   safety property proved (section 4).
2. An abstract specification of `Queue` (a FIFO that drains after close), with the
   refinement checked and proved: today's theorems say that an item is somewhere
   exactly once, not in which order the receives get them.
3. The state in which `Handshake` ends (`ReadyForTraffic`) as the initial state of
   `SecureSession`, stated and proved as one theorem over both modules.
