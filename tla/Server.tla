------------------------------- MODULE Server -------------------------------
(***************************************************************************)
(* Server and ServerState of crates/taunicorn/src/lib.rs: the listener.    *)
(*                                                                         *)
(* Each call is one invocation on its own thread or task.  Places:         *)
(*   new       not called yet            swap    ServerState::stop's swap  *)
(*   entry     first state check         clear   its store, first stop     *)
(*   listener  cloning the listener Arc  again   its store, later stop     *)
(*   wait      awaiting listener.accept  cancel  cancelling stop_token     *)
(*   mark      pause/resume's store      take    dropping the owned Arc    *)
(*   done      returned, or dropped                                        *)
(***************************************************************************)
EXTENDS Naturals, FiniteSets

CONSTANTS Calls,      \* the API calls made on the server
          MaxBacklog  \* bound: clients the OS queues for the listener

AcceptOps == {"accept", "accept_timeout"}
AllOps    == AcceptOps \cup {"stop", "pause", "resume"}

ASSUME BacklogAssumption == MaxBacklog \in Nat \ {0}

VARIABLES
    stopped, paused,    \* ServerState: two atomic booleans
    stop_token, inner,  \* the cancellation token; the server-owned Arc is present
    pc, op, result,     \* the calls
    backlog,            \* clients connected and not accepted yet
    late                \* history: the calls begun after a stop() had returned

serverVars == <<stopped, paused, stop_token, inner>>
vars == <<serverVars, pc, op, result, backlog, late>>

Places  == {"new", "entry", "listener", "wait", "mark",
            "swap", "clear", "again", "cancel", "take", "done"}
Results == {"none", "ok", "paused", "stopped", "timeout", "failed", "dropped"}

TypeOK ==
    /\ stopped \in BOOLEAN /\ paused \in BOOLEAN
    /\ stop_token \in BOOLEAN /\ inner \in BOOLEAN
    /\ pc \in [Calls -> Places]
    /\ op \in [Calls -> AllOps \cup {"none"}]
    /\ result \in [Calls -> Results]
    /\ backlog \in 0 .. MaxBacklog
    /\ late \in SUBSET Calls

Init ==
    /\ stopped = FALSE /\ paused = FALSE /\ stop_token = FALSE /\ inner = TRUE
    /\ pc = [c \in Calls |-> "new"]
    /\ op = [c \in Calls |-> "none"]
    /\ result = [c \in Calls |-> "none"]
    /\ backlog = 0 /\ late = {}

Goto(c, place) == pc' = [pc EXCEPT ![c] = place] /\ UNCHANGED result

Return(c, r) ==
    /\ pc' = [pc EXCEPT ![c] = "done"]
    /\ result' = [result EXCEPT ![c] = r]

Begin(c) ==
    /\ pc[c] = "new"
    /\ \E o \in AllOps :
          /\ op' = [op EXCEPT ![c] = o]
          /\ Goto(c, IF o = "stop" THEN "swap" ELSE "entry")
    /\ late' = late \cup {d \in {c} : \E s \in Calls : op[s] = "stop" /\ pc[s] = "done"}
    /\ UNCHANGED <<serverVars, backlog>>

-----------------------------------------------------------------------------
(* accept and accept_timeout.                                              *)

AcceptEnter(c) ==
    /\ pc[c] = "entry" /\ op[c] \in AcceptOps
    /\ \/ paused /\ Return(c, "paused")
       \/ ~paused /\ Goto(c, "listener")
    /\ UNCHANGED <<serverVars, op, backlog, late>>

\* Fault: only pausing is checked before the Arc is cloned.
CloneListenerUnchecked(c) ==
    /\ pc[c] = "listener"
    /\ \/ ~inner /\ Return(c, "stopped")
       \/ inner /\ Goto(c, "wait")
    /\ UNCHANGED <<serverVars, op, backlog, late>>

\* Server::listener(): clone the Arc unless the server is stopped.
CloneListener(c) ==
    /\ pc[c] = "listener"
    /\ \/ (stopped \/ ~inner) /\ Return(c, "stopped")
       \/ ~stopped /\ inner /\ Goto(c, "wait")
    /\ UNCHANGED <<serverVars, op, backlog, late>>

\* Fault: accept returns though no client is waiting.
AcceptSpurious(c) ==
    /\ pc[c] = "wait"
    /\ backlog' = backlog - 1
    /\ Return(c, "ok")
    /\ UNCHANGED <<serverVars, op, late>>

Accept(c) ==
    /\ pc[c] = "wait" /\ backlog > 0
    /\ backlog' = backlog - 1
    /\ Return(c, "ok")
    /\ UNCHANGED <<serverVars, op, late>>

\* The OS refuses (out of descriptors): the error is returned, nothing changes.
AcceptFails(c) ==
    /\ pc[c] = "wait"
    /\ Return(c, "failed")
    /\ UNCHANGED <<serverVars, op, backlog, late>>

\* Fault: accept does not watch stop_token.
InterruptedNever(c) == FALSE /\ UNCHANGED vars

Interrupted(c) ==
    /\ pc[c] = "wait" /\ stop_token
    /\ Return(c, "stopped")
    /\ UNCHANGED <<serverVars, op, backlog, late>>

TimesOut(c) ==
    /\ pc[c] = "wait" /\ op[c] = "accept_timeout"
    /\ Return(c, "timeout")
    /\ UNCHANGED <<serverVars, op, backlog, late>>

DropFuture(c) ==
    /\ pc[c] = "wait"
    /\ Return(c, "dropped")
    /\ UNCHANGED <<serverVars, op, backlog, late>>

-----------------------------------------------------------------------------
(* stop and its synchronous alias close (stop_now); pause and resume.      *)

\* Fault: the value returned for the first transition is inverted.
StopSwapInverted(c) ==
    /\ pc[c] = "swap"
    /\ stopped' = TRUE
    /\ Goto(c, IF stopped THEN "clear" ELSE "again")
    /\ UNCHANGED <<paused, stop_token, inner, op, backlog, late>>

StopSwap(c) ==
    /\ pc[c] = "swap"
    /\ stopped' = TRUE
    /\ Goto(c, IF stopped THEN "again" ELSE "clear")
    /\ UNCHANGED <<paused, stop_token, inner, op, backlog, late>>

\* ServerState::stop clears the pause; a later stop returns right after.
StopClear(c) ==
    /\ paused' = FALSE
    /\ \/ pc[c] = "clear" /\ Goto(c, "cancel")
       \/ pc[c] = "again" /\ Return(c, "ok")
    /\ UNCHANGED <<stopped, stop_token, inner, op, backlog, late>>

StopCancel(c) ==
    /\ pc[c] = "cancel"
    /\ stop_token' = TRUE
    /\ Goto(c, "take")
    /\ UNCHANGED <<stopped, paused, inner, op, backlog, late>>

StopTake(c) ==
    /\ pc[c] = "take"
    /\ inner' = FALSE
    /\ Return(c, "ok")
    /\ UNCHANGED <<stopped, paused, stop_token, op, backlog, late>>

\* pause and resume load stopped, then store: the store may come late.
PauseCheck(c) ==
    /\ pc[c] = "entry" /\ op[c] \in {"pause", "resume"}
    /\ \/ stopped /\ Return(c, "ok")
       \/ ~stopped /\ Goto(c, "mark")
    /\ UNCHANGED <<serverVars, op, backlog, late>>

PauseStore(c) ==
    /\ pc[c] = "mark"
    /\ paused' = (op[c] = "pause")
    /\ Return(c, "ok")
    /\ UNCHANGED <<stopped, stop_token, inner, op, backlog, late>>

-----------------------------------------------------------------------------
\* The OS listener lives while the server or a waiting accept owns an Arc.
Listening == inner \/ \E c \in Calls : pc[c] = "wait"

ClientConnects ==
    /\ Listening /\ backlog < MaxBacklog
    /\ backlog' = backlog + 1
    /\ UNCHANGED <<serverVars, pc, op, result, late>>

Run(c) ==
    \/ AcceptEnter(c) \/ CloneListener(c) \/ Accept(c) \/ Interrupted(c)
    \/ StopSwap(c) \/ StopClear(c) \/ StopCancel(c) \/ StopTake(c)
    \/ PauseCheck(c) \/ PauseStore(c)

Next ==
    \/ \E c \in Calls :
          Begin(c) \/ Run(c) \/ AcceptFails(c) \/ TimesOut(c) \/ DropFuture(c)
    \/ ClientConnects

Spec == Init /\ [][Next]_vars

\* Every polled call goes on; callers, clients, timers and the OS's refusals
\* are not fair.
FairSpec == Spec /\ \A c \in Calls : WF_vars(Run(c))

-----------------------------------------------------------------------------
(* Properties.                                                             *)

\* An accept called after some stop() returned never yields a connection,
\* even if that stop() was not the first one and the first is still on its
\* way to the token and the listener (stop, listener()).
NoLateAccept ==
    \A c \in late : op[c] \in AcceptOps => result[c] # "ok"

\* When no stop() is under way on a stopped server, the server-owned listener
\* is gone and pending accepts are told: of several racing stops exactly one
\* releases it (stop_now).
Stopping(c) == pc[c] \in {"clear", "again", "cancel", "take"}
StoppedReleases ==
    stopped /\ (\A c \in Calls : ~Stopping(c)) => stop_token /\ ~inner

\* stop() interrupts pending accepts and the OS listener is then released for
\* good ("release the listener once in-flight accepts observe the
\* cancellation"), though no client ever connects again.
StopReleasesListener == stopped ~> []~Listening

\* An accept called after stop() returned reports that the server is stopped.
\* The documentation maps "Closed, stopped, or directionally shut-down
\* transport" to ConnectionError and a paused one to BlockingIOError.
LateAcceptReportsStopped ==
    \A c \in late : op[c] \in AcceptOps /\ pc[c] = "done" => result[c] = "stopped"
=============================================================================
