---------------------------- MODULE SecureChannel ----------------------------
(***************************************************************************)
(* What a secure session promises its two applications, without keys,      *)
(* sequence numbers, frames, gates or tasks: each direction is a channel   *)
(* that delivers whole messages, once, in the order sent, up to some       *)
(* point; it never resumes after a message that was cut, and it carries at *)
(* most Limit messages under one key.                                      *)
(***************************************************************************)
EXTENDS Naturals, Sequences

CONSTANTS Ends,      \* the two ends
          Messages,  \* what may be sent
          Limit      \* how many messages one direction may carry

VARIABLES sent,      \* sent[e]: the messages that e has handed over completely
          received,  \* received[e]: the messages that e's application got
          cut        \* cut[e]: e stopped in the middle of a message

vars == <<sent, received, cut>>

Peer(e) == CHOOSE f \in Ends : f # e

Init ==
    /\ sent = [e \in Ends |-> <<>>]
    /\ received = [e \in Ends |-> <<>>]
    /\ cut = [e \in Ends |-> FALSE]

Send(e, m) ==
    /\ ~cut[e] /\ Len(sent[e]) < Limit
    /\ \A i \in DOMAIN sent[e] : sent[e][i] # m
    /\ sent' = [sent EXCEPT ![e] = Append(@, m)]
    /\ UNCHANGED <<received, cut>>

Receive(e) ==
    /\ Len(received[e]) < Len(sent[Peer(e)])
    /\ received' = [received EXCEPT ![e] = Append(@, sent[Peer(e)][Len(@) + 1])]
    /\ UNCHANGED <<sent, cut>>

Cut(e) ==
    /\ ~cut[e]
    /\ cut' = [cut EXCEPT ![e] = TRUE]
    /\ UNCHANGED <<sent, received>>

\* Every step changes something: said first, this spares TLC the alternatives
\* when it checks a step that the mapping turns into a stutter.
Next ==
    /\ vars' # vars
    /\ \E e \in Ends : Receive(e) \/ Cut(e) \/ \E m \in Messages : Send(e, m)

Spec == Init /\ [][Next]_vars
=============================================================================
