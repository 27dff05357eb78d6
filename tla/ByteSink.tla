------------------------------ MODULE ByteSink ------------------------------
(***************************************************************************)
(* What the sending direction of a connection promises, with no locks,     *)
(* tokens or tasks in sight: an append-only log of chunks in which the     *)
(* buffer of one call is one unbroken run from its first byte, and to      *)
(* which nothing is appended once the direction is finished.               *)
(*                                                                         *)
(* A chunk [call |-> c, from |-> a, to |-> b] stands for the bytes a+1..b  *)
(* of the buffer passed to call c, accepted by one OS write.               *)
(***************************************************************************)
EXTENDS Naturals, Sequences

CONSTANTS Calls,   \* identities of the API calls that may write
          MaxLen   \* the longest buffer passed to a call

VARIABLES wire,    \* the chunks accepted by the OS, in order
          fin      \* TRUE once the direction is finished (end-of-stream sent)

sinkVars == <<wire, fin>>

Chunk == [call : Calls, from : 0 .. MaxLen, to : 0 .. MaxLen]

Init == wire = <<>> /\ fin = FALSE

\* k carries on where the last chunk of the log stopped.
Continues(k) ==
    /\ wire # <<>>
    /\ wire[Len(wire)].call = k.call
    /\ wire[Len(wire)].to = k.from

\* k is the first chunk of a call that has not written anything yet.
Starts(k) ==
    /\ k.from = 0
    /\ \A i \in DOMAIN wire : wire[i].call # k.call

Put ==
    /\ ~fin
    /\ \E k \in Chunk :
          /\ k.from < k.to
          /\ Continues(k) \/ Starts(k)
          /\ wire' = Append(wire, k)
    /\ UNCHANGED fin

Finish == fin' = TRUE /\ UNCHANGED wire

Next == Put \/ Finish

Spec == Init /\ [][Next]_sinkVars

-----------------------------------------------------------------------------
(* The buffers of two calls never interleave: between two chunks of one    *)
(* call there is no chunk of another one ("concurrent full-buffer sends    *)
(* cannot interleave their bytes", Connection's doc comment).              *)
NoInterleaving ==
    \A i, j, k \in DOMAIN wire :
        i < j /\ j < k /\ wire[i].call = wire[k].call => wire[j].call = wire[i].call
=============================================================================
