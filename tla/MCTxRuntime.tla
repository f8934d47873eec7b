----------------------------- MODULE MCTxRuntime -----------------------------
(***************************************************************************)
(* TxRuntime for TLC with actors that do as they please: in its on_tick an *)
(* actor takes up to MaxAdvance timestamps and sends up to MaxSends        *)
(* messages to any destination, registered or not, MaxMessages in all.     *)
(***************************************************************************)
EXTENDS TxRuntime, SequencesExt

CONSTANTS
    Stranger,   \* an actor that is not registered
    MaxAdvance, \* timestamps an actor takes in one on_tick
    MaxSends,   \* messages an actor sends in one on_tick
    MaxMessages \* messages in all

VARIABLES
    next_msg_id,    \* Generator
    taken           \* timestamps taken by the running actor

mcVars == <<vars, next_msg_id, taken>>

MCRegistrations == SetToSeqs(ActorIDs)

MCMessages ==
    [source : ActorIDs, destination : ActorIDs \union {Stranger}, id : 1..MaxMessages]

MCOutboxes == UNION {[1..n -> MCMessages] : n \in 0..MaxSends}

MCInit == Init /\ next_msg_id = 1 /\ taken = 0

Quiet == UNCHANGED <<next_msg_id, taken>>

TakesTimestamp ==
    /\ taken < MaxAdvance
    /\ TakeTimestamp
    /\ taken' = taken + 1
    /\ UNCHANGED next_msg_id

SendsAndReturns(a) ==
    \E n \in 0..MaxSends :
      \E destinations \in [1..n -> ActorIDs \union {Stranger}] :
        /\ next_msg_id + n <= MaxMessages + 1
        /\ ActorSends(a, [i \in 1..n |->
             [source |-> a, destination |-> destinations[i], id |-> next_msg_id + i - 1]])
        /\ next_msg_id' = next_msg_id + n
        /\ taken' = 0

MCNext ==
    \/ RuntimeStep /\ Quiet
    \/ \E a \in ActorIDs : Call(a) /\ Quiet
    \/ TakesTimestamp
    \/ \E a \in ActorIDs : SendsAndReturns(a)

\* The loop of run() is sequential code: it is never suspended for ever.
MCSpec == MCInit /\ [][MCNext]_mcVars /\ WF_mcVars(MCNext)

\* run(ticks) comes back, or ends with "no destination" because somebody wrote
\* to an actor that is not registered.
RunEnds == <>[]Stopped
=============================================================================
