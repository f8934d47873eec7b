--------------------------- MODULE LockstepNetwork ---------------------------
(***************************************************************************)
(* What the runtime promises its actors: a synchronous network.  Time is a *)
(* sequence of rounds.  What is sent in a round is handed over in the next *)
(* one, all of what an actor is sent at once, nothing early, late, twice   *)
(* or never.                                                               *)
(***************************************************************************)
CONSTANT ActorIDs

VARIABLES
    incoming,   \* sent in the last round, not handed over yet
    outgoing    \* sent in this round

vars == <<incoming, outgoing>>

Init == incoming = {} /\ outgoing = {}

\* A round ends when everything has been handed over.
NextRound ==
    /\ incoming = {}
    /\ incoming' = outgoing
    /\ outgoing' = {}

HandOver(a) ==
    /\ incoming' = {m \in incoming : m.destination # a}
    /\ UNCHANGED outgoing

\* A message for nobody is the only one that is not handed over.
Discard ==
    /\ \E m \in incoming :
          /\ m.destination \notin ActorIDs
          /\ incoming' = incoming \ {m}
    /\ UNCHANGED outgoing

Send ==
    /\ outgoing \subseteq outgoing'
    /\ UNCHANGED incoming

Next == NextRound \/ (\E a \in ActorIDs : HandOver(a)) \/ Discard \/ Send

Spec == Init /\ [][Next]_vars
=============================================================================
