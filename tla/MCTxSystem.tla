----------------------------- MODULE MCTxSystem -----------------------------
(***************************************************************************)
(* TxSystem for TLC: two clients, every order of registration, and every   *)
(* choice of specs among those below.                                      *)
(***************************************************************************)
EXTENDS TxConversation, SequencesExt

CONSTANTS
    c1, c2, k1, k2, v1, v2,
    Actions     \* the actions specs may ask for

OneEach == [c \in Clients |-> IF c = c1 THEN <<"a">> ELSE <<"b">>]
TwoAndOne == [c \in Clients |-> IF c = c1 THEN <<"a", "b">> ELSE <<"c">>]

\* The server and nobody else.
OneServer == {<<Server>>}

MCRegistrations == SetToSeqs(Clients \union {Server})

Put(earliest_ts, key, value) ==
    [earliest_ts |-> earliest_ts, key |-> key, value |-> value]

\* One put, as in the tests; two; one key twice with a pause, begun when the
\* others may be committing.
MCTxSpecs ==
    [earliest_start_ts : {0}, earliest_commit_ts : {2},
     puts : {<<Put(2, k1, v1)>>, <<Put(0, k2, v2), Put(0, k1, v2)>>},
     action : Actions]
    \union
    [earliest_start_ts : {12}, earliest_commit_ts : {2},
     puts : {<<Put(0, k1, v1), Put(25, k1, v2)>>}, action : Actions]

\* Also no put, and the two keys in the other order.
MoreTxSpecs ==
    MCTxSpecs
    \union
    [earliest_start_ts : {0}, earliest_commit_ts : {2, 20},
     puts : {<<>>, <<Put(0, k1, v1), Put(0, k2, v1)>>}, action : Actions]
=============================================================================
