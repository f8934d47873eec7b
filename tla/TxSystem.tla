------------------------------ MODULE TxSystem ------------------------------
(***************************************************************************)
(* The program: clients and server as actors of one runtime, the way       *)
(* src/tests/test_full_tx.cpp puts them together.                          *)
(*                                                                         *)
(* The runtime is single threaded.  It calls one actor at a time with the  *)
(* messages delivered to it, the actor takes timestamps from the shared    *)
(* clock, and what it scheduled is queued when its on_tick returns.  What  *)
(* remains open is the order of equal heap entries, the iteration order of *)
(* the server's unordered_map, the order of registration and what the      *)
(* transactions are to do.                                                 *)
(***************************************************************************)
EXTENDS TxMessages, FiniteSets

CONSTANTS
    ClientTxs, TxsOf, TxSpecs, Discoveries,     \* see TxClient
    Registrations, MaxTicks                     \* see TxRuntime

VARIABLES
    clock,
    transactions, data, active, batch, todo, cur, scheduled, failure,
    discovery, client_transactions, on_tick_of, received, next_tx, outbox,
    next_tx_id, next_msg_id, client_failure,
    timestamp, actors, messages_queue, destination_actor_messages, tick, phase,
    turn, no_destination

Srv == INSTANCE TxServer WITH Batches <- {}
Cli == INSTANCE TxClient WITH ReplyBatches <- {}
Run == INSTANCE TxRuntime WITH
    ActorIDs <- Clients \union {Server},
    Messages <- Requests \union Replies,
    Outboxes <- {}

ASSUME ServerIsNoClient == Server \notin Clients
ASSUME UndefinedActorIsNoClient == UNDEFINED_TX_ID \notin Clients

\* Each ClientTx belongs to one client, which holds it once.
ASSUME TxsOfAssumption ==
    /\ TxsOf \in [Clients -> Seq(ClientTxs)]
    /\ \A c, d \in Clients : \A i \in DOMAIN TxsOf[c], j \in DOMAIN TxsOf[d] :
         TxsOf[c][i] = TxsOf[d][j] => c = d /\ i = j
    /\ \A t \in ClientTxs : \E c \in Clients : \E i \in DOMAIN TxsOf[c] : TxsOf[c][i] = t

ASSUME TxSpecsAssumption == TxSpecs \subseteq Cli!TxSpec

\* All actors register, each once.
ASSUME RegistrationsAssumption ==
    \A order \in Registrations :
        /\ order \in Seq(Clients \union {Server})
        /\ {order[i] : i \in DOMAIN order} = Clients \union {Server}
        /\ \A i, j \in DOMAIN order : order[i] = order[j] => i = j

ASSUME MaxTicksAssumption == MaxTicks \in Nat

serverVars == <<transactions, data, active, batch, todo, cur, scheduled, failure>>
clientVars == <<discovery, client_transactions, on_tick_of, received, next_tx,
                outbox, next_tx_id, next_msg_id, client_failure>>
runtimeVars == <<timestamp, actors, messages_queue, destination_actor_messages,
                 tick, phase, turn, no_destination>>
vars == <<clock, serverVars, clientVars, runtimeVars>>

Init == Srv!Init /\ Cli!Init /\ Run!Init

RuntimeStep ==
    /\ Run!RuntimeStep
    /\ UNCHANGED <<serverVars, clientVars>>

CallServer ==
    /\ Run!Call(Server)
    /\ Srv!OnTick(destination_actor_messages[Server])
    /\ UNCHANGED clientVars

ServerStep ==
    /\ phase = "on_tick"
    /\ Srv!ServerStep
    /\ UNCHANGED <<clientVars, runtimeVars>>

ServerReturns ==
    /\ Srv!Send
    /\ Run!Return(Server, scheduled)
    /\ UNCHANGED clientVars

CallClient(c) ==
    /\ Run!Call(c)
    /\ Cli!OnTick(c, destination_actor_messages[c])
    /\ UNCHANGED serverVars

ClientStep ==
    /\ phase = "on_tick"
    /\ Cli!ClientStep
    /\ UNCHANGED <<serverVars, runtimeVars>>

\* ProxyRuntime::send makes the actor the source of what it sends.
ClientReturns(c) ==
    /\ on_tick_of = c
    /\ Cli!Send
    /\ Run!Return(c, [i \in DOMAIN outbox |-> [outbox[i] EXCEPT !.source = c]])
    /\ UNCHANGED serverVars

Next ==
    \/ RuntimeStep
    \/ CallServer
    \/ ServerStep
    \/ ServerReturns
    \/ \E c \in Clients : CallClient(c)
    \/ ClientStep
    \/ \E c \in Clients : ClientReturns(c)

\* run(ticks) is one sequential loop in one thread: as long as it can go on it
\* does.
Spec == Init /\ [][Next]_vars /\ WF_vars(Next)

-----------------------------------------------------------------------------
(* Properties *)

Known(t) == client_transactions[t].txid # UNDEFINED_TX_ID
ServerTx(t) == transactions[client_transactions[t].txid]

\* None of the exceptions and asserts of the protocol is reachable: no message
\* for a transaction that has ended, no reply in a state that cannot take it,
\* no message without destination.
NoFailure == ~failure /\ ~client_failure /\ ~no_destination

\* Delivery order is the heap's, and the heap breaks ties arbitrarily; it does
\* not matter, because no actor is ever handed two messages of one transaction.
OneMessagePerTransaction ==
    \A a \in DOMAIN destination_actor_messages :
        LET inbox == destination_actor_messages[a]
        IN  \A i, j \in DOMAIN inbox : inbox[i].txid = inbox[j].txid => i = j

\* What the server holds of a transaction is a prefix of the puts of its spec,
\* in order, and all of them once the client has asked for the commit; what the
\* client reports as completed is, in turn, a prefix of what the server holds.
PutsInOrder ==
    \A t \in ClientTxs : Known(t) =>
        LET puts == client_transactions[t].spec.puts
            held == ServerTx(t).puts
            told == Cli!export_results(t).puts
        IN  /\ Len(held) <= Len(puts)
            /\ \A i \in DOMAIN held : held[i] = [key |-> puts[i].key, value |-> puts[i].value]
            /\ \E n \in 0..Len(held) : told = [i \in 1..n |-> held[i]]
            /\ client_transactions[t].state \in {"COMMIT_SENT"} \union Cli!Ended
               => Len(held) = Len(puts)

\* What export_results tells of a transaction is what the server decided: same
\* verdict, same timestamps, a conflict with a committed transaction.
ClientsAgreeWithServer ==
    \A t \in ClientTxs : Known(t) =>
        LET tx == Cli!export_results(t)
        IN  /\ tx.read_ts # UNDEFINED_TS => tx.read_ts = ServerTx(t).read_ts
            /\ tx.state = "COMMITTED" =>
                 /\ ServerTx(t).state = "COMMITTED"
                 /\ tx.commit_ts = ServerTx(t).commit_ts
                 /\ tx.conflict_txid = UNDEFINED_TX_ID
            /\ tx.state = "ROLLED_BACK_BY_SERVER" =>
                 /\ ServerTx(t).state = "ROLLED_BACK_BY_SERVER"
                 /\ tx.commit_ts = UNDEFINED_TS
                 /\ transactions[tx.conflict_txid].state = "COMMITTED"
                 /\ tx.conflict_txid # tx.txid

\* A client that has been told of its commit can rely on it: each key it put
\* has a version of its transaction, with a value it put, at the timestamp it
\* was told; and nothing gets into the store that was not committed on request
\* of the client whose spec says so.
StoreIsWhatClientsCommitted ==
    /\ \A t \in ClientTxs :
         LET tx == client_transactions[t]
         IN  tx.state = "COMMITTED" =>
               \A i \in DOMAIN tx.spec.puts :
                 \E v \in data[tx.spec.puts[i].key] :
                    v.ts = tx.commit_ts /\ v.txid = tx.txid
    /\ \A key \in Keys : \A v \in data[key] : \E t \in ClientTxs :
         LET tx == client_transactions[t]
         IN  /\ tx.txid = v.txid
             /\ tx.spec.action = "COMMIT"
             /\ tx.state \in {"COMMIT_SENT", "COMMITTED"}
             /\ \E i \in DOMAIN tx.spec.puts :
                  tx.spec.puts[i].key = key /\ tx.spec.puts[i].value = v.value

\* Every transaction that is to be committed gets its verdict in a run that is
\* long enough.
EveryCommitDecided ==
    \A t \in ClientTxs :
        client_transactions[t].spec.action = "COMMIT"
          ~> client_transactions[t].state \in Cli!Ended

\* tx_spec.h, of TxSpec: "It also specifies whether the transaction is
\* committed or rolled back in the end."
EndsAsSpecified ==
    \A t \in ClientTxs : <>(client_transactions[t].state \in Cli!Ended)

=============================================================================
