--------------------------- MODULE TxSystemProofs ---------------------------
(***************************************************************************)
(* Proofs about TxSystem, for any clients, transactions, specs, keys and   *)
(* values, any order of registration and any number of ticks.              *)
(*                                                                         *)
(* The invariant is that of the three parts, as TxServerProofs,            *)
(* TxClientProofs and TxRuntimeProofs prove it, and what TxConversation    *)
(* says of the messages between them.  A part is instantiated here with    *)
(* any batch its actor could be called with; that the runtime calls it     *)
(* with one of those is part of the proof.                                 *)
(*                                                                         *)
(* The proof follows a message.  The runtime and the calls and returns     *)
(* only hand messages on: RuntimeStepInv to ClientReturnsInv.  An actor    *)
(* that handles a message moves one conversation by one message:           *)
(* AnswerInv for the server and TickInv for a client reduce its step to    *)
(* that conversation, and the lemmas after them go through its states.     *)
(* All that is unexpected is excluded on the way, because what is read is  *)
(* the next message of a conversation (NothingUnexpected and               *)
(* NothingSurprising).                                                     *)
(***************************************************************************)
EXTENDS TxConversation, FiniteSetTheorems, TLAPS

\* The parts, and what is proved of them.
SrvP == INSTANCE TxServerProofs WITH Batches <- Seq(Requests)
CliP == INSTANCE TxClientProofs WITH ReplyBatches <- Seq(Replies)
RunP == INSTANCE TxRuntimeProofs WITH
    ActorIDs <- Clients \union {Server},
    Messages <- Requests \union Replies,
    Outboxes <- Seq(Requests \union Replies)

-----------------------------------------------------------------------------
(* The parts of the system are those of the proof modules. *)

\* All modules speak of the same messages.
LEMMA SameMessages ==
  /\ SrvP!Requests = Requests /\ SrvP!Replies = Replies
  /\ CliP!Requests = Requests /\ CliP!Replies = Replies
  /\ SrvP!UNDEFINED_TX_ID = UNDEFINED_TX_ID /\ CliP!UNDEFINED_TX_ID = UNDEFINED_TX_ID
  /\ Cli!UNDEFINED_TX_ID = UNDEFINED_TX_ID
BY DEF SrvP!Requests, Requests, SrvP!MsgUndefined, MsgUndefined, SrvP!UNDEFINED_TX_ID,
       UNDEFINED_TX_ID, CliP!Requests, CliP!MsgUndefined, CliP!UNDEFINED_TX_ID,
       Cli!UNDEFINED_TX_ID, SrvP!Replies, CliP!Replies, Replies

\* Every step of the server in the system is one of TxServerProofs.
LEMMA ServerStepIs == Srv!ServerStep => SrvP!ServerStep
BY DEF Srv!ServerStep, SrvP!ServerStep, Srv!BeginTx, SrvP!BeginTx,
       Srv!HandleMessage, SrvP!HandleMessage, Srv!Handles, SrvP!Handles,
       Srv!Start, SrvP!Start, Srv!tx, SrvP!tx, Srv!Schedule, SrvP!Schedule,
       Srv!ReportUnexpectedMsg, SrvP!ReportUnexpectedMsg, Srv!Put, SrvP!Put,
       Srv!Commit, SrvP!Commit, Srv!RollBack, SrvP!RollBack, Srv!Ignore, SrvP!Ignore,
       Srv!BrokenSwitch, SrvP!BrokenSwitch, Srv!Conflicts, SrvP!Conflicts,
       Srv!GetLast, SrvP!GetLast, Srv!Apply, SrvP!Apply, Srv!FirstPuts, SrvP!FirstPuts,
       Srv!MsgStartAck, SrvP!MsgStartAck, Srv!MsgPutReply, SrvP!MsgPutReply,
       Srv!MsgCommitAck, SrvP!MsgCommitAck,
       Srv!MsgRolledBackByServer, SrvP!MsgRolledBackByServer

\* The same for the operators the actions of a client are made of.
LEMMA ClientOperatorsAre ==
  /\ \A t : /\ Cli!Mine(t) = CliP!Mine(t)
            /\ Cli!Answered(t) = CliP!Answered(t)
            /\ Cli!CompleteRequests(t) = CliP!CompleteRequests(t)
            /\ Cli!VerdictsFirst(t) = CliP!VerdictsFirst(t)
            /\ Cli!Ticks(t) <=> CliP!Ticks(t)
  /\ \A t, type : Cli!Replied(t, type) = CliP!Replied(t, type)
  /\ \A tx, positions : Cli!AfterVerdicts(tx, positions) = CliP!AfterVerdicts(tx, positions)
  /\ \A S : Cli!LastOf(S) = CliP!LastOf(S) /\ Cli!Cardinality(S) = CliP!Cardinality(S)
            /\ Cli!Cardinality(S) = Cardinality(S)
  /\ \A t, x : Cli!Becomes(t, x) <=> CliP!Becomes(t, x)
  /\ Cli!NothingSent <=> CliP!NothingSent
  /\ Cli!ThrowsAndEnds <=> CliP!ThrowsAndEnds
  /\ Cli!coordinator = CliP!coordinator /\ Cli!ts = CliP!ts
  /\ Cli!Ended = CliP!Ended /\ Cli!VerdictTypes = CliP!VerdictTypes
  /\ \A s : Cli!Progress(s) = CliP!Progress(s)
  /\ \A tx : /\ Cli!CanPut(tx) <=> CliP!CanPut(tx)
             /\ Cli!CanCommit(tx) <=> CliP!CanCommit(tx)
             /\ Cli!AddPut(tx) = CliP!AddPut(tx)
             /\ Cli!PutMsg(tx) = CliP!PutMsg(tx)
  /\ \A c, s, x : Cli!MsgCommit(c, s, x) = CliP!MsgCommit(c, s, x)
<1>1. \A t : Cli!Mine(t) = CliP!Mine(t)
  BY DEF Cli!Mine, CliP!Mine, Cli!UNDEFINED_TX_ID, CliP!UNDEFINED_TX_ID
<1>2. \A t, type : Cli!Replied(t, type) = CliP!Replied(t, type)
  BY <1>1 DEF Cli!Replied, CliP!Replied, Cli!coordinator, CliP!coordinator
<1>3. \A t : Cli!Ticks(t) <=> CliP!Ticks(t)
  BY DEF Cli!Ticks, CliP!Ticks, Cli!ts, CliP!ts
<1>4. \A S : Cli!LastOf(S) = CliP!LastOf(S)
  BY DEF Cli!LastOf, CliP!LastOf, Cli!Max, CliP!Max
<1>5. \A S : Cli!Cardinality(S) = CliP!Cardinality(S)
  BY DEF Cli!Cardinality, CliP!Cardinality
<1>6. \A t : Cli!Answered(t) = CliP!Answered(t)
  BY <1>2 DEF Cli!Answered, CliP!Answered
<1>7. \A t : Cli!CompleteRequests(t) = CliP!CompleteRequests(t)
  BY <1>5, <1>6 DEF Cli!CompleteRequests, CliP!CompleteRequests
<1>8. \A t, x : Cli!Becomes(t, x) <=> CliP!Becomes(t, x)
  BY DEF Cli!Becomes, CliP!Becomes
<1>9. /\ Cli!NothingSent <=> CliP!NothingSent
      /\ Cli!ThrowsAndEnds <=> CliP!ThrowsAndEnds
      /\ Cli!coordinator = CliP!coordinator
      /\ Cli!ts = CliP!ts
      /\ Cli!Ended = CliP!Ended
      /\ Cli!VerdictTypes = CliP!VerdictTypes
  BY DEF Cli!NothingSent, CliP!NothingSent, Cli!ThrowsAndEnds, CliP!ThrowsAndEnds,
     Cli!coordinator, CliP!coordinator, Cli!ts, CliP!ts, Cli!Ended, CliP!Ended,
     Cli!VerdictTypes, CliP!VerdictTypes
<1>10. \A s : Cli!Progress(s) = CliP!Progress(s)
  BY DEF Cli!Progress, CliP!Progress
<1>11. \A tx : /\ Cli!CanPut(tx) <=> CliP!CanPut(tx)
               /\ Cli!CanCommit(tx) <=> CliP!CanCommit(tx)
               /\ Cli!AddPut(tx) = CliP!AddPut(tx)
               /\ Cli!PutMsg(tx) = CliP!PutMsg(tx)
  BY DEF Cli!CanPut, CliP!CanPut, Cli!CanCommit, CliP!CanCommit, Cli!AddPut, CliP!AddPut,
         Cli!PutMsg, CliP!PutMsg, Cli!MsgPut, CliP!MsgPut, Cli!ts, CliP!ts,
         Cli!coordinator, CliP!coordinator
<1>12. \A c, s, x : Cli!MsgCommit(c, s, x) = CliP!MsgCommit(c, s, x)
  BY DEF Cli!MsgCommit, CliP!MsgCommit
<1>13. \A S : Cli!Cardinality(S) = Cardinality(S)
  BY DEF Cli!Cardinality, Cardinality
<1>14. \A t : Cli!VerdictsFirst(t) = CliP!VerdictsFirst(t)
  BY <1>1, <1>9 DEF Cli!VerdictsFirst, CliP!VerdictsFirst
<1>15. \A tx, positions :
         Cli!AfterVerdicts(tx, positions) = CliP!AfterVerdicts(tx, positions)
  <2>1. \A positions, type : Cli!Verdicts(positions, type) = CliP!Verdicts(positions, type)
    BY DEF Cli!Verdicts, CliP!Verdicts
  <2> QED BY <1>4, <2>1 DEF Cli!AfterVerdicts, CliP!AfterVerdicts
<1> QED BY <1>1, <1>2, <1>3, <1>4, <1>5, <1>6, <1>7, <1>8, <1>9, <1>10, <1>11, <1>12, <1>13,
           <1>14, <1>15

\* Every step of a client in the system is one of TxClientProofs.
LEMMA ClientStepIs == Cli!ClientStep => CliP!ClientStep
<1>1. ASSUME NEW t \in ClientTxs, Cli!DelayStart(t) PROVE CliP!DelayStart(t)
  BY <1>1, ClientOperatorsAre DEF Cli!DelayStart, CliP!DelayStart
<1>2. ASSUME NEW t \in ClientTxs, Cli!SendStart(t) PROVE CliP!SendStart(t)
  BY <1>2, ClientOperatorsAre
     DEF Cli!SendStart, CliP!SendStart, Cli!Starts, CliP!Starts, Cli!WithParticipant,
         CliP!WithParticipant, Cli!MsgStart, CliP!MsgStart
<1>3. ASSUME NEW t \in ClientTxs, Cli!StartWithoutServer(t) PROVE CliP!StartWithoutServer(t)
  BY <1>3, ClientOperatorsAre
     DEF Cli!StartWithoutServer, CliP!StartWithoutServer, Cli!Starts, CliP!Starts
<1>4. ASSUME NEW t \in ClientTxs, Cli!AwaitStartAck(t) PROVE CliP!AwaitStartAck(t)
  BY <1>4, ClientOperatorsAre DEF Cli!AwaitStartAck, CliP!AwaitStartAck
<1>5. ASSUME NEW t \in ClientTxs, Cli!ReceiveStartAck(t) PROVE CliP!ReceiveStartAck(t)
  BY <1>5, ClientOperatorsAre
     DEF Cli!ReceiveStartAck, CliP!ReceiveStartAck, Cli!Opened, CliP!Opened
<1>6. ASSUME NEW t \in ClientTxs, Cli!PutReplyBeforeStartAck(t)
       PROVE  CliP!PutReplyBeforeStartAck(t)
  BY <1>6, ClientOperatorsAre DEF Cli!PutReplyBeforeStartAck, CliP!PutReplyBeforeStartAck
<1>7. ASSUME NEW t \in ClientTxs, Cli!TickOpen(t) PROVE CliP!TickOpen(t)
  BY <1>7, ClientOperatorsAre DEF Cli!TickOpen, CliP!TickOpen
<1>8. ASSUME NEW t \in ClientTxs, Cli!AwaitVerdict(t) PROVE CliP!AwaitVerdict(t)
  BY <1>8, ClientOperatorsAre DEF Cli!AwaitVerdict, CliP!AwaitVerdict
<1>9. ASSUME NEW t \in ClientTxs, Cli!ReceiveVerdict(t) PROVE CliP!ReceiveVerdict(t)
  BY <1>9, ClientOperatorsAre DEF Cli!ReceiveVerdict, CliP!ReceiveVerdict
<1>10. ASSUME NEW t \in ClientTxs, Cli!ReplyAfterCommit(t) PROVE CliP!ReplyAfterCommit(t)
  BY <1>10, ClientOperatorsAre DEF Cli!ReplyAfterCommit, CliP!ReplyAfterCommit
<1>11. ASSUME NEW t \in ClientTxs, Cli!TickEnded(t) PROVE CliP!TickEnded(t)
  BY <1>11, ClientOperatorsAre DEF Cli!TickEnded, CliP!TickEnded
<1> QED BY <1>1, <1>2, <1>3, <1>4, <1>5, <1>6, <1>7, <1>8, <1>9, <1>10, <1>11
           DEF Cli!ClientStep, CliP!ClientStep

\* The same for its calls and returns, and the initial state,
LEMMA ServerCallIs ==
  /\ \A msgs : Srv!OnTick(msgs) => SrvP!OnTick(msgs)
  /\ Srv!Send => SrvP!Send
  /\ Srv!Init => SrvP!Init
BY DEF Srv!OnTick, SrvP!OnTick, Srv!Send, SrvP!Send, Srv!Init, SrvP!Init,
       Srv!NewServerTX, SrvP!NewServerTX, Srv!UNDEFINED_TX_ID, SrvP!UNDEFINED_TX_ID,
       Srv!UNDEFINED_TS, SrvP!UNDEFINED_TS

\* for those of a client,
LEMMA ClientCallIs ==
  /\ \A c, msgs : Cli!OnTick(c, msgs) => CliP!OnTick(c, msgs)
  /\ Cli!Send => CliP!Send
  /\ Cli!Init => CliP!Init
BY DEF Cli!OnTick, CliP!OnTick, Cli!Send, CliP!Send, Cli!Init, CliP!Init,
       Cli!NewClientTx, CliP!NewClientTx, Cli!UNDEFINED_TX_ID, CliP!UNDEFINED_TX_ID,
       Cli!UNDEFINED_TS, CliP!UNDEFINED_TS, Cli!NoClient, CliP!NoClient

\* and for the runtime.
LEMMA RuntimeIs ==
  /\ Run!Init => RunP!Init
  /\ Run!RuntimeStep => RunP!RuntimeStep
  /\ \A a : Run!Call(a) => RunP!Call(a)
  /\ \A a, msgs : Run!Return(a, msgs) => RunP!Return(a, msgs)
  /\ Incoming = RunP!Incoming
  /\ Outgoing = RunP!Outgoing
  /\ Incoming' = RunP!Incoming'
  /\ Outgoing' = RunP!Outgoing'
<1>1. \A e : Run!Due(e) <=> RunP!Due(e)
  BY DEF Run!Due, RunP!Due
<1>2. Run!Top = RunP!Top
  BY DEF Run!Top, RunP!Top, Run!NotLater, RunP!NotLater
<1>3. Run!RuntimeStep => RunP!RuntimeStep
  <2>1. Run!BeginTick => RunP!BeginTick
    BY DEF Run!BeginTick, RunP!BeginTick
  <2>2. \A e \in Run!Top : Run!Deliver(e) => RunP!Deliver(e)
    BY <1>1, <1>2 DEF Run!Deliver, RunP!Deliver
  <2>3. Run!SendToActors => RunP!SendToActors
    BY <1>1, <1>2 DEF Run!SendToActors, RunP!SendToActors
  <2>4. Run!EndTick => RunP!EndTick
    BY DEF Run!EndTick, RunP!EndTick
  <2> QED BY <1>2, <2>1, <2>2, <2>3, <2>4 DEF Run!RuntimeStep, RunP!RuntimeStep
<1>4. \A a : Run!Call(a) => RunP!Call(a)
  BY DEF Run!Call, RunP!Call
<1>5. \A a, msgs : Run!Return(a, msgs) => RunP!Return(a, msgs)
  BY DEF Run!Return, RunP!Return, Run!Sent, RunP!Sent
<1>6. Run!Init => RunP!Init
  BY DEF Run!Init, RunP!Init
<1>7. /\ Run!InInboxes = RunP!InInboxes /\ Run!InQueue = RunP!InQueue
      /\ Run!InInboxes' = RunP!InInboxes' /\ Run!InQueue' = RunP!InQueue'
  BY DEF Run!InInboxes, RunP!InInboxes, Run!InQueue, RunP!InQueue
<1> QED BY <1>3, <1>4, <1>5, <1>6, <1>7 DEF Incoming, RunP!Incoming, Outgoing, RunP!Outgoing

\* A spec is the same to a client as to the system.
LEMMA TxSpecIs == Cli!TxSpec = CliP!TxSpec
BY DEF Cli!TxSpec, CliP!TxSpec, Cli!ClientTxPut, CliP!ClientTxPut, Cli!Timestamps,
       CliP!Timestamps, Cli!UNDEFINED_TS, CliP!UNDEFINED_TS, Cli!Action, CliP!Action

\* What TxClientProofs assumes of the constants.
LEMMA ClientAssumptions ==
  /\ CliP!NoClient \notin Clients
  /\ Seq(Replies) \subseteq Seq(CliP!Replies)
  /\ TxSpecs \subseteq CliP!TxSpec
  /\ CliP!UNDEFINED_TX_ID \notin TxIDs
  /\ TxsOf \in [Clients -> Seq(ClientTxs)]
  /\ \A c, d \in Clients : \A i \in DOMAIN TxsOf[c], j \in DOMAIN TxsOf[d] :
        TxsOf[c][i] = TxsOf[d][j] => c = d /\ i = j
BY SameMessages, UndefinedTxIsNoTx, TxsOfAssumption, TxSpecsAssumption, TxSpecIs,
   UndefinedActorIsNoClient DEF CliP!NoClient

-----------------------------------------------------------------------------
(* The parts keep their invariants in the system. *)

\* That of the server is kept by what the server does, and by timestamps others
\* take, ...
LEMMA ServerKept ==
  ASSUME SrvP!IInv,
         \/ \E msgs \in Seq(Requests) : Srv!OnTick(msgs)
         \/ Srv!ServerStep
         \/ Srv!Send
         \/ ~active /\ clock' = clock + 1 /\ UNCHANGED serverVars
         \/ UNCHANGED <<clock, serverVars>>
  PROVE  SrvP!IInv'
<1>1. SrvP!Next \/ UNCHANGED SrvP!vars
  BY ServerStepIs, ServerCallIs
     DEF SrvP!Next, SrvP!vars, SrvP!serverVars, serverVars, SrvP!ClockNext
<1> QED BY <1>1, SrvP!NextIInv, SameMessages, UndefinedTxIsNoTx

\* ... that of a client by what clients do and when the clock moves, ...
LEMMA ClientsKept ==
  ASSUME CliP!CInv,
         \/ \E c \in Clients, msgs \in Seq(Replies) : Cli!OnTick(c, msgs)
         \/ Cli!ClientStep
         \/ Cli!Send
         \/ clock' \in Nat /\ UNCHANGED clientVars
  PROVE  CliP!CInv'
<1>1. CASE \E c \in Clients, msgs \in Seq(Replies) : Cli!OnTick(c, msgs)
  <2>1. PICK c \in Clients, msgs \in Seq(Replies) : CliP!OnTick(c, msgs)
    BY <1>1, ClientCallIs
  <2> QED BY <2>1, CliP!OnTickStep, ClientAssumptions
<1>2. CASE Cli!ClientStep
  BY <1>2, ClientStepIs, CliP!ClientStepCInv, ClientAssumptions
<1>3. CASE Cli!Send
  BY <1>3, ClientCallIs, CliP!SendStep, ClientAssumptions
<1>4. CASE clock' \in Nat /\ UNCHANGED clientVars
  BY <1>4, CliP!OthersRun, ClientAssumptions DEF clientVars, CliP!clientVars
<1> QED BY <1>1, <1>2, <1>3, <1>4

\* ... and that of the runtime by its own steps, by timestamps taken and by
\* returns with fresh messages.
LEMMA RuntimeKept ==
  ASSUME RunP!RInv,
         \/ Run!RuntimeStep
         \/ \E a \in Clients \union {Server} : Run!Call(a)
         \/ /\ phase = "on_tick" /\ clock' \in Nat /\ clock <= clock'
            /\ UNCHANGED runtimeVars
         \/ \E a \in Clients \union {Server}, msgs \in Seq(Requests \union Replies) :
              RunP!Fresh(msgs) /\ Run!Return(a, msgs)
  PROVE  RunP!RInv'
<1>1. CASE Run!RuntimeStep
  BY <1>1, RuntimeIs, RunP!RuntimeStepRInv, RegistrationsAssumption, MaxTicksAssumption
<1>2. CASE \E a \in Clients \union {Server} : Run!Call(a)
  <2>1. PICK a \in Clients \union {Server} : RunP!Call(a)
    BY <1>2, RuntimeIs
  <2> QED BY <2>1, RunP!CallStep, RegistrationsAssumption, MaxTicksAssumption
<1>3. CASE /\ phase = "on_tick" /\ clock' \in Nat /\ clock <= clock'
           /\ UNCHANGED runtimeVars
  BY <1>3, RunP!TakeTimestampStep, RegistrationsAssumption, MaxTicksAssumption
     DEF runtimeVars, RunP!runtimeVars
<1>4. CASE \E a \in Clients \union {Server}, msgs \in Seq(Requests \union Replies) :
              RunP!Fresh(msgs) /\ Run!Return(a, msgs)
  <2>1. PICK a \in Clients \union {Server}, msgs \in Seq(Requests \union Replies) :
              RunP!Fresh(msgs) /\ RunP!Return(a, msgs)
    BY <1>4, RuntimeIs
  <2> QED BY <2>1, RunP!ReturnStep, RegistrationsAssumption, MaxTicksAssumption
<1> QED BY <1>1, <1>2, <1>3, <1>4

-----------------------------------------------------------------------------
(* What the invariants of the parts say, in the words of the system. *)

\* Of the server: what a transaction and a batch are made of.
LEMMA ServerFacts ==
  ASSUME SrvP!IInv
  PROVE  /\ clock \in Nat
         /\ DOMAIN transactions = TxIDs
         /\ \A x \in TxIDs :
              /\ transactions[x] \in Srv!ServerTX
              /\ transactions[x].state \in Srv!ServerTXState
              /\ transactions[x].puts \in Seq(Srv!DataPut)
              /\ Len(transactions[x].puts) \in Nat
              /\ DOMAIN transactions[x].puts = 1..Len(transactions[x].puts)
              /\ transactions[x].state = "NOT_STARTED" => transactions[x].puts = <<>>
         /\ batch \in Seq(Requests)
         /\ todo \subseteq DOMAIN batch
         /\ \A i \in todo : batch[i] \in Requests /\ batch[i].txid \in TxIDs
         /\ scheduled \in Seq(Replies)
         /\ Srv!Committed = {x \in TxIDs : transactions[x].state = "COMMITTED"}
<1>1. SrvP!TypeOK /\ SrvP!BatchNamesTxs /\ SrvP!LifeCycle
  BY DEF SrvP!IInv, SrvP!History
<1>2. transactions \in [TxIDs -> Srv!ServerTX] /\ clock \in Nat
  BY <1>1 DEF SrvP!TypeOK, SrvP!ServerTX, Srv!ServerTX, SrvP!ServerTXState, Srv!ServerTXState,
     SrvP!Timestamps, Srv!Timestamps, SrvP!DataPut, Srv!DataPut, SrvP!UNDEFINED_TS,
     Srv!UNDEFINED_TS
<1>3. \A x \in TxIDs : transactions[x].state = "NOT_STARTED" => transactions[x].puts = <<>>
  BY <1>1 DEF SrvP!LifeCycle
<1>4. /\ batch \in Seq(Requests) /\ todo \subseteq DOMAIN batch
      /\ \A i \in todo : batch[i].txid \in TxIDs
      /\ scheduled \in Seq(Replies)
  BY <1>1, SameMessages DEF SrvP!TypeOK, SrvP!BatchNamesTxs
<1>5. Srv!Committed = {x \in TxIDs : transactions[x].state = "COMMITTED"}
  BY DEF Srv!Committed
<1>6. \A tx \in Srv!ServerTX : /\ tx.state \in Srv!ServerTXState
                               /\ tx.puts \in Seq(Srv!DataPut)
                               /\ Len(tx.puts) \in Nat
                               /\ DOMAIN tx.puts = 1..Len(tx.puts)
  BY DEF Srv!ServerTX
<1> QED BY <1>2, <1>3, <1>4, <1>5, <1>6

\* Of the clients: how requests, counter and state of a transaction go together.
LEMMA ClientFacts ==
  ASSUME CliP!CInv, NEW t \in ClientTxs, NEW tx, tx = client_transactions[t]
  PROVE  /\ tx \in CliP!ClientTx
         /\ tx.state \in Cli!ClientTXState
         /\ tx.txid \in Nat \union {UNDEFINED_TX_ID}
         /\ tx.requests \in Seq(CliP!Request)
         /\ Len(tx.requests) \in Nat
         /\ DOMAIN tx.requests = 1..Len(tx.requests)
         /\ tx.completed_puts \in Nat
         /\ tx.next_put = Len(tx.requests)
         /\ Len(tx.spec.puts) \in Nat
         /\ Len(tx.requests) <= Len(tx.spec.puts)
         /\ tx.completed_puts <= Len(tx.requests)
         /\ Known(t) => tx.txid \in 1..next_tx_id
         /\ tx.state = "NOT_STARTED" <=> ~Known(t)
         /\ tx.state \in {"NOT_STARTED", "START_SENT"} => tx.requests = <<>>
         /\ tx.state \in {"COMMIT_SENT"} \union Cli!Ended
              => /\ tx.completed_puts = Len(tx.spec.puts)
                 /\ tx.completed_puts = Len(tx.requests)
<1>1. /\ CliP!Types /\ CliP!RequestsAreSpec(tx) /\ CliP!CountIsRight(tx)
      /\ CliP!ClientLifeCycle(tx) /\ CliP!IdsUnique
  BY DEF CliP!CInv
<1>2. tx \in CliP!ClientTx
  BY <1>1 DEF CliP!Types
<1>3. /\ tx.state \in Cli!ClientTXState
      /\ tx.txid \in Nat \union {UNDEFINED_TX_ID}
      /\ tx.requests \in Seq(CliP!Request)
      /\ tx.completed_puts \in Nat
      /\ tx.spec \in TxSpecs
  BY <1>2 DEF CliP!ClientTx, CliP!ClientTXState, Cli!ClientTXState, CliP!UNDEFINED_TX_ID,
     UNDEFINED_TX_ID
<1>4. Len(tx.requests) \in Nat /\ DOMAIN tx.requests = 1..Len(tx.requests)
  BY <1>3
<1>5. Len(tx.spec.puts) \in Nat
  BY <1>3, TxSpecsAssumption DEF Cli!TxSpec
<1>6. tx.next_put = Len(tx.requests) /\ Len(tx.requests) <= Len(tx.spec.puts)
  BY <1>1 DEF CliP!RequestsAreSpec
<1>7. tx.completed_puts <= Len(tx.requests)
  BY <1>1, <1>2, CliP!CompletedFinite, ClientAssumptions DEF CliP!CountIsRight
<1>8. /\ Known(t) => tx.txid \in 1..next_tx_id
      /\ tx.state = "NOT_STARTED" <=> ~Known(t)
  BY <1>1 DEF CliP!IdsUnique, CliP!ClientLifeCycle, Known, CliP!UNDEFINED_TX_ID, UNDEFINED_TX_ID
<1>9. /\ tx.state \in {"NOT_STARTED", "START_SENT"} => tx.requests = <<>>
      /\ tx.state \in {"COMMIT_SENT"} \union Cli!Ended
           => tx.completed_puts = Len(tx.spec.puts)
  BY <1>1 DEF CliP!ClientLifeCycle, Cli!Ended, CliP!Ended
<1> QED BY <1>2, <1>3, <1>4, <1>5, <1>6, <1>7, <1>8, <1>9

\* No two transactions have one id, no two requests of a transaction either.
LEMMA OwnIds ==
  ASSUME CliP!CInv
  PROVE  /\ next_tx_id \in Nat /\ next_msg_id \in Nat
         /\ \A t, u \in ClientTxs :
              Known(t) /\ client_transactions[t].txid = client_transactions[u].txid => t = u
         /\ \A t \in ClientTxs : \A i \in DOMAIN client_transactions[t].requests :
              client_transactions[t].requests[i].msg_id \in 1..next_msg_id
         /\ \A t \in ClientTxs : \A i, j \in DOMAIN client_transactions[t].requests :
              client_transactions[t].requests[i].msg_id
                = client_transactions[t].requests[j].msg_id => i = j
BY DEF CliP!CInv, CliP!Types, CliP!IdsUnique, Known, CliP!UNDEFINED_TX_ID, UNDEFINED_TX_ID

\* Every transaction a client ticks is its own ...
LEMMA Holder ==
  ASSUME NEW c \in Clients, NEW i \in DOMAIN TxsOf[c]
  PROVE  TxsOf[c][i] \in ClientTxs /\ ClientOf(TxsOf[c][i]) = c
<1> DEFINE t == TxsOf[c][i]
<1>1. t \in ClientTxs
  BY TxsOfAssumption
<1>2. t \in Elements(TxsOf[c])
  BY DEF Elements
<1>3. \A d \in Clients : t \in Elements(TxsOf[d]) => d = c
  BY TxsOfAssumption DEF Elements
<1> QED BY <1>1, <1>2, <1>3 DEF ClientOf

\* ... and every transaction has a client that does.
LEMMA HeldByClient ==
  ASSUME NEW t \in ClientTxs
  PROVE  ClientOf(t) \in Clients /\ t \in Elements(TxsOf[ClientOf(t)])
BY TxsOfAssumption DEF ClientOf, Elements

-----------------------------------------------------------------------------
(* The invariant of the system, and what it says of one conversation. *)

\* The Generator counts up from 1 and never runs out of ids.
IdsSuffice == Nat \ {0} \subseteq TxIDs \intersect MsgIDs

\* The clients find the one server there is.
ServerIsDiscovered == Discoveries = {<<Server>>}

\* The invariant of the system.
SysInv ==
    /\ IdsSuffice
    /\ SrvP!IInv
    /\ CliP!CInv
    /\ RunP!RInv
    /\ Conversations
    /\ NoStrangers
    /\ OneRuns
    /\ SilentBefore
    /\ OneMessageEach

\* Progress is counted.
LEMMA Progress ==
  ASSUME SysInv, NEW t \in ClientTxs
  PROVE  /\ Sent(t) \in Nat /\ Handled(t) \in Nat /\ Taken(t) \in Nat
         /\ Known(t) => client_transactions[t].txid \in TxIDs
<1> DEFINE tx == client_transactions[t]
<1>1. Len(tx.requests) \in Nat /\ tx.completed_puts \in Nat
  BY ClientFacts DEF SysInv
<1>2. Known(t) => tx.txid \in TxIDs
  BY ClientFacts, OwnIds DEF SysInv, IdsSuffice
<1>3. Known(t) => Len(ServerTx(t).puts) \in Nat
  BY <1>2, ServerFacts DEF SysInv, ServerTx
<1>4. Sent(t) \in Nat
  <2>1. Sent(t) \in {0, 1, Len(tx.requests) + 1, Len(tx.requests) + 2}
    BY DEF Sent
  <2> QED BY <1>1, <2>1
<1>5. Handled(t) \in Nat
  BY <1>3 DEF Handled
<1>6. Taken(t) \in Nat
  <2>1. Taken(t) \in {0, tx.completed_puts + 1, tx.completed_puts + 2}
    BY DEF Taken
  <2> QED BY <1>1, <2>1
<1> QED BY <1>2, <1>4, <1>5, <1>6

\* A conversation goes on as long as neither side and none of its messages
\* move.
LEMMA ConversationKept ==
  ASSUME NEW t \in ClientTxs, Conversation(t),
         client_transactions[t].state = "NOT_STARTED" <=> ~Known(t),
         client_transactions'[t] = client_transactions[t],
         Known(t) => ServerTx(t)' = ServerTx(t),
         Srv!Committed \subseteq Srv!Committed',
         ReadyRequests(t)' = ReadyRequests(t), SentRequests(t)' = SentRequests(t),
         ReadyReplies(t)' = ReadyReplies(t), SentReplies(t)' = SentReplies(t)
  PROVE  Conversation(t)'
<1>1. Known(t)' <=> Known(t)
  BY DEF Known
<1>2. Sent(t)' = Sent(t) /\ Taken(t)' = Taken(t) /\ Handled(t)' = Handled(t)
  BY <1>1 DEF Sent, Taken, Handled
<1>3. \A n : Request(t, n)' = Request(t, n)
  BY DEF Request, MsgStart, MsgPut, MsgCommit
<1>4. ASSUME Known(t), NEW n, NEW m, IsReply(t, n, m) PROVE IsReply(t, n, m)'
  BY <1>4 DEF IsReply, MsgStartAck, MsgPutReply, MsgCommitAck, MsgRolledBackByServer
<1>5. ~Known(t) => Sent(t) = 0 /\ Taken(t) = 0 /\ Handled(t) = 0
  BY DEF Sent, Taken, Handled
<1>6. ~Known(t) => ReadyReplies(t) = {} /\ SentReplies(t) = {}
  BY <1>5 DEF Conversation, RepliesInOrder, Count
<1>7. RequestsInOrder(t)'
  <2>1. Count(ReadyRequests(t))' = Count(ReadyRequests(t))
        /\ Count(SentRequests(t))' = Count(SentRequests(t))
    BY DEF Count
  <2> QED BY <1>2, <1>3, <2>1 DEF Conversation, RequestsInOrder
<1>8. RepliesInOrder(t)'
  <2>1. Count(ReadyReplies(t))' = Count(ReadyReplies(t))
        /\ Count(SentReplies(t))' = Count(SentReplies(t))
    BY DEF Count
  <2>2. RepliesInOrder(t)
    BY DEF Conversation
  <2>3. \A m \in ReadyReplies(t)' : IsReply(t, Taken(t) + 1, m)'
    BY <1>2, <1>4, <1>6, <2>2 DEF RepliesInOrder
  <2>4. \A m \in SentReplies(t)' : IsReply(t, Handled(t), m)'
    BY <1>2, <1>4, <1>6, <2>2 DEF RepliesInOrder
  <2> QED BY <1>2, <2>1, <2>2, <2>3, <2>4 DEF RepliesInOrder
<1>9. SamePuts(t)'
  BY <1>1 DEF Conversation, SamePuts
<1>10. SameVerdict(t)'
  BY <1>1 DEF Conversation, SameVerdict, Cli!Ended, UNDEFINED_TS
<1> QED BY <1>7, <1>8, <1>9, <1>10 DEF Conversation

\* Messages go from clients to the server or back.
LEMMA MessageKinds ==
  /\ \A m \in Requests : m.source \in Clients /\ m.destination = Server
  /\ \A m \in Replies : m.source = Server /\ m.destination \in Clients
  /\ \A m \in Requests \union Replies : m.destination # Server <=> m \in Replies
BY ServerIsNoClient DEF Requests, Replies, MsgUndefined

\* What is on its way are messages, and actors are called in turn.
LEMMA Traffic ==
  ASSUME RunP!RInv
  PROVE  /\ Incoming \subseteq Requests \union Replies
         /\ Outgoing \subseteq Requests \union Replies
         /\ clock \in Nat
         /\ actors \in Seq(Clients \union {Server})
         /\ \A i, j \in DOMAIN actors : actors[i] = actors[j] => i = j
         /\ phase \in {"begin", "deliver", "call", "on_tick"}
<1>1. RunP!RuntimeTypeOK
  BY DEF RunP!RInv
<1>2. actors \in Registrations /\ clock \in Nat /\ phase \in {"begin", "deliver", "call", "on_tick"}
  BY <1>1 DEF RunP!RuntimeTypeOK
<1>3. RunP!InInboxes \subseteq Requests \union Replies
  BY <1>1 DEF RunP!RuntimeTypeOK, RunP!InInboxes
<1>4. RunP!InQueue \subseteq Requests \union Replies
  BY <1>1 DEF RunP!RuntimeTypeOK, RunP!InQueue, RunP!SentMessage
<1> QED BY <1>2, <1>3, <1>4, RegistrationsAssumption, RuntimeIs DEF RunP!Incoming, RunP!Outgoing

\* Between two actors nobody is in on_tick.
LEMMA NobodyRuns ==
  ASSUME SysInv, phase # "on_tick"
  PROVE  /\ ~active /\ on_tick_of = Cli!NoClient
         /\ batch = <<>> /\ todo = {} /\ scheduled = <<>>
         /\ received = <<>> /\ outbox = <<>>
<1>1. on_tick_of \in Clients \union {Cli!NoClient}
  BY DEF SysInv, CliP!CInv, CliP!Types, CliP!NoClient, Cli!NoClient, CliP!UNDEFINED_TX_ID,
         Cli!UNDEFINED_TX_ID
<1> QED BY <1>1 DEF SysInv, OneRuns

\* A step of the runtime is a new round, or nothing moves.
LEMMA RuntimeFlow ==
  ASSUME SysInv, Run!RuntimeStep
  PROVE  /\ phase # "on_tick" /\ phase' # "on_tick"
         /\ phase' = "call" => Outgoing' = {}
         /\ no_destination' = no_destination
         /\ \/ Incoming = {} /\ Incoming' = Outgoing /\ Outgoing' = {}
            \/ Incoming' = Incoming /\ Outgoing' = Outgoing
         /\ clock' = clock \/ clock' = clock + 1
<1>1. RunP!RInv /\ RunP!RuntimeStep
  BY RuntimeIs DEF SysInv
<1>2. /\ phase # "on_tick" /\ phase' # "on_tick"
      /\ phase' = "call" => phase = "deliver"
      /\ clock' = clock \/ clock' = clock + 1
  BY <1>1 DEF RunP!RuntimeStep, RunP!BeginTick, RunP!Deliver, RunP!SendToActors, RunP!EndTick
<1>3. CASE RunP!BeginTick
  <2>1. RunP!Incoming = {} /\ RunP!Incoming' = RunP!Outgoing /\ RunP!Outgoing' = {}
    BY <1>1, <1>3, RunP!NewRound, RegistrationsAssumption, MaxTicksAssumption
  <2> QED BY <1>2, <1>3, <2>1, RuntimeIs DEF RunP!BeginTick
<1>4. ASSUME NEW e \in RunP!Top, RunP!Deliver(e)
      PROVE  no_destination' = no_destination /\ Incoming' = Incoming /\ Outgoing' = Outgoing
  <2>1. /\ e.msg \in RunP!Incoming /\ RunP!Outgoing' = RunP!Outgoing
        /\ e.msg.destination \in Clients \union {Server} => RunP!Incoming' = RunP!Incoming
    BY <1>1, <1>4, RunP!DeliveryFlow, RegistrationsAssumption, MaxTicksAssumption
  <2>2. e.msg.destination \in Clients \union {Server}
    BY <1>1, <2>1, Traffic, RuntimeIs, MessageKinds
  <2>3. no_destination' = no_destination
    BY <1>4, <2>2 DEF RunP!Deliver
  <2> QED BY <2>1, <2>2, <2>3, RuntimeIs
<1>5. CASE RunP!SendToActors \/ RunP!EndTick
  <2>1. RunP!Incoming' = RunP!Incoming /\ RunP!Outgoing' = RunP!Outgoing
    BY <1>1, <1>5, RunP!TurningPoints, RegistrationsAssumption, MaxTicksAssumption
  <2>2. Outgoing' = Outgoing /\ Incoming' = Incoming
    BY <2>1, RuntimeIs
  <2>3. phase' = "call" => Outgoing = {}
    BY <1>2 DEF Outgoing
  <2> QED BY <1>2, <1>5, <2>2, <2>3 DEF RunP!SendToActors, RunP!EndTick
<1>6. phase = "deliver" => Outgoing = {}
  BY DEF Outgoing
<1>7. \/ RunP!BeginTick
      \/ \E e \in RunP!Top : RunP!Deliver(e)
      \/ RunP!SendToActors \/ RunP!EndTick
  BY <1>1 DEF RunP!RuntimeStep
<1> QED BY <1>2, <1>3, <1>4, <1>5, <1>6, <1>7

-----------------------------------------------------------------------------
(* The runtime *)

\* When a tick begins, what was sent becomes ready.
LEMMA ConversationNextRound ==
  ASSUME SysInv, NEW t \in ClientTxs,
         UNCHANGED <<client_transactions, transactions>>,
         ReadyRequests(t) = {}, ReadyRequests(t)' = SentRequests(t), SentRequests(t)' = {},
         ReadyReplies(t) = {}, ReadyReplies(t)' = SentReplies(t), SentReplies(t)' = {}
  PROVE  Conversation(t)'
<1>1. Conversation(t)
  BY DEF SysInv, Conversations
<1>2. /\ Sent(t)' = Sent(t) /\ Taken(t)' = Taken(t) /\ Handled(t)' = Handled(t)
      /\ \A n : Request(t, n)' = Request(t, n)
      /\ \A n, m : IsReply(t, n, m)' <=> IsReply(t, n, m)
  BY DEF Sent, Taken, Handled, Known, ServerTx, Request, MsgStart, MsgPut, MsgCommit, IsReply,
         MsgStartAck, MsgPutReply, MsgCommitAck, MsgRolledBackByServer, Srv!Committed
<1>3. Handled(t) \in Nat /\ Taken(t) \in Nat /\ Sent(t) \in Nat
  BY Progress
<1>4. RequestsInOrder(t)'
  <2>1. Sent(t) = Handled(t) + Count(SentRequests(t))
    BY <1>1, <1>3 DEF Conversation, RequestsInOrder, Count
  <2>2. ASSUME NEW m \in SentRequests(t) PROVE m = Request(t, Handled(t) + 1)
    BY <1>1, <1>3, <2>1, <2>2 DEF Conversation, RequestsInOrder, Count
  <2>3. Sent(t) = Handled(t) + Count(SentRequests(t)) + Count({})
    BY <1>3, <2>1 DEF Count
  <2>4. /\ Count(ReadyRequests(t))' = Count(SentRequests(t))
        /\ Count(SentRequests(t))' = Count({})
    BY DEF Count
  <2> QED BY <1>2, <2>2, <2>3, <2>4 DEF RequestsInOrder
<1>5. RepliesInOrder(t)'
  <2>1. /\ Handled(t) = Taken(t) + Count(SentReplies(t))
        /\ \A m \in SentReplies(t) : IsReply(t, Handled(t), m)
        /\ \A m, o \in SentReplies(t) : m = o
    BY <1>1, <1>3 DEF Conversation, RepliesInOrder, Count
  <2>2. ASSUME NEW m \in SentReplies(t) PROVE IsReply(t, Taken(t) + 1, m)
    BY <1>3, <2>1, <2>2 DEF Count
  <2>3. Handled(t) = Taken(t) + Count(SentReplies(t)) + Count({})
    BY <1>3, <2>1 DEF Count
  <2>4. /\ Count(ReadyReplies(t))' = Count(SentReplies(t))
        /\ Count(SentReplies(t))' = Count({})
    BY DEF Count
  <2> QED BY <1>2, <2>1, <2>2, <2>3, <2>4 DEF RepliesInOrder
<1>6. SamePuts(t)'
  BY <1>1 DEF Conversation, SamePuts, Known, ServerTx
<1>7. SameVerdict(t)'
  BY <1>1 DEF Conversation, SameVerdict, Known, ServerTx, Srv!Committed
<1> QED BY <1>4, <1>5, <1>6, <1>7 DEF Conversation

\* The runtime keeps the invariant.
LEMMA RuntimeStepInv ==
  ASSUME SysInv, RuntimeStep
  PROVE  SysInv'
<1>1. Run!RuntimeStep /\ UNCHANGED <<serverVars, clientVars>>
  BY DEF RuntimeStep
<1>2. /\ phase # "on_tick" /\ phase' # "on_tick"
      /\ phase' = "call" => Outgoing' = {}
      /\ no_destination' = no_destination
      /\ \/ Incoming = {} /\ Incoming' = Outgoing /\ Outgoing' = {}
         \/ Incoming' = Incoming /\ Outgoing' = Outgoing
      /\ clock' = clock \/ clock' = clock + 1
  BY <1>1, RuntimeFlow
<1>3. /\ ~active /\ on_tick_of = Cli!NoClient
      /\ batch = <<>> /\ todo = {} /\ scheduled = <<>>
      /\ received = <<>> /\ outbox = <<>>
  BY <1>2, NobodyRuns
<1>4. SrvP!IInv'
  BY <1>1, <1>2, <1>3, ServerKept DEF SysInv
<1>5. CliP!CInv'
  BY <1>1, <1>2, ClientsKept, Traffic DEF SysInv
<1>6. RunP!RInv'
  BY <1>1, RuntimeKept DEF SysInv
<1>7. Elements(<<>>) = {}
  BY DEF Elements
<1>8. /\ batch' = <<>> /\ todo' = {} /\ scheduled' = <<>>
      /\ received' = <<>> /\ outbox' = <<>> /\ on_tick_of' = on_tick_of /\ ~active'
      /\ client_transactions' = client_transactions /\ transactions' = transactions
      /\ failure' = failure /\ client_failure' = client_failure /\ discovery' = discovery
  BY <1>1, <1>3 DEF serverVars, clientVars
<1>9. ASSUME NEW t \in ClientTxs
      PROVE  /\ ReadyRequests(t) = RequestsOf(t, Incoming)
             /\ ReadyReplies(t) = RepliesOf(t, Incoming)
             /\ SentRequests(t) = RequestsOf(t, Outgoing)
             /\ SentReplies(t) = RepliesOf(t, Outgoing)
             /\ ReadyRequests(t)' = RequestsOf(t, Incoming')
             /\ ReadyReplies(t)' = RepliesOf(t, Incoming')
             /\ SentRequests(t)' = RequestsOf(t, Outgoing')
             /\ SentReplies(t)' = RepliesOf(t, Outgoing')
  <2>1. {batch[i] : i \in todo} = {} /\ {batch'[i] : i \in todo'} = {}
    BY <1>3, <1>8
  <2> QED BY <1>3, <1>7, <1>8, <2>1
          DEF ReadyRequests, ReadyReplies, SentRequests, SentReplies, RequestsOf, RepliesOf
<1>10. Conversations'
  <2> SUFFICES ASSUME NEW t \in ClientTxs PROVE Conversation(t)'
    BY DEF Conversations
  <2>1. CASE Incoming = {} /\ Incoming' = Outgoing /\ Outgoing' = {}
    <3>1. \A msgs : RequestsOf(t, {}) = {} /\ RepliesOf(t, {}) = {}
      BY DEF RequestsOf, RepliesOf
    <3> QED BY <2>1, <3>1, <1>8, <1>9, ConversationNextRound
  <2>2. CASE Incoming' = Incoming /\ Outgoing' = Outgoing
    <3>1. Conversation(t) /\ (client_transactions[t].state = "NOT_STARTED" <=> ~Known(t))
      BY ClientFacts DEF SysInv, Conversations
    <3>2. ServerTx(t)' = ServerTx(t) /\ Srv!Committed' = Srv!Committed
      BY <1>8 DEF ServerTx, Srv!Committed
    <3> QED BY <2>2, <3>1, <3>2, <1>8, <1>9, ConversationKept
  <2> QED BY <1>2, <2>1, <2>2
<1>11. NoStrangers'
  <2>1. InFlight' = InFlight
    BY <1>2, <1>3, <1>7, <1>8 DEF InFlight
  <2> QED BY <2>1, <1>8 DEF SysInv, NoStrangers, Known
<1>12. OneRuns'
  BY <1>1, <1>2, <1>3, <1>8 DEF SysInv, OneRuns, NoFailure, Cli!NoClient
<1>13. SilentBefore'
  BY <1>2 DEF SilentBefore
<1>14. OneMessageEach'
  BY <1>8 DEF OneMessageEach
<1>15. IdsSuffice'
  BY DEF SysInv, IdsSuffice
<1> QED BY <1>4, <1>5, <1>6, <1>10, <1>11, <1>12, <1>13, <1>14, <1>15 DEF SysInv

-----------------------------------------------------------------------------
(* Calls and returns *)

\* Messages change hands, nobody says anything.
LEMMA NothingSaid ==
  ASSUME SysInv, UNCHANGED <<client_transactions, transactions>>,
         \A t \in ClientTxs :
            /\ ReadyRequests(t)' = ReadyRequests(t) /\ SentRequests(t)' = SentRequests(t)
            /\ ReadyReplies(t)' = ReadyReplies(t) /\ SentReplies(t)' = SentReplies(t),
         InFlight' \subseteq InFlight
  PROVE  Conversations' /\ NoStrangers'
<1>1. ASSUME NEW t \in ClientTxs PROVE Conversation(t)'
  <2>1. Conversation(t) /\ (client_transactions[t].state = "NOT_STARTED" <=> ~Known(t))
    BY ClientFacts DEF SysInv, Conversations
  <2>2. ServerTx(t)' = ServerTx(t) /\ Srv!Committed' = Srv!Committed
    BY DEF ServerTx, Srv!Committed
  <2> QED BY <2>1, <2>2, ConversationKept
<1> QED BY <1>1 DEF Conversations, SysInv, NoStrangers, Known

\* The inbox an actor is called with.
LEMMA CalledWith ==
  ASSUME SysInv, NEW a \in Clients \union {Server}, Run!Call(a),
         NEW inbox, inbox = destination_actor_messages[a]
  PROVE  /\ inbox \in Seq(IF a = Server THEN Requests ELSE Replies)
         /\ Elements(inbox) = {m \in Incoming : m.destination = a}
         /\ Incoming' = {m \in Incoming : m.destination # a}
         /\ Outgoing' = Outgoing
         /\ \A i, j \in DOMAIN inbox : inbox[i] = inbox[j] => i = j
         /\ phase = "call" /\ phase' = "on_tick" /\ actors[turn] = a
         /\ UNCHANGED <<clock, actors, turn, no_destination>>
<1>1. RunP!RInv /\ RunP!Call(a)
  BY RuntimeIs DEF SysInv
<1>2. inbox = RunP!Inbox(a)
  BY DEF RunP!Inbox
<1>3. /\ Elements(inbox) = {m \in Incoming : m.destination = a}
      /\ Incoming' = {m \in Incoming : m.destination # a}
      /\ Outgoing' = Outgoing
  BY <1>1, <1>2, RunP!CallFlow, RuntimeIs, RegistrationsAssumption, MaxTicksAssumption
     DEF Elements
<1>4. /\ inbox \in Seq(Requests \union Replies)
      /\ \A i, j \in DOMAIN inbox : inbox[i] = inbox[j] => i = j
  BY <1>1 DEF RunP!RInv, RunP!RuntimeTypeOK, RunP!NoDuplicates
<1>5. \A i \in DOMAIN inbox : inbox[i].destination = a /\ inbox[i] \in Requests \union Replies
  BY <1>3, <1>4 DEF Elements
<1>6. \A i \in DOMAIN inbox : inbox[i] \in IF a = Server THEN Requests ELSE Replies
  BY <1>5, MessageKinds
<1>7. inbox \in Seq(IF a = Server THEN Requests ELSE Replies)
  BY <1>4, <1>6
<1> QED BY <1>1, <1>3, <1>4, <1>7 DEF RunP!Call

\* The server is called: what is there for it becomes its batch.
LEMMA CallServerInv ==
  ASSUME SysInv, CallServer
  PROVE  SysInv'
<1> DEFINE inbox == destination_actor_messages[Server]
<1>1. Run!Call(Server) /\ Srv!OnTick(inbox) /\ UNCHANGED clientVars
  BY DEF CallServer
<1>2. /\ inbox \in Seq(Requests)
      /\ Elements(inbox) = {m \in Incoming : m.destination = Server}
      /\ Incoming' = {m \in Incoming : m.destination # Server}
      /\ Outgoing' = Outgoing
      /\ \A i, j \in DOMAIN inbox : inbox[i] = inbox[j] => i = j
      /\ phase = "call" /\ phase' = "on_tick" /\ actors[turn] = Server
      /\ UNCHANGED <<clock, actors, turn, no_destination>>
  BY <1>1, CalledWith
<1>3. /\ ~active /\ on_tick_of = Cli!NoClient
      /\ batch = <<>> /\ todo = {} /\ scheduled = <<>>
      /\ received = <<>> /\ outbox = <<>>
  BY <1>2, NobodyRuns
<1>4. SrvP!IInv'
  BY <1>1, <1>2, ServerKept DEF SysInv
<1>5. CliP!CInv'
  BY <1>1, <1>2, ClientsKept, Traffic DEF SysInv
<1>6. RunP!RInv'
  BY <1>1, RuntimeKept DEF SysInv
<1>7. /\ batch' = inbox /\ todo' = DOMAIN inbox /\ active'
      /\ UNCHANGED <<transactions, scheduled, failure>>
      /\ UNCHANGED <<discovery, client_transactions, on_tick_of, received, next_tx, outbox,
                     client_failure>>
  BY <1>1 DEF Srv!OnTick, clientVars
<1> HIDE DEF inbox
<1>8. {batch[i] : i \in todo} = {} /\ {batch'[i] : i \in todo'} = Elements(inbox)
  BY <1>3, <1>7 DEF Elements
<1>9. \A t : ~Unticked(t) /\ ~(Unticked(t)')
  BY <1>3, <1>7, UndefinedActorIsNoClient DEF Unticked, Cli!NoClient, Cli!UNDEFINED_TX_ID, UNDEFINED_TX_ID
<1>10. Conversations' /\ NoStrangers'
  <2>1. ASSUME NEW t \in ClientTxs
        PROVE  /\ ReadyRequests(t)' = ReadyRequests(t) /\ SentRequests(t)' = SentRequests(t)
               /\ ReadyReplies(t)' = ReadyReplies(t) /\ SentReplies(t)' = SentReplies(t)
    BY <1>2, <1>7, <1>8, <1>9
       DEF ReadyRequests, SentRequests, ReadyReplies, SentReplies, RequestsOf, RepliesOf, Elements
  <2>2. InFlight' \subseteq InFlight
    BY <1>2, <1>3, <1>7, <1>8 DEF InFlight, Elements
  <2> QED BY <1>7, <2>1, <2>2, NothingSaid
<1>11. OneRuns'
  BY <1>2, <1>3, <1>7, ServerIsNoClient, UndefinedActorIsNoClient
     DEF SysInv, OneRuns, NoFailure, Cli!NoClient, Cli!UNDEFINED_TX_ID, UNDEFINED_TX_ID
<1>12. SilentBefore'
  BY <1>2 DEF SysInv, SilentBefore
<1>13. OneMessageEach'
  <2>1. ASSUME NEW i \in DOMAIN inbox, NEW j \in DOMAIN inbox, inbox[i].txid = inbox[j].txid
        PROVE  i = j
    <3>1. /\ inbox[i] \in Incoming /\ inbox[i].destination = Server
          /\ inbox[j] \in Incoming /\ inbox[j].destination = Server
      BY <1>2 DEF Elements
    <3>2. PICK t \in ClientTxs : inbox[i].txid = client_transactions[t].txid
      BY <3>1 DEF SysInv, NoStrangers, InFlight
    <3>3. inbox[i] \in ReadyRequests(t) /\ inbox[j] \in ReadyRequests(t)
      BY <2>1, <3>1, <3>2 DEF ReadyRequests, RequestsOf
    <3>4. inbox[i] = inbox[j]
      BY <3>3 DEF SysInv, Conversations, Conversation, RequestsInOrder
    <3> QED BY <1>2, <3>4
  <2> QED BY <1>3, <1>7, <2>1 DEF OneMessageEach
<1> QED BY <1>4, <1>5, <1>6, <1>10, <1>11, <1>12, <1>13 DEF SysInv, IdsSuffice

\* The requests of a transaction differ, and so do the replies.
LEMMA Numbered ==
  ASSUME SysInv, NEW t \in ClientTxs, NEW n \in 1..Sent(t), NEW k \in 1..Sent(t)
  PROVE  /\ Request(t, n) = Request(t, k) => n = k
         /\ \A m : IsReply(t, n, m) /\ IsReply(t, k, m) => n = k
<1> DEFINE tx == client_transactions[t]
           puts == Len(tx.requests)
<1>1. /\ puts \in Nat /\ DOMAIN tx.requests = 1..puts
      /\ \A i, j \in DOMAIN tx.requests : tx.requests[i].msg_id = tx.requests[j].msg_id => i = j
  BY ClientFacts, OwnIds DEF SysInv
<1>2. Sent(t) \in {0, 1, puts + 1, puts + 2}
  BY DEF Sent
<1>3. n \in 1..(puts + 2) /\ k \in 1..(puts + 2)
  BY <1>1, <1>2
<1>4. \A i \in 1..(puts + 2) : i = 1 \/ i - 1 \in DOMAIN tx.requests \/ i = puts + 2
  BY <1>1
<1>5. (puts + 2) - 1 \notin DOMAIN tx.requests
  BY <1>1
<1> HIDE DEF puts
<1>6. Request(t, n) = Request(t, k) => n = k
  BY <1>1, <1>3, <1>4, <1>5 DEF Request, MsgStart, MsgPut, MsgCommit
<1>7. ASSUME NEW m, IsReply(t, n, m), IsReply(t, k, m) PROVE n = k
  <2>1. /\ n = 1 => m.type = "MSG_START_ACK"
        /\ n # 1 /\ n - 1 \in DOMAIN tx.requests
             => m.type = "MSG_PUT_REPLY" /\ m.msg_id = tx.requests[n - 1].msg_id
        /\ n # 1 /\ n - 1 \notin DOMAIN tx.requests
             => m.type \in {"MSG_COMMIT_ACK", "MSG_ROLLED_BACK_BY_SERVER"}
    BY <1>7 DEF IsReply, MsgStartAck, MsgPutReply, MsgCommitAck, MsgRolledBackByServer
  <2>2. /\ k = 1 => m.type = "MSG_START_ACK"
        /\ k # 1 /\ k - 1 \in DOMAIN tx.requests
             => m.type = "MSG_PUT_REPLY" /\ m.msg_id = tx.requests[k - 1].msg_id
        /\ k # 1 /\ k - 1 \notin DOMAIN tx.requests
             => m.type \in {"MSG_COMMIT_ACK", "MSG_ROLLED_BACK_BY_SERVER"}
    BY <1>7 DEF IsReply, MsgStartAck, MsgPutReply, MsgCommitAck, MsgRolledBackByServer
  <2>3. n - 1 \in DOMAIN tx.requests /\ k - 1 \in DOMAIN tx.requests /\ n - 1 = k - 1 => n = k
    BY <1>3
  <2> QED BY <1>1, <1>3, <1>4, <2>1, <2>2, <2>3
<1> QED BY <1>6, <1>7

\* A message that is ready has not just been sent.
LEMMA ReadyIsNotSent ==
  ASSUME SysInv, NEW t \in ClientTxs
  PROVE  /\ ReadyRequests(t) \intersect SentRequests(t) = {}
         /\ ReadyReplies(t) \intersect SentReplies(t) = {}
<1>1. Conversation(t) /\ Sent(t) \in Nat /\ Handled(t) \in Nat /\ Taken(t) \in Nat
  BY Progress DEF SysInv, Conversations
<1>2. ASSUME NEW m \in ReadyRequests(t), m \in SentRequests(t) PROVE FALSE
  <2>1. m = Request(t, Handled(t) + 1) /\ m = Request(t, Sent(t)) /\ Sent(t) = Handled(t) + 2
    BY <1>1, <1>2 DEF Conversation, RequestsInOrder, Count
  <2>2. Handled(t) + 1 \in 1..Sent(t) /\ Sent(t) \in 1..Sent(t) /\ Handled(t) + 1 # Sent(t)
    BY <1>1, <2>1
  <2> QED BY <2>1, <2>2, Numbered
<1>3. ASSUME NEW m \in ReadyReplies(t), m \in SentReplies(t) PROVE FALSE
  <2>1. IsReply(t, Taken(t) + 1, m) /\ IsReply(t, Handled(t), m) /\ Handled(t) = Taken(t) + 2
    BY <1>1, <1>3 DEF Conversation, RepliesInOrder, Count
  <2>2. Handled(t) <= Sent(t)
    BY <1>1 DEF Conversation, RequestsInOrder, Count
  <2>3. /\ Taken(t) + 1 \in 1..Sent(t) /\ Handled(t) \in 1..Sent(t)
        /\ Taken(t) + 1 # Handled(t)
    BY <1>1, <2>1, <2>2
  <2> QED BY <2>1, <2>3, Numbered
<1> QED BY <1>2, <1>3

\* Whose turn it is to return.
LEMMA Returning ==
  ASSUME SysInv, NEW a \in Clients \union {Server}, phase = "on_tick", a = actors[turn]
  PROVE  /\ turn \in DOMAIN actors
         /\ \A m \in Incoming : m.destination # a
         /\ \A m \in Outgoing : m.source # a
         /\ \A k \in DOMAIN actors : k >= turn + 1 => actors[k] # a
         /\ RunP!InInboxes \union RunP!InQueue = Incoming \union Outgoing
<1>1. RunP!RInv
  BY DEF SysInv
<1>2. turn \in DOMAIN actors /\ turn \in Nat /\ DOMAIN actors \subseteq Nat
  <2>1. actors \in Seq(Clients \union {Server}) /\ turn <= Len(actors) /\ turn \in 1..(Len(actors) + 1)
    BY <1>1, Traffic DEF RunP!RInv, RunP!RuntimeTypeOK, RunP!LoopBounds
  <2> QED BY <2>1
<1>3. \A m \in Incoming : m.destination # a
  BY <1>1, RunP!NothingForCalled, RuntimeIs, RegistrationsAssumption, MaxTicksAssumption
<1>4. \A m \in Outgoing : m.source # a
  BY <1>2 DEF SysInv, SilentBefore
<1>5. \A k \in DOMAIN actors : k >= turn + 1 => actors[k] # a
  BY <1>1, <1>2, Traffic
<1>6. RunP!InInboxes \union RunP!InQueue = Incoming \union Outgoing
  BY RuntimeIs DEF RunP!Incoming, RunP!Outgoing
<1> QED BY <1>2, <1>3, <1>4, <1>5, <1>6

\* The server returns: its replies go out.
LEMMA ServerReturnsInv ==
  ASSUME SysInv, ServerReturns
  PROVE  SysInv'
<1>1. Srv!Send /\ Run!Return(Server, scheduled) /\ UNCHANGED clientVars
  BY DEF ServerReturns
<1>2. /\ phase = "on_tick" /\ Server = actors[turn] /\ phase' = "call" /\ turn' = turn + 1
      /\ UNCHANGED <<clock, actors, no_destination>>
  BY <1>1 DEF Run!Return
<1>3. /\ turn \in DOMAIN actors
      /\ \A m \in Outgoing : m.source # Server
      /\ \A k \in DOMAIN actors : k >= turn + 1 => actors[k] # Server
      /\ RunP!InInboxes \union RunP!InQueue = Incoming \union Outgoing
  BY <1>2, Returning
<1>4. /\ active /\ todo = {} /\ ~active' /\ batch' = <<>> /\ todo' = {} /\ scheduled' = <<>>
      /\ UNCHANGED <<transactions, failure>>
      /\ UNCHANGED <<discovery, client_transactions, on_tick_of, received, next_tx, outbox,
                     client_failure>>
  BY <1>1 DEF Srv!Send, clientVars
<1>5. /\ scheduled \in Seq(Replies)
      /\ \A m \in Elements(scheduled) : m \in Replies /\ m.source = Server /\ m.destination # Server
  <2>1. scheduled \in Seq(Replies)
    BY ServerFacts DEF SysInv
  <2>2. \A m \in Elements(scheduled) : m \in Replies
    BY <2>1 DEF Elements
  <2> QED BY <2>1, <2>2, MessageKinds
<1>6. RunP!Fresh(scheduled)
  <2>1. ASSUME NEW i \in DOMAIN scheduled, scheduled[i] \in Incoming PROVE FALSE
    <3>1. scheduled[i] \in Elements(scheduled)
      BY DEF Elements
    <3>2. PICK t \in ClientTxs : scheduled[i].txid = client_transactions[t].txid
      BY <3>1 DEF SysInv, NoStrangers, InFlight
    <3>3. scheduled[i] \in SentReplies(t) /\ scheduled[i] \in ReadyReplies(t)
      BY <1>5, <2>1, <3>1, <3>2 DEF SentReplies, ReadyReplies, RepliesOf
    <3> QED BY <3>3, ReadyIsNotSent
  <2>2. ASSUME NEW i \in DOMAIN scheduled, scheduled[i] \in Outgoing PROVE FALSE
    BY <1>3, <1>5, <2>2 DEF Elements
  <2>3. \A i, j \in DOMAIN scheduled : scheduled[i] = scheduled[j] => i = j
    BY DEF SysInv, OneMessageEach
  <2> QED BY <1>3, <2>1, <2>2, <2>3 DEF RunP!Fresh
<1>7. SrvP!IInv'
  BY <1>1, ServerKept DEF SysInv
<1>8. CliP!CInv'
  BY <1>1, <1>2, ClientsKept, Traffic DEF SysInv
<1>9. RunP!RInv'
  <2>1. scheduled \in Seq(Requests \union Replies)
    BY <1>5
  <2> QED BY <1>1, <1>6, <2>1, RuntimeKept DEF SysInv
<1>10. Incoming' = Incoming /\ Outgoing' = Outgoing \union Elements(scheduled)
  <2>1. RunP!RInv /\ RunP!Return(Server, scheduled)
    BY <1>1, RuntimeIs DEF SysInv
  <2>2. /\ RunP!Incoming' = RunP!Incoming
        /\ RunP!Outgoing' = RunP!Outgoing \union {scheduled[i] : i \in DOMAIN scheduled}
    BY <2>1, RunP!ReturnFlow, RegistrationsAssumption, MaxTicksAssumption
  <2> QED BY <2>2, RuntimeIs DEF Elements
<1>11. Conversations' /\ NoStrangers'
  <2>1. \A t : Unticked(t)' <=> Unticked(t)
    BY <1>4 DEF Unticked
  <2>2. {batch[i] : i \in todo} = {} /\ {batch'[i] : i \in todo'} = {} /\ Elements(<<>>) = {}
    BY <1>4 DEF Elements
  <2>3. ASSUME NEW t \in ClientTxs
        PROVE  /\ ReadyRequests(t)' = ReadyRequests(t) /\ SentRequests(t)' = SentRequests(t)
               /\ ReadyReplies(t)' = ReadyReplies(t) /\ SentReplies(t)' = SentReplies(t)
    <3>1. ReadyRequests(t)' = ReadyRequests(t) /\ ReadyReplies(t)' = ReadyReplies(t)
      BY <1>4, <1>10, <2>1, <2>2 DEF ReadyRequests, ReadyReplies, RequestsOf, RepliesOf
    <3>2. SentRequests(t)' = SentRequests(t)
      BY <1>4, <1>5, <1>10 DEF SentRequests, RequestsOf
    <3>3. SentReplies(t)' = SentReplies(t)
      BY <1>4, <1>10, <2>2 DEF SentReplies, RepliesOf
    <3> QED BY <3>1, <3>2, <3>3
  <2>4. InFlight' \subseteq InFlight
    BY <1>4, <1>10, <2>2 DEF InFlight
  <2> QED BY <1>4, <2>3, <2>4, NothingSaid
<1>12. OneRuns'
  <2>1. on_tick_of \notin Clients
    BY <1>2, ServerIsNoClient DEF SysInv, OneRuns
  <2> QED BY <1>2, <1>4, <2>1, UndefinedActorIsNoClient
          DEF SysInv, OneRuns, NoFailure, Cli!NoClient, Cli!UNDEFINED_TX_ID, UNDEFINED_TX_ID
<1>13. SilentBefore'
  <2>1. DOMAIN actors \subseteq Nat /\ turn \in Nat
    BY <1>3, Traffic DEF SysInv
  <2>2. \A k \in DOMAIN actors : k >= turn + 1 => \A m \in Outgoing : m.source # actors[k]
    BY <1>2, <2>1 DEF SysInv, SilentBefore
  <2> QED BY <1>2, <1>3, <1>5, <1>10, <2>2 DEF SilentBefore
<1>14. OneMessageEach'
  BY <1>4 DEF OneMessageEach
<1> QED BY <1>7, <1>8, <1>9, <1>11, <1>12, <1>13, <1>14 DEF SysInv, IdsSuffice

\* Requests come from the client that holds the transaction, replies go to it.
LEMMA OwnMessages ==
  ASSUME SysInv, NEW t \in ClientTxs
  PROVE  /\ \A m \in ReadyRequests(t) \union SentRequests(t) : m.source = ClientOf(t)
         /\ \A m \in ReadyReplies(t) \union SentReplies(t) : m.destination = ClientOf(t)
<1>1. Conversation(t)
  BY DEF SysInv, Conversations
<1>2. \A n : Request(t, n).source = ClientOf(t)
  BY DEF Request, MsgStart, MsgPut, MsgCommit
<1>3. \A n, m : IsReply(t, n, m) => m.destination = ClientOf(t)
  BY DEF IsReply, MsgStartAck, MsgPutReply, MsgCommitAck, MsgRolledBackByServer
<1> QED BY <1>1, <1>2, <1>3 DEF Conversation, RequestsInOrder, RepliesInOrder

\* A client is called: the replies to it become what it has received.
LEMMA CallClientInv ==
  ASSUME SysInv, NEW c \in Clients, CallClient(c)
  PROVE  SysInv'
<1> DEFINE inbox == destination_actor_messages[c]
<1>1. Run!Call(c) /\ Cli!OnTick(c, inbox) /\ UNCHANGED serverVars
  BY DEF CallClient
<1>2. c # Server
  BY ServerIsNoClient
<1>3. /\ inbox \in Seq(Replies)
      /\ Elements(inbox) = {m \in Incoming : m.destination = c}
      /\ Incoming' = {m \in Incoming : m.destination # c}
      /\ Outgoing' = Outgoing
      /\ phase = "call" /\ phase' = "on_tick" /\ actors[turn] = c
      /\ UNCHANGED <<clock, actors, turn, no_destination>>
  BY <1>1, <1>2, CalledWith
<1>4. /\ ~active /\ on_tick_of = Cli!NoClient
      /\ batch = <<>> /\ todo = {} /\ scheduled = <<>>
      /\ received = <<>> /\ outbox = <<>>
  BY <1>3, NobodyRuns
<1>5. SrvP!IInv'
  BY <1>1, <1>3, ServerKept DEF SysInv
<1>6. CliP!CInv'
  BY <1>1, <1>3, ClientsKept DEF SysInv
<1>7. RunP!RInv'
  BY <1>1, RuntimeKept DEF SysInv
<1>8. /\ on_tick_of' = c /\ received' = inbox /\ next_tx' = 1
      /\ UNCHANGED <<transactions, scheduled, failure, active, batch, todo>>
      /\ UNCHANGED <<discovery, client_transactions, outbox, client_failure>>
  BY <1>1 DEF Cli!OnTick, serverVars
<1> HIDE DEF inbox
<1>9. \A t : ~Unticked(t)
  BY <1>4, UndefinedActorIsNoClient DEF Unticked, Cli!NoClient, Cli!UNDEFINED_TX_ID, UNDEFINED_TX_ID
<1>10. {batch'[i] : i \in todo'} = {batch[i] : i \in todo}
  BY <1>8
<1>11. Conversations' /\ NoStrangers'
  <2>1. ASSUME NEW t \in ClientTxs
        PROVE  ReadyReplies(t)' = ReadyReplies(t)
    <3>1. ReadyReplies(t) = RepliesOf(t, Incoming)
      BY <1>9 DEF ReadyReplies
    <3>2. \A m \in RepliesOf(t, Incoming) : m.destination = ClientOf(t)
      BY <3>1, OwnMessages
    <3>3. CASE ClientOf(t) = c
      <4>1. PICK k \in DOMAIN TxsOf[c] : TxsOf[c][k] = t
        BY <3>3, HeldByClient DEF Elements
      <4>2. k >= 1
        BY <4>1, TxsOfAssumption
      <4>3. Unticked(t)'
        BY <1>8, <4>1, <4>2 DEF Unticked
      <4> QED BY <1>3, <1>8, <3>1, <3>2, <4>3 DEF ReadyReplies, RepliesOf
    <3>4. CASE ClientOf(t) # c
      <4>1. ~(Unticked(t)')
        BY <1>8, <3>4, Holder DEF Unticked
      <4> QED BY <1>3, <1>8, <3>1, <3>2, <3>4, <4>1 DEF ReadyReplies, RepliesOf
    <3> QED BY <3>3, <3>4
  <2>2. ASSUME NEW t \in ClientTxs
        PROVE  /\ ReadyRequests(t)' = ReadyRequests(t) /\ SentRequests(t)' = SentRequests(t)
               /\ SentReplies(t)' = SentReplies(t)
    BY <1>2, <1>3, <1>8, <1>10
       DEF ReadyRequests, SentRequests, SentReplies, RequestsOf, RepliesOf, Elements
  <2>3. InFlight' \subseteq InFlight
    BY <1>3, <1>4, <1>8, <1>10 DEF InFlight, Elements
  <2> QED BY <1>8, <2>1, <2>2, <2>3, NothingSaid
<1>12. OneRuns'
  BY <1>2, <1>3, <1>4, <1>8, UndefinedActorIsNoClient
     DEF SysInv, OneRuns, NoFailure, Cli!NoClient, Cli!UNDEFINED_TX_ID, UNDEFINED_TX_ID
<1>13. SilentBefore'
  BY <1>3 DEF SysInv, SilentBefore
<1>14. OneMessageEach'
  BY <1>8 DEF SysInv, OneMessageEach
<1> QED BY <1>5, <1>6, <1>7, <1>11, <1>12, <1>13, <1>14 DEF SysInv, IdsSuffice

\* What a client has scheduled are requests, of transactions it holds, and its
\* own name is on them.
LEMMA OutboxOfClient ==
  ASSUME SysInv, NEW c \in Clients, on_tick_of = c, NEW i \in DOMAIN outbox
  PROVE  /\ outbox[i] \in Requests /\ outbox[i].source = c
         /\ \E k \in DOMAIN TxsOf[c] : /\ k < next_tx
                                       /\ Known(TxsOf[c][k])
                                       /\ outbox[i] \in SentRequests(TxsOf[c][k])
<1> DEFINE m == outbox[i]
<1>1. CliP!CInv
  BY DEF SysInv
<1>2. PICK k \in DOMAIN TxsOf[c] :
        k < next_tx /\ m.txid = client_transactions[TxsOf[c][k]].txid /\ m.txid # UNDEFINED_TX_ID
  BY <1>1 DEF CliP!CInv, CliP!OutboxOfTicked, CliP!UNDEFINED_TX_ID, UNDEFINED_TX_ID
<1> DEFINE t == TxsOf[c][k]
           tx == client_transactions[t]
<1>3. t \in ClientTxs /\ ClientOf(t) = c
  BY Holder
<1>4. m \in CliP!ClientMessages
  BY <1>1 DEF CliP!CInv, CliP!Types
<1>5. m.destination = Server
  BY <1>4 DEF CliP!ClientMessages, CliP!coordinator, SysInv, OneRuns
<1>6. m \in SentRequests(t)
  BY <1>2, <1>5 DEF SentRequests, RequestsOf, Elements
<1>7. m.source = c
  BY <1>3, <1>6, OwnMessages
<1>8. Known(t)
  BY <1>2 DEF Known
<1>9. tx.txid \in TxIDs
  BY <1>3, <1>8, Progress
<1>10. m.txid = tx.txid
  BY <1>2
<1> HIDE DEF m, t, tx
<1>11. ASSUME m.type # "MSG_PUT" PROVE m \in Requests
  BY <1>4, <1>5, <1>7, <1>9, <1>10, <1>11 DEF CliP!ClientMessages, Requests
<1>12. ASSUME m.type = "MSG_PUT" PROVE m \in Requests
  <2>1. m = Request(t, Sent(t))
    BY <1>3, <1>6 DEF SysInv, Conversations, Conversation, RequestsInOrder
  <2>2. Sent(t) - 1 \in DOMAIN tx.requests /\ m.msg_id = tx.requests[Sent(t) - 1].msg_id
    BY <1>12, <2>1 DEF tx, Request, MsgStart, MsgPut, MsgCommit
  <2>3. m.msg_id \in 1..next_msg_id /\ next_msg_id \in Nat
    BY <1>1, <1>3, <2>2, OwnIds DEF tx
  <2>4. m.msg_id \in MsgIDs
    BY <2>3 DEF SysInv, IdsSuffice
  <2> QED BY <1>4, <1>5, <1>7, <1>9, <1>10, <1>12, <2>4 DEF CliP!ClientMessages, Requests
<1> QED BY <1>2, <1>6, <1>7, <1>8, <1>11, <1>12 DEF m, t, tx

\* A client returns: its requests go out, with the client as their source.
LEMMA ClientReturnsInv ==
  ASSUME SysInv, NEW c \in Clients, ClientReturns(c)
  PROVE  SysInv'
<1> DEFINE msgs == [i \in DOMAIN outbox |-> [outbox[i] EXCEPT !.source = c]]
<1>1. on_tick_of = c /\ Cli!Send /\ Run!Return(c, msgs) /\ UNCHANGED serverVars
  BY DEF ClientReturns
<1>2. /\ phase = "on_tick" /\ c = actors[turn] /\ phase' = "call" /\ turn' = turn + 1
      /\ UNCHANGED <<clock, actors, no_destination>>
  BY <1>1 DEF Run!Return
<1>3. /\ turn \in DOMAIN actors
      /\ \A m \in Outgoing : m.source # c
      /\ \A k \in DOMAIN actors : k >= turn + 1 => actors[k] # c
      /\ RunP!InInboxes \union RunP!InQueue = Incoming \union Outgoing
  BY <1>2, Returning
<1>4. /\ next_tx = Len(TxsOf[c]) + 1 /\ on_tick_of' = Cli!NoClient
      /\ received' = <<>> /\ outbox' = <<>>
      /\ UNCHANGED <<discovery, client_transactions, client_failure>>
      /\ UNCHANGED <<transactions, failure, active, batch, todo, scheduled>>
  BY <1>1 DEF Cli!Send, serverVars
<1>5. /\ \A m \in Elements(outbox) : m \in Requests /\ m.source = c /\ m.destination = Server
      /\ \A m \in Elements(outbox) : \E t \in ClientTxs : m \in SentRequests(t)
                                       /\ m.txid = client_transactions[t].txid
  <2>1. ASSUME NEW i \in DOMAIN outbox
        PROVE  /\ outbox[i] \in Requests /\ outbox[i].source = c /\ outbox[i].destination = Server
               /\ \E t \in ClientTxs : outbox[i] \in SentRequests(t)
                                         /\ outbox[i].txid = client_transactions[t].txid
    <3>1. outbox[i] \in Requests /\ outbox[i].source = c
      BY <1>1, OutboxOfClient
    <3>2. PICK k \in DOMAIN TxsOf[c] : outbox[i] \in SentRequests(TxsOf[c][k])
      BY <1>1, OutboxOfClient
    <3>3. TxsOf[c][k] \in ClientTxs
      BY Holder
    <3> QED BY <3>1, <3>2, <3>3, MessageKinds DEF SentRequests, RequestsOf
  <2> QED BY <2>1 DEF Elements
<1>6. outbox \in Seq(CliP!ClientMessages)
  BY DEF SysInv, CliP!CInv, CliP!Types
<1>7. msgs = outbox
  <2>1. \A i \in DOMAIN outbox : outbox[i] \in Requests /\ outbox[i].source = c
    BY <1>5 DEF Elements
  <2>2. \A m \in Requests : m.source = c => [m EXCEPT !.source = c] = m
    BY DEF Requests, MsgUndefined
  <2>3. \A i \in DOMAIN outbox : msgs[i] = outbox[i]
    BY <2>1, <2>2
  <2> QED BY <1>6, <2>3
<1> HIDE DEF msgs
<1>8. outbox \in Seq(Requests \union Replies)
  BY <1>5, <1>6 DEF Elements
<1>9. RunP!Fresh(outbox)
  <2>1. ASSUME NEW i \in DOMAIN outbox, outbox[i] \in Incoming PROVE FALSE
    <3>1. outbox[i] \in Elements(outbox)
      BY DEF Elements
    <3>2. PICK t \in ClientTxs :
            outbox[i] \in SentRequests(t) /\ outbox[i].txid = client_transactions[t].txid
      BY <1>5, <3>1
    <3>3. outbox[i] \in ReadyRequests(t)
      BY <1>5, <2>1, <3>1, <3>2 DEF ReadyRequests, RequestsOf
    <3> QED BY <3>2, <3>3, ReadyIsNotSent
  <2>2. ASSUME NEW i \in DOMAIN outbox, outbox[i] \in Outgoing PROVE FALSE
    BY <1>3, <1>5, <2>2 DEF Elements
  <2>3. \A i, j \in DOMAIN outbox : outbox[i] = outbox[j] => i = j
    BY DEF SysInv, CliP!CInv, CliP!OneMessagePerTick
  <2> QED BY <1>3, <2>1, <2>2, <2>3 DEF RunP!Fresh
<1>10. SrvP!IInv'
  BY <1>1, <1>2, ServerKept DEF SysInv
<1>11. CliP!CInv'
  BY <1>1, ClientsKept DEF SysInv
<1>12. RunP!RInv'
  BY <1>1, <1>7, <1>8, <1>9, RuntimeKept DEF SysInv
<1>13. Incoming' = Incoming /\ Outgoing' = Outgoing \union Elements(outbox)
  <2>1. RunP!RInv /\ RunP!Return(c, outbox)
    BY <1>1, <1>7, RuntimeIs DEF SysInv
  <2>2. /\ RunP!Incoming' = RunP!Incoming
        /\ RunP!Outgoing' = RunP!Outgoing \union {outbox[i] : i \in DOMAIN outbox}
    BY <2>1, RunP!ReturnFlow, RegistrationsAssumption, MaxTicksAssumption
  <2> QED BY <2>2, RuntimeIs DEF Elements
<1>14. Conversations' /\ NoStrangers'
  <2>1. \A t : ~Unticked(t) /\ ~(Unticked(t)')
    <3>1. DOMAIN TxsOf[c] = 1..Len(TxsOf[c]) /\ Len(TxsOf[c]) \in Nat
      BY TxsOfAssumption
    <3> QED BY <1>1, <1>4, <3>1, UndefinedActorIsNoClient
            DEF Unticked, Cli!NoClient, Cli!UNDEFINED_TX_ID, UNDEFINED_TX_ID
  <2>2. {batch'[i] : i \in todo'} = {batch[i] : i \in todo} /\ Elements(<<>>) = {}
    BY <1>4 DEF Elements
  <2>3. ASSUME NEW t \in ClientTxs
        PROVE  /\ ReadyRequests(t)' = ReadyRequests(t) /\ SentRequests(t)' = SentRequests(t)
               /\ ReadyReplies(t)' = ReadyReplies(t) /\ SentReplies(t)' = SentReplies(t)
    <3>1. ReadyRequests(t)' = ReadyRequests(t) /\ ReadyReplies(t)' = ReadyReplies(t)
      BY <1>4, <1>13, <2>1, <2>2 DEF ReadyRequests, ReadyReplies, RequestsOf, RepliesOf
    <3>2. SentRequests(t)' = SentRequests(t)
      BY <1>4, <1>13, <2>2 DEF SentRequests, RequestsOf
    <3>3. SentReplies(t)' = SentReplies(t)
      BY <1>4, <1>5, <1>13 DEF SentReplies, RepliesOf, Elements
    <3> QED BY <3>1, <3>2, <3>3
  <2>4. InFlight' \subseteq InFlight
    BY <1>4, <1>13, <2>2 DEF InFlight
  <2> QED BY <1>4, <2>3, <2>4, NothingSaid
<1>15. OneRuns'
  <2>1. ~active
    BY <1>2, ServerIsNoClient DEF SysInv, OneRuns
  <2> QED BY <1>2, <1>4, <2>1, UndefinedActorIsNoClient
          DEF SysInv, OneRuns, NoFailure, Cli!NoClient, Cli!UNDEFINED_TX_ID, UNDEFINED_TX_ID
<1>16. SilentBefore'
  <2>1. DOMAIN actors \subseteq Nat /\ turn \in Nat
    BY <1>3, Traffic DEF SysInv
  <2>2. \A k \in DOMAIN actors : k >= turn + 1 => \A m \in Outgoing : m.source # actors[k]
    BY <1>2, <2>1 DEF SysInv, SilentBefore
  <2> QED BY <1>2, <1>3, <1>5, <1>13, <2>2 DEF SilentBefore
<1>17. OneMessageEach'
  BY <1>4 DEF SysInv, OneMessageEach
<1> QED BY <1>10, <1>11, <1>12, <1>14, <1>15, <1>16, <1>17 DEF SysInv, IdsSuffice

-----------------------------------------------------------------------------
(* The server *)

\* The server handles a message: it is the next request of a transaction that
\* has not been answered in this tick yet, and no other is there for it.
LEMMA HandledIsNext ==
  ASSUME SysInv, phase = "on_tick", NEW i, Srv!Handles(i)
  PROVE  \E t \in ClientTxs :
            /\ Known(t) /\ client_transactions[t].txid = cur /\ cur \in TxIDs
            /\ batch[i] = Request(t, Handled(t) + 1)
            /\ batch[i].source = ClientOf(t) /\ batch[i].destination = Server
            /\ SentReplies(t) = {}
            /\ Sent(t) = Handled(t) + 1 + Count(SentRequests(t))
            /\ Handled(t) = Taken(t) + Count(ReadyReplies(t))
            /\ RequestsOf(t, Incoming) = {}
            /\ \A j \in todo \ {i} : batch[j].txid # cur
<1> DEFINE m == batch[i]
<1>1. /\ active /\ i \in todo /\ m.txid = cur
  BY DEF Srv!Handles
<1>2. m \in Requests /\ cur \in TxIDs /\ m.destination = Server
  BY <1>1, ServerFacts, MessageKinds DEF SysInv
<1>3. PICK t \in ClientTxs : Known(t) /\ cur = client_transactions[t].txid
  <2>1. m \in InFlight
    BY <1>1 DEF InFlight
  <2> QED BY <1>1, <2>1 DEF SysInv, NoStrangers
<1>4. m \in ReadyRequests(t)
  BY <1>1, <1>2, <1>3 DEF ReadyRequests, RequestsOf
<1>5. /\ Conversation(t) /\ Sent(t) \in Nat /\ Handled(t) \in Nat /\ Taken(t) \in Nat
      /\ m.source = ClientOf(t)
  BY <1>4, Progress, OwnMessages DEF SysInv, Conversations
<1>6. m = Request(t, Handled(t) + 1) /\ SentReplies(t) = {}
  BY <1>4, <1>5 DEF Conversation, RequestsInOrder, RepliesInOrder
<1>7. Sent(t) = Handled(t) + 1 + Count(SentRequests(t))
  BY <1>4, <1>5 DEF Conversation, RequestsInOrder, Count
<1>8. Handled(t) = Taken(t) + Count(ReadyReplies(t))
  BY <1>5, <1>6 DEF Conversation, RepliesInOrder, Count
<1>9. RequestsOf(t, Incoming) = {}
  <2>1. actors[turn] = Server
    BY <1>1 DEF SysInv, OneRuns
  <2>2. \A n \in Incoming : n.destination # Server
    BY <2>1, Returning
  <2> QED BY <2>2 DEF RequestsOf
<1>10. \A j \in todo \ {i} : batch[j].txid # cur
  BY <1>1 DEF SysInv, OneMessageEach
<1> QED BY <1>2, <1>3, <1>5, <1>6, <1>7, <1>8, <1>9, <1>10

\* The answer is what moves.
LEMMA AnswerMoves ==
  ASSUME SysInv, phase = "on_tick", NEW i, Srv!Handles(i),
         NEW r, r.txid = cur, r.destination # Server, Srv!Schedule(r),
         UNCHANGED <<clientVars, runtimeVars>>, NEW t \in ClientTxs
  PROVE  /\ SentRequests(t)' = SentRequests(t) /\ ReadyReplies(t)' = ReadyReplies(t)
         /\ client_transactions[t].txid = cur
              => ReadyRequests(t)' = {} /\ SentReplies(t)' = {r}
         /\ client_transactions[t].txid # cur
              => ReadyRequests(t)' = ReadyRequests(t) /\ SentReplies(t)' = SentReplies(t)
<1>1. /\ scheduled' = Append(scheduled, r) /\ todo' = todo \ {i} /\ batch' = batch
      /\ i \in todo /\ batch[i].txid = cur
  BY DEF Srv!Schedule, Srv!Handles
<1>2. UNCHANGED <<client_transactions, outbox, received, on_tick_of, next_tx>>
      /\ Incoming' = Incoming /\ Outgoing' = Outgoing
  BY DEF clientVars, runtimeVars, Incoming, Outgoing, Run!InInboxes, Run!InQueue
<1>3. Elements(scheduled)' = Elements(scheduled) \union {r}
  <2>1. scheduled \in Seq(Replies)
    BY ServerFacts DEF SysInv
  <2> QED BY <1>1, <2>1 DEF Elements
<1>4. SentRequests(t)' = SentRequests(t) /\ ReadyReplies(t)' = ReadyReplies(t)
  BY <1>2 DEF SentRequests, ReadyReplies, RequestsOf, RepliesOf, Unticked, Elements
<1>5. SentReplies(t)' = IF client_transactions[t].txid = cur THEN SentReplies(t) \union {r}
                        ELSE SentReplies(t)
  BY <1>2, <1>3 DEF SentReplies, RepliesOf
<1>6. PICK u \in ClientTxs :
        /\ Known(u) /\ client_transactions[u].txid = cur /\ SentReplies(u) = {}
        /\ RequestsOf(u, Incoming) = {} /\ \A j \in todo \ {i} : batch[j].txid # cur
  BY HandledIsNext
<1>7. client_transactions[t].txid = cur => t = u
  BY <1>6, OwnIds DEF SysInv
<1>8. client_transactions[t].txid = cur => ReadyRequests(t)' = {}
  BY <1>1, <1>2, <1>6, <1>7 DEF ReadyRequests, RequestsOf
<1>9. client_transactions[t].txid # cur => ReadyRequests(t)' = ReadyRequests(t)
  BY <1>1, <1>2 DEF ReadyRequests, RequestsOf
<1> QED BY <1>4, <1>5, <1>6, <1>7, <1>8, <1>9

\* When the transaction that is answered keeps its conversation, so does
\* everybody.
LEMMA AnswerInv ==
  ASSUME SysInv, phase = "on_tick", NEW i, Srv!Handles(i), Srv!ServerStep,
         NEW r, r.txid = cur, r.destination # Server, Srv!Schedule(r),
         UNCHANGED <<clientVars, runtimeVars>>, failure' = failure,
         \A x \in TxIDs : x # cur => transactions'[x] = transactions[x],
         Srv!Committed \subseteq Srv!Committed',
         \A t \in ClientTxs : client_transactions[t].txid = cur => Conversation(t)'
  PROVE  SysInv'
<1>1. SrvP!IInv'
  BY ServerKept DEF SysInv
<1>2. /\ scheduled' = Append(scheduled, r) /\ todo' = todo \ {i}
      /\ UNCHANGED <<clock, batch, active, cur>> /\ i \in todo
  BY DEF Srv!Schedule, Srv!Handles
<1>3. /\ UNCHANGED <<client_transactions, outbox, received, on_tick_of, next_tx, discovery,
                     client_failure, phase, turn, actors, no_destination>>
      /\ Incoming' = Incoming /\ Outgoing' = Outgoing
  BY DEF clientVars, runtimeVars, Incoming, Outgoing, Run!InInboxes, Run!InQueue
<1>4. clock \in Nat
  BY ServerFacts DEF SysInv
<1>5. CliP!CInv'
  BY <1>2, <1>4, ClientsKept DEF SysInv
<1>6. RunP!RInv'
  BY <1>2, <1>4, RuntimeKept DEF SysInv
<1>7. Conversations'
  <2> SUFFICES ASSUME NEW t \in ClientTxs, client_transactions[t].txid # cur
               PROVE  Conversation(t)'
    BY DEF Conversations
  <2>1. /\ ReadyRequests(t)' = ReadyRequests(t) /\ SentRequests(t)' = SentRequests(t)
        /\ ReadyReplies(t)' = ReadyReplies(t) /\ SentReplies(t)' = SentReplies(t)
    BY AnswerMoves
  <2>2. Conversation(t) /\ (client_transactions[t].state = "NOT_STARTED" <=> ~Known(t))
    BY ClientFacts DEF SysInv, Conversations
  <2>3. Known(t) => ServerTx(t)' = ServerTx(t)
    BY <1>3, Progress DEF ServerTx
  <2> QED BY <1>3, <2>1, <2>2, <2>3, ConversationKept
<1>8. scheduled \in Seq(Replies)
  BY ServerFacts DEF SysInv
<1>9. PICK u \in ClientTxs : Known(u) /\ client_transactions[u].txid = cur /\ SentReplies(u) = {}
                             /\ cur \in TxIDs
  BY HandledIsNext
<1>10. NoStrangers'
  <2>1. InFlight' \subseteq InFlight \union {r}
    <3>1. Elements(scheduled)' = Elements(scheduled) \union {r}
      BY <1>2, <1>8 DEF Elements
    <3>2. {batch'[j] : j \in todo'} \subseteq {batch[j] : j \in todo}
      BY <1>2
    <3>3. Elements(outbox)' = Elements(outbox) /\ Elements(received)' = Elements(received)
      BY <1>3
    <3> QED BY <1>3, <3>1, <3>2, <3>3 DEF InFlight
  <2>2. \A m \in InFlight' : \E t \in ClientTxs :
          Known(t) /\ m.txid = client_transactions[t].txid
    BY <1>9, <2>1 DEF SysInv, NoStrangers
  <2>3. \A x \in TxIDs : transactions'[x].state # "NOT_STARTED"
          => \E t \in ClientTxs : client_transactions[t].txid = x
    BY <1>9 DEF SysInv, NoStrangers
  <2> QED BY <1>3, <2>2, <2>3 DEF NoStrangers, Known
<1>11. OneRuns'
  BY <1>2, <1>3 DEF SysInv, OneRuns, NoFailure, Cli!NoClient, Srv!Handles
<1>12. SilentBefore'
  BY <1>3 DEF SysInv, SilentBefore
<1>13. OneMessageEach'
  <2>1. \A j \in DOMAIN scheduled : scheduled[j].txid # cur
    <3>1. \A j \in DOMAIN scheduled : scheduled[j].destination # Server
      BY <1>8, MessageKinds
    <3> QED BY <1>9, <3>1 DEF SentReplies, RepliesOf, Elements
  <2>2. \A j, k \in DOMAIN scheduled' : scheduled'[j].txid = scheduled'[k].txid => j = k
    BY <1>2, <1>8, <2>1 DEF SysInv, OneMessageEach
  <2>3. \A j, k \in todo' : batch'[j].txid = batch'[k].txid => j = k
    BY <1>2 DEF SysInv, OneMessageEach
  <2> QED BY <2>2, <2>3 DEF OneMessageEach
<1> QED BY <1>1, <1>5, <1>6, <1>7, <1>10, <1>11, <1>12, <1>13 DEF SysInv, IdsSuffice

\* What the answer does to the conversation.
LEMMA AnswerInOrder ==
  ASSUME SysInv, phase = "on_tick", NEW i, Srv!Handles(i),
         NEW r, r.txid = cur, r.destination # Server, Srv!Schedule(r),
         UNCHANGED <<clientVars, runtimeVars>>,
         NEW t \in ClientTxs, client_transactions[t].txid = cur,
         Sent(t) = Handled(t) + 1 + Count(SentRequests(t)),
         Handled(t) = Taken(t) + Count(ReadyReplies(t)),
         Handled(t)' = Handled(t) + 1, IsReply(t, Handled(t), r)',
         \A m \in ReadyReplies(t) : IsReply(t, Taken(t) + 1, m)'
  PROVE  RequestsInOrder(t)' /\ RepliesInOrder(t)'
<1>1. /\ ReadyRequests(t)' = {} /\ SentRequests(t)' = SentRequests(t)
      /\ ReadyReplies(t)' = ReadyReplies(t) /\ SentReplies(t)' = {r}
  BY AnswerMoves
<1>2. client_transactions' = client_transactions
  BY DEF clientVars
<1>3. /\ Sent(t)' = Sent(t) /\ Taken(t)' = Taken(t) /\ \A n : Request(t, n)' = Request(t, n)
  BY <1>2 DEF Sent, Taken, Request, MsgStart, MsgPut, MsgCommit
<1>4. Conversation(t) /\ Sent(t) \in Nat /\ Handled(t) \in Nat /\ Taken(t) \in Nat
  BY Progress DEF SysInv, Conversations
<1>5. /\ Count(ReadyRequests(t))' = 0 /\ Count(SentRequests(t))' = Count(SentRequests(t))
      /\ Count(ReadyReplies(t))' = Count(ReadyReplies(t)) /\ Count(SentReplies(t))' = 1
      /\ Count(SentRequests(t)) \in Nat /\ Count(ReadyReplies(t)) \in Nat
  BY <1>1 DEF Count
<1>6. RequestsInOrder(t)'
  <2>1. Sent(t)' = Handled(t)' + Count(ReadyRequests(t))' + Count(SentRequests(t))'
    BY <1>3, <1>4, <1>5
  <2>2. \A m \in SentRequests(t)' : m = Request(t, Sent(t))'
    BY <1>1, <1>3, <1>4 DEF Conversation, RequestsInOrder
  <2> QED BY <1>1, <2>1, <2>2 DEF RequestsInOrder
<1>7. RepliesInOrder(t)'
  <2>1. Handled(t)' = Taken(t)' + Count(ReadyReplies(t))' + Count(SentReplies(t))'
    BY <1>3, <1>4, <1>5
  <2>2. \A m \in ReadyReplies(t)' : IsReply(t, Taken(t) + 1, m)'
    BY <1>1
  <2>3. \A m \in SentReplies(t)' : IsReply(t, Handled(t), m)'
    BY <1>1
  <2>4. \A m, o \in ReadyReplies(t)' : m = o
    BY <1>1, <1>4 DEF Conversation, RepliesInOrder
  <2> QED BY <1>1, <2>1, <2>2, <2>3, <2>4 DEF RepliesInOrder
<1> QED BY <1>6, <1>7

\* What the server knows of the transaction it handles a message of.
LEMMA HandledTx ==
  ASSUME SysInv, NEW t \in ClientTxs, Known(t), client_transactions[t].txid = cur,
         cur \in TxIDs
  PROVE  /\ ServerTx(t) = Srv!tx /\ Srv!tx \in Srv!ServerTX
         /\ Srv!tx.state \in Srv!ServerTXState
         /\ Len(Srv!tx.puts) \in Nat /\ Srv!tx.puts \in Seq(Srv!DataPut)
         /\ Srv!tx.state = "NOT_STARTED" => Handled(t) = 0 /\ Srv!tx.puts = <<>>
         /\ Srv!tx.state = "OPEN" => Handled(t) = Len(Srv!tx.puts) + 1
         /\ Srv!tx.state \in {"COMMITTED", "ROLLED_BACK_BY_SERVER"}
              => Handled(t) = Len(Srv!tx.puts) + 2
         /\ Len(Srv!tx.puts) <= Len(client_transactions[t].requests)
         /\ DOMAIN transactions = TxIDs
<1>1. ServerTx(t) = Srv!tx
  BY DEF ServerTx, Srv!tx
<1>2. /\ Srv!tx \in Srv!ServerTX /\ Srv!tx.state \in Srv!ServerTXState
      /\ Len(Srv!tx.puts) \in Nat /\ Srv!tx.puts \in Seq(Srv!DataPut)
      /\ Srv!tx.state = "NOT_STARTED" => Srv!tx.puts = <<>>
      /\ DOMAIN transactions = TxIDs
  BY ServerFacts DEF SysInv, Srv!tx
<1>3. Len(Srv!tx.puts) <= Len(client_transactions[t].requests)
  BY <1>1 DEF SysInv, Conversations, Conversation, SamePuts
<1> QED BY <1>1, <1>2, <1>3 DEF Handled, Srv!ServerTXState

\* Requests of each kind have their numbers.
LEMMA RequestTypes ==
  ASSUME SysInv, NEW t \in ClientTxs, NEW n \in Nat \ {0}, n <= Sent(t)
  PROVE  LET tx == client_transactions[t]
         IN  /\ n = 1 <=> Request(t, n).type = "MSG_START"
             /\ n # 1 /\ n - 1 \in DOMAIN tx.requests <=> Request(t, n).type = "MSG_PUT"
             /\ n - 1 \in DOMAIN tx.requests /\ n # 1
                  => /\ Request(t, n).key = tx.requests[n - 1].key
                     /\ Request(t, n).value = tx.requests[n - 1].value
                     /\ Request(t, n).msg_id = tx.requests[n - 1].msg_id
             /\ n = Len(tx.requests) + 2 <=> Request(t, n).type = "MSG_COMMIT"
             /\ Request(t, n).type = "MSG_COMMIT"
                  => /\ tx.state \in {"COMMIT_SENT"} \union Cli!Ended
                     /\ tx.completed_puts = Len(tx.requests)
<1> DEFINE tx == client_transactions[t]
           puts == Len(tx.requests)
<1>1. /\ puts \in Nat /\ DOMAIN tx.requests = 1..puts
      /\ tx.state \in Cli!ClientTXState
      /\ tx.state \in {"COMMIT_SENT"} \union Cli!Ended => tx.completed_puts = Len(tx.requests)
  BY ClientFacts DEF SysInv
<1>2. /\ tx.state = "NOT_STARTED" => Sent(t) = 0
      /\ tx.state = "START_SENT" => Sent(t) = 1
      /\ tx.state = "OPEN" => Sent(t) = puts + 1
      /\ tx.state \in {"COMMIT_SENT"} \union Cli!Ended => Sent(t) = puts + 2
  BY DEF Sent, Cli!Ended
<1>3. n \in 1..(puts + 2) /\ (n = puts + 2 => tx.state \in {"COMMIT_SENT"} \union Cli!Ended)
  BY <1>1, <1>2 DEF Cli!ClientTXState, Cli!Ended
<1>4. /\ n - 1 \in DOMAIN tx.requests => n # 1 /\ n # puts + 2
      /\ n = puts + 2 => n # 1
      /\ n # 1 /\ n - 1 \notin DOMAIN tx.requests => n = puts + 2
  BY <1>1, <1>3
<1> HIDE DEF puts, tx
<1>5. /\ n = 1 => Request(t, n).type = "MSG_START"
      /\ n # 1 /\ n - 1 \in DOMAIN tx.requests
           => /\ Request(t, n).type = "MSG_PUT"
              /\ Request(t, n).key = tx.requests[n - 1].key
              /\ Request(t, n).value = tx.requests[n - 1].value
              /\ Request(t, n).msg_id = tx.requests[n - 1].msg_id
      /\ n # 1 /\ n - 1 \notin DOMAIN tx.requests => Request(t, n).type = "MSG_COMMIT"
  BY DEF tx, Request, MsgStart, MsgPut, MsgCommit
<1> QED BY <1>1, <1>3, <1>4, <1>5 DEF tx, puts

\* MSG_START opens the transaction and is answered with its timestamp.
LEMMA StartInv ==
  ASSUME SysInv, ServerStep, NEW i \in todo, Srv!Start(i)
  PROVE  SysInv'
<1>1. /\ phase = "on_tick" /\ Srv!ServerStep /\ UNCHANGED <<clientVars, runtimeVars>>
      /\ Srv!Handles(i)
  BY DEF ServerStep, Srv!Start
<1>2. PICK t \in ClientTxs :
            /\ Known(t) /\ client_transactions[t].txid = cur /\ cur \in TxIDs
            /\ batch[i] = Request(t, Handled(t) + 1)
            /\ batch[i].source = ClientOf(t) /\ batch[i].destination = Server
            /\ Sent(t) = Handled(t) + 1 + Count(SentRequests(t))
            /\ Handled(t) = Taken(t) + Count(ReadyReplies(t))
  BY <1>1, HandledIsNext
<1>r. PICK r : r = MsgStartAck(Server, ClientOf(t), cur, clock)
  OBVIOUS
<1>3. /\ Srv!Schedule(r) /\ r.txid = cur /\ r.destination # Server
      /\ transactions' = [transactions EXCEPT ![cur].state = "OPEN", ![cur].read_ts = clock]
      /\ failure' = failure /\ Srv!tx.state = "NOT_STARTED"
  BY <1>r, <1>2, HeldByClient, ServerIsNoClient DEF Srv!Start, Srv!MsgStartAck, MsgStartAck
<1>4. /\ ServerTx(t) = Srv!tx /\ Srv!tx \in Srv!ServerTX
      /\ Handled(t) = 0 /\ Srv!tx.puts = <<>> /\ DOMAIN transactions = TxIDs
  BY <1>2, <1>3, HandledTx
<1>5. client_transactions' = client_transactions /\ (Known(t)' <=> Known(t))
  BY <1>1 DEF clientVars, Known
<1>6. /\ ServerTx(t)'.state = "OPEN" /\ ServerTx(t)'.read_ts = clock
      /\ ServerTx(t)'.puts = <<>>
  BY <1>2, <1>3, <1>4, <1>5 DEF ServerTx, Srv!tx, Srv!ServerTX
<1>7. Taken(t) = 0 /\ ReadyReplies(t) = {}
  <2>1. Taken(t) \in Nat
    BY Progress
  <2> QED BY <1>2, <1>4, <2>1 DEF Count
<1>8. client_transactions[t].state \in {"NOT_STARTED", "START_SENT"}
  <2>1. client_transactions[t].completed_puts \in Nat
    BY ClientFacts DEF SysInv
  <2> QED BY <1>7, <2>1 DEF Taken
<1>9. Handled(t)' = Handled(t) + 1
  BY <1>2, <1>4, <1>5, <1>6 DEF Handled
<1>10. IsReply(t, Handled(t), r)'
  <2>1. Handled(t)' = 1
    BY <1>4, <1>9
  <2>2. r = MsgStartAck(Server, ClientOf(t), client_transactions'[t].txid, ServerTx(t)'.read_ts)
    BY <1>r, <1>2, <1>5, <1>6
  <2>3. IsReply(t, 1, r)'
    BY <2>2 DEF IsReply
  <2> QED BY <2>1, <2>3
<1>11. RequestsInOrder(t)' /\ RepliesInOrder(t)'
  BY <1>1, <1>2, <1>3, <1>7, <1>9, <1>10, AnswerInOrder
<1>12. SamePuts(t)'
  <2>1. Len(client_transactions[t].requests) \in Nat
    BY ClientFacts DEF SysInv
  <2> QED BY <1>5, <1>6, <2>1 DEF SysInv, Conversations, Conversation, SamePuts
<1>13. SameVerdict(t)'
  BY <1>5, <1>6, <1>8 DEF SysInv, Conversations, Conversation, SameVerdict, Cli!Ended, UNDEFINED_TS, UNDEFINED_TX_ID
<1>14. \A x \in TxIDs : x # cur => transactions'[x] = transactions[x]
  BY <1>3, <1>4
<1>15. Srv!Committed \subseteq Srv!Committed'
  BY <1>3, <1>14 DEF Srv!Committed, Srv!tx
<1>16. \A u \in ClientTxs : client_transactions[u].txid = cur => Conversation(u)'
  BY <1>2, <1>11, <1>12, <1>13, OwnIds DEF SysInv, Conversation
<1> QED BY <1>1, <1>3, <1>14, <1>15, <1>16, AnswerInv

\* MSG_PUT adds the put the client has requested next.
LEMMA PutInv ==
  ASSUME SysInv, ServerStep, NEW i \in todo, Srv!Put(i)
  PROVE  SysInv'
<1>1. /\ phase = "on_tick" /\ Srv!ServerStep /\ UNCHANGED <<clientVars, runtimeVars>>
      /\ Srv!Handles(i)
  BY DEF ServerStep, Srv!Put
<1>2. PICK t \in ClientTxs :
            /\ Known(t) /\ client_transactions[t].txid = cur /\ cur \in TxIDs
            /\ batch[i] = Request(t, Handled(t) + 1)
            /\ batch[i].source = ClientOf(t) /\ batch[i].destination = Server
            /\ Sent(t) = Handled(t) + 1 + Count(SentRequests(t))
            /\ Handled(t) = Taken(t) + Count(ReadyReplies(t))
  BY <1>1, HandledIsNext
<1>r. PICK r : r = MsgPutReply(Server, ClientOf(t), cur, batch[i].msg_id)
  OBVIOUS
<1> DEFINE put == [key |-> batch[i].key, value |-> batch[i].value]
           held == Srv!tx.puts
           requests == client_transactions[t].requests
<1>3. /\ Srv!Schedule(r) /\ r.txid = cur /\ r.destination # Server
      /\ transactions' = [transactions EXCEPT ![cur].puts = Append(@, put)]
      /\ failure' = failure /\ Srv!tx.state = "OPEN" /\ batch[i].type = "MSG_PUT"
  BY <1>r, <1>2, HeldByClient, ServerIsNoClient DEF Srv!Put, Srv!MsgPutReply, MsgPutReply
<1>4. /\ ServerTx(t) = Srv!tx /\ Srv!tx \in Srv!ServerTX /\ held \in Seq(Srv!DataPut)
      /\ Handled(t) = Len(held) + 1 /\ Len(held) \in Nat /\ DOMAIN transactions = TxIDs
  BY <1>2, <1>3, HandledTx
<1> HIDE DEF put
<1>5. client_transactions' = client_transactions /\ (Known(t)' <=> Known(t))
  BY <1>1 DEF clientVars, Known
<1>6. ServerTx(t)' = [Srv!tx EXCEPT !.puts = Append(held, put)]
  BY <1>2, <1>3, <1>4, <1>5 DEF ServerTx, Srv!tx
<1>7. /\ ServerTx(t)'.state = "OPEN" /\ ServerTx(t)'.read_ts = ServerTx(t).read_ts
      /\ ServerTx(t)'.commit_ts = ServerTx(t).commit_ts
      /\ ServerTx(t)'.puts = Append(held, put)
  BY <1>3, <1>4, <1>6 DEF Srv!ServerTX
<1> HIDE DEF held
<1>8. /\ Len(Append(held, put)) = Len(held) + 1
      /\ \A j \in DOMAIN Append(held, put) :
           \/ j \in DOMAIN held /\ Append(held, put)[j] = held[j]
           \/ j = Len(held) + 1 /\ Append(held, put)[j] = put
  BY <1>4
<1>9. /\ Sent(t) \in Nat /\ Taken(t) \in Nat /\ Len(requests) \in Nat
      /\ DOMAIN requests = 1..Len(requests)
  BY Progress, ClientFacts DEF SysInv
<1>10. Handled(t) + 1 \in Nat \ {0} /\ Handled(t) + 1 <= Sent(t)
  BY <1>2, <1>4, <1>9 DEF Count
<1>11. /\ Len(held) + 1 \in DOMAIN requests
       /\ put = [key |-> requests[Len(held) + 1].key, value |-> requests[Len(held) + 1].value]
       /\ batch[i].msg_id = requests[Len(held) + 1].msg_id
  <2>1. (Handled(t) + 1) - 1 = Len(held) + 1 /\ Handled(t) + 1 # 1
    BY <1>4
  <2> QED BY <1>2, <1>3, <1>10, <2>1, RequestTypes DEF put
<1>12. Handled(t)' = Handled(t) + 1
  <2>1. Handled(t)' = Len(Append(held, put)) + 1
    BY <1>2, <1>5, <1>7 DEF Handled
  <2> QED BY <1>4, <1>8, <2>1
<1>13. IsReply(t, Handled(t), r)'
  <2> DEFINE n == Len(held) + 2
  <2>1. Handled(t)' = n /\ n # 1 /\ n - 1 = Len(held) + 1
    BY <1>4, <1>12
  <2> HIDE DEF n
  <2>2. r = MsgPutReply(Server, ClientOf(t), client_transactions'[t].txid,
                        client_transactions'[t].requests[n - 1].msg_id)
    BY <1>r, <1>2, <1>5, <1>11, <2>1
  <2>3. n - 1 \in DOMAIN client_transactions'[t].requests
    BY <1>5, <1>11, <2>1
  <2>4. \A k : k = n => IsReply(t, k, r)'
    BY <2>1, <2>2, <2>3 DEF IsReply
  <2> QED BY <2>1, <2>4
<1>14. \A m \in ReadyReplies(t) : IsReply(t, Taken(t) + 1, m)'
  <2>1. /\ \A m \in ReadyReplies(t) : IsReply(t, Taken(t) + 1, m)
        /\ Taken(t)' = Taken(t)
    BY <1>5 DEF SysInv, Conversations, Conversation, RepliesInOrder, Taken
  <2>2. ServerTx(t).state = "OPEN" /\ ServerTx(t)'.state = "OPEN"
    BY <1>3, <1>4, <1>7
  <2>3. ASSUME NEW k, NEW m, IsReply(t, k, m) PROVE IsReply(t, k, m)'
    BY <1>5, <1>7, <2>2, <2>3
       DEF IsReply, MsgStartAck, MsgPutReply, MsgCommitAck, MsgRolledBackByServer
  <2> QED BY <2>1, <2>3
<1>15. RequestsInOrder(t)' /\ RepliesInOrder(t)'
  BY <1>1, <1>2, <1>3, <1>12, <1>13, <1>14, AnswerInOrder
<1>16. SamePuts(t)'
  <2>1. SamePuts(t)
    BY DEF SysInv, Conversations, Conversation
  <2>2. \A j \in DOMAIN Append(held, put) :
          Append(held, put)[j] = [key |-> requests[j].key, value |-> requests[j].value]
    <3>1. \A j \in DOMAIN held :
            held[j] = [key |-> requests[j].key, value |-> requests[j].value]
      BY <1>2, <1>4, <2>1 DEF SamePuts, held
    <3> QED BY <1>8, <1>11, <3>1
  <2>3. Len(Append(held, put)) <= Len(requests)
    BY <1>4, <1>8, <1>9, <1>11
  <2> QED BY <1>5, <1>7, <2>1, <2>2, <2>3 DEF SamePuts
<1>17. SameVerdict(t)'
  <2>1. SameVerdict(t)
    BY DEF SysInv, Conversations, Conversation
  <2> QED BY <1>3, <1>4, <1>5, <1>7, <2>1 DEF SameVerdict, Cli!Ended, UNDEFINED_TS, UNDEFINED_TX_ID
<1>18. \A x \in TxIDs : x # cur => transactions'[x] = transactions[x]
  BY <1>3, <1>4
<1>19. Srv!Committed \subseteq Srv!Committed'
  BY <1>3, <1>18 DEF Srv!Committed, Srv!tx
<1>20. \A u \in ClientTxs : client_transactions[u].txid = cur => Conversation(u)'
  BY <1>2, <1>15, <1>16, <1>17, OwnIds DEF SysInv, Conversation
<1> QED BY <1>1, <1>3, <1>18, <1>19, <1>20, AnswerInv

\* The server decides on a transaction that has asked for it.
LEMMA VerdictInv ==
  ASSUME SysInv, ServerStep, NEW i \in todo, Srv!Handles(i),
         Srv!tx.state = "OPEN", batch[i].type = "MSG_COMMIT",
         NEW r, Srv!Schedule(r), failure' = failure,
         \A x \in TxIDs : x # cur => transactions'[x] = transactions[x],
         transactions'[cur].puts = Srv!tx.puts, transactions'[cur].read_ts = Srv!tx.read_ts,
         \/ /\ transactions'[cur].state = "COMMITTED"
            /\ r = MsgCommitAck(Server, batch[i].source, cur, transactions'[cur].commit_ts)
         \/ /\ transactions'[cur].state = "ROLLED_BACK_BY_SERVER"
            /\ \E x \in Srv!Committed' :
                 r = MsgRolledBackByServer(Server, batch[i].source, cur, x)
  PROVE  SysInv'
<1>1. /\ phase = "on_tick" /\ Srv!ServerStep /\ UNCHANGED <<clientVars, runtimeVars>>
  BY DEF ServerStep
<1>2. PICK t \in ClientTxs :
            /\ Known(t) /\ client_transactions[t].txid = cur /\ cur \in TxIDs
            /\ batch[i] = Request(t, Handled(t) + 1)
            /\ batch[i].source = ClientOf(t) /\ batch[i].destination = Server
            /\ Sent(t) = Handled(t) + 1 + Count(SentRequests(t))
            /\ Handled(t) = Taken(t) + Count(ReadyReplies(t))
  BY <1>1, HandledIsNext
<1> DEFINE tx == client_transactions[t]
           puts == Len(tx.requests)
<1>3. r.txid = cur /\ r.destination # Server
  BY <1>2, HeldByClient, ServerIsNoClient DEF MsgCommitAck, MsgRolledBackByServer
<1>4. /\ ServerTx(t) = Srv!tx /\ Srv!tx \in Srv!ServerTX
      /\ Handled(t) = Len(Srv!tx.puts) + 1 /\ Len(Srv!tx.puts) \in Nat
  BY <1>2, HandledTx
<1>5. client_transactions' = client_transactions /\ (Known(t)' <=> Known(t))
  BY <1>1 DEF clientVars, Known
<1>6. /\ Sent(t) \in Nat /\ Taken(t) \in Nat /\ puts \in Nat /\ tx.completed_puts \in Nat
      /\ tx.state \in Cli!ClientTXState /\ DOMAIN tx.requests = 1..puts
  BY Progress, ClientFacts DEF SysInv
<1>7. Handled(t) + 1 \in Nat \ {0} /\ Handled(t) + 1 <= Sent(t)
  BY <1>2, <1>4, <1>6 DEF Count
<1>8. /\ Handled(t) + 1 = puts + 2
      /\ tx.state \in {"COMMIT_SENT"} \union Cli!Ended /\ tx.completed_puts = puts
  BY <1>2, <1>7, RequestTypes
<1>9. /\ Len(Srv!tx.puts) = puts /\ Handled(t) = puts + 1
  BY <1>4, <1>6, <1>8
<1>10. tx.state = "COMMIT_SENT" /\ Taken(t) = puts + 1 /\ ReadyReplies(t) = {}
  <2>1. Count(ReadyReplies(t)) \in {0, 1}
    BY DEF Count
  <2>2. /\ tx.state = "COMMIT_SENT" => Taken(t) = puts + 1
        /\ tx.state # "COMMIT_SENT" => Taken(t) = puts + 2
    BY <1>8 DEF Taken, Cli!Ended
  <2>3. Count(ReadyReplies(t)) = 0 /\ tx.state = "COMMIT_SENT" /\ Taken(t) = puts + 1
    BY <1>2, <1>6, <1>9, <2>1, <2>2
  <2> QED BY <2>3 DEF Count
<1>11. ServerTx(t)' = transactions'[cur]
  BY <1>2, <1>5 DEF ServerTx
<1>12. Handled(t)' = Handled(t) + 1
  <2>1. Handled(t)' = Len(Srv!tx.puts) + 2
    BY <1>2, <1>5, <1>11 DEF Handled
  <2> QED BY <1>4, <2>1
<1>13. IsReply(t, Handled(t), r)'
  <2> DEFINE n == puts + 2
  <2>1. Handled(t)' = n /\ n # 1 /\ n - 1 \notin DOMAIN tx.requests
    BY <1>6, <1>9, <1>12
  <2> HIDE DEF n
  <2>2. \A k : k = n => IsReply(t, k, r)'
    BY <1>2, <1>5, <1>11, <2>1 DEF IsReply
  <2> QED BY <2>1, <2>2
<1>14. RequestsInOrder(t)' /\ RepliesInOrder(t)'
  BY <1>1, <1>2, <1>3, <1>10, <1>12, <1>13, AnswerInOrder
<1>15. SamePuts(t)'
  <2>1. SamePuts(t)
    BY DEF SysInv, Conversations, Conversation
  <2> QED BY <1>2, <1>4, <1>5, <1>11, <2>1 DEF SamePuts
<1>16. SameVerdict(t)'
  <2>1. SameVerdict(t)
    BY DEF SysInv, Conversations, Conversation
  <2> QED BY <1>2, <1>4, <1>5, <1>9, <1>10, <1>11, <2>1
          DEF SameVerdict, Cli!Ended, UNDEFINED_TS, UNDEFINED_TX_ID
<1>17. Srv!Committed \subseteq Srv!Committed'
  BY DEF Srv!Committed, Srv!tx
<1>18. \A u \in ClientTxs : client_transactions[u].txid = cur => Conversation(u)'
  BY <1>2, <1>14, <1>15, <1>16, OwnIds DEF SysInv, Conversation
<1> QED BY <1>1, <1>3, <1>17, <1>18, AnswerInv

\* The commit of a transaction without conflict ...
LEMMA CommitInv ==
  ASSUME SysInv, ServerStep, NEW i \in todo, Srv!Commit(i)
  PROVE  SysInv'
<1>1. /\ cur \in TxIDs /\ batch[i].destination = Server /\ Srv!tx \in Srv!ServerTX
      /\ DOMAIN transactions = TxIDs
  BY HandledIsNext, ServerFacts DEF SysInv, ServerStep, Srv!Commit, Srv!tx
<1>2. PICK r : r = MsgCommitAck(Server, batch[i].source, cur, clock)
  OBVIOUS
<1>3. /\ Srv!Schedule(r) /\ Srv!tx.state = "OPEN" /\ batch[i].type = "MSG_COMMIT"
      /\ failure' = failure /\ Srv!Handles(i)
  BY <1>1, <1>2 DEF Srv!Commit, Srv!MsgCommitAck, MsgCommitAck
<1>4. transactions' = [transactions EXCEPT ![cur].state = "COMMITTED", ![cur].commit_ts = clock]
  BY DEF Srv!Commit
<1>5. transactions'[cur] = [Srv!tx EXCEPT !.state = "COMMITTED", !.commit_ts = clock]
  BY <1>1, <1>4 DEF Srv!tx
<1>6. /\ transactions'[cur].state = "COMMITTED" /\ transactions'[cur].commit_ts = clock
      /\ transactions'[cur].puts = Srv!tx.puts /\ transactions'[cur].read_ts = Srv!tx.read_ts
  BY <1>1, <1>5 DEF Srv!ServerTX
<1>7. \A x \in TxIDs : x # cur => transactions'[x] = transactions[x]
  BY <1>1, <1>4
<1> QED BY <1>2, <1>3, <1>6, <1>7, VerdictInv

\* ... and the end of one with a conflict are such verdicts.
LEMMA RollBackInv ==
  ASSUME SysInv, ServerStep, NEW i \in todo, Srv!RollBack(i)
  PROVE  SysInv'
<1>1. /\ cur \in TxIDs /\ batch[i].destination = Server /\ Srv!tx \in Srv!ServerTX
      /\ DOMAIN transactions = TxIDs
  BY HandledIsNext, ServerFacts DEF SysInv, ServerStep, Srv!RollBack, Srv!tx
<1>2. PICK p \in Srv!Conflicts(Srv!tx.puts, Srv!tx.read_ts) :
        Srv!Schedule(Srv!MsgRolledBackByServer(batch[i].destination,
                batch[i].source, cur, Srv!GetLast(data[Srv!tx.puts[p].key]).txid))
  BY DEF Srv!RollBack
<1>3. PICK x : x = Srv!GetLast(data[Srv!tx.puts[p].key]).txid
  OBVIOUS
<1>4. PICK r : r = MsgRolledBackByServer(Server, batch[i].source, cur, x)
  OBVIOUS
<1>5. /\ Srv!Schedule(r) /\ Srv!tx.state = "OPEN" /\ batch[i].type = "MSG_COMMIT"
      /\ failure' = failure /\ Srv!Handles(i)
  BY <1>1, <1>2, <1>3, <1>4 DEF Srv!RollBack, Srv!MsgRolledBackByServer, MsgRolledBackByServer
<1>6. transactions' = [transactions EXCEPT ![cur].state = "ROLLED_BACK_BY_SERVER",
                                           ![cur].commit_ts = clock]
  BY DEF Srv!RollBack
<1>7. transactions'[cur] = [Srv!tx EXCEPT !.state = "ROLLED_BACK_BY_SERVER", !.commit_ts = clock]
  BY <1>1, <1>6 DEF Srv!tx
<1>8. /\ transactions'[cur].state = "ROLLED_BACK_BY_SERVER"
      /\ transactions'[cur].puts = Srv!tx.puts /\ transactions'[cur].read_ts = Srv!tx.read_ts
  BY <1>1, <1>7 DEF Srv!ServerTX
<1>9. \A y \in TxIDs : y # cur => transactions'[y] = transactions[y]
  BY <1>1, <1>6
<1>10. x \in Srv!Committed'
  <2>1. SrvP!IInv'
    BY ServerKept DEF SysInv, ServerStep
  <2>2. scheduled' = Append(scheduled, r) /\ scheduled \in Seq(Replies)
    BY <1>5, ServerFacts DEF SysInv, Srv!Schedule
  <2>3. Len(scheduled) + 1 \in DOMAIN scheduled' /\ scheduled'[Len(scheduled) + 1] = r
    BY <2>2
  <2>4. r.type = "MSG_ROLLED_BACK_BY_SERVER" /\ r.conflict_txid = x
    BY <1>4 DEF MsgRolledBackByServer
  <2>5. SrvP!Justified(r)'
    BY <2>1, <2>3, <2>4 DEF SrvP!IInv, SrvP!ConflictIsReal
  <2>6. r \in Replies
    BY <2>1, <2>3, SameMessages DEF SrvP!IInv, SrvP!TypeOK
  <2>7. x \in TxIDs
    BY <2>4, <2>6 DEF Replies
  <2> QED BY <2>4, <2>5, <2>7 DEF SrvP!Justified, Srv!Committed
<1> QED BY <1>4, <1>5, <1>8, <1>9, <1>10, VerdictInv

\* The tick of a transaction begins: the server takes a timestamp.
LEMMA BeginTxInv ==
  ASSUME SysInv, ServerStep, NEW x \in TxIDs, Srv!BeginTx(x)
  PROVE  SysInv'
<1>1. /\ phase = "on_tick" /\ Srv!ServerStep /\ UNCHANGED <<clientVars, runtimeVars>>
      /\ UNCHANGED <<transactions, data, active, batch, todo, scheduled, failure>>
      /\ clock' = clock + 1 /\ clock \in Nat
  BY ServerFacts DEF ServerStep, Srv!BeginTx, SysInv
<1>2. SrvP!IInv'
  BY <1>1, ServerKept DEF SysInv
<1>3. CliP!CInv'
  BY <1>1, ClientsKept DEF SysInv
<1>4. RunP!RInv'
  BY <1>1, RuntimeKept DEF SysInv
<1>5. /\ UNCHANGED <<client_transactions, outbox, received, on_tick_of, next_tx, discovery,
                     client_failure, phase, turn, actors, no_destination>>
      /\ Incoming' = Incoming /\ Outgoing' = Outgoing
  BY <1>1 DEF clientVars, runtimeVars, Incoming, Outgoing, Run!InInboxes, Run!InQueue
<1>6. Conversations' /\ NoStrangers'
  <2>1. {batch'[j] : j \in todo'} = {batch[j] : j \in todo}
    BY <1>1
  <2>2. /\ Elements(scheduled)' = Elements(scheduled) /\ Elements(outbox)' = Elements(outbox)
        /\ Elements(received)' = Elements(received)
    BY <1>1, <1>5
  <2>3. \A t : Unticked(t)' <=> Unticked(t)
    BY <1>5 DEF Unticked
  <2>4. ASSUME NEW t \in ClientTxs
        PROVE  /\ ReadyRequests(t)' = ReadyRequests(t) /\ SentRequests(t)' = SentRequests(t)
               /\ ReadyReplies(t)' = ReadyReplies(t) /\ SentReplies(t)' = SentReplies(t)
    BY <1>5, <2>1, <2>2, <2>3
       DEF ReadyRequests, SentRequests, ReadyReplies, SentReplies, RequestsOf, RepliesOf
  <2>5. InFlight' \subseteq InFlight
    BY <1>5, <2>1, <2>2 DEF InFlight
  <2> QED BY <1>1, <1>5, <2>4, <2>5, NothingSaid
<1>7. OneRuns' /\ SilentBefore' /\ OneMessageEach'
  BY <1>1, <1>5 DEF SysInv, OneRuns, NoFailure, Cli!NoClient, SilentBefore, OneMessageEach
<1> QED BY <1>2, <1>3, <1>4, <1>6, <1>7 DEF SysInv, IdsSuffice

\* The server is never sent what it cannot handle.
LEMMA NothingUnexpected ==
  ASSUME SysInv, ServerStep, NEW i \in todo
  PROVE  ~Srv!ReportUnexpectedMsg(i) /\ ~Srv!Ignore(i) /\ ~Srv!BrokenSwitch(i)
<1> SUFFICES ASSUME Srv!ReportUnexpectedMsg(i) \/ Srv!Ignore(i) \/ Srv!BrokenSwitch(i)
             PROVE  FALSE
  OBVIOUS
<1>1. Srv!Handles(i) /\ phase = "on_tick"
  BY DEF ServerStep, Srv!ReportUnexpectedMsg, Srv!Ignore, Srv!BrokenSwitch
<1>2. PICK t \in ClientTxs :
            /\ Known(t) /\ client_transactions[t].txid = cur /\ cur \in TxIDs
            /\ batch[i] = Request(t, Handled(t) + 1)
            /\ Sent(t) = Handled(t) + 1 + Count(SentRequests(t))
  BY <1>1, HandledIsNext
<1> DEFINE tx == client_transactions[t]
           puts == Len(tx.requests)
<1>3. /\ ServerTx(t) = Srv!tx /\ Len(Srv!tx.puts) \in Nat
      /\ Srv!tx.state = "NOT_STARTED" => Handled(t) = 0
      /\ Srv!tx.state = "OPEN" => Handled(t) = Len(Srv!tx.puts) + 1
      /\ Srv!tx.state \in {"COMMITTED", "ROLLED_BACK_BY_SERVER"}
           => Handled(t) = Len(Srv!tx.puts) + 2
  BY <1>2, HandledTx
<1>4. /\ Sent(t) \in Nat /\ Handled(t) \in Nat /\ puts \in Nat /\ DOMAIN tx.requests = 1..puts
      /\ tx.state \in Cli!ClientTXState
  BY Progress, ClientFacts DEF SysInv
<1>5. Handled(t) + 1 \in Nat \ {0} /\ Handled(t) + 1 <= Sent(t)
  BY <1>2, <1>4 DEF Count
<1>6. /\ Handled(t) + 1 = 1 <=> batch[i].type = "MSG_START"
      /\ Handled(t) + 1 # 1 /\ (Handled(t) + 1) - 1 \in DOMAIN tx.requests
           <=> batch[i].type = "MSG_PUT"
      /\ Handled(t) + 1 = puts + 2 <=> batch[i].type = "MSG_COMMIT"
  BY <1>2, <1>5, RequestTypes
<1>7. Sent(t) <= puts + 2
  <2>1. Sent(t) \in {0, 1, puts + 1, puts + 2}
    BY DEF Sent
  <2> QED BY <1>4, <2>1
<1>8. CASE Srv!ReportUnexpectedMsg(i)
  BY <1>3, <1>6, <1>8 DEF Srv!ReportUnexpectedMsg
<1>9. CASE Srv!Ignore(i)
  BY <1>3, <1>4, <1>5, <1>6, <1>7, <1>9 DEF Srv!Ignore
<1>10. CASE Srv!BrokenSwitch(i)
  <2>1. Len(Srv!tx.puts) = puts
    BY <1>2, <1>3, <1>10 DEF Srv!BrokenSwitch, SysInv, Conversations, Conversation, SameVerdict
  <2> QED BY <1>3, <1>4, <1>5, <1>7, <1>10, <2>1 DEF Srv!BrokenSwitch
<1> QED BY <1>8, <1>9, <1>10

\* Every step of the server keeps the invariant.
LEMMA ServerStepInv ==
  ASSUME SysInv, ServerStep
  PROVE  SysInv'
<1>1. CASE \E x \in TxIDs : Srv!BeginTx(x)
  BY <1>1, BeginTxInv
<1>2. CASE \E i \in todo : Srv!HandleMessage(i)
  BY <1>2, StartInv, PutInv, CommitInv, RollBackInv, NothingUnexpected DEF Srv!HandleMessage
<1> QED BY <1>1, <1>2 DEF ServerStep, Srv!ServerStep

-----------------------------------------------------------------------------
(* The clients *)

\* What is appended to a sequence.
LEMMA ConcatElements ==
  ASSUME NEW S, NEW T, NEW s \in Seq(S), NEW e \in Seq(T)
  PROVE  Elements(s \o e) = Elements(s) \union Elements(e)
<1>1. /\ DOMAIN (s \o e) = 1..(Len(s) + Len(e)) /\ Len(s) \in Nat /\ Len(e) \in Nat
      /\ DOMAIN s = 1..Len(s) /\ DOMAIN e = 1..Len(e)
      /\ \A i \in 1..(Len(s) + Len(e)) : (s \o e)[i] = IF i <= Len(s) THEN s[i] ELSE e[i - Len(s)]
  OBVIOUS
<1>2. \A i \in DOMAIN s : i \in DOMAIN (s \o e) /\ (s \o e)[i] = s[i]
  BY <1>1
<1>3. \A i \in DOMAIN e : Len(s) + i \in DOMAIN (s \o e) /\ (s \o e)[Len(s) + i] = e[i]
  <2> SUFFICES ASSUME NEW i \in DOMAIN e
               PROVE  Len(s) + i \in DOMAIN (s \o e) /\ (s \o e)[Len(s) + i] = e[i]
    OBVIOUS
  <2>1. Len(s) + i \in 1..(Len(s) + Len(e)) /\ ~(Len(s) + i <= Len(s)) /\ (Len(s) + i) - Len(s) = i
    BY <1>1
  <2> QED BY <1>1, <2>1
<1>4. ASSUME NEW i \in DOMAIN (s \o e)
      PROVE  \/ i \in DOMAIN s /\ (s \o e)[i] = s[i]
             \/ i - Len(s) \in DOMAIN e /\ (s \o e)[i] = e[i - Len(s)]
  BY <1>1
<1> DEFINE c == s \o e
<1>5. /\ \A i \in DOMAIN s : i \in DOMAIN c /\ c[i] = s[i]
      /\ \A i \in DOMAIN e : Len(s) + i \in DOMAIN c /\ c[Len(s) + i] = e[i]
      /\ \A i \in DOMAIN c : \/ i \in DOMAIN s /\ c[i] = s[i]
                             \/ i - Len(s) \in DOMAIN e /\ c[i] = e[i - Len(s)]
  BY <1>2, <1>3, <1>4
<1> HIDE DEF c
<1>6. Elements(c) = Elements(s) \union Elements(e)
  BY <1>5 DEF Elements
<1> QED BY <1>6 DEF c

\* A transaction is ticked: it has not sent anything in this tick yet, and
\* what is there for it was handed to its client.
LEMMA Ticked ==
  ASSUME SysInv, phase = "on_tick", NEW t \in ClientTxs, Cli!Ticks(t)
  PROVE  /\ on_tick_of \in Clients /\ ClientOf(t) = on_tick_of /\ on_tick_of # Server
         /\ on_tick_of' = on_tick_of /\ clock' = clock + 1 /\ clock \in Nat
         /\ discovery' = discovery /\ received' = received
         /\ ~(Unticked(t)')
         /\ \A u \in ClientTxs : u # t => (Unticked(u)' <=> Unticked(u))
         /\ RepliesOf(t, Incoming) = {}
         /\ SentRequests(t) = {}
         /\ ReadyReplies(t) = {received[i] : i \in Cli!Mine(t)}
<1> DEFINE c == on_tick_of
<1>1. /\ c \in Clients /\ next_tx \in DOMAIN TxsOf[c] /\ t = TxsOf[c][next_tx]
      /\ clock' = clock + 1 /\ next_tx' = next_tx + 1
      /\ UNCHANGED <<discovery, on_tick_of, received>>
  BY DEF Cli!Ticks, Cli!ts
<1>2. ClientOf(t) = c /\ c # Server /\ clock \in Nat /\ actors[turn] = c
  BY <1>1, Holder, ServerIsNoClient, Traffic DEF SysInv, OneRuns
<1>3. next_tx \in Nat /\ DOMAIN TxsOf[c] \subseteq Nat
  BY <1>1, TxsOfAssumption
<1>4. ~(Unticked(t)')
  BY <1>1, <1>3, TxsOfAssumption DEF Unticked
<1>5. ASSUME NEW u \in ClientTxs, u # t PROVE Unticked(u)' <=> Unticked(u)
  BY <1>1, <1>3, <1>5 DEF Unticked
<1>6. Unticked(t)
  BY <1>1, <1>3 DEF Unticked
<1>7. RepliesOf(t, Incoming) = {}
  <2>1. RepliesOf(t, Incoming) \subseteq ReadyReplies(t)
    BY DEF ReadyReplies, RepliesOf
  <2>2. \A m \in RepliesOf(t, Incoming) : m.destination = c
    BY <1>2, <2>1, OwnMessages
  <2>3. \A m \in Incoming : m.destination # c
    BY <1>1, <1>2, Returning
  <2> QED BY <2>2, <2>3 DEF RepliesOf
<1>8. SentRequests(t) = {}
  <2>1. RequestsOf(t, Outgoing) = {}
    <3>1. RequestsOf(t, Outgoing) \subseteq SentRequests(t)
      BY DEF SentRequests, RequestsOf
    <3>2. \A m \in RequestsOf(t, Outgoing) : m.source = c
      BY <1>2, <3>1, OwnMessages
    <3>3. \A m \in Outgoing : m.source # c
      BY <1>1, <1>2, Returning
    <3> QED BY <3>2, <3>3 DEF RequestsOf
  <2>2. ASSUME NEW i \in DOMAIN outbox, outbox[i].txid = client_transactions[t].txid PROVE FALSE
    <3>1. PICK k \in DOMAIN TxsOf[c] : k < next_tx /\ Known(TxsOf[c][k])
                                       /\ outbox[i] \in SentRequests(TxsOf[c][k])
      BY <1>1, OutboxOfClient
    <3>2. TxsOf[c][k] \in ClientTxs
      BY <1>1, Holder
    <3>3. client_transactions[TxsOf[c][k]].txid = client_transactions[t].txid
      BY <2>2, <3>1 DEF SentRequests, RequestsOf
    <3>4. TxsOf[c][k] = t
      BY <3>1, <3>2, <3>3, OwnIds DEF SysInv
    <3>5. k = next_tx
      BY <1>1, <3>4, TxsOfAssumption
    <3> QED BY <1>3, <3>1, <3>5
  <2> QED BY <2>1, <2>2 DEF SentRequests, RequestsOf, Elements
<1>9. ReadyReplies(t) = {received[i] : i \in Cli!Mine(t)}
  <2>1. received \in Seq(Replies)
    BY SameMessages DEF SysInv, CliP!CInv, CliP!Types
  <2>2. \A i \in DOMAIN received : received[i].destination # Server
    BY <2>1, MessageKinds
  <2>3. ReadyReplies(t) = RepliesOf(t, Elements(received))
    BY <1>6, <1>7 DEF ReadyReplies, RepliesOf
  <2>4. CASE Known(t)
    BY <2>2, <2>3, <2>4, SameMessages DEF RepliesOf, Elements, Cli!Mine, Known
  <2>5. CASE ~Known(t)
    <3>1. \A m \in Elements(received) : m \in InFlight
      BY DEF InFlight
    <3>2. ReadyReplies(t) = {}
      BY <2>3, <2>5, <3>1 DEF RepliesOf, Known, SysInv, NoStrangers
    <3> QED BY <2>5, <3>2, SameMessages DEF Cli!Mine, Known
  <2> QED BY <2>4, <2>5
<1> QED BY <1>1, <1>2, <1>4, <1>5, <1>7, <1>8, <1>9

\* What its tick moves, once it has its id.
LEMMA TickMoves ==
  ASSUME SysInv, ClientStep, NEW t \in ClientTxs, Cli!Ticks(t),
         client_transactions'[t].txid = client_transactions[t].txid,
         NEW new \in Seq(Requests), outbox' = outbox \o new,
         \A i \in DOMAIN new : new[i].txid = client_transactions[t].txid
  PROVE  /\ ReadyRequests(t)' = ReadyRequests(t) /\ SentRequests(t)' = Elements(new)
         /\ ReadyReplies(t)' = {} /\ SentReplies(t)' = SentReplies(t)
<1>1. phase = "on_tick" /\ UNCHANGED <<serverVars, runtimeVars>>
  BY DEF ClientStep
<1>2. /\ UNCHANGED <<batch, todo, scheduled>> /\ Incoming' = Incoming /\ Outgoing' = Outgoing
  BY <1>1 DEF serverVars, runtimeVars, Incoming, Outgoing, Run!InInboxes, Run!InQueue
<1>3. ~(Unticked(t)') /\ RepliesOf(t, Incoming) = {} /\ SentRequests(t) = {}
  BY <1>1, Ticked
<1>4. \A i \in DOMAIN new : new[i].destination = Server
  BY MessageKinds
<1>5. Elements(outbox)' = Elements(outbox) \union Elements(new)
  <2>1. outbox \in Seq(CliP!ClientMessages)
    BY DEF SysInv, CliP!CInv, CliP!Types
  <2> QED BY <2>1, ConcatElements
<1>6. SentRequests(t)' = Elements(new)
  <2>1. \A m \in Elements(new) :
           m.txid = client_transactions[t].txid /\ m.destination = Server
    BY <1>4 DEF Elements
  <2>2. SentRequests(t)'
          = {m \in Outgoing \union Elements(outbox) \union Elements(new) :
               m.txid = client_transactions[t].txid /\ m.destination = Server}
    BY <1>2, <1>5 DEF SentRequests, RequestsOf
  <2>3. \A m \in Outgoing \union Elements(outbox) :
           ~(m.txid = client_transactions[t].txid /\ m.destination = Server)
    BY <1>3 DEF SentRequests, RequestsOf
  <2> QED BY <2>1, <2>2, <2>3
<1>7. ReadyRequests(t)' = ReadyRequests(t)
  BY <1>2 DEF ReadyRequests, RequestsOf
<1>8. ReadyReplies(t)' = {}
  BY <1>2, <1>3 DEF ReadyReplies, RepliesOf
<1>9. SentReplies(t)' = SentReplies(t)
  BY <1>2 DEF SentReplies, RepliesOf, Elements
<1> QED BY <1>6, <1>7, <1>8, <1>9

\* When the transaction that is ticked keeps its conversation, so does
\* everybody.
LEMMA TickInv ==
  ASSUME SysInv, ClientStep, NEW t \in ClientTxs, Cli!Ticks(t),
         NEW tx, client_transactions' = [client_transactions EXCEPT ![t] = tx],
         Known(t) => tx.txid = client_transactions[t].txid,
         NEW new \in Seq(Requests), outbox' = outbox \o new,
         \A i \in DOMAIN new : new[i].txid = tx.txid /\ tx.txid # UNDEFINED_TX_ID,
         client_failure' = client_failure, Conversation(t)'
  PROVE  SysInv'
<1>1. phase = "on_tick" /\ UNCHANGED <<serverVars, runtimeVars>> /\ Cli!ClientStep
  BY DEF ClientStep
<1>2. /\ UNCHANGED <<batch, todo, scheduled, transactions, active, failure>>
      /\ UNCHANGED <<phase, turn, actors, no_destination>>
      /\ Incoming' = Incoming /\ Outgoing' = Outgoing
  BY <1>1 DEF serverVars, runtimeVars, Incoming, Outgoing, Run!InInboxes, Run!InQueue
<1>3. /\ on_tick_of' = on_tick_of /\ clock' = clock + 1 /\ clock \in Nat
      /\ discovery' = discovery /\ received' = received /\ on_tick_of \in Clients
      /\ \A u \in ClientTxs : u # t => (Unticked(u)' <=> Unticked(u))
  BY <1>1, Ticked
<1>4. ~active
  BY <1>1, <1>3, ServerIsNoClient DEF SysInv, OneRuns
<1>5. SrvP!IInv'
  BY <1>1, <1>3, <1>4, ServerKept DEF SysInv
<1>6. CliP!CInv'
  BY <1>1, ClientsKept DEF SysInv
<1>7. RunP!RInv'
  BY <1>1, <1>3, RuntimeKept DEF SysInv
<1>8. /\ client_transactions'[t] = tx
      /\ \A u \in ClientTxs : u # t => client_transactions'[u] = client_transactions[u]
  BY DEF SysInv, CliP!CInv, CliP!Types
<1>9. Elements(outbox)' = Elements(outbox) \union Elements(new)
  <2>1. outbox \in Seq(CliP!ClientMessages)
    BY DEF SysInv, CliP!CInv, CliP!Types
  <2> QED BY <2>1, ConcatElements
<1>10. Conversations'
  <2> SUFFICES ASSUME NEW u \in ClientTxs, u # t PROVE Conversation(u)'
    BY DEF Conversations
  <2>1. \A m \in Elements(new) : m.txid # client_transactions[u].txid
    <3>1. CASE ~Known(u)
      BY <3>1 DEF Known, Elements
    <3>2. CASE Known(u)
      <4>1. tx.txid # UNDEFINED_TX_ID => tx.txid # client_transactions[u].txid
        BY <1>6, <1>8 DEF CliP!CInv, CliP!IdsUnique, CliP!UNDEFINED_TX_ID, UNDEFINED_TX_ID
      <4> QED BY <4>1 DEF Elements
    <3> QED BY <3>1, <3>2
  <2>2. ReadyRequests(u)' = ReadyRequests(u)
    BY <1>2, <1>8 DEF ReadyRequests, RequestsOf
  <2>3. SentRequests(u)' = SentRequests(u)
    BY <1>2, <1>8, <1>9, <2>1 DEF SentRequests, RequestsOf
  <2>4. ReadyReplies(u)' = ReadyReplies(u)
    BY <1>2, <1>3, <1>8 DEF ReadyReplies, RepliesOf, Elements
  <2>5. SentReplies(u)' = SentReplies(u)
    BY <1>2, <1>8 DEF SentReplies, RepliesOf, Elements
  <2>6. Conversation(u) /\ (client_transactions[u].state = "NOT_STARTED" <=> ~Known(u))
    BY ClientFacts DEF SysInv, Conversations
  <2>7. ServerTx(u)' = ServerTx(u) /\ Srv!Committed' = Srv!Committed
    BY <1>2, <1>8 DEF ServerTx, Srv!Committed
  <2> QED BY <1>8, <2>2, <2>3, <2>4, <2>5, <2>6, <2>7, ConversationKept
<1>11. NoStrangers'
  <2>1. InFlight' \subseteq InFlight \union Elements(new)
    <3>1. {batch'[j] : j \in todo'} = {batch[j] : j \in todo}
      BY <1>2
    <3>2. /\ Elements(scheduled)' = Elements(scheduled)
          /\ Elements(received)' = Elements(received)
      BY <1>2, <1>3
    <3> QED BY <1>2, <1>9, <3>1, <3>2 DEF InFlight
  <2>2. \A u \in ClientTxs : Known(u)
          => client_transactions'[u].txid = client_transactions[u].txid
             /\ client_transactions'[u].txid # UNDEFINED_TX_ID
    BY <1>8 DEF Known
  <2>3. \A m \in Elements(new) : m.txid = client_transactions'[t].txid
                                 /\ client_transactions'[t].txid # UNDEFINED_TX_ID
    BY <1>8 DEF Elements
  <2>4. \A m \in InFlight' : \E u \in ClientTxs :
          client_transactions'[u].txid # UNDEFINED_TX_ID /\ m.txid = client_transactions'[u].txid
    BY <2>1, <2>2, <2>3 DEF SysInv, NoStrangers
  <2>5. \A x \in TxIDs : transactions'[x].state # "NOT_STARTED"
          => \E u \in ClientTxs : client_transactions'[u].txid = x
    <3> SUFFICES ASSUME NEW x \in TxIDs, transactions[x].state # "NOT_STARTED"
                 PROVE  \E u \in ClientTxs : client_transactions'[u].txid = x
      BY <1>2
    <3>1. PICK u \in ClientTxs : client_transactions[u].txid = x
      BY DEF SysInv, NoStrangers
    <3>2. Known(u)
      BY <3>1, UndefinedTxIsNoTx DEF Known
    <3> QED BY <2>2, <3>1, <3>2
  <2> QED BY <2>4, <2>5 DEF NoStrangers, Known
<1>12. OneRuns'
  BY <1>2, <1>3, UndefinedActorIsNoClient
     DEF SysInv, OneRuns, NoFailure, Cli!NoClient, Cli!UNDEFINED_TX_ID, UNDEFINED_TX_ID
<1>13. SilentBefore' /\ OneMessageEach'
  BY <1>2 DEF SysInv, SilentBefore, OneMessageEach
<1> QED BY <1>5, <1>6, <1>7, <1>10, <1>11, <1>12, <1>13 DEF SysInv, IdsSuffice

\* A tick with nothing to read and nothing to send.
LEMMA QuietTickInv ==
  ASSUME SysInv, ClientStep, NEW t \in ClientTxs, Cli!Ticks(t),
         client_transactions' = client_transactions, outbox' = outbox,
         client_failure' = client_failure, ReadyReplies(t) = {}
  PROVE  SysInv'
<1> DEFINE new == <<>>
<1>1. /\ client_transactions' = [client_transactions EXCEPT ![t] = client_transactions[t]]
      /\ new \in Seq(Requests) /\ outbox' = outbox \o new /\ DOMAIN new = {}
      /\ Elements(new) = {}
  <2>1. outbox \in Seq(CliP!ClientMessages)
    BY DEF SysInv, CliP!CInv, CliP!Types
  <2>2. client_transactions' = [client_transactions EXCEPT ![t] = client_transactions[t]]
    BY DEF SysInv, CliP!CInv, CliP!Types
  <2>3. new \in Seq(Requests) /\ DOMAIN new = {} /\ Elements(new) = {}
    BY DEF Elements
  <2>4. outbox \o new = outbox
    BY <2>1
  <2> HIDE DEF new
  <2> QED BY <2>2, <2>3, <2>4
<1> HIDE DEF new
<1>2. /\ ReadyRequests(t)' = ReadyRequests(t) /\ SentRequests(t)' = {}
      /\ ReadyReplies(t)' = {} /\ SentReplies(t)' = SentReplies(t)
  BY <1>1, TickMoves
<1>3. SentRequests(t) = {} /\ UNCHANGED <<transactions>>
  BY Ticked DEF ClientStep, serverVars
<1>4. Conversation(t) /\ (client_transactions[t].state = "NOT_STARTED" <=> ~Known(t))
  BY ClientFacts DEF SysInv, Conversations
<1>5. ServerTx(t)' = ServerTx(t) /\ Srv!Committed' = Srv!Committed
  BY <1>3 DEF ServerTx, Srv!Committed
<1>6. Conversation(t)'
  BY <1>2, <1>3, <1>4, <1>5, ConversationKept
<1> QED BY <1>1, <1>6, TickInv

\* What a transaction reads in its tick is the answer it is waiting for.
LEMMA Received ==
  ASSUME SysInv, phase = "on_tick", NEW t \in ClientTxs, Cli!Ticks(t)
  PROVE  /\ Cli!coordinator = Server /\ Len(discovery) = 1
         /\ Cli!Mine(t) = {} <=> ReadyReplies(t) = {}
         /\ Cli!Mine(t) # {} => Known(t) /\ Taken(t) + 1 <= Handled(t)
         /\ \A i \in Cli!Mine(t) :
              /\ i \in DOMAIN received /\ received[i] \in Replies
              /\ IsReply(t, Taken(t) + 1, received[i])
              /\ received[i].source = Cli!coordinator
         /\ Handled(t) <= Sent(t)
         /\ Sent(t) = Handled(t) + Count(ReadyRequests(t))
         /\ Handled(t) = Taken(t) + Count(ReadyReplies(t)) + Count(SentReplies(t))
         /\ Sent(t) \in Nat /\ Handled(t) \in Nat /\ Taken(t) \in Nat
<1>1. ReadyReplies(t) = {received[i] : i \in Cli!Mine(t)} /\ SentRequests(t) = {}
  BY Ticked
<1>2. Conversation(t) /\ Sent(t) \in Nat /\ Handled(t) \in Nat /\ Taken(t) \in Nat
  BY Progress DEF SysInv, Conversations
<1>3. Cli!coordinator = Server /\ Len(discovery) = 1
  BY DEF Cli!coordinator, SysInv, OneRuns
<1>4. /\ Sent(t) = Handled(t) + Count(ReadyRequests(t)) /\ Handled(t) <= Sent(t)
      /\ Handled(t) = Taken(t) + Count(ReadyReplies(t)) + Count(SentReplies(t))
      /\ ReadyReplies(t) # {} => Taken(t) + 1 <= Handled(t)
  <2>1. Handled(t) = Taken(t) + Count(ReadyReplies(t)) + Count(SentReplies(t))
    BY <1>2 DEF Conversation, RepliesInOrder
  <2>2. Sent(t) = Handled(t) + Count(ReadyRequests(t)) + Count(SentRequests(t))
    BY <1>2 DEF Conversation, RequestsInOrder
  <2>3. /\ Count(SentRequests(t)) = 0 /\ Count(ReadyRequests(t)) \in {0, 1}
        /\ Count(SentReplies(t)) \in {0, 1}
        /\ ReadyReplies(t) # {} => Count(ReadyReplies(t)) = 1
    BY <1>1 DEF Count
  <2> QED BY <1>2, <2>1, <2>2, <2>3
<1>5. received \in Seq(Replies)
  BY SameMessages DEF SysInv, CliP!CInv, CliP!Types
<1>6. ASSUME NEW i \in Cli!Mine(t)
      PROVE  /\ i \in DOMAIN received /\ received[i] \in Replies /\ Known(t)
             /\ IsReply(t, Taken(t) + 1, received[i]) /\ received[i].source = Server
  <2>1. i \in DOMAIN received /\ Known(t)
    BY SameMessages DEF Cli!Mine, Known
  <2>2. received[i] \in Replies
    BY <1>5, <2>1
  <2>3. IsReply(t, Taken(t) + 1, received[i])
    BY <1>1, <1>2 DEF Conversation, RepliesInOrder
  <2> QED BY <2>1, <2>2, <2>3, MessageKinds
<1> QED BY <1>1, <1>2, <1>3, <1>4, <1>6

\* Answers of each kind have their numbers.
LEMMA ReplyTypes ==
  ASSUME SysInv, NEW t \in ClientTxs, NEW n \in Nat \ {0}, n <= Sent(t),
         NEW m, IsReply(t, n, m)
  PROVE  LET tx == client_transactions[t]
         IN  /\ n = 1 <=> m.type = "MSG_START_ACK"
             /\ n = 1 => m.read_ts = ServerTx(t).read_ts
             /\ n # 1 /\ n - 1 \in DOMAIN tx.requests <=> m.type = "MSG_PUT_REPLY"
             /\ n # 1 /\ n - 1 \in DOMAIN tx.requests
                  => m.msg_id = tx.requests[n - 1].msg_id
             /\ n = Len(tx.requests) + 2
                  <=> m.type \in {"MSG_COMMIT_ACK", "MSG_ROLLED_BACK_BY_SERVER"}
             /\ m.type = "MSG_COMMIT_ACK"
                  => ServerTx(t).state = "COMMITTED" /\ m.commit_ts = ServerTx(t).commit_ts
             /\ m.type = "MSG_ROLLED_BACK_BY_SERVER"
                  => /\ ServerTx(t).state = "ROLLED_BACK_BY_SERVER"
                     /\ m.conflict_txid \in Srv!Committed
<1> DEFINE tx == client_transactions[t]
           puts == Len(tx.requests)
<1>1. puts \in Nat /\ DOMAIN tx.requests = 1..puts
  BY ClientFacts DEF SysInv
<1>2. n \in 1..(puts + 2)
  <2>1. Sent(t) \in {0, 1, puts + 1, puts + 2}
    BY DEF Sent
  <2> QED BY <1>1, <2>1
<1>3. /\ n - 1 \in DOMAIN tx.requests => n # puts + 2
      /\ n = puts + 2 => n # 1
      /\ n # 1 /\ n - 1 \notin DOMAIN tx.requests => n = puts + 2
  BY <1>1, <1>2
<1> HIDE DEF puts, tx
<1>4. /\ n = 1 => m.type = "MSG_START_ACK" /\ m.read_ts = ServerTx(t).read_ts
      /\ n # 1 /\ n - 1 \in DOMAIN tx.requests
           => m.type = "MSG_PUT_REPLY" /\ m.msg_id = tx.requests[n - 1].msg_id
      /\ n # 1 /\ n - 1 \notin DOMAIN tx.requests
           => \/ /\ m.type = "MSG_COMMIT_ACK" /\ m.commit_ts = ServerTx(t).commit_ts
                 /\ ServerTx(t).state = "COMMITTED"
              \/ /\ m.type = "MSG_ROLLED_BACK_BY_SERVER"
                 /\ m.conflict_txid \in Srv!Committed
                 /\ ServerTx(t).state = "ROLLED_BACK_BY_SERVER"
  BY DEF tx, IsReply, MsgStartAck, MsgPutReply, MsgCommitAck, MsgRolledBackByServer
<1> QED BY <1>3, <1>4 DEF tx, puts

\* No transaction is ticked with an answer it cannot take.
LEMMA NothingSurprising ==
  ASSUME SysInv, ClientStep, NEW t \in ClientTxs
  PROVE  /\ ~Cli!StartWithoutServer(t) /\ ~Cli!PutReplyBeforeStartAck(t)
         /\ ~Cli!ReplyAfterCommit(t)
<1> DEFINE tx == client_transactions[t]
<1>1. phase = "on_tick"
  BY DEF ClientStep
<1>2. ~Cli!StartWithoutServer(t)
  BY <1>1, Received DEF Cli!StartWithoutServer, Cli!Starts
<1>3. /\ Len(tx.requests) \in Nat /\ tx.completed_puts \in Nat
      /\ tx.state = "COMMIT_SENT" => tx.completed_puts = Len(tx.requests)
  BY ClientFacts DEF SysInv
<1>4. ASSUME Cli!PutReplyBeforeStartAck(t) PROVE FALSE
  <2>1. Cli!Ticks(t) /\ tx.state = "START_SENT"
    BY <1>4 DEF Cli!PutReplyBeforeStartAck
  <2>2. PICK i \in Cli!Mine(t) : received[i].type = "MSG_PUT_REPLY"
    BY <1>4 DEF Cli!PutReplyBeforeStartAck, Cli!Replied
  <2>3. IsReply(t, 1, received[i]) /\ 1 <= Sent(t)
    BY <1>1, <2>1, Received DEF Taken, Sent
  <2> QED BY <2>2, <2>3, ReplyTypes
<1>5. ASSUME Cli!ReplyAfterCommit(t) PROVE FALSE
  <2>1. Cli!Ticks(t) /\ tx.state = "COMMIT_SENT"
    BY <1>5 DEF Cli!ReplyAfterCommit
  <2>2. PICK i \in Cli!Mine(t) : received[i].type \notin Cli!VerdictTypes
    BY <1>5 DEF Cli!ReplyAfterCommit
  <2>3. Taken(t) + 1 = Len(tx.requests) + 2
    BY <1>3, <2>1 DEF Taken
  <2>4. /\ IsReply(t, Taken(t) + 1, received[i]) /\ Taken(t) + 1 <= Sent(t)
        /\ Taken(t) + 1 \in Nat \ {0}
    BY <1>1, <2>1, Received
  <2>5. received[i].type \in {"MSG_COMMIT_ACK", "MSG_ROLLED_BACK_BY_SERVER"}
    BY <2>3, <2>4, ReplyTypes
  <2> QED BY <2>2, <2>5 DEF Cli!VerdictTypes
<1> QED BY <1>2, <1>4, <1>5

\* A transaction that has to wait.
LEMMA WaitInv ==
  ASSUME SysInv, ClientStep, NEW t \in ClientTxs,
         Cli!DelayStart(t) \/ Cli!AwaitStartAck(t) \/ Cli!AwaitVerdict(t)
  PROVE  SysInv'
<1> DEFINE tx == client_transactions[t]
<1>1. /\ phase = "on_tick" /\ Cli!Ticks(t)
      /\ client_transactions' = client_transactions /\ outbox' = outbox
      /\ client_failure' = client_failure
  BY DEF ClientStep, Cli!DelayStart, Cli!AwaitStartAck, Cli!AwaitVerdict, Cli!NothingSent
<1>2. Cli!Mine(t) = {}
  <2>1. CASE Cli!DelayStart(t)
    <3>1. ~Known(t)
      BY <2>1, ClientFacts DEF SysInv, Cli!DelayStart
    <3> QED BY <1>1, <3>1, Received
  <2>2. CASE Cli!AwaitStartAck(t)
    <3> SUFFICES ASSUME NEW i \in Cli!Mine(t) PROVE FALSE
      OBVIOUS
    <3>1. Cli!Replied(t, "MSG_START_ACK") = {} /\ tx.state = "START_SENT"
      BY <2>2 DEF Cli!AwaitStartAck
    <3>2. IsReply(t, 1, received[i]) /\ 1 <= Sent(t) /\ received[i].source = Cli!coordinator
      BY <1>1, <3>1, Received DEF Taken, Sent
    <3>3. received[i].type = "MSG_START_ACK"
      BY <3>2, ReplyTypes
    <3> QED BY <3>1, <3>2, <3>3 DEF Cli!Replied
  <2>3. CASE Cli!AwaitVerdict(t)
    BY <2>3 DEF Cli!AwaitVerdict
  <2> QED BY <2>1, <2>2, <2>3
<1> QED BY <1>1, <1>2, Received, QuietTickInv

\* Transaction t sends new: its next request, or nothing.
Says(t, new) ==
    /\ new \in Seq(Requests) /\ outbox' = outbox \o new
    /\ \A i \in DOMAIN new : new[i].txid = client_transactions[t].txid
    /\ \A n, m : n = Sent(t)' /\ m \in Elements(new) => m = Request(t, n)'
    /\ Sent(t)' = Sent(t) + Count(Elements(new))

\* The requests of a transaction stay, and at most one that waits for its
\* answer comes after them.
Follows(requests, next) ==
    /\ Len(requests) <= Len(next)
    /\ DOMAIN requests \subseteq DOMAIN next
    /\ \A i \in DOMAIN next : i \notin DOMAIN requests
         => i = Len(requests) + 1 /\ next[i].status = "REQUEST_START"

\* What an open transaction may become once it is acked.
GoesOn(tx, acked, done) ==
    /\ done.txid = tx.txid /\ done.spec = tx.spec
    /\ done.completed_puts = acked.completed_puts
    /\ done.read_ts = tx.read_ts /\ done.commit_ts = tx.commit_ts
    /\ done.conflict_txid = tx.conflict_txid
    /\ done.state \in {"OPEN", "COMMIT_SENT"}
    /\ done.state = "COMMIT_SENT" => tx.spec.action = "COMMIT"
    /\ Follows(tx.requests, done.requests)
    /\ \A i \in DOMAIN tx.requests : done.requests[i] = acked.requests[i]

\* A ticked transaction that has taken the answer there was for it, and sends
\* at most the next request, still speaks in order.
LEMMA TickInOrder ==
  ASSUME SysInv, ClientStep, NEW t \in ClientTxs, Cli!Ticks(t), Known(t),
         client_transactions'[t].txid = client_transactions[t].txid,
         DOMAIN client_transactions[t].requests \subseteq DOMAIN client_transactions'[t].requests,
         \A n \in DOMAIN client_transactions'[t].requests :
            n < Sent(t) => n \in DOMAIN client_transactions[t].requests,
         \A n \in DOMAIN client_transactions[t].requests :
            LET old == client_transactions[t].requests[n]
                now == client_transactions'[t].requests[n]
            IN  now.key = old.key /\ now.value = old.value /\ now.msg_id = old.msg_id,
         Taken(t)' = Taken(t) + Count(ReadyReplies(t)),
         NEW new, Says(t, new)
  PROVE  RequestsInOrder(t)' /\ RepliesInOrder(t)'
<1>1. phase = "on_tick" /\ UNCHANGED transactions /\ Known(t)'
  BY DEF ClientStep, serverVars, Known
<1>2. /\ ReadyRequests(t)' = ReadyRequests(t) /\ SentRequests(t)' = Elements(new)
      /\ ReadyReplies(t)' = {} /\ SentReplies(t)' = SentReplies(t)
  BY TickMoves DEF Says
<1>3. ServerTx(t)' = ServerTx(t) /\ Srv!Committed' = Srv!Committed /\ Handled(t)' = Handled(t)
  BY <1>1 DEF ServerTx, Srv!Committed, Handled
<1>4. /\ Sent(t) \in Nat /\ Handled(t) \in Nat /\ Taken(t) \in Nat
      /\ Handled(t) <= Sent(t) /\ Sent(t) = Handled(t) + Count(ReadyRequests(t))
      /\ Handled(t) = Taken(t) + Count(ReadyReplies(t)) + Count(SentReplies(t))
      /\ RequestsInOrder(t) /\ RepliesInOrder(t)
  BY <1>1, Received DEF SysInv, Conversations, Conversation
<1> DEFINE requests == client_transactions[t].requests
<1>5. ASSUME NEW n \in Nat \ {0}, n <= Sent(t)
      PROVE  /\ Request(t, n)' = Request(t, n)
             /\ \A m : IsReply(t, n, m) => IsReply(t, n, m)'
  <2>1. n - 1 \in DOMAIN client_transactions'[t].requests <=> n - 1 \in DOMAIN requests
    BY <1>4, <1>5
  <2>2. Request(t, n)' = Request(t, n)
    BY <2>1 DEF Request, MsgStart, MsgPut, MsgCommit
  <2>3. ASSUME NEW m, IsReply(t, n, m) PROVE IsReply(t, n, m)'
    BY <1>3, <2>1, <2>3 DEF IsReply
  <2> QED BY <2>2, <2>3
<1>6. RequestsInOrder(t)'
  <2>1. ASSUME NEW m \in ReadyRequests(t) PROVE m = Request(t, Handled(t) + 1)'
    <3>1. m = Request(t, Handled(t) + 1) /\ Handled(t) + 1 <= Sent(t)
      BY <1>4, <2>1 DEF RequestsInOrder, Count
    <3>2. PICK n : n = Handled(t) + 1
      OBVIOUS
    <3>3. m = Request(t, n)'
      BY <1>4, <1>5, <3>1, <3>2
    <3>4. n = (Handled(t) + 1)'
      BY <1>3, <3>2
    <3> QED BY <3>3, <3>4
  <2>2. Sent(t)' = Handled(t) + Count(ReadyRequests(t)) + Count(Elements(new))
    BY <1>4 DEF Says
  <2>3. \A n, m : n = Sent(t)' /\ m \in Elements(new) => m = Request(t, n)'
    BY DEF Says
  <2> QED BY <1>2, <1>3, <2>1, <2>2, <2>3 DEF RequestsInOrder, Count
<1>7. RepliesInOrder(t)'
  <2>1. ASSUME NEW m \in SentReplies(t) PROVE IsReply(t, Handled(t), m)'
    <3>1. IsReply(t, Handled(t), m) /\ Handled(t) \in Nat \ {0}
      BY <1>4, <2>1 DEF RepliesInOrder, Count
    <3>2. PICK n : n = Handled(t)
      OBVIOUS
    <3>3. IsReply(t, n, m)'
      BY <1>4, <1>5, <3>1, <3>2
    <3>4. n = Handled(t)'
      BY <1>3, <3>2
    <3> QED BY <3>3, <3>4
  <2>2. Handled(t)' = Taken(t)' + 0 + Count(SentReplies(t))
    BY <1>3, <1>4 DEF Count
  <2>3. /\ \A m, o \in SentReplies(t) : m = o
        /\ ReadyRequests(t) # {} => SentReplies(t) = {}
    BY <1>4 DEF RepliesInOrder
  <2> QED BY <1>2, <1>3, <2>1, <2>2, <2>3 DEF RepliesInOrder, Count
<1> QED BY <1>6, <1>7

\* An ended conversation: nothing is on its way, and no answer is missing.
LEMMA TickEndedInv ==
  ASSUME SysInv, ClientStep, NEW t \in ClientTxs, Cli!TickEnded(t)
  PROVE  SysInv'
<1> DEFINE tx == client_transactions[t]
<1>1. /\ phase = "on_tick" /\ Cli!Ticks(t) /\ tx.state \in Cli!Ended
      /\ Cli!Becomes(t, Cli!CompleteRequests(t)) /\ Cli!NothingSent
  BY DEF ClientStep, Cli!TickEnded
<1>2. /\ tx \in CliP!ClientTx /\ tx.completed_puts = Len(tx.requests)
      /\ tx.completed_puts \in Nat
  BY <1>1, ClientFacts DEF SysInv
<1>3. Sent(t) = tx.completed_puts + 2 /\ Taken(t) = tx.completed_puts + 2
  BY <1>1, <1>2 DEF Sent, Taken, Cli!Ended
<1>4. ReadyReplies(t) = {} /\ Cli!Mine(t) = {}
  BY <1>1, <1>2, <1>3, Received
<1>5. Cli!Answered(t) = {}
  BY <1>4 DEF Cli!Answered, Cli!Replied
<1>6. Cli!Cardinality({}) = 0
  BY FS_EmptySet DEF Cli!Cardinality, Cardinality
<1>7. Cli!CompleteRequests(t) = tx
  <2> DEFINE same == [i \in DOMAIN tx.requests |->
                        IF i \in {} THEN [tx.requests[i] EXCEPT !.status = "REQUEST_COMPLETED"]
                        ELSE tx.requests[i]]
  <2>1. tx.requests \in Seq(CliP!Request)
    BY ClientFacts DEF SysInv
  <2>2. same = tx.requests
    BY <2>1
  <2>3. Cli!CompleteRequests(t)
          = [tx EXCEPT !.requests = same, !.completed_puts = tx.completed_puts + 0]
    BY <1>5, <1>6 DEF Cli!CompleteRequests
  <2> HIDE DEF same
  <2>4. tx.completed_puts + 0 = tx.completed_puts
    BY <1>2
  <2> QED BY <1>2, <2>2, <2>3, <2>4 DEF CliP!ClientTx
<1>8. client_transactions' = client_transactions
  <2>1. client_transactions \in [ClientTxs -> CliP!ClientTx]
    BY DEF SysInv, CliP!CInv, CliP!Types
  <2> QED BY <1>1, <1>7, <2>1 DEF Cli!Becomes
<1> QED BY <1>1, <1>4, <1>8, QuietTickInv DEF Cli!NothingSent

\* The last of some received messages is one of them.
LEMMA LastOfReceived ==
  ASSUME SysInv, NEW S \in SUBSET DOMAIN received, S # {}
  PROVE  \E i \in S : Cli!LastOf(S) = received[i]
<1>1. received \in Seq(Replies)
  BY SameMessages DEF SysInv, CliP!CInv, CliP!Types
<1>2. \E i \in S : CliP!LastOf(S) = received[i]
  BY <1>1, CliP!LastOfSome, ClientAssumptions
<1>3. Cli!LastOf(S) = CliP!LastOf(S)
  BY DEF Cli!LastOf, CliP!LastOf, Cli!Max, CliP!Max
<1> QED BY <1>2, <1>3

\* A tick that reads the answer and sends nothing.
LEMMA ReadTickInv ==
  ASSUME SysInv, ClientStep, NEW t \in ClientTxs, Cli!Ticks(t), Known(t),
         NEW tx, client_transactions' = [client_transactions EXCEPT ![t] = tx],
         tx.txid = client_transactions[t].txid, tx.requests = client_transactions[t].requests,
         tx.completed_puts = client_transactions[t].completed_puts,
         outbox' = outbox, client_failure' = client_failure,
         Taken(t)' = Taken(t) + Count(ReadyReplies(t)), Sent(t)' = Sent(t), SameVerdict(t)'
  PROVE  SysInv'
<1>1. /\ phase = "on_tick" /\ UNCHANGED transactions
      /\ client_transactions'[t] = tx
  BY DEF ClientStep, serverVars, SysInv, CliP!CInv, CliP!Types
<1>n. PICK new : new = <<>>
  OBVIOUS
<1>2. /\ new \in Seq(Requests) /\ outbox' = outbox \o new /\ DOMAIN new = {}
      /\ Elements(new) = {} /\ Count(Elements(new)) = 0
  <2>1. outbox \in Seq(CliP!ClientMessages)
    BY DEF SysInv, CliP!CInv, CliP!Types
  <2>2. new \in Seq(Requests) /\ DOMAIN new = {} /\ Elements(new) = {}
    BY <1>n DEF Elements
  <2>3. outbox \o new = outbox
    BY <1>n, <2>1
  <2> QED BY <2>2, <2>3 DEF Count
<1>3. Sent(t) \in Nat
  BY Progress
<1>4. RequestsInOrder(t)' /\ RepliesInOrder(t)'
  <2>1. /\ client_transactions'[t].txid = client_transactions[t].txid
        /\ client_transactions'[t].requests = client_transactions[t].requests
    BY <1>1
  <2>2. Sent(t)' = Sent(t) + Count(Elements(new))
    BY <1>2, <1>3
  <2>3. Says(t, new)
    BY <1>2, <2>2 DEF Says
  <2> QED BY <2>1, <2>3, TickInOrder
<1>5. SamePuts(t)'
  BY <1>1 DEF SysInv, Conversations, Conversation, SamePuts, Known, ServerTx
<1>6. Conversation(t)'
  BY <1>4, <1>5 DEF Conversation
<1> QED BY <1>2, <1>6, TickInv

\* The MSG_START_ACK brings the timestamp the server has started the
\* transaction at.
LEMMA ReceiveStartAckInv ==
  ASSUME SysInv, ClientStep, NEW t \in ClientTxs, Cli!ReceiveStartAck(t)
  PROVE  SysInv'
<1> DEFINE tx == client_transactions[t]
<1>1. /\ phase = "on_tick" /\ Cli!Ticks(t) /\ tx.state = "START_SENT"
      /\ Cli!Replied(t, "MSG_START_ACK") # {} /\ Cli!NothingSent
      /\ Cli!Becomes(t, [Cli!Opened(t) EXCEPT !.state = Cli!Progress(@)])
  BY DEF ClientStep, Cli!ReceiveStartAck
<1>2. /\ tx \in CliP!ClientTx /\ tx.completed_puts = 0 /\ Known(t) /\ tx.requests = <<>>
  BY <1>1, ClientFacts DEF SysInv
<1>3. PICK new : new = [Cli!Opened(t) EXCEPT !.state = Cli!Progress(@)]
  OBVIOUS
<1>4. PICK read_ts : read_ts = Cli!LastOf(Cli!Replied(t, "MSG_START_ACK")).read_ts
  OBVIOUS
<1>5. /\ new.state = "OPEN" /\ new.read_ts = read_ts
      /\ new.txid = tx.txid /\ new.requests = tx.requests /\ new.spec = tx.spec
      /\ new.completed_puts = tx.completed_puts
      /\ new.commit_ts = tx.commit_ts /\ new.conflict_txid = tx.conflict_txid
  <2>1. Cli!Opened(t) = [tx EXCEPT !.participant = "TX_OPEN", !.read_ts = read_ts]
    BY <1>4 DEF Cli!Opened
  <2> QED BY <1>1, <1>2, <1>3, <2>1 DEF CliP!ClientTx, Cli!Progress
<1>6. Taken(t) = 0 /\ Sent(t) = 1
  BY <1>1 DEF Taken, Sent
<1>7. ReadyReplies(t) # {} /\ read_ts = ServerTx(t).read_ts
  <2>1. PICK i \in Cli!Replied(t, "MSG_START_ACK") :
          Cli!LastOf(Cli!Replied(t, "MSG_START_ACK")) = received[i]
    BY <1>1, LastOfReceived DEF Cli!Replied, Cli!Mine
  <2>2. i \in Cli!Mine(t)
    BY DEF Cli!Replied
  <2>3. IsReply(t, 1, received[i]) /\ ReadyReplies(t) # {}
    BY <1>1, <1>6, <2>2, Received
  <2> QED BY <1>4, <1>6, <2>1, <2>3, ReplyTypes
<1>8. /\ client_transactions'[t] = new /\ UNCHANGED transactions
      /\ client_transactions' = [client_transactions EXCEPT ![t] = new]
  BY <1>1, <1>3 DEF ClientStep, serverVars, SysInv, CliP!CInv, CliP!Types, Cli!Becomes
<1>9. Taken(t)' = 1 /\ Sent(t)' = 1
  BY <1>2, <1>5, <1>8 DEF Taken, Sent
<1>10. SameVerdict(t)'
  <2>1. SameVerdict(t)
    BY DEF SysInv, Conversations, Conversation
  <2>2. ServerTx(t)' = ServerTx(t)
    BY <1>5, <1>8 DEF ServerTx
  <2>3. ~(ServerTx(t).state \in {"COMMITTED", "ROLLED_BACK_BY_SERVER"})
    BY <1>1, <1>2, <2>1 DEF SameVerdict, Cli!Ended
  <2> QED BY <1>1, <1>5, <1>7, <1>8, <2>1, <2>2, <2>3
          DEF SameVerdict, Cli!Ended, UNDEFINED_TS, UNDEFINED_TX_ID
<1>11. Taken(t)' = Taken(t) + Count(ReadyReplies(t)) /\ Sent(t)' = Sent(t)
  BY <1>6, <1>7, <1>9 DEF Count
<1> QED BY <1>1, <1>2, <1>5, <1>8, <1>10, <1>11, ReadTickInv DEF Cli!NothingSent

\* The verdict the client takes is the one the server has given.
LEMMA ReceiveVerdictInv ==
  ASSUME SysInv, ClientStep, NEW t \in ClientTxs, Cli!ReceiveVerdict(t)
  PROVE  SysInv'
<1> DEFINE tx == client_transactions[t]
<1>1. /\ phase = "on_tick" /\ Cli!Ticks(t) /\ tx.state = "COMMIT_SENT"
      /\ Cli!Mine(t) # {} /\ Cli!NothingSent
      /\ Cli!Becomes(t, Cli!AfterVerdicts(tx, Cli!Mine(t)))
      /\ \A i \in Cli!Mine(t) : received[i].type \in Cli!VerdictTypes
  BY DEF ClientStep, Cli!ReceiveVerdict
<1>2. /\ tx \in CliP!ClientTx /\ Known(t) /\ tx.completed_puts = Len(tx.requests)
      /\ tx.completed_puts \in Nat
  BY <1>1, ClientFacts DEF SysInv
<1>3. /\ Taken(t) = tx.completed_puts + 1 /\ Sent(t) = tx.completed_puts + 2
  BY <1>1, <1>2 DEF Taken, Sent
<1>4. PICK k \in Cli!Mine(t) : Cli!LastOf(Cli!Mine(t)) = received[k]
  BY <1>1, LastOfReceived DEF Cli!Mine
<1>5. PICK m : m = received[k]
  OBVIOUS
<1>6. /\ ReadyReplies(t) # {} /\ IsReply(t, Len(tx.requests) + 2, m)
      /\ m.type \in {"MSG_COMMIT_ACK", "MSG_ROLLED_BACK_BY_SERVER"}
      /\ \A i \in Cli!Mine(t) : received[i] = m
  <2>1. ReadyReplies(t) = {received[i] : i \in Cli!Mine(t)}
    BY <1>1, Ticked
  <2>2. \A o, p \in ReadyReplies(t) : o = p
    BY DEF SysInv, Conversations, Conversation, RepliesInOrder
  <2>3. IsReply(t, Taken(t) + 1, m)
    BY <1>1, <1>5, Received
  <2>4. Taken(t) + 1 = Len(tx.requests) + 2
    BY <1>2, <1>3
  <2> QED BY <1>1, <1>5, <2>1, <2>2, <2>3, <2>4 DEF Cli!VerdictTypes
<1>7. /\ m.type = "MSG_COMMIT_ACK"
            => ServerTx(t).state = "COMMITTED" /\ m.commit_ts = ServerTx(t).commit_ts
      /\ m.type = "MSG_ROLLED_BACK_BY_SERVER"
            => /\ ServerTx(t).state = "ROLLED_BACK_BY_SERVER"
               /\ m.conflict_txid \in Srv!Committed
  <2>1. Len(tx.requests) + 2 \in Nat \ {0} /\ Len(tx.requests) + 2 <= Sent(t)
    BY <1>2, <1>3
  <2> QED BY <1>6, <2>1, ReplyTypes
<1>8. PICK new : new = Cli!AfterVerdicts(tx, Cli!Mine(t))
  OBVIOUS
<1>9. /\ new.txid = tx.txid /\ new.requests = tx.requests /\ new.spec = tx.spec
      /\ new.completed_puts = tx.completed_puts /\ new.read_ts = tx.read_ts
      /\ m.type = "MSG_COMMIT_ACK"
           => /\ new.state = "COMMITTED" /\ new.commit_ts = m.commit_ts
              /\ new.conflict_txid = tx.conflict_txid
      /\ m.type = "MSG_ROLLED_BACK_BY_SERVER"
           => /\ new.state = "ROLLED_BACK_BY_SERVER" /\ new.commit_ts = tx.commit_ts
              /\ new.conflict_txid = m.conflict_txid
  <2> DEFINE acks == Cli!Verdicts(Cli!Mine(t), "MSG_COMMIT_ACK")
             rollbacks == Cli!Verdicts(Cli!Mine(t), "MSG_ROLLED_BACK_BY_SERVER")
             state == IF Cli!LastOf(Cli!Mine(t)).type = "MSG_COMMIT_ACK" THEN "COMMITTED"
                      ELSE "ROLLED_BACK_BY_SERVER"
             commit_ts == IF acks = {} THEN tx.commit_ts ELSE Cli!LastOf(acks).commit_ts
             conflict_txid == IF rollbacks = {} THEN tx.conflict_txid
                              ELSE Cli!LastOf(rollbacks).conflict_txid
  <2>1. new = [tx EXCEPT !.state = state, !.commit_ts = commit_ts,
                         !.conflict_txid = conflict_txid]
    BY <1>1, <1>8 DEF Cli!AfterVerdicts
  <2>2. /\ m.type = "MSG_COMMIT_ACK" => acks = Cli!Mine(t) /\ rollbacks = {}
        /\ m.type = "MSG_ROLLED_BACK_BY_SERVER" => acks = {} /\ rollbacks = Cli!Mine(t)
    BY <1>6 DEF Cli!Verdicts
  <2>3. /\ m.type = "MSG_COMMIT_ACK"
             => state = "COMMITTED" /\ commit_ts = m.commit_ts
                /\ conflict_txid = tx.conflict_txid
        /\ m.type = "MSG_ROLLED_BACK_BY_SERVER"
             => state = "ROLLED_BACK_BY_SERVER" /\ commit_ts = tx.commit_ts
                /\ conflict_txid = m.conflict_txid
    BY <1>1, <1>4, <1>5, <2>2
  <2> HIDE DEF state, commit_ts, conflict_txid
  <2> QED BY <1>2, <2>1, <2>3 DEF CliP!ClientTx
<1>10. /\ client_transactions'[t] = new /\ UNCHANGED transactions
       /\ client_transactions' = [client_transactions EXCEPT ![t] = new]
  BY <1>1, <1>8 DEF ClientStep, serverVars, SysInv, CliP!CInv, CliP!Types, Cli!Becomes
<1>11. new.state \in {"COMMITTED", "ROLLED_BACK_BY_SERVER"}
  BY <1>6, <1>9
<1>12. Taken(t)' = Taken(t) + 1 /\ Sent(t)' = Sent(t)
  <2>1. Taken(t)' = tx.completed_puts + 2 /\ Sent(t)' = Len(tx.requests) + 2
    BY <1>9, <1>10, <1>11 DEF Taken, Sent
  <2> QED BY <1>2, <1>3, <2>1
<1>13. SameVerdict(t)'
  <2>1. SameVerdict(t)
    BY DEF SysInv, Conversations, Conversation
  <2>2. ServerTx(t)' = ServerTx(t) /\ Srv!Committed' = Srv!Committed
    BY <1>9, <1>10 DEF ServerTx, Srv!Committed
  <2>3. CASE m.type = "MSG_COMMIT_ACK"
    BY <1>1, <1>7, <1>9, <1>10, <2>1, <2>2, <2>3
       DEF SameVerdict, Cli!Ended, UNDEFINED_TS, UNDEFINED_TX_ID, Known
  <2>4. CASE m.type = "MSG_ROLLED_BACK_BY_SERVER"
    BY <1>1, <1>7, <1>9, <1>10, <2>1, <2>2, <2>4
       DEF SameVerdict, Cli!Ended, UNDEFINED_TS, UNDEFINED_TX_ID, Known
  <2> QED BY <1>6, <2>3, <2>4
<1> QED BY <1>1, <1>2, <1>6, <1>9, <1>10, <1>12, <1>13, ReadTickInv DEF Count, Cli!NothingSent

\* A transaction starts: its id is new, so that nothing on its way and no
\* transaction of the server has it.
LEMMA SendStartInv ==
  ASSUME SysInv, ClientStep, NEW t \in ClientTxs, Cli!SendStart(t)
  PROVE  SysInv'
<1> DEFINE tx == client_transactions[t]
<1>1. /\ phase = "on_tick" /\ Cli!Ticks(t) /\ tx.state = "NOT_STARTED"
      /\ Cli!Becomes(t, [Cli!WithParticipant(tx) EXCEPT !.state = Cli!Progress(@)])
      /\ outbox' = Append(outbox, Cli!MsgStart(on_tick_of, Cli!coordinator, next_tx_id + 1))
      /\ client_failure' = client_failure
  BY DEF ClientStep, Cli!SendStart, Cli!Starts
<1>2. /\ tx \in CliP!ClientTx /\ tx.completed_puts = 0 /\ ~Known(t) /\ tx.requests = <<>>
      /\ next_tx_id \in Nat
  BY <1>1, ClientFacts, OwnIds DEF SysInv
<1>3. PICK id : id = next_tx_id + 1
  OBVIOUS
<1>4. id \in TxIDs /\ id # UNDEFINED_TX_ID
  BY <1>2, <1>3, UndefinedTxIsNoTx DEF SysInv, IdsSuffice
<1>5. \A u \in ClientTxs : client_transactions[u].txid # id
  <2> SUFFICES ASSUME NEW u \in ClientTxs, client_transactions[u].txid = id PROVE FALSE
    OBVIOUS
  <2>1. Known(u)
    BY <1>4 DEF Known
  <2>2. client_transactions[u].txid \in 1..next_tx_id
    BY <2>1, ClientFacts DEF SysInv
  <2> QED BY <1>2, <1>3, <2>2
<1>6. transactions[id].state = "NOT_STARTED" /\ \A m \in InFlight : m.txid # id
  BY <1>4, <1>5 DEF SysInv, NoStrangers
<1>7. PICK new : new = [Cli!WithParticipant(tx) EXCEPT !.state = Cli!Progress(@)]
  OBVIOUS
<1>8. /\ new.state = "START_SENT" /\ new.txid = id /\ new.requests = tx.requests
      /\ new.completed_puts = 0 /\ new.spec = tx.spec /\ new.read_ts = tx.read_ts
      /\ new.commit_ts = tx.commit_ts /\ new.conflict_txid = tx.conflict_txid
  BY <1>1, <1>2, <1>3, <1>7 DEF Cli!WithParticipant, CliP!ClientTx, Cli!Progress
<1>9. PICK start : start = MsgStart(on_tick_of, Server, id)
  OBVIOUS
<1>10. /\ outbox' = Append(outbox, start) /\ start.txid = id /\ start.destination = Server
       /\ on_tick_of \in Clients /\ ClientOf(t) = on_tick_of /\ start \in Requests
  <2>1. on_tick_of \in Clients /\ ClientOf(t) = on_tick_of /\ Cli!coordinator = Server
    BY <1>1, Ticked, Received
  <2> QED BY <1>1, <1>3, <1>4, <1>9, <2>1 DEF Cli!MsgStart, MsgStart, Requests
<1>11. /\ client_transactions'[t] = new /\ UNCHANGED transactions
       /\ client_transactions' = [client_transactions EXCEPT ![t] = new]
  BY <1>1, <1>7 DEF ClientStep, serverVars, SysInv, CliP!CInv, CliP!Types, Cli!Becomes
<1>12. outbox \in Seq(CliP!ClientMessages)
  BY DEF SysInv, CliP!CInv, CliP!Types
<1>13. /\ UNCHANGED <<batch, todo, scheduled, received>>
       /\ Incoming' = Incoming /\ Outgoing' = Outgoing
       /\ Elements(outbox)' = Elements(outbox) \union {start}
  <2>1. UNCHANGED <<batch, todo, scheduled>> /\ Incoming' = Incoming /\ Outgoing' = Outgoing
    BY DEF ClientStep, serverVars, runtimeVars, Incoming, Outgoing, Run!InInboxes, Run!InQueue
  <2>2. received' = received
    BY <1>1, Ticked
  <2>3. Elements(outbox)' = Elements(outbox) \union {start}
    BY <1>10, <1>12 DEF Elements
  <2> QED BY <2>1, <2>2, <2>3
<1>14. /\ \A m \in Incoming \union Outgoing : m.txid # id
       /\ \A m \in {batch[i] : i \in todo} \union Elements(scheduled) : m.txid # id
       /\ \A m \in Elements(outbox) \union Elements(received) : m.txid # id
  BY <1>6 DEF InFlight
<1>15. ReadyRequests(t)' = {} /\ SentRequests(t)' = {start}
  BY <1>8, <1>10, <1>11, <1>13, <1>14 DEF ReadyRequests, SentRequests, RequestsOf, Elements
<1>16. ReadyReplies(t)' = {} /\ SentReplies(t)' = {}
  <2>1. Elements(received)' = Elements(received) /\ Elements(scheduled)' = Elements(scheduled)
    BY <1>13
  <2> QED BY <1>8, <1>11, <1>13, <1>14, <2>1 DEF ReadyReplies, SentReplies, RepliesOf
<1>17. /\ Sent(t)' = 1 /\ Taken(t)' = 0 /\ Handled(t)' = 0 /\ ServerTx(t)' = transactions[id]
       /\ transactions[id].puts = <<>>
  BY <1>4, <1>6, <1>8, <1>11, ServerFacts DEF Sent, Taken, Handled, ServerTx, Known, SysInv
<1>18. RequestsInOrder(t)'
  <2>1. start = Request(t, 1)'
    BY <1>8, <1>9, <1>10, <1>11 DEF Request
  <2>2. \A n : n = 1 => start = Request(t, n)'
    BY <2>1
  <2>3. start = Request(t, Sent(t))'
    BY <1>17, <2>2
  <2> QED BY <1>15, <1>17, <2>3 DEF RequestsInOrder, Count
<1>19. RepliesInOrder(t)'
  BY <1>15, <1>16, <1>17 DEF RepliesInOrder, Count
<1>20. SamePuts(t)'
  BY <1>2, <1>8, <1>11, <1>17 DEF SamePuts
<1>21. SameVerdict(t)'
  BY <1>1, <1>6, <1>8, <1>11, <1>17
     DEF SysInv, Conversations, Conversation, SameVerdict, Cli!Ended, UNDEFINED_TS, UNDEFINED_TX_ID
<1>22. Conversation(t)'
  BY <1>18, <1>19, <1>20, <1>21 DEF Conversation
<1>23. PICK msgs : msgs = <<start>>
  OBVIOUS
<1>24. /\ msgs \in Seq(Requests) /\ outbox' = outbox \o msgs
       /\ \A i \in DOMAIN msgs : msgs[i].txid = id
  BY <1>10, <1>12, <1>23
<1>25. \A i \in DOMAIN msgs : msgs[i].txid = new.txid /\ new.txid # UNDEFINED_TX_ID
  BY <1>4, <1>8, <1>24
<1>26. /\ Cli!Ticks(t) /\ client_failure' = client_failure
       /\ Known(t) => new.txid = client_transactions[t].txid
  BY <1>1, <1>2
<1>27. client_transactions' = [client_transactions EXCEPT ![t] = new]
  BY <1>11
<1> HIDE DEF tx
<1> QED BY <1>22, <1>24, <1>25, <1>26, <1>27, TickInv

\* An open transaction takes the answer to the first of its puts that is not
\* completed, if there is one.
LEMMA Acknowledged ==
  ASSUME SysInv, phase = "on_tick", NEW t \in ClientTxs, Cli!Ticks(t),
         NEW tx, tx = client_transactions[t], tx.state = "OPEN",
         NEW acked, acked = Cli!CompleteRequests(t)
  PROVE  /\ acked \in CliP!ClientTx /\ CliP!RequestsAreSpec(acked) /\ CliP!CountIsRight(acked)
         /\ DOMAIN acked.requests = DOMAIN tx.requests /\ Len(acked.requests) = Len(tx.requests)
         /\ acked.next_put = tx.next_put
         /\ acked.completed_puts = tx.completed_puts + Count(ReadyReplies(t))
         /\ acked.completed_puts \in Nat /\ acked.completed_puts <= Len(tx.requests)
         /\ \A i \in DOMAIN tx.requests :
              /\ acked.requests[i].key = tx.requests[i].key
              /\ acked.requests[i].value = tx.requests[i].value
              /\ acked.requests[i].msg_id = tx.requests[i].msg_id
              /\ acked.requests[i].status = "REQUEST_COMPLETED" <=> i <= acked.completed_puts
         /\ acked.spec = tx.spec /\ acked.state = "OPEN" /\ acked.txid = tx.txid
         /\ acked.conflict_txid = tx.conflict_txid
         /\ acked.read_ts = tx.read_ts /\ acked.commit_ts = tx.commit_ts
<1> DEFINE n == Len(tx.requests)
           answered == Cli!Answered(t)
           k == tx.completed_puts + 1
<1>1. /\ tx \in CliP!ClientTx /\ n \in Nat /\ DOMAIN tx.requests = 1..n
      /\ tx.completed_puts \in Nat /\ tx.requests \in Seq(CliP!Request)
  BY ClientFacts DEF SysInv
<1>2. /\ CliP!Types /\ CliP!CountIsRight(tx) /\ CliP!RequestsAreSpec(tx)
  BY DEF SysInv, CliP!CInv
<1>3. Taken(t) = k /\ Sent(t) = n + 1
  BY DEF Taken, Sent
<1>4. /\ \A i \in DOMAIN tx.requests :
           /\ tx.requests[i].status = "REQUEST_COMPLETED" <=> i <= tx.completed_puts
           /\ tx.requests[i].status \in {"REQUEST_START", "REQUEST_COMPLETED"}
  <2>1. \A i \in DOMAIN tx.requests : tx.requests[i] \in CliP!Request
    BY <1>1
  <2>2. SamePuts(t)
    BY DEF SysInv, Conversations, Conversation
  <2> QED BY <2>1, <2>2 DEF SamePuts, CliP!Request
<1>5. /\ ReadyReplies(t) = {} => answered = {}
      /\ ReadyReplies(t) # {} => answered = {k} /\ k <= n
  <2>1. ASSUME ReadyReplies(t) = {} PROVE answered = {}
    <3>1. Cli!Mine(t) = {}
      BY <2>1, Received
    <3> QED BY <3>1 DEF Cli!Answered, Cli!Replied
  <2>2. ASSUME ReadyReplies(t) # {} PROVE answered = {k} /\ k <= n
    <3>1. PICK j \in Cli!Mine(t) : TRUE
      BY <2>2, Received
    <3>2. PICK m : m = received[j]
      OBVIOUS
    <3>3. \A i \in Cli!Mine(t) : received[i] = m
      <4>1. ReadyReplies(t) = {received[i] : i \in Cli!Mine(t)}
        BY Ticked
      <4>2. \A o, p \in ReadyReplies(t) : o = p
        BY DEF SysInv, Conversations, Conversation, RepliesInOrder
      <4> QED BY <3>2, <4>1, <4>2
    <3>4. IsReply(t, k + 1, m) /\ k + 1 <= Sent(t) /\ m.source = Cli!coordinator
      BY <1>3, <3>1, <3>2, Received
    <3>5. k + 1 \in Nat \ {0} /\ k + 1 # 1 /\ (k + 1) - 1 = k /\ k \in 1..n
      <4>1. k + 1 <= n + 1
        BY <1>3, <3>4
      <4> HIDE DEF n
      <4> QED BY <1>1, <4>1
    <3>6. m.type = "MSG_PUT_REPLY" /\ m.msg_id = tx.requests[k].msg_id
      BY <1>1, <3>4, <3>5, ReplyTypes
    <3>7. Cli!Replied(t, "MSG_PUT_REPLY") = Cli!Mine(t)
      BY <3>3, <3>4, <3>6 DEF Cli!Replied
    <3>8. {received[i].msg_id : i \in Cli!Replied(t, "MSG_PUT_REPLY")} = {tx.requests[k].msg_id}
      BY <3>1, <3>3, <3>6, <3>7
    <3>9. answered = {i \in DOMAIN tx.requests : /\ tx.requests[i].msg_id = tx.requests[k].msg_id
                                                 /\ tx.requests[i].status = "REQUEST_START"}
      BY <3>8 DEF Cli!Answered
    <3>10. \A i \in DOMAIN tx.requests : tx.requests[i].msg_id = tx.requests[k].msg_id <=> i = k
      BY <1>1, <3>5, OwnIds DEF SysInv
    <3>11. tx.requests[k].status = "REQUEST_START"
      BY <1>1, <1>4, <3>5
    <3> HIDE DEF k
    <3> QED BY <1>1, <3>5, <3>9, <3>10, <3>11
  <2> QED BY <2>1, <2>2
<1>6. Cardinality(answered) = Count(ReadyReplies(t))
  BY <1>5, FS_EmptySet, FS_Singleton DEF Count
<1>7. /\ acked \in CliP!ClientTx /\ CliP!CountIsRight(acked)
      /\ DOMAIN acked.requests = DOMAIN tx.requests /\ Len(acked.requests) = n
      /\ \A i \in DOMAIN tx.requests :
           /\ acked.requests[i].key = tx.requests[i].key
           /\ acked.requests[i].value = tx.requests[i].value
           /\ acked.requests[i].msg_id = tx.requests[i].msg_id
           /\ acked.requests[i].status = IF i \in answered THEN "REQUEST_COMPLETED"
                                         ELSE tx.requests[i].status
      /\ acked.completed_puts = tx.completed_puts + Count(ReadyReplies(t))
      /\ acked.spec = tx.spec /\ acked.state = "OPEN" /\ acked.txid = tx.txid
      /\ acked.next_put = tx.next_put /\ acked.conflict_txid = tx.conflict_txid
      /\ acked.read_ts = tx.read_ts /\ acked.commit_ts = tx.commit_ts
  <2>1. acked = CliP!CompleteRequests(t) /\ answered = CliP!Answered(t)
        /\ CliP!Cardinality(answered) = Count(ReadyReplies(t))
    BY <1>6, ClientOperatorsAre
  <2> HIDE DEF answered
  <2> QED BY <1>2, <2>1, CliP!Completion, ClientAssumptions
<1>8. CliP!RequestsAreSpec(acked)
  BY <1>2, <1>7 DEF CliP!RequestsAreSpec
<1>9. acked.completed_puts \in Nat /\ acked.completed_puts <= n
  <2>1. tx.completed_puts <= n
    BY ClientFacts DEF SysInv
  <2> QED BY <1>1, <1>5, <1>7, <2>1 DEF Count
<1>10. ASSUME NEW i \in DOMAIN tx.requests
       PROVE  acked.requests[i].status = "REQUEST_COMPLETED" <=> i <= acked.completed_puts
  <2>1. CASE ReadyReplies(t) = {}
    <3>1. acked.completed_puts = tx.completed_puts /\ i \notin answered
      BY <1>1, <1>5, <1>7, <2>1 DEF Count
    <3> HIDE DEF answered
    <3> QED BY <1>4, <1>7, <3>1
  <2>2. CASE ReadyReplies(t) # {}
    <3>1. acked.completed_puts = k /\ (i \in answered <=> i = k)
      BY <1>5, <1>7, <2>2 DEF Count
    <3> HIDE DEF answered
    <3> QED BY <1>1, <1>4, <1>7, <3>1
  <2> QED BY <2>1, <2>2
<1> HIDE DEF answered
<1> QED BY <1>7, <1>8, <1>9, <1>10

\* After the answer the transaction says what it has to say next, if anything.
LEMMA SpeakInv ==
  ASSUME SysInv, ClientStep, NEW t \in ClientTxs, Cli!Ticks(t),
         NEW tx, tx = client_transactions[t], tx.state = "OPEN",
         NEW acked, acked = Cli!CompleteRequests(t),
         NEW done, Cli!Becomes(t, done),
         GoesOn(tx, acked, done), NEW new, Says(t, new), client_failure' = client_failure
  PROVE  SysInv'
<1> DEFINE n == Len(tx.requests)
<1>1. /\ phase = "on_tick" /\ UNCHANGED transactions
      /\ client_transactions'[t] = done
  BY DEF ClientStep, serverVars, SysInv, CliP!CInv, CliP!Types, Cli!Becomes
<1>s. /\ done.txid = tx.txid /\ done.spec = tx.spec
      /\ done.completed_puts = acked.completed_puts
      /\ done.read_ts = tx.read_ts /\ done.commit_ts = tx.commit_ts
      /\ done.conflict_txid = tx.conflict_txid
      /\ done.state \in {"OPEN", "COMMIT_SENT"}
      /\ done.state = "COMMIT_SENT" => tx.spec.action = "COMMIT"
  BY DEF GoesOn
<1>d. /\ Len(tx.requests) <= Len(done.requests)
      /\ DOMAIN tx.requests \subseteq DOMAIN done.requests
      /\ \A i \in DOMAIN done.requests : i \notin DOMAIN tx.requests
           => i = Len(tx.requests) + 1 /\ done.requests[i].status = "REQUEST_START"
  BY DEF GoesOn, Follows
<1>2. /\ n \in Nat /\ DOMAIN tx.requests = 1..n /\ Known(t) /\ tx.completed_puts \in Nat
      /\ tx.txid # UNDEFINED_TX_ID
  BY ClientFacts DEF SysInv, Known
<1>3. /\ acked.completed_puts = tx.completed_puts + Count(ReadyReplies(t))
      /\ acked.completed_puts \in Nat /\ acked.completed_puts <= n
      /\ \A i \in DOMAIN tx.requests :
           /\ acked.requests[i].key = tx.requests[i].key
           /\ acked.requests[i].value = tx.requests[i].value
           /\ acked.requests[i].msg_id = tx.requests[i].msg_id
           /\ acked.requests[i].status = "REQUEST_COMPLETED" <=> i <= acked.completed_puts
  BY <1>1, Acknowledged
<1>r. ASSUME NEW i \in DOMAIN tx.requests
      PROVE  /\ done.requests[i].key = tx.requests[i].key
             /\ done.requests[i].value = tx.requests[i].value
             /\ done.requests[i].msg_id = tx.requests[i].msg_id
             /\ done.requests[i].status = "REQUEST_COMPLETED" <=> i <= done.completed_puts
  <2>1. done.requests[i] = acked.requests[i] /\ done.completed_puts = acked.completed_puts
    BY DEF GoesOn
  <2>2. /\ acked.requests[i].key = tx.requests[i].key
        /\ acked.requests[i].value = tx.requests[i].value
        /\ acked.requests[i].msg_id = tx.requests[i].msg_id
        /\ acked.requests[i].status = "REQUEST_COMPLETED" <=> i <= acked.completed_puts
    BY <1>3
  <2> QED BY <2>1, <2>2
<1>4. Sent(t) = n + 1 /\ Taken(t) = tx.completed_puts + 1
  BY DEF Sent, Taken
<1>5. Taken(t)' = Taken(t) + Count(ReadyReplies(t))
  <2>1. Taken(t)' = acked.completed_puts + 1
    BY <1>1, <1>s DEF Taken
  <2>2. Count(ReadyReplies(t)) \in Nat
    BY DEF Count
  <2> QED BY <1>2, <1>3, <1>4, <2>1, <2>2
<1>6. RequestsInOrder(t)' /\ RepliesInOrder(t)'
  <2>1. DOMAIN tx.requests \subseteq DOMAIN done.requests
    BY <1>d
  <2>2. \A i \in DOMAIN done.requests : i < Sent(t) => i \in DOMAIN tx.requests
    BY <1>2, <1>4, <1>d
  <2>3. \A i \in DOMAIN tx.requests : /\ done.requests[i].key = tx.requests[i].key
                                      /\ done.requests[i].value = tx.requests[i].value
                                      /\ done.requests[i].msg_id = tx.requests[i].msg_id
    BY <1>r
  <2>4. PICK old : old = tx.requests
    OBVIOUS
  <2>5. PICK now : now = done.requests
    OBVIOUS
  <2>6. client_transactions[t].requests = old /\ client_transactions'[t].requests = now
    BY <1>1, <2>4, <2>5
  <2>7. /\ DOMAIN old \subseteq DOMAIN now
        /\ \A i \in DOMAIN now : i < Sent(t) => i \in DOMAIN old
        /\ \A i \in DOMAIN old : /\ now[i].key = old[i].key /\ now[i].value = old[i].value
                                 /\ now[i].msg_id = old[i].msg_id
    BY <2>1, <2>2, <2>3, <2>4, <2>5
  <2>8. client_transactions'[t].txid = client_transactions[t].txid
    BY <1>1, <1>s
  <2> QED BY <1>2, <1>5, <2>6, <2>7, <2>8, TickInOrder
<1>7. ServerTx(t)' = ServerTx(t)
  BY <1>1, <1>s DEF ServerTx
<1>8. SamePuts(t)'
  <2>1. /\ Len(ServerTx(t).puts) <= n
        /\ \A i \in DOMAIN ServerTx(t).puts :
             ServerTx(t).puts[i] = [key |-> tx.requests[i].key, value |-> tx.requests[i].value]
    BY <1>2 DEF SysInv, Conversations, Conversation, SamePuts
  <2>2. Len(ServerTx(t).puts) \in Nat /\ DOMAIN ServerTx(t).puts = 1..Len(ServerTx(t).puts)
    BY <1>2, Progress, ServerFacts DEF SysInv, ServerTx
  <2>3. Len(ServerTx(t).puts) <= Len(done.requests)
    BY <1>2, <1>d, <2>1, <2>2
  <2>4. ASSUME NEW i \in DOMAIN ServerTx(t).puts
        PROVE  ServerTx(t).puts[i]
                 = [key |-> done.requests[i].key, value |-> done.requests[i].value]
    <3>1. i \in DOMAIN tx.requests
      BY <1>2, <2>1, <2>2
    <3>2. done.requests[i].key = tx.requests[i].key /\ done.requests[i].value = tx.requests[i].value
      BY <1>r, <3>1
    <3> QED BY <2>1, <3>2
  <2>5. ASSUME NEW i \in DOMAIN done.requests
        PROVE  done.requests[i].status = "REQUEST_COMPLETED" <=> i <= done.completed_puts
    <3>1. CASE i \in DOMAIN tx.requests
      BY <1>r, <3>1
    <3>2. CASE i \notin DOMAIN tx.requests
      <4>1. i = n + 1 /\ done.requests[i].status = "REQUEST_START"
        BY <1>d, <3>2
      <4>2. ~(i <= done.completed_puts)
        BY <1>2, <1>3, <1>s, <4>1
      <4> QED BY <4>1, <4>2
    <3> QED BY <3>1, <3>2
  <2>6. Known(t)' => /\ Len(ServerTx(t).puts)' <= Len(done.requests)
                     /\ \A i \in DOMAIN ServerTx(t).puts' : ServerTx(t).puts'[i]
                          = [key |-> done.requests[i].key, value |-> done.requests[i].value]
    BY <1>7, <2>3, <2>4
  <2> QED BY <1>1, <2>5, <2>6 DEF SamePuts
<1>9. SameVerdict(t)'
  <2>1. SameVerdict(t)
    BY DEF SysInv, Conversations, Conversation
  <2>2. ~(ServerTx(t).state \in {"COMMITTED", "ROLLED_BACK_BY_SERVER"})
    BY <1>2, <2>1 DEF SameVerdict, Cli!Ended
  <2> QED BY <1>1, <1>7, <1>s, <2>1, <2>2 DEF SameVerdict, Cli!Ended
<1>10. Conversation(t)'
  BY <1>6, <1>8, <1>9 DEF Conversation
<1>11. /\ \A i \in DOMAIN new : new[i].txid = done.txid /\ done.txid # UNDEFINED_TX_ID
       /\ new \in Seq(Requests) /\ outbox' = outbox \o new
       /\ done.txid = client_transactions[t].txid
  BY <1>2, <1>s DEF Says
<1> QED BY <1>10, <1>11, TickInv DEF Cli!Becomes

\* What one more put makes of a client transaction that has sent n.
HasOneMorePut(new, tx, n, r) ==
    /\ new \in CliP!ClientTx
    /\ new.completed_puts = tx.completed_puts
    /\ tx.completed_puts < Len(tx.spec.puts)
    /\ new.next_put = n + 1
    /\ DOMAIN new.requests = DOMAIN tx.requests \union {n + 1}
    /\ \A i \in DOMAIN tx.requests : new.requests[i] = tx.requests[i]
    /\ r.status = "REQUEST_START" /\ r.msg_id = next_msg_id + 1
    /\ r.key = tx.spec.puts[n + 1].key /\ r.value = tx.spec.puts[n + 1].value
    /\ r.key \in Keys /\ r.value \in Values
    /\ new.conflict_txid = tx.conflict_txid
    /\ new.read_ts = tx.read_ts /\ new.commit_ts = tx.commit_ts
    /\ new.spec = tx.spec /\ new.state = tx.state /\ new.txid = tx.txid

\* What a put adds to an open transaction.
LEMMA PutAdded ==
  ASSUME NEW tx \in CliP!ClientTx, CliP!RequestsAreSpec(tx), CliP!CountIsRight(tx),
         Cli!CanPut(tx), next_msg_id \in Nat, NEW new, new = Cli!AddPut(tx),
         NEW n, n = Len(tx.requests), tx.next_put = n,
         NEW r, r = new.requests[n + 1]
  PROVE  HasOneMorePut(new, tx, n, r)
<1>1. CliP!CanPut(tx) /\ new = CliP!AddPut(tx)
  BY ClientOperatorsAre
<1>2. new \in CliP!ClientTx /\ new.completed_puts = tx.completed_puts
  BY <1>1, CliP!AddedPut, ClientAssumptions
<1>3. tx.completed_puts < Len(tx.spec.puts) /\ new.next_put = tx.next_put + 1
  BY <1>1, CliP!AddedPut, ClientAssumptions
<1>4. /\ DOMAIN new.requests = DOMAIN tx.requests \union {Len(tx.requests) + 1}
      /\ \A i \in DOMAIN tx.requests : new.requests[i] = tx.requests[i]
  BY <1>1, CliP!AddedPut, ClientAssumptions
<1>5. /\ new.requests[Len(tx.requests) + 1].status = "REQUEST_START"
      /\ new.requests[Len(tx.requests) + 1].msg_id = next_msg_id + 1
  BY <1>1, CliP!AddedPut, ClientAssumptions
<1>6. /\ new.requests[Len(tx.requests) + 1].key = tx.spec.puts[new.next_put].key
      /\ new.requests[Len(tx.requests) + 1].value = tx.spec.puts[new.next_put].value
  BY <1>1, CliP!AddedPut, ClientAssumptions
<1>7. /\ tx.spec.puts[new.next_put].key \in Keys
      /\ tx.spec.puts[new.next_put].value \in Values
  BY <1>1, CliP!AddedPut, ClientAssumptions
<1>8. /\ new.conflict_txid = tx.conflict_txid
      /\ new.read_ts = tx.read_ts /\ new.commit_ts = tx.commit_ts
      /\ new.spec = tx.spec /\ new.state = tx.state /\ new.txid = tx.txid
  BY <1>1, CliP!AddedPut, ClientAssumptions
<1> QED BY <1>2, <1>3, <1>4, <1>5, <1>6, <1>7, <1>8 DEF HasOneMorePut

\* An open transaction sends its next put, or the commit, or nothing: never
\* both.
LEMMA TickOpenInv ==
  ASSUME SysInv, ClientStep, NEW t \in ClientTxs, Cli!TickOpen(t)
  PROVE  SysInv'
<1>t. PICK tx : tx = client_transactions[t]
  OBVIOUS
<1>a. PICK acked : acked = Cli!CompleteRequests(t)
  OBVIOUS
<1>b. PICK added : added = IF Cli!CanPut(acked) THEN Cli!AddPut(acked) ELSE acked
  OBVIOUS
<1>c. PICK done : done = IF Cli!CanCommit(added) THEN [added EXCEPT !.state = Cli!Progress(@)]
                         ELSE added
  OBVIOUS
<1>n. PICK n : n = Len(tx.requests)
  OBVIOUS
<1>1. /\ phase = "on_tick" /\ Cli!Ticks(t) /\ tx.state = "OPEN"
      /\ Cli!Becomes(t, done)
      /\ outbox' = outbox
                \o (IF Cli!CanCommit(added)
                    THEN <<Cli!MsgCommit(on_tick_of, Cli!coordinator, added.txid)>> ELSE <<>>)
                \o (IF Cli!CanPut(acked) THEN <<Cli!PutMsg(added)>> ELSE <<>>)
      /\ client_failure' = client_failure
  BY <1>t, <1>n, <1>a, <1>b, <1>c DEF ClientStep, Cli!TickOpen
<1>0. /\ Cli!Ticks(t) /\ tx.state = "OPEN" /\ Cli!Becomes(t, done)
      /\ client_failure' = client_failure
  BY <1>1
<1>2. /\ n \in Nat /\ DOMAIN tx.requests = 1..n /\ Known(t) /\ tx.txid \in TxIDs
      /\ tx.next_put = n /\ outbox \in Seq(CliP!ClientMessages) /\ next_msg_id \in Nat
      /\ Len(tx.spec.puts) \in Nat /\ tx.completed_puts \in Nat
  BY <1>t, <1>n, <1>1, ClientFacts, Progress, OwnIds DEF SysInv, CliP!CInv, CliP!Types
<1>3. /\ on_tick_of \in Clients /\ ClientOf(t) = on_tick_of /\ Cli!coordinator = Server
  BY <1>1, Ticked, Received
<1>4. /\ acked \in CliP!ClientTx /\ CliP!RequestsAreSpec(acked) /\ CliP!CountIsRight(acked)
      /\ DOMAIN acked.requests = 1..n /\ Len(acked.requests) = n
      /\ acked.next_put = n
      /\ acked.completed_puts \in Nat
      /\ acked.spec = tx.spec /\ acked.state = "OPEN" /\ acked.txid = tx.txid
      /\ acked.conflict_txid = tx.conflict_txid
      /\ acked.read_ts = tx.read_ts /\ acked.commit_ts = tx.commit_ts
  BY <1>t, <1>n, <1>a, <1>1, <1>2, Acknowledged
<1>5. Sent(t) = n + 1
  BY <1>t, <1>n, <1>1 DEF Sent
<1>6. client_transactions'[t] = done
  BY <1>1 DEF SysInv, CliP!CInv, CliP!Types, Cli!Becomes
<1>7. CASE Cli!CanPut(acked)
  <2>1. PICK r : r = added.requests[n + 1]
    OBVIOUS
  <2>2. /\ added \in CliP!ClientTx
        /\ added.completed_puts = acked.completed_puts
        /\ acked.completed_puts < Len(tx.spec.puts)
        /\ added.next_put = n + 1
        /\ DOMAIN added.requests = DOMAIN acked.requests \union {n + 1}
        /\ \A i \in DOMAIN acked.requests : added.requests[i] = acked.requests[i]
        /\ r.status = "REQUEST_START" /\ r.msg_id = next_msg_id + 1
        /\ r.key = tx.spec.puts[n + 1].key /\ r.value = tx.spec.puts[n + 1].value
        /\ added.conflict_txid = tx.conflict_txid
        /\ added.read_ts = tx.read_ts /\ added.commit_ts = tx.commit_ts
        /\ added.spec = tx.spec /\ added.state = "OPEN" /\ added.txid = tx.txid
        /\ r.key \in Keys /\ r.value \in Values
    <3>1. added = Cli!AddPut(acked)
      BY <1>b, <1>7
    <3>2. next_msg_id \in Nat
      BY <1>2
    <3>3. /\ acked \in CliP!ClientTx /\ CliP!RequestsAreSpec(acked) /\ CliP!CountIsRight(acked)
          /\ n = Len(acked.requests) /\ acked.next_put = n
      BY <1>4
    <3>4. HasOneMorePut(added, acked, n, r)
      BY <1>7, <2>1, <3>1, <3>2, <3>3, PutAdded
    <3> QED BY <1>4, <3>4 DEF HasOneMorePut
  <2>3. ~Cli!CanCommit(added) /\ done = added
    BY <1>2, <1>4, <1>c, <2>2 DEF Cli!CanCommit
  <2>4. DOMAIN done.requests = 1..(n + 1) /\ Len(done.requests) = n + 1
    <3>1. DOMAIN done.requests = 1..(n + 1)
      <4>1. DOMAIN done.requests = (1..n) \union {n + 1}
        BY <1>4, <2>2, <2>3
      <4>2. (1..n) \union {n + 1} = 1..(n + 1)
        BY <1>2
      <4> QED BY <4>1, <4>2
    <3>2. done.requests \in Seq(CliP!Request)
      BY <2>2, <2>3 DEF CliP!ClientTx
    <3> QED BY <1>2, <3>1, <3>2
  <2>5. PICK m : m = MsgPut(on_tick_of, Server, tx.txid, r.key, r.value, r.msg_id)
    OBVIOUS
  <2>6. Cli!PutMsg(added) = m
    BY <1>3, <2>2, <2>5 DEF Cli!PutMsg, Cli!MsgPut, MsgPut
  <2>7. m \in Requests /\ m.txid = tx.txid
    <3>1. r.msg_id \in MsgIDs
      BY <1>2, <2>2 DEF SysInv, IdsSuffice
    <3> QED BY <1>2, <1>3, <2>2, <2>5, <3>1 DEF MsgPut, Requests
  <2>8. PICK new : new = <<m>>
    OBVIOUS
  <2>9. outbox' = outbox \o new /\ new \in Seq(Requests) /\ Elements(new) = {m}
        /\ \A i \in DOMAIN new : new[i].txid = tx.txid
    BY <1>1, <1>2, <1>7, <2>3, <2>6, <2>7, <2>8 DEF Elements
  <2>10. Sent(t)' = n + 2
    BY <1>2, <1>6, <2>2, <2>3, <2>4 DEF Sent
  <2>11. \A k : k = n + 2 => m = Request(t, k)'
    <3>1. m = MsgPut(ClientOf(t), Server, done.txid, done.requests[n + 1].key,
                     done.requests[n + 1].value, done.requests[n + 1].msg_id)
      BY <1>3, <2>1, <2>2, <2>3, <2>5
    <3>2. TAKE k
    <3>3. HAVE k = n + 2
    <3>4. k # 1 /\ k - 1 = n + 1 /\ n + 1 \in DOMAIN done.requests
      BY <1>2, <2>4, <3>3
    <3> QED BY <1>6, <3>1, <3>4 DEF Request
  <2>12. Sent(t)' = Sent(t) + Count(Elements(new))
    BY <1>2, <1>5, <2>9, <2>10 DEF Count
  <2>13. \A i \in DOMAIN tx.requests : done.requests[i] = acked.requests[i]
    BY <1>2, <1>4, <2>2, <2>3
  <2>14. GoesOn(tx, acked, done)
    <3>1. Follows(tx.requests, done.requests)
      BY <1>n, <1>2, <2>1, <2>2, <2>3, <2>4 DEF Follows
    <3> QED BY <2>2, <2>3, <2>13, <3>1 DEF GoesOn
  <2>15. Says(t, new)
    BY <1>t, <2>9, <2>10, <2>11, <2>12 DEF Says
  <2> QED BY <1>t, <1>a, <1>0, <2>14, <2>15, SpeakInv
<1>8. CASE ~Cli!CanPut(acked) /\ Cli!CanCommit(added)
  <2>1. done = [acked EXCEPT !.state = "COMMIT_SENT"] /\ tx.spec.action = "COMMIT"
    BY <1>b, <1>c, <1>4, <1>8 DEF Cli!Progress, Cli!CanCommit
  <2>2. /\ done.state = "COMMIT_SENT" /\ done.requests = acked.requests
        /\ done.txid = tx.txid /\ done.spec = tx.spec
        /\ done.completed_puts = acked.completed_puts
        /\ done.read_ts = tx.read_ts /\ done.commit_ts = tx.commit_ts
        /\ done.conflict_txid = tx.conflict_txid
    BY <1>4, <2>1 DEF CliP!ClientTx
  <2>3. PICK m : m = MsgCommit(on_tick_of, Server, tx.txid)
    OBVIOUS
  <2>4. m \in Requests /\ m.txid = tx.txid
    BY <1>2, <1>3, <2>3 DEF MsgCommit, Requests
  <2>5. PICK new : new = <<m>>
    OBVIOUS
  <2>6. outbox' = outbox \o new /\ new \in Seq(Requests) /\ Elements(new) = {m}
        /\ \A i \in DOMAIN new : new[i].txid = tx.txid
    <3>1. Cli!MsgCommit(on_tick_of, Cli!coordinator, added.txid) = m
      BY <1>b, <1>3, <1>4, <1>8, <2>3 DEF Cli!MsgCommit, MsgCommit
    <3>2. outbox' = outbox \o <<m>> \o <<>>
      BY <1>1, <1>8, <3>1
    <3> QED BY <1>2, <2>4, <2>5, <3>2 DEF Elements
  <2>7. Sent(t)' = n + 2
    BY <1>4, <1>6, <2>2 DEF Sent
  <2>8. \A k : k = n + 2 => m = Request(t, k)'
    <3>1. TAKE k
    <3>2. HAVE k = n + 2
    <3>3. k # 1 /\ k - 1 \notin DOMAIN done.requests
      BY <1>2, <1>4, <2>2, <3>2
    <3> QED BY <1>3, <1>6, <2>2, <2>3, <3>3 DEF Request
  <2>9. Sent(t)' = Sent(t) + Count(Elements(new))
    BY <1>2, <1>5, <2>6, <2>7 DEF Count
  <2>10. GoesOn(tx, acked, done)
    <3>1. Follows(tx.requests, done.requests)
      BY <1>n, <1>2, <1>4, <2>2 DEF Follows
    <3> QED BY <2>1, <2>2, <3>1 DEF GoesOn
  <2>11. Says(t, new)
    BY <1>t, <2>6, <2>7, <2>8, <2>9 DEF Says
  <2> QED BY <1>t, <1>a, <1>0, <2>10, <2>11, SpeakInv
<1>9. CASE ~Cli!CanPut(acked) /\ ~Cli!CanCommit(added)
  <2>1. done = acked
    BY <1>b, <1>c, <1>9
  <2>2. PICK new : new = <<>>
    OBVIOUS
  <2>3. outbox' = outbox \o new /\ new \in Seq(Requests) /\ Elements(new) = {} /\ DOMAIN new = {}
    BY <1>1, <1>2, <1>9, <2>2 DEF Elements
  <2>4. Sent(t)' = n + 1
    BY <1>4, <1>6, <2>1 DEF Sent
  <2>5. Sent(t)' = Sent(t) + Count(Elements(new))
    BY <1>2, <1>5, <2>3, <2>4 DEF Count
  <2>6. GoesOn(tx, acked, done)
    <3>1. Follows(tx.requests, done.requests)
      BY <1>n, <1>2, <1>4, <2>1 DEF Follows
    <3> QED BY <1>4, <2>1, <3>1 DEF GoesOn
  <2>7. Says(t, new)
    BY <1>t, <2>3, <2>5 DEF Says
  <2> QED BY <1>t, <1>a, <1>0, <2>6, <2>7, SpeakInv
<1> QED BY <1>7, <1>8, <1>9

\* Every tick of a client keeps the invariant.
LEMMA ClientStepInv ==
  ASSUME SysInv, ClientStep
  PROVE  SysInv'
BY WaitInv, SendStartInv, ReceiveStartAckInv, TickOpenInv, ReceiveVerdictInv, TickEndedInv,
   NothingSurprising DEF ClientStep, Cli!ClientStep

-----------------------------------------------------------------------------
(* The invariant holds in every state of the system. *)

\* Before the first tick nobody has said anything.
LEMMA InitSysInv ==
  ASSUME IdsSuffice, ServerIsDiscovered, Init
  PROVE  SysInv
<1>1. Srv!Init /\ Cli!Init /\ Run!Init
  BY DEF Init
<1>2. SrvP!IInv
  BY <1>1, ServerCallIs, SrvP!InitIInv, SameMessages, UndefinedTxIsNoTx
<1>3. CliP!CInv
  BY <1>1, ClientCallIs, CliP!ClientInitCInv, ClientAssumptions
<1>4. RunP!RInv
  BY <1>1, RuntimeIs, RunP!InitRInv, RegistrationsAssumption, MaxTicksAssumption
<1>5. /\ ~active /\ batch = <<>> /\ todo = {} /\ scheduled = <<>> /\ ~failure
      /\ on_tick_of = Cli!NoClient /\ received = <<>> /\ outbox = <<>> /\ ~client_failure
      /\ phase = "begin" /\ ~no_destination /\ messages_queue = {}
      /\ destination_actor_messages = [a \in Clients \union {Server} |-> <<>>]
  BY <1>1 DEF Srv!Init, Cli!Init, Run!Init
<1>6. \A x \in TxIDs : transactions[x].state = "NOT_STARTED"
  BY <1>1 DEF Srv!Init, Srv!NewServerTX
<1>7. \A t \in ClientTxs :
        LET tx == client_transactions[t]
        IN  /\ tx.state = "NOT_STARTED" /\ tx.txid = UNDEFINED_TX_ID
            /\ tx.requests = <<>> /\ tx.completed_puts = 0
            /\ tx.read_ts = UNDEFINED_TS /\ tx.commit_ts = UNDEFINED_TS
            /\ tx.conflict_txid = UNDEFINED_TX_ID
  BY <1>1 DEF Cli!Init, Cli!NewClientTx, Cli!UNDEFINED_TX_ID, UNDEFINED_TX_ID,
              Cli!UNDEFINED_TS, UNDEFINED_TS
<1>8. Incoming = {} /\ Outgoing = {} /\ Elements(<<>>) = {}
  BY <1>5 DEF Incoming, Outgoing, Run!InInboxes, Run!InQueue, Elements
<1>9. {batch[i] : i \in todo} = {}
  BY <1>5
<1>10. ASSUME NEW t \in ClientTxs PROVE Conversation(t)
  <2>1. /\ ReadyRequests(t) = {} /\ SentRequests(t) = {}
        /\ ReadyReplies(t) = {} /\ SentReplies(t) = {}
    BY <1>5, <1>8, <1>9 DEF ReadyRequests, SentRequests, ReadyReplies, SentReplies,
       RequestsOf, RepliesOf
  <2>2. ~Known(t)
    BY <1>7 DEF Known
  <2>3. Sent(t) = 0 /\ Handled(t) = 0 /\ Taken(t) = 0
    BY <1>7, <2>2 DEF Sent, Handled, Taken
  <2>4. RequestsInOrder(t) /\ RepliesInOrder(t)
    BY <2>1, <2>3 DEF RequestsInOrder, RepliesInOrder, Count
  <2>5. SamePuts(t) /\ SameVerdict(t)
    BY <1>7, <2>2 DEF SamePuts, SameVerdict, Cli!Ended
  <2> QED BY <2>4, <2>5 DEF Conversation
<1>11. NoStrangers
  <2>1. InFlight = {}
    BY <1>5, <1>8, <1>9 DEF InFlight
  <2> QED BY <1>6, <2>1 DEF NoStrangers
<1>12. OneRuns
  <2>1. discovery = <<Server>>
    BY <1>1 DEF Cli!Init, ServerIsDiscovered
  <2>2. \A c \in Clients : on_tick_of # c
    BY <1>5, UndefinedActorIsNoClient, SameMessages DEF Cli!NoClient
  <2> QED BY <1>5, <2>1, <2>2 DEF OneRuns, NoFailure
<1>13. SilentBefore /\ OneMessageEach
  BY <1>5 DEF SilentBefore, OneMessageEach
<1> QED BY <1>2, <1>3, <1>4, <1>10, <1>11, <1>12, <1>13 DEF SysInv, Conversations

\* While nothing happens nothing changes.
LEMMA IdleInv ==
  ASSUME SysInv, UNCHANGED vars
  PROVE  SysInv'
<1>1. /\ UNCHANGED <<clock, serverVars>> /\ UNCHANGED clientVars /\ UNCHANGED runtimeVars
      /\ clock' = clock
  BY DEF vars, serverVars
<1>2. SrvP!IInv'
  BY <1>1, ServerKept DEF SysInv
<1>3. CliP!CInv'
  BY <1>1, ClientsKept, ServerFacts DEF SysInv
<1>4. RunP!RInv'
  BY <1>1, RunP!NextRInv, RegistrationsAssumption, MaxTicksAssumption
     DEF SysInv, RunP!vars, RunP!runtimeVars, runtimeVars
<1>5. Incoming' = Incoming /\ Outgoing' = Outgoing
  BY <1>1 DEF runtimeVars, Incoming, Outgoing, Run!InInboxes, Run!InQueue
<1>6. ASSUME NEW t \in ClientTxs PROVE Conversation(t)'
  <2>1. Conversation(t) /\ (client_transactions[t].state = "NOT_STARTED" <=> ~Known(t))
    BY ClientFacts DEF SysInv, Conversations
  <2>2. /\ client_transactions' = client_transactions /\ ServerTx(t)' = ServerTx(t)
        /\ Srv!Committed' = Srv!Committed
    BY <1>1 DEF serverVars, clientVars, ServerTx, Srv!Committed
  <2>3. /\ ReadyRequests(t)' = ReadyRequests(t) /\ SentRequests(t)' = SentRequests(t)
        /\ ReadyReplies(t)' = ReadyReplies(t) /\ SentReplies(t)' = SentReplies(t)
    BY <1>1, <1>5 DEF serverVars, clientVars, ReadyRequests, SentRequests, ReadyReplies,
       SentReplies, RequestsOf, RepliesOf, Elements, Unticked
  <2> QED BY <2>1, <2>2, <2>3, ConversationKept
<1>7. NoStrangers'
  BY <1>1, <1>5 DEF SysInv, NoStrangers, InFlight, Elements, Known, serverVars, clientVars
<1>8. OneRuns'
  BY <1>1 DEF SysInv, OneRuns, NoFailure, serverVars, clientVars, runtimeVars, Cli!NoClient
<1>9. SilentBefore' /\ OneMessageEach'
  BY <1>1, <1>5 DEF SysInv, SilentBefore, OneMessageEach, serverVars, runtimeVars
<1>10. IdsSuffice'
  BY DEF SysInv, IdsSuffice
<1> QED BY <1>2, <1>3, <1>4, <1>6, <1>7, <1>8, <1>9, <1>10 DEF SysInv, Conversations

\* Every step of the system keeps the invariant.
LEMMA NextSysInv == SysInv /\ [Next]_vars => SysInv'
BY RuntimeStepInv, CallServerInv, ServerStepInv, ServerReturnsInv, CallClientInv,
   ClientStepInv, ClientReturnsInv, IdleInv DEF Next

\* So the conversations go on in order in every state of the program.
THEOREM Invariance == IdsSuffice /\ ServerIsDiscovered => (Spec => []SysInv)
<1> SUFFICES ASSUME IdsSuffice, ServerIsDiscovered PROVE Spec => []SysInv
  OBVIOUS
<1>1. Init => SysInv
  BY InitSysInv
<1> QED BY <1>1, NextSysInv, PTL DEF Spec

\* None of the exceptions and asserts of the protocol is reachable.
THEOREM NothingFails == IdsSuffice /\ ServerIsDiscovered => (Spec => []NoFailure)
<1> SUFFICES ASSUME IdsSuffice, ServerIsDiscovered PROVE Spec => []NoFailure
  OBVIOUS
<1>1. SysInv => NoFailure
  BY DEF SysInv, OneRuns
<1> QED BY <1>1, Invariance, PTL

\* No actor is ever handed two messages of one transaction: of what is on its
\* way for a transaction to one side, only one message is ready at a time.
LEMMA OneReadyMessage == SysInv => OneMessagePerTransaction
<1> SUFFICES ASSUME SysInv, NEW a \in DOMAIN destination_actor_messages,
                    NEW i \in DOMAIN destination_actor_messages[a],
                    NEW j \in DOMAIN destination_actor_messages[a],
                    destination_actor_messages[a][i].txid = destination_actor_messages[a][j].txid
             PROVE  i = j
  BY DEF OneMessagePerTransaction
<1> DEFINE m == destination_actor_messages[a][i]
           n == destination_actor_messages[a][j]
<1>1. /\ RunP!RuntimeTypeOK /\ RunP!Inboxes /\ RunP!NoDuplicates
  BY DEF SysInv, RunP!RInv
<1>2. a \in Clients \union {Server}
  BY <1>1 DEF RunP!RuntimeTypeOK
<1>3. m.destination = a /\ n.destination = a
  BY <1>1, <1>2 DEF RunP!Inboxes, RunP!Inbox
<1>4. m \in Incoming /\ n \in Incoming
  BY <1>2 DEF Incoming, Run!InInboxes
<1>5. PICK t \in ClientTxs : Known(t) /\ m.txid = client_transactions[t].txid
  BY <1>4 DEF SysInv, NoStrangers, InFlight
<1>6. Conversation(t)
  BY DEF SysInv, Conversations
<1>7. CASE a = Server
  <2>1. m \in ReadyRequests(t) /\ n \in ReadyRequests(t)
    BY <1>3, <1>4, <1>5, <1>7 DEF ReadyRequests, RequestsOf
  <2>2. m = n
    BY <1>6, <2>1 DEF Conversation, RequestsInOrder
  <2> QED BY <1>1, <1>2, <2>2 DEF RunP!NoDuplicates
<1>8. CASE a # Server
  <2>1. m \in ReadyReplies(t) /\ n \in ReadyReplies(t)
    BY <1>3, <1>4, <1>5, <1>8 DEF ReadyReplies, RepliesOf
  <2>2. m = n
    BY <1>6, <2>1 DEF Conversation, RepliesInOrder
  <2> QED BY <1>1, <1>2, <2>2 DEF RunP!NoDuplicates
<1> QED BY <1>7, <1>8

\* So the order in which the heap delivers equal entries does not matter.
THEOREM DeliveryOrderIsIrrelevant ==
  IdsSuffice /\ ServerIsDiscovered => (Spec => []OneMessagePerTransaction)
<1> SUFFICES ASSUME IdsSuffice, ServerIsDiscovered PROVE Spec => []OneMessagePerTransaction
  OBVIOUS
<1> QED BY OneReadyMessage, Invariance, PTL

\* held are the first of the puts tx has requested, which are the first of its
\* spec, and they include those tx has completed.
Holds(tx, held) ==
    /\ Len(held) \in Nat /\ DOMAIN held = 1..Len(held)
    /\ Len(held) <= Len(tx.requests) /\ Len(tx.requests) <= Len(tx.spec.puts)
    /\ tx.completed_puts \in 0..Len(held)
    /\ \A i \in DOMAIN held :
         /\ held[i] = [key |-> tx.requests[i].key, value |-> tx.requests[i].value]
         /\ held[i] = [key |-> tx.spec.puts[i].key, value |-> tx.spec.puts[i].value]
    /\ tx.state \in {"COMMIT_SENT"} \union Cli!Ended => Len(held) = Len(tx.spec.puts)

\* What the server holds of a transaction, in the words of its spec.
LEMMA HeldPuts ==
  ASSUME SysInv, NEW t \in ClientTxs, Known(t),
         NEW tx, tx = client_transactions[t],
         NEW held, held = ServerTx(t).puts
  PROVE  tx.txid \in TxIDs /\ Holds(tx, held)
<1>1. /\ Len(tx.requests) \in Nat /\ DOMAIN tx.requests = 1..Len(tx.requests)
      /\ Len(tx.spec.puts) \in Nat
      /\ Len(tx.requests) <= Len(tx.spec.puts)
      /\ tx.completed_puts \in Nat /\ tx.completed_puts <= Len(tx.requests)
      /\ tx.state \in Cli!ClientTXState /\ tx.state # "NOT_STARTED"
      /\ tx.state \in {"NOT_STARTED", "START_SENT"} => tx.requests = <<>>
      /\ tx.state \in {"COMMIT_SENT"} \union Cli!Ended
           => tx.completed_puts = Len(tx.spec.puts)
  BY ClientFacts DEF SysInv
<1>2. tx.txid \in TxIDs
  BY Progress
<1>3. Len(held) \in Nat /\ DOMAIN held = 1..Len(held)
  BY <1>2, ServerFacts DEF SysInv, ServerTx
<1>4. SamePuts(t) /\ RepliesInOrder(t) /\ SameVerdict(t)
  BY DEF SysInv, Conversations, Conversation
<1>5. /\ Len(held) <= Len(tx.requests)
      /\ \A i \in DOMAIN held :
           held[i] = [key |-> tx.requests[i].key, value |-> tx.requests[i].value]
  BY <1>4 DEF SamePuts
<1>6. CliP!RequestsAreSpec(tx)
  BY DEF SysInv, CliP!CInv
<1>7. ASSUME NEW i \in DOMAIN held
      PROVE  held[i] = [key |-> tx.spec.puts[i].key, value |-> tx.spec.puts[i].value]
  <2>1. i \in DOMAIN tx.requests
    BY <1>1, <1>3, <1>5
  <2>2. tx.requests[i].key = tx.spec.puts[i].key /\ tx.requests[i].value = tx.spec.puts[i].value
    BY <1>6, <2>1 DEF CliP!RequestsAreSpec
  <2>3. held[i] = [key |-> tx.requests[i].key, value |-> tx.requests[i].value]
    BY <1>5
  <2> QED BY <2>2, <2>3
<1>8. tx.completed_puts <= Len(held)
  <2>1. Handled(t) = Taken(t) + Count(ReadyReplies(t)) + Count(SentReplies(t))
    BY <1>4 DEF RepliesInOrder
  <2>2. Handled(t) \in Nat /\ Taken(t) \in Nat
    BY Progress
  <2>3. Handled(t) >= Taken(t)
    BY <2>1, <2>2 DEF Count
  <2>4. CASE tx.state = "START_SENT"
    BY <1>1, <1>3, <2>4
  <2>5. CASE tx.state # "START_SENT"
    <3>1. Taken(t) >= tx.completed_puts + 1
      BY <1>1, <2>5 DEF Taken
    <3>2. CASE Handled(t) = 0
      BY <1>1, <2>2, <2>3, <3>1, <3>2
    <3>3. CASE Handled(t) = Len(held) + 1
      BY <1>1, <1>3, <2>2, <2>3, <3>1, <3>3
    <3>4. CASE ServerTx(t).state \in {"COMMITTED", "ROLLED_BACK_BY_SERVER"}
      BY <1>1, <1>4, <3>4 DEF SameVerdict
    <3>5. ServerTx(t).state \in Srv!ServerTXState
      BY <1>2, ServerFacts DEF SysInv, ServerTx
    <3> QED BY <3>2, <3>3, <3>4, <3>5 DEF Handled, Srv!ServerTXState
  <2> QED BY <2>4, <2>5
<1> QED BY <1>1, <1>2, <1>3, <1>5, <1>7, <1>8 DEF Holds

\* The invariant says that puts arrive in order: told is what is completed,
\* which is the first of what is held.
LEMMA SysInvPutsInOrder == SysInv => PutsInOrder
<1> SUFFICES ASSUME SysInv, NEW t \in ClientTxs, Known(t)
             PROVE  LET puts == client_transactions[t].spec.puts
                        held == ServerTx(t).puts
                        told == Cli!export_results(t).puts
                    IN  /\ Len(held) <= Len(puts)
                        /\ \A i \in DOMAIN held :
                             held[i] = [key |-> puts[i].key, value |-> puts[i].value]
                        /\ \E n \in 0..Len(held) : told = [i \in 1..n |-> held[i]]
                        /\ client_transactions[t].state \in {"COMMIT_SENT"} \union Cli!Ended
                           => Len(held) = Len(puts)
  BY DEF PutsInOrder
<1>1. PICK tx : tx = client_transactions[t]
  OBVIOUS
<1>2. PICK held : held = ServerTx(t).puts
  OBVIOUS
<1>3. PICK done : done = {i \in DOMAIN tx.requests : tx.requests[i].status = "REQUEST_COMPLETED"}
  OBVIOUS
<1>4. /\ Len(held) \in Nat /\ DOMAIN held = 1..Len(held)
      /\ Len(held) <= Len(tx.requests) /\ Len(tx.requests) <= Len(tx.spec.puts)
      /\ tx.completed_puts \in 0..Len(held)
      /\ \A i \in DOMAIN held :
           /\ held[i] = [key |-> tx.requests[i].key, value |-> tx.requests[i].value]
           /\ held[i] = [key |-> tx.spec.puts[i].key, value |-> tx.spec.puts[i].value]
      /\ tx.state \in {"COMMIT_SENT"} \union Cli!Ended => Len(held) = Len(tx.spec.puts)
  <2>1. Holds(tx, held)
    BY <1>1, <1>2, HeldPuts
  <2> QED BY <2>1 DEF Holds
<1>5. /\ Len(tx.requests) \in Nat /\ DOMAIN tx.requests = 1..Len(tx.requests)
      /\ Len(tx.spec.puts) \in Nat
  BY <1>1, ClientFacts DEF SysInv
<1>6. done = 1..tx.completed_puts
  <2>1. \A i \in DOMAIN tx.requests :
           tx.requests[i].status = "REQUEST_COMPLETED" <=> i <= tx.completed_puts
    BY <1>1 DEF SysInv, Conversations, Conversation, SamePuts
  <2> QED BY <1>3, <1>4, <1>5, <2>1
<1>7. Cli!export_results(t).puts
        = [i \in done |-> [key |-> tx.requests[i].key, value |-> tx.requests[i].value]]
  BY <1>1, <1>3 DEF Cli!export_results
<1>8. Cli!export_results(t).puts = [i \in 1..tx.completed_puts |-> held[i]]
  BY <1>4, <1>6, <1>7
<1>9. Len(held) <= Len(tx.spec.puts)
  BY <1>4, <1>5
<1>10. PICK told : told = Cli!export_results(t).puts
  OBVIOUS
<1>11. \E n \in 0..Len(held) : told = [i \in 1..n |-> held[i]]
  <2>1. PICK n \in 0..Len(held) : n = tx.completed_puts
    BY <1>4
  <2>2. told = [i \in 1..n |-> held[i]]
    BY <1>8, <1>10, <2>1
  <2> QED BY <2>2
<1>12. /\ \A i \in DOMAIN held :
            held[i] = [key |-> tx.spec.puts[i].key, value |-> tx.spec.puts[i].value]
       /\ tx.state \in {"COMMIT_SENT"} \union Cli!Ended => Len(held) = Len(tx.spec.puts)
  BY <1>4
<1> QED BY <1>1, <1>2, <1>9, <1>10, <1>11, <1>12

\* The server holds the puts of the spec in their order, whatever became of the
\* messages in between, and the client reports as completed only what it holds.
THEOREM PutsArriveInOrder == IdsSuffice /\ ServerIsDiscovered => (Spec => []PutsInOrder)
<1> SUFFICES ASSUME IdsSuffice, ServerIsDiscovered PROVE Spec => []PutsInOrder
  OBVIOUS
<1> QED BY SysInvPutsInOrder, Invariance, PTL

\* The invariant says that what the client knows is so.
LEMMA SysInvAgreement == SysInv => ClientsAgreeWithServer
<1> SUFFICES ASSUME SysInv, NEW t \in ClientTxs, Known(t),
                    NEW tx, tx = client_transactions[t]
             PROVE  /\ tx.read_ts # UNDEFINED_TS => tx.read_ts = ServerTx(t).read_ts
                    /\ tx.state = "COMMITTED" =>
                         /\ ServerTx(t).state = "COMMITTED"
                         /\ tx.commit_ts = ServerTx(t).commit_ts
                         /\ tx.conflict_txid = UNDEFINED_TX_ID
                    /\ tx.state = "ROLLED_BACK_BY_SERVER" =>
                         /\ ServerTx(t).state = "ROLLED_BACK_BY_SERVER"
                         /\ tx.commit_ts = UNDEFINED_TS
                         /\ transactions[tx.conflict_txid].state = "COMMITTED"
                         /\ tx.conflict_txid # tx.txid
  BY DEF ClientsAgreeWithServer, Cli!export_results
<1>1. SameVerdict(t)
  BY DEF SysInv, Conversations, Conversation
<1>2. ASSUME tx.state = "ROLLED_BACK_BY_SERVER"
      PROVE  /\ ServerTx(t).state = "ROLLED_BACK_BY_SERVER"
             /\ tx.commit_ts = UNDEFINED_TS
             /\ transactions[tx.conflict_txid].state = "COMMITTED"
             /\ tx.conflict_txid # tx.txid
  <2>1. /\ ServerTx(t).state = "ROLLED_BACK_BY_SERVER"
        /\ tx.conflict_txid \in Srv!Committed
        /\ tx.commit_ts = UNDEFINED_TS
    BY <1>1, <1>2 DEF SameVerdict
  <2>2. transactions[tx.conflict_txid].state = "COMMITTED"
    BY <2>1 DEF Srv!Committed
  <2> QED BY <2>1, <2>2 DEF ServerTx
<1> QED BY <1>1, <1>2 DEF SameVerdict

\* What export_results tells of verdicts and timestamps is what the server has
\* decided.
THEOREM ClientsAreToldTheTruth ==
  IdsSuffice /\ ServerIsDiscovered => (Spec => []ClientsAgreeWithServer)
<1> SUFFICES ASSUME IdsSuffice, ServerIsDiscovered PROVE Spec => []ClientsAgreeWithServer
  OBVIOUS
<1> QED BY SysInvAgreement, Invariance, PTL

\* What a client was told it committed is in the store ...
LEMMA CommittedIsStored ==
  ASSUME SysInv, NEW t \in ClientTxs,
         NEW tx, tx = client_transactions[t], tx.state = "COMMITTED",
         NEW i \in DOMAIN tx.spec.puts
  PROVE  \E v \in data[tx.spec.puts[i].key] : v.ts = tx.commit_ts /\ v.txid = tx.txid
<1>1. /\ SrvP!NothingLost /\ SrvP!StoreIsHistory
  BY DEF SysInv, SrvP!IInv, SrvP!History
<1>2. Known(t)
  BY ClientFacts DEF SysInv
<1>3. PICK held : held = ServerTx(t).puts
  OBVIOUS
<1>4. /\ tx.txid \in TxIDs
      /\ Len(held) \in Nat /\ DOMAIN held = 1..Len(held)
      /\ Len(held) = Len(tx.spec.puts)
      /\ \A k \in DOMAIN held :
           held[k] = [key |-> tx.spec.puts[k].key, value |-> tx.spec.puts[k].value]
  <2>1. tx.txid \in TxIDs /\ Holds(tx, held)
    BY <1>2, <1>3, HeldPuts
  <2> QED BY <2>1 DEF Holds, Cli!Ended
<1>5. /\ ServerTx(t).state = "COMMITTED" /\ tx.commit_ts = ServerTx(t).commit_ts
  BY DEF SysInv, Conversations, Conversation, SameVerdict
<1>6. tx.txid \in SrvP!Committed
  BY <1>4, <1>5 DEF ServerTx, SrvP!Committed
<1>7. tx.spec.puts \in Seq(CliP!ClientTxPut)
  <2>1. tx.spec \in Cli!TxSpec
    BY ClientFacts, TxSpecsAssumption DEF SysInv, CliP!ClientTx
  <2> QED BY <2>1, TxSpecIs DEF CliP!TxSpec
<1>8. i \in DOMAIN held /\ tx.spec.puts[i].key \in Keys
  <2>1. DOMAIN tx.spec.puts = 1..Len(tx.spec.puts) /\ tx.spec.puts[i] \in CliP!ClientTxPut
    BY <1>7
  <2> QED BY <1>4, <2>1 DEF CliP!ClientTxPut
<1>9. tx.spec.puts[i].key \in SrvP!PutKeys(transactions[tx.txid].puts)
  <2>1. held[i] = [key |-> tx.spec.puts[i].key, value |-> tx.spec.puts[i].value]
    BY <1>4, <1>8
  <2>2. held[i].key = tx.spec.puts[i].key
    BY <2>1
  <2>3. transactions[tx.txid].puts = held
    BY <1>3 DEF ServerTx
  <2> QED BY <1>8, <2>2, <2>3 DEF SrvP!PutKeys
<1>10. PICK v \in data[tx.spec.puts[i].key] : v.txid = tx.txid
  BY <1>1, <1>6, <1>9 DEF SrvP!NothingLost
<1>11. v.ts = transactions[tx.txid].commit_ts
  <2>1. v.ts = transactions[v.txid].commit_ts
    BY <1>1, <1>8, <1>10 DEF SrvP!StoreIsHistory
  <2> QED BY <1>10, <2>1
<1> QED BY <1>5, <1>10, <1>11 DEF ServerTx

\* ... and what is in the store was committed on request of a client.
LEMMA StoredIsCommitted ==
  ASSUME SysInv, NEW key \in Keys, NEW v \in data[key]
  PROVE  \E t \in ClientTxs :
           LET tx == client_transactions[t]
           IN  /\ tx.txid = v.txid
               /\ tx.spec.action = "COMMIT"
               /\ tx.state \in {"COMMIT_SENT", "COMMITTED"}
               /\ \E i \in DOMAIN tx.spec.puts :
                    tx.spec.puts[i].key = key /\ tx.spec.puts[i].value = v.value
<1>1. /\ v.txid \in SrvP!Committed
      /\ \E k \in DOMAIN transactions[v.txid].puts :
           transactions[v.txid].puts[k] = [key |-> key, value |-> v.value]
  BY DEF SysInv, SrvP!IInv, SrvP!History, SrvP!StoreIsHistory
<1>2. v.txid \in TxIDs /\ transactions[v.txid].state = "COMMITTED"
  BY <1>1 DEF SrvP!Committed
<1>3. PICK t \in ClientTxs : client_transactions[t].txid = v.txid
  BY <1>2 DEF SysInv, NoStrangers
<1>4. PICK tx : tx = client_transactions[t]
  OBVIOUS
<1>5. Known(t)
  BY <1>2, <1>3, UndefinedTxIsNoTx DEF Known
<1>6. /\ tx.spec.action = "COMMIT" /\ tx.state \in {"COMMIT_SENT", "COMMITTED"}
  BY <1>2, <1>3, <1>4, <1>5
     DEF SysInv, Conversations, Conversation, SameVerdict, ServerTx, Cli!Ended
<1>7. PICK held : held = ServerTx(t).puts
  OBVIOUS
<1>8. /\ DOMAIN held = 1..Len(held) /\ Len(held) \in Nat
      /\ Len(held) = Len(tx.spec.puts)
      /\ \A i \in DOMAIN held :
           held[i] = [key |-> tx.spec.puts[i].key, value |-> tx.spec.puts[i].value]
  <2>1. Holds(tx, held)
    BY <1>4, <1>5, <1>7, HeldPuts
  <2> QED BY <1>6, <2>1 DEF Holds, Cli!Ended
<1>9. PICK i \in DOMAIN held : held[i] = [key |-> key, value |-> v.value]
  BY <1>1, <1>3, <1>7 DEF ServerTx
<1>10. i \in DOMAIN tx.spec.puts
  <2>1. tx.spec \in Cli!TxSpec
    BY <1>4, ClientFacts, TxSpecsAssumption DEF SysInv, CliP!ClientTx
  <2>2. tx.spec.puts \in Seq(CliP!ClientTxPut)
    BY <2>1, TxSpecIs DEF CliP!TxSpec
  <2> QED BY <1>8, <1>9, <2>2
<1>11. tx.spec.puts[i].key = key /\ tx.spec.puts[i].value = v.value
  <2>1. held[i] = [key |-> tx.spec.puts[i].key, value |-> tx.spec.puts[i].value]
    BY <1>8, <1>9
  <2> QED BY <1>9, <2>1
<1> QED BY <1>3, <1>4, <1>6, <1>10, <1>11

\* A client that has been told of its commit can rely on it, and nothing gets
\* into the store that no client asked to commit.
THEOREM StoreIsWhatWasCommitted ==
  IdsSuffice /\ ServerIsDiscovered => (Spec => []StoreIsWhatClientsCommitted)
<1> SUFFICES ASSUME IdsSuffice, ServerIsDiscovered
             PROVE  Spec => []StoreIsWhatClientsCommitted
  OBVIOUS
<1>1. ASSUME SysInv PROVE StoreIsWhatClientsCommitted
  <2>1. \A t \in ClientTxs :
          LET tx == client_transactions[t]
          IN  tx.state = "COMMITTED" =>
                \A i \in DOMAIN tx.spec.puts :
                  \E v \in data[tx.spec.puts[i].key] :
                     v.ts = tx.commit_ts /\ v.txid = tx.txid
    BY <1>1, CommittedIsStored
  <2>2. \A key \in Keys : \A v \in data[key] : \E t \in ClientTxs :
          LET tx == client_transactions[t]
          IN  /\ tx.txid = v.txid
              /\ tx.spec.action = "COMMIT"
              /\ tx.state \in {"COMMIT_SENT", "COMMITTED"}
              /\ \E i \in DOMAIN tx.spec.puts :
                   tx.spec.puts[i].key = key /\ tx.spec.puts[i].value = v.value
    BY <1>1, StoredIsCommitted
  <2> QED BY <2>1, <2>2 DEF StoreIsWhatClientsCommitted
<1> QED BY <1>1, Invariance, PTL

\* The requests and replies of every transaction are numbered consecutively and
\* each is where the states of the two sides say.
THEOREM ConversationsInOrder == IdsSuffice /\ ServerIsDiscovered => (Spec => []Conversations)
<1> SUFFICES ASSUME IdsSuffice, ServerIsDiscovered PROVE Spec => []Conversations
  OBVIOUS
<1>1. SysInv => Conversations
  BY DEF SysInv
<1> QED BY <1>1, Invariance, PTL

-----------------------------------------------------------------------------
(* The server of the system keeps the promise of TxServer. *)

\* Every step of the system is, to the server, one of TxServer, called with some
\* requests, or a timestamp that somebody else takes.
LEMMA StepOfServer == SysInv /\ [Next]_vars => [SrvP!Next]_(SrvP!vars)
<1> SUFFICES ASSUME SysInv, [Next]_vars PROVE [SrvP!Next]_(SrvP!vars)
  OBVIOUS
<1> DEFINE Moves == \/ \E msgs \in Seq(Requests) : SrvP!OnTick(msgs)
                    \/ SrvP!ServerStep
                    \/ SrvP!Send
                    \/ SrvP!ClockNext
                    \/ UNCHANGED SrvP!vars
<1>1. Moves => [SrvP!Next]_(SrvP!vars)
  BY DEF SrvP!Next
<1>2. UNCHANGED <<clock, serverVars>> => UNCHANGED SrvP!vars
  BY DEF serverVars, SrvP!vars, SrvP!serverVars
<1>3. ~active /\ clock' = clock + 1 /\ UNCHANGED serverVars => SrvP!ClockNext
  BY DEF serverVars, SrvP!serverVars, SrvP!ClockNext
<1>4. CASE RuntimeStep
  <2>1. Run!RuntimeStep /\ UNCHANGED serverVars
    BY <1>4 DEF RuntimeStep
  <2>2. phase # "on_tick" /\ (clock' = clock \/ clock' = clock + 1)
    BY <2>1, RuntimeFlow
  <2>3. ~active
    BY <2>2, NobodyRuns
  <2> QED BY <1>1, <1>2, <1>3, <2>1, <2>2, <2>3
<1>5. CASE CallServer
  <2>1. /\ Run!Call(Server)
        /\ SrvP!OnTick(destination_actor_messages[Server])
    BY <1>5, ServerCallIs DEF CallServer
  <2>2. destination_actor_messages[Server] \in Seq(Requests)
    BY <2>1, CalledWith
  <2> QED BY <1>1, <2>1, <2>2
<1>6. CASE ServerStep
  BY <1>1, <1>6, ServerStepIs DEF ServerStep
<1>7. CASE ServerReturns
  BY <1>1, <1>7, ServerCallIs DEF ServerReturns
<1>8. ASSUME NEW c \in Clients, CallClient(c) \/ ClientReturns(c)
      PROVE  UNCHANGED <<clock, serverVars>>
  BY <1>8 DEF CallClient, ClientReturns, Run!Call, Run!Return
<1>9. CASE ClientStep
  <2>1. PICK t \in ClientTxs : Cli!Ticks(t)
    BY <1>9 DEF ClientStep, Cli!ClientStep, Cli!DelayStart, Cli!SendStart, Cli!Starts,
       Cli!StartWithoutServer, Cli!AwaitStartAck, Cli!ReceiveStartAck,
       Cli!PutReplyBeforeStartAck, Cli!TickOpen, Cli!AwaitVerdict, Cli!ReceiveVerdict,
       Cli!ReplyAfterCommit, Cli!TickEnded
  <2>2. on_tick_of \in Clients /\ clock' = clock + 1
    BY <2>1 DEF Cli!Ticks, Cli!ts
  <2>3. ~active
    BY <2>2, ServerIsNoClient DEF SysInv, OneRuns
  <2>4. UNCHANGED serverVars
    BY <1>9 DEF ClientStep
  <2> QED BY <1>1, <1>3, <2>2, <2>3, <2>4
<1>10. CASE UNCHANGED vars
  BY <1>1, <1>2, <1>10 DEF vars, serverVars
<1> QED BY <1>1, <1>2, <1>4, <1>5, <1>6, <1>7, <1>8, <1>9, <1>10 DEF Next

\* So the runtime calls the server as TxServer assumes it is called ...
THEOREM ServerInSystem == IdsSuffice /\ ServerIsDiscovered => (Spec => SrvP!Spec)
<1> SUFFICES ASSUME IdsSuffice, ServerIsDiscovered PROVE Spec => SrvP!Spec
  OBVIOUS
<1>1. Init => SrvP!Init
  BY ServerCallIs DEF Init
<1> QED BY <1>1, StepOfServer, Invariance, PTL DEF Spec, SrvP!Spec

\* ... and what the clients get is write-write snapshot isolation.
THEOREM SystemIsSnapshotIsolated ==
  IdsSuffice /\ ServerIsDiscovered => (Spec => SrvP!ImplementsSnapshotIsolation)
<1> SUFFICES ASSUME IdsSuffice, ServerIsDiscovered
             PROVE  Spec => SrvP!ImplementsSnapshotIsolation
  OBVIOUS
<1>1. SrvP!Spec => SrvP!ImplementsSnapshotIsolation
  BY SrvP!ServerImplementsSnapshotIsolation, SameMessages, UndefinedTxIsNoTx
<1>2. Spec => SrvP!Spec
  BY ServerInSystem
<1> QED BY <1>1, <1>2, PTL

=============================================================================
