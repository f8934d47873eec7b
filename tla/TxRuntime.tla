------------------------------ MODULE TxRuntime ------------------------------
(***************************************************************************)
(* The tick simulator every actor runs in (src/src/tx/runtime,             *)
(* src/src/tx/clock, src/src/tx/msg/sent_message.cpp).                       *)
(*                                                                         *)
(* run(ticks) repeats one loop: empty the inboxes, read the clock, move    *)
(* every queued message that is due into the inbox of its destination,     *)
(* then call on_tick of each actor in the order they registered.  An actor *)
(* takes timestamps from the one clock while it runs and may send through  *)
(* its ProxyRuntime before it returns.  If nobody moved the clock the loop *)
(* does.                                                                   *)
(*                                                                         *)
(* messages_queue_ is a binary heap ordered by (delivery, send) timestamps *)
(* only: of entries with equal timestamps any one may come out.  Messages  *)
(* carry unique ids, so the heap is modelled as a set.                     *)
(***************************************************************************)
EXTENDS Integers, Sequences

CONSTANTS
    ActorIDs,       \* registered actors
    Registrations,  \* the orders in which they may have registered
    MaxTicks,       \* the argument of run()
    Messages,       \* what actors may send
    Outboxes        \* what an actor may send in one on_tick when nobody is
                    \* modelled but the runtime: sequences of messages

\* register_actor throws on an id that is registered already.
ASSUME RegistrationsAssumption ==
    \A order \in Registrations :
        /\ order \in Seq(ActorIDs)
        /\ {order[i] : i \in DOMAIN order} = ActorIDs
        /\ \A i, j \in DOMAIN order : order[i] = order[j] => i = j

ASSUME MaxTicksAssumption == MaxTicks \in Nat
ASSUME OutboxesAssumption == Outboxes \subseteq Seq(Messages)

VARIABLES
    clock,                      \* Clock::tm_
    timestamp,                  \* Runtime::timestamp_
    actors,                     \* Runtime::actors_
    messages_queue,             \* Runtime::messages_queue_
    destination_actor_messages, \* the inboxes
    tick,                       \* loop counter of run()
    phase,                      \* where in the loop run() is
    turn,                       \* which actor's turn it is in send_to_actors
    no_destination              \* run() has ended with "no destination"

runtimeVars == <<timestamp, actors, messages_queue, destination_actor_messages,
                 tick, phase, turn, no_destination>>
vars == <<clock, runtimeVars>>

-----------------------------------------------------------------------------
\* msg::SentMessage, none of them from the future.
SentMessage == [send_timestamp : 0..clock, delivery_timestamp : 0..clock, msg : Messages]

\* msg::DeliveredLast: e comes out of the heap no later than f.
NotLater(e, f) ==
    \/ e.delivery_timestamp < f.delivery_timestamp
    \/ /\ e.delivery_timestamp = f.delivery_timestamp
       /\ e.send_timestamp <= f.send_timestamp

\* The entries messages_queue_.top() may return.
Top == {e \in messages_queue : \A f \in messages_queue : NotLater(e, f)}

\* Mutant of Due: a message that is due just now has to wait.
Overdue(e) == e.delivery_timestamp < timestamp

Due(e) == e.delivery_timestamp <= timestamp

Init ==
    /\ clock = 0
    /\ timestamp = 0
    /\ actors \in Registrations
    /\ messages_queue = {}
    /\ destination_actor_messages = [a \in ActorIDs |-> <<>>]
    /\ tick = 0
    /\ phase = "begin"
    /\ turn = 1
    /\ no_destination = FALSE

\* The loop begins: clear_destination_actor_messages, read the clock.
BeginTick ==
    /\ phase = "begin"
    /\ tick < MaxTicks
    /\ destination_actor_messages' = [a \in ActorIDs |-> <<>>]
    /\ timestamp' = clock
    /\ phase' = "deliver"
    /\ UNCHANGED <<clock, actors, messages_queue, tick, turn, no_destination>>

\* Mutant of Deliver: top() without pop().
DeliverTop(e) ==
    /\ phase = "deliver"
    /\ ~no_destination
    /\ e \in Top
    /\ Due(e)
    /\ IF e.msg.destination \in ActorIDs
       THEN /\ destination_actor_messages' =
                 [destination_actor_messages EXCEPT
                    ![e.msg.destination] = Append(@, e.msg)]
            /\ UNCHANGED no_destination
       ELSE /\ no_destination' = TRUE
            /\ UNCHANGED destination_actor_messages
    /\ UNCHANGED <<clock, timestamp, actors, messages_queue, tick, phase, turn>>

\* One iteration of fill_destination_actor_messages.
Deliver(e) ==
    /\ phase = "deliver"
    /\ ~no_destination
    /\ e \in Top
    /\ Due(e)
    /\ messages_queue' = messages_queue \ {e}
    /\ IF e.msg.destination \in ActorIDs
       THEN /\ destination_actor_messages' =
                 [destination_actor_messages EXCEPT
                    ![e.msg.destination] = Append(@, e.msg)]
            /\ UNCHANGED no_destination
       ELSE /\ no_destination' = TRUE
            /\ UNCHANGED destination_actor_messages
    /\ UNCHANGED <<clock, timestamp, actors, tick, phase, turn>>

\* Nothing is due any more: send_to_actors.
SendToActors ==
    /\ phase = "deliver"
    /\ ~no_destination
    /\ \A e \in Top : ~Due(e)
    /\ phase' = "call"
    /\ turn' = 1
    /\ UNCHANGED <<clock, timestamp, actors, messages_queue,
                   destination_actor_messages, tick, no_destination>>

\* on_tick of actor a is called; its inbox is moved out.
Call(a) ==
    /\ phase = "call"
    /\ turn <= Len(actors)
    /\ a = actors[turn]
    /\ destination_actor_messages' = [destination_actor_messages EXCEPT ![a] = <<>>]
    /\ phase' = "on_tick"
    /\ UNCHANGED <<clock, timestamp, actors, messages_queue, tick, turn,
                   no_destination>>

\* Mutant of Sent: the message gets a timestamp from clock_.next().
SentLater(msgs) == {[send_timestamp |-> timestamp, delivery_timestamp |-> clock + 1,
                     msg |-> msgs[i]] : i \in DOMAIN msgs}

\* Runtime::send for each of the messages an actor sends.
Sent(msgs) == {[send_timestamp |-> timestamp, delivery_timestamp |-> clock,
                msg |-> msgs[i]] : i \in DOMAIN msgs}

\* on_tick of actor a sends msgs and returns.
Return(a, msgs) ==
    /\ phase = "on_tick"
    /\ a = actors[turn]
    /\ messages_queue' = messages_queue \union Sent(msgs)
    /\ turn' = turn + 1
    /\ phase' = "call"
    /\ UNCHANGED <<clock, timestamp, actors, destination_actor_messages, tick,
                   no_destination>>

\* Mutants of EndTick: time stands still when no actor took a timestamp, and
\* such a tick does not even count.
EndTickAtSameTime ==
    /\ phase = "call"
    /\ turn > Len(actors)
    /\ tick' = tick + 1
    /\ phase' = "begin"
    /\ UNCHANGED <<clock, timestamp, actors, messages_queue,
                   destination_actor_messages, turn, no_destination>>

EndTickUncounted ==
    /\ phase = "call"
    /\ turn > Len(actors)
    /\ tick' = IF clock = timestamp THEN tick ELSE tick + 1
    /\ phase' = "begin"
    /\ UNCHANGED <<clock, timestamp, actors, messages_queue,
                   destination_actor_messages, turn, no_destination>>

\* The end of the loop: time passes even when no actor did anything.
EndTick ==
    /\ phase = "call"
    /\ turn > Len(actors)
    /\ IF clock = timestamp
       THEN clock' = clock + 1 /\ timestamp' = clock + 1
       ELSE UNCHANGED <<clock, timestamp>>
    /\ tick' = tick + 1
    /\ phase' = "begin"
    /\ UNCHANGED <<actors, messages_queue, destination_actor_messages, turn,
                   no_destination>>

Stopped == (phase = "begin" /\ tick = MaxTicks) \/ no_destination

RuntimeStep ==
    \/ BeginTick
    \/ \E e \in Top : Deliver(e)
    \/ SendToActors
    \/ EndTick

-----------------------------------------------------------------------------
(* The actors, as far as the runtime knows them. *)

\* Clock::next, called by the actor that runs.
TakeTimestamp ==
    /\ phase = "on_tick"
    /\ clock' = clock + 1
    /\ UNCHANGED runtimeVars

InInboxes ==
    UNION {{destination_actor_messages[a][i] : i \in DOMAIN destination_actor_messages[a]} :
             a \in ActorIDs}
InQueue == {e.msg : e \in messages_queue}

\* Each message carries an id of its own from the Generator.
Fresh(msgs) ==
    /\ \A i \in DOMAIN msgs : msgs[i] \notin InInboxes \union InQueue
    /\ \A i, j \in DOMAIN msgs : msgs[i] = msgs[j] => i = j

\* on_tick of a sends new messages and returns.
ActorSends(a, msgs) == Fresh(msgs) /\ Return(a, msgs)

Next ==
    \/ RuntimeStep
    \/ \E a \in ActorIDs : Call(a)
    \/ TakeTimestamp
    \/ \E a \in ActorIDs, msgs \in Outboxes : ActorSends(a, msgs)

Spec == Init /\ [][Next]_vars

-----------------------------------------------------------------------------
(* Properties of the runtime, whatever the actors do. *)

\* The state of the runtime stays in its domain, and nothing that is queued or
\* delivered comes from the future.
RuntimeTypeOK ==
    /\ clock \in Nat
    /\ timestamp \in 0..clock
    /\ actors \in Registrations
    /\ messages_queue \subseteq SentMessage
    /\ destination_actor_messages \in [ActorIDs -> Seq(Messages)]
    /\ tick \in 0..MaxTicks
    /\ phase \in {"begin", "deliver", "call", "on_tick"}
    /\ turn \in 1..(Len(actors) + 1)
    /\ no_destination \in BOOLEAN

LN == INSTANCE LockstepNetwork WITH
    incoming <- InInboxes \union (IF phase = "deliver" THEN InQueue ELSE {}),
    outgoing <- IF phase = "deliver" THEN {} ELSE InQueue

\* Timestamps and heap order never hold a message back or lose one: what is
\* sent in a tick arrives in the next tick, all of it.
ImplementsLockstepNetwork == LN!Spec

\* A message is in one place once: a queue that is drained into inboxes that
\* are emptied at other moments neither duplicates nor strands a message.
NoDuplicates ==
    /\ \A a \in ActorIDs : \A i, j \in DOMAIN destination_actor_messages[a] :
         destination_actor_messages[a][i] = destination_actor_messages[a][j] => i = j
    /\ InInboxes \intersect InQueue = {}
    /\ phase = "begin" => InInboxes = {}

\* Every tick runs at a later timestamp than the one before, also when no
\* actor asked the clock.
TimeAdvances ==
    [][tick' = tick + 1 => clock' > timestamp]_vars
=============================================================================
