--------------------------- MODULE TxRuntimeProofs ---------------------------
(***************************************************************************)
(* Proofs about TxRuntime, for any actors in any order of registration,    *)
(* any number of ticks and whatever the actors send, as long as messages   *)
(* carry ids of their own (Fresh).                                         *)
(*                                                                         *)
(* The invariant says how far the loop has come: whose inbox may still     *)
(* hold messages (Inboxes), and that while messages are delivered nothing  *)
(* in the queue is from the future (AllDue), which is why the queue is     *)
(* empty before the first actor is called.                                 *)
(***************************************************************************)
EXTENDS TxRuntime, Recursion, TLAPS

\* What on_tick of a would be called with.
Inbox(a) == destination_actor_messages[a]

\* The loop counts down to MaxTicks and calls registered actors only.
LoopBounds ==
    /\ phase # "begin" => tick < MaxTicks
    /\ phase = "on_tick" => turn <= Len(actors)

\* While actors are called, those who had their turn have empty inboxes.
Inboxes ==
    /\ \A a \in ActorIDs : \A i \in DOMAIN Inbox(a) : Inbox(a)[i].destination = a
    /\ phase = "begin" => \A a \in ActorIDs : Inbox(a) = <<>>
    /\ phase \in {"call", "on_tick"} =>
         \A i \in DOMAIN actors :
            i < turn \/ (phase = "on_tick" /\ i = turn) => Inbox(actors[i]) = <<>>

\* While messages are delivered all that is queued is due.
AllDue == phase = "deliver" => \A e \in messages_queue : Due(e)

\* A message is queued once.
OneEntryEach == \A e, f \in messages_queue : e.msg = f.msg => e = f

RInv ==
    /\ RuntimeTypeOK
    /\ LoopBounds
    /\ Inboxes
    /\ AllDue
    /\ OneEntryEach
    /\ NoDuplicates

-----------------------------------------------------------------------------
(* Lemmas about the operators of TxRuntime. *)

\* A queue with messages has a top.
LEMMA TopExists ==
  ASSUME RuntimeTypeOK, messages_queue # {}
  PROVE  Top # {}
<1>1. \A e \in messages_queue : e.delivery_timestamp \in Nat /\ e.send_timestamp \in Nat
  BY DEF RuntimeTypeOK, SentMessage
<1> DEFINE D == {e.delivery_timestamp : e \in messages_queue}
<1>2. D \subseteq Nat /\ D # {}
  BY <1>1
<1>3. PICK d \in D : \A m \in D : d <= m
  BY <1>2, LeastNatural
<1> DEFINE E == {e \in messages_queue : e.delivery_timestamp = d}
<1> DEFINE S == {e.send_timestamp : e \in E}
<1>4. S \subseteq Nat /\ S # {}
  BY <1>1, <1>3
<1>5. PICK s \in S : \A m \in S : s <= m
  BY <1>4, LeastNatural
<1>6. PICK e \in E : e.send_timestamp = s
  BY <1>5
<1>7. \A f \in messages_queue : NotLater(e, f)
  <2> SUFFICES ASSUME NEW f \in messages_queue PROVE NotLater(e, f)
    OBVIOUS
  <2>1. CASE f \in E
    BY <2>1, <1>5, <1>6 DEF NotLater
  <2>2. CASE f \notin E
    <3>1. d <= f.delivery_timestamp /\ f.delivery_timestamp # d
      BY <2>2, <1>3
    <3> QED BY <3>1, <1>1, <1>2, <1>3, <1>6 DEF NotLater
  <2> QED BY <2>1, <2>2
<1> QED BY <1>6, <1>7 DEF Top

\* Before the first actor is called everything has been delivered.
LEMMA QueueDrained ==
  ASSUME RInv, SendToActors
  PROVE  messages_queue = {}
BY TopExists DEF RInv, AllDue, SendToActors, Top

\* Every actor has registered.
LEMMA Registered ==
  ASSUME RuntimeTypeOK
  PROVE  /\ actors \in Seq(ActorIDs)
         /\ \A a \in ActorIDs : \E i \in DOMAIN actors : actors[i] = a
         /\ \A i, j \in DOMAIN actors : actors[i] = actors[j] => i = j
<1>1. actors \in Registrations
  BY DEF RuntimeTypeOK
<1>2. {actors[i] : i \in DOMAIN actors} = ActorIDs
  BY <1>1, RegistrationsAssumption
<1> QED BY <1>1, <1>2, RegistrationsAssumption

\* What is in an inbox.
LEMMA InboxElements ==
  ASSUME RuntimeTypeOK
  PROVE  /\ \A a \in ActorIDs : Inbox(a) \in Seq(Messages)
         /\ \A a \in ActorIDs : \A i \in DOMAIN Inbox(a) :
              Inbox(a)[i] \in InInboxes /\ Inbox(a)[i] \in Messages
         /\ \A m \in InInboxes : \E a \in ActorIDs : \E i \in DOMAIN Inbox(a) : m = Inbox(a)[i]
BY DEF RuntimeTypeOK, Inbox, InInboxes

\* The elements of a sequence that has grown by one.
LEMMA AppendElements ==
  ASSUME NEW T, NEW s \in Seq(T), NEW m \in T
  PROVE  /\ Append(s, m) \in Seq(T)
         /\ DOMAIN Append(s, m) = DOMAIN s \union {Len(s) + 1}
         /\ \A i \in DOMAIN s : Append(s, m)[i] = s[i]
         /\ Append(s, m)[Len(s) + 1] = m
         /\ Len(s) + 1 \notin DOMAIN s
OBVIOUS

\* A delivered message is in the inboxes, and nothing else is new there.
LEMMA DeliveredMessage ==
  ASSUME RuntimeTypeOK, NEW e \in messages_queue, Deliver(e),
         e.msg.destination \in ActorIDs
  PROVE  /\ Inbox(e.msg.destination)' = Append(Inbox(e.msg.destination), e.msg)
         /\ \A a \in ActorIDs \ {e.msg.destination} : Inbox(a)' = Inbox(a)
         /\ InInboxes' = InInboxes \union {e.msg}
<1> DEFINE d == e.msg.destination
<1>1. e.msg \in Messages /\ Inbox(d) \in Seq(Messages)
  BY InboxElements DEF RuntimeTypeOK, SentMessage
<1>2. /\ Inbox(d)' = Append(Inbox(d), e.msg)
      /\ \A a \in ActorIDs \ {d} : Inbox(a)' = Inbox(a)
  BY DEF Deliver, Inbox, RuntimeTypeOK
<1>3. /\ DOMAIN Inbox(d)' = DOMAIN Inbox(d) \union {Len(Inbox(d)) + 1}
      /\ \A i \in DOMAIN Inbox(d) : Inbox(d)'[i] = Inbox(d)[i]
      /\ Inbox(d)'[Len(Inbox(d)) + 1] = e.msg
  BY <1>1, <1>2, AppendElements
<1>4. \A m \in InInboxes' : m \in InInboxes \union {e.msg}
  <2> SUFFICES ASSUME NEW a \in ActorIDs, NEW i \in DOMAIN Inbox(a)'
               PROVE  Inbox(a)'[i] \in InInboxes \union {e.msg}
    BY DEF InInboxes, Inbox
  <2> QED BY <1>2, <1>3, InboxElements
<1>5. \A m \in InInboxes \union {e.msg} : m \in InInboxes'
  <2>1. \A a \in ActorIDs : \A i \in DOMAIN Inbox(a)' : Inbox(a)'[i] \in InInboxes'
    BY DEF InInboxes, Inbox
  <2>2. \A a \in ActorIDs : \A i \in DOMAIN Inbox(a) : Inbox(a)[i] \in InInboxes'
    BY <2>1, <1>2, <1>3
  <2>3. e.msg \in InInboxes'
    BY <2>1, <1>3
  <2> QED BY <2>2, <2>3, InboxElements
<1> QED BY <1>2, <1>4, <1>5

-----------------------------------------------------------------------------
(* The invariant, action by action. *)

\* The invariant holds before the first tick.
LEMMA InitRInv == Init => RInv
<1> SUFFICES ASSUME Init PROVE RInv
  OBVIOUS
<1>1. actors \in Seq(ActorIDs)
  BY RegistrationsAssumption DEF Init
<1>2. RuntimeTypeOK
  <2>1. destination_actor_messages \in [ActorIDs -> Seq(Messages)]
    BY DEF Init
  <2>2. 1 \in 1..(Len(actors) + 1)
    BY <1>1
  <2>3. messages_queue \subseteq SentMessage /\ tick \in 0..MaxTicks
    BY MaxTicksAssumption DEF Init
  <2>4. clock \in Nat /\ timestamp \in 0..clock /\ actors \in Registrations
    BY DEF Init
  <2> QED BY <2>1, <2>2, <2>3, <2>4 DEF Init, RuntimeTypeOK
<1>3. \A a \in ActorIDs : Inbox(a) = <<>>
  BY DEF Init, Inbox
<1>4. InInboxes = {} /\ InQueue = {}
  BY DEF Init, InInboxes, InQueue
<1>5. LoopBounds /\ Inboxes /\ AllDue /\ OneEntryEach
  BY <1>3 DEF Init, LoopBounds, Inboxes, AllDue, OneEntryEach
<1>6. NoDuplicates
  BY <1>3, <1>4 DEF NoDuplicates, Inbox
<1> QED BY <1>2, <1>5, <1>6 DEF RInv

\* A tick begins: whatever is queued was sent before.
LEMMA BeginTickStep ==
  ASSUME RInv, BeginTick
  PROVE  RInv'
<1> USE DEF RInv
<1>1. RuntimeTypeOK'
  BY DEF BeginTick, RuntimeTypeOK, SentMessage
<1>2. \A a \in ActorIDs : Inbox(a)' = <<>>
  BY DEF BeginTick, Inbox
<1>3. InInboxes' = {}
  BY DEF BeginTick, InInboxes
<1>4. \A e \in messages_queue : e.delivery_timestamp <= clock
  BY DEF RuntimeTypeOK, SentMessage
<1>5. AllDue'
  BY <1>4 DEF BeginTick, AllDue, Due
<1>6. LoopBounds' /\ Inboxes' /\ OneEntryEach'
  BY <1>2 DEF BeginTick, LoopBounds, Inboxes, OneEntryEach
<1>7. NoDuplicates'
  BY <1>2, <1>3 DEF NoDuplicates, Inbox
<1> QED BY <1>1, <1>5, <1>6, <1>7

\* One message moves from the queue to the inbox of its destination.
LEMMA DeliverStep ==
  ASSUME RInv, NEW e \in Top, Deliver(e)
  PROVE  RInv'
<1> USE DEF RInv
<1> DEFINE d == e.msg.destination
<1>1. e \in messages_queue /\ e.msg \in Messages
  BY DEF Top, RuntimeTypeOK, SentMessage
<1>2. messages_queue' = messages_queue \ {e}
  BY DEF Deliver
<1>3. CASE d \in ActorIDs
  <2>1. Inbox(d) \in Seq(Messages)
    BY <1>3, InboxElements
  <2>2. /\ Inbox(d)' = Append(Inbox(d), e.msg)
        /\ \A a \in ActorIDs \ {d} : Inbox(a)' = Inbox(a)
    BY <1>1, <1>3, DeliveredMessage
  <2>3. destination_actor_messages' \in [ActorIDs -> Seq(Messages)]
    <3>1. Append(Inbox(d), e.msg) \in Seq(Messages)
      BY <1>1, <2>1, AppendElements
    <3> QED BY <1>3, <3>1 DEF Deliver, RuntimeTypeOK, Inbox
  <2>4. RuntimeTypeOK'
    BY <2>3, <1>2, <1>3 DEF Deliver, RuntimeTypeOK, SentMessage
  <2>5. LoopBounds' /\ AllDue' /\ OneEntryEach'
    BY <1>2, <1>3 DEF Deliver, LoopBounds, AllDue, OneEntryEach, Due
  <2>6. /\ DOMAIN Inbox(d)' = DOMAIN Inbox(d) \union {Len(Inbox(d)) + 1}
        /\ \A i \in DOMAIN Inbox(d) : Inbox(d)'[i] = Inbox(d)[i]
        /\ Inbox(d)'[Len(Inbox(d)) + 1] = e.msg
    BY <2>1, <2>2, <1>1, AppendElements
  <2>7. Inboxes'
    <3>1. \A a \in ActorIDs : \A i \in DOMAIN Inbox(a)' : Inbox(a)'[i].destination = a
      BY <2>2, <2>6 DEF Inboxes
    <3>2. phase' = "deliver"
      BY DEF Deliver
    <3> QED BY <3>1, <3>2 DEF Inboxes
  <2>8. e.msg \notin InInboxes
    BY <1>1 DEF NoDuplicates, InQueue
  <2>9. InInboxes' = InInboxes \union {e.msg}
    BY <1>1, <1>3, DeliveredMessage
  <2>10. NoDuplicates'
    <3>1. \A a \in ActorIDs : \A i, j \in DOMAIN Inbox(a) : Inbox(a)[i] = Inbox(a)[j] => i = j
      BY DEF NoDuplicates, Inbox
    <3>2. \A i \in DOMAIN Inbox(d) : Inbox(d)[i] # e.msg
      BY <2>8, <1>3, InboxElements
    <3>3. \A a \in ActorIDs : \A i, j \in DOMAIN Inbox(a)' : Inbox(a)'[i] = Inbox(a)'[j] => i = j
      BY <3>1, <3>2, <2>2, <2>6
    <3>4. InInboxes' \intersect InQueue' = {}
      BY <2>9, <1>1, <1>2 DEF NoDuplicates, InQueue, OneEntryEach
    <3>5. phase' = "deliver"
      BY DEF Deliver
    <3> QED BY <3>3, <3>4, <3>5 DEF NoDuplicates, Inbox
  <2> QED BY <2>4, <2>5, <2>7, <2>10
<1>4. CASE d \notin ActorIDs
  <2>1. UNCHANGED <<destination_actor_messages, clock, timestamp, actors, tick, phase, turn>>
    BY <1>4 DEF Deliver
  <2>2. RuntimeTypeOK'
    BY <1>2, <1>4, <2>1 DEF Deliver, RuntimeTypeOK, SentMessage
  <2>3. LoopBounds' /\ AllDue' /\ OneEntryEach' /\ Inboxes'
    BY <1>2, <2>1 DEF LoopBounds, AllDue, OneEntryEach, Due, Inboxes, Inbox
  <2>4. InInboxes' = InInboxes /\ InQueue' \subseteq InQueue
    BY <1>2, <2>1 DEF InInboxes, InQueue
  <2>5. NoDuplicates'
    BY <2>1, <2>4 DEF NoDuplicates
  <2> QED BY <2>2, <2>3, <2>5
<1> QED BY <1>3, <1>4

\* Nothing is due any more: the queue is empty, as all of it was due.
LEMMA SendToActorsStep ==
  ASSUME RInv, SendToActors
  PROVE  RInv'
<1> USE DEF RInv
<1>1. Len(actors) \in Nat
  BY Registered
<1>2. RuntimeTypeOK'
  BY <1>1 DEF SendToActors, RuntimeTypeOK, SentMessage
<1>3. Inboxes'
  BY <1>1, Registered DEF SendToActors, Inboxes, Inbox
<1>4. InInboxes' = InInboxes /\ InQueue' = InQueue
  BY DEF SendToActors, InInboxes, InQueue
<1>5. NoDuplicates'
  BY <1>4 DEF SendToActors, NoDuplicates
<1> QED BY <1>2, <1>3, <1>5 DEF SendToActors, LoopBounds, AllDue, OneEntryEach

\* An inbox is moved out.
LEMMA CallStep ==
  ASSUME RInv, NEW a \in ActorIDs, Call(a)
  PROVE  /\ RInv'
         /\ \A b \in ActorIDs \ {a} : Inbox(b)' = Inbox(b)
         /\ Inbox(a)' = <<>>
<1> USE DEF RInv
<1>1. Inbox(a)' = <<>> /\ \A b \in ActorIDs \ {a} : Inbox(b)' = Inbox(b)
  BY DEF Call, Inbox, RuntimeTypeOK
<1>2. RuntimeTypeOK'
  BY DEF Call, RuntimeTypeOK, SentMessage
<1>3. LoopBounds' /\ AllDue' /\ OneEntryEach'
  BY DEF Call, LoopBounds, AllDue, OneEntryEach
<1>4. Inboxes'
  <2>1. \A b \in ActorIDs : \A i \in DOMAIN Inbox(b)' : Inbox(b)'[i].destination = b
    BY <1>1 DEF Inboxes
  <2>2. \A i \in DOMAIN actors : i <= turn => Inbox(actors[i])' = <<>>
    <3>1. turn \in Nat /\ \A i \in DOMAIN actors : i \in Nat /\ actors[i] \in ActorIDs
      <4>1. turn \in Nat
        BY DEF RuntimeTypeOK
      <4>2. actors \in Seq(ActorIDs)
        BY Registered
      <4> QED BY <4>1, <4>2
    <3>2. \A i \in DOMAIN actors : i < turn => Inbox(actors[i]) = <<>>
      BY DEF Call, Inboxes
    <3> QED BY <1>1, <3>1, <3>2 DEF Call
  <2> QED BY <2>1, <2>2, Registered DEF Call, Inboxes, Inbox
<1>5. InInboxes' \subseteq InInboxes
  <2> SUFFICES ASSUME NEW b \in ActorIDs, NEW i \in DOMAIN Inbox(b)'
               PROVE  Inbox(b)'[i] \in InInboxes
    BY DEF InInboxes, Inbox
  <2> QED BY <1>1, InboxElements
<1>6. NoDuplicates'
  <2>1. \A b \in ActorIDs : \A i, j \in DOMAIN Inbox(b)' : Inbox(b)'[i] = Inbox(b)'[j] => i = j
    BY <1>1 DEF NoDuplicates, Inbox
  <2>2. InInboxes' \intersect InQueue' = {}
    BY <1>5 DEF Call, NoDuplicates, InQueue
  <2> QED BY <2>1, <2>2 DEF Call, NoDuplicates, Inbox
<1> QED BY <1>1, <1>2, <1>3, <1>4, <1>6

\* What an actor sends goes into the queue.
LEMMA ReturnStep ==
  ASSUME RInv, NEW a \in ActorIDs, NEW msgs \in Seq(Messages), Fresh(msgs), Return(a, msgs)
  PROVE  RInv'
<1> USE DEF RInv
<1>1. \A e \in Sent(msgs) : /\ e.msg \in Messages /\ e.msg \notin InInboxes \union InQueue
                            /\ e \in SentMessage
  BY DEF Sent, Fresh, RuntimeTypeOK, SentMessage
<1>2. turn <= Len(actors) /\ turn \in Nat /\ Len(actors) \in Nat
  BY Registered DEF Return, LoopBounds, RuntimeTypeOK
<1>3. messages_queue' = messages_queue \union Sent(msgs)
  BY DEF Return
<1>4. RuntimeTypeOK'
  BY <1>1, <1>2, <1>3 DEF Return, RuntimeTypeOK, SentMessage
<1>5. OneEntryEach'
  <2>1. \A e, f \in Sent(msgs) : e.msg = f.msg => e = f
    BY DEF Sent, Fresh
  <2>2. \A e \in messages_queue : e.msg \in InQueue
    BY DEF InQueue
  <2> QED BY <2>1, <2>2, <1>1, <1>3 DEF OneEntryEach
<1>6. LoopBounds' /\ AllDue'
  BY DEF Return, LoopBounds, AllDue
<1>7. Inboxes'
  BY <1>2, Registered DEF Return, Inboxes, Inbox
<1>8. InInboxes' = InInboxes
  BY DEF Return, InInboxes
<1>9. InQueue' \intersect InInboxes = {}
  BY <1>1, <1>3 DEF InQueue, NoDuplicates
<1>10. NoDuplicates'
  BY <1>8, <1>9 DEF Return, NoDuplicates
<1> QED BY <1>4, <1>5, <1>6, <1>7, <1>10

\* The loop is done with every actor.
LEMMA EndTickStep ==
  ASSUME RInv, EndTick
  PROVE  RInv'
<1> USE DEF RInv
<1>1. \A a \in ActorIDs : Inbox(a) = <<>>
  BY Registered DEF EndTick, Inboxes, RuntimeTypeOK
<1>2. InInboxes = {}
  BY <1>1 DEF InInboxes, Inbox
<1>3. clock' \in Nat /\ timestamp' \in 0..clock' /\ clock <= clock'
  BY DEF EndTick, RuntimeTypeOK
<1>4. messages_queue' \subseteq SentMessage'
  BY <1>3 DEF EndTick, RuntimeTypeOK, SentMessage
<1>5. RuntimeTypeOK'
  BY <1>3, <1>4, MaxTicksAssumption DEF EndTick, RuntimeTypeOK, LoopBounds
<1>6. LoopBounds' /\ AllDue' /\ OneEntryEach' /\ Inboxes'
  BY <1>1 DEF EndTick, LoopBounds, AllDue, OneEntryEach, Inboxes, Inbox
<1>7. NoDuplicates'
  <2>1. InInboxes' = InInboxes /\ InQueue' = InQueue
    BY DEF EndTick, InInboxes, InQueue
  <2> QED BY <1>2, <2>1 DEF EndTick, NoDuplicates
<1> QED BY <1>5, <1>6, <1>7

\* The actor that runs moves the clock.
LEMMA TakeTimestampStep ==
  ASSUME RInv, clock' \in Nat, clock <= clock', phase = "on_tick", UNCHANGED runtimeVars
  PROVE  RInv'
<1> USE DEF RInv, runtimeVars
<1>1. messages_queue' \subseteq SentMessage'
  BY DEF RuntimeTypeOK, SentMessage
<1>2. RuntimeTypeOK'
  BY <1>1 DEF RuntimeTypeOK
<1>3. LoopBounds' /\ AllDue' /\ OneEntryEach' /\ Inboxes'
  BY DEF LoopBounds, AllDue, Due, OneEntryEach, Inboxes, Inbox
<1>4. InInboxes' = InInboxes /\ InQueue' = InQueue
  BY DEF InInboxes, InQueue
<1>5. NoDuplicates'
  BY <1>4 DEF NoDuplicates
<1> QED BY <1>2, <1>3, <1>5

\* Whatever the loop does keeps the invariant ...
LEMMA RuntimeStepRInv ==
  ASSUME RInv, RuntimeStep
  PROVE  RInv'
BY BeginTickStep, DeliverStep, SendToActorsStep, EndTickStep DEF RuntimeStep

\* ... and so does what the actors do.
LEMMA NextRInv == RInv /\ [Next]_vars => RInv'
<1> SUFFICES ASSUME RInv, [Next]_vars PROVE RInv'
  OBVIOUS
<1>1. CASE RuntimeStep
  BY <1>1, RuntimeStepRInv
<1>2. ASSUME NEW a \in ActorIDs, Call(a) PROVE RInv'
  BY <1>2, CallStep
<1>3. CASE TakeTimestamp
  BY <1>3, TakeTimestampStep DEF TakeTimestamp, RInv, RuntimeTypeOK
<1>4. ASSUME NEW a \in ActorIDs, NEW msgs \in Outboxes, ActorSends(a, msgs) PROVE RInv'
  BY <1>4, ReturnStep, OutboxesAssumption DEF ActorSends
<1>5. CASE UNCHANGED vars
  <2> USE <1>5 DEF vars, runtimeVars
  <2>1. RuntimeTypeOK' /\ LoopBounds'
    BY DEF RInv, RuntimeTypeOK, SentMessage, LoopBounds
  <2>2. Inboxes' /\ AllDue' /\ OneEntryEach'
    BY DEF RInv, Inboxes, Inbox, AllDue, Due, OneEntryEach
  <2>3. InInboxes' = InInboxes /\ InQueue' = InQueue
    BY DEF InInboxes, InQueue
  <2>4. NoDuplicates'
    BY <2>3 DEF RInv, NoDuplicates
  <2> QED BY <2>1, <2>2, <2>4 DEF RInv
<1> QED BY <1>1, <1>2, <1>3, <1>4, <1>5 DEF Next

\* The inductive invariant of the runtime.
THEOREM Invariance == Spec => []RInv
BY InitRInv, NextRInv, PTL DEF Spec

\* RuntimeTypeOK: nothing queued or delivered comes from the future, whatever
\* the actors send.
THEOREM TypeCorrect == Spec => []RuntimeTypeOK
<1>1. RInv => RuntimeTypeOK
  BY DEF RInv
<1> QED BY <1>1, Invariance, PTL

\* NoDuplicates: draining the queue into the inboxes neither duplicates nor
\* strands a message.
THEOREM MessagesInOnePlace == Spec => []NoDuplicates
<1>1. RInv => NoDuplicates
  BY DEF RInv
<1> QED BY <1>1, Invariance, PTL

\* TimeAdvances: each tick of Runtime::run has a later timestamp.
THEOREM TicksAdvance == Spec => TimeAdvances
<1>1. RInv /\ [Next]_vars => [tick' = tick + 1 => clock' > timestamp]_vars
  <2> SUFFICES ASSUME RInv, Next, tick' = tick + 1 PROVE clock' > timestamp
    OBVIOUS
  <2>1. tick \in Nat
    BY MaxTicksAssumption DEF RInv, RuntimeTypeOK
  <2>2. CASE EndTick
    BY <2>2 DEF EndTick, RInv, RuntimeTypeOK
  <2>3. CASE ~EndTick
    <3>1. tick' = tick
      BY <2>3 DEF Next, RuntimeStep, BeginTick, Deliver, SendToActors, Call, TakeTimestamp,
                  ActorSends, Return, runtimeVars
    <3> QED BY <3>1, <2>1
  <2> QED BY <2>2, <2>3
<1> QED BY <1>1, Invariance, PTL DEF Spec, TimeAdvances

-----------------------------------------------------------------------------
(* The runtime is a LockstepNetwork. *)

\* Nothing has been sent yet.
LEMMA InitLockstep == Init => LN!Init
BY DEF Init, LN!Init, InInboxes, InQueue

\* What the network calls incoming and outgoing.
Incoming == InInboxes \union (IF phase = "deliver" THEN InQueue ELSE {})
Outgoing == IF phase = "deliver" THEN {} ELSE InQueue

\* A tick begins a new round.
LEMMA NewRound ==
  ASSUME RInv, BeginTick
  PROVE  Incoming = {} /\ Incoming' = Outgoing /\ Outgoing' = {}
<1>1. InInboxes = {} /\ InInboxes' = {} /\ InQueue' = InQueue
  <2>1. InInboxes = {}
    BY DEF RInv, BeginTick, NoDuplicates
  <2>2. /\ destination_actor_messages' = [a \in ActorIDs |-> <<>>]
        /\ messages_queue' = messages_queue
    BY DEF BeginTick
  <2>3. InInboxes' = {}
    BY <2>2 DEF InInboxes
  <2>4. InQueue' = InQueue
    BY <2>2 DEF InQueue
  <2> QED BY <2>1, <2>3, <2>4
<1> QED BY <1>1 DEF BeginTick, Incoming, Outgoing

\* A message that is moved to an inbox is incoming before and after.
LEMMA DeliveryFlow ==
  ASSUME RInv, NEW e \in Top, Deliver(e)
  PROVE  /\ e.msg \in Incoming /\ Outgoing' = Outgoing
         /\ e.msg.destination \in ActorIDs => Incoming' = Incoming
         /\ e.msg.destination \notin ActorIDs => Incoming' = Incoming \ {e.msg}
<1> USE DEF RInv
<1> DEFINE d == e.msg.destination
<1>1. e \in messages_queue /\ e.msg \in Messages /\ e.msg \in InQueue
  BY DEF Top, RuntimeTypeOK, SentMessage, InQueue
<1>2. InQueue' = InQueue \ {e.msg}
  BY <1>1 DEF Deliver, InQueue, OneEntryEach
<1>3. phase = "deliver" /\ phase' = phase
  BY DEF Deliver
<1>4. CASE d \in ActorIDs
  <2>1. InInboxes' = InInboxes \union {e.msg}
    BY <1>1, <1>4, DeliveredMessage
  <2> QED BY <1>1, <1>2, <1>3, <1>4, <2>1 DEF Incoming, Outgoing
<1>5. CASE d \notin ActorIDs
  <2>1. InInboxes' = InInboxes
    BY <1>5 DEF Deliver, InInboxes
  <2>2. e.msg \notin InInboxes
    BY <1>1 DEF NoDuplicates
  <2> QED BY <1>1, <1>2, <1>3, <1>5, <2>1, <2>2 DEF Incoming, Outgoing
<1> QED BY <1>4, <1>5

\* Nothing moves when the runtime turns to the actors or ends a tick.
LEMMA TurningPoints ==
  ASSUME RInv, SendToActors \/ EndTick
  PROVE  Incoming' = Incoming /\ Outgoing' = Outgoing
<1>1. CASE SendToActors
  <2>1. InQueue = {}
    BY <1>1, QueueDrained DEF InQueue
  <2> QED BY <1>1, <2>1 DEF SendToActors, InInboxes, InQueue, Incoming, Outgoing
<1>2. CASE EndTick
  BY <1>2 DEF EndTick, InInboxes, InQueue, Incoming, Outgoing
<1> QED BY <1>1, <1>2

\* What an actor sends is outgoing.
LEMMA ReturnFlow ==
  ASSUME RInv, NEW a, NEW msgs, Return(a, msgs)
  PROVE  /\ Incoming' = Incoming
         /\ Outgoing' = Outgoing \union {msgs[i] : i \in DOMAIN msgs}
<1>1. InInboxes' = InInboxes /\ phase = "on_tick" /\ phase' = "call"
  BY DEF Return, InInboxes
<1>2. InQueue' = InQueue \union {e.msg : e \in Sent(msgs)}
  BY DEF Return, InQueue
<1>3. {e.msg : e \in Sent(msgs)} = {msgs[i] : i \in DOMAIN msgs}
  <2>1. ASSUME NEW i \in DOMAIN msgs PROVE \E e \in Sent(msgs) : e.msg = msgs[i]
    <3> DEFINE e == [send_timestamp |-> timestamp, delivery_timestamp |-> clock,
                     msg |-> msgs[i]]
    <3>1. e \in Sent(msgs) /\ e.msg = msgs[i]
      BY DEF Sent
    <3> QED BY <3>1
  <2>2. \A e \in Sent(msgs) : \E i \in DOMAIN msgs : e.msg = msgs[i]
    BY DEF Sent
  <2> QED BY <2>1, <2>2
<1> QED BY <1>1, <1>2, <1>3 DEF Incoming, Outgoing

\* A called actor gets all that is addressed to it, at once.
LEMMA CallFlow ==
  ASSUME RInv, NEW a \in ActorIDs, Call(a)
  PROVE  /\ {Inbox(a)[i] : i \in DOMAIN Inbox(a)} = {m \in Incoming : m.destination = a}
         /\ Incoming' = {m \in Incoming : m.destination # a}
         /\ Outgoing' = Outgoing
<1> USE DEF RInv
<1>1. /\ Inbox(a)' = <<>>
      /\ \A b \in ActorIDs \ {a} : Inbox(b)' = Inbox(b)
  BY CallStep
<1>2. InInboxes' = {m \in InInboxes : m.destination # a}
  <2>1. \A m \in InInboxes' : m \in InInboxes /\ m.destination # a
    <3> SUFFICES ASSUME NEW b \in ActorIDs, NEW i \in DOMAIN Inbox(b)'
                 PROVE  Inbox(b)'[i] \in InInboxes /\ Inbox(b)'[i].destination # a
      BY DEF InInboxes, Inbox
    <3> QED BY <1>1, InboxElements DEF Inboxes
  <2>2. \A m \in InInboxes : m.destination # a => m \in InInboxes'
    <3>1. \A b \in ActorIDs : \A i \in DOMAIN Inbox(b)' : Inbox(b)'[i] \in InInboxes'
      BY DEF InInboxes, Inbox
    <3> QED BY <3>1, <1>1, InboxElements DEF Inboxes
  <2> QED BY <2>1, <2>2
<1>3. {Inbox(a)[i] : i \in DOMAIN Inbox(a)} = {m \in InInboxes : m.destination = a}
  BY InboxElements DEF Inboxes
<1>4. phase = "call" /\ phase' = "on_tick" /\ InQueue' = InQueue
  BY DEF Call, InQueue
<1> QED BY <1>2, <1>3, <1>4 DEF Incoming, Outgoing

\* While an actor runs, nothing is addressed to it any more.
LEMMA NothingForCalled ==
  ASSUME RInv, phase = "on_tick"
  PROVE  actors[turn] \in ActorIDs /\ \A m \in Incoming : m.destination # actors[turn]
<1> USE DEF RInv
<1>1. turn \in DOMAIN actors /\ actors[turn] \in ActorIDs
  BY Registered DEF RuntimeTypeOK, LoopBounds
<1>2. Inbox(actors[turn]) = <<>>
  BY <1>1 DEF Inboxes
<1>3. Incoming = InInboxes
  BY DEF Incoming
<1> QED BY <1>1, <1>2, <1>3, InboxElements DEF Inboxes

\* The loop starts a round of the network, or moves nothing.
LEMMA RuntimeStepLockstep ==
  ASSUME RInv, RuntimeStep
  PROVE  [LN!Next]_(LN!vars)
<1> USE DEF LN!Next, LN!vars
<1>1. CASE BeginTick
  BY <1>1, NewRound DEF LN!NextRound, Incoming, Outgoing
<1>2. ASSUME NEW e \in Top, Deliver(e) PROVE [LN!Next]_(LN!vars)
  BY <1>2, DeliveryFlow DEF LN!Discard, Incoming, Outgoing
<1>3. CASE SendToActors \/ EndTick
  BY <1>3, TurningPoints DEF Incoming, Outgoing
<1> QED BY <1>1, <1>2, <1>3 DEF RuntimeStep

\* A call delivers all there is for the actor.
LEMMA CallLockstep ==
  ASSUME RInv, NEW a \in ActorIDs, Call(a)
  PROVE  LN!HandOver(a)
BY CallFlow DEF LN!HandOver, Incoming, Outgoing

\* Every step is one of the abstract network, or moves nothing.
LEMMA NextLockstep == RInv /\ [Next]_vars => [LN!Next]_(LN!vars)
<1> SUFFICES ASSUME RInv, [Next]_vars PROVE [LN!Next]_(LN!vars)
  OBVIOUS
<1>1. CASE RuntimeStep
  BY <1>1, RuntimeStepLockstep
<1>2. ASSUME NEW a \in ActorIDs, Call(a) PROVE LN!Next
  BY <1>2, CallLockstep DEF LN!Next
<1>3. CASE TakeTimestamp
  BY <1>3 DEF TakeTimestamp, runtimeVars, LN!vars, InInboxes, InQueue
<1>4. ASSUME NEW a \in ActorIDs, NEW msgs \in Outboxes, ActorSends(a, msgs) PROVE LN!Next
  <2>1. LN!Send
    BY <1>4, ReturnFlow DEF ActorSends, LN!Send, Incoming, Outgoing
  <2> QED BY <2>1 DEF LN!Next
<1>5. CASE UNCHANGED vars
  BY <1>5 DEF vars, runtimeVars, LN!vars, InInboxes, InQueue
<1> QED BY <1>1, <1>2, <1>3, <1>4, <1>5 DEF Next

\* ImplementsLockstepNetwork: what is sent in a tick arrives in the next tick,
\* all of it, though nothing in Runtime speaks of rounds, only of timestamps.
THEOREM RuntimeIsLockstep == Spec => ImplementsLockstepNetwork
BY InitLockstep, NextLockstep, Invariance, PTL DEF Spec, ImplementsLockstepNetwork, LN!Spec
=============================================================================
