------------------------------ MODULE EventBus -------------------------------
(***************************************************************************)
(* events/bus.go: publishers append to publishQueue, one goroutine takes   *)
(* the events from it and offers each to the channels of its subscribers.  *)
(*                                                                         *)
(* The dispatcher removes the head under the Lock, gives the lock back,    *)
(* and sends under the RLock: publishers get in between the two, and a     *)
(* subscriber receives between any two sends.  A send never waits: a       *)
(* channel that is full loses the event.                                   *)
(*                                                                         *)
(* Subscribe is called only before anything is published (app.New), so who *)
(* subscribes to what is a constant.                                       *)
(***************************************************************************)
EXTENDS Naturals, Sequences

CONSTANTS
  Event,           \* records with a name, at least
  Subscriber,
  Subscription,    \* subscriber -> the name it subscribed to, or Any
  Any,             \* "*"
  Capacity,        \* of a channel: 10 in the code
  NoEvent,         \* "holds no event"
  MaxQueue         \* bound: nothing is published while so many are queued

ASSUME BusAssumption ==
  /\ Capacity \in Nat \ {0}
  /\ MaxQueue \in Nat
  /\ NoEvent \notin Event
  /\ \E s \in Subscriber : Subscription[s] = Any

VARIABLES
  publishQueue,
  current,     \* the event the dispatcher removed and is sending
  rest,        \* subscribers it has not been offered to yet
  channel,     \* subscriber -> the events in its channel
  held         \* subscriber -> the event it took from its channel

busVars == <<publishQueue, current, rest, channel, held>>

Interest == [s \in Subscriber |->
               {e \in Event : Subscription[s] \in {Any, e.name}}]

Interested(e) == {s \in Subscriber : e \in Interest[s]}

BusTypeOK ==
  /\ publishQueue \in Seq(Event)
  /\ current \in Event \cup {NoEvent}
  /\ rest \in SUBSET Subscriber
  /\ channel \in [Subscriber -> Seq(Event)]
  /\ \A s \in Subscriber : Len(channel[s]) <= Capacity
  /\ rest # {} <=> current # NoEvent
  /\ held \in [Subscriber -> Event \cup {NoEvent}]

BusInit ==
  /\ publishQueue = <<>>
  /\ current = NoEvent
  /\ rest = {}
  /\ channel = [s \in Subscriber |-> <<>>]
  /\ held = [s \in Subscriber |-> NoEvent]

\* The process ends.
BusCrash ==
  /\ publishQueue' = <<>>
  /\ current' = NoEvent
  /\ rest' = {}
  /\ channel' = [s \in Subscriber |-> <<>>]
  /\ held' = [s \in Subscriber |-> NoEvent]

\* dispatch has begun, so its RLock keeps publishers out.
Sending == current # NoEvent /\ rest # Interested(current)

Publish(e) ==
  /\ ~Sending
  /\ Len(publishQueue) < MaxQueue
  /\ publishQueue' = Append(publishQueue, e)
  /\ UNCHANGED <<current, rest, channel, held>>

Take ==
  /\ current = NoEvent
  /\ publishQueue # <<>>
  /\ current' = Head(publishQueue)
  /\ rest' = Interested(current')
  /\ publishQueue' = Tail(publishQueue)
  /\ UNCHANGED <<channel, held>>

\* Subscribers to the name come before subscribers to everything.
NextInLine(s) ==
  /\ s \in rest
  /\ Subscription[s] = Any => \A q \in rest : Subscription[q] = Any

Sent(s) ==
  /\ rest' = rest \ {s}
  /\ current' = IF rest' = {} THEN NoEvent ELSE current
  /\ UNCHANGED <<publishQueue, held>>

HasRoom(s) == Len(channel[s]) < Capacity

\* Mutant: the last place of the channel is kept free.
SendOneShort(s) ==
  /\ NextInLine(s)
  /\ channel' = [channel EXCEPT
       ![s] = IF Len(@) < Capacity - 1 THEN Append(@, current) ELSE @]
  /\ Sent(s)

\* Mutant: the channel grows as needed.
SendUnbounded(s) ==
  /\ NextInLine(s)
  /\ channel' = [channel EXCEPT ![s] = Append(@, current)]
  /\ Sent(s)

\* Mutant: the send waits until there is room.
SendBlocking(s) ==
  /\ NextInLine(s)
  /\ HasRoom(s)
  /\ channel' = [channel EXCEPT ![s] = Append(@, current)]
  /\ Sent(s)

Send(s) ==
  /\ NextInLine(s)
  /\ channel' = [channel EXCEPT
       ![s] = IF HasRoom(s) THEN Append(@, current) ELSE @]
  /\ Sent(s)

\* The subscriber's loop: range over its channel, one event at a time.
Receive(s) ==
  /\ channel[s] # <<>> /\ held[s] = NoEvent
  /\ held' = [held EXCEPT ![s] = Head(channel[s])]
  /\ channel' = [channel EXCEPT ![s] = Tail(@)]
  /\ UNCHANGED <<publishQueue, current, rest>>

Handled(s) ==
  /\ held[s] # NoEvent
  /\ held' = [held EXCEPT ![s] = NoEvent]
  /\ UNCHANGED <<publishQueue, current, rest, channel>>

Dispatch == Take \/ \E s \in Subscriber : Send(s)

-----------------------------------------------------------------------------
\* What a subscriber has not received yet: its channel, the event that is being
\* dispatched if it was not offered yet, and its part of the queue.
Pending == [s \in Subscriber |->
  channel[s] \o (IF s \in rest THEN <<current>> ELSE <<>>)
             \o SelectSeq(publishQueue, LAMBDA e : e \in Interest[s])]

Queues == INSTANCE LossyQueues WITH pending <- Pending, received <- held
=============================================================================
