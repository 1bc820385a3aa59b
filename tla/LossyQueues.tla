---------------------------- MODULE LossyQueues ------------------------------
(***************************************************************************)
(* What the event bus promises to each of its subscribers, without the     *)
(* dispatcher, its locks and its channels: a first-in first-out queue of   *)
(* the events of interest, published to all subscribers at once, that may  *)
(* drop an event, but only one behind which at least Capacity earlier ones *)
(* are still waiting for the same subscriber.                              *)
(***************************************************************************)
EXTENDS Naturals, SequencesExt

CONSTANTS
  Event, Subscriber, NoEvent,
  Interest,       \* subscriber -> the events it wants to see
  Capacity        \* events that are safe from being dropped

VARIABLES
  pending,        \* subscriber -> the events it has not received yet
  received        \* subscriber -> the event it received and works on, or NoEvent

vars == <<pending, received>>

Init ==
  /\ pending = [s \in Subscriber |-> <<>>]
  /\ received = [s \in Subscriber |-> NoEvent]

Publish(e) ==
  /\ pending' = [s \in Subscriber |-> IF e \in Interest[s]
                                      THEN Append(pending[s], e) ELSE pending[s]]
  /\ UNCHANGED received

Deliver(s) ==
  /\ pending[s] # <<>> /\ received[s] = NoEvent
  /\ received' = [received EXCEPT ![s] = Head(pending[s])]
  /\ pending' = [pending EXCEPT ![s] = Tail(@)]

Handled(s) ==
  /\ received' = [received EXCEPT ![s] = NoEvent]
  /\ UNCHANGED pending

Drop(s) ==
  /\ \E i \in DOMAIN pending[s] :
       i > Capacity /\ pending' = [pending EXCEPT ![s] = RemoveAt(@, i)]
  /\ UNCHANGED received

\* The process ends.
Reset ==
  /\ pending' = [s \in Subscriber |-> <<>>]
  /\ received' = [s \in Subscriber |-> NoEvent]

Next ==
  \/ \E e \in Event : Publish(e)
  \/ \E s \in Subscriber : Deliver(s) \/ Handled(s) \/ Drop(s)
  \/ Reset

Spec == Init /\ [][Next]_vars
=============================================================================
