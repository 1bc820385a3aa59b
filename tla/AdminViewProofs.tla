--------------------------- MODULE AdminViewProofs ---------------------------
(***************************************************************************)
(* Safety of AdminView, for any number of goroutines and channels and      *)
(* queues of any size: whatever the GUI is out of date about and was not   *)
(* missed is announced by an event that is still on its way, in one of the *)
(* five places an event can be between the handler and the GUI.            *)
(***************************************************************************)
EXTENDS AdminView, SequenceTheorems, TLAPS

\* A handler that is about to publish holds an event.
TypeInv ==
  /\ AdminViewTypeOK
  /\ \A c \in Call : pc[c] = "publish" => arg[c] \in Event

Has(q, t) == \E i \in 1..Len(q) : q[i].name = t

InBus(t) ==
  \/ Has(publishQueue, t)
  \/ Forwarder \in rest /\ current.name = t
  \/ Has(channel[Forwarder], t)
  \/ held[Forwarder] # NoEvent /\ held[Forwarder].name = t

Announced(t) == \E c \in Call : pc[c] = "publish" /\ arg[c].name = t

FreshInv ==
  forwarder # "gone" => \A t \in stale \ missed : InBus(t) \/ Announced(t)

-----------------------------------------------------------------------------
(* Sequences of events *)

LEMMA AppendOK ==
  ASSUME NEW q \in Seq(Event), NEW e \in Event
  PROVE  /\ Append(q, e) \in Seq(Event) /\ Len(Append(q, e)) = Len(q) + 1
         /\ \A t : Has(q, t) \/ e.name = t => Has(Append(q, e), t)
<1>1. /\ Append(q, e) \in Seq(Event) /\ Len(Append(q, e)) = Len(q) + 1 /\ Len(q) \in Nat
      /\ \A i \in 1..Len(q) : Append(q, e)[i] = q[i]
      /\ Append(q, e)[Len(q) + 1] = e
  OBVIOUS
<1> QED
  BY <1>1 DEF Has

LEMMA TailOK ==
  ASSUME NEW q \in Seq(Event), q # <<>>
  PROVE  /\ Head(q) \in Event /\ Tail(q) \in Seq(Event) /\ Len(Tail(q)) = Len(q) - 1
         /\ Len(q) \in Nat
         /\ \A t : Has(q, t) => Head(q).name = t \/ Has(Tail(q), t)
<1>1. /\ Head(q) \in Event /\ Tail(q) \in Seq(Event) /\ Len(Tail(q)) = Len(q) - 1
      /\ Len(q) \in Nat
      /\ Head(q) = q[1]
      /\ \A i \in 1..Len(q) - 1 : Tail(q)[i] = q[i + 1]
  OBVIOUS
<1>2. ASSUME NEW t, NEW i \in 1..Len(q), q[i].name = t, i # 1
      PROVE  Has(Tail(q), t)
  <2>1. i - 1 \in 1..Len(q) - 1 /\ Tail(q)[i - 1] = q[i]
    BY <1>1, <1>2
  <2> QED
    BY <1>1, <1>2, <2>1 DEF Has
<1> QED
  BY <1>1, <1>2 DEF Has

LEMMA EventNames ==
  /\ \A t \in Topic : Changed(t) \in Event /\ Changed(t).name = t
  /\ Notification \in Event
  /\ Forwarder \in Subscriber /\ Notifier \in Subscriber /\ Forwarder # Notifier
  /\ \A e \in Event : Forwarder \in Interested(e)
  /\ NoEvent \notin Event
<1>1. /\ Notifier # Forwarder
      /\ Subscription =
           [s \in Subscriber |-> IF s = Notifier THEN "notification" ELSE Any]
  BY ViewAssumption DEF ViewSubscription
<1> QED
  BY <1>1, ViewAssumption, BusAssumption
  DEF ViewEvent, Changed, Notification, Interested, Interest

-----------------------------------------------------------------------------
(* The event bus *)

LEMMA PublishType ==
  ASSUME BusTypeOK, NEW e \in Event, Publish(e)
  PROVE  BusTypeOK' /\ UNCHANGED held /\ \A t : InBus(t) \/ e.name = t => InBus(t)'
<1>1. publishQueue' = Append(publishQueue, e) /\ UNCHANGED <<current, rest, channel, held>>
  BY DEF Publish
<1>2. publishQueue \in Seq(Event)
  BY DEF BusTypeOK
<1>3. BusTypeOK'
  BY <1>1, <1>2, AppendOK DEF BusTypeOK
<1>4. ASSUME NEW t, InBus(t) \/ e.name = t PROVE InBus(t)'
  BY <1>1, <1>2, <1>4, AppendOK DEF InBus
<1> QED
  BY <1>1, <1>3, <1>4

LEMMA TakeType ==
  ASSUME BusTypeOK, Take
  PROVE  BusTypeOK' /\ UNCHANGED held /\ \A t : InBus(t) => InBus(t)'
<1>1. /\ publishQueue \in Seq(Event) /\ publishQueue # <<>> /\ rest = {}
      /\ current' = Head(publishQueue) /\ publishQueue' = Tail(publishQueue)
      /\ rest' = Interested(current') /\ UNCHANGED <<channel, held>>
  BY DEF Take, BusTypeOK
<1>2. current' \in Event /\ publishQueue' \in Seq(Event) /\ Forwarder \in rest'
  BY <1>1, TailOK, EventNames
<1>3. BusTypeOK'
  <2>1. rest' \subseteq Subscriber /\ current' # NoEvent
    BY <1>1, <1>2, EventNames DEF Interested
  <2> QED
    BY <1>1, <1>2, <2>1 DEF BusTypeOK
<1>4. ASSUME NEW t, InBus(t) PROVE InBus(t)'
  BY <1>1, <1>2, <1>4, TailOK DEF InBus
<1> QED
  BY <1>1, <1>3, <1>4

\* The event for the forwarder is put into its channel, or dropped for want of room.
LEMMA SendType ==
  ASSUME BusTypeOK, NEW s \in Subscriber, Send(s)
  PROVE  /\ BusTypeOK' /\ UNCHANGED held
         /\ \A t : InBus(t) => \/ InBus(t)'
                               \/ /\ Forwarder \in rest \ rest' /\ current.name = t
                                  /\ ~HasRoom(Forwarder)
<1>1. /\ s \in rest /\ rest' = rest \ {s} /\ UNCHANGED <<publishQueue, held>>
      /\ current' = IF rest' = {} THEN NoEvent ELSE current
      /\ channel' = [channel EXCEPT ![s] = IF HasRoom(s) THEN Append(@, current) ELSE @]
  BY DEF Send, Sent, NextInLine
<1>2. /\ channel \in [Subscriber -> Seq(Event)] /\ current \in Event
      /\ \A q \in Subscriber : Len(channel[q]) <= Capacity
      /\ Capacity \in Nat
  BY <1>1, BusAssumption DEF BusTypeOK
<1>3. /\ channel' \in [Subscriber -> Seq(Event)]
      /\ \A q \in Subscriber \ {s} : channel'[q] = channel[q]
      /\ channel'[s] = IF HasRoom(s) THEN Append(channel[s], current) ELSE channel[s]
  BY <1>1, <1>2, AppendOK
<1>4. BusTypeOK'
  <2>1. Len(channel'[s]) <= Capacity
    <3>1. Len(channel[s]) \in Nat
      BY <1>2
    <3> QED
      BY <1>2, <1>3, <3>1, AppendOK DEF HasRoom
  <2>2. \A q \in Subscriber : Len(channel'[q]) <= Capacity
    BY <1>2, <1>3, <2>1
  <2>3. rest' # {} <=> current' # NoEvent
    BY <1>1, <1>2, EventNames
  <2>4. rest' \subseteq Subscriber /\ current' \in Event \cup {NoEvent}
    BY <1>1, <1>2 DEF BusTypeOK
  <2> QED
    BY <1>1, <1>3, <2>2, <2>3, <2>4 DEF BusTypeOK
<1>5. ASSUME NEW t, InBus(t), ~InBus(t)'
      PROVE  Forwarder \in rest \ rest' /\ current.name = t /\ ~HasRoom(Forwarder)
  <2>1. Has(channel[Forwarder], t) => Has(channel'[Forwarder], t)
    <3>1. \/ channel'[Forwarder] = channel[Forwarder]
          \/ channel'[Forwarder] = Append(channel[Forwarder], current)
      BY <1>3, EventNames
    <3>2. Has(channel[Forwarder], t) => Has(Append(channel[Forwarder], current), t)
      BY <1>2, AppendOK, EventNames
    <3> QED
      BY <3>1, <3>2 DEF Has
  <2>2. Forwarder \in rest /\ current.name = t
    BY <1>1, <1>5, <2>1 DEF InBus
  <2>3. Forwarder \notin rest'
    BY <1>1, <1>5, <2>2 DEF InBus
  <2>4. s = Forwarder
    BY <1>1, <2>2, <2>3
  <2>5. ~HasRoom(Forwarder)
    BY <1>2, <1>3, <1>5, <2>2, <2>4, AppendOK DEF InBus
  <2> QED
    BY <2>2, <2>3, <2>5
<1> QED
  BY <1>1, <1>4, <1>5

LEMMA ReceiveType ==
  ASSUME BusTypeOK, NEW s \in Subscriber, Receive(s)
  PROVE  /\ BusTypeOK' /\ \A q \in Subscriber \ {s} : held'[q] = held[q]
         /\ \A t : InBus(t) => InBus(t)'
<1>1. /\ channel[s] # <<>> /\ held[s] = NoEvent
      /\ held' = [held EXCEPT ![s] = Head(channel[s])]
      /\ channel' = [channel EXCEPT ![s] = Tail(channel[s])]
      /\ UNCHANGED <<publishQueue, current, rest>>
  BY DEF Receive
<1>2. /\ channel \in [Subscriber -> Seq(Event)]
      /\ held \in [Subscriber -> Event \cup {NoEvent}]
      /\ \A q \in Subscriber : Len(channel[q]) <= Capacity
      /\ Capacity \in Nat
  BY BusAssumption DEF BusTypeOK
<1>3. /\ Head(channel[s]) \in Event /\ Tail(channel[s]) \in Seq(Event)
      /\ Len(Tail(channel[s])) <= Capacity
  BY <1>1, <1>2, TailOK
<1>4. /\ channel' \in [Subscriber -> Seq(Event)]
      /\ held' \in [Subscriber -> Event \cup {NoEvent}]
      /\ \A q \in Subscriber \ {s} : channel'[q] = channel[q] /\ held'[q] = held[q]
      /\ channel'[s] = Tail(channel[s]) /\ held'[s] = Head(channel[s])
  BY <1>1, <1>2, <1>3
<1>5. BusTypeOK'
  BY <1>1, <1>2, <1>3, <1>4 DEF BusTypeOK
<1>6. ASSUME NEW t, InBus(t) PROVE InBus(t)'
  <2>1. CASE s = Forwarder
    <3>1. Has(channel[s], t) => Head(channel[s]).name = t \/ Has(Tail(channel[s]), t)
      BY <1>1, <1>2, TailOK
    <3>2. held'[s] # NoEvent
      BY <1>3, <1>4, EventNames
    <3> QED
      BY <1>1, <1>4, <1>6, <2>1, <3>1, <3>2 DEF InBus
  <2>2. CASE s # Forwarder
    BY <1>1, <1>4, <1>6, <2>2, EventNames DEF InBus
  <2> QED
    BY <2>1, <2>2
<1> QED
  BY <1>4, <1>5, <1>6

LEMMA HandledType ==
  ASSUME BusTypeOK, NEW s \in Subscriber, Handled(s)
  PROVE  /\ BusTypeOK' /\ held'[s] = NoEvent
         /\ \A q \in Subscriber \ {s} : held'[q] = held[q]
         /\ \A t : InBus(t) => InBus(t)' \/ (s = Forwarder /\ held[s].name = t)
<1>1. /\ held \in [Subscriber -> Event \cup {NoEvent}]
      /\ held' = [held EXCEPT ![s] = NoEvent]
      /\ UNCHANGED <<publishQueue, current, rest, channel>>
  BY DEF Handled, BusTypeOK
<1>2. held'[s] = NoEvent /\ \A q \in Subscriber \ {s} : held'[q] = held[q]
  BY <1>1
<1>3. BusTypeOK'
  BY <1>1 DEF BusTypeOK
<1>4. ASSUME NEW t, InBus(t), ~(s = Forwarder /\ held[s].name = t) PROVE InBus(t)'
  BY <1>1, <1>2, <1>4, EventNames DEF InBus
<1> QED
  BY <1>2, <1>3, <1>4

-----------------------------------------------------------------------------
(* The steps *)

\* The parts of the type invariant beside the bus.
GoOK ==
  /\ pc \in [Call -> {"idle", "publish", "notify", "status"}]
  /\ arg \in [Call -> Event \cup {NoEvent}]
  /\ \A c \in Call : pc[c] = "publish" => arg[c] \in Event

ModeOK ==
  /\ up \in BOOLEAN /\ gui \in BOOLEAN /\ started \in BOOLEAN
  /\ forwarder \in {"starting", "running", "gone"}
  /\ forwarder # "running" => held[Forwarder] = NoEvent

ViewOK == stale \in SUBSET Topic /\ missed \in SUBSET Topic

LEMMA TypeParts == TypeInv <=> BusTypeOK /\ GoOK /\ ModeOK /\ ViewOK
  BY DEF TypeInv, AdminViewTypeOK, GoOK, ModeOK, ViewOK

\* What a goroutine does to the next steps and arguments.
LEMMA GotoType ==
  ASSUME GoOK, NEW c \in Call,
         NEW step \in {"idle", "publish", "notify", "status"},
         NEW e \in Event \cup {NoEvent}, step = "publish" => e \in Event,
         Goto(c, step, e)
  PROVE  /\ GoOK'
         /\ \A t : Announced(t) =>
              Announced(t)' \/ (pc[c] = "publish" /\ arg[c].name = t)
         /\ step = "publish" => Announced(e.name)'
<1>1. /\ pc \in [Call -> {"idle", "publish", "notify", "status"}]
      /\ arg \in [Call -> Event \cup {NoEvent}]
      /\ \A d \in Call : pc[d] = "publish" => arg[d] \in Event
  BY DEF GoOK
<1>2. /\ pc' = [pc EXCEPT ![c] = step] /\ arg' = [arg EXCEPT ![c] = e]
  BY DEF Goto
<1>3. /\ pc'[c] = step /\ arg'[c] = e
      /\ \A d \in Call \ {c} : pc'[d] = pc[d] /\ arg'[d] = arg[d]
  BY <1>1, <1>2
<1>4. ASSUME NEW t, Announced(t), ~(pc[c] = "publish" /\ arg[c].name = t)
      PROVE  Announced(t)'
  BY <1>3, <1>4 DEF Announced, GoOK
<1> QED
  BY <1>1, <1>2, <1>3, <1>4 DEF Announced, GoOK

\* A change adds topics to what is stale, and what is not announced to what is missed.
LEMMA ChangeType ==
  ASSUME ViewOK, NEW topics \in SUBSET Topic, NEW announced, Change(topics, announced)
  PROVE  /\ ViewOK'
         /\ forwarder # "gone" =>
              \A t \in stale' \ missed' : t \in stale \ missed \/ t \in announced
  BY DEF Change, ViewOK

LEMMA SameBus ==
  ASSUME BusTypeOK, UNCHANGED busVars
  PROVE  BusTypeOK' /\ UNCHANGED held /\ \A t : InBus(t) => InBus(t)'
  BY DEF busVars, BusTypeOK, InBus, Has

LEMMA SameGo ==
  ASSUME GoOK, UNCHANGED goVars
  PROVE  GoOK' /\ \A t : Announced(t) => Announced(t)'
  BY DEF goVars, GoOK, Announced

LEMMA SameMode ==
  ASSUME ModeOK, Unseen, held'[Forwarder] = held[Forwarder]
  PROVE  ModeOK'
  BY DEF Unseen, modeVars, ModeOK

LEMMA SameView ==
  ASSUME ViewOK, UNCHANGED viewVars
  PROVE  ViewOK'
  BY DEF viewVars, ViewOK

\* What a step that keeps FreshInv has to show.
LEMMA FreshStays ==
  ASSUME FreshInv, forwarder' # "gone" => forwarder # "gone",
         forwarder # "gone" =>
           /\ \A t \in stale' \ missed' : \/ t \in stale \ missed
                                          \/ (InBus(t) \/ Announced(t))'
           /\ \A t \in stale' \ missed' : InBus(t) \/ Announced(t) =>
                                            (InBus(t) \/ Announced(t))'
  PROVE  FreshInv'
  BY DEF FreshInv

Keeps == TypeInv' /\ (FreshInv => FreshInv')

\* A handler takes a step: it changes some topics, of which those in announced
\* will be in the event it holds or publishes.
LEMMA HandlerStep ==
  ASSUME TypeInv, NEW c \in Call, Unseen,
         NEW topics \in SUBSET Topic, NEW announced,
         Change(topics, announced) \/ UNCHANGED viewVars,
         BusTypeOK', UNCHANGED held, \A t : InBus(t) => InBus(t)',
         GoOK', \A t : Announced(t) => (InBus(t) \/ Announced(t))',
         \A t \in announced : (InBus(t) \/ Announced(t))'
  PROVE  Keeps
<1>1. BusTypeOK /\ GoOK /\ ModeOK /\ ViewOK
  BY TypeParts
<1>2. /\ ViewOK'
      /\ forwarder # "gone" =>
           \A t \in stale' \ missed' : t \in stale \ missed \/ t \in announced
  BY <1>1, ChangeType, SameView DEF viewVars
<1>3. ModeOK' /\ forwarder' = forwarder
  BY <1>1, SameMode DEF Unseen
<1>4. TypeInv'
  BY <1>2, <1>3 DEF TypeInv, AdminViewTypeOK, GoOK, ModeOK, ViewOK
<1>5. FreshInv => FreshInv'
  BY <1>2, <1>3, FreshStays
<1> QED
  BY <1>4, <1>5 DEF Keeps

LEMMA ChangeAndPublishStep ==
  ASSUME TypeInv, NEW c \in Call, NEW topics \in SUBSET Topic, NEW name \in Topic,
         ChangeAndPublish(c, topics, name)
  PROVE  Keeps
<1>0. /\ BusTypeOK' /\ UNCHANGED held /\ (\A t : InBus(t) => InBus(t)')
      /\ GoOK /\ Unseen /\ pc[c] = "idle"
  BY TypeParts, SameBus DEF ChangeAndPublish, Begin
<1>1. CASE Change(topics, {name}) /\ Goto(c, "publish", Changed(name))
  <2> DEFINE e == Changed(name)
  <2>0. e \in Event /\ e.name = name /\ Goto(c, "publish", e)
    BY <1>1, EventNames
  <2> HIDE DEF e
  <2>1. GoOK' /\ (\A t : Announced(t) => Announced(t)') /\ Announced(e.name)'
    BY <1>0, <2>0, GotoType
  <2>2. \A t \in {name} : Announced(t)'
    BY <2>0, <2>1 DEF Announced
  <2> QED
    BY <1>0, <1>1, <2>1, <2>2, HandlerStep
<1>2. CASE Change(topics, {}) /\ Done(c)
  <2>1. GoOK' /\ \A t : Announced(t) => Announced(t)'
    BY <1>0, <1>2, GotoType DEF Done
  <2> QED
    BY <1>0, <1>2, <2>1, HandlerStep
<1> QED
  BY <1>1, <1>2 DEF ChangeAndPublish

\* A handler that publishes at once, and then perhaps has more to do.
LEMMA PublishStep ==
  ASSUME TypeInv, NEW c \in Call, Unseen, NEW e \in Event, Publish(e),
         \/ UNCHANGED viewVars
         \/ e.name \in Topic /\ Change({e.name}, {e.name}),
         \/ UNCHANGED goVars
         \/ \E step \in {"idle", "notify", "status"} : Goto(c, step, NoEvent),
         pc[c] = "publish" => arg[c] = e
  PROVE  Keeps
<1>1. GoOK /\ BusTypeOK' /\ UNCHANGED held /\ \A t : InBus(t) \/ e.name = t => InBus(t)'
  BY TypeParts, PublishType
<1>2. GoOK' /\ \A t : Announced(t) => (InBus(t) \/ Announced(t))'
  <2>1. CASE UNCHANGED goVars
    BY <1>1, <2>1, SameGo
  <2>2. ASSUME NEW step \in {"idle", "notify", "status"}, Goto(c, step, NoEvent)
        PROVE  GoOK' /\ \A t : Announced(t) => (InBus(t) \/ Announced(t))'
    <3>1. /\ GoOK'
          /\ \A t : Announced(t) => Announced(t)' \/ (pc[c] = "publish" /\ arg[c].name = t)
      BY <1>1, <2>2, GotoType
    <3> QED
      BY <1>1, <3>1
  <2> QED
    BY <2>1, <2>2
<1>3. CASE UNCHANGED viewVars
  <2> DEFINE none == {}
  <2>1. none \in SUBSET Topic /\ \A t \in none : (InBus(t) \/ Announced(t))'
    OBVIOUS
  <2> HIDE DEF none
  <2> QED
    BY <1>1, <1>2, <1>3, <2>1, HandlerStep
<1>4. CASE e.name \in Topic /\ Change({e.name}, {e.name})
  <2>1. InBus(e.name)'
    BY <1>1
  <2>2. \A t \in {e.name} : InBus(t)'
    BY <1>1
  <2> QED
    BY <1>1, <1>2, <1>4, <2>2, HandlerStep
<1> QED
  BY <1>3, <1>4

LEMMA SetStatusStep ==
  ASSUME TypeInv, NEW c \in Call, SetStatus(c)
  PROVE  Keeps
<1>1. /\ BusTypeOK' /\ UNCHANGED held /\ (\A t : InBus(t) => InBus(t)')
      /\ GoOK /\ Unseen /\ pc[c] = "status" /\ Change({"admin"}, {})
  BY TypeParts, SameBus DEF SetStatus
<1>2. PICK step \in {"idle", "notify"} : Goto(c, step, NoEvent)
  BY DEF SetStatus, Done
<1>3. GoOK' /\ \A t : Announced(t) => Announced(t)'
  BY <1>1, <1>2, GotoType
<1> QED
  BY <1>1, <1>3, HandlerStep DEF Topic

LEMMA CommandStep ==
  ASSUME TypeInv, NEW c \in Call, Continue(c) \/ NewCommand(c)
  PROVE  Keeps
<1>0. /\ GoOK
      /\ {"clients", "radios"} \subseteq Topic /\ "clients" \in Topic
      /\ {"clients"} \subseteq Topic /\ {"admin"} \subseteq Topic /\ "admin" \in Topic
  BY TypeParts DEF Topic
<1>1. CASE Login(c) \/ Disconnect(c) \/ UpdateClientInfo(c) \/ SwitchServer(c)
  BY <1>0, <1>1, ChangeAndPublishStep
  DEF Login, Disconnect, UpdateClientInfo, SwitchServer
<1>2. CASE UpdateRadioInfo(c)
  <2>1. /\ BusTypeOK' /\ UNCHANGED held /\ (\A t : InBus(t) => InBus(t)')
        /\ Unseen /\ pc[c] = "idle" /\ Change({"radios"}, {"radios"})
    BY <1>2, TypeParts, SameBus DEF UpdateRadioInfo, Begin
  <2> DEFINE e == Changed("radios")
  <2>2. e \in Event /\ e.name = "radios" /\ Goto(c, "publish", e)
    BY <1>2, EventNames DEF UpdateRadioInfo, Topic
  <2> HIDE DEF e
  <2>3. GoOK' /\ (\A t : Announced(t) => Announced(t)') /\ Announced(e.name)'
    BY <1>0, <2>1, <2>2, GotoType
  <2>4. \A t \in {"radios"} : Announced(t)'
    BY <2>2, <2>3 DEF Announced
  <2> QED
    BY <2>1, <2>3, <2>4, HandlerStep DEF Topic
<1>3. CASE SyncClient(c)
  <2> DEFINE e == Changed("clients")
  <2>1. e \in Event /\ Publish(e) /\ UNCHANGED <<goVars, viewVars>> /\ Unseen
        /\ pc[c] # "publish"
    BY <1>0, <1>3, EventNames DEF SyncClient, Begin
  <2> HIDE DEF e
  <2> QED
    BY <2>1, PublishStep
<1>4. CASE PublishEvent(c)
  <2>1. arg[c] \in Event
    BY <1>0, <1>4 DEF PublishEvent, GoOK
  <2> QED
    BY <1>4, <2>1, PublishStep DEF PublishEvent, Done
<1>5. CASE CommandClients(c)
  <2>1. PICK topic \in {"clients", "radios"} :
          /\ Change({topic}, {topic}) /\ Publish(Changed(topic)) /\ Begin(c)
          /\ Goto(c, "notify", NoEvent) /\ Unseen
    BY <1>5 DEF CommandClients
  <2> DEFINE e == Changed(topic)
  <2>2. e \in Event /\ e.name = topic /\ topic \in Topic /\ Publish(e)
    BY <2>1, EventNames DEF Topic
  <2> HIDE DEF e
  <2>3. Change({e.name}, {e.name})
    BY <2>1, <2>2 DEF Change
  <2> QED
    BY <2>1, <2>2, <2>3, PublishStep DEF Begin
<1>6. CASE Notify(c)
  <2>1. Publish(Notification) /\ UNCHANGED viewVars /\ Unseen /\ Goto(c, "idle", NoEvent)
        /\ pc[c] # "publish"
    BY <1>6 DEF Notify, Done
  <2> QED
    BY <2>1, EventNames, PublishStep
<1>7. CASE StartServer(c)
  <2> DEFINE e == Changed("admin")
  <2>1. e \in Event /\ Publish(e) /\ UNCHANGED viewVars /\ Unseen /\ pc[c] # "publish"
        /\ Goto(c, "status", NoEvent)
    BY <1>0, <1>7, EventNames DEF StartServer, Begin
  <2> HIDE DEF e
  <2> QED
    BY <2>1, PublishStep
<1>8. CASE SetStatus(c)
  BY <1>8, SetStatusStep
<1> QED
  BY <1>1, <1>2, <1>3, <1>4, <1>5, <1>6, <1>7, <1>8 DEF Continue, NewCommand

LEMMA SubscriberStep ==
  ASSUME TypeInv, Forward \/ HandleNotification
  PROVE  Keeps
<1>0. BusTypeOK /\ GoOK /\ ModeOK /\ ViewOK /\ Forwarder \in Subscriber
      /\ Notifier \in Subscriber /\ Forwarder # Notifier
  BY TypeParts, EventNames
<1>1. CASE StartForwarder
  <2>1. /\ BusTypeOK' /\ UNCHANGED held /\ (\A t : InBus(t) => InBus(t)')
        /\ GoOK' /\ (\A t : Announced(t) => Announced(t)')
    BY <1>0, <1>1, SameBus, SameGo DEF StartForwarder
  <2>2. /\ UNCHANGED modeVars /\ forwarder = "starting" /\ forwarder' \in {"running", "gone"}
        /\ UNCHANGED <<stale, missed>> \/ (stale' = {} /\ missed' = {})
    BY <1>1 DEF StartForwarder
  <2>3. ModeOK' /\ ViewOK'
    BY <1>0, <2>1, <2>2 DEF ModeOK, ViewOK, modeVars
  <2>4. FreshInv => FreshInv'
    BY <2>1, <2>2, FreshStays
  <2> QED
    BY <2>1, <2>3, <2>4 DEF Keeps, TypeInv, AdminViewTypeOK, GoOK, ModeOK, ViewOK
<1>2. ASSUME NEW s \in Subscriber, Receive(s) \/ (Handled(s) /\ s # Forwarder),
             s = Forwarder => forwarder = "running",
             UNCHANGED <<modeVars, forwarder, goVars, viewVars>>
      PROVE  Keeps
  <2>1. /\ BusTypeOK' /\ (\A t : InBus(t) => InBus(t)')
        /\ s # Forwarder => held'[Forwarder] = held[Forwarder]
    BY <1>0, <1>2, ReceiveType, HandledType
  <2>2. GoOK' /\ ViewOK' /\ \A t : Announced(t) => Announced(t)'
    BY <1>0, <1>2, SameGo, SameView
  <2>3. ModeOK'
    BY <1>0, <1>2, <2>1 DEF ModeOK, modeVars
  <2>4. FreshInv => FreshInv'
    BY <1>2, <2>1, <2>2, FreshStays DEF viewVars
  <2> QED
    BY <2>1, <2>2, <2>3, <2>4 DEF Keeps, TypeInv, AdminViewTypeOK, GoOK, ModeOK, ViewOK
<1>3. CASE TakeEvent
  BY <1>0, <1>2, <1>3 DEF TakeEvent
<1>4. CASE HandleNotification
  BY <1>0, <1>2, <1>4 DEF HandleNotification
<1>5. CASE Emit
  <2>1. /\ BusTypeOK' /\ held'[Forwarder] = NoEvent
        /\ \A t : InBus(t) => InBus(t)' \/ held[Forwarder].name = t
    BY <1>0, <1>5, HandledType DEF Emit
  <2>2. /\ stale' = stale \ {held[Forwarder].name}
        /\ missed' = missed \ {held[Forwarder].name}
        /\ UNCHANGED <<modeVars, forwarder, goVars>>
    BY <1>5 DEF Emit
  <2>3. GoOK' /\ \A t : Announced(t) => Announced(t)'
    BY <1>0, <2>2, SameGo
  <2>4. ModeOK' /\ ViewOK'
    BY <1>0, <2>1, <2>2 DEF ModeOK, ViewOK, modeVars
  <2>5. \A t \in stale' \ missed' : t \in stale \ missed /\ t # held[Forwarder].name
    BY <2>2
  <2>6. FreshInv => FreshInv'
    BY <2>1, <2>2, <2>3, <2>5, FreshStays
  <2> QED
    BY <2>1, <2>3, <2>4, <2>6 DEF Keeps, TypeInv, AdminViewTypeOK, GoOK, ModeOK, ViewOK
<1> QED
  BY <1>1, <1>3, <1>4, <1>5 DEF Forward

\* The event that is dropped for want of room is counted as missed.
LEMMA DispatcherStep ==
  ASSUME TypeInv, RunDispatcher
  PROVE  Keeps
<1>0. BusTypeOK /\ GoOK /\ ModeOK /\ ViewOK
  BY TypeParts
<1>1. /\ UNCHANGED <<modeVars, forwarder, goVars, stale>>
      /\ missed \subseteq missed' /\ missed' \subseteq missed \cup stale
      /\ Forwarder \in rest \ rest' /\ ~HasRoom(Forwarder) /\ forwarder # "gone"
           => {current.name} \cap stale \subseteq missed'
  BY DEF RunDispatcher
<1>2. /\ BusTypeOK' /\ UNCHANGED held
      /\ \A t : InBus(t) => \/ InBus(t)'
                            \/ /\ Forwarder \in rest \ rest' /\ current.name = t
                               /\ ~HasRoom(Forwarder)
  BY <1>0, TakeType, SendType DEF RunDispatcher, Dispatch
<1>3. GoOK' /\ \A t : Announced(t) => Announced(t)'
  BY <1>0, <1>1, SameGo
<1>4. ModeOK' /\ ViewOK'
  BY <1>0, <1>1, <1>2 DEF ModeOK, ViewOK, modeVars
<1>5. FreshInv => FreshInv'
  <2>1. ASSUME forwarder # "gone", NEW t \in stale' \ missed', InBus(t) \/ Announced(t)
        PROVE  (InBus(t) \/ Announced(t))'
    BY <1>1, <1>2, <1>3, <2>1
  <2> QED
    BY <1>1, <2>1, FreshStays
<1> QED
  BY <1>2, <1>3, <1>4, <1>5 DEF Keeps, TypeInv, AdminViewTypeOK, GoOK, ModeOK, ViewOK

LEMMA ProcessStep ==
  ASSUME TypeInv, StartUp \/ Crash \/ Restart \/ UNCHANGED vars
  PROVE  Keeps
<1>0. BusTypeOK /\ GoOK /\ ModeOK /\ ViewOK /\ Forwarder \in Subscriber
  BY TypeParts, EventNames
<1>1. CASE Crash
  <2>1. /\ publishQueue' = <<>> /\ current' = NoEvent /\ rest' = {}
        /\ channel' = [s \in Subscriber |-> <<>>]
        /\ held' = [s \in Subscriber |-> NoEvent]
    BY <1>1 DEF Crash, BusCrash
  <2>2. BusTypeOK'
    BY <2>1, BusAssumption DEF BusTypeOK
  <2>3. GoOK' /\ ModeOK' /\ ViewOK' /\ FreshInv'
    BY <1>0, <1>1, <2>1 DEF Crash, GoOK, ModeOK, ViewOK, FreshInv
  <2> QED
    BY <2>2, <2>3 DEF Keeps, TypeInv, AdminViewTypeOK, GoOK, ModeOK, ViewOK
<1>2. CASE StartUp \/ Restart \/ UNCHANGED vars
  <2>1. /\ UNCHANGED <<busVars, forwarder, goVars, viewVars, gui>>
        /\ up' \in {up, TRUE} /\ started' \in {started, TRUE}
    BY <1>2 DEF StartUp, Restart, vars, modeVars, busVars, goVars, viewVars
  <2>2. /\ BusTypeOK' /\ UNCHANGED held /\ (\A t : InBus(t) => InBus(t)')
        /\ GoOK' /\ (\A t : Announced(t) => Announced(t)')
        /\ ViewOK'
    BY <1>0, <2>1, SameBus, SameGo, SameView
  <2>3. ModeOK'
    BY <1>0, <2>1, <2>2 DEF ModeOK
  <2>4. FreshInv => FreshInv'
    BY <2>1, <2>2, FreshStays DEF viewVars
  <2> QED
    BY <2>2, <2>3, <2>4 DEF Keeps, TypeInv, AdminViewTypeOK, GoOK, ModeOK, ViewOK
<1> QED
  BY <1>1, <1>2

LEMMA Step == TypeInv /\ [AdminViewNext]_vars => Keeps
  BY SubscriberStep, DispatcherStep, ProcessStep, CommandStep DEF AdminViewNext

LEMMA InitTypes == AdminViewInit => TypeInv /\ FreshInv
<1> SUFFICES ASSUME AdminViewInit PROVE TypeInv /\ FreshInv
  OBVIOUS
<1>1. BusTypeOK
  BY BusAssumption DEF AdminViewInit, BusInit, BusTypeOK
<1>2. GoOK /\ ModeOK /\ ViewOK /\ FreshInv
  BY EventNames DEF AdminViewInit, BusInit, GoOK, ModeOK, ViewOK, FreshInv
<1> QED
  BY <1>1, <1>2, TypeParts

LEMMA InvAlways == AdminViewSpec => []TypeInv /\ []FreshInv
<1>1. TypeInv /\ FreshInv /\ [AdminViewNext]_vars => TypeInv' /\ FreshInv'
  BY Step DEF Keeps
<1> QED
  BY <1>1, InitTypes, PTL DEF AdminViewSpec

-----------------------------------------------------------------------------
(* The theorems *)

\* No channel of the bus exceeds its capacity, the dispatcher holds an event as
\* long as there is a subscriber to offer it to, and a forwarder that is not
\* running holds none.
THEOREM AdminViewTypes == AdminViewSpec => []AdminViewTypeOK
<1>1. TypeInv => AdminViewTypeOK
  BY DEF TypeInv
<1> QED
  BY <1>1, InvAlways, PTL

\* When nothing is on its way, the GUI shows what the server holds, but for the
\* topics it missed: no interleaving of handlers, dispatcher and forwarder leaves
\* it out of date in any other way.
THEOREM ViewAlwaysFresh == AdminViewSpec => []ViewIsFresh
<1>1. TypeInv /\ FreshInv => ViewIsFresh
  <2> SUFFICES ASSUME TypeInv, FreshInv, Settled, forwarder = "running",
                      NEW t \in stale \ missed
               PROVE  FALSE
    BY DEF ViewIsFresh
  <2>1. ~InBus(t)
    <3>1. ~Has(<<>>, t)
      BY DEF Has
    <3>2. rest = {}
      BY TypeParts DEF Settled, BusTypeOK
    <3> QED
      BY <3>1, <3>2, EventNames DEF Settled, InBus, Has
  <2>2. ~Announced(t)
    BY DEF Settled, Announced
  <2> QED
    BY <2>1, <2>2 DEF FreshInv
<1> QED
  BY <1>1, InvAlways, PTL

-----------------------------------------------------------------------------
(* The queue of a subscriber to everything.  What is pending for such a    *)
(* subscriber is all of the queue, so the bus implements LossyQueues for   *)
(* it without a selection.                                                 *)

Wildcards == {s \in Subscriber : Subscription[s] = Any}

Offered(s) == IF s \in rest THEN <<current>> ELSE <<>>
Backlog(s) == (channel[s] \o Offered(s)) \o publishQueue

WildPending  == [s \in Wildcards |-> Backlog(s)]
WildReceived == [s \in Wildcards |-> held[s]]
WildInterest == [s \in Wildcards |-> Event]

Wild == INSTANCE LossyQueues
          WITH Subscriber <- Wildcards, Interest <- WildInterest,
               pending <- WildPending, received <- WildReceived

LEMMA OneEvent == \A e \in Event : <<e>> \in Seq(Event)
  OBVIOUS

LEMMA BacklogGrows ==
  ASSUME NEW a \in Seq(Event), NEW b \in Seq(Event), NEW q \in Seq(Event), NEW e \in Event
  PROVE  (a \o b) \o Append(q, e) = Append((a \o b) \o q, e)
<1>1. a \o b \in Seq(Event) /\ (a \o b) \o q \in Seq(Event) /\ <<e>> \in Seq(Event)
  BY ConcatProperties, OneEvent
<1>2. (a \o b) \o (q \o <<e>>) = ((a \o b) \o q) \o <<e>>
  BY <1>1, ConcatAssociative
<1> QED
  BY <1>1, <1>2, AppendIsConcat

\* Between a channel and the queue, nothing or one event.
LEMMA BacklogMoves ==
  ASSUME NEW a \in Seq(Event), NEW b \in Seq(Event), NEW q \in Seq(Event), NEW e \in Event
  PROVE  /\ (Append(a, e) \o <<>>) \o q = (a \o <<e>>) \o q
         /\ q # <<>> => (a \o <<>>) \o q = (a \o <<Head(q)>>) \o Tail(q)
         /\ a # <<>> => /\ (a \o b) \o q # <<>>
                        /\ Head((a \o b) \o q) = Head(a)
                        /\ Tail((a \o b) \o q) = (Tail(a) \o b) \o q
<1>1. (Append(a, e) \o <<>>) \o q = (a \o <<e>>) \o q
  <2>1. a \o <<e>> \in Seq(Event)
    BY ConcatProperties, OneEvent
  <2>2. (a \o <<e>>) \o <<>> = a \o <<e>>
    BY <2>1, ConcatEmptySeq
  <2> QED
    BY <2>2, AppendIsConcat
<1>2. ASSUME q # <<>> PROVE (a \o <<>>) \o q = (a \o <<Head(q)>>) \o Tail(q)
  <2>1. Head(q) \in Event /\ Tail(q) \in Seq(Event) /\ <<Head(q)>> \in Seq(Event)
    BY <1>2, HeadTailProperties, OneEvent
  <2>2. q = <<Head(q)>> \o Tail(q)
    BY <1>2, <2>1
  <2>3. (a \o <<Head(q)>>) \o Tail(q) = a \o (<<Head(q)>> \o Tail(q))
    BY <2>1, ConcatAssociative
  <2>4. a \o <<>> = a
    BY ConcatEmptySeq
  <2> QED
    BY <2>2, <2>3, <2>4
<1>3. ASSUME a # <<>>
      PROVE  /\ (a \o b) \o q # <<>>
             /\ Head((a \o b) \o q) = Head(a)
             /\ Tail((a \o b) \o q) = (Tail(a) \o b) \o q
  <2>1. Head(a) \in Event /\ Tail(a) \in Seq(Event)
    BY <1>3, HeadTailProperties
  <2> DEFINE r == (Tail(a) \o b) \o q
  <2>2. r \in Seq(Event)
    BY <2>1, ConcatProperties
  <2>3. (a \o b) \o q = <<Head(a)>> \o r
    <3>1. a = <<Head(a)>> \o Tail(a) /\ <<Head(a)>> \in Seq(Event)
      BY <1>3, <2>1, OneEvent
    <3>2. (<<Head(a)>> \o Tail(a)) \o b = <<Head(a)>> \o (Tail(a) \o b)
      BY <2>1, <3>1, ConcatAssociative
    <3>3. Tail(a) \o b \in Seq(Event)
      BY <2>1, ConcatProperties
    <3>4. (<<Head(a)>> \o (Tail(a) \o b)) \o q = <<Head(a)>> \o r
      BY <3>1, <3>3, ConcatAssociative
    <3> QED
      BY <3>1, <3>2, <3>4
  <2> HIDE DEF r
  <2>4. ASSUME NEW h \in Event
        PROVE  /\ <<h>> \o r # <<>> /\ Head(<<h>> \o r) = h /\ Tail(<<h>> \o r) = r
    BY <2>2
  <2> QED
    BY <2>1, <2>3, <2>4 DEF r
<1> QED
  BY <1>1, <1>2, <1>3

LEMMA RemoveMiddle ==
  ASSUME NEW a \in Seq(Event), NEW q \in Seq(Event), NEW e \in Event
  PROVE  /\ Len(a) + 1 \in 1..Len((a \o <<e>>) \o q)
         /\ Wild!RemoveAt((a \o <<e>>) \o q, Len(a) + 1) = (a \o <<>>) \o q
<1> DEFINE p == a \o <<e>>
           s == p \o q
<1>1. /\ p \in Seq(Event) /\ Len(p) = Len(a) + 1 /\ Len(a) \in Nat /\ Len(q) \in Nat
      /\ \A i \in 1..Len(a) : p[i] = a[i]
  BY OneEvent, ConcatProperties
<1> HIDE DEF p
<1>2. /\ s \in Seq(Event) /\ Len(s) = Len(a) + 1 + Len(q)
      /\ \A i \in 1..Len(a) : s[i] = a[i]
      /\ \A i \in 1..Len(q) : s[Len(a) + 1 + i] = q[i]
  <2>1. /\ s \in Seq(Event) /\ Len(s) = Len(p) + Len(q)
        /\ \A i \in 1..Len(p) + Len(q) : s[i] = IF i <= Len(p) THEN p[i] ELSE q[i - Len(p)]
    BY <1>1, ConcatProperties
  <2> HIDE DEF s
  <2>2. \A i \in 1..Len(a) : i \in 1..Len(p) + Len(q) /\ i <= Len(p)
    BY <1>1
  <2>3. \A i \in 1..Len(q) : LET j == Len(a) + 1 + i IN
          j \in 1..Len(p) + Len(q) /\ ~(j <= Len(p)) /\ j - Len(p) = i
    BY <1>1
  <2>4. \A i \in 1..Len(a) : s[i] = a[i]
    BY <1>1, <2>1, <2>2
  <2>5. \A i \in 1..Len(q) : s[Len(a) + 1 + i] = q[i]
    BY <2>1, <2>3
  <2> QED
    BY <1>1, <2>1, <2>4, <2>5
<1> HIDE DEF s
<1>3. SubSeq(s, 1, Len(a)) = a
  <2>1. \A i \in 1..Len(a) : s[i] \in Event
    BY <1>2
  <2>2. /\ SubSeq(s, 1, Len(a)) \in Seq(Event) /\ Len(SubSeq(s, 1, Len(a))) = Len(a)
        /\ \A i \in 1..Len(a) : SubSeq(s, 1, Len(a))[i] = s[i]
    BY <1>1, <2>1, SubSeqProperties
  <2> QED
    BY <1>2, <2>2, SeqEqual
<1>4. SubSeq(s, Len(a) + 2, Len(s)) = q
  <2>1. \A i \in Len(a) + 2..Len(s) : s[i] \in Event
    BY <1>1, <1>2
  <2> DEFINE d == SubSeq(s, Len(a) + 2, Len(s))
  <2>2. /\ d \in Seq(Event)
        /\ Len(d) = IF Len(a) + 2 <= Len(s) THEN Len(s) - (Len(a) + 2) + 1 ELSE 0
        /\ \A i \in 1..Len(s) - (Len(a) + 2) + 1 : d[i] = s[Len(a) + 2 + i - 1]
    <3>1. Len(a) + 2 \in Int /\ Len(s) \in Int
      BY <1>1, <1>2
    <3> QED
      BY <2>1, <3>1, SubSeqProperties
  <2> HIDE DEF d
  <2>3. Len(d) = Len(q) /\ \A i \in 1..Len(d) : d[i] = q[i]
    <3>1. Len(s) - (Len(a) + 2) + 1 = Len(q) /\ Len(d) = Len(q)
      BY <1>1, <1>2, <2>2
    <3>2. \A i \in 1..Len(q) : Len(a) + 2 + i - 1 = Len(a) + 1 + i
      BY <1>1
    <3> QED
      BY <1>2, <2>2, <3>1, <3>2
  <2>4. d = q
    BY <2>2, <2>3, SeqEqual
  <2> QED
    BY <2>4 DEF d
<1>5. Wild!RemoveAt(s, Len(a) + 1) = a \o q
  <2>1. (Len(a) + 1) - 1 = Len(a) /\ (Len(a) + 1) + 1 = Len(a) + 2
    BY <1>1
  <2> QED
    BY <1>3, <1>4, <2>1 DEF Wild!RemoveAt
<1> QED
  BY <1>1, <1>2, <1>5, ConcatEmptySeq DEF s, p

WildNext == [Wild!Next]_(Wild!vars)

LEMMA BacklogType ==
  ASSUME BusTypeOK, NEW s \in Subscriber
  PROVE  /\ channel[s] \in Seq(Event) /\ Offered(s) \in Seq(Event)
         /\ publishQueue \in Seq(Event) /\ Backlog(s) \in Seq(Event)
<1>1. channel[s] \in Seq(Event) /\ publishQueue \in Seq(Event)
  BY DEF BusTypeOK
<1>2. Offered(s) \in Seq(Event)
  <2>1. <<>> \in Seq(Event)
    OBVIOUS
  <2> QED
    BY <2>1, OneEvent DEF BusTypeOK, Offered
<1> QED
  BY <1>1, <1>2, ConcatProperties DEF Backlog

\* A step that leaves every backlog as it is.
LEMMA WildStutter ==
  ASSUME UNCHANGED held, \A s \in Wildcards : Backlog(s)' = Backlog(s)
  PROVE  WildNext
<1>1. WildPending' = WildPending /\ WildReceived' = WildReceived
  BY DEF WildPending, WildReceived, Wildcards
<1> QED
  BY <1>1 DEF WildNext, Wild!vars

LEMMA WildPublish ==
  ASSUME BusTypeOK, NEW e \in Event, Publish(e)
  PROVE  WildNext
<1>1. publishQueue' = Append(publishQueue, e) /\ UNCHANGED <<current, rest, channel, held>>
  BY DEF Publish
<1>2. ASSUME NEW s \in Wildcards PROVE Backlog(s)' = Append(Backlog(s), e)
  <2>1. /\ channel[s] \in Seq(Event) /\ Offered(s) \in Seq(Event)
        /\ publishQueue \in Seq(Event)
    BY BacklogType DEF Wildcards
  <2>2. Offered(s)' = Offered(s) /\ channel'[s] = channel[s]
    BY <1>1 DEF Offered
  <2>3. LET a == channel[s] \o Offered(s)
        IN  a \o Append(publishQueue, e) = Append(a \o publishQueue, e)
    BY <2>1, BacklogGrows
  <2> QED
    BY <1>1, <2>2, <2>3 DEF Backlog
<1>3. Wild!Publish(e)
  BY <1>1, <1>2 DEF Wild!Publish, WildPending, WildReceived, WildInterest, Wildcards
<1> QED
  BY <1>3 DEF WildNext, Wild!Next

LEMMA WildTake ==
  ASSUME BusTypeOK, Take
  PROVE  WildNext
<1>1. /\ publishQueue \in Seq(Event) /\ publishQueue # <<>> /\ rest = {}
      /\ current' = Head(publishQueue) /\ publishQueue' = Tail(publishQueue)
      /\ rest' = Interested(current') /\ UNCHANGED <<channel, held>>
  BY DEF Take, BusTypeOK
<1>2. current' \in Event
  BY <1>1, TailOK
<1>3. ASSUME NEW s \in Wildcards PROVE Backlog(s)' = Backlog(s)
  <2>1. s \in Subscriber /\ s \in rest'
    BY <1>1, <1>2, <1>3 DEF Wildcards, Interested, Interest
  <2>2. Offered(s)' = <<Head(publishQueue)>> /\ Offered(s) = <<>>
    BY <1>1, <2>1 DEF Offered
  <2> QED
    BY <1>1, <1>2, <2>1, <2>2, BacklogType, BacklogMoves DEF Backlog
<1> QED
  BY <1>1, <1>3, WildStutter

\* The event of s goes into its channel, or is lost behind a full one.
LEMMA WildSend ==
  ASSUME BusTypeOK, NEW s \in Subscriber, Send(s)
  PROVE  WildNext
<1>1. /\ s \in rest /\ rest' = rest \ {s} /\ UNCHANGED <<publishQueue, held>>
      /\ current' = IF rest' = {} THEN NoEvent ELSE current
      /\ channel' = [channel EXCEPT ![s] = IF HasRoom(s) THEN Append(@, current) ELSE @]
  BY DEF Send, Sent, NextInLine
<1>2. /\ channel \in [Subscriber -> Seq(Event)] /\ current \in Event
      /\ publishQueue \in Seq(Event)
  BY <1>1 DEF BusTypeOK
<1>3. /\ \A w \in Subscriber \ {s} : channel'[w] = channel[w]
      /\ channel'[s] = IF HasRoom(s) THEN Append(channel[s], current) ELSE channel[s]
  BY <1>1, <1>2
<1>4. ASSUME NEW w \in Subscriber \ {s} PROVE Backlog(w)' = Backlog(w)
  <2>1. Offered(w)' = Offered(w)
    BY <1>1 DEF Offered
  <2> QED
    BY <1>1, <1>3, <2>1 DEF Backlog
<1>5. Offered(s) = <<current>> /\ Offered(s)' = <<>>
  BY <1>1 DEF Offered
<1>6. CASE HasRoom(s)
  <2>1. Backlog(s)' = (Append(channel[s], current) \o <<>>) \o publishQueue
    BY <1>1, <1>3, <1>5, <1>6 DEF Backlog
  <2>2. Backlog(s) = (channel[s] \o <<current>>) \o publishQueue
    BY <1>5 DEF Backlog
  <2>3. Backlog(s)' = Backlog(s)
    BY <1>2, <2>1, <2>2, BacklogMoves, OneEvent
  <2> QED
    BY <1>1, <1>4, <2>3, WildStutter DEF Wildcards
<1>7. CASE ~HasRoom(s) /\ s \notin Wildcards
  BY <1>1, <1>4, <1>7, WildStutter DEF Wildcards
<1>8. CASE ~HasRoom(s) /\ s \in Wildcards
  <2> DEFINE i == Len(channel[s]) + 1
             b == Backlog(s)
  <2>1. b = (channel[s] \o <<current>>) \o publishQueue
    BY <1>5 DEF Backlog
  <2>2. i \in 1..Len(b) /\ i > Capacity
    <3>1. i > Capacity
      BY <1>2, <1>8, BusAssumption DEF HasRoom
    <3>2. i \in 1..Len((channel[s] \o <<current>>) \o publishQueue)
      BY <1>2, RemoveMiddle
    <3> QED
      BY <2>1, <3>1, <3>2
  <2>3. Backlog(s)' = Wild!RemoveAt(b, i)
    <3>1. Backlog(s)' = (channel[s] \o <<>>) \o publishQueue
      BY <1>1, <1>3, <1>5, <1>8 DEF Backlog
    <3>2. Wild!RemoveAt((channel[s] \o <<current>>) \o publishQueue, i)
            = (channel[s] \o <<>>) \o publishQueue
      BY <1>2, RemoveMiddle
    <3> QED
      BY <2>1, <3>1, <3>2
  <2>4. b \in Seq(Event)
    BY BacklogType
  <2> HIDE DEF i, b
  <2>5. WildPending' = [WildPending EXCEPT ![s] = Wild!RemoveAt(WildPending[s], i)]
    <3>1. WildPending[s] = b
      BY <1>8 DEF WildPending, b
    <3>2. WildPending' = [w \in Wildcards |-> Backlog(w)']
      BY DEF WildPending, Wildcards
    <3>3. \A w \in Wildcards \ {s} : Backlog(w)' = Backlog(w)
      BY <1>4 DEF Wildcards
    <3>4. Backlog(s)' = Wild!RemoveAt(WildPending[s], i)
      BY <2>3, <3>1
    <3> QED
      BY <1>8, <3>2, <3>3, <3>4 DEF WildPending
  <2>6. i \in DOMAIN WildPending[s]
    BY <1>8, <2>2, <2>4 DEF WildPending, b
  <2>7. UNCHANGED WildReceived
    BY <1>1 DEF WildReceived, Wildcards
  <2>8. Wild!Drop(s)
    BY <2>2, <2>5, <2>6, <2>7 DEF Wild!Drop
  <2> QED
    BY <1>8, <2>8 DEF WildNext, Wild!Next
<1> QED
  BY <1>6, <1>7, <1>8

LEMMA WildReceive ==
  ASSUME BusTypeOK, NEW s \in Subscriber, Receive(s)
  PROVE  WildNext
<1>1. /\ channel[s] # <<>> /\ held[s] = NoEvent
      /\ held' = [held EXCEPT ![s] = Head(channel[s])]
      /\ channel' = [channel EXCEPT ![s] = Tail(channel[s])]
      /\ UNCHANGED <<publishQueue, current, rest>>
  BY DEF Receive
<1>2. /\ channel \in [Subscriber -> Seq(Event)] /\ publishQueue \in Seq(Event)
      /\ held \in [Subscriber -> Event \cup {NoEvent}]
  BY DEF BusTypeOK
<1>3. ASSUME NEW w \in Subscriber \ {s}
      PROVE  Backlog(w)' = Backlog(w) /\ held'[w] = held[w]
  BY <1>1, <1>2 DEF Backlog, Offered
<1>4. /\ Backlog(s) # <<>> /\ Head(Backlog(s)) = Head(channel[s])
      /\ Backlog(s)' = Tail(Backlog(s))
  <2>1. Offered(s) \in Seq(Event) /\ Offered(s)' = Offered(s)
    BY <1>1, BacklogType DEF Offered
  <2>2. LET b == (channel[s] \o Offered(s)) \o publishQueue
        IN  /\ b # <<>> /\ Head(b) = Head(channel[s])
            /\ Tail(b) = (Tail(channel[s]) \o Offered(s)) \o publishQueue
    <3>1. Head(channel[s]) \in Event
      BY <1>1, <1>2, TailOK
    <3> QED
      BY <1>1, <1>2, <2>1, <3>1, BacklogMoves
  <2>3. channel'[s] = Tail(channel[s])
    BY <1>1, <1>2
  <2> QED
    BY <1>1, <2>1, <2>2, <2>3 DEF Backlog
<1>5. CASE s \in Wildcards
  <2>1. /\ WildPending[s] = Backlog(s) /\ WildReceived[s] = held[s]
        /\ held'[s] = Head(channel[s])
    BY <1>1, <1>2, <1>5 DEF WildPending, WildReceived
  <2>2. WildReceived' = [WildReceived EXCEPT ![s] = Head(WildPending[s])]
    BY <1>3, <1>4, <1>5, <2>1 DEF WildReceived, Wildcards
  <2>3. WildPending' = [WildPending EXCEPT ![s] = Tail(WildPending[s])]
    <3>1. WildPending' = [w \in Wildcards |-> Backlog(w)']
      BY DEF WildPending, Wildcards
    <3>2. \A w \in Wildcards \ {s} : Backlog(w)' = Backlog(w)
      BY <1>3 DEF Wildcards
    <3>3. Backlog(s)' = Tail(WildPending[s])
      BY <1>4, <2>1
    <3> QED
      BY <1>5, <3>1, <3>2, <3>3 DEF WildPending
  <2>4. Wild!Deliver(s)
    BY <1>1, <1>4, <2>1, <2>2, <2>3 DEF Wild!Deliver
  <2> QED
    BY <1>5, <2>4 DEF WildNext, Wild!Next
<1>6. CASE s \notin Wildcards
  <2>1. WildPending' = WildPending /\ WildReceived' = WildReceived
    BY <1>3, <1>6 DEF WildPending, WildReceived, Wildcards
  <2> QED
    BY <2>1 DEF WildNext, Wild!vars
<1> QED
  BY <1>5, <1>6

LEMMA WildHandled ==
  ASSUME BusTypeOK, NEW s \in Subscriber, Handled(s)
  PROVE  WildNext
<1>1. /\ held \in [Subscriber -> Event \cup {NoEvent}]
      /\ held' = [held EXCEPT ![s] = NoEvent]
      /\ UNCHANGED <<publishQueue, current, rest, channel>>
  BY DEF Handled, BusTypeOK
<1>2. UNCHANGED WildPending
  BY <1>1 DEF WildPending, Wildcards, Backlog, Offered
<1>3. CASE s \in Wildcards
  <2>1. Wild!Handled(s)
    BY <1>1, <1>2, <1>3 DEF Wild!Handled, WildReceived, Wildcards
  <2> QED
    BY <1>3, <2>1 DEF WildNext, Wild!Next
<1>4. CASE s \notin Wildcards
  <2>1. UNCHANGED WildReceived
    BY <1>1, <1>4 DEF WildReceived, Wildcards
  <2> QED
    BY <1>2, <2>1 DEF WildNext, Wild!vars
<1> QED
  BY <1>3, <1>4

LEMMA WildCrash ==
  ASSUME BusCrash
  PROVE  Wild!Init'
<1>1. /\ publishQueue' = <<>> /\ rest' = {}
      /\ channel' = [s \in Subscriber |-> <<>>]
      /\ held' = [s \in Subscriber |-> NoEvent]
  BY DEF BusCrash
<1>2. ASSUME NEW s \in Wildcards PROVE Backlog(s)' = <<>> /\ held'[s] = NoEvent
  <2>1. Backlog(s)' = (<<>> \o <<>>) \o <<>>
    BY <1>1 DEF Backlog, Offered, Wildcards
  <2>2. (<<>> \o <<>>) \o <<>> = <<>>
    BY EmptySeq, ConcatEmptySeq
  <2> QED
    BY <1>1, <2>1, <2>2 DEF Wildcards
<1> QED
  BY <1>2 DEF Wild!Init, WildPending, WildReceived, Wildcards

\* What a step of the application is to the bus.
BusStep ==
  \/ UNCHANGED busVars
  \/ \E e \in Event : Publish(e)
  \/ Dispatch
  \/ \E s \in Subscriber : Receive(s) \/ Handled(s)
  \/ BusCrash

LEMMA CommandBusStep ==
  ASSUME TypeInv, NEW c \in Call, Continue(c) \/ NewCommand(c)
  PROVE  BusStep
<1>0. "clients" \in Topic /\ "radios" \in Topic /\ "admin" \in Topic /\ GoOK
  BY TypeParts DEF Topic
<1>1. CASE Login(c) \/ Disconnect(c) \/ UpdateClientInfo(c) \/ SwitchServer(c)
  <2>1. UNCHANGED busVars
    BY <1>1 DEF Login, Disconnect, UpdateClientInfo, SwitchServer, ChangeAndPublish
  <2> QED
    BY <2>1 DEF BusStep
<1>2. CASE UpdateRadioInfo(c) \/ SetStatus(c)
  <2>1. UNCHANGED busVars
    BY <1>2 DEF UpdateRadioInfo, SetStatus
  <2> QED
    BY <2>1 DEF BusStep
<1>3. CASE SyncClient(c) \/ StartServer(c)
  <2>1. \E t \in {"clients", "admin"} : Publish(Changed(t))
    BY <1>3 DEF SyncClient, StartServer
  <2> QED
    BY <1>0, <2>1, EventNames DEF BusStep
<1>4. CASE PublishEvent(c)
  <2>1. arg[c] \in Event /\ Publish(arg[c])
    BY <1>0, <1>4 DEF PublishEvent, GoOK
  <2> QED
    BY <2>1 DEF BusStep
<1>5. CASE CommandClients(c)
  <2>1. \E t \in {"clients", "radios"} : Publish(Changed(t))
    BY <1>5 DEF CommandClients
  <2> QED
    BY <1>0, <2>1, EventNames DEF BusStep
<1>6. CASE Notify(c)
  BY <1>6, EventNames DEF Notify, BusStep
<1> QED
  BY <1>1, <1>2, <1>3, <1>4, <1>5, <1>6 DEF Continue, NewCommand

LEMMA EveryBusStep ==
  ASSUME TypeInv, [AdminViewNext]_vars
  PROVE  BusStep
<1>0. Forwarder \in Subscriber /\ Notifier \in Subscriber
  BY EventNames
<1>1. CASE \E c \in Call : Continue(c) \/ NewCommand(c)
  BY <1>1, CommandBusStep
<1>2. CASE Forward \/ HandleNotification
  BY <1>0, <1>2
  DEF Forward, StartForwarder, TakeEvent, Emit, HandleNotification, BusStep
<1>3. CASE RunDispatcher
  BY <1>3 DEF RunDispatcher, BusStep
<1>4. CASE StartUp \/ Crash \/ Restart \/ UNCHANGED vars
  BY <1>4 DEF StartUp, Crash, Restart, vars, BusStep
<1> QED
  BY <1>1, <1>2, <1>3, <1>4 DEF AdminViewNext

LEMMA WildStep ==
  ASSUME BusTypeOK, BusStep
  PROVE  WildNext
<1>1. CASE UNCHANGED busVars
  <2>1. UNCHANGED held /\ \A s \in Wildcards : Backlog(s)' = Backlog(s)
    BY <1>1 DEF busVars, Backlog, Offered
  <2> QED
    BY <2>1, WildStutter
<1>2. CASE \E e \in Event : Publish(e)
  BY <1>2, WildPublish
<1>3. CASE Dispatch
  BY <1>3, WildTake, WildSend DEF Dispatch
<1>4. CASE \E s \in Subscriber : Receive(s) \/ Handled(s)
  BY <1>4, WildReceive, WildHandled
<1>5. CASE BusCrash
  <2>1. Wild!Init'
    BY <1>5, WildCrash
  <2>2. Wild!Reset
    BY <2>1 DEF Wild!Init, Wild!Reset
  <2> QED
    BY <2>2 DEF WildNext, Wild!Next
<1> QED
  BY <1>1, <1>2, <1>3, <1>4, <1>5 DEF BusStep

LEMMA WildInit == AdminViewInit => Wild!Init
<1> SUFFICES ASSUME AdminViewInit PROVE Wild!Init
  OBVIOUS
<1>1. /\ publishQueue = <<>> /\ rest = {}
      /\ channel = [s \in Subscriber |-> <<>>]
      /\ held = [s \in Subscriber |-> NoEvent]
  BY DEF AdminViewInit, BusInit
<1>2. ASSUME NEW s \in Wildcards PROVE Backlog(s) = <<>> /\ held[s] = NoEvent
  <2>1. Backlog(s) = (<<>> \o <<>>) \o <<>>
    BY <1>1 DEF Backlog, Offered, Wildcards
  <2>2. (<<>> \o <<>>) \o <<>> = <<>>
    BY EmptySeq, ConcatEmptySeq
  <2> QED
    BY <1>1, <2>1, <2>2 DEF Wildcards
<1> QED
  BY <1>2 DEF Wild!Init, WildPending, WildReceived

\* A subscriber to everything (the forwarder) gets the events as LossyQueues
\* says: in the order of publication, each once, and an event is lost only
\* behind Capacity others that wait for the same subscriber.
THEOREM WildcardsGetLossyQueues == AdminViewSpec => Wild!Spec
<1>1. TypeInv /\ [AdminViewNext]_vars => [Wild!Next]_(Wild!vars)
  <2> SUFFICES ASSUME TypeInv, [AdminViewNext]_vars PROVE WildNext
    BY DEF WildNext
  <2> QED
    BY TypeParts, EveryBusStep, WildStep
<1> QED
  BY <1>1, WildInit, InvAlways, PTL DEF AdminViewSpec, Wild!Spec
=============================================================================
