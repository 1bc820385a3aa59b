---------------------------- MODULE RemotesProofs ----------------------------
(***************************************************************************)
(* Safety of Remotes, for any number of connections, redialers, watchers   *)
(* and attempts: although nothing ties the goroutines of a connection to   *)
(* one another, a connection that needs a redialer has one, or has a       *)
(* watcher that will start it.                                             *)
(***************************************************************************)
EXTENDS Remotes, TLAPS

\* No watcher is counted twice, and a redialer that calls has an attempt left.
CountsOK ==
  /\ \A k \in Conn : watchers[k].waiting + watchers[k].woken <= MaxWatchers
  /\ \A r \in Redialer : redialer[r] # Free /\ redialer[r].step # "dial" =>
       redialer[r].attempts < MaxAttempts

TypeInv == RemotesTypeOK /\ CountsOK

-----------------------------------------------------------------------------
(* The invariants *)

EnabledInv == (kind = "control" => enabled) /\ DisabledIsRedialed

\* A redialer will call on k before it ends, or close k.
Redialed(k) ==
  \E r \in Redialer : /\ redialer[r] # Free
                      /\ redialer[r].conn = k
                      /\ redialer[r].step # "established"

Watched(k) == watchers[k].waiting + watchers[k].woken > 0

\* Wherever a call may wake k, k has a watcher.
WatchedInv ==
  /\ \A k \in Conn : channel[k] \in {"connecting", "failing", "ready"} => Watched(k)
  /\ \A r \in Redialer : redialer[r] # Free /\ redialer[r].step # "dial" =>
       Watched(redialer[r].conn)
  /\ current # NoConn => Watched(current)
  /\ \A k \in Conn : stopc[k] = "closed" => channel[k] = "shutdown"

\* k is connected, or somebody is about to see to it.  When it is idle and a
\* watcher waits, the watcher has looked at it and has started a redialer.
Tended(k) ==
  /\ \/ channel[k] \in {"none", "shutdown", "ready"}
     \/ Redialed(k)
     \/ channel[k] = "idle" /\ watchers[k].woken > 0
  /\ channel[k] = "idle" /\ watchers[k].waiting > 0 => Redialed(k)
  /\ channel[k] = "ready" /\ peer /\ ~prepared => Redialed(k)

TendedInv == ~crashed => \A k \in Conn \ unnoticed : Tended(k)

-----------------------------------------------------------------------------
(* The steps that the two clients share *)

\* A redialer gives up and closes its connection.
Closes(r) ==
  /\ GivesUp(r)
  /\ Closed(redialer[r].conn)
  /\ redialer' = [redialer EXCEPT ![r] = Free]
  /\ UNCHANGED <<peerVars, current, crashed>>

\* A call wakes the connection of the server, or of a redialer that has one.
Wakes(k) ==
  /\ Wake(k)
  /\ \/ k = current
     \/ \E r \in Redialer : /\ redialer[r] # Free /\ redialer[r].step = "established"
                            /\ k = redialer[r].conn

\* A redialer has established its connection and ends.
Finishes(r) ==
  /\ redialer[r] # Free /\ redialer[r].step = "established"
  /\ Established(r)
  /\ UNCHANGED <<peerVars, channel, watchers, crashed>>

LooksOn(k) == Looks(k, FALSE) /\ UNCHANGED redialer

\* A watcher that found k idle, or the reader of the stream, starts a redialer.
AnotherRedialer(k, s) ==
  /\ StartRedialer(k, redialer, s)
  /\ UNCHANGED <<peerVars, channel, current, crashed>>
  /\ Looks(k, TRUE) \/ UNCHANGED watchers

Forgets ==
  /\ current' = NoConn
  /\ UNCHANGED <<peerVars, channel, watchers, redialer, crashed>>

Crashes ==
  /\ crashed' = TRUE
  /\ redialer' = [r \in Redialer |-> Free]
  /\ UNCHANGED <<peerVars, channel, watchers, current>>

RedialerStep(r) ==
  \/ Dial(r) \/ CallSucceeds(r) \/ Closes(r) \/ Finishes(r) \/ Stopped(r) \/ StreamFails(r)
  \/ (\E late \in BOOLEAN : CallFails(r, late)) /\ AttemptFails(r)

ConnectionStep(k) ==
  \/ ChannelStep(k) \/ Wakes(k) \/ LooksOn(k)
  \/ \E s \in Redialer : AnotherRedialer(k, s)

OtherStep == PeerStop \/ PeerStart \/ Start \/ Forgets \/ Crashes \/ UNCHANGED connVars

LEMMA Steps ==
  ASSUME TypeInv, [RemotesNext]_vars
  PROVE  \/ \E r \in Redialer : RedialerStep(r)
         \/ \E k \in Conn : ConnectionStep(k)
         \/ OtherStep
<1>0. /\ redialer \in [Redialer -> Redialing \cup {Free}]
      /\ current \in Conn \cup {NoConn}
  BY DEF TypeInv, RemotesTypeOK, ReconnectionTypeOK
<1>1. CASE Environment
  BY <1>1 DEF Environment, ConnectionStep, OtherStep
<1>2. ASSUME NEW r \in Redialer, PluginConnects(r) PROVE RedialerStep(r)
  BY <1>2
  DEF PluginConnects, DialPlugin, configurePlugin, EnablePlugin, ConfigureFails,
      ClosePlugin, RedialerStep, Closes, Finishes
<1>3. ASSUME NEW k \in Conn, WatchPlugin(k) PROVE ConnectionStep(k)
  BY <1>3
  DEF WatchPlugin, ConnectionStep, LooksOn, AnotherRedialer, Looks, StartRedialer, Unused
<1>4. CASE initializePluginClients \/ StartWithoutPlugin
  BY <1>4 DEF initializePluginClients, StartWithoutPlugin, OtherStep, Forgets
<1>5. CASE Login
  BY <1>0, <1>5 DEF Login, ConnectionStep, Wakes
<1>6. CASE ConnectControlServer
  BY <1>6 DEF ConnectControlServer, OtherStep
<1>7. ASSUME NEW r \in Redialer, ControlConnects(r)
      PROVE  RedialerStep(r) \/ OtherStep
  <2>1. CASE CloseControl(r)
    BY <2>1 DEF CloseControl, RedialerStep, Closes, OtherStep, Crashes, Panic
  <2>2. CASE ControlConnects(r) /\ ~CloseControl(r)
    BY <2>2
    DEF ControlConnects, DialControl, registerSelf, RegisterFails, establishStream,
        Opening, RedialerStep, Finishes
  <2> QED
    BY <1>7, <2>1, <2>2
<1>8. ASSUME NEW r \in Redialer, WakeForStream(r)
      PROVE  \E k \in Conn : ConnectionStep(k)
  <2>1. redialer[r].conn \in Conn
    BY <1>0, <1>8 DEF WakeForStream, Opening, Redialing
  <2> QED
    BY <1>8, <2>1 DEF WakeForStream, Opening, ConnectionStep, Wakes
<1>9. ASSUME NEW k \in Conn, ReadStream(k)
      PROVE  ConnectionStep(k) \/ OtherStep
  BY <1>9
  DEF ReadStream, ConnectionStep, OtherStep, AnotherRedialer, Crashes, Panic, connVars,
      StartRedialer, Unused
<1>10. ASSUME NEW k \in Conn, WatchControl(k) PROVE ConnectionStep(k)
  BY <1>10
  DEF WatchControl, ConnectionStep, LooksOn, AnotherRedialer, Looks, StartRedialer, Unused
<1>11. CASE UNCHANGED vars
  BY <1>11 DEF vars, OtherStep
<1> QED
  BY <1>1, <1>2, <1>3, <1>4, <1>5, <1>6, <1>7, <1>8, <1>9, <1>10, <1>11
  DEF RemotesNext, PluginNext, VoiceControlNext

-----------------------------------------------------------------------------
(* What the operators of Reconnection do *)

Slots == [Redialer -> Redialing \cup {Free}]

LEMMA WokenOK ==
  ASSUME TypeInv, NEW k \in Conn
  PROVE  /\ Woken(k) \in [Conn -> Watching]
         /\ \A j \in Conn \ {k} : Woken(k)[j] = watchers[j]
         /\ Woken(k)[k].waiting = 0
         /\ Woken(k)[k].woken = watchers[k].waiting + watchers[k].woken
<1>1. /\ watchers \in [Conn -> Watching] /\ MaxWatchers \in Nat
      /\ watchers[k].waiting + watchers[k].woken <= MaxWatchers
  BY ReconnectionAssumption
  DEF TypeInv, RemotesTypeOK, ReconnectionTypeOK, CountsOK
<1>2. watchers[k].waiting \in Nat /\ watchers[k].woken \in Nat
  BY <1>1 DEF Watching
<1>3. [waiting |-> 0, woken |-> watchers[k].waiting + watchers[k].woken] \in Watching
  BY <1>1, <1>2 DEF Watching
<1> QED
  BY <1>1, <1>3 DEF Woken

\* An attempt changes its own connection only, and leaves it with a watcher.
LEMMA EstablishOK ==
  ASSUME TypeInv, NEW k \in Conn, Establish(k)
  PROVE  /\ channel' \in [Conn -> State] /\ watchers' \in [Conn -> Watching]
         /\ \A j \in Conn \ {k} : channel'[j] = channel[j] /\ watchers'[j] = watchers[j]
         /\ channel'[k] = IF channel[k] = "idle" THEN "connecting" ELSE channel[k]
         /\ watchers'[k].waiting + watchers'[k].woken \in 1..MaxWatchers
<1>1. /\ channel \in [Conn -> State] /\ watchers \in [Conn -> Watching]
      /\ MaxWatchers \in Nat \ {0}
      /\ \A j \in Conn : watchers[j].waiting + watchers[j].woken <= MaxWatchers
  BY ReconnectionAssumption
  DEF TypeInv, RemotesTypeOK, ReconnectionTypeOK, CountsOK
<1>2. channel' = [channel EXCEPT ![k] = AfterCall(k)] /\ AfterCall(k) \in State
  BY <1>1 DEF Establish, Become, AfterCall, State
<1> DEFINE ws == IF channel[k] = "idle" THEN Woken(k) ELSE watchers
<1>3. /\ ws \in [Conn -> Watching] /\ \A j \in Conn \ {k} : ws[j] = watchers[j]
      /\ ws[k].waiting + ws[k].woken \in 0..MaxWatchers
  <2>1. watchers[k].waiting \in Nat /\ watchers[k].woken \in Nat
    BY <1>1 DEF Watching
  <2> QED
    BY <1>1, <2>1, WokenOK
<1>4. watchers' = IF ws[k].waiting + ws[k].woken = MaxWatchers THEN ws
                  ELSE [ws EXCEPT ![k].waiting = @ + 1]
  BY DEF Establish
<1> HIDE DEF ws
<1>5. /\ watchers' \in [Conn -> Watching] /\ \A j \in Conn \ {k} : watchers'[j] = watchers[j]
      /\ watchers'[k].waiting + watchers'[k].woken \in 1..MaxWatchers
  <2>1. CASE ws[k].waiting + ws[k].woken = MaxWatchers
    BY <1>1, <1>3, <1>4, <2>1
  <2>2. CASE ws[k].waiting + ws[k].woken # MaxWatchers
    <3>1. ws[k].waiting \in Nat /\ ws[k].woken \in Nat
      BY <1>3 DEF Watching
    <3>2. ws[k].waiting + 1 \in 0..MaxWatchers
      BY <1>1, <1>3, <2>2, <3>1
    <3>3. /\ watchers'[k] = [ws[k] EXCEPT !.waiting = @ + 1]
          /\ \A j \in Conn \ {k} : watchers'[j] = ws[j]
          /\ watchers' = [ws EXCEPT ![k] = [ws[k] EXCEPT !.waiting = @ + 1]]
      BY <1>3, <1>4, <2>2
    <3>4. [ws[k] EXCEPT !.waiting = @ + 1] \in Watching
      BY <1>3, <3>2 DEF Watching
    <3>5. watchers'[k].waiting = ws[k].waiting + 1 /\ watchers'[k].woken = ws[k].woken
      BY <1>3, <3>3 DEF Watching
    <3> QED
      BY <1>1, <1>3, <2>2, <3>1, <3>3, <3>4, <3>5
  <2> QED
    BY <2>1, <2>2
<1> QED
  BY <1>1, <1>2, <1>5 DEF AfterCall

LEMMA NewRedialerOK ==
  ASSUME NEW k \in Conn, NEW first \in BOOLEAN
  PROVE  /\ NewRedialer(k, first) \in Redialing /\ NewRedialer(k, first) # Free
         /\ NewRedialer(k, first).conn = k
         /\ NewRedialer(k, first).step = "dial"
  BY ReconnectionAssumption DEF NewRedialer, Redialing

LEMMA StartRedialerOK ==
  ASSUME NEW k \in Conn, NEW rs \in Slots, NEW s, StartRedialer(k, rs, s)
  PROVE  /\ s \in Redialer /\ rs[s] = Free
         /\ redialer' \in Slots
         /\ redialer'[s] = NewRedialer(k, FALSE)
         /\ \A r \in Redialer \ {s} : redialer'[r] = rs[r]
<1>1. s \in Redialer /\ rs[s] = Free
  <2>1. s \in Unused(rs, Free)
    BY DEF StartRedialer
  <2>2. Unused(rs, Free) \subseteq {x \in DOMAIN rs : rs[x] = Free}
    BY DEF Unused
  <2> QED
    BY <2>1, <2>2 DEF Slots
<1> QED
  BY <1>1, NewRedialerOK DEF StartRedialer, Slots

LEMMA RetriedOK ==
  ASSUME TypeInv, NEW r \in Redialer, redialer[r] # Free, redialer[r].step # "dial"
  PROVE  /\ Retried(r) \in Slots
         /\ Retried(r)[r] \in Redialing /\ Retried(r)[r] # Free
         /\ Retried(r)[r].conn = redialer[r].conn
         /\ Retried(r)[r].step = "dial"
         /\ \A s \in Redialer \ {r} : Retried(r)[s] = redialer[s]
<1>1. redialer \in Slots /\ redialer[r] \in Redialing
  BY DEF TypeInv, RemotesTypeOK, ReconnectionTypeOK, Slots
<1>2. redialer[r].attempts < MaxAttempts /\ redialer[r].attempts \in Nat
      /\ MaxAttempts \in Nat
  BY <1>1, ReconnectionAssumption DEF TypeInv, CountsOK, Redialing
<1>3. redialer[r].attempts + 1 \in 0..MaxAttempts
  BY <1>2
<1> DEFINE j == [redialer[r] EXCEPT !.step = "dial", !.attempts = @ + 1]
<1>4. j \in Redialing /\ j.conn = redialer[r].conn /\ j.step = "dial"
  BY <1>1, <1>3 DEF Redialing
<1>5. Retried(r) = [redialer EXCEPT ![r] = j]
  BY <1>1 DEF Retried, Slots
<1> HIDE DEF j
<1> QED
  BY <1>1, <1>4, <1>5, ReconnectionAssumption DEF Slots

-----------------------------------------------------------------------------
(* Type correctness *)

\* Watchers and redialers after a step.
WatchersOK(ws) ==
  /\ ws \in [Conn -> Watching]
  /\ \A k \in Conn : ws[k].waiting + ws[k].woken <= MaxWatchers

RedialersOK(rs) ==
  /\ rs \in Slots
  /\ \A r \in Redialer : rs[r] # Free /\ rs[r].step # "dial" => rs[r].attempts < MaxAttempts

LEMMA TypeParts ==
  ASSUME TypeInv
  PROVE  /\ WatchersOK(watchers) /\ RedialersOK(redialer)
         /\ channel \in [Conn -> State] /\ current \in Conn \cup {NoConn}
         /\ peer \in BOOLEAN /\ prepared \in BOOLEAN /\ crashed \in BOOLEAN
         /\ unnoticed \subseteq Conn
         /\ \A r \in Redialer : redialer[r] # Free =>
              redialer[r] \in Redialing /\ redialer[r].conn \in Conn
  BY DEF TypeInv, RemotesTypeOK, ReconnectionTypeOK, CountsOK, WatchersOK, RedialersOK,
         Slots, Redialing

LEMMA WokenType ==
  ASSUME TypeInv, NEW k \in Conn
  PROVE  WatchersOK(Woken(k))
<1>1. \A j \in Conn \ {k} : Woken(k)[j].waiting + Woken(k)[j].woken <= MaxWatchers
  BY WokenOK, TypeParts DEF WatchersOK
<1>2. Woken(k)[k].waiting + Woken(k)[k].woken <= MaxWatchers
  <2>1. watchers[k].waiting \in Nat /\ watchers[k].woken \in Nat
    BY TypeParts DEF WatchersOK, Watching
  <2> QED
    BY <2>1, WokenOK, TypeParts DEF WatchersOK
<1> QED
  BY <1>1, <1>2, WokenOK DEF WatchersOK

LEMMA LooksType ==
  ASSUME TypeInv, NEW k \in Conn, NEW found, Looks(k, found)
  PROVE  /\ WatchersOK(watchers')
         /\ \A j \in Conn \ {k} : watchers'[j] = watchers[j]
         /\ watchers'[k].waiting = watchers[k].waiting + 1
         /\ watchers'[k].woken = watchers[k].woken - 1
         /\ watchers[k].waiting \in Nat /\ watchers[k].woken \in Nat
<1>1. WatchersOK(watchers) /\ watchers[k].woken > 0 /\ MaxWatchers \in Nat
  BY TypeParts, ReconnectionAssumption DEF Looks
<1>2. watchers[k].waiting \in Nat /\ watchers[k].woken \in Nat
  BY <1>1 DEF WatchersOK, Watching
<1>3. watchers[k].waiting + 1 \in 0..MaxWatchers /\ watchers[k].woken - 1 \in 0..MaxWatchers
  BY <1>1, <1>2 DEF WatchersOK
<1> DEFINE w == [waiting |-> watchers[k].waiting + 1, woken |-> watchers[k].woken - 1]
<1>4. /\ w \in Watching
      /\ w.waiting = watchers[k].waiting + 1 /\ w.woken = watchers[k].woken - 1
  BY <1>1, <1>3 DEF WatchersOK, Watching
<1>5. watchers' = [watchers EXCEPT ![k] = w]
  BY <1>1 DEF Looks, WatchersOK
<1> HIDE DEF w
<1>6. watchers'[k] = w /\ watchers' \in [Conn -> Watching]
      /\ \A j \in Conn \ {k} : watchers'[j] = watchers[j]
  BY <1>1, <1>4, <1>5 DEF WatchersOK
<1> QED
  BY <1>1, <1>2, <1>4, <1>6 DEF WatchersOK

LEMMA StartRedialerType ==
  ASSUME TypeInv, NEW k \in Conn, NEW rs, RedialersOK(rs), NEW s, StartRedialer(k, rs, s)
  PROVE  RedialersOK(redialer')
<1>1. /\ s \in Redialer /\ redialer' \in Slots /\ redialer'[s] = NewRedialer(k, FALSE)
      /\ \A r \in Redialer \ {s} : redialer'[r] = rs[r]
  BY StartRedialerOK DEF RedialersOK
<1> QED
  BY <1>1, NewRedialerOK DEF RedialersOK

LEMMA RetriedType ==
  ASSUME TypeInv, NEW r \in Redialer, redialer[r] # Free, redialer[r].step # "dial"
  PROVE  RedialersOK(Retried(r))
  BY RetriedOK, TypeParts DEF RedialersOK

\* A slot is freed, or its redialer replaced by a new one.
LEMMA SlotType ==
  ASSUME TypeInv, NEW r \in Redialer, NEW j \in Redialing \cup {Free},
         j # Free /\ j.step # "dial" => j.attempts < MaxAttempts,
         redialer' = [redialer EXCEPT ![r] = j]
  PROVE  RedialersOK(redialer')
  BY TypeParts DEF RedialersOK, Slots

LEMMA StepType ==
  ASSUME TypeInv, NEW r \in Redialer, NEW step \in {"call", "established"},
         redialer[r] # Free, redialer[r].attempts < MaxAttempts,
         redialer' = [redialer EXCEPT ![r].step = step]
  PROVE  RedialersOK(redialer')
<1>1. redialer[r] \in Redialing /\ redialer \in Slots
  BY TypeParts DEF RedialersOK
<1> DEFINE j == [redialer[r] EXCEPT !.step = step]
<1>2. j \in Redialing /\ j.attempts = redialer[r].attempts
  BY <1>1 DEF Redialing
<1>3. redialer' = [redialer EXCEPT ![r] = j]
  BY <1>1 DEF Slots
<1> HIDE DEF j
<1> QED
  BY <1>2, <1>3, SlotType

CoreOK ==
  /\ WatchersOK(watchers) /\ RedialersOK(redialer)
  /\ channel \in [Conn -> State] /\ current \in Conn \cup {NoConn}
  /\ peer \in BOOLEAN /\ prepared \in BOOLEAN /\ crashed \in BOOLEAN
  /\ unnoticed \subseteq Conn

LEMMA BecomeType ==
  ASSUME TypeInv, NEW k \in Conn, NEW state \in State, Become(k, state)
  PROVE  /\ channel' \in [Conn -> State] /\ channel'[k] = state
         /\ \A j \in Conn \ {k} : channel'[j] = channel[j]
  BY TypeParts DEF Become

LEMMA ClosedType ==
  ASSUME TypeInv, NEW k \in Conn, Closed(k)
  PROVE  /\ channel' \in [Conn -> State] /\ channel'[k] = "shutdown"
         /\ \A j \in Conn \ {k} : channel'[j] = channel[j]
         /\ watchers' = Woken(k) /\ WatchersOK(watchers')
  BY BecomeType, WokenType DEF Closed, State

LEMMA RedialerStepType ==
  ASSUME TypeInv, NEW r \in Redialer, RedialerStep(r)
  PROVE  CoreOK'
<1>0. CoreOK
  BY TypeParts DEF CoreOK
<1>1. redialer[r] # Free => redialer[r] \in Redialing /\ redialer[r].conn \in Conn
  BY TypeParts
<1>2. CASE Dial(r)
  <2>1. channel' \in [Conn -> State] /\ WatchersOK(watchers')
    BY <1>0, <1>1, <1>2, EstablishOK DEF Dial, WatchersOK, CoreOK
  <2>2. RedialersOK(redialer')
    BY <1>2, StepType DEF Dial
  <2> QED
    BY <1>0, <1>2, <2>1, <2>2 DEF Dial, CoreOK, peerVars
<1>3. CASE CallSucceeds(r)
  <2>1. redialer[r].attempts < MaxAttempts
    BY <1>0, <1>3 DEF CallSucceeds, CoreOK, RedialersOK
  <2>2. RedialersOK(redialer')
    BY <1>3, <2>1, StepType DEF CallSucceeds
  <2> QED
    BY <1>0, <1>3, <2>2 DEF CallSucceeds, CoreOK
<1>4. ASSUME redialer' = [redialer EXCEPT ![r] = Free] PROVE RedialersOK(redialer')
  BY <1>4, SlotType
<1>5. CASE Closes(r)
  BY <1>0, <1>1, <1>4, <1>5, ClosedType DEF Closes, GivesUp, CoreOK, peerVars
<1>6. CASE Finishes(r)
  BY <1>0, <1>1, <1>4, <1>6 DEF Finishes, Established, CoreOK, peerVars
<1>7. CASE Stopped(r)
  BY <1>0, <1>4, <1>7 DEF Stopped, CoreOK, peerVars
<1>8. CASE StreamFails(r)
  <2>1. /\ redialer[r] # Free /\ redialer[r].step = "established"
        /\ redialer[r].conn \in Conn
    BY <1>1, <1>8 DEF StreamFails, Opening
  <2>2. CASE redialer[r].first
    <3>1. \/ redialer' = [redialer EXCEPT ![r] = NewRedialer(redialer[r].conn, FALSE)]
          \/ redialer' = [redialer EXCEPT ![r] = Free]
      BY <1>8, <2>2 DEF StreamFails
    <3>2. RedialersOK(redialer')
      BY <1>4, <2>1, <3>1, SlotType, NewRedialerOK
    <3> QED
      BY <1>0, <1>8, <2>1, <2>2, <3>2, ClosedType DEF StreamFails, CoreOK, peerVars
  <2>3. CASE ~redialer[r].first
    <3>1. \/ redialer' = Retried(r)
          \/ \E s \in Redialer : StartRedialer(redialer[r].conn, Retried(r), s)
      BY <1>8, <2>3 DEF StreamFails
    <3>2. RedialersOK(redialer')
      BY <2>1, <3>1, RetriedType, StartRedialerType
    <3> QED
      BY <1>0, <1>8, <2>3, <3>2 DEF StreamFails, CoreOK, peerVars
  <2> QED
    BY <2>2, <2>3
<1>9. ASSUME NEW late, CallFails(r, late), AttemptFails(r) PROVE CoreOK'
  <2>1. redialer[r] # Free /\ redialer[r].step = "call"
    BY <1>9 DEF CallFails
  <2>2. CASE FirstFails(r)
    BY <1>0, <1>1, <1>4, <2>1, <2>2, ClosedType DEF FirstFails, CoreOK, peerVars
  <2>3. CASE ~FirstFails(r)
    BY <1>0, <1>9, <2>1, <2>3, RetriedType DEF AttemptFails, CoreOK, peerVars
  <2> QED
    BY <2>2, <2>3
<1> QED
  BY <1>2, <1>3, <1>5, <1>6, <1>7, <1>8, <1>9 DEF RedialerStep

LEMMA ConnectionStepType ==
  ASSUME TypeInv, NEW k \in Conn, ConnectionStep(k)
  PROVE  CoreOK'
<1>0. CoreOK
  BY TypeParts DEF CoreOK
<1>1. CASE ChannelStep(k)
  <2>1. PICK state \in State : Change(k, state)
    BY <1>1 DEF ChannelStep, Connect, Fail, Lose, IdleTimeout, State
  <2> QED
    BY <1>0, <2>1, BecomeType, WokenType DEF Change, CoreOK, peerVars
<1>2. CASE Wakes(k)
  <2>1. channel' \in [Conn -> State]
    BY <1>2, BecomeType DEF Wakes, Wake, State
  <2> QED
    BY <1>0, <1>2, <2>1, WokenType DEF Wakes, Wake, CoreOK
<1>3. CASE LooksOn(k)
  BY <1>0, <1>3, LooksType DEF LooksOn, Looks, CoreOK, peerVars
<1>4. ASSUME NEW s \in Redialer, AnotherRedialer(k, s) PROVE CoreOK'
  <2>1. WatchersOK(watchers')
    BY <1>0, <1>4, LooksType DEF AnotherRedialer, CoreOK
  <2> QED
    BY <1>0, <1>4, <2>1, StartRedialerType DEF AnotherRedialer, CoreOK, peerVars
<1> QED
  BY <1>1, <1>2, <1>3, <1>4 DEF ConnectionStep

LEMMA OtherStepType ==
  ASSUME TypeInv, OtherStep
  PROVE  CoreOK'
<1>0. CoreOK
  BY TypeParts DEF CoreOK
<1>1. CASE PeerStop \/ PeerStart
  BY <1>0, <1>1 DEF PeerStop, PeerStart, CoreOK
<1>2. CASE Start
  <2>1. PICK k, r : /\ k \in Unused(channel, "none") /\ r \in Unused(redialer, Free)
                    /\ Become(k, "idle")
                    /\ redialer' = [redialer EXCEPT ![r] = NewRedialer(k, TRUE)]
    BY <1>2 DEF Start
  <2>2. k \in Conn /\ r \in Redialer
    BY <1>0, <2>1 DEF Unused, CoreOK, RedialersOK, Slots
  <2>3. channel' \in [Conn -> State] /\ RedialersOK(redialer')
    BY <2>1, <2>2, BecomeType, NewRedialerOK, SlotType DEF State
  <2> QED
    BY <1>0, <1>2, <2>3 DEF Start, CoreOK, peerVars
<1>3. CASE Forgets
  BY <1>0, <1>3 DEF Forgets, CoreOK, peerVars
<1>4. CASE Crashes
  BY <1>0, <1>4 DEF Crashes, CoreOK, peerVars, RedialersOK, Slots
<1>5. CASE UNCHANGED connVars
  BY <1>0, <1>5 DEF connVars, peerVars, CoreOK
<1> QED
  BY <1>1, <1>2, <1>3, <1>4, <1>5 DEF OtherStep

LEMMA TypeInvStep ==
  TypeInv /\ [RemotesNext]_vars => TypeInv'
<1> SUFFICES ASSUME TypeInv, [RemotesNext]_vars PROVE TypeInv'
  OBVIOUS
<1>0. PluginTypeOK /\ VoiceControlTypeOK /\ kind \in {"plugin", "control"}
  BY DEF TypeInv, RemotesTypeOK
<1>1. CoreOK'
  BY Steps, RedialerStepType, ConnectionStepType, OtherStepType
<1>2. PluginTypeOK' /\ kind' = kind
  BY <1>0
  DEF RemotesNext, vars, PluginTypeOK, Environment, PluginNext, initializePluginClients,
      StartWithoutPlugin, Login, PluginConnects, DialPlugin, configurePlugin,
      EnablePlugin, ConfigureFails, ClosePlugin, WatchPlugin, SetPluginEnabled
<1>3. VoiceControlTypeOK'
  <2>1. CASE UNCHANGED voiceVars
    BY <1>0, <2>1 DEF voiceVars, VoiceControlTypeOK
  <2>2. ASSUME NEW r \in Redialer, ControlConnects(r) PROVE VoiceControlTypeOK'
    <3>1. redialer[r] # Free => redialer[r].conn \in Conn
      BY TypeParts
    <3> QED
      BY <1>0, <2>1, <2>2, <3>1
      DEF ControlConnects, DialControl, Stopped, registerSelf, RegisterFails,
          establishStream, StreamFails, CloseControl, Opening, GivesUp, Panic,
          VoiceControlTypeOK, voiceVars
  <2>3. ASSUME NEW k \in Conn, ReadStream(k) PROVE VoiceControlTypeOK'
    BY <1>0, <2>3 DEF ReadStream, Panic, VoiceControlTypeOK, voiceVars
  <2>4. CASE VoiceControlNext
    BY <2>1, <2>2, <2>3, <2>4
    DEF VoiceControlNext, ConnectControlServer, WakeForStream, WatchControl
  <2> QED
    BY <2>1, <2>4 DEF RemotesNext, Environment, vars
<1> QED
  BY <1>0, <1>1, <1>2, <1>3
  DEF CoreOK, WatchersOK, RedialersOK, Slots, TypeInv, RemotesTypeOK, ReconnectionTypeOK,
      CountsOK

LEMMA TypesAlways == RemotesSpec => []TypeInv
<1>1. RemotesInit => TypeInv
  <2> SUFFICES ASSUME RemotesInit PROVE TypeInv
    OBVIOUS
  <2>1. /\ watchers = [k \in Conn |-> [waiting |-> 0, woken |-> 0]]
        /\ redialer = [r \in Redialer |-> Free]
    BY DEF RemotesInit, ReconnectionInit
  <2>2. watchers \in [Conn -> Watching] /\ CountsOK
    BY <2>1, ReconnectionAssumption DEF Watching, CountsOK
  <2>3. ReconnectionTypeOK
    BY <2>1, <2>2 DEF RemotesInit, ReconnectionInit, ReconnectionTypeOK, State
  <2>4. PluginTypeOK /\ VoiceControlTypeOK /\ kind \in {"plugin", "control"}
    BY DEF RemotesInit, PluginInit, VoiceControlInit, PluginTypeOK, VoiceControlTypeOK
  <2> QED
    BY <2>2, <2>3, <2>4 DEF TypeInv, RemotesTypeOK
<1> QED
  BY <1>1, TypeInvStep, PTL DEF RemotesSpec

\* Connections, watchers, redialers, settings and streams keep their types: no
\* watcher is lost or counted twice, and no redialer exceeds its attempts.
THEOREM RemotesTypes == RemotesSpec => []RemotesTypeOK
<1>1. TypeInv => RemotesTypeOK
  BY DEF TypeInv
<1> QED
  BY <1>1, TypesAlways, PTL

-----------------------------------------------------------------------------
(* A disabled plugin *)

\* A connection that was closed stays so: a call does not wake it.
LEMMA ShutdownStays ==
  ASSUME TypeInv, [RemotesNext]_vars, NEW j \in Conn, channel[j] = "shutdown"
  PROVE  channel'[j] = "shutdown"
<1>0. \A r \in Redialer : redialer[r] # Free => redialer[r].conn \in Conn
  BY TypeParts
<1>1. ASSUME NEW k \in Conn, NEW state \in State, Become(k, state), k # j
      PROVE  channel'[j] = "shutdown"
  BY <1>1, BecomeType
<1>2. ASSUME NEW r \in Redialer, RedialerStep(r) PROVE channel'[j] = "shutdown"
  <2>1. CASE Dial(r)
    BY <1>0, <2>1, EstablishOK DEF Dial
  <2>2. CASE \/ Closes(r) \/ StreamFails(r)
             \/ (\E late \in BOOLEAN : CallFails(r, late)) /\ FirstFails(r)
    <3>1. UNCHANGED channel \/ Closed(redialer[r].conn)
      BY <2>2 DEF Closes, StreamFails, FirstFails
    <3>2. redialer[r].conn \in Conn
      BY <1>0, <2>2 DEF Closes, GivesUp, StreamFails, Opening, CallFails
    <3> QED
      BY <3>1, <3>2, ClosedType
  <2> QED
    BY <1>2, <2>1, <2>2
    DEF RedialerStep, CallSucceeds, Finishes, Stopped, AttemptFails
<1>3. ASSUME NEW k \in Conn, ConnectionStep(k) PROVE channel'[j] = "shutdown"
  <2>1. CASE UNCHANGED channel
    BY <2>1
  <2>2. CASE (\E state \in State : Become(k, state)) /\ channel[k] # "shutdown"
    BY <1>1, <2>2
  <2> QED
    BY <1>3, <2>1, <2>2
    DEF ConnectionStep, ChannelStep, Connect, Fail, Lose, IdleTimeout, Change, Wakes,
        Wake, LooksOn, Looks, AnotherRedialer, State
<1>4. ASSUME OtherStep PROVE channel'[j] = "shutdown"
  <2>1. CASE Start
    <3>1. PICK k \in Unused(channel, "none") : Become(k, "idle")
      BY <2>1 DEF Start
    <3>2. k \in Conn /\ channel[k] = "none"
      BY <3>1, TypeParts DEF Unused
    <3> QED
      BY <1>1, <3>1, <3>2 DEF State
  <2> QED
    BY <1>4, <2>1 DEF OtherStep, PeerStop, PeerStart, Forgets, Crashes, connVars
<1> QED
  BY <1>2, <1>3, <1>4, Steps

LEMMA EnabledInvStep == TypeInv /\ EnabledInv /\ [RemotesNext]_vars => EnabledInv'
<1> SUFFICES ASSUME TypeInv, EnabledInv, [RemotesNext]_vars PROVE EnabledInv'
  OBVIOUS
<1>0. /\ redialer \in Slots /\ channel \in [Conn -> State]
      /\ \A r \in Redialer : redialer[r] # Free =>
           redialer[r] \in Redialing /\ redialer[r].conn \in Conn
  BY TypeParts DEF RedialersOK
<1> DEFINE Some == \E r \in Redialer : redialer'[r] # Free
           Shut == \E k \in Conn : channel'[k] = "shutdown"
<1>1. ASSUME enabled' = enabled, kind' = kind,
             current' = NoConn \/ (current' = current /\ UNCHANGED redialer)
      PROVE  EnabledInv'
  BY <1>1, ShutdownStays DEF EnabledInv, DisabledIsRedialed
<1>2. ASSUME kind' = kind, enabled' PROVE EnabledInv'
  BY <1>2 DEF EnabledInv, DisabledIsRedialed
<1>3. ASSUME kind = "plugin", kind' = kind, Some \/ Shut PROVE EnabledInv'
  BY <1>3 DEF EnabledInv, DisabledIsRedialed
<1>4. CASE kind = "control" /\ kind' = kind /\ enabled' = enabled
  BY <1>2, <1>4 DEF EnabledInv
<1>5. CASE Environment /\ kind' = kind
  BY <1>1, <1>5
  DEF Environment, PeerStop, PeerStart, ChannelStep, Connect, Fail, Lose, IdleTimeout,
      Change
<1>6. CASE kind = "plugin" /\ kind' = kind /\ PluginNext
  <2>1. CASE initializePluginClients \/ StartWithoutPlugin
    BY <1>1, <1>6, <2>1
    DEF initializePluginClients, Start, StartWithoutPlugin
  <2>2. CASE Login
    BY <1>1, <1>6, <2>2 DEF Login, Wake
  <2>3. ASSUME NEW r \in Redialer, DialPlugin(r) \/ configurePlugin(r) PROVE EnabledInv'
    <3>1. PICK step \in {"call", "established"} :
            redialer' = [redialer EXCEPT ![r].step = step]
      BY <2>3 DEF DialPlugin, configurePlugin, Dial, CallSucceeds
    <3>2. redialer[r] # Free
      BY <2>3 DEF DialPlugin, configurePlugin, Dial, CallSucceeds
    <3> DEFINE j == [redialer[r] EXCEPT !.step = step]
    <3>3. redialer'[r] = j
      BY <1>0, <3>1 DEF Slots
    <3>4. j \in Redialing
      BY <1>0, <3>2 DEF Redialing
    <3> HIDE DEF j
    <3> QED
      BY <1>3, <1>6, <3>3, <3>4, ReconnectionAssumption
  <2>4. ASSUME NEW r \in Redialer, EnablePlugin(r) PROVE EnabledInv'
    BY <1>2, <1>6, <2>4 DEF EnablePlugin, SetPluginEnabled
  <2>5. ASSUME NEW r \in Redialer, ConfigureFails(r) PROVE EnabledInv'
    <3>1. redialer[r] # Free /\ redialer[r].step = "call"
      BY <2>5 DEF ConfigureFails, CallFails
    <3>2. CASE FirstFails(r)
      BY <1>0, <1>3, <1>6, <3>1, <3>2, ClosedType DEF FirstFails
    <3>3. CASE redialer' = Retried(r)
      BY <1>3, <1>6, <3>1, <3>3, RetriedOK
    <3> QED
      BY <2>5, <3>2, <3>3 DEF ConfigureFails, AttemptFails
  <2>6. ASSUME NEW r \in Redialer, ClosePlugin(r) PROVE EnabledInv'
    BY <1>0, <1>3, <1>6, <2>6, ClosedType DEF ClosePlugin, GivesUp
  <2>7. ASSUME NEW k \in Conn, WatchPlugin(k) PROVE EnabledInv'
    <3>1. CASE \E s \in Redialer : StartRedialer(k, redialer, s)
      BY <1>0, <1>3, <1>6, <3>1, StartRedialerOK, NewRedialerOK
    <3>2. CASE Looks(k, FALSE) /\ UNCHANGED <<redialer, enabled>>
      BY <1>1, <1>6, <3>2 DEF Looks
    <3> QED
      BY <2>7, <3>1, <3>2 DEF WatchPlugin
  <2> QED
    BY <1>6, <2>1, <2>2, <2>3, <2>4, <2>5, <2>6, <2>7 DEF PluginNext, PluginConnects
<1>7. CASE UNCHANGED vars
  BY <1>1, <1>7 DEF vars, connVars
<1> QED
  BY <1>4, <1>5, <1>6, <1>7 DEF RemotesNext, Environment

\* A plugin that the running server has a client for is not left disabled: either
\* a redialer has not ended, or a connection was given up.
THEOREM DisabledAlwaysRedialed == RemotesSpec => []DisabledIsRedialed
<1>1. RemotesInit => EnabledInv
  BY DEF RemotesInit, ReconnectionInit, EnabledInv, DisabledIsRedialed
<1>2. EnabledInv => DisabledIsRedialed
  BY DEF EnabledInv
<1> QED
  BY <1>1, <1>2, EnabledInvStep, TypesAlways, PTL DEF RemotesSpec

-----------------------------------------------------------------------------
(* Watchers *)

\* No watcher ever ends.
LEMMA WatchedStays ==
  ASSUME TypeInv, [RemotesNext]_vars, NEW j \in Conn, Watched(j)
  PROVE  Watched(j)'
<1>0. \A r \in Redialer : redialer[r] # Free => redialer[r].conn \in Conn
  BY TypeParts
<1>1. watchers[j].waiting \in Nat /\ watchers[j].woken \in Nat
  BY TypeParts DEF WatchersOK, Watching
<1>2. CASE UNCHANGED watchers
  BY <1>2 DEF Watched
<1>3. ASSUME NEW k \in Conn, watchers' = Woken(k) PROVE Watched(j)'
  BY <1>1, <1>3, WokenOK DEF Watched
<1>4. ASSUME NEW k \in Conn, Establish(k) PROVE Watched(j)'
  <2>1. CASE k = j
    <3>1. watchers'[j].waiting + watchers'[j].woken \in 1..MaxWatchers
      BY <1>4, <2>1, EstablishOK
    <3> QED
      BY <3>1, ReconnectionAssumption DEF Watched
  <2>2. CASE k # j
    BY <1>4, <2>2, EstablishOK DEF Watched
  <2> QED
    BY <2>1, <2>2
<1>5. ASSUME NEW k \in Conn, NEW found, Looks(k, found) PROVE Watched(j)'
  BY <1>1, <1>5, LooksType DEF Watched
<1>6. ASSUME NEW r \in Redialer, RedialerStep(r) PROVE Watched(j)'
  <2>1. CASE Dial(r)
    BY <1>0, <1>4, <2>1 DEF Dial
  <2>2. CASE \/ Closes(r) \/ StreamFails(r)
             \/ (\E late \in BOOLEAN : CallFails(r, late)) /\ FirstFails(r)
    <3>1. UNCHANGED watchers \/ watchers' = Woken(redialer[r].conn)
      BY <2>2 DEF Closes, StreamFails, FirstFails, Closed
    <3>2. redialer[r].conn \in Conn
      BY <1>0, <2>2 DEF Closes, GivesUp, StreamFails, Opening, CallFails
    <3> QED
      BY <1>2, <1>3, <3>1, <3>2
  <2> QED
    BY <1>2, <1>6, <2>1, <2>2
    DEF RedialerStep, CallSucceeds, Finishes, Stopped, AttemptFails
<1>7. ASSUME NEW k \in Conn, ConnectionStep(k) PROVE Watched(j)'
  BY <1>2, <1>3, <1>5, <1>7
  DEF ConnectionStep, ChannelStep, Connect, Fail, Lose, IdleTimeout, Change, Wakes,
      Wake, LooksOn, AnotherRedialer
<1>8. ASSUME OtherStep PROVE Watched(j)'
  BY <1>2, <1>8
  DEF OtherStep, PeerStop, PeerStart, Start, Forgets, Crashes, connVars
<1> QED
  BY <1>6, <1>7, <1>8, Steps

LEMMA StartedSlot ==
  ASSUME NEW k \in Conn, NEW rs \in Slots, NEW t, StartRedialer(k, rs, t),
         NEW s \in Redialer
  PROVE  \/ redialer'[s] = rs[s]
         \/ redialer'[s].step = "dial"
<1>1. redialer'[t] = NewRedialer(k, FALSE) /\ \A r \in Redialer \ {t} : redialer'[r] = rs[r]
  BY StartRedialerOK
<1>2. NewRedialer(k, FALSE).step = "dial"
  BY NewRedialerOK
<1> QED
  BY <1>1, <1>2

\* How a redialer changes.
LEMMA SlotMoves ==
  ASSUME TypeInv, [RemotesNext]_vars, NEW s \in Redialer, redialer'[s] # Free
  PROVE  \/ redialer'[s] = redialer[s]
         \/ redialer'[s].step = "dial"
         \/ /\ Dial(s) \/ CallSucceeds(s)
            /\ redialer'[s].conn = redialer[s].conn
<1>0. /\ redialer \in Slots
      /\ \A r \in Redialer : redialer[r] # Free =>
           redialer[r] \in Redialing /\ redialer[r].conn \in Conn
  BY TypeParts DEF RedialersOK
<1>1. ASSUME NEW r \in Redialer, NEW j, redialer' = [redialer EXCEPT ![r] = j], r # s
      PROVE  redialer'[s] = redialer[s]
  BY <1>0, <1>1 DEF Slots
<1>2. ASSUME NEW r \in Redialer, redialer' = [redialer EXCEPT ![r] = Free]
      PROVE  redialer'[s] = redialer[s]
  BY <1>0, <1>2 DEF Slots
<1>3. ASSUME NEW r \in Redialer, NEW k \in Conn, NEW first \in BOOLEAN,
             redialer' = [redialer EXCEPT ![r] = NewRedialer(k, first)]
      PROVE  redialer'[s] = redialer[s] \/ redialer'[s].step = "dial"
  BY <1>0, <1>3, NewRedialerOK DEF Slots
<1>4. ASSUME NEW k \in Conn, NEW t, StartRedialer(k, redialer, t)
      PROVE  redialer'[s] = redialer[s] \/ redialer'[s].step = "dial"
  BY <1>0, <1>4, StartedSlot
<1>5. ASSUME NEW r \in Redialer, redialer[r] # Free, redialer[r].step # "dial",
             \/ redialer' = Retried(r)
             \/ \E t \in Redialer : StartRedialer(redialer[r].conn, Retried(r), t)
      PROVE  redialer'[s] = redialer[s] \/ redialer'[s].step = "dial"
  <2>1. Retried(r)[s] = redialer[s] \/ Retried(r)[s].step = "dial"
    BY <1>5, RetriedOK
  <2>2. Retried(r) \in Slots /\ redialer[r].conn \in Conn
    BY <1>0, <1>5, RetriedOK
  <2>3. ASSUME NEW t, StartRedialer(redialer[r].conn, Retried(r), t)
        PROVE  redialer'[s] = Retried(r)[s] \/ redialer'[s].step = "dial"
    BY <2>2, <2>3, StartedSlot
  <2> QED
    BY <1>5, <2>1, <2>3
<1>6. ASSUME NEW r \in Redialer, RedialerStep(r)
      PROVE  \/ redialer'[s] = redialer[s]
             \/ redialer'[s].step = "dial"
             \/ /\ Dial(s) \/ CallSucceeds(s)
                /\ redialer'[s].conn = redialer[s].conn
  <2>1. CASE Dial(r) \/ CallSucceeds(r)
    <3>1. PICK step \in {"call", "established"} :
            redialer' = [redialer EXCEPT ![r].step = step]
      BY <2>1 DEF Dial, CallSucceeds
    <3>2. redialer[r] \in Redialing
      BY <1>0, <2>1 DEF Dial, CallSucceeds
    <3>3. CASE r = s
      <4>1. redialer'[s].conn = redialer[s].conn
        BY <1>0, <3>1, <3>2, <3>3 DEF Slots, Redialing
      <4>2. Dial(s) \/ CallSucceeds(s)
        BY <2>1, <3>3 DEF Dial, CallSucceeds, Establish, Become, AfterCall, Woken
      <4> QED
        BY <4>1, <4>2
    <3>4. CASE r # s
      BY <1>0, <3>1, <3>4 DEF Slots
    <3> QED
      BY <3>3, <3>4
  <2>2. CASE Closes(r) \/ Finishes(r) \/ Stopped(r)
    BY <1>2, <2>2 DEF Closes, Finishes, Established, Stopped
  <2>3. CASE StreamFails(r)
    <3>1. /\ redialer[r] # Free /\ redialer[r].step # "dial"
          /\ redialer[r].conn \in Conn
      BY <1>0, <2>3 DEF StreamFails, Opening
    <3> QED
      BY <1>2, <1>3, <1>5, <2>3, <3>1 DEF StreamFails
  <2>4. ASSUME NEW late, CallFails(r, late), AttemptFails(r)
        PROVE  redialer'[s] = redialer[s] \/ redialer'[s].step = "dial"
    BY <1>2, <1>5, <2>4 DEF CallFails, AttemptFails, FirstFails
  <2> QED
    BY <1>6, <2>1, <2>2, <2>3, <2>4 DEF RedialerStep
<1>7. ASSUME NEW k \in Conn, ConnectionStep(k)
      PROVE  redialer'[s] = redialer[s] \/ redialer'[s].step = "dial"
  BY <1>4, <1>7
  DEF ConnectionStep, ChannelStep, Connect, Fail, Lose, IdleTimeout, Change, Wakes,
      Wake, LooksOn, AnotherRedialer
<1>8. ASSUME OtherStep
      PROVE  redialer'[s] = redialer[s] \/ redialer'[s].step = "dial"
  <2>1. CASE Start
    <3>1. PICK k \in Unused(channel, "none"), r \in Unused(redialer, Free) :
            redialer' = [redialer EXCEPT ![r] = NewRedialer(k, TRUE)]
      BY <2>1 DEF Start
    <3>2. k \in Conn /\ r \in Redialer
      BY <1>0, <3>1, TypeParts DEF Unused, Slots
    <3> QED
      BY <1>3, <3>1, <3>2
  <2>2. CASE Crashes
    BY <2>2 DEF Crashes
  <2> QED
    BY <1>8, <2>1, <2>2 DEF OtherStep, PeerStop, PeerStart, Forgets, connVars
<1> QED
  BY <1>6, <1>7, <1>8, Steps

LEMMA ChannelWatched ==
  ASSUME TypeInv, WatchedInv, [RemotesNext]_vars, NEW j \in Conn,
         channel'[j] \in {"connecting", "failing", "ready"}
  PROVE  Watched(j)'
<1>0. \A r \in Redialer : redialer[r] # Free => redialer[r].conn \in Conn
  BY TypeParts
<1>1. CASE channel'[j] = channel[j]
  BY <1>1, WatchedStays DEF WatchedInv
<1>2. ASSUME NEW k \in Conn, NEW state \in State, Become(k, state),
             state \in {"idle", "shutdown"} \/ channel[k] \in {"connecting", "failing"}
      PROVE  Watched(j)'
  BY <1>1, <1>2, BecomeType, WatchedStays DEF WatchedInv
<1>3. ASSUME NEW r \in Redialer, RedialerStep(r) PROVE Watched(j)'
  <2>1. CASE Dial(r)
    <3>1. redialer[r].conn \in Conn /\ Establish(redialer[r].conn)
      BY <1>0, <2>1 DEF Dial
    <3>2. CASE redialer[r].conn = j
      <4>1. watchers'[j].waiting + watchers'[j].woken \in 1..MaxWatchers
        BY <3>1, <3>2, EstablishOK
      <4> QED
        BY <4>1, ReconnectionAssumption DEF Watched
    <3>3. CASE redialer[r].conn # j
      BY <1>1, <3>1, <3>3, EstablishOK
    <3> QED
      BY <3>2, <3>3
  <2>2. CASE UNCHANGED channel
    BY <1>1, <2>2
  <2>3. CASE redialer[r].conn \in Conn /\ Closed(redialer[r].conn)
    BY <1>2, <2>3 DEF Closed, State
  <2> QED
    BY <1>0, <1>3, <2>1, <2>2, <2>3
    DEF RedialerStep, CallSucceeds, Finishes, Stopped, AttemptFails, Closes, GivesUp,
        StreamFails, Opening, CallFails, FirstFails
<1>4. ASSUME NEW k \in Conn, ConnectionStep(k) PROVE Watched(j)'
  <2>1. CASE UNCHANGED channel
    BY <1>1, <2>1
  <2>2. CASE Wakes(k)
    <3>1. Watched(k)
      BY <2>2, ReconnectionAssumption DEF Wakes, WatchedInv, Watched
    <3>2. CASE k = j
      BY <3>1, <3>2, WatchedStays DEF Watched
    <3>3. CASE k # j
      BY <1>1, <2>2, <3>3, BecomeType DEF Wakes, Wake, State
    <3> QED
      BY <3>2, <3>3
  <2>3. CASE ChannelStep(k)
    BY <1>2, <2>3 DEF ChannelStep, Connect, Fail, Lose, IdleTimeout, Change, State
  <2> QED
    BY <1>4, <2>1, <2>2, <2>3 DEF ConnectionStep, LooksOn, Looks, AnotherRedialer
<1>5. ASSUME OtherStep PROVE Watched(j)'
  <2>1. CASE Start
    <3>1. PICK k \in Unused(channel, "none") : Become(k, "idle")
      BY <2>1 DEF Start
    <3>2. k \in Conn
      BY <3>1, TypeParts DEF Unused
    <3> QED
      BY <1>2, <3>1, <3>2 DEF State
  <2> QED
    BY <1>1, <1>5, <2>1 DEF OtherStep, PeerStop, PeerStart, Forgets, Crashes, connVars
<1> QED
  BY <1>3, <1>4, <1>5, Steps

LEMMA CallerWatched ==
  ASSUME TypeInv, WatchedInv, [RemotesNext]_vars, NEW s \in Redialer,
         redialer'[s] # Free, redialer'[s].step # "dial"
  PROVE  Watched(redialer[s].conn)'
<1>0. redialer[s] # Free => redialer[s].conn \in Conn
  BY TypeParts
<1>1. CASE redialer'[s] = redialer[s]
  BY <1>0, <1>1, WatchedStays DEF WatchedInv, Watched
<1>2. CASE Dial(s) /\ redialer'[s].conn = redialer[s].conn
  <2>1. Establish(redialer[s].conn) /\ redialer[s].conn \in Conn
    BY <1>0, <1>2 DEF Dial
  <2>2. LET w == watchers'[redialer[s].conn] IN w.waiting + w.woken \in 1..MaxWatchers
    BY <2>1, EstablishOK
  <2>3. LET w == watchers'[redialer[s].conn] IN w.waiting + w.woken > 0
    BY <2>2, ReconnectionAssumption
  <2> QED
    BY <1>2, <2>3 DEF Watched
<1>3. CASE CallSucceeds(s) /\ redialer'[s].conn = redialer[s].conn
  BY <1>0, <1>3, WatchedStays DEF WatchedInv, CallSucceeds, Watched
<1> QED
  BY <1>1, <1>2, <1>3, SlotMoves

LEMMA CurrentWatched ==
  ASSUME TypeInv, WatchedInv, [RemotesNext]_vars, current' # NoConn
  PROVE  Watched(current)'
<1>0. /\ current \in Conn \cup {NoConn}
      /\ \A r \in Redialer : redialer[r] # Free => redialer[r].conn \in Conn
  BY TypeParts
<1>1. CASE current' = current
  BY <1>0, <1>1, WatchedStays DEF WatchedInv, Watched
<1>2. ASSUME NEW r \in Redialer, Finishes(r) PROVE Watched(current)'
  <2>1. CASE redialer[r].first
    <3>1. current' = redialer[r].conn /\ redialer[r].conn \in Conn
      BY <1>0, <1>2, <2>1 DEF Finishes, Established
    <3>2. Watched(redialer[r].conn)
      BY <1>2 DEF Finishes, WatchedInv
    <3> QED
      BY <3>1, <3>2, WatchedStays DEF Watched
  <2>2. CASE ~redialer[r].first
    BY <1>1, <1>2, <2>2 DEF Finishes, Established
  <2> QED
    BY <2>1, <2>2
<1>3. ASSUME NEW r \in Redialer, RedialerStep(r) PROVE Watched(current)'
  BY <1>1, <1>2, <1>3
  DEF RedialerStep, Dial, CallSucceeds, Stopped, AttemptFails, Closes, StreamFails, FirstFails
<1>4. ASSUME NEW k \in Conn, ConnectionStep(k) PROVE current' = current
  BY <1>4
  DEF ConnectionStep, ChannelStep, Connect, Fail, Lose, IdleTimeout, Change, Wakes,
      Wake, LooksOn, Looks, AnotherRedialer
<1>5. ASSUME OtherStep PROVE current' = current \/ current' = NoConn
  BY <1>5 DEF OtherStep, PeerStop, PeerStart, Start, Forgets, Crashes, connVars
<1> QED
  BY <1>1, <1>3, <1>4, <1>5, Steps

\* Only the redialer that gives up closes stopc, and with it the connection.
LEMMA ClosedIsShutdown ==
  ASSUME TypeInv, WatchedInv, [RemotesNext]_vars, NEW j \in Conn, stopc'[j] = "closed"
  PROVE  channel'[j] = "shutdown"
<1>0. /\ stopc \in [Conn -> {"nil", "open", "closed"}]
      /\ \A r \in Redialer : redialer[r] # Free => redialer[r].conn \in Conn
  BY TypeParts DEF TypeInv, RemotesTypeOK, VoiceControlTypeOK
<1>1. CASE stopc[j] = "closed"
  BY <1>1, ShutdownStays DEF WatchedInv
<1>2. ASSUME NEW r \in Redialer, CloseControl(r) PROVE channel'[j] = "shutdown"
  <2>1. redialer[r].conn \in Conn
    BY <1>0, <1>2 DEF CloseControl, GivesUp
  <2>2. CASE redialer[r].conn = j
    <3>1. channel'[j] = "shutdown" \/ UNCHANGED stopc
      BY <1>2, <2>1, <2>2, ClosedType DEF CloseControl, Panic, voiceVars
    <3> QED
      BY <1>1, <3>1
  <2>3. CASE redialer[r].conn # j
    BY <1>0, <1>1, <1>2, <2>1, <2>3 DEF CloseControl, Panic, voiceVars
  <2> QED
    BY <2>2, <2>3
<1>3. ASSUME NEW r \in Redialer, establishStream(r) PROVE channel'[j] = "shutdown"
  BY <1>0, <1>1, <1>3 DEF establishStream, Opening
<1>4. CASE UNCHANGED stopc
  BY <1>1, <1>4
<1>5. ASSUME NEW r \in Redialer, ControlConnects(r) PROVE channel'[j] = "shutdown"
  BY <1>2, <1>3, <1>4, <1>5
  DEF ControlConnects, DialControl, Stopped, registerSelf, RegisterFails, StreamFails,
      voiceVars
<1>6. ASSUME NEW k \in Conn, ReadStream(k) PROVE UNCHANGED stopc
  BY <1>6 DEF ReadStream, Panic, voiceVars
<1>7. CASE VoiceControlNext
  BY <1>4, <1>5, <1>6, <1>7
  DEF VoiceControlNext, ConnectControlServer, WakeForStream, WatchControl, voiceVars
<1> QED
  BY <1>4, <1>7 DEF RemotesNext, Environment, voiceVars, vars

LEMMA WatchedInvStep == TypeInv /\ WatchedInv /\ [RemotesNext]_vars => WatchedInv'
<1> SUFFICES ASSUME TypeInv, WatchedInv, [RemotesNext]_vars PROVE WatchedInv'
  OBVIOUS
<1> QED
  BY ChannelWatched, CallerWatched, CurrentWatched, ClosedIsShutdown DEF WatchedInv

-----------------------------------------------------------------------------
(* Redialers *)

LEMMA StartedRedials ==
  ASSUME NEW k \in Conn, NEW rs \in Slots, NEW s, StartRedialer(k, rs, s)
  PROVE  Redialed(k)'
<1>1. s \in Redialer /\ redialer'[s] = NewRedialer(k, FALSE)
  BY StartRedialerOK
<1>2. /\ NewRedialer(k, FALSE) # Free
      /\ NewRedialer(k, FALSE).conn = k /\ NewRedialer(k, FALSE).step = "dial"
  BY NewRedialerOK
<1> QED
  BY <1>1, <1>2 DEF Redialed

\* A redialer does not end before it has established its connection, unless that
\* connection is closed.
LEMMA SlotStays ==
  ASSUME TypeInv, WatchedInv, [RemotesNext]_vars, ~crashed',
         NEW s \in Redialer, redialer[s] # Free, redialer[s].step # "established"
  PROVE  \/ /\ redialer'[s] # Free
            /\ redialer'[s].conn = redialer[s].conn
            /\ redialer'[s].step # "established"
         \/ channel'[redialer[s].conn] = "shutdown"
         \/ CallSucceeds(s)
<1>0. /\ redialer \in Slots
      /\ \A r \in Redialer : redialer[r] # Free =>
           redialer[r] \in Redialing /\ redialer[r].conn \in Conn
  BY TypeParts DEF RedialersOK
<1> DEFINE Stays == /\ redialer'[s] # Free
                    /\ redialer'[s].conn = redialer[s].conn
                    /\ redialer'[s].step # "established"
           Shut == channel'[redialer[s].conn] = "shutdown"
<1>1. CASE redialer'[s] = redialer[s]
  BY <1>1
<1>2. ASSUME NEW r \in Redialer, NEW j, redialer' = [redialer EXCEPT ![r] = j], r # s
      PROVE  Stays
  BY <1>0, <1>2 DEF Slots
<1>3. ASSUME NEW k \in Conn, NEW t, StartRedialer(k, redialer, t) PROVE Stays
  BY <1>0, <1>3, StartRedialerOK
<1>4. ASSUME NEW r \in Redialer, RedialerStep(r) PROVE Stays \/ Shut \/ CallSucceeds(s)
  <2>1. CASE Dial(r) \/ CallSucceeds(r)
    <3>1. PICK step \in {"call", "established"} :
            /\ redialer' = [redialer EXCEPT ![r].step = step]
            /\ step = "established" => CallSucceeds(r)
      BY <2>1 DEF Dial, CallSucceeds
    <3>2. CASE r # s
      BY <1>0, <3>1, <3>2 DEF Slots
    <3>3. CASE r = s /\ step = "established"
      BY <3>1, <3>3 DEF CallSucceeds
    <3>4. CASE r = s /\ step = "call"
      <4> DEFINE j == [redialer[s] EXCEPT !.step = "call"]
      <4>1. redialer'[s] = j
        BY <1>0, <3>1, <3>4 DEF Slots
      <4>2. j \in Redialing /\ j.conn = redialer[s].conn /\ j.step = "call"
        BY <1>0 DEF Redialing
      <4> HIDE DEF j
      <4> QED
        BY <4>1, <4>2, ReconnectionAssumption
    <3> QED
      BY <3>2, <3>3, <3>4
  <2>2. CASE Closes(r)
    <3>1. CASE r = s
      BY <1>0, <2>2, <3>1, ClosedType DEF Closes
    <3>2. CASE r # s
      BY <1>2, <2>2, <3>2 DEF Closes
    <3> QED
      BY <3>1, <3>2
  <2>3. CASE Finishes(r)
    BY <1>2, <2>3 DEF Finishes, Established
  <2>4. CASE Stopped(r)
    <3>1. CASE r = s
      BY <1>0, <2>4, <3>1 DEF Stopped, WatchedInv
    <3>2. CASE r # s
      BY <1>2, <2>4, <3>2 DEF Stopped
    <3> QED
      BY <3>1, <3>2
  <2>5. CASE StreamFails(r)
    <3>1. /\ redialer[r] # Free /\ redialer[r].step = "established" /\ r # s
          /\ redialer[r].conn \in Conn
      BY <1>0, <2>5 DEF StreamFails, Opening
    <3>2. CASE redialer[r].first
      BY <1>2, <2>5, <3>1, <3>2 DEF StreamFails
    <3>3. CASE ~redialer[r].first
      <4>1. Retried(r) \in Slots /\ Retried(r)[s] = redialer[s]
        BY <3>1, RetriedOK
      <4>2. ASSUME NEW t, StartRedialer(redialer[r].conn, Retried(r), t)
            PROVE  redialer'[s] = redialer[s]
        BY <3>1, <4>1, <4>2, StartRedialerOK
      <4> QED
        BY <1>1, <2>5, <3>3, <4>1, <4>2 DEF StreamFails
    <3> QED
      BY <3>2, <3>3
  <2>6. ASSUME NEW late, CallFails(r, late), AttemptFails(r) PROVE Stays \/ Shut
    <3>1. /\ redialer[r] # Free /\ redialer[r].step = "call"
          /\ redialer[r].conn \in Conn
      BY <1>0, <2>6 DEF CallFails
    <3>2. CASE r # s
      <4>1. Retried(r)[s] = redialer[s]
        BY <3>1, <3>2, RetriedOK
      <4> QED
        BY <1>1, <1>2, <2>6, <3>2, <4>1 DEF AttemptFails, FirstFails
    <3>3. CASE r = s
      BY <2>6, <3>1, <3>3, RetriedOK, ClosedType DEF AttemptFails, FirstFails
    <3> QED
      BY <3>2, <3>3
  <2> QED
    BY <1>4, <2>1, <2>2, <2>3, <2>4, <2>5, <2>6 DEF RedialerStep
<1>5. ASSUME NEW k \in Conn, ConnectionStep(k) PROVE Stays
  BY <1>1, <1>3, <1>5
  DEF ConnectionStep, ChannelStep, Connect, Fail, Lose, IdleTimeout, Change, Wakes,
      Wake, LooksOn, AnotherRedialer
<1>6. ASSUME OtherStep PROVE Stays
  <2>1. CASE Start
    <3>1. PICK k \in Unused(channel, "none"), r \in Unused(redialer, Free) :
            redialer' = [redialer EXCEPT ![r] = NewRedialer(k, TRUE)]
      BY <2>1 DEF Start
    <3>2. r \in Redialer /\ r # s
      BY <1>0, <3>1 DEF Unused, Slots
    <3> QED
      BY <1>2, <3>1, <3>2
  <2> QED
    BY <1>1, <1>6, <2>1 DEF OtherStep, PeerStop, PeerStart, Forgets, Crashes, connVars
<1> QED
  BY <1>4, <1>5, <1>6, Steps

LEMMA RedialedStays ==
  ASSUME TypeInv, WatchedInv, [RemotesNext]_vars, ~crashed', NEW j \in Conn, Redialed(j)
  PROVE  \/ Redialed(j)'
         \/ channel'[j] = "shutdown"
         \/ channel'[j] = "ready" /\ prepared'
<1>1. PICK s \in Redialer : /\ redialer[s] # Free /\ redialer[s].conn = j
                            /\ redialer[s].step # "established"
  BY DEF Redialed
<1>2. CASE CallSucceeds(s)
  BY <1>1, <1>2 DEF CallSucceeds
<1>3. CASE /\ redialer'[s] # Free
           /\ redialer'[s].conn = redialer[s].conn
           /\ redialer'[s].step # "established"
  BY <1>1, <1>3 DEF Redialed
<1> QED
  BY <1>1, <1>2, <1>3, SlotStays

-----------------------------------------------------------------------------
(* Tended connections *)

\* How the state of a connection changes, and what goes with it.
ChannelMoves(j) ==
  \/ UNCHANGED channel[j]
  \/ channel'[j] = "shutdown"
  \/ channel[j] = "none" /\ channel'[j] = "idle" /\ Redialed(j)'
  \/ channel[j] \in {"connecting", "failing", "ready"} /\ channel'[j] = "idle"
     /\ watchers' = Woken(j)
  \/ channel[j] \in {"connecting", "failing"} /\ channel'[j] \in {"ready", "failing"}
  \/ channel[j] = "idle" /\ channel'[j] = "connecting" /\ (Redialed(j)' \/ Wake(j))

LEMMA ChannelMovesOnly ==
  ASSUME TypeInv, [RemotesNext]_vars, NEW j \in Conn
  PROVE  ChannelMoves(j)
<1>0. /\ redialer \in Slots
      /\ \A r \in Redialer : redialer[r] # Free =>
           redialer[r] \in Redialing /\ redialer[r].conn \in Conn
  BY TypeParts DEF RedialersOK
<1>1. CASE UNCHANGED channel
  BY <1>1 DEF ChannelMoves
<1>2. ASSUME NEW k \in Conn, NEW state \in State, Become(k, state), k # j
      PROVE  ChannelMoves(j)
  BY <1>2, BecomeType DEF ChannelMoves
<1>3. ASSUME NEW r \in Redialer, RedialerStep(r) PROVE ChannelMoves(j)
  <2>1. CASE Dial(r)
    <3>1. redialer[r].conn \in Conn /\ Establish(redialer[r].conn)
      BY <1>0, <2>1 DEF Dial
    <3>2. CASE redialer[r].conn = j
      <4> DEFINE d == [redialer[r] EXCEPT !.step = "call"]
      <4>1. redialer'[r] = d
        BY <1>0, <2>1 DEF Dial, Slots
      <4>2. d \in Redialing /\ d.conn = j /\ d.step = "call"
        BY <1>0, <2>1, <3>2 DEF Dial, Redialing
      <4> HIDE DEF d
      <4>3. Redialed(j)'
        BY <4>1, <4>2, ReconnectionAssumption DEF Redialed
      <4>4. channel'[j] = IF channel[j] = "idle" THEN "connecting" ELSE channel[j]
        BY <3>1, <3>2, EstablishOK
      <4> QED
        BY <4>3, <4>4 DEF ChannelMoves
    <3>3. CASE redialer[r].conn # j
      BY <3>1, <3>3, EstablishOK DEF ChannelMoves
    <3> QED
      BY <3>2, <3>3
  <2>2. CASE redialer[r].conn \in Conn /\ Closed(redialer[r].conn)
    BY <2>2, ClosedType DEF ChannelMoves
  <2> QED
    BY <1>0, <1>1, <1>3, <2>1, <2>2
    DEF RedialerStep, CallSucceeds, Finishes, Stopped, AttemptFails, Closes, GivesUp,
        StreamFails, Opening, CallFails, FirstFails
<1>4. ASSUME NEW k \in Conn, ConnectionStep(k) PROVE ChannelMoves(j)
  <2>1. CASE k # j /\ (ChannelStep(k) \/ Wakes(k))
    BY <1>2, <2>1
    DEF ChannelStep, Connect, Fail, Lose, IdleTimeout, Change, Wakes, Wake, State
  <2>2. CASE k = j /\ ChannelStep(j)
    BY <2>2, BecomeType
    DEF ChannelStep, Connect, Fail, Lose, IdleTimeout, Change, State, ChannelMoves
  <2>3. CASE k = j /\ Wakes(k)
    <3>1. Wake(j)
      BY <2>3 DEF Wakes, Wake, Become, Woken
    <3> QED
      BY <3>1, BecomeType DEF Wake, State, ChannelMoves
  <2> QED
    BY <1>1, <1>4, <2>1, <2>2, <2>3
    DEF ConnectionStep, ChannelStep, Connect, Fail, Lose, IdleTimeout, Change, Become,
        Woken, LooksOn, Looks, AnotherRedialer
<1>5. ASSUME OtherStep PROVE ChannelMoves(j)
  <2>1. CASE Start
    <3>1. PICK k \in Unused(channel, "none"), r \in Unused(redialer, Free) :
            Become(k, "idle") /\ redialer' = [redialer EXCEPT ![r] = NewRedialer(k, TRUE)]
      BY <2>1 DEF Start
    <3>2. k \in Conn /\ channel[k] = "none" /\ r \in Redialer
      BY <1>0, <3>1, TypeParts DEF Unused, Slots
    <3>3. CASE k = j
      <4>1. redialer'[r] = NewRedialer(j, TRUE)
        BY <1>0, <3>1, <3>2, <3>3 DEF Slots
      <4>2. Redialed(j)'
        BY <3>2, <4>1, NewRedialerOK DEF Redialed
      <4> QED
        BY <3>1, <3>2, <3>3, <4>2, BecomeType DEF State, ChannelMoves
    <3>4. CASE k # j
      BY <1>2, <3>1, <3>2, <3>4 DEF State
    <3> QED
      BY <3>3, <3>4
  <2> QED
    BY <1>1, <1>5, <2>1 DEF OtherStep, PeerStop, PeerStart, Forgets, Crashes, connVars
<1> QED
  BY <1>3, <1>4, <1>5, Steps

\* The watcher that finds a connection idle starts a redialer; until then none
\* goes back to waiting.
LEMMA IdleMoves ==
  ASSUME TypeInv, [RemotesNext]_vars, NEW j \in Conn, UNCHANGED channel[j],
         channel[j] = "idle"
  PROVE  \/ Redialed(j)'
         \/ /\ watchers'[j].woken >= watchers[j].woken
            /\ watchers'[j].waiting <= watchers[j].waiting
<1>0. /\ redialer \in Slots
      /\ \A r \in Redialer : redialer[r] # Free => redialer[r].conn \in Conn
      /\ watchers[j].waiting \in Nat /\ watchers[j].woken \in Nat
  BY TypeParts DEF RedialersOK, WatchersOK, Watching
<1> DEFINE Fine == /\ watchers'[j].woken >= watchers[j].woken
                   /\ watchers'[j].waiting <= watchers[j].waiting
<1>1. ASSUME watchers'[j] = watchers[j] PROVE Fine
  BY <1>0, <1>1
<1>2. ASSUME NEW k \in Conn, watchers' = Woken(k) PROVE Fine
  <2>1. CASE k = j
    BY <1>0, <1>2, <2>1, WokenOK
  <2>2. CASE k # j
    BY <1>1, <1>2, <2>2, WokenOK
  <2> QED
    BY <2>1, <2>2
<1>3. ASSUME NEW r \in Redialer, RedialerStep(r) PROVE Fine
  <2>1. CASE Dial(r)
    <3>1. redialer[r].conn \in Conn /\ Establish(redialer[r].conn)
      BY <1>0, <2>1 DEF Dial
    <3>2. redialer[r].conn # j
      BY <3>1, EstablishOK
    <3> QED
      BY <1>1, <3>1, <3>2, EstablishOK
  <2>2. CASE redialer[r].conn \in Conn /\ watchers' = Woken(redialer[r].conn)
    BY <1>2, <2>2
  <2> QED
    BY <1>0, <1>1, <1>3, <2>1, <2>2
    DEF RedialerStep, CallSucceeds, Finishes, Stopped, AttemptFails, Closes, Closed,
        GivesUp, StreamFails, Opening, CallFails, FirstFails
<1>4. ASSUME NEW k \in Conn, ConnectionStep(k) PROVE Fine \/ Redialed(j)'
  <2>1. CASE ChannelStep(k) \/ Wakes(k)
    BY <1>2, <2>1
    DEF ChannelStep, Connect, Fail, Lose, IdleTimeout, Change, Wakes, Wake
  <2>2. CASE LooksOn(k)
    <3>1. k # j
      BY <2>2 DEF LooksOn, Looks
    <3> QED
      BY <1>1, <2>2, <3>1, LooksType DEF LooksOn
  <2>3. ASSUME NEW s \in Redialer, AnotherRedialer(k, s) PROVE Fine \/ Redialed(j)'
    <3>1. CASE k = j
      BY <1>0, <2>3, <3>1, StartedRedials DEF AnotherRedialer
    <3>2. CASE k # j
      BY <1>1, <2>3, <3>2, LooksType DEF AnotherRedialer
    <3> QED
      BY <3>1, <3>2
  <2> QED
    BY <1>4, <2>1, <2>2, <2>3 DEF ConnectionStep
<1>5. ASSUME OtherStep PROVE Fine
  BY <1>1, <1>5
  DEF OtherStep, PeerStop, PeerStart, Start, Forgets, Crashes, connVars
<1> QED
  BY <1>3, <1>4, <1>5, Steps

\* A peer that runs and does not know us did so before, if a connection to it
\* was ready; and a connection is noticed again only when the peer knows us.
LEMMA PeerMoves ==
  ASSUME TypeInv, [RemotesNext]_vars, ~crashed', NEW j \in Conn
  PROVE  /\ ~crashed
         /\ channel[j] = "ready" /\ peer' /\ ~prepared' => peer /\ ~prepared
         /\ j \in unnoticed /\ j \notin unnoticed' => channel'[j] = "ready" /\ prepared'
<1>0. \A r \in Redialer : redialer[r] # Free => redialer[r].conn \in Conn
  BY TypeParts
<1>1. ASSUME NEW r \in Redialer, RedialerStep(r)
      PROVE  CallSucceeds(r) \/ UNCHANGED peerVars
  BY <1>1
  DEF RedialerStep, Dial, Stopped, Closes, Finishes, StreamFails, AttemptFails, FirstFails
<1>2. ASSUME NEW r \in Redialer, CallSucceeds(r)
      PROVE  /\ channel[j] = "ready" /\ peer' /\ ~prepared' => peer /\ ~prepared
             /\ j \in unnoticed /\ j \notin unnoticed' => channel'[j] = "ready" /\ prepared'
  BY <1>0, <1>2 DEF CallSucceeds
<1>3. ASSUME NEW k \in Conn, ConnectionStep(k)
      PROVE  /\ UNCHANGED <<peer, prepared>>
             /\ unnoticed \subseteq unnoticed'
  BY <1>3
  DEF ConnectionStep, ChannelStep, Connect, Fail, Lose, IdleTimeout, Change, Wakes,
      Wake, LooksOn, Looks, AnotherRedialer, peerVars
<1>4. ASSUME OtherStep
      PROVE  /\ channel[j] = "ready" /\ peer' /\ ~prepared' => peer /\ ~prepared
             /\ UNCHANGED unnoticed
  <2>1. CASE PeerStop
    BY <2>1 DEF PeerStop
  <2>2. CASE PeerStart
    BY <2>2 DEF PeerStart
  <2>3. CASE UNCHANGED peerVars
    BY <2>3 DEF peerVars
  <2> QED
    BY <1>4, <2>1, <2>2, <2>3 DEF OtherStep, Start, Forgets, Crashes, connVars
<1>5. UNCHANGED crashed \/ ~crashed
  BY Steps
  DEF RedialerStep, Dial, CallSucceeds, Stopped, Closes, Finishes, StreamFails,
      AttemptFails, FirstFails, ConnectionStep, ChannelStep, Connect, Fail, Lose,
      IdleTimeout, Change, Wakes, Wake, LooksOn, Looks, AnotherRedialer, OtherStep,
      PeerStop, PeerStart, Start, Forgets, Crashes, connVars
<1>6. ~crashed
  BY <1>5
<1> QED
  BY <1>1, <1>2, <1>3, <1>4, <1>6, Steps DEF peerVars

LEMMA TendedStep ==
  ASSUME TypeInv, WatchedInv, [RemotesNext]_vars, ~crashed', NEW j \in Conn,
         Tended(j), j \notin unnoticed'
  PROVE  Tended(j)'
<1>0. /\ watchers[j].waiting \in Nat /\ watchers[j].woken \in Nat
      /\ watchers'[j].waiting \in Nat /\ watchers'[j].woken \in Nat
  <2>1. TypeInv'
    BY TypeInvStep
  <2> QED
    BY <2>1 DEF TypeInv, RemotesTypeOK, ReconnectionTypeOK, Watching
<1>1. CASE channel'[j] \in {"none", "shutdown"}
  BY <1>1 DEF Tended
<1>2. CASE channel'[j] = "ready"
  <2>1. CASE peer' /\ ~prepared'
    <3>1. CASE channel[j] = "ready"
      BY <1>2, <2>1, <3>1, PeerMoves, RedialedStays DEF Tended
    <3>2. CASE channel[j] # "ready"
      <4>1. channel[j] \in {"connecting", "failing"}
        BY <1>2, <3>2, ChannelMovesOnly DEF ChannelMoves
      <4> QED
        BY <1>2, <2>1, <4>1, RedialedStays DEF Tended
    <3>3. Redialed(j)' => Tended(j)'
      BY <1>2 DEF Tended
    <3> QED
      BY <3>1, <3>2, <3>3
  <2>2. CASE ~(peer' /\ ~prepared')
    BY <1>2, <2>2 DEF Tended
  <2> QED
    BY <2>1, <2>2
<1>3. CASE channel'[j] \in {"connecting", "failing"}
  <2>1. Redialed(j) => Redialed(j)'
    BY <1>3, RedialedStays
  <2>2. CASE channel[j] \in {"connecting", "failing"}
    BY <1>3, <2>1, <2>2 DEF Tended
  <2>3. CASE channel[j] = "idle" /\ Wake(j)
    <3>1. watchers[j].waiting # 0
      BY <2>3 DEF Wake
    <3> QED
      BY <1>0, <1>3, <2>1, <2>3, <3>1 DEF Tended
  <2>4. CASE Redialed(j)'
    BY <1>3, <2>4 DEF Tended
  <2> QED
    BY <1>3, <2>2, <2>3, <2>4, ChannelMovesOnly DEF ChannelMoves
<1>4. CASE channel'[j] = "idle"
  <2>1. CASE Redialed(j)'
    BY <1>4, <2>1 DEF Tended
  <2>2. CASE channel[j] \in {"connecting", "failing", "ready"} /\ watchers' = Woken(j)
    <3>1. watchers'[j].waiting = 0 /\ watchers'[j].woken > 0
      BY <2>2, WokenOK DEF WatchedInv, Watched
    <3> QED
      BY <1>4, <3>1 DEF Tended
  <2>3. CASE channel[j] = "idle"
    <3>1. CASE Redialed(j)
      BY <1>4, <2>1, <3>1, RedialedStays
    <3>2. CASE ~Redialed(j)
      <4>1. watchers[j].woken > 0 /\ watchers[j].waiting = 0
        BY <1>0, <2>3, <3>2 DEF Tended
      <4>2. \/ Redialed(j)'
            \/ /\ watchers'[j].woken >= watchers[j].woken
               /\ watchers'[j].waiting <= watchers[j].waiting
        BY <1>4, <2>3, IdleMoves
      <4> QED
        BY <1>0, <1>4, <2>1, <4>1, <4>2 DEF Tended
    <3> QED
      BY <3>1, <3>2
  <2> QED
    BY <1>4, <2>1, <2>2, <2>3, ChannelMovesOnly DEF ChannelMoves
<1> QED
  <2>1. channel'[j] \in State
    BY TypeInvStep DEF TypeInv, RemotesTypeOK, ReconnectionTypeOK
  <2> QED
    BY <2>1, <1>1, <1>2, <1>3, <1>4 DEF State

LEMMA TendedInvStep ==
  TypeInv /\ WatchedInv /\ TendedInv /\ [RemotesNext]_vars => TendedInv'
<1> SUFFICES ASSUME TypeInv, WatchedInv, TendedInv, [RemotesNext]_vars, ~crashed',
                    NEW j \in Conn, j \notin unnoticed'
             PROVE  Tended(j)'
  BY DEF TendedInv
<1>1. CASE j \notin unnoticed
  BY <1>1, PeerMoves, TendedStep DEF TendedInv
<1>2. CASE j \in unnoticed
  <2>1. channel'[j] = "ready" /\ prepared'
    BY <1>2, PeerMoves
  <2> QED
    BY <2>1 DEF Tended
<1> QED
  BY <1>1, <1>2

\* A running server's connection that is ready is one on which the peer knows us,
\* once the goroutines have done what they were woken for: a restart of the peer
\* ends the connection, and whoever finds it idle prepares the peer again.
THEOREM ConnectedAlwaysPrepared == RemotesSpec => []ConnectedIsPrepared
<1>1. RemotesInit => WatchedInv
  BY DEF RemotesInit, ReconnectionInit, VoiceControlInit, WatchedInv
<1>2. RemotesInit => TendedInv
  BY DEF RemotesInit, ReconnectionInit, TendedInv, Tended
<1>3. TypeInv /\ TendedInv => ConnectedIsPrepared
  <2> SUFFICES ASSUME TypeInv, TendedInv, current # NoConn, channel[current] = "ready",
                      Quiet, ~crashed, peer, ~prepared, current \notin unnoticed
               PROVE  FALSE
    BY TypeParts DEF ConnectedIsPrepared
  <2>1. current \in Conn
    BY TypeParts
  <2>2. Redialed(current)
    BY <2>1 DEF TendedInv, Tended, Redialed
  <2> QED
    BY <2>2 DEF Redialed, Quiet
<1> QED
  BY <1>1, <1>2, <1>3, WatchedInvStep, TendedInvStep, TypesAlways, PTL DEF RemotesSpec
=============================================================================
