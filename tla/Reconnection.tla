---------------------------- MODULE Reconnection -----------------------------
(***************************************************************************)
(* What srs/plugin_client.go and voiceontrol/client.go have in common, a   *)
(* gRPC connection to a peer (a plugin, or the control server) and the     *)
(* goroutines around it:                                                   *)
(*                                                                         *)
(*   - each attempt to establish the connection starts another watcher,    *)
(*     which waits for changes of the connection's state and, when it      *)
(*     finds it idle, starts a redialer; no watcher ever ends;             *)
(*   - a redialer (handleReconnection) attempts to establish the           *)
(*     connection again until it succeeds, or closes it and gives up.      *)
(*                                                                         *)
(* A restart of the server makes a new client, with a connection of its    *)
(* own; the clients of earlier starts are forgotten but not stopped.       *)
(*                                                                         *)
(* The connection's states are those of grpc-go's pick_first: a call wakes *)
(* an idle connection, a connection that is lost, or on which nothing was  *)
(* called for half an hour, becomes idle, and one that fails is retried by *)
(* grpc itself.  A watcher that is waiting is woken by every change.       *)
(***************************************************************************)
EXTENDS Naturals

CONSTANTS
  Conn,               \* connections, one for each start; bounds their number
  NoConn,
  MaxWatchers,        \* bound: a connection gets no further watcher
  Redialer,           \* bound: a redialer starts when one of these is free
  Free,
  MaxAttempts         \* maxReconnectionAttempts, 20 in the code

Watching  == [waiting : 0..MaxWatchers, woken : 0..MaxWatchers]
Redialing == [conn : Conn, attempts : 0..MaxAttempts, first : BOOLEAN,
              step : {"dial", "call", "established"}]

ASSUME ReconnectionAssumption ==
  /\ MaxAttempts \in Nat \ {0} /\ MaxWatchers \in Nat \ {0}
  /\ NoConn \notin Conn /\ Free \notin Redialing

VARIABLES
  peer, prepared,     \* the peer runs; it knows us (configured, registered)
  unnoticed,          \* history: the connections that a call woke when they were
                      \* idle, before a watcher looked, and that have not
                      \* prepared the peer since
  channel,            \* connection -> its state
  watchers,           \* connection -> how many wait, and how many were woken
  redialer,           \* slot -> its connection, attempts and next step, or Free
  current,            \* the connection of the running server's client
  crashed

peerVars == <<peer, prepared, unnoticed>>
connVars == <<peerVars, channel, watchers, redialer, current, crashed>>

State == {"none", "idle", "connecting", "ready", "failing", "shutdown"}

ReconnectionTypeOK ==
  /\ peer \in BOOLEAN /\ prepared \in BOOLEAN /\ unnoticed \subseteq Conn
  /\ crashed \in BOOLEAN
  /\ channel \in [Conn -> State]
  /\ watchers \in [Conn -> Watching]
  /\ redialer \in [Redialer -> Redialing \cup {Free}]
  /\ current \in Conn \cup {NoConn}

ReconnectionInit ==
  /\ peer \in BOOLEAN /\ prepared = FALSE /\ unnoticed = {}
  /\ channel = [k \in Conn |-> "none"]
  /\ watchers = [k \in Conn |-> [waiting |-> 0, woken |-> 0]]
  /\ redialer = [r \in Redialer |-> Free]
  /\ current = NoConn
  /\ crashed = FALSE

-----------------------------------------------------------------------------
(* The connection *)

\* The connection or redialer that is taken next, if any is left: which
\* one does not matter.
Unused(f, none) ==
  LET unused == {x \in DOMAIN f : f[x] = none}
  IN IF unused = {} THEN {} ELSE {CHOOSE x \in unused : TRUE}

Become(k, state) == channel' = [channel EXCEPT ![k] = state]

\* Every waiting watcher of k is woken.
Woken(k) == [watchers EXCEPT ![k] = [waiting |-> 0, woken |-> @.waiting + @.woken]]

\* A change of the connection's state that nothing else goes with.
Change(k, state) ==
  /\ ~crashed
  /\ Become(k, state)
  /\ watchers' = Woken(k)
  /\ UNCHANGED <<peerVars, redialer, current, crashed>>

\* A login, or the opening of the stream, wakes an idle connection.  A watcher
\* that waits has looked since it became idle.
Wake(k) ==
  /\ ~crashed
  /\ channel[k] = "idle"
  /\ Become(k, "connecting")
  /\ watchers' = Woken(k)
  /\ unnoticed' = IF watchers[k].waiting = 0 THEN unnoticed \cup {k} ELSE unnoticed
  /\ UNCHANGED <<peer, prepared, redialer, current, crashed>>

Called(k) == \E r \in Redialer : redialer[r] # Free /\ redialer[r].conn = k
                                 /\ redialer[r].step # "dial"

Connect(k) == channel[k] \in {"connecting", "failing"} /\ peer /\ Change(k, "ready")

Fail(k) == channel[k] = "connecting" /\ ~peer /\ Change(k, "failing")

Lose(k) == channel[k] = "ready" /\ Change(k, "idle")

IdleTimeout(k) ==
  channel[k] \in {"connecting", "failing"} /\ ~Called(k) /\ Change(k, "idle")

\* The peer ends, and knows nothing of us when it is started again.
PeerStop ==
  /\ peer /\ ~crashed
  /\ peer' = FALSE /\ prepared' = FALSE
  /\ UNCHANGED <<unnoticed, channel, watchers, redialer, current, crashed>>

\* Assumed: it is not back before the loss of its connections was noticed (a
\* peer that ends closes them).
PeerStart ==
  /\ ~peer /\ ~crashed
  /\ \A k \in Conn : channel[k] # "ready"
  /\ peer' = TRUE
  /\ UNCHANGED <<prepared, unnoticed, channel, watchers, redialer, current, crashed>>

ChannelStep(k) == Connect(k) \/ Fail(k) \/ Lose(k) \/ IdleTimeout(k)

-----------------------------------------------------------------------------
(* The goroutines *)

\* A call on an idle connection makes it connect.
AfterCall(k) == IF channel[k] = "idle" THEN "connecting" ELSE channel[k]

\* establishConnection: another watcher, if the bound leaves one, and the call.
Establish(k) ==
  /\ Become(k, AfterCall(k))
  /\ LET ws == IF channel[k] = "idle" THEN Woken(k) ELSE watchers
     IN watchers' = IF ws[k].waiting + ws[k].woken = MaxWatchers THEN ws
                    ELSE [ws EXCEPT ![k].waiting = @ + 1]

NewRedialer(k, first) ==
  [conn |-> k, attempts |-> 0, first |-> first, step |-> "dial"]

\* go handleReconnection(), in the redialers rs.
StartRedialer(k, rs, s) ==
  /\ s \in Unused(rs, Free)
  /\ redialer' = [rs EXCEPT ![s] = NewRedialer(k, FALSE)]

\* A server starts: New...Client and the first attempt, in its own goroutine.
\* A new connection is idle.
Start ==
  /\ ~crashed
  /\ \A r \in Redialer : redialer[r] # Free => ~redialer[r].first
  /\ \E k \in Unused(channel, "none"), r \in Unused(redialer, Free) :
       /\ Become(k, "idle")
       /\ redialer' = [redialer EXCEPT ![r] = NewRedialer(k, TRUE)]
  /\ current' = NoConn
  /\ UNCHANGED <<peerVars, watchers, crashed>>

\* Mutant: the attempts are not limited.
DialAlways(r) ==
  /\ ~crashed
  /\ redialer[r] # Free /\ redialer[r].step = "dial"
  /\ Establish(redialer[r].conn)
  /\ redialer' = [redialer EXCEPT ![r].step = "call"]
  /\ UNCHANGED <<peerVars, current, crashed>>

\* The loop of handleReconnection, and the first attempt.
Dial(r) ==
  /\ ~crashed
  /\ redialer[r] # Free /\ redialer[r].step = "dial"
  /\ redialer[r].attempts < MaxAttempts
  /\ Establish(redialer[r].conn)
  /\ redialer' = [redialer EXCEPT ![r].step = "call"]
  /\ UNCHANGED <<peerVars, current, crashed>>

\* Configure, or RegisterVoiceServer, is answered.
CallSucceeds(r) ==
  /\ ~crashed
  /\ redialer[r] # Free /\ redialer[r].step = "call"
  /\ peer /\ channel[redialer[r].conn] = "ready"
  /\ prepared' = TRUE /\ unnoticed' = unnoticed \ {redialer[r].conn}
  /\ redialer' = [redialer EXCEPT ![r].step = "established"]
  /\ UNCHANGED <<peer, channel, watchers, current, crashed>>

\* Mutant: the attempts are not counted.
RetriedForEver(r) == [redialer EXCEPT ![r].step = "dial"]

\* The redialers after r's attempt failed and it slept.
Retried(r) == [redialer EXCEPT ![r].step = "dial", ![r].attempts = @ + 1]

Closed(k) == Become(k, "shutdown") /\ watchers' = Woken(k)

\* The first attempt is not repeated: the connection is closed.
FirstFails(r) ==
  /\ redialer[r].first
  /\ Closed(redialer[r].conn)
  /\ redialer' = [redialer EXCEPT ![r] = Free]
  /\ UNCHANGED <<peerVars, current, crashed>>

\* The connection is down, or closed, or the call has taken too long.
CallFails(r, late) ==
  /\ ~crashed
  /\ redialer[r] # Free /\ redialer[r].step = "call"
  /\ late \/ channel[redialer[r].conn] \in {"failing", "shutdown", "idle"}

AttemptFails(r) ==
  \/ FirstFails(r)
  \/ /\ ~redialer[r].first
     /\ redialer' = Retried(r)
     /\ UNCHANGED <<peerVars, channel, watchers, current, crashed>>

GivesUp(r) ==
  /\ ~crashed
  /\ redialer[r] # Free /\ redialer[r].step = "dial"
  /\ redialer[r].attempts >= MaxAttempts

\* The redialer r is done; the first one makes its connection the server's.
Established(r) ==
  /\ redialer' = [redialer EXCEPT ![r] = Free]
  /\ current' = IF redialer[r].first THEN redialer[r].conn ELSE current

\* A watcher looks at the connection.  found: it has become idle.
Looks(k, found) ==
  /\ ~crashed
  /\ watchers[k].woken > 0
  /\ found <=> channel[k] = "idle"
  /\ watchers' = [watchers EXCEPT ![k] = [waiting |-> @.waiting + 1, woken |-> @.woken - 1]]
  /\ UNCHANGED <<peerVars, channel, current, crashed>>

\* Nothing is left to be done about what happened so far.
Quiet ==
  /\ \A r \in Redialer : redialer[r] = Free
  /\ \A k \in Conn : watchers[k].woken = 0
=============================================================================
