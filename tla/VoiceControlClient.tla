------------------------- MODULE VoiceControlClient --------------------------
(***************************************************************************)
(* voiceontrol/client.go, with the answers of voiceontrol/service.go: a    *)
(* voice server registers with the control server and opens a stream, which *)
(* the control server ends at once.                                        *)
(*                                                                         *)
(* stopc is made when the first stream is opened; Close closes it, and two *)
(* redialers that give up together close it twice, which is a panic.  The  *)
(* reader of the stream reads whatever stream the client has by then, again *)
(* after every error, each time with another redialer (the break leaves    *)
(* only the select); a stream that could not be opened is nil, and reading *)
(* it is a panic.                                                          *)
(***************************************************************************)
EXTENDS Reconnection, FiniteSets

CONSTANT MaxConnects      \* bound: starts of the voice server

VARIABLES
  stopc,       \* connection -> "nil", "open" or "closed"
  stream,      \* connection -> "nil", "open" or "broken"
  reading      \* the connections with a goroutine that reads the stream

voiceVars == <<stopc, stream, reading>>

VoiceControlTypeOK ==
  /\ stopc \in [Conn -> {"nil", "open", "closed"}]
  /\ stream \in [Conn -> {"nil", "open", "broken"}]
  /\ reading \subseteq Conn

VoiceControlInit ==
  /\ stopc = [k \in Conn |-> "nil"]
  /\ stream = [k \in Conn |-> "nil"]
  /\ reading = {}

Panic ==
  /\ crashed' = TRUE
  /\ redialer' = [r \in Redialer |-> Free]
  /\ UNCHANGED <<peerVars, channel, watchers, current, voiceVars>>

ConnectControlServer ==
  /\ Cardinality({k \in Conn : channel[k] # "none"}) < MaxConnects
  /\ Start
  /\ UNCHANGED voiceVars

\* The loop tests stopc first.
DialControl(r) ==
  /\ redialer[r] # Free
  /\ redialer[r].first \/ stopc[redialer[r].conn] # "closed"
  /\ Dial(r)
  /\ UNCHANGED voiceVars

Stopped(r) ==
  /\ ~crashed
  /\ redialer[r] # Free /\ redialer[r].step = "dial" /\ ~redialer[r].first
  /\ stopc[redialer[r].conn] = "closed"
  /\ redialer' = [redialer EXCEPT ![r] = Free]
  /\ UNCHANGED <<peerVars, channel, watchers, current, crashed, voiceVars>>

registerSelf(r) == CallSucceeds(r) /\ UNCHANGED voiceVars

\* It has no deadline.
RegisterFails(r) ==
  /\ CallFails(r, FALSE)
  /\ AttemptFails(r)
  /\ UNCHANGED voiceVars

Opening(r) == ~crashed /\ redialer[r] # Free /\ redialer[r].step = "established"

establishStream(r) ==
  LET k == redialer[r].conn IN
  /\ Opening(r)
  /\ channel[k] = "ready"
  /\ stream' = [stream EXCEPT ![k] = "open"]
  /\ stopc' = [stopc EXCEPT ![k] = IF @ = "nil" THEN "open" ELSE @]
  /\ reading' = reading \cup {k}
  /\ Established(r)
  /\ UNCHANGED <<peerVars, channel, watchers, crashed>>

\* The connection was lost since the registration: it is made again.
WakeForStream(r) ==
  /\ Opening(r)
  /\ Wake(redialer[r].conn)
  /\ UNCHANGED voiceVars

\* Another redialer is started if the connection was down, beside the one whose
\* attempt this is.
StreamFails(r) ==
  LET k == redialer[r].conn IN
  /\ Opening(r)
  /\ channel[k] \in {"failing", "shutdown"}
  /\ stream' = [stream EXCEPT ![k] = "nil"]
  /\ IF redialer[r].first
     THEN /\ Closed(k)
          /\ redialer' = [redialer EXCEPT ![r] =
                            IF channel[k] # "shutdown" THEN NewRedialer(k, FALSE) ELSE Free]
     ELSE /\ IF channel[k] # "shutdown" /\ \E s \in Redialer : redialer[s] = Free
             THEN \E s \in Redialer : StartRedialer(k, Retried(r), s)
             ELSE redialer' = Retried(r)
          /\ UNCHANGED <<channel, watchers>>
  /\ UNCHANGED <<peerVars, current, crashed, stopc, reading>>

\* GivesUp tested stopc a moment ago; it may have been closed since.
CloseControl(r) ==
  LET k == redialer[r].conn IN
  /\ GivesUp(r)
  /\ IF stopc[k] = "closed" THEN Panic
     ELSE /\ stopc' = [stopc EXCEPT ![k] = IF @ = "open" THEN "closed" ELSE @]
          /\ Closed(k)
          /\ redialer' = [redialer EXCEPT ![r] = Free]
          /\ UNCHANGED <<peerVars, current, crashed, stream, reading>>

\* The reader: the end of the stream, an error, or a nil stream.  A broken stream
\* has nothing but errors, also when the connection is up again, until a redialer
\* has opened another.
ReadStream(k) ==
  /\ ~crashed /\ k \in reading
  /\ \/ /\ stream[k] = "open" \/ stopc[k] = "closed"
        /\ reading' = reading \ {k}
        /\ UNCHANGED <<peerVars, channel, watchers, redialer, current, crashed,
                       stopc, stream>>
     \/ /\ \/ stream[k] = "open" /\ channel[k] # "ready"
           \/ stream[k] = "broken"
        /\ stream' = [stream EXCEPT ![k] = "broken"]
        /\ \E s \in Redialer : StartRedialer(k, redialer, s)
        /\ UNCHANGED <<peerVars, channel, watchers, current, crashed, stopc, reading>>
     \/ stream[k] = "nil" /\ Panic

WatchControl(k) ==
  /\ \/ Looks(k, FALSE) /\ UNCHANGED redialer
     \/ Looks(k, TRUE) /\ \E s \in Redialer : StartRedialer(k, redialer, s)
  /\ UNCHANGED voiceVars

ControlConnects(r) ==
  \/ DialControl(r) \/ Stopped(r) \/ registerSelf(r) \/ RegisterFails(r)
  \/ establishStream(r) \/ StreamFails(r) \/ CloseControl(r)

VoiceControlNext ==
  \/ ConnectControlServer
  \/ \E r \in Redialer : ControlConnects(r) \/ WakeForStream(r)
  \/ \E k \in Conn : ReadStream(k)
  \/ \E k \in Conn : WatchControl(k)
=============================================================================
