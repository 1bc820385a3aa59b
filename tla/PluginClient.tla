---------------------------- MODULE PluginClient -----------------------------
(***************************************************************************)
(* srs/plugin_client.go, the start of a client by initializePluginClients  *)
(* (srs/auth_service.go), and the plugin's Enabled setting                 *)
(* (state/settings.go) that both of them write: off when the connection is *)
(* found idle or cannot be made, on when the plugin was configured.  stopc *)
(* is never made, so nothing stops a redialer but success and its limit.   *)
(***************************************************************************)
EXTENDS Reconnection

VARIABLE enabled

PluginTypeOK == enabled \in BOOLEAN

PluginInit == enabled \in BOOLEAN

SetPluginEnabled(value) == enabled' = value

\* GetAllPluginNames has only the plugins that are enabled at this moment; the
\* others get no client.
initializePluginClients ==
  /\ enabled
  /\ Start
  /\ UNCHANGED enabled

\* A server that starts while the plugin is disabled.
StartWithoutPlugin ==
  /\ ~enabled
  /\ current # NoConn /\ ~crashed
  /\ current' = NoConn
  /\ UNCHANGED <<peerVars, channel, watchers, redialer, crashed, enabled>>

DialPlugin(r) == Dial(r) /\ UNCHANGED enabled

configurePlugin(r) == CallSucceeds(r) /\ UNCHANGED enabled

EnablePlugin(r) ==
  /\ redialer[r] # Free /\ redialer[r].step = "established"
  /\ Established(r)
  /\ SetPluginEnabled(TRUE)
  /\ UNCHANGED <<peerVars, channel, watchers, crashed>>

\* The call has a deadline, and the plugin may refuse its configuration.
ConfigureFails(r) ==
  /\ CallFails(r, TRUE)
  /\ AttemptFails(r)
  /\ IF redialer[r].first THEN SetPluginEnabled(FALSE) ELSE UNCHANGED enabled

ClosePlugin(r) ==
  /\ GivesUp(r)
  /\ Closed(redialer[r].conn)
  /\ redialer' = [redialer EXCEPT ![r] = Free]
  /\ UNCHANGED <<peerVars, current, crashed, enabled>>

\* Mutants: without the redialer; no redialer beside another one.
WatchPluginOnly(k) ==
  \/ Looks(k, FALSE) /\ UNCHANGED <<redialer, enabled>>
  \/ Looks(k, TRUE) /\ SetPluginEnabled(FALSE) /\ UNCHANGED redialer

WatchPluginOnce(k) ==
  \/ Looks(k, FALSE) /\ UNCHANGED <<redialer, enabled>>
  \/ /\ Looks(k, TRUE)
     /\ SetPluginEnabled(FALSE)
     /\ IF \E r \in Redialer : redialer[r] # Free /\ redialer[r].conn = k
        THEN UNCHANGED redialer
        ELSE \E s \in Redialer : StartRedialer(k, redialer, s)

WatchPlugin(k) ==
  \/ Looks(k, FALSE) /\ UNCHANGED <<redialer, enabled>>
  \/ /\ Looks(k, TRUE)
     /\ SetPluginEnabled(FALSE)
     /\ \E s \in Redialer : StartRedialer(k, redialer, s)

\* A client logs in through the plugin (the login itself is in AuthServer).
Login == current # NoConn /\ Wake(current) /\ UNCHANGED enabled

PluginConnects(r) ==
  \/ DialPlugin(r) \/ configurePlugin(r) \/ EnablePlugin(r)
  \/ ConfigureFails(r) \/ ClosePlugin(r)

PluginNext ==
  \/ initializePluginClients \/ StartWithoutPlugin \/ Login
  \/ \E r \in Redialer : PluginConnects(r)
  \/ \E k \in Conn : WatchPlugin(k)

-----------------------------------------------------------------------------
(* Properties *)

\* A plugin the running server has a client for is disabled only while somebody
\* is reconnecting to it, or after somebody gave up: the client's own redialers
\* or those of an earlier start, which share the setting.
DisabledIsRedialed ==
  current # NoConn /\ ~enabled =>
    \/ \E r \in Redialer : redialer[r] # Free
    \/ \E k \in Conn : channel[k] = "shutdown"
=============================================================================
