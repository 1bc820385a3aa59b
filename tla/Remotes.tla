------------------------------- MODULE Remotes -------------------------------
(***************************************************************************)
(* A remote peer over time, lost and restarted at any moment: a plugin of  *)
(* a control server or the control server of a voice server.  The two      *)
(* clients are the same code but for what they call and what they do when  *)
(* it fails; a behaviour is about one of them.                             *)
(***************************************************************************)
EXTENDS PluginClient, VoiceControlClient

VARIABLE kind      \* "plugin" or "control"

vars == <<connVars, enabled, voiceVars, kind>>

RemotesTypeOK ==
  /\ ReconnectionTypeOK /\ PluginTypeOK /\ VoiceControlTypeOK
  /\ kind \in {"plugin", "control"}

RemotesInit ==
  /\ ReconnectionInit /\ PluginInit /\ VoiceControlInit
  /\ kind \in {"plugin", "control"}
  /\ kind = "control" => enabled

Environment ==
  /\ PeerStop \/ PeerStart \/ \E k \in Conn : ChannelStep(k)
  /\ UNCHANGED <<enabled, voiceVars>>

RemotesNext ==
  /\ \/ Environment
     \/ kind = "plugin" /\ PluginNext /\ UNCHANGED voiceVars
     \/ kind = "control" /\ VoiceControlNext /\ UNCHANGED enabled
  /\ UNCHANGED kind

RemotesSpec == RemotesInit /\ [][RemotesNext]_vars

\* What one redialer or one watcher does next.
Redials(r) ==
  \/ kind = "plugin" /\ PluginConnects(r) /\ UNCHANGED <<voiceVars, kind>>
  \/ kind = "control" /\ ControlConnects(r) /\ UNCHANGED <<enabled, kind>>

GrpcConnects(k) ==
  /\ Connect(k) \/ Fail(k) \/ (~peer /\ Lose(k))
  /\ UNCHANGED <<enabled, voiceVars, kind>>

OpensStream(r) == kind = "control" /\ WakeForStream(r) /\ UNCHANGED <<enabled, kind>>

\* Redialers run, and grpc comes to a result when it connects and notices that
\* a peer is gone (keepalive).  A call is carried out, or fails, if its
\* connection is up, or down, again and again: strong fairness, since the peer
\* may come and go.
RemotesFairSpec ==
  /\ RemotesSpec
  /\ \A r \in Redialer : SF_vars(Redials(r)) /\ WF_vars(OpensStream(r))
  /\ \A k \in Conn : WF_vars(GrpcConnects(k))

-----------------------------------------------------------------------------
(* Properties *)

\* No reconnection goes on for ever, however often the peer comes and goes.
ReconnectionEnds ==
  \A r \in Redialer : redialer[r] # Free ~> redialer[r] = Free

\* A peer that is connected knows us (the plugin its configuration, the control
\* server the registration) once the goroutines have done what they were woken
\* for, also after it was restarted; unless another call woke the connection first.
ConnectedIsPrepared ==
  current # NoConn /\ channel[current] = "ready" /\ Quiet /\ ~crashed
    => prepared \/ ~peer \/ current \in unnoticed
=============================================================================
