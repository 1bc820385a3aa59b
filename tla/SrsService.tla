----------------------------- MODULE SrsService ------------------------------
(***************************************************************************)
(* srs/srs_service.go: the RPCs of a logged-in client, and the             *)
(* administrator's kick and mute (app/clients.go) that race them.          *)
(*                                                                         *)
(* Publishing to the event bus changes nothing of the state kept here.     *)
(* GetServerSettings changes nothing at all.  StartCleanupRoutine ranges   *)
(* over streams, to which SubscribeToUpdates never gets to add anything.   *)
(***************************************************************************)
EXTENDS Rpc

CONSTANT RadioInput    \* the radio states clients send

ASSUME RadioInputAssumption == RadioInput \subseteq RadioState

InfoStep == {"checkCoalition", "writeCoalition", "checkRole", "writeRole"}
SrsStep  == InfoStep \cup {"writeRadio", "cleanup", "syncRadio"}

InfoArg  == [guid : Guid, coalition : Coalition, roleId : RoleId]
RadioArg == [guid : Guid, radio : RadioInput]
PlainArg == [guid : Guid]

\* What pc says about a call's argument and about what it holds: a pointer to
\* a client object, the radio entries still to convert, or nothing.
SrsCallOK(c) ==
  \/ pc[c] \in InfoStep /\ arg[c] \in InfoArg /\ local[c] \in Ref
  \/ pc[c] = "writeRadio" /\ arg[c] \in RadioArg /\ local[c] = NoLocal
  \/ pc[c] = "cleanup" /\ arg[c] \in PlainArg /\ local[c] = NoLocal
  \/ pc[c] = "syncRadio" /\ arg[c] \in PlainArg /\ local[c] \in SUBSET Guid

-----------------------------------------------------------------------------
(* UpdateClientInfo *)

\* Mutant: the lookup's "ok" is not tested.
UpdateAnyInfo(c) ==
  \E a \in InfoArg :
    /\ EnterAuthorized(c, "checkCoalition", a, clients[a.guid])
    /\ UNCHANGED <<stateVars, settingsVars, tokens>>

\* Looks the pointer up under RLock.  The name and the unit id written next
\* are abstracted.
UpdateClientInfo(c) ==
  \E a \in InfoArg :
    /\ clients[a.guid] # NoRef
    /\ EnterAuthorized(c, "checkCoalition", a, clients[a.guid])
    /\ UNCHANGED <<stateVars, settingsVars, tokens>>

CheckCoalition(c) ==
  /\ At(c, "checkCoalition")
  /\ Goto(c, IF DoesCoalitionExist(arg[c].coalition)
             THEN "writeCoalition" ELSE "checkRole", local[c])
  /\ UNCHANGED <<stateVars, settingsVars, tokens>>

WriteCoalition(c) ==
  /\ At(c, "writeCoalition")
  /\ WriteClient(local[c], "coalition", arg[c].coalition)
  /\ Goto(c, "checkRole", local[c])
  /\ UNCHANGED <<settingsVars, tokens>>

\* Mutant: the comparison is the wrong way round.
canSwapUp(client, roleId) == roleId # GuestRole /\ client.role <= roleId

canSwapRoles(client, roleId) ==
  /\ roleId # GuestRole
  /\ client.role >= roleId

\* Reads the role through the pointer without the lock.
CheckRole(c) ==
  /\ At(c, "checkRole")
  /\ IF canSwapRoles(heap[local[c]], uint8(arg[c].roleId))
     THEN Goto(c, "writeRole", local[c])
     ELSE Reply(c)
  /\ UNCHANGED <<stateVars, settingsVars, tokens>>

\* Mutant: the uint32 of the request is not narrowed.
WriteWideRole(c) ==
  /\ At(c, "writeRole")
  /\ WriteClient(local[c], "role", arg[c].roleId)
  /\ Reply(c)
  /\ UNCHANGED <<settingsVars, tokens>>

WriteRole(c) ==
  /\ At(c, "writeRole")
  /\ WriteClient(local[c], "role", uint8(arg[c].roleId))
  /\ Reply(c)
  /\ UNCHANGED <<settingsVars, tokens>>

-----------------------------------------------------------------------------
(* UpdateRadioInfo: checks under RLock, overwrites under a later Lock *)

UpdateRadioInfo(c) ==
  \E a \in RadioArg :
    /\ HasRadio(a.guid)
    /\ EnterAuthorized(c, "writeRadio", a, NoLocal)
    /\ UNCHANGED <<stateVars, settingsVars, tokens>>

WriteRadio(c) ==
  /\ At(c, "writeRadio")
  /\ radios' = [radios EXCEPT ![arg[c].guid] = arg[c].radio]
  /\ Reply(c)
  /\ UNCHANGED <<clients, heap, up, settingsVars, tokens>>

-----------------------------------------------------------------------------
(* Disconnect: whatever the check under RLock finds, cleanupClientState runs *)

Disconnect(c) ==
  \E g \in Guid :
    /\ EnterAuthorized(c, "cleanup", [guid |-> g], NoLocal)
    /\ UNCHANGED <<stateVars, settingsVars, tokens>>

cleanupClientState(g) ==
  /\ clients' = [clients EXCEPT ![g] = NoRef]
  /\ radios' = [radios EXCEPT ![g] = NoRadio]
  /\ UNCHANGED <<heap, up>>

Cleanup(c) ==
  /\ At(c, "cleanup")
  /\ cleanupClientState(arg[c].guid)
  /\ Reply(c)
  /\ UNCHANGED <<settingsVars, tokens>>

-----------------------------------------------------------------------------
(* SyncClient and SubscribeToUpdates *)

\* The snapshot of RadioClients; each entry is converted under an RLock of its
\* own, dereferencing the entry of Clients with the same guid.
SyncClient(c) ==
  \E g \in Guid :
    /\ EnterAuthorized(c, "syncRadio", [guid |-> g],
                       {h \in Guid : HasRadio(h)})
    /\ UNCHANGED <<stateVars, settingsVars, tokens>>

\* Mutant: the loop looks at the live map again after each entry.
SyncLiveRadio(c) ==
  /\ At(c, "syncRadio")
  /\ \E g \in local[c] :
       IF clients[g] = NoRef
       THEN Panic /\ UNCHANGED <<callVars, settingsVars, tokens>>
       ELSE /\ Goto(c, "syncRadio", {h \in Guid : HasRadio(h)})
            /\ UNCHANGED <<stateVars, settingsVars, tokens>>

SyncRadio(c) ==
  /\ At(c, "syncRadio")
  /\ \E g \in local[c] :
       IF clients[g] = NoRef
       THEN Panic /\ UNCHANGED <<callVars, settingsVars, tokens>>
       ELSE /\ Goto(c, "syncRadio", local[c] \ {g})
            /\ UNCHANGED <<stateVars, settingsVars, tokens>>

SyncReply(c) ==
  /\ At(c, "syncRadio")
  /\ local[c] = {}
  /\ Reply(c)
  /\ UNCHANGED <<stateVars, settingsVars, tokens>>

\* A stream: only unary interceptors are installed, so client_id is never in
\* the context and the type assertion panics before anything else happens.
SubscribeToUpdates ==
  /\ up
  /\ Panic
  /\ UNCHANGED <<callVars, settingsVars, tokens>>

-----------------------------------------------------------------------------
(* The administrator (app/clients.go), under the registry Lock *)

\* ClientService.BanClient calls itself, so the ban in app/clients.go is never
\* reached and the stack overflows, which ends the process like a panic.
BanClient ==
  /\ up
  /\ Panic
  /\ UNCHANGED <<callVars, settingsVars, tokens>>

KickClient(g) ==
  /\ up
  /\ clients' = [clients EXCEPT ![g] = NoRef]
  /\ UNCHANGED <<heap, radios, up, callVars, settingsVars, tokens>>

SetMuted(g, muted) ==
  /\ up
  /\ HasRadio(g)
  /\ radios' = [radios EXCEPT ![g] = [@ EXCEPT !.muted = muted]]
  /\ UNCHANGED <<clients, heap, up, callVars, settingsVars, tokens>>

MuteClient(g)   == SetMuted(g, TRUE)
UnmuteClient(g) == SetMuted(g, FALSE)

-----------------------------------------------------------------------------
(* The steps of a call that is in flight: the scheduler runs them *)
Continue(c) ==
  \/ CheckCoalition(c) \/ WriteCoalition(c) \/ CheckRole(c) \/ WriteRole(c)
  \/ WriteRadio(c) \/ Cleanup(c) \/ SyncRadio(c) \/ SyncReply(c)

SrsCalls ==
  \/ \E c \in Call :
       \/ UpdateClientInfo(c) \/ UpdateRadioInfo(c) \/ Disconnect(c)
       \/ SyncClient(c) \/ Continue(c)
  \/ \E g \in Guid : KickClient(g) \/ MuteClient(g) \/ UnmuteClient(g)
  \/ SubscribeToUpdates \/ BanClient
  \/ EditCoalitions

\* What AuthServer does to the registry, for this module alone: the client is
\* added with a role and a configured coalition, and obtains a token.
Join(g) ==
  /\ up
  /\ \E coalition \in Names(coalitions), roleId \in RoleId :
       AddClient(g, coalition, uint8(roleId))
  /\ tokens' = tokens \cup {g}
  /\ UNCHANGED <<callVars, settingsVars>>

SrsInit == StateInit /\ SettingsInit /\ RpcInit

SrsNext == SrsCalls \/ Reboot \/ \E g \in Guid : Join(g)

SrsSpec == SrsInit /\ [][SrsNext]_rpcVars

\* The Go scheduler runs every goroutine that can run.
SrsFairSpec == SrsSpec /\ \A c \in Call : WF_rpcVars(Continue(c))

-----------------------------------------------------------------------------
(* Properties *)

SrsTypeOK ==
  /\ StateTypeOK
  /\ SettingsTypeOK
  /\ tokens \in SUBSET Guid
  /\ pc \in [Call -> SrsStep \cup {"idle"}]
  /\ arg = [c \in Call |-> arg[c]]
  /\ local = [c \in Call |-> local[c]]
  /\ \A c \in Call : IdleCallOK(c) \/ SrsCallOK(c)

\* A client that is registered has a radio entry, whatever calls and
\* administrator commands interleave (AddClient and cleanupClientState change
\* both maps under one Lock; UpdateRadioInfo and KickClient change only one).
ClientHasRadio == \A g \in Guid : DoesClientExist(g) => HasRadio(g)

\* Calls that race on one session can lower its role and raise it again, but
\* never above the role it logged in with; a guest stays a guest and nobody
\* becomes one (canSwapRoles is evaluated before the Lock is taken).
RoleWithinGrant ==
  \A r \in Ref : heap[r] # Free =>
    /\ heap[r].role <= heap[r].granted
    /\ heap[r].role = GuestRole <=> heap[r].granted = GuestRole

\* The coalition of a client was configured at some time: the check and the
\* write are separate steps, so the coalition may have been removed between
\* them, but a name that was never configured does not get in.
CoalitionWasConfigured ==
  \A r \in Ref : heap[r] # Free => heap[r].coalition \in configured

\* The call of a superseded or removed session does not change the session
\* that took its place: what a session holds changes only by a call that
\* looked up this very session.
ChangesByOwnCall ==
  [][\A g \in Guid :
       clients[g] # NoRef /\ clients'[g] = clients[g]
         /\ heap'[clients[g]] # heap[clients[g]]
       => \E c \in Call : local[c] = clients[g] /\ arg[c].guid = g]_rpcVars

\* Every call that entered a handler is answered, unless the process is down:
\* the loop of SyncClient ends although clients log in and out meanwhile.
CallsAnswered == \A c \in Call : pc[c] # "idle" ~> (pc[c] = "idle" \/ ~up)

\* The sessions a client or administrator can observe behave as the abstract
\* module Sessions says.
Observed == [g \in Guid |-> IF clients[g] = NoRef THEN NoRef ELSE heap[clients[g]]]

S == INSTANCE Sessions WITH session <- Observed, NoSession <- NoRef
=============================================================================
