------------------------- MODULE ControlServerProofs -------------------------
(***************************************************************************)
(* Safety of ControlServer, for any number of clients, calls, secrets and  *)
(* addresses: the invariants that the model checker confirms on small      *)
(* instances, proved from inductive strengthenings of them.                *)
(***************************************************************************)
EXTENDS ControlServerTypes

-----------------------------------------------------------------------------
(* Which steps change the registry, and which change a given call *)

LEMMA RegistrySteps ==
  ASSUME [ControlNext]_vars
  PROVE  \/ UNCHANGED <<clients, heap, radios>>
         \/ \E c \in Call : \/ WriteCoalition(c) \/ WriteRole(c)
                            \/ WriteRadio(c) \/ Cleanup(c)
                            \/ GuestAdd(c) \/ UnitAdd(c)
         \/ \E g \in Guid : KickClient(g) \/ MuteClient(g) \/ UnmuteClient(g)
         \/ AuthReboot
<1>1. CASE SrsCalls
  <2>1. ASSUME NEW c \in Call,
               \/ UpdateClientInfo(c) \/ UpdateRadioInfo(c) \/ Disconnect(c)
               \/ SyncClient(c) \/ CheckCoalition(c) \/ CheckRole(c)
               \/ SyncRadio(c) \/ SyncReply(c)
        PROVE  UNCHANGED <<clients, heap, radios>>
    BY <2>1 DEF UpdateClientInfo, UpdateRadioInfo, Disconnect, SyncClient,
                CheckCoalition, CheckRole, SyncRadio, SyncReply, Panic, stateVars
  <2>2. SubscribeToUpdates \/ BanClient \/ EditCoalitions
          => UNCHANGED <<clients, heap, radios>>
    BY DEF SubscribeToUpdates, BanClient, EditCoalitions, Panic, stateVars
  <2> QED
    BY <1>1, <2>1, <2>2 DEF SrsCalls, Continue
<1>2. CASE AuthCalls
  <2>1. ASSUME NEW c \in Call, ContinueAuth(c), ~GuestAdd(c), ~UnitAdd(c)
        PROVE  UNCHANGED <<clients, heap, radios>>
    BY <2>1 DEF ContinueAuth, InitPurge, GuestPurge, LoginPurge, Purge, InitStore,
                GuestEntry, GuestMatch, GuestToken, UnitToken, Token, LoginEntry,
                LoginPlugin, LoginCall, LoginStore, UnitEntry, UnitCoalition,
                UnitDelete, Panic, stateVars
  <2>2. ASSUME NEW c \in Call,
               InitAuth(c) \/ GuestLogin(c) \/ Login(c) \/ UnitSelect(c)
        PROVE  UNCHANGED <<clients, heap, radios>>
    BY <2>2 DEF InitAuth, GuestLogin, Login, UnitSelect, StartCall, stateVars
  <2>3. ASSUME NEW g \in Guid, Expire(g) PROVE UNCHANGED <<clients, heap, radios>>
    BY <2>3 DEF Expire, rpcVars
  <2> QED
    BY <1>2, <2>1, <2>2, <2>3 DEF AuthCalls
<1>3. CASE UNCHANGED vars
  BY <1>3 DEF vars, rpcVars
<1> QED
  BY <1>1, <1>2, <1>3 DEF ControlNext

\* An action of call c.
CallStep(c) ==
  \/ UpdateClientInfo(c) \/ UpdateRadioInfo(c) \/ Disconnect(c) \/ SyncClient(c)
  \/ Continue(c)
  \/ InitAuth(c) \/ GuestLogin(c) \/ Login(c) \/ UnitSelect(c)
  \/ ContinueAuth(c)

\* Every action of a call enters a handler, goes on or replies, or panics.
LEMMA CallMoves ==
  ASSUME NEW c \in Call, CallStep(c)
  PROVE  \/ UNCHANGED callVars
         \/ \E p, a, l : Enter(c, p, a, l)
         \/ \E p, l : Goto(c, p, l)
         \/ Reply(c)
<1>1. CASE UpdateClientInfo(c) \/ UpdateRadioInfo(c) \/ Disconnect(c)
             \/ SyncClient(c) 
  BY <1>1 DEF UpdateClientInfo, UpdateRadioInfo, Disconnect, SyncClient,
              EnterAuthorized
<1>2. CASE Continue(c)
  BY <1>2 DEF Continue, CheckCoalition, WriteCoalition, CheckRole, WriteRole,
              WriteRadio, Cleanup, SyncRadio, SyncReply
<1>3. CASE InitAuth(c) \/ GuestLogin(c) \/ Login(c) \/ UnitSelect(c)
  BY <1>3 DEF InitAuth, GuestLogin, Login, UnitSelect, StartCall
<1>4. CASE ContinueAuth(c)
  BY <1>4 DEF ContinueAuth, InitPurge, GuestPurge, LoginPurge, Purge, InitStore,
              GuestEntry, GuestMatch, GuestAdd, GuestToken, UnitToken, Token,
              LoginEntry, LoginPlugin, LoginCall, LoginStore, UnitEntry,
              UnitCoalition, UnitAdd, UnitDelete
<1> QED
  BY <1>1, <1>2, <1>3, <1>4 DEF CallStep

\* A call changes by its own actions only, except when the process restarts.
LEMMA OwnSteps ==
  ASSUME CallTypeOK, [ControlNext]_vars, ~AuthReboot, NEW d \in Call
  PROVE  \/ pc'[d] = pc[d] /\ arg'[d] = arg[d] /\ local'[d] = local[d]
         \/ CallStep(d)
<1>1. UNCHANGED callVars
        => pc'[d] = pc[d] /\ arg'[d] = arg[d] /\ local'[d] = local[d]
  BY DEF callVars
<1>2. ASSUME NEW c \in Call, CallStep(c), c # d
      PROVE  pc'[d] = pc[d] /\ arg'[d] = arg[d] /\ local'[d] = local[d]
  <2>1. CASE \E p, a, l : Enter(c, p, a, l)
    BY <1>2, <2>1 DEF Enter, CallTypeOK
  <2>2. CASE \E p, l : Goto(c, p, l)
    BY <1>2, <2>2 DEF Goto, CallTypeOK
  <2>3. CASE Reply(c)
    BY <1>2, <2>3 DEF Reply, CallTypeOK
  <2> QED
    BY <1>1, <1>2, <2>1, <2>2, <2>3, CallMoves
<1>3. (\E c \in Call : CallStep(c)) \/ UNCHANGED callVars
  <2>1. SrsCalls => (\E c \in Call : CallStep(c)) \/ UNCHANGED callVars
    <3>1. ASSUME NEW g \in Guid, KickClient(g) \/ MuteClient(g) \/ UnmuteClient(g)
          PROVE  UNCHANGED callVars
      BY <3>1 DEF KickClient, MuteClient, UnmuteClient, SetMuted
    <3>2. SubscribeToUpdates \/ BanClient \/ EditCoalitions => UNCHANGED callVars
      BY DEF SubscribeToUpdates, BanClient, EditCoalitions
    <3> QED
      BY <3>1, <3>2 DEF SrsCalls, CallStep
  <2>2. AuthCalls => (\E c \in Call : CallStep(c)) \/ UNCHANGED callVars
    BY DEF AuthCalls, CallStep, Expire, rpcVars, callVars
  <2> QED
    BY <2>1, <2>2 DEF ControlNext, vars, rpcVars, callVars
<1> QED
  BY <1>1, <1>2, <1>3

LEMMA TypesAlways == ControlSpec => []TypeInv
  BY TypeInvInit, TypeInvStep, PTL DEF ControlSpec

\* What GuestAdd and UnitAdd do, with the types of what they add.
LEMMA AddStep ==
  ASSUME TypeInv, NEW c \in Call, GuestAdd(c) \/ UnitAdd(c)
  PROVE  \E g \in Guid, k \in Coalition, role \in Role, r \in Ref :
           Unused(r) /\ AddClientAt(r, g, k, role)
<1>1. CASE GuestAdd(c)
  <2>1. arg[c].guid \in Guid /\ local[c] \in Coalition
    BY <1>1, AuthCall DEF TypeInv, CallsOK, CallsLive, GuestAdd, At, GuestStep, GuestArg
  <2> QED
    BY <1>1, <2>1, RoleFacts DEF GuestAdd, AddClient
<1>2. CASE UnitAdd(c)
  <2>1. /\ arg[c].guid \in Guid /\ arg[c].coalition \in Coalition
        /\ uint8(arg[c].roleId) \in Role
    BY <1>2, AuthCall, RoleFacts
    DEF TypeInv, CallsOK, CallsLive, UnitAdd, At, UnitStep, UnitArg
  <2> QED
    BY <1>2, <2>1 DEF UnitAdd, AddClient
<1> QED
  BY <1>1, <1>2

-----------------------------------------------------------------------------
(* Clients and radios *)

LEMMA ClientHasRadioStep ==
  TypeInv /\ ClientHasRadio /\ [ControlNext]_vars => ClientHasRadio'
<1> SUFFICES ASSUME TypeInv, ClientHasRadio, [ControlNext]_vars
             PROVE  ClientHasRadio'
  OBVIOUS
<1>0. StateTypeOK
  BY DEF TypeInv, RegistryOK
<1>1. CASE UNCHANGED <<clients, heap, radios>>
  BY <1>1 DEF ClientHasRadio, DoesClientExist, HasRadio
<1>2. ASSUME NEW c \in Call, WriteCoalition(c) \/ WriteRole(c)
      PROVE  ClientHasRadio'
  BY <1>2 DEF ClientHasRadio, DoesClientExist, HasRadio, WriteCoalition,
              WriteRole, WriteClient
<1>3. ASSUME NEW c \in Call, WriteRadio(c) PROVE ClientHasRadio'
  <2>1. arg[c].radio \in RadioState /\ arg[c].guid \in Guid
    BY <1>3, PlainCall, RadioInputAssumption
    DEF TypeInv, CallsOK, CallsLive, WriteRadio, At, RadioArg
  <2>2. arg[c].radio # NoRadio
    BY <2>1, SentinelAssumption
  <2>3. /\ UNCHANGED clients
        /\ radios' = [radios EXCEPT ![arg[c].guid] = arg[c].radio]
    BY <1>3 DEF WriteRadio
  <2> QED
    BY <1>0, <2>1, <2>2, <2>3 DEF StateTypeOK, ClientHasRadio,
                                  DoesClientExist, HasRadio
<1>4. ASSUME NEW c \in Call, Cleanup(c) PROVE ClientHasRadio'
  BY <1>0, <1>4 DEF StateTypeOK, ClientHasRadio, DoesClientExist, HasRadio,
                    Cleanup, cleanupClientState
<1>5. ASSUME NEW c \in Call, GuestAdd(c) \/ UnitAdd(c) PROVE ClientHasRadio'
  <2>1. PICK g \in Guid, k \in Coalition, role \in Role, r \in Ref :
          AddClientAt(r, g, k, role)
    BY <1>5, AddStep
  <2>2. FreshRadio \in RadioState
    BY DEF FreshRadio, RadioState
  <2>3. FreshRadio # NoRadio
    BY <2>2, SentinelAssumption
  <2> QED
    BY <1>0, <2>1, <2>3 DEF StateTypeOK, ClientHasRadio, DoesClientExist,
                            HasRadio, AddClientAt
<1>6. ASSUME NEW g \in Guid, KickClient(g) PROVE ClientHasRadio'
  BY <1>0, <1>6 DEF StateTypeOK, ClientHasRadio, DoesClientExist, HasRadio,
                    KickClient
<1>7. ASSUME NEW g \in Guid, NEW m \in BOOLEAN, SetMuted(g, m)
      PROVE  ClientHasRadio'
  <2>1. [radios[g] EXCEPT !.muted = m] \in RadioState
    BY <1>0, <1>7 DEF StateTypeOK, SetMuted, HasRadio, RadioState
  <2>2. [radios[g] EXCEPT !.muted = m] # NoRadio
    BY <2>1, SentinelAssumption
  <2> QED
    BY <1>0, <1>7, <2>2 DEF StateTypeOK, ClientHasRadio, DoesClientExist,
                            HasRadio, SetMuted
<1>8. ASSUME AuthReboot PROVE ClientHasRadio'
  BY <1>8 DEF ClientHasRadio, DoesClientExist, AuthReboot, Reboot
<1> QED
  BY <1>1, <1>2, <1>3, <1>4, <1>5, <1>6, <1>7, <1>8, RegistrySteps
  DEF MuteClient, UnmuteClient

\* A registered client always has a radio entry, whatever logins, radio
\* updates, disconnects, kicks, mutes and crashes interleave.
THEOREM ClientsHaveRadios == ControlSpec => []ClientHasRadio
<1>1. ControlInit => ClientHasRadio
  BY DEF ControlInit, AuthInit, StateInit, ClientHasRadio, DoesClientExist
<1> QED
  BY <1>1, TypesAlways, ClientHasRadioStep, PTL DEF ControlSpec

-----------------------------------------------------------------------------
(* Roles within a session *)

\* The strengthening: the role a call has been allowed to write, in an earlier
\* step and without the lock, is within the grant of the very object it holds.
\* This is what makes the unlocked check harmless: the role compared with may
\* be outdated, but the grant of an object never changes while it is held.
PendingRole ==
  \A c \in Call : pc[c] = "writeRole" =>
    /\ uint8(arg[c].roleId) # GuestRole
    /\ uint8(arg[c].roleId) <= heap[local[c]].granted
    /\ heap[local[c]].granted # GuestRole

RoleInv == RoleWithinGrant /\ PendingRole

\* What a step does to the objects: a coalition is written, or a role that has
\* been allowed; an unused object is replaced; or everything is freed.
LEMMA WriteStep ==
  ASSUME TypeInv, NEW c \in Call, WriteCoalition(c) \/ WriteRole(c)
  PROVE  /\ local[c] \in Ref /\ heap[local[c]] \in ClientState
         /\ \A q \in Ref \ {local[c]} : heap'[q] = heap[q]
         /\ heap'[local[c]] \in ClientState
         /\ heap'[local[c]].granted = heap[local[c]].granted
         /\ WriteCoalition(c) => heap'[local[c]].role = heap[local[c]].role
         /\ WriteRole(c) => heap'[local[c]].role = uint8(arg[c].roleId)
<1>1. pc[c] \in InfoStep
  BY DEF WriteCoalition, WriteRole, At, InfoStep
<1>2. /\ local[c] \in Ref /\ heap[local[c]] \in ClientState
      /\ uint8(arg[c].roleId) \in Role /\ arg[c].coalition \in Coalition
  BY <1>1, InfoCall
  DEF TypeInv, CallsOK, CallsLive, HeldLive, RegistryOK, StateTypeOK, InfoArg
<1>3. heap \in [Ref -> ClientState \cup {Free}]
  BY DEF TypeInv, RegistryOK, StateTypeOK
<1>4. CASE WriteCoalition(c)
  <2>1. heap' = [heap EXCEPT ![local[c]] =
                   [heap[local[c]] EXCEPT !.coalition = arg[c].coalition]]
    BY <1>4 DEF WriteCoalition, WriteClient
  <2>2. ~WriteRole(c)
    BY <1>4 DEF WriteCoalition, WriteRole, At
  <2> QED
    BY <1>2, <1>3, <1>4, <2>1, <2>2 DEF ClientState
<1>5. CASE WriteRole(c)
  <2>1. heap' = [heap EXCEPT ![local[c]] =
                   [heap[local[c]] EXCEPT !.role = uint8(arg[c].roleId)]]
    BY <1>5 DEF WriteRole, WriteClient
  <2>2. ~WriteCoalition(c)
    BY <1>5 DEF WriteCoalition, WriteRole, At
  <2> QED
    BY <1>2, <1>3, <1>5, <2>1, <2>2 DEF ClientState
<1> QED
  BY <1>4, <1>5

\* An object that a call holds keeps its grant as long as the process runs.
LEMMA GrantFixed ==
  ASSUME TypeInv, [ControlNext]_vars, ~AuthReboot,
         NEW d \in Call, pc[d] \in InfoStep
  PROVE  heap'[local[d]].granted = heap[local[d]].granted
<1> DEFINE r == local[d]
<1>0. r \in Ref /\ heap \in [Ref -> ClientState \cup {Free}]
  BY InfoCall DEF TypeInv, CallsOK, CallsLive, RegistryOK, StateTypeOK
<1>1. CASE UNCHANGED heap
  BY <1>1
<1>2. ASSUME NEW c \in Call, WriteCoalition(c) \/ WriteRole(c)
      PROVE  heap'[r].granted = heap[r].granted
  BY <1>0, <1>2, WriteStep
<1>3. ASSUME NEW c \in Call, GuestAdd(c) \/ UnitAdd(c)
      PROVE  heap'[r].granted = heap[r].granted
  <2>1. PICK g \in Guid, k \in Coalition, role \in Role, q \in Ref :
          Unused(q) /\ AddClientAt(q, g, k, role)
    BY <1>3, AddStep
  <2>2. q # r
    BY <2>1 DEF Unused
  <2> QED
    BY <1>0, <2>1, <2>2 DEF AddClientAt
<1>4. ASSUME NEW c \in Call, WriteRadio(c) \/ Cleanup(c) PROVE UNCHANGED heap
  BY <1>4 DEF WriteRadio, Cleanup, cleanupClientState
<1>5. ASSUME NEW g \in Guid, KickClient(g) \/ MuteClient(g) \/ UnmuteClient(g)
      PROVE  UNCHANGED heap
  BY <1>5 DEF KickClient, MuteClient, UnmuteClient, SetMuted
<1> QED
  BY <1>1, <1>2, <1>3, <1>4, <1>5, RegistrySteps

\* A call gets to writeRole by its check only.
LEMMA EntersWriteRole ==
  ASSUME TypeInv, NEW d \in Call, CallStep(d), pc'[d] = "writeRole"
  PROVE  \/ UNCHANGED callVars
         \/ CheckRole(d) /\ Goto(d, "writeRole", local[d])
<1>0. CallTypeOK
  BY DEF TypeInv, CallsOK, CallsLive
<1>1. ASSUME NEW p, NEW a, NEW l, Enter(d, p, a, l) PROVE p = "writeRole"
  BY <1>0, <1>1, EnterCall
<1>2. ASSUME NEW p, NEW l, Goto(d, p, l) PROVE p = "writeRole"
  BY <1>0, <1>2, GotoCall
<1>3. ~Reply(d)
  BY <1>0 DEF Reply, CallTypeOK
<1>4. CASE UpdateClientInfo(d) \/ UpdateRadioInfo(d) \/ Disconnect(d)
             \/ SyncClient(d)
  BY <1>1, <1>4 DEF UpdateClientInfo, UpdateRadioInfo, Disconnect, SyncClient,
                    EnterAuthorized
<1>5. CASE Continue(d)
  BY <1>2, <1>3, <1>5 DEF Continue, CheckCoalition, WriteCoalition, CheckRole,
       WriteRole, WriteRadio, Cleanup, SyncRadio, SyncReply
<1>6. CASE InitAuth(d) \/ GuestLogin(d) \/ Login(d) \/ UnitSelect(d)
  BY <1>1, <1>6 DEF InitAuth, GuestLogin, Login, UnitSelect, StartCall
<1>7. CASE ContinueAuth(d)
  BY <1>2, <1>3, <1>7
  DEF ContinueAuth, InitPurge, GuestPurge, LoginPurge, Purge, InitStore,
      GuestEntry, GuestMatch, GuestAdd, GuestToken, UnitToken, Token,
      LoginEntry, LoginPlugin, LoginCall, LoginStore, UnitEntry,
      UnitCoalition, UnitAdd, UnitDelete
<1> QED
  BY <1>4, <1>5, <1>6, <1>7 DEF CallStep

LEMMA PendingRoleStep ==
  TypeInv /\ RoleInv /\ [ControlNext]_vars => PendingRole'
<1> SUFFICES ASSUME TypeInv, RoleInv, [ControlNext]_vars,
                    NEW d \in Call, pc'[d] = "writeRole"
             PROVE  /\ uint8(arg'[d].roleId) # GuestRole
                    /\ uint8(arg'[d].roleId) <= heap'[local'[d]].granted
                    /\ heap'[local'[d]].granted # GuestRole
  BY DEF PendingRole
<1>1. ~AuthReboot
  BY DEF AuthReboot, Reboot
<1>2. CASE pc[d] = "writeRole" /\ arg'[d] = arg[d] /\ local'[d] = local[d]
  BY <1>1, <1>2, GrantFixed DEF RoleInv, PendingRole, InfoStep
<1>3. CASE CheckRole(d) /\ Goto(d, "writeRole", local[d])
  <2>1. pc[d] \in InfoStep /\ arg'[d] = arg[d] /\ local'[d] = local[d]
    BY <1>3, GotoCall DEF CheckRole, At, InfoStep, TypeInv, CallsOK, CallsLive
  <2>2. /\ local[d] \in Ref /\ heap[local[d]] # Free
        /\ heap[local[d]] \in ClientState /\ uint8(arg[d].roleId) \in Role
    BY <2>1, InfoCall DEF TypeInv, CallsOK, CallsLive, HeldLive, RegistryOK, StateTypeOK
  <2>3. canSwapRoles(heap[local[d]], uint8(arg[d].roleId))
    BY <1>3, <2>1 DEF CheckRole, Reply, TypeInv, CallsOK, CallsLive, CallTypeOK
  <2>4. /\ heap[local[d]].role <= heap[local[d]].granted
        /\ heap[local[d]].role = GuestRole <=> heap[local[d]].granted = GuestRole
    BY <2>2 DEF RoleInv, RoleWithinGrant
  <2>5. heap'[local[d]].granted = heap[local[d]].granted
    BY <1>1, <2>1, GrantFixed
  <2>6. ASSUME NEW u \in Nat, NEW role \in Nat, NEW granted \in Nat,
               u # 0, role >= u, role <= granted
        PROVE  u <= granted /\ granted # 0
    BY <2>6
  <2>7. /\ uint8(arg[d].roleId) # GuestRole
        /\ uint8(arg[d].roleId) <= heap[local[d]].granted
        /\ heap[local[d]].granted # GuestRole
    <3>1. /\ heap[local[d]].role \in Nat /\ heap[local[d]].granted \in Nat
          /\ uint8(arg[d].roleId) \in Nat
      BY <2>2, RoleFacts DEF ClientState
    <3>2. /\ uint8(arg[d].roleId) # 0
          /\ heap[local[d]].role >= uint8(arg[d].roleId)
      BY <2>3, RoleFacts DEF canSwapRoles
    <3> QED
      BY <2>4, <2>6, <3>1, <3>2, RoleFacts
  <2> QED
    BY <2>1, <2>5, <2>7
<1> QED
  BY <1>1, <1>2, <1>3, OwnSteps, EntersWriteRole
  DEF TypeInv, CallsOK, CallsLive, callVars

LEMMA RoleWithinGrantStep ==
  TypeInv /\ RoleInv /\ [ControlNext]_vars => RoleWithinGrant'
<1> SUFFICES ASSUME TypeInv, RoleInv, [ControlNext]_vars,
                    NEW r \in Ref, heap'[r] # Free
             PROVE  /\ heap'[r].role <= heap'[r].granted
                    /\ heap'[r].role = GuestRole <=> heap'[r].granted = GuestRole
  BY DEF RoleWithinGrant
<1>1. CASE UNCHANGED heap
  BY <1>1 DEF RoleInv, RoleWithinGrant
<1>2. ASSUME NEW c \in Call, WriteCoalition(c) \/ WriteRole(c)
      PROVE  /\ heap'[r].role <= heap'[r].granted
             /\ heap'[r].role = GuestRole <=> heap'[r].granted = GuestRole
  <2>1. CASE r # local[c]
    BY <1>2, <2>1, WriteStep DEF RoleInv, RoleWithinGrant
  <2>2. CASE r = local[c] /\ WriteCoalition(c)
    BY <2>2, WriteStep, SentinelAssumption DEF RoleInv, RoleWithinGrant
  <2>3. CASE r = local[c] /\ WriteRole(c)
    BY <2>3, WriteStep DEF RoleInv, PendingRole, WriteRole, At
  <2> QED
    BY <1>2, <2>1, <2>2, <2>3
<1>3. ASSUME NEW c \in Call, GuestAdd(c) \/ UnitAdd(c)
      PROVE  /\ heap'[r].role <= heap'[r].granted
             /\ heap'[r].role = GuestRole <=> heap'[r].granted = GuestRole
  <2>1. PICK g \in Guid, k \in Coalition, role \in Role, q \in Ref :
          AddClientAt(q, g, k, role)
    BY <1>3, AddStep
  <2> QED
    BY <2>1, RoleFacts
    DEF RoleInv, RoleWithinGrant, AddClientAt, TypeInv, RegistryOK, StateTypeOK
<1>4. ASSUME NEW c \in Call, WriteRadio(c) \/ Cleanup(c) PROVE UNCHANGED heap
  BY <1>4 DEF WriteRadio, Cleanup, cleanupClientState
<1>5. ASSUME NEW g \in Guid, KickClient(g) \/ MuteClient(g) \/ UnmuteClient(g)
      PROVE  UNCHANGED heap
  BY <1>5 DEF KickClient, MuteClient, UnmuteClient, SetMuted
<1>6. ~AuthReboot
  BY DEF AuthReboot, Reboot
<1> QED
  BY <1>1, <1>2, <1>3, <1>4, <1>5, <1>6, RegistrySteps

LEMMA RoleInvAlways == ControlSpec => []RoleInv
<1>1. ControlInit => RoleInv
  BY DEF ControlInit, AuthInit, StateInit, RpcInit, RoleInv, RoleWithinGrant,
         PendingRole
<1>2. TypeInv /\ RoleInv /\ [ControlNext]_vars => RoleInv'
  BY PendingRoleStep, RoleWithinGrantStep DEF RoleInv
<1> QED
  BY <1>1, <1>2, TypesAlways, PTL DEF ControlSpec

\* No interleaving of role swaps, logins, kicks and crashes raises a session's
\* role above what it logged in with, or turns a guest into a member or a
\* member into a guest.
THEOREM RolesWithinGrants == ControlSpec => []RoleWithinGrant
  BY RoleInvAlways, PTL DEF RoleInv
=============================================================================
