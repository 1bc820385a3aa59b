------------------------ MODULE ControlServerSessions ------------------------
(***************************************************************************)
(* Who has a session on the control server, with which role and in which   *)
(* coalition, for any number of clients, calls, secrets and addresses; and *)
(* that the control server implements the abstract module Sessions.        *)
(*                                                                         *)
(* A handler checks in one step and acts in a later one.  Each invariant   *)
(* here is strengthened by what a call between the two still knows: what   *)
(* it checked cannot be undone, because guids handed out, tokens issued,   *)
(* secrets granted and coalitions configured are never taken back.         *)
(***************************************************************************)
EXTENDS ControlServerProofs

-----------------------------------------------------------------------------
(* How a call gets from its check to its action *)

\* The steps that follow a check, and the action that makes the check.
LEMMA Enters ==
  ASSUME TypeInv, NEW d \in Call, CallStep(d), ~UNCHANGED callVars
  PROVE  /\ pc'[d] = "writeCoalition" => CheckCoalition(d)
         /\ pc'[d] = "guestMatch" => GuestEntry(d)
         /\ pc'[d] = "guestAdd" => GuestMatch(d)
         /\ pc'[d] = "guestToken" => GuestAdd(d)
         /\ pc'[d] = "loginPlugin" => LoginEntry(d)
         /\ pc'[d] = "loginCall" => LoginPlugin(d)
         /\ pc'[d] = "loginStore" => LoginCall(d)
         /\ pc'[d] = "unitCoalition" => UnitEntry(d)
         /\ pc'[d] = "unitAdd" => UnitCoalition(d)
         /\ pc'[d] = "unitDelete" => UnitAdd(d)
         /\ pc'[d] = "unitToken" => UnitDelete(d)
         /\ pc'[d] \in SrsStep /\ pc[d] \notin SrsStep =>
              \/ UpdateClientInfo(d) \/ UpdateRadioInfo(d)
              \/ Disconnect(d) \/ SyncClient(d)
<1>0. CallTypeOK
  BY DEF TypeInv, CallsOK, CallsLive
<1>1. ASSUME NEW p, NEW a, NEW l, Enter(d, p, a, l) PROVE pc'[d] = p
  BY <1>0, <1>1, EnterCall
<1>2. ASSUME NEW p, NEW l, Goto(d, p, l) PROVE pc'[d] = p
  BY <1>0, <1>2, GotoCall
<1>3. Reply(d) => pc'[d] = "idle"
  BY <1>0 DEF Reply, CallTypeOK
<1>4. CASE UpdateClientInfo(d) \/ UpdateRadioInfo(d) \/ Disconnect(d)
             \/ SyncClient(d)
  BY <1>1, <1>4 DEF UpdateClientInfo, UpdateRadioInfo, Disconnect, SyncClient,
                    EnterAuthorized
<1>5. CASE Continue(d)
  <2>1. pc[d] \in SrsStep
    BY <1>5 DEF Continue, CheckCoalition, WriteCoalition, CheckRole, WriteRole,
         WriteRadio, Cleanup, SyncRadio, SyncReply, At, SrsStep, InfoStep
  <2> QED
    BY <1>2, <1>3, <1>5, <2>1
    DEF Continue, CheckCoalition, WriteCoalition, CheckRole,
        WriteRole, WriteRadio, Cleanup, SyncRadio, SyncReply
<1>6. CASE InitAuth(d) \/ GuestLogin(d) \/ Login(d) \/ UnitSelect(d)
  BY <1>1, <1>6 DEF InitAuth, GuestLogin, Login, UnitSelect, StartCall, SrsStep,
                    InfoStep
<1>7. CASE ContinueAuth(d)
  <2>1. pc'[d] \notin SrsStep
    BY <1>2, <1>3, <1>7
    DEF ContinueAuth, InitPurge, GuestPurge, LoginPurge, Purge, InitStore,
        GuestEntry, GuestMatch, GuestAdd, GuestToken, UnitToken, Token,
        LoginEntry, LoginPlugin, LoginCall, LoginStore, UnitEntry,
        UnitCoalition, UnitAdd, UnitDelete, SrsStep, InfoStep
  <2> QED
    BY <1>2, <1>3, <1>7, <2>1
    DEF ContinueAuth, InitPurge, GuestPurge, LoginPurge, Purge, InitStore,
        GuestEntry, GuestMatch, GuestAdd, GuestToken, UnitToken, Token,
        LoginEntry, LoginPlugin, LoginCall, LoginStore, UnitEntry,
        UnitCoalition, UnitAdd, UnitDelete
<1> QED
  BY <1>4, <1>5, <1>6, <1>7 DEF CallStep

\* A call that is in a handler after a step was there before it, or took the
\* step itself.
LEMMA Moves ==
  ASSUME TypeInv, [ControlNext]_vars, NEW d \in Call, pc'[d] # "idle"
  PROVE  \/ pc'[d] = pc[d] /\ arg'[d] = arg[d] /\ local'[d] = local[d]
         \/ CallStep(d) /\ ~UNCHANGED callVars
<1>1. ~AuthReboot
  BY DEF AuthReboot, Reboot
<1> QED
  BY <1>1, OwnSteps DEF TypeInv, CallsOK, CallsLive, callVars

\* What stays with a call while it moves through a handler, its argument.
LEMMA GoesOn ==
  ASSUME TypeInv, NEW d \in Call, pc'[d] # "idle",
         \/ CheckCoalition(d) \/ GuestEntry(d) \/ GuestMatch(d) \/ GuestAdd(d)
         \/ LoginEntry(d) \/ LoginPlugin(d) \/ LoginCall(d)
         \/ UnitEntry(d) \/ UnitCoalition(d) \/ UnitAdd(d) \/ UnitDelete(d)
  PROVE  arg'[d] = arg[d]
<1>0. CallTypeOK
  BY DEF TypeInv, CallsOK, CallsLive
<1>1. \A p, l : Goto(d, p, l) => arg'[d] = arg[d]
  BY DEF Goto
<1>2. ~Reply(d)
  BY <1>0 DEF Reply, CallTypeOK
<1>3. UNCHANGED callVars => arg'[d] = arg[d]
  BY DEF callVars
<1> QED
  BY <1>1, <1>2, <1>3
  DEF CheckCoalition, GuestEntry, GuestMatch, GuestAdd, LoginEntry, LoginPlugin,
      LoginCall, UnitEntry, UnitCoalition, UnitAdd, UnitDelete

\* A call to SrsService is served by its handlers to the end.
LEMMA StaysInService ==
  ASSUME NEW d \in Call, CallStep(d), pc[d] \in SrsStep
  PROVE  Continue(d)
  BY DEF CallStep, UpdateClientInfo, UpdateRadioInfo, Disconnect, SyncClient,
         EnterAuthorized, InitAuth, GuestLogin, Login, UnitSelect, StartCall, Enter,
         ContinueAuth, InitPurge, GuestPurge, LoginPurge, Purge, InitStore,
         GuestEntry, GuestMatch, GuestAdd, GuestToken, UnitToken, Token,
         LoginEntry, LoginPlugin, LoginCall, LoginStore, UnitEntry,
         UnitCoalition, UnitAdd, UnitDelete, MuStep, At, SrsStep, InfoStep

-----------------------------------------------------------------------------
(* What is never taken back *)

LEMMA NeverTakenBack ==
  ASSUME TypeInv, [ControlNext]_vars
  PROVE  /\ issued \subseteq issued'
         /\ tokens \subseteq tokens'
         /\ configured \subseteq configured'
         /\ UNCHANGED settingsVars \/ EditCoalitions
         /\ \A s \in Secret : grants[s] # NoGrant => grants'[s] = grants[s]
<1>1. CASE SrsCalls /\ UNCHANGED authVars
  <2>1. ASSUME NEW c \in Call,
               \/ UpdateClientInfo(c) \/ UpdateRadioInfo(c) \/ Disconnect(c)
               \/ SyncClient(c) \/ Continue(c)
        PROVE  UNCHANGED <<settingsVars, tokens>>
    BY <2>1 DEF UpdateClientInfo, UpdateRadioInfo, Disconnect, SyncClient, Continue,
           CheckCoalition, WriteCoalition, CheckRole, WriteRole, WriteRadio,
           Cleanup, SyncRadio, SyncReply
  <2>2. \A g \in Guid :
          KickClient(g) \/ MuteClient(g) \/ UnmuteClient(g)
            => UNCHANGED <<settingsVars, tokens>>
    BY DEF KickClient, MuteClient, UnmuteClient, SetMuted
  <2>3. SubscribeToUpdates \/ BanClient => UNCHANGED <<settingsVars, tokens>>
    BY DEF SubscribeToUpdates, BanClient
  <2>4. EditCoalitions => configured \subseteq configured' /\ UNCHANGED tokens
    BY DEF EditCoalitions, SettingsNext, AddCoalition, RemoveCoalition
  <2> QED
    BY <1>1, <2>1, <2>2, <2>3, <2>4 DEF SrsCalls, authVars, settingsVars
<1>2. ASSUME NEW c \in Call,
             InitAuth(c) \/ GuestLogin(c) \/ Login(c) \/ UnitSelect(c)
      PROVE  UNCHANGED <<authVars, settingsVars, tokens>>
  BY <1>2 DEF InitAuth, GuestLogin, Login, UnitSelect, StartCall
<1>3. ASSUME NEW c \in Call, ContinueAuth(c)
      PROVE  /\ UNCHANGED settingsVars
             /\ issued \subseteq issued' /\ tokens \subseteq tokens'
             /\ \A s \in Secret : grants[s] # NoGrant => grants'[s] = grants[s]
  <2>1. CASE InitStore(c)
    BY <2>1 DEF InitStore
  <2>2. CASE LoginCall(c)
    BY <2>2 DEF LoginCall, TypeInv, AuthPartOK
  <2>3. CASE GuestToken(c) \/ UnitToken(c)
    BY <2>3 DEF GuestToken, UnitToken, Token, authVars
  <2> QED
    BY <1>3, <2>1, <2>2, <2>3
    DEF ContinueAuth, InitPurge, GuestPurge, LoginPurge, Purge, GuestEntry,
        GuestMatch, GuestAdd, LoginEntry, LoginPlugin, LoginStore, UnitEntry,
        UnitCoalition, UnitAdd, UnitDelete, authVars
<1>4. ASSUME NEW g \in Guid, Expire(g)
      PROVE  UNCHANGED <<issued, grants, settingsVars, tokens>>
  BY <1>4 DEF Expire, rpcVars, settingsVars
<1>5. AuthReboot => UNCHANGED <<issued, grants, settingsVars, tokens>>
  BY DEF AuthReboot, Reboot, settingsVars
<1>6. UNCHANGED vars => UNCHANGED <<issued, grants, settingsVars, tokens>>
  BY DEF vars, rpcVars, authVars, settingsVars
<1> QED
  BY <1>1, <1>2, <1>3, <1>4, <1>5, <1>6
  DEF ControlNext, AuthCalls, authVars, settingsVars

-----------------------------------------------------------------------------
(* Where entries, tokens and sessions come from *)

\* An entry was there before, or InitAuth or Login has just written it.
LEMMA EntryOrigin ==
  ASSUME TypeInv, [ControlNext]_vars, NEW g \in Guid, auth'[g] # NoEntry
  PROVE  \/ /\ auth[g] # NoEntry
            /\ auth'[g].secret = auth[g].secret /\ auth'[g].roles = auth[g].roles
         \/ g \in issued' /\ auth'[g].roles = {}
         \/ \E c \in Call :
              /\ LoginStore(c) /\ arg[c].guid = g
              /\ auth'[g] = [secret |-> local[c], roles |-> grants[local[c]].roles,
                             expired |-> FALSE]
<1>0. auth \in [Guid -> Entry \cup {NoEntry}]
  BY DEF TypeInv, AuthPartOK
<1>1. UNCHANGED auth
        => /\ auth[g] # NoEntry
           /\ auth'[g].secret = auth[g].secret /\ auth'[g].roles = auth[g].roles
  OBVIOUS
<1>2. ASSUME NEW c \in Call, InitStore(c), auth' # auth
      PROVE  \/ auth'[g] = auth[g]
             \/ g \in issued' /\ auth'[g].roles = {}
  BY <1>0, <1>2 DEF InitStore
<1>3. ASSUME NEW c \in Call, InitPurge(c) \/ GuestPurge(c) \/ LoginPurge(c)
      PROVE  auth'[g] = auth[g]
  BY <1>3 DEF InitPurge, GuestPurge, LoginPurge, Purge
<1>4. ASSUME NEW c \in Call, LoginStore(c)
      PROVE  \/ auth'[g] = auth[g]
             \/ /\ arg[c].guid = g
                /\ auth'[g] = [secret |-> local[c],
                               roles |-> grants[local[c]].roles,
                               expired |-> FALSE]
  BY <1>0, <1>4 DEF LoginStore
<1>5. ASSUME NEW c \in Call, UnitDelete(c) PROVE auth'[g] = auth[g]
  BY <1>0, <1>5 DEF UnitDelete
<1>6. ASSUME NEW h \in Guid, Expire(h)
      PROVE  /\ auth[g] # NoEntry
             /\ auth'[g].secret = auth[g].secret /\ auth'[g].roles = auth[g].roles
  <2>1. CASE h = g
    BY <1>0, <1>6, <2>1 DEF Expire, Entry
  <2>2. CASE h # g
    BY <1>0, <1>6, <2>2 DEF Expire
  <2> QED
    BY <2>1, <2>2
<1>7. ~AuthReboot
  BY DEF AuthReboot
<1>8. SrsCalls /\ UNCHANGED authVars => UNCHANGED auth
  BY DEF authVars
<1>9. UNCHANGED vars => UNCHANGED auth
  BY DEF vars, authVars
<1>10. ASSUME NEW c \in Call,
              InitAuth(c) \/ GuestLogin(c) \/ Login(c) \/ UnitSelect(c)
       PROVE  UNCHANGED auth
  BY <1>10 DEF InitAuth, GuestLogin, Login, UnitSelect, StartCall, authVars
<1>11. ASSUME NEW c \in Call,
              \/ GuestEntry(c) \/ GuestMatch(c) \/ GuestAdd(c) \/ GuestToken(c)
              \/ LoginEntry(c) \/ LoginPlugin(c) \/ LoginCall(c)
              \/ UnitEntry(c) \/ UnitCoalition(c) \/ UnitAdd(c) \/ UnitToken(c)
       PROVE  UNCHANGED auth
  BY <1>11 DEF GuestEntry, GuestMatch, GuestAdd, GuestToken, UnitToken, Token,
               LoginEntry, LoginPlugin, LoginCall, UnitEntry, UnitCoalition,
               UnitAdd, authVars
<1> QED
  BY <1>1, <1>2, <1>3, <1>4, <1>5, <1>6, <1>7, <1>8, <1>9, <1>10, <1>11
  DEF ControlNext, AuthCalls, ContinueAuth

\* A token was there before, or a login has just issued it.
LEMMA TokenOrigin ==
  ASSUME TypeInv, [ControlNext]_vars, NEW g \in tokens', g \notin tokens
  PROVE  \E c \in Call : (GuestToken(c) \/ UnitToken(c)) /\ arg[c].guid = g
<1>1. tokens' # tokens
  OBVIOUS
<1>2. ASSUME NEW c \in Call, GuestToken(c) \/ UnitToken(c)
      PROVE  arg[c].guid = g
  BY <1>2 DEF GuestToken, UnitToken, Token
<1>3. ~(SrsCalls /\ UNCHANGED authVars)
  <2>1. ASSUME NEW c \in Call,
               \/ UpdateClientInfo(c) \/ UpdateRadioInfo(c) \/ Disconnect(c)
               \/ SyncClient(c) \/ Continue(c)
        PROVE  UNCHANGED tokens
    BY <2>1
    DEF UpdateClientInfo, UpdateRadioInfo, Disconnect, SyncClient, Continue,
        CheckCoalition, WriteCoalition, CheckRole, WriteRole, WriteRadio,
        Cleanup, SyncRadio, SyncReply
  <2>2. ASSUME NEW h \in Guid, KickClient(h) \/ MuteClient(h) \/ UnmuteClient(h)
        PROVE  UNCHANGED tokens
    BY <2>2 DEF KickClient, MuteClient, UnmuteClient, SetMuted
  <2>3. SubscribeToUpdates \/ BanClient \/ EditCoalitions => UNCHANGED tokens
    BY DEF SubscribeToUpdates, BanClient, EditCoalitions
  <2> QED
    BY <1>1, <2>1, <2>2, <2>3 DEF SrsCalls
<1>4. ASSUME NEW c \in Call, ContinueAuth(c), ~GuestToken(c), ~UnitToken(c)
      PROVE  UNCHANGED tokens
  BY <1>4
  DEF ContinueAuth, InitPurge, GuestPurge, LoginPurge, Purge, InitStore,
      GuestEntry, GuestMatch, GuestAdd, LoginEntry, LoginPlugin, LoginCall,
      LoginStore, UnitEntry, UnitCoalition, UnitAdd, UnitDelete
<1>5. ASSUME NEW c \in Call,
             InitAuth(c) \/ GuestLogin(c) \/ Login(c) \/ UnitSelect(c)
      PROVE  UNCHANGED tokens
  BY <1>5 DEF InitAuth, GuestLogin, Login, UnitSelect, StartCall
<1>6. /\ AuthReboot => UNCHANGED tokens
      /\ UNCHANGED vars => UNCHANGED tokens
      /\ \A h \in Guid : Expire(h) => UNCHANGED tokens
  BY DEF AuthReboot, Reboot, vars, rpcVars, Expire
<1> QED
  BY <1>1, <1>2, <1>3, <1>4, <1>5, <1>6 DEF ControlNext, AuthCalls

\* What a login adds to the registry for the guid of its caller.
Added(c, r, k, role) ==
  /\ Unused(r) /\ AddClientAt(r, arg[c].guid, k, role)
  /\ \/ GuestAdd(c) /\ k = local[c] /\ role = GuestRole
     \/ UnitAdd(c) /\ k = arg[c].coalition /\ role = uint8(arg[c].roleId)

LEMMA AddingCall ==
  ASSUME TypeInv, NEW c \in Call, GuestAdd(c) \/ UnitAdd(c)
  PROVE  /\ arg[c].guid \in Guid
         /\ \E r \in Ref, k \in Coalition, role \in Role : Added(c, r, k, role)
<1>1. CASE GuestAdd(c)
  <2>1. arg[c].guid \in Guid /\ local[c] \in Coalition
    BY <1>1, AuthCall DEF TypeInv, CallsOK, CallsLive, GuestAdd, At, GuestStep, GuestArg
  <2> QED
    BY <1>1, <2>1, RoleFacts DEF GuestAdd, AddClient, Added
<1>2. CASE UnitAdd(c)
  <2>1. /\ arg[c].guid \in Guid /\ arg[c].coalition \in Coalition
        /\ uint8(arg[c].roleId) \in Role
    BY <1>2, AuthCall, RoleFacts
    DEF TypeInv, CallsOK, CallsLive, UnitAdd, At, UnitStep, UnitArg
  <2> QED
    BY <1>2, <2>1 DEF UnitAdd, AddClient, Added
<1> QED
  BY <1>1, <1>2

\* A session was there before, or a login has just opened it.
LEMMA ClientOrigin ==
  ASSUME TypeInv, [ControlNext]_vars, NEW g \in Guid, clients'[g] # NoRef
  PROVE  \/ clients'[g] = clients[g]
         \/ \E c \in Call, r \in Ref, k \in Coalition, role \in Role :
              arg[c].guid = g /\ Added(c, r, k, role)
<1>0. clients \in [Guid -> Ref \cup {NoRef}]
  BY DEF TypeInv, RegistryOK, StateTypeOK
<1>1. ASSUME NEW c \in Call,
             WriteCoalition(c) \/ WriteRole(c) \/ WriteRadio(c)
      PROVE  UNCHANGED clients
  BY <1>1 DEF WriteCoalition, WriteRole, WriteClient, WriteRadio
<1>2. ASSUME NEW c \in Call, Cleanup(c) PROVE clients'[g] = clients[g]
  BY <1>0, <1>2 DEF Cleanup, cleanupClientState
<1>3. ASSUME NEW h \in Guid, KickClient(h) \/ MuteClient(h) \/ UnmuteClient(h)
      PROVE  clients'[g] = clients[g]
  BY <1>0, <1>3 DEF KickClient, MuteClient, UnmuteClient, SetMuted
<1>4. ~AuthReboot
  BY DEF AuthReboot, Reboot
<1>5. ASSUME NEW c \in Call, GuestAdd(c) \/ UnitAdd(c)
      PROVE  \/ clients'[g] = clients[g]
             \/ \E r \in Ref, k \in Coalition, role \in Role :
                  arg[c].guid = g /\ Added(c, r, k, role)
  <2>1. PICK r \in Ref, k \in Coalition, role \in Role : Added(c, r, k, role)
    BY <1>5, AddingCall
  <2>2. arg[c].guid # g => clients'[g] = clients[g]
    BY <1>0, <2>1 DEF Added, AddClientAt
  <2> QED
    BY <2>1, <2>2
<1> QED
  BY <1>1, <1>2, <1>3, <1>4, <1>5, RegistrySteps

-----------------------------------------------------------------------------
(* Initialized guids *)

\* The strengthening: a call that has found the entry of its guid knows that
\* the guid was handed out, although the entry may be gone by now.
PastEntryCheck ==
  (GuestStep \ {"guestPurge", "guestEntry"}) \cup
  (LoginStep \ {"loginPurge", "loginEntry"}) \cup (UnitStep \ {"unitEntry"})

CheckedGuids == \A c \in Call : pc[c] \in PastEntryCheck => arg[c].guid \in issued

GuidInv == SessionWasInitialized /\ CheckedGuids /\ CallsAreAuthenticated

LEMMA CheckedGuidsStep ==
  TypeInv /\ GuidInv /\ [ControlNext]_vars => CheckedGuids'
<1> SUFFICES ASSUME TypeInv, GuidInv, [ControlNext]_vars,
                    NEW d \in Call, pc'[d] \in PastEntryCheck
             PROVE  arg'[d].guid \in issued'
  BY DEF CheckedGuids
<1>1. issued \subseteq issued'
  BY NeverTakenBack
<1>2. pc'[d] # "idle"
  BY DEF PastEntryCheck, GuestStep, LoginStep, UnitStep
<1>3. CASE pc'[d] = pc[d] /\ arg'[d] = arg[d]
  BY <1>1, <1>3 DEF GuidInv, CheckedGuids
<1>4. CASE CallStep(d) /\ ~UNCHANGED callVars
  <2>1. \/ GuestEntry(d) \/ LoginEntry(d) \/ UnitEntry(d)
        \/ GuestMatch(d) \/ GuestAdd(d) \/ LoginPlugin(d) \/ LoginCall(d)
        \/ UnitCoalition(d) \/ UnitAdd(d) \/ UnitDelete(d)
    BY <1>4, Enters DEF PastEntryCheck, GuestStep, LoginStep, UnitStep
  <2>2. arg'[d] = arg[d]
    BY <1>2, <2>1, GoesOn
  <2>3. CASE GuestEntry(d) \/ LoginEntry(d) \/ UnitEntry(d)
    <3>1. arg[d].guid \in Guid
      BY <2>3, AuthCall
      DEF TypeInv, CallsOK, CallsLive, GuestEntry, LoginEntry, UnitEntry, MuStep, At,
          GuestStep, LoginStep, UnitStep, GuestArg, LoginArg, UnitArg
    <3>2. ~Reply(d)
      BY <1>2 DEF Reply, TypeInv, CallsOK, CallsLive, CallTypeOK
    <3>3. auth[arg[d].guid] # NoEntry
      BY <2>3, <3>2 DEF GuestEntry, LoginEntry, UnitEntry
    <3> QED
      BY <1>1, <2>2, <3>1, <3>3 DEF GuidInv, SessionWasInitialized
  <2>4. CASE \/ GuestMatch(d) \/ GuestAdd(d) \/ LoginPlugin(d) \/ LoginCall(d)
             \/ UnitCoalition(d) \/ UnitAdd(d) \/ UnitDelete(d)
    <3>1. pc[d] \in PastEntryCheck
      BY <2>4
      DEF GuestMatch, GuestAdd, LoginPlugin, LoginCall, UnitCoalition, UnitAdd,
          UnitDelete, MuStep, At, PastEntryCheck, GuestStep, LoginStep, UnitStep
    <3> QED
      BY <1>1, <2>2, <3>1 DEF GuidInv, CheckedGuids
  <2> QED
    BY <2>1, <2>3, <2>4
<1> QED
  BY <1>2, <1>3, <1>4, Moves

LEMMA SessionWasInitializedStep ==
  TypeInv /\ GuidInv /\ [ControlNext]_vars => SessionWasInitialized'
<1> SUFFICES ASSUME TypeInv, GuidInv, [ControlNext]_vars, NEW g \in Guid,
                    auth'[g] # NoEntry \/ clients'[g] # NoRef \/ g \in tokens'
             PROVE  g \in issued'
  BY DEF SessionWasInitialized, DoesClientExist
<1>1. issued \subseteq issued'
  BY NeverTakenBack
<1>2. auth[g] # NoEntry \/ clients[g] # NoRef \/ g \in tokens => g \in issued'
  BY <1>1 DEF GuidInv, SessionWasInitialized, DoesClientExist
<1>3. ASSUME NEW c \in Call, pc[c] \in PastEntryCheck, arg[c].guid = g
      PROVE  g \in issued'
  BY <1>1, <1>3 DEF GuidInv, CheckedGuids
<1>4. CASE auth'[g] # NoEntry
  <2>1. ASSUME NEW c \in Call, LoginStore(c) PROVE pc[c] \in PastEntryCheck
    BY <2>1 DEF LoginStore, MuStep, At, PastEntryCheck, LoginStep
  <2> QED
    BY <1>2, <1>3, <1>4, <2>1, EntryOrigin
<1>5. CASE clients'[g] # NoRef
  <2>1. ASSUME NEW c \in Call, GuestAdd(c) \/ UnitAdd(c)
        PROVE  pc[c] \in PastEntryCheck
    BY <2>1 DEF GuestAdd, UnitAdd, At, PastEntryCheck, GuestStep, UnitStep
  <2> QED
    BY <1>2, <1>3, <1>5, <2>1, ClientOrigin DEF Added
<1>6. CASE g \in tokens'
  <2>1. ASSUME NEW c \in Call, GuestToken(c) \/ UnitToken(c)
        PROVE  pc[c] \in PastEntryCheck
    BY <2>1 DEF GuestToken, UnitToken, Token, At, PastEntryCheck, GuestStep,
                UnitStep
  <2> QED
    BY <1>2, <1>3, <1>6, <2>1, TokenOrigin
<1> QED
  BY <1>4, <1>5, <1>6

LEMMA CallsAreAuthenticatedStep ==
  TypeInv /\ GuidInv /\ [ControlNext]_vars => CallsAreAuthenticated'
<1> SUFFICES ASSUME TypeInv, GuidInv, [ControlNext]_vars,
                    NEW d \in Call, pc'[d] \in SrsStep
             PROVE  arg'[d].guid \in tokens' /\ arg'[d].guid \in issued'
  BY DEF CallsAreAuthenticated
<1>1. issued \subseteq issued' /\ tokens \subseteq tokens'
  BY NeverTakenBack
<1>2. pc'[d] # "idle"
  BY DEF SrsStep, InfoStep
<1>3. CASE pc'[d] = pc[d] /\ arg'[d] = arg[d]
  BY <1>1, <1>3 DEF GuidInv, CallsAreAuthenticated
<1>4. CASE CallStep(d) /\ ~UNCHANGED callVars /\ pc[d] \in SrsStep
  <2>1. Continue(d)
    BY <1>4, StaysInService
  <2>2. ~Reply(d)
    BY <1>2 DEF Reply, TypeInv, CallsOK, CallsLive, CallTypeOK
  <2>3. \E p, l : Goto(d, p, l)
    BY <1>4, <2>1, <2>2
    DEF Continue, CheckCoalition, WriteCoalition, CheckRole, WriteRole,
        WriteRadio, Cleanup, SyncRadio, SyncReply
  <2>4. arg'[d] = arg[d]
    BY <2>3 DEF Goto
  <2> QED
    BY <1>1, <1>4, <2>4 DEF GuidInv, CallsAreAuthenticated
<1>5. CASE CallStep(d) /\ ~UNCHANGED callVars /\ pc[d] \notin SrsStep
  <2>1. PICK p, a, l : EnterAuthorized(d, p, a, l)
    BY <1>5, Enters DEF UpdateClientInfo, UpdateRadioInfo, Disconnect, SyncClient
  <2>2. arg'[d] = a /\ a.guid \in tokens
    BY <2>1, EnterCall DEF EnterAuthorized, TypeInv, CallsOK, CallsLive
  <2>3. tokens \subseteq issued
    BY DEF GuidInv, SessionWasInitialized, TypeInv, RegistryOK
  <2> QED
    BY <1>1, <2>2, <2>3
<1> QED
  BY <1>2, <1>3, <1>4, <1>5, Moves

LEMMA GuidInvAlways == ControlSpec => []GuidInv
<1>1. ControlInit => GuidInv
  BY DEF ControlInit, AuthInit, StateInit, RpcInit, GuidInv,
         SessionWasInitialized, DoesClientExist, CheckedGuids,
         CallsAreAuthenticated, PastEntryCheck, GuestStep, LoginStep, UnitStep,
         SrsStep, InfoStep
<1>2. TypeInv /\ GuidInv /\ [ControlNext]_vars => GuidInv'
  BY CheckedGuidsStep, SessionWasInitializedStep, CallsAreAuthenticatedStep
  DEF GuidInv
<1> QED
  BY <1>1, <1>2, TypesAlways, PTL DEF ControlSpec

\* Nobody has an entry, a session or a token whose guid InitAuth did not hand
\* out, although each of them is written steps after the entry was looked up.
THEOREM SessionsInitialized == ControlSpec => []SessionWasInitialized
  BY GuidInvAlways, PTL DEF GuidInv

\* A call that acts on a client is made with that client's token.
THEOREM CallsAuthenticated == ControlSpec => []CallsAreAuthenticated
  BY GuidInvAlways, PTL DEF GuidInv

-----------------------------------------------------------------------------
(* Roles and the plugin's grants *)

Granted(s, g) == s \in Secret /\ grants[s] # NoGrant /\ grants[s].guid = g

\* The strengthening: an entry has no roles, or those the plugin granted to its
\* guid with its secret; and a login stores the secret generated for its guid.
\* A login that comes second overwrites both at once, never one of them.
EntriesBacked ==
  \A g \in Guid : auth[g] # NoEntry =>
    \/ auth[g].roles = {}
    \/ Granted(auth[g].secret, g) /\ auth[g].roles = grants[auth[g].secret].roles

LoginsBacked ==
  \A c \in Call : pc[c] = "loginStore" => Granted(local[c], arg[c].guid)

SecretInv == EntriesBacked /\ LoginsBacked /\ SecretBacksRole

LEMMA GrantedAlways ==
  ASSUME TypeInv, [ControlNext]_vars, NEW s, NEW g, Granted(s, g)
  PROVE  Granted(s, g)' /\ grants'[s] = grants[s]
  BY NeverTakenBack DEF Granted

LEMMA LoginsBackedStep ==
  TypeInv /\ SecretInv /\ [ControlNext]_vars => LoginsBacked'
<1> SUFFICES ASSUME TypeInv, SecretInv, [ControlNext]_vars,
                    NEW d \in Call, pc'[d] = "loginStore"
             PROVE  Granted(local[d], arg[d].guid)'
  BY DEF LoginsBacked
<1>1. CASE pc'[d] = pc[d] /\ arg'[d] = arg[d] /\ local'[d] = local[d]
  <2>1. Granted(local[d], arg[d].guid)
    BY <1>1 DEF SecretInv, LoginsBacked
  <2> QED
    BY <1>1, <2>1, NeverTakenBack DEF Granted
<1>2. CASE CallStep(d) /\ ~UNCHANGED callVars
  <2>1. LoginCall(d) /\ arg'[d] = arg[d]
    BY <1>2, Enters, GoesOn
  <2>2. ~Reply(d)
    BY DEF Reply, TypeInv, CallsOK, CallsLive, CallTypeOK
  <2>3. PICK s \in Secret, ids \in SUBSET RoleId :
          /\ grants' = [grants EXCEPT ![s] =
               [guid |-> arg[d].guid, roles |-> {uint8(id) : id \in ids}]]
          /\ Goto(d, "loginStore", s)
    BY <1>2, <2>1, <2>2 DEF LoginCall
  <2>4. arg[d].guid \in Guid
    BY <2>1, AuthCall DEF TypeInv, CallsOK, CallsLive, LoginCall, At, LoginStep, LoginArg
  <2>5. [guid |-> arg[d].guid, roles |-> {uint8(id) : id \in ids}] \in Grant
    BY <2>4, RoleFacts DEF Grant
  <2>6. local'[d] = s
    BY <2>3, GotoCall DEF TypeInv, CallsOK, CallsLive
  <2> QED
    BY <2>1, <2>3, <2>5, <2>6, GrantAssumption DEF Granted, TypeInv, AuthPartOK
<1> QED
  BY <1>1, <1>2, Moves

LEMMA EntriesBackedStep ==
  TypeInv /\ SecretInv /\ [ControlNext]_vars => EntriesBacked'
<1> SUFFICES ASSUME TypeInv, SecretInv, [ControlNext]_vars,
                    NEW g \in Guid, auth'[g] # NoEntry
             PROVE  \/ auth'[g].roles = {}
                    \/ /\ Granted(auth[g].secret, g)'
                       /\ auth'[g].roles = grants'[auth'[g].secret].roles
  BY DEF EntriesBacked
<1>1. CASE /\ auth[g] # NoEntry
           /\ auth'[g].secret = auth[g].secret /\ auth'[g].roles = auth[g].roles
  BY <1>1, NeverTakenBack DEF SecretInv, EntriesBacked, Granted
<1>2. ASSUME NEW c \in Call, LoginStore(c), arg[c].guid = g,
             auth'[g] = [secret |-> local[c], roles |-> grants[local[c]].roles,
                         expired |-> FALSE]
      PROVE  /\ Granted(auth[g].secret, g)'
             /\ auth'[g].roles = grants'[auth'[g].secret].roles
  <2>1. Granted(local[c], g)
    BY <1>2 DEF SecretInv, LoginsBacked, LoginStore, MuStep, At
  <2>2. auth'[g].secret = local[c] /\ auth'[g].roles = grants[local[c]].roles
    BY <1>2
  <2> QED
    BY <2>1, <2>2, NeverTakenBack DEF Granted
<1> QED
  BY <1>1, <1>2, EntryOrigin

LEMMA SecretBacksRoleStep ==
  TypeInv /\ SecretInv /\ [ControlNext]_vars => SecretBacksRole'
<1> DEFINE Backed(a) ==
      /\ Granted(a.secret, a.guid)
      /\ uint8(a.roleId) \in grants[a.secret].roles
<1> SUFFICES ASSUME TypeInv, SecretInv, [ControlNext]_vars,
                    NEW d \in Call, pc'[d] \in UnitStep \ {"unitEntry"}
             PROVE  Backed(arg[d])'
  BY DEF SecretBacksRole, Granted
<1>1. \A c \in Call : pc[c] \in UnitStep \ {"unitEntry"} => Backed(arg[c])
  BY DEF SecretInv, SecretBacksRole, Granted
<1>2. \A a : Backed(a) => Granted(a.secret, a.guid)'
                          /\ uint8(a.roleId) \in grants'[a.secret].roles
  BY NeverTakenBack DEF Granted
<1>3. pc'[d] # "idle"
  BY DEF UnitStep
<1>4. CASE pc'[d] = pc[d] /\ arg'[d] = arg[d]
  BY <1>1, <1>2, <1>4 DEF Granted
<1>5. CASE CallStep(d) /\ ~UNCHANGED callVars
  <2>1. UnitEntry(d) \/ UnitCoalition(d) \/ UnitAdd(d) \/ UnitDelete(d)
    BY <1>5, Enters DEF UnitStep
  <2>2. arg'[d] = arg[d]
    BY <1>3, <2>1, GoesOn
  <2>3. Backed(arg[d])
    <3>1. CASE UnitEntry(d)
      <4>1. ~Reply(d)
        BY <1>3 DEF Reply, TypeInv, CallsOK, CallsLive, CallTypeOK
      <4>2. /\ auth[arg[d].guid] # NoEntry
            /\ auth[arg[d].guid].secret = arg[d].secret
            /\ uint8(arg[d].roleId) \in auth[arg[d].guid].roles
        BY <3>1, <4>1 DEF UnitEntry, isRoleAvailable
      <4>3. arg[d].guid \in Guid
        BY <3>1, AuthCall
        DEF TypeInv, CallsOK, CallsLive, UnitEntry, MuStep, At, UnitStep, UnitArg
      <4> QED
        BY <4>2, <4>3 DEF SecretInv, EntriesBacked
    <3>2. CASE UnitCoalition(d) \/ UnitAdd(d) \/ UnitDelete(d)
      BY <1>1, <3>2
      DEF UnitCoalition, UnitAdd, UnitDelete, MuStep, At, UnitStep
    <3> QED
      BY <2>1, <3>1, <3>2
  <2> QED
    BY <1>2, <2>2, <2>3 DEF Granted
<1> QED
  BY <1>3, <1>4, <1>5, Moves

LEMMA SecretInvAlways == ControlSpec => []SecretInv
<1>1. ControlInit => SecretInv
  BY DEF ControlInit, AuthInit, RpcInit, SecretInv, EntriesBacked, LoginsBacked,
         SecretBacksRole, UnitStep
<1>2. TypeInv /\ SecretInv /\ [ControlNext]_vars => SecretInv'
  BY LoginsBackedStep, EntriesBackedStep, SecretBacksRoleStep DEF SecretInv
<1> QED
  BY <1>1, <1>2, TypesAlways, PTL DEF ControlSpec

\* A call past the secret check is backed by the login that generated the
\* secret it presented, for the role it asked for, whatever other logins of the
\* guid store meanwhile.
THEOREM SecretsBackRoles == ControlSpec => []SecretBacksRole
  BY SecretInvAlways, PTL DEF SecretInv

-----------------------------------------------------------------------------
(* The objects of sessions *)

\* What a step may do to an object: a call that holds it writes a field, or a
\* login allocates it.
LEMMA ObjectOrigin ==
  ASSUME TypeInv, [ControlNext]_vars, NEW r \in Ref, heap'[r] # Free
  PROVE  \/ heap'[r] = heap[r]
         \/ \E c \in Call :
              /\ WriteCoalition(c) /\ local[c] = r /\ heap[r] \in ClientState
              /\ heap'[r] = [heap[r] EXCEPT !.coalition = arg[c].coalition]
         \/ \E c \in Call :
              /\ WriteRole(c) /\ local[c] = r /\ heap[r] \in ClientState
              /\ heap'[r] = [heap[r] EXCEPT !.role = uint8(arg[c].roleId)]
         \/ \E c \in Call, k \in Coalition, role \in Role :
              /\ Added(c, r, k, role) /\ arg[c].guid \in Guid
              /\ heap'[r] = [coalition |-> k, role |-> role, granted |-> role]
<1>0. heap \in [Ref -> ClientState \cup {Free}]
  BY DEF TypeInv, RegistryOK, StateTypeOK
<1>1. ASSUME NEW c \in Call, WriteCoalition(c)
      PROVE  \/ heap'[r] = heap[r]
             \/ /\ local[c] = r /\ heap[r] \in ClientState
                /\ heap'[r] = [heap[r] EXCEPT !.coalition = arg[c].coalition]
  BY <1>0, <1>1, WriteStep DEF WriteCoalition, WriteClient
<1>2. ASSUME NEW c \in Call, WriteRole(c)
      PROVE  \/ heap'[r] = heap[r]
             \/ /\ local[c] = r /\ heap[r] \in ClientState
                /\ heap'[r] = [heap[r] EXCEPT !.role = uint8(arg[c].roleId)]
  BY <1>0, <1>2, WriteStep DEF WriteRole, WriteClient
<1>3. ASSUME NEW c \in Call, GuestAdd(c) \/ UnitAdd(c)
      PROVE  \/ heap'[r] = heap[r]
             \/ \E k \in Coalition, role \in Role :
                  /\ Added(c, r, k, role) /\ arg[c].guid \in Guid
                  /\ heap'[r] = [coalition |-> k, role |-> role, granted |-> role]
  <2>1. PICK q \in Ref, k \in Coalition, role \in Role :
          Added(c, q, k, role) /\ arg[c].guid \in Guid
    BY <1>3, AddingCall
  <2>2. heap' = [heap EXCEPT ![q] =
                   [coalition |-> k, role |-> role, granted |-> role]]
    BY <2>1 DEF Added, AddClientAt
  <2> QED
    BY <1>0, <2>1, <2>2
<1>4. ASSUME NEW c \in Call, WriteRadio(c) \/ Cleanup(c) PROVE UNCHANGED heap
  BY <1>4 DEF WriteRadio, Cleanup, cleanupClientState
<1>5. ASSUME NEW h \in Guid, KickClient(h) \/ MuteClient(h) \/ UnmuteClient(h)
      PROVE  UNCHANGED heap
  BY <1>5 DEF KickClient, MuteClient, UnmuteClient, SetMuted
<1>6. ~AuthReboot
  BY DEF AuthReboot, Reboot
<1> QED
  BY <1>1, <1>2, <1>3, <1>4, <1>5, <1>6, RegistrySteps

\* The object of a session that a step keeps is not replaced, and keeps its
\* grant.
LEMMA SessionKept ==
  ASSUME TypeInv, [ControlNext]_vars, NEW g \in Guid,
         clients[g] # NoRef, clients'[g] = clients[g]
  PROVE  /\ clients[g] \in Ref
         /\ heap[clients[g]] \in ClientState /\ heap'[clients[g]] \in ClientState
         /\ heap'[clients[g]].granted = heap[clients[g]].granted
         /\ \A c \in Call, k \in Coalition, role \in Role :
              ~Added(c, clients[g], k, role)
<1>1. clients[g] \in Ref /\ heap[clients[g]] \in ClientState
  BY DEF TypeInv, RegistryOK, StateTypeOK, Live
<1>2. heap'[clients[g]] \in ClientState
  BY <1>1, TypeInvStep DEF TypeInv, RegistryOK, StateTypeOK, Live
<1>3. \A c \in Call, k \in Coalition, role \in Role :
        ~Added(c, clients[g], k, role)
  BY DEF Added, Unused
<1>4. heap'[clients[g]] # Free
  BY <1>2, SentinelAssumption
<1>5. heap'[clients[g]].granted = heap[clients[g]].granted
  BY <1>1, <1>3, <1>4, ObjectOrigin DEF ClientState
<1> QED
  BY <1>1, <1>2, <1>3, <1>5

LEMMA RoleWasGrantedStep ==
  TypeInv /\ SecretInv /\ RoleWasGranted /\ [ControlNext]_vars => RoleWasGranted'
<1> DEFINE Backed(g, role) ==
             \E s \in Secret : Granted(s, g) /\ role \in grants[s].roles
           Held(g) == heap'[clients'[g]].granted
<1> SUFFICES ASSUME TypeInv, SecretInv, RoleWasGranted, [ControlNext]_vars,
                    NEW g \in Guid, clients'[g] # NoRef
             PROVE  \/ Held(g) = GuestRole
                    \/ \E s \in Secret : /\ grants'[s] # NoGrant
                                         /\ grants'[s].guid = g
                                         /\ Held(g) \in grants'[s].roles
  BY DEF RoleWasGranted, DoesClientExist
<1>1. \A role : Backed(g, role) => \E s \in Secret : /\ grants'[s] # NoGrant
                                                    /\ grants'[s].guid = g
                                                    /\ role \in grants'[s].roles
  BY NeverTakenBack DEF Granted
<1>2. CASE clients'[g] = clients[g]
  <2>1. heap'[clients[g]].granted = heap[clients[g]].granted
    BY <1>2, SessionKept
  <2>2. \/ heap[clients[g]].granted = GuestRole
        \/ Backed(g, heap[clients[g]].granted)
    BY <1>2 DEF RoleWasGranted, DoesClientExist, Granted
  <2> QED
    BY <1>1, <1>2, <2>1, <2>2
<1>3. ASSUME NEW c \in Call, NEW r \in Ref, NEW k \in Coalition, NEW role \in Role,
             arg[c].guid = g, Added(c, r, k, role)
      PROVE  Held(g) = GuestRole \/ Backed(g, Held(g))
  <2>1. Held(g) = role
    BY <1>3 DEF Added, AddClientAt, TypeInv, RegistryOK, StateTypeOK
  <2>2. role = GuestRole \/ Backed(g, role)
    BY <1>3 DEF Added, UnitAdd, At, UnitStep, SecretInv, SecretBacksRole, Granted
  <2> QED
    BY <2>1, <2>2
<1> QED
  BY <1>1, <1>2, <1>3, ClientOrigin

LEMMA RoleWasGrantedAlways == ControlSpec => []RoleWasGranted
<1>1. ControlInit => RoleWasGranted
  BY DEF ControlInit, AuthInit, StateInit, RoleWasGranted, DoesClientExist
<1> QED
  BY <1>1, RoleWasGrantedStep, SecretInvAlways, TypesAlways, PTL DEF ControlSpec

\* Every session is a guest's or was opened with a role that a plugin granted to
\* its guid, together with the secret presented.
THEOREM RolesWereGranted == ControlSpec => []RoleWasGranted
  BY RoleWasGrantedAlways, PTL

\* The role a client has at any later time is Guest or at most such a role.
THEOREM RolesBackedByPlugin == ControlSpec => []RoleBackedByPlugin
<1>1. TypeInv /\ RoleWasGranted /\ RoleWithinGrant => RoleBackedByPlugin
  <2> SUFFICES ASSUME TypeInv, RoleWasGranted, RoleWithinGrant,
                      NEW g \in Guid, clients[g] # NoRef,
                      heap[clients[g]].role # GuestRole
               PROVE  \E s \in Secret :
                        /\ grants[s] # NoGrant
                        /\ grants[s].guid = g
                        /\ \E r \in grants[s].roles : heap[clients[g]].role <= r
    BY DEF RoleBackedByPlugin, DoesClientExist
  <2>1. clients[g] \in Ref /\ heap[clients[g]] # Free
    BY DEF TypeInv, RegistryOK, StateTypeOK, Live
  <2>2. /\ heap[clients[g]].role <= heap[clients[g]].granted
        /\ heap[clients[g]].granted # GuestRole
    BY <2>1 DEF RoleWithinGrant
  <2> QED
    BY <2>2 DEF RoleWasGranted, DoesClientExist
<1> QED
  BY <1>1, RoleWasGrantedAlways, RolesWithinGrants, TypesAlways, PTL

-----------------------------------------------------------------------------
(* Coalitions *)

\* The strengthening: the list holds configured names only, and a coalition
\* that a call has looked up was configured, although it may have been removed
\* from the list since.
CoalitionInv ==
  /\ CoalitionWasConfigured
  /\ coalitions \in Seq(configured)
  /\ \A c \in Call :
       /\ pc[c] \in {"writeCoalition", "unitAdd"} => arg[c].coalition \in configured
       /\ pc[c] = "guestAdd" => local[c] \in configured

LEMMA CoalitionListStep ==
  TypeInv /\ CoalitionInv /\ [ControlNext]_vars => coalitions' \in Seq(configured')
<1> SUFFICES ASSUME TypeInv, CoalitionInv, [ControlNext]_vars
             PROVE  coalitions' \in Seq(configured')
  OBVIOUS
<1>1. coalitions \in Seq(configured)
  BY DEF CoalitionInv
<1>2. CASE UNCHANGED settingsVars
  BY <1>1, <1>2 DEF settingsVars
<1>3. ASSUME NEW k \in Coalition, AddCoalition(k)
      PROVE  coalitions' \in Seq(configured')
  <2>1. coalitions \in Seq(configured \cup {k})
    BY <1>1
  <2> QED
    BY <1>3, <2>1 DEF AddCoalition
<1>4. ASSUME NEW k \in Coalition, RemoveCoalition(k)
      PROVE  coalitions' \in Seq(configured')
  BY <1>1, <1>4, RemoveType DEF RemoveCoalition
<1> QED
  BY <1>2, <1>3, <1>4, NeverTakenBack DEF EditCoalitions, SettingsNext

LEMMA CoalitionCallStep ==
  ASSUME TypeInv, CoalitionInv, [ControlNext]_vars, NEW d \in Call
  PROVE  /\ pc'[d] \in {"writeCoalition", "unitAdd"}
              => arg'[d].coalition \in configured'
         /\ pc'[d] = "guestAdd" => local'[d] \in configured'
<1> SUFFICES ASSUME pc'[d] \in {"writeCoalition", "unitAdd", "guestAdd"}
             PROVE  /\ pc'[d] # "guestAdd" => arg'[d].coalition \in configured'
                    /\ pc'[d] = "guestAdd" => local'[d] \in configured'
  OBVIOUS
<1>1. configured \subseteq configured'
  BY NeverTakenBack
<1>2. Names(coalitions) \subseteq configured
  BY DEF CoalitionInv, Names
<1>3. CASE pc'[d] = pc[d] /\ arg'[d] = arg[d] /\ local'[d] = local[d]
  BY <1>1, <1>3 DEF CoalitionInv
<1>4. CASE CallStep(d) /\ ~UNCHANGED callVars
  <2>0. ~Reply(d)
    BY DEF Reply, TypeInv, CallsOK, CallsLive, CallTypeOK
  <2>1. CASE pc'[d] = "writeCoalition"
    <3>1. CheckCoalition(d) /\ arg'[d] = arg[d]
      BY <1>4, <2>1, Enters, GoesOn
    <3>2. DoesCoalitionExist(arg[d].coalition)
      BY <2>1, <3>1, GotoCall DEF CheckCoalition, TypeInv, CallsOK, CallsLive
    <3> QED
      BY <1>1, <1>2, <2>1, <3>1, <3>2 DEF DoesCoalitionExist
  <2>2. CASE pc'[d] = "unitAdd"
    <3>1. UnitCoalition(d) /\ arg'[d] = arg[d]
      BY <1>4, <2>2, Enters, GoesOn
    <3>2. DoesCoalitionExist(arg[d].coalition)
      BY <2>0, <3>1 DEF UnitCoalition
    <3> QED
      BY <1>1, <1>2, <2>2, <3>1, <3>2 DEF DoesCoalitionExist
  <2>3. CASE pc'[d] = "guestAdd"
    <3> DEFINE found == Matching(arg[d].password)
               first == CHOOSE i \in found : \A j \in found : i <= j
    <3>1. GuestMatch(d)
      BY <1>4, <2>3, Enters
    <3>2. found # {} /\ Goto(d, "guestAdd", coalitions[first])
      BY <2>0, <3>1 DEF GuestMatch
    <3>3. found \subseteq 1 .. Len(coalitions) /\ Len(coalitions) \in Nat
      BY DEF Matching, TypeInv, RegistryOK, SettingsTypeOK
    <3>4. \E i \in found : \A j \in found : i <= j
      BY <3>2, <3>3, LeastIndex
    <3>5. coalitions[first] \in Names(coalitions)
      BY <3>4 DEF Matching, Names
    <3>6. local'[d] = coalitions[first]
      BY <3>2, GotoCall DEF TypeInv, CallsOK, CallsLive
    <3> QED
      BY <1>1, <1>2, <2>3, <3>5, <3>6
  <2> QED
    BY <2>1, <2>2, <2>3
<1> QED
  BY <1>3, <1>4, Moves

LEMMA CoalitionWasConfiguredStep ==
  TypeInv /\ CoalitionInv /\ [ControlNext]_vars => CoalitionWasConfigured'
<1> SUFFICES ASSUME TypeInv, CoalitionInv, [ControlNext]_vars,
                    NEW r \in Ref, heap'[r] # Free
             PROVE  heap'[r].coalition \in configured'
  BY DEF CoalitionWasConfigured
<1>1. configured \subseteq configured'
  BY NeverTakenBack
<1>2. heap[r] \in ClientState => heap[r].coalition \in configured
  BY SentinelAssumption DEF CoalitionInv, CoalitionWasConfigured
<1>3. CASE heap'[r] = heap[r]
  BY <1>1, <1>2, <1>3 DEF TypeInv, RegistryOK, StateTypeOK
<1>4. ASSUME NEW c \in Call, WriteCoalition(c), heap[r] \in ClientState,
             heap'[r] = [heap[r] EXCEPT !.coalition = arg[c].coalition]
      PROVE  heap'[r].coalition \in configured'
  BY <1>1, <1>4 DEF WriteCoalition, At, CoalitionInv, ClientState
<1>5. ASSUME NEW c \in Call, WriteRole(c), heap[r] \in ClientState,
             heap'[r] = [heap[r] EXCEPT !.role = uint8(arg[c].roleId)]
      PROVE  heap'[r].coalition \in configured'
  BY <1>1, <1>2, <1>5 DEF ClientState
<1>6. ASSUME NEW c \in Call, NEW k \in Coalition, NEW role \in Role,
             Added(c, r, k, role),
             heap'[r] = [coalition |-> k, role |-> role, granted |-> role]
      PROVE  heap'[r].coalition \in configured'
  BY <1>1, <1>6 DEF Added, GuestAdd, UnitAdd, At, CoalitionInv
<1> QED
  BY <1>3, <1>4, <1>5, <1>6, ObjectOrigin

LEMMA CoalitionInvAlways == ControlSpec => []CoalitionInv
<1>1. ControlInit => CoalitionInv
  <2> SUFFICES ASSUME ControlInit PROVE CoalitionInv
    OBVIOUS
  <2>1. coalitions \in Seq(configured)
    <3>1. configured = Names(coalitions) /\ coalitions \in Seq(Coalition)
      BY TypeInvInit
      DEF ControlInit, AuthInit, SettingsInit, TypeInv, RegistryOK, SettingsTypeOK
    <3> QED
      BY <3>1 DEF Names
  <2> QED
    BY <2>1 DEF ControlInit, AuthInit, StateInit, RpcInit, CoalitionInv,
                CoalitionWasConfigured
<1>2. TypeInv /\ CoalitionInv /\ [ControlNext]_vars => CoalitionInv'
  BY CoalitionListStep, CoalitionCallStep, CoalitionWasConfiguredStep
  DEF CoalitionInv
<1> QED
  BY <1>1, <1>2, TypesAlways, PTL DEF ControlSpec

\* No client is ever in a coalition that the administrator did not configure,
\* whatever is removed between a lookup and the write that relies on it.
THEOREM CoalitionsWereConfigured == ControlSpec => []CoalitionWasConfigured
  BY CoalitionInvAlways, PTL DEF CoalitionInv

-----------------------------------------------------------------------------
(* Which calls change a session *)

\* The strengthening: two sessions never share an object, and a call that holds
\* the object of a session looked that session up.  Both rest on the allocator:
\* an address that a call still holds is not handed out again.
OwnInv ==
  /\ \A g, h \in Guid : clients[g] # NoRef /\ clients[g] = clients[h] => g = h
  /\ \A c \in Call, g \in Guid :
       pc[c] \in InfoStep /\ local[c] = clients[g] => arg[c].guid = g

LEMMA NotSharedStep ==
  ASSUME TypeInv, OwnInv, [ControlNext]_vars, NEW g \in Guid, NEW h \in Guid,
         clients'[g] # NoRef, clients'[g] = clients'[h]
  PROVE  g = h
<1> SUFFICES ASSUME g # h PROVE FALSE
  OBVIOUS
<1>1. ASSUME NEW i \in Guid, NEW j \in Guid, i # j, clients'[i] = clients'[j],
             NEW c \in Call, NEW r \in Ref, NEW k \in Coalition, NEW role \in Role,
             arg[c].guid = i, Added(c, r, k, role)
      PROVE  FALSE
  <2>1. clients' = [clients EXCEPT ![i] = r]
    BY <1>1 DEF Added, AddClientAt
  <2>2. clients'[i] = r /\ clients'[j] = clients[j]
    BY <1>1, <2>1 DEF TypeInv, RegistryOK, StateTypeOK
  <2> QED
    BY <1>1, <2>2 DEF Added, Unused
<1>2. clients'[g] = clients[g]
  BY <1>1, ClientOrigin
<1>3. clients'[h] = clients[h]
  BY <1>1, ClientOrigin
<1> QED
  BY <1>2, <1>3 DEF OwnInv

LEMMA HeldOwnStep ==
  ASSUME TypeInv, OwnInv, [ControlNext]_vars, NEW d \in Call, NEW g \in Guid,
         pc'[d] \in InfoStep, local'[d] = clients'[g]
  PROVE  arg'[d].guid = g
<1>0. pc'[d] # "idle" /\ pc'[d] \in SrsStep
  BY DEF InfoStep, SrsStep
<1>1. clients'[g] # NoRef
  BY TypeInvStep, <1>0, SentinelAssumption
  DEF TypeInv, CallsOK, CallsLive, CallTypeOK, CallOK, IdleCallOK, SrsCallOK, AuthCallOK,
      InfoStep, GuestStep, LoginStep, UnitStep
<1>2. CASE pc'[d] = pc[d] /\ arg'[d] = arg[d] /\ local'[d] = local[d]
  <2>1. ASSUME NEW c \in Call, NEW r \in Ref, NEW k \in Coalition, NEW role \in Role,
               arg[c].guid = g, Added(c, r, k, role)
        PROVE  FALSE
    <3>1. clients'[g] = r
      BY <2>1 DEF Added, AddClientAt, TypeInv, RegistryOK, StateTypeOK
    <3> QED
      BY <1>2, <2>1, <3>1 DEF Added, Unused
  <2>2. clients'[g] = clients[g]
    BY <1>1, <2>1, ClientOrigin
  <2> QED
    BY <1>2, <2>2 DEF OwnInv
<1>3. CASE CallStep(d) /\ ~UNCHANGED callVars /\ pc[d] \in SrsStep
  <2>1. Continue(d)
    BY <1>3, StaysInService
  <2>2. ~Reply(d)
    BY <1>0 DEF Reply, TypeInv, CallsOK, CallsLive, CallTypeOK
  <2>3. \/ CheckCoalition(d) \/ WriteCoalition(d) \/ CheckRole(d)
        \/ SyncRadio(d)
    BY <2>1, <2>2
    DEF Continue, WriteRole, WriteRadio, Cleanup, SyncReply
  <2>4. ~SyncRadio(d)
    <3>1. \A l : Goto(d, "syncRadio", l) => pc'[d] = "syncRadio"
      BY GotoCall DEF TypeInv, CallsOK, CallsLive
    <3> QED
      BY <1>3, <3>1 DEF SyncRadio, InfoStep
  <2>5. PICK p : Goto(d, p, local[d])
    BY <2>2, <2>3, <2>4 DEF CheckCoalition, WriteCoalition, CheckRole
  <2>6. UNCHANGED clients /\ pc[d] \in InfoStep
    BY <2>3, <2>4 DEF CheckCoalition, WriteCoalition, CheckRole, At, InfoStep,
                      WriteClient, stateVars
  <2>7. arg'[d] = arg[d] /\ local'[d] = local[d]
    BY <2>5, GotoCall DEF TypeInv, CallsOK, CallsLive
  <2> QED
    BY <2>6, <2>7 DEF OwnInv
<1>4. CASE CallStep(d) /\ ~UNCHANGED callVars /\ pc[d] \notin SrsStep
  <2>1. \/ UpdateClientInfo(d) \/ UpdateRadioInfo(d) \/ Disconnect(d)
        \/ SyncClient(d)
    BY <1>0, <1>4, Enters
  <2>2. ~UpdateRadioInfo(d) /\ ~Disconnect(d) /\ ~SyncClient(d)
    BY EnterCall
    DEF UpdateRadioInfo, Disconnect, SyncClient, EnterAuthorized, InfoStep,
        TypeInv, CallsOK, CallsLive
  <2>3. PICK a \in InfoArg : /\ Enter(d, "checkCoalition", a, clients[a.guid])
                             /\ UNCHANGED clients
    BY <2>1, <2>2 DEF UpdateClientInfo, EnterAuthorized, stateVars
  <2>4. arg'[d] = a /\ local'[d] = clients[a.guid] /\ a.guid \in Guid
    BY <2>3, EnterCall DEF TypeInv, CallsOK, CallsLive, InfoArg
  <2> QED
    BY <1>1, <2>3, <2>4 DEF OwnInv
<1> QED
  BY <1>0, <1>2, <1>3, <1>4, Moves

LEMMA OwnInvAlways == ControlSpec => []OwnInv
<1>1. ControlInit => OwnInv
  BY DEF ControlInit, AuthInit, StateInit, RpcInit, OwnInv, InfoStep
<1>2. TypeInv /\ OwnInv /\ [ControlNext]_vars => OwnInv'
  BY NotSharedStep, HeldOwnStep DEF OwnInv
<1> QED
  BY <1>1, <1>2, TypesAlways, PTL DEF ControlSpec

\* What a session holds changes only by a call that looked up this very session:
\* a call that holds the object of a session that was replaced or removed does
\* not touch its successor.
THEOREM SessionsChangedByOwnCalls == ControlSpec => ChangesByOwnCall
<1> DEFINE OwnChange ==
      \A g \in Guid :
        clients[g] # NoRef /\ clients'[g] = clients[g]
          /\ heap'[clients[g]] # heap[clients[g]]
        => \E c \in Call : local[c] = clients[g] /\ arg[c].guid = g
<1>1. TypeInv /\ OwnInv /\ [ControlNext]_vars => OwnChange
  <2> SUFFICES ASSUME TypeInv, OwnInv, [ControlNext]_vars, NEW g \in Guid,
                      clients[g] # NoRef, clients'[g] = clients[g],
                      heap'[clients[g]] # heap[clients[g]]
               PROVE  \E c \in Call : local[c] = clients[g] /\ arg[c].guid = g
    OBVIOUS
  <2>1. PICK c \in Call : /\ WriteCoalition(c) \/ WriteRole(c)
                          /\ local[c] = clients[g]
    BY SessionKept, ObjectOrigin, SentinelAssumption
  <2>2. pc[c] \in InfoStep
    BY <2>1 DEF WriteCoalition, WriteRole, At, InfoStep
  <2> QED
    BY <2>1, <2>2 DEF OwnInv
<1> QED
  BY <1>1, TypesAlways, OwnInvAlways, PTL DEF ControlSpec, ChangesByOwnCall

-----------------------------------------------------------------------------
(* The control server implements Sessions *)

SessionsInv == TypeInv /\ OwnInv /\ CoalitionInv /\ RoleInv

\* A step that only one guid's session shows is a Set of the abstract module.
LEMMA ObservedSet ==
  ASSUME NEW g \in Guid, NEW s, Observed'[g] = s, UNCHANGED configured,
         \A h \in Guid \ {g} : Observed'[h] = Observed[h]
  PROVE  S!Set(g, s)
<1>1. Observed' = [Observed EXCEPT ![g] = s]
  BY DEF Observed
<1> QED
  BY <1>1 DEF S!Set

LEMMA ObservedSame ==
  ASSUME UNCHANGED <<clients, heap, configured>>
  PROVE  UNCHANGED S!sessionVars
  BY DEF Observed, S!sessionVars

\* A call that writes to the object it holds changes the session that refers to
\* it; when none does, nobody sees the write.
LEMMA ObservedWrite ==
  ASSUME SessionsInv, NEW c \in Call, WriteCoalition(c) \/ WriteRole(c)
  PROVE  \/ UNCHANGED S!sessionVars
         \/ \E g \in Guid :
              /\ clients[g] = local[c]
              /\ Observed[g] = heap[local[c]] /\ Observed[g] # NoRef
              /\ S!Set(g, heap'[local[c]])
<1>0. /\ clients \in [Guid -> Ref \cup {NoRef}]
      /\ UNCHANGED <<clients, configured>>
      /\ local[c] \in Ref /\ heap[local[c]] \in ClientState
      /\ \A q \in Ref \ {local[c]} : heap'[q] = heap[q]
  BY WriteStep
  DEF SessionsInv, TypeInv, RegistryOK, StateTypeOK, WriteCoalition, WriteRole,
      WriteClient, settingsVars
<1>1. CASE \A g \in Guid : clients[g] # local[c]
  <2>1. \A g \in Guid : Observed'[g] = Observed[g]
    BY <1>0, <1>1 DEF Observed
  <2>2. Observed' = Observed
    BY <2>1 DEF Observed
  <2> QED
    BY <1>0, <2>2 DEF S!sessionVars
<1>2. ASSUME NEW g \in Guid, clients[g] = local[c]
      PROVE  /\ Observed[g] = heap[local[c]] /\ Observed[g] # NoRef
             /\ S!Set(g, heap'[local[c]])
  <2>1. clients[g] # NoRef /\ heap[local[c]] # NoRef
    BY <1>0, <1>2, SentinelAssumption
  <2>2. Observed[g] = heap[local[c]] /\ Observed'[g] = heap'[local[c]]
    BY <1>0, <1>2, <2>1 DEF Observed
  <2>3. \A h \in Guid \ {g} : clients[h] # local[c]
    BY <1>2, <2>1 DEF SessionsInv, OwnInv
  <2>4. \A h \in Guid \ {g} : Observed'[h] = Observed[h]
    BY <1>0, <2>3 DEF Observed
  <2> QED
    BY <1>0, <2>1, <2>2, <2>4, ObservedSet
<1> QED
  BY <1>1, <1>2

LEMMA ObservedAdd ==
  ASSUME TypeInv, NEW c \in Call, arg[c].guid \in Guid, UNCHANGED configured,
         NEW r \in Ref, NEW k \in Coalition, NEW role \in Role, Added(c, r, k, role)
  PROVE  S!Set(arg[c].guid, [coalition |-> k, role |-> role, granted |-> role])
<1> DEFINE g == arg[c].guid
           new == [coalition |-> k, role |-> role, granted |-> role]
<1>0. /\ clients \in [Guid -> Ref \cup {NoRef}]
      /\ heap \in [Ref -> ClientState \cup {Free}]
  BY DEF TypeInv, RegistryOK, StateTypeOK
<1>1. heap' = [heap EXCEPT ![r] = new] /\ clients' = [clients EXCEPT ![g] = r]
  BY DEF Added, AddClientAt
<1> HIDE DEF g, new
<1>2. g \in Guid
  BY DEF g
<1>3. Observed'[g] = new
  BY <1>0, <1>1, <1>2, SentinelAssumption DEF Observed
<1>4. \A h \in Guid : clients[h] # r
  BY DEF Added, Unused
<1>5. ASSUME NEW h \in Guid \ {g} PROVE Observed'[h] = Observed[h]
  BY <1>0, <1>1, <1>4, <1>5 DEF Observed
<1>6. S!Set(g, new)
  BY <1>2, <1>3, <1>5, ObservedSet
<1> QED
  BY <1>6 DEF g, new

LEMMA ObservedClose ==
  ASSUME TypeInv, NEW g \in Guid, clients' = [clients EXCEPT ![g] = NoRef],
         UNCHANGED <<heap, configured>>
  PROVE  S!Close(g)
<1>1. /\ Observed'[g] = NoRef
      /\ \A h \in Guid \ {g} : Observed'[h] = Observed[h]
  BY DEF Observed, TypeInv, RegistryOK, StateTypeOK
<1> QED
  BY <1>1, ObservedSet DEF S!Close

LEMMA SessionsStep ==
  SessionsInv /\ [ControlNext]_vars => [S!Next]_(S!sessionVars)
<1> SUFFICES ASSUME SessionsInv, [ControlNext]_vars
             PROVE  S!Next \/ UNCHANGED S!sessionVars
  OBVIOUS
<1>0. TypeInv
  BY DEF SessionsInv
<1>1. CASE UNCHANGED <<clients, heap>>
  <2>1. UNCHANGED configured => UNCHANGED S!sessionVars
    BY <1>1, ObservedSame
  <2>2. ASSUME EditCoalitions PROVE S!Configure \/ UNCHANGED S!sessionVars
    <3>1. Observed' = Observed
      BY <1>1 DEF Observed
    <3> QED
      BY <2>1, <2>2, <3>1
      DEF EditCoalitions, SettingsNext, AddCoalition, RemoveCoalition, S!Configure
  <2> QED
    BY <1>0, <2>1, <2>2, NeverTakenBack DEF settingsVars, S!Next
<1>2. ASSUME NEW c \in Call, WriteCoalition(c)
      PROVE  S!Next \/ UNCHANGED S!sessionVars
  <2>1. arg[c].coalition \in configured
    BY <1>2 DEF WriteCoalition, At, SessionsInv, CoalitionInv
  <2>2. heap'[local[c]] = [heap[local[c]] EXCEPT !.coalition = arg[c].coalition]
    BY <1>0, <1>2, WriteStep
    DEF WriteCoalition, WriteClient, TypeInv, RegistryOK, StateTypeOK
  <2>3. CASE UNCHANGED S!sessionVars
    BY <2>3
  <2>4. ASSUME NEW g \in Guid, Observed[g] = heap[local[c]], Observed[g] # NoRef,
               S!Set(g, heap'[local[c]])
        PROVE  S!Move(g)
    BY <2>1, <2>2, <2>4 DEF S!Move
  <2> QED
    BY <1>2, <2>3, <2>4, ObservedWrite DEF S!Next
<1>3. ASSUME NEW c \in Call, WriteRole(c)
      PROVE  S!Next \/ UNCHANGED S!sessionVars
  <2> DEFINE role == uint8(arg[c].roleId)
  <2>1. pc[c] = "writeRole" /\ pc[c] \in InfoStep
    BY <1>3 DEF WriteRole, At, InfoStep
  <2>2. role \in Role /\ role # GuestRole /\ role <= heap[local[c]].granted
    BY <1>0, <2>1, InfoCall DEF TypeInv, CallsOK, CallsLive, SessionsInv, RoleInv, PendingRole
  <2>3. 1 <= role
    <3> HIDE DEF role
    <3>1. role \in Nat /\ role # 0
      BY <2>2, RoleFacts
    <3> QED
      BY <3>1
  <2>4. heap'[local[c]] = [heap[local[c]] EXCEPT !.role = role]
    BY <1>0, <1>3, WriteStep
    DEF WriteRole, WriteClient, TypeInv, RegistryOK, StateTypeOK
  <2>5. ASSUME NEW g \in Guid, Observed[g] = heap[local[c]], Observed[g] # NoRef,
               S!Set(g, heap'[local[c]])
        PROVE  S!SwapRole(g)
    BY <2>2, <2>3, <2>4, <2>5 DEF S!SwapRole
  <2> QED
    BY <1>3, <2>5, ObservedWrite DEF S!Next
<1>4. ASSUME NEW c \in Call, GuestAdd(c) \/ UnitAdd(c)
      PROVE  S!Next
  <2>1. PICK r \in Ref, k \in Coalition, role \in Role : Added(c, r, k, role)
    BY <1>0, <1>4, AddingCall
  <2>2. arg[c].guid \in Guid /\ UNCHANGED configured
    BY <1>0, <1>4, AddingCall DEF GuestAdd, UnitAdd, settingsVars
  <2>3. k \in configured
    BY <2>1 DEF Added, GuestAdd, UnitAdd, At, SessionsInv, CoalitionInv
  <2>4. S!Set(arg[c].guid, [coalition |-> k, role |-> role, granted |-> role])
    BY <1>0, <2>1, <2>2, ObservedAdd
  <2> QED
    BY <2>2, <2>3, <2>4 DEF S!Open, S!Next
<1>5. ASSUME NEW c \in Call, Cleanup(c) PROVE S!Next
  <2>1. arg[c].guid \in Guid
    BY <1>0, <1>5, PlainCall DEF TypeInv, CallsOK, CallsLive, Cleanup, At, PlainArg
  <2> QED
    BY <1>0, <1>5, <2>1, ObservedClose
    DEF Cleanup, cleanupClientState, settingsVars, S!Next
<1>6. ASSUME NEW g \in Guid, KickClient(g) PROVE S!Next
  BY <1>0, <1>6, ObservedClose DEF KickClient, settingsVars, S!Next
<1>7. ASSUME AuthReboot PROVE S!Next
  <2>1. Observed' = [g \in Guid |-> NoRef]
    BY <1>7 DEF AuthReboot, Reboot, Observed
  <2> QED
    BY <1>7, <2>1 DEF AuthReboot, Reboot, S!CloseAll, S!Next
<1>8. ASSUME NEW c \in Call, WriteRadio(c) PROVE UNCHANGED <<clients, heap>>
  BY <1>8 DEF WriteRadio
<1>9. ASSUME NEW g \in Guid, MuteClient(g) \/ UnmuteClient(g)
      PROVE  UNCHANGED <<clients, heap>>
  BY <1>9 DEF MuteClient, UnmuteClient, SetMuted
<1> QED
  BY <1>1, <1>2, <1>3, <1>4, <1>5, <1>6, <1>7, <1>8, <1>9, RegistrySteps

\* The control server implements Sessions: what clients and administrators can
\* observe of sessions is what the abstract module allows, although a handler
\* takes several steps, holds pointers across them and checks without the lock.
THEOREM ControlServerImplementsSessions ==
  ControlSpec => ControlImplementsSessions
<1>1. ControlInit => S!Init
  <2> SUFFICES ASSUME ControlInit PROVE S!Init
    OBVIOUS
  <2>1. Observed = [g \in Guid |-> NoRef]
    BY DEF Observed, ControlInit, AuthInit, StateInit
  <2>2. configured \in SUBSET Coalition
    BY TypeInvInit DEF TypeInv, RegistryOK, SettingsTypeOK
  <2> QED
    BY <2>1, <2>2 DEF S!Init
<1>2. ControlSpec => []SessionsInv
  BY TypesAlways, OwnInvAlways, CoalitionInvAlways, RoleInvAlways, PTL
  DEF SessionsInv
<1> QED
  BY <1>1, <1>2, SessionsStep, PTL
  DEF ControlSpec, ControlImplementsSessions, S!Spec
=============================================================================
