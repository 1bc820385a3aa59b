----------------------------- MODULE AuthServer ------------------------------
(***************************************************************************)
(* srs/auth_service.go: how a client becomes a session.  InitAuth hands    *)
(* out a guid; GuestLogin, or Login followed by UnitSelect, adds the       *)
(* client to the registry and issues its token.                            *)
(*                                                                         *)
(* The guids in between live in authenticatingClients, guarded by mu.      *)
(* GuestLogin takes mu and gives it back only in the branch that finds a   *)
(* coalition: on the other path the goroutine ends with mu locked, and mu  *)
(* is "leaked" for good.                                                   *)
(*                                                                         *)
(* Abstracted: player names and units (each is well formed or not, which is *)
(* chosen where the code checks it); when an entry expires is left open;   *)
(* the two settings that enable guest and plugin login may hold any value  *)
(* whenever they are read.                                                 *)
(*                                                                         *)
(* History: issued are the guids InitAuth handed out; grants[s] is what    *)
(* the plugin granted, and to whom, when the secret s was generated.       *)
(***************************************************************************)
EXTENDS Rpc

CONSTANTS
  Secret,         \* the secrets diceware generates; each at most once
  LongPassword,   \* coalitions whose password bcrypt rejects (over 72 bytes)
  NoEntry,        \* "guid is not a key of authenticatingClients"
  NoGrant         \* grants of a secret that was not generated yet

ASSUME LongPasswordAssumption == LongPassword \subseteq Coalition

VARIABLES
  auth,           \* s.authenticatingClients
  mu,             \* s.mu between two steps: "free", or "leaked"
  issued, grants

authVars == <<auth, mu, issued, grants>>
vars     == <<rpcVars, authVars>>

EmptyString == "empty"

\* bcrypt salts every hash afresh and the code compares hashes with `==`, so
\* a hash computed by the server never equals one computed by a client.
Salt == {"server", "client"}

HashPassword(coalition, salt) ==
  IF coalition \in LongPassword THEN <<EmptyString>> ELSE <<coalition, salt>>

Password == {HashPassword(k, "client") : k \in Coalition} \cup {<<EmptyString>>}

Entry == [secret : Secret \cup {EmptyString}, roles : SUBSET Role,
          expired : BOOLEAN]
Grant == [guid : Guid, roles : SUBSET Role]

ASSUME GrantAssumption == NoEntry \notin Entry /\ NoGrant \notin Grant

InitArg   == [capable : BOOLEAN]
GuestArg  == [guid : Guid, password : Password]
LoginArg  == [guid : Guid]
UnitArg   == [guid : Guid, secret : Secret \cup {EmptyString},
              coalition : Coalition, roleId : RoleId]

GuestStep == {"guestPurge", "guestEntry", "guestMatch", "guestAdd", "guestToken"}
LoginStep == {"loginPurge", "loginEntry", "loginPlugin", "loginCall", "loginStore"}
UnitStep  == {"unitEntry", "unitCoalition", "unitAdd", "unitDelete", "unitToken"}
AuthStep  == {"initPurge", "initStore"} \cup GuestStep \cup LoginStep \cup UnitStep

AuthCallOK(c) ==
  \/ pc[c] \in {"initPurge", "initStore"} /\ arg[c] \in InitArg
       /\ local[c] = NoLocal
  \/ pc[c] \in GuestStep /\ arg[c] \in GuestArg
       /\ IF pc[c] = "guestAdd" THEN local[c] \in Coalition
                                ELSE local[c] = NoLocal
  \/ pc[c] \in LoginStep /\ arg[c] \in LoginArg
       /\ IF pc[c] = "loginStore" THEN local[c] \in Secret
                                  ELSE local[c] = NoLocal
  \/ pc[c] \in UnitStep /\ arg[c] \in UnitArg /\ local[c] = NoLocal

-----------------------------------------------------------------------------
(* Helpers of the handlers *)

\* A step that locks mu and unlocks it again.
MuStep(c, step) == At(c, step) /\ mu = "free"

\* removeExpiredAuthenticatingClients, the first thing three handlers do.
Purge(c, step, next) ==
  /\ MuStep(c, step)
  /\ auth' = [g \in Guid |-> IF auth[g] # NoEntry /\ auth[g].expired
                             THEN NoEntry ELSE auth[g]]
  /\ Goto(c, next, NoLocal)
  /\ UNCHANGED <<mu, issued, grants, stateVars, settingsVars, tokens>>

StartCall(c, step, args) ==
  /\ \E a \in args : Enter(c, step, a, NoLocal)
  /\ UNCHANGED <<authVars, stateVars, settingsVars, tokens>>

\* GenerateToken may fail (key files); the client stays registered.
Token(c, step) ==
  /\ At(c, step)
  /\ tokens' \in {tokens, tokens \cup {arg[c].guid}}
  /\ Reply(c)
  /\ UNCHANGED <<authVars, stateVars, settingsVars>>

-----------------------------------------------------------------------------
(* InitAuth *)

InitAuth(c)  == StartCall(c, "initPurge", InitArg)
InitPurge(c) == Purge(c, "initPurge", "initStore")

\* Version and distribution mode are checked between the two locks.  Bound: an
\* instance that has no guid left answers without one.
InitStore(c) ==
  /\ At(c, "initStore")
  /\ IF arg[c].capable /\ issued # Guid
     THEN /\ mu = "free"
          /\ \E g \in Guid \ issued :
               /\ auth' = [auth EXCEPT ![g] = [secret |-> EmptyString,
                                               roles |-> {}, expired |-> FALSE]]
               /\ issued' = issued \cup {g}
     ELSE UNCHANGED <<auth, issued>>
  /\ Reply(c)
  /\ UNCHANGED <<mu, grants, stateVars, settingsVars, tokens>>

-----------------------------------------------------------------------------
(* GuestLogin *)

GuestLogin(c) == StartCall(c, "guestPurge", GuestArg)
GuestPurge(c) == Purge(c, "guestPurge", "guestEntry")

\* Mutant: the entry's existence is not checked.
GuestAnyEntry(c) ==
  /\ MuStep(c, "guestEntry")
  /\ Goto(c, "guestMatch", NoLocal) \/ Reply(c)
  /\ UNCHANGED <<authVars, stateVars, settingsVars, tokens>>

GuestEntry(c) ==
  /\ MuStep(c, "guestEntry")
  /\ \E nameOk \in BOOLEAN :
       IF auth[arg[c].guid] # NoEntry /\ nameOk
       THEN Goto(c, "guestMatch", NoLocal)
       ELSE Reply(c)
  /\ UNCHANGED <<authVars, stateVars, settingsVars, tokens>>

\* Positions of the coalition list whose password matches the request's.
Matching(password) ==
  {i \in DOMAIN coalitions : HashPassword(coalitions[i], "server") = password}

\* Mutant: the match is assigned to a shadowed variable.
GuestMatchShadowed(c) ==
  /\ MuStep(c, "guestMatch")
  /\ LET found == Matching(arg[c].password)
     IN /\ mu' = IF found = {} THEN "leaked" ELSE "free"
        /\ \E unitOk \in BOOLEAN :
             IF found # {} /\ unitOk THEN Goto(c, "guestAdd", NoLocal)
                                     ELSE Reply(c)
  /\ UNCHANGED <<auth, issued, grants, stateVars, settingsVars, tokens>>

\* mu is locked; the first match unlocks it.  Without a match it stays locked.
\* The unit id is checked after the unlock.
GuestMatch(c) ==
  /\ MuStep(c, "guestMatch")
  /\ LET found == Matching(arg[c].password)
         first == CHOOSE i \in found : \A j \in found : i <= j
     IN /\ mu' = IF found = {} THEN "leaked" ELSE "free"
        /\ \E unitOk \in BOOLEAN :
             IF found # {} /\ unitOk
             THEN Goto(c, "guestAdd", coalitions[first])
             ELSE Reply(c)
  /\ UNCHANGED <<auth, issued, grants, stateVars, settingsVars, tokens>>

\* The entry in authenticatingClients is kept.
GuestAdd(c) ==
  /\ At(c, "guestAdd")
  /\ AddClient(arg[c].guid, local[c], GuestRole)
  /\ Goto(c, "guestToken", NoLocal)
  /\ UNCHANGED <<authVars, settingsVars, tokens>>

GuestToken(c) == Token(c, "guestToken")

-----------------------------------------------------------------------------
(* Login *)

Login(c)      == StartCall(c, "loginPurge", LoginArg)
LoginPurge(c) == Purge(c, "loginPurge", "loginEntry")

LoginEntry(c) ==
  /\ MuStep(c, "loginEntry")
  /\ IF auth[arg[c].guid] # NoEntry THEN Goto(c, "loginPlugin", NoLocal)
                                    ELSE Reply(c)
  /\ UNCHANGED <<authVars, stateVars, settingsVars, tokens>>

\* A second RLock, for pluginClients: the plugin is known or it is not.
LoginPlugin(c) ==
  /\ MuStep(c, "loginPlugin")
  /\ Goto(c, "loginCall", NoLocal) \/ Reply(c)
  /\ UNCHANGED <<authVars, stateVars, settingsVars, tokens>>

\* The plugin answers without any lock held: it refuses, fails or times out; it
\* grants roles, and a secret is generated (or that fails); or it reports
\* success without a result, and the type assertion panics.
LoginCall(c) ==
  /\ At(c, "loginCall")
  /\ \/ /\ Reply(c)
        /\ UNCHANGED <<grants, stateVars>>
     \/ \E s \in Secret, ids \in SUBSET RoleId :
          /\ grants[s] = NoGrant
          /\ grants' = [grants EXCEPT ![s] =
                          [guid |-> arg[c].guid, roles |-> {uint8(id) : id \in ids}]]
          /\ Goto(c, "loginStore", s)
          /\ UNCHANGED stateVars
     \/ /\ Panic
        /\ UNCHANGED <<grants, callVars>>
  /\ UNCHANGED <<auth, mu, issued, settingsVars, tokens>>

\* Mutant: a second login keeps the secret of the first.
LoginKeepSecret(c) ==
  /\ MuStep(c, "loginStore")
  /\ LET old == auth[arg[c].guid]
         secret == IF old # NoEntry /\ old.secret # EmptyString
                   THEN old.secret ELSE local[c]
     IN auth' = [auth EXCEPT ![arg[c].guid] =
                   [secret |-> secret, roles |-> grants[local[c]].roles,
                    expired |-> FALSE]]
  /\ Reply(c)
  /\ UNCHANGED <<mu, issued, grants, stateVars, settingsVars, tokens>>

\* The entry is written whatever has become of the one checked before the
\* plugin was called.
LoginStore(c) ==
  /\ MuStep(c, "loginStore")
  /\ auth' = [auth EXCEPT ![arg[c].guid] =
                [secret |-> local[c], roles |-> grants[local[c]].roles,
                 expired |-> FALSE]]
  /\ Reply(c)
  /\ UNCHANGED <<mu, issued, grants, stateVars, settingsVars, tokens>>

-----------------------------------------------------------------------------
(* UnitSelect *)

UnitSelect(c) == StartCall(c, "unitEntry", UnitArg)

\* Mutant: a granted role includes the roles below it.
isRoleBelow(entry, role) == \E r \in entry.roles : role <= r

isRoleAvailable(entry, role) == role \in entry.roles

\* Entries are never changed in place, so the pointer read under RLock still
\* shows the same entry when the rest is checked.  Expiry is not looked at.
UnitEntry(c) ==
  /\ MuStep(c, "unitEntry")
  /\ \E unitOk \in BOOLEAN :
       LET entry == auth[arg[c].guid]
       IN IF /\ entry # NoEntry
             /\ entry.secret = arg[c].secret
             /\ unitOk
             /\ isRoleAvailable(entry, uint8(arg[c].roleId))
          THEN Goto(c, "unitCoalition", NoLocal)
          ELSE Reply(c)
  /\ UNCHANGED <<authVars, stateVars, settingsVars, tokens>>

\* Mutant: the coalition is not looked up.
UnitAnyCoalition(c) ==
  /\ At(c, "unitCoalition")
  /\ Goto(c, "unitAdd", NoLocal)
  /\ UNCHANGED <<authVars, stateVars, settingsVars, tokens>>

UnitCoalition(c) ==
  /\ At(c, "unitCoalition")
  /\ IF DoesCoalitionExist(arg[c].coalition) THEN Goto(c, "unitAdd", NoLocal)
                                             ELSE Reply(c)
  /\ UNCHANGED <<authVars, stateVars, settingsVars, tokens>>

UnitAdd(c) ==
  /\ At(c, "unitAdd")
  /\ AddClient(arg[c].guid, arg[c].coalition, uint8(arg[c].roleId))
  /\ Goto(c, "unitDelete", NoLocal)
  /\ UNCHANGED <<authVars, settingsVars, tokens>>

UnitDelete(c) ==
  /\ MuStep(c, "unitDelete")
  /\ auth' = [auth EXCEPT ![arg[c].guid] = NoEntry]
  /\ Goto(c, "unitToken", NoLocal)
  /\ UNCHANGED <<mu, issued, grants, stateVars, settingsVars, tokens>>

UnitToken(c) == Token(c, "unitToken")

-----------------------------------------------------------------------------

\* Time passes: 20 minutes after InitAuth, 5 minutes after Login.
Expire(g) ==
  /\ up
  /\ auth[g] # NoEntry
  /\ auth' = [auth EXCEPT ![g] = [@ EXCEPT !.expired = TRUE]]
  /\ UNCHANGED <<mu, issued, grants, rpcVars>>

ContinueAuth(c) ==
  \/ InitPurge(c) \/ InitStore(c)
  \/ GuestPurge(c) \/ GuestEntry(c) \/ GuestMatch(c) \/ GuestAdd(c)
  \/ GuestToken(c)
  \/ LoginPurge(c) \/ LoginEntry(c) \/ LoginPlugin(c) \/ LoginCall(c)
  \/ LoginStore(c)
  \/ UnitEntry(c) \/ UnitCoalition(c) \/ UnitAdd(c) \/ UnitDelete(c)
  \/ UnitToken(c)

AuthCalls ==
  \/ \E c \in Call :
       \/ InitAuth(c) \/ GuestLogin(c) \/ Login(c) \/ UnitSelect(c)
       \/ ContinueAuth(c)
  \/ \E g \in Guid : Expire(g)

\* authenticatingClients and mu are gone with the process.
AuthReboot ==
  /\ Reboot
  /\ auth' = [g \in Guid |-> NoEntry]
  /\ mu' = "free"
  /\ UNCHANGED <<issued, grants>>

AuthInit ==
  /\ StateInit /\ SettingsInit /\ RpcInit
  /\ auth = [g \in Guid |-> NoEntry]
  /\ mu = "free"
  /\ issued = {}
  /\ grants = [s \in Secret |-> NoGrant]

\* For this module alone: the rest of the server removes clients.
Leave(g) ==
  /\ up
  /\ clients' = [clients EXCEPT ![g] = NoRef]
  /\ radios' = [radios EXCEPT ![g] = NoRadio]
  /\ UNCHANGED <<heap, up, callVars, settingsVars, tokens, authVars>>

AuthNext ==
  \/ AuthCalls
  \/ EditCoalitions /\ UNCHANGED authVars
  \/ \E g \in Guid : Leave(g)
  \/ AuthReboot

AuthSpec == AuthInit /\ [][AuthNext]_vars

\* The Go scheduler runs every goroutine that can run; the plugin call returns
\* because its context has a timeout of ten seconds.
AuthFairSpec == AuthSpec /\ \A c \in Call : WF_vars(ContinueAuth(c))

-----------------------------------------------------------------------------
(* Properties *)

AuthTypeOK ==
  /\ StateTypeOK
  /\ SettingsTypeOK
  /\ tokens \in SUBSET Guid
  /\ pc \in [Call -> AuthStep \cup {"idle"}]
  /\ arg = [c \in Call |-> arg[c]]
  /\ local = [c \in Call |-> local[c]]
  /\ \A c \in Call : IdleCallOK(c) \/ AuthCallOK(c)
  /\ auth \in [Guid -> Entry \cup {NoEntry}]
  /\ mu \in {"free", "leaked"}
  /\ issued \in SUBSET Guid
  /\ grants \in [Secret -> Grant \cup {NoGrant}]

\* Only a guid that InitAuth handed out ever has an entry, a session or a
\* token, although the entry may expire, be rewritten or be deleted between
\* the check and the AddClient of a login.
SessionWasInitialized ==
  \A g \in Guid :
    auth[g] # NoEntry \/ DoesClientExist(g) \/ g \in tokens => g \in issued

\* A session is a guest's, or holds a role that a plugin granted to this very
\* guid; the role is the one paired with the secret presented, although two
\* logins and two unit selections of the guid may overlap.
RoleWasGranted ==
  \A g \in Guid : DoesClientExist(g) =>
    \/ heap[clients[g]].granted = GuestRole
    \/ \E s \in Secret : /\ grants[s] # NoGrant
                         /\ grants[s].guid = g
                         /\ heap[clients[g]].granted \in grants[s].roles

\* A call past the secret check is backed by the login that generated the
\* secret it presented, for the role it asked for; without a plugin login (the
\* entry's secret is empty) nobody gets that far.
SecretBacksRole ==
  \A c \in Call : pc[c] \in UnitStep \ {"unitEntry"} =>
    /\ arg[c].secret \in Secret
    /\ grants[arg[c].secret] # NoGrant
    /\ grants[arg[c].secret].guid = arg[c].guid
    /\ uint8(arg[c].roleId) \in grants[arg[c].secret].roles

-----------------------------------------------------------------------------
(* Claims of the repository that the code does not keep *)

\* README.md:125-127: a client's initialization is answered with distribution
\* and plugin information.
InitAnswered ==
  \A c \in Call : pc[c] \in {"initPurge", "initStore"} ~> (pc[c] = "idle" \/ ~up)
=============================================================================
