---------------------------- MODULE ControlServer ----------------------------
(***************************************************************************)
(* control/server.go: the control server registers SrsService and          *)
(* AuthServer on one gRPC server, over one registry and one settings       *)
(* object.  A call is served by either; all of them interleave, with the   *)
(* administrator, with time and with crashes.                              *)
(*                                                                         *)
(* SrsService!Join, the stand-in for logging in, and AuthServer!Leave, the *)
(* stand-in for leaving, are replaced by the real handlers.                *)
(***************************************************************************)
EXTENDS SrsService, AuthServer

ControlInit == AuthInit

ControlNext ==
  \/ SrsCalls /\ UNCHANGED authVars
  \/ AuthCalls
  \/ AuthReboot

ControlSpec == ControlInit /\ [][ControlNext]_vars

ControlTypeOK ==
  /\ StateTypeOK
  /\ SettingsTypeOK
  /\ tokens \in SUBSET Guid
  /\ pc \in [Call -> SrsStep \cup AuthStep \cup {"idle"}]
  /\ arg = [c \in Call |-> arg[c]]
  /\ local = [c \in Call |-> local[c]]
  /\ \A c \in Call : IdleCallOK(c) \/ SrsCallOK(c) \/ AuthCallOK(c)
  /\ auth \in [Guid -> Entry \cup {NoEntry}]
  /\ mu \in {"free", "leaked"}
  /\ issued \in SUBSET Guid
  /\ grants \in [Secret -> Grant \cup {NoGrant}]

-----------------------------------------------------------------------------
(* Properties *)

\* The role a client has at any time is at most one that a plugin granted to
\* this very guid (or Guest): logging in decides it, and no interleaving of
\* role swaps, further logins, kicks and disconnects gets around it.
RoleBackedByPlugin ==
  \A g \in Guid : DoesClientExist(g) =>
    \/ heap[clients[g]].role = GuestRole
    \/ \E s \in Secret :
         /\ grants[s] # NoGrant
         /\ grants[s].guid = g
         /\ \E r \in grants[s].roles : heap[clients[g]].role <= r

\* Only the owner of a guid calls in its name: a call that acts on a client is
\* made with a token, and a token is issued for an initialized guid only.
CallsAreAuthenticated ==
  \A c \in Call : pc[c] \in SrsStep => /\ arg[c].guid \in tokens
                                       /\ arg[c].guid \in issued

\* The composition still behaves as the abstract module Sessions says.
ControlImplementsSessions == S!Spec
=============================================================================
