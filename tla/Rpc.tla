-------------------------------- MODULE Rpc ----------------------------------
(***************************************************************************)
(* control/server.go: the gRPC server that runs the handlers of            *)
(* SrsService and AuthServer.                                              *)
(*                                                                         *)
(* Every RPC runs in a goroutine of its own.  A handler takes and releases *)
(* locks several times, so it is split into one action per locked (or      *)
(* unlocked but shared) step: pc[c] names the step call c takes next,      *)
(* arg[c] is its request (with the guid of the caller's token),            *)
(* local[c] what it has read so far and still uses.                        *)
(*                                                                         *)
(* A handler that only answers leaves every variable alone and needs no    *)
(* action: a call for an unknown client, for instance.                     *)
(***************************************************************************)
EXTENDS ServerState

CONSTANTS
  Call,       \* goroutines: the calls in flight at one time
  NoArg,      \* argument of an idle call
  NoLocal     \* "has read nothing it still needs"

VARIABLES
  tokens,     \* guids for which a token was issued; when it expires is left open,
              \* an expired token only keeps its client from calling
  pc, arg, local

callVars == <<pc, arg, local>>
rpcVars  == <<coalitions, configured, clients, heap, radios, up, tokens,
              pc, arg, local>>

RpcInit ==
  /\ tokens = {}
  /\ pc = [c \in Call |-> "idle"]
  /\ arg = [c \in Call |-> NoArg]
  /\ local = [c \in Call |-> NoLocal]

Enter(c, step, a, l) ==
  /\ up
  /\ pc[c] = "idle"
  /\ pc' = [pc EXCEPT ![c] = step]
  /\ arg' = [arg EXCEPT ![c] = a]
  /\ local' = [local EXCEPT ![c] = l]

\* The allocator hands out an address that nothing refers to; those of objects
\* no longer referred to are collected and used again.
Unused(r) == (\A g \in Guid : clients[g] # r) /\ (\A c \in Call : local[c] # r)

AddClient(g, coalition, role) ==
  \E r \in Ref : Unused(r) /\ AddClientAt(r, g, coalition, role)

\* Mutant: the interceptor lets a call without a valid token through.
EnterUnchecked(c, step, a, l) == Enter(c, step, a, l)

\* authInterceptor: the token verifies and its guid becomes the client_id.
\* Every method's minimum role is Guest, so the token's role decides nothing.
EnterAuthorized(c, step, a, l) == a.guid \in tokens /\ Enter(c, step, a, l)

IdleCallOK(c) == pc[c] = "idle" /\ arg[c] = NoArg /\ local[c] = NoLocal

At(c, step) == up /\ pc[c] = step

Goto(c, step, l) ==
  /\ pc' = [pc EXCEPT ![c] = step]
  /\ local' = [local EXCEPT ![c] = l]
  /\ UNCHANGED arg

Reply(c) ==
  /\ pc' = [pc EXCEPT ![c] = "idle"]
  /\ arg' = [arg EXCEPT ![c] = NoArg]
  /\ local' = [local EXCEPT ![c] = NoLocal]

Panic ==
  /\ up' = FALSE
  /\ UNCHANGED <<clients, heap, radios>>

\* The administrator edits the coalition list while calls run.
EditCoalitions ==
  /\ up
  /\ SettingsNext
  /\ UNCHANGED <<stateVars, callVars, tokens>>

\* The process is started again after a panic: the registry and the calls are
\* gone; settings and key files, hence tokens, survive on disk.
Reboot ==
  /\ ~up
  /\ up' = TRUE
  /\ clients' = [g \in Guid |-> NoRef]
  /\ heap' = [r \in Ref |-> Free]
  /\ radios' = [g \in Guid |-> NoRadio]
  /\ pc' = [c \in Call |-> "idle"]
  /\ arg' = [c \in Call |-> NoArg]
  /\ local' = [c \in Call |-> NoLocal]
  /\ UNCHANGED <<tokens, coalitions, configured>>
=============================================================================
