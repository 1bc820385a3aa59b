-------------------------- MODULE ControlServerTypes -------------------------
(***************************************************************************)
(* Type correctness of ControlServer, and of SrsService and AuthServer     *)
(* each by itself, for any number of clients, calls, secrets and           *)
(* addresses; and the lemmas about their actions that the other proofs     *)
(* use.                                                                    *)
(*                                                                         *)
(* An action changes up to three parts of the state: the registry, the     *)
(* calls and the authentication state.  Each part has its type invariant,  *)
(* and lemmas about the few ways in which it is changed; the proof that a  *)
(* step preserves TypeInv then has one lemma per group of similar actions. *)
(***************************************************************************)
EXTENDS ControlServer, SequenceTheorems, WellFoundedInduction, TLAPS

CallOK(c) == IdleCallOK(c) \/ SrsCallOK(c) \/ AuthCallOK(c)

CallTypeOK ==
  /\ pc \in [Call -> SrsStep \cup AuthStep \cup {"idle"}]
  /\ arg = [c \in Call |-> arg[c]]
  /\ local = [c \in Call |-> local[c]]
  /\ \A c \in Call : CallOK(c)

AuthPartOK ==
  /\ auth \in [Guid -> Entry \cup {NoEntry}]
  /\ mu \in {"free", "leaked"}
  /\ issued \in SUBSET Guid
  /\ grants \in [Secret -> Grant \cup {NoGrant}]

-----------------------------------------------------------------------------
(* Roles *)

\* Roles are natural numbers, and truncating a role id gives a role.
LEMMA RoleFacts ==
  /\ Role \subseteq Nat
  /\ GuestRole \in Role
  /\ \A id \in RoleId : uint8(id) \in Role
  /\ GuestRole = 0
<1>1. \A n \in Nat : n % 256 \in Nat
  OBVIOUS
<1>2. RoleId \subseteq Nat
  BY RoleIdAssumption
<1> QED
  BY <1>1, <1>2 DEF Role, uint8, GuestRole

-----------------------------------------------------------------------------
(* The coalition list *)

\* Removing from a list of coalitions gives a list of coalitions.
LEMMA RemoveType ==
  ASSUME NEW T, NEW list \in Seq(T), NEW e
  PROVE  Remove(list, e) \in Seq(T)
<1> DEFINE at == {i \in DOMAIN list : list[i] = e}
           k  == CHOOSE i \in at : \A j \in at : i <= j
           moved == [list EXCEPT ![k] = list[Len(list)]]
<1>1. CASE Len(list) <= 1
  BY <1>1 DEF Remove
<1>2. CASE ~(Len(list) <= 1)
  <2>1. Len(list) \in DOMAIN list
    BY <1>2
  <2>2. moved \in Seq(T) /\ Len(moved) = Len(list)
    <3>1. /\ DOMAIN list = 1 .. Len(list)
          /\ list \in [1 .. Len(list) -> T]
          /\ Len(list) \in Nat
      OBVIOUS
    <3>2. list[Len(list)] \in T
      BY <2>1
    <3>3. moved \in [1 .. Len(list) -> T]
      <4> HIDE DEF k
      <4> QED
        BY <3>1, <3>2, Zenon
    <3> HIDE DEF moved
    <3> QED
      BY <3>1, <3>3
  <2>3. /\ Len(list) - 1 \in Int
        /\ \A i \in 1 .. Len(list) - 1 : moved[i] \in T
    BY <1>2, <2>2
  <2>4. SubSeq(moved, 1, Len(list) - 1) \in Seq(T)
    <3> HIDE DEF moved
    <3> QED
      BY <2>3, SubSeqProperties
  <2> QED
    BY <1>2, <2>4 DEF Remove
<1> QED
  BY <1>1, <1>2

\* The first position with some property exists.
LEMMA LeastIndex ==
  ASSUME NEW n \in Nat, NEW P \in SUBSET (1 .. n), P # {}
  PROVE  \E i \in P : \A j \in P : i <= j
<1>1. P \subseteq Nat
  OBVIOUS
<1> DEFINE Less == {ss \in Nat \X Nat : ss[1] < ss[2]}
<1>2. IsWellFoundedOn(Less, Nat)
  BY NatLessThanWellFounded DEF OpToRel
<1>3. PICK i \in P : \A j \in P : <<j, i>> \notin Less
  <2> HIDE DEF Less
  <2> QED
    BY <1>1, <1>2, WFMin
<1>4. \A j \in P : ~(j < i)
  BY <1>1, <1>3
<1> QED
  BY <1>1, <1>4

-----------------------------------------------------------------------------
(* Calls *)

\* A step of call c leaves the others alone, so the calls stay well typed when
\* c itself does.
LEMMA OneCall ==
  ASSUME CallTypeOK, NEW c \in Call, NEW p, NEW a, NEW l,
         pc' = [pc EXCEPT ![c] = p],
         arg' = [arg EXCEPT ![c] = a],
         local' = [local EXCEPT ![c] = l],
         p \in SrsStep \cup AuthStep \cup {"idle"},
         CallOK(c)'
  PROVE  CallTypeOK'
<1>1. /\ pc' \in [Call -> SrsStep \cup AuthStep \cup {"idle"}]
      /\ arg' = [d \in Call |-> arg'[d]]
      /\ local' = [d \in Call |-> local'[d]]
  BY DEF CallTypeOK
<1>2. ASSUME NEW d \in Call, d # c PROVE CallOK(d)'
  <2>1. pc'[d] = pc[d] /\ arg'[d] = arg[d] /\ local'[d] = local[d]
    BY <1>2 DEF CallTypeOK
  <2>2. CallOK(d)
    BY DEF CallTypeOK
  <2> QED
    BY <2>1, <2>2 DEF CallOK, IdleCallOK, SrsCallOK, AuthCallOK
<1> QED
  BY <1>1, <1>2 DEF CallTypeOK

\* What the three ways of moving a call do to its own entries.
LEMMA EnterCall ==
  ASSUME CallTypeOK, NEW c \in Call, NEW p, NEW a, NEW l, Enter(c, p, a, l)
  PROVE  pc'[c] = p /\ arg'[c] = a /\ local'[c] = l
  BY DEF CallTypeOK, Enter

LEMMA GotoCall ==
  ASSUME CallTypeOK, NEW c \in Call, NEW p, NEW l, Goto(c, p, l)
  PROVE  /\ pc'[c] = p /\ arg'[c] = arg[c] /\ local'[c] = l
         /\ arg' = [arg EXCEPT ![c] = arg[c]]
  BY DEF CallTypeOK, Goto

LEMMA ReplyCall ==
  ASSUME CallTypeOK, NEW c \in Call, Reply(c)
  PROVE  CallTypeOK'
<1>1. IdleCallOK(c)'
  BY DEF CallTypeOK, Reply, IdleCallOK
<1> QED
  BY <1>1, OneCall, Zenon DEF Reply, CallOK

-----------------------------------------------------------------------------
(* Type correctness *)

\* Pointers are never dangling: neither the registry's nor those calls hold.
Live     == \A g \in Guid : clients[g] # NoRef => heap[clients[g]] # Free
HeldLive == \A c \in Call : pc[c] \in InfoStep => heap[local[c]] # Free

\* The secret a login is about to store was generated for it.
HeldGrant == \A c \in Call : pc[c] = "loginStore" => grants[local[c]] # NoGrant

RegistryOK == StateTypeOK /\ SettingsTypeOK /\ Live /\ tokens \in SUBSET Guid


\* What pc says of a call that is in the middle of a handler.
LEMMA InfoCall ==
  ASSUME CallTypeOK, NEW c \in Call, pc[c] \in InfoStep
  PROVE  /\ arg[c] \in InfoArg /\ local[c] \in Ref
         /\ uint8(arg[c].roleId) \in Role
<1>1. arg[c] \in InfoArg /\ local[c] \in Ref
  BY DEF CallTypeOK, CallOK, IdleCallOK, SrsCallOK, AuthCallOK, InfoStep,
         GuestStep, LoginStep, UnitStep
<1> QED
  BY <1>1, RoleFacts DEF InfoArg

LEMMA PlainCall ==
  ASSUME CallTypeOK, NEW c \in Call
  PROVE  /\ pc[c] = "writeRadio" => arg[c] \in RadioArg
         /\ pc[c] = "cleanup" => arg[c] \in PlainArg
         /\ pc[c] = "syncRadio" => arg[c] \in PlainArg /\ local[c] \in SUBSET Guid
  BY DEF CallTypeOK, CallOK, IdleCallOK, SrsCallOK, AuthCallOK, InfoStep,
         GuestStep, LoginStep, UnitStep

LEMMA AuthCall ==
  ASSUME CallTypeOK, NEW c \in Call
  PROVE  /\ pc[c] \in {"initPurge", "initStore"} => arg[c] \in InitArg
         /\ pc[c] \in GuestStep => arg[c] \in GuestArg
         /\ pc[c] = "guestAdd" => local[c] \in Coalition
         /\ pc[c] \in LoginStep => arg[c] \in LoginArg
         /\ pc[c] = "loginStore" => local[c] \in Secret
         /\ pc[c] \in UnitStep => arg[c] \in UnitArg
  BY DEF CallTypeOK, CallOK, IdleCallOK, SrsCallOK, AuthCallOK, InfoStep,
         GuestStep, LoginStep, UnitStep

\* The registry under the few changes the handlers make to it.
LEMMA RegistryAdd ==
  ASSUME RegistryOK, NEW g \in Guid, NEW k \in Coalition, NEW role \in Role,
         NEW r \in Ref, AddClientAt(r, g, k, role),
         UNCHANGED settingsVars, tokens' \in SUBSET Guid
  PROVE  RegistryOK'
<1> DEFINE new == [coalition |-> k, role |-> role, granted |-> role]
<1>1. new \in ClientState /\ new # Free
  BY SentinelAssumption DEF ClientState
<1>2. FreshRadio \in RadioState
  BY DEF FreshRadio, RadioState
<1>3. StateTypeOK'
  BY <1>1, <1>2 DEF RegistryOK, StateTypeOK, AddClientAt
<1>4. Live'
  BY <1>1, SentinelAssumption DEF RegistryOK, StateTypeOK, Live, AddClientAt
<1> QED
  BY <1>3, <1>4 DEF RegistryOK, SettingsTypeOK, settingsVars

LEMMA RegistryWrite ==
  ASSUME RegistryOK, NEW r \in Ref, heap[r] # Free, NEW f, NEW v,
         WriteClient(r, f, v), UNCHANGED <<settingsVars, tokens>>,
         \/ f = "coalition" /\ v \in Coalition
         \/ f = "role" /\ v \in Role
  PROVE  RegistryOK' /\ \A q \in Ref : heap[q] # Free => heap'[q] # Free
<1>1. heap[r] \in ClientState
  BY DEF RegistryOK, StateTypeOK
<1>2. [heap[r] EXCEPT ![f] = v] \in ClientState
  BY <1>1 DEF ClientState
<1>3. StateTypeOK' /\ \A q \in Ref : heap[q] # Free => heap'[q] # Free
  BY <1>2, SentinelAssumption DEF RegistryOK, StateTypeOK, WriteClient
<1> QED
  BY <1>3 DEF RegistryOK, StateTypeOK, SettingsTypeOK, settingsVars, Live,
              WriteClient

LEMMA RegistryRadio ==
  ASSUME RegistryOK, UNCHANGED <<heap, settingsVars, tokens>>,
         up' \in BOOLEAN,
         radios' \in [Guid -> RadioState \cup {NoRadio}],
         \/ UNCHANGED clients
         \/ \E g \in Guid : clients' = [clients EXCEPT ![g] = NoRef]
  PROVE  RegistryOK'
  BY DEF RegistryOK, StateTypeOK, SettingsTypeOK, settingsVars, Live

\* No object is freed while the process runs, and no grant forgotten.
KeepsHeap == \A q \in Ref : heap[q] # Free => heap'[q] # Free

Keeps ==
  /\ KeepsHeap
  /\ \A s \in Secret : grants[s] # NoGrant => grants'[s] # NoGrant

CallsLive == CallTypeOK /\ HeldLive
CallsOK   == CallsLive /\ HeldGrant

\* A step of call c: all calls stay well typed if c does.
LEMMA MoveLive ==
  ASSUME CallsLive, KeepsHeap, NEW c \in Call, NEW p, NEW a, NEW l,
         pc' = [pc EXCEPT ![c] = p],
         arg' = [arg EXCEPT ![c] = a],
         local' = [local EXCEPT ![c] = l],
         p \in SrsStep \cup AuthStep \cup {"idle"},
         CallOK(c)',
         p \in InfoStep => heap'[l] # Free
  PROVE  CallsLive'
<1>1. CallTypeOK'
  BY OneCall, Zenon DEF CallsLive
<1>2. ASSUME NEW d \in Call
      PROVE  /\ d = c => pc'[d] = p /\ local'[d] = l
             /\ d # c => pc'[d] = pc[d] /\ local'[d] = local[d]
  BY DEF CallsLive, CallTypeOK
<1>3. ASSUME NEW d \in Call, pc'[d] \in InfoStep PROVE heap'[local'[d]] # Free
  <2>1. CASE d = c
    BY <1>2, <1>3, <2>1
  <2>2. CASE d # c
    <3>1. heap[local[d]] # Free /\ local[d] \in Ref
      BY <1>2, <1>3, <2>2, InfoCall DEF CallsLive, HeldLive
    <3> QED
      BY <1>2, <2>2, <3>1 DEF KeepsHeap
  <2> QED
    BY <2>1, <2>2
<1> QED
  BY <1>1, <1>3 DEF CallsLive, HeldLive

LEMMA MoveCall ==
  ASSUME CallsOK, Keeps, NEW c \in Call, NEW p, NEW a, NEW l,
         pc' = [pc EXCEPT ![c] = p],
         arg' = [arg EXCEPT ![c] = a],
         local' = [local EXCEPT ![c] = l],
         p \in SrsStep \cup AuthStep \cup {"idle"},
         CallOK(c)',
         p \in InfoStep => heap'[l] # Free,
         p = "loginStore" => grants'[l] # NoGrant
  PROVE  CallsOK'
<1>1. CallsLive'
  BY MoveLive, Zenon DEF CallsOK, Keeps
<1>2. ASSUME NEW d \in Call
      PROVE  /\ d = c => pc'[d] = p /\ local'[d] = l
             /\ d # c => pc'[d] = pc[d] /\ local'[d] = local[d]
  BY DEF CallsOK, CallsLive, CallTypeOK
<1>3. ASSUME NEW d \in Call, pc'[d] = "loginStore"
      PROVE  grants'[local'[d]] # NoGrant
  <2>1. CASE d = c
    BY <1>2, <1>3, <2>1
  <2>2. CASE d # c
    <3>1. grants[local[d]] # NoGrant /\ local[d] \in Secret
      BY <1>2, <1>3, <2>2, AuthCall DEF CallsOK, CallsLive, HeldGrant
    <3> QED
      BY <1>2, <2>2, <3>1 DEF Keeps
  <2> QED
    BY <2>1, <2>2
<1> QED
  BY <1>1, <1>3 DEF CallsOK, HeldGrant

LEMMA EndLive ==
  ASSUME CallsLive, KeepsHeap, NEW c \in Call, Reply(c)
  PROVE  CallsLive'
<1>1. CallOK(c)'
  BY DEF CallsLive, CallTypeOK, Reply, IdleCallOK, CallOK
<1>2. "idle" \notin InfoStep
  BY DEF InfoStep
<1> QED
  BY <1>1, <1>2, MoveLive, Zenon DEF Reply

LEMMA EndCall ==
  ASSUME CallsOK, Keeps, NEW c \in Call, Reply(c)
  PROVE  CallsOK'
<1>1. CallOK(c)'
  BY DEF CallsOK, CallsLive, CallTypeOK, Reply, IdleCallOK, CallOK
<1>2. "idle" \notin InfoStep
  BY DEF InfoStep
<1> QED
  BY <1>1, <1>2, MoveCall, Zenon DEF Reply

LEMMA SameLive ==
  ASSUME CallsLive, KeepsHeap, UNCHANGED callVars
  PROVE  CallsLive'
<1>1. CallTypeOK'
  BY DEF CallsLive, CallTypeOK, callVars, CallOK, IdleCallOK, SrsCallOK,
         AuthCallOK
<1>2. HeldLive'
  BY InfoCall DEF CallsLive, HeldLive, KeepsHeap, callVars
<1> QED
  BY <1>1, <1>2 DEF CallsLive

LEMMA SameCalls ==
  ASSUME CallsOK, Keeps, UNCHANGED callVars
  PROVE  CallsOK'
<1>1. CallsLive'
  BY SameLive DEF CallsOK, Keeps
<1>2. HeldGrant'
  BY AuthCall DEF CallsOK, CallsLive, HeldGrant, Keeps, callVars
<1> QED
  BY <1>1, <1>2 DEF CallsOK

\* What SrsService alone keeps, and what the whole server keeps.
SrsInv  == RegistryOK /\ CallsLive
TypeInv == RegistryOK /\ CallsOK /\ AuthPartOK

\* Nothing is freed by a step that leaves heap and grants alone.
LEMMA KeepsSame ==
  ASSUME UNCHANGED heap
  PROVE  KeepsHeap /\ (UNCHANGED grants => Keeps)
  BY DEF KeepsHeap, Keeps

LEMMA SameRegistry ==
  ASSUME RegistryOK, UNCHANGED <<stateVars, settingsVars, tokens>>
  PROVE  RegistryOK'
  BY DEF RegistryOK, StateTypeOK, SettingsTypeOK, Live, stateVars, settingsVars

LEMMA SameAuth ==
  ASSUME AuthPartOK, UNCHANGED authVars PROVE AuthPartOK'
  BY DEF AuthPartOK, authVars

LEMMA EnterSrsType ==
  ASSUME SrsInv, NEW c \in Call,
         \/ UpdateClientInfo(c) \/ UpdateRadioInfo(c)
         \/ Disconnect(c) \/ SyncClient(c)
  PROVE  SrsInv'
<1>1. UNCHANGED <<stateVars, settingsVars, tokens>>
  BY DEF UpdateClientInfo, UpdateRadioInfo, Disconnect, SyncClient
<1>2. KeepsHeap
  BY <1>1, KeepsSame DEF stateVars, authVars
<1>3. CallsLive'
  <2>1. CASE UpdateClientInfo(c)
    <3>1. PICK a \in InfoArg :
             /\ clients[a.guid] # NoRef
             /\ Enter(c, "checkCoalition", a, clients[a.guid])
      BY <2>1 DEF UpdateClientInfo, EnterAuthorized
    <3>2. clients[a.guid] \in Ref /\ heap[clients[a.guid]] # Free
      BY <3>1 DEF SrsInv, RegistryOK, StateTypeOK, Live, InfoArg
    <3>3. CallOK(c)'
      BY <3>1, <3>2, EnterCall DEF SrsInv, CallsLive, CallOK, SrsCallOK, InfoStep
    <3>4. heap'[clients[a.guid]] # Free
      BY <3>2, <1>2 DEF KeepsHeap
    <3> QED
      BY <1>2, <3>1, <3>3, <3>4, MoveLive DEF SrsInv, Enter, SrsStep, InfoStep
  <2>2. CASE UpdateRadioInfo(c)
    <3>1. PICK a \in RadioArg : Enter(c, "writeRadio", a, NoLocal)
      BY <2>2 DEF UpdateRadioInfo, EnterAuthorized
    <3>2. CallOK(c)'
      BY <3>1, EnterCall DEF SrsInv, CallsLive, CallOK, SrsCallOK
    <3> QED
      BY <1>2, <3>1, <3>2, MoveLive DEF SrsInv, Enter, SrsStep, InfoStep
  <2>3. CASE Disconnect(c)
    <3>1. PICK g \in Guid : Enter(c, "cleanup", [guid |-> g], NoLocal)
      BY <2>3 DEF Disconnect, EnterAuthorized
    <3>2. CallOK(c)'
      BY <3>1, EnterCall DEF SrsInv, CallsLive, CallOK, SrsCallOK, PlainArg
    <3> QED
      BY <1>2, <3>1, <3>2, MoveLive DEF SrsInv, Enter, SrsStep, InfoStep
  <2>4. CASE SyncClient(c)
    <3>1. PICK g \in Guid : Enter(c, "syncRadio", [guid |-> g],
                                  {h \in Guid : HasRadio(h)})
      BY <2>4 DEF SyncClient, EnterAuthorized
    <3>2. CallOK(c)'
      BY <3>1, EnterCall DEF SrsInv, CallsLive, CallOK, SrsCallOK, PlainArg
    <3> QED
      BY <1>2, <3>1, <3>2, MoveLive DEF SrsInv, Enter, SrsStep, InfoStep
  <2> QED
    BY <2>1, <2>2, <2>3, <2>4
<1> QED
  BY <1>1, <1>3, SameRegistry DEF SrsInv

LEMMA ContinueType ==
  ASSUME SrsInv, NEW c \in Call, Continue(c)
  PROVE  SrsInv'
<1>1. CASE CheckCoalition(c)
  <2>1. PICK step \in {"writeCoalition", "checkRole"} : Goto(c, step, local[c])
    BY <1>1 DEF CheckCoalition
  <2>2. KeepsHeap /\ RegistryOK'
    BY <1>1, KeepsSame, SameRegistry DEF CheckCoalition, SrsInv, stateVars
  <2>3. pc[c] \in InfoStep /\ step \in InfoStep
    BY <1>1 DEF CheckCoalition, At, InfoStep
  <2>4. arg[c] \in InfoArg /\ local[c] \in Ref /\ heap'[local[c]] # Free
    BY <2>2, <2>3, InfoCall DEF SrsInv, CallsLive, HeldLive, KeepsHeap
  <2>5. CallOK(c)'
    BY <2>1, <2>3, <2>4, GotoCall DEF SrsInv, CallsLive, CallOK, SrsCallOK
  <2>6. CallsLive'
    BY <2>1, <2>2, <2>3, <2>4, <2>5, GotoCall, MoveLive
    DEF SrsInv, CallsLive, Goto, SrsStep, InfoStep
  <2> QED
    BY <2>2, <2>6 DEF SrsInv
<1>2. CASE WriteCoalition(c)
  <2>1. pc[c] \in InfoStep
    BY <1>2 DEF WriteCoalition, At, InfoStep
  <2>2. arg[c] \in InfoArg /\ local[c] \in Ref /\ heap[local[c]] # Free
    BY <2>1, InfoCall DEF SrsInv, CallsLive, HeldLive
  <2>3. RegistryOK' /\ \A q \in Ref : heap[q] # Free => heap'[q] # Free
    BY <1>2, <2>2, RegistryWrite DEF SrsInv, WriteCoalition, InfoArg
  <2>4. KeepsHeap
    BY <2>3 DEF KeepsHeap
  <2>5. CallOK(c)'
    BY <1>2, <2>2, GotoCall
    DEF WriteCoalition, SrsInv, CallsLive, CallOK, SrsCallOK, InfoStep
  <2>6. CallsLive'
    BY <1>2, <2>2, <2>3, <2>4, <2>5, GotoCall, MoveLive
    DEF WriteCoalition, SrsInv, CallsLive, Goto, SrsStep, InfoStep
  <2> QED
    BY <2>3, <2>6 DEF SrsInv
<1>3. CASE CheckRole(c)
  <2>1. KeepsHeap /\ RegistryOK'
    BY <1>3, KeepsSame, SameRegistry DEF CheckRole, SrsInv, stateVars
  <2>2. CASE Goto(c, "writeRole", local[c])
    <3>1. arg[c] \in InfoArg /\ local[c] \in Ref /\ heap[local[c]] # Free
      BY <1>3, InfoCall DEF SrsInv, CallsLive, HeldLive, CheckRole, At, InfoStep
    <3>2. CallOK(c)'
      BY <2>2, <3>1, GotoCall DEF SrsInv, CallsLive, CallOK, SrsCallOK, InfoStep
    <3>3. CallsLive'
      BY <2>1, <2>2, <3>1, <3>2, GotoCall, MoveLive
      DEF SrsInv, CallsLive, Goto, SrsStep, InfoStep, KeepsHeap
    <3> QED
      BY <2>1, <3>3 DEF SrsInv
  <2>3. CASE Reply(c)
    BY <2>1, <2>3, EndLive DEF SrsInv
  <2> QED
    BY <1>3, <2>2, <2>3 DEF CheckRole
<1>4. CASE WriteRole(c)
  <2>1. pc[c] \in InfoStep
    BY <1>4 DEF WriteRole, At, InfoStep
  <2>2. local[c] \in Ref /\ heap[local[c]] # Free /\ uint8(arg[c].roleId) \in Role
    BY <2>1, InfoCall DEF SrsInv, CallsLive, HeldLive
  <2>3. RegistryOK' /\ \A q \in Ref : heap[q] # Free => heap'[q] # Free
    BY <1>4, <2>2, RegistryWrite DEF SrsInv, WriteRole
  <2>4. CallsLive'
    BY <1>4, <2>3, EndLive DEF SrsInv, WriteRole, KeepsHeap
  <2> QED
    BY <2>3, <2>4 DEF SrsInv
<1>5. CASE WriteRadio(c)
  <2>1. arg[c].guid \in Guid /\ arg[c].radio \in RadioState
    BY <1>5, PlainCall, RadioInputAssumption
    DEF SrsInv, CallsLive, WriteRadio, At, RadioArg
  <2>2. RegistryOK'
    BY <1>5, <2>1, RegistryRadio DEF SrsInv, RegistryOK, StateTypeOK, WriteRadio
  <2>3. CallsLive'
    BY <1>5, KeepsSame, EndLive DEF SrsInv, WriteRadio
  <2> QED
    BY <2>2, <2>3 DEF SrsInv
<1>6. CASE Cleanup(c)
  <2>1. arg[c].guid \in Guid
    BY <1>6, PlainCall DEF SrsInv, CallsLive, Cleanup, At, PlainArg
  <2>2. RegistryOK'
    BY <1>6, <2>1, RegistryRadio
    DEF SrsInv, RegistryOK, StateTypeOK, Cleanup, cleanupClientState
  <2>3. CallsLive'
    BY <1>6, KeepsSame, EndLive DEF SrsInv, Cleanup, cleanupClientState
  <2> QED
    BY <2>2, <2>3 DEF SrsInv
<1>7. CASE SyncRadio(c)
  <2>1. KeepsHeap
    BY <1>7, KeepsSame DEF SyncRadio, Panic, stateVars
  <2>2. PICK g \in local[c] :
          \/ Panic /\ UNCHANGED <<callVars, settingsVars, tokens>>
          \/ /\ Goto(c, "syncRadio", local[c] \ {g})
             /\ UNCHANGED <<stateVars, settingsVars, tokens>>
    BY <1>7 DEF SyncRadio
  <2>3. CASE Panic /\ UNCHANGED <<callVars, settingsVars, tokens>>
    <3>1. RegistryOK'
      BY <2>3, RegistryRadio DEF SrsInv, RegistryOK, StateTypeOK, Panic
    <3> QED
      BY <2>1, <2>3, <3>1, SameLive DEF SrsInv
  <2>4. CASE /\ Goto(c, "syncRadio", local[c] \ {g})
             /\ UNCHANGED <<stateVars, settingsVars, tokens>>
    <3>1. arg[c] \in PlainArg /\ local[c] \in SUBSET Guid
      BY <1>7, PlainCall DEF SrsInv, CallsLive, SyncRadio, At
    <3>2. CallOK(c)'
      BY <2>4, <3>1, GotoCall DEF SrsInv, CallsLive, CallOK, SrsCallOK
    <3>3. CallsLive'
      BY <2>1, <2>4, <3>2, GotoCall, MoveLive
      DEF SrsInv, CallsLive, Goto, SrsStep, InfoStep
    <3> QED
      BY <2>4, <3>3, SameRegistry DEF SrsInv
  <2> QED
    BY <2>2, <2>3, <2>4
<1>8. CASE SyncReply(c)
  BY <1>8, KeepsSame, EndLive, SameRegistry
  DEF SyncReply, SrsInv, stateVars
<1> QED
  BY <1>1, <1>2, <1>3, <1>4, <1>5, <1>6, <1>7, <1>8 DEF Continue

LEMMA AdminType ==
  ASSUME SrsInv,
         \/ \E g \in Guid : KickClient(g) \/ MuteClient(g) \/ UnmuteClient(g)
         \/ SubscribeToUpdates \/ BanClient
         \/ EditCoalitions
  PROVE  SrsInv'
<1>1. UNCHANGED heap /\ UNCHANGED callVars
  BY DEF KickClient, MuteClient, UnmuteClient, SetMuted, SubscribeToUpdates,
         BanClient, Panic, EditCoalitions, stateVars
<1>2. CallsLive'
  BY <1>1, KeepsSame, SameLive DEF SrsInv
<1>3. RegistryOK'
  <2>1. ASSUME NEW g \in Guid, KickClient(g) PROVE RegistryOK'
    BY <2>1, RegistryRadio DEF SrsInv, RegistryOK, StateTypeOK, KickClient
  <2>2. ASSUME NEW g \in Guid, NEW m \in BOOLEAN, SetMuted(g, m)
        PROVE  RegistryOK'
    <3>1. [radios[g] EXCEPT !.muted = m] \in RadioState
      BY <2>2 DEF SrsInv, RegistryOK, StateTypeOK, SetMuted, HasRadio, RadioState
    <3> QED
      BY <2>2, <3>1, RegistryRadio DEF SrsInv, RegistryOK, StateTypeOK, SetMuted
  <2>3. ASSUME SubscribeToUpdates \/ BanClient PROVE RegistryOK'
    BY <2>3, RegistryRadio
    DEF SrsInv, RegistryOK, StateTypeOK, SubscribeToUpdates, BanClient, Panic
  <2>4. ASSUME EditCoalitions PROVE RegistryOK'
    <3>1. PICK k \in Coalition : AddCoalition(k) \/ RemoveCoalition(k)
      BY <2>4 DEF EditCoalitions, SettingsNext
    <3>2. Remove(coalitions, k) \in Seq(Coalition)
      BY RemoveType DEF SrsInv, RegistryOK, SettingsTypeOK
    <3>3. /\ coalitions \in Seq(Coalition) /\ configured \in SUBSET Coalition
          /\ coalitions' \in {Append(coalitions, k), Remove(coalitions, k)}
          /\ configured' \in {configured, configured \cup {k}}
      BY <3>1 DEF SrsInv, RegistryOK, SettingsTypeOK, AddCoalition, RemoveCoalition
    <3>4. Append(coalitions, k) \in Seq(Coalition)
      BY <3>3
    <3>5. SettingsTypeOK'
      BY <3>2, <3>3, <3>4 DEF SettingsTypeOK
    <3> QED
      BY <2>4, <3>5
      DEF SrsInv, RegistryOK, StateTypeOK, Live, EditCoalitions, stateVars
  <2> QED
    BY <2>1, <2>2, <2>3, <2>4 DEF MuteClient, UnmuteClient
<1> QED
  BY <1>2, <1>3 DEF SrsInv

LEMMA StartType ==
  ASSUME TypeInv, NEW c \in Call,
         InitAuth(c) \/ GuestLogin(c) \/ Login(c) \/ UnitSelect(c)
  PROVE  TypeInv'
<1>1. UNCHANGED <<authVars, stateVars, settingsVars, tokens>>
  BY DEF InitAuth, GuestLogin, Login, UnitSelect, StartCall
<1>2. Keeps
  BY <1>1, KeepsSame DEF stateVars, authVars
<1>3. PICK step, a :
        /\ Enter(c, step, a, NoLocal)
        /\ \/ step = "initPurge" /\ a \in InitArg
           \/ step = "guestPurge" /\ a \in GuestArg
           \/ step = "loginPurge" /\ a \in LoginArg
           \/ step = "unitEntry" /\ a \in UnitArg
  BY DEF InitAuth, GuestLogin, Login, UnitSelect, StartCall
<1>4. CallOK(c)'
  BY <1>3, EnterCall
  DEF TypeInv, CallsOK, CallsLive, CallOK, AuthCallOK, GuestStep, LoginStep, UnitStep
<1>5. CallsOK'
  BY <1>2, <1>3, <1>4, MoveCall
  DEF TypeInv, Enter, AuthStep, GuestStep, LoginStep, UnitStep, InfoStep
<1> QED
  BY <1>1, <1>5, SameRegistry, SameAuth DEF TypeInv

\* A step of an authentication call that goes on to a step of its handler.
LEMMA AuthGoto ==
  ASSUME CallsOK, Keeps, NEW c \in Call, NEW step, NEW l, Goto(c, step, l),
         \/ /\ step = "initStore" /\ pc[c] = "initPurge" /\ l = NoLocal
         \/ /\ step \in GuestStep /\ pc[c] \in GuestStep
            /\ IF step = "guestAdd" THEN l \in Coalition ELSE l = NoLocal
         \/ /\ step \in LoginStep /\ pc[c] \in LoginStep
            /\ IF step = "loginStore" THEN l \in Secret /\ grants'[l] # NoGrant
                                      ELSE l = NoLocal
         \/ /\ step \in UnitStep /\ pc[c] \in UnitStep /\ l = NoLocal
  PROVE  CallsOK'
<1>1. CallOK(c)'
  BY AuthCall, GotoCall
  DEF CallsOK, CallsLive, CallOK, AuthCallOK, GuestStep, LoginStep, UnitStep
<1>2. /\ step \in AuthStep /\ step \notin InfoStep
      /\ step = "loginStore" => grants'[l] # NoGrant
  BY DEF AuthStep, GuestStep, LoginStep, UnitStep, InfoStep
<1>3. arg' = [arg EXCEPT ![c] = arg[c]]
  BY GotoCall DEF CallsOK, CallsLive
<1> QED
  BY <1>1, <1>2, <1>3, MoveCall DEF Goto

LEMMA PurgeType ==
  ASSUME TypeInv, NEW c \in Call,
         InitPurge(c) \/ GuestPurge(c) \/ LoginPurge(c)
  PROVE  TypeInv'
<1>1. /\ auth' = [g \in Guid |-> IF auth[g] # NoEntry /\ auth[g].expired
                                 THEN NoEntry ELSE auth[g]]
      /\ UNCHANGED <<mu, issued, grants, stateVars, settingsVars, tokens>>
  BY DEF InitPurge, GuestPurge, LoginPurge, Purge
<1>2. AuthPartOK'
  BY <1>1 DEF TypeInv, AuthPartOK
<1>3. Keeps
  BY <1>1, KeepsSame DEF stateVars
<1>4. CallsOK'
  BY <1>3, AuthGoto
  DEF TypeInv, InitPurge, GuestPurge, LoginPurge, Purge, MuStep, At,
      GuestStep, LoginStep
<1> QED
  BY <1>1, <1>2, <1>4, SameRegistry DEF TypeInv

LEMMA TokenType ==
  ASSUME TypeInv, NEW c \in Call, GuestToken(c) \/ UnitToken(c)
  PROVE  TypeInv'
<1>1. /\ Reply(c) /\ UNCHANGED <<authVars, stateVars, settingsVars>>
      /\ tokens' \in {tokens, tokens \cup {arg[c].guid}}
  BY DEF GuestToken, UnitToken, Token
<1>2. arg[c].guid \in Guid
  BY AuthCall DEF TypeInv, CallsOK, CallsLive, GuestToken, UnitToken, Token, At, GuestStep,
                  UnitStep, GuestArg, UnitArg
<1>3. RegistryOK'
  BY <1>1, <1>2 DEF TypeInv, RegistryOK, StateTypeOK, SettingsTypeOK, Live,
                    stateVars, settingsVars
<1>4. CallsOK'
  BY <1>1, KeepsSame, EndCall DEF TypeInv, stateVars, authVars
<1> QED
  BY <1>1, <1>3, <1>4, SameAuth DEF TypeInv

\* The steps that read the registry or the entries and decide how to go on.
LEMMA DecideType ==
  ASSUME TypeInv, NEW c \in Call,
         \/ GuestEntry(c) \/ GuestMatch(c)
         \/ LoginEntry(c) \/ LoginPlugin(c)
         \/ UnitEntry(c) \/ UnitCoalition(c)
  PROVE  TypeInv'
<1>1. /\ UNCHANGED <<auth, issued, grants, stateVars, settingsVars, tokens>>
      /\ mu' \in {mu, "free", "leaked"}
  BY DEF GuestEntry, GuestMatch, LoginEntry, LoginPlugin, UnitEntry,
         UnitCoalition, authVars
<1>2. AuthPartOK' /\ RegistryOK'
  BY <1>1, SameRegistry DEF TypeInv, AuthPartOK
<1>3. Keeps
  BY <1>1, KeepsSame DEF stateVars
<1>4. CASE Reply(c)
  BY <1>2, <1>3, <1>4, EndCall DEF TypeInv
<1>5. CASE ~Reply(c)
  <2>1. ASSUME GuestEntry(c) PROVE CallsOK'
    BY <1>3, <1>5, <2>1, AuthGoto DEF TypeInv, GuestEntry, MuStep, At, GuestStep
  <2>2. ASSUME GuestMatch(c) PROVE CallsOK'
    <3> DEFINE found == Matching(arg[c].password)
               first == CHOOSE i \in found : \A j \in found : i <= j
    <3>1. /\ found # {} /\ pc[c] = "guestMatch"
          /\ Goto(c, "guestAdd", coalitions[first])
      BY <1>5, <2>2 DEF GuestMatch, MuStep, At
    <3>2. first \in DOMAIN coalitions
      <4>1. found \subseteq 1 .. Len(coalitions) /\ Len(coalitions) \in Nat
        BY DEF Matching, TypeInv, RegistryOK, SettingsTypeOK
      <4>2. \E i \in found : \A j \in found : i <= j
        BY <3>1, <4>1, LeastIndex
      <4> QED
        BY <4>2 DEF Matching
    <3>3. coalitions[first] \in Coalition
      BY <3>2 DEF TypeInv, RegistryOK, SettingsTypeOK
    <3> QED
      BY <1>3, <3>1, <3>3, AuthGoto DEF TypeInv, GuestStep
  <2>3. ASSUME LoginEntry(c) \/ LoginPlugin(c) PROVE CallsOK'
    BY <1>3, <1>5, <2>3, AuthGoto
    DEF TypeInv, LoginEntry, LoginPlugin, MuStep, At, LoginStep
  <2>4. ASSUME UnitEntry(c) \/ UnitCoalition(c) PROVE CallsOK'
    BY <1>3, <1>5, <2>4, AuthGoto
    DEF TypeInv, UnitEntry, UnitCoalition, MuStep, At, UnitStep
  <2> QED
    BY <1>2, <2>1, <2>2, <2>3, <2>4 DEF TypeInv
<1> QED
  BY <1>4, <1>5

\* The steps that add a client.
LEMMA AddType ==
  ASSUME TypeInv, NEW c \in Call, GuestAdd(c) \/ UnitAdd(c)
  PROVE  TypeInv'
<1>1. UNCHANGED <<authVars, settingsVars, tokens>>
  BY DEF GuestAdd, UnitAdd
<1>2. PICK g \in Guid, k \in Coalition, role \in Role, r \in Ref :
        AddClientAt(r, g, k, role)
  <2>1. CASE GuestAdd(c)
    <3>1. arg[c].guid \in Guid /\ local[c] \in Coalition
      BY <2>1, AuthCall DEF TypeInv, CallsOK, CallsLive, GuestAdd, At, GuestStep, GuestArg
    <3> QED
      BY <2>1, <3>1, RoleFacts DEF GuestAdd, AddClient
  <2>2. CASE UnitAdd(c)
    <3>1. arg[c].guid \in Guid /\ arg[c].coalition \in Coalition
          /\ uint8(arg[c].roleId) \in Role
      BY <2>2, AuthCall, RoleFacts
      DEF TypeInv, CallsOK, CallsLive, UnitAdd, At, UnitStep, UnitArg
    <3> QED
      BY <2>2, <3>1 DEF UnitAdd, AddClient
  <2> QED
    BY <2>1, <2>2
<1>3. RegistryOK'
  <2>1. tokens' \in SUBSET Guid
    BY <1>1 DEF TypeInv, RegistryOK
  <2> QED
    BY <1>1, <1>2, <2>1, RegistryAdd DEF TypeInv
<1>4. Keeps
  BY <1>1, <1>2, SentinelAssumption
  DEF TypeInv, RegistryOK, StateTypeOK, Keeps, KeepsHeap, AddClientAt, authVars,
      ClientState
<1>5. CallsOK'
  BY <1>4, AuthGoto DEF TypeInv, GuestAdd, UnitAdd, At, GuestStep, UnitStep
<1> QED
  BY <1>1, <1>3, <1>5, SameAuth DEF TypeInv

\* The steps that write an entry and leave the grants alone.
LEMMA EntryType ==
  ASSUME TypeInv, NEW c \in Call, InitStore(c) \/ LoginStore(c) \/ UnitDelete(c)
  PROVE  TypeInv'
<1>1. /\ UNCHANGED <<mu, grants, stateVars, settingsVars, tokens>>
      /\ RegistryOK'
  BY SameRegistry DEF InitStore, LoginStore, UnitDelete, TypeInv
<1>2. Keeps
  BY <1>1, KeepsSame DEF stateVars
<1>3. CallsOK'
  <2>1. CASE Reply(c)
    BY <1>2, <2>1, EndCall DEF TypeInv
  <2>2. CASE UnitDelete(c)
    BY <1>2, <2>2, AuthGoto DEF TypeInv, UnitDelete, MuStep, At, UnitStep
  <2> QED
    BY <2>1, <2>2 DEF InitStore, LoginStore
<1>4. AuthPartOK'
  <2>1. ASSUME NEW g \in Guid, NEW e \in Entry \cup {NoEntry},
               auth' = [auth EXCEPT ![g] = e]
        PROVE  auth' \in [Guid -> Entry \cup {NoEntry}]
    BY <2>1 DEF TypeInv, AuthPartOK
  <2>2. CASE InitStore(c)
    <3>1. [secret |-> EmptyString, roles |-> {}, expired |-> FALSE] \in Entry
      BY DEF Entry
    <3> QED
      BY <1>1, <2>1, <2>2, <3>1 DEF InitStore, TypeInv, AuthPartOK
  <2>3. CASE LoginStore(c)
    <3>1. arg[c].guid \in Guid /\ local[c] \in Secret /\ grants[local[c]] # NoGrant
      BY <2>3, AuthCall DEF TypeInv, CallsOK, CallsLive, HeldGrant, LoginStore, MuStep, At,
                            LoginStep, LoginArg
    <3>2. grants[local[c]].roles \in SUBSET Role
      BY <3>1 DEF TypeInv, AuthPartOK, Grant
    <3>3. [secret |-> local[c], roles |-> grants[local[c]].roles,
           expired |-> FALSE] \in Entry
      BY <3>1, <3>2 DEF Entry
    <3> QED
      BY <1>1, <2>1, <2>3, <3>1, <3>3 DEF LoginStore, TypeInv, AuthPartOK
  <2>4. CASE UnitDelete(c)
    <3>1. arg[c].guid \in Guid
      BY <2>4, AuthCall DEF TypeInv, CallsOK, CallsLive, UnitDelete, MuStep, At, UnitStep,
                            UnitArg
    <3> QED
      BY <1>1, <2>1, <2>4, <3>1 DEF UnitDelete, TypeInv, AuthPartOK
  <2> QED
    BY <2>2, <2>3, <2>4
<1> QED
  BY <1>1, <1>3, <1>4 DEF TypeInv

LEMMA LoginCallType ==
  ASSUME TypeInv, NEW c \in Call, LoginCall(c)
  PROVE  TypeInv'
<1>1. UNCHANGED <<auth, mu, issued, settingsVars, tokens>>
  BY DEF LoginCall
<1>2. CASE Reply(c) /\ UNCHANGED <<grants, stateVars>>
  BY <1>1, <1>2, KeepsSame, EndCall, SameRegistry
  DEF TypeInv, AuthPartOK, stateVars
<1>3. ASSUME NEW s \in Secret, NEW ids \in SUBSET RoleId,
             grants[s] = NoGrant,
             grants' = [grants EXCEPT ![s] =
                [guid |-> arg[c].guid, roles |-> {uint8(id) : id \in ids}]],
             Goto(c, "loginStore", s),
             UNCHANGED stateVars
      PROVE  TypeInv'
  <2> DEFINE new == [guid |-> arg[c].guid, roles |-> {uint8(id) : id \in ids}]
  <2>1. pc[c] \in LoginStep /\ arg[c].guid \in Guid
    BY AuthCall DEF TypeInv, CallsOK, CallsLive, LoginCall, At, LoginStep, LoginArg
  <2>2. new \in Grant
    BY <2>1, RoleFacts DEF Grant
  <2>3. new # NoGrant
    BY <2>2, GrantAssumption
  <2>4. AuthPartOK'
    BY <1>1, <1>3, <2>2 DEF TypeInv, AuthPartOK
  <2>5. Keeps /\ grants'[s] # NoGrant
    BY <1>3, <2>3 DEF TypeInv, AuthPartOK, Keeps, KeepsHeap, stateVars
  <2>6. CallsOK'
    BY <1>3, <2>1, <2>5, AuthGoto DEF TypeInv, LoginStep
  <2> QED
    BY <1>1, <1>3, <2>4, <2>6, SameRegistry DEF TypeInv
<1>4. CASE Panic /\ UNCHANGED <<grants, callVars>>
  <2>1. RegistryOK'
    BY <1>1, <1>4, RegistryRadio DEF TypeInv, RegistryOK, StateTypeOK, Panic
  <2> QED
    BY <1>1, <1>4, <2>1, KeepsSame, SameCalls DEF TypeInv, AuthPartOK, Panic
<1> QED
  BY <1>2, <1>3, <1>4 DEF LoginCall

LEMMA ExpireType ==
  ASSUME TypeInv, NEW g \in Guid, Expire(g)
  PROVE  TypeInv'
<1>1. UNCHANGED <<mu, issued, grants, stateVars, settingsVars, tokens, callVars>>
  BY DEF Expire, rpcVars, stateVars, settingsVars, callVars
<1>2. [auth[g] EXCEPT !.expired = TRUE] \in Entry
  BY DEF Expire, TypeInv, AuthPartOK, Entry
<1>3. AuthPartOK'
  BY <1>1, <1>2 DEF Expire, TypeInv, AuthPartOK
<1> QED
  BY <1>1, <1>3, KeepsSame, SameCalls, SameRegistry DEF TypeInv, stateVars

LEMMA RebootLive ==
  ASSUME SrsInv, Reboot
  PROVE  SrsInv'
<1>1. RegistryOK'
  BY DEF Reboot, SrsInv, RegistryOK, StateTypeOK, SettingsTypeOK, Live
<1>2. CallsLive'
  BY DEF Reboot, CallsLive, CallTypeOK, CallOK, IdleCallOK, HeldLive, InfoStep
<1> QED
  BY <1>1, <1>2 DEF SrsInv

LEMMA RebootType ==
  ASSUME TypeInv, AuthReboot
  PROVE  TypeInv'
<1>1. SrsInv'
  BY RebootLive DEF AuthReboot, TypeInv, CallsOK, SrsInv
<1>2. AuthPartOK'
  BY DEF AuthReboot, TypeInv, AuthPartOK
<1>3. HeldGrant'
  BY DEF AuthReboot, Reboot, HeldGrant
<1> QED
  BY <1>1, <1>2, <1>3 DEF TypeInv, CallsOK, SrsInv

LEMMA SrsInvInit == StateInit /\ SettingsInit /\ RpcInit => SrsInv
<1> SUFFICES ASSUME StateInit, SettingsInit, RpcInit PROVE SrsInv
  OBVIOUS
<1>1. SettingsTypeOK
  <2>1. coalitions \in Seq(Coalition)
    <3>1. \A k \in Coalition : <<k>> \in Seq(Coalition)
      OBVIOUS
    <3>2. <<>> \in Seq(Coalition)
      OBVIOUS
    <3>3. coalitions \in {<<>>} \cup {<<k>> : k \in Coalition}
      BY DEF SettingsInit
    <3> QED
      BY <3>1, <3>2, <3>3, Zenon
  <2>2. configured = {coalitions[i] : i \in DOMAIN coalitions}
    BY DEF SettingsInit, Names
  <2> QED
    BY <2>1, <2>2 DEF SettingsTypeOK
<1>2. RegistryOK
  BY <1>1 DEF StateInit, RpcInit, RegistryOK, StateTypeOK, Live
<1>3. CallsLive
  BY DEF RpcInit, CallsLive, CallTypeOK, CallOK, IdleCallOK, HeldLive, InfoStep
<1> QED
  BY <1>2, <1>3 DEF SrsInv

LEMMA TypeInvInit == ControlInit => TypeInv
<1>1. AuthInit => SrsInv /\ HeldGrant /\ AuthPartOK
  BY SrsInvInit DEF AuthInit, RpcInit, HeldGrant, AuthPartOK
<1> QED
  BY <1>1 DEF ControlInit, TypeInv, CallsOK, SrsInv

-----------------------------------------------------------------------------
(* The services, each by itself and together *)

LEMMA SrsCallsType == SrsInv /\ SrsCalls => SrsInv'
  BY EnterSrsType, ContinueType, AdminType DEF SrsCalls

\* A call that a service moves is at one of its steps, or answered.
MovesTo(steps) ==
  \A d \in Call : \/ pc'[d] = pc[d] /\ local'[d] = local[d]
                  \/ pc'[d] \in steps \cup {"idle"}

LEMMA OneMove ==
  ASSUME CallTypeOK, NEW c \in Call, NEW p, NEW l, NEW steps, p \in steps \cup {"idle"},
         pc' = [pc EXCEPT ![c] = p], local' = [local EXCEPT ![c] = l]
  PROVE  MovesTo(steps)
<1>1. ASSUME NEW d \in Call PROVE d = c \/ (pc'[d] = pc[d] /\ local'[d] = local[d])
  BY DEF CallTypeOK
<1>2. pc'[c] = p
  BY DEF CallTypeOK
<1> QED
  BY <1>1, <1>2 DEF MovesTo

LEMMA NoMove ==
  ASSUME UNCHANGED <<pc, local>>, NEW steps
  PROVE  MovesTo(steps)
  BY DEF MovesTo

LEMMA SrsMoves ==
  ASSUME CallTypeOK, SrsCalls
  PROVE  MovesTo(SrsStep)
<1>1. ASSUME NEW c \in Call,
             \/ UpdateClientInfo(c) \/ UpdateRadioInfo(c) \/ Disconnect(c) \/ SyncClient(c)
      PROVE  \E l : \E p \in SrsStep : /\ pc' = [pc EXCEPT ![c] = p]
                                   /\ local' = [local EXCEPT ![c] = l]
  BY <1>1 DEF UpdateClientInfo, UpdateRadioInfo, Disconnect, SyncClient,
              EnterAuthorized, Enter, SrsStep, InfoStep
<1>2. ASSUME NEW c \in Call, Continue(c), ~UNCHANGED <<pc, local>>
      PROVE  \E l : \E p \in SrsStep \cup {"idle"} : /\ pc' = [pc EXCEPT ![c] = p]
                                                 /\ local' = [local EXCEPT ![c] = l]
  BY <1>2 DEF Continue, CheckCoalition, WriteCoalition, CheckRole, WriteRole, WriteRadio,
              Cleanup, SyncRadio, SyncReply, Goto, Reply, callVars, SrsStep, InfoStep
<1>3. ASSUME \/ \E g \in Guid : KickClient(g) \/ MuteClient(g) \/ UnmuteClient(g)
             \/ SubscribeToUpdates \/ BanClient \/ EditCoalitions
      PROVE  UNCHANGED <<pc, local>>
  BY <1>3 DEF KickClient, MuteClient, UnmuteClient, SetMuted, SubscribeToUpdates, BanClient,
              EditCoalitions, callVars
<1> QED
  BY <1>1, <1>2, <1>3, OneMove, NoMove DEF SrsCalls

LEMMA AuthMoves ==
  ASSUME CallTypeOK, AuthCalls
  PROVE  MovesTo(AuthStep)
<1>1. ASSUME NEW c \in Call, InitAuth(c) \/ GuestLogin(c) \/ Login(c) \/ UnitSelect(c)
      PROVE  \E l : \E p \in AuthStep : /\ pc' = [pc EXCEPT ![c] = p]
                                    /\ local' = [local EXCEPT ![c] = l]
  BY <1>1 DEF InitAuth, GuestLogin, Login, UnitSelect, StartCall, Enter, AuthStep,
              GuestStep, LoginStep, UnitStep
<1>2. ASSUME NEW c \in Call, ContinueAuth(c), ~UNCHANGED <<pc, local>>
      PROVE  \E l : \E p \in AuthStep \cup {"idle"} : /\ pc' = [pc EXCEPT ![c] = p]
                                                  /\ local' = [local EXCEPT ![c] = l]
  <2>1. \/ Reply(c)
        \/ \E l : \E p \in AuthStep : Goto(c, p, l)
    BY <1>2 DEF ContinueAuth, InitPurge, InitStore, GuestPurge, GuestEntry, GuestMatch,
                GuestAdd, GuestToken, LoginPurge, LoginEntry, LoginPlugin, LoginCall,
                LoginStore, UnitEntry, UnitCoalition, UnitAdd, UnitDelete, UnitToken,
                Purge, Token, callVars, AuthStep, GuestStep, LoginStep, UnitStep
  <2> QED
    BY <2>1 DEF Goto, Reply
<1>3. ASSUME NEW g \in Guid, Expire(g) PROVE UNCHANGED <<pc, local>>
  BY <1>3 DEF Expire, rpcVars
<1> QED
  BY <1>1, <1>2, <1>3, OneMove, NoMove DEF AuthCalls

LEMMA TypeInvStep == TypeInv /\ [ControlNext]_vars => TypeInv'
<1> SUFFICES ASSUME TypeInv, [ControlNext]_vars PROVE TypeInv'
  OBVIOUS
<1>1. CASE SrsCalls /\ UNCHANGED authVars
  <2>1. SrsInv' /\ AuthPartOK'
    BY <1>1, SrsCallsType, SameAuth DEF TypeInv, CallsOK, SrsInv
  <2>2. HeldGrant'
    <3>1. MovesTo(SrsStep)
      BY <1>1, SrsMoves DEF TypeInv, CallsOK, CallsLive
    <3> QED
      BY <1>1, <3>1 DEF MovesTo, TypeInv, CallsOK, HeldGrant, authVars, SrsStep, InfoStep
  <2> QED
    BY <2>1, <2>2 DEF TypeInv, CallsOK, SrsInv
<1>2. CASE AuthCalls
  BY <1>2, StartType, PurgeType, TokenType, DecideType, AddType, EntryType,
     LoginCallType, ExpireType
  DEF AuthCalls, ContinueAuth
<1>3. CASE AuthReboot
  BY <1>3, RebootType
<1>4. CASE UNCHANGED vars
  BY <1>4, KeepsSame, SameCalls, SameRegistry, SameAuth
  DEF TypeInv, vars, rpcVars, authVars, stateVars, settingsVars, callVars
<1> QED
  BY <1>1, <1>2, <1>3, <1>4 DEF ControlNext

\* Every variable of the control server keeps its type, pointers never dangle
\* and no freed object is written, whatever calls interleave.
THEOREM ControlTypes == ControlSpec => []ControlTypeOK
<1>1. TypeInv => ControlTypeOK
  BY DEF TypeInv, RegistryOK, CallsOK, CallsLive, CallTypeOK, AuthPartOK, CallOK,
         ControlTypeOK
<1> QED
  BY <1>1, TypeInvInit, TypeInvStep, PTL DEF ControlSpec

SrsOnly == \A c \in Call : pc[c] \in SrsStep \cup {"idle"}

\* The same of SrsService by itself, whatever clients the other service adds: a
\* handler of UpdateClientInfo never holds a pointer to a freed object.
THEOREM SrsTypes == SrsSpec => []SrsTypeOK
<1>1. SrsInit => SrsInv /\ SrsOnly
  BY SrsInvInit DEF SrsInit, RpcInit, SrsOnly
<1>2. ASSUME SrsInv, SrsOnly, [SrsNext]_rpcVars PROVE SrsInv' /\ SrsOnly'
  <2>1. CASE SrsCalls
    <3>1. MovesTo(SrsStep)
      BY <2>1, <1>2, SrsMoves DEF SrsInv, CallsLive
    <3> QED
      BY <1>2, <2>1, <3>1, SrsCallsType DEF MovesTo, SrsOnly
  <2>2. CASE Reboot
    BY <1>2, <2>2, RebootLive DEF Reboot, SrsOnly
  <2>3. ASSUME NEW g \in Guid, Join(g) PROVE SrsInv' /\ SrsOnly'
    <3>1. PICK k \in Names(coalitions), id \in RoleId, r \in Ref :
            AddClientAt(r, g, k, uint8(id))
      BY <2>3 DEF Join, AddClient
    <3>2. k \in Coalition /\ uint8(id) \in Role
      BY <1>2, RoleFacts DEF SrsInv, RegistryOK, SettingsTypeOK, Names
    <3>3. tokens' = tokens \cup {g} /\ UNCHANGED <<callVars, settingsVars>>
      BY <2>3 DEF Join
    <3>4. RegistryOK'
      <4>1. tokens' \in SUBSET Guid
        BY <1>2, <3>3 DEF SrsInv, RegistryOK
      <4> QED
        BY <1>2, <3>1, <3>2, <3>3, <4>1, RegistryAdd DEF SrsInv
    <3>5. KeepsHeap
      BY <1>2, <3>1, <3>2, SentinelAssumption
      DEF SrsInv, RegistryOK, StateTypeOK, KeepsHeap, AddClientAt, ClientState
    <3> QED
      BY <1>2, <3>3, <3>4, <3>5, SameLive DEF SrsInv, SrsOnly, callVars
  <2>4. CASE UNCHANGED rpcVars
    BY <1>2, <2>4, KeepsSame, SameLive, SameRegistry
    DEF SrsInv, SrsOnly, rpcVars, stateVars, settingsVars, callVars
  <2> QED
    BY <1>2, <2>1, <2>2, <2>3, <2>4 DEF SrsNext
<1>3. SrsInv /\ SrsOnly => SrsTypeOK
  BY DEF SrsInv, SrsOnly, RegistryOK, CallsLive, CallTypeOK, CallOK, SrsTypeOK,
         AuthCallOK, SrsStep, InfoStep, GuestStep, LoginStep, UnitStep
<1> QED
  BY <1>1, <1>2, <1>3, PTL DEF SrsSpec

AuthOnly == \A c \in Call : pc[c] \in AuthStep \cup {"idle"}

\* And of AuthServer by itself, whatever clients leave meanwhile: the secret a
\* login is about to store is one that was generated for it.
THEOREM AuthTypes == AuthSpec => []AuthTypeOK
<1>1. AuthInit => TypeInv /\ AuthOnly
  BY TypeInvInit DEF ControlInit, AuthInit, RpcInit, AuthOnly
<1>2. ASSUME TypeInv, AuthOnly, [AuthNext]_vars PROVE TypeInv' /\ AuthOnly'
  <2>1. CASE AuthCalls
    <3>1. MovesTo(AuthStep)
      BY <1>2, <2>1, AuthMoves DEF TypeInv, CallsOK, CallsLive
    <3>2. TypeInv'
      BY <1>2, <2>1, TypeInvStep DEF ControlNext
    <3> QED
      BY <1>2, <3>1, <3>2 DEF MovesTo, AuthOnly
  <2>2. CASE EditCoalitions /\ UNCHANGED authVars
    <3>1. TypeInv'
      BY <1>2, <2>2, TypeInvStep DEF ControlNext, SrsCalls
    <3> QED
      BY <1>2, <2>2, <3>1 DEF EditCoalitions, callVars, AuthOnly
  <2>3. ASSUME NEW g \in Guid, Leave(g) PROVE TypeInv' /\ AuthOnly'
    <3>1. RegistryOK'
      BY <1>2, <2>3, RegistryRadio DEF TypeInv, RegistryOK, StateTypeOK, Leave
    <3>2. CallsOK' /\ AuthPartOK'
      BY <1>2, <2>3, KeepsSame, SameCalls, SameAuth DEF TypeInv, Leave, authVars
    <3> QED
      BY <1>2, <2>3, <3>1, <3>2 DEF TypeInv, Leave, callVars, AuthOnly
  <2>4. CASE AuthReboot
    BY <1>2, <2>4, RebootType DEF AuthReboot, Reboot, AuthOnly
  <2>5. CASE UNCHANGED vars
    <3>1. TypeInv'
      BY <1>2, <2>5, TypeInvStep
    <3> QED
      BY <1>2, <2>5, <3>1 DEF vars, rpcVars, AuthOnly
  <2> QED
    BY <1>2, <2>1, <2>2, <2>3, <2>4, <2>5 DEF AuthNext
<1>3. TypeInv /\ AuthOnly => AuthTypeOK
  BY DEF TypeInv, AuthOnly, RegistryOK, CallsOK, CallsLive, CallTypeOK, AuthPartOK, CallOK,
         AuthTypeOK, SrsCallOK, AuthStep, InfoStep, GuestStep, LoginStep, UnitStep
<1> QED
  BY <1>1, <1>2, <1>3, PTL DEF AuthSpec
=============================================================================
