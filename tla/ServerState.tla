----------------------------- MODULE ServerState -----------------------------
(***************************************************************************)
(* state/server.go: the registry every part of the server shares.          *)
(*                                                                         *)
(* ServerState guards two Go maps with one RWMutex: Clients (client guid to *)
(* *ClientState) and RadioClients (client guid to *RadioState).  A method  *)
(* that holds the lock for its whole body is one atomic operator here; a   *)
(* handler that locks several times is several actions (SrsService,        *)
(* AuthServer, VoiceServer).                                               *)
(*                                                                         *)
(* Clients maps to POINTERS, and handlers keep a pointer after they give   *)
(* the lock back, so client objects live in a heap: a session that has     *)
(* been removed or replaced can still be written to by a call that looked  *)
(* it up earlier.                                                          *)
(*                                                                         *)
(* Abstracted: names, unit ids and LastUpdate (no property tells them      *)
(* apart), radio ids and names.  History: granted is the role the object   *)
(* was created with, which the code does not keep.                         *)
(***************************************************************************)
EXTENDS SettingsState

CONSTANTS
  Guid,        \* client guids
  Ref,         \* addresses of ClientState objects
  Freq,        \* radio frequencies
  RoleId,      \* the uint32 role ids that requests and plugins carry
  NoRef,       \* "guid is not a key of Clients"
  NoRadio,     \* "guid is not a key of RadioClients"
  Free         \* content of an address that was never allocated

uint8(n)   == n % 256
GuestRole  == 0
Role       == {GuestRole} \cup {uint8(id) : id \in RoleId}

ClientState == [coalition : Coalition, role : Role, granted : Role]
Radio       == [freq : Freq, enabled : BOOLEAN]
RadioState  == [radios : Seq(Radio), muted : BOOLEAN]

ASSUME RoleIdAssumption == RoleId \subseteq Nat

ASSUME SentinelAssumption ==
  /\ NoRef \notin Ref /\ NoRef \notin ClientState
  /\ NoRadio \notin RadioState
  /\ Free \notin ClientState

VARIABLES
  clients,   \* s.Clients: guid -> address, or NoRef
  heap,      \* the ClientState objects
  radios,    \* s.RadioClients: guid -> radio state, or NoRadio
  up         \* FALSE once a goroutine has panicked: grpc-go does not recover,
             \* so an unrecovered panic ends the process

stateVars == <<clients, heap, radios, up>>

StateTypeOK ==
  /\ clients \in [Guid -> Ref \cup {NoRef}]
  /\ heap \in [Ref -> ClientState \cup {Free}]
  /\ radios \in [Guid -> RadioState \cup {NoRadio}]
  /\ up \in BOOLEAN

StateInit ==
  /\ clients = [g \in Guid |-> NoRef]
  /\ heap = [r \in Ref |-> Free]
  /\ radios = [g \in Guid |-> NoRadio]
  /\ up = TRUE

DoesClientExist(g) == clients[g] # NoRef

HasRadio(g) == radios[g] # NoRadio

FreshRadio == [radios |-> <<>>, muted |-> FALSE]

\* Mutant: the radio entry is left to the client's first UpdateRadioInfo.
AddClientOnly(r, g, coalition, role) ==
  /\ heap' = [heap EXCEPT ![r] = [coalition |-> coalition,
                                  role |-> role, granted |-> role]]
  /\ clients' = [clients EXCEPT ![g] = r]
  /\ UNCHANGED <<radios, up>>

\* Mutant: a client that logs in again is written over its earlier object.
AddClientInPlace(r, g, coalition, role) ==
  LET q == IF DoesClientExist(g) THEN clients[g] ELSE r
  IN /\ heap' = [heap EXCEPT ![q] = [coalition |-> coalition,
                                     role |-> role, granted |-> role]]
     /\ clients' = [clients EXCEPT ![g] = q]
     /\ radios' = [radios EXCEPT ![g] = FreshRadio]
     /\ UNCHANGED up

\* A new object at the unused address r and a fresh, unmuted radio state, under
\* one Lock.  An earlier session of the guid is replaced, not merged.
AddClientAt(r, g, coalition, role) ==
  /\ heap' = [heap EXCEPT ![r] = [coalition |-> coalition,
                                  role |-> role, granted |-> role]]
  /\ clients' = [clients EXCEPT ![g] = r]
  /\ radios' = [radios EXCEPT ![g] = FreshRadio]
  /\ UNCHANGED up

\* The field writes handlers make through a pointer, under the Lock.
WriteClient(r, field, value) ==
  /\ heap' = [heap EXCEPT ![r] = [@ EXCEPT ![field] = value]]
  /\ UNCHANGED <<clients, radios, up>>

\* Mutant: one radio that is off silences the others on its frequency.
ListeningWithAllRadios(g, sender, freq, global) ==
  LET tuned == {i \in DOMAIN radios[g].radios :
                  radios[g].radios[i].freq = freq}
  IN /\ DoesClientExist(sender)
     /\ HasRadio(g)
     /\ tuned # {}
     /\ \A i \in tuned : radios[g].radios[i].enabled

\* The first radio tuned to the frequency decides.  The receiver's coalition
\* is never looked at: `receiver` is s.Clients[senderId] again, so the
\* coalition test compares the sender with itself.
IsListeningOnFrequency(g, sender, freq, global) ==
  LET receiver  == clients[sender]
      tuned     == {i \in DOMAIN radios[g].radios :
                      radios[g].radios[i].freq = freq}
      first     == CHOOSE i \in tuned : \A j \in tuned : i <= j
  IN /\ DoesClientExist(sender)
     /\ HasRadio(g)
     /\ global \/ heap[clients[sender]].coalition = heap[receiver].coalition
     /\ tuned # {}
     /\ radios[g].radios[first].enabled
=============================================================================
