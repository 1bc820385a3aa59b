----------------------------- MODULE VoiceServer -----------------------------
(***************************************************************************)
(* voice/server.go: the UDP relay.                                         *)
(*                                                                         *)
(* One goroutine reads every datagram into ONE buffer and hands a slice of *)
(* it to a new goroutine (handlePacket), which parses it while the reader  *)
(* may already be writing the next datagram into it.  The fields are read  *)
(* in the order of the header, so a packet is parsed in steps that each    *)
(* see the buffer of that moment.                                          *)
(*                                                                         *)
(* The registry is shared with the control server and changes at any time. *)
(* v.clients has a lock of its own and holds pointers.                     *)
(*                                                                         *)
(* Abstracted: an address is the guid of the client whose machine it is;   *)
(* what is said is left out; a datagram that does not parse, and a sender  *)
(* id torn within its 16 bytes, are lost datagrams.                        *)
(* LastSeen is only compared with the time a minute ago: fresh or not.     *)
(*                                                                         *)
(* History: known, the guids that ever logged in; the guid of a target;    *)
(* steady, see there.                                                      *)
(***************************************************************************)
EXTENDS ServerState

CONSTANTS
  Call,            \* packet goroutines in flight at one time
  NoClient,        \* "guid is not a key of v.clients"
  Unread,          \* field not parsed yet
  NoFreq,          \* frequency 0, which packets other than voice carry
  RadioInput,      \* the radio states clients send
  GlobalFreq,      \* settings: frequencies on which coalitions do not matter
  TestFreq         \* settings: frequencies that are played on the server

PacketType == {"voice", "hello", "keepalive", "bye"}
Frequency  == Freq \cup {NoFreq}
Packet == [type : PacketType, freq : Frequency, sender : Guid]
Client == [addr : Guid, fresh : BOOLEAN]
Target == [guid : Guid, addr : Guid]
Job    == [from : Guid \cup {Unread}, type : PacketType \cup {"unread"},
           freq : Frequency, sender : Guid \cup {Unread}, held : BOOLEAN,
           rest : SUBSET Guid, listener : Guid \cup {Unread},
           targets : SUBSET Target]

ASSUME VoiceAssumption ==
  /\ NoClient \notin Client
  /\ Unread \notin Guid /\ Unread \notin Packet
  /\ NoFreq \notin Freq
  /\ RadioInput \subseteq RadioState
  /\ GlobalFreq \subseteq Freq /\ TestFreq \subseteq Freq

NoJob == [from |-> Unread, type |-> "unread", freq |-> NoFreq, sender |-> Unread,
          held |-> FALSE, rest |-> {}, listener |-> Unread, targets |-> {}]

VARIABLES
  running,     \* v.running; the socket is open exactly then
  buffer,      \* what the last ReadFromUDP left in the shared buffer
  vclients,    \* v.clients: guid -> Client, or NoClient
  pc, job,     \* per goroutine: next step, and what it has parsed and read
  known,       \* history: guids that ever logged in
  steady       \* history: per goroutine that relays voice, the clients that
               \* have been listening ever since the packet was parsed

packetVars == <<pc, job>>
voiceVars  == <<running, vclients>>
vars == <<settingsVars, stateVars, voiceVars, buffer, packetVars, known, steady>>

Registering == {"registering", "removing"}
Relaying    == {"lookup", "touch", "gather", "listen", "listener", "send"}
Step        == Registering \cup Relaying \cup
               {"header", "sender", "hello", "register", "test",
                "bye", "remove"}

VoiceInit ==
  /\ StateInit
  /\ coalitions = <<>> /\ configured = {}    \* never read here
  /\ running = TRUE
  /\ buffer = Unread
  /\ vclients = [g \in Guid |-> NoClient]
  /\ pc = [c \in Call |-> "idle"]
  /\ job = [c \in Call |-> NoJob]
  /\ known = {}
  /\ steady = [c \in Call |-> {}]

-----------------------------------------------------------------------------
(* Goroutines *)

At(c, step) == up /\ pc[c] = step

Goto(c, step, j) ==
  /\ pc' = [pc EXCEPT ![c] = step]
  /\ job' = [job EXCEPT ![c] = j]

Done(c) == Goto(c, "idle", NoJob)

\* Somebody is inside Lock and writes the map v.clients: RLock and Lock wait.
Locked == \E c \in Call : pc[c] \in Registering

Registered(g) == vclients[g] # NoClient

\* The entries of these guids leave the map: pointers to them that goroutines
\* hold now point to objects nobody will look up again.
Orphan(guids) ==
  [c \in Call |-> IF job[c].sender \in guids
                  THEN [job[c] EXCEPT !.held = FALSE] ELSE job[c]]

\* The reader: overwrites the buffer, whoever is still parsing from it.
Receive(c, g) ==
  /\ up /\ running
  /\ pc[c] = "idle"
  /\ \E type \in PacketType, freq \in Frequency :
       /\ type = "voice" <=> freq # NoFreq
       /\ buffer' = [type |-> type, freq |-> freq, sender |-> g]
  /\ Goto(c, "header", [NoJob EXCEPT !.from = g])
  /\ UNCHANGED voiceVars

\* handlePacket: isRunning, then ParsePacket up to the frequency.
ParseHeader(c) ==
  /\ At(c, "header")
  /\ ~Locked
  /\ IF running
     THEN Goto(c, "sender", [job[c] EXCEPT !.type = buffer.type,
                                           !.freq = buffer.freq])
     ELSE Done(c)
  /\ UNCHANGED <<voiceVars, buffer>>

\* ... the sender id; the frequency may have been overwritten after the type
\* was read.  Only a hello uses the address it came from.
ParseSender(c) ==
  /\ At(c, "sender")
  /\ \E freq \in {job[c].freq, buffer.freq} :
       LET j == [job[c] EXCEPT !.sender = buffer.sender, !.freq = freq]
       IN IF j.type = "hello" THEN Goto(c, "hello", j)
          ELSE Goto(c, IF j.type = "bye" THEN "bye" ELSE "lookup",
                    [j EXCEPT !.from = Unread])
  /\ UNCHANGED <<voiceVars, buffer>>

-----------------------------------------------------------------------------
(* HELLO, BYE and the cleanup: writers of v.clients *)

\* Mutant: whoever says hello is welcome.
HelloAnybody(c) ==
  /\ At(c, "hello")
  /\ Goto(c, "register", job[c])
  /\ UNCHANGED <<voiceVars, buffer>>

CheckHello(c) ==
  /\ At(c, "hello")
  /\ IF DoesClientExist(job[c].sender)
     THEN Goto(c, "register", job[c])
     ELSE Done(c)
  /\ UNCHANGED <<voiceVars, buffer>>

CheckBye(c) ==
  /\ At(c, "bye")
  /\ ~Locked
  /\ IF Registered(job[c].sender) THEN Goto(c, "remove", job[c]) ELSE Done(c)
  /\ UNCHANGED <<voiceVars, buffer>>

Lock(c) ==
  /\ up
  /\ ~Locked
  /\ \/ pc[c] = "register" /\ Goto(c, "registering", job[c])
     \/ pc[c] = "remove"   /\ Goto(c, "removing", job[c])
  /\ UNCHANGED <<voiceVars, buffer>>

\* The address is the one this datagram came from, the guid what was parsed.
Register(c) ==
  /\ At(c, "registering")
  /\ vclients' = [vclients EXCEPT ![job[c].sender] =
                                 [addr |-> job[c].from, fresh |-> TRUE]]
  /\ pc' = [pc EXCEPT ![c] = "idle"]
  /\ job' = [Orphan({job[c].sender}) EXCEPT ![c] = NoJob]
  /\ UNCHANGED <<running, buffer>>

Disconnect(c) ==
  /\ At(c, "removing")
  /\ vclients' = [vclients EXCEPT ![job[c].sender] = NoClient]
  /\ pc' = [pc EXCEPT ![c] = "idle"]
  /\ job' = [Orphan({job[c].sender}) EXCEPT ![c] = NoJob]
  /\ UNCHANGED <<running, buffer>>

RemoveClients(guids) ==
  /\ up /\ running
  /\ ~Locked
  /\ vclients' = [g \in Guid |-> IF g \in guids THEN NoClient ELSE vclients[g]]
  /\ job' = Orphan(guids)
  /\ UNCHANGED <<running, buffer, pc>>

\* Mutant: Before is After, and the active clients are removed.
CleanupActive == RemoveClients({g \in Guid : Registered(g) /\ vclients[g].fresh})

\* Every 30 seconds until Stop, under one Lock.
Cleanup == RemoveClients({g \in Guid : Registered(g) /\ ~vclients[g].fresh})

\* A minute has passed since the client's last packet.
Age(g) ==
  /\ up
  /\ Registered(g)
  /\ vclients[g].fresh
  /\ vclients' = [vclients EXCEPT ![g].fresh = FALSE]
  /\ UNCHANGED <<running, buffer, packetVars>>

Stop ==
  /\ up /\ running
  /\ ~Locked
  /\ running' = FALSE
  /\ UNCHANGED <<vclients, buffer, packetVars>>

-----------------------------------------------------------------------------
(* KEEPALIVE and VOICE: look the pointer up, then write through it *)

LookupSender(c) ==
  /\ At(c, "lookup")
  /\ ~Locked
  /\ IF Registered(job[c].sender)
     THEN Goto(c, "touch", [job[c] EXCEPT !.held = TRUE])
     ELSE Done(c)
  /\ UNCHANGED <<voiceVars, buffer>>

\* Whether the object is still in the map is not looked at.
Touch(c) ==
  /\ At(c, "touch")
  /\ ~Locked
  /\ vclients' = IF job[c].held
                  THEN [vclients EXCEPT ![job[c].sender].fresh = TRUE]
                  ELSE vclients
  /\ IF job[c].type = "keepalive" THEN Done(c)
     ELSE Goto(c, IF job[c].freq \in TestFreq THEN "test" ELSE "gather",
               [job[c] EXCEPT !.held = FALSE])
  /\ UNCHANGED <<running, buffer>>

\* A test frequency: v.clients is read under the registry's lock, which does
\* not keep a writer of v.clients out; the Go runtime ends the process when it
\* notices a map being read and written at once.
PlayTest(c) ==
  /\ At(c, "test")
  /\ Done(c)
  /\ UNCHANGED <<voiceVars, buffer>>

PlayTestRace(c) ==
  /\ At(c, "test")
  /\ Locked
  /\ UNCHANGED <<voiceVars, buffer, packetVars>>

\* GetAllClients: a snapshot.
Gather(c) ==
  /\ At(c, "gather")
  /\ Goto(c, "listen", [job[c] EXCEPT
            !.rest = {g \in Guid : DoesClientExist(g)} \ {job[c].sender}])
  /\ UNCHANGED <<voiceVars, buffer>>

IsListening(c, g) ==
  IsListeningOnFrequency(g, job[c].sender, job[c].freq, job[c].freq \in GlobalFreq)

\* One client of the snapshot, under the registry's RLock; then its entry in
\* v.clients, under v's.
CheckListening(c) ==
  /\ At(c, "listen")
  /\ \E g \in job[c].rest :
       LET j == [job[c] EXCEPT !.rest = @ \ {g}]
       IN IF IsListening(c, g)
          THEN Goto(c, "listener", [j EXCEPT !.listener = g])
          ELSE Goto(c, "listen", j)
  /\ UNCHANGED <<voiceVars, buffer>>

\* Mutant: that the listener never said hello is not noticed.
AddAnyListener(c) ==
  LET g == job[c].listener
  IN /\ At(c, "listener")
     /\ ~Locked
     /\ Goto(c, "listen", [job[c] EXCEPT
          !.listener = Unread,
          !.targets = @ \cup
            {[guid |-> g, addr |-> IF Registered(g) THEN vclients[g].addr
                                   ELSE Unread]}])
     /\ UNCHANGED <<voiceVars, buffer>>

AddListener(c) ==
  LET g == job[c].listener
  IN /\ At(c, "listener")
     /\ ~Locked
     /\ Goto(c, "listen", [job[c] EXCEPT
          !.listener = Unread,
          !.targets = IF Registered(g)
                      THEN @ \cup {[guid |-> g, addr |-> vclients[g].addr]} ELSE @])
     /\ UNCHANGED <<voiceVars, buffer>>

Broadcast(c) ==
  /\ At(c, "listen")
  /\ job[c].rest = {}
  /\ IF job[c].targets = {} THEN Done(c) ELSE Goto(c, "send", job[c])
  /\ UNCHANGED <<voiceVars, buffer>>

\* A goroutine per target.  After Stop the socket is closed and the send fails.
Send(c, t) ==
  /\ At(c, "send")
  /\ t \in job[c].targets
  /\ IF job[c].targets = {t} THEN Done(c)
     ELSE Goto(c, "send", [job[c] EXCEPT !.targets = @ \ {t}])
  /\ UNCHANGED <<voiceVars, buffer>>

-----------------------------------------------------------------------------
(* The control server and the administrator, on the shared registry *)

\* Nothing here keeps a pointer to a ClientState: any free address will do.
SrsLogin(g) ==
  LET free == {q \in Ref : \A h \in Guid \ {g} : clients[h] # q}
  IN /\ up
     /\ free # {}
     /\ \E coalition \in Coalition :
          AddClientAt(CHOOSE q \in free : TRUE, g, coalition, GuestRole)

SrsDisconnect(g) ==
  /\ up
  /\ clients' = [clients EXCEPT ![g] = NoRef]
  /\ radios' = [radios EXCEPT ![g] = NoRadio]
  /\ UNCHANGED <<heap, up>>

SrsKick(g) ==
  /\ up
  /\ clients' = [clients EXCEPT ![g] = NoRef]
  /\ UNCHANGED <<heap, radios, up>>

\* The write of UpdateRadioInfo, which is not tied to the check before it.
SrsTune(g) ==
  /\ up
  /\ g \in known
  /\ \E r \in RadioInput : radios' = [radios EXCEPT ![g] = r]
  /\ UNCHANGED <<clients, heap, up>>

\* The voice server ends with the process; everything starts again empty.
Restart ==
  /\ ~up
  /\ up' = TRUE
  /\ clients' = [g \in Guid |-> NoRef]
  /\ heap' = [r \in Ref |-> Free]
  /\ radios' = [g \in Guid |-> NoRadio]
  /\ running' = TRUE
  /\ buffer' = Unread
  /\ vclients' = [g \in Guid |-> NoClient]
  /\ pc' = [c \in Call |-> "idle"]
  /\ job' = [c \in Call |-> NoJob]

-----------------------------------------------------------------------------
\* The steps of a packet goroutine, which the scheduler runs.
Handle(c) ==
  \/ ParseHeader(c) \/ ParseSender(c)
  \/ CheckHello(c) \/ CheckBye(c) \/ Lock(c) \/ Register(c) \/ Disconnect(c)
  \/ LookupSender(c) \/ Touch(c) \/ PlayTest(c) \/ Gather(c)
  \/ CheckListening(c) \/ AddListener(c) \/ Broadcast(c)
  \/ \E t \in Target : Send(c, t)

\* What goroutine c relays can reach g: sender and g are logged in, and g has
\* said hello and sent its radios.
Reachable(c, g) ==
  /\ g # job[c].sender
  /\ DoesClientExist(job[c].sender) /\ DoesClientExist(g)
  /\ Registered(g)
  /\ HasRadio(g)

\* g listens to what goroutine c relays: of its radios that are tuned to the
\* frequency, the first is on.
Listens(c, g) ==
  /\ Reachable(c, g)
  /\ \E i \in DOMAIN radios[g].radios :
       /\ radios[g].radios[i] = [freq |-> job[c].freq, enabled |-> TRUE]
       /\ \A k \in DOMAIN radios[g].radios :
            k < i => radios[g].radios[k].freq # job[c].freq

IsRelaying(c) == pc[c] \in Relaying /\ job[c].type = "voice"

Watch ==
  steady' = [c \in Call |->
    IF ~IsRelaying(c)' THEN {}
    ELSE {g \in Guid : Listens(c, g)' /\ (IsRelaying(c) => g \in steady[c])}]

Unshared == UNCHANGED <<settingsVars, stateVars, known>> /\ Watch

VoiceStep ==
  /\ \/ \E c \in Call, g \in Guid : Receive(c, g)
     \/ \E c \in Call : Handle(c)
     \/ Cleanup \/ Stop
     \/ \E g \in Guid : Age(g)
  /\ Unshared

VoiceCrash ==
  /\ \E c \in Call : PlayTestRace(c)
  /\ up' = FALSE
  /\ UNCHANGED <<settingsVars, clients, heap, radios, known>>
  /\ Watch

RegistryStep ==
  /\ \E g \in Guid : \/ SrsLogin(g) /\ known' = known \cup {g}
                     \/ (SrsDisconnect(g) \/ SrsKick(g) \/ SrsTune(g))
                        /\ UNCHANGED known
  /\ UNCHANGED <<settingsVars, voiceVars, buffer, packetVars>>
  /\ Watch

VoiceRestart == Restart /\ UNCHANGED <<settingsVars, known>> /\ Watch

VoiceNext == VoiceStep \/ VoiceCrash \/ RegistryStep \/ VoiceRestart

VoiceSpec == VoiceInit /\ [][VoiceNext]_vars

\* The Go scheduler runs every goroutine that can run, and a goroutine that
\* waits for a sync.RWMutex gets it even if others keep taking it in between
\* (hence SF); time passes for whoever stays silent.
VoiceFairSpec ==
  /\ VoiceSpec
  /\ \A c \in Call : SF_vars(Handle(c) /\ Unshared)
  /\ SF_vars(Cleanup /\ Unshared)
  /\ \A g \in Guid : WF_vars(Age(g) /\ Unshared)

-----------------------------------------------------------------------------
(* Properties *)

VoiceTypeOK ==
  /\ StateTypeOK
  /\ SettingsTypeOK
  /\ running \in BOOLEAN
  /\ buffer \in Packet \cup {Unread}
  /\ vclients \in [Guid -> Client \cup {NoClient}]
  /\ pc \in [Call -> Step \cup {"idle"}]
  /\ job \in [Call -> Job]
  /\ known \in SUBSET Guid
  /\ steady \in [Call -> SUBSET Guid]

\* A voice packet goes to every other client that was listening on its
\* frequency from the moment it was parsed until the loop of
\* GetListeningClients ended, although clients log in and out, retune, say
\* hello and time out while the loop runs.
FansOut ==
  \A c \in Call :
    pc[c] = "listen" /\ job[c].rest = {} =>
      steady[c] \subseteq {t.guid : t \in job[c].targets}

\* Only guids that logged in get an entry in v.clients, although the login is
\* checked before the lock is taken and the guid is read from a buffer that
\* is being overwritten.
VoiceClientsLoggedIn == \A g \in Guid : Registered(g) => g \in known

\* A client that falls silent is forgotten in the end (unless the server is
\* stopped or down), whatever the others send and whatever its last packets
\* still in flight do to its entry.
SilentClientsForgotten ==
  \A g \in Guid :
    []<><<\E c \in Call : Receive(c, g)>>_vars
      \/ <>[](~Registered(g) \/ ~running \/ ~up)

-----------------------------------------------------------------------------
(* Claims of the repository that the code does not keep *)

\* README.md:208: voice goes to all other clients listening on the same
\* frequency.  A client with a radio that is on, on that frequency, is not left
\* out when the loop of GetListeningClients looks at it.
AnyRadioIsHeard ==
  [][\A c \in Call : \A g \in job[c].rest \ job'[c].rest :
       /\ Reachable(c, g)
       /\ \E i \in DOMAIN radios[g].radios :
            radios[g].radios[i] = [freq |-> job[c].freq, enabled |-> TRUE]
       => pc'[c] # "listen"]_vars
=============================================================================
