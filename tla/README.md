# Verification of vcs-srs-server

TLA+ models of the server in `src/`, TLC configurations that check them on
small instances, and proofs checked by TLAPS. Paths are relative to the
repository root.

Check a run with `tlc -config <Run>.cfg <module>` (the table in "Runs" names
the module), the proofs with `tlapm <module>.tla` for each of
`ControlServerTypes`, `ControlServerProofs`, `ControlServerSessions`,
`VoiceServerProofs`, `ServerLifecycleProofs`, `AdminViewProofs`,
`StorageProofs` and `RemotesProofs`.

## 1. The system

A VCS server keeps a *registry* of logged-in radio clients, lets them in
(guests by coalition password, members through an authentication plugin), lets
them change coalition, role and radios, and relays their voice over UDP to
whoever is tuned to the same frequency. An administrator (GUI) watches the
registry, kicks and mutes clients and edits the settings.

| Component | Source | State | Operations |
|---|---|---|---|
| Registry | `state/server.go` | `Clients`: guid → `*ClientState`, `RadioClients`: guid → `*RadioState`, one RWMutex | `AddClient`, lookups, `GetAllClients`, `IsListeningOnFrequency` |
| Settings | `state/settings.go`, `services/coalitions.go` | coalition list (a Go slice), frequencies, plugins | add, update, remove a coalition; `DoesCoalitionExist` |
| gRPC control server | `control/server.go` | goroutine per call, `isRunning`, `stopOnce` | `Start`, `Stop`, interceptors, health monitor |
| SRS service | `srs/srs_service.go` | none of its own but `streams` | `SyncClient`, `Disconnect`, `UpdateClientInfo`, `UpdateRadioInfo`, `SubscribeToUpdates` |
| Auth service | `srs/auth_service.go` | `authenticatingClients`: guid → entry, `mu` | `InitAuth`, `GuestLogin`, `Login`, `UnitSelect` |
| Client administration | `app/clients.go`, `services/clients.go` | — (writes the registry) | ban, unban, kick, mute, unmute |
| Tokens and keys | `utils/auth.go` | two package variables, two key files | `GenerateToken`, `GetTokenClaims` |
| Plugin client | `srs/plugin_client.go` | a connection per plugin, its `Enabled` setting | connect, configure, login, reconnect |
| Voice server | `voice/server.go`, `voice/protocol.go` | `clients`: guid → `*Client`, one RWMutex, ONE receive buffer | receive loop, hello, keepalive, voice, bye, cleanup, stop |
| Voice control | `voiceontrol/` | a connection and a stream to the control server; certificate and key files | register, stream, reconnect, close |
| Event bus | `events/bus.go` | publish queue, subscriber channels of 10 | publish, dispatch, subscribe |
| Application lifecycle | `app/app.go`, `app/server_control.go` | `AdminState`, `StopSignals`, `RuntimeMode` | start-up, start and stop of each server, forwarding of events |
| Ban list | `state/server.go`, `app/clients.go` | list, JSON file | ban, unban, load, save |
| Files | the four owners above | settings (YAML), bans (JSON), key pair, certificate and key (PEM) | load at the start, save after each change |
| Health | `control/health.go` | status per service | set, check, watch |

The rest (HTTP routes, the frontend, start-up, notification plumbing) keeps no
state worth a model; PROJECT.json lists it with the reasons.

**How they interact.** Everything shares memory. The registry is written by the
SRS and the auth service, and by the administrator; it is read by the voice
server, once per packet and receiver. The settings are edited by the
administrator and read by every login and every change of coalition. The auth
service calls a plugin over gRPC in the middle of a login, for up to ten
seconds. All of them publish to the event bus, which the GUI forwarder drains.

**What is hard.** A handler takes and releases locks several times: what it
checked under one lock may be gone under the next. Handlers keep *pointers*
into the registry across that gap. Login is a conversation of several calls
whose entry expires, is rewritten by a second login and deleted by a finished
one. Nothing recovers from a panic: one handler's nil dereference ends the
process and everybody's session; tokens outlive it. The voice server parses
packets from a buffer it is already overwriting. A mutex stays locked on one
path of the guest login. Files are truncated before they are written, and the
next start believes what it finds. The event bus drops what a slow subscriber
has no room for, and what it delivers are references to state that goes on
changing. Two clients of remote peers reconnect from goroutines that do not know
of each other.

**What makes each component correct.** Registry: the two maps agree. SRS
service: a call affects its own client's current session or nothing; a role
never exceeds what the login granted. Auth service: no session, role or token
without the steps and the plugin's answer they require; every call is
answered. Composition: what is observable follows the abstract `Sessions`.
Voice server: a packet reaches exactly those who listen; entries belong to
clients that logged in; silent clients are forgotten. Lifecycle: what the admin
state shows is what runs, and what was stopped ends. Event bus: each subscriber
is a queue that loses events only when it is full, and the bus waits for nobody.
GUI: what it shows is what the server holds, once nothing is on its way. Files:
what was saved is there after a crash, or the start fails. Remote peers: a peer
that is connected knows us, and attempts to reconnect end.

PROJECT.json lists under `hazards` each place in the code where one of these
could go wrong, with the properties that watch it.

## 2. Modules

```
SettingsState   the coalition list
  ServerState   the registry: maps, objects, AddClient, IsListeningOnFrequency
    Rpc         calls in flight, tokens, panic and restart
      SrsService   -- S == INSTANCE Sessions
      AuthServer
        ControlServer          = SrsService + AuthServer over one registry
          ControlServerTypes   proofs: types and pointers, of both and of each
            ControlServerProofs   proofs: radios, roles
              ControlServerSessions   proofs: secrets, coalitions, who changes
                                      a session; implements Sessions
    VoiceServer  the UDP relay, with the registry changing at any time
      VoiceServerProofs   proofs: types, who is registered, who is reached
Sessions         abstract: what the control server promises
ServerLifecycle  starting and stopping the control and the voice server
  ServerLifecycleProofs   proofs: types, the control server's status
EventBus         the bus: queue, dispatcher, channels -- Queues == INSTANCE LossyQueues
  AdminView      the publishers, the GUI's forwarder and the notifier on it
    AdminViewProofs   proofs: types, what is shown, the forwarder's queue
LossyQueues      abstract: what the bus promises a subscriber
Files            files that are truncated first and filled later
  StateFiles     settings, bans, certificate and its key; the start that reads them
    TokenKeys    the key pair of the tokens
      Storage    = all files, with a crash between any two steps
        StorageProofs   proofs: bans, settings, certificate, tokens
Reconnection     a gRPC connection, its watchers and redialers
  PluginClient        a plugin and its Enabled setting
  VoiceControlClient  the control server of a voice server, and the stream
    Remotes      one of the two, with the peer lost and restarted at any time
      RemotesProofs   proofs: counts, who is redialed, who is prepared
MCSrsService, MCAuthServer, MCControlServer, MCVoiceServer, MCServerLifecycle,
MCAdminView, MCStorage, MCRemotes
                 instances for TLC
```

**From Go to actions.** A goroutine (an RPC, or one packet) is an element of
`Call`; `pc[c]` names the step it takes next. A step is what happens under one
lock, or one access to shared memory without a lock. A method that holds the
lock for its whole body is one atomic operator (`AddClientAt`,
`cleanupClientState`, `RemoveClients`). What a handler still uses later is kept
in `local[c]` (`job[c]` in `VoiceServer`). Handlers that only answer change
nothing and have no action: a rejected call is the absence of a step.

**Pointers.** `Clients` maps to addresses (`Ref`) of objects in `heap`, because
`UpdateClientInfo` keeps writing through the pointer it looked up after the
client was kicked, disconnected or logged in again. `Unused` is the garbage
collector: an address is reused only when neither the map nor a call refers to
it. In `VoiceServer` a pointer is kept for one write only, so a flag (`held`)
that says whether the object is still in the map is enough (`Orphan`).

**Numbers.** Role ids are `uint32` on the wire and narrowed to `uint8` where
they are used: `uint8(id) == id % 256`, and the instances contain 257 and 258.

**Panics.** gRPC handlers run without `recover`, so a panic ends the process:
`up` becomes false and only `Reboot` is possible. Registry, entries and calls
are lost; settings and keys are files, so tokens issued before still verify.
Actions that panic: `SyncRadio` when the client of a radio entry is gone,
`SubscribeToUpdates` always (no stream interceptor sets `client_id`),
`BanClient` always (the service method calls itself), `LoginCall` when the
plugin reports success without a result, and the concurrent map access of a
test-frequency packet (`PlayTestRace`).

**Passwords.** `HashPassword(p, salt)` is bcrypt: two hashes of one password
with different salts differ, and a password over 72 bytes (`LongPassword`)
yields the empty string. The server salts afresh before it compares, so the
only guest logins that succeed are with an empty hash against a coalition whose
password is too long. The runs of `AuthServer` and `ControlServer` that must
reach guests therefore have such a coalition.

**History variables.** `granted` (role an object was created with),
`configured` (coalitions there ever were), `known` (guids that ever logged in)
and `steady` (clients that have been listening to a packet since it was parsed)
only record. `issued` (guids `InitAuth` handed out) and `grants` (what a plugin
granted with a secret) also stand for the freshness of UUIDs and secrets.

### Module by module

**SettingsState** — `coalitions` is the list, edited by `AddCoalition` and
`RemoveCoalition` (`services/coalitions.go`); `Remove` is `utils.Remove` with
its special case (a list of one element becomes empty whatever was asked for).
`UpdateCoalition` changes nothing but fields that are not modelled.

**ServerState** — `clients`, `heap`, `radios`. `AddClientAt` replaces an
earlier session of the guid and resets its radios. `IsListeningOnFrequency`
keeps the code's two peculiarities: the coalition test compares the sender with
itself, and the first radio on the frequency decides.

**Rpc** — `Enter` starts a handler, `EnterAuthorized` additionally requires a
token of the guid (`authInterceptor`; each method's minimum role is Guest, so
the token's role decides nothing). When a token expires is left open: an
expired token only keeps its client from calling.

**SrsService** — one action per locked section of each handler, e.g.
`UpdateClientInfo` (look-up), `CheckCoalition`, `WriteCoalition`, `CheckRole`
(the unlocked read of the role), `WriteRole`. `KickClient` deletes the client
and *not* the radio entry, as the code does. Alone, the module needs somebody to
log in: `Join` stands for the auth service.

**AuthServer** — `auth[g]` is the entry of `authenticatingClients`, `mu` is
`"free"` or `"leaked"` (a mutex that is taken and given back within one step is
no state; one that is never given back is). `GuestLogin`, `Login` and
`UnitSelect` are split like the SRS handlers; `Login` calls the plugin between
two locked sections (`LoginCall`: failure, result, or success without a
result). `Expire` lets an entry's time run out at any moment; `Purge` removes
the expired ones. The coalitions are compared in one step (`GuestMatch`)
although the loop at `srs/auth_service.go:191` reads the slice without its
lock: a torn read can miss or repeat an element, and both outcomes (match, no
match) are possible already because the list may change just before.

**ControlServer** — every step of both services over one registry, without the
stand-ins. Its `ControlImplementsSessions` is the refinement of **Sessions**:
there a guid has no session or one; a session is opened with the granted role,
keeps its role between Member and the grant (or stays Guest), moves only to
configured coalitions, and can be closed at any time. The refinement mapping
follows the pointer: `session[g]` is `heap[clients[g]]`.

**VoiceServer** — the reader (`Receive`) overwrites `buffer`; a goroutine
parses type, frequency and sender id in separate steps, each from the buffer of
that moment. Writers of `v.clients` (`Register`, `Disconnect`) are inside the
lock for a whole step (`Lock` enters), because one reader does not take the
lock (`PlayTest`). The fan-out takes a snapshot (`Gather`) and then, for each
client of it, the registry's lock (`CheckListening`) and v's (`AddListener`).
`steady` has the clients that have been listening since the packet was parsed:
logged in, registered by a hello, with radios of which the first one tuned to the
frequency is on (`Listens`). `Age` is the passing of a minute without a packet. The frequency lists of the
settings are constants here. What is said is left out: the audio of one packet
relayed under the header of another is an effect of the race by which a client
is registered at another's address (see "Results"). A datagram that fails to parse, or a sender id torn within its
bytes, has the effect of a lost datagram, and any datagram may be lost (it is
never received).

**ServerLifecycle** — the GUI's `StartStandaloneServer` and `StopServer`, one
step per access to shared state, with the parts of both servers that start and
stop. The GUI disables its button while a command runs, so commands do not
overlap; but no command waits for the goroutines it starts, and those read
`a.voiceServer`, `clientGrpcServer` and the status when they need them. A `Run`
is everything one start command creates. `server[s]` is `a.controlServer` and
`a.voiceServer`, `signal[s]` is `StopSignals`, `socket[s]` the run whose object
holds the port, `thread[s][r]` where a goroutine is. `control[r].stuck` is a
call that never ends (the leaked mutex of `AuthServer`). The HTTP server is only
a status that may have either value, so a stop is always possible and a start
whenever the other two are shown as stopped. It composes with nothing: neither
service reads the lifecycle's state, and a stop does not clear the registry.
`Serve` of the control server may fail by itself (`ServeFails`): it closes the
listener, and `serveClient` then only clears `isRunning` (`ServeReturned`), so the
status stays true and the `Stop` of the next stop command returns early
(`BeginStop`, first disjunct). Closing the voice socket may fail, which ends the
stop of the voice server before its status is set (`VoiceStop`). Connections that
were accepted before `Serve` failed are served on by grpc; they, like the calls on
them, are not part of the state here.

**EventBus** — `publishQueue` and the channels are the code's; `current` and
`rest` are the event the dispatcher has removed and the subscribers it has not
been offered to. Publishers get in between the removal (under the lock) and the
sends (under the read lock), not among the sends (`Sending`). A send to a full
channel does nothing. `held[s]` is the event a subscriber's loop has taken and
is working on. `BusImplementsQueues` is the refinement of **LossyQueues**: the
queue of a subscriber is its channel, the event being dispatched unless it was
offered already, and its part of `publishQueue`; a drop is a drop of an element
behind at least `Capacity` others.

**AdminView** — who publishes what, and what the GUI is shown. A handler's own
steps are in the other modules; here it is its last change (`Change`) and what
it publishes about it. An event carries a reference to the map or the admin
state, so the GUI shows the content of the moment it is emitted: `stale` has the
topics that changed since. `missed` (history) has the topics whose change will
not be announced: a handler that failed half-way (`UpdateClientInfo` with one
invalid field), that changes two maps and announces one (`Login`, `Disconnect`),
that publishes before it changes (`StartServer`, then `SetStatus`), or whose
event was dropped. `RuntimeModeGUI` is false until `StartUp` has run, because
the zero value of the mode is Headless: a forwarder that is scheduled before
ends for ever. Events of the ban list carry a copy, and those of settings and
coalitions go past the bus; neither is modelled here.

**Files**, **StateFiles**, **TokenKeys**, **Storage** — `disk[f]` is a file's
content, `Missing`, or `Torn` (truncated and not filled: empty or cut off). Each
write is two steps, `Truncate` and `Fill`; between them the process may be
killed (`Crash`), or the write fails and the server goes on. Saves run under the
lock of what they save; key generation has no lock. The settings are abstracted
to two things a start depends on: whether the key files can be written, and the
rest. A pair of keys is one value. `GetSettingsState` accepts an empty file
(YAML) and makes all settings zero; `GetBannedState` reports a missing file as
an error after creating it, and the start-up then saves a list without a file
name and panics. `LoadOrGenerateKeyPair` tests for the key file alone.
When the pair exists but cannot be read or parsed, `generateKey` makes another
and overwrites it, as it does when a file is missing (`loadKeyFromFile`,
`decode`); only a file without a PEM block is a panic. `job[c]` is the key of the
token a call checks. `spoiled` (history) records that the files may have lost
their pair: two calls generated keys at once, an unreadable pair was replaced, or
the private key of a new pair could not be put in the place of the old one;
`kept`, `freed`, `saved`, `edited`, `lost` are what the properties compare memory
with. A settings file that cannot be read, or that is cut off so that it is no
YAML, ends the start and changes nothing.

**Reconnection**, **PluginClient**, **VoiceControlClient**, **Remotes** — a
connection has the states of grpc-go; `watchers[k]` counts the watcher
goroutines of a connection that wait and that were woken, `redialer[r]` is a
`handleReconnection` (or the first attempt) with its attempts and its next step.
`prepared` is the peer's side: a plugin has its configuration, the control
server the registration; a peer that restarts has forgotten it. A restart of our
side makes a new connection and stops nothing of the old one. `Lose` is a lost
connection and the idle timeout alike. `unnoticed` (history) has the
connections that a login, or the opening of the stream, woke before any watcher
had looked: grpc reconnects then without the client noticing, and a restarted
peer stays unprepared. A broken stream has errors for its reader until another is
opened, whatever the connection does, and each starts a redialer (`ReadStream`).
Back-off delays are the interleaving. The environment is assumed not to
leave a connection half open across a restart of the peer: a peer that ends
closes its connections, or the client notices (keepalive) before it is back
(`PeerStart`). A client that still believes in a connection to the peer's earlier
life is prepared only after that loss is noticed. The two clients
share `Reconnection` because their code differs in what is called and what
happens on failure only; a behaviour of `Remotes` is about one of them (`kind`).

## 3. Runs

| Run | Module | Question | Result |
|---|---|---|---|
| `SrsClients` | MCSrsService | do stale calls leave newer sessions alone; is every call answered? | holds |
| `AuthLogins` | MCAuthServer | can overlapping logins, selections and expiry yield a session, role or token nobody granted? | holds |
| `Control` | MCControlServer | do both services together keep the maps consistent and implement `Sessions`? | holds |
| `VoiceRaces` | MCVoiceServer | do torn packets and races on `v.clients` register strangers? | holds |
| `VoiceRelay` | MCVoiceServer | is everybody reached who listens all along, and a silent client forgotten? | holds |
| `Lifecycle` | MCServerLifecycle | is the control server's status true but for a failed `Serve`, does a stop command come back, does a stopped loop end? | holds |
| `AdminView` | MCAdminView | does the bus keep its promise, and the GUI follow what is announced? | holds |
| `Storage` | MCStorage | are bans, settings, certificate and tokens as decided after crashes and failed writes? | holds |
| `Remotes` | MCRemotes | do reconnections end, and leave a connected peer prepared? | holds |
| `AuthInit` | MCAuthServer | is `InitAuth` always answered? | **no** |
| `LifecycleStatus` | MCServerLifecycle | does the admin state show whether the voice port is bound? | **no** |
| `VoiceTwoRadios` | MCVoiceServer | is a client heard by any of its radios on the frequency? | **no** |

**Bounds.** No counter is unbounded; what is bounded is the number of elements
of each constant.

- `SrsClients`: two guids, three addresses, two coalitions (list of at most
  two, `MaxCoalitions`), one call, role id 258. One call suffices for its
  questions: the races are between the call and the logins, kicks and edits,
  which are not calls. Three addresses for two guids leave one to be reused
  while a stale pointer is held.
- `AuthLogins`: one guid, two calls, two secrets, role ids 1 and 258. Entries,
  tokens and sessions are per guid, and no step touches two guids; two calls
  and two secrets are what it takes for a second login to overtake a selection.
- `AuthInit`: the same with one secret and no coalition with a long password.
- `Control`: one guid, three addresses, two calls, one secret, role ids 1, 2.
  Two calls race on the session, a third address is there for the session that
  replaces it. Two guids are covered by `SrsClients`.
- `VoiceRaces`: two guids, two goroutines, a test frequency: a torn packet needs
  two datagrams in the buffer, a race on the map a reader and a writer.
- `VoiceRelay`, `VoiceTwoRadios`: two guids (one speaks, one listens), one
  goroutine, a relayed and a test frequency (`VoiceTwoRadios`: a relayed one):
  what interferes with the relay is the registry, time and the cleanup. A client
  has up to two radios, both on one frequency and one of them off, in either
  order. `FansOut` with three guids, where the loop has two clients to walk,
  was checked once (892,456 states); since it is proved for every number, the run
  keeps the two guids that the liveness property can afford.
- `Lifecycle`, `LifecycleStatus`: two runs, so that the goroutines of one start
  meet the next start and stop. There may be any number of commands: a run that
  nothing refers to any more is used again (676,322 states).
- `AdminView`: one publisher, which is any handler or command in turn (they
  share nothing here but the bus); a queue of one event behind the one being
  dispatched (`MaxQueue`), and channels of one (`Capacity`, 10 in the code): the
  second event finds a channel full already.
- `Storage`: two clients, two values of the settings, three key pairs, two
  calls: two calls generate at once, a third pair is there for the start after
  (607,984 states).
  A behaviour changes either settings, bans and certificate or the token keys
  (`group`): they share the settings and the crash only.
- `Remotes`: two connections of a plugin (`Conn`), one of a control server
  (`MaxConnects`), two redialers at a time, two attempts (`MaxAttempts`, 20 in
  the code), one watcher per connection (`MaxWatchers`). With two watchers per
  connection the state space is too large to check each time; the theorems are for
  every number. A redialer is started when a slot is free, and waits for it otherwise.
- Everywhere: guids, calls, addresses, secrets are interchangeable, and the
  safety runs use that as symmetry; runs with a liveness property do not.

Deadlock is checked in every run but the two of the lifecycle and `Remotes`,
where the process may end and nobody in the model starts it again, and
`Storage`, whose keys are used up in the end.

**Fairness.** `SrsFairSpec` and `AuthFairSpec` assume weak fairness of each
call's next step: the Go scheduler runs what can run, and the plugin call ends
because its context has a timeout. `LifecycleFairSpec` assumes the same of the
running command and of each goroutine; nothing makes the administrator start or
stop anything, or a stuck call end, and nothing makes `Serve` fail. In `AdminViewFairSpec` the same of
the start-up, the dispatcher, the subscribers and each handler that has begun;
nobody has to begin one. `RemotesFairSpec` assumes of grpc that connecting comes
to a result and that a dead peer is noticed (keepalive is configured: 15 s and 10
s), and of each redialer, strongly, that its call is answered or fails if its
connection is up, or down, again and again: a call waits inside grpc for the
connection and is carried out when it is there. Nothing is assumed of peers.
Nothing is assumed of clients, the
administrator or time either, except in `VoiceFairSpec`: time passes (`Age`), the
cleanup ticker keeps ticking, and, since goroutines there wait for a lock that
others keep taking, fairness is strong — `sync.RWMutex` lets a waiting writer
pass before later readers and a long-waiting goroutine before later ones.

**Results against the code's own words.** Three runs end in a counterexample;
PROJECT.json (`findings`) quotes the line each contradicts.

1. `AuthInit`: a guest login that matches no coalition leaves `mu` locked.
2. `LifecycleStatus`: a voice server stopped between setting its status and
   binding its port keeps the port; the status says stopped, so no later command
   stops it, and the next start fails to bind.
3. `VoiceTwoRadios`: of two radios on one frequency the first in the list
   decides. When it is off, the client is left out although the second is on. The
   first proof attempt of `FansOut`, which then called such a client a listener,
   is what showed it.

The models have more behaviours that a reader of the code may not expect. They
follow from what is checked, or bound what it says:

- *Registry.* Check and write of `UpdateRadioInfo` are two locked sections, so
  a radio entry comes back for a client that disconnected in between
  (`WriteRadio`); only the other direction, `ClientHasRadio`, holds.
- *Roles.* `canSwapRoles` is evaluated before the lock; two calls that cross
  leave a role above the one the first wrote, within the grant
  (`RoleWithinGrant`).
- *Voice.* The receive buffer is shared with the parsers, so a client may be
  registered at the address another one's datagram came from (`Register`).
  The coalition test compares the sender with itself and never separates anybody.
- *Certain on first use.* A guest's password is never accepted (salted hashes
  are compared); `SubscribeToUpdates` and the GUI's ban end the process, and so
  does `SyncClient` after a kick (the radio entry outlives its client).
- *Lifecycle.* A stop that is over before the serving goroutine ran
  (`ServeClient`) ends the process, and so does a voice server object that is
  listened on again after it was stopped, and stopped again (`VoiceStop`). A
  control server whose `Serve` fails is shown as running until it is stopped, and
  `ControlStatusIsTrue` excepts it (`ServeFailed`). A voice socket that cannot
  be closed leaves the status true, and the next stop closes a closed channel.
- *GUI.* A forwarder that runs before `StartUp` ends, and the GUI is never shown
  an event. A login and a disconnect change the radios and announce the
  clients only; a server's status is announced before it is set. So
  `ViewIsFresh` speaks of what was announced in time.
- *Files.* The first start without a ban file panics, and every later one does
  too, because the file it left is empty. A settings file that was cut off when
  empty starts a server with all settings zero, although `app/app.go:60` says
  "Without settings, we can't run". A torn token key ends the process at the
  first token; a torn certificate key ends every start of the control server.
  Two first calls that generate keys at once may leave files of two pairs, and
  one of them may use a key that is not there yet (`UseKey`). A key pair that
  cannot be read, for lack of a permission or because of its contents, is
  overwritten by a new one at the first token, and every token issued before is
  void. A private key file that cannot be opened while the public one can leaves
  two files that do not match. `TokensStayValid` excepts these three (`spoiled`).
- *Remote peers.* Each attempt adds a watcher, and each watcher starts a
  redialer: after the first idle period there are two, then four. A plugin that
  is disabled while it is away gets no client from a control server that is
  started then, and a save of the settings keeps it disabled. Redialers of
  earlier starts write the same setting: one may give up and close its
  connection while the plugin stays enabled. A login that wakes the connection
  first leaves a restarted plugin without its configuration. Two redialers of a
  voice server that give up together panic (`CloseControl`), and so does the
  reader of a stream that could not be opened (`ReadStream`). A voice server
  whose first attempt fails runs on, unregistered, with a closed connection.

## 4. Proofs

TLC answers for the sizes above; these theorems hold for every value of the
constants: any number of clients, calls, addresses, secrets, coalitions, runs,
connections and keys, queues and channels of any size.

| Theorem | Module | Says |
|---|---|---|
| `ControlTypes` | ControlServerTypes | `ControlSpec => []ControlTypeOK` |
| `SrsTypes` | ControlServerTypes | `SrsSpec => []SrsTypeOK` |
| `AuthTypes` | ControlServerTypes | `AuthSpec => []AuthTypeOK` |
| `ClientsHaveRadios` | ControlServerProofs | `ControlSpec => []ClientHasRadio` |
| `RolesWithinGrants` | ControlServerProofs | `ControlSpec => []RoleWithinGrant` |
| `SessionsInitialized` | ControlServerSessions | `ControlSpec => []SessionWasInitialized` |
| `CallsAuthenticated` | ControlServerSessions | `ControlSpec => []CallsAreAuthenticated` |
| `SecretsBackRoles` | ControlServerSessions | `ControlSpec => []SecretBacksRole` |
| `RolesWereGranted` | ControlServerSessions | `ControlSpec => []RoleWasGranted` |
| `RolesBackedByPlugin` | ControlServerSessions | `ControlSpec => []RoleBackedByPlugin` |
| `CoalitionsWereConfigured` | ControlServerSessions | `ControlSpec => []CoalitionWasConfigured` |
| `SessionsChangedByOwnCalls` | ControlServerSessions | `ControlSpec => ChangesByOwnCall` |
| `ControlServerImplementsSessions` | ControlServerSessions | `ControlSpec => ControlImplementsSessions` |
| `VoiceTypes` | VoiceServerProofs | `VoiceSpec => []VoiceTypeOK` |
| `VoiceClientsLoggedInAlways` | VoiceServerProofs | `VoiceSpec => []VoiceClientsLoggedIn` |
| `EveryListenerIsReached` | VoiceServerProofs | `VoiceSpec => []FansOut` |
| `LifecycleTypes` | ServerLifecycleProofs | `LifecycleSpec => []LifecycleTypeOK` |
| `ControlStatusTrue` | ServerLifecycleProofs | `LifecycleSpec => []ControlStatusIsTrue` |
| `AdminViewTypes` | AdminViewProofs | `AdminViewSpec => []AdminViewTypeOK` |
| `ViewAlwaysFresh` | AdminViewProofs | `AdminViewSpec => []ViewIsFresh` |
| `WildcardsGetLossyQueues` | AdminViewProofs | `AdminViewSpec => Wild!Spec` |
| `StorageTypes` | StorageProofs | `StorageSpec => []StorageTypeOK` |
| `BansAlwaysAsDecided` | StorageProofs | `StorageSpec => []BansAsDecided` |
| `SettingsAlwaysAsSaved` | StorageProofs | `StorageSpec => []SettingsAsSaved` |
| `CertificateAlwaysMatchesKey` | StorageProofs | `StorageSpec => []CertificateMatchesKey` |
| `TokensAlwaysStayValid` | StorageProofs | `StorageSpec => []TokensStayValid` |
| `RemotesTypes` | RemotesProofs | `RemotesSpec => []RemotesTypeOK` |
| `DisabledAlwaysRedialed` | RemotesProofs | `RemotesSpec => []DisabledIsRedialed` |
| `ConnectedAlwaysPrepared` | RemotesProofs | `RemotesSpec => []ConnectedIsPrepared` |

With these, every safety property of the passing runs has a theorem, except
`BusImplementsQueues`, which has one for half of the subscribers (below).

*Assumptions.* Role ids are naturals (`RoleIdAssumption`), radio states clients
send are radio states (`RadioInputAssumption`), a queue and a channel have a
size and somebody subscribes to everything (`BusAssumption`; `ViewAssumption`
names the two subscribers there are), attempts and watchers are bounded
(`ReconnectionAssumption`). The rest says that values that mean "absent" are no
real ones: no address, entry, grant, run, connection or key; an unread field is
neither a guid nor a packet; a missing or torn file is neither one another nor a
content; the zero value of the settings is not one an administrator chose. TLC
evaluates all of them in the runs.

**The control server.** *Types* are not inductive as they stand.
`WriteCoalition` and `WriteRole` update a field of whatever object the call's
pointer refers to: that the result is a client needs the object not to have been
freed. `TypeInv` adds `Live` (every address in the map holds an object),
`HeldLive` (so does every pointer held by `UpdateClientInfo`, kicked clients
included) and `HeldGrant` (the secret a login is about to store was granted
something). An action changes up to three parts of the state (registry, calls,
authentication), so the proof has an invariant per part and lemmas for the few
ways in which a part changes. The lemmas that do not mention authentication
(`SrsInv`) serve the SRS service by itself too; each service by itself needs in
addition that only its own steps are in progress (`SrsOnly`, `AuthOnly`).

*Radios.* `ClientHasRadio` is inductive given the types: `RegistrySteps` lists
the few actions that change the registry, and each adds to both maps, removes
from both, removes a client only, or writes a radio entry.

*Roles.* `RoleWithinGrant` is not inductive: `WriteRole` writes what
`CheckRole` compared with a role that has changed since. What survives is the
comparison with the *grant*: `PendingRole` says that the role a call is about
to write is not Guest and at most what its object was granted. It is preserved
because a grant never changes while an object is held (`GrantFixed`): the
address of a held object is not reused.

*Sessions.* A handler checks in one step and acts in a later one, when what it
checked may be gone. Each strengthening says what the call knows all the same,
which is something that is never taken back:

- `CheckedGuids`: past the look-up of its entry, a call's guid is in `issued`.
- `EntriesBacked`, `LoginsBacked`: an entry has no roles, or those granted to its
  guid with the secret *it* has; a login that comes second overwrites both at
  once. So a role selected from the entry was granted with the secret shown
  (`SecretBacksRole`), and then by the plugin (`RoleWasGranted`), which with
  `RoleWithinGrant` gives `RoleBackedByPlugin`.
- `CoalitionInv`: a coalition that a call looked up was configured, though it
  may have been removed from the list since. (`configured` only grows, so the
  list remains a sequence over it.)
- `OwnInv`: two sessions never share an object, and a call that holds the object
  of a session looked that very session up. Both rest on the allocator: an
  address that a call holds is not handed out again. It makes
  `ChangesByOwnCall` a statement about pointers: whoever writes through
  one writes to its own client, or to an object no longer in the map.

*Refinement.* The four invariants together (`SessionsInv`) map each step of the
composition to a step of `Sessions` or to a stutter, with a lemma for each way in
which a session changes: an object is written (`ObservedWrite`), added
(`ObservedAdd`) or removed from the map (`ObservedClose`); a restart is the
abstract step that ends all sessions.

The session properties are stated over variables that `SrsService` and
`AuthServer` share with the composition. The runs `SrsClients` and `AuthLogins`
check them of the services by themselves, with stand-ins for the other one; the
theorems are about the composed server, where both run.

**The voice server.** *Types*: a packet is parsed while the buffer is refilled
and both maps change, so `StepOK` states, per step, which fields have been read;
`HeldOK` says that a pointer still marked as in the map is to the entry of the
packet's sender (a removed entry has orphaned every pointer to it).
`VoiceClientsLoggedIn`: a hello past its check is from a guid that logged in once
(`LoginInv`), whether or not the session is still there. `FansOut`: at each point
of the loop, whoever listens all along is among the targets, in the rest of the
snapshot, or the one being looked up (`FanInv`); the lemma `ListensIsListening`
is about the operator `IsListeningOnFrequency`. Its first version was false:
see result 3 above.

**The control server's status.** `ControlStatusIsTrue` speaks of the time between
commands. It is not that a status that says running is right: after a failure of
`Serve` it is wrong until the next stop. It is that nothing else makes it wrong,
and that one that says stopped is right. Its strengthening `StatusInv` says what
holds during the commands. While the status is true and no stop is under way, the
server in `a.controlServer` is ready, holds the port unless its `Serve` has failed,
and its stop channel is the one in `StopSignals` and not closed (`InCharge`), so
its `handleShutdown` cannot have stopped it. No other server is ready
(`ReadyInCharge`), only a ready one is served (`ServingReady`), and one goroutine
at most has the listener (`ListenerHeld`): a late goroutine of
an earlier run that closes its listener does not close the current one. A stop
command sets the status only after the `Stop` of the server in charge is over
(`StopKnows`). The same is false of the voice server (`LifecycleStatus`), whose
goroutine sets the status itself.

**The GUI's view.** `ViewIsFresh` says that nothing is stale that was not missed
once nothing is on its way. `FreshInv` says where it is when something is: for
each such topic an event is at a publisher (`Announced`), in the publish queue,
with the dispatcher and not yet offered to the forwarder, in the forwarder's
channel, or in its hands (`InBus`). Each step of the bus moves an event from one
of the five places to the next; a drop makes the topic missed. A lemma per bus
step says so (`PublishType`, `TakeType`, `SendType`, ...).

*The bus.* `WildcardsGetLossyQueues` is the refinement of `LossyQueues` for
subscribers to everything, of which the forwarder is one: channel, current event
if not yet offered, and publish queue, one after the other, are its queue, and
what a full channel refuses is the element behind `Capacity` others. For a
subscriber to one name, the notifier, its part of the publish queue is a
`SelectSeq`; what that does to an appended or removed element is proved by
induction over sequences, which is out of reach here, so TLC alone checks it
(`BusImplementsQueues`).

**Files.** The invariants say what the *disk* has while the process may end at
any moment. `BansInv`: a list that can be read has the bans nobody lifted, and
none whose lifting was saved. `SettingsInv`: unless a write was cut off, the file
has what was last saved, or is being written, and a start that has read it has
it too. `CertificateInv`: there is no certificate key while the certificate is
written, and afterwards the certificate is of the pair whose key comes next; so
the test for the key file alone, which the code makes, is enough. `TokensInv`:
until the files are spoiled, one call at most is generating (`OneGenerates`), it
began while a file was missing, and so before there was a public key, which is the
file it writes last (that a public key never exists alone is part of the
invariant, and what a private key file that cannot be opened breaks); so
each pair that is used, in a token, or held by a call about to store it, is the
one in the files (`OnDisk`, `HoldsPair`).

**Remote peers.** `ConnectedIsPrepared` needs that a connection that is not up
gets a redialer again, though nothing ties the goroutines of a connection to one
another. `WatchedInv`: wherever a call can wake a connection, that connection has
a watcher. `TendedInv`: a connection is up, or gone for good, or a redialer will
call on it, or it is idle and a watcher has been woken that will start one; and
a connection that is up to a peer that does not know us has a redialer.
Connections woken by a login in between (`unnoticed`) are excepted, as in the
property. The steps that plugin and control server have in common are
proved once (`Steps`): `RedialerStep`, `ConnectionStep`, `OtherStep`.
`DisabledIsRedialed` is nearly inductive: whoever disables the plugin goes on as
a redialer or closes its connection, and a closed connection remains closed. It
needs only that the control server's client has no such setting (`EnabledInv`).

Each strengthening was checked with TLC before it was proved.

*Only model-checked*: liveness (`CallsAnswered`, `SilentClientsForgotten`,
`StopEnds`, `VoiceLoopEnds`, `RadiosAreShown`, `DispatchEnds`,
`ReconnectionEnds`), which the prover does not reach, and
`BusImplementsQueues` for the notifier.

## 5. Not modelled

- *Health reporting*: a map from service to status, written by one loop and
  only read by the health RPCs. Two of the three states it asks for are
  constants; the third takes the mutex of the auth service, whose leak `AuthInit`
  shows: the loop is one more caller that never comes back.
- *Requests without a field their handler dereferences*: `InitAuth` ends the
  process when the request has no capabilities (`srs/auth_service.go:102`), like
  the other panics. That a *token cannot be made* is an outcome of
  `AuthServer` (`Token`); that making it may panic on a torn key file is modelled
  in `TokenKeys` only.
- *Steps taken together*: a watcher of a plugin that finds the connection idle
  disables the plugin and starts the redialer in one step (`WatchPlugin`); the
  concurrent map access of a test-frequency packet is one with the writers
  under the lock, the delete of the cleanup included, whose outcome is the same
  (`PlayTestRace`).
- *HTTP server*: its status only. *Distributed modes*: they start a subset of
  the servers of the standalone mode; the control server's second listener
  serves a stub.
- *Banning*: `app/clients.go` cannot be reached from the GUI, whose service
  method calls itself, and nothing consults the list at a login.
- *Names, unit ids, time stamps of the registry*: written and shown, never
  decided upon.
- *Expiry of tokens*: left open (above). *Refresh of `Expires`*: any entry may
  expire at any time.
- *Values of the settings* other than the coalitions, the key files and a
  plugin's `Enabled`: whatever the file said.
- *Two server processes on one set of files*, and files edited while the server
  runs: the code takes no lock on a file and reads each of them once.
- *Unlocked string reads* (`SyncClient` and the GUI forwarder read structures
  while they are written): a data race whose outcome is a wrong or torn value in
  one answer, or a runtime abort; no state depends on it.
- *Audio playback of test frequencies*, the packet layout: no state another part
  reads.
- *HTTP, frontend, start-up*: no state worth a model.

## 6. Plan

Order of work, most important first.

1. **Done**: the registry with both services (`SettingsState`, `ServerState`,
   `Rpc`, `SrsService`, `AuthServer`, `ControlServer`), the abstract
   specification `Sessions`, type and safety proofs; `VoiceServer`.
2. **Done**: `EventBus` and the abstract `LossyQueues`; `AdminView`.
3. **Done**: `ServerLifecycle`, with its proofs.
4. **Done**: the files (`StateFiles`, `TokenKeys`, `Storage`), with crashes
   between the writes.
5. **Done**: `PluginClient` and `VoiceControlClient` (`Reconnection`,
   `Remotes`).
6. **Done**: proofs of the types and of every safety property of the runs, and
   the refinement of `Sessions`.
7. Left: abstract specifications of the files (a store whose content is the last
   saved or, after a cut-off write, unknown) and of the voice relay (who may
   receive a packet at all: the counterpart of `FansOut`), each with its
   refinement; the lemmas on `SelectSeq` that `BusImplementsQueues` would need,
   should an induction over sequences be available.
