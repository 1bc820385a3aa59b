------------------------------ MODULE AdminView ------------------------------
(***************************************************************************)
(* app/app.go and the publishers: does what the administrator is shown     *)
(* follow what the server does?                                            *)
(*                                                                         *)
(* A handler that changes the registry or the admin state publishes an     *)
(* event after the change (or before it, or not at all); the event goes    *)
(* through the EventBus to handleFrontendEmits, the forwarder, which emits *)
(* it to the GUI.  An event carries a REFERENCE to the registry map or the *)
(* admin state, so the GUI is shown the content of the moment it is        *)
(* emitted.  (Events of the ban list carry a copy and are not modelled.)   *)
(*                                                                         *)
(* Abstracted: the contents.  stale has the topics that changed since they *)
(* were last shown.  The handlers' own steps are in SrsService, AuthServer *)
(* and ServerLifecycle; here a handler is its last change and what it      *)
(* publishes about it.                                                     *)
(*                                                                         *)
(* History: missed has the topics of which a change was not published, was *)
(* published before it was made, or whose event was dropped while the GUI  *)
(* was out of date, as long as no other event has brought it up to date.   *)
(***************************************************************************)
EXTENDS EventBus

CONSTANTS
  Call,        \* goroutines: RPC handlers, GUI commands, start goroutines
  Forwarder, Notifier    \* the two subscribers of app.New

Topic        == {"clients", "radios", "admin"}
Changed(name) == [name |-> name]
Notification == Changed("notification")

ViewEvent == {Changed(t) : t \in Topic} \cup {Notification}

ViewSubscription ==
  [s \in Subscriber |-> IF s = Notifier THEN "notification" ELSE Any]

ASSUME ViewAssumption ==
  /\ Forwarder # Notifier /\ Subscriber = {Forwarder, Notifier}
  /\ Event = ViewEvent
  /\ Subscription = ViewSubscription

VARIABLES
  up,          \* the process runs
  gui,         \* built with the GUI (StartUp) or headless (HeadlessStartup)
  started,     \* the start-up has replaced DistributionState
  forwarder,   \* "starting", "running" or "gone"
  pc, arg,     \* per goroutine: next step, and the event it will publish
  stale, missed

viewVars == <<stale, missed>>
goVars   == <<pc, arg>>
modeVars == <<up, gui, started>>
vars == <<busVars, modeVars, forwarder, goVars, viewVars>>

AdminViewTypeOK ==
  /\ BusTypeOK
  /\ up \in BOOLEAN /\ gui \in BOOLEAN /\ started \in BOOLEAN
  /\ forwarder \in {"starting", "running", "gone"}
  /\ forwarder # "running" => held[Forwarder] = NoEvent
  /\ pc \in [Call -> {"idle", "publish", "notify", "status"}]
  /\ arg \in [Call -> Event \cup {NoEvent}]
  /\ stale \in SUBSET Topic
  /\ missed \in SUBSET Topic

\* A page reads the lists when it is opened.
AdminViewInit ==
  /\ BusInit
  /\ up = TRUE
  /\ gui \in BOOLEAN
  /\ started = FALSE
  /\ forwarder = "starting"
  /\ pc = [c \in Call |-> "idle"]
  /\ arg = [c \in Call |-> NoEvent]
  /\ stale = {} /\ missed = {}

\* The zero value of RuntimeMode, which New leaves there, is Headless.
RuntimeModeGUI == started /\ gui

StartUp ==
  /\ up /\ ~started
  /\ started' = TRUE
  /\ UNCHANGED <<busVars, up, gui, forwarder, goVars, viewVars>>

-----------------------------------------------------------------------------
(* The subscribers *)

\* handleFrontendEmits looks at the mode once, whether or not the application
\* has been started; it is not the GUI's then, and the goroutine ends.
StartForwarder ==
  /\ up /\ forwarder = "starting"
  /\ forwarder' = IF RuntimeModeGUI THEN "running" ELSE "gone"
  /\ IF RuntimeModeGUI THEN UNCHANGED <<stale, missed>>
                       ELSE stale' = {} /\ missed' = {}
  /\ UNCHANGED <<busVars, modeVars, goVars>>

TakeEvent ==
  /\ up /\ forwarder = "running"
  /\ Receive(Forwarder)
  /\ UNCHANGED <<modeVars, forwarder, goVars, viewVars>>

Emit ==
  /\ up
  /\ Handled(Forwarder)
  /\ stale' = stale \ {held[Forwarder].name}
  /\ missed' = missed \ {held[Forwarder].name}
  /\ UNCHANGED <<modeVars, forwarder, goVars>>

\* handleNotificationEvent logs it, and emits it if the mode is the GUI's now.
HandleNotification ==
  /\ up
  /\ Receive(Notifier) \/ Handled(Notifier)
  /\ UNCHANGED <<modeVars, forwarder, goVars, viewVars>>

-----------------------------------------------------------------------------
(* The publishers *)

Goto(c, step, e) ==
  /\ pc' = [pc EXCEPT ![c] = step]
  /\ arg' = [arg EXCEPT ![c] = e]

Done(c) == Goto(c, "idle", NoEvent)

Begin(c) == up /\ started /\ pc[c] = "idle"

\* The topics change; announced says of which an event follows.  Without a
\* forwarder nobody is shown anything.
Change(topics, announced) ==
  /\ IF forwarder = "gone" THEN UNCHANGED <<stale, missed>>
     ELSE /\ stale' = stale \cup topics
          /\ missed' = missed \cup (topics \ announced)

Unseen == UNCHANGED <<modeVars, forwarder>>

\* The change, then in a later step its event; or, after an error, no event.
ChangeAndPublish(c, topics, name) ==
  /\ \/ Change(topics, {name}) /\ Goto(c, "publish", Changed(name))
     \/ Change(topics, {}) /\ Done(c)
  /\ Begin(c)
  /\ UNCHANGED busVars /\ Unseen

\* GuestLogin, UnitSelect: AddClient, then the token (which may fail).
\* Disconnect: cleanupClientState, with an event only if the client had both
\* entries.  All of them change both maps and announce one.
Login(c)      == ChangeAndPublish(c, {"clients", "radios"}, "clients")
Disconnect(c) == ChangeAndPublish(c, {"clients", "radios"}, "clients")

\* With one invalid field the valid ones are written and nothing is published.
UpdateClientInfo(c) == ChangeAndPublish(c, {"clients"}, "clients")

\* Mutant: announced as a change of the other map.
UpdateRadioInfoMisnamed(c) ==
  /\ Begin(c)
  /\ Change({"radios"}, {"radios"})
  /\ Goto(c, "publish", Changed("clients"))
  /\ UNCHANGED busVars /\ Unseen

UpdateRadioInfo(c) ==
  /\ Begin(c)
  /\ Change({"radios"}, {"radios"})
  /\ Goto(c, "publish", Changed("radios"))
  /\ UNCHANGED busVars /\ Unseen

SyncClient(c) ==
  /\ Begin(c)
  /\ Publish(Changed("clients"))
  /\ UNCHANGED <<goVars, viewVars>> /\ Unseen

\* Mutant: an event on its way is thought to be enough.
PublishEventOnce(c) ==
  /\ up /\ pc[c] = "publish"
  /\ IF Pending[Forwarder] = <<>> THEN Publish(arg[c]) ELSE UNCHANGED busVars
  /\ Done(c)
  /\ UNCHANGED viewVars /\ Unseen

PublishEvent(c) ==
  /\ up /\ pc[c] = "publish"
  /\ Publish(arg[c])
  /\ Done(c)
  /\ UNCHANGED viewVars /\ Unseen

\* KickClient, MuteClient, UnmuteClient: changed and published under the
\* registry's lock, then the notification.
CommandClients(c) ==
  \E topic \in {"clients", "radios"} :
    /\ Begin(c)
    /\ Change({topic}, {topic})
    /\ Publish(Changed(topic))
    /\ Goto(c, "notify", NoEvent)
    /\ Unseen

\* A command that finds nothing to do, or that failed, only notifies.
Notify(c) ==
  /\ up /\ started /\ pc[c] \in {"idle", "notify"}
  /\ Publish(Notification)
  /\ Done(c)
  /\ UNCHANGED viewVars /\ Unseen

\* startVoiceServer, startHTTPServer: the event is published by the command,
\* the status is set by the goroutine it started, then or later.
StartServer(c) ==
  /\ Begin(c)
  /\ Publish(Changed("admin"))
  /\ Goto(c, "status", NoEvent)
  /\ UNCHANGED viewVars /\ Unseen

\* Set to running; and set back, with a notification, when listening fails.
SetStatus(c) ==
  /\ up /\ pc[c] = "status"
  /\ Change({"admin"}, {})
  /\ Done(c) \/ Goto(c, "notify", NoEvent)
  /\ UNCHANGED busVars /\ Unseen

\* startGrpcServer and every stop command: the status, then the event, except
\* after an error.
SwitchServer(c) == ChangeAndPublish(c, {"admin"}, "admin")

-----------------------------------------------------------------------------
\* The application is closed or killed; or the GUI reads the registry maps, which
\* it does without the lock, while a client is added or deleted, and the Go
\* runtime notices and ends the process.
Crash ==
  /\ up
  /\ up' = FALSE
  /\ BusCrash
  /\ started' = FALSE
  /\ forwarder' = "starting"
  /\ pc' = [c \in Call |-> "idle"]
  /\ arg' = [c \in Call |-> NoEvent]
  /\ stale' = {} /\ missed' = {}
  /\ UNCHANGED gui

Restart ==
  /\ ~up
  /\ up' = TRUE
  /\ UNCHANGED <<busVars, gui, started, forwarder, goVars, viewVars>>

Continue(c) ==
  \/ PublishEvent(c)
  \/ pc[c] = "notify" /\ Notify(c)
  \/ SetStatus(c)

NewCommand(c) ==
  \/ Login(c) \/ Disconnect(c) \/ UpdateClientInfo(c) \/ UpdateRadioInfo(c)
  \/ SyncClient(c) \/ CommandClients(c)
  \/ pc[c] = "idle" /\ Notify(c)
  \/ StartServer(c) \/ SwitchServer(c)

\* An event that no room is left for is a change the GUI misses.
RunDispatcher ==
  /\ up
  /\ Dispatch
  /\ missed' = IF /\ rest' # rest /\ Forwarder \in rest \ rest'
                  /\ ~HasRoom(Forwarder) /\ forwarder # "gone"
               THEN missed \cup ({current.name} \cap stale) ELSE missed
  /\ UNCHANGED <<modeVars, forwarder, goVars, stale>>

Forward == StartForwarder \/ TakeEvent \/ Emit

AdminViewNext ==
  \/ StartUp \/ Forward \/ HandleNotification
  \/ RunDispatcher
  \/ \E c \in Call : Continue(c) \/ NewCommand(c)
  \/ Crash \/ Restart

AdminViewSpec == AdminViewInit /\ [][AdminViewNext]_vars

\* The scheduler runs the start-up, the goroutines of the bus and of its
\* subscribers, and every handler that has begun.
AdminViewFairSpec ==
  /\ AdminViewSpec
  /\ WF_vars(StartUp) /\ WF_vars(Forward) /\ WF_vars(HandleNotification)
  /\ WF_vars(RunDispatcher)
  /\ \A c \in Call : WF_vars(Continue(c))

-----------------------------------------------------------------------------
(* Properties *)

\* Nothing is on its way to the GUI.
Settled ==
  /\ publishQueue = <<>> /\ current = NoEvent
  /\ \A c \in Call : pc[c] = "idle"
  /\ held = [s \in Subscriber |-> NoEvent]
  /\ forwarder = "gone" \/ (forwarder = "running" /\ channel[Forwarder] = <<>>)

\* Once nothing is on its way, the GUI shows what the server holds, but for
\* the topics of which a change was never announced, was announced too early,
\* or was dropped on a full channel: no interleaving of handlers, dispatcher
\* and forwarder leaves anything else out of date.
ViewIsFresh ==
  Settled /\ forwarder = "running" => stale \subseteq missed

\* A change of the radios that is announced is shown in the end, or its event is
\* dropped (the other topics go the same way).
RadiosAreShown ==
  "radios" \in stale \ missed ~> "radios" \notin stale \ missed

\* The dispatcher comes back for the next event, although one of the subscribers
\* may be gone for ever with a full channel.
DispatchEnds == current # NoEvent ~> current = NoEvent

\* The events of the bus reach each subscriber as the abstract module
\* LossyQueues says: in the order of publication, each once, and none is lost
\* unless Capacity others are waiting.
BusImplementsQueues == Queues!Spec
=============================================================================
