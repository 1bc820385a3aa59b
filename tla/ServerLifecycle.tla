--------------------------- MODULE ServerLifecycle ---------------------------
(***************************************************************************)
(* app/server_control.go: starting and stopping the control and the voice  *)
(* server from the GUI, with the parts of control/server.go and            *)
(* voice/server.go that start and stop.                                    *)
(*                                                                         *)
(* The GUI disables its button while a command runs (ServerControl.tsx),   *)
(* so there is one command at a time.  What interleaves with it are the    *)
(* goroutines of this and of EARLIER commands: nobody waits for them, and  *)
(* they read a.voiceServer, which a later command may have replaced, when  *)
(* they need it.                                                           *)
(*                                                                         *)
(* A run stands for everything one start command creates: a server object  *)
(* and a stop channel per service, and the goroutines.  A run that nothing *)
(* refers to any more is used again.                                       *)
(*                                                                         *)
(* Abstracted: the HTTP server, started and stopped like the voice server; *)
(* all the other two see of it is its status, which is left open; ports    *)
(* are not changed between commands; error texts.                          *)
(***************************************************************************)

CONSTANTS
  Run,      \* bound: runs that something still refers to
  NoRun     \* a nil pointer, an absent channel, an unbound port

ASSUME NoRunAssumption == NoRun \notin Run

Service == {"control", "voice"}

VARIABLES
  up,         \* FALSE once a panic has ended the process
  cmd,        \* the command of the GUI and the run it starts
  status,     \* AdminState: service -> IsRunning
  signal,     \* a.StopSignals: service -> run whose channel it is
  server,     \* a.controlServer, a.voiceServer
  closed,     \* stop channels that are closed
  socket,     \* service -> run whose server object holds the bound port
  thread,     \* the goroutine that serves, per service and run
  uses,       \* the voice.Server object that goroutine called Listen on
  control,    \* control.Server objects
  listening,  \* of the object a.voiceServer: running
  ended       \* of the object a.voiceServer: its own stopChan is closed

appVars    == <<status, signal, server, closed>>
threadVars == <<socket, thread, uses>>
objectVars == <<control, listening, ended>>
vars == <<up, cmd, appVars, threadVars, objectVars>>

StartStep == {"startGrpc", "startVoice"}
StopStep  == {"stopVoice", "voiceStop", "voiceStopped",
              "stopControl", "controlStop", "controlStopped"}
ThreadStep == {"none", "new", "status", "listen", "serve", "serving", "fail"}

\* grpc: s.clientGrpcServer, nil after GracefulStop; running: s.isRunning; once:
\* s.stopOnce; waiting: the goroutine handleShutdown lives; stuck: GracefulStop
\* waits for a call that never ends, one that waits for a mutex nobody will
\* release (see AuthServer).
ControlObject == [grpc : {"nil", "ready", "stopping"},
                  running : BOOLEAN,
                  once : {"new", "busy", "done"},
                  waiting : BOOLEAN, stuck : BOOLEAN]

NewControl == [grpc |-> "nil", running |-> FALSE, once |-> "new",
               waiting |-> FALSE, stuck |-> FALSE]

Started == [NewControl EXCEPT !.grpc = "ready", !.running = TRUE, !.waiting = TRUE]

LifecycleInit ==
  /\ up = TRUE
  /\ cmd = [step |-> "idle", run |-> NoRun]
  /\ status = [s \in Service |-> FALSE]
  /\ signal = [s \in Service |-> NoRun]
  /\ server = [s \in Service |-> NoRun]
  /\ closed = [s \in Service |-> {}]
  /\ socket = [s \in Service |-> NoRun]
  /\ thread = [s \in Service |-> [r \in Run |-> "none"]]
  /\ uses = [r \in Run |-> NoRun]
  /\ control = [r \in Run |-> NewControl]
  /\ listening = FALSE /\ ended = FALSE

At(step) == up /\ cmd.step = step
Then(step) == cmd' = [cmd EXCEPT !.step = step] /\ UNCHANGED up
Idle == cmd' = [step |-> "idle", run |-> NoRun] /\ UNCHANGED up

Panic ==
  /\ up' = FALSE
  /\ cmd' = [step |-> "idle", run |-> NoRun]
  /\ status' = [s \in Service |-> FALSE]
  /\ signal' = [s \in Service |-> NoRun]
  /\ server' = [s \in Service |-> NoRun]
  /\ closed' = [s \in Service |-> {}]
  /\ socket' = [s \in Service |-> NoRun]
  /\ thread' = [s \in Service |-> [r \in Run |-> "none"]]
  /\ uses' = [r \in Run |-> NoRun]
  /\ control' = [r \in Run |-> NewControl]
  /\ listening' = FALSE /\ ended' = FALSE

Unused(r) ==
  /\ \A s \in Service :
       r \notin {server[s], socket[s], signal[s]} /\ thread[s][r] = "none"
  /\ \A q \in Run : uses[q] # r
  /\ ~control[r].waiting

-----------------------------------------------------------------------------
(* StartStandaloneServer, if HTTPStatus allows it *)

StartStandaloneServer(r) ==
  /\ At("idle")
  /\ \A s \in Service : ~status[s]
  /\ Unused(r)
  /\ cmd' = [step |-> "startGrpc", run |-> r]
  /\ closed' = [s \in Service |-> closed[s] \ {r}]
  /\ control' = [control EXCEPT ![r] = NewControl]
  /\ UNCHANGED <<up, status, signal, server, threadVars, listening, ended>>

\* Start binds the port or fails (in which case the mutex of the new object
\* stays locked, but nobody calls the object again: its status is false).
\* Neither goroutine it starts looks at the status set afterwards.
startGrpcServer ==
  /\ At("startGrpc")
  /\ signal' = [signal EXCEPT !.control = cmd.run]
  /\ server' = [server EXCEPT !.control = cmd.run]
  /\ \/ /\ socket.control = NoRun
        /\ socket' = [socket EXCEPT !.control = cmd.run]
        /\ control' = [control EXCEPT ![cmd.run] = Started]
        /\ thread' = [thread EXCEPT !.control[cmd.run] = "serve"]
        /\ status' = [status EXCEPT !.control = TRUE]
     \/ /\ status' = [status EXCEPT !.control = FALSE]
        /\ UNCHANGED <<socket, control, thread>>
  /\ Then("startVoice")
  /\ UNCHANGED <<closed, uses, listening, ended>>

\* The status may be true again: a goroutine of an earlier command set it.
startVoiceServer ==
  /\ At("startVoice")
  /\ IF status.voice
     THEN UNCHANGED <<signal, thread>>
     ELSE /\ signal' = [signal EXCEPT !.voice = cmd.run]
          /\ thread' = [thread EXCEPT !.voice[cmd.run] = "new"]
  /\ Idle
  /\ UNCHANGED <<status, server, closed, socket, uses, objectVars>>

-----------------------------------------------------------------------------
(* The goroutine that startVoiceServer starts *)

\* Mutant: the new server is assigned to a variable of the goroutine.
NewShadowed(r) ==
  /\ up
  /\ thread.voice[r] = "new"
  /\ thread' = [thread EXCEPT !.voice[r] = "status"]
  /\ UNCHANGED <<up, cmd, appVars, socket, uses, objectVars>>

NewServer(r) ==
  /\ up
  /\ thread.voice[r] = "new"
  /\ server' = [server EXCEPT !.voice = r]
  /\ thread' = [thread EXCEPT !.voice[r] = "status"]
  /\ listening' = FALSE /\ ended' = FALSE
  /\ UNCHANGED <<up, cmd, status, signal, closed, socket, uses, control>>

MarkRunning(r) ==
  /\ up
  /\ thread.voice[r] = "status"
  /\ status' = [status EXCEPT !.voice = TRUE]
  /\ thread' = [thread EXCEPT !.voice[r] = "listen"]
  /\ UNCHANGED <<up, cmd, signal, server, closed, socket, uses, objectVars>>

\* Binds the port for the object that a.voiceServer is by now, unless it is
\* taken (by an earlier server, or another program).
Listen(r) ==
  /\ up
  /\ thread.voice[r] = "listen"
  /\ \/ /\ socket.voice = NoRun
        /\ socket' = [socket EXCEPT !.voice = server.voice]
        /\ uses' = [uses EXCEPT ![r] = server.voice]
        /\ listening' = TRUE
        /\ thread' = [thread EXCEPT !.voice[r] = "serving"]
     \/ /\ thread' = [thread EXCEPT !.voice[r] = "fail"]
        /\ UNCHANGED <<socket, uses, listening>>
  /\ UNCHANGED <<up, cmd, appVars, control, ended>>

\* Mutant: the socket is read without a deadline.
LoopBlocked(r) ==
  /\ up
  /\ thread.voice[r] = "serving"
  /\ socket.voice # uses[r]
  /\ thread' = [thread EXCEPT !.voice[r] = "fail"]
  /\ UNCHANGED <<up, cmd, appVars, socket, uses, objectVars>>

\* The loop polls the stop channel it was started with and returns, without
\* closing the socket.  If somebody else closed the socket, setting the read
\* deadline fails, also when the channel was closed just after it was polled.
Loop(r) ==
  /\ up
  /\ thread.voice[r] = "serving"
  /\ \/ /\ r \in closed.voice
        /\ thread' = [thread EXCEPT !.voice[r] = "none"]
        /\ uses' = [uses EXCEPT ![r] = NoRun]
     \/ /\ socket.voice # uses[r]
        /\ thread' = [thread EXCEPT !.voice[r] = "fail"]
        /\ UNCHANGED uses
  /\ UNCHANGED <<up, cmd, appVars, socket, objectVars>>

\* The last step after an error, whichever command is current by then.
MarkFailed(r) ==
  /\ up
  /\ thread.voice[r] = "fail"
  /\ status' = [status EXCEPT !.voice = FALSE]
  /\ thread' = [thread EXCEPT !.voice[r] = "none"]
  /\ uses' = [uses EXCEPT ![r] = NoRun]
  /\ UNCHANGED <<up, cmd, signal, server, closed, socket, objectVars>>

-----------------------------------------------------------------------------
(* The goroutine serveClient of the control server *)

\* serveClient reads s.clientGrpcServer without a lock: if Stop is over, the
\* pointer is nil and Serve panics; if it has begun, Serve closes the listener
\* and returns an error.
ServeClient(r) ==
  /\ up
  /\ thread.control[r] = "serve"
  /\ \/ /\ control[r].grpc = "ready"
        /\ thread' = [thread EXCEPT !.control[r] = "serving"]
        /\ UNCHANGED <<up, cmd, appVars, socket, uses, objectVars>>
     \/ /\ control[r].grpc = "stopping"
        /\ thread' = [thread EXCEPT !.control[r] = "fail"]
        /\ socket' = [socket EXCEPT !.control = NoRun]
        /\ UNCHANGED <<up, cmd, appVars, uses, objectVars>>
     \/ control[r].grpc = "nil" /\ Panic

\* Accepting a connection fails for good: Serve closes the listener and returns.
ServeFails(r) ==
  /\ up
  /\ thread.control[r] = "serving"
  /\ thread' = [thread EXCEPT !.control[r] = "fail"]
  /\ socket' = [socket EXCEPT !.control = NoRun]
  /\ UNCHANGED <<up, cmd, appVars, uses, objectVars>>

\* serveClient after an error of Serve.  The application is not told.
ServeReturned(r) ==
  /\ up
  /\ thread.control[r] = "fail"
  /\ control' = [control EXCEPT ![r].running = FALSE]
  /\ thread' = [thread EXCEPT !.control[r] = "none"]
  /\ UNCHANGED <<up, cmd, appVars, socket, uses, listening, ended>>

-----------------------------------------------------------------------------
(* control.Server.Stop, called by the command and by handleShutdown: the    *)
(* first to come runs the body of stopOnce, the other waits for its end     *)

StopCalled(r) ==
  /\ up
  /\ control[r].once = "new"
  /\ \/ At("controlStop") /\ server.control = r
     \/ control[r].waiting /\ r \in closed.control

\* Mutant: isRunning becomes false before it is looked at.
StopMarksFirst(r) ==
  /\ StopCalled(r)
  /\ control' = [control EXCEPT ![r] = [@ EXCEPT !.once = "done", !.running = FALSE]]
  /\ UNCHANGED <<up, cmd, appVars, threadVars, listening, ended>>

\* A server whose Serve has failed is left as it is.  Otherwise isRunning becomes
\* false and GracefulStop closes the listener being served and begins to wait
\* for the calls in flight, one of which may be stuck.
BeginStop(r) ==
  /\ StopCalled(r)
  /\ \/ /\ ~control[r].running
        /\ control' = [control EXCEPT ![r].once = "done"]
        /\ UNCHANGED <<socket, thread>>
     \/ /\ control[r].running
        /\ \E stuck \in IF thread.control[r] = "serve" THEN {FALSE} ELSE BOOLEAN :
             control' = [control EXCEPT ![r] = [@ EXCEPT
               !.once = "busy", !.grpc = "stopping", !.running = FALSE, !.stuck = stuck]]
        /\ IF thread.control[r] = "serving"
           THEN /\ socket' = [socket EXCEPT !.control = NoRun]
                /\ thread' = [thread EXCEPT !.control[r] = "none"]
           ELSE UNCHANGED <<socket, thread>>
  /\ UNCHANGED <<up, cmd, appVars, uses, listening, ended>>

\* Mutant: Stop waits for the goroutines that Start started.
FinishStopLast(r) ==
  /\ up
  /\ control[r].once = "busy"
  /\ ~control[r].stuck
  /\ ~control[r].waiting
  /\ control' = [control EXCEPT ![r] = [@ EXCEPT !.once = "done", !.grpc = "nil"]]
  /\ UNCHANGED <<up, cmd, appVars, threadVars, listening, ended>>

\* GracefulStop returns when the calls in flight have ended.
FinishStop(r) ==
  /\ up
  /\ control[r].once = "busy"
  /\ ~control[r].stuck
  /\ control' = [control EXCEPT ![r] = [@ EXCEPT !.once = "done", !.grpc = "nil"]]
  /\ UNCHANGED <<up, cmd, appVars, threadVars, listening, ended>>

\* Nothing is read of the object from here on but stopOnce, by the command.
handleShutdown(r) ==
  /\ up
  /\ control[r].waiting
  /\ control[r].once = "done"
  /\ r \in closed.control
  /\ control' = [control EXCEPT ![r] = [NewControl EXCEPT !.once = "done"]]
  /\ UNCHANGED <<up, cmd, appVars, threadVars, listening, ended>>

-----------------------------------------------------------------------------
(* StopServer *)

\* Some status is true, if only the HTTP server's.
StopServer ==
  /\ At("idle")
  /\ Then("stopVoice")
  /\ UNCHANGED <<appVars, threadVars, objectVars>>

\* Closes the service's stop channel and forgets it, or finds the service not
\* running and goes on with the next one.
CloseSignal(s, step, stop, skip) ==
  /\ At(step)
  /\ IF status[s]
     THEN /\ closed' = [closed EXCEPT ![s] = @ \cup ({signal[s]} \ {NoRun})]
          /\ signal' = [signal EXCEPT ![s] = NoRun]
          /\ Then(stop)
     ELSE Then(skip) /\ UNCHANGED <<closed, signal>>
  /\ UNCHANGED <<status, server, threadVars, objectVars>>

MarkStopped(s, step, next) ==
  /\ At(step)
  /\ status' = [status EXCEPT ![s] = FALSE]
  /\ next
  /\ UNCHANGED <<signal, server, closed, threadVars, objectVars>>

\* voice.Server.Stop.  Listening again after it would close stopChan twice, and so
\* would stopping again after an error of Close, which leaves both statuses true.
VoiceStop ==
  /\ At("voiceStop")
  /\ \/ /\ listening /\ ended
        /\ Panic
     \/ /\ listening /\ ~ended
        /\ listening' = FALSE
        /\ ended' = TRUE
        /\ socket' = [socket EXCEPT !.voice = NoRun]
        /\ Then("voiceStopped")
        /\ UNCHANGED <<appVars, thread, uses, control>>
     \/ /\ listening /\ ~ended
        /\ ended' = TRUE
        /\ socket' = [socket EXCEPT !.voice = NoRun]
        /\ Then("stopControl")
        /\ UNCHANGED <<appVars, thread, uses, control, listening>>
     \/ /\ ~listening
        /\ Then("voiceStopped")
        /\ UNCHANGED <<appVars, threadVars, objectVars>>

ControlStop ==
  /\ At("controlStop")
  /\ control[server.control].once = "done"
  /\ Then("controlStopped")
  /\ UNCHANGED <<appVars, threadVars, objectVars>>

Command ==
  \/ startGrpcServer \/ startVoiceServer
  \/ CloseSignal("voice", "stopVoice", "voiceStop", "stopControl")
  \/ VoiceStop
  \/ MarkStopped("voice", "voiceStopped", Then("stopControl"))
  \/ CloseSignal("control", "stopControl", "controlStop", "idle")
  \/ ControlStop
  \/ MarkStopped("control", "controlStopped", Idle)

Serve(r) ==
  \/ NewServer(r) \/ MarkRunning(r) \/ Listen(r) \/ Loop(r) \/ MarkFailed(r)
  \/ ServeClient(r) \/ ServeReturned(r)

Stopping(r) == BeginStop(r) \/ FinishStop(r) \/ handleShutdown(r)

LifecycleNext ==
  \/ StopServer
  \/ Command
  \/ \E r \in Run : \/ StartStandaloneServer(r) \/ ServeFails(r)
                    \/ Serve(r) \/ Stopping(r)

LifecycleSpec == LifecycleInit /\ [][LifecycleNext]_vars

\* The Go scheduler runs what can run; GracefulStop waits as long as it takes.
LifecycleFairSpec ==
  /\ LifecycleSpec
  /\ WF_vars(Command)
  /\ \A r \in Run : WF_vars(Serve(r)) /\ WF_vars(Stopping(r))

-----------------------------------------------------------------------------
(* Properties *)

\* Types, and that Listen was never called on a nil server.
LifecycleTypeOK ==
  /\ up \in BOOLEAN
  /\ cmd \in [step : StartStep \cup StopStep \cup {"idle"}, run : Run \cup {NoRun}]
  /\ status \in [Service -> BOOLEAN]
  /\ signal \in [Service -> Run \cup {NoRun}]
  /\ server \in [Service -> Run \cup {NoRun}]
  /\ closed \in [Service -> SUBSET Run]
  /\ socket \in [Service -> Run \cup {NoRun}]
  /\ thread \in [Service -> [Run -> ThreadStep]]
  /\ uses \in [Run -> Run \cup {NoRun}]
  /\ control \in [Run -> ControlObject]
  /\ listening \in BOOLEAN /\ ended \in BOOLEAN
  /\ listening => server.voice \in Run

\* Serve of the server has returned an error on its own: Stop has not begun.
ServeFailed(r) ==
  /\ control[r].once = "new"
  /\ thread.control[r] = "fail" \/ ~control[r].running

\* Between two commands the status shown for the control server can only be
\* wrong in one way: its Serve has failed and nobody told the application.
\* If it says running, the server in charge is one that no Stop has touched,
\* and it holds the port or its Serve has failed and the port is free; if it
\* does not, no server accepts connections, though handleShutdown, the command
\* and a failing Serve all end servers, and the port is free but for a server
\* that was stopped before serveClient came to run.
ControlStatusIsTrue ==
  up /\ cmd.step = "idle" =>
    /\ status.control =>
         /\ control[server.control].grpc = "ready"
         /\ control[server.control].once = "new"
         /\ IF ServeFailed(server.control) THEN socket.control = NoRun
                                           ELSE socket.control = server.control
    /\ ~status.control =>
         /\ \A r \in Run : thread.control[r] # "serving"
         /\ socket.control # NoRun => thread.control[socket.control] = "serve"

\* A stop command comes back to the GUI, unless a call that never ends keeps
\* GracefulStop waiting: the command and handleShutdown, which call Stop for
\* one server at one time, do not wait for each other.
StopEnds ==
  cmd.step \in StopStep ~>
    cmd.step = "idle" \/ ~up \/ \E r \in Run : control[r].stuck

\* The receive loop of a voice server whose stop channel is closed ends, also
\* when the stop came before the socket was bound or while another server
\* object had taken its place.
VoiceLoopEnds ==
  \A r \in Run :
    thread.voice[r] # "none" /\ r \in closed.voice ~> thread.voice[r] = "none" \/ ~up

-----------------------------------------------------------------------------
(* Claims of the repository that the code does not keep *)

\* app/app.go:254 "GetServerStatus returns the status of the Control, HTTP and
\* Voice servers": when no command runs and no goroutine is starting, ending or
\* failing, and closing the socket has not failed, the status of the voice server
\* says whether its port is bound.
AtRest ==
  /\ up
  /\ cmd.step = "idle"
  /\ ~(listening /\ ended)
  /\ \A r \in Run : /\ thread.voice[r] \in {"none", "serving"}
                    /\ thread.voice[r] = "serving" => r \notin closed.voice

VoiceStatusIsTrue == AtRest => (status.voice <=> socket.voice # NoRun)
=============================================================================
