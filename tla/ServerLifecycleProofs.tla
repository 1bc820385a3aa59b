------------------------ MODULE ServerLifecycleProofs ------------------------
(***************************************************************************)
(* Proofs about ServerLifecycle, for any number of runs: the types, and    *)
(* that the status of the control server is true between two commands, up  *)
(* to a failure of Serve, which the status does not show.                  *)
(***************************************************************************)
EXTENDS ServerLifecycle, TLAPS

\* Listen is called on a.voiceServer, which NewServer has set by then.
VoiceServerKnown ==
  \A r \in Run : thread.voice[r] \in {"status", "listen"} => server.voice \in Run

TypeInv == LifecycleTypeOK /\ VoiceServerKnown

-----------------------------------------------------------------------------
(* The inductive invariant behind ControlStatusIsTrue *)

\* The run a start command has just begun: nobody can have stopped its server.
FreshRun ==
  cmd.step = "startGrpc" =>
    /\ cmd.run \in Run /\ cmd.run \notin closed.control
    /\ control[cmd.run] = NewControl
    /\ ~status.control

\* While the control server is running and not being stopped, the next stop
\* will reach it, nothing has stopped it before, and if it does not hold the
\* port its Serve has failed.
InCharge ==
  status.control /\ cmd.step \notin {"controlStop", "controlStopped"} =>
    /\ server.control \in Run /\ server.control \notin closed.control
    /\ signal.control = server.control
    /\ control[server.control].grpc = "ready"
    /\ control[server.control].once = "new"
    /\ socket.control \in {server.control, NoRun}
    /\ socket.control = NoRun => ServeFailed(server.control)

\* A stop command reports success after the server it stopped has stopped.
StopKnows ==
  /\ cmd.step \in {"controlStop", "controlStopped"} => server.control \in Run
  /\ cmd.step = "controlStopped" => control[server.control].once = "done"

\* The goroutine that has the listener is the one that serves, or is about to.
ListenerHeld ==
  \A r \in Run :
    /\ thread.control[r] \in {"none", "serve", "serving", "fail"}
    /\ thread.control[r] \in {"serve", "serving"} <=> socket.control = r

\* Of all servers only the one in charge is ready, and only before its Stop; or
\* Stop returned early, its Serve having failed.
ReadyInCharge ==
  \A r \in Run :
    control[r].grpc = "ready" =>
      \/ control[r].once = "new" /\ status.control /\ server.control = r
      \/ control[r].once = "done" /\ ~control[r].running

\* serveClient has ended once it has said that the server does not run, and
\* nobody accepts connections for a server that is being stopped.
ServingReady ==
  \A r \in Run :
    /\ thread.control[r] = "serving" => control[r].grpc = "ready"
    /\ control[r].grpc = "ready" /\ ~control[r].running => thread.control[r] = "none"

StatusInv ==
  /\ FreshRun
  /\ InCharge
  /\ StopKnows
  /\ ListenerHeld
  /\ ReadyInCharge
  /\ ServingReady
-----------------------------------------------------------------------------
(* Types *)

\* What a goroutine does next, and who holds a port, are written one by one.
LEMMA SetThread ==
  ASSUME thread \in [Service -> [Run -> ThreadStep]],
         NEW s \in Service, NEW r \in Run, NEW step \in ThreadStep
  PROVE  [thread EXCEPT ![s][r] = step] \in [Service -> [Run -> ThreadStep]]
OBVIOUS

LEMMA SetPort ==
  ASSUME socket \in [Service -> Run \cup {NoRun}],
         NEW s \in Service, NEW r \in Run \cup {NoRun}
  PROVE  [socket EXCEPT ![s] = r] \in [Service -> Run \cup {NoRun}]
OBVIOUS

LEMMA NewControlType == NewControl \in ControlObject /\ Started \in ControlObject
BY DEF NewControl, Started, ControlObject

LEMMA NoThreads ==
  [s \in Service |-> [r \in Run |-> "none"]] \in [Service -> [Run -> ThreadStep]]
BY DEF ThreadStep

LEMMA PanicTypes == Panic => TypeInv'
<1> SUFFICES ASSUME Panic PROVE TypeInv'
  OBVIOUS
<1>1. thread' \in [Service -> [Run -> ThreadStep]]
  BY NoThreads DEF Panic
<1>2. control' \in [Run -> ControlObject]
  BY NewControlType DEF Panic
<1>3. /\ up' \in BOOLEAN /\ listening' \in BOOLEAN /\ ended' \in BOOLEAN
      /\ cmd' \in [step : StartStep \cup StopStep \cup {"idle"}, run : Run \cup {NoRun}]
      /\ status' \in [Service -> BOOLEAN] /\ closed' \in [Service -> SUBSET Run]
  BY DEF Panic
<1>4. /\ signal' \in [Service -> Run \cup {NoRun}]
      /\ server' \in [Service -> Run \cup {NoRun}]
      /\ socket' \in [Service -> Run \cup {NoRun}]
      /\ uses' \in [Run -> Run \cup {NoRun}]
  BY DEF Panic
<1>5. VoiceServerKnown' /\ ~listening'
  BY DEF Panic, VoiceServerKnown, Service
<1>6. QED
  BY <1>1, <1>2, <1>3, <1>4, <1>5 DEF TypeInv, LifecycleTypeOK

LEMMA InitTypes == LifecycleInit => TypeInv
<1> SUFFICES ASSUME LifecycleInit PROVE TypeInv
  OBVIOUS
<1>1. thread \in [Service -> [Run -> ThreadStep]]
  BY NoThreads DEF LifecycleInit
<1>2. control \in [Run -> ControlObject]
  BY NewControlType DEF LifecycleInit
<1>3. /\ up \in BOOLEAN /\ listening \in BOOLEAN /\ ended \in BOOLEAN
      /\ cmd \in [step : StartStep \cup StopStep \cup {"idle"}, run : Run \cup {NoRun}]
      /\ status \in [Service -> BOOLEAN] /\ closed \in [Service -> SUBSET Run]
  BY DEF LifecycleInit
<1>4. /\ signal \in [Service -> Run \cup {NoRun}]
      /\ server \in [Service -> Run \cup {NoRun}]
      /\ socket \in [Service -> Run \cup {NoRun}]
      /\ uses \in [Run -> Run \cup {NoRun}]
  BY DEF LifecycleInit
<1>5. VoiceServerKnown /\ ~listening
  BY DEF LifecycleInit, VoiceServerKnown, Service
<1>6. QED
  BY <1>1, <1>2, <1>3, <1>4, <1>5 DEF TypeInv, LifecycleTypeOK

\* The goroutines keep the types.
LEMMA ServeTypes ==
  ASSUME TypeInv, NEW r \in Run, Serve(r)
  PROVE  TypeInv'
<1> USE DEF TypeInv, LifecycleTypeOK, VoiceServerKnown, Service, ThreadStep,
            appVars, threadVars, objectVars
<1>1. CASE NewServer(r)
  BY <1>1 DEF NewServer
<1>2. CASE MarkRunning(r)
  BY <1>2 DEF MarkRunning
<1>3. CASE Listen(r)
  <2>1. /\ thread' \in [Service -> [Run -> ThreadStep]]
        /\ \A q \in Run : q # r => thread'.voice[q] = thread.voice[q]
        /\ thread'.voice[r] \in {"serving", "fail"}
    BY <1>3 DEF Listen
  <2>2. socket' \in [Service -> Run \cup {NoRun}] /\ uses' \in [Run -> Run \cup {NoRun}]
    BY <1>3 DEF Listen
  <2>3. listening' \in BOOLEAN /\ (listening' => server.voice \in Run)
    BY <1>3 DEF Listen
  <2>4. UNCHANGED <<up, cmd, appVars, control, ended>>
    BY <1>3 DEF Listen
  <2>5. QED
    BY <2>1, <2>2, <2>3, <2>4
<1>4. CASE Loop(r)
  BY <1>4 DEF Loop
<1>5. CASE MarkFailed(r)
  BY <1>5 DEF MarkFailed
<1>6. CASE ServeClient(r)
  <2>1. CASE control[r].grpc = "ready"
    BY <1>6, <2>1 DEF ServeClient
  <2>2. CASE control[r].grpc = "stopping"
    <3>1. /\ thread' = [thread EXCEPT !["control"][r] = "fail"]
          /\ socket' = [socket EXCEPT !["control"] = NoRun]
          /\ UNCHANGED <<up, cmd, appVars, uses, objectVars>>
      BY <1>6, <2>2 DEF ServeClient
    <3>2. thread' \in [Service -> [Run -> ThreadStep]] /\ thread'.voice = thread.voice
      BY <3>1, SetThread
    <3>3. socket' \in [Service -> Run \cup {NoRun}]
      BY <3>1, SetPort
    <3>4. QED
      BY <3>1, <3>2, <3>3
  <2>3. QED
    BY <1>6, <2>1, <2>2, PanicTypes DEF ServeClient
<1>7. CASE ServeReturned(r)
  BY <1>7 DEF ServeReturned, ControlObject
<1>8. QED
  BY <1>1, <1>2, <1>3, <1>4, <1>5, <1>6, <1>7 DEF Serve

LEMMA FailureTypes ==
  ASSUME TypeInv, NEW r \in Run, ServeFails(r)
  PROVE  TypeInv'
<1> USE DEF TypeInv, LifecycleTypeOK, VoiceServerKnown, Service, ThreadStep,
            appVars, objectVars
<1>1. /\ thread' = [thread EXCEPT !["control"][r] = "fail"]
      /\ socket' = [socket EXCEPT !["control"] = NoRun]
      /\ UNCHANGED <<up, cmd, appVars, uses, objectVars>>
  BY DEF ServeFails
<1>2. thread' \in [Service -> [Run -> ThreadStep]] /\ thread'.voice = thread.voice
  BY <1>1, SetThread
<1>3. socket' \in [Service -> Run \cup {NoRun}]
  BY <1>1, SetPort
<1>4. QED
  BY <1>1, <1>2, <1>3

\* What BeginStop makes of the object.
LEMMA StoppedObject ==
  ASSUME TypeInv, NEW r \in Run, BeginStop(r)
  PROVE  \E o \in ControlObject :
           /\ control' = [control EXCEPT ![r] = o]
           /\ o.running = FALSE
           /\ control[r].running = FALSE => o.once = "done" /\ o.grpc = control[r].grpc
           /\ control[r].running = TRUE => o.once = "busy" /\ o.grpc = "stopping"
<1> DEFINE old == control[r]
<1>1. old \in ControlObject
  BY DEF TypeInv, LifecycleTypeOK
<1>2. CASE ~old.running
  <2> DEFINE o == [old EXCEPT !.once = "done"]
  <2>1. control' = [control EXCEPT ![r] = o]
    BY <1>2 DEF BeginStop
  <2>2. o \in ControlObject /\ o.running = FALSE /\ o.once = "done" /\ o.grpc = old.grpc
    BY <1>1, <1>2 DEF ControlObject
  <2>3. QED
    BY <1>2, <2>1, <2>2
<1>3. CASE old.running
  <2>1. PICK stuck \in BOOLEAN :
          control' = [control EXCEPT ![r] = [@ EXCEPT
            !.once = "busy", !.grpc = "stopping", !.running = FALSE, !.stuck = stuck]]
    BY <1>3 DEF BeginStop
  <2> DEFINE o == [old EXCEPT
        !.once = "busy", !.grpc = "stopping", !.running = FALSE, !.stuck = stuck]
  <2>2. control' = [control EXCEPT ![r] = o]
    BY <2>1
  <2>3. o \in ControlObject /\ o.running = FALSE /\ o.once = "busy" /\ o.grpc = "stopping"
    BY <1>1 DEF ControlObject
  <2>4. QED
    BY <1>1, <1>3, <2>2, <2>3 DEF ControlObject
<1>4. QED
  BY <1>2, <1>3

\* Stopping a control server keeps the types.
LEMMA StoppingTypes ==
  ASSUME TypeInv, NEW r \in Run, Stopping(r)
  PROVE  TypeInv'
<1> USE DEF TypeInv, LifecycleTypeOK, VoiceServerKnown, Service, ThreadStep,
            appVars, threadVars, objectVars, ControlObject
<1>1. CASE BeginStop(r)
  <2>1. control' \in [Run -> ControlObject]
    BY <1>1, StoppedObject
  <2>2. /\ thread' \in [Service -> [Run -> ThreadStep]] /\ thread'.voice = thread.voice
        /\ socket' \in [Service -> Run \cup {NoRun}]
    <3>1. CASE control[r].running /\ thread.control[r] = "serving"
      <4>1. /\ thread' = [thread EXCEPT !["control"][r] = "none"]
            /\ socket' = [socket EXCEPT !["control"] = NoRun]
        BY <1>1, <3>1 DEF BeginStop
      <4>2. thread' \in [Service -> [Run -> ThreadStep]] /\ thread'.voice = thread.voice
        BY <4>1, SetThread
      <4>3. socket' \in [Service -> Run \cup {NoRun}]
        BY <4>1, SetPort
      <4>4. QED
        BY <4>2, <4>3
    <3>2. CASE ~(control[r].running /\ thread.control[r] = "serving")
      BY <1>1, <3>2 DEF BeginStop
    <3>3. QED
      BY <3>1, <3>2
  <2>3. UNCHANGED <<up, cmd, appVars, uses, listening, ended>>
    BY <1>1 DEF BeginStop
  <2>4. QED
    BY <2>1, <2>2, <2>3
<1>2. CASE FinishStop(r)
  BY <1>2 DEF FinishStop
<1>3. CASE handleShutdown(r)
  BY <1>3 DEF handleShutdown, NewControl
<1>4. QED
  BY <1>1, <1>2, <1>3 DEF Stopping

\* The steps of a command keep the types.
LEMMA CommandTypes ==
  ASSUME TypeInv, Command
  PROVE  TypeInv'
<1> USE DEF TypeInv, LifecycleTypeOK, VoiceServerKnown, Service, ThreadStep,
            appVars, threadVars, objectVars, StartStep, StopStep, At, Then, Idle
<1>1. CASE startGrpcServer
  <2>1. /\ status' \in [Service -> BOOLEAN]
        /\ signal' \in [Service -> Run \cup {NoRun}]
        /\ server' \in [Service -> Run \cup {NoRun}] /\ server'.voice = server.voice
        /\ cmd' \in [step : StartStep \cup StopStep \cup {"idle"}, run : Run \cup {NoRun}]
        /\ UNCHANGED <<up, closed, uses, listening, ended>>
    BY <1>1 DEF startGrpcServer
  <2>2. control' \in [Run -> ControlObject]
    <3>1. CASE UNCHANGED control
      BY <3>1
    <3>2. CASE control' = [control EXCEPT ![cmd.run] = Started]
      BY <3>2 DEF ControlObject, Started, NewControl
    <3>3. QED
      BY <1>1, <3>1, <3>2 DEF startGrpcServer
  <2>3. socket' \in [Service -> Run \cup {NoRun}]
    BY <1>1, SetPort DEF startGrpcServer
  <2>4. thread' \in [Service -> [Run -> ThreadStep]] /\ thread'.voice = thread.voice
    <3>1. CASE UNCHANGED thread
      BY <3>1
    <3>2. CASE thread' = [thread EXCEPT !["control"][cmd.run] = "serve"]
      BY <3>2
    <3>3. QED
      BY <1>1, <3>1, <3>2 DEF startGrpcServer
  <2>5. QED
    BY <2>1, <2>2, <2>3, <2>4
<1>2. CASE startVoiceServer
  BY <1>2 DEF startVoiceServer
<1>3. ASSUME NEW s \in Service, NEW step, NEW stop \in StopStep,
             NEW skip \in StopStep \cup {"idle"}, CloseSignal(s, step, stop, skip)
      PROVE  TypeInv'
  <2>1. CASE status[s]
    <3>1. closed' \in [Service -> SUBSET Run]
      BY <1>3, <2>1 DEF CloseSignal
    <3>2. signal' \in [Service -> Run \cup {NoRun}]
      BY <1>3, <2>1 DEF CloseSignal
    <3>3. /\ cmd' \in [step : StartStep \cup StopStep \cup {"idle"}, run : Run \cup {NoRun}]
          /\ UNCHANGED <<up, status, server, threadVars, objectVars>>
      BY <1>3, <2>1 DEF CloseSignal
    <3>4. QED
      BY <3>1, <3>2, <3>3
  <2>2. CASE ~status[s]
    BY <1>3, <2>2 DEF CloseSignal
  <2>3. QED
    BY <2>1, <2>2
<1>4. CASE VoiceStop
  <2>1. CASE listening /\ ~Panic
    <3>1. /\ Then("voiceStopped") \/ Then("stopControl")
          /\ UNCHANGED <<appVars, thread, uses, control>>
          /\ socket' = [socket EXCEPT !["voice"] = NoRun]
      BY <1>4, <2>1 DEF VoiceStop
    <3>2. ended' = TRUE /\ (listening' = FALSE \/ listening' = TRUE)
      BY <1>4, <2>1 DEF VoiceStop
    <3>3. server.voice \in Run
      BY <2>1
    <3>4. socket' \in [Service -> Run \cup {NoRun}]
      BY <3>1, SetPort
    <3>5. QED
      BY <3>1, <3>2, <3>3, <3>4
  <2>2. CASE ~listening
    <3>1. Then("voiceStopped") /\ UNCHANGED <<appVars, threadVars, objectVars>>
      BY <1>4, <2>2 DEF VoiceStop
    <3>2. QED
      BY <3>1
  <2>3. QED
    BY <2>1, <2>2, PanicTypes
<1>5. CASE MarkStopped("voice", "voiceStopped", Then("stopControl"))
  BY <1>5 DEF MarkStopped
<1>6. CASE ControlStop
  BY <1>6 DEF ControlStop
<1>7. CASE MarkStopped("control", "controlStopped", Idle)
  BY <1>7 DEF MarkStopped
<1>8. QED
  BY <1>1, <1>2, <1>3, <1>4, <1>5, <1>6, <1>7 DEF Command

LEMMA StartTypes ==
  ASSUME TypeInv, NEW r \in Run, StartStandaloneServer(r)
  PROVE  TypeInv'
BY DEF StartStandaloneServer, TypeInv, LifecycleTypeOK, VoiceServerKnown, Service,
       ThreadStep, StartStep, StopStep, threadVars, ControlObject, NewControl

LEMMA StepTypes == TypeInv /\ [LifecycleNext]_vars => TypeInv'
<1> SUFFICES ASSUME TypeInv, [LifecycleNext]_vars
             PROVE  TypeInv'
  OBVIOUS
<1>1. CASE StopServer
  BY <1>1
  DEF StopServer, Then, TypeInv, LifecycleTypeOK, VoiceServerKnown, StartStep, StopStep,
      appVars, threadVars, objectVars
<1>2. CASE UNCHANGED vars
  BY <1>2
  DEF vars, TypeInv, LifecycleTypeOK, VoiceServerKnown, appVars, threadVars, objectVars
<1>3. QED
  BY <1>1, <1>2, ServeTypes, FailureTypes, StoppingTypes, CommandTypes, StartTypes
  DEF LifecycleNext

\* For any number of runs: all variables of the lifecycle keep their types, and
\* no goroutine calls Listen while a.voiceServer is nil.
THEOREM LifecycleTypes == LifecycleSpec => []LifecycleTypeOK
<1>1. TypeInv => LifecycleTypeOK
  BY DEF TypeInv
<1>2. QED
  BY <1>1, InitTypes, StepTypes, PTL DEF LifecycleSpec
-----------------------------------------------------------------------------
(* The status of the control server *)

\* What the status of the control server depends on, the command aside.
SameControl ==
  /\ status'.control = status.control /\ signal'.control = signal.control
  /\ server'.control = server.control /\ closed'.control = closed.control
  /\ socket'.control = socket.control /\ thread'.control = thread.control
  /\ control' = control

Elsewhere == {"startGrpc", "controlStop", "controlStopped"}

\* A step of the voice server's affairs, or between two parts of a command.
LEMMA SameControlStatus ==
  ASSUME StatusInv, SameControl,
         cmd' = cmd \/ (cmd'.step \notin Elsewhere /\ cmd.step \notin Elsewhere)
  PROVE  StatusInv'
BY DEF StatusInv, SameControl, Elsewhere, FreshRun, InCharge, StopKnows, ListenerHeld,
       ReadyInCharge, ServingReady, ServeFailed

LEMMA PanicStatus == Panic => StatusInv'
BY NoRunAssumption
DEF Panic, Service, NewControl, StatusInv, FreshRun, InCharge, StopKnows, ListenerHeld,
    ReadyInCharge, ServingReady

LEMMA VoiceThreadStatus ==
  ASSUME TypeInv, StatusInv, NEW r \in Run,
         NewServer(r) \/ MarkRunning(r) \/ Listen(r) \/ Loop(r) \/ MarkFailed(r)
  PROVE  StatusInv'
<1>1. cmd' = cmd /\ SameControl
  <2> USE DEF SameControl, TypeInv, LifecycleTypeOK, Service, appVars, objectVars
  <2>1. CASE NewServer(r)
    BY <2>1 DEF NewServer
  <2>2. CASE MarkRunning(r)
    BY <2>2 DEF MarkRunning
  <2>3. CASE Listen(r)
    BY <2>3 DEF Listen
  <2>4. CASE Loop(r)
    BY <2>4 DEF Loop
  <2>5. CASE MarkFailed(r)
    BY <2>5 DEF MarkFailed
  <2>6. QED
    BY <2>1, <2>2, <2>3, <2>4, <2>5
<1>2. QED
  BY <1>1, SameControlStatus

LEMMA ServeClientStatus ==
  ASSUME TypeInv, StatusInv, NEW r \in Run, ServeClient(r)
  PROVE  StatusInv'
<1> USE NoRunAssumption
    DEF TypeInv, LifecycleTypeOK, Service, StatusInv, FreshRun, InCharge, StopKnows,
        ListenerHeld, ReadyInCharge, ServingReady, ServeFailed, appVars, threadVars,
        objectVars
<1>1. thread.control[r] = "serve" /\ socket.control = r
  BY DEF ServeClient
<1>2. CASE control[r].grpc = "ready"
  <2>1. /\ thread'.control = [thread.control EXCEPT ![r] = "serving"]
        /\ UNCHANGED <<cmd, status, signal, server, closed, control, socket>>
    BY <1>2 DEF ServeClient
  <2>2. FreshRun' /\ StopKnows' /\ ReadyInCharge' /\ InCharge'
    BY <1>1, <2>1
  <2>3. ListenerHeld' /\ ServingReady'
    BY <1>1, <1>2, <2>1
  <2>4. QED
    BY <2>2, <2>3
<1>3. CASE control[r].grpc = "stopping"
  <2>1. /\ thread'.control = [thread.control EXCEPT ![r] = "fail"]
        /\ socket'.control = NoRun
        /\ UNCHANGED <<cmd, status, signal, server, closed, control>>
    BY <1>3 DEF ServeClient
  <2>2. FreshRun' /\ StopKnows' /\ ReadyInCharge'
    BY <2>1
  <2>3. InCharge'
    BY <1>1, <1>3, <2>1
  <2>4. ListenerHeld' /\ ServingReady'
    BY <1>1, <1>3, <2>1
  <2>5. QED
    BY <2>2, <2>3, <2>4
<1>4. QED
  BY <1>2, <1>3, PanicStatus DEF ServeClient

\* Only the server in charge is being served, and can fail.
LEMMA ServeFailsStatus ==
  ASSUME TypeInv, StatusInv, NEW r \in Run, ServeFails(r)
  PROVE  StatusInv'
<1> USE NoRunAssumption
    DEF TypeInv, LifecycleTypeOK, Service, StatusInv, FreshRun, InCharge, StopKnows,
        ListenerHeld, ReadyInCharge, ServingReady, ServeFailed, appVars, objectVars
<1>1. /\ thread.control[r] = "serving" /\ socket.control = r
      /\ control[r].grpc = "ready" /\ control[r].running
      /\ control[r].once = "new" /\ server.control = r
  BY DEF ServeFails
<1>2. /\ thread'.control = [thread.control EXCEPT ![r] = "fail"]
      /\ socket'.control = NoRun
      /\ UNCHANGED <<cmd, status, signal, server, closed, control>>
  BY DEF ServeFails
<1>3. FreshRun' /\ StopKnows' /\ ReadyInCharge'
  BY <1>2
<1>4. InCharge'
  BY <1>1, <1>2
<1>5. ListenerHeld' /\ ServingReady'
  BY <1>1, <1>2
<1>6. QED
  BY <1>3, <1>4, <1>5

LEMMA ServeReturnedStatus ==
  ASSUME TypeInv, StatusInv, NEW r \in Run, ServeReturned(r)
  PROVE  StatusInv'
<1> USE DEF TypeInv, LifecycleTypeOK, Service, StatusInv, FreshRun, InCharge, StopKnows,
            ListenerHeld, ReadyInCharge, ServingReady, ServeFailed, appVars, ControlObject
<1>1. /\ thread.control[r] = "fail"
      /\ thread'.control = [thread.control EXCEPT ![r] = "none"]
      /\ control' = [control EXCEPT ![r].running = FALSE]
      /\ UNCHANGED <<cmd, status, signal, server, closed, socket>>
  BY DEF ServeReturned
<1>2. /\ control'[r].grpc = control[r].grpc /\ control'[r].once = control[r].once
      /\ ~control'[r].running
      /\ \A q \in Run : q # r => control'[q] = control[q]
  BY <1>1
<1>3. FreshRun'
  <2>1. ASSUME cmd.step = "startGrpc" PROVE control'[cmd.run] = NewControl
    <3>1. cmd.run \in Run /\ control[cmd.run] = NewControl
      BY <2>1
    <3>2. control' = [control EXCEPT ![r].running = FALSE]
      BY <1>1
    <3>3. CASE cmd.run = r
      <4>1. control'[r] = [NewControl EXCEPT !.running = FALSE]
        BY <3>1, <3>2, <3>3
      <4>2. QED
        BY <3>3, <4>1 DEF NewControl
    <3>4. QED
      BY <1>2, <3>1, <3>3
  <2>2. QED
    BY <1>1, <2>1
<1>4. StopKnows'
  BY <1>1, <1>2
<1>5. InCharge'
  BY <1>1, <1>2
<1>6. ListenerHeld'
  BY <1>1
<1>7. ReadyInCharge'
  BY <1>1, <1>2
<1>8. ServingReady'
  BY <1>1, <1>2
<1>9. QED
  BY <1>3, <1>4, <1>5, <1>6, <1>7, <1>8

\* The server in charge is stopped by the command alone; others may be stopped
\* by their handleShutdown.
LEMMA BeginStopStatus ==
  ASSUME TypeInv, StatusInv, NEW r \in Run, BeginStop(r)
  PROVE  StatusInv'
<1>1. PICK o \in ControlObject :
        /\ control' = [control EXCEPT ![r] = o]
        /\ o.running = FALSE
        /\ control[r].running = FALSE => o.once = "done" /\ o.grpc = control[r].grpc
        /\ control[r].running = TRUE => o.once = "busy" /\ o.grpc = "stopping"
  BY StoppedObject
<1>2. control'[r] = o /\ control[r].running \in BOOLEAN
  BY <1>1 DEF TypeInv, LifecycleTypeOK, ControlObject
<1> USE NoRunAssumption
    DEF TypeInv, LifecycleTypeOK, Service, StatusInv, FreshRun, InCharge, StopKnows,
        ListenerHeld, ReadyInCharge, ServingReady, ServeFailed, appVars
<1>3. /\ UNCHANGED <<cmd, status, signal, server, closed>>
      /\ control[r].once = "new"
      /\ \A q \in Run : q # r => control'[q] = control[q]
  BY <1>1 DEF BeginStop, StopCalled
<1>4. \/ cmd.step = "controlStop" /\ server.control = r
      \/ control[r].waiting /\ r \in closed.control
  BY DEF BeginStop, StopCalled, At
<1>5. FreshRun'
  <2>1. ASSUME cmd.step = "startGrpc" PROVE r # cmd.run
    <3>1. r \in closed.control
      BY <1>4, <2>1
    <3>2. QED
      BY <2>1, <3>1
  <2>2. QED
    BY <1>3, <2>1
<1>6. StopKnows'
  BY <1>3
<1>7. ~(status.control /\ cmd.step \notin {"controlStop", "controlStopped"}
          /\ server.control = r)
  BY <1>4
<1>8. CASE ~control[r].running
  <2>1. /\ control'[r].once = "done" /\ control'[r].grpc = control[r].grpc
        /\ ~control'[r].running
        /\ UNCHANGED <<socket, thread>>
    BY <1>2, <1>1, <1>8 DEF BeginStop
  <2>2. InCharge' /\ ListenerHeld'
    BY <1>3, <1>7, <2>1
  <2>3. ReadyInCharge' /\ ServingReady'
    BY <1>3, <1>8, <2>1
  <2>4. QED
    BY <1>5, <1>6, <2>2, <2>3
<1>9. CASE control[r].running
  <2>1. control'[r].grpc = "stopping" /\ control'[r].once = "busy"
    BY <1>2, <1>1, <1>9
  <2>2. \/ /\ thread.control[r] = "serving"
           /\ thread'.control = [thread.control EXCEPT ![r] = "none"]
           /\ socket'.control = NoRun
        \/ /\ thread.control[r] # "serving"
           /\ UNCHANGED <<socket, thread>>
    BY <1>9 DEF BeginStop
  <2>3. ReadyInCharge'
    BY <1>3, <2>1
  <2>4. ServingReady'
    BY <1>3, <2>1, <2>2
  <2>5. ListenerHeld'
    BY <2>2
  <2>6. InCharge'
    BY <1>3, <1>7, <2>2
  <2>7. QED
    BY <1>5, <1>6, <2>3, <2>4, <2>5, <2>6
<1>10. QED
  BY <1>8, <1>9

LEMMA StopBodyStatus ==
  ASSUME TypeInv, StatusInv, NEW r \in Run, FinishStop(r) \/ handleShutdown(r)
  PROVE  StatusInv'
<1> USE DEF TypeInv, LifecycleTypeOK, Service, StatusInv, FreshRun, InCharge, StopKnows,
            ListenerHeld, ReadyInCharge, ServingReady, ServeFailed, appVars, threadVars,
            ControlObject, NewControl
<1>1. CASE FinishStop(r)
  BY <1>1 DEF FinishStop
<1>2. CASE handleShutdown(r)
  BY <1>2 DEF handleShutdown
<1>3. QED
  BY <1>1, <1>2

LEMMA StartStatus ==
  ASSUME TypeInv, StatusInv, NEW r \in Run, StartStandaloneServer(r)
  PROVE  StatusInv'
BY DEF StartStandaloneServer, Unused, At, TypeInv, LifecycleTypeOK, Service, StatusInv,
       FreshRun, InCharge, StopKnows, ListenerHeld, ReadyInCharge, ServingReady,
       ServeFailed, threadVars, NewControl

\* No server was in charge, so none is being served, and none ready that runs.
LEMMA StartGrpcStatus ==
  ASSUME TypeInv, StatusInv, startGrpcServer
  PROVE  StatusInv'
<1> USE NoRunAssumption
    DEF TypeInv, LifecycleTypeOK, Service, StatusInv, FreshRun, InCharge, StopKnows,
        ListenerHeld, ReadyInCharge, ServingReady, ServeFailed, ControlObject
<1> DEFINE r == cmd.run
<1>1. /\ r \in Run /\ r \notin closed.control /\ control[r] = NewControl
      /\ \A q \in Run : control[q].grpc = "ready" =>
                          control[q].once = "done" /\ ~control[q].running
      /\ cmd'.step = "startVoice"
      /\ signal'.control = r /\ server'.control = r
      /\ UNCHANGED closed
  BY DEF startGrpcServer, At, Then
<1>2. CASE /\ socket.control = NoRun
           /\ socket' = [socket EXCEPT !.control = r]
           /\ control' = [control EXCEPT ![r] = Started]
           /\ thread' = [thread EXCEPT !.control[r] = "serve"]
           /\ status' = [status EXCEPT !.control = TRUE]
  <2>1. /\ control'[r].grpc = "ready" /\ control'[r].once = "new"
        /\ control'[r].running
    BY <1>1, <1>2 DEF Started, NewControl
  <2>2. \A q \in Run : q # r => control'[q] = control[q]
    BY <1>2
  <2>3. /\ thread'.control[r] = "serve" /\ socket'.control = r
        /\ \A q \in Run : q # r => /\ thread'.control[q] = thread.control[q]
                                  /\ thread.control[q] \in {"none", "fail"}
    BY <1>1, <1>2
  <2>4. FreshRun' /\ StopKnows' /\ InCharge'
    BY <1>1, <1>2, <2>1
  <2>5. ListenerHeld'
    BY <1>1, <2>3
  <2>6. ServingReady'
    BY <1>1, <2>1, <2>2, <2>3
  <2>7. ReadyInCharge'
    BY <1>1, <1>2, <2>1, <2>2
  <2>8. QED
    BY <2>4, <2>5, <2>6, <2>7
<1>3. CASE /\ status' = [status EXCEPT !.control = FALSE]
           /\ UNCHANGED <<socket, control, thread>>
  BY <1>1, <1>3
<1>4. QED
  BY <1>2, <1>3 DEF startGrpcServer

LEMMA StopControlStatus ==
  ASSUME TypeInv, StatusInv,
         \/ CloseSignal("control", "stopControl", "controlStop", "idle")
         \/ ControlStop
         \/ MarkStopped("control", "controlStopped", Idle)
  PROVE  StatusInv'
<1> USE DEF TypeInv, LifecycleTypeOK, Service, StatusInv, FreshRun, InCharge, StopKnows,
            ListenerHeld, ReadyInCharge, ServingReady, ServeFailed, appVars, threadVars,
            objectVars, At, Then, Idle
<1>1. CASE CloseSignal("control", "stopControl", "controlStop", "idle")
  <2>1. /\ cmd.step = "stopControl"
        /\ UNCHANGED <<status, server, socket, thread, control>>
    BY <1>1 DEF CloseSignal
  <2>2. CASE status.control
    <3>1. cmd'.step = "controlStop"
      BY <1>1, <2>2 DEF CloseSignal
    <3>2. QED
      BY <2>1, <2>2, <3>1
  <2>3. CASE ~status.control
    <3>1. cmd'.step = "idle"
      BY <1>1, <2>3 DEF CloseSignal
    <3>2. QED
      BY <2>1, <2>3, <3>1
  <2>4. QED
    BY <2>2, <2>3
<1>2. CASE ControlStop
  BY <1>2 DEF ControlStop
<1>3. CASE MarkStopped("control", "controlStopped", Idle)
  BY <1>3 DEF MarkStopped
<1>4. QED
  BY <1>1, <1>2, <1>3

LEMMA StopVoiceStatus ==
  ASSUME TypeInv, StatusInv,
         \/ startVoiceServer
         \/ CloseSignal("voice", "stopVoice", "voiceStop", "stopControl")
         \/ VoiceStop
         \/ MarkStopped("voice", "voiceStopped", Then("stopControl"))
         \/ StopServer
  PROVE  StatusInv'
<1>1. \/ Panic
      \/ SameControl /\ (cmd' = cmd \/ (cmd'.step \notin Elsewhere /\ cmd.step \notin Elsewhere))
  <2> USE DEF SameControl, Elsewhere, TypeInv, LifecycleTypeOK, Service, At, Then, Idle,
              appVars, threadVars, objectVars
  <2>1. CASE startVoiceServer
    BY <2>1 DEF startVoiceServer
  <2>2. CASE CloseSignal("voice", "stopVoice", "voiceStop", "stopControl")
    BY <2>2 DEF CloseSignal
  <2>3. CASE VoiceStop
    BY <2>3 DEF VoiceStop
  <2>4. CASE MarkStopped("voice", "voiceStopped", Then("stopControl"))
    BY <2>4 DEF MarkStopped
  <2>5. CASE StopServer
    BY <2>5 DEF StopServer
  <2>6. QED
    BY <2>1, <2>2, <2>3, <2>4, <2>5
<1>2. QED
  BY <1>1, SameControlStatus, PanicStatus

LEMMA StepStatus == TypeInv /\ StatusInv /\ [LifecycleNext]_vars => StatusInv'
<1> SUFFICES ASSUME TypeInv, StatusInv, [LifecycleNext]_vars
             PROVE  StatusInv'
  OBVIOUS
<1>1. CASE UNCHANGED vars
  BY <1>1, SameControlStatus DEF vars, appVars, threadVars, objectVars, SameControl
<1>2. CASE Command
  BY <1>2, StartGrpcStatus, StopControlStatus, StopVoiceStatus DEF Command
<1>3. ASSUME NEW r \in Run, Serve(r)
      PROVE  StatusInv'
  BY <1>3, VoiceThreadStatus, ServeClientStatus, ServeReturnedStatus DEF Serve
<1>4. ASSUME NEW r \in Run, Stopping(r)
      PROVE  StatusInv'
  BY <1>4, BeginStopStatus, StopBodyStatus DEF Stopping
<1>5. QED
  BY <1>1, <1>2, <1>3, <1>4, ServeFailsStatus, StartStatus, StopVoiceStatus
  DEF LifecycleNext

\* For any number of runs, whatever goroutines of earlier commands still do, and
\* whenever Serve fails: between two commands, "running" means that the server in
\* charge is the one the next stop will reach, untouched by any Stop, and that it
\* holds the port unless its Serve has failed; "stopped" means that no control
\* server accepts connections, and that the port is free but for a stopped server
\* whose serveClient has yet to run.
THEOREM ControlStatusTrue == LifecycleSpec => []ControlStatusIsTrue
<1>1. LifecycleInit => StatusInv
  BY NoRunAssumption
  DEF LifecycleInit, Service, NewControl, StatusInv, FreshRun, InCharge, StopKnows,
      ListenerHeld, ReadyInCharge, ServingReady
<1>2. TypeInv /\ StatusInv => ControlStatusIsTrue
  <2> SUFFICES ASSUME TypeInv, StatusInv, up, cmd.step = "idle"
               PROVE  ControlStatusIsTrue
    BY DEF ControlStatusIsTrue
  <2> USE NoRunAssumption
      DEF TypeInv, LifecycleTypeOK, Service, StatusInv, InCharge, ListenerHeld,
          ReadyInCharge, ServingReady, ServeFailed
  <2>1. CASE status.control
    BY <2>1 DEF ControlStatusIsTrue
  <2>2. CASE ~status.control
    <3>1. \A r \in Run : thread.control[r] # "serving"
      BY <2>2
    <3>2. QED
      BY <2>2, <3>1 DEF ControlStatusIsTrue
  <2>3. QED
    BY <2>1, <2>2
<1>3. QED
  BY <1>1, <1>2, InitTypes, StepTypes, StepStatus, PTL DEF LifecycleSpec
=============================================================================
