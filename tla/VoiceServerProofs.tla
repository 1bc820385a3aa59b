-------------------------- MODULE VoiceServerProofs --------------------------
(***************************************************************************)
(* Safety of VoiceServer, for any number of clients and packet goroutines  *)
(* and any radio states: its types, who gets an entry in v.clients, and    *)
(* who is reached by a voice packet.                                       *)
(*                                                                         *)
(* A packet goroutine is interrupted between any two of its steps, while   *)
(* the reader overwrites the buffer and the registry and v.clients change. *)
(* StepOK says what it may rely on all the same.                           *)
(***************************************************************************)
EXTENDS VoiceServer, TLAPS

Parsed == Step \ {"header", "sender"}

\* What pc says about a job: the fields that the step will use have been read.
StepOK(step, j, b) ==
  /\ step \in {"header", "sender"} => b # Unread
  /\ step \in {"header", "sender", "hello", "register", "registering"}
       => j.from # Unread
  /\ step \in Parsed => j.sender # Unread
  /\ step = "listener" => j.listener # Unread

RegistryOK == StateTypeOK /\ SettingsTypeOK /\ known \in SUBSET Guid

ClientsOK ==
  /\ running \in BOOLEAN
  /\ buffer \in Packet \cup {Unread}
  /\ vclients \in [Guid -> Client \cup {NoClient}]

JobsOK ==
  /\ pc \in [Call -> Step \cup {"idle"}]
  /\ job \in [Call -> Job]
  /\ \A c \in Call : StepOK(pc[c], job[c], buffer)

\* A pointer that a goroutine holds, between its lookup and its write, is to an
\* entry of the map: an orphaned one is written to no more.
HeldOK ==
  \A c \in Call : job[c].held => pc[c] = "touch" /\ Registered(job[c].sender)

TypeInv ==
  RegistryOK /\ ClientsOK /\ JobsOK /\ HeldOK /\ steady \in [Call -> SUBSET Guid]

-----------------------------------------------------------------------------
(* Jobs *)

LEMMA NoJobOK == NoJob \in Job /\ \A b : StepOK("idle", NoJob, b)
  BY DEF NoJob, Job, StepOK, Parsed, Step, Registering, Relaying, Frequency

\* A goroutine moves; the others only see the buffer filled.
LEMMA MoveType ==
  ASSUME JobsOK, NEW c \in Call, NEW step \in Step \cup {"idle"}, NEW j \in Job,
         Goto(c, step, j), buffer' = buffer \/ buffer' # Unread,
         StepOK(step, j, buffer')
  PROVE  JobsOK'
<1>1. pc' \in [Call -> Step \cup {"idle"}] /\ job' \in [Call -> Job]
  BY DEF JobsOK, Goto
<1>2. ASSUME NEW d \in Call PROVE StepOK(pc'[d], job'[d], buffer')
  <2>1. CASE d = c
    BY <2>1 DEF JobsOK, Goto
  <2>2. CASE d # c
    <3>1. pc'[d] = pc[d] /\ job'[d] = job[d]
      BY <2>2 DEF JobsOK, Goto
    <3> QED
      BY <3>1 DEF JobsOK, StepOK
  <2> QED
    BY <2>1, <2>2
<1> QED
  BY <1>1, <1>2 DEF JobsOK

LEMMA DoneType ==
  ASSUME JobsOK, NEW c \in Call, Done(c), UNCHANGED buffer
  PROVE  JobsOK'
  BY NoJobOK, MoveType DEF Done

\* Orphaning pointers leaves all that StepOK and the relay look at alone.
LEMMA OrphanJob ==
  ASSUME JobsOK, NEW guids, NEW d \in Call
  PROVE  /\ Orphan(guids)[d] \in Job
         /\ Orphan(guids)[d] = job[d] \/ Orphan(guids)[d] = [job[d] EXCEPT !.held = FALSE]
         /\ \A step, b : StepOK(step, job[d], b) => StepOK(step, Orphan(guids)[d], b)
<1>1. job[d] \in Job
  BY DEF JobsOK
<1>2. \/ Orphan(guids)[d] = job[d]
      \/ Orphan(guids)[d] = [job[d] EXCEPT !.held = FALSE]
  BY DEF Orphan
<1> QED
  BY <1>1, <1>2 DEF Job, StepOK

LEMMA OrphanType ==
  ASSUME JobsOK, NEW guids, UNCHANGED buffer,
         \/ job' = Orphan(guids) /\ UNCHANGED pc
         \/ \E c \in Call : /\ job' = [Orphan(guids) EXCEPT ![c] = NoJob]
                            /\ pc' = [pc EXCEPT ![c] = "idle"]
  PROVE  JobsOK'
<1>0. Orphan(guids) \in [Call -> Job]
  BY OrphanJob DEF Orphan
<1>1. pc' \in [Call -> Step \cup {"idle"}] /\ job' \in [Call -> Job]
  BY <1>0, NoJobOK DEF JobsOK
<1>2. ASSUME NEW d \in Call PROVE StepOK(pc'[d], job'[d], buffer')
  <2>1. \/ pc'[d] = pc[d] /\ job'[d] = Orphan(guids)[d]
        \/ pc'[d] = "idle" /\ job'[d] = NoJob
    BY <1>0 DEF JobsOK
  <2> QED
    BY <2>1, OrphanJob, NoJobOK DEF JobsOK
<1> QED
  BY <1>1, <1>2 DEF JobsOK

-----------------------------------------------------------------------------
(* Type correctness *)

LEMMA WatchType == Watch => steady' \in [Call -> SUBSET Guid]
  BY DEF Watch

LEMMA ReceiveType ==
  ASSUME TypeInv, NEW c \in Call, NEW g \in Guid, Receive(c, g)
  PROVE  ClientsOK' /\ JobsOK'
<1>1. buffer' \in Packet
  BY DEF Receive, Packet
<1>2. buffer' # Unread
  BY <1>1, VoiceAssumption
<1>3. [NoJob EXCEPT !.from = g] \in Job
  BY DEF NoJob, Job, Frequency
<1>4. StepOK("header", [NoJob EXCEPT !.from = g], buffer')
  BY <1>2, VoiceAssumption DEF StepOK, NoJob, Parsed
<1>5. JobsOK'
  BY <1>2, <1>3, <1>4, MoveType
  DEF TypeInv, Receive, Step
<1> QED
  BY <1>1, <1>5 DEF TypeInv, ClientsOK, Receive, voiceVars

LEMMA ParseType ==
  ASSUME TypeInv, NEW c \in Call, ParseHeader(c) \/ ParseSender(c)
  PROVE  ClientsOK' /\ JobsOK'
<1>0. JobsOK /\ job[c] \in Job /\ StepOK(pc[c], job[c], buffer)
  BY DEF TypeInv, JobsOK
<1>1. buffer \in Packet /\ UNCHANGED buffer
  BY <1>0 DEF ParseHeader, ParseSender, At, StepOK, TypeInv, ClientsOK
<1>2. ClientsOK'
  BY <1>1 DEF ParseHeader, ParseSender, TypeInv, ClientsOK, voiceVars
<1>3. CASE ParseHeader(c)
  <2> DEFINE j == [job[c] EXCEPT !.type = buffer.type, !.freq = buffer.freq]
  <2>1. j \in Job /\ StepOK("sender", j, buffer)
    BY <1>0, <1>1, <1>3 DEF Job, Packet, ParseHeader, At, StepOK, Parsed
  <2>2. Goto(c, "sender", j) \/ Done(c)
    BY <1>3 DEF ParseHeader
  <2> QED
    BY <1>0, <1>1, <1>2, <2>1, <2>2, MoveType, DoneType DEF Step
<1>4. CASE ParseSender(c)
  <2>1. PICK freq \in {job[c].freq, buffer.freq} :
          LET j == [job[c] EXCEPT !.sender = buffer.sender, !.freq = freq]
          IN \/ Goto(c, "hello", j)
             \/ \E step \in {"bye", "lookup"} :
                  Goto(c, step, [j EXCEPT !.from = Unread])
    BY <1>4 DEF ParseSender
  <2> DEFINE j == [job[c] EXCEPT !.sender = buffer.sender, !.freq = freq]
  <2>2. /\ j \in Job /\ [j EXCEPT !.from = Unread] \in Job
        /\ j.sender # Unread /\ j.from = job[c].from
        /\ [j EXCEPT !.from = Unread].sender = j.sender
    BY <1>0, <1>1, VoiceAssumption DEF Job, Packet
  <2>3. job[c].from # Unread
    BY <1>0, <1>4 DEF ParseSender, At, StepOK
  <2>4. /\ StepOK("hello", j, buffer)
        /\ \A step \in {"bye", "lookup"} :
             StepOK(step, [j EXCEPT !.from = Unread], buffer)
    BY <2>2, <2>3 DEF StepOK
  <2> HIDE DEF j
  <2>5. CASE Goto(c, "hello", j)
    <3>1. "hello" \in Step
      BY DEF Step
    <3> QED
      BY <1>0, <1>1, <1>2, <2>2, <2>4, <2>5, <3>1, MoveType
  <2>6. ASSUME NEW step \in {"bye", "lookup"},
               Goto(c, step, [j EXCEPT !.from = Unread])
        PROVE  JobsOK'
    BY <1>0, <1>1, <2>2, <2>4, <2>6, MoveType DEF Step, Relaying
  <2> QED
    BY <1>2, <2>1, <2>5, <2>6 DEF j
<1> QED
  BY <1>3, <1>4

\* HELLO, BYE, and the cleanup.
LEMMA WriterType ==
  ASSUME TypeInv,
         \/ \E c \in Call : CheckHello(c) \/ CheckBye(c) \/ Lock(c)
                            \/ Register(c) \/ Disconnect(c)
         \/ Cleanup \/ Stop \/ \E g \in Guid : Age(g)
  PROVE  ClientsOK' /\ JobsOK'
<1>0. JobsOK /\ ClientsOK
  BY DEF TypeInv
<1>1. ASSUME NEW c \in Call, CheckHello(c) \/ CheckBye(c) \/ Lock(c)
      PROVE  ClientsOK' /\ JobsOK'
  <2>1. ClientsOK' /\ UNCHANGED buffer
    BY <1>0, <1>1 DEF CheckHello, CheckBye, Lock, ClientsOK, voiceVars
  <2>2. job[c] \in Job /\ StepOK(pc[c], job[c], buffer)
    BY <1>0 DEF JobsOK
  <2>3. \/ Done(c)
        \/ \E step \in {"register", "remove", "registering", "removing"} :
             Goto(c, step, job[c]) /\ StepOK(step, job[c], buffer)
    BY <1>1, <2>2
    DEF CheckHello, CheckBye, Lock, At, StepOK, Parsed, Step, Registering
  <2> QED
    BY <1>0, <2>1, <2>2, <2>3, MoveType, DoneType DEF Step, Registering
<1>2. ASSUME NEW c \in Call, Register(c) \/ Disconnect(c)
      PROVE  ClientsOK' /\ JobsOK'
  <2>1. pc[c] \in Registering /\ job[c] \in Job /\ StepOK(pc[c], job[c], buffer)
    BY <1>0, <1>2 DEF Register, Disconnect, At, Registering, JobsOK
  <2>2. Register(c) => job[c].from \in Guid
    BY <2>1 DEF Register, At, StepOK, Job
  <2>3. ClientsOK'
    <3>1. CASE Register(c)
      <4>1. [addr |-> job[c].from, fresh |-> TRUE] \in Client
        BY <2>2, <3>1 DEF Client
      <4> QED
        BY <1>0, <3>1, <4>1 DEF Register, ClientsOK
    <3>2. CASE Disconnect(c)
      BY <1>0, <3>2 DEF Disconnect, ClientsOK
    <3> QED
      BY <1>2, <3>1, <3>2
  <2>4. JobsOK'
    BY <1>0, <1>2, OrphanType DEF Register, Disconnect
  <2> QED
    BY <2>3, <2>4
<1>3. ASSUME NEW guids, RemoveClients(guids) PROVE ClientsOK' /\ JobsOK'
  BY <1>0, <1>3, OrphanType DEF RemoveClients, ClientsOK
<1>4. ASSUME Stop PROVE ClientsOK' /\ JobsOK'
  BY <1>0, <1>4 DEF Stop, ClientsOK, JobsOK, packetVars
<1>5. ASSUME NEW g \in Guid, Age(g) PROVE ClientsOK' /\ JobsOK'
  <2>1. vclients[g] \in Client
    BY <1>0, <1>5 DEF Age, Registered, ClientsOK
  <2>2. [vclients[g] EXCEPT !.fresh = FALSE] \in Client
    BY <2>1 DEF Client
  <2> QED
    BY <1>0, <1>5, <2>2 DEF Age, ClientsOK, JobsOK, packetVars
<1> QED
  BY <1>1, <1>2, <1>3, <1>4, <1>5 DEF Cleanup

\* The steps of KEEPALIVE and VOICE.
LEMMA RelayType ==
  ASSUME TypeInv, NEW c \in Call,
         \/ LookupSender(c) \/ Touch(c) \/ PlayTest(c) \/ Gather(c)
         \/ CheckListening(c) \/ AddListener(c) \/ Broadcast(c)
         \/ \E t \in Target : Send(c, t)
  PROVE  ClientsOK' /\ JobsOK'
<1>0. /\ JobsOK /\ ClientsOK /\ UNCHANGED buffer
      /\ job[c] \in Job /\ job[c].sender \in Guid
      /\ pc[c] = "listener" => job[c].listener \in Guid
  BY DEF TypeInv, JobsOK, LookupSender, Touch, PlayTest, Gather,
         CheckListening, AddListener, Broadcast, Send, At, StepOK, Parsed, Step,
         Relaying, Job
<1>1. ASSUME NEW step \in {"touch", "test", "gather", "listen", "send"},
             NEW j \in Job, Goto(c, step, j), j.sender = job[c].sender
      PROVE  JobsOK'
  <2>1. step \in Step /\ StepOK(step, j, buffer)
    BY <1>0, <1>1, VoiceAssumption DEF StepOK, Step, Relaying
  <2> QED
    BY <1>0, <1>1, <2>1, MoveType
<1>2. Done(c) => JobsOK'
  BY <1>0, DoneType
<1>3. CASE Touch(c)
  <2>1. JobsOK'
    <3> DEFINE j == [job[c] EXCEPT !.held = FALSE]
    <3>1. j \in Job /\ j.sender = job[c].sender
      BY <1>0 DEF Job
    <3>2. Done(c) \/ \E step \in {"test", "gather"} : Goto(c, step, j)
      BY <1>3 DEF Touch
    <3> HIDE DEF j
    <3> QED
      BY <1>1, <1>2, <3>1, <3>2
  <2>2. ClientsOK'
    <3>1. CASE job[c].held
      <4>1. vclients[job[c].sender] \in Client
        BY <1>0, <3>1 DEF TypeInv, HeldOK, Registered, ClientsOK
      <4>2. [vclients[job[c].sender] EXCEPT !.fresh = TRUE] \in Client
        BY <4>1 DEF Client
      <4> QED
        BY <1>0, <1>3, <3>1, <4>2 DEF Touch, ClientsOK
    <3>2. CASE ~job[c].held
      BY <1>0, <1>3, <3>2 DEF Touch, ClientsOK
    <3> QED
      BY <3>1, <3>2
  <2> QED
    BY <2>1, <2>2
<1>4. CASE ~Touch(c)
  <2>1. ClientsOK'
    BY <1>0, <1>4
    DEF LookupSender, PlayTest, Gather, CheckListening, AddListener, Broadcast,
        Send, ClientsOK, voiceVars
  <2>2. CASE LookupSender(c)
    <3>1. [job[c] EXCEPT !.held = TRUE] \in Job
      BY <1>0 DEF Job
    <3>2. [job[c] EXCEPT !.held = TRUE].sender = job[c].sender
      BY <1>0 DEF Job
    <3> QED
      BY <1>1, <1>2, <2>1, <2>2, <3>1, <3>2 DEF LookupSender
  <2>3. CASE Gather(c)
    <3> DEFINE j == [job[c] EXCEPT
                       !.rest = {g \in Guid : DoesClientExist(g)} \ {job[c].sender}]
    <3>1. j \in Job /\ j.sender = job[c].sender
      BY <1>0 DEF Job
    <3>2. Goto(c, "listen", j)
      BY <2>3 DEF Gather
    <3> HIDE DEF j
    <3> QED
      BY <1>1, <2>1, <3>1, <3>2
  <2>4. CASE CheckListening(c)
    <3>1. PICK g \in job[c].rest :
            LET j == [job[c] EXCEPT !.rest = job[c].rest \ {g}]
            IN \/ Goto(c, "listener", [j EXCEPT !.listener = g])
               \/ Goto(c, "listen", j)
      BY <2>4 DEF CheckListening
    <3> DEFINE j == [job[c] EXCEPT !.rest = job[c].rest \ {g}]
    <3>2. /\ g \in Guid /\ j \in Job /\ j.sender = job[c].sender
          /\ [j EXCEPT !.listener = g] \in Job
          /\ [j EXCEPT !.listener = g].sender = job[c].sender
          /\ [j EXCEPT !.listener = g].listener = g
      BY <1>0 DEF Job
    <3>3. StepOK("listener", [j EXCEPT !.listener = g], buffer)
      BY <1>0, <3>2, VoiceAssumption DEF StepOK
    <3>4. "listener" \in Step
      BY DEF Step, Relaying
    <3>5. Goto(c, "listener", [j EXCEPT !.listener = g]) \/ Goto(c, "listen", j)
      BY <3>1
    <3> HIDE DEF j
    <3> QED
      BY <1>0, <1>1, <2>1, <3>2, <3>3, <3>4, <3>5, MoveType
  <2>5. CASE AddListener(c)
    <3> DEFINE g == job[c].listener
               added == IF Registered(g)
                        THEN job[c].targets \cup {[guid |-> g, addr |-> vclients[g].addr]}
                        ELSE job[c].targets
               j == [job[c] EXCEPT !.listener = Unread, !.targets = added]
    <3>1. Goto(c, "listen", j) /\ g \in Guid
      BY <1>0, <2>5 DEF AddListener, At
    <3>2. Registered(g) => [guid |-> g, addr |-> vclients[g].addr] \in Target
      BY <1>0, <3>1 DEF Registered, ClientsOK, Client, Target
    <3>3. added \in SUBSET Target
      BY <1>0, <3>2 DEF Job
    <3> HIDE DEF added
    <3>4. j \in Job /\ j.sender = job[c].sender
      BY <1>0, <3>3 DEF Job
    <3> HIDE DEF j
    <3> QED
      BY <1>1, <2>1, <3>1, <3>4
  <2>6. CASE PlayTest(c) \/ Broadcast(c)
    BY <1>0, <1>1, <1>2, <2>1, <2>6 DEF PlayTest, Broadcast
  <2>7. ASSUME NEW t \in Target, Send(c, t) PROVE JobsOK'
    <3>1. /\ [job[c] EXCEPT !.targets = job[c].targets \ {t}] \in Job
          /\ [job[c] EXCEPT !.targets = job[c].targets \ {t}].sender = job[c].sender
      BY <1>0 DEF Job
    <3> QED
      BY <1>1, <1>2, <2>7, <3>1 DEF Send
  <2> QED
    BY <1>4, <2>1, <2>2, <2>3, <2>4, <2>5, <2>6, <2>7
<1> QED
  BY <1>3, <1>4

\* Pointers stay valid when no entry leaves the map, or when those that point to
\* the entries that leave are orphaned.
LEMMA HeldMove ==
  ASSUME JobsOK, HeldOK, NEW c \in Call, NEW step, NEW j \in Job, Goto(c, step, j),
         \A g \in Guid : vclients[g] # NoClient => vclients'[g] # NoClient,
         j.held => step = "touch" /\ vclients'[j.sender] # NoClient
  PROVE  HeldOK'
<1> SUFFICES ASSUME NEW d \in Call, job'[d].held
             PROVE  pc'[d] = "touch" /\ vclients'[job'[d].sender] # NoClient
  BY DEF HeldOK, Registered
<1>1. CASE d = c
  BY <1>1 DEF JobsOK, Goto
<1>2. CASE d # c
  <2>1. pc'[d] = pc[d] /\ job'[d] = job[d]
    BY <1>2 DEF JobsOK, Goto
  <2>2. pc[d] = "touch" /\ Registered(job[d].sender)
    BY <2>1 DEF HeldOK
  <2>3. job[d].sender \in Guid
    BY <2>2 DEF JobsOK, StepOK, Parsed, Step, Relaying, Job
  <2> QED
    BY <2>1, <2>2, <2>3 DEF Registered
<1> QED
  BY <1>1, <1>2

LEMMA HeldOrphan ==
  ASSUME TypeInv, NEW guids,
         \A g \in Guid \ guids : vclients'[g] = vclients[g],
         \/ job' = Orphan(guids) /\ UNCHANGED pc
         \/ \E c \in Call : /\ job' = [Orphan(guids) EXCEPT ![c] = NoJob]
                            /\ pc' = [pc EXCEPT ![c] = "idle"]
  PROVE  HeldOK'
<1> SUFFICES ASSUME NEW d \in Call, job'[d].held
             PROVE  pc'[d] = "touch" /\ vclients'[job'[d].sender] # NoClient
  BY DEF HeldOK, Registered
<1>0. NoJob.held = FALSE /\ DOMAIN Orphan(guids) = Call /\ DOMAIN pc = Call
  BY DEF NoJob, Orphan, TypeInv, JobsOK
<1>1. pc'[d] = pc[d] /\ job'[d] = Orphan(guids)[d]
  <2>1. ASSUME NEW c \in Call, job' = [Orphan(guids) EXCEPT ![c] = NoJob],
               pc' = [pc EXCEPT ![c] = "idle"]
        PROVE  pc'[d] = pc[d] /\ job'[d] = Orphan(guids)[d]
    BY <1>0, <2>1
  <2> QED
    BY <2>1
<1>2. job'[d] = job[d] /\ job[d].sender \notin guids
  BY <1>1 DEF Orphan, TypeInv, JobsOK, Job
<1>3. pc[d] = "touch" /\ Registered(job[d].sender)
  BY <1>2 DEF TypeInv, HeldOK
<1>4. job[d].sender \in Guid
  BY <1>3 DEF TypeInv, JobsOK, StepOK, Parsed, Step, Relaying, Job
<1> QED
  BY <1>1, <1>2, <1>3, <1>4 DEF Registered

LEMMA HandleHeld ==
  ASSUME TypeInv, NEW c \in Call, Handle(c)
  PROVE  HeldOK'
<1>0. /\ JobsOK /\ HeldOK /\ ClientsOK /\ job[c] \in Job
      /\ pc[c] # "touch" => job[c].held = FALSE
  BY DEF TypeInv, JobsOK, HeldOK, Job
<1>1. CASE Register(c)
  BY <1>0, <1>1, HeldOrphan DEF Register, ClientsOK
<1>2. CASE Disconnect(c)
  BY <1>0, <1>2, HeldOrphan DEF Disconnect, ClientsOK
<1>3. CASE ~Register(c) /\ ~Disconnect(c)
  <2>1. \A g \in Guid : vclients[g] # NoClient => vclients'[g] # NoClient
    <3>1. ASSUME Touch(c), job[c].held
          PROVE  \A g \in Guid : vclients[g] # NoClient => vclients'[g] # NoClient
      <4>1. vclients[job[c].sender] \in Client \/ job[c].sender \notin Guid
        BY <1>0, <3>1 DEF HeldOK, Registered, ClientsOK
      <4>2. vclients[job[c].sender] \in Client
              => [vclients[job[c].sender] EXCEPT !.fresh = TRUE] \in Client
        BY DEF Client
      <4> QED
        BY <1>0, <3>1, <4>1, <4>2, VoiceAssumption DEF Touch, ClientsOK
    <3>2. ASSUME ~(Touch(c) /\ job[c].held) PROVE UNCHANGED vclients
      BY <1>3, <3>2
      DEF Handle, ParseHeader, ParseSender, CheckHello, CheckBye, Lock,
          LookupSender, Touch, PlayTest, Gather, CheckListening, AddListener,
          Broadcast, Send, voiceVars
    <3> QED
      BY <3>1, <3>2
  <2>2. CASE Done(c)
    BY <1>0, <2>1, <2>2, NoJobOK, HeldMove DEF Done, NoJob
  <2>3. CASE LookupSender(c) /\ ~Done(c)
    <3> DEFINE j == [job[c] EXCEPT !.held = TRUE]
    <3>1. /\ Goto(c, "touch", j) /\ vclients[job[c].sender] # NoClient
          /\ UNCHANGED vclients
      BY <2>3 DEF LookupSender, Registered, voiceVars
    <3>2. j \in Job /\ j.sender = job[c].sender
      BY <1>0 DEF Job
    <3> HIDE DEF j
    <3> QED
      BY <1>0, <2>1, <3>1, <3>2, HeldMove
  <2>4. CASE ~LookupSender(c) /\ ~Done(c)
    <3>1. \E step, j : Goto(c, step, j) /\ j \in Job /\ j.held = FALSE
      <4>0. job'[c] \in Job
        <5>1. CASE ParseHeader(c) \/ ParseSender(c)
          BY <5>1, ParseType DEF JobsOK
        <5>2. CASE CheckHello(c) \/ CheckBye(c) \/ Lock(c)
          BY <5>2, WriterType DEF JobsOK
        <5>3. CASE ~(\/ ParseHeader(c) \/ ParseSender(c)
                     \/ CheckHello(c) \/ CheckBye(c) \/ Lock(c))
          BY <1>3, <5>3, RelayType DEF JobsOK, Handle
        <5> QED
          BY <5>1, <5>2, <5>3
      <4>1. job'[c].held = FALSE
        <5>1. CASE Touch(c)
          BY <1>0, <2>4, <5>1 DEF Touch, Goto, JobsOK, Job
        <5>2. CASE ~Touch(c)
          <6>1. pc[c] # "touch"
            BY <1>3, <2>4, <5>2
            DEF Handle, ParseHeader, ParseSender, CheckHello, CheckBye, Lock,
                PlayTest, Gather, CheckListening, AddListener, Broadcast, Send, At
          <6>2. \A step, j : Goto(c, step, j) => job'[c] = j
            BY <1>0 DEF Goto, JobsOK
          <6>3. CASE ParseHeader(c) \/ ParseSender(c)
            BY <1>0, <2>4, <6>1, <6>2, <6>3 DEF ParseHeader, ParseSender, Job
          <6>4. CASE \/ CheckHello(c) \/ CheckBye(c) \/ Lock(c) \/ PlayTest(c)
                     \/ Broadcast(c) \/ \E t \in Target : Send(c, t)
            BY <1>0, <2>4, <6>1, <6>2, <6>4
            DEF CheckHello, CheckBye, Lock, PlayTest, Broadcast, Send, Job
          <6>5. CASE Gather(c) \/ CheckListening(c) \/ AddListener(c)
            BY <1>0, <2>4, <6>1, <6>2, <6>5
            DEF Gather, CheckListening, AddListener, Job
          <6> QED
            BY <1>3, <2>4, <5>2, <6>3, <6>4, <6>5 DEF Handle
        <5> QED
          BY <5>1, <5>2
      <4>2. \E step, j : Goto(c, step, j)
        BY <1>3, <2>4
        DEF Handle, ParseHeader, ParseSender, CheckHello, CheckBye, Lock, Touch,
            PlayTest, Gather, CheckListening, AddListener, Broadcast, Send
      <4>3. PICK step, j : Goto(c, step, j)
        BY <4>2
      <4>4. j = job'[c]
        BY <1>0, <4>3 DEF Goto, JobsOK
      <4> QED
        BY <4>0, <4>1, <4>3, <4>4
    <3> QED
      BY <1>0, <2>1, <3>1, HeldMove
  <2> QED
    BY <2>2, <2>3, <2>4
<1> QED
  BY <1>1, <1>2, <1>3

LEMMA RegistryType ==
  ASSUME TypeInv, RegistryStep
  PROVE  RegistryOK'
<1>0. StateTypeOK /\ SettingsTypeOK /\ UNCHANGED settingsVars
  BY DEF TypeInv, RegistryOK, RegistryStep
<1>1. SettingsTypeOK'
  BY <1>0 DEF SettingsTypeOK, settingsVars
<1>2. known' \in SUBSET Guid
  BY DEF RegistryStep, TypeInv, RegistryOK
<1>3. ASSUME NEW g \in Guid, SrsLogin(g) PROVE StateTypeOK'
  <2>1. PICK r \in Ref, k \in Coalition : AddClientAt(r, g, k, GuestRole)
    BY <1>3 DEF SrsLogin
  <2>2. [coalition |-> k, role |-> GuestRole, granted |-> GuestRole] \in ClientState
    BY DEF ClientState, Role
  <2>3. FreshRadio \in RadioState
    BY DEF FreshRadio, RadioState
  <2> QED
    BY <1>0, <2>1, <2>2, <2>3 DEF AddClientAt, StateTypeOK
<1>4. ASSUME NEW g \in Guid, SrsDisconnect(g) \/ SrsKick(g) \/ SrsTune(g)
      PROVE  StateTypeOK'
  BY <1>0, <1>4, VoiceAssumption DEF SrsDisconnect, SrsKick, SrsTune, StateTypeOK
<1> QED
  BY <1>1, <1>2, <1>3, <1>4 DEF RegistryStep, RegistryOK

LEMMA TypeInvInit == VoiceInit => TypeInv
<1> SUFFICES ASSUME VoiceInit PROVE TypeInv
  OBVIOUS
<1>1. RegistryOK
  BY DEF VoiceInit, StateInit, RegistryOK, StateTypeOK, SettingsTypeOK
<1>2. ClientsOK
  BY DEF VoiceInit, ClientsOK
<1>3. JobsOK
  BY NoJobOK DEF VoiceInit, JobsOK
<1>4. HeldOK
  BY DEF VoiceInit, HeldOK, NoJob
<1> QED
  BY <1>1, <1>2, <1>3, <1>4 DEF VoiceInit, TypeInv

LEMMA TypeInvStep == TypeInv /\ [VoiceNext]_vars => TypeInv'
<1> SUFFICES ASSUME TypeInv, [VoiceNext]_vars PROVE TypeInv'
  OBVIOUS
<1>0. steady' \in [Call -> SUBSET Guid]
  BY WatchType DEF TypeInv, vars, VoiceNext, VoiceStep, VoiceCrash, RegistryStep,
                   VoiceRestart, Unshared
<1>1. CASE UNCHANGED <<voiceVars, buffer, packetVars>>
  <2>1. ClientsOK' /\ JobsOK' /\ HeldOK'
    BY <1>1 DEF TypeInv, voiceVars, packetVars, ClientsOK, JobsOK, HeldOK,
                Registered
  <2>2. RegistryStep => RegistryOK'
    BY RegistryType
  <2>3. VoiceCrash => RegistryOK'
    BY DEF VoiceCrash, TypeInv, RegistryOK, StateTypeOK, SettingsTypeOK,
           settingsVars
  <2>4. VoiceStep \/ UNCHANGED vars => RegistryOK'
    BY DEF VoiceStep, Unshared, vars, TypeInv, RegistryOK, StateTypeOK,
           SettingsTypeOK, settingsVars, stateVars
  <2>5. VoiceRestart => RegistryOK'
    BY DEF VoiceRestart, Restart, TypeInv, RegistryOK, StateTypeOK,
           SettingsTypeOK, settingsVars
  <2> QED
    BY <1>0, <2>1, <2>2, <2>3, <2>4, <2>5 DEF TypeInv, VoiceNext
<1>2. CASE VoiceStep
  <2>1. RegistryOK'
    BY <1>2 DEF VoiceStep, Unshared, TypeInv, RegistryOK, StateTypeOK,
                SettingsTypeOK, settingsVars, stateVars
  <2>2. ClientsOK' /\ JobsOK'
    BY <1>2, ReceiveType, ParseType, WriterType, RelayType DEF VoiceStep, Handle
  <2>3. HeldOK'
    <3>1. ASSUME NEW c \in Call, NEW g \in Guid, Receive(c, g) PROVE HeldOK'
      <4> DEFINE j == [NoJob EXCEPT !.from = g]
      <4>1. j \in Job /\ j.held = FALSE
        BY DEF NoJob, Job, Frequency
      <4>2. Goto(c, "header", j) /\ UNCHANGED vclients
        BY <3>1 DEF Receive, voiceVars
      <4> HIDE DEF j
      <4> QED
        BY <4>1, <4>2, HeldMove DEF TypeInv
    <3>2. ASSUME NEW guids, RemoveClients(guids) PROVE HeldOK'
      BY <3>2, HeldOrphan DEF RemoveClients
    <3>3. Stop => HeldOK'
      BY DEF Stop, packetVars, TypeInv, HeldOK, Registered
    <3>4. ASSUME NEW g \in Guid, Age(g) PROVE HeldOK'
      <4>1. vclients[g] \in Client
        BY <3>4 DEF Age, Registered, TypeInv, ClientsOK
      <4>2. [vclients[g] EXCEPT !.fresh = FALSE] \in Client
        BY <4>1 DEF Client
      <4>3. \A h \in Guid : vclients[h] # NoClient => vclients'[h] # NoClient
        BY <3>4, <4>2, VoiceAssumption DEF Age, TypeInv, ClientsOK
      <4>4. \A c \in Call : job[c].held => job[c].sender \in Guid
        BY DEF TypeInv, HeldOK, JobsOK, StepOK, Parsed, Step, Relaying, Job
      <4> QED
        BY <3>4, <4>3, <4>4 DEF Age, packetVars, TypeInv, HeldOK, Registered
    <3> QED
      BY <1>2, <3>1, <3>2, <3>3, <3>4, HandleHeld DEF VoiceStep, Cleanup
  <2> QED
    BY <1>0, <2>1, <2>2, <2>3 DEF TypeInv
<1>3. CASE VoiceRestart
  <2>1. RegistryOK'
    BY <1>3 DEF VoiceRestart, Restart, TypeInv, RegistryOK, StateTypeOK,
                SettingsTypeOK, settingsVars
  <2>2. ClientsOK'
    BY <1>3 DEF VoiceRestart, Restart, ClientsOK
  <2>3. JobsOK'
    BY <1>3, NoJobOK DEF VoiceRestart, Restart, JobsOK
  <2>4. HeldOK'
    BY <1>3 DEF VoiceRestart, Restart, HeldOK, NoJob
  <2> QED
    BY <1>0, <2>1, <2>2, <2>3, <2>4 DEF TypeInv
<1>4. VoiceCrash \/ RegistryStep \/ UNCHANGED vars
        => UNCHANGED <<voiceVars, buffer, packetVars>>
  BY DEF VoiceCrash, PlayTestRace, RegistryStep, vars
<1> QED
  BY <1>1, <1>2, <1>3, <1>4 DEF VoiceNext

LEMMA TypesAlways == VoiceSpec => []TypeInv
  BY TypeInvInit, TypeInvStep, PTL DEF VoiceSpec

\* Every variable of the voice server keeps its type: a goroutine never uses a
\* field it has not parsed or an entry that is gone, although the buffer, the
\* registry and v.clients change between any two of its steps.
THEOREM VoiceTypes == VoiceSpec => []VoiceTypeOK
<1>1. TypeInv => VoiceTypeOK
  BY DEF TypeInv, RegistryOK, ClientsOK, JobsOK, VoiceTypeOK
<1> QED
  BY <1>1, TypesAlways, PTL

-----------------------------------------------------------------------------
(* How a goroutine gets from one step to the next *)

\* A goroutine is where it was, but for a pointer that may have been orphaned, or
\* was started, or took a step of its own.
LEMMA Moves ==
  ASSUME TypeInv, [VoiceNext]_vars, NEW d \in Call, pc'[d] # "idle"
  PROVE  \/ pc'[d] = pc[d] /\ job'[d] \in {job[d], [job[d] EXCEPT !.held = FALSE]}
         \/ VoiceStep /\ pc'[d] = "header"
         \/ VoiceStep /\ Handle(d) /\ Goto(d, pc'[d], job'[d])
<1>0. JobsOK
  BY DEF TypeInv
<1>1. UNCHANGED packetVars => pc'[d] = pc[d] /\ job'[d] = job[d]
  BY DEF packetVars
<1>2. ASSUME NEW c \in Call, NEW step, NEW j, Goto(c, step, j), c # d
      PROVE  pc'[d] = pc[d] /\ job'[d] = job[d]
  BY <1>0, <1>2 DEF Goto, JobsOK
<1>3. ASSUME NEW step, NEW j, Goto(d, step, j)
      PROVE  pc'[d] = step /\ job'[d] = j /\ Goto(d, pc'[d], job'[d])
  BY <1>0, <1>3 DEF Goto, JobsOK
<1>4. ASSUME NEW guids,
             \/ job' = Orphan(guids) /\ UNCHANGED pc
             \/ \E c \in Call : /\ job' = [Orphan(guids) EXCEPT ![c] = NoJob]
                                /\ pc' = [pc EXCEPT ![c] = "idle"]
      PROVE  pc'[d] = pc[d] /\ job'[d] \in {job[d], [job[d] EXCEPT !.held = FALSE]}
  <2>1. pc'[d] = pc[d] /\ job'[d] = Orphan(guids)[d]
    BY <1>0, <1>4 DEF JobsOK, Orphan
  <2> QED
    BY <1>0, <2>1, OrphanJob
<1>5. ASSUME VoiceStep, NEW c \in Call, NEW g \in Guid, Receive(c, g)
      PROVE  \/ pc'[d] = "header"
             \/ pc'[d] = pc[d] /\ job'[d] = job[d]
  <2>1. PICK j : Goto(c, "header", j)
    BY <1>5 DEF Receive
  <2>2. CASE c = d
    <3>1. pc' = [pc EXCEPT ![c] = "header"]
      BY <2>1 DEF Goto
    <3> QED
      BY <1>0, <2>2, <3>1 DEF JobsOK
  <2>3. CASE c # d
    BY <1>2, <2>1, <2>3
  <2> QED
    BY <2>2, <2>3
<1>6. ASSUME NEW c \in Call, Handle(c), ~Register(c), ~Disconnect(c)
      PROVE  \E step, j : Goto(c, step, j)
  BY <1>6
  DEF Handle, ParseHeader, ParseSender, CheckHello, CheckBye, Lock, LookupSender,
      Touch, PlayTest, Gather, CheckListening, AddListener, Broadcast, Send, Done
<1>7. ASSUME NEW c \in Call, Register(c) \/ Disconnect(c)
      PROVE  pc'[d] = pc[d] /\ job'[d] \in {job[d], [job[d] EXCEPT !.held = FALSE]}
  BY <1>4, <1>7 DEF Register, Disconnect
<1>8. ASSUME VoiceStep, NEW c \in Call, Handle(c)
      PROVE  \/ pc'[d] = pc[d] /\ job'[d] \in {job[d], [job[d] EXCEPT !.held = FALSE]}
             \/ Handle(d) /\ Goto(d, pc'[d], job'[d])
  <2>1. CASE Register(c) \/ Disconnect(c)
    BY <1>7, <2>1
  <2>2. CASE ~Register(c) /\ ~Disconnect(c)
    <3>1. PICK step, j : Goto(c, step, j)
      BY <1>6, <1>8, <2>2
    <3> QED
      BY <1>2, <1>3, <1>8, <3>1
  <2> QED
    BY <2>1, <2>2
<1>9. ASSUME NEW guids, RemoveClients(guids)
      PROVE  pc'[d] = pc[d] /\ job'[d] \in {job[d], [job[d] EXCEPT !.held = FALSE]}
  BY <1>4, <1>9 DEF RemoveClients
<1>10. ~VoiceRestart
  BY DEF VoiceRestart, Restart
<1>11. ASSUME \/ VoiceCrash \/ RegistryStep \/ UNCHANGED vars \/ Stop
              \/ \E g \in Guid : Age(g)
       PROVE  UNCHANGED packetVars
  BY <1>11 DEF VoiceCrash, PlayTestRace, RegistryStep, vars, Stop, Age
<1> QED
  BY <1>1, <1>5, <1>8, <1>9, <1>10, <1>11 DEF VoiceNext, VoiceStep, Cleanup

-----------------------------------------------------------------------------
(* Who gets an entry in v.clients *)

\* The strengthening: a hello that has passed its check comes from a guid that
\* has logged in, although the session may be gone when the entry is written.
LoginInv ==
  /\ VoiceClientsLoggedIn
  /\ \A g \in Guid : DoesClientExist(g) => g \in known
  /\ \A c \in Call : pc[c] \in {"register", "registering"} => job[c].sender \in known

LEMMA LoginInvStep ==
  TypeInv /\ LoginInv /\ [VoiceNext]_vars => LoginInv'
<1> SUFFICES ASSUME TypeInv, LoginInv, [VoiceNext]_vars PROVE LoginInv'
  OBVIOUS
<1>1. known \subseteq known'
  BY DEF VoiceNext, VoiceStep, VoiceCrash, RegistryStep, VoiceRestart, Unshared,
         vars
<1>2. ASSUME NEW g \in Guid, clients'[g] # NoRef PROVE g \in known'
  <2>1. CASE clients'[g] = clients[g]
    BY <1>1, <1>2, <2>1 DEF LoginInv, DoesClientExist
  <2>2. CASE clients'[g] # clients[g]
    <3>1. RegistryStep
      BY <1>2, <2>2
      DEF VoiceNext, VoiceStep, VoiceCrash, VoiceRestart, Restart, Unshared, vars,
          stateVars
    <3>2. PICK h \in Guid : \/ SrsLogin(h) /\ known' = known \cup {h}
                            \/ SrsDisconnect(h) \/ SrsKick(h) \/ SrsTune(h)
      BY <3>1 DEF RegistryStep
    <3>3. h = g /\ SrsLogin(h)
      BY <1>2, <2>2, <3>2
      DEF SrsLogin, AddClientAt, SrsDisconnect, SrsKick, SrsTune, TypeInv,
          RegistryOK, StateTypeOK
    <3>4. ~SrsDisconnect(h) /\ ~SrsKick(h) /\ ~SrsTune(h)
      BY <1>2, <2>2, <3>3
      DEF SrsDisconnect, SrsKick, SrsTune, TypeInv, RegistryOK, StateTypeOK
    <3> QED
      BY <3>2, <3>3, <3>4
  <2> QED
    BY <2>1, <2>2
<1>3. ASSUME NEW g \in Guid, vclients'[g] # NoClient PROVE g \in known'
  <2>1. CASE vclients[g] # NoClient
    BY <1>1, <2>1 DEF LoginInv, VoiceClientsLoggedIn, Registered
  <2>2. CASE vclients[g] = NoClient
    <3>1. ASSUME NEW c \in Call, Register(c) PROVE g \in known'
      <4>1. job[c].sender = g
        BY <1>3, <2>2, <3>1 DEF Register, TypeInv, ClientsOK
      <4> QED
        BY <1>1, <3>1, <4>1 DEF Register, At, LoginInv
    <3>2. ASSUME NEW c \in Call, Handle(c), ~Register(c) PROVE FALSE
      <4>1. CASE Touch(c)
        <5>1. job[c].held => job[c].sender # g
          BY <2>2 DEF TypeInv, HeldOK, Registered
        <5> QED
          BY <1>3, <2>2, <4>1, <5>1 DEF Touch, TypeInv, ClientsOK
      <4>2. CASE Disconnect(c)
        BY <1>3, <2>2, <4>2 DEF Disconnect, TypeInv, ClientsOK
      <4> QED
        BY <1>3, <2>2, <3>2, <4>1, <4>2
        DEF Handle, ParseHeader, ParseSender, CheckHello, CheckBye, Lock,
            LookupSender, PlayTest, Gather, CheckListening, AddListener,
            Broadcast, Send, voiceVars
    <3>3. ASSUME NEW guids, RemoveClients(guids) PROVE FALSE
      BY <1>3, <2>2, <3>3 DEF RemoveClients
    <3>4. ASSUME NEW h \in Guid, Age(h) PROVE FALSE
      <4>1. h # g
        BY <2>2, <3>4 DEF Age, Registered
      <4> QED
        BY <1>3, <2>2, <3>4, <4>1 DEF Age, TypeInv, ClientsOK
    <3>5. ASSUME NEW c \in Call, NEW h \in Guid, Receive(c, h) PROVE FALSE
      BY <1>3, <2>2, <3>5 DEF Receive, voiceVars
    <3>6. ~Stop /\ ~VoiceCrash /\ ~RegistryStep /\ ~VoiceRestart /\ ~UNCHANGED vars
      BY <1>3, <2>2
      DEF Stop, VoiceCrash, PlayTestRace, RegistryStep, VoiceRestart, Restart,
          vars, voiceVars
    <3> QED
      BY <3>1, <3>2, <3>3, <3>4, <3>5, <3>6 DEF VoiceNext, VoiceStep, Cleanup
  <2> QED
    BY <2>1, <2>2
<1>4. ASSUME NEW d \in Call, pc'[d] \in {"register", "registering"}
      PROVE  job'[d].sender \in known'
  <2>1. CASE pc'[d] = pc[d] /\ job'[d] \in {job[d], [job[d] EXCEPT !.held = FALSE]}
    <3>1. job'[d].sender = job[d].sender
      BY <2>1 DEF TypeInv, JobsOK, Job
    <3> QED
      BY <1>1, <1>4, <2>1, <3>1 DEF LoginInv
  <2>2. CASE VoiceStep /\ Handle(d) /\ Goto(d, pc'[d], job'[d])
    <3>1. CheckHello(d) \/ Lock(d)
      BY <1>4, <2>2
      DEF Handle, ParseHeader, ParseSender, CheckBye, Register, Disconnect,
          LookupSender, Touch, PlayTest, Gather, CheckListening, AddListener,
          Broadcast, Send, Done, Goto, TypeInv, JobsOK
    <3>2. job'[d] = job[d] /\ job[d].sender \in Guid
      BY <1>4, <3>1
      DEF CheckHello, Lock, At, Done, Goto, TypeInv, JobsOK, StepOK, Parsed, Step,
          Job
    <3>3. CASE CheckHello(d)
      <4>1. DoesClientExist(job[d].sender)
        BY <1>4, <3>3 DEF CheckHello, Done, Goto, TypeInv, JobsOK
      <4> QED
        BY <1>1, <3>2, <4>1 DEF LoginInv
    <3>4. CASE Lock(d)
      <4>1. pc[d] = "register"
        BY <1>4, <3>4 DEF Lock, Goto, TypeInv, JobsOK
      <4> QED
        BY <1>1, <3>2, <4>1 DEF LoginInv
    <3> QED
      BY <3>1, <3>3, <3>4
  <2> QED
    BY <1>4, <2>1, <2>2, Moves
<1> QED
  BY <1>2, <1>3, <1>4
  DEF LoginInv, VoiceClientsLoggedIn, Registered, DoesClientExist

\* Nobody gets an entry in v.clients without having logged in, although the
\* login is checked a step before the lock is taken.
THEOREM VoiceClientsLoggedInAlways == VoiceSpec => []VoiceClientsLoggedIn
<1>1. VoiceInit => LoginInv
  BY DEF VoiceInit, StateInit, LoginInv, VoiceClientsLoggedIn, Registered,
         DoesClientExist
<1>2. LoginInv => VoiceClientsLoggedIn
  BY DEF LoginInv
<1> QED
  BY <1>1, <1>2, LoginInvStep, TypesAlways, PTL DEF VoiceSpec


-----------------------------------------------------------------------------
(* Who is reached by a voice packet *)

Heard(c) == {t.guid : t \in job[c].targets}

\* The strengthening, at any point of the loop of GetListeningClients: a steady
\* listener has its place among the targets, is still to be looked at, or is the
\* one being looked up in v.clients.
FanInv ==
  \A c \in Call :
    /\ pc[c] = "listen" => steady[c] \subseteq Heard(c) \cup job[c].rest
    /\ pc[c] = "listener" =>
         steady[c] \subseteq Heard(c) \cup job[c].rest \cup {job[c].listener}

\* IsListeningOnFrequency finds whoever listens: the first tuned radio is the one
\* that is on, and the coalition test is passed by everybody.
LEMMA ListensIsListening ==
  ASSUME TypeInv, NEW c \in Call, NEW g \in Guid, Listens(c, g)
  PROVE  IsListening(c, g)
<1> DEFINE tuned == {i \in DOMAIN radios[g].radios :
                       radios[g].radios[i].freq = job[c].freq}
<1>1. DoesClientExist(job[c].sender) /\ HasRadio(g)
  BY DEF Listens, Reachable
<1>2. DOMAIN radios[g].radios \subseteq Nat
  <2>1. radios[g] \in RadioState
    BY <1>1 DEF TypeInv, RegistryOK, StateTypeOK, HasRadio
  <2> QED
    BY <2>1 DEF RadioState
<1>3. PICK i \in DOMAIN radios[g].radios :
        /\ radios[g].radios[i] = [freq |-> job[c].freq, enabled |-> TRUE]
        /\ \A k \in DOMAIN radios[g].radios :
             k < i => radios[g].radios[k].freq # job[c].freq
  BY DEF Listens
<1>4. i \in tuned /\ \A k \in tuned : i <= k
  BY <1>2, <1>3
<1> DEFINE first == CHOOSE j \in tuned : \A k \in tuned : j <= k
<1>5. first = i
  <2>1. \A j \in tuned : (\A k \in tuned : j <= k) => j = i
    BY <1>2, <1>4
  <2> QED
    BY <1>4, <2>1
<1>6. tuned # {}
  BY <1>4
<1>7. radios[g].radios[i].enabled
  BY <1>3
<1>8. radios[g].radios[first].enabled
  <2> HIDE DEF first
  <2> QED
    BY <1>5, <1>7
<1> QED
  BY <1>1, <1>6, <1>8, Zenon DEF IsListening, IsListeningOnFrequency

\* A steady listener is listening now, and was one before the step too, unless the
\* goroutine has only just parsed its packet.
LEMMA SteadyListens ==
  ASSUME TypeInv, VoiceNext, NEW d \in Call, NEW g \in steady'[d]
  PROVE  /\ g \in Guid
         /\ Listens(d, g)'
         /\ job'[d].type = "voice"
         /\ pc[d] \in Relaying /\ job[d].type = "voice" => g \in steady[d]
<1>1. Watch
  BY DEF VoiceNext, VoiceStep, VoiceCrash, RegistryStep, VoiceRestart, Unshared
<1>2. steady'[d] = IF ~IsRelaying(d)' THEN {}
                   ELSE {h \in Guid : Listens(d, h)' /\ (IsRelaying(d) => h \in steady[d])}
  BY <1>1 DEF Watch
<1>3. IsRelaying(d)'
  BY <1>2
<1>4. g \in Guid /\ Listens(d, g)' /\ (IsRelaying(d) => g \in steady[d])
  BY <1>2, <1>3
<1> QED
  BY <1>3, <1>4 DEF IsRelaying

\* One step of the goroutine's own through the loop.
LEMMA FanMove ==
  ASSUME TypeInv, FanInv, VoiceStep, VoiceNext, NEW d \in Call, Handle(d),
         Goto(d, pc'[d], job'[d]), pc'[d] \in {"listen", "listener"},
         NEW g \in steady'[d]
  PROVE  \/ g \in Heard(d)' \cup job'[d].rest
         \/ pc'[d] = "listener" /\ g = job'[d].listener
<1>0. job[d] \in Job /\ pc \in [Call -> Step \cup {"idle"}]
      /\ job \in [Call -> Job]
  BY DEF TypeInv, JobsOK
<1>1. g \in Guid /\ Listens(d, g)' /\ job'[d].type = "voice"
      /\ (pc[d] \in Relaying /\ job[d].type = "voice" => g \in steady[d])
  BY SteadyListens
<1>2. UNCHANGED stateVars
  BY DEF VoiceStep, Unshared
<1>3. Gather(d) \/ CheckListening(d) \/ AddListener(d)
  BY <1>0
  DEF Handle, ParseHeader, ParseSender, CheckHello, CheckBye, Lock, Register,
      Disconnect, LookupSender, Touch, PlayTest, Broadcast, Send, Done, Goto
<1>4. UNCHANGED voiceVars
  BY <1>3 DEF Gather, CheckListening, AddListener
<1>5. CASE Gather(d)
  <2>1. job'[d] = [job[d] EXCEPT
          !.rest = {h \in Guid : DoesClientExist(h)} \ {job[d].sender}]
    BY <1>0, <1>5 DEF Gather, Goto
  <2>2. job'[d].rest = {h \in Guid : DoesClientExist(h)} \ {job'[d].sender}
    BY <1>0, <2>1 DEF Job
  <2>3. clients'[g] # NoRef /\ g # job'[d].sender
    BY <1>1 DEF Listens, Reachable, DoesClientExist
  <2> QED
    BY <1>1, <1>2, <2>2, <2>3 DEF stateVars, DoesClientExist
<1>6. CASE CheckListening(d)
  <2>1. PICK h \in job[d].rest :
          LET j == [job[d] EXCEPT !.rest = @ \ {h}]
          IN IF IsListening(d, h)
             THEN Goto(d, "listener", [j EXCEPT !.listener = h])
             ELSE Goto(d, "listen", j)
    BY <1>6 DEF CheckListening
  <2> DEFINE j == [job[d] EXCEPT !.rest = @ \ {h}]
             k == [j EXCEPT !.listener = h]
  <2>2. h \in Guid
    BY <1>0, <2>1 DEF Job
  <2>3. /\ job'[d].rest = job[d].rest \ {h}
        /\ job'[d].targets = job[d].targets
        /\ job'[d].type = job[d].type
        /\ job'[d].sender = job[d].sender
        /\ job'[d].freq = job[d].freq
        /\ IF IsListening(d, h) THEN pc'[d] = "listener" /\ job'[d].listener = h
                                ELSE pc'[d] = "listen"
    <3>1. /\ j.rest = job[d].rest \ {h} /\ j.targets = job[d].targets
          /\ j.type = job[d].type /\ j.sender = job[d].sender
          /\ j.freq = job[d].freq
      BY <1>0 DEF Job
    <3>2. /\ k.rest = j.rest /\ k.targets = j.targets /\ k.type = j.type
          /\ k.sender = j.sender /\ k.freq = j.freq /\ k.listener = h
      BY <1>0, <2>2 DEF Job
    <3>3. IF IsListening(d, h) THEN pc'[d] = "listener" /\ job'[d] = k
                               ELSE pc'[d] = "listen" /\ job'[d] = j
      <4> HIDE DEF j, k
      <4>1. IF IsListening(d, h) THEN Goto(d, "listener", k) ELSE Goto(d, "listen", j)
        BY <2>1 DEF j, k
      <4> QED
        BY <1>0, <4>1 DEF Goto
    <3> HIDE DEF j, k
    <3> QED
      BY <3>1, <3>2, <3>3
  <2>4. g \in Heard(d) \cup job[d].rest
    BY <1>1, <1>6, <2>3 DEF CheckListening, At, Relaying, FanInv
  <2>5. CASE IsListening(d, h)
    BY <2>3, <2>4, <2>5 DEF Heard
  <2>6. CASE ~IsListening(d, h)
    <3>1. Listens(d, g)
      BY <1>1, <1>2, <1>4, <2>3
      DEF Listens, Reachable, DoesClientExist, Registered, HasRadio, stateVars,
          voiceVars
    <3>2. g # h
      BY <1>1, <2>6, <3>1, ListensIsListening
    <3> QED
      BY <2>3, <2>4, <3>2 DEF Heard
  <2> QED
    BY <2>5, <2>6
<1>7. CASE AddListener(d)
  <2>1. /\ job'[d].rest = job[d].rest
        /\ job'[d].type = job[d].type
        /\ job'[d].targets =
             IF Registered(job[d].listener)
             THEN job[d].targets \cup
                    {[guid |-> job[d].listener,
                      addr |-> vclients[job[d].listener].addr]}
             ELSE job[d].targets
    BY <1>0, <1>7 DEF AddListener, Goto, Job
  <2>2. g \in Heard(d) \cup job[d].rest \cup {job[d].listener}
    BY <1>1, <1>7, <2>1 DEF AddListener, At, Relaying, FanInv
  <2>3. CASE g = job[d].listener
    <3>1. Registered(g)
      BY <1>1, <1>4 DEF Listens, Reachable, Registered, voiceVars
    <3>2. [guid |-> g, addr |-> vclients[g].addr] \in job'[d].targets
      BY <2>1, <2>3, <3>1
    <3> QED
      BY <3>2 DEF Heard
  <2>4. CASE g \in Heard(d)
    BY <2>1, <2>4 DEF Heard
  <2> QED
    BY <2>1, <2>2, <2>3, <2>4
<1> QED
  BY <1>3, <1>5, <1>6, <1>7

LEMMA FanInvStep ==
  TypeInv /\ FanInv /\ [VoiceNext]_vars => FanInv'
<1> SUFFICES ASSUME TypeInv, FanInv, [VoiceNext]_vars,
                    NEW d \in Call, pc'[d] \in {"listen", "listener"},
                    NEW g \in steady'[d]
             PROVE  \/ g \in Heard(d)' \cup job'[d].rest
                    \/ pc'[d] = "listener" /\ g = job'[d].listener
  BY DEF FanInv
<1>1. CASE UNCHANGED vars
  BY <1>1 DEF vars, packetVars, FanInv, Heard
<1>2. CASE /\ VoiceNext
           /\ pc'[d] = pc[d] /\ job'[d] \in {job[d], [job[d] EXCEPT !.held = FALSE]}
  <2>1. /\ job'[d].rest = job[d].rest /\ job'[d].listener = job[d].listener
        /\ job'[d].targets = job[d].targets /\ job'[d].type = job[d].type
    BY <1>2 DEF TypeInv, JobsOK, Job
  <2>2. g \in steady[d]
    BY <1>2, <2>1, SteadyListens DEF Relaying
  <2> QED
    BY <1>2, <2>1, <2>2 DEF FanInv, Heard
<1>3. CASE VoiceNext /\ VoiceStep /\ Handle(d) /\ Goto(d, pc'[d], job'[d])
  BY <1>3, FanMove
<1> QED
  BY <1>1, <1>2, <1>3, Moves

\* A voice packet goes to every client that was listening from the moment it was
\* parsed until the loop of GetListeningClients ended, whatever is logged in,
\* retuned, registered and forgotten while the loop runs.
THEOREM EveryListenerIsReached == VoiceSpec => []FansOut
<1>1. VoiceInit => FanInv
  BY DEF VoiceInit, FanInv
<1>2. TypeInv /\ FanInv => FansOut
  BY DEF FanInv, FansOut, Heard
<1> QED
  BY <1>1, <1>2, FanInvStep, TypesAlways, PTL DEF VoiceSpec
=============================================================================
