------------------------------ MODULE AudioInput ------------------------------
(***************************************************************************)
(* The microphone of a meeting: DefaultDeviceController's audio input and   *)
(* what DefaultAudioVideoController sends of it.  Choices of a device are   *)
(* tasks of a queue; the task at the head waits for the browser while the   *)
(* application, the browser and the session go on.  The device controller   *)
(* and the session put tasks of their own into the queue, the choice of no  *)
(* device: when a device ends, and when a stream is needed and none is      *)
(* there.  A stream is a number; of a stopped stream nothing is kept.       *)
(***************************************************************************)
EXTENDS Naturals, Sequences, FiniteSets

CONSTANTS
  Mics, Transforms,       \* devices of the browser; audio transform devices
  Silence,                \* createEmptyAudioDevice
  None,
  MaxStreams, MaxQueue,   \* bounds on streams in existence, tasks waiting,
  MaxCalls, MaxEvents     \* calls of the application, other events

ASSUME NamesAssumption ==
  /\ Mics \cap Transforms = {} /\ {Silence, None} \cap (Mics \cup Transforms) = {}
  /\ Silence # None
ASSUME TransformsAssumption ==
  \E f \in [Transforms -> Mics] : \A t, u \in Transforms : f[t] = f[u] => t = u

(* device.intrinsicDevice() of each transform device *)
Inner == CHOOSE f \in [Transforms -> Mics] : \A t, u \in Transforms : f[t] = f[u] => t = u

Streams == 1..MaxStreams
Destinations == MaxStreams + 1 .. MaxStreams + 3     \* streams of Web Audio destination nodes
(* One stream more than those that are used while a stream is opened, so     *)
(* that a number is free for it.                                             *)
ASSUME StreamsAssumption ==
  MaxStreams \in Nat /\ MaxStreams >= 4 /\ None \notin Streams \cup Destinations
Blank == [device |-> None, live |-> FALSE, enabled |-> FALSE, minimal |-> FALSE]
Task(op, device, by) == [op |-> op, device |-> device, by |-> by]

VARIABLES
  webAudio,     \* an option of the constructor
  streams,      \* device, live, enabled of each stream, minimal: got with fallback constraints
  active,       \* activeDevices['audio'].stream
  transform,    \* transform.device
  source, dest, \* what audioInputSourceNode wraps; audioInputDestinationNode's stream
  queue,        \* audioInputTaskQueue, the running task at its head
  phase,        \* what the running task waits for
  muted,        \* the realtime controller's mute
  meeting,      \* out, acquiring an input, joining (no peer connection), in
  observing,    \* whether the session is registered as MediaStreamBrokerObserver
  input,        \* the session's activeAudioInput
  sent,         \* what the peer connection sends
  present,      \* devices plugged in
  calls, events,
  wanted,       \* history: the application's last choice, None if nothing is promised
  spoiled,      \* history: a choice was undone by a task put behind it, or was ignored
  missed        \* history: the session was not told of a change, or ignored it

deviceVars == <<streams, active, transform, source, dest>>
sessionVars == <<meeting, observing, input, sent, missed>>
vars == <<webAudio, deviceVars, queue, phase, muted, sessionVars, present, calls, events,
          wanted, spoiled>>

Init ==
  /\ webAudio \in BOOLEAN
  /\ streams = [i \in Streams |-> Blank]
  /\ active = None /\ transform = None /\ source = None /\ dest = None
  /\ queue = <<>> /\ phase = "none" /\ muted = FALSE
  /\ meeting = "out" /\ observing = FALSE /\ input = None /\ sent = None
  /\ present = Mics /\ calls = 0 /\ events = 0
  /\ wanted = None /\ spoiled = FALSE /\ missed = FALSE

-----------------------------------------------------------------------------
(* A step of a task changes a state s of these fields. *)
Now == [streams |-> streams, active |-> active, transform |-> transform, source |-> source,
        dest |-> dest, queue |-> queue, phase |-> phase, meeting |-> meeting, input |-> input,
        sent |-> sent, missed |-> missed, wanted |-> wanted, spoiled |-> spoiled]

Becomes(next) == \E s \in {next} :
  /\ streams' = s.streams /\ active' = s.active /\ transform' = s.transform
  /\ source' = s.source /\ dest' = s.dest /\ queue' = s.queue /\ phase' = s.phase
  /\ meeting' = s.meeting /\ input' = s.input /\ sent' = s.sent /\ missed' = s.missed
  /\ wanted' = s.wanted /\ spoiled' = s.spoiled

Referenced(s) == {s.active, s.source, s.input, s.sent, s.dest}
Least(S) == CHOOSE i \in S : \A j \in S : i <= j
UnusedStream(s) == Least({i \in Streams : ~s.streams[i].live /\ i \notin Referenced(s)})
UnusedDestination(s) == Least(Destinations \ Referenced(s))

FromApp(q) == \E i \in DOMAIN q : q[i].by = "app"

(* The choice of no device, behind whatever waits.  A task at the head that *)
(* is ending is not in "waiting".                                           *)
ChooseSilence(s, by, waiting) ==
  [s EXCEPT !.queue = Append(s.queue, Task("start", Silence, by)),
            !.spoiled = @ \/ FromApp(waiting)]

(* Bug: the stream that is replaced goes on. *)
KeepTracks(s) == [s EXCEPT !.active = None]

stopTracksAndRemoveCallbacks(s) ==
  IF s.active = None THEN s
  ELSE [s EXCEPT !.streams[s.active] = Blank, !.active = None]

handleNewInputDevice(s, device, minimal) ==
  LET i == UnusedStream(s)
  IN [s EXCEPT !.streams[i] = [device |-> device, live |-> TRUE, enabled |-> TRUE,
                               minimal |-> minimal],
               !.active = i]

getMediaStreamDestinationNode(s) ==
  IF s.dest = None THEN [s EXCEPT !.dest = UnusedDestination(s)] ELSE s

Output(s) == IF webAudio THEN s.dest ELSE s.active

replaceLocalAudio(s, stream) ==
  [s EXCEPT !.input = stream, !.sent = stream, !.missed = FALSE]

(* The end of acquireAudioInputStream, for audioInputDidChange or ReceiveAudioInputTask. *)
Acquired(s, by) ==
  LET t == IF webAudio THEN getMediaStreamDestinationNode(s) ELSE s
  IN CASE by = "change" /\ t.meeting = "in" -> replaceLocalAudio(t, Output(t))
       [] by = "join" /\ t.meeting = "acquiring" ->
            [t EXCEPT !.input = Output(t), !.meeting = "joining", !.missed = FALSE]
       [] by = "change" /\ t.meeting = "joining" -> [t EXCEPT !.missed = TRUE]
       [] OTHER -> t

acquireAudioInputStream(s, by, waiting) ==
  IF s.active = None THEN ChooseSilence(s, by, waiting) ELSE Acquired(s, by)

(* Bug: a stopped input is not replaced. *)
audioInputDidStart(s, stream) ==
  CASE s.meeting = "in" /\ observing /\ stream # None -> replaceLocalAudio(s, stream)
    [] s.meeting = "joining" \/ (s.meeting = "in" /\ ~observing) -> [s EXCEPT !.missed = TRUE]
    [] OTHER -> s

(* A session that is not registered is not told, one without a peer          *)
(* connection ignores it.                                                   *)
audioInputDidChange(s, stream) ==
  CASE s.meeting = "in" /\ observing /\ stream # None -> replaceLocalAudio(s, stream)
    [] s.meeting = "in" /\ observing /\ stream = None ->
         acquireAudioInputStream(s, "change", Tail(s.queue))
    [] s.meeting = "joining" \/ (s.meeting = "in" /\ ~observing) -> [s EXCEPT !.missed = TRUE]
    [] OTHER -> s

-----------------------------------------------------------------------------
(* Ends of the running task. *)
(* Bug: the next task goes on with what this one waited for. *)
FinishKeepsPhase(s) == [s EXCEPT !.queue = Tail(s.queue)]
Finish(s) == [s EXCEPT !.queue = Tail(s.queue), !.phase = "none"]

Succeed(s) ==
  LET by == Head(s.queue).by
      t == IF webAudio
           THEN [getMediaStreamDestinationNode(s) EXCEPT !.source = s.active]
           ELSE audioInputDidChange(s, s.active)
  IN IF by \in {"change", "join"} THEN Acquired(Finish(t), by) ELSE Finish(t)

Throw(s) == [Finish(s) EXCEPT !.wanted = IF Head(s.queue).by = "app" THEN None ELSE @]

(* The task throws after it has put no device in place of the one asked for, *)
(* and tells nobody of it.                                                   *)
ThrowAfterSilence(s) ==
  [Throw(handleNewInputDevice(s, Silence, FALSE)) EXCEPT
     !.missed = @ \/ (~webAudio /\ meeting \in {"joining", "in"})]

(* setTransform for a transform device *)
Chosen(s) ==
  LET device == Head(s.queue).device
  IN IF device \in Transforms
     THEN Succeed([getMediaStreamDestinationNode(s) EXCEPT !.transform = device])
     ELSE Succeed(s)

(* Bug: any open stream will do. *)
MatchesOpenStream(s, device) == s.active # None /\ s.streams[s.active].live

matchesDeviceSelection(s, device) ==
  /\ s.active # None
  /\ s.streams[s.active].live
  /\ s.streams[s.active].device = device
  /\ ~s.streams[s.active].minimal

chooseInputIntrinsicDevice(s, device) ==
  LET t == stopTracksAndRemoveCallbacks(s)
  IN CASE matchesDeviceSelection(s, device) -> Chosen(s)
       [] ~matchesDeviceSelection(s, device) /\ device = Silence ->
            Chosen(handleNewInputDevice(t, Silence, FALSE))
       [] OTHER -> [t EXCEPT !.phase = "getting"]

Requested ==
  LET device == Head(queue).device IN IF device \in Transforms THEN Inner[device] ELSE device

-----------------------------------------------------------------------------
(* Steps of the running task *)
BeginStop ==
  /\ queue # <<>> /\ phase = "none" /\ Head(queue).op = "stop"
  /\ LET s == stopTracksAndRemoveCallbacks(Now)
         t == IF webAudio
              THEN [s EXCEPT !.transform = None, !.source = None, !.dest = None]
              ELSE s
     IN Becomes(Finish(audioInputDidChange(t, None)))

BeginStart ==
  /\ queue # <<>> /\ phase = "none" /\ Head(queue).op = "start"
  /\ Head(queue).device \notin Transforms
  /\ Becomes(chooseInputIntrinsicDevice([Now EXCEPT !.transform = None], Head(queue).device))

(* A transform device that is in place already is not chosen again, whatever *)
(* has become of its microphone.                                             *)
BeginTransform ==
  /\ queue # <<>> /\ phase = "none" /\ Head(queue).op = "start"
  /\ Head(queue).device \in Transforms
  /\ Becomes(CASE ~webAudio -> Throw(Now)
               [] webAudio /\ transform = Head(queue).device ->
                    Succeed([Now EXCEPT !.spoiled = @ \/ streams[active].device # Requested])
               [] OTHER -> [Now EXCEPT !.phase = "nodes"])

(* context.resume, createAudioNode and intrinsicDevice *)
NodesCreated == phase = "nodes" /\ Becomes(chooseInputIntrinsicDevice(Now, Requested))
NodesFail == phase = "nodes" /\ Becomes(Throw(Now))

(* getUserMedia *)
Granted ==
  /\ phase \in {"getting", "fallback"} /\ Requested \in present
  /\ Becomes(Chosen(handleNewInputDevice(Now, Requested, phase = "fallback")))
OverConstrained ==
  /\ phase = "getting"
  /\ Becomes([Now EXCEPT !.phase = "fallback"])
Denied ==
  /\ phase \in {"getting", "fallback"}
  /\ Becomes(ThrowAfterSilence(Now))

TaskStep ==
  /\ \/ BeginStop \/ BeginStart \/ BeginTransform
     \/ NodesCreated \/ NodesFail
     \/ Granted \/ OverConstrained \/ Denied
  /\ UNCHANGED <<webAudio, muted, observing, present, calls, events>>

-----------------------------------------------------------------------------
(* The application *)
Call == calls < MaxCalls /\ calls' = calls + 1
Choice(op, device) ==
  /\ Call /\ Len(queue) < MaxQueue
  /\ queue' = Append(queue, Task(op, device, "app"))
  /\ wanted' = device
  /\ spoiled' = (spoiled /\ queue # <<>>)
  /\ UNCHANGED <<webAudio, deviceVars, phase, muted, sessionVars, present, events>>

startAudioInput(device) == Choice("start", device)
stopAudioInput == Choice("stop", Silence)

toggleLocalAudioInputStream(enabled) ==
  streams' = [i \in Streams |-> IF i = active /\ streams[i].live
                                THEN [streams[i] EXCEPT !.enabled = enabled] ELSE streams[i]]

SetMute ==
  /\ Call
  /\ muted' = ~muted /\ toggleLocalAudioInputStream(muted)
  /\ UNCHANGED <<webAudio, active, transform, source, dest, queue, phase, sessionVars, present,
                 events, wanted, spoiled>>

(* The session *)
Event == events < MaxEvents /\ events' = events + 1

MeetingStart ==
  /\ Event /\ meeting = "out"
  /\ Becomes(acquireAudioInputStream([Now EXCEPT !.meeting = "acquiring"], "join", queue))
  /\ UNCHANGED <<webAudio, muted, observing, present, calls>>

AttachMediaInput ==
  /\ meeting = "joining"
  /\ meeting' = "in" /\ sent' = input
  /\ UNCHANGED <<webAudio, deviceVars, queue, phase, muted, observing, input, missed, present,
                 calls, events, wanted, spoiled>>

(* The session registers when all tasks of its first start have run.         *)
FinishStart ==
  /\ meeting = "in" /\ ~observing
  /\ observing' = TRUE
  /\ UNCHANGED <<webAudio, deviceVars, queue, phase, muted, meeting, input, sent, missed, present,
                 calls, events, wanted, spoiled>>

(* Only a session that has started is reconnected; it stays registered.      *)
CleanRestartedSession ==
  /\ Event /\ meeting = "in" /\ observing
  /\ meeting' = "joining" /\ sent' = None
  /\ UNCHANGED <<webAudio, deviceVars, queue, phase, muted, observing, input, missed, present,
                 calls, wanted, spoiled>>

MeetingStop ==
  /\ Event /\ meeting \in {"joining", "in"}
  /\ meeting' = "out" /\ observing' = FALSE /\ sent' = None /\ input' = None /\ missed' = FALSE
  /\ UNCHANGED <<webAudio, deviceVars, queue, phase, muted, present, calls, wanted, spoiled>>

(* The browser *)
endedCallback(ended) == active \in ended

Unplug(m) ==
  LET ended == {i \in Streams : streams[i].live /\ streams[i].device = m}
      s == [Now EXCEPT !.streams = [i \in Streams |-> IF i \in ended THEN Blank ELSE streams[i]],
                       !.wanted = IF active \in ended /\ ~FromApp(queue) THEN Silence ELSE @]
  IN /\ Event /\ m \in present
     /\ present' = present \ {m}
     /\ Becomes(IF endedCallback(ended) THEN ChooseSilence(s, "ended", queue) ELSE s)
     /\ UNCHANGED <<webAudio, muted, observing, calls>>

Plug(m) ==
  /\ Event /\ m \notin present
  /\ present' = present \cup {m}
  /\ UNCHANGED <<webAudio, deviceVars, queue, phase, muted, sessionVars, calls, wanted, spoiled>>

Next ==
  \/ TaskStep
  \/ \E device \in Mics \cup Transforms \cup {Silence} : startAudioInput(device)
  \/ stopAudioInput \/ SetMute
  \/ MeetingStart \/ AttachMediaInput \/ FinishStart \/ CleanRestartedSession \/ MeetingStop
  \/ \E m \in Mics : Unplug(m) \/ Plug(m)

Spec == Init /\ [][Next]_vars

-----------------------------------------------------------------------------
Quiet == queue = <<>>

(* Every variable has its type; a task waits only at the head of the queue. *)
TypeOK ==
  /\ webAudio \in BOOLEAN /\ muted \in BOOLEAN /\ spoiled \in BOOLEAN
  /\ missed \in BOOLEAN /\ observing \in BOOLEAN
  /\ streams \in [Streams -> [device : Mics \cup {Silence, None}, live : BOOLEAN,
                              enabled : BOOLEAN, minimal : BOOLEAN]]
  /\ active \in Streams \cup {None} /\ source \in Streams \cup {None}
  /\ transform \in Transforms \cup {None} /\ dest \in Destinations \cup {None}
  /\ phase \in {"none", "nodes", "getting", "fallback"} /\ (Quiet => phase = "none")
  /\ meeting \in {"out", "acquiring", "joining", "in"}
  /\ {input, sent} \subseteq Streams \cup Destinations \cup {None}
  /\ present \subseteq Mics
  /\ wanted \in Mics \cup Transforms \cup {Silence, None}
  /\ \A i \in DOMAIN queue : queue[i].op \in {"start", "stop"}

(* A stream of a microphone that is open is the one in use: whatever order  *)
(* choices, failures and ends of devices come in, none stays open unheld.   *)
NoMicrophoneLeaks ==
  \A i \in Streams : streams[i].live => i = active

(* Once nothing waits, the device in use is the last one the application    *)
(* chose, and a stopped one stays stopped; unless the choice failed, the    *)
(* device went away, or a choice of no device was put behind the            *)
(* application's (DefaultDeviceController.ts:881,                            *)
(* DefaultAudioVideoController.ts:1493).                                    *)
LastChoiceWins ==
  Quiet /\ ~spoiled =>
    /\ wanted = Silence => active = None \/ streams[active].device \in {Silence, None}
    /\ wanted \in Mics => active # None /\ streams[active].device = wanted
    /\ wanted \in Transforms =>
         active # None /\ streams[active].device = Inner[wanted] /\ transform = wanted

(* Once nothing waits, a session in a meeting sends the stream in use, under *)
(* Web Audio that of the destination node; unless it missed a change: one    *)
(* made before it was registered, or while it had no peer connection.        *)
SendsTheOutput ==
  Quiet /\ meeting = "in" /\ ~missed => sent # None /\ sent = Output(Now)

(* The destination node is fed by the microphone in use.                     *)
FedByTheInput ==
  Quiet /\ webAudio /\ active # None /\ streams[active].device \in Mics => source = active

(* What reaches the meeting is the input in use, however choices, ends of     *)
(* devices, reconnections and stops interleave (audioInputDidChange,         *)
(* startAudioInputTask).                                                    *)
SendsTheInput == SendsTheOutput /\ FedByTheInput

(* A device that ended while in use is replaced: until it is, the choice of *)
(* no device waits, or runs.                                                *)
EndedIsReplaced ==
  active # None /\ ~streams[active].live =>
    \E i \in DOMAIN queue : queue[i] = Task("start", Silence, "ended")

(* The device in use is the one the application wants, and is no dead one.  *)
ChoiceIsKept == LastChoiceWins /\ EndedIsReplaced

(* RealtimeController.ts:26: "a mute button must accurately represent the   *)
(* mute state as otherwise a user may think they are muted when they are    *)
(* not".  No stream of a microphone is enabled while muted.                 *)
MutedIsSilent ==
  muted => \A i \in Streams : streams[i].live /\ streams[i].enabled => streams[i].device = Silence
=============================================================================
