-------------------------- MODULE AudioInputProofs --------------------------
(***************************************************************************)
(* Of the microphone of a meeting, for any devices, streams and bounds: no  *)
(* stream stays open unheld, the application's last choice is kept, and the *)
(* session sends the input in use.  The operators of AudioInput take a      *)
(* state of the device controller and the session to the next; a lemma says *)
(* of each which fields it changes, and to what, and the invariant is       *)
(* proved of the states a step goes through from these lemmas alone.  It is *)
(* a conjunction of parts: the queue holds no request for a device but the  *)
(* application's (QueueInv), a task waits for the browser with nothing in   *)
(* use (PhaseInv), a transform device has a microphone (TransformInv), the  *)
(* last choice is at the end of the queue or was carried out (WantInv), an  *)
(* ended device has a task that replaces it (EndedInv), the destination     *)
(* node is fed by the microphone in use (FedInv), and the session has the   *)
(* output, or missed a change, or a task that tells it is to run (SendInv). *)
(***************************************************************************)
EXTENDS AudioInput, SequenceTheorems, TLAPS

(* The fields of Now. *)
Fields == {"streams", "active", "transform", "source", "dest", "queue", "phase", "meeting",
           "input", "sent", "missed", "wanted", "spoiled"}
IsState(s) == DOMAIN s = Fields /\ s = [f \in Fields |-> s[f]]

(* t differs from s in the fields of F only. *)
Differs(s, t, F) == IsState(t) /\ \A f \in Fields \ F : t[f] = s[f]

(* Types of the fields. *)
Devices == Mics \cup Transforms \cup {Silence}
StreamTypes ==
  [device : Mics \cup {Silence, None}, live : BOOLEAN, enabled : BOOLEAN, minimal : BOOLEAN]
Tasks == [op : {"start", "stop"}, device : Devices, by : {"app", "change", "join", "ended"}]
Outputs == Streams \cup Destinations \cup {None}

DeviceTyped(s) ==
  /\ s.streams \in [Streams -> StreamTypes]
  /\ s.active \in Streams \cup {None} /\ s.source \in Streams \cup {None}
  /\ s.transform \in Transforms \cup {None} /\ s.dest \in Destinations \cup {None}
QueueTyped(s) ==
  s.queue \in Seq(Tasks) /\ s.phase \in {"none", "nodes", "getting", "fallback"}
SessionTyped(s) ==
  /\ s.meeting \in {"out", "acquiring", "joining", "in"}
  /\ s.input \in Outputs /\ s.sent \in Outputs /\ s.missed \in BOOLEAN
WantTyped(s) == s.wanted \in Devices \cup {None} /\ s.spoiled \in BOOLEAN
Typed(s) == IsState(s) /\ DeviceTyped(s) /\ QueueTyped(s) /\ SessionTyped(s) /\ WantTyped(s)

(* A stream that is open is the one in use. *)
OneInUse(s) == \A i \in Streams : s.streams[i].live => i = s.active

-----------------------------------------------------------------------------

(* A stream number is free when nothing is in use. *)
LEMMA FreeStream ==
  ASSUME NEW s, DeviceTyped(s), s.active = None, \A i \in Streams : ~s.streams[i].live
  PROVE  UnusedStream(s) \in Streams
<1> DEFINE S == {i \in Streams : ~s.streams[i].live /\ i \notin Referenced(s)}
<1>1. S \subseteq Nat /\ {1, 2, 3, 4} \subseteq Streams  BY StreamsAssumption DEF Streams
<1>2. S = Streams \ {s.source, s.input, s.sent, s.dest}
  <2>1. None \notin Streams  BY StreamsAssumption
  <2> QED  BY <2>1 DEF Referenced
<1>3. s.dest \notin Streams
  BY StreamsAssumption DEF DeviceTyped, Streams, Destinations
<1>4. 1 \in S \/ 2 \in S \/ 3 \in S \/ 4 \in S  BY <1>1, <1>2, <1>3
<1>5. \A i \in S : i >= 1  BY <1>2 DEF Streams
<1> HIDE DEF S
<1>6. \E i \in S : \A j \in S : i <= j
  <2>1. CASE 1 \in S  BY <1>1, <1>5, <2>1
  <2>2. CASE 1 \notin S /\ 2 \in S  BY <1>1, <1>5, <2>2
  <2>3. CASE 1 \notin S /\ 2 \notin S /\ 3 \in S  BY <1>1, <1>5, <2>3
  <2>4. CASE 1 \notin S /\ 2 \notin S /\ 3 \notin S /\ 4 \in S  BY <1>1, <1>5, <2>4
  <2> QED  BY <1>4, <2>1, <2>2, <2>3, <2>4
<1>7. Least(S) \in S  BY <1>6 DEF Least
<1>8. UnusedStream(s) = Least(S)  BY DEF UnusedStream, S
<1> QED  BY <1>2, <1>7, <1>8

(* A number is free for a destination node when there is none: at most two   *)
(* are held by the session and the peer connection.                          *)
LEMMA FreeDestination ==
  ASSUME NEW s, DeviceTyped(s), s.dest = None
  PROVE  UnusedDestination(s) \in Destinations
<1> DEFINE S == Destinations \ Referenced(s)
<1>1. /\ S \subseteq Nat /\ MaxStreams \in Nat
      /\ {MaxStreams + 1, MaxStreams + 2, MaxStreams + 3} = Destinations
  BY StreamsAssumption DEF Destinations
<1>2. S = Destinations \ {s.input, s.sent}
  <2>1. None \notin Destinations /\ Streams \cap Destinations = {}
    BY StreamsAssumption DEF Streams, Destinations
  <2> QED  BY <2>1 DEF Referenced, DeviceTyped
<1>3. MaxStreams + 1 \in S \/ MaxStreams + 2 \in S \/ MaxStreams + 3 \in S  BY <1>1, <1>2
<1>4. \A i \in S : i >= MaxStreams + 1  BY <1>1, <1>2
<1>5. \A i \in S : i = MaxStreams + 1 \/ i = MaxStreams + 2 \/ i = MaxStreams + 3  BY <1>1, <1>2
<1> HIDE DEF S
<1>6. \E i \in S : \A j \in S : i <= j  BY <1>1, <1>3, <1>4, <1>5
<1>7. Least(S) \in S  BY <1>6 DEF Least
<1>8. UnusedDestination(s) = Least(S)  BY DEF UnusedDestination, S
<1> QED  BY <1>2, <1>7, <1>8

(* stopTracksAndRemoveCallbacks leaves no stream open. *)
LEMMA StopOf ==
  ASSUME NEW s, OneInUse(s), Typed(s), NEW t, t = stopTracksAndRemoveCallbacks(s)
  PROVE  /\ Differs(s, t, {"streams", "active"}) /\ Typed(t)
         /\ t.active = None /\ \A i \in Streams : ~t.streams[i].live
<1>1. CASE s.active = None
  <2>1. t = s  BY <1>1 DEF stopTracksAndRemoveCallbacks
  <2>2. None \notin Streams  BY StreamsAssumption
  <2> QED  BY <1>1, <2>1, <2>2 DEF Differs, OneInUse, Typed, Fields
<1>2. CASE s.active # None
  <2> DEFINE f == [s.streams EXCEPT ![s.active] = Blank]
  <2>1. t = [s EXCEPT !.streams = f, !.active = None]
    BY <1>2, Zenon DEF stopTracksAndRemoveCallbacks
  <2>2. Blank \in StreamTypes /\ ~Blank.live  BY DEF Blank, StreamTypes
  <2>3. s.streams \in [Streams -> StreamTypes] /\ s.active \in Streams
    BY <1>2 DEF Typed, DeviceTyped
  <2>4. /\ f \in [Streams -> StreamTypes]
        /\ \A i \in Streams : f[i] = IF i = s.active THEN Blank ELSE s.streams[i]
    BY <2>2, <2>3
  <2> HIDE DEF f
  <2>5. Differs(s, t, {"streams", "active"}) /\ t.active = None /\ t.streams = f
    BY <2>1 DEF Differs, Typed, IsState, Fields
  <2>6. \A i \in Streams : ~t.streams[i].live  BY <2>2, <2>4, <2>5 DEF OneInUse
  <2>7. Typed(t)
    BY <2>4, <2>5 DEF Typed, Differs, Fields, DeviceTyped, QueueTyped, SessionTyped, WantTyped
  <2> QED  BY <2>5, <2>6, <2>7
<1> QED  BY <1>1, <1>2

(* handleNewInputDevice opens one stream, and it is the one in use. *)
LEMMA OpenOf ==
  ASSUME NEW s, Typed(s), s.active = None, \A i \in Streams : ~s.streams[i].live,
         NEW device \in Mics \cup {Silence}, NEW minimal \in BOOLEAN,
         NEW t, t = handleNewInputDevice(s, device, minimal)
  PROVE  /\ Differs(s, t, {"streams", "active"}) /\ Typed(t)
         /\ t.active \in Streams
         /\ t.streams[t.active] = [device |-> device, live |-> TRUE, enabled |-> TRUE,
                                    minimal |-> minimal]
         /\ \A i \in Streams : t.streams[i].live => i = t.active
<1> DEFINE j == UnusedStream(s)
           x == [device |-> device, live |-> TRUE, enabled |-> TRUE, minimal |-> minimal]
           f == [s.streams EXCEPT ![j] = x]
<1>1. j \in Streams  BY FreeStream DEF Typed
<1>2. t = [s EXCEPT !.streams = f, !.active = j]
  <2> HIDE DEF j
  <2>1. [s EXCEPT !.streams[j] = x, !.active = j] = [s EXCEPT !.streams = f, !.active = j]  BY Zenon
  <2> QED  BY <2>1 DEF handleNewInputDevice, j
<1>3. x \in StreamTypes  BY DEF StreamTypes
<1> HIDE DEF x, j
<1>4. s.streams \in [Streams -> StreamTypes]  BY DEF Typed, DeviceTyped
<1>5. f \in [Streams -> StreamTypes] /\ \A i \in Streams : f[i] = IF i = j THEN x ELSE s.streams[i]
  BY <1>1, <1>3, <1>4
<1> HIDE DEF f
<1>6. Differs(s, t, {"streams", "active"}) /\ t.active = j /\ t.streams = f
  BY <1>2 DEF Differs, Typed, IsState, Fields
<1>7. Typed(t)
  BY <1>1, <1>5, <1>6 DEF Typed, Differs, Fields, DeviceTyped, QueueTyped, SessionTyped, WantTyped
<1> QED  BY <1>1, <1>5, <1>6, <1>7 DEF x

(* getMediaStreamDestinationNode makes a node when there is none. *)
LEMMA DestinationOf ==
  ASSUME NEW s, Typed(s), NEW t, t = getMediaStreamDestinationNode(s)
  PROVE  /\ Differs(s, t, {"dest"}) /\ Typed(t) /\ t.dest \in Destinations
         /\ s.dest # None => t.dest = s.dest
<1>1. CASE s.dest = None
  <2> DEFINE d == UnusedDestination(s)
  <2>1. d \in Destinations  BY <1>1, FreeDestination DEF Typed
  <2>2. t = [s EXCEPT !.dest = d]  BY <1>1, Zenon DEF getMediaStreamDestinationNode
  <2> HIDE DEF d
  <2>3. Differs(s, t, {"dest"}) /\ t.dest = d  BY <2>2 DEF Differs, Typed, IsState, Fields
  <2> QED
    BY <1>1, <2>1, <2>3 DEF Typed, Differs, Fields, DeviceTyped, QueueTyped, SessionTyped, WantTyped
<1>2. CASE s.dest # None
  <2>1. t = s  BY <1>2 DEF getMediaStreamDestinationNode
  <2> QED  BY <1>2, <2>1 DEF Typed, Differs, DeviceTyped
<1> QED  BY <1>1, <1>2

(* The session's input and what is sent agree with the output. *)
Agrees(s) == s.input # None /\ s.input = Output(s)
Heard(s) ==
  /\ s.meeting = "in" => s.input = s.sent
  /\ s.meeting \in {"joining", "in"} /\ ~s.missed => Agrees(s)

(* replaceLocalAudio sends a stream, and the session knows of it. *)
LEMMA ReplaceOf ==
  ASSUME NEW s, Typed(s), NEW stream \in Outputs, NEW t, t = replaceLocalAudio(s, stream)
  PROVE  /\ Differs(s, t, {"input", "sent", "missed"}) /\ Typed(t)
         /\ t.input = stream /\ t.sent = stream /\ t.missed = FALSE
<1>1. /\ Differs(s, t, {"input", "sent", "missed"})
      /\ t.input = stream /\ t.sent = stream /\ t.missed = FALSE
  BY DEF replaceLocalAudio, Differs, Typed, IsState, Fields
<1> QED  BY <1>1 DEF Typed, Differs, Fields, DeviceTyped, QueueTyped, SessionTyped, WantTyped

(* A change of which the session is not told. *)
LEMMA MissedOf ==
  ASSUME NEW s, Typed(s), NEW t, t = [s EXCEPT !.missed = TRUE]
  PROVE  Differs(s, t, {"missed"}) /\ Typed(t) /\ t.missed = TRUE
<1>1. Differs(s, t, {"missed"}) /\ t.missed = TRUE  BY DEF Differs, Typed, IsState, Fields
<1> QED  BY <1>1 DEF Typed, Differs, Fields, DeviceTyped, QueueTyped, SessionTyped, WantTyped

(* Without Web Audio a stream in use is sent at once, or the change has been  *)
(* missed.                                                                   *)
LEMMA DidOf ==
  ASSUME NEW s, Typed(s), s.active \in Streams, ~webAudio,
         s.meeting = "in" => s.input = s.sent,
         NEW t, t = audioInputDidChange(s, s.active)
  PROVE  Differs(s, t, {"input", "sent", "missed"}) /\ Typed(t) /\ Heard(t)
<1>1. s.active # None /\ s.active \in Outputs  BY StreamsAssumption DEF Outputs
<1>2. CASE s.meeting = "in" /\ observing
  <2> DEFINE o == s.active
  <2>1. t = replaceLocalAudio(s, o) /\ o \in Outputs  BY <1>1, <1>2 DEF audioInputDidChange
  <2> HIDE DEF o
  <2>2. /\ Differs(s, t, {"input", "sent", "missed"}) /\ Typed(t)
        /\ t.input = o /\ t.sent = o /\ t.missed = FALSE
    <3>1. Typed(s)  OBVIOUS
    <3> QED  BY ONLY <2>1, <3>1, ReplaceOf
  <2> USE DEF o
  <2>3. t.active = s.active  BY <2>2 DEF Differs, Fields
  <2> QED  BY <1>1, <2>2, <2>3 DEF Heard, Agrees, Output
<1>3. CASE s.meeting = "joining" \/ (s.meeting = "in" /\ ~observing)
  <2>1. t = [s EXCEPT !.missed = TRUE]  BY <1>3 DEF audioInputDidChange
  <2>2. Differs(s, t, {"missed"}) /\ Typed(t) /\ t.missed = TRUE  BY <2>1, MissedOf
  <2>3. t.meeting = s.meeting /\ t.input = s.input /\ t.sent = s.sent
    BY <2>2 DEF Differs, Fields
  <2> QED  BY <2>2, <2>3 DEF Heard, Differs
<1>4. CASE s.meeting \notin {"in", "joining"}
  <2>1. t = s  BY <1>4 DEF audioInputDidChange
  <2> QED  BY <1>4, <2>1 DEF Heard, Differs, Typed
<1> QED  BY <1>2, <1>3, <1>4

(* The end of an acquisition has an output: the stream in use or the         *)
(* destination node.                                                         *)
LEMMA OutputOf ==
  ASSUME NEW s, Typed(s), s.active \in Streams,
         NEW t, t = IF webAudio THEN getMediaStreamDestinationNode(s) ELSE s
  PROVE  /\ Differs(s, t, {"dest"}) /\ Typed(t)
         /\ Output(t) \in Outputs /\ Output(t) # None
         /\ s.dest # None => t.dest = s.dest
<1>1. CASE webAudio
  <2>1. /\ Differs(s, t, {"dest"}) /\ Typed(t) /\ t.dest \in Destinations
        /\ s.dest # None => t.dest = s.dest
    BY <1>1, DestinationOf
  <2> QED  BY <1>1, <2>1, StreamsAssumption DEF Output, Outputs
<1>2. CASE ~webAudio
  <2>1. t = s  BY <1>2
  <2>2. Output(t) = s.active  BY <1>2, <2>1 DEF Output
  <2> QED  BY <2>1, <2>2, StreamsAssumption DEF Outputs, Differs, Typed
<1> QED  BY <1>1, <1>2

(* The session's fields of t are those of s. *)
SameSession(s, t) ==
  t.meeting = s.meeting /\ t.input = s.input /\ t.sent = s.sent /\ t.missed = s.missed

(* An acquisition tells the session of the output, or touches nothing of it. *)
LEMMA AcquiredOf ==
  ASSUME NEW s, Typed(s), s.active \in Streams, NEW by, NEW t, t = Acquired(s, by)
  PROVE  /\ Differs(s, t, {"dest", "input", "sent", "missed", "meeting"}) /\ Typed(t)
         /\ s.dest # None => t.dest = s.dest
         /\ by = "change" => Heard(t)
         /\ Heard(t) \/ SameSession(s, t)
         /\ by = "join" /\ s.meeting = "acquiring" => Heard(t)
<1> DEFINE u == IF webAudio THEN getMediaStreamDestinationNode(s) ELSE s
<1>1. /\ Differs(s, u, {"dest"}) /\ Typed(u) /\ Output(u) \in Outputs /\ Output(u) # None
      /\ s.dest # None => u.dest = s.dest
  BY OutputOf
<1>2. t = CASE by = "change" /\ u.meeting = "in" -> replaceLocalAudio(u, Output(u))
       [] by = "join" /\ u.meeting = "acquiring" ->
            [u EXCEPT !.input = Output(u), !.meeting = "joining", !.missed = FALSE]
       [] by = "change" /\ u.meeting = "joining" -> [u EXCEPT !.missed = TRUE]
       [] OTHER -> u
  BY DEF Acquired
<1> HIDE DEF u
<1>3. CASE by = "change" /\ u.meeting = "in"
  <2> DEFINE o == Output(u)
  <2>1. t = replaceLocalAudio(u, o) /\ o \in Outputs /\ Typed(u)  BY <1>1, <1>2, <1>3
  <2> HIDE DEF o
  <2>2. /\ Differs(u, t, {"input", "sent", "missed"}) /\ Typed(t)
        /\ t.input = o /\ t.sent = o /\ t.missed = FALSE
    BY <2>1, ReplaceOf
  <2> USE DEF o
  <2>3. Output(t) = Output(u)  BY <2>2 DEF Output, Differs, Fields
  <2>4. Heard(t)  BY <1>1, <2>2, <2>3 DEF Heard, Agrees
  <2> QED  BY <1>1, <1>3, <2>2, <2>4 DEF Differs, Fields
<1>4. CASE by = "join" /\ u.meeting = "acquiring"
  <2> DEFINE o == Output(u)
  <2>1. t = [u EXCEPT !.input = o, !.meeting = "joining", !.missed = FALSE]
    BY <1>2, <1>4
  <2>2. o \in Outputs /\ o # None  BY <1>1
  <2> HIDE DEF o
  <2>3. /\ Differs(u, t, {"input", "meeting", "missed"})
        /\ t.input = o /\ t.meeting = "joining" /\ t.missed = FALSE
    BY <1>1, <2>1 DEF Differs, Typed, IsState, Fields
  <2>4. Typed(t)
    BY <1>1, <2>2, <2>3
    DEF Typed, Differs, Fields, DeviceTyped, QueueTyped, SessionTyped, WantTyped
  <2>5. Output(t) = o  BY <2>3 DEF Output, Differs, Fields, o
  <2>6. Heard(t)  BY <2>2, <2>3, <2>5 DEF Heard, Agrees
  <2> QED  BY <1>1, <1>4, <2>3, <2>4, <2>6 DEF Differs, Fields
<1>5. CASE by = "change" /\ u.meeting = "joining"
  <2>1. t = [u EXCEPT !.missed = TRUE]  BY <1>2, <1>5
  <2>2. Differs(u, t, {"missed"}) /\ Typed(t) /\ t.missed = TRUE  BY <1>1, <2>1, MissedOf
  <2>3. Heard(t)  BY <1>5, <2>2 DEF Heard, Differs, Fields
  <2> QED  BY <1>1, <1>5, <2>2, <2>3 DEF Differs, Fields
<1>6. CASE /\ ~(by = "change" /\ u.meeting \in {"in", "joining"})
           /\ ~(by = "join" /\ u.meeting = "acquiring")
  <2>1. t = u  BY <1>2, <1>6
  <2>2. SameSession(s, t)  BY <1>1, <2>1 DEF SameSession, Differs, Fields
  <2>3. by = "change" => Heard(t)  BY <1>6, <2>1 DEF Heard
  <2>4. s.meeting = u.meeting  BY <1>1 DEF Differs, Fields
  <2> QED  BY <1>1, <1>6, <2>1, <2>2, <2>3, <2>4 DEF Differs, Fields
<1> QED  BY <1>3, <1>4, <1>5, <1>6

-----------------------------------------------------------------------------
(* The choice of no device that the session or the browser asks for. *)
EndedTask == Task("start", Silence, "ended")
Changing(q) == \E i \in DOMAIN q : q[i].by = "change"
ForEnded(q) == \E i \in DOMAIN q : q[i] = EndedTask

(* Only the application asks for a device; a stop is the choice of none. *)
TaskRight(x) ==
  /\ x.by # "app" => x.op = "start" /\ x.device = Silence
  /\ x.op = "stop" => x.device = Silence
QueueInv(q) == \A i \in DOMAIN q : TaskRight(q[i])

(* The application's tasks are the last. *)
Ordered(q) == \A i, j \in DOMAIN q : i < j /\ q[i].by = "app" => q[j].by = "app"
Last(q) == q[Len(q)]

(* The queue without its head, task by task. *)
LEMMA TailSeq ==
  ASSUME NEW q \in Seq(Tasks), q # <<>>
  PROVE  /\ Head(q) \in Tasks /\ Head(q) = q[1] /\ 1 \in DOMAIN q
         /\ Tail(q) \in Seq(Tasks) /\ Len(Tail(q)) = Len(q) - 1
         /\ \A i \in DOMAIN Tail(q) : i + 1 \in DOMAIN q /\ Tail(q)[i] = q[i + 1]
         /\ \A i \in DOMAIN q : i = 1 \/ (i - 1 \in DOMAIN Tail(q) /\ q[i] = Tail(q)[i - 1])
OBVIOUS

(* The queue with a task behind it, task by task. *)
LEMMA AppendSeq ==
  ASSUME NEW q \in Seq(Tasks), NEW x \in Tasks
  PROVE  /\ Append(q, x) \in Seq(Tasks) /\ Append(q, x) # <<>>
         /\ Len(Append(q, x)) = Len(q) + 1 /\ Append(q, x)[Len(q) + 1] = x
         /\ DOMAIN Append(q, x) = DOMAIN q \cup {Len(q) + 1}
         /\ \A i \in DOMAIN q : Append(q, x)[i] = q[i]
         /\ q # <<>> => Head(Append(q, x)) = Head(q) /\ Tail(Append(q, x)) = Append(Tail(q), x)
         /\ q = <<>> => Head(Append(q, x)) = x /\ Tail(Append(q, x)) = <<>>
<1>1. DOMAIN q = 1..Len(q) /\ Len(q) \in Nat  OBVIOUS
<1>2. q # <<>> => Tail(Append(q, x)) = Append(Tail(q), x)  BY HeadTailAppend
<1> QED  BY <1>1, <1>2

(* What is known of a queue is known of what is left when its head ends. *)
LEMMA TailQueue ==
  ASSUME NEW q \in Seq(Tasks), q # <<>>, QueueInv(q)
  PROVE  /\ QueueInv(Tail(q)) /\ TaskRight(Head(q))
         /\ Changing(q) => Head(q).by = "change" \/ Changing(Tail(q))
         /\ ForEnded(q) => Head(q) = EndedTask \/ ForEnded(Tail(q))
         /\ FromApp(q) <=> Head(q).by = "app" \/ FromApp(Tail(q))
<1>1. QueueInv(Tail(q)) /\ TaskRight(Head(q))  BY TailSeq DEF QueueInv
<1>2. Changing(q) => Head(q).by = "change" \/ Changing(Tail(q))  BY TailSeq DEF Changing
<1>3. ForEnded(q) => Head(q) = EndedTask \/ ForEnded(Tail(q))
  <2> HAVE ForEnded(q)
  <2>1. PICK i \in DOMAIN q : q[i] = EndedTask  BY DEF ForEnded
  <2>2. i = 1 \/ (i - 1 \in DOMAIN Tail(q) /\ q[i] = Tail(q)[i - 1])  BY TailSeq
  <2> QED  BY <2>1, <2>2, TailSeq DEF ForEnded
<1>4. FromApp(q) <=> Head(q).by = "app" \/ FromApp(Tail(q))  BY TailSeq DEF FromApp
<1> QED  BY <1>1, <1>2, <1>3, <1>4

(* The application's tasks stay the last, and its last stays its last. *)
LEMMA TailOrdered ==
  ASSUME NEW q \in Seq(Tasks), q # <<>>, Ordered(q)
  PROVE  /\ Ordered(Tail(q))
         /\ Tail(q) # <<>> => Last(Tail(q)) = Last(q)
         /\ Head(q).by = "app" /\ ~FromApp(Tail(q)) => Tail(q) = <<>>
<1>1. Ordered(Tail(q))
  <2> SUFFICES ASSUME NEW i \in DOMAIN Tail(q), NEW j \in DOMAIN Tail(q), i < j,
                      Tail(q)[i].by = "app"
               PROVE  Tail(q)[j].by = "app"
    BY DEF Ordered
  <2>1. i + 1 \in DOMAIN q /\ j + 1 \in DOMAIN q /\ Tail(q)[i] = q[i + 1] /\ Tail(q)[j] = q[j + 1]
    BY TailSeq
  <2>2. i + 1 < j + 1  OBVIOUS
  <2> QED  BY <2>1, <2>2 DEF Ordered
<1>2. Tail(q) # <<>> => Last(Tail(q)) = Last(q)  BY DEF Last
<1>3. ASSUME Head(q).by = "app", Tail(q) # <<>>  PROVE FromApp(Tail(q))
  <2>1. 1 \in DOMAIN Tail(q) /\ 2 \in DOMAIN q /\ Tail(q)[1] = q[2]  BY <1>3
  <2>2. q[2].by = "app"  BY <1>3, <2>1, TailSeq DEF Ordered
  <2> QED  BY <2>1, <2>2 DEF FromApp
<1> QED  BY <1>1, <1>2, <1>3

(* A task that is put behind a queue. *)
LEMMA AppendQueue ==
  ASSUME NEW q \in Seq(Tasks), QueueInv(q), NEW x \in Tasks, TaskRight(x)
  PROVE  /\ QueueInv(Append(q, x)) /\ Last(Append(q, x)) = x
         /\ Changing(q) => Changing(Append(q, x))
         /\ x.by = "change" => Changing(Append(q, x))
         /\ ForEnded(q) => ForEnded(Append(q, x))
         /\ x = EndedTask => ForEnded(Append(q, x))
         /\ FromApp(Append(q, x)) <=> FromApp(q) \/ x.by = "app"
<1> DEFINE a == Append(q, x)
<1>1. /\ DOMAIN a = DOMAIN q \cup {Len(q) + 1} /\ a[Len(q) + 1] = x
      /\ (\A i \in DOMAIN q : a[i] = q[i]) /\ Len(a) = Len(q) + 1
  BY AppendSeq
<1> HIDE DEF a
<1>2. QueueInv(a)  BY <1>1 DEF QueueInv
<1>3. Last(a) = x  BY <1>1 DEF Last
<1>4. (Changing(q) => Changing(a)) /\ (x.by = "change" => Changing(a))  BY <1>1 DEF Changing
<1>5. (ForEnded(q) => ForEnded(a)) /\ (x = EndedTask => ForEnded(a))  BY <1>1 DEF ForEnded
<1>6. FromApp(a) <=> FromApp(q) \/ x.by = "app"  BY <1>1 DEF FromApp
<1> QED  BY <1>2, <1>3, <1>4, <1>5, <1>6 DEF a

(* The application's task may go behind any of its own, and any task behind  *)
(* a queue without one of the application's.                                 *)
LEMMA AppendOrdered ==
  ASSUME NEW q \in Seq(Tasks), NEW x \in Tasks,
         \/ Ordered(q) /\ x.by = "app"
         \/ ~FromApp(q)
  PROVE  Ordered(Append(q, x))
<1> DEFINE a == Append(q, x)
<1>1. /\ DOMAIN a = DOMAIN q \cup {Len(q) + 1} /\ a[Len(q) + 1] = x
      /\ \A i \in DOMAIN q : a[i] = q[i]
  BY AppendSeq
<1>2. \A i \in DOMAIN q : i \in Nat /\ i <= Len(q)  OBVIOUS
<1>3. Len(q) \in Nat  OBVIOUS
<1> HIDE DEF a
<1>4. CASE Ordered(q) /\ x.by = "app"  BY <1>1, <1>2, <1>3, <1>4 DEF Ordered
<1>5. CASE ~FromApp(q)  BY <1>1, <1>2, <1>3, <1>5 DEF Ordered, FromApp
<1> QED  BY <1>4, <1>5 DEF a

-----------------------------------------------------------------------------
(* A microphone is being asked for. *)
Asking(s) == s.phase \in {"getting", "fallback"}

(* The session has the output as its input, unless it missed a change, a      *)
(* task that tells it is still to run, or a microphone is being asked for.    *)
SendInv(s) ==
  /\ s.meeting = "in" => s.input = s.sent
  /\ /\ s.meeting \in {"joining", "in"} /\ ~s.missed
     /\ ~Changing(s.queue) /\ (webAudio \/ ~Asking(s))
     => Agrees(s)

(* A session that was told of the output has it. *)
LEMMA HeardSends == ASSUME NEW s, Heard(s)  PROVE SendInv(s)
BY DEF Heard, SendInv

(* Finish, field by field. *)
LEMMA FinishOf ==
  ASSUME NEW s, Typed(s), s.queue # <<>>, NEW t, t = Finish(s)
  PROVE  /\ Differs(s, t, {"queue", "phase"}) /\ Typed(t)
         /\ t.queue = Tail(s.queue) /\ t.phase = "none"
<1> DEFINE q == Tail(s.queue)
<1>1. q \in Seq(Tasks)  BY TailSeq DEF Typed, QueueTyped
<1>2. t = [s EXCEPT !.queue = q, !.phase = "none"]  BY DEF Finish
<1> HIDE DEF q
<1>3. Differs(s, t, {"queue", "phase"}) /\ t.queue = q /\ t.phase = "none"
  BY <1>2 DEF Differs, Typed, IsState, Fields
<1>4. Typed(t)
  BY <1>1, <1>3 DEF Typed, Differs, Fields, DeviceTyped, QueueTyped, SessionTyped, WantTyped
<1> QED  BY <1>3, <1>4 DEF q

(* Without Web Audio the session is told of the stream in use; with it, only  *)
(* of a destination node it has not yet.                                     *)
LEMMA ToldOf ==
  ASSUME NEW s, Typed(s), s.active \in Streams, webAudio => SendInv(s),
         s.meeting = "in" => s.input = s.sent,
         NEW t, t = IF webAudio THEN [getMediaStreamDestinationNode(s) EXCEPT !.source = s.active]
                    ELSE audioInputDidChange(s, s.active)
  PROVE  /\ Differs(s, t, {"dest", "source", "input", "sent", "missed"}) /\ Typed(t)
         /\ s.dest # None => t.dest = s.dest
         /\ webAudio => SameSession(s, t) /\ t.source = s.active
         /\ ~webAudio => Heard(t)
<1>1. CASE webAudio
  <2> DEFINE d == getMediaStreamDestinationNode(s)
  <2>1. Differs(s, d, {"dest"}) /\ Typed(d) /\ (s.dest # None => d.dest = s.dest)
    BY DestinationOf
  <2>2. t = [d EXCEPT !.source = s.active]  BY <1>1
  <2> HIDE DEF d
  <2>3. Differs(d, t, {"source"}) /\ t.source = s.active
    BY <2>1, <2>2 DEF Differs, Typed, IsState, Fields
  <2>4. Typed(t)
    BY <2>1, <2>3 DEF Typed, Differs, Fields, DeviceTyped, QueueTyped, SessionTyped, WantTyped
  <2>5. SameSession(s, t)  BY <2>1, <2>3 DEF SameSession, Differs, Fields
  <2>6. s.dest # None => t.dest = s.dest  BY <2>1, <2>3 DEF Differs, Fields
  <2>7. Differs(s, t, {"dest", "source", "input", "sent", "missed"})
    BY <2>1, <2>3 DEF Differs, Fields
  <2> QED  BY <1>1, <2>3, <2>4, <2>5, <2>6, <2>7
<1>2. CASE ~webAudio
  <2>1. t = audioInputDidChange(s, s.active)  BY <1>2
  <2>2. Differs(s, t, {"input", "sent", "missed"}) /\ Typed(t) /\ Heard(t)
    BY <1>2, <2>1, DidOf
  <2> QED  BY <1>2, <2>2 DEF Differs, Fields
<1> QED  BY <1>1, <1>2

SessionFields == {"dest", "source", "input", "sent", "missed", "meeting"}

(* A task that succeeds touches no stream, and the session has the output    *)
(* afterwards, or will hear of it.                                           *)
LEMMA SucceedOf ==
  ASSUME NEW s, Typed(s), s.active \in Streams, s.queue # <<>>, webAudio => SendInv(s),
         s.meeting = "in" => s.input = s.sent,
         NEW t, t = Succeed(s)
  PROVE  /\ Differs(s, t, SessionFields \cup {"queue", "phase"}) /\ Typed(t)
         /\ t.queue = Tail(s.queue) /\ t.phase = "none"
         /\ SendInv(t) /\ (webAudio => t.source = s.active)
<1> DEFINE u == IF webAudio THEN [getMediaStreamDestinationNode(s) EXCEPT !.source = s.active]
                ELSE audioInputDidChange(s, s.active)
           f == Finish(u)
           by == Head(s.queue).by
<1>1. t = IF by \in {"change", "join"} THEN Acquired(f, by) ELSE f
  BY DEF Succeed
<1>2. /\ Differs(s, u, {"dest", "source", "input", "sent", "missed"}) /\ Typed(u)
      /\ s.dest # None => u.dest = s.dest
      /\ webAudio => SameSession(s, u) /\ u.source = s.active
      /\ ~webAudio => Heard(u)
  BY ToldOf
<1>3. u.queue = s.queue /\ u.active = s.active /\ u.phase = s.phase
  BY <1>2 DEF Differs, Fields
<1> HIDE DEF u, by
<1>4. /\ Differs(u, f, {"queue", "phase"}) /\ Typed(f)
      /\ f.queue = Tail(s.queue) /\ f.phase = "none"
  BY <1>2, <1>3, FinishOf
<1> HIDE DEF f
<1>5. f.active = s.active /\ f.dest = u.dest /\ f.source = u.source /\ SameSession(u, f)
  BY <1>3, <1>4 DEF Differs, Fields, SameSession
<1>6. ~webAudio => Heard(f)
  BY <1>2, <1>3, <1>5 DEF Heard, SameSession, Agrees, Output
<1>7. webAudio => SameSession(s, f)  BY <1>2, <1>5 DEF SameSession
<1>8. s.dest # None => f.dest = s.dest  BY <1>2, <1>5
<1>9. /\ Differs(f, t, {"dest", "input", "sent", "missed", "meeting"}) /\ Typed(t)
      /\ f.dest # None => t.dest = f.dest
      /\ by = "change" => Heard(t)
      /\ Heard(t) \/ SameSession(f, t)
  <2>1. CASE by \in {"change", "join"}
    <3>1. t = Acquired(f, by) /\ f.active \in Streams  BY <1>1, <1>5, <2>1
    <3> QED  BY <1>4, <3>1, AcquiredOf
  <2>2. CASE by \notin {"change", "join"}
    <3>1. t = f  BY <1>1, <2>2
    <3> QED  BY <1>4, <2>2, <3>1 DEF Differs, Typed, SameSession
  <2> QED  BY <2>1, <2>2
<1>10. t.queue = Tail(s.queue) /\ t.phase = "none" /\ t.active = s.active
  BY <1>4, <1>5, <1>9 DEF Differs, Fields
<1>11. SendInv(t)
  <2>1. CASE Heard(t)  BY <2>1, HeardSends
  <2>2. CASE ~Heard(t) /\ ~webAudio
    <3>1. SameSession(f, t)  BY <1>9, <2>2
    <3> QED  BY <1>5, <1>6, <1>10, <2>2, <3>1 DEF Heard, SameSession, Agrees, Output
  <2>3. CASE ~Heard(t) /\ webAudio
    <3>1. SameSession(s, t)  BY <1>7, <1>9, <2>3 DEF SameSession
    <3>2. Changing(s.queue) => Changing(t.queue)
      <4>1. Changing(s.queue) => by = "change" \/ Changing(Tail(s.queue))
        BY TailSeq DEF Changing, by, Typed, QueueTyped
      <4> QED  BY <1>9, <1>10, <2>3, <4>1
    <3>3. SendInv(s)  BY <2>3
    <3>4. Agrees(s) => Agrees(t)
      <4> HAVE Agrees(s)
      <4>1. s.input # None /\ s.input = s.dest  BY <2>3 DEF Agrees, Output
      <4>2. t.dest = s.dest  BY <1>8, <1>9, <4>1
      <4> QED  BY <2>3, <3>1, <4>1, <4>2 DEF Agrees, Output, SameSession
    <3> QED  BY <2>3, <3>1, <3>2, <3>3, <3>4 DEF SendInv, SameSession
  <2> QED  BY <2>1, <2>2, <2>3
<1>12. Differs(s, t, SessionFields \cup {"queue", "phase"})
  BY <1>2, <1>4, <1>9 DEF Differs, Fields, SessionFields
<1>13. webAudio => t.source = s.active  BY <1>2, <1>5, <1>9 DEF Differs, Fields
<1> QED  BY <1>9, <1>10, <1>11, <1>12, <1>13

(* Throw, field by field: the application is told, and nothing is promised. *)
LEMMA ThrowOf ==
  ASSUME NEW s, Typed(s), s.queue # <<>>, NEW t, t = Throw(s)
  PROVE  /\ Differs(s, t, {"queue", "phase", "wanted"}) /\ Typed(t)
         /\ t.queue = Tail(s.queue) /\ t.phase = "none"
         /\ t.wanted = IF Head(s.queue).by = "app" THEN None ELSE s.wanted
<1> DEFINE f == Finish(s)
           w == IF Head(s.queue).by = "app" THEN None ELSE f.wanted
<1>1. /\ Differs(s, f, {"queue", "phase"}) /\ Typed(f)
      /\ f.queue = Tail(s.queue) /\ f.phase = "none"
  BY FinishOf
<1>2. t = [f EXCEPT !.wanted = w]
  <2>1. [f EXCEPT !.wanted = IF Head(s.queue).by = "app" THEN None ELSE @]
          = [f EXCEPT !.wanted = w]
    <3> HIDE DEF f
    <3> QED  BY Zenon
  <2> QED  BY <2>1, Zenon DEF Throw
<1>3. w = (IF Head(s.queue).by = "app" THEN None ELSE s.wanted)
  BY <1>1 DEF Differs, Fields
<1> HIDE DEF f
<1>4. w \in Devices \cup {None}  BY <1>1 DEF Typed, WantTyped
<1> HIDE DEF w
<1>5. Differs(f, t, {"wanted"}) /\ t.wanted = w
  BY <1>1, <1>2 DEF Differs, Typed, IsState, Fields
<1>6. Typed(t)
  BY <1>1, <1>4, <1>5
  DEF Typed, Differs, Fields, DeviceTyped, QueueTyped, SessionTyped, WantTyped
<1>7. /\ Differs(s, t, {"queue", "phase", "wanted"})
      /\ t.queue = Tail(s.queue) /\ t.phase = "none"
  BY <1>1, <1>5 DEF Differs, Fields
<1> QED  BY <1>3, <1>5, <1>6, <1>7

-----------------------------------------------------------------------------
(* A task that waits for the browser is one of the application's, and while   *)
(* it waits for a microphone neither a stream nor another task's transform    *)
(* is in use.                                                                *)
PhaseInv(s) ==
  s.phase # "none" =>
    /\ s.queue # <<>> /\ Head(s.queue).by = "app" /\ Head(s.queue).op = "start"
    /\ Head(s.queue).device # Silence
    /\ Head(s.queue).device \in Transforms => webAudio
    /\ s.phase = "nodes" => Head(s.queue).device \in Transforms
    /\ Asking(s) => /\ s.active = None
                    /\ Head(s.queue).device \notin Transforms => s.transform = None

(* A transform device has a microphone, or one is being asked for. *)
TransformInv(s) == s.transform # None => webAudio /\ (Asking(s) \/ s.active # None)

(* The device in use is d; or nothing is heard, if d is no device. *)
Has(s, d) ==
  /\ d = Silence => s.active = None \/ s.streams[s.active].device \in {Silence, None}
  /\ d \in Mics => s.active # None /\ s.streams[s.active].device = d
  /\ d \in Transforms =>
       s.active # None /\ s.streams[s.active].device = Inner[d] /\ s.transform = d

(* The application's tasks are the last, and its last is its choice; when     *)
(* none is left the choice was carried out, and only that of no device has    *)
(* tasks behind it.                                                          *)
Kept(s) == s.wanted # None => Has(s, s.wanted) /\ (s.wanted # Silence => s.queue = <<>>)
WantInv(s) ==
  ~s.spoiled =>
    /\ Ordered(s.queue)
    /\ FromApp(s.queue) => s.wanted \in {None, Last(s.queue).device}
    /\ ~FromApp(s.queue) => Kept(s)

(* A device that ended while in use has its task in the queue. *)
EndedInv(s) == s.active # None /\ ~s.streams[s.active].live => ForEnded(s.queue)

(* Under Web Audio a microphone in use feeds the destination node. *)
FedInv(s) ==
  webAudio /\ s.active # None /\ s.streams[s.active].device \in Mics => s.source = s.active

Good(s) ==
  /\ Typed(s) /\ OneInUse(s) /\ QueueInv(s.queue) /\ PhaseInv(s) /\ TransformInv(s)
  /\ WantInv(s) /\ EndedInv(s) /\ FedInv(s) /\ SendInv(s)

(* The application's last choice is kept when the head of the queue ends,    *)
(* if that did what it was put for.                                          *)
LEMMA TailWants ==
  ASSUME NEW s, Typed(s), s.queue # <<>>, QueueInv(s.queue), WantInv(s),
         NEW t, t.queue = Tail(s.queue), ~t.spoiled => ~s.spoiled,
         \/ t.wanted = s.wanted
         \/ t.wanted = None,
         /\ ~t.spoiled /\ Head(s.queue).by = "app"
         /\ t.wanted # None /\ t.wanted = Head(s.queue).device
         => Has(t, t.wanted),
         Head(s.queue).by # "app" => Has(t, Silence)
  PROVE  WantInv(t)
<1> DEFINE q == s.queue
<1>1. q \in Seq(Tasks) /\ q # <<>>  BY DEF Typed, QueueTyped
<1> SUFFICES ASSUME ~t.spoiled
             PROVE  /\ Ordered(t.queue)
                    /\ FromApp(t.queue) => t.wanted \in {None, Last(t.queue).device}
                    /\ ~FromApp(t.queue) => Kept(t)
  BY DEF WantInv
<1>2. /\ Ordered(q)
      /\ FromApp(q) => s.wanted \in {None, Last(q).device}
      /\ ~FromApp(q) => Kept(s)
  BY DEF WantInv
<1>3. FromApp(q) <=> Head(q).by = "app" \/ FromApp(Tail(q))  BY <1>1, TailQueue
<1>4. /\ Ordered(Tail(q))
      /\ Tail(q) # <<>> => Last(Tail(q)) = Last(q)
      /\ Head(q).by = "app" /\ ~FromApp(Tail(q)) => Tail(q) = <<>>
  BY <1>1, <1>2, TailOrdered
<1>5. FromApp(Tail(q)) => Tail(q) # <<>>  BY DEF FromApp
<1>6. FromApp(t.queue) => t.wanted \in {None, Last(t.queue).device}
  BY <1>2, <1>3, <1>4, <1>5
<1>7. ASSUME ~FromApp(t.queue), t.wanted # None
      PROVE  Has(t, t.wanted) /\ (t.wanted # Silence => t.queue = <<>>)
  <2>1. t.wanted = s.wanted  BY <1>7
  <2>2. CASE Head(q).by = "app"
    <3>1. Tail(q) = <<>>  BY <1>4, <1>7, <2>2
    <3>2. Last(q) = Head(q)
      <4> HIDE DEF q
      <4>1. Len(q) \in Nat  BY <1>1
      <4>4. Len(Tail(q)) = 0
        <5>1. Len(Tail(q)) = Len(<<>>)  BY <3>1, Zenon
        <5> QED  BY <5>1
      <4>2. Len(Tail(q)) = Len(q) - 1 /\ Head(q) = q[1]  BY <1>1, TailSeq
      <4>3. Len(q) = 1  BY <4>1, <4>2, <4>4
      <4> QED  BY <4>2, <4>3 DEF Last
    <3>3. t.wanted = Head(q).device  BY <1>2, <1>3, <1>7, <2>1, <2>2, <3>2
    <3> QED  BY <1>7, <2>2, <3>1, <3>3
  <2>3. CASE Head(q).by # "app"
    <3>1. ~FromApp(q)  BY <1>3, <1>7, <2>3
    <3>2. s.wanted = Silence  BY <1>1, <1>2, <1>7, <2>1, <3>1 DEF Kept
    <3> QED  BY <2>1, <2>3, <3>2
  <2> QED  BY <2>2, <2>3
<1>8. ~FromApp(t.queue) => Kept(t)  BY <1>7 DEF Kept
<1> QED  BY <1>4, <1>6, <1>8

(* A task that ends leaves a good state, if it did what it was put for. *)
LEMMA EndGood ==
  ASSUME NEW s, Typed(s), s.queue # <<>>, QueueInv(s.queue), WantInv(s), EndedInv(s),
         NEW t, Typed(t), OneInUse(t), t.queue = Tail(s.queue), t.phase = "none",
         t.spoiled = s.spoiled, t.wanted = s.wanted \/ t.wanted = None,
         /\ ~t.spoiled /\ Head(s.queue).by = "app"
         /\ t.wanted # None /\ t.wanted = Head(s.queue).device
         => Has(t, t.wanted),
         Head(s.queue).by # "app" => Has(t, Silence),
         TransformInv(t), FedInv(t), SendInv(t),
         t.active # None /\ ~t.streams[t.active].live =>
           s.active # None /\ ~s.streams[s.active].live /\ Head(s.queue) # EndedTask
  PROVE  Good(t)
<1>1. s.queue \in Seq(Tasks)  BY DEF Typed, QueueTyped
<1>2. QueueInv(t.queue) /\ (ForEnded(s.queue) => Head(s.queue) = EndedTask \/ ForEnded(t.queue))
  BY <1>1, TailQueue
<1>3. WantInv(t)  BY TailWants
<1>4. EndedInv(t)  BY <1>2 DEF EndedInv
<1>5. PhaseInv(t)  BY DEF PhaseInv
<1> QED  BY <1>2, <1>3, <1>4, <1>5 DEF Good

(* Chosen, field by field. *)
LEMMA ChosenOf ==
  ASSUME NEW s, Typed(s), s.active \in Streams, s.queue # <<>>, webAudio => SendInv(s),
         s.meeting = "in" => s.input = s.sent,
         NEW t, t = Chosen(s)
  PROVE  /\ Differs(s, t, SessionFields \cup {"queue", "phase", "transform"}) /\ Typed(t)
         /\ t.queue = Tail(s.queue) /\ t.phase = "none"
         /\ t.transform = IF Head(s.queue).device \in Transforms THEN Head(s.queue).device
                          ELSE s.transform
         /\ SendInv(t) /\ (webAudio => t.source = s.active)
<1> DEFINE device == Head(s.queue).device
           d == getMediaStreamDestinationNode(s)
           u == [d EXCEPT !.transform = device]
<1>1. CASE device \in Transforms
  <2>1. Differs(s, d, {"dest"}) /\ Typed(d) /\ (s.dest # None => d.dest = s.dest)
    BY DestinationOf
  <2>2. t = Succeed(u)  BY <1>1 DEF Chosen
  <2> HIDE DEF d, device
  <2>3. Differs(d, u, {"transform"}) /\ u.transform = device
    BY <2>1 DEF Differs, Typed, IsState, Fields
  <2> HIDE DEF u
  <2>4. Typed(u)
    BY <1>1, <2>1, <2>3
    DEF Typed, Differs, Fields, DeviceTyped, QueueTyped, SessionTyped, WantTyped
  <2>5. /\ u.active = s.active /\ u.queue = s.queue /\ u.phase = s.phase
        /\ SameSession(s, u) /\ (s.dest # None => u.dest = s.dest)
    BY <2>1, <2>3 DEF Differs, Fields, SameSession
  <2>6. ASSUME webAudio  PROVE SendInv(u)
    <3>1. Agrees(s) => Agrees(u)  BY <2>5, <2>6 DEF Agrees, Output, SameSession
    <3> QED  BY <2>5, <2>6, <3>1 DEF SendInv, SameSession
  <2>7. /\ Differs(u, t, SessionFields \cup {"queue", "phase"}) /\ Typed(t)
        /\ t.queue = Tail(s.queue) /\ t.phase = "none" /\ SendInv(t)
        /\ webAudio => t.source = s.active
    <3>1. u.meeting = "in" => u.input = u.sent  BY <2>5 DEF SameSession
    <3> QED  BY <2>2, <2>4, <2>5, <2>6, <3>1, SucceedOf
  <2>8. t.transform = device
    BY <2>3, <2>7 DEF Differs, Fields, SessionFields
  <2>9. Differs(s, t, SessionFields \cup {"queue", "phase", "transform"})
    BY <2>1, <2>3, <2>7 DEF Differs, Fields, SessionFields
  <2> QED  BY <1>1, <2>7, <2>8, <2>9 DEF device
<1>2. CASE device \notin Transforms
  <2>1. t = Succeed(s)  BY <1>2 DEF Chosen
  <2>2. /\ Differs(s, t, SessionFields \cup {"queue", "phase"}) /\ Typed(t)
        /\ t.queue = Tail(s.queue) /\ t.phase = "none" /\ SendInv(t)
        /\ webAudio => t.source = s.active
    BY <2>1, SucceedOf
  <2> QED  BY <1>2, <2>2 DEF Differs, Fields, SessionFields
<1> QED  BY <1>1, <1>2

(* A choice that is carried out leaves a good state: what is in use is what   *)
(* the task at the head asks for.                                            *)
LEMMA ChosenGood ==
  ASSUME NEW r, Good(r), r.queue # <<>>,
         NEW s, Typed(s), OneInUse(s), s.active \in Streams, s.streams[s.active].live,
         Differs(r, s, {"streams", "active", "transform", "phase"}),
         LET d == Head(r.queue).device
         IN /\ s.streams[s.active].device = IF d \in Transforms THEN Inner[d] ELSE d
            /\ d \in Transforms => webAudio
            /\ d \notin Transforms => s.transform = None
  PROVE  Good(Chosen(s))
<1> DEFINE t == Chosen(s)
           d == Head(r.queue).device
<1>1. /\ s.queue = r.queue /\ s.spoiled = r.spoiled /\ s.wanted = r.wanted
      /\ SameSession(r, s) /\ s.dest = r.dest
  BY DEF Differs, Fields, SameSession
<1>2. ASSUME webAudio  PROVE SendInv(s)
  <2>1. Agrees(r) => Agrees(s)  BY <1>1, <1>2 DEF Agrees, Output, SameSession
  <2> QED  BY <1>1, <1>2, <2>1 DEF SendInv, SameSession, Good
<1>3. /\ Differs(s, t, SessionFields \cup {"queue", "phase", "transform"}) /\ Typed(t)
      /\ t.queue = Tail(r.queue) /\ t.phase = "none"
      /\ t.transform = IF d \in Transforms THEN d ELSE s.transform
      /\ SendInv(t) /\ (webAudio => t.source = s.active)
  <2>1. s.queue # <<>> /\ (s.meeting = "in" => s.input = s.sent)
    BY <1>1 DEF Good, SendInv, SameSession
  <2>2. t = Chosen(s)  OBVIOUS
  <2> HIDE DEF t
  <2>3. /\ Differs(s, t, SessionFields \cup {"queue", "phase", "transform"}) /\ Typed(t)
        /\ t.queue = Tail(s.queue) /\ t.phase = "none"
        /\ t.transform = IF Head(s.queue).device \in Transforms THEN Head(s.queue).device
                         ELSE s.transform
        /\ SendInv(t) /\ (webAudio => t.source = s.active)
    BY <1>2, <2>1, <2>2, ChosenOf
  <2> QED  BY <1>1, <2>3
<1> HIDE DEF t
<1>4. /\ t.streams = s.streams /\ t.active = s.active
      /\ t.wanted = r.wanted /\ t.spoiled = r.spoiled
  BY <1>1, <1>3 DEF Differs, Fields, SessionFields
<1>5. OneInUse(t)  BY <1>4 DEF OneInUse
<1>6. t.active # None  BY <1>4, StreamsAssumption
<1>7. r.queue \in Seq(Tasks) /\ d \in Devices
  <2>1. r.queue \in Seq(Tasks)  BY DEF Good, Typed, QueueTyped
  <2> QED  BY <2>1, TailSeq DEF Tasks
<1>8. Has(t, d)
  BY <1>3, <1>4, <1>6, <1>7, NamesAssumption DEF Has, Devices
<1>9. Head(r.queue).by # "app" => d = Silence
  <2>1. TaskRight(Head(r.queue))  BY <1>7, TailQueue DEF Good
  <2> QED  BY <2>1 DEF TaskRight
<1>10. TransformInv(t) /\ FedInv(t)
  BY <1>3, <1>4, <1>6 DEF TransformInv, FedInv
<1>11. Typed(r) /\ QueueInv(r.queue) /\ WantInv(r) /\ EndedInv(r)  BY DEF Good
<1> QED  BY <1>3, <1>4, <1>5, <1>8, <1>9, <1>10, <1>11, EndGood DEF t

-----------------------------------------------------------------------------
(* device.intrinsicDevice() is a microphone. *)
LEMMA InnerIs == \A d \in Transforms : Inner[d] \in Mics
<1> DEFINE P(f) == \A t, u \in Transforms : f[t] = f[u] => t = u
<1>1. \E f \in [Transforms -> Mics] : P(f)  BY TransformsAssumption
<1>2. Inner = CHOOSE f \in [Transforms -> Mics] : P(f)  BY DEF Inner
<1> HIDE DEF P
<1>3. Inner \in [Transforms -> Mics]  BY <1>1, <1>2
<1> QED  BY <1>3

(* The record of the variables is a state, field by field. *)
LEMMA NowIs ==
  /\ IsState(Now)
  /\ Now.streams = streams /\ Now.active = active /\ Now.transform = transform
  /\ Now.source = source /\ Now.dest = dest /\ Now.queue = queue /\ Now.phase = phase
  /\ Now.meeting = meeting /\ Now.input = input /\ Now.sent = sent /\ Now.missed = missed
  /\ Now.wanted = wanted /\ Now.spoiled = spoiled
BY DEF Now, IsState, Fields

(* What holds of the state the variables take holds of the next record. *)
LEMMA Renewed ==
  ASSUME NEW t, Good(t), Now' = t, webAudio' = webAudio
  PROVE  Good(Now)'
<1>1. Typed(Now)'
  BY DEF Good, Typed, DeviceTyped, QueueTyped, SessionTyped, WantTyped, IsState
<1>2. OneInUse(Now)'  BY DEF Good, OneInUse
<1>3. QueueInv(Now.queue)'  BY DEF Good, QueueInv, TaskRight
<1>4. PhaseInv(Now)'  BY DEF Good, PhaseInv, Asking
<1>5. TransformInv(Now)'  BY DEF Good, TransformInv, Asking
<1>6. WantInv(Now)'  BY DEF Good, WantInv, Ordered, FromApp, Last, Kept, Has
<1>7. EndedInv(Now)'  BY DEF Good, EndedInv, ForEnded, EndedTask, Task
<1>8. SendInv(Now)'  BY DEF Good, SendInv, Changing, Asking, Agrees, Output
<1>9. FedInv(Now)'  BY DEF Good, FedInv
<1> QED  BY <1>1, <1>2, <1>3, <1>4, <1>5, <1>6, <1>7, <1>8, <1>9 DEF Good

(* A step of a task takes the variables to a state. *)
LEMMA BecomesGood ==
  ASSUME NEW t, Good(t), Becomes(t), webAudio' = webAudio
  PROVE  Good(Now)'
<1>1. IsState(t)  BY DEF Good, Typed
<1>2. Now' = t  BY <1>1 DEF Becomes, Now, IsState, Fields
<1> QED  BY <1>2, Renewed

(* A task that throws before it asks for a microphone. *)
LEMMA ThrowGood ==
  ASSUME NEW r, Good(r), r.queue # <<>>, Head(r.queue).by = "app", ~Asking(r)
  PROVE  Good(Throw(r))
<1> DEFINE t == Throw(r)
<1>1. /\ Differs(r, t, {"queue", "phase", "wanted"}) /\ Typed(t)
      /\ t.queue = Tail(r.queue) /\ t.phase = "none" /\ t.wanted = None
  BY ThrowOf DEF Good
<1> HIDE DEF t
<1>2. /\ t.streams = r.streams /\ t.active = r.active /\ t.transform = r.transform
      /\ t.source = r.source /\ t.dest = r.dest /\ t.spoiled = r.spoiled /\ SameSession(r, t)
  BY <1>1 DEF Differs, Fields, SameSession
<1>3. OneInUse(t)  BY <1>2 DEF Good, OneInUse
<1>4. TransformInv(t) /\ FedInv(t)  BY <1>2 DEF Good, TransformInv, FedInv
<1>5. r.queue \in Seq(Tasks)  BY DEF Good, Typed, QueueTyped
<1>6. SendInv(t)
  <2>1. Changing(r.queue) => Changing(t.queue)  BY <1>1, <1>5, TailQueue DEF Good
  <2>2. Agrees(r) => Agrees(t)  BY <1>2 DEF Agrees, Output, SameSession
  <2> QED  BY <1>2, <2>1, <2>2 DEF Good, SendInv, SameSession
<1>7. Head(r.queue) # EndedTask  BY DEF EndedTask, Task
<1>8. Typed(r) /\ QueueInv(r.queue) /\ WantInv(r) /\ EndedInv(r)  BY DEF Good
<1> QED  BY <1>1, <1>2, <1>3, <1>4, <1>6, <1>7, <1>8, EndGood DEF t

(* getUserMedia is refused, and no device takes the place of the one chosen. *)
LEMMA SilenceGood ==
  ASSUME Good(Now), Asking(Now)
  PROVE  Good(ThrowAfterSilence(Now))
<1> DEFINE r == Now
           h == handleNewInputDevice(r, Silence, FALSE)
           f == Throw(h)
           m == f.missed \/ (~webAudio /\ meeting \in {"joining", "in"})
           t == [f EXCEPT !.missed = m]
<1>1. ThrowAfterSilence(r) = t
  <2>1. [f EXCEPT !.missed = @ \/ (~webAudio /\ meeting \in {"joining", "in"})] = t
    <3> HIDE DEF f
    <3> QED  BY Zenon
  <2> QED  BY <2>1 DEF ThrowAfterSilence
<1>2. Good(r) /\ Asking(r) /\ r.meeting = meeting  BY NowIs
<1> HIDE DEF r
<1>3. r.active = None /\ r.queue # <<>> /\ Head(r.queue).by = "app" /\ Typed(r)
  BY <1>2 DEF Good, PhaseInv, Asking
<1>4. \A i \in Streams : ~r.streams[i].live
  BY <1>2, <1>3, StreamsAssumption DEF Good, OneInUse
<1>5. /\ Differs(r, h, {"streams", "active"}) /\ Typed(h) /\ h.active \in Streams
      /\ h.streams[h.active] = [device |-> Silence, live |-> TRUE, enabled |-> TRUE,
                                minimal |-> FALSE]
      /\ \A i \in Streams : h.streams[i].live => i = h.active
  BY <1>3, <1>4, OpenOf
<1> HIDE DEF h
<1>6. h.queue = r.queue  BY <1>5 DEF Differs, Fields
<1>7. /\ Differs(h, f, {"queue", "phase", "wanted"}) /\ Typed(f)
      /\ f.queue = Tail(r.queue) /\ f.phase = "none" /\ f.wanted = None
  BY <1>3, <1>5, <1>6, ThrowOf
<1> HIDE DEF f
<1>8. f.missed = r.missed /\ m \in BOOLEAN /\ (~m => ~r.missed)
  <2>1. f.missed = r.missed  BY <1>5, <1>7 DEF Differs, Fields
  <2>2. r.missed \in BOOLEAN  BY <1>3 DEF Typed, SessionTyped
  <2> QED  BY <2>1, <2>2
<1>9. ~m /\ ~webAudio => r.meeting \notin {"joining", "in"}  BY <1>2
<1> HIDE DEF m
<1>10. Differs(f, t, {"missed"}) /\ t.missed = m
  BY <1>7 DEF Differs, Typed, IsState, Fields
<1> HIDE DEF t
<1>11. Typed(t)
  BY <1>7, <1>8, <1>10
  DEF Typed, Differs, Fields, DeviceTyped, QueueTyped, SessionTyped, WantTyped
<1>12. /\ t.streams = h.streams /\ t.active = h.active /\ t.transform = r.transform
       /\ t.dest = r.dest /\ t.spoiled = r.spoiled /\ t.wanted = None
       /\ t.meeting = r.meeting /\ t.input = r.input /\ t.sent = r.sent
       /\ t.queue = Tail(r.queue) /\ t.phase = "none"
  BY <1>5, <1>7, <1>10 DEF Differs, Fields
<1>13. OneInUse(t)  BY <1>5, <1>12 DEF OneInUse
<1>14. t.active # None /\ t.streams[t.active].live  BY <1>5, <1>12, StreamsAssumption
<1>15. TransformInv(t) /\ FedInv(t)
  BY <1>2, <1>5, <1>12, <1>14, NamesAssumption DEF Good, TransformInv, FedInv
<1>16. r.queue \in Seq(Tasks)  BY <1>3 DEF Typed, QueueTyped
<1>17. SendInv(t)
  <2>1. Changing(r.queue) => Changing(t.queue)
    BY <1>2, <1>3, <1>12, <1>16, TailQueue DEF Good
  <2>2. CASE webAudio
    <3>1. Agrees(r) => Agrees(t)  BY <1>12, <2>2 DEF Agrees, Output
    <3>2. ~t.missed => ~r.missed  BY <1>8, <1>10
    <3> QED  BY <1>2, <1>12, <2>1, <2>2, <3>1, <3>2 DEF Good, SendInv
  <2>3. CASE ~webAudio
    <3>1. ~t.missed => t.meeting \notin {"joining", "in"}  BY <1>9, <1>10, <1>12, <2>3
    <3>2. t.meeting = "in" => t.input = t.sent  BY <1>2, <1>12 DEF Good, SendInv
    <3> QED  BY <3>1, <3>2 DEF SendInv
  <2> QED  BY <2>2, <2>3
<1>18. QueueInv(r.queue) /\ WantInv(r) /\ EndedInv(r)  BY <1>2 DEF Good
<1>19. Good(t)
  BY <1>3, <1>11, <1>12, <1>13, <1>14, <1>15, <1>17, <1>18, EndGood
<1> QED  BY <1>1, <1>19 DEF r

(* chooseInputIntrinsicDevice, for the device or the transform's microphone:  *)
(* the stream in use will do, or the silent one is opened, or what is in use  *)
(* is stopped and the microphone asked for.                                  *)
LEMMA ChooseGood ==
  ASSUME NEW r, Good(r), r.queue # <<>>, Head(r.queue).op = "start",
         NEW s, Typed(s), Differs(r, s, {"transform"}),
         Head(r.queue).device \in Transforms => webAudio /\ s.transform = r.transform,
         Head(r.queue).device \notin Transforms => s.transform = None,
         NEW x, x = IF Head(r.queue).device \in Transforms THEN Inner[Head(r.queue).device]
                    ELSE Head(r.queue).device
  PROVE  Good(chooseInputIntrinsicDevice(s, x))
<1> DEFINE d == Head(r.queue).device
           t == stopTracksAndRemoveCallbacks(s)
           h == handleNewInputDevice(t, Silence, FALSE)
           g == [t EXCEPT !.phase = "getting"]
           m == matchesDeviceSelection(s, x)
<1>1. r.queue \in Seq(Tasks) /\ Typed(r)  BY DEF Good, Typed, QueueTyped
<1>2. d \in Devices /\ TaskRight(Head(r.queue))  BY <1>1, TailSeq, TailQueue DEF Good, Tasks
<1>3. /\ s.streams = r.streams /\ s.active = r.active /\ s.queue = r.queue
      /\ s.phase = r.phase /\ s.wanted = r.wanted /\ s.spoiled = r.spoiled
      /\ s.dest = r.dest /\ SameSession(r, s)
  BY DEF Differs, Fields, SameSession
<1>4. OneInUse(s)  BY <1>3 DEF Good, OneInUse
<1>5. x \in Mics \cup {Silence} /\ (x = Silence => d = Silence)
  BY <1>2, InnerIs, NamesAssumption DEF Devices
<1>6. ASSUME m  PROVE Good(Chosen(s))
  <2>1. s.active # None /\ s.streams[s.active].live /\ s.streams[s.active].device = x
    BY <1>6 DEF matchesDeviceSelection
  <2>2. s.active \in Streams  BY <2>1 DEF Typed, DeviceTyped
  <2>3. Differs(r, s, {"streams", "active", "transform", "phase"})  BY DEF Differs, Fields
  <2> QED  BY <1>4, <2>1, <2>2, <2>3, ChosenGood
<1>7. /\ Differs(s, t, {"streams", "active"}) /\ Typed(t)
      /\ t.active = None /\ \A i \in Streams : ~t.streams[i].live
  BY <1>4, StopOf
<1>8. chooseInputIntrinsicDevice(s, x) =
        CASE m -> Chosen(s) [] ~m /\ x = Silence -> Chosen(h) [] OTHER -> g
  BY DEF chooseInputIntrinsicDevice
<1> HIDE DEF t, m
<1>9. ASSUME x = Silence  PROVE Good(Chosen(h))
  <2>1. /\ Differs(t, h, {"streams", "active"}) /\ Typed(h) /\ h.active \in Streams
        /\ h.streams[h.active] = [device |-> Silence, live |-> TRUE, enabled |-> TRUE,
                                  minimal |-> FALSE]
        /\ \A i \in Streams : h.streams[i].live => i = h.active
    <3>1. Silence \in Mics \cup {Silence} /\ FALSE \in BOOLEAN  OBVIOUS
    <3>2. Typed(t) /\ t.active = None /\ \A i \in Streams : ~t.streams[i].live  BY <1>7
    <3> QED  BY ONLY <3>1, <3>2, OpenOf
  <2> HIDE DEF h
  <2>2. OneInUse(h) /\ h.streams[h.active].live /\ h.streams[h.active].device = Silence
    BY <2>1 DEF OneInUse
  <2>3. Differs(r, h, {"streams", "active", "transform", "phase"})
    BY <1>7, <2>1 DEF Differs, Fields
  <2>4. h.transform = s.transform  BY <1>7, <2>1 DEF Differs, Fields
  <2>5. d = Silence /\ d \notin Transforms  BY <1>5, <1>9, NamesAssumption
  <2> QED  BY <2>1, <2>2, <2>3, <2>4, <2>5, ChosenGood
<1>10. ASSUME x # Silence  PROVE Good(g)
  <2>1. Differs(t, g, {"phase"}) /\ g.phase = "getting"
    BY <1>7 DEF Differs, Typed, IsState, Fields
  <2> HIDE DEF g
  <2>2. Typed(g)
    BY <1>7, <2>1 DEF Typed, Differs, Fields, DeviceTyped, QueueTyped, SessionTyped, WantTyped
  <2>3. /\ g.streams = t.streams /\ g.active = None /\ g.transform = s.transform
        /\ g.queue = r.queue /\ g.wanted = r.wanted /\ g.spoiled = r.spoiled
        /\ g.dest = r.dest /\ SameSession(r, g)
    BY <1>3, <1>7, <2>1 DEF Differs, Fields, SameSession
  <2>4. OneInUse(g)  BY <1>7, <2>3 DEF OneInUse
  <2>5. QueueInv(g.queue)  BY <2>3 DEF Good
  <2>6. d # Silence /\ Head(r.queue).by = "app"
    <3>1. d # Silence  BY <1>10, NamesAssumption
    <3> QED  BY <1>2, <3>1 DEF TaskRight
  <2>7. PhaseInv(g)  BY <2>1, <2>3, <2>6 DEF PhaseInv, Asking
  <2>8. TransformInv(g)
    BY <2>1, <2>3 DEF Good, TransformInv, Asking
  <2>9. WantInv(g)
    <3>1. FromApp(r.queue)  BY <1>1, <1>2, <2>6, TailQueue DEF Good
    <3> QED  BY <2>3, <3>1 DEF Good, WantInv
  <2>10. EndedInv(g) /\ FedInv(g)  BY <2>3 DEF EndedInv, FedInv
  <2>11. SendInv(g)
    <3>1. Asking(g)  BY <2>1 DEF Asking
    <3>2. webAudio /\ Agrees(r) => Agrees(g)  BY <2>3 DEF Agrees, Output, SameSession
    <3> QED  BY <2>3, <3>1, <3>2 DEF Good, SendInv, SameSession
  <2> QED  BY <2>2, <2>4, <2>5, <2>7, <2>8, <2>9, <2>10, <2>11 DEF Good
<1> QED  BY <1>6, <1>8, <1>9, <1>10

-----------------------------------------------------------------------------
(* Steps of the running task: a choice of a device that is no transform. *)
LEMMA BeginStartGood ==
  ASSUME Good(Now), BeginStart, webAudio' = webAudio
  PROVE  Good(Now)'
<1> DEFINE r == Now
           s == [r EXCEPT !.transform = None]
           d == Head(queue).device
<1>1. /\ queue # <<>> /\ Head(queue).op = "start" /\ d \notin Transforms
      /\ Becomes(chooseInputIntrinsicDevice(s, d))
  BY DEF BeginStart
<1>2. Good(r) /\ Typed(r) /\ r.queue = queue  BY NowIs DEF Good
<1> HIDE DEF r
<1>3. Differs(r, s, {"transform"}) /\ s.transform = None
  BY <1>2 DEF Differs, Typed, IsState, Fields
<1> HIDE DEF s
<1>4. Typed(s)
  BY <1>2, <1>3 DEF Typed, Differs, Fields, DeviceTyped, QueueTyped, SessionTyped, WantTyped
<1>5. Good(chooseInputIntrinsicDevice(s, d))
  BY <1>1, <1>2, <1>3, <1>4, ChooseGood
<1> QED  BY <1>1, <1>5, BecomesGood

(* A transform device whose audio nodes are created. *)
LEMMA NodesCreatedGood ==
  ASSUME Good(Now), NodesCreated, webAudio' = webAudio
  PROVE  Good(Now)'
<1> DEFINE r == Now
           d == Head(r.queue).device
<1>1. phase = "nodes" /\ Becomes(chooseInputIntrinsicDevice(r, Requested))
  BY DEF NodesCreated
<1>2. Requested = IF d \in Transforms THEN Inner[d] ELSE d  BY NowIs DEF Requested
<1>3. Good(r) /\ Typed(r) /\ r.phase = phase  BY NowIs DEF Good
<1> HIDE DEF r
<1>4. r.queue # <<>> /\ Head(r.queue).op = "start" /\ d \in Transforms /\ webAudio
  BY <1>1, <1>3 DEF Good, PhaseInv
<1>5. Differs(r, r, {"transform"})  BY <1>3 DEF Differs, Typed
<1>6. Good(chooseInputIntrinsicDevice(r, Requested))
  BY <1>2, <1>3, <1>4, <1>5, ChooseGood
<1> QED  BY <1>1, <1>6, BecomesGood

(* A transform device whose audio nodes cannot be created. *)
LEMMA NodesFailGood ==
  ASSUME Good(Now), NodesFail, webAudio' = webAudio
  PROVE  Good(Now)'
<1> DEFINE r == Now
<1>1. phase = "nodes" /\ Becomes(Throw(r))  BY DEF NodesFail
<1>2. Good(r) /\ r.phase = phase  BY NowIs
<1> HIDE DEF r
<1>3. r.queue # <<>> /\ Head(r.queue).by = "app" /\ ~Asking(r)
  BY <1>1, <1>2 DEF Good, PhaseInv, Asking
<1> QED  BY <1>1, <1>2, <1>3, ThrowGood, BecomesGood

(* getUserMedia answers with a stream, of the device or with fallback        *)
(* constraints.                                                              *)
LEMMA GrantedGood ==
  ASSUME Good(Now), Granted, webAudio' = webAudio, present \subseteq Mics
  PROVE  Good(Now)'
<1> DEFINE r == Now
           d == Head(r.queue).device
           minimal == phase = "fallback"
           h == handleNewInputDevice(r, Requested, minimal)
<1>1. phase \in {"getting", "fallback"} /\ Requested \in Mics /\ Becomes(Chosen(h))
  BY DEF Granted
<1>2. Requested = IF d \in Transforms THEN Inner[d] ELSE d  BY NowIs DEF Requested
<1>3. Good(r) /\ Typed(r) /\ r.phase = phase  BY NowIs DEF Good
<1> HIDE DEF r
<1>4. /\ r.queue # <<>> /\ r.active = None /\ (d \in Transforms => webAudio)
      /\ d \notin Transforms => r.transform = None
  BY <1>1, <1>3 DEF Good, PhaseInv, Asking
<1>5. \A i \in Streams : ~r.streams[i].live
  BY <1>3, <1>4, StreamsAssumption DEF Good, OneInUse
<1>6. /\ Differs(r, h, {"streams", "active"}) /\ Typed(h) /\ h.active \in Streams
      /\ h.streams[h.active] = [device |-> Requested, live |-> TRUE, enabled |-> TRUE,
                                minimal |-> minimal]
      /\ \A i \in Streams : h.streams[i].live => i = h.active
  <2>1. minimal \in BOOLEAN  OBVIOUS
  <2> HIDE DEF minimal
  <2>2. Requested \in Mics \cup {Silence}  BY <1>1
  <2> QED  BY <1>3, <1>4, <1>5, <2>1, <2>2, OpenOf
<1>10. Becomes(Chosen(h))  BY <1>1
<1> HIDE DEF h, minimal
<1>7. OneInUse(h) /\ h.streams[h.active].live /\ h.streams[h.active].device = Requested
  BY <1>6 DEF OneInUse
<1>8. Differs(r, h, {"streams", "active", "transform", "phase"}) /\ h.transform = r.transform
  BY <1>6 DEF Differs, Fields
<1>9. Good(Chosen(h))
  BY <1>2, <1>3, <1>4, <1>6, <1>7, <1>8, ChosenGood
<1> QED  BY <1>9, <1>10, BecomesGood

(* getUserMedia is asked again with fallback constraints. *)
LEMMA OverConstrainedGood ==
  ASSUME Good(Now), OverConstrained, webAudio' = webAudio
  PROVE  Good(Now)'
<1> DEFINE r == Now
           g == [r EXCEPT !.phase = "fallback"]
<1>1. phase = "getting" /\ Becomes(g)  BY DEF OverConstrained
<1>2. Good(r) /\ Typed(r) /\ r.phase = phase  BY NowIs DEF Good
<1> HIDE DEF r
<1>3. Differs(r, g, {"phase"}) /\ g.phase = "fallback"
  BY <1>2 DEF Differs, Typed, IsState, Fields
<1> HIDE DEF g
<1>4. Typed(g)
  BY <1>2, <1>3 DEF Typed, Differs, Fields, DeviceTyped, QueueTyped, SessionTyped, WantTyped
<1>5. /\ g.streams = r.streams /\ g.active = r.active /\ g.transform = r.transform
      /\ g.queue = r.queue /\ g.wanted = r.wanted /\ g.spoiled = r.spoiled
      /\ g.source = r.source /\ g.dest = r.dest /\ SameSession(r, g)
  BY <1>3 DEF Differs, Fields, SameSession
<1>6. r.phase = "getting"  BY <1>1, <1>2
<1>7. OneInUse(g) /\ QueueInv(g.queue)  BY <1>2, <1>5 DEF Good, OneInUse
<1>8. PhaseInv(g)  BY <1>2, <1>3, <1>5, <1>6 DEF Good, PhaseInv, Asking
<1>9. TransformInv(g)  BY <1>2, <1>3, <1>5, <1>6 DEF Good, TransformInv, Asking
<1>10. WantInv(g)  BY <1>2, <1>5 DEF Good, WantInv, Kept, Has
<1>11. EndedInv(g) /\ FedInv(g)  BY <1>2, <1>5 DEF Good, EndedInv, FedInv
<1>12. SendInv(g)
  <2>1. Agrees(r) => Agrees(g)  BY <1>5 DEF Agrees, Output, SameSession
  <2> QED  BY <1>2, <1>3, <1>5, <1>6, <2>1 DEF Good, SendInv, SameSession, Asking
<1>13. Good(g)  BY <1>4, <1>7, <1>8, <1>9, <1>10, <1>11, <1>12 DEF Good
<1> QED  BY <1>1, <1>13, BecomesGood

(* getUserMedia refuses. *)
LEMMA DeniedGood ==
  ASSUME Good(Now), Denied, webAudio' = webAudio
  PROVE  Good(Now)'
<1>1. phase \in {"getting", "fallback"} /\ Becomes(ThrowAfterSilence(Now))  BY DEF Denied
<1>2. Asking(Now)  BY <1>1, NowIs DEF Asking
<1> QED  BY <1>1, <1>2, SilenceGood, BecomesGood

(* A transform device in place is not chosen again; a new one waits for its   *)
(* audio nodes.                                                              *)
LEMMA BeginTransformGood ==
  ASSUME Good(Now), BeginTransform, webAudio' = webAudio
  PROVE  Good(Now)'
<1> DEFINE r == Now
           d == Head(r.queue).device
           b == streams[active].device # Requested
           u == [r EXCEPT !.spoiled = @ \/ b]
           g == [r EXCEPT !.phase = "nodes"]
<1>1. /\ queue # <<>> /\ phase = "none" /\ Head(queue).op = "start"
      /\ Head(queue).device \in Transforms
      /\ Becomes(CASE ~webAudio -> Throw(r)
                   [] webAudio /\ transform = Head(queue).device -> Succeed(u)
                   [] OTHER -> g)
  BY DEF BeginTransform
<1>2. Good(r) /\ Typed(r) /\ r.phase = phase /\ r.queue = queue /\ r.transform = transform
  BY NowIs DEF Good
<1>3. b = (r.streams[r.active].device # Inner[d])
  BY <1>1, NowIs DEF Requested
<1> HIDE DEF r, b
<1>4. /\ r.queue # <<>> /\ r.phase = "none" /\ d \in Transforms /\ Head(r.queue).op = "start"
      /\ r.queue \in Seq(Tasks)
  BY <1>1, <1>2 DEF Typed, QueueTyped
<1>5. Head(r.queue).by = "app" /\ Head(r.queue) # EndedTask /\ d # None /\ d # Silence
  <2>1. TaskRight(Head(r.queue))  BY <1>2, <1>4, TailQueue DEF Good
  <2>2. d # None /\ d # Silence  BY <1>4, NamesAssumption
  <2> QED  BY <2>1, <2>2 DEF TaskRight, EndedTask, Task
<1>6. ASSUME ~webAudio  PROVE Good(Throw(r))
  <2>1. ~Asking(r)  BY <1>4 DEF Asking
  <2> QED  BY <1>2, <1>4, <1>5, <2>1, ThrowGood
<1>7. ASSUME webAudio, r.transform = d  PROVE Good(Succeed(u))
  <2> DEFINE c == r.spoiled \/ b
             t == Succeed(u)
  <2>1. u = [r EXCEPT !.spoiled = c]  BY Zenon
  <2> HIDE DEF u
  <2>2. c \in BOOLEAN /\ (~c => ~r.spoiled /\ ~b)  BY <1>2 DEF Typed, WantTyped
  <2> HIDE DEF c
  <2>3. Differs(r, u, {"spoiled"}) /\ u.spoiled = c
    BY <1>2, <2>1 DEF Differs, Typed, IsState, Fields
  <2>4. Typed(u)
    BY <1>2, <2>2, <2>3
    DEF Typed, Differs, Fields, DeviceTyped, QueueTyped, SessionTyped, WantTyped
  <2>5. /\ u.streams = r.streams /\ u.active = r.active /\ u.transform = r.transform
        /\ u.queue = r.queue /\ u.wanted = r.wanted /\ u.phase = r.phase
        /\ u.dest = r.dest /\ SameSession(r, u)
    BY <2>3 DEF Differs, Fields, SameSession
  <2>6. r.active # None  BY <1>2, <1>4, <1>5, <1>7 DEF Good, TransformInv, Asking
  <2>7. u.active \in Streams  BY <2>4, <2>5, <2>6 DEF Typed, DeviceTyped
  <2>8. SendInv(u)
    <3>1. Agrees(r) => Agrees(u)  BY <2>5 DEF Agrees, Output, SameSession
    <3> QED  BY <1>2, <2>5, <3>1 DEF Good, SendInv, SameSession, Asking
  <2>9. WantInv(u)  BY <1>2, <2>2, <2>3, <2>5 DEF Good, WantInv, Kept, Has
  <2>10. EndedInv(u)  BY <1>2, <2>5 DEF Good, EndedInv
  <2>11. /\ Differs(u, t, SessionFields \cup {"queue", "phase"}) /\ Typed(t)
         /\ t.queue = Tail(u.queue) /\ t.phase = "none" /\ SendInv(t)
         /\ webAudio => t.source = u.active
    BY <1>4, <2>4, <2>5, <2>7, <2>8, SucceedOf DEF SendInv
  <2> HIDE DEF t
  <2>12. /\ t.streams = r.streams /\ t.active = r.active /\ t.transform = d
         /\ t.wanted = u.wanted /\ t.spoiled = u.spoiled
    BY <1>7, <2>5, <2>11 DEF Differs, Fields, SessionFields
  <2>13. OneInUse(t) /\ TransformInv(t) /\ FedInv(t)
    BY <1>2, <1>7, <2>5, <2>6, <2>11, <2>12 DEF Good, OneInUse, TransformInv, FedInv
  <2>14. ~t.spoiled => Has(t, d)
    <3>1. ~t.spoiled => r.streams[r.active].device = Inner[d]  BY <1>3, <2>2, <2>3, <2>12
    <3>2. d \notin Mics  BY <1>4, NamesAssumption
    <3> QED  BY <1>5, <2>6, <2>12, <3>1, <3>2 DEF Has
  <2>15. QueueInv(u.queue)  BY <1>2, <2>5 DEF Good
  <2> QED
    BY <1>4, <1>5, <2>4, <2>5, <2>9, <2>10, <2>11, <2>12, <2>13, <2>14, <2>15, EndGood DEF t
<1>8. ASSUME webAudio  PROVE Good(g)
  <2>1. Differs(r, g, {"phase"}) /\ g.phase = "nodes"
    BY <1>2 DEF Differs, Typed, IsState, Fields
  <2> HIDE DEF g
  <2>2. Typed(g)
    BY <1>2, <2>1 DEF Typed, Differs, Fields, DeviceTyped, QueueTyped, SessionTyped, WantTyped
  <2>3. /\ g.streams = r.streams /\ g.active = r.active /\ g.transform = r.transform
        /\ g.queue = r.queue /\ g.wanted = r.wanted /\ g.spoiled = r.spoiled
        /\ g.source = r.source /\ g.dest = r.dest /\ SameSession(r, g)
    BY <2>1 DEF Differs, Fields, SameSession
  <2>4. OneInUse(g) /\ QueueInv(g.queue)  BY <1>2, <2>3 DEF Good, OneInUse
  <2>5. PhaseInv(g)  BY <1>4, <1>5, <1>8, <2>1, <2>3 DEF PhaseInv, Asking
  <2>6. TransformInv(g)  BY <1>2, <1>4, <2>1, <2>3 DEF Good, TransformInv, Asking
  <2>7. WantInv(g)  BY <1>2, <2>3 DEF Good, WantInv, Kept, Has
  <2>8. EndedInv(g) /\ FedInv(g)  BY <1>2, <2>3 DEF Good, EndedInv, FedInv
  <2>9. SendInv(g)
    <3>1. Agrees(r) => Agrees(g)  BY <2>3 DEF Agrees, Output, SameSession
    <3> QED  BY <1>2, <1>8, <2>3, <3>1 DEF Good, SendInv, SameSession
  <2> QED  BY <2>2, <2>4, <2>5, <2>6, <2>7, <2>8, <2>9 DEF Good
<1> HIDE DEF u, g
<1>9. CASE ~webAudio  BY <1>1, <1>6, <1>9, BecomesGood
<1>10. CASE webAudio /\ transform = Head(queue).device
  <2>1. Becomes(Succeed(u))  BY <1>1, <1>10
  <2>2. Good(Succeed(u))  BY <1>2, <1>7, <1>10
  <2> QED  BY <2>1, <2>2, BecomesGood
<1>11. CASE webAudio /\ transform # Head(queue).device
  <2>1. Becomes(g)  BY <1>1, <1>11
  <2>2. Good(g)  BY <1>8, <1>11
  <2> QED  BY <2>1, <2>2, BecomesGood
<1> QED  BY <1>9, <1>10, <1>11

(* The choice of no device goes behind what waits. *)
LEMMA ChooseSilenceOf ==
  ASSUME NEW s, Typed(s), NEW by \in {"change", "join", "ended"}, NEW waiting,
         NEW t, t = ChooseSilence(s, by, waiting)
  PROVE  /\ Differs(s, t, {"queue", "spoiled"}) /\ Typed(t)
         /\ t.queue = Append(s.queue, Task("start", Silence, by))
         /\ t.spoiled = (s.spoiled \/ FromApp(waiting))
<1> DEFINE x == Task("start", Silence, by)
           q == Append(s.queue, x)
           c == s.spoiled \/ FromApp(waiting)
<1>1. x \in Tasks  BY DEF Task, Tasks, Devices
<1>2. q \in Seq(Tasks)
  <2> HIDE DEF x
  <2> QED  BY <1>1, AppendSeq DEF Typed, QueueTyped
<1>3. c \in BOOLEAN  BY DEF FromApp
<1>4. t = [s EXCEPT !.queue = q, !.spoiled = c]  BY Zenon DEF ChooseSilence
<1> HIDE DEF q, c
<1>5. Differs(s, t, {"queue", "spoiled"}) /\ t.queue = q /\ t.spoiled = c
  BY <1>4 DEF Differs, Typed, IsState, Fields
<1>6. Typed(t)
  BY <1>2, <1>3, <1>5
  DEF Typed, Differs, Fields, DeviceTyped, QueueTyped, SessionTyped, WantTyped
<1> QED  BY <1>5, <1>6 DEF q, c

(* It undoes no choice that is promised: the application waits for none, and  *)
(* wants none, or nothing is in use.                                         *)
LEMMA SilenceWaits ==
  ASSUME NEW s, Typed(s), QueueInv(s.queue), PhaseInv(s), WantInv(s),
         s.active = None \/ FromApp(s.queue) \/ s.wanted \in {None, Silence},
         NEW by \in {"change", "join", "ended"},
         NEW t, Differs(s, t, {"queue", "spoiled"}), Typed(t),
         t.queue = Append(s.queue, Task("start", Silence, by)),
         t.spoiled = (s.spoiled \/ FromApp(s.queue))
  PROVE  /\ QueueInv(t.queue) /\ PhaseInv(t) /\ WantInv(t)
         /\ ForEnded(s.queue) => ForEnded(t.queue)
         /\ by = "ended" => ForEnded(t.queue)
         /\ Changing(s.queue) => Changing(t.queue)
         /\ by = "change" => Changing(t.queue)
<1> DEFINE x == Task("start", Silence, by)
           q == s.queue
<1>1. x \in Tasks /\ TaskRight(x) /\ x.by = by /\ (by = "ended" => x = EndedTask)
  BY DEF Task, Tasks, Devices, TaskRight, EndedTask
<1>2. q \in Seq(Tasks)  BY DEF Typed, QueueTyped
<1>3. /\ t.streams = s.streams /\ t.active = s.active /\ t.transform = s.transform
      /\ t.phase = s.phase /\ t.wanted = s.wanted
  BY DEF Differs, Fields
<1>4. t.queue = Append(q, x)  OBVIOUS
<1> HIDE DEF x
<1>5. /\ QueueInv(Append(q, x))
      /\ Changing(q) => Changing(Append(q, x))
      /\ x.by = "change" => Changing(Append(q, x))
      /\ ForEnded(q) => ForEnded(Append(q, x))
      /\ x = EndedTask => ForEnded(Append(q, x))
      /\ FromApp(Append(q, x)) <=> FromApp(q) \/ x.by = "app"
  BY <1>1, <1>2, AppendQueue
<1>6. PhaseInv(t)
  <2>1. q # <<>> => t.queue # <<>> /\ Head(t.queue) = Head(q)
    BY <1>1, <1>2, <1>4, AppendSeq
  <2> QED  BY <1>3, <2>1 DEF PhaseInv, Asking
<1>7. WantInv(t)
  <2> SUFFICES ASSUME ~t.spoiled
               PROVE  Ordered(t.queue) /\ ~FromApp(t.queue) /\ Kept(t)
    BY DEF WantInv
  <2>1. ~s.spoiled /\ ~FromApp(q)  OBVIOUS
  <2>2. Ordered(t.queue)  BY <1>1, <1>2, <1>4, <2>1, AppendOrdered
  <2>3. ~FromApp(t.queue)  BY <1>1, <1>4, <1>5, <2>1
  <2>4. Kept(s)  BY <2>1 DEF WantInv
  <2>5. s.wanted # None => s.wanted = Silence
    BY <2>1, <2>4, NamesAssumption DEF Kept, Has, Typed, WantTyped, Devices
  <2>6. Kept(t)  BY <1>3, <2>4, <2>5, NamesAssumption DEF Kept, Has
  <2> QED  BY <2>2, <2>3, <2>6
<1> QED  BY <1>1, <1>4, <1>5, <1>6, <1>7

(* A stop leaves no stream, no transform device and no destination node. *)
LEMMA ClearedOf ==
  ASSUME NEW r, Good(r), NEW s, s = stopTracksAndRemoveCallbacks(r),
         NEW t, t = IF webAudio THEN [s EXCEPT !.transform = None, !.source = None, !.dest = None]
                    ELSE s
  PROVE  /\ Differs(r, t, {"streams", "active", "transform", "source", "dest"}) /\ Typed(t)
         /\ t.active = None /\ (\A i \in Streams : ~t.streams[i].live)
         /\ r.phase = "none" => t.transform = None
<1>1. /\ Differs(r, s, {"streams", "active"}) /\ Typed(s)
      /\ s.active = None /\ \A i \in Streams : ~s.streams[i].live
  BY StopOf DEF Good
<1>2. CASE webAudio
  <2>1. t = [s EXCEPT !.transform = None, !.source = None, !.dest = None]  BY <1>2
  <2>2. /\ Differs(s, t, {"transform", "source", "dest"})
        /\ t.transform = None /\ t.source = None /\ t.dest = None
    BY <1>1, <2>1 DEF Differs, Typed, IsState, Fields
  <2>3. Typed(t)
    BY <1>1, <2>2 DEF Typed, Differs, Fields, DeviceTyped, QueueTyped, SessionTyped, WantTyped
  <2>4. Differs(r, t, {"streams", "active", "transform", "source", "dest"})
    BY <1>1, <2>2 DEF Differs, Fields
  <2>5. t.active = s.active /\ t.streams = s.streams  BY <2>2 DEF Differs, Fields
  <2> QED  BY <1>1, <2>2, <2>3, <2>4, <2>5
<1>3. CASE ~webAudio
  <2>1. t = s  BY <1>3
  <2>2. r.transform = None  BY <1>3 DEF Good, TransformInv
  <2>3. t.transform = None  BY <1>1, <2>1, <2>2 DEF Differs, Fields
  <2> QED  BY <1>1, <2>1, <2>3 DEF Differs, Fields
<1> QED  BY <1>2, <1>3

(* The session that is told of a stop asks for no device, when it has a peer   *)
(* connection to send it over; the task that does is then behind the stop.    *)
LEMMA BeginStopGood ==
  ASSUME Good(Now), BeginStop, webAudio' = webAudio
  PROVE  Good(Now)'
<1> DEFINE r == Now
           s == stopTracksAndRemoveCallbacks(r)
           t == IF webAudio THEN [s EXCEPT !.transform = None, !.source = None, !.dest = None]
                ELSE s
           u == audioInputDidChange(t, None)
           f == Finish(u)
           q == r.queue
<1>1. queue # <<>> /\ phase = "none" /\ Head(queue).op = "stop" /\ Becomes(f)
  BY DEF BeginStop
<1>2. Good(r) /\ Typed(r) /\ q \in Seq(Tasks) /\ q = queue /\ r.phase = phase
  BY NowIs DEF Good, Typed, QueueTyped
<1> HIDE DEF r
<1>3. /\ Differs(r, t, {"streams", "active", "transform", "source", "dest"}) /\ Typed(t)
      /\ t.active = None /\ (\A i \in Streams : ~t.streams[i].live)
      /\ t.transform = None
  BY <1>1, <1>2, ClearedOf
<1> HIDE DEF s, t
<1>4. /\ t.queue = q /\ t.wanted = r.wanted /\ t.spoiled = r.spoiled /\ t.phase = r.phase
      /\ SameSession(r, t)
  BY <1>3 DEF Differs, Fields, SameSession
<1>5. TaskRight(Head(q)) /\ Head(q).device = Silence /\ Head(q).by = "app"
  <2>1. TaskRight(Head(q))  BY <1>1, <1>2, TailQueue DEF Good
  <2> QED  BY <1>1, <1>2, <2>1 DEF TaskRight
<1>6. CASE ~(t.meeting = "in" /\ observing)
  <2> DEFINE deaf == t.meeting = "joining" \/ (t.meeting = "in" /\ ~observing)
  <2>1. u = IF deaf THEN [t EXCEPT !.missed = TRUE] ELSE t
    BY <1>6 DEF audioInputDidChange
  <2>2. /\ Differs(t, u, {"missed"}) /\ Typed(u)
        /\ t.meeting \in {"joining", "in"} => u.missed = TRUE
    <3>1. CASE deaf
      <4>1. u = [t EXCEPT !.missed = TRUE]  BY <2>1, <3>1
      <4> QED  BY <1>3, <4>1, MissedOf
    <3>2. CASE ~deaf
      <4>1. u = t  BY <2>1, <3>2
      <4> QED  BY <1>3, <1>6, <3>2, <4>1 DEF Differs, Typed
    <3> QED  BY <3>1, <3>2
  <2> HIDE DEF u
  <2>3. u.queue = q  BY <1>4, <2>2 DEF Differs, Fields
  <2>4. /\ Differs(u, f, {"queue", "phase"}) /\ Typed(f)
        /\ f.queue = Tail(q) /\ f.phase = "none"
    BY <1>1, <1>2, <2>2, <2>3, FinishOf
  <2> HIDE DEF f
  <2>5. /\ f.active = None /\ f.streams = t.streams /\ f.transform = None
        /\ f.wanted = r.wanted /\ f.spoiled = r.spoiled
        /\ f.meeting = t.meeting /\ f.missed = u.missed
        /\ f.input = t.input /\ f.sent = t.sent
    BY <1>3, <1>4, <2>2, <2>4 DEF Differs, Fields
  <2>6. OneInUse(f)  BY <1>3, <2>5 DEF OneInUse
  <2>7. TransformInv(f) /\ FedInv(f)  BY <2>5 DEF TransformInv, FedInv
  <2>8. SendInv(f)  BY <1>2, <1>4, <2>2, <2>5 DEF Good, SendInv, SameSession
  <2>9. Has(f, Silence)  BY <2>5, NamesAssumption DEF Has
  <2>10. QueueInv(q) /\ WantInv(r) /\ EndedInv(r)  BY <1>2 DEF Good
  <2>11. Good(f)
    BY <1>1, <1>2, <1>5, <2>4, <2>5, <2>6, <2>7, <2>8, <2>9, <2>10, EndGood
  <2> QED  BY <1>1, <2>11, BecomesGood
<1>7. CASE t.meeting = "in" /\ observing
  <2> DEFINE v == Finish(t)
             x == Task("start", Silence, "change")
  <2>1. u = ChooseSilence(t, "change", Tail(q))
    BY <1>3, <1>4, <1>7 DEF audioInputDidChange, acquireAudioInputStream
  <2> HIDE DEF u
  <2>2. /\ Differs(t, u, {"queue", "spoiled"}) /\ Typed(u)
        /\ u.queue = Append(q, x)
        /\ u.spoiled = (r.spoiled \/ FromApp(Tail(q)))
    <3> DEFINE w == Tail(q)
    <3>1. u = ChooseSilence(t, "change", w) /\ Typed(t)  BY <1>3, <2>1
    <3> HIDE DEF w
    <3>2. /\ Differs(t, u, {"queue", "spoiled"}) /\ Typed(u)
          /\ u.queue = Append(t.queue, Task("start", Silence, "change"))
          /\ u.spoiled = (t.spoiled \/ FromApp(w))
      BY <3>1, ChooseSilenceOf
    <3> QED  BY <1>4, <3>2 DEF w
  <2>3. x \in Tasks  BY DEF x, Task, Tasks, Devices
  <2>4. u.queue # <<>> /\ Tail(u.queue) = Append(Tail(q), x)
    <3> HIDE DEF x
    <3> QED  BY <1>1, <1>2, <2>2, <2>3, AppendSeq
  <2>5. /\ Differs(u, f, {"queue", "phase"}) /\ Typed(f)
        /\ f.queue = Append(Tail(q), x) /\ f.phase = "none"
    BY <2>2, <2>4, FinishOf
  <2> HIDE DEF f
  <2>6. /\ Differs(t, v, {"queue", "phase"}) /\ Typed(v)
        /\ v.queue = Tail(q) /\ v.phase = "none"
    BY <1>1, <1>2, <1>3, <1>4, FinishOf
  <2> HIDE DEF v
  <2>7. /\ v.active = None /\ v.wanted = r.wanted /\ v.spoiled = r.spoiled
        /\ SameSession(r, v)
    BY <1>3, <1>4, <2>6 DEF Differs, Fields, SameSession
  <2>8. WantInv(v)
    <3>1. Has(v, Silence)  BY <2>7, NamesAssumption DEF Has
    <3>2. QueueInv(q) /\ WantInv(r)  BY <1>2 DEF Good
    <3> QED  BY <1>1, <1>2, <1>5, <2>6, <2>7, <3>1, <3>2, TailWants
  <2>9. QueueInv(v.queue)  BY <1>1, <1>2, <2>6, TailQueue DEF Good
  <2>10. PhaseInv(v)  BY <2>6 DEF PhaseInv
  <2>11. Differs(v, f, {"queue", "spoiled"})
    BY <2>2, <2>5, <2>6 DEF Differs, Fields
  <2>12. f.spoiled = (v.spoiled \/ FromApp(v.queue))
    BY <2>2, <2>5, <2>6, <2>7 DEF Differs, Fields
  <2>13. QueueInv(f.queue) /\ PhaseInv(f) /\ WantInv(f) /\ Changing(f.queue)
    BY <2>5, <2>6, <2>7, <2>8, <2>9, <2>10, <2>11, <2>12, SilenceWaits DEF x
  <2>14. f.active = None /\ f.streams = t.streams /\ f.transform = None /\ SameSession(r, f)
    BY <1>3, <1>4, <2>2, <2>5 DEF Differs, Fields, SameSession
  <2>15. OneInUse(f)  BY <1>3, <2>14 DEF OneInUse
  <2>16. TransformInv(f)  BY <2>14 DEF TransformInv
  <2>17. EndedInv(f) /\ FedInv(f)  BY <2>14 DEF EndedInv, FedInv
  <2>18. SendInv(f)  BY <1>2, <2>13, <2>14 DEF Good, SendInv, SameSession
  <2>19. Good(f)  BY <2>5, <2>13, <2>15, <2>16, <2>17, <2>18 DEF Good
  <2> QED  BY <1>1, <2>19, BecomesGood
<1> QED  BY <1>6, <1>7

-----------------------------------------------------------------------------
(* The application, the session and the browser: startAudioInput and           *)
(* stopAudioInput put a task behind what waits.                              *)
LEMMA ChoiceGood ==
  ASSUME Good(Now), NEW op \in {"start", "stop"}, NEW device \in Devices,
         op = "stop" => device = Silence, Choice(op, device)
  PROVE  Good(Now)'
<1> DEFINE r == Now
           x == Task(op, device, "app")
           a == Append(r.queue, x)
           c == r.spoiled /\ r.queue # <<>>
           t == [r EXCEPT !.queue = a, !.wanted = device, !.spoiled = c]
<1>1. Now' = t
  <2>1. /\ queue' = Append(queue, x) /\ wanted' = device
        /\ spoiled' = (spoiled /\ queue # <<>>)
        /\ UNCHANGED <<webAudio, streams, active, transform, source, dest, phase,
                       meeting, input, sent, missed>>
    BY DEF Choice, deviceVars, sessionVars
  <2> HIDE DEF x
  <2>2. a = Append(queue, x) /\ c = (spoiled /\ queue # <<>>)  BY NowIs
  <2> HIDE DEF a, c
  <2>3. queue' = a /\ spoiled' = c  BY <2>1, <2>2
  <2>4. /\ Differs(r, t, {"queue", "wanted", "spoiled"})
        /\ t.queue = a /\ t.wanted = device /\ t.spoiled = c
    <3>1. IsState(r)  BY NowIs
    <3> HIDE DEF r
    <3> QED  BY <3>1 DEF Differs, IsState, Fields
  <2>5. /\ IsState(t) /\ t.streams = streams /\ t.active = active /\ t.transform = transform
        /\ t.source = source /\ t.dest = dest /\ t.phase = phase /\ t.meeting = meeting
        /\ t.input = input /\ t.sent = sent /\ t.missed = missed
    BY <2>4, NowIs DEF Differs, Fields
  <2> HIDE DEF t, r
  <2> QED  BY <2>1, <2>3, <2>4, <2>5 DEF Now, IsState, Fields
<1>2. webAudio' = webAudio  BY DEF Choice
<1>3. Good(r) /\ Typed(r)  BY DEF Good
<1> HIDE DEF r
<1>4. r.queue \in Seq(Tasks)  BY <1>3 DEF Typed, QueueTyped
<1>5. x \in Tasks /\ TaskRight(x) /\ x.by = "app" /\ x.device = device
  BY DEF Task, Tasks, TaskRight
<1> HIDE DEF x
<1>6. a \in Seq(Tasks) /\ a # <<>> /\ (r.queue # <<>> => Head(a) = Head(r.queue))
  BY <1>4, <1>5, AppendSeq
<1>7. /\ QueueInv(a) /\ Last(a) = x /\ FromApp(a)
      /\ Changing(r.queue) => Changing(a)
      /\ ForEnded(r.queue) => ForEnded(a)
  BY <1>3, <1>4, <1>5, AppendQueue DEF Good
<1>8. c \in BOOLEAN  OBVIOUS
<1>9. ~c => Ordered(a)
  <2>1. CASE r.queue = <<>>
    <3>1. ~FromApp(r.queue)  BY <2>1 DEF FromApp
    <3> QED  BY <1>4, <1>5, <3>1, AppendOrdered
  <2>2. CASE r.queue # <<>>
    <3>1. ~c => Ordered(r.queue)  BY <1>3, <2>2 DEF Good, WantInv
    <3> QED  BY <1>4, <1>5, <3>1, AppendOrdered
  <2> QED  BY <2>1, <2>2
<1> HIDE DEF a, c
<1>10. /\ Differs(r, t, {"queue", "wanted", "spoiled"})
       /\ t.queue = a /\ t.wanted = device /\ t.spoiled = c
  BY <1>3 DEF Differs, Typed, IsState, Fields
<1> HIDE DEF t
<1>11. Typed(t)
  BY <1>3, <1>6, <1>8, <1>10
  DEF Typed, Differs, Fields, DeviceTyped, QueueTyped, SessionTyped, WantTyped
<1>12. /\ t.streams = r.streams /\ t.active = r.active /\ t.transform = r.transform
       /\ t.phase = r.phase /\ t.source = r.source /\ t.dest = r.dest /\ SameSession(r, t)
  BY <1>10 DEF Differs, Fields, SameSession
<1>13. OneInUse(t) /\ QueueInv(t.queue)  BY <1>3, <1>7, <1>10, <1>12 DEF Good, OneInUse
<1>14. PhaseInv(t)  BY <1>3, <1>6, <1>10, <1>12 DEF Good, PhaseInv, Asking
<1>15. TransformInv(t)  BY <1>3, <1>12 DEF Good, TransformInv, Asking
<1>16. WantInv(t)  BY <1>5, <1>7, <1>9, <1>10 DEF WantInv
<1>17. EndedInv(t) /\ FedInv(t)  BY <1>3, <1>7, <1>10, <1>12 DEF Good, EndedInv, FedInv
<1>18. SendInv(t)
  <2>1. Agrees(r) => Agrees(t)  BY <1>12 DEF Agrees, Output, SameSession
  <2> QED  BY <1>3, <1>7, <1>10, <1>12, <2>1 DEF Good, SendInv, SameSession, Asking
<1>19. Good(t)  BY <1>11, <1>13, <1>14, <1>15, <1>16, <1>17, <1>18 DEF Good
<1> QED  BY <1>1, <1>2, <1>19, Renewed

(* A mute enables or disables the stream in use, and changes nothing else. *)
LEMMA SetMuteGood ==
  ASSUME Good(Now), SetMute, muted \in BOOLEAN
  PROVE  Good(Now)'
<1> DEFINE r == Now
           F(i) == IF i = active /\ streams[i].live
                   THEN [streams[i] EXCEPT !.enabled = muted] ELSE streams[i]
           g == [i \in Streams |-> F(i)]
           t == [r EXCEPT !.streams = g]
<1>1. Now' = t
  <2>1. /\ streams' = g
        /\ UNCHANGED <<webAudio, active, transform, source, dest, queue, phase,
                       meeting, input, sent, missed, wanted, spoiled>>
    BY DEF SetMute, toggleLocalAudioInputStream, sessionVars
  <2> HIDE DEF g
  <2> QED  BY <2>1 DEF Now
<1>2. webAudio' = webAudio  BY DEF SetMute
<1>3. Good(r) /\ Typed(r) /\ r.streams = streams  BY NowIs DEF Good
<1> HIDE DEF r
<1>4. \A i \in Streams : /\ F(i) \in StreamTypes /\ F(i).live = r.streams[i].live
                         /\ F(i).device = r.streams[i].device
  <2> SUFFICES ASSUME NEW i \in Streams
               PROVE  /\ F(i) \in StreamTypes /\ F(i).live = r.streams[i].live
                      /\ F(i).device = r.streams[i].device
    OBVIOUS
  <2> DEFINE x == streams[i]
  <2>1. x \in StreamTypes  BY <1>3 DEF Typed, DeviceTyped
  <2> HIDE DEF x
  <2>2. /\ [x EXCEPT !.enabled = muted] \in StreamTypes
        /\ [x EXCEPT !.enabled = muted].live = x.live
        /\ [x EXCEPT !.enabled = muted].device = x.device
    BY <2>1 DEF StreamTypes
  <2> QED  BY <1>3, <2>1, <2>2 DEF x
<1> HIDE DEF F
<1>5. /\ g \in [Streams -> StreamTypes]
      /\ \A i \in Streams : g[i].live = r.streams[i].live /\ g[i].device = r.streams[i].device
  BY <1>4
<1> HIDE DEF g
<1>6. Differs(r, t, {"streams"}) /\ t.streams = g
  BY <1>3 DEF Differs, Typed, IsState, Fields
<1> HIDE DEF t
<1>7. Typed(t)
  BY <1>3, <1>5, <1>6
  DEF Typed, Differs, Fields, DeviceTyped, QueueTyped, SessionTyped, WantTyped
<1>8. /\ t.active = r.active /\ t.transform = r.transform /\ t.queue = r.queue
      /\ t.phase = r.phase /\ t.source = r.source /\ t.dest = r.dest /\ SameSession(r, t)
      /\ t.wanted = r.wanted /\ t.spoiled = r.spoiled
  BY <1>6 DEF Differs, Fields, SameSession
<1>9. OneInUse(t)  BY <1>3, <1>5, <1>6, <1>8 DEF Good, OneInUse
<1>10. QueueInv(t.queue) /\ PhaseInv(t)  BY <1>3, <1>8 DEF Good, PhaseInv, Asking
<1>11. TransformInv(t)  BY <1>3, <1>8 DEF Good, TransformInv, Asking
<1>12. r.active = None \/ r.active \in Streams  BY <1>3 DEF Typed, DeviceTyped
<1>13. \A d : Has(r, d) => Has(t, d)  BY <1>5, <1>6, <1>8, <1>12 DEF Has
<1>14. WantInv(t)  BY <1>3, <1>8, <1>13 DEF Good, WantInv, Kept
<1>15. EndedInv(t) /\ FedInv(t)  BY <1>3, <1>5, <1>6, <1>8, <1>12 DEF Good, EndedInv, FedInv
<1>16. SendInv(t)
  <2>1. Agrees(r) => Agrees(t)  BY <1>8 DEF Agrees, Output, SameSession
  <2> QED  BY <1>3, <1>8, <2>1 DEF Good, SendInv, SameSession, Asking
<1>17. Good(t)  BY <1>7, <1>9, <1>10, <1>11, <1>14, <1>15, <1>16 DEF Good
<1> QED  BY <1>1, <1>2, <1>17, Renewed

(* Steps of the session that touch only its own fields. *)
LEMMA SessionGood ==
  ASSUME Good(Now), UNCHANGED <<webAudio, deviceVars, queue, phase, wanted, spoiled>>,
         \/ AttachMediaInput
         \/ FinishStart
         \/ CleanRestartedSession
         \/ MeetingStop
  PROVE  Good(Now)'
<1> DEFINE r == Now
           t == Now'
<1>1. Good(r) /\ Typed(r)  BY DEF Good
<1>2. /\ IsState(t) /\ t.streams = r.streams /\ t.active = r.active
      /\ t.transform = r.transform /\ t.source = r.source /\ t.dest = r.dest
      /\ t.queue = r.queue /\ t.phase = r.phase /\ t.wanted = r.wanted
      /\ t.spoiled = r.spoiled
  BY DEF Now, IsState, Fields, deviceVars
<1>3. \/ /\ r.meeting = "joining" /\ t.meeting = "in" /\ t.sent = r.input
         /\ t.input = r.input /\ t.missed = r.missed
      \/ /\ r.meeting = "in" /\ t.meeting = "joining" /\ t.sent = None
         /\ t.input = r.input /\ t.missed = r.missed
      \/ SameSession(r, t)
      \/ t.meeting = "out" /\ t.sent = None /\ t.input = None /\ t.missed = FALSE
  BY DEF AttachMediaInput, FinishStart, CleanRestartedSession, MeetingStop, Now, SameSession
<1>4. webAudio' = webAudio  OBVIOUS
<1>5. \E x : x = t  OBVIOUS
<1>6. PICK x : x = t  BY <1>5
<1> HIDE DEF r
<1>7. /\ IsState(x) /\ x.streams = r.streams /\ x.active = r.active
      /\ x.transform = r.transform /\ x.source = r.source /\ x.dest = r.dest
      /\ x.queue = r.queue /\ x.phase = r.phase /\ x.wanted = r.wanted
      /\ x.spoiled = r.spoiled
  BY <1>2, <1>6
<1>8. \/ /\ r.meeting = "joining" /\ x.meeting = "in" /\ x.sent = r.input
         /\ x.input = r.input /\ x.missed = r.missed
      \/ /\ r.meeting = "in" /\ x.meeting = "joining" /\ x.sent = None
         /\ x.input = r.input /\ x.missed = r.missed
      \/ SameSession(r, x)
      \/ x.meeting = "out" /\ x.sent = None /\ x.input = None /\ x.missed = FALSE
  BY <1>3, <1>6 DEF SameSession
<1>9. Typed(x)
  <2>1. SessionTyped(x)  BY <1>1, <1>8 DEF Typed, SessionTyped, Outputs, SameSession
  <2> QED  BY <1>1, <1>7, <2>1 DEF Typed, DeviceTyped, QueueTyped, WantTyped
<1>10. OneInUse(x) /\ QueueInv(x.queue)  BY <1>1, <1>7 DEF Good, OneInUse
<1>11. PhaseInv(x)  BY <1>1, <1>7 DEF Good, PhaseInv, Asking
<1>12. TransformInv(x)  BY <1>1, <1>7 DEF Good, TransformInv, Asking
<1>13. WantInv(x)  BY <1>1, <1>7 DEF Good, WantInv, Kept, Has
<1>14. EndedInv(x) /\ FedInv(x)  BY <1>1, <1>7 DEF Good, EndedInv, FedInv
<1>15. SendInv(x)
  BY <1>1, <1>7, <1>8 DEF Good, SendInv, Asking, Agrees, Output, SameSession
<1>16. Good(x)  BY <1>9, <1>10, <1>11, <1>12, <1>13, <1>14, <1>15 DEF Good
<1> QED  BY <1>4, <1>6, <1>16, Renewed

(* A session that starts takes the input that is in use, or asks for none. *)
LEMMA MeetingStartGood ==
  ASSUME Good(Now), MeetingStart
  PROVE  Good(Now)'
<1> DEFINE r == Now
           s == [r EXCEPT !.meeting = "acquiring"]
           t == acquireAudioInputStream(s, "join", queue)
<1>1. webAudio' = webAudio /\ Becomes(t)  BY DEF MeetingStart
<1>2. Good(r) /\ Typed(r) /\ r.queue = queue /\ r.meeting = "out"
  BY NowIs DEF Good, MeetingStart
<1> HIDE DEF r
<1>3. Differs(r, s, {"meeting"}) /\ s.meeting = "acquiring"
  BY <1>2 DEF Differs, Typed, IsState, Fields
<1> HIDE DEF s
<1>4. Typed(s)
  BY <1>2, <1>3 DEF Typed, Differs, Fields, DeviceTyped, QueueTyped, SessionTyped, WantTyped
<1>5. /\ s.streams = r.streams /\ s.active = r.active /\ s.transform = r.transform
      /\ s.queue = r.queue /\ s.phase = r.phase /\ s.wanted = r.wanted
      /\ s.spoiled = r.spoiled /\ s.source = r.source
  BY <1>3 DEF Differs, Fields
<1>6. CASE s.active = None
  <2>1. t = ChooseSilence(s, "join", queue)  BY <1>6 DEF acquireAudioInputStream
  <2> HIDE DEF t
  <2>2. /\ Differs(s, t, {"queue", "spoiled"}) /\ Typed(t)
        /\ t.queue = Append(s.queue, Task("start", Silence, "join"))
        /\ t.spoiled = (s.spoiled \/ FromApp(s.queue))
    <3> DEFINE q == s.queue
    <3>1. t = ChooseSilence(s, "join", q)  BY <1>2, <1>5, <2>1
    <3> HIDE DEF q
    <3>2. /\ Differs(s, t, {"queue", "spoiled"}) /\ Typed(t)
          /\ t.queue = Append(s.queue, Task("start", Silence, "join"))
          /\ t.spoiled = (s.spoiled \/ FromApp(q))
      BY <1>4, <3>1, ChooseSilenceOf
    <3> QED  BY <3>2 DEF q
  <2>3. QueueInv(s.queue) /\ PhaseInv(s) /\ WantInv(s)
    BY <1>2, <1>5 DEF Good, PhaseInv, Asking, WantInv, Kept, Has
  <2>4. QueueInv(t.queue) /\ PhaseInv(t) /\ WantInv(t)
    BY <1>4, <1>6, <2>2, <2>3, SilenceWaits
  <2>5. /\ t.streams = r.streams /\ t.active = None /\ t.transform = r.transform
        /\ t.phase = r.phase /\ t.meeting = "acquiring"
    BY <1>3, <1>5, <1>6, <2>2 DEF Differs, Fields
  <2>6. OneInUse(t)  BY <1>2, <1>5, <1>6, <2>5 DEF Good, OneInUse
  <2>7. TransformInv(t)  BY <1>2, <1>5, <1>6, <2>5 DEF Good, TransformInv, Asking
  <2>8. EndedInv(t) /\ FedInv(t)  BY <2>5 DEF EndedInv, FedInv
  <2>9. SendInv(t)  BY <2>5 DEF SendInv
  <2>10. Good(t)  BY <2>2, <2>4, <2>6, <2>7, <2>8, <2>9 DEF Good
  <2> QED  BY <1>1, <2>10, BecomesGood
<1>7. CASE s.active # None
  <2>1. t = Acquired(s, "join")  BY <1>7 DEF acquireAudioInputStream
  <2>2. s.active \in Streams  BY <1>4, <1>7 DEF Typed, DeviceTyped
  <2> HIDE DEF t
  <2>3. Differs(s, t, {"dest", "input", "sent", "missed", "meeting"}) /\ Typed(t) /\ Heard(t)
    BY <1>3, <1>4, <2>1, <2>2, AcquiredOf
  <2>4. /\ t.streams = r.streams /\ t.active = r.active /\ t.transform = r.transform
        /\ t.queue = r.queue /\ t.phase = r.phase /\ t.wanted = r.wanted
        /\ t.spoiled = r.spoiled /\ t.source = r.source
    BY <1>5, <2>3 DEF Differs, Fields
  <2>5. OneInUse(t) /\ QueueInv(t.queue)  BY <1>2, <2>4 DEF Good, OneInUse
  <2>6. PhaseInv(t)  BY <1>2, <2>4 DEF Good, PhaseInv, Asking
  <2>7. TransformInv(t)  BY <1>2, <2>4 DEF Good, TransformInv, Asking
  <2>8. WantInv(t)  BY <1>2, <2>4 DEF Good, WantInv, Kept, Has
  <2>9. EndedInv(t) /\ FedInv(t)  BY <1>2, <2>4 DEF Good, EndedInv, FedInv
  <2>10. SendInv(t)  BY <2>3, HeardSends
  <2>11. Good(t)  BY <2>3, <2>5, <2>6, <2>7, <2>8, <2>9, <2>10 DEF Good
  <2> QED  BY <1>1, <2>11, BecomesGood
<1> QED  BY <1>6, <1>7

(* A device that goes away ends the stream in use, if that is its own. *)
LEMMA UnplugGood ==
  ASSUME Good(Now), NEW m \in Mics, Unplug(m)
  PROVE  Good(Now)'
<1> DEFINE r == Now
           ended == {i \in Streams : streams[i].live /\ streams[i].device = m}
           g == [i \in Streams |-> IF i \in ended THEN Blank ELSE streams[i]]
           w == IF active \in ended /\ ~FromApp(queue) THEN Silence ELSE r.wanted
           s == [r EXCEPT !.streams = g, !.wanted = w]
           t == ChooseSilence(s, "ended", queue)
<1>1. webAudio' = webAudio /\ Becomes(IF active \in ended THEN t ELSE s)
  <2>1. [r EXCEPT !.streams = g,
                  !.wanted = IF active \in ended /\ ~FromApp(queue) THEN Silence ELSE @] = s
    <3> HIDE DEF r, g, ended
    <3> QED  BY Zenon
  <2>2. webAudio' = webAudio
    BY DEF Unplug
  <2>3. Becomes(IF endedCallback(ended)
                THEN ChooseSilence([r EXCEPT !.streams = g,
                       !.wanted = IF active \in ended /\ ~FromApp(queue) THEN Silence ELSE @],
                     "ended", queue)
                ELSE [r EXCEPT !.streams = g,
                       !.wanted = IF active \in ended /\ ~FromApp(queue) THEN Silence ELSE @])
    BY Zenon DEF Unplug
  <2> HIDE DEF s, r, g, ended
  <2>4. Becomes(IF endedCallback(ended) THEN t ELSE s)  BY <2>1, <2>3, Zenon
  <2> QED  BY <2>2, <2>4, Zenon DEF endedCallback
<1>2. Good(r) /\ Typed(r) /\ r.queue = queue /\ r.active = active /\ r.streams = streams
  BY NowIs DEF Good
<1>3. streams \in [Streams -> StreamTypes] /\ \A i \in Streams : streams[i].live => i = active
  BY <1>2 DEF Good, Typed, DeviceTyped, OneInUse
<1> HIDE DEF r
<1>4. Blank \in StreamTypes /\ ~Blank.live /\ Blank.device = None  BY DEF Blank, StreamTypes
<1>5. /\ g \in [Streams -> StreamTypes]
      /\ \A i \in Streams : g[i] = IF i \in ended THEN Blank ELSE streams[i]
  <2> HIDE DEF ended
  <2> QED  BY <1>3, <1>4
<1>6. w \in Devices \cup {None}
  <2>1. r.wanted \in Devices \cup {None} /\ Silence \in Devices
    BY <1>2 DEF Typed, WantTyped, Devices
  <2> QED  BY <2>1
<1>7. active \notin ended => ended = {}  BY <1>3
<1>8. (active \in ended => active \in Streams) /\ ended \subseteq Streams  OBVIOUS
<1>9. active \notin ended => w = r.wanted  OBVIOUS
<1>10. active \in ended => w = Silence \/ FromApp(queue)  OBVIOUS
<1> HIDE DEF g, w, ended
<1>11. Differs(r, s, {"streams", "wanted"}) /\ s.streams = g /\ s.wanted = w
  BY <1>2 DEF Differs, Typed, IsState, Fields
<1> HIDE DEF s
<1>12. Typed(s)
  BY <1>2, <1>5, <1>6, <1>11
  DEF Typed, Differs, Fields, DeviceTyped, QueueTyped, SessionTyped, WantTyped
<1>13. /\ s.active = r.active /\ s.transform = r.transform /\ s.queue = r.queue
       /\ s.phase = r.phase /\ s.dest = r.dest /\ SameSession(r, s)
       /\ s.spoiled = r.spoiled /\ s.source = r.source
  BY <1>11 DEF Differs, Fields, SameSession
<1>14. CASE active \notin ended
  <2>1. \A i \in Streams : g[i] = r.streams[i]  BY <1>2, <1>5, <1>7, <1>14
  <2>2. g = r.streams  BY <1>2, <1>3, <1>5, <2>1
  <2>3. s.streams = r.streams /\ s.wanted = r.wanted  BY <1>9, <1>11, <1>14, <2>2
  <2>4. OneInUse(s) /\ QueueInv(s.queue)  BY <1>2, <1>13, <2>3 DEF Good, OneInUse
  <2>5. PhaseInv(s)  BY <1>2, <1>13 DEF Good, PhaseInv, Asking
  <2>6. TransformInv(s)  BY <1>2, <1>13 DEF Good, TransformInv, Asking
  <2>7. WantInv(s)  BY <1>2, <1>13, <2>3 DEF Good, WantInv, Kept, Has
  <2>8. EndedInv(s) /\ FedInv(s)  BY <1>2, <1>13, <2>3 DEF Good, EndedInv, FedInv
  <2>9. SendInv(s)
    BY <1>2, <1>13 DEF Good, SendInv, SameSession, Asking, Agrees, Output
  <2>10. Good(s)  BY <1>12, <2>4, <2>5, <2>6, <2>7, <2>8, <2>9 DEF Good
  <2>11. Becomes(s)  BY <1>1, <1>14
  <2> QED  BY <1>1, <2>10, <2>11, BecomesGood
<1>15. CASE active \in ended
  <2>1. s.active \in Streams /\ s.streams[s.active] = Blank
    BY <1>2, <1>5, <1>8, <1>11, <1>13, <1>15
  <2>2. \A i \in Streams : ~s.streams[i].live  BY <1>2, <1>3, <1>4, <1>5, <1>11, <1>15
  <2>3. s.active # None  BY <2>1, StreamsAssumption
  <2>4. w = Silence \/ FromApp(s.queue)  BY <1>2, <1>10, <1>13, <1>15
  <2>5. QueueInv(s.queue)  BY <1>2, <1>13 DEF Good
  <2>6. PhaseInv(s)  BY <1>2, <1>13 DEF Good, PhaseInv, Asking
  <2>7. TransformInv(s)  BY <1>2, <1>13 DEF Good, TransformInv, Asking
  <2>8. WantInv(s)
    <3>1. Has(s, Silence)  BY <1>4, <2>1, NamesAssumption DEF Has
    <3>2. CASE FromApp(s.queue)
      <4>1. s.wanted = r.wanted  BY <1>2, <1>11, <1>13, <3>2 DEF w
      <4> QED  BY <1>2, <1>13, <3>2, <4>1 DEF Good, WantInv
    <3>3. CASE ~FromApp(s.queue)
      <4>1. s.wanted = Silence  BY <1>11, <2>4, <3>3
      <4> QED  BY <1>2, <1>13, <3>1, <3>3, <4>1 DEF Good, WantInv, Kept
    <3> QED  BY <3>2, <3>3
  <2>9. t = ChooseSilence(s, "ended", s.queue) /\ Becomes(t)  BY <1>1, <1>2, <1>13, <1>15
  <2> HIDE DEF t
  <2>10. /\ Differs(s, t, {"queue", "spoiled"}) /\ Typed(t)
         /\ t.queue = Append(s.queue, Task("start", Silence, "ended"))
         /\ t.spoiled = (s.spoiled \/ FromApp(s.queue))
    <3> DEFINE q == s.queue
    <3>1. t = ChooseSilence(s, "ended", q)  BY <2>9
    <3> HIDE DEF q
    <3>2. /\ Differs(s, t, {"queue", "spoiled"}) /\ Typed(t)
          /\ t.queue = Append(s.queue, Task("start", Silence, "ended"))
          /\ t.spoiled = (s.spoiled \/ FromApp(q))
      BY <1>12, <3>1, ChooseSilenceOf
    <3> QED  BY <3>2 DEF q
  <2>11. /\ QueueInv(t.queue) /\ PhaseInv(t) /\ WantInv(t) /\ ForEnded(t.queue)
         /\ Changing(s.queue) => Changing(t.queue)
    BY <1>11, <1>12, <2>4, <2>5, <2>6, <2>8, <2>10, SilenceWaits
  <2>12. /\ t.streams = s.streams /\ t.active = r.active /\ t.transform = r.transform
         /\ t.phase = r.phase /\ t.dest = r.dest /\ SameSession(r, t)
    BY <1>13, <2>10 DEF Differs, Fields, SameSession
  <2>13. OneInUse(t)  BY <2>2, <2>12 DEF OneInUse
  <2>14. TransformInv(t)  BY <1>2, <2>12 DEF Good, TransformInv, Asking
  <2>15. EndedInv(t) /\ FedInv(t)
    BY <1>4, <2>1, <2>11, <2>12, <1>13, NamesAssumption DEF EndedInv, FedInv
  <2>16. SendInv(t)
    <3>1. Agrees(r) => Agrees(t)  BY <2>12 DEF Agrees, Output, SameSession
    <3> QED  BY <1>2, <1>13, <2>11, <2>12, <3>1 DEF Good, SendInv, SameSession, Asking
  <2>17. Good(t)  BY <2>10, <2>11, <2>13, <2>14, <2>15, <2>16 DEF Good
  <2> QED  BY <1>1, <2>9, <2>17, BecomesGood
<1> QED  BY <1>14, <1>15

-----------------------------------------------------------------------------
(* The inductive invariant. *)
InputInv ==
  /\ Good(Now)
  /\ webAudio \in BOOLEAN /\ muted \in BOOLEAN /\ observing \in BOOLEAN /\ present \subseteq Mics

(* The invariant holds at the start. *)
LEMMA InputInit == Init => InputInv
<1> SUFFICES ASSUME Init  PROVE InputInv
  OBVIOUS
<1> DEFINE r == Now
<1>1. /\ r.streams = [i \in Streams |-> Blank] /\ r.active = None /\ r.transform = None
      /\ r.source = None /\ r.dest = None /\ r.queue = <<>> /\ r.phase = "none"
      /\ r.meeting = "out" /\ r.input = None /\ r.sent = None
      /\ r.wanted = None /\ r.spoiled = FALSE /\ r.missed = FALSE /\ IsState(r)
  BY NowIs DEF Init
<1>2. webAudio \in BOOLEAN /\ muted \in BOOLEAN /\ observing \in BOOLEAN /\ present \subseteq Mics
  BY DEF Init
<1> HIDE DEF r
<1>3. Blank \in StreamTypes /\ ~Blank.live  BY DEF Blank, StreamTypes
<1>4. r.streams \in [Streams -> StreamTypes]  BY <1>1, <1>3
<1>5. <<>> \in Seq(Tasks) /\ DOMAIN <<>> = {}  OBVIOUS
<1>6. Typed(r)
  BY <1>1, <1>4, <1>5
  DEF Typed, DeviceTyped, QueueTyped, SessionTyped, WantTyped, Outputs, Devices
<1>7. OneInUse(r)  BY <1>1, <1>3 DEF OneInUse
<1>8. QueueInv(r.queue) /\ ~FromApp(r.queue) /\ Ordered(r.queue)
  BY <1>1, <1>5 DEF QueueInv, FromApp, Ordered
<1>9. PhaseInv(r) /\ TransformInv(r) /\ EndedInv(r) /\ FedInv(r) /\ SendInv(r)
  BY <1>1 DEF PhaseInv, TransformInv, EndedInv, FedInv, SendInv
<1>10. WantInv(r)  BY <1>1, <1>8 DEF WantInv, Kept
<1>11. Good(r)  BY <1>6, <1>7, <1>8, <1>9, <1>10 DEF Good
<1> QED  BY <1>2, <1>11 DEF InputInv, r

(* Every step keeps it. *)
LEMMA InputStep ==
  ASSUME InputInv, [Next]_vars
  PROVE  InputInv'
<1>1. /\ Good(Now) /\ webAudio \in BOOLEAN /\ muted \in BOOLEAN /\ observing \in BOOLEAN
      /\ present \subseteq Mics
  BY DEF InputInv
<1>2. CASE TaskStep
  <2>1. UNCHANGED <<webAudio, muted, observing, present>>  BY <1>2 DEF TaskStep
  <2>2. Good(Now)'
    BY <1>1, <1>2, <2>1, BeginStopGood, BeginStartGood, BeginTransformGood, NodesCreatedGood,
       NodesFailGood, GrantedGood, OverConstrainedGood, DeniedGood
    DEF TaskStep
  <2> QED  BY <1>1, <2>1, <2>2 DEF InputInv
<1>3. CASE \E device \in Mics \cup Transforms \cup {Silence} : startAudioInput(device)
  <2>1. PICK device \in Devices : Choice("start", device)
    BY <1>3 DEF startAudioInput, Devices
  <2>2. Good(Now)'  BY <1>1, <2>1, ChoiceGood
  <2> QED  BY <1>1, <2>1, <2>2 DEF InputInv, Choice, sessionVars
<1>4. CASE stopAudioInput
  <2>1. Choice("stop", Silence) /\ Silence \in Devices  BY <1>4 DEF stopAudioInput, Devices
  <2>2. Good(Now)'  BY <1>1, <2>1, ChoiceGood
  <2> QED  BY <1>1, <2>1, <2>2 DEF InputInv, Choice, sessionVars
<1>5. CASE SetMute
  <2>1. Good(Now)'  BY <1>1, <1>5, SetMuteGood
  <2> QED  BY <1>1, <1>5, <2>1 DEF InputInv, SetMute, sessionVars
<1>6. CASE MeetingStart
  <2>1. Good(Now)'  BY <1>1, <1>6, MeetingStartGood
  <2> QED  BY <1>1, <1>6, <2>1 DEF InputInv, MeetingStart
<1>7. CASE AttachMediaInput \/ FinishStart \/ CleanRestartedSession \/ MeetingStop
  <2>1. UNCHANGED <<webAudio, deviceVars, queue, phase, muted, present, wanted, spoiled>>
    BY <1>7 DEF AttachMediaInput, FinishStart, CleanRestartedSession, MeetingStop
  <2>2. Good(Now)'  BY <1>1, <1>7, <2>1, SessionGood
  <2>3. observing' \in BOOLEAN
    BY <1>1, <1>7 DEF AttachMediaInput, FinishStart, CleanRestartedSession, MeetingStop
  <2> QED  BY <1>1, <2>1, <2>2, <2>3 DEF InputInv
<1>8. CASE \E m \in Mics : Unplug(m)
  <2>1. PICK m \in Mics : Unplug(m)  BY <1>8
  <2>2. Good(Now)'  BY <1>1, <2>1, UnplugGood
  <2>3. UNCHANGED <<webAudio, muted, observing>> /\ present' = present \ {m}
    BY <2>1 DEF Unplug
  <2> QED  BY <1>1, <2>2, <2>3 DEF InputInv
<1>9. CASE (\E m \in Mics : Plug(m)) \/ UNCHANGED vars
  <2>1. UNCHANGED <<webAudio, deviceVars, queue, phase, muted, sessionVars, wanted, spoiled>>
    BY <1>9 DEF Plug, vars
  <2>2. Now' = Now  BY <2>1 DEF Now, deviceVars, sessionVars
  <2>3. PICK x : x = Now  OBVIOUS
  <2>4. Good(Now)'  BY <1>1, <2>1, <2>2, <2>3, Renewed
  <2>5. present' \subseteq Mics  BY <1>1, <1>9 DEF Plug, vars
  <2> QED  BY <1>1, <2>1, <2>4, <2>5 DEF InputInv, sessionVars
<1> QED
  BY <1>2, <1>3, <1>4, <1>5, <1>6, <1>7, <1>8, <1>9 DEF Next

(* It holds always. *)
LEMMA InputAlways == Spec => []InputInv
<1>1. InputInv /\ [Next]_vars => InputInv'  BY InputStep
<1> QED  BY <1>1, InputInit, PTL DEF Spec

(* Every variable has its type; a task waits only at the head of the queue. *)
THEOREM TypeCorrect == Spec => []TypeOK
<1>1. InputInv => TypeOK
  <2> SUFFICES ASSUME InputInv  PROVE TypeOK
    OBVIOUS
  <2>1. Good(Now) /\ Typed(Now)  BY DEF InputInv, Good
  <2>2. /\ webAudio \in BOOLEAN /\ muted \in BOOLEAN /\ spoiled \in BOOLEAN
        /\ missed \in BOOLEAN /\ observing \in BOOLEAN /\ present \subseteq Mics
        /\ wanted \in Mics \cup Transforms \cup {Silence, None}
    BY <2>1, NowIs DEF InputInv, Typed, WantTyped, SessionTyped, Devices
  <2>3. /\ streams \in [Streams -> StreamTypes]
        /\ active \in Streams \cup {None} /\ source \in Streams \cup {None}
        /\ transform \in Transforms \cup {None} /\ dest \in Destinations \cup {None}
    BY <2>1, NowIs DEF Typed, DeviceTyped
  <2>4. /\ meeting \in {"out", "acquiring", "joining", "in"}
        /\ {input, sent} \subseteq Streams \cup Destinations \cup {None}
    BY <2>1, NowIs DEF Typed, SessionTyped, Outputs
  <2>5. phase \in {"none", "nodes", "getting", "fallback"} /\ (Quiet => phase = "none")
    BY <2>1, NowIs DEF Typed, QueueTyped, Good, PhaseInv, Quiet
  <2>6. \A i \in DOMAIN queue : queue[i].op \in {"start", "stop"}
    <3>1. queue \in Seq(Tasks)  BY <2>1, NowIs DEF Typed, QueueTyped
    <3>2. \A i \in DOMAIN queue : queue[i] \in Tasks  BY <3>1
    <3> QED  BY <3>2 DEF Tasks
  <2> QED  BY <2>2, <2>3, <2>4, <2>5, <2>6 DEF TypeOK, StreamTypes
<1> QED  BY <1>1, InputAlways, PTL

(* A stream of a microphone that is open is the one in use: whatever order  *)
(* choices, refusals, ends of devices, mutes and sessions come in, the       *)
(* device controller stops the tracks in use before it opens others          *)
(* (DefaultDeviceController's stopTracksAndRemoveCallbacks, called by        *)
(* chooseInputIntrinsicDevice), and the queue lets no second choice in       *)
(* while it waits for the browser.                                           *)
THEOREM NoLeak == Spec => []NoMicrophoneLeaks
<1>1. InputInv => NoMicrophoneLeaks
  BY NowIs DEF InputInv, Good, OneInUse, NoMicrophoneLeaks
<1> QED  BY <1>1, InputAlways, PTL

(* Once nothing waits, the device in use is the application's last choice,   *)
(* unless that was refused or undone; and a device that ended while in use   *)
(* has its replacement in the queue (DefaultDeviceController's               *)
(* startAudioInput, stopAudioInput and handleDeviceStreamEnded).             *)
THEOREM ChoiceKept == Spec => []ChoiceIsKept
<1>1. InputInv => ChoiceIsKept
  <2> SUFFICES ASSUME InputInv  PROVE ChoiceIsKept
    OBVIOUS
  <2>1. Good(Now)  BY DEF InputInv
  <2>2. LastChoiceWins
    <3> SUFFICES ASSUME Quiet, ~spoiled
                 PROVE  /\ wanted = Silence =>
                             active = None \/ streams[active].device \in {Silence, None}
                        /\ wanted \in Mics => active # None /\ streams[active].device = wanted
                        /\ wanted \in Transforms =>
                             /\ active # None /\ streams[active].device = Inner[wanted]
                             /\ transform = wanted
      BY DEF LastChoiceWins
    <3>1. ~FromApp(queue)  BY DEF Quiet, FromApp
    <3>2. Kept(Now)  BY <2>1, <3>1, NowIs DEF Good, WantInv
    <3>3. wanted # None => Has(Now, wanted)  BY <3>2, NowIs DEF Kept
    <3> QED  BY <3>3, NowIs, NamesAssumption DEF Has
  <2>3. EndedIsReplaced
    BY <2>1, NowIs DEF Good, EndedInv, EndedIsReplaced, ForEnded, EndedTask
  <2> QED  BY <2>2, <2>3 DEF ChoiceIsKept
<1> QED  BY <1>1, InputAlways, PTL

(* Once nothing waits, a session in a meeting sends the stream in use or that *)
(* of the destination node, which the microphone in use feeds; unless it was  *)
(* not told of a change, having yet to register or no peer connection        *)
(* (DefaultAudioVideoController's audioInputDidChange and                    *)
(* acquireAudioInputStream, DefaultDeviceController's startAudioInputTask).  *)
THEOREM InputSent == Spec => []SendsTheInput
<1>1. InputInv => SendsTheOutput
  <2> SUFFICES ASSUME InputInv, Quiet, meeting = "in", ~missed
               PROVE  sent # None /\ sent = Output(Now)
    BY DEF SendsTheOutput
  <2>1. SendInv(Now) /\ PhaseInv(Now)  BY DEF InputInv, Good
  <2>2. ~Asking(Now)  BY <2>1, NowIs DEF PhaseInv, Asking, Quiet
  <2>3. ~Changing(queue)  BY DEF Quiet, Changing
  <2> QED  BY <2>1, <2>2, <2>3, NowIs DEF SendInv, Agrees
<1>2. InputInv => FedByTheInput
  BY NowIs DEF InputInv, Good, FedInv, FedByTheInput
<1>3. InputInv => SendsTheInput  BY <1>1, <1>2 DEF SendsTheInput
<1> QED  BY <1>3, InputAlways, PTL
=============================================================================
