------------------------------- MODULE Realtime -------------------------------
(***************************************************************************)
(* What an application learns of the attendees of a meeting.  Audio frames  *)
(* of the signaling connection pass DefaultVolumeIndicatorAdapter, which    *)
(* knows attendees by their streams, DefaultRealtimeController, which keeps *)
(* mute and volume of everyone and calls whoever listens, and end in        *)
(* DefaultActiveSpeakerDetector.  Connections break and are replaced, and   *)
(* what is sent in between is lost.  Handlers are synchronous: a frame is   *)
(* one step, as a fold over its items.                                      *)
(***************************************************************************)
EXTENDS Naturals, Sequences, FiniteSets, SequencesExt

CONSTANTS
  Attendees, self, None,
  MaxStreams,     \* bound on the audio streams of a behaviour
  MaxFrames,      \* bound on mute frames, volume frames and reconnections
  MaxVolume,
  MaxLevel        \* the greatest active speaker score; scores are counted in steps

Streams == 1..MaxStreams
Volumes == 0..MaxVolume     \* 0 is silence, the others are above the silence threshold

ASSUME AttendeesAssumption ==
  /\ self \in Attendees
  /\ None \notin Attendees /\ None \notin BOOLEAN /\ None \notin Volumes
ASSUME BoundsAssumption == {MaxStreams, MaxFrames, MaxVolume, MaxLevel} \subseteq Nat

VARIABLES
  (* The server: its streams, the next stream id, whether its next frame lists *)
  (* all streams, whether that frame left out this client, and what it knows.  *)
  streams, nextStream, fullFrameDue, selfDue, serverMuted,
  link,                     \* signaling: down, open, or up once subscribed
  frames,                   \* mute frames, volume frames and reconnections so far
  streamIdToAttendeeId, attendeeIdToStreamId, sessionReconnected,    \* the adapter
  rt,                       \* the controller
  app,                      \* what an application has been told
  det                       \* the detector and its policy

serverVars == <<streams, nextStream, fullFrameDue, selfDue>>
adapterVars == <<streamIdToAttendeeId, attendeeIdToStreamId, sessionReconnected>>
clientVars == <<rt, app, det>>
vars == <<serverVars, serverMuted, link, frames, adapterVars, clientVars>>

Client == [rt |-> rt, app |-> app, det |-> det]
Becomes(s) == rt' = s.rt /\ app' = s.app /\ det' = s.det

Init ==
  /\ streams = [i \in Streams |-> None] /\ nextStream = 1
  /\ fullFrameDue = FALSE /\ selfDue = FALSE /\ serverMuted = FALSE
  /\ link = "open" /\ frames = 0
  /\ streamIdToAttendeeId = [i \in Streams |-> None]
  /\ attendeeIdToStreamId = [a \in Attendees |-> 0]
  /\ sessionReconnected = FALSE
  /\ rt = [attendeeIdChangesCallbacks |-> <<"app">>, muted |-> FALSE,
           indicators |-> [a \in Attendees |-> [muted |-> None, volume |-> None]],
           callbacks |-> [a \in Attendees |-> 0]]      \* how many listen to each attendee
  /\ app = [roster |-> {}, waited |-> FALSE]
  /\ det = [subscription |-> "none", volumes |-> [a \in Attendees |-> 0],
            speakerScores |-> [a \in Attendees |-> 0], known |-> <<>>,
            activeSpeakers |-> <<>>, hasBandwidthPriority |-> FALSE]

-----------------------------------------------------------------------------
(* Bug: a score falls below zero. *)
scoreWithoutFloor(volumes, attendee, loud) ==
  [volumes EXCEPT ![attendee] = IF loud /\ @ < MaxLevel THEN @ + 1 ELSE @ - 1]

(* DefaultActiveSpeakerPolicy: the score of who is heard rises and takes over *)
(* from the others, the score of who is not falls.                           *)
calculateScore(volumes, attendee, loud) ==
  [a \in Attendees |->
     IF a = attendee /\ loud
     THEN IF volumes[a] < MaxLevel THEN volumes[a] + 1 ELSE MaxLevel
     ELSE IF (a = attendee \/ loud) /\ volumes[a] > 0 THEN volumes[a] - 1 ELSE volumes[a]]

(* The attendees with a score, best first; of equals, the one known longer.   *)
Sorted(d) ==
  SetToSortSeq({a \in Range(d.known) : d.speakerScores[a] > 0},
               LAMBDA a, b : \/ d.speakerScores[a] > d.speakerScores[b]
                             \/ /\ d.speakerScores[a] = d.speakerScores[b]
                                /\ SelectInSeq(d.known, LAMBDA x : x = a)
                                     < SelectInSeq(d.known, LAMBDA x : x = b))

(* A list not yet told is taken for the empty one. *)
needUpdate(d, a) == (d.speakerScores[a] > 0) # (a \in Range(d.activeSpeakers))

updateActiveSpeakers(d, a) ==
  IF needUpdate(d, a)
  THEN [d EXCEPT !.activeSpeakers = Sorted(d),
                 !.hasBandwidthPriority = Sorted(d) # <<>> /\ Head(Sorted(d)) = self]
  ELSE d

SetScore(d, a, score) ==
  updateActiveSpeakers([d EXCEPT !.speakerScores[a] = score,
                                 !.known = IF a \in Range(@) THEN @ ELSE Append(@, a)], a)

updateScore(d, a, loud) ==
  LET heard == [d EXCEPT !.volumes = calculateScore(@, a, loud)] IN
  IF a \in Range(d.known) /\ d.speakerScores[a] = heard.volumes[a] THEN heard
  ELSE SetScore(heard, a, heard.volumes[a])

-----------------------------------------------------------------------------
(* Every callback of the attendee is the detector's.  A change that is not of *)
(* the volume comes without one, and counts as silence.                      *)
sendVolumeIndicatorChange(s, a, volume, muted) ==
  [s EXCEPT !.det =
     FoldLeft(LAMBDA d, i : updateScore(d, a, muted # TRUE /\ volume \in Volumes \ {0}),
              @, [i \in 1..s.rt.callbacks[a] |-> i])]

(* Bug: what the server says of the local attendee counts. *)
NoLocalMuteOverride(s, a, muted) == muted
applyLocalMuteOverride(s, a, muted) == IF a = self THEN s.rt.muted ELSE muted

VolumeWhenMuted(old, muted) == IF muted = TRUE /\ old.muted # TRUE THEN 0 ELSE old.volume

(* None for what a call does not say; of the signal strength, only whether it *)
(* changes.                                                                  *)
realtimeUpdateVolumeIndicator(s, a, volume, mutedRemote, signalChanges) ==
  LET old == s.rt.indicators[a]
      said == applyLocalMuteOverride(s, a, mutedRemote)
      muted == IF said = None THEN old.muted ELSE said
      heard == muted # TRUE /\ volume # None
      new == [muted |-> IF heard /\ muted = None THEN FALSE ELSE muted,
              volume |-> IF heard THEN volume ELSE VolumeWhenMuted(old, muted)]
      t == [s EXCEPT !.rt.indicators[a] = new]
  IN
  IF new = old /\ ~signalChanges THEN t
  ELSE sendVolumeIndicatorChange(t, a,
         IF new.volume = old.volume THEN None ELSE new.volume,
         IF new.muted = old.muted THEN None ELSE new.muted)

(* The subscription to an attendee's volume is answered with all that is known.*)
realtimeSubscribeToVolumeIndicator(s, a) ==
  LET t == [s EXCEPT !.rt.callbacks[a] = @ + 1]
      now == s.rt.indicators[a]
  IN IF now = [muted |-> None, volume |-> None] THEN t
     ELSE sendVolumeIndicatorChange(t, a, now.volume, now.muted)

(* The handler of the detector. *)
DetectorHandler(s, a, present) ==
  IF present THEN realtimeSubscribeToVolumeIndicator(s, a)
  ELSE [s EXCEPT !.det = SetScore(@, a, 0)]

(* WaitForAttendeePresenceTask takes its handler out of the list that is being *)
(* walked, and the walk then skips the one behind it.                         *)
Walk(listeners, a, present) ==
  LET w == SelectInSeq(listeners, LAMBDA l : l = "wait")
      found == w # 0 /\ a = self /\ present
  IN [left |-> IF found THEN RemoveAt(listeners, w) ELSE listeners,
      skipped |-> IF found /\ w < Len(listeners) THEN {listeners[w + 1]} ELSE {}]

realtimeSetAttendeeIdPresence(s, a, present) ==
  LET walk == Walk(s.rt.attendeeIdChangesCallbacks, a, present)
      called == Range(s.rt.attendeeIdChangesCallbacks) \ walk.skipped
      t == [s EXCEPT !.rt.attendeeIdChangesCallbacks = walk.left,
                     !.app.roster = IF "app" \notin called THEN @
                                    ELSE IF present THEN @ \union {a} ELSE @ \ {a}]
  IN IF "detector" \in called THEN DetectorHandler(t, a, present) ELSE t

-----------------------------------------------------------------------------
(* The items of an AudioStreamIdInfo frame, [stream, attendee, muted], in their *)
(* order.  A frame is folded over [byStream, byAttendee, client]: the maps of  *)
(* the adapter, and the client it calls.                                     *)
Item(stream, a, muted) == [stream |-> stream, attendee |-> a, muted |-> muted]

Joins(t, item) ==
  [byStream |-> [t.byStream EXCEPT ![item.stream] = item.attendee],
   byAttendee |-> [t.byAttendee EXCEPT ![item.attendee] = item.stream],
   client |-> realtimeSetAttendeeIdPresence(t.client, item.attendee, TRUE)]

HasNewStream(byStream, a, stream) == \E i \in Streams : i > stream /\ byStream[i] = a

Leaves(t, item) ==
  LET a == t.byStream[item.stream]
      byStream == [t.byStream EXCEPT ![item.stream] = None]
  IN
  IF a = None THEN t
  ELSE [byStream |-> byStream,
        byAttendee |-> IF t.byAttendee[a] = item.stream THEN [t.byAttendee EXCEPT ![a] = 0]
                       ELSE t.byAttendee,
        client |-> IF HasNewStream(byStream, a, item.stream) THEN t.client
                   ELSE realtimeSetAttendeeIdPresence(t.client, a, FALSE)]

Mutes(t, item) ==
  [t EXCEPT !.client = realtimeUpdateVolumeIndicator(@, t.byStream[item.stream], None, item.muted, FALSE)]

(* Stream 0 stands for a stream the frame does not list. *)
InfoItem(t, item) ==
  IF item.stream = 0 THEN t
  ELSE LET joined == IF item.attendee = None THEN t ELSE Joins(t, item) IN
       IF item.muted # None THEN Mutes(joined, item)
       ELSE IF item.attendee = None THEN Leaves(t, item) ELSE joined

(* The frame after a reconnection need not list the local attendee, who is not *)
(* told as gone.                                                             *)
Delete(t, a) ==
  [byStream |-> [i \in Streams |-> IF i = t.byAttendee[a] THEN None ELSE t.byStream[i]],
   byAttendee |-> [t.byAttendee EXCEPT ![a] = 0],
   client |-> IF a = self THEN t.client ELSE realtimeSetAttendeeIdPresence(t.client, a, FALSE)]

(* Bug: who left while there was no connection is forgotten. *)
NoCleanUp(t, listed) == t
(* Of an attendee with several streams the latest goes, the others stay.      *)
cleanUpState(t, listed) ==
  FoldLeft(LAMBDA u, a : IF a = None \/ a \in listed THEN u ELSE Delete(u, a), t, t.byStream)

Listed(items) == {i.attendee : i \in Range(items)}

sendRealtimeUpdatesForAudioStreamIdInfo(items) ==
  LET told == FoldLeft(InfoItem, [byStream |-> streamIdToAttendeeId,
                                  byAttendee |-> attendeeIdToStreamId, client |-> Client], items)
      clean == IF sessionReconnected THEN cleanUpState(told, Listed(items)) ELSE told
  IN
  /\ streamIdToAttendeeId' = clean.byStream
  /\ attendeeIdToStreamId' = clean.byAttendee
  /\ sessionReconnected' = FALSE
  /\ Becomes(clean.client)

(* Who is in volumes has that volume, everyone else has none. *)
sendRealtimeUpdatesForAudioMetadata(volumes, signalChanges) ==
  Becomes(FoldLeft(LAMBDA s, a : IF a = None THEN s
                                 ELSE realtimeUpdateVolumeIndicator(s, a, volumes[a], None, a \in signalChanges),
                   Client, streamIdToAttendeeId))

-----------------------------------------------------------------------------
StreamsOf(a) == {i \in Streams : streams[i] = a}
Oldest(a) == CHOOSE i \in StreamsOf(a) : \A j \in StreamsOf(a) : i <= j
Listening == link = "up" /\ ~fullFrameDue

(* An attendee has a new stream.  One that has another already has joined     *)
(* again, from elsewhere.  Frames are received on a subscribed connection.    *)
AttendeeJoins ==
  /\ nextStream \in Streams
  /\ nextStream' = nextStream + 1
  /\ \E a \in Attendees \ {self}, muted \in {FALSE, None} :
       /\ streams' = [streams EXCEPT ![nextStream] = a]
       /\ IF Listening
          THEN sendRealtimeUpdatesForAudioStreamIdInfo(<<Item(nextStream, a, muted)>>)
          ELSE muted = None /\ UNCHANGED <<adapterVars, clientVars>>
  /\ UNCHANGED <<fullFrameDue, selfDue, serverMuted, link, frames>>

(* The older stream of an attendee ends first. *)
AttendeeLeaves ==
  /\ \E a \in Attendees \ {self} :
       /\ StreamsOf(a) # {}
       /\ streams' = [streams EXCEPT ![Oldest(a)] = None]
       /\ IF Listening
          THEN sendRealtimeUpdatesForAudioStreamIdInfo(<<Item(Oldest(a), None, None)>>)
          ELSE UNCHANGED <<adapterVars, clientVars>>
  /\ UNCHANGED <<nextStream, fullFrameDue, selfDue, serverMuted, link, frames>>

AttendeeMutes ==
  /\ Listening /\ frames < MaxFrames
  /\ frames' = frames + 1
  /\ \E i \in Streams, muted \in BOOLEAN :
       /\ streams[i] # None
       /\ streams[i] = self => ~selfDue
       /\ sendRealtimeUpdatesForAudioStreamIdInfo(<<Item(i, None, muted)>>)
  /\ UNCHANGED <<serverVars, serverMuted, link>>

(* The first frame of a connection lists everyone, but maybe not this client.  *)
FullFrame ==
  /\ link = "up" /\ fullFrameDue
  /\ fullFrameDue' = FALSE
  /\ \E withSelf \in BOOLEAN :
       /\ selfDue' = ~withSelf
       /\ sendRealtimeUpdatesForAudioStreamIdInfo(
            [i \in Streams |-> IF streams[i] \in IF withSelf THEN {None} ELSE {None, self}
                               THEN Item(0, None, None) ELSE Item(i, streams[i], None)])
  /\ UNCHANGED <<streams, nextStream, serverMuted, link, frames>>

SelfFrame ==
  /\ Listening /\ selfDue
  /\ selfDue' = FALSE
  /\ sendRealtimeUpdatesForAudioStreamIdInfo(<<Item(Oldest(self), self, None)>>)
  /\ UNCHANGED <<streams, nextStream, fullFrameDue, serverMuted, link, frames>>

VolumeFrame ==
  /\ link = "up" /\ frames < MaxFrames
  /\ frames' = frames + 1
  /\ \E volumes \in [Attendees -> Volumes], signalChanges \in SUBSET Attendees :
       /\ \A a \in Attendees : volumes[a] # 0 => StreamsOf(a) # {} /\ a \notin signalChanges
       /\ sendRealtimeUpdatesForAudioMetadata(volumes, signalChanges)
  /\ UNCHANGED <<serverVars, serverMuted, link, adapterVars>>

-----------------------------------------------------------------------------
LinkLost ==
  /\ link # "down" /\ link' = "down"
  /\ UNCHANGED <<serverVars, serverMuted, frames, adapterVars, clientVars>>

(* actionReconnect, up to the open connection.  The old one may still be up.   *)
(* (To try again with a connection just opened changes nothing.)              *)
Reconnect ==
  /\ link # "open"
  /\ frames < MaxFrames /\ frames' = frames + 1
  /\ link' = "open"
  /\ sessionReconnected' = TRUE
  /\ UNCHANGED <<serverVars, serverMuted, streamIdToAttendeeId, attendeeIdToStreamId, clientVars>>

audioMuted == rt.muted

(* The server gives this client a stream, the one it had or another.          *)
Subscribe ==
  /\ link = "open" /\ link' = "up"
  /\ serverMuted' = audioMuted
  /\ fullFrameDue' = TRUE /\ selfDue' = TRUE
  /\ \/ /\ StreamsOf(self) # {}
        /\ UNCHANGED <<streams, nextStream>>
     \/ /\ nextStream \in Streams
        /\ nextStream' = nextStream + 1
        /\ streams' = [i \in Streams |-> IF i = nextStream THEN self
                                         ELSE IF streams[i] = self THEN None ELSE streams[i]]
  /\ UNCHANGED <<frames, adapterVars, clientVars>>

(* ListenForVolumeIndicatorsTask tells the server, over an open connection.    *)
SetMuted(muted) ==
  /\ Becomes(realtimeUpdateVolumeIndicator([Client EXCEPT !.rt.muted = muted], self, None, None, FALSE))
  /\ serverMuted' = IF link = "down" THEN serverMuted ELSE muted
  /\ UNCHANGED <<serverVars, link, frames, adapterVars>>

realtimeMuteLocalAudio == ~rt.muted /\ SetMuted(TRUE)
(* Allowed to: realtimeSetCanUnmuteLocalAudio is left out. *)
realtimeUnmuteLocalAudio == rt.muted /\ SetMuted(FALSE)

realtimeSubscribeToAttendeeIdPresence(listener) ==
  rt' = [rt EXCEPT !.attendeeIdChangesCallbacks = Append(@, listener)]
realtimeUnsubscribeToAttendeeIdPresence(listener) ==
  rt' = [rt EXCEPT !.attendeeIdChangesCallbacks = RemoveFirst(@, listener)]

(* WaitForAttendeePresenceTask, at most once: only the first connection waits,  *)
(* most often for the first frame with attendees.                             *)
WaitForAttendeePresence ==
  /\ link = "up" /\ fullFrameDue /\ ~app.waited /\ ~sessionReconnected
  /\ realtimeSubscribeToAttendeeIdPresence("wait")
  /\ app' = [app EXCEPT !.waited = TRUE]
  /\ UNCHANGED <<serverVars, serverMuted, link, frames, adapterVars, det>>

DetectorSubscribes ==
  /\ det.subscription = "none"
  /\ realtimeSubscribeToAttendeeIdPresence("detector")
  /\ det' = [det EXCEPT !.subscription = "on"]
  /\ UNCHANGED <<serverVars, serverMuted, link, frames, adapterVars, app>>

(* The callbacks of volumes stay. *)
DetectorUnsubscribes ==
  /\ det.subscription = "on"
  /\ realtimeUnsubscribeToAttendeeIdPresence("detector")
  /\ det' = [det EXCEPT !.subscription = "off"]
  /\ UNCHANGED <<serverVars, serverMuted, link, frames, adapterVars, app>>

(* Bug: the timer leaves alone who is on the list. *)
IdleAttendees(d) == Range(d.known) \ Range(d.activeSpeakers)
KnownAttendees(d) == Range(d.known)

(* The activity timer finds that there was no update of an attendee for the   *)
(* wait interval, and lowers the score.  Attendees do not affect each other   *)
(* then, so each has a step of its own.                                      *)
ActivityTimer(a) ==
  /\ det.subscription = "on"
  /\ a \in KnownAttendees(det)
  /\ det' = updateScore(det, a, FALSE)
  /\ UNCHANGED <<serverVars, serverMuted, link, frames, adapterVars, rt, app>>

Next ==
  \/ AttendeeJoins \/ AttendeeLeaves \/ AttendeeMutes \/ FullFrame \/ SelfFrame \/ VolumeFrame
  \/ LinkLost \/ Reconnect \/ Subscribe
  \/ realtimeMuteLocalAudio \/ realtimeUnmuteLocalAudio
  \/ WaitForAttendeePresence \/ DetectorSubscribes \/ DetectorUnsubscribes
  \/ \E a \in Attendees : ActivityTimer(a)

(* The interval fires for as long as it is not stopped.  Updates could keep it *)
(* from an attendee; those without a volume lower the score themselves.        *)
Fairness == \A a \in Attendees : WF_vars(ActivityTimer(a))

Spec == Init /\ [][Next]_vars /\ Fairness

-----------------------------------------------------------------------------
TypeOK ==
  /\ streams \in [Streams -> Attendees \union {None}] /\ nextStream \in 1..MaxStreams + 1
  /\ {fullFrameDue, selfDue, serverMuted, sessionReconnected} \subseteq BOOLEAN
  /\ link \in {"down", "open", "up"} /\ frames \in 0..MaxFrames
  /\ streamIdToAttendeeId \in [Streams -> Attendees \union {None}]
  /\ attendeeIdToStreamId \in [Attendees -> 0..MaxStreams]
  /\ rt.indicators \in [Attendees -> [muted : BOOLEAN \union {None}, volume : Volumes \union {None}]]
  /\ rt.callbacks \in [Attendees -> Nat] /\ rt.muted \in BOOLEAN
  /\ app.roster \subseteq Attendees
  /\ det.volumes \in [Attendees -> 0..MaxLevel] /\ det.speakerScores \in [Attendees -> 0..MaxLevel]
  /\ det.known \in Seq(Attendees)

(* Once the frames of a connection are in, an application that listens from    *)
(* the start has the attendees the server has, whoever joined again, left *)
(* or was missed while there was no connection (realtimeSubscribeToAttendeeId-*)
(* Presence, DefaultVolumeIndicatorAdapter).                                 *)
RosterMatches ==
  Listening /\ ~selfDue =>
    app.roster = {streams[i] : i \in Streams} \ {None}

(* Local state overrides remote state (tenet 9 of DefaultRealtimeController): *)
(* whatever the server says late, the local indicator shows the local mute;   *)
(* and nobody who is muted shows a volume.                                   *)
LocalMuteRules ==
  /\ rt.indicators[self].muted \in {rt.muted, None}
  /\ \A a \in Attendees : rt.indicators[a].muted = TRUE => rt.indicators[a].volume \in {0, None}

(* A subscribed connection knows whether the client is muted, also when that  *)
(* changed without a connection or while one was set up.                     *)
ServerKnowsMute == link = "up" => serverMuted = rt.muted

(* This client and the server agree on whether it is muted, and what is shown *)
(* of it follows (realtimeMuteLocalAudio, applyLocalMuteOverride).            *)
MuteAgrees == LocalMuteRules /\ ServerKnowsMute

(* Volume frames end at some time (MaxFrames), and in silence the list becomes *)
(* empty and stays so, as long as the detector is subscribed: also of those   *)
(* last heard speaking, and of those who left while they did.                *)
SilenceEmpties == <>[](det.subscription = "on") => <>[](det.activeSpeakers = <<>>)

=============================================================================
