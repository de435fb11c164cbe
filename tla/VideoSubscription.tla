--------------------------- MODULE VideoSubscription ---------------------------
(***************************************************************************)
(* The remote video of a meeting, from the index the server sends to the    *)
(* tiles the application shows: ReceiveVideoStreamIndexTask and MonitorTask *)
(* ask the downlink policy for the streams to receive, and update() of      *)
(* DefaultAudioVideoController switches simulcast streams in place or       *)
(* negotiates again, in steps between which index frames, reports and calls *)
(* arrive.  A transceiver is its position in the peer connection and, once  *)
(* it has one, its mid.  The policy is AllHighestVideoBandwidthPolicy.      *)
(***************************************************************************)
EXTENDS Integers, SequencesExt, FiniteSetsExt

CONSTANTS
  Streams,              \* stream IDs of other attendees
  Attendee, Group,      \* who sends a stream, and which publication (never used again) it is of
  FirstFrames, Indexes, \* the indexes the meeting may begin with, and all the server may send
  Limit,                \* videoSubscriptionLimit
  Nobody,               \* the attendee of a track that is not known
  NoSet,                \* null, where a set of streams may be
  MaxEvents             \* bound on index frames, calls and failures together

Attendees == {Attendee[x] : x \in Streams}
ASSUME StreamsAssumption ==
  /\ Streams \subseteq Nat \ {0} /\ IsFiniteSet(Streams) /\ Limit \in Nat \ {0}
  /\ FirstFrames \subseteq Indexes /\ Indexes \subseteq SUBSET Streams
  /\ Nobody \notin Attendees /\ \A S \in SUBSET Streams : NoSet # S
  /\ \A x \in Streams : Group[x] \in Nat \ {0}
  /\ \A x, y \in Streams : Group[x] = Group[y] => Attendee[x] = Attendee[y]

VARIABLES
  canStop,        \* the browser has RTCRtpTransceiver.stop
  lastFrame, retired,   \* the server's last index; the publications that ended
  server, answer, \* what the server sends on each mid; what its last answer said
  session,        \* starting or, to reconnect, connecting; connected; updating
  step,           \* the next task of the negotiation, or none
  restarting,     \* restartLocalVideo will negotiate once more
  others,         \* step and restarting of each further negotiation that is under way
  deferred,       \* the deferred action of the session state controller
  retrying,       \* a reconnection waits for its backoff
  current, forSubscribe,  \* currentIndex, indexForSubscribe
  track,          \* subscribeTrackToStreamMap: stream of each mid, 0 where there is none
  receive, last,  \* videosToReceive, lastVideosToReceive
  optimal, subscribed, chosen,    \* the policy's receive sets and its videoSources
  indexPaused, pendingIndex, monitorPaused, pendingReport,
  trans,          \* the transceivers for remote video, in the peer connection's order
  map,            \* streamIdToTransceiver: its position, or the mid it had in a closed peer
  attached,       \* the streams of videoSubscriptions, while they are negotiated
  tiles,          \* remote tiles: position of the transceiver, attendee, stream
  events,
  raced,          \* history: on this connection a negotiation was overtaken by an index, a
                  \* report or another negotiation, streams were not dropped, sections
                  \* attached twice or taken over by another stream, or a stream switched
                  \* that its section had not
  misaligned      \* history: a subscribe did not line up with the media sections

vars == <<canStop, lastFrame, retired, server, answer, session, step, restarting, others,
          deferred, retrying, current, forSubscribe, track, receive, last, optimal, subscribed,
          chosen, indexPaused, pendingIndex, monitorPaused, pendingReport, trans, map,
          attached, tiles, events, raced, misaligned>>

Now == [server |-> server, answer |-> answer, session |-> session, step |-> step,
        restarting |-> restarting, others |-> others, deferred |-> deferred,
        retrying |-> retrying,
        current |-> current, forSubscribe |-> forSubscribe, track |-> track,
        receive |-> receive, last |-> last, optimal |-> optimal, subscribed |-> subscribed,
        chosen |-> chosen, indexPaused |-> indexPaused, pendingIndex |-> pendingIndex,
        monitorPaused |-> monitorPaused, pendingReport |-> pendingReport, trans |-> trans,
        map |-> map, attached |-> attached, tiles |-> tiles, raced |-> raced,
        misaligned |-> misaligned]

Becomes(next) == \E s \in {next} :
  /\ server' = s.server /\ answer' = s.answer /\ session' = s.session /\ step' = s.step
  /\ restarting' = s.restarting /\ others' = s.others
  /\ deferred' = s.deferred /\ retrying' = s.retrying
  /\ current' = s.current /\ forSubscribe' = s.forSubscribe
  /\ track' = s.track /\ receive' = s.receive /\ last' = s.last /\ optimal' = s.optimal
  /\ subscribed' = s.subscribed /\ chosen' = s.chosen /\ indexPaused' = s.indexPaused
  /\ pendingIndex' = s.pendingIndex /\ monitorPaused' = s.monitorPaused
  /\ pendingReport' = s.pendingReport /\ trans' = s.trans /\ map' = s.map
  /\ attached' = s.attached /\ tiles' = s.tiles /\ raced' = s.raced
  /\ misaligned' = s.misaligned

Absent == [at |-> 0, mid |-> -1]
New == [dir |-> "recvonly", mid |-> FALSE, receiving |-> FALSE]

Init ==
  /\ canStop \in BOOLEAN
  /\ lastFrame \in FirstFrames /\ retired = {}
  /\ server = <<>> /\ answer = <<>>
  /\ session = "starting" /\ step = "attach" /\ restarting = FALSE /\ others = <<>>
  /\ deferred = "none" /\ retrying = FALSE
  /\ current = {} /\ forSubscribe = {} /\ track = <<>>
  /\ receive = {} /\ last = NoSet /\ optimal = {} /\ subscribed = {} /\ chosen = NoSet
  /\ indexPaused = TRUE /\ pendingIndex = lastFrame
  /\ monitorPaused = TRUE /\ pendingReport = FALSE
  /\ trans = <<>> /\ map = [x \in Streams |-> Absent] /\ attached = {} /\ tiles = {}
  /\ events = 0 /\ raced = FALSE /\ misaligned = FALSE

-----------------------------------------------------------------------------
(* The stream index and the policy *)
(* Bug: the group of a stale connection is kept as well. *)
integrateAll(frame) == frame
(* Of an attendee's groups only the highest is kept. *)
integrateIndexFrame(frame) ==
  {x \in frame : \A y \in frame : Attendee[y] = Attendee[x] => Group[y] <= Group[x]}

(* The bitrate of a stream grows with its ID. *)
highestQualityStreamFromEachGroup(index) ==
  {x \in index : \A y \in index : Group[y] = Group[x] => y <= x}

calculateOptimalReceiveSet(index, sources) ==
  {x \in highestQualityStreamFromEachGroup(index) : sources = NoSet \/ Attendee[x] \in sources}

truncate(S) == {x \in S : Cardinality({y \in S : y < x}) < Limit}

wantsResubscribe(s) == s.subscribed # s.optimal
(* A policy that was reset and finds nothing to receive takes the streams of *)
(* before to be dropped already.                                             *)
Noticed(s) == s.subscribed = {} => s.receive = {}

streamIdForTrack(s, i) == IF i \in DOMAIN s.track THEN s.track[i] ELSE 0
(* Only the groups of these two indexes are known; two unknown ones are the same. *)
groupIdForStreamId(s, x) ==
  IF x \in s.current \cup s.forSubscribe THEN Group[x] ELSE 0
StreamIdsInSameGroup(s, x, y) == groupIdForStreamId(s, x) = groupIdForStreamId(s, y)

-----------------------------------------------------------------------------
(* The transceiver controller *)
(* -1 is undefined and 0 null: there is no transceiver, it has no mid yet. *)
getMidForStreamId(s, x) ==
  LET e == s.map[x]
  IN IF e.at = 0 THEN e.mid ELSE IF s.trans[e.at].mid THEN e.at ELSE 0

setStreamIdForMid(s, mid, x) ==
  LET same == {y \in Streams : getMidForStreamId(s, y) = mid}
      old == {y \in same : s.map[y].at = 0}
      y == CHOOSE y \in Streams : y \in (IF old # {} THEN old ELSE same)
  IN IF same = {} THEN s
     ELSE [s EXCEPT !.map = [[@ EXCEPT ![y] = Absent] EXCEPT ![x] = s.map[y]]]

(* The stream of the same group that a transceiver takes over, or 0 *)
Active(s, i) ==
  s.trans[i].dir \in {"recvonly", "stopped"} /\ s.trans[i].mid /\ streamIdForTrack(s, i) # 0
Takes(s, i) ==
  LET same(r, j) == StreamIdsInSameGroup(s, streamIdForTrack(s, j), r)
      y == {r \in s.receive : same(r, i) /\ \A j \in 1..i-1 : ~(Active(s, j) /\ same(r, j))}
  IN IF Active(s, i) /\ y # {} THEN CHOOSE r \in y : TRUE ELSE 0

Taken(s) == {Takes(s, i) : i \in DOMAIN s.trans}
Rank(S, x) == Cardinality({y \in S : y <= x})

(* The inactive transceivers are filled with the streams that remain, in order. *)
Free(s) == {i \in DOMAIN s.trans : s.trans[i].dir = "inactive"}
Remaining(s) == s.receive \ Taken(s)
(* Bug: a slot is free as soon as its stream is no longer wanted. *)
FillsAtOnce(s, i) ==
  LET free == {j \in DOMAIN s.trans : Takes(s, j) = 0}
      x == {r \in Remaining(s) : Rank(Remaining(s), r) = Rank(free, i)}
  IN IF i \in free /\ x # {} THEN CHOOSE r \in x : TRUE ELSE 0
Fills(s, i) ==
  LET x == {r \in Remaining(s) : Rank(Remaining(s), r) = Rank(Free(s), i)}
  IN IF i \in Free(s) /\ x # {} THEN CHOOSE r \in x : TRUE ELSE 0

Gets(s, i) ==
  IF Takes(s, i) # 0 THEN Takes(s, i) ELSE IF canStop THEN 0 ELSE Fills(s, i)

(* Stopping a transceiver, or making it inactive *)
Released(s, i) ==
  Gets(s, i) = 0 /\ (IF canStop THEN s.trans[i].mid ELSE TRUE) /\ s.trans[i].dir # "gone"

updateVideoTransceivers(s) ==
  LET n == Len(s.trans)
      added == s.receive \ {Gets(s, i) : i \in 1..n}
      At(x) == IF x \in added THEN n + Rank(added, x)
               ELSE CHOOSE i \in 1..n : Gets(s, i) = x
      Dropped(x) == \E i \in 1..n :
        \/ Takes(s, i) # 0 /\ streamIdForTrack(s, i) = x
        \/ Released(s, i) /\ IF canStop THEN getMidForStreamId(s, x) = i ELSE s.map[x].at = i
  IN [s EXCEPT
        !.trans = [i \in 1..n |->
                    [s.trans[i] EXCEPT !.dir = IF Gets(s, i) # 0 THEN "recvonly"
                       ELSE IF Released(s, i) THEN (IF canStop THEN "stopped" ELSE "inactive")
                       ELSE @]]
                  \o [k \in 1..Cardinality(added) |-> New],
        !.map = [x \in Streams |->
                   IF x \in s.receive THEN [at |-> At(x), mid |-> 0]
                   ELSE IF Dropped(x) THEN Absent ELSE s.map[x]],
        !.attached = s.receive,
        !.raced = @ \/ \E i \in 1..n : Takes(s, i) \notin {0, streamIdForTrack(s, i)}]

-----------------------------------------------------------------------------
(* The session state controller and update *)
Begin(s) == [s EXCEPT !.session = "updating", !.step = "attach",
                      !.indexPaused = TRUE, !.monitorPaused = TRUE]

(* CleanRestartedSession: the tracks of the closed peer end, and their tiles go. *)
BeginReconnect(s) ==
  [s EXCEPT !.session = "connecting", !.step = "rejoin",
            !.map = [x \in Streams |-> [at |-> 0, mid |-> getMidForStreamId(s, x)]],
            !.trans = <<>>, !.tiles = {}, !.server = <<>>, !.answer = <<>>,
            !.optimal = {}, !.subscribed = {}, !.chosen = NoSet,
            !.raced = ~(s.receive \subseteq s.current) \/ s.others # <<>>]

perform(s, action) ==
  CASE s.session = "connected" /\ action = "update" -> Begin(s)
    [] s.session = "connected" /\ action = "reconnect" -> BeginReconnect(s)
    [] OTHER -> [s EXCEPT !.deferred = IF @ = "reconnect" THEN @ ELSE action]

performDeferredAction(s) ==
  IF s.deferred = "none" THEN s ELSE perform([s EXCEPT !.deferred = "none"], s.deferred)

(* The streams that replace another of their group, and those they replace *)
Switched(s) == {x \in s.receive \ s.last : \E y \in s.last : StreamIdsInSameGroup(s, x, y)}
Replaced(s, x) == CHOOSE y \in s.last : StreamIdsInSameGroup(s, x, y)

TileAttendee(s, x) == IF x \in s.current THEN Attendee[x] ELSE Nobody

switchStream(s, y, x, mid) ==
  LET k == {i \in DOMAIN s.track : s.track[i] = y}
  IN [setStreamIdForMid(s, mid, x) EXCEPT
        !.track = [i \in DOMAIN @ |-> IF i \in k /\ \A j \in k : i <= j THEN x ELSE @[i]],
        !.tiles = {IF e.attendee = TileAttendee(s, x) THEN [e EXCEPT !.stream = x] ELSE e :
                     e \in @},
        !.raced = @ \/ streamIdForTrack(s, mid) # y]

(* The state while streams are switched, and what the server is to be told.  *)
(* When a mid is not known the streams before have been switched, but the   *)
(* server is not told.                                                      *)
SwitchOne(s, r, x) ==
  LET mid == getMidForStreamId(r.state, Replaced(s, x))
  IN IF ~r.done \/ mid = -1 THEN [r EXCEPT !.done = FALSE]
     ELSE [done |-> TRUE, state |-> switchStream(r.state, Replaced(s, x), x, mid),
           sent |-> r.sent \cup {[mid |-> mid, stream |-> x]}]

SwitchAll(s) ==
  LET r == MapThenFoldSet(LAMBDA x, q : SwitchOne(s, q, x),
                          [done |-> TRUE, state |-> s, sent |-> {}],
                          LAMBDA x : x, LAMBDA T : Max(T), Switched(s))
      sent(i) == {e \in r.sent : e.mid = i}
  IN IF ~r.done THEN [done |-> FALSE, state |-> r.state]
     ELSE [done |-> TRUE,
           state |-> [r.state EXCEPT !.server =
             [i \in DOMAIN @ |-> IF sent(i) = {} THEN @[i]
                                ELSE (CHOOSE e \in sent(i) : TRUE).stream]]]

updateRemoteVideosFromLastVideosToReceive(s) ==
  IF s.receive = {} \/ s.last \in {{}, NoSet} THEN [done |-> FALSE, state |-> s]
  ELSE LET r == SwitchAll(s)
           added == (s.receive \ s.last) \ Switched(s)
           removed == (s.last \ s.receive) \ {Replaced(s, x) : x \in Switched(s)}
       IN [r EXCEPT !.done = @ /\ added = {} /\ removed = {}]

update(s) == perform([s EXCEPT !.last = s.receive], "update")

(* An update that is done without a negotiation; it is to be finished then.  *)
(* What was tried, r, is the only one to choose.                            *)
updateInPlace(s) ==
  LET tried(r) ==
        LET t == [r.state EXCEPT !.last = s.receive]
        IN [done |-> r.done, state |-> IF r.done THEN t ELSE perform(t, "update")]
  IN CHOOSE u \in {tried(r) : r \in {updateRemoteVideosFromLastVideosToReceive(s)}} : TRUE
NoUpdate(s) == [done |-> FALSE, state |-> s]

(* What must not happen from the choice of transceivers to the answer *)
Negotiating(s) == s.step \in {"describe", "subscribe", "ack", "answer"}

ingest(s, frame) ==
  LET index == integrateIndexFrame(frame)
      t == [s EXCEPT !.indexPaused = FALSE, !.pendingIndex = NoSet, !.current = index,
                     !.optimal = calculateOptimalReceiveSet(index, s.chosen),
                     !.raced = @ \/ Negotiating(s)]
  IN IF wantsResubscribe(t)
     THEN updateInPlace([t EXCEPT !.subscribed = t.optimal, !.receive = truncate(t.optimal)])
     ELSE NoUpdate([t EXCEPT !.raced = @ \/ ~Noticed(t)])

resubscribe(s) ==
  LET t == [s EXCEPT !.monitorPaused = FALSE, !.pendingReport = FALSE]
  IN IF wantsResubscribe(t)
     THEN updateInPlace([t EXCEPT !.subscribed = t.optimal, !.receive = t.optimal,
                                  !.raced = @ \/ Negotiating(s)])
     ELSE NoUpdate(t)

resumeResubscribeCheck(s) ==
  IF s.monitorPaused /\ s.pendingReport THEN resubscribe(s)
  ELSE NoUpdate([s EXCEPT !.monitorPaused = FALSE])

resumeIngestion(s) ==
  IF s.indexPaused /\ s.pendingIndex # NoSet THEN ingest(s, s.pendingIndex)
  ELSE NoUpdate([s EXCEPT !.indexPaused = FALSE])

(* Resuming may update in place, and finishing that resumes both before the  *)
(* rest is resumed: calls are the resumptions to come, the innermost first. *)
resumeNext(r) ==
  LET q == IF Head(r.calls) = "check" THEN resumeResubscribeCheck(r.state)
           ELSE resumeIngestion(r.state)
  IN IF r.calls = <<>> THEN r
     ELSE [state |-> q.state,
           calls |-> IF q.done THEN <<"check", "ingestion">> \o Tail(r.calls) ELSE Tail(r.calls)]

(* What waits is done once, so there are six at most: two, and two more for  *)
(* a frame and for a report that waited.                                    *)
resume(s, calls) ==
  LET after[n \in 0..6] ==
        IF n = 0 THEN [state |-> s, calls |-> calls] ELSE resumeNext(after[n - 1])
  IN after[6].state

actionFinishUpdating(s) == resume(s, <<"check", "ingestion">>)
actionFinishConnecting(s) == resume(s, <<"ingestion", "check">>)
finish(r) == IF ~r.done THEN r.state ELSE actionFinishUpdating(r.state)

(* Bug: a frame that cannot be handled yet is dropped. *)
handleIfReady(s, frame) == IF s.indexPaused THEN s ELSE finish(ingest(s, frame))
handleIndexFrame(s, frame) ==
  IF s.indexPaused THEN [s EXCEPT !.pendingIndex = frame] ELSE finish(ingest(s, frame))

checkResubscribe(s) ==
  IF s.monitorPaused THEN [s EXCEPT !.pendingReport = TRUE] ELSE finish(resubscribe(s))

-----------------------------------------------------------------------------
(* The steps of a negotiation *)
Fixed == UNCHANGED <<canStop, lastFrame, retired>>
Unchanged == Fixed /\ UNCHANGED events

(* A transceiver that has been stopped cannot be taken over: its direction throws. *)
Throws(s) == \E i \in DOMAIN s.trans : s.trans[i].dir = "stopped" /\ Takes(s, i) # 0

AttachMediaInput(s) == [updateVideoTransceivers(s) EXCEPT !.step = "describe"]

SetLocalDescription(s) ==
  [s EXCEPT !.step = "subscribe",
            !.trans = [i \in DOMAIN @ |-> [@[i] EXCEPT !.mid = s.trans[i].dir # "gone"]]]

(* The stream of each media section, inactive ones 0.  A section whose      *)
(* stream is not known is left out, and those after it move up.             *)
Section(s, i) ==
  LET x == {y \in s.attached : getMidForStreamId(s, y) = i}
  IN IF s.trans[i].dir # "recvonly" THEN 0 ELSE IF x = {} THEN -1 ELSE CHOOSE y \in x : TRUE
fixUpSubscriptionOrder(s) ==
  LET kept == {i \in DOMAIN s.trans : Section(s, i) # -1}
  IN [k \in 1..Cardinality(kept) |-> Section(s, CHOOSE i \in kept : Rank(kept, i) = k)]

(* What the server sends on each mid: the streams line up with the sections, *)
(* and a stream is sent as long as its publication goes on.                  *)
Groups(S) == {Group[x] : x \in S}
Live(x) == x # 0 /\ Group[x] \in Groups(lastFrame)
Sends(s, subscriptions) ==
  [i \in DOMAIN s.trans |->
     IF i <= Len(subscriptions) /\ Live(subscriptions[i]) THEN subscriptions[i] ELSE 0]

Subscribe(s) ==
  LET subscriptions == fixUpSubscriptionOrder(s)
      sends == Sends(s, subscriptions)
  IN [s EXCEPT !.step = "ack", !.forSubscribe = s.current, !.server = sends, !.answer = sends,
               !.misaligned = @ \/ Len(subscriptions) # Len(s.trans)]

ReceiveSubscribeAck(s) == [s EXCEPT !.step = "answer", !.track = s.answer]

(* A task of the negotiation that is neither the last nor fails              *)
MayProceed(s) == s.step \in {"describe", "subscribe", "ack"} \/ (s.step = "attach" /\ ~Throws(s))
Proceed(s) ==
  CASE s.step = "attach" -> AttachMediaInput(s)
    [] s.step = "describe" -> SetLocalDescription(s)
    [] s.step = "subscribe" -> Subscribe(s)
    [] s.step = "ack" -> ReceiveSubscribeAck(s)

(* setRemoteDescription: tracks that are no longer received are removed,    *)
(* then the new ones are added.                                             *)
Receives(s, i) == s.trans[i].dir = "recvonly" /\ i \in DOMAIN s.answer /\ s.answer[i] # 0

attendeeIdForTrack(s, i) ==
  LET x == streamIdForTrack(s, i) IN IF x \in s.forSubscribe THEN Attendee[x] ELSE Nobody

addRemoteVideoTracks(s, added) ==
  LET kept == {e \in s.tiles : Receives(s, e.at)}
      mine(i) == /\ \A e \in kept : e.attendee # attendeeIdForTrack(s, i)
                 /\ \A j \in added : j < i => attendeeIdForTrack(s, j) # attendeeIdForTrack(s, i)
  IN kept \cup {[at |-> i, attendee |-> attendeeIdForTrack(s, i),
                 stream |-> streamIdForTrack(s, i)] : i \in {j \in added : mine(j)}}

SetRemote(s) ==
  [s EXCEPT
     !.tiles = addRemoteVideoTracks(s, {i \in DOMAIN s.trans :
                                          Receives(s, i) /\ ~s.trans[i].receiving}),
     !.trans = [i \in DOMAIN @ |->
                  IF @[i].dir = "stopped" THEN [dir |-> "gone", mid |-> FALSE, receiving |-> FALSE]
                  ELSE [@[i] EXCEPT !.receiving = Receives(s, i)]]]

(* Bug: what waited for the transition is not done. *)
FinishOnly(s) == [s EXCEPT !.session = "connected", !.step = "none"]
Finish(s) ==
  LET t == [s EXCEPT !.session = "connected", !.step = "none",
                     !.answer = IF s.others = <<>> THEN <<>> ELSE @,
                     !.attached = IF s.others = <<>> THEN {} ELSE @]
  IN performDeferredAction(IF s.session = "updating" THEN actionFinishUpdating(t)
                           ELSE actionFinishConnecting(t))

(* The second half of restartLocalVideo: the local tile is started, and what *)
(* is negotiated now ends the update.                                       *)
Paused(s) == [s EXCEPT !.indexPaused = TRUE, !.monitorPaused = TRUE]
RestartAgain(s) == Paused(update([s EXCEPT !.step = "attach", !.restarting = FALSE]))

SetRemoteDescription(s) ==
  IF s.restarting THEN RestartAgain(SetRemote(s)) ELSE Finish(SetRemote(s))

-----------------------------------------------------------------------------
(* Failures *)
(* An event of the environment *)
Event == events < MaxEvents /\ events' = events + 1

(* The second half goes on whatever became of the first: beside the update   *)
(* or the reconnection that has begun meanwhile.                            *)
GoOn(s) ==
  [Paused(update(s)) EXCEPT !.raced = TRUE,
     !.others = Append(@, [step |-> "attach", restarting |-> FALSE])]
Fails(s, t) == IF s.restarting THEN GoOn([t EXCEPT !.restarting = FALSE]) ELSE t

(* CreateSDP finds the local video incompatible: restartLocalVideo, with or *)
(* without a local tile to stop and start.  Without stop a section released *)
(* the first time may be filled the second time, under its tile.            *)
IncompatibleSDP(s, tile) ==
  LET t == Fails(s, performDeferredAction([Begin(s) EXCEPT !.raced = @ \/ ~canStop]))
  IN IF tile THEN [update(t) EXCEPT !.restarting = TRUE] ELSE t

(* The task fails or times out, or throws: another connection is tried.  Until *)
(* then an update may attach a second time, as after IncompatibleSDP.          *)
TaskFailed(s) ==
  Fails(s, performDeferredAction([s EXCEPT !.session = "connected", !.step = "none",
                                           !.retrying = TRUE,
                                           !.raced = @ \/ (~canStop /\ s.step # "attach")]))

(* The negotiation that is to end the transition *)
Negotiation ==
  \/ MayProceed(Now) /\ Becomes(Proceed(Now)) /\ Unchanged
  \/ step = "answer" /\ Becomes(SetRemoteDescription(Now)) /\ Unchanged
  \/ /\ Event /\ session = "updating" /\ step = "describe"
     /\ \E tile \in BOOLEAN : Becomes(IncompatibleSDP(Now, tile))
     /\ Fixed
  \/ /\ session \in {"updating", "connecting"}
     /\ IF step = "attach" /\ Throws(Now) THEN UNCHANGED events ELSE Event
     /\ Becomes(TaskFailed(Now))
     /\ Fixed

(* Another one.  While the session updates they are alike: each may end the   *)
(* update, whichever began it.  Else the end of this one changes nothing but *)
(* the tracks.  Where the peer connection would refuse its step, it may      *)
(* proceed or fail; answers under way are taken for the last of them.        *)
Swapped(k) ==
  [Now EXCEPT !.step = others[k].step, !.restarting = others[k].restarting,
              !.others = [@ EXCEPT ![k] = [step |-> step, restarting |-> restarting]]]
Ended(s, k) ==
  LET t == [s EXCEPT !.others = RemoveAt(@, k)] IN IF others[k].restarting THEN GoOn(t) ELSE t

OtherProceeds(k) ==
  /\ step # "rejoin" /\ MayProceed(Swapped(k))
  /\ \E s \in {Proceed(Swapped(k))} :
       Becomes([s EXCEPT !.step = step, !.restarting = restarting,
                         !.others = [others EXCEPT ![k].step = s.step]])
  /\ Unchanged

OtherEnds(k) ==
  /\ step # "rejoin" /\ others[k].step = "answer"
  /\ Becomes(IF session = "updating" THEN SetRemoteDescription(Swapped(k))
              ELSE Ended(SetRemote(Now), k))
  /\ Unchanged

OtherFails(k) ==
  /\ Event
  /\ Becomes(IF session = "updating" THEN TaskFailed(Swapped(k)) ELSE Ended(Now, k))
  /\ Fixed

OtherIncompatible(k) ==
  /\ Event /\ session = "updating" /\ others[k].step = "describe"
  /\ \E tile \in BOOLEAN : Becomes(IncompatibleSDP(Swapped(k), tile))
  /\ Fixed

OtherNegotiation(k) ==
  OtherProceeds(k) \/ OtherEnds(k) \/ OtherFails(k) \/ OtherIncompatible(k)

ConnectionLost ==
  /\ Event /\ session = "connected"
  /\ Becomes([Now EXCEPT !.retrying = TRUE])
  /\ Fixed

RetryWithBackoff ==
  /\ retrying
  /\ Becomes(perform([Now EXCEPT !.retrying = FALSE], "reconnect"))
  /\ Unchanged

-----------------------------------------------------------------------------
(* The server and the application *)
IndexFrame(frame) ==
  /\ Event
  /\ frame # lastFrame /\ Groups(frame) \cap retired = {}
  /\ lastFrame' = frame /\ retired' = retired \cup (Groups(lastFrame) \ Groups(frame))
  /\ step # "rejoin"
  /\ Becomes(handleIndexFrame(Now, frame))
  /\ UNCHANGED canStop

(* JoinAndReceiveIndex on the new connection *)
Rejoined(frame) ==
  /\ step = "rejoin"
  /\ Groups(frame) \cap retired = {}
  /\ IF frame = lastFrame THEN UNCHANGED events ELSE Event
  /\ lastFrame' = frame /\ retired' = retired \cup (Groups(lastFrame) \ Groups(frame))
  /\ Becomes([handleIndexFrame(Now, frame) EXCEPT !.step = "attach"])
  /\ UNCHANGED canStop

(* A report that finds nothing to choose only waits, and may as well come    *)
(* when there is something.                                                 *)
metricsDidReceive ==
  /\ wantsResubscribe(Now) /\ ~pendingReport
  /\ Becomes(checkResubscribe(Now))
  /\ Unchanged

chooseRemoteVideoSources(sources) ==
  /\ Event
  /\ Becomes([Now EXCEPT !.chosen = sources,
                         !.optimal = calculateOptimalReceiveSet(current, sources)])
  /\ Fixed

(* startLocalVideoTile, stopLocalVideoTile *)
LocalVideo ==
  /\ Event
  /\ Becomes(update(Now))
  /\ Fixed

Next ==
  \/ Negotiation \/ \E k \in DOMAIN others : OtherNegotiation(k)
  \/ ConnectionLost \/ RetryWithBackoff
  \/ \E frame \in Indexes : IndexFrame(frame) \/ Rejoined(frame)
  \/ metricsDidReceive \/ LocalVideo
  \/ \E sources \in SUBSET Attendees : chooseRemoteVideoSources(sources)

Spec == Init /\ [][Next]_vars

-----------------------------------------------------------------------------
Settled == session = "connected" /\ ~retrying
Clean == ~raced /\ ~misaligned

(* Every variable has its type; who negotiates is never connected. *)
TypeOK ==
  /\ session \in {"starting", "connecting", "connected", "updating"}
  /\ step \in {"none", "rejoin", "attach", "describe", "subscribe", "ack", "answer"}
  /\ (step = "none") = (session = "connected")
  /\ others \in Seq([step : {"attach", "describe", "subscribe", "ack", "answer"},
                     restarting : BOOLEAN])
  /\ deferred \in {"none", "update", "reconnect"} /\ (session = "connected" => deferred = "none")
  /\ \A S \in {current, forSubscribe, receive, optimal, subscribed, attached, lastFrame} :
       S \subseteq Streams
  /\ \A S \in {last, pendingIndex} \ {NoSet} : S \subseteq Streams
  /\ chosen = NoSet \/ chosen \subseteq Attendees
  /\ \A i \in DOMAIN trans : trans[i] \in
       [dir : {"recvonly", "inactive", "stopped", "gone"}, mid : BOOLEAN, receiving : BOOLEAN]
  /\ \A x \in Streams : map[x].at \in 0..Len(trans) /\ map[x].mid \in Int
  /\ \A e \in tiles : e.at \in DOMAIN trans

(* Once nothing is negotiated or retried no index frame is left behind by a *)
(* pause: the index is the last one the server sent, and what is received   *)
(* is what the policy believes is (ReceiveVideoStreamIndexTask.ts:68,       *)
(* DefaultAudioVideoController.ts:1147).                                    *)
IndexServed ==
  Settled => /\ current = integrateIndexFrame(lastFrame)
             /\ Noticed(Now) => receive \in {subscribed, truncate(subscribed)}

(* Once nothing is negotiated or retried, each attendee whose stream is     *)
(* received has a tile, and no other has; and a tile shows the stream its   *)
(* state names, also after streams were switched without negotiation.       *)
TilesMatch ==
  Settled /\ Clean =>
    /\ {e.attendee : e \in tiles} = {Attendee[x] : x \in {y \in receive : Live(y)}}
    /\ \A e \in tiles : server[e.at] = e.stream

(* At every step a tile shows its attendee's stream, and an attendee has    *)
(* one tile: no transceiver goes from one attendee to another under a tile  *)
(* (DefaultTransceiverController.ts:263).                                   *)
TilesAreTheirs ==
  Clean => /\ \A e \in tiles : server[e.at] # 0 => Attendee[server[e.at]] = e.attendee
           /\ \A e, f \in tiles : e.attendee = f.attendee => e = f

(* Tiles agree with what is received: at every step none shows another      *)
(* attendee's stream, and each received stream has its tile in the end.     *)
TilesAgree == TilesAreTheirs /\ TilesMatch
=============================================================================
