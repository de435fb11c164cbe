# Verification of the Amazon Chime SDK for JavaScript

TLA+ models of the parts of the SDK that keep a meeting session alive and its
audio and video what the user chose, the TLC
configurations that check them, and TLAPS proofs of their main invariants.
Paths below are relative to the repository's `src/`; AVC is
`audiovideocontroller/DefaultAudioVideoController.ts`.

## 1. The system

A page creates a meeting session and calls its audio-video facade. Everything
runs in one JavaScript thread, so what interleaves is not statements but
*turns*: a call of the application, an event of a WebSocket, a timer, the
continuation of an `await`. Nothing is persisted: a crash of the page is the
end of the session. Failure is the normal case: the network goes away, the
server closes or never answers, promises reject, requests are refused.

```
 application ── AudioVideoFacade ── DefaultAudioVideoController
                                     │  SessionStateController   may this happen now, or later?
                                     │  ReconnectController      may we retry, and when?
                                     │  groups of Tasks ──────── SignalingClient ── WebSocketAdapter ── server
                                     │  MonitorTask ◄─ ConnectionMonitor ◄─ PingPong, StatsCollector
                                     │  ReceiveVideoStreamIndexTask, up- and downlink policies, tiles
                                     └─ EventController ── MeetingEventReporter ── EventBuffer ── ingestion service
 application ── DeviceController, RealtimeController, ContentShareController, MessagingSession
```

### Components modelled

**Session state controller** (`sessionstatecontroller/`).
State: `currentState`, one deferred action with its work.
`perform(action, work)` looks the transition up, or defers the action, or
ignores it; it then runs the work, which may call `perform` again, rolls the
state back if the work throws, and at last performs what was deferred.
Hard: re-entrance, and exceptions after re-entrance; one slot for several
deferred actions. Correct when nothing deferred is stranded, a deferred stop is
never displaced, a rollback undoes its own transition and an update at most, and
a session that disconnects is not revived.

**Reconnect controller** (`reconnectcontroller/`, `backoff/`).
State: the deadline (first attempt, last activity), whether retries are still
allowed, the running backoff timer and the function that cancels its retry.
Operations: `reset`, `startedConnectionAttempt`, `disableReconnect`, `cancel`,
`retryWithBackoff`, `setLastActiveTimestampMs`. Hard: a retry asked for while
one is pending, a cancel racing a timer, a pong racing the deadline. Correct
when canceled retries never run and retries stop with the deadline.

**Audio-video controller, session lifecycle** (AVC).
State: the two controllers above, the operations in flight (asynchronous
functions between two `await`s), which tasks are paused, what observers were
told. Operations: `start`, `stop`, `update`, `restartLocalVideo`, `reconnect`,
`handleMeetingSessionStatus`, and the end of each operation in success or
failure. Hard: every operation that ends finds a session that other turns have
changed since it began. Correct when the session never stays in transit, its
tasks never stay paused, connection attempts do not overlap, observers hear its
life in order, and a stop is final.

**Signaling client and WebSocket adapter** (`signalingclient/`,
`websocketadapter/`). State: the adapter's socket (and the sockets it has let
go, which still call their handlers), the queue of connection requests,
`wasOpened`, `isClosing`, the unload handler, a two-second timeout per close.
Operations: `openConnection`, `closeConnection`, the socket's `open`, `error`
and `close`, the timeout. Hard: close events that come late, never, or after
the timeout; overlapping closes; events of abandoned sockets. Correct when one
connection exists at a time, the flags are about that one, events come in the
promised order, and every request is served.

**Meeting event reporter and buffer** (`eventreporter/`, `eventbuffer/`).
State: the current ingestion event, the buffer, requests under way, failed
events, the lock, Firefox's copies. Operations: report, the interval, answers
and retries, page hidden, `start`, `stop`, `destroy`. Hard: page hide or stop
during a request; failure after the events left the buffer; capacity. Correct
when no event disappears or is sent twice, batches leave in order and one at a
time, and the buffer drains.

**Connection health** (`pingpong/`, `connectionmonitor/`,
`connectionhealthpolicy/`, `MonitorTask.connectionHealthDidChange`). State: the
ping interval and its unanswered pings, the health data, the policy's current
health, calls put off to the next tick. Operations: the interval, pongs, metric
reports, signal strength, start, reconnect, replacing the microphone, stop.
Hard: data that outlive the connection they describe; a report that is made
only when health *changes*. Correct when pings stop with the connection,
reported failures are real, and a dead connection is always reported.

**Realtime controller, volume adapter, active speaker** (`realtimecontroller/`,
`volumeindicatoradapter/`, `activespeakerdetector/`). State: stream to attendee
and attendee to stream, mute and volume of each attendee, the callbacks, scores
and the list of active speakers. Audio frames of the signaling connection become
calls of presence and volume; a timer lowers scores. Hard: an attendee with two
streams; what is missed without a connection; a first frame without the local
attendee; remote mute against local mute; callbacks that leave the list being
walked. Correct: the application's roster becomes the server's, the server
knows the local mute, nobody stays an active speaker in silence.

**Tasks** (`task/`, and the trees of tasks AVC builds of them). State: the
status and the promise of every task, the timers of `TimeoutTask`, callbacks of
the next tick, the task of the early connection. Operations: `run` and `cancel`
of the base task, the groups, the timeout and the once task; what ends or fails
each leaf. Hard: a cancel that finds no one listening, or reaches a task a tick
after what it depends on; a connection opened in advance that is gone when it
is needed. Correct when every operation ends, leaves nothing of itself behind,
and joins the meeting over a connection that is there.

**Audio input** (`devicecontroller/DefaultDeviceController.ts`,
`utils/PromiseQueue.ts`, AVC's use of it). State: the open streams, the one in
use, the transform device and the Web Audio nodes, the queue of choices, what
the session sends. Operations: choosing and stopping a device, mute, the
browser's grants and refusals, devices plugged and unplugged, a meeting's start,
reconnection and stop. Hard: each of these while a choice waits for
`getUserMedia`. Correct when no microphone stays open unheld, the last choice
wins, and the meeting sends the input in use.

**Video subscription** (`videostreamindex/`, `ReceiveVideoStreamIndexTask`,
`transceivercontroller/`, AVC `update`, the remote tiles). State: the current
and the subscribed index, the policy's choice, the transceivers and the maps
between streams, mids, tracks and tiles, what waits for a negotiation to end.
Operations: index frames and reports, `update` in place or by renegotiation,
each step of a negotiation, its failures, lost connections, the application's
choice of sources. Hard: everything that arrives between two steps of a
negotiation. Correct when the last index is served and each tile shows its own
attendee.

**Priority downlink policy**
(`videodownlinkbandwidthpolicy/VideoPriorityBasedPolicy.ts`). State:
preferences, the estimate and target rate, the state of the probe, the sets of
streams, which tiles the policy has paused. Operations: index frames, metrics,
preferences, `reset`, and the application's `pause` and `unpause`. Hard: a probe
that fails after the index has changed; two parties pausing the same tiles.
Correct when the choice is the best within the rate and every pause has someone
who will end it.

### Components not modelled, with what would be worth stating

| component | state and operations | hard behaviour | properties |
|---|---|---|---|
| uplink policies | number of participants, chosen encodings | stale participants after a reconnect | the encodings are a function of the last index |
| video input, audio mix | as for audio input; stream, element and sink of the mix | the second choice resolves first | the last choice wins |
| local tile, elements | the local tile, bound elements | unbinding during a bind | one local tile, one element per tile |
| frame pipeline | input stream, processors, canvas | stop or a new input while a frame is processed | one loop at a time, none after stop |
| content share | a second session and its stream | stop before start resolved | started and stopped alternate |
| messaging session | WebSocket, reconnect controller | close racing a retry | no retry after `stop` |
| sending transceivers | encodings per section | a negotiation during a switch of the camera | the encodings are the policy's |

Left aside: SDP parsing and SigV4 (text), the demos and the browser tests,
statistics (arithmetic over browser reports that outlives nothing), the
readiness checker and the facades (clients without state the session depends
on), Voice Focus (glue around a vendored worklet), logging (loses messages by
design), the protocol (generated; a fifth of the repository's lines).
PROJECT.json names their files.

## 2. Modules

| module | models | extends, uses |
|---|---|---|
| `SessionState` | `DefaultSessionStateController` | |
| `MCSessionState` | two works, for TLC | extends `SessionState` |
| `RetryGate` | abstract: what a session relies on from its reconnect controller | |
| `ReconnectController` | `DefaultReconnectController`, `FullJitterBackoff`, its `TimeoutScheduler` | implements `RetryGate` |
| `ControllersProofs` | proofs, the refinement included | extends `SessionState`, `ReconnectController` and `EventBuffer` |
| `AudioVideoSession` | the lifecycle in AVC | composes `SessionState` and `RetryGate` |
| `AudioVideoSessionProofs` | proofs | extends `AudioVideoSession` |
| `SignalingLifecycle` | abstract: the order of events `SignalingClient.ts` promises | |
| `SignalingClient` | `DefaultSignalingClient`, `DefaultWebSocketAdapter` | implements `SignalingLifecycle` |
| `EventBuffer` | `DefaultMeetingEventReporter`, `InMemoryJSONEventBuffer` | |
| `ConnectionHealth` | pings, metrics and the reconnection policy | |
| `ConnectionProofs` | proofs, the refinement included | extends `SignalingClient` and `ConnectionHealth` |
| `Operation` | abstract: a promise settles once, always, and may be retried | |
| `Tasks` | the tasks and the trees of all operations of AVC | implements `Operation` |
| `TasksProofs` | proofs, the steps of the refinement included | extends `Tasks` |
| `AudioInput` | audio input of `DefaultDeviceController`, `PromiseQueue`, AVC's use of it | |
| `AudioInputProofs` | proofs | extends `AudioInput` |
| `VideoSubscription` | index, transceivers, negotiation, remote tiles | |
| `MCVideoSubscription` | four streams, for TLC | extends `VideoSubscription` |
| `VideoSubscriptionProofs` | proofs | extends `VideoSubscription` |
| `PriorityPolicy` | `VideoPriorityBasedPolicy`, the pauses of tiles | |
| `MCPriorityPolicy` | streams, preferences and reports, for TLC | extends `PriorityPolicy` |
| `PriorityPolicyProofs` | proofs | extends `PriorityPolicy` |
| `Realtime` | `DefaultVolumeIndicatorAdapter`, `DefaultRealtimeController`, `DefaultActiveSpeakerDetector` and its policy | |
| `RealtimeProofs` | proofs | extends `Realtime` |

Names are the source's where TLA+ allows. An action is a turn, or the part of a
turn up to the next call that may change other state. Definitions whose comment
begins with "Bug:" are deliberate faults: they show, put in place of the
definition after them, that a property can fail.

### SessionState

`perform` recurses, so the JavaScript stack is part of the state: a frame
records the action, the state it left, its work, and how far the work is
(`progress`). `Perform` is the entry; `WorkReturns` is the normal return with
`performDeferredAction`, which may push the deferred action's frame;
`WorkThrows` is the `catch`. `Edges` is the transition table, split as the
source splits it. Works are opaque, but for what those of AVC can do: only the
works of FinishConnecting and FinishUpdating run code that can throw. They may
go on after a call of `perform`: the first of the tasks they resume may ask for
an update, and the second is resumed after it (AVC:724-725, 1159-1160), or the
first goes on (`ReceiveVideoStreamIndexTask.ts:113`). So a work may throw before
and after updates it has asked for, any number of them. Every other `perform` in
such a work (the Fail of `reconnect`, AVC:1184) is the last thing it does, and
the works that called it throw no more.

### RetryGate and ReconnectController

`ReconnectController` has the clock, the deadline arithmetic and every timer
ever armed with its state (pending, fired, stopped). The jitter is any delay up
to `LongestBackoff`. `backoffTimer` and `backoffCancel` are what the code
remembers: with a second retry asked for before the first fired (`overlap`),
the first timer still runs but is remembered by no one. `RetryGate` forgets the
clock: a retry may be possible, an attempt timed, a timer armed, and other
timers orphaned. `armed` is mapped to "the remembered timer is pending",
`orphans` to the number of the other pending ones.

### AudioVideoSession

The controller's `perform` calls are `Controller!Perform` of `SessionState`;
its reconnect controller is `Gate`, an instance of `RetryGate`. A work runs
(`RunWork`) once its frame is on the stack and may call `perform`; one that
resumes tasks goes on with the second when the calls of the first have returned.
`ops` is the bag of asynchronous functions in flight; `OperationEnds` ends one
in success or failure at any time, and what the code does after the `await` is
part of that action, or a continuation that runs before anything else can.
`paused` and `toResume` are the pausing of the index task and the monitor task
during an update. Inputs (calls, statuses, failures, late reports) spend a
budget. `hard`, fixed at the start of a behaviour, says which circumstances
occur in it:

- `overlap`: something fails, or `stop` is called, while an earlier failure or
  operation is still being dealt with;
- `late`: an index or metrics report asks for an update while tasks are being resumed;
- `sdp`: the server rejects the SDP, so the session restarts its local video;
- `half`: the first of the two updates of such a restart fails.

Left out: `start({signalingOnly})`, promotion to the primary meeting, media
stream changes, the comparison of remote videos that avoids a renegotiation,
and observers and policies that throw.

### SignalingLifecycle and SignalingClient

`sockets` is every WebSocket created, with its state and the `close` handlers
registered on it: 0 is `closeEventHandler`, `k` the handler the `k`-th
`closeConnection` made, which also runs by timeout. A `close` event calls its
handlers one after the other (`dispatching`) with no other turn between. An
`error` comes with the `close` that follows it. `hard` again picks the
circumstances: `closeAgain`, `closeConnection` is called while a close is under
way; `lateError`, a socket that was given up fails after all. With none of them
(`InTurn`) the client implements `SignalingLifecycle`. Left out: the content of
frames, and observers that call the client while an event is delivered.

### EventBuffer

Events are numbered as accepted; ingestion events and batches are sequences of
those numbers, failed ones a set. A request under way is a record in `posts`;
it is answered well, answered badly and retried, or given up. `handed` counts
how often the service was given each event. Firefox cancels requests when a
page is left, so the code keeps copies (`cancellableEvents`) and beacons them;
`browser` is a choice at the start. Sizes count as the code counts them.

### ConnectionHealth

Pings and pongs, the health data, the policy and the calls of `setTimeout 0`
(`nextTicks`, in order). Counters stop at the threshold they are compared with,
so neither they nor the clock (`connectionAge`, up to the wait time) need a
bound. What counts of unanswered pings is whether the *last* one or an older
one is answered. `own` repeats the health data with one difference: it starts
afresh with every start. The actions below "What the audio-video controller
does to them" are the points where AVC resets data or replaces the policy;
the session around them is reduced to its state. Left out: the policy of
unusable audio, which only warns; MonitorTask's check of received video;
answering the server's pings.

### Realtime

A frame is handled synchronously, so it is one action: a fold of its items
(`InfoItem`), and after a reconnection of the attendees remembered (`Delete`),
over the adapter's two maps and the record `Client` of the controller's state,
the application's and the detector's. An item calls the controller as the code
does. `rt`, `app`, `det` hold one record per object; `rt.callbacks` counts the
callbacks of an attendee's volume, all the detector's. The scores are steps up
to `MaxLevel` in place of a decaying average: loud rises, quiet falls, others
are taken over. Of the signal strength only its changes matter, because they
reach the detector without a volume. The server is external: stream ids grow
(the comparisons at `DefaultVolumeIndicatorAdapter.ts:44` and `:86` say so), the
older stream of an attendee ends first, the first frame of a connection lists
all streams but maybe the local one, which a later frame brings (comment at
`:126-128`). Left out: permission to unmute, data messages, fatal errors, a
second detector subscription.

### Operation and Tasks

A behaviour is one operation: the start (with promises or, as AVC can also be
set up, with tasks), the reconnection, the update, the stop, the promotion. The
operation's tree of tasks (`Plan`) is written down as AVC builds it, one entry
per group; leaves are named after their class, and `Task` says of each what its
`cancel` does to one that waits and in which state of the connection it is
answered or fails. `run` and `cancel` reach subtasks within one call (`Reached`,
`Canceled`); what a settled promise leads to (`GoOn`, `EndWell`, `EndBadly`) is
a step of its own, taken before the next event of the browser (`Quiet`).
`OnceTask.cancel` leaves two callbacks for the next tick (`ticks`, in batches
of one cancel each). Timers of the same duration fire in the order they were
started. `prestart` is
`start({signalingOnly: true})`; `Retry` is the controller's next attempt after
a failed start. What tasks do to the session is in the other modules. Left out: a
second `prestart` while one is in place, and the effect an abandoned input has
when it comes at last.

### AudioInput

`startAudioInput` and `stopAudioInput` are tasks of a queue, the one at the
head in one of the phases at which it awaits something (`nodes`, `getting`,
`fallback`). A stream is a number with what the properties need of it: the
device, whether it is live, enabled, and got with fallback constraints. The
device controller and the session put choices of their own into the queue
(`ChooseSilence`). `observing` is whether the session is registered for
changes of the input, which it is when all tasks of its start have run
(`FinishStart`), well after the stream was attached. `wanted`, `spoiled` and
`missed` are history: what the application was promised, whether an unpromised
thing happened, and whether the session was not told of a change or had to
ignore it. Left out: video input, audio output, permissions and labels of
devices.

### VideoSubscription

A transceiver is its position in the peer connection; `map` is
`streamIdToTransceiver`, `track` `subscribeTrackToStreamMap`. A negotiation is a
sequence of steps between any two of which frames, reports and calls may
arrive; the session around it is `session` with its deferred action. `server`
is what the server sends on each section, by the order of the subscriptions.
A restart of local video negotiates twice, and goes on with the second whatever
became of the first (AVC:980-986): when the first has failed, an update or a
reconnection may be under way already, and the second runs beside it. `step` is
the negotiation that is to end the transition, `others` are those beside it;
what each does is a function of the state (`Proceed`, `SetRemoteDescription`,
`IncompatibleSDP`, `TaskFailed`), which another one takes with its own step in
place of `step` (`Swapped`). While the session is Updating they are alike: the
first to end, or to fail, ends the update, whichever began it. `canStop` says
whether the browser has `RTCRtpTransceiver.stop`. Stream ids
order the qualities; a group is a publication and never comes back. An update in
place finishes at once, which resumes what waits, which may update in place
again. What handles a frame or a report says whether an update was `done` that
has to be finished; `resume` keeps the resumptions to come as a stack (`calls`),
and one that was done in place puts two more on it. What waits is done once, so
there are six at most: the two it begins with, and two more each for a frame and
for a report that waited. The policy is `AllHighestVideoBandwidthPolicy`. Left
out: the local video's own section, tiles of content shares, and the elements of
a page.

### PriorityPolicy

A report or an index frame is one calculation, as in the code; `Decide`,
`handleProbe`, `maybeOverrideOrProbe` and `Apply` keep its parts, `Spend`,
`Subscribe`, `Upgrade` and `Level` those of the selection. What depends on the
time gone by is a choice (`Times`), made once per calculation. Rates are in
hundreds of kbit/s; the average bitrate of a stream is its maximum. What the
code keeps as lists of streams are sets; a loop is a fold over a set from its
first element to its last (`LastTried`), or over the application's preferences.
A negotiation makes the tiles follow the subscriptions (`Negotiated`);
`serverPaused` is what the server was asked to hold back. `byApp`, `forgotten`,
`uncounted`, `leftBehind` and `failures` are history: who paused a tile, what
the policy does not count, what is held back for a tile that shows another
stream by now, and how many probes have failed in a row. `PolicyAssumption` says
that the qualities of one attendee differ in bitrate, `PreferredOnce` that the
application names an attendee once. Left out: the configured delays of a network
that is stable or not, beyond "soon" or "early", and content shares.

## 3. What the runs check

### session_state (`MCSessionState`, `SessionState.cfg`)

Calls, nested calls, returns and exceptions in every order, to a depth of 3
frames; two works suffice because works are opaque and the slot holds one.
`RollbackUndoesUpdateOnly`: when a work throws, before or after it has called
`perform`, the rollback undoes its own transition and, at most, updates the work
asked for; never a stop, a failure or a reconnection, although each nested
`perform` ends with whatever was deferred. What it does undo is an update whose
operation stays in flight: its end finds the session Connecting, which ignores
it, or Updating, which it ends. `StopIsKept` (`DeferredStopHonoured` and
`DisconnectingIsFinal`): no later call displaces a deferred stop or revives a
session that disconnects.

### reconnect (`Reconnect.cfg`)

Both with and without overlapping retries. A deadline of 3 ticks and backoffs
of 1 and 2 let a retry be armed before the deadline and fire at or after it;
two timers are enough for one to be orphaned, the clock stops at 5.
`NoStrayRetry` (`CanceledNeverRuns` and `GivesUpInTime`): no canceled retry
runs and none is scheduled later than one longest backoff after the deadline.
`ImplementsGate`.

### session (`Session.cfg`)

Six inputs, enough for a start, its failure, a stop and a status during the
recovery, and an update; four orphaned timers, more than six inputs make.
`NothingHangs`: in Connecting, Updating and Disconnecting an operation is in
flight whose end leaves the state (`TransitHasOwner`), and a connected session
whose tasks are paused has something under way that will resume them
(`PausedIsTemporary`; this is the failed update, which resumes nothing itself).
`OneAtATime` and `NotificationOrder` are claimed for failures that come one at
a time. The first has three parts. Connection attempts do not overlap
(`OneConnectionAttempt`). Updates do not, and a session is Updating as long as
one is in flight (`UpdatesAlone`), unless a restart of local video is cut in
half: then its second half runs in a session that is Connected, beside the
update that was deferred meanwhile, and the first of the two to end resumes the
tasks under the other (see below). And while a session is Updating both tasks
are paused, unless a report is late (`ConsistentUpdate`). Observers hear of the
session in order. Five sets of circumstances are run: all, all but late reports,
and rejected SDPs with and without late reports, the former also with a restart
cut in half.
`Settles`: once the outside is quiet the session ends connected or not
connected.

### signaling (`Signaling.cfg`)

Four calls, in one set of behaviours in turn and in the other with both
circumstances: three are needed for two overlapping closes with a request
between them, the fourth is a request after it. `EveryRequestServed` holds in
all of them, the rest in turn: `StateIsOfConnection` (one connection,
`wasOpened` and the unload handler are about it) and `ImplementsLifecycle`.

### event_buffer (`EventBuffer.cfg`)

Four events of two sizes, two to an ingestion event, batches of at most two, two
tries, in Firefox and in other browsers: a batch, an important event and a failed
batch can be under way, in the buffer and waiting for a beacon at once.
`ConservedInOrder`: each event is in one place and batches keep the order;
`BufferDrains`.

### health (`Health.cfg`)

Thresholds of 3, so that counting matters (with 1 any miss is a failure; a
policy whose counter is wrong by one shows from 2); two waiting calls, one of
them possibly outdated; one change of the microphone; first sessions and
sessions started again. `PingsAreOwn`: pings need an open connection, and while
they go on, missed pongs are remembered only as long as the last is unanswered.
`ReportsAreRealAtFirst`: a failure reported of a controller's first session, or
of its reconnects, is one of that connection. `DeadIsReported`: a connection
that never answers again is reported. This is the subtle one: the policy reports
changes only and is not replaced by a reconnect, so the second dead connection
is reported only because the reset data make it healthy in between.

### realtime (`Realtime.cfg`)

Two attendees, the local and a remote one, three streams (one of each, and one
to join again with), two frames of mute or volume or reconnections in any mix,
scores up to 2: enough for a departure or a second stream while there is no
connection, two reconnections in a row, and a volume before or after each.
Other joins, departures, losses and local mutes are bounded by the streams or
not at all. `RosterMatches`: once the frames of a connection are in, the
application has the server's attendees. `MuteAgrees`: local mute overrides what
the server says late, and a subscribed connection knows it. `SilenceEmpties`:
the list of active speakers is empty in the end.

### audio_input (`AudioInput.cfg`)

Two microphones, two transform devices on them, the silent device, with and
without Web Audio; four calls, three events, two tasks waiting. Four streams
are as many as can be referred to at once. A choice can thus be made while
another is granted, refused or over-constrained, and a third thing happen to
the device or the meeting meanwhile. `NoMicrophoneLeaks`; `ChoiceIsKept`: the
last choice wins unless the code put a choice of no device behind it
(`spoiled`), and a dead device is being replaced; `SendsTheInput`: what is sent
is the stream in use, or with Web Audio the destination node, unless the session
missed a change (`missed`); and the node is fed by the microphone in use
(`FedByTheInput`, without exception). The exceptions are the hazards listed for
this code, told below.

### video_subscription (`MCVideoSubscription`, `VideoSubscription.cfg`)

Two simulcast streams of one attendee, a second publication of theirs, one of
another attendee; at most two received; a meeting that begins empty or with both
attendees, and five indexes, among them those in which a quality, a publication
or an attendee goes and comes; three events out of index frames, calls,
incompatible offers, failures and lost connections, at any step of the
negotiations they lead to, with and without `stop`. Three are enough for a
restart whose first half fails, the update deferred under it, and a second
failure beside it. `IndexServed`: once nothing is negotiated the index is the
last one sent and what is received is what the policy believes. `TilesAgree`: at
every step a tile shows its own attendee, and in the end there is one for each
attendee received and the stream its state names. It is claimed of connections
that no race spoiled: `misaligned` (see below), and `raced`: an index or a
report was handled during a negotiation, the policy did not drop its streams,
sections were attached twice, one was taken over by another stream of its group,
a stream was switched in place on the mid of another, or two negotiations
overlapped. `IndexServed` has no such exception. The taking over and the
switching are found with four events and not with three, so they were missing
from `raced` until the inductive invariant below was sought; with them, and
without negotiations beside each other, four events were checked once by hand
(16.9 million states, too long to keep as a run), and the theorem has no bound.

### downlink (`MCPriorityPolicy`, `PriorityPolicy.cfg`)

Two simulcast streams of one attendee, one of another, to whom the application
gives priority when it has a preference; reports of loss with hardly any
bandwidth, of little and of ample bandwidth, any number of them; three other
events (frames, pauses, preferences, reconnections), so that the index changes
and a tile is paused during a probe or between two. `SelectionIsBest` compares
`priorityPolicy`, on all indexes and preferences of the run and four rates,
with what it is for. `PolicyAgrees`: what is subscribed exists, also after a
probe has failed (`SubscriptionsExist`), every paused tile has someone who will
unpause it, and what is shown the server sends (`VisibleIsSent`).

### tasks (`Tasks.cfg`)

All operations; the start with promises without audio is left out, since only
the last of its tasks differs and the start with tasks is checked both ways.
Two attempts, so that a retry meets what the first left behind, and a stop
before the start. `ImplementsOperation`: the promise settles, whatever its
tasks wait for. `NothingOutlives`: nothing begins after the end, and nothing is
left but a device or a sender that has yet to answer. `JoinsOpenConnection`: the
meeting is joined over a connection that is there.

### audio_muted (`AudioMuted.cfg`, ends in a counterexample)

`MutedIsSilent` says of the program what `RealtimeController.ts:26-31` says of a
mute button. Mute, then choose a microphone: its track is enabled, because mute
disables the tracks of the stream in use at that time and nothing applies it to
one opened later (`DefaultDeviceController.ts:695`).

### Other observations

Met while modelling; each is in the model, and the properties above say where
they make an exception for it.

*Session.* A stop while a retry waits for its backoff does not stop the timer,
which connects the session again (AVC:750; "It disables any further reconnection
attempts.", AVC:744). A stop deferred while connecting is dropped when the
attempt fails, because the session is then Disconnecting (AVC:684; AVC:742-743).
When the first half of a restart of local video fails, the catch ends the update
and the restart goes on with its second half (AVC:980-986, 1080-1090): an update
deferred meanwhile then runs beside it, and the first of them to end resumes the
tasks under the other (AVC:129-131: "this mutable state needs to be consistent
over the course of the update"). The first of two tasks resumed may start an
update, and the second is resumed under it (AVC:1159). With overlapping failures
two connection attempts can run at once, and lifecycle callbacks come out of
order.

*Retries.* With overlapping retries `cancel` stops only the last
(`DefaultReconnectController.ts:86`; "Cancels any pending retry",
`ReconnectController.ts:37`): `CancelIsComplete` assumes one at a time, and
`RetryGate` keeps the orphans.

*Signaling.* Two closes before one close event: the second handler drops the
connection the first opened, without closing it
(`DefaultSignalingClient.ts:229`; `SignalingClient.ts:39-41`). The late `error`
of an abandoned socket is judged by the flags of the next connection (`:411`).

*Events.* `bufferSize` never decreases and is compared by `===`, so an empty
buffer may refuse events (`InMemoryJSONEventBuffer.ts:277`).

*Health.* A later start keeps the signaling client and with it the old health
data (AVC:275), so it may report the failure of the session before
(`guides/07_FAQs.md:158`).

*Realtime.* The task that waits for the local attendee unsubscribes inside its
callback; the array is being iterated, and the next callback is skipped
(`WaitForAttendeePresenceTask.ts:46`; `README.md:908-909` promises the
callback). The list of active speakers is sorted only when someone enters or
leaves it (`DefaultActiveSpeakerDetector.ts:47`;
`guides/03_API_Overview.md:245`), and is still delivered after `unsubscribe`,
which leaves the callbacks of the volumes (`:159`).

*Tasks.* `ReceiveVideoInputTask` (reconnection, update) and, in the start with
tasks, `ReceiveAudioInputTask` are under no timeout and cannot be canceled: a
camera that never answers keeps the session in Updating, and a stop deferred.
With promises the start always ends. `Task.ts` says that a canceled task's
promise rejects; `PromoteToPrimaryMeetingTask` resolves. A `stop` right after a
pre-start, then a start: the start waits for the timeout if the connection was
still opening, and reuses the closing one otherwise. When `SetRemoteDescription`
fails in the parallel group, the group still waits for the attendee's presence
or its timeout.

*Audio input.* A device that ends, or a session that asks for a stream, puts
the choice of no device behind the application's waiting choice and so undoes
it (`DefaultDeviceController.ts:885`, `:569`). A choice made between the
acquisition of the input and the end of the start is not noted: the session
registers for changes when all tasks of its start have run (AVC:648), and
without a peer connection it ignores them (AVC:1487); the stream that choice has
stopped stays sent. When the choice of no device replaces one that could not be
opened, the session is not told (`DefaultDeviceController.ts:1160`).

*Video.* After an incompatible offer, or a failed update, transceivers may be
attached twice without being negotiated; a section without a stream is then left
out and every stream after it moves up one section
(`SubscribeAndReceiveSubscribeAckTask.ts:176`, against `:137-138`): the model
notes it as `misaligned`. A restart of local video whose first half fails goes
on beside the update or reconnection that began meanwhile, on the same
transceivers (AVC:980-986): `raced`. On a reconnection neither ingestion nor
checks are paused (AVC:127-135), so an index may be handled in the middle of it.
`MonitorTask.ts:148` does not truncate to the subscription limit.
`groupIdForStreamId` knows two indexes only, so that two streams of neither
count as one group. `reset()` of the transceiver controller leaves
`streamIdToTransceiver` (`DefaultTransceiverController.ts:92`): after a
reconnection a stream that has not been attached has the mid it had in the
closed peer connection, and a switch in place on that mid (AVC:894) gives
another attendee's section its stream; it takes an update the resumed check
starts and the resumed ingestion switches under (AVC:1159). And a stream that is
dropped and wanted again in another quality before the negotiation takes its
transceiver over (`DefaultTransceiverController.ts:242`), while nothing tells
the tile: its state keeps naming the old stream. Both count as `raced`.

*Downlink.* An application's pause of a tile the policy has paused is taken for
the policy's and undone when there is bandwidth (`guides/05_Simulcast.md:57`). A
reconnection forgets which pauses were the policy's, while paused tiles without
a stream survive it (`forgotten`). Streams of tiles the application paused are
not counted, so one that leaves the index stays subscribed until the next change
(`uncounted`). With an empty index or empty preferences, paused tiles are not
cleaned up. When a probe fails, the streams received before it are restored but
not `optimalNonPausedReceiveStreams` (`VideoPriorityBasedPolicy.ts:357-362`):
the next probe saves the failed one's choice as what is to be restored (`:523`).
If that fails too, a stream that has left stays subscribed, or a tile is resumed
for which there is no bandwidth; `SubscriptionsExist` says nothing after a
second failure until the policy chooses anew. And the fallback pauses a tile
while its state still names the stream of the probe (`:757`,
`DefaultVideoTileController.ts:102`): the server is asked to hold back that
stream, the tile then switches to the one before, and unpausing it later resumes
the latter only (`leftBehind`).

### Fairness

Only what the environment guarantees: JavaScript turns run to their end
(`RunWork`, `DispatchClose`, `NextTick`), timers fire (`BackoffFires`,
`TimerFires`, `SendEvents`, `IntervalFires`, `ActivityTimer`, the clock `Tick`),
and operations end (`OperationEnds`, which `Tasks` justifies; `PostAnswered`, a
request is answered or fails). Neither the server, the network nor the
application has to do anything. Weak fairness is enough: what is enabled stays
so until taken. In `Tasks` the follow-ups of promises, ticks and timers are fair
as one; besides, the three tasks that cannot be canceled are taken to be
answered, except in the start with promises, which ends without. `AudioInput`,
`VideoSubscription` and `PriorityPolicy` state safety only.

The runs allow a state without successor (`CHECK_DEADLOCK FALSE`) where the
budget of inputs ends or the component stops; `session_state` and `downlink`
have no such state.

## 4. What is proved

For every value of the constants, from the assumptions in the modules only:

| theorem | says |
|---|---|
| `ControllersProofs`: `TypeCorrect`, `NothingStranded`, `RollbackSparesEnd`, `StopHonoured`, `DisconnectingFinal`, `StopKept` | all properties of `session_state`, and that no deferred action is stranded, for any works and any depth |
| `ControllersProofs`: `ReconnectTypeCorrect`, `CanceledStays`, `CancelComplete`, `InTime`, `NoStray`, `Implements` | all properties of `reconnect`, and `CancelIsComplete`, for any times and number of retries |
| `AudioVideoSessionProofs`: `TypeCorrect`, `NothingIsForgotten`, `AttemptsAlone`, `HeardInOrder` | all safety properties of `session`, for any circumstances and any number of inputs |
| `ConnectionProofs`: `TypeCorrect`, `RequestsServed`, `OneConnectionAtATime`, `LifecycleImplemented` | all safety properties of `signaling`, the refinement, and `RequestsHaveClosings`, however often the client is called |
| `ControllersProofs`: `BufferTypeCorrect`, `EventsArrive` | all safety properties of `event_buffer`, for any configuration and number of events |
| `ConnectionProofs`: `MonitorTypeCorrect`, `PingsStop`, `OwnPings`, `RealAtFirst` | all safety properties of `health`, and `PingsNeedConnection`, for any thresholds |
| `AudioInputProofs`: `TypeCorrect`, `NoLeak`, `ChoiceKept`, `InputSent` | all properties of `audio_input`, for any devices, streams and bounds |
| `VideoSubscriptionProofs`: `TypeCorrect`, `Served`, `TilesAgreed` | all properties of `video_subscription`, for any streams, indexes, limit and number of events |
| `RealtimeProofs`: `TypeCorrect`, `RosterAgrees`, `MuteAgreed` | all safety properties of `realtime`, for any attendees, streams, frames and scores |
| `TasksProofs`: `TypeCorrect`, `NothingLeft`, `JoinsOpen`, `StepsImplemented` | all safety properties of `tasks`, and that every step is one of `Operation` or none, for all operations and any number of attempts and stops |
| `PriorityPolicyProofs`: `TypeCorrect`, `SelectionBest`, `PolicyAgreed` | all properties of `downlink`, for any streams, bitrates, preferences and reports |

**SessionState.** The invariant is the conjunction of `TypeOK`, `ThrowInv`,
`NoFailDeferred` and `DeferredOnlyInTransit`; it is inductive only as a whole.
`ThrowInv` speaks of every frame that may throw, not of the innermost alone: it
left a state of transit, and all frames above it are of updates, during which
the session is Updating. Hence a deferred action stays deferred while such an
update returns, unless a transition for it exists - which only a failure has in
Updating, and a failure never waits (`NoFailDeferred`). That an exception
strands nothing follows as well: the state rolled back to is one of those in
which an action may wait.

**ReconnectController.** Four parts. `CancelInv`: the remembered cancel
function belongs to the last timer, which is running, and canceled timers are
stopped; without the first half `cancel` might call the function of a timer that
fires. `OneRetryInv`: without overlap no timer runs but the remembered one.
`ClockInv`: the first attempt is not in the future. `DueInv`: a pending timer
was armed before the deadline, so it is due within one longest backoff of it;
the bound on the backoff is a lemma for every exponent. The refinement maps
orphans to a cardinality, so each action's step is shown by what it does to the
set of pending timers: none, one more, or one less.

**AudioVideoSession.** `SessionInv` relates the state, the work that runs next,
the operations in flight, the tasks still paused and the backoff timer. A state
of transit without a work has an operation that will end it (`OwnerInv`);
`CtlInv` says which works can be under way in which state, so that no step of
one takes the state from under another; `PausedInv` says who resumes the paused
tasks. `NothingHangs` needs no more, also when failures overlap. In turn,
`TurnInv` adds that there is one attempt, one disconnect and one retry at most,
each in its own state, that no timer is forgotten, and what observers have heard
state by state; the order of notifications is read off from that. `UpdateInv`
adds, for restarts not cut in half, that one update at most is in flight and in
which states and works. The lemmas at the beginning say what a `perform` does to
the session, so that the table of transitions is expanded once and not in every
action.

**SignalingClient.** Requests wait only while a connection is being closed, and
every request added came with a handler whose timer runs; the served request and
the timer of the handler go together. In turn, `TurnInv` speaks of the one
socket the adapter has: which handler it has says whether a close is under way,
and sockets let go are closed, or closing without a handler. The refinement is
shown action by action from `TurnInv`.

**EventBuffer.** `Conserved` counts the places of an event. The invariant says
instead that it is in one place at most (`PlaceInv`), so that each count is 0 or
1, and relates that place to what the service was given (`CountInv`): what has
not left the buffer was not handed over (`FreshInv`), and a batch Firefox may
cancel is under way, not answered (`CancelableInv`), so that a beacon repeats it
once. `Range`, `In` and concatenation have lemmas of their own. The order needs
that one batch at a time is under way (`LockInv`), and that its events are
before those of the buffer (`OrderInv`).

**ConnectionHealth.** `PingInv`: an interval needs an open connection, and that
an active session; no call is waiting when the session is not active.
`OwnInv`: until a controller starts again, `own` equals the data the policy
looks at. A report is a step of `NextTick` that lowers the health; the policy
found its reason in the data, hence in `own`. For `PingsAreOwn`, `RowInv`
follows the calls put off by `setTimeout` in their order: when the last ping is
answered, the last of them to set the count of missed pongs sets it to 0.

**AudioInput.** A step of a task takes a record of the variables
through several operators, so each of them has a lemma that says which fields it
changes and to what; stopping leaves nothing live, opening needs that nothing is
in use. The invariant is a conjunction of parts, told in the module's header.
The one `NoMicrophoneLeaks` needs is that nothing is in use while `getUserMedia`
is awaited: the stream it grants, or that of no device when it refuses, replaces
nothing. `ChoiceIsKept` and `SendsTheInput` need each other: a
choice that was carried out is in use, and the change was told or will be.
`FedInv` is about the destination node: between two tasks it is fed by the
microphone in use, so that a session that sends the node sends the microphone.
`StreamsAssumption` says that `None` is not the number of a stream and that
there are four numbers at least, since three streams besides a new one can be
referred to.

**VideoSubscription.** The state is taken as a record, as the operations are
functions of it that call one another. `Latest` says that a pause keeps the last
frame, or nothing and then the index is that frame's; `Received` that what is
received is what the policy believes. Both hold also within an operation, with
the types (`Ok`); `Rests` holds only when one is over: a connected session that
is not lost has nothing deferred and takes frames. For the second part the
resumptions are followed one by one (`Resuming`): those still to come are as
many as are on the stack and two for each frame or report that waits (`Left`),
of which each takes one away, and while frames are paused a resumption of
frames comes (`Comes`); after six none is left, and so frames are taken in.
Streams are switched by a fold
over a set, hence `StreamsAssumption` has them finite; `SetInduction`
gives induction over its subsets from their well-founded order.

`TilesAgree` needs that a section, its transceiver, its stream on the server and
its tile belong together through every step of a negotiation (`TilesInv`). The
policy chooses one stream of each attendee (`Chosen`); whoever attaches gives
each a transceiver of its own, and the one under a tile is for the tile's stream
(`Placed`) - that is where a section without `stop` must have been negotiated
inactive before it is filled (`Idle`). When no section was left out the
subscriptions line up (`SectionsLineUp`), so the server sends each stream on its
section or its publication has ended (`Told`), the tracks are known for just
those streams, and after the answer each has its tile (`AnswerTiled`). From then
on only a switch in place changes what tiles show: its fold is followed stream
by stream (`Switching`), which needs that no two tracks are of one attendee
(`OneTrack`). `Agreed` says what rests between two negotiations; an operation
that still has an update to make is allowed to break it (`Loose`, `Formed`) and
the negotiation it begins restores it. The lemmas about steps are about states
and not about actions, so they serve the negotiation that ends the transition
and those beside it. The first part holds for all of them; where two have
overlapped, `raced` says so (`Flow`) and only the choice of streams and one tile
for each attendee are left of the second (`RacedTiled`). Publications that end
are kept as `retired`, since the index that ended them may come at any step
(`MovesOn`).

**Realtime.** `RealtimeInv`: stream numbers are given once (`ServerInv`); a
stream the adapter remembers is its attendee's or has ended, and one that has
ended is older than the attendee's others (`MemoryInv`); while frames are read
the adapter has all streams it was told of (`AdapterInv`); and whoever is on the
roster is known to the adapter (`RosterInv`), which is why the first frame of a
new connection can tell those who left meanwhile as gone. The handling of a
frame is a fold. The theorems of the library about recursive functions take an
operator as a parameter and cannot be used here; instead the steps of all four
folds are alternatives of one operator (`Step`), and `Induction` is over a set
of numbers. `FoldExists` and `FoldPasses` give the values a fold goes through,
`FoldKeeps` what each step of it keeps.

**Tasks.** The operations differ in their trees, so the invariant is about one
group and its subtasks, whatever the tree (`TreeInv`): a subtask begins after
its group, a group in series has run its subtasks up to one, a group ends after
them but for those a cancellation left to themselves. What the assumptions say
of the trees (`TreeFacts`) is all that this part needs. `TickInv` accounts for
every `OnceTask` that was canceled by a callback to come, and says that what it
depends on is rejected in the same tick or an earlier one (`Precedes`), which is
why no dependency that ends late starts a canceled task. `TimerInv`: a timer
runs for a timeout that waits. `InputInv`: of a start with promises the
microphone alone is left waiting, and is not given up while the connection still
comes. The rest (`Connection`) is about the early connection and the start:
`BeforeStart`, `Held` and `Watched` say what is there before the start and who
watches it, `TimerHeld` that no one forgets it while its timer may run,
`JoinLine` and `OwnLine` that the connection is there until the start joins, and
`Cascade` and `AllBegun` that nothing fails before the tasks without
dependencies have begun. `NothingOutlives` needs the end of a cancellation, so
what a batch of callbacks does is followed callback by callback. That the
promise settles at all is liveness and stays with TLC.

**PriorityPolicy.** Two arguments. The first is about the selection and no
state: its three loops are folds, and `Fold` makes them and the two sums and
passes over preferences alternatives of one operator, with what their steps read
as a context; `FoldIterates` says that a fold is an iteration, by induction over
the finite sets. `Lowest`, `Better`, `Served` and `ServedAll` are what a priority,
or several, have got after any part of their candidates was tried. That the
passes are ordered matters: an attendee's streams are tried from the lowest
bitrate on, so the first pass chooses the lowest and what the second upgrades to
is the best. `PolicySelectsBest` concludes that for any index and preferences.
The second is about a calculation, which takes a record of the variables through
a dozen operators; `Differs` says which fields each of them may change. `HeldOK`
relates what the server holds back to tiles that are paused and show it;
`ExistInv` says of what is received that it is known or its attendee paused, and
while a probe lasts, of what was received before it, that it is, or that the
attendee has nothing among what is to be restored as not paused, so that the
fallback will pause them. The two sets a probe saves must belong to one choice
for that (`Agree`); after a failed probe they do not, which is why the second
failure is the end of what can be claimed. `Counted` makes it a statement about
the index: either nothing is received, or all that was counted is still there.

Liveness (`Settles`, `EveryRequestServed`, `BufferDrains`, `DeadIsReported`,
`SilenceEmpties`, that operations end) is model-checked only:
the prover has no rules for ENABLED.

## 5. Plan

Most important first.

1. **Uplink policies and sending transceivers**: the encodings as a function of
   the last index and metrics.
2. **Video input, frame pipeline, content share, messaging session**: one
   module each; the messaging session reuses `RetryGate`, the video input the
   queue of `AudioInput`.

Modules to be proved about keep their parameters as constants with named
assumptions, one action per operation, and no RECURSIVE operator.
