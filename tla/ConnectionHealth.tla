--------------------------- MODULE ConnectionHealth ---------------------------
(***************************************************************************)
(* How a session finds out that its connection is dead: DefaultPingPong     *)
(* sends pings, SignalingAndMetricsConnectionMonitor gathers missed pongs    *)
(* and metrics in ConnectionHealthData, and MonitorTask asks                *)
(* ReconnectionHealthPolicy at every change and reports a failure of the    *)
(* session.  Observers are called by setTimeout 0, in order (nextTicks).     *)
(* Counters stop at the threshold they are compared with.                   *)
(***************************************************************************)
EXTENDS Naturals, Sequences

CONSTANTS
  missedPongsUpperThreshold, connectionUnhealthyThreshold,
  maximumAudioDelayDataPoints,
  connectionWaitTime,   \* in ticks of the clock
  Restarts,             \* whether a stopped session may start again: a set of Booleans
  MaxAudioChanges,      \* bound on the changes of the microphone
  MaxNextTicks          \* bound on the calls waiting in setTimeout 0

ASSUME ConfigurationAssumption ==
  /\ missedPongsUpperThreshold \in Nat \ {0} /\ connectionUnhealthyThreshold \in Nat \ {0}
  /\ maximumAudioDelayDataPoints \in Nat /\ connectionWaitTime \in Nat
  /\ Restarts \subseteq BOOLEAN
  /\ MaxAudioChanges \in Nat /\ MaxNextTicks \in Nat \ {0}

VARIABLES
  session,       \* the state of the session that owns the monitor
  open,          \* the signaling connection
  pinging,       \* intervalScheduler of DefaultPingPong is running
  consecutivePongsUnaccountedFor,
  unanswered,    \* pings whose pong may still come: the last, an older one
  consecutiveMissedPongs, consecutiveStatsWithNoPackets, audioDelayed,
  connectionAge,    \* ticks since connectionStartTimestampMs
  hasSeenValidPacketMetricsBefore,
  currentHealth, audioDelayPointsOverMaximum,    \* ReconnectionHealthPolicy
  nextTicks,
  own,           \* what the health data would be, had they begun with this connection
  reported,      \* a failure of this connection was reported
  audioChanges,
  restarts       \* fixed at the start of a behaviour

pingVars == <<pinging, consecutivePongsUnaccountedFor, unanswered>>
dataVars == <<consecutiveMissedPongs, consecutiveStatsWithNoPackets, audioDelayed>>
policyVars == <<currentHealth, audioDelayPointsOverMaximum>>
monitorVars == <<session, open, pingVars, dataVars, connectionAge, hasSeenValidPacketMetricsBefore,
          policyVars, nextTicks, own, reported, audioChanges>>

Sessions == {"new", "connecting", "connected", "reconnecting", "stopped"}
Active == session \notin {"new", "stopped"}

UpTo(bound, n) == IF n <= bound THEN n ELSE bound

NoSymptoms == [missed |-> 0, noPackets |-> 0, delayed |-> FALSE]

MonitorInit ==
  /\ session = "new" /\ open = FALSE
  /\ pinging = FALSE /\ consecutivePongsUnaccountedFor = 0 /\ unanswered = {}
  /\ consecutiveMissedPongs = 0 /\ consecutiveStatsWithNoPackets = 0 /\ audioDelayed = FALSE
  /\ connectionAge = 0
  /\ hasSeenValidPacketMetricsBefore = FALSE
  /\ currentHealth = 1 /\ audioDelayPointsOverMaximum = 0
  /\ nextTicks = <<>>
  /\ own = NoSymptoms /\ reported = FALSE
  /\ audioChanges = 0
  /\ restarts \in Restarts

-----------------------------------------------------------------------------
(* ConnectionHealthData *)

(* Bug: reset forgets one of the counts. *)
ResetExceptPackets ==
  /\ consecutiveMissedPongs' = 0
  /\ audioDelayed' = FALSE
  /\ connectionAge' = 0
  /\ UNCHANGED consecutiveStatsWithNoPackets

ResetData ==
  /\ consecutiveMissedPongs' = 0
  /\ consecutiveStatsWithNoPackets' = 0
  /\ audioDelayed' = FALSE
  /\ connectionAge' = 0

SetConnectionStartTime == connectionAge' = 0

-----------------------------------------------------------------------------
(* DefaultPingPong *)

Ping ==
  /\ consecutivePongsUnaccountedFor' = 1    \* only asked whether positive
  /\ unanswered' = {"last"} \cup (IF unanswered = {} THEN {} ELSE {"older"})
  /\ nextTicks' = IF consecutivePongsUnaccountedFor > 0
                  THEN Append(nextTicks, "didMissPongs") ELSE nextTicks

StopPingInterval ==
  /\ pinging' = FALSE
  /\ consecutivePongsUnaccountedFor' = 0
  /\ unanswered' = {}

(* Timers run in the order they are due, so the call put off by one interval  *)
(* runs before the next.                                                    *)
IntervalFires ==
  /\ pinging /\ Len(nextTicks) < MaxNextTicks
  /\ \A i \in DOMAIN nextTicks : nextTicks[i] # "didMissPongs"
  /\ Ping
  /\ UNCHANGED <<session, open, pinging, dataVars, connectionAge,
                 hasSeenValidPacketMetricsBefore, policyVars, own, reported, audioChanges>>

(* Only the pong of the last ping counts.  Pongs carry their timestamp, which *)
(* the frames require.                                                      *)
PongArrives ==
  /\ pinging /\ Len(nextTicks) < MaxNextTicks
  /\ \E ping \in unanswered :
       /\ unanswered' = unanswered \ {ping}
       /\ IF ping = "last"
          THEN /\ consecutivePongsUnaccountedFor' = 0
               /\ nextTicks' = Append(nextTicks, "didReceivePong")
          ELSE UNCHANGED <<consecutivePongsUnaccountedFor, nextTicks>>
  /\ UNCHANGED <<session, open, pinging, dataVars, connectionAge,
                 hasSeenValidPacketMetricsBefore, policyVars, own, reported, audioChanges>>

-----------------------------------------------------------------------------
(* SignalingAndMetricsConnectionMonitor *)

(* Bug: a miss is noted, not counted. *)
NoteMiss ==
  /\ consecutiveMissedPongs' = 1
  /\ own' = [own EXCEPT !.missed = 1]

DidMissPongs ==
  /\ consecutiveMissedPongs' = UpTo(missedPongsUpperThreshold, consecutiveMissedPongs + 1)
  /\ own' = [own EXCEPT !.missed = UpTo(missedPongsUpperThreshold, @ + 1)]

(* Bug: a pong does not end a row of missed ones. *)
IgnorePong == UNCHANGED <<consecutiveMissedPongs, own>>

DidReceivePong ==
  /\ consecutiveMissedPongs' = 0
  /\ own' = [own EXCEPT !.missed = 0]

(* Packets were expected and none came; before the first ones none are       *)
(* expected.                                                                *)
NoPackets(delayed) ==
  LET more == IF hasSeenValidPacketMetricsBefore THEN 1 ELSE 0
      Count(n) == UpTo(connectionUnhealthyThreshold, n + more) IN
  /\ consecutiveStatsWithNoPackets' = Count(consecutiveStatsWithNoPackets)
  /\ own' = [missed |-> own.missed, noPackets |-> Count(own.noPackets), delayed |-> delayed]
  /\ UNCHANGED hasSeenValidPacketMetricsBefore

Packets(delayed) ==
  /\ consecutiveStatsWithNoPackets' = 0
  /\ own' = [missed |-> own.missed, noPackets |-> 0, delayed |-> delayed]
  /\ hasSeenValidPacketMetricsBefore' = TRUE

(* A report without valid packet counts only tells the audio delay. *)
InvalidPackets(delayed) ==
  /\ own' = [own EXCEPT !.delayed = delayed]
  /\ UNCHANGED <<consecutiveStatsWithNoPackets, hasSeenValidPacketMetricsBefore>>

MetricsDidReceive ==
  /\ Active /\ Len(nextTicks) + 1 < MaxNextTicks
  /\ \E delayed \in BOOLEAN :
       /\ audioDelayed' = delayed
       /\ \/ InvalidPackets(delayed) /\ UNCHANGED nextTicks
          \/ /\ NoPackets(delayed) \/ Packets(delayed)
             /\ nextTicks' = Append(nextTicks, "connectionHealthDidChange")
  /\ UNCHANGED <<session, open, pingVars, consecutiveMissedPongs, connectionAge, policyVars,
                 reported, audioChanges>>

ReceiveSignalStrengthChange ==
  /\ Active /\ Len(nextTicks) + 1 < MaxNextTicks
  /\ nextTicks' = Append(nextTicks, "connectionHealthDidChange")
  /\ UNCHANGED <<session, open, pingVars, dataVars, connectionAge,
                 hasSeenValidPacketMetricsBefore, policyVars, own, reported, audioChanges>>

-----------------------------------------------------------------------------
(* ReconnectionHealthPolicy and MonitorTask *)

Health(badAudioDelay) ==
  IF \/ consecutiveStatsWithNoPackets >= connectionUnhealthyThreshold
     \/ consecutiveMissedPongs >= missedPongsUpperThreshold
     \/ badAudioDelay
  THEN 0 ELSE 1

(* Bug: the points of bad audio delay are never forgotten. *)
KeepPoints(points) == points

(* They start again once they have been acted on. *)
PointsAfter(points) == IF points > maximumAudioDelayDataPoints THEN 0 ELSE points

(* What else the handler does is elsewhere or nowhere: SetLastActiveTimestamp *)
(* of ReconnectController, and the warnings of unusable audio.               *)
ConnectionHealthDidChange ==
  LET points == IF audioDelayed THEN audioDelayPointsOverMaximum + 1 ELSE 0
      badAudioDelay == points > maximumAudioDelayDataPoints IN
  /\ IF connectionAge < connectionWaitTime
     THEN currentHealth' = 1 /\ UNCHANGED audioDelayPointsOverMaximum
     ELSE /\ currentHealth' = Health(badAudioDelay)
          /\ audioDelayPointsOverMaximum' = PointsAfter(points)
  /\ reported' = (reported \/ (currentHealth = 1 /\ currentHealth' = 0))

(* The oldest waiting call. *)
NextTick ==
  /\ nextTicks # <<>>
  /\ \/ /\ Head(nextTicks) = "connectionHealthDidChange"
        /\ ConnectionHealthDidChange
        /\ nextTicks' = Tail(nextTicks)
        /\ UNCHANGED <<consecutiveMissedPongs, own>>
     \/ /\ \/ Head(nextTicks) = "didMissPongs" /\ DidMissPongs
           \/ Head(nextTicks) = "didReceivePong" /\ DidReceivePong
        /\ nextTicks' = Append(Tail(nextTicks), "connectionHealthDidChange")
        /\ UNCHANGED <<policyVars, reported>>
  /\ UNCHANGED <<session, open, pingVars, consecutiveStatsWithNoPackets, audioDelayed,
                 connectionAge, hasSeenValidPacketMetricsBefore, audioChanges>>

-----------------------------------------------------------------------------
(* What the audio-video controller does to them *)

(* A start makes the monitor and the policies anew.  The health data are     *)
(* reset with the signaling client, which only the first start makes.        *)
ActionConnect ==
  /\ \/ session = "new"
     \/ session = "stopped" /\ restarts
  /\ session' = "connecting"
  /\ IF session = "new" THEN ResetData ELSE UNCHANGED <<dataVars, connectionAge>>
  /\ hasSeenValidPacketMetricsBefore' = FALSE
  /\ currentHealth' = 1 /\ audioDelayPointsOverMaximum' = 0
  /\ own' = NoSymptoms /\ reported' = FALSE
  /\ UNCHANGED <<open, pingVars, nextTicks, audioChanges>>

SignalingOpens ==
  /\ session \in {"connecting", "reconnecting"} /\ ~open
  /\ open' = TRUE /\ pinging' = TRUE
  /\ Ping
  /\ UNCHANGED <<session, dataVars, connectionAge, hasSeenValidPacketMetricsBefore,
                 policyVars, own, reported, audioChanges>>

SignalingEnds ==
  /\ open
  /\ open' = FALSE
  /\ StopPingInterval
  /\ UNCHANGED <<session, dataVars, connectionAge, hasSeenValidPacketMetricsBefore,
                 policyVars, nextTicks, own, reported, audioChanges>>

(* A connection attempt succeeds, or a reconnect ends either way. *)
FinishConnecting ==
  /\ \/ session = "connecting" /\ open
     \/ session = "reconnecting"
  /\ session' = "connected"
  /\ SetConnectionStartTime
  /\ UNCHANGED <<open, pingVars, dataVars, hasSeenValidPacketMetricsBefore, policyVars,
                 nextTicks, own, reported, audioChanges>>

(* The open connection is closed before the new one is tried; the monitor     *)
(* and the policies stay.                                                   *)
ActionReconnect ==
  /\ session = "connected"
  /\ session' = "reconnecting"
  /\ ResetData
  /\ open' = FALSE /\ StopPingInterval
  /\ own' = NoSymptoms /\ reported' = FALSE
  /\ UNCHANGED <<hasSeenValidPacketMetricsBefore, policyVars, nextTicks, audioChanges>>

ReplaceLocalAudio ==
  /\ session = "connected" /\ audioChanges < MaxAudioChanges
  /\ audioChanges' = audioChanges + 1
  /\ ResetData
  /\ own' = NoSymptoms
  /\ UNCHANGED <<session, open, pingVars, hasSeenValidPacketMetricsBefore, policyVars,
                 nextTicks, reported>>

(* The observers are removed, so their waiting calls do nothing.             *)
CleanStoppedSession ==
  /\ Active
  /\ session' = "stopped"
  /\ open' = FALSE /\ StopPingInterval
  /\ nextTicks' = <<>>
  /\ UNCHANGED <<dataVars, connectionAge, hasSeenValidPacketMetricsBefore, policyVars,
                 own, reported, audioChanges>>

Tick ==
  /\ connectionAge < connectionWaitTime
  /\ connectionAge' = connectionAge + 1
  /\ UNCHANGED <<session, open, pingVars, dataVars, hasSeenValidPacketMetricsBefore,
                 policyVars, nextTicks, own, reported, audioChanges>>

MonitorNext ==
  \/ IntervalFires \/ PongArrives
  \/ MetricsDidReceive \/ ReceiveSignalStrengthChange \/ NextTick
  \/ ActionConnect \/ SignalingOpens \/ SignalingEnds \/ FinishConnecting
  \/ ActionReconnect \/ ReplaceLocalAudio \/ CleanStoppedSession
  \/ Tick

(* Timers fire: the ping interval, setTimeout 0 and the clock. *)
MonitorFairness ==
  /\ WF_monitorVars(IntervalFires) /\ WF_monitorVars(NextTick) /\ WF_monitorVars(Tick)

MonitorSpec ==
  MonitorInit /\ [][MonitorNext /\ UNCHANGED restarts]_<<monitorVars, restarts>> /\ MonitorFairness

-----------------------------------------------------------------------------
Calls == {"didMissPongs", "didReceivePong", "connectionHealthDidChange"}

(* Every variable keeps its type. *)
MonitorTypeOK ==
  /\ session \in Sessions
  /\ {open, pinging, audioDelayed, hasSeenValidPacketMetricsBefore, reported} \subseteq BOOLEAN
  /\ consecutivePongsUnaccountedFor \in 0..1 /\ unanswered \subseteq {"last", "older"}
  /\ consecutiveMissedPongs \in 0..missedPongsUpperThreshold
  /\ consecutiveStatsWithNoPackets \in 0..connectionUnhealthyThreshold
  /\ connectionAge \in 0..connectionWaitTime
  /\ currentHealth \in 0..1
  /\ audioDelayPointsOverMaximum \in 0..maximumAudioDelayDataPoints
  /\ nextTicks \in Seq(Calls) /\ Len(nextTicks) <= MaxNextTicks
  /\ own \in [missed : 0..missedPongsUpperThreshold,
              noPackets : 0..connectionUnhealthyThreshold, delayed : BOOLEAN]
  /\ audioChanges \in 0..MaxAudioChanges

(* Pings are sent on an open connection of a running session only. *)
PingsNeedConnection == pinging => open /\ Active

(* While pings are sent, missed pongs are remembered only as long as the last *)
(* ping is unanswered: one pong ends the row, whatever is reset, stopped or   *)
(* started meanwhile.                                                       *)
MissedIsUnanswered ==
  pinging /\ consecutiveMissedPongs > 0 /\ nextTicks = <<>> =>
    consecutivePongsUnaccountedFor > 0

(* The interval ends with every way a connection ends, and the count of       *)
(* missed pongs is of pings sent on the connection there is.                *)
PingsAreOwn == PingsNeedConnection /\ MissedIsUnanswered

FailureReported == currentHealth = 1 /\ currentHealth' = 0

Symptoms ==
  \/ own.missed >= missedPongsUpperThreshold
  \/ own.noPackets >= connectionUnhealthyThreshold
  \/ own.delayed

(* "The SDK retries the connection in the following situations": a failure is *)
(* reported only if this connection has missed pongs or packets, or has       *)
(* delayed audio, in the first session of a controller and its reconnects.    *)
ReportsAreRealAtFirst ==
  [][FailureReported /\ ~restarts => Symptoms]_monitorVars

(* A connection that never answers again is reported, also when an earlier    *)
(* one was reported before it.                                              *)
DeadIsReported == []<>(~pinging \/ consecutivePongsUnaccountedFor = 0 \/ reported)
=============================================================================
