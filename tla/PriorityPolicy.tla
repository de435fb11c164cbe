----------------------------- MODULE PriorityPolicy -----------------------------
(***************************************************************************)
(* VideoPriorityBasedPolicy: which remote streams to receive within the     *)
(* bandwidth estimated, by the application's preferences, and which tiles   *)
(* to pause for want of it.  A report or an index frame leads to one        *)
(* calculation; the choice, when it changed, is subscribed to at once, and  *)
(* a negotiation makes the tiles follow.  Streams of one attendee are of    *)
(* one group; a stream's average bitrate is its maximum.  What depends on   *)
(* the time that went by is left open.  Rates are in units of 100 kbit/s.   *)
(***************************************************************************)
EXTENDS Integers, FiniteSets, SequencesExt

CONSTANTS
  Streams, Attendee, Rate,  \* streams, who sends each, and its bitrate
  Indexes,                  \* the sets of streams an index frame may hold
  Preferences,              \* what the application may ask for: sequences, by priority
  Reports,                  \* the metrics a report may hold
  Targets,                  \* the target rates to check the selection for
  MaxEvents,                \* a bound on all that happens but reports and negotiations
  NoPreferences             \* undefined

Attendees == {Attendee[x] : x \in Streams}
From(S) == {Attendee[x] : x \in S}
Of(S, a) == {x \in S : Attendee[x] = a}
DEFAULT_BANDWIDTH_KBPS == 28

(* Stream 0 is no stream; the qualities of an attendee differ in bitrate.    *)
ASSUME PolicyAssumption ==
  /\ Streams \subseteq Nat \ {0} /\ IsFiniteSet(Streams) /\ Indexes \subseteq SUBSET Streams
  /\ \A x \in Streams : Rate[x] \in Nat \ {0}
  /\ \A x, y \in Streams : x # y /\ Attendee[x] = Attendee[y] => Rate[x] # Rate[y]
  /\ Targets \subseteq Nat /\ Reports \subseteq [est : Nat, loss : Nat, used : Nat]

(* Preferences are an array with a preference for each remote video: it names *)
(* an attendee once.                                                         *)
ASSUME PreferredOnce ==
  /\ NoPreferences \notin Preferences
  /\ \A prefs \in Preferences :
       /\ Len(prefs) \in Nat /\ prefs = [i \in 1..Len(prefs) |-> prefs[i]]
       /\ \A i \in DOMAIN prefs : prefs[i].priority \in Nat /\ prefs[i].size \in Nat
       /\ \A i, j \in DOMAIN prefs : prefs[i].attendee = prefs[j].attendee => i = j

VARIABLES
  index,                   \* the streams of the index
  preferences,             \* the application's
  updated,                 \* videoPreferencesUpdated
  tiles, serverPaused,     \* the tile of each attendee; streams the server holds back
  pausedBwAttendeeIds,
  optimal, nonPaused,      \* optimalReceiveStreams, optimalNonPausedReceiveStreams
  subscribed, preProbe,    \* subscribedReceiveStreams, preProbeReceiveStreams
  preProbeNonPaused,
  prevRemoteInfos,
  startup, estimated,      \* startupPeriod, firstEstimateTimestamp is set
  usingPrev, prevTarget, baseline,   \* the target rate of before, and the one to compare with
  probe, probeFailed,      \* rateProbeState
  report, lossGrew,        \* downlinkStats, and more was lost than before
  negotiating,
  uncounted,               \* history: streams that left the index and were not in prevRemoteInfos
  byApp,                   \* history: the attendees whose tile the application paused last
  forgotten,               \* history: those whose pause a reconnection made the policy forget
  leftBehind,              \* history: streams held back for a tile that was switched since
  failures,                \* history: probes that failed since the last choice made without one
  events                   \* how much has happened

vars == <<index, preferences, updated, tiles, serverPaused, pausedBwAttendeeIds,
          optimal, nonPaused, subscribed, preProbe, preProbeNonPaused, prevRemoteInfos, startup,
          estimated, usingPrev, prevTarget, baseline, probe, probeFailed, report, lossGrew,
          negotiating, uncounted, byApp, forgotten, leftBehind, failures, events>>

Now == [index |-> index, preferences |-> preferences,
        updated |-> updated, tiles |-> tiles, serverPaused |-> serverPaused,
        pausedBw |-> pausedBwAttendeeIds, optimal |-> optimal, nonPaused |-> nonPaused,
        subscribed |-> subscribed, preProbe |-> preProbe,
        preProbeNonPaused |-> preProbeNonPaused, prevInfos |-> prevRemoteInfos,
        startup |-> startup, estimated |-> estimated, usingPrev |-> usingPrev,
        prevTarget |-> prevTarget, baseline |-> baseline, probe |-> probe,
        probeFailed |-> probeFailed, report |-> report, lossGrew |-> lossGrew,
        negotiating |-> negotiating, uncounted |-> uncounted,
        byApp |-> byApp, forgotten |-> forgotten, leftBehind |-> leftBehind,
        failures |-> failures, events |-> events]

Becomes(next) == \E s \in {next} :
  /\ index' = s.index /\ preferences' = s.preferences
  /\ updated' = s.updated /\ tiles' = s.tiles /\ serverPaused' = s.serverPaused
  /\ pausedBwAttendeeIds' = s.pausedBw /\ optimal' = s.optimal /\ nonPaused' = s.nonPaused
  /\ subscribed' = s.subscribed /\ preProbe' = s.preProbe
  /\ preProbeNonPaused' = s.preProbeNonPaused /\ prevRemoteInfos' = s.prevInfos
  /\ startup' = s.startup /\ estimated' = s.estimated /\ usingPrev' = s.usingPrev
  /\ prevTarget' = s.prevTarget /\ baseline' = s.baseline /\ probe' = s.probe
  /\ probeFailed' = s.probeFailed /\ report' = s.report /\ lossGrew' = s.lossGrew
  /\ negotiating' = s.negotiating /\ uncounted' = s.uncounted /\ byApp' = s.byApp
  /\ forgotten' = s.forgotten /\ leftBehind' = s.leftBehind /\ failures' = s.failures
  /\ events' = s.events

NoTile == [kind |-> "none", paused |-> FALSE, held |-> FALSE, stream |-> 0]
NoStats == [est |-> 0, loss |-> 0, used |-> 0]

(* What reset() sets *)
Reset(s) ==
  [s EXCEPT !.optimal = {}, !.nonPaused = {}, !.subscribed = {}, !.preferences = NoPreferences,
            !.pausedBw = {}, !.updated = FALSE, !.startup = TRUE,
            !.usingPrev = FALSE, !.probe = "Not Probing", !.preProbe = {},
            !.preProbeNonPaused = {}, !.estimated = FALSE,
            !.report = NoStats, !.lossGrew = FALSE, !.probeFailed = FALSE]

Init ==
  /\ index = {} /\ preferences = NoPreferences /\ updated = FALSE
  /\ tiles = [a \in Attendees |-> NoTile] /\ serverPaused = {} /\ pausedBwAttendeeIds = {}
  /\ optimal = {} /\ nonPaused = {} /\ subscribed = {} /\ preProbe = {} /\ preProbeNonPaused = {}
  /\ prevRemoteInfos = {} /\ startup = TRUE /\ estimated = FALSE /\ usingPrev = FALSE
  /\ prevTarget = 0 /\ baseline = 0 /\ probe = "Not Probing" /\ probeFailed = FALSE
  /\ report = NoStats /\ lossGrew = FALSE /\ negotiating = FALSE
  /\ uncounted = {} /\ byApp = {} /\ forgotten = {} /\ leftBehind = {}
  /\ failures = 0 /\ events = 0

-----------------------------------------------------------------------------
(* The choice of streams *)
(* Everybody at priority 1, at a quality that goes down with their number *)
updateDefaultVideoPreferences(S) ==
  LET n == Cardinality(From(S))
  IN [i \in 1..n |-> [attendee |-> SetToSeq(From(S))[i], priority |-> 1,
                      size |-> IF n > 8 THEN 3 ELSE IF n > 4 THEN 6 ELSE 12]]

(* The defaults are made anew from every index frame. *)
getCurrentVideoPreferences(s) ==
  IF s.preferences = NoPreferences THEN updateDefaultVideoPreferences(s.index)
  ELSE s.preferences

(* The streams that may serve a preference of a priority, which are tried in  *)
(* the order of the preferences, and those of one by bitrate                 *)
Candidates(prefs, infos, priority) ==
  {c \in [at : DOMAIN prefs, stream : infos] :
     prefs[c.at].priority = priority /\ prefs[c.at].attendee = Attendee[c.stream]}
LastTried(C) ==
  CHOOSE c \in C : \A d \in C :
    d.at < c.at \/ (d.at = c.at /\ Rate[d.stream] <= Rate[c.stream])

(* The first upgrade that the rate does not allow is kept. *)
Spend(r, target, increase, x, chosen) ==
  IF r.total + increase <= target
  THEN [r EXCEPT !.total = @ + increase, !.chosen = chosen]
  ELSE IF r.delta = 0 THEN [r EXCEPT !.delta = increase, !.upgrade = x] ELSE r

Subscribe(r, target, x) ==
  IF Of(r.chosen, Attendee[x]) # {} THEN r
  ELSE Spend(r, target, Rate[x], x, r.chosen \cup {x})

(* Bug: the better stream comes beside the one it replaces. *)
UpgradeBeside(r, target, infos, x, size) ==
  LET lower == {y \in Of(r.chosen, Attendee[x]) : Rate[y] < Rate[x]}
      y == CHOOSE y \in lower : TRUE
  IN IF lower = {} \/ Rate[x] > size THEN r
     ELSE Spend(r, target, Rate[x] - Rate[y], x, r.chosen \cup {x})

Upgrade(r, target, infos, x, size) ==
  LET lower == {y \in Of(r.chosen, Attendee[x]) : Rate[y] < Rate[x]}
      hasSimulcastStreams == Cardinality(Of(infos, Attendee[x])) > 1
      y == CHOOSE y \in lower : TRUE
  IN IF lower = {} \/ ~hasSimulcastStreams \/ Rate[x] > size THEN r
     ELSE Spend(r, target, Rate[x] - Rate[y], x, (r.chosen \ {y}) \cup {x})

Level(r, target, prefs, infos, priority) ==
  LET C == Candidates(prefs, infos, priority)
      low == MapThenFoldSet(LAMBDA c, q : Subscribe(q, target, c.stream), r,
                            LAMBDA c : c, LastTried, C)
  IN MapThenFoldSet(LAMBDA c, q : Upgrade(q, target, infos, c.stream, prefs[c.at].size), low,
                    LAMBDA c : c, LastTried, C)

Chosen(kept) == [total |-> 0, delta |-> 0, upgrade |-> 0, chosen |-> kept]
PrioritiesOf(prefs) == {prefs[i].priority : i \in DOMAIN prefs}

(* Bug: the next priorities are served although the highest lacks something. *)
ServeAll(target, prefs, infos, kept) ==
  MapThenFoldSet(LAMBDA p, r : Level(r, target, prefs, infos, p), Chosen(kept),
                 LAMBDA p : p, Max, PrioritiesOf(prefs))

priorityPolicy(target, prefs, infos, kept) ==
  LET highest == Min(PrioritiesOf(prefs))
      first == Level(Chosen(kept), target, prefs, infos, highest)
  IN IF prefs = <<>> THEN Chosen(kept)
     ELSE IF first.delta # 0 THEN first
     ELSE MapThenFoldSet(LAMBDA p, r : Level(r, target, prefs, infos, p), first,
                         LAMBDA p : p, Max, PrioritiesOf(prefs) \ {highest})

-----------------------------------------------------------------------------
(* The target rate *)
determineTargetRate(s, late) ==
  LET est == s.report.est
      ends == /\ s.startup /\ est # 0
              /\ \/ est > DEFAULT_BANDWIDTH_KBPS \/ s.report.loss > 0
                 \/ s.estimated /\ late
      starting == s.startup /\ ~ends
      prev == IF ends THEN est ELSE s.prevTarget
      measured ==
        IF est = 0 THEN IF s.estimated THEN prev ELSE DEFAULT_BANDWIDTH_KBPS
        ELSE IF starting THEN DEFAULT_BANDWIDTH_KBPS
        ELSE IF s.probe = "Probing" /\ s.report.used > est /\ s.report.loss < 2
             THEN s.report.used + 1
        ELSE est
      keep == /\ ~starting /\ s.report.loss = 0
              /\ \/ s.usingPrev /\ est < prev
                 \/ 100 * est < 80 * prev \/ 100 * est < 20 * s.report.used
  IN [target |-> IF keep THEN prev ELSE measured,
      state |-> [s EXCEPT !.startup = starting, !.estimated = @ \/ est # 0,
                          !.prevTarget = prev, !.usingPrev = keep]]

-----------------------------------------------------------------------------
(* Probing for a higher rate *)
(* Bug: a probe is not given up when the streams change. *)
ProbeGoesOn(s, new, late) ==
  CASE new = "Probe Pending" /\ late -> [s EXCEPT !.probe = new]
    [] new = "Probing" /\ late ->
         [s EXCEPT !.probe = new, !.preProbe = s.subscribed, !.preProbeNonPaused = s.nonPaused]
    [] OTHER -> s

(* The new state of the probe, unless it is too soon for it *)
ProbeState(s, new, late) ==
  CASE new = "Not Probing" -> [s EXCEPT !.probe = new]
    [] new = "Probe Pending" /\ late -> [s EXCEPT !.probe = new]
    [] new = "Probing" /\ late ->
         [s EXCEPT !.probe = new, !.preProbe = s.subscribed, !.preProbeNonPaused = s.nonPaused]
    [] OTHER -> s

Sum(S) == MapThenSumSet(LAMBDA x : Rate[x], S)
calculateSubscribeRate(s, streams, pausedStreamIds) ==
  Sum({x \in streams : x \notin pausedStreamIds /\ Attendee[x] \notin s.pausedBw})

(* What to receive: the new choice, what was received, or what was before the probe *)
handleProbe(s, r, target, pausedStreamIds, timeout) ==
  LET over == [s EXCEPT !.probe = "Not Probing"]
  IN IF timeout THEN [use |-> "NewOptimal", state |-> over, chosen |-> r.chosen]
     ELSE IF s.report.loss > 2
     THEN [use |-> "PreProbe", state |-> [over EXCEPT !.probeFailed = TRUE], chosen |-> r.chosen]
     ELSE IF r.chosen = s.nonPaused
             \/ target > calculateSubscribeRate(s, s.optimal, pausedStreamIds)
     THEN [use |-> "NewOptimal", state |-> over, chosen |-> r.chosen]
     ELSE [use |-> "PreviousOptimal", state |-> s, chosen |-> r.chosen]

maybeOverrideOrProbe(s, r, target, late) ==
  LET same == r.chosen = s.nonPaused
      base == IF s.baseline = 0 THEN s.prevTarget ELSE s.baseline
      distance == IF target > base THEN target - base ELSE base - target
      keep == ~same /\ 100 * distance < target * (IF target > 3 THEN 15 ELSE 30)
      use == IF keep THEN "PreviousOptimal" ELSE "NewOptimal"
      t == [s EXCEPT !.baseline = IF keep THEN base ELSE target]
      upgraded == {y \in r.chosen : Attendee[y] # Attendee[r.upgrade]} \cup {r.upgrade}
      next == IF ~(same \/ keep) \/ s.lossGrew THEN "Not Probing"
              ELSE IF s.probe = "Not Probing" THEN "Probe Pending" ELSE "Probing"
      u == ProbeState(t, next, late)
  IN IF u.probe = "Probing"
     THEN [use |-> "NewOptimal", state |-> u, chosen |-> upgraded]
     ELSE [use |-> use, state |-> u, chosen |-> r.chosen]

-----------------------------------------------------------------------------
(* Tiles *)
pauseVideoTile(s, a) ==
  [s EXCEPT !.serverPaused = IF s.tiles[a].held THEN @ ELSE @ \cup {s.tiles[a].stream},
            !.tiles[a] = [@ EXCEPT !.paused = TRUE, !.held = TRUE]]

unpauseVideoTile(s, a) ==
  [s EXCEPT !.serverPaused = IF s.tiles[a].held THEN @ \ {s.tiles[a].stream} ELSE @,
            !.tiles[a] = [@ EXCEPT !.paused = FALSE, !.held = FALSE]]

removeVideoTiles(s, gone) ==
  [s EXCEPT !.tiles = [a \in Attendees |-> IF a \in gone THEN NoTile ELSE @[a]],
            !.byApp = @ \ gone, !.forgotten = @ \ gone]

cleanBwPausedTiles(s) ==
  LET wanted == {getCurrentVideoPreferences(s)[i].attendee :
                   i \in DOMAIN getCurrentVideoPreferences(s)}
      gone == {a \in Attendees : s.tiles[a].kind = "unbound" /\ a \notin From(s.index) \cap wanted}
  IN removeVideoTiles(s, gone)

(* An attendee who is not among the chosen is paused.  The stream that was  *)
(* received is kept then, for the sake of the tile.                         *)
PauseForBandwidth(r, infos, a) ==
  LET s == r.state
      was == Of(s.optimal, a)
  IN IF a \notin From(infos) THEN r
     ELSE IF s.tiles[a].kind = "none"
     THEN [r EXCEPT !.state.tiles[a] = [kind |-> "unbound", paused |-> TRUE, held |-> FALSE,
                                        stream |-> 0],
                    !.state.pausedBw = @ \cup {a}]
     ELSE [chosen |-> r.chosen \cup was,
           state |-> [IF was # {} /\ ~s.tiles[a].paused THEN pauseVideoTile(s, a) ELSE s
                        EXCEPT !.pausedBw = @ \cup {a}]]

(* Bug: the pause is forgotten but the tile not resumed. *)
PauseOrForget(r, infos, a) ==
  IF Of(r.chosen, a) = {} THEN PauseForBandwidth(r, infos, a)
  ELSE [r EXCEPT !.state.pausedBw = @ \ {a}]

PauseOrResume(r, infos, a) ==
  LET s == r.state
  IN IF Of(r.chosen, a) = {} THEN PauseForBandwidth(r, infos, a)
     ELSE IF s.tiles[a].paused /\ a \in s.pausedBw
     THEN [r EXCEPT !.state = [unpauseVideoTile(s, a) EXCEPT !.pausedBw = @ \ {a}]]
     ELSE r

processBwPausedStreams(s, infos, chosen) ==
  FoldLeft(LAMBDA r, p : PauseOrResume(r, infos, p.attendee),
           [state |-> s, chosen |-> chosen], getCurrentVideoPreferences(s))

-----------------------------------------------------------------------------
(* One calculation: too soon to subscribe again if nothing changed, too     *)
(* early to probe, late enough, or so late that a probe is given up.        *)
Times == {"soon", "early", "late", "too late"}

Apply(s, choice, target, infos) ==
  CASE choice.use = "PreviousOptimal" -> [s EXCEPT !.prevTarget = target]
    [] choice.use = "PreProbe" ->
         LET r == processBwPausedStreams([s EXCEPT !.optimal = s.preProbe], infos,
                                         s.preProbeNonPaused)
         IN [r.state EXCEPT !.failures = IF @ < 2 THEN @ + 1 ELSE @]
    [] choice.use = "NewOptimal" ->
         LET r == processBwPausedStreams([s EXCEPT !.nonPaused = choice.chosen], infos,
                                         choice.chosen)
         IN [r.state EXCEPT !.optimal = r.chosen, !.prevTarget = target,
                            !.failures = IF s.probe = "Probing" THEN @ ELSE 0]

(* What was received before a probe is not read once the probe is over. *)
ForgetProbe(s) ==
  IF s.probe = "Probing" THEN s ELSE [s EXCEPT !.preProbe = {}, !.preProbeNonPaused = {}]

Decide(s, kept, infos, pausedStreamIds, same, time) ==
  LET late == time \in {"late", "too late"}
      rate == determineTargetRate(s, late)
      t == [rate.state EXCEPT !.probeFailed = FALSE]
      r == priorityPolicy(rate.target, getCurrentVideoPreferences(s), infos, kept)
      new == [use |-> "NewOptimal", state |-> t, chosen |-> r.chosen]
      choice ==
        IF t.startup \/ ~same
        THEN [new EXCEPT !.state = ProbeState(t, "Not Probing", FALSE)]
        ELSE IF t.probe = "Probing"
        THEN handleProbe(t, r, rate.target, pausedStreamIds, time = "too late")
        ELSE IF r.delta # 0 THEN maybeOverrideOrProbe(t, r, rate.target, late)
        ELSE new
  IN ForgetProbe(Apply([choice.state EXCEPT !.prevInfos = infos, !.updated = FALSE], choice,
                       rate.target, infos))

calculateOptimalReceiveStreams(s, time) ==
  LET c == cleanBwPausedTiles(s)
      paused == {x \in s.index : c.tiles[Attendee[x]].paused /\ Attendee[x] \notin c.pausedBw}
      infos == s.index \ paused
      same == s.prevInfos = infos /\ ~s.updated
      unchanged == ~s.startup /\ same
  IN IF s.index = {} \/ s.preferences = <<>> THEN [s EXCEPT !.optimal = {}]
     ELSE IF unchanged /\ time = "soon" THEN c
     (* After a failed probe the configured delay of the network may apply. *)
     ELSE IF s.probeFailed /\ unchanged /\ time = "early"
     THEN [determineTargetRate(c, FALSE).state EXCEPT !.probeFailed = FALSE]
     ELSE Decide(c, paused \cap s.subscribed, infos, paused, same, time)

-----------------------------------------------------------------------------
(* Subscribing.  Streams of the same attendees are switched in place.       *)
Shown(s, a) ==
  IF s.tiles[a].kind = "bound" /\ Of(s.optimal, a) # {}
  THEN CHOOSE x \in Of(s.optimal, a) : TRUE ELSE s.tiles[a].stream

chooseSubscriptions(s) ==
  LET switched == {a \in Attendees : s.tiles[a].held /\ Shown(s, a) # s.tiles[a].stream}
  IN IF s.optimal = s.subscribed THEN s
     ELSE [s EXCEPT !.subscribed = s.optimal,
                    !.negotiating = From(s.optimal) # From(s.subscribed),
                    !.tiles = [a \in Attendees |-> [@[a] EXCEPT !.stream = Shown(s, a)]],
                    !.leftBehind = @ \cup {s.tiles[a].stream : a \in switched}]

wantsResubscribe(s, time) == chooseSubscriptions(calculateOptimalReceiveStreams(s, time))

(* One more of the things that are bounded *)
MayHappen == events < MaxEvents
Event == [Now EXCEPT !.events = @ + 1]

IndexFrame(frame, time) ==
  /\ MayHappen /\ ~negotiating /\ frame # index
  /\ Becomes(wantsResubscribe(
       [Event EXCEPT !.index = frame,
                   !.uncounted = (@ \cup (index \ prevRemoteInfos)) \ frame], time))

updateMetrics(s, r) ==
  IF s.index = {} THEN s ELSE [s EXCEPT !.report = r, !.lossGrew = r.loss > s.report.loss]

metricsDidReceive(r, time) ==
  /\ ~negotiating
  /\ Becomes(wantsResubscribe(updateMetrics(Now, r), time))

chooseRemoteVideoSources(prefs) ==
  /\ MayHappen /\ prefs # preferences
  /\ Becomes([Event EXCEPT !.preferences = prefs, !.updated = TRUE])

(* The tiles follow: tracks come and go with the subscriptions. *)
Negotiated ==
  LET received == subscribed \cap index
      Bound(a) ==
        IF Of(received, a) = {}
        THEN IF tiles[a].kind = "bound" THEN NoTile ELSE tiles[a]
        ELSE [tiles[a] EXCEPT !.kind = "bound", !.stream = CHOOSE x \in Of(received, a) : TRUE]
      removed == {a \in Attendees : tiles[a] # NoTile /\ Bound(a) = NoTile}
  IN /\ negotiating
     /\ Becomes([Now EXCEPT !.negotiating = FALSE, !.tiles = [a \in Attendees |-> Bound(a)],
                            !.serverPaused = @ \cap received, !.leftBehind = @ \cap received,
                            !.byApp = @ \ removed, !.forgotten = @ \ removed])

(* A reconnection resets the policy and ends the tracks.  The index of the  *)
(* new connection follows as a frame.                                       *)
Reconnect ==
  LET bound == {a \in Attendees : tiles[a].kind = "bound"}
  IN /\ MayHappen
     /\ Becomes([Reset(Event) EXCEPT
                !.tiles = [a \in Attendees |-> IF a \in bound THEN NoTile ELSE tiles[a]],
                !.negotiating = FALSE, !.serverPaused = {}, !.index = {}, !.uncounted = {},
                !.leftBehind = {}, !.failures = 0,
                !.byApp = @ \ bound,
                !.forgotten = {a \in @ \cup pausedBwAttendeeIds : tiles[a].kind = "unbound"}])

AppPause(a) ==
  /\ MayHappen /\ tiles[a].kind # "none"
  /\ Becomes([pauseVideoTile(Event, a) EXCEPT !.byApp = @ \cup {a}])

AppUnpause(a) ==
  /\ MayHappen /\ tiles[a].kind # "none"
  /\ Becomes([unpauseVideoTile(Event, a) EXCEPT !.byApp = @ \ {a}, !.forgotten = @ \ {a}])

Next ==
  \/ \E time \in Times : \/ \E frame \in Indexes : IndexFrame(frame, time)
                         \/ \E r \in Reports : metricsDidReceive(r, time)
  \/ \E prefs \in Preferences : chooseRemoteVideoSources(prefs)
  \/ Negotiated \/ Reconnect
  \/ \E a \in Attendees : AppPause(a) \/ AppUnpause(a)

Spec == Init /\ [][Next]_vars

-----------------------------------------------------------------------------
(* Every variable has its type, and at most one stream of an attendee is    *)
(* subscribed to.                                                           *)
TypeOK ==
  /\ index \in Indexes \cup {{}} /\ preferences \in Preferences \cup {NoPreferences}
  /\ \A a \in Attendees : /\ tiles[a].kind \in {"none", "unbound", "bound"}
                          /\ tiles[a].kind = "none" => tiles[a] = NoTile
  /\ \A S \in {optimal, nonPaused, subscribed, preProbe, preProbeNonPaused} :
       S \subseteq Streams /\ \A a \in Attendees : Cardinality(Of(S, a)) <= 1
  /\ probe \in {"Not Probing", "Probe Pending", "Probing"}
  /\ byApp \subseteq Attendees /\ forgotten \subseteq Attendees
  /\ \A a \in byApp \cup forgotten : tiles[a].kind # "none"

(* Whatever the target, priorityPolicy (VideoPriorityBasedPolicy.ts:832)    *)
(* stays within it, leaves nobody out who could still be served, and serves *)
(* lower priorities only when the highest has all it may have.              *)
Available == {x \in index : ~tiles[Attendee[x]].paused}
Best(a, size) ==
  LET low == CHOOSE x \in Of(Available, a) : \A y \in Of(Available, a) : Rate[x] <= Rate[y]
      may == {x \in Of(Available, a) : Rate[x] <= size} \cup {low}
  IN CHOOSE x \in may : \A y \in may : Rate[y] <= Rate[x]
SelectionIsBest ==
  \A target \in Targets :
    LET prefs == getCurrentVideoPreferences(Now)
        r == priorityPolicy(target, prefs, Available, {})
        served == {i \in DOMAIN prefs : prefs[i].attendee \in From(Available)}
        Has(i) == Of(r.chosen, prefs[i].attendee)
        Top(i) == \A j \in DOMAIN prefs : prefs[i].priority <= prefs[j].priority
        full == \A i \in served : Top(i) => Has(i) = {Best(prefs[i].attendee, prefs[i].size)}
    IN /\ Sum(r.chosen) <= target
       /\ \A i \in served : Has(i) = {} =>
            \/ ~Top(i) /\ ~full
            \/ \A x \in Of(Available, prefs[i].attendee) : Sum(r.chosen) + Rate[x] > target
       /\ \A i \in served : Has(i) # {} => Top(i) \/ full

(* The policy subscribes only to what the index has, falling back from a    *)
(* probe included: but for streams it did not count when they went, their   *)
(* tile having been paused, and those of attendees it has itself paused.    *)
(* After a fallback it still takes what the probe chose for what it has, so  *)
(* nothing is said after a second fallback until it chooses anew.           *)
SubscriptionsExist ==
  failures < 2 =>
    \A x \in optimal : x \in index \cup uncounted \/ Attendee[x] \in pausedBwAttendeeIds

(* Every remote tile that is paused has someone who will unpause it: the    *)
(* application, or the policy, when there is bandwidth again.               *)
PausedHasOwner ==
  \A a \in Attendees : tiles[a].paused => a \in byApp \cup pausedBwAttendeeIds \cup forgotten

(* What a tile shows that is not paused the server does not hold back; but a *)
(* fallback pauses the stream of the probe, for a tile that then shows       *)
(* another, and nobody resumes it.                                          *)
VisibleIsSent ==
  \A a \in Attendees :
    tiles[a].kind = "bound" /\ ~tiles[a].paused =>
      tiles[a].stream \notin serverPaused \ leftBehind

(* What the policy subscribes to is there, and the policy, the tiles and    *)
(* the server agree on what is paused, and by whom.                         *)
PolicyAgrees == SubscriptionsExist /\ PausedHasOwner /\ VisibleIsSent
=============================================================================
