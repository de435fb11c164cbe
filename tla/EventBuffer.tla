------------------------------ MODULE EventBuffer ------------------------------
(***************************************************************************)
(* DefaultMeetingEventReporter over InMemoryJSONEventBuffer: meeting events  *)
(* on their way to the ingestion service.  An event is added to the current *)
(* ingestion event, which moves to the buffer when it is large enough; an    *)
(* interval posts the head of the buffer; what fails to be posted waits for  *)
(* a beacon, sent when the page is hidden or reporting stops.  Important     *)
(* events are posted at once.  Accepted events are numbered in order; the    *)
(* numbers stand for their contents.                                        *)
(***************************************************************************)
EXTENDS Naturals, Sequences, FiniteSets, SequencesExt

CONSTANTS
  flushSize, totalBufferItems, maxBufferCapacityBytes, retryCountLimit,  \* EventBufferConfiguration
  HeadSize,     \* size of an ingestion event without payloads
  Sizes,        \* the sizes of events
  Browsers,     \* the browsers considered: Firefox keeps the requests a page redirect cancels
  MaxEvents     \* bound on the events of a behaviour

MAX_PAYLOAD_ITEMS == 2
maxBufferItemCapacityBytes == maxBufferCapacityBytes \div totalBufferItems

ASSUME ConfigurationAssumption ==
  /\ {flushSize, totalBufferItems, maxBufferCapacityBytes, retryCountLimit} \subseteq Nat \ {0}
  /\ HeadSize \in Nat \ {0} /\ Sizes \subseteq Nat \ {0} /\ MaxEvents \in Nat
  /\ Browsers \subseteq {"firefox", "other"}

VARIABLES
  reporting, destroyed,     \* DefaultMeetingEventReporter
  accepted,                 \* how many events were accepted
  currentIngestionEvent,    \* the events of the current ingestion event
  ingestionEventSize,
  buffer, bufferSize,       \* full ingestion events, and what the code takes for their size
  failedIngestionEvents,    \* a set: its order does not matter
  lock,
  posts,                    \* requests under way: [events, important, retryCount]
  cancellableEvents,        \* the batches Firefox may cancel
  handed,                   \* how often the service was given each event, as far as the client knows
  lost,                     \* events in a beacon the browser refused
  browser                   \* fixed at the start of a behaviour

currentVars == <<currentIngestionEvent, ingestionEventSize>>
reporterVars == <<reporting, destroyed>>
outcomeVars == <<handed, lost>>
bufferVars == <<reporterVars, accepted, currentVars, buffer, bufferSize, failedIngestionEvents,
          lock, posts, cancellableEvents, outcomeVars, browser>>

Events == 1..MaxEvents

(* The events of a sequence of ingestion events. *)
In(items) == UNION {Range(items[i]) : i \in DOMAIN items}

BufferInit ==
  /\ reporting = TRUE /\ destroyed = FALSE
  /\ accepted = 0
  /\ currentIngestionEvent = <<>> /\ ingestionEventSize = HeadSize
  /\ buffer = <<>> /\ bufferSize = 0
  /\ failedIngestionEvents = {}
  /\ lock = FALSE /\ posts = {} /\ cancellableEvents = {}
  /\ handed = [e \in Events |-> 0] /\ lost = {}
  /\ browser \in Browsers

-----------------------------------------------------------------------------
isFull == bufferSize = maxBufferCapacityBytes \/ Len(buffer) = totalBufferItems
isEmpty == buffer = <<>> \/ bufferSize = 0

(* Bug: an ingestion event with one payload too many. *)
ThresholdTooLate(size, total, payloads) ==
  \/ size + total >= maxBufferItemCapacityBytes
  \/ Len(payloads) > MAX_PAYLOAD_ITEMS

(* total already counts size, which is added once more.                      *)
bufferItemThresholdReached(size, total, payloads) ==
  \/ size + total >= maxBufferItemCapacityBytes
  \/ Len(payloads) = MAX_PAYLOAD_ITEMS

(* addItem of an event that is not important.  A refused event changes       *)
(* nothing: the reporter logs the error.                                     *)
AddItem(size) ==
  LET payloads == Append(currentIngestionEvent, accepted + 1)
      total == ingestionEventSize + size
  IN
  /\ ~isFull
  /\ accepted' = accepted + 1
  /\ IF bufferItemThresholdReached(size, total, payloads)
     THEN /\ buffer' = Append(buffer, payloads)
          /\ bufferSize' = bufferSize + total
          /\ currentIngestionEvent' = <<>> /\ ingestionEventSize' = HeadSize
     ELSE /\ currentIngestionEvent' = payloads /\ ingestionEventSize' = total
          /\ UNCHANGED <<buffer, bufferSize>>
  /\ UNCHANGED posts

Post(items, important) == [events |-> items, important |-> important, retryCount |-> 0]

SendEventImmediately ==
  /\ accepted' = accepted + 1
  /\ posts' = posts \union {Post(<<<<accepted + 1>>>>, TRUE)}
  /\ UNCHANGED <<buffer, bufferSize, currentVars>>

(* reportEvent, whether or not reporting is on. *)
ReportEvent ==
  /\ ~destroyed
  /\ accepted < MaxEvents
  /\ SendEventImmediately \/ \E size \in Sizes : AddItem(size)
  /\ UNCHANGED <<reporterVars, failedIngestionEvents, lock, cancellableEvents, outcomeVars, browser>>

-----------------------------------------------------------------------------
(* getItems: the items to send, and the buffer without them. *)
Batch == SubSeq(buffer, 1, IF Len(buffer) < flushSize + 1 THEN Len(buffer) ELSE flushSize + 1)

(* Bug: more is taken out of the buffer than is sent. *)
RestDropsOne == SubSeq(buffer, Len(Batch) + 2, Len(buffer))
Rest == SubSeq(buffer, Len(Batch) + 1, Len(buffer))

MaySend == ~lock

IntervalRuns == reporting

(* The interval of start calls sendEvents. *)
SendEvents ==
  /\ IntervalRuns
  /\ MaySend
  /\ ~isEmpty
  /\ lock' = TRUE
  /\ buffer' = Rest
  /\ posts' = posts \union {Post(Batch, FALSE)}
  /\ cancellableEvents' = IF browser = "firefox" THEN cancellableEvents \union {Batch}
                                                 ELSE cancellableEvents
  /\ UNCHANGED <<reporterVars, accepted, currentVars, bufferSize, failedIngestionEvents,
                 outcomeVars, browser>>

HandOver(events) ==
  handed' = [e \in Events |-> IF e \in events THEN handed[e] + 1 ELSE handed[e]]

(* Bug: a request that ends in an error keeps the lock. *)
ReleaseIfOk(p, ok) == IF p.important \/ ~ok THEN lock ELSE FALSE
Release(p, ok) == IF p.important THEN lock ELSE FALSE

(* The end of a request: p succeeds, or fails with `failed` put aside.        *)
Finish(p, ok) ==
  /\ posts' = posts \ {p}
  /\ lock' = Release(p, ok)
  /\ cancellableEvents' = IF p.important THEN cancellableEvents ELSE cancellableEvents \ {p.events}

PostSucceeds(p) ==
  /\ Finish(p, TRUE)
  /\ HandOver(In(p.events))
  /\ UNCHANGED <<failedIngestionEvents, lost>>

(* Bug: what could not be posted is dropped. *)
DropFailed(p) == UNCHANGED failedIngestionEvents
PutAside(p) == failedIngestionEvents' = failedIngestionEvents \union Range(p.events)

(* A status that is not retried, and any error on other browsers.             *)
PostFails(p) ==
  /\ Finish(p, FALSE)
  /\ PutAside(p)
  /\ UNCHANGED outcomeVars

(* fetch fails, or the retries are used up: Firefox beacons important events. *)
PostThrows(p) ==
  IF p.important /\ browser = "firefox"
  THEN /\ Finish(p, FALSE)
       /\ \/ HandOver(In(p.events)) /\ UNCHANGED <<failedIngestionEvents, lost>>
          \/ PutAside(p) /\ UNCHANGED outcomeVars
  ELSE PostFails(p)

(* A status that asks for a retry, after a backoff. *)
PostRetried(p) ==
  IF p.retryCount + 1 < retryCountLimit
  THEN /\ posts' = (posts \ {p}) \union {[p EXCEPT !.retryCount = @ + 1]}
       /\ UNCHANGED <<lock, cancellableEvents, failedIngestionEvents, outcomeVars>>
  ELSE PostThrows(p)

PostAnswered ==
  /\ \E p \in posts : PostSucceeds(p) \/ PostFails(p) \/ PostThrows(p) \/ PostRetried(p)
  /\ UNCHANGED <<reporterVars, accepted, currentVars, buffer, bufferSize, browser>>

-----------------------------------------------------------------------------
(* Bug: failed events stay to be beaconed again. *)
KeepFailed == UNCHANGED failedIngestionEvents
ClearFailed == failedIngestionEvents' = {}

Beaconed ==
  In(buffer) \union Range(currentIngestionEvent)
    \union (UNION {Range(i) : i \in failedIngestionEvents})
    \union (UNION {In(b) : b \in cancellableEvents})

(* sendBeacon: everything at once; bufferSize is left as it was.              *)
SendBeacon ==
  /\ buffer' = <<>>
  /\ currentIngestionEvent' = <<>>
  /\ ClearFailed
  /\ cancellableEvents' = {}
  /\ \/ HandOver(Beaconed) /\ UNCHANGED lost
     \/ lost' = lost \union Beaconed /\ UNCHANGED handed

PageHidden ==
  /\ reporting
  /\ SendBeacon
  /\ ingestionEventSize' = HeadSize
  /\ UNCHANGED <<reporterVars, accepted, bufferSize, lock, posts, browser>>

Stop ==
  /\ reporting /\ reporting' = FALSE
  /\ SendBeacon
  /\ ingestionEventSize' = HeadSize
  /\ UNCHANGED <<destroyed, accepted, bufferSize, lock, posts, browser>>

Start ==
  /\ ~reporting /\ ~destroyed
  /\ reporting' = TRUE
  /\ UNCHANGED <<destroyed, accepted, currentVars, buffer, bufferSize, failedIngestionEvents,
                 lock, posts, cancellableEvents, outcomeVars, browser>>

(* destroy of the reporter: stop, and the buffer's own stop and reset.        *)
Destroy ==
  /\ ~destroyed /\ destroyed' = TRUE
  /\ reporting' = FALSE
  /\ SendBeacon
  /\ bufferSize' = 0 /\ ingestionEventSize' = 0 /\ lock' = FALSE
  /\ UNCHANGED <<accepted, posts, browser>>

BufferNext ==
  \/ ReportEvent \/ SendEvents \/ PostAnswered
  \/ PageHidden \/ Stop \/ Start \/ Destroy

(* The interval fires as long as reporting is on, and requests are answered.  *)
Fairness == WF_bufferVars(SendEvents) /\ WF_bufferVars(PostAnswered)

BufferSpec == BufferInit /\ [][BufferNext]_bufferVars /\ Fairness

-----------------------------------------------------------------------------
BufferTypeOK ==
  /\ {reporting, destroyed, lock} \subseteq BOOLEAN
  /\ accepted \in 0..MaxEvents
  /\ currentIngestionEvent \in Seq(Events)
  /\ Len(currentIngestionEvent) < MAX_PAYLOAD_ITEMS
  /\ buffer \in Seq(Seq(Events)) /\ Len(buffer) <= totalBufferItems
  /\ \A i \in DOMAIN buffer : Len(buffer[i]) \in 1..MAX_PAYLOAD_ITEMS
  /\ \A i \in failedIngestionEvents : i \in Seq(Events)
  /\ bufferSize \in Nat /\ ingestionEventSize \in Nat
  /\ \A p \in posts : p.events \in Seq(Seq(Events)) /\ p.retryCount < retryCountLimit
  /\ handed \in [Events -> Nat] /\ lost \subseteq Events

(* Where an event can be before the client is done with it. *)
Places(e) ==
  Cardinality({i \in DOMAIN currentIngestionEvent : currentIngestionEvent[i] = e})
  + Cardinality({i \in DOMAIN buffer : e \in Range(buffer[i])})
  + Cardinality({i \in failedIngestionEvents : e \in Range(i)})
  + Cardinality({p \in posts : e \in In(p.events)})

(* Every accepted event is in one place or done with, whatever fails and      *)
(* whenever the page is hidden: none disappears, and none is sent twice but   *)
(* in Firefox, which beacons what it is posting and may send that twice.      *)
Conserved ==
  \A e \in Events :
    LET n == Places(e) + handed[e] + (IF e \in lost THEN 1 ELSE 0) IN
    IF e > accepted THEN n = 0
    ELSE IF browser = "firefox" THEN n \in 1..2
    ELSE n = 1

Increasing(item) == \A i, j \in DOMAIN item : i < j => item[i] < item[j]
Before(item, other) == \A x \in Range(item), y \in Range(other) : x < y

(* Events leave in the order they came: what is being posted from the buffer  *)
(* is older than what is in it, and that is older than the current one.       *)
InOrder ==
  ~destroyed =>
    \A p \in posts : ~p.important =>
      LET items == p.events \o buffer \o <<currentIngestionEvent>> IN
      \A i \in DOMAIN items :
        Increasing(items[i]) /\ \A j \in DOMAIN items : i < j => Before(items[i], items[j])

(* Every event has its place, and the next to leave is the oldest.            *)
ConservedInOrder == Conserved /\ InOrder

(* What is in the buffer leaves it, as long as reporting is on.               *)
BufferDrains ==
  \A e \in Events : e \in In(buffer) ~> (e \notin In(buffer) \/ ~reporting)

=============================================================================
