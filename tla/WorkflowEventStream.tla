------------------------- MODULE WorkflowEventStream -------------------------
(***************************************************************************)
(* A streaming workflow request: the HTTP handler decides when the Celery  *)
(* task is started (_build_streaming_task_on_subscribe), the response      *)
(* generator subscribes to the run's topic and forwards its events         *)
(* (stream_topic_events), and the task publishes them                      *)
(* (_publish_streaming_response).  The topic is the channel of the modules *)
(* PubSubSubscription or StreamsSubscription, reduced here to the moments  *)
(* at which a published event reaches the subscription's queue, and to the *)
(* two ways of losing one there: a full queue and a listener that ends.    *)
(***************************************************************************)
EXTENDS Naturals, Sequences, Functions

CONSTANTS
  ChannelTypes, \* PUBSUB_REDIS_CHANNEL_TYPE: "pubsub" (or sharded), "streams"
  NumEvents,    \* the events of a run; the last one is a terminal event
  QueueSize,    \* maxsize of a Pub/Sub subscription's queue (1024)
  MaxFaults     \* bound on failed deliveries to Celery and on dying tasks

ASSUME EventStreamAssumption ==
  /\ ChannelTypes \subseteq {"pubsub", "streams"}
  /\ NumEvents \in Nat \ {0}
  /\ QueueSize \in Nat \ {0}
  /\ MaxFaults \in Nat

VARIABLES
  channel,    \* the configured type, which never changes
  started,    \* the nonlocal `started`
  starts,     \* how many times start_task() has succeeded
  timer,      \* the fallback timer
  request,    \* where the response generator is
  attached,   \* whether an event published now reaches the subscription
  failed,     \* a Redis error has ended the listener thread
  hand,       \* the event for which the listener found the queue full, or 0
  sent,       \* how many events the task has published
  running,    \* the task has been delivered and has not died
  inbox,      \* events in the subscription, not yet received
  got,        \* the events sent to the client
  faults,
  gated,      \* history: the task was started with the subscription attached
  dropped     \* history: the events that a full queue has dropped

start == <<started, starts, gated>>
queue == <<hand, inbox, dropped>>
vars == <<channel, start, timer, request, attached, failed, sent, running, queue, got, faults>>

RequestStates == {"building", "returned", "entering", "callback", "loop", "done"}

Init ==
  /\ channel \in ChannelTypes
  /\ started = FALSE
  /\ starts = 0
  /\ timer = "none"
  /\ request = "building"
  /\ attached = FALSE
  /\ failed = FALSE
  /\ hand = 0
  /\ sent = 0
  /\ running = FALSE
  /\ inbox = <<>>
  /\ got = <<>>
  /\ faults = 0
  /\ gated = FALSE
  /\ dropped = {}

-----------------------------------------------------------------------------
(* Starting the task *)

(***************************************************************************)
(* _try_start, under its lock.  A delivery that fails is logged and leaves *)
(* `started` as it was, so that a later caller tries again.  A name with   *)
(* an ending after "_" is a mistake that a property must catch.            *)
(***************************************************************************)
StartedAfter_Forgotten == started
StartedAfter == TRUE

StartSucceeds ==
  /\ ~started
  /\ started' = StartedAfter
  /\ starts' = starts + 1
  /\ running' = TRUE
  /\ gated' = attached
  /\ UNCHANGED faults

StartFails ==
  /\ ~started
  /\ faults < MaxFaults
  /\ faults' = faults + 1
  /\ UNCHANGED <<start, running>>

AlreadyStarted == started /\ UNCHANGED <<start, running, faults>>

TimerAtBuild_None == "none"
TimerAtBuild == "armed"

(***************************************************************************)
(* The handler builds the callback and returns the generator.  With        *)
(* streams it starts the task at once, otherwise it arms the timer.        *)
(***************************************************************************)
Build ==
  /\ request = "building"
  /\ request' = "returned"
  /\ IF channel = "streams"
     THEN /\ StartSucceeds \/ StartFails
          /\ UNCHANGED timer
     ELSE /\ timer' = TimerAtBuild
          /\ UNCHANGED <<start, running, faults>>
  /\ UNCHANGED <<channel, attached, failed, sent, queue, got>>

TimerFires ==
  /\ timer = "armed"
  /\ timer' = "fired"
  /\ StartSucceeds \/ StartFails \/ AlreadyStarted
  /\ UNCHANGED <<channel, request, attached, failed, sent, queue, got>>

-----------------------------------------------------------------------------
(* The response generator *)

(***************************************************************************)
(* The client is gone: the response is closed, and with it the generator,  *)
(* before its first step or where it yields (a ping or an event).  The     *)
(* with block closes the subscription.                                     *)
(***************************************************************************)
Leave ==
  /\ request \in {"returned", "entering", "loop"}
  /\ request' = "done"
  /\ attached' = FALSE
  /\ UNCHANGED <<channel, start, timer, failed, sent, running, queue, got, faults>>

Ping ==
  /\ request = "returned"
  /\ request' = "entering"
  /\ UNCHANGED <<channel, start, timer, attached, failed, sent, running, queue, got, faults>>

Subscribe ==
  /\ request = "entering"
  /\ request' = "callback"
  /\ UNCHANGED <<channel, start, timer, attached, failed, sent, running, queue, got, faults>>

(***************************************************************************)
(* A Pub/Sub subscription sends SUBSCRIBE as it is entered; an error there *)
(* ends the response before the callback.                                  *)
(***************************************************************************)
SubscribeFails ==
  /\ request = "entering"
  /\ channel = "pubsub"
  /\ request' = "done"
  /\ UNCHANGED <<channel, start, timer, attached, failed, sent, running, queue, got, faults>>

(***************************************************************************)
(* on_subscribe: start the task if nobody has, and then cancel the timer.  *)
(***************************************************************************)
OnSubscribe ==
  /\ request = "callback"
  /\ request' = "loop"
  /\ \/ /\ StartSucceeds \/ AlreadyStarted
        /\ timer' = IF timer = "armed" THEN "cancelled" ELSE timer
     \/ StartFails /\ UNCHANGED timer
  /\ UNCHANGED <<channel, attached, failed, sent, queue, got>>

EventToClient == Head(inbox)

RestOfInbox_Drained == <<>>
RestOfInbox == Tail(inbox)

(***************************************************************************)
(* One message: it is forwarded, and a terminal one ends the stream.       *)
(***************************************************************************)
Receive ==
  /\ request = "loop"
  /\ inbox # <<>>
  /\ got' = Append(got, EventToClient)
  /\ inbox' = RestOfInbox
  /\ IF Head(inbox) = NumEvents
     THEN request' = "done" /\ attached' = FALSE
     ELSE UNCHANGED <<request, attached>>
  /\ UNCHANGED <<channel, start, timer, failed, hand, dropped, sent, running, faults>>

(***************************************************************************)
(* Nothing came for idle_timeout: the stream ends without a terminal       *)
(* event: the task has ended, has not begun or is only slow, the event was *)
(* missed, or the listener of a Pub/Sub subscription is gone.              *)
(***************************************************************************)
NothingCame_Never == FALSE
NothingCame == inbox = <<>>

IdleTimeout ==
  /\ request = "loop"
  /\ NothingCame
  /\ request' = "done"
  /\ attached' = FALSE
  /\ UNCHANGED <<channel, start, timer, failed, sent, running, queue, got, faults>>

(***************************************************************************)
(* A stream's listener leaves a sentinel and then marks the subscription   *)
(* closed: receive() raises at the one or the other, and what the queue    *)
(* still holds is not read.                                                *)
(***************************************************************************)
SubscriptionClosed ==
  /\ request = "loop"
  /\ channel = "streams"
  /\ failed
  /\ request' = "done"
  /\ UNCHANGED <<channel, start, timer, attached, failed, sent, running, queue, got, faults>>

-----------------------------------------------------------------------------
(* The channel *)

Entered == request \in {"callback", "loop"}

(***************************************************************************)
(* Redis handles SUBSCRIBE, or the listener's XREAD from "$".              *)
(***************************************************************************)
Attach ==
  /\ Entered
  /\ ~attached
  /\ ~failed
  /\ attached' = TRUE
  /\ UNCHANGED <<channel, start, timer, request, failed, sent, running, queue, got, faults>>

(***************************************************************************)
(* An XREAD from "$" returns nothing; until the next one nothing is seen.  *)
(***************************************************************************)
Detach ==
  /\ channel = "streams"
  /\ attached
  /\ inbox = <<>> /\ got = <<>>
  /\ attached' = FALSE
  /\ UNCHANGED <<channel, start, timer, request, failed, sent, running, queue, got, faults>>

(***************************************************************************)
(* A Redis error ends the listener thread: nothing reaches the queue any   *)
(* more.                                                                   *)
(***************************************************************************)
ListenerFails ==
  /\ Entered
  /\ ~failed
  /\ hand = 0
  /\ failed' = TRUE
  /\ attached' = FALSE
  /\ UNCHANGED <<channel, start, timer, request, sent, running, queue, got, faults>>

HasRoom == channel = "streams" \/ Len(inbox) < QueueSize

(***************************************************************************)
(* What the listener does with an event: it goes into the queue, unless a  *)
(* Pub/Sub queue is full.                                                  *)
(***************************************************************************)
Enqueue(e) ==
  /\ IF HasRoom
     THEN inbox' = Append(inbox, e) /\ UNCHANGED hand
     ELSE hand' = e /\ UNCHANGED inbox
  /\ UNCHANGED dropped

(***************************************************************************)
(* The queue was full: the listener drops the oldest event, unless the     *)
(* reader has meanwhile emptied the queue, and puts its own.               *)
(***************************************************************************)
MakeRoom ==
  /\ hand # 0
  /\ attached
  /\ dropped' = dropped \union (IF inbox = <<>> THEN {} ELSE {Head(inbox)})
  /\ inbox' = Append(IF inbox = <<>> THEN <<>> ELSE Tail(inbox), hand)
  /\ hand' = 0
  /\ UNCHANGED <<channel, start, timer, request, attached, failed, sent, running, got, faults>>

-----------------------------------------------------------------------------
(* The task *)

(***************************************************************************)
(* What the task publishes while the listener makes room waits in the      *)
(* connection until it has.                                                *)
(***************************************************************************)
Publish ==
  /\ running
  /\ sent < NumEvents
  /\ attached => hand = 0
  /\ sent' = sent + 1
  /\ IF attached THEN Enqueue(sent + 1) ELSE UNCHANGED queue
  /\ UNCHANGED <<channel, start, timer, request, attached, failed, running, got, faults>>

TaskDies ==
  /\ running
  /\ sent < NumEvents
  /\ faults < MaxFaults
  /\ faults' = faults + 1
  /\ running' = FALSE
  /\ UNCHANGED <<channel, start, timer, request, attached, failed, sent, queue, got>>

-----------------------------------------------------------------------------
AfterPing ==
  \/ Subscribe \/ SubscribeFails \/ OnSubscribe
  \/ Receive \/ IdleTimeout \/ SubscriptionClosed

Next ==
  \/ Build \/ TimerFires
  \/ Ping \/ AfterPing \/ Leave
  \/ Attach \/ Detach \/ ListenerFails \/ MakeRoom
  \/ Publish \/ TaskDies

(***************************************************************************)
(* The timer fires, Redis answers, the task and a generator that was read  *)
(* once go on; the handler need not be called, nor the client read at all. *)
(***************************************************************************)
Fairness ==
  /\ WF_vars(TimerFires)
  /\ WF_vars(AfterPing)
  /\ WF_vars(Attach)
  /\ WF_vars(MakeRoom)
  /\ WF_vars(Publish)

Safety == Init /\ [][Next]_vars
Spec == Safety /\ Fairness

-----------------------------------------------------------------------------
Events == 1..NumEvents

TypeOK ==
  /\ channel \in ChannelTypes
  /\ started \in BOOLEAN
  /\ starts \in Nat
  /\ timer \in {"none", "armed", "fired", "cancelled"}
  /\ request \in RequestStates
  /\ attached \in BOOLEAN
  /\ sent \in 0..NumEvents
  /\ running \in BOOLEAN
  /\ inbox \in Seq(Events)
  /\ got \in Seq(Events)
  /\ faults \in 0..MaxFaults
  /\ gated \in BOOLEAN
  /\ failed \in BOOLEAN
  /\ hand \in 0..NumEvents
  /\ dropped \subseteq Events

(***************************************************************************)
(* The task is delivered to Celery at most once, though the handler, the   *)
(* timer thread and the generator may all try, and try again.              *)
(***************************************************************************)
StartedOnce == starts <= 1

(***************************************************************************)
(* The client receives events in their order, and after the first one it   *)
(* misses only what a full queue dropped: with Streams nothing.            *)
(***************************************************************************)
Between(a, b) == (a + 1)..(b - 1)
NoHoleInStream ==
  /\ \A i, j \in DOMAIN got : i < j => got[i] < got[j] /\ Between(got[i], got[j]) \subseteq Range(got) \union dropped
  /\ channel = "streams" => dropped = {}

(***************************************************************************)
(* A task started by a subscriber that Pub/Sub has already attached loses  *)
(* no event but those a full queue drops: the response knows the run from  *)
(* its first event to the last one published, or to the error that ended   *)
(* its listener.                                                           *)
(***************************************************************************)
Known == Range(got) \union Range(inbox) \union ({hand} \ {0}) \union dropped
GatedStartLosesOnlyDrops ==
  channel = "pubsub" /\ gated /\ request = "loop" =>
    \E k \in 0..sent : Known = 1..k /\ (k = sent \/ failed)

(***************************************************************************)
(* A run is started even when its client never reads, unless Celery cannot *)
(* be reached.                                                             *)
(***************************************************************************)
RunIsStarted == (request = "returned") ~> (starts = 1 \/ faults > 0)

(***************************************************************************)
(* A generator that was read once ends: with the terminal event, or by its *)
(* idle timeout when this event was missed or is never sent, also when the *)
(* listener is gone and nothing tells the reader.                          *)
(***************************************************************************)
StreamEnds == (request = "entering") ~> (request = "done")

(***************************************************************************)
(* "With Redis Streams, we can safely start right away; consumers can read *)
(* past events." (services/app_generate_service.py): the first event the   *)
(* client sees is the first of the run.                                    *)
(***************************************************************************)
PastEventsAreRead == got # <<>> => Head(got) = 1
=============================================================================
