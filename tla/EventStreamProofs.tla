-------------------------- MODULE EventStreamProofs --------------------------
(***************************************************************************)
(* Proofs about WorkflowEventStream, for runs of any length, queues of any *)
(* size, a listener that may end and any number of faults.  Known, the     *)
(* events that reached the subscription, is an interval: an event is       *)
(* missed only while nothing is known, or after the listener has ended or  *)
(* the response is done.  Inside Known events only move: from the hand to  *)
(* the queue, and from there to the client or to what was dropped.         *)
(* SomebodyStarts is the part of RunIsStarted that holds in every state.   *)
(***************************************************************************)
EXTENDS WorkflowEventStream, SequenceTheorems, TLAPS

Ascending(s) == \A i, j \in DOMAIN s : i < j => s[i] < s[j]

\* Taking the first element of a sequence.
LEMMA TakingFirst ==
  ASSUME NEW s \in Seq(Events), s # <<>>
  PROVE  /\ Head(s) \in Events /\ Tail(s) \in Seq(Events)
         /\ Range(s) = {Head(s)} \union Range(Tail(s))
         /\ Ascending(s) => Ascending(Tail(s)) /\ \A e \in Range(Tail(s)) : Head(s) < e
<1>1. /\ Tail(s) \in Seq(Events) /\ Len(Tail(s)) = Len(s) - 1
      /\ \A i \in 1..Len(Tail(s)) : Tail(s)[i] = s[i + 1]
  BY HeadTailProperties
<1>2. Len(s) \in Nat \ {0} /\ DOMAIN s = 1..Len(s) /\ DOMAIN Tail(s) = 1..Len(s) - 1
  BY <1>1, EmptySeq, LenProperties
<1>3. Head(s) = s[1] /\ s[1] \in Events
  BY <1>2, ElementOfSeq
<1>4. \A i \in 1..Len(s) - 1 : i + 1 \in 1..Len(s) /\ Tail(s)[i] = s[i + 1]
  BY <1>1, <1>2
<1>5. \A i \in 1..Len(s) : i = 1 \/ (i - 1 \in 1..Len(s) - 1 /\ Tail(s)[i - 1] = s[i])
  BY <1>1, <1>2
<1>6. Range(s) = {Head(s)} \union Range(Tail(s))
  <2>1. Range(s) = {s[i] : i \in 1..Len(s)} /\ Range(Tail(s)) = {Tail(s)[i] : i \in 1..Len(s) - 1}
    BY <1>2 DEF Range
  <2>2. 1 \in 1..Len(s)
    BY <1>2
  <2> HIDE DEF Events
  <2>3. ASSUME NEW e \in Range(s) PROVE e \in {Head(s)} \union Range(Tail(s))
    BY <1>3, <1>5, <2>1
  <2>4. ASSUME NEW e \in {Head(s)} \union Range(Tail(s)) PROVE e \in Range(s)
    BY <1>3, <1>4, <2>1, <2>2
  <2> QED
    BY <2>3, <2>4
<1>7. ASSUME Ascending(s) PROVE Ascending(Tail(s)) /\ \A e \in Range(Tail(s)) : Head(s) < e
  <2>1. \A i \in 1..Len(s) - 1 : 1 < i + 1 /\ 1 \in 1..Len(s)
    BY <1>2
  <2>2. \A i \in 1..Len(s) - 1 : s[1] < s[i + 1]
    BY <1>2, <1>4, <1>7, <2>1 DEF Ascending
  <2>3. \A e \in Range(Tail(s)) : Head(s) < e
    BY <1>2, <1>3, <1>4, <2>2 DEF Range
  <2>4. ASSUME NEW i \in DOMAIN Tail(s), NEW j \in DOMAIN Tail(s), i < j PROVE Tail(s)[i] < Tail(s)[j]
    <3>1. i + 1 < j + 1 /\ i + 1 \in DOMAIN s /\ j + 1 \in DOMAIN s
      BY <1>2, <1>4, <2>4
    <3> QED
      BY <1>2, <1>4, <1>7, <3>1 DEF Ascending
  <2> QED
    BY <2>3, <2>4 DEF Ascending
<1> QED
  BY <1>1, <1>3, <1>6, <1>7

\* Adding an element at the end of a sequence.
LEMMA AddingLast ==
  ASSUME NEW s \in Seq(Events), NEW e \in Events
  PROVE  /\ Append(s, e) \in Seq(Events)
         /\ Range(Append(s, e)) = Range(s) \union {e}
         /\ Ascending(s) /\ (\A a \in Range(s) : a < e) => Ascending(Append(s, e))
<1>1. Append(s, e) \in Seq(Events) /\ Len(Append(s, e)) = Len(s) + 1
  BY AppendProperties
<1>2. Len(s) \in Nat /\ DOMAIN s = 1..Len(s) /\ DOMAIN Append(s, e) = 1..Len(s) + 1
  BY <1>1, LenProperties
<1>3. /\ \A i \in 1..Len(s) : Append(s, e)[i] = s[i] /\ i \in 1..Len(s) + 1
      /\ Append(s, e)[Len(s) + 1] = e /\ Len(s) + 1 \in 1..Len(s) + 1
      /\ \A i \in 1..Len(s) + 1 : i \in 1..Len(s) \/ i = Len(s) + 1
  BY <1>2, AppendProperties
<1>4. Range(Append(s, e)) = Range(s) \union {e}
  <2>1. /\ Range(s) = {s[i] : i \in 1..Len(s)}
        /\ Range(Append(s, e)) = {Append(s, e)[i] : i \in 1..Len(s) + 1}
    BY <1>2 DEF Range
  <2>2. ASSUME NEW a \in Range(Append(s, e)) PROVE a \in Range(s) \union {e}
    BY <1>3, <2>1
  <2>3. ASSUME NEW a \in Range(s) \union {e} PROVE a \in Range(Append(s, e))
    BY <1>3, <2>1
  <2> QED
    BY <2>2, <2>3
<1>5. ASSUME Ascending(s), \A a \in Range(s) : a < e PROVE Ascending(Append(s, e))
  <2>1. \A i \in 1..Len(s) : s[i] < e
    BY <1>2, <1>5 DEF Range
  <2>2. ASSUME NEW i \in 1..Len(s) + 1, NEW j \in 1..Len(s) + 1, i < j
        PROVE  Append(s, e)[i] < Append(s, e)[j]
    <3>1. i \in 1..Len(s)
      BY <1>2, <2>2
    <3>2. CASE j \in 1..Len(s)
      BY <1>2, <1>3, <1>5, <2>2, <3>1, <3>2 DEF Ascending
    <3>3. CASE j = Len(s) + 1
      BY <1>3, <2>1, <3>1, <3>3
    <3> QED
      BY <1>3, <3>2, <3>3
  <2> QED
    BY <1>2, <2>2 DEF Ascending
<1> QED
  BY <1>1, <1>4, <1>5

LEMMA RangeOfEmpty == Range(<<>>) = {} /\ Ascending(<<>>) /\ <<>> \in Seq(Events)
  BY EmptySeq DEF Range, Ascending

LEMMA EventsAreNumbers ==
  /\ NumEvents \in Nat \ {0}
  /\ \A e : e \in Events <=> e \in Nat /\ 1 <= e /\ e <= NumEvents
BY EventStreamAssumption DEF Events

-----------------------------------------------------------------------------
LEMMA InitTyped == Init => TypeOK
<1>1. Init => inbox \in Seq(Events) /\ got \in Seq(Events)
  BY EmptySeq DEF Init
<1>2. 0 \in 0..NumEvents /\ 0 \in 0..MaxFaults
  BY EventStreamAssumption
<1>3. Init => /\ channel \in ChannelTypes /\ started \in BOOLEAN /\ attached \in BOOLEAN
              /\ running \in BOOLEAN /\ gated \in BOOLEAN /\ failed \in BOOLEAN
              /\ timer \in {"none", "armed", "fired", "cancelled"} /\ request \in RequestStates
  BY DEF Init, RequestStates
<1>4. Init => /\ starts \in Nat /\ sent \in 0..NumEvents /\ faults \in 0..MaxFaults
              /\ hand \in 0..NumEvents /\ dropped \subseteq Events
  BY <1>2 DEF Init
<1> QED
  BY <1>1, <1>3, <1>4 DEF TypeOK

LEMMA NextTyped == TypeOK /\ [Next]_vars => TypeOK'
<1> SUFFICES ASSUME TypeOK, [Next]_vars PROVE TypeOK'
  OBVIOUS
<1> USE DEF start, queue
<1>1. /\ faults < MaxFaults => faults + 1 \in 0..MaxFaults
      /\ sent < NumEvents => sent + 1 \in 0..NumEvents /\ sent + 1 \in Events
      /\ starts \in Nat /\ starts + 1 \in Nat
      /\ 0 \in 0..NumEvents
      /\ hand # 0 => hand \in Events
  BY EventsAreNumbers, EventStreamAssumption DEF TypeOK
<1>2. CASE Build \/ TimerFires \/ OnSubscribe
  BY <1>1, <1>2 DEF Build, TimerFires, OnSubscribe, TimerAtBuild, StartSucceeds, StartedAfter,
                    StartFails, AlreadyStarted, TypeOK, RequestStates
<1>3. CASE Ping \/ Subscribe \/ SubscribeFails \/ IdleTimeout \/ SubscriptionClosed \/ Leave
  BY <1>3 DEF Ping, Subscribe, SubscribeFails, IdleTimeout, SubscriptionClosed, Leave, TypeOK, RequestStates
<1>4. CASE Attach \/ Detach \/ ListenerFails
  BY <1>4 DEF Attach, Detach, ListenerFails, TypeOK
<1>5. CASE Receive
  <2>1. inbox # <<>> /\ inbox \in Seq(Events) /\ got \in Seq(Events)
    BY <1>5 DEF Receive, TypeOK
  <2>2. Head(inbox) \in Events /\ Tail(inbox) \in Seq(Events)
    BY <2>1, TakingFirst
  <2>3. Append(got, Head(inbox)) \in Seq(Events)
    BY <2>1, <2>2, AddingLast
  <2> QED
    BY <1>5, <2>2, <2>3 DEF Receive, EventToClient, RestOfInbox, TypeOK, RequestStates
<1>6. CASE Publish
  <2>1. sent + 1 \in Events /\ Append(inbox, sent + 1) \in Seq(Events)
    BY <1>1, <1>6, AddingLast DEF Publish, TypeOK
  <2> QED
    BY <1>1, <1>6, <2>1 DEF Publish, Enqueue, TypeOK
<1>7. CASE MakeRoom
  <2> DEFINE rest == IF inbox = <<>> THEN <<>> ELSE Tail(inbox)
  <2>1. inbox # <<>> => Head(inbox) \in Events
    BY TakingFirst DEF TypeOK
  <2>2. rest \in Seq(Events)
    BY TakingFirst, RangeOfEmpty DEF TypeOK
  <2>3. hand \in Events
    BY <1>1, <1>7 DEF MakeRoom
  <2> HIDE DEF rest
  <2>4. Append(rest, hand) \in Seq(Events)
    BY <2>2, <2>3, AddingLast
  <2>5. inbox' \in Seq(Events)
    BY <1>7, <2>4 DEF MakeRoom, rest
  <2>6. dropped' \subseteq Events /\ hand' \in 0..NumEvents
    BY <1>1, <1>7, <2>1 DEF MakeRoom, TypeOK
  <2> QED
    BY <1>7, <2>5, <2>6 DEF MakeRoom, TypeOK
<1>8. CASE TaskDies
  BY <1>1, <1>8 DEF TaskDies, TypeOK
<1>9. CASE UNCHANGED vars
  BY <1>9 DEF vars, TypeOK
<1> QED
  BY <1>2, <1>3, <1>4, <1>5, <1>6, <1>7, <1>8, <1>9 DEF Next, AfterPing

\* Type correctness: the client receives events of the run and nothing else.
THEOREM TypeCorrect == Safety => []TypeOK
  BY InitTyped, NextTyped, PTL DEF Safety

-----------------------------------------------------------------------------
StartInv ==
  /\ starts = IF started THEN 1 ELSE 0
  /\ ~started => sent = 0 /\ ~running /\ ~gated /\ Known = {}

OrderInv ==
  /\ Ascending(got) /\ Ascending(inbox)
  /\ \A a \in Range(got), b \in Range(inbox) : a < b
  /\ hand # 0 => \A e \in Range(got) \union Range(inbox) : e < hand
  /\ channel = "streams" => dropped = {} /\ hand = 0

KnownInv ==
  /\ \A e \in Known : e <= sent
  /\ \A a, b \in Known : a..b \subseteq Known
  /\ attached /\ Known # {} => sent \in Known
  /\ Known # {} => attached \/ failed \/ request = "done"
  /\ attached => Entered /\ ~failed

FromFirst(n) == Known = 1..n /\ (failed \/ (attached /\ n = sent))
GatedInv ==
  /\ gated => Entered \/ request = "done"
  /\ channel = "pubsub" /\ gated /\ Entered => \E k \in 0..sent : FromFirst(k)

IInv == StartInv /\ OrderInv /\ KnownInv /\ GatedInv

LEMMA InitInv == Init => IInv
<1> SUFFICES ASSUME Init PROVE IInv
  OBVIOUS
<1>1. Known = {}
  BY RangeOfEmpty DEF Init, Known
<1>2. Ascending(got) /\ Ascending(inbox) /\ Range(got) = {} /\ Range(inbox) = {}
  BY RangeOfEmpty DEF Init
<1>3. OrderInv
  BY <1>2 DEF Init, OrderInv
<1> QED
  BY <1>1, <1>3 DEF Init, IInv, StartInv, KnownInv, GatedInv, Entered

LEMMA KnownTyped ==
  ASSUME TypeOK
  PROVE  /\ sent \in Nat /\ starts \in Nat /\ hand \in Nat
         /\ \A e \in Known : e \in Nat /\ 1 <= e
         /\ got \in Seq(Events) /\ inbox \in Seq(Events)
         /\ Range(got) \subseteq Events /\ Range(inbox) \subseteq Events
<1>1. got \in Seq(Events) /\ inbox \in Seq(Events)
  BY DEF TypeOK
<1>2. Range(got) \subseteq Events /\ Range(inbox) \subseteq Events
  BY <1>1, ElementOfSeq, LenProperties DEF Range
<1>3. sent \in Nat /\ starts \in Nat /\ hand \in Nat /\ (hand # 0 => 1 <= hand)
  BY EventsAreNumbers DEF TypeOK
<1>4. ASSUME NEW e \in Known PROVE e \in Nat /\ 1 <= e
  BY <1>2, <1>3, <1>4, EventsAreNumbers DEF Known, TypeOK
<1> QED
  BY <1>1, <1>2, <1>3, <1>4

\* Steps that leave Known and what was sent as they are.
LEMMA KeepsKnown ==
  ASSUME KnownInv, Known' = Known, sent' = sent,
         attached' => (Entered /\ ~failed)',
         attached /\ ~attached' => Known = {} \/ failed' \/ request' = "done",
         attached' /\ ~attached => Known = {},
         request = "done" => request' = "done", failed => failed'
  PROVE  KnownInv'
BY DEF KnownInv

LEMMA KeepsGated ==
  ASSUME GatedInv, Known' = Known, sent' = sent, failed => failed', channel' = channel, gated' = gated,
         channel = "pubsub" /\ attached /\ ~attached' => failed' \/ request' = "done",
         Entered' => Entered /\ request' # "done",
         Entered /\ ~Entered' => request' = "done", request = "done" => request' = "done"
  PROVE  GatedInv'
<1>1. (gated => Entered \/ request = "done")'
  BY DEF GatedInv
<1>2. ASSUME (channel = "pubsub" /\ gated /\ Entered)' PROVE (\E k \in 0..sent : FromFirst(k))'
  <2>1. PICK k \in 0..sent : FromFirst(k)
    BY <1>2 DEF GatedInv
  <2>2. Known' = 1..k /\ (failed' \/ (attached' /\ k = sent'))
    BY <1>2, <2>1 DEF FromFirst
  <2> QED
    BY <2>2 DEF FromFirst
<1> QED
  BY <1>1, <1>2 DEF GatedInv

LEMMA NextInv == TypeOK /\ IInv /\ [Next]_vars => IInv'
<1> SUFFICES ASSUME TypeOK, IInv, [Next]_vars PROVE IInv'
  OBVIOUS
<1>0. request \in RequestStates /\ starts \in Nat /\ sent \in Nat
  BY KnownTyped DEF TypeOK
<1>1. CASE Build \/ TimerFires \/ OnSubscribe
  <2>1. /\ UNCHANGED <<channel, attached, failed, sent, queue, got>>
        /\ StartSucceeds \/ StartFails \/ AlreadyStarted \/ UNCHANGED <<start, running>>
    BY <1>1 DEF Build, TimerFires, OnSubscribe
  <2>2. Known' = Known /\ OrderInv'
    BY <2>1 DEF queue, Known, IInv, OrderInv
  <2>3. /\ Entered <=> Entered'
        /\ request' = "done" <=> request = "done"
        /\ Entered' => request' # "done"
    BY <1>1 DEF Build, TimerFires, OnSubscribe, Entered
  <2>4. KnownInv'
    BY <2>1, <2>2, <2>3, KeepsKnown DEF IInv, KnownInv
  <2>5. StartInv'
    <3>1. ASSUME StartSucceeds PROVE StartInv'
      <4>1. starts = 0 /\ starts' = 1
        BY <3>1 DEF IInv, StartInv, StartSucceeds
      <4>2. started' = TRUE
        BY <3>1 DEF StartSucceeds, StartedAfter
      <4> QED
        BY <4>1, <4>2 DEF StartInv
    <3>2. UNCHANGED <<start, running>> => StartInv'
      BY <2>1, <2>2 DEF start, IInv, StartInv
    <3> QED
      BY <2>1, <3>1, <3>2 DEF StartFails, AlreadyStarted
  <2>6. CASE StartSucceeds
    <3>1. sent = 0 /\ Known = {} /\ gated' = attached
      BY <2>6 DEF StartSucceeds, IInv, StartInv
    <3>2. gated' => Entered'
      BY <2>3, <3>1 DEF IInv, KnownInv
    <3>3. {} = 1..0 /\ 0 \in 0..0
      OBVIOUS
    <3>4. GatedInv'
      BY <2>1, <2>2, <3>1, <3>2, <3>3 DEF GatedInv, FromFirst
    <3> QED
      BY <2>2, <2>4, <2>5, <3>4 DEF IInv
  <2>7. CASE ~StartSucceeds
    <3>1. gated' = gated
      BY <2>1, <2>7 DEF start, StartFails, AlreadyStarted
    <3>2. GatedInv'
      BY <2>1, <2>2, <2>3, <3>1, KeepsGated DEF IInv
    <3> QED
      BY <2>2, <2>4, <2>5, <3>2 DEF IInv
  <2> QED
    BY <2>6, <2>7
<1>2. CASE \/ Ping \/ Subscribe \/ SubscribeFails \/ IdleTimeout \/ SubscriptionClosed \/ Leave
           \/ Attach \/ Detach \/ ListenerFails \/ TaskDies \/ UNCHANGED vars
  <2> USE <1>2 DEF Ping, Subscribe, SubscribeFails, IdleTimeout, SubscriptionClosed, Leave, Attach,
                   Detach, ListenerFails, TaskDies, vars
  <2>1. /\ UNCHANGED <<channel, start, sent, queue, got>>
        /\ running' => running
        /\ failed => failed'
    OBVIOUS
  <2>2. Known' = Known /\ OrderInv' /\ gated' = gated /\ StartInv'
    BY <2>1 DEF queue, start, Known, IInv, OrderInv, StartInv
  <2>3. /\ request = "done" => request' = "done" /\ ~Entered'
        /\ attached' => (Entered /\ ~failed)'
        /\ Entered' /\ ~Entered => Subscribe
    BY DEF Entered, IInv, KnownInv
  <2>4. attached' /\ ~attached => Known = {}
    BY DEF Entered, IInv, KnownInv
  <2>5. Detach => Known = {}
    BY RangeOfEmpty DEF Known, IInv, OrderInv
  <2>6. attached /\ ~attached' => Detach \/ failed' \/ request' = "done"
    OBVIOUS
  <2>7. KnownInv'
    BY <2>1, <2>2, <2>3, <2>4, <2>5, <2>6, KeepsKnown DEF IInv
  <2>8. Entered /\ ~Entered' => request' = "done"
    BY DEF Entered
  <2>9. CASE Subscribe
    <3>1. ~gated
      BY <2>9 DEF Entered, IInv, GatedInv
    <3> QED
      BY <2>2, <2>7, <3>1 DEF IInv, GatedInv
  <2>10. CASE ~Subscribe
    <3>1. channel = "pubsub" /\ attached /\ ~attached' => failed' \/ request' = "done"
      BY <2>6
    <3>2. Entered' => Entered /\ request' # "done"
      BY <2>3, <2>10 DEF Entered
    <3>3. GatedInv'
      BY <2>1, <2>2, <2>3, <2>8, <3>1, <3>2, KeepsGated DEF IInv
    <3> QED
      BY <2>2, <2>7, <3>3 DEF IInv
  <2> QED
    BY <2>9, <2>10
<1>3. CASE Receive
  <2>1. /\ UNCHANGED <<channel, start, failed, hand, dropped, sent, running>>
        /\ inbox # <<>> /\ got' = Append(got, Head(inbox)) /\ inbox' = Tail(inbox)
        /\ request = "loop"
        /\ (request' = "done" /\ attached' = FALSE) \/ (request' = request /\ attached' = attached)
    BY <1>3 DEF Receive, EventToClient, RestOfInbox
  <2>2. /\ Head(inbox) \in Events /\ Range(inbox) = {Head(inbox)} \union Range(Tail(inbox))
        /\ Ascending(Tail(inbox)) /\ \A e \in Range(Tail(inbox)) : Head(inbox) < e
    BY <2>1, KnownTyped, TakingFirst DEF IInv, OrderInv
  <2>3. /\ Range(got') = Range(got) \union {Head(inbox)}
        /\ Ascending(got')
    BY <2>1, <2>2, KnownTyped, AddingLast DEF IInv, OrderInv
  <2>4. Known' = Known
    BY <2>1, <2>2, <2>3 DEF Known
  <2>5. OrderInv'
    <3>1. \A a \in Range(got'), b \in Range(inbox') : a < b
      BY <2>1, <2>2, <2>3 DEF IInv, OrderInv
    <3>2. Range(got') \union Range(inbox') = Range(got) \union Range(inbox)
      BY <2>1, <2>2, <2>3
    <3> QED
      BY <2>1, <2>2, <2>3, <3>1, <3>2 DEF IInv, OrderInv
  <2>6. /\ attached' => Entered' /\ ~failed'
        /\ Entered' => Entered /\ request' # "done"
        /\ Entered /\ ~Entered' => request' = "done"
    BY <2>1 DEF Entered, IInv, KnownInv
  <2>7. KnownInv'
    BY <2>1, <2>4, <2>6, KeepsKnown DEF IInv
  <2>8. gated' = gated /\ StartInv'
    BY <2>1, <2>4 DEF start, IInv, StartInv
  <2>9. GatedInv'
    BY <2>1, <2>4, <2>6, <2>8, KeepsGated DEF IInv
  <2> QED
    BY <2>5, <2>7, <2>8, <2>9 DEF IInv
<1>4. CASE MakeRoom
  <2> DEFINE rest == IF inbox = <<>> THEN <<>> ELSE Tail(inbox)
             first == IF inbox = <<>> THEN {} ELSE {Head(inbox)}
  <2>1. /\ UNCHANGED <<channel, start, request, attached, failed, sent, running, got>>
        /\ hand # 0 /\ attached /\ hand' = 0
        /\ dropped' = dropped \union first /\ inbox' = Append(rest, hand)
    BY <1>4 DEF MakeRoom
  <2>2. /\ rest \in Seq(Events) /\ Range(inbox) = first \union Range(rest) /\ Ascending(rest)
    BY KnownTyped, TakingFirst, RangeOfEmpty DEF IInv, OrderInv
  <2>3. hand \in Events
    BY <2>1, EventsAreNumbers DEF TypeOK
  <2>4. \A e \in Range(got) \union Range(rest) : e < hand
    BY <2>1, <2>2 DEF IInv, OrderInv
  <2> HIDE DEF rest, first
  <2>5. Range(inbox') = Range(rest) \union {hand} /\ Ascending(inbox')
    BY <2>1, <2>2, <2>3, <2>4, AddingLast
  <2>6. Known' = Known
    BY <2>1, <2>2, <2>5 DEF Known
  <2>7. OrderInv'
    BY <2>1, <2>2, <2>4, <2>5 DEF IInv, OrderInv
  <2>8. Entered' <=> Entered
    BY <2>1 DEF Entered
  <2>9. KnownInv'
    BY <2>1, <2>6, <2>8 DEF IInv, KnownInv
  <2>10. gated' = gated /\ StartInv'
    BY <2>1, <2>6 DEF start, IInv, StartInv
  <2>11. GatedInv'
    BY <2>1, <2>6, <2>8, <2>10 DEF IInv, GatedInv, FromFirst
  <2> QED
    BY <2>7, <2>9, <2>10, <2>11 DEF IInv
<1>5. CASE Publish
  <2>1. /\ UNCHANGED <<channel, start, request, attached, failed, running, got>>
        /\ running /\ sent' = sent + 1 /\ sent < NumEvents /\ (attached => hand = 0)
    BY <1>5 DEF Publish
  <2>2. started /\ StartInv' /\ gated' = gated /\ (Entered' <=> Entered)
    BY <2>1 DEF start, IInv, StartInv, Entered
  <2>3. CASE ~attached
    <3>1. Known' = Known /\ OrderInv'
      BY <1>5, <2>1, <2>3 DEF Publish, queue, Known, IInv, OrderInv
    <3>2. \A e \in Known : e <= sent + 1
      BY <1>0, KnownTyped DEF IInv, KnownInv
    <3>3. KnownInv'
      BY <2>1, <2>2, <2>3, <3>1, <3>2 DEF IInv, KnownInv
    <3>4. \A k \in 0..sent : k \in 0..sent + 1
      BY <1>0
    <3>5. GatedInv'
      BY <2>1, <2>2, <2>3, <3>1, <3>4 DEF IInv, GatedInv, FromFirst
    <3> QED
      BY <2>2, <3>1, <3>3, <3>5 DEF IInv
  <2>4. CASE attached
    <3>1. /\ sent + 1 \in Events /\ hand = 0 /\ dropped' = dropped
          /\ \/ HasRoom /\ inbox' = Append(inbox, sent + 1) /\ hand' = 0
             \/ ~HasRoom /\ inbox' = inbox /\ hand' = sent + 1
      BY <1>0, <1>5, <2>1, <2>4, EventsAreNumbers DEF Publish, Enqueue
    <3>2. /\ \A e \in Known : e <= sent /\ e < sent + 1 /\ e \in Nat /\ 1 <= e
          /\ \A e \in Range(got) \union Range(inbox) : e < sent + 1
      <4>1. \A e \in Known : e <= sent /\ e < sent + 1 /\ e \in Nat /\ 1 <= e
        BY <1>0, KnownTyped DEF IInv, KnownInv
      <4> QED
        BY <4>1 DEF Known
    <3>3. /\ Range(Append(inbox, sent + 1)) = Range(inbox) \union {sent + 1}
          /\ Ascending(Append(inbox, sent + 1))
      BY <3>1, <3>2, KnownTyped, AddingLast DEF IInv, OrderInv
    <3>4. sent + 1 # 0
      BY <1>0
    <3>5. Known' = Known \union {sent + 1}
      BY <2>1, <3>1, <3>3, <3>4 DEF Known
    <3>6. OrderInv'
      BY <2>1, <3>1, <3>2, <3>3 DEF IInv, OrderInv, HasRoom
    <3>7. ASSUME NEW a \in Known', NEW b \in Known', NEW e \in a..b PROVE e \in Known'
      <4>1. CASE e = sent + 1
        BY <3>5, <4>1
      <4>2. CASE e # sent + 1
        <5>1. a \in Nat /\ b \in Nat /\ b <= sent + 1 /\ e \in Nat /\ e <= sent /\ a <= e
          BY <1>0, <3>2, <3>5, <3>7, <4>2
        <5>2. a \in Known /\ Known # {}
          BY <1>0, <3>5, <5>1
        <5>3. sent \in Known /\ e \in a..sent
          BY <1>0, <2>4, <5>1, <5>2 DEF IInv, KnownInv
        <5> QED
          BY <3>5, <5>2, <5>3 DEF IInv, KnownInv
      <4> QED
        BY <4>1, <4>2
    <3>8. \A e \in Known' : e <= sent'
      BY <1>0, <2>1, <3>2, <3>5
    <3>9. KnownInv'
      BY <2>1, <2>2, <2>4, <3>5, <3>7, <3>8 DEF IInv, KnownInv
    <3>10. GatedInv'
      <4>1. SUFFICES ASSUME channel = "pubsub", gated, Entered PROVE (\E k \in 0..sent : FromFirst(k))'
        BY <2>1, <2>2 DEF IInv, GatedInv
      <4>2. Known = 1..sent
        BY <2>4, <4>1 DEF IInv, GatedInv, KnownInv, FromFirst
      <4>3. Known' = 1..sent + 1 /\ sent + 1 \in 0..sent + 1
        BY <1>0, <3>5, <4>2
      <4> QED
        BY <2>1, <2>4, <4>3 DEF FromFirst
    <3> QED
      BY <2>2, <3>6, <3>9, <3>10 DEF IInv
  <2> QED
    BY <2>3, <2>4
<1> QED
  BY <1>1, <1>2, <1>3, <1>4, <1>5 DEF Next, AfterPing

LEMMA InvHolds == Safety => [](TypeOK /\ IInv)
<1>1. Init => TypeOK /\ IInv
  BY InitTyped, InitInv
<1>2. TypeOK /\ IInv /\ [Next]_vars => (TypeOK /\ IInv)'
  BY NextTyped, NextInv
<1> QED
  BY <1>1, <1>2, PTL DEF Safety

-----------------------------------------------------------------------------
\* The task is delivered to Celery at most once, whoever tries and however
\* often, because `started` and the number of deliveries change together.
THEOREM OneStart == Safety => []StartedOnce
<1>1. IInv => StartedOnce
  BY DEF IInv, StartInv, StartedOnce
<1> QED
  BY <1>1, InvHolds, PTL

\* The client receives events in their order, and after the first one it misses
\* only what a full queue dropped, with Streams nothing.
THEOREM NoHole == Safety => []NoHoleInStream
<1>1. TypeOK /\ IInv => NoHoleInStream
  <2> SUFFICES ASSUME TypeOK, IInv, NEW i \in DOMAIN got, NEW j \in DOMAIN got, i < j
               PROVE  got[i] < got[j] /\ Between(got[i], got[j]) \subseteq Range(got) \union dropped
    BY DEF NoHoleInStream, IInv, OrderInv
  <2>1. got[i] < got[j] /\ got[i] \in Range(got) /\ got[j] \in Range(got)
    BY DEF IInv, OrderInv, Ascending, Range
  <2>2. ASSUME NEW e \in Between(got[i], got[j]) PROVE e \in Range(got) \union dropped
    <3>1. got[i] \in Nat /\ got[j] \in Nat /\ got[i] \in Known /\ got[j] \in Known
      BY <2>1, KnownTyped DEF Known
    <3>2. e \in got[i]..got[j] /\ e < got[j] /\ e \in Nat
      BY <2>2, <3>1 DEF Between
    <3>3. e \in Known
      BY <3>1, <3>2 DEF IInv, KnownInv
    <3>4. ~(got[j] < e)
      BY <3>1, <3>2
    <3>5. e \notin Range(inbox)
      BY <2>1, <3>4 DEF IInv, OrderInv
    <3>6. hand # 0 => e # hand
      BY <2>1, <3>4 DEF IInv, OrderInv
    <3> QED
      BY <3>3, <3>5, <3>6 DEF Known
  <2> QED
    BY <2>1, <2>2
<1> QED
  BY <1>1, InvHolds, PTL

\* A task that was started by a subscriber Pub/Sub had already attached loses
\* none of its events but those a full queue drops and those after the error
\* that ends the listener.
THEOREM OnlyDropsLost == Safety => []GatedStartLosesOnlyDrops
<1>1. IInv => GatedStartLosesOnlyDrops
  <2> SUFFICES ASSUME IInv, channel = "pubsub", gated, request = "loop"
               PROVE  \E k \in 0..sent : Known = 1..k /\ (k = sent \/ failed)
    BY DEF GatedStartLosesOnlyDrops
  <2> QED
    BY DEF IInv, GatedInv, Entered, FromFirst
<1> QED
  BY <1>1, InvHolds, PTL
-----------------------------------------------------------------------------
(***************************************************************************)
(* Why RunIsStarted holds: once the handler has returned, a run that is    *)
(* not started is left to the armed timer, unless Celery has refused it.   *)
(***************************************************************************)
SomebodyStarts == request # "building" => starts = 1 \/ timer = "armed" \/ faults > 0

\* A run is started, or its fallback timer will start it, wherever the response
\* generator is and although on_subscribe cancels the timer, unless a delivery
\* to Celery failed or a task died.
THEOREM StartIsOwed == Safety => []SomebodyStarts
<1>1. Init => SomebodyStarts
  BY DEF Init, SomebodyStarts
<1>2. TypeOK /\ IInv /\ SomebodyStarts /\ [Next]_vars => SomebodyStarts'
  <2> SUFFICES ASSUME TypeOK, IInv, SomebodyStarts, [Next]_vars PROVE SomebodyStarts'
    OBVIOUS
  <2>1. faults \in Nat /\ starts = (IF started THEN 1 ELSE 0)
    BY EventStreamAssumption DEF TypeOK, IInv, StartInv
  <2>2. StartSucceeds => starts' = 1
    BY <2>1 DEF StartSucceeds
  <2>3. StartFails => faults' > 0
    BY <2>1 DEF StartFails, start
  <2>4. AlreadyStarted => starts' = 1
    BY <2>1 DEF AlreadyStarted, start
  <2>5. CASE Build
    BY <2>2, <2>3, <2>5 DEF Build, TimerAtBuild, SomebodyStarts
  <2>6. CASE TimerFires \/ OnSubscribe
    BY <2>2, <2>3, <2>4, <2>6 DEF TimerFires, OnSubscribe, SomebodyStarts
  <2>7. CASE Ping \/ Subscribe \/ SubscribeFails \/ Receive \/ IdleTimeout \/ SubscriptionClosed \/ Leave
    BY <2>7 DEF Ping, Subscribe, SubscribeFails, Receive, IdleTimeout, SubscriptionClosed, Leave, start, SomebodyStarts
  <2>8. CASE Attach \/ Detach \/ ListenerFails \/ MakeRoom \/ Publish \/ UNCHANGED vars
    BY <2>8 DEF Attach, Detach, ListenerFails, MakeRoom, Publish, vars, start, SomebodyStarts
  <2>9. CASE TaskDies
    BY <2>1, <2>9 DEF TaskDies, start, SomebodyStarts
  <2> QED
    BY <2>5, <2>6, <2>7, <2>8, <2>9 DEF Next, AfterPing
<1> QED
  BY <1>1, <1>2, InvHolds, PTL DEF Safety
=============================================================================
