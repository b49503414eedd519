---------------------------- MODULE PubSubProofs ----------------------------
(***************************************************************************)
(* Proofs about PubSubSubscription, for every size of the queue and every  *)
(* number of messages.  The messages are in order because each stage of    *)
(* the pipeline is ascending and ends before the next one begins: this is  *)
(* what Ordered says, stage by stage, and what each step preserves.        *)
(* Nothing vanishes because a step only moves a message between stages,    *)
(* and Redis leaves out nothing once it has begun: Complete.               *)
(***************************************************************************)
EXTENDS PubSubSubscription, SequenceTheorems, WellFoundedInduction, NaturalsInduction, TLAPS

(***************************************************************************)
(* Taking the first of a sequence, and adding one at its end.              *)
(***************************************************************************)
LEMMA TakingFirst ==
  ASSUME NEW S, NEW s \in Seq(S), s # <<>>
  PROVE  /\ Head(s) = s[1] /\ s[1] \in S /\ 1 \in DOMAIN s
         /\ Tail(s) \in Seq(S) /\ Len(Tail(s)) = Len(s) - 1 /\ Len(s) \in Nat \ {0}
         /\ \A i \in DOMAIN Tail(s) : i \in Nat \ {0} /\ i + 1 \in DOMAIN s /\ Tail(s)[i] = s[i + 1]
<1>1. /\ Tail(s) \in Seq(S) /\ Len(Tail(s)) = Len(s) - 1
      /\ \A i \in 1..Len(Tail(s)) : Tail(s)[i] = s[i + 1]
  BY HeadTailProperties
<1>2. Len(s) \in Nat \ {0} /\ DOMAIN s = 1..Len(s)
  BY EmptySeq, LenProperties
<1>3. DOMAIN Tail(s) = 1..Len(Tail(s))
  BY <1>1, LenProperties
<1>4. Head(s) = s[1] /\ s[1] \in S
  BY <1>2, ElementOfSeq
<1> QED
  BY <1>1, <1>2, <1>3, <1>4

LEMMA AddingLast ==
  ASSUME NEW S, NEW s \in Seq(S), NEW e \in S
  PROVE  /\ Append(s, e) \in Seq(S) /\ Len(Append(s, e)) = Len(s) + 1 /\ Len(s) \in Nat
         /\ \A i \in DOMAIN Append(s, e) :
              /\ i \in Nat
              /\ \/ i = Len(s) + 1 /\ Append(s, e)[i] = e
                 \/ i \in DOMAIN s /\ i <= Len(s) /\ Append(s, e)[i] = s[i]
<1>1. Append(s, e) \in Seq(S) /\ Len(Append(s, e)) = Len(s) + 1
  BY AppendProperties
<1>2. Len(s) \in Nat /\ DOMAIN s = 1..Len(s) /\ DOMAIN Append(s, e) = 1..Len(s) + 1
  BY <1>1, LenProperties
<1>3. /\ \A i \in 1..Len(s) : Append(s, e)[i] = s[i]
      /\ Append(s, e)[Len(s) + 1] = e
  BY AppendProperties
<1> QED
  BY <1>1, <1>2, <1>3

(***************************************************************************)
(* The listener holds a message where it is about to put one.              *)
(***************************************************************************)
Holding == listener \in {"put", "full"}
Typed == TypeOK /\ (Holding => hand \in Messages)

LEMMA MessagesAreNumbers ==
  /\ \A m : m \in Messages <=> m \in Nat /\ 1 <= m /\ m <= MaxMessages
  /\ \A m \in Messages : m \in 0..MaxMessages
  /\ MaxMessages \in Nat
BY SubscriptionAssumption DEF Messages

LEMMA InitTyped == Init => Typed
<1>1. <<>> \in Seq(Messages) /\ Len(<<>>) <= QueueSize
  BY EmptySeq, SubscriptionAssumption
<1>2. 0 \in 0..MaxMessages
  BY SubscriptionAssumption
<1> QED
  BY <1>1, <1>2 DEF Init, Typed, TypeOK, Holding, ListenerStates, OwnerStates, ReaderStates

LEMMA NextTyped == Typed /\ [Next]_vars => Typed'
<1> SUFFICES ASSUME Typed, [Next]_vars PROVE Typed'
  OBVIOUS
<1> USE MessagesAreNumbers
    DEF Typed, TypeOK, Holding, ListenerStates, OwnerStates, ReaderStates, threads
<1>1. CASE Publish
  <2>1. sent + 1 \in Messages
    BY <1>1, SMTT(30) DEF Publish
  <2>2. Append(wire, sent + 1) \in Seq(Messages)
    BY <2>1, AddingLast
  <2>3. wire' \in Seq(Messages)
    BY <1>1, <2>2 DEF Publish
  <2> QED
    BY <1>1, <2>1, <2>3 DEF Publish
<1>2. CASE Subscribe \/ Enter \/ Close \/ Joined
  BY <1>2 DEF Subscribe, Enter, Close, Joined
<1>3. CASE ListenCheck \/ GetMessageFails \/ PutClosed
  BY <1>3 DEF ListenCheck, GetMessageFails, PutClosed
<1>4. CASE GetMessage
  <2>1. wire # <<>> => Head(wire) \in Messages /\ Tail(wire) \in Seq(Messages)
    BY TakingFirst
  <2> QED
    BY <1>4, <2>1 DEF GetMessage
<1>5. CASE Put
  <2>1. CASE HasRoom
    <3>0. hand \in Messages
      BY <1>5 DEF Put
    <3>1. Append(queue, hand) \in Seq(Messages) /\ Len(Append(queue, hand)) = Len(queue) + 1
          /\ Len(queue) \in Nat
      BY <3>0, AddingLast
    <3>2. Len(queue) + 1 <= QueueSize
      BY <2>1, <3>1, SubscriptionAssumption DEF HasRoom
    <3>3. queue' = Append(queue, hand) /\ hand' = 0 /\ listener' = "check"
          /\ UNCHANGED <<sent, subscribed, wire, pubsub, closed, owner, reader, got, dropped>>
      BY <1>5, <2>1 DEF Put
    <3>4. queue' \in Seq(Messages) /\ Len(queue') <= QueueSize
      BY <3>1, <3>2, <3>3
    <3> HIDE DEF Messages
    <3> QED
      BY <3>3, <3>4
  <2>2. CASE ~HasRoom
    BY <1>5, <2>2 DEF Put
  <2> QED
    BY <2>1, <2>2
<1>6. CASE DropOldest
  <2>1. queue # <<>> => /\ Head(queue) \in Messages /\ Tail(queue) \in Seq(Messages)
                        /\ Len(Tail(queue)) <= QueueSize
    BY TakingFirst, SubscriptionAssumption
  <2> QED
    BY <1>6, <2>1 DEF DropOldest, AfterDrop, AfterFull
<1>7. CASE Cleanup \/ CleanupFails
  <2>1. <<>> \in Seq(Messages)
    BY EmptySeq
  <2> QED
    BY <1>7, <2>1 DEF Cleanup, CleanupFails, AfterCleanup
<1>8. CASE Receive \/ GetTimesOut
  BY <1>8 DEF Receive, GetTimesOut
<1>9. CASE Get
  <2>1. queue # <<>>
    BY <1>9 DEF Get
  <2>2. /\ Head(queue) \in Messages /\ Tail(queue) \in Seq(Messages)
        /\ Len(Tail(queue)) <= QueueSize
    BY <2>1, TakingFirst, SubscriptionAssumption
  <2>3. Append(got, Head(queue)) \in Seq(Messages)
    BY <2>2, AddingLast
  <2> QED
    BY <1>9, <2>2, <2>3 DEF Get, NextItem
<1>10. CASE UNCHANGED vars
  BY <1>10 DEF vars
<1> QED
  BY <1>1, <1>2, <1>3, <1>4, <1>5, <1>6, <1>7, <1>8, <1>9, <1>10 DEF Next, Listener, Reader

\* Type correctness of a subscription: its queue never exceeds its size and
\* holds messages only.
THEOREM TypeCorrect == Safety => []TypeOK
<1>1. Typed => TypeOK
  BY DEF Typed
<1> QED
  BY <1>1, InitTyped, NextTyped, PTL DEF Safety

LEMMA TypeInvariant == Safety => []Typed
  BY InitTyped, NextTyped, PTL DEF Safety

-----------------------------------------------------------------------------
(***************************************************************************)
(* The stages of the pipeline in order, and what was dropped before what   *)
(* may still be returned.                                                  *)
(***************************************************************************)
Precede(s, t) == \A i \in DOMAIN s, j \in DOMAIN t : s[i] < t[j]
Before(s, m) == \A i \in DOMAIN s : s[i] < m
After(s, m) == \A i \in DOMAIN s : m < s[i]

Ordered ==
  /\ Ascending(got) /\ Ascending(queue) /\ Ascending(wire)
  /\ Precede(got, queue) /\ Precede(got, wire) /\ Precede(queue, wire)
  /\ Before(got, sent + 1) /\ Before(queue, sent + 1) /\ Before(wire, sent + 1)
  /\ Holding => Before(got, hand) /\ Before(queue, hand) /\ After(wire, hand) /\ hand <= sent
  /\ \A m \in dropped : After(queue, m) /\ After(wire, m) /\ m <= sent /\ (Holding => m < hand)

(***************************************************************************)
(* How these relations carry over to a sequence that grew or lost its      *)
(* first element.                                                          *)
(***************************************************************************)
LEMMA EmptyKeeps ==
  /\ Ascending(<<>>)
  /\ \A m : Before(<<>>, m) /\ After(<<>>, m)
  /\ \A r : Precede(r, <<>>) /\ Precede(<<>>, r)
BY DEF Ascending, Before, After, Precede

LEMMA AppendKeeps ==
  ASSUME NEW s \in Seq(Nat), NEW e \in Nat
  PROVE  /\ Ascending(s) /\ Before(s, e) => Ascending(Append(s, e))
         /\ \A m \in Nat : Before(s, m) /\ e < m => Before(Append(s, e), m)
         /\ \A r \in Seq(Nat) : Precede(r, s) /\ Before(r, e) => Precede(r, Append(s, e))
         /\ \A r \in Seq(Nat) : Precede(s, r) /\ After(r, e) => Precede(Append(s, e), r)
         /\ \A m \in Nat : After(s, m) /\ m < e => After(Append(s, e), m)
<1> DEFINE t == Append(s, e)
<1>1. /\ Len(s) \in Nat
      /\ \A i \in DOMAIN t : /\ i \in Nat
                             /\ \/ i = Len(s) + 1 /\ t[i] = e
                                \/ i \in DOMAIN s /\ i <= Len(s) /\ t[i] = s[i]
  BY AddingLast
<1> HIDE DEF t
<1>2. Ascending(s) /\ Before(s, e) => Ascending(t)
  <2> SUFFICES ASSUME Ascending(s), Before(s, e), NEW i \in DOMAIN t, NEW j \in DOMAIN t, i < j
               PROVE  t[i] < t[j]
    BY DEF Ascending
  <2>1. i \in DOMAIN s /\ t[i] = s[i]
    BY <1>1, LenProperties
  <2>2. CASE j = Len(s) + 1 /\ t[j] = e
    BY <2>1, <2>2 DEF Before
  <2>3. CASE j \in DOMAIN s /\ t[j] = s[j]
    BY <2>1, <2>3 DEF Ascending
  <2> QED
    BY <1>1, <2>2, <2>3
<1>3. \A m \in Nat : Before(s, m) /\ e < m => Before(t, m)
  BY <1>1 DEF Before
<1>4. \A r \in Seq(Nat) : Precede(r, s) /\ Before(r, e) => Precede(r, t)
  BY <1>1 DEF Before, Precede
<1>5. \A r \in Seq(Nat) : Precede(s, r) /\ After(r, e) => Precede(t, r)
  BY <1>1 DEF After, Precede
<1>6. \A m \in Nat : After(s, m) /\ m < e => After(t, m)
  BY <1>1 DEF After
<1> QED
  BY <1>2, <1>3, <1>4, <1>5, <1>6 DEF t

LEMMA TailKeeps ==
  ASSUME NEW s \in Seq(Nat), s # <<>>
  PROVE  /\ Ascending(s) => Ascending(Tail(s)) /\ After(Tail(s), s[1])
         /\ \A m : Before(s, m) => Before(Tail(s), m) /\ s[1] < m
         /\ \A m : After(s, m) => After(Tail(s), m) /\ m < s[1]
         /\ \A r : Precede(r, s) => Precede(r, Tail(s)) /\ Before(r, s[1])
         /\ \A r : Precede(s, r) => Precede(Tail(s), r) /\ After(r, s[1])
<1> DEFINE t == Tail(s)
<1>1. /\ 1 \in DOMAIN s
      /\ \A i \in DOMAIN t : i \in Nat \ {0} /\ i + 1 \in DOMAIN s /\ t[i] = s[i + 1]
  BY TakingFirst
<1> HIDE DEF t
<1>2. Ascending(s) => Ascending(t) /\ After(t, s[1])
  BY <1>1 DEF Ascending, After
<1> QED
  BY <1>1, <1>2 DEF Before, Precede, After, t

\* The state of a subscription as numbers and sequences of numbers.
LEMMA OnlyNumbers ==
  Typed => /\ got \in Seq(Nat) /\ queue \in Seq(Nat) /\ wire \in Seq(Nat)
           /\ sent \in Nat /\ hand \in Nat /\ \A m \in dropped : m \in Nat
<1> SUFFICES ASSUME Typed
             PROVE  /\ got \in Seq(Nat) /\ queue \in Seq(Nat) /\ wire \in Seq(Nat)
                    /\ sent \in Nat /\ hand \in Nat /\ \A m \in dropped : m \in Nat
  OBVIOUS
<1>1. Messages \subseteq Nat
  BY MessagesAreNumbers
<1>2. /\ got \in Seq(Messages) /\ queue \in Seq(Messages) /\ wire \in Seq(Messages)
      /\ sent \in 0..MaxMessages /\ hand \in 0..MaxMessages /\ dropped \subseteq Messages
  BY DEF Typed, TypeOK
<1>3. got \in Seq(Nat) /\ queue \in Seq(Nat) /\ wire \in Seq(Nat)
  BY <1>1, <1>2, SeqMonotonic
<1> QED
  BY <1>1, <1>2, <1>3

LEMMA InitOrdered == Init => Ordered
  BY EmptyKeeps DEF Init, Ordered, Holding

LEMMA NextOrdered == Typed /\ Ordered /\ [Next]_vars => Ordered'
<1> SUFFICES ASSUME Typed, Ordered, [Next]_vars PROVE Ordered'
  OBVIOUS
<1>0. /\ got \in Seq(Nat) /\ queue \in Seq(Nat) /\ wire \in Seq(Nat)
      /\ sent \in Nat /\ hand \in Nat /\ \A m \in dropped : m \in Nat
  BY OnlyNumbers
<1> USE DEF Holding, Ordered, threads
<1>1. CASE Publish
  <2>1. CASE wire' = wire
    <3>1. \A s \in Seq(Nat) : Before(s, sent + 1) => Before(s, sent + 2)
      BY <1>0 DEF Before
    <3> QED
      BY <1>0, <1>1, <2>1, <3>1 DEF Publish
  <2>2. CASE wire' = Append(wire, sent + 1)
    <3>1. \A s \in Seq(Nat) : Before(s, sent + 1) => Before(s, sent + 2)
      BY <1>0 DEF Before
    <3>2. Ascending(wire') /\ Precede(got, wire') /\ Precede(queue, wire') /\ Before(wire', sent + 2)
      BY <1>0, <2>2, <3>1, AppendKeeps
    <3>3. \A m \in Nat : After(wire, m) /\ m <= sent => After(wire', m)
      BY <1>0, <2>2, AppendKeeps
    <3> QED
      BY <1>0, <1>1, <3>1, <3>2, <3>3 DEF Publish
  <2> QED
    BY <1>1, <2>1, <2>2 DEF Publish
<1>2. CASE Subscribe \/ Enter \/ Close \/ Joined
  BY <1>2 DEF Subscribe, Enter, Close, Joined
<1>3. CASE ListenCheck \/ GetMessageFails \/ PutClosed
  BY <1>3 DEF ListenCheck, GetMessageFails, PutClosed
<1>4. CASE GetMessage
  <2>1. CASE wire = <<>>
    BY <1>4, <2>1 DEF GetMessage
  <2>2. CASE wire # <<>>
    <3>1. hand' = wire[1] /\ wire' = Tail(wire) /\ wire[1] \in Nat
      BY <1>0, <1>4, <2>2, TakingFirst DEF GetMessage
    <3>2. /\ Ascending(wire') /\ Precede(got, wire') /\ Precede(queue, wire') /\ Before(wire', sent + 1)
          /\ Before(got, hand') /\ Before(queue, hand') /\ After(wire', hand') /\ hand' < sent + 1
          /\ \A m \in dropped : After(wire', m) /\ m < hand'
      BY <1>0, <2>2, <3>1, TailKeeps
    <3> QED
      BY <1>0, <1>4, <3>1, <3>2 DEF GetMessage
  <2> QED
    BY <2>1, <2>2
<1>5. CASE Put
  <2>1. CASE HasRoom
    <3>1. /\ queue' = Append(queue, hand) /\ listener' = "check"
          /\ UNCHANGED <<sent, wire, got, dropped>>
      BY <1>5, <2>1 DEF Put
    <3>2. /\ Before(got, hand) /\ Before(queue, hand) /\ After(wire, hand) /\ hand < sent + 1
          /\ \A m \in dropped : After(queue, m) /\ m < hand
      BY <1>0, <1>5 DEF Put
    <3>3. Ascending(queue') /\ Before(queue', sent + 1)
      BY <1>0, <3>1, <3>2, AppendKeeps
    <3>4. Precede(got, queue') /\ Precede(queue', wire)
      BY <1>0, <3>1, <3>2, AppendKeeps
    <3>5. \A m \in dropped : After(queue', m)
      BY <1>0, <3>1, <3>2, AppendKeeps
    <3> QED
      BY <3>1, <3>3, <3>4, <3>5
  <2>2. CASE ~HasRoom
    BY <1>5, <2>2 DEF Put
  <2> QED
    BY <2>1, <2>2
<1>6. CASE DropOldest
  <2>1. CASE queue = <<>>
    BY <1>6, <2>1 DEF DropOldest, AfterFull
  <2>2. CASE queue # <<>>
    <3>1. queue' = Tail(queue) /\ dropped' = dropped \cup {queue[1]} /\ queue[1] \in Nat
      BY <1>0, <1>6, <2>2, TakingFirst DEF DropOldest, AfterDrop
    <3>2. /\ Ascending(queue') /\ Precede(got, queue') /\ Precede(queue', wire)
          /\ Before(queue', sent + 1) /\ Before(queue', hand) /\ After(queue', queue[1])
          /\ After(wire, queue[1]) /\ queue[1] < sent + 1 /\ queue[1] < hand
          /\ \A m \in dropped : After(queue', m)
      BY <1>0, <1>6, <2>2, <3>1, TailKeeps DEF DropOldest
    <3> QED
      BY <1>0, <1>6, <3>1, <3>2 DEF DropOldest, AfterFull
  <2> QED
    BY <2>1, <2>2
<1>7. CASE Cleanup \/ CleanupFails
  BY <1>7, EmptyKeeps DEF Cleanup, CleanupFails, AfterCleanup
<1>8. CASE Receive \/ GetTimesOut
  BY <1>8 DEF Receive, GetTimesOut
<1>9. CASE Get
  <2>1. queue # <<>> /\ queue[1] \in Nat /\ queue' = Tail(queue) /\ got' = Append(got, queue[1])
    BY <1>0, <1>9, TakingFirst DEF Get, NextItem
  <2>2. Tail(queue) \in Seq(Nat)
    BY <1>0, <2>1, TakingFirst
  <2>3. /\ Ascending(queue') /\ Precede(got, queue') /\ Precede(queue', wire)
        /\ Before(queue', sent + 1) /\ After(queue', queue[1]) /\ Before(got, queue[1])
        /\ After(wire, queue[1]) /\ queue[1] < sent + 1
        /\ \A m \in dropped : After(queue', m)
        /\ Holding => Before(queue', hand) /\ queue[1] < hand
    BY <1>0, <2>1, TailKeeps
  <2>4. Ascending(got') /\ Before(got', sent + 1) /\ (Holding => Before(got', hand))
    BY <1>0, <2>1, <2>3, AppendKeeps
  <2>5. Precede(got', queue') /\ Precede(got', wire)
    <3>1. \A r \in Seq(Nat) : Precede(got, r) /\ After(r, queue[1]) => Precede(got', r)
      BY <1>0, <2>1, AppendKeeps
    <3> QED
      BY <1>0, <2>1, <2>2, <2>3, <3>1
  <2> QED
    BY <1>9, <2>3, <2>4, <2>5 DEF Get
<1>10. CASE UNCHANGED vars
  BY <1>10 DEF vars
<1> QED
  BY <1>1, <1>2, <1>3, <1>4, <1>5, <1>6, <1>7, <1>8, <1>9, <1>10 DEF Next, Listener, Reader

LEMMA OrderedHolds == Safety => []Ordered
  BY InitOrdered, NextOrdered, TypeInvariant, PTL DEF Safety

-----------------------------------------------------------------------------
\* What a full queue drops is older than all that still waits, wherever the
\* reader and the listener meet in the queue.
THEOREM OldestDropped == Safety => []DropsAreOldest
<1>1. Ordered => DropsAreOldest
  BY DEF Ordered, DropsAreOldest, After
<1> QED
  BY <1>1, OrderedHolds, PTL

\* Two ascending sequences, the first of which precedes the second.
LEMMA Joining ==
  ASSUME NEW s \in Seq(Nat), NEW t \in Seq(Nat), Ascending(s), Ascending(t), Precede(s, t)
  PROVE  /\ s \o t \in Seq(Nat) /\ Ascending(s \o t)
         /\ \A i \in DOMAIN (s \o t) : \/ i \in DOMAIN s /\ (s \o t)[i] = s[i]
                                       \/ i - Len(s) \in DOMAIN t /\ (s \o t)[i] = t[i - Len(s)]
<1> DEFINE u == s \o t
<1>1. /\ u \in Seq(Nat) /\ Len(u) = Len(s) + Len(t)
      /\ \A i \in 1 .. Len(s) + Len(t) : u[i] = IF i <= Len(s) THEN s[i] ELSE t[i - Len(s)]
  BY ConcatProperties
<1>2. /\ Len(s) \in Nat /\ Len(t) \in Nat
      /\ DOMAIN s = 1..Len(s) /\ DOMAIN t = 1..Len(t) /\ DOMAIN u = 1..Len(u)
  BY <1>1, LenProperties
<1> HIDE DEF u
<1>3. \A i \in DOMAIN u : \/ i \in DOMAIN s /\ u[i] = s[i]
                          \/ i > Len(s) /\ i - Len(s) \in DOMAIN t /\ u[i] = t[i - Len(s)]
  BY <1>1, <1>2
<1>4. Ascending(u)
  <2> SUFFICES ASSUME NEW i \in DOMAIN u, NEW j \in DOMAIN u, i < j PROVE u[i] < u[j]
    BY DEF Ascending
  <2>1. CASE j \in DOMAIN s
    <3>1. i \in Nat /\ j \in Nat /\ 1 <= i /\ i < Len(s)
      BY <1>2, <2>1
    <3>2. i \in DOMAIN s
      BY <1>2, <3>1
    <3>3. u[i] = s[i] /\ u[j] = s[j]
      BY <1>2, <1>3, <2>1, <3>1
    <3> QED
      BY <2>1, <3>2, <3>3 DEF Ascending
  <2>2. CASE j > Len(s) /\ i \in DOMAIN s
    BY <1>2, <1>3, <2>2 DEF Precede
  <2>3. CASE i > Len(s)
    BY <1>2, <1>3, <2>3 DEF Ascending
  <2> QED
    BY <1>2, <2>1, <2>2, <2>3
<1> QED
  BY <1>1, <1>3, <1>4 DEF u

\* The messages known to a subscription are in the order of their publication
\* from Redis to the caller.
THEOREM InOrder == Safety => []PipelineInOrder
<1>1. Typed /\ Ordered => PipelineInOrder
  <2> SUFFICES ASSUME Typed, Ordered PROVE PipelineInOrder
    OBVIOUS
  <2> DEFINE mid == got \o queue
             end == mid \o InHand
  <2>1. got \in Seq(Nat) /\ queue \in Seq(Nat) /\ wire \in Seq(Nat)
    <3>1. Messages \subseteq Nat
      BY MessagesAreNumbers
    <3> QED
      BY <3>1, SeqMonotonic DEF Typed, TypeOK
  <2>2. InHand \in Seq(Nat) /\ Ascending(InHand)
    BY DEF Typed, TypeOK, InHand, Ascending, Holding
  <2>3. mid \in Seq(Nat) /\ Ascending(mid)
        /\ \A i \in DOMAIN mid : \/ i \in DOMAIN got /\ mid[i] = got[i]
                                 \/ i - Len(got) \in DOMAIN queue /\ mid[i] = queue[i - Len(got)]
    BY <2>1, Joining DEF Ordered
  <2>4. Precede(mid, InHand) /\ Precede(mid, wire) /\ Precede(InHand, wire)
    BY <2>1, <2>3 DEF Ordered, Precede, Before, After, InHand, Holding
  <2>5. end \in Seq(Nat) /\ Ascending(end)
        /\ \A i \in DOMAIN end : \/ i \in DOMAIN mid /\ end[i] = mid[i]
                                 \/ i - Len(mid) \in DOMAIN InHand /\ end[i] = InHand[i - Len(mid)]
    <3> HIDE DEF mid
    <3> QED
      BY <2>2, <2>3, <2>4, Joining
  <2>6. Precede(end, wire)
    <3> HIDE DEF mid, end
    <3> QED
      BY <2>4, <2>5 DEF Precede
  <2>7. Ascending(end \o wire)
    <3> HIDE DEF mid, end
    <3> QED
      BY <2>1, <2>5, <2>6, Joining DEF Ordered
  <2> QED
    BY <2>7 DEF PipelineInOrder, Pipeline
<1> QED
  BY <1>1, OrderedHolds, TypeInvariant, PTL

-----------------------------------------------------------------------------
\* A subscription keeps what BroadcastDelivery promises: each message is handed
\* over at most once, after it was published, and in the order of publication.
THEOREM DeliveryHolds == Safety => ImplementsDelivery
<1>1. Init => Delivery!Init
  BY DEF Init, Delivery!Init
<1>2. Typed /\ Ordered /\ [Next]_vars => [Delivery!Next]_<<sent, got>>
  <2> SUFFICES ASSUME Typed, Ordered, [Next]_vars PROVE [Delivery!Next]_<<sent, got>>
    OBVIOUS
  <2>1. CASE Publish
    BY <2>1 DEF Publish, Delivery!Next, Delivery!Publish
  <2>2. CASE Get
    <3>1. queue # <<>> /\ queue[1] = Head(queue) /\ 1 \in DOMAIN queue /\ queue[1] \in Messages
      BY <2>2, TakingFirst DEF Get, Typed, TypeOK
    <3>0. queue[1] \in Nat /\ 1 <= queue[1] /\ sent \in Nat /\ got \in Seq(Nat)
      BY <3>1, MessagesAreNumbers, OnlyNumbers
    <3>2. queue[1] <= sent
      <4>1. queue[1] < sent + 1
        BY <3>1 DEF Ordered, Before
      <4> QED
        BY <3>0, <4>1
    <3>3. queue[1] \in Delivery!LastGot + 1 .. sent
      <4>1. CASE got = <<>>
        BY <3>0, <3>2, <4>1 DEF Delivery!LastGot
      <4>2. CASE got # <<>>
        <5>1. Len(got) \in DOMAIN got /\ got[Len(got)] \in Nat
          BY <3>0, <4>2, EmptySeq, LenProperties, ElementOfSeq
        <5>2. got[Len(got)] < queue[1]
          BY <3>1, <5>1 DEF Ordered, Precede
        <5> QED
          BY <3>0, <3>2, <4>2, <5>1, <5>2 DEF Delivery!LastGot
      <4> QED
        BY <4>1, <4>2
    <3>4. got' = Append(got, queue[1]) /\ UNCHANGED sent
      BY <2>2, <3>1 DEF Get, NextItem
    <3> QED
      BY <3>3, <3>4 DEF Delivery!Next, Delivery!Receive
  <2>3. CASE ~Publish /\ ~Get
    BY <2>3 DEF Next, Listener, Reader, vars, Subscribe, Enter, Close, Joined, ListenCheck,
                GetMessage, GetMessageFails, Put, PutClosed, DropOldest, Cleanup, CleanupFails,
                Receive, GetTimesOut
  <2> QED
    BY <2>1, <2>2, <2>3
<1> QED
  BY <1>1, <1>2, OrderedHolds, TypeInvariant, PTL DEF Safety, ImplementsDelivery, Delivery!Spec
-----------------------------------------------------------------------------
(***************************************************************************)
(* What a subscription has taken in, wherever it now is.  Complete says    *)
(* that from the first of these on there is no gap up to what was last     *)
(* published, and why: Redis delivers to an open subscription only once    *)
(* it has subscribed, and then everything.                                 *)
(***************************************************************************)
Items(s) == {s[i] : i \in DOMAIN s}
All == Items(got) \union Items(queue) \union Items(InHand) \union Items(wire) \union dropped

Complete ==
  /\ owner = "new" => listener = "none" /\ subscribed = "no"
  /\ pubsub = "open" => subscribed # "left"
  /\ pubsub = "open" /\ subscribed \in {"no", "asked"} => All = {}
  /\ pubsub = "open" /\ ~closed => \A k \in All : k..sent \subseteq All

LEMMA ItemsAppended ==
  ASSUME NEW S, NEW s \in Seq(S), NEW e \in S
  PROVE  Items(Append(s, e)) = Items(s) \union {e}
<1>1. /\ DOMAIN s = 1..Len(s) /\ DOMAIN Append(s, e) = 1..Len(s) + 1 /\ Len(s) \in Nat
      /\ \A i \in 1..Len(s) : Append(s, e)[i] = s[i]
      /\ Append(s, e)[Len(s) + 1] = e
  BY LenProperties, AppendProperties
<1> QED
  BY <1>1 DEF Items

LEMMA ItemsOfTail ==
  ASSUME NEW S, NEW s \in Seq(S), s # <<>>
  PROVE  Items(s) = {s[1]} \union Items(Tail(s))
<1>1. /\ DOMAIN s = 1..Len(s) /\ DOMAIN Tail(s) = 1..Len(s) - 1 /\ Len(s) \in Nat \ {0}
      /\ \A i \in 1..Len(s) - 1 : Tail(s)[i] = s[i + 1]
  BY LenProperties, HeadTailProperties, EmptySeq
<1>2. \A i \in DOMAIN s : i = 1 \/ (i - 1 \in DOMAIN Tail(s) /\ Tail(s)[i - 1] = s[i])
  BY <1>1
<1>3. \A i \in DOMAIN Tail(s) : i + 1 \in DOMAIN s /\ Tail(s)[i] = s[i + 1]
  BY <1>1
<1>4. 1 \in DOMAIN s
  BY <1>1
<1> DEFINE t == Tail(s)
<1> HIDE DEF t
<1>5. Items(s) \subseteq {s[1]} \union Items(t)
  <2> SUFFICES ASSUME NEW i \in DOMAIN s, i # 1 PROVE s[i] \in Items(t)
    BY DEF Items
  <2> QED
    BY <1>2 DEF Items, t
<1>6. Items(t) \subseteq Items(s)
  BY <1>3 DEF Items, t
<1>7. s[1] \in Items(s)
  BY <1>4 DEF Items
<1> QED
  BY <1>5, <1>6, <1>7 DEF t

LEMMA ItemsJoined ==
  ASSUME NEW S, NEW s \in Seq(S), NEW t \in Seq(S)
  PROVE  Items(s \o t) = Items(s) \union Items(t)
<1> DEFINE u == s \o t
<1>1. /\ Len(s) \in Nat /\ Len(t) \in Nat
      /\ DOMAIN s = 1..Len(s) /\ DOMAIN t = 1..Len(t) /\ DOMAIN u = 1..Len(s) + Len(t)
      /\ \A i \in 1..Len(s) + Len(t) : u[i] = IF i <= Len(s) THEN s[i] ELSE t[i - Len(s)]
  BY LenProperties, ConcatProperties
<1> HIDE DEF u
<1>2. \A i \in DOMAIN u : \/ i \in DOMAIN s /\ u[i] = s[i]
                          \/ i - Len(s) \in DOMAIN t /\ u[i] = t[i - Len(s)]
  BY <1>1
<1>3. \A i \in DOMAIN s : i \in DOMAIN u /\ u[i] = s[i]
  BY <1>1
<1>4. \A i \in DOMAIN t : i + Len(s) \in DOMAIN u /\ u[i + Len(s)] = t[i]
  BY <1>1
<1>5. Items(u) = Items(s) \union Items(t)
  BY <1>2, <1>3, <1>4 DEF Items
<1> QED
  BY <1>5 DEF u

LEMMA ItemsOfFew ==
  Items(<<>>) = {} /\ \A e : Items(<<e>>) = {e}
BY DEF Items

LEMMA KnownIsAll == Typed => Known = All
<1> SUFFICES ASSUME Typed PROVE Known = All
  OBVIOUS
<1>1. got \in Seq(Nat) /\ queue \in Seq(Nat) /\ wire \in Seq(Nat) /\ hand \in Nat
  BY OnlyNumbers
<1>2. InHand \in Seq(Nat)
  BY <1>1 DEF InHand
<1>3. got \o queue \in Seq(Nat) /\ Items(got \o queue) = Items(got) \union Items(queue)
  BY <1>1, ItemsJoined, ConcatProperties
<1> DEFINE gq == got \o queue
           end == gq \o InHand
<1>4. end \in Seq(Nat) /\ Items(end) = Items(gq) \union Items(InHand)
  <2> HIDE DEF gq
  <2>1. gq \in Seq(Nat)
    BY <1>3 DEF gq
  <2> QED
    BY <1>2, <2>1, ItemsJoined, ConcatProperties
<1>5. Items(end \o wire) = Items(end) \union Items(wire)
  <2> HIDE DEF gq, end
  <2> QED
    BY <1>1, <1>4, ItemsJoined
<1>6. Pipeline = end \o wire
  BY DEF Pipeline
<1>7. Known = Items(Pipeline) \union dropped
  BY DEF Known, Items
<1> QED
  BY <1>3, <1>4, <1>5, <1>6, <1>7 DEF All

LEMMA InitComplete == Init => Complete
  BY ItemsOfFew DEF Init, Complete, All, InHand

LEMMA NextComplete == Typed /\ Complete /\ [Next]_vars => Complete'
<1> SUFFICES ASSUME Typed, Complete, [Next]_vars PROVE Complete'
  OBVIOUS
<1>0. got \in Seq(Nat) /\ queue \in Seq(Nat) /\ wire \in Seq(Nat) /\ sent \in Nat /\ hand \in Nat
  BY OnlyNumbers
<1>1. CASE Publish
  <2>1. sent' = sent + 1 /\ UNCHANGED <<subscribed, pubsub, closed, queue, hand, listener, got, dropped>>
    BY <1>1 DEF Publish, threads
  <2>2. CASE subscribed \notin {"yes", "left"}
    <3>1. wire' = wire /\ subscribed \in {"no", "asked"}
      BY <1>1, <2>2 DEF Publish, Typed, TypeOK
    <3>2. All' = All
      BY <2>1, <3>1 DEF All, InHand, Items
    <3> QED
      BY <1>1, <2>1, <3>1, <3>2 DEF Complete, Publish, threads
  <2>3. CASE subscribed \in {"yes", "left"}
    <3>1. wire' = Append(wire, sent + 1)
      BY <1>1, <2>3 DEF Publish
    <3>2. Items(wire') = Items(wire) \union {sent + 1}
      <4>1. wire \in Seq(Nat) /\ sent + 1 \in Nat
        BY <1>0
      <4>2. Items(Append(wire, sent + 1)) = Items(wire) \union {sent + 1}
        BY <4>1, ItemsAppended
      <4>3. Items(wire') = Items(Append(wire, sent + 1))
        BY <3>1
      <4> QED
        BY <4>2, <4>3
    <3>3. All' = All \union {sent + 1}
      BY <2>1, <3>2 DEF All, InHand, Items
    <3>4. \A k : k..sent + 1 \subseteq (k..sent) \union {sent + 1}
      BY <1>0
    <3>5. ASSUME pubsub = "open", ~closed, NEW k \in All' PROVE k..sent' \subseteq All'
      <4>1. CASE k \in All
        BY <2>1, <3>3, <3>4, <3>5, <4>1 DEF Complete
      <4>2. CASE k = sent + 1
        BY <1>0, <2>1, <3>3, <4>2
      <4> QED
        BY <3>3, <3>5, <4>1, <4>2
    <3> QED
      BY <1>1, <2>1, <2>3, <3>5 DEF Complete, Publish, threads
  <2> QED
    BY <2>2, <2>3
<1>2. CASE Subscribe \/ Enter \/ Close \/ Joined
  <2>1. UNCHANGED <<sent, wire, pubsub, queue, hand, got, dropped>>
    BY <1>2 DEF Subscribe, Enter, Close, Joined, threads
  <2>2. InHand' = InHand
    BY <1>2, <2>1 DEF Subscribe, Enter, Close, Joined, threads, InHand, Complete
  <2>3. All' = All
    BY <2>1, <2>2 DEF All, Items
  <2> QED
    BY <1>2, <2>1, <2>3 DEF Subscribe, Enter, Close, Joined, threads, Complete
<1>3. CASE ListenCheck \/ GetMessageFails \/ PutClosed
  <2>1. CASE ListenCheck \/ GetMessageFails
    <3>1. All' = All
      BY <2>1 DEF ListenCheck, GetMessageFails, All, InHand, Items
    <3> QED
      BY <2>1, <3>1 DEF ListenCheck, GetMessageFails, Complete
  <2>2. CASE PutClosed
    <3>1. closed /\ listener = "put" /\ UNCHANGED <<pubsub, subscribed, closed, owner>>
      BY <2>2 DEF PutClosed
    <3>2. ~(pubsub = "open" /\ subscribed \in {"no", "asked"})
      <4>1. hand \in Items(InHand)
        BY <3>1, ItemsOfFew DEF InHand
      <4> QED
        BY <4>1 DEF Complete, All
    <3> QED
      BY <3>1, <3>2 DEF Complete
  <2> QED
    BY <1>3, <2>1, <2>2
<1>4. CASE GetMessage
  <2>1. UNCHANGED <<sent, subscribed, pubsub, closed, queue, owner, got, dropped>> /\ listener = "read"
    BY <1>4 DEF GetMessage
  <2>2. CASE wire = <<>>
    <3>1. All' = All
      BY <1>4, <2>1, <2>2 DEF GetMessage, All, InHand, Items
    <3> QED
      BY <2>1, <3>1 DEF Complete
  <2>3. CASE wire # <<>>
    <3>1. hand' = wire[1] /\ wire' = Tail(wire) /\ listener' = "put"
      BY <1>0, <1>4, <2>3, TakingFirst DEF GetMessage
    <3>2. Items(wire) = {wire[1]} \union Items(wire')
      BY <1>0, <2>3, <3>1, ItemsOfTail
    <3>3. Items(InHand) = {} /\ Items(InHand') = {wire[1]}
      BY <2>1, <3>1, ItemsOfFew DEF InHand
    <3>4. Items(got') = Items(got) /\ Items(queue') = Items(queue)
      BY <2>1 DEF Items
    <3>5. All' = All
      BY <2>1, <3>2, <3>3, <3>4 DEF All
    <3> QED
      BY <2>1, <3>5 DEF Complete
  <2> QED
    BY <2>2, <2>3
<1>5. CASE Put
  <2>1. UNCHANGED <<sent, subscribed, wire, pubsub, closed, owner, got, dropped>> /\ listener = "put"
    BY <1>5 DEF Put
  <2>2. CASE HasRoom
    <3>1. queue' = Append(queue, hand) /\ listener' = "check"
      BY <1>5, <2>2 DEF Put
    <3>2. Items(queue') = Items(queue) \union {hand}
      <4>1. queue \in Seq(Nat) /\ hand \in Nat
        BY <1>0
      <4>2. Items(Append(queue, hand)) = Items(queue) \union {hand}
        BY <4>1, ItemsAppended
      <4>3. Items(queue') = Items(Append(queue, hand))
        BY <3>1
      <4> QED
        BY <4>2, <4>3
    <3>3. Items(InHand) = {hand} /\ Items(InHand') = {}
      BY <2>1, <3>1, ItemsOfFew DEF InHand
    <3>4. Items(got') = Items(got) /\ Items(wire') = Items(wire)
      BY <2>1 DEF Items
    <3>5. All' = All
      BY <2>1, <3>2, <3>3, <3>4 DEF All
    <3> QED
      BY <2>1, <3>5 DEF Complete
  <2>3. CASE ~HasRoom
    <3>1. All' = All
      BY <1>5, <2>1, <2>3 DEF Put, All, InHand, Items
    <3> QED
      BY <2>1, <3>1 DEF Complete
  <2> QED
    BY <2>2, <2>3
<1>6. CASE DropOldest
  <2>1. /\ UNCHANGED <<sent, subscribed, wire, pubsub, closed, hand, owner, got>>
        /\ listener = "full" /\ listener' = "put"
    BY <1>6 DEF DropOldest, AfterFull
  <2>2. Items(got') = Items(got) /\ Items(wire') = Items(wire) /\ Items(InHand') = Items(InHand)
    BY <2>1 DEF Items, InHand
  <2>3. Items(queue') \union dropped' = Items(queue) \union dropped
    <3>1. CASE queue = <<>>
      BY <1>6, <3>1 DEF DropOldest, Items
    <3>2. CASE queue # <<>>
      <4>1. Items(queue) = {queue[1]} \union Items(Tail(queue)) /\ Head(queue) = queue[1]
        BY <1>0, <3>2, ItemsOfTail, TakingFirst
      <4> QED
        BY <1>6, <3>2, <4>1 DEF DropOldest, AfterDrop
    <3> QED
      BY <3>1, <3>2
  <2>4. All' = All
    BY <2>2, <2>3 DEF All
  <2> QED
    BY <2>1, <2>4 DEF Complete
<1>7. CASE Cleanup \/ CleanupFails
  <2>1. owner # "new" /\ pubsub' = "none" /\ UNCHANGED owner
    BY <1>7 DEF Cleanup, CleanupFails, Complete
  <2> QED
    BY <2>1 DEF Complete
<1>8. CASE Receive \/ GetTimesOut
  <2>1. UNCHANGED <<sent, subscribed, wire, pubsub, closed, queue, hand, listener, owner, got, dropped>>
    BY <1>8 DEF Receive, GetTimesOut
  <2>2. All' = All
    BY <2>1 DEF All, InHand, Items
  <2> QED
    BY <2>1, <2>2 DEF Complete
<1>9. CASE Get
  <2>1. queue # <<>> /\ UNCHANGED <<sent, subscribed, wire, pubsub, closed, hand, listener, owner, dropped>>
    BY <1>9 DEF Get
  <2>2. queue[1] \in Nat /\ queue' = Tail(queue) /\ got' = Append(got, queue[1])
    BY <1>0, <1>9, <2>1, TakingFirst DEF Get, NextItem
  <2>3. Items(got') = Items(got) \union {queue[1]} /\ Items(queue) = {queue[1]} \union Items(queue')
    BY <1>0, <2>1, <2>2, ItemsAppended, ItemsOfTail
  <2>4. Items(wire') = Items(wire) /\ Items(InHand') = Items(InHand)
    BY <2>1 DEF Items, InHand
  <2>5. All' = All
    BY <2>1, <2>3, <2>4 DEF All
  <2> QED
    BY <2>1, <2>5 DEF Complete
<1>10. CASE UNCHANGED vars
  <2>1. UNCHANGED <<sent, subscribed, wire, pubsub, closed, queue, hand, listener, owner, got, dropped>>
    BY <1>10 DEF vars, threads
  <2>2. All' = All
    BY <2>1 DEF All, InHand, Items
  <2> QED
    BY <2>1, <2>2 DEF Complete
<1> QED
  BY <1>1, <1>2, <1>3, <1>4, <1>5, <1>6, <1>7, <1>8, <1>9, <1>10 DEF Next, Listener, Reader

LEMMA CompleteHolds == Safety => []Complete
  BY InitComplete, NextComplete, TypeInvariant, PTL DEF Safety

\* A set of numbers that is not empty has a smallest one.
LEMMA Smallest ==
  ASSUME NEW T \in SUBSET Nat, T # {}
  PROVE  \E k \in T : \A m \in T : k <= m
<1>1. PICK k \in T : \A m \in T : ~(<<m, k>> \in OpToRel(<, Nat))
  BY NatLessThanWellFounded, WFMin
<1>2. SUFFICES ASSUME NEW m \in T PROVE k <= m
  OBVIOUS
<1>3. k \in Nat /\ m \in Nat /\ <<m, k>> \in Nat \X Nat
  OBVIOUS
<1>4. ~(m < k)
  <2> DEFINE p == <<m, k>>
  <2>1. p[1] = m /\ p[2] = k
    OBVIOUS
  <2> HIDE DEF p
  <2>2. p \in Nat \X Nat /\ p \notin OpToRel(<, Nat)
    BY <1>1, <1>3 DEF p
  <2> QED
    BY <2>1, <2>2 DEF OpToRel
<1> QED
  BY <1>3, <1>4

\* Nothing a subscription has taken in disappears while it is open: what it
\* knows is everything from its first message to the last one published.
THEOREM NoneVanishes == Safety => []NothingVanishes
<1>1. Typed /\ Ordered /\ Complete => NothingVanishes
  <2> SUFFICES ASSUME Typed, Ordered, Complete, ~closed, pubsub = "open", All # {}
               PROVE  \E first \in All : All = first..sent
    BY KnownIsAll DEF NothingVanishes
  <2>1. All \subseteq Nat /\ \A m \in All : m <= sent
    <3>1. \A m \in Items(got) \union Items(queue) \union Items(wire) : m \in Nat /\ m <= sent
      BY OnlyNumbers, ElementOfSeq, LenProperties DEF Items, Ordered, Before
    <3>2. \A m \in Items(InHand) : m \in Nat /\ m <= sent
      BY OnlyNumbers DEF Items, InHand, Ordered, Holding
    <3>3. \A m \in dropped : m \in Nat /\ m <= sent
      BY OnlyNumbers DEF Ordered
    <3> QED
      BY <3>1, <3>2, <3>3 DEF All
  <2>2. PICK first \in All : \A m \in All : first <= m
    BY <2>1, Smallest
  <2>3. first..sent \subseteq All
    BY <2>2 DEF Complete
  <2>4. All \subseteq first..sent
    BY <2>1, <2>2, OnlyNumbers
  <2> QED
    BY <2>2, <2>3, <2>4
<1> QED
  BY <1>1, OrderedHolds, TypeInvariant, CompleteHolds, PTL
-----------------------------------------------------------------------------
(***************************************************************************)
(* The second half of CloseCleansUp: who may still use the subscription.   *)
(* The listener starts once, and only its cleanup ends it and takes the    *)
(* subscription back.                                                      *)
(***************************************************************************)
Clean == listener = "ended" /\ subscribed \in {"no", "left"} /\ reader = "stopped"

CleanupInv ==
  /\ owner = "new" => listener = "none" /\ reader = "ready"
  /\ closed <=> owner \in {"joining", "left"}
  /\ listener = "ended" => subscribed \in {"no", "left"} /\ pubsub = "none"
  /\ reader = "stopped" => closed

LEMMA CleanupHolds == Safety => []CleanupInv
<1>1. Init => CleanupInv
  BY DEF Init, CleanupInv
<1>2. CleanupInv /\ [Next]_vars => CleanupInv'
  <2> SUFFICES ASSUME CleanupInv, [Next]_vars PROVE CleanupInv'
    OBVIOUS
  <2> USE DEF CleanupInv, threads
  <2>1. CASE Publish \/ Subscribe
    BY <2>1 DEF Publish, Subscribe
  <2>2. CASE Enter \/ Close \/ Joined
    BY <2>2 DEF Enter, Close, Joined
  <2>3. CASE Listener \/ GetMessageFails \/ CleanupFails
    BY <2>3 DEF Listener, ListenCheck, GetMessage, Put, PutClosed, DropOldest, AfterFull, Cleanup,
                AfterCleanup, GetMessageFails, CleanupFails
  <2>4. CASE Reader
    BY <2>4 DEF Reader, Receive, Get, GetTimesOut
  <2>5. CASE UNCHANGED vars
    BY <2>5 DEF vars
  <2> QED
    BY <2>1, <2>2, <2>3, <2>4, <2>5 DEF Next
<1> QED
  BY <1>1, <1>2, PTL DEF Safety

\* What was cleaned up stays so: no late answer of Redis, no caller and no thread
\* opens the subscription again, so CloseCleansUp has only to reach this state.
THEOREM CleanStays == Safety => [][Clean => Clean']_vars
<1>1. CleanupInv /\ [Next]_vars => [Clean => Clean']_vars
  <2> SUFFICES ASSUME CleanupInv, Next, Clean PROVE Clean'
    BY DEF Clean, vars, threads
  <2> USE DEF CleanupInv, Clean, threads
  <2>1. CASE Publish \/ Subscribe \/ Enter \/ Close \/ Joined
    BY <2>1 DEF Publish, Subscribe, Enter, Close, Joined
  <2>2. CASE Listener \/ GetMessageFails \/ CleanupFails
    BY <2>2 DEF Listener, ListenCheck, GetMessage, Put, PutClosed, DropOldest, Cleanup,
                GetMessageFails, CleanupFails
  <2>3. CASE Reader
    BY <2>3 DEF Reader, Receive, Get, GetTimesOut
  <2> QED
    BY <2>1, <2>2, <2>3 DEF Next
<1> QED
  BY <1>1, CleanupHolds, PTL DEF Safety
=============================================================================
