------------------------- MODULE PubSubSubscription -------------------------
(***************************************************************************)
(* One subscription to a Redis Pub/Sub topic (RedisSubscriptionBase, with  *)
(* its regular and sharded subclasses).  A listener thread moves messages  *)
(* from the connection to a bounded queue and drops the oldest when it is  *)
(* full; the reader takes them with receive(); the owner enters and closes *)
(* the subscription, as the "with" blocks of stream_topic_events (there    *)
(* owner and reader are one thread) and of the snapshot service do.        *)
(***************************************************************************)
EXTENDS Naturals, Sequences

CONSTANTS
  QueueSize,    \* 1024 in the code
  MaxMessages,  \* bound on what the producers publish
  MayFail       \* whether reading from Redis may raise

ASSUME SubscriptionAssumption ==
  /\ QueueSize \in Nat \ {0}
  /\ MaxMessages \in Nat
  /\ MayFail \in BOOLEAN

VARIABLES
  sent,        \* messages published on the topic; message n is the n-th
  subscribed,  \* "no", "asked" (command sent), "yes" (done by Redis) or
               \* "left" (the listener could not take it back)
  wire,        \* messages Redis sent to this connection, not yet read
  pubsub,      \* _pubsub: "open" or "none"
  closed,      \* the event _closed
  queue,       \* _queue
  listener,    \* where the thread in _listen is
  hand,        \* the message it has read and not put on the queue, or 0
  owner,       \* where the owner of the subscription is
  reader,      \* where the caller of receive() is
  got,         \* history: what receive() returned
  dropped      \* history: what _enqueue_message dropped

threads == <<listener, owner, reader>>
vars == <<sent, subscribed, wire, pubsub, closed, queue, hand, threads, got, dropped>>

ListenerStates == {"none", "check", "read", "put", "full", "cleanup", "ended"}
OwnerStates == {"new", "open", "joining", "left"}
ReaderStates == {"ready", "waiting", "stopped"}

Init ==
  /\ sent = 0
  /\ subscribed = "no"
  /\ wire = <<>>
  /\ pubsub = "open"
  /\ closed = FALSE
  /\ queue = <<>>
  /\ listener = "none"
  /\ hand = 0
  /\ owner = "new"
  /\ reader = "ready"
  /\ got = <<>>
  /\ dropped = {}

-----------------------------------------------------------------------------
(* Redis and the producers *)

Publish ==
  /\ sent < MaxMessages
  /\ sent' = sent + 1
  /\ wire' = IF subscribed \in {"yes", "left"} THEN Append(wire, sent + 1) ELSE wire
  /\ UNCHANGED <<subscribed, pubsub, closed, queue, hand, threads, got, dropped>>

(***************************************************************************)
(* Redis handles the SUBSCRIBE command; subscribe() did not wait for it.   *)
(***************************************************************************)
Subscribe ==
  /\ subscribed = "asked"
  /\ subscribed' = "yes"
  /\ UNCHANGED <<sent, wire, pubsub, closed, queue, hand, threads, got, dropped>>

-----------------------------------------------------------------------------
(* The owner: __enter__ and close *)

(***************************************************************************)
(* _start_if_needed under _start_lock.                                     *)
(***************************************************************************)
Enter ==
  /\ owner = "new"
  /\ owner' = "open"
  /\ subscribed' = "asked"
  /\ listener' = "check"
  /\ UNCHANGED <<sent, wire, pubsub, closed, queue, hand, reader, got, dropped>>

Close ==
  /\ owner = "open"
  /\ closed' = TRUE
  /\ owner' = "joining"
  /\ UNCHANGED <<sent, subscribed, wire, pubsub, queue, hand, listener, reader, got, dropped>>

(***************************************************************************)
(* join returns, because the listener ended or after one second.           *)
(***************************************************************************)
Joined ==
  /\ owner = "joining"
  /\ owner' = "left"
  /\ UNCHANGED <<sent, subscribed, wire, pubsub, closed, queue, hand, listener, reader, got, dropped>>

-----------------------------------------------------------------------------
(* The listener thread *)

ListenCheck ==
  /\ listener = "check"
  /\ listener' = IF closed THEN "cleanup" ELSE "read"
  /\ UNCHANGED <<sent, subscribed, wire, pubsub, closed, queue, hand, owner, reader, got, dropped>>

(***************************************************************************)
(* get_message returns a message, or nothing within its timeout.  What is  *)
(* not a message of this topic is skipped and leads back to the check too. *)
(***************************************************************************)
GetMessage ==
  /\ listener = "read"
  /\ \/ /\ wire # <<>>
        /\ hand' = Head(wire)
        /\ wire' = Tail(wire)
        /\ listener' = "put"
     \/ /\ wire = <<>>
        /\ listener' = "check"
        /\ UNCHANGED <<wire, hand>>
  /\ UNCHANGED <<sent, subscribed, pubsub, closed, queue, owner, reader, got, dropped>>

GetMessageFails ==
  /\ MayFail
  /\ listener = "read"
  /\ listener' = "cleanup"
  /\ UNCHANGED <<sent, subscribed, wire, pubsub, closed, queue, hand, owner, reader, got, dropped>>

HasRoom == Len(queue) < QueueSize

(***************************************************************************)
(* _enqueue_message: put_nowait, or find the queue full.                   *)
(***************************************************************************)
Put ==
  /\ listener = "put"
  /\ ~closed
  /\ IF HasRoom
     THEN /\ queue' = Append(queue, hand)
          /\ hand' = 0
          /\ listener' = "check"
     ELSE listener' = "full" /\ UNCHANGED <<queue, hand>>
  /\ UNCHANGED <<sent, subscribed, wire, pubsub, closed, owner, reader, got, dropped>>

(***************************************************************************)
(* A closed subscription forgets the message in hand.                      *)
(***************************************************************************)
PutClosed ==
  /\ listener = "put"
  /\ closed
  /\ hand' = 0
  /\ listener' = "check"
  /\ UNCHANGED <<sent, subscribed, wire, pubsub, closed, queue, owner, reader, got, dropped>>

(***************************************************************************)
(* After queue.Full the oldest message goes, if the reader left one.  A    *)
(* name with an ending after "_" is a mistake that a property below must   *)
(* catch, here the newest message in place of the oldest.                  *)
(***************************************************************************)
AfterDrop_Newest == SubSeq(queue, 1, Len(queue) - 1)
AfterDrop == Tail(queue)

AfterFull_NoRetry == "check"
AfterFull == "put"

DropOldest ==
  /\ listener = "full"
  /\ \/ /\ queue # <<>>
        /\ queue' = AfterDrop
        /\ dropped' = dropped \union {Head(queue)}
     \/ /\ queue = <<>>
        /\ UNCHANGED <<queue, dropped>>
  /\ listener' = AfterFull
  /\ UNCHANGED <<sent, subscribed, wire, pubsub, closed, hand, owner, reader, got>>

(***************************************************************************)
(* The end of _listen, the only user of the PubSub object.                 *)
(***************************************************************************)
AfterCleanup_StillSubscribed == "yes"
AfterCleanup == "no"

Cleanup ==
  /\ listener = "cleanup"
  /\ listener' = "ended"
  /\ subscribed' = AfterCleanup
  /\ wire' = <<>>
  /\ pubsub' = "none"
  /\ UNCHANGED <<sent, closed, queue, hand, owner, reader, got, dropped>>

(***************************************************************************)
(* An exception during the cleanup is logged; Redis goes on sending to a   *)
(* connection that nobody reads.                                           *)
(***************************************************************************)
CleanupFails ==
  /\ MayFail
  /\ listener = "cleanup"
  /\ listener' = "ended"
  /\ subscribed' = "left"
  /\ pubsub' = "none"
  /\ UNCHANGED <<sent, wire, closed, queue, hand, owner, reader, got, dropped>>

-----------------------------------------------------------------------------
(* The reader: receive, called again and again *)

(***************************************************************************)
(* receive checks _closed before it waits; _start_if_needed returns at     *)
(* once, the owner having entered, even when the listener has ended.       *)
(***************************************************************************)
Receive ==
  /\ reader = "ready"
  /\ owner # "new"
  /\ reader' = IF closed THEN "stopped" ELSE "waiting"
  /\ UNCHANGED <<sent, subscribed, wire, pubsub, closed, queue, hand, listener, owner, got, dropped>>

NextItem_Newest == queue[Len(queue)]
NextItem == Head(queue)

Get ==
  /\ reader = "waiting"
  /\ queue # <<>>
  /\ got' = Append(got, NextItem)
  /\ queue' = Tail(queue)
  /\ reader' = "ready"
  /\ UNCHANGED <<sent, subscribed, wire, pubsub, closed, hand, listener, owner, dropped>>

GetTimesOut ==
  /\ reader = "waiting"
  /\ queue = <<>>
  /\ reader' = "ready"
  /\ UNCHANGED <<sent, subscribed, wire, pubsub, closed, queue, hand, listener, owner, got, dropped>>

-----------------------------------------------------------------------------
Listener ==
  ListenCheck \/ GetMessage \/ Put \/ PutClosed \/ DropOldest \/ Cleanup

Reader == Receive \/ Get \/ GetTimesOut

Next ==
  \/ Publish \/ Subscribe
  \/ Enter \/ Close \/ Joined
  \/ Listener \/ GetMessageFails \/ CleanupFails
  \/ Reader

(***************************************************************************)
(* Threads are scheduled, and Redis answers; nobody has to publish, to     *)
(* enter or to close.                                                      *)
(***************************************************************************)
Fairness ==
  /\ WF_vars(Subscribe)
  /\ WF_vars(Joined)
  /\ WF_vars(Listener)
  /\ WF_vars(Reader)

Safety == Init /\ [][Next]_vars
Spec == Safety /\ Fairness

-----------------------------------------------------------------------------
Messages == 1..MaxMessages

TypeOK ==
  /\ sent \in 0..MaxMessages
  /\ subscribed \in {"no", "asked", "yes", "left"}
  /\ wire \in Seq(Messages)
  /\ pubsub \in {"open", "none"}
  /\ closed \in BOOLEAN
  /\ queue \in Seq(Messages)
  /\ Len(queue) <= QueueSize
  /\ listener \in ListenerStates
  /\ hand \in 0..MaxMessages
  /\ owner \in OwnerStates
  /\ reader \in ReaderStates
  /\ got \in Seq(Messages)
  /\ dropped \in SUBSET Messages

(***************************************************************************)
(* All the messages the subscription knows, oldest first.                  *)
(***************************************************************************)
InHand == IF listener \in {"put", "full"} THEN <<hand>> ELSE <<>>
Pipeline == got \o queue \o InHand \o wire

Ascending(s) == \A i, j \in DOMAIN s : i < j => s[i] < s[j]

(***************************************************************************)
(* Messages move from Redis to the caller in the order of publication and  *)
(* are never repeated, though the listener may drop from the same queue    *)
(* while the reader takes from it.                                         *)
(***************************************************************************)
PipelineInOrder == Ascending(Pipeline)

(***************************************************************************)
(* While the subscription is open and the listener has not failed, every   *)
(* message after the first it knew of is still on its way, was returned or *)
(* was dropped for a full queue: none disappears in the hand-over.         *)
(***************************************************************************)
Known == {Pipeline[i] : i \in DOMAIN Pipeline} \union dropped
NothingVanishes ==
  (~closed /\ pubsub = "open" /\ Known # {}) =>
    \E first \in Known : Known = first..sent

(***************************************************************************)
(* What a full queue drops is older than everything that still waits, so   *)
(* that the newest message, such as the event that ends a workflow, is not *)
(* the one that goes.                                                      *)
(***************************************************************************)
DropsAreOldest ==
  \A m \in dropped : \A i \in DOMAIN queue : m < queue[i]

Delivery == INSTANCE BroadcastDelivery
ImplementsDelivery == Delivery!Spec

(***************************************************************************)
(* A closed subscription leaves nothing behind: its listener ends, Redis   *)
(* sends it nothing more (unless the unsubscription itself raised), and    *)
(* its reader stops; wherever in its loop the close finds the listener.    *)
(***************************************************************************)
CloseCleansUp ==
  closed ~> [](listener = "ended" /\ subscribed \in {"no", "left"} /\ reader = "stopped")

=============================================================================
