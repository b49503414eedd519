------------------------- MODULE StreamsSubscription -------------------------
(***************************************************************************)
(* One subscription to a topic kept in a Redis Stream                      *)
(* (_StreamsSubscription).  A listener thread reads the stream with        *)
(* blocking XREADs that start at "$", the end of the stream when the call  *)
(* is made, and at the last entry it has read once there is one.  The      *)
(* queue to the reader is unbounded and ends with a sentinel.              *)
(*                                                                         *)
(* Entry n of the stream is the n-th ever added; those before `first` were *)
(* trimmed or have expired.                                                *)
(***************************************************************************)
EXTENDS Naturals, Sequences

CONSTANTS
  MaxEntries,  \* bound on what the producers publish
  MaxLength,   \* XADD's maxlen, 5000 in the code
  MayExpire,   \* whether the retention time may run out
  MayFail      \* whether XREAD may raise

ASSUME StreamAssumption ==
  /\ MaxEntries \in Nat
  /\ MaxLength \in Nat \ {0}
  /\ MayExpire \in BOOLEAN
  /\ MayFail \in BOOLEAN

VARIABLES
  sent,      \* entries ever added
  first,     \* the first entry still in the stream
  closed,    \* _closed, guarded by _lock
  queue,     \* _queue: entries, and 0 for the sentinel
  listener,  \* where the thread in _listen is
  lastId,    \* last_id: 0 for "$", else the last entry read
  from,      \* where the XREAD in progress starts
  owner,     \* where the owner of the subscription is
  reader,    \* where the caller of receive() is
  got        \* history: what receive() returned

threads == <<listener, lastId, from, owner, reader>>
vars == <<sent, first, closed, queue, threads, got>>

Sentinel == 0
Dollar == 0

ListenerStates == {"none", "check", "call", "blocked", "finally", "flag", "ended"}
OwnerStates == {"new", "open", "joining", "left"}
ReaderStates == {"ready", "waiting", "stopped"}

Init ==
  /\ sent = 0
  /\ first = 1
  /\ closed = FALSE
  /\ queue = <<>>
  /\ listener = "none"
  /\ lastId = Dollar
  /\ from = 0
  /\ owner = "new"
  /\ reader = "ready"
  /\ got = <<>>

-----------------------------------------------------------------------------
(* Redis and the producers *)

Publish ==
  /\ sent < MaxEntries
  /\ sent' = sent + 1
  /\ first' = IF sent + 2 - first > MaxLength THEN sent + 2 - MaxLength ELSE first
  /\ UNCHANGED <<closed, queue, threads, got>>

(***************************************************************************)
(* The key expires retention_seconds after the last entry.                 *)
(***************************************************************************)
Expire ==
  /\ MayExpire
  /\ first <= sent
  /\ first' = sent + 1
  /\ UNCHANGED <<sent, closed, queue, threads, got>>

-----------------------------------------------------------------------------
(* The owner: __enter__ and close *)

Enter ==
  /\ owner = "new"
  /\ owner' = "open"
  /\ listener' = "check"
  /\ UNCHANGED <<sent, first, closed, queue, lastId, from, reader, got>>

(***************************************************************************)
(* close returns at once when the listener has closed the subscription.    *)
(***************************************************************************)
Close ==
  /\ owner = "open"
  /\ closed' = TRUE
  /\ owner' = IF closed THEN "left" ELSE "joining"
  /\ UNCHANGED <<sent, first, queue, listener, lastId, from, reader, got>>

Joined ==
  /\ owner = "joining"
  /\ owner' = "left"
  /\ UNCHANGED <<sent, first, closed, queue, listener, lastId, from, reader, got>>

-----------------------------------------------------------------------------
(* The listener thread *)

MustStop_Never == FALSE
MustStop == closed

ListenCheck ==
  /\ listener = "check"
  /\ listener' = IF MustStop THEN "finally" ELSE "call"
  /\ UNCHANGED <<sent, first, closed, queue, lastId, from, owner, reader, got>>

(***************************************************************************)
(* Redis receives the XREAD: "$" now means the last entry added.  A name   *)
(* with an ending after "_" is a mistake that a property must catch, such  *)
(* as "$" in every call.                                                   *)
(***************************************************************************)
StartOfRead_Dollar == sent
StartOfRead == IF lastId = Dollar THEN sent ELSE lastId

XRead ==
  /\ listener = "call"
  /\ listener' = "blocked"
  /\ from' = StartOfRead
  /\ UNCHANGED <<sent, first, closed, queue, lastId, owner, reader, got>>

Larger(a, b) == IF a > b THEN a ELSE b

(***************************************************************************)
(* The entries after `from` that the stream still holds; all go to the     *)
(* queue and the last one is where the next XREAD starts.  Redis answers   *)
(* with one entry as soon as it is added and leaves the rest to the next   *)
(* call; answering later with several gives the reader the same entries.   *)
(***************************************************************************)
NewEntries_FromLast ==
  [i \in 1 .. sent + 1 - Larger(first, from) |-> Larger(first, from) + i - 1]
NewEntries ==
  [i \in 1 .. sent + 1 - Larger(first, from + 1) |-> Larger(first, from + 1) + i - 1]

XReadReturns ==
  /\ listener = "blocked"
  /\ NewEntries # <<>>
  /\ queue' = queue \o NewEntries
  /\ lastId' = sent
  /\ listener' = "check"
  /\ UNCHANGED <<sent, first, closed, from, owner, reader, got>>

(***************************************************************************)
(* Nothing was added for the second the XREAD blocks.                      *)
(***************************************************************************)
XReadTimesOut ==
  /\ listener = "blocked"
  /\ NewEntries = <<>>
  /\ listener' = "check"
  /\ UNCHANGED <<sent, first, closed, queue, lastId, from, owner, reader, got>>

XReadFails ==
  /\ MayFail
  /\ listener = "blocked"
  /\ listener' = "finally"
  /\ UNCHANGED <<sent, first, closed, queue, lastId, from, owner, reader, got>>

(***************************************************************************)
(* The finally block: the sentinel, then the flag under the lock.          *)
(***************************************************************************)
AfterSentinel_None == queue
AfterSentinel == Append(queue, Sentinel)

PutSentinel ==
  /\ listener = "finally"
  /\ listener' = "flag"
  /\ queue' = AfterSentinel
  /\ UNCHANGED <<sent, first, closed, lastId, from, owner, reader, got>>

SetClosed ==
  /\ listener = "flag"
  /\ listener' = "ended"
  /\ closed' = TRUE
  /\ UNCHANGED <<sent, first, queue, lastId, from, owner, reader, got>>

-----------------------------------------------------------------------------
(* The reader: receive, called until it raises SubscriptionClosedError *)

Receive ==
  /\ reader = "ready"
  /\ owner # "new"
  /\ reader' = IF closed THEN "stopped" ELSE "waiting"
  /\ UNCHANGED <<sent, first, closed, queue, listener, lastId, from, owner, got>>

NextItem == Head(queue)

Get ==
  /\ reader = "waiting"
  /\ queue # <<>>
  /\ queue' = Tail(queue)
  /\ IF NextItem = Sentinel
     THEN reader' = "stopped" /\ UNCHANGED got
     ELSE reader' = "ready" /\ got' = Append(got, NextItem)
  /\ UNCHANGED <<sent, first, closed, listener, lastId, from, owner>>

GetTimesOut ==
  /\ reader = "waiting"
  /\ queue = <<>>
  /\ reader' = "ready"
  /\ UNCHANGED <<sent, first, closed, queue, listener, lastId, from, owner, got>>

-----------------------------------------------------------------------------
Listener ==
  ListenCheck \/ XRead \/ XReadReturns \/ XReadTimesOut \/ PutSentinel \/ SetClosed

Reader == Receive \/ Get \/ GetTimesOut

Next ==
  \/ Publish \/ Expire
  \/ Enter \/ Close \/ Joined
  \/ Listener \/ XReadFails
  \/ Reader

Fairness == WF_vars(Joined) /\ WF_vars(Listener) /\ WF_vars(Reader)

Safety == Init /\ [][Next]_vars
Spec == Safety /\ Fairness

-----------------------------------------------------------------------------
Entries == 1..MaxEntries

TypeOK ==
  /\ sent \in 0..MaxEntries
  /\ first \in 1..MaxEntries + 1
  /\ closed \in BOOLEAN
  /\ queue \in Seq(Entries \union {Sentinel})
  /\ listener \in ListenerStates
  /\ lastId \in 0..MaxEntries
  /\ from \in 0..MaxEntries
  /\ owner \in OwnerStates
  /\ reader \in ReaderStates
  /\ got \in Seq(Entries)

(***************************************************************************)
(* The entries the listener has read, the oldest first, which the reader   *)
(* has or which wait for it with the sentinel behind them.                 *)
(***************************************************************************)
Read == got \o queue

(***************************************************************************)
(* Once the subscription has read an entry it misses none that Redis still *)
(* holds: as long as nothing is trimmed, what it reads has no gap.         *)
(***************************************************************************)
NoGapAfterFirst ==
  first = 1 =>
    \A i \in DOMAIN Read : i > 1 /\ Read[i] # Sentinel => Read[i] = Read[i - 1] + 1

(***************************************************************************)
(* The sentinel comes once and last, and a reader never waits on a         *)
(* subscription whose listener is gone without finding it.                 *)
(***************************************************************************)
Sentinels == {i \in DOMAIN queue : queue[i] = Sentinel}
SentinelEndsQueue ==
  /\ Sentinels \subseteq {Len(queue)}
  /\ listener \in {"flag", "ended"} /\ reader = "waiting" => Sentinels # {}

Delivery == INSTANCE BroadcastDelivery
ImplementsDelivery == Delivery!Spec

(***************************************************************************)
(* A closed subscription, or one whose XREAD has failed, ends its listener *)
(* and stops its reader; the owner's close does not wait for ever.         *)
(***************************************************************************)
EverybodyStops ==
  (closed \/ listener = "finally")
     ~> (listener = "ended" /\ reader = "stopped" /\ owner \in {"open", "left"})

=============================================================================
