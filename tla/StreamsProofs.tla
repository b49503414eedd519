---------------------------- MODULE StreamsProofs ----------------------------
(***************************************************************************)
(* Proofs about StreamsSubscription, for every length of the stream and    *)
(* every number of entries.  The inductive invariant speaks of the one     *)
(* sequence Read, of which got and queue are the two parts: the reader     *)
(* only moves the border between them, so that what the listener keeps of  *)
(* it holds wherever the reader is.                                        *)
(***************************************************************************)
EXTENDS StreamsSubscription, SequenceTheorems, TLAPS

\* Moving the first element of one sequence to the end of another.
LEMMA Moving ==
  ASSUME NEW S, NEW s \in Seq(S), NEW t \in Seq(S), t # <<>>
  PROVE  Append(s, Head(t)) \o Tail(t) = s \o t
<1>1. Head(t) \in S /\ Tail(t) \in Seq(S) /\ <<Head(t)>> \in Seq(S)
  BY HeadTailProperties
<1>2. <<Head(t)>> \o Tail(t) = t
  <2> DEFINE u == <<Head(t)>> \o Tail(t)
  <2>1. /\ Len(Tail(t)) = Len(t) - 1 /\ Len(t) \in Nat \ {0}
        /\ \A i \in 1..Len(Tail(t)) : Tail(t)[i] = t[i + 1]
    BY HeadTailProperties, EmptySeq, LenProperties
  <2>2. /\ u \in Seq(S) /\ Len(u) = 1 + (Len(t) - 1)
        /\ \A i \in 1..1 + (Len(t) - 1) : u[i] = IF i <= 1 THEN <<Head(t)>>[i] ELSE Tail(t)[i - 1]
    <3>1. Len(<<Head(t)>>) = 1
      OBVIOUS
    <3> QED
      BY <1>1, <2>1, <3>1, ConcatProperties
  <2> HIDE DEF u
  <2>3. Head(t) = t[1] /\ <<Head(t)>>[1] = Head(t)
    OBVIOUS
  <2>4. ASSUME NEW i \in 1..Len(t) PROVE u[i] = t[i]
    BY <2>1, <2>2, <2>3
  <2>5. Len(u) = Len(t)
    BY <2>1, <2>2
  <2> QED
    BY <2>2, <2>4, <2>5, SeqEqual DEF u
<1>3. Append(s, Head(t)) = s \o <<Head(t)>>
  BY <1>1, AppendIsConcat
<1> QED
  BY <1>1, <1>2, <1>3, ConcatAssociative

\* Adding at the end of the second of two sequences.
LEMMA ConcatAppend ==
  ASSUME NEW S, NEW s \in Seq(S), NEW t \in Seq(S), NEW e \in S
  PROVE  s \o Append(t, e) = Append(s \o t, e)
<1>1. Append(t, e) = t \o <<e>> /\ Append(s \o t, e) = (s \o t) \o <<e>> /\ s \o t \in Seq(S)
  BY AppendIsConcat, ConcatProperties
<1>2. <<e>> \in Seq(S)
  OBVIOUS
<1> QED
  BY <1>1, <1>2, ConcatAssociative

Numbers == Entries \union {Sentinel}
LastRead == Read[Len(Read)]

(***************************************************************************)
(* Read ascends and ends at lastId, or with the sentinel once the listener *)
(* has put it there and as long as the reader has not taken it.            *)
(***************************************************************************)
Bounded == \A i \in DOMAIN Read : Read[i] <= lastId
Rising == \A i, j \in DOMAIN Read : i < j /\ Read[j] # Sentinel => Read[i] < Read[j]
SentinelLast == \A i \in DOMAIN Read : Read[i] = Sentinel => i = Len(Read)
Finished == listener \in {"flag", "ended"}
Ends ==
  /\ ~Finished => \A i \in DOMAIN Read : Read[i] # Sentinel
  /\ ~Finished /\ Read # <<>> => LastRead = lastId
  /\ ~Finished /\ Read = <<>> => lastId = Dollar
  /\ Finished /\ reader # "stopped" => Read # <<>> /\ LastRead = Sentinel
Positions ==
  /\ lastId <= sent /\ from <= sent
  /\ listener = "blocked" => from = lastId \/ lastId = Dollar
  /\ owner = "new" => listener = "none"

ReadInv == Bounded /\ Rising /\ SentinelLast /\ Ends /\ Positions /\ NoGapAfterFirst

LEMMA EntriesAreNumbers ==
  /\ MaxEntries \in Nat
  /\ \A e : e \in Entries <=> e \in Nat /\ 1 <= e /\ e <= MaxEntries
  /\ \A e : e \in Numbers <=> e \in 0..MaxEntries
  /\ Entries \subseteq Numbers
BY StreamAssumption DEF Entries, Numbers, Sentinel

(***************************************************************************)
(* The entries an XREAD returns, as a sequence.                            *)
(***************************************************************************)
FirstNew == Larger(first, from + 1)
LEMMA NewEntriesTyped ==
  ASSUME TypeOK
  PROVE  /\ NewEntries \in Seq(Entries)
         /\ FirstNew \in Nat /\ FirstNew > from /\ first <= FirstNew
         /\ first = 1 => FirstNew = from + 1
         /\ NewEntries # <<>> => sent + 1 - FirstNew \in Nat /\ sent + 1 - FirstNew > 0
                                 /\ Len(NewEntries) = sent + 1 - FirstNew
         /\ \A i \in DOMAIN NewEntries : i \in Nat /\ i >= 1 /\ i <= sent + 1 - FirstNew
                                         /\ NewEntries[i] = FirstNew + i - 1
<1> DEFINE n == sent + 1 - FirstNew
           len == IF n > 0 THEN n ELSE 0
<1>1. /\ sent \in Nat /\ sent <= MaxEntries /\ first \in Nat /\ first >= 1 /\ from \in Nat
      /\ MaxEntries \in Nat
  BY EntriesAreNumbers DEF TypeOK
<1>2. /\ FirstNew \in Nat /\ FirstNew > from /\ first <= FirstNew
      /\ first = 1 => FirstNew = from + 1
  BY <1>1 DEF FirstNew, Larger
<1>3. NewEntries = [i \in 1..n |-> FirstNew + i - 1]
  BY DEF NewEntries, FirstNew
<1> HIDE DEF FirstNew
<1>4. n \in Int /\ len \in Nat /\ 1..n = 1..len
  BY <1>1, <1>2
<1>5. \A i \in 1..n : FirstNew + i - 1 \in Entries
  BY <1>1, <1>2, EntriesAreNumbers
<1>6. NewEntries \in [1..len -> Entries]
  BY <1>3, <1>4, <1>5
<1>7. NewEntries \in Seq(Entries) /\ Len(NewEntries) = len
  BY <1>4, <1>6, SeqDef, LenProperties
<1>8. NewEntries # <<>> => n > 0
  BY <1>4, <1>7, EmptySeq
<1> QED
  BY <1>2, <1>3, <1>4, <1>7, <1>8

LEMMA InitTyped == Init => TypeOK
<1>1. <<>> \in Seq(Numbers) /\ <<>> \in Seq(Entries)
  BY EmptySeq
<1>2. 0 \in 0..MaxEntries /\ 1 \in 1..MaxEntries + 1
  BY StreamAssumption
<1> QED
  BY <1>1, <1>2
     DEF Init, TypeOK, Numbers, Dollar, ListenerStates, OwnerStates, ReaderStates

LEMMA NextTyped == TypeOK /\ [Next]_vars => TypeOK'
<1> SUFFICES ASSUME TypeOK, [Next]_vars PROVE TypeOK'
  OBVIOUS
<1>0. queue \in Seq(Numbers) /\ MaxEntries \in Nat /\ MaxLength \in Nat \ {0}
  BY StreamAssumption DEF TypeOK, Numbers
<1> USE DEF ListenerStates, OwnerStates, ReaderStates, threads
<1>1. CASE Publish
  <2>1. sent + 1 \in 0..MaxEntries /\ first' \in 1..MaxEntries + 1
    <3>1. sent \in Nat /\ sent < MaxEntries /\ first \in 1..MaxEntries + 1
      BY <1>1 DEF Publish, TypeOK
    <3>2. first' = IF sent + 2 - first > MaxLength THEN sent + 2 - MaxLength ELSE first
      BY <1>1 DEF Publish
    <3> QED
      BY <1>0, <3>1, <3>2
  <2> QED
    BY <1>1, <2>1 DEF Publish, TypeOK
<1>2. CASE Expire \/ Enter \/ Close \/ Joined
  <2>1. sent + 1 \in 1..MaxEntries + 1
    BY <1>0 DEF TypeOK
  <2> QED
    BY <1>2, <2>1 DEF Expire, Enter, Close, Joined, TypeOK
<1>3. CASE ListenCheck \/ XRead \/ XReadTimesOut \/ XReadFails \/ SetClosed
  BY <1>3 DEF ListenCheck, MustStop, XRead, StartOfRead, XReadTimesOut, XReadFails, SetClosed, TypeOK
<1>4. CASE XReadReturns
  <2>1. NewEntries \in Seq(Numbers)
    BY NewEntriesTyped, EntriesAreNumbers, SeqMonotonic
  <2>2. queue \o NewEntries \in Seq(Numbers)
    BY <1>0, <2>1, ConcatProperties
  <2> QED
    BY <1>4, <2>2 DEF XReadReturns, TypeOK, Numbers
<1>5. CASE PutSentinel
  <2>1. Append(queue, Sentinel) \in Seq(Numbers)
    BY <1>0, AppendProperties DEF Numbers
  <2> QED
    BY <1>5, <2>1 DEF PutSentinel, AfterSentinel, TypeOK, Numbers
<1>6. CASE Receive \/ GetTimesOut
  BY <1>6 DEF Receive, GetTimesOut, TypeOK
<1>7. CASE Get
  <2>1. Head(queue) \in Numbers /\ Tail(queue) \in Seq(Numbers)
    BY <1>0, <1>7, HeadTailProperties DEF Get
  <2>2. Head(queue) # Sentinel => Append(got, Head(queue)) \in Seq(Entries)
    BY <2>1, AppendProperties DEF Numbers, TypeOK
  <2> QED
    BY <1>7, <2>1, <2>2 DEF Get, NextItem, TypeOK, Numbers
<1>8. CASE UNCHANGED vars
  BY <1>8 DEF vars, TypeOK
<1> QED
  BY <1>1, <1>2, <1>3, <1>4, <1>5, <1>6, <1>7, <1>8 DEF Next, Listener, Reader

\* Type correctness of a subscription to a stream: what it returns are entries,
\* never the sentinel.
THEOREM TypeCorrect == Safety => []TypeOK
  BY InitTyped, NextTyped, PTL DEF Safety

-----------------------------------------------------------------------------
(***************************************************************************)
(* What the steps do to Read: only XReadReturns and PutSentinel lengthen   *)
(* it, and only a reader that takes the sentinel, and stops, shortens it.  *)
(***************************************************************************)
LEMMA ReadTyped ==
  TypeOK => /\ got \in Seq(Numbers) /\ queue \in Seq(Numbers) /\ Read \in Seq(Numbers)
            /\ sent \in Nat /\ first \in Nat /\ from \in Nat /\ lastId \in Nat
            /\ Len(Read) \in Nat /\ DOMAIN Read = 1..Len(Read) /\ Len(Read) = Len(got) + Len(queue)
            /\ Len(got) \in Nat /\ Len(queue) \in Nat
            /\ \A i \in DOMAIN Read : Read[i] \in Nat
<1> SUFFICES ASSUME TypeOK
             PROVE  /\ got \in Seq(Numbers) /\ queue \in Seq(Numbers) /\ Read \in Seq(Numbers)
                    /\ sent \in Nat /\ first \in Nat /\ from \in Nat /\ lastId \in Nat
                    /\ Len(Read) \in Nat /\ DOMAIN Read = 1..Len(Read)
                    /\ Len(Read) = Len(got) + Len(queue) /\ Len(got) \in Nat /\ Len(queue) \in Nat
                    /\ \A i \in DOMAIN Read : Read[i] \in Nat
  OBVIOUS
<1>1. got \in Seq(Numbers)
  <2>1. got \in Seq(Entries)
    BY DEF TypeOK
  <2> QED
    BY <2>1, EntriesAreNumbers, SeqMonotonic
<1>2. queue \in Seq(Numbers)
  BY DEF TypeOK, Numbers
<1>3. Read \in Seq(Numbers) /\ Len(Read) = Len(got) + Len(queue)
  BY <1>1, <1>2, ConcatProperties DEF Read
<1>4. /\ Len(Read) \in Nat /\ DOMAIN Read = 1..Len(Read) /\ Len(got) \in Nat /\ Len(queue) \in Nat
      /\ \A i \in DOMAIN Read : Read[i] \in Numbers
  BY <1>1, <1>2, <1>3, LenProperties, ElementOfSeq
<1>5. sent \in Nat /\ first \in Nat /\ from \in Nat /\ lastId \in Nat
  BY EntriesAreNumbers DEF TypeOK
<1>6. \A e \in Numbers : e \in Nat
  BY EntriesAreNumbers
<1> QED
  BY <1>1, <1>2, <1>3, <1>4, <1>5, <1>6, SMTT(30)


LEMMA InitRead == Init => ReadInv
<1> SUFFICES ASSUME Init PROVE ReadInv
  OBVIOUS
<1>1. Read = <<>> /\ DOMAIN Read = {}
  <2>1. <<>> \o <<>> = <<>>
    BY EmptySeq, ConcatEmptySeq
  <2> QED
    BY <2>1 DEF Init, Read
<1> QED
  BY <1>1 DEF Init, ReadInv, Bounded, Rising, SentinelLast, Ends, Finished, Positions,
              NoGapAfterFirst, Dollar

\* Steps that neither lengthen Read nor let the listener go on to its end.
LEMMA KeepsRead ==
  ASSUME TypeOK, ReadInv, Read' = Read, lastId' = lastId, sent <= sent', sent' \in Nat,
         first <= first', first' \in Nat, first >= 1,
         Finished' = Finished, reader # "stopped" \/ reader' = "stopped",
         from' <= sent', listener' = "blocked" => from' = lastId \/ lastId = Dollar,
         owner' = "new" => listener' = "none"
  PROVE  ReadInv'
<1>1. first' = 1 => first = 1
  BY ReadTyped
<1>2. sent \in Nat /\ lastId \in Nat
  BY ReadTyped
<1>3. NoGapAfterFirst'
  BY <1>1 DEF ReadInv, NoGapAfterFirst
<1>4. Bounded' /\ Rising' /\ SentinelLast'
  BY DEF ReadInv, Bounded, Rising, SentinelLast
<1>5. Ends'
  BY DEF ReadInv, Ends, LastRead
<1>6. Positions'
  BY <1>2 DEF ReadInv, Positions
<1> QED
  BY <1>3, <1>4, <1>5, <1>6 DEF ReadInv

LEMMA NextRead == TypeOK /\ ReadInv /\ [Next]_vars => ReadInv'
<1> SUFFICES ASSUME TypeOK, ReadInv, [Next]_vars PROVE ReadInv'
  BY Zenon
<1>0. /\ got \in Seq(Numbers) /\ queue \in Seq(Numbers) /\ Read \in Seq(Numbers)
      /\ sent \in Nat /\ first \in Nat /\ first >= 1 /\ from \in Nat /\ lastId \in Nat
      /\ Len(Read) \in Nat /\ DOMAIN Read = 1..Len(Read) /\ Len(Read) = Len(got) + Len(queue)
      /\ \A i \in DOMAIN Read : Read[i] \in Nat
      /\ lastId <= sent /\ from <= sent
  <2>1. first >= 1
    BY EntriesAreNumbers DEF TypeOK
  <2>2. lastId <= sent /\ from <= sent
    BY DEF ReadInv, Positions
  <2> QED
    BY <2>1, <2>2, ReadTyped
<1>10. Len(Read) \in Nat
  BY <1>0
<1>11. Len(Read) = Len(got) + Len(queue)
  BY <1>0
<1> USE DEF threads
<1>1. CASE Publish \/ Expire \/ Enter \/ Close \/ Joined
  <2>1. UNCHANGED <<queue, got, lastId, from, reader>> /\ sent' \in Nat /\ sent <= sent'
    BY <1>0, <1>1 DEF Publish, Expire, Enter, Close, Joined
  <2>2. first' \in Nat /\ first <= first'
    <3>1. CASE Publish
      <4>1. first' = IF sent + 2 - first > MaxLength THEN sent + 2 - MaxLength ELSE first
        BY <3>1 DEF Publish
      <4> QED
        BY <1>0, <4>1, StreamAssumption
    <3>2. CASE ~Publish
      BY <1>0, <1>1, <3>2 DEF Expire, Enter, Close, Joined
    <3> QED
      BY <3>1, <3>2
  <2>3. Read' = Read
    BY <2>1 DEF Read
  <2>4. from' <= sent'
    BY <1>0, <2>1
  <2>5. Finished' = Finished /\ (listener' = "blocked" => listener = "blocked")
        /\ (owner' = "new" => listener' = "none")
    BY <1>1 DEF Publish, Expire, Enter, Close, Joined, Finished, ReadInv, Positions
  <2>6. listener' = "blocked" => from' = lastId \/ lastId = Dollar
    BY <2>1, <2>5 DEF ReadInv, Positions
  <2> QED
    BY <1>0, <2>1, <2>2, <2>3, <2>4, <2>5, <2>6, KeepsRead
<1>2. CASE ListenCheck \/ XRead \/ XReadTimesOut \/ XReadFails \/ Receive \/ GetTimesOut \/ UNCHANGED vars
  <2>1. UNCHANGED <<sent, first, queue, got, lastId>>
    BY <1>2 DEF ListenCheck, XRead, XReadTimesOut, XReadFails, Receive, GetTimesOut, vars
  <2>2. Read' = Read
    BY <2>1 DEF Read
  <2>3. /\ from' <= sent'
        /\ listener' = "blocked" => from' = lastId \/ lastId = Dollar
    BY <1>0, <1>2, <2>1 DEF ListenCheck, XRead, XReadTimesOut, XReadFails, Receive, GetTimesOut, vars,
                            StartOfRead, ReadInv, Positions
  <2>4. /\ Finished' = Finished
        /\ owner' = "new" => listener' = "none"
        /\ reader # "stopped" \/ reader' = "stopped"
    BY <1>2 DEF ListenCheck, XRead, XReadTimesOut, XReadFails, Receive, GetTimesOut, vars, Finished,
                ReadInv, Positions
  <2> QED
    BY <1>0, <2>1, <2>2, <2>3, <2>4, KeepsRead
<1>3. CASE SetClosed
  <2>1. UNCHANGED <<sent, first, queue, got, lastId, from, reader, owner>>
        /\ listener = "flag" /\ listener' = "ended"
    BY <1>3 DEF SetClosed
  <2>2. Read' = Read
    BY <2>1 DEF Read
  <2>3. Finished' = Finished /\ (owner' = "new" => listener' = "none")
    BY <2>1 DEF Finished, ReadInv, Positions
  <2> QED
    BY <1>0, <2>1, <2>2, <2>3, KeepsRead
<1>4. CASE PutSentinel
  <2>1. /\ UNCHANGED <<sent, first, got, lastId, from, reader, owner>>
        /\ listener = "finally" /\ listener' = "flag" /\ queue' = Append(queue, Sentinel)
    BY <1>4 DEF PutSentinel, AfterSentinel
  <2>2. Sentinel \in Numbers
    BY DEF Numbers
  <2>3. Read' = Append(Read, Sentinel)
    BY <1>0, <2>1, <2>2, ConcatAppend, SMTT(30) DEF Read
  <2>4. /\ DOMAIN Read' = 1..Len(Read) + 1 /\ Len(Read') = Len(Read) + 1
        /\ \A i \in 1..Len(Read) : Read'[i] = Read[i]
        /\ Read'[Len(Read) + 1] = Sentinel
    BY <1>0, <2>2, <2>3, AppendProperties, LenProperties
  <2>5. \A i \in DOMAIN Read : Read[i] # Sentinel
    BY <2>1 DEF ReadInv, Ends, Finished
  <2>6. Bounded'
    <3>1. \A i \in DOMAIN Read' : i \in 1..Len(Read) \/ i = Len(Read) + 1
      BY <1>0, <2>4
    <3>2. \A i \in 1..Len(Read) : Read[i] <= lastId
      BY <1>0 DEF ReadInv, Bounded
    <3>3. \A i \in DOMAIN Read' : Read'[i] <= lastId
      BY <1>0, <2>4, <3>1, <3>2 DEF Sentinel
    <3> QED
      BY <2>1, <3>3 DEF Bounded
  <2>7. Rising'
    <3>1. SUFFICES ASSUME NEW i \in DOMAIN Read', NEW j \in DOMAIN Read', i < j, Read'[j] # Sentinel
                   PROVE  Read'[i] < Read'[j]
      BY DEF Rising
    <3>2. i \in 1..Len(Read) /\ j \in 1..Len(Read)
      <4>1. i \in 1..Len(Read) + 1 /\ j \in 1..Len(Read) + 1 /\ j # Len(Read) + 1
        BY <2>4, <3>1
      <4>2. i < j
        BY <3>1
      <4> QED
        BY <1>10, <4>1, <4>2
    <3>3. Read[j] # Sentinel => Read[i] < Read[j]
      BY <1>0, <3>1, <3>2 DEF ReadInv, Rising
    <3> QED
      BY <2>4, <3>1, <3>2, <3>3
  <2>8. SentinelLast'
    BY <1>0, <2>4, <2>5 DEF SentinelLast
  <2>9. Ends'
    BY <1>0, <2>1, <2>3, <2>4, AppendProperties, <2>2 DEF Ends, LastRead, Finished
  <2>10. Positions'
    BY <2>1 DEF ReadInv, Positions
  <2>11. NoGapAfterFirst'
    <3>1. SUFFICES ASSUME first = 1, NEW i \in DOMAIN Read', i > 1, Read'[i] # Sentinel
                   PROVE  Read'[i] = Read'[i - 1] + 1
      BY <2>1 DEF NoGapAfterFirst
    <3>2. i \in 1..Len(Read) /\ i - 1 \in 1..Len(Read)
      BY <1>0, <2>4, <3>1
    <3>3. Read[i] # Sentinel => Read[i] = Read[i - 1] + 1
      BY <1>0, <3>1, <3>2 DEF ReadInv, NoGapAfterFirst
    <3> QED
      BY <2>4, <3>1, <3>2, <3>3
  <2> QED
    BY <2>6, <2>7, <2>8, <2>9, <2>10, <2>11 DEF ReadInv
<1>5. CASE XReadReturns
  <2> DEFINE n == sent + 1 - FirstNew
  <2>1. /\ UNCHANGED <<sent, first, got, from, reader, owner>>
        /\ listener = "blocked" /\ listener' = "check" /\ queue' = queue \o NewEntries
        /\ lastId' = sent /\ NewEntries # <<>>
    BY <1>5 DEF XReadReturns
  <2>2. NewEntries \in Seq(Numbers)
    BY NewEntriesTyped, EntriesAreNumbers, SeqMonotonic
  <2>3. /\ FirstNew \in Nat /\ FirstNew > from /\ n \in Nat /\ n > 0 /\ Len(NewEntries) = n
        /\ first = 1 => FirstNew = from + 1
        /\ DOMAIN NewEntries = 1..n
        /\ \A i \in 1..n : NewEntries[i] = FirstNew + i - 1
    BY <2>1, <2>2, NewEntriesTyped, LenProperties
  <2>4. Read' = Read \o NewEntries
    BY <1>0, <2>1, <2>2, ConcatAssociative, SMTT(30) DEF Read
  <2>5. /\ DOMAIN Read' = 1..Len(Read) + n /\ Len(Read') = Len(Read) + n
        /\ \A i \in 1..Len(Read) : Read'[i] = Read[i]
        /\ \A i \in Len(Read) + 1..Len(Read) + n : Read'[i] = FirstNew + (i - Len(Read)) - 1
    <3>1. /\ Read' \in Seq(Numbers) /\ Len(Read') = Len(Read) + n
          /\ \A i \in 1..Len(Read) + n :
               Read'[i] = IF i <= Len(Read) THEN Read[i] ELSE NewEntries[i - Len(Read)]
      <4>1. Len(NewEntries) = n
        BY <2>3
      <4> HIDE DEF n
      <4> QED
        BY <1>0, <2>2, <2>4, <4>1, ConcatProperties, ZenonT(30)
    <3>2. DOMAIN Read' = 1..Len(Read) + n
      BY <3>1, LenProperties
    <3>3. \A i \in 1..Len(Read) : Read'[i] = Read[i]
      <4>1. \A i \in 1..Len(Read) : i \in 1..Len(Read) + n /\ i <= Len(Read)
        BY <1>0, <2>3
      <4> HIDE DEF n
      <4> QED
        BY <3>1, <4>1
    <3>4. ASSUME NEW i \in Len(Read) + 1..Len(Read) + n
          PROVE  Read'[i] = FirstNew + (i - Len(Read)) - 1
      <4>1. i \in 1..Len(Read) + n /\ i > Len(Read) /\ i - Len(Read) \in 1..n
        BY <1>0, <2>3
      <4>2. Read'[i] = NewEntries[i - Len(Read)]
        BY <1>0, <3>1, <4>1
      <4> QED
        BY <2>3, <4>1, <4>2
    <3> QED
      BY <3>1, <3>2, <3>3, <3>4
  <2>20. n \in Nat /\ n > 0 /\ FirstNew + n - 1 = sent
    BY <1>0, <2>3
  <2> HIDE DEF n
  <2>6. \A i \in DOMAIN Read : Read[i] # Sentinel /\ Read[i] <= lastId
    BY <2>1 DEF ReadInv, Ends, Finished, Bounded
  <2>7. Read # <<>> => lastId = from /\ Read[Len(Read)] = from
    <3> SUFFICES ASSUME Read # <<>> PROVE lastId = from /\ Read[Len(Read)] = from
      OBVIOUS
    <3>1. Len(Read) \in DOMAIN Read
      BY <1>0, EmptySeq
    <3>2. Read[Len(Read)] = lastId
      BY <2>1 DEF ReadInv, Ends, Finished, LastRead
    <3>3. lastId # Dollar
      BY <2>6, <3>1, <3>2 DEF Sentinel, Dollar
    <3> QED
      BY <2>1, <3>2, <3>3 DEF ReadInv, Positions
  <2>8. \A i \in DOMAIN Read : Read[i] <= from
    <3>1. Read = <<>> => DOMAIN Read = {}
      BY <1>0, EmptySeq
    <3> QED
      BY <2>6, <2>7, <3>1
  <2>9. ASSUME NEW i \in DOMAIN Read'
        PROVE  \/ i \in DOMAIN Read /\ i <= Len(Read) /\ Read'[i] = Read[i] /\ Read[i] \in Nat
               \/ /\ i \in Len(Read) + 1..Len(Read) + n /\ i \in Nat /\ Read'[i] \in Nat
                  /\ Read'[i] = FirstNew + (i - Len(Read)) - 1
                  /\ Read'[i] > from /\ Read'[i] <= sent
    <3>1. CASE i <= Len(Read)
      BY <1>0, <2>5, <3>1
    <3>2. CASE i > Len(Read)
      <4>1. i \in Len(Read) + 1..Len(Read) + n /\ i \in Nat /\ i - Len(Read) \in 1..n
        BY <1>0, <2>5, <2>20, <3>2
      <4>2. Read'[i] = FirstNew + (i - Len(Read)) - 1
        BY <2>5, <4>1
      <4> QED
        BY <1>0, <2>3, <2>20, <4>1, <4>2, SMTT(30)
    <3> QED
      BY <1>0, <2>5, <2>20, <3>1, <3>2
  <2>10. Bounded'
    <3>1. \A i \in DOMAIN Read' : Read'[i] <= sent
      BY <1>0, <2>8, <2>9
    <3> QED
      BY <2>1, <3>1 DEF Bounded
  <2>11. Rising'
    <3>1. SUFFICES ASSUME NEW i \in DOMAIN Read', NEW j \in DOMAIN Read', i < j
                   PROVE  Read'[i] < Read'[j]
      BY DEF Rising
    <3>2. CASE j \in DOMAIN Read /\ j <= Len(Read)
      <4>1. i \in DOMAIN Read
        BY <1>0, <2>5, <3>1, <3>2
      <4>2. Read[i] < Read[j]
        BY <2>6, <3>1, <3>2, <4>1 DEF ReadInv, Rising
      <4> QED
        BY <1>0, <2>5, <3>2, <4>1, <4>2
    <3>3. CASE j \in Len(Read) + 1..Len(Read) + n
      <4>1. Read'[j] = FirstNew + (j - Len(Read)) - 1 /\ Read'[j] > from
        BY <1>0, <2>9, <3>3
      <4>2. CASE i \in DOMAIN Read /\ i <= Len(Read)
        <5>1. Read'[i] = Read[i] /\ Read[i] <= from /\ Read[i] \in Nat
          BY <1>0, <2>5, <2>8, <4>2
        <5>2. Read'[j] \in Nat
          BY <1>0, <2>9, <3>3
        <5> QED
          BY <1>0, <4>1, <5>1, <5>2
      <4>3. CASE i \in Len(Read) + 1..Len(Read) + n
        BY <1>0, <2>3, <2>5, <3>1, <3>3, <4>1, <4>3
      <4> QED
        BY <2>9, <4>2, <4>3
    <3> QED
      BY <2>9, <3>2, <3>3
  <2>12. SentinelLast'
    <3>1. \A i \in DOMAIN Read' : Read'[i] # Sentinel
      BY <1>0, <2>6, <2>9 DEF Sentinel
    <3> QED
      BY <3>1 DEF SentinelLast
  <2>13. Ends'
    <3>1. \A i \in DOMAIN Read' : Read'[i] # Sentinel
      BY <1>0, <2>6, <2>9 DEF Sentinel
    <3>2. Len(Read') = Len(Read) + n /\ Len(Read) + n \in Len(Read) + 1..Len(Read) + n
      BY <1>0, <2>5, <2>20
    <3>3. Read'[Len(Read')] = sent
      BY <1>0, <2>5, <2>20, <3>2, SMTT(30)
    <3>4. Read' # <<>>
      BY <1>0, <2>5, <2>20, EmptySeq
    <3> QED
      BY <2>1, <3>1, <3>3, <3>4 DEF Ends, LastRead, Finished
  <2>14. Positions'
    BY <1>0, <2>1 DEF ReadInv, Positions
  <2>15. NoGapAfterFirst'
    <3>1. SUFFICES ASSUME first = 1, NEW i \in DOMAIN Read', i > 1
                   PROVE  Read'[i] = Read'[i - 1] + 1
      BY <2>1 DEF NoGapAfterFirst
    <3>2. CASE i \in DOMAIN Read /\ i <= Len(Read)
      <4>1. i - 1 \in DOMAIN Read
        BY <1>0, <3>1, <3>2
      <4>2. Read[i] = Read[i - 1] + 1
        BY <2>6, <3>1, <3>2 DEF ReadInv, NoGapAfterFirst
      <4> QED
        BY <1>0, <2>5, <3>2, <4>1, <4>2
    <3>3. CASE i = Len(Read) + 1
      <4>1. Read'[i] = FirstNew /\ FirstNew = from + 1
        <5>1. i \in Len(Read) + 1..Len(Read) + n /\ i - Len(Read) = 1
          BY <1>0, <2>20, <3>3
        <5>2. Read'[i] = FirstNew + (i - Len(Read)) - 1
          BY <2>5, <5>1
        <5> QED
          BY <2>3, <3>1, <5>1, <5>2
      <4>2. Read # <<>> /\ i - 1 = Len(Read) /\ Len(Read) \in DOMAIN Read
        BY <1>0, <3>1, <3>3, EmptySeq
      <4> QED
        BY <1>0, <2>5, <2>7, <4>1, <4>2
    <3>4. CASE i \in Len(Read) + 1..Len(Read) + n /\ i # Len(Read) + 1
      <4>1. i - 1 \in Len(Read) + 1..Len(Read) + n
        BY <1>10, <2>20, <3>4
      <4> QED
        BY <1>0, <2>3, <2>5, <3>4, <4>1
    <3> QED
      BY <2>9, <3>2, <3>3, <3>4
  <2> QED
    BY <2>10, <2>11, <2>12, <2>13, <2>14, <2>15 DEF ReadInv
<1>6. CASE Get
  <2>1. /\ UNCHANGED <<sent, first, lastId, from, listener, owner>>
        /\ queue # <<>> /\ queue' = Tail(queue) /\ reader = "waiting"
    BY <1>6 DEF Get
  <2>2. CASE Head(queue) # Sentinel
    <3>1. got' = Append(got, Head(queue)) /\ reader' = "ready"
      BY <1>6, <2>2 DEF Get, NextItem
    <3>2. Read' = Read
      BY <1>0, <2>1, <3>1, Moving DEF Read
    <3>3. /\ Finished' = Finished /\ (owner' = "new" => listener' = "none")
          /\ listener' = "blocked" => from' = lastId \/ lastId = Dollar
          /\ from' <= sent' /\ sent' = sent /\ first' = first
      BY <1>0, <2>1 DEF Finished, ReadInv, Positions
    <3> QED
      BY <1>0, <2>1, <3>1, <3>2, <3>3, KeepsRead
  <2>3. CASE Head(queue) = Sentinel
    <3>1. got' = got /\ reader' = "stopped"
      BY <1>6, <2>3 DEF Get, NextItem
    <3>2. Head(queue) = queue[1] /\ Len(queue) \in Nat /\ Len(queue) > 0 /\ Len(got) \in Nat
      BY <1>0, <2>1, EmptySeq, LenProperties
    <3>3. \A i \in 1..Len(got) + Len(queue) :
            Read[i] = IF i <= Len(got) THEN got[i] ELSE queue[i - Len(got)]
      BY <1>0, ConcatProperties DEF Read
    <3>4. Len(got) + 1 \in DOMAIN Read /\ Read[Len(got) + 1] = Sentinel
      BY <1>0, <2>3, <3>2, <3>3
    <3>5. Len(queue) = 1
      <4>1. Len(got) + 1 = Len(Read)
        BY <3>4 DEF ReadInv, SentinelLast
      <4>2. Len(got) \in Nat /\ Len(queue) \in Nat
        BY <3>2
      <4> QED
        BY <1>11, <4>1, <4>2, SMTT(30)
    <3>6. Tail(queue) = <<>>
      <4>1. Tail(queue) \in Seq(Numbers) /\ Len(Tail(queue)) = 0
        BY <1>0, <2>1, <3>5, HeadTailProperties
      <4> QED
        BY <4>1, EmptySeq
    <3>7. Read' = got
      BY <1>0, <2>1, <3>1, <3>6, ConcatEmptySeq DEF Read
    <3>8. DOMAIN Read' \subseteq DOMAIN Read /\ \A i \in DOMAIN Read' : Read'[i] = Read[i] /\ i # Len(Read)
      BY <1>0, <3>2, <3>3, <3>5, <3>7, LenProperties
    <3>9. \A i \in DOMAIN Read' : Read[i] # Sentinel
      BY <3>8 DEF ReadInv, SentinelLast
    <3>10. Finished
      BY <3>4 DEF ReadInv, Ends
    <3>11. \A i \in DOMAIN Read' : Read'[i] <= lastId
      BY <3>8 DEF ReadInv, Bounded
    <3>12. \A i, j \in DOMAIN Read' : i < j => Read'[i] < Read'[j]
      BY <3>8, <3>9 DEF ReadInv, Rising
    <3>13. \A i \in DOMAIN Read' : Read'[i] # Sentinel
      BY <3>8, <3>9
    <3>14. first = 1 => \A i \in DOMAIN Read' : i > 1 => Read'[i] = Read'[i - 1] + 1
      <4>1. SUFFICES ASSUME first = 1, NEW i \in DOMAIN Read', i > 1 PROVE Read'[i] = Read'[i - 1] + 1
        OBVIOUS
      <4>2. i - 1 \in DOMAIN Read'
        BY <1>0, <3>7, <4>1, LenProperties
      <4>3. Read[i] = Read[i - 1] + 1
        BY <3>8, <3>9, <4>1 DEF ReadInv, NoGapAfterFirst
      <4> QED
        BY <3>8, <4>2, <4>3
    <3>15. Bounded' /\ Rising' /\ SentinelLast' /\ NoGapAfterFirst'
      BY <2>1, <3>11, <3>12, <3>13, <3>14 DEF Bounded, Rising, SentinelLast, NoGapAfterFirst
    <3>16. Ends' /\ Positions'
      BY <2>1, <3>1, <3>10 DEF Ends, Positions, Finished, ReadInv
    <3> QED
      BY <3>15, <3>16 DEF ReadInv
  <2> QED
    BY <2>2, <2>3
<1> QED
  BY <1>1, <1>2, <1>3, <1>4, <1>5, <1>6 DEF Next, Listener, Reader

LEMMA ReadHolds == Safety => [](TypeOK /\ ReadInv)
<1>1. Init => TypeOK /\ ReadInv
  BY InitTyped, InitRead
<1>2. TypeOK /\ ReadInv /\ [Next]_vars => (TypeOK /\ ReadInv)'
  BY NextTyped, NextRead
<1> QED
  BY <1>1, <1>2, PTL DEF Safety

-----------------------------------------------------------------------------
\* A subscription that has read an entry misses none that Redis still holds,
\* however its XREADs and the producers interleave.
THEOREM NoGap == Safety => []NoGapAfterFirst
<1>1. ReadInv => NoGapAfterFirst
  BY DEF ReadInv
<1> QED
  BY <1>1, ReadHolds, PTL

\* The sentinel comes once and last, and a reader that waits on a subscription
\* whose listener is gone finds it: receive() without a timeout does not hang.
THEOREM SentinelFound == Safety => []SentinelEndsQueue
<1>1. TypeOK /\ ReadInv => SentinelEndsQueue
  <2> SUFFICES ASSUME TypeOK, ReadInv PROVE SentinelEndsQueue
    OBVIOUS
  <2>1. /\ got \in Seq(Numbers) /\ queue \in Seq(Numbers) /\ DOMAIN queue = 1..Len(queue)
        /\ DOMAIN got = 1..Len(got)
        /\ \A i \in 1..Len(got) + Len(queue) :
             Read[i] = IF i <= Len(got) THEN got[i] ELSE queue[i - Len(got)]
    BY ReadTyped, LenProperties, ConcatProperties, SMTT(30) DEF Read
  <2>2. /\ DOMAIN Read = 1..Len(Read) /\ Len(Read) = Len(got) + Len(queue)
        /\ Len(got) \in Nat /\ Len(queue) \in Nat
    BY ReadTyped
  <2>3. \A i \in 1..Len(queue) : Len(got) + i \in DOMAIN Read /\ Read[Len(got) + i] = queue[i]
    <3> SUFFICES ASSUME NEW i \in 1..Len(queue)
                 PROVE  Len(got) + i \in DOMAIN Read /\ Read[Len(got) + i] = queue[i]
      OBVIOUS
    <3>1. Len(got) + i \in 1..Len(got) + Len(queue) /\ Len(got) + i > Len(got)
          /\ (Len(got) + i) - Len(got) = i
      BY <2>2
    <3> QED
      BY <2>1, <2>2, <3>1
  <2>4. Sentinels \subseteq {Len(queue)}
    <3> SUFFICES ASSUME NEW i \in 1..Len(queue), queue[i] = Sentinel PROVE i = Len(queue)
      BY <2>1 DEF Sentinels
    <3>1. Len(got) + i = Len(Read)
      BY <2>3 DEF ReadInv, SentinelLast
    <3> QED
      BY <2>2, <3>1
  <2>5. ASSUME Finished, reader = "waiting" PROVE Sentinels # {}
    <3>1. Read # <<>> /\ Read[Len(Read)] = Sentinel
      BY <2>5 DEF ReadInv, Ends, LastRead
    <3>2. \A i \in 1..Len(got) : got[i] # Sentinel
      <4>1. got \in Seq(Entries)
        BY DEF TypeOK
      <4>2. \A i \in 1..Len(got) : got[i] \in Entries
        BY <4>1, ElementOfSeq
      <4> QED
        BY <4>2, EntriesAreNumbers DEF Sentinel
    <3>3. Len(Read) > 0
      BY <2>2, <3>1, ReadTyped, EmptySeq
    <3>4. Len(Read) > Len(got)
      <4>1. Len(Read) \in 1..Len(got) + Len(queue)
        BY <2>2, <3>3
      <4>2. Len(Read) <= Len(got) => Read[Len(Read)] = got[Len(Read)] /\ Len(Read) \in 1..Len(got)
        BY <2>1, <2>2, <3>3, <4>1
      <4> QED
        BY <2>2, <3>1, <3>2, <4>2
    <3>5. Len(queue) \in 1..Len(queue) /\ Len(got) + Len(queue) = Len(Read)
      BY <2>2, <3>4
    <3>6. queue[Len(queue)] = Sentinel
      BY <2>3, <3>1, <3>5
    <3> QED
      BY <2>1, <3>5, <3>6 DEF Sentinels
  <2> QED
    BY <2>4, <2>5 DEF SentinelEndsQueue, Finished
<1> QED
  BY <1>1, ReadHolds, PTL

\* A subscription to a stream keeps what BroadcastDelivery promises: each entry
\* is handed over at most once, after it was added, and in order.
THEOREM DeliveryHolds == Safety => ImplementsDelivery
<1>1. Init => Delivery!Init
  BY DEF Init, Delivery!Init
<1>2. TypeOK /\ ReadInv /\ [Next]_vars => [Delivery!Next]_<<sent, got>>
  <2> SUFFICES ASSUME TypeOK, ReadInv, [Next]_vars PROVE [Delivery!Next]_<<sent, got>>
    OBVIOUS
  <2>1. CASE Publish
    BY <2>1 DEF Publish, Delivery!Next, Delivery!Publish
  <2>2. CASE Get /\ Head(queue) # Sentinel
    <3>1. queue # <<>> /\ got' = Append(got, Head(queue)) /\ UNCHANGED sent
      BY <2>2 DEF Get, NextItem
    <3>2. /\ got \in Seq(Numbers) /\ queue \in Seq(Numbers) /\ Len(got) \in Nat
          /\ Len(queue) \in Nat /\ Len(queue) > 0 /\ Head(queue) = queue[1]
          /\ DOMAIN got = 1..Len(got)
          /\ \A i \in 1..Len(got) + Len(queue) :
               Read[i] = IF i <= Len(got) THEN got[i] ELSE queue[i - Len(got)]
      BY <3>1, ReadTyped, LenProperties, EmptySeq, ConcatProperties, SMTT(30) DEF Read
    <3>3. /\ DOMAIN Read = 1..Len(got) + Len(queue) /\ sent \in Nat /\ lastId \in Nat
          /\ \A i \in DOMAIN Read : Read[i] \in Nat
      BY ReadTyped
    <3>4. Len(got) + 1 \in DOMAIN Read /\ Read[Len(got) + 1] = Head(queue)
      BY <3>2, <3>3
    <3>5. Head(queue) \in Nat /\ Head(queue) <= sent /\ Head(queue) >= 1
      <4>1. Head(queue) \in Nat /\ Head(queue) # 0
        BY <2>2, <3>3, <3>4 DEF Sentinel
      <4>2. Head(queue) <= lastId /\ lastId <= sent
        BY <3>4 DEF ReadInv, Bounded, Positions
      <4> QED
        BY <3>3, <4>1, <4>2
    <3>6. Head(queue) \in Delivery!LastGot + 1 .. sent
      <4>1. CASE got = <<>>
        BY <3>3, <3>5, <4>1 DEF Delivery!LastGot
      <4>2. CASE got # <<>>
        <5>1. Len(got) > 0
          BY <3>2, <4>2, EmptySeq
        <5>2. Len(got) \in DOMAIN Read /\ Read[Len(got)] = got[Len(got)]
          BY <3>2, <3>3, <5>1
        <5>3. got[Len(got)] \in Nat /\ got[Len(got)] < Head(queue)
          BY <2>2, <3>2, <3>3, <3>4, <5>2 DEF ReadInv, Rising
        <5> QED
          BY <3>3, <3>5, <4>2, <5>3 DEF Delivery!LastGot
      <4> QED
        BY <4>1, <4>2
    <3> QED
      BY <3>1, <3>6 DEF Delivery!Next, Delivery!Receive
  <2>3. CASE ~Publish /\ ~(Get /\ Head(queue) # Sentinel)
    BY <2>3 DEF Next, Listener, Reader, vars, threads, Expire, Enter, Close, Joined, ListenCheck, XRead,
                XReadReturns, XReadTimesOut, XReadFails, PutSentinel, SetClosed, Receive, Get,
                NextItem, GetTimesOut
  <2> QED
    BY <2>1, <2>2, <2>3
<1> QED
  BY <1>1, <1>2, ReadHolds, PTL DEF Safety, ImplementsDelivery, Delivery!Spec
=============================================================================
