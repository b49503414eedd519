--------------------------- MODULE BrowserProofs ----------------------------
(***************************************************************************)
(* Proofs about the browser's side of a chat: ChatSession, for any number  *)
(* of messages and of streams, and TokenRefresh, for every set of pages,   *)
(* requests and streams and every bound on calls and crashes.              *)
(*                                                                         *)
(* In ChatSession everything rests on Latest: of all the streams, only the *)
(* one that can be aborted may still be answered, as each action that      *)
(* opens a stream first aborts, ends or closes the one before.  In         *)
(* TokenRefresh the invariants are LockInv, about the refreshes of one     *)
(* page, and SessionInv, about those of all of them.                       *)
(*                                                                         *)
(* SomebodyTells and WaitingHasTimer are the parts of the liveness         *)
(* properties ResponseEnds and NoCrossTabDeadlock that hold in every state.*)
(***************************************************************************)
EXTENDS ChatSession, TokenRefresh, SequenceTheorems, WellFoundedInduction,
        NaturalsInduction, TLAPS

Stage(i) == streams[i].stage
Answerable(i) == Stage(i) \in {"asked", "open"}
Deaf == {"closed", "aborting", "refreshing"}

\* No message is on the screen, and no stream belongs to it, before it is sent.
Typed ==
  /\ TypeOK
  /\ shown \subseteq 1..sent /\ tree \subseteq 1..sent
  /\ \A i \in DOMAIN streams : streams[i].msg <= sent

Latest == "resent" \notin trouble => \A i \in DOMAIN streams : Answerable(i) => i = controller

(***************************************************************************)
(* Streams.                                                                *)
(***************************************************************************)
LEMMA VerbsAre == "post" \in Verbs /\ "get" \in Verbs /\ "snapshot" \in Verbs
BY DEF Verbs

LEMMA StagesOf ==
  ASSUME NEW s \in Stream, NEW x \in Stages
  PROVE  /\ [s EXCEPT !.stage = x] \in Stream
         /\ [s EXCEPT !.stage = x].msg = s.msg /\ [s EXCEPT !.stage = x].verb = s.verb
         /\ [s EXCEPT !.stage = x].by = s.by /\ [s EXCEPT !.stage = x].stage = x
<1>1. s.msg \in Messages /\ s.verb \in Verbs /\ s.by \in {"send", "resume"}
  BY DEF Stream
<1> QED
  BY <1>1 DEF Stream

\* One stream comes to a stage.
Put(ss, i, x) == [ss EXCEPT ![i].stage = x]

LEMMA PutFacts ==
  ASSUME NEW ss \in Seq(Stream), NEW i \in DOMAIN ss, NEW x \in Stages
  PROVE  /\ Put(ss, i, x) \in Seq(Stream) /\ Len(Put(ss, i, x)) = Len(ss)
         /\ DOMAIN Put(ss, i, x) = DOMAIN ss
         /\ \A k \in DOMAIN ss :
              /\ Put(ss, i, x)[k].msg = ss[k].msg /\ Put(ss, i, x)[k].verb = ss[k].verb
              /\ Put(ss, i, x)[k].by = ss[k].by
              /\ k # i => Put(ss, i, x)[k] = ss[k]
         /\ Put(ss, i, x)[i].stage = x
<1> DEFINE tt == [ss EXCEPT ![i].stage = x]
<1>1. /\ DOMAIN ss = 1..Len(ss) /\ Len(ss) \in Nat /\ ss \in [1..Len(ss) -> Stream]
  BY LenProperties
<1>2. ss[i] \in Stream
  BY <1>1
<1>3. [ss[i] EXCEPT !.stage = x] \in Stream
  BY <1>2, StagesOf
<1>4. tt = [ss EXCEPT ![i] = [ss[i] EXCEPT !.stage = x]]
  OBVIOUS
<1>5. tt \in Seq(Stream) /\ Len(tt) = Len(ss) /\ \A k \in 1..Len(ss) : tt[k] = IF k = i THEN [ss[i] EXCEPT !.stage = x] ELSE ss[k]
  BY <1>1, <1>3, <1>4, ExceptSeq
<1>6. DOMAIN tt = DOMAIN ss
  BY <1>1, <1>5, LenProperties
<1>7. tt[i].stage = x
  BY <1>1, <1>2, <1>5, StagesOf
<1>8. ASSUME NEW k \in DOMAIN ss
      PROVE  /\ tt[k].msg = ss[k].msg /\ tt[k].verb = ss[k].verb /\ tt[k].by = ss[k].by
             /\ k # i => tt[k] = ss[k]
  <2>1. CASE k = i
    BY <1>1, <1>2, <1>5, <2>1, StagesOf
  <2>2. CASE k # i
    BY <1>1, <1>5, <2>2
  <2> QED
    BY <2>1, <2>2
<1> QED
  BY <1>5, <1>6, <1>7, <1>8 DEF Put

\* The stream that can be aborted no longer answers, the other ones stay.
LEMMA AbortedFacts ==
  ASSUME streams \in Seq(Stream)
  PROVE  /\ Aborted(streams) \in Seq(Stream) /\ Len(Aborted(streams)) = Len(streams)
         /\ DOMAIN Aborted(streams) = DOMAIN streams
         /\ \A k \in DOMAIN streams :
              /\ Aborted(streams)[k].msg = streams[k].msg /\ Aborted(streams)[k].verb = streams[k].verb
              /\ Aborted(streams)[k].by = streams[k].by
              /\ k # controller => Aborted(streams)[k] = streams[k]
              /\ k = controller => Aborted(streams)[k].stage \in Deaf
<1> DEFINE aa == Aborted(streams)
<1>1. /\ DOMAIN streams = 1..Len(streams) /\ Len(streams) \in Nat /\ streams \in [1..Len(streams) -> Stream]
  BY LenProperties
<1>2. ASSUME NEW k \in DOMAIN streams
      PROVE  /\ aa[k] \in Stream
             /\ aa[k].msg = streams[k].msg /\ aa[k].verb = streams[k].verb /\ aa[k].by = streams[k].by
             /\ k # controller => aa[k] = streams[k]
             /\ k = controller => aa[k].stage \in Deaf
  <2>0. streams[k] \in Stream
    BY <1>1
  <2>1. CASE k # controller
    BY <2>0, <2>1 DEF Aborted
  <2>2. CASE k = controller
    <3> DEFINE st == streams[k].stage
               x == CASE st = "asked" -> "aborting" [] st \in {"open", "ending"} -> "closed" [] OTHER -> st
    <3>1. st \in Stages
      BY <2>0 DEF Stream
    <3>2. x \in Stages /\ x \in Deaf
      BY <3>1 DEF Stages, Deaf
    <3>3. aa[k] = [streams[k] EXCEPT !.stage = x]
      BY <2>2 DEF Aborted
    <3> HIDE DEF x, aa
    <3> QED
      BY <2>0, <2>2, <3>2, <3>3, StagesOf
  <2> QED
    BY <2>1, <2>2
<1>3. aa \in [1..Len(streams) -> Stream]
  <2>1. aa = [k \in DOMAIN streams |-> aa[k]]
    BY DEF Aborted
  <2> HIDE DEF aa
  <2> QED
    BY <1>1, <1>2, <2>1
<1> HIDE DEF aa
<1>4. aa \in Seq(Stream)
  BY <1>1, <1>3, SeqDef
<1>5. DOMAIN aa = 1..Len(streams)
  BY <1>3
<1>6. Len(aa) = Len(streams)
  BY <1>1, <1>4, <1>5, LenProperties
<1> QED
  BY <1>1, <1>2, <1>4, <1>5, <1>6 DEF aa

\* A new stream is the last one, and the one that can be aborted.
LEMMA OpenFacts ==
  ASSUME NEW ss \in Seq(Stream), NEW m \in Messages, NEW verb \in Verbs,
         NEW by \in {"send", "resume"}, Open(ss, m, verb, by)
  PROVE  /\ streams' \in Seq(Stream) /\ Len(streams') = Len(ss) + 1 /\ Len(ss) < MaxStreams
         /\ DOMAIN streams' = 1..Len(ss) + 1
         /\ controller' = Len(ss) + 1 /\ Len(ss) \in Nat
         /\ \A k \in DOMAIN streams' :
              \/ /\ k = controller'
                 /\ streams'[k].msg = m /\ streams'[k].verb = verb /\ streams'[k].by = by
              \/ k \in DOMAIN ss /\ k # controller' /\ streams'[k] = ss[k]
<1>1. New(m, verb, by) \in Stream
  BY DEF New, Stream, Stages
<1>2. streams' = Append(ss, New(m, verb, by)) /\ controller' = Len(ss) + 1 /\ Len(ss) < MaxStreams
  BY DEF Open
<1>3. /\ streams' \in Seq(Stream) /\ Len(streams') = Len(ss) + 1
      /\ \A k \in 1..Len(ss) : streams'[k] = ss[k]
      /\ streams'[Len(ss) + 1] = New(m, verb, by)
  BY <1>1, <1>2, AppendProperties
<1>4. Len(ss) \in Nat /\ DOMAIN ss = 1..Len(ss) /\ DOMAIN streams' = 1..Len(ss) + 1
  BY <1>3, LenProperties
<1>5. New(m, verb, by).msg = m /\ New(m, verb, by).verb = verb /\ New(m, verb, by).by = by
  BY DEF New
<1> QED
  BY <1>2, <1>3, <1>4, <1>5

(***************************************************************************)
(* Types.                                                                  *)
(***************************************************************************)
LEMMA Largest ==
  ASSUME NEW n \in Nat, NEW T \in SUBSET (0..n), T # {}
  PROVE  \E k \in T : \A m \in T : m <= k
<1> DEFINE U == {n - k : k \in T}
<1>1. U \in SUBSET Nat /\ U # {}
  <2>1. \A k \in T : k \in 0..n
    OBVIOUS
  <2>2. \A k \in T : n - k \in Nat
    BY <2>1
  <2>3. U \subseteq Nat
    BY <2>2
  <2>4. PICK k \in T : TRUE
    OBVIOUS
  <2>5. n - k \in U
    BY <2>4
  <2> QED
    BY <2>3, <2>5
<1>2. PICK u \in U : \A v \in U : ~(<<v, u>> \in OpToRel(<, Nat))
  BY <1>1, NatLessThanWellFounded, WFMin, Zenon
<1>3. PICK k \in T : u = n - k
  OBVIOUS
<1>4. ASSUME NEW m \in T PROVE m <= k
  <2> DEFINE p == <<n - m, u>>
  <2>1. p[1] = n - m /\ p[2] = u
    OBVIOUS
  <2>2. n - m \in U /\ n - m \in Nat /\ u \in Nat
    BY <1>1
  <2> HIDE DEF p, U
  <2>3. p \in Nat \X Nat /\ p \notin OpToRel(<, Nat)
    BY <1>2, <2>2 DEF p
  <2>4. ~(n - m < u)
    BY <2>1, <2>3 DEF OpToRel
  <2> QED
    BY <1>3, <2>2, <2>4
<1> QED
  BY <1>4

LEMMA LastFacts ==
  ASSUME shown \subseteq Messages
  PROVE  /\ shown = {} => Last = 0
         /\ shown # {} => Last \in shown /\ \A k \in shown : k <= Last
         /\ Last \in 0..MaxMessages
<1>1. CASE shown = {}
  BY <1>1, BoundsAreNumbers DEF Last
<1>2. CASE shown # {}
  <2>1. MaxMessages \in Nat /\ shown \in SUBSET (0..MaxMessages)
    BY BoundsAreNumbers DEF Messages
  <2>2. \E m \in shown : \A k \in shown : k <= m
    BY <1>2, <2>1, Largest
  <2> QED
    BY <1>2, <2>1, <2>2 DEF Last
<1> QED
  BY <1>1, <1>2

LEMMA UpdateTyped ==
  ASSUME Typed, NEW s \in Stream, s.msg <= sent, Update(s)
  PROVE  shown' \subseteq 1..sent /\ tree' \subseteq 1..sent /\ parent' = parent
<1>1. s.msg \in 1..sent
  BY BoundsAreNumbers DEF Stream, Messages, Typed, TypeOK
<1> QED
  BY <1>1 DEF Typed, Update, UpdateQA, UpdateNode, TreeWith

LEMMA OnErrorTyped ==
  ASSUME Typed, NEW s \in Stream, s.msg <= sent, OnError(s)
  PROVE  /\ shown' \subseteq 1..sent /\ tree' \subseteq 1..sent /\ parent' = parent
         /\ responding' = FALSE
<1>1. CASE s.by = "send"
  BY <1>1, UpdateTyped DEF OnError
<1>2. CASE s.by # "send"
  BY <1>2 DEF OnError, Typed, screen
<1> QED
  BY <1>1, <1>2

Faults == {"resent", "unended", "silent", "late"}
Runs == [Messages -> {"none", "running", "paused", "over"}]

\* The part of Typed that is about streams, after a stream comes to a stage.
LEMMA AtTyped ==
  ASSUME Typed, NEW i \in DOMAIN streams, NEW x \in Stages, At(i, x), controller' = controller, sent' = sent
  PROVE  /\ streams' \in Seq(Stream) /\ Len(streams') <= MaxStreams /\ controller' \in 0..Len(streams')
         /\ \A k \in DOMAIN streams' : streams'[k].msg <= sent'
<1>1. streams \in Seq(Stream) /\ controller \in 0..Len(streams) /\ Len(streams) <= MaxStreams
  BY DEF Typed, TypeOK
<1>2. /\ streams' \in Seq(Stream) /\ Len(streams') = Len(streams) /\ DOMAIN streams' = DOMAIN streams
      /\ \A k \in DOMAIN streams : streams'[k].msg = streams[k].msg
  <2>1. streams' = Put(streams, i, x)
    BY DEF At, Put
  <2> QED
    BY <1>1, <2>1, PutFacts
<1> QED
  BY <1>1, <1>2 DEF Typed

LEMMA AbortTyped ==
  ASSUME Typed, streams' = Aborted(streams), controller' = controller, sent' = sent
  PROVE  /\ streams' \in Seq(Stream) /\ Len(streams') <= MaxStreams /\ controller' \in 0..Len(streams')
         /\ \A k \in DOMAIN streams' : streams'[k].msg <= sent'
<1>1. streams \in Seq(Stream) /\ controller \in 0..Len(streams) /\ Len(streams) <= MaxStreams
  BY DEF Typed, TypeOK
<1>2. /\ streams' \in Seq(Stream) /\ Len(streams') = Len(streams) /\ DOMAIN streams' = DOMAIN streams
      /\ \A k \in DOMAIN streams : streams'[k].msg = streams[k].msg
  BY <1>1, AbortedFacts
<1> QED
  BY <1>1, <1>2 DEF Typed

LEMMA OpenTyped ==
  ASSUME Typed, NEW ss \in Seq(Stream), DOMAIN ss = DOMAIN streams,
         \A k \in DOMAIN ss : ss[k].msg = streams[k].msg,
         NEW m \in Messages, NEW verb \in Verbs, NEW by \in {"send", "resume"},
         Open(ss, m, verb, by), sent' \in Nat, sent <= sent', m <= sent'
  PROVE  /\ streams' \in Seq(Stream) /\ Len(streams') <= MaxStreams /\ controller' \in 0..Len(streams')
         /\ \A k \in DOMAIN streams' : streams'[k].msg <= sent'
<1>1. MaxStreams \in Nat /\ Len(ss) \in Nat
  BY BoundsAreNumbers, LenProperties
<1>2. /\ streams' \in Seq(Stream) /\ Len(streams') = Len(ss) + 1 /\ Len(ss) < MaxStreams
      /\ controller' = Len(ss) + 1
      /\ \A k \in DOMAIN streams' :
           \/ k = controller' /\ streams'[k].msg = m
           \/ k \in DOMAIN ss /\ streams'[k] = ss[k]
  BY OpenFacts
<1>3. ASSUME NEW k \in DOMAIN streams, streams[k].msg <= sent PROVE streams[k].msg <= sent'
  <2>1. streams[k] \in Stream /\ sent \in Nat
    BY BoundsAreNumbers, LenProperties, ElementOfSeq DEF Typed, TypeOK
  <2>2. streams[k].msg \in Nat
    BY <2>1 DEF Stream, Messages
  <2> QED
    BY <1>3, <2>1, <2>2
<1> QED
  BY <1>1, <1>2, <1>3 DEF Typed

LEMMA InitTyped == Init => Typed
<1> SUFFICES ASSUME Init PROVE Typed
  OBVIOUS
<1>1. <<>> \in Seq(Stream) /\ Len(<<>>) = 0 /\ DOMAIN <<>> = {}
  BY EmptySeq
<1>2. 0 \in 0..MaxMessages /\ 0 \in 0..0 /\ 0 <= MaxStreams
  BY BoundsAreNumbers
<1>3. parent \in [Messages -> 0..MaxMessages] /\ run \in [Messages -> {"none", "running", "paused", "over"}]
  BY <1>2 DEF Init
<1>4. streams = <<>> /\ controller = 0 /\ task = 0 /\ sent = 0 /\ since = 0
  BY DEF Init
<1>5. shown = {} /\ tree = {} /\ trouble = {}
  BY DEF Init
<1>6. responding \in BOOLEAN /\ stopped \in BOOLEAN /\ pausedState \in BOOLEAN
  BY DEF Init
<1>7. TypeOK
  BY <1>1, <1>2, <1>3, <1>4, <1>5, <1>6 DEF TypeOK
<1> QED
  BY <1>1, <1>4, <1>5, <1>7 DEF Typed

LEMMA NextTyped == Typed /\ [Next]_vars => Typed'
<1> SUFFICES ASSUME Typed, [Next]_vars PROVE Typed'
  OBVIOUS
<1>0. /\ MaxMessages \in Nat /\ MaxMessages # 0 /\ MaxStreams \in Nat
      /\ \A m : m \in Messages <=> m \in Nat /\ 1 <= m /\ m <= MaxMessages
  BY BoundsAreNumbers DEF Messages
<1>20. TypeOK /\ streams \in Seq(Stream) /\ sent \in Nat
  BY <1>0 DEF Typed, TypeOK
<1>21. ASSUME NEW i \in DOMAIN streams
       PROVE  /\ streams[i] \in Stream /\ streams[i].msg \in Messages /\ streams[i].msg <= sent
              /\ streams[i].verb \in Verbs /\ streams[i].by \in {"send", "resume"}
  <2>1. streams[i] \in Stream
    BY <1>20, LenProperties, ElementOfSeq
  <2> QED
    BY <2>1 DEF Stream, Typed
<1>22. /\ Aborted(streams) \in Seq(Stream) /\ DOMAIN Aborted(streams) = DOMAIN streams
       /\ \A k \in DOMAIN streams : Aborted(streams)[k].msg = streams[k].msg
  BY <1>20, AbortedFacts
<1>23. "post" \in Verbs /\ "get" \in Verbs /\ "snapshot" \in Verbs /\ "send" \in {"send", "resume"}
       /\ "resume" \in {"send", "resume"} /\ Stages = {"asked", "aborting", "refreshing", "open", "ending", "closed"}
  BY DEF Stages, Verbs
<1>24. ASSUME NEW m \in Messages, NEW x \in {"none", "running", "paused", "over"}
       PROVE  [run EXCEPT ![m] = x] \in Runs
  BY <1>20 DEF TypeOK, Runs
<1>25. run \in Runs
  BY <1>20 DEF TypeOK, Runs
<1>26. ASSUME NEW S, S \subseteq 1..sent PROVE S \subseteq Messages
  BY <1>0, <1>20, <1>26 DEF TypeOK
<1>27. shown \subseteq 1..sent /\ tree \subseteq 1..sent
  BY DEF Typed
<1> DEFINE StreamsTyped == /\ streams' \in Seq(Stream) /\ Len(streams') <= MaxStreams
                           /\ controller' \in 0..Len(streams')
                           /\ \A k \in DOMAIN streams' : streams'[k].msg <= sent'
<1>1. CASE Send
  <2>1. sent' = sent + 1 /\ sent' \in Messages
    BY <1>0, <1>1, <1>20 DEF Send
  <2>2. StreamsTyped
    BY <1>1, <1>20, <1>22, <1>23, <2>1, OpenTyped DEF Send
  <2>3. Last \in 0..MaxMessages
    BY <1>20, LastFacts DEF TypeOK
  <2>4. parent' \in [Messages -> 0..MaxMessages]
    BY <1>1, <1>20, <2>3 DEF Send, TypeOK
  <2>5. shown' \subseteq 1..sent' /\ tree' \subseteq 1..sent'
    <3>1. tree' \subseteq tree \union {sent'} /\ shown' = tree'
      BY <1>1 DEF Send, UpdateQA, TreeWith
    <3>2. tree \subseteq 1..sent' /\ sent' \in 1..sent'
      BY <1>20, <1>27, <2>1
    <3> QED
      BY <3>1, <3>2
  <2>9. shown' \subseteq Messages /\ tree' \subseteq Messages
    BY <1>0, <2>1, <2>5
  <2>6. trouble' \subseteq Faults
    BY <1>1, <1>20 DEF Send, Faults, TypeOK
  <2>7. sent' \in 0..MaxMessages /\ task' \in 0..sent' /\ since' \in 0..sent'
    BY <1>0, <1>1, <1>20, <2>1 DEF Send, TypeOK
  <2>8. responding' = TRUE /\ stopped' = FALSE /\ UNCHANGED <<pausedState, run>>
    BY <1>1 DEF Send
  <2> QED
    BY <1>20, <2>2, <2>4, <2>5, <2>6, <2>7, <2>8, <2>9 DEF Typed, TypeOK, Faults
<1>2. CASE Stop
  <2>1. StreamsTyped
    BY <1>2, AbortTyped DEF Stop
  <2>2. run' \in Runs
    BY <1>0, <1>2, <1>20, <1>24, <1>25 DEF Stop, MayStopRun, TypeOK
  <2> QED
    BY <1>2, <1>20, <1>27, <2>1, <2>2 DEF Stop, Typed, TypeOK, Runs, screen, history
<1>3. CASE Restart
  <2>1. StreamsTyped
    BY <1>3, AbortTyped DEF Restart
  <2>2. task' \in 0..sent' /\ since' \in 0..sent' /\ sent' = sent
    BY <1>3, <1>20 DEF Restart
  <2> QED
    BY <1>3, <1>20, <1>27, <2>1, <2>2 DEF Restart, Typed, TypeOK
<1>4. ASSUME NEW m \in Messages, Resume(m) PROVE Typed'
  <2>1. m \in 1..sent
    BY <1>4, <1>27 DEF Resume
  <2>2. sent' = sent /\ Open(Aborted(streams), m, "snapshot", "resume")
    BY <1>4 DEF Resume
  <2>3. StreamsTyped
    BY <1>20, <1>22, <1>23, <2>1, <2>2, OpenTyped
  <2> QED
    BY <1>4, <1>20, <1>27, <2>3 DEF Resume, Typed, TypeOK, history, screen
<1>5. ASSUME NEW m \in Messages, FormFilled(m) PROVE Typed'
  <2>1. run' \in Runs
    BY <1>5, <1>24 DEF FormFilled
  <2> QED
    BY <1>5, <1>20, <1>27, <2>1 DEF FormFilled, Typed, TypeOK, Runs, refs, screen, history
<1>6. ASSUME NEW i \in DOMAIN streams, Accepted(i) PROVE Typed'
  <2>1. StreamsTyped
    BY <1>6, <1>23, AtTyped DEF Accepted, refs, history
  <2>2. run' \in Runs
    BY <1>6, <1>20, <1>21, <1>24, <1>25 DEF Accepted, Runs
  <2> QED
    BY <1>6, <1>20, <1>27, <2>1, <2>2 DEF Accepted, Typed, TypeOK, Runs, refs, screen, history
<1>7. ASSUME NEW i \in DOMAIN streams, Unauthorized(i) PROVE Typed'
  <2>1. StreamsTyped
    BY <1>7, <1>23, AtTyped DEF Unauthorized, refs, history
  <2> QED
    BY <1>7, <1>20, <1>27, <2>1 DEF Unauthorized, Typed, TypeOK, refs, screen, history
<1>8. ASSUME NEW i \in DOMAIN streams, SentAgain(i) PROVE Typed'
  <2> DEFINE ss == Put(streams, i, "closed")
  <2>1. /\ ss \in Seq(Stream) /\ DOMAIN ss = DOMAIN streams
        /\ \A k \in DOMAIN ss : ss[k].msg = streams[k].msg
    BY <1>20, <1>23, PutFacts
  <2>2. Open(ss, streams[i].msg, streams[i].verb, streams[i].by) /\ sent' = sent
    BY <1>8 DEF SentAgain, Put
  <2> HIDE DEF ss
  <2>3. StreamsTyped
    BY <1>20, <1>21, <2>1, <2>2, OpenTyped
  <2>4. trouble' \subseteq Faults
    BY <1>8, <1>20 DEF SentAgain, Faults, TypeOK
  <2> QED
    BY <1>8, <1>20, <1>27, <2>3, <2>4 DEF SentAgain, Typed, TypeOK, Faults, screen
<1>9. ASSUME NEW i \in DOMAIN streams, NotRefreshed(i) \/ Broken(i) PROVE Typed'
  <2>1. StreamsTyped
    BY <1>9, <1>23, AtTyped DEF NotRefreshed, Broken, refs
  <2>2. trouble' \subseteq Faults
    BY <1>9, <1>20 DEF NotRefreshed, Broken, Faults, TypeOK
  <2> QED
    BY <1>9, <1>20, <1>27, <2>1, <2>2 DEF NotRefreshed, Broken, Typed, TypeOK, Faults, refs, screen
<1>10. ASSUME NEW i \in DOMAIN streams, Rejected(i) PROVE Typed'
  <2>1. StreamsTyped
    BY <1>10, <1>23, AtTyped DEF Rejected, history
  <2>2. shown' \subseteq 1..sent /\ tree' \subseteq 1..sent /\ parent' = parent /\ responding' = FALSE
    BY <1>10, <1>21, OnErrorTyped DEF Rejected
  <2>3. shown' \subseteq Messages /\ tree' \subseteq Messages
    BY <1>26, <2>2
  <2> QED
    BY <1>10, <1>20, <2>1, <2>2, <2>3 DEF Rejected, Typed, TypeOK, history
<1>11. ASSUME NEW i \in DOMAIN streams, FetchFails(i) PROVE Typed'
  <2>1. StreamsTyped
    BY <1>11, <1>23, AtTyped DEF FetchFails
  <2>2. /\ shown' \subseteq 1..sent /\ tree' \subseteq 1..sent /\ parent' = parent
        /\ responding' \in BOOLEAN
    <3>1. OnError(streams[i]) \/ UNCHANGED <<responding, screen>>
      BY <1>11 DEF FetchFails
    <3>2. CASE OnError(streams[i])
      BY <1>21, <3>2, OnErrorTyped
    <3>3. CASE UNCHANGED <<responding, screen>>
      BY <1>20, <1>27, <3>3 DEF TypeOK, screen
    <3> QED
      BY <3>1, <3>2, <3>3
  <2>3. shown' \subseteq Messages /\ tree' \subseteq Messages
    BY <1>26, <2>2
  <2>4. trouble' \subseteq Faults
    BY <1>11, <1>20 DEF FetchFails, Faults, TypeOK
  <2> QED
    BY <1>11, <1>20, <2>1, <2>2, <2>3, <2>4 DEF FetchFails, Typed, TypeOK, Faults
<1>12. ASSUME NEW i \in DOMAIN streams, Event(i) PROVE Typed'
  <2>1. shown' \subseteq 1..sent /\ tree' \subseteq 1..sent /\ parent' = parent
    BY <1>12, <1>21, UpdateTyped DEF Event
  <2>2. shown' \subseteq Messages /\ tree' \subseteq Messages
    BY <1>26, <2>1
  <2>3. task' \in 0..sent /\ responding' \in BOOLEAN /\ stopped' \in BOOLEAN
    <3>1. task \in 0..sent /\ responding \in BOOLEAN /\ stopped \in BOOLEAN
      BY <1>20 DEF TypeOK
    <3>2. streams[i].msg \in 0..sent
      BY <1>0, <1>20, <1>21
    <3>3. task' = task \/ task' = streams[i].msg \/ task' = 0
      BY <1>12 DEF Event, Tasks
    <3>4. (responding' = TRUE /\ stopped' = FALSE) \/ UNCHANGED <<responding, stopped>>
      BY <1>12 DEF Event
    <3>5. 0 \in 0..sent
      BY <1>20
    <3> QED
      BY <3>1, <3>2, <3>3, <3>4, <3>5
  <2> QED
    BY <1>12, <1>20, <2>1, <2>2, <2>3 DEF Event, Typed, TypeOK, history
<1>13. ASSUME NEW i \in DOMAIN streams, Paused(i) PROVE Typed'
  <2> DEFINE ss == Put(streams, i, "ending")
  <2>1. /\ ss \in Seq(Stream) /\ DOMAIN ss = DOMAIN streams
        /\ \A k \in DOMAIN ss : ss[k].msg = streams[k].msg
    BY <1>20, <1>23, PutFacts
  <2>2. Open(ss, streams[i].msg, "get", streams[i].by) /\ sent' = sent
    BY <1>13 DEF Paused, Put
  <2> HIDE DEF ss
  <2>3. StreamsTyped
    BY <1>20, <1>21, <1>23, <2>1, <2>2, OpenTyped
  <2>4. shown' \subseteq 1..sent /\ tree' \subseteq 1..sent /\ parent' = parent
    BY <1>13, <1>21, UpdateTyped DEF Paused
  <2>5. shown' \subseteq Messages /\ tree' \subseteq Messages
    BY <1>26, <2>4
  <2>6. run' \in Runs
    BY <1>13, <1>21, <1>24, <1>25 DEF Paused
  <2> QED
    BY <1>13, <1>20, <2>3, <2>4, <2>5, <2>6 DEF Paused, Typed, TypeOK, Runs, history
<1>14. ASSUME NEW i \in DOMAIN streams, Finished(i) PROVE Typed'
  <2>1. StreamsTyped
    BY <1>14, <1>23, AtTyped DEF Finished, history
  <2>2. shown' \subseteq 1..sent /\ tree' \subseteq 1..sent /\ parent' = parent
    BY <1>14, <1>21, UpdateTyped DEF Finished
  <2>3. shown' \subseteq Messages /\ tree' \subseteq Messages
    BY <1>26, <2>2
  <2>4. run' \in Runs
    BY <1>14, <1>21, <1>24 DEF Finished
  <2> QED
    BY <1>14, <1>20, <2>1, <2>2, <2>3, <2>4 DEF Finished, Typed, TypeOK, Runs, history
<1>15. ASSUME NEW i \in DOMAIN streams, Ended(i) PROVE Typed'
  <2>1. StreamsTyped
    BY <1>15, <1>23, AtTyped DEF Ended, history
  <2> QED
    BY <1>15, <1>20, <1>27, <2>1 DEF Ended, RespondingAtEnd, Typed, TypeOK, screen, history
<1>16. ASSUME NEW i \in DOMAIN streams, Failed(i) PROVE Typed'
  <2>1. StreamsTyped
    BY <1>16, <1>23, AtTyped DEF Failed, history
  <2>2. shown' \subseteq 1..sent /\ tree' \subseteq 1..sent /\ parent' = parent /\ responding' = FALSE
    BY <1>16, <1>21, OnErrorTyped DEF Failed
  <2>3. shown' \subseteq Messages /\ tree' \subseteq Messages
    BY <1>26, <2>2
  <2>4. run' \in Runs
    BY <1>16, <1>21, <1>24 DEF Failed
  <2>5. task' \in 0..sent
    BY <1>16, <1>20 DEF Failed, TypeOK
  <2> QED
    BY <1>16, <1>20, <2>1, <2>2, <2>3, <2>4, <2>5 DEF Failed, Typed, TypeOK, Runs, history
<1>18. ASSUME NEW i \in DOMAIN streams, AnnotationReply(i) PROVE Typed'
  <2>1. shown' \subseteq 1..sent /\ tree' \subseteq 1..sent /\ parent' = parent
    BY <1>18, <1>21, UpdateTyped DEF AnnotationReply
  <2>2. shown' \subseteq Messages /\ tree' \subseteq Messages
    BY <1>26, <2>1
  <2>3. run' \in Runs
    BY <1>18, <1>21, <1>24 DEF AnnotationReply
  <2> QED
    BY <1>18, <1>20, <2>1, <2>2, <2>3 DEF AnnotationReply, Typed, TypeOK, Runs, history
<1>17. CASE UNCHANGED vars
  BY <1>17, <1>20, <1>27 DEF Typed, TypeOK, vars, refs, screen, history
<1> QED
  BY <1>1, <1>2, <1>3, <1>4, <1>5, <1>6, <1>7, <1>8, <1>9, <1>10, <1>11, <1>12, <1>13, <1>14,
     <1>15, <1>16, <1>17, <1>18 DEF Next, StreamStep

\* The model is typed in every reachable state.
THEOREM TypeCorrect == Safety => []TypeOK
<1>1. Typed => TypeOK
  BY DEF Typed
<1> QED
  BY <1>1, InitTyped, NextTyped, PTL DEF Safety

LEMMA TypedHolds == Safety => []Typed
  BY InitTyped, NextTyped, PTL DEF Safety

(***************************************************************************)
(* Which streams may be answered after a step.                             *)
(***************************************************************************)
LEMMA TroubleGrows == [Next]_vars => trouble \subseteq trouble'
<1> SUFFICES ASSUME [Next]_vars PROVE trouble \subseteq trouble'
  OBVIOUS
<1>1. CASE Send \/ Stop \/ Restart
  BY <1>1 DEF Send, Stop, Restart, history
<1>2. ASSUME NEW m \in Messages, Resume(m) \/ FormFilled(m) PROVE trouble \subseteq trouble'
  BY <1>2 DEF Resume, FormFilled, history
<1>3. ASSUME NEW i \in DOMAIN streams, StreamStep(i) PROVE trouble \subseteq trouble'
  BY <1>3 DEF StreamStep, Accepted, Unauthorized, SentAgain, NotRefreshed, Rejected, FetchFails, Event,
     AnnotationReply, Paused, Finished, Ended, Failed, Broken, history
<1>4. CASE UNCHANGED vars
  BY <1>4 DEF vars, history
<1> QED
  BY <1>1, <1>2, <1>3, <1>4 DEF Next

Same(k) == /\ streams'[k].msg = streams[k].msg /\ streams'[k].verb = streams[k].verb
           /\ streams'[k].by = streams[k].by

\* A stream that comes to a stage.
LEMMA AfterAt ==
  ASSUME Typed, NEW i \in DOMAIN streams, NEW x \in Stages, At(i, x)
  PROVE  /\ DOMAIN streams' = DOMAIN streams
         /\ \A k \in DOMAIN streams : Same(k) /\ (k # i => Stage(k)' = Stage(k))
         /\ Stage(i)' = x
<1>1. streams \in Seq(Stream)
  BY DEF Typed, TypeOK
<1>2. streams' = Put(streams, i, x)
  BY DEF At, Put
<1> QED
  BY <1>1, <1>2, PutFacts DEF Same, Stage

\* After an abort no stream may be answered.
LEMMA AfterAbort ==
  ASSUME Typed, Latest, "resent" \notin trouble, streams' = Aborted(streams)
  PROVE  /\ DOMAIN streams' = DOMAIN streams
         /\ \A k \in DOMAIN streams' : ~Answerable(k)'
<1>1. streams \in Seq(Stream)
  BY DEF Typed, TypeOK
<1>2. /\ DOMAIN streams' = DOMAIN streams
      /\ \A k \in DOMAIN streams : /\ k # controller => streams'[k] = streams[k]
                                   /\ k = controller => streams'[k].stage \in Deaf
  BY <1>1, AbortedFacts
<1>3. ASSUME NEW k \in DOMAIN streams PROVE ~(streams'[k].stage \in {"asked", "open"})
  <2>1. CASE k = controller
    BY <1>2, <2>1 DEF Deaf
  <2>2. CASE k # controller
    BY <1>2, <2>2 DEF Latest, Answerable, Stage
  <2> QED
    BY <2>1, <2>2
<1> QED
  BY <1>2, <1>3 DEF Answerable, Stage

\* After an abort and a request only the new stream may be answered.
LEMMA AfterRequest ==
  ASSUME Typed, Latest, "resent" \notin trouble, NEW m \in Messages, NEW verb \in Verbs,
         NEW by \in {"send", "resume"}, Open(Aborted(streams), m, verb, by)
  PROVE  \A k \in DOMAIN streams' :
           \/ /\ k = controller'
              /\ streams'[k].msg = m /\ streams'[k].verb = verb /\ streams'[k].by = by
           \/ /\ k # controller' /\ k \in DOMAIN streams /\ ~Answerable(k)'
              /\ k # controller => streams'[k] = streams[k]
              /\ k = controller => streams'[k].stage \in Deaf
<1> DEFINE aa == Aborted(streams)
<1>1. streams \in Seq(Stream)
  BY DEF Typed, TypeOK
<1>2. /\ aa \in Seq(Stream) /\ DOMAIN aa = DOMAIN streams
      /\ \A k \in DOMAIN streams : /\ k # controller => aa[k] = streams[k]
                                   /\ k = controller => aa[k].stage \in Deaf
  BY <1>1, AbortedFacts
<1>3. Open(aa, m, verb, by)
  OBVIOUS
<1> HIDE DEF aa
<1>4. ASSUME NEW k \in DOMAIN streams'
      PROVE  \/ /\ k = controller'
                /\ streams'[k].msg = m /\ streams'[k].verb = verb /\ streams'[k].by = by
             \/ k \in DOMAIN aa /\ k # controller' /\ streams'[k] = aa[k]
  BY <1>2, <1>3, OpenFacts
<1>5. ASSUME NEW k \in DOMAIN streams PROVE ~(aa[k].stage \in {"asked", "open"})
  <2>1. CASE k = controller
    BY <1>2, <2>1 DEF Deaf
  <2>2. CASE k # controller
    BY <1>2, <2>2 DEF Latest, Answerable, Stage
  <2> QED
    BY <2>1, <2>2
<1>6. ASSUME NEW k \in DOMAIN streams', k \in DOMAIN aa, k # controller', streams'[k] = aa[k]
      PROVE  /\ k # controller' /\ k \in DOMAIN streams /\ ~Answerable(k)'
             /\ k # controller => streams'[k] = streams[k]
             /\ k = controller => streams'[k].stage \in Deaf
  BY <1>2, <1>5, <1>6 DEF Answerable, Stage
<1> QED
  BY <1>4, <1>6

\* A run that pauses ends the stream it came in, and goes on in a new one.
LEMMA AfterPause ==
  ASSUME Typed, Latest, "resent" \notin trouble, NEW i \in DOMAIN streams, Paused(i)
  PROVE  \A k \in DOMAIN streams' : Answerable(k)' =>
           /\ k = controller' /\ streams'[k].verb = "get"
           /\ streams'[k].msg = streams[i].msg /\ streams'[k].by = streams[i].by
<1> DEFINE ss == Put(streams, i, "ending")
<1>1. streams \in Seq(Stream) /\ "ending" \in Stages
  BY DEF Typed, TypeOK, Stages
<1>2. streams[i] \in Stream
  BY <1>1, LenProperties, ElementOfSeq
<1>3. /\ streams[i].msg \in Messages /\ streams[i].by \in {"send", "resume"} /\ "get" \in Verbs
  BY <1>2 DEF Stream, Verbs
<1>4. Open(ss, streams[i].msg, "get", streams[i].by)
  BY DEF Paused, Put
<1>5. /\ ss \in Seq(Stream) /\ DOMAIN ss = DOMAIN streams /\ ss[i].stage = "ending"
      /\ \A k \in DOMAIN streams : k # i => ss[k] = streams[k]
  BY <1>1, PutFacts
<1> HIDE DEF ss
<1>6. i = controller
  BY DEF Paused, Live, Latest, Answerable, Stage
<1>7. ASSUME NEW k \in DOMAIN streams PROVE ~(ss[k].stage \in {"asked", "open"})
  <2>1. CASE k = i
    BY <1>5, <2>1
  <2>2. CASE k # i
    BY <1>5, <1>6, <2>2 DEF Latest, Answerable, Stage
  <2> QED
    BY <2>1, <2>2
<1>8. ASSUME NEW k \in DOMAIN streams'
      PROVE  \/ /\ k = controller' /\ streams'[k].verb = "get"
                /\ streams'[k].msg = streams[i].msg /\ streams'[k].by = streams[i].by
             \/ k \in DOMAIN ss /\ streams'[k] = ss[k]
  BY <1>3, <1>4, <1>5, OpenFacts
<1> QED
  BY <1>5, <1>7, <1>8 DEF Answerable, Stage

\* The other steps open no stream, and let none be answered that was not before.
Quiet ==
  /\ DOMAIN streams' = DOMAIN streams /\ controller' = controller /\ sent' = sent /\ since' = since
  /\ \A k \in DOMAIN streams : Same(k) /\ (Answerable(k)' => Answerable(k))

LEMMA QuietSteps ==
  ASSUME Typed, NEW i \in DOMAIN streams,
         \/ Accepted(i) \/ Unauthorized(i) \/ NotRefreshed(i) \/ Rejected(i) \/ FetchFails(i)
         \/ Event(i) \/ AnnotationReply(i) \/ Finished(i) \/ Ended(i) \/ Failed(i) \/ Broken(i)
  PROVE  Quiet
<1>0. "open" \in Stages /\ "refreshing" \in Stages /\ "ending" \in Stages /\ "closed" \in Stages
  BY DEF Stages
<1>1. controller' = controller /\ sent' = sent /\ since' = since
  BY DEF Accepted, Unauthorized, NotRefreshed, Rejected, FetchFails, Event, AnnotationReply, Finished,
     Ended, Failed, Broken, refs, history
<1>2. CASE Accepted(i)
  <2>1. Stage(i) = "asked" /\ At(i, "open")
    BY <1>2 DEF Accepted, Stage
  <2> QED
    BY <1>0, <1>1, <2>1, AfterAt DEF Quiet, Answerable
<1>3. CASE Event(i) \/ AnnotationReply(i)
  BY <1>1, <1>3 DEF Event, AnnotationReply, Quiet, Same, Answerable, Stage
<1>4. CASE ~Accepted(i) /\ ~Event(i) /\ ~AnnotationReply(i)
  <2>1. PICK x \in {"refreshing", "ending", "closed"} : At(i, x)
    BY <1>4 DEF Unauthorized, NotRefreshed, Rejected, FetchFails, Finished, Ended, Failed, Broken
  <2>2. x \in Stages /\ x \notin {"asked", "open"}
    BY <1>0
  <2> QED
    BY <1>1, <2>1, <2>2, AfterAt DEF Quiet, Answerable
<1> QED
  BY <1>2, <1>3, <1>4

LEMMA QuietElsewhere ==
  ASSUME UNCHANGED vars \/ \E m \in Messages : FormFilled(m)
  PROVE  Quiet
BY DEF FormFilled, vars, refs, history, Quiet, Same, Answerable, Stage

LEMMA NextLatest == Typed /\ Latest /\ [Next]_vars => Latest'
<1> SUFFICES ASSUME Typed, Latest, [Next]_vars, "resent" \notin trouble'
             PROVE  \A k \in DOMAIN streams' : Answerable(k)' => k = controller'
  BY DEF Latest
<1>0. "resent" \notin trouble
  BY TroubleGrows
<1>1. ASSUME Quiet PROVE \A k \in DOMAIN streams' : Answerable(k)' => k = controller'
  BY <1>0, <1>1 DEF Quiet, Latest
<1>2. CASE Send
  <2>1. Open(Aborted(streams), sent', "post", "send") /\ sent' \in Messages
    BY <1>2, BoundsAreNumbers DEF Send, Messages, Typed, TypeOK
  <2> QED
    BY <1>0, <2>1, AfterRequest, VerbsAre
<1>3. CASE Stop \/ Restart
  BY <1>0, <1>3, AfterAbort DEF Stop, Restart
<1>4. ASSUME NEW m \in Messages, Resume(m)
      PROVE  \A k \in DOMAIN streams' : Answerable(k)' => k = controller'
  <2>1. Open(Aborted(streams), m, "snapshot", "resume")
    BY <1>4 DEF Resume
  <2> QED
    BY <1>0, <2>1, AfterRequest, VerbsAre
<1>5. ASSUME NEW i \in DOMAIN streams, Paused(i)
      PROVE  \A k \in DOMAIN streams' : Answerable(k)' => k = controller'
  BY <1>0, <1>5, AfterPause
<1>6. ASSUME NEW i \in DOMAIN streams, SentAgain(i) PROVE FALSE
  BY <1>6 DEF SentAgain
<1>7. ASSUME NEW i \in DOMAIN streams, StreamStep(i), ~Paused(i), ~SentAgain(i) PROVE Quiet
  BY <1>7, QuietSteps DEF StreamStep
<1>8. ASSUME UNCHANGED vars \/ \E m \in Messages : FormFilled(m) PROVE Quiet
  BY <1>8, QuietElsewhere
<1> QED
  BY <1>1, <1>2, <1>3, <1>4, <1>5, <1>6, <1>7, <1>8 DEF Next

LEMMA LatestHolds == Safety => []Latest
<1>1. Init => Latest
  BY DEF Init, Latest
<1> QED
  BY <1>1, NextLatest, TypedHolds, PTL DEF Safety

\* Two answers are written at the same time only after a request was sent again.
THEOREM OneAnswer == Safety => []OneAnswerAtATime
<1>1. Latest => OneAnswerAtATime
  BY DEF Latest, OneAnswerAtATime, Live, Answerable, Stage
<1> QED
  BY <1>1, LatestHolds, PTL

(***************************************************************************)
(* The input is closed until the answer to the latest message is complete  *)
(* or pauses, because every other stream is deaf by then: it is over, or   *)
(* it was aborted, or it waits for a token; what it tells the chat after   *)
(* that is in `trouble'.                                                   *)
(***************************************************************************)
Latecomers == {"late", "resent", "unended"}

AnswersLatest(i) ==
  /\ Answerable(i) /\ streams[i].verb = "post" /\ streams[i].msg = sent
  /\ run[sent] # "over"

OthersAreDeaf(i) == \A j \in DOMAIN streams \ {i} : Stage(j) \in Deaf

InputInv ==
  trouble \cap Latecomers = {} =>
    \A i \in DOMAIN streams : AnswersLatest(i) => (responding \/ stopped) /\ OthersAreDeaf(i)

\* The only stream that may be answered no longer is: no stream is left.
LEMMA Silenced ==
  ASSUME Latest, "resent" \notin trouble, Quiet, NEW i \in DOMAIN streams, Answerable(i), ~Answerable(i)'
  PROVE  \A k \in DOMAIN streams' : ~Answerable(k)'
BY DEF Latest, Quiet

\* A stream that is ending, over or waiting for a token is not answered.
LEMMA EndedHere ==
  ASSUME Typed, NEW i \in DOMAIN streams, NEW x \in {"refreshing", "ending", "closed"}, At(i, x)
  PROVE  ~Answerable(i)' /\ (Stage(i)' = x)
<1>1. x \in Stages /\ x \notin {"asked", "open"}
  BY DEF Stages
<1> QED
  BY <1>1, AfterAt DEF Answerable

\* A run that is over stays over.
LEMMA OverStays ==
  ASSUME Typed, [Next]_vars
  PROVE  \A m \in Messages : run[m] = "over" => run'[m] = "over"
<1>0. DOMAIN run = Messages
  BY DEF Typed, TypeOK
<1>1. CASE Send \/ Stop \/ Restart
  BY <1>0, <1>1 DEF Send, Stop, Restart
<1>2. ASSUME NEW n \in Messages, Resume(n) \/ FormFilled(n)
      PROVE  \A m \in Messages : run[m] = "over" => run'[m] = "over"
  BY <1>0, <1>2 DEF Resume, FormFilled
<1>3. ASSUME NEW i \in DOMAIN streams, StreamStep(i)
      PROVE  \A m \in Messages : run[m] = "over" => run'[m] = "over"
  <2>1. CASE Accepted(i) \/ AnnotationReply(i) \/ Paused(i) \/ Finished(i) \/ Failed(i)
    BY <1>0, <2>1 DEF Accepted, AnnotationReply, Paused, Finished, Failed, Live
  <2>2. CASE \/ Unauthorized(i) \/ SentAgain(i) \/ NotRefreshed(i) \/ Rejected(i)
             \/ FetchFails(i) \/ Event(i) \/ Ended(i) \/ Broken(i)
    BY <2>2 DEF Unauthorized, SentAgain, NotRefreshed, Rejected, FetchFails, Event, Ended, Broken
  <2> QED
    BY <1>3, <2>1, <2>2 DEF StreamStep
<1>4. CASE UNCHANGED vars
  BY <1>4 DEF vars
<1> QED
  BY <1>1, <1>2, <1>3, <1>4 DEF Next

LEMMA NextInput == Typed /\ Latest /\ InputInv /\ [Next]_vars => InputInv'
<1> SUFFICES ASSUME Typed, Latest, InputInv, [Next]_vars, trouble' \cap Latecomers = {},
                    NEW k \in DOMAIN streams', AnswersLatest(k)'
             PROVE  (responding' \/ stopped') /\ OthersAreDeaf(k)'
  BY DEF InputInv
<1>0. trouble \cap Latecomers = {} /\ "resent" \notin trouble /\ "resent" \notin trouble'
      /\ "unended" \notin trouble' /\ "late" \notin trouble'
  BY TroubleGrows DEF Latecomers
<1>10. /\ Answerable(k)' /\ streams'[k].verb = "post" /\ streams'[k].msg = sent'
       /\ run'[sent'] # "over"
  BY DEF AnswersLatest
<1> DEFINE Goal == (responding' \/ stopped') /\ OthersAreDeaf(k)'
\* The stream answered the latest message before the step already.
<1>11. ASSUME Quiet PROVE k \in DOMAIN streams /\ (responding \/ stopped) /\ OthersAreDeaf(k)
  <2>1. /\ k \in DOMAIN streams /\ Answerable(k) /\ sent' = sent
        /\ streams[k].verb = "post" /\ streams[k].msg = sent
    BY <1>10, <1>11 DEF Quiet, Same
  <2>2. streams[k] \in Stream
    BY <2>1, LenProperties, ElementOfSeq DEF Typed, TypeOK
  <2>3. sent \in Messages
    BY <2>1, <2>2 DEF Stream
  <2>4. run[sent] # "over"
    BY <1>10, <2>1, <2>3, OverStays
  <2> QED
    BY <1>0, <2>1, <2>4 DEF InputInv, AnswersLatest
\* No step makes a deaf stream hear again.
<1>12. ASSUME Quiet, responding' \/ stopped',
              \A j \in DOMAIN streams : Stage(j) \in Deaf => Stage(j)' \in Deaf
       PROVE  Goal
  BY <1>11, <1>12 DEF OthersAreDeaf, Quiet
<1>13. ASSUME NEW i \in DOMAIN streams, NEW x \in {"refreshing", "ending", "closed"}, At(i, x)
       PROVE  \A j \in DOMAIN streams : j # i => Stage(j)' = Stage(j)
  <2>1. x \in Stages
    BY DEF Stages
  <2> QED
    BY <1>13, <2>1, AfterAt
<1>1. CASE Send
  <2>1. Open(Aborted(streams), sent', "post", "send") /\ sent' \in Messages /\ responding' = TRUE
    BY <1>1, BoundsAreNumbers DEF Send, Messages, Typed, TypeOK
  <2>2. k = controller'
    BY <1>0, <1>10, <2>1, AfterRequest, VerbsAre
  <2>3. \A j \in DOMAIN streams : j # controller => streams[j].stage = "closed"
    BY <1>0, <1>1 DEF Send
  <2>4. ASSUME NEW j \in DOMAIN streams', j # k PROVE streams'[j].stage \in Deaf
    <3>1. j \in DOMAIN streams /\ (j # controller => streams'[j] = streams[j])
          /\ (j = controller => streams'[j].stage \in Deaf)
      BY <1>0, <2>1, <2>2, <2>4, AfterRequest, VerbsAre
    <3> QED
      BY <2>3, <3>1 DEF Deaf
  <2> QED
    BY <2>1, <2>4 DEF OthersAreDeaf, Stage
<1>2. CASE Stop \/ Restart
  BY <1>0, <1>2, <1>10, AfterAbort DEF Stop, Restart
<1>3. ASSUME NEW m \in Messages, Resume(m) PROVE Goal
  <2>1. Open(Aborted(streams), m, "snapshot", "resume")
    BY <1>3 DEF Resume
  <2>2. k = controller' /\ streams'[k].verb = "snapshot"
    BY <1>0, <1>10, <2>1, AfterRequest, VerbsAre
  <2> QED
    BY <1>10, <2>2
<1>4. ASSUME NEW m \in Messages, FormFilled(m) PROVE Goal
  <2>1. Quiet
    BY <1>4, QuietElsewhere
  <2> QED
    BY <1>4, <1>11, <1>12, <2>1 DEF FormFilled, refs, Stage
<1>5. ASSUME NEW i \in DOMAIN streams, Paused(i) PROVE Goal
  <2>1. streams'[k].verb = "get"
    BY <1>0, <1>5, <1>10, AfterPause
  <2> QED
    BY <1>10, <2>1
<1>6. ASSUME NEW i \in DOMAIN streams, SentAgain(i) PROVE Goal
  BY <1>0, <1>6 DEF SentAgain
<1>7. ASSUME NEW i \in DOMAIN streams, Accepted(i) PROVE Goal
  <2>1. Quiet
    BY <1>7, QuietSteps
  <2>2. Stage(i) = "asked" /\ "open" \in Stages /\ At(i, "open")
    BY <1>7 DEF Accepted, Stage, Stages
  <2>3. \A j \in DOMAIN streams : Stage(j) \in Deaf => Stage(j)' \in Deaf
    BY <2>2, AfterAt DEF Deaf
  <2> QED
    BY <1>7, <1>11, <1>12, <2>1, <2>3 DEF Accepted, refs
<1>8. ASSUME NEW i \in DOMAIN streams, Unauthorized(i) \/ Rejected(i) \/ Finished(i) \/ Failed(i) PROVE Goal
  <2>1. Quiet
    BY <1>8, QuietSteps
  <2>2. Answerable(i)
    BY <1>8 DEF Unauthorized, Rejected, Finished, Failed, Live, Answerable, Stage
  <2>3. ~Answerable(i)'
    BY <1>8, EndedHere DEF Unauthorized, Rejected, Finished, Failed
  <2> QED
    BY <1>0, <1>10, <2>1, <2>2, <2>3, Silenced
<1>9. ASSUME NEW i \in DOMAIN streams, NotRefreshed(i) \/ Broken(i) PROVE Goal
  <2>1. Quiet
    BY <1>9, QuietSteps
  <2>2. At(i, "closed") /\ responding' = responding /\ stopped' = stopped
    BY <1>9 DEF NotRefreshed, Broken, refs
  <2>3. \A j \in DOMAIN streams : Stage(j) \in Deaf => Stage(j)' \in Deaf
    BY <1>13, <2>2, EndedHere DEF Deaf
  <2> QED
    BY <1>11, <1>12, <2>1, <2>2, <2>3
<1>14. ASSUME NEW i \in DOMAIN streams, FetchFails(i) PROVE Goal
  <2>1. Quiet
    BY <1>14, QuietSteps
  <2>2. At(i, "closed") /\ stopped' = stopped /\ streams[i].stage \in {"asked", "aborting"}
    BY <1>14 DEF FetchFails
  <2>3. \A j \in DOMAIN streams : Stage(j) \in Deaf => Stage(j)' \in Deaf
    BY <1>13, <2>2, EndedHere DEF Deaf
  <2>4. CASE streams[i].stage = "asked"
    BY <1>0, <1>10, <2>1, <2>2, <2>4, EndedHere, Silenced DEF Answerable, Stage
  <2>5. CASE streams[i].stage = "aborting"
    <3>1. responding' = responding
      BY <1>0, <1>14, <2>5 DEF FetchFails
    <3> QED
      BY <1>11, <1>12, <2>1, <2>2, <2>3, <3>1
  <2> QED
    BY <2>2, <2>4, <2>5
<1>15. ASSUME NEW i \in DOMAIN streams, Event(i) PROVE Goal
  <2>1. Quiet
    BY <1>15, QuietSteps
  <2>2. streams' = streams /\ (responding' = TRUE \/ UNCHANGED <<responding, stopped>>)
    BY <1>15 DEF Event
  <2> QED
    BY <1>11, <1>12, <2>1, <2>2 DEF Stage
\* The stream that may be answered is the one of the reply, whose run is over.
<1>18. ASSUME NEW i \in DOMAIN streams, AnnotationReply(i) PROVE Goal
  <2>1. Quiet /\ Answerable(i)
    BY <1>18, QuietSteps DEF AnnotationReply, Live, Answerable, Stage
  <2>2. k \in DOMAIN streams /\ k = i
    BY <1>0, <1>10, <2>1 DEF Quiet, Latest
  <2>3. streams[i].msg = sent /\ sent' = sent
    BY <1>10, <2>1, <2>2 DEF Quiet, Same
  <2>4. streams[i] \in Stream
    BY LenProperties, ElementOfSeq DEF Typed, TypeOK
  <2>5. run'[sent] = "over"
    BY <1>18, <2>3, <2>4 DEF AnnotationReply, Stream, Typed, TypeOK
  <2> QED
    BY <1>10, <2>3, <2>5
<1>16. ASSUME NEW i \in DOMAIN streams, Ended(i) PROVE Goal
  <2>1. Quiet
    BY <1>16, QuietSteps
  <2>2. At(i, "closed") /\ Stage(i) \in {"ending", "open"}
    BY <1>16 DEF Ended, Stage
  <2>3. k # i
    BY <1>10, <2>2, EndedHere
  <2>4. Stage(i) \in Deaf
    BY <1>11, <2>1, <2>3 DEF OthersAreDeaf
  <2> QED
    BY <2>2, <2>4 DEF Deaf
<1>17. CASE UNCHANGED vars
  <2>1. Quiet
    BY <1>17, QuietElsewhere
  <2> QED
    BY <1>11, <1>12, <1>17, <2>1 DEF vars, refs, Stage
<1> QED
  BY <1>1, <1>2, <1>3, <1>4, <1>5, <1>6, <1>7, <1>8, <1>9, <1>14, <1>15, <1>16, <1>17, <1>18
  DEF Next, StreamStep

\* From the request for the latest answer until it is complete or its run pauses
\* the input stays closed, unless the user has stopped, or an older stream could
\* not be aborted when the message was sent, or its onError came late.  What is
\* answered after a pause comes in a GET, for which this is not claimed: the end
\* of the POST has opened the input, and handleSend closes it no more.
THEOREM InputClosed == Safety => []InputClosedUntilPause
<1>1. Init => InputInv
  BY DEF Init, InputInv
<1>2. InputInv => InputClosedUntilPause
  BY DEF InputInv, AnswersLatest, InputClosedUntilPause, Latecomers, Live, Answerable, Stage
<1> QED
  BY <1>1, <1>2, NextInput, LatestHolds, TypedHolds, PTL DEF Safety

(***************************************************************************)
(* The screen.  The messages since the restart form a chain, of which the  *)
(* last is the only one a stream of handleSend still writes: what it       *)
(* writes leaves the tree as it was.                                       *)
(***************************************************************************)
Conversation ==
  /\ shown = (since + 1)..sent
  /\ sent > since => tree = shown
  /\ \A m \in (since + 1)..sent : parent[m] = IF m = since + 1 THEN 0 ELSE m - 1
  /\ \A i \in DOMAIN streams : Answerable(i) =>
       sent > since /\ (streams[i].by = "send" => streams[i].msg = sent)

ScreenInv == trouble \cap {"late", "resent"} = {} => Conversation

LEMMA Extending ==
  ASSUME NEW a \in Nat, NEW b \in Nat, a <= b
  PROVE  ((a + 1)..b) \union {b + 1} = (a + 1)..(b + 1)
OBVIOUS

\* An answer that is written again leaves the screen as it is.
LEMMA Rewritten ==
  ASSUME Typed, Conversation, NEW i \in DOMAIN streams, Answerable(i), Update(streams[i])
  PROVE  UNCHANGED screen
<1>1. sent > since /\ tree = shown /\ shown = (since + 1)..sent /\ sent \in Nat /\ since \in Nat
  BY BoundsAreNumbers DEF Conversation, Typed, TypeOK
<1>2. parent' = parent
  BY DEF Update
<1>3. CASE streams[i].by = "send"
  <2>1. streams[i].msg = sent /\ UpdateQA(sent)
    BY <1>3 DEF Conversation, Update
  <2>2. parent[sent] = IF sent = since + 1 THEN 0 ELSE sent - 1
    BY <1>1 DEF Conversation
  <2>3. Below(sent) = {}
    BY <1>1, BoundsAreNumbers DEF Below, Messages
  <2>4. sent \in tree
    BY <1>1
  <2>5. CASE sent = since + 1
    <3>1. TreeWith(sent, tree) = {sent}
      BY <1>2, <2>2, <2>5 DEF TreeWith
    <3>2. tree = {sent}
      BY <1>1, <2>5
    <3> QED
      BY <1>1, <1>2, <2>1, <3>1, <3>2 DEF UpdateQA, screen
  <2>6. CASE sent # since + 1
    <3>1. parent'[sent] # 0 /\ parent'[sent] = sent - 1 /\ sent - 1 \in tree
      BY <1>1, <1>2, <2>2, <2>6
    <3>2. TreeWith(sent, tree) = (tree \ Below(sent)) \union {sent}
      BY <3>1 DEF TreeWith
    <3>3. TreeWith(sent, tree) = tree
      BY <2>3, <2>4, <3>2
    <3> QED
      BY <1>1, <1>2, <2>1, <3>3 DEF UpdateQA, screen
  <2> QED
    BY <2>5, <2>6
<1>4. CASE streams[i].by # "send"
  BY <1>1, <1>2, <1>4 DEF Update, UpdateNode, screen
<1> QED
  BY <1>3, <1>4

LEMMA NextScreen == Typed /\ Latest /\ ScreenInv /\ [Next]_vars => ScreenInv'
<1> SUFFICES ASSUME Typed, Latest, ScreenInv, [Next]_vars, trouble' \cap {"late", "resent"} = {}
             PROVE  Conversation'
  BY DEF ScreenInv
<1>0. Conversation /\ "resent" \notin trouble /\ "resent" \notin trouble' /\ "late" \notin trouble'
  BY TroubleGrows DEF ScreenInv
<1>10. /\ sent \in Nat /\ since \in Nat /\ since <= sent /\ shown \subseteq Messages
       /\ sent \in 0..MaxMessages /\ MaxMessages \in Nat /\ DOMAIN parent = Messages
  BY BoundsAreNumbers DEF Typed, TypeOK
<1>11. ASSUME Quiet, UNCHANGED screen PROVE Conversation'
  BY <1>0, <1>11 DEF Quiet, Same, screen, Conversation
\* The part about the messages alone.
<1>12. ASSUME UNCHANGED screen, UNCHANGED <<sent, since>>,
              \A i \in DOMAIN streams' : Answerable(i)' =>
                sent > since /\ (streams'[i].by = "send" => streams'[i].msg = sent)
       PROVE  Conversation'
  BY <1>0, <1>12 DEF screen, Conversation
<1>1. CASE Send
  <2>1. /\ sent' = sent + 1 /\ since' = since /\ sent' \in Messages
        /\ Open(Aborted(streams), sent', "post", "send")
        /\ parent' = [parent EXCEPT ![sent'] = Last]
        /\ tree' = TreeWith(sent', tree) /\ shown' = tree'
    BY <1>1, <1>10 DEF Send, UpdateQA, Messages
  <2>2. Last = IF sent = since THEN 0 ELSE sent
    <3>1. CASE sent = since
      <4>1. shown = {}
        BY <1>0, <1>10, <3>1 DEF Conversation
      <4> QED
        BY <1>10, <3>1, <4>1, LastFacts
    <3>2. CASE sent # since
      <4>1. sent \in shown /\ \A m \in shown : m \in Nat /\ m <= sent
        BY <1>0, <1>10, <3>2 DEF Conversation
      <4>2. Last \in shown /\ sent <= Last
        BY <1>10, <4>1, LastFacts
      <4>3. Last \in Nat /\ Last <= sent
        BY <4>1, <4>2
      <4> QED
        BY <1>10, <3>2, <4>2, <4>3
    <3> QED
      BY <3>1, <3>2
  <2>3. parent'[sent'] = Last /\ \A m \in Messages : m # sent' => parent'[m] = parent[m]
    BY <1>10, <2>1
  <2>4. tree' = (since' + 1)..sent'
    <3>1. CASE sent = since
      BY <1>10, <2>1, <2>2, <2>3, <3>1 DEF TreeWith
    <3>2. CASE sent # since
      <4>1. tree = (since + 1)..sent /\ sent \in tree
        BY <1>0, <1>10, <3>2 DEF Conversation
      <4>2. Below(sent') = {}
        BY <1>10, <2>1 DEF Below, Messages
      <4>3. parent'[sent'] = sent /\ sent # 0
        BY <1>10, <2>2, <2>3, <3>2
      <4>4. TreeWith(sent', tree) = tree \union {sent'}
        BY <4>1, <4>2, <4>3 DEF TreeWith
      <4> QED
        BY <1>10, <2>1, <4>1, <4>4, Extending
    <3> QED
      BY <3>1, <3>2
  <2>5. ASSUME NEW m \in (since' + 1)..sent'
        PROVE  parent'[m] = IF m = since' + 1 THEN 0 ELSE m - 1
    <3>1. CASE m = sent'
      BY <1>10, <2>1, <2>2, <2>3, <3>1
    <3>2. CASE m # sent'
      <4>1. m \in (since + 1)..sent /\ m \in Messages
        BY <1>10, <2>1, <3>2 DEF Messages
      <4> QED
        BY <1>0, <2>1, <2>3, <3>2, <4>1 DEF Conversation
    <3> QED
      BY <3>1, <3>2
  <2>6. \A i \in DOMAIN streams' : Answerable(i)' => streams'[i].msg = sent'
    BY <1>0, <2>1, AfterRequest, VerbsAre
  <2>7. sent' > since'
    BY <1>10, <2>1
  <2> QED
    BY <2>1, <2>4, <2>5, <2>6, <2>7 DEF Conversation
<1>2. CASE Stop
  <2>1. UNCHANGED screen /\ UNCHANGED <<sent, since>> /\ streams' = Aborted(streams)
    BY <1>2 DEF Stop, history
  <2>2. \A i \in DOMAIN streams' : ~Answerable(i)'
    BY <1>0, <2>1, AfterAbort
  <2> QED
    BY <1>12, <2>1, <2>2
<1>3. CASE Restart
  <2>1. shown' = {} /\ since' = sent /\ sent' = sent
    BY <1>3 DEF Restart
  <2>2. \A i \in DOMAIN streams' : ~Answerable(i)'
    BY <1>0, <1>3, AfterAbort DEF Restart
  <2>3. (since' + 1)..sent' = {} /\ ~(sent' > since')
    BY <1>10, <2>1
  <2> QED
    BY <2>1, <2>2, <2>3 DEF Conversation
<1>4. ASSUME NEW m \in Messages, Resume(m) PROVE Conversation'
  <2>1. Open(Aborted(streams), m, "snapshot", "resume") /\ m \in shown
        /\ UNCHANGED screen /\ UNCHANGED <<sent, since>>
    BY <1>4 DEF Resume, history
  <2>2. sent > since
    BY <1>0, <1>10, <2>1 DEF Conversation
  <2>3. \A i \in DOMAIN streams' : Answerable(i)' => streams'[i].by = "resume"
    BY <1>0, <2>1, AfterRequest, VerbsAre
  <2> QED
    BY <1>12, <2>1, <2>2, <2>3
<1>5. ASSUME NEW i \in DOMAIN streams, Paused(i) PROVE Conversation'
  <2>1. Answerable(i)
    BY <1>5 DEF Paused, Live, Answerable, Stage
  <2>2. UNCHANGED screen
    BY <1>0, <1>5, <2>1, Rewritten DEF Paused
  <2>3. UNCHANGED <<sent, since>>
    BY <1>5 DEF Paused, history
  <2>4. \A j \in DOMAIN streams' : Answerable(j)' =>
          streams'[j].msg = streams[i].msg /\ streams'[j].by = streams[i].by
    BY <1>0, <1>5, AfterPause
  <2> QED
    BY <1>0, <1>12, <2>1, <2>2, <2>3, <2>4 DEF Conversation
<1>6. ASSUME NEW i \in DOMAIN streams, SentAgain(i) PROVE Conversation'
  BY <1>0, <1>6 DEF SentAgain
<1>7. ASSUME NEW i \in DOMAIN streams,
             Accepted(i) \/ Unauthorized(i) \/ NotRefreshed(i) \/ Ended(i) \/ Broken(i)
      PROVE  Conversation'
  <2>1. Quiet
    BY <1>7, QuietSteps
  <2>2. UNCHANGED screen
    BY <1>7 DEF Accepted, Unauthorized, NotRefreshed, Ended, Broken
  <2> QED
    BY <1>11, <2>1, <2>2
<1>8. ASSUME NEW i \in DOMAIN streams, Rejected(i) \/ FetchFails(i) \/ Event(i) \/ AnnotationReply(i)
             \/ Finished(i) \/ Failed(i)
      PROVE  Conversation'
  <2>1. Quiet
    BY <1>8, QuietSteps
  <2>2. (Answerable(i) /\ Update(streams[i])) \/ UNCHANGED screen
    <3>1. CASE Rejected(i)
      BY <3>1 DEF Rejected, OnError, Answerable, Stage
    <3>2. CASE FetchFails(i)
      BY <1>0, <3>2 DEF FetchFails, OnError, Answerable, Stage, screen
    <3>3. CASE Event(i) \/ AnnotationReply(i) \/ Finished(i)
      BY <3>3 DEF Event, AnnotationReply, Finished, Live, Answerable, Stage
    <3>4. CASE Failed(i)
      BY <3>4 DEF Failed, OnError, Live, Answerable, Stage
    <3> QED
      BY <1>8, <3>1, <3>2, <3>3, <3>4
  <2>3. UNCHANGED screen
    BY <1>0, <2>2, Rewritten
  <2> QED
    BY <1>11, <2>1, <2>3
<1>9. CASE UNCHANGED vars
  BY <1>9, <1>11, QuietElsewhere DEF vars
<1>13. ASSUME NEW m \in Messages, FormFilled(m) PROVE Conversation'
  BY <1>11, <1>13, QuietElsewhere DEF FormFilled
<1> QED
  BY <1>1, <1>2, <1>3, <1>4, <1>5, <1>6, <1>7, <1>8, <1>9, <1>13 DEF Next, StreamStep

\* The screen shows exactly the messages sent since the last restart, unless an
\* aborted request told its error late, or a request was sent again.
THEOREM Screen == Safety => []ScreenIsConversation
<1>1. Init => ScreenInv
  <2> SUFFICES ASSUME Init PROVE Conversation
    BY DEF ScreenInv
  <2>1. since = 0 /\ sent = 0 /\ shown = {} /\ streams = <<>>
    BY DEF Init
  <2>2. (since + 1)..sent = {} /\ ~(sent > since) /\ DOMAIN streams = {}
    BY <2>1
  <2> QED
    BY <2>1, <2>2 DEF Conversation
<1>2. ScreenInv => ScreenIsConversation
  BY DEF ScreenInv, Conversation, ScreenIsConversation
<1> QED
  BY <1>1, <1>2, NextScreen, LatestHolds, TypedHolds, PTL DEF Safety

-----------------------------------------------------------------------------
(***************************************************************************)
(* Why ResponseEnds holds: while the chat responds a stream is left that   *)
(* will still tell it the end, or one has failed without telling anybody.  *)
(***************************************************************************)
WillTell(i) == Stage(i) \in {"asked", "refreshing", "open", "ending"}

SomebodyTells == responding => "silent" \in trouble \/ \E i \in DOMAIN streams : WillTell(i)

\* A new stream has all to tell.
LEMMA NewTells ==
  ASSUME NEW ss \in Seq(Stream), NEW m \in Messages, NEW verb \in Verbs,
         NEW by \in {"send", "resume"}, Open(ss, m, verb, by)
  PROVE  \E i \in DOMAIN streams' : WillTell(i)'
<1>1. New(m, verb, by) \in Stream /\ New(m, verb, by).stage = "asked"
  BY DEF New, Stream, Stages
<1>2. streams' = Append(ss, New(m, verb, by))
  BY DEF Open
<1>3. /\ streams' \in Seq(Stream) /\ Len(streams') = Len(ss) + 1 /\ Len(ss) \in Nat
      /\ streams'[Len(ss) + 1] = New(m, verb, by)
  BY <1>1, <1>2, AppendProperties, LenProperties
<1>4. Len(ss) + 1 \in DOMAIN streams'
  BY <1>3, LenProperties
<1> QED
  BY <1>1, <1>3, <1>4 DEF WillTell, Stage

\* While the chat responds, the answer is asked for, waits for a token, is being
\* read or has just ended, in some stream: the input does not stay closed with
\* nobody to open it, whatever was aborted, paused, resumed or sent again.
THEOREM InputIsOwed == Safety => []SomebodyTells
<1>1. Init => SomebodyTells
  BY DEF Init, SomebodyTells
<1>2. Typed /\ SomebodyTells /\ [Next]_vars => SomebodyTells'
  <2> SUFFICES ASSUME Typed, SomebodyTells, [Next]_vars, responding', "silent" \notin trouble'
               PROVE  \E i \in DOMAIN streams' : WillTell(i)'
    BY DEF SomebodyTells
  <2>0. "silent" \notin trouble
    BY TroubleGrows
  <2>a. streams \in Seq(Stream) /\ Aborted(streams) \in Seq(Stream)
    BY AbortedFacts DEF Typed, TypeOK
  <2>b. ASSUME NEW i \in DOMAIN streams
        PROVE  streams[i].msg \in Messages /\ streams[i].verb \in Verbs
               /\ streams[i].by \in {"send", "resume"}
    <3>1. streams[i] \in Stream
      BY <2>a, LenProperties, ElementOfSeq
    <3> QED
      BY <3>1 DEF Stream
  <2>c. "open" \in Stages /\ "refreshing" \in Stages /\ "ending" \in Stages /\ "closed" \in Stages
    BY DEF Stages
  \* A stream comes to a stage in which it will tell.
  <2>d. ASSUME NEW i \in DOMAIN streams, NEW x \in {"open", "refreshing", "ending"}, At(i, x)
        PROVE  \E k \in DOMAIN streams' : WillTell(k)'
    BY <2>c, <2>d, AfterAt DEF WillTell
  <2>1. CASE Send
    <3>1. Open(Aborted(streams), sent', "post", "send") /\ sent' \in Messages
      BY <2>1, BoundsAreNumbers DEF Send, Messages, Typed, TypeOK
    <3> QED
      BY <2>a, <3>1, NewTells, VerbsAre
  <2>2. CASE Stop \/ Restart
    BY <2>2 DEF Stop, Restart
  <2>3. ASSUME NEW m \in Messages, Resume(m) PROVE \E i \in DOMAIN streams' : WillTell(i)'
    BY <2>a, <2>3, NewTells, VerbsAre DEF Resume
  <2>4. ASSUME NEW m \in Messages, FormFilled(m) PROVE \E i \in DOMAIN streams' : WillTell(i)'
    BY <2>0, <2>4 DEF FormFilled, refs, SomebodyTells, WillTell, Stage
  <2>5. ASSUME NEW i \in DOMAIN streams, Accepted(i) \/ Unauthorized(i) \/ Finished(i)
        PROVE  \E k \in DOMAIN streams' : WillTell(k)'
    BY <2>5, <2>d DEF Accepted, Unauthorized, Finished
  <2>6. ASSUME NEW i \in DOMAIN streams, SentAgain(i) PROVE \E k \in DOMAIN streams' : WillTell(k)'
    <3> DEFINE ss == Put(streams, i, "closed")
    <3>1. ss \in Seq(Stream)
      BY <2>a, <2>c, PutFacts
    <3>2. Open(ss, streams[i].msg, streams[i].verb, streams[i].by)
      BY <2>6 DEF SentAgain, Put
    <3> HIDE DEF ss
    <3> QED
      BY <2>b, <3>1, <3>2, NewTells
  <2>7. ASSUME NEW i \in DOMAIN streams, Paused(i) PROVE \E k \in DOMAIN streams' : WillTell(k)'
    <3> DEFINE ss == Put(streams, i, "ending")
    <3>1. ss \in Seq(Stream)
      BY <2>a, <2>c, PutFacts
    <3>2. Open(ss, streams[i].msg, "get", streams[i].by)
      BY <2>7 DEF Paused, Put
    <3> HIDE DEF ss
    <3> QED
      BY <2>b, <3>1, <3>2, NewTells, VerbsAre
  <2>8. ASSUME NEW i \in DOMAIN streams, Event(i) PROVE \E k \in DOMAIN streams' : WillTell(k)'
    BY <2>8 DEF Event, Live, WillTell, Stage
  <2>9. ASSUME NEW i \in DOMAIN streams,
               NotRefreshed(i) \/ Broken(i) \/ Rejected(i) \/ AnnotationReply(i) \/ Ended(i) \/ Failed(i)
        PROVE  FALSE
    BY <2>9 DEF AnnotationReply, NotRefreshed, Broken, Rejected, Ended, Failed, OnError, RespondingAtEnd
  <2>10. ASSUME NEW i \in DOMAIN streams, FetchFails(i) PROVE \E k \in DOMAIN streams' : WillTell(k)'
    <3>1. Stage(i) = "aborting" /\ responding
      BY <2>10 DEF FetchFails, OnError, Stage
    <3>2. At(i, "closed")
      BY <2>10 DEF FetchFails
    <3>3. PICK k \in DOMAIN streams : WillTell(k)
      BY <2>0, <3>1 DEF SomebodyTells
    <3>4. k # i
      BY <3>1, <3>3 DEF WillTell
    <3> QED
      BY <2>c, <3>2, <3>3, <3>4, AfterAt DEF WillTell
  <2>11. CASE UNCHANGED vars
    BY <2>0, <2>11 DEF vars, refs, history, SomebodyTells, WillTell, Stage
  <2> QED
    BY <2>1, <2>2, <2>3, <2>4, <2>5, <2>6, <2>7, <2>8, <2>9, <2>10, <2>11 DEF Next, StreamStep
<1> QED
  BY <1>1, <1>2, TypedHolds, PTL DEF Safety

-----------------------------------------------------------------------------
(***************************************************************************)
(* The refresh of the access token.                                        *)
(***************************************************************************)
RefreshesTyped ==
  /\ cookie \in Tokens \union {0} /\ orphans \subseteq Tokens
  /\ fetch \in [Requests -> {"none", "sent", "read", "granted", "denied"}]
  /\ token \in [Requests -> Tokens \union {0}]
  /\ lost \in BOOLEAN

\* Every variable keeps its type.
THEOREM RefreshTypeCorrect == RefreshSafety => []RefreshTypeOK
<1>1. RefreshInit => RefreshTypeOK
  <2>1. 0 \in 0..MaxCalls /\ 0 \in 0..MaxCrashes
    BY RefreshBoundsAreNumbers
  <2> SUFFICES ASSUME RefreshInit PROVE RefreshTypeOK
    OBVIOUS
  <2>2. timers \in [Requests -> SUBSET (1..MaxCalls)]
    BY DEF RefreshInit
  <2>3. overrun \subseteq Tabs
    BY DEF RefreshInit
  <2>4. cookie \in Tokens \union {0} /\ orphans \subseteq Tokens
    BY RefreshBoundsAreNumbers DEF RefreshInit, Tokens
  <2>5. token \in [Requests -> Tokens \union {0}]
    BY DEF RefreshInit
  <2> QED
    BY <2>1, <2>2, <2>3, <2>4, <2>5
    DEF RefreshInit, RefreshTypeOK, Phases, CallPhases, Signs
<1>2. RefreshTypeOK /\ [RefreshNext]_refreshVars => RefreshTypeOK'
  <2> SUFFICES ASSUME RefreshTypeOK, [RefreshNext]_refreshVars PROVE RefreshTypeOK'
    OBVIOUS
  <2> USE RefreshBoundsAreNumbers, RequestsHaveTabs DEF RefreshTypeOK, Phases, CallPhases, Signs
  <2>1. ASSUME NEW r \in Requests, Answered(r) PROVE RefreshTypeOK'
    BY <2>1 DEF Answered, lock, account, mishaps
  <2>2. ASSUME NEW r \in Requests, Refused(r) PROVE RefreshTypeOK'
    BY <2>2 DEF Refused, lock, account, mishaps
  <2>3. ASSUME NEW r \in Requests, Acquire(r) PROVE RefreshTypeOK'
    BY <2>3 DEF Acquire
  <2>4. ASSUME NEW r \in Requests, Poll(r) PROVE RefreshTypeOK'
    BY <2>4 DEF Poll, lock, account, mishaps
  <2>5. ASSUME NEW r \in Requests, WakeUp(r) PROVE RefreshTypeOK'
    BY <2>5 DEF WakeUp, Release, Settle, AfterRefresh, account, mishaps
  <2>6. ASSUME NEW r \in Requests, ServerGrants(r) PROVE RefreshTypeOK'
    <3>1. cookie' \in Tokens \union {0} /\ orphans' \subseteq Tokens
      BY <2>6 DEF ServerGrants, Delete, Without
    <3>2. token' \in [Requests -> Tokens \union {0}]
      BY <2>6 DEF ServerGrants, Without
    <3> QED
      BY <2>6, <3>1, <3>2 DEF ServerGrants, page, lock, mishaps
  <2>7. ASSUME NEW r \in Requests, ServerReads(r) PROVE RefreshTypeOK'
    BY <2>7 DEF ServerReads, page, lock, mishaps
  <2>8. ASSUME NEW r \in Requests, NEW how \in {"resolved", "rejected"}, EndCall(r, how),
               RefreshesTyped'
        PROVE  RefreshTypeOK'
    BY <2>8 DEF EndCall, Release, Settle, AfterRefresh, RefreshesTyped
  <2>16. ASSUME NEW rs \in SUBSET Requests, Withdraw(rs) PROVE RefreshesTyped'
    <3>1. orphans' \subseteq Tokens
      BY <2>16 DEF Withdraw
    <3> QED
      BY <2>16, <3>1 DEF Withdraw, RefreshesTyped
  <2>9. ASSUME NEW r \in Requests, Refreshed(r) \/ Denied(r) \/ RefreshFails(r)
        PROVE  RefreshTypeOK'
    <3>1. CASE Refreshed(r) \/ Denied(r)
      BY <2>8, <3>1 DEF Refreshed, Denied, Answer, RefreshesTyped
    <3>2. CASE RefreshFails(r)
      BY <2>8, <2>16, <3>2 DEF RefreshFails
    <3> QED
      BY <2>9, <3>1, <3>2
  <2>10. ASSUME NEW r \in Requests, NEW n \in 1..MaxCalls, TimerFires(r, n)
         PROVE  RefreshTypeOK'
    BY <2>10 DEF TimerFires, Release, Settle, AfterRefresh, account
  <2>11. ASSUME NEW t \in Tabs, Forget(t) 
         PROVE  /\ pc' \in [Requests -> Phases]
                /\ call' \in [Requests -> CallPhases]
                /\ timers' \in [Requests -> SUBSET (1..MaxCalls)]
                /\ RefreshesTyped'
                /\ UNCHANGED <<calls, overrun, overlap>>
    BY <2>11, <2>16 DEF Forget, Here
  <2>12. ASSUME NEW t \in Tabs, Relogin(t) PROVE RefreshTypeOK'
    BY <2>11, <2>12 DEF Relogin, Release, RefreshesTyped
  <2>13. ASSUME NEW t \in Tabs, Crash(t) PROVE RefreshTypeOK'
    <3>1. crashes' \in 0..MaxCrashes
      BY <2>13 DEF Crash
    <3> QED
      BY <2>11, <2>13, <3>1 DEF Crash, RefreshesTyped
  <2>14. CASE SignGetsOld
    BY <2>14 DEF SignGetsOld, page, account, mishaps
  <2>15. CASE UNCHANGED refreshVars
    BY <2>15 DEF refreshVars, page, lock, account, mishaps
  <2>17. ASSUME NEW n \in orphans, OrphanGranted(n) PROVE RefreshTypeOK'
    <3>1. RefreshesTyped'
      BY <2>17 DEF OrphanGranted, Delete, Without, RefreshesTyped
    <3> QED
      BY <2>17, <3>1 DEF OrphanGranted, page, lock, RefreshesTyped
  <2> QED
    BY <2>1, <2>2, <2>3, <2>4, <2>5, <2>6, <2>7, <2>9, <2>10, <2>12, <2>13,
       <2>14, <2>15, <2>17 DEF RefreshNext
<1> QED
  BY <1>1, <1>2, PTL DEF RefreshSafety

-----------------------------------------------------------------------------
(***************************************************************************)
(* Mutual exclusion inside a page.  At most one request of a page is in    *)
(* the middle of a task, and while one is, the variable is clear; and as   *)
(* long as no timer of the page fired under a refresh, the variable is set *)
(* during a refresh, so nobody comes to Acquire.                           *)
(***************************************************************************)
Busy(t) == {r \in Here(t) : call[r] \in {"checked", "woken"}}

PageInv(t) ==
  /\ \A r, q \in Busy(t) : r = q
  /\ Busy(t) # {} => ~isRefreshing[t]
  /\ t \notin overrun /\ Fetching(t) # {} => isRefreshing[t]
  /\ t \notin overrun => \A r, q \in Fetching(t) : r = q

LockInv == \A t \in Tabs : PageInv(t)

\* Of the requests of a page only one refreshes, whatever other pages do to the
\* keys, until a timer of the page fires under a refresh.
THEOREM OneRefreshPerPage == RefreshSafety => []SameTabExclusive
<1>1. RefreshInit => LockInv
  BY DEF RefreshInit, LockInv, PageInv, Busy, Here, Fetching
<1>2. RefreshTypeOK /\ LockInv /\ [RefreshNext]_refreshVars => LockInv'
  <2> SUFFICES ASSUME RefreshTypeOK, LockInv, [RefreshNext]_refreshVars, NEW t \in Tabs
               PROVE  PageInv(t)'
    BY DEF LockInv
  <2> USE RequestsHaveTabs DEF RefreshTypeOK, PageInv, Busy, Here, Fetching
  <2>0. PageInv(t)
    BY DEF LockInv
  <2>1. ASSUME UNCHANGED <<call, isRefreshing, overrun>> PROVE PageInv(t)'
    BY <2>0, <2>1
  <2>2. ASSUME NEW r \in Requests, Refused(r) PROVE PageInv(t)'
    BY <2>0, <2>2 DEF Refused, MustWait, Free, lock, mishaps
  <2>3. ASSUME NEW r \in Requests, Acquire(r) PROVE PageInv(t)'
    BY <2>0, <2>3 DEF Acquire
  <2>4. ASSUME NEW r \in Requests, Poll(r) PROVE PageInv(t)'
    BY <2>0, <2>4 DEF Poll, Free, lock, mishaps
  <2>5. ASSUME NEW r \in Requests, WakeUp(r) PROVE PageInv(t)'
    BY <2>0, <2>5 DEF WakeUp, Release, mishaps
  <2>6. ASSUME NEW r \in Requests, NEW how, EndCall(r, how) PROVE PageInv(t)'
    BY <2>0, <2>6 DEF EndCall, Release, Free
  <2>7. ASSUME NEW r \in Requests, Refreshed(r) \/ Denied(r) \/ RefreshFails(r)
        PROVE  PageInv(t)'
    BY <2>6, <2>7 DEF Refreshed, Denied, RefreshFails
  <2>8. ASSUME NEW r \in Requests, NEW n \in 1..MaxCalls, TimerFires(r, n)
        PROVE  PageInv(t)'
    BY <2>0, <2>8 DEF TimerFires, Release, Free
  <2>9. ASSUME NEW u \in Tabs, Relogin(u) \/ Crash(u) PROVE PageInv(t)'
    BY <2>0, <2>9 DEF Relogin, Crash, Forget, Release
  <2>10. ASSUME NEW r \in Requests,
                Answered(r) \/ ServerReads(r) \/ ServerGrants(r)
         PROVE  PageInv(t)'
    BY <2>1, <2>10 DEF Answered, ServerReads, ServerGrants, page, lock, mishaps
  <2>11. CASE SignGetsOld
    BY <2>1, <2>11 DEF SignGetsOld, page, mishaps
  <2>12. CASE UNCHANGED refreshVars
    BY <2>1, <2>12 DEF refreshVars, page, lock, mishaps
  <2>13. ASSUME NEW n \in orphans, OrphanGranted(n) PROVE PageInv(t)'
    BY <2>1, <2>13 DEF OrphanGranted, page, lock
  <2> QED
    BY <2>2, <2>3, <2>4, <2>5, <2>7, <2>8, <2>9, <2>10, <2>11, <2>12, <2>13 DEF RefreshNext
<1>3. LockInv => SameTabExclusive
  BY DEF LockInv, PageInv, SameTabExclusive
<1> QED
  BY <1>1, <1>2, <1>3, RefreshTypeCorrect, PTL DEF RefreshSafety

-----------------------------------------------------------------------------
(***************************************************************************)
(* The session.  A request has a refresh in flight only in its call of     *)
(* getNewAccessToken; and as long as refreshes do not overlap and none of  *)
(* their answers is lost, the server has the browser's refresh token and   *)
(* the one a refresh carries, or the answer with a new one is on its way.  *)
(***************************************************************************)
CallInv ==
  \A r \in Requests :
    /\ pc[r] = "sent" => call[r] \in {"none", "ended"}
    /\ fetch[r] # "none" => call[r] = "fetching"

SessionInv ==
  ~overlap /\ ~lost =>
    /\ \A r, q \in Requests : fetch[r] # "none" /\ fetch[q] # "none" => r = q
    /\ \A r \in Requests : fetch[r] # "denied"
    /\ \A r \in Requests : fetch[r] \in {"sent", "granted"} => token[r] # 0
    /\ cookie = 0 => \E r \in Requests : fetch[r] = "granted"

LEMMA NextCall == RefreshTypeOK /\ CallInv /\ [RefreshNext]_refreshVars => CallInv'
<1> SUFFICES ASSUME RefreshTypeOK, CallInv, [RefreshNext]_refreshVars PROVE CallInv'
  OBVIOUS
<1> USE DEF RefreshTypeOK, CallInv
<1>1. ASSUME NEW r \in Requests,
             \/ Answered(r) \/ Refused(r) \/ Poll(r) \/ ServerReads(r) \/ ServerGrants(r)
      PROVE  CallInv'
  BY <1>1 DEF Answered, Refused, Poll, ServerReads, ServerGrants, page, lock, account, mishaps
<1>2. ASSUME NEW r \in Requests, Acquire(r) PROVE CallInv'
  BY <1>2 DEF Acquire
<1>3. ASSUME NEW r \in Requests, NEW how \in {"resolved", "rejected"}, EndCall(r, how),
             \A q \in Requests : fetch'[q] = IF q = r THEN "none" ELSE fetch[q]
      PROVE  CallInv'
  BY <1>3 DEF EndCall, Settle, AfterRefresh
<1>4. ASSUME NEW r \in Requests, WakeUp(r) PROVE CallInv'
  BY <1>4 DEF WakeUp, Settle, AfterRefresh, account
<1>5. ASSUME NEW r \in Requests, Refreshed(r) \/ Denied(r) \/ RefreshFails(r) PROVE CallInv'
  BY <1>3, <1>5 DEF Refreshed, Denied, RefreshFails, Answer, Withdraw
<1>6. ASSUME NEW r \in Requests, NEW n \in 1..MaxCalls, TimerFires(r, n) PROVE CallInv'
  BY <1>6 DEF TimerFires, Settle, AfterRefresh, account
<1>7. ASSUME NEW t \in Tabs, Relogin(t) \/ Crash(t) PROVE CallInv'
  BY <1>7 DEF Relogin, Crash, Forget, Withdraw
<1>8. CASE SignGetsOld
  BY <1>8 DEF SignGetsOld, page, account
<1>9. CASE UNCHANGED refreshVars
  BY <1>9 DEF refreshVars, page, account
<1>10. ASSUME NEW n \in orphans, OrphanGranted(n) PROVE CallInv'
  BY <1>10 DEF OrphanGranted, page
<1> QED
  BY <1>1, <1>2, <1>4, <1>5, <1>6, <1>7, <1>8, <1>9, <1>10 DEF RefreshNext

LEMMA NextSession == RefreshTypeOK /\ CallInv /\ SessionInv /\ [RefreshNext]_refreshVars => SessionInv'
<1> DEFINE Kept == /\ \A r, q \in Requests : fetch'[r] # "none" /\ fetch'[q] # "none" => r = q
                   /\ \A r \in Requests : fetch'[r] # "denied"
                   /\ \A r \in Requests : fetch'[r] \in {"sent", "granted"} => token'[r] # 0
                   /\ cookie' = 0 => \E r \in Requests : fetch'[r] = "granted"
<1> SUFFICES ASSUME RefreshTypeOK, CallInv, SessionInv, [RefreshNext]_refreshVars, ~overlap', ~lost'
             PROVE  Kept
  BY DEF SessionInv
<1> USE DEF RefreshTypeOK, SessionInv
<1>1. ASSUME UNCHANGED <<fetch, token, cookie, overlap, lost>> PROVE Kept
  BY <1>1
<1>2. ASSUME NEW r \in Requests,
             \/ Answered(r) \/ Refused(r) \/ Poll(r) \/ WakeUp(r)
             \/ \E n \in 1..MaxCalls : TimerFires(r, n)
      PROVE  Kept
  BY <1>1, <1>2 DEF Answered, Refused, Poll, WakeUp, TimerFires, account, mishaps
<1>3. ASSUME NEW r \in Requests, Acquire(r) PROVE Kept
  <2>1. ~overlap /\ ~lost /\ \A q \in Requests \ {r} : fetch[q] = "none"
    BY <1>3 DEF Acquire
  <2>2. fetch[r] = "none"
    BY <1>3 DEF Acquire, CallInv
  <2>3. cookie # 0
    BY <2>1, <2>2
  <2> QED
    BY <1>3, <2>1, <2>2, <2>3 DEF Acquire
<1>4. ASSUME NEW r \in Requests, ServerReads(r) PROVE Kept
  BY <1>4 DEF ServerReads, mishaps
<1>5. ASSUME NEW r \in Requests, ServerGrants(r) PROVE Kept
  <2>1. ~overlap /\ ~lost /\ fetch[r] = "read" /\ fetch' = [fetch EXCEPT ![r] = "granted"]
    BY <1>5 DEF ServerGrants, mishaps
  <2>2. \A q \in Requests : q # r => fetch'[q] = "none"
    BY <2>1
  <2>3. token'[r] # 0
    BY <1>5, RefreshBoundsAreNumbers DEF ServerGrants, Tokens
  <2> QED
    BY <2>1, <2>2, <2>3
<1>6. ASSUME NEW r \in Requests, Refreshed(r) \/ Denied(r) PROVE Kept
  BY <1>6 DEF Refreshed, Denied, EndCall, Answer
<1>7. ASSUME NEW rs \in SUBSET Requests, Withdraw(rs), overlap' = overlap PROVE Kept
  <2>1. ~overlap /\ ~lost /\ \A r \in rs : fetch[r] # "granted"
    BY <1>7 DEF Withdraw
  <2>2. cookie' = cookie /\ \A r \in Requests : /\ r \in rs => fetch'[r] = "none"
                                                /\ r \notin rs => fetch'[r] = fetch[r] /\ token'[r] = token[r]
    BY <1>7 DEF Withdraw
  <2> QED
    BY <2>1, <2>2
<1>8. ASSUME NEW r \in Requests, RefreshFails(r) PROVE Kept
  BY <1>7, <1>8 DEF RefreshFails, EndCall
<1>9. ASSUME NEW t \in Tabs, Relogin(t) \/ Crash(t) PROVE Kept
  BY <1>7, <1>9 DEF Relogin, Crash, Forget, Here
<1>10. CASE SignGetsOld
  BY <1>1, <1>10 DEF SignGetsOld, account, mishaps
<1>11. CASE UNCHANGED refreshVars
  BY <1>1, <1>11 DEF refreshVars, account, mishaps
<1>12. ASSUME NEW n \in orphans, OrphanGranted(n) PROVE FALSE
  BY <1>12 DEF OrphanGranted
<1> QED
  BY <1>2, <1>3, <1>4, <1>5, <1>6, <1>8, <1>9, <1>10, <1>11, <1>12 DEF RefreshNext

\* The server turns a refresh down only when two refreshes were in flight at
\* once, or the answer of a granted one never reached the browser, with any
\* number of pages, requests, streams and timers, although pages die with a
\* refresh that the server grants later.
THEOREM SessionKept == RefreshSafety => []DeniedOnlyAfterOverlap
<1>1. RefreshInit => CallInv /\ SessionInv
  BY DEF RefreshInit, CallInv, SessionInv
<1>2. SessionInv => DeniedOnlyAfterOverlap
  BY DEF SessionInv, DeniedOnlyAfterOverlap
<1> QED
  BY <1>1, <1>2, NextCall, NextSession, RefreshTypeCorrect, PTL DEF RefreshSafety

-----------------------------------------------------------------------------
(***************************************************************************)
(* Why NoCrossTabDeadlock holds: a request that waits for a new cookie has *)
(* the timer of its latest call, whoever holds the lock.                   *)
(***************************************************************************)
WaitingHasTimer == \A r \in Requests : pc[r] = "refreshing" => calls[r] \in timers[r]

\* A request that met a 401 has the timer of its latest call armed, which will
\* let it go, although timers of older calls fire and other pages release the
\* lock, take it, or die with it.
THEOREM WaitingIsTimed == RefreshSafety => []WaitingHasTimer
<1>1. RefreshInit => WaitingHasTimer
  BY DEF RefreshInit, WaitingHasTimer
<1>2. RefreshTypeOK /\ WaitingHasTimer /\ [RefreshNext]_refreshVars => WaitingHasTimer'
  <2> SUFFICES ASSUME RefreshTypeOK, WaitingHasTimer, [RefreshNext]_refreshVars PROVE WaitingHasTimer'
    OBVIOUS
  <2> USE DEF RefreshTypeOK, WaitingHasTimer
  \* A step that arms and fires no timer, and sends no request into waiting.
  <2>1. ASSUME UNCHANGED <<calls, timers>>,
               \A r \in Requests : pc'[r] = "refreshing" => pc[r] = "refreshing"
        PROVE  WaitingHasTimer'
    BY <2>1
  <2>2. ASSUME NEW r \in Requests, NEW how \in {"resolved", "rejected"}, Settle(r, how)
        PROVE  \A q \in Requests : pc'[q] = "refreshing" => pc[q] = "refreshing" /\ q # r
    BY <2>2 DEF Settle, AfterRefresh
  <2>3. ASSUME NEW r \in Requests,
               Answered(r) \/ Acquire(r) \/ Poll(r) \/ ServerReads(r) \/ ServerGrants(r)
        PROVE  WaitingHasTimer'
    BY <2>1, <2>3 DEF Answered, Acquire, Poll, ServerReads, ServerGrants, page
  <2>4. ASSUME NEW r \in Requests, Refused(r) PROVE WaitingHasTimer'
    BY <2>4 DEF Refused
  <2>5. ASSUME NEW r \in Requests, WakeUp(r) PROVE WaitingHasTimer'
    BY <2>1, <2>2, <2>5 DEF WakeUp
  <2>6. ASSUME NEW r \in Requests, Refreshed(r) \/ Denied(r) \/ RefreshFails(r) PROVE WaitingHasTimer'
    BY <2>1, <2>2, <2>6 DEF Refreshed, Denied, RefreshFails, EndCall
  <2>7. ASSUME NEW r \in Requests, NEW n \in 1..MaxCalls, TimerFires(r, n) PROVE WaitingHasTimer'
    <3>1. UNCHANGED calls /\ timers' = [timers EXCEPT ![r] = @ \ {n}]
      BY <2>7 DEF TimerFires
    <3>2. CASE n = calls[r]
      <4>1. Settle(r, "rejected")
        BY <2>7, <3>2 DEF TimerFires
      <4> QED
        BY <2>2, <3>1, <4>1
    <3>3. CASE n # calls[r]
      <4>1. UNCHANGED pc
        BY <2>7, <3>3 DEF TimerFires
      <4> QED
        BY <3>1, <3>3, <4>1
    <3> QED
      BY <3>2, <3>3
  <2>8. ASSUME NEW t \in Tabs, Relogin(t) \/ Crash(t) PROVE WaitingHasTimer'
    BY <2>8 DEF Relogin, Crash, Forget
  <2>9. CASE SignGetsOld \/ UNCHANGED refreshVars \/ \E n \in orphans : OrphanGranted(n)
    BY <2>1, <2>9 DEF SignGetsOld, OrphanGranted, refreshVars, page
  <2> QED
    BY <2>3, <2>4, <2>5, <2>6, <2>7, <2>8, <2>9 DEF RefreshNext
<1> QED
  BY <1>1, <1>2, RefreshTypeCorrect, PTL DEF RefreshSafety
=============================================================================
