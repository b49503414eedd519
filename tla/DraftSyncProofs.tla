--------------------------- MODULE DraftSyncProofs ---------------------------
(***************************************************************************)
(* Proofs about DraftSync, for any pages, edits and bounds.                *)
(***************************************************************************)
EXTENDS DraftSync, SequenceTheorems, TLAPS

\* What is left of a sequence without one of its elements.
LEMMA Removing ==
  ASSUME NEW S, NEW s \in Seq(S), NEW i \in DOMAIN s
  PROVE  RemoveAt(s, i) \in Seq(S)
<1>1. Len(s) \in Nat /\ i \in 1..Len(s)
  BY LenProperties
<1>2. /\ 1 \in 1..Len(s) + 1 /\ i - 1 \in 0..Len(s)
      /\ i + 1 \in 1..Len(s) + 1 /\ Len(s) \in 0..Len(s)
  BY <1>1
<1>3. SubSeq(s, 1, i - 1) \in Seq(S) /\ SubSeq(s, i + 1, Len(s)) \in Seq(S)
  BY <1>2, SubSeqProperties
<1> QED
  BY <1>3, ConcatProperties DEF RemoveAt

LEMMA InitTyped == Init => TypeOK
<1> SUFFICES ASSUME Init PROVE TypeOK
  OBVIOUS
<1>1. NoSave \in Saves
  BY DEF NoSave, Saves, Stages, Contents
<1>2. save \in [Tabs -> Saves] /\ beacon \in [Tabs -> Saves]
  BY <1>1 DEF Init
<1>3. queue \in [Tabs -> Seq(BOOLEAN)] /\ refreshes \in [Tabs -> Seq(Refreshes)]
  <2>1. <<>> \in Seq(BOOLEAN) /\ <<>> \in Seq(Refreshes)
    BY EmptySeq
  <2> QED
    BY <2>1 DEF Init
<1>4. trips \in 0..MaxTrips /\ faults \in 0..MaxFaults
  BY BoundsAreNumbers DEF Init
<1>5. /\ shown \in [Tabs -> {"visible", "hidden", "left"}]
      /\ canvas \in [Tabs -> Contents] /\ hash \in [Tabs -> Contents]
      /\ loaded \in [Tabs -> BOOLEAN] /\ debounced \in [Tabs -> BOOLEAN]
      /\ excuse \in [Tabs -> SUBSET Excuses]
  BY DEF Init, Contents
<1>6. /\ draft \in Contents /\ made \in Contents /\ dropped \in Contents /\ lost \in Contents
      /\ writers \subseteq Tabs
  BY DEF Init, Contents
<1> QED
  BY <1>2, <1>3, <1>4, <1>5, <1>6 DEF TypeOK

\* A function with one of its values replaced.
LEMMA Updated ==
  ASSUME NEW S, NEW f \in [Tabs -> S], NEW t \in Tabs, NEW v \in S
  PROVE  [f EXCEPT ![t] = v] \in [Tabs -> S]
OBVIOUS

\* The two changes of a refresh that is under way.
LEMMA Sending ==
  ASSUME NEW r \in Refreshes, NEW w \in BOOLEAN
  PROVE  [r EXCEPT !.stage = "sent", !.was = w] \in Refreshes
<1>1. r.keep \in BOOLEAN /\ r.got \in Contents
  BY DEF Refreshes
<1> QED
  BY <1>1 DEF Refreshes

LEMMA Reading ==
  ASSUME NEW r \in Refreshes, NEW c \in Contents
  PROVE  [r EXCEPT !.stage = "read", !.got = c] \in Refreshes
<1>1. r.keep \in BOOLEAN /\ r.was \in BOOLEAN
  BY DEF Refreshes
<1> QED
  BY <1>1 DEF Refreshes

Doubts == SUBSET Excuses

LEMMA NextTyped == TypeOK /\ [Next]_vars => TypeOK'
<1> SUFFICES ASSUME TypeOK, [Next]_vars PROVE TypeOK'
  OBVIOUS
<1>0. NoSave \in Saves
  BY DEF NoSave, Saves, Stages, Contents
<1>20. ASSUME NEW t \in Tabs
      PROVE  /\ canvas[t] \in Contents /\ hash[t] \in Contents /\ queue[t] \in Seq(BOOLEAN)
             /\ save[t] \in Saves /\ beacon[t] \in Saves /\ refreshes[t] \in Seq(Refreshes)
             /\ excuse[t] \in Doubts /\ loaded[t] \in BOOLEAN
  BY DEF TypeOK, Doubts
<1>21. /\ canvas \in [Tabs -> Contents] /\ queue \in [Tabs -> Seq(BOOLEAN)]
      /\ save \in [Tabs -> Saves] /\ beacon \in [Tabs -> Saves] /\ refreshes \in [Tabs -> Seq(Refreshes)]
      /\ excuse \in [Tabs -> Doubts] /\ hash \in [Tabs -> Contents]
      /\ loaded \in [Tabs -> BOOLEAN] /\ debounced \in [Tabs -> BOOLEAN]
  BY DEF TypeOK, Doubts
<1>22. ASSUME NEW t \in Tabs PROVE dropped \union Unsaved(t) \in Contents
  BY <1>20 DEF Unsaved, TypeOK, Contents
<1>23. ASSUME NEW t \in Tabs, NEW x \in Excuses
      PROVE  [excuse EXCEPT ![t] = @ \union {x}] \in [Tabs -> Doubts]
  <2>1. excuse[t] \union {x} \in Doubts
    BY <1>20 DEF Doubts
  <2> QED
    BY <1>21, <2>1, Updated
<1>1. ASSUME NEW t \in Tabs, NEW e \in Edits, Edit(t, e) PROVE TypeOK'
  <2>1. canvas' \in [Tabs -> Contents] /\ made' \in Contents
    BY <1>1 DEF Edit, TypeOK, Contents
  <2>2. queue' \in [Tabs -> Seq(BOOLEAN)] /\ debounced' \in [Tabs -> BOOLEAN]
    <3>1. ASSUME NEW quiet \in BOOLEAN
          PROVE  [queue EXCEPT ![t] = Append(@, quiet)] \in [Tabs -> Seq(BOOLEAN)]
      <4>1. Append(queue[t], quiet) \in Seq(BOOLEAN)
        BY <1>20, AppendProperties
      <4> QED
        BY <1>21, <4>1, Updated
    <3>2. \/ queue' = queue
          \/ \E quiet \in BOOLEAN : queue' = [queue EXCEPT ![t] = Append(@, quiet)]
      BY <1>1 DEF Edit
    <3>3. debounced' = debounced \/ debounced' = [debounced EXCEPT ![t] = TRUE]
      BY <1>1 DEF Edit
    <3> QED
      BY <1>21, <3>1, <3>2, <3>3
  <2> QED
    BY <1>1, <2>1, <2>2 DEF Edit, TypeOK, net, bounds
<1>2. ASSUME NEW t \in Tabs, DebounceFires(t) PROVE TypeOK'
  <2>1. queue' \in [Tabs -> Seq(BOOLEAN)] /\ debounced' \in [Tabs -> BOOLEAN]
    BY <1>2 DEF DebounceFires, TypeOK
  <2> QED
    BY <1>2, <2>1 DEF DebounceFires, TypeOK, net, bounds, ghosts
<1>3. ASSUME NEW t \in Tabs, PerformSync(t) PROVE TypeOK'
  <2>1. queue[t] \in Seq(BOOLEAN) /\ queue[t] # <<>>
    BY <1>3 DEF PerformSync, MaySync, TypeOK
  <2>2. Head(queue[t]) \in BOOLEAN /\ Tail(queue[t]) \in Seq(BOOLEAN)
    BY <2>1, HeadTailProperties
  <2>3. queue' \in [Tabs -> Seq(BOOLEAN)]
    BY <1>3, <2>2 DEF PerformSync, TypeOK
  <2>4. Message(t, Head(queue[t])) \in Saves
    BY <1>20, <2>2 DEF Message, Saves, Stages, Contents
  <2>5. save' \in [Tabs -> Saves]
    BY <1>3, <2>4 DEF PerformSync, TypeOK
  <2>6. dropped' \in Contents
    BY <1>3, <1>22 DEF PerformSync, TypeOK
  <2>7. excuse' \in [Tabs -> Doubts]
    BY <1>3, <1>20, <1>21, <1>23, Updated DEF PerformSync, Excuses
  <2>8. UNCHANGED <<shown, canvas, hash, loaded, debounced, beacon, refreshes, draft, bounds, made, lost,
                    writers>>
    BY <1>3 DEF PerformSync
  <2> QED
    BY <2>3, <2>5, <2>6, <2>7, <2>8 DEF TypeOK, Doubts, bounds
<1>4. ASSUME NEW t \in Tabs, ServerChecks(t) PROVE TypeOK'
  <2>1. ASSUME NEW m \in Saves PROVE Checked(m) \in Saves
    BY DEF Checked, Saves, Stages, TypeOK
  <2>2. save' \in [Tabs -> Saves]
    BY <1>4, <1>20, <1>21, <2>1, Updated DEF ServerChecks
  <2>3. beacon' \in [Tabs -> Saves]
    <3>1. Checked(beacon[t]) \in Saves
      BY <1>20, <2>1
    <3>2. /\ [beacon EXCEPT ![t] = Checked(@)] \in [Tabs -> Saves]
          /\ [beacon EXCEPT ![t] = NoSave] \in [Tabs -> Saves]
      BY <1>0, <1>21, <3>1, Updated
    <3>3. \/ beacon' = beacon
          \/ beacon' = [beacon EXCEPT ![t] = Checked(@)]
          \/ beacon' = [beacon EXCEPT ![t] = NoSave]
      BY <1>4 DEF ServerChecks
    <3> QED
      BY <1>21, <3>2, <3>3
  <2> QED
    BY <1>4, <2>2, <2>3 DEF ServerChecks, TypeOK, page, bounds, ghosts
<1>5. ASSUME NEW t \in Tabs, ServerCommits(t) PROVE TypeOK'
  <2>1. save[t] \in Saves /\ beacon[t] \in Saves
    BY DEF TypeOK
  <2>2. save' \in [Tabs -> Saves] /\ beacon' \in [Tabs -> Saves]
    <3>1. [save[t] EXCEPT !.stage = "committed", !.base = {}] \in Saves
      BY <2>1 DEF Saves, Stages, Contents
    <3>2. [save EXCEPT ![t] = [@ EXCEPT !.stage = "committed", !.base = {}]] \in [Tabs -> Saves]
      BY <1>21, <3>1, Updated
    <3>3. [beacon EXCEPT ![t] = NoSave] \in [Tabs -> Saves]
      BY <1>0, <1>21, Updated
    <3> QED
      BY <1>5, <1>21, <3>2, <3>3 DEF ServerCommits
  <2>3. draft' \in Contents /\ lost' \in Contents
    BY <1>5, <2>1 DEF ServerCommits, Committed, Column, TypeOK, Saves, Contents
  <2>4. writers' \subseteq Tabs
    BY <1>5 DEF ServerCommits, TypeOK
  <2> QED
    BY <1>5, <2>2, <2>3, <2>4 DEF ServerCommits, TypeOK, page, bounds
<1>26. ASSUME NEW t \in Tabs, ServerAnswers(t) PROVE TypeOK'
  <2>1. [save[t] EXCEPT !.stage = "saved", !.hash = Hash(draft)] \in Saves
    BY <1>20 DEF Saves, Stages, Hash, TypeOK, Contents
  <2>2. save' \in [Tabs -> Saves]
    BY <1>26, <1>21, <2>1, Updated DEF ServerAnswers
  <2>3. excuse' \in [Tabs -> Doubts]
    BY <1>26, <1>20, <1>21, <1>23, Updated DEF ServerAnswers, Excuses
  <2> QED
    BY <1>26, <2>2, <2>3 DEF ServerAnswers, TypeOK, page, bounds, Doubts
<1>6. ASSUME NEW t \in Tabs, SaveAnswered(t) PROVE TypeOK'
  <2>1. hash' \in [Tabs -> Contents]
    <3>1. save[t].hash \in Contents
      BY <1>20 DEF Saves
    <3> QED
      BY <1>6, <1>21, <3>1, Updated DEF SaveAnswered
  <2>2. save' \in [Tabs -> Saves]
    BY <1>0, <1>6, <1>21, Updated DEF SaveAnswered
  <2> QED
    BY <1>6, <2>1, <2>2 DEF SaveAnswered, TypeOK, bounds, ghosts
<1>7. ASSUME NEW t \in Tabs, SaveRefused(t) PROVE TypeOK'
  <2>1. Wanted(TRUE) \in Refreshes
    BY DEF Wanted, Refreshes, Contents
  <2>2. refreshes' \in [Tabs -> Seq(Refreshes)]
    <3>1. Append(refreshes[t], Wanted(TRUE)) \in Seq(Refreshes)
      BY <1>20, <2>1, AppendProperties
    <3> QED
      BY <1>7, <1>21, <3>1, Updated, ZenonT(30) DEF SaveRefused
  <2>3. save' \in [Tabs -> Saves] /\ dropped' \in Contents
    BY <1>0, <1>7, <1>21, <1>22, Updated DEF SaveRefused
  <2>4. UNCHANGED <<page, beacon, draft, bounds, made, lost, excuse, writers>>
    BY <1>7 DEF SaveRefused
  <2> QED
    BY <2>2, <2>3, <2>4 DEF TypeOK, page, bounds
<1>8. ASSUME NEW t \in Tabs, SaveFails(t) PROVE TypeOK'
  <2>3. beacon' \in [Tabs -> Saves]
    <3>1. [beacon EXCEPT ![t] = save[t]] \in [Tabs -> Saves]
      BY <1>20, <1>21, Updated
    <3> QED
      BY <1>8, <1>21, <3>1 DEF SaveFails
  <2>1. save' \in [Tabs -> Saves] /\ dropped' \in Contents /\ excuse' \in [Tabs -> Doubts]
    BY <1>0, <1>8, <1>21, <1>22, <1>23, Updated DEF SaveFails, Excuses
  <2>2. faults' \in 0..MaxFaults
    BY <1>8, BoundsAreNumbers DEF SaveFails, TypeOK
  <2> QED
    BY <1>8, <2>1, <2>2, <2>3 DEF SaveFails, TypeOK, page, Doubts
<1>9. ASSUME NEW t \in Tabs, NEW i \in DOMAIN refreshes[t] PROVE refreshes[t][i] \in Refreshes
  BY <1>20, LenProperties, ElementOfSeq
<1>24. ASSUME NEW t \in Tabs, NEW i \in DOMAIN refreshes[t], NEW r \in Refreshes
      PROVE  [refreshes EXCEPT ![t][i] = r] \in [Tabs -> Seq(Refreshes)]
  <2>1. [refreshes[t] EXCEPT ![i] = r] \in Seq(Refreshes)
    BY <1>20, LenProperties, ExceptSeq
  <2> QED
    BY <1>21, <2>1, Updated
<1>25. ASSUME NEW t \in Tabs, NEW i \in DOMAIN refreshes[t]
      PROVE  [refreshes EXCEPT ![t] = RemoveAt(@, i)] \in [Tabs -> Seq(Refreshes)]
  BY <1>20, <1>21, Removing, Updated
<1>10. ASSUME NEW t \in Tabs, NEW i \in DOMAIN refreshes[t], RefreshStarts(t, i) PROVE TypeOK'
  <2> DEFINE r == [refreshes[t][i] EXCEPT !.stage = "sent", !.was = loaded[t]]
  <2>1. r \in Refreshes
    BY <1>9, <1>20, Sending
  <2>2. refreshes' \in [Tabs -> Seq(Refreshes)]
    BY <1>10, <1>24, <2>1 DEF RefreshStarts
  <2>3. debounced' \in [Tabs -> BOOLEAN] /\ loaded' \in [Tabs -> BOOLEAN]
    BY <1>10, <1>21 DEF RefreshStarts
  <2>4. dropped' \in Contents
    BY <1>10, <1>22 DEF RefreshStarts, TypeOK
  <2>5. excuse' \in [Tabs -> Doubts]
    BY <1>10, <1>20, <1>21, <1>23, Updated DEF RefreshStarts, Excuses
  <2> QED
    BY <1>10, <2>2, <2>3, <2>4, <2>5 DEF RefreshStarts, TypeOK, bounds, Doubts
<1>11. ASSUME NEW t \in Tabs, NEW i \in DOMAIN refreshes[t], ServerReads(t, i) PROVE TypeOK'
  <2> DEFINE r == [refreshes[t][i] EXCEPT !.stage = "read", !.got = draft]
  <2>1. r \in Refreshes
    BY <1>9, Reading DEF TypeOK
  <2>2. refreshes' \in [Tabs -> Seq(Refreshes)]
    BY <1>11, <1>24, <2>1 DEF ServerReads
  <2> QED
    BY <1>11, <2>2 DEF ServerReads, TypeOK, page, bounds, ghosts
<1>12. ASSUME NEW t \in Tabs, NEW i \in DOMAIN refreshes[t], RefreshAnswered(t, i) PROVE TypeOK'
  <2>1. refreshes[t][i].got \in Contents
    BY <1>9 DEF Refreshes
  <2>2. refreshes' \in [Tabs -> Seq(Refreshes)]
    BY <1>12, <1>25 DEF RefreshAnswered
  <2>3. CanvasAfter(t, refreshes[t][i]) \in Contents
    BY <1>20, <2>1 DEF CanvasAfter, Contents
  <2>4. canvas' \in [Tabs -> Contents] /\ hash' \in [Tabs -> Contents]
    <3>1. Hash(refreshes[t][i].got) \in Contents
      BY <2>1 DEF Hash, Contents
    <3> QED
      BY <1>12, <1>21, <2>3, <3>1, Updated DEF RefreshAnswered
  <2>5. loaded' \in [Tabs -> BOOLEAN]
    BY <1>12, <1>21 DEF RefreshAnswered
  <2>6. dropped' \in Contents
    BY <1>12, <1>22 DEF RefreshAnswered, TypeOK, Contents
  <2>7. excuse' \in [Tabs -> Doubts]
    BY <1>12, <1>20, <1>21, <1>23, Updated DEF RefreshAnswered, Excuses
  <2>8. UNCHANGED <<shown, debounced, queue, save, beacon, draft, bounds, made, lost, writers>>
    BY <1>12 DEF RefreshAnswered
  <2> QED
    BY <2>2, <2>4, <2>5, <2>6, <2>7, <2>8 DEF TypeOK, bounds, Doubts
<1>13. ASSUME NEW t \in Tabs, NEW i \in DOMAIN refreshes[t], RefreshFails(t, i) PROVE TypeOK'
  <2>1. LoadedAfterFailure(t, refreshes[t][i]) \in BOOLEAN
    BY <1>20, <1>9 DEF LoadedAfterFailure, Refreshes
  <2>2. refreshes' \in [Tabs -> Seq(Refreshes)] /\ loaded' \in [Tabs -> BOOLEAN]
    BY <1>13, <1>21, <1>25, <2>1, Updated DEF RefreshFails
  <2>3. faults' \in 0..MaxFaults
    BY <1>13, BoundsAreNumbers DEF RefreshFails, TypeOK
  <2> QED
    BY <1>13, <2>2, <2>3 DEF RefreshFails, TypeOK, ghosts
<1>14. ASSUME NEW t \in Tabs, Hide(t) PROVE TypeOK'
  <2>1. Message(t, TRUE) \in Saves
    BY <1>20 DEF Message, Saves, Stages, Contents
  <2>2. beacon' \in [Tabs -> Saves] /\ excuse' \in [Tabs -> Doubts]
    <3> DEFINE b == Message(t, TRUE)
    <3>1. [beacon EXCEPT ![t] = b] \in [Tabs -> Saves]
      BY <1>21, <2>1, Updated
    <3>2. [excuse EXCEPT ![t] = @ \union {"unanswered"}] \in [Tabs -> Doubts]
      BY <1>23 DEF Excuses
    <3>3. \/ beacon' = beacon /\ excuse' = excuse
          \/ /\ beacon' = [beacon EXCEPT ![t] = b]
             /\ excuse' = [excuse EXCEPT ![t] = @ \union {"unanswered"}]
      BY <1>14 DEF Hide
    <3> QED
      BY <1>21, <3>1, <3>2, <3>3
  <2>3. trips' \in 0..MaxTrips
    BY <1>14, BoundsAreNumbers DEF Hide, TypeOK
  <2>4. shown' \in [Tabs -> {"visible", "hidden", "left"}]
    BY <1>14 DEF Hide, TypeOK
  <2>5. UNCHANGED <<canvas, hash, loaded, debounced, queue, save, refreshes, draft, faults, made, dropped,
                    lost, writers>>
    BY <1>14 DEF Hide
  <2> QED
    BY <2>2, <2>3, <2>4, <2>5 DEF TypeOK, Doubts
<1>15. ASSUME NEW t \in Tabs, Show(t) PROVE TypeOK'
  <2>1. Wanted(FALSE) \in Refreshes
    BY DEF Wanted, Refreshes, Contents
  <2>2. refreshes' \in [Tabs -> Seq(Refreshes)]
    <3>1. Append(refreshes[t], Wanted(FALSE)) \in Seq(Refreshes)
      BY <1>20, <2>1, AppendProperties
    <3> QED
      BY <1>15, <1>21, <3>1, Updated DEF Show
  <2>3. shown' \in [Tabs -> {"visible", "hidden", "left"}]
    BY <1>15 DEF Show, TypeOK
  <2> QED
    BY <1>15, <2>2, <2>3 DEF Show, TypeOK, bounds, ghosts
<1>16. ASSUME NEW t \in Tabs, Leave(t) PROVE TypeOK'
  <2>1. Append(queue[t], TRUE) \in Seq(BOOLEAN)
    BY <1>20, AppendProperties
  <2>2. queue' \in [Tabs -> Seq(BOOLEAN)]
    BY <1>16, <1>21, <2>1, Updated DEF Leave
  <2>3. loaded' \in [Tabs -> BOOLEAN] /\ debounced' \in [Tabs -> BOOLEAN]
    BY <1>16, <1>21 DEF Leave
  <2>4. shown' \in [Tabs -> {"visible", "hidden", "left"}]
    BY <1>16 DEF Leave, TypeOK
  <2>5. trips' \in 0..MaxTrips
    BY <1>16, BoundsAreNumbers DEF Leave, TypeOK
  <2> QED
    BY <1>16, <2>2, <2>3, <2>4, <2>5 DEF Leave, TypeOK, net, ghosts
<1>17. CASE UNCHANGED vars
  BY <1>17 DEF vars, page, net, bounds, ghosts, TypeOK
<1> QED
  BY <1>1, <1>2, <1>3, <1>4, <1>5, <1>6, <1>7, <1>8, <1>10, <1>11, <1>12, <1>13, <1>14, <1>15, <1>16,
     <1>17, <1>26 DEF Next

\* Every variable of a page keeps its type, whatever the pages, their edits and
\* the bounds.
THEOREM TypeCorrect == Spec => []TypeOK
<1> QED
  BY InitTyped, NextTyped, PTL DEF Spec, Safety

(***************************************************************************)
(* What a page whose hash is beyond doubt knows: the content of its hash   *)
(* is on its canvas, so that a save it sends only adds to it, and no       *)
(* refresh is asked for while a save is under way.                         *)
(***************************************************************************)
Waiting(t) == \A i \in DOMAIN refreshes[t] : refreshes[t][i].stage = "wanted"

Known(t) ==
  excuse[t] \cap {"kept", "overtaken", "crossed"} = {} =>
    /\ hash[t] \subseteq canvas[t]
    /\ save[t].stage # "none" =>
         /\ save[t].hash \subseteq save[t].body
         /\ save[t].body \subseteq canvas[t]
         /\ Waiting(t)
    /\ beacon[t].hash \subseteq beacon[t].body

KnownInv == \A t \in Tabs : Known(t)

LEMMA InitKnown == Init => KnownInv
BY DEF Init, KnownInv, Known, Waiting, NoSave

\* One more wanted refresh leaves all of them wanted.
LEMMA OneMoreWanted ==
  ASSUME NEW s \in Seq(Refreshes), NEW k, \A i \in DOMAIN s : s[i].stage = "wanted"
  PROVE  \A i \in DOMAIN Append(s, Wanted(k)) : Append(s, Wanted(k))[i].stage = "wanted"
<1>1. /\ Len(s) \in Nat /\ DOMAIN s = 1..Len(s)
  BY LenProperties
<1>2. Wanted(k).stage = "wanted"
  BY DEF Wanted
<1>3. ASSUME NEW i \in DOMAIN Append(s, Wanted(k)) PROVE Append(s, Wanted(k))[i].stage = "wanted"
  <2>1. /\ i \in 1..Len(s) + 1
        /\ i = Len(s) + 1 => Append(s, Wanted(k))[i] = Wanted(k)
        /\ i \in 1..Len(s) => Append(s, Wanted(k))[i] = s[i]
    BY <1>1
  <2> QED
    BY <1>1, <1>2, <2>1
<1> QED
  BY <1>3

LEMMA NextKnown == TypeOK /\ KnownInv /\ [Next]_vars => KnownInv'
<1> SUFFICES ASSUME TypeOK, KnownInv, [Next]_vars, NEW u \in Tabs PROVE Known(u)'
  BY DEF KnownInv
<1>0. Known(u)
  BY DEF KnownInv
<1>a. /\ canvas \in [Tabs -> Contents] /\ hash \in [Tabs -> Contents]
      /\ save \in [Tabs -> Saves] /\ beacon \in [Tabs -> Saves]
      /\ excuse \in [Tabs -> SUBSET Excuses]
      /\ refreshes \in [Tabs -> Seq(Refreshes)]
  BY DEF TypeOK
<1>b. ASSUME NEW t \in Tabs PROVE refreshes[t] \in Seq(Refreshes)
  BY <1>a
<1>1. ASSUME NEW t \in Tabs, NEW e \in Edits, Edit(t, e) PROVE Known(u)'
  BY <1>0, <1>1, <1>a DEF Edit, Known, Waiting, net
<1>2. ASSUME NEW t \in Tabs, DebounceFires(t) PROVE Known(u)'
  BY <1>0, <1>2 DEF DebounceFires, Known, Waiting, net, ghosts
<1>3. ASSUME NEW t \in Tabs, PerformSync(t) PROVE Known(u)'
  <2>1. /\ UNCHANGED <<canvas, hash, beacon, refreshes>>
        /\ save[t].stage = "none"
        /\ save' = save \/ save' = [save EXCEPT ![t] = Message(t, Head(queue[t]))]
        /\ excuse' = [excuse EXCEPT ![t] = IF Overlaps(t) THEN @ \union {"crossed"} ELSE @]
    BY <1>3 DEF PerformSync, MaySync
  <2>2. CASE u # t
    <3>1. save'[u] = save[u] /\ excuse'[u] = excuse[u]
      BY <2>1, <2>2, <1>a
    <3> QED
      BY <1>0, <2>1, <3>1 DEF Known, Waiting
  <2>3. CASE u = t
    <3>1. save'[t] = save[t] \/ (save'[t].hash = hash[t] /\ save'[t].body = canvas[t])
      BY <2>1, <1>a DEF Message
    <3>2. excuse[t] \subseteq excuse'[t] /\ (Overlaps(t) => "crossed" \in excuse'[t])
      BY <2>1, <1>a
    <3>3. save'[t].stage # "none" /\ ~Overlaps(t) => Waiting(t)'
      BY <2>1 DEF Overlaps, Waiting
    <3> QED
      BY <1>0, <2>1, <2>3, <3>1, <3>2, <3>3 DEF Known
  <2> QED
    BY <2>2, <2>3
<1>4. ASSUME NEW t \in Tabs, ServerChecks(t) PROVE Known(u)'
  <2>1. UNCHANGED <<canvas, hash, refreshes, excuse>>
    BY <1>4 DEF ServerChecks, page, ghosts
  <2>2. /\ save'[u].hash = save[u].hash /\ save'[u].body = save[u].body
        /\ save'[u].stage # "none" => save[u].stage # "none"
    <3>1. CASE save' = save
      BY <3>1
    <3>2. CASE save' = [save EXCEPT ![t] = Checked(@)] /\ save[t].stage = "sent"
      <4>1. save[t] \in Saves
        BY <1>a
      <4>2. /\ Checked(save[t]).hash = save[t].hash /\ Checked(save[t]).body = save[t].body
        BY <4>1 DEF Checked, Saves
      <4> QED
        BY <3>2, <4>2, <1>a
    <3> QED
      BY <1>4, <3>1, <3>2 DEF ServerChecks
  <2>3. \/ beacon'[u].hash = beacon[u].hash /\ beacon'[u].body = beacon[u].body
        \/ beacon'[u].hash = {}
    <3>1. beacon[t] \in Saves
      BY <1>a
    <3>2. /\ Checked(beacon[t]).hash = beacon[t].hash /\ Checked(beacon[t]).body = beacon[t].body
      BY <3>1 DEF Checked, Saves
    <3>3. NoSave.hash = {}
      BY DEF NoSave
    <3>4. \/ beacon' = beacon
          \/ beacon' = [beacon EXCEPT ![t] = Checked(@)]
          \/ beacon' = [beacon EXCEPT ![t] = NoSave]
      BY <1>4 DEF ServerChecks
    <3> QED
      BY <3>2, <3>3, <3>4, <1>a
  <2> QED
    BY <1>0, <2>1, <2>2, <2>3 DEF Known, Waiting
<1>5. ASSUME NEW t \in Tabs, ServerCommits(t) PROVE Known(u)'
  <2>1. UNCHANGED <<canvas, hash, refreshes, excuse>>
    BY <1>5 DEF ServerCommits, page
  <2>2. /\ save'[u].hash = save[u].hash /\ save'[u].body = save[u].body
        /\ save'[u].stage # "none" => save[u].stage # "none"
    <3>1. CASE save' = save
      BY <3>1
    <3>2. CASE /\ save' = [save EXCEPT ![t] = [@ EXCEPT !.stage = "committed", !.base = {}]]
               /\ save[t].stage = "passed"
      <4> DEFINE m == [save[t] EXCEPT !.stage = "committed", !.base = {}]
      <4>1. save[t] \in Saves
        BY <1>a
      <4>2. m.hash = save[t].hash /\ m.body = save[t].body
        BY <4>1 DEF Saves
      <4>3. save' = [save EXCEPT ![t] = m]
        BY <3>2
      <4> HIDE DEF m
      <4> QED
        BY <3>2, <4>2, <4>3, <1>a
    <3> QED
      BY <1>5, <3>1, <3>2 DEF ServerCommits, Committed
  <2>3. \/ beacon'[u].hash = beacon[u].hash /\ beacon'[u].body = beacon[u].body
        \/ beacon'[u].hash = {}
    <3>1. beacon' = beacon \/ beacon' = [beacon EXCEPT ![t] = NoSave]
      BY <1>5 DEF ServerCommits
    <3>2. NoSave.hash = {}
      BY DEF NoSave
    <3> QED
      BY <1>a, <3>1, <3>2
  <2> QED
    BY <1>0, <2>1, <2>2, <2>3 DEF Known, Waiting
<1>17. ASSUME NEW t \in Tabs, ServerAnswers(t) PROVE Known(u)'
  <2> DEFINE m == [save[t] EXCEPT !.stage = "saved", !.hash = Hash(draft)]
  <2>1. /\ UNCHANGED <<canvas, hash, beacon, refreshes>> /\ save[t].stage = "committed"
        /\ save' = [save EXCEPT ![t] = m]
        /\ excuse' = [excuse EXCEPT ![t] = IF Lacks(save[t].body, draft) THEN @ \union {"overtaken"} ELSE @]
    BY <1>17 DEF ServerAnswers, page
  <2>2. m.hash = Hash(draft) /\ m.body = save[t].body
    <3>1. save[t] \in Saves
      BY <1>a
    <3> QED
      BY <3>1 DEF Saves
  <2> HIDE DEF m
  <2>3. CASE u # t
    <3>1. save'[u] = save[u] /\ excuse'[u] = excuse[u]
      BY <2>1, <2>3, <1>a
    <3> QED
      BY <1>0, <2>1, <3>1 DEF Known, Waiting
  <2>4. CASE u = t
    <3>1. save'[u] = m /\ excuse[u] \subseteq excuse'[u]
      BY <2>1, <2>4, <1>a
    <3>2. "overtaken" \notin excuse'[u] => m.hash \subseteq m.body
      BY <2>1, <2>2, <2>4, <1>a DEF Lacks
    <3> QED
      BY <1>0, <2>1, <2>2, <2>4, <3>1, <3>2 DEF Known, Waiting
  <2> QED
    BY <2>3, <2>4
<1>6. ASSUME NEW t \in Tabs, SaveAnswered(t) PROVE Known(u)'
  BY <1>0, <1>6, <1>a DEF SaveAnswered, NoSave, Known, Waiting, ghosts
<1>7. ASSUME NEW t \in Tabs, SaveRefused(t) PROVE Known(u)'
  BY <1>0, <1>7, <1>a DEF SaveRefused, NoSave, Known, Waiting, page
<1>8. ASSUME NEW t \in Tabs, SaveFails(t) PROVE Known(u)'
  <2>1. /\ UNCHANGED <<canvas, hash, refreshes>> /\ save' = [save EXCEPT ![t] = NoSave]
        /\ excuse' = [excuse EXCEPT ![t] = @ \union {"unanswered"}]
        /\ \/ beacon' = beacon
           \/ save[t].stage # "none" /\ beacon' = [beacon EXCEPT ![t] = save[t]]
    BY <1>8 DEF SaveFails, page
  <2>2. /\ save'[u] = save[u] \/ save'[u] = NoSave
        /\ beacon'[u] = beacon[u] \/ (save[u].stage # "none" /\ beacon'[u] = save[u])
        /\ excuse[u] \subseteq excuse'[u]
    BY <2>1, <1>a
  <2>3. NoSave.stage = "none"
    BY DEF NoSave
  <2> QED
    BY <1>0, <2>1, <2>2, <2>3 DEF Known, Waiting
<1>9. ASSUME NEW t \in Tabs, NEW i \in DOMAIN refreshes[t], RefreshStarts(t, i) PROVE Known(u)'
  BY <1>0, <1>9, <1>a DEF RefreshStarts, Overlaps, Known, Waiting
<1>10. ASSUME NEW t \in Tabs, NEW i \in DOMAIN refreshes[t], ServerReads(t, i) PROVE Known(u)'
  BY <1>0, <1>10, <1>a DEF ServerReads, Known, Waiting, page, ghosts
<1>11. ASSUME NEW t \in Tabs, NEW i \in DOMAIN refreshes[t], RefreshAnswered(t, i) PROVE Known(u)'
  <2> DEFINE r == refreshes[t][i]
  <2>1. /\ UNCHANGED <<save, beacon>> /\ r.stage = "read"
        /\ refreshes' = [refreshes EXCEPT ![t] = RemoveAt(@, i)]
        /\ canvas' = [canvas EXCEPT ![t] = CanvasAfter(t, r)]
        /\ hash' = [hash EXCEPT ![t] = Hash(r.got)]
        /\ excuse' = [excuse EXCEPT ![t] = IF Lacks(canvas'[t], r.got) THEN @ \union {"kept"} ELSE @]
    BY <1>11 DEF RefreshAnswered
  <2>2. CASE u # t
    <3>1. /\ canvas'[u] = canvas[u] /\ hash'[u] = hash[u] /\ refreshes'[u] = refreshes[u]
          /\ excuse'[u] = excuse[u]
      BY <2>1, <2>2, <1>a
    <3> QED
      BY <1>0, <2>1, <3>1 DEF Known, Waiting
  <2>3. CASE u = t
    <3>1. hash'[u] = Hash(r.got) /\ excuse[u] \subseteq excuse'[u]
      BY <2>1, <2>3, <1>a
    <3>2. "kept" \notin excuse'[u] => hash'[u] \subseteq canvas'[u]
      BY <2>1, <2>3, <3>1, <1>a DEF Lacks
    <3>3. ~Waiting(u)
      BY <2>1, <2>3 DEF Waiting
    <3> QED
      BY <1>0, <2>1, <3>1, <3>2, <3>3 DEF Known
  <2> QED
    BY <2>2, <2>3
<1>12. ASSUME NEW t \in Tabs, NEW i \in DOMAIN refreshes[t], RefreshFails(t, i) PROVE Known(u)'
  BY <1>0, <1>12, <1>a DEF RefreshFails, Known, Waiting, ghosts
<1>13. ASSUME NEW t \in Tabs, Hide(t) PROVE Known(u)'
  <2>1. UNCHANGED <<canvas, hash, save, refreshes>>
    BY <1>13 DEF Hide
  <2>2. \/ beacon'[u] = beacon[u]
        \/ u = t /\ beacon'[u].hash = hash[u] /\ beacon'[u].body = canvas[u]
    BY <1>13, <1>a DEF Hide, Message
  <2>3. excuse[u] \subseteq excuse'[u]
    BY <1>13, <1>a DEF Hide
  <2> QED
    BY <1>0, <2>1, <2>2, <2>3 DEF Known, Waiting
<1>14. ASSUME NEW t \in Tabs, Show(t) PROVE Known(u)'
  <2>1. UNCHANGED <<canvas, hash, save, beacon, excuse>>
    BY <1>14 DEF Show, ghosts
  <2>2. refreshes' = refreshes \/ refreshes' = [refreshes EXCEPT ![t] = Append(@, Wanted(FALSE))]
    BY <1>14 DEF Show
  <2>3. refreshes'[u] = refreshes[u] \/ refreshes'[u] = Append(refreshes[u], Wanted(FALSE))
    BY <2>2, <1>a
  <2>4. Waiting(u) => Waiting(u)'
    BY <2>3, <1>b, OneMoreWanted DEF Waiting
  <2> QED
    BY <1>0, <2>1, <2>4 DEF Known
<1>15. ASSUME NEW t \in Tabs, Leave(t) PROVE Known(u)'
  BY <1>0, <1>15 DEF Leave, Known, Waiting, net, ghosts
<1>16. CASE UNCHANGED vars
  BY <1>0, <1>16 DEF vars, page, net, ghosts, Known, Waiting
<1> QED
  BY <1>1, <1>2, <1>3, <1>4, <1>5, <1>6, <1>7, <1>8, <1>9, <1>10, <1>11, <1>12, <1>13, <1>14, <1>15,
     <1>16, <1>17 DEF Next

(***************************************************************************)
(* A message the server has let pass has the hash of the draft it was      *)
(* compared with, and what that draft held is on the server or was.        *)
(***************************************************************************)
Based(m) == m.stage = "passed" => m.hash = Hash(m.base) /\ m.base \subseteq draft \union lost

BasedInv == \A t \in Tabs : Based(save[t]) /\ Based(beacon[t])

LEMMA InitBased == Init => BasedInv
BY DEF Init, BasedInv, Based, NoSave

\* The columns of a draft after a commit: nothing the server had is forgotten by
\* the history, and the content of the message is there or was.
LEMMA Written ==
  ASSUME TypeOK, NEW m \in Saves, Committed(m), Based(m)
  PROVE  /\ draft \union lost \subseteq draft' \union lost'
         /\ m.body \subseteq draft' \union lost'
<1>1. /\ m.stage = "passed" /\ lost' = lost \union (draft \ draft')
      /\ draft' = Column(m, Graph) \union Column(m, Features) \union Column(m, Variables)
  BY DEF Committed
<1>2. draft \union lost \subseteq draft' \union lost'
  BY <1>1
<1>3. m.base \subseteq draft' \union lost'
  BY <1>1, <1>2 DEF Based
<1>4. ASSUME NEW e \in m.body PROVE e \in draft' \union lost'
  <2>1. e \in Graph \/ e \in Features \/ e \in Variables
    BY <1>4 DEF Saves, Contents, Graph
  <2>2. ASSUME NEW part \in {Graph, Features, Variables}, e \in part PROVE e \in draft' \union lost'
    <3>1. CASE m.body \cap part = m.base \cap part
      BY <1>3, <1>4, <2>2, <3>1
    <3>2. CASE m.body \cap part # m.base \cap part
      BY <1>1, <1>4, <2>2, <3>2 DEF Column
    <3> QED
      BY <3>1, <3>2
  <2> QED
    BY <2>1, <2>2
<1> QED
  BY <1>2, <1>4

LEMMA NextBased == TypeOK /\ BasedInv /\ [Next]_vars => BasedInv'
<1> SUFFICES ASSUME TypeOK, BasedInv, [Next]_vars, NEW u \in Tabs
             PROVE  Based(save[u])' /\ Based(beacon[u])'
  BY DEF BasedInv
<1>0. Based(save[u]) /\ Based(beacon[u])
  BY DEF BasedInv
<1>a. save \in [Tabs -> Saves] /\ beacon \in [Tabs -> Saves] /\ draft \in Contents
  BY DEF TypeOK
<1>n. NoSave.stage = "none"
  BY DEF NoSave
\* A message that is replaced by one that has not passed.
<1>b. ASSUME NEW m, draft \union lost \subseteq draft' \union lost',
             save'[u] = save[u] \/ save'[u].stage # "passed",
             beacon'[u] = beacon[u] \/ beacon'[u].stage # "passed"
      PROVE  Based(save[u])' /\ Based(beacon[u])'
  BY <1>0, <1>b DEF Based
<1>1. ASSUME NEW t \in Tabs,
             \/ \E e \in Edits : Edit(t, e)
             \/ DebounceFires(t) \/ Show(t) \/ Leave(t)
             \/ \E i \in DOMAIN refreshes[t] :
                  RefreshStarts(t, i) \/ ServerReads(t, i) \/ RefreshAnswered(t, i) \/ RefreshFails(t, i)
      PROVE  Based(save[u])' /\ Based(beacon[u])'
  <2>1. UNCHANGED <<save, beacon, draft, lost>>
    BY <1>1 DEF Edit, DebounceFires, Show, Leave, RefreshStarts, ServerReads, RefreshAnswered,
       RefreshFails, net, ghosts
  <2> QED
    BY <1>b, <2>1
<1>2. ASSUME NEW t \in Tabs, PerformSync(t) PROVE Based(save[u])' /\ Based(beacon[u])'
  <2>1. /\ UNCHANGED <<beacon, draft, lost>>
        /\ save' = save \/ save' = [save EXCEPT ![t] = Message(t, Head(queue[t]))]
    BY <1>2 DEF PerformSync
  <2>2. save'[u] = save[u] \/ save'[u].stage = "sent"
    BY <1>a, <2>1 DEF Message
  <2> QED
    BY <1>b, <2>1, <2>2
<1>3. ASSUME NEW t \in Tabs, ServerChecks(t) PROVE Based(save[u])' /\ Based(beacon[u])'
  <2>1. UNCHANGED <<draft, lost>>
    BY <1>3 DEF ServerChecks, ghosts
  <2>2. ASSUME NEW m \in Saves PROVE Based(Checked(m))
    <3>1. CASE m.hash = Hash(draft)
      <4>1. Checked(m) = [m EXCEPT !.stage = "passed", !.base = draft]
        BY <3>1 DEF Checked
      <4>2. Checked(m).hash = m.hash /\ Checked(m).base = draft
        BY <4>1 DEF Saves
      <4> QED
        BY <3>1, <4>2 DEF Based
    <3>2. CASE m.hash # Hash(draft)
      BY <3>2 DEF Checked, Saves, Based
    <3> QED
      BY <3>1, <3>2
  <2>3. ASSUME NEW m, Based(m) PROVE Based(m)'
    BY <2>1, <2>3 DEF Based
  <2>4. Based(Checked(save[u])) /\ Based(Checked(beacon[u])) /\ Based(NoSave)
    BY <1>a, <1>n, <2>2 DEF Based
  <2>5. save'[u] \in {save[u], Checked(save[u])}
    BY <1>3, <1>a DEF ServerChecks
  <2>6. beacon'[u] \in {beacon[u], Checked(beacon[u]), NoSave}
    BY <1>3, <1>a DEF ServerChecks
  <2>7. Based(save'[u]) /\ Based(beacon'[u])
    BY <1>0, <2>4, <2>5, <2>6
  <2> QED
    BY <2>1, <2>7 DEF Based
<1>4. ASSUME NEW t \in Tabs, ServerCommits(t) PROVE Based(save[u])' /\ Based(beacon[u])'
  <2>1. save[t] \in Saves /\ beacon[t] \in Saves /\ Based(save[t]) /\ Based(beacon[t])
    BY <1>a DEF BasedInv
  <2>2. draft \union lost \subseteq draft' \union lost'
    BY <1>4, <2>1, Written DEF ServerCommits
  <2>3. [save[t] EXCEPT !.stage = "committed", !.base = {}].stage = "committed"
    BY <2>1 DEF Saves
  <2>4. save'[u] = save[u] \/ save'[u].stage # "passed"
    BY <1>4, <1>a, <2>3 DEF ServerCommits
  <2>5. beacon'[u] = beacon[u] \/ beacon'[u].stage # "passed"
    BY <1>4, <1>a, <1>n DEF ServerCommits
  <2> QED
    BY <1>b, <2>2, <2>4, <2>5
<1>5. ASSUME NEW t \in Tabs, ServerAnswers(t) PROVE Based(save[u])' /\ Based(beacon[u])'
  <2>1. [save[t] EXCEPT !.stage = "saved", !.hash = Hash(draft)].stage = "saved"
    <3>1. save[t] \in Saves
      BY <1>a
    <3> QED
      BY <3>1 DEF Saves
  <2>2. save'[u] = save[u] \/ save'[u].stage # "passed"
    BY <1>5, <1>a, <2>1 DEF ServerAnswers
  <2>3. UNCHANGED <<beacon, draft, lost>>
    BY <1>5 DEF ServerAnswers
  <2> QED
    BY <1>b, <2>2, <2>3
<1>9. ASSUME NEW t \in Tabs, SaveFails(t) PROVE Based(save[u])' /\ Based(beacon[u])'
  <2>1. /\ UNCHANGED <<draft, lost>> /\ save' = [save EXCEPT ![t] = NoSave]
        /\ beacon' = beacon \/ beacon' = [beacon EXCEPT ![t] = save[t]]
    BY <1>9 DEF SaveFails
  <2>2. save'[u] \in {save[u], NoSave} /\ beacon'[u] \in {beacon[u], save[u]}
    BY <1>a, <2>1
  <2> QED
    BY <1>0, <1>n, <2>1, <2>2 DEF Based
<1>6. ASSUME NEW t \in Tabs, SaveAnswered(t) \/ SaveRefused(t)
      PROVE  Based(save[u])' /\ Based(beacon[u])'
  <2>1. UNCHANGED <<beacon, draft, lost>> /\ save' = [save EXCEPT ![t] = NoSave]
    BY <1>6 DEF SaveAnswered, SaveRefused, ghosts
  <2>2. save'[u] = save[u] \/ save'[u].stage # "passed"
    BY <1>a, <1>n, <2>1
  <2> QED
    BY <1>b, <2>1, <2>2
<1>7. ASSUME NEW t \in Tabs, Hide(t) PROVE Based(save[u])' /\ Based(beacon[u])'
  <2>1. /\ UNCHANGED <<save, draft, lost>>
        /\ beacon' = beacon \/ beacon' = [beacon EXCEPT ![t] = Message(t, TRUE)]
    BY <1>7 DEF Hide
  <2>2. beacon'[u] = beacon[u] \/ beacon'[u].stage = "sent"
    BY <1>a, <2>1 DEF Message
  <2> QED
    BY <1>b, <2>1, <2>2
<1>8. CASE UNCHANGED vars
  BY <1>b, <1>8 DEF vars, net, ghosts
<1> QED
  BY <1>1, <1>2, <1>3, <1>4, <1>5, <1>6, <1>7, <1>8, <1>9 DEF Next

(***************************************************************************)
(* While only one page saves and it had an answer to every save and no     *)
(* refresh that crossed one, it knows the draft: by its hash between its   *)
(* saves, by the hash of the save before the server commits it and by the  *)
(* answer after that.  Its canvas holds every variable of the draft.       *)
(***************************************************************************)
Fresh(t) == \A i \in DOMAIN refreshes[t] :
              refreshes[t][i].stage = "read" => refreshes[t][i].got = draft

Follows(t) ==
  /\ beacon[t].stage = "none"
  /\ save[t].stage # "refused"
  /\ save[t].stage = "none" => hash[t] = Hash(draft)
  /\ save[t].stage \in {"sent", "passed", "saved"} => save[t].hash = Hash(draft)
  /\ save[t].stage \in {"sent", "passed"} => draft \cap Variables \subseteq save[t].body
  /\ save[t].stage # "none" => Waiting(t) /\ save[t].body \subseteq canvas[t]
  /\ draft \cap Variables \subseteq canvas[t]
  /\ Fresh(t)

Alone(t) == writers \subseteq {t} /\ excuse[t] \cap {"unanswered", "crossed"} = {}

AloneInv == \A t \in Tabs : Alone(t) => Follows(t)

LEMMA InitAlone == Init => AloneInv
BY DEF Init, AloneInv, Follows, Fresh, Waiting, NoSave, Hash

\* A sequence without one of its elements: the part before, and the part after.
LEMMA RemoveParts ==
  ASSUME NEW s \in Seq(Refreshes), NEW i \in DOMAIN s
  PROVE  /\ Len(s) \in Nat /\ DOMAIN s = 1..Len(s) /\ i \in 1..Len(s)
         /\ DOMAIN RemoveAt(s, i) = 1..Len(s) - 1
         /\ \A m \in 1..Len(s) - 1 : RemoveAt(s, i)[m] = IF m < i THEN s[m] ELSE s[m + 1]
<1> DEFINE a == SubSeq(s, 1, i - 1)
           b == SubSeq(s, i + 1, Len(s))
<1>1. Len(s) \in Nat /\ i \in 1..Len(s) /\ DOMAIN s = 1..Len(s)
  BY LenProperties
<1>2. /\ 1 \in 1..Len(s) + 1 /\ i - 1 \in 0..Len(s)
      /\ i + 1 \in 1..Len(s) + 1 /\ Len(s) \in 0..Len(s)
  BY <1>1
<1>3. /\ a \in Seq(Refreshes) /\ Len(a) = i - 1
      /\ \A m \in 1..i - 1 : a[m] = s[m]
  <2>1. /\ a \in Seq(Refreshes)
        /\ Len(a) = IF 1 <= i - 1 THEN i - 1 - 1 + 1 ELSE 0
        /\ \A m \in 1..i - 1 - 1 + 1 : a[m] = s[1 + m - 1]
    BY <1>2, SubSeqProperties
  <2> QED
    BY <1>1, <2>1
<1>4. /\ b \in Seq(Refreshes) /\ Len(b) = Len(s) - i
      /\ \A m \in 1..Len(s) - i : b[m] = s[i + m]
  <2>1. /\ b \in Seq(Refreshes)
        /\ Len(b) = IF i + 1 <= Len(s) THEN Len(s) - (i + 1) + 1 ELSE 0
        /\ \A m \in 1..Len(s) - (i + 1) + 1 : b[m] = s[i + 1 + m - 1]
    BY <1>2, SubSeqProperties
  <2> QED
    BY <1>1, <2>1, SMTT(30)
<1>5. RemoveAt(s, i) = a \o b
  BY DEF RemoveAt
<1> HIDE DEF a, b
<1>6. Len(a) + Len(b) = Len(s) - 1 /\ Len(a) \in Nat /\ Len(b) \in Nat
  BY <1>1, <1>3, <1>4
<1>7. /\ a \o b \in Seq(Refreshes) /\ Len(a \o b) = Len(a) + Len(b)
      /\ \A m \in 1..Len(a) + Len(b) : (a \o b)[m] = IF m <= Len(a) THEN a[m] ELSE b[m - Len(a)]
  BY <1>3, <1>4, ConcatProperties
<1>8. DOMAIN RemoveAt(s, i) = 1..Len(s) - 1
  BY <1>5, <1>6, <1>7, LenProperties
<1>9. ASSUME NEW m \in 1..Len(s) - 1
      PROVE  RemoveAt(s, i)[m] = IF m < i THEN s[m] ELSE s[m + 1]
  <2>1. RemoveAt(s, i)[m] = IF m <= i - 1 THEN a[m] ELSE b[m - (i - 1)]
    BY <1>3, <1>5, <1>6, <1>7
  <2>2. CASE m < i
    <3>1. m \in 1..i - 1 /\ m <= i - 1
      BY <1>1, <2>2
    <3> QED
      BY <1>3, <2>1, <2>2, <3>1
  <2>3. CASE ~(m < i)
    <3>1. m - (i - 1) \in 1..Len(s) - i /\ i + (m - (i - 1)) = m + 1 /\ ~(m <= i - 1)
      BY <1>1, <2>3
    <3>2. b[m - (i - 1)] = s[m + 1]
      BY <1>4, <3>1
    <3> QED
      BY <2>1, <2>3, <3>1, <3>2
  <2> QED
    BY <2>2, <2>3
<1> QED
  BY <1>1, <1>8, <1>9

\* The elements that are left of a sequence are elements it had.
LEMMA RemovedElements ==
  ASSUME NEW s \in Seq(Refreshes), NEW i \in DOMAIN s, NEW j \in DOMAIN RemoveAt(s, i)
  PROVE  \E k \in DOMAIN s : RemoveAt(s, i)[j] = s[k]
<1>1. j \in 1..Len(s) /\ (~(j < i) => j + 1 \in 1..Len(s))
  BY RemoveParts
<1> QED
  BY <1>1, RemoveParts

\* Every other element is left.
LEMMA KeptElements ==
  ASSUME NEW s \in Seq(Refreshes), NEW i \in DOMAIN s, NEW k \in DOMAIN s, k # i
  PROVE  \E j \in DOMAIN RemoveAt(s, i) : RemoveAt(s, i)[j] = s[k]
<1>1. /\ Len(s) \in Nat /\ i \in 1..Len(s) /\ k \in 1..Len(s)
  BY RemoveParts
<1>2. CASE k < i
  <2>1. k \in 1..Len(s) - 1
    BY <1>1, <1>2
  <2> QED
    BY <1>2, <2>1, RemoveParts
<1>3. CASE ~(k < i)
  <2>1. k - 1 \in 1..Len(s) - 1 /\ ~(k - 1 < i) /\ k - 1 + 1 = k
    BY <1>1, <1>3
  <2> QED
    BY <2>1, RemoveParts
<1> QED
  BY <1>2, <1>3

LEMMA NextAlone == TypeOK /\ AloneInv /\ [Next]_vars => AloneInv'
<1> SUFFICES ASSUME TypeOK, AloneInv, [Next]_vars, NEW u \in Tabs, Alone(u)'
             PROVE  Follows(u)'
  BY DEF AloneInv
<1>a. /\ canvas \in [Tabs -> Contents] /\ hash \in [Tabs -> Contents]
      /\ save \in [Tabs -> Saves] /\ beacon \in [Tabs -> Saves]
      /\ excuse \in [Tabs -> SUBSET Excuses]
      /\ refreshes \in [Tabs -> Seq(Refreshes)]
  BY DEF TypeOK
<1>b. ASSUME NEW t \in Tabs PROVE refreshes[t] \in Seq(Refreshes)
  BY <1>a
<1>c. ASSUME writers \subseteq writers', excuse[u] \subseteq excuse'[u] PROVE Follows(u)
  BY <1>c DEF AloneInv, Alone
<1>n. NoSave.stage = "none"
  BY DEF NoSave
<1>1. ASSUME NEW t \in Tabs, NEW e \in Edits, Edit(t, e) PROVE Follows(u)'
  <2>1. UNCHANGED <<hash, save, beacon, refreshes, draft, writers, excuse>> /\ canvas[u] \subseteq canvas'[u]
    BY <1>1, <1>a DEF Edit, net
  <2> QED
    BY <1>c, <2>1 DEF Follows, Fresh, Waiting
<1>2. ASSUME NEW t \in Tabs, DebounceFires(t) PROVE Follows(u)'
  <2>1. UNCHANGED <<canvas, hash, save, beacon, refreshes, draft, writers, excuse>>
    BY <1>2 DEF DebounceFires, net, ghosts
  <2> QED
    BY <1>c, <2>1 DEF Follows, Fresh, Waiting
<1>3. ASSUME NEW t \in Tabs, PerformSync(t) PROVE Follows(u)'
  <2>1. /\ UNCHANGED <<canvas, hash, beacon, refreshes, draft, writers>>
        /\ save[t].stage = "none"
        /\ save' = save \/ save' = [save EXCEPT ![t] = Message(t, Head(queue[t]))]
        /\ excuse' = [excuse EXCEPT ![t] = IF Overlaps(t) THEN @ \union {"crossed"} ELSE @]
    BY <1>3 DEF PerformSync, MaySync
  <2>2. excuse[u] \subseteq excuse'[u]
    BY <2>1, <1>a
  <2>3. Follows(u)
    BY <1>c, <2>1, <2>2
  <2>4. CASE save'[u] = save[u]
    BY <2>1, <2>3, <2>4 DEF Follows, Fresh, Waiting
  <2>5. CASE save'[u] # save[u]
    <3>1. /\ u = t /\ save'[u].stage = "sent" /\ save'[u].hash = hash[u] /\ save'[u].body = canvas[u]
          /\ save[u].stage = "none"
      BY <2>1, <2>5, <1>a DEF Message
    <3>2. ~Overlaps(u)
      BY <2>1, <3>1, <1>a DEF Alone
    <3>3. Waiting(u)'
      BY <3>1, <3>2 DEF Overlaps, Waiting
    <3>4. Fresh(u)'
      BY <2>1, <2>3 DEF Follows, Fresh
    <3> QED
      BY <2>1, <2>3, <3>1, <3>3, <3>4 DEF Follows
  <2> QED
    BY <2>4, <2>5
<1>4. ASSUME NEW t \in Tabs, ServerChecks(t) PROVE Follows(u)'
  <2>1. UNCHANGED <<canvas, hash, refreshes, draft, writers, excuse>>
    BY <1>4 DEF ServerChecks, page, ghosts
  <2>2. Follows(u)
    BY <1>c, <2>1
  <2>3. CASE save'[u] = save[u] /\ beacon'[u] = beacon[u]
    BY <2>1, <2>2, <2>3 DEF Follows, Fresh, Waiting
  <2>4. CASE ~(save'[u] = save[u] /\ beacon'[u] = beacon[u])
    <3>1. u = t /\ beacon' = beacon /\ save[u].stage = "sent" /\ save' = [save EXCEPT ![t] = Checked(@)]
      BY <1>4, <1>a, <2>2, <2>4 DEF ServerChecks, Follows
    <3>2. save[u] \in Saves /\ save[u].hash = Hash(draft)
      BY <1>a, <2>2, <3>1 DEF Follows
    <3>3. /\ Checked(save[u]).stage = "passed" /\ Checked(save[u]).hash = save[u].hash
          /\ Checked(save[u]).body = save[u].body
      BY <3>2 DEF Checked, Saves
    <3>4. save'[u].stage = "passed" /\ save'[u].hash = Hash(draft) /\ save'[u].body = save[u].body
      BY <1>a, <3>1, <3>2, <3>3
    <3> QED
      BY <2>1, <2>2, <3>1, <3>4 DEF Follows, Fresh, Waiting
  <2> QED
    BY <2>3, <2>4
<1>5. ASSUME NEW t \in Tabs, ServerCommits(t) PROVE Follows(u)'
  <2>1. UNCHANGED <<canvas, hash, refreshes, excuse>> /\ writers' = writers \union {t}
    BY <1>5 DEF ServerCommits, page
  <2>2. Follows(u) /\ u = t
    BY <1>c, <2>1 DEF Alone
  <2>3. /\ save[u].stage = "passed" /\ beacon' = beacon
        /\ draft' = Column(save[u], Graph) \union Column(save[u], Features) \union Column(save[u], Variables)
        /\ save' = [save EXCEPT ![u] = [@ EXCEPT !.stage = "committed", !.base = {}]]
    BY <1>5, <2>2 DEF ServerCommits, Committed, Follows
  <2>4. save[u] \in Saves
    BY <1>a
  <2>5. save'[u].stage = "committed" /\ save'[u].body = save[u].body
    <3>1. LET m == [save[u] EXCEPT !.stage = "committed", !.base = {}]
          IN  m.stage = "committed" /\ m.body = save[u].body
      BY <2>4 DEF Saves
    <3> QED
      BY <1>a, <2>3, <3>1
  <2>6. Waiting(u) /\ Waiting(u)'
    BY <2>1, <2>2, <2>3 DEF Follows, Waiting
  <2>7. Fresh(u)'
    BY <2>6 DEF Fresh, Waiting
  \* The columns of the graph and of the features hold no variable.
  <2>8. draft' \cap Variables \subseteq (draft \union save[u].body) \cap Variables
    BY <2>3, EditsHaveOneColumn DEF Column, Graph
  <2>9. draft' \cap Variables \subseteq canvas[u]
    BY <2>2, <2>3, <2>8 DEF Follows
  <2> QED
    BY <2>1, <2>2, <2>3, <2>5, <2>6, <2>7, <2>9 DEF Follows
<1>17. ASSUME NEW t \in Tabs, ServerAnswers(t) PROVE Follows(u)'
  <2> DEFINE m == [save[t] EXCEPT !.stage = "saved", !.hash = Hash(draft)]
  <2>1. /\ UNCHANGED <<canvas, hash, beacon, refreshes, draft, writers>> /\ save[t].stage = "committed"
        /\ save' = [save EXCEPT ![t] = m]
        /\ excuse' = [excuse EXCEPT ![t] = IF Lacks(save[t].body, draft) THEN @ \union {"overtaken"} ELSE @]
    BY <1>17 DEF ServerAnswers, page, bounds
  <2>2. Follows(u)
    <3>1. excuse[u] \subseteq excuse'[u]
      BY <2>1, <1>a
    <3> QED
      BY <1>c, <2>1, <3>1
  <2>3. m.stage = "saved" /\ m.hash = Hash(draft) /\ m.body = save[t].body
    <3>1. save[t] \in Saves
      BY <1>a
    <3> QED
      BY <3>1 DEF Saves
  <2> HIDE DEF m
  <2>4. save'[u] = save[u] \/ (u = t /\ save'[u] = m)
    BY <1>a, <2>1
  <2> QED
    BY <2>1, <2>2, <2>3, <2>4 DEF Follows, Fresh, Waiting
<1>6. ASSUME NEW t \in Tabs, SaveAnswered(t) PROVE Follows(u)'
  <2>1. /\ UNCHANGED <<canvas, beacon, refreshes, draft, writers, excuse>> /\ save[t].stage = "saved"
        /\ hash' = [hash EXCEPT ![t] = save[t].hash] /\ save' = [save EXCEPT ![t] = NoSave]
    BY <1>6 DEF SaveAnswered, ghosts
  <2>2. Follows(u)
    BY <1>c, <2>1
  <2>3. CASE u # t
    <3>1. save'[u] = save[u] /\ hash'[u] = hash[u]
      BY <1>a, <2>1, <2>3
    <3> QED
      BY <2>1, <2>2, <3>1 DEF Follows, Fresh, Waiting
  <2>4. CASE u = t
    <3>1. save'[u] = NoSave /\ hash'[u] = Hash(draft)
      BY <1>a, <2>1, <2>2, <2>4 DEF Follows
    <3> QED
      BY <1>n, <2>1, <2>2, <3>1 DEF Follows, Fresh
  <2> QED
    BY <2>3, <2>4
<1>7. ASSUME NEW t \in Tabs, SaveRefused(t) PROVE Follows(u)'
  <2>1. UNCHANGED <<canvas, hash, beacon, draft, writers, excuse>> /\ save[t].stage = "refused"
    BY <1>7 DEF SaveRefused, page
  <2>2. Follows(u)
    BY <1>c, <2>1
  <2>3. u # t
    BY <2>1, <2>2 DEF Follows
  <2>4. save'[u] = save[u] /\ refreshes'[u] = refreshes[u]
    BY <1>7, <1>a, <2>3 DEF SaveRefused
  <2> QED
    BY <2>1, <2>2, <2>4 DEF Follows, Fresh, Waiting
<1>8. ASSUME NEW t \in Tabs, SaveFails(t) PROVE Follows(u)'
  <2>1. /\ UNCHANGED <<canvas, hash, refreshes, draft, writers>> /\ save' = [save EXCEPT ![t] = NoSave]
        /\ beacon' = beacon \/ beacon' = [beacon EXCEPT ![t] = save[t]]
        /\ excuse' = [excuse EXCEPT ![t] = @ \union {"unanswered"}]
    BY <1>8 DEF SaveFails, page
  <2>2. u # t
    BY <1>a, <2>1 DEF Alone
  <2>3. save'[u] = save[u] /\ beacon'[u] = beacon[u] /\ excuse'[u] = excuse[u]
    BY <1>a, <2>1, <2>2
  <2> QED
    BY <1>c, <2>1, <2>3 DEF Follows, Fresh, Waiting
<1>9. ASSUME NEW t \in Tabs, NEW i \in DOMAIN refreshes[t], RefreshStarts(t, i) PROVE Follows(u)'
  <2>1. /\ UNCHANGED <<canvas, hash, save, beacon, draft, writers>>
        /\ refreshes' = [refreshes EXCEPT ![t][i] = [@ EXCEPT !.stage = "sent", !.was = loaded[t]]]
        /\ excuse' = [excuse EXCEPT ![t] = IF Overlaps(t) THEN @ \union {"crossed"} ELSE @]
    BY <1>9 DEF RefreshStarts
  <2>2. excuse[u] \subseteq excuse'[u]
    BY <2>1, <1>a
  <2>3. Follows(u)
    BY <1>c, <2>1, <2>2
  <2>4. CASE u # t
    <3>1. refreshes'[u] = refreshes[u]
      BY <1>a, <2>1, <2>4
    <3> QED
      BY <2>1, <2>3, <3>1 DEF Follows, Fresh, Waiting
  <2>5. CASE u = t
    <3>1. /\ DOMAIN refreshes'[u] = DOMAIN refreshes[u] /\ i \in DOMAIN refreshes'[u]
          /\ refreshes'[u][i].stage = "sent"
          /\ \A j \in DOMAIN refreshes[u] : j # i => refreshes'[u][j] = refreshes[u][j]
      <4>1. refreshes'[u] = [refreshes[u] EXCEPT ![i] = [@ EXCEPT !.stage = "sent", !.was = loaded[t]]]
        BY <1>a, <2>1, <2>5
      <4>2. refreshes[u][i] \in Refreshes
        BY <1>b, <2>5, LenProperties, ElementOfSeq
      <4>3. [refreshes[u][i] EXCEPT !.stage = "sent", !.was = loaded[t]].stage = "sent"
        BY <4>2 DEF Refreshes
      <4> QED
        BY <4>1, <4>3, <2>5
    <3>2. Fresh(u)'
      BY <2>1, <2>3, <3>1 DEF Follows, Fresh
    <3>3. ~Overlaps(u)
      BY <2>1, <2>5, <1>a DEF Alone
    <3>4. save'[u].stage = "none"
      BY <3>1, <3>3 DEF Overlaps
    <3> QED
      BY <2>1, <2>3, <3>2, <3>4 DEF Follows
  <2> QED
    BY <2>4, <2>5
<1>10. ASSUME NEW t \in Tabs, NEW i \in DOMAIN refreshes[t], ServerReads(t, i) PROVE Follows(u)'
  <2>1. /\ UNCHANGED <<canvas, hash, save, beacon, draft, writers, excuse>> /\ refreshes[t][i].stage = "sent"
        /\ refreshes' = [refreshes EXCEPT ![t][i] = [@ EXCEPT !.stage = "read", !.got = draft]]
    BY <1>10 DEF ServerReads, page, ghosts
  <2>2. Follows(u)
    BY <1>c, <2>1
  <2>3. CASE u # t
    <3>1. refreshes'[u] = refreshes[u]
      BY <1>a, <2>1, <2>3
    <3> QED
      BY <2>1, <2>2, <3>1 DEF Follows, Fresh, Waiting
  <2>4. CASE u = t
    <3>1. /\ DOMAIN refreshes'[u] = DOMAIN refreshes[u]
          /\ refreshes'[u][i].got = draft
          /\ \A j \in DOMAIN refreshes[u] : j # i => refreshes'[u][j] = refreshes[u][j]
      <4>1. refreshes'[u] = [refreshes[u] EXCEPT ![i] = [@ EXCEPT !.stage = "read", !.got = draft]]
        BY <1>a, <2>1, <2>4
      <4>2. refreshes[u][i] \in Refreshes
        BY <1>b, <2>4, LenProperties, ElementOfSeq
      <4>3. [refreshes[u][i] EXCEPT !.stage = "read", !.got = draft].got = draft
        BY <4>2 DEF Refreshes
      <4> QED
        BY <4>1, <4>3, <2>4
    <3>2. Fresh(u)'
      BY <2>1, <2>2, <3>1 DEF Follows, Fresh
    <3>3. save[u].stage = "none"
      BY <2>1, <2>2, <2>4 DEF Follows, Waiting
    <3> QED
      BY <2>1, <2>2, <3>2, <3>3 DEF Follows
  <2> QED
    BY <2>3, <2>4
<1>d. ASSUME NEW t \in Tabs, NEW i \in DOMAIN refreshes[t], refreshes[t][i].stage # "wanted", Follows(u),
             refreshes' = [refreshes EXCEPT ![t] = RemoveAt(@, i)], UNCHANGED <<draft, save>>
      PROVE  Fresh(u)' /\ (save'[u].stage # "none" => Waiting(u)')
  <2>1. CASE u # t
    <3>1. refreshes'[u] = refreshes[u]
      BY <1>a, <1>d, <2>1
    <3> QED
      BY <1>d, <3>1 DEF Follows, Fresh, Waiting
  <2>2. CASE u = t
    <3>1. refreshes'[u] = RemoveAt(refreshes[u], i)
      BY <1>a, <1>d, <2>2
    <3>2. \A j \in DOMAIN refreshes'[u] : \E k \in DOMAIN refreshes[u] : refreshes'[u][j] = refreshes[u][k]
      BY <1>b, <2>2, <3>1, RemovedElements
    <3>3. Fresh(u)'
      BY <1>d, <3>2 DEF Follows, Fresh
    <3>4. save[u].stage = "none"
      BY <1>d, <2>2 DEF Follows, Waiting
    <3> QED
      BY <1>d, <3>3, <3>4
  <2> QED
    BY <2>1, <2>2
<1>11. ASSUME NEW t \in Tabs, NEW i \in DOMAIN refreshes[t], RefreshAnswered(t, i) PROVE Follows(u)'
  <2>1. /\ UNCHANGED <<save, beacon, draft, writers>> /\ refreshes[t][i].stage = "read"
        /\ refreshes' = [refreshes EXCEPT ![t] = RemoveAt(@, i)]
        /\ hash' = [hash EXCEPT ![t] = Hash(refreshes[t][i].got)]
        /\ canvas' = [canvas EXCEPT ![t] = CanvasAfter(t, refreshes[t][i])]
        /\ excuse' = [excuse EXCEPT ![t] =
                        IF Lacks(canvas'[t], refreshes[t][i].got) THEN @ \union {"kept"} ELSE @]
    BY <1>11 DEF RefreshAnswered
  <2>2. excuse[u] \subseteq excuse'[u]
    BY <2>1, <1>a
  <2>3. Follows(u)
    BY <1>c, <2>1, <2>2
  <2>4. Fresh(u)' /\ (save'[u].stage # "none" => Waiting(u)')
    BY <1>d, <2>1, <2>3
  <2>5. hash'[u] = hash[u] \/ hash'[u] = Hash(draft)
    BY <1>a, <2>1, <2>3 DEF Follows, Fresh
  <2>6. draft \cap Variables \subseteq canvas'[u]
    <3>1. CASE u # t
      BY <1>a, <2>1, <2>3, <3>1 DEF Follows
    <3>2. CASE u = t
      <4>1. refreshes[t][i].got = draft
        BY <2>1, <2>3, <3>2 DEF Follows, Fresh
      <4>2. canvas'[u] = CanvasAfter(t, refreshes[t][i])
        BY <1>a, <2>1, <3>2
      <4> QED
        BY <4>1, <4>2 DEF CanvasAfter
    <3> QED
      BY <3>1, <3>2
  <2>7. save[u].stage # "none" => canvas'[u] = canvas[u]
    BY <1>a, <2>1, <2>3 DEF Follows, Waiting
  <2> QED
    BY <2>1, <2>3, <2>4, <2>5, <2>6, <2>7 DEF Follows
<1>12. ASSUME NEW t \in Tabs, NEW i \in DOMAIN refreshes[t], RefreshFails(t, i) PROVE Follows(u)'
  <2>1. /\ UNCHANGED <<canvas, hash, save, beacon, draft, writers, excuse>>
        /\ refreshes[t][i].stage \in {"sent", "read"}
        /\ refreshes' = [refreshes EXCEPT ![t] = RemoveAt(@, i)]
    BY <1>12 DEF RefreshFails, ghosts
  <2>2. Follows(u)
    BY <1>c, <2>1
  <2>3. Fresh(u)' /\ (save'[u].stage # "none" => Waiting(u)')
    BY <1>d, <2>1, <2>2
  <2> QED
    BY <2>1, <2>2, <2>3 DEF Follows
<1>13. ASSUME NEW t \in Tabs, Hide(t) PROVE Follows(u)'
  <2>1. UNCHANGED <<canvas, hash, save, refreshes, draft, writers>>
    BY <1>13 DEF Hide
  <2>2. /\ excuse[u] \subseteq excuse'[u]
        /\ beacon'[u] # beacon[u] => "unanswered" \in excuse'[u]
    BY <1>13, <1>a DEF Hide
  <2>3. beacon'[u] = beacon[u]
    BY <2>2 DEF Alone
  <2> QED
    BY <1>c, <2>1, <2>2, <2>3 DEF Follows, Fresh, Waiting
<1>14. ASSUME NEW t \in Tabs, Show(t) PROVE Follows(u)'
  <2>1. UNCHANGED <<canvas, hash, save, beacon, draft, writers, excuse>>
    BY <1>14 DEF Show, ghosts
  <2>2. refreshes' = refreshes \/ refreshes' = [refreshes EXCEPT ![t] = Append(@, Wanted(FALSE))]
    BY <1>14 DEF Show
  <2>3. refreshes'[u] = refreshes[u] \/ refreshes'[u] = Append(refreshes[u], Wanted(FALSE))
    BY <2>2, <1>a
  <2>4. Waiting(u) => Waiting(u)'
    BY <2>3, <1>b, OneMoreWanted DEF Waiting
  <2>5. Fresh(u) => Fresh(u)'
    <3>1. \A j \in DOMAIN refreshes'[u] :
            \/ j \in DOMAIN refreshes[u] /\ refreshes'[u][j] = refreshes[u][j]
            \/ refreshes'[u][j].stage = "wanted"
      <4>1. Wanted(FALSE).stage = "wanted"
        BY DEF Wanted
      <4>2. Len(refreshes[u]) \in Nat /\ DOMAIN refreshes[u] = 1..Len(refreshes[u])
        BY <1>b, LenProperties
      <4>3. CASE refreshes'[u] = Append(refreshes[u], Wanted(FALSE))
        <5> DEFINE s == refreshes[u]
                   x == Wanted(FALSE)
        <5>1. s \in Seq(Refreshes) /\ refreshes'[u] = Append(s, x) /\ x.stage = "wanted"
          BY <1>b, <4>1, <4>3
        <5>2. Len(s) \in Nat /\ DOMAIN s = 1..Len(s)
          BY <4>2
        <5> HIDE DEF s, x
        <5>3. /\ DOMAIN Append(s, x) = 1..Len(s) + 1
              /\ Append(s, x)[Len(s) + 1] = x
              /\ \A j \in 1..Len(s) : Append(s, x)[j] = s[j]
          BY <5>1, <5>2
        <5>4. \A j \in DOMAIN refreshes'[u] :
                \/ j \in DOMAIN s /\ refreshes'[u][j] = s[j]
                \/ refreshes'[u][j].stage = "wanted"
          BY <5>1, <5>2, <5>3
        <5> QED
          BY <5>4 DEF s
      <4> QED
        BY <2>3, <4>3
    <3> QED
      BY <2>1, <3>1 DEF Fresh
  <2> QED
    BY <1>c, <2>1, <2>4, <2>5 DEF Follows
<1>15. ASSUME NEW t \in Tabs, Leave(t) PROVE Follows(u)'
  <2>1. UNCHANGED <<canvas, hash, save, beacon, refreshes, draft, writers, excuse>>
    BY <1>15 DEF Leave, net, ghosts
  <2> QED
    BY <1>c, <2>1 DEF Follows, Fresh, Waiting
<1>16. CASE UNCHANGED vars
  <2>1. UNCHANGED <<canvas, hash, save, beacon, refreshes, draft, writers, excuse>>
    BY <1>16 DEF vars, page, net, ghosts
  <2> QED
    BY <1>c, <2>1 DEF Follows, Fresh, Waiting
<1> QED
  BY <1>1, <1>2, <1>3, <1>4, <1>5, <1>6, <1>7, <1>8, <1>9, <1>10, <1>11, <1>12, <1>13, <1>14, <1>15,
     <1>16, <1>17 DEF Next

\* The saves of one page never refuse each other: a refused save is another
\* page's doing, or the page missed the answer to a save or read the draft
\* while a save was under way.
THEOREM NoConflict == Spec => []NoSelfConflict
<1>1. AloneInv => NoSelfConflict
  BY DEF AloneInv, Alone, Follows, NoSelfConflict
<1> QED
  BY <1>1, InitTyped, NextTyped, InitAlone, NextAlone, PTL DEF Spec, Safety

\* An accepted save takes an edit of the graph or of the features away from the
\* server only if its page had a doubtful hash or the draft changed between the
\* server's check and its commit: otherwise the content the save replaces is the
\* one its hash names, which is part of its body.  It takes an edit of a variable
\* away only if another page has saved, or its page missed an answer or read the
\* draft while a save was under way.
THEOREM OverwritesKnown == Spec => OverwritesOnlyKnown
<1>1. TypeOK /\ KnownInv /\ BasedInv /\ AloneInv /\ [Next]_vars =>
        [\A t \in Tabs : \A e \in draft \ draft' :
           ServerCommits(t) =>
             IF e \in Variables
             THEN writers \ {t} # {} \/ excuse[t] \cap {"unanswered", "crossed"} # {}
             ELSE Raced(t) \/ excuse[t] \cap {"kept", "overtaken", "crossed"} # {}]_vars
  <2> SUFFICES ASSUME TypeOK, KnownInv, BasedInv, AloneInv, NEW t \in Tabs, NEW e \in draft \ draft',
                      ServerCommits(t)
               PROVE  IF e \in Variables
                      THEN writers \ {t} # {} \/ excuse[t] \cap {"unanswered", "crossed"} # {}
                      ELSE Raced(t) \/ excuse[t] \cap {"kept", "overtaken", "crossed"} # {}
    OBVIOUS
  <2>1. Known(t) /\ Based(save[t]) /\ Based(beacon[t]) /\ (Alone(t) => Follows(t))
    BY DEF KnownInv, BasedInv, AloneInv
  <2>2. draft \in Contents
    BY DEF TypeOK
  <2>3. PICK m \in {save[t], beacon[t]} : Committed(m)
    BY DEF ServerCommits
  <2>4. /\ m.stage = "passed"
        /\ draft' = Column(m, Graph) \union Column(m, Features) \union Column(m, Variables)
    BY <2>3 DEF Committed
  <2>5. CASE e \in Variables
    <3>1. SUFFICES ASSUME Alone(t) PROVE FALSE
      BY <2>5 DEF Alone
    <3>2. m = save[t]
      BY <2>1, <2>3, <2>4, <3>1 DEF Follows
    <3>3. e \in m.body
      BY <2>1, <2>4, <2>5, <3>1, <3>2 DEF Follows
    <3> QED
      BY <2>4, <2>5, <3>3 DEF Column
  <2>6. CASE e \notin Variables
    <3>1. SUFFICES ASSUME ~Raced(t), excuse[t] \cap {"kept", "overtaken", "crossed"} = {} PROVE FALSE
      BY <2>6
    <3>2. m.hash = Hash(draft)
      <4>1. m.hash = Hash(m.base)
        BY <2>1, <2>3, <2>4 DEF Based
      <4> QED
        BY <2>3, <2>4, <3>1, <4>1 DEF Raced
    <3>3. m.hash \subseteq m.body
      BY <2>1, <2>3, <2>4, <3>1 DEF Known
    <3>4. e \in m.body
      BY <2>6, <3>2, <3>3 DEF Hash
    <3>5. e \in Graph \/ e \in Features
      BY <2>2, <2>6 DEF Contents, Graph
    <3> QED
      BY <2>4, <3>4, <3>5 DEF Column
  <2> QED
    BY <2>5, <2>6
<1> QED
  BY <1>1, InitTyped, NextTyped, InitKnown, NextKnown, InitBased, NextBased, InitAlone, NextAlone, PTL
     DEF Spec, Safety, OverwritesOnlyKnown

(***************************************************************************)
(* Where the edits of a page are: EditIsSavedOrGivenUp, and what the save  *)
(* under way carries, which is what the page owes when it ends.            *)
(***************************************************************************)
Settled == draft \union lost \union dropped

Pending(t) == debounced[t] \/ queue[t] # <<>>

Carries(t) ==
  /\ save[t].stage = "none" => save[t].body = {}
  /\ save[t].stage \in {"committed", "saved"} => save[t].body \subseteq draft \union lost
  /\ save[t].body \cap EditsOf[t] \subseteq canvas[t] \union Settled

Kept(t) ==
  \A e \in EditsOf[t] \cap made :
    e \in Settled \/ (e \in canvas[t] /\ Pending(t)) \/ e \in save[t].body

EditInv == \A t \in Tabs : Carries(t) /\ Kept(t)

LEMMA InitEdit == Init => EditInv
BY DEF Init, EditInv, Carries, Kept, NoSave

\* A queue with one more call is not empty.
LEMMA OneMoreCall ==
  ASSUME NEW q \in Seq(BOOLEAN), NEW b \in BOOLEAN
  PROVE  Append(q, b) # <<>>
<1>1. Len(Append(q, b)) = Len(q) + 1 /\ Len(q) \in Nat
  BY AppendProperties, LenProperties
<1>2. Len(<<>>) = 0
  BY EmptySeq
<1> QED
  BY <1>1, <1>2

LEMMA NextEdit == TypeOK /\ BasedInv /\ EditInv /\ [Next]_vars => EditInv'
<1> SUFFICES ASSUME TypeOK, BasedInv, EditInv, [Next]_vars, NEW u \in Tabs
             PROVE  Carries(u)' /\ Kept(u)'
  BY DEF EditInv
<1>0. Carries(u) /\ Kept(u)
  BY DEF EditInv
<1>a. /\ canvas \in [Tabs -> Contents] /\ debounced \in [Tabs -> BOOLEAN]
      /\ save \in [Tabs -> Saves] /\ queue \in [Tabs -> Seq(BOOLEAN)]
  BY DEF TypeOK
<1>b. ASSUME NEW t \in Tabs, NEW b \in BOOLEAN PROVE Append(queue[t], b) # <<>>
  BY <1>a, OneMoreCall
<1>c. /\ NoSave.stage = "none" /\ NoSave.body = {}
  BY DEF NoSave
\* A step that leaves the save, the canvas and the server alone.
<1>d. ASSUME UNCHANGED <<draft, lost, made>>, canvas'[u] = canvas[u], save'[u] = save[u],
             dropped \subseteq dropped',
             Pending(u) => Pending(u)' \/ (canvas[u] \cap EditsOf[u]) \ draft \subseteq dropped'
      PROVE  Carries(u)' /\ Kept(u)'
  BY <1>0, <1>d DEF Carries, Kept, Settled
\* A step that gives up the save and what the canvas holds of the page's edits.
<1>e. ASSUME UNCHANGED <<draft, lost, made, canvas>>, save'[u] = NoSave,
             dropped' = dropped \union Unsaved(u)
      PROVE  Carries(u)' /\ Kept(u)'
  BY <1>0, <1>c, <1>e DEF Carries, Kept, Settled, Unsaved
<1>1. ASSUME NEW t \in Tabs, NEW e \in Edits, Edit(t, e) PROVE Carries(u)' /\ Kept(u)'
  <2>1. /\ UNCHANGED <<save, draft, lost, dropped>> /\ e \in EditsOf[t] /\ made' = made \union {e}
        /\ canvas' = [canvas EXCEPT ![t] = @ \union {e}]
    BY <1>1 DEF Edit, net
  <2>2. canvas[u] \subseteq canvas'[u] /\ (u = t => e \in canvas'[u])
    BY <1>a, <2>1
  <2>3. Pending(u) \/ u = t => Pending(u)'
    <3>1. \/ debounced' = [debounced EXCEPT ![t] = TRUE] /\ queue' = queue
          \/ /\ \E quiet \in BOOLEAN : queue' = [queue EXCEPT ![t] = Append(@, quiet)]
             /\ debounced' = debounced
      BY <1>1 DEF Edit
    <3> QED
      BY <1>a, <1>b, <3>1 DEF Pending
  <2>4. u # t => e \notin EditsOf[u]
    BY <2>1, EditsHaveOnePage
  <2> QED
    BY <1>0, <2>1, <2>2, <2>3, <2>4 DEF Carries, Kept, Settled
<1>2. ASSUME NEW t \in Tabs, DebounceFires(t) PROVE Carries(u)' /\ Kept(u)'
  <2>1. /\ UNCHANGED <<canvas, save, draft, lost, made, dropped>>
        /\ debounced' = [debounced EXCEPT ![t] = FALSE]
        /\ queue' = [queue EXCEPT ![t] = Append(@, FALSE)]
    BY <1>2 DEF DebounceFires, net, ghosts
  <2>2. Pending(u) => Pending(u)'
    BY <1>a, <1>b, <2>1 DEF Pending
  <2> QED
    BY <1>d, <2>1, <2>2
<1>3. ASSUME NEW t \in Tabs, PerformSync(t) PROVE Carries(u)' /\ Kept(u)'
  <2>1. /\ UNCHANGED <<canvas, debounced, draft, lost, made>> /\ save[t].stage = "none"
        /\ queue' = [queue EXCEPT ![t] = Tail(@)]
    BY <1>3 DEF PerformSync, MaySync
  <2>2. CASE u # t
    <3>1. queue'[u] = queue[u] /\ save'[u] = save[u] /\ dropped \subseteq dropped'
      BY <1>3, <1>a, <2>1, <2>2 DEF PerformSync
    <3> QED
      BY <1>d, <2>1, <3>1 DEF Pending
  <2>3. CASE u = t /\ loaded[t]
    <3>1. /\ dropped' = dropped
          /\ save' = [save EXCEPT ![t] = Message(t, Head(queue[t]))]
      BY <1>3, <2>3 DEF PerformSync
    <3>2. save'[u].stage = "sent" /\ save'[u].body = canvas[u]
      BY <1>a, <2>3, <3>1 DEF Message
    <3>3. save[u].body = {}
      BY <1>0, <2>1, <2>3 DEF Carries
    <3> QED
      BY <1>0, <2>1, <3>1, <3>2, <3>3 DEF Carries, Kept, Settled
  <2>4. CASE u = t /\ ~loaded[t]
    <3>1. dropped' = dropped \union Unsaved(u) /\ save' = save
      BY <1>3, <2>4 DEF PerformSync
    <3> QED
      BY <1>d, <2>1, <3>1 DEF Unsaved
  <2> QED
    BY <2>2, <2>3, <2>4
<1>4. ASSUME NEW t \in Tabs, ServerChecks(t) PROVE Carries(u)' /\ Kept(u)'
  <2>1. UNCHANGED <<canvas, debounced, queue, draft, lost, made, dropped>>
    BY <1>4 DEF ServerChecks, page, ghosts
  <2>2. \/ save'[u] = save[u]
        \/ /\ save'[u].body = save[u].body /\ save'[u].stage \in {"passed", "refused"}
    <3>1. save[t] \in Saves
      BY <1>a
    <3>2. Checked(save[t]).body = save[t].body /\ Checked(save[t]).stage \in {"passed", "refused"}
      BY <3>1 DEF Checked, Saves
    <3>3. save' = save \/ save' = [save EXCEPT ![t] = Checked(@)]
      BY <1>4 DEF ServerChecks
    <3> QED
      BY <1>a, <3>2, <3>3
  <2> QED
    BY <1>0, <2>1, <2>2 DEF Carries, Kept, Settled, Pending
<1>5. ASSUME NEW t \in Tabs, ServerCommits(t) PROVE Carries(u)' /\ Kept(u)'
  <2>1. /\ UNCHANGED <<canvas, debounced, queue, made, dropped>>
        /\ draft \union lost \subseteq draft' \union lost'
    <3>1. save[t] \in Saves /\ beacon[t] \in Saves /\ Based(save[t]) /\ Based(beacon[t])
      BY DEF BasedInv, TypeOK
    <3>2. draft \union lost \subseteq draft' \union lost'
      BY <1>5, <3>1, Written DEF ServerCommits
    <3> QED
      BY <1>5, <3>2 DEF ServerCommits, page
  <2>2. \/ save'[u] = save[u]
        \/ /\ save'[u].stage = "committed" /\ save'[u].body = save[u].body
           /\ save[u].body \subseteq draft' \union lost'
    <3> DEFINE m == [save[t] EXCEPT !.stage = "committed", !.base = {}]
    <3>1. save[t] \in Saves /\ Based(save[t])
      BY <1>a DEF BasedInv
    <3>2. m.stage = "committed" /\ m.body = save[t].body
      BY <3>1 DEF Saves
    <3>3. \/ save' = save
          \/ save' = [save EXCEPT ![t] = m] /\ Committed(save[t])
      BY <1>5 DEF ServerCommits
    <3> HIDE DEF m
    <3>4. Committed(save[t]) => save[t].body \subseteq draft' \union lost'
      BY <3>1, Written
    <3> QED
      BY <1>a, <3>2, <3>3, <3>4
  <2> QED
    BY <1>0, <2>1, <2>2 DEF Carries, Kept, Settled, Pending
<1>17. ASSUME NEW t \in Tabs, ServerAnswers(t) PROVE Carries(u)' /\ Kept(u)'
  <2>1. /\ UNCHANGED <<canvas, debounced, queue, draft, lost, made, dropped>>
        /\ save[t].stage = "committed"
        /\ save' = [save EXCEPT ![t] = [@ EXCEPT !.stage = "saved", !.hash = Hash(draft)]]
    BY <1>17 DEF ServerAnswers, page
  <2>2. \/ save'[u] = save[u]
        \/ save[u].stage = "committed" /\ save'[u].stage = "saved" /\ save'[u].body = save[u].body
    <3>1. save[t] \in Saves
      BY <1>a
    <3>2. LET m == [save[t] EXCEPT !.stage = "saved", !.hash = Hash(draft)]
          IN  m.stage = "saved" /\ m.body = save[t].body
      BY <3>1 DEF Saves
    <3> QED
      BY <1>a, <2>1, <3>2
  <2> QED
    BY <1>0, <2>1, <2>2 DEF Carries, Kept, Settled, Pending
<1>6. ASSUME NEW t \in Tabs, SaveAnswered(t) PROVE Carries(u)' /\ Kept(u)'
  <2>1. /\ UNCHANGED <<canvas, debounced, queue, draft, lost, made, dropped>>
        /\ save[t].stage = "saved" /\ save' = [save EXCEPT ![t] = NoSave]
    BY <1>6 DEF SaveAnswered, ghosts
  <2>2. save'[u] = save[u] \/ (save'[u] = NoSave /\ save[u].stage = "saved")
    BY <1>a, <2>1
  <2> QED
    BY <1>0, <1>c, <2>1, <2>2 DEF Carries, Kept, Settled, Pending
<1>7. ASSUME NEW t \in Tabs, SaveRefused(t) PROVE Carries(u)' /\ Kept(u)'
  <2>1. /\ UNCHANGED <<canvas, debounced, queue, draft, lost, made>>
        /\ save' = [save EXCEPT ![t] = NoSave] /\ dropped' = dropped \union Unsaved(t)
    BY <1>7 DEF SaveRefused, page
  <2>2. save'[u] = save[u] \/ (u = t /\ save'[u] = NoSave)
    BY <1>a, <2>1
  <2> QED
    BY <1>d, <1>e, <2>1, <2>2 DEF Pending
<1>8. ASSUME NEW t \in Tabs, SaveFails(t) PROVE Carries(u)' /\ Kept(u)'
  <2>1. /\ UNCHANGED <<canvas, debounced, queue, draft, lost, made>>
        /\ save' = [save EXCEPT ![t] = NoSave] /\ dropped' = dropped \union Unsaved(t)
    BY <1>8 DEF SaveFails, page
  <2>2. save'[u] = save[u] \/ (u = t /\ save'[u] = NoSave)
    BY <1>a, <2>1
  <2> QED
    BY <1>d, <1>e, <2>1, <2>2 DEF Pending
<1>9. ASSUME NEW t \in Tabs, NEW i \in DOMAIN refreshes[t], RefreshStarts(t, i)
      PROVE  Carries(u)' /\ Kept(u)'
  <2>1. /\ UNCHANGED <<canvas, queue, save, draft, lost, made>>
        /\ debounced' = [debounced EXCEPT ![t] = FALSE]
        /\ dropped' = IF debounced[t] THEN dropped \union Unsaved(t) ELSE dropped
    BY <1>9 DEF RefreshStarts
  <2>2. debounced'[u] = debounced[u] \/ (u = t /\ (debounced[u] => dropped' = dropped \union Unsaved(u)))
    BY <1>a, <2>1
  <2>3. dropped \subseteq dropped'
    BY <2>1
  <2> QED
    BY <1>d, <2>1, <2>2, <2>3 DEF Pending, Unsaved
<1>10. ASSUME NEW t \in Tabs, NEW i \in DOMAIN refreshes[t], ServerReads(t, i)
      PROVE  Carries(u)' /\ Kept(u)'
  <2>1. UNCHANGED <<canvas, debounced, queue, save, draft, lost, made, dropped>>
    BY <1>10 DEF ServerReads, page, ghosts
  <2> QED
    BY <1>d, <2>1 DEF Pending
<1>11. ASSUME NEW t \in Tabs, NEW i \in DOMAIN refreshes[t], RefreshAnswered(t, i)
      PROVE  Carries(u)' /\ Kept(u)'
  <2>1. /\ UNCHANGED <<debounced, queue, save, draft, lost, made>>
        /\ canvas' = [canvas EXCEPT ![t] = CanvasAfter(t, refreshes[t][i])]
        /\ dropped' = dropped \union (Unsaved(t) \ canvas'[t])
    BY <1>11 DEF RefreshAnswered
  <2>2. dropped \subseteq dropped' /\ Pending(u)' = Pending(u)
    BY <2>1 DEF Pending
  <2>3. CASE canvas'[u] = canvas[u]
    BY <1>d, <2>1, <2>2, <2>3
  <2>4. CASE canvas'[u] # canvas[u]
    <3>1. u = t /\ dropped' = dropped \union (Unsaved(u) \ canvas'[u])
      BY <1>a, <2>1, <2>4
    <3> QED
      BY <1>0, <2>1, <2>2, <3>1 DEF Carries, Kept, Settled, Unsaved
  <2> QED
    BY <2>3, <2>4
<1>12. ASSUME NEW t \in Tabs, NEW i \in DOMAIN refreshes[t], RefreshFails(t, i)
      PROVE  Carries(u)' /\ Kept(u)'
  <2>1. UNCHANGED <<canvas, debounced, queue, save, draft, lost, made, dropped>>
    BY <1>12 DEF RefreshFails, ghosts
  <2> QED
    BY <1>d, <2>1 DEF Pending
<1>13. ASSUME NEW t \in Tabs, Hide(t) PROVE Carries(u)' /\ Kept(u)'
  <2>1. UNCHANGED <<canvas, debounced, queue, save, draft, lost, made, dropped>>
    BY <1>13 DEF Hide
  <2> QED
    BY <1>d, <2>1 DEF Pending
<1>14. ASSUME NEW t \in Tabs, Show(t) PROVE Carries(u)' /\ Kept(u)'
  <2>1. UNCHANGED <<canvas, debounced, queue, save, draft, lost, made, dropped>>
    BY <1>14 DEF Show, ghosts
  <2> QED
    BY <1>d, <2>1 DEF Pending
<1>15. ASSUME NEW t \in Tabs, Leave(t) PROVE Carries(u)' /\ Kept(u)'
  <2>1. /\ UNCHANGED <<canvas, save, draft, lost, made, dropped>>
        /\ debounced' = [debounced EXCEPT ![t] = FALSE]
        /\ queue' = [queue EXCEPT ![t] = Append(@, TRUE)]
    BY <1>15 DEF Leave, net, ghosts
  <2>2. Pending(u) => Pending(u)'
    BY <1>a, <1>b, <2>1 DEF Pending
  <2> QED
    BY <1>d, <2>1, <2>2
<1>16. CASE UNCHANGED vars
  <2>1. UNCHANGED <<canvas, debounced, queue, save, draft, lost, made, dropped>>
    BY <1>16 DEF vars, page, net, ghosts
  <2> QED
    BY <1>d, <2>1 DEF Pending
<1> QED
  BY <1>1, <1>2, <1>3, <1>4, <1>5, <1>6, <1>7, <1>8, <1>9, <1>10, <1>11, <1>12, <1>13, <1>14, <1>15,
     <1>16, <1>17 DEF Next

\* No edit of a page vanishes: it is on the server, was there, waits for a save,
\* is in one under way, or the page gave it up in a way the history names.
THEOREM NoEditVanishes == Spec => []EditIsSavedOrGivenUp
<1>1. EditInv => EditIsSavedOrGivenUp
  BY DEF EditInv, Kept, Settled, Pending, EditIsSavedOrGivenUp
<1> QED
  BY <1>1, InitTyped, NextTyped, InitBased, NextBased, InitEdit, NextEdit, PTL DEF Spec, Safety

(***************************************************************************)
(* Why DraftOpensAgain holds: a draft that is closed has a refresh on the  *)
(* way that found it open, the one that closed it, and this one opens it   *)
(* whether it is answered or fails.                                        *)
(***************************************************************************)
Opens(r) == r.stage # "wanted" /\ r.was

OpenerIsOnItsWay ==
  \A t \in Tabs :
    ~loaded[t] => shown[t] = "left" \/ \E i \in DOMAIN refreshes[t] : Opens(refreshes[t][i])

\* A draft that was closed for saves in a page nobody has left will be opened by
\* a refresh that is under way, however refreshes overlap and whichever fail.
THEOREM OpenerRemains == Spec => []OpenerIsOnItsWay
<1>1. Init => OpenerIsOnItsWay
  BY DEF Init, OpenerIsOnItsWay
<1>2. TypeOK /\ OpenerIsOnItsWay /\ [Next]_vars => OpenerIsOnItsWay'
  <2> SUFFICES ASSUME TypeOK, OpenerIsOnItsWay, [Next]_vars, NEW u \in Tabs, ~loaded'[u], shown'[u] # "left"
               PROVE  \E k \in DOMAIN refreshes'[u] : Opens(refreshes'[u][k])
    BY DEF OpenerIsOnItsWay
  <2>a. /\ loaded \in [Tabs -> BOOLEAN] /\ shown \in [Tabs -> {"visible", "hidden", "left"}]
        /\ refreshes \in [Tabs -> Seq(Refreshes)] /\ refreshes[u] \in Seq(Refreshes)
    BY DEF TypeOK
  <2>0. ~loaded[u] /\ shown[u] # "left" => \E k \in DOMAIN refreshes[u] : Opens(refreshes[u][k])
    BY DEF OpenerIsOnItsWay
  <2>1. ASSUME UNCHANGED <<loaded, refreshes>>, shown[u] # "left"
        PROVE  \E k \in DOMAIN refreshes'[u] : Opens(refreshes'[u][k])
    BY <2>0, <2>1
  \* A refresh that is only wanted is added at the end.
  <2>2. ASSUME UNCHANGED loaded, shown[u] # "left", NEW x, refreshes'[u] = Append(refreshes[u], x)
        PROVE  \E k \in DOMAIN refreshes'[u] : Opens(refreshes'[u][k])
    <3>1. PICK k \in DOMAIN refreshes[u] : Opens(refreshes[u][k])
      BY <2>0, <2>2
    <3> DEFINE s == refreshes[u]
    <3>2. s \in Seq(Refreshes) /\ k \in DOMAIN s
      BY <2>a
    <3> HIDE DEF s
    <3>3. Len(s) \in Nat /\ k \in 1..Len(s)
      BY <3>2, LenProperties
    <3>4. k \in DOMAIN Append(s, x) /\ Append(s, x)[k] = s[k]
      BY <3>2, <3>3
    <3> QED
      BY <2>2, <3>1, <3>4 DEF s
  <2>3. ASSUME NEW t \in Tabs, NEW e \in Edits, Edit(t, e)
        PROVE  \E k \in DOMAIN refreshes'[u] : Opens(refreshes'[u][k])
    BY <2>1, <2>3 DEF Edit, net
  <2>4. ASSUME NEW t \in Tabs,
               DebounceFires(t) \/ PerformSync(t) \/ ServerChecks(t) \/ ServerCommits(t)
                 \/ ServerAnswers(t) \/ SaveAnswered(t) \/ SaveFails(t)
        PROVE  \E k \in DOMAIN refreshes'[u] : Opens(refreshes'[u][k])
    BY <2>1, <2>4 DEF DebounceFires, PerformSync, ServerChecks, ServerCommits, ServerAnswers,
       SaveAnswered, SaveFails, page, net
  <2>5. ASSUME NEW t \in Tabs, SaveRefused(t)
        PROVE  \E k \in DOMAIN refreshes'[u] : Opens(refreshes'[u][k])
    <3>1. UNCHANGED <<loaded, shown>>
      BY <2>5 DEF SaveRefused, page
    <3>2. refreshes' = refreshes \/ refreshes' = [refreshes EXCEPT ![t] = Append(@, Wanted(TRUE))]
      BY <2>5 DEF SaveRefused
    <3>3. refreshes'[u] = refreshes[u] \/ refreshes'[u] = Append(refreshes[u], Wanted(TRUE))
      BY <2>a, <3>2
    <3> QED
      BY <2>0, <2>2, <3>1, <3>3
  <2>6. ASSUME NEW t \in Tabs, NEW i \in DOMAIN refreshes[t], RefreshStarts(t, i)
        PROVE  \E k \in DOMAIN refreshes'[u] : Opens(refreshes'[u][k])
    <3>1. /\ UNCHANGED shown /\ loaded' = [loaded EXCEPT ![t] = FALSE]
          /\ refreshes[t][i].stage = "wanted"
          /\ refreshes' = [refreshes EXCEPT ![t][i] = [@ EXCEPT !.stage = "sent", !.was = loaded[t]]]
      BY <2>6 DEF RefreshStarts
    <3>2. CASE u # t
      BY <2>0, <2>a, <3>1, <3>2
    <3>3. CASE u = t
      <4> DEFINE s == refreshes[u]
                 x == [s[i] EXCEPT !.stage = "sent", !.was = loaded[u]]
      <4>1. s \in Seq(Refreshes) /\ i \in DOMAIN s /\ refreshes'[u] = [s EXCEPT ![i] = x]
        BY <2>a, <3>1, <3>3
      <4>2. s[i] \in Refreshes /\ s[i].stage = "wanted"
        BY <2>a, <3>1, <3>3, <4>1, ElementOfSeq, LenProperties
      <4>3. x.stage = "sent" /\ x.was = loaded[u]
        BY <4>2 DEF Refreshes
      <4> HIDE DEF s, x
      <4>4. CASE loaded[u]
        BY <4>1, <4>3, <4>4 DEF Opens
      <4>5. CASE ~loaded[u]
        <5>1. PICK k \in DOMAIN s : Opens(s[k])
          BY <2>0, <3>1, <4>5 DEF s
        <5>2. k # i
          BY <4>2, <5>1 DEF Opens
        <5> QED
          BY <4>1, <5>1, <5>2
      <4> QED
        BY <4>4, <4>5
    <3> QED
      BY <3>2, <3>3
  <2>7. ASSUME NEW t \in Tabs, NEW i \in DOMAIN refreshes[t], ServerReads(t, i)
        PROVE  \E k \in DOMAIN refreshes'[u] : Opens(refreshes'[u][k])
    <3>1. /\ UNCHANGED <<shown, loaded>>
          /\ refreshes' = [refreshes EXCEPT ![t][i] = [@ EXCEPT !.stage = "read", !.got = draft]]
      BY <2>7 DEF ServerReads, page
    <3>2. PICK k \in DOMAIN refreshes[u] : Opens(refreshes[u][k])
      BY <2>0, <3>1
    <3>3. CASE u # t
      BY <2>a, <3>1, <3>2, <3>3
    <3>4. CASE u = t
      <4> DEFINE s == refreshes[u]
                 x == [s[i] EXCEPT !.stage = "read", !.got = draft]
      <4>1. s \in Seq(Refreshes) /\ i \in DOMAIN s /\ refreshes'[u] = [s EXCEPT ![i] = x]
        BY <2>a, <3>1, <3>4
      <4>2. s[i] \in Refreshes
        BY <2>a, <4>1, ElementOfSeq, LenProperties
      <4>3. x.stage = "read" /\ x.was = s[i].was
        BY <4>2 DEF Refreshes
      <4> HIDE DEF x
      <4>4. k = i => Opens(x)
        BY <3>2, <4>3 DEF Opens
      <4> HIDE DEF s
      <4> QED
        BY <3>2, <4>1, <4>4 DEF s
    <3> QED
      BY <3>3, <3>4
  <2>8. ASSUME NEW t \in Tabs, NEW i \in DOMAIN refreshes[t], RefreshAnswered(t, i) \/ RefreshFails(t, i)
        PROVE  \E k \in DOMAIN refreshes'[u] : Opens(refreshes'[u][k])
    <3>1. /\ UNCHANGED shown /\ refreshes' = [refreshes EXCEPT ![t] = RemoveAt(@, i)]
          /\ \/ loaded' = [loaded EXCEPT ![t] = TRUE]
             \/ /\ loaded' = [loaded EXCEPT ![t] = loaded[t] \/ refreshes[t][i].was]
                /\ refreshes[t][i].stage \in {"sent", "read"}
      BY <2>8 DEF RefreshAnswered, RefreshFails, LoadedAfterFailure, ghosts
    <3>2. CASE u # t
      BY <2>0, <2>a, <3>1, <3>2
    <3>3. CASE u = t
      <4>1. ~loaded[u] /\ ~refreshes[u][i].was /\ refreshes'[u] = RemoveAt(refreshes[u], i)
        BY <2>a, <3>1, <3>3
      <4>2. PICK k \in DOMAIN refreshes[u] : Opens(refreshes[u][k])
        BY <2>0, <3>1, <4>1
      <4>3. k # i
        BY <4>1, <4>2 DEF Opens
      <4> QED
        BY <2>a, <3>3, <4>1, <4>2, <4>3, KeptElements
    <3> QED
      BY <3>2, <3>3
  <2>9. ASSUME NEW t \in Tabs, Hide(t)
        PROVE  \E k \in DOMAIN refreshes'[u] : Opens(refreshes'[u][k])
    BY <2>0, <2>9, <2>a DEF Hide
  <2>10. ASSUME NEW t \in Tabs, Show(t)
         PROVE  \E k \in DOMAIN refreshes'[u] : Opens(refreshes'[u][k])
    <3>1. UNCHANGED loaded /\ shown[u] # "left"
      BY <2>10, <2>a DEF Show
    <3>2. refreshes' = refreshes \/ refreshes' = [refreshes EXCEPT ![t] = Append(@, Wanted(FALSE))]
      BY <2>10 DEF Show
    <3>3. refreshes'[u] = refreshes[u] \/ refreshes'[u] = Append(refreshes[u], Wanted(FALSE))
      BY <2>a, <3>2
    <3> QED
      BY <2>0, <2>2, <3>1, <3>3
  <2>11. ASSUME NEW t \in Tabs, Leave(t)
         PROVE  \E k \in DOMAIN refreshes'[u] : Opens(refreshes'[u][k])
    <3>1. u # t /\ UNCHANGED refreshes /\ loaded'[u] = loaded[u] /\ shown'[u] = shown[u]
      BY <2>11, <2>a DEF Leave, net
    <3> QED
      BY <2>0, <3>1
  <2>12. CASE UNCHANGED vars
    BY <2>1, <2>12 DEF vars, page, net
  <2> QED
    BY <2>3, <2>4, <2>5, <2>6, <2>7, <2>8, <2>9, <2>10, <2>11, <2>12 DEF Next
<1> QED
  BY <1>1, <1>2, InitTyped, NextTyped, PTL DEF Spec, Safety
=============================================================================
